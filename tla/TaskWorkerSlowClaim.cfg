CONSTANTS
  k1 = k1
  k2 = k2
  Connector = {k1, k2}
  LeaseTime = 12
  Interval = 3
  Timeout = 2
  ClaimTimeout = 6
  Retries = 2
  Grace = 1
  Delay = 1
  ClaimDelay = 4
  MaxAttempts = 2
  AttemptCap = 2
  MayStop = {}

SPECIFICATION Spec
SYMMETRY ConnectorSymmetry

INVARIANT NoDuplicateExecution
