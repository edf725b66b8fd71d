CONSTANTS
  k1 = k1
  k2 = k2
  Connector = {k1, k2}
  LeaseTime = 6
  Interval = 1
  Timeout = 1
  ClaimTimeout = 1
  Retries = 1
  Grace = 1
  Delay = 1
  ClaimDelay = 1
  MaxAttempts = 2
  AttemptCap = 2
  MayStop = {}

SPECIFICATION Spec
SYMMETRY ConnectorSymmetry

INVARIANT NoDuplicateExecution
PROPERTY ImplementsLease
