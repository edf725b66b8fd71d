CONSTANTS
  a = a
  b = b
  c = c
  k1 = k1
  k2 = k2
  NoTask = NoTask
  h1 = h1
  h2 = h2
  h3 = h3
  Task = {a, b}
  Student = {"student-1"}
  StudentOf <- OneStudent
  Deps <- ChainDeps
  Heavy = {b}
  Connector = {k1}
  Eligible <- AllEligible
  LightCapacity <- OneEach
  HeavyCapacity <- OneEach
  MaxAttempts = 1
  AttemptCap = 2
  Handler = {h1, h2}
  Poller = {h1, h2}
  TeacherOps = {"pause", "resume", "cancel"}
  CanRestart = TRUE
  MayStop = {}
  Preloaded = {}

SPECIFICATION Spec
SYMMETRY HandlerSymmetry

INVARIANTS
  OneOpenAttempt
  DependencyGate
