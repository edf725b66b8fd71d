CONSTANTS
  a = a
  b = b
  c = c
  k1 = k1
  k2 = k2
  NoTask = NoTask
  h1 = h1
  h2 = h2
  h3 = h3
  Task = {a, b, c}
  Student = {"student-1"}
  StudentOf <- OneStudent
  Deps <- JoinDeps
  Heavy = {c}
  Connector = {k1, k2}
  Eligible <- OneOnlyA
  LightCapacity <- OneEach
  HeavyCapacity <- OneEach
  MaxAttempts = 1
  AttemptCap = 1
  Handler = {h1, h2}
  Poller = {h1}
  TeacherOps = {}
  CanRestart = FALSE
  MayStop = {k1}
  Preloaded = {a, b, c}

SPECIFICATION FairSpec

INVARIANT LightWithinCapacity
PROPERTY GraphDrains
