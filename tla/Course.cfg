CONSTANTS
  r1 = r1
  r2 = r2
  d1 = d1
  t1 = t1
  t2 = t2
  c1 = c1
  c2 = c2
  w1 = w1
  w2 = w2
  Request = {r1, r2}
  Key = {d1}
  KeyOf <- MCKeySame
  Teacher = {t1, t2}
  Client = {c1, c2}
  Runner = {w1}
  Nobody = Nobody
  MaxTries = 1
  MaxStalls = 1
  Kinds = {"mark"}
  TroubleCap = 1
  StageCount = 3
  Duration = 2
  Second = 2
  LessonCall = {"c1"}
  LessonTab = {p1, p2}
  LessonHorizon = 2
  MostExtra = 1
  MostActions = 7
  HelpTeacher = "tea"
  Assistant = {"ann", "bob"}
  HelpStudent = {"sam"}
  Help = {"h1"}
  LotteryStudent = {"sam", "tom"}
  Option = {"o1", "o2"}
  GuildStudent = {"sam", "tom", "uma"}
  MostGuilds = 2
  Columns = 5
  Rows = 4
  Layouts <- MCLayouts
  MostRuns = 3
  maxConcurrency = 2
  SeedReader = {"UserSession", "AgentPairing", "AgentWorldState"}
  MostInserts = 1
  MostCrashes = 1
  Registrant = {"ann", "sam"}
  Email = {"a", "s"}
  Registration = {"q1", "q2", "q3"}
  Scope = {"a", "b", "c"}
  Observe = {"o1", "o2"}
  Cooldown = 2
  MaxSize = 2
  MemoryHorizon = 2
  Item = {"a", "b"}
  MostClicks = 3
  MostOthers = 1
  PanelTroubles = 1
  Npc = {"lin", "mo"}
  MostMessages = 2
  MostOpenings = 2
  MaxOutput = 2
  MostSignals = 2
  CliRuns = 1
  QueueTask = {"small", "large", "odd"}
  Priority <- MCPriority
  Estimate <- MCEstimate
  Able = {"small", "large"}
  Renewed = {"small"}
  Stored = {"odd"}
  Poll = {"p1", "p2"}
  TasksOf <- MCTasksOf
  Asked <- MCAsked
  Maximum <- MCMaximum
  Page = 3
  Rpm = 2
  Tpm = 4
  MaxAttempts = 2
  MostWait = 8
  MostHold = 1
  Event = {"e1", "e2"}
  Connector = {"k1", "k2"}
  EventReader = "k1"
  Time = {1, 2}
  Id = {1, 2}
  Limit = 1
  MostBatch = 2
  MostTries = 2
  MostPosts = 1
  Message = {1, 2, 3}
  MostTime = 3
  PageSize = 1
  Role = {"ta", "qa"}
  Home <- MCHome
  NoBinding = "none"

SPECIFICATION CourseSpec
SYMMETRY CourseSymmetry

INVARIANTS OneOpenReview CourseTypeOK RemainingExcludesPauses PanelKeepsOneStage
INVARIANTS HelpHasOneOwner OneGuildWithALeader RouteIsShortest SchedulerKeepsUp
INVARIANTS SeedLeavesScenario AccountHasOneOwner PanelsAgree AnswersHold CommandEndsClean
INVARIANTS QuotaServes
PROPERTIES ImplementsDesk NobodyLosesTheirDraw CooldownHolds

CHECK_DEADLOCK FALSE
