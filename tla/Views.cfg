CONSTANTS
  r1 = r1
  r2 = r2
  d1 = d1
  t1 = t1
  t2 = t2
  c1 = c1
  c2 = c2
  w1 = w1
  w2 = w2
  Request = {r1}
  Key = {d1}
  KeyOf <- MCKeyOne
  Teacher = {t1}
  Client = {c1}
  Runner = {w1, w2}
  Nobody = Nobody
  MaxTries = 3
  MaxStalls = 1
  Kinds = {"api", "lock", "worker", "lost", "redis"}
  TroubleCap = 1
  Place = {"desk", "sofa"}
  Home = "desk"
  Command = 2
  MostAgentRuns = 1
  MostPolls = 1
  Sock = {"s1", "s2"}
  MostRows = 2
  PageSize = 1
  MostGrants = 2
  Degraded = 1
  Cli = {"k1", "k2"}
  MostPairings = 1
  MostCopies = 1
  Tab = {"t1", "t2"}
  MostSessions = 1
  Ttl = 1
  WebTroubles = 1
  MostVersions = 2
  BannerCall = {"c1", "c2"}
  Fact = {"task"}
  MostChanges = 2
  MostEvents = 1

SPECIFICATION ViewsSpec

INVARIANTS OneOwner TriedBeforeTeacher ViewsTypeOK
INVARIANTS NewestCommandWins TabKeepsOnline
PROPERTIES ReviewSettles BrowserCatchesUp ExpiredSocketCloses NewestPageShown
PROPERTIES EndedShowsOffline ViewCatchesUp AvatarsCatchUp EndedSessionIsShown

CHECK_DEADLOCK FALSE
