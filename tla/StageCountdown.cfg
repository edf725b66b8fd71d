CONSTANTS
  StageCount = 1
  Duration = 4
  Second = 1
  Call = {"c1"}
  Tab = {"p1"}
  Horizon = 3
  MostExtra = 0
  MostActions = 3

SPECIFICATION CountdownSpec

INVARIANT CountdownIsServerTime

CHECK_DEADLOCK FALSE
