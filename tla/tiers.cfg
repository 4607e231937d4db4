SPECIFICATION TiersSpec
CONSTANTS
  Example = {e1, e2, e3}
  Probability <- MCProbability
  Grid = 94
  CostMissed = 15
  CostCall = 10
  CostSms = 1
  XgbWeight = 35
  LgbWeight = 40
  DefaultCritical = 65
  DefaultWatch = 46
  NoModel = NoModel
INVARIANTS
  CriticalIsCheapest
  WatchIsLooser
  Unanimous
SYMMETRY MCSymmetry
