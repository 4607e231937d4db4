SPECIFICATION Spec
CONSTANTS
  Customer = {c1}
  Task = {t1, t2, t3, t4}
  Worker = {w1, w2}
  NoTask = NoTask
  Tier = {"watch"}
  Channel <- MCChannel
  Preferred <- MCPreferred
  MaxRetries = 0
  WatchDays = 1
  CriticalDays = 1
  WindowDays = 2
  MaxDay = 1
  MaxFaults = 0
INVARIANTS
  
  NobodyFallsThrough
SYMMETRY MCSymmetry
CHECK_DEADLOCK FALSE
