SPECIFICATION Spec
CONSTANTS
  Customer = {c1}
  Task = {t1, t2}
  Worker = {w1}
  NoTask = NoTask
  Tier = {"watch", "critical"}
  Channel <- MCChannel
  Preferred <- MCPreferred
  MaxRetries = 1
  WatchDays = 2
  CriticalDays = 1
  WindowDays = 2
  MaxDay = 0
  MaxFaults = 2
INVARIANTS
  SentIsStored
  OutreachNeedsExecutions
  CooldownOnRecord
  SilenceEscalates
PROPERTIES
  Settles
  CriticalServed
CHECK_DEADLOCK FALSE
