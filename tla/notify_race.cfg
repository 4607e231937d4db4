SPECIFICATION Spec
CONSTANTS
  NoRequest = NoRequest
  Customer = {c1}
  Request = {r1, r2, r3}
  Server = {s1, s2}
  Score = {20, 40}
  Choice = {"sms", "none"}
  Addressless = {}
  Configured = {"sms"}
  Contested = {"sms"}
  Hours = 1
  MaxHour = 1
  MaxFaults = 1
INVARIANTS
  ClaimsBounded
  RefusalHonoured
  LoggedImpliesReached
  ReachedOnce
SYMMETRY
  MCSymmetry
CHECK_DEADLOCK FALSE
