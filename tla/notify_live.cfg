SPECIFICATION Spec
CONSTANTS
  NoRequest = NoRequest
  Customer = {c1}
  Request = {r1, r2}
  Server = {s1, s2}
  Score = {40}
  Choice = {"push"}
  Addressless = {}
  Configured = {"sms"}
  Contested = {}
  Hours = 1
  MaxHour = 1
  MaxFaults = 1
PROPERTIES
  CustomerCovered
CHECK_DEADLOCK FALSE
