SPECIFICATION LiveSpec
CONSTANTS
  NoCustomer = NoCustomer
  NoProcessor = NoProcessor
  Customer = {c1, c2}
  Processor = {p1, p2}
  Short = 1
  Long = 1
  Ttl = 1
  Batch = 2
  Fault = {"kill", "stop", "evict", "lru"}
  Back = 0
  MaxRecords = 2
  MaxDay = 1
  MaxFaults = 2
INVARIANTS
  CountedOncePerEviction
  CommittedIsApplied
  KeysExpire
PROPERTIES
  Drained
CHECK_DEADLOCK FALSE
