SPECIFICATION Spec
CONSTANTS
  NoCustomer = NoCustomer
  NoProcessor = NoProcessor
  Customer = {c1, c2}
  Processor = {p1}
  Short = 1
  Long = 2
  Ttl = 1
  Batch = 2
  Fault = {}
  Back = 2
  MaxRecords = 3
  MaxDay = 2
  MaxFaults = 0
PROPERTIES
  ImplementsRolling
CHECK_DEADLOCK FALSE
