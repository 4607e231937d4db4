SPECIFICATION LiveSpec
CONSTANTS
  Loops = {"feedback", "each", "batch"}
  Intervention = {k1}
  NoIntervention = NoIntervention
  Outcome = {paid, defaulted}
  NoOutcome = NoOutcome
  Batch = 2
  BatchSize = 2
  MaxMessages = 2
  Fault = {"kill", "interrupt", "error"}
  MaxEvents = 3
  MaxFaults = 2
INVARIANTS LossPerFault OutcomeIsLatest
PROPERTIES WorkedOff ImplementsDelivery
CHECK_DEADLOCK FALSE
