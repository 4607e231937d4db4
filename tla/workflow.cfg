SPECIFICATION Spec
CONSTANTS
  Looping = {l1}
  Child = {c1}
  MaxEvents = 2
  MaxRuns = 3
  MaxFaults = 1
INVARIANTS StatusTruth FeedIsNewest
PROPERTY RunsEnd
CHECK_DEADLOCK FALSE
