SPECIFICATION Spec
CONSTANTS
  Trainer = {t1, t2}
  Server = {s1}
  Extra = {}
  MaxRuns = 2
  MaxFaults = 1
INVARIANTS ServedTogether ThresholdsNotAhead BrokenNeedsCause
SYMMETRY MCSymmetry
