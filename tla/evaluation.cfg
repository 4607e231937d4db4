CONSTANTS
  Rows = 7
  Folds = 2
  Batch = 2
  Epochs = 2
  Every = 1
  Top = 2
  MinSeq = 1
  MinCal = 1
  MinArm = 1
  MaxJumps = 3
  Program <- MCProgram
  Setup <- MCSetup
SPECIFICATION Spec
INVARIANTS HonestTests HeldOut CalibratedAlike TopDownRuns SavedIsReported
