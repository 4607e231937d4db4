SPECIFICATION Spec
CONSTANTS
  Terminal = {p1, p2}
  Command = {"full_pipeline", "train", "retrain_large", "generate_50k"}
  Size = 2
  Borrower = {1}
  Rows = 1
  MaxRuns = 2
  MaxFaults = 2
INVARIANTS LabelsTrue PipelineCovers EachOnce
SYMMETRY MCSymmetry
CHECK_DEADLOCK FALSE
