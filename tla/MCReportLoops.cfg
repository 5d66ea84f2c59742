\* The command ends after its last loop.
SPECIFICATION LoopSpec
CHECK_DEADLOCK FALSE
CONSTANTS
  a = a
  x = x
  y = y
  Names = {x, y}
  CheckIDs = {a}
  Reports <- MCReports
  Baselines <- MCBaselines
INVARIANTS
  LoopsAgree
