SPECIFICATION Spec
CONSTANTS
  p1 = p1
  p2 = p2
  b = b
  x = x
  none = none
  Procs = {p1, p2}
  Paths = {b}
  NoPath = NoPath
  Names = {x, none}
  NoName = none
  CheckIDs = {"a", "b"}
  FlagSets <- MCFlags
  Readings <- MCReadings
INVARIANTS
  IInv
  ExitReflectsFindings
  SavedBaselineMarksSeenBefore
