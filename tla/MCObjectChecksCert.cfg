SPECIFICATION Spec
CHECK_DEADLOCK FALSE
CONSTANTS
  a = a
  b = b
  c = c
  None = None
  Absent = Absent
  Nothing = Nothing
  T <- MCT
  Kinds = {"certificate"}
  Names <- MCNames
  Numbers <- MCNumbers
  Wants <- MCWants
  Skews = {0}
  Horizon = 6
  MaxChanges = 2
  MaxRuns = 2
  Latency = 1
INVARIANT
  ExpiredCertIsCritical
