SPECIFICATION Spec
CHECK_DEADLOCK FALSE
SYMMETRY Alike
CONSTANTS
  a = a
  b = b
  c = c
  None = None
  Absent = Absent
  Nothing = Nothing
  T <- MCT
  Kinds <- AllKinds
  Names <- MCNames
  Numbers <- MCNumbers
  Wants <- MCWants
  Skews <- MCSkews
  Horizon = 5
  MaxChanges = 2
  MaxRuns = 2
  Latency = 1
INVARIANTS
  IInv
  AlarmIsFounded
  StuckIsReported
  NeverMilder
  LiveLeaderIsHealthy
  SkewNotOverstated
  NothingUnsaid
  NoNodeUnseen
