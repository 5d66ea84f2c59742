SPECIFICATION Spec
CHECK_DEADLOCK FALSE
CONSTANTS
  a = a
  b = b
  x = x
  y = y
  n1 = n1
  n2 = n2
  Nothing = Nothing
  Checks <- JoinIDs
  Referrers = {a, b}
  Targets = {x, y}
  Refs <- MCRefs
  Optional <- MCOptional
  KindOf <- MCKindOf
  Namespaces = {n1, n2}
  NsOf <- MCNsOf
  MaxChanges = 3
INVARIANTS
  IInv
  AlarmWitnessed
  QuietWhileGrowing
  OKWitnessed
  OneVerdictPerTarget
