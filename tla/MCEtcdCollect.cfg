CONSTANTS
  N = 3
  OptionSets <- AllOptions
  Pods = {1, 2, 3}
  DBSize <- Sizes
  DBSizeInUse <- InUse
  ServerQuota = 100
  DefaultQuota = 44
SPECIFICATION Spec
INVARIANTS
  IInv
  HealthOKWitnessed
  MembersOKWitnessed
  SizeVerdictsBounded
