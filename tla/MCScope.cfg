SPECIFICATION Spec
CHECK_DEADLOCK FALSE
CONSTANTS
  pods = pods
  nodes = nodes
  jobs = jobs
  leases = leases
  east = east
  west = west
  Pod = Pod
  None = None
  Everywhere = Everywhere
  IDs = {pods, nodes, jobs, leases}
  CategoriesOf <- MCCategoriesOf
  DistrosOf <- MCDistrosOf
  Contexts = {east, west}
  Flags <- MCFlags
  MaxChanges = 2
INVARIANTS
  IInv
  DetectedIsBest
  DeadlineNeverMisleads
  NoCheckLost
