\* Termination implies deadlock freedom; a run whose check panics stops.
SPECIFICATION FairSpec
CHECK_DEADLOCK FALSE
CONSTANTS
  NumChecks = 4
  OptWorkers = 0
  DefaultWorkers = 2
  PerCheckTimeout = TRUE
  Capable = {1, 2, 3}
  Panicky = {3}
  RunResults <- MCRunResults
  NotRun = NotRun
INVARIANTS
  IInv
  NoSendAfterClose
  NothingLostOrRepeated
  NilMeansCompleteOrCanceled
PROPERTIES
  RefinesContract
  Termination
