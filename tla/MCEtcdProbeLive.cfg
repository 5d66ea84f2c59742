CONSTANTS
  l1 = l1
  l2 = l2
  Launchers <- Two
  WithImage <- One
  NoPod = NoPod
  Patience = 3
  PollEvery = 2
  TTL = 1
  ApiFails = TRUE
  Punctual = FALSE
  LastSecond = 2
SPECIFICATION FairSpec
CHECK_DEADLOCK FALSE
PROPERTIES
  EveryJobGoes
  EveryLauncherReturns
