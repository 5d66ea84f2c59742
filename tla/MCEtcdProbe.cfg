CONSTANTS
  l1 = l1
  l2 = l2
  Launchers <- Two
  WithImage <- Two
  NoPod = NoPod
  Patience = 3
  PollEvery = 2
  TTL = 1
  ApiFails = TRUE
  Punctual = FALSE
  LastSecond = 2
SPECIFICATION Spec
SYMMETRY Alike
CHECK_DEADLOCK FALSE
INVARIANTS
  IInv
  NoJobLeftBehind
PROPERTY
  RefinesJobContract
