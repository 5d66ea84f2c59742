CONSTANTS
  l1 = l1
  l2 = l2
  Launchers <- One
  WithImage <- One
  NoPod = NoPod
  Patience = 5
  PollEvery = 2
  TTL = 1
  ApiFails = FALSE
  Punctual = TRUE
  LastSecond = 1
SPECIFICATION Spec
CHECK_DEADLOCK FALSE
INVARIANT
  ResultIsRead
