\* One thread, two requests of two entries, a buffer of three, both builds.
CONSTANTS
  NumThreads = 1
  UIntMod = 3
  MaxBytes = 1
  PassCap = 3
  SecondsChoices = {2}
  IterationsChoices <- TwoRequestsEach
  StopOnErrorChoices = {FALSE, TRUE}
  WindowsChoices = {FALSE, TRUE}
  AllocSize = 3
  Length = 1
  NumEntries = 2
  PoolSize = 2

SPECIFICATION SSpec

INVARIANT STypeOK
INVARIANT SendSuccessMeansSent
PROPERTY STestEnds
