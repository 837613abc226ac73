\* One thread, two calls, a ring of two elements, -s 0 and 2, both builds.
CONSTANTS
  NumThreads = 1
  UIntMod = 3
  MaxBytes = 1
  PassCap = 3
  SecondsChoices = {0, 2}
  IterationsChoices <- TwoCallsEach
  StopOnErrorChoices = {FALSE, TRUE}
  WindowsChoices = {FALSE, TRUE}
  RingSize = 2
  MaxBatch = 2

SPECIFICATION FSpec

INVARIANT FTypeOK
INVARIANT UnreadIsLent
INVARIANT MappedIsReported
PROPERTY FTestEnds
