\* One worker, -e: the first pass without data does not stop the test.
CONSTANTS
  NumThreads = 1
  UIntMod = 4
  MaxBytes = 1
  PassCap = 3
  SecondsChoices = {2}
  IterationsChoices <- OneTransferEach
  StopOnErrorChoices = {TRUE}

SPECIFICATION ASpec

INVARIANT ErrorStopsTest
