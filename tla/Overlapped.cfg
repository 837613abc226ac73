\* One worker, one transfer or two, two seconds, transfers within the limit and beyond.
CONSTANTS
  NumThreads = 1
  UIntMod = 3
  MaxBytes = 1
  PassCap = 3
  SecondsChoices = {2}
  IterationsChoices <- UpToTwoTransfersEach
  StopOnErrorChoices = {FALSE, TRUE}
  SlowChoices = {FALSE, TRUE}

SPECIFICATION WSpec

INVARIANT WTypeOK
INVARIANT NaturalEndIsQuiet
INVARIANT SuccessMeansAllIssued
PROPERTY WorkersEnd
