\* Two blocks, two seconds; both sleeps outlast a write and a read.
CONSTANTS
  NumThreads = 1
  UIntMod = 4
  MaxBytes = 1
  PassCap = 3
  SecondsChoices = {2}
  IterationsChoices <- TwoBlocks
  StopOnErrorChoices = {FALSE, TRUE}
  PassSleep = 2
  StopSleep = 3
  ShutdownSleep = 4
  MaxIo = 1
  SignalsShutdown = FALSE

SPECIFICATION LSpec

INVARIANT LTypeOK
INVARIANT SuccessMeansCompared
INVARIANT ChannelsReleased
PROPERTY ImplementsJoinedTest
