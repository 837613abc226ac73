\* Two workers, one second: transfers shorter than both last sleeps, no signal in them.
CONSTANTS
  NumThreads = 2
  UIntMod = 3
  MaxBytes = 1
  PassCap = 3
  SecondsChoices = {1}
  IterationsChoices <- TwoTransfersEach
  StopOnErrorChoices = {FALSE, TRUE}
  PassSleep = 2
  StopSleep = 2
  ShutdownSleep = 3
  MaxIo = 1
  SignalsShutdown = FALSE

SPECIFICATION TSpec

INVARIANT NoUseAfterFree
INVARIANT StatusReflectsErrors
PROPERTY ImplementsJoinedTest
