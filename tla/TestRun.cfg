\* Two workers, one transfer each, two seconds, -e off and on.
CONSTANTS
  NumThreads = 2
  UIntMod = 4
  MaxBytes = 1
  PassCap = 3
  SecondsChoices = {2}
  IterationsChoices <- OneTransferEach
  StopOnErrorChoices = {FALSE, TRUE}

SPECIFICATION ASpec

INVARIANT TypeOK
INVARIANT PassesWithinSeconds
INVARIANT NaturalEndIsJoined
INVARIANT NaturalEndReportsErrors
INVARIANT SuccessMeansData
INVARIANT NothingLeaks
INVARIANT InterruptHonoured
INVARIANT StatisticsExact
PROPERTY TestEnds
