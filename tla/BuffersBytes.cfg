\* What packets are accepted; the program stops on its own.
CONSTANTS
  SizeMod = 16
  ByteMod = 8
  AllocUnit = 4
  LargeSize = 7
  MaxCardOffset = 6
  DmaSize = 8
  LoopSize = 6
  LoopBuffer = 12
  FifoSize = 3
  PerBuffer = 2
  SizeChoices <- Sizes
  CardChoices <- Cards
  SeedChoices <- Seeds
  RandomBytes = {6}
  StackWords = {0, 2}

SPECIFICATION BSpec
CHECK_DEADLOCK FALSE

INVARIANT PatternIsAccepted
