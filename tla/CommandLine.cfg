\* Lines of up to three arguments over four options and three numbers; lines of
\* up to two words, seven lengths, up to four bytes of data.
CONSTANTS
  UIntMod = 16
  MaxThreads = 4
  MaxChannel = 3
  OptionsUsed <- FourOptions
  Values <- ThreeValues
  MaxArgs = 3
  SizeMod = 16
  LongMod = 64
  ByteMod = 4
  Lengths <- SevenLengths
  Bytes = {0, 1, 2}
  MaxBytes = 4
  MaxWords = 2

SPECIFICATION MainSpec

INVARIANT OTypeOK
INVARIANT ProperLinesAreRead
INVARIANT FlagsAreHonoured
INVARIANT NeverPastTheNull
INVARIANT RTypeOK
INVARIANT StaysInBuffer
INVARIANT SentIsUserData
INVARIANT ExitTellsFailure
