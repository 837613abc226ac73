\* An option whose value is missing, after one that has a value.
CONSTANTS
  UIntMod = 16
  MaxThreads = 4
  MaxChannel = 3
  OptionsUsed <- FourOptions
  Values <- ThreeValues
  MaxArgs = 3

SPECIFICATION OSpec

PROPERTY MissingValueIgnored
