SPECIFICATION Spec
CONSTANTS
  str1 = str1
  str2 = str2
  Ints <- MCInts
  Names <- MCNames
  Values = {x}
  HashNum <- MCHashNum
  Hashes <- MCHashes
  KeySets <- MCKeySets
  MaxBits = 2
  MaxInt = 4
  MaxItems = 2
  Nil = Nil
  None = None
  Invalid = Invalid
INVARIANTS TypeOK ChainsReach RehashFits LengthIsABorder
PROPERTIES IsATable
