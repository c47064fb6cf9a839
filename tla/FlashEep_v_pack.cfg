SPECIFICATION Spec
CONSTANTS
  empty = empty
  a = a
  b = b
  c = c
  Id = {i1, i2}
  Object <- MCObject
  Words <- MCWords
  Empty = empty
  None = none
  Torn = torn
  BankWords = 6
  Banks = 2
  Top = 3
SYMMETRY Symmetry
PROPERTIES
  OthersKept
