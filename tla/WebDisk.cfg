SPECIFICATION Spec
CONSTANTS
  Session = {s1, s2}
  Image = {a, b}
  Erased = Erased
  Free = Free
  MaxOpen = 4
  Depth = 3
  Blocks = 2
SYMMETRY Symmetry
INVARIANTS
  TypeOK
  NoHandleLost
  OneOwner
PROPERTIES
  ImplementsDiskUse
