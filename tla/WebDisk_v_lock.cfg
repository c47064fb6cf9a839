SPECIFICATION Spec
CONSTANTS
  Session = {s1, s2}
  Image = {a, b}
  Erased = Erased
  Free = Free
  MaxOpen = 4
  Depth = 2
  Blocks = 2
SYMMETRY Symmetry
INVARIANT LockedDuringUpgrade
