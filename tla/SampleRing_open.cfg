SPECIFICATION Spec
CONSTANTS
  Client = {w1, w2}
  BufIdx = 2
  CountMod = 4
  MaxTaken = 4
  Masked = FALSE
SYMMETRY Symmetry
INVARIANTS
  TypeOK
  FreedOnlyOnOverlap
CHECK_DEADLOCK FALSE
