SPECIFICATION Spec
CONSTANTS
  Client = {w1, w2}
  BufIdx = 2
  CountMod = 4
  MaxTaken = 5
  Masked = TRUE
SYMMETRY Symmetry
INVARIANTS
  BlockIsRun
PROPERTIES
  GapIsShown
  ImplementsFifo
CHECK_DEADLOCK FALSE
