SPECIFICATION FairSpec
CONSTANTS
  Scb = 3
  Pre = 1
  Suf = 1
  SndBuf = 10
  Rooms = {4, 8, 10}
  HeadLen = 1
  Sizes = {0, 3, 9, 11}
  Posts = {0, 5}
  BuiltIn = 2
  Need = 7
  MaxNest = 2
  MaxReads = 6
  Faults = {"malloc", "write", "close"}
INVARIANTS
  TypeOK
  NeverRefused
  WholeUnlessFor
PROPERTIES
  NothingAfterEnd
  PageEnds
CHECK_DEADLOCK FALSE
