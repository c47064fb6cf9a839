SPECIFICATION FairSpec
CONSTANTS
  HeadLens = {2}
  Pays = {0, 4}
  MaxFrame = 4
  Segs = {1, 4}
  SndMax = 9
  Rooms = {5, 9}
  Margin = 3
  Reserve = 3
  MinSend = 5
  MaxRx = 8
  Short = 3
  Faults = {"write", "malloc", "realloc"}
INVARIANTS
  TypeOK
  LosesStepOnlyFor
  RetryBelongs
  LengthReadsBack
PROPERTIES
  NothingAfterClose
  CloseCompletes
CHECK_DEADLOCK FALSE
