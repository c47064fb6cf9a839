SPECIFICATION Spec
CONSTANTS
  Conn = {c1, c2}
  Pcb = {p1, p2}
  NoConn = NoConn
  NoPcb = NoPcb
  MaxConn = 2
  TimeWaitRec = 1
  TimeWaitCls = 1
  SrvReopen = TRUE
  PcbTimeWaitFree = TRUE
  MaxTimeWait = 0
  Faults = {"close", "write", "recvdisc", "nomem"}
SYMMETRY Symmetry
CHECK_DEADLOCK FALSE
INVARIANTS
  ListMatchesHeap
  NeverForced
PROPERTIES
  ImplementsTable
