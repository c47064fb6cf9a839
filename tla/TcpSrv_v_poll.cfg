SPECIFICATION Spec
CONSTANTS
  Conn = {c1, c2}
  Pcb = {p1, p2}
  NoConn = NoConn
  NoPcb = NoPcb
  MaxConn = 2
  TimeWaitRec = 1
  TimeWaitCls = 2
  SrvReopen = FALSE
  PcbTimeWaitFree = TRUE
  MaxTimeWait = 1
  Faults = {"close"}
CHECK_DEADLOCK FALSE
INVARIANTS
  NoStaleCallback
