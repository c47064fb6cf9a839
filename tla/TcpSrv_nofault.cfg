SPECIFICATION FairSpec
CHECK_DEADLOCK FALSE
CONSTANTS
  Conn = {c1, c2}
  Pcb = {p1, p2}
  NoConn = NoConn
  NoPcb = NoPcb
  MaxConn = 2
  TimeWaitRec = 1
  TimeWaitCls = 1
  SrvReopen = TRUE
  PcbTimeWaitFree = TRUE
  MaxTimeWait = 0
  Faults = {"nomem", "write", "recvdisc"}
INVARIANTS
  TypeOK
  OpenOwnsPcb
  NoStaleCallback
  EstablishedIsListed
  WildOnlyFor
PROPERTIES
  IdleIsClosed
  CloseEnds
