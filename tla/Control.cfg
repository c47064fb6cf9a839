SPECIFICATION FairSpec
CONSTANTS
  Ports = {1, 2, 3}
  Modes <- MCModes
  QLen = 2
  MaxTasks = 2
  MaxReqs = 3
  Faults = {"heap", "bind", "power"}
INVARIANTS
  TypeOK
  ServerFollowsPort
  SavedHasWorked
PROPERTIES
  PromiseKept
  RestartEnds
CHECK_DEADLOCK FALSE
