CONSTANTS
  af = af
  au = au
  bf = bf
  bu = bu
  c = c
  d = d
  e = e
  A = A
  B = B
  C = C
  Task <- MCTask
  Depends <- MCDepends
  Fn <- MCFn
  StampFile <- MCStampFile
  StampOf <- SharedStamps
  StampNoExtra <- SharedStamps
  NoStamp = {}
  DepTreeFiles = {}
  OldStamps = 1
  NumberTasks = 2
  Scheduler = "speed"
  Prio <- MCPrio
  Covered = {}
  NoExec = {}
  Fakeroot = {c}
  NotWhitelisted = {e}
  Abort = FALSE
SPECIFICATION FairSpec
INVARIANTS
  DependencyOrder
  StampExclusion
  StatsAgree
  NoLostTask
  SanityChecksPass
  AsMuchAsPossible
  SharedWorkDoneOnce
PROPERTY
  ImplementsBuildOrder
  Terminates
CHECK_DEADLOCK FALSE
