CONSTANTS
  a = a
  b = b
  f = f
  g = g
  A = A
  B = B
  Task <- MCTask
  Depends <- MCDepends
  Fn <- MCFn
  StampFile <- MCTask
  StampOf <- MCStamp
  StampNoExtra <- MCStamp
  NoStamp = {}
  DepTreeFiles = {}
  OldStamps = 1
  NumberTasks = 2
  Scheduler = "speed"
  Prio <- MCPrio
  Covered = {}
  NoExec = {g}
  Fakeroot = {f}
  NotWhitelisted = {f}
  Abort = TRUE
  Normal = Normal
  Fake = Fake
  Worker = {Normal, Fake}
  MayDie = {Normal, Fake}
  DiskActions = {"ABORT"}
  Shutdowns = {"shutdown", "forceshutdown"}
SPECIFICATION FairSpec
INVARIANTS
  NoStrayExitcode
PROPERTY
  ImplementsTaskQueue
  BuildEnds
CHECK_DEADLOCK FALSE
