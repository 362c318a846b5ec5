CONSTANTS
  a = a
  b = b
  f = f
  g = g
  A = A
  B = B
  Task <- MCTask
  Depends <- MCDepends
  Fn <- MCFn
  StampFile <- MCTask
  StampOf <- MCStamp
  StampNoExtra <- MCStamp
  NoStamp = {a, b, f, g}
  DepTreeFiles = {}
  OldStamps = 0
  NumberTasks = 2
  Scheduler = "speed"
  Prio <- MCPrio
  Covered = {}
  NoExec = {g}
  Fakeroot = {f}
  NotWhitelisted = {}
  Abort = FALSE
  Normal = Normal
  Fake = Fake
  Worker = {Normal, Fake}
  MayDie = {}
  DiskActions = {"ABORT", "STOPTASKS"}
  Shutdowns = {}
SPECIFICATION FairSpec
PROPERTY
  AbortEnds
CHECK_DEADLOCK FALSE
