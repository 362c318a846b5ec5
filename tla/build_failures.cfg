CONSTANTS
  a = a
  b = b
  f = f
  g = g
  A = A
  B = B
  Task <- MCTask
  Depends <- MCDepends
  Fn <- MCFn
  StampFile <- MCTask
  StampOf <- MCStamp
  StampNoExtra <- MCStamp
  NoStamp = {a, b, f, g}
  DepTreeFiles = {}
  OldStamps = 0
  NumberTasks = 2
  Scheduler = "speed"
  Prio <- MCPrio
  Covered = {}
  NoExec = {}
  Fakeroot = {}
  NotWhitelisted = {}
  Abort = TRUE
  Normal = Normal
  Fake = Fake
  Worker = {Normal, Fake}
  MayDie = {}
  DiskActions = {"ABORT"}
  Shutdowns = {}
SPECIFICATION Spec
INVARIANTS
  FailuresReported
CHECK_DEADLOCK FALSE
