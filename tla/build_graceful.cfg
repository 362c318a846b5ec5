CONSTANTS
  a = a
  b = b
  f = f
  g = g
  A = A
  B = B
  Task <- MCTask
  Depends <- MCDepends
  Fn <- MCFn
  StampFile <- MCTask
  StampOf <- MCStamp
  StampNoExtra <- MCStamp
  NoStamp = {b}
  DepTreeFiles = {}
  OldStamps = 0
  NumberTasks = 2
  Scheduler = "speed"
  Prio <- MCPrio
  Covered = {}
  NoExec = {}
  Fakeroot = {f}
  NotWhitelisted = {}
  Abort = FALSE
  Normal = Normal
  Fake = Fake
  Worker = {Normal, Fake}
  MayDie = {}
  DiskActions = {"STOPTASKS"}
  Shutdowns = {"shutdown"}
SPECIFICATION Spec
INVARIANTS
  ExitcodeTracked
  ProcessesInOrder
  CompletedTellsAll
CHECK_DEADLOCK FALSE
