CONSTANTS
  FnName <- MCFnName
  TaskName <- MCTaskName
  TaskData <- MCTaskData
  Caches <- MCCaches
  OrderBound = 5
SPECIFICATION Spec
INVARIANTS
  CycleDetection
  SchedulerOrders
  RecursionComplete
  CollapseSound
  BuildableExactly
  NothingDropped
CHECK_DEADLOCK FALSE
