CONSTANTS
  RunQueue <- MCRunQueue
  NumberTasks = 2
SPECIFICATION FairSpec
INVARIANTS
  LaunchOrder
  AllDecided
  InputsAvailable
PROPERTY
  SceneEnds
CHECK_DEADLOCK FALSE
