SPECIFICATION QueueSpec
CONSTANTS
  MaxTasks = 3
  QueueSize = 1
  MaxGone = 1
  StreamCap = 1
  MaxEvents = 1
CHECK_DEADLOCK FALSE
INVARIANTS EmptyMeansIdle
