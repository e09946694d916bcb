SPECIFICATION QueueFairSpec
CONSTANTS
  MaxTasks = 4
  QueueSize = 1
  MaxGone = 1
  StreamCap = 1
  MaxEvents = 2
CHECK_DEADLOCK FALSE
INVARIANTS QueueTypeOK CountersTell EachOnce
PROPERTIES Answered
