\* No submission fails and the host does not suspend.
\* CHECK_DEADLOCK FALSE: with no more frames to send everybody rests.
SPECIFICATION FairSpec
CONSTANTS
  NUrbs = 3
  LowWater = 1
  HighWater = 1
  Fault <- None
  MaxFrames = 5
  MaxSuspends = 0
INVARIANTS BusyWillClear NoLostTrigger
PROPERTIES QueuesWake IsFairFifo
CHECK_DEADLOCK FALSE
