\* Submissions fail, and the host suspends and resumes.
\* CHECK_DEADLOCK FALSE: with no more frames to send everybody rests.
SPECIFICATION Spec
CONSTANTS
  NUrbs = 3
  LowWater = 1
  HighWater = 1
  Fault <- SubmitAndSuspend
  MaxFrames = 5
  MaxSuspends = 2
INVARIANTS CountsExact OneOwner
PROPERTY IsFifo
CHECK_DEADLOCK FALSE
