\* Timeouts, kills, suspends and unconfirmed requests together.
\* CHECK_DEADLOCK FALSE: a deferred command that a suspend strands really stops
\* every caller (cmd_mgr_queue skips WAKE_CMD_WORK while the device is down).
SPECIFICATION Spec
CONSTANTS
  Caller = {t1, t2}
  Worker = Worker
  NoCaller = NoCaller
  ReqId = {id1}
  NoId = NoId
  NSlots = 2
  MaxQueued = 2
  Env = {"kill", "timeout", "suspend", "nocfm"}
  MaxEvents = 1
SYMMETRY Symmetry
CHECK_DEADLOCK FALSE
INVARIANTS Accounting NeverLinkedTwice LateAnswersSafe
