\* The firmware answers every request and nobody is killed.  One id for all
\* requests: cmd_mgr_msgind has nothing else to tell them apart by.
SPECIFICATION FairSpec
CONSTANTS
  Caller = {t1, t2}
  Worker = Worker
  NoCaller = NoCaller
  ReqId = {id1}
  NoId = NoId
  NSlots = 3
  MaxQueued = 2
  Env = {}
  MaxEvents = 0
INVARIANTS WellFormed OneAtATime AnswerReachesOwner BufferOfBlockedCaller
PROPERTY EveryoneServed
