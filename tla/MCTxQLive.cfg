\* Flow control and liveness: the tasklet, the lock holder, the senders and
\* the bus go on; the interface leaves its channel and the station sleeps.  A
\* queue may outgrow its credits, which are also the flow control levels.
SPECIFICATION FairServedSpec
CONSTANTS
  bcmc = bcmc
  peer = peer
  NTxq = 2
  NHwq = 1
  Sta = {bcmc, peer}
  StaOf <- MCStaOf
  HwqOf <- OneHwq
  PsId <- AllLegacy
  Mgmt = {}
  VifTxq = 1
  InitialCredits = 2
  FlowStop = 2
  FlowRestart = 2
  HwqSize = 2
  Happens = {"bus", "chan", "ps"}
  MaxLen = 3
  MaxAir = 0
  MaxReq = 1
INVARIANTS NothingStuck
PROPERTIES Delivered NetWakes
