\* Who is in a list and how much is counted, while stations come and go or
\* fetch what they slept through.  Flow control stops and restarts at as many
\* frames as there are credits, as with the driver's three 64s.
SPECIFICATION SceneSpec
CONSTANTS
  bcmc = bcmc
  peer = peer
  NTxq = 3
  NHwq = 1
  Sta = {bcmc, peer}
  StaOf <- MCStaOf
  HwqOf <- OneHwq
  PsId <- AllLegacy
  Mgmt = {3}
  VifTxq = 1
  InitialCredits = 2
  FlowStop = 2
  FlowRestart = 2
  HwqSize = 2
  Happens = {"member", "ps", "req", "csa", "chan", "cfm", "credit", "bus"}
  MaxLen = 3
  MaxAir = 1
  MaxReq = 1
INVARIANTS QueuesExact PsCounts SleepRespected
