------------------------------- MODULE MCTxQ --------------------------------
(* Small instances of TxQ: queue 1 is the broadcast queue of the vif, the    *)
(* others belong to one station.  Every queue is on one hardware queue.      *)
(*                                                                           *)
(* A run is one of two scenes.  In "members" a station leaves and joins      *)
(* while frames are sent to it and it sleeps and wakes, a CSA stops and      *)
(* restarts the interface, management frames are confirmed and the firmware  *)
(* updates the credits.  In "periods" nobody leaves: the station sleeps and  *)
(* fetches frames, the interface leaves its channel and the bus is busy,     *)
(* with data queues that outgrow their credits.                              *)
EXTENDS TxQ

CONSTANTS bcmc, peer

MCStaOf == [q \in Txq |-> IF q = 1 THEN bcmc ELSE peer]
OneHwq == [q \in Txq |-> 1]
AllLegacy == [q \in Txq |-> LEGACY_PS_ID]

VARIABLE scene

Walks == XmitQueue \/ TaskRun \/ Process

(* Each queue holds at most one frame. *)
Members ==
  \/ \E q \in Txq : XmitCheck(q) /\ txq[q].qlen = 0
  \/ \E q \in Txq : Confirm(q) \/ CreditUpdate(q)
  \/ Walks \/ Membership
  \/ VifStop("csa", "CSA") \/ VifStart("csa", "CSA")
  \/ \E s \in Sta : PsChange(s) \/ PsChangeAdding(s)

(* Only data is sent, and no frame is confirmed. *)
Periods ==
  \/ \E q \in Txq \ Mgmt : XmitCheck(q)
  \/ Walks /\ UNCHANGED air
  \/ BusBusy \/ BusReady
  \/ VifStop("chan", "CHAN") \/ VifStart("chan", "CHAN")
  \/ \E s \in Sta : PsChange(s)
  \/ \E s \in Sta, n \in 0..MaxReq, id \in PsIds : TrafficReq(s, n, id)

SceneInit == Init /\ scene \in {"members", "periods"}
SceneNext ==
  \/ scene = "members" /\ Members /\ UNCHANGED scene
  \/ scene = "periods" /\ Periods /\ UNCHANGED scene
SceneSpec == SceneInit /\ [][SceneNext]_<<vars, scene>>
=============================================================================
