--------------------------------- MODULE Ap ---------------------------------
(***************************************************************************)
(* An access point or mesh interface: its start and stop, its stations,    *)
(* channel switches, channel availability checks, and the peers and paths  *)
(* of a mesh (rwnx_main.c, rwnx_msg_rx.c, rwnx_radar.c).                   *)
(*                                                                         *)
(* Four processes of the driver send requests and sleep until they are     *)
(* answered: the caller of cfg80211's operations, which holds the wiphy    *)
(* lock, and the works that end a channel switch, remove a station the     *)
(* firmware has lost, and end a channel availability check.  The receive   *)
(* thread takes the firmware's messages in order.                          *)
(*                                                                         *)
(* The firmware and cfg80211 are modelled from the way this code uses      *)
(* them.  raced records the interleavings listed in the README that break  *)
(* the driver's own bookkeeping; the properties say what holds without     *)
(* them.                                                                   *)
(***************************************************************************)
EXTENDS Requests, FiniteSets

CONSTANTS
  Macs,       \* the stations
  Scenes,     \* records [mode, ops]: the kind of interface and its operations
  MaxCalls,   \* bound on the operations in a behaviour
  MaxFaults,  \* bound on the failed and refused requests
  MaxEvents   \* bound on the firmware's own initiatives

Chans == {0, 1}                    \* chanctx_table
StaIdx == 0 .. Cardinality(Macs)   \* sta_table, one entry more than stations
None == "none"
NotSet == 255                      \* RWNX_CH_NOT_SET
Workers == {"csa", "loss", "cac"}
Procs == Workers \cup {"cfg"}

ASSUME ApAssumption ==
  /\ IsFiniteSet(Macs) /\ None \notin Macs
  /\ MaxCalls \in Nat /\ MaxFaults \in Nat /\ MaxEvents \in Nat

VARIABLES
  scene,
  ap,     \* the interface
  sta,    \* sta_table
  hw,     \* chanctx_table's counts, cur_chanctx, the channel being switched to
  mesh,   \* mpath_list: the next hop of each target
  cac,    \* radar->cac_vif is set; the state of cac_work
  slot,   \* sta_mac_addr, the one lost station: being written, its work is queued
  pc,     \* where each process is; the caller's also holds its arguments
  ans,    \* what its request returned; "wait" while it sleeps
  cfg,    \* cfg80211: the interface beacons, a check is running
  fw, tofw, tohost,
  calls, faults, events,
  oops,   \* a NULL or freed pointer was used
  raced

vars == <<scene, ap, sta, hw, mesh, cac, slot, pc, ans, cfg, fw, tofw, tohost,
          calls, faults, events, oops, raced>>

NoSta == [valid |-> FALSE, listed |-> FALSE, txq |-> FALSE, mac |-> None]
NoCsa == [on |-> FALSE, status |-> "OK", ch |-> 0, work |-> "no"]
Idle == [at |-> "idle", mac |-> None, idx |-> 0]

Init ==
  /\ scene \in Scenes
  /\ ap = [ch |-> NotSet, txq |-> FALSE, stop |-> FALSE, queues |-> FALSE,
           bcn |-> FALSE, bcmc |-> FALSE, csa |-> NoCsa, wq |-> 0]
  /\ sta = [i \in StaIdx |-> NoSta]
  /\ hw = [count |-> [c \in Chans |-> 0], cur |-> 0, to |-> NotSet]
  /\ mesh = [m \in Macs |-> NotSet]
  /\ cac = [vif |-> FALSE, work |-> "no"]
  /\ slot = [mac |-> None, writing |-> FALSE, queued |-> FALSE]
  /\ pc = [p \in Procs |-> Idle] /\ ans = [p \in Procs |-> [st |-> "OK", idx |-> 0]]
  /\ cfg = [on |-> FALSE, cac |-> FALSE]
  /\ fw = [on |-> FALSE, stas |-> {}, peer |-> [i \in StaIdx |-> None], csa |-> FALSE, chan |-> 0]
  /\ tofw = <<>> /\ tohost = <<>>
  /\ calls = 0 /\ faults = 0 /\ events = 0 /\ oops = FALSE /\ raced = FALSE

-----------------------------------------------------------------------------
(* Requests *)

At(p, l) == pc[p].at = l /\ ans[p].st # "wait"
Failed(p) == ans[p].st # "OK"
Goto(p, l) == pc' = [pc EXCEPT ![p].at = l]
Return(p) == pc' = [pc EXCEPT ![p] = Idle]

(* Process p sends the last message of r about station i, and goes on at l. *)
Ask(p, r, i, l) ==
  /\ Goto(p, l)
  /\ \/ /\ tofw' = Append(tofw, [req |-> r.msgs[Len(r.msgs)].req, idx |-> i, from |-> p])
        /\ ans' = [ans EXCEPT ![p] = [st |-> "wait", idx |-> 0]]
        /\ UNCHANGED faults
     \/ /\ faults < MaxFaults /\ faults' = faults + 1
        /\ ans' = [ans EXCEPT ![p] = [st |-> "ERR", idx |-> 0]]
        /\ UNCHANGED tofw

asked == <<tofw, ans, faults>>
rest == <<scene, calls, events, fw, tohost>>

-----------------------------------------------------------------------------
(* Channel contexts and stations *)

rwnx_chanctx_link(h, c) == [h EXCEPT !.count[c] = @ + 1]
rwnx_chanctx_unlink(h, c) ==
  IF c = NotSet THEN h ELSE [h EXCEPT !.count[c] = IF @ = 0 THEN 0 ELSE @ - 1]

(* The interface's queues start stopped when its channel is not the        *)
(* current one.                                                            *)
StopOn(c) == hw.cur # c

ListedAs(m) == {i \in StaIdx : sta[i].listed /\ sta[i].mac = m}

(* rwnx_cfg80211_del_station_compat and apm_staloss_work_process: station  *)
(* i leaves the list under cb_lock; process p goes on with it at l, ...    *)
Unlist(p, i, l) ==
  /\ sta' = [sta EXCEPT ![i].valid = FALSE, ![i].listed = FALSE]
  /\ pc' = [pc EXCEPT ![p].at = l, ![p].idx = i]

(* Mutant: the station's queues stay. *)
RemoveSta_KeepsQueues(p, l, next) ==
  /\ At(p, l) /\ Ask(p, rwnx_send_me_sta_del, pc[p].idx, next)
  /\ UNCHANGED <<ap, sta, hw, mesh, cac, slot, cfg, oops, raced, rest>>

(* ... and only after the lock do rwnx_txq_sta_deinit take its queues and  *)
(* the firmware hear of it.  (Nobody reads the address that stays.)        *)
RemoveSta(p, l, next) ==
  /\ At(p, l)
  /\ sta' = [sta EXCEPT ![pc[p].idx] = NoSta]
  /\ Ask(p, rwnx_send_me_sta_del, pc[p].idx, next)
  /\ UNCHANGED <<ap, hw, mesh, cac, slot, cfg, oops, raced, rest>>

(* Mutant: the channel switch is kept. *)
rwnx_del_csa_Keep == ap

(* rwnx_del_csa frees the switch, whatever its work is doing. *)
rwnx_del_csa == [ap EXCEPT !.csa = NoCsa]

-----------------------------------------------------------------------------
(* The caller *)

Allowed(op) ==
  CASE op \in {"start", "join", "radar"} -> ~cfg.on /\ ~cfg.cac
    [] op = "close" -> TRUE
    [] OTHER -> cfg.on

Call(op, m) ==
  /\ pc["cfg"] = Idle /\ op \in scene.ops /\ calls < MaxCalls /\ Allowed(op)
  /\ op = "add" => ListedAs(m) = {}
  /\ op \notin {"add", "del", "probe", "change"} => m = CHOOSE x \in Macs : TRUE
  /\ calls' = calls + 1
  /\ pc' = [pc EXCEPT !["cfg"] = [at |-> op, mac |-> m, idx |-> 0]]
  /\ UNCHANGED <<scene, ap, sta, hw, mesh, cac, slot, ans, cfg, fw, tofw, tohost,
                 faults, events, oops, raced>>

(* rwnx_cfg80211_start_ap.  Every attempt creates a workqueue.  The beacon *)
(* is built, which can fail, and sent, whose result is ignored.            *)
StartAp ==
  /\ At("cfg", "start")
  /\ \/ /\ ap' = [ap EXCEPT !.wq = @ + 1, !.bcn = TRUE]
        /\ Ask("cfg", rwnx_send_bcn, 0, "start_req")
     \/ /\ faults < MaxFaults /\ faults' = faults + 1
        /\ ap' = [ap EXCEPT !.wq = @ + 1] /\ Return("cfg") /\ UNCHANGED <<tofw, ans>>
  /\ UNCHANGED <<sta, hw, mesh, cac, slot, cfg, oops, raced, rest>>

StartApReq ==
  /\ At("cfg", "start_req") /\ Ask("cfg", rwnx_send_apm_start_req(TRUE), 0, "started")
  /\ UNCHANGED <<ap, sta, hw, mesh, cac, slot, cfg, oops, raced, rest>>

(* What rwnx_cfg80211_start_ap and _join_mesh do with a channel context.   *)
(* The BC/MC station becomes valid with the interface's queues.            *)
Beaconing(c) ==
  /\ ap' = [ap EXCEPT !.ch = c, !.txq = TRUE, !.stop = StopOn(c), !.queues = TRUE,
                      !.bcmc = TRUE, !.csa = IF scene.mode = "AP" THEN NoCsa ELSE @]
  /\ hw' = rwnx_chanctx_link(hw, c)
  /\ cfg' = [cfg EXCEPT !.on = TRUE]

Started ==
  /\ At("cfg", "started") /\ Return("cfg")
  /\ IF Failed("cfg") THEN UNCHANGED <<ap, hw, cfg>> ELSE Beaconing(ans["cfg"].idx)
  /\ raced' = (raced \/ cac.vif \/ hw.to # NotSet)
  /\ UNCHANGED <<sta, mesh, cac, slot, oops, asked, rest>>

(* rwnx_cfg80211_change_beacon *)
ChangeBeacon ==
  /\ \/ At("cfg", "beacon") /\ Ask("cfg", rwnx_send_bcn, 0, "beacon_change")
     \/ At("cfg", "beacon_change") /\ Ask("cfg", rwnx_send_bcn_change, 0, "end")
  /\ UNCHANGED <<ap, sta, hw, mesh, cac, slot, cfg, oops, raced, rest>>

(* An operation whose last request has been answered. *)
End ==
  /\ At("cfg", "end") /\ Return("cfg")
  /\ UNCHANGED <<ap, sta, hw, mesh, cac, slot, cfg, oops, raced, asked, rest>>

(* rwnx_cfg80211_stop_ap: the stations first, one after the other, ...     *)
StopAp ==
  /\ At("cfg", "stop")
  /\ ap' = [ap EXCEPT !.queues = FALSE]
  /\ LET listed == {i \in StaIdx : sta[i].listed} IN
     IF listed = {} THEN Goto("cfg", "stop_cac") /\ UNCHANGED sta
     ELSE \E i \in listed : Unlist("cfg", i, "stop_sta")
  /\ UNCHANGED <<hw, mesh, cac, slot, cfg, oops, raced, asked, rest>>

(* ... then rwnx_radar_cancel_cac, as rwnx_close does.  It does not wait   *)
(* for a work that already runs.                                           *)
rwnx_radar_cancel_cac(at, next) ==
  /\ At("cfg", at)
  /\ IF cac.vif /\ cac.work = "queued"
     THEN /\ cac' = [cac EXCEPT !.work = "no"]
          /\ Ask("cfg", rwnx_send_apm_stop_cac_req, 0, at \o "_cancelled")
          /\ UNCHANGED raced
     ELSE /\ cac' = [cac EXCEPT !.vif = FALSE] /\ Goto("cfg", next)
          /\ raced' = (raced \/ cac.work = "running") /\ UNCHANGED asked
  /\ UNCHANGED <<ap, sta, hw, mesh, slot, cfg, oops, rest>>

CacCancelled(at, next) ==
  /\ At("cfg", at \o "_cancelled") /\ Goto("cfg", next)
  /\ cfg' = [cfg EXCEPT !.cac = FALSE]
  /\ hw' = rwnx_chanctx_unlink(hw, ap.ch) /\ ap' = [ap EXCEPT !.ch = NotSet]
  /\ cac' = [cac EXCEPT !.vif = FALSE]
  /\ UNCHANGED <<sta, mesh, slot, oops, raced, asked, rest>>

StopApReq ==
  /\ At("cfg", "stop_req") /\ Ask("cfg", rwnx_send_apm_stop_req, 0, "stopped")
  /\ UNCHANGED <<ap, sta, hw, mesh, cac, slot, cfg, oops, raced, rest>>

(* The rest is done whatever the firmware answered.  The BC/MC station     *)
(* loses its queues, those of the interface, but stays valid.              *)
Stopped ==
  /\ At("cfg", "stopped") /\ Return("cfg")
  /\ hw' = rwnx_chanctx_unlink(hw, ap.ch)
  /\ ap' = [rwnx_del_csa EXCEPT !.ch = NotSet, !.txq = FALSE, !.bcn = FALSE, !.wq = @ - 1]
  /\ cfg' = [cfg EXCEPT !.on = FALSE]
  /\ raced' = (raced \/ ap.csa.work # "no")
  /\ UNCHANGED <<sta, mesh, cac, slot, oops, asked, rest>>

(* rwnx_close, as far as it concerns the check. *)
Close ==
  \/ rwnx_radar_cancel_cac("close", "end")
  \/ CacCancelled("close", "end")

-----------------------------------------------------------------------------
(* Stations *)

AddStation ==
  /\ At("cfg", "add") /\ Ask("cfg", rwnx_send_me_sta_add, 0, "added")
  /\ UNCHANGED <<ap, sta, hw, mesh, cac, slot, cfg, oops, raced, rest>>

StationAdded ==
  /\ At("cfg", "added") /\ Return("cfg")
  /\ IF Failed("cfg") THEN UNCHANGED sta
     ELSE sta' = [sta EXCEPT ![ans["cfg"].idx] =
                    [valid |-> TRUE, listed |-> TRUE, txq |-> TRUE, mac |-> pc["cfg"].mac]]
  /\ UNCHANGED <<ap, hw, mesh, cac, slot, cfg, oops, raced, asked, rest>>

(* With a station that is not listed it returns -ENOENT. *)
DelStation ==
  /\ At("cfg", "del")
  /\ LET is == ListedAs(pc["cfg"].mac) IN
     IF is = {} THEN Return("cfg") /\ UNCHANGED sta
     ELSE \E i \in is : Unlist("cfg", i, "del_sta")
  /\ UNCHANGED <<ap, hw, mesh, cac, slot, cfg, oops, raced, asked, rest>>

(* rwnx_cfg80211_change_station: authorising a station. *)
ChangeStation ==
  /\ At("cfg", "change")
  /\ LET is == {i \in StaIdx : sta[i].valid /\ sta[i].mac = pc["cfg"].mac} IN
     IF is = {} THEN Return("cfg") /\ UNCHANGED asked
     ELSE \E i \in is : Ask("cfg", rwnx_send_me_set_control_port_req, i, "end")
  /\ UNCHANGED <<ap, sta, hw, mesh, cac, slot, cfg, oops, raced, rest>>

(* rwnx_apm_staloss_ind: the one slot is overwritten, whatever its work    *)
(* is doing with it, ...                                                   *)
StaLossInd(m) ==
  /\ m.msg = "staloss"
  /\ slot' = [slot EXCEPT !.mac = m.mac, !.writing = TRUE]
  /\ UNCHANGED <<ap, sta, hw, mesh, ans, oops, raced>>

(* ... and its work is queued, again when it already runs. *)
StaLossQueue ==
  /\ slot.writing /\ slot' = [slot EXCEPT !.writing = FALSE, !.queued = TRUE]
  /\ UNCHANGED <<ap, sta, hw, mesh, cac, pc, cfg, oops, raced, asked, rest>>

(* apm_staloss_work_process: it takes a pointer to the slot, ... *)
StaLossWork ==
  /\ slot.queued /\ pc["loss"] = Idle
  /\ slot' = [slot EXCEPT !.queued = FALSE] /\ Goto("loss", "look")
  /\ UNCHANGED <<ap, sta, hw, mesh, cac, cfg, oops, raced, asked, rest>>

(* ... and compares what is there by then: while it is being written,      *)
(* perhaps half an address.                                                *)
StaLossLook ==
  /\ At("loss", "look")
  /\ \E mac \in {slot.mac} \cup {x \in {None} : slot.writing} :
       IF ListedAs(mac) = {} THEN Return("loss") /\ UNCHANGED sta
       ELSE \E i \in ListedAs(mac) : Unlist("loss", i, "lose")
  /\ UNCHANGED <<ap, hw, mesh, cac, slot, cfg, oops, raced, asked, rest>>

StaLossDone ==
  /\ At("loss", "lost") /\ Return("loss")
  /\ UNCHANGED <<ap, sta, hw, mesh, cac, slot, cfg, oops, raced, asked, rest>>

-----------------------------------------------------------------------------
(* rwnx_cfg80211_channel_switch: the beacon that announces the switch, ... *)
ChannelSwitch ==
  /\ At("cfg", "csa")
  /\ IF ap.csa.on THEN Return("cfg") /\ UNCHANGED asked
     ELSE Ask("cfg", rwnx_send_bcn, 0, "csa_bcn")
  /\ UNCHANGED <<ap, sta, hw, mesh, cac, slot, cfg, oops, raced, rest>>

(* ... the switch itself, and the request that starts the countdown. *)
ChannelSwitchStart ==
  /\ At("cfg", "csa_bcn")
  /\ IF Failed("cfg") THEN Return("cfg") /\ UNCHANGED <<ap, asked>>
     ELSE /\ ap' = [ap EXCEPT !.csa = [NoCsa EXCEPT !.on = TRUE]]
          /\ Ask("cfg", rwnx_send_bcn_change, 1, "csa_change")
  /\ UNCHANGED <<sta, hw, mesh, cac, slot, cfg, oops, raced, rest>>

(* INIT_WORK comes after the answer. *)
ChannelSwitchStarted ==
  /\ At("cfg", "csa_change") /\ Return("cfg")
  /\ ap' = IF Failed("cfg") THEN rwnx_del_csa ELSE ap
  /\ raced' = (raced \/ ap.csa.work # "no")
  /\ UNCHANGED <<sta, hw, mesh, cac, slot, cfg, oops, asked, rest>>

(* Mutant: a failed switch does not start the work. *)
CsaFinishInd_OnlyOk(m) ==
  /\ m.msg = "csa_finish"
  /\ ap' = IF ap.csa.on /\ m.st = "OK"
           THEN [ap EXCEPT !.csa = [@ EXCEPT !.ch = m.ch, !.work = "queued"]] ELSE ap
  /\ UNCHANGED <<sta, hw, mesh, slot, ans, oops, raced>>

(* rwnx_rx_csa_finish_ind *)
CsaFinishInd(m) ==
  /\ m.msg = "csa_finish"
  /\ ap' = IF ap.csa.on
           THEN [ap EXCEPT !.csa = [@ EXCEPT !.status = m.st, !.ch = m.ch, !.work = "queued"]]
           ELSE ap
  /\ UNCHANGED <<sta, hw, mesh, slot, ans, oops, raced>>

(* rwnx_csa_finish.  A firmware that could not switch stops the interface. *)
CsaWork ==
  /\ ap.csa.work = "queued" /\ pc["csa"] = Idle
  /\ IF ap.csa.status = "OK"
     THEN /\ ap' = [ap EXCEPT !.csa.work = "running"]
          /\ Ask("csa", rwnx_send_bcn, 0, "csa_bcn")
     ELSE ap' = rwnx_del_csa /\ UNCHANGED <<pc, asked>>
  /\ UNCHANGED <<sta, hw, mesh, cac, slot, cfg, oops, raced, rest>>

(* When the beacon cannot be sent the switch is never ended. *)
CsaWorkBcn ==
  /\ At("csa", "csa_bcn")
  /\ IF Failed("csa") THEN Return("csa") /\ UNCHANGED asked
     ELSE Ask("csa", rwnx_send_bcn_change, 0, "csa_change")
  /\ UNCHANGED <<ap, sta, hw, mesh, cac, slot, cfg, oops, raced, rest>>

(* It takes the wiphy lock, which the caller holds, and cb_lock. *)
CsaWorkLink ==
  /\ At("csa", "csa_change") /\ Return("csa")
  /\ oops' = (oops \/ ~ap.csa.on)
  /\ IF Failed("csa") THEN ap' = rwnx_del_csa /\ UNCHANGED hw
     ELSE /\ pc["cfg"] = Idle
          /\ hw' = rwnx_chanctx_link(rwnx_chanctx_unlink(hw, ap.ch), ap.csa.ch)
          /\ ap' = [rwnx_del_csa EXCEPT !.ch = ap.csa.ch, !.stop = StopOn(ap.csa.ch)]
  /\ raced' = (raced \/ hw.to # NotSet)
  /\ UNCHANGED <<sta, mesh, cac, slot, cfg, asked, rest>>

(* rwnx_rx_chan_pre_switch_ind *)
PreSwitchInd(m) ==
  /\ m.msg = "pre_switch"
  /\ ap' = [ap EXCEPT !.stop = @ \/ ap.ch = m.ch]
  /\ UNCHANGED <<sta, hw, mesh, slot, ans, oops, raced>>

(* rwnx_rx_chan_switch_ind, without cb_lock: it starts the queues of the   *)
(* interfaces on the new channel ...                                       *)
SwitchInd(m) ==
  /\ m.msg = "switch"
  /\ ap' = [ap EXCEPT !.stop = @ /\ ap.ch # m.ch]
  /\ hw' = [hw EXCEPT !.to = m.ch]
  /\ UNCHANGED <<sta, mesh, slot, ans, oops, raced>>

(* ... and then makes it the current one. *)
Switched ==
  /\ hw.to # NotSet /\ hw' = [hw EXCEPT !.cur = hw.to, !.to = NotSet]
  /\ UNCHANGED <<ap, sta, mesh, cac, slot, pc, cfg, oops, raced, asked, rest>>

-----------------------------------------------------------------------------
(* rwnx_cfg80211_start_radar_detection: the work is scheduled before the   *)
(* request, and stays scheduled when the request fails.                    *)
StartRadar ==
  /\ At("cfg", "radar")
  /\ cac' = [vif |-> TRUE, work |-> "queued"]
  /\ Ask("cfg", rwnx_send_apm_start_cac_req, 0, "radar_cfm")
  /\ raced' = (raced \/ cac.work # "no")
  /\ UNCHANGED <<ap, sta, hw, mesh, slot, cfg, oops, rest>>

RadarStarted ==
  /\ At("cfg", "radar_cfm") /\ Return("cfg")
  /\ IF Failed("cfg") THEN UNCHANGED <<ap, hw, cfg>>
     ELSE /\ ap' = [ap EXCEPT !.ch = ans["cfg"].idx]
          /\ hw' = rwnx_chanctx_link(hw, ans["cfg"].idx)
          /\ cfg' = [cfg EXCEPT !.cac = TRUE]
  /\ UNCHANGED <<sta, mesh, cac, slot, oops, raced, asked, rest>>

(* rwnx_radar_cac_work, a minute later: cfg80211 is told first, ... *)
CacWork ==
  /\ cac.work = "queued" /\ pc["cac"] = Idle /\ pc["cfg"].at # "radar_cfm"
  /\ cac' = [cac EXCEPT !.work = "running"]
  /\ cfg' = [cfg EXCEPT !.cac = FALSE]
  /\ Ask("cac", rwnx_send_apm_stop_cac_req, 0, "cac_stopped")
  /\ UNCHANGED <<ap, sta, hw, mesh, slot, oops, raced, rest>>

(* ... the channel context is left last, through cac_vif. *)
CacWorkDone ==
  /\ At("cac", "cac_stopped") /\ Return("cac")
  /\ oops' = (oops \/ ~cac.vif)
  /\ hw' = rwnx_chanctx_unlink(hw, ap.ch) /\ ap' = [ap EXCEPT !.ch = NotSet]
  /\ cac' = [vif |-> FALSE, work |-> "no"]
  /\ raced' = (raced \/ cfg.on)
  /\ UNCHANGED <<sta, mesh, slot, cfg, asked, rest>>

-----------------------------------------------------------------------------
(* A mesh whose peers the firmware manages (user_mpm is not set) *)

(* rwnx_cfg80211_join_mesh *)
JoinMesh ==
  /\ \/ /\ At("cfg", "join") /\ Ask("cfg", rwnx_send_mesh_start_req, 0, "joined")
        /\ UNCHANGED <<ap, hw, cfg, raced>>
     \/ /\ At("cfg", "joined") /\ Return("cfg") /\ UNCHANGED asked
        /\ IF Failed("cfg") THEN UNCHANGED <<ap, hw, cfg>> ELSE Beaconing(ans["cfg"].idx)
        /\ raced' = (raced \/ hw.to # NotSet)
  /\ UNCHANGED <<sta, mesh, cac, slot, oops, rest>>

(* rwnx_cfg80211_leave_mesh; cfg80211 takes it for done in any case.  The  *)
(* check it cancels is over before a mesh can be joined.                   *)
LeaveMesh ==
  /\ \/ /\ At("cfg", "leave") /\ Ask("cfg", rwnx_send_mesh_stop_req, 0, "left")
        /\ UNCHANGED <<ap, hw, cfg>>
     \/ /\ At("cfg", "left") /\ Return("cfg") /\ UNCHANGED asked
        /\ cfg' = [cfg EXCEPT !.on = FALSE]
        /\ IF Failed("cfg") THEN UNCHANGED <<ap, hw>>
           ELSE /\ hw' = rwnx_chanctx_unlink(hw, ap.ch)
                /\ ap' = [ap EXCEPT !.ch = NotSet, !.txq = FALSE, !.bcn = FALSE, !.queues = FALSE]
  /\ UNCHANGED <<sta, mesh, cac, slot, oops, raced, rest>>

(* rwnx_rx_mesh_peer_update_ind: a new peer links the interface's channel  *)
(* context once more; a peer that leaves does not unlink it.               *)
PeerInd(m) ==
  /\ m.msg = "peer"
  /\ IF m.st = "ESTAB" /\ ~sta[m.idx].valid
     THEN /\ sta' = [sta EXCEPT ![m.idx] = [valid |-> TRUE, listed |-> TRUE, txq |-> TRUE,
                                            mac |-> m.mac]]
          /\ hw' = IF ap.ch = NotSet THEN hw ELSE rwnx_chanctx_link(hw, ap.ch)
     ELSE /\ sta' = IF m.st # "ESTAB" /\ sta[m.idx].valid THEN [sta EXCEPT ![m.idx] = NoSta] ELSE sta
          /\ UNCHANGED hw
  /\ UNCHANGED <<ap, mesh, slot, ans, oops, raced>>

(* rwnx_rx_mesh_path_update_ind: the path to m.mac gets the next hop       *)
(* m.idx, or goes.                                                         *)
PathInd(m) ==
  /\ m.msg = "path"
  /\ mesh' = [mesh EXCEPT ![m.mac] = IF m.st = "DELETE" THEN NotSet ELSE m.idx]
  /\ UNCHANGED <<ap, sta, hw, slot, ans, oops, raced>>

-----------------------------------------------------------------------------
(* The receive thread *)

Confirm(m) ==
  /\ m.msg = "cfm" /\ ans' = [ans EXCEPT ![m.to] = [st |-> m.st, idx |-> m.idx]]
  /\ UNCHANGED <<ap, sta, hw, mesh, slot, oops, raced>>

Receive ==
  /\ tohost # <<>> /\ tohost' = Tail(tohost) /\ hw.to = NotSet /\ ~slot.writing
  /\ \/ Confirm(Head(tohost)) \/ StaLossInd(Head(tohost)) \/ CsaFinishInd(Head(tohost))
     \/ PreSwitchInd(Head(tohost)) \/ SwitchInd(Head(tohost))
     \/ PeerInd(Head(tohost)) \/ PathInd(Head(tohost))
  /\ UNCHANGED <<scene, calls, events, cac, pc, cfg, fw, tofw, faults>>

-----------------------------------------------------------------------------
(* The firmware *)

Cfm(p, st, i) == <<[msg |-> "cfm", to |-> p, st |-> st, idx |-> i]>>
Other(c) == 1 - c
(* What a change of channel announces. *)
Moves(c) == <<[msg |-> "pre_switch", ch |-> Other(c)], [msg |-> "switch", ch |-> c]>>
fwRest == <<scene, ap, sta, hw, mesh, cac, slot, pc, ans, cfg, calls, oops, raced>>

(* A start takes the channel the firmware is on, or switches to the other. *)
FwHandles ==
  /\ tofw # <<>> /\ tofw' = Tail(tofw)
  /\ LET q == Head(tofw)
         free == StaIdx \ fw.stas
         i == CHOOSE j \in free : \A k \in free : j <= k
         Out(f, m) == fw' = f /\ tohost' = tohost \o m
     IN CASE q.req \in {"APM_START_REQ", "MESH_START_REQ", "APM_START_CAC_REQ"} ->
               \E c \in Chans :
                 Out([fw EXCEPT !.on = (q.req # "APM_START_CAC_REQ"), !.chan = c],
                     Cfm(q.from, "OK", c) \o (IF c = fw.chan THEN <<>> ELSE Moves(c)))
          [] q.req \in {"APM_STOP_REQ", "MESH_STOP_REQ"} ->
               Out([fw EXCEPT !.on = FALSE, !.csa = FALSE], Cfm(q.from, "OK", 0))
          [] q.req = "ME_STA_ADD_REQ" ->
               Out([fw EXCEPT !.stas = @ \cup {i}], Cfm(q.from, "OK", i))
          [] q.req = "ME_STA_DEL_REQ" ->
               Out([fw EXCEPT !.stas = @ \ {q.idx}], Cfm(q.from, "OK", 0))
          [] q.req = "MM_BCN_CHANGE_REQ" ->
               Out([fw EXCEPT !.csa = @ \/ (q.idx = 1)], Cfm(q.from, "OK", 0))
          [] OTHER -> Out(fw, Cfm(q.from, "OK", 0))
  /\ UNCHANGED <<events, faults, fwRest>>

FwRefuses ==
  /\ tofw # <<>> /\ tofw' = Tail(tofw) /\ faults < MaxFaults /\ faults' = faults + 1
  /\ Head(tofw).req \in {"APM_START_REQ", "MESH_START_REQ", "ME_STA_ADD_REQ", "APM_START_CAC_REQ"}
  /\ tohost' = tohost \o Cfm(Head(tofw).from, "REFUSED", 0)
  /\ UNCHANGED <<fw, events, fwRest>>

(* The countdown of a channel switch is over. *)
FwSwitched ==
  /\ fw.csa
  /\ LET c == Other(fw.chan) IN
     \/ /\ fw' = [fw EXCEPT !.csa = FALSE, !.chan = c]
        /\ \E before \in BOOLEAN :
             LET f == <<[msg |-> "csa_finish", st |-> "OK", ch |-> c]>>
             IN tohost' = tohost \o (IF before THEN f \o Moves(c) ELSE Moves(c) \o f)
     \/ /\ fw' = [fw EXCEPT !.csa = FALSE]
        /\ tohost' = Append(tohost, [msg |-> "csa_finish", st |-> "FAILED", ch |-> fw.chan])
  /\ UNCHANGED <<tofw, events, faults, fwRest>>

Event == events < MaxEvents /\ events' = events + 1

(* It leaves the interface's channel for another interface, and comes back. *)
FwMoves ==
  /\ Event /\ fw.on /\ ~fw.csa /\ ap.ch = fw.chan
  /\ tohost' = tohost \o Moves(Other(fw.chan)) \o Moves(fw.chan)
  /\ UNCHANGED <<fw, tofw, faults, fwRest>>

FwLoses ==
  /\ Event /\ scene.mode = "AP"
  /\ \E i \in fw.stas : sta[i].txq /\ tohost' = Append(tohost, [msg |-> "staloss", mac |-> sta[i].mac])
  /\ UNCHANGED <<fw, tofw, faults, fwRest>>

(* A peer comes or goes; a peer has one index. *)
FwPeers ==
  /\ Event /\ fw.on /\ scene.mode = "MESH"
  /\ \E i \in StaIdx :
       \/ /\ i \in fw.stas /\ fw' = [fw EXCEPT !.stas = @ \ {i}, !.peer[i] = None]
          /\ tohost' = Append(tohost, [msg |-> "peer", idx |-> i, st |-> "GONE", mac |-> fw.peer[i]])
       \/ /\ i \notin fw.stas
          /\ \E m \in Macs \ {fw.peer[j] : j \in StaIdx} :
               /\ fw' = [fw EXCEPT !.stas = @ \cup {i}, !.peer[i] = m]
               /\ tohost' = Append(tohost, [msg |-> "peer", idx |-> i, st |-> "ESTAB", mac |-> m])
  /\ UNCHANGED <<tofw, faults, fwRest>>

FwPaths ==
  /\ Event /\ fw.on /\ scene.mode = "MESH"
  /\ \E i \in fw.stas, m \in Macs, st \in {"UPDATE", "DELETE"} :
       tohost' = Append(tohost, [msg |-> "path", idx |-> i, st |-> st, mac |-> m])
  /\ UNCHANGED <<fw, tofw, faults, fwRest>>

-----------------------------------------------------------------------------
CallerStep ==
  \/ StartAp \/ StartApReq \/ Started \/ ChangeBeacon \/ End
  \/ StopAp \/ RemoveSta("cfg", "stop_sta", "stop") \/ rwnx_radar_cancel_cac("stop_cac", "stop_req")
  \/ CacCancelled("stop_cac", "stop_req") \/ StopApReq \/ Stopped \/ Close
  \/ AddStation \/ StationAdded \/ ChangeStation
  \/ DelStation \/ RemoveSta("cfg", "del_sta", "end")
  \/ ChannelSwitch \/ ChannelSwitchStart \/ ChannelSwitchStarted
  \/ StartRadar \/ RadarStarted \/ JoinMesh \/ LeaveMesh

CsaStep == CsaWork \/ CsaWorkBcn \/ CsaWorkLink
LossStep == StaLossWork \/ StaLossLook \/ RemoveSta("loss", "lose", "lost") \/ StaLossDone
CacStep == CacWork \/ CacWorkDone
Ops == UNION {s.ops : s \in Scenes}

Next ==
  \/ \E op \in Ops, m \in Macs : Call(op, m)
  \/ CallerStep \/ CsaStep \/ LossStep \/ CacStep
  \/ Receive \/ Switched \/ StaLossQueue
  \/ FwHandles \/ FwRefuses \/ FwSwitched \/ FwMoves \/ FwLoses \/ FwPeers \/ FwPaths

(* Works and threads run, the firmware answers and a countdown ends. *)
Fairness ==
  /\ WF_vars(CallerStep) /\ SF_vars(CsaStep) /\ WF_vars(LossStep) /\ WF_vars(CacStep)
  /\ WF_vars(Receive) /\ WF_vars(Switched \/ StaLossQueue) /\ WF_vars(FwHandles) /\ WF_vars(FwSwitched)

Spec == Init /\ [][Next]_vars /\ Fairness

-----------------------------------------------------------------------------
(* Properties *)

Calm == faults = 0 /\ ~raced
Quiet ==
  /\ tofw = <<>> /\ tohost = <<>> /\ hw.to = NotSet /\ ~slot.writing
  /\ \A p \in Procs : pc[p] = Idle

(* Every variable has its type. *)
TypeOK ==
  /\ ap.ch \in Chans \cup {NotSet} /\ ap.wq \in Nat
  /\ ap.csa.work \in {"no", "queued", "running"} /\ cac.work \in {"no", "queued", "running"}
  /\ hw.count \in [Chans -> Nat] /\ hw.cur \in Chans
  /\ \A i \in StaIdx : sta[i].mac \in Macs \cup {None}
  /\ \A p \in Procs : ans[p].st \in {"wait", "OK", "ERR", "REFUSED"}

(* The processes that have taken station i from the list and not yet its   *)
(* queues.                                                                 *)
Removing(i) == {p \in Procs : pc[p].at \in {"stop_sta", "del_sta", "lose"} /\ pc[p].idx = i}

(* A station has queues exactly while it is listed, and after that until   *)
(* the one process that unlisted it has removed them: del_station, stop_ap *)
(* and the work for a lost station never remove the same station, and none *)
(* takes the queues of a station added since.  When nothing is under way   *)
(* the driver and the firmware have the same stations, each once.          *)
StationsExact ==
  /\ \A i \in StaIdx :
       /\ sta[i].listed => sta[i].valid /\ sta[i].txq
       /\ Cardinality(Removing(i)) = IF sta[i].txq /\ ~sta[i].listed THEN 1 ELSE 0
  /\ \A i, j \in StaIdx : sta[i].listed /\ sta[j].listed /\ sta[i].mac = sta[j].mac => i = j
  /\ Calm /\ Quiet => {i \in StaIdx : sta[i].valid} = fw.stas

(* The count of a channel context is the number of interfaces using it     *)
(* (struct rwnx_chanctx) for an access point, through starts, stops,       *)
(* switches and checks.  A mesh links its context once more with every     *)
(* peer (rwnx_rx_mesh_peer_update_ind).                                    *)
ChanCount ==
  scene.mode = "AP" /\ Calm => \A c \in Chans : hw.count[c] = IF ap.ch = c THEN 1 ELSE 0

(* The queues of a running access point are stopped exactly while its      *)
(* channel is not the current one, in whatever order the messages about    *)
(* channels and the end of a switch are handled.                           *)
QueuesFollow ==
  Calm /\ Quiet /\ ap.txq /\ ~ap.csa.on => (ap.stop <=> ap.ch # hw.cur)

(* Driver, firmware and queues agree about stations and channels, however  *)
(* the user's calls, the works and the firmware's messages interleave.     *)
ApExact == TypeOK /\ StationsExact /\ ChanCount /\ QueuesFollow

(* An access point that is stopped leaves nothing behind but the flag of   *)
(* its BC/MC station, which "delete BC/MC STA" does not clear              *)
(* (rwnx_main.c:4058), and no work uses what has been freed.  It is said   *)
(* of the behaviours without the windows that raced names: a stop while    *)
(* the work of a switch is queued or runs, and a check that is cancelled   *)
(* while its work runs.                                                    *)
NothingLeft ==
  /\ Calm => ~oops
  /\ Calm /\ Quiet /\ ~cfg.on /\ scene.mode = "AP" =>
       /\ ~ap.csa.on /\ ~ap.bcn /\ ~ap.txq /\ ~ap.queues /\ ap.wq = 0
       /\ \A i \in StaIdx : ~sta[i].listed /\ ~sta[i].txq
       /\ cac.vif = cfg.cac /\ (ap.ch = NotSet <=> ~cac.vif)

(* A report about station m that the work has not compared yet. *)
Reported(m) == slot.mac = m /\ (slot.writing \/ slot.queued \/ pc["loss"].at = "look")

(* A channel switch ends; a listed station that is reported lost leaves    *)
(* the list, unless the report of another station takes its place in the   *)
(* one slot first.                                                         *)
Ends ==
  /\ ap.csa.on ~> ~ap.csa.on \/ ~Calm
  /\ \A m \in Macs : Reported(m) /\ ListedAs(m) # {} ~> ListedAs(m) = {} \/ slot.mac # m
=============================================================================
