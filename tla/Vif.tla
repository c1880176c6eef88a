-------------------------------- MODULE Vif ---------------------------------
(***************************************************************************)
(* Interfaces, the station side of a connection, scans and remain-on-      *)
(* channel (rwnx_main.c, rwnx_msg_rx.c).                                   *)
(*                                                                         *)
(* Three actors of the driver interleave.  The caller runs one operation   *)
(* of cfg80211 or of the network stack at a time (they hold the rtnl or    *)
(* wiphy lock) and sleeps in it whenever it sends a request.  The receive  *)
(* thread takes the firmware's messages in order, wakes the caller for a   *)
(* confirmation and runs the handler of an indication.  The timer of the   *)
(* P2P device removes that device when it is not used.                     *)
(*                                                                         *)
(* The firmware and cfg80211 are modelled from the way this code uses      *)
(* them.  The firmware handles requests in order; it ends a cancelled scan *)
(* with SCANU_START_CFM, announces the end of a connection with            *)
(* SM_DISCONNECT_IND after it has confirmed the request, and starts a roam *)
(* by announcing the end of the old connection.  User space opens a P2P    *)
(* interface only while the P2P device runs, asks for the P2P wildcard     *)
(* SSID only through that device, and removes a device only when nothing   *)
(* remains on channel for it.                                              *)
(*                                                                         *)
(* A request can fail to be sent (faults) and the firmware can refuse one; *)
(* a request the firmware never answers is CmdMgr's subject.               *)
(***************************************************************************)
EXTENDS Requests, Integers, FiniteSets

CONSTANTS
  Netdevs,     \* interfaces with a network device
  Wlan0,       \* the one the driver creates itself (rwnx_cfg80211_init)
  P2pDev,      \* the P2P device, which has none
  TypeOf,      \* the type cfg80211 creates each interface with
  MaxIdx,      \* NX_VIRT_DEV_MAX
  AliveTicks,  \* P2P_ALIVE_TIME_COUNT
  WorkTicks,   \* the count above which the timer clears p2p_working
  Scenes,      \* the sets of operations a behaviour may consist of
  MaxCalls,    \* bound on the operations in a behaviour
  MaxFaults,   \* bound on the failed and refused requests
  MaxLost      \* bound on the connections that end by themselves

None == "none"
Vifs == Netdevs \cup {P2pDev}
Idx == 0 .. MaxIdx - 1
P2pTypes == {"P2P_CLIENT", "P2P_GO"}
StaTypes == {"STATION", "P2P_CLIENT"}

ASSUME VifAssumption ==
  /\ Wlan0 \in Netdevs /\ P2pDev \notin Netdevs
  /\ TypeOf \in [Vifs -> StaTypes \cup {"P2P_DEVICE"}] /\ TypeOf[P2pDev] = "P2P_DEVICE"
  /\ MaxIdx \in Nat \ {0} /\ AliveTicks \in Nat \ {0} /\ WorkTicks \in Nat
  /\ MaxCalls \in Nat /\ MaxFaults \in Nat /\ MaxLost \in Nat

VARIABLES
  scene,
  vif,    \* struct rwnx_vif of every interface
  hw,     \* struct rwnx_hw
  cfg,    \* cfg80211: the scan and the connections it waits for, the interfaces that run
  fw,     \* the firmware: its interfaces, their connections, scan, remain-on-channel
  tofw,   \* requests on their way to the firmware
  tohost, \* confirmations and indications on their way to the driver
  call,   \* the caller: the operation, its interface, where it is
  ans,    \* what its request returned; "wait" while it sleeps
  tpc,    \* where the P2P timer's handler is
  calls, faults, lost,
  oops,   \* a NULL or freed pointer was used
  raced   \* a known race happened (see Race)

vars == <<scene, vif, hw, cfg, fw, tofw, tohost, call, ans, tpc, calls, faults, lost, oops, raced>>

Idle == [op |-> "idle", v |-> P2pDev, pc |-> "idle", arg |-> FALSE, n |-> 0]

NewVif(t) == [listed |-> FALSE, drv |-> 0, idx |-> 0, up |-> FALSE, type |-> t,
              conn |-> "DISCONNECTED", ap |-> FALSE, linked |-> FALSE,
              carrier |-> FALSE, roam |-> FALSE, ext |-> FALSE, unheard |-> FALSE]
NoRoc == [wdev |-> None, mgmt |-> FALSE, on_chan |-> FALSE]
NoScan == [wdev |-> None, id |-> 0]

Init ==
  /\ scene \in Scenes
  /\ vif = [v \in Vifs |-> [NewVif(TypeOf[v]) EXCEPT !.listed = (v = Wlan0)]]
  /\ hw = [started |-> 0, table |-> [i \in Idx |-> None], scan_request |-> NoScan,
           scanning |-> FALSE, roc |-> NoRoc, alive |-> FALSE, timer |-> FALSE,
           count |-> 0, working |-> FALSE, dev |-> None, monitor |-> None, links |-> 0,
           stuck |-> FALSE, crashed |-> FALSE]
  /\ cfg = [scan |-> NoScan, run |-> {}, conn |-> {}]
  /\ fw = [ifs |-> {}, link |-> [i \in Idx |-> "idle"], scan |-> FALSE, roc |-> FALSE]
  /\ tofw = <<>> /\ tohost = <<>>
  /\ call = Idle /\ ans = [st |-> "OK", idx |-> 0] /\ tpc = "idle"
  /\ calls = 0 /\ faults = 0 /\ lost = 0 /\ oops = FALSE /\ raced = FALSE

-----------------------------------------------------------------------------
(* Requests and answers *)

me == vif[call.v]
Goto(l) == call' = [call EXCEPT !.pc = l]
Return == call' = Idle
At(l) == call.pc = l /\ ans.st # "wait"
Failed == ans.st # "OK"

(* The caller sends the message of r about interface i and continues at l  *)
(* with the answer; or the message cannot be sent, as none can once the    *)
(* command manager is in its state CRASHED.                                *)
Ask(r, i, l) ==
  /\ Goto(l)
  /\ \/ /\ ~hw.crashed
        /\ tofw' = Append(tofw, [req |-> r.msgs[1].req, idx |-> i, wait |-> TRUE])
        /\ ans' = [st |-> "wait", idx |-> 0]
        /\ UNCHANGED faults
     \/ /\ hw.crashed \/ faults < MaxFaults
        /\ faults' = IF hw.crashed THEN faults ELSE faults + 1
        /\ ans' = [st |-> "ERR", idx |-> 0]
        /\ UNCHANGED tofw

(* rwnx_send_remove_if with defer: nobody waits, and no error is returned. *)
Defer(r, i) ==
  tofw' = IF hw.crashed THEN tofw
          ELSE Append(tofw, [req |-> r.msgs[1].req, idx |-> i, wait |-> FALSE])

quiet == UNCHANGED <<scene, calls, lost>>
asked == <<tofw, ans, faults>>

(* What the code does when an interface gets, or loses, its index.         *)
UpVif(vs, v, i) == [vs EXCEPT ![v].idx = i, ![v].up = TRUE]
UpHw(h, v, i) == [h EXCEPT !.started = @ + 1, !.table[i] = v]
DownVif(vs, v) == [vs EXCEPT ![v].up = FALSE]
(* Mutant: the interface stays in vif_table. *)
DownTable_Keep(h, v) == h

DownTable(h, v) == [h EXCEPT !.table[vif[v].idx] = None]
(* is_p2p_alive, mod_timer and p2p_alive_timer_count go together. *)
Alive(h) == [h EXCEPT !.alive = TRUE, !.timer = TRUE, !.count = 0]

rwnx_chanctx_link(vs, v) == [vs EXCEPT ![v].linked = TRUE]
rwnx_chanctx_unlink(vs, v) == [vs EXCEPT ![v].linked = FALSE]
(* count++ even when the interface was linked; count-- only when it is. *)
Linked(h) == [h EXCEPT !.links = @ + 1]
Unlinked(h, v) == [h EXCEPT !.links = IF vif[v].linked /\ @ > 0 THEN @ - 1 ELSE @]

(* A message that changes the connection of v is on its way. *)
Coming(v) ==
  \/ fw.link[vif[v].idx] = "joining"
  \/ \E i \in 1 .. Len(tohost) : tohost[i].idx = vif[v].idx
                                 /\ tohost[i].msg \in {"connect_ind", "disconnect_ind"}

(* The caller meets the timer's handler between its two steps, or its      *)
(* decrement of vif_started overlaps one.                                  *)
Race == raced' = (raced \/ tpc # "idle")

-----------------------------------------------------------------------------
(* An operation starts when cfg80211 or the network stack allows it.       *)

Allowed(op, v) ==
  LET s == vif[v] IN
  CASE op = "add"     -> ~s.listed
    [] op = "del"     -> s.listed /\ v \notin cfg.run /\ hw.roc.wdev # v
    [] op = "open"    -> s.listed /\ v \notin cfg.run /\ v \in Netdevs
                         /\ (s.type \in P2pTypes => P2pDev \in cfg.run)
    [] op = "close"   -> v \in cfg.run \cap Netdevs
    [] op = "change"  -> s.listed /\ v \in Netdevs
    [] op = "start"   -> s.listed /\ v = P2pDev /\ v \notin cfg.run
    [] op = "stop"    -> v = P2pDev /\ v \in cfg.run
    [] op = "scan"    -> v \in cfg.run /\ cfg.scan = NoScan
    [] op = "connect" -> v \in cfg.run \cap Netdevs /\ s.type \in StaTypes
    [] op = "disconnect" -> v \in cfg.run \cap Netdevs /\ s.type \in StaTypes
    [] op = "extauth" -> v \in cfg.run \cap Netdevs /\ s.type \in StaTypes /\ s.ext
    [] op = "monitor" -> v \in cfg.run /\ s.type = "MONITOR"
    [] op \in {"roc", "mgmt_tx"} -> v \in cfg.run
    [] op = "cancel_roc" -> hw.roc.wdev = v
    [] OTHER -> FALSE

Args(op, v) == IF op = "change" THEN BOOLEAN ELSE {op = "scan" /\ v = P2pDev}

(* Bound: nothing more is called once the command manager has crashed. *)
Call(op, v) ==
  /\ call = Idle /\ op \in scene /\ calls < MaxCalls /\ ~hw.crashed /\ Allowed(op, v)
  /\ \E a \in Args(op, v) : call' = [op |-> op, v |-> v, pc |-> op, arg |-> a, n |-> vif[v].idx]
  /\ calls' = calls + 1
  /\ cfg' = [cfg EXCEPT
       !.scan = IF op = "scan" THEN [wdev |-> v, id |-> calls + 1] ELSE @,
       !.conn = IF op = "connect" THEN @ \cup {v}
                ELSE IF op \in {"disconnect", "close"} THEN @ \ {v} ELSE @]
  /\ UNCHANGED <<scene, vif, hw, fw, tofw, tohost, ans, tpc, faults, lost, oops, raced>>

-----------------------------------------------------------------------------
(* rwnx_cfg80211_add_iface and _del_iface *)

(* rwnx_interface_add; a monitor interface excludes every other. *)
InterfaceAdd ==
  /\ At("add") /\ call.v \in Netdevs /\ Return
  /\ LET free == Idx \ {vif[u].drv : u \in {w \in Vifs : vif[w].listed}}
         mon == \E u \in Vifs : vif[u].listed /\ vif[u].type = "MONITOR"
     IN vif' = IF free = {} \/ mon THEN vif
               ELSE [vif EXCEPT ![call.v] = [NewVif(TypeOf[call.v]) EXCEPT
                       !.listed = TRUE, !.drv = CHOOSE i \in free : \A j \in free : i <= j]]
  /\ UNCHANGED <<hw, cfg, fw, tohost, tpc, oops, raced, asked>> /\ quiet

rwnx_virtual_interface_add ==
  /\ At("add") /\ call.v = P2pDev /\ Return
  /\ LET free == Idx \ {vif[u].drv : u \in {w \in Vifs : vif[w].listed}}
         i == CHOOSE i \in free : \A j \in free : i <= j
     IN IF free = {} THEN UNCHANGED <<vif, hw>>
        ELSE /\ vif' = [vif EXCEPT ![P2pDev] = [NewVif("P2P_DEVICE") EXCEPT
                          !.listed = TRUE, !.drv = i, !.idx = i]]
             /\ hw' = IF hw.alive THEN hw ELSE [hw EXCEPT !.dev = P2pDev, !.count = 0, !.timer = FALSE]
  /\ UNCHANGED <<cfg, fw, tohost, tpc, oops, raced, asked>> /\ quiet

(* The P2P device is freed while p2p_dev_vif still points to it. *)
rwnx_cfg80211_del_iface ==
  /\ At("del") /\ Return
  /\ vif' = [vif EXCEPT ![call.v].listed = FALSE]
  /\ UNCHANGED <<hw, cfg, fw, tohost, tpc, oops, raced, asked>> /\ quiet

-----------------------------------------------------------------------------
(* rwnx_open *)

Open ==
  /\ At("open") /\ UNCHANGED <<vif, hw, cfg, fw, tohost, tpc, oops, raced>> /\ quiet
  /\ IF hw.started = 0 THEN Ask(rwnx_send_start, 0, "open_coex")
     ELSE Goto("open_p2p") /\ UNCHANGED asked

OpenStarted ==
  /\ At("open_coex") /\ UNCHANGED <<vif, hw, cfg, fw, tohost, tpc, oops, raced>> /\ quiet
  /\ IF Failed THEN Return /\ UNCHANGED asked
     ELSE Ask(rwnx_send_coex_req, 0, "open_p2p")

(* The P2P device comes up with the first P2P interface. *)
OpenP2p ==
  /\ At("open_p2p") /\ vif' = [vif EXCEPT ![call.v].conn = "DISCONNECTED"]
  /\ LET needs == me.type \in P2pTypes /\ ~hw.alive
         adds == needs /\ hw.dev # None /\ ~vif[hw.dev].up
     IN /\ hw' = IF needs /\ ~adds THEN Alive(hw) ELSE hw
        /\ IF adds THEN Ask(rwnx_send_add_if("P2P_DEVICE"), 0, "open_p2p_added")
           ELSE Goto("open_add") /\ UNCHANGED asked
        /\ raced' = (raced \/ (needs /\ tpc # "idle"))
  /\ UNCHANGED <<cfg, fw, tohost, tpc, oops>> /\ quiet

OpenP2pAdded ==
  /\ At("open_p2p_added")
  /\ IF Failed THEN Return /\ UNCHANGED <<vif, hw>>
     ELSE /\ vif' = UpVif(vif, hw.dev, ans.idx)
          /\ hw' = Alive(UpHw(hw, hw.dev, ans.idx))
          /\ Goto("open_add")
  /\ UNCHANGED <<cfg, fw, tohost, tpc, oops, raced, asked>> /\ quiet

OpenAdd ==
  /\ At("open_add") /\ Ask(rwnx_send_add_if(me.type), 0, "open_added")
  /\ UNCHANGED <<vif, hw, cfg, fw, tohost, tpc, oops, raced>> /\ quiet

OpenAdded ==
  /\ At("open_added") /\ Return
  /\ IF Failed THEN UNCHANGED <<vif, hw, cfg>>
     ELSE /\ vif' = [UpVif(vif, call.v, ans.idx) EXCEPT ![call.v].carrier = FALSE]
          /\ hw' = [UpHw(hw, call.v, ans.idx) EXCEPT
                      !.monitor = IF me.type = "MONITOR" THEN call.v ELSE @]
          /\ cfg' = [cfg EXCEPT !.run = @ \cup {call.v}]
  /\ UNCHANGED <<fw, tohost, tpc, oops, raced, asked>> /\ quiet

-----------------------------------------------------------------------------
(* rwnx_close.  The stack takes the device for closed whatever it returns. *)

(* A wait for the connection to leave the states S ends when it does, when *)
(* nothing is coming that could make it, or when the firmware takes longer *)
(* than the driver waits.                                                  *)
WaitEnds(S) ==
  \/ me.conn \notin S /\ UNCHANGED raced
  \/ me.conn \in S /\ raced' = (raced \/ Coming(call.v))

(* Mutant: a scan of the closed interface is left running. *)
Close_KeepsScan ==
  /\ At("close") /\ WaitEnds({"CONNECTING", "DISCONNECTING"})
  /\ LET mine == hw.scan_request.wdev = call.v
     IN /\ hw' = [hw EXCEPT !.scanning = FALSE, !.working = FALSE]
        /\ cfg' = [cfg EXCEPT !.scan = IF mine THEN NoScan ELSE @, !.run = @ \ {call.v}]
        /\ IF mine THEN Ask(rwnx_send_scanu_cancel_req, 0, "close_cancelled")
           ELSE Goto("close_link") /\ UNCHANGED asked
  /\ UNCHANGED <<vif, fw, tohost, tpc, oops>> /\ quiet

(* It waits at most four seconds for a connection attempt to end. *)
Close ==
  /\ At("close") /\ WaitEnds({"CONNECTING", "DISCONNECTING"})
  /\ LET mine == hw.scan_request.wdev = call.v
     IN /\ hw' = [hw EXCEPT !.scanning = FALSE, !.working = FALSE,
                            !.scan_request = IF mine THEN NoScan ELSE @]
        /\ cfg' = [cfg EXCEPT !.scan = IF mine THEN NoScan ELSE @, !.run = @ \ {call.v}]
        /\ IF mine THEN Ask(rwnx_send_scanu_cancel_req, 0, "close_cancelled")
           ELSE Goto("close_link") /\ UNCHANGED asked
  /\ UNCHANGED <<vif, fw, tohost, tpc, oops>> /\ quiet

CloseCancelled ==
  /\ At("close_cancelled")
  /\ IF Failed THEN Return ELSE Goto("close_link")
  /\ UNCHANGED <<vif, hw, cfg, fw, tohost, tpc, oops, raced, asked>> /\ quiet

CloseLink ==
  /\ At("close_link")
  /\ IF me.type \in StaTypes /\ me.conn = "CONNECTED"
     THEN /\ vif' = [vif EXCEPT ![call.v].conn = "DISCONNECTING"]
          /\ Ask(rwnx_send_sm_disconnect_req, me.idx, "close_wait")
     ELSE Goto("close_remove") /\ UNCHANGED <<vif, asked>>
  /\ UNCHANGED <<hw, cfg, fw, tohost, tpc, oops, raced>> /\ quiet

(* It waits at most two seconds for the disconnection. *)
CloseWait ==
  /\ At("close_wait") /\ Goto("close_remove") /\ WaitEnds({"DISCONNECTING"})
  /\ UNCHANGED <<vif, hw, cfg, fw, tohost, tpc, oops, asked>> /\ quiet

CloseRemove ==
  /\ At("close_remove") /\ Ask(rwnx_send_remove_if(FALSE), me.idx, "close_removed")
  /\ UNCHANGED <<vif, hw, cfg, fw, tohost, tpc, oops, raced>> /\ quiet

(* vif_started is read here and written in the next step, with no lock. *)
CloseRemoved ==
  /\ At("close_removed")
  /\ vif' = rwnx_chanctx_unlink([DownVif(vif, call.v) EXCEPT ![call.v].carrier = FALSE], call.v)
  /\ hw' = [Unlinked(DownTable(hw, call.v), call.v) EXCEPT
              !.roc = IF @.wdev = call.v THEN NoRoc ELSE @,
              !.monitor = IF me.type = "MONITOR" THEN None ELSE @]
  /\ call' = [call EXCEPT !.pc = "close_count", !.n = hw.started]
  /\ Race /\ UNCHANGED <<cfg, fw, tohost, tpc, oops, asked>> /\ quiet

CloseCount ==
  /\ At("close_count") /\ hw' = [hw EXCEPT !.started = call.n - 1]
  /\ raced' = (raced \/ hw.started # call.n)
  /\ IF call.n - 1 = 0 THEN Ask(rwnx_send_reset, 0, "close_config") ELSE Return /\ UNCHANGED asked
  /\ UNCHANGED <<vif, cfg, fw, tohost, tpc, oops>> /\ quiet

CloseConfig ==
  /\ \/ At("close_config") /\ Ask(rwnx_send_me_config_req, 0, "close_chan_config")
     \/ At("close_chan_config") /\ Ask(rwnx_send_me_chan_config_req, 0, "close_end")
     \/ At("close_end") /\ Return /\ UNCHANGED asked
  /\ UNCHANGED <<vif, hw, cfg, fw, tohost, tpc, oops, raced>> /\ quiet

-----------------------------------------------------------------------------
(* rwnx_cfg80211_change_iface.  The new type is P2P_CLIENT for a station   *)
(* and STATION for a P2P client, or AP, which arg asks for; an interface   *)
(* that is alone may become a monitor.                                     *)

ChangeTo(v) ==
  IF ~call.arg THEN IF vif[v].type = "STATION" THEN "P2P_CLIENT" ELSE "STATION"
  ELSE IF \E u \in Vifs \ {v} : vif[u].listed THEN "AP" ELSE "MONITOR"

Change ==
  /\ At("change")
  /\ vif' = [vif EXCEPT ![call.v].type = ChangeTo(call.v), ![call.v].ap = FALSE, ![call.v].ext = FALSE]
  /\ raced' = (raced \/ me.conn # "DISCONNECTED" \/ Coming(call.v))
  /\ IF ~me.up THEN Goto("changed") /\ UNCHANGED asked
     ELSE IF hw.scan_request.wdev = call.v
     THEN Ask(rwnx_send_scanu_cancel_req, 0, "change_cancelled")
     ELSE Goto("change_remove") /\ UNCHANGED asked
  /\ UNCHANGED <<hw, cfg, fw, tohost, tpc, oops>> /\ quiet

ChangeCancelled ==
  /\ At("change_cancelled")
  /\ IF Failed THEN Return ELSE Goto("change_remove")
  /\ UNCHANGED <<vif, hw, cfg, fw, tohost, tpc, oops, raced, asked>> /\ quiet

ChangeRemove ==
  /\ At("change_remove") /\ Ask(rwnx_send_remove_if(FALSE), me.idx, "change_removed")
  /\ UNCHANGED <<vif, hw, cfg, fw, tohost, tpc, oops, raced>> /\ quiet

ChangeRemoved ==
  /\ At("change_removed")
  /\ IF Failed THEN Return /\ UNCHANGED <<hw, asked>>
     ELSE hw' = DownTable(hw, call.v) /\ Ask(rwnx_send_add_if(me.type), 0, "change_added")
  /\ UNCHANGED <<vif, cfg, fw, tohost, tpc, oops, raced>> /\ quiet

(* On failure the interface stays up with no index of its own. *)
ChangeAdded ==
  /\ At("change_added")
  /\ IF Failed THEN Return /\ UNCHANGED <<vif, hw>>
     ELSE /\ vif' = [vif EXCEPT ![call.v].idx = ans.idx]
          /\ hw' = [hw EXCEPT !.table[ans.idx] = call.v]
          /\ Goto("changed")
  /\ UNCHANGED <<cfg, fw, tohost, tpc, oops, raced, asked>> /\ quiet

Changed ==
  /\ At("changed") /\ Return
  /\ hw' = [hw EXCEPT !.monitor = IF me.type = "MONITOR" THEN call.v ELSE None]
  /\ UNCHANGED <<vif, cfg, fw, tohost, tpc, oops, raced, asked>> /\ quiet

(* rwnx_cfg80211_set_monitor_channel: the firmware's channel context       *)
(* replaces the one linked before.                                         *)
rwnx_cfg80211_set_monitor_channel ==
  /\ \/ /\ At("monitor")
        /\ IF hw.monitor = None THEN Return /\ UNCHANGED <<asked, oops>>
           ELSE /\ Ask(rwnx_send_config_monitor_req, 0, "monitor_set")
                /\ oops' = (oops \/ ~vif[hw.monitor].up)
        /\ UNCHANGED <<vif, hw>>
     \/ /\ At("monitor_set") /\ Return
        /\ IF Failed THEN UNCHANGED <<vif, hw>>
           ELSE /\ hw' = Linked(Unlinked(hw, hw.monitor))
                /\ vif' = rwnx_chanctx_link(rwnx_chanctx_unlink(vif, hw.monitor), hw.monitor)
        /\ UNCHANGED <<asked, oops>>
  /\ UNCHANGED <<cfg, fw, tohost, tpc, raced>> /\ quiet

-----------------------------------------------------------------------------
(* The P2P device: start, stop and its timer *)

rwnx_cfgp2p_start_p2p_device ==
  /\ At("start") /\ Return /\ cfg' = [cfg EXCEPT !.run = @ \cup {P2pDev}]
  /\ UNCHANGED <<vif, hw, fw, tohost, tpc, oops, raced, asked>> /\ quiet

StopP2p_Forget ==
  /\ At("stop")
  /\ LET mine == hw.scan_request.wdev = P2pDev
     IN /\ cfg' = [cfg EXCEPT !.scan = IF mine THEN NoScan ELSE @, !.run = @ \ {P2pDev}]
        /\ IF mine THEN Ask(rwnx_send_scanu_cancel_req, 0, "stop_device")
           ELSE Goto("stop_device") /\ UNCHANGED asked
  /\ UNCHANGED <<vif, hw, fw, tohost, tpc, oops, raced>> /\ quiet

StopP2p ==
  /\ At("stop")
  /\ LET mine == hw.scan_request.wdev = P2pDev
     IN /\ hw' = [hw EXCEPT !.scan_request = IF mine THEN NoScan ELSE @]
        /\ cfg' = [cfg EXCEPT !.scan = IF mine THEN NoScan ELSE @, !.run = @ \ {P2pDev}]
        /\ IF mine THEN Ask(rwnx_send_scanu_cancel_req, 0, "stop_device")
           ELSE Goto("stop_device") /\ UNCHANGED asked
  /\ UNCHANGED <<vif, fw, tohost, tpc, oops, raced>> /\ quiet

(* del_timer_sync only when the timer is pending: a handler that already   *)
(* runs is not waited for.                                                 *)
StopP2pDevice ==
  /\ At("stop_device") /\ Return /\ Race
  /\ IF hw.dev = P2pDev
     THEN LET h == [hw EXCEPT !.alive = FALSE, !.timer = FALSE] IN
          IF vif[P2pDev].up
          THEN /\ Defer(rwnx_send_remove_if(TRUE), vif[P2pDev].idx)
               /\ vif' = DownVif(vif, P2pDev)
               /\ hw' = [DownTable(h, P2pDev) EXCEPT !.started = @ - 1]
          ELSE hw' = h /\ UNCHANGED <<tofw, vif>>
     ELSE UNCHANGED <<tofw, vif, hw>>
  /\ UNCHANGED <<cfg, fw, tohost, tpc, oops, ans, faults>> /\ quiet

(* aicwf_p2p_alive_timeout, until it has sent the request (a scan, which   *)
(* starts the count anew, ends long before its 200 seconds are over) ...   *)
aicwf_p2p_alive_timeout ==
  /\ hw.timer /\ tpc = "idle" /\ (cfg.scan.wdev = P2pDev => hw.count + 1 < AliveTicks)
  /\ LET busy == \E v \in Vifs : vif[v].listed /\ vif[v].type \in P2pTypes
         count == IF busy THEN 0 ELSE hw.count + 1
         h == [hw EXCEPT !.working = @ /\ hw.count <= WorkTicks, !.alive = @ \/ busy]
     IN IF count < AliveTicks
        THEN /\ hw' = [h EXCEPT !.count = count]
             /\ UNCHANGED <<tofw, tpc, oops>>
        ELSE /\ hw' = [h EXCEPT !.count = 0, !.alive = FALSE, !.timer = FALSE]
             /\ Defer(rwnx_send_remove_if(TRUE), vif[hw.dev].idx)
             /\ tpc' = "down" /\ oops' = (oops \/ ~vif[hw.dev].listed)
  /\ UNCHANGED <<vif, cfg, fw, tohost, call, ans, faults, raced>> /\ quiet

(* ... and under cb_lock; the firmware may have given the index away. *)
AliveTimeoutDown ==
  /\ tpc = "down" /\ tpc' = "idle"
  /\ vif' = DownVif(vif, hw.dev)
  /\ hw' = [DownTable(hw, hw.dev) EXCEPT !.started = @ - 1]
  /\ raced' = (raced \/ call.pc = "close_count" \/ hw.table[vif[hw.dev].idx] # hw.dev)
  /\ UNCHANGED <<cfg, fw, tofw, tohost, call, ans, faults, oops>> /\ quiet

-----------------------------------------------------------------------------
(* rwnx_cfg80211_scan and rwnx_send_scanu_req.  arg: the P2P wildcard SSID *)
(* is asked for.  cfg80211 frees the request when an error is returned;    *)
(* scan_request keeps pointing to it.                                      *)

SCANU_VENDOR_IE == Sends("SCANU_VENDOR_IE_REQ", "SCANU_VENDOR_IE_CFM")
SCANU_START == Sends("SCANU_START_REQ", "SCANU_START_CFM_ADDTIONAL")

ScanBusy ==
  \/ me.conn = "CONNECTING" \/ hw.scanning \/ (me.type \in StaTypes /\ me.ext)
  \/ (hw.working /\ me.type # "P2P_CLIENT" /\ ~call.arg)

ScanRefused == Return /\ cfg' = [cfg EXCEPT !.scan = NoScan]

P2pScan(h) == [Alive(h) EXCEPT !.working = TRUE]

(* The message carries the index the interface has now (call.n), before it *)
(* gets one from the firmware.                                             *)
Scan ==
  /\ At("scan")
  /\ IF ScanBusy THEN ScanRefused /\ UNCHANGED <<hw, asked, raced>>
     ELSE LET adds == call.arg /\ call.v = hw.dev /\ ~me.up
              h == [hw EXCEPT !.scan_request = cfg.scan, !.scanning = TRUE]
          IN /\ hw' = IF call.arg /\ ~adds THEN P2pScan(h) ELSE h
             /\ IF adds THEN Ask(rwnx_send_add_if("P2P_DEVICE"), 0, "scan_added")
                ELSE Goto("scan_ie") /\ UNCHANGED asked
             /\ raced' = (raced \/ (call.arg /\ tpc # "idle"))
             /\ UNCHANGED cfg
  /\ UNCHANGED <<vif, fw, tohost, tpc, oops>> /\ quiet

ScanAdded ==
  /\ At("scan_added")
  /\ IF Failed THEN ScanRefused /\ UNCHANGED <<vif, hw>>
     ELSE /\ vif' = UpVif(vif, call.v, ans.idx)
          /\ hw' = P2pScan(UpHw(hw, call.v, ans.idx))
          /\ Goto("scan_ie") /\ UNCHANGED cfg
  /\ UNCHANGED <<fw, tohost, tpc, oops, raced, asked>> /\ quiet

ScanIe ==
  /\ At("scan_ie") /\ Ask(SCANU_VENDOR_IE, me.idx, "scan_start")
  /\ UNCHANGED <<vif, hw, cfg, fw, tohost, tpc, oops, raced>> /\ quiet

(* After an error the message of the elements, which rwnx_send_msg has     *)
(* disposed of, is freed again.                                            *)
ScanStart ==
  /\ At("scan_start")
  /\ IF Failed THEN ScanRefused /\ oops' = TRUE /\ UNCHANGED asked
     ELSE Ask(SCANU_START, call.n, "scan_end") /\ UNCHANGED <<cfg, oops>>
  /\ UNCHANGED <<vif, hw, fw, tohost, tpc, raced>> /\ quiet

ScanEnd ==
  /\ At("scan_end") /\ IF Failed THEN ScanRefused ELSE Return /\ UNCHANGED cfg
  /\ UNCHANGED <<vif, hw, fw, tohost, tpc, oops, raced, asked>> /\ quiet

(* rwnx_rx_scanu_start_cfm; a completion for a request that cfg80211 no    *)
(* longer has uses freed memory.                                           *)
ScanDone(m) ==
  /\ m.msg = "scan_done"
  /\ hw' = [hw EXCEPT !.scan_request = NoScan, !.scanning = FALSE]
  /\ cfg' = IF hw.scan_request = cfg.scan THEN [cfg EXCEPT !.scan = NoScan] ELSE cfg
  /\ oops' = (oops \/ hw.scan_request \notin {NoScan, cfg.scan})
  /\ UNCHANGED <<vif, ans, raced>>

-----------------------------------------------------------------------------
(* rwnx_cfg80211_connect and _disconnect *)

(* Only the return value tells cfg80211 that a connect has failed. *)
TurnedDown(v) == cfg' = [cfg EXCEPT !.conn = @ \ {v}]

(* The state is set first.  Then shared-key authentication installs its    *)
(* key; SAE without external authentication, and elements that do not fit, *)
(* are turned down with the state left as it is.                           *)
Connect ==
  /\ At("connect")
  /\ LET roam == me.conn = "CONNECTED"
         begun == [vif EXCEPT ![call.v].roam = roam,
                     ![call.v].conn = IF roam THEN "ROAMING" ELSE "CONNECTING"]
     IN \/ /\ me.conn \in {"DISCONNECTING", "CONNECTING"}
           /\ Return /\ vif' = [vif EXCEPT ![call.v].roam = FALSE] /\ UNCHANGED <<cfg, asked>>
        \/ /\ me.conn \notin {"DISCONNECTING", "CONNECTING"}
           /\ \/ /\ Return /\ vif' = [begun EXCEPT ![call.v].unheard = TRUE]
                 /\ TurnedDown(call.v) /\ UNCHANGED asked
              \/ /\ vif' = begun /\ UNCHANGED cfg
                 /\ \/ Ask(rwnx_send_key_add, me.idx, "connect_send")
                    \/ Goto("connect_send") /\ UNCHANGED asked
  /\ raced' = (raced \/ me.conn = "ROAMING")
  /\ UNCHANGED <<hw, fw, tohost, tpc, oops>> /\ quiet

(* Whether the key was installed does not matter. *)
ConnectSend ==
  /\ At("connect_send") /\ Ask(rwnx_send_sm_connect_req(TRUE, TRUE), me.idx, "connect_end")
  /\ vif' = [vif EXCEPT ![call.v].unheard = FALSE]
  /\ UNCHANGED <<hw, cfg, fw, tohost, tpc, oops, raced>> /\ quiet

(* Whatever the answer, the connection state is left as it is. *)
ConnectEnd ==
  /\ At("connect_end") /\ Return
  /\ IF Failed THEN TurnedDown(call.v) ELSE UNCHANGED cfg
  /\ UNCHANGED <<vif, hw, fw, tohost, tpc, oops, raced, asked>> /\ quiet

(* drv_conn_state is read first ... *)
Disconnect ==
  /\ At("disconnect")
  /\ IF me.conn \in {"DISCONNECTED", "DISCONNECTING"} THEN Return ELSE Goto("disconnect_set")
  /\ UNCHANGED <<vif, hw, cfg, fw, tohost, tpc, oops, raced, asked>> /\ quiet

(* ... and overwritten, although an indication may have changed it since. *)
DisconnectSet ==
  /\ At("disconnect_set")
  /\ vif' = [vif EXCEPT ![call.v].conn = "DISCONNECTING"]
  /\ raced' = (raced \/ me.conn = "DISCONNECTED")
  /\ Ask(rwnx_send_sm_disconnect_req, me.idx, "disconnect_end")
  /\ UNCHANGED <<hw, cfg, fw, tohost, tpc, oops>> /\ quiet

DisconnectEnd ==
  /\ At("disconnect_end") /\ Return
  /\ UNCHANGED <<vif, hw, cfg, fw, tohost, tpc, oops, raced, asked>> /\ quiet

(* rwnx_cfg80211_external_auth *)
ExternalAuth ==
  /\ \/ At("extauth") /\ Ask(rwnx_send_sm_external_auth_required_rsp, me.idx, "extauth_end")
        /\ vif' = [vif EXCEPT ![call.v].ext = FALSE]
     \/ At("extauth_end") /\ Return /\ UNCHANGED <<vif, asked>>
  /\ UNCHANGED <<hw, cfg, fw, tohost, tpc, oops, raced>> /\ quiet

-----------------------------------------------------------------------------
(* rwnx_cfg80211_remain_on_channel_, from remain_on_channel and mgmt_tx *)

(* rwnx_cfg80211_mgmt_tx sends at once to an access point's station, to    *)
(* the station's access point and during external authentication; it       *)
(* returns when another remain-on-channel runs, as remain_on_channel does. *)
MgmtTxDirect == call.op = "mgmt_tx" /\ (me.ap \/ me.ext \/ me.type = "AP")

Roc ==
  /\ call.pc \in {"roc", "mgmt_tx"}
  /\ LET adds == call.v = hw.dev /\ ~me.up
     IN IF MgmtTxDirect \/ hw.roc # NoRoc
        THEN Return /\ UNCHANGED <<hw, asked, raced>>
        ELSE /\ raced' = (raced \/ (call.v = P2pDev /\ tpc # "idle"))
             /\ IF adds /\ ~hw.alive
                THEN Ask(rwnx_send_add_if("P2P_DEVICE"), 0, "roc_added") /\ UNCHANGED hw
                ELSE /\ Goto("roc_send") /\ UNCHANGED asked
                     /\ hw' = IF adds THEN Alive(hw) ELSE hw
  /\ UNCHANGED <<vif, cfg, fw, tohost, tpc, oops>> /\ quiet

RocAdded ==
  /\ At("roc_added")
  /\ IF Failed THEN Return /\ UNCHANGED <<vif, hw>>
     ELSE /\ vif' = UpVif(vif, call.v, ans.idx)
          /\ hw' = Alive(UpHw(hw, call.v, ans.idx))
          /\ Goto("roc_send")
  /\ UNCHANGED <<cfg, fw, tohost, tpc, oops, raced, asked>> /\ quiet

RocSend ==
  /\ At("roc_send")
  /\ hw' = [hw EXCEPT !.roc = [wdev |-> call.v, mgmt |-> call.op = "mgmt_tx", on_chan |-> FALSE]]
  /\ Ask(rwnx_send_roc, me.idx, "roc_end")
  /\ UNCHANGED <<vif, cfg, fw, tohost, tpc, oops, raced>> /\ quiet

(* On failure the element is freed, even if an expiry has freed it. *)
RocEnd ==
  /\ At("roc_end") /\ Return
  /\ hw' = IF Failed THEN [hw EXCEPT !.roc = NoRoc] ELSE hw
  /\ oops' = (oops \/ (Failed /\ hw.roc = NoRoc))
  /\ UNCHANGED <<vif, cfg, fw, tohost, tpc, raced, asked>> /\ quiet

rwnx_cfg80211_cancel_remain_on_channel ==
  /\ \/ /\ At("cancel_roc")
        /\ IF hw.roc = NoRoc THEN Return /\ UNCHANGED asked
           ELSE Ask([rwnx_send_cancel_roc EXCEPT !.msgs[1].req = "cancel"], me.idx, "cancel_end")
     \/ At("cancel_end") /\ Return /\ UNCHANGED asked
  /\ UNCHANGED <<vif, hw, cfg, fw, tohost, tpc, oops, raced>> /\ quiet

(* rwnx_rx_chan_switch_ind for a remain-on-channel ... *)
RocStarted(m) ==
  /\ m.msg = "roc_start"
  /\ hw' = [hw EXCEPT !.roc.on_chan = (hw.roc # NoRoc)]
  /\ UNCHANGED <<vif, cfg, ans, oops, raced>>

(* ... and rwnx_rx_remain_on_channel_exp_ind. *)
RocExpired(m) ==
  /\ m.msg = "roc_exp"
  /\ hw' = [hw EXCEPT !.roc = NoRoc]
  /\ oops' = (oops \/ (hw.roc # NoRoc /\ ~vif[hw.roc.wdev].listed))
  /\ UNCHANGED <<vif, cfg, ans, raced>>

-----------------------------------------------------------------------------
(* The receive thread: indications about a connection *)

Owner(m) == hw.table[m.idx]

(* Mutant: a failed connection is not reported. *)
ConnectInd_OnlyOk(m) ==
  /\ m.msg = "connect_ind"
  /\ LET v == Owner(m) IN
     IF v = None \/ m.st # "OK" THEN UNCHANGED <<vif, hw>>
     ELSE /\ vif' = [rwnx_chanctx_link(vif, v) EXCEPT ![v].ap = TRUE, ![v].ext = FALSE,
                       ![v].roam = FALSE, ![v].conn = "CONNECTED", ![v].carrier = TRUE]
          /\ hw' = Linked(hw)
  /\ UNCHANGED <<cfg, ans, oops, raced>>

(* rwnx_rx_sm_connect_ind *)
ConnectInd(m) ==
  /\ m.msg = "connect_ind"
  /\ LET v == Owner(m)
         ok == m.st = "OK"
         dropped == ok /\ vif[v].conn = "DISCONNECTING"
         joined == [vif EXCEPT ![v].ap = TRUE, ![v].ext = FALSE]
     IN /\ cfg' = IF v = None \/ dropped THEN cfg ELSE [cfg EXCEPT !.conn = @ \ {v}]
        /\ IF v = None THEN UNCHANGED <<vif, hw>>
           ELSE /\ vif' = IF ok
                          THEN [rwnx_chanctx_link(joined, v) EXCEPT ![v].roam = FALSE,
                                  ![v].conn = IF dropped THEN @ ELSE "CONNECTED",
                                  ![v].carrier = @ \/ ~dropped]
                          ELSE [vif EXCEPT ![v].conn = "DISCONNECTED", ![v].roam = FALSE,
                                           ![v].ext = FALSE]
                /\ hw' = IF ok THEN Linked(hw) ELSE hw
  /\ UNCHANGED <<ans, oops, raced>>

(* rwnx_rx_sm_disconnect_ind: it reads the state of the interface before   *)
(* it looks whether there is one, and uses sta.ap without looking.         *)
DisconnectInd(m) ==
  /\ m.msg = "disconnect_ind"
  /\ LET v == Owner(m) IN
     IF v = None THEN oops' = TRUE /\ UNCHANGED <<vif, hw, cfg>>
     ELSE IF vif[v].conn = "DISCONNECTED" THEN UNCHANGED <<vif, hw, cfg, oops>>
     ELSE /\ oops' = (oops \/ ~vif[v].ap \/ vif[v].type \notin StaTypes)
          /\ vif' = [rwnx_chanctx_unlink(vif, v) EXCEPT ![v].ap = FALSE, ![v].ext = FALSE,
                       ![v].carrier = @ /\ ~vif[v].up,
                       ![v].conn = IF vif[v].roam THEN @ ELSE "DISCONNECTED"]
          /\ hw' = Unlinked(hw, v)
          /\ cfg' = IF vif[v].up /\ ~vif[v].roam THEN [cfg EXCEPT !.conn = @ \ {v}] ELSE cfg
  /\ UNCHANGED <<ans, raced>>

(* rwnx_rx_sm_external_auth_required_ind.  When user space does not take   *)
(* it, or for another type than a station, the receive thread itself sends *)
(* the refusal and waits for a confirmation that only it could receive.    *)
ExtAuthInd(m) ==
  /\ m.msg = "ext_auth"
  /\ LET v == Owner(m) IN
     \/ v = None /\ oops' = TRUE /\ UNCHANGED <<vif, hw, tofw>>
     \/ /\ v # None /\ vif[v].up /\ vif[v].type = "STATION"
        /\ vif' = [vif EXCEPT ![v].ext = TRUE] /\ UNCHANGED <<hw, tofw, oops>>
     \/ /\ v # None /\ Defer(rwnx_send_sm_external_auth_required_rsp, vif[v].idx)
        /\ hw' = [hw EXCEPT !.stuck = ~hw.crashed] /\ UNCHANGED <<vif, oops>>
  /\ UNCHANGED <<cfg, ans, raced>>

(* cmd_mgr_queue: the receive thread's wait times out, and so may one of   *)
(* the caller that began before.                                           *)
RxTimeout ==
  /\ hw.stuck /\ hw' = [hw EXCEPT !.stuck = FALSE, !.crashed = TRUE]
  /\ ans' \in {ans} \cup (IF ans.st = "wait" THEN {[st |-> "ERR", idx |-> 0]} ELSE {})
  /\ UNCHANGED <<vif, cfg, fw, tofw, tohost, call, tpc, faults, oops, raced>> /\ quiet

(* A confirmation wakes the caller, if it still waits. *)
Confirm(m) ==
  /\ m.msg = "cfm" /\ ans' = IF ans.st = "wait" THEN [st |-> m.st, idx |-> m.idx] ELSE ans
  /\ UNCHANGED <<vif, hw, cfg, oops, raced>>

Receive ==
  /\ tohost # <<>> /\ ~hw.stuck /\ tohost' = Tail(tohost)
  /\ \/ /\ \/ Confirm(Head(tohost)) \/ ConnectInd(Head(tohost)) \/ DisconnectInd(Head(tohost))
           \/ ScanDone(Head(tohost)) \/ RocStarted(Head(tohost)) \/ RocExpired(Head(tohost))
        /\ UNCHANGED tofw
     \/ ExtAuthInd(Head(tohost))
  /\ UNCHANGED <<fw, call, tpc, faults>> /\ quiet

-----------------------------------------------------------------------------
(* The firmware *)

Msg(m, i, s) == [msg |-> m, idx |-> i, st |-> s]

(* What it does with request q: its new state, the answer, and what it     *)
(* announces before and after the answer.                                  *)
Effect(q) ==
  LET free == Idx \ fw.ifs
      i == CHOOSE j \in free : \A k \in free : j <= k
      l == fw.link[q.idx]
      Out(f, before, st, after) == [fw |-> f, before |-> before, st |-> st, after |-> after]
      one(c, m) == IF c THEN <<m>> ELSE <<>>
  IN CASE q.req = "MM_RESET_REQ" ->
            Out([ifs |-> {}, link |-> [j \in Idx |-> "idle"], scan |-> FALSE, roc |-> FALSE],
                <<>>, "OK", <<>>)
       [] q.req = "MM_ADD_IF_REQ" /\ free # {} ->
            Out([fw EXCEPT !.ifs = @ \cup {i}], <<>>, "OK", <<>>)
       [] q.req = "MM_ADD_IF_REQ" /\ free = {} -> Out(fw, <<>>, "REFUSED", <<>>)
       [] q.req = "MM_REMOVE_IF_REQ" ->
            Out([fw EXCEPT !.ifs = @ \ {q.idx}, !.link[q.idx] = "idle"], <<>>, "OK", <<>>)
       [] q.req = "SM_CONNECT_REQ" /\ l = "joining" -> Out(fw, <<>>, "REFUSED", <<>>)
       [] q.req = "SM_CONNECT_REQ" /\ l # "joining" ->
            Out([fw EXCEPT !.link[q.idx] = "joining"], <<>>, "OK",
                one(l = "joined", Msg("disconnect_ind", q.idx, "OK")))
       [] q.req = "SM_DISCONNECT_REQ" ->
            Out([fw EXCEPT !.link[q.idx] = "idle"], <<>>, "OK",
                one(l = "joined", Msg("disconnect_ind", q.idx, "OK"))
                \o one(l = "joining", Msg("connect_ind", q.idx, "FAILED")))
       [] q.req = "SCANU_START_REQ" -> Out([fw EXCEPT !.scan = TRUE], <<>>, "OK", <<>>)
       [] q.req = "SCANU_CANCEL_REQ" ->
            Out([fw EXCEPT !.scan = FALSE], one(fw.scan, Msg("scan_done", 0, "OK")), "OK", <<>>)
       [] q.req = "MM_REMAIN_ON_CHANNEL_REQ" /\ fw.roc -> Out(fw, <<>>, "REFUSED", <<>>)
       [] q.req = "MM_REMAIN_ON_CHANNEL_REQ" /\ ~fw.roc ->
            Out([fw EXCEPT !.roc = TRUE], <<>>, "OK", <<Msg("roc_start", q.idx, "OK")>>)
       [] q.req = "cancel" ->
            Out([fw EXCEPT !.roc = FALSE], <<>>, "OK", one(fw.roc, Msg("roc_exp", q.idx, "OK")))
       [] OTHER -> Out(fw, <<>>, "OK", <<>>)

FwAnswer(q, i, e) ==
  /\ tofw' = Tail(tofw) /\ fw' = e.fw
  /\ tohost' = tohost \o e.before
                 \o (IF q.wait THEN <<Msg("cfm", i, e.st)>> ELSE <<>>) \o e.after

FwHandles ==
  /\ tofw # <<>>
  /\ LET q == Head(tofw)
         new == Effect(q).fw.ifs \ fw.ifs
     IN FwAnswer(q, IF new = {} THEN 0 ELSE CHOOSE i \in new : TRUE, Effect(q))
  /\ UNCHANGED <<vif, hw, cfg, call, ans, tpc, faults, oops, raced>> /\ quiet

(* It may refuse what it could have done. *)
FwRefuses ==
  /\ tofw # <<>> /\ faults < MaxFaults /\ faults' = faults + 1
  /\ Head(tofw).req \in {"MM_ADD_IF_REQ", "SM_CONNECT_REQ", "MM_REMAIN_ON_CHANNEL_REQ"}
  /\ FwAnswer(Head(tofw), 0, [fw |-> fw, before |-> <<>>, st |-> "REFUSED", after |-> <<>>])
  /\ UNCHANGED <<vif, hw, cfg, call, ans, tpc, oops, raced>> /\ quiet

FwJoins(i) ==
  /\ fw.link[i] = "joining"
  /\ \E st \in {"OK", "FAILED"} :
       /\ fw' = [fw EXCEPT !.link[i] = IF st = "OK" THEN "joined" ELSE "idle"]
       /\ tohost' = Append(tohost, Msg("connect_ind", i, st))
  /\ UNCHANGED <<vif, hw, cfg, tofw, call, ans, tpc, faults, oops, raced>> /\ quiet

FwAsksAuth(i) ==
  /\ fw.link[i] = "joining" /\ lost < MaxLost /\ lost' = lost + 1
  /\ tohost' = Append(tohost, Msg("ext_auth", i, "OK"))
  /\ UNCHANGED <<scene, calls, vif, hw, cfg, fw, tofw, call, ans, tpc, faults, oops, raced>>

FwLoses(i) ==
  /\ fw.link[i] = "joined" /\ lost < MaxLost /\ lost' = lost + 1
  /\ fw' = [fw EXCEPT !.link[i] = "idle"]
  /\ tohost' = Append(tohost, Msg("disconnect_ind", i, "OK"))
  /\ UNCHANGED <<scene, calls, vif, hw, cfg, tofw, call, ans, tpc, faults, oops, raced>>

FwScanned ==
  /\ fw.scan /\ fw' = [fw EXCEPT !.scan = FALSE]
  /\ tohost' = Append(tohost, Msg("scan_done", 0, "OK"))
  /\ UNCHANGED <<vif, hw, cfg, tofw, call, ans, tpc, faults, oops, raced>> /\ quiet

FwRocEnds ==
  /\ fw.roc /\ fw' = [fw EXCEPT !.roc = FALSE]
  /\ tohost' = Append(tohost, Msg("roc_exp", 0, "OK"))
  /\ UNCHANGED <<vif, hw, cfg, tofw, call, ans, tpc, faults, oops, raced>> /\ quiet

-----------------------------------------------------------------------------
Step ==
  \/ InterfaceAdd \/ rwnx_virtual_interface_add \/ rwnx_cfg80211_del_iface
  \/ Open \/ OpenStarted \/ OpenP2p \/ OpenP2pAdded \/ OpenAdd \/ OpenAdded
  \/ Close \/ CloseCancelled \/ CloseLink \/ CloseWait \/ CloseRemove
  \/ CloseRemoved \/ CloseCount \/ CloseConfig
  \/ Change \/ ChangeCancelled \/ ChangeRemove \/ ChangeRemoved \/ ChangeAdded \/ Changed
  \/ rwnx_cfg80211_set_monitor_channel
  \/ rwnx_cfgp2p_start_p2p_device \/ StopP2p \/ StopP2pDevice
  \/ Scan \/ ScanAdded \/ ScanIe \/ ScanStart \/ ScanEnd
  \/ Connect \/ ConnectSend \/ ConnectEnd \/ Disconnect \/ DisconnectSet \/ DisconnectEnd \/ ExternalAuth
  \/ Roc \/ RocAdded \/ RocSend \/ RocEnd \/ rwnx_cfg80211_cancel_remain_on_channel

Ops == UNION Scenes

Next ==
  \/ \E op \in Ops, v \in Vifs : Call(op, v)
  \/ Step
  \/ aicwf_p2p_alive_timeout \/ AliveTimeoutDown
  \/ Receive \/ RxTimeout
  \/ FwHandles \/ FwRefuses \/ FwScanned \/ FwRocEnds
  \/ \E i \in Idx : FwJoins(i) \/ FwAsksAuth(i) \/ FwLoses(i)

(* The threads run, the firmware answers and ends what it was asked to do; *)
(* nobody has to call the driver, and no connection has to be lost.        *)
Fairness ==
  /\ WF_vars(Step) /\ WF_vars(Receive) /\ WF_vars(RxTimeout) /\ WF_vars(FwHandles)
  /\ WF_vars(AliveTimeoutDown) /\ WF_vars(FwScanned) /\ WF_vars(FwRocEnds)
  /\ \A i \in Idx : WF_vars(FwJoins(i))

Spec == Init /\ [][Next]_vars /\ Fairness

-----------------------------------------------------------------------------
(* Properties *)

Calm == faults = 0 /\ ~raced /\ ~hw.crashed
Quiet == call = Idle /\ tpc = "idle" /\ tofw = <<>> /\ tohost = <<>>
Up == {v \in Vifs : vif[v].up}

(* Every variable has its type. *)
TypeOK ==
  /\ \A v \in Vifs : vif[v].idx \in Idx /\ vif[v].drv \in Idx
       /\ vif[v].conn \in {"DISCONNECTED", "CONNECTING", "CONNECTED", "DISCONNECTING", "ROAMING"}
  /\ hw.table \in [Idx -> Vifs \cup {None}] /\ hw.started \in Int /\ hw.links \in Nat
  /\ hw.dev \in Vifs \cup {None} /\ hw.count \in 0 .. AliveTicks
  /\ cfg.run \subseteq Vifs /\ fw.ifs \subseteq Idx /\ fw.link \in [Idx -> {"idle", "joining", "joined"}]
  /\ ans.st \in {"wait", "OK", "ERR", "REFUSED"} /\ tpc \in {"idle", "down"}

(* When nothing is under way, the interfaces that are up are exactly those *)
(* the firmware has, each at the index vif_table gives it, and vif_started *)
(* counts them (rwnx_open, rwnx_close, the P2P device's comings and        *)
(* goings).                                                                *)
IndexExact ==
  Calm /\ Quiet =>
    /\ fw.ifs = {vif[v].idx : v \in Up}
    /\ \A i \in Idx : IF i \in fw.ifs THEN hw.table[i] \in Up /\ vif[hw.table[i]].idx = i
                      ELSE hw.table[i] = None
    /\ hw.started = Cardinality(Up)

(* scan_request is the scan cfg80211 waits for, or NULL. *)
ScanOwned == faults = 0 => hw.scan_request \in {NoScan, cfg.scan}

(* The count of the channel context is the number of interfaces linked to  *)
(* it (rwnx_chanctx_link and _unlink, called from four places).            *)
ChanExact == Calm => hw.links = Cardinality({v \in Vifs : vif[v].linked})

(* The driver's tables, the firmware and cfg80211 agree about interfaces,  *)
(* scans and channel contexts (rwnx_interface_add, rwnx_close, rwnx_rx_    *)
(* handlers) whenever nothing is under way.                                *)
TablesExact == TypeOK /\ IndexExact /\ ScanOwned /\ ChanExact

(* No indication meets an interface, a station or an element that is gone. *)
NoOops == Calm => ~oops

(* A connection does not stay in a passing state, cfg80211 is told how a   *)
(* connect it was promised a result of has ended, and a scan ends.  Unless *)
(* a connect was turned down after the state was set (unheard): it stays   *)
(* CONNECTING then, and the next connect returns 0 for it and does nothing *)
(* (rwnx_main.c:2924, 2976, 2913).                                         *)
Settles ==
  /\ \A v \in Netdevs :
       /\ vif[v].conn \in {"CONNECTING", "DISCONNECTING", "ROAMING"} /\ vif[v].up
            ~> \/ vif[v].conn \in {"CONNECTED", "DISCONNECTED"} \/ ~vif[v].up
               \/ vif[v].unheard \/ ~Calm
       /\ v \in cfg.conn ~> v \notin cfg.conn \/ vif[v].unheard \/ ~Calm
  /\ cfg.scan # NoScan ~> cfg.scan = NoScan \/ ~Calm
=============================================================================
