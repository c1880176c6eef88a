--------------------------------- MODULE TxQ --------------------------------
(***************************************************************************)
(* The transmit queues of aic8800_fdrv (rwnx_txq.c, and the parts of       *)
(* rwnx_tx.c and rwnx_msg_rx.c that drive them) for one access point       *)
(* interface: a queue per station and TID, the scheduling lists of the     *)
(* hardware queues, stopping and restarting for channel, power save and    *)
(* CSA, service periods of sleeping stations, network queue flow control,  *)
(* confirmations and retries, stations that join and leave.                *)
(*                                                                         *)
(* rwnx_hw->tx_lock is the variable lock.  A section that holds it and     *)
(* walks no list is one step; rwnx_hwq_process keeps the lock over one     *)
(* step per queue it visits, and what does not take the lock (the          *)
(* confirmation handler, the bus, the flush of a removed queue) runs in    *)
(* between.  Calling tasklet_schedule right after unlocking is part of the *)
(* locked step: the tasklet still runs whenever it likes.                  *)
(*                                                                         *)
(* A queued frame is a unit of qlen: the model does not tell the frames of *)
(* a queue apart.  MU-MIMO, A-MSDU and TDLS queues are not modelled.       *)
(***************************************************************************)
EXTENDS Integers, FiniteSets, SequencesExt

CONSTANTS
  NTxq, NHwq,      \* transmit queues, hardware queues
  Sta,             \* stations, the one of the broadcast queue included
  StaOf,           \* txq->sta
  HwqOf,           \* txq->hwq
  PsId,            \* txq->ps_id
  Mgmt,            \* the queues of TID 8: management frames, no network queue
  VifTxq,          \* the broadcast queue, which carries the state of the vif
  InitialCredits,  \* NX_TXQ_INITIAL_CREDITS
  FlowStop,        \* RWNX_NDEV_FLOW_CTRL_STOP
  FlowRestart,     \* RWNX_NDEV_FLOW_CTRL_RESTART
  HwqSize,         \* hwq->size
  Happens,         \* which of TxEvent may happen
  MaxLen,          \* bound on the frames waiting in a queue
  MaxAir,          \* bound on the frames awaiting confirmation
  MaxReq           \* bound on the packets a traffic request asks for

(* What the firmware, the user and the bus may do besides sending.  A      *)
(* frame is confirmed ("cfm") when it is a management or an EAPOL frame.   *)
TxEvent == {"chan", "vifps", "csa", "ps", "req", "intr", "cfm", "retry",
            "credit", "bus", "member"}

Txq == 1..NTxq
Hwq == 1..NHwq
NoQ == 0
LEGACY_PS_ID == 0
UAPSD_ID == 1
PsIds == {LEGACY_PS_ID, UAPSD_ID}
Reason == {"STA_PS", "VIF_PS", "CHAN", "CSA", "FULL"}

ASSUME TxQAssumption ==
  /\ NTxq \in Nat /\ NHwq \in Nat /\ VifTxq \in Txq \ Mgmt /\ Mgmt \subseteq Txq
  /\ StaOf \in [Txq -> Sta] /\ HwqOf \in [Txq -> Hwq] /\ PsId \in [Txq -> PsIds]
  /\ \A q \in Txq : StaOf[q] = StaOf[VifTxq] => q = VifTxq
  /\ InitialCredits \in 1..127 /\ FlowStop \in Nat /\ FlowRestart \in 0..FlowStop
  /\ HwqSize \in Nat /\ MaxLen \in Nat /\ MaxAir \in Nat /\ MaxReq \in Nat
  /\ Happens \subseteq TxEvent

VARIABLES
  txq,        \* rwnx_hw->txq
  ps,         \* the ps field of the stations, and what the firmware was told
  hwq,        \* rwnx_hw->hwq
  tasklet,    \* rwnx_hw->task is scheduled
  netstop,    \* the network queue of a transmit queue is stopped
  tbusy,      \* usbdev->tbusy
  air,        \* frames pushed and awaiting a confirmation
  lock,       \* who holds tx_lock; "bug" after a BUG_ON
  wh, cur, nxt, \* the hardware queue being walked, its entry, the saved next
  xq,         \* the queue rwnx_start_xmit has checked and not yet locked
  cpc, cq,    \* where the confirmation handler is, and its queue
  apc, asta, aq, astop \* where adding or removing a station is

sched == <<txq, hwq>>
walk  == <<lock, wh, cur, nxt>>
net   == <<netstop, tbusy>>
cfm   == <<cpc, cq, air>>
admin == <<apc, asta, aq, astop>>
vars  == <<sched, ps, tasklet, net, walk, xq, cfm, admin>>

U8(x)  == x % 256
Words  == 65536
U16(x) == x % Words
Word   == 0..(Words - 1)
S8(x)  == ((x + 128) % 256) - 128
MinOf(a, b) == IF a < b THEN a ELSE b

(* The entries of l that are in S, in their order. *)
Keep(l, S) ==
  LET kept[i \in 0..Len(l)] == IF i = 0 THEN <<>>
                               ELSE IF l[i] \in S THEN Append(kept[i - 1], l[i])
                               ELSE kept[i - 1]
  IN  kept[Len(l)]

(* How many frames the queues of Q have when each has n[q] of them. *)
Frames(Q, n) == UNION {{<<q, i>> : i \in 1..n[q]} : q \in Q}
Total(Q, n) == Cardinality(Frames(Q, n))

QueuesOf(s) == {q \in Txq : StaOf[q] = s}
PsQueues(s, id) == {q \in QueuesOf(s) : PsId[q] = id}
Qlen == [q \in Txq |-> txq[q].qlen]
PushLimit == [q \in Txq |-> txq[q].push_limit]
(* The queues of the vif: of the stations in ap.sta_list, and its own. *)
VifQueues == {q \in Txq : ps[StaOf[q]].joined}

TxqSeq == [i \in 1..NTxq |-> i]    \* foreach_sta_txq
PrioSeq == Reverse(TxqSeq)         \* foreach_sta_txq_prio: nx_tid_prio

(* rwnx_txq_init with status st *)
FreshTxq(st) ==
  [active |-> TRUE, stop |-> st, inlist |-> FALSE, flow |-> FALSE,
   credits |-> InitialCredits, qlen |-> 0, nb_retry |-> 0, pkt_sent |-> 0,
   push_limit |-> 0]

TxqRecord ==
  [active : BOOLEAN, stop : SUBSET Reason, inlist : BOOLEAN, flow : BOOLEAN,
   credits : -128..127, qlen : Nat, nb_retry : Nat, pkt_sent : 0..255,
   push_limit : 0..255]

PsRecord ==
  [joined : BOOLEAN, active : BOOLEAN, pkt_ready : [PsIds -> Word],
   sp_cnt : [PsIds -> Word], tim : [PsIds -> BOOLEAN]]

-----------------------------------------------------------------------------
(* Scheduling lists.  T and H stand for the txq and hwq of the moment.     *)

(* rwnx_txq_add_to_hw_list for each queue of the sequence qs *)
Missing(T, qs) == Keep(qs, {q \in Txq : ~T[q].inlist})

AddFlag(T, qs) ==
  [q \in Txq |-> IF Contains(qs, q) THEN [T[q] EXCEPT !.inlist = TRUE] ELSE T[q]]

AddList(H, qs) ==
  [h \in Hwq |-> LET mine == Keep(qs, {q \in Txq : HwqOf[q] = h})
                 IN  IF mine = <<>> THEN H[h]
                     ELSE [list |-> H[h].list \o mine, need |-> TRUE]]

AddToHwList(T, H, qs) ==
  /\ txq' = AddFlag(T, qs)
  /\ hwq' = AddList(H, Missing(T, qs))

(* rwnx_txq_del_from_hw_list for each queue of the set Q *)
DelFlag(T, Q) ==
  [q \in Txq |-> IF q \in Q THEN [T[q] EXCEPT !.inlist = FALSE] ELSE T[q]]

DelList(H, Q) ==
  [h \in Hwq |-> [H[h] EXCEPT !.list = Keep(@, Txq \ Q)]]

(* rwnx_txq_start for each queue of the set Q *)
Start(T, Q, r) ==
  LET hit == {q \in Q : T[q].active /\ r \in T[q].stop}
      T1  == [q \in Txq |-> IF q \in hit THEN [T[q] EXCEPT !.stop = @ \ {r}]
                                         ELSE T[q]]
  IN  AddToHwList(T1, hwq,
        Keep(TxqSeq, {q \in hit : T1[q].stop = {} /\ T1[q].qlen > 0}))

(* rwnx_txq_stop for each queue of the set Q *)
Stop(T, Q, r) ==
  LET hit == {q \in Q : T[q].active}
      T1  == [q \in Txq |-> IF q \in hit THEN [T[q] EXCEPT !.stop = @ \cup {r}]
                                         ELSE T[q]]
  IN  /\ txq' = DelFlag(T1, hit)
      /\ hwq' = DelList(hwq, hit)

-----------------------------------------------------------------------------
(* Queueing a frame: rwnx_txq_queue_skb, called under tx_lock by           *)
(* rwnx_start_xmit and without it by the retry of a confirmed frame.       *)

(* A frame for a sleeping station is counted, and the first one announced. *)
CountFrame(q) ==
  LET s == StaOf[q]  id == PsId[q]
      n == U16(ps[s].pkt_ready[id] + 1)
  IN  IF ~ps[s].active THEN ps
      ELSE [ps EXCEPT ![s].pkt_ready[id] = n,
                      ![s].tim[id] = IF n = 1 THEN TRUE ELSE @]

(* Too many frames stop the network queue, unless the bus has stopped all. *)
FlowStops(q) == q \notin Mgmt /\ ~tbusy /\ txq[q].qlen + 1 > FlowStop

QueueSkb(q) ==
  [txq EXCEPT ![q].qlen = @ + 1, ![q].flow = @ \/ FlowStops(q)]

StopNetQueue(q) == netstop' = [netstop EXCEPT ![q] = @ \/ FlowStops(q)]

-----------------------------------------------------------------------------
(* Processing a hardware queue: rwnx_hwq_process.                          *)

First(l) == IF l = <<>> THEN NoQ ELSE Head(l)

After(l, q) ==
  LET at == {i \in DOMAIN l : l[i] = q}
  IN  IF \E i \in at : i + 1 \in DOMAIN l
      THEN l[Min({i \in at : i + 1 \in DOMAIN l}) + 1] ELSE NoQ

(* Begin to walk the list of h. *)
EnterWalk(H, h) ==
  /\ hwq' = [H EXCEPT ![h].need = FALSE]
  /\ wh' = h
  /\ cur' = First(H[h].list)
  /\ nxt' = After(H[h].list, First(H[h].list))

(* list_for_each_entry_safe goes to the entry saved before. *)
Advance(H) ==
  /\ cur' = nxt
  /\ nxt' = IF nxt = NoQ THEN NoQ ELSE After(H[wh].list, nxt)
  /\ UNCHANGED <<lock, wh>>

(* rwnx_txq_get_credits *)
GetCredits(t) ==
  IF t.push_limit # 0 /\ t.credits > t.push_limit THEN t.push_limit ELSE t.credits

(* Mutant: the end of a service period does not take the queue off the list. *)
TxqEmpty_NoLimit(t) == GetCredits(t) >= t.qlen

(* How many frames rwnx_txq_get_skb_to_push takes, and whether it says that
   the queue has no more to send. *)
NbPush(t) == MinOf(GetCredits(t), t.qlen)
TxqEmpty(t) ==
  GetCredits(t) >= t.qlen \/ (t.push_limit # 0 /\ GetCredits(t) = t.push_limit)

(* The queue after k calls of rwnx_tx_push; retried frames come first. *)
Pushed(t, k) ==
  [t EXCEPT !.qlen = @ - k,
            !.nb_retry = @ - MinOf(@, k),
            !.pkt_sent = U8(@ + k - MinOf(t.nb_retry, k)),
            !.push_limit = @ - MinOf(@, k)]

(* The station after k calls of rwnx_set_more_data_flag; then a legacy
   service period that could not be completed is given up. *)
PushedPs(q, k, rest) ==
  LET s == StaOf[q]  id == PsId[q]
      aborted == IF id = LEGACY_PS_ID THEN rest ELSE 0
      more == IF ~ps[s].active THEN ps
              ELSE [ps EXCEPT ![s].pkt_ready[id] = U16(@ - k),
                              ![s].sp_cnt[id] = U16(@ - k),
                              ![s].tim[id] = @ /\ ps[s].pkt_ready[id] \notin 1..k]
  IN  [more EXCEPT ![s].sp_cnt[id] = U16(@ - aborted)]

(* Mutant: the network queue is never restarted. *)
Settle_NoClear(t) ==
  [t EXCEPT !.push_limit = IF PsId[cur] = LEGACY_PS_ID THEN 0 ELSE @]

(* The end of a visit: a queue without more to send leaves the list, one
   that sent too much in a row lets the list rotate. *)
Settle(t) ==
  [t EXCEPT !.push_limit = IF PsId[cur] = LEGACY_PS_ID THEN 0 ELSE @,
            !.flow = @ /\ t.qlen >= FlowRestart]

Rotate(l) == IF l = <<>> THEN l ELSE Append(Tail(l), Head(l))

ProcessPush ==
  LET t == txq[cur]
      k == NbPush(t)
      t1 == Pushed(t, k)
      gone == TxqEmpty(t)
      turn == ~gone /\ t1.pkt_sent > HwqSize
      t2 == [Settle(t1) EXCEPT !.pkt_sent = IF gone \/ turn THEN 0 ELSE @,
                               !.inlist = ~gone]
      H == IF gone THEN DelList(hwq, {cur})
           ELSE IF turn THEN [hwq EXCEPT ![wh].list = Rotate(@)] ELSE hwq
      most == IF "cfm" \in Happens THEN MinOf(k, MaxAir - air[cur]) ELSE 0
  IN  /\ txq' = [txq EXCEPT ![cur] = t2]
      /\ ps' = PushedPs(cur, k, t1.push_limit)
      /\ hwq' = H
      /\ netstop' = [netstop EXCEPT ![cur] = @ /\ (tbusy \/ t1.flow = t2.flow)]
      /\ \E n \in 0..most : air' = [air EXCEPT ![cur] = @ + n]
      /\ Advance(H)

(* A queue whose station has left is taken off the list and flushed. *)
ProcessInactive ==
  /\ txq' = [txq EXCEPT ![cur].inlist = FALSE, ![cur].qlen = 0]
  /\ hwq' = DelList(hwq, {cur})
  /\ Advance(DelList(hwq, {cur}))
  /\ UNCHANGED <<ps, netstop, air>>

(* The BUG_ONs of a visit *)
BugOn(t) == ~t.inlist \/ (t.active /\ (t.credits <= 0 \/ t.qlen = 0))

(* Visit the next queue of the list; a BUG_ON stops there, lock held. *)
ProcessTxq ==
  /\ lock \in {"xmit", "task"} /\ cur # NoQ
  /\ IF BugOn(txq[cur])
     THEN lock' = "bug" /\ UNCHANGED <<sched, ps, netstop, air, wh, cur, nxt>>
     ELSE IF txq[cur].active THEN ProcessPush ELSE ProcessInactive
  /\ UNCHANGED <<tasklet, tbusy, xq, cpc, cq, admin>>

(* The walk that rwnx_start_xmit began is over. *)
XmitDone ==
  /\ lock = "xmit" /\ cur = NoQ
  /\ lock' = "free"
  /\ UNCHANGED <<sched, ps, tasklet, net, wh, cur, nxt, xq, cfm, admin>>

(* rwnx_task: take the lock and process every hardware queue that needs it,
   the highest first (rwnx_hwq_process_all). *)
TaskRun ==
  /\ tasklet /\ lock = "free"
  /\ tasklet' = FALSE
  /\ lock' = "task" /\ wh' = NHwq + 1 /\ cur' = NoQ /\ nxt' = NoQ
  /\ UNCHANGED <<sched, ps, net, xq, cfm, admin>>

TaskNext ==
  /\ lock = "task" /\ cur = NoQ
  /\ LET todo == {h \in Hwq : h < wh /\ hwq[h].need}
     IN  IF todo = {} THEN lock' = "free" /\ UNCHANGED <<hwq, wh, cur, nxt>>
                      ELSE EnterWalk(hwq, Max(todo)) /\ UNCHANGED lock
  /\ UNCHANGED <<txq, ps, tasklet, net, xq, cfm, admin>>

-----------------------------------------------------------------------------
(* Sending: rwnx_start_xmit, rwnx_start_mgmt_xmit.                         *)

(* Bound: no more is sent to a station once a service period counter has
   wrapped below zero, as it does when a frame slips through before a station
   that joins asleep is stopped. *)
NotWrapped(s) == \A id \in PsIds : ps[s].sp_cnt[id] < 32768

(* The queue is looked up and found active without the lock. *)
XmitCheck(q) ==
  /\ xq = NoQ /\ txq[q].active /\ ~netstop[q]
  /\ txq[q].qlen < MaxLen /\ NotWrapped(StaOf[q])
  /\ xq' = q
  /\ UNCHANGED <<sched, ps, tasklet, net, walk, cfm, admin>>

(* Under the lock the frame is queued, and if the queue is not stopped the
   hardware queue is processed. *)
XmitQueue ==
  /\ xq # NoQ /\ lock = "free"
  /\ xq' = NoQ
  /\ ps' = CountFrame(xq)
  /\ StopNetQueue(xq)
  /\ LET T == QueueSkb(xq)
     IN  IF T[xq].stop # {}
         THEN txq' = T /\ UNCHANGED <<hwq, walk>>
         ELSE /\ txq' = AddFlag(T, <<xq>>)
              /\ EnterWalk(AddList(hwq, Missing(T, <<xq>>)), HwqOf[xq])
              /\ lock' = "xmit"
  /\ UNCHANGED <<tasklet, tbusy, cfm, admin>>

(* aicwf_usb_tx_flowctrl: the bus stops and wakes the queues of all vifs. *)
BusBusy ==
  /\ "bus" \in Happens /\ ~tbusy
  /\ tbusy' = TRUE
  /\ netstop' = [q \in Txq |-> q \notin Mgmt]
  /\ UNCHANGED <<sched, ps, tasklet, walk, xq, cfm, admin>>

BusReady ==
  /\ tbusy
  /\ tbusy' = FALSE
  /\ netstop' = [q \in Txq |-> FALSE]
  /\ UNCHANGED <<sched, ps, tasklet, walk, xq, cfm, admin>>

-----------------------------------------------------------------------------
(* Confirmations: rwnx_txdatacfm, which aicwf_usb_host_tx_cfm_handler       *)
(* calls from the receive thread without tx_lock.                          *)

(* rwnx_txq_confirm_any; then a service period that is not over is
   continued. *)
Confirm(q) ==
  /\ cpc = "idle" /\ air[q] > 0
  /\ air' = [air EXCEPT ![q] = @ - 1]
  /\ hwq' = [hwq EXCEPT ![HwqOf[q]].need = TRUE]
  /\ IF txq[q].active /\ txq[q].push_limit # 0 /\ "FULL" \notin txq[q].stop
     THEN cpc' = "continue" /\ cq' = q ELSE UNCHANGED <<cpc, cq>>
  /\ UNCHANGED <<txq, ps, tasklet, net, walk, xq, admin>>

(* The firmware asks for a retry: rwnx_tx_retry gives the credit back and
   puts the frame at the head of its queue. *)
ConfirmRetry(q) ==
  /\ "retry" \in Happens
  /\ cpc = "idle" /\ air[q] > 0 /\ q \notin Mgmt /\ txq[q].active
  /\ air' = [air EXCEPT ![q] = @ - 1]
  /\ hwq' = [hwq EXCEPT ![HwqOf[q]].need = TRUE]
  /\ ps' = CountFrame(q)
  /\ StopNetQueue(q)
  /\ txq' = [QueueSkb(q) EXCEPT ![q].credits = S8(@ + 1),
                                ![q].nb_retry = @ + 1,
                                ![q].stop = IF S8(txq[q].credits + 1) > 0
                                            THEN @ \ {"FULL"} ELSE @]
  /\ cpc' = "retry" /\ cq' = q
  /\ UNCHANGED <<tasklet, tbusy, walk, xq, admin>>

(* Both end in rwnx_txq_add_to_hw_list, which looks at the flag ... *)
ConfirmTest ==
  /\ cpc \in {"continue", "retry"}
  /\ IF txq[cq].inlist \/ (cpc = "retry" /\ txq[cq].stop # {})
     THEN cpc' = "idle" /\ cq' = NoQ ELSE cpc' = "add" /\ UNCHANGED cq
  /\ UNCHANGED <<sched, ps, tasklet, net, walk, xq, air, admin>>

(* ... and then sets it and appends the queue to the list. *)
ConfirmAdd ==
  /\ cpc = "add"
  /\ txq' = AddFlag(txq, <<cq>>)
  /\ hwq' = AddList(hwq, <<cq>>)
  /\ cpc' = "idle" /\ cq' = NoQ
  /\ UNCHANGED <<ps, tasklet, net, walk, xq, air, admin>>

(* rwnx_txq_credit_update, which ignores the number it is given *)
CreditUpdate(q) ==
  /\ "credit" \in Happens /\ lock = "free" /\ txq[q].active
  /\ IF txq[q].credits <= 0 THEN Stop(txq, {q}, "FULL") ELSE Start(txq, {q}, "FULL")
  /\ UNCHANGED <<ps, tasklet, net, walk, xq, cfm, admin>>

-----------------------------------------------------------------------------
(* Indications of the firmware: rwnx_msg_rx.c.                             *)

(* rwnx_rx_chan_pre_switch_ind, rwnx_rx_p2p_vif_ps_change_ind and
   rwnx_rx_csa_traffic_ind stop the queues of the vif (rwnx_txq_vif_stop) *)
VifReason == {<<"chan", "CHAN">>, <<"vifps", "VIF_PS">>, <<"csa", "CSA">>}

VifStop(e, r) ==
  /\ e \in Happens /\ lock = "free"
  /\ Stop(txq, VifQueues, r)
  /\ UNCHANGED <<ps, tasklet, net, walk, xq, cfm, admin>>

(* Mutant: the tasklet is not scheduled after a restart. *)
VifStart_NoTasklet(e, r) ==
  /\ e \in Happens /\ lock = "free"
  /\ Start(txq, VifQueues, r)
  /\ UNCHANGED <<ps, tasklet, net, walk, xq, cfm, admin>>

(* ... and start them again (rwnx_txq_vif_start).  The tasklet is scheduled
   when the channel or the vif is back, not at the end of a CSA. *)
VifStart(e, r) ==
  /\ e \in Happens /\ lock = "free"
  /\ Start(txq, VifQueues, r)
  /\ tasklet' = (tasklet \/ r # "CSA")
  /\ UNCHANGED <<ps, net, walk, xq, cfm, admin>>

(* Mutant: the frames that already wait are not counted. *)
PsOn_NoCount(s) ==
  /\ lock = "free"
  /\ ps' = [ps EXCEPT ![s] =
       [@ EXCEPT !.active = TRUE, !.sp_cnt = [id \in PsIds |-> 0],
                 !.pkt_ready = [id \in PsIds |-> 0]]]
  /\ Stop(txq, QueuesOf(s), "STA_PS")
  /\ UNCHANGED tasklet

(* rwnx_ps_bh_enable: the station falls asleep.  The firmware is not told
   of the frames that already wait. *)
PsOn(s) ==
  /\ lock = "free"
  /\ ps' = [ps EXCEPT ![s] =
       [@ EXCEPT !.active = TRUE,
                 !.sp_cnt = [id \in PsIds |-> 0],
                 !.pkt_ready = [id \in PsIds |->
                    U16(Total(PsQueues(s, id), Qlen))]]]
  /\ Stop(txq, QueuesOf(s), "STA_PS")
  /\ UNCHANGED tasklet

(* Mutant: the TIM is not updated at the wake-up. *)
PsOff_NoTim(s) ==
  /\ lock = "free"
  /\ ps' = [ps EXCEPT ![s].active = FALSE]
  /\ Start([q \in Txq |-> IF StaOf[q] = s THEN [txq[q] EXCEPT !.push_limit = 0]
                                          ELSE txq[q]], QueuesOf(s), "STA_PS")
  /\ tasklet' = TRUE

(* rwnx_ps_bh_enable: the station wakes up. *)
PsOff(s) ==
  /\ lock = "free"
  /\ ps' = [ps EXCEPT ![s].active = FALSE,
       ![s].tim[LEGACY_PS_ID] = @ /\ ps[s].pkt_ready[LEGACY_PS_ID] = 0]
  /\ Start([q \in Txq |-> IF StaOf[q] = s THEN [txq[q] EXCEPT !.push_limit = 0]
                                          ELSE txq[q]], QueuesOf(s), "STA_PS")
  /\ tasklet' = TRUE

(* rwnx_rx_ps_change_ind: the firmware tells of changes only. *)
PsChange(s) ==
  /\ "ps" \in Happens /\ ps[s].joined /\ ~(apc = "ps" /\ asta = s)
  /\ IF ps[s].active THEN PsOff(s) ELSE PsOn(s)
  /\ UNCHANGED <<net, walk, xq, cfm, admin>>

(* While a station is being added only its state is noted. *)
PsChangeAdding(s) ==
  /\ "ps" \in Happens /\ apc = "init" /\ asta = s
  /\ \E on \in BOOLEAN : ps' = [ps EXCEPT ![s].active = on]
  /\ UNCHANGED <<sched, tasklet, net, walk, xq, cfm, admin>>

(* rwnx_ps_bh_traffic_req: a service period of n packets (all when n is 0)
   is dealt out to the data queues of the station by priority. *)
Served(s, id) == {q \in QueuesOf(s) : PsId[q] = id /\ q \notin Mgmt}
Avail == [q \in Txq |-> IF txq[q].qlen > txq[q].credits THEN U16(txq[q].credits)
                         ELSE txq[q].qlen]

Share(req, s, id, q) ==
  LET ahead == Total({p \in Served(s, id) : p > q}, Avail)
  IN  IF q \in Served(s, id) /\ req > ahead THEN MinOf(Avail[q], req - ahead) ELSE 0

TrafficReq(s, n, id) ==
  /\ "req" \in Happens /\ lock = "free" /\ ps[s].active
  /\ ps[s].sp_cnt[id] = 0 /\ ps[s].pkt_ready[id] > 0
  /\ LET req == IF n = 0 THEN ps[s].pkt_ready[id] ELSE MinOf(n, ps[s].pkt_ready[id])
         share == [q \in Txq |-> Share(req, s, id, q)]
     IN  /\ ps' = [ps EXCEPT ![s].sp_cnt[id] =
                      U16(Total(Txq, share))]
         /\ AddToHwList([q \in Txq |-> IF share[q] = 0 THEN txq[q]
                            ELSE [txq[q] EXCEPT !.push_limit = U8(share[q])]],
                        hwq, Keep(PrioSeq, {q \in Txq : share[q] # 0}))
  /\ tasklet' = TRUE
  /\ UNCHANGED <<net, walk, xq, cfm, admin>>

(* The same with PS_SP_INTERRUPTED *)
SpInterrupted(s) ==
  /\ "intr" \in Happens /\ lock = "free" /\ ps[s].active
  /\ ps' = [ps EXCEPT ![s].sp_cnt[UAPSD_ID] = 0]
  /\ txq' = [q \in Txq |-> IF StaOf[q] = s THEN [txq[q] EXCEPT !.push_limit = 0]
                                           ELSE txq[q]]
  /\ UNCHANGED <<hwq, tasklet, net, walk, xq, cfm, admin>>

-----------------------------------------------------------------------------
(* Stations that join and leave: rwnx_cfg80211_add_station and             *)
(* rwnx_cfg80211_del_station.  They hold cb_lock, which the indications do  *)
(* not take (cmd_mgr_run_callback).                                        *)

(* rwnx_txq_vif_get_status is read ...  ME_STA_DEL and ME_STA_ADD have been
   confirmed since the queues became inactive: a sender that saw them active,
   with softirqs off, has long finished. *)
JoinStatus(s) ==
  /\ "member" \in Happens /\ apc = "idle" /\ ~ps[s].joined
  /\ \A q \in QueuesOf(s) : ~txq[q].active
  /\ lock = "free" /\ xq \notin QueuesOf(s)
  /\ apc' = "init" /\ asta' = s
  /\ astop' = txq[VifTxq].stop \cap {"CHAN", "VIF_PS"}
  /\ UNCHANGED <<sched, ps, tasklet, net, walk, xq, cfm, aq>>

(* ... and given to the new queues (rwnx_txq_sta_init), without tx_lock. *)
JoinInit ==
  /\ apc = "init"
  /\ txq' = [q \in Txq |-> IF StaOf[q] = asta THEN FreshTxq(astop) ELSE txq[q]]
  /\ ps' = [ps EXCEPT ![asta].joined = TRUE]
  /\ apc' = "ps" /\ UNCHANGED <<asta, aq, astop>>
  /\ UNCHANGED <<hwq, tasklet, net, walk, xq, cfm>>

(* The station starts out asleep if an indication or the confirmation of
   ME_STA_ADD said so. *)
JoinPs ==
  /\ apc = "ps"
  /\ \/ PsOn(asta)
     \/ ~ps[asta].active /\ PsOff(asta)
  /\ apc' = "idle" /\ UNCHANGED <<asta, aq, astop>>
  /\ UNCHANGED <<net, walk, xq, cfm>>

Leave(s) ==
  /\ "member" \in Happens /\ apc = "idle" /\ ps[s].joined /\ s # StaOf[VifTxq]
  /\ ps' = [ps EXCEPT ![s].joined = FALSE, ![s].active = FALSE]
  /\ apc' = "deinit" /\ asta' = s
  /\ UNCHANGED <<sched, tasklet, net, walk, xq, cfm, aq, astop>>

(* Mutant: the removed queue is not taken off its list. *)
Deinit_NoDel ==
  /\ apc = "deinit" /\ lock = "free"
  /\ \E q \in QueuesOf(asta) :
       /\ txq[q].active
       /\ \A p \in QueuesOf(asta) : txq[p].active => q <= p
       /\ txq' = [txq EXCEPT ![q].active = FALSE]
       /\ aq' = q
  /\ apc' = "flush"
  /\ UNCHANGED <<hwq, ps, tasklet, net, walk, xq, cfm, asta, astop>>

(* rwnx_txq_deinit: under the lock the queue becomes inactive, ... *)
Deinit ==
  /\ apc = "deinit" /\ lock = "free"
  /\ \E q \in QueuesOf(asta) :
       /\ txq[q].active
       /\ \A p \in QueuesOf(asta) : txq[p].active => q <= p
       /\ txq' = [DelFlag(txq, {q}) EXCEPT ![q].active = FALSE]
       /\ hwq' = DelList(hwq, {q})
       /\ aq' = q
  /\ apc' = "flush"
  /\ UNCHANGED <<ps, tasklet, net, walk, xq, cfm, asta, astop>>

(* ... and after it what waits is freed (rwnx_txq_flush). *)
DeinitFlush ==
  /\ apc = "flush"
  /\ txq' = [txq EXCEPT ![aq].qlen = 0]
  /\ aq' = NoQ
  /\ apc' = IF \E q \in QueuesOf(asta) : txq[q].active THEN "deinit" ELSE "idle"
  /\ UNCHANGED <<hwq, ps, tasklet, net, walk, xq, cfm, asta, astop>>

-----------------------------------------------------------------------------
(* The vif is up and every station has joined and is awake. *)
Init ==
  /\ txq = [q \in Txq |-> FreshTxq({})]
  /\ ps = [s \in Sta |-> [joined |-> TRUE, active |-> FALSE,
                          pkt_ready |-> [id \in PsIds |-> 0],
                          sp_cnt |-> [id \in PsIds |-> 0],
                          tim |-> [id \in PsIds |-> FALSE]]]
  /\ hwq = [h \in Hwq |-> [list |-> <<>>, need |-> FALSE]]
  /\ tasklet = FALSE
  /\ netstop = [q \in Txq |-> FALSE] /\ tbusy = FALSE
  /\ air = [q \in Txq |-> 0] /\ cpc = "idle" /\ cq = NoQ
  /\ lock = "free" /\ wh = 1 /\ cur = NoQ /\ nxt = NoQ
  /\ xq = NoQ
  /\ apc = "idle" /\ asta = StaOf[VifTxq] /\ aq = NoQ /\ astop = {}

Process == ProcessTxq \/ XmitDone \/ TaskNext

Indication ==
  \/ \E er \in VifReason : VifStop(er[1], er[2]) \/ VifStart(er[1], er[2])
  \/ \E s \in Sta : PsChange(s) \/ PsChangeAdding(s)
  \/ \E s \in Sta, n \in 0..MaxReq, id \in PsIds : TrafficReq(s, n, id)

Membership ==
  \/ \E s \in Sta : JoinStatus(s) \/ Leave(s)
  \/ JoinInit \/ JoinPs \/ Deinit \/ DeinitFlush

Next ==
  \/ \E q \in Txq : XmitCheck(q) \/ Confirm(q) \/ CreditUpdate(q)
  \/ XmitQueue \/ TaskRun \/ Process
  \/ BusBusy \/ BusReady
  \/ Indication \/ Membership

Spec == Init /\ [][Next]_vars

(* Retried and interrupted traffic: the handlers that touch the lists
   without tx_lock, or take a queue's service period away while it is in a
   list.  Under FullSpec a queue can enter its list twice (ConfirmAdd after
   XmitQueue); Spec is FullSpec as long as the firmware asks for no retry and
   confirms no frame within a service period. *)
Unprotected ==
  \/ \E q \in Txq : ConfirmRetry(q)
  \/ ConfirmTest \/ ConfirmAdd
  \/ \E s \in Sta : SpInterrupted(s)

FullSpec == Init /\ [][Next \/ Unprotected]_vars

(* A holder of the lock lets go of it, a tasklet that is scheduled runs, a
   sender that is in rwnx_start_xmit goes on, a busy bus drains. *)
Fairness ==
  /\ WF_vars(Process) /\ SF_vars(TaskRun) /\ SF_vars(XmitQueue)
  /\ WF_vars(BusReady)

-----------------------------------------------------------------------------
(* Every variable has its type; only the holder of the lock is in a walk. *)
TypeOK ==
  /\ txq \in [Txq -> TxqRecord] /\ ps \in [Sta -> PsRecord]
  /\ hwq \in [Hwq -> [list : Seq(Txq), need : BOOLEAN]]
  /\ tasklet \in BOOLEAN /\ tbusy \in BOOLEAN
  /\ netstop \in [Txq -> BOOLEAN] /\ air \in [Txq -> 0..MaxAir]
  /\ lock \in {"free", "xmit", "task", "bug"} /\ wh \in 1..(NHwq + 1)
  /\ {cur, nxt, xq, cq, aq} \subseteq Txq \cup {NoQ}
  /\ cpc \in {"idle", "continue", "retry", "add"}
  /\ apc \in {"idle", "init", "ps", "deinit", "flush"}
  /\ asta \in Sta /\ astop \subseteq Reason
  /\ lock = "free" => cur = NoQ /\ nxt = NoQ

(* A queue is in the scheduling list of its hardware queue exactly when its
   flag RWNX_TXQ_IN_HWQ_LIST says so, once, and in no other list: adding and
   removing rely on the flag alone (rwnx_txq.c:425, 445). *)
ListExact ==
  \A h \in Hwq : LET l == hwq[h].list IN
    /\ IsInjective(l)
    /\ ToSet(l) = {q \in Txq : txq[q].inlist /\ HwqOf[q] = h}

(* None of the BUG_ONs of rwnx_hwq_process fires: whatever was queued,
   stopped, flushed or pushed since, a queue found in the list has a frame
   and a credit (rwnx_txq.c:1259-1267). *)
NoBug == lock # "bug"

(* A queue of a sleeping station is scheduled only within a service period,
   and for no more frames than were asked for: what the station did not ask
   for is not sent to it (rwnx_ps_bh_traffic_req, rwnx_txq_stop). *)
SleepRespected ==
  \A q \in Txq : "STA_PS" \in txq[q].stop /\ txq[q].inlist
               => txq[q].push_limit \in 1..txq[q].qlen

(* While a station sleeps the two counters its TIM and its service periods
   depend on are exactly what its queues hold: pkt_ready the waiting frames,
   sp_cnt what is left of the service period, however stops, restarts, new
   frames and pushes interleave (rwnx_tx.c:79-259, 464-488). *)
PsCounts ==
  \A s \in Sta : ps[s].joined /\ ps[s].active /\ ~(apc = "ps" /\ asta = s) =>
    \A id \in PsIds :
      /\ ps[s].pkt_ready[id] = Total(PsQueues(s, id), Qlen)
      /\ ps[s].sp_cnt[id] = Total(PsQueues(s, id), PushLimit)

(* A station that sleeps with nothing buffered is not announced in the TIM:
   the last frame, or the wake-up, took it out (rwnx_set_more_data_flag,
   rwnx_ps_bh_enable).  It does not hold for U-APSD queues, whose
   indication at the wake-up is commented out. *)
TimNotStale ==
  \A s \in Sta : ps[s].active /\ ps[s].tim[LEGACY_PS_ID]
               => ps[s].pkt_ready[LEGACY_PS_ID] > 0

(* A network queue is stopped only while the bus is busy or its transmit
   queue is full and marked, so that somebody will wake it: the two flow
   controls, which share the network queues, never leave one stopped with
   room behind it (rwnx_txq.c:862, 1303; aicwf_usb.c:61). *)
FlowExact ==
  \A q \in Txq : netstop[q] /\ ~tbusy
               => txq[q].flow /\ txq[q].qlen >= FlowRestart

(* A queue whose station has left is in no list and gets no frames pushed:
   a sender that saw it active is caught by rwnx_hwq_process. *)
InactiveGone ==
  lock = "free" => \A q \in Txq : ~txq[q].active => ~txq[q].inlist

(* Whatever order of senders, tasklet, stops, joins and removals: flags and
   lists agree, a removed queue is in no list and no BUG_ON fires. *)
QueuesExact == TypeOK /\ ListExact /\ InactiveGone /\ NoBug
=============================================================================
