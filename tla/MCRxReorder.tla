---------------------------- MODULE MCRxReorder -----------------------------
(* The way of a frame through the driver: the upload of a received frame,  *)
(* the reordering, and the confirmation of a sent one.  They share nothing *)
(* but the frames; a behaviour exercises one of them.                      *)
EXTENDS RxReorder, RxUpload, CfmRing

Plain == [status |-> {"upload"}, mpdu |-> FALSE, data |-> TRUE, qos |-> TRUE, reord |-> FALSE,
          subs |-> 0, sn |-> 1, from |-> "a", fn |-> 0, more |-> FALSE]
Frag(a, n, m) == [Plain EXCEPT !.from = a, !.fn = n, !.more = m]
Frags(a) == {Frag(a, 0, TRUE), Frag(a, 1, TRUE), Frag(a, 2, FALSE)}
Kinds == {[Plain EXCEPT !.status = s, !.mpdu = m, !.data = ~m, !.qos = q, !.reord = r, !.subs = k] :
            s \in SUBSET {"upload", "monitor"}, m, q, r \in BOOLEAN, k \in {0, 3}}
Up(kinds, n, type, downs, faults) ==
  [kinds |-> kinds, frames |-> n, type |-> type, vlan |-> FALSE, mon |-> FALSE, downs |-> downs,
   faults |-> faults, off |-> FALSE]
NoUp == Up({}, 0, "sta", 0, 0)
(* Losses, repetitions and an interface that goes down; two stations with  *)
(* the same sequence number; a frame that is too long; a removal; and one  *)
(* frame of every kind on every type of interface.                         *)
MCUpScenes ==
  {NoUp, Up(Frags("a"), 5, "sta", 1, 1), Up(Frags("a") \cup Frags("b"), 4, "ap", 0, 0),
   Up({Frag("a", n, TRUE) : n \in 0 .. 4}, 5, "sta", 0, 0),
   [Up(Frags("a") \cup {[f EXCEPT !.sn = 2] : f \in Frags("a")}, 4, "sta", 0, 0) EXCEPT !.off = TRUE]}
  \cup {[Up(Kinds, 1, t, 1, 1) EXCEPT !.vlan = v, !.mon = v] : t \in {"sta", "ap", "mesh"}, v \in BOOLEAN}

NoRing == [on |-> FALSE, frames |-> 0, retries |-> 0, refused |-> 0]
MCRingScenes == {NoRing, [on |-> TRUE, frames |-> 6, retries |-> 1, refused |-> 1]}

MCInit == Init /\ UpInit /\ aicwf_usb_host_init /\ (uleft = NoUp \/ rleft = NoRing)
MCNext ==
  \/ Next /\ uleft = NoUp /\ ~rleft.on /\ UNCHANGED <<upVars, ringVars>>
  \/ UpNext /\ UNCHANGED <<vars, ringVars>>
  \/ RingNext /\ UNCHANGED <<vars, upVars>>
MCSpec == MCInit /\ [][MCNext]_<<vars, upVars, ringVars>> /\ UpFair

(* No buffer of a received frame is forgotten and no confirmation goes to  *)
(* the wrong frame (rwnx_rxdataind_aicwf, aicwf_usb_host_tx_cfm_handler):  *)
(* what RxUpload and CfmRing state, with the exceptions they name.         *)
FramesOwned == UploadExact /\ RingExact
=============================================================================
