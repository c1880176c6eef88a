------------------------------- MODULE CfmRing -------------------------------
(***************************************************************************)
(* The frames whose transmission the firmware confirms (usb_host.c): a     *)
(* ring of USB_TXDESC_CNT slots, written by rwnx_tx_push under tx_lock and *)
(* read by the receive thread without it.  The descriptor sent with a      *)
(* frame carries the running index, and a confirmation brings it back.     *)
(* The firmware confirms the frames it has got once each, in any order.    *)
(***************************************************************************)
EXTENDS Integers, FiniteSets

CONSTANTS
  RingSize,     \* USB_TXDESC_CNT
  Wrap,         \* 0x40000000, where the running index starts again
  RingScenes    \* as bounds: frames, retries, pushes the bus refuses

ASSUME RingAssumption ==
  /\ RingSize \in Nat \ {0} /\ Wrap \in Nat \ {0} /\ Wrap % RingSize = 0
  /\ RingScenes \subseteq [on : BOOLEAN, frames : Nat, retries : Nat, refused : Nat]

VARIABLES
  ring,     \* tx_host_id[0]: slot -> frame, 0 when it is empty
  fidx,     \* txdesc_free_idx[0]
  owed,     \* frames in the firmware, with the index each was sent with and the
            \* number of pushes since
  kept,     \* frames that are not freed
  pending,  \* frames a retry has put back into their queue
  taken,    \* the confirmation the handler works on: the index and host_id
  rleft,    \* what the bounds leave
  overrun   \* RingSize frames have been pushed after one that is still owed
ringVars == <<ring, fidx, owed, kept, pending, taken, rleft, overrun>>

Nothing == [i |-> 0, n |-> 0, of |-> 0]
NextIndex(i) == IF i + 1 = Wrap THEN 0 ELSE i + 1
aicwf_usb_host_txdesc_push(n) ==
  /\ ring' = [ring EXCEPT ![fidx % RingSize] = n]
  /\ fidx' = NextIndex(fidx)
Older == {[e EXCEPT !.later = @ + 1] : e \in owed}
(* rwnx_tx_push, for an action, association response, EAPOL or WAPI frame. *)
(* A bus that is down or has no buffer frees the frame, and the slot stays *)
(* as it is.                                                               *)
PushConfirmed ==
  \E n \in (pending \cup {rleft.frames}) \ {0} :
    /\ pending' = pending \ {n}
    /\ aicwf_usb_host_txdesc_push(n)
    /\ overrun' = (overrun \/ \E e \in owed : e.later = RingSize - 1)
    /\ LET left == IF n = rleft.frames THEN [rleft EXCEPT !.frames = @ - 1] ELSE rleft IN
       \/ /\ rleft' = left
          /\ owed' = Older \cup {[i |-> fidx, n |-> n, later |-> 0]} /\ kept' = kept \cup {n}
       \/ /\ rleft.refused > 0 /\ rleft' = [left EXCEPT !.refused = @ - 1]
          /\ kept' = kept \ {n} /\ owed' = Older
    /\ UNCHANGED taken

(* aicwf_usb_host_tx_cfm_handler: the slot is read and emptied, *)
CfmTake ==
  /\ taken = Nothing
  /\ \E e \in owed :
       /\ owed' = owed \ {e}
       /\ taken' = IF ring[e.i % RingSize] = 0 THEN Nothing
                   ELSE [i |-> e.i, n |-> ring[e.i % RingSize], of |-> e.n]
       /\ ring' = [ring EXCEPT ![e.i % RingSize] = 0]
  /\ UNCHANGED <<fidx, kept, pending, rleft, overrun>>
(* and the frame is freed, or put back into its queue (rwnx_txdatacfm).    *)
CfmGive ==
  /\ taken # Nothing
  /\ taken' = Nothing
  /\ \/ kept' = kept \ {taken.n} /\ UNCHANGED <<pending, rleft>>
     \/ /\ rleft.retries > 0 /\ rleft' = [rleft EXCEPT !.retries = @ - 1]
        /\ pending' = pending \cup {taken.n} /\ UNCHANGED kept
  /\ UNCHANGED <<ring, fidx, owed, overrun>>

aicwf_usb_host_init ==
  /\ ring = [s \in 0 .. RingSize - 1 |-> 0] /\ fidx = 0
  /\ owed = {} /\ kept = {} /\ pending = {} /\ taken = Nothing /\ overrun = FALSE
  /\ rleft \in RingScenes
RingNext == PushConfirmed \/ CfmTake \/ CfmGive

(* A confirmation always reaches the frame whose index it carries, before  *)
(* that has been freed, however the firmware orders them and wherever the  *)
(* index starts again (aicwf_usb_host_tx_cfm_handler); and a frame in the  *)
(* firmware keeps its slot.  Nothing counts the slots: this holds until    *)
(* RingSize frames have been pushed after one that is not confirmed.       *)
RingExact ==
  ~overrun =>
    /\ taken.n = taken.of /\ (taken # Nothing => taken.n \in kept)
    /\ \A e \in owed : ring[e.i % RingSize] = e.n /\ e.n \in kept
=============================================================================
