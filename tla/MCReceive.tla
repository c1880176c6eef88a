----------------------------- MODULE MCReceive -----------------------------
(* The parts of the receive and acknowledgement paths that share nothing   *)
(* but the frames: a behaviour exercises one of them.                      *)
EXTENDS UsbRx, TcpAck

Data(a, f, x, s) == [aggr |-> a, urbs |-> 2, msgurbs |-> 0, frames |-> f, msgs |-> 0,
                     faults |-> x, sleeps |-> s]
Msgs(m, x, s) == [aggr |-> TRUE, urbs |-> 0, msgurbs |-> 2, frames |-> 0, msgs |-> m,
                  faults |-> x, sleeps |-> s]
NoUsb == [Msgs(0, 0, 0) EXCEPT !.msgurbs = 0]
MCScenes == {Data(TRUE, 4, 0, 0), Data(FALSE, 2, 1, 0), Data(TRUE, 2, 1, 0), Data(TRUE, 1, 0, 1),
             Msgs(3, 1, 1), NoUsb}

MCFirst == [c1 |-> 6, c2 |-> 2]
NoAcks == [acks |-> [c1 |-> 0, c2 |-> 0], ages |-> 0, pushes |-> 0, stops |-> FALSE]
MCAckScenes == {NoAcks, [acks |-> [c1 |-> 4, c2 |-> 2], ages |-> 1, pushes |-> 1, stops |-> TRUE]}

MCInit == Init /\ tcp_ack_init /\ (scene = NoUsb) # (tleft = NoAcks)
MCNext == (Next /\ UNCHANGED ackVars) \/ (AckNext /\ UNCHANGED vars)
MCSpec == MCInit /\ [][MCNext]_<<vars, ackVars>> /\ Fairness /\ AckFair

(* Whatever was queued for the driver or held back by it goes on: frames   *)
(* and messages are taken out of their queues (usb_busrx_thread,           *)
(* usb_msg_busrx_thread) and the newest acknowledgement of a connection is *)
(* sent (intf_tcp_alloc_msg, tcp_ack_timeout).                             *)
EverythingServed == RxServed /\ AckGoesOut
=============================================================================
