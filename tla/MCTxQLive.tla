----------------------------- MODULE MCTxQLive ------------------------------
(* A small instance of TxQServed: queue 1 is the broadcast queue of the vif, *)
(* the others belong to one station.  Every queue is on one hardware queue.  *)
EXTENDS TxQServed

CONSTANTS bcmc, peer

MCStaOf == [q \in Txq |-> IF q = 1 THEN bcmc ELSE peer]
OneHwq == [q \in Txq |-> 1]
AllLegacy == [q \in Txq |-> LEGACY_PS_ID]
=============================================================================
