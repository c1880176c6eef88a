------------------------------- MODULE MCVif --------------------------------
(* Two network devices, the station wlan and the P2P client p2p, and the   *)
(* P2P device; each scene is a kind of use.                                *)
EXTENDS Vif, TLC

CONSTANTS wlan, p2p, dev

MCTypeOf == (wlan :> "STATION") @@ (p2p :> "P2P_CLIENT") @@ (dev :> "P2P_DEVICE")
MCScenes == {{"add", "del", "open", "close", "start", "stop"},
             {"add", "open", "close", "start", "stop", "scan"},
             {"open", "close", "connect", "disconnect", "extauth"},
             {"add", "open", "start", "stop", "roc", "mgmt_tx", "cancel_roc"},
             {"add", "open", "change", "scan", "monitor"},
             {"open", "change", "connect"}}
=============================================================================
