-------------------------------- MODULE MCAp --------------------------------
(* One interface with two stations; each scene is a kind of use. *)
EXTENDS Ap

CONSTANTS m1, m2

MCScenes == {[mode |-> "AP", ops |-> {"start", "stop", "add", "del", "change"}],
             [mode |-> "AP", ops |-> {"start", "stop", "csa", "beacon"}],
             [mode |-> "AP", ops |-> {"start", "stop", "radar", "close"}],
             [mode |-> "MESH", ops |-> {"join", "leave"}]}
=============================================================================
