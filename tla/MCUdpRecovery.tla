--------------------------- MODULE MCUdpRecovery ---------------------------
(***************************************************************************)
(* A small instance of UdpRecovery: six values per byte, and the last      *)
(* nonces of lap 2, whose next lap is the value the history starts with.   *)
(***************************************************************************)
EXTENDS UdpRecovery

MCStarts == {[hi |-> 2, lo |-> 3]}
=============================================================================
