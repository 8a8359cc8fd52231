---------------------------- MODULE MCUdpReplay ----------------------------
(***************************************************************************)
(* Small instances of UdpReplay.  Bytes have six values and the window is  *)
(* three, so that a late packet, a gap, a wrap of the first byte and a     *)
(* packet out of range all happen within a few packets.  Lap 3 is the      *)
(* complement of lap 2, so a connection that starts in lap 2 also meets    *)
(* the initial history.                                                    *)
(***************************************************************************)
EXTENDS UdpReplay

MCStarts == {[hi |-> 1, lo |-> 3], [hi |-> 2, lo |-> 3]}
=============================================================================
