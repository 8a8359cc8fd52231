------------------------------ MODULE MCPchat ------------------------------
(***************************************************************************)
(* Persistent chat for TLC: the key manager of the library and the message *)
(* history of the application.  They share no variable, so a behaviour     *)
(* runs one of them while the other rests.                                 *)
(*                                                                         *)
(* Three members may disagree about two keys; the first one announces a    *)
(* second identity and is a custodian, the third may be the originator.    *)
(***************************************************************************)
EXTENDS KeyManager, History, TLC

VARIABLE part

CONSTANTS p1, p2, p3, k1, k2, me
MCPeers == {p1, p2, p3}
MCKeys == {k1, k2}
MCAnnounces == {<<p1, 1>>, <<p1, 2>>, <<p2, 1>>, <<p3, 1>>}
MCLists == {{}, {p1}, {p1, p2}}
MCFounders == {p3}
Symmetry == Permutations(MCKeys)

pchatVars == <<keyManagerVars, historyVars, part>>

Init == KeyManagerInit /\ HistoryInit /\ part \in {"keys", "history"}

Next ==
    \/ part = "keys" /\ KeyManagerNext /\ UNCHANGED <<historyVars, part>>
    \/ part = "history" /\ HistoryNext /\ UNCHANGED <<keyManagerVars, part>>

Spec == Init /\ [][Next]_pchatVars
=============================================================================
