------------------------------ MODULE MCRoster ------------------------------
(***************************************************************************)
(* Roster, KeySharing and Annotations for TLC.  They share no variable, so *)
(* a behaviour runs one of them while the others rest: the run explores    *)
(* the sum of their state spaces, which decides every property that        *)
(* mentions the variables of one of them only.                             *)
(***************************************************************************)
EXTENDS Roster, KeySharing, Annotations

VARIABLE part

rosterRunVars == <<own, sharing, annotationVars, part>>

Init ==
    /\ RosterInit /\ SharingInit /\ AnnotationInit
    /\ part \in {"roster", "sharing", "annotations"}
    /\ part # "sharing" => archive = {} /\ \A p \in Peers : place[p] = Offline
    /\ part # "roster" => home = CHOOSE c \in Channels : TRUE

Next ==
    \/ part = "roster" /\ RosterNext /\ UNCHANGED <<sharing, annotationVars, part>>
    \/ part = "sharing" /\ SharingNext /\ UNCHANGED <<own, annotationVars, part>>
    \/ part = "annotations" /\ AnnotationNext /\ UNCHANGED <<own, sharing, part>>

Spec == Init /\ [][Next]_rosterRunVars
=============================================================================
