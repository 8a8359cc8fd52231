------------------------------ MODULE Delivery ------------------------------
(***************************************************************************)
(* What the UDP reader promises to the layers above it, without nonces,    *)
(* windows or channels: a packet comes out at most once, and only when the *)
(* server has encrypted it.  UdpReplay is shown to implement this.         *)
(***************************************************************************)
EXTENDS Naturals

CONSTANT Packets

VARIABLES
    encrypted,  \* packets the server has sent
    handed,     \* packets that have come out of the reader
    count       \* how many times a packet came out

deliveryVars == <<encrypted, handed, count>>

Init == encrypted = {} /\ handed = {} /\ count = 0

Encrypt(p) ==
    /\ p \notin encrypted
    /\ encrypted' = encrypted \cup {p}
    /\ UNCHANGED <<handed, count>>

Hand(p) ==
    /\ p \in encrypted \ handed
    /\ handed' = handed \cup {p}
    /\ count' = count + 1
    /\ UNCHANGED encrypted

Next == \E p \in Packets : Encrypt(p) \/ Hand(p)

Spec == Init /\ [][Next]_deliveryVars
=============================================================================
