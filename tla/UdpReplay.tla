----------------------------- MODULE UdpReplay -----------------------------
(***************************************************************************)
(* The UDP reader on a network that loses, repeats and reorders datagrams  *)
(* at will: any packet the server ever encrypted can arrive at any time.   *)
(*                                                                         *)
(* Bounds on the environment.  The server sends at most MaxSent packets,   *)
(* answers at most MaxAnswers resync requests and stops before it exhausts *)
(* the nonces (LastLap).  An answer is applied before the server has sent  *)
(* more than Lag further packets; the code has no check of its own against *)
(* an older answer.                                                        *)
(***************************************************************************)
EXTENDS UdpReader, FiniteSets

CONSTANTS Starts,    \* server nonces of the CryptSetup
          MaxSent,   \* packets the server sends
          MaxAnswers,\* resync requests the server answers
          LastLap,   \* last value of the upper bytes the server reaches
          Lag        \* packets sent between an answer and its use

ASSUME ReplayAssumption ==
    /\ Starts \subseteq Nonce
    /\ MaxSent \in Nat /\ MaxAnswers \in Nat
    /\ LastLap \in Nat /\ LastLap + 1 < HiMod
    /\ \A s \in Starts : s.hi <= LastLap
    /\ Lag \in Nat /\ Lag + W <= B

VARIABLES
    stats,     \* the crypt state's PacketStats
    start,     \* the nonce the connection started from
    sent,      \* nonces the server has encrypted under
    high,      \* the highest value decrypt_iv has had
    accepted,  \* nonces of the packets decrypted successfully
    answers    \* how many the server has sent

ghosts == <<stats, start, sent, high, accepted, answers>>
vars == <<readerVars, ghosts>>

Init ==
    /\ start \in Starts /\ ReaderInit(start)
    /\ stats = NoPackets
    /\ sent = {} /\ high = start /\ accepted = {} /\ answers = 0

\* The order of the server's nonces, and a bound on how far apart they are.
Before(m, n) == m.hi < n.hi \/ (m.hi = n.hi /\ m.lo < n.lo)
AtMost(m, n) == m = n \/ Before(m, n)
Within(m, n) ==
    \/ m.hi = n.hi /\ n.lo - m.lo <= Lag
    \/ m.hi + 1 = n.hi /\ n.lo + B - m.lo <= Lag

Items(s) == {s[i] : i \in DOMAIN s}
Outstanding == Items(replies) \cup Items(resyncCh)

Send ==
    /\ Cardinality(sent) < MaxSent /\ Succ(srv).hi <= LastLap
    /\ \A r \in Outstanding : Within(r, Succ(srv))
    /\ ServerEncrypt
    /\ sent' = sent \cup {Succ(srv)}
    /\ UNCHANGED <<stats, start, high, accepted, answers>>

Higher(m, n) == IF Before(m, n) THEN n ELSE m

Deliver(p) ==
    /\ RecvDatagram(p)
    /\ high' = Higher(high, Decrypt(crypt, p).iv)
    /\ IF Verdict(crypt, p) = "ok"
       THEN /\ stats' = Count(stats, crypt, p)
            /\ accepted' = accepted \cup {p}
       ELSE UNCHANGED <<stats, accepted>>
    /\ UNCHANGED <<start, sent, answers>>

Resync ==
    /\ ApplyNonce
    /\ high' = Higher(high, Head(resyncCh))
    /\ UNCHANGED <<stats, start, sent, accepted, answers>>

Reply ==
    /\ answers < MaxAnswers /\ answers' = answers + 1
    /\ ServerReply
    /\ UNCHANGED <<stats, start, sent, high, accepted>>

Other ==
    /\ \/ RecvGarbage \/ ReaderExit \/ SendUdp \/ CooldownOver
       \/ LoopRecv \/ ForwardNonce
    /\ UNCHANGED ghosts

Next == Send \/ (\E p \in sent : Deliver(p)) \/ Resync \/ Reply \/ Other

Spec == Init /\ [][Next]_vars

-----------------------------------------------------------------------------
\* Types of the reader's state and of the history variables.
TypeOK ==
    /\ ReaderTypeOK
    /\ stats \in PacketStats
    /\ start \in Nonce /\ high \in Nonce
    /\ sent \subseteq Nonce /\ accepted \subseteq sent
    /\ answers \in Nat

\* No packet is handed on twice, whatever the network repeats and however a
\* resync answer moves decrypt_iv back: the counter of decrypted packets is
\* the number of different nonces decrypted.  (Replay detection in decrypt.)
NoReplay == stats.good = Cardinality(accepted)

\* The receiver's nonce is never ahead of the server's: no sequence of
\* losses, wraps of the first byte and resync answers makes it run ahead,
\* where every later packet would look late.
NeverAhead == AtMost(crypt.iv, srv)

-----------------------------------------------------------------------------
\* The parts of the inductive invariant behind NoReplay.  No packet and no
\* outstanding answer is ahead of the server, and an answer is at most Lag
\* packets old.
ServerLeads ==
    /\ srv.hi <= LastLap
    /\ \A p \in sent : AtMost(p, srv)
    /\ \A r \in Outstanding : AtMost(r, srv) /\ Within(r, srv)

\* decrypt_iv trails its highest value by less than a lap minus the window.
Trails ==
    /\ AtMost(crypt.iv, high) /\ AtMost(high, srv)
    /\ \A p \in accepted : AtMost(p, high)
    /\ \/ crypt.iv.hi = high.hi
       \/ crypt.iv.hi + 1 = high.hi /\ high.lo + W <= crypt.iv.lo

\* The history remembers every accepted nonce of the last full lap.
Remembers ==
    \A p \in accepted :
        \/ p.hi = high.hi
        \/ p.hi + 1 = high.hi /\ p.lo > high.lo
        => crypt.hist[p.lo] = Iv1(p)

\* The inductive invariant of the replay window: the replay history of
\* decrypt never forgets a nonce that decrypt could rebuild again.
ReplayInv == TypeOK /\ ServerLeads /\ Trails /\ Remembers
             /\ IsFiniteSet(accepted) /\ NoReplay

-----------------------------------------------------------------------------
Promise == INSTANCE Delivery
           WITH Packets <- Nonce, encrypted <- sent, handed <- accepted,
                count <- stats.good

\* The reader implements Delivery: seen through its counter of decrypted
\* packets, decrypt lets a packet through at most once and only if the
\* server encrypted it, step by step.
DeliversOnce == Promise!Spec
=============================================================================
