-------------------------- MODULE UdpReplay_proofs --------------------------
(***************************************************************************)
(* For every byte size, window, start nonce and channel capacity: the      *)
(* types of UdpReplay, and that no nonce is decrypted twice.               *)
(***************************************************************************)
EXTENDS UdpReplay, FiniteSetTheorems, SequenceTheorems, TLAPS

-----------------------------------------------------------------------------
(* The operators of the nonce window.                                      *)

\* The successor of a nonce (the increment of encrypt) is a nonce.
LEMMA SuccNonce == ASSUME NEW n \in Nonce PROVE Succ(n) \in Nonce
BY OcbAssumption DEF Succ, Carry, Nonce, Byte

\* The byte that the history remembers is a byte.
LEMMA Iv1Byte == ASSUME NEW n \in Nonce PROVE Iv1(n) \in Byte
BY OcbAssumption DEF Iv1, Nonce, Byte

\* A fresh crypt state (set_key) is well formed.
LEMMA SetKeyType == ASSUME NEW n \in Nonce PROVE SetKey(n) \in CryptState
<1>1. Complement(Iv1(n)) \in Byte
  BY Iv1Byte, OcbAssumption DEF Complement, Byte
<1> QED BY <1>1 DEF SetKey, CryptState

\* The nonce decrypt rebuilds is a nonce.
LEMMA RebuiltNonce ==
  ASSUME NEW n \in Nonce, NEW b \in Byte PROVE Rebuilt(n, b) \in Nonce
BY SuccNonce DEF Rebuilt, Nonce

\* A successful decrypt leaves a well formed crypt state.
LEMMA AcceptedType ==
  ASSUME NEW c \in CryptState, NEW p \in Nonce
  PROVE  Accepted(c, p) \in CryptState
<1>1. p.lo \in Byte /\ c.iv \in Nonce /\ c.hist \in [Byte -> Byte]
  BY DEF CryptState, Nonce
<1>2. Rebuilt(c.iv, p.lo) \in Nonce
  BY <1>1, RebuiltNonce
<1>3. [c.hist EXCEPT ![p.lo] = Iv1(p)] \in [Byte -> Byte]
  BY <1>1, Iv1Byte
<1> QED BY <1>1, <1>2, <1>3 DEF Accepted, CryptState

\* The counters stay natural numbers: a gap is never negative.
LEMMA CountType ==
  ASSUME NEW c \in CryptState, NEW p \in Nonce, NEW st \in PacketStats
  PROVE  Count(st, c, p) \in PacketStats
<1>1. p.lo \in Byte /\ c.iv.lo \in Byte
  BY DEF CryptState, Nonce
<1>2. Gap(c, p) \in Nat
  <2>1. CASE Skipped(c.iv, p.lo)
    <3>1. p.lo > c.iv.lo
      BY <2>1, Zenon DEF Skipped
    <3> QED BY <1>1, <2>1, <3>1, OcbAssumption DEF Gap, Byte
  <2> QED BY <2>1 DEF Gap
<1>3. LateAfter(st, c, p) \in Nat
  BY DEF LateAfter, PacketStats
<1> QED BY <1>2, <1>3 DEF Count, PacketStats

\* decrypt, whatever its verdict, leaves a well formed crypt state.
LEMMA DecryptType ==
  ASSUME NEW c \in CryptState, NEW p \in Nonce
  PROVE  Decrypt(c, p) \in CryptState
BY AcceptedType DEF Decrypt

-----------------------------------------------------------------------------
(* Type correctness.                                                       *)

\* The reader starts well formed.
LEMMA TypeInit == Init => TypeOK
<1> SUFFICES ASSUME Init PROVE TypeOK
  OBVIOUS
<1>1. start \in Nonce
  BY ReplayAssumption DEF Init
<1>2. crypt \in CryptState
  BY <1>1, SetKeyType DEF Init, ReaderInit
<1> QED BY <1>1, <1>2, ReaderAssumption DEF Init, ReaderInit, TypeOK, ReaderTypeOK,
           NoPackets, PacketStats

\* A failed decrypt only moves the resync bookkeeping, within its bounds.
LEMMA FailedType ==
  ASSUME TypeOK, DecryptFailed
  PROVE  ReaderTypeOK'
BY ReaderAssumption
   DEF TypeOK, ReaderTypeOK, DecryptFailed, JustFailed, RequestResync,
       RequestFull, RequestClosed, OneMore

\* Every step of server, network and reader keeps the types.
LEMMA TypeStep == TypeOK /\ [Next]_vars => TypeOK'
<1> SUFFICES ASSUME TypeOK, [Next]_vars PROVE TypeOK'
  OBVIOUS
<1>1. CASE Send
  <2>1. Succ(srv) \in Nonce
    BY SuccNonce DEF TypeOK, ReaderTypeOK
  <2> QED BY <1>1, <2>1 DEF Send, ServerEncrypt, TypeOK, ReaderTypeOK
<1>2. ASSUME NEW p \in sent, Deliver(p) PROVE TypeOK'
  <2>1. p \in Nonce
    BY DEF TypeOK
  <2>2. high' \in Nonce
    BY <1>2, <2>1, DecryptType
       DEF Deliver, Higher, TypeOK, ReaderTypeOK, CryptState
  <2>3. /\ start' \in Nonce /\ sent' \subseteq Nonce /\ accepted' \subseteq sent'
        /\ answers' \in Nat
        /\ stats' \in PacketStats
    BY <1>2, <2>1, CountType DEF Deliver, TypeOK, ReaderTypeOK
  <2>4. CASE Verdict(crypt, p) = "ok"
    BY <1>2, <2>1, <2>2, <2>3, <2>4, DecryptType, ReaderAssumption
       DEF Deliver, RecvDatagram, DecryptOk, TypeOK, ReaderTypeOK
  <2>5. CASE Verdict(crypt, p) # "ok"
    BY <1>2, <2>2, <2>3, <2>5, FailedType DEF Deliver, RecvDatagram, TypeOK
  <2> QED BY <2>4, <2>5
<1>3. CASE Resync
  <2>1. Head(resyncCh) \in Nonce /\ Tail(resyncCh) \in Seq(Nonce)
        /\ Len(Tail(resyncCh)) = Len(resyncCh) - 1
    BY <1>3, HeadTailProperties
       DEF Resync, ApplyNonce, TypeOK, ReaderTypeOK
  <2>2. crypt' \in CryptState
    BY <1>3, <2>1 DEF Resync, ApplyNonce, SetDecryptIv, TypeOK, ReaderTypeOK, CryptState
  <2>3. high' \in Nonce
    BY <1>3, <2>1 DEF Resync, Higher, TypeOK
  <2> QED BY <1>3, <2>1, <2>2, <2>3, ReaderAssumption
      DEF Resync, ApplyNonce, TypeOK, ReaderTypeOK
<1>4. CASE Reply
  BY <1>4, ReaderAssumption, AppendProperties DEF Reply, ServerReply, TypeOK, ReaderTypeOK
<1>5. CASE Other
  <2>1. CASE RecvGarbage
    BY <1>5, <2>1, FailedType DEF Other, RecvGarbage, TypeOK, ghosts
  <2>2. CASE ReaderExit
    BY <1>5, <2>2, ReaderAssumption DEF Other, ReaderExit, TypeOK, ReaderTypeOK, ghosts
  <2>3. CASE SendUdp
    BY <1>5, <2>3, ReaderAssumption DEF Other, SendUdp, TypeOK, ReaderTypeOK, ghosts
  <2>4. CASE CooldownOver
    BY <1>5, <2>4, ReaderAssumption DEF Other, CooldownOver, TypeOK, ReaderTypeOK, ghosts
  <2>5. CASE LoopRecv
    BY <1>5, <2>5, ReaderAssumption DEF Other, LoopRecv, TypeOK, ReaderTypeOK, ghosts
  <2>6. CASE ForwardNonce
    <3>1. Head(replies) \in Nonce /\ Tail(replies) \in Seq(Nonce)
      BY <2>6, HeadTailProperties DEF ForwardNonce, TypeOK, ReaderTypeOK
    <3>2. resyncCh' \in Seq(Nonce) /\ Len(resyncCh') <= ResyncCap
      BY <2>6, <3>1, AppendProperties, ReaderAssumption DEF ForwardNonce, TypeOK, ReaderTypeOK
    <3> QED BY <1>5, <2>6, <3>1, <3>2, ReaderAssumption
            DEF Other, ForwardNonce, TypeOK, ReaderTypeOK, ghosts
  <2> QED BY <1>5, <2>1, <2>2, <2>3, <2>4, <2>5, <2>6 DEF Other
<1>6. CASE UNCHANGED vars
  BY <1>6 DEF vars, readerVars, ghosts, TypeOK, ReaderTypeOK
<1> QED BY <1>1, <1>2, <1>3, <1>4, <1>5, <1>6 DEF Next

\* The reader's counters, channels and nonces keep their types and bounds.
THEOREM TypeCorrect == Spec => []TypeOK
BY TypeInit, TypeStep, PTL DEF Spec

-----------------------------------------------------------------------------
(* The order of nonces and what an accepted packet looks like.             *)

\* Sending moves the server's nonce strictly forward.
LEMMA SuccBefore ==
  ASSUME NEW n \in Nonce, n.hi + 1 < HiMod
  PROVE  /\ Before(n, Succ(n))
         /\ Succ(n).hi = n.hi \/ (Succ(n).hi = n.hi + 1 /\ Succ(n).lo = 0)
         /\ Succ(n).hi = n.hi => Succ(n).lo = n.lo + 1
         /\ Succ(n).hi = n.hi + 1 => n.lo = B - 1
BY OcbAssumption DEF Succ, Carry, Nonce, Byte, Before

\* The order of nonces is transitive, so a bound may be chained.
LEMMA OrderTransitive ==
  ASSUME NEW m \in Nonce, NEW n \in Nonce, NEW k \in Nonce,
         AtMost(m, n), AtMost(n, k)
  PROVE  AtMost(m, k)
BY DEF AtMost, Before, Nonce, Byte

\* The later of two nonces is one of them and bounds both.
LEMMA HigherProperties ==
  ASSUME NEW m \in Nonce, NEW n \in Nonce
  PROVE  /\ AtMost(m, Higher(m, n)) /\ AtMost(n, Higher(m, n))
         /\ Higher(m, n) \in {m, n}
BY OcbAssumption DEF Higher, AtMost, Before, Nonce, Byte

\* A late packet is close behind: the wrap-around of the distance does not
\* apply to it.
LEMMA LateClose ==
  ASSUME NEW n \in Nonce, NEW b \in Byte, Late(n, b)
  PROVE  b < n.lo /\ b + W > n.lo
<1>1. n.lo \in Byte
  BY DEF Nonce
<1> QED BY <1>1, OcbAssumption DEF Late, Diff, Byte

\* A packet that decrypt accepts was not in the history; it lies either
\* close behind decrypt_iv, in its lap, or ahead of it.
LEMMA AcceptedPacket ==
  ASSUME NEW c \in CryptState, NEW p \in Nonce, Verdict(c, p) = "ok",
         c.iv.hi + 1 < HiMod
  PROVE  /\ c.hist[p.lo] # Iv1(p)
         /\ \/ /\ Late(c.iv, p.lo)
               /\ p.hi = c.iv.hi /\ p.lo < c.iv.lo /\ p.lo + W > c.iv.lo
               /\ Decrypt(c, p).iv = c.iv
            \/ /\ \/ p.hi = c.iv.hi /\ p.lo > c.iv.lo
                  \/ p.hi = c.iv.hi + 1 /\ p.lo = 0 /\ c.iv.lo = B - 1
               /\ Decrypt(c, p).iv = p
         /\ Decrypt(c, p).hist = [c.hist EXCEPT ![p.lo] = Iv1(p)]
<1>1. c.iv \in Nonce /\ p.lo \in Byte /\ c.iv.lo \in Byte
  BY DEF CryptState, Nonce
<1>2. /\ InRange(c.iv, p.lo) /\ ~ Replayed(c, p.lo)
      /\ Rebuilt(c.iv, p.lo) = p
  BY DEF Verdict
<1>3. c.hist[p.lo] # Iv1(p)
  BY <1>2 DEF Replayed
<1>4. /\ Decrypt(c, p).iv = IF Late(c.iv, p.lo) THEN c.iv ELSE p
      /\ Decrypt(c, p).hist = [c.hist EXCEPT ![p.lo] = Iv1(p)]
  BY <1>2 DEF Decrypt, Accepted
<1>5. CASE Late(c.iv, p.lo)
  <2>1. ~ InSequence(c.iv, p.lo)
    BY <1>5 DEF Late
  <2>2. p.hi = c.iv.hi
    BY <1>1, <1>2, <2>1 DEF Rebuilt, Nonce
  <2> QED BY <1>1, <1>3, <1>4, <1>5, <2>2, LateClose
<1>6. CASE InSequence(c.iv, p.lo)
  <2>1. ~ Late(c.iv, p.lo)
    BY <1>6 DEF Late
  <2>2. p = Succ(c.iv)
    BY <1>2, <1>6 DEF Rebuilt
  <2>3. \/ p.hi = c.iv.hi /\ p.lo > c.iv.lo
        \/ p.hi = c.iv.hi + 1 /\ p.lo = 0 /\ c.iv.lo = B - 1
    BY <1>1, <2>2, SuccBefore DEF Byte
  <2> QED BY <1>3, <1>4, <2>1, <2>3
<1>7. CASE Skipped(c.iv, p.lo)
  <2>1. ~ InSequence(c.iv, p.lo) /\ p.lo > c.iv.lo
    BY <1>7 DEF Skipped
  <2>2. ~ Late(c.iv, p.lo)
    BY <1>1, <2>1 DEF Late, Byte
  <2>3. p.hi = c.iv.hi
    BY <1>1, <1>2, <2>1 DEF Rebuilt, Nonce
  <2> QED BY <1>3, <1>4, <2>1, <2>2, <2>3
<1> QED BY <1>2, <1>5, <1>6, <1>7 DEF InRange

-----------------------------------------------------------------------------
(* No nonce is decrypted twice.                                            *)

\* The first decrypt_iv and the empty history satisfy the invariant.
LEMMA ReplayInit == Init => ReplayInv
<1> SUFFICES ASSUME Init PROVE ReplayInv
  OBVIOUS
<1>1. TypeOK
  BY TypeInit
<1>2. /\ crypt.iv = start /\ srv = start /\ high = start /\ start.hi <= LastLap
      /\ stats.good = 0
  BY ReplayAssumption DEF Init, ReaderInit, SetKey, NoPackets
<1>3. Outstanding = {}
  BY DEF Init, ReaderInit, Outstanding, Items
<1>4. IsFiniteSet(accepted) /\ Cardinality(accepted) = 0
  BY FS_EmptySet DEF Init
<1>5. accepted = {} /\ sent = {}
  BY DEF Init
<1> QED BY <1>1, <1>2, <1>3, <1>4, <1>5
        DEF ReplayInv, ServerLeads, Trails, Remembers, NoReplay, AtMost

\* The state predicates of the invariant only look at these variables.
LEMMA ReplayFrame ==
  ASSUME ReplayInv, TypeOK', ServerLeads',
         crypt'.iv = crypt.iv, crypt'.hist = crypt.hist,
         UNCHANGED <<stats, high, accepted>>, AtMost(high, srv')
  PROVE  ReplayInv'
BY DEF ReplayInv, Trails, Remembers, NoReplay, AtMost, Before, Iv1

\* Every accepted packet is new: the invariant rules out a second decrypt.
LEMMA AcceptedIsNew ==
  ASSUME ReplayInv, NEW p \in sent, Verdict(crypt, p) = "ok"
  PROVE  p \notin accepted
<1>1. /\ crypt \in CryptState /\ crypt.iv \in Nonce /\ p \in Nonce
      /\ high \in Nonce /\ srv \in Nonce
  BY DEF ReplayInv, TypeOK, ReaderTypeOK, CryptState
<1>2. AtMost(crypt.iv, srv) /\ srv.hi <= LastLap
  BY <1>1, OrderTransitive DEF ReplayInv, Trails, ServerLeads
<1>3. crypt.iv.hi + 1 < HiMod
  <2>1. LastLap \in Nat /\ LastLap + 1 < HiMod /\ HiMod \in Nat
    BY ReplayAssumption, OcbAssumption
  <2>2. crypt.iv.hi \in Nat /\ srv.hi \in Nat
    BY <1>1 DEF Nonce
  <2>3. crypt.iv.hi <= srv.hi
    BY <1>2, <2>2 DEF AtMost, Before
  <2> QED BY <1>2, <2>1, <2>2, <2>3
<1> SUFFICES ASSUME p \in accepted PROVE FALSE
  OBVIOUS
<1>4. AtMost(p, high) /\ AtMost(crypt.iv, high)
  BY DEF ReplayInv, Trails
<1>5. p.hi = high.hi \/ (p.hi + 1 = high.hi /\ p.lo > high.lo)
  <2>1. /\ p.hi \in Nat /\ high.hi \in Nat /\ crypt.iv.hi \in Nat
        /\ p.lo \in Nat /\ high.lo \in Nat /\ crypt.iv.lo \in Nat
        /\ W \in Nat \ {0} /\ B \in Nat
    BY <1>1, OcbAssumption DEF Nonce, Byte
  <2>2. \/ p.hi = crypt.iv.hi /\ p.lo + W > crypt.iv.lo
        \/ p.hi = crypt.iv.hi + 1
    <3>1. \/ p.hi = crypt.iv.hi /\ p.lo + W > crypt.iv.lo
          \/ p.hi = crypt.iv.hi /\ p.lo > crypt.iv.lo
          \/ p.hi = crypt.iv.hi + 1
      BY <1>1, <1>3, AcceptedPacket
    <3> QED BY <2>1, <3>1
  <2>3. \/ crypt.iv.hi = high.hi
        \/ crypt.iv.hi + 1 = high.hi /\ high.lo + W <= crypt.iv.lo
    BY DEF ReplayInv, Trails
  <2>4. p.hi <= high.hi
    BY <1>4, <2>1 DEF AtMost, Before
  <2> QED BY <2>1, <2>2, <2>3, <2>4
<1>6. crypt.hist[p.lo] = Iv1(p)
  BY <1>5 DEF ReplayInv, Remembers
<1> QED BY <1>1, <1>3, <1>6, AcceptedPacket

\* An accepted packet, late or ahead, keeps the window and the history.
LEMMA AcceptStep ==
  ASSUME ReplayInv, TypeOK', NEW p \in sent, Deliver(p),
         Verdict(crypt, p) = "ok"
  PROVE  ReplayInv'
<1>1. /\ crypt \in CryptState /\ crypt.iv \in Nonce /\ p \in Nonce
      /\ high \in Nonce /\ srv \in Nonce
  BY DEF ReplayInv, TypeOK, ReaderTypeOK, CryptState
<1>2. /\ crypt' = Decrypt(crypt, p) /\ accepted' = accepted \cup {p}
      /\ high' = Higher(high, crypt'.iv)
      /\ stats'.good = stats.good + 1
      /\ UNCHANGED <<srv, sent, resyncCh, replies>>
  BY DEF Deliver, RecvDatagram, DecryptOk, Count
<1>3. ServerLeads'
  BY <1>2 DEF ReplayInv, ServerLeads, Outstanding, Items, AtMost, Before, Within
<1>4. AtMost(crypt.iv, high) /\ AtMost(high, srv) /\ AtMost(p, srv)
  BY DEF ReplayInv, Trails, ServerLeads
<1>5. crypt.iv.hi + 1 < HiMod
  <2>1. LastLap \in Nat /\ LastLap + 1 < HiMod /\ HiMod \in Nat
    BY ReplayAssumption, OcbAssumption
  <2>2. crypt.iv.hi \in Nat /\ srv.hi \in Nat /\ srv.hi <= LastLap
    BY <1>1 DEF Nonce, ReplayInv, ServerLeads
  <2>3. AtMost(crypt.iv, srv)
    BY <1>1, <1>4, OrderTransitive
  <2>4. crypt.iv.hi <= srv.hi
    BY <2>2, <2>3 DEF AtMost, Before
  <2> QED BY <2>1, <2>2, <2>4
<1>6. /\ \/ /\ p.hi = crypt.iv.hi /\ p.lo < crypt.iv.lo /\ p.lo + W > crypt.iv.lo
            /\ crypt'.iv = crypt.iv
         \/ /\ \/ p.hi = crypt.iv.hi /\ p.lo > crypt.iv.lo
               \/ p.hi = crypt.iv.hi + 1 /\ p.lo = 0 /\ crypt.iv.lo = B - 1
            /\ crypt'.iv = p
      /\ crypt'.hist = [crypt.hist EXCEPT ![p.lo] = Iv1(p)]
  BY <1>1, <1>2, <1>5, AcceptedPacket
<1>7. /\ p.hi \in Nat /\ high.hi \in Nat /\ crypt.iv.hi \in Nat
      /\ p.lo \in Nat /\ high.lo \in Nat /\ crypt.iv.lo \in Nat
      /\ W \in Nat \ {0} /\ B \in Nat /\ high.lo < B /\ p.lo < B
  BY <1>1, OcbAssumption DEF Nonce, Byte
<1>8. \/ crypt.iv.hi = high.hi
      \/ crypt.iv.hi + 1 = high.hi /\ high.lo + W <= crypt.iv.lo
  BY DEF ReplayInv, Trails
<1>9. \/ high' = high /\ crypt'.iv = crypt.iv
      \/ high' = high /\ crypt'.iv = p /\ AtMost(p, high)
      \/ high' = p /\ crypt'.iv = p /\ Before(high, p)
  <2>1. CASE crypt'.iv = crypt.iv
    BY <1>1, <1>2, <1>4, <1>7, <2>1 DEF Higher, AtMost, Before
  <2>2. CASE crypt'.iv = p
    BY <1>1, <1>2, <1>7, <2>2, OcbAssumption DEF Higher, AtMost, Before, Nonce, Byte
  <2> QED BY <1>6, <2>1, <2>2
<1>10. Trails'
  <2>1. AtMost(crypt'.iv, high') /\ AtMost(high', srv')
    BY <1>2, <1>4, <1>9 DEF AtMost
  <2>2. AtMost(p, high')
    <3>1. CASE crypt'.iv = p
      BY <2>1, <3>1
    <3>2. CASE crypt'.iv = crypt.iv
      <4>1. AtMost(p, crypt.iv)
        BY <1>6, <1>7, <3>2 DEF AtMost, Before
      <4> QED BY <1>1, <1>4, <1>9, <3>2, <4>1, OrderTransitive
    <3> QED BY <1>6, <3>1, <3>2
  <2>3. \A q \in accepted : AtMost(q, high')
    <3> TAKE q \in accepted
    <3>1. q \in Nonce /\ AtMost(q, high)
      BY DEF ReplayInv, TypeOK, Trails
    <3> QED BY <1>1, <1>9, <3>1, OrderTransitive DEF AtMost
  <2>4. \/ crypt'.iv.hi = high'.hi
        \/ crypt'.iv.hi + 1 = high'.hi /\ high'.lo + W <= crypt'.iv.lo
    <3>1. CASE high' = high /\ crypt'.iv = crypt.iv
      BY <1>8, <3>1
    <3>2. CASE high' = high /\ crypt'.iv = p /\ AtMost(p, high)
      <4>1. p.hi <= high.hi
        BY <1>7, <3>2 DEF AtMost, Before
      <4>2. \/ p.hi = crypt.iv.hi /\ p.lo > crypt.iv.lo
            \/ p.hi = crypt.iv.hi + 1
            \/ crypt.iv = p
        BY <1>6, <3>2
      <4> QED BY <1>7, <1>8, <3>2, <4>1, <4>2
    <3>3. CASE high' = p /\ crypt'.iv = p /\ Before(high, p)
      BY <3>3
    <3> QED BY <1>9, <3>1, <3>2, <3>3
  <2> QED BY <1>2, <2>1, <2>2, <2>3, <2>4 DEF Trails
<1>11. Remembers'
  <2> SUFFICES ASSUME NEW q \in accepted',
                      \/ q.hi = high'.hi
                      \/ q.hi + 1 = high'.hi /\ q.lo > high'.lo
               PROVE  crypt'.hist[q.lo] = Iv1(q)
    BY DEF Remembers, Iv1
  <2>1. crypt.hist \in [Byte -> Byte] /\ p.lo \in Byte
    BY <1>1 DEF CryptState, Nonce
  <2>2. CASE q = p
    BY <1>6, <2>1, <2>2
  <2>3. CASE q # p
    <3>1. q \in accepted /\ q \in Nonce /\ AtMost(q, high)
      BY <1>2, <2>3 DEF ReplayInv, TypeOK, Trails
    <3>2. q.hi \in Nat /\ q.lo \in Nat /\ q.lo \in Byte /\ q.lo < B
      BY <3>1, OcbAssumption DEF Nonce, Byte
    <3>3. q.hi # p.hi \/ q.lo # p.lo
      BY <1>1, <2>3, <3>1 DEF Nonce
    <3>4. q.hi < high.hi \/ (q.hi = high.hi /\ q.lo <= high.lo)
      BY <3>1, <3>2, <1>7 DEF AtMost, Before
    <3>5. /\ \/ q.hi = high.hi
             \/ q.hi + 1 = high.hi /\ q.lo > high.lo
          /\ q.lo # p.lo
      <4>1. CASE high' = high /\ crypt'.iv = crypt.iv
        <5>1. \/ /\ p.hi = crypt.iv.hi /\ p.lo < crypt.iv.lo
                 /\ p.lo + W > crypt.iv.lo
              \/ p = crypt.iv
          BY <1>6, <4>1
        <5>2. crypt.iv.hi < high.hi
              \/ (crypt.iv.hi = high.hi /\ crypt.iv.lo <= high.lo)
          BY <1>4, <1>7 DEF AtMost, Before
        <5> QED BY <1>7, <1>8, <3>2, <3>3, <3>4, <4>1, <5>1, <5>2
      <4>2. CASE high' = high /\ crypt'.iv = p /\ AtMost(p, high)
        <5>1. \/ p.hi = crypt.iv.hi /\ p.lo > crypt.iv.lo
              \/ p.hi = crypt.iv.hi + 1
              \/ crypt.iv = p
          BY <1>6, <4>2
        <5>2. p.hi < high.hi \/ (p.hi = high.hi /\ p.lo <= high.lo)
          BY <4>2, <1>7 DEF AtMost, Before
        <5> QED BY <1>7, <1>8, <3>2, <3>3, <3>4, <4>2, <5>1, <5>2
      <4>3. CASE high' = p /\ crypt'.iv = p /\ Before(high, p)
        <5>1. \/ p.hi = crypt.iv.hi /\ p.lo > crypt.iv.lo
              \/ p.hi = crypt.iv.hi + 1 /\ p.lo = 0
              \/ crypt.iv = p
          BY <1>6, <4>3
        <5>2. high.hi < p.hi \/ (high.hi = p.hi /\ high.lo < p.lo)
          BY <4>3 DEF Before
        <5> QED BY <1>7, <1>8, <3>2, <3>3, <3>4, <4>3, <5>1, <5>2
      <4> QED BY <1>9, <4>1, <4>2, <4>3
    <3>6. crypt.hist[q.lo] = Iv1(q)
      BY <3>1, <3>5 DEF ReplayInv, Remembers
    <3> QED BY <1>6, <2>1, <3>2, <3>5, <3>6
  <2> QED BY <2>2, <2>3
<1>12. IsFiniteSet(accepted') /\ NoReplay'
  <2>1. p \notin accepted
    BY AcceptedIsNew
  <2> QED BY <1>2, <1>6, <2>1, FS_AddElement DEF ReplayInv, NoReplay
<1> QED BY <1>3, <1>10, <1>11, <1>12 DEF ReplayInv

\* A resync answer, which may move decrypt_iv back, keeps both as well.
LEMMA ResyncStep ==
  ASSUME ReplayInv, TypeOK', Resync
  PROVE  ReplayInv'
<1> DEFINE r == Head(resyncCh)
<1>1. /\ crypt \in CryptState /\ crypt.iv \in Nonce
      /\ high \in Nonce /\ srv \in Nonce /\ resyncCh \in Seq(Nonce)
      /\ resyncCh # <<>>
  BY DEF ReplayInv, TypeOK, ReaderTypeOK, CryptState, Resync, ApplyNonce
<1>2. /\ crypt'.iv = r /\ crypt'.hist = crypt.hist
      /\ high' = Higher(high, r) /\ resyncCh' = Tail(resyncCh)
      /\ UNCHANGED <<srv, sent, replies, accepted, stats>>
  BY <1>1 DEF Resync, ApplyNonce, SetDecryptIv, CryptState
<1>3. r \in Nonce /\ r \in Outstanding /\ Outstanding' \subseteq Outstanding
  <2>1. r \in Nonce /\ r = resyncCh[1] /\ 1 \in DOMAIN resyncCh
    BY <1>1
  <2>2. \A i \in DOMAIN Tail(resyncCh) :
          i + 1 \in DOMAIN resyncCh /\ Tail(resyncCh)[i] = resyncCh[i + 1]
    BY <1>1
  <2>3. Items(Tail(resyncCh)) \subseteq Items(resyncCh)
    BY <2>2 DEF Items
  <2>4. Outstanding' = Items(replies) \cup Items(Tail(resyncCh))
    BY <1>2 DEF Outstanding, Items
  <2> QED BY <2>1, <2>3, <2>4 DEF Outstanding, Items
<1> HIDE DEF r
<1>4. AtMost(r, srv) /\ Within(r, srv) /\ AtMost(high, srv)
  BY <1>3 DEF ReplayInv, ServerLeads, Trails
<1>5. ServerLeads'
  BY <1>2, <1>3 DEF ReplayInv, ServerLeads, AtMost, Before, Within
<1>6. /\ r.hi \in Nat /\ high.hi \in Nat /\ srv.hi \in Nat
      /\ r.lo \in Nat /\ high.lo \in Nat /\ srv.lo \in Nat
      /\ W \in Nat \ {0} /\ B \in Nat /\ high.lo < B /\ r.lo < B
      /\ Lag \in Nat /\ Lag + W <= B
  BY <1>1, <1>3, OcbAssumption, ReplayAssumption DEF Nonce, Byte
<1>7. \/ high' = high /\ AtMost(r, high)
      \/ high' = r /\ Before(high, r)
  <2>1. Before(high, r) \/ AtMost(r, high)
    BY <1>1, <1>3, <1>6, OcbAssumption DEF AtMost, Before, Nonce, Byte
  <2> QED BY <1>2, <2>1 DEF Higher
<1>8. Trails'
  <2>1. AtMost(crypt'.iv, high') /\ AtMost(high', srv')
    BY <1>2, <1>4, <1>7 DEF AtMost
  <2>2. \A q \in accepted : AtMost(q, high')
    <3> TAKE q \in accepted
    <3>1. q \in Nonce /\ AtMost(q, high)
      BY DEF ReplayInv, TypeOK, Trails
    <3> QED BY <1>1, <1>3, <1>7, <3>1, OrderTransitive DEF AtMost
  <2>3. \/ r.hi = high'.hi
        \/ r.hi + 1 = high'.hi /\ high'.lo + W <= r.lo
    <3>1. CASE high' = high /\ AtMost(r, high)
      <4>1. r.hi <= high.hi
        BY <1>6, <3>1 DEF AtMost, Before
      <4>2. high.hi < srv.hi \/ (high.hi = srv.hi /\ high.lo <= srv.lo)
        BY <1>4, <1>6 DEF AtMost, Before
      <4> QED BY <1>4, <1>6, <3>1, <4>1, <4>2 DEF Within
    <3>2. CASE high' = r
      BY <3>2
    <3> QED BY <1>7, <3>1, <3>2
  <2> QED BY <1>2, <2>1, <2>2, <2>3 DEF Trails
<1>9. Remembers'
  <2> SUFFICES ASSUME NEW q \in accepted,
                      \/ q.hi = high'.hi
                      \/ q.hi + 1 = high'.hi /\ q.lo > high'.lo
               PROVE  crypt.hist[q.lo] = Iv1(q)
    BY <1>2 DEF Remembers, Iv1
  <2>1. q \in Nonce /\ AtMost(q, high)
    BY DEF ReplayInv, TypeOK, Trails
  <2>2. q.hi \in Nat /\ q.lo \in Nat
    BY <2>1, OcbAssumption DEF Nonce, Byte
  <2>3. q.hi < high.hi \/ (q.hi = high.hi /\ q.lo <= high.lo)
    BY <1>6, <2>1, <2>2 DEF AtMost, Before
  <2>4. q.hi = high.hi \/ (q.hi + 1 = high.hi /\ q.lo > high.lo)
    BY <1>6, <1>7, <2>2, <2>3 DEF Before
  <2> QED BY <2>4 DEF ReplayInv, Remembers
<1> QED BY <1>2, <1>5, <1>8, <1>9 DEF ReplayInv, NoReplay

\* The server's packet and its answer keep it ahead of everything.
LEMMA SendStep ==
  ASSUME ReplayInv, TypeOK', Send
  PROVE  ReplayInv'
<1>1. srv \in Nonce /\ high \in Nonce /\ sent \subseteq Nonce
      /\ replies \in Seq(Nonce) /\ resyncCh \in Seq(Nonce)
  BY DEF ReplayInv, TypeOK, ReaderTypeOK
<1>2. /\ srv' = Succ(srv) /\ sent' = sent \cup {Succ(srv)}
      /\ Succ(srv).hi <= LastLap
      /\ \A r \in Outstanding : Within(r, Succ(srv))
      /\ UNCHANGED <<crypt, resyncCh, replies, high, accepted, stats>>
  BY DEF Send, ServerEncrypt
<1>3. srv.hi + 1 < HiMod
  <2>1. srv.hi \in Nat /\ srv.hi <= LastLap
    BY <1>1 DEF ReplayInv, ServerLeads, Nonce
  <2> QED BY <2>1, ReplayAssumption, OcbAssumption
<1>4. Succ(srv) \in Nonce /\ AtMost(srv, Succ(srv))
  BY <1>1, <1>3, SuccNonce, SuccBefore DEF AtMost
<1>5. Outstanding' = Outstanding /\ Outstanding \subseteq Nonce
  BY <1>1, <1>2 DEF Outstanding, Items
<1>6. \A p \in sent : AtMost(p, Succ(srv))
  BY <1>1, <1>4, OrderTransitive DEF ReplayInv, ServerLeads
<1>7. \A r \in Outstanding : AtMost(r, Succ(srv))
  BY <1>1, <1>4, <1>5, OrderTransitive DEF ReplayInv, ServerLeads
<1>8. ServerLeads'
  <2>1. \A p \in sent' : AtMost(p, srv')
    BY <1>2, <1>6 DEF AtMost
  <2>2. \A r \in Outstanding' : AtMost(r, srv') /\ Within(r, srv')
    BY <1>2, <1>5, <1>7
  <2> QED BY <1>2, <2>1, <2>2 DEF ServerLeads
<1>9. AtMost(high, srv')
  BY <1>1, <1>2, <1>4, OrderTransitive DEF ReplayInv, Trails
<1> QED BY <1>2, <1>8, <1>9, ReplayFrame

\* A server answer carries a nonce it has reached, no older than Lag allows.
LEMMA ReplyStep ==
  ASSUME ReplayInv, TypeOK', Reply
  PROVE  ReplayInv'
<1>1. srv \in Nonce /\ replies \in Seq(Nonce)
  BY DEF ReplayInv, TypeOK, ReaderTypeOK
<1>2. /\ replies' = Append(replies, srv)
      /\ UNCHANGED <<crypt, srv, sent, resyncCh, high, accepted, stats>>
  BY DEF Reply, ServerReply
<1>3. Items(Append(replies, srv)) \subseteq Items(replies) \cup {srv}
  <2>1. \A i \in DOMAIN Append(replies, srv) :
          Append(replies, srv)[i] = srv
          \/ (i \in DOMAIN replies /\ Append(replies, srv)[i] = replies[i])
    BY <1>1
  <2> QED BY <2>1 DEF Items
<1>4. Outstanding' \subseteq Outstanding \cup {srv}
  BY <1>2, <1>3 DEF Outstanding, Items
<1>5. AtMost(srv, srv) /\ Within(srv, srv)
  BY <1>1, ReplayAssumption DEF AtMost, Within, Nonce, Byte
<1>6. ServerLeads'
  BY <1>2, <1>4, <1>5 DEF ReplayInv, ServerLeads, AtMost, Before, Within
<1> QED BY <1>2, <1>6, ReplayFrame DEF ReplayInv, Trails

\* Steps that move neither the window nor the server's nonces.
LEMMA QuietStep ==
  ASSUME ReplayInv, TypeOK', Outstanding' \subseteq Outstanding,
         UNCHANGED <<crypt, srv, sent, high, accepted, stats>>
  PROVE  ReplayInv'
<1>1. ServerLeads'
  BY DEF ReplayInv, ServerLeads, AtMost, Before, Within
<1> QED BY <1>1, ReplayFrame DEF ReplayInv, Trails

\* Every step of server, network and reader keeps the replay invariant.
LEMMA ReplayStep == ReplayInv /\ [Next]_vars => ReplayInv'
<1> SUFFICES ASSUME ReplayInv, [Next]_vars PROVE ReplayInv'
  OBVIOUS
<1>1. TypeOK'
  BY TypeStep DEF ReplayInv
<1>2. CASE Send
  BY <1>1, <1>2, SendStep
<1>3. ASSUME NEW p \in sent, Deliver(p) PROVE ReplayInv'
  <2>1. CASE Verdict(crypt, p) = "ok"
    BY <1>1, <1>3, <2>1, AcceptStep
  <2>2. CASE Verdict(crypt, p) # "ok"
    <3>1. /\ UNCHANGED <<crypt, srv, sent, accepted, stats, resyncCh, replies>>
          /\ high' = Higher(high, crypt.iv)
      BY <1>3, <2>2 DEF Deliver, RecvDatagram, DecryptFailed, Decrypt
    <3>2. high' = high
      BY <3>1 DEF Higher, ReplayInv, Trails, TypeOK, ReaderTypeOK, CryptState,
                  AtMost, Before, Nonce, Byte
    <3>3. Outstanding' = Outstanding
      BY <3>1 DEF Outstanding, Items
    <3> QED BY <1>1, <3>1, <3>2, <3>3, QuietStep
  <2> QED BY <2>1, <2>2
<1>4. CASE Resync
  BY <1>1, <1>4, ResyncStep
<1>5. CASE Reply
  BY <1>1, <1>5, ReplyStep
<1>6. CASE Other
  <2>1. UNCHANGED <<crypt, srv, sent, high, accepted, stats>>
    BY <1>6 DEF Other, ghosts, RecvGarbage, DecryptFailed, ReaderExit, SendUdp,
                CooldownOver, LoopRecv, ForwardNonce
  <2>2. CASE ForwardNonce
    <3>1. replies \in Seq(Nonce) /\ resyncCh \in Seq(Nonce) /\ replies # <<>>
      BY <2>2 DEF ForwardNonce, ReplayInv, TypeOK, ReaderTypeOK
    <3>2. /\ Items(Tail(replies)) \subseteq Items(replies)
          /\ Head(replies) \in Items(replies)
      <4>1. \A i \in DOMAIN Tail(replies) :
              i + 1 \in DOMAIN replies /\ Tail(replies)[i] = replies[i + 1]
        BY <3>1
      <4>2. Head(replies) = replies[1] /\ 1 \in DOMAIN replies
        BY <3>1
      <4> QED BY <4>1, <4>2 DEF Items
    <3>3. Items(Append(resyncCh, Head(replies)))
            \subseteq Items(resyncCh) \cup {Head(replies)}
      <4>1. \A i \in DOMAIN Append(resyncCh, Head(replies)) :
              \/ Append(resyncCh, Head(replies))[i] = Head(replies)
              \/ /\ i \in DOMAIN resyncCh
                 /\ Append(resyncCh, Head(replies))[i] = resyncCh[i]
        BY <3>1
      <4> QED BY <4>1 DEF Items
    <3>4. \/ resyncCh' = resyncCh
          \/ resyncCh' = Append(resyncCh, Head(replies))
      BY <2>2 DEF ForwardNonce
    <3>5. replies' = Tail(replies)
      BY <2>2 DEF ForwardNonce
    <3>6. Outstanding' \subseteq Outstanding
      <4>1. Items(replies') \subseteq Items(replies)
        BY <3>2, <3>5
      <4>2. Items(resyncCh') \subseteq Items(resyncCh) \cup {Head(replies)}
        BY <3>3, <3>4
      <4>3. Outstanding' = Items(replies') \cup Items(resyncCh')
        BY DEF Outstanding, Items
      <4> QED BY <3>2, <4>1, <4>2, <4>3 DEF Outstanding
    <3> QED BY <1>1, <2>1, <3>6, QuietStep
  <2>3. CASE ~ ForwardNonce
    <3>1. UNCHANGED <<resyncCh, replies>>
      BY <1>6, <2>3 DEF Other, RecvGarbage, DecryptFailed, ReaderExit, SendUdp,
                        CooldownOver, LoopRecv
    <3>2. Outstanding' = Outstanding
      BY <3>1 DEF Outstanding, Items
    <3> QED BY <1>1, <2>1, <3>2, QuietStep
  <2> QED BY <2>2, <2>3
<1>7. CASE UNCHANGED vars
  BY <1>1, <1>7, QuietStep DEF vars, readerVars, ghosts, Outstanding, Items
<1> QED BY <1>2, <1>3, <1>4, <1>5, <1>6, <1>7 DEF Next

\* The replay invariant holds in every reachable state.
LEMMA ReplayInvCorrect == Spec => []ReplayInv
BY ReplayInit, ReplayStep, PTL DEF Spec

\* Whatever the network loses, repeats or reorders, and although resync
\* answers move decrypt_iv back, decrypt accepts no nonce twice.
THEOREM NoReplayCorrect == Spec => []NoReplay
<1>1. ReplayInv => NoReplay
  BY DEF ReplayInv
<1> QED BY <1>1, ReplayInvCorrect, PTL

\* decrypt_iv never runs ahead of the nonce the server encrypts under.
THEOREM NeverAheadCorrect == Spec => []NeverAhead
<1>1. ReplayInv => NeverAhead
  BY OrderTransitive DEF ReplayInv, Trails, NeverAhead, TypeOK, ReaderTypeOK,
                         CryptState
<1> QED BY <1>1, ReplayInvCorrect, PTL

-----------------------------------------------------------------------------
(* The reader implements Delivery.                                         *)

\* Every step of the reader is, on what Delivery looks at, a packet the
\* server encrypts, a packet that comes out for the first time, or nothing.
LEMMA PromiseStep == ReplayInv /\ [Next]_vars => [Promise!Next]_(Promise!deliveryVars)
<1> SUFFICES ASSUME ReplayInv, [Next]_vars
             PROVE  Promise!Next \/ UNCHANGED <<sent, accepted, stats.good>>
  BY DEF Promise!deliveryVars
<1>1. CASE Send
  <2>1. srv \in Nonce /\ Succ(srv) \in Nonce /\ sent \subseteq Nonce
    BY SuccNonce DEF ReplayInv, TypeOK, ReaderTypeOK
  <2>2. \A p \in sent : AtMost(p, srv)
    BY DEF ReplayInv, ServerLeads
  <2>3. srv.hi + 1 < HiMod
    <3>1. LastLap \in Nat /\ LastLap + 1 < HiMod /\ HiMod \in Nat
      BY ReplayAssumption, OcbAssumption
    <3>2. srv.hi \in Nat /\ srv.hi <= LastLap
      BY <2>1 DEF Nonce, ReplayInv, ServerLeads
    <3> QED BY <3>1, <3>2
  <2>4. Before(srv, Succ(srv))
    BY <2>1, <2>3, SuccBefore
  <2>5. Succ(srv) \notin sent
    <3> SUFFICES ASSUME Succ(srv) \in sent PROVE FALSE
      OBVIOUS
    <3>1. AtMost(Succ(srv), srv)
      BY <2>2
    <3>2. /\ srv.hi \in Nat /\ srv.lo \in Nat
          /\ Succ(srv).hi \in Nat /\ Succ(srv).lo \in Nat
      BY <2>1, OcbAssumption DEF Nonce, Byte
    <3> QED BY <2>4, <3>1, <3>2 DEF AtMost, Before
  <2>6. sent' = sent \cup {Succ(srv)} /\ UNCHANGED <<accepted, stats.good>>
    BY <1>1 DEF Send
  <2> QED BY <2>1, <2>5, <2>6 DEF Promise!Next, Promise!Encrypt
<1>2. ASSUME NEW p \in sent, Deliver(p)
      PROVE  Promise!Next \/ UNCHANGED <<sent, accepted, stats.good>>
  <2>1. CASE Verdict(crypt, p) = "ok"
    <3>1. p \in Nonce /\ p \notin accepted
      BY <2>1, AcceptedIsNew DEF ReplayInv, TypeOK
    <3>2. /\ accepted' = accepted \cup {p} /\ stats'.good = stats.good + 1
          /\ sent' = sent
      BY <1>2, <2>1 DEF Deliver, Count
    <3> QED BY <3>1, <3>2 DEF Promise!Next, Promise!Hand
  <2>2. CASE Verdict(crypt, p) # "ok"
    BY <1>2, <2>2 DEF Deliver
  <2> QED BY <2>1, <2>2
<1>3. CASE Resync
  BY <1>3 DEF Resync
<1>4. CASE Reply
  BY <1>4 DEF Reply
<1>5. CASE Other
  BY <1>5 DEF Other, ghosts
<1>6. CASE UNCHANGED vars
  BY <1>6 DEF vars, ghosts
<1> QED BY <1>1, <1>2, <1>3, <1>4, <1>5, <1>6 DEF Next

\* decrypt, with its one-byte history and the resyncs that move its nonce
\* back, implements at-most-once delivery of what the server encrypted.
THEOREM ImplementsDelivery == Spec => DeliversOnce
<1>1. Init => Promise!Init
  BY DEF Init, Promise!Init, NoPackets
<1> QED BY <1>1, ReplayInvCorrect, PromiseStep, PTL DEF Spec, DeliversOnce, Promise!Spec
=============================================================================
