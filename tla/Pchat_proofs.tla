---------------------------- MODULE Pchat_proofs ----------------------------
(***************************************************************************)
(* Persistent chat for any number of members, keys, requests, messages and *)
(* restarts: the key manager never goes back to an older identity, trusts  *)
(* only custodians that the user clicked for and stores what the closed    *)
(* collector justifies; what a sender key was advanced past is kept; and   *)
(* a message is shown once and lost only for a reason that is on record.   *)
(***************************************************************************)
EXTENDS KeyManager, History, FiniteSetTheorems, SequenceTheorems, WellFoundedInduction, TLAPS

-----------------------------------------------------------------------------
\* The key manager.

\* Every member of a confirmed list was in a list the user clicked for.
ConfirmedIsClicked == pin.state = "confirmed" => pin.pinned \subseteq clicked
PinTypes == pin \in PinState
KeyManagerInv == PinTypes /\ ConfirmedIsClicked

\* The steps that leave the pin and the clicks alone.
PinFree ==
    \/ \E a \in Announces : record_peer_key(a[1], a[2])
    \/ \E a \in Announces, k \in Keys, r \in Requests \cup {None} :
           receive_key_exchange(a[1], k, a[2], r)
    \/ \E r \in Requests, c \in Lists : evaluate_consensus(r, c)
    \/ resolve_dispute
    \/ \E p \in Peers : handle_key_request(p)
    \/ \E e \in Epochs : store_epoch_key(e, "Unverified")
    \/ \E e \in Epochs, a \in Announces, c \in Lists :
           verify_countersignature(e, a[1], a[2], c)
    \/ \E k \in Keys : store_archive_key(k, "Verified")
    \/ \E s \in Founders : set_channel_originator(s)

\* They do.
LEMMA PinFreeKeeps == PinFree => UNCHANGED <<pin, clicked>>
BY DEF PinFree, record_peer_key, receive_key_exchange, evaluate_consensus, resolve_dispute,
       handle_key_request, store_epoch_key, verify_countersignature, store_archive_key,
       set_channel_originator

\* A first list of the server is confirmed only when nobody is in it, and a
\* later one is only remembered.
LEMMA PinStep == KeyManagerInv /\ [KeyManagerNext]_keyManagerVars => KeyManagerInv'
<1> SUFFICES ASSUME KeyManagerInv, [KeyManagerNext]_keyManagerVars PROVE KeyManagerInv'
  OBVIOUS
<1> USE DEF KeyManagerInv, PinTypes, ConfirmedIsClicked
<1>l. Lists \subseteq SUBSET Peers BY KeyManagerAssumption
<1>1. CASE PinFree BY <1>1, PinFreeKeeps
<1>2. ASSUME NEW c \in Lists, update_custodian_pin(c) PROVE KeyManagerInv'
  <2>1. CASE pin.state = "absent"
    <3>1. pin' = first_observation(c) BY <1>2, <2>1 DEF update_custodian_pin
    <3>2. pin' \in PinState BY <3>1, <1>l DEF first_observation, PinState
    <3>3. pin'.state = "confirmed" => pin'.pinned = {} BY <3>1 DEF first_observation
    <3> QED BY <3>2, <3>3
  <2>2. CASE pin.state # "absent"
    <3>1. pin' = pin \/ pin' = [pin EXCEPT !.pending = c]
      BY <1>2, <2>2 DEF update_custodian_pin
    <3>2. pin' \in PinState /\ pin'.state = pin.state /\ pin'.pinned = pin.pinned
      BY <3>1, <1>l DEF PinState
    <3> QED BY <3>2, <1>2 DEF update_custodian_pin
  <2> QED BY <2>1, <2>2
<1>3. CASE accept_custodian_update
  <2> DEFINE list == IF pin.pending = None THEN pin.pinned ELSE pin.pending
  <2>1. list \subseteq Peers BY DEF PinState
  <2>2. pin' = [state |-> "confirmed", pinned |-> list, pending |-> None] /\ clicked' = clicked \cup list
    BY <1>3 DEF accept_custodian_update
  <2> HIDE DEF list
  <2> QED BY <2>1, <2>2 DEF PinState
<1>4. CASE confirm_custodian_list
  <2>1. pin' = [pin EXCEPT !.state = "confirmed"] /\ clicked' = clicked \cup pin.pinned
    BY <1>4 DEF confirm_custodian_list
  <2>2. pin' \in PinState /\ pin'.pinned = pin.pinned BY <2>1 DEF PinState
  <2> QED BY <2>1, <2>2
<1>5. CASE remove_channel
  BY <1>5 DEF remove_channel, NoPin, PinState
<1>6. CASE UNCHANGED keyManagerVars BY <1>6 DEF keyManagerVars
<1> QED BY <1>1, <1>2, <1>3, <1>4, <1>5, <1>6 DEF KeyManagerNext, PinFree

\* Nobody but the originator is a trusted authority for any list the server
\* claims, unless the user confirmed or accepted a list with them.
THEOREM CustodianCorrect == KeyManagerSpec => []CustodianNeedsClick
<1>1. KeyManagerInit => KeyManagerInv
  BY DEF KeyManagerInit, KeyManagerInv, PinTypes, ConfirmedIsClicked, NoPin, PinState
<1>2. KeyManagerInv => CustodianNeedsClick
  BY DEF KeyManagerInv, PinTypes, ConfirmedIsClicked, CustodianNeedsClick,
         is_trusted_authority, PinState
<1> QED BY <1>1, <1>2, PinStep, PTL DEF KeyManagerSpec

-----------------------------------------------------------------------------
\* The recorded identities are numbers.
IdentityTypes == peer_keys \in [Peers -> Nat]

\* Only an announce writes the recorded identities, and only a newer one.
LEMMA IdentityStep ==
    IdentityTypes /\ [KeyManagerNext]_keyManagerVars =>
        IdentityTypes' /\ \A p \in Peers : peer_keys'[p] >= peer_keys[p]
<1> SUFFICES ASSUME IdentityTypes, [KeyManagerNext]_keyManagerVars
             PROVE  IdentityTypes' /\ \A p \in Peers : peer_keys'[p] >= peer_keys[p]
  OBVIOUS
<1> USE DEF IdentityTypes
<1>1. ASSUME NEW a \in Announces, record_peer_key(a[1], a[2])
      PROVE  IdentityTypes' /\ \A p \in Peers : peer_keys'[p] >= peer_keys[p]
  <2>1. a[1] \in Peers /\ a[2] \in Nat BY KeyManagerAssumption
  <2> QED BY <1>1, <2>1 DEF record_peer_key
<1>2. ~(\E a \in Announces : record_peer_key(a[1], a[2])) => UNCHANGED peer_keys
  BY DEF KeyManagerNext, keyManagerVars, keyVars, receive_key_exchange, evaluate_consensus,
         update_custodian_pin, accept_custodian_update, confirm_custodian_list, resolve_dispute,
         handle_key_request, store_epoch_key, verify_countersignature, store_archive_key,
         set_channel_originator, remove_channel
<1> QED BY <1>1, <1>2

\* A peer's identity moves on to a newer one or stays, in whatever order and
\* however often its announces arrive.
THEOREM NoRollbackCorrect == KeyManagerSpec => NoRollback
<1>1. KeyManagerInit => IdentityTypes
  BY DEF KeyManagerInit, IdentityTypes
<1>2. IdentityTypes /\ [KeyManagerNext]_keyManagerVars => IdentityTypes'
  BY IdentityStep
<1>3. IdentityTypes /\ [KeyManagerNext]_keyManagerVars
        => [\A p \in Peers : peer_keys'[p] >= peer_keys[p]]_keyManagerVars
  BY IdentityStep
<1> QED BY <1>1, <1>2, <1>3, PTL DEF KeyManagerSpec, NoRollback

-----------------------------------------------------------------------------
\* The keys that were offered are finitely many.
LEMMA OfferedFinite == ASSUME NEW resp PROVE IsFiniteSet(Offered(resp))
<1>1. IsFiniteSet(Responders(resp))
  <2>1. Responders(resp) \in SUBSET Peers BY DEF Responders
  <2> QED BY <2>1, FS_Subset, KeyManagerAssumption
<1> DEFINE f == [p \in Responders(resp) |-> resp[p]]
<1>2. f \in Surjection(Responders(resp), Offered(resp))
  BY DEF Surjection, Offered
<1> QED BY <1>1, <1>2, FS_Surjection

\* Closing a collector: what is stored is an authority's offer if there is
\* one; else the one offered key, or a most offered one marked Disputed.
LEMMA ClosingSound ==
    ASSUME NEW r \in Requests, NEW c \in Lists, evaluate_consensus(r, c)
    PROVE  ClosedBy(r, c)
<1> DEFINE resp == collector[r]
           authorities == {p \in Responders(resp) : is_trusted_authority(p, c)}
           backers == {p \in Responders(resp) : resp[p] = archive'.key}
<1>1. SUFFICES /\ backers # {}
               /\ authorities # {} => authorities \cap backers # {} /\ archive'.trust = "Verified"
               /\ archive'.trust = "Disputed" <=> authorities = {} /\ backers # Responders(resp)
               /\ archive'.trust = "Disputed" =>
                     \A p \in Responders(resp) :
                         Cardinality(Group(resp, resp[p])) <= Cardinality(backers)
  BY DEF ClosedBy
<1>2. PICK rs : rs = resp OBVIOUS
<1>3. ByAuthority(rs, c) # {} <=> authorities # {}
  BY <1>2 DEF ByAuthority
<1>4. archive' \in IF ByAuthority(rs, c) # {} THEN ByAuthority(rs, c) ELSE ByResponses(rs)
  BY <1>2 DEF evaluate_consensus
<1>5. CASE authorities # {}
  <2>1. PICK p \in authorities : archive' = [key |-> rs[p], trust |-> "Verified"]
    BY <1>2, <1>3, <1>4, <1>5 DEF ByAuthority
  <2>2. archive'.key = rs[p] /\ archive'.trust = "Verified" BY <2>1
  <2>3. p \in authorities \cap backers BY <2>2, <1>2
  <2> QED BY <1>5, <2>2, <2>3
<1>6. CASE authorities = {}
  <2>0. archive' \in ByResponses(rs) BY <1>3, <1>4, <1>6
  <2>1. CASE Cardinality(Offered(rs)) = 1
    <3>1. PICK k : Offered(rs) = {k} BY <2>1, OfferedFinite, FS_Singleton
    <3>2. archive'.key = k /\ archive'.trust \in {"Verified", "Unverified"}
      BY <2>0, <2>1, <3>1 DEF ByResponses
    <3>3. \A p \in Responders(rs) : rs[p] = k BY <3>1 DEF Offered
    <3>4. Responders(rs) # {} BY <3>1 DEF Offered
    <3>5. backers = Responders(rs) BY <3>2, <3>3, <1>2
    <3> QED BY <3>2, <3>4, <3>5, <1>2, <1>6
  <2>2. CASE Cardinality(Offered(rs)) # 1
    <3>1. PICK k \in Offered(rs) :
            /\ archive' = [key |-> k, trust |-> "Disputed"]
            /\ \A o \in Offered(rs) : Cardinality(Group(rs, o)) <= Cardinality(Group(rs, k))
      BY <2>0, <2>2 DEF ByResponses
    <3>2. archive'.key = k /\ archive'.trust = "Disputed" BY <3>1
    <3>3. k # None /\ \E p \in Responders(rs) : rs[p] = k BY DEF Offered, Responders
    <3>4. backers = Group(rs, k) BY <3>2, <3>3, <1>2 DEF Group, Responders
    <3>5. backers # {} BY <3>2, <3>3, <1>2
    <3>6. backers # Responders(rs)
      <4> SUFFICES ASSUME backers = Responders(rs) PROVE FALSE OBVIOUS
      <4>1. \A p \in Responders(rs) : rs[p] = k BY <3>2, <1>2
      <4>2. Offered(rs) = {k} BY <4>1, <3>3 DEF Offered
      <4> QED BY <4>2, <2>2, FS_Singleton
    <3>7. \A p \in Responders(rs) : Cardinality(Group(rs, rs[p])) <= Cardinality(backers)
      BY <3>1, <3>4 DEF Offered
    <3> QED BY <3>2, <3>5, <3>6, <3>7, <1>2, <1>6
  <2> QED BY <2>1, <2>2
<1> QED BY <1>5, <1>6

\* Whenever a collector is closed, the stored key and its trust are what the
\* responses and the authorities among the responders justify.
THEOREM ConsensusCorrect == KeyManagerSpec => ConsensusSound
<1>1. [KeyManagerNext]_keyManagerVars =>
        [\A r \in Requests :
          collector[r] # EmptyCollector /\ collector'[r] = EmptyCollector =>
              \A c \in Lists : evaluate_consensus(r, c) => ClosedBy(r, c)]_keyManagerVars
  BY ClosingSound
<1> QED BY <1>1, PTL DEF KeyManagerSpec, ConsensusSound

-----------------------------------------------------------------------------
\* The message history.

\* The records that the proof looks into have their fields.
Shapes ==
    /\ gone = [stash |-> gone.stash, crash |-> gone.crash, cap |-> gone.cap,
               deleted |-> gone.deleted, wire |-> gone.wire]
    /\ disk = [key |-> disk.key, used |-> disk.used, cache |-> disk.cache]

\* DecryptedIsKept also while a fetch response has taken the PchatState, and
\* of the two files, which a crash may leave in two different versions.
KeptInMemory == pchat # "none" => used \subseteq cache \cup gone.crash
KeptOnDisk == disk.used \subseteq disk.cache \cup gone.crash
Attached == online => pchat # "none"
HistoryInv == Shapes /\ KeptInMemory /\ KeptOnDisk /\ Attached

\* Reading an envelope caches it: memory may use only what it caches.
Reads(opened) == /\ used' \subseteq used \cup opened
                 /\ cache \cup opened \subseteq cache'

\* A handler that reads some envelopes, drops no crash record and saves
\* nothing keeps the invariant.
LEMMA ReadingKeeps ==
    ASSUME HistoryInv, NEW opened, Reads(opened),
           pchat' # "none" => pchat # "none", online' => online /\ pchat' # "none",
           disk' = disk, gone'.crash = gone.crash, Shapes'
    PROVE  HistoryInv'
BY DEF HistoryInv, KeptInMemory, KeptOnDisk, Attached, Reads

\* The steps of the peer, the server and the commands that read nothing.
LEMMA OutsideKeeps ==
    ASSUME HistoryInv,
           \/ \E sealed \in BOOLEAN : PeerSend(sealed)
           \/ \E lost \in BOOLEAN : PeerDistribute(lost)
           \/ FetchOlder
           \/ \E n \in DOMAIN pending : Relay(n)
           \/ HandleText \/ HandleDelete \/ FetchMerge \/ SendBuild \/ SendQueue
           \/ UNCHANGED historyVars
    PROVE  HistoryInv'
<1>1. /\ UNCHANGED <<used, cache, online, disk, gone>>
      /\ pchat' = pchat \/ (pchat = "taken" /\ pchat' = "here")
  BY DEF historyVars, memory, server, PeerSend, PeerDistribute, FetchOlder, Relay, HandleText,
         HandleDelete, FetchMerge, SendBuild, SendQueue
<1> QED BY <1>1 DEF HistoryInv, Shapes, KeptInMemory, KeptOnDisk, Attached

\* Every step keeps the invariant.
LEMMA HistoryInvStep == HistoryInv /\ [HistoryNext]_historyVars => HistoryInv'
<1> SUFFICES ASSUME HistoryInv, [HistoryNext]_historyVars PROVE HistoryInv'
  OBVIOUS
<1>s. Shapes BY DEF HistoryInv
<1>1. ASSUME NEW i \in Sent, ServerDelete(i) PROVE HistoryInv'
  <2>1. Shapes' /\ gone'.crash = gone.crash BY <1>1, <1>s DEF ServerDelete, Shapes
  <2> QED BY <1>1, <2>1 DEF ServerDelete, memory, HistoryInv, KeptInMemory, KeptOnDisk, Attached
<1>2. CASE HandleDeliver
  <2>1. CASE UNCHANGED <<memory, gone>>
    BY <1>2, <2>1, <1>s DEF HandleDeliver, Event, memory, HistoryInv, Shapes, KeptInMemory, KeptOnDisk, Attached
  <2>2. CASE pchat # "none"
    <3> DEFINE i == Head(down).id
               g == [gone EXCEPT
                      !.stash = IF CanDecrypt(i, key, used) THEN @ ELSE @ \cup StashDrops(stash),
                      !.cap = @ \cup CapDrops(thread, thread')]
    <3>1. Reads(IF CanDecrypt(i, key, used) THEN {i} ELSE {})
      BY <1>2, <2>2 DEF HandleDeliver, Reads, Cached, insert
    <3>2. gone' = g /\ UNCHANGED <<pchat, online, disk>>
      BY <1>2, <2>2 DEF HandleDeliver
    <3>3. Shapes' /\ gone'.crash = gone.crash BY <3>2, <1>s DEF Shapes
    <3>4. online => pchat # "none" BY DEF HistoryInv, Attached
    <3> QED BY <3>1, <3>2, <3>3, <3>4, ReadingKeeps
  <2> QED BY <1>2, <2>1, <2>2 DEF HandleDeliver
<1>3. CASE HandleDistribution
  <2>1. UNCHANGED <<gone, disk, online, pchat>>
    BY <1>3 DEF HandleDistribution, memory
  <2>2. used' \subseteq cache' \/ UNCHANGED <<used, cache>>
    BY <1>3 DEF HandleDistribution, memory, Retry, process_distribution
  <2> QED BY <2>1, <2>2, <1>s DEF HistoryInv, Shapes, KeptInMemory, KeptOnDisk, Attached
<1>4. CASE HandleDrain
  <2>1. CASE UNCHANGED <<memory, queue, gone>>
    BY <1>4, <2>1 DEF HandleDrain, memory, HistoryInv, Shapes, KeptInMemory, KeptOnDisk, Attached
  <2>2. CASE pchat # "none"
    <3> DEFINE e == Head(down)
               record == IF e.chain = NoChain THEN [key |-> key, used |-> used]
                         ELSE process_distribution(e.chain)
    <3>1. PICK opened : used' = record.used \cup opened /\ cache' = cache \cup opened
      BY <1>4, <2>2 DEF HandleDrain
    <3>2. record.used \subseteq used BY DEF process_distribution
    <3>3. Reads(opened) BY <3>1, <3>2 DEF Reads
    <3>4. PICK l, c : gone' = [gone EXCEPT !.stash = @ \cup l, !.cap = @ \cup c]
      BY <1>4, <2>2 DEF HandleDrain
    <3>5. UNCHANGED <<pchat, online, disk>> BY <1>4, <2>2 DEF HandleDrain
    <3>6. Shapes' /\ gone'.crash = gone.crash BY <3>4, <3>5, <1>s DEF Shapes
    <3>7. online => pchat # "none" BY DEF HistoryInv, Attached
    <3> QED BY <3>3, <3>5, <3>6, <3>7, ReadingKeeps
  <2> QED BY <1>4, <2>1, <2>2 DEF HandleDrain
<1>5. CASE FetchTake
  <2>1. UNCHANGED <<gone, disk, online>> BY <1>5 DEF FetchTake
  <2>2. CASE UNCHANGED memory
    BY <2>1, <2>2 DEF memory, HistoryInv, Shapes, KeptInMemory, KeptOnDisk, Attached
  <2>3. CASE pchat # "none"
    <3>1. PICK opened : used' = used \cup opened /\ cache' = cache \cup opened /\ pchat' = "taken"
      BY <1>5, <2>3 DEF FetchTake
    <3>2. Shapes' BY <2>1, <1>s DEF Shapes
    <3> QED BY <2>1, <2>3, <3>1, <3>2, ReadingKeeps DEF Reads
  <2> QED BY <1>5, <2>2, <2>3 DEF FetchTake
<1>6. CASE SendStore
  <2>1. UNCHANGED <<used, pchat, online, disk>> /\ cache \subseteq cache'
    BY <1>6 DEF SendStore, insert
  <2>2. Shapes' /\ gone'.crash = gone.crash BY <1>6, <1>s DEF SendStore, Shapes
  <2> QED BY <2>1, <2>2 DEF HistoryInv, KeptInMemory, KeptOnDisk, Attached
<1>7. CASE Disconnect
  <2>1. disk' = [disk EXCEPT !.key = key, !.used = used, !.cache = cache]
    BY <1>7, <1>s DEF Disconnect, save_local_cache, save_signal_state, export_state, Shapes
  <2>2. disk'.used = used /\ disk'.cache = cache /\ Shapes' /\ gone'.crash = gone.crash
    BY <1>7, <2>1, <1>s DEF Disconnect, Shapes
  <2>3. online /\ pchat' = "none" /\ ~online' BY <1>7 DEF Disconnect
  <2> QED BY <2>2, <2>3 DEF HistoryInv, KeptInMemory, KeptOnDisk, Attached
<1>8. ASSUME NEW between \in BOOLEAN, Crash(between) PROVE HistoryInv'
  <2>1. pchat' = "none" /\ ~online' /\ online BY <1>8 DEF Crash
  <2>2. Shapes' /\ gone'.crash = gone.crash \cup (cache \ disk.cache)
    BY <1>8, <1>s DEF Crash, Shapes, save_signal_state, export_state
  <2>3. disk' = disk \/ (disk'.used = used /\ disk'.cache = disk.cache)
    BY <1>8, <1>s DEF Crash, Shapes, save_signal_state, export_state
  <2> QED BY <2>1, <2>2, <2>3 DEF HistoryInv, KeptInMemory, KeptOnDisk, Attached
<1>9. CASE Connect
  <2>1. used' = disk.used /\ cache' = disk.cache /\ UNCHANGED <<disk, gone>> /\ pchat' = "here"
    BY <1>9 DEF Connect, import_state
  <2> QED BY <2>1 DEF HistoryInv, Shapes, KeptInMemory, KeptOnDisk, Attached
<1> QED
  BY <1>1, <1>2, <1>3, <1>4, <1>5, <1>6, <1>7, <1>8, <1>9, OutsideKeeps DEF HistoryNext

\* An envelope that the sender key was advanced past has its text in the
\* cache, in every order of deliveries, key distributions, fetches, drains,
\* disconnects and restarts; only a crash between the two saves loses it.
THEOREM DecryptedCorrect == HistorySpec => []DecryptedIsKept
<1>1. HistoryInit => HistoryInv
  BY DEF HistoryInit, HistoryInv, Shapes, KeptInMemory, KeptOnDisk, Attached
<1>2. HistoryInv => DecryptedIsKept
  BY DEF HistoryInv, KeptInMemory, DecryptedIsKept, Ready
<1> QED BY <1>1, <1>2, HistoryInvStep, PTL DEF HistorySpec

-----------------------------------------------------------------------------
\* Induction over the naturals, by their well-foundedness.
Below == {ss \in Nat \X Nat : ss[1] < ss[2]}

\* A set with zero and with the successors of its elements has all naturals.
LEMMA Induction ==
    ASSUME NEW T, 0 \in T, \A n \in Nat : n \in T => n + 1 \in T PROVE Nat \subseteq T
<1>1. SUFFICES ASSUME Nat \ T # {} PROVE FALSE OBVIOUS
<1>2. IsWellFoundedOn(Below, Nat) BY NatLessThanWellFounded DEF OpToRel, Below
<1>3. PICK x \in Nat \ T : \A y \in Nat \ T : ~ (<<y, x>> \in Below) BY <1>1, <1>2, WFMin
<1>4. x # 0 /\ x - 1 \in Nat /\ (x - 1) + 1 = x BY <1>3
<1>5. x - 1 \in T
  <2>1. <<x - 1, x>> \in Below BY <1>4 DEF Below
  <2> QED BY <1>3, <1>4, <2>1
<1> QED BY <1>3, <1>4, <1>5

\* Arranging a finite set by a strict total order R.
Orders(R, S) ==
    /\ \A x \in S : <<x, x>> \notin R
    /\ \A x, y \in S : x # y => <<x, y>> \in R \/ <<y, x>> \in R
    /\ \A x, y, z \in S : <<x, y>> \in R /\ <<y, z>> \in R => <<x, z>> \in R

Arranges(f, R, S) ==
    /\ f \in [1..Cardinality(S) -> S]
    /\ \A m, n \in 1..Cardinality(S) : m < n => <<f[m], f[n]>> \in R

\* There is an arrangement: each element at the place that the number of its
\* predecessors gives.
LEMMA ArrangesSome ==
    ASSUME NEW S, IsFiniteSet(S), NEW R, Orders(R, S) PROVE \E f : Arranges(f, R, S)
<1>1. PICK k \in Nat : k = Cardinality(S) BY FS_CardinalityType
<1> DEFINE Before(d) == {e \in S : <<e, d>> \in R}
<1>2. ASSUME NEW d \in S PROVE IsFiniteSet(Before(d)) /\ Cardinality(Before(d)) \in Nat
                               /\ Cardinality(Before(d)) < k
  <2>1. Before(d) \subseteq S /\ d \notin Before(d) BY DEF Orders
  <2>2. IsFiniteSet(Before(d)) /\ Cardinality(Before(d)) <= k
        /\ (Cardinality(Before(d)) = k => Before(d) = S)
    BY <1>1, <2>1, FS_Subset
  <2>3. Cardinality(Before(d)) \in Nat BY <2>2, FS_CardinalityType
  <2>4. Cardinality(Before(d)) # k BY <2>1, <2>2
  <2> QED BY <2>2, <2>3, <2>4
<1>3. ASSUME NEW d \in S, NEW e \in S, <<d, e>> \in R
      PROVE  Cardinality(Before(d)) < Cardinality(Before(e))
  <2>1. Before(d) \subseteq Before(e) BY <1>3 DEF Orders
  <2>2. d \in Before(e) /\ d \notin Before(d) BY <1>3 DEF Orders
  <2>3. Cardinality(Before(d)) <= Cardinality(Before(e))
        /\ (Cardinality(Before(d)) = Cardinality(Before(e)) => Before(d) = Before(e))
    BY <1>2, <2>1, FS_Subset
  <2>4. Cardinality(Before(d)) # Cardinality(Before(e)) BY <2>2, <2>3
  <2> QED BY <1>2, <2>3, <2>4
<1> DEFINE rank == [d \in S |-> Cardinality(Before(d)) + 1]
<1>4. rank \in [S -> 1..k]
  <2>1. ASSUME NEW d \in S PROVE Cardinality(Before(d)) + 1 \in 1..k
    <3>1. PICK c : c = Cardinality(Before(d)) OBVIOUS
    <3>2. c \in Nat /\ c < k BY <1>2, <3>1
    <3>3. c + 1 \in 1..k BY <3>2
    <3> QED BY <3>1, <3>3
  <2> QED BY <2>1
<1>5. ASSUME NEW d \in S, NEW e \in S, <<d, e>> \in R PROVE rank[d] < rank[e]
  <2>1. PICK c, f : c = Cardinality(Before(d)) /\ f = Cardinality(Before(e)) OBVIOUS
  <2>2. rank[d] = c + 1 /\ rank[e] = f + 1 BY <2>1
  <2>3. c \in Nat /\ f \in Nat /\ c < f BY <1>2, <1>3, <1>5, <2>1
  <2> QED BY <2>2, <2>3
<1> HIDE DEF rank
<1>6. ASSUME NEW d \in S, NEW e \in S, rank[d] = rank[e] PROVE d = e
  <2>1. rank[d] \in Nat /\ rank[e] \in Nat BY <1>4
  <2>2. ~(rank[d] < rank[e]) /\ ~(rank[e] < rank[d]) BY <1>6, <2>1
  <2>3. <<d, e>> \notin R /\ <<e, d>> \notin R BY <1>5, <2>2
  <2> QED BY <2>3 DEF Orders
<1>7. rank \in Injection(S, 1..k) BY <1>4, <1>6 DEF Injection, IsInjective
<1>8. IsFiniteSet(1..k) /\ Cardinality(1..k) = k BY FS_Interval
<1>9. rank \in Surjection(S, 1..k) BY <1>1, <1>7, <1>8, FS_Injection
<1>10. \A n \in 1..k : \E d \in S : rank[d] = n BY <1>9 DEF Surjection
<1>11. PICK f : f = [n \in 1..k |-> CHOOSE d \in S : rank[d] = n] OBVIOUS
<1>12. \A n \in 1..k : f[n] \in S /\ rank[f[n]] = n BY <1>10, <1>11
<1>13. f \in [1..k -> S] BY <1>11, <1>12
<1>14. ASSUME NEW m \in 1..k, NEW n \in 1..k, m < n PROVE <<f[m], f[n]>> \in R
  <2>1. f[m] \in S /\ f[n] \in S /\ rank[f[m]] = m /\ rank[f[n]] = n BY <1>12
  <2>2. f[m] # f[n] BY <1>14, <2>1
  <2>3. <<f[n], f[m]>> \notin R BY <1>5, <1>14, <2>1
  <2> QED BY <2>1, <2>2, <2>3 DEF Orders
<1> QED BY <1>1, <1>13, <1>14 DEF Arranges

\* An arrangement has every element once.
LEMMA ArrangesOnce ==
    ASSUME NEW S, IsFiniteSet(S), NEW R, Orders(R, S), NEW f, Arranges(f, R, S)
    PROVE  /\ \A m, n \in 1..Cardinality(S) : f[m] = f[n] => m = n
           /\ \A x \in S : \E n \in 1..Cardinality(S) : f[n] = x
<1>1. PICK k \in Nat : k = Cardinality(S) BY FS_CardinalityType
<1>2. f \in [1..k -> S] BY <1>1 DEF Arranges
<1>3. ASSUME NEW m \in 1..k, NEW n \in 1..k, f[m] = f[n] PROVE m = n
  <2>1. f[m] \in S /\ f[n] \in S BY <1>2
  <2>2. ~(m < n) /\ ~(n < m) BY <1>1, <1>3, <2>1 DEF Arranges, Orders
  <2> QED BY <2>2
<1>4. f \in Injection(1..k, S) BY <1>2, <1>3 DEF Injection, IsInjective
<1>5. IsFiniteSet(1..k) /\ Cardinality(1..k) = k BY FS_Interval
<1>6. f \in Surjection(1..k, S) BY <1>1, <1>4, <1>5, FS_Injection
<1> QED BY <1>1, <1>3, <1>6 DEF Surjection

\* A finite set of naturals in its order has each of them once.
LEMMA InOrderIs ==
    ASSUME NEW S \in SUBSET Nat, IsFiniteSet(S)
    PROVE  /\ Cardinality(S) \in Nat
           /\ InOrder(S) \in [1..Cardinality(S) -> S]
           /\ \A m, n \in 1..Cardinality(S) : InOrder(S)[m] = InOrder(S)[n] => m = n
           /\ \A x \in S : \E n \in 1..Cardinality(S) : InOrder(S)[n] = x
<1>1. Orders(Below, S) BY DEF Orders, Below
<1> DEFINE P(f) == \A m, n \in 1..Cardinality(S) : m < n => f[m] < f[n]
<1>2. PICK f : Arranges(f, Below, S) BY <1>1, ArrangesSome
<1>3. f \in [1..Cardinality(S) -> S] /\ P(f) BY <1>2 DEF Arranges, Below
<1>4. PICK g : g = CHOOSE h \in [1..Cardinality(S) -> S] : P(h) BY Zenon
<1>5. g \in [1..Cardinality(S) -> S] /\ P(g) BY <1>3, <1>4, Zenon
<1>6. Arranges(g, Below, S) BY <1>5 DEF Arranges, Below
<1>7. InOrder(S) = g BY <1>4, Zenon DEF InOrder, Arranged
<1>8. Cardinality(S) \in Nat BY FS_CardinalityType
<1> QED BY <1>1, <1>5, <1>6, <1>7, <1>8, ArrangesOnce

-----------------------------------------------------------------------------
\* Sequences of events, whatever their elements.
IsSeq(s) == \E T : s \in Seq(T)

\* One more at the end.
LEMMA AppendIs ==
    ASSUME NEW s, IsSeq(s), NEW e
    PROVE  /\ IsSeq(Append(s, e)) /\ Len(s) \in Nat /\ Len(Append(s, e)) = Len(s) + 1
           /\ \A n \in 1..Len(s) : Append(s, e)[n] = s[n]
           /\ Append(s, e)[Len(s) + 1] = e
           /\ DOMAIN s = 1..Len(s)
<1>1. PICK T : s \in Seq(T) BY DEF IsSeq
<1>2. PICK U : U = T \cup {e} OBVIOUS
<1>3. s \in Seq(U) /\ e \in U BY <1>1, <1>2
<1>4. Append(s, e) \in Seq(U) BY <1>3
<1> QED BY <1>1, <1>3, <1>4 DEF IsSeq

\* The first one is taken.
LEMMA TailIs ==
    ASSUME NEW s, IsSeq(s), s # << >>
    PROVE  /\ IsSeq(Tail(s)) /\ Len(s) \in Nat /\ Len(s) >= 1 /\ Len(Tail(s)) = Len(s) - 1
           /\ \A n \in 1..Len(s) - 1 : Tail(s)[n] = s[n + 1]
           /\ Head(s) = s[1]
<1>1. PICK T : s \in Seq(T) BY DEF IsSeq
<1> QED BY <1>1 DEF IsSeq

\* One is taken out of the middle.
LEMMA RemoveIs ==
    ASSUME NEW s, IsSeq(s), NEW n \in 1..Len(s)
    PROVE  /\ IsSeq(RemoveAt(s, n)) /\ Len(s) \in Nat /\ Len(RemoveAt(s, n)) = Len(s) - 1
           /\ \A m \in 1..Len(s) - 1 : RemoveAt(s, n)[m] = IF m < n THEN s[m] ELSE s[m + 1]
<1>1. PICK T : s \in Seq(T) BY DEF IsSeq
<1>2. Len(s) \in Nat /\ n \in Nat /\ 1 <= n /\ n <= Len(s) BY <1>1
<1>3. PICK a, b : a = SubSeq(s, 1, n - 1) /\ b = SubSeq(s, n + 1, Len(s)) OBVIOUS
<1>4. a \in Seq(T) /\ Len(a) = n - 1 /\ \A m \in 1..n - 1 : a[m] = s[m]
  BY <1>1, <1>2, <1>3
<1>5. b \in Seq(T) /\ Len(b) = Len(s) - n /\ \A m \in 1..Len(s) - n : b[m] = s[n + m]
  BY <1>1, <1>2, <1>3
<1>6. RemoveAt(s, n) = a \o b BY <1>3 DEF RemoveAt
<1>7. a \o b \in Seq(T) /\ Len(a \o b) = Len(s) - 1
  <2>1. a \o b \in Seq(T) /\ Len(a \o b) = Len(a) + Len(b)
    BY <1>4, <1>5, ConcatProperties
  <2>2. (n - 1) + (Len(s) - n) = Len(s) - 1 BY <1>2
  <2> QED BY <1>4, <1>5, <2>1, <2>2
<1>8. ASSUME NEW m \in 1..Len(s) - 1 PROVE (a \o b)[m] = IF m < n THEN s[m] ELSE s[m + 1]
  <2>1. CASE m < n
    <3>1. m \in 1..n - 1 /\ m <= Len(a) BY <1>2, <1>4, <2>1
    <3>2. (a \o b)[m] = a[m] BY <1>4, <1>5, <3>1
    <3> QED BY <1>4, <2>1, <3>1, <3>2
  <2>2. CASE ~(m < n)
    <3>1. m - Len(a) \in 1..Len(s) - n /\ n + (m - Len(a)) = m + 1 /\ m > Len(a)
          /\ m \in 1..Len(a) + Len(b)
      BY <1>2, <1>4, <1>5, <2>2
    <3>2. (a \o b)[m] = b[m - Len(a)] BY <1>4, <1>5, <3>1
    <3> QED BY <1>5, <2>2, <3>1, <3>2
  <2> QED BY <2>1, <2>2
<1> QED BY <1>2, <1>6, <1>7, <1>8 DEF IsSeq

-----------------------------------------------------------------------------
\* The thread.

Msg == [id : Nat, body : Bodies]

\* Messages of the log, no message of the peer twice.
ThreadOK(t, L) ==
    /\ t \in Seq(Msg)
    /\ \A n \in 1..Len(t) : t[n].id \in 1..Len(L)
    /\ \A m, n \in 1..Len(t) : m # n /\ t[m].id = t[n].id => L[t[m].id].by = "me"

\* u has elements of t, each at most once.
Picks(u, t, p) ==
    /\ p \in [1..Len(u) -> 1..Len(t)]
    /\ \A m, n \in 1..Len(u) : p[m] = p[n] => m = n
    /\ \A n \in 1..Len(u) : u[n] = t[p[n]]

\* What is picked from a thread is one.
LEMMA PicksOK ==
    ASSUME NEW L, NEW t, ThreadOK(t, L), NEW u \in Seq(Msg), NEW p, Picks(u, t, p)
    PROVE  ThreadOK(u, L)
<1>1. ASSUME NEW n \in 1..Len(u) PROVE p[n] \in 1..Len(t) /\ u[n].id = t[p[n]].id
  BY DEF Picks
<1>2. ASSUME NEW m \in 1..Len(u), NEW n \in 1..Len(u), m # n PROVE p[m] # p[n]
  BY <1>2 DEF Picks
<1>3. \A n \in 1..Len(u) : u[n].id \in 1..Len(L) BY <1>1 DEF ThreadOK
<1>4. ASSUME NEW m \in 1..Len(u), NEW n \in 1..Len(u), m # n, u[m].id = u[n].id
      PROVE  L[u[m].id].by = "me"
  <2>1. p[m] \in 1..Len(t) /\ p[n] \in 1..Len(t) /\ p[m] # p[n] BY <1>1, <1>2, <1>4
  <2>2. t[p[m]].id = t[p[n]].id /\ u[m].id = t[p[m]].id BY <1>1, <1>4
  <2> QED BY <2>1, <2>2 DEF ThreadOK
<1> QED BY <1>3, <1>4 DEF ThreadOK

\* Vec::retain keeps what is at its places.
LEMMA RetainedIs ==
    ASSUME NEW T, NEW s \in Seq(T), NEW places \in SUBSET (1..Len(s))
    PROVE  /\ Retained(s, places) \in Seq(T)
           /\ \E p : Picks(Retained(s, places), s, p)
           /\ \A n \in 1..Len(Retained(s, places)) :
                 \E x \in places : Retained(s, places)[n] = s[x]
           /\ \A x \in places :
                 \E n \in 1..Len(Retained(s, places)) : Retained(s, places)[n] = s[x]
<1>1. Len(s) \in Nat /\ IsFiniteSet(1..Len(s)) BY FS_Interval
<1>2. places \in SUBSET Nat /\ IsFiniteSet(places)
  <2>1. ASSUME NEW x \in places PROVE x \in 1..Len(s) /\ x \in Nat BY <1>1
  <2>2. places \subseteq Nat /\ places \subseteq 1..Len(s) BY <2>1
  <2> QED BY <1>1, <2>2, FS_Subset
<1>3. PICK at : at = InOrder(places) OBVIOUS
<1>4. PICK k \in Nat : k = Cardinality(places) BY <1>2, InOrderIs
<1>5. /\ at \in [1..k -> places] /\ \A m, n \in 1..k : at[m] = at[n] => m = n
      /\ \A x \in places : \E n \in 1..k : at[n] = x
  BY <1>2, <1>3, <1>4, InOrderIs
<1>6. PICK u : u = [n \in 1..k |-> s[at[n]]] OBVIOUS
<1>7. Retained(s, places) = u
  <2>1. DOMAIN at = 1..k BY <1>5
  <2> QED BY <1>3, <1>6, <2>1 DEF Retained
<1>8. \A n \in 1..k : at[n] \in places /\ at[n] \in 1..Len(s) /\ s[at[n]] \in T
  <2> SUFFICES ASSUME NEW n \in 1..k
               PROVE  at[n] \in places /\ at[n] \in 1..Len(s) /\ s[at[n]] \in T
    OBVIOUS
  <2>1. at[n] \in places BY <1>5
  <2>2. PICK x : x = at[n] OBVIOUS
  <2>3. x \in 1..Len(s) BY <2>1, <2>2
  <2>4. s[x] \in T BY <2>3
  <2> QED BY <2>1, <2>2, <2>3, <2>4
<1>9. u \in Seq(T) /\ Len(u) = k
  <2>1. u \in [1..k -> T] BY <1>6, <1>8
  <2> QED BY <2>1
<1>10. Picks(u, s, at)
  <2>1. at \in [1..k -> 1..Len(s)] BY <1>5, <1>8
  <2> QED BY <1>5, <1>6, <1>9, <2>1 DEF Picks
<1>11. \A n \in 1..k : \E x \in places : u[n] = s[x] BY <1>6, <1>8
<1>12. \A x \in places : \E n \in 1..k : u[n] = s[x] BY <1>5, <1>6
<1> QED BY <1>7, <1>9, <1>10, <1>11, <1>12

\* Sorting a thread by time.
LEMMA SortOK == ASSUME NEW L, NEW t, ThreadOK(t, L) PROVE ThreadOK(ByTime(t), L)
<1>1. PICK k \in Nat : k = Len(t) /\ DOMAIN t = 1..k BY DEF ThreadOK
<1>2. IsFiniteSet(1..k) /\ Cardinality(1..k) = k BY FS_Interval
<1>3. \A n \in 1..k : t[n].id \in Nat BY <1>1 DEF ThreadOK, Msg
<1> DEFINE S == 1..k
           R == {ss \in S \X S : Earlier(t, ss[1], ss[2])}
<1>4. \A m, n \in S : <<m, n>> \in R <=> Earlier(t, m, n) OBVIOUS
<1>5. Orders(R, S)
  <2>1. \A m \in S : ~Earlier(t, m, m) BY <1>3 DEF Earlier
  <2>2. \A m, n \in S : m # n => Earlier(t, m, n) \/ Earlier(t, n, m) BY <1>3 DEF Earlier
  <2>3. \A l, m, n \in S : Earlier(t, l, m) /\ Earlier(t, m, n) => Earlier(t, l, n)
    BY <1>3 DEF Earlier
  <2> HIDE DEF R
  <2> QED BY <1>4, <2>1, <2>2, <2>3 DEF Orders
<1> HIDE DEF R
<1> DEFINE P(f) == \A m, n \in 1..Cardinality(S) : m < n => Earlier(t, f[m], f[n])
<1>6. PICK f : Arranges(f, R, S) BY <1>2, <1>5, ArrangesSome
<1>7. f \in [1..Cardinality(S) -> S] /\ P(f)
  <2>1. f \in [1..k -> S] BY <1>2, <1>6 DEF Arranges
  <2> QED BY <1>2, <1>4, <1>6, <2>1 DEF Arranges
<1>8. PICK g : g = CHOOSE h \in [1..Cardinality(S) -> S] : P(h) BY Zenon
<1>9. g \in [1..Cardinality(S) -> S] /\ P(g) BY <1>7, <1>8, Zenon
<1>10. Arranges(g, R, S)
  <2>1. g \in [1..k -> S] BY <1>2, <1>9
  <2> QED BY <1>2, <1>4, <1>9, <2>1 DEF Arranges
<1>11. g \in [1..k -> 1..k] /\ \A m, n \in 1..k : g[m] = g[n] => m = n
  BY <1>2, <1>5, <1>9, <1>10, ArrangesOnce
<1>12. PICK u : u = [n \in 1..k |-> t[g[n]]] OBVIOUS
<1>13. ByTime(t) = u
  <2>1. Arranged(1..k, LAMBDA m, n : Earlier(t, m, n)) = g BY <1>8, Zenon DEF Arranged
  <2> QED BY <1>1, <1>12, <2>1 DEF ByTime
<1>14. u \in Seq(Msg) /\ Len(u) = k
  <2>1. \A n \in 1..k : t[g[n]] \in Msg BY <1>1, <1>11 DEF ThreadOK
  <2>2. u \in [1..k -> Msg] BY <1>12, <2>1
  <2> QED BY <2>2
<1>15. Picks(u, t, g) BY <1>1, <1>11, <1>12, <1>14 DEF Picks
<1> QED BY <1>13, <1>14, <1>15, PicksOK

\* A thread stays one when the log grows.
LEMMA ThreadGrows ==
    ASSUME NEW L, IsSeq(L), NEW x, NEW t, ThreadOK(t, L) PROVE ThreadOK(t, Append(L, x))
<1>1. PICK M : M = Append(L, x) OBVIOUS
<1>2. /\ Len(L) \in Nat /\ Len(M) = Len(L) + 1 /\ \A n \in 1..Len(L) : M[n] = L[n]
  BY <1>1, AppendIs
<1>3. \A n \in 1..Len(t) : t[n].id \in 1..Len(L) /\ t[n].id \in 1..Len(M)
  BY <1>2 DEF ThreadOK
<1>4. \A m, n \in 1..Len(t) : m # n /\ t[m].id = t[n].id => M[t[m].id].by = "me"
  BY <1>2, <1>3 DEF ThreadOK
<1> QED BY <1>1, <1>3, <1>4 DEF ThreadOK

\* push_capped of a message that is new, or ours.
LEMMA PushOK ==
    ASSUME NEW L, NEW t, ThreadOK(t, L), NEW m \in Msg, m.id \in 1..Len(L),
           Has(t, m.id) => L[m.id].by = "me"
    PROVE  ThreadOK(PushCapped(t, m), L)
<1>1. PICK k \in Nat : k = Len(t) /\ DOMAIN t = 1..k BY DEF ThreadOK
<1>2. PICK u : u = Append(t, m) OBVIOUS
<1>3. u \in Seq(Msg) /\ Len(u) = k + 1 /\ u[k + 1] = m /\ \A n \in 1..k : u[n] = t[n]
  BY <1>1, <1>2 DEF ThreadOK
<1>4. ThreadOK(u, L)
  <2>1. ASSUME NEW n \in 1..(k + 1) PROVE u[n].id \in 1..Len(L)
    <3>1. CASE n \in 1..k BY <1>1, <1>3, <3>1 DEF ThreadOK
    <3>2. CASE n = k + 1 BY <1>3, <3>2
    <3> QED BY <3>1, <3>2
  <2>2. ASSUME NEW a \in 1..(k + 1), NEW b \in 1..(k + 1), a # b, u[a].id = u[b].id
        PROVE  L[u[a].id].by = "me"
    <3>1. CASE a \in 1..k /\ b \in 1..k BY <1>1, <1>3, <2>2, <3>1 DEF ThreadOK
    <3>2. CASE a = k + 1 /\ b \in 1..k
      <4>1. Has(t, m.id) BY <1>1, <1>3, <2>2, <3>2 DEF Has
      <4> QED BY <1>3, <3>2, <4>1
    <3>3. CASE b = k + 1 /\ a \in 1..k
      <4>1. Has(t, m.id) BY <1>1, <1>3, <2>2, <3>3 DEF Has
      <4> QED BY <1>3, <2>2, <3>3, <4>1
    <3> QED BY <2>2, <3>1, <3>2, <3>3
  <2> QED BY <1>3, <2>1, <2>2 DEF ThreadOK
<1>5. CASE ~(Len(u) - ThreadCap > 0) BY <1>2, <1>4, <1>5 DEF PushCapped
<1>6. CASE Len(u) - ThreadCap > 0
  <2>1. PICK c \in Nat : c = ThreadCap /\ c >= 1 BY HistoryAssumption
  <2>2. PICK x \in Nat : x = Len(u) - c /\ x < Len(u) BY <1>3, <1>6, <2>1
  <2>3. PICK v : v = SubSeq(u, x + 1, Len(u)) OBVIOUS
  <2>4. v \in Seq(Msg) /\ Len(v) = Len(u) - x /\ \A n \in 1..Len(u) - x : v[n] = u[n + x]
    <3>1. PICK N \in Nat : N = Len(u) BY <1>3
    <3>2. x + 1 \in 1..N + 1 /\ N \in (x + 1) - 1..N /\ N - (x + 1) + 1 = N - x BY <2>2, <3>1
    <3>3. /\ v \in Seq(Msg) /\ Len(v) = N - (x + 1) + 1
          /\ \A n \in 1..N - (x + 1) + 1 : v[n] = u[(x + 1) + n - 1]
      BY <1>3, <2>3, <3>1, <3>2, SubSeqProperties
    <3>4. \A n \in 1..N - x : (x + 1) + n - 1 = n + x BY <3>1
    <3> QED BY <3>1, <3>2, <3>3, <3>4
  <2>5. PICK p : p = [n \in 1..Len(v) |-> n + x] OBVIOUS
  <2>6. Picks(v, u, p)
    <3>1. \A n \in 1..Len(v) : n + x \in 1..Len(u) BY <1>3, <2>2, <2>4
    <3>2. \A a, b \in 1..Len(v) : p[a] = p[b] => a = b BY <1>3, <2>2, <2>4, <2>5
    <3>3. p \in [1..Len(v) -> 1..Len(u)] BY <2>5, <3>1
    <3>4. \A n \in 1..Len(v) : v[n] = u[p[n]] BY <2>4, <2>5
    <3> QED BY <3>2, <3>3, <3>4 DEF Picks
  <2>7. PushCapped(t, m) = v BY <1>2, <1>6, <2>1, <2>2, <2>3 DEF PushCapped
  <2> QED BY <1>4, <2>4, <2>6, <2>7, PicksOK
<1> QED BY <1>5, <1>6

\* insert_or_replace_message and insert_offline_messages.
LEMMA InsertOK ==
    ASSUME NEW L, NEW t, ThreadOK(t, L), NEW m \in Msg, m.id \in 1..Len(L)
    PROVE  ThreadOK(Insert(t, m), L)
BY PushOK DEF Insert

\* Messages of the log, none twice: what a fetch response has.
BatchOK(b, L) ==
    /\ b \in Seq(Msg)
    /\ \A n \in 1..Len(b) : b[n].id \in 1..Len(L)
    /\ \A m, n \in 1..Len(b) : b[m].id = b[n].id => m = n

\* merge_decrypted_messages adds what the thread does not have.
LEMMA MergeOK ==
    ASSUME NEW L, NEW t, ThreadOK(t, L), NEW b, BatchOK(b, L)
    PROVE  ThreadOK(Unseen(b, t) \o t, L)
<1>1. PICK k \in Nat : k = Len(t) /\ DOMAIN t = 1..k BY DEF ThreadOK
<1>2. PICK places : places = {n \in DOMAIN b : ~Has(t, b[n].id)} OBVIOUS
<1>3. b \in Seq(Msg) /\ DOMAIN b = 1..Len(b) BY DEF BatchOK
<1>4. places \in SUBSET (1..Len(b)) BY <1>2, <1>3
<1>5. PICK u : u = Unseen(b, t) /\ u = Retained(b, places) BY <1>2 DEF Unseen
<1>6. /\ u \in Seq(Msg) /\ \E p : Picks(u, b, p)
      /\ \A n \in 1..Len(u) : \E x \in places : u[n] = b[x]
  BY <1>3, <1>4, <1>5, RetainedIs
<1>7. PICK p : Picks(u, b, p) BY <1>6
<1>8. PICK l \in Nat : l = Len(u) BY <1>6
<1>9. ASSUME NEW n \in 1..l PROVE u[n].id \in 1..Len(L) /\ ~Has(t, u[n].id)
  <2>1. PICK x \in places : u[n] = b[x] BY <1>6, <1>8
  <2>2. x \in 1..Len(b) /\ ~Has(t, b[x].id) BY <1>2, <1>3
  <2> QED BY <2>1, <2>2 DEF BatchOK
<1>10. ASSUME NEW m \in 1..l, NEW n \in 1..l, u[m].id = u[n].id PROVE m = n
  <2>1. p[m] \in 1..Len(b) /\ p[n] \in 1..Len(b) /\ u[m] = b[p[m]] /\ u[n] = b[p[n]]
    BY <1>7, <1>8 DEF Picks
  <2>2. p[m] = p[n] BY <1>10, <2>1 DEF BatchOK
  <2> QED BY <1>7, <1>8, <2>2 DEF Picks
<1>11. PICK v : v = u \o t OBVIOUS
<1>12. t \in Seq(Msg) BY DEF ThreadOK
<1>13. v \in Seq(Msg) /\ Len(v) = l + k BY <1>1, <1>6, <1>8, <1>11, <1>12, ConcatProperties
<1>14. \A n \in 1..l : v[n] = u[n] BY <1>1, <1>6, <1>8, <1>11, <1>12, ConcatProperties
<1>15. \A n \in (l + 1)..(l + k) : v[n] = t[n - l] /\ n - l \in 1..k
  BY <1>1, <1>6, <1>8, <1>11, <1>12, ConcatProperties
<1>16. ASSUME NEW n \in 1..(l + k) PROVE v[n].id \in 1..Len(L)
  <2>1. CASE n \in 1..l BY <1>9, <1>14, <2>1
  <2>2. CASE n \in (l + 1)..(l + k) BY <1>1, <1>15, <2>2 DEF ThreadOK
  <2> QED BY <2>1, <2>2
<1>17. ASSUME NEW m \in 1..l, NEW n \in (l + 1)..(l + k) PROVE v[m].id # v[n].id
  <2>1. v[m] = u[m] /\ ~Has(t, u[m].id) BY <1>9, <1>14
  <2>2. v[n] = t[n - l] /\ n - l \in 1..k BY <1>15
  <2> QED BY <1>1, <2>1, <2>2 DEF Has
<1>18. ASSUME NEW m \in 1..(l + k), NEW n \in 1..(l + k), m # n, v[m].id = v[n].id
       PROVE  L[v[m].id].by = "me"
  <2>1. CASE m \in 1..l /\ n \in 1..l BY <1>10, <1>14, <1>18, <2>1
  <2>2. CASE m \in 1..l /\ n \in (l + 1)..(l + k) BY <1>17, <1>18, <2>2
  <2>3. CASE n \in 1..l /\ m \in (l + 1)..(l + k)
    <3>1. v[n].id # v[m].id BY <1>17, <2>3
    <3> QED BY <1>18, <3>1
  <2>4. CASE m \in (l + 1)..(l + k) /\ n \in (l + 1)..(l + k)
    <3>1. /\ v[m] = t[m - l] /\ m - l \in 1..k /\ v[n] = t[n - l] /\ n - l \in 1..k
          /\ m - l # n - l
      BY <1>15, <1>18, <2>4
    <3> QED BY <1>1, <1>18, <3>1 DEF ThreadOK
  <2> QED BY <2>1, <2>2, <2>3, <2>4
<1> QED BY <1>5, <1>11, <1>13, <1>16, <1>18 DEF ThreadOK

-----------------------------------------------------------------------------
\* The stash and the offline queue.

\* What is in a sequence is at some place of it.
LEMMA ToSetIs ==
    ASSUME NEW T, NEW s \in Seq(T)
    PROVE  /\ \A n \in 1..Len(s) : s[n] \in ToSet(s)
           /\ \A x \in ToSet(s) : \E n \in 1..Len(s) : s[n] = x
           /\ ToSet(s) \subseteq T
BY DEF ToSet

\* One more is one more.
LEMMA ToSetAppend ==
    ASSUME NEW t \in Seq(Nat), NEW i \in Nat
    PROVE  Append(t, i) \in Seq(Nat) /\ ToSet(Append(t, i)) = ToSet(t) \cup {i}
<1>1. PICK u : u = Append(t, i) OBVIOUS
<1>2. /\ u \in Seq(Nat) /\ Len(t) \in Nat /\ Len(u) = Len(t) + 1 /\ u[Len(t) + 1] = i
      /\ \A n \in 1..Len(t) : u[n] = t[n]
  BY <1>1
<1>3. ASSUME NEW x \in ToSet(t) PROVE x \in ToSet(u)
  <2>1. PICK n \in 1..Len(t) : t[n] = x BY ToSetIs
  <2>2. n \in 1..Len(u) /\ u[n] = x BY <1>2, <2>1
  <2> QED BY <1>2, <2>2, ToSetIs
<1>4. i \in ToSet(u)
  <2>1. Len(t) + 1 \in 1..Len(u) BY <1>2
  <2> QED BY <1>2, <2>1, ToSetIs
<1>5. ASSUME NEW x \in ToSet(u) PROVE x \in ToSet(t) \cup {i}
  <2>1. PICK n \in 1..Len(u) : u[n] = x BY <1>2, ToSetIs
  <2>2. CASE n = Len(t) + 1 BY <1>2, <2>1, <2>2
  <2>3. CASE n \in 1..Len(t) BY <1>2, <2>1, <2>3, ToSetIs
  <2> QED BY <1>2, <2>2, <2>3
<1> QED BY <1>1, <1>2, <1>3, <1>4, <1>5

\* stash_signal_envelope keeps what is there but for what it drops.
LEMMA StashKeeps ==
    ASSUME NEW s \in Seq(Nat), NEW i \in Nat
    PROVE  /\ Stash(s, i) \in Seq(Nat)
           /\ ToSet(s) \cup {i} \subseteq ToSet(Stash(s, i)) \cup StashDrops(s)
           /\ ToSet(Stash(s, i)) \subseteq ToSet(s) \cup {i}
<1>1. PICK c \in Nat : c = StashCap /\ c >= 1 BY HistoryAssumption
<1>2. PICK t : t = IF Len(s) >= c THEN Tail(s) ELSE s OBVIOUS
<1>3. /\ t \in Seq(Nat) /\ ToSet(t) \subseteq ToSet(s)
      /\ ToSet(s) \subseteq ToSet(t) \cup StashDrops(s)
  <2>1. CASE ~(Len(s) >= c) BY <1>2, <2>1
  <2>2. CASE Len(s) >= c
    <3>1. Len(s) \in Nat /\ Len(s) >= 1 /\ s # << >> /\ t = Tail(s) BY <1>1, <1>2, <2>2
    <3>2. t \in Seq(Nat) /\ Len(t) = Len(s) - 1 /\ \A n \in 1..Len(s) - 1 : t[n] = s[n + 1]
      BY <3>1
    <3>3. StashDrops(s) = {s[1]} BY <1>1, <2>2, <3>1 DEF StashDrops
    <3>4. ASSUME NEW n \in 1..Len(s) PROVE s[n] \in ToSet(t) \cup StashDrops(s)
      <4>1. CASE n = 1 BY <3>3, <4>1
      <4>2. CASE n # 1
        <5>1. n - 1 \in 1..Len(t) /\ t[n - 1] = s[n] BY <3>1, <3>2, <4>2
        <5> QED BY <3>2, <5>1 DEF ToSet
      <4> QED BY <4>1, <4>2
    <3>5. ASSUME NEW n \in 1..Len(t) PROVE t[n] \in ToSet(s)
      <4>1. n + 1 \in 1..Len(s) /\ t[n] = s[n + 1] BY <3>1, <3>2
      <4> QED BY <4>1 DEF ToSet
    <3>6. ASSUME NEW x \in ToSet(s) PROVE x \in ToSet(t) \cup StashDrops(s)
      <4>1. PICK n \in 1..Len(s) : s[n] = x BY ToSetIs
      <4> QED BY <3>4, <4>1
    <3>7. ASSUME NEW x \in ToSet(t) PROVE x \in ToSet(s)
      <4>1. PICK n \in 1..Len(t) : t[n] = x BY <3>2, ToSetIs
      <4> QED BY <3>5, <4>1
    <3> QED BY <3>2, <3>6, <3>7
  <2> QED BY <2>1, <2>2
<1>4. Stash(s, i) = Append(t, i) BY <1>1, <1>2 DEF Stash
<1>5. Append(t, i) \in Seq(Nat) /\ ToSet(Append(t, i)) = ToSet(t) \cup {i} BY <1>3, ToSetAppend
<1> QED BY <1>3, <1>4, <1>5

\* The states of a drain: f[n] is the state after n messages.
Drains(f, b, ids, readable, N) ==
    f = [n \in 0..N |-> IF n = 0 THEN b ELSE DrainStep(ids[n], n \in readable, f[n - 1])]

\* There are such states for a queue of any length.
LEMMA DrainsSome ==
    ASSUME NEW b, NEW ids, NEW readable, NEW N \in Nat PROVE \E f : Drains(f, b, ids, readable, N)
<1> DEFINE T == {k \in Nat : \E f : Drains(f, b, ids, readable, k)}
<1>1. 0 \in T
  <2>1. PICK f : f = [k \in 0..0 |-> b] OBVIOUS
  <2>2. ASSUME NEW k \in 0..0 PROVE k = 0 OBVIOUS
  <2>3. Drains(f, b, ids, readable, 0) BY <2>1, <2>2 DEF Drains
  <2> QED BY <2>3
<1>2. ASSUME NEW k \in Nat, k \in T PROVE k + 1 \in T
  <2>1. PICK f : Drains(f, b, ids, readable, k) BY <1>2
  <2>2. PICK g : g = [i \in 0..(k + 1) |->
                IF i <= k THEN f[i] ELSE DrainStep(ids[k + 1], k + 1 \in readable, f[k])]
    OBVIOUS
  <2>3. ASSUME NEW i \in 0..(k + 1)
        PROVE  g[i] = IF i = 0 THEN b ELSE DrainStep(ids[i], i \in readable, g[i - 1])
    <3>1. i # 0 => i - 1 \in 0..(k + 1) /\ i - 1 <= k /\ i - 1 \in 0..k OBVIOUS
    <3>2. i # 0 => g[i - 1] = f[i - 1] BY <2>2, <3>1
    <3>3. CASE i <= k
      <4>1. i \in 0..k /\ g[i] = f[i] BY <2>2, <3>3
      <4>2. f[i] = IF i = 0 THEN b ELSE DrainStep(ids[i], i \in readable, f[i - 1])
        BY <2>1, <4>1 DEF Drains
      <4> QED BY <3>2, <4>1, <4>2
    <3>4. CASE ~(i <= k)
      <4>1. i = k + 1 /\ i - 1 = k /\ i # 0 BY <3>4
      <4>2. g[i] = DrainStep(ids[k + 1], k + 1 \in readable, f[k]) BY <2>2, <3>4
      <4> QED BY <3>2, <4>1, <4>2
    <3> QED BY <3>3, <3>4
  <2>4. g = [i \in 0..(k + 1) |-> g[i]] BY <2>2
  <2>5. Drains(g, b, ids, readable, k + 1) BY <2>3, <2>4 DEF Drains
  <2> QED BY <2>5
<1> HIDE DEF T
<1>3. N \in T BY <1>1, <1>2, Induction
<1> QED BY <1>3 DEF T

\* In each of them the thread is one, and what was in the stash, or was to be
\* read and could not, is in the stash or was dropped from it.
DrainOK(st, L, owed) ==
    /\ ThreadOK(st.thread, L)
    /\ st.stash \in Seq(Nat) /\ ToSet(st.stash) \subseteq 1..Len(L)
    /\ owed \subseteq ToSet(st.stash) \cup st.lost

\* One message more.
LEMMA DrainStepOK ==
    ASSUME NEW L, NEW st, NEW owed, DrainOK(st, L, owed), NEW i \in 1..Len(L), i \in Nat,
           NEW ok \in BOOLEAN
    PROVE  DrainOK(DrainStep(i, ok, st), L, IF ok THEN owed ELSE owed \cup {i})
<1>1. PICK m : m = [id |-> i, body |-> IF ok THEN "text" ELSE "placeholder"] OBVIOUS
<1>2. m \in Msg /\ m.id \in 1..Len(L) BY <1>1 DEF Msg, Bodies
<1>3. PICK t : t = Insert(st.thread, m) OBVIOUS
<1>4. ThreadOK(t, L) BY <1>2, <1>3, InsertOK DEF DrainOK
<1>5. PICK r : r = DrainStep(i, ok, st) OBVIOUS
<1>6. /\ r.thread = t
      /\ r.stash = IF ok THEN st.stash ELSE Stash(st.stash, i)
      /\ r.lost = IF ok THEN st.lost ELSE st.lost \cup StashDrops(st.stash)
  BY <1>1, <1>3, <1>5 DEF DrainStep, DrainStash
<1>7. CASE ok BY <1>4, <1>5, <1>6, <1>7 DEF DrainOK
<1>8. CASE ~ok
  <2>1. /\ Stash(st.stash, i) \in Seq(Nat)
        /\ ToSet(st.stash) \cup {i} \subseteq ToSet(Stash(st.stash, i)) \cup StashDrops(st.stash)
        /\ ToSet(Stash(st.stash, i)) \subseteq ToSet(st.stash) \cup {i}
    BY StashKeeps DEF DrainOK
  <2> QED BY <1>4, <1>5, <1>6, <1>8, <2>1 DEF DrainOK
<1> QED BY <1>7, <1>8

\* What of a queue could not be read.
Unread(ids, readable) == {ids[n] : n \in {m \in 1..Len(ids) : m \notin readable}}

\* The whole queue.
LEMMA DrainsOK ==
    ASSUME NEW L, NEW b, NEW ids \in Seq(Nat), ToSet(ids) \subseteq 1..Len(L), NEW readable,
           NEW owed, DrainOK(b, L, owed), NEW f, Drains(f, b, ids, readable, Len(ids))
    PROVE  DrainOK(f[Len(ids)], L, owed \cup Unread(ids, readable))
<1> DEFINE Due(k) == owed \cup {ids[n] : n \in {m \in 1..k : m \notin readable}}
           T == {k \in Nat : k <= Len(ids) => DrainOK(f[k], L, Due(k))}
<1>1. PICK N \in Nat : N = Len(ids) OBVIOUS
<1>2. \A k \in 0..N : f[k] = IF k = 0 THEN b ELSE DrainStep(ids[k], k \in readable, f[k - 1])
  BY <1>1 DEF Drains
<1>3. 0 \in T
  <2>1. Due(0) = owed OBVIOUS
  <2>2. f[0] = b
    <3>1. 0 \in 0..N OBVIOUS
    <3> QED BY <1>2, <3>1
  <2> QED BY <2>1, <2>2
<1>4. ASSUME NEW k \in Nat, k \in T PROVE k + 1 \in T
  <2> SUFFICES ASSUME k + 1 <= N PROVE DrainOK(f[k + 1], L, Due(k + 1)) BY <1>1
  <2>1. k <= N /\ k + 1 \in 0..N /\ k + 1 # 0 /\ (k + 1) - 1 = k /\ k + 1 \in 1..N OBVIOUS
  <2>2. f[k + 1] = DrainStep(ids[k + 1], k + 1 \in readable, f[k]) BY <1>2, <2>1
  <2>3. DrainOK(f[k], L, Due(k)) BY <1>1, <1>4, <2>1
  <2>4. PICK i : i = ids[k + 1] OBVIOUS
  <2>5. i \in Nat /\ i \in 1..Len(L) BY <1>1, <2>1, <2>4 DEF ToSet
  <2>6. \A m : m \in 1..(k + 1) <=> m \in 1..k \/ m = k + 1 BY <2>1
  <2>7. CASE k + 1 \in readable
    <3>1. f[k + 1] = DrainStep(i, TRUE, f[k]) BY <2>2, <2>4, <2>7 DEF DrainStep
    <3>2. Due(k + 1) = Due(k) BY <2>6, <2>7
    <3> HIDE DEF Due
    <3>3. DrainOK(DrainStep(i, TRUE, f[k]), L, Due(k)) BY <2>3, <2>5, DrainStepOK
    <3> QED BY <3>1, <3>2, <3>3
  <2>8. CASE k + 1 \notin readable
    <3>1. f[k + 1] = DrainStep(i, FALSE, f[k]) BY <2>2, <2>4, <2>8 DEF DrainStep
    <3>2. Due(k + 1) = Due(k) \cup {i} BY <2>4, <2>6, <2>8
    <3> HIDE DEF Due
    <3>3. DrainOK(DrainStep(i, FALSE, f[k]), L, Due(k) \cup {i}) BY <2>3, <2>5, DrainStepOK
    <3> QED BY <3>1, <3>2, <3>3
  <2> QED BY <2>7, <2>8
<1> HIDE DEF T
<1>5. N \in T BY <1>3, <1>4, Induction
<1>6. DrainOK(f[N], L, Due(N)) BY <1>1, <1>5 DEF T
<1>7. Due(N) = owed \cup Unread(ids, readable) BY <1>1 DEF Unread
<1> QED BY <1>1, <1>6, <1>7

-----------------------------------------------------------------------------
\* What is under way.

\* Messages the server has yet to relay, and messages of events on their way.
Coming(p) == {i \in Nat : \E n \in 1..Len(p) : p[n].kind = "message" /\ p[n].id = i}
Brings(e, i) == \/ e.kind = "deliver" /\ e.id = i
                \/ e.kind = "drain" /\ i \in ToSet(e.ids)
Arriving(d) == {i \in Nat : \E n \in 1..Len(d) : Brings(d[n], i)}

\* Messages of the log, none twice.
ListOK(ids, L) ==
    /\ ids \in Seq(Nat)
    /\ \A n \in 1..Len(ids) : ids[n] \in 1..Len(L)
    /\ \A m, n \in 1..Len(ids) : ids[m] = ids[n] => m = n

\* An event speaks of messages of the log.
EventOK(e, L) ==
    /\ e.kind = "deliver" => e.id \in 1..Len(L)
    /\ e.kind = "fetched" => ListOK(e.ids, L)

\* A drain comes first, and what it brings is queued until it is handled.
DrainFirst(d, q) ==
    \A n \in 1..Len(d) : d[n].kind = "drain" =>
        n = 1 /\ d[n].ids \in Seq(Nat) /\ ToSet(d[n].ids) \subseteq ToSet(q)

EventsOK(d, q, L) ==
    IsSeq(d) /\ (\A n \in 1..Len(d) : EventOK(d[n], L)) /\ DrainFirst(d, q)

\* An announcement more.
LEMMA ComingMore ==
    ASSUME NEW p, IsSeq(p), NEW e
    PROVE  /\ Coming(p) \subseteq Coming(Append(p, e))
           /\ e.kind = "message" /\ e.id \in Nat => e.id \in Coming(Append(p, e))
<1>1. PICK q : q = Append(p, e) OBVIOUS
<1>2. /\ Len(p) \in Nat /\ Len(q) = Len(p) + 1 /\ \A n \in 1..Len(p) : q[n] = p[n]
      /\ q[Len(p) + 1] = e
  BY <1>1, AppendIs
<1>3. \A n \in 1..Len(p) : n \in 1..Len(q) BY <1>2
<1>4. Len(p) + 1 \in 1..Len(q) BY <1>2
<1>5. Coming(p) \subseteq Coming(q) BY <1>2, <1>3 DEF Coming
<1>6. e.kind = "message" /\ e.id \in Nat => e.id \in Coming(q) BY <1>2, <1>4 DEF Coming
<1> QED BY <1>1, <1>5, <1>6

\* An announcement less.
LEMMA ComingLess ==
    ASSUME NEW p, IsSeq(p), NEW n \in 1..Len(p), NEW i \in Coming(p)
    PROVE  i \in Coming(RemoveAt(p, n)) \/ (p[n].kind = "message" /\ p[n].id = i)
<1>1. PICK q : q = RemoveAt(p, n) OBVIOUS
<1>2. /\ Len(p) \in Nat /\ Len(q) = Len(p) - 1
      /\ \A m \in 1..Len(p) - 1 : q[m] = IF m < n THEN p[m] ELSE p[m + 1]
  BY <1>1, RemoveIs
<1>3. i \in Nat /\ \E m \in 1..Len(p) : p[m].kind = "message" /\ p[m].id = i BY DEF Coming
<1>4. PICK m \in 1..Len(p) : p[m].kind = "message" /\ p[m].id = i BY <1>3
<1>5. CASE m < n
  <2>1. m \in 1..Len(q) /\ q[m] = p[m] BY <1>2, <1>5
  <2> QED BY <1>1, <1>3, <1>4, <2>1 DEF Coming
<1>6. CASE m > n
  <2>1. m - 1 \in 1..Len(q) /\ ~(m - 1 < n) /\ (m - 1) + 1 = m BY <1>2, <1>6
  <2>2. q[m - 1] = p[m] BY <1>2, <2>1
  <2> QED BY <1>1, <1>3, <1>4, <2>1, <2>2 DEF Coming
<1>7. CASE m = n BY <1>4, <1>7
<1>8. m \in Nat /\ n \in Nat BY <1>2
<1> QED BY <1>5, <1>6, <1>7, <1>8

\* An event more.
LEMMA EventsMore ==
    ASSUME NEW d, NEW q, NEW L, EventsOK(d, q, L), NEW e, EventOK(e, L), e.kind # "drain"
    PROVE  /\ EventsOK(Append(d, e), q, L)
           /\ Arriving(d) \subseteq Arriving(Append(d, e))
           /\ \A i \in Nat : Brings(e, i) => i \in Arriving(Append(d, e))
<1>1. PICK c : c = Append(d, e) OBVIOUS
<1>2. /\ IsSeq(c) /\ Len(d) \in Nat /\ Len(c) = Len(d) + 1 /\ \A n \in 1..Len(d) : c[n] = d[n]
      /\ c[Len(d) + 1] = e
  BY <1>1, AppendIs DEF EventsOK
<1>3. \A n \in 1..Len(d) : n \in 1..Len(c) BY <1>2
<1>4. Len(d) + 1 \in 1..Len(c) BY <1>2
<1>5. \A n \in 1..Len(c) : n \in 1..Len(d) \/ n = Len(d) + 1 BY <1>2
<1>6. \A n \in 1..Len(c) : EventOK(c[n], L) BY <1>2, <1>5 DEF EventsOK
<1>7. DrainFirst(c, q) BY <1>2, <1>5 DEF EventsOK, DrainFirst
<1>8. Arriving(d) \subseteq Arriving(c) BY <1>2, <1>3 DEF Arriving
<1>9. \A i \in Nat : Brings(e, i) => i \in Arriving(c) BY <1>2, <1>4 DEF Arriving
<1> QED BY <1>1, <1>2, <1>6, <1>7, <1>8, <1>9 DEF EventsOK

\* The first event is handled.
LEMMA EventsLess ==
    ASSUME NEW d, NEW q, NEW L, EventsOK(d, q, L), d # << >>, NEW r
    PROVE  /\ EventsOK(Tail(d), r, L)
           /\ \A i \in Arriving(d) : i \in Arriving(Tail(d)) \/ Brings(Head(d), i)
           /\ EventOK(Head(d), L)
           /\ Head(d).kind = "drain" =>
                 Head(d).ids \in Seq(Nat) /\ ToSet(Head(d).ids) \subseteq ToSet(q)
<1>1. PICK c : c = Tail(d) OBVIOUS
<1>2. /\ IsSeq(c) /\ Len(d) \in Nat /\ Len(d) >= 1 /\ Len(c) = Len(d) - 1
      /\ \A n \in 1..Len(d) - 1 : c[n] = d[n + 1]
      /\ Head(d) = d[1]
  BY <1>1, TailIs DEF EventsOK
<1>3. \A n \in 1..Len(c) : n + 1 \in 1..Len(d) /\ n + 1 # 1 /\ c[n] = d[n + 1] BY <1>2
<1>4. 1 \in 1..Len(d) BY <1>2
<1>5. \A n \in 1..Len(c) : EventOK(c[n], L) BY <1>3 DEF EventsOK
<1>6. DrainFirst(c, r) BY <1>3 DEF EventsOK, DrainFirst
<1>7. ASSUME NEW i \in Arriving(d) PROVE i \in Arriving(c) \/ Brings(d[1], i)
  <2>1. PICK n \in 1..Len(d) : i \in Nat /\ Brings(d[n], i) BY DEF Arriving
  <2>2. CASE n = 1 BY <2>1, <2>2
  <2>3. CASE n # 1
    <3>1. n - 1 \in 1..Len(c) /\ c[n - 1] = d[n] BY <1>2, <2>3
    <3> QED BY <2>1, <3>1 DEF Arriving
  <2> QED BY <2>2, <2>3
<1>8. EventOK(d[1], L) BY <1>4 DEF EventsOK
<1>9. d[1].kind = "drain" => d[1].ids \in Seq(Nat) /\ ToSet(d[1].ids) \subseteq ToSet(q)
  BY <1>4 DEF EventsOK, DrainFirst
<1> QED BY <1>1, <1>2, <1>5, <1>6, <1>7, <1>8, <1>9 DEF EventsOK

\* The log and the queue grow.
LEMMA EventsGrow ==
    ASSUME NEW d, NEW q, NEW L, IsSeq(L), EventsOK(d, q, L), NEW x, NEW r, ToSet(q) \subseteq ToSet(r)
    PROVE  EventsOK(d, r, L) /\ EventsOK(d, q, Append(L, x))
<1>1. DrainFirst(d, r) BY DEF EventsOK, DrainFirst
<1>2. PICK M : M = Append(L, x) OBVIOUS
<1>3. Len(L) \in Nat /\ Len(M) = Len(L) + 1 BY <1>2, AppendIs
<1>4. \A i \in 1..Len(L) : i \in 1..Len(M) BY <1>3
<1>5. \A e : EventOK(e, L) => EventOK(e, M) BY <1>4 DEF EventOK, ListOK
<1>6. EventsOK(d, q, M) BY <1>5 DEF EventsOK
<1> QED BY <1>1, <1>2, <1>6 DEF EventsOK

-----------------------------------------------------------------------------
\* The invariant.

Lost(g) == g.stash \cup g.crash \cup g.wire

\* The envelopes of the peer that the server stored.
Owed(L) == {i \in 1..Len(L) : L[i].chain # NoChain /\ L[i].by = "peer"}

\* HistoryExact needs more than it says: whether the thread shows it or not, an
\* envelope is under way, in the cache or in the stash; without a connection
\* it is in the server's queue or in the file of the cache.
NothingLost ==
    Owed(log) \subseteq
        Coming(pending) \cup Lost(gone)
          \cup (IF online THEN Arriving(down) \cup cache \cup ToSet(stash)
               ELSE ToSet(queue) \cup disk.cache)

\* Everything that is kept is a message of the log.
StoresOK ==
    /\ queue \in Seq(Nat) /\ ToSet(queue) \subseteq 1..Len(log)
    /\ stash \in Seq(Nat) /\ ToSet(stash) \subseteq 1..Len(log)
    /\ cache \subseteq 1..Len(log) /\ disk.cache \subseteq 1..Len(log)

AnnounceOK(e, L) == e.kind = "dist" \/ (e.kind = "message" /\ e.id \in 1..Len(L))

AnnouncedOK == IsSeq(pending) /\ \A n \in 1..Len(pending) : AnnounceOK(pending[n], log)

OwnOK ==
    /\ send = [step |-> send.step, id |-> send.id, sealed |-> send.sealed]
    /\ send.step = "store" => send.id \in 1..Len(log) /\ log[send.id].by = "me"

ExactInv ==
    /\ IsSeq(log) /\ AnnouncedOK /\ EventsOK(down, queue, log)
    /\ ThreadOK(thread, log) /\ BatchOK(batch, log)
    /\ StoresOK /\ OwnOK /\ Shapes /\ Attached /\ NothingLost

\* The invariant implies the property.
LEMMA ExactInvHelps == ExactInv => HistoryExact
<1> SUFFICES ASSUME ExactInv PROVE HistoryExact OBVIOUS
<1>1. ASSUME NEW m \in DOMAIN thread, NEW n \in DOMAIN thread, m # n, thread[m].id = thread[n].id
      PROVE  log[thread[m].id].by = "me"
  BY <1>1 DEF ExactInv, ThreadOK
<1>2. ASSUME Ready, NEW i \in Stored, log[i].by = "peer"
      PROVE  Waiting(i) \/ i \in cache \/ i \in ToSet(stash) \/ i \in Lost(gone)
  <2>1. i \in Owed(log) BY <1>2 DEF Stored, Sent, Sealed, Owed
  <2>2. i \in Coming(pending) \cup Lost(gone) \cup Arriving(down) \cup cache \cup ToSet(stash)
    BY <1>2, <2>1 DEF ExactInv, NothingLost, Ready
  <2>3. CASE i \in Coming(pending)
    <3>1. DOMAIN pending = 1..Len(pending) BY AppendIs DEF ExactInv, AnnouncedOK
    <3> QED BY <2>3, <3>1 DEF Coming, Waiting
  <2>4. CASE i \in Arriving(down)
    <3>1. DOMAIN down = 1..Len(down) BY AppendIs DEF ExactInv, EventsOK
    <3> QED BY <2>4, <3>1 DEF Arriving, Brings, Waiting
  <2> QED BY <2>2, <2>3, <2>4
<1> QED BY <1>1, <1>2 DEF HistoryExact, Lost

\* It holds at first.
LEMMA ExactInvStart == HistoryInit => ExactInv
<1> SUFFICES ASSUME HistoryInit PROVE ExactInv OBVIOUS
<1>1. IsSeq(<< >>)
  <2>1. << >> \in Seq({}) OBVIOUS
  <2> QED BY <2>1 DEF IsSeq
<1>2. ToSet(<< >>) = {} BY DEF ToSet
<1>3. IsSeq(log) /\ AnnouncedOK BY <1>1 DEF HistoryInit, AnnouncedOK
<1>4. EventsOK(down, queue, log) BY <1>1 DEF HistoryInit, EventsOK, DrainFirst
<1>5. ThreadOK(thread, log) /\ BatchOK(batch, log) BY DEF HistoryInit, ThreadOK, BatchOK
<1>6. StoresOK BY <1>2 DEF HistoryInit, StoresOK
<1>7. OwnOK /\ Shapes /\ Attached BY DEF HistoryInit, OwnOK, Idle, Shapes, Attached
<1>8. NothingLost BY DEF HistoryInit, NothingLost, Owed
<1> QED BY <1>3, <1>4, <1>5, <1>6, <1>7, <1>8 DEF ExactInv

\* The log grows by one entry: everything that speaks of it still does.
LEMMA LogGrows ==
    ASSUME ExactInv, NEW x, log' = Append(log, x)
    PROVE  /\ IsSeq(log') /\ Len(log) \in Nat /\ Len(log') = Len(log) + 1
           /\ log'[Len(log) + 1] = x /\ \A i \in 1..Len(log) : log'[i] = log[i]
           /\ 1..Len(log) \subseteq 1..Len(log')
           /\ EventsOK(down, queue, log') /\ ThreadOK(thread, log') /\ BatchOK(batch, log')
           /\ \A i \in Owed(log') : i \in Owed(log)
                 \/ (i = Len(log) + 1 /\ x.chain # NoChain /\ x.by = "peer")
<1>1. /\ IsSeq(log') /\ Len(log) \in Nat /\ Len(log') = Len(log) + 1
      /\ log'[Len(log) + 1] = x /\ \A i \in 1..Len(log) : log'[i] = log[i]
  BY AppendIs DEF ExactInv
<1>2. \A i \in 1..Len(log) : i \in 1..Len(log') BY <1>1
<1>3. EventsOK(down, queue, log') BY EventsGrow DEF ExactInv
<1>4. ThreadOK(thread, log') BY ThreadGrows DEF ExactInv
<1>5. BatchOK(batch, log') BY <1>2 DEF ExactInv, BatchOK
<1>6. ASSUME NEW i \in Owed(log')
      PROVE  i \in Owed(log) \/ (i = Len(log) + 1 /\ x.chain # NoChain /\ x.by = "peer")
  <2>1. i \in 1..Len(log') /\ log'[i].chain # NoChain /\ log'[i].by = "peer" BY DEF Owed
  <2>2. CASE i \in 1..Len(log) BY <1>1, <2>1, <2>2 DEF Owed
  <2>3. CASE i = Len(log) + 1 BY <1>1, <2>1, <2>3
  <2> QED BY <1>1, <2>1, <2>2, <2>3
<1> QED BY <1>1, <1>2, <1>3, <1>4, <1>5, <1>6

\* The peer sends.
LEMMA PeerSendExact ==
    ASSUME ExactInv, NEW sealed \in BOOLEAN, PeerSend(sealed) PROVE ExactInv'
<1> DEFINE x == [by |-> "peer", chain |-> IF sealed THEN dist ELSE NoChain]
           e == [kind |-> "message", id |-> Len(log) + 1]
<1>1. /\ log' = Append(log, x) /\ pending' = Append(pending, e)
      /\ UNCHANGED <<queue, down, thread, pchat, stash, cache, online, disk, batch, send, gone>>
  BY DEF PeerSend, memory
<1>2. e.kind = "message" /\ e.id = Len(log) + 1 OBVIOUS
<1> HIDE DEF x, e
<1>3. /\ IsSeq(log') /\ Len(log) \in Nat /\ Len(log') = Len(log) + 1
      /\ \A i \in 1..Len(log) : log'[i] = log[i]
      /\ 1..Len(log) \subseteq 1..Len(log')
      /\ EventsOK(down, queue, log') /\ ThreadOK(thread, log') /\ BatchOK(batch, log')
      /\ \A i \in Owed(log') : i \in Owed(log) \/ i = Len(log) + 1
  BY <1>1, LogGrows
<1>4. EventsOK(down, queue, log)' /\ ThreadOK(thread, log)' /\ BatchOK(batch, log)'
  BY <1>1, <1>3
<1>5. Coming(pending) \subseteq Coming(pending') /\ Len(log) + 1 \in Coming(pending')
  BY <1>1, <1>2, <1>3, ComingMore DEF ExactInv, AnnouncedOK
<1>6. AnnouncedOK'
  <2>1. /\ IsSeq(pending') /\ Len(pending) \in Nat /\ Len(pending') = Len(pending) + 1
        /\ \A n \in 1..Len(pending) : pending'[n] = pending[n]
        /\ pending'[Len(pending) + 1] = e
    BY <1>1, AppendIs DEF ExactInv, AnnouncedOK
  <2>2. ASSUME NEW n \in 1..Len(pending') PROVE AnnounceOK(pending'[n], log')
    <3>1. CASE n \in 1..Len(pending)
      <4>1. AnnounceOK(pending[n], log) /\ pending'[n] = pending[n]
        BY <2>1, <3>1 DEF ExactInv, AnnouncedOK
      <4> QED BY <1>3, <4>1 DEF AnnounceOK
    <3>2. CASE n = Len(pending) + 1 BY <1>2, <1>3, <2>1, <3>2 DEF AnnounceOK
    <3> QED BY <2>1, <3>1, <3>2
  <2> QED BY <2>1, <2>2 DEF AnnouncedOK
<1>7. StoresOK' BY <1>1, <1>3 DEF ExactInv, StoresOK
<1>8. OwnOK' BY <1>1, <1>3 DEF ExactInv, OwnOK
<1>9. Shapes' /\ Attached' BY <1>1 DEF ExactInv, Shapes, Attached
<1>10. NothingLost' BY <1>1, <1>3, <1>5 DEF ExactInv, NothingLost
<1> QED BY <1>3, <1>4, <1>6, <1>7, <1>8, <1>9, <1>10 DEF ExactInv

\* The peer distributes its key.
LEMMA PeerDistributeExact ==
    ASSUME ExactInv, NEW lost \in BOOLEAN, PeerDistribute(lost) PROVE ExactInv'
<1>1. PICK e : e = [kind |-> "dist", chain |-> dist'] OBVIOUS
<1>2. /\ pending' = Append(pending, e) /\ e.kind # "message"
      /\ UNCHANGED <<log, queue, down, thread, pchat, stash, cache, online, disk, batch, send, gone>>
  BY <1>1 DEF PeerDistribute, memory
<1>3. Coming(pending) \subseteq Coming(pending') BY <1>2, ComingMore DEF ExactInv, AnnouncedOK
<1>4. AnnouncedOK'
  <2>1. /\ IsSeq(pending') /\ Len(pending) \in Nat /\ Len(pending') = Len(pending) + 1
        /\ \A n \in 1..Len(pending) : pending'[n] = pending[n]
        /\ pending'[Len(pending) + 1] = e
    BY <1>2, AppendIs DEF ExactInv, AnnouncedOK
  <2>2. ASSUME NEW n \in 1..Len(pending') PROVE AnnounceOK(pending'[n], log')
    <3>1. CASE n \in 1..Len(pending) BY <1>2, <2>1, <3>1 DEF ExactInv, AnnouncedOK
    <3>2. CASE n = Len(pending) + 1 BY <1>1, <2>1, <3>2 DEF AnnounceOK
    <3> QED BY <2>1, <3>1, <3>2
  <2> QED BY <2>1, <2>2 DEF AnnouncedOK
<1>5. NothingLost' BY <1>2, <1>3 DEF ExactInv, NothingLost
<1> QED BY <1>2, <1>4, <1>5 DEF ExactInv, StoresOK, OwnOK, Shapes, Attached

\* An event that brings nothing is sent to us.
LEMMA SentExact ==
    ASSUME ExactInv, NEW e, EventOK(e, log), e.kind # "drain", down' = Append(down, e),
           UNCHANGED <<log, pending, queue, thread, pchat, stash, cache, online, disk, batch, send>>,
           Lost(gone') = Lost(gone), Shapes'
    PROVE  ExactInv'
<1>1. EventsOK(down', queue, log) /\ Arriving(down) \subseteq Arriving(down')
  BY EventsMore DEF ExactInv
<1>2. NothingLost' BY <1>1 DEF ExactInv, NothingLost
<1> QED BY <1>1, <1>2 DEF ExactInv, AnnouncedOK, StoresOK, OwnOK, Attached

\* A fetch is answered with a list of what is stored.
LEMMA FetchOlderExact == ASSUME ExactInv, FetchOlder PROVE ExactInv'
<1>1. PICK ids : ids = InOrder(Stored) OBVIOUS
<1>2. PICK e : e = [kind |-> "fetched", ids |-> ids] OBVIOUS
<1>3. ListOK(ids, log)
  <2>1. Len(log) \in Nat BY AppendIs DEF ExactInv
  <2>2. Stored \subseteq 1..Len(log) BY DEF Stored, Sent
  <2>3. Stored \in SUBSET Nat BY <2>1, <2>2
  <2>4. IsFiniteSet(Stored)
    <3>1. IsFiniteSet(1..Len(log)) BY <2>1, FS_Interval
    <3> QED BY <2>2, <3>1, FS_Subset
  <2>5. PICK k \in Nat : k = Cardinality(Stored) BY <2>3, <2>4, InOrderIs
  <2>6. ids \in [1..k -> Stored] /\ \A m, n \in 1..k : ids[m] = ids[n] => m = n
    BY <1>1, <2>3, <2>4, <2>5, InOrderIs
  <2>7. ASSUME NEW n \in 1..k PROVE ids[n] \in 1..Len(log) /\ ids[n] \in Nat
    <3>1. ids[n] \in Stored BY <2>6
    <3>2. ids[n] \in 1..Len(log) BY <2>2, <3>1
    <3> QED BY <2>3, <3>1, <3>2
  <2>8. ids \in [1..k -> Nat] BY <2>6, <2>7
  <2>9. ids \in Seq(Nat) /\ Len(ids) = k BY <2>8
  <2> QED BY <2>6, <2>7, <2>9 DEF ListOK
<1>4. EventOK(e, log) /\ e.kind # "drain" BY <1>2, <1>3 DEF EventOK
<1>5. /\ down' = Append(down, e)
      /\ UNCHANGED <<log, pending, queue, thread, pchat, stash, cache, online, disk, batch, send, gone>>
  BY <1>1, <1>2 DEF FetchOlder, server, memory
<1>6. Shapes' BY <1>5 DEF ExactInv, Shapes
<1> QED BY <1>4, <1>5, <1>6, SentExact

\* A message is deleted at the server.
LEMMA ServerDeleteExact == ASSUME ExactInv, NEW i \in Sent, ServerDelete(i) PROVE ExactInv'
<1>1. PICK e : e = [kind |-> "deleted", ids |-> {i}] OBVIOUS
<1>2. EventOK(e, log) /\ e.kind # "drain" BY <1>1 DEF EventOK
<1>3. /\ down' = Append(down, e) /\ gone' = [gone EXCEPT !.deleted = @ \cup {i}]
      /\ UNCHANGED <<log, pending, queue, thread, pchat, stash, cache, online, disk, batch, send>>
  BY <1>1 DEF ServerDelete, server, memory
<1>4. Shapes' /\ Lost(gone') = Lost(gone) BY <1>3 DEF ExactInv, Shapes, Lost
<1> QED BY <1>2, <1>3, <1>4, SentExact

\* The server relays: to us, to the queue or to both.
LEMMA RelayExact == ASSUME ExactInv, NEW n \in DOMAIN pending, Relay(n) PROVE ExactInv'
<1>1. IsSeq(pending) /\ n \in 1..Len(pending) BY AppendIs DEF ExactInv, AnnouncedOK
<1>2. PICK m : m = pending[n] /\ AnnounceOK(m, log) BY <1>1 DEF ExactInv, AnnouncedOK
<1>3. PICK e : e = IF m.kind = "dist" THEN m
                   ELSE [kind |-> IF Sealed(m.id) THEN "deliver" ELSE "text", id |-> m.id]
  OBVIOUS
<1> DEFINE queued == m.kind = "message" /\ Sealed(m.id)
<1>4. /\ pending' = RemoveAt(pending, n) /\ down' = IF online THEN down \o <<e>> ELSE down
      /\ \/ queued /\ queue' = Append(queue, m.id)
         \/ (online \/ ~queued) /\ queue' = queue
      /\ UNCHANGED <<log, thread, pchat, stash, cache, online, disk, batch, send, gone>>
  BY <1>2, <1>3 DEF Relay, memory
<1>5. EventOK(e, log) /\ e.kind # "drain" /\ (queued => Brings(e, m.id))
  BY <1>2, <1>3 DEF EventOK, AnnounceOK, Brings
<1>6. Len(log) \in Nat /\ (m.kind = "message" => m.id \in 1..Len(log) /\ m.id \in Nat)
  <2>1. Len(log) \in Nat BY AppendIs DEF ExactInv
  <2> QED BY <1>2, <2>1 DEF AnnounceOK
<1>7. /\ queue' \in Seq(Nat) /\ ToSet(queue) \subseteq ToSet(queue')
      /\ ToSet(queue') \subseteq 1..Len(log)
      /\ queued /\ ~online => m.id \in ToSet(queue')
  <2>1. queue \in Seq(Nat) /\ ToSet(queue) \subseteq 1..Len(log) BY DEF ExactInv, StoresOK
  <2>2. CASE queued /\ queue' = Append(queue, m.id)
    <3>1. queue' \in Seq(Nat) /\ ToSet(queue') = ToSet(queue) \cup {m.id}
      BY <1>6, <2>1, <2>2, ToSetAppend
    <3> QED BY <1>6, <2>1, <2>2, <3>1
  <2>3. CASE (online \/ ~queued) /\ queue' = queue BY <2>1, <2>3
  <2> QED BY <1>4, <2>2, <2>3
<1>8. EventsOK(down, queue', log) BY <1>7, EventsGrow DEF ExactInv
<1>9. /\ EventsOK(down', queue', log) /\ Arriving(down) \subseteq Arriving(down')
      /\ queued /\ online => m.id \in Arriving(down')
  <2>1. CASE ~online BY <1>4, <1>8, <2>1
  <2>2. CASE online
    <3>1. PICK T : down \in Seq(T) BY <1>8 DEF EventsOK, IsSeq
    <3>2. PICK U : U = T \cup {e} OBVIOUS
    <3>3. down \in Seq(U) /\ e \in U BY <3>1, <3>2
    <3>4. down' = Append(down, e) BY <1>4, <2>2, <3>3, AppendIsConcat
    <3> QED BY <1>5, <1>6, <1>8, <3>4, EventsMore
  <2> QED BY <2>1, <2>2
<1>10. ASSUME NEW i \in Owed(log), i \in Coming(pending)
       PROVE  i \in Coming(pending') \/ (queued /\ m.id = i)
  <2>1. Sealed(i) BY DEF Owed, Sealed
  <2> QED BY <1>1, <1>2, <1>4, <1>10, <2>1, ComingLess
<1>11. AnnouncedOK'
  <2>1. /\ IsSeq(pending') /\ Len(pending) \in Nat /\ Len(pending') = Len(pending) - 1
        /\ \A k \in 1..Len(pending) - 1 :
              pending'[k] = IF k < n THEN pending[k] ELSE pending[k + 1]
    BY <1>1, <1>4, RemoveIs
  <2>2. ASSUME NEW k \in 1..Len(pending') PROVE AnnounceOK(pending'[k], log)
    <3>1. k \in 1..Len(pending) /\ k + 1 \in 1..Len(pending) /\ k \in 1..Len(pending) - 1 BY <2>1
    <3> QED BY <2>1, <3>1 DEF ExactInv, AnnouncedOK
  <2> QED BY <1>4, <2>1, <2>2 DEF AnnouncedOK
<1> HIDE DEF queued
<1>12. NothingLost'
  <2>1. CASE online BY <1>4, <1>9, <1>10, <2>1 DEF ExactInv, NothingLost
  <2>2. CASE ~online BY <1>4, <1>7, <1>10, <2>2 DEF ExactInv, NothingLost
  <2> QED BY <2>1, <2>2
<1>13. StoresOK' BY <1>4, <1>7 DEF ExactInv, StoresOK
<1> QED BY <1>4, <1>9, <1>11, <1>12, <1>13 DEF ExactInv, OwnOK, Shapes, Attached

\* What every handled event has in common.
LEMMA Handled ==
    ASSUME ExactInv, NEW kind, Event(kind), NEW r
    PROVE  /\ online /\ pchat # "taken" /\ pchat # "none" /\ Head(down).kind = kind
           /\ down' = Tail(down) /\ EventsOK(down', r, log) /\ EventOK(Head(down), log)
           /\ \A i \in Arriving(down) : i \in Arriving(down') \/ Brings(Head(down), i)
           /\ kind = "drain" => Head(down).ids \in Seq(Nat)
                               /\ ToSet(Head(down).ids) \subseteq ToSet(queue)
<1>1. /\ online /\ pchat # "taken" /\ down # << >> /\ Head(down).kind = kind
      /\ down' = Tail(down)
  BY DEF Event
<1>2. pchat # "none" BY <1>1 DEF ExactInv, Attached
<1>3. EventsOK(down, queue, log) BY DEF ExactInv
<1> QED BY <1>1, <1>2, <1>3, EventsLess

\* The text in front of an envelope.
LEMMA HandleTextExact == ASSUME ExactInv, HandleText PROVE ExactInv'
<1>1. Event("text") BY DEF HandleText
<1>2. UNCHANGED <<log, pending, queue, thread, pchat, stash, cache, online, disk, batch, send, gone>>
  BY DEF HandleText, server, memory
<1>3. /\ EventsOK(down', queue, log) /\ Head(down).kind = "text"
      /\ \A i \in Arriving(down) : i \in Arriving(down') \/ Brings(Head(down), i)
  BY <1>1, Handled
<1>4. Arriving(down) \subseteq Arriving(down') BY <1>3 DEF Brings
<1>5. NothingLost' BY <1>2, <1>4 DEF ExactInv, NothingLost
<1> QED BY <1>2, <1>3, <1>5 DEF ExactInv, AnnouncedOK, StoresOK, OwnOK, Shapes, Attached

\* A deletion.
LEMMA HandleDeleteExact == ASSUME ExactInv, HandleDelete PROVE ExactInv'
<1>1. Event("deleted") BY DEF HandleDelete
<1>2. UNCHANGED <<log, pending, queue, pchat, stash, cache, online, disk, batch, send, gone>>
  BY DEF HandleDelete, server
<1>3. /\ EventsOK(down', queue, log) /\ Head(down).kind = "deleted"
      /\ \A i \in Arriving(down) : i \in Arriving(down') \/ Brings(Head(down), i)
  BY <1>1, Handled
<1>4. Arriving(down) \subseteq Arriving(down') BY <1>3 DEF Brings
<1>5. NothingLost' BY <1>2, <1>4 DEF ExactInv, NothingLost
<1>6. ThreadOK(thread', log)
  <2>1. PICK places : places = {n \in DOMAIN thread : thread[n].id \notin Head(down).ids} OBVIOUS
  <2>2. thread' = Retained(thread, places) BY <2>1 DEF HandleDelete
  <2>3. thread \in Seq(Msg) BY DEF ExactInv, ThreadOK
  <2>4. places \in SUBSET (1..Len(thread)) BY <2>1, <2>3
  <2>5. thread' \in Seq(Msg) /\ \E p : Picks(thread', thread, p) BY <2>2, <2>3, <2>4, RetainedIs
  <2> QED BY <2>5, PicksOK DEF ExactInv
<1> QED BY <1>2, <1>3, <1>5, <1>6 DEF ExactInv, AnnouncedOK, StoresOK, OwnOK, Shapes, Attached

\* A delivered envelope is read or stashed.
LEMMA HandleDeliverExact == ASSUME ExactInv, HandleDeliver PROVE ExactInv'
<1>1. Event("deliver") BY DEF HandleDeliver
<1>2. /\ pchat # "none" /\ Head(down).kind = "deliver" /\ EventsOK(down', queue, log)
      /\ EventOK(Head(down), log)
      /\ \A j \in Arriving(down) : j \in Arriving(down') \/ Brings(Head(down), j)
  BY <1>1, Handled
<1>3. PICK i : i = Head(down).id OBVIOUS
<1>4. Len(log) \in Nat BY AppendIs DEF ExactInv
<1>5. i \in 1..Len(log) /\ i \in Nat BY <1>2, <1>3, <1>4 DEF EventOK
<1>6. Arriving(down) \subseteq Arriving(down') \cup {i} BY <1>2, <1>3 DEF Brings
<1>7. PICK ok \in BOOLEAN : ok <=> CanDecrypt(i, key, used)
  <2>1. CASE CanDecrypt(i, key, used) BY <2>1
  <2>2. CASE ~CanDecrypt(i, key, used) BY <2>2
  <2> QED BY <2>1, <2>2
<1>8. PICK m : m = [id |-> i, body |-> IF ok THEN "text" ELSE "placeholder"] OBVIOUS
<1>9. /\ cache' = IF ok THEN cache \cup {i} ELSE cache
      /\ stash' = IF ok THEN stash ELSE Stash(stash, i)
      /\ thread' = Insert(thread, m)
      /\ gone' = [gone EXCEPT !.stash = IF ok THEN @ ELSE @ \cup StashDrops(stash),
                              !.cap = @ \cup CapDrops(thread, thread')]
      /\ UNCHANGED <<log, pending, queue, pchat, online, disk, batch, send>>
  BY <1>2, <1>3, <1>7, <1>8 DEF HandleDeliver, Cached, insert, server
<1>10. ThreadOK(thread', log)
  <2>1. m \in Msg /\ m.id = i BY <1>5, <1>8 DEF Msg, Bodies
  <2> QED BY <1>5, <1>9, <2>1, InsertOK DEF ExactInv
<1>11. /\ Shapes'
       /\ Lost(gone') = IF ok THEN Lost(gone) ELSE Lost(gone) \cup StashDrops(stash)
  BY <1>9 DEF ExactInv, Shapes, Lost
<1>12. /\ stash \in Seq(Nat) /\ ToSet(stash) \subseteq 1..Len(log)
       /\ Stash(stash, i) \in Seq(Nat)
       /\ ToSet(stash) \cup {i} \subseteq ToSet(Stash(stash, i)) \cup StashDrops(stash)
       /\ ToSet(Stash(stash, i)) \subseteq ToSet(stash) \cup {i}
  BY <1>5, StashKeeps DEF ExactInv, StoresOK
<1>13. StoresOK' BY <1>5, <1>9, <1>12 DEF ExactInv, StoresOK
<1>14. NothingLost'
  <2>1. CASE ok BY <1>6, <1>9, <1>11, <2>1 DEF ExactInv, NothingLost
  <2>2. CASE ~ok BY <1>6, <1>9, <1>11, <1>12, <2>2 DEF ExactInv, NothingLost
  <2> QED BY <2>1, <2>2
<1> QED BY <1>2, <1>9, <1>10, <1>11, <1>13, <1>14 DEF ExactInv, AnnouncedOK, OwnOK, Attached

\* A key: what the stash can give up goes to the cache, the rest stays.
LEMMA HandleDistributionExact == ASSUME ExactInv, HandleDistribution PROVE ExactInv'
<1>1. Event("dist") BY DEF HandleDistribution
<1>2. /\ pchat # "none" /\ Head(down).kind = "dist" /\ EventsOK(down', queue, log)
      /\ \A j \in Arriving(down) : j \in Arriving(down') \/ Brings(Head(down), j)
  BY <1>1, Handled
<1>3. Arriving(down) \subseteq Arriving(down') BY <1>2 DEF Brings
<1>4. PICK record : record = process_distribution(Head(down).chain) OBVIOUS
<1>5. PICK readable : readable = Openable(stash, record) OBVIOUS
<1>6. PICK opened : opened = {stash[n] : n \in readable} OBVIOUS
<1>7. /\ cache' = cache \cup opened /\ stash' = Retained(stash, DOMAIN stash \ readable)
      /\ thread' = [n \in DOMAIN thread |->
            IF thread[n].id \in opened THEN [thread[n] EXCEPT !.body = "text"] ELSE thread[n]]
      /\ UNCHANGED <<log, pending, queue, pchat, online, disk, batch, send, gone>>
  BY <1>2, <1>4, <1>5, <1>6 DEF HandleDistribution, Retry, server
<1>8. readable \subseteq DOMAIN stash BY <1>5 DEF Openable
<1>9. /\ stash \in Seq(Nat) /\ ToSet(stash) \subseteq 1..Len(log) /\ DOMAIN stash = 1..Len(stash)
  BY DEF ExactInv, StoresOK
<1>10. opened \subseteq ToSet(stash) BY <1>6, <1>8 DEF ToSet
<1>11. /\ stash' \in Seq(Nat)
       /\ \A n \in 1..Len(stash') : \E x \in DOMAIN stash \ readable : stash'[n] = stash[x]
       /\ \A x \in DOMAIN stash \ readable : \E n \in 1..Len(stash') : stash'[n] = stash[x]
  <2>1. DOMAIN stash \ readable \in SUBSET (1..Len(stash)) BY <1>9
  <2> QED BY <1>7, <1>9, <2>1, RetainedIs
<1>12. ASSUME NEW x \in ToSet(stash') PROVE x \in ToSet(stash)
  <2>1. PICK n \in 1..Len(stash') : stash'[n] = x BY <1>11, ToSetIs
  <2>2. PICK y \in DOMAIN stash \ readable : stash'[n] = stash[y] BY <1>11
  <2> QED BY <1>9, <2>1, <2>2, ToSetIs
<1>13. ASSUME NEW x \in ToSet(stash) PROVE x \in ToSet(stash') \cup opened
  <2>1. PICK n \in 1..Len(stash) : stash[n] = x BY <1>9, ToSetIs
  <2>2. CASE n \in readable BY <1>6, <2>1, <2>2
  <2>3. CASE n \notin readable
    <3>1. PICK k \in 1..Len(stash') : stash'[k] = stash[n] BY <1>9, <1>11, <2>3
    <3> QED BY <1>11, <2>1, <3>1, ToSetIs
  <2> QED BY <2>2, <2>3
<1>14. ThreadOK(thread', log)
  <2>1. PICK k \in Nat : k = Len(thread) /\ DOMAIN thread = 1..k /\ thread \in [1..k -> Msg]
    BY DEF ExactInv, ThreadOK
  <2>2. ASSUME NEW n \in 1..k PROVE thread'[n] \in Msg /\ thread'[n].id = thread[n].id
    <3>1. thread[n] \in Msg BY <2>1
    <3> QED BY <1>7, <2>1, <3>1 DEF Msg, Bodies
  <2>3. thread' \in [1..k -> Msg] BY <1>7, <2>1, <2>2
  <2>4. thread' \in Seq(Msg) /\ Len(thread') = k BY <2>3
  <2>5. \A n \in 1..k : thread'[n].id \in 1..Len(log) BY <2>1, <2>2 DEF ExactInv, ThreadOK
  <2>6. ASSUME NEW a \in 1..k, NEW b \in 1..k, a # b, thread'[a].id = thread'[b].id
        PROVE  log[thread'[a].id].by = "me"
    <3>1. thread[a].id = thread[b].id /\ thread'[a].id = thread[a].id BY <2>2, <2>6
    <3> QED BY <2>1, <2>6, <3>1 DEF ExactInv, ThreadOK
  <2> QED BY <2>4, <2>5, <2>6 DEF ThreadOK
<1>15. StoresOK' BY <1>7, <1>9, <1>10, <1>11, <1>12 DEF ExactInv, StoresOK
<1>16. NothingLost' BY <1>3, <1>7, <1>13 DEF ExactInv, NothingLost
<1> QED BY <1>2, <1>7, <1>14, <1>15, <1>16 DEF ExactInv, AnnouncedOK, OwnOK, Shapes, Attached

\* A fetch response is decrypted.
LEMMA FetchTakeExact == ASSUME ExactInv, FetchTake PROVE ExactInv'
<1>1. Event("fetched") BY DEF FetchTake
<1>2. /\ pchat # "none" /\ Head(down).kind = "fetched" /\ EventsOK(down', queue, log)
      /\ EventOK(Head(down), log)
      /\ \A j \in Arriving(down) : j \in Arriving(down') \/ Brings(Head(down), j)
  BY <1>1, Handled
<1>3. Arriving(down) \subseteq Arriving(down') BY <1>2 DEF Brings
<1>4. PICK ids : ids = Head(down).ids OBVIOUS
<1>5. ListOK(ids, log) BY <1>2, <1>4 DEF EventOK
<1> DEFINE Opens(i) == log[i].by = "peer" /\ CanDecrypt(i, key, used)
           opened == {i \in ToSet(ids) : Opens(i)}
<1>6. /\ batch' = [n \in DOMAIN ids |->
                    [id |-> ids[n], body |-> IF Opens(ids[n]) THEN "text" ELSE "placeholder"]]
      /\ cache' = cache \cup opened /\ pchat' = "taken"
      /\ UNCHANGED <<log, pending, queue, thread, stash, online, disk, send, gone>>
  BY <1>2, <1>4 DEF FetchTake, server
<1>7. PICK k \in Nat : k = Len(ids) /\ DOMAIN ids = 1..k BY <1>5 DEF ListOK
<1>8. opened \subseteq 1..Len(log) BY <1>5, <1>7 DEF ListOK, ToSet
<1>9. BatchOK(batch', log)
  <2>1. \A n \in 1..k : ids[n] \in Nat BY <1>5, <1>7 DEF ListOK
  <2>2. batch' \in [1..k -> Msg] BY <1>6, <1>7, <2>1 DEF Msg, Bodies
  <2>3. batch' \in Seq(Msg) /\ Len(batch') = k BY <2>2
  <2>4. \A n \in 1..k : batch'[n].id = ids[n] BY <1>6, <1>7
  <2> QED BY <1>5, <1>7, <2>3, <2>4 DEF ListOK, BatchOK
<1> HIDE DEF opened
<1>10. StoresOK' BY <1>6, <1>8 DEF ExactInv, StoresOK
<1>11. NothingLost' BY <1>3, <1>6 DEF ExactInv, NothingLost
<1> QED BY <1>2, <1>6, <1>9, <1>10, <1>11 DEF ExactInv, AnnouncedOK, OwnOK, Shapes, Attached

\* And merged.
LEMMA FetchMergeExact == ASSUME ExactInv, FetchMerge PROVE ExactInv'
<1>1. /\ pchat' = "here" /\ batch' = << >>
      /\ thread' = IF batch = << >> THEN thread ELSE ByTime(Unseen(batch, thread) \o thread)
      /\ UNCHANGED <<log, pending, queue, down, stash, cache, online, disk, send, gone>>
  BY DEF FetchMerge, server
<1>2. ThreadOK(thread', log)
  <2>1. CASE batch = << >> BY <1>1, <2>1 DEF ExactInv
  <2>2. CASE batch # << >>
    <3>1. thread' = ByTime(Unseen(batch, thread) \o thread) BY <1>1, <2>2
    <3> QED BY <3>1, MergeOK, SortOK DEF ExactInv
  <2> QED BY <2>1, <2>2
<1>3. BatchOK(batch', log) BY <1>1 DEF BatchOK
<1>4. NothingLost' BY <1>1 DEF ExactInv, NothingLost
<1> QED BY <1>1, <1>2, <1>3, <1>4 DEF ExactInv, AnnouncedOK, StoresOK, OwnOK, Shapes, Attached

\* handle_proto_offline_queue_drain, the messages: the thread is one, and what
\* could not be read is in the stash or was dropped from it.
LEMMA DrainedOK ==
    ASSUME ExactInv, NEW ids \in Seq(Nat), ToSet(ids) \subseteq 1..Len(log), NEW readable
    PROVE  DrainOK(Drained(ids, readable), log,
                   ToSet(stash) \cup Unread(ids, readable))
<1>1. PICK b : b = [stash |-> stash, thread |-> thread, lost |-> {}, cap |-> {}] OBVIOUS
<1>2. PICK f : f = CHOOSE x : Drains(x, b, ids, readable, Len(ids)) BY Zenon
<1>3. Drains(f, b, ids, readable, Len(ids))
  <2>1. Len(ids) \in Nat OBVIOUS
  <2>2. \E x : Drains(x, b, ids, readable, Len(ids)) BY <2>1, DrainsSome
  <2> QED BY <1>2, <2>2, Zenon
<1>4. Drained(ids, readable) = f[Len(ids)] BY <1>1, <1>2 DEF Drained, Drains
<1>5. DrainOK(b, log, ToSet(stash)) BY <1>1 DEF ExactInv, StoresOK, DrainOK
<1>6. DrainOK(f[Len(ids)], log,
              ToSet(stash) \cup Unread(ids, readable))
  BY ONLY <1>3, <1>5, ids \in Seq(Nat), ToSet(ids) \subseteq 1..Len(log), DrainsOK
<1> QED BY <1>4, <1>6

\* The offline queue is drained and acknowledged.
LEMMA HandleDrainExact == ASSUME ExactInv, HandleDrain PROVE ExactInv'
<1>1. Event("drain") BY DEF HandleDrain
<1>2. /\ online /\ pchat # "none" /\ Head(down).kind = "drain" /\ EventsOK(down', queue', log)
      /\ \A j \in Arriving(down) : j \in Arriving(down') \/ Brings(Head(down), j)
      /\ Head(down).ids \in Seq(Nat) /\ ToSet(Head(down).ids) \subseteq ToSet(queue)
  BY <1>1, Handled
<1>3. PICK e : e = Head(down) OBVIOUS
<1>4. PICK ids \in Seq(Nat) : ids = e.ids BY <1>2, <1>3
<1>5. PICK record : record = IF e.chain = NoChain THEN [key |-> key, used |-> used]
                             ELSE process_distribution(e.chain)
  OBVIOUS
<1>6. PICK readable : readable = Openable(ids, record) OBVIOUS
<1>7. PICK opened : opened = {ids[n] : n \in readable} OBVIOUS
<1>8. PICK st : st = Drained(ids, readable) OBVIOUS
<1>9. /\ cache' = cache \cup opened
      /\ stash' = st.stash
      /\ thread' = IF ids = << >> THEN thread ELSE ByTime(st.thread)
      /\ send_offline_queue_ack(ids)
      /\ gone' = [gone EXCEPT !.stash = @ \cup st.lost, !.cap = @ \cup st.cap]
      /\ UNCHANGED <<log, pending, pchat, online, disk, batch, send>>
  BY <1>2, <1>3, <1>4, <1>5, <1>6, <1>7, <1>8 DEF HandleDrain
<1>10. /\ queue \in Seq(Nat) /\ ToSet(queue) \subseteq 1..Len(log)
       /\ ToSet(ids) \subseteq 1..Len(log)
  BY <1>2, <1>3, <1>4 DEF ExactInv, StoresOK
<1>11. PICK due : due = Unread(ids, readable) OBVIOUS
<1>12. DrainOK(st, log, ToSet(stash) \cup due) BY <1>8, <1>10, <1>11, DrainedOK
<1>13. ThreadOK(thread', log)
  <2>1. CASE ids = << >> BY <1>9, <2>1 DEF ExactInv
  <2>2. CASE ids # << >> BY <1>9, <1>12, <2>2, SortOK DEF DrainOK
  <2> QED BY <2>1, <2>2
<1>14. /\ stash' \in Seq(Nat) /\ ToSet(stash') \subseteq 1..Len(log)
       /\ ToSet(stash) \cup due \subseteq ToSet(stash') \cup st.lost
  BY <1>9, <1>12 DEF DrainOK
<1>15. readable \subseteq 1..Len(ids) BY <1>6 DEF Openable
<1>16. opened \subseteq ToSet(ids) BY <1>7, <1>15, ToSetIs
<1>17. ASSUME NEW j \in ToSet(ids) PROVE j \in opened \cup due
  <2>1. PICK n \in 1..Len(ids) : ids[n] = j BY ToSetIs
  <2> QED BY <1>7, <1>11, <2>1 DEF Unread
<1>18. \A j \in Arriving(down) : j \in Arriving(down') \/ j \in ToSet(ids)
  BY <1>2, <1>3, <1>4 DEF Brings
<1>19. Shapes' /\ Lost(gone') = Lost(gone) \cup st.lost BY <1>9 DEF ExactInv, Shapes, Lost
<1>20. queue' \in Seq(Nat) /\ ToSet(queue') \subseteq ToSet(queue)
  <2>1. PICK places : places = {n \in DOMAIN queue : queue[n] \notin ToSet(ids)} OBVIOUS
  <2>2. queue' = Retained(queue, places) BY <1>9, <2>1 DEF send_offline_queue_ack
  <2>3. places \in SUBSET (1..Len(queue)) BY <1>10, <2>1
  <2>4. queue' \in Seq(Nat) /\ \A n \in 1..Len(queue') : \E x \in places : queue'[n] = queue[x]
    BY <1>10, <2>2, <2>3, RetainedIs
  <2>5. ASSUME NEW j \in ToSet(queue') PROVE j \in ToSet(queue)
    <3>1. PICK n \in 1..Len(queue') : queue'[n] = j BY <2>4, ToSetIs
    <3>2. PICK x \in places : queue'[n] = queue[x] BY <2>4
    <3> QED BY <1>10, <2>3, <3>1, <3>2, ToSetIs
  <2> QED BY <2>4, <2>5
<1>21. StoresOK' BY <1>9, <1>10, <1>14, <1>16, <1>20 DEF ExactInv, StoresOK
<1>22. NothingLost'
  BY <1>2, <1>9, <1>14, <1>17, <1>18, <1>19 DEF ExactInv, NothingLost
<1> QED BY <1>2, <1>9, <1>13, <1>19, <1>21, <1>22 DEF ExactInv, AnnouncedOK, OwnOK, Attached

\* send_message reads the mode.
LEMMA SendBuildExact == ASSUME ExactInv, SendBuild PROVE ExactInv'
<1>1. /\ UNCHANGED <<log, pending, queue, down, thread, pchat, stash, cache, online, disk, batch, gone>>
      /\ send' = [send EXCEPT !.step = "queue", !.sealed = (pchat = "here")]
  BY DEF SendBuild, server, memory
<1>2. OwnOK' BY <1>1 DEF ExactInv, OwnOK
<1>3. NothingLost' BY <1>1 DEF ExactInv, NothingLost
<1> QED BY <1>1, <1>2, <1>3 DEF ExactInv, AnnouncedOK, StoresOK, Shapes, Attached

\* It reaches the server, or the connection is gone.
LEMMA SendQueueExact == ASSUME ExactInv, SendQueue PROVE ExactInv'
<1>1. UNCHANGED <<pending, queue, down, thread, pchat, stash, cache, online, disk, batch, gone>>
  BY DEF SendQueue, memory
<1>2. CASE send' = Idle /\ log' = log
  <2>1. OwnOK' BY <1>2 DEF OwnOK, Idle
  <2>2. NothingLost' BY <1>1, <1>2 DEF ExactInv, NothingLost
  <2> QED BY <1>1, <1>2, <2>1, <2>2 DEF ExactInv, AnnouncedOK, StoresOK, Shapes, Attached
<1>3. CASE ~(send' = Idle /\ log' = log)
  <2>1. PICK x : x = [by |-> "me", chain |-> IF send.sealed THEN Mine ELSE NoChain] OBVIOUS
  <2>2. log' = Append(log, x) /\ send' = [send EXCEPT !.step = "store", !.id = Len(log) + 1]
    BY <1>3, <2>1 DEF SendQueue
  <2>3. /\ IsSeq(log') /\ Len(log) \in Nat /\ Len(log') = Len(log) + 1
        /\ log'[Len(log) + 1] = x
        /\ 1..Len(log) \subseteq 1..Len(log')
        /\ EventsOK(down, queue, log') /\ ThreadOK(thread, log') /\ BatchOK(batch, log')
        /\ \A i \in Owed(log') : i \in Owed(log) \/ (i = Len(log) + 1 /\ x.by = "peer")
    BY <2>2, LogGrows
  <2>4. x.by = "me" BY <2>1
  <2>5. OwnOK'
    <3>1. Len(log) + 1 \in 1..Len(log') BY <2>3
    <3> QED BY <2>2, <2>3, <2>4, <3>1 DEF ExactInv, OwnOK
  <2>6. AnnouncedOK' BY <1>1, <2>3 DEF ExactInv, AnnouncedOK, AnnounceOK
  <2>7. StoresOK' BY <1>1, <2>3 DEF ExactInv, StoresOK
  <2>8. NothingLost' BY <1>1, <2>3, <2>4 DEF ExactInv, NothingLost
  <2> QED BY <1>1, <2>3, <2>5, <2>6, <2>7, <2>8 DEF ExactInv, Shapes, Attached
<1> QED BY <1>2, <1>3

\* And our own copy is stored.
LEMMA SendStoreExact == ASSUME ExactInv, SendStore PROVE ExactInv'
<1>1. PICK m : m = [id |-> send.id, body |-> "text"] OBVIOUS
<1>2. /\ send.step = "store" /\ cache' = IF pchat = "here" THEN cache \cup {send.id} ELSE cache
      /\ thread' = PushCapped(thread, m) /\ send' = Idle
      /\ gone' = [gone EXCEPT !.cap = @ \cup CapDrops(thread, thread')]
      /\ UNCHANGED <<log, pending, queue, down, pchat, stash, online, disk, batch>>
  BY <1>1 DEF SendStore, insert, server
<1>3. send.id \in 1..Len(log) /\ log[send.id].by = "me" BY <1>2 DEF ExactInv, OwnOK
<1>4. Len(log) \in Nat BY AppendIs DEF ExactInv
<1>5. m \in Msg /\ m.id = send.id BY <1>1, <1>3, <1>4 DEF Msg, Bodies
<1>6. ThreadOK(thread', log) BY <1>2, <1>3, <1>5, PushOK DEF ExactInv
<1>7. Shapes' /\ Lost(gone') = Lost(gone) BY <1>2 DEF ExactInv, Shapes, Lost
<1>8. StoresOK' BY <1>2, <1>3 DEF ExactInv, StoresOK
<1>9. OwnOK' BY <1>2 DEF OwnOK, Idle
<1>10. NothingLost' BY <1>2, <1>7 DEF ExactInv, NothingLost
<1> QED BY <1>2, <1>6, <1>7, <1>8, <1>9, <1>10 DEF ExactInv, AnnouncedOK, Attached

\* What is on its way and is lost with the connection was delivered only, or
\* it is in the queue still.
LEMMA WireOrQueue ==
    ASSUME ExactInv PROVE Arriving(down) \subseteq OnTheWire \cup ToSet(queue)
<1> SUFFICES ASSUME NEW i \in Arriving(down) PROVE i \in OnTheWire \cup ToSet(queue) OBVIOUS
<1>1. EventsOK(down, queue, log) BY DEF ExactInv
<1>2. DOMAIN down = 1..Len(down) BY <1>1, AppendIs DEF EventsOK
<1>3. PICK n \in 1..Len(down) : Brings(down[n], i) BY DEF Arriving
<1>4. CASE down[n].kind = "deliver" /\ down[n].id = i
  BY <1>2, <1>4 DEF OnTheWire
<1>5. CASE down[n].kind = "drain" /\ i \in ToSet(down[n].ids)
  BY <1>1, <1>5 DEF EventsOK, DrainFirst
<1> QED BY <1>3, <1>4, <1>5 DEF Brings

\* Without a connection nothing is on its way, shown or stashed.
LEMMA OfflineOK ==
    ASSUME ExactInv, down' = << >>, thread' = << >>, stash' = << >>, cache' = {},
           disk'.cache \subseteq 1..Len(log), UNCHANGED <<log, pending, queue>>
    PROVE  /\ IsSeq(log') /\ AnnouncedOK' /\ EventsOK(down', queue', log')
           /\ ThreadOK(thread', log') /\ StoresOK'
<1>1. IsSeq(<< >>)
  <2>1. << >> \in Seq({}) OBVIOUS
  <2> QED BY <2>1 DEF IsSeq
<1>2. ToSet(<< >>) = {} BY DEF ToSet
<1>3. IsSeq(log') /\ AnnouncedOK' BY DEF ExactInv, AnnouncedOK
<1>4. EventsOK(down', queue', log') BY <1>1 DEF EventsOK, DrainFirst
<1>5. ThreadOK(thread', log') BY DEF ThreadOK
<1>6. StoresOK' BY <1>2 DEF ExactInv, StoresOK
<1> QED BY <1>3, <1>4, <1>5, <1>6

\* The connection ends and both files are written.
LEMMA DisconnectExact == ASSUME ExactInv, Disconnect PROVE ExactInv'
<1>1. /\ online /\ disk' = save_local_cache(save_signal_state(disk))
      /\ gone' = [gone EXCEPT !.stash = @ \cup ToSet(stash), !.wire = @ \cup OnTheWire]
      /\ online' = FALSE /\ down' = << >>
      /\ thread' = << >> /\ stash' = << >> /\ cache' = {}
      /\ UNCHANGED <<log, pending, queue, batch, send>>
  BY DEF Disconnect, server
<1>2. Shapes' /\ disk'.cache = cache /\ Lost(gone') = Lost(gone) \cup ToSet(stash) \cup OnTheWire
  BY <1>1 DEF ExactInv, Shapes, Lost, save_local_cache, save_signal_state, export_state
<1>3. disk'.cache \subseteq 1..Len(log) BY <1>2 DEF ExactInv, StoresOK
<1>4. /\ IsSeq(log') /\ AnnouncedOK' /\ EventsOK(down', queue', log')
      /\ ThreadOK(thread', log') /\ StoresOK'
  BY <1>1, <1>3, OfflineOK
<1>5. NothingLost' BY <1>1, <1>2, WireOrQueue DEF ExactInv, NothingLost
<1> QED BY <1>1, <1>2, <1>4, <1>5 DEF ExactInv, OwnOK, Attached

\* The process dies.
LEMMA CrashExact == ASSUME ExactInv, NEW between \in BOOLEAN, Crash(between) PROVE ExactInv'
<1>1. /\ online
      /\ disk' = (IF between /\ pchat = "here" THEN save_signal_state(disk) ELSE disk)
      /\ gone' = [gone EXCEPT !.stash = @ \cup ToSet(stash), !.wire = @ \cup OnTheWire,
                              !.crash = @ \cup (cache \ disk.cache)]
      /\ online' = FALSE /\ down' = << >>
      /\ thread' = << >> /\ stash' = << >> /\ cache' = {} /\ batch' = << >> /\ send' = Idle
      /\ UNCHANGED <<log, pending, queue>>
  BY DEF Crash, server
<1>2. Shapes' /\ disk'.cache = disk.cache
  <2>1. CASE between /\ pchat = "here"
    BY <1>1, <2>1 DEF ExactInv, Shapes, save_signal_state, export_state
  <2>2. CASE ~(between /\ pchat = "here") BY <1>1, <2>2 DEF ExactInv, Shapes
  <2> QED BY <2>1, <2>2
<1>3. Lost(gone') = Lost(gone) \cup ToSet(stash) \cup OnTheWire \cup (cache \ disk.cache)
  BY <1>1 DEF ExactInv, Shapes, Lost
<1>4. disk'.cache \subseteq 1..Len(log) BY <1>2 DEF ExactInv, StoresOK
<1>5. /\ IsSeq(log') /\ AnnouncedOK' /\ EventsOK(down', queue', log')
      /\ ThreadOK(thread', log') /\ StoresOK'
  BY <1>1, <1>4, OfflineOK
<1>6. BatchOK(batch', log') BY <1>1 DEF BatchOK
<1>7. OwnOK' BY <1>1 DEF OwnOK, Idle
<1>8. NothingLost' BY <1>1, <1>2, <1>3, WireOrQueue DEF ExactInv, NothingLost
<1> QED BY <1>1, <1>2, <1>5, <1>6, <1>7, <1>8 DEF ExactInv, Attached

\* The cache shows each of its messages once.
LEMMA ShownOK ==
    ASSUME NEW L, IsSeq(L), NEW c \in SUBSET (1..Len(L)) PROVE ThreadOK(all_chat_messages(c), L)
<1>1. Len(L) \in Nat BY AppendIs
<1>2. c \in SUBSET Nat BY <1>1
<1>3. IsFiniteSet(c)
  <2>1. IsFiniteSet(1..Len(L)) BY <1>1, FS_Interval
  <2> QED BY <2>1, FS_Subset
<1>4. PICK k \in Nat : k = Cardinality(c) BY <1>2, <1>3, InOrderIs
<1>5. PICK ids : ids = InOrder(c) OBVIOUS
<1>6. ids \in [1..k -> c] /\ \A m, n \in 1..k : ids[m] = ids[n] => m = n
  BY <1>2, <1>3, <1>4, <1>5, InOrderIs
<1>7. PICK t : t = all_chat_messages(c) OBVIOUS
<1>8. t = [n \in 1..k |-> [id |-> ids[n], body |-> "text"]]
  BY <1>5, <1>6, <1>7 DEF all_chat_messages
<1>9. \A n \in 1..k : ids[n] \in c /\ ids[n] \in Nat BY <1>2, <1>6
<1>10. t \in [1..k -> Msg] BY <1>8, <1>9 DEF Msg, Bodies
<1>11. t \in Seq(Msg) /\ Len(t) = k BY <1>10
<1>12. \A n \in 1..k : t[n].id = ids[n] BY <1>8
<1>13. \A n \in 1..k : t[n].id \in 1..Len(L) BY <1>9, <1>12
<1>14. \A m, n \in 1..k : t[m].id = t[n].id => m = n BY <1>6, <1>12
<1>15. ThreadOK(t, L) BY <1>11, <1>13, <1>14 DEF ThreadOK
<1> QED BY <1>7, <1>15

\* The next connection: the cache is shown and the queue is on its way.
LEMMA ConnectExact == ASSUME ExactInv, Connect PROVE ExactInv'
<1>1. PICK e : e = [kind |-> "drain", ids |-> queue, chain |-> dist] OBVIOUS
<1>2. /\ ~online /\ online' = TRUE /\ pchat' = "here" /\ cache' = disk.cache
      /\ thread' = all_chat_messages(disk.cache) /\ down' = <<e>>
      /\ UNCHANGED <<log, pending, queue, stash, disk, batch, send, gone>>
  BY <1>1 DEF Connect, server
<1>3. queue \in Seq(Nat) /\ disk.cache \in SUBSET (1..Len(log)) BY DEF ExactInv, StoresOK
<1>4. ThreadOK(thread', log) BY <1>2, <1>3, ShownOK DEF ExactInv
<1>5. IsSeq(down') /\ Len(down') = 1 /\ down'[1] = e
  <2>1. <<e>> \in Seq({e}) OBVIOUS
  <2> QED BY <1>2, <2>1 DEF IsSeq
<1>6. \A n \in 1..Len(down') : n = 1 BY <1>5
<1>7. e.kind = "drain" /\ e.ids = queue BY <1>1
<1>8. EventsOK(down', queue, log)
  <2>1. EventOK(e, log) BY <1>7 DEF EventOK
  <2>2. DrainFirst(down', queue) BY <1>3, <1>5, <1>6, <1>7 DEF DrainFirst
  <2> QED BY <1>5, <1>6, <2>1, <2>2 DEF EventsOK
<1>9. ASSUME NEW i \in ToSet(queue) PROVE i \in Arriving(down')
  <2>1. i \in Nat BY <1>3, ToSetIs
  <2>2. Brings(e, i) BY <1>7 DEF Brings
  <2>3. 1 \in 1..Len(down') BY <1>5
  <2> QED BY <1>5, <2>1, <2>2, <2>3 DEF Arriving
<1>10. NothingLost' BY <1>2, <1>9 DEF ExactInv, NothingLost
<1> QED BY <1>2, <1>4, <1>8, <1>10 DEF ExactInv, AnnouncedOK, StoresOK, OwnOK, Shapes, Attached

\* Every step keeps the invariant.
LEMMA ExactInvStep == ASSUME ExactInv, [HistoryNext]_historyVars PROVE ExactInv'
<1>1. CASE UNCHANGED historyVars
  BY <1>1 DEF historyVars, server, memory, ExactInv, AnnouncedOK, StoresOK, OwnOK, Shapes,
              Attached, NothingLost
<1>2. ASSUME NEW sealed \in BOOLEAN, PeerSend(sealed) PROVE ExactInv' BY <1>2, PeerSendExact
<1>3. ASSUME NEW lost \in BOOLEAN, PeerDistribute(lost) PROVE ExactInv' BY <1>3, PeerDistributeExact
<1>4. CASE FetchOlder BY <1>4, FetchOlderExact
<1>5. ASSUME NEW n \in DOMAIN pending, Relay(n) PROVE ExactInv' BY <1>5, RelayExact
<1>6. ASSUME NEW i \in Sent, ServerDelete(i) PROVE ExactInv' BY <1>6, ServerDeleteExact
<1>7. CASE HandleText BY <1>7, HandleTextExact
<1>8. CASE HandleDeliver BY <1>8, HandleDeliverExact
<1>9. CASE HandleDistribution BY <1>9, HandleDistributionExact
<1>10. CASE HandleDelete BY <1>10, HandleDeleteExact
<1>11. CASE HandleDrain BY <1>11, HandleDrainExact
<1>12. CASE FetchTake BY <1>12, FetchTakeExact
<1>13. CASE FetchMerge BY <1>13, FetchMergeExact
<1>14. CASE SendBuild BY <1>14, SendBuildExact
<1>15. CASE SendQueue BY <1>15, SendQueueExact
<1>16. CASE SendStore BY <1>16, SendStoreExact
<1>17. CASE Disconnect BY <1>17, DisconnectExact
<1>18. CASE Connect BY <1>18, ConnectExact
<1>19. ASSUME NEW between \in BOOLEAN, Crash(between) PROVE ExactInv' BY <1>19, CrashExact
<1> QED
  BY <1>1, <1>2, <1>3, <1>4, <1>5, <1>6, <1>7, <1>8, <1>9, <1>10, <1>11, <1>12, <1>13, <1>14,
     <1>15, <1>16, <1>17, <1>18, <1>19 DEF HistoryNext

(* However deliveries, fetches, the offline queue, disconnects and crashes   *)
(* overlap, for any number of messages and any caps: a message of somebody   *)
(* else is shown at most once, and an encrypted one is not lost without a    *)
(* reason (insert_or_replace_message, insert_offline_messages,               *)
(* merge_decrypted_messages, stash_signal_envelope, save_local_cache).       *)
THEOREM HistoryExactCorrect == HistorySpec => []HistoryExact
<1>1. HistoryInit => ExactInv BY ExactInvStart
<1>2. ExactInv /\ [HistoryNext]_historyVars => ExactInv' BY ExactInvStep
<1>3. ExactInv => HistoryExact BY ExactInvHelps
<1> QED BY <1>1, <1>2, <1>3, PTL DEF HistorySpec
=============================================================================
