------------------------------ MODULE KeyManager ------------------------------
(***************************************************************************)
(* The key manager of persistent chat for one channel: peers' announced    *)
(* identities, the archive key with its trust level, the collectors of key *)
(* exchange responses, the originator, the pinned custodians and the epoch *)
(* keys.  Every action is one method call, which the app makes under the   *)
(* session lock.  The known key holders are part of module ArchiveKeys.    *)
(*                                                                         *)
(* A peer's identity is the timestamp of the announce that carried it: a   *)
(* message signed under an announced identity carries that timestamp, and  *)
(* its signature verifies exactly against that record (external).          *)
(***************************************************************************)
EXTENDS Naturals, FiniteSets

CONSTANTS Me,           \* our cert hash
          Peers,        \* other members' cert hashes
          Keys,         \* 32-byte keys
          Requests,     \* request ids
          Epochs,       \* epoch numbers
          Announces,    \* <<peer, timestamp>> of the announces members make
          Lists,        \* custodian lists the server may set
          Founders,     \* cert hashes that may be recorded as originator
          MaxRequests,  \* max_requests_per_connection
          None          \* Option::None

Trust == {"ManuallyVerified", "Verified", "Unverified", "Disputed"}

ASSUME KeyManagerAssumption ==
    /\ IsFiniteSet(Peers) /\ Me \notin Peers
    /\ None \notin Peers \cup {Me} \cup Keys \cup Trust
    /\ Announces \subseteq Peers \X (Nat \ {0})
    /\ Lists \subseteq SUBSET Peers
    /\ Founders \subseteq Peers \cup {Me}
    /\ MaxRequests \in Nat

VARIABLES peer_keys,    \* highest_announce_ts of each peer, 0 if unknown
          archive,      \* [key, trust] of the archive key, or NoKey
          collector,    \* pending_consensus: the response of each peer
          originator,   \* channel_originators
          pin,          \* pinned_custodians, or NoPin
          epoch_keys,   \* trust of each epoch's key, or None
          processed,    \* requests_processed
          clicked       \* history: custodians in a list the user confirmed or accepted

keyManagerVars == <<peer_keys, archive, collector, originator, pin, epoch_keys,
          processed, clicked>>
keyVars == <<archive, collector, originator, epoch_keys, processed>>

Members == Peers \cup {Me}
NoKey == [key |-> None, trust |-> "Unverified"]
KeyRecord == [key : Keys \cup {None}, trust : Trust]
NoPin == [state |-> "absent", pinned |-> {}, pending |-> None]
PinState == [state : {"absent", "unconfirmed", "confirmed"},
             pinned : SUBSET Peers, pending : {None} \cup SUBSET Peers]
EmptyCollector == [p \in Peers |-> None]

KeyManagerTypeOK ==
    /\ peer_keys \in [Peers -> Nat]
    /\ archive \in KeyRecord
    /\ collector \in [Requests -> [Peers -> Keys \cup {None}]]
    /\ originator \in Members \cup {None}
    /\ pin \in PinState
    /\ epoch_keys \in [Epochs -> Trust \cup {None}]
    /\ processed \in 0 .. MaxRequests
    /\ clicked \subseteq Peers

KeyManagerInit ==
    /\ peer_keys = [p \in Peers |-> 0]
    /\ archive = NoKey
    /\ collector = [r \in Requests |-> EmptyCollector]
    /\ originator = None
    /\ pin = NoPin
    /\ epoch_keys = [e \in Epochs |-> None]
    /\ processed = 0
    /\ clicked = {}

-----------------------------------------------------------------------------
(* Trust authority and custodian pins                                      *)

is_trusted_authority(s, custodians) ==
    LET is_originator == originator = s IN
    /\ s \in custodians \/ is_originator
    /\ pin.state # "unconfirmed"
    /\ pin.state = "confirmed" => s \in pin.pinned \/ is_originator
    /\ pin.state = "absent" => is_originator

\* Mutant: a first list counts as confirmed whatever it holds.
FirstObservationConfirmed(custodians) ==
    [state |-> "confirmed", pinned |-> custodians, pending |-> None]

first_observation(custodians) ==
    [state   |-> IF custodians = {} THEN "confirmed" ELSE "unconfirmed",
     pinned  |-> custodians, pending |-> None]

update_custodian_pin(custodians) ==
    /\ pin' = IF pin.state = "absent"
              THEN first_observation(custodians)
              ELSE IF pin.pinned = custodians
                   THEN pin
                   ELSE [pin EXCEPT !.pending = custodians]
    /\ UNCHANGED <<peer_keys, keyVars, clicked>>

accept_custodian_update ==
    /\ pin.state # "absent"
    /\ LET list == IF pin.pending = None THEN pin.pinned ELSE pin.pending IN
       /\ pin' = [state |-> "confirmed", pinned |-> list, pending |-> None]
       /\ clicked' = clicked \cup list
    /\ UNCHANGED <<peer_keys, keyVars>>

confirm_custodian_list ==
    /\ pin.state # "absent"
    /\ pin' = [pin EXCEPT !.state = "confirmed"]
    /\ clicked' = clicked \cup pin.pinned
    /\ UNCHANGED <<peer_keys, keyVars>>

-----------------------------------------------------------------------------
(* Peer identities                                                         *)

\* Mutant: no anti-rollback check.
RecordAnyPeerKey(p, ts) ==
    /\ peer_keys' = [peer_keys EXCEPT ![p] = ts]
    /\ UNCHANGED <<keyVars, pin, clicked>>

\* A correctly signed announce, delivered in any order and any number of times.
record_peer_key(p, ts) ==
    /\ peer_keys' = [peer_keys EXCEPT ![p] = IF ts <= @ THEN @ ELSE ts]
    /\ UNCHANGED <<keyVars, pin, clicked>>

-----------------------------------------------------------------------------
(* Key exchange and consensus                                              *)

verify_key_exchange_signature(p, identity) ==
    peer_keys[p] # 0 /\ identity = peer_keys[p]

\* A response to a request goes to the request's collector, anything else
\* replaces the archive key at once.
store_exchanged_key(p, k, request) ==
    \/ /\ request # None
       /\ collector' = [collector EXCEPT ![request][p] = k]
       /\ UNCHANGED archive
    \/ /\ request = None
       /\ archive' = [key |-> k, trust |-> "Unverified"]
       /\ UNCHANGED collector

receive_key_exchange(p, k, identity, request) ==
    /\ verify_key_exchange_signature(p, identity)
    /\ store_exchanged_key(p, k, request)
    /\ UNCHANGED <<peer_keys, originator, pin, epoch_keys, processed, clicked>>

compute_consensus_threshold(observed_members) ==
    LET half == observed_members \div 2 IN
    IF half < 1 THEN 1 ELSE IF half > 5 THEN 5 ELSE half

Responders(resp) == {p \in Peers : resp[p] # None}
Group(resp, k) == {p \in Peers : resp[p] = k}
Offered(resp) == {resp[p] : p \in Responders(resp)}

\* What evaluate_consensus may store: the iteration order of its hash maps
\* decides between authorities that disagree and between groups of one size.
ByAuthority(resp, custodians) ==
    {[key |-> resp[p], trust |-> "Verified"] :
        p \in {q \in Responders(resp) : is_trusted_authority(q, custodians)}}

\* Mutant: with no authority the first offered key is taken as verified.
FirstOffer(resp) == {[key |-> k, trust |-> "Verified"] : k \in Offered(resp)}

ByResponses(resp) ==
    IF Cardinality(Offered(resp)) = 1
    THEN {[key |-> k, trust |->
              IF Cardinality(Group(resp, k)) >= compute_consensus_threshold(0)
              THEN "Verified" ELSE "Unverified"] : k \in Offered(resp)}
    ELSE {[key |-> k, trust |-> "Disputed"] :
             k \in {m \in Offered(resp) : \A o \in Offered(resp) :
                        Cardinality(Group(resp, o)) <= Cardinality(Group(resp, m))}}

evaluate_consensus(request, custodians) ==
    LET resp == collector[request] IN
    /\ Responders(resp) # {}
    /\ archive' \in IF ByAuthority(resp, custodians) # {}
                    THEN ByAuthority(resp, custodians)
                    ELSE ByResponses(resp)
    /\ collector' = [collector EXCEPT ![request] = EmptyCollector]
    /\ UNCHANGED <<peer_keys, originator, pin, epoch_keys, processed, clicked>>

resolve_dispute ==
    /\ archive # NoKey
    /\ archive' = [archive EXCEPT !.trust = "ManuallyVerified"]
    /\ UNCHANGED <<peer_keys, collector, originator, pin, epoch_keys, processed, clicked>>

handle_key_request(p) ==
    /\ processed < MaxRequests
    /\ archive # NoKey
    /\ processed' = processed + 1
    /\ UNCHANGED <<peer_keys, archive, collector, originator, pin, epoch_keys,
                   clicked>>

-----------------------------------------------------------------------------
(* Epoch keys and countersignatures                                        *)

store_epoch_key(e, t) ==
    /\ epoch_keys' = [epoch_keys EXCEPT ![e] = t]
    /\ UNCHANGED <<peer_keys, archive, collector, originator, pin, processed, clicked>>

verify_countersignature(e, signer, identity, custodians) ==
    /\ verify_key_exchange_signature(signer, identity)
    /\ is_trusted_authority(signer, custodians)
    /\ epoch_keys' = [epoch_keys EXCEPT ![e] = IF @ = None THEN None ELSE "Verified"]
    /\ UNCHANGED <<peer_keys, archive, collector, originator, pin, processed, clicked>>

-----------------------------------------------------------------------------
(* Plain mutators                                                          *)

store_archive_key(k, t) ==
    /\ archive' = [key |-> k, trust |-> t]
    /\ UNCHANGED <<peer_keys, collector, originator, pin, epoch_keys, processed, clicked>>

set_channel_originator(s) ==
    /\ originator' = s
    /\ UNCHANGED <<peer_keys, archive, collector, pin, epoch_keys, processed, clicked>>

\* The collectors are left alone.
remove_channel ==
    /\ epoch_keys' = [e \in Epochs |-> None]
    /\ archive' = NoKey
    /\ originator' = None
    /\ pin' = NoPin
    /\ UNCHANGED <<peer_keys, collector, processed, clicked>>

-----------------------------------------------------------------------------
KeyManagerNext ==
    \/ \E a \in Announces : record_peer_key(a[1], a[2])
    \/ \E a \in Announces, k \in Keys, r \in Requests \cup {None} :
           receive_key_exchange(a[1], k, a[2], r)
    \/ \E r \in Requests, c \in Lists : evaluate_consensus(r, c)
    \/ \E c \in Lists : update_custodian_pin(c)
    \/ accept_custodian_update
    \/ confirm_custodian_list
    \/ resolve_dispute
    \/ \E p \in Peers : handle_key_request(p)
    \/ \E e \in Epochs : store_epoch_key(e, "Unverified")
    \/ \E e \in Epochs, a \in Announces, c \in Lists :
           verify_countersignature(e, a[1], a[2], c)
    \/ \E k \in Keys : store_archive_key(k, "Verified")
    \/ \E s \in Founders : set_channel_originator(s)
    \/ remove_channel

KeyManagerSpec == KeyManagerInit /\ [][KeyManagerNext]_keyManagerVars

-----------------------------------------------------------------------------
(* Anti-rollback: whatever the order in which announces arrive, and however *)
(* often, a peer's recorded identity only moves on to a newer one within a  *)
(* connection.                                                              *)
NoRollback ==
    [][\A p \in Peers : peer_keys'[p] >= peer_keys[p]]_keyManagerVars

(* Trust on first use: nobody but the originator is ever a trusted          *)
(* authority, for any list the server claims, without having been in a      *)
(* custodian list that the user confirmed or accepted with a click.         *)
CustodianNeedsClick ==
    \A s \in Peers, c \in Lists :
        is_trusted_authority(s, c) => s = originator \/ s \in clicked

(* What a closed collector leaves behind: the key was offered by a          *)
(* responder; an authority's offer beats everybody else's; a key is         *)
(* Disputed exactly when responders disagree and none is an authority, and  *)
(* then no other key was offered by more of them.                           *)
ClosedBy(request, c) ==
    LET resp == collector[request]
        authorities == {p \in Responders(resp) : is_trusted_authority(p, c)}
        backers == {p \in Responders(resp) : resp[p] = archive'.key} IN
    /\ backers # {}
    /\ authorities # {} => authorities \cap backers # {} /\ archive'.trust = "Verified"
    /\ archive'.trust = "Disputed" <=> authorities = {} /\ backers # Responders(resp)
    /\ archive'.trust = "Disputed" =>
           \A p \in Responders(resp) :
               Cardinality(Group(resp, resp[p])) <= Cardinality(backers)
ConsensusSound ==
    [][\A r \in Requests :
          collector[r] # EmptyCollector /\ collector'[r] = EmptyCollector =>
              \A c \in Lists : evaluate_consensus(r, c) => ClosedBy(r, c)]_keyManagerVars
=============================================================================
