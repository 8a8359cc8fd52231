----------------------------- MODULE KeySharing -----------------------------
(***************************************************************************)
(* Who holds the archive key of a channel, and the consent prompts that    *)
(* ask the user to share it.  Prompts are raised by three handlers and     *)
(* taken away by six; approving one sends the key with the lock released   *)
(* and records the new holder afterwards.  A peer is its cert hash.        *)
(***************************************************************************)
EXTENDS Naturals, FiniteSets

CONSTANTS Chans,    \* channel ids
          Peers     \* other members' cert hashes

VARIABLES place,    \* users: the channel each peer is in, Offline if in none
          archive,  \* channels in FullArchive mode
          keyed,    \* channels whose archive key we hold
          known,    \* peers whose announced key the key manager has
          holders,  \* key_holders of the key manager, without ourselves
          prompts,  \* pending_key_shares: <<channel, peer>>
          sending,  \* approve_key_share between its send and its second lock
          approved, \* history: pairs whose key was sent
          synced    \* conn.synced; a kick clears it with users and channels

sharing == <<place, archive, keyed, known, holders, prompts, sending, approved,
             synced>>

Offline == "offline"

\* Being offline is not being in some channel.
ASSUME OfflineIsNoChannel == Offline \notin Chans

Pairs == Chans \X Peers

SharingTypeOK ==
    /\ place \in [Peers -> Chans \cup {Offline}]
    /\ archive \subseteq Chans /\ keyed \subseteq Chans /\ known \subseteq Peers
    /\ holders \in [Chans -> SUBSET Peers]
    /\ prompts \subseteq Pairs /\ sending \subseteq Pairs /\ approved \subseteq Pairs
    /\ synced \in BOOLEAN

SharingInit ==
    /\ place \in [Peers -> Chans \cup {Offline}]
    /\ archive \in SUBSET Chans /\ keyed \in SUBSET archive
    /\ known = {} /\ holders = [c \in Chans |-> {}]
    /\ prompts = {} /\ sending = {} /\ approved = {}
    /\ synced = TRUE

\* retain() on the prompts of a channel.
PromptsOf(c) == {x \in prompts : x[1] = c}

-----------------------------------------------------------------------------
(* Raising prompts; queue_key_share_consent skips a pair that is pending.  *)

\* check_key_share_for_channel: everybody who is in the channel by then.
SharePeers(c, where) ==
    IF c \in archive \cap keyed
    THEN {p \in Peers \ holders[c] : where[p] = c /\ p \in known}
    ELSE {}

\* UserState of another user that is new or in a new channel.
RemoteMove(p, c) ==
    /\ synced /\ place[p] # c
    /\ place' = [place EXCEPT ![p] = c]
    /\ prompts' = prompts \cup ({c} \X SharePeers(c, place'))
    /\ UNCHANGED <<archive, keyed, known, holders, sending, approved, synced>>

\* find_shareable_channels: where the peer is, for each of its sessions.
ShareableChannels(p) ==
    {c \in archive \cap keyed : place[p] = c /\ p \notin holders[c]}

\* handle_proto_key_announce of a key that record_peer_key accepts.
KeyAnnounce(p) ==
    /\ synced
    /\ known' = known \cup {p}
    /\ prompts' = prompts \cup (ShareableChannels(p) \X {p})
    /\ UNCHANGED <<place, archive, keyed, holders, sending, approved, synced>>

\* handle_proto_key_request, with its early returns.
KeyRequest(c, p) ==
    /\ synced /\ c \in keyed
    /\ place[p] # Offline /\ p \notin holders[c]
    /\ prompts' = prompts \cup {<<c, p>>}
    /\ UNCHANGED <<place, archive, keyed, known, holders, sending, approved, synced>>

-----------------------------------------------------------------------------
(* Taking prompts away                                                     *)

\* UserRemove of another user.
UserRemove(p) ==
    /\ synced /\ place[p] # Offline
    /\ place' = [place EXCEPT ![p] = Offline]
    /\ prompts' = {x \in prompts : x[2] # p}
    /\ UNCHANGED <<archive, keyed, known, holders, sending, approved, synced>>

\* PchatKeyHoldersList: the server's list replaces ours.
HoldersList(c, list) ==
    /\ synced
    /\ holders' = [holders EXCEPT ![c] = list]
    /\ prompts' = prompts \ ({c} \X list)
    /\ UNCHANGED <<place, archive, keyed, known, sending, approved, synced>>

\* handle_proto_key_exchange from a peer whose signature verifies.
KeyExchange(c, p) ==
    /\ synced /\ p \in known
    /\ keyed' = keyed \cup {c}
    /\ holders' = [holders EXCEPT ![c] = @ \cup {p}]
    /\ prompts' = prompts \ {<<c, p>>}
    /\ UNCHANGED <<place, archive, known, sending, approved, synced>>

\* Mutant: the prompts of a removed channel stay.
RevokeKeepsPrompts(c) ==
    /\ keyed' = keyed \ {c}
    /\ holders' = [holders EXCEPT ![c] = {}]
    /\ UNCHANGED prompts

\* What ChannelRemove and a failed challenge have in common.
Revoke(c) ==
    /\ keyed' = keyed \ {c}
    /\ holders' = [holders EXCEPT ![c] = {}]
    /\ prompts' = prompts \ PromptsOf(c)

ChannelRemove(c) ==
    /\ synced /\ Revoke(c)
    /\ archive' = archive \ {c}
    /\ UNCHANGED <<place, known, sending, approved, synced>>

\* handle_proto_key_challenge_result with passed = false.
ChallengeFailed(c) ==
    /\ synced /\ Revoke(c)
    /\ UNCHANGED <<place, archive, known, sending, approved, synced>>

\* dismiss_key_share
Dismiss(c, p) ==
    /\ prompts' = prompts \ {<<c, p>>}
    /\ UNCHANGED <<place, archive, keyed, known, holders, sending, approved, synced>>

-----------------------------------------------------------------------------
(* approve_key_share: the prompt is gone whether or not the key can be     *)
(* sent; the second lock records the holder without looking at prompts.    *)

Approve(c, p) ==
    /\ <<c, p>> \in prompts
    /\ prompts' = prompts \ {<<c, p>>}
    /\ IF p \in known /\ c \in keyed /\ synced
       THEN /\ sending' = sending \cup {<<c, p>>}
            /\ approved' = approved \cup {<<c, p>>}
       ELSE UNCHANGED <<sending, approved>>
    /\ UNCHANGED <<place, archive, keyed, known, holders, synced>>

ApproveSent(c, p) ==
    /\ <<c, p>> \in sending
    /\ sending' = sending \ {<<c, p>>}
    /\ \/ holders' = [holders EXCEPT ![c] = @ \cup {p}]
       \/ UNCHANGED holders      \* the send failed
    /\ UNCHANGED <<place, archive, keyed, known, prompts, approved, synced>>

-----------------------------------------------------------------------------
(* What the other modules do to this state                                 *)

\* A task of ArchiveKeys derives the key and reports us as a holder.
KeyDerived(c) ==
    /\ keyed' = keyed \cup {c}
    /\ UNCHANGED <<place, archive, known, holders, prompts, sending, approved,
                   synced>>

\* ChannelState with another mode: prompts are left alone.
ModeChange(c) ==
    /\ synced
    /\ archive' = IF c \in archive THEN archive \ {c} ELSE archive \cup {c}
    /\ UNCHANGED <<place, keyed, known, holders, prompts, sending, approved,
                   synced>>

\* UserRemove of our own session: users and channels are cleared, the
\* persistent chat state is not.
Kicked ==
    /\ synced /\ synced' = FALSE
    /\ place' = [p \in Peers |-> Offline] /\ archive' = {}
    /\ UNCHANGED <<keyed, known, holders, prompts, sending, approved>>

SharingNext ==
    \/ \E p \in Peers : KeyAnnounce(p) \/ UserRemove(p)
    \/ \E c \in Chans, p \in Peers :
           \/ RemoteMove(p, c) \/ KeyRequest(c, p) \/ KeyExchange(c, p)
           \/ Dismiss(c, p) \/ Approve(c, p) \/ ApproveSent(c, p)
    \/ \E c \in Chans :
           \/ ChannelRemove(c) \/ ChallengeFailed(c)
           \/ KeyDerived(c) \/ ModeChange(c)
           \/ \E list \in SUBSET Peers : HoldersList(c, list)
    \/ Kicked

SharingSpec == SharingInit /\ [][SharingNext]_sharing

-----------------------------------------------------------------------------
(* Every prompt can still be answered: we hold the key it is about, the     *)
(* peer is online while we are, and a peer who already holds the key is     *)
(* only asked about again when the first answer was still being sent.       *)
PromptsJustified ==
    \A x \in prompts :
        /\ x[1] \in keyed
        /\ synced => place[x[2]] # Offline
        /\ x[2] \in holders[x[1]] => x \in approved
=============================================================================
