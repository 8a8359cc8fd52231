------------------------------ MODULE History ------------------------------
(***************************************************************************)
(* The messages of one SignalV1 channel as one client sees them: the       *)
(* thread shown to the user, the envelopes stashed until the sender's key  *)
(* arrives, the encrypted local cache, and the server's offline queue.     *)
(* An envelope can be decrypted once.  Events of the server are handled    *)
(* one at a time; a fetch response takes the PchatState out of the shared  *)
(* state while it decrypts, and commands run in that window.               *)
(*                                                                         *)
(* A message is its number in the order of sending, which is also its      *)
(* timestamp.                                                              *)
(***************************************************************************)
EXTENDS Naturals, Sequences, FiniteSets, SequencesExt, FiniteSetsExt

CONSTANTS MaxMsgs,      \* bound: messages sent to the channel
          MaxFetches,   \* bound: fetch_older_messages and deletions
          MaxDrops,     \* bound: disconnects and crashes
          MaxKeys,      \* bound: key distributions of the peer
          ThreadCap,    \* MAX_MESSAGES_PER_THREAD
          StashCap      \* MAX_STASHED_ENVELOPES

ASSUME HistoryAssumption ==
    /\ MaxMsgs \in Nat /\ MaxFetches \in Nat /\ MaxDrops \in Nat /\ MaxKeys \in Nat
    /\ ThreadCap \in Nat \ {0} /\ StashCap \in Nat \ {0}

VARIABLES
    log,      \* all messages so far: [by, chain]; chain: the sender key that
              \* encrypted it, NoChain if only the text was sent
    pending,  \* server: what it has yet to relay to us
    queue,    \* server: offline queue for us
    dist,     \* the peer's sender key chain, which the server hands out; NoChain
              \* before the first distribution
    down,     \* events on their way to us
    online,   \* we are connected
    thread,   \* msgs.by_channel: sequence of [id, body]
    pchat,    \* "here", "taken" by a fetch response, or "none"
    key,      \* the peer's chain we hold, or NoChain
    used,     \* envelopes that chain has been advanced past
    stash,    \* pending_signal_envelopes
    cache,    \* local_cache
    disk,     \* what save_signal_state and save_local_cache wrote
    batch,    \* what the fetch response decrypted, while pchat is taken
    send,     \* send_message of ours: [step, id, sealed]
    left,     \* bounds
    gone      \* history: messages given up, with the reason

server == <<log, pending, queue, dist>>
memory == <<thread, pchat, key, used, stash, cache>>
historyVars == <<server, memory, down, online, disk, batch, send, left, gone>>

NoChain == 0
Ids == 1..MaxMsgs
Mine == MaxKeys + 1      \* our own chain, which we never read with
Chains == 0..Mine
Sent == 1..Len(log)
Sealed(i) == log[i].chain # NoChain
Idle == [step |-> "idle", id |-> 0, sealed |-> FALSE]
Bodies == {"text", "placeholder"}

HistoryTypeOK ==
    /\ log \in BoundedSeq([by : {"peer", "me"}, chain : Chains], MaxMsgs)
    /\ queue \in BoundedSeq(Ids, MaxMsgs) /\ dist \in Chains
    /\ thread \in Seq([id : Ids, body : Bodies])
    /\ pchat \in {"here", "taken", "none"} /\ key \in Chains
    /\ used \subseteq Ids /\ cache \subseteq Ids /\ stash \in BoundedSeq(Ids, StashCap)
    /\ disk \in [key : Chains, used : SUBSET Ids, cache : SUBSET Ids]
    /\ send \in [step : {"idle", "queue", "store"}, id : 0..MaxMsgs,
                 sealed : BOOLEAN]
    /\ gone \in [stash : SUBSET Ids, crash : SUBSET Ids, cap : SUBSET Ids,
                 deleted : SUBSET Ids, wire : SUBSET Ids]
    /\ online \in BOOLEAN

HistoryInit ==
    /\ log = <<>> /\ pending = <<>> /\ queue = <<>> /\ dist = NoChain /\ down = <<>> /\ online = TRUE
    /\ thread = <<>> /\ pchat = "here" /\ key = NoChain /\ used = {} /\ stash = <<>>
    /\ cache = {} /\ disk = [key |-> NoChain, used |-> {}, cache |-> {}]
    /\ batch = <<>> /\ send = Idle
    /\ left = [fetches |-> MaxFetches, drops |-> MaxDrops, keys |-> MaxKeys]
    /\ gone = [stash |-> {}, crash |-> {}, cap |-> {}, deleted |-> {},
               wire |-> {}]

\* A finite set as the sequence that `Before` puts it in.
Arranged(S, Before(_, _)) ==
    CHOOSE f \in [1..Cardinality(S) -> S] :
        \A m, n \in 1..Cardinality(S) : m < n => Before(f[m], f[n])

InOrder(S) == Arranged(S, <)

\* Vec::retain: what a sequence has at the given places.
Retained(s, places) ==
    LET at == InOrder(places) IN [n \in DOMAIN at |-> s[at[n]]]

-----------------------------------------------------------------------------
(* The peer and the server (external)                                      *)

\* The peer's send_message; its own fetch may have its PchatState taken, or
\* its sender key may not exist yet, and then only the plain TextMessage goes
\* out.  The server stores the envelope.
PeerSend(sealed) ==
    /\ Len(log) < MaxMsgs
    /\ sealed => dist # NoChain
    /\ log' = Append(log, [by |-> "peer", chain |-> IF sealed THEN dist ELSE NoChain])
    /\ pending' = Append(pending, [kind |-> "message", id |-> Len(log) + 1])
    /\ UNCHANGED <<queue, dist, down, memory, online, disk, batch, send, left, gone>>

\* create_distribution: a chain is handed out as it was at its start, however
\* often; a peer that lost its state starts a new one.
create_distribution(lost) == IF lost \/ dist = NoChain THEN dist + 1 ELSE dist

\* The peer's send_signal_distribution.
PeerDistribute(lost) ==
    /\ left.keys > 0 /\ left' = [left EXCEPT !.keys = @ - 1]
    /\ dist' = create_distribution(lost)
    /\ pending' = Append(pending, [kind |-> "dist", chain |-> dist'])
    /\ UNCHANGED <<log, queue, down, memory, online, disk, batch, send, gone>>

\* What the server sends for it: messages in their order, and so the
\* distributions, which a task of the peer sends beside them.  A message for
\* which we are not there goes to the offline queue, one sent to us may be
\* kept there too.
\* The TextMessage in front of an envelope is skipped by its handler, so it
\* is an event of its own only where no envelope follows.
Relay(n) ==
    /\ \A m \in 1..(n - 1) : pending[m].kind # pending[n].kind
    /\ pending' = RemoveAt(pending, n)
    /\ LET m == pending[n]
           events == IF m.kind = "dist" THEN <<m>>
                     ELSE <<[kind |-> IF Sealed(m.id) THEN "deliver" ELSE "text",
                             id |-> m.id]>>
           queued == m.kind = "message" /\ Sealed(m.id)
       IN /\ down' = IF online THEN down \o events ELSE down
          /\ \/ queued /\ queue' = Append(queue, m.id)
             \/ (online \/ ~queued) /\ UNCHANGED queue
    /\ UNCHANGED <<log, dist, memory, online, disk, batch, send, left, gone>>

Stored == {i \in Sent : Sealed(i)}

\* fetch_older_messages and the server's answer.
FetchOlder ==
    /\ online /\ left.fetches > 0
    /\ left' = [left EXCEPT !.fetches = @ - 1]
    /\ down' = Append(down, [kind |-> "fetched", ids |-> InOrder(Stored)])
    /\ UNCHANGED <<server, memory, online, disk, batch, send, gone>>

\* A deletion by somebody with the permission for it.
ServerDelete(i) ==
    /\ online /\ i \in Stored /\ log[i].by = "peer"
    /\ i \notin gone.deleted /\ left.fetches > 0
    /\ left' = [left EXCEPT !.fetches = @ - 1]
    /\ down' = Append(down, [kind |-> "deleted", ids |-> {i}])
    /\ gone' = [gone EXCEPT !.deleted = @ \cup {i}]
    /\ UNCHANGED <<server, memory, online, disk, batch, send>>

-----------------------------------------------------------------------------
(* The helpers of the handlers                                             *)

\* Mutant: cache_signal_message is forgotten.
CachedNot(c, i) == c

\* LocalMessageCache::insert, once per id.
insert(c, i) == c \cup {i}

\* cache_signal_message
Cached(c, i) == insert(c, i)

\* InboundEnvelope::decrypt: the chain is the one that encrypted the envelope
\* and has not been advanced past it.
CanDecrypt(i, k, u) == k # NoChain /\ log[i].chain = k /\ i \notin u

Has(t, i) == \E n \in DOMAIN t : t[n].id = i

\* push_capped
PushCapped(t, m) ==
    LET longer == Append(t, m)
        excess == Len(longer) - ThreadCap
    IN IF excess > 0 THEN SubSeq(longer, excess + 1, Len(longer)) ELSE longer

\* insert_or_replace_message without a replaces_id, and the loop body of
\* insert_offline_messages.
Insert(t, m) == IF Has(t, m.id) THEN t ELSE PushCapped(t, m)

\* Mutant: what was fetched is added whether the thread has it or not.
UnseenAll(b, t) == b

\* The filter of merge_decrypted_messages.
Unseen(b, t) == Retained(b, {n \in DOMAIN b : ~Has(t, b[n].id)})

\* stash_signal_envelope
Stash(s, i) == Append(IF Len(s) >= StashCap THEN Tail(s) ELSE s, i)
StashDrops(s) == IF Len(s) >= StashCap THEN {Head(s)} ELSE {}

\* sort_by_key on the timestamp, which is stable.
Earlier(t, m, n) == t[m].id < t[n].id \/ (t[m].id = t[n].id /\ m < n)
ByTime(t) ==
    LET order == Arranged(DOMAIN t, LAMBDA m, n : Earlier(t, m, n))
    IN  [n \in DOMAIN t |-> t[order[n]]]

Event(kind) ==
    /\ online /\ pchat # "taken" /\ down # <<>> /\ Head(down).kind = kind
    /\ down' = Tail(down)

\* Messages the cap pushed out of the thread.
CapDrops(t, u) == {t[n].id : n \in DOMAIN t} \ {u[n].id : n \in DOMAIN u}

-----------------------------------------------------------------------------
(* Handlers                                                                *)

\* handle_channel_message: in an encrypted channel the text of a sender who
\* supports it is skipped, for its envelope comes separately.
HandleText ==
    /\ Event("text")
    /\ UNCHANGED <<server, memory, online, disk, batch, send, left, gone>>

\* decrypt_or_stash, cache_signal_message and insert_or_replace_message.
HandleDeliver ==
    /\ Event("deliver")
    /\ LET i == Head(down).id
           ok == CanDecrypt(i, key, used)
       IN IF pchat = "none" THEN UNCHANGED <<memory, gone>>
          ELSE /\ used' = IF ok THEN used \cup {i} ELSE used
               /\ cache' = IF ok THEN Cached(cache, i) ELSE cache
               /\ stash' = IF ok THEN stash ELSE Stash(stash, i)
               /\ thread' = Insert(thread, [id |-> i,
                                     body |-> IF ok THEN "text" ELSE "placeholder"])
               /\ gone' = [gone EXCEPT
                    !.stash = IF ok THEN @ ELSE @ \cup StashDrops(stash),
                    !.cap = @ \cup CapDrops(thread, thread')]
               /\ UNCHANGED <<pchat, key>>
    /\ UNCHANGED <<server, online, disk, batch, send, left>>

\* process_distribution forgets the record it has and starts the chain again,
\* so what it was advanced past can be read once more.
process_distribution(chain) == [key |-> chain, used |-> {}]

\* Decrypting a sequence in its order: a second copy of an envelope fails.
Openable(ids, record) ==
    {n \in DOMAIN ids : /\ CanDecrypt(ids[n], record.key, record.used)
                        /\ \A m \in 1..(n - 1) : ids[m] # ids[n]}

\* retry_stashed_signal_envelopes: what fails stays in the stash.
Retry(record) ==
    LET readable == Openable(stash, record)
        opened == {stash[n] : n \in readable}
    IN /\ key' = record.key
       /\ used' = record.used \cup opened
       /\ cache' = cache \cup opened
       /\ stash' = Retained(stash, DOMAIN stash \ readable)
       /\ thread' = [n \in DOMAIN thread |->
            IF thread[n].id \in opened THEN [thread[n] EXCEPT !.body = "text"]
                                       ELSE thread[n]]

\* handle_signal_sender_key_by_hash
HandleDistribution ==
    /\ Event("dist")
    /\ IF pchat = "none" THEN UNCHANGED memory
       ELSE Retry(process_distribution(Head(down).chain)) /\ UNCHANGED pchat
    /\ UNCHANGED <<server, online, disk, batch, send, left, gone>>

\* handle_proto_delete_messages; cache and stash keep their copies.
HandleDelete ==
    /\ Event("deleted")
    /\ thread' = Retained(thread, {n \in DOMAIN thread : thread[n].id \notin Head(down).ids})
    /\ UNCHANGED <<server, pchat, key, used, stash, cache, online, disk, batch, send,
                   left, gone>>

\* handle_proto_fetch_resp, phases 1 and 2: nothing is stashed here.
FetchTake ==
    /\ Event("fetched")
    /\ IF pchat = "none" THEN UNCHANGED <<memory, batch>>
       ELSE LET ids == Head(down).ids
                Opens(i) == log[i].by = "peer" /\ CanDecrypt(i, key, used)
                opened == {i \in ToSet(ids) : Opens(i)}
            IN /\ batch' = [n \in DOMAIN ids |->
                    [id |-> ids[n],
                     body |-> IF Opens(ids[n]) THEN "text" ELSE "placeholder"]]
               /\ used' = used \cup opened /\ cache' = cache \cup opened
               /\ pchat' = "taken"
               /\ UNCHANGED <<thread, key, stash>>
    /\ UNCHANGED <<server, online, disk, send, left, gone>>

\* Phase 3, merge_decrypted_messages: what is new goes first, then a stable
\* sort by time; the cap does not apply.
FetchMerge ==
    /\ pchat = "taken"
    /\ pchat' = "here" /\ batch' = <<>>
    /\ thread' = IF batch = <<>> THEN thread ELSE ByTime(Unseen(batch, thread) \o thread)
    /\ UNCHANGED <<server, key, used, stash, cache, down, online, disk, send, left, gone>>

-----------------------------------------------------------------------------
(* handle_proto_offline_queue_drain                                        *)

DrainStash(s, i) == Stash(s, i)

\* What decrypt_offline_batch and insert_offline_messages make of the stash
\* and the thread for one message, which could be decrypted or not.
DrainStep(i, ok, st) ==
    LET t == Insert(st.thread, [id |-> i, body |-> IF ok THEN "text" ELSE "placeholder"])
    IN [stash  |-> IF ok THEN st.stash ELSE DrainStash(st.stash, i),
        lost   |-> IF ok THEN st.lost ELSE st.lost \cup StashDrops(st.stash),
        cap    |-> st.cap \cup CapDrops(st.thread, t),
        thread |-> t]

\* And what they make of them for the whole batch.
Drained(ids, readable) ==
    LET after[n \in 0..Len(ids)] ==
            IF n = 0 THEN [stash |-> stash, thread |-> thread, lost |-> {}, cap |-> {}]
            ELSE DrainStep(ids[n], n \in readable, after[n - 1])
    IN  after[Len(ids)]

\* All of them are acknowledged, read or not, and the server forgets them.
send_offline_queue_ack(ids) ==
    queue' = Retained(queue, {n \in DOMAIN queue : queue[n] \notin ToSet(ids)})

\* The distributions come first, then the messages.  It is the first event of
\* a connection, so the stash that a distribution retries is empty.
HandleDrain ==
    /\ Event("drain")
    /\ IF pchat = "none" THEN UNCHANGED <<memory, queue, gone>>
       ELSE LET e == Head(down)
                record == IF e.chain = NoChain THEN [key |-> key, used |-> used]
                          ELSE process_distribution(e.chain)
                readable == Openable(e.ids, record)
                opened == {e.ids[n] : n \in readable}
                end == Drained(e.ids, readable)
            IN /\ key' = record.key
               /\ used' = record.used \cup opened /\ cache' = cache \cup opened
               /\ stash' = end.stash
               /\ thread' = IF e.ids = <<>> THEN thread ELSE ByTime(end.thread)
               /\ send_offline_queue_ack(e.ids)
               /\ gone' = [gone EXCEPT !.stash = @ \cup end.lost, !.cap = @ \cup end.cap]
               /\ UNCHANGED pchat
    /\ UNCHANGED <<log, pending, dist, online, disk, batch, send, left>>

-----------------------------------------------------------------------------
(* send_message: reads the channel's mode, builds the envelope under the   *)
(* lock, queues both messages and stores its own copy at the end.          *)

\* prebuilt_pchat_message: no PchatState, no envelope, and no error.
SendBuild ==
    /\ online /\ send.step = "idle" /\ Len(log) < MaxMsgs
    /\ send' = [send EXCEPT !.step = "queue", !.sealed = (pchat = "here")]
    /\ UNCHANGED <<server, memory, down, online, disk, batch, left, gone>>

\* Text and envelope reach the server, or the connection is gone.
SendQueue ==
    /\ send.step = "queue"
    /\ IF online /\ Len(log) < MaxMsgs
       THEN /\ log' = Append(log, [by |-> "me", chain |-> IF send.sealed THEN Mine ELSE NoChain])
            /\ send' = [send EXCEPT !.step = "store", !.id = Len(log) + 1]
       ELSE send' = Idle /\ UNCHANGED log
    /\ UNCHANGED <<pending, queue, dist, memory, down, online, disk, batch, left, gone>>

\* store_own_message: cached if the PchatState is there, pushed unseen.
SendStore ==
    /\ send.step = "store"
    /\ cache' = IF pchat = "here" THEN insert(cache, send.id) ELSE cache
    /\ thread' = PushCapped(thread, [id |-> send.id, body |-> "text"])
    /\ gone' = [gone EXCEPT !.cap = @ \cup CapDrops(thread, thread')]
    /\ send' = Idle
    /\ UNCHANGED <<server, pchat, key, used, stash, down, online, disk, batch, left>>

-----------------------------------------------------------------------------
(* Disconnect, crash and the next ServerSync                               *)

Drop == left.drops > 0 /\ left' = [left EXCEPT !.drops = @ - 1]

\* Deliveries that are on the wire are not acknowledged and go with it.
OnTheWire == {down[n].id : n \in {m \in DOMAIN down : down[m].kind = "deliver"}}

export_state == [key |-> key, used |-> used]
import_state(d) == key' = d.key /\ used' = d.used
save_signal_state(d) == [d EXCEPT !.key = export_state.key, !.used = export_state.used]
save_local_cache(d) == [d EXCEPT !.cache = cache]

\* all_chat_messages: what the cache shows, by time.
all_chat_messages(c) ==
    LET ids == InOrder(c)
    IN [n \in DOMAIN ids |-> [id |-> ids[n], body |-> "text"]]

\* The loop has ended, so no handler is running: sender keys and cache are
\* saved one after the other, the stash is not.
Disconnect ==
    /\ online /\ pchat # "taken" /\ send.step = "idle" /\ Drop
    /\ disk' = save_local_cache(save_signal_state(disk))
    /\ gone' = [gone EXCEPT !.stash = @ \cup ToSet(stash), !.wire = @ \cup OnTheWire]
    /\ online' = FALSE /\ down' = <<>> /\ pchat' = "none"
    /\ thread' = <<>> /\ stash' = <<>> /\ key' = NoChain /\ used' = {} /\ cache' = {}
    /\ UNCHANGED <<server, batch, send>>

\* The process dies: at any time, or between the two files of a disconnect.
Crash(between) ==
    /\ online /\ Drop
    /\ disk' = IF between /\ pchat = "here"
               THEN save_signal_state(disk) ELSE disk
    /\ gone' = [gone EXCEPT !.stash = @ \cup ToSet(stash), !.wire = @ \cup OnTheWire,
                            !.crash = @ \cup (cache \ disk.cache)]
    /\ online' = FALSE /\ down' = <<>> /\ pchat' = "none"
    /\ thread' = <<>> /\ stash' = <<>> /\ key' = NoChain /\ used' = {} /\ cache' = {}
    /\ batch' = <<>> /\ send' = Idle
    /\ UNCHANGED server

\* init_pchat with load_signal_state and load_local_cache; the server drains
\* its queue with the distributions it has.
Connect ==
    /\ ~online
    /\ online' = TRUE /\ pchat' = "here"
    /\ import_state(disk) /\ cache' = disk.cache
    /\ thread' = all_chat_messages(disk.cache)
    /\ down' = <<[kind |-> "drain", ids |-> queue, chain |-> dist]>>
    /\ UNCHANGED <<server, stash, disk, batch, send, left, gone>>

HistoryNext ==
    \/ \E sealed \in BOOLEAN : PeerSend(sealed)
    \/ \E lost \in BOOLEAN : PeerDistribute(lost)
    \/ FetchOlder
    \/ \E n \in DOMAIN pending : Relay(n)
    \/ \E i \in Sent : ServerDelete(i)
    \/ HandleText \/ HandleDeliver \/ HandleDistribution \/ HandleDelete \/ HandleDrain
    \/ FetchTake \/ FetchMerge
    \/ SendBuild \/ SendQueue \/ SendStore
    \/ Disconnect \/ Connect
    \/ \E between \in BOOLEAN : Crash(between)

HistorySpec == HistoryInit /\ [][HistoryNext]_historyVars

-----------------------------------------------------------------------------
(* Properties                                                              *)

Ready == online /\ pchat = "here"
Waiting(i) ==
    \/ \E n \in DOMAIN pending : pending[n].kind = "message" /\ pending[n].id = i
    \/ \E n \in DOMAIN down :
           \/ down[n].kind = "deliver" /\ down[n].id = i
           \/ down[n].kind = "drain" /\ i \in ToSet(down[n].ids)

(* An envelope the sender key was advanced past cannot be decrypted until   *)
(* the peer distributes its key again, so its text is in the cache from     *)
(* then on, across restarts too; only a crash loses it.                     *)
DecryptedIsKept == Ready => used \subseteq cache \cup gone.crash

(* However deliveries, fetches and the offline queue overlap                *)
(* (insert_or_replace_message, insert_offline_messages,                     *)
(* merge_decrypted_messages), a message of somebody else is shown at most   *)
(* once, and an encrypted one is not lost: it is still to be handled, in    *)
(* the thread, the stash or the cache, or there is a reason for its absence *)
(* (deleted, pushed out by the cap, given up with the stash, a crash or the wire). *)
HistoryExact ==
    /\ \A m, n \in DOMAIN thread :
          m # n /\ thread[m].id = thread[n].id => log[thread[m].id].by = "me"
    /\ Ready => \A i \in Stored :
          log[i].by = "peer" =>
              \/ Waiting(i) \/ Has(thread, i) \/ i \in cache \/ i \in ToSet(stash)
              \/ i \in gone.deleted \cup gone.cap \cup gone.stash \cup gone.crash
                   \cup gone.wire
=============================================================================
