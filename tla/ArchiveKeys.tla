---------------------------- MODULE ArchiveKeys ----------------------------
(***************************************************************************)
(* The archive keys of persistent chat in the app: in memory, in the key   *)
(* file, and in the tasks that derive, store and persist them while the    *)
(* event handler accepts, replaces and removes them.  A task runs between  *)
(* two acquisitions of the session lock in one step; reading, truncating   *)
(* and writing the file are steps of their own.  The app may be killed at  *)
(* any step; the next start restores the file.                             *)
(*                                                                         *)
(* A key is where it came from: derived from our seed (always the same for *)
(* one channel) or received from a peer.  Trust and originators are in     *)
(* KeyManager, key holders and consent prompts in KeySharing.              *)
(***************************************************************************)
EXTENDS Naturals, FiniteSets

CONSTANTS Chans,         \* channel ids
          Tasks,         \* bound: spawned tasks that run at a time
          MaxEvents,     \* bound: messages of the server
          MaxKills,      \* bound: times the app is killed
          BridgeLoads    \* whether the Signal bridge library can be loaded

Handler == "handler"          \* the event handler, as a user of the file
NoChan == "no channel"

ASSUME ArchiveAssumption ==
    /\ IsFiniteSet(Chans) /\ Chans # {}
    /\ Tasks # {} /\ Handler \notin Tasks
    /\ MaxEvents \in Nat /\ MaxKills \in Nat
    /\ BridgeLoads \in BOOLEAN

Modes == {"plain", "archive", "signal"}
KeySet == {"none", "derived", "peer"}
NoKeys == [c \in Chans |-> "none"]

VARIABLES mode,       \* pchat_protocol of each channel
          current,    \* current_channel
          key,        \* archive_keys of the key manager
          bridge,     \* signal_bridge is Some
          fetched,    \* fetched_channels
          file,       \* the key file; one that does not parse holds nothing
          lock,       \* the session lock: "free", "handler" or "stuck"
          task,       \* what each task and the event handler are doing
          loading,    \* channels that the UI shows as loading
          events, kills,
          asked,      \* history: channels whose messages were asked for
          received,   \* history: peer's key accepted since the last removal
          restored    \* history: key restored at the start and not removed

memory == <<key, bridge, fetched>>
ghosts == <<asked, received, restored>>
counts == <<events, kills>>
vars == <<mode, current, memory, file, lock, task, loading, counts, ghosts>>

Idle == [pc |-> "idle", ch |-> NoChan, m |-> "plain", next |-> "idle",
         put |-> "none", snap |-> NoKeys]
Pcs == {"idle", "sync", "ensure", "check", "generate", "fetch", "timer",
        "join", "derive", "jcheck", "originate", "jfetch",
        "change", "needs", "store", "should", "refetch",
        "read", "truncate", "write"}
TaskState == [pc : Pcs, ch : Chans \cup {NoChan}, m : Modes, next : Pcs,
              put : KeySet, snap : [Chans -> KeySet]]
Users == Tasks \cup {Handler}

TypeOK ==
    /\ mode \in [Chans -> Modes] /\ current \in Chans
    /\ key \in [Chans -> KeySet] /\ bridge \in BOOLEAN
    /\ fetched \subseteq Chans
    /\ file \in [Chans -> KeySet]
    /\ lock \in {"free", "handler", "stuck"}
    /\ task \in [Users -> TaskState]
    /\ loading \subseteq Chans
    /\ events \in 0 .. MaxEvents /\ kills \in 0 .. MaxKills
    /\ asked \subseteq Chans /\ received \subseteq Chans /\ restored \subseteq Chans

has_key(c, m) == \/ m = "archive" /\ key[c] # "none"
                 \/ m = "signal" /\ bridge

\* init_pchat at ServerSync: the key file is restored and the task that
\* announces our keys and sets up the first channel is spawned.
Started(keys) ==
    [key |-> keys, task |-> LET t == CHOOSE t \in Tasks : TRUE IN
        [u \in Users |-> IF u = t THEN [Idle EXCEPT !.pc = "sync"] ELSE Idle]]

Init ==
    /\ mode \in [Chans -> Modes] /\ current \in Chans
    /\ key = Started(NoKeys).key /\ task = Started(NoKeys).task
    /\ bridge = FALSE /\ fetched = {} /\ file = NoKeys
    /\ lock = "free" /\ loading = {}
    /\ events = 0 /\ kills = 0
    /\ asked = {} /\ received = {} /\ restored = {}

\* The app is killed, at any point, and started again.
Kill ==
    /\ kills < MaxKills /\ kills' = kills + 1
    /\ key' = Started(file).key /\ task' = Started(file).task
    /\ bridge' = FALSE /\ fetched' = {} /\ lock' = "free" /\ loading' = {}
    /\ asked' = {}
    /\ restored' = {c \in Chans : file[c] # "none"}
    /\ UNCHANGED <<mode, current, file, events, received>>

-----------------------------------------------------------------------------
(* Steps of the tasks                                                      *)

At(t, pc) == task[t].pc = pc
Goto(t, pc) == task' = [task EXCEPT ![t].pc = pc]
End(t) == task' = [task EXCEPT ![t] = Idle]
Free == lock = "free"

\* ensure_signal_bridge: loads the library unless it is loaded.
BridgeAfter == bridge \/ BridgeLoads

Derive(c) == key' = [key EXCEPT ![c] = "derived"]

\* The task continues with the file if a key is to be persisted.
Persist(t, k, next) ==
    task' = [task EXCEPT ![t].pc = "read", ![t].put = k, ![t].next = next]

\* spawn_key_announce_and_channel_init: the channel is the one that is
\* current when the announcement has been sent.
SyncResolve(t) ==
    /\ At(t, "sync") /\ Free
    /\ \/ /\ mode[current] = "plain" /\ End(t) /\ UNCHANGED loading
       \/ /\ mode[current] # "plain"
          /\ task' = [task EXCEPT ![t].pc = "ensure", ![t].ch = current,
                                  ![t].m = mode[current]]
          /\ loading' = loading \cup {current}
    /\ UNCHANGED <<mode, current, memory, file, lock, counts, ghosts>>

\* ensure_protocol_key: the key is looked for and derived under one lock.
SyncEnsure(t) ==
    LET c == task[t].ch IN
    /\ At(t, "ensure") /\ Free
    /\ \/ /\ task[t].m = "archive"
          /\ key' = [key EXCEPT ![c] = IF @ = "none" THEN "derived" ELSE @]
          /\ Goto(t, "check") /\ UNCHANGED <<bridge, loading>>
       \/ /\ task[t].m = "signal" /\ bridge' = BridgeAfter
          /\ IF BridgeAfter THEN Goto(t, "check") /\ UNCHANGED loading
             ELSE End(t) /\ loading' = loading \ {c}
          /\ UNCHANGED key
    /\ UNCHANGED <<mode, current, fetched, file, lock, counts, ghosts>>

\* await_or_generate_key: looked up again after at most two seconds.
SyncCheck(t) ==
    /\ At(t, "check") /\ Free
    /\ Goto(t, IF has_key(task[t].ch, task[t].m) THEN "fetch" ELSE "generate")
    /\ UNCHANGED <<mode, current, memory, file, lock, loading, counts, ghosts>>

\* self_generate_key: by the mode of the channel at this point.
SyncGenerate(t) ==
    LET c == task[t].ch IN
    /\ At(t, "generate") /\ Free
    /\ \/ mode[c] = "archive" /\ Derive(c) /\ UNCHANGED bridge
       \/ mode[c] = "signal" /\ bridge' = BridgeAfter /\ UNCHANGED key
       \/ mode[c] = "plain" /\ UNCHANGED <<key, bridge>>
    /\ Goto(t, "fetch")
    /\ UNCHANGED <<mode, current, fetched, file, lock, loading, counts, ghosts>>

\* fetch_channel_history, with the 15 s timer that ends the indicator.
SyncFetch(t) ==
    /\ At(t, "fetch") /\ Free
    /\ fetched' = fetched \cup {task[t].ch}
    /\ asked' = asked \cup {task[t].ch}
    /\ Goto(t, "timer")
    /\ UNCHANGED <<mode, current, key, bridge, file, lock, loading, counts,
                   received, restored>>

\* Mutant: the indicator is only cleared by an answer.
TimerKeepsLoading(t) ==
    /\ At(t, "timer") /\ Free /\ End(t)
    /\ UNCHANGED <<mode, current, memory, file, lock, counts, ghosts, loading>>

TimerFires(t) ==
    /\ At(t, "timer") /\ Free /\ End(t)
    /\ loading' = loading \ {task[t].ch}
    /\ UNCHANGED <<mode, current, memory, file, lock, counts, ghosts>>

\* pchat_init_task, from its first read of the mode.
JoinBegin(t) ==
    LET c == task[t].ch IN
    /\ At(t, "join") /\ Free
    /\ loading' = loading \cup {c}
    /\ task' = [task EXCEPT ![t].m = mode[c],
                    ![t].pc = IF mode[c] = "plain" THEN "jcheck" ELSE "derive"]
    /\ UNCHANGED <<mode, current, memory, file, lock, counts, ghosts>>

\* maybe_derive_archive_key_for_join, or the bridge.
JoinDerive(t) ==
    LET c == task[t].ch IN
    /\ At(t, "derive") /\ Free
    /\ \/ /\ task[t].m = "archive" /\ key[c] = "none"
          /\ Derive(c) /\ Persist(t, "derived", "jcheck")
          /\ UNCHANGED <<bridge, loading>>
       \/ /\ task[t].m = "archive" /\ key[c] # "none"
          /\ Goto(t, "jcheck") /\ UNCHANGED <<key, bridge, loading>>
       \/ /\ task[t].m = "signal" /\ bridge' = BridgeAfter /\ UNCHANGED key
          /\ IF BridgeAfter THEN Goto(t, "jcheck") /\ UNCHANGED loading
             ELSE End(t) /\ loading' = loading \ {c}
    /\ UNCHANGED <<mode, current, fetched, file, lock, counts, ghosts>>

\* Mutant: a join that finds no key gives up.
JoinGivesUp(t) ==
    LET c == task[t].ch IN
    /\ At(t, "jcheck") /\ Free
    /\ IF mode[c] = "plain" \/ has_key(c, mode[c]) THEN Goto(t, "jfetch")
       ELSE End(t)
    /\ UNCHANGED <<mode, current, memory, file, lock, loading, counts, ghosts>>

JoinCheck(t) ==
    LET c == task[t].ch IN
    /\ At(t, "jcheck") /\ Free
    /\ Goto(t, IF mode[c] = "plain" \/ has_key(c, mode[c])
               THEN "jfetch" ELSE "originate")
    /\ UNCHANGED <<mode, current, memory, file, lock, loading, counts, ghosts>>

\* derive_channel_key_as_originator: when the bridge does not load, the
\* error is emitted with the lock held, and emitting takes the lock.
JoinOriginate(t) ==
    LET c == task[t].ch IN
    /\ At(t, "originate") /\ Free
    /\ \/ /\ mode[c] = "archive"
          /\ Derive(c) /\ Persist(t, "derived", "jfetch")
          /\ UNCHANGED <<bridge, lock>>
       \/ /\ mode[c] = "signal" /\ bridge' = BridgeAfter
          /\ lock' = IF BridgeAfter THEN "free" ELSE "stuck"
          /\ Goto(t, "jfetch") /\ UNCHANGED key
       \/ mode[c] = "plain" /\ Goto(t, "jfetch") /\ UNCHANGED <<key, bridge, lock>>
    /\ UNCHANGED <<mode, current, fetched, file, loading, counts, ghosts>>

JoinFetch(t) ==
    /\ At(t, "jfetch") /\ Free
    /\ asked' = asked \cup {task[t].ch}
    /\ Goto(t, "timer")
    /\ UNCHANGED <<mode, current, memory, file, lock, loading, counts,
                   received, restored>>

\* pchat_key_gen_and_fetch, after a change of the current channel's mode.
ChangeBegin(t) ==
    LET c == task[t].ch IN
    /\ At(t, "change") /\ Free
    /\ IF mode[c] = "plain" THEN End(t)
       ELSE task' = [task EXCEPT ![t].pc = "needs", ![t].m = mode[c]]
    /\ UNCHANGED <<mode, current, memory, file, lock, loading, counts, ghosts>>

ChangeNeeds(t) ==
    /\ At(t, "needs") /\ Free
    /\ Goto(t, IF has_key(task[t].ch, task[t].m) THEN "should" ELSE "store")
    /\ UNCHANGED <<mode, current, memory, file, lock, loading, counts, ghosts>>

\* derive_and_store_archive_key: whatever key arrived since is replaced,
\* and the derived one is not persisted.
ChangeStore(t) ==
    LET c == task[t].ch IN
    /\ At(t, "store") /\ Free
    /\ IF mode[c] = "archive" THEN Derive(c) ELSE UNCHANGED key
    /\ Goto(t, "should")
    /\ UNCHANGED <<mode, current, bridge, fetched, file, lock, loading, counts,
                   ghosts>>

ChangeShould(t) ==
    /\ At(t, "should") /\ Free
    /\ IF task[t].ch \in fetched THEN End(t) ELSE Goto(t, "refetch")
    /\ UNCHANGED <<mode, current, memory, file, lock, loading, counts, ghosts>>

ChangeFetch(t) ==
    /\ At(t, "refetch") /\ Free
    /\ fetched' = fetched \cup {task[t].ch}
    /\ asked' = asked \cup {task[t].ch}
    /\ End(t)
    /\ UNCHANGED <<mode, current, key, bridge, file, lock, loading, counts,
                   received, restored>>

-----------------------------------------------------------------------------
(* persist_archive_key and delete_persisted_archive_key: read, change and  *)
(* write back, without a lock on the file; fs::write truncates it first.   *)

\* What its user does when the file work is over; the event handler gives
\* the lock back if it holds it.
FileDone(u) ==
    /\ task' = [task EXCEPT ![u] = IF u = Handler THEN Idle
                    ELSE [@ EXCEPT !.pc = task[u].next, !.next = "idle",
                                   !.put = "none", !.snap = NoKeys]]
    /\ lock' = IF u = Handler /\ lock = "handler" THEN "free" ELSE lock

\* A delete that finds no entry leaves the file alone.
FileRead(u) ==
    LET c == task[u].ch IN
    /\ At(u, "read")
    /\ \/ task[u].put = "none" /\ file[c] = "none" /\ FileDone(u)
       \/ /\ task[u].put # "none" \/ file[c] # "none"
          /\ task' = [task EXCEPT ![u].pc = "truncate",
                                  ![u].snap = [file EXCEPT ![c] = task[u].put]]
          /\ UNCHANGED lock
    /\ UNCHANGED <<mode, current, memory, file, loading, counts, ghosts>>

FileTruncate(u) ==
    /\ At(u, "truncate")
    /\ file' = NoKeys /\ Goto(u, "write")
    /\ UNCHANGED <<mode, current, memory, lock, loading, counts, ghosts>>

FileWrite(u) ==
    /\ At(u, "write")
    /\ file' = task[u].snap /\ FileDone(u)
    /\ UNCHANGED <<mode, current, memory, loading, counts, ghosts>>

-----------------------------------------------------------------------------
(* The event handler: one message at a time                                *)

Message ==
    /\ At(Handler, "idle") /\ Free
    /\ events < MaxEvents /\ events' = events + 1 /\ UNCHANGED kills

Spawn(pc, c) ==
    \E t \in Tasks : /\ At(t, "idle")
                     /\ task' = [task EXCEPT ![t].pc = pc, ![t].ch = c]

\* The handler's own work on the file, done before the next message.
HandlerFile(c, k) ==
    task' = [task EXCEPT ![Handler] =
                [Idle EXCEPT !.pc = "read", !.ch = c, !.put = k]]

\* UserState of our own session: handle_own_channel_change.
OwnMove(c) ==
    /\ Message
    /\ current' = c
    /\ IF mode[c] # "plain" /\ c \notin fetched
       THEN fetched' = fetched \cup {c} /\ Spawn("join", c)
       ELSE UNCHANGED <<fetched, task>>
    /\ UNCHANGED <<mode, key, bridge, file, lock, loading, ghosts>>

\* ChannelState with another pchat_protocol.
ModeChange(c, m) ==
    /\ Message /\ mode[c] # m
    /\ mode' = [mode EXCEPT ![c] = m]
    /\ IF c = current THEN Spawn("change", c) ELSE UNCHANGED task
    /\ UNCHANGED <<current, memory, file, lock, loading, ghosts>>

\* Mutant: the key manager keeps the key of a removed channel.
ChannelRemoveKeepsKey(c) ==
    /\ Message
    /\ mode' = [mode EXCEPT ![c] = "plain"]
    /\ fetched' = fetched \ {c} /\ asked' = asked \ {c}
    /\ received' = received \ {c} /\ restored' = restored \ {c}
    /\ lock' = "handler" /\ HandlerFile(c, "none")
    /\ UNCHANGED <<current, key, bridge, file, loading>>

\* ChannelRemove; the entry of the file is deleted with the lock held.
ChannelRemove(c) ==
    /\ Message
    /\ mode' = [mode EXCEPT ![c] = "plain"]
    /\ key' = [key EXCEPT ![c] = "none"]
    /\ fetched' = fetched \ {c} /\ asked' = asked \ {c}
    /\ received' = received \ {c} /\ restored' = restored \ {c}
    /\ lock' = "handler" /\ HandlerFile(c, "none")
    /\ UNCHANGED <<current, bridge, file, loading>>

\* A key exchange that verifies: handle_proto_key_exchange.  Messages that
\* could not be decrypted are dropped and asked for again.
KeyExchange(c, placeholders) ==
    /\ Message
    /\ key' = [key EXCEPT ![c] = "peer"]
    /\ received' = received \cup {c}
    /\ IF placeholders
       THEN fetched' = fetched \ {c} /\ asked' = asked \cup {c}
       ELSE UNCHANGED <<fetched, asked>>
    /\ HandlerFile(c, "peer")
    /\ UNCHANGED <<mode, current, bridge, file, lock, loading, restored>>

\* handle_proto_key_challenge_result with passed = false.
ChallengeFailed(c) ==
    /\ Message
    /\ key' = [key EXCEPT ![c] = "none"]
    /\ received' = received \ {c} /\ restored' = restored \ {c}
    /\ HandlerFile(c, "none")
    /\ UNCHANGED <<mode, current, bridge, fetched, file, lock, loading, asked>>

-----------------------------------------------------------------------------
Step(t) ==
    \/ SyncResolve(t) \/ SyncEnsure(t) \/ SyncCheck(t) \/ SyncGenerate(t)
    \/ SyncFetch(t) \/ TimerFires(t)
    \/ JoinBegin(t) \/ JoinDerive(t) \/ JoinCheck(t) \/ JoinOriginate(t)
    \/ JoinFetch(t)
    \/ ChangeBegin(t) \/ ChangeNeeds(t) \/ ChangeStore(t) \/ ChangeShould(t)
    \/ ChangeFetch(t)

File(u) == FileRead(u) \/ FileTruncate(u) \/ FileWrite(u)

Next ==
    \/ \E t \in Tasks : Step(t)
    \/ \E u \in Users : File(u)
    \/ \E c \in Chans : \/ OwnMove(c) \/ ChannelRemove(c) \/ ChallengeFailed(c)
                        \/ \E m \in Modes : ModeChange(c, m)
                        \/ \E p \in BOOLEAN : KeyExchange(c, p)
    \/ Kill

Spec == Init /\ [][Next]_vars

\* The runtime keeps polling every task.
FairSpec == Spec /\ \A t \in Tasks : WF_vars(Step(t) \/ File(t))
                 /\ WF_vars(File(Handler))

-----------------------------------------------------------------------------
(* A peer's key in memory was accepted, or restored from disk at the start, *)
(* after the channel was last removed or its key last revoked: no task that *)
(* was under way brings a removed key back within the session.              *)
PeerKeyFresh ==
    \A c \in Chans : key[c] = "peer" => c \in received \cup restored

(* A channel that counts as fetched has been asked for, or a task that will *)
(* ask is under way: the mark that stops later joins from fetching is never *)
(* left behind by a removal, a mode change or a key exchange.               *)
FetchAsked ==
    \A c \in fetched : c \in asked \/ \E t \in Tasks : task[t].ch = c

(* The UI's history indicator always goes out again.                        *)
LoadingEnds == \A c \in Chans : c \in loading ~> c \notin loading
=============================================================================
