------------------------------ MODULE Sessions ------------------------------
(***************************************************************************)
(* The multi-server session layer of mumble-tauri/src/state: the registry, *)
(* the `inner` pointer to the active session, connect() and the task it    *)
(* spawns, disconnect_session(), switch_active_with_voice() and the event  *)
(* handler's effect on a session.                                          *)
(*                                                                         *)
(* Every command and every task runs on its own thread of the runtime.  A  *)
(* step is what happens under one lock (registry, session) or one swap of  *)
(* `inner`.  Sessions are numbered in the order of connect(); 0 is None,   *)
(* and as a value of inner the default session.  A session's event loop    *)
(* is only its state seen from here: ClientLoop models it.                 *)
(***************************************************************************)
EXTENDS Integers, FiniteSets

CONSTANTS MaxSessions,   \* bound: calls of connect()
          Discs,         \* callers of disconnect_session
          MaxSwitches,   \* bound: calls of switch_active_with_voice
          target         \* the (host, port, username) of each connect()

ASSUME SessionAssumption ==
    /\ MaxSessions \in Nat /\ MaxSwitches \in Nat
    /\ target \in [1 .. MaxSessions -> STRING \ {""}]

Ids == 1 .. MaxSessions

VARIABLES
    sessions,    \* Registry.sessions, its keys
    active,      \* Registry.active
    inner,       \* the session AppState.inner points at
    sess,        \* each SharedState: status, handles, target
    connect,     \* how far each connect() call is
    task,        \* the connect task of each session
    found,       \* the session a failed connect task will rebind inner to
    cancelled,   \* connect tasks on which abort() was called
    loop,        \* the event loop of each session
    asked,       \* event loops that were sent a Disconnect command
    killed,      \* event loops on which abort() was called
    disc,        \* the disconnect_session call of each caller
    switching,   \* the switch under way
    switches     \* counter

vars == <<sessions, active, inner, sess, connect, task, found, cancelled, loop,
          asked, killed, disc, switching, switches>>

Fresh == [status |-> "disconnected", handle |-> FALSE, join |-> FALSE,
          task |-> 0, target |-> ""]
Idle == [pc |-> "idle", id |-> 0, active |-> FALSE, next |-> 0]

TypeOK ==
    /\ sessions \subseteq Ids /\ active \in {0} \cup sessions
    /\ inner \in {0} \cup Ids
    /\ sess \in [{0} \cup Ids ->
                   [status : {"disconnected", "connecting", "connected"},
                    handle : BOOLEAN, join : BOOLEAN, task : {0} \cup Ids,
                    target : {""} \cup {target[id] : id \in Ids}]]
    /\ connect \in [Ids -> {"none", "pruned", "registered", "swapped", "reset",
                            "spawned", "done"}]
    /\ task \in [Ids -> {"none", "dialing", "ok", "auth", "failing", "removed",
                         "rebind", "done"}]
    /\ found \in [Ids -> {0} \cup Ids]
    /\ cancelled \subseteq Ids /\ asked \subseteq Ids /\ killed \subseteq Ids
    /\ loop \in [Ids -> {"none", "running", "authed", "synced", "kicked", "ended"}]
    /\ disc \in [Discs -> [pc : {"idle", "taking", "waiting", "clearing",
                                 "removing", "rebinding", "swapping"},
                           id : {0} \cup Ids, active : BOOLEAN,
                           next : {0} \cup Ids]]
    /\ switching \in {0} \cup Ids /\ switches \in 0 .. MaxSwitches

Init ==
    /\ sessions = {} /\ active = 0 /\ inner = 0
    /\ sess = [id \in {0} \cup Ids |-> Fresh]
    /\ connect = [id \in Ids |-> "none"]
    /\ task = [id \in Ids |-> "none"] /\ found = [id \in Ids |-> 0]
    /\ loop = [id \in Ids |-> "none"]
    /\ cancelled = {} /\ asked = {} /\ killed = {}
    /\ disc = [d \in Discs |-> Idle] /\ switching = 0 /\ switches = 0

-----------------------------------------------------------------------------
\* The registry.

\* Mutant: no other session becomes active.
RemoveToNone(id) ==
    /\ sessions' = sessions \ {id}
    /\ active' = IF active = id THEN 0 ELSE active

\* Registry::remove: an arbitrary session that remains becomes active.
Remove(id) ==
    /\ sessions' = sessions \ {id}
    /\ IF active = id
       THEN active' \in IF sessions' = {} THEN {0} ELSE sessions'
       ELSE UNCHANGED active

Stale(t) ==
    {id \in sessions : sess[id].target = t /\ sess[id].status = "disconnected"}

\* Mutant: the handles are cleared, the status is not.
DisconnectedKeepsStatus(s) == [s EXCEPT !.handle = FALSE, !.join = FALSE]

\* Closing a session's connection: its status and its handles.
Disconnected(s) ==
    [s EXCEPT !.status = "disconnected", !.handle = FALSE, !.join = FALSE]
MarkDisconnected(id) ==
    sess' = [sess EXCEPT ![id] = [Disconnected(@) EXCEPT !.task = 0]]

\* task.abort() on a connect task, which means nothing once it has ended.
Cancel(id) ==
    cancelled' = cancelled \cup {i \in {id} \ {0} : task[i] # "done"}

Runs(id) == loop[id] \in {"running", "authed", "synced", "kicked"}

-----------------------------------------------------------------------------
\* connect(), one lock or swap after the other.

ConnectStep(id, from, to) ==
    connect[id] = from /\ connect' = [connect EXCEPT ![id] = to]

ConnectPrune(id) ==
    /\ \A n \in 1 .. id - 1 : connect[n] # "none"
    /\ ConnectStep(id, "none", "pruned")
    /\ sessions' = sessions \ Stale(target[id])
    /\ active' = IF active \in Stale(target[id]) THEN 0 ELSE active
    /\ UNCHANGED <<inner, sess, task, found, cancelled, loop, asked, killed, disc,
                   switching, switches>>

\* register_active
ConnectRegister(id) ==
    /\ ConnectStep(id, "pruned", "registered")
    /\ sessions' = sessions \cup {id} /\ active' = id
    /\ UNCHANGED <<inner, sess, task, found, cancelled, loop, asked, killed,
                   disc, switching, switches>>

ConnectSwap(id) ==
    /\ ConnectStep(id, "registered", "swapped")
    /\ inner' = id
    /\ UNCHANGED <<sessions, active, sess, task, found, cancelled, loop, asked,
                   killed, disc, switching, switches>>

\* reset_state_for_connect
ConnectReset(id) ==
    /\ ConnectStep(id, "swapped", "reset")
    /\ Cancel(sess[id].task)
    /\ sess' = [sess EXCEPT ![id] = [Fresh EXCEPT !.status = "connecting",
                                                  !.target = target[id]]]
    /\ UNCHANGED <<sessions, active, inner, task, found, loop, asked, killed,
                   disc, switching, switches>>

ConnectSpawn(id) ==
    /\ ConnectStep(id, "reset", "spawned")
    /\ task' = [task EXCEPT ![id] = "dialing"]
    /\ UNCHANGED <<sessions, active, inner, sess, found, cancelled, loop, asked,
                   killed, disc, switching, switches>>

\* The task's handle goes to the session inner points at by then; the state
\* that the handle displaces drops its own, which detaches that task.
ConnectStore(id) ==
    /\ ConnectStep(id, "spawned", "done")
    /\ sess' = [sess EXCEPT ![inner].task = id]
    /\ UNCHANGED <<sessions, active, inner, task, found, cancelled, loop, asked,
                   killed, disc, switching, switches>>

-----------------------------------------------------------------------------
\* The connect task: client::run, then handle_connect_result.  abort() takes
\* effect at its next await, so not between the return of run and the send.

TaskStep(id, from, to) == task[id] = from /\ task' = [task EXCEPT ![id] = to]

TaskCancelled(id) ==
    /\ id \in cancelled
    /\ \E from \in {"dialing", "auth"} : TaskStep(id, from, "done")
    /\ cancelled' = cancelled \ {id}
    /\ UNCHANGED <<sessions, active, inner, sess, connect, found,
                   loop, asked, killed, disc, switching, switches>>

TaskRunOk(id) ==
    /\ TaskStep(id, "dialing", "ok")
    /\ loop' = [loop EXCEPT ![id] = "running"]
    /\ UNCHANGED <<sessions, active, inner, sess, connect, found, cancelled,
                   asked, killed, disc, switching, switches>>

TaskStore(id) ==
    /\ TaskStep(id, "ok", "auth")
    /\ sess' = [sess EXCEPT ![id].handle = TRUE, ![id].join = TRUE, ![id].task = 0]
    /\ UNCHANGED <<sessions, active, inner, connect, found, cancelled, loop,
                   asked, killed, disc, switching, switches>>

\* The Authenticate command is queued, or the loop is gone already.
TaskAuthSent(id) ==
    /\ TaskStep(id, "auth", "done")
    /\ loop' = [loop EXCEPT ![id] = IF @ = "running" THEN "authed" ELSE @]
    /\ cancelled' = cancelled \ {id}
    /\ UNCHANGED <<sessions, active, inner, sess, connect, found,
                   asked, killed, disc, switching, switches>>

TaskFailed(id) ==
    /\ \/ TaskStep(id, "dialing", "failing")
       \/ loop[id] = "ended" /\ TaskStep(id, "auth", "failing")
    /\ MarkDisconnected(id)
    /\ UNCHANGED <<sessions, active, inner, connect, found, cancelled, loop,
                   asked, killed, disc, switching, switches>>

TaskRemove(id) ==
    /\ TaskStep(id, "failing", "removed") /\ Remove(id)
    /\ UNCHANGED <<inner, sess, connect, found, cancelled, loop, asked, killed,
                   disc, switching, switches>>

\* rebind_active reads the registry, then swaps; it leaves inner alone when
\* no session remains.
TaskFind(id) ==
    /\ TaskStep(id, "removed", "rebind")
    /\ found' = [found EXCEPT ![id] = active]
    /\ UNCHANGED <<sessions, active, inner, sess, connect, cancelled, loop,
                   asked, killed, disc, switching, switches>>
TaskRebind(id) ==
    /\ TaskStep(id, "rebind", "done")
    /\ inner' = IF found[id] = 0 THEN inner ELSE found[id]
    /\ found' = [found EXCEPT ![id] = 0] /\ cancelled' = cancelled \ {id}
    /\ UNCHANGED <<sessions, active, sess, connect, loop,
                   asked, killed, disc, switching, switches>>

-----------------------------------------------------------------------------
\* The event loop and its handler's callbacks.

LoopStep(id, from, to) == loop[id] = from /\ loop' = [loop EXCEPT ![id] = to]

LoopStops(id) == /\ Runs(id) /\ loop' = [loop EXCEPT ![id] = "ended"]
                 /\ asked' = asked \ {id} /\ killed' = killed \ {id}

\* ServerSync, the server's answer to Authenticate.
LoopSync(id) ==
    /\ LoopStep(id, "authed", "synced")
    /\ sess' = [sess EXCEPT ![id].status = "connected"]
    /\ UNCHANGED <<sessions, active, inner, connect, task, found, cancelled,
                   asked, killed, disc, switching, switches>>

\* UserRemove of our own session: the handles go, the loop still runs.
LoopKick(id) ==
    /\ LoopStep(id, "synced", "kicked")
    /\ sess' = [sess EXCEPT ![id] = Disconnected(@)]
    /\ UNCHANGED <<sessions, active, inner, connect, task, found, cancelled,
                   asked, killed, disc, switching, switches>>

\* The loop leaves by itself (Disconnect, Reject, lost connection) and
\* calls on_disconnected.  The handler's epoch is the session's: a session
\* is connected once.
LoopEnd(id) ==
    /\ LoopStops(id)
    /\ sess' = [sess EXCEPT ![id] = Disconnected(@)]
    /\ UNCHANGED <<sessions, active, inner, connect, task, found, cancelled,
                   disc, switching, switches>>

\* The abort of disconnect_session: no callback.
LoopKilled(id) ==
    /\ id \in killed /\ LoopStops(id)
    /\ UNCHANGED <<sessions, active, inner, sess, connect, task, found,
                   cancelled, disc, switching, switches>>

-----------------------------------------------------------------------------
\* disconnect_session(id).  disconnect() calls it with the active session.

DiscStep(d, from, to) == disc[d].pc = from /\ disc' = [disc EXCEPT ![d].pc = to]

DiscStart(d, id) ==
    /\ disc[d].pc = "idle" /\ id \in sessions
    /\ disc' = [disc EXCEPT ![d] = [Idle EXCEPT !.pc = "taking", !.id = id,
                                                !.active = (active = id)]]
    /\ UNCHANGED <<sessions, active, inner, sess, connect, task, found,
                   cancelled, loop, asked, killed, switching, switches>>

\* Takes the three handles; aborts the connect task, sends Disconnect.
DiscTake(d) ==
    LET id == disc[d].id IN
    /\ disc[d].pc = "taking"
    /\ disc' = [disc EXCEPT ![d].pc = IF sess[id].join THEN "waiting" ELSE "clearing"]
    /\ Cancel(sess[id].task)
    /\ asked' = IF sess[id].handle /\ Runs(id) THEN asked \cup {id} ELSE asked
    /\ sess' = [sess EXCEPT ![id].handle = FALSE, ![id].join = FALSE, ![id].task = 0]
    /\ UNCHANGED <<sessions, active, inner, connect, task, found, loop, killed,
                   switching, switches>>

\* The event loop ended within 3 s, or it did not and is aborted.
DiscJoined(d) ==
    /\ DiscStep(d, "waiting", "clearing") /\ loop[disc[d].id] = "ended"
    /\ UNCHANGED <<sessions, active, inner, sess, connect, task, found,
                   cancelled, loop, asked, killed, switching, switches>>

\* Mutant: after the timeout the loop is left alone.
DiscTimeoutNoAbort(d) ==
    /\ DiscStep(d, "waiting", "clearing") /\ loop[disc[d].id] # "ended"
    /\ UNCHANGED <<sessions, active, inner, sess, connect, task, found,
                   cancelled, loop, asked, killed, switching, switches>>

DiscTimeout(d) ==
    /\ DiscStep(d, "waiting", "clearing") /\ loop[disc[d].id] # "ended"
    /\ killed' = killed \cup {disc[d].id}
    /\ UNCHANGED <<sessions, active, inner, sess, connect, task, found,
                   cancelled, loop, asked, switching, switches>>

DiscClear(d) ==
    /\ DiscStep(d, "clearing", "removing") /\ MarkDisconnected(disc[d].id)
    /\ UNCHANGED <<sessions, active, inner, connect, task, found, cancelled,
                   loop, asked, killed, switching, switches>>

\* registry.remove, and the end of the call unless the session was active
\* when it began.
DiscRemove(d) ==
    /\ disc[d].pc = "removing" /\ Remove(disc[d].id)
    /\ disc' = [disc EXCEPT ![d] = IF @.active THEN [@ EXCEPT !.pc = "rebinding"]
                                               ELSE Idle]
    /\ UNCHANGED <<inner, sess, connect, task, found, cancelled, loop, asked,
                   killed, switching, switches>>
DiscFind(d) ==
    /\ disc[d].pc = "rebinding"
    /\ disc' = [disc EXCEPT ![d].pc = "swapping", ![d].next = active]
    /\ UNCHANGED <<sessions, active, inner, sess, connect, task, found,
                   cancelled, loop, asked, killed, switching, switches>>
\* reset_to_default when no session remains.
DiscSwap(d) ==
    /\ disc[d].pc = "swapping"
    /\ inner' = disc[d].next
    /\ disc' = [disc EXCEPT ![d] = Idle]
    /\ UNCHANGED <<sessions, active, sess, connect, task, found, cancelled,
                   loop, asked, killed, switching, switches>>

-----------------------------------------------------------------------------
\* switch_active_with_voice: set_active, then the swap of inner.
SwitchActive(id) ==
    /\ switching = 0 /\ switches < MaxSwitches
    /\ id \in sessions /\ id # inner
    /\ switches' = switches + 1 /\ switching' = id /\ active' = id
    /\ UNCHANGED <<sessions, inner, sess, connect, task, found, cancelled,
                   loop, asked, killed, disc>>
SwitchSwap ==
    /\ switching # 0
    /\ inner' = switching /\ switching' = 0
    /\ UNCHANGED <<sessions, active, sess, connect, task, found, cancelled,
                   loop, asked, killed, disc, switches>>

Connect(id) == \/ ConnectRegister(id) \/ ConnectSwap(id) \/ ConnectReset(id)
               \/ ConnectSpawn(id) \/ ConnectStore(id)
Disconnect(d) == \/ DiscTake(d) \/ DiscJoined(d) \/ DiscTimeout(d)
                 \/ DiscClear(d) \/ DiscRemove(d) \/ DiscFind(d) \/ DiscSwap(d)

Next ==
    \/ \E id \in Ids :
         \/ ConnectPrune(id) \/ Connect(id)
         \/ TaskCancelled(id) \/ TaskRunOk(id) \/ TaskStore(id)
         \/ TaskAuthSent(id) \/ TaskFailed(id) \/ TaskRemove(id)
         \/ TaskFind(id) \/ TaskRebind(id)
         \/ LoopSync(id) \/ LoopKick(id) \/ LoopEnd(id) \/ LoopKilled(id)
         \/ SwitchActive(id)
    \/ \E d \in Discs : Disconnect(d) \/ \E id \in Ids : DiscStart(d, id)
    \/ SwitchSwap

\* A command that has begun keeps running, and an abort lands.  Nothing is
\* assumed of the server or of an event loop that was sent a Disconnect:
\* that is what the timeout is for.
Fairness ==
    /\ \A id \in Ids : WF_vars(Connect(id)) /\ WF_vars(LoopKilled(id))
    /\ \A d \in Discs : WF_vars(Disconnect(d))

Spec == Init /\ [][Next]_vars
FairSpec == Spec /\ Fairness

-----------------------------------------------------------------------------
\* While sessions exist one of them is active: commands without a server id
\* have a session to act on.  Only the prune at the start of connect() may
\* leave none, until the same call registers its own.
NeverHeadless ==
    \/ sessions = {} \/ active # 0
    \/ \E id \in Ids : connect[id] = "pruned"

\* A session that is listed as connected, and is not being disconnected, has
\* a running event loop and the handles to talk to it and to stop it.
ConnectedIsLive ==
    \A id \in sessions :
        sess[id].status = "connected" /\ (\A d \in Discs : disc[d].id # id)
          => loop[id] = "synced" /\ sess[id].handle /\ sess[id].join

\* disconnect_session always returns with the session gone from the registry,
\* and an event loop that it asked to stop does stop.
DisconnectStops ==
    /\ \A d \in Discs, id \in Ids :
         (disc[d].id = id) ~> (disc[d].pc = "idle" /\ id \notin sessions)
    /\ \A id \in Ids : (id \in asked) ~> (loop[id] = "ended")
=============================================================================
