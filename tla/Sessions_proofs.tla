--------------------------- MODULE Sessions_proofs ---------------------------
(***************************************************************************)
(* The registry always has an active session while it holds one, and a     *)
(* session listed as connected has its event loop and its handles, for any *)
(* number of connect() calls, disconnect_session() callers and switches.   *)
(*                                                                         *)
(* The second property needs the life of a session: it is registered once, *)
(* nothing runs for it before its connect() spawned the task, and when a   *)
(* disconnect_session() returns it is out of the registry for good.        *)
(***************************************************************************)
EXTENDS Sessions, TLAPS

Statuses == {"disconnected", "connecting", "connected"}
States   == [status : Statuses, handle : BOOLEAN, join : BOOLEAN,
             task : {0} \cup Ids, target : {""} \cup {target[id] : id \in Ids}]
DiscPcs  == {"idle", "taking", "waiting", "clearing", "removing", "rebinding", "swapping"}
Calls    == [pc : DiscPcs, id : {0} \cup Ids, active : BOOLEAN, next : {0} \cup Ids]
ConnectPcs == {"none", "pruned", "registered", "swapped", "reset", "spawned", "done"}
TaskPcs  == {"none", "dialing", "ok", "auth", "failing", "removed", "rebind", "done"}
LoopPcs  == {"none", "running", "authed", "synced", "kicked", "ended"}

\* The parts of TypeOK.
RegistryTypes == /\ sessions \subseteq Ids /\ active \in {0} \cup sessions
                 /\ inner \in {0} \cup Ids
                 /\ switching \in {0} \cup Ids /\ switches \in 0 .. MaxSwitches
TaskTypes == /\ connect \in [Ids -> ConnectPcs] /\ task \in [Ids -> TaskPcs]
             /\ loop \in [Ids -> LoopPcs] /\ found \in [Ids -> {0} \cup Ids]
             /\ cancelled \subseteq Ids /\ asked \subseteq Ids /\ killed \subseteq Ids
StateTypes == sess \in [{0} \cup Ids -> States]
CallTypes  == disc \in [Discs -> Calls]

\* The parts are TypeOK.
LEMMA TypeParts == TypeOK <=> RegistryTypes /\ TaskTypes /\ StateTypes /\ CallTypes
BY DEF TypeOK, RegistryTypes, TaskTypes, StateTypes, CallTypes, Statuses, States, DiscPcs,
       Calls, ConnectPcs, TaskPcs, LoopPcs

\* The bounds are numbers.
LEMMA BoundsAreNat == MaxSessions \in Nat /\ MaxSwitches \in Nat
BY SessionAssumption, Zenon

\* 0 is not the number of a session.
LEMMA ZeroIsNone == 0 \notin Ids
BY BoundsAreNat DEF Ids

-----------------------------------------------------------------------------
\* The steps of one session, of one disconnect_session call, and of a switch.
SessionStep(id) ==
    \/ ConnectPrune(id) \/ Connect(id)
    \/ TaskCancelled(id) \/ TaskRunOk(id) \/ TaskStore(id)
    \/ TaskAuthSent(id) \/ TaskFailed(id) \/ TaskRemove(id)
    \/ TaskFind(id) \/ TaskRebind(id)
    \/ LoopSync(id) \/ LoopKick(id) \/ LoopEnd(id) \/ LoopKilled(id)
    \/ SwitchActive(id)

\* Next, by who acts.
LEMMA NextSplit ==
    Next <=> \/ \E id \in Ids : SessionStep(id)
             \/ \E d \in Discs : Disconnect(d) \/ \E id \in Ids : DiscStart(d, id)
             \/ SwitchSwap
BY DEF Next, SessionStep

\* Registry::remove keeps the registry's types, and leaves no registry with
\* sessions and none active.
LEMMA RemoveKeeps ==
    ASSUME sessions \subseteq Ids, active \in {0} \cup sessions, NEW id \in Ids, Remove(id)
    PROVE  /\ sessions' = sessions \ {id} /\ active' \in {0} \cup sessions'
           /\ active # 0 => sessions' = {} \/ active' # 0
BY ZeroIsNone DEF Remove

\* The registry, the pointer and the switch.
LEMMA RegistryStep ==
    ASSUME RegistryTypes, TaskTypes, CallTypes, [Next]_vars,
           \A d \in Discs : disc[d].pc # "idle" => disc[d].id \in Ids
    PROVE  RegistryTypes'
<1> USE DEF RegistryTypes, TaskTypes, CallTypes, Calls
<1>1. ASSUME NEW id \in Ids, SessionStep(id) PROVE RegistryTypes'
  <2>1. CASE ConnectPrune(id) BY <2>1 DEF ConnectPrune, Stale
  <2>2. CASE ConnectRegister(id) BY <2>2 DEF ConnectRegister
  <2>3. CASE ConnectSwap(id) \/ ConnectReset(id) \/ ConnectSpawn(id) \/ ConnectStore(id)
    BY <2>3 DEF ConnectSwap, ConnectReset, ConnectSpawn, ConnectStore
  <2>4. CASE TaskCancelled(id) \/ TaskRunOk(id) \/ TaskStore(id) \/ TaskAuthSent(id)
               \/ TaskFailed(id) \/ TaskFind(id)
    BY <2>4 DEF TaskCancelled, TaskRunOk, TaskStore, TaskAuthSent, TaskFailed, TaskFind
  <2>5. CASE TaskRemove(id)
    BY <2>5, RemoveKeeps DEF TaskRemove
  <2>6. CASE TaskRebind(id) BY <2>6 DEF TaskRebind
  <2>7. CASE LoopSync(id) \/ LoopKick(id) \/ LoopEnd(id) \/ LoopKilled(id)
    BY <2>7 DEF LoopSync, LoopKick, LoopEnd, LoopKilled
  <2>8. CASE SwitchActive(id)
    BY <2>8, BoundsAreNat DEF SwitchActive
  <2> QED BY <1>1, <2>1, <2>2, <2>3, <2>4, <2>5, <2>6, <2>7, <2>8 DEF SessionStep, Connect
<1>2. ASSUME NEW d \in Discs, Disconnect(d) PROVE RegistryTypes'
  <2>1. CASE DiscTake(d) \/ DiscJoined(d) \/ DiscTimeout(d) \/ DiscClear(d) \/ DiscFind(d)
    BY <2>1 DEF DiscTake, DiscJoined, DiscTimeout, DiscClear, DiscFind
  <2>2. CASE DiscRemove(d)
    BY <2>2, RemoveKeeps DEF DiscRemove
  <2>3. CASE DiscSwap(d)
    <3>1. disc[d].next \in {0} \cup Ids OBVIOUS
    <3> QED BY <3>1, <2>3 DEF DiscSwap
  <2> QED BY <1>2, <2>1, <2>2, <2>3 DEF Disconnect
<1>3. ASSUME NEW d \in Discs, NEW id \in Ids, DiscStart(d, id) PROVE RegistryTypes'
  BY <1>3 DEF DiscStart
<1>4. CASE SwitchSwap BY <1>4 DEF SwitchSwap
<1>5. CASE UNCHANGED vars BY <1>5 DEF vars
<1> QED BY <1>1, <1>2, <1>3, <1>4, <1>5, NextSplit

\* The tasks, the loops and the sets of aborted ones.
LEMMA TasksStep ==
    ASSUME RegistryTypes, TaskTypes, CallTypes, StateTypes, [Next]_vars,
           \A d \in Discs : disc[d].pc # "idle" => disc[d].id \in Ids
    PROVE  TaskTypes'
<1> USE DEF TaskTypes, ConnectPcs, TaskPcs, LoopPcs
<1>c. ASSUME NEW i \in {0} \cup Ids PROVE {j \in {i} \ {0} : task[j] # "done"} \subseteq Ids
  OBVIOUS
<1>s. \A i \in {0} \cup Ids : sess[i].task \in {0} \cup Ids
  BY DEF StateTypes, States
<1>1. ASSUME NEW id \in Ids, SessionStep(id) PROVE TaskTypes'
  <2>1. CASE ConnectPrune(id) BY <2>1 DEF ConnectPrune, ConnectStep
  <2>2. CASE ConnectRegister(id) BY <2>2 DEF ConnectRegister, ConnectStep
  <2>3. CASE ConnectSwap(id) BY <2>3 DEF ConnectSwap, ConnectStep
  <2>4. CASE ConnectReset(id)
    BY <2>4, <1>c, <1>s DEF ConnectReset, ConnectStep, Cancel
  <2>5. CASE ConnectSpawn(id) BY <2>5 DEF ConnectSpawn, ConnectStep
  <2>6. CASE ConnectStore(id) BY <2>6 DEF ConnectStore, ConnectStep
  <2>7. CASE TaskCancelled(id) BY <2>7 DEF TaskCancelled, TaskStep
  <2>8. CASE TaskRunOk(id) BY <2>8 DEF TaskRunOk, TaskStep
  <2>9. CASE TaskStore(id) BY <2>9 DEF TaskStore, TaskStep
  <2>10. CASE TaskAuthSent(id) BY <2>10 DEF TaskAuthSent, TaskStep
  <2>11. CASE TaskFailed(id) BY <2>11 DEF TaskFailed, TaskStep
  <2>12. CASE TaskRemove(id) BY <2>12 DEF TaskRemove, TaskStep
  <2>13. CASE TaskFind(id) BY <2>13 DEF TaskFind, TaskStep, RegistryTypes
  <2>14. CASE TaskRebind(id) BY <2>14 DEF TaskRebind, TaskStep
  <2>15. CASE LoopSync(id) BY <2>15 DEF LoopSync, LoopStep
  <2>16. CASE LoopKick(id) BY <2>16 DEF LoopKick, LoopStep
  <2>17. CASE LoopEnd(id) BY <2>17 DEF LoopEnd, LoopStops
  <2>18. CASE LoopKilled(id) BY <2>18 DEF LoopKilled, LoopStops
  <2>19. CASE SwitchActive(id) BY <2>19 DEF SwitchActive
  <2> QED
    BY <1>1, <2>1, <2>2, <2>3, <2>4, <2>5, <2>6, <2>7, <2>8, <2>9, <2>10, <2>11, <2>12, <2>13,
       <2>14, <2>15, <2>16, <2>17, <2>18, <2>19
    DEF SessionStep, Connect
<1>2. ASSUME NEW d \in Discs, Disconnect(d) PROVE TaskTypes'
  <2>0. disc[d].id \in {0} \cup Ids /\ (disc[d].pc # "idle" => disc[d].id \in Ids)
    BY DEF CallTypes, Calls
  <2>1. CASE DiscTake(d)
    <3>1. disc[d].id \in Ids BY <2>0, <2>1 DEF DiscTake
    <3>2. asked' \subseteq Ids BY <2>1, <3>1 DEF DiscTake
    <3>3. cancelled' \subseteq Ids BY <2>1, <3>1, <1>c, <1>s DEF DiscTake, Cancel
    <3> QED BY <2>1, <3>2, <3>3 DEF DiscTake
  <2>2. CASE DiscTimeout(d)
    BY <2>0, <2>2 DEF DiscTimeout, DiscStep
  <2>3. CASE DiscJoined(d) \/ DiscClear(d) \/ DiscRemove(d) \/ DiscFind(d) \/ DiscSwap(d)
    BY <2>3 DEF DiscJoined, DiscClear, DiscRemove, DiscFind, DiscSwap
  <2> QED BY <1>2, <2>1, <2>2, <2>3 DEF Disconnect
<1>3. ASSUME NEW d \in Discs, NEW id \in Ids, DiscStart(d, id) PROVE TaskTypes'
  BY <1>3 DEF DiscStart
<1>4. CASE SwitchSwap BY <1>4 DEF SwitchSwap
<1>5. CASE UNCHANGED vars BY <1>5 DEF vars
<1> QED BY <1>1, <1>2, <1>3, <1>4, <1>5, NextSplit

\* What the steps make of a session's state is a session's state.
LEMMA StateUpdates ==
    ASSUME NEW s \in States
    PROVE  /\ [s EXCEPT !.status = "connected"] \in States
           /\ Disconnected(s) \in States
           /\ [Disconnected(s) EXCEPT !.task = 0] \in States
           /\ [s EXCEPT !.handle = TRUE, !.join = TRUE, !.task = 0] \in States
           /\ [s EXCEPT !.handle = FALSE, !.join = FALSE, !.task = 0] \in States
           /\ \A id \in Ids : [s EXCEPT !.task = id] \in States
BY DEF States, Statuses, Disconnected

\* reset_state_for_connect starts from a fresh state.
LEMMA FreshIsState ==
    /\ Fresh \in States
    /\ \A id \in Ids :
         [Fresh EXCEPT !.status = "connecting", !.target = target[id]] \in States
<1>1. ASSUME NEW t \in {target[id] : id \in Ids}
      PROVE  [Fresh EXCEPT !.status = "connecting", !.target = t] \in States
  BY DEF States, Statuses, Fresh
<1>2. Fresh \in States
  BY DEF States, Statuses, Fresh
<1> QED BY <1>1, <1>2

\* The states of the sessions.
LEMMA StatesStep ==
    ASSUME RegistryTypes, CallTypes, StateTypes, [Next]_vars
    PROVE  StateTypes'
<1> USE DEF StateTypes
<1>u. ASSUME NEW i \in {0} \cup Ids, NEW r \in States, sess' = [sess EXCEPT ![i] = r]
      PROVE  StateTypes'
  BY <1>u
<1>1. ASSUME NEW id \in Ids, SessionStep(id) PROVE StateTypes'
  <2>0. sess[id] \in States OBVIOUS
  <2>1. CASE UNCHANGED sess BY <2>1
  <2>2. CASE ConnectReset(id)
    BY <2>2, <1>u, FreshIsState DEF ConnectReset
  <2>3. CASE ConnectStore(id)
    <3>1. sess' = [sess EXCEPT ![inner] = [sess[inner] EXCEPT !.task = id]]
      BY <2>3 DEF ConnectStore
    <3>2. inner \in {0} \cup Ids BY DEF RegistryTypes
    <3>3. [sess[inner] EXCEPT !.task = id] \in States
      BY <3>2, StateUpdates
    <3> QED BY <3>1, <3>2, <3>3, <1>u
  <2>4. CASE TaskStore(id)
    <3>1. sess' = [sess EXCEPT ![id] = [sess[id] EXCEPT !.handle = TRUE, !.join = TRUE, !.task = 0]]
      BY <2>4 DEF TaskStore
    <3>2. [sess[id] EXCEPT !.handle = TRUE, !.join = TRUE, !.task = 0] \in States
      BY <2>0, StateUpdates
    <3> QED BY <3>1, <3>2, <1>u
  <2>5. CASE TaskFailed(id)
    BY <2>5, <2>0, <1>u, StateUpdates DEF TaskFailed, MarkDisconnected
  <2>6. CASE LoopSync(id)
    <3>1. sess' = [sess EXCEPT ![id] = [sess[id] EXCEPT !.status = "connected"]]
      BY <2>6 DEF LoopSync
    <3> QED BY <3>1, <2>0, <1>u, StateUpdates
  <2>7. CASE LoopKick(id) \/ LoopEnd(id)
    BY <2>7, <2>0, <1>u, StateUpdates DEF LoopKick, LoopEnd
  <2> QED
    BY <1>1, <2>1, <2>2, <2>3, <2>4, <2>5, <2>6, <2>7
    DEF SessionStep, Connect, ConnectPrune, ConnectRegister, ConnectSwap, ConnectSpawn,
        TaskCancelled, TaskRunOk, TaskAuthSent, TaskRemove, TaskFind, TaskRebind, LoopKilled,
        SwitchActive
<1>2. ASSUME NEW d \in Discs, Disconnect(d) PROVE StateTypes'
  <2>0. disc[d].id \in {0} \cup Ids /\ sess[disc[d].id] \in States
    BY DEF CallTypes, Calls
  <2>1. CASE DiscTake(d)
    <3>1. sess' = [sess EXCEPT ![disc[d].id] =
                     [sess[disc[d].id] EXCEPT !.handle = FALSE, !.join = FALSE, !.task = 0]]
      BY <2>1 DEF DiscTake
    <3>2. [sess[disc[d].id] EXCEPT !.handle = FALSE, !.join = FALSE, !.task = 0] \in States
      BY <2>0, StateUpdates
    <3> QED BY <3>1, <3>2, <2>0, <1>u
  <2>2. CASE DiscClear(d)
    BY <2>2, <2>0, <1>u, StateUpdates DEF DiscClear, MarkDisconnected
  <2>3. CASE DiscJoined(d) \/ DiscTimeout(d) \/ DiscRemove(d) \/ DiscFind(d) \/ DiscSwap(d)
    BY <2>3 DEF DiscJoined, DiscTimeout, DiscRemove, DiscFind, DiscSwap
  <2> QED BY <1>2, <2>1, <2>2, <2>3 DEF Disconnect
<1>3. ASSUME NEW d \in Discs, NEW id \in Ids, DiscStart(d, id) PROVE StateTypes'
  BY <1>3 DEF DiscStart
<1>4. CASE SwitchSwap BY <1>4 DEF SwitchSwap
<1>5. CASE UNCHANGED vars BY <1>5 DEF vars
<1> QED BY <1>1, <1>2, <1>3, <1>4, <1>5, NextSplit

\* The calls of disconnect_session: an idle one names no session, any other
\* one names the session it closes.
CallNamed == \A d \in Discs : (disc[d].pc = "idle") <=> (disc[d].id = 0)
LEMMA CallsStep ==
    ASSUME RegistryTypes, StateTypes, CallTypes, CallNamed, [Next]_vars
    PROVE  CallTypes' /\ CallNamed'
<1> USE DEF CallTypes, CallNamed
<1>i. Idle \in Calls /\ Idle.pc = "idle" /\ Idle.id = 0
  BY DEF Idle, Calls, DiscPcs
<1>u. ASSUME NEW d \in Discs, NEW r \in Calls, (r.pc = "idle") <=> (r.id = 0),
             disc' = [disc EXCEPT ![d] = r]
      PROVE  CallTypes' /\ CallNamed'
  BY <1>u
<1>p. ASSUME NEW d \in Discs, NEW to \in DiscPcs \ {"idle"}, disc[d].pc # "idle",
             disc' = [disc EXCEPT ![d].pc = to]
      PROVE  CallTypes' /\ CallNamed'
  <2>1. disc' = [disc EXCEPT ![d] = [disc[d] EXCEPT !.pc = to]] BY <1>p
  <2>2. [disc[d] EXCEPT !.pc = to] \in Calls BY DEF Calls
  <2>3. [disc[d] EXCEPT !.pc = to].pc = to /\ [disc[d] EXCEPT !.pc = to].id = disc[d].id
    BY DEF Calls
  <2> QED BY <2>1, <2>2, <2>3, <1>u, <1>p
<1>1. CASE UNCHANGED disc BY <1>1
<1>2. ASSUME NEW d \in Discs, Disconnect(d) PROVE CallTypes' /\ CallNamed'
  <2>1. CASE DiscTake(d) BY <2>1, <1>p DEF DiscTake, DiscPcs
  <2>2. CASE DiscJoined(d) \/ DiscTimeout(d) \/ DiscClear(d)
    BY <2>2, <1>p DEF DiscJoined, DiscTimeout, DiscClear, DiscStep, DiscPcs
  <2>3. CASE DiscRemove(d)
    <3>1. CASE disc[d].active
      BY <3>1, <2>3, <1>p DEF DiscRemove, DiscPcs
    <3>2. CASE ~disc[d].active
      BY <3>2, <2>3, <1>i, <1>u DEF DiscRemove
    <3> QED BY <3>1, <3>2
  <2>4. CASE DiscFind(d)
    <3>1. disc' = [disc EXCEPT ![d] = [disc[d] EXCEPT !.pc = "swapping", !.next = active]]
      BY <2>4 DEF DiscFind
    <3>2. [disc[d] EXCEPT !.pc = "swapping", !.next = active] \in Calls
      BY DEF Calls, DiscPcs, RegistryTypes
    <3>3. /\ [disc[d] EXCEPT !.pc = "swapping", !.next = active].pc = "swapping"
          /\ [disc[d] EXCEPT !.pc = "swapping", !.next = active].id = disc[d].id
      BY DEF Calls
    <3>4. disc[d].id # 0 BY <2>4 DEF DiscFind
    <3> QED BY <3>1, <3>2, <3>3, <3>4, <1>u
  <2>5. CASE DiscSwap(d) BY <2>5, <1>i, <1>u DEF DiscSwap
  <2> QED BY <1>2, <2>1, <2>2, <2>3, <2>4, <2>5 DEF Disconnect
<1>3. ASSUME NEW d \in Discs, NEW id \in Ids, DiscStart(d, id) PROVE CallTypes' /\ CallNamed'
  <2> DEFINE r == [Idle EXCEPT !.pc = "taking", !.id = id, !.active = (active = id)]
  <2>1. r \in Calls /\ r.pc = "taking" /\ r.id = id
    BY DEF Idle, Calls, DiscPcs
  <2>2. disc' = [disc EXCEPT ![d] = r] BY <1>3 DEF DiscStart
  <2> HIDE DEF r
  <2> QED BY <2>1, <2>2, <1>u, ZeroIsNone
<1>4. ASSUME NEW id \in Ids, SessionStep(id) PROVE UNCHANGED disc
  BY <1>4 DEF SessionStep, Connect, ConnectPrune, ConnectRegister, ConnectSwap, ConnectReset,
     ConnectSpawn, ConnectStore, TaskCancelled, TaskRunOk, TaskStore, TaskAuthSent, TaskFailed,
     TaskRemove, TaskFind, TaskRebind, LoopSync, LoopKick, LoopEnd, LoopKilled, SwitchActive
<1>5. SwitchSwap \/ UNCHANGED vars => UNCHANGED disc
  BY DEF SwitchSwap, vars
<1> QED BY <1>1, <1>2, <1>3, <1>4, <1>5, NextSplit

\* TypeOK with the naming of the calls is inductive.
Typed == RegistryTypes /\ TaskTypes /\ StateTypes /\ CallTypes /\ CallNamed
LEMMA TypedStep == Typed /\ [Next]_vars => Typed'
<1> SUFFICES ASSUME Typed, [Next]_vars PROVE Typed'
  OBVIOUS
<1> USE DEF Typed
<1>1. \A d \in Discs : disc[d].pc # "idle" => disc[d].id \in Ids
  BY DEF CallTypes, CallNamed, Calls
<1> QED BY <1>1, RegistryStep, TasksStep, StatesStep, CallsStep

-----------------------------------------------------------------------------
\* The life of a session.

\* connect() has not registered it yet.
Unregistered(id) == connect[id] \in {"none", "pruned"}
\* It is listed, and no disconnect_session() is at work on it.
Open(id) == id \in sessions /\ \A d \in Discs : disc[d].id # id

\* A session is registered once: nothing else lists it, names it or kills
\* its loop before.
RegisteredOnce ==
    /\ \A id \in Ids : Unregistered(id) => id \notin sessions /\ id \notin killed
    /\ \A d \in Discs : disc[d].id \in Ids => ~Unregistered(disc[d].id)

\* A call that is past its registry.remove has left the session unlisted.
RemovedForGood ==
    \A d \in Discs : disc[d].pc \in {"rebinding", "swapping"} => disc[d].id \notin sessions

\* connect() spawns the task, the task starts the loop, and only the loop's
\* ServerSync makes the session connected.
InOrder ==
    \A id \in Ids :
        /\ connect[id] \notin {"spawned", "done"} => task[id] = "none"
        /\ task[id] \in {"none", "dialing"} => loop[id] = "none"
        /\ loop[id] \in {"none", "running", "authed"} => sess[id].status # "connected"

\* Only a loop whose session is being closed, or is gone, is ever aborted.
KilledClosed == \A id \in killed : ~Open(id)

\* The loop of an open session has its handles from the moment the task
\* stored them until the loop itself gives them up.
Serving(id) == \/ loop[id] \in {"authed", "synced"}
               \/ loop[id] = "running" /\ task[id] = "auth"
OpenServed ==
    \A id \in Ids : Open(id) =>
        /\ sess[id].status = "connected" => loop[id] = "synced"
        /\ Serving(id) => sess[id].handle /\ sess[id].join

SessInv == /\ Typed /\ RegisteredOnce /\ RemovedForGood /\ InOrder
           /\ KilledClosed /\ OpenServed /\ NeverHeadless

\* Only connect() moves a session out of "none" and "pruned", and there is
\* no way back.
LEMMA ConnectOnward ==
    ASSUME Typed, [Next]_vars, NEW id \in Ids
    PROVE  /\ Unregistered(id)' => Unregistered(id)
           /\ Unregistered(id) => Unregistered(id)' \/ ConnectRegister(id)
           /\ connect'[id] \in {"spawned", "done"} \/ connect'[id] = connect[id]
                \/ connect[id] \notin {"spawned", "done"}
<1> USE DEF Typed, TaskTypes, Unregistered
<1>1. ASSUME NEW i \in Ids, SessionStep(i)
      PROVE \/ UNCHANGED connect \/ ConnectRegister(i)
            \/ ConnectStep(i, "none", "pruned") \/ ConnectStep(i, "registered", "swapped")
            \/ ConnectStep(i, "swapped", "reset") \/ ConnectStep(i, "reset", "spawned")
            \/ ConnectStep(i, "spawned", "done")
  BY <1>1 DEF SessionStep, Connect, ConnectPrune, ConnectSwap, ConnectReset,
     ConnectSpawn, ConnectStore, TaskCancelled, TaskRunOk, TaskStore, TaskAuthSent, TaskFailed,
     TaskRemove, TaskFind, TaskRebind, LoopSync, LoopKick, LoopEnd, LoopKilled, SwitchActive
<1>2. (\E d \in Discs : Disconnect(d) \/ \E i \in Ids : DiscStart(d, i)) => UNCHANGED connect
  BY DEF Disconnect, DiscTake, DiscJoined, DiscTimeout, DiscClear, DiscRemove, DiscFind,
         DiscSwap, DiscStart
<1>3. SwitchSwap \/ UNCHANGED vars => UNCHANGED connect
  BY DEF SwitchSwap, vars
<1> QED BY <1>1, <1>2, <1>3, NextSplit DEF ConnectStep, ConnectRegister

\* A listed session stays listed or is removed; only connect() lists one.
LEMMA ListedBefore ==
    ASSUME Typed, [Next]_vars, NEW id \in sessions'
    PROVE  id \in sessions \/ (id \in Ids /\ ConnectRegister(id))
<1>1. ASSUME NEW i \in Ids, SessionStep(i)
      PROVE sessions' \subseteq sessions \/ ConnectRegister(i)
  BY <1>1 DEF SessionStep, Connect, ConnectPrune, ConnectSwap, ConnectReset,
     ConnectSpawn, ConnectStore, TaskCancelled, TaskRunOk, TaskStore, TaskAuthSent, TaskFailed,
     TaskRemove, TaskFind, TaskRebind, LoopSync, LoopKick, LoopEnd, LoopKilled, SwitchActive,
     Remove
<1>2. (\E d \in Discs : Disconnect(d) \/ \E i \in Ids : DiscStart(d, i)) => sessions' \subseteq sessions
  BY DEF Disconnect, DiscTake, DiscJoined, DiscTimeout, DiscClear, DiscRemove, DiscFind,
         DiscSwap, DiscStart, Remove
<1>3. SwitchSwap \/ UNCHANGED vars => UNCHANGED sessions
  BY DEF SwitchSwap, vars
<1> QED BY <1>1, <1>2, <1>3, NextSplit DEF ConnectRegister

\* What becomes of a call: it goes on with the same session, begins on a
\* listed one, or returns with its session unlisted.
LEMMA CallOnward ==
    ASSUME Typed, RemovedForGood, [Next]_vars, NEW d \in Discs
    PROVE  \/ /\ disc'[d].id = disc[d].id
              /\ \/ disc'[d].pc = disc[d].pc
                 \/ disc'[d].pc \notin {"rebinding", "swapping"}
                 \/ disc[d].id \notin sessions'
           \/ /\ disc[d].id = 0 /\ disc'[d].id \in sessions
              /\ disc'[d].pc = "taking"
           \/ /\ disc'[d] = Idle /\ disc[d].id \notin sessions'
<1> USE DEF Typed, CallTypes, CallNamed
<1> DEFINE G == \/ /\ disc'[d].id = disc[d].id
                   /\ \/ disc'[d].pc = disc[d].pc
                      \/ disc'[d].pc \notin {"rebinding", "swapping"}
                      \/ disc[d].id \notin sessions'
                \/ /\ disc[d].id = 0 /\ disc'[d].id \in sessions
                   /\ disc'[d].pc = "taking"
                \/ /\ disc'[d] = Idle /\ disc[d].id \notin sessions'
<1>i. Idle.pc = "idle" /\ Idle.id = 0
  BY DEF Idle
<1>1. CASE UNCHANGED disc BY <1>1
<1>2. ASSUME NEW e \in Discs, Disconnect(e) PROVE G
  <2>1. CASE e # d
    <3>1. disc'[d] = disc[d]
      BY <1>2, <2>1 DEF Disconnect, DiscTake, DiscJoined, DiscTimeout, DiscClear, DiscRemove,
                        DiscFind, DiscSwap, DiscStep
    <3> QED BY <3>1
  <2>2. CASE e = d
    <3>0. disc[d] \in Calls OBVIOUS
    <3>1. CASE DiscTake(d)
      BY <3>0, <3>1 DEF DiscTake, Calls
    <3>2. CASE DiscJoined(d) \/ DiscTimeout(d) \/ DiscClear(d)
      BY <3>0, <3>2 DEF DiscJoined, DiscTimeout, DiscClear, DiscStep, Calls
    <3>3. CASE DiscRemove(d)
      <4>1. disc[d].id \notin sessions' BY <3>3 DEF DiscRemove, Remove
      <4>2. disc'[d] = Idle \/ disc'[d].id = disc[d].id
        BY <3>0, <3>3 DEF DiscRemove, Calls
      <4> QED BY <4>1, <4>2
    <3>4. CASE DiscFind(d)
      <4>1. disc[d].id \notin sessions' /\ disc'[d].id = disc[d].id
        BY <3>0, <3>4 DEF DiscFind, RemovedForGood, Calls
      <4> QED BY <4>1
    <3>5. CASE DiscSwap(d)
      <4>1. disc[d].id \notin sessions' /\ disc'[d] = Idle
        BY <3>5 DEF DiscSwap, RemovedForGood
      <4> QED BY <4>1
    <3> QED BY <1>2, <2>2, <3>1, <3>2, <3>3, <3>4, <3>5 DEF Disconnect
  <2> QED BY <2>1, <2>2
<1>3. ASSUME NEW e \in Discs, NEW id \in Ids, DiscStart(e, id) PROVE G
  <2>1. CASE e # d
    <3>1. disc'[d] = disc[d] BY <1>3, <2>1 DEF DiscStart
    <3> QED BY <3>1
  <2>2. CASE e = d
    <3>1. disc'[d].id = id /\ disc'[d].pc = "taking"
      BY <1>3, <2>2 DEF DiscStart, Idle
    <3> QED BY <3>1, <1>3, <2>2 DEF DiscStart
  <2> QED BY <2>1, <2>2
<1>4. ASSUME NEW id \in Ids, SessionStep(id) PROVE UNCHANGED disc
  BY <1>4 DEF SessionStep, Connect, ConnectPrune, ConnectRegister, ConnectSwap, ConnectReset,
     ConnectSpawn, ConnectStore, TaskCancelled, TaskRunOk, TaskStore, TaskAuthSent, TaskFailed,
     TaskRemove, TaskFind, TaskRebind, LoopSync, LoopKick, LoopEnd, LoopKilled, SwitchActive
<1>5. SwitchSwap \/ UNCHANGED vars => UNCHANGED disc
  BY DEF SwitchSwap, vars
<1> QED BY <1>1, <1>2, <1>3, <1>4, <1>5, NextSplit

\* What a step may add to the aborted loops is a session being closed.
LEMMA KilledBefore ==
    ASSUME Typed, [Next]_vars, NEW id \in killed'
    PROVE  id \in killed \/ \E d \in Discs : disc[d].id = id /\ disc'[d].id = id
<1>1. ASSUME NEW i \in Ids, SessionStep(i) PROVE killed' \subseteq killed
  BY <1>1 DEF SessionStep, Connect, ConnectPrune, ConnectRegister, ConnectSwap, ConnectReset,
     ConnectSpawn, ConnectStore, TaskCancelled, TaskRunOk, TaskStore, TaskAuthSent, TaskFailed,
     TaskRemove, TaskFind, TaskRebind, LoopSync, LoopKick, LoopEnd, LoopKilled, LoopStops,
     SwitchActive
<1>2. ASSUME NEW d \in Discs, Disconnect(d)
      PROVE  \/ killed' = killed
             \/ killed' = killed \cup {disc[d].id} /\ disc'[d].id = disc[d].id
  <2>1. CASE DiscTimeout(d)
    <3>1. disc[d] \in Calls BY DEF Typed, CallTypes
    <3>2. disc'[d].id = disc[d].id
      BY <2>1, <3>1 DEF DiscTimeout, DiscStep, Typed, CallTypes, Calls
    <3> QED BY <2>1, <3>2 DEF DiscTimeout
  <2>2. CASE ~DiscTimeout(d)
    BY <1>2, <2>2 DEF Disconnect, DiscTake, DiscJoined, DiscClear, DiscRemove, DiscFind, DiscSwap
  <2> QED BY <2>1, <2>2
<1>3. ASSUME NEW d \in Discs, NEW i \in Ids, DiscStart(d, i) PROVE UNCHANGED killed
  BY <1>3 DEF DiscStart
<1>4. SwitchSwap \/ UNCHANGED vars => UNCHANGED killed
  BY DEF SwitchSwap, vars
<1> QED BY <1>1, <1>2, <1>3, <1>4, NextSplit

\* Once closed a session stays closed.
LEMMA OpenBefore ==
    ASSUME Typed, RemovedForGood, RegisteredOnce, [Next]_vars, NEW id \in Ids, Open(id)'
    PROVE  Open(id) \/ ConnectRegister(id)
<1> SUFFICES ASSUME ~ConnectRegister(id) PROVE Open(id)
  OBVIOUS
<1>1. id \in sessions
  BY ListedBefore DEF Open
<1>2. ASSUME NEW d \in Discs, disc[d].id = id PROVE FALSE
  <2>1. id # 0 BY ZeroIsNone
  <2>2. disc'[d].id # id /\ id \in sessions' BY DEF Open
  <2> QED BY <1>2, <2>1, <2>2, CallOnward
<1> QED BY <1>1, <1>2 DEF Open

\* RegisteredOnce and RemovedForGood are kept.
LEMMA RegisteredStep ==
    ASSUME Typed, RemovedForGood, RegisteredOnce, [Next]_vars
    PROVE  RegisteredOnce' /\ RemovedForGood'
<1>t. Typed' BY TypedStep
<1>1. ASSUME NEW id \in Ids, Unregistered(id)' PROVE id \notin sessions' /\ id \notin killed'
  <2>1. Unregistered(id) BY <1>1, ConnectOnward
  <2>2. id \notin sessions /\ id \notin killed BY <2>1 DEF RegisteredOnce
  <2>3. ~ConnectRegister(id)
    BY <1>1 DEF ConnectRegister, ConnectStep, Unregistered, Typed, TaskTypes
  <2>4. id \notin sessions' BY <2>2, <2>3, ListedBefore
  <2>5. \A d \in Discs : disc[d].id # id BY <2>1 DEF RegisteredOnce
  <2> QED BY <2>2, <2>4, <2>5, KilledBefore
<1>2. ASSUME NEW d \in Discs, disc'[d].id \in Ids
      PROVE  connect'[disc'[d].id] \notin {"none", "pruned"}
  <2>1. disc'[d].id = disc[d].id \/ disc'[d].id \in sessions
    BY <1>2, CallOnward, ZeroIsNone DEF Idle
  <2> DEFINE i == disc'[d].id
  <2>2. PICK id \in Ids : id = i BY <1>2
  <2>3. ~Unregistered(id)
    BY <2>1, <2>2 DEF RegisteredOnce
  <2>4. ~Unregistered(id)' BY <2>3, ConnectOnward
  <2> QED BY <2>2, <2>4 DEF Unregistered
<1>3. ASSUME NEW d \in Discs, disc'[d].pc \in {"rebinding", "swapping"}
      PROVE  disc'[d].id \notin sessions'
  <2>1. CASE disc'[d] = Idle BY <2>1, <1>3 DEF Idle
  <2>2. CASE disc'[d].pc = "taking" BY <2>2, <1>3
  <2>3. CASE disc'[d].id = disc[d].id /\ disc[d].id \notin sessions' BY <2>3
  <2>4. CASE disc'[d].id = disc[d].id /\ disc'[d].pc = disc[d].pc
    <3>1. disc[d].id \notin sessions BY <2>4, <1>3 DEF RemovedForGood
    <3>2. disc[d].id \in Ids => ~Unregistered(disc[d].id) BY DEF RegisteredOnce
    <3>3. disc[d].id \in Ids => ~ConnectRegister(disc[d].id)
      BY <3>2 DEF ConnectRegister, ConnectStep, Unregistered
    <3> QED BY <2>4, <3>1, <3>3, ListedBefore
  <2> QED BY <1>3, <2>1, <2>2, <2>3, <2>4, CallOnward
<1> QED BY <1>1, <1>2, <1>3 DEF RegisteredOnce, RemovedForGood, Unregistered

\* Two states of a session that differ at most in the connect task's handle.
SameButTask(s, t) == s.status = t.status /\ s.handle = t.handle /\ s.join = t.join
SameLife(id) == connect'[id] = connect[id] /\ task'[id] = task[id] /\ loop'[id] = loop[id]

\* A session's steps leave the other sessions alone, except that connect()
\* stores its handle wherever inner points.
LEMMA OthersAlone ==
    ASSUME Typed, NEW i \in Ids, SessionStep(i), NEW id \in Ids, id # i
    PROVE  SameLife(id) /\ SameButTask(sess'[id], sess[id])
<1> USE DEF Typed, TaskTypes, StateTypes, SameLife, SameButTask
<1>1. CASE ConnectPrune(i) \/ ConnectRegister(i) \/ ConnectSwap(i) \/ ConnectReset(i) \/ ConnectSpawn(i)
  BY <1>1 DEF ConnectPrune, ConnectRegister, ConnectSwap, ConnectReset, ConnectSpawn, ConnectStep
<1>2. CASE ConnectStore(i)
  <2>1. SameLife(id) BY <1>2 DEF ConnectStore, ConnectStep
  <2>2. sess'[id] = sess[id] \/ sess'[id] = [sess[id] EXCEPT !.task = i]
    BY <1>2 DEF ConnectStore
  <2>3. sess[id] \in States OBVIOUS
  <2> QED BY <2>1, <2>2, <2>3 DEF States
<1>3. CASE TaskCancelled(i) \/ TaskRunOk(i) \/ TaskStore(i) \/ TaskAuthSent(i)
  BY <1>3 DEF TaskCancelled, TaskRunOk, TaskStore, TaskAuthSent, TaskStep
<1>4. CASE TaskFailed(i) \/ TaskRemove(i) \/ TaskFind(i) \/ TaskRebind(i)
  BY <1>4 DEF TaskFailed, TaskRemove, TaskFind, TaskRebind, TaskStep, MarkDisconnected
<1>5. CASE LoopSync(i) \/ LoopKick(i) \/ LoopEnd(i) \/ LoopKilled(i) \/ SwitchActive(i)
  BY <1>5 DEF LoopSync, LoopKick, LoopEnd, LoopKilled, SwitchActive, LoopStep, LoopStops
<1> QED BY <1>1, <1>2, <1>3, <1>4, <1>5 DEF SessionStep, Connect

\* disconnect_session() touches the state of the session it closes only, and
\* never makes it connected.
LEMMA CallsAlone ==
    ASSUME Typed, NEW d \in Discs, Disconnect(d), NEW id \in Ids
    PROVE  /\ SameLife(id)
           /\ disc[d].id # id => sess'[id] = sess[id]
           /\ sess'[id].status \in {sess[id].status, "disconnected"}
<1> USE DEF Typed, StateTypes, SameLife
<1>0. sess[id] \in States OBVIOUS
<1>1. CASE DiscTake(d)
  <2>1. SameLife(id) BY <1>1 DEF DiscTake
  <2>2. disc[d].id # id => sess'[id] = sess[id] BY <1>1 DEF DiscTake
  <2>3. disc[d].id = id => sess'[id] = [sess[id] EXCEPT !.handle = FALSE, !.join = FALSE, !.task = 0]
    BY <1>1 DEF DiscTake
  <2> QED BY <1>0, <2>1, <2>2, <2>3 DEF States
<1>2. CASE DiscClear(d)
  <2>1. SameLife(id) BY <1>2 DEF DiscClear
  <2>2. disc[d].id # id => sess'[id] = sess[id] BY <1>2 DEF DiscClear, MarkDisconnected
  <2>3. disc[d].id = id => sess'[id] = [Disconnected(sess[id]) EXCEPT !.task = 0]
    BY <1>2 DEF DiscClear, MarkDisconnected
  <2> QED BY <1>0, <2>1, <2>2, <2>3 DEF States, Disconnected
<1>3. CASE DiscJoined(d) \/ DiscTimeout(d) \/ DiscRemove(d) \/ DiscFind(d) \/ DiscSwap(d)
  BY <1>3 DEF DiscJoined, DiscTimeout, DiscRemove, DiscFind, DiscSwap
<1> QED BY <1>1, <1>2, <1>3 DEF Disconnect

\* The start of a call and the swap of a switch touch no session.
LEMMA RestAlone ==
    ASSUME \/ \E d \in Discs, i \in Ids : DiscStart(d, i)
           \/ SwitchSwap \/ UNCHANGED vars
    PROVE  UNCHANGED <<connect, task, loop, sess>>
BY DEF DiscStart, SwitchSwap, vars

\* The life of one session: its handles and its status against the state of
\* its loop, over a step of its own.
InOrderAt(id) ==
    /\ connect[id] \notin {"spawned", "done"} => task[id] = "none"
    /\ task[id] \in {"none", "dialing"} => loop[id] = "none"
    /\ loop[id] \in {"none", "running", "authed"} => sess[id].status # "connected"
LEMMA OwnInOrder ==
    ASSUME Typed, NEW id \in Ids, SessionStep(id), InOrderAt(id)
    PROVE  InOrderAt(id)'
<1> USE DEF Typed, TaskTypes, StateTypes, InOrderAt
<1>0. sess[id] \in States OBVIOUS
<1>1. CASE ConnectPrune(id) \/ ConnectRegister(id) \/ ConnectSwap(id)
  BY <1>1 DEF ConnectPrune, ConnectRegister, ConnectSwap, ConnectStep
<1>2. CASE ConnectReset(id)
  <2>1. sess'[id] = [Fresh EXCEPT !.status = "connecting", !.target = target[id]]
    BY <1>2 DEF ConnectReset
  <2>2. sess'[id].status = "connecting" BY <2>1 DEF Fresh
  <2> QED BY <1>2, <2>2 DEF ConnectReset, ConnectStep
<1>3. CASE ConnectSpawn(id)
  BY <1>3 DEF ConnectSpawn, ConnectStep
<1>4. CASE ConnectStore(id)
  <2>1. sess'[id] = sess[id] \/ sess'[id] = [sess[id] EXCEPT !.task = id]
    BY <1>4 DEF ConnectStore
  <2>2. sess'[id].status = sess[id].status BY <2>1, <1>0 DEF States
  <2> QED BY <1>4, <2>2 DEF ConnectStore, ConnectStep
<1>5. CASE TaskCancelled(id) \/ TaskRunOk(id) \/ TaskAuthSent(id)
  BY <1>5 DEF TaskCancelled, TaskRunOk, TaskAuthSent, TaskStep
<1>6. CASE TaskStore(id)
  <2>1. sess'[id] = [sess[id] EXCEPT !.handle = TRUE, !.join = TRUE, !.task = 0]
    BY <1>6 DEF TaskStore
  <2>2. sess'[id].status = sess[id].status BY <2>1, <1>0 DEF States
  <2> QED BY <1>6, <2>2 DEF TaskStore, TaskStep
<1>7. CASE TaskFailed(id)
  <2>1. sess'[id] = [Disconnected(sess[id]) EXCEPT !.task = 0]
    BY <1>7 DEF TaskFailed, MarkDisconnected
  <2>2. sess'[id].status = "disconnected" BY <2>1, <1>0 DEF States, Disconnected
  <2> QED BY <1>7, <2>2 DEF TaskFailed, TaskStep
<1>8. CASE TaskRemove(id) \/ TaskFind(id) \/ TaskRebind(id) \/ SwitchActive(id)
  BY <1>8 DEF TaskRemove, TaskFind, TaskRebind, SwitchActive, TaskStep
<1>9. CASE LoopSync(id)
  BY <1>9 DEF LoopSync, LoopStep
<1>10. CASE LoopKick(id) \/ LoopEnd(id) \/ LoopKilled(id)
  BY <1>10 DEF LoopKick, LoopEnd, LoopKilled, LoopStep, LoopStops, Runs
<1> QED BY <1>1, <1>2, <1>3, <1>4, <1>5, <1>6, <1>7, <1>8, <1>9, <1>10 DEF SessionStep, Connect

\* InOrder is kept.
LEMMA InOrderStep == ASSUME Typed, InOrder, [Next]_vars PROVE InOrder'
<1> SUFFICES ASSUME NEW id \in Ids PROVE InOrderAt(id)'
  BY DEF InOrder, InOrderAt
<1>0. InOrderAt(id) BY DEF InOrder, InOrderAt
<1>1. CASE SessionStep(id) BY <1>0, <1>1, OwnInOrder
<1>2. ASSUME NEW i \in Ids, i # id, SessionStep(i) PROVE InOrderAt(id)'
  BY <1>0, <1>2, OthersAlone DEF InOrderAt, SameLife, SameButTask
<1>3. ASSUME NEW d \in Discs, Disconnect(d) PROVE InOrderAt(id)'
  BY <1>0, <1>3, CallsAlone DEF InOrderAt, SameLife
<1>4. CASE \/ \E d \in Discs, i \in Ids : DiscStart(d, i)
           \/ SwitchSwap \/ UNCHANGED vars
  BY <1>0, <1>4, RestAlone DEF InOrderAt
<1> QED BY <1>1, <1>2, <1>3, <1>4, NextSplit

\* KilledClosed is kept: a closed session cannot be opened again.
LEMMA KilledStep ==
    ASSUME Typed, RegisteredOnce, RemovedForGood, KilledClosed, [Next]_vars
    PROVE  KilledClosed'
<1> SUFFICES ASSUME NEW id \in killed', Open(id)' PROVE FALSE
  BY DEF KilledClosed
<1>1. id \in Ids BY TypedStep DEF Typed, TaskTypes
<1>2. Open(id) \/ ConnectRegister(id) BY <1>1, OpenBefore
<1>3. id \in killed BY KilledBefore DEF Open
<1>4. ~Unregistered(id) BY <1>1, <1>3 DEF RegisteredOnce
<1>5. ~ConnectRegister(id) BY <1>4 DEF ConnectRegister, ConnectStep, Unregistered
<1> QED BY <1>2, <1>3, <1>5 DEF KilledClosed

\* OpenServed, of one session and over a step of its own.
ServedAt(id) == /\ sess[id].status = "connected" => loop[id] = "synced"
                /\ Serving(id) => sess[id].handle /\ sess[id].join
LEMMA OwnServed ==
    ASSUME Typed, NEW id \in Ids, SessionStep(id), InOrderAt(id), ServedAt(id), id \notin killed
    PROVE  ServedAt(id)'
<1> USE DEF Typed, TaskTypes, StateTypes, InOrderAt, ServedAt, Serving
<1>0. sess[id] \in States OBVIOUS
<1>1. CASE ConnectPrune(id) \/ ConnectRegister(id) \/ ConnectSwap(id)
  BY <1>1 DEF ConnectPrune, ConnectRegister, ConnectSwap
<1>2. CASE ConnectReset(id)
  <2>1. sess'[id] = [Fresh EXCEPT !.status = "connecting", !.target = target[id]]
    BY <1>2 DEF ConnectReset
  <2>2. sess'[id].status = "connecting" BY <2>1 DEF Fresh
  <2>3. loop'[id] = "none" BY <1>2 DEF ConnectReset, ConnectStep
  <2> QED BY <2>2, <2>3
<1>3. CASE ConnectSpawn(id)
  BY <1>3 DEF ConnectSpawn, ConnectStep
<1>4. CASE ConnectStore(id)
  <2>1. sess'[id] = sess[id] \/ sess'[id] = [sess[id] EXCEPT !.task = id]
    BY <1>4 DEF ConnectStore
  <2>2. /\ sess'[id].status = sess[id].status /\ sess'[id].handle = sess[id].handle
        /\ sess'[id].join = sess[id].join
    BY <2>1, <1>0 DEF States
  <2> QED BY <1>4, <2>2 DEF ConnectStore
<1>5. CASE TaskCancelled(id) \/ TaskRunOk(id) \/ TaskAuthSent(id)
  BY <1>5 DEF TaskCancelled, TaskRunOk, TaskAuthSent, TaskStep
<1>6. CASE TaskStore(id)
  <2>1. sess'[id] = [sess[id] EXCEPT !.handle = TRUE, !.join = TRUE, !.task = 0]
    BY <1>6 DEF TaskStore
  <2>2. sess'[id].status = sess[id].status /\ sess'[id].handle /\ sess'[id].join
    BY <2>1, <1>0 DEF States
  <2> QED BY <1>6, <2>2 DEF TaskStore
<1>7. CASE TaskFailed(id)
  <2>1. sess'[id] = [Disconnected(sess[id]) EXCEPT !.task = 0]
    BY <1>7 DEF TaskFailed, MarkDisconnected
  <2>2. sess'[id].status = "disconnected" BY <2>1, <1>0 DEF States, Disconnected
  <2>3. loop'[id] \in {"none", "ended"} BY <1>7 DEF TaskFailed, TaskStep
  <2> QED BY <2>2, <2>3
<1>8. CASE TaskRemove(id) \/ TaskFind(id) \/ TaskRebind(id) \/ SwitchActive(id)
  BY <1>8 DEF TaskRemove, TaskFind, TaskRebind, SwitchActive, TaskStep
<1>9. CASE LoopSync(id)
  <2>1. sess'[id] = [sess[id] EXCEPT !.status = "connected"]
    BY <1>9 DEF LoopSync
  <2>2. sess'[id].handle = sess[id].handle /\ sess'[id].join = sess[id].join
    BY <2>1, <1>0 DEF States
  <2>3. loop[id] = "authed" /\ loop'[id] = "synced" BY <1>9 DEF LoopSync, LoopStep
  <2> QED BY <2>2, <2>3
<1>10. CASE LoopKick(id) \/ LoopEnd(id)
  <2>1. sess'[id] = Disconnected(sess[id])
    BY <1>10 DEF LoopKick, LoopEnd
  <2>2. sess'[id].status = "disconnected" BY <2>1, <1>0 DEF States, Disconnected
  <2>3. loop'[id] \in {"kicked", "ended"}
    BY <1>10 DEF LoopKick, LoopEnd, LoopStep, LoopStops
  <2> QED BY <2>2, <2>3
<1>11. CASE LoopKilled(id)
  BY <1>11 DEF LoopKilled
<1> QED BY <1>1, <1>2, <1>3, <1>4, <1>5, <1>6, <1>7, <1>8, <1>9, <1>10, <1>11 DEF SessionStep, Connect

\* OpenServed is kept.
LEMMA ServedStep ==
    ASSUME Typed, RegisteredOnce, RemovedForGood, InOrder, KilledClosed, OpenServed, [Next]_vars
    PROVE  OpenServed'
<1> SUFFICES ASSUME NEW id \in Ids, Open(id)' PROVE ServedAt(id)'
  BY DEF OpenServed, ServedAt
<1>0. InOrderAt(id) BY DEF InOrder, InOrderAt
<1>r. CASE ConnectRegister(id)
  <2>1. task[id] = "none" BY <1>r, <1>0 DEF ConnectRegister, ConnectStep, InOrderAt
  <2>2. loop[id] = "none" /\ sess[id].status # "connected" BY <2>1, <1>0 DEF InOrderAt
  <2> QED BY <2>2, <1>r DEF ConnectRegister, ServedAt, Serving
<1>o. CASE ~ConnectRegister(id)
  <2>0. Open(id) BY <1>o, OpenBefore
  <2>s. ServedAt(id) BY <2>0 DEF OpenServed, ServedAt
  <2>1. CASE SessionStep(id)
    <3>1. id \notin killed BY <2>0 DEF KilledClosed
    <3> QED BY <1>0, <2>1, <2>s, <3>1, OwnServed
  <2>2. ASSUME NEW i \in Ids, i # id, SessionStep(i) PROVE ServedAt(id)'
    BY <2>s, <2>2, OthersAlone DEF ServedAt, Serving, SameLife, SameButTask
  <2>3. ASSUME NEW d \in Discs, Disconnect(d) PROVE ServedAt(id)'
    <3>1. sess'[id] = sess[id] BY <2>0, <2>3, CallsAlone DEF Open
    <3> QED BY <2>s, <2>3, <3>1, CallsAlone DEF ServedAt, Serving, SameLife
  <2>4. CASE \/ \E d \in Discs, i \in Ids : DiscStart(d, i)
             \/ SwitchSwap \/ UNCHANGED vars
    BY <2>s, <2>4, RestAlone DEF ServedAt, Serving
  <2> QED BY <2>1, <2>2, <2>3, <2>4, NextSplit
<1> QED BY <1>r, <1>o

\* NeverHeadless is kept: the prune hands over to the registration of the
\* same connect(), and every removal picks a successor.
LEMMA HeadStep == ASSUME Typed, NeverHeadless, [Next]_vars PROVE NeverHeadless'
<1> USE DEF Typed, RegistryTypes, NeverHeadless
<1>p. ASSUME NEW id \in Ids, connect[id] = "pruned"
      PROVE  connect'[id] = "pruned" \/ active' # 0
  <2>1. CASE ConnectRegister(id) BY <2>1, ZeroIsNone DEF ConnectRegister
  <2>2. CASE ~ConnectRegister(id)
    <3>1. ASSUME SessionStep(id) PROVE UNCHANGED connect
      BY <3>1, <2>2, <1>p DEF SessionStep, Connect, ConnectPrune, ConnectSwap, ConnectReset,
         ConnectSpawn, ConnectStore, ConnectStep, TaskCancelled, TaskRunOk, TaskStore,
         TaskAuthSent, TaskFailed, TaskRemove, TaskFind, TaskRebind, LoopSync, LoopKick,
         LoopEnd, LoopKilled, SwitchActive
    <3> QED
      BY <1>p, <3>1, OthersAlone, CallsAlone, RestAlone, NextSplit DEF SameLife
  <2> QED BY <2>1, <2>2
<1>r. ASSUME NEW id \in Ids, Remove(id), active # 0 PROVE NeverHeadless'
  BY <1>r, RemoveKeeps
<1>e. ASSUME sessions = {}, sessions' # {} PROVE active' # 0
  <2>1. PICK id \in sessions' : TRUE BY <1>e
  <2> QED BY <2>1, <1>e, ListedBefore, ZeroIsNone DEF ConnectRegister
<1>1. CASE sessions = {} BY <1>1, <1>e
<1>2. CASE \E id \in Ids : connect[id] = "pruned" BY <1>2, <1>p
<1>3. CASE active # 0
  <2>1. ASSUME NEW id \in Ids, SessionStep(id) PROVE NeverHeadless'
    <3>1. CASE ConnectPrune(id)
      BY <3>1 DEF ConnectPrune, ConnectStep, TaskTypes
    <3>2. CASE ConnectRegister(id)
      BY <3>2, ZeroIsNone DEF ConnectRegister
    <3>3. CASE TaskRemove(id)
      BY <3>3, <1>3, <1>r DEF TaskRemove
    <3>4. CASE SwitchActive(id)
      BY <3>4, ZeroIsNone DEF SwitchActive
    <3>5. CASE UNCHANGED active
      BY <3>5, <1>3
    <3> QED
      BY <2>1, <3>1, <3>2, <3>3, <3>4, <3>5
      DEF SessionStep, Connect, ConnectSwap, ConnectReset, ConnectSpawn, ConnectStore,
          TaskCancelled, TaskRunOk, TaskStore, TaskAuthSent, TaskFailed, TaskFind, TaskRebind,
          LoopSync, LoopKick, LoopEnd, LoopKilled
  <2>2. ASSUME NEW d \in Discs, Disconnect(d) PROVE NeverHeadless'
    <3>1. CASE DiscRemove(d)
      <4>1. disc[d].id \in Ids BY <3>1 DEF DiscRemove, CallTypes, CallNamed, Calls
      <4> QED BY <3>1, <4>1, <1>3, <1>r DEF DiscRemove
    <3>2. CASE ~DiscRemove(d)
      <4>1. UNCHANGED active
        BY <2>2, <3>2 DEF Disconnect, DiscTake, DiscJoined, DiscTimeout, DiscClear, DiscFind, DiscSwap
      <4> QED BY <4>1, <1>3
    <3> QED BY <3>1, <3>2
  <2>3. CASE \/ \E d \in Discs, i \in Ids : DiscStart(d, i)
             \/ SwitchSwap \/ UNCHANGED vars
    <3>1. UNCHANGED active BY <2>3 DEF DiscStart, SwitchSwap, vars
    <3> QED BY <3>1, <1>3
  <2> QED BY <2>1, <2>2, <2>3, NextSplit
<1> QED BY <1>1, <1>2, <1>3

-----------------------------------------------------------------------------
\* The invariant holds initially.
LEMMA SessInit == Init => SessInv
<1> SUFFICES ASSUME Init PROVE SessInv
  OBVIOUS
<1>1. Idle \in Calls /\ Idle.pc = "idle" /\ Idle.id = 0
  BY DEF Idle, Calls, DiscPcs
<1>2. CallTypes /\ CallNamed
  BY <1>1 DEF Init, CallTypes, CallNamed
<1>3. StateTypes /\ \A id \in Ids : sess[id].status = "disconnected"
  BY FreshIsState DEF Init, StateTypes, Fresh
<1>4. TaskTypes
  BY DEF Init, TaskTypes, ConnectPcs, TaskPcs, LoopPcs
<1>5. RegistryTypes
  BY BoundsAreNat DEF Init, RegistryTypes
<1>6. RegisteredOnce /\ RemovedForGood
  BY <1>1, ZeroIsNone DEF Init, RegisteredOnce, RemovedForGood
<1>7. InOrder
  BY <1>3 DEF Init, InOrder
<1>8. KilledClosed /\ OpenServed /\ NeverHeadless
  BY DEF Init, KilledClosed, OpenServed, NeverHeadless, Open
<1> QED BY <1>2, <1>3, <1>4, <1>5, <1>6, <1>7, <1>8 DEF SessInv, Typed

\* The invariant is inductive.
LEMMA SessInvStep == SessInv /\ [Next]_vars => SessInv'
BY TypedStep, RegisteredStep, InOrderStep, KilledStep, ServedStep, HeadStep DEF SessInv

\* All variables of the session layer keep their types: in particular the
\* active session is always listed, and inner always points at a session.
THEOREM TypeCorrect == Spec => []TypeOK
<1>1. SessInv => TypeOK
  BY TypeParts DEF SessInv, Typed
<1> QED BY <1>1, SessInit, SessInvStep, PTL DEF Spec

\* While sessions are listed one of them is active, save between the prune
\* and the registration of one connect().
THEOREM NeverHeadlessCorrect == Spec => []NeverHeadless
<1>1. SessInv => NeverHeadless
  BY DEF SessInv
<1> QED BY <1>1, SessInit, SessInvStep, PTL DEF Spec

\* A session listed as connected, and not being disconnected, has a running
\* event loop and both of its handles, however connects, failures, kicks,
\* disconnects, timeouts and switches interleave.
THEOREM ConnectedIsLiveCorrect == Spec => []ConnectedIsLive
<1>1. SessInv => ConnectedIsLive
  <2> SUFFICES ASSUME SessInv, NEW id \in sessions,
                      sess[id].status = "connected", \A d \in Discs : disc[d].id # id
               PROVE  loop[id] = "synced" /\ sess[id].handle /\ sess[id].join
    BY DEF ConnectedIsLive
  <2>1. id \in Ids BY DEF SessInv, Typed, RegistryTypes
  <2>2. Open(id) BY DEF Open
  <2> QED BY <2>1, <2>2 DEF SessInv, OpenServed, Serving
<1> QED BY <1>1, SessInit, SessInvStep, PTL DEF Spec
=============================================================================
