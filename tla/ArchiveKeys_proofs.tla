------------------------- MODULE ArchiveKeys_proofs -------------------------
(***************************************************************************)
(* No removed key of a peer comes back within a session, and where the     *)
(* Signal bridge loads a channel marked as fetched has been asked for or   *)
(* will be, for any channels, any number of tasks, messages and restarts.  *)
(*                                                                         *)
(* The second property needs to tell the tasks that are bound to ask from  *)
(* those that may give up: a task of a mode change may end without asking, *)
(* so that one is around does not excuse the mark.                         *)
(***************************************************************************)
EXTENDS ArchiveKeys, TLAPS

\* Assumption ArchiveAssumption, in the parts the proofs use.
LEMMA HandlerIsNoTask == Handler \notin Tasks
BY ArchiveAssumption

-----------------------------------------------------------------------------
\* A key in memory is one that was accepted or restored.

MemoryTypes == key \in [Chans -> KeySet] /\ file \in [Chans -> KeySet]

\* The steps of the tasks and of the file write derived keys only.
LEMMA StepsDerive ==
    ASSUME MemoryTypes, NEW t \in Tasks, Step(t)
    PROVE  /\ UNCHANGED <<file, received, restored>>
           /\ key' = key \/ \E c : key' = [key EXCEPT ![c] = "derived"]
<1> USE DEF memory, ghosts, Derive, MemoryTypes
<1>1. CASE SyncResolve(t) \/ SyncCheck(t) \/ SyncFetch(t) \/ TimerFires(t) \/ JoinBegin(t)
           \/ JoinCheck(t) \/ JoinFetch(t) \/ ChangeBegin(t) \/ ChangeNeeds(t)
           \/ ChangeShould(t) \/ ChangeFetch(t)
  BY <1>1 DEF SyncResolve, SyncCheck, SyncFetch, TimerFires, JoinBegin, JoinCheck, JoinFetch,
              ChangeBegin, ChangeNeeds, ChangeShould, ChangeFetch
<1>2. CASE SyncEnsure(t)
  <2>1. UNCHANGED <<file, received, restored>> BY <1>2 DEF SyncEnsure
  <2>2. CASE UNCHANGED key BY <2>1, <2>2
  <2>3. CASE key' = [key EXCEPT ![task[t].ch] = IF @ = "none" THEN "derived" ELSE @]
    <3>1. CASE key[task[t].ch] = "none"
      <4>1. key' = [key EXCEPT ![task[t].ch] = "derived"] BY <2>3, <3>1
      <4> QED BY <2>1, <4>1
    <3>2. CASE key[task[t].ch] # "none"
      <4>1. key' = key BY <2>3, <3>2
      <4> QED BY <2>1, <4>1
    <3> QED BY <3>1, <3>2
  <2> QED BY <1>2, <2>2, <2>3 DEF SyncEnsure
<1>3. CASE SyncGenerate(t) \/ JoinDerive(t) \/ JoinOriginate(t) \/ ChangeStore(t)
  BY <1>3 DEF SyncGenerate, JoinDerive, JoinOriginate, ChangeStore
<1> QED BY <1>1, <1>2, <1>3 DEF Step

\* The work on the file leaves the memory alone.
LEMMA FileKeepsMemory ==
    ASSUME NEW u \in Users, File(u)
    PROVE  UNCHANGED <<mode, current, key, bridge, fetched, loading, events, kills,
                       asked, received, restored>>
BY DEF File, FileRead, FileTruncate, FileWrite, memory, ghosts, counts

-----------------------------------------------------------------------------
\* The tasks.

FilePcs == {"read", "truncate", "write"}
\* Where a task of connect or of a join is before it asks.
AskPcs == {"ensure", "check", "generate", "fetch", "join", "derive", "jcheck", "originate", "jfetch"}

\* A task that is past its start works on a channel, and goes back from the
\* file to a join, which is all that a task persists a key for.
Placed(r) == /\ r.pc \notin {"idle", "sync"} => r.ch \in Chans
             /\ r.pc \in FilePcs => r.next \in {"jcheck", "jfetch"}
TaskTypes == task \in [Users -> TaskState] /\ \A t \in Tasks : Placed(task[t])

\* A task that will ask for the messages of its channel.
Committed(r) == r.pc \in AskPcs \cup FilePcs

\* The idle task, and its updates that the handlers and tasks make.
LEMMA IdleTyped ==
    /\ Idle \in TaskState /\ Idle.pc = "idle" /\ Idle.ch = NoChan
    /\ [Idle EXCEPT !.pc = "sync"] \in TaskState
    /\ [Idle EXCEPT !.pc = "sync"].pc = "sync" /\ [Idle EXCEPT !.pc = "sync"].ch = NoChan
    /\ \A c \in Chans, k \in KeySet :
         [Idle EXCEPT !.pc = "read", !.ch = c, !.put = k] \in TaskState
BY DEF Idle, TaskState, Pcs, Modes, KeySet, NoKeys

\* What a step of task t does to the tasks, the marks and the questions.
Advances(t) ==
    /\ TaskTypes'
    /\ \A u \in Users : u # t => task'[u] = task[u]
    /\ asked \subseteq asked' /\ fetched' \subseteq fetched \cup asked'
    /\ BridgeLoads /\ Committed(task[t]) =>
         \/ Committed(task'[t]) /\ task'[t].ch = task[t].ch
         \/ task[t].ch \in asked'

\* One record of task is replaced.
LEMMA Replace ==
    ASSUME TaskTypes, NEW t \in Tasks, NEW r \in TaskState, Placed(r),
           task' = [task EXCEPT ![t] = r],
           asked \subseteq asked', fetched' \subseteq fetched \cup asked',
           BridgeLoads /\ Committed(task[t]) =>
             (Committed(r) /\ r.ch = task[t].ch) \/ task[t].ch \in asked'
    PROVE  Advances(t)
<1>1. t \in Users BY DEF Users
<1>2. TaskTypes' BY <1>1 DEF TaskTypes
<1>3. task'[t] = r BY <1>1 DEF TaskTypes
<1> QED BY <1>1, <1>2, <1>3 DEF Advances, TaskTypes

\* A task goes on within its life, to where it will still ask if it would.
LEMMA GoesOn ==
    ASSUME TaskTypes, NEW t \in Tasks, NEW p \in Pcs \ FilePcs, Goto(t, p),
           task[t].pc \notin {"idle", "sync"},
           asked \subseteq asked', fetched' \subseteq fetched \cup asked',
           Committed(task[t]) => p \in AskPcs \/ task[t].ch \in asked'
    PROVE  Advances(t)
<1> DEFINE r == [task[t] EXCEPT !.pc = p]
<1>1. task[t] \in TaskState /\ Placed(task[t]) BY DEF TaskTypes, Users
<1>2. r \in TaskState /\ r.pc = p /\ r.ch = task[t].ch BY <1>1 DEF TaskState
<1>3. task' = [task EXCEPT ![t] = r] BY DEF Goto
<1>4. Placed(r) BY <1>1, <1>2 DEF Placed, FilePcs
<1>5. Committed(task[t]) => (Committed(r) /\ r.ch = task[t].ch) \/ task[t].ch \in asked'
  BY <1>2 DEF Committed
<1> HIDE DEF r
<1> QED BY <1>2, <1>3, <1>4, <1>5, Replace

\* A task ends where it is not bound to ask, or where the bridge is missing.
LEMMA Ends ==
    ASSUME TaskTypes, NEW t \in Tasks, End(t), UNCHANGED <<asked, fetched>>,
           ~Committed(task[t]) \/ ~BridgeLoads
    PROVE  Advances(t)
<1>1. Placed(Idle) BY IdleTyped DEF Placed, FilePcs
<1> QED BY <1>1, IdleTyped, Replace DEF End

\* A task turns to the file before it goes on with its join.
LEMMA TurnsToFile ==
    ASSUME TaskTypes, NEW t \in Tasks, NEW p \in {"jcheck", "jfetch"}, Persist(t, "derived", p),
           task[t].pc \notin {"idle", "sync"}, UNCHANGED <<asked, fetched>>
    PROVE  Advances(t)
<1> DEFINE r == [task[t] EXCEPT !.pc = "read", !.put = "derived", !.next = p]
<1>1. task[t] \in TaskState /\ Placed(task[t]) BY DEF TaskTypes, Users
<1>2. r \in TaskState /\ r.pc = "read" /\ r.next = p /\ r.ch = task[t].ch
  BY <1>1 DEF TaskState, Pcs, KeySet
<1>3. task' = [task EXCEPT ![t] = r] BY DEF Persist
<1>4. Placed(r) /\ Committed(r) BY <1>1, <1>2 DEF Placed, FilePcs, Committed
<1> HIDE DEF r
<1> QED BY <1>2, <1>3, <1>4, Replace

\* Every step of a task advances it.
LEMMA StepAdvances ==
    ASSUME TaskTypes, mode \in [Chans -> Modes], current \in Chans,
           NEW t \in Tasks, Step(t)
    PROVE  Advances(t)
<1> USE DEF At, memory, ghosts, FilePcs, AskPcs, Pcs, Committed
<1>0. task[t] \in TaskState /\ Placed(task[t]) BY DEF TaskTypes, Users
<1>b. ~BridgeAfter => ~BridgeLoads BY DEF BridgeAfter
<1>1. CASE SyncResolve(t)
  <2>1. CASE End(t) BY <1>1, <2>1, Ends DEF SyncResolve
  <2>2. CASE task' = [task EXCEPT ![t].pc = "ensure", ![t].ch = current, ![t].m = mode[current]]
    <3> DEFINE r == [task[t] EXCEPT !.pc = "ensure", !.ch = current, !.m = mode[current]]
    <3>1. r \in TaskState /\ r.pc = "ensure" /\ r.ch = current BY <1>0 DEF TaskState
    <3>2. task' = [task EXCEPT ![t] = r] BY <2>2
    <3>3. Placed(r) BY <3>1 DEF Placed
    <3>4. ~Committed(task[t]) /\ UNCHANGED <<asked, fetched>> BY <1>1 DEF SyncResolve
    <3> HIDE DEF r
    <3> QED BY <3>1, <3>2, <3>3, <3>4, Replace
  <2> QED BY <1>1, <2>1, <2>2 DEF SyncResolve
<1>2. CASE SyncEnsure(t)
  <2>1. UNCHANGED <<asked, fetched>> /\ task[t].pc = "ensure" BY <1>2 DEF SyncEnsure
  <2>2. Goto(t, "check") \/ (End(t) /\ ~BridgeLoads) BY <1>2, <1>b DEF SyncEnsure
  <2> QED BY <2>1, <2>2, GoesOn, Ends
<1>3. CASE SyncCheck(t)
  <2>1. /\ Goto(t, "fetch") \/ Goto(t, "generate")
        /\ UNCHANGED <<asked, fetched>> /\ task[t].pc = "check"
    BY <1>3 DEF SyncCheck
  <2> QED BY <2>1, GoesOn
<1>4. CASE SyncGenerate(t)
  <2>1. Goto(t, "fetch") /\ UNCHANGED <<asked, fetched>> /\ task[t].pc = "generate"
    BY <1>4 DEF SyncGenerate
  <2> QED BY <2>1, GoesOn
<1>5. CASE SyncFetch(t)
  <2>1. /\ Goto(t, "timer") /\ task[t].pc = "fetch"
        /\ asked' = asked \cup {task[t].ch} /\ fetched' = fetched \cup {task[t].ch}
    BY <1>5 DEF SyncFetch
  <2> QED BY <2>1, GoesOn
<1>6. CASE TimerFires(t)
  BY <1>6, Ends DEF TimerFires
<1>7. CASE JoinBegin(t)
  <2> DEFINE p == IF mode[task[t].ch] = "plain" THEN "jcheck" ELSE "derive"
             r == [task[t] EXCEPT !.m = mode[task[t].ch], !.pc = p]
  <2>1. task[t].ch \in Chans /\ UNCHANGED <<asked, fetched>> BY <1>7, <1>0 DEF JoinBegin, Placed
  <2>2. r \in TaskState /\ r.pc \in {"jcheck", "derive"} /\ r.ch = task[t].ch
    BY <2>1, <1>0 DEF TaskState
  <2>3. task' = [task EXCEPT ![t] = r] BY <1>7 DEF JoinBegin
  <2>4. Placed(r) /\ Committed(r) BY <2>1, <2>2 DEF Placed
  <2> HIDE DEF r
  <2> QED BY <2>1, <2>2, <2>3, <2>4, Replace
<1>8. CASE JoinDerive(t)
  <2>1. task[t].pc = "derive" /\ UNCHANGED <<asked, fetched>> BY <1>8 DEF JoinDerive
  <2>2. \/ Goto(t, "jcheck") \/ Persist(t, "derived", "jcheck")
        \/ End(t) /\ ~BridgeLoads
    BY <1>8, <1>b DEF JoinDerive
  <2> QED BY <2>1, <2>2, GoesOn, TurnsToFile, Ends
<1>9. CASE JoinCheck(t)
  <2>1. /\ Goto(t, "jfetch") \/ Goto(t, "originate")
        /\ UNCHANGED <<asked, fetched>> /\ task[t].pc = "jcheck"
    BY <1>9 DEF JoinCheck
  <2> QED BY <2>1, GoesOn
<1>10. CASE JoinOriginate(t)
  <2>1. task[t].pc = "originate" /\ UNCHANGED <<asked, fetched>> BY <1>10 DEF JoinOriginate
  <2>2. Goto(t, "jfetch") \/ Persist(t, "derived", "jfetch") BY <1>10 DEF JoinOriginate
  <2> QED BY <2>1, <2>2, GoesOn, TurnsToFile
<1>11. CASE JoinFetch(t)
  <2>1. /\ Goto(t, "timer") /\ task[t].pc = "jfetch"
        /\ asked' = asked \cup {task[t].ch} /\ fetched' = fetched
    BY <1>11 DEF JoinFetch
  <2> QED BY <2>1, GoesOn
<1>12. CASE ChangeBegin(t)
  <2>0. task[t].pc = "change" /\ UNCHANGED <<asked, fetched>> BY <1>12 DEF ChangeBegin
  <2>1. CASE End(t) BY <2>0, <2>1, Ends
  <2>2. CASE task' = [task EXCEPT ![t].pc = "needs", ![t].m = mode[task[t].ch]]
    <3> DEFINE r == [task[t] EXCEPT !.pc = "needs", !.m = mode[task[t].ch]]
    <3>0. task[t].ch \in Chans BY <2>0, <1>0 DEF Placed
    <3>1. r \in TaskState /\ r.pc = "needs" /\ r.ch = task[t].ch BY <3>0, <1>0 DEF TaskState
    <3>2. task' = [task EXCEPT ![t] = r] BY <2>2
    <3>3. Placed(r) BY <3>0, <3>1 DEF Placed
    <3> HIDE DEF r
    <3> QED BY <2>0, <3>1, <3>2, <3>3, Replace
  <2> QED BY <1>12, <2>1, <2>2 DEF ChangeBegin
<1>13. CASE ChangeNeeds(t)
  <2>1. /\ Goto(t, "should") \/ Goto(t, "store")
        /\ UNCHANGED <<asked, fetched>> /\ task[t].pc = "needs"
    BY <1>13 DEF ChangeNeeds
  <2> QED BY <2>1, GoesOn
<1>14. CASE ChangeStore(t)
  <2>1. Goto(t, "should") /\ UNCHANGED <<asked, fetched>> /\ task[t].pc = "store"
    BY <1>14 DEF ChangeStore
  <2> QED BY <2>1, GoesOn
<1>15. CASE ChangeShould(t)
  <2>1. UNCHANGED <<asked, fetched>> /\ task[t].pc = "should" BY <1>15 DEF ChangeShould
  <2>2. End(t) \/ Goto(t, "refetch") BY <1>15 DEF ChangeShould
  <2> QED BY <2>1, <2>2, GoesOn, Ends
<1>16. CASE ChangeFetch(t)
  <2>1. Placed(Idle) BY IdleTyped DEF Placed
  <2> QED BY <1>16, <2>1, IdleTyped, Replace DEF ChangeFetch, End
<1> QED
  BY <1>1, <1>2, <1>3, <1>4, <1>5, <1>6, <1>7, <1>8, <1>9, <1>10, <1>11, <1>12, <1>13, <1>14,
     <1>15, <1>16
  DEF Step

-----------------------------------------------------------------------------
\* The work on the file, and the messages of the handler.

RestTypes == /\ mode \in [Chans -> Modes] /\ current \in Chans /\ bridge \in BOOLEAN
             /\ fetched \subseteq Chans /\ lock \in {"free", "handler", "stuck"}
             /\ loading \subseteq Chans /\ events \in 0 .. MaxEvents /\ kills \in 0 .. MaxKills
             /\ asked \subseteq Chans /\ received \subseteq Chans /\ restored \subseteq Chans

\* The handler is at rest or at work on the file for one channel.
HandlerTypes == task[Handler].pc \in {"idle"} \cup FilePcs
                /\ (task[Handler].pc \in FilePcs => task[Handler].ch \in Chans)

\* The file and what is about to be written to it hold keys only.
LEMMA FileAdvances ==
    ASSUME TaskTypes, HandlerTypes, MemoryTypes, NEW u \in Users, File(u)
    PROVE  /\ file' \in [Chans -> KeySet] /\ TaskTypes' /\ HandlerTypes'
           /\ \A t \in Tasks : /\ Committed(task[t]) <=> Committed(task'[t])
                               /\ task'[t].ch = task[t].ch
<1> USE DEF At, FilePcs
<1>1. task[u] \in TaskState /\ Handler \in Users /\ (u # Handler => u \in Tasks)
  BY DEF TaskTypes, Users
<1>2. task[u].pc \in FilePcs BY DEF File, FileRead, FileTruncate, FileWrite
<1>3. task[u].ch \in Chans BY <1>1, <1>2 DEF TaskTypes, HandlerTypes, Placed
<1>4. NoKeys \in [Chans -> KeySet] BY DEF NoKeys, KeySet
<1>5. file' \in [Chans -> KeySet]
  BY <1>1, <1>4 DEF File, FileRead, FileTruncate, FileWrite, TaskState, MemoryTypes
<1>6. \E r \in TaskState : /\ task' = [task EXCEPT ![u] = r]
                           /\ r.ch = task[u].ch \/ u = Handler
                           /\ u # Handler => Placed(r) /\ Committed(r)
                           /\ u = Handler => /\ r.pc \in {"idle"} \cup FilePcs
                                             /\ r.pc \in FilePcs => r.ch \in Chans
  <2>1. CASE FileDone(u) /\ u = Handler
    BY <2>1, IdleTyped DEF FileDone
  <2>2. CASE FileDone(u) /\ u # Handler
    <3> DEFINE r == [task[u] EXCEPT !.pc = task[u].next, !.next = "idle",
                                    !.put = "none", !.snap = NoKeys]
    <3>1. task' = [task EXCEPT ![u] = r] BY <2>2 DEF FileDone
    <3>2. task[u].next \in {"jcheck", "jfetch"} BY <2>2, <1>1, <1>2 DEF TaskTypes, Placed
    <3>3. r \in TaskState /\ r.pc = task[u].next /\ r.ch = task[u].ch
      BY <1>1, <1>4, <3>2 DEF TaskState, Pcs, KeySet
    <3>4. Placed(r) /\ Committed(r) BY <3>2, <3>3, <1>3 DEF Placed, Committed, AskPcs
    <3> HIDE DEF r
    <3> QED BY <2>2, <3>1, <3>3, <3>4
  <2>3. CASE task' = [task EXCEPT ![u].pc = "truncate",
                                  ![u].snap = [file EXCEPT ![task[u].ch] = task[u].put]]
    <3> DEFINE f == [file EXCEPT ![task[u].ch] = task[u].put]
               r == [task[u] EXCEPT !.pc = "truncate", !.snap = f]
    <3>1. task' = [task EXCEPT ![u] = r] BY <2>3
    <3>2. f \in [Chans -> KeySet] BY <1>1 DEF MemoryTypes, TaskState
    <3> HIDE DEF f
    <3>3. r \in TaskState /\ r.pc = "truncate" /\ r.ch = task[u].ch /\ r.next = task[u].next
      BY <1>1, <3>2 DEF TaskState, Pcs
    <3>4. u # Handler => Placed(r) /\ Committed(r)
      BY <1>1, <1>2, <1>3, <3>3 DEF Placed, Committed, TaskTypes
    <3> HIDE DEF r
    <3> QED BY <1>3, <3>1, <3>3, <3>4
  <2>4. CASE Goto(u, "write")
    <3> DEFINE r == [task[u] EXCEPT !.pc = "write"]
    <3>1. task' = [task EXCEPT ![u] = r] BY <2>4 DEF Goto
    <3>3. r \in TaskState /\ r.pc = "write" /\ r.ch = task[u].ch /\ r.next = task[u].next
      BY <1>1 DEF TaskState, Pcs
    <3>4. u # Handler => Placed(r) /\ Committed(r)
      BY <1>1, <1>2, <1>3, <3>3 DEF Placed, Committed, TaskTypes
    <3> HIDE DEF r
    <3> QED BY <1>3, <3>1, <3>3, <3>4
  <2> QED BY <2>1, <2>2, <2>3, <2>4 DEF File, FileRead, FileTruncate, FileWrite
<1>7. PICK r \in TaskState : /\ task' = [task EXCEPT ![u] = r]
                             /\ r.ch = task[u].ch \/ u = Handler
                             /\ u # Handler => Placed(r) /\ Committed(r)
                             /\ u = Handler => /\ r.pc \in {"idle"} \cup FilePcs
                                               /\ r.pc \in FilePcs => r.ch \in Chans
  BY <1>6
<1>8. task'[u] = r /\ \A v \in Users : v # u => task'[v] = task[v] BY <1>7 DEF TaskTypes
<1>9. task' \in [Users -> TaskState] BY <1>7 DEF TaskTypes
<1>10. \A t \in Tasks : t \in Users /\ t # Handler BY HandlerIsNoTask DEF Users
<1>11. \A t \in Tasks : Placed(task'[t]) BY <1>7, <1>8, <1>10 DEF TaskTypes
<1>12. Committed(task[u]) BY <1>2 DEF Committed
<1>13. \A t \in Tasks : /\ Committed(task[t]) <=> Committed(task'[t])
                        /\ task'[t].ch = task[t].ch
  BY <1>7, <1>8, <1>10, <1>12
<1>14. HandlerTypes' BY <1>1, <1>7, <1>8 DEF HandlerTypes
<1> QED BY <1>5, <1>9, <1>11, <1>13, <1>14 DEF TaskTypes

\* A spawned task takes the place of an idle one.
LEMMA Spawned ==
    ASSUME TaskTypes, NEW p \in {"join", "change"}, NEW c \in Chans, Spawn(p, c)
    PROVE  /\ TaskTypes' /\ task'[Handler] = task[Handler]
           /\ \A t \in Tasks : Committed(task[t]) => task'[t] = task[t]
           /\ p = "join" => \E t \in Tasks : task'[t].ch = c /\ Committed(task'[t])
<1>1. PICK t \in Tasks : At(t, "idle") /\ task' = [task EXCEPT ![t].pc = p, ![t].ch = c]
  BY DEF Spawn
<1> DEFINE r == [task[t] EXCEPT !.pc = p, !.ch = c]
<1>2. task' = [task EXCEPT ![t] = r] BY <1>1
<1>3. t \in Users /\ task[t] \in TaskState /\ Handler \in Users /\ t # Handler
  BY HandlerIsNoTask DEF Users, TaskTypes
<1>4. r \in TaskState /\ r.pc = p /\ r.ch = c BY <1>3 DEF TaskState, Pcs
<1>5. Placed(r) /\ ~Committed(task[t]) /\ (p = "join" => Committed(r))
  BY <1>1, <1>4 DEF Placed, FilePcs, At, Committed, AskPcs
<1> HIDE DEF r
<1>6. task'[t] = r /\ \A v \in Users : v # t => task'[v] = task[v] BY <1>2, <1>3 DEF TaskTypes
<1>7. task' \in [Users -> TaskState] BY <1>2, <1>4 DEF TaskTypes
<1> QED BY <1>3, <1>4, <1>5, <1>6, <1>7 DEF TaskTypes, Users

\* The handler turns to the file, and leaves the tasks alone.
LEMMA HandlerTurnsToFile ==
    ASSUME TaskTypes, NEW c \in Chans, NEW k \in KeySet, HandlerFile(c, k)
    PROVE  TaskTypes' /\ HandlerTypes' /\ \A t \in Tasks : task'[t] = task[t]
<1> DEFINE r == [Idle EXCEPT !.pc = "read", !.ch = c, !.put = k]
<1>1. r \in TaskState BY IdleTyped
<1>2. r.pc = "read" /\ r.ch = c BY DEF Idle
<1>3. task' = [task EXCEPT ![Handler] = r] BY DEF HandlerFile
<1> HIDE DEF r
<1>4. Handler \in Users /\ \A t \in Tasks : t \in Users /\ t # Handler BY HandlerIsNoTask DEF Users
<1>5. task'[Handler] = r /\ \A t \in Tasks : task'[t] = task[t] BY <1>3, <1>4 DEF TaskTypes
<1>6. task' \in [Users -> TaskState] BY <1>1, <1>3 DEF TaskTypes
<1> QED BY <1>2, <1>5, <1>6 DEF TaskTypes, HandlerTypes, FilePcs

-----------------------------------------------------------------------------
\* The invariant.

\* Every mark has been asked for, or a task that is bound to ask is under
\* way for it.
FetchInv == BridgeLoads =>
    \A c \in fetched : c \in asked \/ \E t \in Tasks : task[t].ch = c /\ Committed(task[t])

KeysInv == /\ MemoryTypes /\ RestTypes /\ TaskTypes /\ HandlerTypes
           /\ PeerKeyFresh /\ FetchInv

\* The tasks after a start: one that announces our keys, and the rest idle.
LEMMA StartedTyped ==
    ASSUME NEW keys, task' = Started(keys).task
    PROVE  TaskTypes' /\ HandlerTypes'
<1> DEFINE s == CHOOSE t \in Tasks : TRUE
<1>1. s \in Tasks BY ArchiveAssumption
<1>2. task' = [u \in Users |-> IF u = s THEN [Idle EXCEPT !.pc = "sync"] ELSE Idle] BY DEF Started
<1> HIDE DEF s
<1>3. Placed(Idle) /\ Placed([Idle EXCEPT !.pc = "sync"])
  <2> DEFINE r == [Idle EXCEPT !.pc = "sync"]
  <2>1. r.pc = "sync" /\ Idle.pc = "idle" BY IdleTyped
  <2> HIDE DEF r
  <2> QED BY <2>1 DEF Placed, FilePcs
<1>4. Handler \in Users /\ Handler # s BY <1>1, HandlerIsNoTask DEF Users
<1> HIDE DEF Started
<1>5. task'[Handler] = Idle BY <1>2, <1>4
<1>6. task' \in [Users -> TaskState] BY <1>2, IdleTyped
<1>7. \A t \in Tasks : Placed(task'[t]) BY <1>2, <1>3 DEF Users
<1> QED BY <1>5, <1>6, <1>7, IdleTyped DEF TaskTypes, HandlerTypes, FilePcs

\* The first state.
LEMMA KeysStart == Init => KeysInv
<1> SUFFICES ASSUME Init PROVE KeysInv OBVIOUS
<1>1. NoKeys \in [Chans -> KeySet] BY DEF NoKeys, KeySet
<1>2. key = NoKeys BY DEF Init, Started
<1>3. MemoryTypes BY <1>1, <1>2 DEF MemoryTypes, Init
<1>4. RestTypes
  <2>1. events \in 0 .. MaxEvents /\ kills \in 0 .. MaxKills BY ArchiveAssumption DEF Init
  <2>2. bridge \in BOOLEAN BY DEF Init
  <2> QED BY <2>1, <2>2 DEF RestTypes, Init
<1>5. PeerKeyFresh BY <1>2 DEF PeerKeyFresh, NoKeys
<1>6. FetchInv BY DEF FetchInv, Init
<1> DEFINE s == CHOOSE t \in Tasks : TRUE
<1>7. s \in Tasks /\ s # Handler BY ArchiveAssumption
<1>8. task = [u \in Users |-> IF u = s THEN [Idle EXCEPT !.pc = "sync"] ELSE Idle]
  BY DEF Started, Init
<1> HIDE DEF s
<1>9. Placed(Idle) /\ Placed([Idle EXCEPT !.pc = "sync"])
  <2> DEFINE r == [Idle EXCEPT !.pc = "sync"]
  <2>1. r.pc = "sync" /\ Idle.pc = "idle" BY IdleTyped
  <2> HIDE DEF r
  <2> QED BY <2>1 DEF Placed, FilePcs
<1>10. TaskTypes BY <1>8, <1>9, IdleTyped DEF TaskTypes, Users
<1>11. HandlerTypes BY <1>7, <1>8, IdleTyped DEF HandlerTypes, Users, FilePcs
<1> QED BY <1>3, <1>4, <1>5, <1>6, <1>10, <1>11 DEF KeysInv

\* The types that a step of a task keeps.
LEMMA StepRest ==
    ASSUME RestTypes, MemoryTypes, TaskTypes, NEW t \in Tasks, Step(t)
    PROVE  RestTypes'
<1> USE DEF At, memory, ghosts, counts, RestTypes
<1>1. task[t].pc \notin {"idle", "sync"} => task[t].ch \in Chans BY DEF TaskTypes, Placed
<1>2. BridgeAfter \in BOOLEAN BY ArchiveAssumption DEF BridgeAfter
<1>3. CASE SyncResolve(t) BY <1>3 DEF SyncResolve
<1>4. CASE SyncEnsure(t) BY <1>4, <1>2 DEF SyncEnsure
<1>5. CASE SyncGenerate(t) BY <1>5, <1>2 DEF SyncGenerate
<1>6. CASE SyncFetch(t) \/ JoinFetch(t) \/ ChangeFetch(t)
  BY <1>1, <1>6 DEF SyncFetch, JoinFetch, ChangeFetch
<1>7. CASE JoinBegin(t) BY <1>1, <1>7 DEF JoinBegin
<1>8. CASE JoinDerive(t) BY <1>8, <1>2 DEF JoinDerive
<1>9. CASE JoinOriginate(t) BY <1>9, <1>2 DEF JoinOriginate
<1>10. CASE SyncCheck(t) \/ TimerFires(t) \/ JoinCheck(t) \/ ChangeBegin(t) \/ ChangeNeeds(t)
            \/ ChangeStore(t) \/ ChangeShould(t)
  BY <1>10 DEF SyncCheck, TimerFires, JoinCheck, ChangeBegin, ChangeNeeds, ChangeStore, ChangeShould
<1> QED BY <1>3, <1>4, <1>5, <1>6, <1>7, <1>8, <1>9, <1>10 DEF Step

\* Every step of a task keeps the invariant.
LEMMA StepKeeps ==
    ASSUME KeysInv, NEW t \in Tasks, Step(t)
    PROVE  KeysInv'
<1> USE DEF KeysInv
<1>1. RestTypes' BY StepRest
<1>2. Advances(t) BY StepAdvances DEF RestTypes
<1>3. TaskTypes' BY <1>2 DEF Advances
<1>4. HandlerTypes'
  <2>1. task'[Handler] = task[Handler] BY <1>2, HandlerIsNoTask DEF Advances, Users
  <2> QED BY <2>1 DEF HandlerTypes
<1>5. /\ UNCHANGED <<file, received, restored>>
      /\ key' = key \/ \E c : key' = [key EXCEPT ![c] = "derived"]
  BY StepsDerive
<1>6. MemoryTypes' BY <1>5 DEF MemoryTypes, KeySet
<1>7. PeerKeyFresh' BY <1>5 DEF PeerKeyFresh, MemoryTypes
<1>8. FetchInv'
  <2> SUFFICES ASSUME BridgeLoads, NEW c \in fetched', c \notin asked'
               PROVE  \E v \in Tasks : task'[v].ch = c /\ Committed(task'[v])
    BY DEF FetchInv
  <2>1. c \in fetched /\ c \notin asked BY <1>2 DEF Advances
  <2>2. PICK v \in Tasks : task[v].ch = c /\ Committed(task[v]) BY <2>1 DEF FetchInv
  <2>3. v \in Users BY DEF Users
  <2>4. task'[v].ch = c /\ Committed(task'[v]) BY <1>2, <2>2, <2>3 DEF Advances
  <2> QED BY <2>4
<1> QED BY <1>1, <1>3, <1>4, <1>6, <1>7, <1>8

\* So does the work on the file.
LEMMA FileKeeps ==
    ASSUME KeysInv, NEW u \in Users, File(u)
    PROVE  KeysInv'
<1> USE DEF KeysInv
<1>1. /\ UNCHANGED <<mode, current, key, bridge, fetched, loading, events, kills,
                     asked, received, restored>>
  BY FileKeepsMemory
<1>2. /\ file' \in [Chans -> KeySet] /\ TaskTypes' /\ HandlerTypes'
      /\ \A t \in Tasks : /\ Committed(task[t]) <=> Committed(task'[t])
                          /\ task'[t].ch = task[t].ch
  BY FileAdvances
<1>3. lock' \in {"free", "handler", "stuck"}
  BY DEF RestTypes, File, FileRead, FileTruncate, FileWrite, FileDone
<1>4. RestTypes' BY <1>1, <1>3 DEF RestTypes
<1>5. MemoryTypes' BY <1>1, <1>2 DEF MemoryTypes
<1>6. PeerKeyFresh' BY <1>1 DEF PeerKeyFresh
<1>7. FetchInv' BY <1>1, <1>2 DEF FetchInv
<1> QED BY <1>2, <1>4, <1>5, <1>6, <1>7

\* A message that leaves the tasks alone, or spawns one for a new mark.
LEMMA MarksKept ==
    ASSUME FetchInv, NEW c, fetched' \subseteq fetched \cup {c},
           \A d \in asked : d \in asked' \/ d \notin fetched',
           \A t \in Tasks : Committed(task[t]) => task'[t] = task[t],
           c \notin fetched /\ c \in fetched' =>
             \E t \in Tasks : task'[t].ch = c /\ Committed(task'[t])
    PROVE  FetchInv'
<1> SUFFICES ASSUME BridgeLoads, NEW d \in fetched', d \notin asked'
             PROVE  \E t \in Tasks : task'[t].ch = d /\ Committed(task'[t])
  BY DEF FetchInv
<1>1. CASE d \in fetched
  <2>1. d \notin asked OBVIOUS
  <2>2. PICK t \in Tasks : task[t].ch = d /\ Committed(task[t]) BY <1>1, <2>1 DEF FetchInv
  <2> QED BY <2>2
<1>2. CASE d \notin fetched BY <1>2
<1> QED BY <1>1, <1>2

\* The messages of the server keep the invariant.
LEMMA MessageKeeps ==
    ASSUME KeysInv, NEW c \in Chans,
           \/ OwnMove(c) \/ ChannelRemove(c) \/ ChallengeFailed(c)
           \/ \E m \in Modes : ModeChange(c, m)
           \/ \E p \in BOOLEAN : KeyExchange(c, p)
    PROVE  KeysInv'
<1> USE DEF KeysInv, memory, ghosts
<1>e. events' \in 0 .. MaxEvents /\ kills' \in 0 .. MaxKills
  BY ArchiveAssumption DEF OwnMove, ChannelRemove, ChallengeFailed, ModeChange, KeyExchange,
                           Message, RestTypes
<1>1. CASE OwnMove(c)
  <2>1. PeerKeyFresh' /\ MemoryTypes' BY <1>1 DEF OwnMove, PeerKeyFresh, MemoryTypes
  <2>2. RestTypes' BY <1>1, <1>e DEF OwnMove, RestTypes
  <2>3. CASE UNCHANGED <<fetched, task>>
    BY <1>1, <2>1, <2>2, <2>3 DEF OwnMove, TaskTypes, HandlerTypes, FetchInv
  <2>4. CASE fetched' = fetched \cup {c} /\ Spawn("join", c)
    <3>1. /\ TaskTypes' /\ task'[Handler] = task[Handler]
          /\ \A t \in Tasks : Committed(task[t]) => task'[t] = task[t]
          /\ \E t \in Tasks : task'[t].ch = c /\ Committed(task'[t])
      BY <2>4, Spawned
    <3>2. HandlerTypes' BY <3>1 DEF HandlerTypes
    <3>3. UNCHANGED asked BY <1>1 DEF OwnMove
    <3>4. FetchInv' BY <2>4, <3>1, <3>3, MarksKept
    <3> QED BY <2>1, <2>2, <3>1, <3>2, <3>4
  <2> QED BY <1>1, <2>3, <2>4 DEF OwnMove
<1>2. CASE ChannelRemove(c)
  <2>1. PeerKeyFresh' /\ MemoryTypes'
    BY <1>2 DEF ChannelRemove, PeerKeyFresh, MemoryTypes, KeySet
  <2>2. RestTypes' BY <1>2, <1>e DEF ChannelRemove, RestTypes, Modes
  <2>3. TaskTypes' /\ HandlerTypes' /\ \A t \in Tasks : task'[t] = task[t]
    BY <1>2, HandlerTurnsToFile DEF ChannelRemove, KeySet
  <2>4. fetched' = fetched \ {c} /\ asked' = asked \ {c} BY <1>2 DEF ChannelRemove
  <2>5. FetchInv' BY <2>3, <2>4, MarksKept
  <2> QED BY <2>1, <2>2, <2>3, <2>5
<1>3. CASE ChallengeFailed(c)
  <2>1. PeerKeyFresh' /\ MemoryTypes'
    BY <1>3 DEF ChallengeFailed, PeerKeyFresh, MemoryTypes, KeySet
  <2>2. RestTypes' BY <1>3, <1>e DEF ChallengeFailed, RestTypes
  <2>3. TaskTypes' /\ HandlerTypes' /\ \A t \in Tasks : task'[t] = task[t]
    BY <1>3, HandlerTurnsToFile DEF ChallengeFailed, KeySet
  <2>4. UNCHANGED <<fetched, asked>> BY <1>3 DEF ChallengeFailed
  <2>5. FetchInv' BY <2>3, <2>4, MarksKept
  <2> QED BY <2>1, <2>2, <2>3, <2>5
<1>4. ASSUME NEW m \in Modes, ModeChange(c, m) PROVE KeysInv'
  <2>1. PeerKeyFresh' /\ MemoryTypes' BY <1>4 DEF ModeChange, PeerKeyFresh, MemoryTypes
  <2>2. RestTypes' BY <1>4, <1>e DEF ModeChange, RestTypes
  <2>0. UNCHANGED <<fetched, asked>> BY <1>4 DEF ModeChange
  <2>3. CASE UNCHANGED task
    BY <2>0, <2>1, <2>2, <2>3 DEF TaskTypes, HandlerTypes, FetchInv
  <2>4. CASE Spawn("change", c)
    <3>1. /\ TaskTypes' /\ task'[Handler] = task[Handler]
          /\ \A t \in Tasks : Committed(task[t]) => task'[t] = task[t]
      BY <2>4, Spawned
    <3>2. HandlerTypes' BY <3>1 DEF HandlerTypes
    <3>3. FetchInv' BY <2>0, <3>1, MarksKept
    <3> QED BY <2>1, <2>2, <3>1, <3>2, <3>3
  <2> QED BY <1>4, <2>3, <2>4 DEF ModeChange
<1>5. ASSUME NEW p \in BOOLEAN, KeyExchange(c, p) PROVE KeysInv'
  <2>1. PeerKeyFresh' /\ MemoryTypes'
    BY <1>5 DEF KeyExchange, PeerKeyFresh, MemoryTypes, KeySet
  <2>2. RestTypes' BY <1>5, <1>e DEF KeyExchange, RestTypes
  <2>3. TaskTypes' /\ HandlerTypes' /\ \A t \in Tasks : task'[t] = task[t]
    BY <1>5, HandlerTurnsToFile DEF KeyExchange, KeySet
  <2>4. fetched' \subseteq fetched /\ asked \subseteq asked' BY <1>5 DEF KeyExchange
  <2>5. FetchInv' BY <2>3, <2>4, MarksKept
  <2> QED BY <2>1, <2>2, <2>3, <2>5
<1> QED BY <1>1, <1>2, <1>3, <1>4, <1>5

\* A restart brings back the keys of the file, all of them counted.
LEMMA KillKeeps ==
    ASSUME KeysInv, Kill
    PROVE  KeysInv'
<1> USE DEF KeysInv
<1>1. key' = file /\ file' = file /\ restored' = {c \in Chans : file[c] # "none"}
  BY DEF Kill, Started
<1>2. MemoryTypes' /\ PeerKeyFresh' BY <1>1 DEF MemoryTypes, PeerKeyFresh
<1>3. RestTypes'
  <2>1. events' \in 0 .. MaxEvents /\ kills' \in 0 .. MaxKills
    BY ArchiveAssumption DEF Kill, RestTypes
  <2>2. bridge' \in BOOLEAN BY DEF Kill
  <2> QED BY <2>1, <2>2, <1>1 DEF RestTypes, Kill
<1>4. TaskTypes' /\ HandlerTypes' BY StartedTyped DEF Kill
<1>5. FetchInv' BY DEF FetchInv, Kill
<1> QED BY <1>2, <1>3, <1>4, <1>5

\* The invariant holds throughout.
LEMMA KeysInvariant == Spec => []KeysInv
<1>1. KeysInv /\ [Next]_vars => KeysInv'
  <2> SUFFICES ASSUME KeysInv, [Next]_vars PROVE KeysInv' OBVIOUS
  <2>1. CASE UNCHANGED vars
    BY <2>1 DEF vars, memory, counts, ghosts, KeysInv, MemoryTypes, RestTypes, TaskTypes,
                HandlerTypes, PeerKeyFresh, FetchInv
  <2>2. CASE Next BY <2>2, StepKeeps, FileKeeps, MessageKeeps, KillKeeps DEF Next
  <2> QED BY <2>1, <2>2
<1> QED BY <1>1, KeysStart, PTL DEF Spec

\* Every variable keeps its type, whether or not the bridge loads.
THEOREM TypeCorrect == Spec => []TypeOK
<1>1. KeysInv => TypeOK
  <2> SUFFICES ASSUME KeysInv PROVE TypeOK OBVIOUS
  <2>1. task \in [Users -> TaskState] BY DEF KeysInv, TaskTypes
  <2> QED BY <2>1 DEF KeysInv, MemoryTypes, RestTypes, TypeOK
<1> QED BY <1>1, KeysInvariant, PTL

\* A key of a peer in memory was accepted or restored since the channel was
\* last removed or its key last revoked (ChannelRemove and the failed
\* challenge in persistent chat), whatever tasks derive and persist keys
\* meanwhile and wherever the app is killed while it writes the file.
THEOREM PeerKeyFreshCorrect == Spec => []PeerKeyFresh
<1>1. KeysInv => PeerKeyFresh BY DEF KeysInv
<1> QED BY <1>1, KeysInvariant, PTL

\* Where the Signal bridge loads, a channel in fetched_channels has been asked
\* for or a task that will ask is under way.  (Where it does not, a join of a
\* signal channel gives up and leaves the mark behind.)
THEOREM FetchAskedCorrect == BridgeLoads /\ Spec => []FetchAsked
<1>1. BridgeLoads /\ KeysInv => FetchAsked BY DEF KeysInv, FetchInv, FetchAsked
<1>2. ASSUME BridgeLoads PROVE Spec => []FetchAsked
  <2>1. KeysInv => FetchAsked BY <1>1, <1>2
  <2> QED BY <2>1, KeysInvariant, PTL
<1> QED BY <1>2
=============================================================================
