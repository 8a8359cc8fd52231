------------------------------- MODULE Voice -------------------------------
(***************************************************************************)
(* The voice pipeline commands of the application (state/audio.rs,         *)
(* state/audio_tasks.rs, the voice migration of state/mod.rs, and the      *)
(* audio part of connecting and disconnecting).                            *)
(*                                                                         *)
(* Every command takes the lock of the session that `inner' points at      *)
(* several times, and asks `inner' again each time; a step of the model is *)
(* one of these lock sections.  `inner' itself is moved by connect,        *)
(* set_active_server and disconnect_server.  A background task (capture    *)
(* loop, microphone test, latency pings) is stopped only through the       *)
(* JoinHandle a session stores: dropping a handle does not stop its task.  *)
(* Audio devices may refuse to open; a lost connection and a kick come     *)
(* from the event loop at any moment.                                      *)
(***************************************************************************)
EXTENDS Naturals, FiniteSets

CONSTANTS Servers,      \* the servers the user may connect to
          Workers,      \* commands of the user that may be under way together
          MaxTasks,     \* bound: background tasks ever spawned
          MaxOrders,    \* bound: commands given
          MaxRefusals   \* bound: audio devices that refuse to open

ASSUME VoiceAssumption == {MaxTasks, MaxOrders, MaxRefusals} \subseteq Nat

VARIABLES
    inner,      \* AppState::inner: the session commands act on
    voice,      \* AudioPipelineState::voice_state
    out,        \* AudioPipelineState::outbound_task_handle, 0 is None
    play,       \* AudioPipelineState::mixing_playback and mixer are there
    test,       \* mic_test_handle and latency_test_handle, 0 is None
    link,       \* ConnectionState::client_handle, or unregistered
    task,       \* the background tasks
    order,      \* the command each worker is running
    orders, refusals,   \* what is left of the bounds
    muddled     \* two commands overlapped, or a call was left behind

voiceVars == <<inner, voice, out, play, test, link, task, order, orders,
               refusals, muddled>>

Default == "default"                \* AppState::default_inner
AppSessions == Servers \cup {Default}
Kinds == {"mic", "ping"}
Tasks == 1..MaxTasks
Idle == [at |-> "idle"]

Steps == {"mute stop", "mute set", "enable read", "enable play", "out open",
          "set active", "muted read", "muted play", "off stop", "off set",
          "re stop", "re read", "in stop", "in play", "move stop", "move set",
          "move swap", "part take", "part done", "test open"}

VoiceTypeOK ==
    /\ inner \in AppSessions
    /\ voice \in [AppSessions -> {"Inactive", "Active", "Muted"}]
    /\ out \in [AppSessions -> 0..MaxTasks]
    /\ play \in [AppSessions -> BOOLEAN]
    /\ test \in [AppSessions -> [Kinds -> 0..MaxTasks]]
    /\ link \in [AppSessions -> {"none", "down", "up"}]
    /\ task \in [Tasks -> [kind : Kinds \cup {"free", "dead", "call"}, to : Servers \cup {""}]]
    /\ \A w \in Workers : order[w].at \in Steps \cup {"idle"}
    /\ orders \in 0..MaxOrders /\ refusals \in 0..MaxRefusals
    /\ muddled \in BOOLEAN

VoiceInit ==
    /\ inner = Default
    /\ voice = [s \in AppSessions |-> "Inactive"]
    /\ out = [s \in AppSessions |-> 0]
    /\ play = [s \in AppSessions |-> FALSE]
    /\ test = [s \in AppSessions |-> [k \in Kinds |-> 0]]
    /\ link = [s \in AppSessions |-> "none"]
    /\ task = [t \in Tasks |-> [kind |-> "free", to |-> ""]]
    /\ order = [w \in Workers |-> Idle]
    /\ orders = MaxOrders /\ refusals = MaxRefusals
    /\ muddled = FALSE

----------------------------------------------------------------------------
\* Background tasks.

Running == {t \in Tasks : task[t].kind \notin {"free", "dead"}}

\* JoinHandle::abort on the given handles (a handle of a finished task is inert).
Abort(handles) ==
    task' = [t \in Tasks |-> IF t \in handles \cap Running
                             THEN [kind |-> "dead", to |-> ""] ELSE task[t]]

\* tokio::spawn: the task starts running whether or not its handle is kept.
Spawned(t, kind, to) ==
    /\ t = 1 + Cardinality({u \in Tasks : task[u].kind # "free"})
    /\ t \in Tasks
    /\ task' = [task EXCEPT ![t] = [kind |-> kind, to |-> to]]

----------------------------------------------------------------------------
\* Commands and their steps.

Busy == {w \in Workers : order[w] # Idle}

Begin(w, o) ==
    /\ order[w] = Idle
    /\ orders > 0
    /\ orders' = orders - 1
    /\ order' = [order EXCEPT ![w] = o]
    /\ muddled' = (muddled \/ Busy # {})

At(w, step) == order[w].at = step
Goto(w, o) == order' = [order EXCEPT ![w] = o]
Done(w) == Goto(w, Idle)

\* A device that cannot be opened ends the command with an error; what the
\* command did before stays.
Refused(w) ==
    /\ refusals > 0
    /\ refusals' = refusals - 1
    /\ Done(w)
    /\ UNCHANGED <<inner, voice, out, play, test, link, task, orders, muddled>>

Reading == UNCHANGED <<inner, voice, out, play, test, link, task, refusals>>
Within == UNCHANGED <<orders, refusals, muddled>>

\* The client handle a command read, "" for None.
Peer(s) == IF link[s] = "up" THEN s ELSE ""

\* stop_audio_on: outbound, both tests and the playback of one session.
StopAudioOn(s) ==
    /\ Abort({out[s], test[s]["mic"], test[s]["ping"]})
    /\ out' = [out EXCEPT ![s] = 0]
    /\ test' = [test EXCEPT ![s] = [k \in Kinds |-> 0]]
    /\ play' = [play EXCEPT ![s] = FALSE]

\* stop_outbound: only the capture.
StopOutbound(s) ==
    /\ Abort({out[s]})
    /\ out' = [out EXCEPT ![s] = 0]

SetVoice(s, v) == voice' = [voice EXCEPT ![s] = v]

\* toggle_mute reads the voice state and then acts on what it read.
ToggleMute(w) ==
    /\ Begin(w, IF voice[inner] = "Active" THEN [at |-> "mute stop"]
                ELSE IF voice[inner] = "Muted"
                THEN [at |-> "out open", peer |-> Peer(inner), next |-> "set active"]
                ELSE [at |-> "enable read"])
    /\ Reading

MuteStop(w) ==
    /\ At(w, "mute stop")
    /\ StopOutbound(inner)
    /\ Goto(w, [at |-> "mute set"])
    /\ Within /\ UNCHANGED <<inner, voice, play, test, link>>

MuteSet(w) ==
    /\ At(w, "mute set")
    /\ SetVoice(inner, "Muted")
    /\ Done(w)
    /\ Within /\ UNCHANGED <<inner, out, play, test, link, task>>

\* enable_voice; the interface offers it only while the user is not in a call.
EnableVoice(w) ==
    /\ voice[inner] = "Inactive"
    /\ Begin(w, [at |-> "enable read"])
    /\ Reading

EnableRead(w) ==
    /\ At(w, "enable read")
    /\ Goto(w, [at |-> "enable play", peer |-> Peer(inner)])
    /\ Reading /\ UNCHANGED <<orders, muddled>>

\* The new playback replaces, and thereby drops, the one stored before.
EnablePlay(w) ==
    /\ At(w, "enable play")
    /\ \/ Refused(w)
       \/ /\ play' = [play EXCEPT ![inner] = TRUE]
          /\ Goto(w, [at |-> "out open", peer |-> order[w].peer, next |-> "set active"])
          /\ Within /\ UNCHANGED <<inner, voice, out, test, link, task>>

\* start_outbound_pipeline: the loop is spawned for the client handle read
\* earlier, and its handle stored in the session that is current by now.
OutOpen(w) ==
    /\ At(w, "out open")
    /\ \/ Refused(w)
       \/ /\ IF order[w].peer = ""
               THEN /\ out' = [out EXCEPT ![inner] = 0]
                    /\ UNCHANGED task
               ELSE \E t \in Tasks :
                       /\ Spawned(t, "call", order[w].peer)
                       /\ out' = [out EXCEPT ![inner] = t]
          /\ Goto(w, [at |-> order[w].next])
          /\ Within /\ UNCHANGED <<inner, voice, play, test, link>>

SetActive(w) ==
    /\ At(w, "set active")
    /\ SetVoice(inner, "Active")
    /\ Done(w)
    /\ Within /\ UNCHANGED <<inner, out, play, test, link, task>>

\* toggle_deafen: leave the call, or enter it muted.
ToggleDeafen(w) ==
    /\ Begin(w, IF voice[inner] = "Inactive" THEN [at |-> "muted read"]
                                             ELSE [at |-> "off stop"])
    /\ Reading

\* disable_voice
DisableVoice(w) ==
    /\ Begin(w, [at |-> "off stop"])
    /\ Reading

OffStop(w) ==
    /\ At(w, "off stop")
    /\ StopAudioOn(inner)
    /\ Goto(w, [at |-> "off set"])
    /\ Within /\ UNCHANGED <<inner, voice, link>>

OffSet(w) ==
    /\ At(w, "off set")
    /\ SetVoice(inner, "Inactive")
    /\ Done(w)
    /\ Within /\ UNCHANGED <<inner, out, play, test, link, task>>

\* enable_voice_muted
MutedRead(w) ==
    /\ At(w, "muted read")
    /\ Goto(w, [at |-> "muted play"])
    /\ Reading /\ UNCHANGED <<orders, muddled>>

MutedPlay(w) ==
    /\ At(w, "muted play")
    /\ \/ Refused(w)
       \/ /\ SetVoice(inner, "Muted")
          /\ play' = [play EXCEPT ![inner] = TRUE]
          /\ Done(w)
          /\ Within /\ UNCHANGED <<inner, out, test, link, task>>

\* set_audio_settings: whether to restart is decided on the voice state read
\* first; the capture is restarted before the playback.
SetAudioSettings(w) ==
    /\ voice[inner] = "Active"
    /\ \E restart \in {"re stop", "in stop"} : Begin(w, [at |-> restart])
    /\ Reading

RestartStop(w) ==
    /\ At(w, "re stop")
    /\ StopOutbound(inner)
    /\ Goto(w, [at |-> "re read"])
    /\ Within /\ UNCHANGED <<inner, voice, play, test, link>>

RestartRead(w) ==
    /\ At(w, "re read")
    /\ \E next \in {"idle", "in stop"} :
          Goto(w, [at |-> "out open", peer |-> Peer(inner), next |-> next])
    /\ Reading /\ UNCHANGED <<orders, muddled>>

InboundStop(w) ==
    /\ At(w, "in stop")
    /\ play' = [play EXCEPT ![inner] = FALSE]
    /\ Goto(w, [at |-> "in play"])
    /\ Within /\ UNCHANGED <<inner, voice, out, test, link, task>>

InboundPlay(w) ==
    /\ At(w, "in play")
    /\ \/ Refused(w)
       \/ /\ play' = [play EXCEPT ![inner] = TRUE]
          /\ Done(w)
          /\ Within /\ UNCHANGED <<inner, voice, out, test, link, task>>

\* start_mic_test and start_latency_test stop a running test first; stop_* only stop.
Test(w, k) ==
    /\ \E then \in {"idle", "test open"} :
          Begin(w, IF then = "idle" THEN Idle
                   ELSE [at |-> "test open", kind |-> k])
    /\ Abort({test[inner][k]})
    /\ test' = [test EXCEPT ![inner][k] = 0]
    /\ UNCHANGED <<inner, voice, out, play, link, refusals>>

TestOpen(w) ==
    /\ At(w, "test open")
    /\ LET k == order[w].kind IN
       \/ k = "mic" /\ Refused(w)
       \/ /\ k = "ping" /\ Peer(inner) = ""     \* "Not connected"
          /\ Done(w)
          /\ Reading /\ UNCHANGED <<orders, muddled>>
       \/ /\ k = "ping" => Peer(inner) # ""
          /\ \E t \in Tasks :
                /\ Spawned(t, k, "")
                /\ test' = [test EXCEPT ![inner][k] = t]
          /\ Done(w)
          /\ Within /\ UNCHANGED <<inner, voice, out, play, link>>

----------------------------------------------------------------------------
\* Moving between servers.

\* connect: a fresh session becomes the active one.  A call on the session
\* that was active goes on there.
Connect(w, s) ==
    /\ link[s] = "none"
    /\ order[w] = Idle /\ orders > 0
    /\ orders' = orders - 1
    /\ inner' = s
    /\ link' = [link EXCEPT ![s] = "down"]
    /\ muddled' = (muddled \/ Busy # {} \/ voice[inner] # "Inactive")
    /\ UNCHANGED <<voice, out, play, test, task, order, refusals>>

\* handle_connect_result: the event loop runs and its handle is stored.
Connected(s) ==
    /\ link[s] = "down"
    /\ link' = [link EXCEPT ![s] = "up"]
    /\ UNCHANGED <<inner, voice, out, play, test, task, order, orders, refusals, muddled>>

\* switch_active_with_voice
SwitchActive(w, s) ==
    /\ link[s] # "none" /\ s # inner
    /\ Begin(w, [at |-> IF voice[inner] = "Inactive" THEN "move swap" ELSE "move stop",
                 from |-> inner, to |-> s, was |-> voice[inner]])
    /\ Reading

\* Mutant: the migration forgets to stop the session it leaves.
MoveStopNothing(w) ==
    /\ At(w, "move stop")
    /\ order' = [order EXCEPT ![w].at = "move set"]
    /\ Within /\ UNCHANGED <<inner, voice, link, out, play, test, task>>

MoveStop(w) ==
    /\ At(w, "move stop")
    /\ StopAudioOn(order[w].from)
    /\ order' = [order EXCEPT ![w].at = "move set"]
    /\ Within /\ UNCHANGED <<inner, voice, link>>

MoveSet(w) ==
    /\ At(w, "move set")
    /\ SetVoice(order[w].from, "Inactive")
    /\ order' = [order EXCEPT ![w].at = "move swap"]
    /\ Within /\ UNCHANGED <<inner, out, play, test, link, task>>

\* switch_active_to fails when the session was removed meanwhile.
MoveSwap(w) ==
    /\ At(w, "move swap")
    /\ IF link[order[w].to] = "none"
         THEN Done(w) /\ UNCHANGED inner
         ELSE /\ inner' = order[w].to
              /\ Goto(w, IF order[w].was = "Inactive" THEN Idle
                         ELSE IF order[w].was = "Active" THEN [at |-> "enable read"]
                         ELSE [at |-> "muted read"])
    /\ Within /\ UNCHANGED <<voice, out, play, test, link, task>>

\* disconnect_session: audio is stopped when the session is the active one ...
DisconnectSession(w, s) ==
    /\ link[s] # "none"
    /\ Begin(w, [at |-> "part take", from |-> s, active |-> (inner = s)])
    /\ IF inner = s THEN StopAudioOn(s) ELSE UNCHANGED <<out, play, test, task>>
    /\ UNCHANGED <<inner, voice, link, refusals>>

\* ... then the client handle is taken and the event loop awaited ...
PartTake(w) ==
    /\ At(w, "part take")
    /\ link' = [link EXCEPT ![order[w].from] = "down"]
    /\ order' = [order EXCEPT ![w].at = "part done"]
    /\ Within /\ UNCHANGED <<inner, voice, out, play, test, task>>

\* ... and the state reset, the session removed and `inner' moved on.  The
\* removed session's state is dropped with the handles it stores.
PartDone(w) ==
    /\ At(w, "part done")
    /\ LET s == order[w].from
           rest == {r \in Servers \ {s} : link[r] # "none"}
       IN /\ SetVoice(s, "Inactive")
          /\ link' = [link EXCEPT ![s] = "none"]
          /\ out' = [out EXCEPT ![s] = 0]
          /\ test' = [test EXCEPT ![s] = [k \in Kinds |-> 0]]
          /\ play' = [play EXCEPT ![s] = FALSE]
          /\ IF ~order[w].active THEN UNCHANGED inner
             ELSE IF rest = {} THEN inner' = Default
             ELSE inner' \in rest
    /\ Done(w)
    /\ Within /\ UNCHANGED task

\* on_disconnected, and the part of a kick that concerns audio: the capture and
\* the playback of that session end with its connection, the tests do not.
ConnectionLost(s) ==
    /\ link[s] = "up"
    /\ link' = [link EXCEPT ![s] = "down"]
    /\ StopOutbound(s)
    /\ play' = [play EXCEPT ![s] = FALSE]
    /\ SetVoice(s, "Inactive")
    /\ muddled' = (muddled \/ Busy # {})
    /\ UNCHANGED <<inner, test, order, orders, refusals>>

\* outbound_audio_loop ends at once when the microphone cannot be started,
\* latency_ping_loop when the connection is gone.
TaskEnds(t) ==
    /\ \/ /\ task[t].kind = "call"
          /\ refusals > 0 /\ refusals' = refusals - 1
       \/ /\ task[t].kind = "ping"
          /\ \A s \in Servers : link[s] # "up"
          /\ UNCHANGED refusals
    /\ Abort({t})
    /\ UNCHANGED <<inner, voice, out, play, test, link, order, orders, muddled>>

VoiceNext ==
    \/ \E w \in Workers :
          \/ ToggleMute(w) \/ MuteStop(w) \/ MuteSet(w)
          \/ EnableVoice(w) \/ EnableRead(w) \/ EnablePlay(w)
          \/ OutOpen(w) \/ SetActive(w)
          \/ ToggleDeafen(w) \/ DisableVoice(w) \/ OffStop(w) \/ OffSet(w)
          \/ MutedRead(w) \/ MutedPlay(w)
          \/ SetAudioSettings(w) \/ RestartStop(w) \/ RestartRead(w)
          \/ InboundStop(w) \/ InboundPlay(w)
          \/ \E k \in Kinds : Test(w, k)
          \/ TestOpen(w)
          \/ \E s \in Servers : Connect(w, s) \/ SwitchActive(w, s) \/ DisconnectSession(w, s)
          \/ MoveStop(w) \/ MoveSet(w) \/ MoveSwap(w)
          \/ PartTake(w) \/ PartDone(w)
    \/ \E s \in Servers : Connected(s) \/ ConnectionLost(s)
    \/ \E t \in Tasks : TaskEnds(t)

VoiceSpec == VoiceInit /\ [][VoiceNext]_voiceVars

----------------------------------------------------------------------------
\* Between commands.
Quiet == Busy = {}

\* As long as commands come one at a time and a call is not left behind by a
\* new connection: whenever no command is under way, the microphone is only
\* captured for the active session, only while its state is Active, and by the
\* one task whose handle the session holds, even when a device refused to open
\* or the connection was lost in between; and while no device refused, the
\* others are played exactly while the session is in a call.
MicFollowsVoice ==
    (Quiet /\ ~muddled) =>
        /\ \A t \in Running :
             task[t].kind = "call" => /\ out[inner] = t
                                      /\ voice[inner] = "Active"
                                      /\ task[t].to = inner
        /\ refusals = MaxRefusals =>
             \A s \in AppSessions : play[s] <=> voice[s] # "Inactive"

=============================================================================
