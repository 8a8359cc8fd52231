----------------------------- MODULE ClientLoop -----------------------------
(***************************************************************************)
(* The client event loop of mumble-protocol/src/client.rs with the tasks   *)
(* around it: the TCP reader and writer, the ping timer, the command       *)
(* forwarder and the UDP reader that the loop starts, replaces and aborts. *)
(*                                                                         *)
(* A control message is only its kind, a command is what it makes the loop *)
(* do, and a channel whose items are all alike is their number.  A start   *)
(* of the UDP transport is its number (0: none).  The polls of the biased  *)
(* select are separate steps; a handler runs to its end in one step except *)
(* where it waits for room in the outbound channel.                        *)
(***************************************************************************)
EXTENDS Integers, Sequences

CONSTANTS UdpCap, TcpCap, CmdCap, AudioCap,   \* channels of the work queue
          OutCap,         \* capacity of the outbound channel (64)
          MaxInbound,     \* bound: control messages and datagrams received
          MaxToggles,     \* bound: calls of set_force_tcp
          MaxAudio,       \* bound: calls of send_audio
          CommandLists,   \* the command sequences a user may submit
          MayAbort        \* whether the owner may abort the loop's task

ASSUME LoopAssumption ==
    /\ {UdpCap, TcpCap, CmdCap, AudioCap, OutCap} \subseteq Nat \ {0}
    /\ {MaxInbound, MaxToggles, MaxAudio} \subseteq Nat
    /\ CommandLists \subseteq Seq({"message", "disconnect"})
    /\ MayAbort \in BOOLEAN

\* A full CryptSetup, a Reject, and all messages that leave the state of the
\* loop alone (partial CryptSetups and UDP pings act on the transport only).
Kinds == {"setup", "reject", "other"}

TcpReader == <<"tcp_reader", 0>>
TcpWriter == <<"tcp_writer", 0>>
Pinger    == <<"ping", 0>>
Forwarder == <<"cmd_forwarder", 0>>
Udp(n)    == <<"udp_reader", n>>
TcpTasks  == {TcpReader, TcpWriter, Pinger, Forwarder}

VARIABLES
    pc,         \* the branch polled next, "sending", "ended" or "aborted"
    udpQ, tcpQ, cmdQ, audioQ,   \* the channels that feed the loop
    todo,       \* commands not yet forwarded to the work queue
    outQ,       \* messages in the outbound channel
    live,       \* the tasks that run
    aborted,    \* the tasks on which abort() was called
    watch,      \* the force_tcp watch channel: its value, seen or not
    force,      \* the loop's own force_tcp
    stored,     \* stored_crypto is Some
    sender, reader, resyncTx,   \* udp_sender, udp_reader_task, udp_resync_tx
    told,       \* the last on_audio_transport_changed
    starts, inbound, toggles, audios   \* counters

transport == <<stored, sender, reader, resyncTx, told, starts>>
counts    == <<inbound, toggles, audios>>
queues    == <<udpQ, tcpQ, cmdQ, audioQ, todo, outQ>>
vars == <<pc, queues, live, aborted, watch, force, transport, counts>>

Polls == {"udp", "tcp", "cmd", "audio", "force", "reader"}

TypeOK ==
    /\ pc \in Polls \cup {"sending", "ended", "aborted"}
    /\ udpQ \in 0 .. UdpCap /\ audioQ \in 0 .. AudioCap /\ outQ \in 0 .. OutCap
    /\ tcpQ \in Seq(Kinds) /\ Len(tcpQ) <= TcpCap
    /\ cmdQ \in Seq({"message", "disconnect"}) /\ Len(cmdQ) <= CmdCap
    /\ todo \in Seq({"message", "disconnect"})
    /\ live \subseteq TcpTasks \cup {Udp(n) : n \in 1 .. starts}
    /\ aborted \subseteq TcpTasks \cup {Udp(n) : n \in 1 .. starts}
    /\ watch \in [value : BOOLEAN, seen : BOOLEAN]
    /\ force \in BOOLEAN /\ stored \in BOOLEAN
    /\ {sender, reader, resyncTx} \subseteq 0 .. starts
    /\ told \in {"nothing", "udp", "tcp"}
    /\ {starts, inbound, toggles, audios} \subseteq Nat

Init ==
    /\ pc = "udp" /\ udpQ = 0 /\ tcpQ = <<>> /\ cmdQ = <<>> /\ audioQ = 0
    /\ todo \in CommandLists /\ outQ = 0
    /\ live = TcpTasks /\ aborted = {}
    /\ force \in BOOLEAN /\ watch = [value |-> force, seen |-> TRUE]
    /\ stored = FALSE /\ sender = 0 /\ reader = 0 /\ resyncTx = 0
    /\ told = "nothing"
    /\ starts = 0 /\ inbound = 0 /\ toggles = 0 /\ audios = 0

\* The loop's future is gone, and with it the receivers of its channels.
Gone == pc \in {"ended", "aborted"}

Ends(t) == live' = live \ {t}

-----------------------------------------------------------------------------
\* The tasks around the loop.

\* tcp_reader_loop: send_tcp waits for room and fails once the loop is gone.
TcpRecv(kind) ==
    /\ TcpReader \in live /\ inbound < MaxInbound
    /\ inbound' = inbound + 1
    /\ \/ Gone /\ Ends(TcpReader) /\ UNCHANGED tcpQ
       \/ /\ ~Gone /\ Len(tcpQ) < TcpCap
          /\ tcpQ' = Append(tcpQ, kind) /\ UNCHANGED live
    /\ UNCHANGED <<pc, udpQ, cmdQ, audioQ, todo, outQ, aborted, watch, force,
                   transport, toggles, audios>>
TcpReadError ==
    /\ TcpReader \in live /\ Ends(TcpReader)
    /\ UNCHANGED <<pc, queues, aborted, watch, force, transport, counts>>

\* tcp_writer_loop: a failed write drops the channel with all that is in it;
\* it also ends when the last sender of the channel is gone.
WriterSend ==
    /\ TcpWriter \in live /\ outQ > 0
    /\ \/ outQ' = outQ - 1 /\ UNCHANGED live
       \/ outQ' = 0 /\ Ends(TcpWriter)
    /\ UNCHANGED <<pc, udpQ, tcpQ, cmdQ, audioQ, todo, aborted, watch, force,
                   transport, counts>>
WriterClosed ==
    /\ TcpWriter \in live /\ outQ = 0 /\ Gone
    /\ live \subseteq {TcpWriter, TcpReader, Forwarder}
    /\ Ends(TcpWriter)
    /\ UNCHANGED <<pc, queues, aborted, watch, force, transport, counts>>

\* What a task sends to the outbound channel; closed, the task ends.
Outbound(t) ==
    \/ /\ TcpWriter \in live /\ outQ < OutCap
       /\ outQ' = outQ + 1 /\ UNCHANGED live
    \/ TcpWriter \notin live /\ Ends(t) /\ UNCHANGED outQ

\* ping_loop, one tick of its interval.
PingTick ==
    /\ Pinger \in live /\ Outbound(Pinger)
    /\ UNCHANGED <<pc, udpQ, tcpQ, cmdQ, audioQ, todo, aborted, watch, force,
                   transport, counts>>

\* cmd_forwarder_loop: send_command waits for room.  Once the loop is gone
\* it ends on the next command, or when its owner drops the ClientHandle.
Forward ==
    /\ Forwarder \in live
    /\ \/ /\ ~Gone /\ todo # <<>> /\ Len(cmdQ) < CmdCap
          /\ cmdQ' = Append(cmdQ, Head(todo)) /\ todo' = Tail(todo)
          /\ UNCHANGED live
       \/ Gone /\ Ends(Forwarder) /\ UNCHANGED <<cmdQ, todo>>
    /\ UNCHANGED <<pc, udpQ, tcpQ, audioQ, outQ, aborted, watch, force,
                   transport, counts>>

\* udp_reader_loop, a datagram it could decrypt.
UdpRecv(n) ==
    /\ Udp(n) \in live /\ inbound < MaxInbound
    /\ inbound' = inbound + 1
    /\ \/ Gone /\ Ends(Udp(n)) /\ UNCHANGED udpQ
       \/ ~Gone /\ udpQ < UdpCap /\ udpQ' = udpQ + 1 /\ UNCHANGED live
    /\ UNCHANGED <<pc, tcpQ, cmdQ, audioQ, todo, outQ, aborted, watch, force,
                   transport, toggles, audios>>
\* Its resync request; a full channel only makes it try again later.
UdpRequest(n) ==
    /\ Udp(n) \in live /\ Outbound(Udp(n))
    /\ UNCHANGED <<pc, udpQ, tcpQ, cmdQ, audioQ, todo, aborted, watch, force,
                   transport, counts>>
\* It ends on a socket error, or when the loop dropped its resync channel.
UdpSocketError(n) ==
    /\ Udp(n) \in live /\ Ends(Udp(n))
    /\ UNCHANGED <<pc, queues, aborted, watch, force, transport, counts>>
ResyncClosed(n) == (Gone \/ resyncTx # n) /\ UdpSocketError(n)

\* A task on which abort() was called stops at its next await.
AbortLands(t) ==
    /\ t \in live \cap aborted /\ Ends(t)
    /\ outQ' = IF t = TcpWriter THEN 0 ELSE outQ
    /\ UNCHANGED <<pc, udpQ, tcpQ, cmdQ, audioQ, todo, aborted, watch, force,
                   transport, counts>>

\* ClientHandle::set_force_tcp and send_audio (a full channel drops it).
SetForceTcp(value) ==
    /\ ~Gone /\ toggles < MaxToggles /\ toggles' = toggles + 1
    /\ watch' = [value |-> value, seen |-> FALSE]
    /\ UNCHANGED <<pc, queues, live, aborted, force, transport, inbound, audios>>
SendAudio ==
    /\ ~Gone /\ audios < MaxAudio /\ audios' = audios + 1
    /\ audioQ' = IF audioQ < AudioCap THEN audioQ + 1 ELSE audioQ
    /\ UNCHANGED <<pc, udpQ, tcpQ, cmdQ, todo, outQ, live, aborted, watch,
                   force, transport, inbound, toggles>>

-----------------------------------------------------------------------------
\* The UDP transport.

\* Mutant: dropping the JoinHandle, which only detaches the task.
AbortNone == UNCHANGED aborted

\* task.abort() on the UDP reader the loop holds, if any.
AbortReader == aborted' = aborted \cup {Udp(n) : n \in {reader} \ {0}}

\* start_udp fails before it touches anything (a bad key, no socket), or
\* replaces the reader, the resync channel and the sender.
StartUdp ==
    \/ UNCHANGED <<sender, reader, resyncTx, told, starts, live, aborted>>
    \/ /\ starts' = starts + 1
       /\ AbortReader
       /\ resyncTx' = starts' /\ reader' = starts' /\ sender' = starts'
       /\ live' = live \cup {Udp(starts')}
       /\ told' = "udp"

\* Mutant: a CryptSetup starts UDP although TCP is forced.
HandleCryptSetupAlways == stored' = TRUE /\ StartUdp

\* handle_crypt_setup for a full CryptSetup.
HandleCryptSetup ==
    /\ stored' = TRUE
    /\ IF force
       THEN /\ told' = "tcp"
            /\ UNCHANGED <<sender, reader, resyncTx, starts, live, aborted>>
       ELSE StartUdp

\* handle_force_tcp_change, called when the value differs from the loop's.
HandleForceTcpChange(value) ==
    /\ UNCHANGED stored
    /\ \/ /\ value
          /\ AbortReader
          /\ sender' = 0 /\ reader' = 0 /\ resyncTx' = 0 /\ told' = "tcp"
          /\ UNCHANGED <<starts, live>>
       \/ ~value /\ stored /\ StartUdp
       \/ /\ ~value /\ ~stored
          /\ UNCHANGED <<sender, reader, resyncTx, told, starts, live, aborted>>

-----------------------------------------------------------------------------
\* The loop.

\* Mutant: the loop returns without aborting its tasks.
BreakNoAbort == pc' = "ended" /\ UNCHANGED <<aborted, live, transport>>

\* on_disconnected, break, and abort() on every task the loop started.
Break == /\ pc' = "ended"
         /\ aborted' = aborted \cup TcpTasks
                         \cup {Udp(n) : n \in {reader} \ {0}}
         /\ UNCHANGED <<live, transport>>

PollUdp ==
    /\ pc = "udp"
    /\ \/ udpQ > 0 /\ udpQ' = udpQ - 1 /\ UNCHANGED pc
       \/ udpQ = 0 /\ pc' = "tcp" /\ UNCHANGED udpQ
    /\ UNCHANGED <<tcpQ, cmdQ, audioQ, todo, outQ, live, aborted, watch, force,
                   transport, counts>>

\* handle_server_message for a control message.
PollTcp ==
    /\ pc = "tcp"
    /\ \/ /\ tcpQ = <<>> /\ pc' = "cmd"
          /\ UNCHANGED <<tcpQ, live, aborted, transport>>
       \/ /\ tcpQ # <<>> /\ tcpQ' = Tail(tcpQ)
          /\ \/ Head(tcpQ) = "setup" /\ pc' = "udp" /\ HandleCryptSetup
             \/ Head(tcpQ) = "reject" /\ Break
             \/ /\ Head(tcpQ) = "other" /\ pc' = "udp"
                /\ UNCHANGED <<live, aborted, transport>>
    /\ UNCHANGED <<udpQ, cmdQ, audioQ, todo, outQ, watch, force, counts>>

\* handle_user_command: what it sends waits for room in the outbound channel.
PollCmd ==
    /\ pc = "cmd"
    /\ \/ /\ cmdQ = <<>> /\ pc' = "audio"
          /\ UNCHANGED <<cmdQ, live, aborted, transport>>
       \/ /\ cmdQ # <<>> /\ cmdQ' = Tail(cmdQ)
          /\ IF Head(cmdQ) = "disconnect"
             THEN Break
             ELSE pc' = "sending" /\ UNCHANGED <<live, aborted, transport>>
    /\ UNCHANGED <<udpQ, tcpQ, audioQ, todo, outQ, watch, force, counts>>
\* Mutant: a closed outbound channel is waited on.
SendOutboundStuck ==
    /\ pc = "sending" /\ pc' = "udp"
    /\ TcpWriter \in live /\ outQ < OutCap /\ outQ' = outQ + 1
    /\ UNCHANGED <<udpQ, tcpQ, cmdQ, audioQ, todo, live, aborted, watch, force,
                   transport, counts>>

SendOutbound ==
    /\ pc = "sending" /\ pc' = "udp"
    /\ \/ TcpWriter \in live /\ outQ < OutCap /\ outQ' = outQ + 1
       \/ TcpWriter \notin live /\ UNCHANGED outQ
    /\ UNCHANGED <<udpQ, tcpQ, cmdQ, audioQ, todo, live, aborted, watch, force,
                   transport, counts>>

\* send_one_audio_packet: UDP if it takes the packet, else the tunnel if it
\* has room, else the packet is dropped.
PollAudio ==
    /\ pc = "audio"
    /\ \/ audioQ = 0 /\ pc' = "force" /\ UNCHANGED <<audioQ, outQ>>
       \/ /\ audioQ > 0 /\ audioQ' = audioQ - 1 /\ pc' = "udp"
          /\ \/ sender # 0 /\ UNCHANGED outQ
             \/ outQ' = IF TcpWriter \in live /\ outQ < OutCap
                        THEN outQ + 1 ELSE outQ
    /\ UNCHANGED <<udpQ, tcpQ, cmdQ, todo, live, aborted, watch, force,
                   transport, counts>>

\* Mutant: the loop's own force_tcp is not updated.
PollForceStale ==
    /\ pc = "force"
    /\ \/ /\ watch.seen /\ pc' = "reader"
          /\ UNCHANGED <<watch, live, aborted, transport>>
       \/ /\ ~watch.seen /\ pc' = "udp"
          /\ watch' = [watch EXCEPT !.seen = TRUE]
          /\ IF watch.value # force
             THEN HandleForceTcpChange(watch.value)
             ELSE UNCHANGED <<live, aborted, transport>>
    /\ UNCHANGED <<queues, counts, force>>

\* force_tcp_rx.changed(): only the latest value is seen.
PollForce ==
    /\ pc = "force"
    /\ \/ /\ watch.seen /\ pc' = "reader"
          /\ UNCHANGED <<watch, force, live, aborted, transport>>
       \/ /\ ~watch.seen /\ pc' = "udp"
          /\ watch' = [watch EXCEPT !.seen = TRUE]
          /\ force' = watch.value
          /\ IF watch.value # force
             THEN HandleForceTcpChange(watch.value)
             ELSE UNCHANGED <<live, aborted, transport>>
    /\ UNCHANGED <<queues, counts>>

\* Mutant: the end of the TCP reader is not polled for.
PollReaderBlind ==
    /\ pc = "reader" /\ pc' = "udp"
    /\ UNCHANGED <<queues, live, aborted, transport, watch, force, counts>>

\* The TCP reader's JoinHandle: once it has ended, WorkItem::Shutdown.
PollReader ==
    /\ pc = "reader"
    /\ IF TcpReader \in live
       THEN pc' = "udp" /\ UNCHANGED <<live, aborted, transport>>
       ELSE Break
    /\ UNCHANGED <<queues, watch, force, counts>>

\* The owner aborts the loop's own task (disconnect_session after 3 s,
\* reset_state_for_connect): the future is dropped where it waits, the
\* handles of its tasks with it, which detaches and does not abort them.
AbortLoop ==
    /\ MayAbort /\ ~Gone /\ pc' = "aborted"
    /\ UNCHANGED <<queues, live, aborted, watch, force, transport, counts>>

Loop == \/ PollUdp \/ PollTcp \/ PollCmd \/ PollAudio \/ PollForce \/ PollReader

Next ==
    \/ Loop \/ SendOutbound \/ AbortLoop
    \/ \E kind \in Kinds : TcpRecv(kind)
    \/ TcpReadError \/ WriterSend \/ WriterClosed \/ PingTick \/ Forward
    \/ \E n \in 1 .. starts : \/ UdpRecv(n) \/ UdpRequest(n)
                              \/ UdpSocketError(n) \/ ResyncClosed(n)
    \/ \E t \in live : AbortLands(t)
    \/ \E value \in BOOLEAN : SetForceTcp(value)
    \/ SendAudio

\* The runtime keeps scheduling every task; a write to the socket ends some
\* time, by success or failure; the senders of a channel wait in a FIFO
\* queue, so one that waits for room gets it although others send too.
\* Nothing obliges the network, the server or the user to do anything.
Fairness ==
    /\ WF_vars(Loop) /\ SF_vars(SendOutbound)
    /\ WF_vars(WriterSend) /\ WF_vars(WriterClosed)
    /\ WF_vars(PingTick) /\ WF_vars(Forward)
    /\ WF_vars(\E n \in 1 .. starts : ResyncClosed(n))
    /\ WF_vars(\E t \in live : AbortLands(t))

Spec == Init /\ [][Next]_vars
FairSpec == Spec /\ Fairness

-----------------------------------------------------------------------------
\* While the loop runs its three UDP handles belong to one start of the
\* transport, force_tcp means that there is none, and the transport that
\* the event handler was last told of is the one that carries the audio.
TransportAgrees ==
    ~Gone => /\ sender = reader /\ reader = resyncTx
             /\ force => sender = 0
             /\ (told = "udp") <=> (sender # 0)

\* Every UDP reader that was ever started and still runs is the one the
\* loop holds or has been told to stop: restarts leave no second reader
\* that would feed packets decrypted with an old key into the work queue.
NoOrphanReader ==
    pc # "aborted" => \A n \in 1 .. starts :
                         Udp(n) \in live \ aborted => n = reader

\* A submitted Disconnect ends the loop, whatever else waits in the queues.
DisconnectHonoured ==
    (\E i \in 1 .. Len(todo) : todo[i] = "disconnect") ~> Gone

\* The loop notices that the connection is lost.
LossNoticed == (TcpReader \notin live) ~> Gone

\* The last value given to set_force_tcp takes effect: forced, the loop
\* gives up UDP for good however the toggles coalesced in the channel.
ForceHonoured ==
    <>[](watch.value) => <>[](Gone \/ sender = 0)

\* When the loop has returned all of its tasks stop.
TasksEnd == (pc = "ended") ~> (live = {})

=============================================================================
