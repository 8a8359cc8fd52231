----------------------------- MODULE WorkQueue -----------------------------
(***************************************************************************)
(* The priority queue of mumble-protocol/src/work_queue.rs and the biased  *)
(* select of client.rs that drains it together with the outbound audio.    *)
(*                                                                         *)
(* A biased select polls its branches in order and takes the first that is *)
(* ready.  The producers run in other tasks, so an item can arrive between *)
(* two polls: each poll is a step.                                         *)
(***************************************************************************)
EXTENDS Integers

CONSTANTS UdpCap,    \* UDP_CHANNEL_SIZE (256)
          TcpCap,    \* TCP_CHANNEL_SIZE (64)
          CmdCap,    \* CMD_CHANNEL_SIZE (32)
          AudioCap   \* AUDIO_OUT_CHANNEL_SIZE (128)

ASSUME QueueAssumption ==
    {UdpCap, TcpCap, CmdCap, AudioCap} \subseteq Nat \ {0}

VARIABLES udp, tcp, cmd, audio,   \* items in the four channels
          poll                    \* the branch the select polls next

queueVars == <<udp, tcp, cmd, audio, poll>>

QueueTypeOK ==
    /\ udp \in 0 .. UdpCap /\ tcp \in 0 .. TcpCap
    /\ cmd \in 0 .. CmdCap /\ audio \in 0 .. AudioCap
    /\ poll \in {"udp", "tcp", "cmd", "audio"}

QueueInit == udp = 0 /\ tcp = 0 /\ cmd = 0 /\ audio = 0 /\ poll = "udp"

-----------------------------------------------------------------------------
\* The producers: send_udp, send_tcp and send_command wait for room,
\* send_audio drops the packet when there is none.
SendUdp == udp < UdpCap /\ udp' = udp + 1 /\ UNCHANGED <<tcp, cmd, audio, poll>>
SendTcp == tcp < TcpCap /\ tcp' = tcp + 1 /\ UNCHANGED <<udp, cmd, audio, poll>>
SendCommand ==
    cmd < CmdCap /\ cmd' = cmd + 1 /\ UNCHANGED <<udp, tcp, audio, poll>>
SendAudio ==
    audio < AudioCap /\ audio' = audio + 1 /\ UNCHANGED <<udp, tcp, cmd, poll>>

\* Mutant: control messages are drained before the UDP channel is polled again.
TakeTcpAgain == /\ poll = "tcp" /\ tcp > 0
                /\ tcp' = tcp - 1 /\ UNCHANGED <<udp, cmd, audio, poll>>

\* WorkQueueReceiver::recv, the first branch of the event loop's select.
TakeUdp == /\ poll = "udp" /\ udp > 0
           /\ udp' = udp - 1 /\ UNCHANGED <<tcp, cmd, audio, poll>>
SkipUdp == poll = "udp" /\ udp = 0 /\ poll' = "tcp" /\ UNCHANGED <<udp, tcp, cmd, audio>>
TakeTcp == /\ poll = "tcp" /\ tcp > 0
           /\ tcp' = tcp - 1 /\ poll' = "udp" /\ UNCHANGED <<udp, cmd, audio>>
SkipTcp == poll = "tcp" /\ tcp = 0 /\ poll' = "cmd" /\ UNCHANGED <<udp, tcp, cmd, audio>>
TakeCommand == /\ poll = "cmd" /\ cmd > 0
               /\ cmd' = cmd - 1 /\ poll' = "udp" /\ UNCHANGED <<udp, tcp, audio>>
SkipCommand ==
    poll = "cmd" /\ cmd = 0 /\ poll' = "audio" /\ UNCHANGED <<udp, tcp, cmd, audio>>

\* The second branch: audio_out_rx.recv(), then the next round.
TakeAudio == /\ poll = "audio" /\ audio > 0
             /\ audio' = audio - 1 /\ poll' = "udp" /\ UNCHANGED <<udp, tcp, cmd>>
SkipAudio ==
    poll = "audio" /\ audio = 0 /\ poll' = "udp" /\ UNCHANGED <<udp, tcp, cmd, audio>>

Loop == \/ TakeUdp \/ SkipUdp \/ TakeTcp \/ SkipTcp
        \/ TakeCommand \/ SkipCommand \/ TakeAudio \/ SkipAudio

QueueNext == SendUdp \/ SendTcp \/ SendCommand \/ SendAudio \/ Loop

\* The event loop's task keeps being scheduled; nothing is assumed of the
\* producers, which may fill their channels again and again.
QueueSpec == QueueInit /\ [][QueueNext]_queueVars /\ WF_queueVars(Loop)

-----------------------------------------------------------------------------
\* Inbound audio is never starved by control traffic or commands, however
\* fast they come: work_queue.rs polls the UDP channel first.
InboundNeverStarved == []<>(udp = 0) \/ []<><<TakeUdp>>_queueVars

=============================================================================
