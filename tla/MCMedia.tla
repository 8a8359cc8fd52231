------------------------------ MODULE MCMedia ------------------------------
(***************************************************************************)
(* The media side of the client for TLC: the voice commands, the inbound   *)
(* mixer, the outbound microphone path, the audio devices and the work     *)
(* queue.  They share no variable, so a behaviour runs one of them while   *)
(* the others rest: the run explores the sum of their state spaces, which  *)
(* decides every property that mentions the variables of one of them only. *)
(***************************************************************************)
EXTENDS Voice, Mixer, Microphone, WorkQueue, Devices

VARIABLE part

mediaVars == <<voiceVars, mixerVars, micVars, queueVars, deviceVars, part>>

\* Devices at 48 kHz, at 96 kHz and at 32 kHz.
DeviceRates == {<<1, 1>>, <<1, 2>>, <<3, 2>>}

Init ==
    /\ VoiceInit /\ MixerInit /\ MicInit /\ QueueInit /\ DevicesInit
    /\ part \in {"voice", "mixer", "mic", "queue", "capture", "output"}
    /\ part \notin {"capture", "output"} => platform = "desktop"

Next ==
    \/ /\ part = "voice" /\ VoiceNext
       /\ UNCHANGED <<mixerVars, micVars, queueVars, deviceVars, part>>
    \/ /\ part = "mixer" /\ MixerNext
       /\ UNCHANGED <<voiceVars, micVars, queueVars, deviceVars, part>>
    \/ /\ part = "mic" /\ MicNext
       /\ UNCHANGED <<voiceVars, mixerVars, queueVars, deviceVars, part>>
    \/ /\ part = "queue" /\ QueueNext
       /\ UNCHANGED <<voiceVars, mixerVars, micVars, deviceVars, part>>
    \/ /\ \/ part = "capture" /\ CaptureNext
          \/ part = "output" /\ OutputNext
       /\ UNCHANGED <<voiceVars, mixerVars, micVars, queueVars, part>>

\* The fairness of WorkQueue, where it runs.
QueueLoop ==
    part = "queue" /\ Loop /\ UNCHANGED <<voiceVars, mixerVars, micVars, deviceVars, part>>

Spec == Init /\ [][Next]_mediaVars /\ WF_mediaVars(QueueLoop)

----------------------------------------------------------------------------
\* Neither backend lets the listener hear a step: the rodio source and the
\* frames it plays fade in after a gap, the cpal callback ramps back from the
\* decaying value.
NoClicks == NoHardEdge /\ RampsBack
=============================================================================
