----------------------------- MODULE Microphone -----------------------------
(***************************************************************************)
(* The outbound audio path of one call: the capture loop                   *)
(* (outbound_audio_loop, process_outbound_tick), the pipeline it ticks     *)
(* (OutboundPipeline::tick with the noise gate of its filter chain) and    *)
(* the task that drains the packet channel to the network                  *)
(* (outbound_send_task).  Muting aborts the loop at any of its awaits.     *)
(*                                                                         *)
(* A captured frame is its level after gain: loud (opens the gate), fair   *)
(* (keeps it open) or still (below the closing threshold).                 *)
(***************************************************************************)
EXTENDS Naturals, Sequences, SequencesExt

CONSTANTS HoldFrames,   \* NoiseGateConfig::hold_frames
          ChannelCap,   \* the bounded channel between the loop and the sender
          MaxFrames,    \* bound: frames captured
          MaxCalls      \* bound: times the pipeline is started

ASSUME HoldIsNat == HoldFrames \in Nat
ASSUME BoundsAreNat == MaxFrames \in Nat /\ MaxCalls \in Nat

Levels == {"loud", "fair", "still"}

VARIABLES
    loop,           \* the capture loop task: "off", "starting" or "on"
    gate, hold,     \* NoiseGate
    gated,          \* noise suppression is on, so the chain has a gate
    wasTalking,     \* OutboundPipeline::was_talking
    sequence,       \* OpusEncoder::sequence
    shown,          \* TalkingGuard::is_talking, the indicator in the interface
    channel,        \* packets queued to the sender, which outlives the loop
    wire,           \* the last packet given to the client
    calm,           \* consecutive still frames the gate saw
    chopped,        \* a terminator cut speech the hold time should bridge
    skipped,        \* a tick's result was discarded, failed or did not fit
    frames, calls   \* what is left of the bounds

micVars == <<loop, gate, hold, gated, wasTalking, sequence, shown, channel,
             wire, calm, chopped, skipped, frames, calls>>

NoPacket == [seq |-> 0, end |-> TRUE, call |-> 0]

MicTypeOK ==
    /\ loop \in {"off", "starting", "on"}
    /\ gate \in {"Closed", "Open"} /\ hold \in 0..HoldFrames
    /\ wasTalking \in BOOLEAN /\ shown \in BOOLEAN /\ gated \in BOOLEAN
    /\ Len(channel) <= ChannelCap
    /\ frames \in 0..MaxFrames /\ calls \in 0..MaxCalls

MicInit ==
    /\ loop = "off"
    /\ gate = "Closed" /\ hold = 0 /\ gated = TRUE
    /\ wasTalking = FALSE /\ sequence = 0 /\ shown = FALSE
    /\ channel = << >> /\ wire = NoPacket
    /\ calm = 0 /\ chopped = FALSE /\ skipped = FALSE
    /\ frames = MaxFrames /\ calls = MaxCalls

\* start_outbound_pipeline builds the filter chain, the encoder and the
\* channel anew.  A sender of an earlier call has drained its channel by then
\* or drains it beside the new one; the model waits for it.
StartCapture ==
    /\ loop = "off" /\ calls > 0 /\ channel = << >>
    /\ calls' = calls - 1
    /\ loop' = "starting"
    /\ gated' \in BOOLEAN
    /\ gate' = "Closed" /\ hold' = 0 /\ calm' = 0
    /\ wasTalking' = FALSE /\ sequence' = 0
    /\ wire' = NoPacket /\ skipped' = FALSE
    /\ UNCHANGED <<shown, channel, chopped, frames>>

----------------------------------------------------------------------------
\* The hold time a frame above the closing threshold leaves an open gate.
Renewed == HoldFrames

\* NoiseGate::process: the gate's next state and whether the frame is silent.
Gate(level) ==
    CASE ~gated -> [gate |-> gate, hold |-> hold, silent |-> FALSE]
      [] gated /\ gate = "Closed" /\ level = "loud" ->
            [gate |-> "Open", hold |-> HoldFrames, silent |-> FALSE]
      [] gated /\ gate = "Closed" /\ level # "loud" ->
            [gate |-> "Closed", hold |-> hold, silent |-> TRUE]
      [] gated /\ gate = "Open" /\ level # "still" ->
            [gate |-> "Open", hold |-> Renewed, silent |-> FALSE]
      [] gated /\ gate = "Open" /\ level = "still" /\ hold > 0 ->
            [gate |-> "Open", hold |-> hold - 1, silent |-> FALSE]
      [] gated /\ gate = "Open" /\ level = "still" /\ hold = 0 ->
            [gate |-> "Closed", hold |-> 0, silent |-> TRUE]

\* Mutant: the frame that ends speech is not sent.
KindNoTerminator(silent) == IF ~silent THEN "audio" ELSE "silence"

\* OutboundPipeline::tick on one captured frame: speech, the terminator after
\* it, or silence that is not sent.
Kind(silent) == IF ~silent THEN "audio" ELSE IF wasTalking THEN "terminator" ELSE "silence"

Tick(level) ==
    /\ frames > 0
    /\ frames' = frames - 1
    /\ gate' = Gate(level).gate
    /\ hold' = Gate(level).hold
    /\ wasTalking' = ~Gate(level).silent
    /\ calm' = IF level = "still" THEN calm + 1 ELSE 0

Encodes(level) == Kind(Gate(level).silent) # "silence"

\* process_outbound_tick: the indicator follows the kind of the frame, and the
\* packet is queued unless the channel is full.
ProcessTick(level) ==
    /\ loop = "on"
    /\ Tick(level)
    /\ LET kind == Kind(Gate(level).silent)
           packet == [seq |-> sequence, end |-> kind = "terminator", call |-> calls]
       IN IF kind = "silence"
            THEN UNCHANGED <<sequence, shown, channel, chopped, skipped>>
            ELSE /\ sequence' = sequence + 1
                 /\ shown' = (kind = "audio")
                 /\ chopped' = (chopped \/ (kind = "terminator" /\ calm' <= HoldFrames))
                 /\ IF Len(channel) < ChannelCap
                      THEN channel' = Append(channel, packet) /\ UNCHANGED skipped
                      ELSE skipped' = TRUE /\ UNCHANGED channel
    /\ UNCHANGED <<loop, gated, wire, calls>>

\* The encoder fails after was_talking is set: nothing is queued or shown.
EncodeFails(level) ==
    /\ loop = "on"
    /\ Encodes(level)
    /\ Tick(level)
    /\ skipped' = TRUE
    /\ UNCHANGED <<loop, gated, sequence, shown, channel, wire, chopped, calls>>

\* What piled up while the device started, or while the runtime stalled, is
\* ticked through the pipeline and discarded.
DiscardTick(level) ==
    /\ loop # "off"
    /\ Tick(level)
    /\ skipped' = (skipped \/ Encodes(level))
    /\ sequence' = IF Encodes(level) THEN sequence + 1 ELSE sequence
    /\ UNCHANGED <<loop, gated, shown, channel, wire, chopped, calls>>

Started ==
    /\ loop = "starting"
    /\ loop' = "on"
    /\ UNCHANGED <<gate, hold, gated, wasTalking, sequence, shown, channel, wire, calm,
                   chopped, skipped, frames, calls>>

\* Mutant: no guard clears the indicator when the loop is aborted.
LoopEndsSilently ==
    /\ loop # "off"
    /\ loop' = "off"
    /\ UNCHANGED <<gate, hold, gated, wasTalking, sequence, shown, channel, wire, calm,
                   chopped, skipped, frames, calls>>

\* The loop is aborted, or its microphone cannot be started: the guard clears
\* the indicator and the channel is closed with what is queued in it.
LoopEnds ==
    /\ loop # "off"
    /\ loop' = "off"
    /\ shown' = FALSE
    /\ UNCHANGED <<gate, hold, gated, wasTalking, sequence, channel, wire, calm,
                   chopped, skipped, frames, calls>>

\* outbound_send_task; a client that refuses the packet loses it.
SendPacket ==
    /\ channel # << >>
    /\ channel' = Tail(channel)
    /\ \/ wire' = Head(channel) /\ UNCHANGED skipped
       \/ skipped' = TRUE /\ UNCHANGED wire
    /\ UNCHANGED <<loop, gate, hold, gated, wasTalking, sequence, shown, calm,
                   chopped, frames, calls>>

MicNext ==
    \/ StartCapture \/ Started \/ LoopEnds \/ SendPacket
    \/ \E level \in Levels : ProcessTick(level) \/ EncodeFails(level) \/ DiscardTick(level)

MicSpec == MicInit /\ [][MicNext]_micVars

----------------------------------------------------------------------------
\* The talking indicator is off whenever the loop is, however it ended, and
\* while the loop runs it is on exactly while speech is being sent, until a
\* tick was discarded or failed.
IndicatorHonest ==
    /\ loop # "on" => ~shown
    /\ (loop = "on" /\ ~skipped) => (shown <=> wasTalking)

\* Once speech has ended and the channel is drained, the last packet the
\* server got is a terminator, unless a tick or packet was lost: receivers
\* reset their decoder and indicator on it.  And none is sent for a pause that
\* the gate's hold time should bridge.
SpeechEnds ==
    /\ (loop = "on" /\ ~skipped /\ ~wasTalking /\ channel = << >>) => wire.end
    /\ ~chopped

=============================================================================
