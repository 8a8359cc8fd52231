------------------------------- MODULE Mixer -------------------------------
(***************************************************************************)
(* The inbound audio path: the audio handler of the event loop             *)
(* (TauriEventHandler::on_udp), the per-speaker decoders and sample        *)
(* buffers (audio/mixer.rs), the playback callback that drains them (rodio *)
(* and cpal backends) and the recorder that reads them without draining    *)
(* (state/recording.rs).  The handler, the callback and the recorder run   *)
(* on three threads and meet in the lock of the speaker buffers.           *)
(*                                                                         *)
(* Audio is counted in sequence units (10 ms).  A unit in a buffer is      *)
(* decoded voice or inserted silence; of its samples the model keeps       *)
(* whether the decoder that produced it was fresh and whether the mixer    *)
(* smoothed its first edge (cold start fade-in or boundary crossfade).     *)
(***************************************************************************)
EXTENDS Naturals, Sequences, SequencesExt, FiniteSetsExt

CONSTANTS Speakers,
          BufferCap,       \* MAX_SPEAKER_BUFFER_SAMPLES, in units
          GapTolerance,    \* detect_certain_gap
          RestartJump,     \* stream restart detection in feed
          PreBuffer,       \* PRE_BUFFER_SAMPLES
          MixChunk,        \* MIX_CHUNK_SIZE
          RepriseAfter,    \* REPRIME_AFTER, in empty refills
          MaxSeq, MaxFrame,    \* bounds: sequence numbers, units per packet
          MaxPackets, MaxSwaps \* bounds: packets received, pipelines built

ASSUME MixerAssumption ==
    {BufferCap, GapTolerance, RestartJump, PreBuffer, MixChunk, MaxSeq, MaxFrame} \subseteq Nat

NoSeq == MaxSeq + MaxFrame + 1  \* None

VARIABLES
    mixer,      \* AudioPipelineState::mixer is there
    decoder,    \* AudioMixer::speakers
    buffers,    \* SpeakerBuffers
    talking,    \* AudioPipelineState::talking_sessions
    primed, empties, underrun,  \* MumbleMixerSource
    recorder, cursor, tape,     \* the recording task and what it wrote
    packets, swaps, units       \* what is left of the bounds, units made

mixerVars == <<mixer, decoder, buffers, talking, primed, empties, underrun,
               recorder, cursor, tape, packets, swaps, units>>

playbackVars == <<primed, empties, underrun>>
recorderVars == <<recorder, cursor, tape>>

NoDecoder == [on |-> FALSE, last |-> NoSeq, next |-> NoSeq, armed |-> FALSE, fresh |-> TRUE]
NewDecoder == [NoDecoder EXCEPT !.on = TRUE]

\* The last unit a recording wrote, and whether it wrote them in order.
BlankTape == [last |-> 0, sound |-> TRUE]

Unit == [id : 1..units, voice : BOOLEAN, cold : BOOLEAN, soft : BOOLEAN]

MixerTypeOK ==
    /\ mixer \in BOOLEAN
    /\ \A s \in Speakers :
          /\ decoder[s].last \in 0..NoSeq /\ decoder[s].next \in 0..NoSeq
          /\ buffers[s] \in Seq(Unit) /\ Len(buffers[s]) <= BufferCap
          /\ cursor[s] \in 0..BufferCap
    /\ talking \subseteq Speakers
    /\ empties \in 0..RepriseAfter
    /\ recorder \in {"off", "on", "stale"}

MixerInit ==
    /\ mixer = FALSE
    /\ decoder = [s \in Speakers |-> NoDecoder]
    /\ buffers = [s \in Speakers |-> << >>]
    /\ talking = {}
    /\ primed = FALSE /\ empties = 0 /\ underrun = FALSE
    /\ recorder = "off"
    /\ cursor = [s \in Speakers |-> 0]
    /\ tape = [s \in Speakers |-> BlankTape]
    /\ packets = MaxPackets /\ swaps = MaxSwaps /\ units = 0

----------------------------------------------------------------------------
\* AudioMixer::feed

\* A sequence number far behind the last one starts a new stream: its decoder
\* is dropped and a fresh one made.
DecoderFor(s, seq) ==
    LET d == decoder[s]
        restart == d.last # NoSeq /\ d.last > seq /\ d.last - seq > RestartJump
    IN IF ~d.on \/ restart THEN NewDecoder ELSE d

\* detect_certain_gap
CertainGap(expected, seq) ==
    IF expected = NoSeq \/ seq <= expected + GapTolerance THEN 0
    ELSE Min({seq - expected, BufferCap})

\* insert_silence: never beyond the cap.
Silence(buf, wanted) ==
    LET n == Min({wanted, BufferCap - Len(buf)})
    IN [i \in 1..n |-> [id |-> units + i, voice |-> FALSE, cold |-> FALSE, soft |-> FALSE]]

\* Mutant: silence does not arm the crossfade when the buffer already ends in silence.
FrameSharp(first, n, d) ==
    [i \in 1..n |-> [id |-> first + i, voice |-> TRUE,
                     cold |-> i = 1 /\ d.fresh, soft |-> i = 1 /\ d.fresh]]

\* One decoded frame; fade-in or crossfade smooth its first samples only.
Frame(first, n, d) ==
    [i \in 1..n |-> [id |-> first + i, voice |-> TRUE,
                     cold |-> i = 1 /\ d.fresh, soft |-> i = 1 /\ (d.fresh \/ d.armed)]]

\* push_samples: the oldest samples give way.
PushSamples(buf, frame) ==
    LET all == buf \o frame
    IN SubSeq(all, Len(all) - Min({Len(all), BufferCap}) + 1, Len(all))

\* feed with a packet that decodes to n units, or does not decode (n = 0).
Fed(s, seq, n) ==
    LET old == DecoderFor(s, seq)
        gap == CertainGap(old.next, seq)
        d == [old EXCEPT !.last = seq, !.armed = old.armed \/ gap > 0]
        quiet == buffers[s] \o Silence(buffers[s], gap)
        made == Len(quiet) - Len(buffers[s])
        pushed == PushSamples(quiet, Frame(units + made, n, d))
    IN [buffer |-> pushed,
        units |-> units + made + n,
        decoder |-> IF n = 0 THEN d
                    ELSE [d EXCEPT !.next = seq + n, !.fresh = FALSE, !.armed = FALSE]]

\* on_udp: a packet without a mixer is ignored.  Otherwise it is fed, and a
\* terminator then drops the decoder (reset_speaker; the buffer stays to be
\* played) and the indicator.
Audio(s, seq, n, terminator) ==
    /\ mixer
    /\ packets > 0
    /\ packets' = packets - 1
    /\ LET fed == Fed(s, seq, n) IN
         /\ buffers' = [buffers EXCEPT ![s] = fed.buffer]
         /\ units' = fed.units
         /\ decoder' = [decoder EXCEPT ![s] = IF terminator THEN NoDecoder ELSE fed.decoder]
    /\ talking' = IF terminator THEN talking \ {s} ELSE talking \cup {s}
    /\ UNCHANGED <<mixer, swaps, playbackVars, recorderVars>>

----------------------------------------------------------------------------
\* The playback callback.

Primed == primed \/ \E s \in Speakers : Len(buffers[s]) >= PreBuffer

\* batch_drain_speakers: up to a chunk from the front of every buffer.
Drain == buffers' = [s \in Speakers |->
                        SubSeq(buffers[s], 1 + Min({MixChunk, Len(buffers[s])}), Len(buffers[s]))]

\* refill_chunk, and the output samples that follow from it: nothing plays
\* before the pre-buffer is full; a chunk plays (ramped up after an underrun);
\* an empty refill fades out, and enough of them demand a new pre-buffer.
RefillWaits ==
    /\ mixer /\ ~Primed
    /\ underrun' = TRUE
    /\ UNCHANGED <<buffers, primed, empties>>

RefillPlays ==
    /\ mixer /\ Primed
    /\ \E s \in Speakers : buffers[s] # << >>
    /\ Drain
    /\ primed' = TRUE /\ empties' = 0 /\ underrun' = FALSE

RefillEmpty ==
    /\ mixer /\ primed
    /\ \A s \in Speakers : buffers[s] = << >>
    /\ empties' = Min({empties + 1, RepriseAfter})
    /\ primed' = (empties' < RepriseAfter)
    /\ underrun' = TRUE
    /\ UNCHANGED buffers

Refill ==
    /\ RefillWaits \/ RefillPlays \/ RefillEmpty
    /\ UNCHANGED <<mixer, decoder, talking, packets, swaps, units>>
    /\ UNCHANGED recorderVars

\* The inbound half of enable_voice, enable_voice_muted and restart_inbound:
\* a new mixer with new buffers and a new source.  A recording keeps the
\* buffers it was started with.
StartPlayback ==
    /\ swaps > 0
    /\ swaps' = swaps - 1
    /\ mixer' = TRUE
    /\ decoder' = [s \in Speakers |-> NoDecoder]
    /\ buffers' = [s \in Speakers |-> << >>]
    /\ primed' = FALSE /\ empties' = 0 /\ underrun' = FALSE
    /\ recorder' = IF recorder = "on" THEN "stale" ELSE recorder
    /\ UNCHANGED <<talking, cursor, tape, packets, units>>

\* stop_audio_on and on_disconnected clear the indicators too, restart_inbound
\* keeps them; MixingPlayback::stop empties the buffers.
StopPlayback ==
    /\ mixer
    /\ mixer' = FALSE
    /\ decoder' = [s \in Speakers |-> NoDecoder]
    /\ buffers' = [s \in Speakers |-> << >>]
    /\ talking' \in {talking, {}}
    /\ UNCHANGED <<packets, swaps, units>>
    /\ UNCHANGED playbackVars /\ UNCHANGED recorderVars

----------------------------------------------------------------------------
\* Recording.

StartRecording ==
    /\ recorder = "off" /\ mixer
    /\ recorder' = "on"
    /\ cursor' = [s \in Speakers |-> 0]
    /\ tape' = [s \in Speakers |-> BlankTape]
    /\ UNCHANGED <<mixer, decoder, buffers, talking, packets, swaps, units>>
    /\ UNCHANGED playbackVars

StopRecording ==
    /\ recorder # "off"
    /\ recorder' = "off"
    /\ UNCHANGED <<mixer, decoder, buffers, talking, cursor, tape, packets, swaps, units>>
    /\ UNCHANGED playbackVars

\* Mutant: a cursor that overtook the end starts again from the front.
NewFromFront(s) == IF cursor[s] > Len(buffers[s]) THEN 0 ELSE cursor[s]

\* snapshot_and_mix: what lies beyond the cursor is new; a cursor beyond the
\* end moves back to the end.
NewFrom(s) == Min({cursor[s], Len(buffers[s])})

Snapshot ==
    /\ recorder = "on"
    /\ tape' = [s \in Speakers |->
          LET new == [i \in 1..(Len(buffers[s]) - NewFrom(s)) |-> buffers[s][NewFrom(s) + i].id]
          IN IF new = << >> THEN tape[s]
             ELSE [last |-> new[Len(new)],
                   sound |-> /\ tape[s].sound /\ tape[s].last < new[1]
                             /\ \A i \in 2..Len(new) : new[i - 1] < new[i]]]
    /\ cursor' = [s \in Speakers |-> Len(buffers[s])]
    /\ UNCHANGED <<recorder, mixer, decoder, buffers, talking, packets, swaps, units>>
    /\ UNCHANGED playbackVars

MixerNext ==
    \/ \E s \in Speakers, seq \in 0..MaxSeq, n \in 0..MaxFrame, terminator \in BOOLEAN :
          Audio(s, seq, n, terminator)
    \/ Refill \/ StartPlayback \/ StopPlayback
    \/ StartRecording \/ StopRecording \/ Snapshot

MixerSpec == MixerInit /\ [][MixerNext]_mixerVars

----------------------------------------------------------------------------
\* No click is left in a buffer: voice that follows inserted silence, or that
\* a fresh decoder produced first, had its edge smoothed, also when packets
\* fail to decode, streams restart and the buffer overflows in between.
NoHardEdge ==
    \A s \in Speakers : \A i \in 1..Len(buffers[s]) :
        LET u == buffers[s][i] IN
        (u.voice /\ (u.cold \/ (i > 1 /\ ~buffers[s][i - 1].voice))) => u.soft

\* The recorder never writes a sample twice nor out of order, whatever the
\* playback drains and the mixer evicts between two of its visits.
RecordedOnce ==
    \A s \in Speakers : tape[s].sound

=============================================================================
