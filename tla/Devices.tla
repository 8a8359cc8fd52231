------------------------------- MODULE Devices -------------------------------
(***************************************************************************)
(* The audio devices behind the AudioCapture and MixingPlayback traits.    *)
(* PlatformAudioFactory makes a cpal or a rodio device on the desktop, as  *)
(* the setting says at that moment, and an oboe device on Android.  The    *)
(* capture callbacks of cpal and oboe write into a ring buffer, rodio's    *)
(* reader thread into a bounded channel; read_frame of the pipeline takes  *)
(* whole frames.  The playback callbacks of cpal and oboe drain the        *)
(* speaker buffers; rodio's source is part of Mixer.                       *)
(*                                                                         *)
(* A microphone sample is its position in what the hardware recorded, a    *)
(* played sample only what made it: speech, the ramp out of an underrun,   *)
(* or the decay of the last value.                                         *)
(***************************************************************************)
EXTENDS Naturals, Sequences, SequencesExt

CONSTANTS FrameSize,      \* frame_size, 960
          StaleFrames,    \* max_queued in frames, 5
          RingCap,        \* MAX_SAMPLES, 9600
          FeedCap,        \* the channel of rodio's reader, 48000
          Voices,         \* sessions with a speaker buffer
          Enough,         \* PRE_BUFFER_SAMPLES
          MinRamp, MaxRamp,  \* the ramp's clamp, 8 and MAX_RAMP
          SilentCallbacks,   \* REPRIME_AFTER of the cpal callback
          Rates,          \* 48000 over the device rate, as <<numerator, denominator>>
          MaxRecorded,    \* bound: samples recorded
          MaxOpened,      \* bound: devices made
          MaxVoiced       \* bound: samples in a speaker buffer

\* The ramp does not begin with speech, and the ring holds what is not stale.
ASSUME DevicesAssumption ==
    /\ MinRamp \in 2..MaxRamp
    /\ {FrameSize, StaleFrames, RingCap, FeedCap, MaxRamp, MaxRecorded} \subseteq Nat
    /\ FrameSize > 0 /\ StaleFrames > 0 /\ RingCap > StaleFrames * FrameSize

VARIABLES
    platform,       \* the build: "desktop" or "android"
    rodioChosen,    \* USE_RODIO_BACKEND
    mic,            \* the capture device
    recorded,       \* samples the hardware recorded
    handed,         \* the last frame read_frame returned
    speaker,        \* the playback device and the state of its callback
    voiced,         \* SpeakerBuffers, their lengths
    played,         \* what the last callback wrote, after the sample before it
    opened          \* devices made

deviceVars == <<platform, rodioChosen, mic, recorded, handed, speaker, voiced, played, opened>>
captureVars == <<mic, recorded, handed>>
outputVars == <<speaker, voiced, played>>

NoFrame == [samples |-> << >>, since |-> 0, newest |-> 0, kind |-> "none"]
NoDevice == [kind |-> "none", open |-> FALSE, reader |-> FALSE, ring |-> << >>,
             pending |-> << >>, since |-> 0, sequence |-> 0]
NoSpeaker == [kind |-> "none", open |-> FALSE, rate |-> <<1, 1>>, primed |-> FALSE,
              empty |-> 0, underrun |-> FALSE, ramp |-> 0, silent |-> 0]

DevicesInit ==
    /\ platform \in {"desktop", "android"} /\ rodioChosen = TRUE
    /\ mic = NoDevice /\ recorded = 0 /\ handed = NoFrame
    /\ speaker = NoSpeaker /\ voiced = [v \in Voices |-> 0] /\ played = << >>
    /\ opened = 0

\* PlatformAudioFactory: the setting is read when a device is made.
PlatformAudioFactory ==
    IF platform = "android" THEN "oboe" ELSE IF rodioChosen THEN "rodio" ELSE "cpal"

\* The setting may change under a running call.  It has no effect on Android.
set_use_rodio_backend ==
    /\ platform = "desktop"
    /\ rodioChosen' = ~rodioChosen
    /\ UNCHANGED <<platform, opened, captureVars, outputVars>>

----------------------------------------------------------------------------
(* Capture.                                                                *)

\* A cpal device that is gone refuses to be made; rodio falls back to the
\* default device when it starts, and oboe knows no device names.
create_capture ==
    /\ ~mic.open /\ opened < MaxOpened
    /\ opened' = opened + 1
    /\ \E found \in BOOLEAN :
          mic' = IF found \/ PlatformAudioFactory # "cpal"
                 THEN [NoDevice EXCEPT !.kind = PlatformAudioFactory]
                 ELSE NoDevice
    /\ UNCHANGED <<platform, rodioChosen, recorded, handed, outputVars>>

\* cpal and oboe open their stream on the ring buffer they have.  A refusal
\* leaves the device closed.
OpenStream(kind) ==
    /\ mic.kind = kind /\ ~mic.open
    /\ mic' = [mic EXCEPT !.open = TRUE, !.since = recorded]
    /\ UNCHANGED <<platform, rodioChosen, recorded, handed, opened, outputVars>>
CpalStart == OpenStream("cpal")
OboeStart == OpenStream("oboe")

\* rodio starts a reader thread with a new channel and drops what was pending.
RodioStart ==
    /\ mic.kind = "rodio" /\ ~mic.open
    /\ mic' = [mic EXCEPT !.open = TRUE, !.reader = TRUE, !.ring = << >>, !.pending = << >>,
                          !.since = recorded]
    /\ UNCHANGED <<platform, rodioChosen, recorded, handed, opened, outputVars>>

\* The newest n of a sequence.
Newest(s, n) == IF Len(s) > n THEN SubSeq(s, Len(s) - n + 1, Len(s)) ELSE s

\* The input callback: the samples, mixed down to mono, at the end of the
\* ring, which keeps the newest RingCap.
handle_cpal_input ==
    /\ mic.kind \in {"cpal", "oboe"} /\ mic.open
    /\ \E n \in 1..FrameSize + 1 :
          /\ recorded + n <= MaxRecorded
          /\ recorded' = recorded + n
          /\ mic' = [mic EXCEPT !.ring = Newest(@ \o [i \in 1..n |-> recorded + i], RingCap)]
    /\ UNCHANGED <<platform, rodioChosen, handed, opened, outputVars>>

\* rodio's reader waits for room in the channel; the hardware waits with it.
capture_thread ==
    /\ mic.reader /\ Len(mic.ring) < FeedCap /\ recorded < MaxRecorded
    /\ recorded' = recorded + 1
    /\ mic' = [mic EXCEPT !.ring = Append(@, recorded + 1)]
    /\ UNCHANGED <<platform, rodioChosen, handed, opened, outputVars>>

\* The microphone is unplugged: the reader ends.
MicrophoneEnds ==
    /\ mic.reader
    /\ mic' = [mic EXCEPT !.reader = FALSE]
    /\ UNCHANGED <<platform, rodioChosen, recorded, handed, opened, outputVars>>

\* The frame taken from the front of `held`, and what is left.
Hand(held) ==
    handed' = [samples |-> SubSeq(held, 1, FrameSize), since |-> mic.since,
               newest |-> recorded, kind |-> mic.kind]
Rest(held) == SubSeq(held, FrameSize + 1, Len(held))

\* A mistake for read_frame: the queue is never skipped.
WithoutSkip(ring) == ring

\* An encoder that fell behind gets the newest frame, not the oldest.
SkipStale(ring) ==
    IF Len(ring) > StaleFrames * FrameSize THEN Newest(ring, FrameSize) ELSE ring

\* read_frame of cpal and oboe; with too few samples it changes nothing.
RingRead ==
    /\ mic.kind \in {"cpal", "oboe"} /\ Len(mic.ring) >= FrameSize
    /\ Hand(SkipStale(mic.ring))
    /\ mic' = [mic EXCEPT !.ring = Rest(SkipStale(@)), !.sequence = @ + 1]
    /\ UNCHANGED <<platform, rodioChosen, recorded, opened, outputVars>>

\* read_frame of rodio: everything in the channel becomes pending, and a
\* frame is taken if there is one, unless the reader has ended.
RodioRead ==
    LET held == mic.pending \o mic.ring
    IN  /\ mic.kind = "rodio" /\ mic.open
        /\ \/ /\ mic.reader /\ Len(held) >= FrameSize
              /\ Hand(held)
              /\ mic' = [mic EXCEPT !.ring = << >>, !.pending = Rest(held), !.sequence = @ + 1]
           \/ /\ mic.ring # << >> /\ (~mic.reader \/ Len(held) < FrameSize)
              /\ mic' = [mic EXCEPT !.ring = << >>, !.pending = held]
              /\ UNCHANGED handed
        /\ UNCHANGED <<platform, rodioChosen, recorded, opened, outputVars>>

\* stop: the stream is closed and what it left in the buffers is dropped.
StopCapture(kind) ==
    /\ mic.kind = kind /\ mic.open
    /\ mic' = [mic EXCEPT !.open = FALSE, !.reader = FALSE, !.ring = << >>, !.pending = << >>]
    /\ UNCHANGED <<platform, rodioChosen, recorded, handed, opened, outputVars>>
CpalStop == StopCapture("cpal")
OboeStop == StopCapture("oboe")
RodioStop == StopCapture("rodio")

----------------------------------------------------------------------------
(* Playback by callback.                                                   *)

create_mixing_playback ==
    /\ ~speaker.open /\ opened < MaxOpened /\ PlatformAudioFactory # "rodio"
    /\ opened' = opened + 1
    /\ speaker' = [NoSpeaker EXCEPT !.kind = PlatformAudioFactory]
    /\ UNCHANGED <<platform, rodioChosen, captureVars, voiced, played>>

\* start: a stream with a callback in its first state.
OpenPlayback(kind, rate) ==
    /\ speaker.kind = kind /\ ~speaker.open
    /\ speaker' = [NoSpeaker EXCEPT !.kind = kind, !.open = TRUE, !.rate = rate]
    /\ played' = << >>
    /\ UNCHANGED <<platform, rodioChosen, opened, captureVars, voiced>>

\* cpal's stream runs at the rate of the device, oboe asks for 48 kHz.
CpalPlaybackStart == \E r \in Rates : OpenPlayback("cpal", r)
OboePlaybackStart == OpenPlayback("oboe", <<1, 1>>)

\* stop: the stream is closed and the speaker buffers are emptied.
StopStream(kind) ==
    /\ speaker.kind = kind /\ speaker.open
    /\ speaker' = [speaker EXCEPT !.open = FALSE]
    /\ voiced' = [v \in Voices |-> 0]
    /\ UNCHANGED <<platform, rodioChosen, opened, captureVars, played>>
CpalPlaybackStop == StopStream("cpal")
OboePlaybackStop == StopStream("oboe")

\* The mixer pushes decoded samples (AudioMixer::feed).
Speech ==
    /\ \E v \in Voices, n \in 1..FrameSize :
          /\ voiced[v] + n <= MaxVoiced
          /\ voiced' = [voiced EXCEPT ![v] = @ + n]
    /\ UNCHANGED <<platform, rodioChosen, opened, captureVars, speaker, played>>

Least(a, b) == IF a < b THEN a ELSE b
Most(a, b) == IF a > b THEN a ELSE b
Longest(lengths) == Max({lengths[v] : v \in Voices})

\* batch_drain_speakers: every speaker gives what it has, up to `needed`.
batch_drain_speakers(needed) == [v \in Voices |-> voiced[v] - Least(voiced[v], needed)]

\* try_drain_speakers_checked: the buffers are left alone until one of them
\* holds enough; after that they stay primed.
try_drain_speakers_checked(needed) ==
    LET ready == speaker.primed \/ Longest(voiced) >= Enough
    IN  [ready |-> ready,
         valid |-> IF ready THEN Least(Longest(voiced), needed) ELSE 0,
         left  |-> IF ready THEN batch_drain_speakers(needed) ELSE voiced]

\* apply_underrun_ramp: the longer the silence was, the longer the ramp.
apply_underrun_ramp(s) ==
    LET length == Most(s.silent, MinRamp)
    IN  CASE ~s.underrun -> [s EXCEPT !.out = Append(@, "speech")]
          [] s.underrun /\ s.ramp + 1 >= length ->
                [s EXCEPT !.underrun = FALSE, !.ramp = 0, !.silent = 0, !.out = Append(@, "speech")]
          [] OTHER -> [s EXCEPT !.ramp = @ + 1, !.out = Append(@, "ramp")]

\* write_output_frame.  The count of silent samples only matters up to the
\* longest ramp.
write_output_frame(s, heard) ==
    IF heard THEN apply_underrun_ramp(s)
    ELSE [s EXCEPT !.underrun = TRUE, !.ramp = 0, !.silent = Least(@ + 1, MaxRamp),
                   !.out = Append(@, "decay")]

\* A callback writes its output frames one after the other; `heard` says for
\* which of them there is a mixed sample.
Written(s, heard) ==
    LET after[n \in 0..Len(heard)] ==
          IF n = 0 THEN [underrun |-> s.underrun, ramp |-> s.ramp, silent |-> s.silent,
                         out |-> IF played = << >> THEN << >> ELSE <<Last(played)>>]
          ELSE write_output_frame(after[n - 1], heard[n])
    IN  after[Len(heard)]

\* resample_linear: the mixed sample below each output position, if it is valid.
resample_linear(frames, valid) ==
    [i \in 1..frames |-> ((i - 1) * speaker.rate[1]) \div speaker.rate[2] < valid]

\* The output callback of cpal: nothing is drained before the buffers are
\* primed, and a long silence asks for priming again.
CpalCallback(frames) ==
    LET needed == Most(1, (frames * speaker.rate[1] + speaker.rate[2] - 1) \div speaker.rate[2])
        drain == try_drain_speakers_checked(needed)
        empty == IF ~drain.ready THEN speaker.empty
                 ELSE IF drain.valid = 0 THEN Least(speaker.empty + 1, SilentCallbacks) ELSE 0
        w == Written(speaker, resample_linear(frames, drain.valid))
    IN  /\ speaker.kind = "cpal" /\ speaker.open
        /\ speaker' = [speaker EXCEPT !.primed = drain.ready /\ empty < SilentCallbacks,
                                      !.empty = empty, !.underrun = w.underrun,
                                      !.ramp = w.ramp, !.silent = w.silent]
        /\ voiced' = drain.left
        /\ played' = w.out
        /\ UNCHANGED <<platform, rodioChosen, opened, captureVars>>

\* The output callback of oboe: one sample of every speaker at a time, no
\* priming and no ramp.
OboeCallback(frames) ==
    /\ speaker.kind = "oboe" /\ speaker.open
    /\ voiced' = batch_drain_speakers(frames)
    /\ played' = [i \in 1..frames |-> IF i <= Longest(voiced) THEN "speech" ELSE "decay"]
    /\ UNCHANGED <<platform, rodioChosen, opened, captureVars, speaker>>

CaptureNext ==
    \/ set_use_rodio_backend \/ create_capture \/ CpalStart \/ OboeStart \/ RodioStart
    \/ handle_cpal_input \/ capture_thread \/ MicrophoneEnds
    \/ RingRead \/ RodioRead \/ CpalStop \/ OboeStop \/ RodioStop

OutputNext ==
    \/ set_use_rodio_backend \/ create_mixing_playback
    \/ CpalPlaybackStart \/ OboePlaybackStart \/ CpalPlaybackStop \/ OboePlaybackStop
    \/ Speech
    \/ \E frames \in 1..FrameSize + 1 : CpalCallback(frames) \/ OboeCallback(frames)

DevicesNext == CaptureNext \/ OutputNext

DevicesSpec == DevicesInit /\ [][DevicesNext]_deviceVars

----------------------------------------------------------------------------
\* A frame given to the encoder is one stretch of sound, recorded since the
\* device was last started, and from a callback device never older than the
\* backlog read_frame tolerates: neither an unmute nor a stalled encoder
\* sends what was said long before.
FramesCurrent ==
    handed # NoFrame =>
        /\ \A i \in 1..FrameSize : handed.samples[i] = handed.samples[1] + i - 1
        /\ handed.samples[1] > handed.since
        /\ handed.kind # "rodio" => handed.newest - handed.samples[1] < StaleFrames * FrameSize

\* After an underrun the cpal callback never jumps from the decaying value
\* back to speech: the ramp is between them, whatever the rate of the device
\* and however the samples trickle in.
RampsBack ==
    speaker.kind = "cpal" =>
        \A i \in 1..Len(played) - 1 : ~(played[i] = "decay" /\ played[i + 1] = "speech")
=============================================================================
