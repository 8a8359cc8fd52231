---------------------------- MODULE Media_proofs ----------------------------
(***************************************************************************)
(* The media side for every frame size, buffer, hold time and number of    *)
(* packets: the outbound microphone path, the audio devices, the inbound   *)
(* mixer with its recorder, and the voice commands.  Each component has an *)
(* inductive invariant of its own.                                         *)
(***************************************************************************)
EXTENDS MCMedia, SequenceTheorems, WellFoundedInduction, TLAPS

-----------------------------------------------------------------------------
(* Microphone.  The invariant follows a frame through the path: the gate's *)
(* hold counts down what the still frames count up, only an open gate lets *)
(* speech through, and the last packet on its way says whether speech goes *)
(* on.                                                                     *)

Packets == [seq : Nat, end : BOOLEAN, call : Nat]

MicTypes ==
    /\ loop \in {"off", "starting", "on"}
    /\ gate \in {"Closed", "Open"} /\ hold \in Nat /\ calm \in Nat
    /\ gated \in BOOLEAN /\ wasTalking \in BOOLEAN /\ skipped \in BOOLEAN
    /\ chopped \in BOOLEAN /\ shown \in BOOLEAN
    /\ channel \in Seq(Packets) /\ wire \in Packets
    /\ sequence \in Nat /\ frames \in Nat /\ calls \in Nat

\* An open gate has counted down one frame of its hold per still frame.
HoldCounts == gate = "Open" => hold + calm = HoldFrames

\* A chain with a gate passes speech only while the gate is open; without one
\* the gate is never touched.
GateSpeaks == IF gated THEN gate = "Closed" => ~wasTalking ELSE gate = "Closed"

\* The last packet given to the channel: the one in it, or the one sent.
LastPacket == IF channel = << >> THEN wire ELSE channel[Len(channel)]

\* Unless something was lost, it says whether speech goes on.
SpeechFollowed == (loop # "off" /\ ~skipped) => (LastPacket.end <=> ~wasTalking)

\* Nothing was sent, or shown, while the device was starting.
StartsQuiet == (loop = "starting" /\ ~skipped) => ~wasTalking

MicInv ==
    /\ MicTypes /\ HoldCounts /\ GateSpeaks /\ SpeechFollowed /\ StartsQuiet
    /\ IndicatorHonest /\ ~chopped

-----------------------------------------------------------------------------
\* The six answers of the gate.
LEMMA GateCases ==
    ASSUME MicTypes, NEW level \in Levels
    PROVE  \/ /\ ~gated
              /\ Gate(level) = [gate |-> gate, hold |-> hold, silent |-> FALSE]
           \/ /\ gated /\ gate = "Closed" /\ level = "loud"
              /\ Gate(level) = [gate |-> "Open", hold |-> HoldFrames, silent |-> FALSE]
           \/ /\ gated /\ gate = "Closed" /\ level # "loud"
              /\ Gate(level) = [gate |-> "Closed", hold |-> hold, silent |-> TRUE]
           \/ /\ gated /\ gate = "Open" /\ level # "still"
              /\ Gate(level) = [gate |-> "Open", hold |-> HoldFrames, silent |-> FALSE]
           \/ /\ gated /\ gate = "Open" /\ level = "still" /\ hold > 0
              /\ Gate(level) = [gate |-> "Open", hold |-> hold - 1, silent |-> FALSE]
           \/ /\ gated /\ gate = "Open" /\ level = "still" /\ hold = 0
              /\ Gate(level) = [gate |-> "Closed", hold |-> 0, silent |-> TRUE]
<1>1. CASE ~gated
  BY <1>1 DEF Gate
<1>2. CASE gated /\ gate = "Closed" /\ level = "loud"
  BY <1>2 DEF Gate
<1>3. CASE gated /\ gate = "Closed" /\ level # "loud"
  BY <1>3 DEF Gate
<1>4. CASE gated /\ gate = "Open" /\ level # "still"
  BY <1>4 DEF Gate, Renewed
<1>5. CASE gated /\ gate = "Open" /\ level = "still" /\ hold > 0
  BY <1>5 DEF Gate
<1>6. CASE gated /\ gate = "Open" /\ level = "still" /\ hold = 0
  BY <1>6 DEF Gate
<1>7. hold > 0 \/ hold = 0
  BY DEF MicTypes
<1>8. gate = "Closed" \/ gate = "Open"
  BY DEF MicTypes
<1> QED
  BY <1>1, <1>2, <1>3, <1>4, <1>5, <1>6, <1>7, <1>8

\* What a frame does to the gate: the hold time is kept, and speech needs an
\* open gate.
LEMMA GateKept ==
    ASSUME MicTypes, HoldCounts, GateSpeaks, NEW level \in Levels, Tick(level), gated' = gated
    PROVE  /\ gate' \in {"Closed", "Open"} /\ hold' \in Nat /\ calm' \in Nat
           /\ wasTalking' \in BOOLEAN /\ frames' \in Nat
           /\ HoldCounts' /\ GateSpeaks'
<1>1. /\ frames > 0 /\ frames' = frames - 1
      /\ gate' = Gate(level).gate /\ hold' = Gate(level).hold
      /\ wasTalking' = ~Gate(level).silent
      /\ calm' = IF level = "still" THEN calm + 1 ELSE 0
  BY DEF Tick
<1>2. frames' \in Nat /\ calm' \in Nat /\ (level # "still" => calm' = 0)
  BY <1>1 DEF MicTypes
<1>3. \/ ~gated /\ gate' = gate /\ hold' = hold
      \/ gated /\ gate' = "Open" /\ hold' = HoldFrames /\ level # "still"
      \/ gated /\ gate' = "Closed" /\ (hold' = hold \/ hold' = 0)
      \/ gated /\ gate = "Open" /\ gate' = "Open" /\ hold > 0 /\ hold' = hold - 1 /\ level = "still"
  BY <1>1, GateCases DEF Levels
<1>4. gate' \in {"Closed", "Open"} /\ hold' \in Nat
  BY <1>3, HoldIsNat DEF MicTypes
<1>5. HoldCounts'
  <2> SUFFICES ASSUME gate' = "Open" PROVE hold' + calm' = HoldFrames
    BY DEF HoldCounts
  <2>1. CASE ~gated /\ gate' = gate
    BY <2>1 DEF GateSpeaks
  <2>2. CASE hold' = HoldFrames /\ level # "still"
    BY <1>2, <2>2, HoldIsNat
  <2>3. CASE gate = "Open" /\ hold' = hold - 1 /\ level = "still"
    BY <1>1, <2>3 DEF HoldCounts, MicTypes
  <2> QED
    BY <1>3, <2>1, <2>2, <2>3
<1>6. wasTalking' \in BOOLEAN
  BY <1>1
<1>7. GateSpeaks'
  <2>1. CASE gated
    <3>1. Gate(level).gate = "Closed" => Gate(level).silent = TRUE
      BY <2>1, GateCases
    <3>2. gate' = "Closed" => ~wasTalking'
      BY <1>1, <3>1
    <3> QED
      BY <2>1, <3>2 DEF GateSpeaks
  <2>2. CASE ~gated
    <3>1. gate' = "Closed"
      BY <1>3, <2>2 DEF GateSpeaks
    <3> QED
      BY <2>2, <3>1 DEF GateSpeaks
  <2> QED
    BY <2>1, <2>2
<1> QED
  BY <1>2, <1>4, <1>5, <1>6, <1>7

\* A frame that ends speech is one more still frame than the hold time.
LEMMA EndIsLate ==
    ASSUME MicTypes, HoldCounts, GateSpeaks, NEW level \in Levels, Tick(level),
           Kind(Gate(level).silent) = "terminator"
    PROVE  ~(calm' <= HoldFrames)
<1>1. wasTalking /\ Gate(level).silent
  BY DEF Kind
<1>2. gate = "Open" /\ level = "still" /\ hold = 0
  BY <1>1, GateCases DEF GateSpeaks
<1>3. calm' = calm + 1 /\ calm = HoldFrames
  BY <1>2, HoldIsNat DEF Tick, HoldCounts, MicTypes
<1> QED
  BY <1>3, HoldIsNat

\* The kind of a frame says whether speech goes on.
LEMMA KindFacts ==
    ASSUME NEW level \in Levels, Tick(level)
    PROVE  /\ Kind(Gate(level).silent) \in {"audio", "terminator", "silence"}
           /\ (Kind(Gate(level).silent) = "audio") <=> wasTalking'
           /\ Kind(Gate(level).silent) = "silence" => ~wasTalking
BY Zenon DEF Kind, Tick

-----------------------------------------------------------------------------
\* The loop's own steps on a frame keep the invariant.
LEMMA FrameKept ==
    ASSUME MicInv, NEW level \in Levels,
           ProcessTick(level) \/ EncodeFails(level) \/ DiscardTick(level)
    PROVE  MicInv'
<1>1. Tick(level) /\ gated' = gated /\ loop' = loop /\ UNCHANGED <<wire, calls>>
  BY DEF ProcessTick, EncodeFails, DiscardTick
<1>2. MicTypes /\ HoldCounts /\ GateSpeaks
  BY DEF MicInv
<1>3. /\ gate' \in {"Closed", "Open"} /\ hold' \in Nat /\ calm' \in Nat
      /\ wasTalking' \in BOOLEAN /\ frames' \in Nat
      /\ HoldCounts' /\ GateSpeaks'
  BY <1>1, <1>2, GateKept
<1>4. /\ Kind(Gate(level).silent) \in {"audio", "terminator", "silence"}
      /\ (Kind(Gate(level).silent) = "audio") <=> wasTalking'
      /\ Kind(Gate(level).silent) = "silence" => ~wasTalking
  BY <1>1, KindFacts
<1>5. CASE EncodeFails(level) \/ DiscardTick(level)
  <2>1. /\ UNCHANGED <<shown, channel, chopped>>
        /\ sequence' = sequence \/ sequence' = sequence + 1
    BY <1>5 DEF EncodeFails, DiscardTick
  <2>2. skipped' \in BOOLEAN
    BY <1>5 DEF EncodeFails, DiscardTick
  <2>3. MicTypes'
    <3>1. sequence' \in Nat
      BY <1>2, <2>1 DEF MicTypes
    <3> QED
      BY <1>1, <1>2, <1>3, <2>1, <2>2, <3>1 DEF MicTypes
  <2>4. \/ skipped' = TRUE
        \/ skipped' = skipped /\ Kind(Gate(level).silent) = "silence"
    BY <1>2, <1>5, Zenon DEF EncodeFails, DiscardTick, Encodes, MicTypes
  <2>5. ~skipped' => ~skipped /\ wasTalking' = FALSE /\ wasTalking = FALSE
    BY <1>2, <1>3, <1>4, <2>4, Zenon DEF MicTypes
  <2>6. SpeechFollowed' /\ StartsQuiet' /\ IndicatorHonest' /\ ~chopped'
    BY <1>1, <2>1, <2>5
    DEF MicInv, SpeechFollowed, StartsQuiet, IndicatorHonest, LastPacket
  <2> QED
    BY <1>3, <2>3, <2>6 DEF MicInv
<1>6. CASE ProcessTick(level) /\ Kind(Gate(level).silent) = "silence"
  <2>1. loop = "on" /\ UNCHANGED <<sequence, shown, channel, chopped, skipped>>
    BY <1>6 DEF ProcessTick
  <2>2. MicTypes'
    BY <1>1, <1>2, <1>3, <2>1 DEF MicTypes
  <2>3. wasTalking' = FALSE /\ wasTalking = FALSE
    BY <1>2, <1>3, <1>4, <1>6, Zenon DEF MicTypes
  <2>4. SpeechFollowed' /\ StartsQuiet' /\ IndicatorHonest' /\ ~chopped'
    BY <1>1, <2>1, <2>3
    DEF MicInv, SpeechFollowed, StartsQuiet, IndicatorHonest, LastPacket
  <2> QED
    BY <1>3, <2>2, <2>4 DEF MicInv
<1>7. CASE ProcessTick(level) /\ Kind(Gate(level).silent) # "silence"
  <2> DEFINE kind == Kind(Gate(level).silent)
             packet == [seq |-> sequence, end |-> kind = "terminator", call |-> calls]
  <2>1. /\ loop = "on" /\ sequence' = sequence + 1 /\ shown' = (kind = "audio")
        /\ chopped' = (chopped \/ (kind = "terminator" /\ calm' <= HoldFrames))
        /\ \/ channel' = Append(channel, packet) /\ skipped' = skipped
           \/ skipped' = TRUE /\ channel' = channel
    BY <1>7 DEF ProcessTick
  <2>2. packet \in Packets /\ (packet.end <=> kind = "terminator")
    BY <1>2 DEF Packets, MicTypes
  <2>3. chopped' = FALSE
    <3>1. ~(kind = "terminator" /\ calm' <= HoldFrames)
      BY <1>1, <1>2, EndIsLate
    <3>2. chopped = FALSE
      BY <1>2 DEF MicInv, MicTypes
    <3> QED
      BY <2>1, <3>1, <3>2, Zenon
  <2>4. (kind = "terminator") <=> ~wasTalking'
    BY <1>4, <1>7
  <2>5. shown' = wasTalking'
    BY <1>3, <1>4, <2>1, Zenon
  <2> HIDE DEF packet, kind
  <2>6. sequence' \in Nat /\ channel' \in Seq(Packets) /\ skipped' \in BOOLEAN
    <3>1. sequence' \in Nat
      BY <1>2, <2>1 DEF MicTypes
    <3>2. channel' \in Seq(Packets)
      BY <1>2, <2>1, <2>2 DEF MicTypes
    <3>3. skipped' \in BOOLEAN
      BY <1>2, <2>1 DEF MicTypes
    <3> QED
      BY <3>1, <3>2, <3>3
  <2>7. MicTypes'
    BY <1>1, <1>2, <1>3, <2>3, <2>5, <2>6 DEF MicTypes
  <2>8. SpeechFollowed'
    <3> SUFFICES ASSUME ~skipped' PROVE LastPacket'.end <=> ~wasTalking'
      BY DEF SpeechFollowed
    <3>1. channel' = Append(channel, packet)
      BY <2>1
    <3>2. channel' # << >> /\ channel'[Len(channel')] = packet
      BY <1>2, <2>2, <3>1 DEF MicTypes
    <3>3. LastPacket' = packet
      BY <3>2 DEF LastPacket
    <3> QED
      BY <2>2, <2>4, <3>3
  <2>9. StartsQuiet' /\ IndicatorHonest' /\ ~chopped'
    BY <1>1, <2>1, <2>3, <2>5 DEF StartsQuiet, IndicatorHonest
  <2> QED
    BY <1>3, <2>7, <2>8, <2>9 DEF MicInv
<1> QED
  BY <1>5, <1>6, <1>7

\* Starting, ending and sending keep the invariant.
LEMMA CallKept ==
    ASSUME MicInv, StartCapture \/ Started \/ LoopEnds \/ SendPacket
    PROVE  MicInv'
<1>1. MicTypes
  BY DEF MicInv
<1>2. CASE StartCapture
  <2>1. NoPacket \in Packets
    BY DEF NoPacket, Packets
  <2>2. calls' \in Nat
    BY <1>1, <1>2 DEF StartCapture, MicTypes
  <2>3. MicTypes'
    BY <1>1, <1>2, <2>1, <2>2 DEF StartCapture, MicTypes
  <2>4. SpeechFollowed'
    BY <1>2 DEF StartCapture, SpeechFollowed, LastPacket, NoPacket
  <2>5. HoldCounts' /\ GateSpeaks' /\ StartsQuiet' /\ IndicatorHonest' /\ ~chopped'
    BY <1>1, <1>2 DEF StartCapture, HoldCounts, GateSpeaks, StartsQuiet, IndicatorHonest, MicInv,
                      MicTypes
  <2> QED
    BY <2>3, <2>4, <2>5 DEF MicInv
<1>3. CASE Started
  <2>1. MicTypes' /\ HoldCounts' /\ GateSpeaks' /\ StartsQuiet' /\ ~chopped'
    BY <1>1, <1>3 DEF Started, MicTypes, HoldCounts, GateSpeaks, StartsQuiet, MicInv
  <2>2. SpeechFollowed'
    BY <1>3 DEF Started, SpeechFollowed, LastPacket, MicInv
  <2>3. IndicatorHonest'
    BY <1>3 DEF Started, IndicatorHonest, StartsQuiet, MicInv
  <2> QED
    BY <2>1, <2>2, <2>3 DEF MicInv
<1>4. CASE LoopEnds
  <2>1. MicTypes' /\ HoldCounts' /\ GateSpeaks' /\ StartsQuiet' /\ ~chopped'
    BY <1>1, <1>4 DEF LoopEnds, MicTypes, HoldCounts, GateSpeaks, StartsQuiet, MicInv
  <2>2. SpeechFollowed' /\ IndicatorHonest'
    BY <1>4 DEF LoopEnds, SpeechFollowed, IndicatorHonest
  <2> QED
    BY <2>1, <2>2 DEF MicInv
<1>5. CASE SendPacket
  <2>1. /\ channel # << >> /\ channel' = Tail(channel)
        /\ \/ wire' = Head(channel) /\ skipped' = skipped
           \/ skipped' = TRUE /\ wire' = wire
        /\ UNCHANGED <<loop, gate, hold, gated, wasTalking, sequence, shown, calm, chopped,
                       frames, calls>>
    BY <1>5 DEF SendPacket
  <2>2. /\ Len(channel) \in Nat /\ Len(channel) > 0 /\ Head(channel) = channel[1]
        /\ Head(channel) \in Packets
        /\ channel' \in Seq(Packets) /\ Len(channel') = Len(channel) - 1
        /\ \A i \in 1..(Len(channel) - 1) : channel'[i] = channel[i + 1]
    BY <1>1, <2>1 DEF MicTypes
  <2>3. MicTypes'
    BY <1>1, <2>1, <2>2 DEF MicTypes
  <2>4. HoldCounts' /\ GateSpeaks' /\ ~chopped'
    BY <2>1 DEF MicInv, HoldCounts, GateSpeaks
  <2>5. ~skipped' => ~skipped /\ wire' = Head(channel)
    BY <2>1
  <2>6. StartsQuiet' /\ IndicatorHonest'
    BY <2>1, <2>5 DEF MicInv, StartsQuiet, IndicatorHonest
  <2>7. ~skipped' => LastPacket' = LastPacket
    <3>1. CASE channel' = << >>
      <4>1. Len(channel) = 1
        BY <2>2, <3>1
      <4> QED
        BY <2>1, <2>2, <2>5, <3>1, <4>1 DEF LastPacket
    <3>2. CASE channel' # << >>
      <4>1. Len(channel') > 0 /\ Len(channel') \in 1..(Len(channel) - 1)
        BY <2>2, <3>2
      <4>2. channel'[Len(channel')] = channel[Len(channel)]
        BY <2>2, <4>1
      <4> QED
        BY <2>1, <3>2, <4>2 DEF LastPacket
    <3> QED
      BY <3>1, <3>2
  <2>8. SpeechFollowed'
    BY <2>1, <2>5, <2>7 DEF MicInv, SpeechFollowed
  <2> QED
    BY <2>3, <2>4, <2>6, <2>8 DEF MicInv
<1> QED
  BY <1>2, <1>3, <1>4, <1>5

\* The types and counts of the first state; nothing is captured there.
LEMMA InvariantHoldsAtFirst == MicInit => MicInv
<1> SUFFICES ASSUME MicInit PROVE MicInv
  OBVIOUS
<1>1. MicTypes
  <2>1. NoPacket \in Packets /\ << >> \in Seq(Packets)
    BY DEF Packets, NoPacket
  <2>2. frames \in Nat /\ calls \in Nat
    BY BoundsAreNat DEF MicInit
  <2> QED
    BY <2>1, <2>2 DEF MicInit, MicTypes
<1>2. HoldCounts /\ GateSpeaks /\ SpeechFollowed /\ StartsQuiet /\ IndicatorHonest /\ ~chopped
  BY DEF MicInit, HoldCounts, GateSpeaks, SpeechFollowed, StartsQuiet, IndicatorHonest
<1> QED
  BY <1>1, <1>2 DEF MicInv

\* Every step keeps the invariant.
LEMMA InvariantKept == MicInv /\ [MicNext]_micVars => MicInv'
<1> SUFFICES ASSUME MicInv, [MicNext]_micVars PROVE MicInv'
  OBVIOUS
<1>1. CASE UNCHANGED micVars
  BY <1>1 DEF micVars, MicInv, MicTypes, HoldCounts, GateSpeaks, SpeechFollowed, LastPacket,
              StartsQuiet, IndicatorHonest
<1>2. CASE StartCapture \/ Started \/ LoopEnds \/ SendPacket
  BY <1>2, CallKept
<1>3. ASSUME NEW level \in Levels, ProcessTick(level) \/ EncodeFails(level) \/ DiscardTick(level)
      PROVE  MicInv'
  BY <1>3, FrameKept
<1> QED
  BY <1>1, <1>2, <1>3 DEF MicNext

\* The talking indicator never outlives the capture loop, and follows speech.
THEOREM IndicatorCorrect == MicSpec => []IndicatorHonest
<1>1. MicInv => IndicatorHonest
  BY DEF MicInv
<1> QED
  BY <1>1, InvariantHoldsAtFirst, InvariantKept, PTL DEF MicSpec

\* Speech that was sent without a loss ends with a terminator, and no
\* terminator is sent for a pause the hold time bridges.
THEOREM SpeechEndsCorrect == MicSpec => []SpeechEnds
<1>1. MicInv => SpeechEnds
  BY DEF MicInv, SpeechEnds, SpeechFollowed, LastPacket
<1> QED
  BY <1>1, InvariantHoldsAtFirst, InvariantKept, PTL DEF MicSpec
-----------------------------------------------------------------------------
(* Capture devices.  The invariant: what a device holds are the samples    *)
(* recorded last, without a gap, and all of them since it was started.     *)

\* A stretch of sound that ends with the sample recorded as number n.
EndsAt(s, n) == \A i \in 1..Len(s) : s[i] = n - Len(s) + i

CaptureTypes ==
    /\ recorded \in Nat
    /\ mic.open \in BOOLEAN /\ mic.reader \in BOOLEAN
    /\ mic.ring \in Seq(Nat) /\ mic.pending \in Seq(Nat)
    /\ mic.since \in Nat
    /\ mic = [kind |-> mic.kind, open |-> mic.open, reader |-> mic.reader, ring |-> mic.ring,
              pending |-> mic.pending, since |-> mic.since, sequence |-> mic.sequence]

\* Only rodio has a reader and pending samples; a closed device holds nothing.
CaptureShape ==
    /\ mic.reader => mic.kind = "rodio" /\ mic.open
    /\ mic.kind # "rodio" => mic.pending = << >>
    /\ ~mic.open => mic.ring = << >> /\ mic.pending = << >>

HoldsNewest ==
    /\ mic.since + Len(mic.ring) + Len(mic.pending) <= recorded
    /\ EndsAt(mic.ring, recorded)
    /\ EndsAt(mic.pending, recorded - Len(mic.ring))

CaptureInv == CaptureTypes /\ CaptureShape /\ HoldsNewest /\ FramesCurrent

\* The newest samples of a stretch are a stretch that ends where it did.
LEMMA NewestEnds ==
    ASSUME NEW s \in Seq(Nat), NEW n \in Nat, NEW m \in Nat, EndsAt(s, m)
    PROVE  /\ Newest(s, n) \in Seq(Nat)
           /\ Len(Newest(s, n)) = IF Len(s) > n THEN n ELSE Len(s)
           /\ EndsAt(Newest(s, n), m)
<1>1. CASE Len(s) <= n BY <1>1 DEF Newest
<1>2. CASE Len(s) > n
  <2> DEFINE r == SubSeq(s, Len(s) - n + 1, Len(s))
  <2>1. /\ Len(s) \in Nat /\ Len(s) - n + 1 \in 1..(Len(s) + 1)
        /\ \A i \in 1..Len(s) : s[i] \in Nat
    BY <1>2
  <2>2. r \in Seq(Nat) BY <2>1
  <2>3. Len(r) = n BY <1>2, <2>1
  <2>4. \A i \in 1..n : r[i] = s[Len(s) - n + i] BY <1>2, <2>1
  <2>5. Newest(s, n) = r BY <1>2 DEF Newest
  <2> HIDE DEF r
  <2>6. \A i \in 1..n : Len(s) - n + i \in 1..Len(s) BY <1>2, <2>1
  <2>7. \A i \in 1..n : r[i] = m - n + i
    <3> SUFFICES ASSUME NEW i \in 1..n PROVE r[i] = m - n + i OBVIOUS
    <3>1. s[Len(s) - n + i] = m - Len(s) + (Len(s) - n + i) BY <2>6 DEF EndsAt
    <3> QED BY <2>1, <2>4, <3>1
  <2> QED BY <1>2, <2>2, <2>3, <2>5, <2>7 DEF EndsAt
<1> QED BY <1>1, <1>2

\* What is left after a frame was taken from the front, and the frame.
LEMMA RestEnds ==
    ASSUME NEW s \in Seq(Nat), NEW m \in Nat, EndsAt(s, m), Len(s) >= FrameSize
    PROVE  /\ Rest(s) \in Seq(Nat) /\ Len(Rest(s)) = Len(s) - FrameSize /\ EndsAt(Rest(s), m)
           /\ \A i \in 1..FrameSize : SubSeq(s, 1, FrameSize)[i] = m - Len(s) + i
<1> DEFINE r == SubSeq(s, FrameSize + 1, Len(s))
<1>0. FrameSize \in Nat BY DevicesAssumption
<1>1. Len(s) \in Nat /\ \A i \in 1..Len(s) : s[i] \in Nat OBVIOUS
<1>2. r \in Seq(Nat) BY <1>0, <1>1
<1>3. Len(r) = Len(s) - FrameSize BY <1>0, <1>1
<1>4. \A i \in 1..(Len(s) - FrameSize) : r[i] = s[FrameSize + i] BY <1>0, <1>1
<1>5. Rest(s) = r BY DEF Rest
<1> HIDE DEF r
<1>6. \A i \in 1..(Len(s) - FrameSize) : r[i] = m - (Len(s) - FrameSize) + i
  <2> SUFFICES ASSUME NEW i \in 1..(Len(s) - FrameSize) PROVE r[i] = m - (Len(s) - FrameSize) + i
    OBVIOUS
  <2>1. FrameSize + i \in 1..Len(s) BY <1>0, <1>1
  <2>2. s[FrameSize + i] = m - Len(s) + (FrameSize + i) BY <2>1 DEF EndsAt
  <2> QED BY <1>0, <1>1, <1>4, <2>2
<1>7. \A i \in 1..FrameSize : SubSeq(s, 1, FrameSize)[i] = s[i] /\ i \in 1..Len(s) BY <1>0, <1>1
<1>8. \A i \in 1..FrameSize : s[i] = m - Len(s) + i BY <1>7 DEF EndsAt
<1> QED BY <1>2, <1>3, <1>5, <1>6, <1>7, <1>8 DEF EndsAt

\* Two stretches of which the second goes on where the first ends.
LEMMA JoinEnds ==
    ASSUME NEW a \in Seq(Nat), NEW b \in Seq(Nat), NEW m \in Nat,
           EndsAt(b, m), EndsAt(a, m - Len(b)), Len(a) + Len(b) <= m
    PROVE  a \o b \in Seq(Nat) /\ Len(a \o b) = Len(a) + Len(b) /\ EndsAt(a \o b, m)
<1> DEFINE c == a \o b
<1>1. Len(a) \in Nat /\ Len(b) \in Nat OBVIOUS
<1>2. /\ c \in Seq(Nat) /\ Len(c) = Len(a) + Len(b)
      /\ \A i \in 1..(Len(a) + Len(b)) : c[i] = IF i <= Len(a) THEN a[i] ELSE b[i - Len(a)]
  BY ConcatProperties
<1> HIDE DEF c
<1>3. ASSUME NEW i \in 1..(Len(a) + Len(b)) PROVE c[i] = m - (Len(a) + Len(b)) + i
  <2>1. CASE i <= Len(a)
    <3>1. i \in 1..Len(a) BY <1>1, <2>1
    <3>2. a[i] = m - Len(b) - Len(a) + i BY <3>1 DEF EndsAt
    <3> QED BY <1>1, <1>2, <2>1, <3>2
  <2>2. CASE ~(i <= Len(a))
    <3>1. i - Len(a) \in 1..Len(b) BY <1>1, <2>2
    <3>2. b[i - Len(a)] = m - Len(b) + (i - Len(a)) BY <3>1 DEF EndsAt
    <3> QED BY <1>1, <1>2, <2>2, <3>2
  <2> QED BY <2>1, <2>2
<1> QED BY <1>2, <1>3 DEF EndsAt, c

\* The backlog read_frame tolerates is at least a frame.
LEMMA BacklogHoldsFrame == StaleFrames * FrameSize \in Nat /\ FrameSize <= StaleFrames * FrameSize
<1>1. FrameSize \in Nat /\ StaleFrames \in Nat /\ StaleFrames >= 1 BY DevicesAssumption
<1>2. ASSUME NEW a \in Nat, NEW b \in Nat, a >= 1 PROVE a * b \in Nat /\ b <= a * b
  <2>1. PICK c \in Nat : a = c + 1 BY <1>2
  <2>2. a * b = c * b + b BY <2>1
  <2>3. c * b \in Nat BY <2>1
  <2> QED BY <2>2, <2>3
<1> QED BY <1>1, <1>2

\* A device that holds nothing.
LEMMA EmptyKept ==
    ASSUME CaptureInv, UNCHANGED <<recorded, handed>>,
           mic'.ring = << >>, mic'.pending = << >>,
           mic'.open \in BOOLEAN, mic'.reader \in BOOLEAN, mic'.since \in Nat, mic'.since <= recorded,
           mic'.reader => mic'.kind = "rodio" /\ mic'.open,
           mic' = [kind |-> mic'.kind, open |-> mic'.open, reader |-> mic'.reader, ring |-> mic'.ring,
                   pending |-> mic'.pending, since |-> mic'.since, sequence |-> mic'.sequence]
    PROVE  CaptureInv'
<1>1. << >> \in Seq(Nat) /\ Len(<< >>) = 0 OBVIOUS
<1>2. CaptureTypes' BY <1>1 DEF CaptureInv, CaptureTypes
<1>3. CaptureShape' BY DEF CaptureShape
<1>4. recorded' \in Nat /\ Len(mic'.ring) = 0 /\ Len(mic'.pending) = 0
  BY <1>1 DEF CaptureInv, CaptureTypes
<1>5. EndsAt(mic'.ring, recorded') /\ EndsAt(mic'.pending, recorded' - Len(mic'.ring))
  BY <1>4 DEF EndsAt
<1>6. HoldsNewest' BY <1>4, <1>5 DEF HoldsNewest
<1>7. FramesCurrent' BY DEF CaptureInv, FramesCurrent
<1> QED BY <1>2, <1>3, <1>6, <1>7 DEF CaptureInv

\* Making, starting and stopping a device.
LEMMA DevicesKept ==
    ASSUME CaptureInv,
           \/ set_use_rodio_backend \/ create_capture \/ CpalStart \/ OboeStart \/ RodioStart
           \/ MicrophoneEnds \/ CpalStop \/ OboeStop \/ RodioStop
    PROVE  CaptureInv'
<1> USE DEF CaptureInv
<1>1. CASE set_use_rodio_backend
  BY <1>1 DEF set_use_rodio_backend, captureVars, CaptureTypes, CaptureShape, HoldsNewest, FramesCurrent
<1>2. CASE create_capture
  <2>1. PICK k : mic' = [NoDevice EXCEPT !.kind = k]
    <3>1. NoDevice = [NoDevice EXCEPT !.kind = "none"] BY DEF NoDevice
    <3> QED BY <1>2, <3>1 DEF create_capture
  <2>2. mic' = [kind |-> k, open |-> FALSE, reader |-> FALSE, ring |-> << >>,
                pending |-> << >>, since |-> 0, sequence |-> 0]
    BY <2>1 DEF NoDevice
  <2>3. recorded \in Nat /\ 0 <= recorded BY DEF CaptureTypes
  <2>4. UNCHANGED <<recorded, handed>> BY <1>2 DEF create_capture
  <2> QED BY <2>2, <2>3, <2>4, EmptyKept
<1>3. ASSUME NEW k, OpenStream(k), k # "rodio" PROVE CaptureInv'
  <2>1. mic' = [kind |-> mic.kind, open |-> TRUE, reader |-> mic.reader, ring |-> mic.ring,
                pending |-> mic.pending, since |-> recorded, sequence |-> mic.sequence]
    BY <1>3 DEF OpenStream, CaptureTypes
  <2>2. mic.ring = << >> /\ mic.pending = << >> /\ ~mic.reader
    BY <1>3 DEF OpenStream, CaptureShape, CaptureTypes
  <2>3. recorded \in Nat BY DEF CaptureTypes
  <2>4. UNCHANGED <<recorded, handed>> BY <1>3 DEF OpenStream
  <2>5. mic.reader \in BOOLEAN BY DEF CaptureTypes
  <2> QED BY <2>1, <2>2, <2>3, <2>4, <2>5, EmptyKept
<1>4. CASE RodioStart
  <2>1. mic' = [kind |-> "rodio", open |-> TRUE, reader |-> TRUE, ring |-> << >>,
                pending |-> << >>, since |-> recorded, sequence |-> mic.sequence]
    BY <1>4 DEF RodioStart, CaptureTypes
  <2>2. recorded \in Nat BY DEF CaptureTypes
  <2>3. UNCHANGED <<recorded, handed>> BY <1>4 DEF RodioStart
  <2> QED BY <2>1, <2>2, <2>3, EmptyKept
<1>5. CASE MicrophoneEnds
  <2>1. mic' = [kind |-> mic.kind, open |-> mic.open, reader |-> FALSE, ring |-> mic.ring,
                pending |-> mic.pending, since |-> mic.since, sequence |-> mic.sequence]
    BY <1>5 DEF MicrophoneEnds, CaptureTypes
  <2>2. UNCHANGED <<recorded, handed>> BY <1>5 DEF MicrophoneEnds
  <2>3. CaptureTypes' BY <2>1, <2>2 DEF CaptureTypes
  <2>4. CaptureShape' BY <2>1, <2>2 DEF CaptureShape
  <2>5. HoldsNewest' BY <2>1, <2>2 DEF HoldsNewest
  <2>6. FramesCurrent' BY <2>2 DEF FramesCurrent
  <2> QED BY <2>3, <2>4, <2>5, <2>6
<1>6. ASSUME NEW k, StopCapture(k) PROVE CaptureInv'
  <2>1. mic' = [kind |-> mic.kind, open |-> FALSE, reader |-> FALSE, ring |-> << >>,
                pending |-> << >>, since |-> mic.since, sequence |-> mic.sequence]
    BY <1>6 DEF StopCapture, CaptureTypes
  <2>2. recorded \in Nat /\ mic.since \in Nat /\ Len(mic.ring) \in Nat /\ Len(mic.pending) \in Nat
    BY DEF CaptureTypes
  <2>3. mic.since <= recorded BY <2>2 DEF HoldsNewest
  <2>4. UNCHANGED <<recorded, handed>> BY <1>6 DEF StopCapture
  <2> QED BY <2>1, <2>2, <2>3, <2>4, EmptyKept
<1> QED BY <1>1, <1>2, <1>3, <1>4, <1>5, <1>6 DEF CpalStart, OboeStart, CpalStop, OboeStop, RodioStop

\* New samples at the end of the ring, the oldest of which may give way.
LEMMA RecordingKept ==
    ASSUME CaptureInv, handle_cpal_input \/ capture_thread
    PROVE  CaptureInv'
<1> USE DEF CaptureInv
<1>0. /\ recorded \in Nat /\ mic.ring \in Seq(Nat) /\ Len(mic.ring) \in Nat /\ Len(mic.pending) \in Nat
      /\ mic.pending \in Seq(Nat) /\ mic.since \in Nat
      /\ mic.since + Len(mic.ring) + Len(mic.pending) <= recorded
  BY DEF CaptureTypes, HoldsNewest
<1>n. /\ recorded \in Nat /\ Len(mic.ring) \in Nat /\ Len(mic.pending) \in Nat /\ mic.since \in Nat
      /\ mic.since + Len(mic.ring) + Len(mic.pending) <= recorded
  BY <1>0
<1>1. UNCHANGED handed BY DEF handle_cpal_input, capture_thread
<1>2. FramesCurrent' BY <1>1 DEF FramesCurrent
<1>3. CASE handle_cpal_input
  <2>1. PICK n \in 1..(FrameSize + 1) :
          /\ recorded' = recorded + n
          /\ mic' = [mic EXCEPT !.ring = Newest(@ \o [i \in 1..n |-> recorded + i], RingCap)]
    BY <1>3 DEF handle_cpal_input
  <2> DEFINE new == [i \in 1..n |-> recorded + i]
             all == mic.ring \o new
             ring == Newest(all, RingCap)
  <2>2. n \in Nat /\ n >= 1 /\ RingCap \in Nat BY DevicesAssumption
  <2>3. new \in Seq(Nat) /\ Len(new) = n /\ EndsAt(new, recorded + n)
    <3>1. \A i \in 1..n : recorded + i \in Nat BY <1>0, <2>2
    <3>2. new \in Seq(Nat) /\ Len(new) = n BY <2>2, <3>1
    <3>3. \A i \in 1..n : new[i] = (recorded + n) - n + i BY <1>0, <2>2
    <3> QED BY <3>2, <3>3 DEF EndsAt
  <2> HIDE DEF new
  <2>5. Len(mic.ring) + Len(new) <= recorded + n BY <1>0, <2>2, <2>3
  <2>6. all \in Seq(Nat) /\ Len(all) = Len(mic.ring) + n /\ EndsAt(all, recorded + n)
    <3>1. recorded + n \in Nat BY <1>n, <2>2
    <3>2. mic.ring \in Seq(Nat) BY <1>0
    <3> DEFINE m == recorded + n
    <3>3. m \in Nat /\ Len(mic.ring) + Len(new) <= m BY ONLY <2>5, <3>1
    <3>5. EndsAt(new, m) BY <2>3, Zenon
    <3>6. m - Len(new) = recorded BY ONLY <1>n, <2>2, <2>3
    <3>7. EndsAt(mic.ring, m - Len(new)) BY <3>6 DEF HoldsNewest
    <3> HIDE DEF m
    <3>4. all \in Seq(Nat) /\ Len(all) = Len(mic.ring) + Len(new) /\ EndsAt(all, m)
      BY <2>3, <3>2, <3>3, <3>5, <3>7, JoinEnds
    <3> QED BY <2>3, <3>4 DEF m
  <2> HIDE DEF all
  <2>7. /\ ring \in Seq(Nat) /\ EndsAt(ring, recorded + n)
        /\ Len(ring) = IF Len(all) > RingCap THEN RingCap ELSE Len(all)
    BY <1>0, <2>2, <2>6, NewestEnds
  <2>8. Len(ring) <= Len(mic.ring) + n /\ Len(ring) \in Nat BY <1>0, <2>2, <2>6, <2>7
  <2>9. mic' = [kind |-> mic.kind, open |-> mic.open, reader |-> mic.reader, ring |-> ring,
                pending |-> mic.pending, since |-> mic.since, sequence |-> mic.sequence]
    BY <2>1 DEF CaptureTypes, all, new
  <2> HIDE DEF ring
  <2>10. mic.pending = << >> /\ mic.open BY <1>3 DEF handle_cpal_input, CaptureShape
  <2>11. recorded' \in Nat BY <1>0, <2>1, <2>2
  <2>12. CaptureTypes' BY <2>7, <2>9, <2>11 DEF CaptureTypes
  <2>13. CaptureShape' BY <2>9, <2>10 DEF CaptureShape
  <2>14. EndsAt(mic'.pending, recorded' - Len(mic'.ring)) BY <2>9, <2>10 DEF EndsAt
  <2>15. mic'.since + Len(mic'.ring) + Len(mic'.pending) <= recorded'
    BY <1>0, <2>1, <2>2, <2>8, <2>9
  <2>16. EndsAt(mic'.ring, recorded') BY <2>1, <2>7, <2>9
  <2> QED BY <1>2, <2>12, <2>13, <2>14, <2>15, <2>16 DEF HoldsNewest
<1>4. CASE capture_thread
  <2> DEFINE ring == Append(mic.ring, recorded + 1)
  <2>1. /\ recorded' = recorded + 1
        /\ mic' = [kind |-> mic.kind, open |-> mic.open, reader |-> mic.reader, ring |-> ring,
                   pending |-> mic.pending, since |-> mic.since, sequence |-> mic.sequence]
    BY <1>4 DEF capture_thread, CaptureTypes
  <2>2. recorded + 1 \in Nat BY <1>0
  <2>3. /\ ring \in Seq(Nat) /\ Len(ring) = Len(mic.ring) + 1 /\ ring[Len(mic.ring) + 1] = recorded + 1
        /\ \A i \in 1..Len(mic.ring) : ring[i] = mic.ring[i]
    BY <1>0, <2>2
  <2> HIDE DEF ring
  <2>4. \A i \in 1..Len(mic.ring) : mic.ring[i] = recorded - Len(mic.ring) + i
    BY DEF HoldsNewest, EndsAt
  <2>5. \A i \in 1..(Len(mic.ring) + 1) : ring[i] = (recorded + 1) - (Len(mic.ring) + 1) + i
    <3> SUFFICES ASSUME NEW i \in 1..(Len(mic.ring) + 1)
                 PROVE  ring[i] = (recorded + 1) - (Len(mic.ring) + 1) + i
      OBVIOUS
    <3> DEFINE l == Len(mic.ring)
    <3>0. l \in Nat BY <1>n
    <3>1. CASE i = l + 1
      <4>1. ring[i] = recorded + 1 BY <2>3, <3>1
      <4> HIDE DEF l
      <4>2. (recorded + 1) - (l + 1) + i = recorded + 1 BY <1>n, <3>0, <3>1
      <4> QED BY <4>1, <4>2 DEF l
    <3>2. CASE i \in 1..l
      <4>1. ring[i] = recorded - l + i BY <2>3, <2>4, <3>2
      <4> HIDE DEF l
      <4>2. recorded - l + i = (recorded + 1) - (l + 1) + i BY <1>n, <3>0, <3>2
      <4> QED BY <4>1, <4>2 DEF l
    <3>3. i = l + 1 \/ i \in 1..l
      <4>1. i \in 1..(l + 1) OBVIOUS
      <4> HIDE DEF l
      <4> QED BY <3>0, <4>1
    <3> QED BY <3>1, <3>2, <3>3
  <2>6. EndsAt(mic'.ring, recorded') BY <2>1, <2>3, <2>5 DEF EndsAt
  <2>7. recorded' - Len(mic'.ring) = recorded - Len(mic.ring)
    <3>1. recorded' - Len(mic'.ring) = (recorded + 1) - (Len(mic.ring) + 1) BY <2>1, <2>3
    <3>2. \A a, b \in Nat : (a + 1) - (b + 1) = a - b OBVIOUS
    <3>3. (recorded + 1) - (Len(mic.ring) + 1) = recorded - Len(mic.ring) BY <1>n, <3>2
    <3> QED BY <3>1, <3>3
  <2>8. EndsAt(mic'.pending, recorded' - Len(mic'.ring)) BY <2>1, <2>7 DEF HoldsNewest
  <2>9. mic'.since + Len(mic'.ring) + Len(mic'.pending) <= recorded' BY <1>0, <2>1, <2>3
  <2>10. CaptureTypes' BY <2>1, <2>2, <2>3 DEF CaptureTypes
  <2>11. mic.reader BY <1>4 DEF capture_thread
  <2>12. CaptureShape' BY <2>1, <2>11 DEF CaptureShape
  <2> QED BY <1>2, <2>6, <2>8, <2>9, <2>10, <2>12 DEF HoldsNewest
<1> QED BY <1>3, <1>4

\* A frame handed out from the front of a stretch that ends with the sample
\* recorded last.
LEMMA HandKept ==
    ASSUME CaptureTypes, NEW s \in Seq(Nat), Len(s) >= FrameSize, EndsAt(s, recorded),
           mic.since + Len(s) <= recorded, Hand(s),
           mic.kind # "rodio" => Len(s) <= StaleFrames * FrameSize
    PROVE  FramesCurrent'
<1> DEFINE f == SubSeq(s, 1, FrameSize)
<1>0. FrameSize \in Nat /\ FrameSize >= 1 BY DevicesAssumption
<1>1. recorded \in Nat /\ mic.since \in Nat /\ Len(s) \in Nat /\ FrameSize \in Nat /\ FrameSize >= 1
  BY <1>0 DEF CaptureTypes
<1>2. \A i \in 1..FrameSize : f[i] = recorded - Len(s) + i BY <1>1, RestEnds
<1>3. /\ handed'.samples = f /\ handed'.since = mic.since /\ handed'.newest = recorded
      /\ handed'.kind = mic.kind
  BY DEF Hand
<1> HIDE DEF f
<1>4. f[1] = recorded - Len(s) + 1 BY <1>1, <1>2
<1>5. \A i \in 1..FrameSize : f[i] = f[1] + i - 1 BY <1>1, <1>2, <1>4
<1>6. f[1] > mic.since BY <1>1, <1>4
<1>7. mic.kind # "rodio" => recorded - f[1] < StaleFrames * FrameSize BY <1>1, <1>4, BacklogHoldsFrame
<1> QED BY <1>3, <1>5, <1>6, <1>7 DEF FramesCurrent

\* read_frame of the callback devices and of rodio.
LEMMA ReadingKept ==
    ASSUME CaptureInv, RingRead \/ RodioRead
    PROVE  CaptureInv'
<1> USE DEF CaptureInv
<1>0. /\ recorded \in Nat /\ mic.ring \in Seq(Nat) /\ Len(mic.ring) \in Nat /\ Len(mic.pending) \in Nat
      /\ mic.pending \in Seq(Nat) /\ mic.since \in Nat
      /\ mic.since + Len(mic.ring) + Len(mic.pending) <= recorded
      /\ EndsAt(mic.ring, recorded) /\ EndsAt(mic.pending, recorded - Len(mic.ring))
      /\ FrameSize \in Nat /\ FrameSize >= 1
  BY DevicesAssumption DEF CaptureTypes, HoldsNewest
<1>n. /\ recorded \in Nat /\ Len(mic.ring) \in Nat /\ Len(mic.pending) \in Nat /\ mic.since \in Nat
      /\ mic.since + Len(mic.ring) + Len(mic.pending) <= recorded
  BY <1>0
<1>1. UNCHANGED recorded BY DEF RingRead, RodioRead
<1>2. CASE RingRead
  <2> DEFINE s == SkipStale(mic.ring)
             r == Rest(s)
  <2>1. /\ s \in Seq(Nat) /\ EndsAt(s, recorded) /\ Len(s) >= FrameSize
        /\ Len(s) <= Len(mic.ring) /\ Len(s) <= StaleFrames * FrameSize
    <3>1. CASE Len(mic.ring) > StaleFrames * FrameSize
      <4>1. s = Newest(mic.ring, FrameSize) BY <3>1 DEF SkipStale
      <4>2. /\ s \in Seq(Nat) /\ EndsAt(s, recorded)
            /\ Len(s) = IF Len(mic.ring) > FrameSize THEN FrameSize ELSE Len(mic.ring)
        BY <1>0, <4>1, NewestEnds
      <4>3. Len(s) = FrameSize BY <1>0, <3>1, <4>2, BacklogHoldsFrame
      <4> QED BY <1>0, <3>1, <4>2, <4>3, BacklogHoldsFrame
    <3>2. CASE ~(Len(mic.ring) > StaleFrames * FrameSize)
      <4>1. s = mic.ring BY <3>2 DEF SkipStale
      <4>2. Len(mic.ring) >= FrameSize BY <1>2 DEF RingRead
      <4> QED BY <1>0, <3>2, <4>1, <4>2, BacklogHoldsFrame
    <3> QED BY <3>1, <3>2
  <2>2. Hand(s) BY <1>2 DEF RingRead
  <2>3. mic' = [kind |-> mic.kind, open |-> mic.open, reader |-> mic.reader, ring |-> r,
                pending |-> mic.pending, since |-> mic.since, sequence |-> mic.sequence + 1]
    BY <1>2 DEF RingRead, CaptureTypes
  <2> HIDE DEF s
  <2>4. Len(s) \in Nat BY <2>1
  <2>5. mic.since + Len(s) <= recorded
    <3>1. Len(s) <= Len(mic.ring) BY <2>1
    <3> QED BY <1>n, <2>4, <3>1
  <2>6. FramesCurrent' BY <2>1, <2>2, <2>5, HandKept
  <2>7. r \in Seq(Nat) /\ Len(r) = Len(s) - FrameSize /\ EndsAt(r, recorded) BY <1>0, <2>1, RestEnds
  <2> HIDE DEF r
  <2>8. mic.kind # "rodio" /\ mic.ring # << >> BY <1>0, <1>2 DEF RingRead
  <2>9. mic.pending = << >> /\ mic.open BY <2>8 DEF CaptureShape
  <2>10. CaptureTypes' BY <1>1, <2>3, <2>7 DEF CaptureTypes
  <2>11. CaptureShape' BY <2>3, <2>9 DEF CaptureShape
  <2>12. mic'.since + Len(mic'.ring) + Len(mic'.pending) <= recorded'
    BY <1>0, <1>1, <2>3, <2>4, <2>5, <2>7, <2>9
  <2>13. EndsAt(mic'.pending, recorded' - Len(mic'.ring)) BY <2>3, <2>9 DEF EndsAt
  <2> QED BY <1>1, <2>3, <2>6, <2>7, <2>10, <2>11, <2>12, <2>13 DEF HoldsNewest
<1>3. CASE RodioRead
  <2> DEFINE s == mic.pending \o mic.ring
  <2>1. s \in Seq(Nat) /\ Len(s) = Len(mic.pending) + Len(mic.ring) /\ EndsAt(s, recorded)
    BY <1>0, JoinEnds
  <2>2. mic.kind = "rodio" /\ mic.open BY <1>3 DEF RodioRead
  <2>3. PICK p, q : mic' = [kind |-> mic.kind, open |-> mic.open, reader |-> mic.reader,
                            ring |-> << >>, pending |-> p, since |-> mic.since, sequence |-> q]
                    /\ \/ p = Rest(s) /\ Hand(s) /\ Len(s) >= FrameSize
                       \/ p = s /\ UNCHANGED handed
    BY <1>3 DEF RodioRead, CaptureTypes
  <2> HIDE DEF s
  <2>4. mic.since + Len(s) <= recorded /\ Len(s) \in Nat
    <3>1. Len(s) = Len(mic.pending) + Len(mic.ring) BY <2>1
    <3>2. \A a, b, c, d \in Nat : a + b + c <= d => a + (c + b) <= d /\ c + b \in Nat OBVIOUS
    <3>3. /\ mic.since + (Len(mic.pending) + Len(mic.ring)) <= recorded
          /\ Len(mic.pending) + Len(mic.ring) \in Nat
      BY <1>n, <3>2
    <3> QED BY <3>1, <3>3
  <2>5. FramesCurrent'
    <3>1. CASE Hand(s) /\ Len(s) >= FrameSize BY <2>1, <2>2, <2>4, <3>1, HandKept
    <3>2. CASE UNCHANGED handed BY <3>2 DEF FramesCurrent
    <3> QED BY <2>3, <3>1, <3>2
  <2>6. p \in Seq(Nat) /\ Len(p) \in Nat /\ Len(p) <= Len(s) /\ EndsAt(p, recorded)
    <3>1. CASE p = Rest(s) /\ Len(s) >= FrameSize
      <4>1. p \in Seq(Nat) /\ Len(p) = Len(s) - FrameSize /\ EndsAt(p, recorded)
        BY <1>0, <2>1, <3>1, RestEnds
      <4> QED BY <1>0, <2>4, <4>1
    <3>2. CASE p = s
      <4>1. Len(s) <= Len(s) BY <2>4
      <4> QED BY <2>1, <2>4, <3>2, <4>1
    <3> QED BY <2>3, <3>1, <3>2
  <2>7. << >> \in Seq(Nat) /\ Len(<< >>) = 0 OBVIOUS
  <2>8. CaptureTypes' BY <1>1, <2>3, <2>6, <2>7 DEF CaptureTypes
  <2>9. CaptureShape' BY <2>2, <2>3 DEF CaptureShape
  <2>10. EndsAt(mic'.ring, recorded') BY <2>3, <2>7 DEF EndsAt
  <2>11. recorded' - Len(mic'.ring) = recorded BY <1>0, <1>1, <2>3, <2>7
  <2>12. EndsAt(mic'.pending, recorded' - Len(mic'.ring)) BY <2>3, <2>6, <2>11
  <2>13. mic'.since + Len(mic'.ring) + Len(mic'.pending) <= recorded'
    BY <1>0, <1>1, <2>3, <2>4, <2>6, <2>7
  <2> QED BY <2>5, <2>8, <2>9, <2>10, <2>12, <2>13 DEF HoldsNewest
<1> QED BY <1>2, <1>3

\* A frame given to the encoder is one stretch of sound, recorded since the
\* device was started and, from a callback device, never older than the
\* backlog: for every frame size, ring and backlog (CpalCapture, OboeCapture
\* and RodioCapture: start, read_frame, stop).
THEOREM FramesCorrect == DevicesSpec => []FramesCurrent
<1>1. DevicesInit => CaptureInv
  <2> SUFFICES ASSUME DevicesInit PROVE CaptureInv OBVIOUS
  <2>1. << >> \in Seq(Nat) /\ Len(<< >>) = 0 OBVIOUS
  <2>2. CaptureTypes BY <2>1 DEF DevicesInit, CaptureTypes, NoDevice
  <2>3. CaptureShape BY DEF DevicesInit, CaptureShape, NoDevice
  <2>4. HoldsNewest BY <2>1 DEF DevicesInit, HoldsNewest, NoDevice, EndsAt
  <2>5. FramesCurrent BY DEF DevicesInit, FramesCurrent
  <2> QED BY <2>2, <2>3, <2>4, <2>5 DEF CaptureInv
<1>2. CaptureInv /\ [DevicesNext]_deviceVars => CaptureInv'
  <2> SUFFICES ASSUME CaptureInv, [DevicesNext]_deviceVars PROVE CaptureInv' OBVIOUS
  <2>1. CASE CaptureNext
    BY <2>1, DevicesKept, RecordingKept, ReadingKept DEF CaptureNext
  <2>2. CASE UNCHANGED captureVars
    BY <2>2 DEF captureVars, CaptureInv, CaptureTypes, CaptureShape, HoldsNewest, FramesCurrent
  <2>3. CASE OutputNext
    <3>1. UNCHANGED captureVars \/ set_use_rodio_backend
      BY <2>3 DEF OutputNext, create_mixing_playback, CpalPlaybackStart, OboePlaybackStart,
                  OpenPlayback, CpalPlaybackStop, OboePlaybackStop, StopStream, Speech,
                  CpalCallback, OboeCallback
    <3> QED BY <2>2, <3>1, DevicesKept
  <2>4. CASE UNCHANGED deviceVars BY <2>2, <2>4 DEF deviceVars, captureVars
  <2> QED BY <2>1, <2>3, <2>4 DEF DevicesNext
<1>3. CaptureInv => FramesCurrent BY DEF CaptureInv
<1> QED BY <1>1, <1>2, <1>3, PTL DEF DevicesSpec

-----------------------------------------------------------------------------
\* Induction over the naturals, by their well-foundedness.
Below == {ss \in Nat \X Nat : ss[1] < ss[2]}

\* A set with zero and with the successors of its elements has all naturals.
LEMMA Induction ==
    ASSUME NEW T, 0 \in T, \A n \in Nat : n \in T => n + 1 \in T PROVE Nat \subseteq T
<1>1. SUFFICES ASSUME Nat \ T # {} PROVE FALSE OBVIOUS
<1>2. IsWellFoundedOn(Below, Nat) BY NatLessThanWellFounded DEF OpToRel, Below
<1>3. PICK x \in Nat \ T : \A y \in Nat \ T : ~ (<<y, x>> \in Below) BY <1>1, <1>2, WFMin
<1>4. x # 0 /\ x - 1 \in Nat /\ (x - 1) + 1 = x BY <1>3
<1>5. x - 1 \in T
  <2>1. <<x - 1, x>> \in Below BY <1>4 DEF Below
  <2> QED BY <1>3, <1>4, <2>1
<1> QED BY <1>3, <1>4, <1>5

-----------------------------------------------------------------------------
(* The cpal callback.  The invariant of its state between two samples: a   *)
(* decaying sample was written last only while an underrun is on and its   *)
(* ramp has not begun.                                                     *)

Sounds == {"speech", "ramp", "decay"}

Frames == [underrun : BOOLEAN, ramp : Nat, silent : Nat, out : Seq(Sounds)]

\* Nowhere in what was written does speech follow a decaying sample.
Soft(sounds) == \A i \in 1..Len(sounds) - 1 : ~(sounds[i] = "decay" /\ sounds[i + 1] = "speech")

DecayRamps(sounds, under, begun) ==
    Len(sounds) > 0 /\ sounds[Len(sounds)] = "decay" => under /\ begun = 0

Smoothly(s) == s \in Frames /\ Soft(s.out) /\ DecayRamps(s.out, s.underrun, s.ramp)

\* What is appended keeps the output soft unless it is speech after a decay.
LEMMA SoftGrows ==
    ASSUME NEW sounds \in Seq(Sounds), NEW x \in Sounds, Soft(sounds),
           Len(sounds) > 0 /\ sounds[Len(sounds)] = "decay" => x # "speech"
    PROVE  Append(sounds, x) \in Seq(Sounds) /\ Soft(Append(sounds, x))
           /\ Len(Append(sounds, x)) > 0 /\ Append(sounds, x)[Len(Append(sounds, x))] = x
<1>1. PICK n \in Nat : n = Len(sounds) OBVIOUS
<1>2. PICK t : t = Append(sounds, x) OBVIOUS
<1>3. t \in Seq(Sounds) /\ Len(t) = n + 1 /\ t[n + 1] = x /\ \A i \in 1..n : t[i] = sounds[i]
  BY <1>1, <1>2
<1>4. ASSUME NEW i \in 1..n PROVE ~(t[i] = "decay" /\ t[i + 1] = "speech")
  <2>1. CASE i = n BY <1>1, <1>3, <2>1
  <2>2. CASE i # n
    <3>1. i \in 1..n - 1 /\ i + 1 \in 1..n BY <2>2
    <3> QED BY <1>1, <1>3, <3>1 DEF Soft
  <2> QED BY <2>1, <2>2
<1>5. Soft(t)
  <2>1. Len(t) - 1 = n BY <1>3
  <2> QED BY <1>4, <2>1 DEF Soft
<1> QED BY <1>2, <1>3, <1>5

\* A frame with a sample more is smooth if the sample may follow.
LEMMA MoreSmooth ==
    ASSUME NEW s, Smoothly(s), NEW x \in Sounds, NEW u \in BOOLEAN, NEW r \in Nat, NEW l \in Nat,
           Len(s.out) > 0 /\ s.out[Len(s.out)] = "decay" => x # "speech",
           x = "decay" => u /\ r = 0
    PROVE  Smoothly([underrun |-> u, ramp |-> r, silent |-> l, out |-> Append(s.out, x)])
<1>1. s.out \in Seq(Sounds) /\ Soft(s.out) BY DEF Smoothly, Frames
<1>2. PICK t : t = Append(s.out, x) OBVIOUS
<1>3. t \in Seq(Sounds) /\ Soft(t) /\ t[Len(t)] = x BY <1>1, <1>2, SoftGrows
<1>4. DecayRamps(t, u, r) BY <1>3 DEF DecayRamps
<1>5. [underrun |-> u, ramp |-> r, silent |-> l, out |-> t] \in Frames BY <1>3 DEF Frames
<1> QED BY <1>2, <1>3, <1>4, <1>5 DEF Smoothly

\* write_output_frame keeps it: the ramp has at least two samples.
LEMMA FrameSmooth ==
    ASSUME NEW s, Smoothly(s), NEW heard PROVE Smoothly(write_output_frame(s, heard))
<1>1. /\ s \in Frames /\ Soft(s.out) /\ DecayRamps(s.out, s.underrun, s.ramp)
      /\ s.underrun \in BOOLEAN /\ s.ramp \in Nat /\ s.silent \in Nat /\ s.out \in Seq(Sounds)
  BY DEF Smoothly, Frames
<1>2. MinRamp \in Nat /\ MinRamp >= 2 /\ MaxRamp \in Nat
  <2>1. MinRamp \in 2..MaxRamp BY DevicesAssumption
  <2>2. MaxRamp \in Nat BY DevicesAssumption
  <2> QED BY <2>1, <2>2
<1> DEFINE length == Most(s.silent, MinRamp)
<1>3. length \in Nat /\ length >= 2 BY <1>1, <1>2 DEF Most
<1> HIDE DEF length
<1>4. CASE heard /\ ~s.underrun
  <2>1. write_output_frame(s, heard) = [underrun |-> s.underrun, ramp |-> s.ramp,
                                        silent |-> s.silent, out |-> Append(s.out, "speech")]
    BY <1>1, <1>4 DEF write_output_frame, apply_underrun_ramp, Frames
  <2>2. Len(s.out) > 0 => s.out[Len(s.out)] # "decay" BY <1>1, <1>4 DEF DecayRamps
  <2> QED BY <1>1, <2>1, <2>2, MoreSmooth DEF Sounds
<1>5. CASE heard /\ s.underrun /\ s.ramp + 1 >= length
  <2>1. write_output_frame(s, heard) = [underrun |-> FALSE, ramp |-> 0,
                                        silent |-> 0, out |-> Append(s.out, "speech")]
    BY <1>1, <1>5 DEF write_output_frame, apply_underrun_ramp, length, Frames
  <2>2. s.ramp # 0 BY <1>1, <1>3, <1>5
  <2>3. Len(s.out) > 0 => s.out[Len(s.out)] # "decay" BY <2>2, <1>1 DEF DecayRamps
  <2> QED BY <1>1, <2>1, <2>3, MoreSmooth DEF Sounds
<1>6. CASE heard /\ s.underrun /\ ~(s.ramp + 1 >= length)
  <2>1. write_output_frame(s, heard) = [underrun |-> s.underrun, ramp |-> s.ramp + 1,
                                        silent |-> s.silent, out |-> Append(s.out, "ramp")]
    BY <1>1, <1>6 DEF write_output_frame, apply_underrun_ramp, length, Frames
  <2> QED BY <1>1, <2>1, MoreSmooth DEF Sounds
<1>7. CASE ~heard
  <2>1. PICK l : l = Least(s.silent + 1, MaxRamp) OBVIOUS
  <2>2. write_output_frame(s, heard) = [underrun |-> TRUE, ramp |-> 0,
                                        silent |-> l, out |-> Append(s.out, "decay")]
    BY <1>1, <1>7, <2>1 DEF write_output_frame, Frames
  <2>3. l \in Nat BY <1>1, <1>2, <2>1 DEF Least
  <2> QED BY <1>1, <2>2, <2>3, MoreSmooth DEF Sounds
<1> QED BY <1>1, <1>4, <1>5, <1>6, <1>7

\* The states of one callback: f[k] is the state after k samples.
Samples(f, b, heard, n) ==
    f = [k \in 0..n |-> IF k = 0 THEN b ELSE write_output_frame(f[k - 1], heard[k])]

\* There are such states for every number of samples.
LEMMA SamplesSome == ASSUME NEW b, NEW heard, NEW n \in Nat PROVE \E f : Samples(f, b, heard, n)
<1> DEFINE T == {k \in Nat : \E f : Samples(f, b, heard, k)}
<1>1. 0 \in T
  <2>1. PICK f : f = [k \in 0..0 |-> b] OBVIOUS
  <2>2. ASSUME NEW k \in 0..0 PROVE k = 0 OBVIOUS
  <2>3. Samples(f, b, heard, 0) BY <2>1, <2>2 DEF Samples
  <2> QED BY <2>3
<1>2. ASSUME NEW k \in Nat, k \in T PROVE k + 1 \in T
  <2>1. PICK f : Samples(f, b, heard, k) BY <1>2
  <2>2. PICK g : g = [i \in 0..(k + 1) |->
                        IF i <= k THEN f[i] ELSE write_output_frame(f[k], heard[k + 1])]
    OBVIOUS
  <2>3. ASSUME NEW i \in 0..(k + 1)
        PROVE  g[i] = IF i = 0 THEN b ELSE write_output_frame(g[i - 1], heard[i])
    <3>1. i # 0 => i - 1 \in 0..(k + 1) /\ i - 1 <= k /\ i - 1 \in 0..k OBVIOUS
    <3>2. i # 0 => g[i - 1] = f[i - 1] BY <2>2, <3>1
    <3>3. CASE i <= k
      <4>1. i \in 0..k /\ g[i] = f[i] BY <2>2, <3>3
      <4>2. f[i] = IF i = 0 THEN b ELSE write_output_frame(f[i - 1], heard[i])
        BY <2>1, <4>1 DEF Samples
      <4> QED BY <3>2, <4>1, <4>2
    <3>4. CASE ~(i <= k)
      <4>1. i = k + 1 /\ i - 1 = k /\ i # 0 BY <3>4
      <4>2. g[i] = write_output_frame(f[k], heard[k + 1]) BY <2>2, <3>4
      <4> QED BY <3>2, <4>1, <4>2
    <3> QED BY <3>3, <3>4
  <2>4. g = [i \in 0..(k + 1) |-> g[i]] BY <2>2
  <2>5. Samples(g, b, heard, k + 1) BY <2>3, <2>4 DEF Samples
  <2> QED BY <2>5
<1> HIDE DEF T
<1>3. n \in T BY <1>1, <1>2, Induction
<1> QED BY <1>3 DEF T

\* They are smooth to the last.
LEMMA SamplesSmooth ==
    ASSUME NEW b, Smoothly(b), NEW heard, NEW n \in Nat, NEW f, Samples(f, b, heard, n)
    PROVE  Smoothly(f[n])
<1> DEFINE T == {k \in Nat : k <= n => Smoothly(f[k])}
<1>0. \A k \in 0..n : f[k] = IF k = 0 THEN b ELSE write_output_frame(f[k - 1], heard[k])
  BY DEF Samples
<1>1. 0 \in T
  <2>1. 0 \in 0..n OBVIOUS
  <2> QED BY <1>0, <2>1
<1>2. ASSUME NEW k \in Nat, k \in T PROVE k + 1 \in T
  <2> SUFFICES ASSUME k + 1 <= n PROVE Smoothly(f[k + 1]) OBVIOUS
  <2>1. k <= n /\ k + 1 \in 0..n /\ k + 1 # 0 /\ (k + 1) - 1 = k OBVIOUS
  <2>2. f[k + 1] = write_output_frame(f[k], heard[k + 1]) BY <1>0, <2>1
  <2>3. Smoothly(f[k]) BY <1>2, <2>1
  <2> QED BY <2>2, <2>3, FrameSmooth
<1> HIDE DEF T
<1>3. n \in T BY <1>1, <1>2, Induction
<1> QED BY <1>3 DEF T

\* Between two callbacks: a speaker is of its platform, and an open cpal
\* stream has gone on from what it played last.
Fields == {"kind", "open", "rate", "primed", "empty", "underrun", "ramp", "silent"}

OutputInv ==
    /\ speaker = [f \in Fields |-> speaker[f]]
    /\ speaker.kind \in {"none", IF platform = "android" THEN "oboe" ELSE "cpal"}
    /\ speaker.kind # "oboe" => Soft(played)
    /\ speaker.kind = "cpal" /\ speaker.open =>
          Smoothly([underrun |-> speaker.underrun, ramp |-> speaker.ramp,
                    silent |-> speaker.silent, out |-> played])

\* A callback leaves a smooth state.
LEMMA WrittenSmooth ==
    ASSUME OutputInv, speaker.kind = "cpal", speaker.open, NEW heard, Len(heard) \in Nat
    PROVE  Smoothly(Written(speaker, heard))
<1> DEFINE b == [underrun |-> speaker.underrun, ramp |-> speaker.ramp, silent |-> speaker.silent,
                 out |-> IF played = << >> THEN << >> ELSE <<Last(played)>>]
           n == Len(heard)
<1>1. Smoothly(b)
  <2>1. /\ speaker.underrun \in BOOLEAN /\ speaker.ramp \in Nat /\ speaker.silent \in Nat
        /\ played \in Seq(Sounds) /\ DecayRamps(played, speaker.underrun, speaker.ramp)
    BY DEF OutputInv, Smoothly, Frames
  <2>2. CASE played = << >>
    BY <2>1, <2>2 DEF Smoothly, Frames, Soft, DecayRamps
  <2>3. CASE played # << >>
    <3>1. PICK x : x = Last(played) OBVIOUS
    <3>2. Len(played) > 0 /\ x = played[Len(played)] /\ x \in Sounds
      BY <2>1, <2>3, <3>1 DEF Last
    <3>3. PICK o : o = <<x>> OBVIOUS
    <3>4. o \in Seq(Sounds) /\ Len(o) = 1 /\ o[1] = x BY <3>2, <3>3
    <3>5. Soft(o) /\ DecayRamps(o, speaker.underrun, speaker.ramp)
      BY <2>1, <3>2, <3>4 DEF Soft, DecayRamps
    <3>6. b = [underrun |-> speaker.underrun, ramp |-> speaker.ramp,
               silent |-> speaker.silent, out |-> o]
      BY <2>3, <3>1, <3>3
    <3> QED BY <2>1, <3>4, <3>5, <3>6 DEF Smoothly, Frames
  <2> QED BY <2>2, <2>3
<1> HIDE DEF b
<1>2. PICK f : Samples(f, b, heard, n) BY SamplesSome
<1>3. PICK h : h = CHOOSE x : Samples(x, b, heard, n) BY Zenon
<1>4. Samples(h, b, heard, n) BY <1>2, <1>3, Zenon
<1>5. Written(speaker, heard) = h[n] BY <1>3 DEF Written, Samples, b
<1> QED BY <1>1, <1>4, <1>5, SamplesSmooth

\* The speaker of a step that opens, closes or makes a device, or feeds speech.
LEMMA OutputRests ==
    ASSUME OutputInv,
           set_use_rodio_backend \/ create_mixing_playback \/ CpalPlaybackStart \/ OboePlaybackStart
           \/ CpalPlaybackStop \/ OboePlaybackStop \/ Speech \/ UNCHANGED <<platform, speaker, played>>
    PROVE  OutputInv'
<1>1. CASE set_use_rodio_backend \/ Speech \/ (UNCHANGED <<platform, speaker, played>>)
  BY <1>1 DEF set_use_rodio_backend, Speech, outputVars, OutputInv
<1>2. CASE create_mixing_playback
  <2>1. NoSpeaker = [f \in Fields |-> NoSpeaker[f]] BY DEF NoSpeaker, Fields
  <2>2. PICK k : k = PlatformAudioFactory OBVIOUS
  <2>3. k = IF platform = "android" THEN "oboe" ELSE "cpal"
    BY <1>2, <2>2 DEF create_mixing_playback, PlatformAudioFactory
  <2>4. /\ platform' = platform /\ played' = played /\ ~speaker.open
        /\ speaker' = [NoSpeaker EXCEPT !.kind = k]
    BY <1>2, <2>2 DEF create_mixing_playback
  <2>5. speaker'.kind = k /\ ~speaker'.open /\ speaker' = [f \in Fields |-> speaker'[f]]
    BY <2>1, <2>4 DEF NoSpeaker, Fields
  <2>6. k # "oboe" => Soft(played) BY <2>3 DEF OutputInv
  <2> QED BY <2>3, <2>4, <2>5, <2>6 DEF OutputInv
<1>3. ASSUME NEW kind, NEW r, OpenPlayback(kind, r) PROVE OutputInv'
  <2>1. /\ platform' = platform /\ played' = << >> /\ speaker.kind = kind
        /\ speaker' = [NoSpeaker EXCEPT !.kind = kind, !.open = TRUE, !.rate = r]
    BY <1>3 DEF OpenPlayback
  <2>2. /\ speaker'.kind = kind /\ ~speaker'.underrun /\ speaker'.ramp = 0 /\ speaker'.silent = 0
        /\ speaker'.underrun \in BOOLEAN /\ speaker' = [f \in Fields |-> speaker'[f]]
    BY <2>1 DEF NoSpeaker, Fields
  <2>3. Soft(played') BY <2>1 DEF Soft
  <2>4. Smoothly([underrun |-> speaker'.underrun, ramp |-> speaker'.ramp,
                  silent |-> speaker'.silent, out |-> played'])
    BY <2>1, <2>2, <2>3 DEF Smoothly, Frames, DecayRamps
  <2> QED BY <2>1, <2>2, <2>3, <2>4 DEF OutputInv
<1>4. ASSUME NEW kind, StopStream(kind) PROVE OutputInv'
  <2>1. platform' = platform /\ played' = played /\ speaker' = [speaker EXCEPT !.open = FALSE]
    BY <1>4 DEF StopStream
  <2>2. speaker'.kind = speaker.kind /\ ~speaker'.open /\ speaker' = [f \in Fields |-> speaker'[f]]
    BY <2>1 DEF OutputInv, Fields
  <2> QED BY <2>1, <2>2 DEF OutputInv
<1> QED BY <1>1, <1>2, <1>3, <1>4
        DEF CpalPlaybackStart, OboePlaybackStart, CpalPlaybackStop, OboePlaybackStop

\* A callback of either backend.
LEMMA CallbackKept ==
    ASSUME OutputInv, NEW n \in Nat, CpalCallback(n) \/ OboeCallback(n) PROVE OutputInv'
<1>1. CASE OboeCallback(n)
  BY <1>1 DEF OboeCallback, OutputInv
<1>2. CASE CpalCallback(n)
  <2> DEFINE needed == Most(1, (n * speaker.rate[1] + speaker.rate[2] - 1) \div speaker.rate[2])
             heard == resample_linear(n, try_drain_speakers_checked(needed).valid)
  <2>1. Len(heard) \in Nat BY DEF resample_linear
  <2> HIDE DEF heard
  <2> DEFINE w == Written(speaker, heard)
  <2>2. speaker.kind = "cpal" /\ speaker.open BY <1>2 DEF CpalCallback
  <2>3. Smoothly(w) BY <2>1, <2>2, WrittenSmooth
  <2>4. /\ speaker' = [speaker EXCEPT !.primed = speaker'.primed, !.empty = speaker'.empty,
                                      !.underrun = w.underrun, !.ramp = w.ramp,
                                      !.silent = w.silent]
        /\ played' = w.out
        /\ platform' = platform
    BY <1>2 DEF CpalCallback, heard
  <2> HIDE DEF w
  <2>5. /\ w = [underrun |-> w.underrun, ramp |-> w.ramp, silent |-> w.silent, out |-> w.out]
        /\ Soft(w.out)
    BY <2>3 DEF Smoothly, Frames
  <2>6. /\ speaker'.kind = "cpal" /\ speaker'.underrun = w.underrun /\ speaker'.ramp = w.ramp
        /\ speaker'.silent = w.silent /\ speaker' = [f \in Fields |-> speaker'[f]]
    BY <2>2, <2>4 DEF OutputInv, Fields
  <2>7. Smoothly([underrun |-> speaker'.underrun, ramp |-> speaker'.ramp,
                  silent |-> speaker'.silent, out |-> played'])
    BY <2>3, <2>4, <2>5, <2>6
  <2> QED BY <2>2, <2>4, <2>5, <2>6, <2>7 DEF OutputInv
<1> QED BY <1>1, <1>2

\* No device and nothing played at first.
LEMMA OutputStart == DevicesInit => OutputInv
<1> SUFFICES ASSUME DevicesInit PROVE OutputInv OBVIOUS
<1>1. speaker = NoSpeaker /\ played = << >> BY DEF DevicesInit
<1> QED BY <1>1 DEF OutputInv, NoSpeaker, Fields, Soft

\* No step of a device breaks it.
LEMMA OutputKept == OutputInv /\ [DevicesNext]_deviceVars => OutputInv'
<1> SUFFICES ASSUME OutputInv, [DevicesNext]_deviceVars PROVE OutputInv' OBVIOUS
<1>1. CASE UNCHANGED <<platform, speaker, played>> BY <1>1, OutputRests
<1>2. CASE CaptureNext
  <2>1. UNCHANGED <<platform, speaker, played>>
    BY <1>2 DEF CaptureNext, set_use_rodio_backend, create_capture, CpalStart, OboeStart, RodioStart,
                handle_cpal_input, capture_thread, MicrophoneEnds, RingRead, RodioRead, CpalStop,
                OboeStop, RodioStop, StopCapture, OpenStream, outputVars
  <2> QED BY <1>1, <2>1
<1>3. CASE OutputNext
  <2>1. \A n \in 1..FrameSize + 1 : n \in Nat OBVIOUS
  <2> QED BY <1>3, <2>1, OutputRests, CallbackKept DEF OutputNext
<1> QED BY <1>1, <1>2, <1>3 DEF DevicesNext, deviceVars

\* The cpal callback never jumps from the decaying value back to speech.
THEOREM RampsCorrect == DevicesSpec => []RampsBack
<1>1. OutputInv => RampsBack BY DEF OutputInv, RampsBack, Soft
<1> QED BY <1>1, OutputStart, OutputKept, PTL DEF DevicesSpec

-----------------------------------------------------------------------------
(* Mixer and recorder.  The invariant of a speaker's buffer: its units are *)
(* numbered upwards, those beyond the recorder's cursor have not been      *)
(* recorded, and a decoder that comes after silence will smooth its edge.  *)

SoundUnit == [id : Nat, voice : BOOLEAN, cold : BOOLEAN, soft : BOOLEAN]

\* Units in order, none younger than the n-th.
Ordered(b, n) ==
    /\ \A i \in 1..Len(b) : 1 <= b[i].id /\ b[i].id <= n
    /\ \A i \in 2..Len(b) : b[i - 1].id < b[i].id

\* What lies beyond a cursor is younger than the last unit written.
Unwritten(b, c, last) == \A i \in 1..Len(b) : i > c => last < b[i].id

\* Edges in a buffer are smoothed ...
Smooth(b) ==
    \A i \in 1..Len(b) :
        (b[i].voice /\ (b[i].cold \/ (i > 1 /\ ~b[i - 1].voice))) => b[i].soft

\* ... and so will be the one that the next frame makes.
NextSmooth(b, d) == (Len(b) > 0 /\ ~b[Len(b)].voice) => d.armed \/ d.fresh

\* The smaller of two numbers.
LEMMA MinOfTwo ==
    ASSUME NEW a \in Nat, NEW b \in Nat
    PROVE  Min({a, b}) = IF a <= b THEN a ELSE b
<1>1. CASE a <= b
  <2>1. \A x \in {a, b} : (\A y \in {a, b} : x <= y) <=> x = a BY <1>1
  <2> QED BY <1>1, <2>1 DEF Min
<1>2. CASE ~(a <= b)
  <2>1. \A x \in {a, b} : (\A y \in {a, b} : x <= y) <=> x = b BY <1>2
  <2> QED BY <1>2, <2>1 DEF Min
<1> QED BY <1>1, <1>2

\* Taking units from the front disturbs none of this.
LEMMA FrontLeaves ==
    ASSUME NEW b \in Seq(SoundUnit), NEW k \in Nat, k <= Len(b), NEW n \in Nat, NEW c \in Nat,
           NEW last \in Nat, NEW d, Ordered(b, n), Smooth(b), NextSmooth(b, d)
    PROVE  LET r == SubSeq(b, k + 1, Len(b))
           IN  /\ r \in Seq(SoundUnit) /\ Len(r) = Len(b) - k
               /\ Ordered(r, n) /\ Smooth(r) /\ NextSmooth(r, d)
               /\ Unwritten(b, c, last) => Unwritten(r, c, last)
<1> DEFINE r == SubSeq(b, k + 1, Len(b))
<1>1. Len(b) \in Nat /\ \A i \in 1..Len(b) : b[i] \in SoundUnit OBVIOUS
<1>2. r \in Seq(SoundUnit) BY <1>1
<1>3. Len(r) = Len(b) - k BY <1>1
<1>4. \A i \in 1..(Len(b) - k) : r[i] = b[k + i] BY <1>1
<1> HIDE DEF r
<1>5. \A i \in 1..(Len(b) - k) : k + i \in 1..Len(b) /\ k + i >= i /\ (i > 1 => (k + i) - 1 = k + (i - 1))
  BY <1>1
<1>6. Ordered(r, n)
  <2>1. \A i \in 1..Len(r) : 1 <= r[i].id /\ r[i].id <= n BY <1>3, <1>4, <1>5 DEF Ordered
  <2>2. ASSUME NEW i \in 2..Len(r) PROVE r[i - 1].id < r[i].id
    <3>1. i \in 1..(Len(b) - k) /\ i - 1 \in 1..(Len(b) - k) /\ k + i \in 2..Len(b)
          /\ (k + i) - 1 = k + (i - 1)
      BY <1>1, <1>3
    <3>2. r[i] = b[k + i] /\ r[i - 1] = b[(k + i) - 1] BY <1>4, <3>1
    <3> QED BY <3>1, <3>2 DEF Ordered
  <2> QED BY <2>1, <2>2 DEF Ordered
<1>7. Smooth(r)
  <2> SUFFICES ASSUME NEW i \in 1..Len(r), r[i].voice, r[i].cold \/ (i > 1 /\ ~r[i - 1].voice)
               PROVE  r[i].soft
    BY DEF Smooth
  <2>1. i \in 1..(Len(b) - k) /\ k + i \in 1..Len(b) BY <1>1, <1>3
  <2>2. r[i] = b[k + i] BY <1>4, <2>1
  <2>3. CASE r[i].cold BY <2>1, <2>2, <2>3 DEF Smooth
  <2>4. CASE i > 1 /\ ~r[i - 1].voice
    <3>1. i - 1 \in 1..(Len(b) - k) /\ k + (i - 1) = (k + i) - 1 /\ k + i > 1 BY <1>1, <1>3, <2>4
    <3>2. r[i - 1] = b[(k + i) - 1] BY <1>4, <3>1
    <3> QED BY <2>1, <2>2, <2>4, <3>1, <3>2 DEF Smooth
  <2> QED BY <2>3, <2>4
<1>8. NextSmooth(r, d)
  <2> SUFFICES ASSUME Len(r) > 0, ~r[Len(r)].voice PROVE d.armed \/ d.fresh BY DEF NextSmooth
  <2>1. Len(b) - k \in 1..(Len(b) - k) /\ k + (Len(b) - k) = Len(b) /\ Len(b) > 0 BY <1>1, <1>3
  <2>2. r[Len(r)] = b[Len(b)] BY <1>3, <1>4, <2>1
  <2> QED BY <2>1, <2>2 DEF NextSmooth
<1>9. ASSUME Unwritten(b, c, last) PROVE Unwritten(r, c, last)
  <2> SUFFICES ASSUME NEW i \in 1..Len(r), i > c PROVE last < r[i].id BY DEF Unwritten
  <2>1. i \in 1..(Len(b) - k) /\ k + i \in 1..Len(b) /\ k + i > c BY <1>1, <1>3
  <2>2. r[i] = b[k + i] BY <1>4, <2>1
  <2> QED BY <1>9, <2>1, <2>2 DEF Unwritten
<1> QED BY <1>2, <1>3, <1>6, <1>7, <1>8, <1>9 DEF r

\* The units of a concatenation.
LEMMA UnitsOfBoth ==
    ASSUME NEW b \in Seq(SoundUnit), NEW c \in Seq(SoundUnit)
    PROVE  /\ b \o c \in Seq(SoundUnit) /\ Len(b \o c) = Len(b) + Len(c)
           /\ Len(b) \in Nat /\ Len(c) \in Nat
           /\ \A i \in 1..Len(b) : (b \o c)[i] = b[i]
           /\ \A i \in 1..Len(c) : (b \o c)[Len(b) + i] = c[i]
           /\ \A i \in 1..(Len(b) + Len(c)) :
                 i \in 1..Len(b) \/ \E j \in 1..Len(c) : i = Len(b) + j
<1>1. Len(b) \in Nat /\ Len(c) \in Nat OBVIOUS
<1>2. /\ b \o c \in Seq(SoundUnit) /\ Len(b \o c) = Len(b) + Len(c)
      /\ \A i \in 1..(Len(b) + Len(c)) : (b \o c)[i] = IF i <= Len(b) THEN b[i] ELSE c[i - Len(b)]
  BY ConcatProperties
<1>3. ASSUME NEW i \in 1..Len(b) PROVE (b \o c)[i] = b[i]
  <2>1. i \in 1..(Len(b) + Len(c)) /\ i <= Len(b) BY <1>1
  <2> QED BY <1>2, <2>1
<1>4. ASSUME NEW i \in 1..Len(c) PROVE (b \o c)[Len(b) + i] = c[i]
  <2>1. /\ Len(b) + i \in 1..(Len(b) + Len(c)) /\ ~(Len(b) + i <= Len(b))
        /\ (Len(b) + i) - Len(b) = i
    BY <1>1
  <2> QED BY <1>2, <2>1
<1>5. ASSUME NEW i \in 1..(Len(b) + Len(c)), i \notin 1..Len(b)
      PROVE  \E j \in 1..Len(c) : i = Len(b) + j
  <2>1. i - Len(b) \in 1..Len(c) /\ i = Len(b) + (i - Len(b)) BY <1>1, <1>5
  <2> QED BY <2>1
<1> QED BY <1>1, <1>2, <1>3, <1>4, <1>5

\* New units at the end keep the order, and none of them has been written.
LEMMA GrowthKept ==
    ASSUME NEW b \in Seq(SoundUnit), NEW c \in Seq(SoundUnit), NEW n \in Nat, NEW cur \in Nat,
           NEW last \in Nat, last <= n, Ordered(b, n), \A i \in 1..Len(c) : c[i].id = n + i
    PROVE  /\ Ordered(b \o c, n + Len(c))
           /\ Unwritten(b, cur, last) => Unwritten(b \o c, cur, last)
<1> DEFINE a == b \o c
<1>1. /\ a \in Seq(SoundUnit) /\ Len(a) = Len(b) + Len(c) /\ Len(b) \in Nat /\ Len(c) \in Nat
      /\ \A i \in 1..Len(b) : a[i] = b[i]
      /\ \A i \in 1..Len(c) : a[Len(b) + i] = c[i]
      /\ \A i \in 1..Len(a) : i \in 1..Len(b) \/ \E j \in 1..Len(c) : i = Len(b) + j
  BY UnitsOfBoth
<1> HIDE DEF a
<1>0. Len(b) \in Nat /\ Len(c) \in Nat BY <1>1
<1>2. \A i \in 1..Len(b) : 1 <= b[i].id /\ b[i].id <= n /\ b[i].id \in Nat
  <2>1. \A i \in 1..Len(b) : b[i] \in SoundUnit OBVIOUS
  <2>2. \A i \in 1..Len(b) : b[i].id \in Nat BY <2>1 DEF SoundUnit
  <2> QED BY <2>2 DEF Ordered
<1>3. ASSUME NEW i \in 1..Len(a) PROVE 1 <= a[i].id /\ a[i].id <= n + Len(c)
  <2>1. CASE i \in 1..Len(b)
    <3>1. a[i] = b[i] BY <1>1, <2>1
    <3>2. 1 <= b[i].id /\ b[i].id <= n /\ b[i].id \in Nat BY <1>2, <2>1
    <3> QED BY <1>0, <3>1, <3>2
  <2>2. CASE i \notin 1..Len(b)
    <3>1. PICK j \in 1..Len(c) : i = Len(b) + j BY <1>1, <2>2
    <3>2. a[i].id = n + j BY <1>1, <3>1
    <3> QED BY <1>0, <3>2
  <2> QED BY <2>1, <2>2
<1>4. ASSUME NEW i \in 2..Len(a) PROVE a[i - 1].id < a[i].id
  <2>1. CASE i \in 1..Len(b)
    <3>1. i \in 2..Len(b) /\ i - 1 \in 1..Len(b) BY <1>0, <2>1
    <3> QED BY <1>1, <2>1, <3>1 DEF Ordered
  <2>2. CASE i \notin 1..Len(b)
    <3>0. i \in 1..Len(a) BY <1>1
    <3>1. PICK j \in 1..Len(c) : i = Len(b) + j BY <1>1, <2>2, <3>0
    <3>2. a[i].id = n + j BY <1>1, <3>1
    <3>3. CASE j = 1
      <4>1. i - 1 = Len(b) /\ Len(b) \in 1..Len(b) BY <1>0, <3>1, <3>3
      <4>2. a[i - 1].id <= n /\ a[i - 1].id \in Nat BY <1>1, <1>2, <4>1
      <4> QED BY <3>2, <3>3, <4>2
    <3>4. CASE j # 1
      <4>1. j - 1 \in 1..Len(c) /\ i - 1 = Len(b) + (j - 1) BY <1>0, <3>1, <3>4
      <4>2. a[i - 1].id = n + (j - 1) BY <1>1, <4>1
      <4> QED BY <3>2, <4>2
    <3> QED BY <3>3, <3>4
  <2> QED BY <2>1, <2>2
<1>5. ASSUME Unwritten(b, cur, last), NEW i \in 1..Len(a), i > cur PROVE last < a[i].id
  <2>1. CASE i \in 1..Len(b) BY <1>1, <1>5, <2>1 DEF Unwritten
  <2>2. CASE i \notin 1..Len(b)
    <3>1. PICK j \in 1..Len(c) : i = Len(b) + j BY <1>1, <2>2
    <3>2. a[i].id = n + j BY <1>1, <3>1
    <3> QED BY <3>2
  <2> QED BY <2>1, <2>2
<1>6. Ordered(a, n + Len(c)) BY <1>3, <1>4 DEF Ordered
<1>7. Unwritten(b, cur, last) => Unwritten(a, cur, last) BY <1>5 DEF Unwritten
<1> QED BY <1>6, <1>7 DEF a

\* Units at the end keep the edges smooth when their own edges are, and the
\* first of them is smooth where it meets silence.
LEMMA EdgesKept ==
    ASSUME NEW b \in Seq(SoundUnit), NEW c \in Seq(SoundUnit), Smooth(b), Smooth(c),
           Len(c) > 0 /\ Len(b) > 0 /\ c[1].voice /\ ~b[Len(b)].voice => c[1].soft
    PROVE  Smooth(b \o c)
<1> DEFINE a == b \o c
<1>1. /\ Len(a) = Len(b) + Len(c) /\ Len(b) \in Nat /\ Len(c) \in Nat
      /\ \A i \in 1..Len(b) : a[i] = b[i]
      /\ \A i \in 1..Len(c) : a[Len(b) + i] = c[i]
      /\ \A i \in 1..Len(a) : i \in 1..Len(b) \/ \E j \in 1..Len(c) : i = Len(b) + j
  BY UnitsOfBoth
<1> HIDE DEF a
<1>0. Len(b) \in Nat /\ Len(c) \in Nat BY <1>1
<1> SUFFICES ASSUME NEW i \in 1..Len(a), a[i].voice, a[i].cold \/ (i > 1 /\ ~a[i - 1].voice)
             PROVE  a[i].soft
  BY DEF Smooth, a
<1>2. CASE i \in 1..Len(b)
  <2>1. a[i] = b[i] BY <1>1, <1>2
  <2>2. i > 1 => i - 1 \in 1..Len(b) BY <1>0, <1>2
  <2>3. i > 1 => a[i - 1] = b[i - 1] BY <1>1, <2>2
  <2> QED BY <1>2, <2>1, <2>3 DEF Smooth
<1>3. CASE i \notin 1..Len(b)
  <2>1. PICK j \in 1..Len(c) : i = Len(b) + j BY <1>1, <1>3
  <2>2. a[i] = c[j] BY <1>1, <2>1
  <2>3. CASE c[j].cold BY <2>2, <2>3 DEF Smooth
  <2>4. CASE i > 1 /\ ~a[i - 1].voice
    <3>1. CASE j = 1
      <4>1. i - 1 = Len(b) /\ Len(b) \in 1..Len(b) /\ Len(b) > 0 /\ Len(c) > 0 BY <1>0, <2>1, <2>4, <3>1
      <4>2. a[i - 1] = b[Len(b)] BY <1>1, <4>1
      <4> QED BY <2>2, <2>4, <3>1, <4>1, <4>2
    <3>2. CASE j # 1
      <4>1. j - 1 \in 1..Len(c) /\ i - 1 = Len(b) + (j - 1) /\ j > 1 BY <1>0, <2>1, <3>2
      <4>2. a[i - 1] = c[j - 1] BY <1>1, <4>1
      <4> QED BY <2>2, <2>4, <4>1, <4>2 DEF Smooth
    <3> QED BY <3>1, <3>2
  <2> QED BY <2>2, <2>3, <2>4
<1> QED BY <1>2, <1>3

DecoderType == [on : BOOLEAN, last : Nat, next : Nat, armed : BOOLEAN, fresh : BOOLEAN]

MixerTypes ==
    /\ units \in Nat
    /\ buffers \in [Speakers -> Seq(SoundUnit)]
    /\ \A s \in Speakers : Len(buffers[s]) <= BufferCap
    /\ decoder \in [Speakers -> DecoderType]
    /\ cursor \in [Speakers -> Nat]
    /\ tape \in [Speakers -> [last : Nat, sound : BOOLEAN]]
    /\ \A s \in Speakers : tape[s].last <= units

BuffersOrdered == \A s \in Speakers : Ordered(buffers[s], units)
BuffersSmooth == \A s \in Speakers : Smooth(buffers[s]) /\ NextSmooth(buffers[s], decoder[s])
BuffersUnwritten ==
    recorder = "on" => \A s \in Speakers : Unwritten(buffers[s], cursor[s], tape[s].last)

MixerInv == MixerTypes /\ BuffersOrdered /\ BuffersSmooth /\ BuffersUnwritten /\ RecordedOnce

\* The decoder a packet meets.
LEMMA DecoderMet ==
    ASSUME MixerTypes, BuffersSmooth, NEW s \in Speakers, NEW seq
    PROVE  DecoderFor(s, seq) \in DecoderType /\ NextSmooth(buffers[s], DecoderFor(s, seq))
<1>0. NoSeq \in Nat BY MixerAssumption DEF NoSeq
<1>1. NewDecoder \in DecoderType /\ NewDecoder.fresh
  <2>1. NewDecoder = [on |-> TRUE, last |-> NoSeq, next |-> NoSeq, armed |-> FALSE, fresh |-> TRUE]
    <3> DEFINE r == [on |-> TRUE, last |-> NoSeq, next |-> NoSeq, armed |-> FALSE, fresh |-> TRUE]
    <3>1. DOMAIN NewDecoder = DOMAIN r BY DEF NewDecoder, NoDecoder
    <3>2. /\ NewDecoder.on = r.on /\ NewDecoder.last = r.last /\ NewDecoder.next = r.next
          /\ NewDecoder.armed = r.armed /\ NewDecoder.fresh = r.fresh
      BY DEF NewDecoder, NoDecoder
    <3> QED BY <3>1, <3>2 DEF NewDecoder, NoDecoder
  <2> QED BY <1>0, <2>1 DEF DecoderType
<1>2. decoder[s] \in DecoderType BY DEF MixerTypes
<1>3. DecoderFor(s, seq) \in {NewDecoder, decoder[s]} BY DEF DecoderFor
<1> QED BY <1>1, <1>2, <1>3 DEF BuffersSmooth, NextSmooth

\* Inserted silence.
LEMMA SilenceMade ==
    ASSUME MixerTypes, NEW b \in Seq(SoundUnit), Len(b) <= BufferCap, NEW wanted \in Nat
    PROVE  LET q == Silence(b, wanted)
           IN  /\ q \in Seq(SoundUnit) /\ Len(q) \in Nat /\ Len(q) <= wanted
               /\ \A i \in 1..Len(q) : q[i].id = units + i /\ ~q[i].voice
<1> DEFINE k == Min({wanted, BufferCap - Len(b)})
           q == Silence(b, wanted)
<1>1. BufferCap - Len(b) \in Nat BY MixerAssumption
<1>2. k \in Nat /\ k <= wanted BY <1>1, MinOfTwo
<1>3. q = [i \in 1..k |-> [id |-> units + i, voice |-> FALSE, cold |-> FALSE, soft |-> FALSE]]
  BY DEF Silence
<1> HIDE DEF k, q
<1>4. units \in Nat BY DEF MixerTypes
<1>5. \A i \in 1..k : [id |-> units + i, voice |-> FALSE, cold |-> FALSE, soft |-> FALSE] \in SoundUnit
  BY <1>2, <1>4 DEF SoundUnit
<1>6. q \in Seq(SoundUnit) /\ Len(q) = k BY <1>2, <1>3, <1>5
<1>7. \A i \in 1..k : q[i].id = units + i /\ ~q[i].voice BY <1>3
<1> QED BY <1>2, <1>6, <1>7 DEF q

\* A decoded frame; only its first unit has an edge, smoothed when the
\* decoder is fresh or armed.
LEMMA FrameMade ==
    ASSUME NEW first \in Nat, NEW n \in Nat, NEW d \in DecoderType
    PROVE  LET f == Frame(first, n, d)
           IN  /\ f \in Seq(SoundUnit) /\ Len(f) = n /\ Smooth(f)
               /\ \A i \in 1..n : f[i].id = first + i /\ f[i].voice
               /\ n > 0 /\ (d.armed \/ d.fresh) => f[1].soft
<1> DEFINE f == Frame(first, n, d)
           u(i) == [id |-> first + i, voice |-> TRUE, cold |-> i = 1 /\ d.fresh,
                    soft |-> i = 1 /\ (d.fresh \/ d.armed)]
<1>1. f = [i \in 1..n |-> u(i)] BY DEF Frame
<1>2. \A i \in 1..n : u(i) \in SoundUnit BY DEF SoundUnit
<1>3. \A i \in 1..n : /\ u(i).id = first + i /\ u(i).voice = TRUE
                      /\ u(i).cold = (i = 1 /\ d.fresh)
                      /\ u(i).soft = (i = 1 /\ (d.fresh \/ d.armed))
  OBVIOUS
<1> HIDE DEF u, f
<1>4. f \in Seq(SoundUnit) /\ Len(f) = n BY <1>1, <1>2
<1>5. \A i \in 1..n : f[i] = u(i) BY <1>1
<1>6. \A i \in 1..n : f[i].id = first + i /\ f[i].voice = TRUE BY <1>3, <1>5
<1>7. Smooth(f)
  <2> SUFFICES ASSUME NEW i \in 1..n, f[i].cold \/ (i > 1 /\ ~f[i - 1].voice) PROVE f[i].soft
    BY <1>4 DEF Smooth
  <2>1. i > 1 => i - 1 \in 1..n OBVIOUS
  <2>2. f[i].cold BY <1>6, <2>1
  <2> QED BY <1>3, <1>5, <2>2
<1>8. n > 0 /\ (d.armed \/ d.fresh) => f[1].soft
  <2> SUFFICES ASSUME n > 0, d.armed \/ d.fresh PROVE f[1].soft OBVIOUS
  <2>1. 1 \in 1..n OBVIOUS
  <2> QED BY <1>3, <1>5, <2>1
<1> QED BY <1>4, <1>6, <1>7, <1>8 DEF f

\* feed: what it leaves of the buffer, the decoder and the count of units.
LEMMA FedKept ==
    ASSUME MixerTypes, BuffersOrdered, BuffersSmooth, NEW s \in Speakers, NEW seq \in Nat, NEW n \in Nat,
           NEW cur \in Nat, NEW last \in Nat, last <= units
    PROVE  LET fed == Fed(s, seq, n)
           IN  /\ fed.units \in Nat /\ units <= fed.units
               /\ fed.buffer \in Seq(SoundUnit) /\ Len(fed.buffer) <= BufferCap
               /\ fed.decoder \in DecoderType
               /\ Ordered(fed.buffer, fed.units) /\ Smooth(fed.buffer)
               /\ NextSmooth(fed.buffer, fed.decoder)
               /\ Unwritten(buffers[s], cur, last) => Unwritten(fed.buffer, cur, last)
<1> DEFINE b == buffers[s]
           old == DecoderFor(s, seq)
           gap == CertainGap(old.next, seq)
           d == [old EXCEPT !.last = seq, !.armed = old.armed \/ gap > 0]
           sil == Silence(b, gap)
           quiet == b \o sil
           made == Len(quiet) - Len(b)
           frm == Frame(units + made, n, d)
           all == quiet \o frm
           over == Len(all) - Min({Len(all), BufferCap})
           fed == Fed(s, seq, n)
<1>1. /\ fed.buffer = SubSeq(all, over + 1, Len(all)) /\ fed.units = units + made + n
      /\ fed.decoder = IF n = 0 THEN d ELSE [d EXCEPT !.next = seq + n, !.fresh = FALSE, !.armed = FALSE]
  BY DEF Fed, PushSamples
<1>2. /\ units \in Nat /\ BufferCap \in Nat /\ b \in Seq(SoundUnit) /\ Len(b) \in Nat
      /\ Len(b) <= BufferCap /\ Ordered(b, units) /\ Smooth(b)
  BY MixerAssumption DEF MixerTypes, BuffersOrdered, BuffersSmooth
<1>3. old \in DecoderType /\ NextSmooth(b, old) BY DecoderMet
<1> HIDE DEF old, b, fed
<1>4. gap \in Nat
  <2>1. old.next \in Nat BY <1>3 DEF DecoderType
  <2>2. CASE old.next = NoSeq \/ seq <= old.next + GapTolerance BY <2>2 DEF CertainGap
  <2>3. CASE ~(old.next = NoSeq \/ seq <= old.next + GapTolerance)
    <3>1. gap = Min({seq - old.next, BufferCap}) BY <2>3 DEF CertainGap
    <3>2. seq - old.next \in Nat BY <2>1, <2>3, MixerAssumption
    <3> QED BY <1>2, <3>1, <3>2, MinOfTwo
  <2> QED BY <2>2, <2>3
<1> HIDE DEF gap
<1>5. d \in DecoderType
  <2>1. (old.armed \/ gap > 0) \in BOOLEAN OBVIOUS
  <2>2. ASSUME NEW x \in BOOLEAN PROVE [old EXCEPT !.last = seq, !.armed = x] \in DecoderType
    BY <1>3 DEF DecoderType
  <2> QED BY <2>1, <2>2
<1>6. d.armed = (old.armed \/ gap > 0) /\ d.fresh = old.fresh
  <2>1. ASSUME NEW x PROVE /\ [old EXCEPT !.last = seq, !.armed = x].armed = x
                           /\ [old EXCEPT !.last = seq, !.armed = x].fresh = old.fresh
    BY <1>3 DEF DecoderType
  <2> QED BY <2>1
<1> HIDE DEF d
<1>7. /\ sil \in Seq(SoundUnit) /\ Len(sil) \in Nat /\ Len(sil) <= gap
      /\ \A i \in 1..Len(sil) : sil[i].id = units + i /\ ~sil[i].voice
  BY <1>2, <1>4, SilenceMade
<1> HIDE DEF sil
<1>8. /\ quiet \in Seq(SoundUnit) /\ Len(quiet) = Len(b) + Len(sil) /\ Len(quiet) \in Nat
      /\ \A i \in 1..Len(b) : quiet[i] = b[i]
      /\ \A i \in 1..Len(sil) : quiet[Len(b) + i] = sil[i]
  BY <1>2, <1>7, UnitsOfBoth
<1>9. Ordered(quiet, units + Len(sil)) /\ (Unwritten(b, cur, last) => Unwritten(quiet, cur, last))
  BY <1>2, <1>7, GrowthKept
<1>10. Smooth(quiet)
  <2>1. Smooth(sil) BY <1>7 DEF Smooth
  <2>2. Len(sil) > 0 => ~sil[1].voice BY <1>7
  <2> QED BY <1>2, <1>7, <2>1, <2>2, EdgesKept
<1> HIDE DEF quiet
<1>11. NextSmooth(quiet, d)
  <2> SUFFICES ASSUME Len(quiet) > 0, ~quiet[Len(quiet)].voice PROVE d.armed \/ d.fresh
    BY DEF NextSmooth
  <2>1. CASE Len(sil) > 0
    <3>1. gap > 0 BY <1>4, <1>7, <2>1
    <3> QED BY <1>6, <3>1
  <2>2. CASE ~(Len(sil) > 0)
    <3>1. Len(quiet) = Len(b) /\ Len(b) \in 1..Len(b) BY <1>2, <1>7, <1>8, <2>2
    <3>2. quiet[Len(quiet)] = b[Len(b)] BY <1>8, <3>1
    <3>3. old.armed \/ old.fresh BY <1>3, <3>1, <3>2 DEF NextSmooth
    <3> QED BY <1>6, <3>3
  <2> QED BY <2>1, <2>2
<1>12. made = Len(sil) BY <1>2, <1>7, <1>8
<1>13. units + made \in Nat BY <1>2, <1>7, <1>12
<1>14. /\ frm \in Seq(SoundUnit) /\ Len(frm) = n /\ Smooth(frm)
       /\ \A i \in 1..n : frm[i].id = (units + made) + i /\ frm[i].voice
       /\ n > 0 /\ (d.armed \/ d.fresh) => frm[1].soft
  BY <1>5, <1>13, FrameMade
<1>15. last <= units + made /\ Ordered(quiet, units + made)
  <2>1. Ordered(quiet, units + made) BY <1>9, <1>12
  <2>2. last <= units + made BY <1>2, <1>7, <1>12
  <2> QED BY <2>1, <2>2
<1> HIDE DEF frm, made
<1>16. /\ Ordered(all, (units + made) + n)
       /\ Unwritten(b, cur, last) => Unwritten(all, cur, last)
  BY <1>8, <1>9, <1>13, <1>14, <1>15, GrowthKept
<1>17. Smooth(all)
  <2>1. Len(frm) > 0 /\ Len(quiet) > 0 /\ frm[1].voice /\ ~quiet[Len(quiet)].voice => frm[1].soft
    BY <1>11, <1>14 DEF NextSmooth
  <2> QED BY <1>8, <1>10, <1>14, <2>1, EdgesKept
<1>18. /\ all \in Seq(SoundUnit) /\ Len(all) = Len(quiet) + n /\ Len(all) \in Nat
       /\ \A i \in 1..Len(quiet) : all[i] = quiet[i]
       /\ \A i \in 1..n : all[Len(quiet) + i] = frm[i]
  BY <1>8, <1>14, UnitsOfBoth
<1> HIDE DEF all
<1>19. fed.decoder \in DecoderType /\ NextSmooth(all, fed.decoder)
  <2>1. CASE n = 0
    <3>1. fed.decoder = d BY <1>1, <2>1
    <3>2. Len(all) = Len(quiet) /\ (Len(quiet) > 0 => Len(quiet) \in 1..Len(quiet)) BY <1>8, <1>18, <2>1
    <3>3. Len(quiet) > 0 => all[Len(all)] = quiet[Len(quiet)] BY <1>18, <3>2
    <3> QED BY <1>5, <1>11, <3>1, <3>2, <3>3 DEF NextSmooth
  <2>2. CASE n # 0
    <3>1. fed.decoder = [d EXCEPT !.next = seq + n, !.fresh = FALSE, !.armed = FALSE] BY <1>1, <2>2
    <3>2. seq + n \in Nat OBVIOUS
    <3>3. fed.decoder \in DecoderType BY <1>5, <3>1, <3>2 DEF DecoderType
    <3>4. n \in 1..n BY <2>2
    <3>5. all[Len(all)] = frm[n] /\ frm[n].voice BY <1>14, <1>18, <3>4
    <3> QED BY <3>3, <3>5 DEF NextSmooth
  <2> QED BY <2>1, <2>2
<1>20. /\ over \in Nat /\ over <= Len(all) /\ Len(all) - over <= BufferCap
  <2>1. Min({Len(all), BufferCap}) = IF Len(all) <= BufferCap THEN Len(all) ELSE BufferCap
    BY <1>2, <1>18, MinOfTwo
  <2> QED BY <1>2, <1>18, <2>1
<1> HIDE DEF over
<1>21. /\ (units + made) + n \in Nat /\ fed.units = (units + made) + n /\ units <= (units + made) + n
  BY <1>1, <1>2, <1>7, <1>12
<1>22. /\ fed.buffer \in Seq(SoundUnit) /\ Len(fed.buffer) = Len(all) - over
       /\ Ordered(fed.buffer, fed.units) /\ Smooth(fed.buffer) /\ NextSmooth(fed.buffer, fed.decoder)
       /\ Unwritten(all, cur, last) => Unwritten(fed.buffer, cur, last)
  <2> DEFINE dec == fed.decoder
             num == (units + made) + n
             r == SubSeq(all, over + 1, Len(all))
  <2>1. Ordered(all, num) /\ NextSmooth(all, dec) /\ num \in Nat BY <1>16, <1>19, <1>21
  <2>2. fed.buffer = r /\ fed.units = num BY <1>1, <1>21
  <2> HIDE DEF dec, num
  <2>3. /\ r \in Seq(SoundUnit) /\ Len(r) = Len(all) - over
        /\ Ordered(r, num) /\ Smooth(r) /\ NextSmooth(r, dec)
        /\ Unwritten(all, cur, last) => Unwritten(r, cur, last)
    BY <1>17, <1>18, <1>20, <2>1, FrontLeaves
  <2> QED BY <2>2, <2>3 DEF dec
<1> QED BY <1>16, <1>19, <1>20, <1>21, <1>22 DEF fed, b

\* Empty buffers and no decoders: a playback that starts or stops.
LEMMA ClearKept ==
    ASSUME MixerInv, UNCHANGED <<cursor, tape, units>>, recorder' \in {recorder, "stale"},
           decoder' = [s \in Speakers |-> NoDecoder], buffers' = [s \in Speakers |-> << >>]
    PROVE  MixerInv'
<1> USE DEF MixerInv
<1>1. NoDecoder \in DecoderType
  <2>1. NoSeq \in Nat BY MixerAssumption DEF NoSeq
  <2> QED BY <2>1 DEF NoDecoder, DecoderType
<1>2. << >> \in Seq(SoundUnit) /\ Len(<< >>) = 0 OBVIOUS
<1>3. MixerTypes' BY <1>1, <1>2, MixerAssumption DEF MixerTypes
<1>4. \A s \in Speakers : Len(buffers'[s]) = 0 BY <1>2
<1>5. BuffersOrdered' BY <1>4 DEF BuffersOrdered, Ordered
<1>6. BuffersSmooth' BY <1>4 DEF BuffersSmooth, Smooth, NextSmooth
<1>7. BuffersUnwritten' BY <1>4 DEF BuffersUnwritten, Unwritten
<1>8. RecordedOnce' BY DEF RecordedOnce
<1> QED BY <1>3, <1>5, <1>6, <1>7, <1>8

\* on_udp.
LEMMA AudioKept ==
    ASSUME MixerInv, NEW s \in Speakers, NEW seq \in Nat, NEW n \in Nat, NEW terminator \in BOOLEAN,
           Audio(s, seq, n, terminator)
    PROVE  MixerInv'
<1> USE DEF MixerInv
<1> DEFINE fed == Fed(s, seq, n)
           d == IF terminator THEN NoDecoder ELSE fed.decoder
<1>1. /\ buffers' = [buffers EXCEPT ![s] = fed.buffer] /\ units' = fed.units
      /\ decoder' = [decoder EXCEPT ![s] = d]
      /\ UNCHANGED <<recorder, cursor, tape>>
  BY DEF Audio, recorderVars
<1>2. /\ units \in Nat /\ cursor[s] \in Nat /\ tape[s].last \in Nat /\ tape[s].last <= units
  BY DEF MixerTypes
<1>3. /\ fed.units \in Nat /\ units <= fed.units
      /\ fed.buffer \in Seq(SoundUnit) /\ Len(fed.buffer) <= BufferCap
      /\ fed.decoder \in DecoderType
      /\ Ordered(fed.buffer, fed.units) /\ Smooth(fed.buffer)
      /\ NextSmooth(fed.buffer, fed.decoder)
      /\ Unwritten(buffers[s], cursor[s], tape[s].last)
            => Unwritten(fed.buffer, cursor[s], tape[s].last)
  BY <1>2, FedKept
<1> HIDE DEF fed
<1>4. d \in DecoderType /\ NextSmooth(fed.buffer, d)
  <2>1. NoSeq \in Nat BY MixerAssumption DEF NoSeq
  <2>2. NoDecoder \in DecoderType /\ NoDecoder.fresh BY <2>1 DEF NoDecoder, DecoderType
  <2> QED BY <1>3, <2>2 DEF NextSmooth
<1> HIDE DEF d
<1>5. /\ buffers \in [Speakers -> Seq(SoundUnit)] /\ decoder \in [Speakers -> DecoderType]
  BY DEF MixerTypes
<1>6. buffers'[s] = fed.buffer /\ decoder'[s] = d BY <1>1, <1>5
<1>7. \A t \in Speakers \ {s} : buffers'[t] = buffers[t] /\ decoder'[t] = decoder[t] BY <1>1, <1>5
<1>8. \A t \in Speakers : tape[t].last <= fed.units
  <2> SUFFICES ASSUME NEW t \in Speakers PROVE tape[t].last <= fed.units OBVIOUS
  <2>1. tape[t].last \in Nat /\ tape[t].last <= units BY DEF MixerTypes
  <2> QED BY <1>2, <1>3, <2>1
<1>9. MixerTypes'
  <2>1. buffers' \in [Speakers -> Seq(SoundUnit)] BY <1>1, <1>3, <1>5
  <2>2. decoder' \in [Speakers -> DecoderType] BY <1>1, <1>4, <1>5
  <2>3. \A t \in Speakers : Len(buffers'[t]) <= BufferCap BY <1>3, <1>6, <1>7 DEF MixerTypes
  <2> QED BY <1>1, <1>3, <1>8, <2>1, <2>2, <2>3 DEF MixerTypes
<1>10. BuffersOrdered'
  <2> SUFFICES ASSUME NEW t \in Speakers PROVE Ordered(buffers'[t], fed.units)
    BY <1>1 DEF BuffersOrdered
  <2>1. CASE t = s BY <1>3, <1>6, <2>1
  <2>2. CASE t # s
    <3>1. buffers'[t] = buffers[t] /\ Ordered(buffers[t], units) BY <1>7, <2>2 DEF BuffersOrdered
    <3>2. \A i \in 1..Len(buffers[t]) : buffers[t][i] \in SoundUnit BY <1>5
    <3>3. \A i \in 1..Len(buffers[t]) : buffers[t][i].id \in Nat BY <3>2 DEF SoundUnit
    <3>4. \A i \in 1..Len(buffers[t]) : buffers[t][i].id <= fed.units
      BY <1>2, <1>3, <3>1, <3>3 DEF Ordered
    <3> QED BY <3>1, <3>4 DEF Ordered
  <2> QED BY <2>1, <2>2
<1>11. BuffersSmooth'
  <2> SUFFICES ASSUME NEW t \in Speakers
               PROVE  Smooth(buffers'[t]) /\ NextSmooth(buffers'[t], decoder'[t])
    BY DEF BuffersSmooth
  <2>1. CASE t = s BY <1>3, <1>4, <1>6, <2>1
  <2>2. CASE t # s BY <1>7, <2>2 DEF BuffersSmooth
  <2> QED BY <2>1, <2>2
<1>12. BuffersUnwritten'
  <2> SUFFICES ASSUME recorder = "on", NEW t \in Speakers
               PROVE  Unwritten(buffers'[t], cursor[t], tape[t].last)
    BY <1>1 DEF BuffersUnwritten
  <2>1. Unwritten(buffers[t], cursor[t], tape[t].last) BY DEF BuffersUnwritten
  <2>2. CASE t = s BY <1>3, <1>6, <2>1, <2>2
  <2>3. CASE t # s BY <1>7, <2>1, <2>3
  <2> QED BY <2>2, <2>3
<1>13. RecordedOnce' BY <1>1 DEF RecordedOnce
<1> QED BY <1>9, <1>10, <1>11, <1>12, <1>13

\* The playback callback drains every buffer from the front.
LEMMA DrainKept ==
    ASSUME MixerInv, Drain, UNCHANGED <<recorder, cursor, tape, units, decoder>>
    PROVE  MixerInv'
<1> USE DEF MixerInv
<1>1. ASSUME NEW s \in Speakers
      PROVE  /\ buffers'[s] \in Seq(SoundUnit) /\ Len(buffers'[s]) <= BufferCap
             /\ Ordered(buffers'[s], units)
             /\ Smooth(buffers'[s]) /\ NextSmooth(buffers'[s], decoder[s])
             /\ Unwritten(buffers[s], cursor[s], tape[s].last)
                   => Unwritten(buffers'[s], cursor[s], tape[s].last)
  <2> DEFINE b == buffers[s]
             k == Min({MixChunk, Len(b)})
  <2>1. /\ b \in Seq(SoundUnit) /\ Len(b) \in Nat /\ Len(b) <= BufferCap /\ units \in Nat
        /\ cursor[s] \in Nat /\ tape[s].last \in Nat
    BY DEF MixerTypes
  <2>2. k \in Nat /\ k <= Len(b)
    <3>1. MixChunk \in Nat BY MixerAssumption
    <3>2. k = IF MixChunk <= Len(b) THEN MixChunk ELSE Len(b) BY <2>1, <3>1, MinOfTwo
    <3> HIDE DEF k
    <3>3. Len(b) \in Nat BY <2>1
    <3> QED BY <3>1, <3>2, <3>3
  <2>3. 1 + k = k + 1 BY <2>2
  <2>4. buffers'[s] = SubSeq(b, k + 1, Len(b)) BY <2>3 DEF Drain
  <2>5. Ordered(b, units) /\ Smooth(b) /\ NextSmooth(b, decoder[s])
    BY DEF BuffersOrdered, BuffersSmooth
  <2> DEFINE l == tape[s].last
             c == cursor[s]
             r == SubSeq(b, k + 1, Len(b))
             d == decoder[s]
  <2>6. NextSmooth(b, d) /\ c \in Nat /\ l \in Nat BY <2>1, <2>5
  <2>8. BufferCap \in Nat BY MixerAssumption
  <2> HIDE DEF k, b, l, c, d
  <2>7. /\ r \in Seq(SoundUnit) /\ Len(r) = Len(b) - k
        /\ Ordered(r, units) /\ Smooth(r) /\ NextSmooth(r, d)
        /\ Unwritten(b, c, l) => Unwritten(r, c, l)
    BY <2>1, <2>2, <2>5, <2>6, FrontLeaves
  <2>9. Len(r) <= BufferCap BY <2>1, <2>2, <2>7, <2>8
  <2> HIDE DEF r
  <2> QED BY <2>4, <2>7, <2>9 DEF b, l, c, d, r
<1>2. buffers' = [s \in Speakers |-> buffers'[s]] BY DEF Drain
<1>3. buffers' \in [Speakers -> Seq(SoundUnit)] BY <1>1, <1>2
<1>4. MixerTypes' BY <1>1, <1>3 DEF MixerTypes
<1>5. BuffersOrdered' BY <1>1 DEF BuffersOrdered
<1>6. BuffersSmooth' BY <1>1 DEF BuffersSmooth
<1>7. BuffersUnwritten' BY <1>1 DEF BuffersUnwritten
<1>8. RecordedOnce' BY DEF RecordedOnce
<1> QED BY <1>4, <1>5, <1>6, <1>7, <1>8

\* A visit of the recorder.
LEMMA SnapshotKept ==
    ASSUME MixerInv, Snapshot
    PROVE  MixerInv'
<1> USE DEF MixerInv
<1>1. /\ cursor' = [s \in Speakers |-> Len(buffers[s])]
      /\ UNCHANGED <<recorder, buffers, decoder, units>> /\ recorder = "on"
  BY DEF Snapshot
<1>2. ASSUME NEW s \in Speakers
      PROVE  /\ tape'[s] \in [last : Nat, sound : BOOLEAN]
             /\ tape'[s].last <= units /\ tape'[s].sound
  <2> DEFINE b == buffers[s]
             from == NewFrom(s)
             l == Len(b) - from
             new == [i \in 1..l |-> b[from + i].id]
  <2>0. /\ b \in Seq(SoundUnit) /\ Len(b) \in Nat /\ cursor[s] \in Nat
        /\ tape[s] \in [last : Nat, sound : BOOLEAN] /\ tape[s].last <= units /\ tape[s].sound
    BY DEF MixerTypes, RecordedOnce
  <2>1. from = IF cursor[s] <= Len(b) THEN cursor[s] ELSE Len(b) BY <2>0, MinOfTwo DEF NewFrom
  <2>2. tape'[s] = IF new = << >> THEN tape[s]
                   ELSE [last |-> new[Len(new)],
                         sound |-> /\ tape[s].sound /\ tape[s].last < new[1]
                                   /\ \A i \in 2..Len(new) : new[i - 1] < new[i]]
    BY DEF Snapshot
  <2>3. Ordered(b, units) /\ Unwritten(b, cursor[s], tape[s].last)
    BY <1>1 DEF BuffersOrdered, BuffersUnwritten
  <2> HIDE DEF b, from
  <2>4. from \in Nat /\ from <= Len(b) /\ l \in Nat /\ (l > 0 => from = cursor[s])
    BY <2>0, <2>1
  <2>5. \A i \in 1..Len(b) : b[i].id \in Nat
    <3>1. \A i \in 1..Len(b) : b[i] \in SoundUnit BY <2>0
    <3> QED BY <3>1 DEF SoundUnit
  <2>6. \A i \in 1..l : from + i \in 1..Len(b) BY <2>0, <2>4
  <2>7. \A i \in 1..l : new[i] = b[from + i].id /\ new[i] \in Nat BY <2>5, <2>6
  <2>8. new \in Seq(Nat) /\ Len(new) = l
    <3>1. \A i \in 1..l : b[from + i].id \in Nat BY <2>5, <2>6
    <3> HIDE DEF l
    <3> QED BY <2>4, <3>1
  <2>9. CASE new = << >> BY <2>0, <2>2, <2>9
  <2>10. CASE new # << >>
    <3>1. l > 0 /\ 1 \in 1..l /\ l \in 1..l BY <2>4, <2>8, <2>10
    <3> HIDE DEF new
    <3>2. tape[s].last < new[1]
      <4>1. from + 1 \in 1..Len(b) /\ from + 1 > cursor[s] BY <2>0, <2>4, <2>6, <3>1
      <4> QED BY <2>3, <2>7, <3>1, <4>1 DEF Unwritten
    <3>3. ASSUME NEW i \in 2..l PROVE new[i - 1] < new[i]
      <4>1. i - 1 \in 1..l /\ i \in 1..l BY <2>4
      <4>2. from + i \in 2..Len(b) /\ from + (i - 1) = (from + i) - 1 BY <2>4, <2>6, <4>1
      <4>3. b[(from + i) - 1].id < b[from + i].id BY <2>3, <4>2 DEF Ordered
      <4> QED BY <2>7, <4>1, <4>2, <4>3
    <3>4. new[l] \in Nat /\ new[l] <= units BY <2>3, <2>6, <2>7, <3>1 DEF Ordered
    <3>5. tape'[s] = [last |-> new[l], sound |-> TRUE] BY <2>0, <2>2, <2>8, <2>10, <3>2, <3>3
    <3> QED BY <3>4, <3>5
  <2> QED BY <2>9, <2>10
<1>3. tape' = [s \in Speakers |-> tape'[s]] BY DEF Snapshot
<1>4. tape' \in [Speakers -> [last : Nat, sound : BOOLEAN]] BY <1>2, <1>3
<1>5. \A s \in Speakers : Len(buffers[s]) \in Nat BY DEF MixerTypes
<1>6. MixerTypes' BY <1>1, <1>2, <1>4, <1>5 DEF MixerTypes
<1>7. BuffersOrdered' /\ BuffersSmooth' BY <1>1 DEF BuffersOrdered, BuffersSmooth
<1>8. BuffersUnwritten'
  <2> SUFFICES ASSUME NEW s \in Speakers, NEW i \in 1..Len(buffers[s]), i > Len(buffers[s])
               PROVE  FALSE
    BY <1>1 DEF BuffersUnwritten, Unwritten
  <2> QED BY <1>5
<1>9. RecordedOnce' BY <1>2 DEF RecordedOnce
<1> QED BY <1>6, <1>7, <1>8, <1>9

\* Every step of the inbound path.
LEMMA MixerKept == MixerInv /\ [MixerNext]_mixerVars => MixerInv'
<1> SUFFICES ASSUME MixerInv, [MixerNext]_mixerVars PROVE MixerInv' OBVIOUS
<1> USE DEF MixerInv
<1>1. ASSUME UNCHANGED <<units, buffers, decoder, cursor, tape>>, recorder' \in {recorder, "off"}
      PROVE  MixerInv'
  BY <1>1 DEF MixerTypes, BuffersOrdered, BuffersSmooth, BuffersUnwritten, RecordedOnce
<1>2. ASSUME NEW s \in Speakers, NEW seq \in 0..MaxSeq, NEW n \in 0..MaxFrame,
             NEW terminator \in BOOLEAN, Audio(s, seq, n, terminator)
      PROVE  MixerInv'
  <2>1. seq \in Nat /\ n \in Nat BY MixerAssumption
  <2> QED BY <1>2, <2>1, AudioKept
<1>3. CASE Refill
  <2>1. UNCHANGED <<recorder, cursor, tape, units, decoder>> BY <1>3 DEF Refill, recorderVars
  <2>2. Drain \/ UNCHANGED buffers BY <1>3 DEF Refill, RefillWaits, RefillPlays, RefillEmpty
  <2> QED BY <1>1, <2>1, <2>2, DrainKept
<1>4. CASE StartPlayback
  <2>1. recorder' \in {recorder, "stale"} BY <1>4 DEF StartPlayback
  <2> QED BY <1>4, <2>1, ClearKept DEF StartPlayback
<1>5. CASE StopPlayback BY <1>5, ClearKept DEF StopPlayback, recorderVars
<1>6. CASE StartRecording
  <2>1. /\ cursor' = [s \in Speakers |-> 0] /\ tape' = [s \in Speakers |-> BlankTape]
        /\ UNCHANGED <<units, buffers, decoder>>
    BY <1>6 DEF StartRecording
  <2>2. BlankTape \in [last : Nat, sound : BOOLEAN] /\ BlankTape.last = 0 /\ BlankTape.sound = TRUE
    BY DEF BlankTape
  <2>3. units \in Nat BY DEF MixerTypes
  <2>4. \A s \in Speakers : tape'[s].last <= units BY <2>1, <2>2, <2>3
  <2>5. tape' \in [Speakers -> [last : Nat, sound : BOOLEAN]] BY <2>1, <2>2
  <2>6. MixerTypes' BY <2>1, <2>4, <2>5 DEF MixerTypes
  <2>7. BuffersOrdered' /\ BuffersSmooth' BY <2>1 DEF BuffersOrdered, BuffersSmooth
  <2>8. BuffersUnwritten'
    <3> SUFFICES ASSUME NEW s \in Speakers, NEW i \in 1..Len(buffers[s]) PROVE 0 < buffers[s][i].id
      BY <2>1, <2>2 DEF BuffersUnwritten, Unwritten
    <3>1. buffers[s][i] \in SoundUnit BY DEF MixerTypes
    <3>2. buffers[s][i].id \in Nat BY <3>1 DEF SoundUnit
    <3>3. 1 <= buffers[s][i].id BY DEF BuffersOrdered, Ordered
    <3> QED BY <3>2, <3>3
  <2>9. RecordedOnce' BY <2>1, <2>2 DEF RecordedOnce
  <2> QED BY <2>6, <2>7, <2>8, <2>9
<1>7. CASE StopRecording BY <1>1, <1>7 DEF StopRecording
<1>8. CASE Snapshot BY <1>8, SnapshotKept
<1>9. CASE UNCHANGED mixerVars BY <1>1, <1>9 DEF mixerVars
<1> QED BY <1>2, <1>3, <1>4, <1>5, <1>6, <1>7, <1>8, <1>9 DEF MixerNext

\* The first state of the inbound path.
LEMMA MixerStart == MixerInit => MixerInv
<1> SUFFICES ASSUME MixerInit PROVE MixerInv OBVIOUS
<1>1. NoDecoder \in DecoderType
  <2>1. NoSeq \in Nat BY MixerAssumption DEF NoSeq
  <2> QED BY <2>1 DEF NoDecoder, DecoderType
<1>2. << >> \in Seq(SoundUnit) /\ Len(<< >>) = 0 OBVIOUS
<1>3. BlankTape \in [last : Nat, sound : BOOLEAN] /\ BlankTape.last = 0 /\ BlankTape.sound = TRUE
  BY DEF BlankTape
<1>4. \A s \in Speakers : Len(buffers[s]) = 0 /\ tape[s] = BlankTape BY <1>2 DEF MixerInit
<1>5. MixerTypes
  <2>1. /\ buffers \in [Speakers -> Seq(SoundUnit)] /\ decoder \in [Speakers -> DecoderType]
        /\ tape \in [Speakers -> [last : Nat, sound : BOOLEAN]] /\ cursor \in [Speakers -> Nat]
        /\ units = 0
    BY <1>1, <1>2, <1>3 DEF MixerInit
  <2>2. BufferCap \in Nat BY MixerAssumption
  <2> QED BY <1>3, <1>4, <2>1, <2>2 DEF MixerTypes
<1>6. BuffersOrdered BY <1>4 DEF BuffersOrdered, Ordered
<1>7. BuffersSmooth BY <1>4 DEF BuffersSmooth, Smooth, NextSmooth
<1>8. BuffersUnwritten BY <1>4 DEF BuffersUnwritten, Unwritten
<1>9. RecordedOnce BY <1>3, <1>4 DEF RecordedOnce
<1> QED BY <1>5, <1>6, <1>7, <1>8, <1>9 DEF MixerInv

\* A recording holds no sample twice and none out of order, for every buffer,
\* chunk and packet size, and however the playback callback, the mixer's cap
\* and the visits of the recorder interleave (snapshot_and_mix,
\* batch_drain_speakers, push_samples).
THEOREM RecordedCorrect == MixerSpec => []RecordedOnce
<1>1. MixerInv => RecordedOnce BY DEF MixerInv
<1> QED BY <1>1, MixerStart, MixerKept, PTL DEF MixerSpec

\* The buffers of the speakers never hold a hard edge: the mixer's half of
\* NoClicks, for every gap, stream restart, lost packet and overflow (feed,
\* insert_silence, push_samples, reset_speaker).
THEOREM EdgesCorrect == MixerSpec => []NoHardEdge
<1>1. MixerInv => NoHardEdge BY DEF MixerInv, BuffersSmooth, Smooth, NoHardEdge
<1> QED BY <1>1, MixerStart, MixerKept, PTL DEF MixerSpec

\* Neither backend lets the listener hear a step, however the mixer and the
\* callbacks of the devices interleave.
THEOREM NoClicksCorrect == MixerSpec /\ DevicesSpec => []NoClicks
<1>1. NoHardEdge /\ RampsBack => NoClicks BY DEF NoClicks
<1> QED BY <1>1, EdgesCorrect, RampsCorrect, PTL

-----------------------------------------------------------------------------
(* Voice commands.  As long as nothing is muddled, at most one command is  *)
(* under way; the invariant says what the state is like at each of its     *)
(* steps: only the active session has a call or plays anything, a capture  *)
(* loop that runs is the one the active session holds, and none runs where *)
(* a step is about to start one or to move to another session.             *)

CallTasks == {t \in Tasks : task[t].kind = "call"}

VoiceTypes ==
    /\ inner \in AppSessions
    /\ voice \in [AppSessions -> {"Inactive", "Active", "Muted"}]
    /\ out \in [AppSessions -> {0} \cup Tasks]
    /\ play \in [AppSessions -> BOOLEAN]
    /\ task = [t \in Tasks |-> task[t]]
    /\ order = [w \in Workers |-> order[w]]
    /\ refusals \in Nat /\ refusals <= MaxRefusals

\* The other sessions are not in a call.
OthersRest ==
    \A s \in AppSessions \ {inner} :
        voice[s] = "Inactive" /\ (refusals = MaxRefusals => ~play[s])

\* What is captured while the order o is under way.
CapturePhase(o) ==
    \A t \in CallTasks :
        out[inner] = t /\ task[t].to = inner /\ (voice[inner] = "Active" \/ o.at = "set active")

\* What is played, while no device refused.
PlayPhase(o) ==
    IF o.at = "set active" \/ (o.at = "out open" /\ o.next = "set active") THEN play[inner]
    ELSE IF \/ o.at \in {"off set", "move set"}
            \/ o.at \in {"part take", "part done"} /\ inner = o.from
    THEN ~play[inner]
    ELSE o.at = "in play" \/ (play[inner] <=> voice[inner] # "Inactive")

SilentSteps == {"mute set", "enable read", "enable play", "out open", "muted read", "muted play",
                "off set", "re read", "move set", "move swap"}
ActiveSteps == {"mute stop", "mute set", "re stop", "re read", "in stop", "in play"}
MoveSteps == {"move stop", "move set", "move swap"}
PartSteps == {"part take", "part done"}

\* What an order remembers is still true.
OrderPhase(o) ==
    /\ o.at \in SilentSteps => CallTasks = {}
    /\ o.at \in ActiveSteps => voice[inner] = "Active"
    /\ o.at \in {"enable play", "out open"} => o.peer \in {inner, ""}
    /\ o.at = "out open" =>
          \/ o.next = "set active"
          \/ o.next \in {"idle", "in stop"} /\ voice[inner] = "Active"
    /\ o.at \in MoveSteps =>
          /\ o = [at |-> o.at, from |-> inner, to |-> o.to, was |-> o.was] /\ o.to \in Servers
          /\ o.at = "move swap" => voice[inner] = "Inactive"
    /\ o.at \in PartSteps =>
          /\ o = [at |-> o.at, from |-> o.from, active |-> (inner = o.from)] /\ o.from \in Servers
          /\ inner = o.from => CallTasks = {}
    /\ o.at = "test open" => o.kind \in Kinds

Phase(o) ==
    /\ OthersRest /\ CapturePhase(o) /\ OrderPhase(o)
    /\ refusals = MaxRefusals => PlayPhase(o)

\* One order at most is under way.
OneOrder(o) ==
    \/ o = Idle /\ \A w \in Workers : order[w] = Idle
    \/ \E w \in Workers : order[w] = o /\ \A x \in Workers \ {w} : order[x] = Idle

VoiceInv == ~muddled => VoiceTypes /\ \E o : OneOrder(o) /\ Phase(o)

\* What is known when an order of w goes on ...
LEMMA OrderUnderWay ==
    ASSUME VoiceInv, ~muddled, NEW w \in Workers, NEW step, At(w, step), step # "idle"
    PROVE  VoiceTypes /\ Phase(order[w]) /\ \A x \in Workers \ {w} : order[x] = Idle
<1>1. PICK o : OneOrder(o) /\ Phase(o) BY DEF VoiceInv
<1>2. order[w] # Idle BY DEF At, Idle
<1>3. order[w] = o /\ \A x \in Workers \ {w} : order[x] = Idle BY <1>1, <1>2 DEF OneOrder
<1> QED BY <1>1, <1>3 DEF VoiceInv

\* ... and when none is.
LEMMA NoOrderUnderWay ==
    ASSUME VoiceInv, ~muddled, Busy = {}
    PROVE  VoiceTypes /\ Phase(Idle) /\ \A x \in Workers : order[x] = Idle
<1>1. PICK o : OneOrder(o) /\ Phase(o) BY DEF VoiceInv
<1>2. \A x \in Workers : order[x] = Idle BY DEF Busy
<1>3. o = Idle BY <1>1, <1>2 DEF OneOrder
<1> QED BY <1>1, <1>2, <1>3 DEF VoiceInv

\* The order of w, the only one, becomes o.
LEMMA OrderGoesOn ==
    ASSUME NEW w \in Workers, NEW o, VoiceTypes, order' = [order EXCEPT ![w] = o],
           \A x \in Workers \ {w} : order[x] = Idle,
           VoiceTypes', OthersRest', CapturePhase(o)', OrderPhase(o)',
           (refusals = MaxRefusals)' => PlayPhase(o)'
    PROVE  VoiceInv'
<1>1. order'[w] = o /\ \A x \in Workers \ {w} : order'[x] = Idle BY DEF VoiceTypes
<1>2. OneOrder(o)' BY <1>1 DEF OneOrder
<1> QED BY <1>2 DEF VoiceInv, Phase

\* Aborting handles ends the capture loops among them and no other.
LEMMA CallsAborted ==
    ASSUME NEW handles, Abort(handles)
    PROVE  /\ CallTasks' = CallTasks \ handles
           /\ \A t \in CallTasks' : task'[t] = task[t]
           /\ task' = [t \in Tasks |-> task'[t]]
<1>1. \A t \in Tasks : task'[t] = IF t \in handles \cap Running
                                  THEN [kind |-> "dead", to |-> ""] ELSE task[t]
  BY DEF Abort
<1>2. \A t \in Tasks : task[t].kind = "call" => t \in Running BY DEF Running
<1>3. \A t \in Tasks : task'[t].kind = "call" <=> task[t].kind = "call" /\ t \notin handles
  <2> SUFFICES ASSUME NEW t \in Tasks
               PROVE  task'[t].kind = "call" <=> task[t].kind = "call" /\ t \notin handles
    OBVIOUS
  <2>1. CASE t \in handles \cap Running
    <3>1. task'[t] = [kind |-> "dead", to |-> ""] BY <1>1, <2>1
    <3>2. [kind |-> "dead", to |-> ""].kind # "call" OBVIOUS
    <3>3. task'[t].kind # "call" BY ONLY <3>1, <3>2
    <3> QED BY <2>1, <3>3
  <2>2. CASE t \notin handles \cap Running
    <3>1. task'[t] = task[t] BY <1>1, <2>2
    <3> QED BY <1>2, <2>2, <3>1
  <2> QED BY <2>1, <2>2
<1>4. \A t \in CallTasks' : task'[t] = task[t] BY <1>1, <1>3 DEF CallTasks
<1>5. task' = [t \in Tasks |-> task'[t]] BY DEF Abort
<1> QED BY <1>3, <1>4, <1>5 DEF CallTasks

\* A new task of another kind takes no part.
LEMMA OtherSpawned ==
    ASSUME VoiceTypes, NEW t \in Tasks, NEW kind \in Kinds, NEW to, Spawned(t, kind, to)
    PROVE  /\ CallTasks' \subseteq CallTasks
           /\ \A u \in CallTasks' : task'[u] = task[u]
           /\ task' = [u \in Tasks |-> task'[u]]
<1>1. task' = [task EXCEPT ![t] = [kind |-> kind, to |-> to]] BY DEF Spawned
<1>2. task'[t].kind # "call" BY <1>1 DEF VoiceTypes, Kinds
<1>3. \A u \in Tasks \ {t} : task'[u] = task[u] BY <1>1 DEF VoiceTypes
<1>4. task' = [u \in Tasks |-> task'[u]] BY <1>1 DEF VoiceTypes
<1> QED BY <1>2, <1>3, <1>4 DEF CallTasks

\* A new capture loop where none runs.
LEMMA CallSpawned ==
    ASSUME VoiceTypes, NEW t \in Tasks, NEW to, Spawned(t, "call", to), CallTasks = {}
    PROVE  CallTasks' = {t} /\ task'[t].to = to /\ task' = [u \in Tasks |-> task'[u]]
<1>1. task' = [task EXCEPT ![t] = [kind |-> "call", to |-> to]] BY DEF Spawned
<1>2. task'[t] = [kind |-> "call", to |-> to] BY <1>1 DEF VoiceTypes
<1>3. \A u \in Tasks \ {t} : task'[u] = task[u] BY <1>1 DEF VoiceTypes
<1>4. task' = [u \in Tasks |-> task'[u]] BY <1>1 DEF VoiceTypes
<1> QED BY <1>2, <1>3, <1>4 DEF CallTasks

\* Stopping the capture of the active session leaves no capture loop.
LEMMA CaptureStopped ==
    ASSUME NEW o, CapturePhase(o), NEW handles, out[inner] \in handles, Abort(handles)
    PROVE  CallTasks' = {} /\ task' = [t \in Tasks |-> task'[t]]
BY CallsAborted DEF CapturePhase

\* A device that refuses to open ends the order.
LEMMA RefusedKept ==
    ASSUME NEW w \in Workers, VoiceTypes, Phase(order[w]), Refused(w),
           \A x \in Workers \ {w} : order[x] = Idle, order[w].at # "set active"
    PROVE  VoiceInv'
<1>1. /\ order' = [order EXCEPT ![w] = Idle] /\ refusals' = refusals - 1 /\ refusals > 0
      /\ UNCHANGED <<inner, voice, out, play, task>>
  BY DEF Refused, Done, Goto
<1>2. refusals' \in Nat /\ refusals' < MaxRefusals /\ refusals' <= MaxRefusals
  <2>1. MaxRefusals \in Nat /\ refusals \in Nat /\ refusals <= MaxRefusals
    BY VoiceAssumption DEF VoiceTypes
  <2>2. refusals' = refusals - 1 /\ refusals > 0 BY <1>1
  <2> QED BY ONLY <2>1, <2>2
<1>3. VoiceTypes' BY <1>1, <1>2 DEF VoiceTypes
<1>4. refusals' # MaxRefusals
  <2>1. MaxRefusals \in Nat BY VoiceAssumption
  <2> QED BY ONLY <1>2, <2>1
<1>5. OthersRest' BY <1>1, <1>4 DEF Phase, OthersRest
<1>6. CallTasks' = CallTasks BY <1>1 DEF CallTasks
<1>7. CapturePhase(Idle)' BY <1>1, <1>6 DEF Phase, CapturePhase
<1>8. OrderPhase(Idle)' BY DEF OrderPhase, Idle, SilentSteps, ActiveSteps, MoveSteps, PartSteps
<1> QED BY <1>1, <1>3, <1>4, <1>5, <1>7, <1>8, OrderGoesOn

\* The order of w becomes o and nothing else changes.
LEMMA OrderReads ==
    ASSUME NEW w \in Workers, NEW o, VoiceTypes, order' = [order EXCEPT ![w] = o],
           UNCHANGED <<inner, voice, out, play, task, refusals>>,
           \A x \in Workers \ {w} : order[x] = Idle,
           OthersRest, CapturePhase(o), OrderPhase(o), refusals = MaxRefusals => PlayPhase(o)
    PROVE  VoiceInv'
<1>1. VoiceTypes' BY DEF VoiceTypes
<1>2. CallTasks' = CallTasks BY DEF CallTasks
<1>3. OthersRest' BY DEF OthersRest
<1>4. CapturePhase(o)' BY <1>2 DEF CapturePhase
<1>5. OrderPhase(o)' BY <1>2 DEF OrderPhase
<1>6. (refusals = MaxRefusals)' => PlayPhase(o)' BY DEF PlayPhase
<1> QED BY <1>1, <1>3, <1>4, <1>5, <1>6, OrderGoesOn

\* While no order is under way, a capture loop means a call that is active.
LEMMA CallIsActive == Phase(Idle) /\ voice[inner] # "Active" => CallTasks = {}
BY DEF Phase, CapturePhase, Idle

\* A command begins and has only read so far.
LEMMA BeginKept ==
    ASSUME VoiceInv, ~muddled', NEW w \in Workers, NEW o, Begin(w, o), Reading,
           VoiceTypes /\ Phase(Idle) => OrderPhase(o) /\ (refusals = MaxRefusals => PlayPhase(o))
    PROVE  VoiceInv'
<1>1. /\ ~muddled /\ Busy = {} /\ order' = [order EXCEPT ![w] = o]
      /\ UNCHANGED <<inner, voice, out, play, task, refusals>>
  BY DEF Begin, Reading
<1>2. VoiceTypes /\ Phase(Idle) /\ \A x \in Workers : order[x] = Idle BY <1>1, NoOrderUnderWay
<1>3. CapturePhase(o) BY <1>2 DEF Phase, CapturePhase, Idle
<1> QED BY <1>1, <1>2, <1>3, OrderReads DEF Phase

\* The commands that begin with a reading.
LEMMA CommandsBegin ==
    ASSUME VoiceInv, ~muddled', NEW w \in Workers,
           \/ ToggleMute(w) \/ EnableVoice(w) \/ ToggleDeafen(w) \/ DisableVoice(w)
           \/ SetAudioSettings(w) \/ \E s \in Servers : SwitchActive(w, s)
    PROVE  VoiceInv'
<1> USE DEF OrderPhase, SilentSteps, ActiveSteps, MoveSteps, PartSteps
<1>0. VoiceTypes => voice[inner] \in {"Inactive", "Active", "Muted"} BY DEF VoiceTypes
<1>1. CASE ToggleMute(w)
  <2>1. CASE voice[inner] = "Active"
    <3>1. PICK o : o = [at |-> "mute stop"] OBVIOUS
    <3>2. Begin(w, o) /\ Reading BY <1>1, <2>1, <3>1 DEF ToggleMute
    <3>3. OrderPhase(o) BY <2>1, <3>1
    <3>4. PlayPhase(Idle) => PlayPhase(o) BY <3>1 DEF PlayPhase, Idle
    <3> QED BY <3>2, <3>3, <3>4, BeginKept DEF Phase
  <2>2. CASE voice[inner] = "Muted"
    <3>1. PICK o : o = [at |-> "out open", peer |-> Peer(inner), next |-> "set active"] OBVIOUS
    <3>2. Begin(w, o) /\ Reading BY <1>1, <2>2, <3>1 DEF ToggleMute
    <3>3. Phase(Idle) => CallTasks = {} BY <2>2, CallIsActive
    <3>4. o.peer \in {inner, ""} BY <3>1 DEF Peer
    <3>5. Phase(Idle) => OrderPhase(o) BY <3>1, <3>3, <3>4
    <3>6. PlayPhase(Idle) => PlayPhase(o) BY <2>2, <3>1 DEF PlayPhase, Idle
    <3> QED BY <3>2, <3>5, <3>6, BeginKept DEF Phase
  <2>3. CASE voice[inner] \notin {"Active", "Muted"}
    <3>1. PICK o : o = [at |-> "enable read"] OBVIOUS
    <3>2. Begin(w, o) /\ Reading BY <1>1, <2>3, <3>1 DEF ToggleMute
    <3>3. Phase(Idle) => CallTasks = {} BY <2>3, CallIsActive
    <3>4. Phase(Idle) => OrderPhase(o) BY <3>1, <3>3
    <3>5. PlayPhase(Idle) => PlayPhase(o) BY <3>1 DEF PlayPhase, Idle
    <3> QED BY <3>2, <3>4, <3>5, BeginKept DEF Phase
  <2> QED BY <2>1, <2>2, <2>3
<1>2. CASE EnableVoice(w)
  <2>1. PICK o : o = [at |-> "enable read"] OBVIOUS
  <2>2. Begin(w, o) /\ Reading BY <1>2, <2>1 DEF EnableVoice
  <2>3. Phase(Idle) => CallTasks = {} BY <1>2, CallIsActive DEF EnableVoice
  <2>4. Phase(Idle) => OrderPhase(o) BY <2>1, <2>3
  <2>5. PlayPhase(Idle) => PlayPhase(o) BY <2>1 DEF PlayPhase, Idle
  <2> QED BY <2>2, <2>4, <2>5, BeginKept DEF Phase
<1>3. ASSUME Begin(w, [at |-> "off stop"]), Reading PROVE VoiceInv'
  <2>1. PICK o : o = [at |-> "off stop"] OBVIOUS
  <2>2. OrderPhase(o) BY <2>1
  <2>3. PlayPhase(Idle) => PlayPhase(o) BY <2>1 DEF PlayPhase, Idle
  <2> QED BY <1>3, <2>1, <2>2, <2>3, BeginKept DEF Phase
<1>4. CASE ToggleDeafen(w)
  <2>1. CASE voice[inner] = "Inactive"
    <3>1. PICK o : o = [at |-> "muted read"] OBVIOUS
    <3>2. Begin(w, o) /\ Reading BY <1>4, <2>1, <3>1 DEF ToggleDeafen
    <3>3. Phase(Idle) => CallTasks = {} BY <2>1, CallIsActive
    <3>4. Phase(Idle) => OrderPhase(o) BY <3>1, <3>3
    <3>5. PlayPhase(Idle) => PlayPhase(o) BY <3>1 DEF PlayPhase, Idle
    <3> QED BY <3>2, <3>4, <3>5, BeginKept DEF Phase
  <2>2. CASE voice[inner] # "Inactive" BY <1>3, <1>4, <2>2 DEF ToggleDeafen
  <2> QED BY <2>1, <2>2
<1>5. CASE DisableVoice(w) BY <1>3, <1>5 DEF DisableVoice
<1>6. CASE SetAudioSettings(w)
  <2>1. PICK restart \in {"re stop", "in stop"} : Begin(w, [at |-> restart])
    BY <1>6 DEF SetAudioSettings
  <2>2. PICK o : o = [at |-> restart] OBVIOUS
  <2>3. OrderPhase(o) BY <1>6, <2>2 DEF SetAudioSettings
  <2>4. PlayPhase(Idle) => PlayPhase(o) BY <2>2 DEF PlayPhase, Idle
  <2> QED BY <1>6, <2>1, <2>2, <2>3, <2>4, BeginKept DEF Phase, SetAudioSettings
<1>7. ASSUME NEW s \in Servers, SwitchActive(w, s) PROVE VoiceInv'
  <2>1. PICK at : at = IF voice[inner] = "Inactive" THEN "move swap" ELSE "move stop" OBVIOUS
  <2>2. PICK o : o = [at |-> at, from |-> inner, to |-> s, was |-> voice[inner]] OBVIOUS
  <2>3. Begin(w, o) /\ Reading BY <1>7, <2>1, <2>2 DEF SwitchActive
  <2>4. Phase(Idle) => OrderPhase(o)
    <3>1. CASE voice[inner] = "Inactive"
      <4>1. Phase(Idle) => CallTasks = {} BY <3>1, CallIsActive
      <4> QED BY <2>1, <2>2, <3>1, <4>1
    <3>2. CASE voice[inner] # "Inactive" BY <2>1, <2>2, <3>2
    <3> QED BY <3>1, <3>2
  <2>5. PlayPhase(Idle) => PlayPhase(o) BY <2>1, <2>2 DEF PlayPhase, Idle
  <2> QED BY <2>3, <2>4, <2>5, BeginKept DEF Phase
<1> QED BY <1>1, <1>2, <1>4, <1>5, <1>6, <1>7

\* The steps that only read.
LEMMA ReadingsKept ==
    ASSUME VoiceInv, ~muddled', NEW w \in Workers, EnableRead(w) \/ MutedRead(w) \/ RestartRead(w)
    PROVE  VoiceInv'
<1> USE DEF OrderPhase, SilentSteps, ActiveSteps, MoveSteps, PartSteps
<1>0. ~muddled /\ UNCHANGED <<inner, voice, out, play, task, refusals>>
  <2>1. CASE EnableRead(w) BY <2>1 DEF EnableRead, Reading
  <2>2. CASE MutedRead(w) BY <2>2 DEF MutedRead, Reading
  <2>3. CASE RestartRead(w) BY <2>3 DEF RestartRead, Reading
  <2> QED BY <2>1, <2>2, <2>3
<1>1. CASE EnableRead(w)
  <2>0. At(w, "enable read") BY <1>1 DEF EnableRead
  <2>1. VoiceTypes /\ Phase(order[w]) /\ \A x \in Workers \ {w} : order[x] = Idle
    BY <1>0, <2>0, OrderUnderWay
  <2>2. PICK o : o = [at |-> "enable play", peer |-> Peer(inner)] OBVIOUS
  <2>3. order' = [order EXCEPT ![w] = o] BY <1>1, <2>2 DEF EnableRead, Goto
  <2>4. CallTasks = {} BY <2>0, <2>1 DEF Phase, At
  <2>5. CapturePhase(o) /\ OrderPhase(o) BY <2>2, <2>4 DEF CapturePhase, Peer
  <2>6. PlayPhase(order[w]) => PlayPhase(o) BY <2>0, <2>2 DEF PlayPhase, At
  <2> QED BY <1>0, <2>1, <2>3, <2>5, <2>6, OrderReads DEF Phase
<1>2. CASE MutedRead(w)
  <2>0. At(w, "muted read") BY <1>2 DEF MutedRead
  <2>1. VoiceTypes /\ Phase(order[w]) /\ \A x \in Workers \ {w} : order[x] = Idle
    BY <1>0, <2>0, OrderUnderWay
  <2>2. PICK o : o = [at |-> "muted play"] OBVIOUS
  <2>3. order' = [order EXCEPT ![w] = o] BY <1>2, <2>2 DEF MutedRead, Goto
  <2>4. CallTasks = {} BY <2>0, <2>1 DEF Phase, At
  <2>5. CapturePhase(o) /\ OrderPhase(o) BY <2>2, <2>4 DEF CapturePhase
  <2>6. PlayPhase(order[w]) => PlayPhase(o) BY <2>0, <2>2 DEF PlayPhase, At
  <2> QED BY <1>0, <2>1, <2>3, <2>5, <2>6, OrderReads DEF Phase
<1>3. CASE RestartRead(w)
  <2>0. At(w, "re read") BY <1>3 DEF RestartRead
  <2>1. VoiceTypes /\ Phase(order[w]) /\ \A x \in Workers \ {w} : order[x] = Idle
    BY <1>0, <2>0, OrderUnderWay
  <2>2. PICK next \in {"idle", "in stop"} :
          Goto(w, [at |-> "out open", peer |-> Peer(inner), next |-> next])
    BY <1>3 DEF RestartRead
  <2>3. PICK o : o = [at |-> "out open", peer |-> Peer(inner), next |-> next] OBVIOUS
  <2>4. order' = [order EXCEPT ![w] = o] BY <2>2, <2>3 DEF Goto
  <2>5. CallTasks = {} /\ voice[inner] = "Active" BY <2>0, <2>1 DEF Phase, At
  <2>6. o.peer \in {inner, ""} BY <2>3 DEF Peer
  <2>7. CapturePhase(o) /\ OrderPhase(o) BY <2>3, <2>5, <2>6 DEF CapturePhase
  <2>8. PlayPhase(order[w]) => PlayPhase(o) BY <2>0, <2>3 DEF PlayPhase, At
  <2> QED BY <1>0, <2>1, <2>4, <2>7, <2>8, OrderReads DEF Phase
<1> QED BY <1>1, <1>2, <1>3

\* The steps that set the voice state or the playback of the active session.
LEMMA SettingsKept ==
    ASSUME VoiceInv, ~muddled', NEW w \in Workers,
           \/ MuteSet(w) \/ SetActive(w) \/ OffSet(w) \/ MutedPlay(w) \/ EnablePlay(w)
           \/ InboundStop(w) \/ InboundPlay(w)
    PROVE  VoiceInv'
<1> USE DEF OrderPhase, SilentSteps, ActiveSteps, MoveSteps, PartSteps
<1>0. ~muddled
  BY DEF MuteSet, SetActive, OffSet, MutedPlay, EnablePlay, InboundStop, InboundPlay, Within, Refused
<1>1. PICK step : At(w, step) /\ step \in {"mute set", "set active", "off set", "muted play",
                                            "enable play", "in stop", "in play"}
  BY DEF MuteSet, SetActive, OffSet, MutedPlay, EnablePlay, InboundStop, InboundPlay
<1>2. VoiceTypes /\ Phase(order[w]) /\ \A x \in Workers \ {w} : order[x] = Idle
  BY <1>0, <1>1, OrderUnderWay
<1>3. ASSUME Refused(w), order[w].at # "set active" PROVE VoiceInv'
  BY <1>2, <1>3, RefusedKept
<1>4. ASSUME NEW o, NEW v \in {"Inactive", "Active", "Muted"}, NEW on \in BOOLEAN,
             order' = [order EXCEPT ![w] = o],
             voice' = [voice EXCEPT ![inner] = v], play' = [play EXCEPT ![inner] = on],
             UNCHANGED <<inner, out, task, refusals>>,
             o.at \notin SilentSteps, o.at \in ActiveSteps => v = "Active",
             o.at \notin MoveSteps, o.at \notin PartSteps, o.at # "test open",
             v = "Active" \/ o.at = "set active" \/ CallTasks = {},
             refusals = MaxRefusals =>
                 /\ o.at = "set active" => on
                 /\ o.at \notin {"set active", "off set", "move set", "in play"}
                       => (on <=> v # "Inactive")
                 /\ o.at # "off set"
      PROVE  VoiceInv'
  <2>1. inner \in AppSessions /\ voice'[inner] = v /\ play'[inner] = on
    BY <1>2, <1>4 DEF VoiceTypes
  <2>2. \A s \in AppSessions \ {inner} : voice'[s] = voice[s] /\ play'[s] = play[s]
    BY <1>2, <1>4 DEF VoiceTypes
  <2>3. /\ voice' \in [AppSessions -> {"Inactive", "Active", "Muted"}]
        /\ play' \in [AppSessions -> BOOLEAN]
    BY <1>2, <1>4 DEF VoiceTypes
  <2>4. order' = [x \in Workers |-> order'[x]] BY <1>2, <1>4 DEF VoiceTypes
  <2>5. VoiceTypes' BY <1>2, <1>4, <2>3, <2>4 DEF VoiceTypes
  <2>6. OthersRest' BY <1>2, <1>4, <2>2 DEF Phase, OthersRest
  <2>7. CallTasks' = CallTasks BY <1>4 DEF CallTasks
  <2>8. CapturePhase(o)' BY <1>2, <1>4, <2>1, <2>7 DEF Phase, CapturePhase
  <2>9. OrderPhase(o)' BY <1>4, <2>1
  <2>10. (refusals = MaxRefusals)' => PlayPhase(o)' BY <1>4, <2>1 DEF PlayPhase
  <2> QED BY <1>2, <1>4, <2>5, <2>6, <2>8, <2>9, <2>10, OrderGoesOn
<1>v. inner \in AppSessions /\ voice = [voice EXCEPT ![inner] = voice[inner]]
      /\ play = [play EXCEPT ![inner] = play[inner]]
      /\ voice[inner] \in {"Inactive", "Active", "Muted"} /\ play[inner] \in BOOLEAN
  BY <1>2 DEF VoiceTypes
<1>p. refusals = MaxRefusals => PlayPhase(order[w]) BY <1>2 DEF Phase
<1>5. CASE MuteSet(w)
  <2>1. PICK o : o = Idle OBVIOUS
  <2>2. /\ At(w, "mute set") /\ order' = [order EXCEPT ![w] = o]
        /\ voice' = [voice EXCEPT ![inner] = "Muted"] /\ UNCHANGED <<inner, out, play, task, refusals>>
    BY <1>5, <2>1 DEF MuteSet, SetVoice, Done, Goto, Within
  <2>3. voice[inner] = "Active" /\ CallTasks = {} BY <1>2, <2>2 DEF Phase, At
  <2>4. refusals = MaxRefusals => play[inner] BY <1>p, <2>2, <2>3 DEF PlayPhase, At
  <2>5. play' = [play EXCEPT ![inner] = play[inner]] BY <1>v, <2>2
  <2>6. PICK on \in BOOLEAN : on = play[inner] BY <1>v
  <2>7. o.at = "idle" BY <2>1 DEF Idle
  <2> QED BY <1>4, <2>2, <2>3, <2>4, <2>5, <2>6, <2>7
<1>6. CASE SetActive(w)
  <2>1. PICK o : o = Idle OBVIOUS
  <2>2. /\ At(w, "set active") /\ order' = [order EXCEPT ![w] = o]
        /\ voice' = [voice EXCEPT ![inner] = "Active"] /\ UNCHANGED <<inner, out, play, task, refusals>>
    BY <1>6, <2>1 DEF SetActive, SetVoice, Done, Goto, Within
  <2>4. refusals = MaxRefusals => play[inner] BY <1>p, <2>2 DEF PlayPhase, At
  <2>5. play' = [play EXCEPT ![inner] = play[inner]] BY <1>v, <2>2
  <2>6. PICK on \in BOOLEAN : on = play[inner] BY <1>v
  <2>7. o.at = "idle" BY <2>1 DEF Idle
  <2> QED BY <1>4, <2>2, <2>4, <2>5, <2>6, <2>7
<1>7. CASE OffSet(w)
  <2>1. PICK o : o = Idle OBVIOUS
  <2>2. /\ At(w, "off set") /\ order' = [order EXCEPT ![w] = o]
        /\ voice' = [voice EXCEPT ![inner] = "Inactive"] /\ UNCHANGED <<inner, out, play, task, refusals>>
    BY <1>7, <2>1 DEF OffSet, SetVoice, Done, Goto, Within
  <2>3. CallTasks = {} BY <1>2, <2>2 DEF Phase, At
  <2>4. refusals = MaxRefusals => ~play[inner] BY <1>p, <2>2 DEF PlayPhase, At
  <2>5. play' = [play EXCEPT ![inner] = play[inner]] BY <1>v, <2>2
  <2>6. PICK on \in BOOLEAN : on = play[inner] BY <1>v
  <2>7. o.at = "idle" BY <2>1 DEF Idle
  <2> QED BY <1>4, <2>2, <2>3, <2>4, <2>5, <2>6, <2>7
<1>8. CASE MutedPlay(w)
  <2>1. At(w, "muted play") BY <1>8 DEF MutedPlay
  <2>2. CASE Refused(w) BY <1>3, <2>1, <2>2 DEF At
  <2>3. CASE ~Refused(w)
    <3>1. PICK o : o = Idle OBVIOUS
    <3>2. /\ order' = [order EXCEPT ![w] = o] /\ voice' = [voice EXCEPT ![inner] = "Muted"]
          /\ play' = [play EXCEPT ![inner] = TRUE] /\ UNCHANGED <<inner, out, task, refusals>>
      BY <1>8, <2>3, <3>1 DEF MutedPlay, SetVoice, Done, Goto, Within
    <3>3. CallTasks = {} BY <1>2, <2>1 DEF Phase, At
    <3>4. o.at = "idle" BY <3>1 DEF Idle
    <3> QED BY <1>4, <3>2, <3>3, <3>4
  <2> QED BY <2>2, <2>3
<1>9. CASE InboundStop(w)
  <2>1. PICK o : o = [at |-> "in play"] OBVIOUS
  <2>2. /\ At(w, "in stop") /\ order' = [order EXCEPT ![w] = o]
        /\ play' = [play EXCEPT ![inner] = FALSE] /\ UNCHANGED <<inner, out, voice, task, refusals>>
    BY <1>9, <2>1 DEF InboundStop, Goto, Within
  <2>3. voice[inner] = "Active" BY <1>2, <2>2 DEF Phase, At
  <2>4. voice' = [voice EXCEPT ![inner] = "Active"] BY <1>v, <2>2, <2>3
  <2>5. o.at = "in play" BY <2>1
  <2> QED BY <1>4, <2>2, <2>4, <2>5
<1>10. CASE InboundPlay(w)
  <2>1. At(w, "in play") BY <1>10 DEF InboundPlay
  <2>2. CASE Refused(w) BY <1>3, <2>1, <2>2 DEF At
  <2>3. CASE ~Refused(w)
    <3>1. PICK o : o = Idle OBVIOUS
    <3>2. /\ order' = [order EXCEPT ![w] = o] /\ UNCHANGED <<inner, out, voice, task, refusals>>
          /\ play' = [play EXCEPT ![inner] = TRUE]
      BY <1>10, <2>3, <3>1 DEF InboundPlay, Done, Goto, Within
    <3>3. voice[inner] = "Active" BY <1>2, <2>1 DEF Phase, At
    <3>4. voice' = [voice EXCEPT ![inner] = "Active"] BY <1>v, <3>2, <3>3
    <3>5. o.at = "idle" BY <3>1 DEF Idle
    <3> QED BY <1>4, <3>2, <3>4, <3>5
  <2> QED BY <2>2, <2>3
<1>11. CASE EnablePlay(w)
  <2>1. At(w, "enable play") BY <1>11 DEF EnablePlay
  <2>2. CASE Refused(w) BY <1>3, <2>1, <2>2 DEF At
  <2>3. CASE ~Refused(w)
    \* The only one of these steps whose successor must find nothing captured.
    <3>1. PICK o : o = [at |-> "out open", peer |-> order[w].peer, next |-> "set active"] OBVIOUS
    <3>2. /\ order' = [order EXCEPT ![w] = o] /\ UNCHANGED <<inner, out, voice, task, refusals>>
          /\ play' = [play EXCEPT ![inner] = TRUE]
      BY <1>11, <2>3, <3>1 DEF EnablePlay, Goto, Within
    <3>3. CallTasks = {} /\ order[w].peer \in {inner, ""} BY <1>2, <2>1 DEF Phase, At
    <3>4. /\ play' \in [AppSessions -> BOOLEAN] /\ play'[inner] = TRUE
          /\ \A s \in AppSessions \ {inner} : play'[s] = play[s]
      BY <1>2, <3>2 DEF VoiceTypes
    <3>5. order' = [x \in Workers |-> order'[x]] BY <1>2, <3>2 DEF VoiceTypes
    <3>6. VoiceTypes' BY <1>2, <3>2, <3>4, <3>5 DEF VoiceTypes
    <3>7. OthersRest' BY <1>2, <3>2, <3>4 DEF Phase, OthersRest
    <3>8. CallTasks' = {} BY <3>2, <3>3 DEF CallTasks
    <3>9. CapturePhase(o)' BY <3>8 DEF CapturePhase
    <3>10. OrderPhase(o)' BY <3>1, <3>2, <3>3, <3>8
    <3>11. PlayPhase(o)' BY <3>1, <3>2, <3>4 DEF PlayPhase
    <3> QED BY <1>2, <3>2, <3>6, <3>7, <3>9, <3>10, <3>11, OrderGoesOn
  <2> QED BY <2>2, <2>3
<1> QED BY <1>5, <1>6, <1>7, <1>8, <1>9, <1>10, <1>11

IsMove(r, at, from, to, was) == r = [at |-> at, from |-> from, to |-> to, was |-> was]
IsPart(r, at, from, active) == r = [at |-> at, from |-> from, active |-> active]
StepsOn(w, next) == order' = [order EXCEPT ![w].at = next]

\* A move goes on with its next step.
LEMMA MoveStepsOn ==
    ASSUME NEW w \in Workers, NEW at, NEW next, NEW from, NEW to, NEW was,
           IsMove(order[w], at, from, to, was), StepsOn(w, next)
    PROVE  /\ order[w].from = from /\ order[w].to = to /\ order[w].was = was
           /\ \E o : IsMove(o, next, from, to, was) /\ Goto(w, o)
<1>1. PICK r : r = order[w] OBVIOUS
<1>2. r = [at |-> at, from |-> from, to |-> to, was |-> was] BY <1>1 DEF IsMove
<1>3. r.from = from /\ r.to = to /\ r.was = was BY ONLY <1>2
<1>4. [r EXCEPT !.at = next] = [at |-> next, from |-> from, to |-> to, was |-> was] BY ONLY <1>2
<1>5. order' = [order EXCEPT ![w] = [r EXCEPT !.at = next]] BY <1>1 DEF StepsOn
<1> QED BY <1>1, <1>3, <1>4, <1>5 DEF IsMove, Goto

\* So does a parting.
LEMMA PartStepsOn ==
    ASSUME NEW w \in Workers, NEW at, NEW next, NEW from, NEW active,
           IsPart(order[w], at, from, active), StepsOn(w, next)
    PROVE  /\ order[w].from = from /\ order[w].active = active
           /\ \E o : IsPart(o, next, from, active) /\ Goto(w, o)
<1>1. PICK r : r = order[w] OBVIOUS
<1>2. r = [at |-> at, from |-> from, active |-> active] BY <1>1 DEF IsPart
<1>3. r.from = from /\ r.active = active BY ONLY <1>2
<1>4. [r EXCEPT !.at = next] = [at |-> next, from |-> from, active |-> active] BY ONLY <1>2
<1>5. order' = [order EXCEPT ![w] = [r EXCEPT !.at = next]] BY <1>1 DEF StepsOn
<1> QED BY <1>1, <1>3, <1>4, <1>5 DEF IsPart, Goto

\* The steps that stop the capture of the active session.
LEMMA StopsKept ==
    ASSUME VoiceInv, ~muddled', NEW w \in Workers,
           MuteStop(w) \/ RestartStop(w) \/ OffStop(w) \/ MoveStop(w)
    PROVE  VoiceInv'
<1> USE DEF OrderPhase, SilentSteps, ActiveSteps, MoveSteps, PartSteps
<1>0. ~muddled BY DEF MuteStop, RestartStop, OffStop, MoveStop, Within
<1>1. PICK step : At(w, step) /\ step \in {"mute stop", "re stop", "off stop", "move stop"}
  BY DEF MuteStop, RestartStop, OffStop, MoveStop
<1>2. VoiceTypes /\ Phase(order[w]) /\ \A x \in Workers \ {w} : order[x] = Idle
  BY <1>0, <1>1, OrderUnderWay
<1>3. ASSUME NEW o, NEW handles, out[inner] \in handles, Abort(handles),
             order' = [order EXCEPT ![w] = o], out' = [out EXCEPT ![inner] = 0],
             play' = play \/ play' = [play EXCEPT ![inner] = FALSE],
             UNCHANGED <<inner, voice, refusals>>,
             OrderPhase(o)' , refusals = MaxRefusals => PlayPhase(o)'
      PROVE  VoiceInv'
  <2>1. CallTasks' = {} /\ task' = [t \in Tasks |-> task'[t]] BY <1>2, <1>3, CaptureStopped DEF Phase
  <2>2. out' \in [AppSessions -> {0} \cup Tasks] /\ play' \in [AppSessions -> BOOLEAN]
    BY <1>2, <1>3 DEF VoiceTypes
  <2>3. order' = [x \in Workers |-> order'[x]] BY <1>2, <1>3 DEF VoiceTypes
  <2>4. VoiceTypes' BY <1>2, <1>3, <2>1, <2>2, <2>3 DEF VoiceTypes
  <2>5. \A s \in AppSessions \ {inner} : play'[s] = play[s] BY <1>2, <1>3 DEF VoiceTypes
  <2>6. OthersRest' BY <1>2, <1>3, <2>5 DEF Phase, OthersRest
  <2>7. CapturePhase(o)' BY <2>1 DEF CapturePhase
  <2> QED BY <1>2, <1>3, <2>4, <2>6, <2>7, OrderGoesOn
<1>4. refusals = MaxRefusals => PlayPhase(order[w]) BY <1>2 DEF Phase
<1>5. ASSUME NEW o, NEW handles, out[inner] \in handles, Abort(handles)
      PROVE  CallTasks' = {}
  BY <1>2, <1>5, CaptureStopped DEF Phase
<1>6. CASE MuteStop(w) \/ RestartStop(w)
  <2>1. PICK at : at = (IF At(w, "mute stop") THEN "mute set" ELSE "re read") OBVIOUS
  <2>2. PICK o : o = [at |-> at] OBVIOUS
  <2>3. /\ order[w].at \in {"mute stop", "re stop"} /\ Abort({out[inner]})
        /\ order' = [order EXCEPT ![w] = o] /\ out' = [out EXCEPT ![inner] = 0]
        /\ UNCHANGED <<inner, voice, play, refusals>>
    BY <1>6, <2>1, <2>2 DEF MuteStop, RestartStop, StopOutbound, Goto, Within, At
  <2>4. voice[inner] = "Active" BY <1>2, <2>3 DEF Phase
  <2>5. CallTasks' = {} BY <1>5, <2>3
  <2>6. at \in {"mute set", "re read"} BY <2>1
  <2>7. OrderPhase(o)' BY <2>2, <2>3, <2>4, <2>5, <2>6
  <2>8. refusals = MaxRefusals => PlayPhase(o)' BY <1>4, <2>2, <2>3, <2>6 DEF PlayPhase
  <2> QED BY <1>3, <2>3, <2>7, <2>8
<1>7. CASE OffStop(w)
  <2>1. PICK o : o = [at |-> "off set"] OBVIOUS
  <2>2. PICK handles : handles = {out[inner], test[inner]["mic"], test[inner]["ping"]} OBVIOUS
  <2>3. /\ Abort(handles) /\ out[inner] \in handles /\ order' = [order EXCEPT ![w] = o]
        /\ out' = [out EXCEPT ![inner] = 0] /\ play' = [play EXCEPT ![inner] = FALSE]
        /\ UNCHANGED <<inner, voice, refusals>>
    BY <1>7, <2>1, <2>2 DEF OffStop, StopAudioOn, Goto, Within
  <2>4. CallTasks' = {} BY <1>5, <2>3
  <2>5. OrderPhase(o)' BY <2>1, <2>4
  <2>6. ~play'[inner] BY <1>2, <2>3 DEF VoiceTypes
  <2>7. PlayPhase(o)' BY <2>1, <2>3, <2>6 DEF PlayPhase
  <2> QED BY <1>3, <2>3, <2>5, <2>7
<1>8. CASE MoveStop(w)
  <2>0. order[w].at = "move stop" BY <1>8 DEF MoveStop, At
  <2>1. PICK to, was : IsMove(order[w], "move stop", inner, to, was)
    BY <1>2, <2>0 DEF Phase, IsMove
  <2>2. StepsOn(w, "move set") BY <1>8 DEF MoveStop, StepsOn
  <2>3. PICK o : IsMove(o, "move set", inner, to, was) /\ order' = [order EXCEPT ![w] = o]
    <3>1. PICK o : IsMove(o, "move set", inner, to, was) /\ Goto(w, o) BY <2>1, <2>2, MoveStepsOn
    <3> QED BY <3>1 DEF Goto
  <2>4. order[w].from = inner /\ order[w].to = to BY <2>1, <2>2, MoveStepsOn
  <2>5. order[w].to \in Servers BY <1>2, <2>0 DEF Phase
  <2>6. PICK handles : handles = {out[inner], test[inner]["mic"], test[inner]["ping"]} OBVIOUS
  <2>7. /\ Abort(handles) /\ out[inner] \in handles
        /\ out' = [out EXCEPT ![inner] = 0] /\ play' = [play EXCEPT ![inner] = FALSE]
        /\ UNCHANGED <<inner, voice, refusals>>
    BY <1>8, <2>4, <2>6 DEF MoveStop, StopAudioOn, Within
  <2>8. CallTasks' = {} BY <1>5, <2>7
  <2>9. OrderPhase(o)' BY <2>3, <2>4, <2>5, <2>7, <2>8 DEF IsMove
  <2>10. ~play'[inner] BY <1>2, <2>7 DEF VoiceTypes
  <2>11. PlayPhase(o)' BY <2>3, <2>7, <2>10 DEF PlayPhase, IsMove
  <2> QED BY <1>3, <2>3, <2>7, <2>9, <2>11
<1> QED BY <1>6, <1>7, <1>8

\* start_outbound_pipeline.
LEMMA OutOpenKept ==
    ASSUME VoiceInv, ~muddled', NEW w \in Workers, OutOpen(w)
    PROVE  VoiceInv'
<1> USE DEF OrderPhase, SilentSteps, ActiveSteps, MoveSteps, PartSteps
<1>0. ~muddled BY DEF OutOpen, Within, Refused
<1>1. At(w, "out open") BY DEF OutOpen
<1>2. VoiceTypes /\ Phase(order[w]) /\ \A x \in Workers \ {w} : order[x] = Idle
  BY <1>0, <1>1, OrderUnderWay
<1>3. CASE Refused(w) BY <1>1, <1>2, <1>3, RefusedKept DEF At
<1>4. CASE ~Refused(w)
  <2>1. PICK o : o = [at |-> order[w].next] OBVIOUS
  <2>2. /\ order' = [order EXCEPT ![w] = o] /\ UNCHANGED <<inner, voice, play, refusals>>
        /\ \/ order[w].peer = "" /\ out' = [out EXCEPT ![inner] = 0] /\ UNCHANGED task
           \/ /\ order[w].peer # ""
              /\ \E t \in Tasks : Spawned(t, "call", order[w].peer) /\ out' = [out EXCEPT ![inner] = t]
    BY <1>4, <2>1 DEF OutOpen, Goto, Within
  <2>3. /\ CallTasks = {} /\ order[w].peer \in {inner, ""}
        /\ \/ order[w].next = "set active"
           \/ order[w].next \in {"idle", "in stop"} /\ voice[inner] = "Active"
    BY <1>1, <1>2 DEF Phase, At
  <2>4. /\ task' = [t \in Tasks |-> task'[t]] /\ out' \in [AppSessions -> {0} \cup Tasks]
        /\ \A t \in CallTasks' : out'[inner] = t /\ task'[t].to = inner
    <3>1. CASE order[w].peer = ""
      <4>1. out' = [out EXCEPT ![inner] = 0] /\ task' = task BY <2>2, <3>1
      <4>2. CallTasks' = {} BY <2>3, <4>1 DEF CallTasks
      <4> QED BY <1>2, <4>1, <4>2 DEF VoiceTypes
    <3>2. CASE order[w].peer # ""
      <4>1. PICK t \in Tasks : Spawned(t, "call", order[w].peer) /\ out' = [out EXCEPT ![inner] = t]
        BY <2>2, <3>2
      <4>2. order[w].peer = inner BY <2>3, <3>2
      <4>3. CallTasks' = {t} /\ task'[t].to = inner /\ task' = [u \in Tasks |-> task'[u]]
        BY <1>2, <2>3, <4>1, <4>2, CallSpawned
      <4>4. out' \in [AppSessions -> {0} \cup Tasks] /\ out'[inner] = t BY <1>2, <4>1 DEF VoiceTypes
      <4> QED BY <4>3, <4>4
    <3> QED BY <3>1, <3>2
  <2>5. order' = [x \in Workers |-> order'[x]] BY <1>2, <2>2 DEF VoiceTypes
  <2>6. VoiceTypes' BY <1>2, <2>2, <2>4, <2>5 DEF VoiceTypes
  <2>7. OthersRest' BY <1>2, <2>2 DEF Phase, OthersRest
  <2>8. CapturePhase(o)' BY <2>1, <2>2, <2>3, <2>4 DEF CapturePhase
  <2>9. OrderPhase(o)' BY <2>1, <2>2, <2>3
  <2>10. refusals = MaxRefusals => PlayPhase(order[w]) BY <1>2 DEF Phase
  <2>11. refusals = MaxRefusals => PlayPhase(o)' BY <1>1, <2>1, <2>2, <2>3, <2>10 DEF PlayPhase, At
  <2> QED BY <1>2, <2>2, <2>6, <2>7, <2>8, <2>9, <2>11, OrderGoesOn
<1> QED BY <1>3, <1>4

\* The microphone and latency tests leave the calls alone.
LEMMA TestsKept ==
    ASSUME VoiceInv, ~muddled', NEW w \in Workers, (\E k \in Kinds : Test(w, k)) \/ TestOpen(w)
    PROVE  VoiceInv'
<1> USE DEF OrderPhase, SilentSteps, ActiveSteps, MoveSteps, PartSteps
<1>1. ASSUME NEW o, VoiceTypes, Phase(Idle) \/ (At(w, "test open") /\ Phase(order[w])),
             \A x \in Workers \ {w} : order[x] = Idle,
             order' = [order EXCEPT ![w] = o], o.at \in {"idle", "test open"}, o.at = "test open" => o.kind \in Kinds,
             UNCHANGED <<inner, voice, out, play, refusals>>,
             CallTasks' \subseteq CallTasks, \A t \in CallTasks' : task'[t] = task[t],
             task' = [t \in Tasks |-> task'[t]]
      PROVE  VoiceInv'
  <2>1. order' = [x \in Workers |-> order'[x]] BY <1>1 DEF VoiceTypes
  <2>2. VoiceTypes' BY <1>1, <2>1 DEF VoiceTypes
  <2>3. OthersRest BY <1>1 DEF Phase
  <2>4. OthersRest' BY <1>1, <2>3 DEF OthersRest
  <2>6. \A t \in CallTasks : out[inner] = t /\ task[t].to = inner /\ voice[inner] = "Active"
    BY <1>1 DEF Phase, CapturePhase, At, Idle
  <2>7. CapturePhase(o)' BY <1>1, <2>6 DEF CapturePhase
  <2>8. OrderPhase(o)' BY <1>1
  <2>9. refusals = MaxRefusals => (play[inner] <=> voice[inner] # "Inactive")
    BY <1>1 DEF Phase, PlayPhase, At, Idle
  <2>10. refusals = MaxRefusals => PlayPhase(o)' BY <1>1, <2>9 DEF PlayPhase
  <2> QED BY <1>1, <2>2, <2>4, <2>7, <2>8, <2>10, OrderGoesOn
<1>2. ASSUME NEW k \in Kinds, Test(w, k) PROVE VoiceInv'
  <2>1. PICK then \in {"idle", "test open"} :
          Begin(w, IF then = "idle" THEN Idle ELSE [at |-> "test open", kind |-> k])
    BY <1>2 DEF Test
  <2>2. PICK o : o = IF then = "idle" THEN Idle ELSE [at |-> "test open", kind |-> k] OBVIOUS
  <2>3. ~muddled /\ Busy = {} /\ order' = [order EXCEPT ![w] = o] BY <2>1, <2>2 DEF Begin
  <2>4. VoiceTypes /\ Phase(Idle) /\ \A x \in Workers : order[x] = Idle BY <2>3, NoOrderUnderWay
  <2>5. o.at \in {"idle", "test open"} /\ (o.at = "test open" => o.kind \in Kinds)
    <3>1. CASE then = "idle" BY <2>2, <3>1 DEF Idle
    <3>2. CASE then # "idle"
      <4>1. o = [at |-> "test open", kind |-> k] BY <2>2, <3>2
      <4> QED BY <4>1
    <3> QED BY <3>1, <3>2
  <2>7. PICK handles : Abort(handles) BY <1>2 DEF Test
  <2>8. /\ CallTasks' \subseteq CallTasks /\ \A t \in CallTasks' : task'[t] = task[t]
        /\ task' = [t \in Tasks |-> task'[t]]
    BY <2>7, CallsAborted
  <2>9. UNCHANGED <<inner, voice, out, play, refusals>> BY <1>2 DEF Test
  <2> QED BY <1>1, <2>3, <2>4, <2>5, <2>8, <2>9
<1>3. CASE TestOpen(w)
  <2>0. ~muddled BY <1>3 DEF TestOpen, Refused, Within
  <2>1. At(w, "test open") BY <1>3 DEF TestOpen
  <2>2. VoiceTypes /\ Phase(order[w]) /\ \A x \in Workers \ {w} : order[x] = Idle
    BY <2>0, <2>1, OrderUnderWay
  <2>3. CASE Refused(w) BY <2>1, <2>2, <2>3, RefusedKept DEF At
  <2>4. CASE ~Refused(w)
    <3>1. /\ order' = [order EXCEPT ![w] = Idle] /\ UNCHANGED <<inner, voice, out, play, refusals>>
          /\ UNCHANGED task \/ \E t \in Tasks : Spawned(t, order[w].kind, "")
      BY <1>3, <2>4 DEF TestOpen, Done, Goto, Reading, Within
    <3>2. order[w].kind \in Kinds BY <2>1, <2>2 DEF Phase, At
    <3>3. /\ CallTasks' \subseteq CallTasks /\ \A t \in CallTasks' : task'[t] = task[t]
          /\ task' = [t \in Tasks |-> task'[t]]
      <4>1. CASE UNCHANGED task BY <2>2, <4>1 DEF CallTasks, VoiceTypes
      <4>2. CASE \E t \in Tasks : Spawned(t, order[w].kind, "") BY <2>2, <3>2, <4>2, OtherSpawned
      <4> QED BY <3>1, <4>1, <4>2
    <3>4. Idle.at = "idle" BY DEF Idle
    <3> QED BY <1>1, <2>1, <2>2, <3>1, <3>3, <3>4
  <2> QED BY <2>3, <2>4
<1> QED BY <1>2, <1>3

\* Leaving a session for another one, and opening a new one.
LEMMA MovesKept ==
    ASSUME VoiceInv, ~muddled', NEW w \in Workers,
           MoveSet(w) \/ MoveSwap(w) \/ \E s \in Servers : Connect(w, s)
    PROVE  VoiceInv'
<1> USE DEF OrderPhase, SilentSteps, ActiveSteps, MoveSteps, PartSteps
<1>0. Servers \subseteq AppSessions BY DEF AppSessions
<1>1. CASE MoveSet(w)
  <2>0. ~muddled /\ At(w, "move set") BY <1>1 DEF MoveSet, Within
  <2>1. VoiceTypes /\ Phase(order[w]) /\ \A x \in Workers \ {w} : order[x] = Idle
    BY <2>0, OrderUnderWay
  <2>2. PICK to, was : IsMove(order[w], "move set", inner, to, was)
    BY <2>0, <2>1 DEF Phase, At, IsMove
  <2>3. StepsOn(w, "move swap") BY <1>1 DEF MoveSet, StepsOn
  <2>4. PICK o : IsMove(o, "move swap", inner, to, was) /\ order' = [order EXCEPT ![w] = o]
    <3>1. PICK o : IsMove(o, "move swap", inner, to, was) /\ Goto(w, o) BY <2>2, <2>3, MoveStepsOn
    <3> QED BY <3>1 DEF Goto
  <2>5. order[w].from = inner /\ order[w].to = to BY <2>2, <2>3, MoveStepsOn
  <2>6. o.at = "move swap" BY <2>4 DEF IsMove
  <2>7. to \in Servers /\ CallTasks = {}
    <3>1. order[w].to \in Servers /\ CallTasks = {} BY <2>0, <2>1 DEF Phase, At
    <3> QED BY ONLY <2>5, <3>1
  <2>8. voice' = [voice EXCEPT ![inner] = "Inactive"] /\ UNCHANGED <<inner, out, play, task, refusals>>
    BY <1>1, <2>5 DEF MoveSet, SetVoice, Within
  <2>9. order' = [x \in Workers |-> order'[x]] BY <2>1, <2>4 DEF VoiceTypes
  <2>10. VoiceTypes' BY <2>1, <2>8, <2>9 DEF VoiceTypes
  <2>11. voice'[inner] = "Inactive" /\ \A s \in AppSessions \ {inner} : voice'[s] = voice[s]
    BY <2>1, <2>8 DEF VoiceTypes
  <2>12. OthersRest' BY <2>1, <2>8, <2>11 DEF Phase, OthersRest
  <2>13. CallTasks' = {} BY <2>7, <2>8 DEF CallTasks
  <2>14. CapturePhase(o)' BY <2>13 DEF CapturePhase
  <2>15. OrderPhase(o)' BY <2>4, <2>7, <2>8, <2>11, <2>13 DEF IsMove
  <2>16. refusals = MaxRefusals => ~play[inner] BY <2>0, <2>1 DEF Phase, PlayPhase, At
  <2>17. refusals = MaxRefusals => PlayPhase(o)' BY <2>6, <2>8, <2>11, <2>16 DEF PlayPhase
  <2> QED BY <2>1, <2>4, <2>8, <2>10, <2>12, <2>14, <2>15, <2>17, OrderGoesOn
<1>2. CASE MoveSwap(w)
  <2>0. ~muddled /\ At(w, "move swap") BY <1>2 DEF MoveSwap, Within
  <2>1. VoiceTypes /\ Phase(order[w]) /\ \A x \in Workers \ {w} : order[x] = Idle
    BY <2>0, OrderUnderWay
  <2>2. CallTasks = {} /\ voice[inner] = "Inactive" /\ order[w].to \in Servers
    BY <2>0, <2>1 DEF Phase, At
  <2>3. PICK o : /\ order' = [order EXCEPT ![w] = o]
                 /\ o = Idle \/ o = [at |-> "enable read"] \/ o = [at |-> "muted read"]
    <3>1. CASE link[order[w].to] = "none" BY <1>2, <3>1 DEF MoveSwap, Done, Goto
    <3>2. CASE link[order[w].to] # "none"
      <4>1. PICK o : o = IF order[w].was = "Inactive" THEN Idle
                         ELSE IF order[w].was = "Active" THEN [at |-> "enable read"]
                         ELSE [at |-> "muted read"]
        OBVIOUS
      <4>2. order' = [order EXCEPT ![w] = o] BY <1>2, <3>2, <4>1 DEF MoveSwap, Goto
      <4>3. o = Idle \/ o = [at |-> "enable read"] \/ o = [at |-> "muted read"] BY <4>1
      <4> QED BY <4>2, <4>3
    <3> QED BY <3>1, <3>2
  <2>4. inner' \in AppSessions /\ UNCHANGED <<voice, out, play, task, refusals>>
    BY <1>0, <1>2, <2>1, <2>2 DEF MoveSwap, Within, VoiceTypes
  <2>5. order' = [x \in Workers |-> order'[x]] BY <2>1, <2>3 DEF VoiceTypes
  <2>6. VoiceTypes' BY <2>1, <2>4, <2>5 DEF VoiceTypes
  <2>7. \A s \in AppSessions : voice[s] = "Inactive" BY <2>1, <2>2 DEF Phase, OthersRest
  <2>8. refusals = MaxRefusals => \A s \in AppSessions : ~play[s]
    BY <2>0, <2>1, <2>2 DEF Phase, OthersRest, PlayPhase, At
  <2>9. OthersRest' BY <2>4, <2>7, <2>8 DEF OthersRest
  <2>10. CallTasks' = {} BY <2>2, <2>4 DEF CallTasks
  <2>11. CapturePhase(o)' BY <2>10 DEF CapturePhase
  <2>12. o.at \in {"idle", "enable read", "muted read"}
    <3>1. CASE o = Idle BY <3>1 DEF Idle
    <3>2. CASE o = [at |-> "enable read"] BY <3>2
    <3>3. CASE o = [at |-> "muted read"] BY <3>3
    <3> QED BY <2>3, <3>1, <3>2, <3>3
  <2>13. OrderPhase(o)' BY <2>10, <2>12
  <2>14. refusals = MaxRefusals => PlayPhase(o)' BY <2>4, <2>7, <2>8, <2>12 DEF PlayPhase
  <2> QED BY <2>1, <2>3, <2>4, <2>6, <2>9, <2>11, <2>13, <2>14, OrderGoesOn
<1>3. ASSUME NEW s \in Servers, Connect(w, s) PROVE VoiceInv'
  <2>0. ~muddled /\ Busy = {} /\ voice[inner] = "Inactive" BY <1>3 DEF Connect
  <2>1. VoiceTypes /\ Phase(Idle) /\ \A x \in Workers : order[x] = Idle BY <2>0, NoOrderUnderWay
  <2>2. inner' = s /\ UNCHANGED <<voice, out, play, task, order, refusals>> BY <1>3 DEF Connect
  <2>3. VoiceTypes' BY <1>0, <2>1, <2>2 DEF VoiceTypes
  <2>4. \A r \in AppSessions : voice[r] = "Inactive" BY <2>0, <2>1 DEF Phase, OthersRest
  <2>5. refusals = MaxRefusals => \A r \in AppSessions : ~play[r]
    BY <2>0, <2>1 DEF Phase, OthersRest, PlayPhase, Idle
  <2>6. OthersRest' BY <2>2, <2>4, <2>5 DEF OthersRest
  <2>7. CallTasks = {} BY <2>0, <2>1, CallIsActive
  <2>8. CallTasks' = {} BY <2>2, <2>7 DEF CallTasks
  <2>9. CapturePhase(Idle)' BY <2>8 DEF CapturePhase
  <2>10. OrderPhase(Idle)' BY DEF Idle
  <2>11. refusals = MaxRefusals => PlayPhase(Idle)' BY <1>0, <2>2, <2>4, <2>5 DEF PlayPhase, Idle
  <2>12. OneOrder(Idle)' BY <2>1, <2>2 DEF OneOrder
  <2> QED BY <2>2, <2>3, <2>6, <2>9, <2>10, <2>11, <2>12 DEF VoiceInv, Phase
<1> QED BY <1>1, <1>2, <1>3

\* Leaving a server.
LEMMA PartsKept ==
    ASSUME VoiceInv, ~muddled', NEW w \in Workers,
           (\E s \in Servers : DisconnectSession(w, s)) \/ PartTake(w) \/ PartDone(w)
    PROVE  VoiceInv'
<1> USE DEF OrderPhase, SilentSteps, ActiveSteps, MoveSteps, PartSteps
<1>0. Servers \subseteq AppSessions BY DEF AppSessions
<1>1. ASSUME NEW s \in Servers, DisconnectSession(w, s) PROVE VoiceInv'
  <2>1. PICK o : IsPart(o, "part take", s, inner = s) BY DEF IsPart
  <2>2. /\ ~muddled /\ Busy = {} /\ order' = [order EXCEPT ![w] = o]
        /\ UNCHANGED <<inner, voice, refusals>>
    BY <1>1, <2>1 DEF DisconnectSession, Begin, IsPart
  <2>3. VoiceTypes /\ Phase(Idle) /\ \A x \in Workers : order[x] = Idle BY <2>2, NoOrderUnderWay
  <2>4. o.at = "part take" /\ o.from = s BY <2>1 DEF IsPart
  <2>5. o = [at |-> o.at, from |-> o.from, active |-> (inner = o.from)] BY <2>1, <2>4 DEF IsPart
  <2>6. order' = [x \in Workers |-> order'[x]] BY <2>2, <2>3 DEF VoiceTypes
  <2>7. CASE inner = s
    <3>1. PICK handles : handles = {out[inner], test[inner]["mic"], test[inner]["ping"]} OBVIOUS
    <3>2. /\ Abort(handles) /\ out[inner] \in handles
          /\ out' = [out EXCEPT ![inner] = 0] /\ play' = [play EXCEPT ![inner] = FALSE]
      BY <1>1, <2>7, <3>1 DEF DisconnectSession, StopAudioOn
    <3>3. CallTasks' = {} /\ task' = [t \in Tasks |-> task'[t]]
      BY <2>3, <3>2, CaptureStopped DEF Phase
    <3>4. VoiceTypes' BY <2>2, <2>3, <2>6, <3>2, <3>3 DEF VoiceTypes
    <3>5. ~play'[inner] /\ \A r \in AppSessions \ {inner} : play'[r] = play[r]
      BY <2>3, <3>2 DEF VoiceTypes
    <3>6. OthersRest' BY <2>2, <2>3, <3>5 DEF Phase, OthersRest
    <3>7. CapturePhase(o)' BY <3>3 DEF CapturePhase
    <3>8. OrderPhase(o)' BY <2>2, <2>4, <2>5, <3>3
    <3>9. PlayPhase(o)' BY <2>2, <2>4, <2>7, <3>5 DEF PlayPhase
    <3> QED BY <2>2, <2>3, <3>4, <3>6, <3>7, <3>8, <3>9, OrderGoesOn
  <2>8. CASE inner # s
    <3>1. UNCHANGED <<inner, voice, out, play, task, refusals>>
      BY <1>1, <2>8 DEF DisconnectSession
    <3>2. CapturePhase(o) BY <2>3 DEF Phase, CapturePhase, Idle
    <3>3. OrderPhase(o) BY <2>4, <2>5, <2>8
    <3>4. PlayPhase(Idle) => PlayPhase(o) BY <2>4, <2>8 DEF PlayPhase, Idle
    <3> QED BY <2>2, <2>3, <3>1, <3>2, <3>3, <3>4, OrderReads DEF Phase
  <2> QED BY <2>7, <2>8
<1>2. ASSUME NEW at \in PartSteps, At(w, at), ~muddled
      PROVE  /\ VoiceTypes /\ Phase(order[w]) /\ \A x \in Workers \ {w} : order[x] = Idle
             /\ order[w].from \in Servers /\ IsPart(order[w], at, order[w].from, inner = order[w].from)
             /\ inner = order[w].from => CallTasks = {}
  <2>1. VoiceTypes /\ Phase(order[w]) /\ \A x \in Workers \ {w} : order[x] = Idle
    BY <1>2, OrderUnderWay
  <2>2. order[w].from \in Servers /\ (inner = order[w].from => CallTasks = {})
    BY <1>2, <2>1 DEF Phase, At
  <2>3. /\ order[w].at = at
        /\ order[w] = [at |-> order[w].at, from |-> order[w].from, active |-> (inner = order[w].from)]
    BY <1>2, <2>1 DEF Phase, At
  <2>4. IsPart(order[w], at, order[w].from, inner = order[w].from) BY ONLY <2>3 DEF IsPart
  <2> QED BY <2>1, <2>2, <2>4
<1>3. CASE PartTake(w)
  <2>0. ~muddled /\ At(w, "part take") BY <1>3 DEF PartTake, Within
  <2>1. PICK s : s = order[w].from OBVIOUS
  <2>2. /\ VoiceTypes /\ Phase(order[w]) /\ \A x \in Workers \ {w} : order[x] = Idle
        /\ s \in Servers /\ IsPart(order[w], "part take", s, inner = s)
        /\ inner = s => CallTasks = {}
    BY <1>2, <2>0, <2>1
  <2>3. StepsOn(w, "part done") BY <1>3 DEF PartTake, StepsOn
  <2>4. PICK o : IsPart(o, "part done", s, inner = s) /\ Goto(w, o)
    <3>1. PICK active : active = (inner = s) /\ IsPart(order[w], "part take", s, active) BY <2>2
    <3>2. PICK o : IsPart(o, "part done", s, active) /\ Goto(w, o) BY <2>3, <3>1, PartStepsOn
    <3> QED BY <3>1, <3>2
  <2>5. o.at = "part done" /\ o.from = s BY <2>4 DEF IsPart
  <2>6. o = [at |-> o.at, from |-> o.from, active |-> (inner = o.from)] BY <2>4, <2>5 DEF IsPart
  <2>7. order' = [order EXCEPT ![w] = o] /\ UNCHANGED <<inner, voice, out, play, task, refusals>>
    BY <1>3, <2>4 DEF PartTake, Goto, Within
  <2>8. CapturePhase(o) BY <2>0, <2>2 DEF Phase, CapturePhase, At
  <2>9. OrderPhase(o) BY <2>2, <2>5, <2>6
  <2>10. PlayPhase(order[w]) => PlayPhase(o) BY <2>0, <2>1, <2>5 DEF PlayPhase, At
  <2> QED BY <2>2, <2>7, <2>8, <2>9, <2>10, OrderReads DEF Phase
<1>4. CASE PartDone(w)
  <2>0. ~muddled /\ At(w, "part done") BY <1>4 DEF PartDone, Within
  <2>1. PICK s : s = order[w].from OBVIOUS
  <2>2. /\ VoiceTypes /\ Phase(order[w]) /\ \A x \in Workers \ {w} : order[x] = Idle
        /\ s \in Servers /\ IsPart(order[w], "part done", s, inner = s)
        /\ inner = s => CallTasks = {}
    BY <1>2, <2>0, <2>1
  <2>3. order[w].active = (inner = s)
    <3>1. PICK r : r = order[w] OBVIOUS
    <3>2. r = [at |-> "part done", from |-> s, active |-> (inner = s)] BY <2>2, <3>1 DEF IsPart
    <3>3. r.active = (inner = s) BY ONLY <3>2
    <3> QED BY ONLY <3>1, <3>3
  <2>4. /\ order' = [order EXCEPT ![w] = Idle] /\ UNCHANGED <<task, refusals>>
        /\ voice' = [voice EXCEPT ![s] = "Inactive"] /\ out' = [out EXCEPT ![s] = 0]
        /\ play' = [play EXCEPT ![s] = FALSE]
    BY <1>4, <2>1 DEF PartDone, SetVoice, Done, Goto, Within
  <2>5. inner' \in AppSessions /\ (inner # s => inner' = inner)
    <3>1. CASE inner = s
      <4>1. order[w].active BY <2>3, <3>1
      <4>2. inner' = Default \/ inner' \in Servers BY <1>4, <4>1 DEF PartDone
      <4> QED BY <3>1, <4>2 DEF AppSessions
    <3>2. CASE inner # s
      <4>1. ~order[w].active BY <2>3, <3>2
      <4>2. inner' = inner BY <1>4, <4>1 DEF PartDone
      <4> QED BY <2>2, <4>2 DEF VoiceTypes
    <3> QED BY <3>1, <3>2
  <2>6. order' = [x \in Workers |-> order'[x]] BY <2>2, <2>4 DEF VoiceTypes
  <2>7. /\ voice' \in [AppSessions -> {"Inactive", "Active", "Muted"}]
        /\ out' \in [AppSessions -> {0} \cup Tasks] /\ play' \in [AppSessions -> BOOLEAN]
    BY <2>2, <2>4 DEF VoiceTypes
  <2>8. VoiceTypes' BY <2>2, <2>4, <2>5, <2>6, <2>7 DEF VoiceTypes
  <2>9. /\ voice'[s] = "Inactive" /\ ~play'[s]
        /\ \A r \in AppSessions \ {s} : voice'[r] = voice[r] /\ play'[r] = play[r] /\ out'[r] = out[r]
    BY <1>0, <2>2, <2>4 DEF VoiceTypes
  <2>10. CallTasks' = CallTasks BY <2>4 DEF CallTasks
  <2>11. OthersRest /\ CapturePhase(order[w]) BY <2>2 DEF Phase
  <2>12. OthersRest'
    <3>1. CASE inner = s BY <2>4, <2>9, <2>11, <3>1 DEF OthersRest
    <3>2. CASE inner # s BY <2>4, <2>5, <2>9, <2>11, <3>2 DEF OthersRest
    <3> QED BY <3>1, <3>2
  <2>13. CapturePhase(Idle)'
    <3>1. CASE inner = s BY <2>2, <2>10, <3>1 DEF CapturePhase
    <3>2. CASE inner # s
      <4>1. inner' = inner /\ inner \in AppSessions \ {s} BY <2>2, <2>5, <3>2 DEF VoiceTypes
      <4> QED BY <2>0, <2>4, <2>9, <2>10, <2>11, <4>1 DEF CapturePhase, At
    <3> QED BY <3>1, <3>2
  <2>14. OrderPhase(Idle)' BY DEF Idle
  <2>15. refusals = MaxRefusals => PlayPhase(Idle)'
    <3> SUFFICES ASSUME refusals = MaxRefusals PROVE PlayPhase(Idle)' OBVIOUS
    <3>1. PlayPhase(order[w]) BY <2>2 DEF Phase
    <3>2. play'[inner'] <=> voice'[inner'] # "Inactive"
      <4>1. CASE inner' = s BY <2>9, <4>1
      <4>2. CASE inner' # s /\ inner = s BY <2>5, <2>9, <2>11, <4>2 DEF OthersRest
      <4>3. CASE inner' # s /\ inner # s BY <2>0, <2>1, <2>5, <2>9, <3>1, <4>3 DEF PlayPhase, At
      <4> QED BY <4>1, <4>2, <4>3
    <3> QED BY <3>2 DEF PlayPhase, Idle
  <2> QED BY <2>2, <2>4, <2>8, <2>12, <2>13, <2>14, <2>15, OrderGoesOn
<1> QED BY <1>1, <1>3, <1>4

\* What the event loop and the background tasks do.
LEMMA EventsKept ==
    ASSUME VoiceInv, ~muddled',
           (\E s \in Servers : ConnectionLost(s)) \/ \E t \in Tasks : TaskEnds(t)
    PROVE  VoiceInv'
<1> USE DEF OrderPhase, SilentSteps, ActiveSteps, MoveSteps, PartSteps
<1>0. Servers \subseteq AppSessions BY DEF AppSessions
<1>1. ASSUME NEW s \in Servers, ConnectionLost(s) PROVE VoiceInv'
  <2>1. ~muddled /\ Busy = {} /\ UNCHANGED <<inner, order, refusals>> BY <1>1 DEF ConnectionLost
  <2>2. VoiceTypes /\ Phase(Idle) /\ \A x \in Workers : order[x] = Idle BY <2>1, NoOrderUnderWay
  <2>3. /\ Abort({out[s]}) /\ voice' = [voice EXCEPT ![s] = "Inactive"]
        /\ out' = [out EXCEPT ![s] = 0] /\ play' = [play EXCEPT ![s] = FALSE]
    BY <1>1 DEF ConnectionLost, StopOutbound, SetVoice
  <2>4. /\ CallTasks' = CallTasks \ {out[s]} /\ \A t \in CallTasks' : task'[t] = task[t]
        /\ task' = [t \in Tasks |-> task'[t]]
    BY <2>3, CallsAborted
  <2>5. VoiceTypes' BY <2>1, <2>2, <2>3, <2>4 DEF VoiceTypes
  <2>6. /\ voice'[s] = "Inactive" /\ ~play'[s]
        /\ \A r \in AppSessions \ {s} : voice'[r] = voice[r] /\ play'[r] = play[r] /\ out'[r] = out[r]
    BY <1>0, <2>2, <2>3 DEF VoiceTypes
  <2>7. OthersRest' BY <2>1, <2>2, <2>6 DEF Phase, OthersRest
  <2>8. CapturePhase(Idle) /\ (refusals = MaxRefusals => PlayPhase(Idle)) BY <2>2 DEF Phase
  <2>9. CapturePhase(Idle)'
    <3>1. CASE inner = s BY <2>4, <2>8, <3>1 DEF CapturePhase
    <3>2. CASE inner # s
      <4>1. inner' = inner /\ inner \in AppSessions \ {s} BY <2>1, <2>2, <3>2 DEF VoiceTypes
      <4> QED BY <2>4, <2>6, <2>8, <4>1 DEF CapturePhase
    <3> QED BY <3>1, <3>2
  <2>10. OrderPhase(Idle)' BY DEF Idle
  <2>11. refusals = MaxRefusals => PlayPhase(Idle)'
    <3>1. inner \in AppSessions BY <2>2 DEF VoiceTypes
    <3> QED BY <2>1, <2>6, <2>8, <3>1 DEF PlayPhase, Idle
  <2>12. OneOrder(Idle)' BY <2>1, <2>2 DEF OneOrder
  <2> QED BY <2>1, <2>5, <2>7, <2>9, <2>10, <2>11, <2>12 DEF VoiceInv, Phase
<1>2. ASSUME NEW t \in Tasks, TaskEnds(t) PROVE VoiceInv'
  <2>1. ~muddled /\ Abort({t}) /\ UNCHANGED <<inner, voice, out, play, order>> BY <1>2 DEF TaskEnds
  <2>2. PICK o : VoiceTypes /\ OneOrder(o) /\ Phase(o) BY <2>1 DEF VoiceInv
  <2>3. refusals' \in Nat /\ refusals' <= refusals
    <3>1. refusals \in Nat BY <2>2 DEF VoiceTypes
    <3>2. refusals' = refusals \/ (refusals > 0 /\ refusals' = refusals - 1) BY <1>2 DEF TaskEnds
    <3> QED BY ONLY <3>1, <3>2
  <2>4. refusals' <= MaxRefusals /\ (refusals' = MaxRefusals => refusals = MaxRefusals)
    <3>1. refusals \in Nat /\ refusals <= MaxRefusals /\ MaxRefusals \in Nat
      BY <2>2, VoiceAssumption DEF VoiceTypes
    <3> QED BY ONLY <2>3, <3>1
  <2>5. /\ CallTasks' \subseteq CallTasks /\ \A u \in CallTasks' : task'[u] = task[u]
        /\ task' = [u \in Tasks |-> task'[u]]
    BY <2>1, CallsAborted
  <2>6. VoiceTypes' BY <2>1, <2>2, <2>3, <2>4, <2>5 DEF VoiceTypes
  <2>7. OthersRest' BY <2>1, <2>2, <2>4 DEF Phase, OthersRest
  <2>8. CapturePhase(o)' BY <2>1, <2>2, <2>5 DEF Phase, CapturePhase
  <2>9. OrderPhase(o)' BY <2>1, <2>2, <2>5 DEF Phase
  <2>10. PlayPhase(o) => PlayPhase(o)' BY <2>1 DEF PlayPhase
  <2>11. OneOrder(o)' BY <2>1, <2>2 DEF OneOrder
  <2> QED BY <2>2, <2>4, <2>6, <2>7, <2>8, <2>9, <2>10, <2>11 DEF VoiceInv, Phase
<1> QED BY <1>1, <1>2

\* A step that touches nothing the invariant speaks of.
LEMMA UntouchedKept ==
    ASSUME VoiceInv, UNCHANGED <<inner, voice, out, play, task, order, refusals, muddled>>
    PROVE  VoiceInv'
<1>1. CASE muddled BY <1>1 DEF VoiceInv
<1>2. CASE ~muddled
  <2>1. PICK o : VoiceTypes /\ OneOrder(o) /\ Phase(o) BY <1>2 DEF VoiceInv
  <2>2. VoiceTypes' /\ OneOrder(o)' BY <2>1 DEF VoiceTypes, OneOrder
  <2>3. CallTasks' = CallTasks BY DEF CallTasks
  <2>4. OthersRest' /\ CapturePhase(o)' BY <2>1, <2>3 DEF Phase, OthersRest, CapturePhase
  <2>5. OrderPhase(o)' BY <2>1, <2>3 DEF Phase, OrderPhase
  <2>6. PlayPhase(o) => PlayPhase(o)' BY DEF PlayPhase
  <2> QED BY <2>1, <2>2, <2>4, <2>5, <2>6 DEF VoiceInv, Phase
<1> QED BY <1>1, <1>2

\* Every step of the voice commands keeps the invariant.
LEMMA VoiceKept == VoiceInv /\ [VoiceNext]_voiceVars => VoiceInv'
<1> SUFFICES ASSUME VoiceInv, [VoiceNext]_voiceVars PROVE VoiceInv' OBVIOUS
<1>1. CASE muddled' BY <1>1 DEF VoiceInv
<1>2. CASE UNCHANGED voiceVars BY <1>2, UntouchedKept DEF voiceVars
<1>3. CASE ~muddled' /\ VoiceNext
  <2>1. ASSUME NEW s \in Servers, Connected(s) PROVE VoiceInv'
    BY <2>1, UntouchedKept DEF Connected
  <2>2. ASSUME NEW w \in Workers,
               \/ ToggleMute(w) \/ EnableVoice(w) \/ ToggleDeafen(w) \/ DisableVoice(w)
               \/ SetAudioSettings(w) \/ \E s \in Servers : SwitchActive(w, s)
        PROVE  VoiceInv'
    BY <1>3, <2>2, CommandsBegin
  <2>3. ASSUME NEW w \in Workers, EnableRead(w) \/ MutedRead(w) \/ RestartRead(w) PROVE VoiceInv'
    BY <1>3, <2>3, ReadingsKept
  <2>4. ASSUME NEW w \in Workers,
               \/ MuteSet(w) \/ SetActive(w) \/ OffSet(w) \/ MutedPlay(w) \/ EnablePlay(w)
               \/ InboundStop(w) \/ InboundPlay(w)
        PROVE  VoiceInv'
    BY <1>3, <2>4, SettingsKept
  <2>5. ASSUME NEW w \in Workers, MuteStop(w) \/ RestartStop(w) \/ OffStop(w) \/ MoveStop(w)
        PROVE  VoiceInv'
    BY <1>3, <2>5, StopsKept
  <2>6. ASSUME NEW w \in Workers, OutOpen(w) PROVE VoiceInv' BY <1>3, <2>6, OutOpenKept
  <2>7. ASSUME NEW w \in Workers, (\E k \in Kinds : Test(w, k)) \/ TestOpen(w) PROVE VoiceInv'
    BY <1>3, <2>7, TestsKept
  <2>8. ASSUME NEW w \in Workers, MoveSet(w) \/ MoveSwap(w) \/ \E s \in Servers : Connect(w, s)
        PROVE  VoiceInv'
    BY <1>3, <2>8, MovesKept
  <2>9. ASSUME NEW w \in Workers,
               (\E s \in Servers : DisconnectSession(w, s)) \/ PartTake(w) \/ PartDone(w)
        PROVE  VoiceInv'
    BY <1>3, <2>9, PartsKept
  <2>10. ASSUME (\E s \in Servers : ConnectionLost(s)) \/ \E t \in Tasks : TaskEnds(t)
         PROVE  VoiceInv'
    BY <1>3, <2>10, EventsKept
  <2> QED BY <1>3, <2>1, <2>2, <2>3, <2>4, <2>5, <2>6, <2>7, <2>8, <2>9, <2>10 DEF VoiceNext
<1> QED BY <1>1, <1>2, <1>3

\* It holds at first: nothing is under way and no task runs.
LEMMA VoiceStart == VoiceInit => VoiceInv
<1> SUFFICES ASSUME VoiceInit PROVE VoiceInv OBVIOUS
<1> USE DEF VoiceInit
<1>1. inner \in AppSessions BY DEF AppSessions
<1>2. refusals \in Nat /\ refusals <= MaxRefusals
  <2>1. MaxRefusals \in Nat /\ refusals = MaxRefusals BY VoiceAssumption
  <2> QED BY ONLY <2>1
<1>3. voice \in [AppSessions -> {"Inactive", "Active", "Muted"}] /\ out \in [AppSessions -> {0} \cup Tasks]
  OBVIOUS
<1>4. play \in [AppSessions -> BOOLEAN] OBVIOUS
<1>5. task = [t \in Tasks |-> task[t]] /\ order = [w \in Workers |-> order[w]] OBVIOUS
<1>6. VoiceTypes BY <1>1, <1>2, <1>3, <1>4, <1>5 DEF VoiceTypes
<1>7. \A w \in Workers : order[w] = Idle OBVIOUS
<1>8. CallTasks = {} BY DEF CallTasks
<1>9. OthersRest /\ CapturePhase(Idle) BY <1>8 DEF OthersRest, CapturePhase
<1>10. OrderPhase(Idle) BY DEF OrderPhase, Idle, SilentSteps, ActiveSteps, MoveSteps, PartSteps
<1>11. PlayPhase(Idle) BY <1>1 DEF PlayPhase, Idle
<1> QED BY <1>6, <1>7, <1>9, <1>10, <1>11 DEF VoiceInv, Phase, OneOrder

\* Between commands that did not overlap, the microphone is captured only for the active session,
\* only while it is in an active call, and by the task it holds; and the others are heard exactly
\* while it is in a call, as long as every device opened (state/audio.rs, state/mod.rs).
THEOREM MicCorrect == VoiceSpec => []MicFollowsVoice
<1>1. VoiceInv => MicFollowsVoice
  <2> SUFFICES ASSUME VoiceInv, Quiet, ~muddled
               PROVE  /\ \A t \in Running :
                           task[t].kind = "call" => /\ out[inner] = t
                                                    /\ voice[inner] = "Active"
                                                    /\ task[t].to = inner
                      /\ refusals = MaxRefusals =>
                           \A s \in AppSessions : play[s] <=> voice[s] # "Inactive"
    BY DEF MicFollowsVoice
  <2>1. VoiceTypes /\ Phase(Idle) BY NoOrderUnderWay DEF Quiet
  <2>2. \A t \in CallTasks : out[inner] = t /\ voice[inner] = "Active" /\ task[t].to = inner
    BY <2>1 DEF Phase, CapturePhase, Idle
  <2>3. \A t \in Running : task[t].kind = "call" => t \in CallTasks BY DEF Running, CallTasks
  <2>4. refusals = MaxRefusals => \A s \in AppSessions : play[s] <=> voice[s] # "Inactive"
    BY <2>1 DEF Phase, OthersRest, PlayPhase, Idle
  <2> QED BY <2>2, <2>3, <2>4
<1> QED BY <1>1, VoiceStart, VoiceKept, PTL DEF VoiceSpec

=============================================================================
