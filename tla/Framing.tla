------------------------------- MODULE Framing -------------------------------
(***************************************************************************)
(* The TCP stream of one connection, byte by byte: how control messages    *)
(* are framed (codec::encode, codec::decode), how the reader puts them     *)
(* together again from whatever pieces the network delivers                *)
(* (TcpReader::recv), and how tunnelled audio in the legacy format with    *)
(* its variable-length integers is decoded (decode_tunnel_audio).          *)
(*                                                                         *)
(* Protobuf payloads are opaque bytes.  Integers are read as far as TLC's  *)
(* reach: the 64-bit form of the varint is left out.                       *)
(***************************************************************************)
EXTENDS Naturals, Sequences, SequencesExt

CONSTANTS Outgoing,     \* messages the server may send
          MaxMessages   \* bound: messages per stream

VARIABLES
    planned,    \* what the server sends, in order
    wire,       \* bytes on the network
    readBuf,    \* TcpReader::read_buf
    got,        \* messages handed to the work queue
    played,     \* audio packets decoded from tunnelled messages
    reader      \* the reader task: "reading", "closed" or "failed"

framingVars == <<planned, wire, readBuf, got, played, reader>>

----------------------------------------------------------------------------
\* Big-endian numbers.
BigEndian(bytes) ==
    LET value[i \in 0..Len(bytes)] == IF i = 0 THEN 0 ELSE value[i - 1] * 256 + bytes[i]
    IN value[Len(bytes)]
U16(n) == <<n \div 256, n % 256>>
U32(n) == <<n \div 16777216, (n \div 65536) % 256, (n \div 256) % 256, n % 256>>

HeaderSize == 6
MaxPayloadSize == 8 * 1024 * 1024

\* TcpMessageType: the ids of the standard and of the extension messages.
KnownTypes == 0..26 \cup 100..135
UdpTunnel == 1

\* encode: a message is its type and the bytes of its payload.  size is what
\* the length field says, which is more than the payload only for a peer that
\* announces more than it may.
Frame(m) == U16(m.type) \o U32(m.size) \o m.payload

\* What is left in the buffer once a frame of that size was taken.
After(buf, total) == SubSeq(buf, total + 1, Len(buf))

\* deserialize_control_message: the payload is decoded by its type; the
\* protobuf decoders are taken to accept what a server sends.
Deserialize(type, payload) ==
    IF type \in KnownTypes THEN [ok |-> TRUE, msg |-> [type |-> type, payload |-> payload]]
    ELSE [ok |-> FALSE]

\* decode: nothing yet, one message and the bytes after it, or an error.
DecodeFrame(buf) ==
    IF Len(buf) < HeaderSize THEN [is |-> "none"]
    ELSE LET len == BigEndian(SubSeq(buf, 3, HeaderSize))
             total == HeaderSize + len
         IN IF len > MaxPayloadSize THEN [is |-> "error"]
            ELSE IF Len(buf) < total THEN [is |-> "none"]
            ELSE LET d == Deserialize(BigEndian(SubSeq(buf, 1, 2)),
                                      SubSeq(buf, HeaderSize + 1, total))
                 IN IF d.ok THEN [is |-> "message", msg |-> d.msg, rest |-> After(buf, total)]
                    ELSE [is |-> "error"]

----------------------------------------------------------------------------
\* MumbleVarint::write, up to 32 bits.
VarintWrite(v) ==
    IF v < 128 THEN <<v>>
    ELSE IF v < 16384 THEN <<128 + v \div 256, v % 256>>
    ELSE IF v < 2097152 THEN <<192 + v \div 65536, (v \div 256) % 256, v % 256>>
    ELSE IF v < 268435456 THEN
        <<224 + v \div 16777216, (v \div 65536) % 256, (v \div 256) % 256, v % 256>>
    ELSE <<240>> \o U32(v)

\* The bits of the first byte that belong to the value, by the form's length.
Forms == <<[low |-> 0, high |-> 127], [low |-> 128, high |-> 191], [low |-> 192, high |-> 223],
           [low |-> 224, high |-> 239], [low |-> 240, high |-> 240]>>

\* Mutant: the prefix of the two-byte form is left in the value.
VarintReadRaw(buf) ==
    IF buf = << >> \/ ~\E n \in 1..5 : buf[1] \in Forms[n].low..Forms[n].high THEN [ok |-> FALSE]
    ELSE LET n == CHOOSE n \in 1..5 : buf[1] \in Forms[n].low..Forms[n].high
         IN IF Len(buf) < n THEN [ok |-> FALSE]
            ELSE [ok |-> TRUE, n |-> n,
                  val |-> BigEndian(<<IF n = 2 THEN buf[1] ELSE buf[1] - Forms[n].low>>
                                    \o SubSeq(buf, 2, n))]

\* MumbleVarint::read: the value and the bytes it took, or an error.
VarintRead(buf) ==
    IF buf = << >> \/ ~\E n \in 1..5 : buf[1] \in Forms[n].low..Forms[n].high THEN [ok |-> FALSE]
    ELSE LET n == CHOOSE n \in 1..5 : buf[1] \in Forms[n].low..Forms[n].high
         IN IF Len(buf) < n THEN [ok |-> FALSE]
            ELSE [ok |-> TRUE, n |-> n,
                  val |-> BigEndian(<<buf[1] - Forms[n].low>> \o SubSeq(buf, 2, n))]

\* AudioType: the top three bits of the header byte, the target in the others.
OpusType == 4
Targets == 32

\* LegacyAudioCodec::encode, client to server: no session.
LegacyEncodeAudio(a) ==
    <<OpusType * Targets + (a.target % Targets)>> \o VarintWrite(a.frame)
    \o VarintWrite((Len(a.opus) % 8192) + (IF a.end THEN 8192 ELSE 0)) \o a.opus

\* The server puts the speaker's session after the header byte of a client's
\* packet and sends it on.
ServerRelaysAudio(session, packet) ==
    <<Head(packet)>> \o VarintWrite(session) \o Tail(packet)

\* LegacyAudioCodec::decode, server to client.
LegacyDecodeAudio(data) ==
    LET s == VarintRead(Tail(data))
        f == IF s.ok THEN VarintRead(SubSeq(data, 2 + s.n, Len(data))) ELSE s
        l == IF f.ok THEN VarintRead(SubSeq(data, 2 + s.n + f.n, Len(data))) ELSE f
        from == 1 + s.n + f.n + l.n
        len == l.val % 8192
    IN IF ~l.ok \/ (l.ok /\ from + len > Len(data)) THEN [ok |-> FALSE]
       ELSE [ok |-> TRUE, session |-> s.val,
             audio |-> [target |-> Head(data) % Targets, frame |-> f.val,
                        end |-> (l.val \div 8192) % 2 = 1,
                        opus |-> SubSeq(data, from + 1, from + len)]]

\* decode_tunnel_audio, for the legacy type; every other type but protobuf is
\* an error, and protobuf audio is left to the protobuf library.
DecodeTunnelAudio(data) ==
    IF data = << >> \/ (data # << >> /\ Head(data) \div Targets # OpusType) THEN [ok |-> FALSE]
    ELSE LegacyDecodeAudio(data)

----------------------------------------------------------------------------
\* A message of the model: its type and payload, and for tunnelled audio the
\* packet the speaker sent.
Control(type, payload) ==
    [type |-> type, size |-> Len(payload), payload |-> payload, talk |-> << >>]
Tunnelled(session, a) ==
    LET bytes == ServerRelaysAudio(session, LegacyEncodeAudio(a))
    IN [type |-> UdpTunnel, size |-> Len(bytes), payload |-> bytes,
        talk |-> <<[session |-> session, audio |-> a]>>]
Oversized == [type |-> 9, size |-> MaxPayloadSize + 1, payload |-> << >>, talk |-> << >>]

\* What the server may send.  Numbers have 32 bits, a frame says its size unless
\* it says too much, and what is tunnelled is audio or nothing that decodes.
Byte == 0..255
TypeId == 0..65535
Fits(n) == n \in Nat /\ n \div 16777216 < 256
Spoken(a) ==
    /\ a \in [target : 0..(Targets - 1), frame : Nat, end : BOOLEAN, opus : Seq(Byte)]
    /\ Fits(a.frame) /\ Len(a.opus) < 8192
Framed(m) ==
    /\ m.type \in TypeId /\ Fits(m.size) /\ m.payload \in Seq(Byte)
    /\ m.size = Len(m.payload) \/ m.size > MaxPayloadSize
Talks(m) ==
    IF m.talk = << >> THEN m.type = UdpTunnel => ~DecodeTunnelAudio(m.payload).ok
    ELSE LET t == m.talk[1]
         IN Fits(t.session) /\ Spoken(t.audio) /\ m = Tunnelled(t.session, t.audio)
Sendable(m) == Framed(m) /\ Talks(m)

ASSUME OutgoingAssumption == MaxMessages \in Nat /\ \A m \in Outgoing : Sendable(m)

Good(m) == m.type \in KnownTypes /\ m.size <= MaxPayloadSize

FramingTypeOK ==
    /\ Len(planned) <= MaxMessages
    /\ \A i \in DOMAIN readBuf : readBuf[i] \in 0..255
    /\ Len(got) <= Len(planned)
    /\ reader \in {"reading", "closed", "failed"}

FramingInit ==
    /\ planned \in BoundedSeq(Outgoing, MaxMessages)
    /\ wire = FlattenSeq([i \in DOMAIN planned |-> Frame(planned[i])])
    /\ readBuf = << >> /\ got = << >> /\ played = << >>
    /\ reader = "reading"

\* recv: one message is decoded and queued; the event loop plays what is
\* tunnelled audio and skips what it cannot decode.
RecvMessage ==
    /\ reader = "reading"
    /\ LET r == DecodeFrame(readBuf)
       IN /\ r.is = "message"
          /\ readBuf' = r.rest
          /\ got' = Append(got, r.msg)
          /\ played' = IF r.msg.type = UdpTunnel /\ DecodeTunnelAudio(r.msg.payload).ok
                         THEN LET d == DecodeTunnelAudio(r.msg.payload)
                              IN Append(played, [session |-> d.session, audio |-> d.audio])
                         ELSE played
    /\ UNCHANGED <<planned, wire, reader>>

\* recv reads more only when what it holds is no full frame; any number of
\* bytes may arrive.
ReadMore ==
    /\ reader = "reading" /\ DecodeFrame(readBuf).is = "none"
    /\ \E n \in 1..Len(wire) :
        /\ readBuf' = readBuf \o SubSeq(wire, 1, n)
        /\ wire' = SubSeq(wire, n + 1, Len(wire))
    /\ UNCHANGED <<planned, got, played, reader>>

\* An oversized frame or a type the client does not know ends the reader, and
\* with it the connection.
RecvError ==
    /\ reader = "reading" /\ DecodeFrame(readBuf).is = "error"
    /\ reader' = "failed"
    /\ UNCHANGED <<planned, wire, readBuf, got, played>>

\* The server closes the stream after its last byte.
RecvClosed ==
    /\ reader = "reading" /\ wire = << >> /\ DecodeFrame(readBuf).is = "none"
    /\ reader' = "closed"
    /\ UNCHANGED <<planned, wire, readBuf, got, played>>

FramingNext == RecvMessage \/ ReadMore \/ RecvError \/ RecvClosed

FramingSpec == FramingInit /\ [][FramingNext]_framingVars

----------------------------------------------------------------------------
\* However the stream is cut into pieces, the messages handed on are the ones
\* the server sent, whole and in order; the reader fails only at a message that
\* breaks the rules, and a stream without one arrives complete.  What is played
\* is what the speakers said: session, frame number, target, terminator and
\* sound of every tunnelled packet, at any size of the numbers.
StreamExact ==
    /\ got = [i \in 1..Len(got) |-> [type |-> planned[i].type, payload |-> planned[i].payload]]
    /\ reader = "failed" => Len(got) < Len(planned) /\ ~Good(planned[Len(got) + 1])
    /\ reader = "closed" => Len(got) = Len(planned)
    /\ played = FlattenSeq([i \in 1..Len(got) |-> planned[i].talk])
=============================================================================
