-------------------------- MODULE ClientLoop_proofs --------------------------
(***************************************************************************)
(* The event loop's variables keep their types, its UDP handles agree with *)
(* each other, with force_tcp and with what the interface was told, and no *)
(* UDP reader escapes the loop, for every capacity of the channels and     *)
(* however many messages, toggles and restarts there are.                  *)
(***************************************************************************)
EXTENDS ClientLoop, SequenceTheorems, TLAPS

Cmds == {"message", "disconnect"}

\* The parts of TypeOK: the channels, then the tasks and the transport.
ChannelTypes ==
    /\ udpQ \in 0 .. UdpCap /\ audioQ \in 0 .. AudioCap /\ outQ \in 0 .. OutCap
    /\ tcpQ \in Seq(Kinds) /\ Len(tcpQ) <= TcpCap
    /\ cmdQ \in Seq(Cmds) /\ Len(cmdQ) <= CmdCap
    /\ todo \in Seq(Cmds)
    /\ inbound \in Nat /\ toggles \in Nat /\ audios \in Nat
TransportTypes ==
    /\ starts \in Nat
    /\ sender \in 0 .. starts /\ reader \in 0 .. starts /\ resyncTx \in 0 .. starts
    /\ live \subseteq TcpTasks \cup {Udp(n) : n \in 1 .. starts}
    /\ aborted \subseteq TcpTasks \cup {Udp(n) : n \in 1 .. starts}
    /\ told \in {"nothing", "udp", "tcp"}
FlagTypes ==
    /\ pc \in Polls \cup {"sending", "ended", "aborted"}
    /\ watch \in [value : BOOLEAN, seen : BOOLEAN]
    /\ force \in BOOLEAN /\ stored \in BOOLEAN

\* The parts are TypeOK.
LEMMA TypeParts == TypeOK <=> ChannelTypes /\ TransportTypes /\ FlagTypes
BY DEF TypeOK, ChannelTypes, TransportTypes, FlagTypes, Cmds

\* The task of a UDP reader names its start.
LEMMA UdpNames == \A m, n : Udp(m) = Udp(n) => m = n
BY DEF Udp

\* What a step can do to the tasks and the transport: tasks end, or the
\* UDP reader is aborted and replaced, or aborted and dropped.
TasksEndOnly ==
    /\ live' \subseteq live /\ aborted' = aborted
    /\ UNCHANGED <<stored, sender, reader, resyncTx, told, starts>>

\* The steps of the tasks around the loop, and of the loop's handle.
Around ==
    \/ \E kind \in Kinds : TcpRecv(kind)
    \/ TcpReadError \/ WriterSend \/ WriterClosed \/ PingTick \/ Forward
    \/ \E n \in 1 .. starts : \/ UdpRecv(n) \/ UdpRequest(n)
                              \/ UdpSocketError(n) \/ ResyncClosed(n)
    \/ \E t \in live : AbortLands(t)
    \/ \E value \in BOOLEAN : SetForceTcp(value)
    \/ SendAudio

\* Next, by who acts.
LEMMA NextSplit == Next <=> Loop \/ SendOutbound \/ AbortLoop \/ Around
BY DEF Next, Around

\* Around the loop nothing but the set of live tasks changes.
LEMMA AroundOnlyEnds ==
    Around => TasksEndOnly /\ pc' = pc /\ force' = force
<1> USE DEF TasksEndOnly, transport, Ends
<1> SUFFICES ASSUME Around PROVE TasksEndOnly /\ pc' = pc /\ force' = force
  OBVIOUS
<1>1. ASSUME NEW kind \in Kinds, TcpRecv(kind) PROVE TasksEndOnly /\ pc' = pc /\ force' = force
  BY <1>1 DEF TcpRecv
<1>2. CASE TcpReadError BY <1>2 DEF TcpReadError
<1>3. CASE WriterSend BY <1>3 DEF WriterSend
<1>4. CASE WriterClosed BY <1>4 DEF WriterClosed
<1>5. CASE PingTick BY <1>5 DEF PingTick, Outbound
<1>6. CASE Forward BY <1>6 DEF Forward
<1>7. ASSUME NEW n \in 1 .. starts, UdpRecv(n) PROVE TasksEndOnly /\ pc' = pc /\ force' = force
  BY <1>7 DEF UdpRecv
<1>8. ASSUME NEW n \in 1 .. starts, UdpRequest(n) PROVE TasksEndOnly /\ pc' = pc /\ force' = force
  BY <1>8 DEF UdpRequest, Outbound
<1>9. ASSUME NEW n \in 1 .. starts, UdpSocketError(n) PROVE TasksEndOnly /\ pc' = pc /\ force' = force
  BY <1>9 DEF UdpSocketError
<1>10. ASSUME NEW t \in live, AbortLands(t) PROVE TasksEndOnly /\ pc' = pc /\ force' = force
  BY <1>10 DEF AbortLands
<1>11. ASSUME NEW value \in BOOLEAN, SetForceTcp(value) PROVE TasksEndOnly /\ pc' = pc /\ force' = force
  BY <1>11 DEF SetForceTcp
<1>12. CASE SendAudio BY <1>12 DEF SendAudio
<1>13. QED
  BY <1>1, <1>2, <1>3, <1>4, <1>5, <1>6, <1>7, <1>8, <1>9, <1>10, <1>11, <1>12
  DEF Around, ResyncClosed

-----------------------------------------------------------------------------
\* TransportAgrees without its guard and without force_tcp, and
\* NoOrphanReader without its guard: what the handlers of the loop rely on.
Handles == /\ sender = reader /\ reader = resyncTx
           /\ (told = "udp") <=> (sender # 0)
Held == \A n \in 1 .. starts : Udp(n) \in live \ aborted => n = reader

\* start_udp, whether it fails or not, keeps the three handles together and
\* gives up no reader that still runs; it has a sender when it told so.
LEMMA StartUdpKeeps ==
    ASSUME TransportTypes, Handles, Held, StartUdp
    PROVE  TransportTypes' /\ Handles' /\ Held'
<1> USE DEF TransportTypes, Handles, Held
<1>1. CASE UNCHANGED <<sender, reader, resyncTx, told, starts, live, aborted>>
  BY <1>1
<1>2. CASE /\ starts' = starts + 1 /\ AbortReader
           /\ resyncTx' = starts' /\ reader' = starts' /\ sender' = starts'
           /\ live' = live \cup {Udp(starts')} /\ told' = "udp"
  <2>1. starts' \in Nat /\ starts' # 0 /\ starts' \in 1 .. starts' /\ starts' \in 0 .. starts'
    BY <1>2
  <2>2. 1 .. starts \subseteq 1 .. starts' /\ 0 .. starts \subseteq 0 .. starts'
    BY <1>2
  <2>3. aborted' = aborted \cup {Udp(n) : n \in {reader} \ {0}}
    BY <1>2 DEF AbortReader
  <2>4. TransportTypes'
    <3>1. {Udp(n) : n \in 1 .. starts} \subseteq {Udp(n) : n \in 1 .. starts'}
      BY <2>2
    <3>2. {Udp(n) : n \in {reader} \ {0}} \subseteq {Udp(n) : n \in 1 .. starts}
      BY SMT
    <3>3. Udp(starts') \in {Udp(n) : n \in 1 .. starts'}
      BY <2>1
    <3> QED BY <1>2, <2>1, <2>3, <3>1, <3>2, <3>3
  <2>5. Handles'
    BY <1>2, <2>1
  <2>6. ASSUME NEW n \in 1 .. starts', Udp(n) \in live' \ aborted' PROVE n = reader'
    <3>1. CASE n = starts' BY <3>1, <1>2
    <3>2. CASE n # starts'
      <4>1. n \in 1 .. starts BY <3>2, <1>2
      <4>2. Udp(n) # Udp(starts') BY <3>2, UdpNames
      <4>3. Udp(n) \in live \ aborted BY <2>6, <4>2, <1>2, <2>3
      <4>4. n = reader /\ n # 0 BY <4>1, <4>3
      <4> QED BY <4>4, <2>3, <2>6
    <3> QED BY <3>1, <3>2
  <2> QED BY <2>4, <2>5, <2>6
<1> QED BY <1>1, <1>2 DEF StartUdp

\* Forcing TCP drops the handles and leaves no reader behind.
LEMMA DropUdpKeeps ==
    ASSUME TransportTypes, Held, AbortReader,
           sender' = 0, reader' = 0, resyncTx' = 0, told' = "tcp", UNCHANGED <<starts, live>>
    PROVE  TransportTypes' /\ Handles' /\ Held'
<1> USE DEF TransportTypes, Handles, Held, AbortReader
<1>1. {Udp(n) : n \in {reader} \ {0}} \subseteq {Udp(n) : n \in 1 .. starts}
  BY SMT
<1>2. TransportTypes'
  BY <1>1
<1>3. ASSUME NEW n \in 1 .. starts', Udp(n) \in live' \ aborted' PROVE FALSE
  <2>1. n = reader /\ n # 0 BY <1>3
  <2> QED BY <2>1, <1>3
<1> QED BY <1>2, <1>3

\* break aborts the reader the loop holds.
LEMMA BreakKeeps ==
    ASSUME TransportTypes, Held, Break
    PROVE  TransportTypes' /\ Held'
<1> USE DEF TransportTypes, Held, Break, transport
<1>1. {Udp(n) : n \in {reader} \ {0}} \subseteq {Udp(n) : n \in 1 .. starts}
  BY SMT
<1> QED BY <1>1

-----------------------------------------------------------------------------
\* The inductive invariant: force_tcp, the handles and the readers are tied
\* together only while the loop runs, and the readers also once it returned.
LoopInv == /\ TransportTypes /\ FlagTypes
           /\ TransportAgrees /\ NoOrphanReader

\* The guards of the two properties, in the terms of the lemmas.
LEMMA InvTerms ==
    FlagTypes => /\ TransportAgrees <=> (~Gone => Handles /\ (force => sender = 0))
                 /\ NoOrphanReader <=> (pc # "aborted" => Held)
BY DEF TransportAgrees, NoOrphanReader, Handles, Held

\* A step that touches no handle and starts no task keeps the invariant.
LEMMA EndingKeeps ==
    ASSUME LoopInv, TasksEndOnly, force' = force, FlagTypes',
           Gone => pc' = pc, pc' = "aborted" \/ pc' \in Polls \cup {"sending", pc}
    PROVE  LoopInv'
<1> USE DEF LoopInv, TasksEndOnly, TransportTypes
<1>1. TransportTypes'
  BY DEF Udp
<1>2. TransportAgrees'
  BY DEF TransportAgrees, Gone, Polls, FlagTypes
<1>3. NoOrphanReader'
  BY DEF NoOrphanReader, Gone, FlagTypes
<1> QED BY <1>1, <1>2, <1>3

\* The flags and the program counter keep their types.
LEMMA FlagsStep == FlagTypes /\ [Next]_vars => FlagTypes'
<1> SUFFICES ASSUME FlagTypes, [Next]_vars PROVE FlagTypes'
  OBVIOUS
<1> USE DEF FlagTypes, Polls, transport
<1>1. CASE PollUdp BY <1>1 DEF PollUdp
<1>2. CASE PollTcp
  BY <1>2 DEF PollTcp, HandleCryptSetup, Break
<1>3. CASE PollCmd BY <1>3 DEF PollCmd, Break
<1>4. CASE PollAudio BY <1>4 DEF PollAudio
<1>5. CASE PollForce BY <1>5 DEF PollForce, HandleForceTcpChange
<1>6. CASE PollReader BY <1>6 DEF PollReader, Break
<1>7. CASE SendOutbound BY <1>7 DEF SendOutbound
<1>8. CASE AbortLoop BY <1>8 DEF AbortLoop
<1>9. CASE Around
  <2>1. pc' = pc /\ force' = force /\ stored' = stored
    BY <1>9, AroundOnlyEnds DEF TasksEndOnly
  <2>2. watch' = watch \/ \E value \in BOOLEAN : watch' = [value |-> value, seen |-> FALSE]
    BY <1>9 DEF Around, TcpRecv, TcpReadError, WriterSend, WriterClosed, PingTick, Forward,
                UdpRecv, UdpRequest, UdpSocketError, ResyncClosed, AbortLands, SetForceTcp, SendAudio
  <2>3. \A value \in BOOLEAN :
            [value |-> value, seen |-> FALSE] \in [value : BOOLEAN, seen : BOOLEAN]
    OBVIOUS
  <2>4. watch' \in [value : BOOLEAN, seen : BOOLEAN]
    <3>1. CASE watch' = watch BY <3>1
    <3>2. CASE \E value \in BOOLEAN : watch' = [value |-> value, seen |-> FALSE]
      BY <3>2, <2>3, Zenon
    <3> QED BY <3>1, <3>2, <2>2
  <2> QED BY <2>1, <2>4
<1>10. CASE UNCHANGED vars BY <1>10 DEF vars
<1> QED
  BY <1>1, <1>2, <1>3, <1>4, <1>5, <1>6, <1>7, <1>8, <1>9, <1>10, NextSplit DEF Loop

\* handle_server_message under a CryptSetup.
LEMMA SetupKeeps ==
    ASSUME TransportTypes, Handles, Held, force \in BOOLEAN, force => sender = 0,
           HandleCryptSetup
    PROVE  TransportTypes' /\ Handles' /\ Held' /\ (force => sender' = 0)
<1>1. CASE ~force
  BY <1>1, StartUdpKeeps DEF HandleCryptSetup
<1>2. CASE force
  BY <1>2 DEF HandleCryptSetup, TransportTypes, Handles, Held
<1> QED BY <1>1, <1>2

\* handle_force_tcp_change.
LEMMA ForceKeeps ==
    ASSUME TransportTypes, Handles, Held, NEW value \in BOOLEAN,
           HandleForceTcpChange(value)
    PROVE  TransportTypes' /\ Handles' /\ Held' /\ (value => sender' = 0)
<1>1. CASE value
  BY <1>1, DropUdpKeeps DEF HandleForceTcpChange
<1>2. CASE ~value /\ stored
  BY <1>2, StartUdpKeeps DEF HandleForceTcpChange
<1>3. CASE ~value /\ ~stored
  BY <1>3 DEF HandleForceTcpChange, TransportTypes, Handles, Held
<1> QED BY <1>1, <1>2, <1>3

\* Every step keeps the invariant.
LEMMA LoopInvStep == LoopInv /\ [Next]_vars => LoopInv'
<1> SUFFICES ASSUME LoopInv, [Next]_vars PROVE LoopInv'
  OBVIOUS
<1>f. FlagTypes /\ FlagTypes' /\ TransportTypes
  BY FlagsStep DEF LoopInv
<1>r. ASSUME ~Gone PROVE Handles /\ Held /\ (force => sender = 0)
  BY <1>r, <1>f, InvTerms DEF LoopInv, Gone
<1>q. ASSUME TransportTypes', Held', Gone' \/ (Handles' /\ (force => sender = 0)')
      PROVE  LoopInv'
  BY <1>q, <1>f DEF LoopInv, TransportAgrees, NoOrphanReader, Handles, Held
<1>b. ASSUME ~Gone, Break PROVE LoopInv'
  <2>1. TransportTypes' /\ Held' BY <1>b, <1>r, <1>f, BreakKeeps
  <2>2. Gone' BY <1>b DEF Break, Gone
  <2> QED BY <2>1, <2>2, <1>q
<1>1. CASE PollUdp
  BY <1>1, <1>f, EndingKeeps DEF PollUdp, TasksEndOnly, transport, Gone, Polls
<1>2. CASE PollTcp
  <2>0. ~Gone BY <1>2 DEF PollTcp, Gone
  <2>1. force' = force BY <1>2 DEF PollTcp
  <2>2. CASE UNCHANGED <<live, aborted, transport>> /\ pc' \in {"cmd", "udp"}
    BY <2>0, <2>1, <2>2, <1>f, EndingKeeps DEF TasksEndOnly, transport, Polls
  <2>3. CASE pc' = "udp" /\ HandleCryptSetup
    <3>1. TransportTypes' /\ Handles' /\ Held' /\ (force => sender' = 0)
      BY <2>0, <2>3, <1>r, <1>f, SetupKeeps DEF FlagTypes
    <3> QED BY <3>1, <2>1, <1>q
  <2>4. CASE Break BY <2>0, <2>4, <1>b
  <2>5. tcpQ # << >> => \/ pc' = "udp" /\ UNCHANGED <<live, aborted, transport>>
                        \/ pc' = "udp" /\ HandleCryptSetup
                        \/ Break
    BY <1>2 DEF PollTcp
  <2> QED BY <2>2, <2>3, <2>4, <2>5, <1>2 DEF PollTcp
<1>3. CASE PollCmd
  <2>0. ~Gone BY <1>3 DEF PollCmd, Gone
  <2>1. CASE UNCHANGED <<live, aborted, transport>> /\ pc' \in {"audio", "sending"}
    BY <2>0, <2>1, <1>3, <1>f, EndingKeeps DEF PollCmd, TasksEndOnly, transport, Polls
  <2>2. CASE Break BY <2>0, <2>2, <1>b
  <2> QED BY <2>1, <2>2, <1>3 DEF PollCmd
<1>4. CASE PollAudio
  BY <1>4, <1>f, EndingKeeps DEF PollAudio, TasksEndOnly, transport, Gone, Polls
<1>5. CASE PollForce
  <2>0. ~Gone BY <1>5 DEF PollForce, Gone
  <2>1. CASE watch.seen
    BY <2>0, <2>1, <1>5, <1>f, EndingKeeps DEF PollForce, TasksEndOnly, transport, Polls
  <2>2. CASE ~watch.seen /\ watch.value # force
    <3>1. HandleForceTcpChange(watch.value) /\ force' = watch.value
      BY <1>5, <2>2 DEF PollForce
    <3>2. watch.value \in BOOLEAN BY <1>f DEF FlagTypes
    <3>3. TransportTypes' /\ Handles' /\ Held' /\ (watch.value => sender' = 0)
      BY <3>1, <3>2, <2>0, <1>r, <1>f, ForceKeeps
    <3> QED BY <3>1, <3>3, <1>q
  <2>3. CASE ~watch.seen /\ watch.value = force
    BY <2>0, <2>3, <1>5, <1>f, EndingKeeps DEF PollForce, TasksEndOnly, transport, Polls
  <2> QED BY <2>1, <2>2, <2>3
<1>6. CASE PollReader
  <2>0. ~Gone BY <1>6 DEF PollReader, Gone
  <2>1. CASE UNCHANGED <<live, aborted, transport>> /\ pc' = "udp"
    BY <2>0, <2>1, <1>6, <1>f, EndingKeeps DEF PollReader, TasksEndOnly, transport, Polls
  <2>2. CASE Break BY <2>0, <2>2, <1>b
  <2> QED BY <2>1, <2>2, <1>6 DEF PollReader
<1>7. CASE SendOutbound
  BY <1>7, <1>f, EndingKeeps DEF SendOutbound, TasksEndOnly, transport, Gone, Polls
<1>8. CASE AbortLoop
  BY <1>8, <1>f, EndingKeeps DEF AbortLoop, TasksEndOnly, transport, Polls
<1>9. CASE Around
  BY <1>9, <1>f, EndingKeeps, AroundOnlyEnds
<1>10. CASE UNCHANGED vars
  BY <1>10, <1>f, EndingKeeps DEF vars, TasksEndOnly, transport
<1> QED
  BY <1>1, <1>2, <1>3, <1>4, <1>5, <1>6, <1>7, <1>8, <1>9, <1>10, NextSplit DEF Loop

-----------------------------------------------------------------------------
\* A channel that has room takes one more item.
LEMMA RoomFor ==
    ASSUME NEW cap \in Nat, NEW q \in 0 .. cap
    PROVE  /\ q < cap => q + 1 \in 0 .. cap
           /\ q > 0 => q - 1 \in 0 .. cap
           /\ 0 \in 0 .. cap
OBVIOUS

\* The same for a channel whose items are told apart.
LEMMA RoomInSeq ==
    ASSUME NEW S, NEW cap \in Nat, NEW q \in Seq(S), Len(q) <= cap
    PROVE  /\ \A e \in S : Len(q) < cap => /\ Append(q, e) \in Seq(S)
                                           /\ Len(Append(q, e)) <= cap
           /\ q # << >> => /\ Tail(q) \in Seq(S) /\ Len(Tail(q)) <= cap
                           /\ Head(q) \in S
OBVIOUS

\* No channel overflows: every send waits for room or drops, and a closed
\* outbound channel is empty or shrinks.
LEMMA ChannelsStep == ChannelTypes /\ [Next]_vars => ChannelTypes'
<1> SUFFICES ASSUME ChannelTypes, [Next]_vars PROVE ChannelTypes'
  OBVIOUS
<1>c. UdpCap \in Nat /\ TcpCap \in Nat /\ CmdCap \in Nat /\ AudioCap \in Nat /\ OutCap \in Nat
  BY LoopAssumption
<1>t. /\ udpQ \in 0 .. UdpCap /\ audioQ \in 0 .. AudioCap /\ outQ \in 0 .. OutCap
      /\ tcpQ \in Seq(Kinds) /\ Len(tcpQ) <= TcpCap
      /\ cmdQ \in Seq(Cmds) /\ Len(cmdQ) <= CmdCap
      /\ todo \in Seq(Cmds)
      /\ inbound \in Nat /\ toggles \in Nat /\ audios \in Nat
  BY DEF ChannelTypes
<1>o. ASSUME NEW t, Outbound(t) PROVE outQ' \in 0 .. OutCap
  BY <1>o, <1>c, <1>t DEF Outbound
<1> USE DEF ChannelTypes, queues, counts, transport
<1>1. CASE PollUdp
  BY <1>1, <1>t, <1>c, RoomFor DEF PollUdp
<1>2. CASE PollTcp
  <2>1. tcpQ' \in Seq(Kinds) /\ Len(tcpQ') <= TcpCap
    BY <1>2, <1>t, <1>c, RoomInSeq DEF PollTcp
  <2> QED BY <2>1, <1>2, <1>t DEF PollTcp
<1>3. CASE PollCmd
  <2>1. cmdQ' \in Seq(Cmds) /\ Len(cmdQ') <= CmdCap
    BY <1>3, <1>t, <1>c, RoomInSeq DEF PollCmd
  <2> QED BY <2>1, <1>3, <1>t DEF PollCmd
<1>4. CASE PollAudio
  <2>1. outQ' \in 0 .. OutCap
    BY <1>4, <1>t, <1>c DEF PollAudio
  <2>2. audioQ' \in 0 .. AudioCap
    BY <1>4, <1>t, <1>c DEF PollAudio
  <2> QED BY <2>1, <2>2, <1>4, <1>t DEF PollAudio
<1>5. CASE PollForce
  BY <1>5, <1>t DEF PollForce
<1>6. CASE PollReader
  BY <1>6, <1>t DEF PollReader
<1>7. CASE SendOutbound
  BY <1>7, <1>t, <1>c DEF SendOutbound
<1>8. CASE AbortLoop
  BY <1>8, <1>t DEF AbortLoop
<1>9. ASSUME NEW kind \in Kinds, TcpRecv(kind) PROVE ChannelTypes'
  <2>1. tcpQ' \in Seq(Kinds) /\ Len(tcpQ') <= TcpCap
    BY <1>9, <1>t, <1>c, RoomInSeq DEF TcpRecv
  <2> QED BY <2>1, <1>9, <1>t DEF TcpRecv
<1>10. CASE TcpReadError
  BY <1>10, <1>t DEF TcpReadError
<1>11. CASE WriterSend
  BY <1>11, <1>t, <1>c DEF WriterSend
<1>12. CASE WriterClosed
  BY <1>12, <1>t DEF WriterClosed
<1>13. CASE PingTick
  BY <1>13, <1>o, <1>t DEF PingTick
<1>14. CASE Forward
  <2>1. cmdQ' \in Seq(Cmds) /\ Len(cmdQ') <= CmdCap /\ todo' \in Seq(Cmds)
    <3>1. CASE UNCHANGED <<cmdQ, todo>> BY <3>1, <1>t
    <3>2. CASE /\ todo # << >> /\ Len(cmdQ) < CmdCap
               /\ cmdQ' = Append(cmdQ, Head(todo)) /\ todo' = Tail(todo)
      <4>1. Head(todo) \in Cmds /\ Tail(todo) \in Seq(Cmds) BY <3>2, <1>t
      <4> QED BY <4>1, <3>2, <1>t, <1>c, RoomInSeq
    <3> QED BY <3>1, <3>2, <1>14 DEF Forward
  <2> QED BY <2>1, <1>14, <1>t DEF Forward
<1>15. ASSUME NEW n \in 1 .. starts, UdpRecv(n) PROVE ChannelTypes'
  BY <1>15, <1>t, <1>c DEF UdpRecv
<1>16. ASSUME NEW n \in 1 .. starts, UdpRequest(n) PROVE ChannelTypes'
  BY <1>16, <1>o, <1>t DEF UdpRequest
<1>17. ASSUME NEW n \in 1 .. starts, UdpSocketError(n) PROVE ChannelTypes'
  BY <1>17, <1>t DEF UdpSocketError
<1>18. ASSUME NEW t \in live, AbortLands(t) PROVE ChannelTypes'
  BY <1>18, <1>t, <1>c DEF AbortLands
<1>19. ASSUME NEW value \in BOOLEAN, SetForceTcp(value) PROVE ChannelTypes'
  BY <1>19, <1>t DEF SetForceTcp
<1>20. CASE SendAudio
  BY <1>20, <1>t, <1>c DEF SendAudio
<1>21. CASE UNCHANGED vars
  BY <1>21, <1>t DEF vars
<1> QED
  BY <1>1, <1>2, <1>3, <1>4, <1>5, <1>6, <1>7, <1>8, <1>9, <1>10, <1>11, <1>12, <1>13, <1>14,
     <1>15, <1>16, <1>17, <1>18, <1>19, <1>20, <1>21
  DEF Next, Loop, ResyncClosed

\* Initially nothing runs but the tasks of the TCP connection.
LEMMA LoopInit == Init => LoopInv /\ ChannelTypes
<1> SUFFICES ASSUME Init PROVE LoopInv /\ ChannelTypes
  OBVIOUS
<1>1. ChannelTypes
  BY LoopAssumption DEF Init, ChannelTypes, Cmds
<1>2. TransportTypes
  BY DEF Init, TransportTypes
<1>3. watch \in [value : BOOLEAN, seen : BOOLEAN]
  BY Zenon DEF Init
<1>4. FlagTypes
  BY <1>3 DEF Init, FlagTypes, Polls
<1>5. TransportAgrees /\ NoOrphanReader
  BY DEF Init, TransportAgrees, NoOrphanReader
<1> QED BY <1>1, <1>2, <1>4, <1>5 DEF LoopInv

\* The loop's channels stay within their capacities and its tasks within the
\* ones it started: the types of all variables.
THEOREM TypeCorrect == Spec => []TypeOK
<1>1. LoopInv /\ ChannelTypes => TypeOK
  BY TypeParts DEF LoopInv
<1> QED BY <1>1, LoopInit, LoopInvStep, ChannelsStep, PTL DEF Spec

\* The sender, the reader and the resync channel always belong to one start
\* of UDP, there is none while TCP is forced, and the interface was told so.
THEOREM TransportCorrect == Spec => []TransportAgrees
<1>1. LoopInv => TransportAgrees
  BY DEF LoopInv
<1> QED BY <1>1, LoopInit, LoopInvStep, PTL DEF Spec

\* No restart of UDP and no return of the loop leaves a reader behind that
\* nobody stops.
THEOREM NoOrphanCorrect == Spec => []NoOrphanReader
<1>1. LoopInv => NoOrphanReader
  BY DEF LoopInv
<1> QED BY <1>1, LoopInit, LoopInvStep, PTL DEF Spec
=============================================================================
