---------------------------- MODULE UdpRecovery ----------------------------
(***************************************************************************)
(* The UDP reader on a network that keeps the order: whether it hears the  *)
(* server again after a desync.  The nonces wrap, so that the server can   *)
(* send forever; its packets are the clock.                                *)
(*                                                                         *)
(* What the environment may do is bounded.  Faults (a lost datagram, one   *)
(* that is not the server's, a full outbound channel) happen MaxFaults     *)
(* times.  The server answers a resync request within RoundTrip packets,   *)
(* the answer travels as fast as the audio, and the cooldown lasts         *)
(* CoolPackets packets.                                                    *)
(***************************************************************************)
EXTENDS UdpReader

CONSTANTS Starts,       \* server nonces of the CryptSetup
          NetCap,       \* datagrams on their way
          MaxFaults,    \* faults of the network and the outbound channel
          RoundTrip,    \* packets sent before a request is answered
          CoolPackets   \* RESYNC_REQUEST_COOLDOWN, in packets

ASSUME RecoveryAssumption ==
    /\ Starts \subseteq Nonce
    /\ NetCap \in Nat \ {0} /\ MaxFaults \in Nat
    /\ RoundTrip \in Nat \ {0} /\ CoolPackets \in Nat /\ RoundTrip <= CoolPackets

VARIABLES net,      \* the datagrams on their way, by nonce
          faults,   \* how many faults have happened
          since     \* packets sent since the last request

vars == <<readerVars, net, faults, since>>

Init == /\ \E n \in Starts : ReaderInit(n)
        /\ net = <<>> /\ faults = 0 /\ since = CoolPackets

Fault == faults < MaxFaults /\ faults' = faults + 1

Send == /\ Len(net) < NetCap
        /\ replies = <<>> /\ resyncCh = <<>>
        /\ requests > 0 => since < RoundTrip
        /\ cooldown = "running" => since < CoolPackets
        /\ ServerEncrypt
        /\ net' = Append(net, Succ(srv))
        /\ since' = IF since < CoolPackets THEN since + 1 ELSE since
        /\ UNCHANGED faults

Lose == net # <<>> /\ net' = Tail(net) /\ Fault /\ UNCHANGED <<readerVars, since>>

Noise == RecvGarbage /\ Fault /\ UNCHANGED <<net, since>> /\ requests' = requests

\* The next datagram arrives and decrypts, or does not.
Hear == /\ net # <<>> /\ net' = Tail(net)
        /\ Verdict(crypt, Head(net)) = "ok" /\ RecvDatagram(Head(net))
        /\ UNCHANGED <<faults, since>>

Fail == /\ net # <<>> /\ net' = Tail(net)
        /\ Verdict(crypt, Head(net)) # "ok" /\ RecvDatagram(Head(net))
        /\ since' = IF requests' > requests THEN 0 ELSE since
        /\ IF RequestFull THEN Fault ELSE UNCHANGED faults

Cool == CooldownOver /\ since = CoolPackets /\ UNCHANGED <<net, faults, since>>

Inner(A) == A /\ UNCHANGED <<net, faults, since>>

Next == \/ Send \/ Lose \/ Noise \/ Hear \/ Fail \/ Cool
        \/ Inner(ApplyNonce) \/ Inner(ReaderExit) \/ Inner(SendUdp)
        \/ Inner(LoopRecv) \/ Inner(ForwardNonce) \/ Inner(ServerReply)

-----------------------------------------------------------------------------
\* What runs without being asked: the server keeps sending and answers, the
\* cooldown passes, the control loop forwards and drains, the reader task
\* is scheduled.
Fairness ==
    /\ WF_vars(Send) /\ WF_vars(Hear) /\ WF_vars(Fail) /\ WF_vars(Cool)
    /\ WF_vars(Inner(ApplyNonce)) /\ WF_vars(Inner(SendUdp))
    /\ WF_vars(Inner(LoopRecv)) /\ WF_vars(Inner(ForwardNonce))
    /\ WF_vars(Inner(ServerReply))

Spec == Init /\ [][Next]_vars /\ Fairness

-----------------------------------------------------------------------------
\* Types of the reader's state and of the network.
TypeOK == /\ ReaderTypeOK
          /\ net \in Seq(Nonce) /\ Len(net) <= NetCap
          /\ faults \in 0 .. MaxFaults /\ since \in 0 .. CoolPackets

\* The reader never stays deaf: once the faults are over it decrypts
\* packets again and again, or its task has ended.  A gap at the wrap of
\* the first byte or a false replay stops it only until the server answers
\* its request.  (RESYNC_FAILURE_THRESHOLD, set_decrypt_iv.)
Recovers == []<>(task = "ended") \/ []<><<Hear>>_vars
=============================================================================
