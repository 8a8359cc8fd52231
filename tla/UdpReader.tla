----------------------------- MODULE UdpReader -----------------------------
(***************************************************************************)
(* udp_reader_loop of mumble-protocol/src/client.rs: the task that reads   *)
(* encrypted datagrams, decrypts them, hands the audio to the work queue   *)
(* and repairs a nonce desync with the server.                             *)
(*                                                                         *)
(* The reader selects, in this order, between the channel on which the     *)
(* control loop pushes a fresh server nonce and the socket.  While it      *)
(* waits for room in the work queue it does neither.  The server side (its *)
(* encrypt nonce, its answer to an empty CryptSetup) is external.  The     *)
(* modules that extend this one say which datagram the network delivers.   *)
(***************************************************************************)
EXTENDS Ocb2, Sequences

CONSTANTS Threshold,    \* RESYNC_FAILURE_THRESHOLD (50)
          ResyncCap,    \* capacity of the resync channel (4)
          WqCap,        \* capacity of the work queue's UDP lane (256)
          OutboundCap   \* resync requests that fit in the outbound channel

ASSUME ReaderAssumption ==
    /\ Threshold \in Nat \ {0} /\ ResyncCap \in Nat \ {0}
    /\ WqCap \in Nat \ {0} /\ OutboundCap \in Nat \ {0}

VARIABLES
    crypt,      \* the reader's Ocb2CryptState
    failures,   \* consecutive_failures, saturating at Threshold
    cooldown,   \* whether RESYNC_REQUEST_COOLDOWN is over or running
    task,       \* where the reader is: selecting, sending (inside
                \* send_udp().await) or ended
    wq,         \* datagrams in the work queue's UDP lane
    resyncCh,   \* nonces in the server_nonce channel
    requests,   \* empty CryptSetups on their way to the server
    replies,    \* partial CryptSetups on their way to the control loop
    srv         \* the server's encrypt nonce

readerVars == <<crypt, failures, cooldown, task, wq, resyncCh,
                requests, replies, srv>>

ReaderTypeOK ==
    /\ crypt \in CryptState
    /\ failures \in 0 .. Threshold
    /\ cooldown \in {"over", "running"}
    /\ task \in {"selecting", "sending", "ended"}
    /\ wq \in 0 .. WqCap
    /\ resyncCh \in Seq(Nonce) /\ Len(resyncCh) <= ResyncCap
    /\ requests \in 0 .. OutboundCap
    /\ replies \in Seq(Nonce)
    /\ srv \in Nonce

\* start_udp has just spawned the reader with the nonce of the CryptSetup.
ReaderInit(nonce) ==
    /\ crypt = SetKey(nonce) /\ srv = nonce
    /\ failures = 0 /\ cooldown = "over"
    /\ task = "selecting" /\ wq = 0
    /\ resyncCh = <<>> /\ requests = 0 /\ replies = <<>>

\* The select is biased: the socket is read only when no nonce is waiting.
Reading == task = "selecting" /\ resyncCh = <<>>

-----------------------------------------------------------------------------
\* server_nonce_rx.recv() yields a nonce.
ApplyNonce ==
    /\ task = "selecting" /\ resyncCh # <<>>
    /\ crypt' = SetDecryptIv(crypt, Head(resyncCh))
    /\ resyncCh' = Tail(resyncCh)
    /\ failures' = 0
    /\ UNCHANGED <<cooldown, task, wq, requests, replies, srv>>

OneMore == IF failures < Threshold THEN failures + 1 ELSE failures

\* A decrypt error below the threshold, or within the cooldown.
JustFailed ==
    /\ OneMore < Threshold \/ cooldown = "running"
    /\ failures' = OneMore
    /\ UNCHANGED <<cooldown, task, requests>>

\* A decrypt error that asks the server for its nonce.
RequestResync ==
    /\ OneMore >= Threshold /\ cooldown = "over"
    /\ requests < OutboundCap
    /\ requests' = requests + 1
    /\ failures' = 0 /\ cooldown' = "running"
    /\ UNCHANGED task

\* The outbound channel is full of other messages: the count stays.
RequestFull ==
    /\ OneMore >= Threshold /\ cooldown = "over"
    /\ failures' = OneMore
    /\ UNCHANGED <<cooldown, task, requests>>

\* The writer is gone: the reader exits.
RequestClosed ==
    /\ OneMore >= Threshold /\ cooldown = "over"
    /\ task' = "ended"
    /\ failures' = OneMore
    /\ UNCHANGED <<cooldown, requests>>

DecryptFailed ==
    /\ JustFailed \/ RequestResync \/ RequestFull \/ RequestClosed
    /\ UNCHANGED <<crypt, wq, resyncCh, replies, srv>>

\* A datagram that decrypts; it is passed on unless it cannot be decoded.
DecryptOk(p) ==
    /\ crypt' = Decrypt(crypt, p)
    /\ failures' = 0
    /\ task' \in {"selecting", "sending"}
    /\ UNCHANGED <<cooldown, wq, resyncCh, requests, replies, srv>>

\* socket.recv() yields the datagram the server encrypted under nonce p.
RecvDatagram(p) ==
    /\ Reading
    /\ IF Verdict(crypt, p) = "ok" THEN DecryptOk(p) ELSE DecryptFailed

\* socket.recv() yields a datagram that is too short, damaged or not the
\* server's: no nonce makes its tag verify.
RecvGarbage == Reading /\ DecryptFailed

\* A read error or an end of the socket or of the resync channel.
ReaderExit ==
    /\ task = "selecting"
    /\ task' = "ended"
    /\ UNCHANGED <<crypt, failures, cooldown, wq, resyncCh, requests,
                   replies, srv>>

\* send_udp(msg).await completes once the UDP lane has room.
SendUdp ==
    /\ task = "sending" /\ wq < WqCap
    /\ wq' = wq + 1 /\ task' = "selecting"
    /\ UNCHANGED <<crypt, failures, cooldown, resyncCh, requests,
                   replies, srv>>

\* RESYNC_REQUEST_COOLDOWN has passed since the last request.
CooldownOver ==
    /\ cooldown = "running" /\ cooldown' = "over"
    /\ UNCHANGED <<crypt, failures, task, wq, resyncCh, requests,
                   replies, srv>>

-----------------------------------------------------------------------------
\* The event loop takes a datagram off the UDP lane.
LoopRecv ==
    /\ wq > 0 /\ wq' = wq - 1
    /\ UNCHANGED <<crypt, failures, cooldown, task, resyncCh,
                   requests, replies, srv>>

\* handle_crypt_setup, partial message: try_send drops the nonce when the
\* reader is behind, and fails when it is gone.
ForwardNonce ==
    /\ replies # <<>>
    /\ replies' = Tail(replies)
    /\ resyncCh' = IF task # "ended" /\ Len(resyncCh) < ResyncCap
                   THEN Append(resyncCh, Head(replies)) ELSE resyncCh
    /\ UNCHANGED <<crypt, failures, cooldown, task, wq, requests,
                   srv>>

\* The server encrypts a packet under its next nonce.
ServerEncrypt ==
    /\ srv' = Succ(srv)
    /\ UNCHANGED <<crypt, failures, cooldown, task, wq, resyncCh,
                   requests, replies>>

\* The server answers an empty CryptSetup with its current nonce.
ServerReply ==
    /\ requests > 0 /\ requests' = requests - 1
    /\ replies' = Append(replies, srv)
    /\ UNCHANGED <<crypt, failures, cooldown, task, wq, resyncCh,
                   srv>>
=============================================================================
