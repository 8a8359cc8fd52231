----------------------------- MODULE Wire_proofs -----------------------------
(***************************************************************************)
(* What the client asks of its servers, for any number of tabs, requests,  *)
(* uploads, channels and pages: CancelReaches of Transfers, StaysAtHome    *)
(* and PayloadsSurvive of Requests and PagesUnbroken of Providers; and for *)
(* any users, channels and interleaving of the two directions of the       *)
(* connection ViewFollowsServer and AudienceIsChannel of Relay; and for    *)
(* any messages, cut by the network at any byte, StreamExact of Framing.   *)
(***************************************************************************)
EXTENDS Relay, Requests, Transfers, Providers, Framing, FiniteSetTheorems, SequenceTheorems,
        WellFoundedInduction, TLAPS

-----------------------------------------------------------------------------
\* Transfers.

Stages == {"idle", "sending"} \cup Over
UploadTypes == upload \in [Uploads -> [at : Stages, sent : Nat]]

UploadInv == UploadTypes /\ CancelReaches

\* The first state of the uploads.
LEMMA UploadStart == TransfersInit => UploadInv
BY DEF TransfersInit, UploadInv, UploadTypes, Stages, CancelReaches

\* Every step of the transfers keeps the invariant.
LEMMA UploadKept == UploadInv /\ [TransfersNext]_transferVars => UploadInv'
<1> SUFFICES ASSUME UploadInv, [TransfersNext]_transferVars PROVE UploadInv' OBVIOUS
<1> USE DEF UploadInv, UploadTypes, CancelReaches
<1>1. CASE UNCHANGED uploadVars BY <1>1 DEF uploadVars
<1>2. ASSUME NEW u \in Uploads, upload_file(u) \/ RefuseUpload(u) PROVE UploadInv'
  BY <1>2 DEF upload_file, RefuseUpload, Stages, Over
<1>3. ASSUME NEW u \in Uploads, Chunk(u) \/ emit_progress_events(u) PROVE UploadInv'
  <2>1. UNCHANGED <<upload_cancels, cancelled>> BY <1>3 DEF Chunk, emit_progress_events
  <2>2. CASE Chunk(u)
    <3> DEFINE r == [upload[u] EXCEPT !.sent = upload[u].sent + 1]
    <3>1. upload' = [upload EXCEPT ![u] = r] BY <2>2 DEF Chunk
    <3>2. upload[u] \in [at : Stages, sent : Nat] OBVIOUS
    <3>3. r \in [at : Stages, sent : Nat] /\ r.at = upload[u].at BY <3>2
    <3> HIDE DEF r
    <3> QED BY <2>1, <3>1, <3>3
  <2>3. CASE emit_progress_events(u) BY <2>3, <2>1 DEF emit_progress_events
  <2> QED BY <1>3, <2>2, <2>3
<1>4. ASSUME NEW u \in Uploads, NEW good \in BOOLEAN, Respond(u, good) PROVE UploadInv'
  <2>1. PICK a \in Over : upload' = [upload EXCEPT ![u].at = a] BY <1>4 DEF Respond, Over
  <2>2. UNCHANGED cancelled /\ upload_cancels' = upload_cancels \ {u} BY <1>4 DEF Respond
  <2> QED BY <2>1, <2>2 DEF Stages, Over
<1>5. ASSUME NEW u \in Uploads, RequestFails(u) \/ Cancelled(u) PROVE UploadInv'
  BY <1>5 DEF RequestFails, Cancelled, Stages, Over
<1>6. ASSUME NEW u \in Uploads, cancel_upload(u) PROVE UploadInv'
  BY <1>6 DEF cancel_upload
<1>7. CASE DownloadNext
  <2>1. UNCHANGED uploadVars
    BY <1>7 DEF DownloadNext, download_file, obtain_ticket, GetAnswered, FinishDownload
  <2> QED BY <1>1, <2>1
<1>8. CASE UploadNext BY <1>8, <1>2, <1>3, <1>4, <1>5, <1>6 DEF UploadNext
<1>9. CASE UNCHANGED transferVars BY <1>1, <1>9 DEF transferVars, uploadVars
<1> QED BY <1>7, <1>8, <1>9 DEF TransfersNext

\* The cancel button of an upload that waits for its answer works: its token
\* is in upload_cancels or was cancelled, whatever other uploads end, fail or
\* are cancelled meanwhile (upload_file, cancel_upload).
THEOREM CancelCorrect == TransfersSpec => []CancelReaches
<1>1. UploadInv => CancelReaches BY DEF UploadInv
<1> QED BY <1>1, UploadStart, UploadKept, PTL DEF TransfersSpec

-----------------------------------------------------------------------------
\* Requests: what the payloads become.

\* An emoji in colons is the text between them, in colons, whatever it is.
LEMMA ReactionSurvives ==
    ASSUME NEW S, NEW e \in Seq(S)
    PROVE  Survives(send_reaction(e))
<1> DEFINE q == send_reaction(e)
           named == Len(e) > 2 /\ e[1] = ":" /\ e[Len(e)] = ":"
           text == SubSeq(e, 2, Len(e) - 1)
           shown0 == IF named THEN [server |-> TRUE, text |-> text] ELSE [server |-> FALSE, text |-> e]
<1>1. /\ q.emoji = shown0 /\ q.typed = e
      /\ ~Has(q, "sealed") /\ ~Has(q, "watch")
  BY DEF send_reaction, Carrying, Ask, Has
<1> HIDE DEF q
<1>2. CASE ~named
  <2>1. ReactionShown(q.emoji) = e BY <1>1, <1>2 DEF ReactionShown
  <2> QED BY <1>1, <2>1 DEF Survives, q
<1>3. CASE named
  <2>1. ReactionShown(q.emoji) = (<<":">> \o text) \o <<":">> BY <1>1, <1>3 DEF ReactionShown
  <2>2. \A i \in 2..(Len(e) - 1) : e[i] \in S \cup {":"} BY <1>3
  <2>3. /\ text \in Seq(S \cup {":"}) /\ Len(text) = Len(e) - 2
        /\ \A i \in 1..(Len(e) - 2) : text[i] = e[i + 1]
    <3>1. 2 \in Int /\ Len(e) - 1 \in Int BY <1>3
    <3>2. /\ text \in Seq(S \cup {":"}) /\ Len(text) = IF 2 <= Len(e) - 1 THEN Len(e) - 1 - 2 + 1 ELSE 0
          /\ \A i \in 1..(Len(e) - 1 - 2 + 1) : text[i] = e[2 + i - 1]
      BY <2>2, <3>1, SubSeqProperties
    <3> QED BY <1>3, <3>2
  <2> HIDE DEF text
  <2>4. <<":">> \in Seq(S \cup {":"}) /\ Len(<<":">>) = 1 /\ <<":">>[1] = ":" OBVIOUS
  <2> DEFINE c == <<":">>
  <2> HIDE DEF c
  <2>5. /\ c \o text \in Seq(S \cup {":"}) /\ Len(c \o text) = Len(e) - 1
        /\ \A i \in 1..(Len(e) - 1) : (c \o text)[i] = e[i]
    <3>1. /\ c \o text \in Seq(S \cup {":"}) /\ Len(c \o text) = Len(c) + Len(text)
          /\ \A i \in 1..(Len(c) + Len(text)) : (c \o text)[i] = IF i <= Len(c) THEN c[i] ELSE text[i - Len(c)]
      BY <2>3, <2>4, ConcatProperties DEF c
    <3>2. Len(c) = 1 /\ c[1] = ":" BY <2>4 DEF c
    <3> QED BY <1>3, <2>3, <3>1, <3>2
  <2>6. (c \o text) \o c = e
    <3> DEFINE d == c \o text
    <3>1. d \in Seq(S \cup {":"}) /\ c \in Seq(S \cup {":"}) BY <2>4, <2>5 DEF c
    <3> HIDE DEF d
    <3>2. /\ d \o c \in Seq(S \cup {":"}) /\ Len(d \o c) = Len(d) + Len(c)
          /\ \A i \in 1..(Len(d) + Len(c)) : (d \o c)[i] = IF i <= Len(d) THEN d[i] ELSE c[i - Len(d)]
      BY <3>1, ConcatProperties
    <3>3. Len(c) = 1 /\ c[1] = ":" BY <2>4 DEF c
    <3>4. Len(d) = Len(e) - 1 /\ \A i \in 1..(Len(e) - 1) : d[i] = e[i] BY <2>5 DEF d
    <3>5. Len(d \o c) = Len(e) /\ \A i \in 1..Len(e) : (d \o c)[i] = e[i] BY <1>3, <3>2, <3>3, <3>4
    <3>6. e \in Seq(S \cup {":"}) OBVIOUS
    <3>7. d \o c = e BY <3>2, <3>5, <3>6, SeqEqual
    <3> QED BY <3>7 DEF d
  <2> QED BY <1>1, <2>1, <2>6 DEF Survives, q, c
<1> QED BY <1>2, <1>3

\* Every length comes out of its padding.
LEMMA PaddingUndone ==
    ASSUME NEW len \in Nat, NEW jitter \in Nat
    PROVE  unpad_plaintext(pad_plaintext(len, jitter)) = len
BY DEF unpad_plaintext, pad_plaintext, Trailer, PaddingBlock, Garbled

\* So an encrypted text of any length survives.
LEMMA TextSurvives ==
    ASSUME NEW len \in Nat, NEW jitter \in Nat
    PROVE  Survives(send_encrypted(len, jitter))
<1> DEFINE about == [chan |-> C, id |-> 1, time |-> 1]
           p == pad_plaintext(len, jitter)
           q == send_encrypted(len, jitter)
<1>1. /\ q.about = about /\ q.length = len
      /\ q.sealed = [aad |-> about, length |-> p.length, added |-> p.added]
      /\ ~Has(q, "emoji") /\ ~Has(q, "watch")
  BY DEF send_encrypted, Carrying, Ask, Has, encrypt
<1> HIDE DEF about, q
<1>2. unpad_plaintext(p) = len BY PaddingUndone
<1> HIDE DEF p
<1>3. decrypt(q.about, q.sealed) = len BY <1>1, <1>2 DEF decrypt, unpad_plaintext
<1> QED BY <1>1, <1>3 DEF Survives, q

\* What the interface lets the user choose for watch-together arrives.
LEMMA WatchSurvives ==
    ASSUME NEW e \in WatchEvents
    PROVE  Survives(send_watch_sync(e))
<1> DEFINE q == send_watch_sync(e)
<1>1. /\ q.watch = into_proto(e) /\ q.chosen = e
      /\ ~Has(q, "emoji") /\ ~Has(q, "sealed")
  BY DEF send_watch_sync, Carrying, Ask, Has
<1> HIDE DEF q
<1>2. CASE e \in [type : {"start"}, kind : {"directMedia", "youtube", "other"}]
  <2>1. e.type = "start" /\ e.kind \in {"directMedia", "youtube", "other"} BY <1>2
  <2>2. into_proto(e) = [e EXCEPT !.kind = parse_source_kind(e.kind)] BY <2>1 DEF into_proto
  <2>3. into_proto(e).type = "start" /\ into_proto(e).kind = parse_source_kind(e.kind) BY <1>2, <2>1, <2>2
  <2>4. into_payload(q.watch) = [into_proto(e) EXCEPT !.kind = source_kind_to_str(into_proto(e).kind)]
    BY <1>1, <2>3 DEF into_payload
  <2>5. /\ into_payload(q.watch).type = "start"
        /\ into_payload(q.watch).kind = source_kind_to_str(parse_source_kind(e.kind))
    BY <1>2, <2>2, <2>3, <2>4
  <2>6. /\ source_kind_to_str(parse_source_kind(e.kind)) \in {e.kind, "none"}
        /\ (source_kind_to_str(parse_source_kind(e.kind)) = "none") = (e.kind = "other")
    BY <2>1 DEF source_kind_to_str, parse_source_kind
  <2> QED BY <1>1, <2>1, <2>5, <2>6 DEF Survives, q
<1>3. CASE e \in [type : {"state"}, state : {"paused", "playing", "ended", "other"}]
  <2>1. e.type = "state" /\ e.state \in {"paused", "playing", "ended", "other"} BY <1>3
  <2>2. into_proto(e) = [e EXCEPT !.state = parse_playback_state(e.state)] BY <2>1 DEF into_proto
  <2>3. into_proto(e).type = "state" /\ into_proto(e).state = parse_playback_state(e.state)
    BY <1>3, <2>1, <2>2
  <2>4. into_payload(q.watch)
          = [into_proto(e) EXCEPT !.state = playback_state_to_str(into_proto(e).state)]
    BY <1>1, <2>3 DEF into_payload
  <2>5. /\ into_payload(q.watch).type = "state"
        /\ into_payload(q.watch).state = playback_state_to_str(parse_playback_state(e.state))
    BY <1>3, <2>2, <2>3, <2>4
  <2>6. /\ playback_state_to_str(parse_playback_state(e.state)) \in {e.state, "none"}
        /\ (playback_state_to_str(parse_playback_state(e.state)) = "none") = (e.state = "other")
    BY <2>1 DEF playback_state_to_str, parse_playback_state
  <2> QED BY <1>1, <2>1, <2>5, <2>6 DEF Survives, q
<1>4. CASE e.type \in {"join", "leave", "stateRequest", "end", "hostTransfer"}
  BY <1>1, <1>4 DEF Survives, into_payload, into_proto, q
<1> QED BY <1>2, <1>3, <1>4 DEF WatchEvents

\* Requests that carry nothing a peer converts back.
Bare(req) == ~Has(req, "emoji") /\ ~Has(req, "sealed") /\ ~Has(req, "watch")

\* The forms of such requests.
LEMMA BareForms ==
    \A o, t : /\ Bare(Ask(o)) /\ Bare(AskAndEcho(o)) /\ Bare(Refused)
              /\ Bare([Ask(o) EXCEPT !.route = t]) /\ Bare([Refused EXCEPT !.route = t])
              /\ Bare([Refused EXCEPT !.outs = o])
              /\ Bare([FromTab(t, RequestBlob) EXCEPT !.outs = o])
              /\ Bare(Carrying(Ask(SendDrawStroke), [stroke |-> o]))
BY DEF Bare, Has, Ask, AskAndEcho, Refused, FromTab, Carrying

\* Every request of the interface and of the handlers survives.
LEMMA AllSurvive == \A req \in InterfaceCommands \cup HandlerRequests : Survives(req)
<1>0. \A req : Bare(req) => Survives(req) BY DEF Bare, Survives
<1> USE BareForms
<1>1. \A req \in AdminCommands : Bare(req)
  BY DEF AdminCommands, kick_user, ban_user, register_user, reset_user_comment, remove_user_avatar,
         move_user, request_user_stats, request_user_list, request_user_comment, update_user_list,
         request_ban_list, request_acl, update_acl, mute_user, deafen_user, set_priority_speaker,
         update_ban_list
<1>2. \A req \in ChannelEdits \cup ProfileCommands \cup RealtimeCommands \cup DmCommands : Bare(req)
  <2>1. Bare(update_channel) /\ Bare(create_channel) /\ Bare(delete_channel) /\ Bare(send_dm)
    BY DEF update_channel, create_channel, delete_channel, send_dm
  <2>2. Bare(send_plugin_data) /\ Bare(send_push_update) /\ Bare(send_subscribe_push)
    BY DEF send_plugin_data, send_push_update, send_subscribe_push
  <2>3. \A set \in BOOLEAN : Bare(set_user_comment(set)) /\ Bare(set_user_texture(set))
    BY DEF set_user_comment, set_user_texture
  <2>4. \A id : Bare(send_webrtc_signal(id)) BY DEF send_webrtc_signal
  <2>5. \A req \in ChannelEdits \cup DmCommands : Bare(req) BY <2>1 DEF ChannelEdits, DmCommands
  <2>6. \A req \in ProfileCommands : Bare(req) BY <2>2, <2>3 DEF ProfileCommands
  <2>7. \A req \in RealtimeCommands : Bare(req) BY <2>2, <2>4 DEF RealtimeCommands
  <2> QED BY <2>5, <2>6, <2>7
<1>3. \A req \in KeyCommands : Bare(req)
  BY DEF KeyCommands, query_key_holders, key_takeover, send_key_takeover
<1>4. \A t, o : /\ Bare(FromTab(t, o))
               /\ \A some \in BOOLEAN : Bare(FromTabIf(some, t, o))
  BY DEF FromTab, FromTabIf
<1>5. \A req \in HandlerRequests : Bare(req)
  <2>1. ASSUME NEW t \in Tabs, NEW some \in BOOLEAN
        PROVE  /\ Bare(request_user_blobs(t, some)) /\ Bare(request_channel_descriptions(t, some))
               /\ Bare(register_push_subscribe(t, some)) /\ Bare(register_fcm_token(t, some))
               /\ Bare(send_key_announce(t, some)) /\ Bare(request_missing_blobs(t, some))
    BY <1>4 DEF request_user_blobs, request_channel_descriptions, register_push_subscribe,
                register_fcm_token, send_key_announce, request_missing_blobs
  <2>2. ASSUME NEW t \in Tabs
        PROVE  /\ Bare(request_channel_permissions(t)) /\ Bare(spawn_description_fetch(t))
               /\ Bare(spawn_permissions_refresh(t)) /\ Bare(query_holders_of(t))
    BY <1>4 DEF request_channel_permissions, spawn_description_fetch, spawn_permissions_refresh,
                query_holders_of
  <2>3. ASSUME NEW t \in Tabs, NEW req \in SyncRequests(t) PROVE Bare(req)
    <3>1. CASE req \in {request_channel_permissions(t)} BY <2>2, <3>1
    <3>2. ASSUME NEW some \in BOOLEAN,
                 req \in {request_user_blobs(t, some), request_channel_descriptions(t, some),
                          register_push_subscribe(t, some), register_fcm_token(t, some),
                          send_key_announce(t, some)}
          PROVE  Bare(req)
      BY <2>1, <3>2
    <3> QED BY <3>1, <3>2 DEF SyncRequests
  <2>4. ASSUME NEW t \in Tabs,
               NEW req \in {request_missing_blobs(t, missing) : missing \in BOOLEAN}
        PROVE  Bare(req)
    BY <2>1
  <2>5. ASSUME NEW t \in Tabs,
               NEW req \in {spawn_description_fetch(t), spawn_permissions_refresh(t), query_holders_of(t)}
        PROVE  Bare(req)
    BY <2>2
  <2> QED BY <2>3, <2>4, <2>5 DEF HandlerRequests
<1>6. \A req \in MessagingCommands : Survives(req)
  <2>1. ASSUME NEW req \in {send_typing_indicator, request_link_preview, send_read_receipt,
                            query_read_receipts, pin_message}
                          \cup {edit_message(fancy) : fancy \in BOOLEAN}
                          \cup {send_draw_stroke(a) : a \in Strokes}
        PROVE  Bare(req)
    BY DEF send_typing_indicator, request_link_preview, send_read_receipt, query_read_receipts,
           pin_message, edit_message, send_draw_stroke
  <2>2. \A e \in Emojis : e \in Seq({"a"} \cup {":"})
    <3> DEFINE A == {"a"} \cup {":"}
    <3>1. <<"a">> \in Seq(A) /\ <<":">> \in Seq(A) OBVIOUS
    <3>2. <<":", ":">> \in Seq(A) OBVIOUS
    <3>3. <<":", ":", ":">> \in Seq(A) /\ <<":", "a", ":">> \in Seq(A) OBVIOUS
    <3> QED BY <3>1, <3>2, <3>3 DEF Emojis
  <2>3. \A e \in Emojis : Survives(send_reaction(e)) BY <2>2, ReactionSurvives
  <2>4. \A len \in Lengths, jitter \in Jitters : len \in Nat /\ jitter \in Nat BY DEF Lengths, Jitters
  <2>5. \A len \in Lengths, jitter \in Jitters : Survives(send_encrypted(len, jitter))
    BY <2>4, TextSurvives
  <2> QED BY <1>0, <2>1, <2>3, <2>5, WatchSurvives DEF MessagingCommands
<1> QED BY <1>0, <1>1, <1>2, <1>3, <1>5, <1>6 DEF InterfaceCommands

-----------------------------------------------------------------------------
\* Requests: where the request under way and the command handed out go.

\* A request that names its server goes there.
AtHome(req, via) == req.route # "active" => via = req.route

CallShape ==
    \/ call = Idle
    \/ \E r : call = [phase |-> "issued", req |-> r] /\ Survives(r)
    \/ \E p \in {"sending", "echoing"} : \E r, v, l :
          /\ call = [phase |-> p, req |-> r, via |-> v, left |-> l]
          /\ AtHome(r, v) /\ Survives(r)

HandedShape ==
    \/ handed = Idle
    \/ \E r, v, o : /\ handed = [phase |-> "sent", req |-> r, via |-> v, out |-> o]
                   /\ AtHome(r, v) /\ Survives(r)

\* What an answer and a deletion that waits for one stand for.
Statuses == {"stored", "rejected", "deleted"}
DeletePhases == {"idle", "queued", "waiting", "failed", "timeout", "closed", "rejected", "deleted"}

TabTypes ==
    /\ open \subseteq Tabs
    /\ waiting \in [Tabs -> SUBSET Deletions]
    /\ deletes \in [Deletions -> [phase : DeletePhases, via : Tabs \cup {"none"}]]
    /\ acks \in [Tabs -> Seq(Statuses)]

\* A session waits for the answers of its own server only, to deletions that
\* were made ...
WaitsAtHome ==
    \A t \in Tabs : \A d \in waiting[t] : deletes[d].via = t /\ deletes[d].phase # "idle"
\* ... and an answer that says deleted comes from a server that did.
AcksTrue == \A t \in Tabs : \A i \in 1..Len(acks[t]) : acks[t][i] = "deleted" => t \in purged
DeletesTrue == \A d \in Deletions : deletes[d].phase = "deleted" => deletes[d].via \in purged

RequestInv == /\ CallShape /\ HandedShape /\ TabTypes
              /\ WaitsAtHome /\ AcksTrue /\ DeletesTrue

\* The first state of the requests.
LEMMA RequestStart == RequestsInit => RequestInv
<1> SUFFICES ASSUME RequestsInit PROVE RequestInv OBVIOUS
<1>1. CallShape /\ HandedShape BY DEF RequestsInit, CallShape, HandedShape
<1>2. << >> \in Seq(Statuses) OBVIOUS
<1>3. TabTypes BY <1>2 DEF RequestsInit, TabTypes, NoDelete, DeletePhases
<1>4. WaitsAtHome /\ AcksTrue /\ DeletesTrue
  BY DEF RequestsInit, WaitsAtHome, AcksTrue, DeletesTrue, NoDelete
<1> QED BY <1>1, <1>3, <1>4 DEF RequestInv

\* The steps of the request under way.
LEMMA CallKept ==
    ASSUME RequestInv, CallNext
    PROVE  RequestInv'
<1> USE DEF RequestInv
<1>1. CallOnly BY DEF CallNext, Invoke, Snapshot, Send, Echo
<1>2. TabTypes' /\ WaitsAtHome' /\ AcksTrue' /\ DeletesTrue'
  BY <1>1 DEF CallOnly, TabTypes, WaitsAtHome, AcksTrue, DeletesTrue
<1>3. CASE \E req \in InterfaceCommands \cup HandlerRequests : Invoke(req)
  <2>1. CallShape' /\ HandedShape' BY <1>3, AllSurvive DEF Invoke, CallShape, HandedShape
  <2> QED BY <1>2, <2>1
<1>4. CASE Snapshot
  <2>1. PICK r : call = [phase |-> "issued", req |-> r] /\ Survives(r)
    BY <1>4 DEF Snapshot, CallShape, Idle
  <2>2. HandedShape' BY <1>4 DEF Snapshot, HandedShape
  <2>3. \/ call' = Idle
        \/ call' = [phase |-> "sending", req |-> r, via |-> Session(r), left |-> r.outs]
    BY <1>4, <2>1 DEF Snapshot
  <2>4. AtHome(r, Session(r)) BY DEF AtHome, Session
  <2>5. CallShape' BY <2>1, <2>3, <2>4 DEF CallShape
  <2> QED BY <1>2, <2>2, <2>5
<1>5. CASE Send
  <2>1. PICK p, r, v, l :
          /\ call = [phase |-> p, req |-> r, via |-> v, left |-> l]
          /\ AtHome(r, v) /\ Survives(r)
          /\ p \in {"sending", "echoing"}
    BY <1>5 DEF Send, CallShape, Idle
  <2>2. \/ UNCHANGED handed
        \/ handed' = [phase |-> "sent", req |-> r, via |-> v, out |-> Head(l)]
    BY <1>5, <2>1 DEF Send
  <2>3. HandedShape' BY <2>1, <2>2 DEF HandedShape
  <2>4. \/ call' = Idle
        \/ call' = [phase |-> p, req |-> r, via |-> v, left |-> Tail(l)]
        \/ call' = [phase |-> "echoing", req |-> r, via |-> v, left |-> l]
    BY <1>5, <2>1 DEF Send
  <2>5. CallShape' BY <2>1, <2>4 DEF CallShape
  <2> QED BY <1>2, <2>3, <2>5
<1>6. CASE Echo
  BY <1>2, <1>6 DEF Echo, CallShape, HandedShape
<1> QED BY <1>3, <1>4, <1>5, <1>6 DEF CallNext

\* The steps of the deletions and of the server's answers.
LEMMA DeleteKept ==
    ASSUME RequestInv, DeleteNext
    PROVE  RequestInv'
<1> USE DEF RequestInv
<1>1. UNCHANGED <<call, handed, open>>
  BY DEF DeleteNext, delete_pchat_messages, DeleteSent, DeleteTimeout, DeleteClosed, OtherAck, PchatAck
<1>2. CallShape' /\ HandedShape' BY <1>1 DEF CallShape, HandedShape
<1>3. ASSUME NEW d \in Deletions, delete_pchat_messages(d) PROVE RequestInv'
  <2>1. /\ shown \in Tabs /\ UNCHANGED <<acks, purged>>
        /\ deletes[d].phase = "idle"
        /\ deletes' = [deletes EXCEPT ![d] = [phase |-> "queued", via |-> shown]]
        /\ waiting' = [waiting EXCEPT ![shown] = @ \cup {d}]
    BY <1>3 DEF delete_pchat_messages, TabTypes
  <2>2. TabTypes' BY <1>1, <2>1 DEF TabTypes, DeletePhases
  <2>3. AcksTrue' /\ DeletesTrue' BY <2>1 DEF AcksTrue, DeletesTrue, TabTypes
  <2> QED BY <1>2, <2>1, <2>2, <2>3 DEF WaitsAtHome, TabTypes
<1>4. ASSUME NEW d \in Deletions, NEW p \in DeletePhases \ {"idle", "deleted"}, Settle(d, p),
             UNCHANGED waiting,
             AcksTrue', purged \subseteq purged', acks' \in [Tabs -> Seq(Statuses)]
      PROVE RequestInv'
  <2>1. deletes' = [deletes EXCEPT ![d] = [@ EXCEPT !.phase = p]] BY <1>4 DEF Settle
  <2>2. deletes[d] \in [phase : DeletePhases, via : Tabs \cup {"none"}] BY DEF TabTypes
  <2>3. /\ [deletes[d] EXCEPT !.phase = p] \in [phase : DeletePhases, via : Tabs \cup {"none"}]
        /\ [deletes[d] EXCEPT !.phase = p].phase = p
        /\ [deletes[d] EXCEPT !.phase = p].via = deletes[d].via
    BY <2>2
  <2>4. TabTypes' BY <1>1, <1>4, <2>1, <2>3 DEF TabTypes
  <2>5. DeletesTrue' BY <1>4, <2>1, <2>3 DEF DeletesTrue, TabTypes
  <2>6. WaitsAtHome' BY <1>4, <2>1, <2>3 DEF WaitsAtHome, TabTypes
  <2> QED BY <1>2, <1>4, <2>4, <2>5, <2>6
<1>5. ASSUME NEW d \in Deletions, DeleteTimeout(d) \/ DeleteClosed(d) PROVE RequestInv'
  <2>1. UNCHANGED <<waiting, acks, purged>> BY <1>5 DEF DeleteTimeout, DeleteClosed
  <2>2. Settle(d, "timeout") \/ Settle(d, "closed") BY <1>5 DEF DeleteTimeout, DeleteClosed
  <2>3. AcksTrue' /\ acks' \in [Tabs -> Seq(Statuses)] BY <2>1 DEF AcksTrue, TabTypes
  <2> QED BY <1>4, <2>1, <2>2, <2>3 DEF DeletePhases
<1>6. ASSUME NEW d \in Deletions, DeleteSent(d) PROVE RequestInv'
  <2> DEFINE t == deletes[d].via
  <2>1. UNCHANGED waiting /\ (Settle(d, "waiting") \/ Settle(d, "failed")) BY <1>6 DEF DeleteSent
  <2>2. CASE UNCHANGED <<purged, acks>>
    <3>1. AcksTrue' /\ acks' \in [Tabs -> Seq(Statuses)] BY <2>2 DEF AcksTrue, TabTypes
    <3> QED BY <1>4, <2>1, <2>2, <3>1 DEF DeletePhases
  <2>3. ASSUME t \in open, NEW s \in Statuses, acks' = [acks EXCEPT ![t] = Append(@, s)],
               purged \subseteq purged', s = "deleted" => t \in purged'
        PROVE  RequestInv'
    <3>1. t \in Tabs BY <2>3 DEF TabTypes
    <3>2. acks' \in [Tabs -> Seq(Statuses)] BY <2>3 DEF TabTypes
    <3>3. AcksTrue' BY <2>3, <3>1 DEF AcksTrue, TabTypes
    <3> QED BY <1>4, <2>1, <2>3, <3>2, <3>3 DEF DeletePhases
  <2> QED BY <1>6, <2>2, <2>3 DEF DeleteSent, Statuses
<1>7. ASSUME NEW t \in Tabs, OtherAck(t) PROVE RequestInv'
  <2>1. PICK s \in {"stored", "rejected"} : acks' = [acks EXCEPT ![t] = Append(@, s)]
    BY <1>7 DEF OtherAck
  <2>2. UNCHANGED <<waiting, deletes, purged>> BY <1>7 DEF OtherAck
  <2>3. TabTypes' BY <1>1, <2>1, <2>2 DEF TabTypes, Statuses
  <2>4. AcksTrue' BY <2>1, <2>2 DEF AcksTrue, TabTypes
  <2> QED BY <1>2, <2>2, <2>3, <2>4 DEF WaitsAtHome, DeletesTrue
<1>8. ASSUME NEW t \in Tabs, PchatAck(t) PROVE RequestInv'
  <2>0. acks[t] \in Seq(Statuses) /\ acks[t] # << >> BY <1>8 DEF PchatAck, TabTypes
  <2>1. /\ Head(acks[t]) \in Statuses /\ Tail(acks[t]) \in Seq(Statuses)
        /\ Head(acks[t]) = "deleted" => t \in purged
        /\ \A i \in 1..Len(Tail(acks[t])) : Tail(acks[t])[i] = "deleted" => t \in purged
    BY <2>0 DEF AcksTrue
  <2>2. acks' = [acks EXCEPT ![t] = Tail(@)] /\ UNCHANGED purged BY <1>8 DEF PchatAck
  <2>3. acks' \in [Tabs -> Seq(Statuses)] /\ AcksTrue' BY <2>1, <2>2 DEF TabTypes, AcksTrue
  <2>4. CASE UNCHANGED <<waiting, deletes>>
    <3>1. TabTypes' BY <1>1, <2>3, <2>4 DEF TabTypes
    <3> QED BY <1>2, <2>2, <2>3, <2>4, <3>1 DEF WaitsAtHome, DeletesTrue
  <2>5. CASE /\ waiting' = [waiting EXCEPT ![t] = {}]
             /\ Head(acks[t]) # "stored"
             /\ deletes' = [d \in Deletions |->
                   IF d \in waiting[t] /\ deletes[d].phase \in {"queued", "waiting"}
                   THEN [deletes[d] EXCEPT !.phase = Head(acks[t])] ELSE deletes[d]]
    <3> DEFINE s == Head(acks[t])
    <3>0. s \in DeletePhases /\ s # "idle" BY <2>1, <2>5 DEF Statuses, DeletePhases
    <3> HIDE DEF s
    <3>1. \A d \in Deletions :
             /\ deletes[d] \in [phase : DeletePhases, via : Tabs \cup {"none"}]
             /\ [deletes[d] EXCEPT !.phase = s] \in [phase : DeletePhases, via : Tabs \cup {"none"}]
             /\ [deletes[d] EXCEPT !.phase = s].phase = s
             /\ [deletes[d] EXCEPT !.phase = s].via = deletes[d].via
      BY <3>0 DEF TabTypes
    <3>2. \A d \in Deletions :
             /\ deletes'[d] \in [phase : DeletePhases, via : Tabs \cup {"none"}]
             /\ deletes'[d].via = deletes[d].via
             /\ \/ deletes'[d].phase = deletes[d].phase
                \/ deletes'[d].phase = s /\ d \in waiting[t]
      BY <2>5, <3>1 DEF s
    <3>3. TabTypes' BY <1>1, <2>3, <2>5, <3>2 DEF TabTypes
    <3>4. WaitsAtHome' BY <2>5, <3>0, <3>2 DEF WaitsAtHome, TabTypes
    <3>5. DeletesTrue' BY <2>1, <2>2, <3>2 DEF DeletesTrue, WaitsAtHome, s
    <3> QED BY <1>2, <2>3, <3>3, <3>4, <3>5
  <2> QED BY <1>8, <2>4, <2>5 DEF PchatAck
<1> QED BY <1>3, <1>5, <1>6, <1>7, <1>8 DEF DeleteNext

\* Switching and closing tabs.
LEMMA TabKept ==
    ASSUME RequestInv, TabNext
    PROVE  RequestInv'
<1> USE DEF RequestInv
<1>1. UNCHANGED <<call, handed, waiting, deletes, purged>> BY DEF TabNext, SwitchTab, CloseTab
<1>2. CallShape' /\ HandedShape' /\ WaitsAtHome' /\ DeletesTrue'
  BY <1>1 DEF CallShape, HandedShape, WaitsAtHome, DeletesTrue
<1>3. ASSUME NEW t \in Tabs, SwitchTab(t) PROVE RequestInv'
  BY <1>1, <1>2, <1>3 DEF SwitchTab, TabTypes, AcksTrue
<1>4. ASSUME NEW t \in Tabs, CloseTab(t) PROVE RequestInv'
  <2>1. open' \subseteq Tabs /\ acks' = [acks EXCEPT ![t] = << >>] BY <1>4 DEF CloseTab, TabTypes
  <2>2. TabTypes' /\ AcksTrue' BY <1>1, <2>1 DEF TabTypes, AcksTrue
  <2> QED BY <1>2, <2>2
<1> QED BY <1>3, <1>4 DEF TabNext

\* The invariant of the requests holds throughout.
LEMMA RequestInvariant == RequestsSpec => []RequestInv
<1>1. RequestInv /\ UNCHANGED requestVars => RequestInv'
  BY DEF requestVars, RequestInv, CallShape, HandedShape, TabTypes, WaitsAtHome, AcksTrue, DeletesTrue
<1>2. RequestInv /\ [RequestsNext]_requestVars => RequestInv'
  BY <1>1, CallKept, DeleteKept, TabKept DEF RequestsNext
<1> QED BY <1>2, RequestStart, PTL DEF RequestsSpec

\* For any number of tabs, requests and deletions: what names its server is
\* handed to that server's client (send_webrtc_signal, the handlers' tasks),
\* and a deletion reported as done was asked of a server that did delete
\* (delete_pchat_messages, PchatAck), however the tabs move.
THEOREM StaysAtHomeCorrect == RequestsSpec => []StaysAtHome
<1>1. RequestInv => StaysAtHome
  <2> SUFFICES ASSUME RequestInv PROVE StaysAtHome OBVIOUS
  <2>1. handed # Idle /\ handed.req.route # "active" => handed.via = handed.req.route
    BY DEF RequestInv, HandedShape, AtHome
  <2> QED BY <2>1 DEF RequestInv, DeletesTrue, StaysAtHome
<1> QED BY <1>1, RequestInvariant, PTL

\* Whatever was handed to a client comes out at the peer as it was chosen:
\* reactions, watch-together events and padded texts (send_reaction,
\* send_watch_sync, pad_plaintext).  The lemmas say it of every emoji and of
\* every length.
THEOREM PayloadsCorrect == RequestsSpec => []PayloadsSurvive
<1>1. RequestInv => PayloadsSurvive BY DEF RequestInv, HandedShape, PayloadsSurvive
<1> QED BY <1>1, RequestInvariant, PTL

-----------------------------------------------------------------------------
\* Providers: a message keeps its place as long as its id is known.

Stored == [id : Nat, place : Nat]

\* The messages of a store stand at their places, with ids given out.
InPlace(s) == \A i \in 1..Len(s) : s[i].place = i /\ s[i].id \in 1..ids

\* What has the same id has the same place.
SameIds(s, r) == \A i \in 1..Len(s), j \in 1..Len(r) : s[i].id = r[j].id => s[i].place = r[j].place

StoreTypes == /\ volatile \in [Chats -> Seq(Stored)] /\ cache \in [Chats -> Seq(Stored)]
              /\ ids \in Nat
StoresAgree ==
    \A c \in Chats : /\ InPlace(volatile[c]) /\ InPlace(cache[c])
                     /\ SameIds(volatile[c], volatile[c]) /\ SameIds(volatile[c], cache[c])
                     /\ SameIds(cache[c], cache[c])

\* The messages shown are messages of the channel, in one stretch.
ViewShape == \E c, so : \E sh \in Seq(Stored) : view = [chat |-> c, store |-> so, shown |-> sh]
ViewAgrees ==
    view.shown # << >> =>
        /\ view.chat \in Chats
        /\ \A i \in 1..Len(view.shown) : view.shown[i].id \in 1..ids
        /\ SameIds(view.shown, volatile[view.chat]) /\ SameIds(view.shown, cache[view.chat])

ProviderInv == StoreTypes /\ StoresAgree /\ ViewShape /\ ViewAgrees /\ PagesUnbroken

\* Nothing shown.
LEMMA NothingShown ==
    /\ NoView.shown = << >>
    /\ \E c, so : \E sh \in Seq(Stored) : NoView = [chat |-> c, store |-> so, shown |-> sh]
<1> DEFINE c == CHOOSE c \in Chats : TRUE
<1>1. NoView = [chat |-> c, store |-> "none", shown |-> << >>] BY DEF NoView
<1> HIDE DEF c
<1>2. << >> \in Seq(Stored) OBVIOUS
<1> QED BY <1>1, <1>2

\* The first state of the providers.
LEMMA ProviderStart == ProvidersInit => ProviderInv
<1> SUFFICES ASSUME ProvidersInit PROVE ProviderInv OBVIOUS
<1>1. << >> \in Seq(Stored) OBVIOUS
<1>2. StoreTypes BY <1>1 DEF StoreTypes, ProvidersInit
<1>3. StoresAgree BY DEF StoresAgree, ProvidersInit, InPlace, SameIds
<1>4. ViewShape /\ ViewAgrees /\ PagesUnbroken
  <2>1. view = NoView BY DEF ProvidersInit
  <2>2. view.shown = << >> /\ Len(view.shown) = 0 BY <2>1, NothingShown
  <2>3. ViewShape BY <2>1, NothingShown DEF ViewShape
  <2>4. ViewAgrees BY <2>2 DEF ViewAgrees
  <2>5. PagesUnbroken BY <2>2 DEF PagesUnbroken
  <2> QED BY <2>3, <2>4, <2>5
<1> QED BY <1>2, <1>3, <1>4 DEF ProviderInv

\* The place found for an id is one of a message with that id.
LEMMA PositionFound ==
    ASSUME NEW s \in Seq(Stored), NEW x
    PROVE  \/ PositionOf(s, x) = 0
           \/ PositionOf(s, x) \in 1..Len(s) /\ s[PositionOf(s, x)].id = x
<1> DEFINE at == {i \in 1..Len(s) : s[i].id = x}
           k == CHOOSE i \in at : TRUE
<1>1. PositionOf(s, x) = IF at = {} THEN 0 ELSE k BY DEF PositionOf
<1>2. at # {} => k \in at OBVIOUS
<1> HIDE DEF k
<1> QED BY <1>1, <1>2

\* A store in which one place was written with a fresh id.
OneFresh(s, r, k) ==
    /\ r \in Seq(Stored) /\ k \in 1..Len(r) /\ r[k].place = k /\ r[k].id = ids + 1
    /\ \A i \in 1..Len(r) : i # k => i \in 1..Len(s) /\ r[i] = s[i]

\* It agrees with whatever the store agreed with.
LEMMA FreshAgrees ==
    ASSUME NEW s \in Seq(Stored), NEW r, NEW k, ids \in Nat, InPlace(s), SameIds(s, s), OneFresh(s, r, k)
    PROVE  /\ r \in Seq(Stored) /\ SameIds(r, r)
           /\ \A i \in 1..Len(r) : r[i].place = i /\ r[i].id \in 1..(ids + 1)
           /\ \A w \in Seq(Stored) :
                 (\A i \in 1..Len(w) : w[i].id \in 1..ids) =>
                     /\ SameIds(s, w) => SameIds(r, w)
                     /\ SameIds(w, s) => SameIds(w, r)
<1> USE DEF OneFresh, InPlace, SameIds
<1>1. r \in Seq(Stored) OBVIOUS
<1>2. \A i \in 1..Len(r) : r[i].place = i /\ r[i].id \in 1..(ids + 1) OBVIOUS
<1>3. \A i \in 1..Len(r) : i # k => r[i].id # ids + 1 OBVIOUS
<1>4. SameIds(r, r) BY <1>3
<1>5. ASSUME NEW w \in Seq(Stored), \A i \in 1..Len(w) : w[i].id \in 1..ids
      PROVE  (SameIds(s, w) => SameIds(r, w)) /\ (SameIds(w, s) => SameIds(w, r))
  <2>1. \A i \in 1..Len(w) : w[i].id # r[k].id BY <1>5
  <2>2. ASSUME SameIds(s, w), NEW i \in 1..Len(r), NEW j \in 1..Len(w), r[i].id = w[j].id
        PROVE  r[i].place = w[j].place
    <3>1. i # k BY <2>1, <2>2
    <3>2. i \in 1..Len(s) /\ r[i] = s[i] BY <3>1
    <3> QED BY <2>2, <3>2
  <2>3. ASSUME SameIds(w, s), NEW i \in 1..Len(w), NEW j \in 1..Len(r), w[i].id = r[j].id
        PROVE  w[i].place = r[j].place
    BY <2>1, <2>3
  <2> QED BY <2>2, <2>3
<1> QED BY <1>1, <1>2, <1>4, <1>5

\* A message that is stored and one that replaces another are fresh.
LEMMA AppendFresh ==
    ASSUME NEW s \in Seq(Stored), ids \in Nat
    PROVE  OneFresh(s, Append(s, [id |-> ids + 1, place |-> Len(s) + 1]), Len(s) + 1)
<1> DEFINE m == [id |-> ids + 1, place |-> Len(s) + 1]
<1>1. m \in Stored /\ m.id = ids + 1 /\ m.place = Len(s) + 1 BY DEF Stored
<1> HIDE DEF m
<1>2. /\ Append(s, m) \in Seq(Stored) /\ Len(Append(s, m)) = Len(s) + 1
      /\ Append(s, m)[Len(s) + 1] = m /\ \A i \in 1..Len(s) : Append(s, m)[i] = s[i]
  BY <1>1
<1>3. OneFresh(s, Append(s, m), Len(s) + 1) BY <1>1, <1>2 DEF OneFresh
<1> QED BY <1>3 DEF m

\* Likewise for a replacement, which takes the place it finds.
LEMMA ReplaceFresh ==
    ASSUME NEW s \in Seq(Stored), ids \in Nat, InPlace(s), NEW x, Holds(s, x)
    PROVE  OneFresh(s, Replaced(s, x, ids + 1), PositionOf(s, x))
<1> DEFINE k == PositionOf(s, x)
           m == [id |-> ids + 1, place |-> s[k].place]
<1>1. k \in 1..Len(s) BY PositionFound DEF Holds
<1>2. Replaced(s, x, ids + 1) = [s EXCEPT ![k] = m] BY DEF Replaced
<1>3. s[k] \in Stored /\ s[k].place = k BY <1>1 DEF InPlace
<1> HIDE DEF k
<1>4. m \in Stored /\ m.id = ids + 1 /\ m.place = k BY <1>3 DEF Stored
<1> HIDE DEF m
<1>5. [s EXCEPT ![k] = m] \in Seq(Stored) /\ Len([s EXCEPT ![k] = m]) = Len(s)
  BY <1>1, <1>4
<1>6. \A i \in 1..Len(s) : [s EXCEPT ![k] = m][i] = IF i = k THEN m ELSE s[i] BY <1>1
<1>7. OneFresh(s, [s EXCEPT ![k] = m], k) BY <1>1, <1>4, <1>5, <1>6 DEF OneFresh
<1> QED BY <1>2, <1>7 DEF k

\* One store of one channel changes by a fresh message.
LEMMA WriteKept ==
    ASSUME ProviderInv, NEW c \in Chats, NEW s, NEW k, ids' = ids + 1, UNCHANGED view,
           \/ OneFresh(volatile[c], s, k) /\ volatile' = [volatile EXCEPT ![c] = s] /\ UNCHANGED cache
           \/ OneFresh(cache[c], s, k) /\ cache' = [cache EXCEPT ![c] = s] /\ UNCHANGED volatile
    PROVE  ProviderInv'
<1> USE DEF ProviderInv
<1>1. ids \in Nat /\ volatile[c] \in Seq(Stored) /\ cache[c] \in Seq(Stored) BY DEF StoreTypes
<1>2. /\ InPlace(volatile[c]) /\ InPlace(cache[c])
      /\ SameIds(volatile[c], volatile[c]) /\ SameIds(volatile[c], cache[c])
      /\ SameIds(cache[c], cache[c])
  BY DEF StoresAgree
<1>3. /\ \A i \in 1..Len(volatile[c]) : volatile[c][i].id \in 1..ids
      /\ \A i \in 1..Len(cache[c]) : cache[c][i].id \in 1..ids
  BY <1>2 DEF InPlace
<1>v. ViewShape' /\ PagesUnbroken' BY DEF ViewShape, PagesUnbroken
<1>w. view.shown \in Seq(Stored) BY DEF ViewShape
<1>x. 1..ids \subseteq 1..(ids + 1) BY <1>1
<1>y. \A d \in Chats : /\ \A i \in 1..Len(volatile[d]) : volatile[d][i].place = i /\ volatile[d][i].id \in 1..ids'
                       /\ \A i \in 1..Len(cache[d]) : cache[d][i].place = i /\ cache[d][i].id \in 1..ids'
  BY <1>x DEF StoresAgree, InPlace
<1>4. CASE OneFresh(volatile[c], s, k) /\ volatile' = [volatile EXCEPT ![c] = s] /\ UNCHANGED cache
  <2>1. /\ s \in Seq(Stored) /\ SameIds(s, s)
        /\ \A i \in 1..Len(s) : s[i].place = i /\ s[i].id \in 1..ids'
        /\ \A w \in Seq(Stored) :
              (\A i \in 1..Len(w) : w[i].id \in 1..ids) =>
                  /\ SameIds(volatile[c], w) => SameIds(s, w)
                  /\ SameIds(w, volatile[c]) => SameIds(w, s)
    BY <1>1, <1>2, <1>4, FreshAgrees
  <2>2. StoreTypes' BY <1>1, <1>4, <2>1 DEF StoreTypes
  <2>3. volatile'[c] = s /\ \A d \in Chats : d # c => volatile'[d] = volatile[d]
    BY <1>4 DEF StoreTypes
  <2>4. SameIds(s, cache[c]) BY <1>1, <1>2, <1>3, <2>1
  <2>5. \A d \in Chats : /\ \A i \in 1..Len(volatile'[d]) : volatile'[d][i].place = i /\ volatile'[d][i].id \in 1..ids'
                         /\ SameIds(volatile'[d], volatile'[d]) /\ SameIds(volatile'[d], cache[d])
    BY <1>y, <2>1, <2>3, <2>4 DEF StoresAgree
  <2>6. StoresAgree'
    <3>1. \A d \in Chats : SameIds(cache[d], cache[d]) BY DEF StoresAgree
    <3>2. (\A d \in Chats : InPlace(volatile[d]))' BY <2>5 DEF InPlace
    <3>3. (\A d \in Chats : InPlace(cache[d]))' BY <1>4, <1>y DEF InPlace
    <3>4. (\A d \in Chats : SameIds(volatile[d], volatile[d]))' BY <2>5 DEF SameIds
    <3>5. (\A d \in Chats : SameIds(volatile[d], cache[d]))' BY <1>4, <2>5 DEF SameIds
    <3>6. (\A d \in Chats : SameIds(cache[d], cache[d]))' BY <1>4, <3>1 DEF SameIds
    <3> QED BY <3>2, <3>3, <3>4, <3>5, <3>6 DEF StoresAgree
  <2>7. ViewAgrees'
    <3> SUFFICES ASSUME view.shown # << >>
                 PROVE  /\ view.chat \in Chats
                        /\ \A i \in 1..Len(view.shown) : view.shown[i].id \in 1..ids'
                        /\ SameIds(view.shown, volatile'[view.chat])
                        /\ SameIds(view.shown, cache'[view.chat])
      BY DEF ViewAgrees, SameIds
    <3>1. view.chat \in Chats /\ \A i \in 1..Len(view.shown) : view.shown[i].id \in 1..ids
      BY DEF ViewAgrees
    <3>2. SameIds(view.shown, volatile'[view.chat])
      BY <1>w, <2>1, <2>3, <3>1 DEF ViewAgrees
    <3> QED BY <1>4, <1>x, <3>1, <3>2 DEF ViewAgrees
  <2> QED BY <1>v, <2>2, <2>6, <2>7
<1>5. CASE OneFresh(cache[c], s, k) /\ cache' = [cache EXCEPT ![c] = s] /\ UNCHANGED volatile
  <2>1. /\ s \in Seq(Stored) /\ SameIds(s, s)
        /\ \A i \in 1..Len(s) : s[i].place = i /\ s[i].id \in 1..ids'
        /\ \A w \in Seq(Stored) :
              (\A i \in 1..Len(w) : w[i].id \in 1..ids) =>
                  /\ SameIds(cache[c], w) => SameIds(s, w)
                  /\ SameIds(w, cache[c]) => SameIds(w, s)
    BY <1>1, <1>2, <1>5, FreshAgrees
  <2>2. StoreTypes' BY <1>1, <1>5, <2>1 DEF StoreTypes
  <2>3. cache'[c] = s /\ \A d \in Chats : d # c => cache'[d] = cache[d]
    BY <1>5 DEF StoreTypes
  <2>4. SameIds(volatile[c], s) BY <1>1, <1>2, <1>3, <2>1
  <2>5. \A d \in Chats : /\ \A i \in 1..Len(cache'[d]) : cache'[d][i].place = i /\ cache'[d][i].id \in 1..ids'
                         /\ SameIds(cache'[d], cache'[d]) /\ SameIds(volatile[d], cache'[d])
    BY <1>y, <2>1, <2>3, <2>4 DEF StoresAgree
  <2>6. StoresAgree'
    <3>1. \A d \in Chats : SameIds(volatile[d], volatile[d]) BY DEF StoresAgree
    <3>2. (\A d \in Chats : InPlace(volatile[d]))' BY <1>5, <1>y DEF InPlace
    <3>3. (\A d \in Chats : InPlace(cache[d]))' BY <2>5 DEF InPlace
    <3>4. (\A d \in Chats : SameIds(volatile[d], volatile[d]))' BY <1>5, <3>1 DEF SameIds
    <3>5. (\A d \in Chats : SameIds(volatile[d], cache[d]))' BY <1>5, <2>5 DEF SameIds
    <3>6. (\A d \in Chats : SameIds(cache[d], cache[d]))' BY <2>5 DEF SameIds
    <3> QED BY <3>2, <3>3, <3>4, <3>5, <3>6 DEF StoresAgree
  <2>7. ViewAgrees'
    <3> SUFFICES ASSUME view.shown # << >>
                 PROVE  /\ view.chat \in Chats
                        /\ \A i \in 1..Len(view.shown) : view.shown[i].id \in 1..ids'
                        /\ SameIds(view.shown, volatile'[view.chat])
                        /\ SameIds(view.shown, cache'[view.chat])
      BY DEF ViewAgrees, SameIds
    <3>1. view.chat \in Chats /\ \A i \in 1..Len(view.shown) : view.shown[i].id \in 1..ids
      BY DEF ViewAgrees
    <3>2. SameIds(view.shown, cache'[view.chat])
      BY <1>w, <2>1, <2>3, <3>1 DEF ViewAgrees
    <3> QED BY <1>5, <1>x, <3>1, <3>2 DEF ViewAgrees
  <2> QED BY <1>v, <2>2, <2>6, <2>7
<1> QED BY <1>4, <1>5

\* p holds the messages m to n of the store s, each at its place.
IsStretch(p, s, m, n) ==
    /\ p \in Seq(Stored)
    /\ Len(p) = IF m <= n THEN n - m + 1 ELSE 0
    /\ \A i \in 1..Len(p) : m + i - 1 \in 1..Len(s) /\ p[i] = s[m + i - 1] /\ p[i].place = m + i - 1

\* A page: a stretch of a store.
LEMMA Stretch ==
    ASSUME NEW s \in Seq(Stored), InPlace(s), NEW m \in Nat \ {0}, NEW n \in Nat, n <= Len(s)
    PROVE  IsStretch(SubSeq(s, m, n), s, m, n)
<1>1. \A i \in m..n : s[i] \in Stored OBVIOUS
<1>2. /\ SubSeq(s, m, n) \in Seq(Stored)
      /\ Len(SubSeq(s, m, n)) = IF m <= n THEN n - m + 1 ELSE 0
      /\ \A i \in 1..(n - m + 1) : SubSeq(s, m, n)[i] = s[m + i - 1]
  BY <1>1, SubSeqProperties
<1>3. \A i \in 1..Len(SubSeq(s, m, n)) : i \in 1..(n - m + 1) /\ m + i - 1 \in 1..Len(s) BY <1>2
<1> QED BY <1>2, <1>3 DEF InPlace, IsStretch

\* What get_messages returns: nothing, or a stretch that ends before the
\* anchor, begins after it, or is the end of the store.
LEMMA PageShape ==
    ASSUME NEW s \in Seq(Stored), NEW kind, NEW x, NEW limit \in Nat \ {0}
    PROVE  LET p == apply_range(s, [kind |-> kind, id |-> x, limit |-> limit])
               at == PositionOf(s, x)
           IN  \/ kind # "Latest" /\ p = << >>
               \/ \E m \in Nat \ {0} : kind = "Latest" /\ p = SubSeq(s, m, Len(s))
               \/ \E m \in Nat \ {0} : kind = "Before" /\ at > 0 /\ p = SubSeq(s, m, at - 1)
               \/ \E n \in Nat : kind \notin {"Latest", "Before"} /\ at > 0 /\ n <= Len(s)
                                 /\ p = SubSeq(s, at + 1, n)
<1> DEFINE at == PositionOf(s, x)
           from(q) == IF q > limit THEN q - limit ELSE 1
           upto(q) == IF q < Len(s) THEN q ELSE Len(s)
           p == apply_range(s, [kind |-> kind, id |-> x, limit |-> limit])
<1>1. p = IF kind = "Latest" THEN SubSeq(s, from(Len(s) + 1), Len(s))
          ELSE IF at = 0 THEN << >>
          ELSE IF kind = "Before" THEN SubSeq(s, from(at), at - 1)
          ELSE SubSeq(s, at + 1, upto(at + limit))
  BY DEF apply_range, BeforeEnd
<1>2. at \in Nat /\ Len(s) \in Nat BY PositionFound
<1> HIDE DEF p, at
<1>3. from(Len(s) + 1) \in Nat \ {0} /\ from(at) \in Nat \ {0} BY <1>2
<1>4. upto(at + limit) \in Nat /\ upto(at + limit) <= Len(s) BY <1>2
<1> HIDE DEF from, upto
<1>5. CASE kind = "Latest" BY <1>1, <1>3, <1>5 DEF p, at
<1>6. CASE kind # "Latest" /\ at = 0 BY <1>1, <1>6 DEF p, at
<1>7. CASE kind = "Before" /\ at # 0
  <2>1. at > 0 BY <1>2, <1>7
  <2>2. p = SubSeq(s, from(at), at - 1) BY <1>1, <1>7
  <2> QED BY <1>3, <1>7, <2>1, <2>2 DEF p, at
<1>8. CASE kind \notin {"Latest", "Before"} /\ at # 0
  <2>1. at > 0 BY <1>2, <1>8
  <2>2. p = SubSeq(s, at + 1, upto(at + limit)) BY <1>1, <1>8
  <2> QED BY <1>4, <1>8, <2>1, <2>2 DEF p, at
<1> QED BY <1>5, <1>6, <1>7, <1>8

Unbroken(s) == \A i \in 2..Len(s) : s[i].place = s[i - 1].place + 1
Member(m, s) == \E j \in 1..Len(s) : m = s[j]

\* A stretch is unbroken, and ends and begins where it says.
LEMMA StretchUnbroken ==
    ASSUME NEW s \in Seq(Stored), InPlace(s), NEW m \in Nat \ {0}, NEW n \in Nat, n <= Len(s)
    PROVE  LET p == SubSeq(s, m, n)
           IN  /\ p \in Seq(Stored) /\ Unbroken(p)
               /\ \A i \in 1..Len(p) : Member(p[i], s)
               /\ Len(p) > 0 => p[1].place = m /\ p[Len(p)].place = n
<1> DEFINE p == SubSeq(s, m, n)
<1>0. IsStretch(p, s, m, n) BY Stretch
<1> HIDE DEF p
<1>1. /\ p \in Seq(Stored)
      /\ Len(p) = IF m <= n THEN n - m + 1 ELSE 0
      /\ \A i \in 1..Len(p) : m + i - 1 \in 1..Len(s) /\ p[i] = s[m + i - 1] /\ p[i].place = m + i - 1
  BY ONLY <1>0 DEF IsStretch
<1>2. Unbroken(p)
  <2> SUFFICES ASSUME NEW i \in 2..Len(p) PROVE p[i].place = p[i - 1].place + 1 BY DEF Unbroken
  <2>1. Len(p) \in Nat /\ i \in 1..Len(p) /\ i - 1 \in 1..Len(p) BY <1>1
  <2>2. p[i].place = m + i - 1 /\ p[i - 1].place = m + (i - 1) - 1 BY <1>1, <2>1
  <2>3. m \in Int /\ i \in Int BY <2>1
  <2> QED BY ONLY <2>2, <2>3
<1>3. \A i \in 1..Len(p) : Member(p[i], s) BY <1>1 DEF Member
<1>4. ASSUME Len(p) > 0 PROVE p[1].place = m /\ p[Len(p)].place = n
  <2>1. Len(p) = n - m + 1 /\ 1 \in 1..Len(p) /\ Len(p) \in 1..Len(p) BY <1>1, <1>4
  <2>2. p[1].place = m + 1 - 1 /\ p[Len(p)].place = m + Len(p) - 1 BY <1>1, <2>1
  <2>3. m \in Int /\ n \in Int OBVIOUS
  <2> QED BY ONLY <2>1, <2>2, <2>3
<1> QED BY <1>1, <1>2, <1>3, <1>4 DEF p

\* Two unbroken stretches that meet.
LEMMA Meet ==
    ASSUME NEW p \in Seq(Stored), NEW q \in Seq(Stored), Unbroken(p), Unbroken(q),
           Len(p) > 0 /\ Len(q) > 0 => q[1].place = p[Len(p)].place + 1
    PROVE  /\ p \o q \in Seq(Stored) /\ Unbroken(p \o q)
           /\ \A i \in 1..Len(p \o q) : Member((p \o q)[i], p) \/ Member((p \o q)[i], q)
<1> DEFINE r == p \o q
<1>1. /\ r \in Seq(Stored) /\ Len(r) = Len(p) + Len(q)
      /\ \A i \in 1..(Len(p) + Len(q)) : r[i] = IF i <= Len(p) THEN p[i] ELSE q[i - Len(p)]
  BY ConcatProperties
<1>0. Len(p) \in Nat /\ Len(q) \in Nat OBVIOUS
<1> HIDE DEF r
<1>2. ASSUME NEW i \in 2..Len(r) PROVE r[i].place = r[i - 1].place + 1
  <2>0. i \in 1..(Len(p) + Len(q)) /\ i - 1 \in 1..(Len(p) + Len(q)) BY <1>0, <1>1
  <2>1. CASE i <= Len(p)
    <3>1. r[i] = p[i] /\ r[i - 1] = p[i - 1] BY <1>0, <1>1, <2>0, <2>1
    <3>2. i \in 2..Len(p) BY <1>0, <2>1
    <3> QED BY <3>1, <3>2 DEF Unbroken
  <2>2. CASE i = Len(p) + 1
    <3>0. ~(i <= Len(p)) /\ i - Len(p) = 1 /\ i - 1 = Len(p) /\ Len(p) <= Len(p) BY <1>0, <2>2
    <3>1. r[i] = q[1] /\ r[i - 1] = p[Len(p)] BY ONLY <1>1, <2>0, <3>0
    <3> QED BY <1>0, <1>1, <2>2, <3>1
  <2>3. CASE i > Len(p) + 1
    <3>0. ~(i <= Len(p)) /\ ~(i - 1 <= Len(p)) BY <1>0, <2>3
    <3>1. r[i] = q[i - Len(p)] /\ r[i - 1] = q[i - 1 - Len(p)] BY <1>1, <2>0, <3>0
    <3>2. i - Len(p) \in 2..Len(q) /\ (i - Len(p)) - 1 = i - 1 - Len(p) BY <1>0, <1>1, <2>3
    <3> QED BY <3>1, <3>2 DEF Unbroken
  <2> QED BY <1>0, <2>0, <2>1, <2>2, <2>3
<1>3. ASSUME NEW i \in 1..Len(r) PROVE Member(r[i], p) \/ Member(r[i], q)
  <2>1. CASE i <= Len(p) BY <1>0, <1>1, <2>1 DEF Member
  <2>2. CASE i > Len(p)
    <3>1. r[i] = q[i - Len(p)] /\ i - Len(p) \in 1..Len(q) BY <1>0, <1>1, <2>2
    <3> QED BY <3>1 DEF Member
  <2> QED BY <1>0, <1>1, <2>1, <2>2
<1> QED BY <1>1, <1>2, <1>3 DEF r, Unbroken

\* The reader shows messages of the store and of what it showed before.
LEMMA ShowKept ==
    ASSUME ProviderInv, UNCHANGED <<volatile, cache, ids>>, NEW c, NEW so, NEW sh \in Seq(Stored),
           view' = [chat |-> c, store |-> so, shown |-> sh], Unbroken(sh),
           c \in Chats,
           \A i \in 1..Len(sh) : \/ Member(sh[i], volatile[c])
                                 \/ Member(sh[i], cache[c])
                                 \/ view.chat = c /\ Member(sh[i], view.shown)
    PROVE  ProviderInv'
<1> USE DEF ProviderInv
<1>1. StoreTypes' BY DEF StoreTypes
<1>2. StoresAgree'
  <2>1. (\A d \in Chats : InPlace(volatile[d]) /\ InPlace(cache[d]))' BY DEF StoresAgree, InPlace
  <2>2. (\A d \in Chats : SameIds(volatile[d], volatile[d]))' BY DEF StoresAgree, SameIds
  <2>3. (\A d \in Chats : SameIds(volatile[d], cache[d]))' BY DEF StoresAgree, SameIds
  <2>4. (\A d \in Chats : SameIds(cache[d], cache[d]))' BY DEF StoresAgree, SameIds
  <2> QED BY <2>1, <2>2, <2>3, <2>4 DEF StoresAgree
<1>3. view'.chat = c /\ view'.shown = sh OBVIOUS
<1>4. ViewShape' BY DEF ViewShape
<1>5. PagesUnbroken' BY <1>3 DEF PagesUnbroken, Unbroken
<1>w. view.shown \in Seq(Stored) /\ volatile[c] \in Seq(Stored) /\ cache[c] \in Seq(Stored)
  BY DEF ViewShape, StoreTypes
<1>6. ASSUME NEW i \in 1..Len(sh)
      PROVE  /\ sh[i].id \in 1..ids
             /\ \A j \in 1..Len(volatile[c]) : sh[i].id = volatile[c][j].id => sh[i].place = volatile[c][j].place
             /\ \A j \in 1..Len(cache[c]) : sh[i].id = cache[c][j].id => sh[i].place = cache[c][j].place
  <2>1. CASE Member(sh[i], volatile[c]) BY <2>1 DEF Member, StoresAgree, InPlace, SameIds
  <2>2. CASE Member(sh[i], cache[c]) BY <2>2 DEF Member, StoresAgree, InPlace, SameIds
  <2>3. CASE view.chat = c /\ Member(sh[i], view.shown)
    <3>1. view.shown # << >> BY <1>w, <2>3 DEF Member
    <3>2. PICK k \in 1..Len(view.shown) : sh[i] = view.shown[k] BY <2>3 DEF Member
    <3>3. /\ view.shown[k].id \in 1..ids
          /\ SameIds(view.shown, volatile[c]) /\ SameIds(view.shown, cache[c])
      BY <2>3, <3>1 DEF ViewAgrees
    <3> QED BY <3>2, <3>3 DEF SameIds
  <2> QED BY <2>1, <2>2, <2>3
<1>7. ViewAgrees' BY <1>3, <1>6 DEF ViewAgrees, SameIds
<1> QED BY <1>1, <1>2, <1>4, <1>5, <1>7

\* Paging: the page that is fetched meets what is shown.
LEMMA PagingKept ==
    ASSUME ProviderInv, NEW limit \in Nat \ {0},
           PageBack(limit) \/ CatchUp(limit) \/ \E c \in Chats : OpenView(c, limit)
    PROVE  ProviderInv'
<1> USE DEF ProviderInv
<1>0. UNCHANGED <<volatile, cache, ids>> BY DEF PageBack, CatchUp, OpenView
<1>m. ASSUME NEW c \in Chats
      PROVE  /\ Messages(c) \in Seq(Stored) /\ InPlace(Messages(c))
             /\ \A x : Member(x, Messages(c)) => Member(x, volatile[c]) \/ Member(x, cache[c])
  BY DEF Messages, StoreTypes, StoresAgree
<1>1. ASSUME NEW c \in Chats, OpenView(c, limit) PROVE ProviderInv'
  <2> DEFINE s == Messages(c)
             p == apply_range(s, [kind |-> "Latest", id |-> 0, limit |-> limit])
  <2>1. PICK m \in Nat \ {0} : p = SubSeq(s, m, Len(s))
    BY <1>m, PageShape
  <2>2. s \in Seq(Stored) /\ InPlace(s) /\ Len(s) \in Nat BY <1>m
  <2>4. view' = [chat |-> c, store |-> Store(c), shown |-> p] BY <1>1 DEF OpenView, get_messages
  <2> HIDE DEF p, s
  <2>3. p \in Seq(Stored) /\ Unbroken(p) /\ \A i \in 1..Len(p) : Member(p[i], s)
    BY <2>1, <2>2, StretchUnbroken
  <2>5. \A i \in 1..Len(p) : Member(p[i], volatile[c]) \/ Member(p[i], cache[c])
    BY <1>m, <2>3 DEF s
  <2> QED BY <1>0, <2>3, <2>4, <2>5, ShowKept
<1> DEFINE c == view.chat
           s == Messages(c)
           sh == view.shown
<1>2. ASSUME PageBack(limit) PROVE ProviderInv'
  <2> DEFINE p == apply_range(s, [kind |-> "Before", id |-> Head(sh).id, limit |-> limit])
             at == PositionOf(s, Head(sh).id)
  <2>1. /\ sh # << >> /\ sh \in Seq(Stored) /\ c \in Chats /\ Len(sh) > 0 /\ Head(sh) = sh[1]
        /\ view = [chat |-> c, store |-> view.store, shown |-> sh]
    BY <1>2 DEF PageBack, ViewShape, ViewAgrees
  <2>2. view' = [chat |-> c, store |-> view.store, shown |-> p \o sh]
    <3>1. view' = [view EXCEPT !.shown = p \o sh] BY <1>2 DEF PageBack, get_messages
    <3> HIDE DEF p
    <3> QED BY <2>1, <3>1
  <2>3. s \in Seq(Stored) /\ InPlace(s) BY <1>m, <2>1
  <2>4. p = << >> \/ \E m \in Nat \ {0} : at > 0 /\ p = SubSeq(s, m, at - 1)
    BY <2>3, PageShape
  <2>5. at > 0 => at \in 1..Len(s) /\ s[at].id = sh[1].id BY <2>1, <2>3, PositionFound
  <2>6. at > 0 => sh[1].place = at
    <3> SUFFICES ASSUME at > 0 PROVE sh[1].place = at OBVIOUS
    <3>1. SameIds(sh, s) BY <2>1 DEF ViewAgrees, Messages
    <3>2. 1 \in 1..Len(sh) BY <2>1
    <3> HIDE DEF at, s, sh
    <3>3. sh[1].place = s[at].place BY <2>5, <3>1, <3>2 DEF SameIds
    <3> QED BY <2>3, <2>5, <3>3 DEF InPlace
  <2> HIDE DEF p
  <2>7. /\ p \in Seq(Stored) /\ Unbroken(p) /\ \A i \in 1..Len(p) : Member(p[i], s)
        /\ Len(p) > 0 => sh[1].place = p[Len(p)].place + 1
    <3>1. CASE p = << >> BY <3>1 DEF Unbroken
    <3>2. CASE p # << >>
      <4>1. PICK m \in Nat \ {0} : at > 0 /\ p = SubSeq(s, m, at - 1) BY <2>4, <3>2
      <4>2. at - 1 \in Nat /\ at - 1 <= Len(s) /\ at \in Nat BY <2>3, <2>5, <4>1
      <4> HIDE DEF at, s, sh
      <4>3. /\ p \in Seq(Stored) /\ Unbroken(p) /\ \A i \in 1..Len(p) : Member(p[i], s)
            /\ Len(p) > 0 => p[Len(p)].place = at - 1
        BY <2>3, <4>1, <4>2, StretchUnbroken
      <4>4. sh[1].place = at /\ at = (at - 1) + 1 BY <2>6, <4>1, <4>2
      <4> QED BY <4>3, <4>4
    <3> QED BY <3>1, <3>2
  <2>8. Unbroken(sh) BY DEF PagesUnbroken, Unbroken
  <2>9. /\ p \o sh \in Seq(Stored) /\ Unbroken(p \o sh)
        /\ \A i \in 1..Len(p \o sh) : Member((p \o sh)[i], p) \/ Member((p \o sh)[i], sh)
    BY <2>1, <2>7, <2>8, Meet
  <2>10. \A x : Member(x, p) => Member(x, volatile[c]) \/ Member(x, cache[c])
    <3> SUFFICES ASSUME NEW x, Member(x, p) PROVE Member(x, volatile[c]) \/ Member(x, cache[c])
      OBVIOUS
    <3>1. Member(x, s) BY <2>7 DEF Member
    <3> QED BY <1>m, <2>1, <3>1
  <2> QED BY <1>0, <2>1, <2>2, <2>9, <2>10, ShowKept
<1>3. ASSUME CatchUp(limit) PROVE ProviderInv'
  <2> DEFINE p == apply_range(s, [kind |-> "After", id |-> Last(sh).id, limit |-> limit])
             at == PositionOf(s, Last(sh).id)
  <2>1. /\ sh # << >> /\ sh \in Seq(Stored) /\ c \in Chats /\ Len(sh) > 0
        /\ view = [chat |-> c, store |-> view.store, shown |-> sh]
    BY <1>3 DEF CatchUp, ViewShape, ViewAgrees
  <2>0. Last(sh) = sh[Len(sh)] BY DEF Last
  <2>2. view' = [chat |-> c, store |-> view.store, shown |-> sh \o p]
    <3>1. view' = [view EXCEPT !.shown = sh \o p] BY <1>3 DEF CatchUp, get_messages
    <3> HIDE DEF p
    <3> QED BY <2>1, <3>1
  <2>3. s \in Seq(Stored) /\ InPlace(s) BY <1>m, <2>1
  <2>4. p = << >> \/ \E n \in Nat : at > 0 /\ n <= Len(s) /\ p = SubSeq(s, at + 1, n)
    <3> DEFINE x == Last(sh).id
    <3>1. /\ p = apply_range(s, [kind |-> "After", id |-> x, limit |-> limit])
          /\ at = PositionOf(s, x)
      OBVIOUS
    <3> HIDE DEF x, p, at, s
    <3> QED BY <2>3, <3>1, PageShape
  <2>5. at > 0 => at \in 1..Len(s) /\ s[at].id = sh[Len(sh)].id BY <2>0, <2>3, PositionFound
  <2>6. at > 0 => sh[Len(sh)].place = at
    <3> SUFFICES ASSUME at > 0 PROVE sh[Len(sh)].place = at OBVIOUS
    <3>1. SameIds(sh, s) BY <2>1 DEF ViewAgrees, Messages
    <3>2. Len(sh) \in 1..Len(sh) BY <2>1
    <3> HIDE DEF at, s, sh
    <3>3. sh[Len(sh)].place = s[at].place BY <2>5, <3>1, <3>2 DEF SameIds
    <3> QED BY <2>3, <2>5, <3>3 DEF InPlace
  <2> HIDE DEF p
  <2>7. /\ p \in Seq(Stored) /\ Unbroken(p) /\ \A i \in 1..Len(p) : Member(p[i], s)
        /\ Len(p) > 0 => p[1].place = sh[Len(sh)].place + 1
    <3>1. CASE p = << >> BY <3>1 DEF Unbroken
    <3>2. CASE p # << >>
      <4>1. PICK n \in Nat : at > 0 /\ n <= Len(s) /\ p = SubSeq(s, at + 1, n) BY <2>4, <3>2
      <4>2. at + 1 \in Nat \ {0} BY <2>3, <2>5, <4>1
      <4> HIDE DEF at, s, sh
      <4>3. /\ p \in Seq(Stored) /\ Unbroken(p) /\ \A i \in 1..Len(p) : Member(p[i], s)
            /\ Len(p) > 0 => p[1].place = at + 1
        BY <2>3, <4>1, <4>2, StretchUnbroken
      <4> QED BY <2>6, <4>1, <4>2, <4>3
    <3> QED BY <3>1, <3>2
  <2>8. Unbroken(sh) BY DEF PagesUnbroken, Unbroken
  <2>9. /\ sh \o p \in Seq(Stored) /\ Unbroken(sh \o p)
        /\ \A i \in 1..Len(sh \o p) : Member((sh \o p)[i], sh) \/ Member((sh \o p)[i], p)
    BY <2>1, <2>7, <2>8, Meet
  <2>10. \A x : Member(x, p) => Member(x, volatile[c]) \/ Member(x, cache[c])
    <3> SUFFICES ASSUME NEW x, Member(x, p) PROVE Member(x, volatile[c]) \/ Member(x, cache[c])
      OBVIOUS
    <3>1. Member(x, s) BY <2>7 DEF Member
    <3> QED BY <1>m, <2>1, <3>1
  <2> QED BY <1>0, <2>1, <2>2, <2>9, <2>10, ShowKept
<1> QED BY <1>1, <1>2, <1>3

\* Steps that write nothing keep the invariant.
LEMMA Unmoved ==
    ASSUME ProviderInv, UNCHANGED <<volatile, cache, view>>, ids' \in {ids, ids + 1}
    PROVE  ProviderInv'
<1> USE DEF ProviderInv
<1>1. ids \in Nat /\ ids' \in Nat BY DEF StoreTypes
<1>2. 1..ids \subseteq 1..ids' BY <1>1
<1>3. StoreTypes' BY <1>1 DEF StoreTypes
<1>4. (\A d \in Chats : InPlace(volatile[d]) /\ InPlace(cache[d]))' BY <1>2 DEF StoresAgree, InPlace
<1>5. StoresAgree' BY <1>4 DEF StoresAgree, SameIds
<1>6. ViewShape' /\ PagesUnbroken' BY DEF ViewShape, PagesUnbroken
<1>7. ViewAgrees' BY <1>2 DEF ViewAgrees, SameIds
<1> QED BY <1>3, <1>5, <1>6, <1>7

\* Clearing the volatile store keeps the invariant.
LEMMA ClearKept ==
    ASSUME ProviderInv, clear_all \/ \E c \in Chats : clear_channel(c)
    PROVE  ProviderInv'
<1> USE DEF ProviderInv
<1>1. UNCHANGED <<cache, ids>> /\ (view' = NoView \/ UNCHANGED view)
  BY DEF clear_channel, clear_all
<1>2. \A d \in Chats : volatile'[d] \in {volatile[d], << >>}
  BY DEF clear_channel, clear_all, StoreTypes
<1>3. volatile' \in [Chats -> Seq(Stored)]
  <2>1. << >> \in Seq(Stored) OBVIOUS
  <2> QED BY <2>1 DEF clear_channel, clear_all, StoreTypes
<1>4. StoreTypes' BY <1>1, <1>3 DEF StoreTypes
<1>l. \A d \in Chats : volatile'[d] = volatile[d] \/ Len(volatile'[d]) = 0
  <2>1. \A d \in Chats : volatile'[d] = << >> => Len(volatile'[d]) = 0 OBVIOUS
  <2> QED BY <1>2, <2>1
<1>5. StoresAgree'
  <2>3. (\A d \in Chats : InPlace(volatile[d]))' BY <1>1, <1>l DEF StoresAgree, InPlace
  <2>4. (\A d \in Chats : InPlace(cache[d]) /\ SameIds(cache[d], cache[d]))'
    BY <1>1 DEF StoresAgree, InPlace, SameIds
  <2>5. (\A d \in Chats : SameIds(volatile[d], volatile[d]) /\ SameIds(volatile[d], cache[d]))'
    <3> SUFFICES ASSUME NEW d \in Chats
                 PROVE  (SameIds(volatile[d], volatile[d]) /\ SameIds(volatile[d], cache[d]))'
      OBVIOUS
    <3>1. CASE volatile'[d] = volatile[d] BY <1>1, <3>1 DEF StoresAgree, SameIds
    <3>2. CASE Len(volatile'[d]) = 0 BY <3>2 DEF SameIds
    <3> QED BY <1>l, <3>1, <3>2
  <2> QED BY <2>3, <2>4, <2>5 DEF StoresAgree
<1>6. CASE view' = NoView
  <2>1. ViewShape' BY <1>6, NothingShown DEF ViewShape
  <2>2. view'.shown = << >> /\ Len(view'.shown) = 0 BY <1>6, NothingShown
  <2>3. ViewAgrees' BY <2>2 DEF ViewAgrees
  <2>4. PagesUnbroken' BY <2>2 DEF PagesUnbroken
  <2> QED BY <1>4, <1>5, <2>1, <2>3, <2>4
<1>7. CASE UNCHANGED view
  <2>1. ViewShape' /\ PagesUnbroken' BY <1>7 DEF ViewShape, PagesUnbroken
  <2>2. ViewAgrees'
    <3> SUFFICES ASSUME view.shown # << >>
                 PROVE  /\ view.chat \in Chats
                        /\ \A i \in 1..Len(view.shown) : view.shown[i].id \in 1..ids
                        /\ SameIds(view.shown, volatile'[view.chat])
                        /\ SameIds(view.shown, cache[view.chat])
      BY <1>1, <1>7 DEF ViewAgrees, SameIds
    <3>1. /\ view.chat \in Chats /\ SameIds(view.shown, volatile[view.chat])
          /\ \A i \in 1..Len(view.shown) : view.shown[i].id \in 1..ids
          /\ SameIds(view.shown, cache[view.chat])
      BY DEF ViewAgrees
    <3>2. CASE volatile'[view.chat] = volatile[view.chat] BY <3>1, <3>2
    <3>3. CASE Len(volatile'[view.chat]) = 0 BY <3>1, <3>3 DEF SameIds
    <3> QED BY <1>l, <3>1, <3>2, <3>3
  <2> QED BY <1>4, <1>5, <2>1, <2>2
<1> QED BY <1>1, <1>6, <1>7

\* Storing, replacing and changes of mode.
LEMMA StoringKept ==
    ASSUME ProviderInv, NEW c \in Chats,
           \/ \E mode \in {"None", "SignalV1", "FancyV1FullArchive"} : set_mode(c, mode)
           \/ store_message(c)
           \/ \E id \in 1..ids : replace_message(c, id)
    PROVE  ProviderInv'
<1> USE DEF ProviderInv
<1>0. /\ ids \in Nat /\ volatile[c] \in Seq(Stored) /\ cache[c] \in Seq(Stored)
      /\ InPlace(volatile[c]) /\ InPlace(cache[c])
  BY DEF StoreTypes, StoresAgree
<1>1. CASE \E mode \in {"None", "SignalV1", "FancyV1FullArchive"} : set_mode(c, mode)
  BY <1>0, <1>1, Unmoved DEF set_mode
<1>2. CASE store_message(c)
  <2> DEFINE a(s) == Append(s, [id |-> ids + 1, place |-> Len(s) + 1])
  <2>1. ids' = ids + 1 /\ UNCHANGED view BY <1>2 DEF store_message
  <2>2. \/ volatile' = [volatile EXCEPT ![c] = a(volatile[c])] /\ UNCHANGED cache
        \/ cache' = [cache EXCEPT ![c] = a(cache[c])] /\ UNCHANGED volatile
    BY <1>2 DEF store_message, Messages
  <2>3. /\ OneFresh(volatile[c], a(volatile[c]), Len(volatile[c]) + 1)
        /\ OneFresh(cache[c], a(cache[c]), Len(cache[c]) + 1)
    BY <1>0, AppendFresh
  <2> HIDE DEF a
  <2> QED BY <2>1, <2>2, <2>3, WriteKept
<1>3. ASSUME NEW x \in 1..ids, replace_message(c, x) PROVE ProviderInv'
  <2>1. ids' = ids + 1 /\ UNCHANGED view BY <1>3 DEF replace_message
  <2>2. CASE Holds(volatile[c], x)
    <3>1. OneFresh(volatile[c], Replaced(volatile[c], x, ids + 1), PositionOf(volatile[c], x))
      BY <1>0, <2>2, ReplaceFresh
    <3>2. /\ volatile' = [volatile EXCEPT ![c] = Replaced(volatile[c], x, ids + 1)]
          /\ UNCHANGED cache
      BY <1>3, <2>2 DEF replace_message
    <3> QED BY <2>1, <3>1, <3>2, WriteKept
  <2>3. CASE ~Holds(volatile[c], x) /\ Holds(cache[c], x)
    <3>1. OneFresh(cache[c], Replaced(cache[c], x, ids + 1), PositionOf(cache[c], x))
      BY <1>0, <2>3, ReplaceFresh
    <3>2. /\ cache' = [cache EXCEPT ![c] = Replaced(cache[c], x, ids + 1)]
          /\ UNCHANGED volatile
      BY <1>3, <2>3 DEF replace_message
    <3> QED BY <2>1, <3>1, <3>2, WriteKept
  <2>4. CASE ~Holds(volatile[c], x) /\ ~Holds(cache[c], x)
    <3>1. UNCHANGED <<volatile, cache>> BY <1>3, <2>4 DEF replace_message
    <3> QED BY <1>0, <2>1, <3>1, Unmoved
  <2> QED BY <2>2, <2>3, <2>4
<1> QED BY <1>1, <1>2, <1>3

\* For any channels and pages of any size, a reader who opens a channel, pages
\* back and catches up is shown one unbroken stretch of it (apply_range of the
\* providers), whatever is stored, replaced, cleared or switched between
\* volatile and persistent storage meanwhile.
THEOREM PagesCorrect == ProvidersSpec => []PagesUnbroken
<1>1. ProviderInv /\ [ProvidersNext]_providerVars => ProviderInv'
  <2> SUFFICES ASSUME ProviderInv, [ProvidersNext]_providerVars PROVE ProviderInv' OBVIOUS
  <2>1. CASE UNCHANGED providerVars BY <2>1, Unmoved DEF providerVars
  <2>2. CASE \E limit \in 1..MaxPage : \/ PageBack(limit) \/ CatchUp(limit)
                                       \/ \E c \in Chats : OpenView(c, limit)
    <3>1. \A limit \in 1..MaxPage : limit \in Nat \ {0} OBVIOUS
    <3> QED BY <2>2, <3>1, PagingKept
  <2>3. CASE \E c \in Chats :
          \/ \E mode \in {"None", "SignalV1", "FancyV1FullArchive"} : set_mode(c, mode)
          \/ store_message(c)
          \/ \E id \in 1..ids : replace_message(c, id)
    BY <2>3, StoringKept
  <2>4. CASE clear_all \/ \E c \in Chats : clear_channel(c) BY <2>4, ClearKept
  <2> QED BY <2>1, <2>2, <2>3, <2>4 DEF ProvidersNext
<1>2. ProviderInv => PagesUnbroken BY DEF ProviderInv
<1> QED BY <1>1, <1>2, ProviderStart, PTL DEF ProvidersSpec

-----------------------------------------------------------------------------
\* The connection seen by the event loop (Relay).
State(a, v, us, ps) == [session |-> a, version |-> v, users |-> us, perms |-> ps]
StateTypes == {"Version", "ServerSync", "UserState", "UserRemove", "ChannelState", "ChannelRemove",
               "PermissionQuery"}

\* What is kept of a user, what an answer leaves of the cached permissions, and
\* what a flush leaves of them.
Entry(us, u) == IF u \in DOMAIN us THEN us[u] ELSE NewUser
Answered(ps, c, verdict) == IF c \in DOMAIN ps THEN [ps EXCEPT ![c] = verdict] ELSE ps
Flushed(ps) == [d \in DOMAIN ps |-> NoPerms]

\* What each message does to the state.

\* A user's state: the entry, new or kept, with the fields that are set.
LEMMA AppliedUser ==
    ASSUME NEW a, NEW v, NEW us, NEW ps, NEW u, u # 0, NEW set
    PROVE  Applied(State(a, v, us, ps), Decode(UserState(u, set))) =
           State(a, v, Put(us, u, Overlay(Entry(us, u), set)), ps)
<1>1. PICK m : m = UserState(u, set) OBVIOUS
<1>2. m.type = "UserState" /\ m.session = u /\ m.set = set BY <1>1 DEF UserState
<1>3. Decode(m) = m BY <1>2 DEF Decode
<1>4. Applied(State(a, v, us, ps), m) = apply_user_state(State(a, v, us, ps), m)
  BY <1>2, Zenon DEF Applied
<1>5. apply_user_state(State(a, v, us, ps), m) =
           State(a, v, Put(us, u, Overlay(Entry(us, u), set)), ps)
  BY <1>2 DEF apply_user_state, State, Entry
<1> QED BY <1>1, <1>3, <1>4, <1>5

\* A user who left: the entry goes.
LEMMA AppliedUserRemove ==
    ASSUME NEW a, NEW v, NEW us, NEW ps, NEW m, m.type = "UserRemove"
    PROVE  Applied(State(a, v, us, ps), Decode(m)) =
           State(a, v, Restrict(us, DOMAIN us \ {m.session}), ps)
<1>3. Decode(m) = m BY DEF Decode
<1>4. Applied(State(a, v, us, ps), m) = remove_user(State(a, v, us, ps), m)
  BY Zenon DEF Applied
<1> QED BY <1>3, <1>4 DEF remove_user, State

\* A channel: known from now on, with no permission cached.
LEMMA AppliedChannelState ==
    ASSUME NEW a, NEW v, NEW us, NEW ps, NEW m, m.type = "ChannelState", Has(m, "channel")
    PROVE  Applied(State(a, v, us, ps), Decode(m)) =
           State(a, v, us, IF m.channel \in DOMAIN ps THEN ps ELSE Put(ps, m.channel, NoPerms))
<1>3. Decode(m) = m BY DEF Decode
<1>4. Applied(State(a, v, us, ps), m) = apply_channel_state(State(a, v, us, ps), m)
  BY Zenon DEF Applied
<1> QED BY <1>3, <1>4 DEF apply_channel_state, State

\* A deleted channel: what was cached for it goes.
LEMMA AppliedChannelRemove ==
    ASSUME NEW a, NEW v, NEW us, NEW ps, NEW m, m.type = "ChannelRemove"
    PROVE  Applied(State(a, v, us, ps), Decode(m)) =
           State(a, v, us, Restrict(ps, DOMAIN ps \ {m.channel}))
<1>3. Decode(m) = m BY DEF Decode
<1>4. Applied(State(a, v, us, ps), m) = remove_channel(State(a, v, us, ps), m)
  BY Zenon DEF Applied
<1> QED BY <1>3, <1>4 DEF remove_channel, State

\* A permission answer is cached where the channel is known.
LEMMA AppliedAnswer ==
    ASSUME NEW a, NEW v, NEW us, NEW ps,
           NEW m, m.type = "PermissionQuery", ~m.flush, Has(m, "channel")
    PROVE  Applied(State(a, v, us, ps), Decode(m)) =
           State(a, v, us, Answered(ps, m.channel, m.permissions))
<1>3. Decode(m) = m BY DEF Decode
<1>4. Applied(State(a, v, us, ps), m) = apply_permission_query(State(a, v, us, ps), m)
  BY Zenon DEF Applied
<1>5. /\ State(a, v, us, ps).perms = ps
      /\ \A qs : [State(a, v, us, ps) EXCEPT !.perms = qs] = State(a, v, us, qs)
  BY DEF State
<1>6. apply_permission_query(State(a, v, us, ps), m) =
      State(a, v, us, Answered(ps, m.channel, m.permissions))
  BY <1>5 DEF apply_permission_query, Answered, Flushed
<1> QED BY <1>3, <1>4, <1>6

\* A flush forgets every cached permission before it caches its own.
LEMMA AppliedFlush ==
    ASSUME NEW a, NEW v, NEW us, NEW ps,
           NEW m, m.type = "PermissionQuery", m.flush, Has(m, "channel")
    PROVE  Applied(State(a, v, us, ps), Decode(m)) =
           State(a, v, us, Answered(Flushed(ps), m.channel, m.permissions))
<1>3. Decode(m) = m BY DEF Decode
<1>4. Applied(State(a, v, us, ps), m) = apply_permission_query(State(a, v, us, ps), m)
  BY Zenon DEF Applied
<1>5. /\ State(a, v, us, ps).perms = ps
      /\ \A qs : [State(a, v, us, ps) EXCEPT !.perms = qs] = State(a, v, us, qs)
  BY DEF State
<1>6. apply_permission_query(State(a, v, us, ps), m) =
      State(a, v, us, Answered(Flushed(ps), m.channel, m.permissions))
  BY <1>5 DEF apply_permission_query, Answered, Flushed
<1> QED BY <1>3, <1>4, <1>6

\* The server's version.
LEMMA AppliedVersion ==
    ASSUME NEW a, NEW v, NEW us, NEW ps, NEW w
    PROVE  Applied(State(a, v, us, ps), Decode([type |-> "Version", fancy |-> w])) = State(a, w, us, ps)
<1>1. PICK m : m = [type |-> "Version", fancy |-> w] OBVIOUS
<1>2. m.type = "Version" /\ m.fancy = w BY <1>1
<1>3. Decode(m) = m BY <1>2 DEF Decode
<1>4. Applied(State(a, v, us, ps), m) = apply_version(State(a, v, us, ps), m)
  BY <1>2, Zenon DEF Applied
<1> QED BY <1>1, <1>2, <1>3, <1>4 DEF apply_version, State

\* ServerSync: our session, and the root's permissions.
LEMMA AppliedSync ==
    ASSUME NEW a, NEW v, NEW us, NEW ps, NEW b, NEW p
    PROVE  Applied(State(a, v, us, ps),
                   Decode([type |-> "ServerSync", session |-> b, permissions |-> p])) =
           State(b, v, us, IF 0 \in DOMAIN ps THEN [ps EXCEPT ![0] = p] ELSE ps)
<1>1. PICK m : m = [type |-> "ServerSync", session |-> b, permissions |-> p] OBVIOUS
<1>2. m.type = "ServerSync" /\ m.session = b /\ m.permissions = p BY <1>1
<1>3. Decode(m) = m BY <1>2 DEF Decode
<1>4. Applied(State(a, v, us, ps), m) = apply_server_sync(State(a, v, us, ps), m)
  BY <1>2, Zenon DEF Applied
<1> QED BY <1>1, <1>2, <1>3, <1>4 DEF apply_server_sync, State

\* Every other message leaves the state alone.
LEMMA AppliedOther ==
    ASSUME NEW s, NEW m, m.type \notin StateTypes PROVE Applied(s, m) = s
BY Zenon DEF Applied, StateTypes

-----------------------------------------------------------------------------
\* The messages of q, handled in order, lead from the state s to t.
Leads(s, q, t) ==
    \E h : /\ h[1] = s /\ h[Len(q) + 1] = t
           /\ \A i \in 1..Len(q) : h[i + 1] = Applied(h[i], Decode(q[i]))

\* An empty queue leads from a state to itself only.
LEMMA LeadsNowhere == ASSUME NEW s, NEW t PROVE Leads(s, << >>, t) <=> s = t
<1>1. Len(<< >>) = 0 OBVIOUS
<1>2. ASSUME s = t PROVE Leads(s, << >>, t)
  <2>1. PICK h : h = [i \in {1} |-> s] OBVIOUS
  <2>2. h[1] = s /\ h[Len(<< >>) + 1] = t /\ \A i \in 1..Len(<< >>) : FALSE BY <1>1, <1>2, <2>1
  <2> QED BY <2>2 DEF Leads
<1>3. ASSUME Leads(s, << >>, t) PROVE s = t BY <1>1, <1>3 DEF Leads
<1> QED BY <1>2, <1>3

\* The first message handled, the others lead on from there.
LEMMA LeadsFirst ==
    ASSUME NEW T, NEW q \in Seq(T), q # << >>, NEW s, NEW t, Leads(s, q, t)
    PROVE  Leads(Applied(s, Decode(Head(q))), Tail(q), t)
<1>1. PICK h : /\ h[1] = s /\ h[Len(q) + 1] = t
               /\ \A i \in 1..Len(q) : h[i + 1] = Applied(h[i], Decode(q[i]))
  BY DEF Leads
<1>2. PICK g : g = [i \in 1..Len(q) |-> h[i + 1]] OBVIOUS
<1>3. /\ Len(q) \in Nat /\ Len(q) > 0 /\ Len(Tail(q)) = Len(q) - 1 /\ Head(q) = q[1]
      /\ \A i \in 1..Len(Tail(q)) : Tail(q)[i] = q[i + 1]
  OBVIOUS
<1>4. g[1] = Applied(s, Decode(Head(q)))
  <2>1. 1 \in 1..Len(q) /\ 1 + 1 = 2 BY <1>3
  <2>2. g[1] = h[2] /\ h[2] = Applied(h[1], Decode(q[1])) BY <1>1, <1>2, <2>1
  <2> QED BY <1>1, <1>3, <2>2
<1>5. g[Len(Tail(q)) + 1] = t
  <2>1. Len(Tail(q)) + 1 = Len(q) /\ Len(q) \in 1..Len(q) BY <1>3
  <2> QED BY <1>1, <1>2, <2>1
<1>6. ASSUME NEW i \in 1..Len(Tail(q)) PROVE g[i + 1] = Applied(g[i], Decode(Tail(q)[i]))
  <2>1. i \in 1..Len(q) /\ i + 1 \in 1..Len(q) BY <1>3
  <2>2. g[i] = h[i + 1] /\ g[i + 1] = h[(i + 1) + 1] BY <1>2, <2>1
  <2>3. h[(i + 1) + 1] = Applied(h[i + 1], Decode(q[i + 1])) BY <1>1, <2>1
  <2> QED BY <1>3, <2>2, <2>3
<1> QED BY <1>4, <1>5, <1>6 DEF Leads

\* What is appended leads on from where the queue led.
LEMMA LeadsOn ==
    ASSUME NEW T, NEW q \in Seq(T), NEW r \in Seq(T), NEW s, NEW t, NEW u, Leads(s, q, t), Leads(t, r, u)
    PROVE  Leads(s, q \o r, u)
<1>1. PICK h : /\ h[1] = s /\ h[Len(q) + 1] = t
               /\ \A i \in 1..Len(q) : h[i + 1] = Applied(h[i], Decode(q[i]))
  BY DEF Leads
<1>2. PICK g : /\ g[1] = t /\ g[Len(r) + 1] = u
               /\ \A i \in 1..Len(r) : g[i + 1] = Applied(g[i], Decode(r[i]))
  BY DEF Leads
<1>3. PICK f : f = [i \in 1..(Len(q) + Len(r) + 1) |-> IF i <= Len(q) THEN h[i] ELSE g[i - Len(q)]]
  OBVIOUS
<1>4. /\ Len(q) \in Nat /\ Len(r) \in Nat /\ Len(q \o r) = Len(q) + Len(r)
      /\ \A i \in 1..(Len(q) + Len(r)) : (q \o r)[i] = IF i <= Len(q) THEN q[i] ELSE r[i - Len(q)]
  BY ConcatProperties
<1>5. f[1] = s
  <2>1. 1 \in 1..(Len(q) + Len(r) + 1) BY <1>4
  <2>2. CASE Len(q) = 0
    <3>1. ~(1 <= Len(q)) /\ 1 - Len(q) = 1 /\ Len(q) + 1 = 1 BY <2>2
    <3> QED BY <1>1, <1>2, <1>3, <2>1, <3>1
  <2>3. CASE Len(q) # 0
    <3>1. 1 <= Len(q) BY <1>4, <2>3
    <3> QED BY <1>1, <1>3, <2>1, <3>1
  <2> QED BY <2>2, <2>3
<1>6. f[Len(q \o r) + 1] = u
  <2>1. /\ Len(q \o r) + 1 \in 1..(Len(q) + Len(r) + 1) /\ ~(Len(q \o r) + 1 <= Len(q))
        /\ Len(q \o r) + 1 - Len(q) = Len(r) + 1
    BY <1>4
  <2> QED BY <1>2, <1>3, <2>1
<1>7. ASSUME NEW i \in 1..Len(q \o r) PROVE f[i + 1] = Applied(f[i], Decode((q \o r)[i]))
  <2>1. /\ i \in 1..(Len(q) + Len(r)) /\ i \in 1..(Len(q) + Len(r) + 1)
        /\ i + 1 \in 1..(Len(q) + Len(r) + 1)
    BY <1>4
  <2>2. CASE i <= Len(q)
    <3>1. i \in 1..Len(q) BY <1>4, <2>1, <2>2
    <3>2. f[i] = h[i] /\ (q \o r)[i] = q[i] BY <1>3, <1>4, <2>1, <2>2
    <3>3. f[i + 1] = h[i + 1]
      <4>1. CASE i + 1 <= Len(q) BY <1>3, <2>1, <4>1
      <4>2. CASE ~(i + 1 <= Len(q))
        <5>1. i = Len(q) /\ i + 1 - Len(q) = 1 BY <1>4, <3>1, <4>2
        <5>2. f[i + 1] = g[i + 1 - Len(q)] BY <1>3, <2>1, <4>2
        <5> QED BY <1>1, <1>2, <5>1, <5>2
      <4> QED BY <4>1, <4>2
    <3> QED BY <1>1, <3>1, <3>2, <3>3
  <2>3. CASE ~(i <= Len(q))
    <3>1. i - Len(q) \in 1..Len(r) /\ ~(i + 1 <= Len(q)) /\ (i - Len(q)) + 1 = i + 1 - Len(q)
      BY <1>4, <2>1, <2>3
    <3>2. f[i] = g[i - Len(q)] /\ (q \o r)[i] = r[i - Len(q)] BY <1>3, <1>4, <2>1, <2>3
    <3>3. f[i + 1] = g[i + 1 - Len(q)] BY <1>3, <2>1, <3>1
    <3>4. g[(i - Len(q)) + 1] = Applied(g[i - Len(q)], Decode(r[i - Len(q)])) BY <1>2, <3>1
    <3> QED BY <3>1, <3>2, <3>3, <3>4
  <2> QED BY <2>2, <2>3
<1> QED BY <1>5, <1>6, <1>7 DEF Leads

\* One message.
LEMMA LeadsOne == ASSUME NEW s, NEW m PROVE Leads(s, <<m>>, Applied(s, Decode(m)))
<1>1. PICK h : h = [i \in {1, 2} |-> IF i = 1 THEN s ELSE Applied(s, Decode(m))] OBVIOUS
<1>2. Len(<<m>>) = 1 /\ <<m>>[1] = m /\ 1..1 = {1} /\ 1 + 1 = 2 OBVIOUS
<1>3. h[1] = s /\ h[2] = Applied(s, Decode(m)) BY <1>1
<1> QED BY <1>2, <1>3 DEF Leads

\* SetToSeq lists a finite set, all of it.
LEMMA Listed ==
    ASSUME NEW S, IsFiniteSet(S)
    PROVE  /\ SetToSeq(S) \in Seq(S)
           /\ \A x \in S : \E i \in 1..Len(SetToSeq(S)) : SetToSeq(S)[i] = x
<1>1. PICK n \in Nat : n = Cardinality(S) BY FS_CardinalityType
<1>2. ExistsBijection(1..n, S) BY <1>1, FS_CardinalityType
<1>3. \E f \in [1..n -> S] : IsInjective(f) BY <1>2 DEF ExistsBijection, Bijection, Injection, IsInjective
<1>4. PICK f : f = SetToSeq(S) OBVIOUS
<1>5. f \in [1..n -> S] /\ IsInjective(f) BY <1>1, <1>3, <1>4 DEF SetToSeq
<1>6. f \in Injection(1..n, S) BY <1>5 DEF Injection, IsInjective
<1>7. Cardinality(1..n) = n BY FS_Interval
<1>8. f \in Surjection(1..n, S) BY <1>1, <1>6, <1>7, FS_Injection
<1>9. f \in Seq(S) /\ Len(f) = n BY <1>5
<1> QED BY <1>4, <1>8, <1>9 DEF Surjection

-----------------------------------------------------------------------------
\* What the commands queue, and what is on its way to the server.
CommandMessage(m) ==
    /\ ~Has(m, "wrapped") /\ Has(m, "type")
    /\ m.type = "UserRemove" => m.session # Me
    /\ m.type = "ChannelState" => Has(m, "channel")

Request(m) ==
    /\ Has(m, "type")
    /\ m.type = "UserRemove" => m.session # Me
    /\ m.type = "ChannelState" => Has(m, "channel")
    /\ Has(m, "wrapped") => Has(m.wrapped, "type") /\ m.wrapped.type \notin StateTypes

IsSequence(q) == \E T : q \in Seq(T)
Asked(q) == \E T : q \in Seq(T) /\ \A m \in T : Request(m)

Total(f) == f = [x \in DOMAIN f |-> f[x]]

\* The users and permissions a server can hold.
Shape(users, perms) ==
    /\ Total(perms) /\ Total(users)
    /\ \A u \in DOMAIN users : users[u] = [f \in Fields |-> users[u][f]]
    /\ IsFiniteSet(DOMAIN perms) /\ IsFiniteSet(DOMAIN users)
    /\ 0 \notin DOMAIN users

ServerShape ==
    /\ srv = [version |-> srv.version, perms |-> srv.perms, users |-> srv.users]
    /\ Shape(srv.users, srv.perms)

\* Cached permissions of which none is one the server has changed.
Cached(ps, perms) ==
    /\ Total(ps) /\ DOMAIN ps = DOMAIN perms
    /\ \A c \in DOMAIN perms : ps[c] \in {NoPerms, perms[c]}

\* The messages on their way lead the client to what the server has: all of it
\* once the client is in, nothing before.
Followed ==
    IF Me \in DOMAIN srv.users
      THEN \E v, ps : Cached(ps, srv.perms) /\ Leads(st, toMe, State(Me, v, srv.users, ps))
      ELSE \E v : Leads(st, toMe, State(0, v, << >>, << >>))

\* The inductive invariant.
RelayInv ==
    /\ IsSequence(toMe) /\ Asked(toServer)
    /\ ServerShape /\ Followed /\ AudienceIsChannel

\* A sequence over a set is one over a larger set.
LEMMA SeqWider == ASSUME NEW S, NEW T, S \subseteq T, NEW q \in Seq(S) PROVE q \in Seq(T)
OBVIOUS

\* Two sequences joined are one, and both are over a common set.
LEMMA SequenceOn == ASSUME NEW q, NEW r, IsSequence(q), IsSequence(r)
    PROVE IsSequence(q \o r) /\ \E T : q \in Seq(T) /\ r \in Seq(T)
<1>1. PICK S : q \in Seq(S) BY DEF IsSequence
<1>2. PICK T : r \in Seq(T) BY DEF IsSequence
<1>3. q \in Seq(S \cup T) /\ r \in Seq(S \cup T) BY <1>1, <1>2, SeqWider
<1>4. q \o r \in Seq(S \cup T) BY <1>3
<1> QED BY <1>3, <1>4 DEF IsSequence

\* A single message is a sequence.
LEMMA SequenceOne == ASSUME NEW m PROVE IsSequence(<<m>>)
<1>1. <<m>> \in Seq({m}) OBVIOUS
<1> QED BY <1>1 DEF IsSequence

\* A request queued behind others.
LEMMA AskedOne == ASSUME NEW q, Asked(q), NEW m, Request(m) PROVE Asked(Append(q, m))
<1>1. PICK T : q \in Seq(T) /\ \A x \in T : Request(x) BY DEF Asked
<1>2. q \in Seq(T \cup {m}) BY <1>1, SeqWider
<1>3. Append(q, m) \in Seq(T \cup {m}) BY <1>2
<1>4. \A x \in T \cup {m} : Request(x) BY <1>1
<1> QED BY <1>3, <1>4 DEF Asked

\* The first request taken off.
LEMMA AskedTail == ASSUME NEW q, Asked(q), q # << >> PROVE Asked(Tail(q)) /\ Request(Head(q))
<1>1. PICK T : q \in Seq(T) /\ \A x \in T : Request(x) BY DEF Asked
<1>2. Tail(q) \in Seq(T) /\ Head(q) \in T BY <1>1
<1> QED BY <1>1, <1>2 DEF Asked

\* A queue that led to t leads on with one more message.
LEMMA LeadsTold ==
    ASSUME NEW s, NEW q, IsSequence(q), NEW t, Leads(s, q, t), NEW m, NEW u, Applied(t, Decode(m)) = u
    PROVE  IsSequence(q \o <<m>>) /\ Leads(s, q \o <<m>>, u)
<1>1. IsSequence(<<m>>) BY SequenceOne
<1>2. PICK T : q \in Seq(T) /\ <<m>> \in Seq(T) BY <1>1, SequenceOn
<1>3. Leads(t, <<m>>, u) BY LeadsOne
<1>4. Leads(s, q \o <<m>>, u) BY <1>2, <1>3, LeadsOn
<1> QED BY <1>1, <1>4, SequenceOn

-----------------------------------------------------------------------------
\* The login.
Before(q, i) == {q[j] : j \in 1..(i - 1)}

\* What a listing has named: nothing first, the whole set at the end.
LEMMA BeforeGrows ==
    ASSUME NEW S, NEW q \in Seq(S), \A x \in S : \E i \in 1..Len(q) : q[i] = x
    PROVE  /\ Before(q, 1) = {} /\ Before(q, Len(q) + 1) = S
           /\ \A i \in 1..Len(q) : Before(q, i + 1) = Before(q, i) \cup {q[i]}
<1>1. Len(q) \in Nat /\ \A i \in 1..Len(q) : q[i] \in S OBVIOUS
<1>2. 1..(1 - 1) = {} OBVIOUS
<1>3. 1..((Len(q) + 1) - 1) = 1..Len(q) BY <1>1
<1>4. ASSUME NEW i \in 1..Len(q) PROVE Before(q, i + 1) = Before(q, i) \cup {q[i]}
  <2>1. 1..((i + 1) - 1) = 1..(i - 1) \cup {i} OBVIOUS
  <2> QED BY <2>1 DEF Before
<1>5. Before(q, Len(q) + 1) = S BY <1>1, <1>3 DEF Before
<1> QED BY <1>2, <1>4, <1>5 DEF Before

\* The channels of the login leave every channel known, none with permissions.
LEMMA LoginChannels ==
    ASSUME NEW v, NEW S, NEW cs \in Seq(S), \A x \in S : \E i \in 1..Len(cs) : cs[i] = x
    PROVE  Leads(State(0, v, << >>, << >>),
                 [i \in DOMAIN cs |-> [type |-> "ChannelState", channel |-> cs[i]]],
                 State(0, v, << >>, [c \in S |-> NoPerms]))
<1> DEFINE Known(i) == [c \in Before(cs, i) |-> NoPerms]
<1>0. /\ Before(cs, 1) = {} /\ Before(cs, Len(cs) + 1) = S
      /\ \A i \in 1..Len(cs) : Before(cs, i + 1) = Before(cs, i) \cup {cs[i]}
  BY BeforeGrows
<1>1. Len(cs) \in Nat /\ DOMAIN cs = 1..Len(cs) OBVIOUS
<1>2. PICK q : q = [i \in 1..Len(cs) |-> [type |-> "ChannelState", channel |-> cs[i]]] OBVIOUS
<1>3. Len(q) = Len(cs) BY <1>1, <1>2
<1>4. PICK h : h = [i \in 1..(Len(cs) + 1) |-> State(0, v, << >>, Known(i))] OBVIOUS
<1>5. h[1] = State(0, v, << >>, << >>)
  <2>1. Known(1) = << >> BY <1>0
  <2>2. 1 \in 1..(Len(cs) + 1) BY <1>1
  <2>3. h[1] = State(0, v, << >>, Known(1)) BY <1>4, <2>2
  <2> HIDE DEF Known
  <2> QED BY <2>1, <2>3
<1>6. h[Len(q) + 1] = State(0, v, << >>, [c \in S |-> NoPerms])
  <2>2. Known(Len(cs) + 1) = [c \in S |-> NoPerms] BY <1>0
  <2>3. Len(cs) + 1 \in 1..(Len(cs) + 1) BY <1>1
  <2> QED BY <1>3, <1>4, <2>2, <2>3
<1>7. ASSUME NEW i \in 1..Len(q) PROVE h[i + 1] = Applied(h[i], Decode(q[i]))
  <2>1. i \in 1..Len(cs) /\ i \in 1..(Len(cs) + 1) /\ i + 1 \in 1..(Len(cs) + 1) BY <1>1, <1>3
  <2>2. h[i] = State(0, v, << >>, Known(i)) /\ h[i + 1] = State(0, v, << >>, Known(i + 1))
    BY <1>4, <2>1
  <2>3. q[i].type = "ChannelState" /\ Has(q[i], "channel") /\ q[i].channel = cs[i]
    BY <1>2, <2>1 DEF Has
  <2>4. Applied(h[i], Decode(q[i])) =
        State(0, v, << >>, IF cs[i] \in DOMAIN Known(i) THEN Known(i) ELSE Put(Known(i), cs[i], NoPerms))
    <3> HIDE DEF Known
    <3> QED BY <2>2, <2>3, AppliedChannelState
  <2>5. Before(cs, i + 1) = Before(cs, i) \cup {cs[i]} BY <2>1, <1>0
  <2>6. Known(i + 1) = IF cs[i] \in DOMAIN Known(i) THEN Known(i) ELSE Put(Known(i), cs[i], NoPerms)
    BY <2>5 DEF Put
  <2> HIDE DEF Known
  <2> QED BY <2>2, <2>4, <2>6
<1>8. Leads(State(0, v, << >>, << >>), q, State(0, v, << >>, [c \in S |-> NoPerms]))
  BY <1>5, <1>6, <1>7 DEF Leads
<1> QED BY <1>1, <1>2, <1>8

\* An announcement holds what differs from the defaults, so it yields the user.
LEMMA Announced ==
    ASSUME NEW user, user = [f \in Fields |-> user[f]]
    PROVE  Overlay(NewUser, [f \in {g \in Fields : user[g] # NewUser[g]} |-> user[f]]) = user
BY DEF Overlay, Has

\* The users of the login leave every user known as the server has it.
LEMMA LoginUsers ==
    ASSUME NEW v, NEW ps, NEW users, users = [u \in DOMAIN users |-> users[u]],
           \A u \in DOMAIN users : users[u] = [f \in Fields |-> users[u][f]],
           0 \notin DOMAIN users,
           NEW us \in Seq(DOMAIN users), \A x \in DOMAIN users : \E i \in 1..Len(us) : us[i] = x
    PROVE  Leads(State(0, v, << >>, ps), [i \in DOMAIN us |-> Announce(us[i], users[us[i]])],
                 State(0, v, users, ps))
<1> DEFINE Known(i) == [u \in Before(us, i) |-> users[u]]
<1>0. /\ Before(us, 1) = {} /\ Before(us, Len(us) + 1) = DOMAIN users
      /\ \A i \in 1..Len(us) : Before(us, i + 1) = Before(us, i) \cup {us[i]}
  BY BeforeGrows
<1>1. Len(us) \in Nat /\ DOMAIN us = 1..Len(us) OBVIOUS
<1>2. PICK q : q = [i \in 1..Len(us) |-> Announce(us[i], users[us[i]])] OBVIOUS
<1>3. Len(q) = Len(us) BY <1>1, <1>2
<1>4. PICK h : h = [i \in 1..(Len(us) + 1) |-> State(0, v, Known(i), ps)] OBVIOUS
<1>5. h[1] = State(0, v, << >>, ps)
  <2>1. Known(1) = << >> BY <1>0
  <2>2. 1 \in 1..(Len(us) + 1) BY <1>1
  <2>3. h[1] = State(0, v, Known(1), ps) BY <1>4, <2>2
  <2> HIDE DEF Known
  <2> QED BY <2>1, <2>3
<1>6. h[Len(q) + 1] = State(0, v, users, ps)
  <2>1. Before(us, Len(us) + 1) = DOMAIN users BY <1>0
  <2>2. Known(Len(us) + 1) = users BY <2>1
  <2>3. Len(us) + 1 \in 1..(Len(us) + 1) BY <1>1
  <2> QED BY <1>3, <1>4, <2>2, <2>3
<1>7. ASSUME NEW i \in 1..Len(q) PROVE h[i + 1] = Applied(h[i], Decode(q[i]))
  <2>1. i \in 1..Len(us) /\ i \in 1..(Len(us) + 1) /\ i + 1 \in 1..(Len(us) + 1) BY <1>1, <1>3
  <2>2. h[i] = State(0, v, Known(i), ps) /\ h[i + 1] = State(0, v, Known(i + 1), ps)
    BY <1>4, <2>1
  <2>3. PICK u \in DOMAIN users : u = us[i] BY <2>1
  <2>4. PICK set : set = [f \in {g \in Fields : users[u][g] # NewUser[g]} |-> users[u][f]] OBVIOUS
  <2>5. u # 0 /\ q[i] = UserState(u, set) BY <1>2, <2>1, <2>3, <2>4 DEF Announce
  <2>6. PICK kept : kept = Known(i) OBVIOUS
  <2>7. Applied(h[i], Decode(q[i])) =
        State(0, v, Put(kept, u, Overlay(Entry(kept, u), set)), ps)
    <3> HIDE DEF Known
    <3>0. u # 0 BY <2>5
    <3>1. Applied(State(0, v, kept, ps), Decode(UserState(u, set))) =
          State(0, v, Put(kept, u, Overlay(Entry(kept, u), set)), ps)
      BY <3>0, AppliedUser
    <3>2. h[i] = State(0, v, kept, ps) BY <2>2, <2>6
    <3> QED BY <2>5, <3>1, <3>2
  <2>8. Overlay(NewUser, set) = users[u] BY <2>3, <2>4, Announced
  <2>9. Overlay(users[u], set) = users[u] BY <2>4 DEF Overlay, Has
  <2>10. u \in DOMAIN kept => kept[u] = users[u] BY <2>6
  <2>11. Overlay(Entry(kept, u), set) = users[u]
    BY <2>8, <2>9, <2>10 DEF Entry
  <2>12. Before(us, i + 1) = Before(us, i) \cup {u}
    <3>1. Before(us, i + 1) = Before(us, i) \cup {us[i]} BY <1>0, <2>1
    <3> QED BY <2>3, <3>1
  <2>13. Known(i + 1) = Put(kept, u, users[u]) BY <2>6, <2>12 DEF Put
  <2> HIDE DEF Known
  <2> QED BY <2>2, <2>7, <2>11, <2>13
<1>8. Leads(State(0, v, << >>, ps), q, State(0, v, users, ps))
  BY <1>5, <1>6, <1>7 DEF Leads
<1> QED BY <1>1, <1>2, <1>8

-----------------------------------------------------------------------------
\* The commands.
Commanded(output) ==
    \/ output.tcp = << >>
    \/ \E m : output.tcp = <<m>> /\ CommandMessage(m)

\* A command of one message.
LEMMA TcpCommanded == ASSUME NEW m, CommandMessage(m) PROVE Commanded(Tcp(m))
BY DEF Commanded, Tcp

\* The commands that send a UserState.
LEMMA UserStateCommanded == ASSUME NEW u, NEW set PROVE Commanded(Tcp(UserState(u, set)))
<1>1. CommandMessage(UserState(u, set)) BY DEF CommandMessage, UserState, Has
<1> QED BY <1>1, TcpCommanded

\* The commands with a message of another kind, or none.
LEMMA OtherCommanded ==
    ASSUME NEW c, NEW u, u # Me, NEW to
    PROVE  /\ Commanded(KickUser(u)) /\ Commanded(BanUser(u)) /\ Commanded(SetChannelState(c))
           /\ Commanded(DeleteChannel(c)) /\ Commanded(PermissionQuery(c))
           /\ Commanded(SendTypingIndicator(c)) /\ Commanded(SendPchatSenderKeyDistribution(c))
           /\ Commanded(SendWebRtcSignal(to)) /\ Commanded(SendPluginData(to))
           /\ Commanded(SendWatchSync) /\ Commanded(Authenticate)
           /\ Commanded(SendAudioCommand) /\ Commanded(Disconnect)
<1>1. /\ CommandMessage([type |-> "UserRemove", session |-> u, ban |-> FALSE])
      /\ CommandMessage([type |-> "UserRemove", session |-> u, ban |-> TRUE])
      /\ CommandMessage([type |-> "ChannelState", channel |-> c])
      /\ CommandMessage([type |-> "ChannelRemove", channel |-> c])
      /\ CommandMessage([type |-> "PermissionQuery", channel |-> c])
  BY DEF CommandMessage, Has
<1>2. /\ CommandMessage([type |-> "FancyTypingIndicator", channel |-> c])
      /\ CommandMessage([type |-> "PchatSenderKeyDistribution", channel |-> c])
      /\ CommandMessage([type |-> "WebRtcSignal", target |-> to])
      /\ CommandMessage([type |-> "PluginDataTransmission", receivers |-> to])
      /\ CommandMessage([type |-> "FancyWatchSync"])
      /\ CommandMessage([type |-> "Authenticate"])
  BY DEF CommandMessage, Has
<1>3. Commanded(SendAudioCommand) /\ Commanded(Disconnect)
  BY DEF Commanded, SendAudioCommand, Disconnect
<1>4. /\ Commanded(KickUser(u)) /\ Commanded(BanUser(u)) /\ Commanded(SetChannelState(c))
      /\ Commanded(DeleteChannel(c)) /\ Commanded(PermissionQuery(c))
  BY <1>1, TcpCommanded DEF KickUser, BanUser, SetChannelState, DeleteChannel, PermissionQuery
<1>5. /\ Commanded(SendTypingIndicator(c)) /\ Commanded(SendPchatSenderKeyDistribution(c))
      /\ Commanded(SendWebRtcSignal(to)) /\ Commanded(SendPluginData(to))
      /\ Commanded(SendWatchSync) /\ Commanded(Authenticate)
  BY <1>2, TcpCommanded DEF SendTypingIndicator, SendPchatSenderKeyDistribution, SendWebRtcSignal,
     SendPluginData, SendWatchSync, Authenticate
<1> QED BY <1>3, <1>4, <1>5

\* The requests and the plain messages.
LEMMA PlainCommanded == ASSUME NEW output \in Plain PROVE Commanded(output)
<1>1. /\ \A t : t # "UserRemove" /\ t # "ChannelState" => CommandMessage([type |-> t])
      /\ CommandMessage([type |-> "UserList", changed |-> TRUE])
      /\ \A query : CommandMessage([type |-> "BanList", query |-> query])
      /\ \A query : CommandMessage([type |-> "ACL", query |-> query])
  BY DEF CommandMessage, Has
<1>2. /\ \A t : t # "UserRemove" /\ t # "ChannelState" => Commanded(Tcp([type |-> t]))
      /\ Commanded(Tcp([type |-> "UserList", changed |-> TRUE]))
      /\ \A query : Commanded(Tcp([type |-> "BanList", query |-> query]))
      /\ \A query : Commanded(Tcp([type |-> "ACL", query |-> query]))
  BY <1>1, TcpCommanded
<1>3. /\ Commanded(SendPing) /\ Commanded(RequestBlob) /\ Commanded(RequestUserStats)
      /\ Commanded(RequestUserList) /\ Commanded(UpdateUserList) /\ Commanded(RequestBanList)
      /\ Commanded(SendBanList) /\ Commanded(RequestAcl) /\ Commanded(SendAcl)
      /\ Commanded(SetVoiceTarget) /\ Commanded(SendTextMessage) /\ Commanded(RequestLinkPreview)
      /\ Commanded(SendPchatMessage) /\ Commanded(SendPchatFetch) /\ Commanded(SendPchatKeyAnnounce)
  BY <1>2 DEF SendPing, RequestBlob, RequestUserStats, RequestUserList, UpdateUserList,
     RequestBanList, SendBanList, RequestAcl, SendAcl, SetVoiceTarget, SendTextMessage,
     RequestLinkPreview, SendPchatMessage, SendPchatFetch, SendPchatKeyAnnounce
<1>4. /\ Commanded(SendPchatKeyExchange) /\ Commanded(SendPchatAck)
      /\ Commanded(SendPchatEpochCountersig) /\ Commanded(SendPchatKeyHolderReport)
      /\ Commanded(SendPchatKeyHoldersQuery) /\ Commanded(SendPchatKeyChallengeResponse)
      /\ Commanded(SendPchatDeleteMessages) /\ Commanded(SendFancyPushRegister)
      /\ Commanded(SendFancyPushUpdate) /\ Commanded(SendFancySubscribePush)
      /\ Commanded(SendPchatReaction) /\ Commanded(SendPchatPin) /\ Commanded(SendReadReceipt)
      /\ Commanded(SendDrawStroke)
  BY <1>2 DEF SendPchatKeyExchange, SendPchatAck, SendPchatEpochCountersig,
     SendPchatKeyHolderReport, SendPchatKeyHoldersQuery, SendPchatKeyChallengeResponse,
     SendPchatDeleteMessages, SendFancyPushRegister, SendFancyPushUpdate, SendFancySubscribePush,
     SendPchatReaction, SendPchatPin, SendReadReceipt, SendDrawStroke
<1> QED BY <1>3, <1>4 DEF Plain

\* What passes the codec.

\* The types that have receivers among the users.
LEMMA Receivers ==
    ASSUME NEW m, NEW s, extract_receiver_sessions(m, s) # {}
    PROVE  m.type \in {"WebRtcSignal", "FancyTypingIndicator", "FancyWatchSync", "PchatSenderKeyDistribution"}
BY Zenon DEF extract_receiver_sessions

Envelope(m, s) ==
    [type |-> "PluginDataTransmission", receivers |-> extract_receiver_sessions(m, s), wrapped |-> m]

\* A codec drops a message, passes it on or wraps it for its receivers.
LEMMA Encoded ==
    ASSUME NEW k, NEW m, NEW s
    PROVE  \/ Encode(k, m, s) = {} \/ Encode(k, m, s) = {m}
           \/ extract_receiver_sessions(m, s) # {} /\ Encode(k, m, s) = {Envelope(m, s)}
<1>1. \/ LegacyEncode(m, s) = {} \/ LegacyEncode(m, s) = {m}
      \/ extract_receiver_sessions(m, s) # {} /\ LegacyEncode(m, s) = {Envelope(m, s)}
  BY Zenon DEF LegacyEncode, Envelope
<1>2. NativeEncode(k, m, s) \in {{}, {m}, LegacyEncode(m, s)} BY Zenon DEF NativeEncode
<1>3. Encode(k, m, s) \in {NativeEncode(k, m, s), LegacyEncode(m, s)} BY Zenon DEF Encode
<1> QED BY <1>1, <1>2, <1>3

\* Where the view is the server's, the receivers are the users meant.
LEMMA RightReceivers ==
    ASSUME NEW m, NEW v, NEW ps, Me \in DOMAIN srv.users,
           extract_receiver_sessions(m, State(Me, v, srv.users, ps)) # {}
    PROVE  extract_receiver_sessions(m, State(Me, v, srv.users, ps)) = Wanted(m)
<1>1. PICK s : s = State(Me, v, srv.users, ps) OBVIOUS
<1>2. s.session = Me /\ s.users = srv.users BY <1>1 DEF State
<1>3. channel_members_except_self(s) = Members(srv.users[Me].chan)
  BY <1>2 DEF channel_members_except_self, Members
<1>4. m.type \in {"WebRtcSignal", "FancyTypingIndicator", "FancyWatchSync", "PchatSenderKeyDistribution"}
  BY Receivers
<1>5. CASE m.type = "WebRtcSignal" /\ m.target # 0
  <2>1. extract_receiver_sessions(m, s) = {m.target} BY <1>5, Zenon DEF extract_receiver_sessions
  <2>2. Wanted(m) = {m.target} BY <1>5, Zenon DEF Wanted
  <2> QED BY <1>1, <2>1, <2>2
<1>6. CASE m.type = "WebRtcSignal" /\ m.target = 0
  <2>1. extract_receiver_sessions(m, s) = channel_members_except_self(s)
    BY <1>6, Zenon DEF extract_receiver_sessions
  <2>2. Wanted(m) = Members(srv.users[Me].chan) BY <1>6, Zenon DEF Wanted
  <2> QED BY <1>1, <1>3, <2>1, <2>2
<1>7. CASE m.type \in {"FancyTypingIndicator", "FancyWatchSync"}
  <2>0. m.type # "WebRtcSignal" /\ m.type # "PchatSenderKeyDistribution" BY <1>7
  <2>1. extract_receiver_sessions(m, s) = channel_members_except_self(s)
    BY <1>7, <2>0, Zenon DEF extract_receiver_sessions
  <2>2. Wanted(m) = Members(srv.users[Me].chan) BY <2>0, Zenon DEF Wanted
  <2> QED BY <1>1, <1>3, <2>1, <2>2
<1>8. CASE m.type = "PchatSenderKeyDistribution"
  <2>0. m.type # "WebRtcSignal" /\ m.type \notin {"FancyTypingIndicator", "FancyWatchSync"} BY <1>8
  <2>1. extract_receiver_sessions(m, s) = {u \in DOMAIN s.users \ {s.session} : s.users[u].chan = m.channel}
    BY <1>8, <2>0, Zenon DEF extract_receiver_sessions
  <2>2. Wanted(m) = Members(m.channel) BY <1>8, Zenon DEF Wanted
  <2> QED BY <1>1, <1>2, <2>1, <2>2 DEF Members
<1> QED BY <1>4, <1>5, <1>6, <1>7, <1>8

-----------------------------------------------------------------------------
\* A message reports a change of the server: whoever sees the server before it
\* sees the server after it once it has handled the message.
Reports(m, users, perms, users2, perms2) ==
    \A v, ps : Cached(ps, perms) =>
        \E qs : /\ Cached(qs, perms2)
                /\ Applied(State(Me, v, users, ps), Decode(m)) = State(Me, v, users2, qs)

\* A user who is there and changes.
LEMMA ReportsUser ==
    ASSUME NEW users, NEW perms, Shape(users, perms), NEW u \in DOMAIN users, NEW set
    PROVE  LET after == [users EXCEPT ![u] = Overlay(@, set)]
           IN /\ Reports(UserState(u, set), users, perms, after, perms)
              /\ Shape(after, perms) /\ DOMAIN after = DOMAIN users
<1>1. PICK after : after = [users EXCEPT ![u] = Overlay(users[u], set)] OBVIOUS
<1>2. DOMAIN after = DOMAIN users BY <1>1
<1>3. Put(users, u, Overlay(users[u], set)) = after BY <1>1 DEF Put, Shape, Total
<1>4. u # 0 BY DEF Shape
<1>5. \A v, ps : Applied(State(Me, v, users, ps), Decode(UserState(u, set))) = State(Me, v, after, ps)
  <2>1. users[u] = Entry(users, u) BY DEF Entry
  <2> QED BY <1>3, <1>4, <2>1, AppliedUser
<1>6. Reports(UserState(u, set), users, perms, after, perms) BY <1>5 DEF Reports
<1>7. Shape(after, perms)
  <2>1. \A x \in DOMAIN after : after[x] = [f \in Fields |-> after[x][f]]
    <3> SUFFICES ASSUME NEW x \in DOMAIN after PROVE after[x] = [f \in Fields |-> after[x][f]] OBVIOUS
    <3>1. CASE x = u
      <4>1. after[x] = Overlay(users[u], set) BY <1>1, <3>1
      <4> QED BY <4>1 DEF Overlay
    <3>2. CASE x # u
      <4>1. after[x] = users[x] BY <1>1, <3>2
      <4> QED BY <1>2, <4>1 DEF Shape
    <3> QED BY <3>1, <3>2
  <2>2. Total(after) BY <1>1 DEF Total
  <2> QED BY <1>2, <2>1, <2>2 DEF Shape
<1> QED BY <1>1, <1>2, <1>6, <1>7

\* The users with one more.
LEMMA ShapeArrival ==
    ASSUME NEW users, NEW perms, Shape(users, perms), NEW u, u # 0,
           NEW user, user = [f \in Fields |-> user[f]]
    PROVE  Shape(Put(users, u, user), perms) /\ DOMAIN Put(users, u, user) = DOMAIN users \cup {u}
<1>1. PICK after : after = Put(users, u, user) OBVIOUS
<1>2. DOMAIN after = DOMAIN users \cup {u} BY <1>1 DEF Put
<1>3. Total(after) BY <1>1 DEF Put, Total
<1>4. IsFiniteSet(DOMAIN users \cup {u}) BY FS_AddElement DEF Shape
<1>5. ASSUME NEW x \in DOMAIN after PROVE after[x] = user \/ (x \in DOMAIN users /\ after[x] = users[x])
  <2>1. after[x] = IF x = u THEN user ELSE users[x] BY <1>1, <1>5 DEF Put
  <2>2. x = u \/ x \in DOMAIN users BY <1>2, <1>5
  <2> QED BY <2>1, <2>2
<1>6. \A x \in DOMAIN after : after[x] = [f \in Fields |-> after[x][f]]
  <2> SUFFICES ASSUME NEW x \in DOMAIN after PROVE after[x] = [f \in Fields |-> after[x][f]] OBVIOUS
  <2>1. CASE after[x] = user BY <2>1
  <2>2. CASE x \in DOMAIN users /\ after[x] = users[x] BY <2>2 DEF Shape
  <2> QED BY <1>5, <2>1, <2>2
<1> QED BY <1>1, <1>2, <1>3, <1>4, <1>6 DEF Shape

\* A user who comes.
LEMMA ReportsArrival ==
    ASSUME NEW users, NEW perms, Shape(users, perms), NEW u, u # 0, u \notin DOMAIN users,
           NEW user, user = [f \in Fields |-> user[f]]
    PROVE  Reports(Announce(u, user), users, perms, Put(users, u, user), perms)
<1>0. u # 0 OBVIOUS
<1>1. PICK set : set = [f \in {g \in Fields : user[g] # NewUser[g]} |-> user[f]] OBVIOUS
<1>2. Announce(u, user) = UserState(u, set) BY <1>1 DEF Announce
<1>3. Overlay(NewUser, set) = user BY <1>1, Announced
<1>4. ASSUME NEW v, NEW ps
      PROVE  Applied(State(Me, v, users, ps), Decode(UserState(u, set))) =
             State(Me, v, Put(users, u, user), ps)
  <2>2. Applied(State(Me, v, users, ps), Decode(UserState(u, set))) =
        State(Me, v, Put(users, u, Overlay(Entry(users, u), set)), ps)
    BY <1>0, AppliedUser
  <2>3. Entry(users, u) = NewUser BY DEF Entry
  <2> QED BY <1>3, <2>2, <2>3
<1> QED BY <1>2, <1>4 DEF Reports

\* A user who goes.
LEMMA ReportsLeaving ==
    ASSUME NEW users, NEW perms, Shape(users, perms), NEW m, m.type = "UserRemove"
    PROVE  LET after == Restrict(users, DOMAIN users \ {m.session})
           IN /\ Reports(m, users, perms, after, perms)
              /\ Shape(after, perms) /\ DOMAIN after = DOMAIN users \ {m.session}
<1>1. PICK after : after = Restrict(users, DOMAIN users \ {m.session}) OBVIOUS
<1>2. DOMAIN after = DOMAIN users \ {m.session} /\ Total(after)
      /\ \A x \in DOMAIN after : after[x] = users[x]
  BY <1>1 DEF Restrict, Total
<1>3. IsFiniteSet(DOMAIN users \ {m.session}) BY FS_RemoveElement DEF Shape
<1>4. \A x \in DOMAIN after : after[x] = [f \in Fields |-> after[x][f]] BY <1>2 DEF Shape
<1>5. Shape(after, perms) BY <1>2, <1>3, <1>4 DEF Shape
<1>6. \A v, ps : Applied(State(Me, v, users, ps), Decode(m)) = State(Me, v, after, ps)
  BY <1>1, AppliedUserRemove
<1>7. Reports(m, users, perms, after, perms) BY <1>6 DEF Reports
<1> QED BY <1>1, <1>2, <1>5, <1>7

\* A channel made, or described again.
LEMMA ReportsChannel ==
    ASSUME NEW users, NEW perms, Shape(users, perms), NEW m, m.type = "ChannelState", Has(m, "channel")
    PROVE  LET after == IF m.channel \in DOMAIN perms THEN perms ELSE Put(perms, m.channel, "granted")
           IN Reports(m, users, perms, users, after) /\ Shape(users, after)
<1>1. PICK after : after = IF m.channel \in DOMAIN perms THEN perms ELSE Put(perms, m.channel, "granted")
  OBVIOUS
<1>2. Shape(users, after)
  <2>1. DOMAIN after = DOMAIN perms \cup {m.channel} BY <1>1 DEF Put
  <2>2. Total(after) BY <1>1 DEF Put, Total, Shape
  <2>3. IsFiniteSet(DOMAIN perms \cup {m.channel}) BY FS_AddElement DEF Shape
  <2> QED BY <2>1, <2>2, <2>3 DEF Shape
<1>3. ASSUME NEW v, NEW ps, Cached(ps, perms)
      PROVE  \E qs : /\ Cached(qs, after)
                     /\ Applied(State(Me, v, users, ps), Decode(m)) = State(Me, v, users, qs)
  <2>1. PICK qs : qs = IF m.channel \in DOMAIN ps THEN ps ELSE Put(ps, m.channel, NoPerms) OBVIOUS
  <2>2. Applied(State(Me, v, users, ps), Decode(m)) = State(Me, v, users, qs)
    BY <2>1, AppliedChannelState
  <2>3. CASE m.channel \in DOMAIN perms BY <1>1, <1>3, <2>1, <2>2, <2>3 DEF Cached
  <2>4. CASE m.channel \notin DOMAIN perms
    <3>1. qs = Put(ps, m.channel, NoPerms) /\ after = Put(perms, m.channel, "granted")
      BY <1>1, <1>3, <2>1, <2>4 DEF Cached
    <3>2. Cached(qs, after) BY <1>3, <3>1 DEF Cached, Total, Put
    <3> QED BY <2>2, <3>2
  <2> QED BY <2>3, <2>4
<1>4. Reports(m, users, perms, users, after) BY <1>3 DEF Reports
<1> QED BY <1>1, <1>2, <1>4

\* A channel deleted.
LEMMA ReportsDeletion ==
    ASSUME NEW users, NEW perms, Shape(users, perms), NEW m, m.type = "ChannelRemove"
    PROVE  LET after == Restrict(perms, DOMAIN perms \ {m.channel})
           IN Reports(m, users, perms, users, after) /\ Shape(users, after)
<1>1. PICK after : after = Restrict(perms, DOMAIN perms \ {m.channel}) OBVIOUS
<1>2. Shape(users, after)
  <2>1. DOMAIN after = DOMAIN perms \ {m.channel} /\ Total(after) BY <1>1 DEF Restrict, Total
  <2>2. IsFiniteSet(DOMAIN perms \ {m.channel}) BY FS_RemoveElement DEF Shape
  <2> QED BY <2>1, <2>2 DEF Shape
<1>3. ASSUME NEW v, NEW ps, Cached(ps, perms)
      PROVE  \E qs : /\ Cached(qs, after)
                     /\ Applied(State(Me, v, users, ps), Decode(m)) = State(Me, v, users, qs)
  <2>1. PICK qs : qs = Restrict(ps, DOMAIN ps \ {m.channel}) OBVIOUS
  <2>2. Applied(State(Me, v, users, ps), Decode(m)) = State(Me, v, users, qs)
    BY <2>1, AppliedChannelRemove
  <2>3. Cached(qs, after) BY <1>1, <1>3, <2>1 DEF Cached, Total, Restrict
  <2> QED BY <2>2, <2>3
<1>4. Reports(m, users, perms, users, after) BY <1>3 DEF Reports
<1> QED BY <1>1, <1>2, <1>4

\* An answer to a permission query.
LEMMA ReportsAnswer ==
    ASSUME NEW users, NEW perms, NEW c, c \in DOMAIN perms
    PROVE  Reports(PermissionAnswer(FALSE, c, perms[c]), users, perms, users, perms)
<1>3. ASSUME NEW v, NEW ps, Cached(ps, perms)
      PROVE  \E qs : /\ Cached(qs, perms)
                     /\ Applied(State(Me, v, users, ps), Decode(PermissionAnswer(FALSE, c, perms[c])))
                        = State(Me, v, users, qs)
  <2>1. PICK qs : qs = Answered(ps, c, perms[c]) OBVIOUS
  <2>2. Applied(State(Me, v, users, ps), Decode(PermissionAnswer(FALSE, c, perms[c])))
        = State(Me, v, users, qs)
    <3>1. PICK m : m = PermissionAnswer(FALSE, c, perms[c]) OBVIOUS
    <3>2. /\ m.type = "PermissionQuery" /\ ~m.flush /\ Has(m, "channel") /\ m.channel = c
          /\ m.permissions = perms[c]
      BY <3>1 DEF PermissionAnswer, Has
    <3>3. Applied(State(Me, v, users, ps), Decode(m)) =
          State(Me, v, users, Answered(ps, m.channel, m.permissions))
      BY <3>2, AppliedAnswer
    <3> QED BY <2>1, <3>1, <3>2, <3>3
  <2>3. Cached(qs, perms) BY <1>3, <2>1 DEF Cached, Total, Answered
  <2> QED BY <2>2, <2>3
<1> QED BY <1>3 DEF Reports

\* Rights that change: the flush leaves nothing stale in the cache.
LEMMA ReportsRights ==
    ASSUME NEW users, NEW perms, Shape(users, perms), NEW c, c \in DOMAIN perms, NEW verdict
    PROVE  LET after == [perms EXCEPT ![c] = verdict]
           IN /\ Reports(PermissionAnswer(TRUE, 0, after[0]), users, perms, users, after)
              /\ Shape(users, after)
<1>1. PICK after : after = [perms EXCEPT ![c] = verdict] OBVIOUS
<1>2. DOMAIN after = DOMAIN perms /\ Total(after) BY <1>1 DEF Total
<1>3. ASSUME NEW v, NEW ps, Cached(ps, perms)
      PROVE  \E qs : /\ Cached(qs, after)
                     /\ Applied(State(Me, v, users, ps), Decode(PermissionAnswer(TRUE, 0, after[0])))
                        = State(Me, v, users, qs)
  <2>1. PICK qs : qs = Answered(Flushed(ps), 0, after[0]) OBVIOUS
  <2>2. Applied(State(Me, v, users, ps), Decode(PermissionAnswer(TRUE, 0, after[0])))
        = State(Me, v, users, qs)
    <3>1. PICK m : m = PermissionAnswer(TRUE, 0, after[0]) OBVIOUS
    <3>2. /\ m.type = "PermissionQuery" /\ m.flush /\ Has(m, "channel") /\ m.channel = 0
          /\ m.permissions = after[0]
      BY <3>1 DEF PermissionAnswer, Has
    <3>3. Applied(State(Me, v, users, ps), Decode(m)) =
          State(Me, v, users, Answered(Flushed(ps), m.channel, m.permissions))
      BY <3>2, AppliedFlush
    <3> QED BY <2>1, <3>1, <3>2, <3>3
  <2>3. Cached(qs, after) BY <1>2, <1>3, <2>1 DEF Cached, Total, Answered, Flushed
  <2> QED BY <2>2, <2>3
<1>4. Reports(PermissionAnswer(TRUE, 0, after[0]), users, perms, users, after) BY <1>3 DEF Reports
<1>5. Shape(users, after) BY <1>2 DEF Shape
<1> QED BY <1>1, <1>4, <1>5

\* A message of another kind reports no change.
LEMMA ReportsNothing ==
    ASSUME NEW users, NEW perms, NEW m, Decode(m).type \notin StateTypes
    PROVE  Reports(m, users, perms, users, perms)
<1>1. \A s : Applied(s, Decode(m)) = s BY AppliedOther
<1> QED BY <1>1 DEF Reports

-----------------------------------------------------------------------------
\* What the server does with a request.

\* The arms of Changed, one by one.
LEMMA ChangedIs ==
    ASSUME NEW m
    PROVE  \/ \E u \in DOMAIN srv.users :
                Changed(m) = [state |-> [srv EXCEPT !.users[u] = Overlay(@, m.set)],
                              told |-> <<UserState(u, m.set)>>]
           \/ /\ m.type = "UserRemove"
              /\ Changed(m) = [state |-> [srv EXCEPT !.users = Restrict(@, DOMAIN @ \ {m.session})],
                               told |-> <<m>>]
           \/ /\ m.type = "ChannelState"
              /\ Changed(m) = [state |-> IF m.channel \in DOMAIN srv.perms THEN srv
                                         ELSE [srv EXCEPT !.perms = Put(@, m.channel, "granted")],
                               told |-> <<m>>]
           \/ /\ m.type = "ChannelRemove"
              /\ Changed(m) = [state |-> [srv EXCEPT !.perms = Restrict(@, DOMAIN @ \ {m.channel})],
                               told |-> <<m>>]
           \/ /\ m.channel \in DOMAIN srv.perms
              /\ Changed(m) = [state |-> srv,
                               told |-> <<PermissionAnswer(FALSE, m.channel, srv.perms[m.channel])>>]
           \/ /\ m.type = "PluginDataTransmission"
              /\ Changed(m) = [state |-> srv, told |-> <<Put(m, "sender", Me)>>]
           \/ Changed(m) = [state |-> srv, told |-> << >>]
BY Zenon DEF Changed

\* Plugin data that comes back to us is no state message, wrapped or not.
LEMMA Echoed ==
    ASSUME NEW m, Request(m), m.type = "PluginDataTransmission"
    PROVE  Decode(Put(m, "sender", Me)).type \notin StateTypes
<1>1. PICK x : x = Put(m, "sender", Me) OBVIOUS
<1>2. x.type = "PluginDataTransmission" /\ (Has(x, "wrapped") => Has(m, "wrapped") /\ x.wrapped = m.wrapped)
  BY <1>1 DEF Put, Has, Request
<1>3. CASE ~Has(x, "wrapped")
  <2>1. Decode(x) = x BY <1>3 DEF Decode
  <2> QED BY <1>1, <1>2, <2>1 DEF StateTypes
<1>4. CASE Has(x, "wrapped")
  <2>1. Decode(x) = patch_sender_session(m.wrapped, x.sender) BY <1>2, <1>4 DEF Decode
  <2>2. Has(m.wrapped, "type") /\ m.wrapped.type \notin StateTypes BY <1>2, <1>4 DEF Request
  <2>3. \A s : Put(m.wrapped, "from", s).type = m.wrapped.type BY <2>2 DEF Put, Has
  <2>4. patch_sender_session(m.wrapped, x.sender).type = m.wrapped.type
    BY <2>3 DEF patch_sender_session
  <2> QED BY <1>1, <2>1, <2>2, <2>4
<1> QED BY <1>3, <1>4

\* The server's change, and what it tells of it.

\* A change that is told keeps the client on the way to the server's state.
LEMMA Tells ==
    ASSUME IsSequence(toMe), Followed, Me \in DOMAIN srv.users, Me \in DOMAIN srv'.users, NEW m,
           Reports(m, srv.users, srv.perms, srv'.users, srv'.perms), Tell(<<m>>), st' = st
    PROVE  IsSequence(toMe') /\ Followed'
<1>1. PICK v, ps : Cached(ps, srv.perms) /\ Leads(st, toMe, State(Me, v, srv.users, ps))
  BY DEF Followed
<1>2. PICK qs : /\ Cached(qs, srv'.perms)
                /\ Applied(State(Me, v, srv.users, ps), Decode(m)) = State(Me, v, srv'.users, qs)
  BY <1>1 DEF Reports
<1>3. toMe' = toMe \o <<m>> BY DEF Tell
<1>4. IsSequence(toMe \o <<m>>) /\ Leads(st, toMe \o <<m>>, State(Me, v, srv'.users, qs))
  BY <1>1, <1>2, LeadsTold
<1>5. Leads(st', toMe', State(Me, v, srv'.users, qs)) BY <1>3, <1>4
<1>6. \E w, rs : Cached(rs, srv'.perms) /\ Leads(st', toMe', State(Me, w, srv'.users, rs)) BY <1>2, <1>5
<1> QED BY <1>3, <1>4, <1>6 DEF Followed

\* So does a change before the login, which is not told.
LEMMA Untold ==
    ASSUME Followed, Me \in DOMAIN srv'.users <=> Me \in DOMAIN srv.users, st' = st, toMe' = toMe,
           Me \in DOMAIN srv.users => UNCHANGED srv
    PROVE  Followed'
<1>1. CASE Me \in DOMAIN srv.users BY <1>1 DEF Followed
<1>2. CASE Me \notin DOMAIN srv.users BY <1>2 DEF Followed
<1> QED BY <1>1, <1>2

\* The server, external: what changes its users and permissions.

\* The server's record with its users, or its permissions, replaced.
LEMMA Whole ==
    ASSUME ServerShape
    PROVE  /\ \A us : [srv EXCEPT !.users = us] = [version |-> srv.version, perms |-> srv.perms, users |-> us]
           /\ \A ps : [srv EXCEPT !.perms = ps] = [version |-> srv.version, perms |-> ps, users |-> srv.users]
<1>1. PICK a, b, c : srv = [version |-> a, perms |-> b, users |-> c] BY DEF ServerShape
<1>2. srv.version = a /\ srv.perms = b /\ srv.users = c BY <1>1
<1>3. /\ \A us : [srv EXCEPT !.users = us] = [version |-> a, perms |-> b, users |-> us]
      /\ \A ps : [srv EXCEPT !.perms = ps] = [version |-> a, perms |-> ps, users |-> c]
  BY <1>1
<1> QED BY <1>2, <1>3

\* The server after a change of its users.
LEMMA UsersChange ==
    ASSUME ServerShape, NEW us, Shape(us, srv.perms), srv' = [srv EXCEPT !.users = us]
    PROVE  ServerShape' /\ srv'.users = us /\ srv'.perms = srv.perms
<1>1. srv' = [version |-> srv.version, perms |-> srv.perms, users |-> us] BY Whole
<1>2. srv'.users = us /\ srv'.perms = srv.perms /\ srv'.version = srv.version BY <1>1
<1> QED BY <1>1, <1>2 DEF ServerShape

\* The server after a change of its permissions.
LEMMA PermsChange ==
    ASSUME ServerShape, NEW ps, Shape(srv.users, ps), srv' = [srv EXCEPT !.perms = ps]
    PROVE  ServerShape' /\ srv'.users = srv.users /\ srv'.perms = ps
<1>1. srv' = [version |-> srv.version, perms |-> ps, users |-> srv.users] BY Whole
<1>2. srv'.users = srv.users /\ srv'.perms = ps /\ srv'.version = srv.version BY <1>1
<1> QED BY <1>1, <1>2 DEF ServerShape

-----------------------------------------------------------------------------
\* The steps.

\* Handling a message moves the client along its way, which stays the same.
LEMMA HandledFollows ==
    ASSUME RelayInv, HandleServerMessage PROVE RelayInv'
<1>1. PICK T : toMe \in Seq(T) BY DEF RelayInv, IsSequence
<1>2. toMe # << >> /\ toMe' = Tail(toMe) /\ st' = Applied(st, Decode(Head(toMe)))
      /\ UNCHANGED <<toServer, srv, sent>>
  BY DEF HandleServerMessage
<1>3. IsSequence(toMe')
  <2>1. Tail(toMe) \in Seq(T) BY <1>1, <1>2
  <2> QED BY <1>2, <2>1 DEF IsSequence
<1>4. \A t : Leads(st, toMe, t) => Leads(st', toMe', t) BY <1>1, <1>2, LeadsFirst
<1>5. Followed'
  <2>1. CASE Me \in DOMAIN srv.users
    <3>1. PICK v, ps : Cached(ps, srv.perms) /\ Leads(st, toMe, State(Me, v, srv.users, ps))
      BY <2>1 DEF RelayInv, Followed
    <3> QED BY <1>2, <1>4, <2>1, <3>1 DEF Followed
  <2>2. CASE Me \notin DOMAIN srv.users
    <3>1. PICK v : Leads(st, toMe, State(0, v, << >>, << >>)) BY <2>2 DEF RelayInv, Followed
    <3> QED BY <1>2, <1>4, <2>2, <3>1 DEF Followed
  <2> QED BY <2>1, <2>2
<1>6. AudienceIsChannel' BY <1>2 DEF RelayInv, AudienceIsChannel
<1> QED BY <1>2, <1>3, <1>5, <1>6 DEF RelayInv, ServerShape

\* A command: what it queues is a request, an envelope goes to the right users.
LEMMA CommandFollows ==
    ASSUME RelayInv, NEW output, Commanded(output), HandleUserCommand(output) PROVE RelayInv'
<1> DEFINE out == IF output.tcp = << >> THEN {} ELSE Encode(codec, Head(output.tcp), st)
<1>1. /\ \/ toServer' = IF out = {} THEN toServer ELSE Append(toServer, CHOOSE m \in out : TRUE)
         \/ toServer' = Append(toServer, [type |-> "UDPTunnel"])
      /\ sent' = IF \E m \in out : Wrapped(m)
                   THEN LET m == CHOOSE x \in out : TRUE
                        IN [to |-> m.receivers, wanted |-> Wanted(m.wrapped),
                            current |-> toMe = << >> /\ st.session # 0]
                   ELSE sent
      /\ UNCHANGED <<st, toMe, srv>>
  BY DEF HandleUserCommand
<1>2. Asked(Append(toServer, [type |-> "UDPTunnel"]))
  <2>1. Request([type |-> "UDPTunnel"]) BY DEF Request, Has
  <2> QED BY <2>1, AskedOne DEF RelayInv
<1>3. Followed' /\ IsSequence(toMe') /\ ServerShape' BY <1>1 DEF RelayInv, Followed, ServerShape
<1>4. CASE out = {}
  <2>1. Asked(toServer') BY <1>1, <1>2, <1>4 DEF RelayInv
  <2>2. sent' = sent BY <1>1, <1>4
  <2> QED BY <1>3, <2>1, <2>2 DEF RelayInv, AudienceIsChannel
<1>5. CASE out # {}
  <2>1. PICK m : output.tcp = <<m>> /\ CommandMessage(m) BY <1>5 DEF Commanded
  <2>2. out = Encode(codec, m, st) BY <2>1
  <2>3. CASE out = {m}
    <3>1. (CHOOSE x \in out : TRUE) = m BY <2>3
    <3>2. Request(m) BY <2>1 DEF CommandMessage, Request
    <3>3. Asked(Append(toServer, m)) BY <3>2, AskedOne DEF RelayInv
    <3>4. Asked(toServer') BY <1>1, <1>2, <1>5, <3>1, <3>3
    <3>5. ~ \E x \in out : Wrapped(x) BY <2>1, <2>3 DEF CommandMessage, Wrapped
    <3>6. sent' = sent BY <1>1, <3>5
    <3> QED BY <1>3, <3>4, <3>6 DEF RelayInv, AudienceIsChannel
  <2>4. CASE extract_receiver_sessions(m, st) # {} /\ out = {Envelope(m, st)}
    <3>1. PICK e : e = Envelope(m, st) OBVIOUS
    <3>2. (CHOOSE x \in out : TRUE) = e BY <2>4, <3>1
    <3>3. /\ e.type = "PluginDataTransmission" /\ Has(e, "wrapped") /\ Has(e, "type") /\ e.wrapped = m
          /\ e.receivers = extract_receiver_sessions(m, st)
      BY <3>1 DEF Envelope, Has
    <3>4. Request(e)
      <4>1. m.type \notin StateTypes BY <2>4, Receivers DEF StateTypes
      <4> QED BY <2>1, <3>3, <4>1 DEF Request, CommandMessage
    <3>5. Asked(Append(toServer, e)) BY <3>4, AskedOne DEF RelayInv
    <3>6. Asked(toServer') BY <1>1, <1>2, <1>5, <3>2, <3>5
    <3>7. AudienceIsChannel'
      <4>1. \E x \in out : Wrapped(x) BY <2>4, <3>1, <3>3 DEF Wrapped
      <4>2. sent' = [to |-> e.receivers, wanted |-> Wanted(e.wrapped),
                     current |-> toMe = << >> /\ st.session # 0]
        BY <1>1, <3>2, <4>1
      <4>3. sent'.to = extract_receiver_sessions(m, st) /\ sent'.wanted = Wanted(m) BY <3>3, <4>2
      <4>4. sent'.current => toMe = << >> /\ st.session # 0
        <5>1. (toMe = << >> /\ st.session # 0) \in BOOLEAN OBVIOUS
        <5> QED BY <4>2, <5>1
      <4>5. ASSUME toMe = << >>, st.session # 0 PROVE extract_receiver_sessions(m, st) = Wanted(m)
        <5>1. CASE Me \in DOMAIN srv.users
          <6>1. PICK v, ps : Leads(st, toMe, State(Me, v, srv.users, ps))
            BY <5>1 DEF RelayInv, Followed
          <6>2. st = State(Me, v, srv.users, ps) BY <4>5, <6>1, LeadsNowhere
          <6> QED BY <2>4, <5>1, <6>2, RightReceivers
        <5>2. CASE Me \notin DOMAIN srv.users
          <6>1. PICK v : Leads(st, toMe, State(0, v, << >>, << >>))
            BY <5>2 DEF RelayInv, Followed
          <6>2. st = State(0, v, << >>, << >>) BY <4>5, <6>1, LeadsNowhere
          <6> QED BY <4>5, <6>2 DEF State
        <5> QED BY <5>1, <5>2
      <4> QED BY <4>3, <4>4, <4>5 DEF AudienceIsChannel
    <3> QED BY <1>3, <3>6, <3>7 DEF RelayInv
  <2> QED BY <1>5, <2>2, <2>3, <2>4, Encoded
<1> QED BY <1>4, <1>5

\* All commands.
LEMMA CommandsFollow ==
    ASSUME RelayInv, UserCommands \/ ChannelCommands \/ MessageCommands \/ SessionCommands
    PROVE  RelayInv'
<1>0. SUFFICES \E output : Commanded(output) /\ HandleUserCommand(output) BY CommandFollows
<1>1. CASE UserCommands
  <2>1. PICK c \in Channels, u \in Peers, on \in BOOLEAN :
          \/ \E x, set : HandleUserCommand(Tcp(UserState(x, set)))
          \/ HandleUserCommand(KickUser(u)) \/ HandleUserCommand(BanUser(u))
    BY <1>1, Zenon DEF UserCommands, JoinChannel, MoveUser, SetUserMute, SetUserDeaf, SetSelfMute, SetSelfDeaf,
       ChannelListen, SetPrioritySpeaker, SetComment, SetTexture, ResetUserComment, RemoveUserAvatar,
       RegisterUser
  <2>2. u # Me BY RelayAssumption
  <2> QED BY <2>1, <2>2, UserStateCommanded, OtherCommanded
<1>2. CASE ChannelCommands
  <2>1. PICK c : HandleUserCommand(SetChannelState(c)) \/ HandleUserCommand(DeleteChannel(c))
                 \/ HandleUserCommand(PermissionQuery(c))
    BY <1>2 DEF ChannelCommands
  <2>2. Me # 0 BY DEF Me
  <2> QED BY <2>1, <2>2, OtherCommanded
<1>3. CASE MessageCommands
  <2>1. Me # 0 BY DEF Me
  <2>2. \/ \E c : HandleUserCommand(SendTypingIndicator(c)) \/ HandleUserCommand(SendPchatSenderKeyDistribution(c))
        \/ \E x \in Plain : HandleUserCommand(x)
        \/ \E to : HandleUserCommand(SendWebRtcSignal(to)) \/ HandleUserCommand(SendPluginData(to))
        \/ HandleUserCommand(SendWatchSync)
    BY <1>3, Zenon DEF MessageCommands
  <2> QED BY <2>1, <2>2, OtherCommanded, PlainCommanded
<1>4. CASE SessionCommands
  <2>1. Me # 0 BY DEF Me
  <2>2. HandleUserCommand(Authenticate) \/ HandleUserCommand(SendAudioCommand) \/ HandleUserCommand(Disconnect)
    BY <1>4 DEF SessionCommands
  <2> QED BY <2>1, <2>2, OtherCommanded
<1> QED BY <1>1, <1>2, <1>3, <1>4

\* Where the client is connected a change comes with its message, and where it
\* is not with none.
LEMMA ServerFollows ==
    ASSUME RelayInv, ServerKeeps, Asked(toServer'), ServerShape',
           Me \in DOMAIN srv'.users <=> Me \in DOMAIN srv.users, NEW m, Tell(<<m>>),
           Me \in DOMAIN srv.users => Reports(m, srv.users, srv.perms, srv'.users, srv'.perms)
    PROVE  RelayInv'
<1>1. AudienceIsChannel' /\ st' = st BY DEF RelayInv, ServerKeeps, AudienceIsChannel
<1>2. CASE Me \in DOMAIN srv.users
  <2>1. IsSequence(toMe') /\ Followed' BY <1>1, <1>2, Tells DEF RelayInv
  <2> QED BY <1>1, <2>1 DEF RelayInv
<1>3. CASE Me \notin DOMAIN srv.users
  <2>1. toMe' = toMe BY <1>3 DEF Tell
  <2>2. Followed' BY <1>1, <1>3, <2>1, Untold DEF RelayInv
  <2> QED BY <1>1, <2>1, <2>2 DEF RelayInv
<1> QED BY <1>2, <1>3

\* The login leads the client from nothing to all the server has.
LEMMA AuthenticationFollows == ASSUME RelayInv, ServerAuthenticates PROVE RelayInv'
<1>1. /\ toServer # << >> /\ Me \notin DOMAIN srv.users /\ toServer' = Tail(toServer)
      /\ st' = st /\ sent' = sent
  BY DEF ServerAuthenticates, ServerKeeps
<1>2. Asked(toServer') BY <1>1, AskedTail DEF RelayInv
<1>3. AudienceIsChannel' BY <1>1 DEF RelayInv, AudienceIsChannel
<1>4. PICK v : Leads(st, toMe, State(0, v, << >>, << >>)) BY <1>1 DEF RelayInv, Followed
<1>5. CASE toMe' = Append(toMe, [type |-> "Reject"]) /\ UNCHANGED srv
  <2>1. PICK m : m = [type |-> "Reject"] OBVIOUS
  <2>2. PICK T : toMe \in Seq(T) BY DEF RelayInv, IsSequence
  <2>3. toMe' = toMe \o <<m>> BY <1>5, <2>1, <2>2, AppendIsConcat
  <2>4. Decode(m) = m /\ m.type \notin StateTypes BY <2>1 DEF Decode, StateTypes
  <2>5. Applied(State(0, v, << >>, << >>), Decode(m)) = State(0, v, << >>, << >>) BY <2>4, AppliedOther
  <2>6. IsSequence(toMe \o <<m>>) /\ Leads(st, toMe \o <<m>>, State(0, v, << >>, << >>))
    BY <1>4, <2>5, LeadsTold DEF RelayInv
  <2>7. IsSequence(toMe') /\ Leads(st', toMe', State(0, v, << >>, << >>)) BY <1>1, <2>3, <2>6
  <2>8. Followed' BY <1>1, <1>5, <2>7 DEF Followed
  <2> QED BY <1>2, <1>3, <1>5, <2>7, <2>8 DEF RelayInv, ServerShape
<1>6. ASSUME srv' = [srv EXCEPT !.users = Put(@, Me, NewUser)],
             LET us == SetToSeq(DOMAIN srv'.users)
                 cs == SetToSeq(DOMAIN srv.perms)
             IN Tell([i \in DOMAIN cs |-> [type |-> "ChannelState", channel |-> cs[i]]]
                     \o [i \in DOMAIN us |-> Announce(us[i], srv'.users[us[i]])]
                     \o <<[type |-> "ServerSync", session |-> Me, permissions |-> srv.perms[0]]>>)
      PROVE  RelayInv'
  <2>1. PICK users : users = Put(srv.users, Me, NewUser) OBVIOUS
  <2>2. srv' = [srv EXCEPT !.users = users] BY <1>6, <2>1
  <2>3. NewUser = [f \in Fields |-> NewUser[f]] BY DEF NewUser
  <2>4. Me # 0 BY DEF Me
  <2>5. Shape(users, srv.perms) /\ DOMAIN users = DOMAIN srv.users \cup {Me}
    BY <2>1, <2>3, <2>4, ShapeArrival DEF RelayInv, ServerShape
  <2>6. ServerShape' /\ srv'.users = users /\ srv'.perms = srv.perms
    BY <2>2, <2>5, UsersChange DEF RelayInv
  <2>7. PICK cs : cs = SetToSeq(DOMAIN srv.perms) OBVIOUS
  <2>8. PICK us : us = SetToSeq(DOMAIN users) OBVIOUS
  <2>9. IsFiniteSet(DOMAIN srv.perms) /\ IsFiniteSet(DOMAIN users) BY <2>5 DEF Shape
  <2>10. cs \in Seq(DOMAIN srv.perms) /\ \A x \in DOMAIN srv.perms : \E i \in 1..Len(cs) : cs[i] = x
    BY <2>7, <2>9, Listed
  <2>11. us \in Seq(DOMAIN users) /\ \A x \in DOMAIN users : \E i \in 1..Len(us) : us[i] = x
    BY <2>8, <2>9, Listed
  <2>12. PICK A : A = [i \in DOMAIN cs |-> [type |-> "ChannelState", channel |-> cs[i]]] OBVIOUS
  <2>13. PICK B : B = [i \in DOMAIN us |-> Announce(us[i], users[us[i]])] OBVIOUS
  <2>14. PICK m : m = [type |-> "ServerSync", session |-> Me, permissions |-> srv.perms[0]] OBVIOUS
  <2>15. toMe' = toMe \o (A \o B \o <<m>>)
    <3>1. Me \in DOMAIN srv'.users BY <2>5, <2>6
    <3>2. us = SetToSeq(DOMAIN srv'.users) /\ B = [i \in DOMAIN us |-> Announce(us[i], srv'.users[us[i]])]
      BY <2>6, <2>8, <2>13
    <3>3. Tell([i \in DOMAIN cs |-> [type |-> "ChannelState", channel |-> cs[i]]]
               \o [i \in DOMAIN us |-> Announce(us[i], srv'.users[us[i]])]
               \o <<[type |-> "ServerSync", session |-> Me, permissions |-> srv.perms[0]]>>)
      <4>1. /\ SetToSeq(DOMAIN srv'.users) = us /\ SetToSeq(DOMAIN srv.perms) = cs BY <2>7, <3>2
      <4> QED BY ONLY <1>6, <4>1
    <3>4. /\ [i \in DOMAIN cs |-> [type |-> "ChannelState", channel |-> cs[i]]] = A
          /\ [i \in DOMAIN us |-> Announce(us[i], srv'.users[us[i]])] = B
          /\ [type |-> "ServerSync", session |-> Me, permissions |-> srv.perms[0]] = m
      BY <2>12, <2>14, <3>2
    <3>5. Tell(A \o B \o <<m>>) BY ONLY <3>3, <3>4
    <3> QED BY <3>1, <3>5 DEF Tell
  <2>16. PICK ps : ps = [c \in DOMAIN srv.perms |-> NoPerms] OBVIOUS
  <2>17. Leads(State(0, v, << >>, << >>), A, State(0, v, << >>, ps))
    BY <2>10, <2>12, <2>16, LoginChannels
  <2>18. Leads(State(0, v, << >>, ps), B, State(0, v, users, ps))
    <3>1. /\ users = [u \in DOMAIN users |-> users[u]] /\ 0 \notin DOMAIN users
          /\ \A u \in DOMAIN users : users[u] = [f \in Fields |-> users[u][f]]
      BY <2>5 DEF Shape, Total
    <3> QED BY <2>11, <2>13, <3>1, LoginUsers
  <2>19. IsSequence(A) /\ IsSequence(B)
    <3>1. A \in Seq({[type |-> "ChannelState", channel |-> cs[i]] : i \in DOMAIN cs}) BY <2>10, <2>12
    <3>2. B \in Seq({Announce(us[i], users[us[i]]) : i \in DOMAIN us}) BY <2>11, <2>13
    <3> QED BY <3>1, <3>2 DEF IsSequence
  <2>20. IsSequence(A \o B) /\ Leads(State(0, v, << >>, << >>), A \o B, State(0, v, users, ps))
    <3>1. IsSequence(A \o B) BY <2>19, SequenceOn
    <3>2. PICK T : A \in Seq(T) /\ B \in Seq(T) BY <2>19, SequenceOn
    <3> QED BY <2>17, <2>18, <3>1, <3>2, LeadsOn
  <2>21. PICK qs : qs = IF 0 \in DOMAIN ps THEN [ps EXCEPT ![0] = srv.perms[0]] ELSE ps OBVIOUS
  <2>22. Applied(State(0, v, users, ps), Decode(m)) = State(Me, v, users, qs)
    BY <2>14, <2>21, AppliedSync
  <2>23. IsSequence(A \o B \o <<m>>) /\ Leads(State(0, v, << >>, << >>), A \o B \o <<m>>, State(Me, v, users, qs))
    BY <2>20, <2>22, LeadsTold
  <2>24. IsSequence(toMe') /\ Leads(st', toMe', State(Me, v, users, qs))
    <3>1. IsSequence(toMe) BY DEF RelayInv
    <3>2. IsSequence(toMe \o (A \o B \o <<m>>)) BY <2>23, <3>1, SequenceOn
    <3>3. PICK T : toMe \in Seq(T) /\ (A \o B \o <<m>>) \in Seq(T) BY <2>23, <3>1, SequenceOn
    <3>4. Leads(st, toMe \o (A \o B \o <<m>>), State(Me, v, users, qs)) BY <1>4, <2>23, <3>3, LeadsOn
    <3> QED BY <1>1, <2>15, <3>2, <3>4
  <2>25. Cached(qs, srv'.perms) BY <2>6, <2>16, <2>21 DEF Cached, Total
  <2>26. \E w, rs : Cached(rs, srv'.perms) /\ Leads(st', toMe', State(Me, w, srv'.users, rs))
    BY <2>6, <2>24, <2>25
  <2>27. Followed' BY <2>5, <2>6, <2>26 DEF Followed
  <2> QED BY <1>2, <1>3, <2>6, <2>24, <2>27 DEF RelayInv
<1> QED BY <1>5, <1>6 DEF ServerAuthenticates

\* The server takes a request.
LEMMA RequestFollows == ASSUME RelayInv, ServerTakes PROVE RelayInv'
<1>1. PICK m : m = Head(toServer) OBVIOUS
<1>2. /\ toServer # << >> /\ Me \in DOMAIN srv.users /\ toServer' = Tail(toServer) /\ ServerKeeps
      /\ \/ srv' = Changed(m).state /\ Tell(Changed(m).told)
         \/ UNCHANGED srv /\ Tell(<<[type |-> "PermissionDenied"]>>)
  BY <1>1 DEF ServerTakes
<1>3. Asked(toServer') /\ Request(m) BY <1>1, <1>2, AskedTail DEF RelayInv
<1>4. Shape(srv.users, srv.perms) BY DEF RelayInv, ServerShape
<1>5. ASSUME NEW x, UNCHANGED srv, Tell(<<x>>), Decode(x).type \notin StateTypes PROVE RelayInv'
  <2>1. Reports(x, srv.users, srv.perms, srv.users, srv.perms) BY <1>5, ReportsNothing
  <2>2. ServerShape' BY <1>5 DEF RelayInv, ServerShape
  <2> QED BY <1>2, <1>3, <1>5, <2>1, <2>2, ServerFollows
<1>6. CASE UNCHANGED srv /\ Tell(<<[type |-> "PermissionDenied"]>>)
  <2>1. PICK x : x = [type |-> "PermissionDenied"] OBVIOUS
  <2>2. Decode(x) = x /\ x.type \notin StateTypes BY <2>1 DEF Decode, StateTypes
  <2> QED BY <1>5, <1>6, <2>1, <2>2
<1>7. ASSUME srv' = Changed(m).state, Tell(Changed(m).told) PROVE RelayInv'
  <2>1. ASSUME NEW u \in DOMAIN srv.users,
               Changed(m) = [state |-> [srv EXCEPT !.users[u] = Overlay(@, m.set)],
                             told |-> <<UserState(u, m.set)>>]
        PROVE  RelayInv'
    <3>1. PICK after : after = [srv.users EXCEPT ![u] = Overlay(srv.users[u], m.set)] OBVIOUS
    <3>2. srv' = [srv EXCEPT !.users = after] /\ Tell(<<UserState(u, m.set)>>)
      BY <1>7, <2>1, <3>1
    <3>3. /\ Reports(UserState(u, m.set), srv.users, srv.perms, after, srv.perms)
          /\ Shape(after, srv.perms) /\ DOMAIN after = DOMAIN srv.users
      BY <1>4, <3>1, ReportsUser
    <3>4. ServerShape' /\ srv'.users = after /\ srv'.perms = srv.perms
      BY <3>2, <3>3, UsersChange DEF RelayInv
    <3> QED BY <1>2, <1>3, <3>2, <3>3, <3>4, ServerFollows
  <2>2. ASSUME m.type = "UserRemove",
               Changed(m) = [state |-> [srv EXCEPT !.users = Restrict(@, DOMAIN @ \ {m.session})],
                             told |-> <<m>>]
        PROVE  RelayInv'
    <3>1. PICK after : after = Restrict(srv.users, DOMAIN srv.users \ {m.session}) OBVIOUS
    <3>2. srv' = [srv EXCEPT !.users = after] /\ Tell(<<m>>) BY <1>7, <2>2, <3>1
    <3>3. /\ Reports(m, srv.users, srv.perms, after, srv.perms)
          /\ Shape(after, srv.perms) /\ DOMAIN after = DOMAIN srv.users \ {m.session}
      BY <1>4, <2>2, <3>1, ReportsLeaving
    <3>4. ServerShape' /\ srv'.users = after /\ srv'.perms = srv.perms
      BY <3>2, <3>3, UsersChange DEF RelayInv
    <3>5. m.session # Me BY <1>3, <2>2 DEF Request
    <3> QED BY <1>2, <1>3, <3>2, <3>3, <3>4, <3>5, ServerFollows
  <2>3. ASSUME m.type = "ChannelState",
               Changed(m) = [state |-> IF m.channel \in DOMAIN srv.perms THEN srv
                                       ELSE [srv EXCEPT !.perms = Put(@, m.channel, "granted")],
                             told |-> <<m>>]
        PROVE  RelayInv'
    <3>1. PICK after : after = IF m.channel \in DOMAIN srv.perms THEN srv.perms
                               ELSE Put(srv.perms, m.channel, "granted")
      OBVIOUS
    <3>2. Reports(m, srv.users, srv.perms, srv.users, after) /\ Shape(srv.users, after)
      BY <1>3, <1>4, <2>3, <3>1, ReportsChannel DEF Request
    <3>3. Tell(<<m>>) BY <1>7, <2>3
    <3>4. ServerShape' /\ srv'.users = srv.users /\ srv'.perms = after
      <4>1. CASE m.channel \in DOMAIN srv.perms
        <5>1. srv' = srv BY <1>7, <2>3, <4>1
        <5> QED BY <3>1, <4>1, <5>1 DEF RelayInv, ServerShape
      <4>2. CASE m.channel \notin DOMAIN srv.perms
        <5>1. srv' = [srv EXCEPT !.perms = after] BY <1>7, <2>3, <3>1, <4>2
        <5> QED BY <3>2, <5>1, PermsChange DEF RelayInv
      <4> QED BY <4>1, <4>2
    <3> QED BY <1>2, <1>3, <3>2, <3>3, <3>4, ServerFollows
  <2>4. ASSUME m.type = "ChannelRemove",
               Changed(m) = [state |-> [srv EXCEPT !.perms = Restrict(@, DOMAIN @ \ {m.channel})],
                             told |-> <<m>>]
        PROVE  RelayInv'
    <3>1. PICK after : after = Restrict(srv.perms, DOMAIN srv.perms \ {m.channel}) OBVIOUS
    <3>2. Reports(m, srv.users, srv.perms, srv.users, after) /\ Shape(srv.users, after)
      BY <1>4, <2>4, <3>1, ReportsDeletion
    <3>3. srv' = [srv EXCEPT !.perms = after] /\ Tell(<<m>>) BY <1>7, <2>4, <3>1
    <3>4. ServerShape' /\ srv'.users = srv.users /\ srv'.perms = after
      BY <3>2, <3>3, PermsChange DEF RelayInv
    <3> QED BY <1>2, <1>3, <3>2, <3>3, <3>4, ServerFollows
  <2>5. ASSUME m.channel \in DOMAIN srv.perms,
               Changed(m) = [state |-> srv,
                             told |-> <<PermissionAnswer(FALSE, m.channel, srv.perms[m.channel])>>]
        PROVE  RelayInv'
    <3>1. PICK x : x = PermissionAnswer(FALSE, m.channel, srv.perms[m.channel]) OBVIOUS
    <3>2. srv' = srv /\ Tell(<<x>>) BY <1>7, <2>5, <3>1
    <3>3. Reports(x, srv.users, srv.perms, srv.users, srv.perms) BY <2>5, <3>1, ReportsAnswer
    <3>4. ServerShape' BY <3>2 DEF RelayInv, ServerShape
    <3> QED BY <1>2, <1>3, <3>2, <3>3, <3>4, ServerFollows
  <2>6. ASSUME m.type = "PluginDataTransmission",
               Changed(m) = [state |-> srv, told |-> <<Put(m, "sender", Me)>>]
        PROVE  RelayInv'
    <3>1. srv' = srv /\ Tell(<<Put(m, "sender", Me)>>) BY <1>7, <2>6
    <3>2. Decode(Put(m, "sender", Me)).type \notin StateTypes BY <1>3, <2>6, Echoed
    <3> QED BY <1>5, <3>1, <3>2
  <2>7. ASSUME Changed(m) = [state |-> srv, told |-> << >>] PROVE RelayInv'
    <3>1. srv' = srv /\ Tell(<< >>) BY <1>7, <2>7
    <3>2. PICK T : toMe \in Seq(T) BY DEF RelayInv, IsSequence
    <3>3. toMe' = toMe BY <1>2, <3>1, <3>2 DEF Tell
    <3>4. st' = st /\ sent' = sent BY <1>2 DEF ServerKeeps
    <3>5. Followed' BY <3>1, <3>3, <3>4, Untold DEF RelayInv
    <3> QED BY <1>3, <3>1, <3>3, <3>4, <3>5 DEF RelayInv, ServerShape, AudienceIsChannel
  <2> QED BY <2>1, <2>2, <2>3, <2>4, <2>5, <2>6, <2>7, ChangedIs
<1> QED BY <1>2, <1>6, <1>7

\* A user has every field.
LEMMA WholeUser ==
    ASSUME NEW old, NEW set PROVE Overlay(old, set) = [f \in Fields |-> Overlay(old, set)[f]]
BY DEF Overlay

\* The peers come, go, move and send.
LEMMA EventFollows ==
    ASSUME RelayInv, NEW u, u \in Peers, NEW type,
           \/ PeerArrives(u) \/ PeerLeaves(u) \/ PeerMoves(u) \/ (type \in Relayed /\ PeerSends(u, type))
    PROVE  RelayInv'
<1>1. Event /\ u # 0 /\ u # Me
  BY RelayAssumption DEF PeerArrives, PeerLeaves, PeerMoves, PeerSends
<1>2. Asked(toServer') /\ ServerKeeps BY <1>1 DEF Event, RelayInv
<1>3. Shape(srv.users, srv.perms) BY DEF RelayInv, ServerShape
<1>4. CASE PeerArrives(u)
  <2>1. PICK c \in DOMAIN srv.perms, deaf \in BOOLEAN :
          LET user == Overlay(NewUser, [chan |-> c, selfMute |-> deaf, selfDeaf |-> deaf])
          IN /\ srv' = [srv EXCEPT !.users = Put(@, u, user)]
             /\ Tell(<<Announce(u, user)>>)
    BY <1>4 DEF PeerArrives
  <2>2. PICK user : user = Overlay(NewUser, [chan |-> c, selfMute |-> deaf, selfDeaf |-> deaf]) OBVIOUS
  <2>3. user = [f \in Fields |-> user[f]] BY <2>2, WholeUser
  <2>4. PICK after : after = Put(srv.users, u, user) OBVIOUS
  <2>5. srv' = [srv EXCEPT !.users = after] /\ Tell(<<Announce(u, user)>>) BY <2>1, <2>2, <2>4, Zenon
  <2>6. u \notin DOMAIN srv.users BY <1>4 DEF PeerArrives
  <2>7. /\ Reports(Announce(u, user), srv.users, srv.perms, after, srv.perms)
        /\ Shape(after, srv.perms) /\ DOMAIN after = DOMAIN srv.users \cup {u}
    BY <1>1, <1>3, <2>3, <2>4, <2>6, ReportsArrival, ShapeArrival
  <2>8. ServerShape' /\ srv'.users = after /\ srv'.perms = srv.perms
    BY <2>5, <2>7, UsersChange DEF RelayInv
  <2> QED BY <1>1, <1>2, <2>5, <2>7, <2>8, ServerFollows
<1>5. CASE PeerLeaves(u)
  <2>1. PICK m : m = [type |-> "UserRemove", session |-> u] OBVIOUS
  <2>2. m.type = "UserRemove" /\ m.session = u BY <2>1
  <2>3. PICK after : after = Restrict(srv.users, DOMAIN srv.users \ {u}) OBVIOUS
  <2>4. srv' = [srv EXCEPT !.users = after] /\ Tell(<<m>>) BY <1>5, <2>1, <2>3 DEF PeerLeaves
  <2>5. /\ Reports(m, srv.users, srv.perms, after, srv.perms)
        /\ Shape(after, srv.perms) /\ DOMAIN after = DOMAIN srv.users \ {u}
    BY <1>3, <2>2, <2>3, ReportsLeaving
  <2>6. ServerShape' /\ srv'.users = after /\ srv'.perms = srv.perms
    BY <2>4, <2>5, UsersChange DEF RelayInv
  <2> QED BY <1>1, <1>2, <2>4, <2>5, <2>6, ServerFollows
<1>6. CASE PeerMoves(u)
  <2>1. PICK c \in DOMAIN srv.perms \ {srv.users[u].chan} :
          /\ srv' = [srv EXCEPT !.users[u] = Overlay(@, [chan |-> c])]
          /\ Tell(<<UserState(u, [chan |-> c])>>)
    BY <1>6 DEF PeerMoves
  <2>2. PICK set : set = [chan |-> c] OBVIOUS
  <2>3. u \in DOMAIN srv.users BY <1>6 DEF PeerMoves
  <2>4. PICK after : after = [srv.users EXCEPT ![u] = Overlay(srv.users[u], set)] OBVIOUS
  <2>5. srv' = [srv EXCEPT !.users = after] /\ Tell(<<UserState(u, set)>>) BY <2>1, <2>2, <2>4
  <2>6. /\ Reports(UserState(u, set), srv.users, srv.perms, after, srv.perms)
        /\ Shape(after, srv.perms) /\ DOMAIN after = DOMAIN srv.users
    BY <1>3, <2>3, <2>4, ReportsUser
  <2>7. ServerShape' /\ srv'.users = after /\ srv'.perms = srv.perms
    BY <2>5, <2>6, UsersChange DEF RelayInv
  <2> QED BY <1>2, <2>5, <2>6, <2>7, ServerFollows
<1>7. CASE type \in Relayed /\ PeerSends(u, type)
  <2>1. PICK m : m = [type |-> type, origin |-> u] OBVIOUS
  <2>2. PICK e : e = [type |-> "PluginDataTransmission", sender |-> u, wrapped |-> m] OBVIOUS
  <2>3. PICK x : x = IF srv.version >= MessageSupport[type].min THEN Put(m, "from", u) ELSE e OBVIOUS
  <2>4. UNCHANGED srv /\ Tell(<<x>>) BY <1>7, <2>1, <2>2, <2>3 DEF PeerSends
  <2>5. Has(m, "type") /\ m.type = type /\ \A y : Put(m, "from", y).type = type
    BY <2>1 DEF Has, Put
  <2>6. type \notin StateTypes /\ type # "PluginDataTransmission" BY <1>7 DEF Relayed, StateTypes
  <2>7. Decode(Put(m, "from", u)).type = type
    BY <2>5, <2>6 DEF Decode
  <2>8. Decode(e).type = type
    <3>1. e.type = "PluginDataTransmission" /\ Has(e, "wrapped") /\ e.wrapped = m BY <2>2 DEF Has
    <3>2. Decode(e) = patch_sender_session(m, e.sender) BY <3>1 DEF Decode
    <3> QED BY <2>5, <3>2 DEF patch_sender_session
  <2>9. Decode(x).type \notin StateTypes BY <2>3, <2>6, <2>7, <2>8
  <2>10. Reports(x, srv.users, srv.perms, srv.users, srv.perms) BY <2>9, ReportsNothing
  <2>11. ServerShape' BY <2>4 DEF RelayInv, ServerShape
  <2> QED BY <1>2, <2>4, <2>10, <2>11, ServerFollows
<1> QED BY <1>4, <1>5, <1>6, <1>7

\* Our rights change.
LEMMA RightsFollow == ASSUME RelayInv, NEW c, RightsChange(c) PROVE RelayInv'
<1>1. Event /\ c \in DOMAIN srv.perms BY DEF RightsChange
<1>2. Asked(toServer') /\ ServerKeeps BY <1>1 DEF Event, RelayInv
<1>3. Shape(srv.users, srv.perms) BY DEF RelayInv, ServerShape
<1>4. PICK verdict : verdict = IF srv.perms[c] = "granted" THEN "refused" ELSE "granted" OBVIOUS
<1>5. PICK after : after = [srv.perms EXCEPT ![c] = verdict] OBVIOUS
<1>6. srv' = [srv EXCEPT !.perms = after] /\ Tell(<<PermissionAnswer(TRUE, 0, srv'.perms[0])>>)
  BY <1>4, <1>5 DEF RightsChange
<1>7. /\ Reports(PermissionAnswer(TRUE, 0, after[0]), srv.users, srv.perms, srv.users, after)
      /\ Shape(srv.users, after)
  BY <1>1, <1>3, <1>5, ReportsRights
<1>8. ServerShape' /\ srv'.users = srv.users /\ srv'.perms = after
  BY <1>6, <1>7, PermsChange DEF RelayInv
<1>9. Tell(<<PermissionAnswer(TRUE, 0, after[0])>>) BY <1>6, <1>8
<1> QED BY <1>2, <1>7, <1>8, <1>9, ServerFollows

\* The first state: the server's version is on its way.
LEMMA RelayStarts == ASSUME RelayInit PROVE RelayInv
<1>1. PICK v \in Versions, there \in SUBSET Peers, c \in Channels, deaf \in BOOLEAN :
        /\ srv = [version |-> v, perms |-> [x \in Channels |-> "granted"],
                  users |-> [u \in there |->
                    Overlay(NewUser, [chan |-> c, selfMute |-> deaf, selfDeaf |-> deaf])]]
        /\ toMe = <<[type |-> "Version", fancy |-> v]>>
  BY DEF RelayInit
<1>2. PICK user : user = Overlay(NewUser, [chan |-> c, selfMute |-> deaf, selfDeaf |-> deaf]) OBVIOUS
<1>3. user = [f \in Fields |-> user[f]] BY <1>2, WholeUser
<1>4. /\ srv.version = v /\ srv.perms = [x \in Channels |-> "granted"] /\ srv.users = [u \in there |-> user]
      /\ srv = [version |-> v, perms |-> srv.perms, users |-> srv.users]
  BY <1>1, <1>2
<1>5. IsFiniteSet(there) /\ Me \notin there /\ 0 \notin there
  <2>1. there \subseteq Peers OBVIOUS
  <2> QED BY <2>1, RelayAssumption, FS_Subset
<1>6. Shape(srv.users, srv.perms)
  <2>1. /\ DOMAIN srv.perms = Channels /\ DOMAIN srv.users = there
        /\ Total(srv.perms) /\ Total(srv.users) /\ \A u \in there : srv.users[u] = user
    BY <1>4 DEF Total
  <2>2. \A u \in DOMAIN srv.users : srv.users[u] = [f \in Fields |-> srv.users[u][f]]
    BY <1>3, <2>1
  <2> QED BY <1>5, <2>1, <2>2, RelayAssumption DEF Shape
<1>7. ServerShape BY <1>4, <1>6 DEF ServerShape
<1>8. Followed /\ IsSequence(toMe)
  <2>1. PICK m : m = [type |-> "Version", fancy |-> v] OBVIOUS
  <2>2. st = State(0, 0, << >>, << >>) BY DEF RelayInit, NewState, State
  <2>3. Applied(State(0, 0, << >>, << >>), Decode(m)) = State(0, v, << >>, << >>) BY <2>1, AppliedVersion
  <2>4. Leads(st, <<m>>, State(0, v, << >>, << >>)) BY <2>2, <2>3, LeadsOne
  <2>5. toMe = <<m>> /\ Me \notin DOMAIN srv.users BY <1>1, <1>4, <1>5, <2>1
  <2> QED BY <2>4, <2>5, SequenceOne DEF Followed
<1>9. Asked(toServer)
  <2>1. toServer = << >> /\ toServer \in Seq({}) BY DEF RelayInit
  <2> QED BY <2>1 DEF Asked
<1>10. AudienceIsChannel BY DEF RelayInit, NothingSent, AudienceIsChannel
<1> QED BY <1>7, <1>8, <1>9, <1>10 DEF RelayInv

\* Every step keeps the invariant.
LEMMA RelaySteps == ASSUME RelayInv, [RelayNext]_relayVars PROVE RelayInv'
<1>1. CASE HandleServerMessage BY <1>1, HandledFollows
<1>2. CASE UserCommands \/ ChannelCommands \/ MessageCommands \/ SessionCommands BY <1>2, CommandsFollow
<1>3. CASE ServerAuthenticates BY <1>3, AuthenticationFollows
<1>4. CASE ServerTakes BY <1>4, RequestFollows
<1>5. CASE ServerIgnores
  <2>1. /\ toServer # << >> /\ toServer' = Tail(toServer)
        /\ UNCHANGED <<st, toMe, srv, sent>>
    BY <1>5 DEF ServerIgnores, ServerKeeps
  <2>2. Asked(toServer') BY <2>1, AskedTail DEF RelayInv
  <2>3. Followed' BY <2>1, Untold DEF RelayInv
  <2> QED BY <2>1, <2>2, <2>3 DEF RelayInv, ServerShape, AudienceIsChannel
<1>6. CASE \E u \in Peers : \/ PeerArrives(u) \/ PeerLeaves(u) \/ PeerMoves(u)
                            \/ \E type \in Relayed : PeerSends(u, type)
  BY <1>6, EventFollows
<1>7. CASE \E c \in Channels : RightsChange(c) BY <1>7, RightsFollow
<1>8. CASE UNCHANGED relayVars
  <2>1. UNCHANGED <<st, toMe, toServer, srv, sent>> BY <1>8 DEF relayVars
  <2>2. Followed' BY <2>1, Untold DEF RelayInv
  <2> QED BY <2>1, <2>2 DEF RelayInv, ServerShape, AudienceIsChannel
<1> QED BY <1>1, <1>2, <1>3, <1>4, <1>5, <1>6, <1>7, <1>8 DEF RelayNext

\* Whatever the server, the peers and the client do, a client that has handled
\* every message sees exactly the server's users, and caches no permission the
\* server has changed since (ServerState, handle_control_message).
THEOREM ViewCorrect == RelaySpec => []ViewFollowsServer
<1>1. RelayInv => ViewFollowsServer
  <2> SUFFICES ASSUME RelayInv, Caught PROVE ViewFollowsServer BY DEF ViewFollowsServer
  <2>1. toMe = << >> /\ st.session = Me BY DEF Caught
  <2>2. CASE Me \in DOMAIN srv.users
    <3>1. PICK v, ps : Cached(ps, srv.perms) /\ Leads(st, toMe, State(Me, v, srv.users, ps))
      BY <2>2 DEF RelayInv, Followed
    <3>2. st = State(Me, v, srv.users, ps) BY <2>1, <3>1, LeadsNowhere
    <3>3. st.users = srv.users /\ st.perms = ps BY <3>2 DEF State
    <3> QED BY <3>1, <3>3 DEF ViewFollowsServer, Cached
  <2>3. CASE Me \notin DOMAIN srv.users
    <3>1. PICK v : Leads(st, toMe, State(0, v, << >>, << >>)) BY <2>3 DEF RelayInv, Followed
    <3>2. st = State(0, v, << >>, << >>) BY <2>1, <3>1, LeadsNowhere
    <3>3. st.session = 0 BY <3>2 DEF State
    <3> QED BY <2>1, <3>3 DEF Me
  <2> QED BY <2>2, <2>3
<1> QED BY <1>1, RelayStarts, RelaySteps, PTL DEF RelaySpec

\* An envelope sent while the view is current goes to exactly the users it is
\* meant for (FancyCodec's extract_receiver_sessions).
THEOREM AudienceCorrect == RelaySpec => []AudienceIsChannel
<1>1. RelayInv => AudienceIsChannel BY DEF RelayInv
<1> QED BY <1>1, RelayStarts, RelaySteps, PTL DEF RelaySpec

-----------------------------------------------------------------------------
\* Framing.

\* Induction over the naturals, by their well-foundedness.
Below == {ss \in Nat \X Nat : ss[1] < ss[2]}

\* A set of naturals that is not empty has a least element.
LEMMA Least == ASSUME NEW T \in SUBSET Nat, T # {} PROVE \E x \in T : \A y \in T : x <= y
<1>1. IsWellFoundedOn(Below, Nat) BY NatLessThanWellFounded DEF OpToRel, Below
<1>2. PICK x \in T : \A y \in T : ~ (<<y, x>> \in Below) BY <1>1, WFMin
<1>3. ASSUME NEW y \in T PROVE x <= y
  <2>1. x \in Nat /\ y \in Nat OBVIOUS
  <2>2. ~(<<y, x>> \in Below) BY <1>2
  <2>3. ~(y < x) BY <2>1, <2>2 DEF Below
  <2> QED BY <2>1, <2>3
<1> QED BY <1>3

\* A set with zero and with the successors of its elements has all naturals.
LEMMA Induction ==
    ASSUME NEW T, 0 \in T, \A n \in Nat : n \in T => n + 1 \in T PROVE Nat \subseteq T
<1>1. SUFFICES ASSUME Nat \ T # {} PROVE FALSE OBVIOUS
<1>2. PICK x \in Nat \ T : \A y \in Nat \ T : x <= y BY <1>1, Least
<1>3. x # 0 /\ x - 1 \in Nat BY <1>2
<1>4. x - 1 \in T BY <1>2, <1>3
<1> QED BY <1>2, <1>3, <1>4

-----------------------------------------------------------------------------
\* Flattening: f[i] is the concatenation of the first i elements of s.
Grows(f, s, n) ==
    /\ f = [i \in 1..n |-> f[i]]
    /\ \A i \in 1..n : f[i] = IF i = 1 THEN s[i] ELSE f[i - 1] \o s[i]

\* There is a function that grows along every sequence.
LEMMA GrowsSome == ASSUME NEW s, NEW n \in Nat PROVE \E f : Grows(f, s, n)
<1> DEFINE T == {k \in Nat : \E f : Grows(f, s, k)}
<1>1. 0 \in T
  <2>1. PICK f : f = [i \in 1..0 |-> 0] OBVIOUS
  <2>2. Grows(f, s, 0) BY <2>1 DEF Grows
  <2> QED BY <2>2
<1>2. ASSUME NEW k \in Nat, k \in T PROVE k + 1 \in T
  <2>1. PICK f : Grows(f, s, k) BY <1>2
  <2>2. PICK g : g = [i \in 1..(k + 1) |->
                        IF i <= k THEN f[i] ELSE IF i = 1 THEN s[i] ELSE f[i - 1] \o s[i]]
    OBVIOUS
  <2>3. g = [i \in 1..(k + 1) |-> g[i]] BY <2>2
  <2>4. ASSUME NEW i \in 1..(k + 1) PROVE g[i] = IF i = 1 THEN s[i] ELSE g[i - 1] \o s[i]
    <3>1. i # 1 => i - 1 \in 1..(k + 1) /\ i - 1 <= k OBVIOUS
    <3>2. i # 1 => g[i - 1] = f[i - 1] BY <2>2, <3>1
    <3>3. CASE i <= k
      <4>1. i \in 1..k /\ g[i] = f[i] BY <2>2, <3>3
      <4> QED BY <2>1, <3>2, <4>1 DEF Grows
    <3>4. CASE ~(i <= k)
      <4>1. g[i] = IF i = 1 THEN s[i] ELSE f[i - 1] \o s[i] BY <2>2, <3>4
      <4> QED BY <3>2, <4>1
    <3> QED BY <3>3, <3>4
  <2>5. Grows(g, s, k + 1) BY <2>3, <2>4 DEF Grows
  <2> QED BY <2>5
<1> HIDE DEF T
<1>3. n \in T BY <1>1, <1>2, Induction
<1> QED BY <1>3 DEF T

\* Two of them agree as far as the shorter one goes.
LEMMA GrowsOne ==
    ASSUME NEW s, NEW n \in Nat, NEW m \in Nat, n <= m, NEW f, NEW g, Grows(f, s, n), Grows(g, s, m)
    PROVE  \A i \in 1..n : f[i] = g[i]
<1> DEFINE T == {k \in Nat : k \in 1..n => f[k] = g[k]}
<1>1. 0 \in T OBVIOUS
<1>2. ASSUME NEW k \in Nat, k \in T PROVE k + 1 \in T
  <2> SUFFICES ASSUME k + 1 \in 1..n PROVE f[k + 1] = g[k + 1] OBVIOUS
  <2>1. k + 1 \in 1..m /\ (k + 1) - 1 = k /\ (k + 1 # 1 => k \in 1..n) OBVIOUS
  <2>2. /\ f[k + 1] = IF k + 1 = 1 THEN s[k + 1] ELSE f[k] \o s[k + 1]
        /\ g[k + 1] = IF k + 1 = 1 THEN s[k + 1] ELSE g[k] \o s[k + 1]
    BY <2>1 DEF Grows
  <2>3. k + 1 # 1 => f[k] = g[k] BY <1>2, <2>1
  <2> QED BY <2>2, <2>3
<1> HIDE DEF T
<1>3. Nat \subseteq T BY <1>1, <1>2, Induction
<1> QED BY <1>3 DEF T

\* FlattenSeq is where such a function ends.
LEMMA FlattenLast ==
    ASSUME NEW s, Len(s) \in Nat, Len(s) # 0, NEW f, Grows(f, s, Len(s))
    PROVE  FlattenSeq(s) = f[Len(s)]
<1> DEFINE P(h) == h = [i \in 1..Len(s) |-> IF i = 1 THEN s[i] ELSE h[i - 1] \o s[i]]
<1>1. P(f)
  <2>1. f = [i \in 1..Len(s) |-> f[i]] BY DEF Grows
  <2>2. \A i \in 1..Len(s) : f[i] = IF i = 1 THEN s[i] ELSE f[i - 1] \o s[i] BY DEF Grows
  <2> QED BY <2>1, <2>2
<1>2. PICK h : h = CHOOSE x : P(x) BY Zenon
<1>3. P(h) BY <1>1, <1>2, Zenon
<1>4. Grows(h, s, Len(s)) BY <1>3 DEF Grows
<1>5. FlattenSeq(s) = h[Len(s)] BY <1>2 DEF FlattenSeq
<1>6. Len(s) \in 1..Len(s) OBVIOUS
<1> QED BY <1>4, <1>5, <1>6, GrowsOne

\* Nothing flattens to nothing.
LEMMA FlattenNone == ASSUME NEW s, Len(s) = 0 PROVE FlattenSeq(s) = s
BY DEF FlattenSeq

\* What is appended to a list of pieces comes last in the whole.
LEMMA FlattenMore ==
    ASSUME NEW T, NEW s \in Seq(Seq(T)), NEW x \in Seq(T)
    PROVE  FlattenSeq(Append(s, x)) = FlattenSeq(s) \o x
<1>1. PICK n \in Nat : n = Len(s) OBVIOUS
<1>2. PICK t : t = Append(s, x) OBVIOUS
<1>3. Len(t) = n + 1 /\ t[n + 1] = x /\ \A i \in 1..n : t[i] = s[i] BY <1>1, <1>2
<1> n + 1 \in Nat OBVIOUS
<1>4. PICK f : Grows(f, t, n + 1) BY GrowsSome
<1>5. FlattenSeq(t) = f[n + 1] BY <1>3, <1>4, FlattenLast
<1>6. CASE n = 0
  <2>1. f[1] = t[1] BY <1>4, <1>6 DEF Grows
  <2>2. s = << >>
    <3>1. Len(s) = 0 BY <1>1, <1>6
    <3> QED BY ONLY <3>1, s \in Seq(Seq(T)), EmptySeq
  <2>3. FlattenSeq(s) = << >> BY <2>2, FlattenNone
  <2>4. << >> \o x = x OBVIOUS
  <2> QED BY <1>2, <1>3, <1>5, <1>6, <2>1, <2>3, <2>4
<1>7. CASE n # 0
  <2>1. PICK g : g = [i \in 1..n |-> f[i]] OBVIOUS
  <2>2. Grows(g, s, n)
    <3>1. ASSUME NEW i \in 1..n PROVE g[i] = IF i = 1 THEN s[i] ELSE g[i - 1] \o s[i]
      <4>1. i \in 1..(n + 1) /\ (i # 1 => i - 1 \in 1..n) BY <1>1
      <4>2. g[i] = f[i] /\ (i # 1 => g[i - 1] = f[i - 1]) BY <2>1, <4>1
      <4>3. f[i] = IF i = 1 THEN t[i] ELSE f[i - 1] \o t[i] BY <1>4, <4>1 DEF Grows
      <4> QED BY <1>3, <4>2, <4>3
    <3> QED BY <2>1, <3>1 DEF Grows
  <2>3. FlattenSeq(s) = g[n] BY <1>1, <1>7, <2>2, FlattenLast
  <2>4. n \in 1..n /\ n + 1 \in 1..(n + 1) /\ n + 1 # 1 /\ (n + 1) - 1 = n BY <1>7
  <2>5. f[n + 1] = f[n] \o t[n + 1] BY <1>4, <2>4 DEF Grows
  <2>6. g[n] = f[n] BY <2>1, <2>4
  <2> QED BY <1>2, <1>3, <1>5, <2>3, <2>5, <2>6
<1> QED BY <1>6, <1>7

\* A sequence that is not empty is one shorter with its last element appended.
LEMMA FrontLast ==
    ASSUME NEW T, NEW s \in Seq(T), NEW n \in Nat, Len(s) = n + 1
    PROVE  \E t \in Seq(T), x \in T : s = Append(t, x) /\ Len(t) = n
<1>1. PICK t : t = SubSeq(s, 1, n) OBVIOUS
<1>2. t \in Seq(T) /\ Len(t) = n /\ \A i \in 1..n : t[i] = s[i] BY <1>1
<1>3. s[n + 1] \in T OBVIOUS
<1>4. Append(t, s[n + 1]) = s
  <2>1. PICK u : u = Append(t, s[n + 1]) OBVIOUS
  <2>2. u \in Seq(T) /\ Len(u) = n + 1 /\ u[n + 1] = s[n + 1] /\ \A i \in 1..n : u[i] = t[i]
    BY <1>2, <1>3, <2>1
  <2>3. \A i \in 1..(n + 1) : u[i] = s[i] BY <1>2, <2>2
  <2> QED BY <2>1, <2>2, <2>3, SeqEqual
<1> QED BY <1>2, <1>3, <1>4

\* Pieces of a kind flatten to a whole of that kind.
LEMMA FlattenTyped ==
    ASSUME NEW T, NEW s \in Seq(Seq(T)) PROVE FlattenSeq(s) \in Seq(T)
<1> DEFINE M == {n \in Nat : \A t \in Seq(Seq(T)) : Len(t) = n => FlattenSeq(t) \in Seq(T)}
<1>1. 0 \in M
  <2> SUFFICES ASSUME NEW t \in Seq(Seq(T)), Len(t) = 0 PROVE FlattenSeq(t) \in Seq(T) OBVIOUS
  <2>1. t = << >> /\ << >> \in Seq(T) OBVIOUS
  <2> QED BY <2>1, FlattenNone
<1>2. ASSUME NEW n \in Nat, n \in M PROVE n + 1 \in M
  <2> SUFFICES ASSUME NEW t \in Seq(Seq(T)), Len(t) = n + 1 PROVE FlattenSeq(t) \in Seq(T) OBVIOUS
  <2>1. PICK u \in Seq(Seq(T)), x \in Seq(T) : t = Append(u, x) /\ Len(u) = n BY FrontLast, ZenonT(40)
  <2>2. FlattenSeq(t) = FlattenSeq(u) \o x BY <2>1, FlattenMore
  <2>3. FlattenSeq(u) \in Seq(T) BY <1>2, <2>1
  <2> QED BY <2>2, <2>3
<1> HIDE DEF M
<1>3. Len(s) \in Nat OBVIOUS
<1>4. Nat \subseteq M BY ONLY <1>1, <1>2, Induction
<1> QED BY <1>3, <1>4 DEF M

\* Concatenation is associative.
LEMMA Assoc ==
    ASSUME NEW T, NEW a \in Seq(T), NEW b \in Seq(T), NEW c \in Seq(T)
    PROVE  a \o (b \o c) = (a \o b) \o c
BY ConcatAssociative, SMTT(40)

\* The first piece comes first in the whole.
LEMMA FlattenFirst ==
    ASSUME NEW T, NEW x \in Seq(T), NEW s \in Seq(Seq(T))
    PROVE  FlattenSeq(<<x>> \o s) = x \o FlattenSeq(s)
<1>0. \A a, b \in Seq(T) : (x \o a) \o b = x \o (a \o b) BY Assoc, SMTT(40)
<1> DEFINE M == {n \in Nat : \A t \in Seq(Seq(T)) : Len(t) = n => FlattenSeq(<<x>> \o t) = x \o FlattenSeq(t)}
<1>1. 0 \in M
  <2> SUFFICES ASSUME NEW t \in Seq(Seq(T)), Len(t) = 0 PROVE FlattenSeq(<<x>> \o t) = x \o FlattenSeq(t)
    OBVIOUS
  <2>1. t = << >> /\ << >> \in Seq(Seq(T)) OBVIOUS
  <2>2. <<x>> \o t = Append(<< >>, x) BY <2>1
  <2>3. FlattenSeq(Append(<< >>, x)) = FlattenSeq(<< >>) \o x BY <2>1, FlattenMore
  <2>4. FlattenSeq(<< >>) = << >> BY FlattenNone
  <2>5. << >> \o x = x /\ x \o << >> = x OBVIOUS
  <2> QED BY <2>1, <2>2, <2>3, <2>4, <2>5
<1>2. ASSUME NEW n \in Nat, n \in M PROVE n + 1 \in M
  <2>. USE <1>2
  <2> SUFFICES ASSUME NEW t \in Seq(Seq(T)), Len(t) = n + 1
               PROVE  FlattenSeq(<<x>> \o t) = x \o FlattenSeq(t)
    BY n + 1 \in Nat
  <2>1. PICK u \in Seq(Seq(T)), y \in Seq(T) : t = Append(u, y) /\ Len(u) = n BY FrontLast, ZenonT(40)
  <2>2. FlattenSeq(t) = FlattenSeq(u) \o y BY <2>1, FlattenMore
  <2>3. <<x>> \in Seq(Seq(T)) /\ <<x>> \o u \in Seq(Seq(T)) OBVIOUS
  <2>4. <<x>> \o t = Append(<<x>> \o u, y)
    <3>1. Append(u, y) = u \o <<y>> /\ Append(<<x>> \o u, y) = (<<x>> \o u) \o <<y>> BY <2>3, AppendIsConcat
    <3>2. <<x>> \o (u \o <<y>>) = (<<x>> \o u) \o <<y>> BY <2>3, ConcatAssociative, SMTT(40)
    <3> QED BY <2>1, <3>1, <3>2
  <2>5. FlattenSeq(<<x>> \o t) = FlattenSeq(<<x>> \o u) \o y BY <2>3, <2>4, FlattenMore
  <2>6. FlattenSeq(<<x>> \o u) = x \o FlattenSeq(u) BY <1>2, <2>1
  <2>7. FlattenSeq(u) \in Seq(T) BY FlattenTyped
  <2>8. (x \o FlattenSeq(u)) \o y = x \o (FlattenSeq(u) \o y)
    <3>1. PICK z \in Seq(T) : z = FlattenSeq(u) BY <2>7
    <3>2. (x \o z) \o y = x \o (z \o y) BY <1>0
    <3> QED BY <3>1, <3>2
  <2> QED BY <2>2, <2>5, <2>6, <2>8
<1> HIDE DEF M
<1>3. Len(s) \in Nat OBVIOUS
<1>4. Nat \subseteq M BY ONLY <1>1, <1>2, Induction
<1> QED BY <1>3, <1>4 DEF M

-----------------------------------------------------------------------------
\* Big-endian numbers: f[i] is the value of the first i bytes of s.
Sums(f, s, n) ==
    /\ f = [i \in 0..n |-> f[i]]
    /\ \A i \in 0..n : f[i] = IF i = 0 THEN 0 ELSE f[i - 1] * 256 + s[i]

\* There is a function that sums up the digits of every sequence.
LEMMA SumsSome == ASSUME NEW s, NEW n \in Nat PROVE \E f : Sums(f, s, n)
<1> DEFINE T == {k \in Nat : \E f : Sums(f, s, k)}
<1>1. 0 \in T
  <2>1. PICK f : f = [i \in 0..0 |-> 0] OBVIOUS
  <2>2. Sums(f, s, 0) BY <2>1 DEF Sums
  <2> QED BY <2>2
<1>2. ASSUME NEW k \in Nat, k \in T PROVE k + 1 \in T
  <2>1. PICK f : Sums(f, s, k) BY <1>2
  <2>2. PICK g : g = [i \in 0..(k + 1) |-> IF i <= k THEN f[i] ELSE f[i - 1] * 256 + s[i]]
    OBVIOUS
  <2>3. g = [i \in 0..(k + 1) |-> g[i]] BY <2>2
  <2>4. ASSUME NEW i \in 0..(k + 1) PROVE g[i] = IF i = 0 THEN 0 ELSE g[i - 1] * 256 + s[i]
    <3>1. i # 0 => i - 1 \in 0..(k + 1) /\ i - 1 <= k OBVIOUS
    <3>2. i # 0 => g[i - 1] = f[i - 1] BY <2>2, <3>1
    <3>3. CASE i <= k
      <4>1. i \in 0..k /\ g[i] = f[i] BY <2>2, <3>3
      <4>2. f[i] = IF i = 0 THEN 0 ELSE f[i - 1] * 256 + s[i] BY <2>1, <4>1 DEF Sums
      <4> QED BY <3>2, <4>1, <4>2, ZenonT(40)
    <3>4. CASE ~(i <= k)
      <4>1. g[i] = f[i - 1] * 256 + s[i] /\ i # 0 BY <2>2, <3>4
      <4> QED BY <3>2, <4>1
    <3> QED BY <3>3, <3>4
  <2>5. Sums(g, s, k + 1) BY <2>3, <2>4 DEF Sums
  <2> QED BY <2>5
<1> HIDE DEF T
<1>3. n \in T BY <1>1, <1>2, Induction
<1> QED BY <1>3 DEF T

\* BigEndian is where such a function ends.
LEMMA SumsIs ==
    ASSUME NEW s, Len(s) \in Nat
    PROVE  \E f : Sums(f, s, Len(s)) /\ BigEndian(s) = f[Len(s)]
<1> DEFINE P(h) == h = [i \in 0..Len(s) |-> IF i = 0 THEN 0 ELSE h[i - 1] * 256 + s[i]]
<1>0. PICK f : Sums(f, s, Len(s)) BY SumsSome
<1>1. P(f)
  <2>1. f = [i \in 0..Len(s) |-> f[i]] BY <1>0 DEF Sums
  <2>2. \A i \in 0..Len(s) : f[i] = IF i = 0 THEN 0 ELSE f[i - 1] * 256 + s[i] BY <1>0 DEF Sums
  <2> QED BY <2>1, <2>2
<1>2. PICK h : h = CHOOSE x : P(x) OBVIOUS
<1>3. P(h)
  <2> HIDE DEF P
  <2> QED BY <1>1, <1>2
<1>4. Sums(h, s, Len(s)) BY <1>3 DEF Sums
<1>5. BigEndian(s) = h[Len(s)] BY <1>2 DEF BigEndian
<1> QED BY <1>4, <1>5

\* The value of one byte.
LEMMA Number1 ==
    ASSUME NEW s, Len(s) = 1, s[1] \in Nat PROVE BigEndian(s) = s[1]
<1> Len(s) \in Nat OBVIOUS
<1>1. PICK f : Sums(f, s, Len(s)) /\ BigEndian(s) = f[Len(s)] BY SumsIs
<1>2. \A i \in 0..1 : f[i] = IF i = 0 THEN 0 ELSE f[i - 1] * 256 + s[i] BY <1>1 DEF Sums
<1>3. f[0] = 0 /\ f[1] = f[0] * 256 + s[1] BY <1>2
<1> QED BY <1>1, <1>3

\* The value of two bytes.
LEMMA Number2 ==
    ASSUME NEW s, Len(s) = 2, s[1] \in Nat, s[2] \in Nat PROVE BigEndian(s) = s[1] * 256 + s[2]
<1> Len(s) \in Nat OBVIOUS
<1>1. PICK f : Sums(f, s, Len(s)) /\ BigEndian(s) = f[Len(s)] BY SumsIs
<1>2. \A i \in 0..2 : f[i] = IF i = 0 THEN 0 ELSE f[i - 1] * 256 + s[i] BY <1>1 DEF Sums
<1>3. f[0] = 0 /\ f[1] = f[0] * 256 + s[1] /\ f[2] = f[1] * 256 + s[2] BY <1>2
<1> QED BY <1>1, <1>3

\* The value of three bytes.
LEMMA Number3 ==
    ASSUME NEW s, Len(s) = 3, s[1] \in Nat, s[2] \in Nat, s[3] \in Nat
    PROVE  BigEndian(s) = s[1] * 65536 + s[2] * 256 + s[3]
<1> Len(s) \in Nat OBVIOUS
<1>1. PICK f : Sums(f, s, Len(s)) /\ BigEndian(s) = f[Len(s)] BY SumsIs
<1>2. \A i \in 0..3 : f[i] = IF i = 0 THEN 0 ELSE f[i - 1] * 256 + s[i] BY <1>1 DEF Sums
<1>3. f[0] = 0 /\ f[1] = f[0] * 256 + s[1] /\ f[2] = f[1] * 256 + s[2] /\ f[3] = f[2] * 256 + s[3]
  BY <1>2
<1>4. f[1] = s[1] BY <1>3
<1>5. f[2] = s[1] * 256 + s[2] BY <1>3, <1>4
<1> QED BY <1>1, <1>3, <1>5

\* The value of four bytes.
LEMMA Number4 ==
    ASSUME NEW s, Len(s) = 4, s[1] \in Nat, s[2] \in Nat, s[3] \in Nat, s[4] \in Nat
    PROVE  BigEndian(s) = s[1] * 16777216 + s[2] * 65536 + s[3] * 256 + s[4]
<1> Len(s) \in Nat OBVIOUS
<1>1. PICK f : Sums(f, s, Len(s)) /\ BigEndian(s) = f[Len(s)] BY SumsIs
<1>2. \A i \in 0..4 : f[i] = IF i = 0 THEN 0 ELSE f[i - 1] * 256 + s[i] BY <1>1 DEF Sums
<1>3. /\ f[0] = 0 /\ f[1] = f[0] * 256 + s[1] /\ f[2] = f[1] * 256 + s[2]
      /\ f[3] = f[2] * 256 + s[3] /\ f[4] = f[3] * 256 + s[4]
  BY <1>2
<1>4. f[1] = s[1] BY <1>3
<1>5. f[2] = s[1] * 256 + s[2] BY <1>3, <1>4
<1>6. f[3] = s[1] * 65536 + s[2] * 256 + s[3] BY <1>3, <1>5
<1> QED BY <1>1, <1>3, <1>6

\* The value of five bytes, the first of which is zero.
LEMMA Number5 ==
    ASSUME NEW s, Len(s) = 5, s[1] = 0, s[2] \in Nat, s[3] \in Nat, s[4] \in Nat, s[5] \in Nat
    PROVE  BigEndian(s) = s[2] * 16777216 + s[3] * 65536 + s[4] * 256 + s[5]
<1> Len(s) \in Nat OBVIOUS
<1>1. PICK f : Sums(f, s, Len(s)) /\ BigEndian(s) = f[Len(s)] BY SumsIs
<1>2. \A i \in 0..5 : f[i] = IF i = 0 THEN 0 ELSE f[i - 1] * 256 + s[i] BY <1>1 DEF Sums
<1>3. /\ f[0] = 0 /\ f[1] = f[0] * 256 + s[1] /\ f[2] = f[1] * 256 + s[2]
      /\ f[3] = f[2] * 256 + s[3] /\ f[4] = f[3] * 256 + s[4] /\ f[5] = f[4] * 256 + s[5]
  BY <1>2
<1>4. f[2] = s[2] BY <1>3
<1>5. f[3] = s[2] * 256 + s[3] BY <1>3, <1>4
<1>6. f[4] = s[2] * 65536 + s[3] * 256 + s[4] BY <1>3, <1>5
<1> QED BY <1>1, <1>3, <1>6

-----------------------------------------------------------------------------
\* w is a followed by b.
Join(w, a, b) ==
    /\ Len(w) = Len(a) + Len(b)
    /\ \A i \in 1..Len(a) : w[i] = a[i]
    /\ \A i \in 1..Len(b) : w[Len(a) + i] = b[i]

\* Concatenation joins.
LEMMA Joined ==
    ASSUME NEW T, NEW a \in Seq(T), NEW b \in Seq(T)
    PROVE  a \o b \in Seq(T) /\ Join(a \o b, a, b)
BY DEF Join

\* Two ways to cut the same bytes.
SameBytes(a, b, c, d) == a \o b = c \o d

\* Of two ways to cut the same bytes, the longer first part starts with the
\* shorter one, and what it has more comes first in the other's second part.
LEMMA Cut ==
    ASSUME NEW T, NEW a \in Seq(T), NEW b \in Seq(T), NEW c \in Seq(T), NEW d \in Seq(T),
           SameBytes(a, b, c, d), Len(c) <= Len(a)
    PROVE  /\ SubSeq(a, 1, Len(c)) = c
           /\ After(a, Len(c)) \in Seq(T) /\ After(a, Len(c)) \o b = d
<1>1. PICK w : w = a \o b /\ w = c \o d BY DEF SameBytes
<1>2. PICK n \in Nat, k \in Nat, p \in Nat, q \in Nat :
        n = Len(a) /\ k = Len(c) /\ p = Len(b) /\ q = Len(d)
  OBVIOUS
<1>3. /\ Len(w) = n + p /\ Len(w) = k + q
      /\ \A i \in 1..n : w[i] = a[i]
      /\ \A i \in 1..k : w[i] = c[i]
      /\ \A i \in 1..p : w[n + i] = b[i]
      /\ \A i \in 1..q : w[k + i] = d[i]
  <2>1. /\ Len(w) = n + p /\ (\A i \in 1..n : w[i] = a[i])
        /\ \A i \in 1..p : w[n + i] = b[i]
    <3>1. Join(w, a, b) BY <1>1, Joined
    <3> QED BY <1>2, <3>1 DEF Join
  <2>2. /\ Len(w) = k + q /\ (\A i \in 1..k : w[i] = c[i])
        /\ \A i \in 1..q : w[k + i] = d[i]
    <3>1. Join(w, c, d) BY <1>1, Joined
    <3> QED BY <1>2, <3>1 DEF Join
  <2> QED BY <2>1, <2>2
<1>4. k <= n /\ n + p = k + q BY <1>2, <1>3
<1>5. PICK u : u = SubSeq(a, 1, k) OBVIOUS
<1>6. u \in Seq(T) /\ Len(u) = k /\ \A i \in 1..k : u[i] = a[i] BY <1>2, <1>4, <1>5
<1>7. \A i \in 1..k : i \in 1..n /\ u[i] = c[i] BY <1>3, <1>4, <1>6
<1>8. u = c BY <1>2, <1>6, <1>7, SeqEqual
<1>9. PICK e : e = After(a, k) OBVIOUS
<1>10. e \in Seq(T) /\ Len(e) = n - k /\ \A i \in 1..(n - k) : e[i] = a[k + i]
  BY <1>2, <1>4, <1>9 DEF After
<1>11. PICK x : x = e \o b OBVIOUS
<1>12. /\ x \in Seq(T) /\ Len(x) = q
       /\ \A i \in 1..(n - k) : x[i] = e[i]
       /\ \A i \in 1..p : x[(n - k) + i] = b[i]
  <2>1. Len(e) + Len(b) = q BY ONLY <1>2, <1>4, <1>10
  <2>2. PICK r \in Nat : r = n - k BY <1>4
  <2>3. e \in Seq(T) /\ r = Len(e) BY <1>10, <2>2
  <2>4. /\ x \in Seq(T) /\ Len(x) = r + p
        /\ \A i \in 1..r : x[i] = e[i]
        /\ \A i \in 1..p : x[r + i] = b[i]
    <3>1. x \in Seq(T) /\ Join(x, e, b) BY <2>3, <1>11, Joined
    <3> QED BY <1>2, <2>3, <3>1 DEF Join
  <2> QED BY <1>4, <2>2, <2>4, SMTT(40)
<1>13. ASSUME NEW i \in 1..q PROVE x[i] = d[i]
  <2>0. d[i] = w[k + i] BY <1>3
  <2>1. CASE i <= n - k
    <3>1. i \in 1..(n - k) /\ k + i \in 1..n BY <1>2, <1>4, <2>1
    <3> QED BY <1>3, <1>10, <1>12, <2>0, <3>1
  <2>2. CASE ~(i <= n - k)
    <3>1. PICK j : j = i - (n - k) OBVIOUS
    <3>2. j \in 1..p /\ i = (n - k) + j /\ k + i = n + j BY <1>2, <1>4, <2>2, <3>1
    <3> QED BY <1>3, <1>12, <2>0, <3>2
  <2> QED BY <2>1, <2>2
<1>14. x = d BY <1>2, <1>12, <1>13, SeqEqual
<1> QED BY <1>2, <1>5, <1>8, <1>9, <1>10, <1>11, <1>14

-----------------------------------------------------------------------------
\* The two bytes of a message type are bytes and make up the number again.
LEMMA Bits16 ==
    ASSUME NEW n \in TypeId
    PROVE  \E q, r \in Byte : q = n \div 256 /\ r = n % 256 /\ q * 256 + r = n
<1>1. PICK q \in Nat, r \in Nat : q = n \div 256 /\ r = n % 256 BY SMTT(40) DEF TypeId
<1>2. r < 256 /\ q < 256 /\ q * 256 + r = n BY <1>1, SMTT(40) DEF TypeId
<1>3. q \in Byte /\ r \in Byte BY <1>2, SMT DEF Byte
<1> QED BY <1>1, <1>2, <1>3, SMT

\* The bytes of a number of 32 bits.
Top(n) == n \div 16777216
High(n) == (n \div 65536) % 256
Low(n) == (n \div 256) % 256
End(n) == n % 256

\* The four bytes of a number are bytes and make up the number again.
LEMMA Bits32 ==
    ASSUME NEW n, Fits(n)
    PROVE  /\ Top(n) \in Byte /\ High(n) \in Byte /\ Low(n) \in Byte /\ End(n) \in Byte
           /\ Top(n) * 16777216 + High(n) * 65536 + Low(n) * 256 + End(n) = n
<1>1. PICK a \in Nat, b \in Nat, c \in Nat, d \in Nat, r \in Nat, s \in Nat :
        /\ a = n \div 16777216 /\ b = n \div 65536 /\ c = n \div 256
        /\ d = n % 256 /\ r = b % 256 /\ s = c % 256
  BY SMT DEF Fits
<1>2. /\ d < 256 /\ r < 256 /\ s < 256 /\ n = 256 * c + d /\ c = 256 * b + s /\ b = 256 * a + r
  BY <1>1, SMT DEF Fits
<1>3. n = a * 16777216 + r * 65536 + s * 256 + d BY <1>2, SMT
<1>4. a < 256 BY <1>1, SMT DEF Fits
<1>5. Top(n) = a /\ High(n) = r /\ Low(n) = s /\ End(n) = d BY <1>1, SMT DEF Top, High, Low, End
<1>6. a \in Byte /\ r \in Byte /\ s \in Byte /\ d \in Byte BY <1>2, <1>4, SMT DEF Byte
<1> QED BY <1>3, <1>5, <1>6, SMT

\* A number is read from its four bytes.
LEMMA Word ==
    ASSUME NEW n, Fits(n), NEW s, Len(s) = 4, s[1] = Top(n), s[2] = High(n), s[3] = Low(n), s[4] = End(n)
    PROVE  BigEndian(s) = n
<1>1. /\ Top(n) \in Byte /\ High(n) \in Byte /\ Low(n) \in Byte /\ End(n) \in Byte
  BY Bits32, SMT
<1>2. s[1] \in Nat /\ s[2] \in Nat /\ s[3] \in Nat /\ s[4] \in Nat BY <1>1, SMT DEF Byte
<1>3. BigEndian(s) = s[1] * 16777216 + s[2] * 65536 + s[3] * 256 + s[4]
  BY ONLY <1>2, Len(s) = 4, Number4, SMT
<1> QED BY <1>3, Bits32, SMT

\* The type of a message is read from its two bytes.
LEMMA Word16 ==
    ASSUME NEW n \in TypeId, NEW s, Len(s) = 2, s[1] = n \div 256, s[2] = n % 256
    PROVE  BigEndian(s) = n
<1>1. PICK q \in Byte, r \in Byte : q = n \div 256 /\ r = n % 256 /\ q * 256 + r = n BY Bits16
<1>2. s[1] = q /\ s[2] = r BY <1>1
<1>3. s[1] \in Nat /\ s[2] \in Nat BY <1>2, SMT DEF Byte
<1>4. BigEndian(s) = s[1] * 256 + s[2] BY ONLY <1>3, Len(s) = 2, Number2
<1> QED BY <1>1, <1>2, <1>4

\* A number is read from its four bytes after a zero.
LEMMA LongWord ==
    ASSUME NEW n, Fits(n), NEW s, Len(s) = 5, s[1] = 0,
           s[2] = Top(n), s[3] = High(n), s[4] = Low(n), s[5] = End(n)
    PROVE  BigEndian(s) = n
<1>1. /\ Top(n) \in Byte /\ High(n) \in Byte /\ Low(n) \in Byte /\ End(n) \in Byte
  BY Bits32, SMT
<1>2. s[2] \in Nat /\ s[3] \in Nat /\ s[4] \in Nat /\ s[5] \in Nat BY <1>1, SMT DEF Byte
<1>3. BigEndian(s) = s[2] * 16777216 + s[3] * 65536 + s[4] * 256 + s[5]
  BY ONLY <1>2, Len(s) = 5, s[1] = 0, Number5, SMT
<1> QED BY <1>3, Bits32, SMT

\* The bytes of U16.
LEMMA Header16 ==
    ASSUME NEW n \in TypeId
    PROVE  /\ U16(n) \in Seq(Byte) /\ Len(U16(n)) = 2
           /\ U16(n)[1] = n \div 256 /\ U16(n)[2] = n % 256
<1>1. PICK q \in Byte, r \in Byte : q = n \div 256 /\ r = n % 256 BY Bits16
<1>2. U16(n) = <<q, r>> BY <1>1, SMT DEF U16
<1>3. <<q, r>> \in Seq(Byte) /\ Len(<<q, r>>) = 2 OBVIOUS
<1> QED BY <1>1, <1>2, <1>3

\* The bytes of U32.
LEMMA Header32 ==
    ASSUME NEW n, Fits(n)
    PROVE  /\ U32(n) \in Seq(Byte) /\ Len(U32(n)) = 4
           /\ U32(n)[1] = Top(n) /\ U32(n)[2] = High(n) /\ U32(n)[3] = Low(n) /\ U32(n)[4] = End(n)
<1>1. PICK a \in Byte, b \in Byte, c \in Byte, d \in Byte :
        a = Top(n) /\ b = High(n) /\ c = Low(n) /\ d = End(n)
  BY Bits32, SMT
<1>2. U32(n) = <<a, b, c, d>> BY <1>1, SMT DEF U32, Top, High, Low, End
<1>3. <<a, b, c, d>> \in Seq(Byte) /\ Len(<<a, b, c, d>>) = 4 OBVIOUS
<1> QED BY <1>1, <1>2, <1>3

\* The bytes of a frame: the type, the size and the payload.
LEMMA FrameBytes ==
    ASSUME NEW m, Sendable(m)
    PROVE  /\ Frame(m) \in Seq(Byte) /\ Len(Frame(m)) = 6 + Len(m.payload)
           /\ Frame(m)[1] = m.type \div 256 /\ Frame(m)[2] = m.type % 256
           /\ Frame(m)[3] = Top(m.size) /\ Frame(m)[4] = High(m.size)
           /\ Frame(m)[5] = Low(m.size) /\ Frame(m)[6] = End(m.size)
           /\ \A i \in 1..Len(m.payload) : Frame(m)[6 + i] = m.payload[i]
<1>1. m.type \in TypeId /\ Fits(m.size) /\ m.payload \in Seq(Byte) BY SMT DEF Sendable, Framed
<1>2. PICK a, b, p : a = U16(m.type) /\ b = U32(m.size) /\ p = m.payload OBVIOUS
<1>3. /\ a \in Seq(Byte) /\ Len(a) = 2 /\ a[1] = m.type \div 256 /\ a[2] = m.type % 256
  BY <1>1, <1>2, Header16, SMT
<1>4. /\ b \in Seq(Byte) /\ Len(b) = 4
      /\ b[1] = Top(m.size) /\ b[2] = High(m.size) /\ b[3] = Low(m.size) /\ b[4] = End(m.size)
  BY <1>1, <1>2, Header32, SMT
<1>5. PICK h : h = a \o b OBVIOUS
<1>a. a \in Seq(Byte) /\ b \in Seq(Byte) /\ Len(a) = 2 /\ Len(b) = 4 BY <1>3, <1>4, SMT
<1>6. h \in Seq(Byte) /\ Len(h) = 6 /\ h[1] = a[1] /\ h[2] = a[2] /\ h[3] = b[1] /\ h[4] = b[2]
      /\ h[5] = b[3] /\ h[6] = b[4]
  <2>1. /\ h \in Seq(Byte) /\ Len(h) = 2 + 4
        /\ (\A i \in 1..2 : h[i] = a[i]) /\ \A i \in 1..4 : h[2 + i] = b[i]
    <3>1. h \in Seq(Byte) /\ Join(h, a, b) BY ONLY <1>5, <1>a, Joined
    <3> QED BY ONLY <1>a, <3>1 DEF Join
  <2>2. h[1] = a[1] /\ h[2] = a[2] BY ONLY <2>1
  <2>3. h[2 + 1] = b[1] /\ h[2 + 2] = b[2] /\ h[2 + 3] = b[3] /\ h[2 + 4] = b[4] BY ONLY <2>1
  <2> QED BY <2>1, <2>2, <2>3
<1>7. PICK f : f = h \o p OBVIOUS
<1>0. p \in Seq(Byte) BY <1>1, <1>2, SMT
<1>8. f \in Seq(Byte) /\ Len(f) = 6 + Len(p) /\ (\A i \in 1..6 : f[i] = h[i])
      /\ \A i \in 1..Len(p) : f[6 + i] = p[i]
  <2>1. PICK q \in Nat : q = Len(p) BY ONLY <1>0
  <2>2. h \in Seq(Byte) /\ 6 \in Nat /\ 6 = Len(h) BY ONLY <1>6
  <2>3. f \in Seq(Byte) /\ Join(f, h, p) BY ONLY <1>0, <1>7, <2>2, Joined
  <2> QED BY ONLY <2>2, <2>3 DEF Join
<1>9. Frame(m) = f BY <1>2, <1>5, <1>7, SMT DEF Frame
<1>10. f[1] = h[1] /\ f[2] = h[2] /\ f[3] = h[3] /\ f[4] = h[4] /\ f[5] = h[5] /\ f[6] = h[6] BY ONLY <1>8
<1> QED BY <1>2, <1>3, <1>4, <1>6, <1>8, <1>9, <1>10, SMT

-----------------------------------------------------------------------------
\* decode waits for the header.
LEMMA DecodeShort == ASSUME NEW buf, Len(buf) < 6 PROVE DecodeFrame(buf) = [is |-> "none"]
BY SMT DEF DecodeFrame, HeaderSize

\* What decode makes of a buffer with a header.
Decoded(buf, len, type, payload, more) ==
    /\ len > MaxPayloadSize => DecodeFrame(buf) = [is |-> "error"]
    /\ ~(len > MaxPayloadSize) /\ Len(buf) < 6 + len => DecodeFrame(buf) = [is |-> "none"]
    /\ ~(len > MaxPayloadSize) /\ ~(Len(buf) < 6 + len) =>
         DecodeFrame(buf) = IF type \in KnownTypes
                            THEN [is |-> "message", rest |-> more,
                                  msg |-> [type |-> type, payload |-> payload]]
                            ELSE [is |-> "error"]

\* decode with the header there: an error, a wait for the payload, or a message.
LEMMA DecodeLong ==
    ASSUME NEW buf, Len(buf) \in Nat, ~(Len(buf) < 6), NEW len \in Nat, len = BigEndian(SubSeq(buf, 3, 6))
    PROVE  Decoded(buf, len, BigEndian(SubSeq(buf, 1, 2)), SubSeq(buf, 7, 6 + len), After(buf, 6 + len))
<1> PICK type, payload, more :
      type = BigEndian(SubSeq(buf, 1, 2)) /\ payload = SubSeq(buf, 7, 6 + len) /\ more = After(buf, 6 + len)
  OBVIOUS
<1> SUFFICES Decoded(buf, len, type, payload, more) OBVIOUS
<1> USE DEF Decoded
<1>0. 6 + 1 = 7 OBVIOUS
<1>1. CASE len > MaxPayloadSize BY <1>1, SMT DEF DecodeFrame, HeaderSize
<1>2. CASE ~(len > MaxPayloadSize) /\ Len(buf) < 6 + len BY <1>2, SMT DEF DecodeFrame, HeaderSize
<1>3. CASE ~(len > MaxPayloadSize) /\ ~(Len(buf) < 6 + len)
  <2>1. DecodeFrame(buf) =
          LET d == Deserialize(type, payload)
          IN IF d.ok THEN [is |-> "message", msg |-> d.msg, rest |-> more] ELSE [is |-> "error"]
    BY <1>0, <1>3, SMT DEF DecodeFrame, HeaderSize
  <2>2. CASE type \in KnownTypes
    <3>1. Deserialize(type, payload) = [ok |-> TRUE, msg |-> [type |-> type, payload |-> payload]]
      BY <2>2, SMT DEF Deserialize
    <3>2. PICK d : d = Deserialize(type, payload) OBVIOUS
    <3>3. d.ok /\ d.msg = [type |-> type, payload |-> payload] BY <3>1, <3>2, SMT
    <3>4. DecodeFrame(buf) = IF d.ok THEN [is |-> "message", msg |-> d.msg, rest |-> more]
                             ELSE [is |-> "error"]
      BY <2>1, <3>2, Zenon
    <3>5. DecodeFrame(buf) = [is |-> "message", msg |-> d.msg, rest |-> more] BY <3>3, <3>4, Zenon
    <3> QED BY <1>3, <2>2, <3>3, <3>5
  <2>3. CASE type \notin KnownTypes
    <3>1. Deserialize(type, payload) = [ok |-> FALSE] BY <2>3, SMT DEF Deserialize
    <3> QED BY <1>3, <2>1, <2>3, <3>1, SMT
  <2> QED BY <2>2, <2>3
<1> QED BY <1>1, <1>2, <1>3

\* The header of the next message is read from the bytes of the buffer.
LEMMA HeaderRead ==
    ASSUME NEW m, Sendable(m), NEW buf \in Seq(Byte), NEW w \in Seq(Byte), NEW rest \in Seq(Byte),
           SameBytes(buf, w, Frame(m), rest), ~(Len(buf) < 6)
    PROVE  BigEndian(SubSeq(buf, 3, 6)) = m.size /\ BigEndian(SubSeq(buf, 1, 2)) = m.type
<1>1. PICK f \in Seq(Byte) : f = Frame(m) BY FrameBytes, SMT
<1>2. Len(f) = 6 + Len(m.payload) /\ Len(m.payload) \in Nat BY <1>1, FrameBytes, SMT DEF Sendable, Framed
<1>3. ASSUME NEW i \in 1..6 PROVE buf[i] = f[i]
  <2>1. i \in 1..Len(buf) /\ i \in 1..Len(f) BY <1>2, SMT
  <2>2. PICK x : x = buf \o w /\ x = f \o rest BY <1>1 DEF SameBytes
  <2>3. Join(x, buf, w) /\ Join(x, f, rest) BY <2>2, Joined
  <2> QED BY <2>1, <2>3 DEF Join
<1>4. /\ buf[1] = m.type \div 256 /\ buf[2] = m.type % 256
      /\ buf[3] = Top(m.size) /\ buf[4] = High(m.size) /\ buf[5] = Low(m.size) /\ buf[6] = End(m.size)
  <2>1. buf[1] = f[1] /\ buf[2] = f[2] /\ buf[3] = f[3] /\ buf[4] = f[4] /\ buf[5] = f[5] /\ buf[6] = f[6]
    BY <1>3, SMT
  <2> QED BY <1>1, <2>1, FrameBytes, SMT
<1>5. PICK s : s = SubSeq(buf, 3, 6) OBVIOUS
<1>6. Len(s) = 4 /\ s[1] = buf[3] /\ s[2] = buf[4] /\ s[3] = buf[5] /\ s[4] = buf[6] BY <1>5, SMT
<1>7. Fits(m.size) /\ m.type \in TypeId BY SMT DEF Sendable, Framed
<1>8. BigEndian(s) = m.size
  <2>1. PICK n : n = m.size OBVIOUS
  <2>2. Fits(n) /\ s[1] = Top(n) /\ s[2] = High(n) /\ s[3] = Low(n) /\ s[4] = End(n) /\ Len(s) = 4
    BY <1>4, <1>6, <1>7, <2>1, SMT
  <2>3. BigEndian(s) = n BY ONLY <2>2, Word, SMT
  <2> QED BY <2>1, <2>3
<1>9. PICK t : t = SubSeq(buf, 1, 2) OBVIOUS
<1>10. Len(t) = 2 /\ t[1] = buf[1] /\ t[2] = buf[2] BY <1>9, SMT
<1>11. BigEndian(t) = m.type
  <2>1. PICK n : n = m.type OBVIOUS
  <2>2. n \in TypeId /\ t[1] = n \div 256 /\ t[2] = n % 256 /\ Len(t) = 2 BY <1>4, <1>7, <1>10, <2>1, SMT
  <2>3. BigEndian(t) = n BY ONLY <2>2, Word16, SMT
  <2> QED BY <2>1, <2>3
<1> QED BY <1>5, <1>8, <1>9, <1>11

\* The limit on the payload is a number.
LEMMA Limit == MaxPayloadSize \in Nat
BY SMT DEF MaxPayloadSize

\* decode on a buffer that holds the start of a message the server sent: it waits
\* only while the frame is not complete, fails only at a message that breaks the
\* rules, and otherwise takes exactly that message and leaves what follows.
LEMMA FrameRead ==
    ASSUME NEW m, Sendable(m), NEW buf \in Seq(Byte), NEW w \in Seq(Byte), NEW rest \in Seq(Byte),
           SameBytes(buf, w, Frame(m), rest)
    PROVE  /\ DecodeFrame(buf).is = "none" => Len(buf) < Len(Frame(m))
           /\ DecodeFrame(buf).is = "error" => ~Good(m)
           /\ DecodeFrame(buf).is = "message" =>
                /\ Good(m)
                /\ DecodeFrame(buf).msg = [type |-> m.type, payload |-> m.payload]
                /\ DecodeFrame(buf).rest \in Seq(Byte) /\ DecodeFrame(buf).rest \o w = rest
<1>0. ~(Len(buf) < 6) => BigEndian(SubSeq(buf, 3, 6)) = m.size /\ BigEndian(SubSeq(buf, 1, 2)) = m.type
  BY HeaderRead, SMT
<1>1. PICK f \in Seq(Byte), p \in Seq(Byte) : f = Frame(m) /\ p = m.payload
  BY FrameBytes, SMT DEF Sendable, Framed
<1>2. Len(f) = 6 + Len(p) /\ \A i \in 1..Len(p) : f[6 + i] = p[i] BY <1>1, FrameBytes, SMT
<1>3. PICK n \in Nat, k \in Nat : n = Len(buf) /\ k = Len(p) OBVIOUS
<1>a. SameBytes(buf, w, f, rest) BY <1>1
<1>b. Len(f) <= Len(buf) =>
        SubSeq(buf, 1, Len(f)) = f /\ After(buf, Len(f)) \in Seq(Byte) /\ After(buf, Len(f)) \o w = rest
  BY <1>a, Cut
<1>4. CASE n < 6
  <2>1. Len(buf) < 6 BY <1>3, <1>4
  <2>2. DecodeFrame(buf).is = "none" BY <2>1, DecodeShort, SMT
  <2>3. Len(buf) < Len(f) BY <1>2, <1>3, <1>4
  <2> QED BY <1>1, <2>2, <2>3
<1>5. CASE ~(n < 6)
  <2>1. ~(Len(buf) < 6) BY <1>3, <1>5
  <2>2. BigEndian(SubSeq(buf, 3, 6)) = m.size /\ BigEndian(SubSeq(buf, 1, 2)) = m.type
    BY <1>0, <2>1
  <2>3. PICK len : len = m.size OBVIOUS
  <2>4. PICK t : t = m.type OBVIOUS
  <2>5. len \in Nat /\ (len = k \/ len > MaxPayloadSize)
    <3>1. Fits(len) /\ (len = Len(p) \/ len > MaxPayloadSize) BY <1>1, <2>3, SMT DEF Sendable, Framed
    <3>2. len \in Nat BY <3>1, SMT DEF Fits
    <3> QED BY <1>3, <3>1, <3>2
  <2>6. PICK y, more : y = SubSeq(buf, 7, 6 + len) /\ more = After(buf, 6 + len) OBVIOUS
  <2>7. len = BigEndian(SubSeq(buf, 3, 6)) /\ t = BigEndian(SubSeq(buf, 1, 2)) BY <2>2, <2>3, <2>4
  <2>8. Decoded(buf, len, t, y, more)
    <3>1. Len(buf) \in Nat BY <1>3
    <3>2. Decoded(buf, len, BigEndian(SubSeq(buf, 1, 2)), SubSeq(buf, 7, 6 + len), After(buf, 6 + len))
      BY ONLY <2>1, <2>5, <2>7, <3>1, DecodeLong
    <3> QED BY <2>6, <2>7, <3>2
  <2>9. Good(m) <=> t \in KnownTypes /\ ~(len > MaxPayloadSize)
    BY <2>3, <2>4, <2>5, Limit, SMT DEF Good
  <2>10. CASE len > MaxPayloadSize
    <3>1. DecodeFrame(buf).is = "error" BY <2>8, <2>10, SMT DEF Decoded
    <3> QED BY <2>9, <2>10, <3>1
  <2>11. CASE ~(len > MaxPayloadSize) /\ Len(buf) < 6 + len
    <3>1. DecodeFrame(buf).is = "none" BY <2>8, <2>11, SMT DEF Decoded
    <3>2. Len(buf) < Len(f) BY <1>2, <1>3, <2>5, <2>11
    <3> QED BY <1>1, <3>1, <3>2
  <2>12. CASE ~(len > MaxPayloadSize) /\ ~(Len(buf) < 6 + len)
    <3>0. len = k BY <2>5, <2>12
    <3>1. len = k /\ 6 + len = Len(f) /\ Len(f) <= Len(buf) BY <1>2, <1>3, <2>12, <3>0
    <3>2. CASE t \notin KnownTypes
      <4>1. DecodeFrame(buf) = [is |-> "error"] BY <2>8, <2>12, <3>2 DEF Decoded
      <4>2. DecodeFrame(buf).is = "error" BY <4>1
      <4> QED BY <2>9, <3>2, <4>2
    <3>3. CASE t \in KnownTypes
      <4>1. DecodeFrame(buf) = [is |-> "message", msg |-> [type |-> t, payload |-> y], rest |-> more]
        BY <2>8, <2>12, <3>3 DEF Decoded
      <4>2. buf \o w = f \o rest BY <1>a DEF SameBytes
      <4>3. SubSeq(buf, 1, Len(f)) = f /\ After(buf, Len(f)) \in Seq(Byte) /\ After(buf, Len(f)) \o w = rest
        BY <1>b, <3>1
      <4>4. more \in Seq(Byte) /\ more \o w = rest BY <2>6, <3>1, <4>3
      <4>5. y = p
        <5>1. y \in Seq(Byte) /\ Len(y) = k /\ \A i \in 1..k : y[i] = buf[6 + i]
          BY <1>2, <1>3, <2>6, <3>1
        <5>2. PICK x : x = buf \o w /\ x = f \o rest BY <4>2
        <5>3. Join(x, buf, w) /\ Join(x, f, rest) BY <5>2, Joined
        <5>4. ASSUME NEW i \in 1..k PROVE y[i] = p[i]
          <6>1. 6 + i \in 1..Len(f) /\ 6 + i \in 1..Len(buf) BY <1>2, <1>3, <3>1
          <6>2. buf[6 + i] = f[6 + i] BY <5>3, <6>1 DEF Join
          <6> QED BY <1>2, <1>3, <5>1, <6>2
        <5> QED BY <1>3, <5>1, <5>4, SeqEqual
      <4>6. /\ DecodeFrame(buf).is = "message" /\ DecodeFrame(buf).rest = more
            /\ DecodeFrame(buf).msg = [type |-> t, payload |-> y]
        BY <4>1
      <4> QED BY <1>1, <2>4, <2>9, <2>12, <3>3, <4>4, <4>5, <4>6
    <3> QED BY <3>2, <3>3
  <2> QED BY <2>10, <2>11, <2>12
<1> QED BY <1>4, <1>5

-----------------------------------------------------------------------------
\* Variable-length numbers.  A varint whose first byte is b has n bytes.
HasForm(b, n) == b \in Forms[n].low..Forms[n].high

\* The range of the first byte of each form.
LEMMA FormsAre ==
    ASSUME NEW b \in Byte
    PROVE  /\ HasForm(b, 1) <=> b <= 127
           /\ HasForm(b, 2) <=> 128 <= b /\ b <= 191
           /\ HasForm(b, 3) <=> 192 <= b /\ b <= 223
           /\ HasForm(b, 4) <=> 224 <= b /\ b <= 239
           /\ HasForm(b, 5) <=> b = 240
BY DEF Forms, HasForm, Byte

\* No byte starts two forms.
LEMMA OneForm ==
    ASSUME NEW b \in Byte, NEW n \in 1..5, HasForm(b, n), NEW k \in 1..5, HasForm(b, k) PROVE k = n
<1>1. /\ n = 1 \/ n = 2 \/ n = 3 \/ n = 4 \/ n = 5
      /\ k = 1 \/ k = 2 \/ k = 3 \/ k = 4 \/ k = 5
  OBVIOUS
<1> QED BY <1>1, FormsAre DEF Byte

\* What VarintRead takes for the digits of the number.
Digits(buf, n) == <<buf[1] - Forms[n].low>> \o SubSeq(buf, 2, n)

\* VarintRead on bytes of a form.
LEMMA ReadForm ==
    ASSUME NEW buf \in Seq(Byte), NEW n \in 1..5, n <= Len(buf), HasForm(buf[1], n)
    PROVE  VarintRead(buf) = [ok |-> TRUE, n |-> n, val |-> BigEndian(Digits(buf, n))]
<1>1. buf # << >> /\ buf[1] \in Byte OBVIOUS
<1>2. PICK k : k = CHOOSE j \in 1..5 : HasForm(buf[1], j) OBVIOUS
<1>3. k \in 1..5 /\ HasForm(buf[1], k) BY <1>2
<1>4. k = n BY <1>1, <1>3, OneForm
<1>5. VarintRead(buf) = IF Len(buf) < k THEN [ok |-> FALSE]
                        ELSE [ok |-> TRUE, n |-> k, val |-> BigEndian(Digits(buf, k))]
  BY <1>1, <1>2, Zenon DEF VarintRead, HasForm, Digits
<1>6. ~(Len(buf) < n) OBVIOUS
<1> QED BY <1>4, <1>5, <1>6

\* The digits are the bytes, the first one without its prefix.
LEMMA DigitsAre ==
    ASSUME NEW buf \in Seq(Byte), NEW n \in 1..5, n <= Len(buf), HasForm(buf[1], n)
    PROVE  /\ Len(Digits(buf, n)) = n
           /\ Digits(buf, n)[1] = buf[1] - Forms[n].low /\ buf[1] - Forms[n].low \in Nat
           /\ \A i \in 2..n : Digits(buf, n)[i] = buf[i] /\ buf[i] \in Nat
<1>a. \A i \in 1..Len(buf) : buf[i] \in Byte OBVIOUS
<1>b. \A x \in Byte : x \in Nat BY DEF Byte
<1>1. buf[1] \in Byte /\ \A i \in 2..n : buf[i] \in Nat BY <1>a, <1>b
<1>2. PICK d : d = buf[1] - Forms[n].low OBVIOUS
<1>3. d \in Nat /\ d \in Byte
  <2>1. n = 1 \/ n = 2 \/ n = 3 \/ n = 4 \/ n = 5 OBVIOUS
  <2>2. Forms[n].low \in Nat /\ Forms[n].high \in Nat BY <2>1 DEF Forms
  <2>3. PICK l \in Nat, h \in Nat : l = Forms[n].low /\ h = Forms[n].high BY <2>2
  <2>4. PICK b \in Byte : b = buf[1] BY <1>1
  <2>5. b \in l..h BY <2>3, <2>4 DEF HasForm
  <2>6. d = b - l BY <1>2, <2>3, <2>4
  <2> QED BY <2>5, <2>6 DEF Byte
<1>4. PICK t : t = SubSeq(buf, 2, n) OBVIOUS
<1>5. t \in Seq(Byte) /\ Len(t) = n - 1 /\ \A i \in 1..(n - 1) : t[i] = buf[i + 1] BY <1>4
<1>6. PICK w : w = <<d>> \o t OBVIOUS
<1>7. Len(w) = n /\ w[1] = d /\ \A i \in 1..(n - 1) : w[1 + i] = t[i]
  <2>1. <<d>> \in Seq(Byte) /\ Len(<<d>>) = 1 /\ <<d>>[1] = d BY <1>3
  <2>2. Join(w, <<d>>, t) BY <1>5, <1>6, <2>1, Joined
  <2> QED BY <1>5, <2>1, <2>2 DEF Join
<1>8. ASSUME NEW i \in 2..n PROVE w[i] = buf[i]
  <2>1. i - 1 \in 1..(n - 1) /\ 1 + (i - 1) = i /\ (i - 1) + 1 = i OBVIOUS
  <2>2. w[1 + (i - 1)] = t[i - 1] /\ t[i - 1] = buf[(i - 1) + 1] BY <1>5, <1>7, <2>1
  <2> QED BY <2>1, <2>2
<1>9. Digits(buf, n) = w BY <1>2, <1>4, <1>6 DEF Digits
<1> QED BY <1>1, <1>2, <1>3, <1>7, <1>8, <1>9

\* A number is read back from the bytes that VarintWrite gives, whatever follows.
ReadsBack(v, w, rest) ==
    VarintRead(w \o rest) = [ok |-> TRUE, n |-> Len(w), val |-> v]

\* Bytes of a form whose digits have the value v are read as v.
LEMMA Back ==
    ASSUME NEW w \in Seq(Byte), NEW rest \in Seq(Byte), NEW n \in 1..5, Len(w) = n, HasForm(w[1], n),
           NEW v, \A s : /\ Len(s) = n /\ s[1] = w[1] - Forms[n].low /\ s[1] \in Nat
                         /\ \A i \in 2..n : s[i] = w[i] /\ w[i] \in Nat
                         => BigEndian(s) = v
    PROVE  ReadsBack(v, w, rest)
<1>1. PICK buf : buf = w \o rest OBVIOUS
<1>2. buf \in Seq(Byte) /\ Join(buf, w, rest) BY <1>1, Joined
<1>3. n <= Len(buf) /\ buf[1] = w[1] /\ \A i \in 2..n : buf[i] = w[i] BY <1>2 DEF Join
<1>4. HasForm(buf[1], n) BY <1>3
<1>5. PICK s : s = Digits(buf, n) OBVIOUS
<1>6. /\ Len(s) = n /\ s[1] = buf[1] - Forms[n].low /\ buf[1] - Forms[n].low \in Nat
      /\ \A i \in 2..n : s[i] = buf[i] /\ buf[i] \in Nat
  BY <1>2, <1>3, <1>4, <1>5, DigitsAre
<1>7. BigEndian(s) = v BY <1>3, <1>6
<1>8. VarintRead(buf) = [ok |-> TRUE, n |-> n, val |-> BigEndian(s)] BY <1>2, <1>3, <1>4, <1>5, ReadForm
<1> QED BY <1>1, <1>7, <1>8 DEF ReadsBack

\* One byte.
LEMMA Back1 ==
    ASSUME NEW v, Fits(v), v < 128, NEW rest \in Seq(Byte)
    PROVE  VarintWrite(v) \in Seq(Byte) /\ ReadsBack(v, VarintWrite(v), rest)
<1>1. v \in Byte /\ v \in Nat BY SMT DEF Fits, Byte
<1>2. PICK w : w = <<v>> OBVIOUS
<1>3. VarintWrite(v) = w BY <1>2, SMT DEF VarintWrite
<1>4. w \in Seq(Byte) /\ Len(w) = 1 /\ w[1] = v BY <1>1, <1>2
<1>5. HasForm(w[1], 1) BY <1>1, <1>4, FormsAre
<1>6. w[1] - Forms[1].low = v BY <1>1, <1>4 DEF Forms
<1>7. ASSUME NEW s, Len(s) = 1, s[1] = w[1] - Forms[1].low, s[1] \in Nat PROVE BigEndian(s) = v
  BY <1>6, <1>7, Number1
<1>8. ReadsBack(v, w, rest) BY <1>4, <1>5, <1>7, Back
<1> QED BY <1>3, <1>4, <1>8

\* Two bytes.
LEMMA Back2 ==
    ASSUME NEW v, Fits(v), ~(v < 128), v < 16384, NEW rest \in Seq(Byte)
    PROVE  VarintWrite(v) \in Seq(Byte) /\ ReadsBack(v, VarintWrite(v), rest)
<1>1. PICK q \in Nat, r \in Nat : q = v \div 256 /\ r = v % 256 BY SMT DEF Fits
<1>2. q < 64 /\ r < 256 /\ q * 256 + r = v BY <1>1, SMT DEF Fits
<1>3. PICK p \in Byte : p = 128 + q BY <1>2, SMT DEF Byte
<1>4. r \in Byte /\ 128 <= p /\ p <= 191 BY <1>2, <1>3, SMT DEF Byte
<1>5. VarintWrite(v) = <<p, r>> BY <1>1, <1>3, SMT DEF VarintWrite
<1>6. PICK w : w = <<p, r>> BY ONLY TRUE
<1>7. w \in Seq(Byte) /\ Len(w) = 2 /\ w[1] = p /\ w[2] = r BY ONLY p \in Byte, <1>4, <1>6
<1>8. HasForm(w[1], 2) BY ONLY p \in Byte, <1>4, <1>7, FormsAre
<1>9. w[1] - Forms[2].low = q BY ONLY <1>3, <1>7, q \in Nat DEF Forms
<1>10. ASSUME NEW s, Len(s) = 2, s[1] = w[1] - Forms[2].low, s[1] \in Nat,
             \A i \in 2..2 : s[i] = w[i] /\ w[i] \in Nat
      PROVE  BigEndian(s) = v
  <2>1. s[1] = q /\ s[2] = r BY ONLY <1>7, <1>9, <1>10
  <2>2. BigEndian(s) = s[1] * 256 + s[2] BY ONLY <1>10, <2>1, q \in Nat, r \in Nat, Number2
  <2> QED BY <1>2, <2>1, <2>2, SMT
<1>11. ReadsBack(v, w, rest) BY ONLY rest \in Seq(Byte), <1>7, <1>8, <1>10, Back
<1> QED BY <1>5, <1>6, <1>7, <1>11, SMT

\* Three bytes.
LEMMA Back3 ==
    ASSUME NEW v, Fits(v), ~(v < 16384), v < 2097152, NEW rest \in Seq(Byte)
    PROVE  VarintWrite(v) \in Seq(Byte) /\ ReadsBack(v, VarintWrite(v), rest)
<1>1. PICK b \in Nat, c \in Nat, d \in Nat, s \in Nat :
        b = v \div 65536 /\ c = v \div 256 /\ d = v % 256 /\ s = c % 256
  BY SMT DEF Fits
<1>2. b < 32 /\ d < 256 /\ s < 256 /\ v = 256 * c + d /\ c = 256 * b + s BY <1>1, SMT DEF Fits
<1>3. b * 65536 + s * 256 + d = v BY <1>2, SMT
<1>4. PICK p \in Byte : p = 192 + b BY <1>2, SMT DEF Byte
<1>5. s \in Byte /\ d \in Byte /\ 192 <= p /\ p <= 223 BY <1>2, <1>4, SMT DEF Byte
<1>6. VarintWrite(v) = <<p, s, d>> BY <1>1, <1>4, SMT DEF VarintWrite, Fits
<1>7. PICK w : w = <<p, s, d>> BY ONLY TRUE
<1>8. w \in Seq(Byte) /\ Len(w) = 3 /\ w[1] = p /\ w[2] = s /\ w[3] = d BY ONLY p \in Byte, <1>5, <1>7
<1>9. HasForm(w[1], 3) BY ONLY p \in Byte, <1>5, <1>8, FormsAre
<1>10. w[1] - Forms[3].low = b BY ONLY <1>4, <1>8, b \in Nat DEF Forms
<1>11. ASSUME NEW t, Len(t) = 3, t[1] = w[1] - Forms[3].low, t[1] \in Nat,
              \A i \in 2..3 : t[i] = w[i] /\ w[i] \in Nat
       PROVE  BigEndian(t) = v
  <2>1. t[1] = b /\ t[2] = s /\ t[3] = d BY ONLY <1>8, <1>10, <1>11
  <2>2. BigEndian(t) = t[1] * 65536 + t[2] * 256 + t[3]
    <3>1. Len(t) = 3 /\ t[1] \in Nat /\ t[2] \in Nat /\ t[3] \in Nat
      BY ONLY <1>11, <2>1, b \in Nat, s \in Nat, d \in Nat
    <3> QED BY ONLY <3>1, Number3, SMTT(40)
  <2> QED BY <1>3, <2>1, <2>2, SMT
<1>12. ReadsBack(v, w, rest) BY ONLY rest \in Seq(Byte), <1>8, <1>9, <1>11, Back
<1> QED BY <1>6, <1>7, <1>8, <1>12, SMT

\* Four bytes.
LEMMA Back4 ==
    ASSUME NEW v, Fits(v), ~(v < 2097152), v < 268435456, NEW rest \in Seq(Byte)
    PROVE  VarintWrite(v) \in Seq(Byte) /\ ReadsBack(v, VarintWrite(v), rest)
<1>1. PICK a \in Byte, b \in Byte, c \in Byte, d \in Byte :
        /\ a = Top(v) /\ b = High(v) /\ c = Low(v) /\ d = End(v)
        /\ a * 16777216 + b * 65536 + c * 256 + d = v
  BY Bits32, SMT
<1>0. v \in Nat BY SMT DEF Fits
<1>2. a < 16
  <2>1. a \in Nat /\ b \in Nat /\ c \in Nat /\ d \in Nat BY SMT DEF Byte
  <2>2. a * 16777216 + b * 65536 + c * 256 + d = v BY <1>1, SMT
  <2>3. a * 16777216 <= v BY ONLY <1>0, <2>1, <2>2, SMT
  <2> QED BY ONLY <1>0, <2>1, <2>3, v < 268435456, SMT
<1>3. PICK p \in Byte : p = 224 + a BY <1>2, SMT DEF Byte
<1>4. 224 <= p /\ p <= 239 BY <1>2, <1>3, SMT DEF Byte
<1>5. VarintWrite(v) = <<p, b, c, d>>
  BY <1>1, <1>3, SMT DEF VarintWrite, Fits, Top, High, Low, End
<1>6. PICK w : w = <<p, b, c, d>> BY ONLY TRUE
<1>7. w \in Seq(Byte) /\ Len(w) = 4 /\ w[1] = p /\ w[2] = b /\ w[3] = c /\ w[4] = d
  BY ONLY p \in Byte, b \in Byte, c \in Byte, d \in Byte, <1>6
<1>8. HasForm(w[1], 4) BY ONLY p \in Byte, <1>4, <1>7, FormsAre
<1>9. a \in Nat /\ b \in Nat /\ c \in Nat /\ d \in Nat BY SMT DEF Byte
<1>10. w[1] - Forms[4].low = a BY ONLY <1>3, <1>7, <1>9 DEF Forms
<1>11. ASSUME NEW t, Len(t) = 4, t[1] = w[1] - Forms[4].low, t[1] \in Nat,
              \A i \in 2..4 : t[i] = w[i] /\ w[i] \in Nat
       PROVE  BigEndian(t) = v
  <2>1. t[1] = a /\ t[2] = b /\ t[3] = c /\ t[4] = d BY ONLY <1>7, <1>10, <1>11
  <2>2. t[1] = Top(v) /\ t[2] = High(v) /\ t[3] = Low(v) /\ t[4] = End(v) BY <1>1, <2>1, SMT
  <2> QED BY ONLY <1>11, <2>2, Fits(v), Word, SMT
<1>12. ReadsBack(v, w, rest) BY ONLY rest \in Seq(Byte), <1>7, <1>8, <1>11, Back
<1> QED BY <1>5, <1>6, <1>7, <1>12, SMT

\* Five bytes.
LEMMA Back5 ==
    ASSUME NEW v, Fits(v), ~(v < 268435456), NEW rest \in Seq(Byte)
    PROVE  VarintWrite(v) \in Seq(Byte) /\ ReadsBack(v, VarintWrite(v), rest)
<1>1. PICK a \in Byte, b \in Byte, c \in Byte, d \in Byte :
        /\ a = Top(v) /\ b = High(v) /\ c = Low(v) /\ d = End(v)
        /\ a * 16777216 + b * 65536 + c * 256 + d = v
  BY Bits32, SMT
<1>2. PICK u : u = U32(v) OBVIOUS
<1>3. u \in Seq(Byte) /\ Len(u) = 4 /\ u[1] = a /\ u[2] = b /\ u[3] = c /\ u[4] = d
  BY <1>1, <1>2, Header32, SMT
<1>4. VarintWrite(v) = <<240>> \o u BY <1>2, SMT DEF VarintWrite, Fits
<1>5. PICK w : w = <<240>> \o u BY ONLY TRUE
<1>6. w \in Seq(Byte) /\ Len(w) = 5 /\ w[1] = 240 /\ w[2] = a /\ w[3] = b /\ w[4] = c /\ w[5] = d
  <2>1. 240 \in Byte BY ONLY TRUE DEF Byte
  <2>2. <<240>> \in Seq(Byte) /\ Len(<<240>>) = 1 /\ <<240>>[1] = 240 BY ONLY <2>1
  <2>3. u \in Seq(Byte) /\ Len(u) = 4 BY <1>3, SMT
  <2>4. w \in Seq(Byte) /\ Join(w, <<240>>, u) BY ONLY <1>5, <2>2, <2>3, Joined, ZenonT(40)
  <2>5. Len(w) = 1 + 4 /\ w[1] = 240 /\ \A i \in 1..4 : w[1 + i] = u[i] BY ONLY <2>2, <2>3, <2>4 DEF Join
  <2>6. w[1 + 1] = u[1] /\ w[1 + 2] = u[2] /\ w[1 + 3] = u[3] /\ w[1 + 4] = u[4] BY ONLY <2>5
  <2> QED BY ONLY <1>3, <2>4, <2>5, <2>6
<1>7. HasForm(w[1], 5)
  <2>1. 240 \in Byte BY ONLY TRUE DEF Byte
  <2> QED BY ONLY <1>6, <2>1, FormsAre
<1>8. a \in Nat /\ b \in Nat /\ c \in Nat /\ d \in Nat BY SMT DEF Byte
<1>9. w[1] - Forms[5].low = 0 BY ONLY <1>6 DEF Forms
<1>10. ASSUME NEW t, Len(t) = 5, t[1] = w[1] - Forms[5].low, t[1] \in Nat,
              \A i \in 2..5 : t[i] = w[i] /\ w[i] \in Nat
       PROVE  BigEndian(t) = v
  <2>1. t[1] = 0 /\ t[2] = a /\ t[3] = b /\ t[4] = c /\ t[5] = d BY ONLY <1>6, <1>9, <1>10
  <2>2. t[2] = Top(v) /\ t[3] = High(v) /\ t[4] = Low(v) /\ t[5] = End(v) BY <1>1, <2>1, SMT
  <2> QED BY ONLY <1>10, <2>1, <2>2, Fits(v), LongWord, SMT
<1>11. ReadsBack(v, w, rest) BY ONLY rest \in Seq(Byte), <1>6, <1>7, <1>10, Back
<1> QED BY <1>4, <1>5, <1>6, <1>11, SMT

\* MumbleVarint::read gives back every number of 32 bits that MumbleVarint::write
\* wrote, and takes exactly its bytes.
LEMMA VarintBack ==
    ASSUME NEW v, Fits(v), NEW rest \in Seq(Byte)
    PROVE  VarintWrite(v) \in Seq(Byte) /\ ReadsBack(v, VarintWrite(v), rest)
<1>1. CASE v < 128 BY <1>1, Back1, SMT
<1>2. CASE ~(v < 128) /\ v < 16384 BY <1>2, Back2, SMT
<1>3. CASE ~(v < 16384) /\ v < 2097152 BY <1>3, Back3, SMT
<1>4. CASE ~(v < 2097152) /\ v < 268435456 BY <1>4, Back4, SMT
<1>5. CASE ~(v < 268435456) BY <1>5, Back5, SMT
<1> QED BY <1>1, <1>2, <1>3, <1>4, <1>5, SMT DEF Fits

-----------------------------------------------------------------------------
\* What follows the first part of a concatenation is the second.
LEMMA Behind ==
    ASSUME NEW T, NEW a \in Seq(T), NEW b \in Seq(T)
    PROVE  SubSeq(a \o b, Len(a) + 1, Len(a \o b)) = b
<1>1. PICK w : w = a \o b OBVIOUS
<1>2. w \in Seq(T) /\ Join(w, a, b) BY <1>1, Joined
<1>3. PICK n \in Nat, k \in Nat : n = Len(a) /\ k = Len(b) OBVIOUS
<1>4. Len(w) = n + k /\ \A i \in 1..k : w[n + i] = b[i] BY <1>2, <1>3 DEF Join
<1>5. PICK s : s = SubSeq(w, n + 1, n + k) OBVIOUS
<1>6. s \in Seq(T) /\ Len(s) = k /\ \A i \in 1..k : s[i] = w[n + i] BY <1>2, <1>4, <1>5
<1>7. \A i \in 1..k : s[i] = b[i] BY <1>4, <1>6
<1>8. s = b BY <1>3, <1>6, <1>7, SeqEqual
<1> QED BY <1>1, <1>3, <1>4, <1>5, <1>8

\* The first byte and the rest.
LEMMA HeadTail ==
    ASSUME NEW T, NEW x \in T, NEW b \in Seq(T)
    PROVE  Head(<<x>> \o b) = x /\ Tail(<<x>> \o b) = b
<1>1. <<x>> \in Seq(T) /\ Len(<<x>>) = 1 /\ <<x>>[1] = x OBVIOUS
<1>2. PICK w : w = <<x>> \o b OBVIOUS
<1>3. w \in Seq(T) /\ Join(w, <<x>>, b) BY <1>1, <1>2, Joined
<1>4. w[1] = x /\ Len(w) = 1 + Len(b) BY <1>1, <1>3 DEF Join
<1>5. SubSeq(w, 1 + 1, Len(w)) = b BY <1>1, <1>2, Behind
<1>6. Tail(w) = SubSeq(w, 2, Len(w))
  <2>1. w # << >> BY <1>4, <1>3
  <2>2. Tail(w) \in Seq(T) /\ Len(Tail(w)) = Len(w) - 1 /\ \A i \in 1..(Len(w) - 1) : Tail(w)[i] = w[i + 1]
    BY <1>3, <2>1
  <2>3. PICK s : s = SubSeq(w, 2, Len(w)) OBVIOUS
  <2>4. s \in Seq(T) /\ Len(s) = Len(w) - 1 /\ \A i \in 1..(Len(w) - 1) : s[i] = w[i + 1]
    BY <1>3, <1>4, <2>3
  <2> QED BY <2>2, <2>3, <2>4, SeqEqual
<1>7. Head(w) = w[1] BY <1>3, <1>4
<1> QED BY <1>2, <1>4, <1>5, <1>6, <1>7

\* The two parts of the length field of a packet.
LenOf(z) == z % 8192
EndOf(z) == (z \div 8192) % 2 = 1

\* The bytes of x from the n-th on.
Beyond(x, n) == SubSeq(x, n, Len(x))

\* Where the second and the third number and the sound of a packet start.
Second(data, a) == Beyond(data, 2 + a)
Third(data, a, b) == Beyond(data, 2 + a + b)
Start(a, b, c) == 1 + a + b + c

\* A number v was read from n bytes.
Found(r, n, v) == r = [ok |-> TRUE, n |-> n, val |-> v]

\* The numbers of a packet and their lengths.
Reads(data, a, b, c, x, y, z) ==
    /\ Found(VarintRead(Tail(data)), a, x)
    /\ Found(VarintRead(Second(data, a)), b, y)
    /\ Found(VarintRead(Third(data, a, b)), c, z)
    /\ LenOf(z) \in Nat /\ Len(data) = Start(a, b, c) + LenOf(z)

\* The packet that is decoded from them.
Packet(data, x, y, z, from) ==
    [ok |-> TRUE, session |-> x,
     audio |-> [target |-> Head(data) % Targets, frame |-> y, end |-> EndOf(z),
                opus |-> Beyond(data, from + 1)]]

\* The three numbers of a packet and its sound, read one after the other.
LEMMA LegacySteps ==
    ASSUME NEW data, NEW a \in Nat, NEW b \in Nat, NEW c \in Nat, NEW x, NEW y, NEW z \in Nat,
           Reads(data, a, b, c, x, y, z)
    PROVE  LegacyDecodeAudio(data) = Packet(data, x, y, z, Start(a, b, c))
<1> USE DEF Reads
<1>0. PICK from \in Nat : /\ from = 1 + a + b + c /\ from = Start(a, b, c)
                          /\ from + LenOf(z) = Len(data) /\ Len(data) \in Nat
  BY DEF Start
<1>1. PICK s : s = VarintRead(Tail(data)) OBVIOUS
<1>2. s.ok /\ s.n = a /\ s.val = x BY <1>1 DEF Found
<1>3. PICK f : f = IF s.ok THEN VarintRead(SubSeq(data, 2 + s.n, Len(data))) ELSE s OBVIOUS
<1>4. f.ok /\ f.n = b /\ f.val = y BY <1>2, <1>3 DEF Found, Second, Beyond
<1>5. PICK l : l = IF f.ok THEN VarintRead(SubSeq(data, 2 + s.n + f.n, Len(data))) ELSE f OBVIOUS
<1>6. l.ok /\ l.n = c /\ l.val = z BY <1>2, <1>4, <1>5 DEF Found, Third, Beyond
<1>7. LegacyDecodeAudio(data) =
        LET from1 == 1 + s.n + f.n + l.n
            len == LenOf(l.val)
        IN IF ~l.ok \/ (l.ok /\ from1 + len > Len(data)) THEN [ok |-> FALSE]
           ELSE [ok |-> TRUE, session |-> s.val,
             audio |-> [target |-> Head(data) % Targets, frame |-> f.val,
                        end |-> EndOf(l.val),
                        opus |-> SubSeq(data, from1 + 1, from1 + len)]]
  BY <1>1, <1>3, <1>5 DEF LegacyDecodeAudio, LenOf, EndOf
<1>8. ~(~l.ok \/ (l.ok /\ from + LenOf(z) > Len(data))) BY <1>0, <1>6
<1>9. LegacyDecodeAudio(data) =
        IF ~l.ok \/ (l.ok /\ from + LenOf(z) > Len(data)) THEN [ok |-> FALSE]
        ELSE [ok |-> TRUE, session |-> x,
             audio |-> [target |-> Head(data) % Targets, frame |-> y, end |-> EndOf(z),
                        opus |-> SubSeq(data, from + 1, from + LenOf(z))]]
  BY <1>0, <1>2, <1>4, <1>6, <1>7, Zenon
<1>10. SubSeq(data, from + 1, from + LenOf(z)) = Beyond(data, from + 1) BY <1>0, Zenon DEF Beyond
<1> QED BY <1>0, <1>8, <1>9, <1>10, Zenon DEF Packet

\* The length field of a packet: the size of the sound, and the terminator.
LengthField(n, e) == (n % 8192) + (IF e THEN 8192 ELSE 0)

\* Size and terminator are read back from the length field.
LEMMA LengthBack ==
    ASSUME NEW n \in Nat, n < 8192, NEW e \in BOOLEAN
    PROVE  \E z \in Nat : /\ z = LengthField(n, e) /\ Fits(z) /\ LenOf(z) = n
                          /\ EndOf(z) <=> e
<1>1. CASE e
  <2>1. PICK z \in Nat : z = n + 8192 BY SMT
  <2>2. z = LengthField(n, e) BY <1>1, <2>1, SMT DEF LengthField
  <2>3. z % 8192 = n /\ (z \div 8192) % 2 = 1 /\ z \div 16777216 < 256 BY <2>1, SMT
  <2>4. Fits(z) BY <2>3, SMT DEF Fits
  <2>5. EndOf(z) <=> e BY <1>1, <2>3, SMT DEF EndOf
  <2>6. LenOf(z) = n BY <2>3, SMT DEF LenOf
  <2> QED BY ONLY z \in Nat, <2>2, <2>4, <2>5, <2>6, Zenon
<1>2. CASE ~e
  <2>1. n = LengthField(n, e) BY <1>2, SMT DEF LengthField
  <2>2. n % 8192 = n /\ ~((n \div 8192) % 2 = 1) /\ n \div 16777216 < 256 BY SMT
  <2>3. Fits(n) BY <2>2, SMT DEF Fits
  <2>4. EndOf(n) <=> e BY <1>2, <2>2, SMT DEF EndOf
  <2>5. LenOf(n) = n BY <2>2, SMT DEF LenOf
  <2> QED BY ONLY n \in Nat, <2>1, <2>3, <2>4, <2>5, Zenon
<1> QED BY <1>1, <1>2

\* Type and target are read back from the header byte.
LEMMA TargetBack ==
    ASSUME NEW t \in 0..(Targets - 1)
    PROVE  \E h \in Byte : /\ h = OpusType * Targets + (t % Targets)
                           /\ h % Targets = t /\ h \div Targets = OpusType
BY SMT DEF Targets, OpusType, Byte

\* Concatenation, by name.
Cat(a, b) == a \o b

\* The kind and length of a concatenation.
LEMMA CatIs ==
    ASSUME NEW T, NEW a \in Seq(T), NEW b \in Seq(T)
    PROVE  Cat(a, b) \in Seq(T) /\ Len(Cat(a, b)) = Len(a) + Len(b)
BY DEF Cat

\* What follows its first part.
LEMMA CatBehind ==
    ASSUME NEW T, NEW a \in Seq(T), NEW b \in Seq(T)
    PROVE  Beyond(Cat(a, b), Len(a) + 1) = b
BY Behind DEF Cat, Beyond

\* Associativity.
LEMMA CatAssoc ==
    ASSUME NEW T, NEW a \in Seq(T), NEW b \in Seq(T), NEW c \in Seq(T)
    PROVE  Cat(a, Cat(b, c)) = Cat(Cat(a, b), c)
BY Assoc, SMTT(40) DEF Cat

\* Its first byte and the rest.
LEMMA CatHead ==
    ASSUME NEW T, NEW x \in T, NEW b \in Seq(T)
    PROVE  Head(Cat(<<x>>, b)) = x /\ Tail(Cat(<<x>>, b)) = b
BY HeadTail, Zenon DEF Cat

\* The packet a speaker sent, with the session put in, taken apart again.
IsPacket(packet, h, F, L, O) == packet = Cat(Cat(Cat(<<h>>, F), L), O)
IsRelayed(data, packet, S) == data = Cat(Cat(<<Head(packet)>>, S), Tail(packet))

\* The parts of a relayed packet and where they start.
Apart(T, data, h, S, F, L, O) ==
    /\ data \in Seq(T) /\ Head(data) = h
    /\ Tail(data) = Cat(S, Cat(F, Cat(L, O)))
    /\ Beyond(data, 2 + Len(S)) = Cat(F, Cat(L, O))
    /\ Beyond(data, 2 + Len(S) + Len(F)) = Cat(L, O)
    /\ Beyond(data, (1 + Len(S) + Len(F) + Len(L)) + 1) = O
    /\ Len(data) = 1 + Len(S) + Len(F) + Len(L) + Len(O)

LEMMA PacketParts ==
    ASSUME NEW T, NEW h \in T, NEW S \in Seq(T), NEW F \in Seq(T), NEW L \in Seq(T), NEW O \in Seq(T),
           NEW packet, IsPacket(packet, h, F, L, O), NEW data, IsRelayed(data, packet, S)
    PROVE  Apart(T, data, h, S, F, L, O)
<1>1. PICK H \in Seq(T) : H = <<h>> /\ Len(H) = 1 BY <<h>> \in Seq(T)
<1>2. PICK R2 \in Seq(T) : R2 = Cat(L, O) BY CatIs
<1>3. PICK R1 \in Seq(T) : R1 = Cat(F, R2) BY CatIs
<1>4. PICK R0 \in Seq(T) : R0 = Cat(S, R1) BY CatIs
<1>5. PICK P \in Seq(T) : P = Cat(H, F) BY CatIs
<1>6. packet = Cat(H, R1)
  <2>1. packet = Cat(Cat(P, L), O) BY <1>1, <1>5 DEF IsPacket
  <2>2. Cat(P, R2) = Cat(Cat(P, L), O) BY <1>2, CatAssoc
  <2>3. Cat(H, R1) = Cat(P, R2) BY <1>3, <1>5, CatAssoc
  <2> QED BY <2>1, <2>2, <2>3
<1>7. Head(packet) = h /\ Tail(packet) = R1 BY <1>1, <1>6, CatHead
<1>8. PICK P1 \in Seq(T) : P1 = Cat(H, S) BY CatIs
<1>9. PICK P2 \in Seq(T) : P2 = Cat(P1, F) BY CatIs
<1>10. PICK P3 \in Seq(T) : P3 = Cat(P2, L) BY CatIs
<1>11. data = Cat(P1, R1) BY <1>1, <1>7, <1>8 DEF IsRelayed
<1>12. data = Cat(H, R0) BY <1>4, <1>8, <1>11, CatAssoc
<1>13. data = Cat(P2, R2) BY <1>3, <1>9, <1>11, CatAssoc
<1>14. data = Cat(P3, O) BY <1>2, <1>10, <1>13, CatAssoc
<1>15. PICK i \in Nat, j \in Nat, k \in Nat, n \in Nat : i = Len(S) /\ j = Len(F) /\ k = Len(L) /\ n = Len(O)
  OBVIOUS
<1>16. Len(P1) = 1 + i BY <1>1, <1>8, <1>15, CatIs
<1>a. Len(P2) = Len(P1) + Len(F) BY <1>9, CatIs
<1>17. Len(P2) = 1 + i + j BY ONLY <1>a, <1>15, <1>16
<1>b. Len(P3) = Len(P2) + Len(L) BY <1>10, CatIs
<1>18. Len(P3) = 1 + i + j + k BY ONLY <1>b, <1>15, <1>17
<1>19. data \in Seq(T) /\ Len(data) = Len(P3) + Len(O) BY <1>14, CatIs
<1>20. Head(data) = h /\ Tail(data) = R0 BY <1>1, <1>12, CatHead
<1>21. Beyond(data, Len(P1) + 1) = R1 BY <1>11, CatBehind
<1>22. Beyond(data, Len(P2) + 1) = R2 BY <1>13, CatBehind
<1>23. Beyond(data, Len(P3) + 1) = O BY <1>14, CatBehind
<1>24. Len(P1) + 1 = 2 + i /\ Len(P2) + 1 = 2 + i + j /\ Len(P3) + 1 = (1 + i + j + k) + 1
  BY ONLY <1>16, <1>17, <1>18, i \in Nat, j \in Nat, k \in Nat
<1>25. /\ Beyond(data, 2 + i) = R1 /\ Beyond(data, 2 + i + j) = R2
       /\ Beyond(data, (1 + i + j + k) + 1) = O
  BY <1>21, <1>22, <1>23, <1>24, Zenon
<1>26. Len(data) = 1 + i + j + k + n BY ONLY <1>15, <1>18, <1>19
<1> QED BY <1>2, <1>3, <1>4, <1>15, <1>19, <1>20, <1>25, <1>26 DEF Apart

\* decode_tunnel_audio gives back the session and every field of the packet that a
\* speaker's client encoded and the server relayed.
LEMMA AudioBack ==
    ASSUME NEW session, Fits(session), NEW a, Spoken(a), NEW data,
           data = ServerRelaysAudio(session, LegacyEncodeAudio(a))
    PROVE  DecodeTunnelAudio(data) = [ok |-> TRUE, session |-> session, audio |-> a]
<1>1. PICK t \in 0..(Targets - 1), frame \in Nat, e \in BOOLEAN, O \in Seq(Byte) :
        a = [target |-> t, frame |-> frame, end |-> e, opus |-> O]
  BY SMT DEF Spoken
<1>2. Fits(frame) /\ Len(O) < 8192 BY <1>1, SMT DEF Spoken
<1>3. PICK h \in Byte : h = OpusType * Targets + (t % Targets) /\ h % Targets = t /\ h \div Targets = OpusType
  BY TargetBack
<1>4. PICK z \in Nat : z = LengthField(Len(O), e) /\ Fits(z) /\ LenOf(z) = Len(O) /\ (EndOf(z) <=> e)
  <2>1. Len(O) \in Nat OBVIOUS
  <2> QED BY ONLY <1>2, <2>1, e \in BOOLEAN, LengthBack
<1>5. PICK S \in Seq(Byte), F \in Seq(Byte), L \in Seq(Byte) :
        S = VarintWrite(session) /\ F = VarintWrite(frame) /\ L = VarintWrite(z)
  BY <1>2, <1>4, VarintBack
<1>6. PICK packet : packet = LegacyEncodeAudio(a) OBVIOUS
<1>7. IsPacket(packet, h, F, L, O)
  <2>1. a.target = t /\ a.frame = frame /\ a.end = e /\ a.opus = O BY <1>1
  <2> QED BY ONLY <1>3, <1>4, <1>5, <1>6, <2>1 DEF LegacyEncodeAudio, LengthField, Cat, IsPacket
<1>8. IsRelayed(data, packet, S)
  BY ONLY <1>5, <1>6, data = ServerRelaysAudio(session, LegacyEncodeAudio(a))
  DEF ServerRelaysAudio, Cat, IsRelayed
<1>9. PICK R1 \in Seq(Byte), R2 \in Seq(Byte) : R2 = Cat(L, O) /\ R1 = Cat(F, R2)
  BY CatIs
<1>10. /\ data \in Seq(Byte) /\ Head(data) = h /\ Tail(data) = Cat(S, R1)
       /\ Beyond(data, 2 + Len(S)) = R1
       /\ Beyond(data, 2 + Len(S) + Len(F)) = R2
       /\ Beyond(data, (1 + Len(S) + Len(F) + Len(L)) + 1) = O
       /\ Len(data) = 1 + Len(S) + Len(F) + Len(L) + Len(O)
  <2>1. Apart(Byte, data, h, S, F, L, O)
    BY ONLY h \in Byte, S \in Seq(Byte), F \in Seq(Byte), L \in Seq(Byte), O \in Seq(Byte), <1>7, <1>8, PacketParts
  <2> QED BY ONLY <1>9, <2>1 DEF Apart
<1>11. PICK i \in Nat, j \in Nat, k \in Nat, n \in Nat :
         i = Len(S) /\ j = Len(F) /\ k = Len(L) /\ n = Len(O)
  OBVIOUS
<1>13. /\ Second(data, i) = R1 /\ Third(data, i, j) = R2 /\ Beyond(data, Start(i, j, k) + 1) = O
       /\ Start(i, j, k) \in Nat /\ Start(i, j, k) # 0 /\ Len(data) = Start(i, j, k) + n
  BY ONLY <1>10, <1>11 DEF Second, Third, Start
<1>14. Found(VarintRead(Tail(data)), i, session)
  <2>1. ReadsBack(session, S, R1) BY <1>5, VarintBack
  <2> QED BY ONLY <1>10, <1>11, <2>1 DEF ReadsBack, Found, Cat
<1>15. Found(VarintRead(Second(data, i)), j, frame)
  <2>1. ReadsBack(frame, F, R2) BY <1>2, <1>5, VarintBack
  <2> QED BY ONLY <1>9, <1>11, <1>13, <2>1 DEF ReadsBack, Found, Cat
<1>16. Found(VarintRead(Third(data, i, j)), k, z)
  <2>1. ReadsBack(z, L, O) BY <1>4, <1>5, VarintBack
  <2> QED BY ONLY <1>9, <1>11, <1>13, <2>1 DEF ReadsBack, Found, Cat
<1>17. LenOf(z) \in Nat /\ Len(data) = Start(i, j, k) + LenOf(z)
  BY ONLY <1>4, <1>11, <1>13, n \in Nat
<1>18. LegacyDecodeAudio(data) = Packet(data, session, frame, z, Start(i, j, k))
  <2>1. Reads(data, i, j, k, session, frame, z) BY ONLY <1>14, <1>15, <1>16, <1>17 DEF Reads
  <2> QED BY ONLY <2>1, i \in Nat, j \in Nat, k \in Nat, z \in Nat, LegacySteps
<1>19. EndOf(z) = e BY ONLY <1>4, e \in BOOLEAN DEF EndOf
<1>20. Head(data) % Targets = t /\ Head(data) \div Targets = OpusType BY ONLY <1>3, <1>10
<1>21. LegacyDecodeAudio(data) = [ok |-> TRUE, session |-> session, audio |-> a]
  BY ONLY <1>1, <1>13, <1>18, <1>19, <1>20, Zenon DEF Packet
<1>22. data # << >>
  <2>1. Len(data) # 0 BY ONLY <1>13, n \in Nat
  <2> QED BY ONLY <2>1
<1> QED BY ONLY <1>20, <1>21, <1>22 DEF DecodeTunnelAudio

-----------------------------------------------------------------------------
\* The bytes of the messages after the first k.
Rest(p, k) == FlattenSeq([i \in 1..(Len(p) - k) |-> Frame(p[i + k])])

\* They are bytes.
LEMMA RestTyped ==
    ASSUME NEW p \in Seq(Outgoing), NEW k \in 0..Len(p) PROVE Rest(p, k) \in Seq(Byte)
<1>0. Len(p) \in Nat OBVIOUS
<1>1. PICK n \in Nat : n = Len(p) - k BY <1>0, SMT
<1>2. PICK s : s = [i \in 1..n |-> Frame(p[i + k])] OBVIOUS
<1>3. ASSUME NEW i \in 1..n PROVE s[i] \in Seq(Byte)
  <2>1. i + k \in 1..Len(p) BY <1>1
  <2>2. p[i + k] \in Outgoing BY <2>1
  <2> QED BY <1>2, <2>2, OutgoingAssumption, FrameBytes
<1>4. s \in Seq(Seq(Byte)) BY <1>2, <1>3
<1> QED BY <1>1, <1>2, <1>4, FlattenTyped DEF Rest

\* After all messages there are none.
LEMMA RestNone ==
    ASSUME NEW p \in Seq(Outgoing) PROVE Rest(p, Len(p)) = << >>
<1>1. Len(p) \in Nat /\ Len(p) - Len(p) = 0 OBVIOUS
<1>2. PICK s : s = [i \in 1..0 |-> Frame(p[i + Len(p)])] OBVIOUS
<1>3. s = << >> /\ Len(s) = 0 BY <1>2
<1>4. Rest(p, Len(p)) = FlattenSeq(s) BY <1>1, <1>2 DEF Rest
<1> QED BY <1>3, <1>4, FlattenNone

\* The bytes after k messages start with the frame of the next one.
LEMMA RestFirst ==
    ASSUME NEW p \in Seq(Outgoing), NEW k \in Nat, k < Len(p)
    PROVE  Rest(p, k) = Frame(p[k + 1]) \o Rest(p, k + 1)
<1>0. Len(p) \in Nat OBVIOUS
<1>a. PICK l \in Nat : l = Len(p) BY <1>0
<1>c. k < l BY <1>a
<1>d. l - (k + 1) \in Nat BY ONLY <1>c, k \in Nat, l \in Nat
<1>b. PICK n \in Nat : n = l - (k + 1) BY <1>d
<1>1. n = Len(p) - (k + 1) BY <1>a, <1>b
<1>2. Len(p) - k = n + 1 /\ Len(p) \in Nat BY <1>1
<1>3. PICK s : s = [i \in 1..(n + 1) |-> Frame(p[i + k])] OBVIOUS
<1>4. PICK t : t = [i \in 1..n |-> Frame(p[i + (k + 1)])] OBVIOUS
<1>5. PICK x : x = Frame(p[k + 1]) OBVIOUS
<1>6. \A i \in 1..Len(p) : Frame(p[i]) \in Seq(Byte) BY OutgoingAssumption, FrameBytes
<1>7. x \in Seq(Byte) BY <1>5, <1>6
<1>8. t \in Seq(Seq(Byte)) /\ Len(t) = n
  <2>1. \A i \in 1..n : t[i] \in Seq(Byte) BY <1>1, <1>4, <1>6
  <2> QED BY <1>4, <2>1
<1>9. s \in Seq(Seq(Byte)) /\ Len(s) = n + 1
  <2>1. \A i \in 1..(n + 1) : s[i] \in Seq(Byte) BY <1>2, <1>3, <1>6
  <2> QED BY <1>3, <2>1
<1>10. s = <<x>> \o t
  <2>1. PICK u : u = <<x>> \o t OBVIOUS
  <2>2. <<x>> \in Seq(Seq(Byte)) /\ Len(<<x>>) = 1 /\ <<x>>[1] = x BY <1>7
  <2>3. u \in Seq(Seq(Byte)) /\ Join(u, <<x>>, t) BY <1>8, <2>1, <2>2, Joined
  <2>4. Len(u) = n + 1 /\ u[1] = x /\ \A i \in 1..n : u[1 + i] = t[i] BY <1>8, <2>2, <2>3 DEF Join
  <2>5. ASSUME NEW i \in 1..(n + 1) PROVE s[i] = u[i]
    <3>1. CASE i = 1
      <4>1. s[1] = Frame(p[1 + k]) BY <1>3
      <4> QED BY <1>5, <2>4, <3>1, <4>1
    <3>2. CASE i # 1
      <4>1. PICK j \in 1..n : i = 1 + j BY <3>2
      <4>2. j + (k + 1) = i + k BY <4>1
      <4>3. u[i] = t[j] /\ t[j] = Frame(p[j + (k + 1)]) BY <1>4, <2>4, <4>1
      <4> QED BY <1>3, <4>2, <4>3
    <3> QED BY <3>1, <3>2
  <2> QED BY <1>9, <2>1, <2>3, <2>4, <2>5, SeqEqual
<1>11. FlattenSeq(s) = x \o FlattenSeq(t) BY <1>7, <1>8, <1>10, FlattenFirst
<1> QED BY <1>1, <1>2, <1>3, <1>4, <1>5, <1>11 DEF Rest

-----------------------------------------------------------------------------
\* What was said in the first k messages.
TalkOf(p, k) == [i \in 1..k |-> p[i].talk]
Voices == {m.talk[1] : m \in Outgoing}

\* What is said in a message is a sequence of voices.
LEMMA TalkTyped == ASSUME NEW m \in Outgoing PROVE m.talk \in Seq(Voices)
<1>1. Talks(m) BY OutgoingAssumption DEF Sendable
<1>2. CASE m.talk = << >> BY <1>2
<1>3. CASE m.talk # << >>
  <2>1. m = Tunnelled(m.talk[1].session, m.talk[1].audio) BY <1>1, <1>3 DEF Talks
  <2>2. PICK x : m.talk = <<x>> BY <2>1 DEF Tunnelled
  <2>3. x = m.talk[1] BY <2>2
  <2>4. x \in Voices BY <2>3 DEF Voices
  <2> QED BY <2>2, <2>4
<1> QED BY <1>2, <1>3

\* A function on 1..n is a sequence.
LEMMA FunSeq ==
    ASSUME NEW T, NEW n \in Nat, NEW s, s = [i \in 1..n |-> s[i]], \A i \in 1..n : s[i] \in T
    PROVE  s \in Seq(T) /\ Len(s) = n
OBVIOUS

\* One message more adds what was said in it.
LEMMA TalkMore ==
    ASSUME NEW p \in Seq(Outgoing), NEW k \in Nat, k < Len(p)
    PROVE  /\ FlattenSeq(TalkOf(p, k)) \in Seq(Voices)
           /\ FlattenSeq(TalkOf(p, k + 1)) = FlattenSeq(TalkOf(p, k)) \o p[k + 1].talk
<1>0. \A i \in 1..Len(p) : p[i].talk \in Seq(Voices) BY TalkTyped
<1>1. PICK s : s = TalkOf(p, k) OBVIOUS
<1>2. s \in Seq(Seq(Voices)) /\ Len(s) = k /\ \A i \in 1..k : s[i] = p[i].talk
  <2>1. \A i \in 1..k : s[i] \in Seq(Voices) /\ s[i] = p[i].talk BY <1>0, <1>1 DEF TalkOf
  <2>2. s = [i \in 1..k |-> s[i]] BY <1>1 DEF TalkOf
  <2>3. s \in Seq(Seq(Voices)) /\ Len(s) = k BY ONLY <2>1, <2>2, k \in Nat, FunSeq
  <2> QED BY <2>1, <2>3
<1>3. PICK x \in Seq(Voices) : x = p[k + 1].talk BY <1>0
<1>4. PICK t : t = TalkOf(p, k + 1) OBVIOUS
<1>5. t \in Seq(Seq(Voices)) /\ Len(t) = k + 1 /\ \A i \in 1..(k + 1) : t[i] = p[i].talk
  <2>1. \A i \in 1..(k + 1) : t[i] \in Seq(Voices) /\ t[i] = p[i].talk BY <1>0, <1>4 DEF TalkOf
  <2>2. t = [i \in 1..(k + 1) |-> t[i]] BY <1>4 DEF TalkOf
  <2>3. k + 1 \in Nat OBVIOUS
  <2>4. t \in Seq(Seq(Voices)) /\ Len(t) = k + 1 BY ONLY <2>1, <2>2, <2>3, FunSeq
  <2> QED BY <2>1, <2>4
<1>6. Append(s, x) = t
  <2>1. PICK u : u = Append(s, x) OBVIOUS
  <2>2. u \in Seq(Seq(Voices)) /\ Len(u) = k + 1 /\ u[k + 1] = x /\ \A i \in 1..k : u[i] = s[i] BY <1>2, <2>1
  <2>3. ASSUME NEW i \in 1..(k + 1) PROVE u[i] = t[i]
    <3>1. CASE i = k + 1 BY <1>3, <1>5, <2>2, <3>1
    <3>2. CASE i # k + 1
      <4>1. i \in 1..k BY <3>2
      <4> QED BY <1>2, <1>5, <2>2, <4>1
    <3> QED BY <3>1, <3>2
  <2> QED BY <1>5, <2>1, <2>2, <2>3, SeqEqual
<1>7. FlattenSeq(t) = FlattenSeq(s) \o x BY <1>2, <1>6, FlattenMore
<1>8. FlattenSeq(s) \in Seq(Voices) BY <1>2, FlattenTyped
<1> QED BY <1>1, <1>3, <1>4, <1>7, <1>8

\* What the event loop plays of a message is what was said in it.
Plays(q, type, payload) ==
    IF type = UdpTunnel /\ DecodeTunnelAudio(payload).ok
    THEN LET d == DecodeTunnelAudio(payload)
         IN Append(q, [session |-> d.session, audio |-> d.audio])
    ELSE q

\* What is played of a message of the server is what was said in it.
LEMMA PlaysTalk ==
    ASSUME NEW m \in Outgoing, NEW q \in Seq(Voices)
    PROVE  Plays(q, m.type, m.payload) = q \o m.talk
<1>1. Talks(m) BY OutgoingAssumption DEF Sendable
<1>2. CASE m.talk = << >>
  <2>1. ~(m.type = UdpTunnel /\ DecodeTunnelAudio(m.payload).ok) BY <1>1, <1>2 DEF Talks
  <2>2. Plays(q, m.type, m.payload) = q BY <2>1, Zenon DEF Plays
  <2>3. q \o << >> = q OBVIOUS
  <2> QED BY <1>2, <2>2, <2>3
<1>3. CASE m.talk # << >>
  <2>1. PICK s, a : s = m.talk[1].session /\ a = m.talk[1].audio OBVIOUS
  <2>2. Fits(s) /\ Spoken(a) /\ m = Tunnelled(s, a) BY <1>1, <1>3, <2>1 DEF Talks
  <2>3. PICK data : data = ServerRelaysAudio(s, LegacyEncodeAudio(a)) OBVIOUS
  <2>4. DecodeTunnelAudio(data) = [ok |-> TRUE, session |-> s, audio |-> a] BY <2>2, <2>3, AudioBack
  <2>5. PICK d : d = DecodeTunnelAudio(data) OBVIOUS
  <2>6. d.ok /\ d.session = s /\ d.audio = a BY <2>4, <2>5
  <2>7. m.type = UdpTunnel /\ m.payload = data /\ m.talk = <<[session |-> s, audio |-> a]>>
    BY <2>2, <2>3 DEF Tunnelled
  <2>8. Plays(q, m.type, m.payload) = Append(q, [session |-> d.session, audio |-> d.audio])
    BY <2>5, <2>6, <2>7, Zenon DEF Plays
  <2>9. PICK x : x = [session |-> s, audio |-> a] OBVIOUS
  <2>10. x \in Voices
    <3>1. m.talk[1] = x BY <2>7, <2>9
    <3> QED BY <3>1 DEF Voices
  <2>11. Append(q, x) = q \o <<x>> BY <2>10, AppendIsConcat
  <2> QED BY <2>6, <2>7, <2>8, <2>9, <2>11
<1> QED BY <1>2, <1>3

-----------------------------------------------------------------------------
\* The bytes read but not yet decoded and the bytes on the wire are those of the
\* messages that were not handed on yet.
Expected(k) == [i \in 1..k |-> [type |-> planned[i].type, payload |-> planned[i].payload]]
FramingInv ==
    /\ planned \in Seq(Outgoing)
    /\ readBuf \in Seq(Byte) /\ wire \in Seq(Byte)
    /\ Len(got) \in Nat /\ Len(got) <= Len(planned)
    /\ readBuf \o wire = Rest(planned, Len(got))
    /\ got = Expected(Len(got))
    /\ reader = "failed" => Len(got) < Len(planned) /\ ~Good(planned[Len(got) + 1])
    /\ reader = "closed" => Len(got) = Len(planned)
    /\ played = FlattenSeq(TalkOf(planned, Len(got)))

\* At the start all messages are on the wire.
LEMMA FramingInitInv == FramingInit => FramingInv
<1> SUFFICES ASSUME FramingInit PROVE FramingInv OBVIOUS
<1>1. planned \in Seq(Outgoing)
  <2>1. PICK n \in 0..MaxMessages : planned \in [1..n -> Outgoing] BY DEF FramingInit, BoundedSeq, SeqOf
  <2>2. n \in Nat BY OutgoingAssumption
  <2> QED BY <2>1, <2>2
<1>2. Len(planned) \in Nat /\ DOMAIN planned = 1..Len(planned) BY <1>1
<1>3. got = << >> /\ Len(got) = 0 /\ readBuf = << >> /\ played = << >> /\ reader = "reading"
  BY DEF FramingInit
<1>4. wire = Rest(planned, 0)
  <2>1. Len(planned) - 0 = Len(planned) BY <1>2
  <2>2. wire = FlattenSeq([i \in 1..Len(planned) |-> Frame(planned[i])]) BY <1>2 DEF FramingInit
  <2>3. \A i \in 1..Len(planned) : i + 0 = i BY <1>2
  <2>4. [i \in 1..Len(planned) |-> Frame(planned[i])] =
        [i \in 1..Len(planned) |-> Frame(planned[i + 0])]
    BY <2>3
  <2> QED BY <2>1, <2>2, <2>4 DEF Rest
<1>5. wire \in Seq(Byte) BY <1>1, <1>2, <1>4, RestTyped
<1>6. readBuf \in Seq(Byte) /\ readBuf \o wire = wire BY <1>3, <1>5
<1>7. got = Expected(Len(got)) BY <1>3 DEF Expected
<1>8. FlattenSeq(TalkOf(planned, 0)) = << >>
  <2>1. TalkOf(planned, 0) = << >> BY DEF TalkOf
  <2>2. Len(<< >>) = 0 OBVIOUS
  <2> QED BY <2>1, <2>2, FlattenNone
<1> QED BY <1>1, <1>2, <1>3, <1>4, <1>5, <1>6, <1>7, <1>8 DEF FramingInv

\* What the reader has and will get starts with the frame of the next message, or
\* is nothing when there is none.
LEMMA BufferIs ==
    ASSUME FramingInv
    PROVE  /\ Len(got) = Len(planned) => DecodeFrame(readBuf).is = "none" /\ wire = << >>
           /\ Len(got) < Len(planned) =>
                /\ planned[Len(got) + 1] \in Outgoing
                /\ Rest(planned, Len(got) + 1) \in Seq(Byte)
                /\ SameBytes(readBuf, wire, Frame(planned[Len(got) + 1]), Rest(planned, Len(got) + 1))
<1>0. /\ planned \in Seq(Outgoing) /\ readBuf \in Seq(Byte) /\ wire \in Seq(Byte)
      /\ Len(got) \in Nat /\ Len(got) <= Len(planned)
      /\ readBuf \o wire = Rest(planned, Len(got))
  BY DEF FramingInv
<1>1. ASSUME Len(got) = Len(planned) PROVE DecodeFrame(readBuf).is = "none" /\ wire = << >>
  <2>1. readBuf \o wire = << >> BY <1>0, <1>1, RestNone
  <2>2. Join(readBuf \o wire, readBuf, wire) BY <1>0, Joined
  <2>3. Len(readBuf) = 0 /\ Len(wire) = 0 BY <1>0, <2>1, <2>2 DEF Join
  <2>4. Len(readBuf) < 6 BY <2>3
  <2>5. wire = << >> BY <1>0, <2>3
  <2> QED BY <2>4, <2>5, DecodeShort
<1>2. ASSUME Len(got) < Len(planned)
      PROVE  /\ planned[Len(got) + 1] \in Outgoing
             /\ Rest(planned, Len(got) + 1) \in Seq(Byte)
             /\ SameBytes(readBuf, wire, Frame(planned[Len(got) + 1]), Rest(planned, Len(got) + 1))
  <2>1. Len(got) + 1 \in 1..Len(planned) /\ Len(got) + 1 \in 0..Len(planned) BY <1>0, <1>2
  <2>2. planned[Len(got) + 1] \in Outgoing BY <1>0, <2>1
  <2>3. Rest(planned, Len(got) + 1) \in Seq(Byte) BY <1>0, <2>1, RestTyped
  <2>4. Rest(planned, Len(got)) = Frame(planned[Len(got) + 1]) \o Rest(planned, Len(got) + 1)
    BY <1>0, <1>2, RestFirst
  <2> QED BY <1>0, <2>2, <2>3, <2>4 DEF SameBytes
<1> QED BY <1>1, <1>2

\* A decoded message is the next one the server sent.
LEMMA FramingMessage == FramingInv /\ RecvMessage => FramingInv'
<1> SUFFICES ASSUME FramingInv, RecvMessage PROVE FramingInv' OBVIOUS
<1>0. /\ planned \in Seq(Outgoing) /\ readBuf \in Seq(Byte) /\ wire \in Seq(Byte)
      /\ Len(got) \in Nat /\ Len(got) <= Len(planned) /\ Len(planned) \in Nat
      /\ got = Expected(Len(got)) /\ played = FlattenSeq(TalkOf(planned, Len(got)))
  BY DEF FramingInv
<1>1. PICK r : r = DecodeFrame(readBuf) OBVIOUS
<1>2. /\ reader = "reading" /\ r.is = "message" /\ readBuf' = r.rest /\ got' = Append(got, r.msg)
      /\ played' = Plays(played, r.msg.type, r.msg.payload)
      /\ planned' = planned /\ wire' = wire /\ reader' = reader
  BY <1>1, Zenon DEF RecvMessage, Plays
<1>3. Len(got) < Len(planned) BY <1>0, <1>1, <1>2, BufferIs
<1>4. PICK k \in Nat : k = Len(got) BY <1>0
<1>5. PICK m \in Outgoing : m = planned[k + 1] BY <1>3, <1>4, BufferIs
<1>6. PICK rest \in Seq(Byte) : rest = Rest(planned, k + 1) BY <1>3, <1>4, BufferIs
<1>7. SameBytes(readBuf, wire, Frame(m), rest) BY <1>3, <1>4, <1>5, <1>6, BufferIs
<1>8. Sendable(m) BY OutgoingAssumption
<1>9. r.msg = [type |-> m.type, payload |-> m.payload] /\ r.rest \in Seq(Byte) /\ r.rest \o wire = rest
  BY <1>0, <1>1, <1>2, <1>7, <1>8, FrameRead
<1>10. r.msg.type = m.type /\ r.msg.payload = m.payload BY <1>9
<1>11. k + 1 \in Nat /\ k + 1 <= Len(planned) BY <1>0, <1>3, <1>4
<1>12. got' = Expected(k + 1) /\ Len(got') = k + 1
  <2>1. got = Expected(k) BY <1>0, <1>4
  <2>2. PICK c : c = r.msg OBVIOUS
  <2>3. c = [type |-> planned[k + 1].type, payload |-> planned[k + 1].payload] BY <1>5, <1>9, <2>2
  <2>4. PICK e : e = Expected(k + 1) OBVIOUS
  <2>5. /\ e = [i \in 1..(k + 1) |-> e[i]]
        /\ \A i \in 1..(k + 1) : e[i] = [type |-> planned[i].type, payload |-> planned[i].payload]
    BY <2>4 DEF Expected
  <2>6. /\ got = [i \in 1..k |-> got[i]]
        /\ \A i \in 1..k : got[i] = [type |-> planned[i].type, payload |-> planned[i].payload]
    BY <2>1 DEF Expected
  <2>7. PICK T : T = {e[i] : i \in 1..(k + 1)} OBVIOUS
  <2>8. \A i \in 1..k : i \in 1..(k + 1) /\ got[i] = e[i] BY <2>5, <2>6
  <2>9. (\A i \in 1..k : got[i] \in T) /\ (\A i \in 1..(k + 1) : e[i] \in T) /\ c \in T
    <3>1. c = e[k + 1] /\ k + 1 \in 1..(k + 1) BY <2>3, <2>5, <1>11
    <3> QED BY <2>7, <2>8, <3>1
  <2>10. got \in Seq(T) /\ Len(got) = k BY ONLY <2>6, <2>9, k \in Nat, FunSeq
  <2>11. e \in Seq(T) /\ Len(e) = k + 1 BY ONLY <2>5, <2>9, <1>11, FunSeq
  <2>12. PICK u : u = Append(got, c) OBVIOUS
  <2>13. u \in Seq(T) /\ Len(u) = k + 1 /\ u[k + 1] = c /\ \A i \in 1..k : u[i] = got[i] BY <2>9, <2>10, <2>12
  <2>14. ASSUME NEW i \in 1..(k + 1) PROVE u[i] = e[i]
    <3>1. CASE i = k + 1 BY <2>3, <2>5, <2>13, <3>1
    <3>2. CASE i # k + 1
      <4>1. i \in 1..k BY <3>2
      <4> QED BY <2>8, <2>13, <4>1
    <3> QED BY <3>1, <3>2
  <2>15. u = e BY ONLY <2>11, <2>13, <2>14, SeqEqual
  <2> QED BY <1>2, <2>2, <2>4, <2>11, <2>12, <2>15
<1>13. played' = FlattenSeq(TalkOf(planned, k + 1))
  <2>1. played \in Seq(Voices) /\ FlattenSeq(TalkOf(planned, k + 1)) = played \o m.talk
    BY <1>0, <1>3, <1>4, <1>5, TalkMore
  <2>2. played' = Plays(played, m.type, m.payload) BY <1>2, <1>10
  <2> QED BY <2>1, <2>2, PlaysTalk
<1>14. readBuf' \in Seq(Byte) /\ readBuf' \o wire = rest BY <1>2, <1>9
<1>15. Expected(k + 1)' = Expected(k + 1) /\ Len(got)' = k + 1 BY <1>2, <1>12 DEF Expected
<1> QED BY <1>0, <1>2, <1>6, <1>11, <1>12, <1>13, <1>14, <1>15 DEF FramingInv, Expected

\* Bytes moved from the wire to the buffer are the same bytes.
LEMMA Halves ==
    ASSUME NEW T, NEW a \in Seq(T), NEW w \in Seq(T), NEW n \in 1..Len(w)
    PROVE  /\ a \o SubSeq(w, 1, n) \in Seq(T) /\ SubSeq(w, n + 1, Len(w)) \in Seq(T)
           /\ (a \o SubSeq(w, 1, n)) \o SubSeq(w, n + 1, Len(w)) = a \o w
<1>a. PICK l \in Nat : l = Len(w) OBVIOUS
<1>d. SubSeq(w, 1, n) \in Seq(T) /\ SubSeq(w, n + 1, Len(w)) \in Seq(T) OBVIOUS
<1>b. PICK b \in Seq(T) : b = SubSeq(w, 1, n) BY <1>d
<1>c. PICK c \in Seq(T) : c = SubSeq(w, n + 1, Len(w)) BY <1>d
<1>1. b = SubSeq(w, 1, n) /\ c = SubSeq(w, n + 1, Len(w)) BY <1>b, <1>c
<1>2. /\ Len(b) = n /\ Len(c) = Len(w) - n
      /\ (\A i \in 1..n : b[i] = w[i])
      /\ \A i \in 1..(Len(w) - n) : c[i] = w[n + i]
  BY <1>1
<1>3. b \o c = w
  <2>1. PICK u : u = b \o c OBVIOUS
  <2>2. u \in Seq(T) /\ Join(u, b, c) BY <2>1, Joined
  <2>3. /\ Len(u) = Len(w) /\ (\A i \in 1..n : u[i] = w[i])
        /\ \A i \in 1..(Len(w) - n) : u[n + i] = w[n + i]
    <3>1. Len(u) = Len(w) BY ONLY <1>a, <1>2, <2>2, n \in 1..Len(w) DEF Join
    <3>2. \A i \in 1..n : u[i] = w[i] BY ONLY <1>2, <2>2 DEF Join
    <3>3. \A i \in 1..(Len(w) - n) : u[n + i] = w[n + i] BY ONLY <1>2, <2>2 DEF Join
    <3> QED BY <3>1, <3>2, <3>3
  <2>4. ASSUME NEW i \in 1..Len(w) PROVE u[i] = w[i]
    <3>1. CASE i <= n BY <2>3, <3>1
    <3>2. CASE ~(i <= n)
      <4>1. PICK j \in 1..(Len(w) - n) : i = n + j BY <3>2
      <4> QED BY <2>3, <4>1
    <3> QED BY <3>1, <3>2
  <2> QED BY <2>1, <2>2, <2>3, <2>4, SeqEqual
<1>4. a \o (b \o c) = (a \o b) \o c BY Assoc, SMTT(40)
<1>5. a \o b \in Seq(T) OBVIOUS
<1> QED BY <1>1, <1>3, <1>4, <1>5

\* Reading more keeps the invariant.
LEMMA FramingReads == FramingInv /\ ReadMore => FramingInv'
<1> SUFFICES ASSUME FramingInv, ReadMore PROVE FramingInv' OBVIOUS
<1>1. PICK n \in 1..Len(wire) :
        readBuf' = readBuf \o SubSeq(wire, 1, n) /\ wire' = SubSeq(wire, n + 1, Len(wire))
  BY DEF ReadMore
<1>2. planned' = planned /\ got' = got /\ played' = played /\ reader' = reader BY DEF ReadMore
<1>3. readBuf \in Seq(Byte) /\ wire \in Seq(Byte) BY DEF FramingInv
<1>4. readBuf' \in Seq(Byte) /\ wire' \in Seq(Byte) /\ readBuf' \o wire' = readBuf \o wire
  BY <1>1, <1>3, Halves, ZenonT(40)
<1> QED BY <1>2, <1>4 DEF FramingInv, Expected

\* The reader fails only at a message that breaks the rules.
LEMMA FramingFails == FramingInv /\ RecvError => FramingInv'
<1> SUFFICES ASSUME FramingInv, RecvError PROVE FramingInv' OBVIOUS
<1>1. DecodeFrame(readBuf).is = "error" /\ reader' = "failed" BY DEF RecvError
<1>2. planned' = planned /\ got' = got /\ played' = played /\ wire' = wire /\ readBuf' = readBuf
  BY DEF RecvError
<1>3. /\ readBuf \in Seq(Byte) /\ wire \in Seq(Byte)
      /\ Len(got) <= Len(planned) /\ Len(got) \in Nat /\ Len(planned) \in Nat
  BY DEF FramingInv
<1>4. Len(got) < Len(planned)
  <2>1. Len(got) # Len(planned) BY <1>1, BufferIs
  <2> QED BY <1>3, <2>1
<1>5. PICK m \in Outgoing : m = planned[Len(got) + 1] BY <1>4, BufferIs
<1>6. PICK rest \in Seq(Byte) : SameBytes(readBuf, wire, Frame(m), rest) BY <1>4, <1>5, BufferIs
<1>7. ~Good(m) BY <1>1, <1>3, <1>6, OutgoingAssumption, FrameRead
<1> QED BY <1>1, <1>2, <1>4, <1>5, <1>7 DEF FramingInv, Expected

\* The stream ends only after the last message.
LEMMA FramingCloses == FramingInv /\ RecvClosed => FramingInv'
<1> SUFFICES ASSUME FramingInv, RecvClosed PROVE FramingInv' OBVIOUS
<1>1. DecodeFrame(readBuf).is = "none" /\ wire = << >> /\ reader' = "closed" BY DEF RecvClosed
<1>2. planned' = planned /\ got' = got /\ played' = played /\ wire' = wire /\ readBuf' = readBuf
  BY DEF RecvClosed
<1>3. /\ readBuf \in Seq(Byte) /\ wire \in Seq(Byte)
      /\ Len(got) <= Len(planned) /\ Len(got) \in Nat /\ Len(planned) \in Nat
  BY DEF FramingInv
<1>4. ASSUME Len(got) < Len(planned) PROVE FALSE
  <2>1. PICK m \in Outgoing : m = planned[Len(got) + 1] BY <1>4, BufferIs
  <2>2. PICK rest \in Seq(Byte) : SameBytes(readBuf, wire, Frame(m), rest) BY <1>4, <2>1, BufferIs
  <2>3. Sendable(m) BY OutgoingAssumption
  <2>4. Len(readBuf) < Len(Frame(m)) BY <1>1, <1>3, <2>2, <2>3, FrameRead
  <2>5. PICK f \in Seq(Byte) : f = Frame(m) BY <2>3, FrameBytes
  <2>6. readBuf \o wire = f \o rest BY <2>2, <2>5 DEF SameBytes
  <2>7. PICK x : x = readBuf \o wire /\ x = f \o rest BY <2>6
  <2>8. Join(x, readBuf, wire) /\ Join(x, f, rest) BY <1>3, <2>7, Joined
  <2>9. Len(readBuf) = Len(f) + Len(rest) BY <1>1, <1>3, <2>8 DEF Join
  <2> QED BY <1>3, <2>4, <2>5, <2>9
<1>5. Len(got) = Len(planned) BY <1>3, <1>4
<1> QED BY <1>1, <1>2, <1>5 DEF FramingInv, Expected

\* StreamExact for every list of messages the server may send, every cutting of
\* the stream by the network and every number of 32 bits in tunnelled audio: the
\* reader hands on the messages whole and in order, fails only at a message that
\* breaks the rules, and what is played is what was said.
THEOREM StreamCorrect == FramingSpec => []StreamExact
<1>1. FramingInv /\ UNCHANGED framingVars => FramingInv' BY DEF FramingInv, framingVars, Expected
<1>2. FramingInv /\ [FramingNext]_framingVars => FramingInv'
  BY <1>1, FramingMessage, FramingReads, FramingFails, FramingCloses DEF FramingNext
<1>3. FramingInv => StreamExact BY DEF FramingInv, StreamExact, Expected, TalkOf
<1> QED BY FramingInitInv, <1>2, <1>3, PTL DEF FramingSpec
=============================================================================
