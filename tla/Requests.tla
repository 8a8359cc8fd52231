------------------------------ MODULE Requests ------------------------------
(***************************************************************************)
(* The requests the interface makes while several server tabs are open:    *)
(* administration, messages, reactions, pins, receipts, drawing, watch-     *)
(* together and WebRTC signals.  A request reads the client handle of the   *)
(* session that is active at that moment (or of the one it names), sends    *)
(* its commands through that handle and, for some, writes an echo into the  *)
(* session that is active by then.  A deletion waits for the server's       *)
(* answer.  Tabs may be switched or closed between any two of these steps.  *)
(*                                                                          *)
(* One request is under way at a time, beside any number of deletions:      *)
(* requests share nothing but the active tab, which the environment moves.  *)
(***************************************************************************)
EXTENDS Commands, SequencesExt, FiniteSets

CONSTANTS
    Tabs,           \* servers the user is connected to
    Deletions,      \* delete requests the user makes
    MaxAcks         \* bound: acknowledgements of the server under way

ASSUME TabsAssumption == Tabs # {} /\ "active" \notin Tabs /\ "none" \notin Tabs
ASSUME MaxAcksAssumption == MaxAcks \in Nat \ {0}

VARIABLES
    shown,          \* AppState::inner: the active session
    open,           \* sessions whose client is connected
    call,           \* the request under way
    handed,         \* the command last handed to a client for the latest request
    echo,           \* the session the latest request's echo was written into
    waiting,        \* per session: pending_delete_acks
    deletes,        \* the deletions: phase and session
    acks,           \* per server: PchatAck messages on their way
    purged          \* servers that have carried out a deletion (history)

requestVars == <<shown, open, call, handed, echo, waiting, deletes, acks, purged>>

Idle == [phase |-> "idle"]
NoDelete == [phase |-> "idle", via |-> "none"]

(***************************************************************************)
(* What each request sends.  route: the active session or a named one;      *)
(* outs: the commands in order; echoes: whether a local copy is written.    *)
(***************************************************************************)
Ask(out) == [route |-> "active", outs |-> <<out>>, echoes |-> FALSE]
AskAndEcho(out) == [Ask(out) EXCEPT !.echoes = TRUE]
Refused == [route |-> "active", outs |-> << >>, echoes |-> FALSE]
\* A request that carries a payload the peers will see.
Carrying(req, payload) ==
    [f \in DOMAIN req \cup DOMAIN payload |-> IF f \in DOMAIN req THEN req[f] ELSE payload[f]]

U == 7      \* a session number and a channel: every server has its own
C == 1

kick_user == Ask(KickUser(U))
ban_user == Ask(BanUser(U))
register_user == Ask(RegisterUser(U))
mute_user(on) == Ask(SetUserMute(U, on))
deafen_user(on) == Ask(SetUserDeaf(U, on))
set_priority_speaker(on) == Ask(SetPrioritySpeaker(U, on))
reset_user_comment == Ask(ResetUserComment(U))
remove_user_avatar == Ask(RemoveUserAvatar(U))
move_user == Ask(MoveUser(U, C))
request_user_stats == Ask(RequestUserStats)
request_user_list == Ask(RequestUserList)
request_user_comment == Ask(RequestBlob)
update_user_list == Ask(UpdateUserList)
request_ban_list == Ask(RequestBanList)
\* One unparsable address refuses the whole list before anything is sent.
update_ban_list(parsable) == IF parsable THEN Ask(SendBanList) ELSE Refused
request_acl == Ask(RequestAcl)
update_acl == Ask(SendAcl)

update_channel == Ask(SetChannelState(C))
create_channel == Ask(SetChannelState(0))
delete_channel == Ask(DeleteChannel(C))
set_user_comment(set) == AskAndEcho(SetComment(NewState, set))
set_user_texture(set) == AskAndEcho(SetTexture(NewState, set))

send_plugin_data == Ask(SendPluginData({U}))
send_push_update ==
    [Refused EXCEPT !.outs = <<SendFancyPushUpdate, SendFancySubscribePush>>]
send_subscribe_push == Ask(SendFancySubscribePush)
send_typing_indicator == Ask(SendTypingIndicator(C))
request_link_preview == Ask(RequestLinkPreview)
send_read_receipt == Ask(SendReadReceipt)
query_read_receipts == Ask(SendReadReceipt)
send_dm == AskAndEcho(SendTextMessage)
\* Editing needs a server with the extension.
edit_message(fancy) == IF fancy THEN AskAndEcho(SendTextMessage) ELSE Refused
pin_message == Ask(SendPchatPin)

\* A signal that names its server goes through that server's session.
send_webrtc_signal(id) == [Ask(SendWebRtcSignal(U)) EXCEPT !.route = id]

(***************************************************************************)
(* Payloads that change form on the way.                                    *)
(***************************************************************************)
\* Emojis as sequences of characters: ":name:" is a server emoji, any other
\* text (":" and "::" too) a unicode one.
send_reaction(emoji) ==
    LET named == Len(emoji) > 2 /\ emoji[1] = ":" /\ emoji[Len(emoji)] = ":"
    IN  Carrying(Ask(SendPchatReaction),
            [emoji |-> IF named THEN [server |-> TRUE, text |-> SubSeq(emoji, 2, Len(emoji) - 1)]
                       ELSE [server |-> FALSE, text |-> emoji],
             typed |-> emoji])

\* How PchatReactionDeliver turns it back for display.
ReactionShown(e) == IF e.server THEN <<":">> \o e.text \o <<":">> ELSE e.text

\* Mutant: the states are numbered from one.
ParseFromOne(s) ==
    IF s = "paused" THEN 1 ELSE IF s = "playing" THEN 2 ELSE IF s = "ended" THEN 3 ELSE -1

parse_source_kind(s) == IF s = "directMedia" THEN 0 ELSE IF s = "youtube" THEN 1 ELSE -1
parse_playback_state(s) ==
    IF s = "paused" THEN 0 ELSE IF s = "playing" THEN 1 ELSE IF s = "ended" THEN 2 ELSE -1
source_kind_to_str(k) == IF k = 0 THEN "directMedia" ELSE IF k = 1 THEN "youtube" ELSE "none"
playback_state_to_str(k) ==
    IF k = 0 THEN "paused" ELSE IF k = 1 THEN "playing" ELSE IF k = 2 THEN "ended" ELSE "none"

WatchEvents ==
    [type : {"start"}, kind : {"directMedia", "youtube", "other"}]
    \cup [type : {"state"}, state : {"paused", "playing", "ended", "other"}]
    \cup [type : {"join", "leave", "stateRequest", "end", "hostTransfer"}]

into_proto(e) ==
    IF e.type = "start" THEN [e EXCEPT !.kind = parse_source_kind(@)]
    ELSE IF e.type = "state" THEN [e EXCEPT !.state = parse_playback_state(@)]
    ELSE e

into_payload(p) ==
    IF p.type = "start" THEN [p EXCEPT !.kind = source_kind_to_str(@)]
    ELSE IF p.type = "state" THEN [p EXCEPT !.state = playback_state_to_str(@)]
    ELSE p

send_watch_sync(e) == Carrying(Ask(SendWatchSync), [watch |-> into_proto(e), chosen |-> e])

\* A text that goes out encrypted.  pad_plaintext rounds its length and a
\* trailer of two bytes up to whole blocks, adds a random rest, and writes the
\* number of bytes added into the trailer; the ciphertext is bound to the
\* channel, the id and the time of the message, which travel beside it.
PaddingBlock == 256
Trailer == 2
Garbled == -1

pad_plaintext(len, jitter) ==
    LET blocks == (len + Trailer + PaddingBlock - 1) \div PaddingBlock
        padded == blocks * PaddingBlock + jitter
    IN  [length |-> padded, added |-> padded - len]

unpad_plaintext(p) ==
    IF p.length < Trailer \/ p.added < Trailer \/ p.added > p.length THEN Garbled
    ELSE p.length - p.added

encrypt(aad, len, jitter) ==
    LET p == pad_plaintext(len, jitter) IN [aad |-> aad, length |-> p.length, added |-> p.added]
decrypt(aad, sealed) == IF sealed.aad = aad THEN unpad_plaintext(sealed) ELSE Garbled

send_encrypted(len, jitter) ==
    LET about == [chan |-> C, id |-> 1, time |-> 1]
    IN  Carrying(Ask(SendPchatMessage),
                 [about |-> about, sealed |-> encrypt(about, len, jitter), length |-> len])

Lengths == {0, 1, 253, 254, 255, 256, 510, 511, 65535}
Jitters == {0, 1, 255}

send_draw_stroke(args) == Carrying(Ask(SendDrawStroke), [stroke |-> args])

Emojis == {<<"a">>, <<":">>, <<":", ":">>, <<":", ":", ":">>, <<":", "a", ":">>}
Strokes == [isEnd : BOOLEAN, isClear : BOOLEAN, clearAll : BOOLEAN]

(***************************************************************************)
(* The commands of the interface.                                           *)
(***************************************************************************)
AdminCommands ==
    {kick_user, ban_user, register_user, reset_user_comment, remove_user_avatar, move_user,
     request_user_stats, request_user_list, request_user_comment, update_user_list,
     request_ban_list, request_acl, update_acl}
    \cup {mute_user(on) : on \in BOOLEAN} \cup {deafen_user(on) : on \in BOOLEAN}
    \cup {set_priority_speaker(on) : on \in BOOLEAN} \cup {update_ban_list(ok) : ok \in BOOLEAN}

ChannelEdits == {update_channel, create_channel, delete_channel}
ProfileCommands ==
    {set_user_comment(set) : set \in BOOLEAN} \cup {set_user_texture(set) : set \in BOOLEAN}
    \cup {send_plugin_data}
RealtimeCommands ==
    {send_push_update, send_subscribe_push}
    \cup {send_webrtc_signal(id) : id \in Tabs \cup {"active"}}
MessagingCommands ==
    {send_typing_indicator, request_link_preview, send_read_receipt, query_read_receipts,
     pin_message}
    \cup {edit_message(fancy) : fancy \in BOOLEAN}
    \cup {send_reaction(e) : e \in Emojis}
    \cup {send_watch_sync(e) : e \in WatchEvents}
    \cup {send_draw_stroke(a) : a \in Strokes}
    \cup {send_encrypted(len, jitter) : len \in Lengths, jitter \in Jitters}
DmCommands == {send_dm}
query_key_holders == Ask(SendPchatKeyHoldersQuery)
send_key_takeover == Ask(SendPchatKeyHolderReport)
\* An unknown mode is refused.
key_takeover(known) == IF known THEN send_key_takeover ELSE Refused
KeyCommands == {query_key_holders} \cup {key_takeover(known) : known \in BOOLEAN}

InterfaceCommands ==
    AdminCommands \cup ChannelEdits \cup ProfileCommands \cup RealtimeCommands
    \cup MessagingCommands \cup DmCommands \cup KeyCommands

(***************************************************************************)
(* What the event handlers of a session ask its server by themselves, each  *)
(* in a task of its own that holds that session's state: after ServerSync,  *)
(* and when a channel or a user turns up with only the hash of its texts.   *)
(* some: there is something to ask for.                                     *)
(***************************************************************************)
FromTab(t, out) == [Ask(out) EXCEPT !.route = t]
FromTabIf(some, t, out) == IF some THEN FromTab(t, out) ELSE [Refused EXCEPT !.route = t]

request_user_blobs(t, some) == FromTabIf(some, t, RequestBlob)
request_channel_descriptions(t, some) == FromTabIf(some, t, RequestBlob)
request_channel_permissions(t) ==
    [FromTab(t, RequestBlob) EXCEPT !.outs = <<PermissionQuery(0), PermissionQuery(C)>>]
register_push_subscribe(t, fancy) == FromTabIf(fancy, t, SendFancySubscribePush)
\* On the phone, when the push service has given out a token.
register_fcm_token(t, token) == FromTabIf(token, t, SendFancyPushRegister)
\* Nothing without the PchatState.
send_key_announce(t, pchat) == FromTabIf(pchat, t, SendPchatKeyAnnounce)

SyncRequests(t) ==
    {request_channel_permissions(t)}
    \cup UNION {{request_user_blobs(t, b), request_channel_descriptions(t, b),
                 register_push_subscribe(t, b), register_fcm_token(t, b), send_key_announce(t, b)} :
                b \in BOOLEAN}

spawn_description_fetch(t) == FromTab(t, RequestBlob)
spawn_permissions_refresh(t) == FromTab(t, PermissionQuery(C))
\* Only for a texture or a comment of which the hash came alone.
request_missing_blobs(t, missing) == FromTabIf(missing, t, RequestBlob)
query_holders_of(t) == FromTab(t, SendPchatKeyHoldersQuery)

HandlerRequests ==
    UNION {SyncRequests(t) \cup {spawn_description_fetch(t), spawn_permissions_refresh(t),
                                 query_holders_of(t)}
           \cup {request_missing_blobs(t, missing) : missing \in BOOLEAN} : t \in Tabs}
-----------------------------------------------------------------------------
RequestsInit ==
    /\ shown \in Tabs
    /\ open = Tabs
    /\ call = Idle
    /\ handed = Idle /\ echo = Idle
    /\ waiting = [t \in Tabs |-> {}]
    /\ deletes = [d \in Deletions |-> NoDelete]
    /\ acks = [t \in Tabs |-> << >>]
    /\ purged = {}

CallOnly == UNCHANGED <<shown, open, waiting, deletes, acks, purged>>

\* The interface invokes a command or a handler spawns a task; it runs on the runtime's own schedule.
Invoke(req) ==
    /\ call = Idle
    /\ call' = [phase |-> "issued", req |-> req]
    /\ handed' = Idle /\ echo' = Idle
    /\ CallOnly

\* The session a request goes to: the active one, or the one it names.
Session(req) == IF req.route = "active" THEN shown ELSE req.route

\* SharedHandle::snapshot or Registry::session, and the clone of the client
\* handle.  Without one the request ends with "Not connected".
Snapshot ==
    /\ call.phase = "issued"
    /\ LET via == Session(call.req)
       IN  call' = IF via \in open /\ call.req.outs # << >>
                   THEN [phase |-> "sending", req |-> call.req, via |-> via, left |-> call.req.outs]
                   ELSE Idle
    /\ UNCHANGED <<handed, echo>> /\ CallOnly

\* ClientHandle::send fails when the client has gone.
Send ==
    /\ call.phase = "sending"
    /\ IF call.via \in open
       THEN /\ handed' = [phase |-> "sent", req |-> call.req, via |-> call.via, out |-> Head(call.left)]
            /\ call' = IF Tail(call.left) # << >> THEN [call EXCEPT !.left = Tail(@)]
                       ELSE IF call.req.echoes THEN [call EXCEPT !.phase = "echoing"] ELSE Idle
       ELSE call' = Idle /\ UNCHANGED handed
    /\ UNCHANGED echo /\ CallOnly

\* The local copy goes into the session that is active now.
Echo ==
    /\ call.phase = "echoing"
    /\ echo' = [phase |-> "echoed", via |-> call.via, into |-> shown]
    /\ call' = Idle
    /\ UNCHANGED handed /\ CallOnly

\* Deletions ---------------------------------------------------------------
delete_pchat_messages(d) ==
    /\ deletes[d].phase = "idle" /\ shown \in open
    /\ deletes' = [deletes EXCEPT ![d] = [phase |-> "queued", via |-> shown]]
    /\ waiting' = [waiting EXCEPT ![shown] = @ \cup {d}]
    /\ UNCHANGED <<shown, open, call, handed, echo, acks, purged>>

Settle(d, phase) == deletes' = [deletes EXCEPT ![d].phase = phase]

\* The request reaches the server, which deletes or refuses.
DeleteSent(d) ==
    /\ deletes[d].phase = "queued"
    /\ LET t == deletes[d].via
       IN  IF t \in open
           THEN /\ Settle(d, "waiting")
                /\ Len(acks[t]) < MaxAcks
                /\ \/ purged' = purged \cup {t} /\ acks' = [acks EXCEPT ![t] = Append(@, "deleted")]
                   \/ purged' = purged /\ acks' = [acks EXCEPT ![t] = Append(@, "rejected")]
                   \/ UNCHANGED <<purged, acks>>        \* no answer
           ELSE Settle(d, "failed") /\ UNCHANGED <<purged, acks>>
    /\ UNCHANGED <<shown, open, call, handed, echo, waiting>>

\* The server acknowledges something else: a stored message, or a rejected one.
OtherAck(t) ==
    /\ t \in open /\ Len(acks[t]) < MaxAcks
    /\ \E status \in {"stored", "rejected"} : acks' = [acks EXCEPT ![t] = Append(@, status)]
    /\ UNCHANGED <<shown, open, call, handed, echo, waiting, deletes, purged>>

\* Mutant: the handler resolves the deletions of the tab on display.
AckShown(t) ==
    /\ t \in open /\ acks[t] # << >> /\ shown \in Tabs
    /\ acks' = [acks EXCEPT ![t] = Tail(@)]
    /\ IF Head(acks[t]) = "stored" THEN UNCHANGED <<waiting, deletes>>
       ELSE /\ waiting' = [waiting EXCEPT ![shown] = {}]
            /\ deletes' = [d \in Deletions |->
                   IF d \in waiting[shown] /\ deletes[d].phase \in {"queued", "waiting"}
                   THEN [deletes[d] EXCEPT !.phase = Head(acks[t])] ELSE deletes[d]]
    /\ UNCHANGED <<shown, open, call, handed, echo, purged>>

\* PchatAck: every deletion the session has pending is resolved by it, also
\* one that has only been queued; what the receiver of an ended request is
\* told goes nowhere.
PchatAck(t) ==
    /\ t \in open /\ acks[t] # << >>
    /\ acks' = [acks EXCEPT ![t] = Tail(@)]
    /\ IF Head(acks[t]) = "stored" THEN UNCHANGED <<waiting, deletes>>
       ELSE /\ waiting' = [waiting EXCEPT ![t] = {}]
            /\ deletes' = [d \in Deletions |->
                   IF d \in waiting[t] /\ deletes[d].phase \in {"queued", "waiting"}
                   THEN [deletes[d] EXCEPT !.phase = Head(acks[t])] ELSE deletes[d]]
    /\ UNCHANGED <<shown, open, call, handed, echo, purged>>

\* Fifteen seconds without an answer; the sender stays in the list.
DeleteTimeout(d) ==
    /\ deletes[d].phase = "waiting"
    /\ Settle(d, "timeout")
    /\ UNCHANGED <<shown, open, call, handed, echo, waiting, acks, purged>>

\* The session went away with its pending list.
DeleteClosed(d) ==
    /\ deletes[d].phase = "waiting" /\ deletes[d].via \notin open
    /\ Settle(d, "closed")
    /\ UNCHANGED <<shown, open, call, handed, echo, waiting, acks, purged>>

\* Tabs --------------------------------------------------------------------
SwitchTab(t) ==
    /\ t \in open \ {shown}
    /\ shown' = t
    /\ UNCHANGED <<open, call, handed, echo, waiting, deletes, acks, purged>>

CloseTab(t) ==
    /\ t \in open
    /\ open' = open \ {t}
    /\ shown' \in IF shown # t THEN {shown}
                  ELSE IF open = {t} THEN {"none"} ELSE open \ {t}
    /\ acks' = [acks EXCEPT ![t] = << >>]
    /\ UNCHANGED <<call, handed, echo, waiting, deletes, purged>>

CallNext == (\E req \in InterfaceCommands \cup HandlerRequests : Invoke(req)) \/ Snapshot \/ Send \/ Echo

DeleteNext ==
    \/ \E d \in Deletions :
           delete_pchat_messages(d) \/ DeleteSent(d) \/ DeleteTimeout(d) \/ DeleteClosed(d)
    \/ \E t \in Tabs : OtherAck(t) \/ PchatAck(t)

TabNext == \E t \in Tabs : SwitchTab(t) \/ CloseTab(t)

RequestsNext == CallNext \/ DeleteNext \/ TabNext

RequestsSpec == RequestsInit /\ [][RequestsNext]_requestVars
-----------------------------------------------------------------------------
\* However the tabs are switched and closed while a request is prepared, sent
\* and answered: a signal that names its server, and what the handlers of a
\* session ask for, leaves on that server's connection, and a deletion
\* reported as done was asked of a server that did delete something, never
\* resolved by the answer of another tab's server.
StaysAtHome ==
    /\ handed # Idle /\ handed.req.route # "active" => handed.via = handed.req.route
    /\ \A d \in Deletions : deletes[d].phase = "deleted" => deletes[d].via \in purged

\* What a peer is shown is what was chosen: emojis and watch-together events
\* survive the conversion to the message and back, except values the protocol
\* has no number for, which arrive as absent; an encrypted text of any length
\* comes out of its padding as long as it went in.
Survives(req) ==
    /\ Has(req, "emoji") => ReactionShown(req.emoji) = req.typed
    /\ Has(req, "sealed") => decrypt(req.about, req.sealed) = req.length
    /\ Has(req, "watch") =>
           LET e == req.chosen
               got == into_payload(req.watch)
           IN  /\ got.type = e.type
               /\ e.type = "start" => got.kind \in {e.kind, "none"}
                                      /\ (got.kind = "none") = (e.kind = "other")
               /\ e.type = "state" => got.state \in {e.state, "none"}
                                      /\ (got.state = "none") = (e.state = "other")

\* Every request that was handed to a client has a payload that survives: the
\* reactions, the watch-together events and the encrypted texts.
PayloadsSurvive == handed # Idle => Survives(handed.req)
=============================================================================
