----------------------------- MODULE FancyCodec -----------------------------
(***************************************************************************)
(* The tracked server state (ServerState), which the event loop updates    *)
(* from the server's control messages, and the codec of the extension      *)
(* messages (FancyCodec): native where the server knows the type, wrapped  *)
(* in PluginData where another client can read it, dropped otherwise.      *)
(*                                                                         *)
(* A message is a record whose domain holds the fields that are present:   *)
(* an optional protobuf field that is not set is a field it does not have. *)
(* A UserState keeps those about the user, which are many, in set, and a   *)
(* session that is not set as 0, which is nobody's.  Elsewhere session and *)
(* channel 0 are what the code's unwrap_or(0) yields.                      *)
(***************************************************************************)
EXTENDS Naturals, TLC, Functions

Has(m, field) == field \in DOMAIN m

\* HashMap::insert.
Put(map, key, value) == [k \in DOMAIN map \cup {key} |-> IF k = key THEN value ELSE map[k]]

----------------------------------------------------------------------------
\* The release that first understands each extension type the client sends, by
\* its order (0.2.12 is 12, 0.3.0 is 30), and what to do before it.
\* FancyLinkPreviewRequest has no entry.
ServerOnly(min) == [min |-> min, fallback |-> "ServerOnly"]
Relayable(min) == [min |-> min, fallback |-> "PluginData"]

MessageSupport ==
       [t \in {"PchatMessage", "PchatFetch", "PchatKeyAnnounce", "PchatKeyExchange", "PchatAck",
              "PchatEpochCountersig", "PchatKeyHolderReport", "PchatKeyHoldersQuery",
              "PchatKeyChallengeResponse", "PchatDeleteMessages", "PchatReaction",
              "FancyPushRegister", "FancyPushUpdate", "FancySubscribePush", "FancyReadReceipt"}
        |-> ServerOnly(12)]
    @@ [t \in {"WebRtcSignal", "PchatSenderKeyDistribution"} |-> Relayable(12)]
    @@ "PchatPin"             :> ServerOnly(16)
    @@ "FancyTypingIndicator" :> Relayable(18)
    @@ "FancyWatchSync"       :> Relayable(20)
    @@ "FancyDrawStroke"      :> ServerOnly(30)

\* is_fancy_extension: the types a standard server does not know.
Extensions == DOMAIN MessageSupport \cup {"FancyLinkPreviewRequest"}

----------------------------------------------------------------------------
\* ServerState before anything arrived.
Flags == {"mute", "deaf", "selfMute", "selfDeaf", "comment", "texture", "registered"}
Fields == {"chan"} \cup Flags
NewUser == [f \in Fields |-> IF f = "chan" THEN 0 ELSE FALSE]
NoPerms == "unknown"
NewState == [session |-> 0, version |-> 0, users |-> << >>, perms |-> << >>]

\* Replaces the fields that are set, keeps the others.
Overlay(old, set) == [f \in Fields |-> IF Has(set, f) THEN set[f] ELSE old[f]]

apply_user_state(s, m) ==
    IF m.session = 0 THEN s
    ELSE LET old == IF m.session \in DOMAIN s.users THEN s.users[m.session] ELSE NewUser
         IN [s EXCEPT !.users = Put(@, m.session, Overlay(old, m.set))]

\* Mutant: the entry of a user who left stays for whoever gets the session next.
KeepUser(s, m) == s

remove_user(s, m) ==
    [s EXCEPT !.users = Restrict(@, DOMAIN @ \ {m.session})]

\* The rest of a channel's description is not told apart here.
apply_channel_state(s, m) ==
    IF ~Has(m, "channel") \/ m.channel \in DOMAIN s.perms THEN s
    ELSE [s EXCEPT !.perms = Put(@, m.channel, NoPerms)]

remove_channel(s, m) ==
    [s EXCEPT !.perms = Restrict(@, DOMAIN @ \ {m.channel})]

\* A flush empties the cache before the answer it carries is stored.
apply_permission_query(s, m) ==
    LET kept == IF m.flush THEN [c \in DOMAIN s.perms |-> NoPerms] ELSE s.perms
    IN [s EXCEPT !.perms =
          IF Has(m, "channel") /\ m.channel \in DOMAIN kept
            THEN [kept EXCEPT ![m.channel] = m.permissions] ELSE kept]

apply_version(s, m) == [s EXCEPT !.version = m.fancy]

apply_server_sync(s, m) ==
    [s EXCEPT !.session = m.session,
              !.perms = IF 0 \in DOMAIN @ THEN [@ EXCEPT ![0] = m.permissions] ELSE @]

\* handle_control_message: what a message does to the state.
Applied(s, m) ==
    CASE m.type = "Version"         -> apply_version(s, m)
      [] m.type = "ServerSync"      -> apply_server_sync(s, m)
      [] m.type = "UserState"       -> apply_user_state(s, m)
      [] m.type = "UserRemove"      -> remove_user(s, m)
      [] m.type = "ChannelState"    -> apply_channel_state(s, m)
      [] m.type = "ChannelRemove"   -> remove_channel(s, m)
      [] m.type = "PermissionQuery" -> apply_permission_query(s, m)
      [] OTHER -> s

----------------------------------------------------------------------------
\* FANCY_NATIVE_MIN_VERSION, below which (0: none announced) the server gets
\* the legacy codec.  A native codec remembers the version it was chosen for.
NativeMin == 12
LegacyCodec == [native |-> FALSE, version |-> 0]

select_codec(version) ==
    IF version >= NativeMin THEN [native |-> TRUE, version |-> version] ELSE LegacyCodec

channel_members_except_self(s) ==
    LET mine == IF s.session \in DOMAIN s.users THEN s.users[s.session].chan ELSE 0
    IN {u \in DOMAIN s.users \ {s.session} : s.users[u].chan = mine}

\* Mutant: a sender key goes to the members of our own channel, not of its own.
ReceiversHere(m, s) ==
    CASE m.type = "WebRtcSignal" /\ m.target # 0 -> {m.target}
      [] m.type = "WebRtcSignal" /\ m.target = 0 -> channel_members_except_self(s)
      [] m.type \in {"FancyTypingIndicator", "FancyWatchSync", "PchatSenderKeyDistribution"} ->
            channel_members_except_self(s)
      [] OTHER -> {}

extract_receiver_sessions(m, s) ==
    CASE m.type = "WebRtcSignal" /\ m.target # 0 -> {m.target}
      [] m.type = "WebRtcSignal" /\ m.target = 0 -> channel_members_except_self(s)
      [] m.type \in {"FancyTypingIndicator", "FancyWatchSync"} -> channel_members_except_self(s)
      [] m.type = "PchatSenderKeyDistribution" ->
            {u \in DOMAIN s.users \ {s.session} : s.users[u].chan = m.channel}
      [] OTHER -> {}

\* An encoder yields the message to send, or none.
LegacyEncode(m, s) ==
    LET to == extract_receiver_sessions(m, s)
    IN IF m.type \notin Extensions THEN {m}
       ELSE IF to = {} THEN {}
       ELSE {[type |-> "PluginDataTransmission", receivers |-> to, wrapped |-> m]}

NativeEncode(codec, m, s) ==
    IF m.type \notin DOMAIN MessageSupport \/ codec.version >= MessageSupport[m.type].min
      THEN {m}
      ELSE IF MessageSupport[m.type].fallback = "PluginData" THEN LegacyEncode(m, s) ELSE {}

Encode(codec, m, s) ==
    IF codec.native THEN NativeEncode(codec, m, s) ELSE LegacyEncode(m, s)

\* Only the typing indicator and the watch event get the envelope's sender.
patch_sender_session(m, sender) ==
    IF m.type \in {"FancyTypingIndicator", "FancyWatchSync"} /\ ~Has(m, "from")
      THEN Put(m, "from", sender) ELSE m

\* Both codecs decode alike; plugin data of another kind is left as it is.
Decode(m) ==
    IF m.type = "PluginDataTransmission" /\ Has(m, "wrapped")
      THEN patch_sender_session(m.wrapped, m.sender) ELSE m
=============================================================================
