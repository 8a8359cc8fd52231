------------------------------ MODULE Commands ------------------------------
(***************************************************************************)
(* The commands a user of the client library issues: each turns itself     *)
(* into the control messages it sends (CommandAction::execute) from the    *)
(* tracked server state s.  The fields are the ones FancyCodec tells apart;*)
(* texts, names and reasons are left out.                                  *)
(***************************************************************************)
EXTENDS FancyCodec, Sequences

\* CommandOutput of a command that sends one control message.
Tcp(m) == [tcp |-> <<m>>, audio |-> FALSE, disconnect |-> FALSE]

\* A UserState for the session and the fields that are set.  Our own session is
\* not known until ServerSync; the server reads a missing one as the sender's.
UserState(session, set) == [type |-> "UserState", session |-> session, set |-> set]

Authenticate == Tcp([type |-> "Authenticate"])
Disconnect == [tcp |-> << >>, audio |-> FALSE, disconnect |-> TRUE]
SendAudioCommand == [tcp |-> << >>, audio |-> TRUE, disconnect |-> FALSE]

\* Users and channels.
JoinChannel(s, c) == Tcp(UserState(s.session, [chan |-> c]))
MoveUser(u, c) == Tcp(UserState(u, [chan |-> c]))
SetUserMute(u, on) == Tcp(UserState(u, [mute |-> on]))
SetUserDeaf(u, on) == Tcp(UserState(u, [deaf |-> on]))
KickUser(u) == Tcp([type |-> "UserRemove", session |-> u, ban |-> FALSE])
BanUser(u) == Tcp([type |-> "UserRemove", session |-> u, ban |-> TRUE])
SetPrioritySpeaker(u, on) == Tcp(UserState(u, [priority |-> on]))
RegisterUser(u) == Tcp(UserState(u, [registered |-> TRUE]))
SetComment(s, set) == Tcp(UserState(s.session, [comment |-> set]))
SetTexture(s, set) == Tcp(UserState(s.session, [texture |-> set]))
ResetUserComment(u) == Tcp(UserState(u, [comment |-> FALSE]))
RemoveUserAvatar(u) == Tcp(UserState(u, [texture |-> FALSE]))
SetChannelState(c) == Tcp([type |-> "ChannelState", channel |-> c])
DeleteChannel(c) == Tcp([type |-> "ChannelRemove", channel |-> c])
PermissionQuery(c) == Tcp([type |-> "PermissionQuery", channel |-> c])
ChannelListen(s, c) == Tcp(UserState(s.session, [listen |-> c]))

\* Unmuting clears self-deaf, deafening sets self-mute.
SetSelfMute(s, on) ==
    Tcp(UserState(s.session, IF on THEN [selfMute |-> TRUE]
                             ELSE [selfMute |-> FALSE, selfDeaf |-> FALSE]))
SetSelfDeaf(s, on) ==
    Tcp(UserState(s.session, IF on THEN [selfMute |-> TRUE, selfDeaf |-> TRUE]
                             ELSE [selfDeaf |-> FALSE]))

\* Requests and lists, which the tracked state does not depend on.
SendPing == Tcp([type |-> "Ping"])
RequestBlob == Tcp([type |-> "RequestBlob"])
RequestUserStats == Tcp([type |-> "UserStats"])
RequestUserList == Tcp([type |-> "UserList"])
UpdateUserList == Tcp([type |-> "UserList", changed |-> TRUE])
RequestBanList == Tcp([type |-> "BanList", query |-> TRUE])
SendBanList == Tcp([type |-> "BanList", query |-> FALSE])
RequestAcl == Tcp([type |-> "ACL", query |-> TRUE])
SendAcl == Tcp([type |-> "ACL", query |-> FALSE])
SetVoiceTarget == Tcp([type |-> "VoiceTarget"])

\* Messages and extensions.
SendTextMessage == Tcp([type |-> "TextMessage"])
SendPluginData(to) == Tcp([type |-> "PluginDataTransmission", receivers |-> to])
SendTypingIndicator(c) == Tcp([type |-> "FancyTypingIndicator", channel |-> c])
SendWatchSync == Tcp([type |-> "FancyWatchSync"])
SendWebRtcSignal(to) == Tcp([type |-> "WebRtcSignal", target |-> to])
SendPchatSenderKeyDistribution(c) == Tcp([type |-> "PchatSenderKeyDistribution", channel |-> c])
SendPchatMessage == Tcp([type |-> "PchatMessage"])
SendPchatFetch == Tcp([type |-> "PchatFetch"])
SendPchatKeyAnnounce == Tcp([type |-> "PchatKeyAnnounce"])
SendPchatKeyExchange == Tcp([type |-> "PchatKeyExchange"])
SendPchatAck == Tcp([type |-> "PchatAck"])
SendPchatEpochCountersig == Tcp([type |-> "PchatEpochCountersig"])
SendPchatKeyHolderReport == Tcp([type |-> "PchatKeyHolderReport"])
SendPchatKeyHoldersQuery == Tcp([type |-> "PchatKeyHoldersQuery"])
SendPchatKeyChallengeResponse == Tcp([type |-> "PchatKeyChallengeResponse"])
SendPchatDeleteMessages == Tcp([type |-> "PchatDeleteMessages"])
SendFancyPushRegister == Tcp([type |-> "FancyPushRegister"])
SendFancyPushUpdate == Tcp([type |-> "FancyPushUpdate"])
SendFancySubscribePush == Tcp([type |-> "FancySubscribePush"])
SendPchatReaction == Tcp([type |-> "PchatReaction"])
SendPchatPin == Tcp([type |-> "PchatPin"])
SendReadReceipt == Tcp([type |-> "FancyReadReceipt"])
SendDrawStroke == Tcp([type |-> "FancyDrawStroke"])
RequestLinkPreview == Tcp([type |-> "FancyLinkPreviewRequest"])

\* The commands whose message the server processes or relays as it is, or that
\* the codec drops.
Plain ==
    {SendPing, RequestBlob, RequestUserStats, RequestUserList, UpdateUserList, RequestBanList,
     SendBanList, RequestAcl, SendAcl, SetVoiceTarget, SendTextMessage, RequestLinkPreview,
     SendPchatMessage, SendPchatFetch, SendPchatKeyAnnounce, SendPchatKeyExchange, SendPchatAck,
     SendPchatEpochCountersig, SendPchatKeyHolderReport, SendPchatKeyHoldersQuery,
     SendPchatKeyChallengeResponse, SendPchatDeleteMessages, SendFancyPushRegister,
     SendFancyPushUpdate, SendFancySubscribePush, SendPchatReaction, SendPchatPin,
     SendReadReceipt, SendDrawStroke}
=============================================================================
