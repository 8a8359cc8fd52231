-------------------------------- MODULE Relay --------------------------------
(***************************************************************************)
(* One connection seen by the event loop of the client library: control    *)
(* messages from the server are decoded and applied to the tracked state,  *)
(* the codec is chosen when the server's Version arrives, and commands are *)
(* executed against the state, encoded and queued to the server.  The      *)
(* server and the other clients (which run this same program) are external:*)
(* they change users, channels and permissions and send what a Mumble      *)
(* server sends about it, in order, over the TCP stream.                   *)
(***************************************************************************)
EXTENDS Commands, SequencesExt, FiniteSets

CONSTANTS Peers,        \* sessions of the other users
          Channels,     \* channel ids, 0 is the root
          Versions,     \* fancy versions a server may announce, 0: none
          MaxSteps,     \* bound: commands, and changes by the server and the peers
          InFlight      \* bound: messages travelling in each direction

Me == 1

\* Session ids are given out by the server: ours to nobody else, 0 to nobody.
ASSUME RelayAssumption ==
    /\ IsFiniteSet(Peers) /\ IsFiniteSet(Channels)
    /\ Me \notin Peers /\ 0 \notin Peers

VARIABLES
    st,         \* ServerState
    codec,      \* the FancyCodec in use
    running,    \* the event loop runs
    toMe,       \* messages on their way to the client
    toServer,   \* messages on their way to the server
    srv,        \* the server: its version, users and our permissions per channel
    sent,       \* the last wrapped message: its receivers and who should get it
    heard,      \* the last extension message of a peer the application got
    steps       \* what is left of the bound

relayVars == <<st, codec, running, toMe, toServer, srv, sent, heard, steps>>

NothingSent == [to |-> {}, wanted |-> {}, current |-> FALSE]
NothingHeard == [type |-> "none", from |-> 0, origin |-> 0]

Sessions == Peers \cup {Me}
Verdicts == {"granted", "refused"}
IsUser(user) ==
    DOMAIN user = Fields /\ user.chan \in Channels /\ \A f \in Flags : user[f] \in BOOLEAN

RelayTypeOK ==
    /\ st.session \in {0, Me} /\ st.version \in Versions \cup {0}
    /\ DOMAIN st.users \subseteq Sessions
    /\ \A u \in DOMAIN st.users : IsUser(st.users[u])
    /\ DOMAIN st.perms \subseteq Channels
    /\ \A c \in DOMAIN st.perms : st.perms[c] \in Verdicts \cup {NoPerms}
    /\ codec \in {select_codec(v) : v \in Versions \cup {0}}
    /\ running \in BOOLEAN
    /\ sent.to \subseteq Sessions

RelayInit ==
    /\ st = NewState /\ codec = LegacyCodec /\ running = TRUE
    /\ \E v \in Versions, there \in SUBSET Peers, c \in Channels, deaf \in BOOLEAN :
        /\ srv = [version |-> v, perms |-> [x \in Channels |-> "granted"],
                  users |-> [u \in there |->
                    Overlay(NewUser, [chan |-> c, selfMute |-> deaf, selfDeaf |-> deaf])]]
        /\ toMe = <<[type |-> "Version", fancy |-> v]>>
    /\ toServer = << >>
    /\ sent = NothingSent /\ heard = NothingHeard
    /\ steps = MaxSteps

----------------------------------------------------------------------------
\* The event loop.

\* handle_server_message: the codec follows the version, a Reject ends the loop.
HandleServerMessage ==
    /\ running /\ toMe # << >>
    /\ LET m == Decode(Head(toMe))
       IN /\ st' = Applied(st, m)
          /\ codec' = IF m.type = "Version" THEN select_codec(st'.version) ELSE codec
          /\ running' = (m.type # "Reject")
          /\ heard' = IF Has(m, "origin")
                        THEN [type |-> m.type, origin |-> m.origin,
                              from |-> IF Has(m, "from") THEN m.from ELSE 0]
                        ELSE heard
    /\ toMe' = Tail(toMe)
    /\ UNCHANGED <<toServer, srv, sent, steps>>

\* The members a channel has for the server.
Members(c) == {u \in DOMAIN srv.users \ {Me} : srv.users[u].chan = c}

\* Who should get a client-to-client message that is sent now.
Wanted(m) ==
    CASE m.type = "PchatSenderKeyDistribution" -> Members(m.channel)
      [] m.type = "WebRtcSignal" /\ m.target # 0 -> {m.target}
      [] OTHER -> Members(IF Me \in DOMAIN srv.users THEN srv.users[Me].chan ELSE 0)

Wrapped(m) == m.type = "PluginDataTransmission" /\ Has(m, "wrapped")

\* handle_user_command: the messages of the command pass the codec; audio goes
\* over UDP where there is a sender that works, else through the TCP stream.
HandleUserCommand(output) ==
    /\ running /\ steps > 0
    /\ Len(toServer) < InFlight
    /\ steps' = steps - 1
    /\ LET out == IF output.tcp = << >> THEN {} ELSE Encode(codec, Head(output.tcp), st)
       IN /\ \/ toServer' = IF out = {} THEN toServer
                            ELSE Append(toServer, CHOOSE m \in out : TRUE)
             \/ /\ output.audio
                /\ toServer' = Append(toServer, [type |-> "UDPTunnel"])
          /\ sent' = IF \E m \in out : Wrapped(m)
                       THEN LET m == CHOOSE x \in out : TRUE
                            IN [to |-> m.receivers, wanted |-> Wanted(m.wrapped),
                                current |-> toMe = << >> /\ st.session # 0]
                       ELSE sent
    /\ running' = ~output.disconnect
    /\ UNCHANGED <<st, codec, toMe, srv, heard>>

UserCommands ==
    \E c \in Channels, u \in Peers, on \in BOOLEAN :
        HandleUserCommand(JoinChannel(st, c)) \/ HandleUserCommand(MoveUser(u, c))
        \/ HandleUserCommand(SetUserMute(u, on)) \/ HandleUserCommand(SetUserDeaf(u, on))
        \/ HandleUserCommand(KickUser(u)) \/ HandleUserCommand(BanUser(u))
        \/ HandleUserCommand(SetSelfMute(st, on)) \/ HandleUserCommand(SetSelfDeaf(st, on))
        \/ HandleUserCommand(ChannelListen(st, c)) \/ HandleUserCommand(SetPrioritySpeaker(u, on))
        \/ HandleUserCommand(SetComment(st, on)) \/ HandleUserCommand(SetTexture(st, on))
        \/ HandleUserCommand(ResetUserComment(u)) \/ HandleUserCommand(RemoveUserAvatar(u))
        \/ HandleUserCommand(RegisterUser(u))

ChannelCommands ==
    \E c \in Channels \ {0} :
        HandleUserCommand(SetChannelState(c)) \/ HandleUserCommand(DeleteChannel(c))
        \/ HandleUserCommand(PermissionQuery(c))

MessageCommands ==
    \/ \E c \in Channels :
        HandleUserCommand(SendTypingIndicator(c))
        \/ HandleUserCommand(SendPchatSenderKeyDistribution(c))
    \/ \E output \in Plain : HandleUserCommand(output)
    \/ \E u \in Peers \cup {0} : HandleUserCommand(SendWebRtcSignal(u))
    \/ HandleUserCommand(SendPluginData(Peers)) \/ HandleUserCommand(SendWatchSync)

SessionCommands ==
    \/ Me \notin DOMAIN srv.users /\ HandleUserCommand(Authenticate)
    \/ HandleUserCommand(SendAudioCommand)
    \/ HandleUserCommand(Disconnect)

----------------------------------------------------------------------------
\* The server, external.  What it says of a user carries the fields that
\* differ from the defaults when the user appears, later the changed ones.
Announce(u, user) ==
    UserState(u, [f \in {g \in Fields : user[g] # NewUser[g]} |-> user[f]])

\* Told: the client gets the messages while it is connected.
Tell(messages) ==
    toMe' = IF Me \in DOMAIN srv'.users THEN toMe \o messages ELSE toMe

ServerKeeps == UNCHANGED <<st, codec, running, sent, heard>>

\* The login: channels, then users, then ServerSync; or a refusal.
ServerAuthenticates ==
    /\ toServer # << >> /\ Head(toServer).type = "Authenticate" /\ Me \notin DOMAIN srv.users
    /\ \/ /\ srv' = [srv EXCEPT !.users = Put(@, Me, NewUser)]
          /\ LET us == SetToSeq(DOMAIN srv'.users)
                 cs == SetToSeq(DOMAIN srv.perms)
             IN Tell([i \in DOMAIN cs |-> [type |-> "ChannelState", channel |-> cs[i]]]
                     \o [i \in DOMAIN us |-> Announce(us[i], srv'.users[us[i]])]
                     \o <<[type |-> "ServerSync", session |-> Me, permissions |-> srv.perms[0]]>>)
       \/ toMe' = Append(toMe, [type |-> "Reject"]) /\ UNCHANGED srv
    /\ toServer' = Tail(toServer)
    /\ UNCHANGED steps /\ ServerKeeps

PermissionAnswer(flush, c, verdict) ==
    [type |-> "PermissionQuery", flush |-> flush, channel |-> c, permissions |-> verdict]

\* The changes the client asked for: granted and announced, or refused.
Changed(m) ==
    LET u == IF m.session = 0 THEN Me ELSE m.session
    IN CASE m.type = "UserState" /\ u \in DOMAIN srv.users
            /\ (Has(m.set, "chan") => m.set.chan \in DOMAIN srv.perms) ->
              [state |-> [srv EXCEPT !.users[u] = Overlay(@, m.set)], told |-> <<UserState(u, m.set)>>]
         [] m.type = "UserRemove" /\ m.session \in DOMAIN srv.users ->
              [state |-> [srv EXCEPT !.users = Restrict(@, DOMAIN @ \ {m.session})], told |-> <<m>>]
         [] m.type = "ChannelState" ->
              [state |-> IF m.channel \in DOMAIN srv.perms THEN srv
                         ELSE [srv EXCEPT !.perms = Put(@, m.channel, "granted")], told |-> <<m>>]
         [] m.type = "ChannelRemove" /\ m.channel \in DOMAIN srv.perms
            /\ \A x \in DOMAIN srv.users : srv.users[x].chan # m.channel ->
              [state |-> [srv EXCEPT !.perms = Restrict(@, DOMAIN @ \ {m.channel})], told |-> <<m>>]
         [] m.type = "PermissionQuery" /\ m.channel \in DOMAIN srv.perms ->
              [state |-> srv, told |-> <<PermissionAnswer(FALSE, m.channel, srv.perms[m.channel])>>]
         [] m.type = "PluginDataTransmission" /\ Me \in m.receivers ->
              [state |-> srv, told |-> <<Put(m, "sender", Me)>>]
         [] OTHER -> [state |-> srv, told |-> << >>]

ServerTakes ==
    /\ toServer # << >> /\ Me \in DOMAIN srv.users
    /\ Len(toMe) < InFlight
    /\ toServer' = Tail(toServer)
    /\ LET r == Changed(Head(toServer))
       IN \/ srv' = r.state /\ Tell(r.told)
          \/ /\ r.state # srv
             /\ UNCHANGED srv /\ Tell(<<[type |-> "PermissionDenied"]>>)
    /\ UNCHANGED steps /\ ServerKeeps

\* A message that reaches the server before the login is dropped.
ServerIgnores ==
    /\ toServer # << >> /\ Me \notin DOMAIN srv.users /\ Head(toServer).type # "Authenticate"
    /\ toServer' = Tail(toServer)
    /\ UNCHANGED <<toMe, srv, steps>> /\ ServerKeeps

Event ==
    /\ steps > 0 /\ Len(toMe) < InFlight
    /\ steps' = steps - 1
    /\ UNCHANGED toServer /\ ServerKeeps

PeerArrives(u) ==
    /\ Event /\ u \notin DOMAIN srv.users
    /\ \E c \in DOMAIN srv.perms, deaf \in BOOLEAN :
         LET user == Overlay(NewUser, [chan |-> c, selfMute |-> deaf, selfDeaf |-> deaf])
         IN /\ srv' = [srv EXCEPT !.users = Put(@, u, user)]
            /\ Tell(<<Announce(u, user)>>)

PeerLeaves(u) ==
    /\ Event /\ u \in DOMAIN srv.users
    /\ srv' = [srv EXCEPT !.users = Restrict(@, DOMAIN @ \ {u})]
    /\ Tell(<<[type |-> "UserRemove", session |-> u]>>)

PeerMoves(u) ==
    /\ Event /\ u \in DOMAIN srv.users
    /\ \E c \in DOMAIN srv.perms \ {srv.users[u].chan} :
        /\ srv' = [srv EXCEPT !.users[u] = Overlay(@, [chan |-> c])]
        /\ Tell(<<UserState(u, [chan |-> c])>>)

\* Our rights on a channel change: every cached answer is flushed.
RightsChange(c) ==
    /\ Event /\ c \in DOMAIN srv.perms
    /\ srv' = [srv EXCEPT !.perms[c] = IF @ = "granted" THEN "refused" ELSE "granted"]
    /\ Tell(<<PermissionAnswer(TRUE, 0, srv'.perms[0])>>)

\* A peer in our channel sends us an extension message: natively the server
\* stamps the sender on it, in an envelope it stamps the envelope.
PeerSends(u, type) ==
    /\ Event /\ {u, Me} \subseteq DOMAIN srv.users
    /\ srv.users[u].chan = srv.users[Me].chan
    /\ UNCHANGED srv
    /\ LET m == [type |-> type, origin |-> u]
       IN Tell(<<IF srv.version >= MessageSupport[type].min THEN Put(m, "from", u)
                 ELSE [type |-> "PluginDataTransmission", sender |-> u, wrapped |-> m]>>)

Relayed == {"WebRtcSignal", "FancyTypingIndicator", "FancyWatchSync"}

RelayNext ==
    \/ HandleServerMessage
    \/ UserCommands \/ ChannelCommands \/ MessageCommands \/ SessionCommands
    \/ ServerAuthenticates \/ ServerTakes \/ ServerIgnores
    \/ \E u \in Peers :
        \/ PeerArrives(u) \/ PeerLeaves(u) \/ PeerMoves(u)
        \/ \E type \in Relayed : PeerSends(u, type)
    \/ \E c \in Channels : RightsChange(c)

RelaySpec == RelayInit /\ [][RelayNext]_relayVars

----------------------------------------------------------------------------
Caught == running /\ toMe = << >> /\ st.session = Me

\* Once every message has been handled, the client sees the users the server
\* has, each with its channel and states, whoever used the session before, and
\* no permission it cached for a channel is one the server has changed.
ViewFollowsServer ==
    Caught =>
        /\ st.users = srv.users
        /\ DOMAIN st.perms = DOMAIN srv.perms
        /\ \A c \in DOMAIN st.perms : st.perms[c] \in {NoPerms, srv.perms[c]}

\* A client-to-client message sent in an envelope while the view is current
\* goes to exactly the users it is meant for: the other members of our channel,
\* of the channel a sender key belongs to, or the one peer it names.
AudienceIsChannel == sent.current => sent.to = sent.wanted

\* The same of every message that is relayed client to client: "Transfer the
\* sender_session from the PluginData envelope into the decoded message's
\* actor/sender field" (fancy_codec.rs, patch_sender_session).
SenderTransferred == heard.type # "none" => heard.from = heard.origin

=============================================================================
