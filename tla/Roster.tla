------------------------------- MODULE Roster -------------------------------
(***************************************************************************)
(* Our own place on the server: the channel we are in, the one we look at, *)
(* the ones we listen to, what we may do there and what is unread.         *)
(* Commands change the local state under the lock first and send the       *)
(* request afterwards; the server answers in its own time, may refuse, and *)
(* may move us or throw us out at any moment.                              *)
(***************************************************************************)
EXTENDS Naturals, Sequences, FiniteSets

CONSTANTS Channels,     \* channel ids
          MaxCommands,  \* bound: user commands that talk to the server
          MaxMoves,     \* bound: moves by an administrator
          MaxTexts      \* bound: text messages per channel or person

VARIABLES current,   \* current_channel
          selected,  \* selected_channel or selected_dm_user
          listened,  \* permanently_listened
          perms,     \* what the cached permission mask says of listening
          unread,    \* channel_unread, and dm_unread of one other user
          linked,    \* conn.client_handle is set
          home,      \* server: the channel we are in
          ears,      \* server: the channels we listen to
          up, down,  \* requests and answers under way
          budget,    \* commands and moves left
          refused,   \* history: the last word on our channel was a refusal
          muddled    \* history: listening changed while viewed, or refused

own == <<current, selected, listened, perms, unread, linked, home, ears, up, down,
         budget, refused, muddled>>

None == "none"
Person == "person"      \* a direct conversation
Places == Channels \cup {Person}

RosterTypeOK ==
    /\ current \in Channels \cup {None} /\ selected \in Places \cup {None}
    /\ listened \subseteq Channels /\ ears \subseteq Channels /\ muddled \subseteq Channels
    /\ perms \in [Channels -> {"unknown", "yes", "no"}]
    /\ unread \in [Places -> 0..MaxTexts]
    /\ home \in Channels /\ linked \in BOOLEAN /\ refused \in BOOLEAN

\* apply_sync_state: ServerSync found us in the users.
RosterInit ==
    /\ home \in Channels /\ current = home
    /\ selected = None /\ listened = {} /\ ears = {}
    /\ perms = [c \in Channels |-> "unknown"]
    /\ unread = [p \in Places |-> 0]
    /\ linked = TRUE /\ up = <<>> /\ down = <<>>
    /\ budget = [commands |-> MaxCommands, moves |-> MaxMoves]
    /\ refused = FALSE /\ muddled = {}

Spend(what) == budget[what] > 0 /\ budget' = [budget EXCEPT ![what] = @ - 1]

\* What a command sends once the lock is gone; nothing without a handle.
Send(requests) == up' = IF linked THEN up \o requests ELSE up

Request(kind, c) == [kind |-> kind, chan |-> c]

-----------------------------------------------------------------------------
(* Commands                                                                *)

\* Mutant: the channel keeps its unread count.
SelectKeepsUnread(c) ==
    /\ selected' = c
    /\ IF c = Person THEN UNCHANGED <<up, budget>>
       ELSE Spend("commands") /\ Send(<<Request("query", c)>>)
    /\ UNCHANGED <<current, listened, perms, unread, linked, home, ears, down, refused,
                   muddled>>

\* select_channel and select_dm_user: one view at a time, and it is read.
Select(c) ==
    /\ selected' = c
    /\ unread' = [unread EXCEPT ![c] = 0]
    /\ IF c = Person THEN UNCHANGED <<up, budget>>
       ELSE Spend("commands") /\ Send(<<Request("query", c)>>)
    /\ UNCHANGED <<current, listened, perms, linked, home, ears, down, refused, muddled>>

\* mark_read, mark_dm_read
MarkRead(p) ==
    /\ unread' = [unread EXCEPT ![p] = 0]
    /\ UNCHANGED <<current, selected, listened, perms, linked, home, ears, up, down,
                   budget, refused, muddled>>

\* join_channel: current_channel is set before the server has been asked.
JoinChannel(c) ==
    /\ Spend("commands")
    /\ current' = c
    /\ Send(<<Request("join", c), Request("query", c)>>)
    /\ UNCHANGED <<selected, listened, perms, unread, linked, home, ears, down, refused,
                   muddled>>

ListenRequest(c) == Request(IF c \in listened THEN "unlisten" ELSE "listen", c)

\* toggle_listen; nothing is sent for the channel that is being viewed.
ToggleListen(c) ==
    /\ Spend("commands")
    /\ c \in listened \/ perms[c] # "no"
    /\ listened' = IF c \in listened THEN listened \ {c} ELSE listened \cup {c}
    /\ Send(IF selected = c THEN <<>> ELSE <<ListenRequest(c)>>)
    /\ muddled' = IF selected = c \/ ~linked THEN muddled \cup {c} ELSE muddled
    /\ UNCHANGED <<current, selected, perms, unread, linked, home, ears, down, refused>>

-----------------------------------------------------------------------------
(* Handlers                                                                *)

Got(kind) == linked /\ down # <<>> /\ Head(down).kind = kind /\ down' = Tail(down)

\* Mutant: a move is taken over only where no channel was set.
OwnMoveOnce(c) == current' = IF current = None THEN c ELSE current

\* set_channel_outcome for our own session.
SetOwnChannel(c) == current' = c

\* UserState of our own session.
OwnUserState ==
    /\ Got("moved")
    /\ SetOwnChannel(Head(down).chan)
    /\ refused' = FALSE
    /\ UNCHANGED <<selected, listened, perms, unread, linked, home, ears, up, budget,
                   muddled>>

\* PermissionDenied: whatever was refused, listening is taken back and the
\* channel stays what join_channel made it.
PermissionDenied ==
    /\ Got("denied")
    /\ listened' = listened \ {Head(down).chan}
    /\ refused' = (refused \/ Head(down).what = "join")
    /\ muddled' = muddled \cup {Head(down).chan}
    /\ UNCHANGED <<current, selected, perms, unread, linked, home, ears, up, budget>>

\* PermissionQuery; flush forgets the masks of all the channels first.
PermissionQuery ==
    /\ Got("mask")
    /\ LET m == Head(down)
           kept == IF m.flush THEN [c \in Channels |-> "unknown"] ELSE perms
       IN perms' = [kept EXCEPT ![m.chan] = m.may]
    /\ UNCHANGED <<current, selected, listened, unread, linked, home, ears, up, budget,
                   refused, muddled>>

\* A message is counted unless its place is being viewed.
Arrives(p) ==
    /\ linked
    /\ selected # p /\ unread[p] < MaxTexts
    /\ unread' = [unread EXCEPT ![p] = @ + 1]
    /\ UNCHANGED <<current, selected, listened, perms, linked, home, ears, up, down,
                   budget, refused, muddled>>

handle_direct_message == Arrives(Person)
handle_channel_message(c) == Arrives(c)

\* TextMessage of somebody else; an edit changes a message in place.
TextMessage(p) == IF p = Person THEN handle_direct_message ELSE handle_channel_message(p)

\* The encrypted message is counted whoever sent it and whether or not its
\* thread had it already.
PchatMessageDeliver(c) == Arrives(c)

\* UserRemove of our own session; direct messages and their view stay.
OwnUserRemove ==
    /\ Got("removed")
    /\ linked' = FALSE /\ current' = None /\ listened' = {}
    /\ selected' = IF selected = Person THEN Person ELSE None
    /\ perms' = [c \in Channels |-> "unknown"]
    /\ unread' = [p \in Places |-> IF p = Person THEN unread[p] ELSE 0]
    /\ UNCHANGED <<home, ears, up, budget, refused, muddled>>

-----------------------------------------------------------------------------
(* The server (external)                                                   *)

Answer(m) == down' = Append(down, m)
Removed == down # <<>> /\ down[Len(down)].kind = "removed"

ServerJoin ==
    /\ up # <<>> /\ Head(up).kind = "join" /\ ~Removed /\ linked
    /\ LET c == Head(up).chan
       IN \/ c = home /\ UNCHANGED <<home, down>>
          \/ c # home /\ home' = c /\ Answer([kind |-> "moved", chan |-> c])
          \/ c # home /\ UNCHANGED home
             /\ Answer([kind |-> "denied", chan |-> c, what |-> "join"])
    /\ up' = Tail(up)
    /\ UNCHANGED <<current, selected, listened, perms, unread, linked, ears, budget,
                   refused, muddled>>

ServerListen ==
    /\ up # <<>> /\ Head(up).kind \in {"listen", "unlisten"} /\ ~Removed /\ linked
    /\ LET c == Head(up).chan
       IN \/ /\ ears' = IF Head(up).kind = "listen" THEN ears \cup {c} ELSE ears \ {c}
             /\ UNCHANGED down
          \/ Head(up).kind = "listen" /\ UNCHANGED ears
             /\ Answer([kind |-> "denied", chan |-> c, what |-> "listen"])
    /\ up' = Tail(up)
    /\ UNCHANGED <<current, selected, listened, perms, unread, linked, home, budget,
                   refused, muddled>>

ServerQuery ==
    /\ up # <<>> /\ Head(up).kind = "query" /\ ~Removed /\ linked
    /\ \E may \in {"yes", "no"}, flush \in BOOLEAN :
           Answer([kind |-> "mask", chan |-> Head(up).chan, may |-> may,
                   flush |-> flush])
    /\ up' = Tail(up)
    /\ UNCHANGED <<current, selected, listened, perms, unread, linked, home, ears, budget,
                   refused, muddled>>

\* An administrator moves or removes us.
ServerMove(c) ==
    /\ c # home /\ ~Removed /\ linked
    /\ Spend("moves")
    /\ home' = c /\ Answer([kind |-> "moved", chan |-> c])
    /\ UNCHANGED <<current, selected, listened, perms, unread, linked, ears, up, refused,
                   muddled>>

ServerRemove ==
    /\ ~Removed /\ linked /\ Spend("moves")
    /\ Answer([kind |-> "removed"])
    /\ UNCHANGED <<current, selected, listened, perms, unread, linked, home, ears, up,
                   refused, muddled>>

RosterNext ==
    \/ \E p \in Places : Select(p) \/ MarkRead(p) \/ TextMessage(p)
    \/ \E c \in Channels : JoinChannel(c) \/ ToggleListen(c) \/ ServerMove(c)
                          \/ PchatMessageDeliver(c)
    \/ OwnUserState \/ PermissionDenied \/ PermissionQuery \/ OwnUserRemove
    \/ ServerJoin \/ ServerListen \/ ServerQuery \/ ServerRemove

RosterSpec == RosterInit /\ [][RosterNext]_own

-----------------------------------------------------------------------------
Quiet == linked /\ up = <<>> /\ down = <<>>

(* However joins, refusals and an administrator's moves interleave, once    *)
(* everything has been answered the channel we show as ours is the one the  *)
(* server has us in, unless the last thing it said was that we may not join *)
(* (the optimistic current_channel of join_channel is not taken back).  The *)
(* listening state shown agrees too, but for channels toggled while viewed  *)
(* (toggle_listen sends nothing for those) and channels some request was    *)
(* refused for.                                                             *)
OwnChannelAgrees ==
    Quiet => /\ current = home \/ refused
             /\ \A c \in Channels \ muddled : c \in listened <=> c \in ears

(* What is being viewed has no unread messages, whichever way the view was  *)
(* reached and however messages arrive.                                     *)
ViewedIsRead == selected # None => unread[selected] = 0
=============================================================================
