---------------------------- MODULE Roster_proofs ----------------------------
(***************************************************************************)
(* What the members of a server see of each other: the roster, the consent *)
(* prompts and the annotations of messages.                                *)
(*                                                                         *)
(* ViewedIsRead and OwnChannelAgrees for any set of channels and any number *)
(* of commands, moves and messages.                                        *)
(*                                                                         *)
(* OwnChannelAgrees speaks of quiet states only; the inductive invariant   *)
(* says what the requests and answers under way are still going to do.  If *)
(* an announced move is on its way, the last one names the channel the     *)
(* server has us in.  If none is, what we show is right already, or was    *)
(* refused, or a refusal is on its way, or the last join under way asks    *)
(* for exactly what we show.  Listening is settled in the same way, per    *)
(* channel, by the last request about that channel.                        *)
(*                                                                         *)
(* AnnotationsFollow and ReaderNamed for any reactions, messages and names *)
(* and any number of changes: again by the last word under way.            *)
(***************************************************************************)
EXTENDS Roster, KeySharing, Annotations, SequenceTheorems, TLAPS

Requests == [kind : {"join", "query", "listen", "unlisten"}, chan : Channels]
Answers ==
    [kind : {"moved"}, chan : Channels]
    \cup [kind : {"denied"}, chan : Channels, what : {"join", "listen"}]
    \cup [kind : {"mask"}, chan : Channels, may : {"yes", "no"}, flush : BOOLEAN]
    \cup [kind : {"removed"}]

Types ==
    /\ up \in Seq(Requests) /\ down \in Seq(Answers)
    /\ unread \in [Places -> Nat]
    /\ selected \in Places \cup {None}

-----------------------------------------------------------------------------
IsMove(m) == m.kind = "moved"
IsJoinDenial(m) == m.kind = "denied" /\ m.what = "join"
IsDenial(m, c) == m.kind = "denied" /\ m.chan = c
IsJoin(r) == r.kind = "join"
IsListen(r, c) == r.kind \in {"listen", "unlisten"} /\ r.chan = c

\* The last announced move names the channel the server has us in.
LastMoveHome ==
    \A i \in 1..Len(down) :
        (IsMove(down[i]) /\ \A j \in (i + 1)..Len(down) : ~IsMove(down[j]))
            => down[i].chan = home

\* The last join under way asks for the channel we show.
LastJoinCurrent ==
    \E i \in 1..Len(up) :
        /\ IsJoin(up[i]) /\ up[i].chan = current
        /\ \A j \in (i + 1)..Len(up) : ~IsJoin(up[j])

ChannelSettles ==
    \/ \E i \in 1..Len(down) : IsMove(down[i])
    \/ current = home
    \/ refused
    \/ \E i \in 1..Len(down) : IsJoinDenial(down[i])
    \/ LastJoinCurrent

\* The last request about listening to c asks for what we show.
LastListenShown(c) ==
    \E i \in 1..Len(up) :
        /\ IsListen(up[i], c)
        /\ up[i].kind = IF c \in listened THEN "listen" ELSE "unlisten"
        /\ \A j \in (i + 1)..Len(up) : ~IsListen(up[j], c)

NoListenUp(c) == \A i \in 1..Len(up) : ~IsListen(up[i], c)
DenialDown(c) == \E i \in 1..Len(down) : IsDenial(down[i], c)

ListeningSettles(c) ==
    \/ LastListenShown(c)
    \/ NoListenUp(c) /\ (DenialDown(c) \/ (c \in listened <=> c \in ears))

Settled ==
    linked => /\ LastMoveHome /\ ChannelSettles
              /\ \A c \in Channels \ muddled : ListeningSettles(c)

IInv == Types /\ ViewedIsRead /\ Settled

-----------------------------------------------------------------------------
(* Sequences: what taking the head and adding at the end do to the indices. *)

\* Taking the first element moves every index down by one.
LEMMA TailFacts ==
    ASSUME NEW S, NEW s \in Seq(S), s # << >>
    PROVE  /\ Head(s) = s[1] /\ Head(s) \in S /\ Len(s) \in Nat /\ Len(s) >= 1
           /\ Tail(s) \in Seq(S) /\ Len(Tail(s)) = Len(s) - 1
           /\ \A i \in 1..(Len(s) - 1) : Tail(s)[i] = s[i + 1]
OBVIOUS

\* Appending keeps every index and adds one.
LEMMA AppendFacts ==
    ASSUME NEW S, NEW s \in Seq(S), NEW m \in S
    PROVE  /\ Append(s, m) \in Seq(S) /\ Len(s) \in Nat
           /\ Len(Append(s, m)) = Len(s) + 1
           /\ \A i \in 1..Len(s) : Append(s, m)[i] = s[i]
           /\ Append(s, m)[Len(s) + 1] = m
OBVIOUS

\* Two requests added at once.
LEMMA ConcatFacts ==
    ASSUME NEW S, NEW s \in Seq(S), NEW a \in S, NEW b \in S
    PROVE  /\ s \o << >> = s
           /\ s \o <<a>> = Append(s, a)
           /\ s \o <<a, b>> = Append(Append(s, a), b)
<1>1. s \o << >> = s
  OBVIOUS
<1>2. s \o <<a>> = Append(s, a)
  OBVIOUS
<1>3. s \o <<a, b>> = Append(Append(s, a), b)
  OBVIOUS
<1> QED
  BY <1>1, <1>2, <1>3

-----------------------------------------------------------------------------
(* Appending a query changes nothing that matters; taking a request or an   *)
(* answer that is not the awaited one leaves the awaited one there.         *)

\* A request other than a join leaves the last join the last.
LEMMA JoinKept ==
    ASSUME Types, LastJoinCurrent, NEW r \in Requests, ~IsJoin(r),
           up' = Append(up, r), current' = current
    PROVE  LastJoinCurrent'
<1>1. PICK i \in 1..Len(up) : /\ IsJoin(up[i]) /\ up[i].chan = current
                              /\ \A j \in (i + 1)..Len(up) : ~IsJoin(up[j])
  BY DEF LastJoinCurrent
<1>2. /\ Len(up) \in Nat /\ Len(up') = Len(up) + 1
      /\ \A k \in 1..Len(up) : up'[k] = up[k]
      /\ up'[Len(up) + 1] = r
  BY AppendFacts DEF Types
<1>3. i \in 1..Len(up') /\ up'[i] = up[i]
  BY <1>2
<1>4. ASSUME NEW j \in (i + 1)..Len(up') PROVE ~IsJoin(up'[j])
  <2>1. CASE j \in 1..Len(up)
    BY <1>1, <1>2, <2>1
  <2>2. CASE j = Len(up) + 1
    BY <1>2, <2>2
  <2> QED
    BY <1>2, <2>1, <2>2
<1> QED
  BY <1>1, <1>3, <1>4 DEF LastJoinCurrent

\* Requests that are not about listening to c leave c as settled as it was.
LEMMA ListenKept ==
    ASSUME Types, NEW c \in Channels, ListeningSettles(c),
           Len(up') \in Nat, Len(up) <= Len(up'),
           \A k \in 1..Len(up) : up'[k] = up[k],
           \A k \in (Len(up) + 1)..Len(up') : ~IsListen(up'[k], c),
           c \in listened' <=> c \in listened, ears' = ears, down' = down
    PROVE  ListeningSettles(c)'
<1>1. Len(up) \in Nat
  BY DEF Types
<1>2. CASE LastListenShown(c)
  <2>1. PICK i \in 1..Len(up) :
            /\ IsListen(up[i], c)
            /\ up[i].kind = IF c \in listened THEN "listen" ELSE "unlisten"
            /\ \A j \in (i + 1)..Len(up) : ~IsListen(up[j], c)
    BY <1>2 DEF LastListenShown
  <2>2. i \in 1..Len(up') /\ up'[i] = up[i]
    BY <1>1
  <2>3. ASSUME NEW j \in (i + 1)..Len(up') PROVE ~IsListen(up'[j], c)
    <3>1. CASE j \in 1..Len(up)
      BY <1>1, <2>1, <3>1
    <3>2. CASE j \in (Len(up) + 1)..Len(up')
      BY <3>2
    <3> QED
      BY <1>1, <3>1, <3>2
  <2> QED
    BY <2>1, <2>2, <2>3 DEF ListeningSettles, LastListenShown
<1>3. CASE NoListenUp(c) /\ (DenialDown(c) \/ (c \in listened <=> c \in ears))
  <2>1. NoListenUp(c)'
    <3> SUFFICES ASSUME NEW j \in 1..Len(up') PROVE ~IsListen(up'[j], c)
      BY DEF NoListenUp
    <3>1. CASE j \in 1..Len(up)
      BY <1>3, <3>1 DEF NoListenUp
    <3>2. CASE j \in (Len(up) + 1)..Len(up')
      BY <3>2
    <3> QED
      BY <1>1, <3>1, <3>2
  <2>2. DenialDown(c) => DenialDown(c)'
    BY DEF DenialDown
  <2> QED
    BY <1>3, <2>1, <2>2 DEF ListeningSettles
<1> QED
  BY <1>2, <1>3 DEF ListeningSettles

\* A new answer keeps the refusals and moves that are on their way.
LEMMA AnswerKept ==
    ASSUME Types, NEW m \in Answers, down' = Append(down, m)
    PROVE  /\ (\E i \in 1..Len(down) : IsMove(down[i])) => \E i \in 1..Len(down') : IsMove(down'[i])
           /\ (\E i \in 1..Len(down) : IsJoinDenial(down[i]))
                 => \E i \in 1..Len(down') : IsJoinDenial(down'[i])
           /\ \A c \in Channels : DenialDown(c) => DenialDown(c)'
           /\ IsMove(m) => \E i \in 1..Len(down') : IsMove(down'[i])
           /\ IsJoinDenial(m) => \E i \in 1..Len(down') : IsJoinDenial(down'[i])
           /\ \A c \in Channels : IsDenial(m, c) => DenialDown(c)'
<1>1. /\ Len(down) \in Nat /\ Len(down') = Len(down) + 1
      /\ \A k \in 1..Len(down) : down'[k] = down[k]
      /\ down'[Len(down) + 1] = m
  BY AppendFacts DEF Types
<1>2. /\ \A k \in 1..Len(down) : k \in 1..Len(down') /\ down'[k] = down[k]
      /\ Len(down) + 1 \in 1..Len(down')
  BY <1>1
<1>3. /\ (\E i \in 1..Len(down) : IsMove(down[i])) => \E i \in 1..Len(down') : IsMove(down'[i])
      /\ IsMove(m) => \E i \in 1..Len(down') : IsMove(down'[i])
  BY <1>1, <1>2
<1>4. /\ (\E i \in 1..Len(down) : IsJoinDenial(down[i]))
                 => \E i \in 1..Len(down') : IsJoinDenial(down'[i])
      /\ IsJoinDenial(m) => \E i \in 1..Len(down') : IsJoinDenial(down'[i])
  BY <1>1, <1>2
<1>5. \A c \in Channels : (DenialDown(c) => DenialDown(c)') /\ (IsDenial(m, c) => DenialDown(c)')
  BY <1>1, <1>2 DEF DenialDown
<1> QED
  BY <1>3, <1>4, <1>5

\* Announcing where the server puts us, or saying something else while it
\* leaves us where we are, keeps the last announced move right.
LEMMA MoveAnnounced ==
    ASSUME Types, LastMoveHome, NEW m \in Answers, down' = Append(down, m),
           \/ IsMove(m) /\ m.chan = home'
           \/ ~IsMove(m) /\ home' = home
    PROVE  LastMoveHome'
<1>1. /\ Len(down) \in Nat /\ Len(down') = Len(down) + 1
      /\ \A k \in 1..Len(down) : down'[k] = down[k]
      /\ down'[Len(down) + 1] = m
  BY AppendFacts DEF Types
<1> SUFFICES ASSUME NEW i \in 1..Len(down'), IsMove(down'[i]),
                    \A j \in (i + 1)..Len(down') : ~IsMove(down'[j])
             PROVE  down'[i].chan = home'
  BY DEF LastMoveHome
<1>2. CASE i = Len(down) + 1
  BY <1>1, <1>2
<1>3. CASE i \in 1..Len(down)
  <2>1. Len(down) + 1 \in (i + 1)..Len(down')
    BY <1>1, <1>3
  <2>2. ~IsMove(m)
    BY <1>1, <2>1
  <2>3. ASSUME NEW j \in (i + 1)..Len(down) PROVE ~IsMove(down[j])
    <3>1. j \in 1..Len(down) /\ j \in (i + 1)..Len(down')
      BY <1>1, <1>3
    <3> QED
      BY <1>1, <3>1
  <2> QED
    BY <1>1, <1>3, <2>2, <2>3 DEF LastMoveHome
<1> QED
  BY <1>1, <1>2, <1>3

\* The server took a request that is not the last join: the last one stays.
LEMMA JoinStillUp ==
    ASSUME Types, up # << >>, LastJoinCurrent, up' = Tail(up), current' = current
    PROVE  LastJoinCurrent' \/ (IsJoin(Head(up)) /\ Head(up).chan = current)
<1>1. PICK i \in 1..Len(up) : /\ IsJoin(up[i]) /\ up[i].chan = current
                              /\ \A j \in (i + 1)..Len(up) : ~IsJoin(up[j])
  BY DEF LastJoinCurrent
<1>2. /\ Head(up) = up[1] /\ Len(up) \in Nat /\ Len(up') = Len(up) - 1
      /\ \A k \in 1..(Len(up) - 1) : up'[k] = up[k + 1]
  BY TailFacts DEF Types
<1>3. CASE i = 1
  BY <1>1, <1>2, <1>3
<1>4. CASE i # 1
  <2>1. i - 1 \in 1..Len(up') /\ up'[i - 1] = up[i]
    BY <1>2, <1>4
  <2>2. ASSUME NEW j \in ((i - 1) + 1)..Len(up') PROVE ~IsJoin(up'[j])
    <3>1. j + 1 \in (i + 1)..Len(up) /\ up'[j] = up[j + 1]
      BY <1>2, <1>4
    <3> QED
      BY <1>1, <3>1
  <2> QED
    BY <1>1, <2>1, <2>2 DEF LastJoinCurrent
<1> QED
  BY <1>3, <1>4

\* The server took a request: if it was the last one about listening to c it
\* asked for what we show, and no other is under way.
LEMMA ListenStillUp ==
    ASSUME Types, up # << >>, NEW c \in Channels, LastListenShown(c), up' = Tail(up),
           listened' = listened
    PROVE  \/ LastListenShown(c)'
           \/ /\ NoListenUp(c)' /\ IsListen(Head(up), c)
              /\ Head(up).kind = IF c \in listened THEN "listen" ELSE "unlisten"
<1>1. PICK i \in 1..Len(up) :
          /\ IsListen(up[i], c)
          /\ up[i].kind = IF c \in listened THEN "listen" ELSE "unlisten"
          /\ \A j \in (i + 1)..Len(up) : ~IsListen(up[j], c)
  BY DEF LastListenShown
<1>2. /\ Head(up) = up[1] /\ Len(up) \in Nat /\ Len(up') = Len(up) - 1
      /\ \A k \in 1..(Len(up) - 1) : up'[k] = up[k + 1]
  BY TailFacts DEF Types
<1>3. CASE i = 1
  <2>1. ASSUME NEW j \in 1..Len(up') PROVE ~IsListen(up'[j], c)
    <3>1. j + 1 \in (i + 1)..Len(up) /\ up'[j] = up[j + 1]
      BY <1>2, <1>3
    <3> QED
      BY <1>1, <3>1
  <2> QED
    BY <1>1, <1>2, <1>3, <2>1 DEF NoListenUp
<1>4. CASE i # 1
  <2>1. i - 1 \in 1..Len(up') /\ up'[i - 1] = up[i]
    BY <1>2, <1>4
  <2>2. ASSUME NEW j \in ((i - 1) + 1)..Len(up') PROVE ~IsListen(up'[j], c)
    <3>1. j + 1 \in (i + 1)..Len(up) /\ up'[j] = up[j + 1]
      BY <1>2, <1>4
    <3> QED
      BY <1>1, <3>1
  <2> QED
    BY <1>1, <2>1, <2>2 DEF LastListenShown
<1> QED
  BY <1>3, <1>4

\* No request about c is under way after one was taken if none was before.
LEMMA NoListenStillUp ==
    ASSUME Types, up # << >>, NEW c \in Channels, NoListenUp(c), up' = Tail(up)
    PROVE  NoListenUp(c)' /\ ~IsListen(Head(up), c)
<1>1. /\ Head(up) = up[1] /\ Len(up) \in Nat /\ Len(up) >= 1 /\ Len(up') = Len(up) - 1
      /\ \A k \in 1..(Len(up) - 1) : up'[k] = up[k + 1]
  BY TailFacts DEF Types
<1>2. ASSUME NEW j \in 1..Len(up') PROVE ~IsListen(up'[j], c)
  <2>1. j + 1 \in 1..Len(up) /\ up'[j] = up[j + 1]
    BY <1>1
  <2> QED
    BY <2>1 DEF NoListenUp
<1> QED
  BY <1>1, <1>2 DEF NoListenUp

\* We took an answer: a move or a refusal that is not it is still to come.
LEMMA AnswerStillDown ==
    ASSUME Types, down # << >>, down' = Tail(down)
    PROVE  /\ (\E i \in 1..Len(down) : IsMove(down[i]))
                 => IsMove(Head(down)) \/ \E i \in 1..Len(down') : IsMove(down'[i])
           /\ (\E i \in 1..Len(down) : IsJoinDenial(down[i]))
                 => IsJoinDenial(Head(down)) \/ \E i \in 1..Len(down') : IsJoinDenial(down'[i])
           /\ \A c \in Channels : DenialDown(c) => IsDenial(Head(down), c) \/ DenialDown(c)'
<1>1. /\ Head(down) = down[1] /\ Len(down) \in Nat /\ Len(down') = Len(down) - 1
      /\ \A k \in 1..(Len(down) - 1) : down'[k] = down[k + 1]
  BY TailFacts DEF Types
<1>2. \A i \in 1..Len(down) : i = 1 \/ (i - 1 \in 1..Len(down') /\ down'[i - 1] = down[i])
  BY <1>1
<1>3. (\E i \in 1..Len(down) : IsMove(down[i]))
          => IsMove(Head(down)) \/ \E i \in 1..Len(down') : IsMove(down'[i])
  BY <1>1, <1>2
<1>4. (\E i \in 1..Len(down) : IsJoinDenial(down[i]))
          => IsJoinDenial(Head(down)) \/ \E i \in 1..Len(down') : IsJoinDenial(down'[i])
  BY <1>1, <1>2
<1>5. \A c \in Channels : DenialDown(c) => IsDenial(Head(down), c) \/ DenialDown(c)'
  BY <1>1, <1>2 DEF DenialDown
<1> QED
  BY <1>3, <1>4, <1>5

\* We took an answer: the last announced move is still right, and if the one
\* taken was the last, it named the channel the server has us in.
LEMMA MoveTaken ==
    ASSUME Types, LastMoveHome, down # << >>, down' = Tail(down), home' = home
    PROVE  /\ LastMoveHome'
           /\ IsMove(Head(down)) => \/ Head(down).chan = home
                                    \/ \E i \in 1..Len(down') : IsMove(down'[i])
<1>1. /\ Head(down) = down[1] /\ Len(down) \in Nat /\ Len(down) >= 1
      /\ Len(down') = Len(down) - 1
      /\ \A k \in 1..(Len(down) - 1) : down'[k] = down[k + 1]
  BY TailFacts DEF Types
<1>2. ASSUME NEW i \in 1..Len(down'), IsMove(down'[i]),
             \A j \in (i + 1)..Len(down') : ~IsMove(down'[j])
      PROVE  down'[i].chan = home'
  <2>1. i + 1 \in 1..Len(down) /\ down'[i] = down[i + 1]
    BY <1>1
  <2>2. ASSUME NEW j \in ((i + 1) + 1)..Len(down) PROVE ~IsMove(down[j])
    <3>1. j - 1 \in (i + 1)..Len(down') /\ down'[j - 1] = down[j]
      BY <1>1
    <3> QED
      BY <1>2, <3>1
  <2> QED
    BY <1>2, <2>1, <2>2 DEF LastMoveHome
<1>3. ASSUME IsMove(Head(down)), \A i \in 1..Len(down') : ~IsMove(down'[i])
      PROVE  Head(down).chan = home
  <2>1. 1 \in 1..Len(down)
    BY <1>1
  <2>2. ASSUME NEW j \in (1 + 1)..Len(down) PROVE ~IsMove(down[j])
    <3>1. j - 1 \in 1..Len(down') /\ down'[j - 1] = down[j]
      BY <1>1
    <3> QED
      BY <1>3, <3>1
  <2> QED
    BY <1>1, <1>3, <2>1, <2>2 DEF LastMoveHome
<1> QED
  BY <1>2, <1>3 DEF LastMoveHome

-----------------------------------------------------------------------------
(* The types and the view                                                  *)

\* Requests, answers, counts and the view keep their types.
LEMMA TypesKept == Types /\ [RosterNext]_own => Types'
<1> SUFFICES ASSUME Types, [RosterNext]_own PROVE Types'
  OBVIOUS
<1>1. CASE UNCHANGED own
  BY <1>1 DEF Types, own
<1>2. ASSUME NEW c \in Channels, NEW k \in {"join", "query", "listen", "unlisten"}
      PROVE  Request(k, c) \in Requests
  BY DEF Request, Requests
<1>3. ASSUME NEW p \in Places, Select(p) \/ MarkRead(p) \/ Arrives(p) PROVE Types'
  <2>1. unread' \in [Places -> Nat] /\ selected' \in Places \cup {None} /\ down' = down
    BY <1>3 DEF Types, Select, MarkRead, Arrives
  <2>2. up' \in Seq(Requests)
    <3>1. CASE up' = up
      BY <3>1 DEF Types
    <3>2. CASE up' # up
      <4>1. p \in Channels /\ Send(<<Request("query", p)>>)
        BY <1>3, <3>2 DEF Select, MarkRead, Arrives, Places
      <4> QED
        BY <1>2, <4>1, <3>2, ConcatFacts, AppendFacts DEF Send, Types
    <3> QED
      BY <3>1, <3>2
  <2> QED
    BY <2>1, <2>2 DEF Types
<1>4. ASSUME NEW c \in Channels, JoinChannel(c) \/ ToggleListen(c) PROVE Types'
  <2>1. UNCHANGED <<selected, unread, down>>
    BY <1>4 DEF JoinChannel, ToggleListen
  <2>2. \/ up' = up
        \/ up' = up \o << >>
        \/ up' = up \o <<Request("join", c), Request("query", c)>>
        \/ up' = up \o <<Request("listen", c)>>
        \/ up' = up \o <<Request("unlisten", c)>>
    BY <1>4 DEF JoinChannel, ToggleListen, Send, ListenRequest
  <2>3. up' \in Seq(Requests)
    <3>1. up' = up \/ up' = up \o << >> => up' \in Seq(Requests)
      BY DEF Types
    <3>2. ASSUME NEW r \in Requests, up' = up \o <<r>> PROVE up' \in Seq(Requests)
      BY <3>2 DEF Types
    <3>3. ASSUME NEW a \in Requests, NEW b \in Requests, up' = up \o <<a, b>>
          PROVE  up' \in Seq(Requests)
      BY <3>3 DEF Types
    <3> QED
      BY <1>2, <2>2, <3>1, <3>2, <3>3
  <2> QED
    BY <2>1, <2>3 DEF Types
<1>5. CASE OwnUserState \/ PermissionDenied \/ PermissionQuery
  <2>1. UNCHANGED <<up, selected, unread>> /\ down # << >> /\ down' = Tail(down)
    BY <1>5 DEF OwnUserState, PermissionDenied, PermissionQuery, Got
  <2> QED
    BY <2>1, TailFacts DEF Types
<1>6. CASE OwnUserRemove
  <2>1. UNCHANGED up /\ down # << >> /\ down' = Tail(down)
    BY <1>6 DEF OwnUserRemove, Got
  <2>2. selected' \in Places \cup {None} /\ unread' \in [Places -> Nat]
    BY <1>6 DEF OwnUserRemove, Places, Types
  <2> QED
    BY <2>1, <2>2, TailFacts DEF Types
<1>7. ASSUME \/ ServerJoin \/ ServerListen \/ ServerQuery \/ ServerRemove
             \/ \E c \in Channels : ServerMove(c)
      PROVE Types'
  <2>1. UNCHANGED <<selected, unread>>
    BY <1>7 DEF ServerJoin, ServerListen, ServerQuery, ServerRemove, ServerMove
  <2>2. up' = up \/ (up # << >> /\ up' = Tail(up))
    BY <1>7 DEF ServerJoin, ServerListen, ServerQuery, ServerRemove, ServerMove
  <2>3. down' = down \/ \E m \in Answers : down' = Append(down, m)
    <3>1. up # << >> => Head(up).chan \in Channels
      <4>1. up # << >> => Head(up) \in Requests
        BY DEF Types
      <4> QED
        BY <4>1 DEF Requests
    <3> QED
      BY <1>7, <3>1 DEF ServerJoin, ServerListen, ServerQuery, ServerRemove, ServerMove,
                        Answer, Answers
  <2>4. up' \in Seq(Requests)
    <3>1. CASE up' = up
      BY <3>1 DEF Types
    <3>2. CASE up # << >> /\ up' = Tail(up)
      BY <3>2, TailFacts DEF Types
    <3> QED
      BY <2>2, <3>1, <3>2
  <2>5. down' \in Seq(Answers)
    BY <2>3 DEF Types
  <2> QED
    BY <2>1, <2>4, <2>5 DEF Types
<1> QED
  BY <1>1, <1>3, <1>4, <1>5, <1>6, <1>7
  DEF RosterNext, TextMessage, handle_direct_message, handle_channel_message,
      PchatMessageDeliver, Places

\* Only Select opens a view, and it reads it; messages for it are not counted.
LEMMA ViewKept == Types /\ ViewedIsRead /\ [RosterNext]_own => ViewedIsRead'
<1> SUFFICES ASSUME Types, ViewedIsRead, [RosterNext]_own PROVE ViewedIsRead'
  OBVIOUS
<1>1. ASSUME UNCHANGED <<selected, unread>> PROVE ViewedIsRead'
  BY <1>1 DEF ViewedIsRead
<1>2. ASSUME NEW p \in Places, Select(p) \/ MarkRead(p) \/ Arrives(p) PROVE ViewedIsRead'
  BY <1>2 DEF Select, MarkRead, Arrives, ViewedIsRead, Types
<1>3. CASE OwnUserRemove
  <2>1. Person \in Places /\ Person # None
    BY DEF Places, Person, None
  <2> QED
    BY <1>3, <2>1 DEF OwnUserRemove, ViewedIsRead, Types
<1> QED
  BY <1>1, <1>2, <1>3
  DEF RosterNext, own, TextMessage, handle_direct_message, handle_channel_message,
      PchatMessageDeliver, Places, JoinChannel, ToggleListen, OwnUserState, PermissionDenied,
      PermissionQuery, ServerJoin, ServerListen, ServerQuery, ServerRemove, ServerMove

-----------------------------------------------------------------------------
(* Settled: commands                                                       *)

\* Reading and arriving messages touch nothing of it.
LEMMA SilentSettled ==
    ASSUME Settled, UNCHANGED <<current, listened, linked, home, ears, up, down, refused, muddled>>
    PROVE  Settled'
BY DEF Settled, LastMoveHome, ChannelSettles, LastJoinCurrent, ListeningSettles,
       LastListenShown, NoListenUp, DenialDown

\* Selecting a channel adds a permission query.
LEMMA SelectSettled == ASSUME Types, Settled, NEW p \in Places, Select(p) PROVE Settled'
<1>1. CASE up' = up
  BY <1>1, SilentSettled DEF Select
<1>2. CASE up' # up /\ linked
  <2>1. p \in Channels /\ up' = Append(up, Request("query", p))
    BY <1>2, ConcatFacts DEF Select, Send, Places
  <2>2. Request("query", p) \in Requests
    BY <2>1 DEF Request, Requests
  <2>3. UNCHANGED <<current, listened, linked, home, ears, down, refused, muddled>>
    BY DEF Select
  <2>4. LastMoveHome'
    BY <1>2, <2>3 DEF Settled, LastMoveHome
  <2>5. ChannelSettles'
    <3>1. LastJoinCurrent => LastJoinCurrent'
      BY <2>1, <2>2, <2>3, JoinKept DEF IsJoin, Request
    <3> QED
      BY <1>2, <2>3, <3>1 DEF Settled, ChannelSettles
  <2>6. ASSUME NEW c \in Channels \ muddled' PROVE ListeningSettles(c)'
    <3>1. /\ Len(up) \in Nat /\ Len(up') = Len(up) + 1
          /\ \A k \in 1..Len(up) : up'[k] = up[k]
          /\ up'[Len(up) + 1] = Request("query", p)
      BY <2>1, <2>2, AppendFacts DEF Types
    <3>2. \A k \in (Len(up) + 1)..Len(up') : ~IsListen(up'[k], c)
      BY <3>1 DEF IsListen, Request
    <3>3. ListeningSettles(c)
      BY <1>2, <2>3 DEF Settled
    <3> QED
      BY <2>3, <3>1, <3>2, <3>3, ListenKept
  <2> QED
    BY <2>4, <2>5, <2>6 DEF Settled
<1>3. CASE ~linked
  BY <1>3 DEF Select, Settled
<1> QED
  BY <1>1, <1>2, <1>3

\* join_channel shows the channel at once and asks for it last.
LEMMA JoinSettled == ASSUME Types, Settled, NEW c \in Channels, JoinChannel(c) PROVE Settled'
<1> SUFFICES ASSUME linked PROVE Settled'
  BY DEF JoinChannel, Settled
<1>1. /\ up' = up \o <<Request("join", c), Request("query", c)>> /\ current' = c
      /\ UNCHANGED <<listened, linked, home, ears, down, refused, muddled>>
  BY DEF JoinChannel, Send
<1>2. /\ Request("join", c) \in Requests /\ Request("query", c) \in Requests
  BY DEF Request, Requests
<1>3. up' = Append(Append(up, Request("join", c)), Request("query", c))
  BY <1>1, <1>2, ConcatFacts DEF Types
<1>4. /\ Len(up) \in Nat /\ Len(up') = Len(up) + 2
      /\ \A k \in 1..Len(up) : up'[k] = up[k]
      /\ up'[Len(up) + 1] = Request("join", c)
      /\ up'[Len(up) + 2] = Request("query", c)
  BY <1>2, <1>3 DEF Types
<1>5. LastMoveHome'
  BY <1>1 DEF Settled, LastMoveHome
<1>6. LastJoinCurrent'
  <2>1. Len(up) + 1 \in 1..Len(up')
    BY <1>4
  <2>2. \A j \in ((Len(up) + 1) + 1)..Len(up') : ~IsJoin(up'[j])
    BY <1>4 DEF IsJoin, Request
  <2>3. IsJoin(up'[Len(up) + 1]) /\ up'[Len(up) + 1].chan = current'
    BY <1>1, <1>4 DEF IsJoin, Request
  <2> QED
    BY <2>1, <2>2, <2>3 DEF LastJoinCurrent
<1>7. ASSUME NEW d \in Channels \ muddled' PROVE ListeningSettles(d)'
  <2>1. \A k \in (Len(up) + 1)..Len(up') : ~IsListen(up'[k], d)
    BY <1>4 DEF IsListen, Request
  <2>2. ListeningSettles(d)
    BY <1>1 DEF Settled
  <2>3. Len(up') \in Nat /\ Len(up) <= Len(up')
    BY <1>4
  <2> QED
    BY <1>1, <1>4, <2>1, <2>2, <2>3, ListenKept
<1> QED
  BY <1>5, <1>6, <1>7 DEF Settled, ChannelSettles

\* toggle_listen asks for what it shows, but for the channel being viewed.
LEMMA ToggleSettled == ASSUME Types, Settled, NEW c \in Channels, ToggleListen(c) PROVE Settled'
<1> SUFFICES ASSUME linked PROVE Settled'
  BY DEF ToggleListen, Settled
<1>1. /\ UNCHANGED <<current, linked, home, ears, down, refused>>
      /\ listened' = IF c \in listened THEN listened \ {c} ELSE listened \cup {c}
      /\ muddled' = IF selected = c THEN muddled \cup {c} ELSE muddled
  BY DEF ToggleListen
<1>2. LastMoveHome'
  BY <1>1 DEF Settled, LastMoveHome
<1>3. \A d \in Channels : d # c => (d \in listened' <=> d \in listened)
  BY <1>1
<1>4. CASE selected = c
  <2>1. up' = up
    BY <1>4, ConcatFacts DEF ToggleListen, Send, Types
  <2>2. ChannelSettles'
    BY <1>1, <2>1 DEF Settled, ChannelSettles, LastJoinCurrent
  <2>3. ASSUME NEW d \in Channels \ muddled' PROVE ListeningSettles(d)'
    <3>1. d # c /\ ListeningSettles(d)
      BY <1>1, <1>4 DEF Settled
    <3>2. Len(up) \in Nat /\ \A k \in (Len(up) + 1)..Len(up') : ~IsListen(up'[k], d)
      BY <2>1 DEF Types
    <3> QED
      BY <1>1, <1>3, <2>1, <3>1, <3>2, ListenKept
  <2> QED
    BY <1>2, <2>2, <2>3 DEF Settled
<1>5. CASE selected # c
  <2> DEFINE r == ListenRequest(c)
  <2>1. r \in Requests /\ IsListen(r, c) /\ ~IsJoin(r) /\ \A d \in Channels : d # c => ~IsListen(r, d)
    BY DEF ListenRequest, Request, Requests, IsListen, IsJoin
  <2>2. r.kind = IF c \in listened' THEN "listen" ELSE "unlisten"
    BY <1>1 DEF ListenRequest, Request
  <2>3. up' = Append(up, r)
    BY <1>5, <2>1, ConcatFacts DEF ToggleListen, Send, Types
  <2> HIDE DEF r
  <2>4. /\ Len(up) \in Nat /\ Len(up') = Len(up) + 1
        /\ \A k \in 1..Len(up) : up'[k] = up[k]
        /\ up'[Len(up) + 1] = r
    BY <2>1, <2>3, AppendFacts DEF Types
  <2>5. ChannelSettles'
    <3>1. LastJoinCurrent => LastJoinCurrent'
      BY <1>1, <2>1, <2>3, JoinKept
    <3> QED
      BY <1>1, <3>1 DEF Settled, ChannelSettles
  <2>6. LastListenShown(c)'
    <3>1. Len(up) + 1 \in 1..Len(up') /\ \A j \in ((Len(up) + 1) + 1)..Len(up') : ~IsListen(up'[j], c)
      BY <2>4
    <3> QED
      BY <2>1, <2>2, <2>4, <3>1 DEF LastListenShown
  <2>7. ASSUME NEW d \in Channels \ muddled', d # c PROVE ListeningSettles(d)'
    <3>1. ListeningSettles(d)
      BY <1>1, <1>5, <2>7 DEF Settled
    <3>2. \A k \in (Len(up) + 1)..Len(up') : ~IsListen(up'[k], d)
      BY <2>1, <2>4, <2>7
    <3>3. Len(up') \in Nat /\ Len(up) <= Len(up')
      BY <2>4
    <3> QED
      BY <1>1, <1>3, <2>4, <2>7, <3>1, <3>2, <3>3, ListenKept
  <2> QED
    BY <1>2, <2>5, <2>6, <2>7 DEF Settled, ListeningSettles
<1> QED
  BY <1>4, <1>5

-----------------------------------------------------------------------------
(* Settled: handlers                                                       *)

\* An announced move is shown; if it was the last one it is right.
LEMMA MovedSettled == ASSUME Types, Settled, OwnUserState PROVE Settled'
<1>1. /\ linked /\ down # << >> /\ down' = Tail(down) /\ Head(down).kind = "moved"
      /\ current' = Head(down).chan
      /\ UNCHANGED <<listened, linked, home, ears, up, muddled>>
  BY DEF OwnUserState, Got, SetOwnChannel
<1>2. LastMoveHome /\ ChannelSettles /\ \A c \in Channels \ muddled : ListeningSettles(c)
  BY <1>1 DEF Settled
<1>3. /\ LastMoveHome'
      /\ Head(down).chan = home \/ \E i \in 1..Len(down') : IsMove(down'[i])
  BY <1>1, <1>2, MoveTaken DEF IsMove
<1>4. ChannelSettles'
  BY <1>1, <1>3 DEF ChannelSettles
<1>5. ASSUME NEW c \in Channels \ muddled' PROVE ListeningSettles(c)'
  <2>1. DenialDown(c) => DenialDown(c)'
    BY <1>1, AnswerStillDown DEF IsDenial
  <2>2. ListeningSettles(c)
    BY <1>1, <1>2
  <2> QED
    BY <1>1, <2>1, <2>2 DEF ListeningSettles, LastListenShown, NoListenUp
<1> QED
  BY <1>3, <1>4, <1>5 DEF Settled

\* A refusal is remembered, and what it was about is no longer listened to.
LEMMA DeniedSettled == ASSUME Types, Settled, PermissionDenied PROVE Settled'
<1>1. /\ linked /\ down # << >> /\ down' = Tail(down) /\ Head(down).kind = "denied"
      /\ listened' = listened \ {Head(down).chan}
      /\ refused' = (refused \/ Head(down).what = "join")
      /\ muddled' = muddled \cup {Head(down).chan}
      /\ UNCHANGED <<current, linked, home, ears, up>>
  BY DEF PermissionDenied, Got
<1>2. LastMoveHome /\ ChannelSettles /\ \A c \in Channels \ muddled : ListeningSettles(c)
  BY <1>1 DEF Settled
<1>3. LastMoveHome'
  BY <1>1, <1>2, MoveTaken
<1>4. ChannelSettles'
  <2>1. /\ (\E i \in 1..Len(down) : IsMove(down[i])) => \E i \in 1..Len(down') : IsMove(down'[i])
        /\ (\E i \in 1..Len(down) : IsJoinDenial(down[i]))
               => refused' \/ \E i \in 1..Len(down') : IsJoinDenial(down'[i])
    BY <1>1, AnswerStillDown DEF IsMove, IsJoinDenial
  <2>2. LastJoinCurrent => LastJoinCurrent'
    BY <1>1 DEF LastJoinCurrent
  <2>3. refused => refused'
    BY <1>1
  <2> QED
    BY <1>1, <1>2, <2>1, <2>2, <2>3 DEF ChannelSettles
<1>5. ASSUME NEW c \in Channels \ muddled' PROVE ListeningSettles(c)'
  <2>1. c # Head(down).chan /\ c \notin muddled
    BY <1>1
  <2>2. DenialDown(c) => DenialDown(c)'
    BY <1>1, <2>1, AnswerStillDown DEF IsDenial
  <2>3. ListeningSettles(c) /\ (c \in listened' <=> c \in listened)
    BY <1>1, <1>2, <2>1
  <2> QED
    BY <1>1, <2>2, <2>3 DEF ListeningSettles, LastListenShown, NoListenUp
<1> QED
  BY <1>3, <1>4, <1>5 DEF Settled

\* A permission mask changes neither channel nor listening.
LEMMA MaskSettled == ASSUME Types, Settled, PermissionQuery PROVE Settled'
<1>1. /\ linked /\ down # << >> /\ down' = Tail(down) /\ Head(down).kind = "mask"
      /\ UNCHANGED <<current, listened, linked, home, ears, up, refused, muddled>>
  BY DEF PermissionQuery, Got
<1>2. LastMoveHome /\ ChannelSettles /\ \A c \in Channels \ muddled : ListeningSettles(c)
  BY <1>1 DEF Settled
<1>3. LastMoveHome'
  BY <1>1, <1>2, MoveTaken
<1>4. ChannelSettles'
  <2>1. /\ (\E i \in 1..Len(down) : IsMove(down[i])) => \E i \in 1..Len(down') : IsMove(down'[i])
        /\ (\E i \in 1..Len(down) : IsJoinDenial(down[i]))
               => \E i \in 1..Len(down') : IsJoinDenial(down'[i])
    BY <1>1, AnswerStillDown DEF IsMove, IsJoinDenial
  <2>2. LastJoinCurrent => LastJoinCurrent'
    BY <1>1 DEF LastJoinCurrent
  <2> QED
    BY <1>1, <1>2, <2>1, <2>2 DEF ChannelSettles
<1>5. ASSUME NEW c \in Channels \ muddled' PROVE ListeningSettles(c)'
  <2>1. DenialDown(c) => DenialDown(c)'
    BY <1>1, AnswerStillDown DEF IsDenial
  <2>2. ListeningSettles(c)
    BY <1>1, <1>2
  <2> QED
    BY <1>1, <2>1, <2>2 DEF ListeningSettles, LastListenShown, NoListenUp
<1> QED
  BY <1>3, <1>4, <1>5 DEF Settled

-----------------------------------------------------------------------------
(* Settled: the server                                                     *)

\* A join is a move, a refusal, or for the channel we are in already.
LEMMA ServerJoinSettled == ASSUME Types, Settled, ServerJoin PROVE Settled'
<1> DEFINE c == Head(up).chan
<1>1. /\ up # << >> /\ up' = Tail(up) /\ Head(up).kind = "join" /\ linked
      /\ UNCHANGED <<current, listened, linked, ears, refused, muddled>>
  BY DEF ServerJoin
<1>2. LastMoveHome /\ ChannelSettles /\ \A d \in Channels \ muddled : ListeningSettles(d)
  BY <1>1 DEF Settled
<1>3. Head(up) \in Requests
  BY <1>1 DEF Types
<1>4. c \in Channels
  BY <1>3 DEF Requests
<1>5. LastJoinCurrent => LastJoinCurrent' \/ c = current
  BY <1>1, JoinStillUp
<1>6. \A d \in Channels : ~IsListen(Head(up), d)
  BY <1>1 DEF IsListen
<1>7. ASSUME NEW d \in Channels \ muddled', DenialDown(d) => DenialDown(d)'
      PROVE  ListeningSettles(d)'
  <2>1. ListeningSettles(d)
    BY <1>1, <1>2
  <2>2. LastListenShown(d) => LastListenShown(d)'
    BY <1>1, <1>6, ListenStillUp
  <2>3. NoListenUp(d) => NoListenUp(d)'
    BY <1>1, NoListenStillUp
  <2> QED
    BY <1>1, <1>7, <2>1, <2>2, <2>3 DEF ListeningSettles
<1>8. CASE c = home /\ UNCHANGED <<home, down>>
  <2>1. LastMoveHome'
    BY <1>2, <1>8 DEF LastMoveHome
  <2>2. ChannelSettles'
    BY <1>1, <1>2, <1>5, <1>8 DEF ChannelSettles
  <2>3. \A d \in Channels : DenialDown(d) => DenialDown(d)'
    BY <1>8 DEF DenialDown
  <2> QED
    BY <1>7, <2>1, <2>2, <2>3 DEF Settled
<1>9. CASE home' = c /\ Answer([kind |-> "moved", chan |-> c])
  <2> DEFINE m == [kind |-> "moved", chan |-> c]
  <2>1. m \in Answers /\ IsMove(m) /\ m.chan = home' /\ down' = Append(down, m)
    BY <1>4, <1>9 DEF Answers, IsMove, Answer
  <2> HIDE DEF m
  <2>2. LastMoveHome'
    BY <1>2, <2>1, MoveAnnounced
  <2>3. ChannelSettles'
    BY <2>1, AnswerKept DEF ChannelSettles
  <2> QED
    BY <1>7, <2>1, <2>2, <2>3, AnswerKept DEF Settled
<1>10. CASE /\ UNCHANGED home
            /\ Answer([kind |-> "denied", chan |-> c, what |-> "join"])
  <2> DEFINE m == [kind |-> "denied", chan |-> c, what |-> "join"]
  <2>1. m \in Answers /\ ~IsMove(m) /\ IsJoinDenial(m) /\ down' = Append(down, m)
    BY <1>4, <1>10 DEF Answers, IsMove, IsJoinDenial, Answer
  <2> HIDE DEF m
  <2>2. LastMoveHome'
    BY <1>2, <1>10, <2>1, MoveAnnounced
  <2>3. ChannelSettles'
    BY <2>1, AnswerKept DEF ChannelSettles
  <2> QED
    BY <1>7, <2>1, <2>2, <2>3, AnswerKept DEF Settled
<1> QED
  BY <1>8, <1>9, <1>10 DEF ServerJoin

\* A request to listen is followed or refused, one to stop is followed.
LEMMA ServerListenSettled == ASSUME Types, Settled, ServerListen PROVE Settled'
<1>1. /\ up # << >> /\ up' = Tail(up) /\ Head(up).kind \in {"listen", "unlisten"} /\ linked
      /\ UNCHANGED <<current, listened, linked, home, refused, muddled>>
  BY DEF ServerListen
<1>2. LastMoveHome /\ ChannelSettles /\ \A d \in Channels \ muddled : ListeningSettles(d)
  BY <1>1 DEF Settled
<1>3. Head(up) \in Requests
  BY <1>1 DEF Types
<1>c. PICK c \in Channels : c = Head(up).chan
  BY <1>3 DEF Requests
<1>4. IsListen(Head(up), c) /\ \A d \in Channels : d # c => ~IsListen(Head(up), d)
  BY <1>1, <1>c DEF IsListen
<1>5. LastJoinCurrent => LastJoinCurrent'
  BY <1>1, JoinStillUp DEF IsJoin
<1>6. ASSUME NEW d \in Channels \ muddled', d # c, DenialDown(d) => DenialDown(d)',
             d \in ears' <=> d \in ears
      PROVE  ListeningSettles(d)'
  <2>1. ListeningSettles(d)
    BY <1>1, <1>2
  <2>2. LastListenShown(d) => LastListenShown(d)'
    BY <1>1, <1>4, <1>6, ListenStillUp
  <2>3. NoListenUp(d) => NoListenUp(d)'
    BY <1>1, NoListenStillUp
  <2> QED
    BY <1>1, <1>6, <2>1, <2>2, <2>3 DEF ListeningSettles
<1>7. ASSUME c \notin muddled'
      PROVE  \/ LastListenShown(c)'
             \/ /\ NoListenUp(c)'
                /\ Head(up).kind = IF c \in listened THEN "listen" ELSE "unlisten"
  <2>1. ListeningSettles(c) /\ ~NoListenUp(c)
    BY <1>1, <1>2, <1>4, <1>7, NoListenStillUp
  <2> QED
    BY <1>1, <1>4, <2>1, ListenStillUp DEF ListeningSettles
<1>8. CASE /\ ears' = IF Head(up).kind = "listen" THEN ears \cup {c} ELSE ears \ {c}
           /\ UNCHANGED down
  <2>1. LastMoveHome' /\ ChannelSettles'
    BY <1>1, <1>2, <1>5, <1>8 DEF LastMoveHome, ChannelSettles
  <2>2. ASSUME c \notin muddled' PROVE ListeningSettles(c)'
    BY <1>1, <1>7, <1>8, <2>2 DEF ListeningSettles
  <2>3. \A d \in Channels : d # c => (d \in ears' <=> d \in ears)
    BY <1>8
  <2>4. \A d \in Channels : DenialDown(d) => DenialDown(d)'
    BY <1>8 DEF DenialDown
  <2> QED
    BY <1>6, <2>1, <2>2, <2>3, <2>4 DEF Settled
<1>9. CASE UNCHANGED ears /\ Answer([kind |-> "denied", chan |-> c, what |-> "listen"])
  <2> DEFINE m == [kind |-> "denied", chan |-> c, what |-> "listen"]
  <2>1. m \in Answers /\ ~IsMove(m) /\ IsDenial(m, c) /\ down' = Append(down, m)
    BY <1>4, <1>9 DEF Answers, IsMove, IsDenial, Answer
  <2> HIDE DEF m
  <2>2. LastMoveHome'
    BY <1>1, <1>2, <2>1, MoveAnnounced
  <2>3. ChannelSettles'
    BY <1>1, <1>2, <1>5, <2>1, AnswerKept DEF ChannelSettles
  <2>4. DenialDown(c)' /\ \A d \in Channels : DenialDown(d) => DenialDown(d)'
    BY <1>4, <2>1, AnswerKept
  <2>5. ASSUME c \notin muddled' PROVE ListeningSettles(c)'
    BY <1>7, <2>4, <2>5 DEF ListeningSettles
  <2> QED
    BY <1>6, <1>9, <2>2, <2>3, <2>4, <2>5 DEF Settled
<1> QED
  BY <1>8, <1>9, <1>c DEF ServerListen

\* A query is answered with a mask.
LEMMA ServerQuerySettled == ASSUME Types, Settled, ServerQuery PROVE Settled'
<1>1. /\ up # << >> /\ up' = Tail(up) /\ Head(up).kind = "query" /\ linked
      /\ UNCHANGED <<current, listened, linked, home, ears, refused, muddled>>
  BY DEF ServerQuery
<1>2. LastMoveHome /\ ChannelSettles /\ \A d \in Channels \ muddled : ListeningSettles(d)
  BY <1>1 DEF Settled
<1>3. Head(up) \in Requests
  BY <1>1 DEF Types
<1>4. PICK m \in Answers : ~IsMove(m) /\ down' = Append(down, m)
  <2>1. Head(up).chan \in Channels
    BY <1>3 DEF Requests
  <2>2. PICK may \in {"yes", "no"}, flush \in BOOLEAN :
            Answer([kind |-> "mask", chan |-> Head(up).chan, may |-> may, flush |-> flush])
    BY DEF ServerQuery
  <2> QED
    BY <2>1, <2>2 DEF Answers, Answer, IsMove
<1>5. LastMoveHome'
  BY <1>1, <1>2, <1>4, MoveAnnounced
<1>6. ChannelSettles'
  <2>1. LastJoinCurrent => LastJoinCurrent'
    BY <1>1, JoinStillUp DEF IsJoin
  <2> QED
    BY <1>1, <1>2, <1>4, <2>1, AnswerKept DEF ChannelSettles
<1>7. ASSUME NEW d \in Channels \ muddled' PROVE ListeningSettles(d)'
  <2>1. ListeningSettles(d) /\ ~IsListen(Head(up), d)
    BY <1>1, <1>2 DEF IsListen
  <2>2. LastListenShown(d) => LastListenShown(d)'
    BY <1>1, <2>1, ListenStillUp
  <2>3. NoListenUp(d) => NoListenUp(d)'
    BY <1>1, NoListenStillUp
  <2>4. DenialDown(d) => DenialDown(d)'
    BY <1>4, AnswerKept
  <2> QED
    BY <1>1, <2>1, <2>2, <2>3, <2>4 DEF ListeningSettles
<1> QED
  BY <1>5, <1>6, <1>7 DEF Settled

\* An administrator's move is announced like our own.
LEMMA ServerMoveSettled ==
    ASSUME Types, Settled, NEW c \in Channels, ServerMove(c) PROVE Settled'
<1> DEFINE m == [kind |-> "moved", chan |-> c]
<1>1. /\ linked /\ home' = c /\ down' = Append(down, m)
      /\ UNCHANGED <<current, listened, linked, ears, up, refused, muddled>>
  BY DEF ServerMove, Answer
<1>2. m \in Answers /\ IsMove(m) /\ m.chan = home'
  BY <1>1 DEF Answers, IsMove
<1> HIDE DEF m
<1>3. LastMoveHome'
  BY <1>1, <1>2, MoveAnnounced DEF Settled
<1>4. ChannelSettles'
  BY <1>1, <1>2, AnswerKept DEF ChannelSettles
<1>5. ASSUME NEW d \in Channels \ muddled' PROVE ListeningSettles(d)'
  <2>1. ListeningSettles(d)
    BY <1>1 DEF Settled
  <2>2. DenialDown(d) => DenialDown(d)'
    BY <1>1, <1>2, AnswerKept
  <2> QED
    BY <1>1, <2>1, <2>2 DEF ListeningSettles, LastListenShown, NoListenUp
<1> QED
  BY <1>3, <1>4, <1>5 DEF Settled

\* The announcement of our removal changes nothing until it is handled.
LEMMA ServerRemoveSettled == ASSUME Types, Settled, ServerRemove PROVE Settled'
<1> DEFINE m == [kind |-> "removed"]
<1>1. /\ linked /\ down' = Append(down, m)
      /\ UNCHANGED <<current, listened, linked, home, ears, up, refused, muddled>>
  BY DEF ServerRemove, Answer
<1>2. m \in Answers /\ ~IsMove(m)
  BY DEF Answers, IsMove
<1> HIDE DEF m
<1>3. LastMoveHome'
  BY <1>1, <1>2, MoveAnnounced DEF Settled
<1>4. ChannelSettles'
  <2>1. LastJoinCurrent => LastJoinCurrent'
    BY <1>1 DEF LastJoinCurrent
  <2> QED
    BY <1>1, <1>2, <2>1, AnswerKept DEF ChannelSettles, Settled
<1>5. ASSUME NEW d \in Channels \ muddled' PROVE ListeningSettles(d)'
  <2>1. ListeningSettles(d)
    BY <1>1 DEF Settled
  <2>2. DenialDown(d) => DenialDown(d)'
    BY <1>1, <1>2, AnswerKept
  <2> QED
    BY <1>1, <2>1, <2>2 DEF ListeningSettles, LastListenShown, NoListenUp
<1> QED
  BY <1>3, <1>4, <1>5 DEF Settled

-----------------------------------------------------------------------------
\* Every step keeps the inductive invariant.
LEMMA InvariantKept == IInv /\ [RosterNext]_own => IInv'
<1> SUFFICES ASSUME IInv, [RosterNext]_own PROVE IInv'
  OBVIOUS
<1>1. Types' /\ ViewedIsRead'
  BY TypesKept, ViewKept DEF IInv
<1>2. Types /\ Settled
  BY DEF IInv
<1>3. Settled'
  <2>1. CASE UNCHANGED own
    BY <1>2, <2>1, SilentSettled DEF own
  <2>2. ASSUME NEW p \in Places, Select(p) PROVE Settled'
    BY <1>2, <2>2, SelectSettled
  <2>3. ASSUME NEW p \in Places, MarkRead(p) \/ Arrives(p) PROVE Settled'
    BY <1>2, <2>3, SilentSettled DEF MarkRead, Arrives
  <2>4. ASSUME NEW c \in Channels, JoinChannel(c) \/ ToggleListen(c) \/ ServerMove(c)
        PROVE Settled'
    BY <1>2, <2>4, JoinSettled, ToggleSettled, ServerMoveSettled
  <2>5. CASE OwnUserState \/ PermissionDenied \/ PermissionQuery
    BY <1>2, <2>5, MovedSettled, DeniedSettled, MaskSettled
  <2>6. CASE OwnUserRemove
    BY <2>6 DEF OwnUserRemove, Settled
  <2>7. CASE ServerJoin \/ ServerListen \/ ServerQuery \/ ServerRemove
    BY <1>2, <2>7, ServerJoinSettled, ServerListenSettled, ServerQuerySettled,
       ServerRemoveSettled
  <2> QED
    BY <2>1, <2>2, <2>3, <2>4, <2>5, <2>6, <2>7
    DEF RosterNext, TextMessage, handle_direct_message, handle_channel_message,
        PchatMessageDeliver, Places
<1> QED
  BY <1>1, <1>3 DEF IInv

\* After ServerSync nothing is under way and we show where the server has us.
LEMMA InvariantHoldsAtFirst == RosterInit => IInv
<1> SUFFICES ASSUME RosterInit PROVE IInv
  OBVIOUS
<1>1. Types
  BY DEF RosterInit, Types
<1>2. ViewedIsRead
  BY DEF RosterInit, ViewedIsRead
<1>3. Settled
  BY DEF RosterInit, Settled, LastMoveHome, ChannelSettles, ListeningSettles, NoListenUp
<1> QED
  BY <1>1, <1>2, <1>3 DEF IInv

\* With nothing under way what settles has settled.
LEMMA InvariantSuffices == IInv => ViewedIsRead /\ OwnChannelAgrees
<1> SUFFICES ASSUME IInv, Quiet PROVE OwnChannelAgrees
  BY DEF IInv, OwnChannelAgrees
<1>1. Len(up) = 0 /\ Len(down) = 0 /\ linked
  BY DEF Quiet
<1>2. ChannelSettles /\ \A c \in Channels \ muddled : ListeningSettles(c)
  BY <1>1 DEF IInv, Settled
<1>3. current = home \/ refused
  BY <1>1, <1>2 DEF ChannelSettles, LastJoinCurrent
<1>4. \A c \in Channels \ muddled : c \in listened <=> c \in ears
  BY <1>1, <1>2 DEF ListeningSettles, LastListenShown, DenialDown
<1> QED
  BY <1>3, <1>4 DEF OwnChannelAgrees

\* The place being viewed never has unread messages, however it was opened and
\* however messages, kicks and reads interleave.
THEOREM ViewedIsReadCorrect == RosterSpec => []ViewedIsRead
BY InvariantHoldsAtFirst, InvariantKept, InvariantSuffices, PTL DEF RosterSpec

\* Once every request has been answered the channel and the listening state we
\* show are the server's, up to refused joins and channels toggled while viewed.
THEOREM OwnChannelCorrect == RosterSpec => []OwnChannelAgrees
BY InvariantHoldsAtFirst, InvariantKept, InvariantSuffices, PTL DEF RosterSpec

-----------------------------------------------------------------------------
(***************************************************************************)
(* PromptsJustified of KeySharing for any number of channels and peers.    *)
(* It is not inductive alone: ApproveSent makes a peer a holder while a    *)
(* second prompt for it may be pending, which is harmless only because     *)
(* every pair that is being sent was approved.                             *)
(***************************************************************************)

\* What is being sent has been approved.
SendingApproved == sending \subseteq approved

SharingInv == SharingTypeOK /\ SendingApproved /\ PromptsJustified

\* The state variables keep their types in every step of the sharing handlers.
LEMMA SharingTypes == SharingTypeOK /\ [SharingNext]_sharing => SharingTypeOK'
<1> SUFFICES ASSUME SharingTypeOK, [SharingNext]_sharing PROVE SharingTypeOK'
  OBVIOUS
<1> USE DEF SharingTypeOK, Pairs
<1>1. CASE UNCHANGED sharing
  BY <1>1 DEF sharing
<1>2. ASSUME NEW p \in Peers, KeyAnnounce(p) \/ UserRemove(p) PROVE SharingTypeOK'
  BY <1>2 DEF KeyAnnounce, UserRemove, ShareableChannels
<1>3. ASSUME NEW c \in Chans, NEW p \in Peers, RemoteMove(p, c) PROVE SharingTypeOK'
  BY <1>3 DEF RemoteMove, SharePeers
<1>4. ASSUME NEW c \in Chans, NEW p \in Peers,
             KeyRequest(c, p) \/ KeyExchange(c, p) \/ Dismiss(c, p)
      PROVE SharingTypeOK'
  BY <1>4 DEF KeyRequest, KeyExchange, Dismiss
<1>5. ASSUME NEW c \in Chans, NEW p \in Peers, Approve(c, p) \/ ApproveSent(c, p)
      PROVE SharingTypeOK'
  BY <1>5 DEF Approve, ApproveSent
<1>6. ASSUME NEW c \in Chans,
             ChannelRemove(c) \/ ChallengeFailed(c) \/ KeyDerived(c) \/ ModeChange(c)
      PROVE SharingTypeOK'
  BY <1>6 DEF ChannelRemove, ChallengeFailed, KeyDerived, ModeChange, Revoke, PromptsOf
<1>7. ASSUME NEW c \in Chans, NEW list \in SUBSET Peers, HoldersList(c, list)
      PROVE SharingTypeOK'
  BY <1>7 DEF HoldersList
<1>8. CASE Kicked
  BY <1>8 DEF Kicked
<1> QED
  BY <1>1, <1>2, <1>3, <1>4, <1>5, <1>6, <1>7, <1>8 DEF SharingNext

\* Raising prompts: the handlers look at holders, keys and users under the
\* lock that also adds the prompt.
LEMMA RaisedJustified ==
    ASSUME SharingInv, NEW c \in Chans, NEW p \in Peers,
           RemoteMove(p, c) \/ KeyAnnounce(p) \/ KeyRequest(c, p)
    PROVE  SendingApproved' /\ PromptsJustified'
<1> USE DEF SharingInv, SharingTypeOK, SendingApproved, PromptsJustified, Pairs
<1>1. CASE RemoteMove(p, c)
  <2>1. \A x \in prompts' : x \in prompts \/ (x[1] = c /\ x[2] \in SharePeers(c, place'))
    BY <1>1 DEF RemoteMove
  <2>2. \A q \in SharePeers(c, place') :
            c \in keyed /\ q \in Peers /\ q \notin holders[c] /\ place'[q] = c
    BY DEF SharePeers
  <2>3. \A q \in Peers : place[q] # Offline => place'[q] # Offline
    BY <1>1, OfflineIsNoChannel DEF RemoteMove
  <2> QED
    BY <1>1, <2>1, <2>2, <2>3, OfflineIsNoChannel DEF RemoteMove
<1>2. CASE KeyAnnounce(p)
  <2>1. \A x \in prompts' : x \in prompts \/ (x[1] \in ShareableChannels(p) /\ x[2] = p)
    BY <1>2 DEF KeyAnnounce
  <2> QED
    BY <1>2, <2>1, OfflineIsNoChannel DEF KeyAnnounce, ShareableChannels
<1>3. CASE KeyRequest(c, p)
  BY <1>3 DEF KeyRequest
<1> QED
  BY <1>1, <1>2, <1>3

\* Taking prompts away, or changing what they are about: the handler that
\* drops a key, a user or a non-holder drops the prompts about it too.
LEMMA DroppedJustified ==
    ASSUME SharingInv, NEW c \in Chans, NEW p \in Peers, NEW list \in SUBSET Peers,
           \/ UserRemove(p) \/ HoldersList(c, list) \/ KeyExchange(c, p)
           \/ ChannelRemove(c) \/ ChallengeFailed(c) \/ Dismiss(c, p)
    PROVE  SendingApproved' /\ PromptsJustified'
<1> USE DEF SharingInv, SharingTypeOK, SendingApproved, PromptsJustified, Pairs
<1>1. CASE UserRemove(p)
  BY <1>1 DEF UserRemove
<1>2. CASE HoldersList(c, list)
  <2>1. \A x \in prompts' : x \in prompts /\ (x[1] = c => x[2] \notin list)
    BY <1>2 DEF HoldersList
  <2> QED
    BY <1>2, <2>1 DEF HoldersList
<1>3. CASE KeyExchange(c, p)
  <2>1. \A x \in prompts' : x \in prompts /\ (x[1] = c => x[2] # p)
    BY <1>3 DEF KeyExchange
  <2> QED
    BY <1>3, <2>1 DEF KeyExchange
<1>4. CASE ChannelRemove(c) \/ ChallengeFailed(c)
  <2>1. Revoke(c) /\ UNCHANGED <<place, sending, approved, synced>>
    BY <1>4 DEF ChannelRemove, ChallengeFailed
  <2>2. \A x \in prompts' : x \in prompts /\ x[1] # c
    BY <2>1 DEF Revoke, PromptsOf
  <2> QED
    BY <2>1, <2>2 DEF Revoke
<1>5. CASE Dismiss(c, p)
  BY <1>5 DEF Dismiss
<1> QED
  BY <1>1, <1>2, <1>3, <1>4, <1>5

\* approve_key_share, in both of its halves, the key tasks, mode changes and
\* the kick.
LEMMA AnsweredJustified ==
    ASSUME SharingInv, NEW c \in Chans, NEW p \in Peers,
           Approve(c, p) \/ ApproveSent(c, p) \/ KeyDerived(c) \/ ModeChange(c) \/ Kicked
    PROVE  SendingApproved' /\ PromptsJustified'
<1> USE DEF SharingInv, SharingTypeOK, SendingApproved, PromptsJustified, Pairs
<1>1. CASE Approve(c, p)
  BY <1>1 DEF Approve
<1>2. CASE ApproveSent(c, p)
  BY <1>2 DEF ApproveSent
<1>3. CASE KeyDerived(c)
  BY <1>3 DEF KeyDerived
<1>4. CASE ModeChange(c)
  BY <1>4 DEF ModeChange
<1>5. CASE Kicked
  BY <1>5 DEF Kicked
<1> QED
  BY <1>1, <1>2, <1>3, <1>4, <1>5

\* Every pending consent prompt can still be answered and is about a peer that
\* lacks the key, whatever handlers, approvals and kicks interleave.
THEOREM PromptsCorrect == SharingSpec => []PromptsJustified
<1>1. SharingInit => SharingInv
  BY DEF SharingInit, SharingInv, SharingTypeOK, SendingApproved, PromptsJustified, Pairs
<1>2. SharingInv /\ [SharingNext]_sharing => SharingInv'
  <2> SUFFICES ASSUME SharingInv, [SharingNext]_sharing PROVE SharingInv'
    OBVIOUS
  <2>1. SharingTypeOK'
    BY SharingTypes DEF SharingInv
  <2>2. SendingApproved' /\ PromptsJustified'
    <3>1. CASE UNCHANGED sharing
      BY <3>1 DEF sharing, SharingInv, SendingApproved, PromptsJustified
    <3>2. ASSUME NEW p \in Peers, KeyAnnounce(p) \/ UserRemove(p)
          PROVE SendingApproved' /\ PromptsJustified'
      <4>1. CASE Chans = {}
        BY <3>2, <4>1 DEF KeyAnnounce, UserRemove, ShareableChannels, SharingInv, SharingTypeOK,
                          SendingApproved, PromptsJustified, Pairs
      <4>2. ASSUME NEW c \in Chans PROVE SendingApproved' /\ PromptsJustified'
        BY <3>2, RaisedJustified, DroppedJustified
      <4> QED
        BY <4>1, <4>2
    <3>3. ASSUME NEW c \in Chans, NEW p \in Peers,
                 \/ RemoteMove(p, c) \/ KeyRequest(c, p) \/ KeyExchange(c, p)
                 \/ Dismiss(c, p) \/ Approve(c, p) \/ ApproveSent(c, p)
          PROVE SendingApproved' /\ PromptsJustified'
      BY <3>3, RaisedJustified, DroppedJustified, AnsweredJustified
    <3>4. ASSUME NEW c \in Chans, NEW list \in SUBSET Peers,
                 \/ ChannelRemove(c) \/ ChallengeFailed(c) \/ KeyDerived(c)
                 \/ ModeChange(c) \/ HoldersList(c, list)
          PROVE SendingApproved' /\ PromptsJustified'
      <4>1. CASE Peers = {}
        <5>1. prompts' = {} /\ sending' = {}
          BY <2>1, <4>1 DEF SharingTypeOK, Pairs
        <5> QED
          BY <5>1 DEF SendingApproved, PromptsJustified
      <4>2. ASSUME NEW p \in Peers PROVE SendingApproved' /\ PromptsJustified'
        BY <3>4, DroppedJustified, AnsweredJustified
      <4> QED
        BY <4>1, <4>2
    <3>5. CASE Kicked
      BY <3>5 DEF Kicked, SharingInv, SendingApproved, PromptsJustified
    <3> QED
      BY <3>1, <3>2, <3>3, <3>4, <3>5 DEF SharingNext
  <2> QED
    BY <2>1, <2>2 DEF SharingInv
<1>3. SharingInv => PromptsJustified
  BY DEF SharingInv
<1> QED
  BY <1>1, <1>2, <1>3, PTL DEF SharingSpec

-----------------------------------------------------------------------------
(* Reactions, pins and names.  What the client will show once it has read  *)
(* the stream is decided, for each reaction and each message, by the last  *)
(* word about it under way, or by what is shown now when there is none.    *)

StreamMessages ==
    [kind : {"reaction"}, mark : Marks, add : BOOLEAN]
    \cup [kind : {"messages"}, posts : SUBSET Posts]
    \cup [kind : {"reactions"}, marks : SUBSET Marks]
    \cup [kind : {"pins"}, posts : SUBSET Posts]
    \cup [kind : {"pin"}, post : Posts, unpin : BOOLEAN]
    \cup [kind : {"member"}, name : Names \cup {"away"}]
    \cup [kind : {"receipt"}, name : Names \cup {"hash"}]

\* What adds and removes a reaction, pins, unpins and shows a message.
Adds(r) == {m \in StreamMessages : \/ m.kind = "reaction" /\ m.mark = r /\ m.add
                                   \/ m.kind = "reactions" /\ r \in m.marks}
Removes(r) == {m \in StreamMessages : m.kind = "reaction" /\ m.mark = r /\ ~m.add}
Pins(p) == {m \in StreamMessages : \/ m.kind = "pin" /\ m.post = p /\ ~m.unpin
                                   \/ m.kind = "pins" /\ p \in m.posts}
Unpins(p) == {m \in StreamMessages : m.kind = "pin" /\ m.post = p /\ m.unpin}
Shows(p) == {m \in StreamMessages : m.kind = "messages" /\ p \in m.posts}
PinLists == {m \in StreamMessages : m.kind = "pins"}

\* Nothing in s is in R; something in s is in A and nothing after it in R.
Lacks(s, R) == \A i \in 1..Len(s) : s[i] \notin R
EndsWith(s, A, R) == \E i \in 1..Len(s) : s[i] \in A /\ \A j \in 1..Len(s) : j > i => s[j] \notin R

\* No fetch has been answered on this connection, and no answer is under way.
Unasked == ~asked /\ Lacks(stream, PinLists)

MarkComes(r) == \/ r \in marked /\ Lacks(stream, Removes(r))
                \/ EndsWith(stream, Adds(r), Removes(r))
                \/ Unasked
MarkGoes(r) == \/ r \in missed
               \/ r \notin marked /\ Lacks(stream, Adds(r))
               \/ EndsWith(stream, Removes(r), Adds(r))
PinComes(p) == \/ Lacks(stream, Unpins(p)) /\ (p \in pinned \/ (p \notin loaded /\ Lacks(stream, Shows(p))))
               \/ EndsWith(stream, Pins(p), Unpins(p) \cup Shows(p))
               \/ Unasked
PinGoes(p) == \/ p \notin pinned /\ Lacks(stream, Pins(p))
              \/ EndsWith(stream, Unpins(p), Pins(p))

MarksFollow == live => \A r \in Marks : IF r \in board.marks THEN MarkComes(r) ELSE MarkGoes(r)
PinsFollow == live => \A p \in Posts : IF p \in board.pins THEN PinComes(p) ELSE PinGoes(p)

\* The file has what the cache has, and keeps nothing that was not there.
MarksSaved ==
    /\ markFile.torn => markFile.marks = {}
    /\ live => markFile.marks = marked
    /\ ~live => markFile.marks \subseteq board.marks \cup missed

BoardTypes ==
    /\ stream \in Seq(StreamMessages)
    /\ board = [marks |-> board.marks, pins |-> board.pins]
    /\ board.marks \subseteq Marks /\ board.pins \subseteq Posts
    /\ marked \subseteq Marks /\ markFile.marks \subseteq Marks
    /\ loaded \subseteq Posts /\ pinned \subseteq loaded
    /\ live \in BOOLEAN

BoardInv == BoardTypes /\ MarksFollow /\ PinsFollow /\ MarksSaved

\* The name that would be shown for the other member is the one last seen.
NamesInv ==
    /\ stream \in Seq(StreamMessages)
    /\ member \in Names \cup {"away"} /\ listed \in Names \cup {"away"}
    /\ lastWorn \in Names \cup {NoName} /\ reader.name # "hash"
    /\ nameFile = lastWorn \/ (nameFile = "torn" /\ lastWorn = NoName)
    /\ live => nameMap = lastWorn

\* The fields of the messages, by kind.
LEMMA MessageFields ==
    ASSUME NEW m \in StreamMessages
    PROVE  /\ m.kind = "reaction" => m.mark \in Marks /\ m.add \in BOOLEAN
           /\ m.kind = "messages" => m.posts \subseteq Posts
           /\ m.kind = "reactions" => m.marks \subseteq Marks
           /\ m.kind = "pins" => m.posts \subseteq Posts
           /\ m.kind = "pin" => m.post \in Posts /\ m.unpin \in BOOLEAN
           /\ m.kind = "member" => m.name \in Names \cup {"away"}
           /\ m.kind = "receipt" => m.name \in Names \cup {"hash"}
BY DEF StreamMessages

\* A message that is added at the end has the last word.
LEMMA LastWordAdded ==
    ASSUME NEW T, NEW s \in Seq(T), NEW m \in T, NEW A, NEW R
    PROVE  /\ Append(s, m) \in Seq(T)
           /\ m \in A => EndsWith(Append(s, m), A, R)
           /\ m \notin R /\ EndsWith(s, A, R) => EndsWith(Append(s, m), A, R)
           /\ m \notin R /\ Lacks(s, R) => Lacks(Append(s, m), R)
<1>1. /\ Len(s) \in Nat /\ Len(Append(s, m)) = Len(s) + 1 /\ Append(s, m)[Len(s) + 1] = m
      /\ \A i \in 1..Len(s) : Append(s, m)[i] = s[i]
      /\ Append(s, m) \in Seq(T)
  OBVIOUS
<1>2. PICK a : a = Append(s, m) OBVIOUS
<1>3. PICK n \in Nat : n = Len(s) BY <1>1
<1>4. Len(a) = n + 1 /\ a[n + 1] = m /\ \A i \in 1..n : a[i] = s[i] BY <1>1, <1>2, <1>3
<1>5. n + 1 \in 1..(n + 1) /\ \A i \in 1..(n + 1) : ~(i > n + 1) /\ (i \in 1..n \/ i = n + 1)
  BY ONLY <1>3
<1>6. \A i \in 1..n : i \in 1..(n + 1) BY ONLY <1>3
<1>7. m \in A => EndsWith(a, A, R) BY <1>4, <1>5 DEF EndsWith
<1>8. m \notin R /\ EndsWith(s, A, R) => EndsWith(a, A, R) BY <1>3, <1>4, <1>5, <1>6 DEF EndsWith
<1>9. m \notin R /\ Lacks(s, R) => Lacks(a, R) BY <1>3, <1>4, <1>5 DEF Lacks
<1> QED BY <1>1, <1>2, <1>7, <1>8, <1>9

\* When the oldest message is read, the last word stays or has just been spoken.
LEMMA LastWordRead ==
    ASSUME NEW T, NEW s \in Seq(T), s # << >>, NEW A, NEW R
    PROVE  /\ Tail(s) \in Seq(T) /\ Head(s) \in T
           /\ Lacks(s, R) => Head(s) \notin R /\ Lacks(Tail(s), R)
           /\ EndsWith(s, A, R) => EndsWith(Tail(s), A, R) \/ (Head(s) \in A /\ Lacks(Tail(s), R))
<1>1. /\ Len(s) \in Nat /\ Len(s) > 0 /\ Len(Tail(s)) = Len(s) - 1 /\ Head(s) = s[1]
      /\ \A i \in 1..(Len(s) - 1) : Tail(s)[i] = s[i + 1]
      /\ Tail(s) \in Seq(T) /\ Head(s) \in T
  OBVIOUS
<1>2. PICK b : b = Tail(s) OBVIOUS
<1>3. PICK n \in Nat : n = Len(s) BY <1>1
<1>4. n > 0 /\ Len(b) = n - 1 /\ Head(s) = s[1] /\ \A i \in 1..(n - 1) : b[i] = s[i + 1]
  BY <1>1, <1>2, <1>3
<1>5. /\ 1 \in 1..n /\ \A i \in 1..(n - 1) : i + 1 \in 1..n /\ i + 1 > 1
      /\ \A i \in 1..n : i = 1 \/ (i - 1 \in 1..(n - 1) /\ (i - 1) + 1 = i)
      /\ \A i \in 1..n : \A j \in 1..(n - 1) : j > i - 1 => j + 1 > i
  BY ONLY <1>3, <1>4
<1>6. Lacks(s, R) => Head(s) \notin R /\ Lacks(b, R) BY <1>3, <1>4, <1>5 DEF Lacks
<1>7. ASSUME EndsWith(s, A, R) PROVE EndsWith(b, A, R) \/ (Head(s) \in A /\ Lacks(b, R))
  <2>1. PICK i \in 1..n : s[i] \in A /\ \A j \in 1..n : j > i => s[j] \notin R
    BY <1>3, <1>7 DEF EndsWith
  <2>2. CASE i = 1
    <3>1. \A j \in 1..(n - 1) : b[j] \notin R BY <1>4, <1>5, <2>1, <2>2
    <3> QED BY <1>4, <2>1, <2>2, <3>1 DEF Lacks
  <2>3. CASE i # 1
    <3>1. i - 1 \in 1..(n - 1) /\ b[i - 1] = s[i] BY <1>4, <1>5, <2>3
    <3>2. \A j \in 1..(n - 1) : j > i - 1 => b[j] \notin R BY <1>4, <1>5, <2>1
    <3> QED BY <1>4, <2>1, <3>1, <3>2 DEF EndsWith
  <2> QED BY <2>2, <2>3
<1> QED BY <1>1, <1>2, <1>6, <1>7

\* Nothing is under way.
LEMMA NoWord == \A A, R : Lacks(<< >>, R) /\ ~EndsWith(<< >>, A, R)
BY DEF Lacks, EndsWith

\* A handler reads the oldest message and does what it says.
LEMMA ReadKept ==
    ASSUME BoardInv, live, stream # << >>, stream' = Tail(stream), UNCHANGED <<board, live, missed>>,
           NEW h, h = Head(stream),
           asked' = asked \/ h \in PinLists,
           marked' \subseteq Marks, markFile'.marks = marked', markFile'.torn => markFile'.marks = {},
           loaded' \subseteq Posts, pinned' \subseteq loaded',
           \A r \in Marks : /\ h \in Adds(r) => r \in marked'
                            /\ h \in Removes(r) => r \notin marked'
                            /\ r \in marked /\ h \notin Removes(r) => r \in marked'
                            /\ r \notin marked /\ h \notin Adds(r) => r \notin marked',
           \A p \in Posts : /\ h \in Pins(p) => p \in pinned' \/ p \notin loaded'
                            /\ h \in Unpins(p) => p \notin pinned'
                            /\ p \in pinned /\ h \notin Unpins(p) => p \in pinned'
                            /\ p \notin pinned /\ h \notin Pins(p) => p \notin pinned'
                            /\ p \notin loaded /\ h \notin Shows(p) => p \notin loaded'
    PROVE  BoardInv'
<1>0. stream \in Seq(StreamMessages) BY DEF BoardInv, BoardTypes
<1>1. PICK s : s = stream OBVIOUS
<1>2. PICK b : b = Tail(s) OBVIOUS
<1>3. /\ s \in Seq(StreamMessages) /\ s # << >> /\ stream = s /\ stream' = b /\ Head(s) = h
      /\ b \in Seq(StreamMessages)
  BY <1>0, <1>1, <1>2, LastWordRead
<1>4. \A R : Lacks(s, R) => h \notin R /\ Lacks(b, R) BY <1>2, <1>3, LastWordRead
<1>5. \A A, R : EndsWith(s, A, R) => EndsWith(b, A, R) \/ (h \in A /\ Lacks(b, R))
  BY <1>2, <1>3, LastWordRead
<1>6. Unasked => Unasked' BY <1>3, <1>4 DEF Unasked
<1>7. \A R, S : Lacks(b, R \cup S) => Lacks(b, R) /\ Lacks(b, S) BY DEF Lacks
<1>8. ASSUME NEW r \in Marks PROVE (MarkComes(r) => MarkComes(r)') /\ (MarkGoes(r) => MarkGoes(r)')
  <2>1. PICK A, R : A = Adds(r) /\ R = Removes(r) OBVIOUS
  <2>2. MarkComes(r) => MarkComes(r)'
    <3>1. CASE r \in marked /\ Lacks(s, R) BY <1>3, <1>4, <2>1, <3>1 DEF MarkComes
    <3>2. CASE EndsWith(s, A, R) BY <1>3, <1>5, <2>1, <3>2 DEF MarkComes
    <3>3. CASE Unasked BY <1>6, <3>3 DEF MarkComes
    <3> QED BY <1>3, <2>1, <3>1, <3>2, <3>3 DEF MarkComes
  <2>3. MarkGoes(r) => MarkGoes(r)'
    <3>1. CASE r \notin marked /\ Lacks(s, A) BY <1>3, <1>4, <2>1, <3>1 DEF MarkGoes
    <3>2. CASE EndsWith(s, R, A) BY <1>3, <1>5, <2>1, <3>2 DEF MarkGoes
    <3>3. CASE r \in missed BY <3>3 DEF MarkGoes
    <3> QED BY <1>3, <2>1, <3>1, <3>2, <3>3 DEF MarkGoes
  <2> QED BY <2>2, <2>3
<1>9. ASSUME NEW p \in Posts PROVE (PinComes(p) => PinComes(p)') /\ (PinGoes(p) => PinGoes(p)')
  <2>1. PICK A, R, S : A = Pins(p) /\ R = Unpins(p) /\ S = Shows(p) OBVIOUS
  <2>2. PinComes(p) => PinComes(p)'
    <3>1. CASE Lacks(s, R) /\ p \in pinned BY <1>3, <1>4, <2>1, <3>1 DEF PinComes
    <3>2. CASE Lacks(s, R) /\ p \notin loaded /\ Lacks(s, S) BY <1>3, <1>4, <2>1, <3>2 DEF PinComes
    <3>3. CASE EndsWith(s, A, R \cup S)
      <4>1. CASE EndsWith(b, A, R \cup S) BY <1>3, <2>1, <4>1 DEF PinComes
      <4>2. CASE h \in A /\ Lacks(b, R \cup S)
        <5>1. Lacks(b, R) /\ Lacks(b, S) BY <1>7, <4>2
        <5> QED BY <1>3, <2>1, <4>2, <5>1 DEF PinComes
      <4> QED BY <1>5, <3>3, <4>1, <4>2
    <3>4. CASE Unasked BY <1>6, <3>4 DEF PinComes
    <3> QED BY <1>3, <2>1, <3>1, <3>2, <3>3, <3>4 DEF PinComes
  <2>3. PinGoes(p) => PinGoes(p)'
    <3>1. CASE p \notin pinned /\ Lacks(s, A) BY <1>3, <1>4, <2>1, <3>1 DEF PinGoes
    <3>2. CASE EndsWith(s, R, A) BY <1>3, <1>5, <2>1, <3>2 DEF PinGoes
    <3> QED BY <1>3, <2>1, <3>1, <3>2 DEF PinGoes
  <2> QED BY <2>2, <2>3
<1>10. MarksFollow' BY <1>8 DEF BoardInv, MarksFollow
<1>11. PinsFollow' BY <1>9 DEF BoardInv, PinsFollow
<1>12. MarksSaved' BY DEF MarksSaved
<1>13. BoardTypes' BY <1>3 DEF BoardInv, BoardTypes
<1> QED BY <1>10, <1>11, <1>12, <1>13 DEF BoardInv

\* Another member changes something and the client, if connected, is told.
LEMMA ToldKept ==
    ASSUME BoardInv, NEW m \in StreamMessages, Tell(m), m \notin PinLists,
           UNCHANGED <<live, asked, marked, markFile, loaded, pinned>>,
           board' = [marks |-> board'.marks, pins |-> board'.pins],
           board'.marks \subseteq Marks, board'.pins \subseteq Posts,
           \A r \in Marks : r \in missed => r \in missed',
           \A r \in Marks : \/ /\ r \in board'.marks <=> r \in board.marks
                               /\ m \notin Adds(r) /\ m \notin Removes(r)
                            \/ r \in board'.marks /\ m \in Adds(r)
                            \/ r \notin board'.marks /\ m \in Removes(r) /\ (~live => r \in missed'),
           \A p \in Posts : \/ /\ p \in board'.pins <=> p \in board.pins
                               /\ m \notin Pins(p) /\ m \notin Unpins(p) /\ m \notin Shows(p)
                            \/ p \in board'.pins /\ m \in Pins(p)
                            \/ p \notin board'.pins /\ m \in Unpins(p)
    PROVE  BoardInv'
<1>0. stream \in Seq(StreamMessages) BY DEF BoardInv, BoardTypes
<1>1. stream' \in Seq(StreamMessages) BY <1>0 DEF Tell
<1>2. BoardTypes' BY <1>1 DEF BoardInv, BoardTypes
<1>3. MarksSaved' BY DEF BoardInv, BoardTypes, MarksSaved
<1>4. CASE ~live BY <1>2, <1>3, <1>4 DEF BoardInv, MarksFollow, PinsFollow
<1>5. CASE live
  <2>1. PICK s : s = stream OBVIOUS
  <2>2. PICK a : a = Append(s, m) OBVIOUS
  <2>3. stream = s /\ stream' = a BY <1>5, <2>1, <2>2 DEF Tell
  <2>4. \A A, R : /\ m \in A => EndsWith(a, A, R)
                  /\ m \notin R /\ EndsWith(s, A, R) => EndsWith(a, A, R)
                  /\ m \notin R /\ Lacks(s, R) => Lacks(a, R)
    BY <1>0, <2>1, <2>2, LastWordAdded
  <2>5. Unasked => Unasked' BY <2>3, <2>4 DEF Unasked
  <2>6. ASSUME NEW r \in Marks
        PROVE  /\ m \in Adds(r) => MarkComes(r)'
               /\ m \in Removes(r) => MarkGoes(r)'
               /\ m \notin Adds(r) /\ m \notin Removes(r) =>
                    (MarkComes(r) => MarkComes(r)') /\ (MarkGoes(r) => MarkGoes(r)')
    <3>1. PICK A, R : A = Adds(r) /\ R = Removes(r) OBVIOUS
    <3>2. m \in A => MarkComes(r)' BY <2>3, <2>4, <3>1 DEF MarkComes
    <3>3. m \in R => MarkGoes(r)' BY <2>3, <2>4, <3>1 DEF MarkGoes
    <3>4. m \notin A /\ m \notin R /\ MarkComes(r) => MarkComes(r)'
      BY <2>3, <2>4, <2>5, <3>1 DEF MarkComes
    <3>5. m \notin A /\ m \notin R /\ MarkGoes(r) => MarkGoes(r)'
      BY <2>3, <2>4, <3>1 DEF MarkGoes
    <3> QED BY <3>1, <3>2, <3>3, <3>4, <3>5
  <2>7. ASSUME NEW p \in Posts
        PROVE  /\ m \in Pins(p) => PinComes(p)'
               /\ m \in Unpins(p) => PinGoes(p)'
               /\ m \notin Pins(p) /\ m \notin Unpins(p) /\ m \notin Shows(p) =>
                    (PinComes(p) => PinComes(p)') /\ (PinGoes(p) => PinGoes(p)')
    <3>1. PICK A, R, S : A = Pins(p) /\ R = Unpins(p) /\ S = Shows(p) OBVIOUS
    <3>2. m \in A => PinComes(p)' BY <2>3, <2>4, <3>1 DEF PinComes
    <3>3. m \in R => PinGoes(p)' BY <2>3, <2>4, <3>1 DEF PinGoes
    <3>4. ASSUME m \notin A, m \notin R, m \notin S, PinComes(p) PROVE PinComes(p)'
      <4>1. CASE EndsWith(s, A, R \cup S)
        <5>1. EndsWith(a, A, R \cup S) BY <2>4, <3>4, <4>1
        <5> QED BY <2>3, <3>1, <5>1 DEF PinComes
      <4>2. CASE ~EndsWith(s, A, R \cup S) BY <2>3, <2>4, <2>5, <3>1, <3>4, <4>2 DEF PinComes
      <4> QED BY <4>1, <4>2
    <3>5. m \notin A /\ m \notin R /\ PinGoes(p) => PinGoes(p)'
      BY <2>3, <2>4, <3>1 DEF PinGoes
    <3> QED BY <3>1, <3>2, <3>3, <3>4, <3>5
  <2>8. MarksFollow' BY <1>5, <2>6 DEF BoardInv, MarksFollow
  <2>9. PinsFollow' BY <1>5, <2>7 DEF BoardInv, PinsFollow
  <2> QED BY <1>2, <1>3, <2>8, <2>9 DEF BoardInv
<1> QED BY <1>4, <1>5

\* The members and the server change the board and tell the client.
LEMMA ChangesKept ==
    ASSUME BoardInv,
           \/ \E r \in Marks : React(r)
           \/ \E p \in Posts : Pin(p)
           \/ \E name \in Names \cup {"away"} : MemberChanges(name)
           \/ \E name \in Names \cup {"hash"} : Receipt(name)
    PROVE  BoardInv'
<1> USE DEF Adds, Removes, Pins, Unpins, Shows, PinLists
<1>0. /\ board = [marks |-> board.marks, pins |-> board.pins]
      /\ board.marks \subseteq Marks /\ board.pins \subseteq Posts
  BY DEF BoardInv, BoardTypes
<1>1. ASSUME NEW r0 \in Marks, React(r0) PROVE BoardInv'
  <2>1. UNCHANGED <<live, asked, marked, markFile, loaded, pinned>> BY <1>1 DEF React, marks, pins
  <2>2. CASE r0 \notin board.marks
    <3>1. PICK m : m = [kind |-> "reaction", mark |-> r0, add |-> TRUE] OBVIOUS
    <3>2. Tell(m) /\ UNCHANGED missed /\ board' = [board EXCEPT !.marks = board.marks \cup {r0}]
      BY <1>1, <2>2, <3>1 DEF React
    <3>3. m \in StreamMessages /\ m.kind = "reaction" /\ m.mark = r0 /\ m.add = TRUE
      BY <3>1 DEF StreamMessages
    <3>4. board'.marks = board.marks \cup {r0} /\ board'.pins = board.pins
          /\ board' = [marks |-> board'.marks, pins |-> board'.pins]
      BY <1>0, <3>2
    <3>5. board'.marks \subseteq Marks /\ board'.pins \subseteq Posts BY <1>0, <3>4
    <3>6. \A r \in Marks : \/ /\ r \in board'.marks <=> r \in board.marks
                              /\ m \notin Adds(r) /\ m \notin Removes(r)
                           \/ r \in board'.marks /\ m \in Adds(r)
      BY <3>3, <3>4
    <3>7. \A p \in Posts : /\ p \in board'.pins <=> p \in board.pins
                           /\ m \notin Pins(p) /\ m \notin Unpins(p) /\ m \notin Shows(p)
      BY <3>3, <3>4
    <3>8. m \notin PinLists BY <3>3
    <3> HIDE DEF Adds, Removes, Pins, Unpins, Shows, PinLists
    <3> QED BY <2>1, <3>2, <3>3, <3>4, <3>5, <3>6, <3>7, <3>8, ToldKept
  <2>3. CASE r0 \in board.marks
    <3>1. PICK m : m = [kind |-> "reaction", mark |-> r0, add |-> FALSE] OBVIOUS
    <3>2. /\ Tell(m) /\ board' = [board EXCEPT !.marks = board.marks \ {r0}]
          /\ missed' = IF live THEN missed ELSE missed \cup {r0}
      BY <1>1, <2>3, <3>1 DEF React
    <3>3. m \in StreamMessages /\ m.kind = "reaction" /\ m.mark = r0 /\ m.add = FALSE
      BY <3>1 DEF StreamMessages
    <3>4. board'.marks = board.marks \ {r0} /\ board'.pins = board.pins
          /\ board' = [marks |-> board'.marks, pins |-> board'.pins]
      BY <1>0, <3>2
    <3>5. board'.marks \subseteq Marks /\ board'.pins \subseteq Posts BY <1>0, <3>4
    <3>6. \A r \in Marks : \/ /\ r \in board'.marks <=> r \in board.marks
                              /\ m \notin Adds(r) /\ m \notin Removes(r)
                           \/ r \notin board'.marks /\ m \in Removes(r) /\ (~live => r \in missed')
      BY <3>2, <3>3, <3>4
    <3>7. \A p \in Posts : /\ p \in board'.pins <=> p \in board.pins
                           /\ m \notin Pins(p) /\ m \notin Unpins(p) /\ m \notin Shows(p)
      BY <3>3, <3>4
    <3>8. m \notin PinLists /\ \A r \in Marks : r \in missed => r \in missed' BY <3>2, <3>3
    <3> HIDE DEF Adds, Removes, Pins, Unpins, Shows, PinLists
    <3> QED BY <2>1, <3>2, <3>3, <3>4, <3>5, <3>6, <3>7, <3>8, ToldKept
  <2> QED BY <2>2, <2>3
<1>2. ASSUME NEW p0 \in Posts, Pin(p0) PROVE BoardInv'
  <2>1. UNCHANGED <<live, asked, marked, markFile, loaded, pinned, missed>> BY <1>2 DEF Pin, marks, pins
  <2>2. (p0 \in board.pins) \in BOOLEAN OBVIOUS
  <2>3. PICK m : m = [kind |-> "pin", post |-> p0, unpin |-> p0 \in board.pins] OBVIOUS
  <2>4. PICK now : now = IF p0 \in board.pins THEN board.pins \ {p0} ELSE board.pins \cup {p0} OBVIOUS
  <2>5. Tell(m) /\ board' = [board EXCEPT !.pins = now] BY <1>2, <2>3, <2>4 DEF Pin
  <2>6. m \in StreamMessages /\ m.kind = "pin" /\ m.post = p0 /\ (m.unpin <=> p0 \in board.pins)
    <3>1. m.kind = "pin" /\ m.post = p0 /\ m.unpin = (p0 \in board.pins) BY <2>3
    <3>2. m.unpin <=> p0 \in board.pins BY <3>1
    <3>3. m \in [kind : {"pin"}, post : Posts, unpin : BOOLEAN] BY <2>2, <2>3
    <3> QED BY <3>1, <3>2, <3>3 DEF StreamMessages
  <2>7. /\ board'.marks = board.marks /\ board'.pins = now
        /\ board' = [marks |-> board'.marks, pins |-> board'.pins]
    BY <1>0, <2>5
  <2>8. board'.marks \subseteq Marks /\ board'.pins \subseteq Posts BY <1>0, <2>4, <2>7
  <2>9. \A r \in Marks : /\ r \in board'.marks <=> r \in board.marks
                         /\ m \notin Adds(r) /\ m \notin Removes(r)
    BY <2>6, <2>7
  <2>10. \A p \in Posts : \/ /\ p \in board'.pins <=> p \in board.pins
                             /\ m \notin Pins(p) /\ m \notin Unpins(p) /\ m \notin Shows(p)
                          \/ p \in board'.pins /\ m \in Pins(p)
                          \/ p \notin board'.pins /\ m \in Unpins(p)
    BY <2>4, <2>6, <2>7
  <2>11. m \notin PinLists BY <2>6
  <2> HIDE DEF Adds, Removes, Pins, Unpins, Shows, PinLists
  <2> QED BY <2>1, <2>5, <2>6, <2>7, <2>8, <2>9, <2>10, <2>11, ToldKept
<1>3. ASSUME NEW m \in StreamMessages, m.kind \in {"member", "receipt"}, Tell(m),
             UNCHANGED <<board, live, asked, marked, markFile, loaded, pinned, missed>>
      PROVE  BoardInv'
  <2>1. \A r \in Marks : m \notin Adds(r) /\ m \notin Removes(r) BY <1>3
  <2>2. \A p \in Posts : m \notin Pins(p) /\ m \notin Unpins(p) /\ m \notin Shows(p) BY <1>3
  <2>3. m \notin PinLists BY <1>3
  <2> HIDE DEF Adds, Removes, Pins, Unpins, Shows, PinLists
  <2> QED BY <1>0, <1>3, <2>1, <2>2, <2>3, ToldKept
<1>4. ASSUME NEW name \in Names \cup {"away"}, MemberChanges(name) PROVE BoardInv'
  <2>1. PICK m : m = [kind |-> "member", name |-> name] OBVIOUS
  <2>2. m \in StreamMessages /\ m.kind = "member" BY <2>1 DEF StreamMessages
  <2> QED BY <1>3, <1>4, <2>1, <2>2 DEF MemberChanges, marks, pins
<1>5. ASSUME NEW name \in Names \cup {"hash"}, Receipt(name) PROVE BoardInv'
  <2>1. PICK m : m = [kind |-> "receipt", name |-> name] OBVIOUS
  <2>2. m \in StreamMessages /\ m.kind = "receipt" BY <2>1 DEF StreamMessages
  <2> QED BY <1>3, <1>5, <2>1, <2>2 DEF Receipt, marks, pins
<1> QED BY <1>1, <1>2, <1>4, <1>5

\* The answer to a fetch: whatever is under way, it has the last word.
LEMMA FetchKept == ASSUME BoardInv, AnswerFetch PROVE BoardInv'
<1>0. live /\ UNCHANGED <<board, live, asked, marked, markFile, loaded, pinned, missed>>
  BY DEF AnswerFetch, marks, pins
<1>1. PICK some \in SUBSET Posts :
        stream' = stream \o <<[kind |-> "messages", posts |-> some],
                              [kind |-> "reactions", marks |-> board.marks],
                              [kind |-> "pins", posts |-> board.pins]>>
  BY DEF AnswerFetch
<1>2. PICK x : x = [kind |-> "messages", posts |-> some] OBVIOUS
<1>3. PICK y : y = [kind |-> "reactions", marks |-> board.marks] OBVIOUS
<1>4. PICK z : z = [kind |-> "pins", posts |-> board.pins] OBVIOUS
<1>5. board.marks \subseteq Marks /\ board.pins \subseteq Posts /\ stream \in Seq(StreamMessages)
  BY DEF BoardInv, BoardTypes
<1>6. /\ x \in StreamMessages /\ x.kind = "messages" /\ x.posts = some
      /\ y \in StreamMessages /\ y.kind = "reactions" /\ y.marks = board.marks
      /\ z \in StreamMessages /\ z.kind = "pins" /\ z.posts = board.pins
  BY <1>2, <1>3, <1>4, <1>5 DEF StreamMessages
<1>7. PICK s : s = stream OBVIOUS
<1>8. PICK a : a = Append(s, x) OBVIOUS
<1>9. PICK b : b = Append(a, y) OBVIOUS
<1>10. PICK c : c = Append(b, z) OBVIOUS
<1>11. s \in Seq(StreamMessages) /\ a \in Seq(StreamMessages) /\ b \in Seq(StreamMessages)
  BY <1>5, <1>6, <1>7, <1>8, <1>9, LastWordAdded
<1>12. stream = s /\ stream' = c /\ c \in Seq(StreamMessages)
  <2>1. stream' = s \o <<x, y, z>> BY <1>1, <1>2, <1>3, <1>4, <1>7
  <2>2. \A T : \A t \in Seq(T), u, v, w \in T :
          t \o <<u, v, w>> = Append(Append(Append(t, u), v), w)
    OBVIOUS
  <2>3. c \in Seq(StreamMessages) BY <1>6, <1>10, <1>11, LastWordAdded
  <2>4. s \o <<x, y, z>> = Append(Append(Append(s, x), y), z) BY ONLY <1>6, <1>11, <2>2
  <2> QED BY ONLY <1>7, <1>8, <1>9, <1>10, <2>1, <2>3, <2>4
<1>13. \A A, R : /\ x \notin R /\ EndsWith(s, A, R) => EndsWith(a, A, R)
                 /\ x \notin R /\ Lacks(s, R) => Lacks(a, R)
  BY <1>6, <1>8, <1>11, LastWordAdded
<1>14. \A A, R : /\ y \in A => EndsWith(b, A, R)
                 /\ y \notin R /\ EndsWith(a, A, R) => EndsWith(b, A, R)
                 /\ y \notin R /\ Lacks(a, R) => Lacks(b, R)
  BY <1>6, <1>9, <1>11, LastWordAdded
<1>15. \A A, R : /\ z \in A => EndsWith(c, A, R)
                 /\ z \notin R /\ EndsWith(b, A, R) => EndsWith(c, A, R)
                 /\ z \notin R /\ Lacks(b, R) => Lacks(c, R)
  BY <1>6, <1>10, <1>11, LastWordAdded
<1>16. ASSUME NEW r \in Marks, r \in board.marks PROVE MarkComes(r)'
  <2>1. y \in Adds(r) /\ z \notin Removes(r) BY <1>6, <1>16 DEF Adds, Removes
  <2>2. EndsWith(c, Adds(r), Removes(r)) BY <1>14, <1>15, <2>1
  <2> QED BY <1>12, <2>2 DEF MarkComes
<1>17. ASSUME NEW r \in Marks, r \notin board.marks PROVE MarkGoes(r)'
  <2>1. x \notin Adds(r) /\ y \notin Adds(r) /\ z \notin Adds(r) BY <1>6, <1>17 DEF Adds
  <2>2. MarkGoes(r) BY <1>0, <1>17 DEF BoardInv, MarksFollow
  <2>3. CASE r \in missed BY <1>0, <2>3 DEF MarkGoes
  <2>4. CASE r \notin marked /\ Lacks(s, Adds(r))
    <3>1. Lacks(c, Adds(r)) BY <1>13, <1>14, <1>15, <2>1, <2>4
    <3> QED BY <1>0, <1>12, <2>4, <3>1 DEF MarkGoes
  <2>5. CASE EndsWith(s, Removes(r), Adds(r))
    <3>1. EndsWith(c, Removes(r), Adds(r)) BY <1>13, <1>14, <1>15, <2>1, <2>5
    <3> QED BY <1>12, <3>1 DEF MarkGoes
  <2> QED BY <1>12, <2>2, <2>3, <2>4, <2>5 DEF MarkGoes
<1>18. ASSUME NEW p \in Posts, p \in board.pins PROVE PinComes(p)'
  <2>1. z \in Pins(p) BY <1>6, <1>18 DEF Pins
  <2>2. EndsWith(c, Pins(p), Unpins(p) \cup Shows(p)) BY <1>15, <2>1
  <2> QED BY <1>12, <2>2 DEF PinComes
<1>19. ASSUME NEW p \in Posts, p \notin board.pins PROVE PinGoes(p)'
  <2>1. x \notin Pins(p) /\ y \notin Pins(p) /\ z \notin Pins(p) BY <1>6, <1>19 DEF Pins
  <2>2. PinGoes(p) BY <1>0, <1>19 DEF BoardInv, PinsFollow
  <2>3. CASE p \notin pinned /\ Lacks(s, Pins(p))
    <3>1. Lacks(c, Pins(p)) BY <1>13, <1>14, <1>15, <2>1, <2>3
    <3> QED BY <1>0, <1>12, <2>3, <3>1 DEF PinGoes
  <2>4. CASE EndsWith(s, Unpins(p), Pins(p))
    <3>1. EndsWith(c, Unpins(p), Pins(p)) BY <1>13, <1>14, <1>15, <2>1, <2>4
    <3> QED BY <1>12, <3>1 DEF PinGoes
  <2> QED BY <1>12, <2>2, <2>3, <2>4 DEF PinGoes
<1>20. MarksFollow' /\ PinsFollow' BY <1>0, <1>16, <1>17, <1>18, <1>19 DEF MarksFollow, PinsFollow
<1>21. BoardTypes' /\ MarksSaved' BY <1>0, <1>12 DEF BoardInv, BoardTypes, MarksSaved
<1> QED BY <1>20, <1>21 DEF BoardInv

\* The handlers of the client.
LEMMA HandlersKept ==
    ASSUME BoardInv,
           \/ PchatReactionDeliver \/ PchatReactionFetchResponse \/ PchatFetchResponse
           \/ PchatPinDeliver \/ PchatPinFetchResponse \/ MemberSeen \/ FancyReadReceiptDeliver
    PROVE  BoardInv'
<1> USE DEF Adds, Removes, Pins, Unpins, Shows, PinLists
<1>0. /\ marked \subseteq Marks /\ loaded \subseteq Posts /\ pinned \subseteq loaded
      /\ stream \in Seq(StreamMessages) /\ (live => markFile.marks = marked)
      /\ (markFile.torn => markFile.marks = {})
  BY DEF BoardInv, BoardTypes, MarksSaved
<1>1. PICK h : h = Head(stream) OBVIOUS
<1>2. /\ live /\ stream # << >> /\ stream' = Tail(stream) /\ UNCHANGED <<board, live, missed>>
  BY DEF PchatReactionDeliver, PchatReactionFetchResponse, PchatFetchResponse, PchatPinDeliver,
         PchatPinFetchResponse, MemberSeen, FancyReadReceiptDeliver, Receives
<1>3. h \in StreamMessages BY <1>0, <1>1, <1>2, LastWordRead
<1>4. ASSUME h.kind \notin {"reaction", "reactions"}, UNCHANGED <<marked, markFile>>
      PROVE  /\ marked' \subseteq Marks /\ markFile'.marks = marked' /\ (markFile'.torn => markFile'.marks = {})
             /\ \A r \in Marks : /\ h \in Adds(r) => r \in marked'
                                 /\ h \in Removes(r) => r \notin marked'
                                 /\ r \in marked /\ h \notin Removes(r) => r \in marked'
                                 /\ r \notin marked /\ h \notin Adds(r) => r \notin marked'
  BY <1>0, <1>2, <1>4
<1>5. ASSUME h.kind \notin {"messages", "pin", "pins"}, UNCHANGED <<loaded, pinned, asked>>
      PROVE  /\ asked' = asked \/ h \in PinLists
             /\ loaded' \subseteq Posts /\ pinned' \subseteq loaded'
             /\ \A p \in Posts : /\ h \in Pins(p) => p \in pinned' \/ p \notin loaded'
                                 /\ h \in Unpins(p) => p \notin pinned'
                                 /\ p \in pinned /\ h \notin Unpins(p) => p \in pinned'
                                 /\ p \notin pinned /\ h \notin Pins(p) => p \notin pinned'
                                 /\ p \notin loaded /\ h \notin Shows(p) => p \notin loaded'
  BY <1>0, <1>5
<1>6. CASE PchatReactionDeliver
  <2>1. h.kind = "reaction" /\ h.mark \in Marks /\ h.add \in BOOLEAN
    BY <1>1, <1>3, <1>6, MessageFields DEF PchatReactionDeliver, Receives
  <2>2. marked' = (IF h.add THEN marked \cup {h.mark} ELSE marked \ {h.mark})
    BY <1>1, <1>6 DEF PchatReactionDeliver, upsert_cached_reaction, insert_reaction, remove_reaction
  <2>3. markFile' = [torn |-> FALSE, marks |-> marked'] /\ UNCHANGED <<loaded, pinned, asked>>
    BY <1>6 DEF PchatReactionDeliver, save_reactions, encrypt, pins
  <2>4. markFile'.marks = marked' /\ ~markFile'.torn BY <2>3
  <2>5. /\ marked' \subseteq Marks
        /\ \A r \in Marks : /\ h \in Adds(r) => r \in marked'
                            /\ h \in Removes(r) => r \notin marked'
                            /\ r \in marked /\ h \notin Removes(r) => r \in marked'
                            /\ r \notin marked /\ h \notin Adds(r) => r \notin marked'
    BY <1>0, <1>3, <2>1, <2>2
  <2> HIDE DEF Adds, Removes, Pins, Unpins, Shows, PinLists
  <2> QED BY <1>1, <1>2, <1>5, <2>1, <2>3, <2>4, <2>5, ReadKept
<1>7. CASE PchatReactionFetchResponse
  <2>1. h.kind = "reactions" /\ h.marks \subseteq Marks
    BY <1>1, <1>3, <1>7, MessageFields DEF PchatReactionFetchResponse, Receives
  <2>2. marked' = marked \cup h.marks
    BY <1>1, <1>7 DEF PchatReactionFetchResponse, bulk_insert_cached_reactions
  <2>3. markFile' = [torn |-> FALSE, marks |-> marked'] /\ UNCHANGED <<loaded, pinned, asked>>
    BY <1>7 DEF PchatReactionFetchResponse, save_reactions, encrypt, pins
  <2>4. markFile'.marks = marked' /\ ~markFile'.torn BY <2>3
  <2>5. /\ marked' \subseteq Marks
        /\ \A r \in Marks : /\ h \in Adds(r) => r \in marked'
                            /\ h \in Removes(r) => r \notin marked'
                            /\ r \in marked /\ h \notin Removes(r) => r \in marked'
                            /\ r \notin marked /\ h \notin Adds(r) => r \notin marked'
    BY <1>0, <1>3, <2>1, <2>2
  <2> HIDE DEF Adds, Removes, Pins, Unpins, Shows, PinLists
  <2> QED BY <1>1, <1>2, <1>5, <2>1, <2>3, <2>4, <2>5, ReadKept
<1>8. ASSUME h.kind \in {"messages", "pin", "pins"}, UNCHANGED <<marked, markFile>>,
             asked' = asked \/ h \in PinLists, loaded' \subseteq Posts, pinned' \subseteq loaded',
             \A p \in Posts : /\ h \in Pins(p) => p \in pinned' \/ p \notin loaded'
                              /\ h \in Unpins(p) => p \notin pinned'
                              /\ p \in pinned /\ h \notin Unpins(p) => p \in pinned'
                              /\ p \notin pinned /\ h \notin Pins(p) => p \notin pinned'
                              /\ p \notin loaded /\ h \notin Shows(p) => p \notin loaded'
      PROVE  BoardInv'
  <2>1. h.kind \notin {"reaction", "reactions"} BY <1>8
  <2> HIDE DEF Adds, Removes, Pins, Unpins, Shows, PinLists
  <2> QED BY <1>1, <1>2, <1>4, <1>8, <2>1, ReadKept
<1>9. CASE PchatFetchResponse
  <2>1. h.kind = "messages" /\ h.posts \subseteq Posts
    BY <1>1, <1>3, <1>9, MessageFields DEF PchatFetchResponse, Receives
  <2>2. loaded' = loaded \cup h.posts /\ UNCHANGED <<marked, markFile, pinned, asked>>
    BY <1>1, <1>9 DEF PchatFetchResponse, marks
  <2>3. /\ asked' = asked \/ h \in PinLists
        /\ loaded' \subseteq Posts /\ pinned' \subseteq loaded'
        /\ \A p \in Posts : /\ h \in Pins(p) => p \in pinned' \/ p \notin loaded'
                            /\ h \in Unpins(p) => p \notin pinned'
                            /\ p \in pinned /\ h \notin Unpins(p) => p \in pinned'
                            /\ p \notin pinned /\ h \notin Pins(p) => p \notin pinned'
                            /\ p \notin loaded /\ h \notin Shows(p) => p \notin loaded'
    BY <1>0, <1>3, <2>1, <2>2
  <2> HIDE DEF Adds, Removes, Pins, Unpins, Shows, PinLists
  <2> QED BY <1>8, <2>1, <2>2, <2>3
<1>10. CASE PchatPinDeliver
  <2>1. h.kind = "pin" /\ h.post \in Posts /\ h.unpin \in BOOLEAN
    BY <1>1, <1>3, <1>10, MessageFields DEF PchatPinDeliver, Receives
  <2>2. /\ pinned' = (IF ~h.unpin THEN pinned \cup ({h.post} \cap loaded) ELSE pinned \ {h.post})
        /\ UNCHANGED <<marked, markFile, loaded, asked>>
    BY <1>1, <1>10 DEF PchatPinDeliver, apply_pin_to_message, marks
  <2>3. /\ asked' = asked \/ h \in PinLists
        /\ loaded' \subseteq Posts /\ pinned' \subseteq loaded'
        /\ \A p \in Posts : /\ h \in Pins(p) => p \in pinned' \/ p \notin loaded'
                            /\ h \in Unpins(p) => p \notin pinned'
                            /\ p \in pinned /\ h \notin Unpins(p) => p \in pinned'
                            /\ p \notin pinned /\ h \notin Pins(p) => p \notin pinned'
                            /\ p \notin loaded /\ h \notin Shows(p) => p \notin loaded'
    BY <1>0, <1>3, <2>1, <2>2
  <2> HIDE DEF Adds, Removes, Pins, Unpins, Shows, PinLists
  <2> QED BY <1>8, <2>1, <2>2, <2>3
<1>11. CASE PchatPinFetchResponse
  <2>1. h.kind = "pins" /\ h.posts \subseteq Posts
    BY <1>1, <1>3, <1>11, MessageFields DEF PchatPinFetchResponse, Receives
  <2>2. pinned' = pinned \cup (h.posts \cap loaded) /\ UNCHANGED <<marked, markFile, loaded>>
    BY <1>1, <1>11 DEF PchatPinFetchResponse, apply_pin_to_message, marks
  <2>3. /\ asked' = asked \/ h \in PinLists
        /\ loaded' \subseteq Posts /\ pinned' \subseteq loaded'
        /\ \A p \in Posts : /\ h \in Pins(p) => p \in pinned' \/ p \notin loaded'
                            /\ h \in Unpins(p) => p \notin pinned'
                            /\ p \in pinned /\ h \notin Unpins(p) => p \in pinned'
                            /\ p \notin pinned /\ h \notin Pins(p) => p \notin pinned'
                            /\ p \notin loaded /\ h \notin Shows(p) => p \notin loaded'
    BY <1>0, <1>3, <2>1, <2>2
  <2> HIDE DEF Adds, Removes, Pins, Unpins, Shows, PinLists
  <2> QED BY <1>8, <2>1, <2>2, <2>3
<1>12. CASE MemberSeen \/ FancyReadReceiptDeliver
  <2>1. h.kind \in {"member", "receipt"} /\ UNCHANGED <<marked, markFile, loaded, pinned, asked>>
    BY <1>1, <1>12 DEF MemberSeen, FancyReadReceiptDeliver, Receives, marks, pins
  <2> HIDE DEF Adds, Removes, Pins, Unpins, Shows, PinLists
  <2> QED BY <1>1, <1>2, <1>4, <1>5, <2>1, ReadKept
<1> QED BY <1>6, <1>7, <1>9, <1>10, <1>11, <1>12

\* Connecting loads the cache; going away loses what was under way.
LEMMA ConnectionsKept ==
    ASSUME BoardInv, member \in Names \cup {"away"}, Connect \/ Disconnect \/ CrashWriting
    PROVE  BoardInv'
<1>0. BoardTypes /\ MarksSaved /\ MarksFollow BY DEF BoardInv
<1>1. CASE Connect
  <2>1. /\ ~live /\ live' = TRUE /\ asked' = FALSE /\ UNCHANGED <<board, markFile, missed>>
        /\ stream' = (IF member = "away" THEN << >> ELSE <<[kind |-> "member", name |-> member]>>)
        /\ marked' = (IF ~markFile.torn THEN markFile.marks ELSE {})
        /\ loaded' \subseteq Posts /\ pinned' = {}
    BY <1>1 DEF Connect, load_reactions, decrypts, all_chat_messages
  <2>2. marked' = markFile.marks BY <1>0, <2>1 DEF MarksSaved
  <2>3. PICK m : m = [kind |-> "member", name |-> member] OBVIOUS
  <2>4. m \in StreamMessages /\ m.kind = "member" BY <2>3 DEF StreamMessages
  <2>5. PICK s : s = stream' OBVIOUS
  <2>6. s = << >> \/ s = <<m>> BY <2>1, <2>3, <2>5
  <2>7. s \in Seq(StreamMessages)
    <3>1. m \in StreamMessages BY <2>4
    <3>2. CASE s = << >> BY ONLY <3>2
    <3>3. CASE s = <<m>> BY ONLY <3>1, <3>3
    <3> QED BY <2>6, <3>2, <3>3
  <2>8. \A i \in 1..Len(s) : s[i] = m BY <2>6
  <2>9. \A R : m \notin R => Lacks(s, R) BY <2>8 DEF Lacks
  <2>10. \A r : m \notin Adds(r) /\ m \notin Pins(r) BY <2>4 DEF Adds, Pins
  <2>11. m \notin PinLists BY <2>4 DEF PinLists
  <2>12. Unasked' BY <2>1, <2>5, <2>9, <2>11 DEF Unasked
  <2>13. \A r \in Marks : MarkComes(r)' BY <2>12 DEF MarkComes
  <2>14. \A p \in Posts : PinComes(p)' BY <2>12 DEF PinComes
  <2>15. \A r \in Marks : r \notin board.marks => MarkGoes(r)'
    <3>1. markFile.marks \subseteq board.marks \cup missed BY <1>0, <2>1 DEF MarksSaved
    <3> QED BY <2>1, <2>2, <2>5, <2>9, <2>10, <3>1 DEF MarkGoes
  <2>16. \A p \in Posts : PinGoes(p)' BY <2>1, <2>5, <2>9, <2>10 DEF PinGoes
  <2>17. MarksFollow' /\ PinsFollow' BY <2>1, <2>13, <2>14, <2>15, <2>16 DEF MarksFollow, PinsFollow
  <2>18. MarksSaved' BY <1>0, <2>1, <2>2 DEF MarksSaved
  <2>19. BoardTypes' BY <1>0, <2>1, <2>2, <2>5, <2>7 DEF BoardTypes
  <2> QED BY <2>17, <2>18, <2>19 DEF BoardInv
<1>2. CASE Disconnect \/ CrashWriting
  <2>1. /\ live /\ live' = FALSE /\ stream' = << >> /\ UNCHANGED board
        /\ missed' = missed \cup LostRemovals
        /\ loaded' = {} /\ pinned' = {} /\ marked' = {}
    BY <1>2 DEF Disconnect, CrashWriting, Away
  <2>2. markFile' = markFile \/ markFile' = [torn |-> TRUE, marks |-> {}]
    BY <1>2 DEF Disconnect, CrashWriting
  <2>3. ASSUME NEW r \in Marks, r \in marked, r \notin board.marks PROVE r \in missed'
    <3>1. MarkGoes(r) BY <1>0, <2>1, <2>3 DEF MarksFollow
    <3>2. r \in missed \/ EndsWith(stream, Removes(r), Adds(r)) BY <2>3, <3>1 DEF MarkGoes
    <3>3. CASE EndsWith(stream, Removes(r), Adds(r))
      <4>1. PICK i \in 1..Len(stream) : stream[i] \in Removes(r) BY <3>3 DEF EndsWith
      <4>2. DOMAIN stream = 1..Len(stream) BY <1>0 DEF BoardTypes
      <4>3. stream[i].kind = "reaction" /\ stream[i].mark = r /\ ~stream[i].add BY <4>1 DEF Removes
      <4>4. r \in LostRemovals BY <4>1, <4>2, <4>3 DEF LostRemovals
      <4> QED BY <2>1, <4>4
    <3> QED BY <2>1, <3>2, <3>3
  <2>4. markFile.marks = marked /\ markFile.marks \subseteq Marks
    BY <1>0, <2>1 DEF MarksSaved, BoardTypes
  <2>5. MarksSaved' /\ markFile'.marks \subseteq Marks
    <3>1. CASE markFile' = markFile BY <1>0, <2>1, <2>3, <2>4, <3>1 DEF MarksSaved
    <3>2. CASE markFile' = [torn |-> TRUE, marks |-> {}]
      <4>1. markFile'.marks = {} BY <3>2
      <4> QED BY <2>1, <4>1 DEF MarksSaved
    <3> QED BY <2>2, <3>1, <3>2
  <2>6. BoardTypes'
    <3>1. PICK s : s = stream' OBVIOUS
    <3>2. s = << >> BY <2>1, <3>1
    <3>3. s \in Seq(StreamMessages) BY ONLY <3>2
    <3> QED BY <1>0, <2>1, <2>5, <3>1, <3>3 DEF BoardTypes
  <2> QED BY <2>1, <2>5, <2>6 DEF BoardInv, MarksFollow, PinsFollow
<1> QED BY <1>1, <1>2

\* The names of the other member follow what is seen of it.
LEMMA NamesKept ==
    ASSUME NamesInv, [AnnotationNext]_annotationVars, stream' \in Seq(StreamMessages)
    PROVE  NamesInv'
<1> USE DEF NamesInv
<1>0. "hash" \notin Names /\ "torn" \notin Names /\ NoName \notin Names /\ "away" \notin Names
  BY AnnotationNames DEF NoName
<1>1. ASSUME UNCHANGED <<live, listed, nameMap, nameFile, lastWorn, reader>>,
             member' \in Names \cup {"away"}
      PROVE  NamesInv'
  BY <1>1
<1>2. ASSUME NEW r \in Marks, React(r) PROVE NamesInv' BY <1>1, <1>2 DEF React, people
<1>3. ASSUME NEW p \in Posts, Pin(p) PROVE NamesInv' BY <1>1, <1>3 DEF Pin, people
<1>4. CASE AnswerFetch BY <1>1, <1>4 DEF AnswerFetch, people
<1>5. ASSUME NEW name \in Names \cup {"away"}, MemberChanges(name) PROVE NamesInv'
  BY <1>1, <1>5 DEF MemberChanges
<1>6. ASSUME NEW name \in Names \cup {"hash"}, Receipt(name) PROVE NamesInv'
  BY <1>1, <1>6 DEF Receipt, people
<1>7. CASE \/ PchatReactionDeliver \/ PchatReactionFetchResponse \/ PchatFetchResponse
           \/ PchatPinDeliver \/ PchatPinFetchResponse
  BY <1>1, <1>7 DEF PchatReactionDeliver, PchatReactionFetchResponse, PchatFetchResponse,
                    PchatPinDeliver, PchatPinFetchResponse, people
<1>8. ASSUME stream # << >>
      PROVE  /\ Head(stream).kind = "member" => Head(stream).name \in Names \cup {"away"}
             /\ Head(stream).kind = "receipt" => Head(stream).name \in Names \cup {"hash"}
  <2>1. Head(stream) \in StreamMessages BY <1>8
  <2> QED BY <2>1, MessageFields
<1>9. CASE MemberSeen
  <2>1. PICK name \in Names \cup {"away"} : name = Head(stream).name
    BY <1>8, <1>9 DEF MemberSeen, Receives
  <2>2. live /\ live' = live /\ listed' = name /\ UNCHANGED <<member, reader>>
    BY <1>9, <2>1 DEF MemberSeen, Receives
  <2>3. CASE name = "away"
    <3>1. UNCHANGED <<nameMap, nameFile, lastWorn>> BY <1>9, <2>1, <2>3 DEF MemberSeen
    <3> QED BY <2>1, <2>2, <3>1
  <2>4. CASE name # "away"
    <3>1. lastWorn' = name /\ nameMap' = name /\ (nameFile' = name \/ (nameMap = name /\ nameFile' = nameFile))
      BY <1>9, <2>1, <2>4 DEF MemberSeen, record, save_to_file
    <3>2. name \in Names BY <2>1, <2>4
    <3>3. nameFile' = name BY <1>0, <2>2, <3>1, <3>2
    <3> QED BY <2>1, <2>2, <3>1, <3>2, <3>3
  <2> QED BY <2>3, <2>4
<1>10. CASE FancyReadReceiptDeliver
  <2>1. PICK name \in Names \cup {"hash"} : name = Head(stream).name
    BY <1>8, <1>10 DEF FancyReadReceiptDeliver, Receives
  <2>2. live /\ UNCHANGED <<live, member, listed, nameMap, nameFile, lastWorn>>
    BY <1>10 DEF FancyReadReceiptDeliver, Receives
  <2>3. reader'.name = IF listed # "away" THEN listed ELSE resolve_entry_name(name)
    BY <1>10, <2>1 DEF FancyReadReceiptDeliver
  <2>4. resolve_entry_name(name) # "hash"
    BY <1>0, <2>1, <2>2 DEF resolve_entry_name, resolve, generate_fallback_name, NoName
  <2>5. reader'.name # "hash" BY <1>0, <2>3, <2>4
  <2> QED BY <2>2, <2>5
<1>11. CASE Connect
  <2>1. nameMap' = (IF nameFile = "torn" THEN NoName ELSE nameFile)
        /\ UNCHANGED <<member, listed, nameFile, lastWorn, reader>>
    BY <1>11 DEF Connect, load_from_file
  <2>2. nameMap' = lastWorn BY <1>0, <2>1 DEF NoName
  <2> QED BY <2>1, <2>2
<1>12. CASE Disconnect \/ CrashWriting
  <2>1. /\ live' = FALSE /\ listed' = "away" /\ reader' = [name |-> NoName, here |-> TRUE]
        /\ UNCHANGED member
        /\ UNCHANGED <<nameFile, lastWorn>> \/ (nameFile' = "torn" /\ lastWorn' = NoName)
    BY <1>12 DEF Disconnect, CrashWriting, Away
  <2>2. reader'.name # "hash" BY <2>1 DEF NoName
  <2> QED BY <2>1, <2>2
<1>13. CASE UNCHANGED annotationVars BY <1>1, <1>13 DEF annotationVars
<1> QED BY <1>2, <1>3, <1>4, <1>5, <1>6, <1>7, <1>9, <1>10, <1>11, <1>12, <1>13 DEF AnnotationNext

\* Both hold at first ...
LEMMA AnnotationStart == AnnotationInit => BoardInv /\ NamesInv
<1> SUFFICES ASSUME AnnotationInit PROVE BoardInv /\ NamesInv OBVIOUS
<1> USE DEF AnnotationInit
<1>1. board.marks = {} /\ board.pins = {} /\ markFile.marks = {} /\ reader.name = NoName OBVIOUS
<1>2. board = [marks |-> board.marks, pins |-> board.pins] BY <1>1
<1>3. stream \in Seq(StreamMessages) OBVIOUS
<1>4. BoardTypes BY <1>1, <1>2, <1>3 DEF BoardTypes
<1>5. MarksFollow /\ PinsFollow /\ MarksSaved BY <1>1 DEF MarksFollow, PinsFollow, MarksSaved
<1>6. NamesInv BY <1>1, <1>3 DEF NamesInv, NoName
<1> QED BY <1>4, <1>5, <1>6 DEF BoardInv

\* ... and every step keeps them.
LEMMA AnnotationKept ==
    BoardInv /\ NamesInv /\ [AnnotationNext]_annotationVars => (BoardInv /\ NamesInv)'
<1> SUFFICES ASSUME BoardInv, NamesInv, [AnnotationNext]_annotationVars PROVE (BoardInv /\ NamesInv)'
  OBVIOUS
<1>1. member \in Names \cup {"away"} BY DEF NamesInv
<1>2. ASSUME UNCHANGED annotationVars PROVE BoardInv'
  <2>1. UNCHANGED <<board, stream, live, asked, marked, markFile, loaded, pinned, missed>>
    BY <1>2 DEF annotationVars, marks, pins
  <2>2. BoardTypes' /\ MarksSaved' BY <2>1 DEF BoardInv, BoardTypes, MarksSaved
  <2>3. Unasked' <=> Unasked BY <2>1 DEF Unasked, Lacks
  <2>4. \A r \in Marks : (MarkComes(r)' <=> MarkComes(r)) /\ (MarkGoes(r)' <=> MarkGoes(r))
    BY <2>1, <2>3 DEF MarkComes, MarkGoes
  <2>5. \A p \in Posts : (PinComes(p)' <=> PinComes(p)) /\ (PinGoes(p)' <=> PinGoes(p))
    BY <2>1, <2>3 DEF PinComes, PinGoes
  <2>6. MarksFollow' /\ PinsFollow' BY <2>1, <2>4, <2>5 DEF BoardInv, MarksFollow, PinsFollow
  <2> QED BY <2>2, <2>6 DEF BoardInv
<1>3. ASSUME AnnotationNext PROVE BoardInv'
  <2>1. CASE \/ \E r \in Marks : React(r)
             \/ \E p \in Posts : Pin(p)
             \/ \E name \in Names \cup {"away"} : MemberChanges(name)
             \/ \E name \in Names \cup {"hash"} : Receipt(name)
    BY <2>1, ChangesKept
  <2>2. CASE AnswerFetch BY <2>2, FetchKept
  <2>3. CASE \/ PchatReactionDeliver \/ PchatReactionFetchResponse \/ PchatFetchResponse
             \/ PchatPinDeliver \/ PchatPinFetchResponse \/ MemberSeen \/ FancyReadReceiptDeliver
    BY <2>3, HandlersKept
  <2>4. CASE Connect \/ Disconnect \/ CrashWriting BY <1>1, <2>4, ConnectionsKept
  <2> QED BY <1>3, <2>1, <2>2, <2>3, <2>4 DEF AnnotationNext
<1>4. BoardInv' BY <1>2, <1>3
<1>5. stream' \in Seq(StreamMessages) BY <1>4 DEF BoardInv, BoardTypes
<1> QED BY <1>4, <1>5, NamesKept

\* The reactions and pins shown follow the server's over racing fetches, lost
\* connections and torn files, for any reactions, messages and number of
\* changes (PchatReactionDeliver, PchatPinDeliver and the answers of a fetch).
THEOREM AnnotationsCorrect == AnnotationSpec => []AnnotationsFollow
<1>1. BoardInv => AnnotationsFollow
  <2> SUFFICES ASSUME BoardInv, live, asked, stream = << >>
               PROVE  /\ board.marks \subseteq marked
                      /\ marked \ board.marks \subseteq missed
                      /\ pinned = board.pins \cap loaded
    BY DEF AnnotationsFollow
  <2>0. BoardTypes /\ MarksFollow /\ PinsFollow /\ ~Unasked BY DEF BoardInv, Unasked
  <2>1. \A r \in Marks : r \in board.marks => r \in marked
    BY <2>0, NoWord DEF MarksFollow, MarkComes
  <2>2. \A r \in Marks : r \notin board.marks /\ r \in marked => r \in missed
    BY <2>0, NoWord DEF MarksFollow, MarkGoes
  <2>3. \A p \in Posts : p \in board.pins => p \in pinned \/ p \notin loaded
    BY <2>0, NoWord DEF PinsFollow, PinComes
  <2>4. \A p \in Posts : p \notin board.pins => p \notin pinned
    BY <2>0, NoWord DEF PinsFollow, PinGoes
  <2> QED BY <2>0, <2>1, <2>2, <2>3, <2>4 DEF BoardTypes
<1> QED BY <1>1, AnnotationStart, AnnotationKept, PTL DEF AnnotationSpec

\* A reader who is not here is shown under the name last seen, over lost
\* connections and torn files, and never as a hash (hash_names.rs).
THEOREM ReaderNamedCorrect == AnnotationSpec => ReaderNamed
<1>1. NamesInv /\ NamesInv' /\ [AnnotationNext]_annotationVars =>
        [/\ reader'.name # "hash"
         /\ reader' # reader /\ ~reader'.here =>
                reader'.name = IF lastWorn = NoName THEN "fallback" ELSE lastWorn]_annotationVars
  <2> SUFFICES ASSUME NamesInv, NamesInv', AnnotationNext, reader' # reader, ~reader'.here
               PROVE  reader'.name = IF lastWorn = NoName THEN "fallback" ELSE lastWorn
    BY DEF NamesInv
  <2>1. CASE FancyReadReceiptDeliver
    <3>1. live /\ reader' = [name |-> IF listed # "away" THEN listed
                                      ELSE resolve_entry_name(Head(stream).name),
                             here |-> listed # "away" \/ Head(stream).name # "hash"]
      BY <2>1 DEF FancyReadReceiptDeliver, Receives
    <3>2. listed = "away" /\ Head(stream).name = "hash" BY <3>1
    <3>3. reader'.name = resolve BY <3>1, <3>2 DEF resolve_entry_name
    <3>4. nameMap = lastWorn BY <3>1 DEF NamesInv
    <3> QED BY <3>3, <3>4 DEF resolve, generate_fallback_name
  <2>2. CASE Disconnect \/ CrashWriting
    <3>1. reader' = [name |-> NoName, here |-> TRUE] BY <2>2 DEF Disconnect, CrashWriting, Away
    <3>2. reader'.here = TRUE BY <3>1
    <3> QED BY <3>2
  <2>3. UNCHANGED reader \/ FancyReadReceiptDeliver \/ Disconnect \/ CrashWriting
    BY DEF AnnotationNext, React, Pin, AnswerFetch, MemberChanges, Receipt, PchatReactionDeliver,
           PchatReactionFetchResponse, PchatFetchResponse, PchatPinDeliver, PchatPinFetchResponse,
           MemberSeen, Connect, people
  <2> QED BY <2>1, <2>2, <2>3
<1>2. BoardInv /\ NamesInv /\ [AnnotationNext]_annotationVars => (BoardInv /\ NamesInv)'
  BY AnnotationKept
<1> QED BY <1>1, <1>2, AnnotationStart, PTL DEF AnnotationSpec, ReaderNamed
=============================================================================
