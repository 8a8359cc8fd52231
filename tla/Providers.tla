------------------------------ MODULE Providers ------------------------------
(***************************************************************************)
(* The message providers of the persistent chat library: volatile storage, *)
(* a persistent backend in memory, and the composite that picks one by the *)
(* mode of the channel.  A view pages backwards through a channel from its *)
(* newest messages, anchored at the oldest one it shows, and catches up    *)
(* from the newest, while messages arrive, re-sent messages replace their  *)
(* originals and the mode of the channel changes.  has_more is a flag that *)
(* the providers only pass on; it is left out.                             *)
(*                                                                         *)
(* A message is its id and its place among the messages of its store: a    *)
(* replacement has an id of its own and takes the place of the original.   *)
(***************************************************************************)
EXTENDS Naturals, Sequences, SequencesExt

CONSTANTS Chats,        \* channel ids
          MaxStored,    \* bound: messages ever stored or replaced
          MaxPage       \* largest page

VARIABLES
    volatile,       \* VolatileMessageProvider::messages
    cache,          \* InMemoryPersistentBackend::cache
    modes,          \* InMemoryPersistentBackend::modes
    view,           \* what the reader shows of one channel
    ids             \* message ids given out

providerVars == <<volatile, cache, modes, view, ids>>

NoView == [chat |-> CHOOSE c \in Chats : TRUE, store |-> "none", shown |-> << >>]

ProvidersInit ==
    /\ volatile = [c \in Chats |-> << >>] /\ cache = [c \in Chats |-> << >>]
    /\ modes = [c \in Chats |-> "None"]
    /\ view = NoView /\ ids = 0

\* CompositeMessageProvider::effective_mode, and the store it selects.
effective_mode(c) == modes[c]
Store(c) == IF effective_mode(c) = "FancyV1FullArchive" THEN "persistent" ELSE "volatile"
Messages(c) == IF Store(c) = "persistent" THEN cache[c] ELSE volatile[c]

set_mode(c, mode) ==
    /\ modes' = [modes EXCEPT ![c] = mode]
    /\ UNCHANGED <<volatile, cache, view, ids>>

\* A message goes to the end of the store of its channel.
store_message(c) ==
    LET message == [id |-> ids + 1, place |-> Len(Messages(c)) + 1]
    IN  /\ ids < MaxStored /\ ids' = ids + 1
        /\ IF Store(c) = "persistent"
           THEN cache' = [cache EXCEPT ![c] = Append(@, message)] /\ UNCHANGED volatile
           ELSE volatile' = [volatile EXCEPT ![c] = Append(@, message)] /\ UNCHANGED cache
        /\ UNCHANGED <<modes, view>>

\* The position of a message, 0 if it is not there.
PositionOf(messages, id) ==
    LET at == {i \in 1..Len(messages) : messages[i].id = id}
    IN  IF at = {} THEN 0 ELSE CHOOSE i \in at : TRUE
Holds(messages, id) == PositionOf(messages, id) > 0
Replaced(messages, id, new) ==
    [messages EXCEPT ![PositionOf(messages, id)] = [id |-> new, place |-> @.place]]

\* A re-sent message replaces its original of the same sender: the volatile
\* store is searched first, then the persistent one, whatever the mode.
replace_message(c, id) ==
    /\ ids < MaxStored /\ ids' = ids + 1
    /\ \/ /\ Holds(volatile[c], id)
          /\ volatile' = [volatile EXCEPT ![c] = Replaced(@, id, ids + 1)] /\ UNCHANGED cache
       \/ /\ ~Holds(volatile[c], id) /\ Holds(cache[c], id)
          /\ cache' = [cache EXCEPT ![c] = Replaced(@, id, ids + 1)] /\ UNCHANGED volatile
       \/ /\ ~Holds(volatile[c], id) /\ ~Holds(cache[c], id)
          /\ UNCHANGED <<volatile, cache>>
    /\ UNCHANGED <<modes, view>>

\* clear_channel of the volatile store; a view of it starts over.
clear_channel(c) ==
    /\ volatile[c] # << >>
    /\ volatile' = [volatile EXCEPT ![c] = << >>]
    /\ view' = IF view.chat = c /\ view.store = "volatile" THEN NoView ELSE view
    /\ UNCHANGED <<cache, modes, ids>>

clear_all ==
    /\ volatile' = [c \in Chats |-> << >>]
    /\ view' = IF view.store = "volatile" THEN NoView ELSE view
    /\ UNCHANGED <<cache, modes, ids>>

\* A mistake for BeforeEnd: the page before a message ends with it.
BeforeEndInclusive(at) == at

\* The last position of the page before position `at`.
BeforeEnd(at) == at - 1

\* A page of a chronological sequence; an unknown anchor gives nothing.
apply_range(messages, range) ==
    LET at == PositionOf(messages, range.id)
        from(p) == IF p > range.limit THEN p - range.limit ELSE 1
        upto(p) == IF p < Len(messages) THEN p ELSE Len(messages)
    IN  IF range.kind = "Latest" THEN SubSeq(messages, from(Len(messages) + 1), Len(messages))
        ELSE IF at = 0 THEN << >>
        ELSE IF range.kind = "Before" THEN SubSeq(messages, from(at), BeforeEnd(at))
        ELSE SubSeq(messages, at + 1, upto(at + range.limit))

get_messages(c, range) == apply_range(Messages(c), range)

\* The reader opens a channel, pages back and catches up.
OpenView(c, limit) ==
    /\ view' = [chat |-> c, store |-> Store(c),
                shown |-> get_messages(c, [kind |-> "Latest", id |-> 0, limit |-> limit])]
    /\ UNCHANGED <<volatile, cache, modes, ids>>

PageBack(limit) ==
    /\ view.shown # << >>
    /\ view' = [view EXCEPT !.shown = get_messages(view.chat,
                    [kind |-> "Before", id |-> Head(view.shown).id, limit |-> limit]) \o @]
    /\ UNCHANGED <<volatile, cache, modes, ids>>

CatchUp(limit) ==
    /\ view.shown # << >>
    /\ view' = [view EXCEPT !.shown = @ \o get_messages(view.chat,
                    [kind |-> "After", id |-> Last(view.shown).id, limit |-> limit])]
    /\ UNCHANGED <<volatile, cache, modes, ids>>

ProvidersNext ==
    \/ \E c \in Chats :
          \/ \E mode \in {"None", "SignalV1", "FancyV1FullArchive"} : set_mode(c, mode)
          \/ store_message(c) \/ clear_channel(c)
          \/ \E id \in 1..ids : replace_message(c, id)
          \/ \E limit \in 1..MaxPage : OpenView(c, limit)
    \/ clear_all
    \/ \E limit \in 1..MaxPage : PageBack(limit) \/ CatchUp(limit)

ProvidersSpec == ProvidersInit /\ [][ProvidersNext]_providerVars

----------------------------------------------------------------------------
\* Paging shows one unbroken stretch of the channel, nothing twice and nothing
\* left out, whatever arrives, is replaced or changes mode between two pages.
PagesUnbroken ==
    \A i \in 2..Len(view.shown) : view.shown[i].place = view.shown[i - 1].place + 1
=============================================================================
