---------------------------- MODULE Annotations -----------------------------
(***************************************************************************)
(* What members attach to the messages of a channel: reactions, which the  *)
(* client also keeps in its encrypted cache across connections, pins, and   *)
(* read receipts, whose readers are named from the member list, the server  *)
(* or the file of names seen before.  The server answers a fetch with the   *)
(* messages, then all reactions, then all pins; changes follow in order.    *)
(* The client may be away, and the process may die while it writes a file.  *)
(***************************************************************************)
EXTENDS Naturals, Sequences, FiniteSets

CONSTANTS
    Marks,          \* reactions: (message, emoji, sender hash)
    Posts,          \* messages of the channel
    Names,          \* names the other member may wear
    MaxChanges,     \* bound: changes other members make
    MaxStream       \* bound: messages of the server under way

ASSUME AnnotationBounds == MaxChanges \in Nat /\ MaxStream \in Nat
\* These stand for what is not the name of a member.
ASSUME AnnotationNames == {"hash", "fallback", "away", "torn", "unknown"} \cap Names = {}

VARIABLES
    board,          \* server: reactions and pinned messages
    stream,         \* server messages on their way, oldest first
    live,           \* we are connected
    asked,          \* a fetch has been answered on this connection
    marked,         \* LocalMessageCache::reactions
    markFile,       \* REACTION_CACHE_FILE: its contents, and whether it is torn
    loaded,         \* msgs.by_channel: the messages shown
    pinned,         \*   those of them shown as pinned
    member,         \* server: the other member's name while present, or "away"
    listed,         \* users: that member as the client has it
    nameMap,        \* DefaultHashNameResolver::mappings of its hash
    nameFile,       \* hash_names.json
    lastWorn,       \* the name we last saw it wear (history)
    reader,         \* the name the last receipt showed for it, and whether it was here
    missed,         \* reactions removed while we were away (history)
    changesLeft     \* bound

annotationVars == <<board, stream, live, asked, marked, markFile, loaded, pinned, member, listed,
                    nameMap, nameFile, lastWorn, reader, missed, changesLeft>>

people == <<member, listed, nameMap, nameFile, lastWorn, reader>>
marks == <<marked, markFile>>
pins == <<loaded, pinned>>
NoName == "unknown"

AnnotationTypeOK ==
    /\ board \in [marks : SUBSET Marks, pins : SUBSET Posts]
    /\ live \in BOOLEAN /\ asked \in BOOLEAN
    /\ marked \subseteq Marks /\ markFile \in [torn : BOOLEAN, marks : SUBSET Marks]
    /\ loaded \subseteq Posts /\ pinned \subseteq loaded
    /\ {member, listed} \subseteq Names \cup {"away"} /\ nameMap \in Names \cup {NoName}
    /\ missed \subseteq Marks

AnnotationInit ==
    /\ board = [marks |-> {}, pins |-> {}]
    /\ stream = << >> /\ live = FALSE /\ asked = FALSE
    /\ marked = {} /\ markFile = [torn |-> FALSE, marks |-> {}]
    /\ loaded = {} /\ pinned = {}
    /\ member = "away" /\ listed = "away" /\ nameMap = NoName /\ nameFile = NoName /\ lastWorn = NoName
    /\ reader = [name |-> NoName, here |-> TRUE]
    /\ missed = {} /\ changesLeft = MaxChanges

-----------------------------------------------------------------------------
(* Other members and the server (external)                                  *)

Tell(m) == stream' = IF live THEN Append(stream, m) ELSE stream

AnyChange == changesLeft > 0 /\ Len(stream) < MaxStream /\ changesLeft' = changesLeft - 1

React(r) ==
    /\ AnyChange
    /\ \/ /\ r \notin board.marks
          /\ board' = [board EXCEPT !.marks = @ \cup {r}]
          /\ Tell([kind |-> "reaction", mark |-> r, add |-> TRUE])
          /\ UNCHANGED missed
       \/ /\ r \in board.marks
          /\ board' = [board EXCEPT !.marks = @ \ {r}]
          /\ Tell([kind |-> "reaction", mark |-> r, add |-> FALSE])
          /\ missed' = IF live THEN missed ELSE missed \cup {r}
    /\ UNCHANGED <<live, asked, marks, pins, people>>

Pin(p) ==
    /\ AnyChange
    /\ board' = [board EXCEPT !.pins = IF p \in @ THEN @ \ {p} ELSE @ \cup {p}]
    /\ Tell([kind |-> "pin", post |-> p, unpin |-> p \in board.pins])
    /\ UNCHANGED <<live, asked, marks, pins, people, missed>>

\* The answer to a fetch: three messages, one after the other.
AnswerFetch ==
    /\ live /\ AnyChange
    /\ \E some \in SUBSET Posts :
           stream' = stream \o <<[kind |-> "messages", posts |-> some],
                                 [kind |-> "reactions", marks |-> board.marks],
                                 [kind |-> "pins", posts |-> board.pins]>>
    /\ UNCHANGED <<board, live, asked, marks, pins, people, missed>>

\* The other member comes, takes another name, or leaves.
MemberChanges(name) ==
    /\ AnyChange /\ name # member
    /\ member' = name
    /\ Tell([kind |-> "member", name |-> name])
    /\ UNCHANGED <<board, live, asked, marks, pins, listed, nameMap, nameFile, lastWorn, reader, missed>>

\* A receipt of the other member; the server may know its name or only the hash.
Receipt(name) ==
    /\ AnyChange
    /\ live /\ Tell([kind |-> "receipt", name |-> name])
    /\ UNCHANGED <<board, live, asked, marks, pins, people, missed>>

-----------------------------------------------------------------------------
(* Handlers of the client                                                   *)

Receives(kind) == live /\ stream # << >> /\ Head(stream).kind = kind /\ stream' = Tail(stream)

\* Mutant: a removal only takes effect when the cache is loaded again.
KeepsRemoved(m) == marked' = IF m.add THEN marked \cup {m.mark} ELSE marked

\* A reaction is kept once.
insert_reaction(r) == marked \cup {r}
remove_reaction(r) == marked \ {r}

upsert_cached_reaction(m) ==
    marked' = IF m.add THEN insert_reaction(m.mark) ELSE remove_reaction(m.mark)

\* The file is sealed as a whole: one that was cut short cannot be opened.
encrypt(some) == [torn |-> FALSE, marks |-> some]
decrypts(file) == ~file.torn

save_reactions == markFile' = encrypt(marked')

PchatReactionDeliver ==
    /\ Receives("reaction")
    /\ upsert_cached_reaction(Head(stream))
    /\ save_reactions
    /\ UNCHANGED <<board, live, asked, pins, people, missed, changesLeft>>

bulk_insert_cached_reactions(some) == marked' = marked \cup some

PchatReactionFetchResponse ==
    /\ Receives("reactions")
    /\ bulk_insert_cached_reactions(Head(stream).marks)
    /\ save_reactions
    /\ UNCHANGED <<board, live, asked, pins, people, missed, changesLeft>>

\* The messages of a fetch; ones already shown keep their marks.
PchatFetchResponse ==
    /\ Receives("messages")
    /\ loaded' = loaded \cup Head(stream).posts
    /\ UNCHANGED <<board, live, asked, marks, pinned, people, missed, changesLeft>>

\* A message that is not shown is not marked.
apply_pin_to_message(posts, on) ==
    pinned' = IF on THEN pinned \cup (posts \cap loaded) ELSE pinned \ posts

PchatPinDeliver ==
    /\ Receives("pin")
    /\ apply_pin_to_message({Head(stream).post}, ~Head(stream).unpin)
    /\ UNCHANGED <<board, live, asked, marks, loaded, people, missed, changesLeft>>

PchatPinFetchResponse ==
    /\ Receives("pins")
    /\ apply_pin_to_message(Head(stream).posts, TRUE)
    /\ asked' = TRUE
    /\ UNCHANGED <<board, live, marks, loaded, people, missed, changesLeft>>

\* Mutant: the first name a hash was seen with stays.
RecordFirst(name) ==
    /\ nameMap' = IF nameMap = NoName THEN name ELSE nameMap
    /\ nameFile' = nameMap'

\* A new name replaces the old one and the file is written; the same name
\* changes nothing.
save_to_file(name) == nameFile' = name
record(name) ==
    nameMap' = name /\ IF nameMap = name THEN UNCHANGED nameFile ELSE save_to_file(name)

\* UserState with a hash and a name (maybe_record_name), or UserRemove.
MemberSeen ==
    /\ Receives("member")
    /\ LET name == Head(stream).name
       IN  IF name = "away" THEN UNCHANGED <<nameMap, nameFile, lastWorn>>
           ELSE record(name) /\ lastWorn' = name
    /\ listed' = Head(stream).name
    /\ UNCHANGED <<board, live, asked, marks, pins, member, reader, missed, changesLeft>>

\* An adjective and an animal chosen by the hash.
generate_fallback_name == "fallback"

resolve == IF nameMap = NoName THEN generate_fallback_name ELSE nameMap

resolve_entry_name(name) == IF name # "hash" THEN name ELSE resolve

\* The reader is named from the member list, else from the server's entry.
FancyReadReceiptDeliver ==
    /\ Receives("receipt")
    /\ reader' = [name |-> IF listed # "away" THEN listed ELSE resolve_entry_name(Head(stream).name),
                  here |-> listed # "away" \/ Head(stream).name # "hash"]
    /\ UNCHANGED <<board, live, asked, marks, pins, member, listed, nameMap, nameFile, lastWorn, missed, changesLeft>>

-----------------------------------------------------------------------------
(* Connecting and going away                                                *)

\* LocalMessageCache::load_reactions: a file that cannot be decrypted leaves
\* the cache empty.
load_reactions == marked' = IF decrypts(markFile) THEN markFile.marks ELSE {}

load_from_file == nameMap' = IF nameFile = "torn" THEN NoName ELSE nameFile

\* Messages from the cache are shown as not pinned.
all_chat_messages == loaded' \in SUBSET Posts /\ pinned' = {}

\* ServerSync with a fresh session: the caches are loaded; the messages
\* in the cache (any of them) are shown.
Connect ==
    /\ ~live /\ live' = TRUE /\ asked' = FALSE
    /\ stream' = IF member = "away" THEN << >> ELSE <<[kind |-> "member", name |-> member]>>
    /\ load_reactions /\ load_from_file
    /\ all_chat_messages
    /\ UNCHANGED <<board, markFile, member, listed, nameFile, lastWorn, reader, missed, changesLeft>>

\* What was on its way is lost with the connection.
LostRemovals == {r \in Marks : \E i \in DOMAIN stream :
                     stream[i].kind = "reaction" /\ stream[i].mark = r /\ ~stream[i].add}

Away ==
    /\ live' = FALSE /\ stream' = << >> /\ asked' = FALSE
    /\ missed' = missed \cup LostRemovals
    /\ loaded' = {} /\ pinned' = {} /\ marked' = {}
    /\ nameMap' = NoName /\ listed' = "away" /\ reader' = [name |-> NoName, here |-> TRUE]
    /\ UNCHANGED <<board, member, changesLeft>>

Disconnect == live /\ Away /\ UNCHANGED <<markFile, nameFile, lastWorn>>

\* fs::write empties the file before it writes: the process dies in between.
CrashWriting ==
    /\ live /\ stream # << >> /\ Away
    /\ \/ Head(stream).kind \in {"reaction", "reactions"} /\ markFile' = [torn |-> TRUE, marks |-> {}]
          /\ UNCHANGED <<nameFile, lastWorn>>
       \/ Head(stream).kind = "member" /\ Head(stream).name \notin {"away", nameMap}
          /\ nameFile' = "torn" /\ lastWorn' = NoName /\ UNCHANGED markFile

AnnotationNext ==
    \/ \E r \in Marks : React(r)
    \/ \E p \in Posts : Pin(p)
    \/ AnswerFetch
    \/ \E name \in Names \cup {"away"} : MemberChanges(name)
    \/ \E name \in Names \cup {"hash"} : Receipt(name)
    \/ PchatReactionDeliver \/ PchatReactionFetchResponse \/ PchatFetchResponse
    \/ PchatPinDeliver \/ PchatPinFetchResponse \/ MemberSeen \/ FancyReadReceiptDeliver
    \/ Connect \/ Disconnect \/ CrashWriting

AnnotationSpec == AnnotationInit /\ [][AnnotationNext]_annotationVars
-----------------------------------------------------------------------------
\* Once a fetch has been answered and nothing is under way, the cache holds
\* every reaction the server has and, beyond them, only some that were removed
\* while we were away; and exactly the pinned ones of the messages shown are
\* shown as pinned.  Changes racing the answer of the fetch, lost connections
\* and files torn by a crash are all repaired by the next fetch.
AnnotationsFollow ==
    live /\ asked /\ stream = << >> =>
        /\ board.marks \subseteq marked
        /\ marked \ board.marks \subseteq missed
        /\ pinned = board.pins \cap loaded

\* A reader who is not here and whom the server names by the hash alone is
\* shown under the name we last saw it wear, across connections; a hash is
\* never shown.
ReaderNamed ==
    [][/\ reader'.name # "hash"
       /\ reader' # reader /\ ~reader'.here =>
              reader'.name = IF lastWorn = NoName THEN "fallback" ELSE lastWorn]_annotationVars
=============================================================================
