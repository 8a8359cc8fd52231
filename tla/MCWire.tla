------------------------------- MODULE MCWire -------------------------------
(***************************************************************************)
(* The wire side of the client for TLC: the byte stream, the connection    *)
(* seen by the event loop, the requests of the interface (the calls and    *)
(* the deletions, which share only the tabs), the file transfers and the   *)
(* message providers.  They share no variable, so a behaviour runs one of  *)
(* them while the others rest.                                             *)
(***************************************************************************)
EXTENDS Relay, Framing, Requests, Transfers, Providers

VARIABLE part

wireVars == <<relayVars, framingVars, requestVars, transferVars, providerVars, part>>

\* Frame numbers and sessions at the edges of the forms of the varint, an
\* empty payload, the last known type, an unknown one, and a tunnelled payload
\* that is not audio.
Talk(frame, end) == [target |-> 31, frame |-> frame, end |-> end, opus |-> <<7, 0>>]
StreamMessages ==
    {Control(9, << >>), Control(135, <<0, 1>>), Control(27, <<1>>), Oversized, Control(1, <<32>>),
     Tunnelled(5, Talk(127, FALSE)), Tunnelled(16383, Talk(128, TRUE)),
     Tunnelled(16384, Talk(268435455, TRUE)), Tunnelled(2097152, Talk(268435456, FALSE))}

\* The parts that rest have one initial state.
Init ==
    /\ part \in {"relay", "framing", "calls", "deletions", "uploads", "downloads", "pages"}
    /\ RelayInit /\ FramingInit /\ RequestsInit /\ TransfersInit /\ ProvidersInit
    /\ part # "framing" => planned = << >>
    /\ part # "relay" => srv.version = 0 /\ srv.users = << >>
    /\ part \notin {"calls", "deletions"} => shown = CHOOSE t \in Tabs : TRUE
    /\ part # "downloads" => protected = [d \in Downloads |-> TRUE]

Next ==
    \/ /\ part = "relay" /\ RelayNext
       /\ UNCHANGED <<framingVars, requestVars, transferVars, providerVars, part>>
    \/ /\ part = "framing" /\ FramingNext
       /\ UNCHANGED <<relayVars, requestVars, transferVars, providerVars, part>>
    \/ /\ \/ part = "calls" /\ (CallNext \/ TabNext)
          \/ part = "deletions" /\ (DeleteNext \/ TabNext)
       /\ UNCHANGED <<relayVars, framingVars, transferVars, providerVars, part>>
    \/ /\ \/ part = "uploads" /\ UploadNext
          \/ part = "downloads" /\ DownloadNext
       /\ UNCHANGED <<relayVars, framingVars, requestVars, providerVars, part>>
    \/ /\ part = "pages" /\ ProvidersNext
       /\ UNCHANGED <<relayVars, framingVars, requestVars, transferVars, part>>

Spec == Init /\ [][Next]_wireVars
=============================================================================
