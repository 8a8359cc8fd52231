----------------------------- MODULE MCSessions -----------------------------
(***************************************************************************)
(* Instances of Sessions for TLC: calls of connect() to one server.        *)
(***************************************************************************)
EXTENDS Sessions

MCServer == "alice@mumble.example:64738"
MCOne == <<MCServer>>
MCTwo == <<MCServer, MCServer>>
=============================================================================
