---------------------------- MODULE MCClientLoop ----------------------------
(***************************************************************************)
(* Instances of ClientLoop for TLC.                                        *)
(***************************************************************************)
EXTENDS ClientLoop

MCCommandLists == {<<"message">>, <<"message", "disconnect">>}
=============================================================================
