---------------------------- MODULE MCArchiveKeys ----------------------------
(* Two channels, whose keys share the file. *)
EXTENDS ArchiveKeys, TLC
CONSTANTS c1, c2, t1, t2
MCChans == {c1, c2}
MCTasks == {t1, t2}
=============================================================================
