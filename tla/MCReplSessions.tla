--------------------------- MODULE MCReplSessions ---------------------------
(* Small instances of ReplSessions for TLC. *)
EXTENDS ReplSessions, TLC
=============================================================================
