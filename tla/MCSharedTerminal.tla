-------------------------- MODULE MCSharedTerminal --------------------------
(* Small instances of SharedTerminal for TLC. *)
EXTENDS SharedTerminal, TLC

=============================================================================
