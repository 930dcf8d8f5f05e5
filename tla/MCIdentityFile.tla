--------------------------- MODULE MCIdentityFile ---------------------------
(* Small instances of IdentityFile for TLC. *)
EXTENDS IdentityFile, TLC

=============================================================================
