--------------------------- MODULE MCLoopbackProxy ---------------------------
(* Small instances of LoopbackProxy for TLC. *)
EXTENDS LoopbackProxy, TLC
=============================================================================
