----------------------------- MODULE MCChatLoop -----------------------------
(* Small instances of ChatLoop for TLC. *)
EXTENDS ChatLoop, TLC

=============================================================================
