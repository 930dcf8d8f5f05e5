-------------------------- MODULE MCCapabilityLink --------------------------
(* Small instances of CapabilityLink for TLC. *)
EXTENDS CapabilityLink
=============================================================================
