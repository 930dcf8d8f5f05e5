----------------------------- MODULE MCRemoteApi -----------------------------
(* Small instances of RemoteApi for TLC. *)
EXTENDS RemoteApi, TLC
=============================================================================
