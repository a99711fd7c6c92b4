-------------------------- MODULE MCHeartbeatLink --------------------------
(***************************************************************************)
(* Instances of HeartbeatLink.                                             *)
(***************************************************************************)
EXTENDS HeartbeatLink
=============================================================================
