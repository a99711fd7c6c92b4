---------------------------- MODULE MCCursorLink ----------------------------
(***************************************************************************)
(* Instances of CursorLink.                                                *)
(***************************************************************************)
EXTENDS CursorLink

SessionFlows == 1 .. MaxSessions
=============================================================================
