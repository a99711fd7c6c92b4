---------------------------- MODULE MCVideoLink ----------------------------
(***************************************************************************)
(* Instances of VideoLink.                                                 *)
(***************************************************************************)
EXTENDS VideoLink

NoQuirks == {}
SomeQuirks == {"noInit", "stumbles", "ignores", "lags"}
Failing == {"fails"}
=============================================================================
