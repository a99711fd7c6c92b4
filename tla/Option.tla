------------------------------- MODULE Option -------------------------------
(***************************************************************************)
(* Option::None, the value of a field that has none.                       *)
(***************************************************************************)
CONSTANT None
=============================================================================
