----------------------------- MODULE MCAdoption -----------------------------
(***************************************************************************)
(* Instances of Adoption.                                                  *)
(***************************************************************************)
EXTENDS Adoption
=============================================================================
