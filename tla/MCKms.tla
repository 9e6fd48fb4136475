------------------------------- MODULE MCKms --------------------------------
(***************************************************************************)
(* Kms for TLC.                                                            *)
(***************************************************************************)
EXTENDS Kms
=============================================================================
