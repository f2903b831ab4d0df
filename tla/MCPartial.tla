------------------------------ MODULE MCPartial ------------------------------
(***************************************************************************)
(* Instances of PartialUpdate on the program families of WavePropagation.  *)
(***************************************************************************)
EXTENDS PartialUpdate, MCFamilies
=============================================================================
