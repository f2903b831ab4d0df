------------------------------- MODULE MCWave -------------------------------
(***************************************************************************)
(* Instances of WavePropagation on the families of programs of MCFamilies. *)
(***************************************************************************)
EXTENDS WavePropagation, MCFamilies
=============================================================================
