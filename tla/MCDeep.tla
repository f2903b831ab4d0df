------------------------------- MODULE MCDeep -------------------------------
(***************************************************************************)
(* Instances of DeepPropagation on the families of programs of MCFamilies. *)
(***************************************************************************)
EXTENDS DeepPropagation, MCFamilies
=============================================================================
