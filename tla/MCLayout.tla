------------------------------ MODULE MCLayout ------------------------------
(***************************************************************************)
(* The blocks that runs of FSMemModel allocate.                            *)
(***************************************************************************)
EXTENDS MCTypes, FSMemModel

(* All but type 12.                                                        *)
AllocatedTypes == {2, 3, 4, 8, 9, 11, 14, 16, 18} \cup 21 .. 452

(* The theorems about solid types speak of all of these types but the two  *)
(* with an empty part; the one about nested arrays leaves out type 12 too. *)
ASSUME \A t \in AllocatedTypes : (Solid(t) /\ NestedFirst(t)) <=> t \notin {16, 18}
ASSUME Solid(12) /\ ~NestedFirst(12)
=============================================================================
