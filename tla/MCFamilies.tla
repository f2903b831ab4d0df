----------------------------- MODULE MCFamilies -----------------------------
(***************************************************************************)
(* Families of programs with three pointers and two objects each; the last *)
(* one has a third object.                                                 *)
(***************************************************************************)
EXTENDS PointerProgram, Sequences

P == 0  Q == 1  R == 2  A == 3  B == 5  F == 7

Ptrs == {P, Q, R}
Objs == {A, B}

(* Copies, loads and stores that close cycles through pointers, through    *)
(* objects, or through both once a load or a store has been resolved.      *)
LoopGeps == {}
LoopIndex == <<>>
Loops == INSTANCE MCPrograms WITH
  Fixed <- {<<"addr_of", A, P>>},
  Optional <-
    << <<"addr_of", B, Q>>, <<"addr_of", B, R>>, <<"copy", P, Q>>, <<"copy", Q, P>>,
       <<"copy", Q, R>>, <<"store", P, P>>, <<"store", Q, P>>, <<"load", P, R>>,
       <<"load", R, Q>>, <<"store", R, Q>> >>,
  IndirectCalls <- {},
  NodeSet <- Nodes, ObjSet <- ObjNodes, AnonOf <- AnonNode,
  Index <- IndexObject, NoField <- NoObj
LoopIds == Loops!ProgramNumbers
LoopPrograms == Loops!Programs
LoopReference == Loops!LeastSolutions

(* Q = &P->f, where the field of object A is object B and B has none: the  *)
(* field may be loaded, stored, indexed again, copied back into P, and its *)
(* address may have been taken elsewhere.                                  *)
FieldGeps == {Q}
FieldIndex == [g \in {Q} |-> [o \in Objs |-> IF o = A THEN B ELSE NoObj]]
Fields == INSTANCE MCPrograms WITH
  Fixed <- {<<"addr_of", A, P>>, <<"offset", P, Q>>},
  Optional <-
    << <<"copy", Q, P>>, <<"copy", P, R>>, <<"copy", R, P>>, <<"copy", Q, R>>,
       <<"store", P, Q>>, <<"store", Q, P>>, <<"load", Q, R>>, <<"load", P, R>>,
       <<"store", R, P>>, <<"addr_of", B, R>> >>,
  IndirectCalls <- {},
  NodeSet <- Nodes, ObjSet <- ObjNodes, AnonOf <- AnonNode,
  Index <- IndexObject, NoField <- NoObj
FieldIds == Fields!ProgramNumbers
FieldPrograms == Fields!Programs
FieldReference == Fields!LeastSolutions

(* A and B are functions.  P is called with argument Q; the parameter of A *)
(* is R, and A calls R; B loads R from P and returns it into P, or, called *)
(* from A, stores Q through P.                                             *)
Calling == {
  [site |-> "call P", fp |-> P, fn |-> A, cons |-> {<<"copy", Q, R>>}],
  [site |-> "call P", fp |-> P, fn |-> B, cons |-> {<<"load", P, R>>, <<"copy", R, P>>}],
  [site |-> "call R", fp |-> R, fn |-> B, cons |-> {<<"store", Q, P>>, <<"addr_of", A, R>>}] }
CallFamily == INSTANCE MCPrograms WITH
  Fixed <- {<<"addr_of", A, P>>},
  Optional <-
    << <<"addr_of", B, Q>>, <<"copy", P, Q>>, <<"copy", Q, P>>, <<"copy", R, Q>>,
       <<"copy", P, R>>, <<"store", P, Q>>, <<"load", Q, R>>, <<"load", P, Q>>,
       <<"addr_of", B, R>> >>,
  IndirectCalls <- Calling,
  NodeSet <- Nodes, ObjSet <- ObjNodes, AnonOf <- AnonNode,
  Index <- IndexObject, NoField <- NoObj
CallIds == CallFamily!ProgramNumbers
CallPrograms == CallFamily!Programs
CallReference == CallFamily!LeastSolutions

(* The programs of Loops and of Calls.                                     *)
PlainIds == LoopIds \cup {1024 + i : i \in CallIds}
PlainPrograms == [i \in PlainIds |-> IF i < 1024 THEN LoopPrograms[i] ELSE CallPrograms[i - 1024]]
PlainReference == [i \in PlainIds |-> IF i < 1024 THEN LoopReference[i] ELSE CallReference[i - 1024]]

(* Fields and calls together: Q = &P->f as in Fields; P and R are called   *)
(* and may point to function F, which gets P from the one call and loads   *)
(* it from the field for the other.                                        *)
MixedObjs == {A, B, F}
MixedIndex == [g \in {Q} |-> [o \in MixedObjs |-> IF o = A THEN B ELSE NoObj]]
MixedCalls == {
  [site |-> "call P", fp |-> P, fn |-> F, cons |-> {<<"copy", P, R>>}],
  [site |-> "call R", fp |-> R, fn |-> F, cons |-> {<<"load", Q, P>>}] }
MixedFamily == INSTANCE MCPrograms WITH
  Fixed <- {<<"addr_of", A, P>>, <<"offset", P, Q>>},
  Optional <-
    << <<"addr_of", F, P>>, <<"copy", Q, P>>, <<"copy", P, R>>, <<"copy", R, P>>,
       <<"store", P, Q>>, <<"store", Q, P>>, <<"load", Q, R>>, <<"load", P, R>> >>,
  IndirectCalls <- MixedCalls,
  NodeSet <- Nodes, ObjSet <- ObjNodes, AnonOf <- AnonNode,
  Index <- IndexObject, NoField <- NoObj
MixedIds == MixedFamily!ProgramNumbers
MixedPrograms == MixedFamily!Programs
MixedReference == MixedFamily!LeastSolutions

=============================================================================
