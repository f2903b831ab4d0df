------------------------------- MODULE MCSCC --------------------------------
(***************************************************************************)
(* Instances of SCCIterator: every graph of four nodes with at most five   *)
(* edges without a work list, and every graph of the first three with      *)
(* every work list.                                                        *)
(***************************************************************************)
EXTENDS SCCIterator

FourNodes == 0 .. 3
MaxEdges == 5

CopyEdges(S) == {<<"copy", p[1], p[2]>> : p \in {q \in S \X S : q[1] # q[2]}}
OfThree == SUBSET CopyEdges(0 .. 2)
CopyGraphs == {E \in SUBSET CopyEdges(FourNodes) : Cardinality(E) <= MaxEdges} \cup OfThree
ListsOf(E) == IF E \in OfThree THEN SUBSET FourNodes ELSE {{}}

Nothing == {}
NoFunction == <<>>

=============================================================================
