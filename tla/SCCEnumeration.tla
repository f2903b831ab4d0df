--------------------------- MODULE SCCEnumeration ---------------------------
(***************************************************************************)
(* What the solvers rely on when they walk the strongly connected          *)
(* components of the copy edges: every component that can be reached from  *)
(* the roots is delivered once, as a whole, and only after the components  *)
(* its edges lead to.  Popped from a stack, as the solvers do, each comes  *)
(* before the components its edges lead to, which is what OnTop of         *)
(* WavePropagation assumes.                                                *)
(***************************************************************************)
EXTENDS ConstraintGraph, SequencesExt

VARIABLES
  edges,      \* the constraint graph
  roots,      \* the nodes to start from
  delivered   \* the components delivered so far, in order

vars == <<edges, roots, delivered>>

Left == SCCs(edges, ReachedFrom(edges, roots)) \ ToSet(delivered)

Init ==
  /\ edges \subseteq Edge
  /\ roots \subseteq Nodes
  /\ delivered = <<>>

LeadsTo(a, b) == \E m \in a, n \in b : <<"copy", m, n>> \in edges

Deliver(scc) ==
  /\ \A other \in Left \ {scc} : ~LeadsTo(scc, other)
  /\ delivered' = Append(delivered, scc)
  /\ UNCHANGED <<edges, roots>>

Next == \E scc \in Left : Deliver(scc)

Spec == Init /\ [][Next]_vars

=============================================================================
