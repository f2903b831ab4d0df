--------------------------- MODULE ConstraintGraph ---------------------------
(***************************************************************************)
(* The constraint graph: edges of five kinds between nodes, and the super  *)
(* node every node has been collapsed into.                                *)
(*                                                                         *)
(* A graph is a set of edges <<kind, source, destination>>, which stands   *)
(* for both the successor and the predecessor sets of the code, and a      *)
(* function rep that maps every node to the node getSuperNode finds at     *)
(* the end of its chain of super nodes.  The addr_of edges from an object  *)
(* to its anonymous pointer are left out: no solver propagates along them. *)
(***************************************************************************)
EXTENDS PointerProgram

CopySucc(E, n) == {m \in Nodes : <<"copy", n, m>> \in E}

(* insertConstraint: both ends are replaced by their super nodes; a copy   *)
(* from a node to itself is dropped.                                       *)
Redirected(rep, c) == <<c[1], rep[c[2]], rep[c[3]]>>
SelfCopy(e) == e[1] = "copy" /\ e[2] = e[3]

(* addConstraints: taking the address of an object is a copy from the      *)
(* object's anonymous pointer.                                             *)
AsEdge_AddrOfKept(c) == c   \* a mutant: the edge is inserted as it is
AsEdge(c) == IF c[1] = "addr_of" THEN <<"copy", AnonNode(c[2]), c[3]>> ELSE c

NewEdges(E, rep, C) ==
  {e \in {Redirected(rep, AsEdge(c)) : c \in C} : ~SelfCopy(e)} \ E

AddConstraints(E, rep, C) == E \cup NewEdges(E, rep, C)

(* collapseSCCTo: the edges of the collapsed nodes move to the super node, *)
(* and every node that had one of them as super node now ends there.       *)
CollapseReps_OneHop(rep, scc, super) ==   \* a mutant: only the nodes of scc
  [n \in Nodes |-> IF n \in scc THEN super ELSE rep[n]]
CollapseReps(rep, scc, super) ==
  [n \in Nodes |-> IF rep[n] \in scc THEN super ELSE rep[n]]

CollapseEdges_PredOnly(E, scc, super) ==   \* a mutant: outgoing edges are lost
  LET moved(n) == IF n \in scc THEN super ELSE n
      kept == {f \in E : f[2] \notin scc \ {super}}
  IN  {e \in {<<f[1], f[2], moved(f[3])>> : f \in kept} : ~SelfCopy(e)}
CollapseEdges(E, scc, super) ==
  LET moved(n) == IF n \in scc THEN super ELSE n
  IN  {e \in {<<f[1], moved(f[2]), moved(f[3])>> : f \in E} : ~SelfCopy(e)}

(***************************************************************************)
(* Strongly connected components of the copy edges among the live nodes    *)
(* (those that are their own super node).  b is reachable from a when no   *)
(* set that contains a and is closed under the copy edges leaves b out.    *)
(***************************************************************************)
ClosedSets_AnyKind(E) ==   \* a mutant: edges of every kind are followed
  {S \in SUBSET Nodes : \A e \in E : e[2] \in S => e[3] \in S}
ClosedSets(E) ==
  {S \in SUBSET Nodes : \A e \in E : e[1] = "copy" /\ e[2] \in S => e[3] \in S}

(* Everything that copy edges lead to from the nodes of R.                 *)
ReachedFrom(E, R) ==
  LET closed == {S \in ClosedSets(E) : R \subseteq S}
  IN  {n \in Nodes : \A S \in closed : n \in S}

SCCs_OneWay(E, live) ==   \* a mutant: what can be reached is the component
  LET closed == ClosedSets(E)
  IN  {{b \in live : \A S \in closed : a \in S => b \in S} : a \in live}
SCCs(E, live) ==
  LET closed == ClosedSets(E)
      reaches(a, b) == \A S \in closed : a \in S => b \in S
  IN  {{b \in live : reaches(a, b) /\ reaches(b, a)} : a \in live}

=============================================================================
