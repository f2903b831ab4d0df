----------------------------- MODULE SolverBase -----------------------------
(***************************************************************************)
(* SolverBase: the state every solver works on and the steps they share.   *)
(* A solver that extends this module brings its own runSolver and says     *)
(* with pc where in solve() it is; "done" is after solve() has returned.   *)
(***************************************************************************)
EXTENDS ConstraintGraph

VARIABLES
  prog,        \* the program under analysis
  edges,       \* the constraint graph
  rep,         \* the super node of every node
  pts,         \* points-to sets
  funPtrs,     \* updatedFunPtrs: changed function pointers to look at
  resolved,    \* the indirect calls resolved so far
  handled,     \* handledGEPMap: <<g, o>> when o was indexed for g
  pending,     \* copySCCStack of runSolver: the components still to be walked
  pc

graphVars == <<edges, rep>>
callVars  == <<funPtrs, resolved>>

Calls == Program[prog].calls
Live == {n \in Nodes : rep[n] = n}

(* analyze: the constraint graph of the program as it was built.           *)
SolverInit ==
  /\ prog \in ProgIds
  /\ rep = [n \in Nodes |-> n]
  /\ edges = AddConstraints({}, rep, Program[prog].base)
  /\ pts = [n \in Nodes |-> {o \in ObjNodes : AnonNode(o) = n}]
  /\ funPtrs = {}
  /\ resolved = {}
  /\ handled = {}
  /\ pending = {}

(* A node is a function pointer while it is the super node of the callee   *)
(* of some indirect call; collapsing moves the calls to the super node.    *)
IsFunctionPtr_Uncollapsed(rp, n) ==   \* a mutant: the calls stay behind
  \E c \in Calls : c.fp = n
IsFunctionPtr(rp, n) == \E c \in Calls : rp[c.fp] = n

(* processCopy records a function pointer whenever its set grows.          *)
GrownFunPtrs(rp, new) ==
  {n \in Nodes : IsFunctionPtr(rp, n) /\ new[n] # pts[n]}

(* A component may be walked once no copy edge leads to it from a          *)
(* component still on the stack, which holds them in topological order.    *)
OnTop(scc) ==
  \A other \in pending \ {scc}, n \in scc :
     \A m \in other : <<"copy", m, n>> \notin edges

(* processCopy from n to all its successors.                               *)
Propagated_Overwrites(E, p, n) ==   \* a mutant: = instead of |=
  [m \in Nodes |-> IF m \in CopySucc(E, n) THEN p[n] ELSE p[m]]
Propagated(E, p, n) ==
  [m \in Nodes |-> IF m \in CopySucc(E, n) THEN p[m] \cup p[n] ELSE p[m]]

(* updateFunPtrs: the calls through changed function pointers that are not *)
(* bound yet to a function the pointer points to.                          *)
NewTargets_NoSuperNode ==   \* a mutant: a collapsed pointer is not recognised
  {c \in Calls \ resolved : c.fp \in funPtrs /\ c.fn \in pts[rep[c.fp]]}
NewTargets ==
  {c \in Calls \ resolved : /\ \E n \in funPtrs : rep[n] = rep[c.fp]
                            /\ c.fn \in pts[rep[c.fp]]}

-----------------------------------------------------------------------------
(***************************************************************************)
(* Correctness.                                                            *)
(***************************************************************************)

(* What getPointsTo answers for a node: the set of its super node.         *)
Answer == [n \in Nodes |-> pts[rep[n]]]

(* Soundness of collapsing, of difference propagation and of the edge      *)
(* caches: no step of any round ever puts into a points-to set an object   *)
(* that some solution of the constraints does not have there.              *)
WithinReference == \A n \in Nodes : pts[n] \subseteq Reference[prog][n]

(* insertConstraint and collapseSCCTo leave no edge at a collapsed node,   *)
(* where no solver would look for it, and super nodes are never chained    *)
(* into a node that is itself collapsed.                                   *)
EdgesAreLive ==
  /\ \A e \in edges : {e[2], e[3]} \subseteq Live
  /\ \A n \in Nodes : rep[n] \in Live

(* A callable function that a function pointer points to is either bound   *)
(* to the call or the pointer is recorded as changed, also when the        *)
(* pointer was collapsed in between.                                       *)
CallsAreNotForgotten ==
  \A c \in Calls \ resolved :
    c.fn \in pts[rep[c.fp]] => \E n \in funPtrs : rep[n] = rep[c.fp]

(* processOffset casts the destination of an offset edge to the node of a  *)
(* getelementptr: such a node is never collapsed with another.             *)
GepsStayAlone ==
  \A g \in GepNodes : \A n \in Nodes : rep[n] = g <=> n = g

(* The solver implements the abstract analysis.                            *)
Analysis == INSTANCE InclusionAnalysis WITH sol <- Answer, done <- (pc = "done")
ImplementsAnalysis == Analysis!Spec

(* Anonymous pointers receive no edge, getelementptr pointers only offsets *)
(* and addresses; so neither is ever part of a cycle.                      *)
Alone == GepNodes \cup AnonNodes

WellFormedEdge(e) ==
  /\ e[3] \notin AnonNodes
  /\ e[1] = "copy" /\ e[3] \in GepNodes => e[2] \in AnonNodes
  /\ e[1] = "offset" => e[3] \in GepNodes
  /\ e[1] = "load" => e[3] \notin GepNodes

=============================================================================
