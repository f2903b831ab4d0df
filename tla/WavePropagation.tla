--------------------------- MODULE WavePropagation ---------------------------
(***************************************************************************)
(* The wave propagation solver.  A round of runSolver                      *)
(*   - finds the strongly connected components of the copy edges and walks *)
(*     them in topological order, collapsing every cycle into one of its   *)
(*     nodes and sending every other node's new objects to its successors; *)
(*   - then turns the loads, stores and offsets of every node, in the      *)
(*     order of the node identifiers, into new copy edges;                 *)
(* and rounds are repeated until one adds no edge.  solve() then resolves  *)
(* the indirect calls whose function pointer changed and starts over if    *)
(* that found a new target.                                                *)
(*                                                                         *)
(* The program is sequential.  What is left open is what the code leaves   *)
(* open: the order of the edges of one node (a hash set of pointers), the  *)
(* topological order among incomparable components and the node of a cycle *)
(* that comes first (both depend on the order of the edges).               *)
(***************************************************************************)
EXTENDS SolverBase

VARIABLES
  cached,      \* cachedPTS: what a node has already sent to its successors
  edgeCached,  \* edgeCachedPTS: <<e, o>> when edge e has been handled for o
  todo,        \* load, store and offset edges still to be handled
  changed      \* whether this round has added an edge

cacheVars  == <<handled, cached, edgeCached>>
vars == <<prog, graphVars, pts, callVars, cacheVars, pending, todo, changed, pc>>

TypeOK ==
  /\ prog \in ProgIds
  /\ edges \subseteq Edge
  /\ rep \in [Nodes -> Nodes]
  /\ pts \in Assignment
  /\ funPtrs \subseteq Nodes
  /\ resolved \subseteq Calls
  /\ handled \subseteq GepNodes \X ObjNodes
  /\ cached \in Assignment
  /\ edgeCached \subseteq Edge \X ObjNodes
  /\ pending \subseteq SUBSET Nodes
  /\ todo \subseteq Edge
  /\ changed \in BOOLEAN
  /\ pc \in {"round", "wave", "edges", "resolve", "done"}

Init ==
  /\ SolverInit
  /\ cached = [n \in Nodes |-> {}]
  /\ edgeCached = {}
  /\ todo = {}
  /\ changed = FALSE
  /\ pc = "round"

BeginRound_NoReset ==   \* a mutant: changed is not reset
  /\ pc = "round"
  /\ pending' = SCCs(edges, Live)
  /\ pc' = "wave"
  /\ UNCHANGED <<prog, graphVars, pts, callVars, cacheVars, todo, changed>>
BeginRound ==
  /\ pc = "round"
  /\ changed' = FALSE
  /\ pending' = SCCs(edges, Live)
  /\ pc' = "wave"
  /\ UNCHANGED <<prog, graphVars, pts, callVars, cacheVars, todo>>

(***************************************************************************)
(* The wave.                                                               *)
(***************************************************************************)
PropagateNode(n) ==
  /\ pc = "wave"
  /\ {n} \in pending
  /\ OnTop({n})
  /\ IF pts[n] \subseteq cached[n]
     THEN UNCHANGED <<pts, cached, funPtrs>>
     ELSE /\ cached' = [cached EXCEPT ![n] = @ \cup pts[n]]
          /\ pts' = Propagated(edges, pts, n)
          /\ funPtrs' = funPtrs \cup GrownFunPtrs(rep, pts')
  /\ pending' = pending \ {{n}}
  /\ UNCHANGED <<prog, graphVars, resolved, handled, edgeCached, todo, changed, pc>>

(* processCopySCC: merge the sets of the cycle into its first node,        *)
(* collapse the cycle into it, look at it again if it is called through,   *)
(* and propagate.                                                          *)
CollapseCycle(scc, super) ==
  /\ pc = "wave"
  /\ scc \in pending /\ scc # {super} /\ super \in scc
  /\ OnTop(scc)
  /\ LET merged == [pts EXCEPT ![super] = UNION {pts[n] : n \in scc}]
     IN  /\ rep' = CollapseReps(rep, scc, super)
         /\ edges' = CollapseEdges(edges, scc, super)
         /\ pts' = Propagated(edges', merged, super)
         /\ funPtrs' = funPtrs \cup GrownFunPtrs(rep', pts')
                         \cup {n \in {super} : IsFunctionPtr(rep', n)}
         /\ cached' = [cached EXCEPT ![super] = merged[super]]
  /\ pending' = pending \ {scc}
  /\ UNCHANGED <<prog, resolved, handled, edgeCached, todo, changed, pc>>

EndWave ==
  /\ pc = "wave"
  /\ pending = {}
  /\ todo' = {e \in edges : e[1] # "copy"}
  /\ pc' = "edges"
  /\ UNCHANGED <<prog, graphVars, pts, callVars, cacheVars, pending, changed>>

(***************************************************************************)
(* Loads, stores and offsets.  A load and an offset are visited at their   *)
(* source, a store at its destination; a node's loads come before its      *)
(* stores and these before its offsets.                                    *)
(***************************************************************************)
Visited_AtSource(e) == e[2]   \* a mutant: stores are looked at from their source
Visited(e) == IF e[1] = "store" THEN e[3] ELSE e[2]
Rank(e) == 3 * Visited(e) + (CASE e[1] = "load" -> 0 [] e[1] = "store" -> 1 [] OTHER -> 2)
IsNext(e) == e \in todo /\ \A f \in todo : Rank(e) <= Rank(f)

(* The objects that edge e has not been handled for.                       *)
Fresh(e) == {o \in pts[Visited(e)] : <<e, o>> \notin edgeCached}

(* The copy edges of new are added; each carries its source's set over.    *)
AddCopies_NoCallBack(new) ==   \* a mutant: a new edge carries nothing yet
  /\ edges' = edges \cup new
  /\ changed' = (changed \/ new # {})
  /\ UNCHANGED <<pts, funPtrs>>
AddCopies(new) ==
  /\ edges' = edges \cup new
  /\ pts' = [m \in Nodes |-> pts[m] \cup UNION {pts[e[2]] : e \in {f \in new : f[3] = m}}]
  /\ funPtrs' = funPtrs \cup GrownFunPtrs(rep, pts')
  /\ changed' = (changed \/ new # {})

HandleLoad(e) ==
  /\ pc = "edges"
  /\ IsNext(e) /\ e[1] = "load"
  /\ AddCopies(NewEdges(edges, rep, {<<"copy", rep[o], e[3]>> : o \in Fresh(e)}))
  /\ edgeCached' = edgeCached \cup ({e} \X Fresh(e))
  /\ todo' = todo \ {e}
  /\ UNCHANGED <<prog, rep, resolved, handled, cached, pending, pc>>

HandleStore(e) ==
  /\ pc = "edges"
  /\ IsNext(e) /\ e[1] = "store"
  /\ AddCopies(NewEdges(edges, rep, {<<"copy", e[2], rep[o]>> : o \in Fresh(e)}))
  /\ edgeCached' = edgeCached \cup ({e} \X Fresh(e))
  /\ todo' = todo \ {e}
  /\ UNCHANGED <<prog, rep, resolved, handled, cached, pending, pc>>

(* processOffset: the objects not yet indexed for this getelementptr are   *)
(* indexed, and the address of every field it does not point to flows in.  *)
HandleOffset(e) ==
  /\ pc = "edges"
  /\ IsNext(e) /\ e[1] = "offset"
  /\ LET g == e[3]
         newGEPs == {o \in pts[e[2]] : <<g, o>> \notin handled}
         fields == {IndexObject[g][o] : o \in newGEPs} \ ({NoObj} \cup pts[g])
     IN  /\ edges' = AddConstraints(edges, rep, {"addr_of"} \X fields \X {g})
         /\ pts' = [pts EXCEPT ![g] = @ \cup fields]
         /\ funPtrs' = funPtrs \cup GrownFunPtrs(rep, pts')
         /\ changed' = (changed \/ fields # {})
         /\ handled' = handled \cup ({g} \X newGEPs)
  /\ todo' = todo \ {e}
  /\ UNCHANGED <<prog, rep, resolved, cached, edgeCached, pending, pc>>

EndRound ==
  /\ pc = "edges"
  /\ todo = {}
  /\ pc' = IF changed THEN "round" ELSE "resolve"
  /\ UNCHANGED <<prog, graphVars, pts, callVars, cacheVars, pending, todo, changed>>

(***************************************************************************)
(* resolveFunPtrs: bind the calls through the changed function pointers to *)
(* the functions they point to; runSolver starts again, with cachedPTS     *)
(* cleared, when there was a new one.                                      *)
(***************************************************************************)
ResolveFunPtrs ==
  /\ pc = "resolve"
  /\ edges' = AddConstraints(edges, rep, UNION {c.cons : c \in NewTargets})
  /\ resolved' = resolved \cup NewTargets
  /\ funPtrs' = {}
  /\ IF NewTargets = {}
     THEN pc' = "done" /\ UNCHANGED cached
     ELSE pc' = "round" /\ cached' = [n \in Nodes |-> {}]
  /\ UNCHANGED <<prog, rep, pts, handled, edgeCached, pending, todo, changed>>

Next ==
  \/ BeginRound
  \/ \E n \in Nodes : PropagateNode(n)
  \/ \E scc \in pending : \E super \in scc : CollapseCycle(scc, super)
  \/ EndWave
  \/ \E e \in todo : HandleLoad(e) \/ HandleStore(e) \/ HandleOffset(e)
  \/ EndRound
  \/ ResolveFunPtrs

Spec == Init /\ [][Next]_vars

(* The solver is one thread that only stops when solve() returns.          *)
FairSpec == Spec /\ WF_vars(Next)

-----------------------------------------------------------------------------
(***************************************************************************)
(* Correctness.                                                            *)
(***************************************************************************)

(* The reason why sending only pts \ cachedPTS is enough: what a node is   *)
(* recorded to have sent is in the set of each of its successors, also of  *)
(* those it got after sending.                                             *)
SentIsReceived ==
  \A n \in Live : \A m \in CopySucc(edges, n) : cached[n] \subseteq pts[m]

(* The reason why an edge need not look at an object twice: the copy edge  *)
(* it was handled for still exists, wherever its ends were collapsed to.   *)
Backed(e, o) ==
  LET copy == IF e[1] = "load" THEN <<"copy", rep[o], e[3]>>
                               ELSE <<"copy", e[2], rep[o]>>
  IN  copy \in edges \/ SelfCopy(copy)
EdgeCacheIsBacked == \A h \in edgeCached : h[1] \in edges => Backed(h[1], h[2])

(* The do-while loops of runSolver and solve end.                          *)
Terminates == <>(pc = "done")

-----------------------------------------------------------------------------
(***************************************************************************)
(* The inductive invariant behind WithinReference.                         *)
(***************************************************************************)
Shape ==
  /\ \A e \in edges \cup todo : WellFormedEdge(e)
  /\ \A x \in Alone : \A n \in Nodes : rep[n] = x <=> n = x
  /\ \A scc \in pending : \A x \in scc \cap Alone : scc = {x}

(* Every edge is implied by the constraints, and nodes that are collapsed  *)
(* or about to be have the same points-to set in every solution.           *)
Sound ==
  /\ \A n \in Nodes : pts[n] \subseteq Reference[prog][n]
  /\ \A n \in Nodes : Reference[prog][rep[n]] = Reference[prog][n]
  /\ \A e \in edges \cup todo : Holds(Reference[prog], e)
  /\ \A scc \in pending : \A a, b \in scc : Reference[prog][a] = Reference[prog][b]

SoundInv == TypeOK /\ Shape /\ Sound

(***************************************************************************)
(* The inductive invariant behind the other properties and behind          *)
(* ImplementsAnalysis: first where edges and components may be,            *)
(***************************************************************************)
Placed ==
  /\ EdgesAreLive
  /\ \A e \in edges : ~SelfCopy(e)
  /\ \A scc \in pending : scc \subseteq Live
  /\ \A scc, other \in pending : scc = other \/ scc \cap other = {}
  /\ todo \subseteq edges
  /\ pc # "wave" => pending = {}
  /\ pc # "edges" => todo = {}

(* then what the caches stand for.  An edge that was handled is still an   *)
(* edge unless one of its ends has been collapsed, and so is the copy edge *)
(* it was handled for,                                                     *)
Remembered ==
  /\ SentIsReceived
  /\ \A n \in Nodes : cached[n] \subseteq pts[n]
  /\ \A h \in edgeCached :
       /\ h[1][1] \in {"load", "store"}
       /\ {h[1][2], h[1][3]} \subseteq Live => h[1] \in edges /\ Backed(h[1], h[2])
  /\ \A h \in handled : LET f == IndexObject[h[1]][h[2]] IN f # NoObj => f \in pts[h[1]]

(* what is never lost: the address of every object, the constraints of the *)
(* program and of the calls bound so far, and calls to look at,            *)
Bound == Program[prog].base \cup UNION {c.cons : c \in resolved}
Kept ==
  /\ \A o \in ObjNodes : o \in pts[AnonNode(o)]
  /\ \A c \in Bound : LET e == Redirected(rep, AsEdge(c)) IN e \in edges \/ SelfCopy(e)
  /\ CallsAreNotForgotten

(* and how far a round has come.  Copies lead from pending components to   *)
(* pending components only; when a round has added no edge, nothing is     *)
(* left to be sent and every edge that was looked at has been handled.     *)
Sent(n) == pts[n] \subseteq cached[n]
Done(e) ==
  /\ e[1] \in {"load", "store"} => Fresh(e) = {}
  /\ e[1] = "offset" => {e[3]} \X pts[e[2]] \subseteq handled

Advanced ==
  /\ pc = "wave" =>
       /\ \A n \in UNION pending : CopySucc(edges, n) \subseteq UNION pending
       /\ \A n \in Live \ UNION pending : Sent(n)
  /\ pc \in {"edges", "resolve"} /\ ~changed =>
       /\ \A n \in Live : Sent(n)
       /\ \A e \in edges \ todo : Done(e)
  /\ pc = "resolve" => ~changed

Inv == SoundInv /\ Placed /\ Remembered /\ Kept /\ Advanced

=============================================================================
