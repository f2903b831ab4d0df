--------------------------- MODULE DeepPropagation ---------------------------
(***************************************************************************)
(* The deep propagation solver.  runSolver begins with one wave, the same  *)
(* as in WavePropagation.  Then it passes over the loads, stores and       *)
(* offsets of all nodes until a pass changes nothing; what a load or a     *)
(* store adds is carried at once along copy edges, depth first, looking    *)
(* for a way back to where it started (stop).                              *)
(*                                                                         *)
(* deepPropagate returns from inside its loop over the successors, so that *)
(* it walks one path: which successor comes first is the order of a hash   *)
(* set of pointers, left open here.  A walk takes one step per node.  Its  *)
(* nodes are coloured when the calls return, all of them alike, GREY when  *)
(* the way back was found and BLACK otherwise.  BLACK lasts until the load *)
(* or store has been handled, GREY for ever.                               *)
(***************************************************************************)
EXTENDS SolverBase

VARIABLES
  cached,      \* cachedPTS, only used by the wave
  edgeCached,  \* edgeCachedPTS: <<e, o>> when edge e has been handled for o
  todo,        \* load, store and offset edges still to be handled in this pass
  changed,     \* whether this pass has changed anything
  grey, black, \* the coloured nodes
  stop,        \* the node a walk tries to come back to, or NoObj
  left,        \* objects the store at hand has still to reach
  walk,        \* the node deepPropagate is at and the objects it brings
  path         \* the nodes whose calls of deepPropagate have not returned

deepVars == <<grey, black, stop, left, walk, path>>
vars == <<prog, graphVars, pts, callVars, handled, pending, cached, edgeCached,
          todo, changed, deepVars, pc>>

Wave == INSTANCE WavePropagation

NoWalk == <<>>

Init ==
  /\ Wave!Init
  /\ grey = {} /\ black = {} /\ left = {} /\ path = {}
  /\ stop = NoObj
  /\ walk = NoWalk

(* Step 1 and 2: all components, and the wave.                             *)
BeginSolver == Wave!BeginRound /\ UNCHANGED deepVars
PropagateNode(n) == Wave!PropagateNode(n) /\ UNCHANGED deepVars
CollapseCycle(scc, super) == Wave!CollapseCycle(scc, super) /\ UNCHANGED deepVars
EndWave == Wave!EndWave /\ UNCHANGED deepVars

(***************************************************************************)
(* Step 3: loads and stores.                                               *)
(***************************************************************************)

(* A load reads the sets of the objects themselves, not those of their     *)
(* super nodes, and of objects with the same super node only the first.    *)
HandleLoad(e) ==
  /\ pc = "edges"
  /\ Wave!IsNext(e) /\ e[1] = "load"
  /\ LET fresh == Wave!Fresh(e)
         new == NewEdges(edges, rep, {<<"copy", o, e[3]>> : o \in fresh})
         first == {o \in fresh : /\ <<"copy", rep[o], e[3]>> \in new
                                 /\ \A q \in fresh : q < o => rep[q] # rep[o]}
         newPTS == UNION {pts[o] : o \in first}
     IN  /\ edges' = edges \cup new
         /\ walk' = <<e[3], newPTS \ pts[e[3]]>>
         /\ edgeCached' = edgeCached \cup ({e} \X fresh)
  /\ stop' = e[3]
  /\ todo' = todo \ {e}
  /\ pc' = "deep"
  /\ UNCHANGED <<prog, rep, pts, callVars, handled, pending, cached, changed,
                 grey, black, left, path>>

HandleStore(e) ==
  /\ pc = "edges"
  /\ Wave!IsNext(e) /\ e[1] = "store"
  /\ left' = Wave!Fresh(e)
  /\ edgeCached' = edgeCached \cup ({e} \X left')
  /\ stop' = e[2]
  /\ todo' = todo \ {e}
  /\ pc' = "store"
  /\ UNCHANGED <<prog, graphVars, pts, callVars, handled, pending, cached, changed,
                 grey, black, walk, path>>

(* The next object of the store.  If the edge to it is new, the walk       *)
(* starts at the object itself, even if it has been collapsed.             *)
StoreTo(o) ==
  /\ pc = "store"
  /\ o \in left /\ \A q \in left : o <= q
  /\ left' = left \ {o}
  /\ edges' = AddConstraints(edges, rep, {<<"copy", stop, o>>})
  /\ IF edges' = edges
     THEN UNCHANGED <<walk, pc>>
     ELSE walk' = <<o, pts[stop] \ pts[o]>> /\ pc' = "deep"
  /\ UNCHANGED <<prog, rep, pts, callVars, handled, pending, cached, edgeCached,
                 todo, changed, grey, black, stop, path>>

(* unmarkBlack, and on to the next edge.                                   *)
EndEdge ==
  /\ pc = "store"
  /\ left = {}
  /\ black' = {}
  /\ stop' = NoObj
  /\ pc' = "edges"
  /\ UNCHANGED <<prog, graphVars, pts, callVars, handled, pending, cached, edgeCached,
                 todo, changed, grey, left, walk, path>>

HandleOffset(e) == Wave!HandleOffset(e) /\ UNCHANGED deepVars

(***************************************************************************)
(* deepPropagate(start, stop, diff): one step per call.                    *)
(***************************************************************************)
Start == walk[1]
Diff == walk[2] \ pts[Start]

(* The calls return: the nodes on the path get the colour.                 *)
Return(found, nodes) ==
  /\ grey' = IF found THEN grey \cup nodes ELSE grey
  /\ black' = IF found THEN black ELSE black \cup nodes
  /\ walk' = NoWalk
  /\ path' = {}
  /\ pc' = "store"

(* The node has a colour already.                                          *)
WalkColoured ==
  /\ pc = "deep"
  /\ Start \in grey \cup black
  /\ Return(Start \in grey, path)
  /\ UNCHANGED <<prog, graphVars, pts, callVars, handled, pending, cached, edgeCached,
                 todo, changed, stop, left>>

(* Nothing new: only look whether the edge to stop is there.               *)
WalkNothingNew ==
  /\ pc = "deep"
  /\ Start \notin grey \cup black
  /\ Diff = {}
  /\ Return(stop \in CopySucc(edges, Start), path \cup {Start})
  /\ UNCHANGED <<prog, graphVars, pts, callVars, handled, pending, cached, edgeCached,
                 todo, changed, stop, left>>

(* Take the objects in, then go on to the first successor.                 *)
Receive_Silent ==   \* a mutant: a function pointer that grows is not recorded
  /\ pts' = [pts EXCEPT ![Start] = @ \cup Diff]
  /\ changed' = TRUE
  /\ UNCHANGED funPtrs
Receive ==
  /\ pts' = [pts EXCEPT ![Start] = @ \cup Diff]
  /\ funPtrs' = funPtrs \cup GrownFunPtrs(rep, pts')
  /\ changed' = TRUE

WalkOn ==
  /\ pc = "deep"
  /\ Start \notin grey \cup black
  /\ Diff # {}
  /\ Receive
  /\ IF CopySucc(edges, Start) = {}
     THEN Return(FALSE, path \cup {Start})
     ELSE \E m \in CopySucc(edges, Start) :
            IF m = stop
            THEN Return(TRUE, path \cup {Start})
            ELSE /\ walk' = <<m, Diff>>
                 /\ path' = path \cup {Start}
                 /\ UNCHANGED <<grey, black, pc>>
  /\ UNCHANGED <<prog, graphVars, resolved, handled, pending, cached, edgeCached,
                 todo, stop, left>>

-----------------------------------------------------------------------------
(* do ... while (changed)                                                  *)
EndPass_Once ==   \* a mutant: one pass is taken to be enough
  /\ pc = "edges"
  /\ todo = {}
  /\ pc' = "resolve"
  /\ UNCHANGED <<prog, graphVars, pts, callVars, handled, pending, cached, edgeCached,
                 todo, changed, deepVars>>
EndPass_NoReset ==   \* a mutant: changed is set once and for all
  /\ pc = "edges"
  /\ todo = {}
  /\ IF changed
     THEN todo' = {e \in edges : e[1] # "copy"} /\ UNCHANGED <<changed, pc>>
     ELSE pc' = "resolve" /\ UNCHANGED <<todo, changed>>
  /\ UNCHANGED <<prog, graphVars, pts, callVars, handled, pending, cached, edgeCached, deepVars>>
EndPass ==
  /\ pc = "edges"
  /\ todo = {}
  /\ IF changed
     THEN todo' = {e \in edges : e[1] # "copy"} /\ changed' = FALSE /\ UNCHANGED pc
     ELSE pc' = "resolve" /\ UNCHANGED <<todo, changed>>
  /\ UNCHANGED <<prog, graphVars, pts, callVars, handled, pending, cached, edgeCached, deepVars>>

(* resolveFunPtrs; the next runSolver clears cachedPTS.                    *)
ResolveFunPtrs_CacheKept ==   \* a mutant: cachedPTS survives
  /\ pc = "resolve"
  /\ edges' = AddConstraints(edges, rep, UNION {c.cons : c \in NewTargets})
  /\ resolved' = resolved \cup NewTargets
  /\ funPtrs' = {}
  /\ pc' = IF NewTargets = {} THEN "done" ELSE "round"
  /\ UNCHANGED <<prog, rep, pts, handled, edgeCached, cached, pending, todo, changed, deepVars>>
ResolveFunPtrs == Wave!ResolveFunPtrs /\ UNCHANGED deepVars

Next ==
  \/ BeginSolver
  \/ \E n \in Nodes : PropagateNode(n)
  \/ \E scc \in pending : \E super \in scc : CollapseCycle(scc, super)
  \/ EndWave
  \/ \E e \in todo : HandleLoad(e) \/ HandleStore(e) \/ HandleOffset(e)
  \/ \E o \in left : StoreTo(o)
  \/ EndEdge
  \/ WalkColoured
  \/ WalkNothingNew
  \/ WalkOn
  \/ EndPass
  \/ ResolveFunPtrs

Spec == Init /\ [][Next]_vars

(* The solver is one thread that only stops when solve() returns.          *)
FairSpec == Spec /\ WF_vars(Next)

-----------------------------------------------------------------------------
(***************************************************************************)
(* Correctness.                                                            *)
(***************************************************************************)

(* The one wave of runSolver is complete: when its last component has been *)
(* walked, no copy edge has anything left to send, also none of those that *)
(* the previous runSolver or the resolution of calls has left unsatisfied. *)
WaveSettles ==
  pc = "wave" /\ pending = {} =>
    \A e \in edges : e[1] = "copy" => pts[e[2]] \subseteq pts[e[3]]

(* When a pass has changed nothing, every load and store has got its copy  *)
(* edges for everything its pointer points to: the per edge cache and the  *)
(* flag changed never end the passes too early.                            *)
AccessesExpanded ==
  pc = "resolve" =>
    \A e \in edges :
      /\ e[1] = "load"  => \A o \in pts[e[2]] : rep[o] = e[3] \/ <<"copy", rep[o], e[3]>> \in edges
      /\ e[1] = "store" => \A o \in pts[e[3]] : rep[o] = e[2] \/ <<"copy", e[2], rep[o]>> \in edges

(* processCopy says of a copy edge "pts(dst) |= pts(src)": in the answer,  *)
(* the set of the destination includes that of the source.                 *)
CopiesAreSatisfied ==
  pc = "done" => \A e \in edges : e[1] = "copy" => pts[e[2]] \subseteq pts[e[3]]

(* The passes of runSolver and the rounds of solve end.                    *)
Terminates == <>(pc = "done")

-----------------------------------------------------------------------------
(***************************************************************************)
(* The inductive invariant behind the safety properties.  First the types, *)
(* the shape of the graph and soundness: what a walk brings to a node, the *)
(* node has in every solution, and what a store has still to reach has     *)
(* everything that its source has.                                         *)
(***************************************************************************)
TypeOK ==
  /\ prog \in ProgIds
  /\ edges \subseteq Edge
  /\ rep \in [Nodes -> Nodes]
  /\ pts \in Assignment
  /\ funPtrs \subseteq Nodes
  /\ resolved \subseteq Calls
  /\ handled \subseteq GepNodes \X ObjNodes
  /\ cached \in Assignment
  /\ edgeCached \subseteq Edge \X ObjNodes
  /\ pending \subseteq SUBSET Nodes
  /\ todo \subseteq Edge
  /\ changed \in BOOLEAN
  /\ grey \subseteq Nodes /\ black \subseteq Nodes /\ path \subseteq Nodes
  /\ left \subseteq ObjNodes
  /\ pc \in {"round", "wave", "edges", "store", "deep", "resolve", "done"}
  /\ pc \in {"store", "deep"} => stop \in Nodes
  /\ pc = "deep" => walk \in Nodes \X SUBSET ObjNodes

Shape ==
  /\ \A e \in edges \cup todo : WellFormedEdge(e)
  /\ \A x \in Alone : \A n \in Nodes : rep[n] = x <=> n = x
  /\ \A scc \in pending : \A x \in scc \cap Alone : scc = {x}

Sound ==
  /\ WithinReference
  /\ \A n \in Nodes : Reference[prog][rep[n]] = Reference[prog][n]
  /\ \A e \in edges \cup todo : Holds(Reference[prog], e)
  /\ \A scc \in pending : \A a, b \in scc : Reference[prog][a] = Reference[prog][b]
  /\ pc = "deep" => walk[2] \subseteq Reference[prog][Start]
  /\ pc \in {"store", "deep"} =>
       \A o \in left : Reference[prog][stop] \subseteq Reference[prog][o]

(* Where edges, components and the ends of a walk may be.                  *)
Placed ==
  /\ EdgesAreLive
  /\ \A e \in edges : ~SelfCopy(e)
  /\ \A scc \in pending : scc \subseteq Live
  /\ \A scc, other \in pending : scc = other \/ scc \cap other = {}
  /\ todo \subseteq edges
  /\ pc # "wave" => pending = {}
  /\ pc \in {"round", "wave", "resolve", "done"} => todo = {}
  /\ IF pc \in {"store", "deep"} THEN stop \in Live ELSE left = {}

(* What the per edge cache stands for: an edge that was handled is still   *)
(* an edge unless one of its ends has been collapsed, and so is the copy   *)
(* edge it was handled for, unless a store is just about to add that.      *)
Expanded(e, o) ==
  LET copy == IF e[1] = "load" THEN <<"copy", rep[o], e[3]>>
                               ELSE <<"copy", e[2], rep[o]>>
  IN  copy \in edges \/ SelfCopy(copy)
StillToStore(e, o) ==
  pc \in {"store", "deep"} /\ e[1] = "store" /\ e[2] = stop /\ o \in left
Remembered ==
  /\ \A h \in edgeCached :
       /\ h[1][1] \in {"load", "store"}
       /\ {h[1][2], h[1][3]} \subseteq Live =>
            h[1] \in edges /\ (Expanded(h[1], h[2]) \/ StillToStore(h[1], h[2]))
  /\ CallsAreNotForgotten

(* How far a wave and a pass have come.  Copies lead from pending          *)
(* components to pending components only, and what a node has sent is in   *)
(* the sets of its successors; while a pass has changed nothing, the edges *)
(* it has looked at have been handled for every object.                    *)
Handled(e) ==
  e[1] \in {"load", "store"} =>
    \A o \in pts[IF e[1] = "store" THEN e[3] ELSE e[2]] : <<e, o>> \in edgeCached
Advanced ==
  /\ pc = "round" => \A n \in Nodes : cached[n] = {}
  /\ pc = "wave" =>
       /\ \A n \in Live : \A m \in CopySucc(edges, n) : cached[n] \subseteq pts[m]
       /\ \A n \in UNION pending : CopySucc(edges, n) \subseteq UNION pending
       /\ \A n \in Live \ UNION pending : pts[n] \subseteq cached[n]
  /\ pc \in {"edges", "store", "deep", "resolve"} /\ ~changed =>
       \A e \in edges \ todo : Handled(e)
  /\ pc = "resolve" => ~changed

Inv == TypeOK /\ Shape /\ Sound /\ Placed /\ Remembered /\ Advanced

=============================================================================
