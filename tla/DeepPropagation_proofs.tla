----------------------- MODULE DeepPropagation_proofs -----------------------
(***************************************************************************)
(* Proofs about the deep propagation solver, for every program and every   *)
(* constraint graph.                                                       *)
(***************************************************************************)
EXTENDS DeepPropagation, SolverBase_proofs, TLAPS

(***************************************************************************)
(* The steps taken over from WavePropagation, in the terms of this module. *)
(***************************************************************************)

(* The operators on graphs mean the same there.                            *)
LEMMA SameGraphs ==
  /\ Wave!Nodes = Nodes
  /\ \A o : Wave!AnonNode(o) = AnonNode(o)
  /\ \A E, n : Wave!CopySucc(E, n) = CopySucc(E, n)
  /\ \A e : Wave!SelfCopy(e) <=> SelfCopy(e)
  /\ \A E : Wave!ClosedSets(E) = ClosedSets(E)
  /\ \A E, live : Wave!SCCs(E, live) = SCCs(E, live)
<1>1. Wave!Nodes = Nodes
  BY DEF Wave!Nodes, Nodes, Wave!AnonNodes, AnonNodes, Wave!AnonNode, AnonNode
<1>2. \A o : Wave!AnonNode(o) = AnonNode(o)
  BY DEF Wave!AnonNode, AnonNode
<1>3. \A E, n : Wave!CopySucc(E, n) = CopySucc(E, n)
  BY <1>1 DEF Wave!CopySucc, CopySucc
<1>4. \A e : Wave!SelfCopy(e) <=> SelfCopy(e)
  BY DEF Wave!SelfCopy, SelfCopy
<1>5. \A E : Wave!ClosedSets(E) = ClosedSets(E)
  BY <1>1 DEF Wave!ClosedSets, ClosedSets
<1>6. \A E, live : Wave!SCCs(E, live) = SCCs(E, live)
  BY <1>5 DEF Wave!SCCs, SCCs
<1> QED BY <1>1, <1>2, <1>3, <1>4, <1>5, <1>6

LEMMA SameEdges ==
  /\ \A E, rp, C : Wave!NewEdges(E, rp, C) = NewEdges(E, rp, C)
  /\ \A E, rp, C : Wave!AddConstraints(E, rp, C) = AddConstraints(E, rp, C)
  /\ \A rp, scc, super : Wave!CollapseReps(rp, scc, super) = CollapseReps(rp, scc, super)
  /\ \A E, scc, super : Wave!CollapseEdges(E, scc, super) = CollapseEdges(E, scc, super)
  /\ \A E, p, n : Wave!Propagated(E, p, n) = Propagated(E, p, n)
<1>1. \A rp, c : Wave!Redirected(rp, c) = Redirected(rp, c)
  BY DEF Wave!Redirected, Redirected
<1>2. \A c : Wave!AsEdge(c) = AsEdge(c)
  BY SameGraphs DEF Wave!AsEdge, AsEdge
<1>3. \A E, rp, C : Wave!NewEdges(E, rp, C) = NewEdges(E, rp, C)
  BY <1>1, <1>2, SameGraphs DEF Wave!NewEdges, NewEdges
<1>4. \A E, rp, C : Wave!AddConstraints(E, rp, C) = AddConstraints(E, rp, C)
  BY <1>3 DEF Wave!AddConstraints, AddConstraints
<1>5. \A rp, scc, super : Wave!CollapseReps(rp, scc, super) = CollapseReps(rp, scc, super)
  BY SameGraphs DEF Wave!CollapseReps, CollapseReps
<1>6. \A E, scc, super : Wave!CollapseEdges(E, scc, super) = CollapseEdges(E, scc, super)
  BY SameGraphs DEF Wave!CollapseEdges, CollapseEdges
<1>7. \A E, p, n : Wave!Propagated(E, p, n) = Propagated(E, p, n)
  BY SameGraphs DEF Wave!Propagated, Propagated
<1> QED BY <1>3, <1>4, <1>5, <1>6, <1>7

(* So do those on the state of a solver.                                   *)
LEMMA SameSolver ==
  /\ Wave!Live = Live
  /\ Wave!Calls = Calls
  /\ \A rp, n : Wave!IsFunctionPtr(rp, n) <=> IsFunctionPtr(rp, n)
  /\ \A rp, new : Wave!GrownFunPtrs(rp, new) = GrownFunPtrs(rp, new)
  /\ \A scc : Wave!OnTop(scc) <=> OnTop(scc)
  /\ Wave!NewTargets = NewTargets
<1>1. Wave!Live = Live
  BY SameGraphs DEF Wave!Live, Live
<1>2. Wave!Calls = Calls
  BY DEF Wave!Calls, Calls
<1>3. \A rp, n : Wave!IsFunctionPtr(rp, n) <=> IsFunctionPtr(rp, n)
  BY <1>2 DEF Wave!IsFunctionPtr, IsFunctionPtr
<1>4. \A rp, new : Wave!GrownFunPtrs(rp, new) = GrownFunPtrs(rp, new)
  BY <1>3, SameGraphs DEF Wave!GrownFunPtrs, GrownFunPtrs
<1>5. \A scc : Wave!OnTop(scc) <=> OnTop(scc)
  BY DEF Wave!OnTop, OnTop
<1>6. Wave!NewTargets = NewTargets
  BY <1>2 DEF Wave!NewTargets, NewTargets
<1> QED BY <1>1, <1>2, <1>3, <1>4, <1>5, <1>6

LEMMA InitStep ==
  Init => /\ prog \in ProgIds
          /\ rep = [n \in Nodes |-> n]
          /\ edges = AddConstraints({}, rep, Program[prog].base)
          /\ pts = [n \in Nodes |-> {o \in ObjNodes : AnonNode(o) = n}]
          /\ cached = [n \in Nodes |-> {}]
          /\ funPtrs = {} /\ resolved = {} /\ handled = {} /\ pending = {}
          /\ edgeCached = {} /\ todo = {} /\ changed = FALSE /\ pc = "round"
          /\ grey = {} /\ black = {} /\ left = {} /\ path = {}
BY SameGraphs, SameEdges DEF Init, Wave!Init, Wave!SolverInit

LEMMA BeginSolverStep ==
  BeginSolver =>
    /\ pc = "round" /\ pc' = "wave"
    /\ changed' = FALSE /\ pending' = SCCs(edges, Live)
    /\ UNCHANGED <<prog, edges, rep, pts, funPtrs, resolved, handled, cached,
                   edgeCached, todo, grey, black, stop, left, walk, path>>
BY SameGraphs, SameSolver
DEF BeginSolver, Wave!BeginRound, Wave!graphVars, Wave!callVars, Wave!cacheVars, deepVars

LEMMA PropagateNodeStep ==
  ASSUME NEW n, PropagateNode(n)
  PROVE  /\ pc = "wave" /\ {n} \in pending /\ OnTop({n}) /\ pc' = "wave"
         /\ pending' = pending \ {{n}}
         /\ \/ pts[n] \subseteq cached[n] /\ UNCHANGED <<pts, cached, funPtrs>>
            \/ /\ cached' = [cached EXCEPT ![n] = @ \cup pts[n]]
               /\ pts' = Propagated(edges, pts, n)
               /\ funPtrs' = funPtrs \cup GrownFunPtrs(rep, pts')
         /\ UNCHANGED <<prog, edges, rep, resolved, handled, edgeCached, todo,
                        changed, grey, black, stop, left, walk, path>>
BY SameEdges, SameSolver DEF PropagateNode, Wave!PropagateNode, Wave!graphVars, deepVars

LEMMA CollapseCycleStep ==
  ASSUME NEW scc, NEW super, CollapseCycle(scc, super)
  PROVE  LET merged == [pts EXCEPT ![super] = UNION {pts[n] : n \in scc}] IN
         /\ pc = "wave" /\ scc # {super} /\ OnTop(scc) /\ pc' = "wave"
         /\ rep' = CollapseReps(rep, scc, super)
         /\ edges' = CollapseEdges(edges, scc, super)
         /\ pts' = Propagated(edges', merged, super)
         /\ funPtrs' = funPtrs \cup GrownFunPtrs(rep', pts')
                         \cup {n \in {super} : IsFunctionPtr(rep', n)}
         /\ cached' = [cached EXCEPT ![super] = merged[super]]
         /\ pending' = pending \ {scc}
         /\ UNCHANGED <<prog, resolved, handled, edgeCached, todo, changed,
                        grey, black, stop, left, walk, path>>
BY SameEdges, SameSolver DEF CollapseCycle, Wave!CollapseCycle, deepVars

LEMMA EndWaveStep ==
  EndWave =>
    /\ pc = "wave" /\ pending = {} /\ pc' = "edges"
    /\ todo' = {e \in edges : e[1] # "copy"}
    /\ UNCHANGED <<prog, edges, rep, pts, funPtrs, resolved, handled, cached, edgeCached,
                   pending, changed, grey, black, stop, left, walk, path>>
BY DEF EndWave, Wave!EndWave, Wave!graphVars, Wave!callVars, Wave!cacheVars, deepVars

LEMMA HandleOffsetStep ==
  ASSUME NEW e \in todo, HandleOffset(e)
  PROVE  LET g == e[3]
             newGEPs == {o \in pts[e[2]] : <<g, o>> \notin handled}
             fields == {IndexObject[g][o] : o \in newGEPs} \ ({NoObj} \cup pts[g])
         IN  /\ pc = "edges" /\ e[1] = "offset" /\ pc' = "edges"
             /\ edges' = AddConstraints(edges, rep, {"addr_of"} \X fields \X {g})
             /\ pts' = [pts EXCEPT ![g] = @ \cup fields]
             /\ funPtrs' = funPtrs \cup GrownFunPtrs(rep, pts')
             /\ changed' = (changed \/ fields # {})
             /\ handled' = handled \cup ({g} \X newGEPs)
             /\ todo' = todo \ {e}
             /\ UNCHANGED <<prog, rep, resolved, cached, edgeCached, pending,
                            grey, black, stop, left, walk, path>>
BY SameEdges, SameSolver DEF HandleOffset, Wave!HandleOffset, deepVars

LEMMA ResolveFunPtrsStep ==
  ResolveFunPtrs =>
    /\ pc = "resolve"
    /\ edges' = AddConstraints(edges, rep, UNION {c.cons : c \in NewTargets})
    /\ resolved' = resolved \cup NewTargets
    /\ funPtrs' = {}
    /\ \/ NewTargets = {} /\ pc' = "done" /\ cached' = cached
       \/ pc' = "round" /\ cached' = [n \in Nodes |-> {}]
    /\ UNCHANGED <<prog, rep, pts, handled, edgeCached, pending, todo, changed,
                   grey, black, stop, left, walk, path>>
BY SameGraphs, SameEdges, SameSolver DEF ResolveFunPtrs, Wave!ResolveFunPtrs, deepVars

(* The objects a load or store has not been handled for.                   *)
Fresh(e) == {o \in pts[IF e[1] = "store" THEN e[3] ELSE e[2]] : <<e, o>> \notin edgeCached}

LEMMA SameFresh == \A e : Wave!Fresh(e) = Fresh(e)
BY DEF Wave!Fresh, Wave!Visited, Fresh

(* What the proofs use most: the types, and that every super node is live. *)
LEMMA LiveFacts ==
  ASSUME Inv
  PROVE  /\ TypeOK
         /\ rep \in [Nodes -> Nodes] /\ pts \in [Nodes -> SUBSET ObjNodes]
         /\ cached \in [Nodes -> SUBSET ObjNodes]
         /\ \A n \in Nodes : rep[n] \in Live /\ rep[rep[n]] = rep[n]
         /\ \A n \in Live : n \in Nodes /\ rep[n] = n
         /\ \A e \in edges : /\ e \in Edge /\ e = <<e[1], e[2], e[3]>>
                             /\ e[1] \in Kinds /\ e[2] \in Live /\ e[3] \in Live
                             /\ ~SelfCopy(e)
<1>1. TypeOK /\ EdgesAreLive /\ \A e \in edges : ~SelfCopy(e)
  BY DEF Inv, Placed
<1>2. \A n \in Nodes : rep[n] \in Live /\ rep[rep[n]] = rep[n]
  BY <1>1 DEF EdgesAreLive, Live
<1>3. \A n \in Live : n \in Nodes /\ rep[n] = n
  BY DEF Live
<1>4. \A e \in edges : e \in Edge /\ e[2] \in Live /\ e[3] \in Live
  BY <1>1 DEF EdgesAreLive, TypeOK
<1> QED BY <1>1, <1>2, <1>3, <1>4, EdgeFacts DEF TypeOK, Assignment

(***************************************************************************)
(* The invariant holds initially, and the steps that begin and end a wave  *)
(* or a pass preserve it.                                                  *)
(***************************************************************************)
LEMMA InitInv == Init => Inv
<1> SUFFICES ASSUME Init PROVE Inv
  OBVIOUS
<1> DEFINE R == Reference[prog]
<1>1. /\ prog \in ProgIds
      /\ rep = [n \in Nodes |-> n] /\ edges = AddConstraints({}, rep, Program[prog].base)
      /\ pts = [n \in Nodes |-> {o \in ObjNodes : AnonNode(o) = n}]
      /\ cached = [n \in Nodes |-> {}]
      /\ funPtrs = {} /\ resolved = {} /\ handled = {} /\ pending = {}
      /\ edgeCached = {} /\ todo = {} /\ changed = FALSE /\ pc = "round"
      /\ grey = {} /\ black = {} /\ left = {} /\ path = {}
  BY InitStep
<1>2. rep \in [Nodes -> Nodes] /\ Live = Nodes /\ \A n \in Nodes : rep[n] = n
  BY <1>1 DEF Live
<1>3. ASSUME NEW e \in edges
      PROVE  e \in Edge /\ WellFormedEdge(e) /\ Holds(R, e) /\ ~SelfCopy(e)
  <2>1. ~SelfCopy(e) /\ \E c \in Program[prog].base : e = Redirected(rep, AsEdge(c))
    BY <1>1 DEF AddConstraints, NewEdges
  <2>2. PICK c \in Program[prog].base : e = Redirected(rep, AsEdge(c))
    BY <2>1
  <2>3. c \in Constraint /\ Holds(R, c) /\ R \in Assignment
        /\ \A o \in ObjNodes : R[AnonNode(o)] = {o}
    BY <1>1, <2>2, ProgramFacts
  <2> QED BY <2>1, <2>2, <2>3, <1>2, ConstraintEdge
<1>4. TypeOK
  <2>1. edges \subseteq Edge
    BY <1>3
  <2>2. pts \in Assignment /\ cached \in Assignment
    BY <1>1 DEF Assignment
  <2> QED BY <1>1, <1>2, <2>1, <2>2 DEF TypeOK
<1>5. Shape
  BY <1>1, <1>2, <1>3 DEF Shape
<1>6. Sound
  <2>1. \A n \in Nodes : pts[n] \subseteq R[n]
    BY <1>1, ProgramFacts
  <2> QED BY <1>1, <1>2, <1>3, <2>1 DEF Sound, WithinReference
<1>7. Placed
  <2>1. \A e \in edges : e[2] \in Nodes /\ e[3] \in Nodes
    BY <1>3, EdgeFacts
  <2> QED BY <1>1, <1>2, <1>3, <2>1 DEF Placed, EdgesAreLive
<1>8. Remembered
  <2>1. \A c \in Calls : pts[rep[c.fp]] = {}
    <3> TAKE c \in Calls
    <3>1. c.fp \in PtrNodes
      BY <1>1, ProgramAssumption DEF IsProgram, IsCall, Calls
    <3>2. c.fp \in Nodes /\ rep[c.fp] = c.fp
      BY <1>2, <3>1, NodeFacts
    <3>3. c.fp \notin AnonNodes
      BY <3>1, NodesAssumption
    <3>4. \A o \in ObjNodes : AnonNode(o) # c.fp
      BY <3>3, NodeFacts
    <3> QED BY <1>1, <3>2, <3>4
  <2> QED BY <1>1, <2>1 DEF Remembered, CallsAreNotForgotten
<1>9. Advanced
  BY <1>1 DEF Advanced
<1> QED BY <1>4, <1>5, <1>6, <1>7, <1>8, <1>9 DEF Inv

(* The components of a new wave: their nodes agree in every solution, and  *)
(* everything live is in one of them.                                      *)
LEMMA BeginSolverInv == Inv /\ BeginSolver => Inv'
<1> SUFFICES ASSUME Inv, BeginSolver PROVE Inv'
  OBVIOUS
<1> DEFINE R == Reference[prog]
<1>1. TypeOK /\ Shape /\ Sound /\ Placed /\ Remembered /\ Advanced
  BY DEF Inv
<1>2. /\ pc = "round" /\ pc' = "wave"
      /\ changed' = FALSE /\ pending' = SCCs(edges, Live)
      /\ UNCHANGED <<prog, edges, rep, pts, funPtrs, resolved, handled, cached,
                     edgeCached, todo, grey, black, stop, left, walk, path>>
  BY BeginSolverStep
<1>3. Live \in SUBSET Nodes /\ Live' = Live /\ edges \in SUBSET Edge /\ R \in Assignment
  BY <1>1, <1>2, ProgramFacts DEF TypeOK, Live
<1>4. \A e \in edges : /\ e[3] \notin AnonNodes
                       /\ e[1] = "copy" /\ e[3] \in GepNodes => e[2] \in AnonNodes
  BY <1>1 DEF Shape, WellFormedEdge
<1>5. ASSUME NEW scc \in pending'
      PROVE  /\ \A a, b \in scc : R[a] = R[b]
             /\ \A x \in scc \cap Alone : scc = {x}
  <2>1. scc \in SCCs(edges, Live)
    BY <1>2
  <2>2. \A e \in edges : e[1] = "copy" => R[e[2]] \subseteq R[e[3]]
    BY <1>1, HoldsFacts DEF Sound
  <2>3. \A a, b \in scc : R[a] = R[b]
    BY <2>1, <2>2, <1>3, CycleAgrees
  <2>4. \A x \in scc \cap Alone : scc = {x}
    BY <2>1, <1>3, <1>4, AloneInCycle
  <2> QED BY <2>3, <2>4
<1>6. /\ \A scc \in pending' : scc \subseteq Live
      /\ \A scc, other \in pending' : scc = other \/ scc \cap other = {}
      /\ Live \subseteq UNION pending'
  BY <1>2, <1>3, ComponentFacts
<1>7. TypeOK'
  <2>1. pending' \subseteq SUBSET Nodes
    BY <1>3, <1>6
  <2> QED BY <2>1, <1>1, <1>2 DEF TypeOK, Calls
<1>8. Shape'
  BY <1>1, <1>2, <1>5 DEF Shape
<1>9. Sound'
  BY <1>1, <1>2, <1>5 DEF Sound, WithinReference
<1>10. Placed'
  <2>1. EdgesAreLive'
    BY <1>1, <1>2, <1>3 DEF Placed, EdgesAreLive
  <2> QED BY <2>1, <1>1, <1>2, <1>3, <1>6 DEF Placed
<1>11. Remembered'
  BY <1>1, <1>2, <1>3 DEF Remembered, Expanded, StillToStore, CallsAreNotForgotten, Calls
<1>12. Advanced'
  <2>1. ASSUME NEW n \in UNION pending' PROVE CopySucc(edges, n) \subseteq UNION pending'
    <3> SUFFICES ASSUME NEW m \in CopySucc(edges, n) PROVE m \in Live
      BY <1>6
    <3>1. <<"copy", n, m>> \in edges
      BY DEF CopySucc
    <3> QED BY <3>1, LiveFacts
  <2>2. \A n \in Live : cached[n] = {}
    BY <1>1, <1>2, LiveFacts DEF Advanced
  <2> QED BY <2>1, <2>2, <1>1, <1>2, <1>3, <1>6 DEF Advanced
<1> QED BY <1>7, <1>8, <1>9, <1>10, <1>11, <1>12 DEF Inv

LEMMA EndWaveInv == Inv /\ EndWave => Inv'
<1> SUFFICES ASSUME Inv, EndWave PROVE Inv'
  OBVIOUS
<1>1. TypeOK /\ Shape /\ Sound /\ Placed /\ Remembered /\ Advanced
  BY DEF Inv
<1>2. /\ pc = "wave" /\ pending = {} /\ pc' = "edges"
      /\ todo' = {e \in edges : e[1] # "copy"}
      /\ UNCHANGED <<prog, edges, rep, pts, funPtrs, resolved, handled, cached, edgeCached,
                     pending, changed, grey, black, stop, left, walk, path>>
  BY EndWaveStep
<1>3. Live' = Live /\ todo' \subseteq edges
  BY <1>2 DEF Live
<1>4. TypeOK'
  BY <1>1, <1>2, <1>3 DEF TypeOK, Calls
<1>5. Shape'
  BY <1>1, <1>2, <1>3 DEF Shape
<1>6. Sound'
  BY <1>1, <1>2, <1>3 DEF Sound, WithinReference
<1>7. Placed'
  BY <1>1, <1>2, <1>3 DEF Placed, EdgesAreLive
<1>8. Remembered'
  BY <1>1, <1>2, <1>3 DEF Remembered, Expanded, StillToStore, CallsAreNotForgotten, Calls
<1>9. Advanced'
  <2>1. \A e \in edges \ todo' : Handled(e)'
    BY <1>2 DEF Handled
  <2> QED BY <2>1, <1>2 DEF Advanced
<1> QED BY <1>4, <1>5, <1>6, <1>7, <1>8, <1>9 DEF Inv

(* A pass that has changed nothing leaves no edge unhandled; after any     *)
(* other pass the next one looks at all of them again.                     *)
LEMMA EndPassInv == Inv /\ EndPass => Inv'
<1> SUFFICES ASSUME Inv, EndPass PROVE Inv'
  OBVIOUS
<1>1. TypeOK /\ Shape /\ Sound /\ Placed /\ Remembered /\ Advanced
  BY DEF Inv
<1>2. /\ pc = "edges" /\ todo = {}
      /\ \/ /\ changed /\ todo' = {e \in edges : e[1] # "copy"}
            /\ changed' = FALSE /\ pc' = "edges"
         \/ ~changed /\ pc' = "resolve" /\ todo' = todo /\ changed' = changed
      /\ UNCHANGED <<prog, edges, rep, pts, funPtrs, resolved, handled, cached, edgeCached,
                     pending, grey, black, stop, left, walk, path>>
  BY DEF EndPass, graphVars, callVars, deepVars
<1>3. Live' = Live /\ todo' \subseteq edges
  BY <1>2 DEF Live
<1>4. TypeOK'
  BY <1>1, <1>2, <1>3 DEF TypeOK, Calls
<1>5. Shape'
  BY <1>1, <1>2, <1>3 DEF Shape
<1>6. Sound'
  BY <1>1, <1>2, <1>3 DEF Sound, WithinReference
<1>7. Placed'
  BY <1>1, <1>2, <1>3 DEF Placed, EdgesAreLive
<1>8. Remembered'
  BY <1>1, <1>2, <1>3 DEF Remembered, Expanded, StillToStore, CallsAreNotForgotten, Calls
<1>9. Advanced'
  <2>1. ASSUME NEW e \in edges \ todo' PROVE Handled(e)'
    <3>1. CASE changed
      BY <1>2, <3>1 DEF Handled
    <3>2. CASE ~changed
      <4>1. e \in edges \ todo
        BY <1>2, <3>2
      <4>2. Handled(e)
        BY <4>1, <3>2, <1>1, <1>2 DEF Advanced
      <4> QED BY <4>2, <1>2 DEF Handled
    <3> QED BY <3>1, <3>2
  <2> QED BY <2>1, <1>2 DEF Advanced
<1> QED BY <1>4, <1>5, <1>6, <1>7, <1>8, <1>9 DEF Inv

(***************************************************************************)
(* The wave.                                                               *)
(***************************************************************************)

(* A call whose pointer has grown is looked at again.                      *)
LEMMA GrownIsRecorded ==
  ASSUME NEW rp \in [Nodes -> Nodes], NEW c \in Calls, c.fp \in Nodes,
         NEW new, new[rp[c.fp]] # pts[rp[c.fp]]
  PROVE  rp[c.fp] \in GrownFunPtrs(rp, new)
BY DEF GrownFunPtrs, IsFunctionPtr

(* If the sets of function pointers only change when this is recorded, and *)
(* no node changes its super node, no call is forgotten.                   *)
LEMMA CallsStayRemembered ==
  ASSUME Inv, funPtrs' = funPtrs \cup GrownFunPtrs(rep, pts'),
         UNCHANGED <<prog, rep, resolved>>
  PROVE  CallsAreNotForgotten'
<1> SUFFICES ASSUME NEW c \in Calls \ resolved, c.fn \in pts'[rep[c.fp]]
             PROVE  \E n \in funPtrs' : rep[n] = rep[c.fp]
  BY DEF CallsAreNotForgotten, Calls
<1>1. c.fp \in Nodes
  BY LiveFacts, ProgramFacts DEF TypeOK
<1>2. CASE pts'[rep[c.fp]] = pts[rep[c.fp]]
  BY <1>2 DEF Inv, Remembered, CallsAreNotForgotten
<1>3. CASE pts'[rep[c.fp]] # pts[rep[c.fp]]
  <2>1. rep[c.fp] \in GrownFunPtrs(rep, pts')
    BY <1>1, <1>3, LiveFacts, GrownIsRecorded
  <2>2. rep[rep[c.fp]] = rep[c.fp]
    BY <1>1, LiveFacts
  <2> QED BY <2>1, <2>2
<1> QED BY <1>2, <1>3

(* A node that is walked sends to components still to be walked only, and  *)
(* no pending component sends to it any more.                              *)
LEMMA PropagateNodeInv ==
  ASSUME Inv, NEW n \in Nodes, PropagateNode(n) PROVE Inv'
<1> DEFINE R == Reference[prog]
<1>1. TypeOK /\ Shape /\ Sound /\ Placed /\ Remembered /\ Advanced
  BY DEF Inv
<1>2. /\ pc = "wave" /\ {n} \in pending /\ OnTop({n}) /\ pc' = "wave"
      /\ pending' = pending \ {{n}}
      /\ \/ pts[n] \subseteq cached[n] /\ UNCHANGED <<pts, cached, funPtrs>>
         \/ /\ cached' = [cached EXCEPT ![n] = @ \cup pts[n]]
            /\ pts' = Propagated(edges, pts, n)
            /\ funPtrs' = funPtrs \cup GrownFunPtrs(rep, pts')
      /\ UNCHANGED <<prog, edges, rep, resolved, handled, edgeCached, todo,
                     changed, grey, black, stop, left, walk, path>>
  BY PropagateNodeStep
<1>3. n \in Live /\ Live' = Live
  BY <1>1, <1>2 DEF Placed, Live
<1>4. /\ pts' \in Assignment /\ cached' \in Assignment /\ funPtrs' \subseteq Nodes
      /\ \A m \in Nodes : pts'[m] \subseteq R[m]
  <2>1. CASE UNCHANGED <<pts, cached, funPtrs>>
    BY <2>1, <1>1 DEF TypeOK, Sound, WithinReference
  <2>2. CASE /\ cached' = [cached EXCEPT ![n] = @ \cup pts[n]]
             /\ pts' = Propagated(edges, pts, n)
             /\ funPtrs' = funPtrs \cup GrownFunPtrs(rep, pts')
    <3>1. R \in Assignment /\ edges \in SUBSET Edge /\ pts \in Assignment
      BY <1>1, ProgramFacts DEF TypeOK
    <3>2. \A e \in edges : e[1] = "copy" => R[e[2]] \subseteq R[e[3]]
      BY <1>1, HoldsFacts DEF Sound
    <3>3. pts' \in Assignment /\ \A m \in Nodes : pts'[m] \subseteq R[m]
      BY <2>2, <3>1, <3>2, <1>1, PropagatedFacts DEF Sound, WithinReference
    <3>4. cached' \in Assignment
      BY <2>2, <1>1 DEF TypeOK, Assignment
    <3> QED BY <2>2, <3>3, <3>4, <1>1 DEF TypeOK, GrownFunPtrs
  <2> QED BY <1>2, <2>1, <2>2
<1>5. \A m \in CopySucc(edges, n) : m \in UNION pending /\ m \in Nodes /\ m # n
  <2> TAKE m \in CopySucc(edges, n)
  <2>1. <<"copy", n, m>> \in edges /\ m \in Nodes
    BY DEF CopySucc
  <2>2. ~SelfCopy(<<"copy", n, m>>)
    BY <2>1, LiveFacts
  <2>3. n \in UNION pending
    BY <1>2
  <2> QED BY <2>1, <2>2, <2>3, <1>1, <1>2 DEF SelfCopy, Advanced
<1>6. /\ \A m \in Nodes : /\ pts[m] \subseteq pts'[m]
                          /\ m \in CopySucc(edges, n) => cached'[n] \subseteq pts'[m]
                          /\ m \notin CopySucc(edges, n) => pts'[m] = pts[m]
                          /\ m # n => cached'[m] = cached[m]
      /\ pts[n] \subseteq cached'[n]
  <2>1. \A m \in CopySucc(edges, n) : cached[n] \subseteq pts[m]
    BY <1>1, <1>2, <1>3 DEF Advanced
  <2>2. CASE pts[n] \subseteq cached[n] /\ UNCHANGED <<pts, cached, funPtrs>>
    BY <2>1, <2>2
  <2>3. CASE cached' = [cached EXCEPT ![n] = @ \cup pts[n]] /\ pts' = Propagated(edges, pts, n)
    <3>1. \A m \in Nodes : /\ pts[m] \subseteq pts'[m]
                           /\ m \in CopySucc(edges, n) => pts[n] \subseteq pts'[m]
                           /\ m \notin CopySucc(edges, n) => pts'[m] = pts[m]
      <4>1. pts \in Assignment
        BY <1>1 DEF TypeOK
      <4> QED BY <4>1, <2>3, PropagatedGrows
    <3>2. cached'[n] = cached[n] \cup pts[n] /\ \A m \in Nodes : m # n => cached'[m] = cached[m]
      BY <2>3, LiveFacts
    <3> QED BY <2>1, <3>1, <3>2
  <2> QED BY <1>2, <2>2, <2>3
<1>7. TypeOK'
  BY <1>1, <1>2, <1>4 DEF TypeOK, Calls
<1>8. Shape'
  BY <1>1, <1>2 DEF Shape
<1>9. Sound'
  BY <1>1, <1>2, <1>4 DEF Sound, WithinReference
<1>10. Placed'
  BY <1>1, <1>2, <1>3 DEF Placed, EdgesAreLive
<1>11. Remembered'
  <2>1. CallsAreNotForgotten'
    <3>1. CASE UNCHANGED <<pts, funPtrs>>
      BY <3>1, <1>1, <1>2 DEF Remembered, CallsAreNotForgotten, Calls
    <3>2. CASE funPtrs' = funPtrs \cup GrownFunPtrs(rep, pts')
      BY <3>2, <1>2, CallsStayRemembered
    <3> QED BY <1>2, <3>1, <3>2
  <2> QED BY <2>1, <1>1, <1>2, <1>3 DEF Remembered, Expanded, StillToStore
<1>12. Advanced'
  <2>1. UNION pending' = (UNION pending) \ {n}
    <3>1. \A scc \in pending : n \in scc => scc = {n}
      BY <1>1, <1>2 DEF Placed
    <3> QED BY <3>1, <1>2
  <2>2. \A k \in UNION pending' : n \notin CopySucc(edges, k)
    <3> SUFFICES ASSUME NEW scc \in pending \ {{n}}, NEW k \in scc
                 PROVE  <<"copy", k, n>> \notin edges
      BY <1>2 DEF CopySucc
    <3> QED BY <1>2 DEF OnTop
  <2>3. \A k \in UNION pending' : CopySucc(edges, k) \subseteq UNION pending'
    BY <1>1, <1>2, <2>1, <2>2 DEF Advanced
  <2>4. ASSUME NEW k \in Live, NEW m \in CopySucc(edges, k) PROVE cached'[k] \subseteq pts'[m]
    <3>1. cached[k] \subseteq pts[m] /\ m \in Nodes /\ k \in Nodes
      BY <1>1, <1>2 DEF Advanced, CopySucc, Live
    <3> QED BY <3>1, <1>6
  <2>5. ASSUME NEW k \in Live \ UNION pending' PROVE pts'[k] \subseteq cached'[k]
    <3>1. k \notin CopySucc(edges, n) /\ k \in Nodes
      BY <2>1, <1>5 DEF Live
    <3>2. pts'[k] = pts[k]
      BY <3>1, <1>6
    <3>3. CASE k = n
      BY <3>2, <3>3, <1>6
    <3>4. CASE k # n
      BY <3>1, <3>2, <3>4, <2>1, <1>1, <1>2, <1>6 DEF Advanced
    <3> QED BY <3>3, <3>4
  <2> QED BY <2>3, <2>4, <2>5, <1>2, <1>3 DEF Advanced
<1> QED BY <1>7, <1>8, <1>9, <1>10, <1>11, <1>12 DEF Inv

(* The nodes of a cycle agree in every solution and none of them is an     *)
(* anonymous or a getelementptr pointer; their edges, and what the caches  *)
(* say of them, move to the super node.                                    *)
LEMMA CollapseCycleInv ==
  ASSUME Inv, NEW scc \in pending, NEW super \in scc, CollapseCycle(scc, super)
  PROVE  Inv'
<1> DEFINE R == Reference[prog]
           merged == [pts EXCEPT ![super] = UNION {pts[n] : n \in scc}]
           moved(n) == IF n \in scc THEN super ELSE n
           Moved(f) == <<f[1], moved(f[2]), moved(f[3])>>
<1>1. TypeOK /\ Shape /\ Sound /\ Placed /\ Remembered /\ Advanced
  BY DEF Inv
<1>2. /\ pc = "wave" /\ scc # {super} /\ OnTop(scc) /\ pc' = "wave"
      /\ rep' = CollapseReps(rep, scc, super)
      /\ edges' = CollapseEdges(edges, scc, super)
      /\ pts' = Propagated(edges', merged, super)
      /\ funPtrs' = funPtrs \cup GrownFunPtrs(rep', pts')
                      \cup {n \in {super} : IsFunctionPtr(rep', n)}
      /\ cached' = [cached EXCEPT ![super] = merged[super]]
      /\ pending' = pending \ {scc}
      /\ UNCHANGED <<prog, resolved, handled, edgeCached, todo, changed,
                     grey, black, stop, left, walk, path>>
  BY CollapseCycleStep
<1>3. /\ R \in Assignment /\ scc \in SUBSET Nodes /\ edges \in SUBSET Edge
      /\ scc \subseteq Live /\ super \in Live /\ super \in Nodes
  BY <1>1, ProgramFacts DEF TypeOK, Placed, Live
<1>4. scc \cap Alone = {} /\ \A n \in scc : R[n] = R[super]
  BY <1>1, <1>2 DEF Shape, Sound
<1>5. /\ rep' \in [Nodes -> Nodes]
      /\ \A n \in Nodes : rep'[n] = moved(rep[n]) /\ rep'[rep'[n]] = rep'[n]
      /\ Live' = (Live \ scc) \cup {super}
  <2>1. /\ \A n \in scc : rep[n] = n
        /\ rep \in [Nodes -> Nodes]
        /\ \A n \in Nodes : rep[rep[n]] = rep[n]
    BY <1>3, LiveFacts DEF Live
  <2>2. /\ rep' \in [Nodes -> Nodes]
        /\ \A n \in Nodes : /\ rep[n] \in scc => rep'[n] = super
                            /\ rep[n] \notin scc => rep'[n] = rep[n]
        /\ \A n \in Nodes : rep'[rep'[n]] = rep'[n]
        /\ \A n \in Nodes : rep'[n] = n <=> (rep[n] = n /\ n \notin scc) \/ n = super
    <3> DEFINE rq == CollapseReps(rep, scc, super)
    <3>1. /\ rq \in [Nodes -> Nodes]
          /\ \A n \in Nodes : /\ rep[n] \in scc => rq[n] = super
                              /\ rep[n] \notin scc => rq[n] = rep[n]
          /\ \A n \in Nodes : rq[rq[n]] = rq[n]
          /\ \A n \in Nodes : rq[n] = n <=> (rep[n] = n /\ n \notin scc) \/ n = super
      BY <2>1, <1>3, CollapsedReps
    <3>2. rep' = rq
      BY <1>2
    <3> HIDE DEF rq
    <3> QED BY <3>1, <3>2
  <2>3. \A n \in Nodes : rep'[n] = moved(rep[n])
    <3>1. rep' = [n \in Nodes |-> IF rep[n] \in scc THEN super ELSE rep[n]]
      BY <1>2 DEF CollapseReps
    <3> QED BY <3>1
  <2>4. Live' = (Live \ scc) \cup {super}
    BY <2>1, <2>2, <1>3 DEF Live
  <2> QED BY <2>2, <2>3, <2>4
<1>6. \A e \in edges' : /\ e \in Edge /\ e = <<e[1], e[2], e[3]>> /\ ~SelfCopy(e)
                        /\ \E f \in edges : e = Moved(f)
  <2> TAKE e \in edges'
  <2>1. e \in Edge /\ ~SelfCopy(e)
        /\ \E f \in edges : e[1] = f[1] /\ e[2] = moved(f[2]) /\ e[3] = moved(f[3])
    BY <1>2, <1>3, CollapseFacts
  <2>2. e = <<e[1], e[2], e[3]>>
    BY <2>1, EdgeFacts
  <2> QED BY <2>1, <2>2
<1>7. \A f \in edges : Moved(f) \in edges' \/ SelfCopy(Moved(f))
  BY <1>2, MovedEdge
<1>8. ASSUME NEW n \in Nodes
      PROVE  /\ R[moved(n)] = R[n]
             /\ \A x \in Alone : moved(n) = x <=> n = x
  BY <1>3, <1>4
<1>9. ASSUME NEW e \in edges' PROVE WellFormedEdge(e) /\ Holds(R, e)
  <2>1. PICK f \in edges : e = Moved(f)
    BY <1>6
  <2>2. f \in Edge /\ f[2] \in Nodes /\ f[3] \in Nodes /\ WellFormedEdge(f) /\ Holds(R, f)
    BY <1>1, <1>3, EdgeFacts DEF Shape, Sound
  <2>3. e[1] = f[1] /\ R[e[2]] = R[f[2]] /\ R[e[3]] = R[f[3]]
        /\ \A x \in Alone : (e[2] = x <=> f[2] = x) /\ (e[3] = x <=> f[3] = x)
    <3>1. e[1] = f[1] /\ e[2] = moved(f[2]) /\ e[3] = moved(f[3])
      BY <2>1
    <3> HIDE DEF moved
    <3> QED BY <3>1, <2>2, <1>8
  <2>4. e[1] = "offset" => e[3] = f[3]
    BY <2>2, <2>3 DEF WellFormedEdge, Alone
  <2>5. Holds(R, e)
    BY <2>2, <2>3, <2>4, EdgeFacts, HoldsFacts DEF Kinds
  <2>6. WellFormedEdge(e)
    BY <2>2, <2>3 DEF WellFormedEdge, Alone
  <2> QED BY <2>5, <2>6
<1>10. /\ merged \in Assignment
       /\ \A n \in scc : pts[n] \subseteq merged[super]
       /\ \A m \in Nodes : /\ pts[m] \subseteq merged[m] /\ (m # super => merged[m] = pts[m])
                           /\ merged[m] \subseteq R[m]
  <2>1. \A n \in scc : pts[n] \subseteq ObjNodes /\ pts[n] \subseteq R[super]
    BY <1>1, <1>3, <1>4, LiveFacts DEF Sound, WithinReference
  <2>2. (UNION {pts[n] : n \in scc}) \subseteq R[super]
        /\ (UNION {pts[n] : n \in scc}) \subseteq ObjNodes
    BY <2>1
  <2>3. pts \in Assignment /\ \A m \in Nodes : pts[m] \subseteq R[m]
    BY <1>1 DEF TypeOK, Sound, WithinReference
  <2> HIDE DEF R
  <2> QED BY <2>2, <2>3, <1>3 DEF Assignment
<1> HIDE DEF merged
<1>11. /\ pts' \in Assignment
       /\ \A m \in Nodes : /\ pts[m] \subseteq pts'[m] /\ pts'[m] \subseteq R[m]
                           /\ m # super /\ m \notin CopySucc(edges', super) => pts'[m] = pts[m]
       /\ \A m \in CopySucc(edges', super) : merged[super] \subseteq pts'[m]
       /\ pts'[super] = merged[super]
  <2>1. edges' \in SUBSET Edge /\ \A e \in edges' : e[1] = "copy" => R[e[2]] \subseteq R[e[3]]
    BY <1>6, <1>9, HoldsFacts
  <2> DEFINE q == Propagated(edges', merged, super)
  <2>2. q \in Assignment /\ \A m \in Nodes : q[m] \subseteq R[m]
    BY <2>1, <1>3, <1>10, PropagatedFacts
  <2>3. \A m \in Nodes : /\ merged[m] \subseteq q[m]
                         /\ m \in CopySucc(edges', super) => merged[super] \subseteq q[m]
                         /\ m \notin CopySucc(edges', super) => q[m] = merged[m]
    <3>1. merged \in Assignment /\ super \in Nodes
      BY <1>3, <1>10
    <3> QED BY <3>1, PropagatedGrows
  <2>4. CopySucc(edges', super) \subseteq Nodes /\ super \notin CopySucc(edges', super)
    BY <1>6 DEF CopySucc, SelfCopy
  <2>5. pts' = q
    BY <1>2
  <2> HIDE DEF q
  <2> QED BY <2>2, <2>3, <2>4, <2>5, <1>3, <1>10
<1>12. cached' \in Assignment /\ cached'[super] = merged[super]
       /\ \A m \in Nodes : m # super => cached'[m] = cached[m]
  BY <1>1, <1>2, <1>3, <1>10 DEF TypeOK, Assignment
<1>13. \A k, m \in Nodes : k # super /\ m \in CopySucc(edges', k) =>
         \E l \in CopySucc(edges, k) : m = moved(l) /\ k \notin scc
  <2> SUFFICES ASSUME NEW k \in Nodes, NEW m \in Nodes, k # super, <<"copy", k, m>> \in edges'
               PROVE  \E l \in CopySucc(edges, k) : m = moved(l) /\ k \notin scc
    BY DEF CopySucc
  <2>1. PICK f \in edges : <<"copy", k, m>> = Moved(f)
    BY <1>6
  <2>2. f = <<f[1], f[2], f[3]>> /\ f[1] = "copy" /\ k = moved(f[2]) /\ m = moved(f[3])
        /\ f[3] \in Nodes
    BY <2>1, LiveFacts
  <2>3. f[2] = k /\ k \notin scc
    BY <2>2
  <2>4. f[3] \in CopySucc(edges, k)
    BY <2>2, <2>3 DEF CopySucc
  <2> QED BY <2>2, <2>3, <2>4
<1>14. UNION pending' = (UNION pending) \ scc
  <2>1. \A other \in pending : other = scc \/ other \cap scc = {}
    BY <1>1 DEF Placed
  <2> QED BY <2>1, <1>2
<1>15. TypeOK'
  <2>1. edges' \subseteq Edge
    BY <1>6
  <2>2. funPtrs' \subseteq Nodes
    BY <1>1, <1>2, <1>3 DEF TypeOK, GrownFunPtrs
  <2>3. pending' \subseteq SUBSET Nodes
    BY <1>1, <1>2 DEF TypeOK
  <2> QED BY <1>1, <1>2, <1>5, <1>11, <1>12, <2>1, <2>2, <2>3 DEF TypeOK, Calls
<1>16. Shape'
  <2>1. \A x \in Alone : \A n \in Nodes : rep'[n] = x <=> n = x
    <3> SUFFICES ASSUME NEW x \in Alone, NEW n \in Nodes PROVE rep'[n] = x <=> n = x
      OBVIOUS
    <3>1. rep[n] \in Nodes /\ rep'[n] = moved(rep[n]) /\ (rep[n] = x <=> n = x)
      BY <1>1, <1>5, LiveFacts DEF Shape, TypeOK
    <3> HIDE DEF moved
    <3> QED BY <3>1, <1>8
  <2>2. \A e \in edges' \cup todo' : WellFormedEdge(e)
    BY <1>1, <1>2, <1>9 DEF Shape
  <2> QED BY <2>1, <2>2, <1>1, <1>2 DEF Shape
<1>17. Sound'
  <2>1. \A n \in Nodes : R[rep'[n]] = R[n]
    <3> TAKE n \in Nodes
    <3>1. rep[n] \in Nodes /\ rep'[n] = moved(rep[n]) /\ R[rep[n]] = R[n]
      BY <1>1, <1>5 DEF Sound, TypeOK
    <3> HIDE DEF moved
    <3> QED BY <3>1, <1>8
  <2>2. \A e \in edges' \cup todo' : Holds(R, e)
    BY <1>1, <1>2, <1>9 DEF Sound
  <2>3. WithinReference'
    BY <1>2, <1>11 DEF WithinReference
  <2>4. \A other \in pending' : \A a, b \in other : R[a] = R[b]
    BY <1>1, <1>2 DEF Sound
  <2> QED BY <2>1, <2>2, <2>3, <2>4, <1>2 DEF Sound
<1>18. Placed'
  <2>1. EdgesAreLive'
    <3>1. \A e \in edges' : {e[2], e[3]} \subseteq Live'
      <4> TAKE e \in edges'
      <4>1. PICK f \in edges : e = Moved(f)
        BY <1>6
      <4>2. f[2] \in Live /\ f[3] \in Live
        BY LiveFacts
      <4> QED BY <4>1, <4>2, <1>5
    <3>2. \A n \in Nodes : rep'[n] \in Live'
      BY <1>5, LiveFacts
    <3> QED BY <3>1, <3>2 DEF EdgesAreLive
  <2>2. \A other \in pending' : other \subseteq Live'
    BY <1>1, <1>2, <1>5 DEF Placed
  <2>3. todo' = {} /\ left' = {}
    BY <1>1, <1>2 DEF Placed
  <2>4. \A other, another \in pending' : other = another \/ other \cap another = {}
    BY <1>1, <1>2 DEF Placed
  <2> QED BY <2>1, <2>2, <2>3, <2>4, <1>2, <1>6 DEF Placed
<1>19. Remembered'
  <2>1. ASSUME NEW h \in edgeCached, {h[1][2], h[1][3]} \subseteq Live'
        PROVE  h[1] \in edges' /\ Expanded(h[1], h[2])'
    <3> DEFINE e == h[1]
               o == h[2]
               copy == IF e[1] = "load" THEN <<"copy", rep[o], e[3]>>
                                        ELSE <<"copy", e[2], rep[o]>>
               copy2 == IF e[1] = "load" THEN <<"copy", rep'[o], e[3]>>
                                         ELSE <<"copy", e[2], rep'[o]>>
    <3>1. e \in Edge /\ o \in ObjNodes /\ o \in Nodes /\ e = <<e[1], e[2], e[3]>>
      BY <1>1, EdgeFacts, NodeFacts DEF TypeOK
    <3>2. e[1] \in {"load", "store"} /\ e \in edges /\ (copy \in edges \/ SelfCopy(copy))
      BY <2>1, <1>1, <1>2, <1>3, <1>5 DEF Remembered, Expanded, StillToStore
    <3>3. moved(e[2]) = e[2] /\ moved(e[3]) = e[3]
      BY <2>1, <1>5
    <3>4. Moved(e) = e /\ ~SelfCopy(e)
      BY <3>1, <3>2, <3>3 DEF SelfCopy
    <3>5. e \in edges'
      BY <3>2, <3>4, <1>7
    <3>6. Moved(copy) = copy2
      BY <3>1, <3>3, <1>5
    <3>7. copy2 \in edges' \/ SelfCopy(copy2)
      <4>1. CASE copy \in edges
        BY <4>1, <3>6, <1>7
      <4>2. CASE SelfCopy(copy)
        BY <4>2, <3>6 DEF SelfCopy
      <4> QED BY <3>2, <4>1, <4>2
    <3> QED BY <3>5, <3>7 DEF Expanded
  <2>2. CallsAreNotForgotten'
    <3> SUFFICES ASSUME NEW c \in Calls \ resolved, c.fn \in pts'[rep'[c.fp]]
                 PROVE  \E n \in funPtrs' : rep'[n] = rep'[c.fp]
      BY <1>2 DEF CallsAreNotForgotten, Calls
    <3>1. c.fp \in Nodes /\ rep[c.fp] \in Nodes
      BY <1>1, LiveFacts, ProgramFacts DEF TypeOK
    <3>2. CASE rep[c.fp] \in scc
      <4>1. rep'[c.fp] = super /\ rep'[super] = super
        BY <3>1, <3>2, <1>3, <1>5, LiveFacts
      <4>2. super \in funPtrs'
        BY <4>1, <1>2 DEF IsFunctionPtr, Calls
      <4> QED BY <4>1, <4>2
    <3>3. CASE rep[c.fp] \notin scc /\ pts'[rep[c.fp]] = pts[rep[c.fp]]
      <4>1. rep'[c.fp] = rep[c.fp]
        BY <3>1, <3>3, <1>5
      <4>2. PICK n \in funPtrs : rep[n] = rep[c.fp]
        BY <4>1, <3>3, <1>1 DEF Remembered, CallsAreNotForgotten
      <4>3. n \in Nodes
        BY <1>1 DEF TypeOK
      <4> QED BY <4>2, <4>3, <3>1, <1>2, <1>5
    <3>4. CASE rep[c.fp] \notin scc /\ pts'[rep[c.fp]] # pts[rep[c.fp]]
      <4>1. rep'[c.fp] = rep[c.fp]
        BY <3>1, <3>4, <1>5
      <4>2. rep'[c.fp] \in GrownFunPtrs(rep', pts')
        BY <4>1, <3>1, <3>4, <1>5, GrownIsRecorded
      <4>3. rep'[rep'[c.fp]] = rep'[c.fp]
        BY <3>1, <1>5
      <4> QED BY <4>2, <4>3, <1>2
    <3> QED BY <3>2, <3>3, <3>4
  <2> QED BY <2>1, <2>2, <1>1, <1>2 DEF Remembered
<1>20. Advanced'
  <2>1. ASSUME NEW k \in UNION pending', NEW m \in CopySucc(edges', k)
        PROVE  m \in UNION pending'
    <3>1. PICK other \in pending \ {scc} : k \in other
      BY <1>2
    <3>2. k \in Nodes /\ m \in Nodes /\ k \notin scc
      BY <1>1, <1>14, <3>1 DEF Placed, Live, CopySucc
    <3>3. PICK l \in CopySucc(edges, k) : m = moved(l)
      BY <3>2, <1>13
    <3>4. l \notin scc
      BY <3>1, <3>3, <1>2 DEF OnTop, CopySucc
    <3>5. l \in UNION pending
      BY <3>1, <3>3, <1>1, <1>2 DEF Advanced
    <3> QED BY <3>3, <3>4, <3>5, <1>14
  <2>2. ASSUME NEW k \in Live', NEW m \in CopySucc(edges', k) PROVE cached'[k] \subseteq pts'[m]
    <3>1. CASE k = super
      BY <3>1, <1>11, <1>12
    <3>2. CASE k # super
      <4>1. k \in Live /\ k \in Nodes /\ m \in Nodes
        BY <3>2, <1>5 DEF Live, CopySucc
      <4>2. PICK l \in CopySucc(edges, k) : m = moved(l)
        BY <3>2, <4>1, <1>13
      <4>3. cached[k] \subseteq pts[l] /\ l \in Nodes
        BY <4>1, <4>2, <1>1, <1>2 DEF Advanced, CopySucc
      <4>4. pts[l] \subseteq pts'[m]
        BY <4>2, <4>3, <1>10, <1>11
      <4> QED BY <3>2, <4>1, <4>3, <4>4, <1>12
    <3> QED BY <3>1, <3>2
  <2>3. ASSUME NEW k \in Live' \ UNION pending' PROVE pts'[k] \subseteq cached'[k]
    <3>1. CASE k = super
      BY <3>1, <1>11, <1>12
    <3>2. CASE k # super
      <4>1. k \in Live /\ k \in Nodes /\ k \notin scc /\ k \notin UNION pending
        BY <3>2, <1>5, <1>14 DEF Live
      <4>2. pts[k] \subseteq cached[k]
        BY <4>1, <1>1, <1>2 DEF Advanced
      <4>3. k \notin CopySucc(edges', super)
        <5> SUFFICES ASSUME <<"copy", super, k>> \in edges' PROVE FALSE
          BY DEF CopySucc
        <5>1. PICK f \in edges : <<"copy", super, k>> = Moved(f)
          BY <1>6
        <5>2. f = <<f[1], f[2], f[3]>> /\ f[1] = "copy" /\ moved(f[2]) = super /\ moved(f[3]) = k
          BY <5>1, LiveFacts
        <5>3. f[2] \in scc /\ f[3] = k
          BY <5>2, <4>1
        <5>4. k \in CopySucc(edges, f[2])
          BY <5>2, <5>3, <4>1 DEF CopySucc
        <5>5. k \in UNION pending
          BY <5>3, <5>4, <1>1, <1>2 DEF Advanced
        <5> QED BY <5>5, <4>1
      <4> QED BY <3>2, <4>1, <4>2, <4>3, <1>11, <1>12
    <3> QED BY <3>1, <3>2
  <2> QED BY <2>1, <2>2, <2>3, <1>2 DEF Advanced
<1> QED BY <1>15, <1>16, <1>17, <1>18, <1>19, <1>20 DEF Inv

(***************************************************************************)
(* Edges that are added.                                                   *)
(***************************************************************************)

(* A copy to a node that may be collapsed, from a node that has no more in *)
(* any solution, is inserted between the super nodes of the two.           *)
LEMMA InsertedCopies ==
  ASSUME Inv, NEW C \in SUBSET Edge,
         \A c \in C : /\ c[1] = "copy" /\ c[3] \notin Alone
                      /\ Reference[prog][c[2]] \subseteq Reference[prog][c[3]]
  PROVE  /\ \A f \in NewEdges(edges, rep, C) :
               /\ f \in Edge /\ WellFormedEdge(f) /\ Holds(Reference[prog], f)
               /\ f[2] \in Live /\ f[3] \in Live /\ ~SelfCopy(f) /\ f[1] = "copy"
         /\ \A c \in C : LET f == <<"copy", rep[c[2]], rep[c[3]]>>
                         IN  f \in edges \cup NewEdges(edges, rep, C) \/ SelfCopy(f)
<1> DEFINE R == Reference[prog]
<1>1. ASSUME NEW c \in C
      PROVE  /\ Redirected(rep, AsEdge(c)) = <<"copy", rep[c[2]], rep[c[3]]>>
             /\ c[2] \in Nodes /\ c[3] \in Nodes
  BY <1>1, EdgeFacts DEF AsEdge, Redirected
<1>2. ASSUME NEW f \in NewEdges(edges, rep, C)
      PROVE  /\ f \in Edge /\ WellFormedEdge(f) /\ Holds(R, f)
             /\ f[2] \in Live /\ f[3] \in Live /\ ~SelfCopy(f) /\ f[1] = "copy"
  <2>1. ~SelfCopy(f) /\ \E c \in C : f = Redirected(rep, AsEdge(c))
    BY DEF NewEdges
  <2>2. PICK c \in C : f = <<"copy", rep[c[2]], rep[c[3]]>>
    BY <2>1, <1>1
  <2>3. c[2] \in Nodes /\ c[3] \in Nodes
    BY <1>1
  <2>4. f[2] \in Live /\ f[3] \in Live /\ f[2] \in Nodes /\ f[3] \in Nodes
    BY <2>2, <2>3, LiveFacts
  <2>5. R[f[2]] = R[c[2]] /\ R[f[3]] = R[c[3]]
    BY <2>2, <2>3 DEF Inv, Sound
  <2>6. Holds(R, f)
    BY <2>2, <2>5, HoldsFacts
  <2>7. f[3] \notin Alone
    BY <2>2, <2>3 DEF Inv, Shape
  <2>8. WellFormedEdge(f)
    BY <2>2, <2>7 DEF WellFormedEdge, Alone
  <2> QED BY <2>1, <2>2, <2>4, <2>6, <2>8 DEF Edge, Kinds
<1>3. ASSUME NEW c \in C
      PROVE  LET f == <<"copy", rep[c[2]], rep[c[3]]>>
             IN  f \in edges \cup NewEdges(edges, rep, C) \/ SelfCopy(f)
  BY <1>1 DEF NewEdges
<1> QED BY <1>2, <1>3

(* What a larger graph keeps of the invariant.                             *)
LEMMA GraphGrows ==
  ASSUME Inv, NEW new,
         \A f \in new : /\ f \in Edge /\ WellFormedEdge(f) /\ Holds(Reference[prog], f)
                        /\ f[2] \in Live /\ f[3] \in Live /\ ~SelfCopy(f),
         edges' = edges \cup new, todo' \subseteq todo, UNCHANGED <<prog, rep, pending>>
  PROVE  /\ edges' \subseteq Edge /\ todo' \subseteq Edge /\ todo' \subseteq edges'
         /\ Live' = Live /\ Shape' /\ EdgesAreLive'
         /\ \A e \in edges' : ~SelfCopy(e)
         /\ \A e \in edges' \cup todo' : Holds(Reference[prog], e)
<1>1. TypeOK /\ Shape /\ Sound /\ Placed
  BY DEF Inv
<1>2. Live' = Live
  BY DEF Live
<1>3. Shape'
  BY <1>1 DEF Shape
<1>4. EdgesAreLive'
  BY <1>1, <1>2 DEF Placed, EdgesAreLive
<1> QED BY <1>1, <1>2, <1>3, <1>4 DEF TypeOK, Sound, Placed

(* A load or store whose turn it is.                                       *)
LEMMA AccessFacts ==
  ASSUME Inv, NEW e \in todo
  PROVE  /\ e \in Edge /\ e \in edges /\ e[2] \in Live /\ e[3] \in Live
         /\ e[2] \in Nodes /\ e[3] \in Nodes
         /\ WellFormedEdge(e) /\ Holds(Reference[prog], e)
         /\ Fresh(e) \subseteq ObjNodes
         /\ e[1] = "load" => Fresh(e) \subseteq Reference[prog][e[2]]
         /\ e[1] = "store" => Fresh(e) \subseteq Reference[prog][e[3]]
<1>1. e \in edges /\ WellFormedEdge(e) /\ Holds(Reference[prog], e)
  BY DEF Inv, Placed, Shape, Sound
<1>2. e \in Edge /\ e[2] \in Live /\ e[3] \in Live /\ e[2] \in Nodes /\ e[3] \in Nodes
  BY <1>1, LiveFacts
<1>3. \A n \in Nodes : pts[n] \subseteq ObjNodes /\ pts[n] \subseteq Reference[prog][n]
  BY LiveFacts DEF Inv, Sound, WithinReference
<1> QED BY <1>1, <1>2, <1>3 DEF Fresh

(***************************************************************************)
(* Loads, stores and offsets.                                              *)
(***************************************************************************)

(* What a load brings to its destination comes from objects its pointer    *)
(* points to; all of them get their copy edge.                             *)
LEMMA HandleLoadInv ==
  ASSUME Inv, NEW e \in todo, HandleLoad(e) PROVE Inv'
<1> DEFINE R == Reference[prog]
           C == {<<"copy", o, e[3]>> : o \in Fresh(e)}
           new == NewEdges(edges, rep, C)
<1>1. TypeOK /\ Shape /\ Sound /\ Placed /\ Remembered /\ Advanced
  BY DEF Inv
<1>2. /\ pc = "edges" /\ pc' = "deep" /\ e[1] = "load"
      /\ edges' = edges \cup new
      /\ edgeCached' = edgeCached \cup ({e} \X Fresh(e))
      /\ stop' = e[3] /\ todo' = todo \ {e}
      /\ UNCHANGED <<prog, rep, pts, funPtrs, resolved, handled, pending, cached, changed,
                     grey, black, left, path>>
  BY SameFresh DEF HandleLoad, callVars
<1>3. PICK first \in SUBSET Fresh(e) :
        walk' = <<e[3], (UNION {pts[o] : o \in first}) \ pts[e[3]]>>
  BY SameFresh DEF HandleLoad
<1>4. /\ e \in Edge /\ e \in edges /\ e[2] \in Live /\ e[3] \in Live
      /\ e[2] \in Nodes /\ e[3] \in Nodes /\ e[3] \notin Alone
      /\ Fresh(e) \subseteq ObjNodes /\ Fresh(e) \subseteq Nodes
      /\ \A o \in Fresh(e) : R[o] \subseteq R[e[3]]
  <2>1. WellFormedEdge(e) /\ Holds(R, e) /\ Fresh(e) \subseteq R[e[2]]
    BY <1>2, AccessFacts
  <2>2. \A o \in Fresh(e) : R[o] \subseteq R[e[3]]
    BY <2>1, <1>2, HoldsFacts
  <2> QED BY <2>1, <2>2, <1>2, AccessFacts, NodeFacts DEF WellFormedEdge, Alone
<1>5. /\ \A f \in new : /\ f \in Edge /\ WellFormedEdge(f) /\ Holds(R, f)
                        /\ f[2] \in Live /\ f[3] \in Live /\ ~SelfCopy(f) /\ f[1] = "copy"
      /\ \A o \in Fresh(e) : LET f == <<"copy", rep[o], e[3]>> IN f \in edges' \/ SelfCopy(f)
  <2>1. \A c \in C : /\ c \in Edge /\ c[1] = "copy" /\ c[3] \notin Alone
                     /\ R[c[2]] \subseteq R[c[3]]
    BY <1>4 DEF Edge, Kinds
  <2>2. \A o \in Fresh(e) : <<"copy", o, e[3]>> \in C
    OBVIOUS
  <2>3. rep[e[3]] = e[3]
    BY <1>4, LiveFacts
  <2> HIDE DEF C
  <2>4. C \in SUBSET Edge
    BY <2>1
  <2>5. \A f \in new : /\ f \in Edge /\ WellFormedEdge(f) /\ Holds(R, f)
                       /\ f[2] \in Live /\ f[3] \in Live /\ ~SelfCopy(f) /\ f[1] = "copy"
    BY <2>1, <2>4, InsertedCopies
  <2>6. \A c \in C : LET f == <<"copy", rep[c[2]], rep[c[3]]>> IN f \in edges' \/ SelfCopy(f)
    BY <2>1, <2>4, <1>2, InsertedCopies
  <2> HIDE DEF new
  <2> QED BY <2>2, <2>3, <2>5, <2>6
<1> HIDE DEF C, new
<1>6. /\ edges' \subseteq Edge /\ todo' \subseteq Edge /\ todo' \subseteq edges'
      /\ Live' = Live /\ Shape' /\ EdgesAreLive'
      /\ \A f \in edges' : ~SelfCopy(f)
      /\ \A f \in edges' \cup todo' : Holds(R, f)
  <2>1. todo' \subseteq todo
    BY <1>2
  <2> QED BY <2>1, <1>2, <1>5, GraphGrows
<1>7. walk' \in Nodes \X SUBSET ObjNodes /\ walk'[2] \subseteq R[walk'[1]]
  <2>1. \A o \in first : pts[o] \subseteq ObjNodes /\ pts[o] \subseteq R[e[3]]
    BY <1>1, <1>4, LiveFacts DEF Sound, WithinReference
  <2> QED BY <2>1, <1>3, <1>4
<1>8. TypeOK'
  <2>1. edgeCached' \subseteq Edge \X ObjNodes
    BY <1>1, <1>2, <1>4 DEF TypeOK
  <2> QED BY <2>1, <1>1, <1>2, <1>4, <1>6, <1>7 DEF TypeOK, Calls
<1>9. Sound'
  <2>1. left' = {}
    BY <1>1, <1>2 DEF Placed
  <2> QED BY <2>1, <1>1, <1>2, <1>6, <1>7 DEF Sound, WithinReference, Start
<1>10. Placed'
  BY <1>1, <1>2, <1>4, <1>6 DEF Placed
<1>11. Remembered'
  <2>1. ASSUME NEW h \in edgeCached, {h[1][2], h[1][3]} \subseteq Live
        PROVE  h[1] \in edges' /\ Expanded(h[1], h[2])'
    <3>1. h[1] \in edges /\ Expanded(h[1], h[2])
      BY <2>1, <1>1, <1>2 DEF Remembered, StillToStore
    <3> QED BY <3>1, <1>2 DEF Expanded
  <2>2. ASSUME NEW o \in Fresh(e) PROVE Expanded(e, o)'
    BY <1>2, <1>5 DEF Expanded
  <2>3. ASSUME NEW h \in {e} \X Fresh(e)
        PROVE  h[1][1] \in {"load", "store"} /\ h[1] \in edges' /\ Expanded(h[1], h[2])'
    BY <2>2, <1>2, <1>4
  <2>4. CallsAreNotForgotten'
    BY <1>1, <1>2 DEF Remembered, CallsAreNotForgotten, Calls
  <2> QED BY <2>1, <2>3, <2>4, <1>1, <1>2, <1>6 DEF Remembered
<1>12. Advanced'
  <2> SUFFICES ASSUME ~changed, NEW f \in edges' \ todo' PROVE Handled(f)'
    BY <1>2 DEF Advanced
  <2>1. CASE f = e
    BY <2>1, <1>2 DEF Handled, Fresh
  <2>2. CASE f \in new
    BY <2>2, <1>5 DEF Handled
  <2>3. CASE f \in edges \ todo
    <3>1. Handled(f)
      BY <2>3, <1>1, <1>2 DEF Advanced
    <3> QED BY <3>1, <1>2 DEF Handled
  <2> QED BY <2>1, <2>2, <2>3, <1>2
<1> QED BY <1>6, <1>8, <1>9, <1>10, <1>11, <1>12 DEF Inv

(* A store is recorded as handled before any of its copy edges is there.   *)
LEMMA HandleStoreInv ==
  ASSUME Inv, NEW e \in todo, HandleStore(e) PROVE Inv'
<1> DEFINE R == Reference[prog]
<1>1. TypeOK /\ Shape /\ Sound /\ Placed /\ Remembered /\ Advanced
  BY DEF Inv
<1>2. /\ pc = "edges" /\ pc' = "store" /\ e[1] = "store"
      /\ left' = Fresh(e)
      /\ edgeCached' = edgeCached \cup ({e} \X Fresh(e))
      /\ stop' = e[2] /\ todo' = todo \ {e} /\ edges' = edges
      /\ UNCHANGED <<prog, rep, pts, funPtrs, resolved, handled, pending, cached, changed,
                     grey, black, walk, path>>
  BY SameFresh DEF HandleStore, callVars, graphVars
<1>3. /\ e \in Edge /\ e \in edges /\ e[2] \in Live /\ e[2] \in Nodes
      /\ Fresh(e) \subseteq ObjNodes
      /\ \A o \in Fresh(e) : R[e[2]] \subseteq R[o]
  <2>1. Holds(R, e) /\ Fresh(e) \subseteq R[e[3]]
    BY <1>2, AccessFacts
  <2>2. \A o \in Fresh(e) : R[e[2]] \subseteq R[o]
    BY <2>1, <1>2, HoldsFacts
  <2> QED BY <2>2, AccessFacts
<1>4. Live' = Live
  BY <1>2 DEF Live
<1>5. TypeOK'
  <2>1. edgeCached' \subseteq Edge \X ObjNodes
    BY <1>1, <1>2, <1>3 DEF TypeOK
  <2> QED BY <2>1, <1>1, <1>2, <1>3 DEF TypeOK, Calls
<1>6. Shape'
  BY <1>1, <1>2 DEF Shape
<1>7. Sound'
  BY <1>1, <1>2, <1>3 DEF Sound, WithinReference
<1>8. Placed'
  BY <1>1, <1>2, <1>3, <1>4 DEF Placed, EdgesAreLive
<1>9. Remembered'
  <2>1. ASSUME NEW h \in edgeCached, {h[1][2], h[1][3]} \subseteq Live
        PROVE  h[1] \in edges' /\ Expanded(h[1], h[2])'
    <3>1. h[1] \in edges /\ Expanded(h[1], h[2])
      BY <2>1, <1>1, <1>2 DEF Remembered, StillToStore
    <3> QED BY <3>1, <1>2 DEF Expanded
  <2>2. ASSUME NEW h \in {e} \X Fresh(e)
        PROVE  h[1][1] \in {"load", "store"} /\ h[1] \in edges' /\ StillToStore(h[1], h[2])'
    BY <1>2, <1>3 DEF StillToStore
  <2>3. CallsAreNotForgotten'
    BY <1>1, <1>2 DEF Remembered, CallsAreNotForgotten, Calls
  <2> QED BY <2>1, <2>2, <2>3, <1>1, <1>2, <1>4 DEF Remembered
<1>10. Advanced'
  <2> SUFFICES ASSUME ~changed, NEW f \in edges \ todo' PROVE Handled(f)'
    BY <1>2 DEF Advanced
  <2>1. CASE f = e
    BY <2>1, <1>2 DEF Handled, Fresh
  <2>2. CASE f \in edges \ todo
    <3>1. Handled(f)
      BY <2>2, <1>1, <1>2 DEF Advanced
    <3> QED BY <3>1, <1>2 DEF Handled
  <2> QED BY <2>1, <2>2, <1>2
<1> QED BY <1>5, <1>6, <1>7, <1>8, <1>9, <1>10 DEF Inv

(* The next object of a store gets the copy edge the cache speaks of.      *)
LEMMA StoreToInv ==
  ASSUME Inv, NEW o \in left, StoreTo(o) PROVE Inv'
<1> DEFINE R == Reference[prog]
           C == {<<"copy", stop, o>>}
           new == NewEdges(edges, rep, C)
<1>1. TypeOK /\ Shape /\ Sound /\ Placed /\ Remembered /\ Advanced
  BY DEF Inv
<1>2. /\ pc = "store" /\ left' = left \ {o}
      /\ edges' = edges \cup new
      /\ \/ pc' = "store"
         \/ pc' = "deep" /\ walk' = <<o, pts[stop] \ pts[o]>>
      /\ UNCHANGED <<prog, rep, pts, funPtrs, resolved, handled, pending, cached, edgeCached,
                     todo, changed, grey, black, stop, path>>
  BY DEF StoreTo, AddConstraints, callVars
<1>3. /\ stop \in Live /\ stop \in Nodes /\ rep[stop] = stop
      /\ o \in ObjNodes /\ o \in Nodes /\ o \notin Alone /\ R[stop] \subseteq R[o]
  <2>1. stop \in Live /\ o \in ObjNodes /\ R[stop] \subseteq R[o]
    BY <1>1, <1>2 DEF Placed, TypeOK, Sound
  <2> QED BY <2>1, LiveFacts, NodeFacts
<1>4. /\ \A f \in new : /\ f \in Edge /\ WellFormedEdge(f) /\ Holds(R, f)
                        /\ f[2] \in Live /\ f[3] \in Live /\ ~SelfCopy(f) /\ f[1] = "copy"
      /\ <<"copy", stop, rep[o]>> \in edges' \/ SelfCopy(<<"copy", stop, rep[o]>>)
  <2>1. \A c \in C : /\ c \in Edge /\ c[1] = "copy" /\ c[3] \notin Alone
                     /\ R[c[2]] \subseteq R[c[3]]
    BY <1>3 DEF Edge, Kinds
  <2>2. <<"copy", stop, o>> \in C
    OBVIOUS
  <2> HIDE DEF C
  <2>3. C \in SUBSET Edge
    BY <2>1
  <2>4. \A f \in new : /\ f \in Edge /\ WellFormedEdge(f) /\ Holds(R, f)
                       /\ f[2] \in Live /\ f[3] \in Live /\ ~SelfCopy(f) /\ f[1] = "copy"
    BY <2>1, <2>3, InsertedCopies
  <2>5. \A c \in C : LET f == <<"copy", rep[c[2]], rep[c[3]]>> IN f \in edges' \/ SelfCopy(f)
    BY <2>1, <2>3, <1>2, InsertedCopies
  <2> HIDE DEF new
  <2> QED BY <2>2, <2>4, <2>5, <1>3
<1> HIDE DEF C, new
<1>5. /\ edges' \subseteq Edge /\ todo' \subseteq Edge /\ todo' \subseteq edges'
      /\ Live' = Live /\ Shape' /\ EdgesAreLive'
      /\ \A f \in edges' : ~SelfCopy(f)
      /\ \A f \in edges' \cup todo' : Holds(R, f)
  <2>1. todo' \subseteq todo
    BY <1>2
  <2> QED BY <2>1, <1>2, <1>4, GraphGrows
<1>6. pc' = "deep" => walk' \in Nodes \X SUBSET ObjNodes /\ walk'[2] \subseteq R[walk'[1]]
  <2>1. pts[stop] \subseteq ObjNodes /\ pts[stop] \subseteq R[o]
    BY <1>1, <1>3, LiveFacts DEF Sound, WithinReference
  <2> QED BY <2>1, <1>2, <1>3
<1>7. TypeOK'
  BY <1>1, <1>2, <1>3, <1>5, <1>6 DEF TypeOK, Calls
<1>8. Sound'
  BY <1>1, <1>2, <1>5, <1>6 DEF Sound, WithinReference, Start
<1>9. Placed'
  BY <1>1, <1>2, <1>3, <1>5 DEF Placed
<1>10. Remembered'
  <2>1. ASSUME NEW h \in edgeCached, {h[1][2], h[1][3]} \subseteq Live
        PROVE  h[1] \in edges' /\ (Expanded(h[1], h[2])' \/ StillToStore(h[1], h[2])')
    <3>1. h[1] \in edges /\ (Expanded(h[1], h[2]) \/ StillToStore(h[1], h[2]))
      BY <2>1, <1>1 DEF Remembered
    <3>2. CASE Expanded(h[1], h[2])
      BY <3>1, <3>2, <1>2 DEF Expanded
    <3>3. CASE StillToStore(h[1], h[2]) /\ h[2] = o
      BY <3>1, <3>3, <1>2, <1>4 DEF Expanded, StillToStore
    <3>4. CASE StillToStore(h[1], h[2]) /\ h[2] # o
      BY <3>1, <3>4, <1>2 DEF StillToStore
    <3> QED BY <3>1, <3>2, <3>3, <3>4
  <2>2. CallsAreNotForgotten'
    BY <1>1, <1>2 DEF Remembered, CallsAreNotForgotten, Calls
  <2> QED BY <2>1, <2>2, <1>1, <1>2, <1>5 DEF Remembered
<1>11. Advanced'
  <2> SUFFICES ASSUME ~changed, NEW f \in edges' \ todo' PROVE Handled(f)'
    BY <1>2 DEF Advanced
  <2>1. CASE f \in new
    BY <2>1, <1>4 DEF Handled
  <2>2. CASE f \in edges \ todo
    <3>1. Handled(f)
      BY <2>2, <1>1, <1>2 DEF Advanced
    <3> QED BY <3>1, <1>2 DEF Handled
  <2> QED BY <2>1, <2>2, <1>2
<1> QED BY <1>5, <1>7, <1>8, <1>9, <1>10, <1>11 DEF Inv

(* The store has reached every object: each has its copy edge.             *)
LEMMA EndEdgeInv == Inv /\ EndEdge => Inv'
<1> SUFFICES ASSUME Inv, EndEdge PROVE Inv'
  OBVIOUS
<1>1. TypeOK /\ Shape /\ Sound /\ Placed /\ Remembered /\ Advanced
  BY DEF Inv
<1>2. /\ pc = "store" /\ pc' = "edges" /\ left = {} /\ black' = {}
      /\ UNCHANGED <<prog, edges, rep, pts, funPtrs, resolved, handled, pending, cached,
                     edgeCached, todo, changed, grey, left, walk, path>>
  BY DEF EndEdge, graphVars, callVars
<1>3. Live' = Live
  BY <1>2 DEF Live
<1>4. TypeOK'
  BY <1>1, <1>2 DEF TypeOK, Calls
<1>5. Shape'
  BY <1>1, <1>2 DEF Shape
<1>6. Sound'
  BY <1>1, <1>2 DEF Sound, WithinReference
<1>7. Placed'
  BY <1>1, <1>2, <1>3 DEF Placed, EdgesAreLive
<1>8. Remembered'
  <2>1. \A h \in edgeCached : {h[1][2], h[1][3]} \subseteq Live =>
                                h[1] \in edges' /\ Expanded(h[1], h[2])'
    BY <1>1, <1>2 DEF Remembered, Expanded, StillToStore
  <2> QED BY <2>1, <1>1, <1>2, <1>3 DEF Remembered, CallsAreNotForgotten, Calls
<1>9. Advanced'
  BY <1>1, <1>2 DEF Advanced, Handled
<1> QED BY <1>4, <1>5, <1>6, <1>7, <1>8, <1>9 DEF Inv

(* The address of every field flows to the getelementptr pointer from the  *)
(* field's anonymous pointer; neither is ever collapsed.                   *)
LEMMA HandleOffsetInv ==
  ASSUME Inv, NEW e \in todo, HandleOffset(e) PROVE Inv'
<1> DEFINE R == Reference[prog]
           g == e[3]
           newGEPs == {o \in pts[e[2]] : <<g, o>> \notin handled}
           fields == {IndexObject[g][o] : o \in newGEPs} \ ({NoObj} \cup pts[g])
           C == {"addr_of"} \X fields \X {g}
           new == NewEdges(edges, rep, C)
<1>1. TypeOK /\ Shape /\ Sound /\ Placed /\ Remembered /\ Advanced
  BY DEF Inv
<1>2. /\ pc = "edges" /\ e[1] = "offset" /\ pc' = "edges"
      /\ edges' = edges \cup new
      /\ pts' = [pts EXCEPT ![g] = @ \cup fields]
      /\ funPtrs' = funPtrs \cup GrownFunPtrs(rep, pts')
      /\ changed' = (changed \/ fields # {})
      /\ handled' = handled \cup ({g} \X newGEPs)
      /\ todo' = todo \ {e}
      /\ UNCHANGED <<prog, rep, resolved, cached, edgeCached, pending,
                     grey, black, stop, left, walk, path>>
  BY HandleOffsetStep DEF AddConstraints
<1>3. /\ e[2] \in Nodes /\ g \in GepNodes /\ g \in Nodes /\ Holds(R, e)
      /\ R \in Assignment /\ \A o \in ObjNodes : R[AnonNode(o)] = {o}
  BY <1>1, <1>2, AccessFacts, ProgramFacts DEF WellFormedEdge, TypeOK
<1>4. newGEPs \subseteq ObjNodes /\ newGEPs \subseteq R[e[2]]
  BY <1>1, <1>3, LiveFacts DEF Sound, WithinReference
<1>5. ASSUME NEW f \in fields
      PROVE  f \in ObjNodes /\ f \in R[g]
  <2>1. PICK o \in newGEPs : f = IndexObject[g][o] /\ f # NoObj
    OBVIOUS
  <2>2. f \in ObjNodes
    <3>1. o \in ObjNodes /\ g \in GepNodes
      BY <1>3, <1>4
    <3> HIDE DEF newGEPs, fields, g
    <3>2. IndexObject[g] \in [ObjNodes -> ObjNodes \cup {NoObj}]
      BY <3>1, NodesAssumption
    <3> QED BY <2>1, <3>1, <3>2
  <2>3. f \in R[g]
    BY <2>1, <1>2, <1>3, <1>4, HoldsFacts
  <2> QED BY <2>2, <2>3
<1> HIDE DEF fields, newGEPs
<1>6. ASSUME NEW d \in new
      PROVE  /\ d \in Edge /\ WellFormedEdge(d) /\ Holds(R, d)
             /\ d[2] \in Live /\ d[3] \in Live /\ ~SelfCopy(d) /\ d[1] = "copy"
  <2>1. PICK f \in fields : d = Redirected(rep, AsEdge(<<"addr_of", f, g>>))
    BY DEF NewEdges
  <2>2. AnonNode(f) \in AnonNodes /\ AnonNode(f) \in Nodes /\ g \in Nodes /\ g \notin AnonNodes
    BY <1>3, <1>5, NodeFacts
  <2>3. rep[AnonNode(f)] = AnonNode(f) /\ rep[g] = g
    BY <1>1, <1>3, <2>2 DEF Shape, Alone
  <2>4. d = <<"copy", AnonNode(f), g>>
    BY <2>1, <2>3 DEF AsEdge, Redirected
  <2>5. R[AnonNode(f)] \subseteq R[g]
    BY <1>3, <1>5
  <2>6. Holds(R, d)
    BY <2>4, <2>5, HoldsFacts
  <2> QED BY <2>2, <2>3, <2>4, <2>6 DEF Edge, Kinds, WellFormedEdge, Live, SelfCopy
<1>7. fields = {} => new = {}
  BY DEF NewEdges
<1> HIDE DEF new, C
<1>8. /\ edges' \subseteq Edge /\ todo' \subseteq Edge /\ todo' \subseteq edges'
      /\ Live' = Live /\ Shape' /\ EdgesAreLive'
      /\ \A f \in edges' : ~SelfCopy(f)
      /\ \A f \in edges' \cup todo' : Holds(R, f)
  <2>1. todo' \subseteq todo
    BY <1>2
  <2> QED BY <2>1, <1>2, <1>6, GraphGrows
<1>9. pts' \in Assignment /\ \A m \in Nodes : pts'[m] \subseteq R[m]
  <2>1. pts \in Assignment /\ \A m \in Nodes : pts[m] \subseteq R[m]
    BY <1>1 DEF TypeOK, Sound, WithinReference
  <2>2. pts' = [pts EXCEPT ![g] = @ \cup fields] /\ g \in Nodes
    BY <1>2, <1>3
  <2>3. fields \subseteq ObjNodes /\ fields \subseteq R[g]
    BY <1>5
  <2> HIDE DEF R, g
  <2> QED BY <2>1, <2>2, <2>3 DEF Assignment
<1>10. TypeOK'
  <2>1. handled' \subseteq GepNodes \X ObjNodes
    BY <1>1, <1>2, <1>3, <1>4 DEF TypeOK
  <2>2. changed' \in BOOLEAN /\ funPtrs' \subseteq Nodes
    BY <1>1, <1>2 DEF TypeOK, GrownFunPtrs
  <2> QED BY <1>1, <1>2, <1>8, <1>9, <2>1, <2>2 DEF TypeOK, Calls
<1>11. Sound'
  <2>1. WithinReference'
    BY <1>2, <1>9 DEF WithinReference
  <2> QED BY <2>1, <1>1, <1>2, <1>8 DEF Sound
<1>12. Placed'
  BY <1>1, <1>2, <1>8 DEF Placed
<1>13. Remembered'
  <2>1. CallsAreNotForgotten'
    BY <1>2, CallsStayRemembered
  <2>2. \A h \in edgeCached : {h[1][2], h[1][3]} \subseteq Live =>
                                h[1] \in edges' /\ Expanded(h[1], h[2])'
    BY <1>1, <1>2 DEF Remembered, Expanded, StillToStore
  <2> QED BY <2>1, <2>2, <1>1, <1>2, <1>8 DEF Remembered
<1>14. Advanced'
  <2> SUFFICES ASSUME ~changed', NEW f \in edges' \ todo' PROVE Handled(f)'
    BY <1>2 DEF Advanced
  <2>1. ~changed /\ fields = {} /\ edges' = edges
    BY <1>1, <1>2, <1>7 DEF TypeOK
  <2>2. \A m \in Nodes : pts'[m] = pts[m]
    BY <2>1, <1>2, LiveFacts
  <2>3. CASE f = e
    BY <2>3, <1>2 DEF Handled
  <2>4. CASE f \in edges \ todo
    <3>1. Handled(f)
      BY <2>1, <2>4, <1>1, <1>2 DEF Advanced
    <3>2. f[2] \in Nodes /\ f[3] \in Nodes
      BY <2>4, LiveFacts
    <3> QED BY <3>1, <3>2, <2>2, <1>2 DEF Handled
  <2> QED BY <2>1, <2>3, <2>4, <1>2
<1> QED BY <1>8, <1>10, <1>11, <1>12, <1>13, <1>14 DEF Inv

(***************************************************************************)
(* The walk.                                                               *)
(***************************************************************************)

(* What the steps of a walk have in common: sets grow within the solution  *)
(* and only when changed is set, and what is brought to the next node, the *)
(* node has in the solution too.                                           *)
LEMMA WalkInv ==
  ASSUME Inv, pc = "deep",
         pts' \in Assignment, WithinReference', CallsAreNotForgotten',
         funPtrs' \subseteq Nodes, changed' \in BOOLEAN,
         ~changed' => pts' = pts /\ ~changed,
         grey' \subseteq Nodes, black' \subseteq Nodes, path' \subseteq Nodes,
         \/ pc' = "store"
         \/ /\ pc' = "deep" /\ walk' \in Nodes \X SUBSET ObjNodes
            /\ walk'[2] \subseteq Reference[prog][walk'[1]],
         UNCHANGED <<prog, edges, rep, resolved, handled, pending, cached, edgeCached,
                     todo, stop, left>>
  PROVE  Inv'
<1>1. TypeOK /\ Shape /\ Sound /\ Placed /\ Remembered /\ Advanced
  BY DEF Inv
<1>2. Live' = Live
  BY DEF Live
<1>3. TypeOK'
  BY <1>1 DEF TypeOK, Calls
<1>4. Shape'
  BY <1>1 DEF Shape
<1>5. Sound'
  BY <1>1 DEF Sound, Start
<1>6. Placed'
  BY <1>1, <1>2 DEF Placed, EdgesAreLive
<1>7. Remembered'
  BY <1>1, <1>2 DEF Remembered, Expanded, StillToStore
<1>8. Advanced'
  BY <1>1 DEF Advanced, Handled
<1> QED BY <1>3, <1>4, <1>5, <1>6, <1>7, <1>8 DEF Inv

(* Where a walk is.                                                        *)
LEMMA WalkFacts ==
  ASSUME Inv, pc = "deep"
  PROVE  /\ Start \in Nodes /\ Diff \subseteq ObjNodes
         /\ Diff \subseteq Reference[prog][Start]
         /\ grey \subseteq Nodes /\ black \subseteq Nodes /\ path \subseteq Nodes
<1>1. walk \in Nodes \X SUBSET ObjNodes /\ walk[2] \subseteq Reference[prog][Start]
  BY DEF Inv, TypeOK, Sound
<1> QED BY <1>1 DEF Start, Diff, Inv, TypeOK

LEMMA WalkReturnsInv ==
  ASSUME Inv, WalkColoured \/ WalkNothingNew PROVE Inv'
<1>1. /\ pc = "deep"
      /\ UNCHANGED <<prog, edges, rep, pts, funPtrs, resolved, handled, pending, cached,
                     edgeCached, todo, changed, stop, left>>
  BY DEF WalkColoured, WalkNothingNew, graphVars, callVars
<1>2. grey' \subseteq Nodes /\ black' \subseteq Nodes /\ path' \subseteq Nodes /\ pc' = "store"
  <2>1. CASE WalkColoured
    BY <1>1, <2>1, WalkFacts DEF WalkColoured, Return
  <2>2. CASE WalkNothingNew
    BY <1>1, <2>2, WalkFacts DEF WalkNothingNew, Return
  <2> QED BY <2>1, <2>2
<1>3. pts' \in Assignment /\ WithinReference' /\ CallsAreNotForgotten'
      /\ funPtrs' \subseteq Nodes /\ changed' \in BOOLEAN
  BY <1>1 DEF Inv, TypeOK, Sound, WithinReference, Remembered, CallsAreNotForgotten, Calls
<1> QED BY <1>1, <1>2, <1>3, WalkInv

(* A copy edge leads on: its destination has everything that its source    *)
(* has in the solution.                                                    *)
LEMMA WalkOnInv == Inv /\ WalkOn => Inv'
<1> SUFFICES ASSUME Inv, WalkOn PROVE Inv'
  OBVIOUS
<1> DEFINE R == Reference[prog]
<1>1. /\ pc = "deep"
      /\ pts' = [pts EXCEPT ![Start] = @ \cup Diff]
      /\ funPtrs' = funPtrs \cup GrownFunPtrs(rep, pts')
      /\ changed' = TRUE
      /\ UNCHANGED <<prog, edges, rep, resolved, handled, pending, cached, edgeCached,
                     todo, stop, left>>
  BY DEF WalkOn, Receive, graphVars
<1>2. /\ Start \in Nodes /\ Diff \subseteq ObjNodes /\ Diff \subseteq R[Start]
      /\ grey \subseteq Nodes /\ black \subseteq Nodes /\ path \cup {Start} \subseteq Nodes
  BY <1>1, WalkFacts
<1>3. /\ grey' \subseteq Nodes /\ black' \subseteq Nodes /\ path' \subseteq Nodes
      /\ \/ pc' = "store"
         \/ /\ pc' = "deep" /\ walk' \in Nodes \X SUBSET ObjNodes
            /\ walk'[2] \subseteq R[walk'[1]]
  <2>1. CASE \E found \in BOOLEAN : Return(found, path \cup {Start})
    BY <1>2, <2>1 DEF Return
  <2>2. CASE \E m \in CopySucc(edges, Start) :
                /\ walk' = <<m, Diff>> /\ path' = path \cup {Start}
                /\ UNCHANGED <<grey, black, pc>>
    <3>1. PICK m \in CopySucc(edges, Start) :
                /\ walk' = <<m, Diff>> /\ path' = path \cup {Start}
                /\ UNCHANGED <<grey, black, pc>>
      BY <2>2
    <3>2. m \in Nodes /\ <<"copy", Start, m>> \in edges
      BY DEF CopySucc
    <3>3. R[Start] \subseteq R[m]
      BY <3>2, HoldsFacts DEF Inv, Sound
    <3> QED BY <3>1, <3>2, <3>3, <1>1, <1>2
  <2> QED BY <2>1, <2>2 DEF WalkOn
<1>4. pts' \in Assignment /\ \A m \in Nodes : pts'[m] \subseteq R[m]
  BY <1>1, <1>2, LiveFacts DEF Inv, Sound, WithinReference, Assignment
<1>5. WithinReference' /\ funPtrs' \subseteq Nodes
  BY <1>1, <1>4 DEF WithinReference, GrownFunPtrs, Inv, TypeOK
<1>6. CallsAreNotForgotten'
  BY <1>1, CallsStayRemembered
<1> QED BY <1>1, <1>3, <1>4, <1>5, <1>6, WalkInv

(***************************************************************************)
(* Binding calls.                                                          *)
(***************************************************************************)

(* A call is bound to a function only when the solution has the function   *)
(* in the pointer's set too, and every call that has to be looked at is.   *)
LEMMA ResolveFunPtrsInv == Inv /\ ResolveFunPtrs => Inv'
<1> SUFFICES ASSUME Inv, ResolveFunPtrs PROVE Inv'
  OBVIOUS
<1> DEFINE R == Reference[prog]
           C == UNION {c.cons : c \in NewTargets}
           new == NewEdges(edges, rep, C)
<1>1. TypeOK /\ Shape /\ Sound /\ Placed /\ Remembered /\ Advanced
  BY DEF Inv
<1>2. /\ pc = "resolve"
      /\ edges' = edges \cup new
      /\ resolved' = resolved \cup NewTargets
      /\ funPtrs' = {}
      /\ \/ pc' = "done" /\ cached' = cached
         \/ pc' = "round" /\ cached' = [n \in Nodes |-> {}]
      /\ UNCHANGED <<prog, rep, pts, handled, edgeCached, pending, todo, changed,
                     grey, black, stop, left, walk, path>>
  BY ResolveFunPtrsStep DEF AddConstraints
<1>3. /\ R \in Assignment /\ \A o \in ObjNodes : R[AnonNode(o)] = {o}
      /\ \A c \in Calls : /\ c.fp \in Nodes
                          /\ c.cons \subseteq Constraint
                          /\ c.fn \in R[c.fp] => \A k \in c.cons : Holds(R, k)
  BY <1>1, ProgramFacts DEF TypeOK
<1>4. ASSUME NEW c \in NewTargets
      PROVE  c \in Calls /\ \A k \in c.cons : k \in Constraint /\ Holds(R, k)
  <2>1. c \in Calls /\ c.fn \in pts[rep[c.fp]]
    BY DEF NewTargets
  <2>2. c.fp \in Nodes /\ rep[c.fp] \in Nodes
    BY <1>1, <1>3, <2>1 DEF TypeOK
  <2>3. c.fn \in R[c.fp]
    BY <1>1, <2>1, <2>2 DEF Sound, WithinReference
  <2> QED BY <1>3, <2>1, <2>3
<1>5. /\ rep \in [Nodes -> Nodes]
      /\ \A n \in Nodes : R[rep[n]] = R[n]
      /\ \A x \in Alone : \A n \in Nodes : rep[n] = x <=> n = x
  BY <1>1 DEF TypeOK, Sound, Shape
<1>6. ASSUME NEW d \in new
      PROVE  /\ d \in Edge /\ WellFormedEdge(d) /\ Holds(R, d)
             /\ d[2] \in Live /\ d[3] \in Live /\ ~SelfCopy(d)
  <2>1. ~SelfCopy(d) /\ \E k \in C : d = Redirected(rep, AsEdge(k))
    BY DEF NewEdges
  <2>2. PICK k \in C : d = Redirected(rep, AsEdge(k))
    BY <2>1
  <2>3. k \in Constraint /\ Holds(R, k)
    BY <2>2, <1>4
  <2>4. d[2] \in Live /\ d[3] \in Live
    <3> DEFINE a == AsEdge(k)
    <3>1. a[2] \in Nodes /\ a[3] \in Nodes
      BY <2>3, <1>5, RedirectedFacts, EdgeFacts
    <3>2. d[2] = rep[a[2]] /\ d[3] = rep[a[3]]
      BY <2>2 DEF Redirected
    <3> HIDE DEF a
    <3> QED BY <3>1, <3>2, LiveFacts
  <2>5. d \in Edge /\ WellFormedEdge(d) /\ Holds(R, d)
    <3> HIDE DEF R
    <3> QED BY <2>2, <2>3, <1>3, <1>5, ConstraintEdge
  <2> QED BY <2>1, <2>4, <2>5
<1> HIDE DEF new, C
<1>7. /\ edges' \subseteq Edge /\ todo' \subseteq Edge /\ todo' \subseteq edges'
      /\ Live' = Live /\ Shape' /\ EdgesAreLive'
      /\ \A f \in edges' : ~SelfCopy(f)
      /\ \A f \in edges' \cup todo' : Holds(R, f)
  <2>1. todo' \subseteq todo
    BY <1>2
  <2> QED BY <2>1, <1>2, <1>6, GraphGrows
<1>8. TypeOK'
  <2>1. resolved' \subseteq Calls
    BY <1>1, <1>2, <1>4 DEF TypeOK
  <2>2. cached' \in Assignment
    BY <1>1, <1>2 DEF TypeOK, Assignment
  <2> QED BY <1>1, <1>2, <1>7, <2>1, <2>2 DEF TypeOK, Calls
<1>9. Sound'
  BY <1>1, <1>2, <1>7 DEF Sound, WithinReference
<1>10. Placed'
  BY <1>1, <1>2, <1>7 DEF Placed
<1>11. Remembered'
  <2>1. CallsAreNotForgotten'
    <3> SUFFICES ASSUME NEW c \in Calls \ resolved', c.fn \in pts[rep[c.fp]] PROVE FALSE
      BY <1>2 DEF CallsAreNotForgotten, Calls
    <3>1. c \in Calls \ resolved /\ c \notin NewTargets
      BY <1>2
    <3>2. \E n \in funPtrs : rep[n] = rep[c.fp]
      BY <3>1, <1>1 DEF Remembered, CallsAreNotForgotten
    <3> QED BY <3>1, <3>2 DEF NewTargets
  <2>2. \A h \in edgeCached : {h[1][2], h[1][3]} \subseteq Live =>
                                h[1] \in edges' /\ Expanded(h[1], h[2])'
    BY <1>1, <1>2 DEF Remembered, Expanded, StillToStore
  <2> QED BY <2>1, <2>2, <1>1, <1>2, <1>7 DEF Remembered
<1>12. Advanced'
  BY <1>2 DEF Advanced
<1> QED BY <1>7, <1>8, <1>9, <1>10, <1>11, <1>12 DEF Inv

(***************************************************************************)
(* The theorems.                                                           *)
(***************************************************************************)

(* Inv is inductive.                                                       *)
THEOREM InvHolds == Spec => []Inv
<1>1. Init => Inv
  BY InitInv
<1>2. Inv /\ [Next]_vars => Inv'
  <2> SUFFICES ASSUME Inv, [Next]_vars PROVE Inv'
    OBVIOUS
  <2>1. CASE BeginSolver
    BY <2>1, BeginSolverInv
  <2>2. CASE \E n \in Nodes : PropagateNode(n)
    BY <2>2, PropagateNodeInv
  <2>3. CASE \E scc \in pending : \E super \in scc : CollapseCycle(scc, super)
    BY <2>3, CollapseCycleInv
  <2>4. CASE EndWave
    BY <2>4, EndWaveInv
  <2>5. CASE \E e \in todo : HandleLoad(e) \/ HandleStore(e) \/ HandleOffset(e)
    BY <2>5, HandleLoadInv, HandleStoreInv, HandleOffsetInv
  <2>6. CASE \E o \in left : StoreTo(o)
    BY <2>6, StoreToInv
  <2>7. CASE EndEdge
    BY <2>7, EndEdgeInv
  <2>8. CASE WalkColoured \/ WalkNothingNew
    BY <2>8, WalkReturnsInv
  <2>9. CASE WalkOn
    BY <2>9, WalkOnInv
  <2>10. CASE EndPass
    BY <2>10, EndPassInv
  <2>11. CASE ResolveFunPtrs
    BY <2>11, ResolveFunPtrsInv
  <2>12. CASE UNCHANGED vars
    <3>1. TypeOK' /\ Shape' /\ Sound'
      BY <2>12 DEF Inv, TypeOK, Shape, Sound, WithinReference, Start, Calls,
                   vars, graphVars, callVars, deepVars
    <3>2. Live' = Live
      BY <2>12 DEF vars, graphVars, Live
    <3>3. Placed' /\ Remembered' /\ Advanced'
      BY <2>12, <3>2 DEF Inv, Placed, EdgesAreLive, Remembered, Expanded, StillToStore,
                   CallsAreNotForgotten, Calls, Advanced, Handled,
                   vars, graphVars, callVars, deepVars
    <3> QED BY <3>1, <3>3 DEF Inv
  <2> QED BY <2>1, <2>2, <2>3, <2>4, <2>5, <2>6, <2>7, <2>8, <2>9, <2>10, <2>11, <2>12 DEF Next
<1> QED BY <1>1, <1>2, PTL DEF Spec

(* The solver never leaves the sets it works on.                           *)
THEOREM TypeCorrect == Spec => []TypeOK
<1>1. Inv => TypeOK
  BY DEF Inv
<1> QED BY <1>1, InvHolds, PTL

(* Whatever paths the walks of deepPropagate take, and however they are    *)
(* coloured, nothing gets into a points-to set that some solution of the   *)
(* program does not have there.                                            *)
THEOREM Soundness == Spec => []WithinReference
<1>1. Inv => WithinReference
  BY DEF Inv, Sound
<1> QED BY <1>1, InvHolds, PTL

(* A function pointer that a wave, a walk or an offset has changed, or     *)
(* that was collapsed, is looked at before solve() returns.                *)
THEOREM NoCallIsForgotten == Spec => []CallsAreNotForgotten
<1>1. Inv => CallsAreNotForgotten
  BY DEF Inv, Remembered
<1> QED BY <1>1, InvHolds, PTL

(* The one wave of runSolver leaves no copy edge unsatisfied.              *)
THEOREM OneWaveIsEnough == Spec => []WaveSettles
<1>1. Inv => WaveSettles
  <2> SUFFICES ASSUME Inv, pc = "wave", pending = {}, NEW e \in edges, e[1] = "copy"
               PROVE  pts[e[2]] \subseteq pts[e[3]]
    BY DEF WaveSettles
  <2>1. e[2] \in Live /\ e[3] \in Nodes /\ <<"copy", e[2], e[3]>> \in edges
    BY LiveFacts
  <2>2. e[3] \in CopySucc(edges, e[2])
    BY <2>1 DEF CopySucc
  <2> QED BY <2>1, <2>2 DEF Inv, Advanced
<1> QED BY <1>1, InvHolds, PTL

(* The per edge cache and the flag changed do not end the passes early:    *)
(* when they end, each load and store has its copy edges.                  *)
THEOREM PassesAreEnough == Spec => []AccessesExpanded
<1>1. Inv => AccessesExpanded
  <2> SUFFICES ASSUME Inv, pc = "resolve", NEW e \in edges, e[1] \in {"load", "store"},
                      NEW o \in pts[IF e[1] = "store" THEN e[3] ELSE e[2]]
               PROVE  Expanded(e, o)
    BY DEF AccessesExpanded, Expanded, SelfCopy
  <2>1. todo = {} /\ ~changed
    BY DEF Inv, Placed, Advanced
  <2>2. Handled(e)
    BY <2>1 DEF Inv, Advanced
  <2>3. <<e, o>> \in edgeCached
    BY <2>2 DEF Handled
  <2>4. {e[2], e[3]} \subseteq Live
    BY LiveFacts
  <2> DEFINE h == <<e, o>>
  <2>5. h[1] = e /\ h[2] = o
    OBVIOUS
  <2>6. Expanded(h[1], h[2]) \/ StillToStore(h[1], h[2])
    BY <2>3, <2>4, <2>5 DEF Inv, Remembered
  <2> QED BY <2>5, <2>6 DEF StillToStore
<1> QED BY <1>1, InvHolds, PTL

(* No edge is ever left at a collapsed node.                               *)
THEOREM EdgesStayLive == Spec => []EdgesAreLive
<1>1. Inv => EdgesAreLive
  BY DEF Inv, Placed
<1> QED BY <1>1, InvHolds, PTL

(* No getelementptr pointer is ever collapsed with another node.           *)
THEOREM OffsetCastsAreSafe == Spec => []GepsStayAlone
<1>1. Inv => GepsStayAlone
  BY NodeFacts DEF Inv, Shape, Alone, GepsStayAlone
<1> QED BY <1>1, InvHolds, PTL

=============================================================================
