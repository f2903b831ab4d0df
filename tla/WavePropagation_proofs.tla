----------------------- MODULE WavePropagation_proofs -----------------------
(***************************************************************************)
(* Proofs about the wave propagation solver, for every program and every   *)
(* constraint graph.                                                       *)
(***************************************************************************)
EXTENDS WavePropagation, SolverBase_proofs, TLAPS

(***************************************************************************)
(* The invariant holds initially.                                          *)
(***************************************************************************)
LEMMA InitSound == Init => SoundInv
<1> SUFFICES ASSUME Init PROVE SoundInv
  OBVIOUS
<1> DEFINE R == Reference[prog]
<1> USE DEF Init, SolverInit
<1>0. rep \in [Nodes -> Nodes] /\ \A n \in Nodes : rep[n] = n
  OBVIOUS
<1>1. ASSUME NEW e \in edges PROVE e \in Edge /\ WellFormedEdge(e) /\ Holds(R, e)
  <2>1. PICK c \in Program[prog].base : e = Redirected(rep, AsEdge(c))
    BY DEF AddConstraints, NewEdges
  <2>2. c \in Constraint /\ Holds(R, c) /\ R \in Assignment
        /\ \A o \in ObjNodes : R[AnonNode(o)] = {o}
    BY <2>1, ProgramFacts
  <2> QED BY <2>1, <2>2, <1>0, ConstraintEdge
<1>2. TypeOK
  <2>1. edges \subseteq Edge
    BY <1>1
  <2>2. pts \in Assignment /\ cached \in Assignment
    BY DEF Assignment
  <2> QED BY <1>0, <2>1, <2>2 DEF TypeOK
<1>3. Shape
  BY <1>0, <1>1 DEF Shape
<1>4. Sound
  <2>1. \A n \in Nodes : pts[n] \subseteq R[n]
    BY ProgramFacts
  <2> QED BY <1>0, <1>1, <2>1 DEF Sound
<1> QED BY <1>2, <1>3, <1>4 DEF SoundInv

(***************************************************************************)
(* Every step preserves it.  First the two ways in which sets grow.        *)
(***************************************************************************)

(* Adding copies that every solution satisfies, and carrying the sources   *)
(* over, keeps the shape of the graph and the sets within the solution.    *)
LEMMA AddCopiesFacts ==
  ASSUME SoundInv, NEW new \in SUBSET Edge,
         \A e \in new : e[1] = "copy" /\ WellFormedEdge(e) /\ Holds(Reference[prog], e),
         AddCopies(new), UNCHANGED <<prog, rep, pending>>, todo' \subseteq todo
  PROVE  /\ edges' \subseteq Edge /\ pts' \in Assignment
         /\ funPtrs' \subseteq Nodes /\ changed' \in BOOLEAN
         /\ Shape' /\ Sound'
<1> DEFINE R == Reference[prog]
<1>1. /\ edges' = edges \cup new
      /\ pts' = [m \in Nodes |-> pts[m] \cup UNION {pts[e[2]] : e \in {f \in new : f[3] = m}}]
      /\ funPtrs' = funPtrs \cup GrownFunPtrs(rep, pts')
      /\ changed' = (changed \/ new # {})
  BY DEF AddCopies
<1>2. TypeOK /\ Shape /\ Sound
  BY DEF SoundInv
<1>3. R \in Assignment
  BY <1>2, ProgramFacts DEF TypeOK
<1>4. \A e \in new : e[2] \in Nodes /\ e[3] \in Nodes /\ R[e[2]] \subseteq R[e[3]]
  <2> TAKE e \in new
  <2>1. e \in Edge /\ e[1] = "copy" /\ Holds(R, e)
    OBVIOUS
  <2> QED BY <2>1, EdgeFacts, HoldsFacts
<1>5. ASSUME NEW m \in Nodes
      PROVE  pts'[m] \subseteq R[m] /\ pts'[m] \subseteq ObjNodes
  <2>1. pts[m] \subseteq R[m] /\ \A e \in new : pts[e[2]] \subseteq R[e[2]]
    BY <1>2, <1>4 DEF Sound
  <2>2. pts'[m] \subseteq R[m]
    BY <1>1, <1>4, <2>1
  <2> QED BY <2>2, <1>3 DEF Assignment
<1>6. pts' \in Assignment
  BY <1>1, <1>5 DEF Assignment
<1>7. Shape'
  BY <1>1, <1>2 DEF Shape
<1>8. Sound'
  BY <1>1, <1>2, <1>5 DEF Sound
<1>9. edges' \subseteq Edge /\ funPtrs' \subseteq Nodes /\ changed' \in BOOLEAN
  BY <1>1, <1>2 DEF TypeOK, GrownFunPtrs
<1> QED BY <1>6, <1>7, <1>8, <1>9

LEMMA BeginRoundSound == SoundInv /\ BeginRound => SoundInv'
<1> SUFFICES ASSUME SoundInv, BeginRound PROVE SoundInv'
  OBVIOUS
<1> DEFINE R == Reference[prog]
<1>1. TypeOK /\ Shape /\ Sound
  BY DEF SoundInv
<1>2. /\ pending' = SCCs(edges, Live) /\ pc' = "wave" /\ changed' = FALSE
      /\ UNCHANGED <<prog, edges, rep, pts, funPtrs, resolved, handled, cached,
                     edgeCached, todo>>
  BY DEF BeginRound, graphVars, callVars, cacheVars
<1>3. Live \in SUBSET Nodes /\ edges \in SUBSET Edge /\ R \in Assignment
  BY <1>1, ProgramFacts DEF TypeOK, Live
<1>4. pending' \subseteq SUBSET Nodes
  BY <1>2, <1>3 DEF SCCs
<1>5. \A e \in edges : e[1] = "copy" => R[e[2]] \subseteq R[e[3]]
  BY <1>1, HoldsFacts DEF Sound
<1>6. \A e \in edges : /\ e[3] \notin AnonNodes
                       /\ e[1] = "copy" /\ e[3] \in GepNodes => e[2] \in AnonNodes
  BY <1>1 DEF Shape, WellFormedEdge
<1>7. ASSUME NEW scc \in pending', NEW a \in scc, NEW b \in scc
      PROVE  R[a] = R[b]
  BY <1>2, <1>3, <1>5, CycleAgrees
<1>8. ASSUME NEW scc \in pending', NEW x \in scc \cap Alone
      PROVE  scc = {x}
  <2>1. scc \in SCCs(edges, Live)
    BY <1>2
  <2> QED BY <2>1, <1>3, <1>6, AloneInCycle
<1>9. TypeOK'
  BY <1>1, <1>2, <1>4 DEF TypeOK, Calls
<1>10. Shape'
  BY <1>1, <1>2, <1>8 DEF Shape
<1>11. Sound'
  BY <1>1, <1>2, <1>7 DEF Sound
<1> QED BY <1>9, <1>10, <1>11 DEF SoundInv

LEMMA PropagateNodeSound ==
  ASSUME SoundInv, NEW n \in Nodes, PropagateNode(n) PROVE SoundInv'
<1> DEFINE R == Reference[prog]
<1>1. TypeOK /\ Shape /\ Sound
  BY DEF SoundInv
<1>2. /\ pending' = pending \ {{n}}
      /\ UNCHANGED <<prog, edges, rep, resolved, handled, edgeCached, todo, changed, pc>>
  BY DEF PropagateNode, graphVars
<1>3. /\ pts' \in Assignment
      /\ cached' \in Assignment
      /\ funPtrs' \subseteq Nodes
      /\ \A m \in Nodes : pts'[m] \subseteq R[m]
  <2>1. CASE pts[n] \subseteq cached[n]
    <3>1. UNCHANGED <<pts, cached, funPtrs>>
      BY <2>1 DEF PropagateNode
    <3> QED BY <3>1, <1>1 DEF TypeOK, Sound
  <2>2. CASE ~(pts[n] \subseteq cached[n])
    <3>1. /\ cached' = [cached EXCEPT ![n] = @ \cup pts[n]]
          /\ pts' = Propagated(edges, pts, n)
          /\ funPtrs' = funPtrs \cup GrownFunPtrs(rep, pts')
      BY <2>2 DEF PropagateNode
    <3>2. R \in Assignment /\ edges \in SUBSET Edge
      BY <1>1, ProgramFacts DEF TypeOK
    <3>3. \A e \in edges : e[1] = "copy" => R[e[2]] \subseteq R[e[3]]
      BY <1>1, HoldsFacts DEF Sound
    <3>4. pts' \in Assignment /\ \A m \in Nodes : pts'[m] \subseteq R[m]
      BY <3>1, <3>2, <3>3, <1>1, PropagatedFacts DEF Sound, TypeOK
    <3>5. cached' \in Assignment
      BY <3>1, <1>1 DEF TypeOK, Assignment
    <3> QED BY <3>1, <3>4, <3>5, <1>1 DEF TypeOK, GrownFunPtrs
  <2> QED BY <2>1, <2>2
<1>4. TypeOK'
  BY <1>1, <1>2, <1>3 DEF TypeOK, Calls
<1>5. Shape'
  BY <1>1, <1>2 DEF Shape
<1>6. Sound'
  BY <1>1, <1>2, <1>3 DEF Sound
<1> QED BY <1>4, <1>5, <1>6 DEF SoundInv

(* Collapsing a cycle: its nodes agree in every solution and none of them  *)
(* is an anonymous or a getelementptr pointer, so that the moved edges are *)
(* as good as the old ones.                                                *)
LEMMA CollapseCycleSound ==
  ASSUME SoundInv, NEW scc \in pending, NEW super \in scc, CollapseCycle(scc, super)
  PROVE  SoundInv'
<1> DEFINE R == Reference[prog]
           merged == [pts EXCEPT ![super] = UNION {pts[n] : n \in scc}]
<1>1. TypeOK /\ Shape /\ Sound
  BY DEF SoundInv
<1>2. /\ rep' = CollapseReps(rep, scc, super)
      /\ edges' = CollapseEdges(edges, scc, super)
      /\ pts' = Propagated(edges', merged, super)
      /\ funPtrs' = funPtrs \cup GrownFunPtrs(rep', pts')
                      \cup {n \in {super} : IsFunctionPtr(rep', n)}
      /\ cached' = [cached EXCEPT ![super] = merged[super]]
      /\ pending' = pending \ {scc}
      /\ scc # {super}
      /\ UNCHANGED <<prog, resolved, handled, edgeCached, todo, changed, pc>>
  BY DEF CollapseCycle
<1>3. R \in Assignment /\ scc \in SUBSET Nodes /\ super \in Nodes /\ edges \in SUBSET Edge
  BY <1>1, ProgramFacts DEF TypeOK
<1>4. scc \cap Alone = {}
  BY <1>1, <1>2 DEF Shape
<1>5. \A n \in scc : R[n] = R[super]
  BY <1>1 DEF Sound
<1>6. ASSUME NEW n \in Nodes
      PROVE  /\ rep'[n] \in Nodes
             /\ R[rep'[n]] = R[n]
             /\ \A x \in Alone : rep'[n] = x <=> n = x
  <2>1. rep'[n] = IF rep[n] \in scc THEN super ELSE rep[n]
    BY <1>2 DEF CollapseReps
  <2>2. rep[n] \in Nodes /\ R[rep[n]] = R[n] /\ \A x \in Alone : rep[n] = x <=> n = x
    BY <1>1 DEF TypeOK, Sound, Shape
  <2> QED BY <2>1, <2>2, <1>3, <1>4, <1>5
<1>7. rep' \in [Nodes -> Nodes]
  BY <1>2, <1>6 DEF CollapseReps
<1>8. ASSUME NEW e \in edges'
      PROVE  e \in Edge /\ WellFormedEdge(e) /\ Holds(R, e)
  <2>1. e \in Edge
    BY <1>2, <1>3, CollapseFacts
  <2>2. PICK f \in edges : /\ e[1] = f[1]
                           /\ e[2] = IF f[2] \in scc THEN super ELSE f[2]
                           /\ e[3] = IF f[3] \in scc THEN super ELSE f[3]
    BY <1>2, <1>3, CollapseFacts
  <2>3. f \in Edge /\ WellFormedEdge(f) /\ Holds(R, f)
    BY <1>1 DEF TypeOK, Shape, Sound
  <2>4. R[e[2]] = R[f[2]] /\ R[e[3]] = R[f[3]]
    BY <2>2, <1>5
  <2>5. e[1] = "offset" => e[3] = f[3]
    BY <2>2, <2>3, <1>4 DEF WellFormedEdge, Alone
  <2>6. Holds(R, e)
    BY <2>1, <2>2, <2>3, <2>4, <2>5, EdgeFacts, HoldsFacts DEF Kinds
  <2>7. WellFormedEdge(e)
    BY <2>2, <2>3, <1>4 DEF WellFormedEdge, Alone
  <2> QED BY <2>1, <2>6, <2>7
<1>9. merged \in Assignment /\ \A m \in Nodes : merged[m] \subseteq R[m]
  <2>1. \A n \in scc : pts[n] \subseteq R[super] /\ pts[n] \subseteq ObjNodes
    BY <1>1, <1>3, <1>5 DEF TypeOK, Sound, Assignment
  <2>2. (UNION {pts[n] : n \in scc}) \subseteq R[super]
        /\ (UNION {pts[n] : n \in scc}) \subseteq ObjNodes
    BY <2>1
  <2>3. pts \in Assignment /\ \A m \in Nodes : pts[m] \subseteq R[m]
    BY <1>1 DEF TypeOK, Sound
  <2> HIDE DEF R
  <2> QED BY <2>2, <2>3, <1>3 DEF Assignment
<1> HIDE DEF merged
<1>10. pts' \in Assignment /\ \A m \in Nodes : pts'[m] \subseteq R[m]
  <2>1. edges' \in SUBSET Edge /\ \A e \in edges' : e[1] = "copy" => R[e[2]] \subseteq R[e[3]]
    BY <1>8, HoldsFacts
  <2> QED BY <2>1, <1>2, <1>3, <1>9, PropagatedFacts
<1>11. cached' \in Assignment
  BY <1>1, <1>2, <1>3, <1>9 DEF TypeOK, Assignment
<1>12. TypeOK'
  BY <1>1, <1>2, <1>3, <1>7, <1>8, <1>10, <1>11 DEF TypeOK, Calls, GrownFunPtrs
<1>13. Shape'
  BY <1>1, <1>2, <1>6, <1>8 DEF Shape
<1>14. Sound'
  BY <1>1, <1>2, <1>6, <1>8, <1>10 DEF Sound
<1> QED BY <1>12, <1>13, <1>14 DEF SoundInv

LEMMA EndWaveSound == SoundInv /\ EndWave => SoundInv'
<1> SUFFICES ASSUME SoundInv, EndWave PROVE SoundInv'
  OBVIOUS
<1>1. TypeOK /\ Shape /\ Sound
  BY DEF SoundInv
<1>2. /\ todo' \subseteq edges /\ pc' = "edges"
      /\ UNCHANGED <<prog, edges, rep, pts, funPtrs, resolved, handled, cached,
                     edgeCached, pending, changed>>
  BY DEF EndWave, graphVars, callVars, cacheVars
<1>3. TypeOK'
  BY <1>1, <1>2 DEF TypeOK, Calls
<1>4. Shape'
  BY <1>1, <1>2 DEF Shape
<1>5. Sound'
  BY <1>1, <1>2 DEF Sound
<1> QED BY <1>3, <1>4, <1>5 DEF SoundInv

(* An edge whose handling is due, and the objects it is handled for.       *)
LEMMA TodoFacts ==
  ASSUME SoundInv, NEW e \in todo
  PROVE  /\ e \in Edge /\ e[2] \in Nodes /\ e[3] \in Nodes
         /\ WellFormedEdge(e) /\ Holds(Reference[prog], e)
         /\ Fresh(e) \subseteq ObjNodes
         /\ e[1] = "load" => Fresh(e) \subseteq Reference[prog][e[2]]
         /\ e[1] = "store" => Fresh(e) \subseteq Reference[prog][e[3]]
<1>1. e \in Edge /\ WellFormedEdge(e) /\ Holds(Reference[prog], e)
  BY DEF SoundInv, TypeOK, Shape, Sound
<1>2. e[2] \in Nodes /\ e[3] \in Nodes
  BY <1>1, EdgeFacts
<1>3. \A n \in Nodes : pts[n] \subseteq ObjNodes /\ pts[n] \subseteq Reference[prog][n]
  BY DEF SoundInv, TypeOK, Sound, Assignment
<1> QED BY <1>1, <1>2, <1>3 DEF Fresh, Visited

LEMMA HandleLoadSound ==
  ASSUME SoundInv, NEW e \in todo, HandleLoad(e) PROVE SoundInv'
<1> DEFINE R == Reference[prog]
           cons == {<<"copy", rep[o], e[3]>> : o \in Fresh(e)}
           new == NewEdges(edges, rep, cons)
<1>1. TypeOK /\ Shape /\ Sound
  BY DEF SoundInv
<1>2. /\ AddCopies(new) /\ e[1] = "load"
      /\ edgeCached' = edgeCached \cup ({e} \X Fresh(e))
      /\ todo' = todo \ {e}
      /\ UNCHANGED <<prog, rep, resolved, handled, cached, pending, pc>>
  BY DEF HandleLoad
<1>3. /\ e \in Edge /\ e[2] \in Nodes /\ e[3] \in Nodes
      /\ WellFormedEdge(e) /\ Holds(R, e)
      /\ Fresh(e) \subseteq ObjNodes /\ Fresh(e) \subseteq R[e[2]]
  BY <1>2, TodoFacts
<1>4. ASSUME NEW d \in new
      PROVE  d \in Edge /\ d[1] = "copy" /\ WellFormedEdge(d) /\ Holds(R, d)
  <2>1. PICK o \in Fresh(e) : d = Redirected(rep, AsEdge(<<"copy", rep[o], e[3]>>))
    BY DEF NewEdges
  <2>2. o \in ObjNodes /\ o \in Nodes /\ rep[o] \in Nodes /\ rep[rep[o]] \in Nodes /\ rep[e[3]] \in Nodes
    BY <1>1, <1>3, NodeFacts DEF TypeOK
  <2>3. d = <<"copy", rep[rep[o]], rep[e[3]]>>
    BY <2>1 DEF AsEdge, Redirected
  <2>4. R[o] \subseteq R[e[3]]
    BY <1>2, <1>3, HoldsFacts
  <2>5. R[rep[rep[o]]] = R[o] /\ R[rep[e[3]]] = R[e[3]]
    BY <1>1, <1>3, <2>2 DEF Sound
  <2>6. e[3] \notin Alone
    BY <1>2, <1>3 DEF WellFormedEdge, Alone
  <2>7. rep[e[3]] \notin Alone
    BY <1>1, <1>3, <2>6 DEF Shape
  <2>8. WellFormedEdge(d)
    BY <2>3, <2>7 DEF WellFormedEdge, Alone
  <2>9. Holds(R, d)
    BY <2>3, <2>4, <2>5, HoldsFacts
  <2> QED BY <2>2, <2>3, <2>8, <2>9 DEF Edge, Kinds
<1> HIDE DEF new
<1>5. /\ edges' \subseteq Edge /\ pts' \in Assignment
      /\ funPtrs' \subseteq Nodes /\ changed' \in BOOLEAN
      /\ Shape' /\ Sound'
  <2>1. new \in SUBSET Edge
    BY <1>4
  <2>2. todo' \subseteq todo
    BY <1>2
  <2> QED BY <2>1, <2>2, <1>2, <1>4, AddCopiesFacts
<1>6. TypeOK'
  BY <1>1, <1>2, <1>3, <1>5 DEF TypeOK, Calls
<1> QED BY <1>5, <1>6 DEF SoundInv

LEMMA HandleStoreSound ==
  ASSUME SoundInv, NEW e \in todo, HandleStore(e) PROVE SoundInv'
<1> DEFINE R == Reference[prog]
           cons == {<<"copy", e[2], rep[o]>> : o \in Fresh(e)}
           new == NewEdges(edges, rep, cons)
<1>1. TypeOK /\ Shape /\ Sound
  BY DEF SoundInv
<1>2. /\ AddCopies(new) /\ e[1] = "store"
      /\ edgeCached' = edgeCached \cup ({e} \X Fresh(e))
      /\ todo' = todo \ {e}
      /\ UNCHANGED <<prog, rep, resolved, handled, cached, pending, pc>>
  BY DEF HandleStore
<1>3. /\ e \in Edge /\ e[2] \in Nodes /\ e[3] \in Nodes
      /\ WellFormedEdge(e) /\ Holds(R, e)
      /\ Fresh(e) \subseteq ObjNodes /\ Fresh(e) \subseteq R[e[3]]
  BY <1>2, TodoFacts
<1>4. ASSUME NEW d \in new
      PROVE  d \in Edge /\ d[1] = "copy" /\ WellFormedEdge(d) /\ Holds(R, d)
  <2>1. PICK o \in Fresh(e) : d = Redirected(rep, AsEdge(<<"copy", e[2], rep[o]>>))
    BY DEF NewEdges
  <2>2. o \in ObjNodes /\ o \in Nodes /\ rep[o] \in Nodes /\ rep[rep[o]] \in Nodes /\ rep[e[2]] \in Nodes
    BY <1>1, <1>3, NodeFacts DEF TypeOK
  <2>3. d = <<"copy", rep[e[2]], rep[rep[o]]>>
    BY <2>1 DEF AsEdge, Redirected
  <2>4. R[e[2]] \subseteq R[o]
    BY <1>2, <1>3, HoldsFacts
  <2>5. R[rep[rep[o]]] = R[o] /\ R[rep[e[2]]] = R[e[2]]
    BY <1>1, <1>3, <2>2 DEF Sound
  <2>6. rep[rep[o]] \notin Alone
    BY <1>1, <2>2, NodeFacts DEF Shape
  <2>7. WellFormedEdge(d)
    BY <2>3, <2>6 DEF WellFormedEdge, Alone
  <2>8. Holds(R, d)
    BY <2>3, <2>4, <2>5, HoldsFacts
  <2> QED BY <2>2, <2>3, <2>7, <2>8 DEF Edge, Kinds
<1> HIDE DEF new
<1>5. /\ edges' \subseteq Edge /\ pts' \in Assignment
      /\ funPtrs' \subseteq Nodes /\ changed' \in BOOLEAN
      /\ Shape' /\ Sound'
  <2>1. new \in SUBSET Edge
    BY <1>4
  <2>2. todo' \subseteq todo
    BY <1>2
  <2> QED BY <2>1, <2>2, <1>2, <1>4, AddCopiesFacts
<1>6. TypeOK'
  BY <1>1, <1>2, <1>3, <1>5 DEF TypeOK, Calls
<1> QED BY <1>5, <1>6 DEF SoundInv

(* Indexing: the address of a field flows to a getelementptr pointer from  *)
(* the field's anonymous pointer, both of which are their own super nodes. *)
LEMMA HandleOffsetSound ==
  ASSUME SoundInv, NEW e \in todo, HandleOffset(e) PROVE SoundInv'
<1> DEFINE R == Reference[prog]
           g == e[3]
           newGEPs == {o \in pts[e[2]] : <<g, o>> \notin handled}
           fields == {IndexObject[g][o] : o \in newGEPs} \ ({NoObj} \cup pts[g])
           cons == {"addr_of"} \X fields \X {g}
           new == NewEdges(edges, rep, cons)
<1>1. TypeOK /\ Shape /\ Sound
  BY DEF SoundInv
<1>2. /\ e[1] = "offset"
      /\ edges' = edges \cup new
      /\ pts' = [pts EXCEPT ![g] = @ \cup fields]
      /\ funPtrs' = funPtrs \cup GrownFunPtrs(rep, pts')
      /\ changed' = (changed \/ fields # {})
      /\ handled' = handled \cup ({g} \X newGEPs)
      /\ todo' = todo \ {e}
      /\ UNCHANGED <<prog, rep, resolved, cached, edgeCached, pending, pc>>
  BY DEF HandleOffset, AddConstraints
<1>3. /\ e[2] \in Nodes /\ g \in GepNodes /\ Holds(R, e)
      /\ R \in Assignment /\ \A o \in ObjNodes : R[AnonNode(o)] = {o}
  BY <1>1, <1>2, TodoFacts, ProgramFacts DEF WellFormedEdge, TypeOK
<1>4. newGEPs \subseteq ObjNodes /\ newGEPs \subseteq R[e[2]]
  BY <1>1, <1>3 DEF TypeOK, Sound, Assignment
<1>5. ASSUME NEW f \in fields
      PROVE  f \in ObjNodes /\ f \in R[g]
  <2>1. PICK o \in newGEPs : f = IndexObject[g][o] /\ f # NoObj
    OBVIOUS
  <2>2. f \in ObjNodes
    <3>1. o \in ObjNodes /\ g \in GepNodes
      BY <1>3, <1>4
    <3> HIDE DEF newGEPs, fields, g
    <3>2. IndexObject[g] \in [ObjNodes -> ObjNodes \cup {NoObj}]
      BY <3>1, NodesAssumption
    <3> QED BY <2>1, <3>1, <3>2
  <2>3. f \in R[g]
    BY <2>1, <1>2, <1>3, <1>4, HoldsFacts
  <2> QED BY <2>2, <2>3
<1> HIDE DEF fields, newGEPs
<1>6. ASSUME NEW d \in new
      PROVE  d \in Edge /\ WellFormedEdge(d) /\ Holds(R, d)
  <2>1. PICK f \in fields : d = Redirected(rep, AsEdge(<<"addr_of", f, g>>))
    BY DEF NewEdges
  <2>2. AnonNode(f) \in AnonNodes /\ AnonNode(f) \in Nodes /\ g \in Nodes /\ g \notin AnonNodes
    BY <1>3, <1>5, NodeFacts
  <2>3. rep[AnonNode(f)] = AnonNode(f) /\ rep[g] = g
    BY <1>1, <1>3, <2>2 DEF Shape, Alone
  <2>4. d = <<"copy", AnonNode(f), g>>
    BY <2>1, <2>3 DEF AsEdge, Redirected
  <2>5. R[AnonNode(f)] \subseteq R[g]
    BY <1>3, <1>5
  <2>6. Holds(R, d)
    BY <2>4, <2>5, HoldsFacts
  <2> QED BY <2>2, <2>4, <2>6 DEF Edge, Kinds, WellFormedEdge
<1> HIDE DEF new
<1>7. pts' \in Assignment /\ \A m \in Nodes : pts'[m] \subseteq R[m]
  <2>1. pts \in Assignment /\ \A m \in Nodes : pts[m] \subseteq R[m]
    <3>1. pts \in Assignment
      BY <1>1 DEF TypeOK
    <3>2. \A m \in Nodes : pts[m] \subseteq R[m]
      BY <1>1 DEF Sound
    <3> QED BY <3>1, <3>2
  <2>2. pts' = [pts EXCEPT ![g] = @ \cup fields] /\ g \in Nodes
    BY <1>2, <1>3, NodeFacts
  <2>3. fields \subseteq ObjNodes /\ fields \subseteq R[g]
    BY <1>5
  <2> HIDE DEF R, g
  <2> QED BY <2>1, <2>2, <2>3 DEF Assignment
<1>8. TypeOK'
  <2>1. handled' \subseteq GepNodes \X ObjNodes
    BY <1>1, <1>2, <1>3, <1>4 DEF TypeOK
  <2>2. edges' \subseteq Edge /\ todo' \subseteq Edge /\ changed' \in BOOLEAN
        /\ funPtrs' \subseteq Nodes
    BY <1>1, <1>2, <1>6 DEF TypeOK, GrownFunPtrs
  <2> QED BY <1>1, <1>2, <1>7, <2>1, <2>2 DEF TypeOK, Calls
<1>9. Shape'
  BY <1>1, <1>2, <1>6 DEF Shape
<1>10. Sound'
  BY <1>1, <1>2, <1>6, <1>7 DEF Sound
<1> QED BY <1>8, <1>9, <1>10 DEF SoundInv

LEMMA EndRoundSound == SoundInv /\ EndRound => SoundInv'
<1> SUFFICES ASSUME SoundInv, EndRound PROVE SoundInv'
  OBVIOUS
<1>1. TypeOK /\ Shape /\ Sound
  BY DEF SoundInv
<1>2. /\ pc' \in {"round", "resolve"}
      /\ UNCHANGED <<prog, edges, rep, pts, funPtrs, resolved, handled, cached,
                     edgeCached, pending, todo, changed>>
  BY DEF EndRound, graphVars, callVars, cacheVars
<1>3. TypeOK'
  BY <1>1, <1>2 DEF TypeOK, Calls
<1>4. Shape'
  BY <1>1, <1>2 DEF Shape
<1>5. Sound'
  BY <1>1, <1>2 DEF Sound
<1> QED BY <1>3, <1>4, <1>5 DEF SoundInv

(* A call is bound to a function only when the solution has the function   *)
(* in the pointer's set too, and then it satisfies the call's constraints. *)
LEMMA ResolveFunPtrsSound == SoundInv /\ ResolveFunPtrs => SoundInv'
<1> SUFFICES ASSUME SoundInv, ResolveFunPtrs PROVE SoundInv'
  OBVIOUS
<1> DEFINE R == Reference[prog]
           cons == UNION {c.cons : c \in NewTargets}
           new == NewEdges(edges, rep, cons)
<1>1. TypeOK /\ Shape /\ Sound
  BY DEF SoundInv
<1>2. /\ edges' = edges \cup new
      /\ resolved' = resolved \cup NewTargets
      /\ funPtrs' = {}
      /\ \/ pc' = "done" /\ cached' = cached
         \/ pc' = "round" /\ cached' = [n \in Nodes |-> {}]
      /\ UNCHANGED <<prog, rep, pts, handled, edgeCached, pending, todo, changed>>
  BY DEF ResolveFunPtrs, AddConstraints
<1>3. /\ R \in Assignment /\ \A o \in ObjNodes : R[AnonNode(o)] = {o}
      /\ \A c \in Calls : /\ c.fp \in Nodes
                          /\ c.cons \subseteq Constraint
                          /\ c.fn \in R[c.fp] => \A k \in c.cons : Holds(R, k)
  BY <1>1, ProgramFacts DEF TypeOK
<1>4. ASSUME NEW c \in NewTargets
      PROVE  c \in Calls /\ \A k \in c.cons : k \in Constraint /\ Holds(R, k)
  <2>1. c \in Calls /\ c.fn \in pts[rep[c.fp]]
    BY DEF NewTargets
  <2>2. c.fp \in Nodes /\ rep[c.fp] \in Nodes
    BY <1>1, <1>3, <2>1 DEF TypeOK
  <2>3. c.fn \in R[c.fp]
    BY <1>1, <2>1, <2>2 DEF Sound
  <2> QED BY <1>3, <2>1, <2>3
<1>5. /\ rep \in [Nodes -> Nodes]
      /\ \A n \in Nodes : R[rep[n]] = R[n]
      /\ \A x \in Alone : \A n \in Nodes : rep[n] = x <=> n = x
  BY <1>1 DEF TypeOK, Sound, Shape
<1>6. ASSUME NEW d \in new
      PROVE  d \in Edge /\ WellFormedEdge(d) /\ Holds(R, d)
  <2>1. PICK k \in cons : d = Redirected(rep, AsEdge(k))
    BY DEF NewEdges
  <2>2. k \in Constraint /\ Holds(R, k)
    BY <2>1, <1>4
  <2> HIDE DEF R
  <2> QED BY <2>1, <2>2, <1>3, <1>5, ConstraintEdge
<1> HIDE DEF new
<1>7. TypeOK'
  <2>1. edges' \subseteq Edge /\ resolved' \subseteq Calls
    BY <1>1, <1>2, <1>4, <1>6 DEF TypeOK
  <2>2. cached' \in Assignment
    BY <1>1, <1>2 DEF TypeOK, Assignment
  <2> QED BY <1>1, <1>2, <2>1, <2>2 DEF TypeOK, Calls
<1>8. Shape'
  BY <1>1, <1>2, <1>6 DEF Shape
<1>9. Sound'
  BY <1>1, <1>2, <1>6 DEF Sound
<1> QED BY <1>7, <1>8, <1>9 DEF SoundInv

(***************************************************************************)
(* The theorems.                                                           *)
(***************************************************************************)

(* SoundInv is inductive.                                                  *)
THEOREM SoundInvHolds == Spec => []SoundInv
<1>1. Init => SoundInv
  BY InitSound
<1>2. SoundInv /\ [Next]_vars => SoundInv'
  <2> SUFFICES ASSUME SoundInv, [Next]_vars PROVE SoundInv'
    OBVIOUS
  <2>1. CASE BeginRound
    BY <2>1, BeginRoundSound
  <2>2. CASE \E n \in Nodes : PropagateNode(n)
    BY <2>2, PropagateNodeSound
  <2>3. CASE \E scc \in pending : \E super \in scc : CollapseCycle(scc, super)
    BY <2>3, CollapseCycleSound
  <2>4. CASE EndWave
    BY <2>4, EndWaveSound
  <2>5. CASE \E e \in todo : HandleLoad(e) \/ HandleStore(e) \/ HandleOffset(e)
    BY <2>5, HandleLoadSound, HandleStoreSound, HandleOffsetSound
  <2>6. CASE EndRound
    BY <2>6, EndRoundSound
  <2>7. CASE ResolveFunPtrs
    BY <2>7, ResolveFunPtrsSound
  <2>8. CASE UNCHANGED vars
    BY <2>8 DEF SoundInv, TypeOK, Shape, Sound, Calls, vars, graphVars, callVars, cacheVars
  <2> QED BY <2>1, <2>2, <2>3, <2>4, <2>5, <2>6, <2>7, <2>8 DEF Next
<1> QED BY <1>1, <1>2, PTL DEF Spec

(* The solver never leaves the sets it works on.                           *)
THEOREM TypeCorrect == Spec => []TypeOK
<1>1. SoundInv => TypeOK
  BY DEF SoundInv
<1> QED BY <1>1, SoundInvHolds, PTL

(* Collapsing cycles, sending only differences and skipping objects an     *)
(* edge was handled for never put an object into a points-to set that some *)
(* solution of the program does not have there, whatever order the         *)
(* components, the edges and the indirect calls are visited in.            *)
THEOREM Soundness == Spec => []WithinReference
<1>1. SoundInv => WithinReference
  BY DEF SoundInv, Sound, WithinReference
<1> QED BY <1>1, SoundInvHolds, PTL

(* No getelementptr pointer is ever collapsed with another node, so that   *)
(* the casts in processOffset are safe.                                    *)
THEOREM OffsetCastsAreSafe == Spec => []GepsStayAlone
<1>1. SoundInv => GepsStayAlone
  BY NodeFacts DEF SoundInv, Shape, Alone, GepsStayAlone
<1> QED BY <1>1, SoundInvHolds, PTL

-----------------------------------------------------------------------------
(***************************************************************************)
(* The solver misses nothing: its caches only hide what has been done, no  *)
(* call is forgotten, and when it stops, its answer is a solution.         *)
(* Together with soundness, each step of the solver is a step of           *)
(* InclusionAnalysis.  The part of the invariant that is behind soundness  *)
(* is proved above; here are the other four.                               *)
(***************************************************************************)
(* What a client is told only grows.                                       *)
AnswerGrows == \A n \in Nodes : pts[rep[n]] \subseteq pts'[rep'[n]]

(* What the proofs use most: the types, and that every super node is live. *)
LEMMA LiveFacts ==
  ASSUME Inv
  PROVE  /\ TypeOK
         /\ rep \in [Nodes -> Nodes] /\ pts \in [Nodes -> SUBSET ObjNodes]
         /\ cached \in [Nodes -> SUBSET ObjNodes]
         /\ \A n \in Nodes : rep[n] \in Live /\ rep[rep[n]] = rep[n]
         /\ \A n \in Live : n \in Nodes /\ rep[n] = n
         /\ \A e \in edges : /\ e \in Edge /\ e = <<e[1], e[2], e[3]>>
                             /\ e[1] \in Kinds /\ e[2] \in Live /\ e[3] \in Live
                             /\ ~SelfCopy(e)
<1>1. TypeOK /\ EdgesAreLive /\ \A e \in edges : ~SelfCopy(e)
  BY DEF Inv, SoundInv, Placed
<1>2. \A n \in Nodes : rep[n] \in Live /\ rep[rep[n]] = rep[n]
  BY <1>1 DEF EdgesAreLive, Live
<1>3. \A n \in Live : n \in Nodes /\ rep[n] = n
  BY DEF Live
<1>4. \A e \in edges : e \in Edge /\ e[2] \in Live /\ e[3] \in Live
  BY <1>1 DEF EdgesAreLive, TypeOK
<1> QED BY <1>1, <1>2, <1>3, <1>4, EdgeFacts DEF TypeOK, Assignment

(***************************************************************************)
(* The invariant holds initially: no node is collapsed, nothing cached.    *)
(***************************************************************************)
LEMMA InitInv == Init => Inv
<1> SUFFICES ASSUME Init PROVE Inv
  OBVIOUS
<1>1. SoundInv
  BY InitSound
<1>2. /\ rep = [n \in Nodes |-> n] /\ edges = AddConstraints({}, rep, Program[prog].base)
      /\ pts = [n \in Nodes |-> {o \in ObjNodes : AnonNode(o) = n}]
      /\ cached = [n \in Nodes |-> {}]
      /\ funPtrs = {} /\ resolved = {} /\ handled = {} /\ pending = {}
      /\ edgeCached = {} /\ todo = {} /\ pc = "round"
  BY DEF Init, SolverInit
<1>3. Live = Nodes /\ \A n \in Nodes : rep[n] = n
  BY <1>2 DEF Live
<1>4. \A e \in edges : ~SelfCopy(e) /\ e[2] \in Nodes /\ e[3] \in Nodes
  <2> TAKE e \in edges
  <2>1. e \in Edge
    BY <1>1 DEF SoundInv, TypeOK
  <2>2. ~SelfCopy(e)
    BY <1>2 DEF AddConstraints, NewEdges
  <2> QED BY <2>1, <2>2, EdgeFacts
<1>5. Placed
  BY <1>2, <1>3, <1>4 DEF Placed, EdgesAreLive
<1>6. Remembered
  BY <1>2, <1>3 DEF Remembered, SentIsReceived
<1>7. Kept
  <2>1. \A o \in ObjNodes : o \in pts[AnonNode(o)]
    BY <1>2, NodeFacts
  <2>2. Bound = Program[prog].base
    BY <1>2 DEF Bound
  <2>3. \A c \in Bound : LET e == Redirected(rep, AsEdge(c)) IN e \in edges \/ SelfCopy(e)
    BY <1>2, <2>2, InsertedEdge
  <2>4. \A c \in Calls : pts[rep[c.fp]] = {}
    <3> TAKE c \in Calls
    <3>1. c.fp \in PtrNodes
      BY <1>1, ProgramAssumption DEF SoundInv, TypeOK, IsProgram, IsCall, Calls
    <3>2. c.fp \in Nodes /\ rep[c.fp] = c.fp
      BY <1>3, <3>1, NodeFacts
    <3>3. c.fp \notin AnonNodes
      BY <3>1, NodesAssumption
    <3>4. \A o \in ObjNodes : AnonNode(o) # c.fp
      BY <3>3, NodeFacts
    <3> QED BY <1>2, <3>2, <3>4
  <2>5. CallsAreNotForgotten
    BY <2>4 DEF CallsAreNotForgotten
  <2> QED BY <2>1, <2>3, <2>5 DEF Kept
<1>8. Advanced
  BY <1>2 DEF Advanced
<1> QED BY <1>1, <1>5, <1>6, <1>7, <1>8 DEF Inv

(***************************************************************************)
(* The steps that only move on.                                            *)
(***************************************************************************)

(* Everything live is in some component of the new round.                  *)
LEMMA BeginRoundInv == Inv /\ BeginRound => Inv'
<1> SUFFICES ASSUME Inv, BeginRound PROVE Inv'
  OBVIOUS
<1>1. /\ pending' = SCCs(edges, Live) /\ pc' = "wave" /\ changed' = FALSE
      /\ UNCHANGED <<prog, edges, rep, pts, funPtrs, resolved, handled, cached,
                     edgeCached, todo>> /\ pc = "round"
  BY DEF BeginRound, graphVars, callVars, cacheVars
<1>2. SoundInv'
  BY BeginRoundSound DEF Inv
<1>3. Live \in SUBSET Nodes /\ Live' = Live
  BY <1>1 DEF Live
<1>4. /\ \A scc \in pending' : scc \subseteq Live
      /\ \A scc, other \in pending' : scc = other \/ scc \cap other = {}
      /\ Live \subseteq UNION pending'
  BY <1>1, <1>3, ComponentFacts
<1>5. Placed'
  <2>1. Placed
    BY DEF Inv
  <2>2. EdgesAreLive'
    BY <2>1, <1>1, <1>3 DEF Placed, EdgesAreLive
  <2> QED BY <2>1, <2>2, <1>1, <1>3, <1>4 DEF Placed
<1>6. Remembered'
  BY <1>1, <1>3 DEF Inv, Remembered, SentIsReceived, Backed
<1>7. Kept'
  BY <1>1 DEF Inv, Kept, CallsAreNotForgotten, Bound, Calls
<1>8. Advanced'
  <2>1. ASSUME NEW n \in UNION pending' PROVE CopySucc(edges, n) \subseteq UNION pending'
    <3> SUFFICES ASSUME NEW m \in CopySucc(edges, n) PROVE m \in Live
      BY <1>4
    <3>1. <<"copy", n, m>> \in edges
      BY DEF CopySucc
    <3> QED BY <3>1, LiveFacts
  <2> QED BY <2>1, <1>1, <1>3, <1>4 DEF Advanced
<1> QED BY <1>2, <1>5, <1>6, <1>7, <1>8 DEF Inv

(* The wave has walked all components: everything live has been sent.      *)
LEMMA EndWaveInv == Inv /\ EndWave => Inv'
<1> SUFFICES ASSUME Inv, EndWave PROVE Inv'
  OBVIOUS
<1>1. /\ pc = "wave" /\ pending = {}
      /\ todo' = {e \in edges : e[1] # "copy"} /\ pc' = "edges"
      /\ UNCHANGED <<prog, edges, rep, pts, funPtrs, resolved, handled, cached,
                     edgeCached, pending, changed>>
  BY DEF EndWave, graphVars, callVars, cacheVars
<1>2. SoundInv'
  BY EndWaveSound DEF Inv
<1>3. Live' = Live
  BY <1>1 DEF Live
<1>4. Placed'
  BY <1>1, <1>3 DEF Inv, Placed, EdgesAreLive
<1>5. Remembered'
  BY <1>1, <1>3 DEF Inv, Remembered, SentIsReceived, Backed
<1>6. Kept'
  BY <1>1 DEF Inv, Kept, CallsAreNotForgotten, Bound, Calls
<1>7. Advanced'
  <2>1. \A n \in Live : Sent(n)
    BY <1>1 DEF Inv, Advanced
  <2>2. \A e \in edges \ todo' : e[1] = "copy"
    BY <1>1
  <2>3. \A n \in Live : Sent(n)'
    BY <2>1, <1>1 DEF Sent
  <2>4. \A e \in edges \ todo' : Done(e)'
    BY <2>2 DEF Done
  <2> QED BY <2>3, <2>4, <1>1, <1>3 DEF Advanced
<1> QED BY <1>2, <1>4, <1>5, <1>6, <1>7 DEF Inv

LEMMA EndRoundInv == Inv /\ EndRound => Inv'
<1> SUFFICES ASSUME Inv, EndRound PROVE Inv'
  OBVIOUS
<1>1. /\ pc = "edges" /\ todo = {} /\ pc' = IF changed THEN "round" ELSE "resolve"
      /\ UNCHANGED <<prog, edges, rep, pts, funPtrs, resolved, handled, cached,
                     edgeCached, pending, todo, changed>>
  BY DEF EndRound, graphVars, callVars, cacheVars
<1>2. SoundInv'
  BY EndRoundSound DEF Inv
<1>3. Live' = Live
  BY <1>1 DEF Live
<1>4. Placed'
  BY <1>1, <1>3 DEF Inv, Placed, EdgesAreLive
<1>5. Remembered'
  BY <1>1, <1>3 DEF Inv, Remembered, SentIsReceived, Backed
<1>6. Kept'
  BY <1>1 DEF Inv, Kept, CallsAreNotForgotten, Bound, Calls
<1>7. Advanced'
  BY <1>1, <1>3 DEF Inv, Advanced, Sent, Done, Fresh
<1> QED BY <1>2, <1>4, <1>5, <1>6, <1>7 DEF Inv

(***************************************************************************)
(* The wave.                                                               *)
(***************************************************************************)

(* A call whose pointer has grown is looked at again.                      *)
LEMMA GrownIsRecorded ==
  ASSUME NEW rp \in [Nodes -> Nodes], NEW c \in Calls, c.fp \in Nodes,
         NEW new, new[rp[c.fp]] # pts[rp[c.fp]]
  PROVE  rp[c.fp] \in GrownFunPtrs(rp, new)
BY DEF GrownFunPtrs, IsFunctionPtr

(* If the sets of function pointers only change when this is recorded, and *)
(* no node changes its super node, no call is forgotten.                   *)
LEMMA CallsStayRemembered ==
  ASSUME Inv, NEW S, funPtrs' = funPtrs \cup GrownFunPtrs(rep, pts') \cup S,
         UNCHANGED <<prog, rep, resolved>>
  PROVE  CallsAreNotForgotten'
<1> SUFFICES ASSUME NEW c \in Calls \ resolved, c.fn \in pts'[rep[c.fp]]
             PROVE  \E n \in funPtrs' : rep[n] = rep[c.fp]
  BY DEF CallsAreNotForgotten, Calls
<1>1. c.fp \in Nodes
  BY LiveFacts, ProgramFacts DEF TypeOK
<1>2. CASE pts'[rep[c.fp]] = pts[rep[c.fp]]
  BY <1>2 DEF Inv, Kept, CallsAreNotForgotten
<1>3. CASE pts'[rep[c.fp]] # pts[rep[c.fp]]
  <2>1. rep[c.fp] \in GrownFunPtrs(rep, pts')
    BY <1>1, <1>3, LiveFacts, GrownIsRecorded
  <2>2. rep[rep[c.fp]] = rep[c.fp]
    BY <1>1, LiveFacts
  <2> QED BY <2>1, <2>2
<1> QED BY <1>2, <1>3

(* A node that is walked has no successor that was walked before it: what  *)
(* it sends only goes to components that are still to be walked.           *)
LEMMA PropagateNodeInv ==
  ASSUME Inv, NEW n \in Nodes, PropagateNode(n) PROVE Inv' /\ AnswerGrows
<1>1. /\ pc = "wave" /\ pc' = "wave" /\ {n} \in pending /\ OnTop({n})
      /\ pending' = pending \ {{n}}
      /\ UNCHANGED <<prog, edges, rep, resolved, handled, edgeCached, todo, changed>>
  BY DEF PropagateNode, graphVars
<1>2. \/ pts[n] \subseteq cached[n] /\ UNCHANGED <<pts, cached, funPtrs>>
      \/ /\ cached' = [cached EXCEPT ![n] = @ \cup pts[n]]
         /\ pts' = Propagated(edges, pts, n)
         /\ funPtrs' = funPtrs \cup GrownFunPtrs(rep, pts')
  BY DEF PropagateNode
<1>3. SoundInv'
  BY PropagateNodeSound DEF Inv
<1>4. n \in Live /\ Live' = Live
  BY <1>1 DEF Inv, Placed, Live
<1>5. \A m \in CopySucc(edges, n) : m \in Live /\ m # n /\ m \in UNION pending
  <2> TAKE m \in CopySucc(edges, n)
  <2>1. <<"copy", n, m>> \in edges
    BY DEF CopySucc
  <2>2. m \in Live /\ ~SelfCopy(<<"copy", n, m>>)
    BY <2>1, LiveFacts
  <2>3. n \in UNION pending
    BY <1>1
  <2> QED BY <2>2, <2>3, <1>1 DEF SelfCopy, Inv, Advanced
<1>6. \A m \in Nodes : /\ pts[m] \subseteq pts'[m]
                       /\ m \in CopySucc(edges, n) => cached'[n] \subseteq pts'[m]
                       /\ m \notin CopySucc(edges, n) => pts'[m] = pts[m]
                       /\ m # n => cached'[m] = cached[m]
      /\ pts[n] \subseteq cached'[n] /\ cached[n] \subseteq cached'[n]
      /\ cached'[n] \subseteq cached[n] \cup pts[n]
  <2>1. \A m \in CopySucc(edges, n) : cached[n] \subseteq pts[m]
    BY <1>4 DEF Inv, Remembered, SentIsReceived
  <2>2. CASE pts[n] \subseteq cached[n] /\ UNCHANGED <<pts, cached, funPtrs>>
    BY <2>1, <2>2
  <2>3. CASE cached' = [cached EXCEPT ![n] = @ \cup pts[n]] /\ pts' = Propagated(edges, pts, n)
    <3>1. \A m \in Nodes : /\ pts[m] \subseteq pts'[m]
                           /\ m \in CopySucc(edges, n) => pts[n] \subseteq pts'[m]
                           /\ m \notin CopySucc(edges, n) => pts'[m] = pts[m]
      <4>1. pts \in Assignment
        BY LiveFacts DEF TypeOK
      <4> QED BY <4>1, <2>3, PropagatedGrows
    <3>2. cached'[n] = cached[n] \cup pts[n] /\ \A m \in Nodes : m # n => cached'[m] = cached[m]
      <4>1. cached \in [Nodes -> SUBSET ObjNodes]
        BY LiveFacts
      <4>2. cached' = [cached EXCEPT ![n] = @ \cup pts[n]]
        BY <2>3
      <4> QED BY <4>1, <4>2
    <3> QED BY <2>1, <3>1, <3>2
  <2> QED BY <1>2, <2>2, <2>3
<1>7. Placed'
  BY <1>1, <1>4 DEF Inv, Placed, EdgesAreLive
<1>8. Remembered'
  <2>1. Remembered
    BY DEF Inv
  <2>2. SentIsReceived'
    <3> SUFFICES ASSUME NEW k \in Live, NEW m \in CopySucc(edges, k)
                 PROVE  cached'[k] \subseteq pts'[m]
      BY <1>1, <1>4 DEF SentIsReceived
    <3>1. cached[k] \subseteq pts[m] /\ m \in Nodes /\ k \in Nodes
      BY <2>1 DEF Remembered, SentIsReceived, CopySucc, Live
    <3> QED BY <3>1, <1>6
  <2>3. \A m \in Nodes : cached'[m] \subseteq pts'[m]
    BY <2>1, <1>6 DEF Remembered
  <2>4. \A h \in edgeCached : Backed(h[1], h[2])' <=> Backed(h[1], h[2])
    BY <1>1 DEF Backed
  <2>5. \A h \in handled : h[1] \in Nodes
    BY LiveFacts, NodeFacts DEF TypeOK
  <2> QED BY <2>1, <2>2, <2>3, <2>4, <2>5, <1>1, <1>4, <1>6 DEF Remembered
<1>9. Kept'
  <2>1. Kept
    BY DEF Inv
  <2>2. CallsAreNotForgotten'
    <3>1. CASE UNCHANGED <<pts, funPtrs>>
      BY <2>1, <3>1, <1>1 DEF Kept, CallsAreNotForgotten, Calls
    <3>2. CASE funPtrs' = funPtrs \cup GrownFunPtrs(rep, pts')
      <4>1. funPtrs' = funPtrs \cup GrownFunPtrs(rep, pts') \cup {}
        BY <3>2
      <4> QED BY <4>1, <1>1, CallsStayRemembered
    <3> QED BY <1>2, <3>1, <3>2
  <2>3. \A o \in ObjNodes : o \in pts'[AnonNode(o)]
    BY <2>1, <1>6, NodeFacts DEF Kept
  <2>4. Bound' = Bound
    BY <1>1 DEF Bound
  <2> QED BY <2>1, <2>2, <2>3, <2>4, <1>1 DEF Kept
<1>10. Advanced'
  <2>1. Advanced /\ Placed
    BY DEF Inv
  <2>2. UNION pending' = (UNION pending) \ {n}
    <3>1. \A scc \in pending : n \in scc => scc = {n}
      BY <2>1, <1>1 DEF Placed
    <3> QED BY <3>1, <1>1
  <2>3. \A k \in UNION pending' : n \notin CopySucc(edges, k)
    <3> SUFFICES ASSUME NEW scc \in pending \ {{n}}, NEW k \in scc
                 PROVE  <<"copy", k, n>> \notin edges
      BY <1>1 DEF CopySucc
    <3> QED BY <1>1 DEF OnTop
  <2>4. \A k \in UNION pending' : CopySucc(edges, k) \subseteq UNION pending'
    BY <2>1, <2>2, <2>3, <1>1 DEF Advanced
  <2>5. ASSUME NEW k \in Live \ UNION pending' PROVE Sent(k)'
    <3>1. k \notin CopySucc(edges, n) /\ k \in Nodes
      BY <2>2, <1>5 DEF Live
    <3>2. pts'[k] = pts[k]
      BY <3>1, <1>6
    <3>3. pts[k] \subseteq cached'[k]
      <4>1. CASE k = n
        BY <4>1, <1>6
      <4>2. CASE k # n
        BY <4>2, <2>1, <2>2, <3>1, <1>1, <1>6 DEF Advanced, Sent
      <4> QED BY <4>1, <4>2
    <3> QED BY <3>2, <3>3 DEF Sent
  <2> QED BY <2>4, <2>5, <1>1, <1>4 DEF Advanced
<1>11. AnswerGrows
  BY <1>1, <1>6, LiveFacts DEF AnswerGrows
<1> QED BY <1>3, <1>7, <1>8, <1>9, <1>10, <1>11 DEF Inv

(* The edges of a cycle move to its super node, and so does what the       *)
(* caches say of them.  Only components still to be walked receive.        *)
LEMMA CollapseCycleInv ==
  ASSUME Inv, NEW scc \in pending, NEW super \in scc, CollapseCycle(scc, super)
  PROVE  Inv' /\ AnswerGrows
<1> DEFINE merged == [pts EXCEPT ![super] = UNION {pts[n] : n \in scc}]
           moved(n) == IF n \in scc THEN super ELSE n
           Moved(f) == <<f[1], moved(f[2]), moved(f[3])>>
<1>1. /\ pc = "wave" /\ pc' = "wave" /\ OnTop(scc)
      /\ rep' = CollapseReps(rep, scc, super)
      /\ edges' = CollapseEdges(edges, scc, super)
      /\ pts' = Propagated(edges', merged, super)
      /\ funPtrs' = funPtrs \cup GrownFunPtrs(rep', pts')
                      \cup {n \in {super} : IsFunctionPtr(rep', n)}
      /\ cached' = [cached EXCEPT ![super] = merged[super]]
      /\ pending' = pending \ {scc}
      /\ UNCHANGED <<prog, resolved, handled, edgeCached, todo, changed>>
  BY DEF CollapseCycle
<1>2. SoundInv'
  BY CollapseCycleSound DEF Inv
<1>3. Placed /\ Remembered /\ Kept /\ Advanced /\ TypeOK
  BY LiveFacts DEF Inv
<1>4. scc \subseteq Live /\ scc \subseteq Nodes /\ super \in Live /\ super \in Nodes
  BY <1>3 DEF Placed, Live
<1>5. /\ rep' \in [Nodes -> Nodes]
      /\ \A n \in Nodes : rep'[n] = moved(rep[n]) /\ rep'[rep'[n]] = rep'[n]
      /\ Live' = (Live \ scc) \cup {super}
  <2>1. /\ \A n \in scc : rep[n] = n
        /\ scc \in SUBSET Nodes /\ rep \in [Nodes -> Nodes]
        /\ \A n \in Nodes : rep[rep[n]] = rep[n]
    BY <1>4, LiveFacts DEF Live
  <2>2. /\ rep' \in [Nodes -> Nodes]
        /\ \A n \in Nodes : /\ rep[n] \in scc => rep'[n] = super
                            /\ rep[n] \notin scc => rep'[n] = rep[n]
        /\ \A n \in Nodes : rep'[rep'[n]] = rep'[n]
        /\ \A n \in Nodes : rep'[n] = n <=> (rep[n] = n /\ n \notin scc) \/ n = super
    <3> DEFINE rq == CollapseReps(rep, scc, super)
    <3>1. /\ rq \in [Nodes -> Nodes]
          /\ \A n \in Nodes : /\ rep[n] \in scc => rq[n] = super
                              /\ rep[n] \notin scc => rq[n] = rep[n]
          /\ \A n \in Nodes : rq[rq[n]] = rq[n]
          /\ \A n \in Nodes : rq[n] = n <=> (rep[n] = n /\ n \notin scc) \/ n = super
      BY <2>1, CollapsedReps
    <3>2. rep' = rq
      BY <1>1
    <3> HIDE DEF rq
    <3> QED BY <3>1, <3>2
  <2>3. \A n \in Nodes : rep'[n] = moved(rep[n])
    <3>1. rep' = [n \in Nodes |-> IF rep[n] \in scc THEN super ELSE rep[n]]
      BY <1>1 DEF CollapseReps
    <3> QED BY <3>1
  <2>4. Live' = (Live \ scc) \cup {super}
    BY <2>1, <2>2, <1>4 DEF Live
  <2> QED BY <2>2, <2>3, <2>4
<1>6. \A e \in edges' : /\ e \in Edge /\ e = <<e[1], e[2], e[3]>> /\ ~SelfCopy(e)
                        /\ \E f \in edges : e = Moved(f)
  <2> TAKE e \in edges'
  <2>1. edges \in SUBSET Edge /\ scc \in SUBSET Nodes
    BY <1>3, <1>4 DEF TypeOK
  <2>2. e \in Edge /\ ~SelfCopy(e)
        /\ \E f \in edges : e[1] = f[1] /\ e[2] = moved(f[2]) /\ e[3] = moved(f[3])
    BY <2>1, <1>1, CollapseFacts
  <2>3. e = <<e[1], e[2], e[3]>>
    BY <2>2, EdgeFacts
  <2> QED BY <2>2, <2>3
<1>7. \A f \in edges : Moved(f) \in edges' \/ SelfCopy(Moved(f))
  BY <1>1, MovedEdge
<1>8. super \notin CopySucc(edges', super)
  <2> SUFFICES ASSUME <<"copy", super, super>> \in edges' PROVE FALSE
    BY DEF CopySucc
  <2> QED BY <1>6 DEF SelfCopy
<1>9. /\ merged \in Assignment
      /\ \A n \in scc : pts[n] \subseteq merged[super]
      /\ \A m \in Nodes : pts[m] \subseteq merged[m] /\ (m # super => merged[m] = pts[m])
  <2>1. \A n \in scc : pts[n] \subseteq ObjNodes
    BY <1>4, LiveFacts
  <2> QED BY <2>1, <1>4, LiveFacts DEF Assignment
<1>10. /\ \A m \in Nodes : /\ pts[m] \subseteq pts'[m]
                           /\ m # super /\ m \notin CopySucc(edges', super) => pts'[m] = pts[m]
       /\ \A m \in CopySucc(edges', super) : merged[super] \subseteq pts'[m]
       /\ pts'[super] = merged[super]
  <2> HIDE DEF merged
  <2>1. \A m \in Nodes : /\ merged[m] \subseteq pts'[m]
                         /\ m \in CopySucc(edges', super) => merged[super] \subseteq pts'[m]
                         /\ m \notin CopySucc(edges', super) => pts'[m] = merged[m]
    <3> DEFINE q == Propagated(edges', merged, super)
    <3>1. \A m \in Nodes : /\ merged[m] \subseteq q[m]
                           /\ m \in CopySucc(edges', super) => merged[super] \subseteq q[m]
                           /\ m \notin CopySucc(edges', super) => q[m] = merged[m]
      BY <1>4, <1>9, PropagatedGrows
    <3>2. pts' = q
      BY <1>1
    <3> HIDE DEF q
    <3> QED BY <3>1, <3>2
  <2>2. CopySucc(edges', super) \subseteq Nodes
    BY DEF CopySucc
  <2> QED BY <2>1, <2>2, <1>4, <1>8, <1>9
<1>11. cached'[super] = merged[super] /\ \A m \in Nodes : m # super => cached'[m] = cached[m]
  BY <1>1, <1>4, LiveFacts
<1> HIDE DEF merged
<1>12. \A k, m \in Nodes : k # super /\ m \in CopySucc(edges', k) =>
         \E l \in CopySucc(edges, k) : m = moved(l) /\ k \notin scc
  <2> SUFFICES ASSUME NEW k \in Nodes, NEW m \in Nodes, k # super, <<"copy", k, m>> \in edges'
               PROVE  \E l \in CopySucc(edges, k) : m = moved(l) /\ k \notin scc
    BY DEF CopySucc
  <2>1. PICK f \in edges : <<"copy", k, m>> = Moved(f)
    BY <1>6
  <2>2. f = <<f[1], f[2], f[3]>> /\ f[1] = "copy" /\ k = moved(f[2]) /\ m = moved(f[3])
        /\ f[3] \in Nodes
    BY <2>1, LiveFacts
  <2>3. f[2] = k /\ k \notin scc
    BY <2>2
  <2>4. f[3] \in CopySucc(edges, k)
    BY <2>2, <2>3 DEF CopySucc
  <2> QED BY <2>2, <2>3, <2>4
<1>13. UNION pending' = (UNION pending) \ scc
  <2>1. \A other \in pending : other = scc \/ other \cap scc = {}
    BY <1>3 DEF Placed
  <2> QED BY <2>1, <1>1
<1>14. Placed'
  <2>1. EdgesAreLive'
    <3>1. \A e \in edges' : {e[2], e[3]} \subseteq Live'
      <4> TAKE e \in edges'
      <4>1. PICK f \in edges : e = Moved(f)
        BY <1>6
      <4>2. f[2] \in Live /\ f[3] \in Live
        BY LiveFacts
      <4> QED BY <4>1, <4>2, <1>5
    <3>2. \A n \in Nodes : rep'[n] \in Live'
      BY <1>5, LiveFacts
    <3> QED BY <3>1, <3>2 DEF EdgesAreLive
  <2>2. \A other \in pending' : other \subseteq Live'
    BY <1>1, <1>3, <1>5 DEF Placed
  <2> QED BY <2>1, <2>2, <1>1, <1>3, <1>6 DEF Placed
<1>15. Remembered'
  <2>1. SentIsReceived'
    <3> SUFFICES ASSUME NEW k \in Live', NEW m \in CopySucc(edges', k)
                 PROVE  cached'[k] \subseteq pts'[m]
      BY DEF SentIsReceived
    <3>1. CASE k = super
      BY <3>1, <1>10, <1>11
    <3>2. CASE k # super
      <4>1. k \in Live /\ k \in Nodes /\ m \in Nodes
        BY <3>2, <1>5 DEF Live, CopySucc
      <4>2. PICK l \in CopySucc(edges, k) : m = moved(l)
        BY <3>2, <4>1, <1>12
      <4>3. cached[k] \subseteq pts[l] /\ l \in Nodes
        BY <4>1, <4>2, <1>3 DEF Remembered, SentIsReceived, CopySucc
      <4>4. pts[l] \subseteq pts'[m]
        BY <4>2, <4>3, <1>9, <1>10
      <4> QED BY <3>2, <4>1, <4>3, <4>4, <1>11
    <3> QED BY <3>1, <3>2
  <2>2. \A m \in Nodes : cached'[m] \subseteq pts'[m]
    BY <1>3, <1>10, <1>11 DEF Remembered
  <2>3. ASSUME NEW h \in edgeCached, {h[1][2], h[1][3]} \subseteq Live'
        PROVE  h[1] \in edges' /\ Backed(h[1], h[2])'
    <3> DEFINE e == h[1]
               o == h[2]
               copy == IF e[1] = "load" THEN <<"copy", rep[o], e[3]>>
                                        ELSE <<"copy", e[2], rep[o]>>
               copy2 == IF e[1] = "load" THEN <<"copy", rep'[o], e[3]>>
                                         ELSE <<"copy", e[2], rep'[o]>>
    <3>1. e \in Edge /\ o \in ObjNodes /\ o \in Nodes /\ e = <<e[1], e[2], e[3]>>
      BY <1>3, EdgeFacts, NodeFacts DEF TypeOK
    <3>2. e[1] \in {"load", "store"} /\ e \in edges /\ (copy \in edges \/ SelfCopy(copy))
      BY <2>3, <1>3, <1>4, <1>5 DEF Remembered, Backed
    <3>3. moved(e[2]) = e[2] /\ moved(e[3]) = e[3]
      BY <2>3, <1>5
    <3>4. Moved(e) = e /\ ~SelfCopy(e)
      BY <3>1, <3>2, <3>3 DEF SelfCopy
    <3>5. e \in edges'
      BY <3>2, <3>4, <1>7
    <3>6. Moved(copy) = copy2
      BY <3>1, <3>3, <1>5
    <3>7. copy2 \in edges' \/ SelfCopy(copy2)
      <4>1. CASE copy \in edges
        BY <4>1, <3>6, <1>7
      <4>2. CASE SelfCopy(copy)
        BY <4>2, <3>6 DEF SelfCopy
      <4> QED BY <3>2, <4>1, <4>2
    <3> QED BY <3>5, <3>7 DEF Backed
  <2>4. \A h \in handled : h[1] \in Nodes
    BY <1>3, NodeFacts DEF TypeOK
  <2> QED BY <2>1, <2>2, <2>3, <2>4, <1>1, <1>3, <1>10 DEF Remembered
<1>16. Kept'
  <2>1. \A o \in ObjNodes : o \in pts'[AnonNode(o)]
    BY <1>3, <1>10, NodeFacts DEF Kept
  <2>2. ASSUME NEW c \in Bound
        PROVE  LET e == Redirected(rep', AsEdge(c)) IN e \in edges' \/ SelfCopy(e)
    <3> DEFINE d == AsEdge(c)
               e == Redirected(rep, d)
    <3>1. c \in Constraint
      BY <1>3, ProgramFacts DEF Bound, TypeOK
    <3>2. d \in Edge /\ d[2] \in Nodes /\ d[3] \in Nodes
      BY <3>1, LiveFacts, RedirectedFacts, EdgeFacts
    <3>3. e \in edges \/ SelfCopy(e)
      BY <1>3 DEF Kept
    <3>4. Redirected(rep', d) = Moved(e)
      BY <3>2, <1>5 DEF Redirected
    <3> HIDE DEF d
    <3>5. Redirected(rep', d) \in edges' \/ SelfCopy(Redirected(rep', d))
      <4> HIDE DEF e
      <4>1. CASE e \in edges
        BY <3>4, <4>1, <1>7
      <4>2. CASE SelfCopy(e)
        BY <3>4, <4>2 DEF SelfCopy
      <4> QED BY <3>3, <4>1, <4>2
    <3> QED BY <3>5 DEF d
  <2>3. CallsAreNotForgotten'
    <3> SUFFICES ASSUME NEW c \in Calls \ resolved, c.fn \in pts'[rep'[c.fp]]
                 PROVE  \E n \in funPtrs' : rep'[n] = rep'[c.fp]
      BY <1>1 DEF CallsAreNotForgotten, Calls
    <3>1. c.fp \in Nodes /\ rep[c.fp] \in Nodes
      BY <1>3, LiveFacts, ProgramFacts DEF TypeOK
    <3>2. CASE rep[c.fp] \in scc
      <4>1. rep'[c.fp] = super /\ rep'[super] = super
        BY <3>1, <3>2, <1>4, <1>5, LiveFacts
      <4>2. super \in funPtrs'
        BY <4>1, <1>1 DEF IsFunctionPtr, Calls
      <4> QED BY <4>1, <4>2
    <3>3. CASE rep[c.fp] \notin scc /\ pts'[rep[c.fp]] = pts[rep[c.fp]]
      <4>1. rep'[c.fp] = rep[c.fp]
        BY <3>1, <3>3, <1>5
      <4>2. PICK n \in funPtrs : rep[n] = rep[c.fp]
        BY <4>1, <3>3, <1>3 DEF Kept, CallsAreNotForgotten
      <4>3. n \in Nodes
        BY <1>3 DEF TypeOK
      <4> QED BY <4>2, <4>3, <3>1, <1>1, <1>5
    <3>4. CASE rep[c.fp] \notin scc /\ pts'[rep[c.fp]] # pts[rep[c.fp]]
      <4>1. rep'[c.fp] = rep[c.fp]
        BY <3>1, <3>4, <1>5
      <4>2. rep'[c.fp] \in GrownFunPtrs(rep', pts')
        BY <4>1, <3>1, <3>4, <1>5, GrownIsRecorded
      <4>3. rep'[rep'[c.fp]] = rep'[c.fp]
        BY <3>1, <1>5
      <4> QED BY <4>2, <4>3, <1>1
    <3> QED BY <3>2, <3>3, <3>4
  <2>4. Bound' = Bound
    BY <1>1 DEF Bound
  <2> QED BY <2>1, <2>2, <2>3, <2>4 DEF Kept
<1>17. Advanced'
  <2>1. ASSUME NEW k \in UNION pending', NEW m \in CopySucc(edges', k)
        PROVE  m \in UNION pending'
    <3>1. PICK other \in pending \ {scc} : k \in other
      BY <1>1
    <3>2. k \in Nodes /\ m \in Nodes /\ k \notin scc
      BY <1>3, <1>13, <3>1 DEF Placed, Live, CopySucc
    <3>3. PICK l \in CopySucc(edges, k) : m = moved(l)
      BY <3>2, <1>12
    <3>4. l \notin scc
      BY <3>1, <3>3, <1>1 DEF OnTop, CopySucc
    <3>5. l \in UNION pending
      BY <3>1, <3>3, <1>1, <1>3 DEF Advanced
    <3> QED BY <3>3, <3>4, <3>5, <1>13
  <2>2. ASSUME NEW k \in Live' \ UNION pending' PROVE Sent(k)'
    <3>1. CASE k = super
      BY <3>1, <1>10, <1>11 DEF Sent
    <3>2. CASE k # super
      <4>1. k \in Live /\ k \in Nodes /\ k \notin scc /\ k \notin UNION pending
        BY <3>2, <1>5, <1>13 DEF Live
      <4>2. Sent(k)
        BY <4>1, <1>1, <1>3 DEF Advanced
      <4>3. k \notin CopySucc(edges', super)
        <5> SUFFICES ASSUME <<"copy", super, k>> \in edges' PROVE FALSE
          BY DEF CopySucc
        <5>1. PICK f \in edges : <<"copy", super, k>> = Moved(f)
          BY <1>6
        <5>2. f = <<f[1], f[2], f[3]>> /\ f[1] = "copy" /\ moved(f[2]) = super /\ moved(f[3]) = k
          BY <5>1, LiveFacts
        <5>3. f[2] \in scc /\ f[3] = k
          BY <5>2, <4>1
        <5>4. k \in CopySucc(edges, f[2])
          BY <5>2, <5>3, <4>1 DEF CopySucc
        <5>5. k \in UNION pending
          BY <5>3, <5>4, <1>1, <1>3 DEF Advanced
        <5> QED BY <5>5, <4>1
      <4> QED BY <3>2, <4>1, <4>2, <4>3, <1>10, <1>11 DEF Sent
    <3> QED BY <3>1, <3>2
  <2> QED BY <2>1, <2>2, <1>1 DEF Advanced
<1>18. AnswerGrows
  <2> SUFFICES ASSUME NEW n \in Nodes PROVE pts[rep[n]] \subseteq pts'[rep'[n]]
    BY DEF AnswerGrows
  <2>1. rep[n] \in Nodes /\ rep'[n] = moved(rep[n])
    BY <1>5, LiveFacts
  <2>2. CASE rep[n] \in scc
    BY <2>1, <2>2, <1>9, <1>10
  <2>3. CASE rep[n] \notin scc
    BY <2>1, <2>3, <1>10
  <2> QED BY <2>2, <2>3
<1> QED BY <1>2, <1>14, <1>15, <1>16, <1>17, <1>18 DEF Inv

(***************************************************************************)
(* Loads, stores and offsets.                                              *)
(***************************************************************************)

(* Inserted edges are between live nodes.                                  *)
LEMMA InsertedIsLive ==
  ASSUME Inv, NEW C, \A c \in C : AsEdge(c) \in Edge,
         NEW f \in NewEdges(edges, rep, C)
  PROVE  /\ f[2] \in Live /\ f[3] \in Live /\ ~SelfCopy(f)
         /\ \E c \in C : f = Redirected(rep, AsEdge(c))
<1>1. PICK c \in C : f = Redirected(rep, AsEdge(c)) /\ ~SelfCopy(f)
  BY DEF NewEdges
<1> DEFINE d == AsEdge(c)
<1>2. d[2] \in Nodes /\ d[3] \in Nodes
  BY EdgeFacts
<1>3. f[2] = rep[d[2]] /\ f[3] = rep[d[3]]
  BY <1>1 DEF Redirected
<1> HIDE DEF d
<1> QED BY <1>1, <1>2, <1>3, LiveFacts DEF d

(* A copy edge between live nodes is inserted as it is.                    *)
LEMMA InsertedCopy ==
  ASSUME Inv, NEW C, NEW c \in C, c \in Edge, c[1] = "copy", c[2] \in Live, c[3] \in Live
  PROVE  c \in edges \cup NewEdges(edges, rep, C) \/ SelfCopy(c)
<1>1. c = <<c[1], c[2], c[3]>> /\ rep[c[2]] = c[2] /\ rep[c[3]] = c[3]
  BY EdgeFacts, LiveFacts
<1>2. Redirected(rep, AsEdge(c)) = c
  BY <1>1 DEF Redirected, AsEdge
<1> QED BY <1>2 DEF NewEdges

(* What a load and a store have in common: new copy edges, each of which   *)
(* carries over everything its source has.                                 *)
LEMMA AccessInv ==
  ASSUME Inv, pc = "edges", NEW e \in todo, e[1] \in {"load", "store"},
         NEW C \in SUBSET Edge,
         \A c \in C : c[1] = "copy" /\ c[2] \in Live /\ c[3] \in Live,
         \A o \in Fresh(e) : (IF e[1] = "load" THEN <<"copy", rep[o], e[3]>>
                                               ELSE <<"copy", e[2], rep[o]>>) \in C,
         AddCopies(NewEdges(edges, rep, C)),
         edgeCached' = edgeCached \cup ({e} \X Fresh(e)), todo' = todo \ {e},
         UNCHANGED <<prog, rep, resolved, handled, cached, pending, pc>>
  PROVE  Placed' /\ Remembered' /\ Kept' /\ Advanced' /\ AnswerGrows
<1> DEFINE new == NewEdges(edges, rep, C)
<1>1. /\ edges' = edges \cup new
      /\ pts' = [m \in Nodes |-> pts[m] \cup UNION {pts[f[2]] : f \in {d \in new : d[3] = m}}]
      /\ funPtrs' = funPtrs \cup GrownFunPtrs(rep, pts') \cup {}
      /\ changed' = (changed \/ new # {})
  BY DEF AddCopies
<1>2. Placed /\ Remembered /\ Kept /\ Advanced /\ TypeOK
  BY LiveFacts DEF Inv
<1>3. \A f \in new : f[2] \in Live /\ f[3] \in Live /\ f[3] \in Nodes /\ ~SelfCopy(f)
  <2>1. \A c \in C : AsEdge(c) \in Edge
    BY DEF AsEdge
  <2> QED BY <2>1, InsertedIsLive, LiveFacts
<1>4. \A c \in C : c \in edges' \/ SelfCopy(c)
  BY <1>1, InsertedCopy
<1> HIDE DEF new
<1>5. /\ \A m \in Nodes : pts[m] \subseteq pts'[m]
      /\ \A f \in new : pts[f[2]] \subseteq pts'[f[3]]
  BY <1>1, <1>3
<1>6. Live' = Live
  BY DEF Live
<1>7. Placed'
  BY <1>1, <1>2, <1>3, <1>6 DEF Placed, EdgesAreLive
<1>8. Remembered'
  <2>1. SentIsReceived'
    <3> SUFFICES ASSUME NEW k \in Live, NEW m \in CopySucc(edges', k)
                 PROVE  cached[k] \subseteq pts'[m]
      BY <1>6 DEF SentIsReceived
    <3>1. k \in Nodes /\ m \in Nodes /\ <<"copy", k, m>> \in edges'
      BY DEF Live, CopySucc
    <3>2. CASE <<"copy", k, m>> \in edges
      <4>1. cached[k] \subseteq pts[m]
        BY <3>1, <3>2, <1>2 DEF Remembered, SentIsReceived, CopySucc
      <4> QED BY <4>1, <3>1, <1>5
    <3>3. CASE <<"copy", k, m>> \in new
      <4>1. cached[k] \subseteq pts[k]
        BY <3>1, <1>2 DEF Remembered
      <4>2. pts[k] \subseteq pts'[m]
        BY <3>3, <1>5
      <4> QED BY <4>1, <4>2
    <3> QED BY <3>1, <3>2, <3>3, <1>1
  <2>2. \A m \in Nodes : cached[m] \subseteq pts'[m]
    BY <1>2, <1>5 DEF Remembered
  <2>3. ASSUME NEW h \in edgeCached, {h[1][2], h[1][3]} \subseteq Live
        PROVE  h[1] \in edges' /\ Backed(h[1], h[2])'
    BY <2>3, <1>1, <1>2 DEF Remembered, Backed
  <2>4. ASSUME NEW h \in {e} \X Fresh(e)
        PROVE  h[1] \in edges' /\ Backed(h[1], h[2])' /\ h[1][1] \in {"load", "store"}
    <3>1. h[1] = e /\ h[2] \in Fresh(e)
      OBVIOUS
    <3>2. e \in edges'
      BY <1>1, <1>2 DEF Placed
    <3>3. Backed(e, h[2])'
      BY <3>1, <1>4 DEF Backed
    <3> QED BY <3>1, <3>2, <3>3
  <2>5. \A h \in handled : h[1] \in Nodes
    BY <1>2, NodeFacts DEF TypeOK
  <2>6. \A h \in edgeCached' : /\ h[1][1] \in {"load", "store"}
                               /\ {h[1][2], h[1][3]} \subseteq Live =>
                                    h[1] \in edges' /\ Backed(h[1], h[2])'
    BY <2>3, <2>4, <1>2 DEF Remembered
  <2> QED BY <2>1, <2>2, <2>5, <2>6, <1>2, <1>5, <1>6 DEF Remembered
<1>9. Kept'
  <2>1. \A o \in ObjNodes : o \in pts'[AnonNode(o)]
    BY <1>2, <1>5, NodeFacts DEF Kept
  <2>2. CallsAreNotForgotten'
    BY <1>1, CallsStayRemembered
  <2>3. Bound' = Bound
    BY DEF Bound
  <2> QED BY <2>1, <2>2, <2>3, <1>1, <1>2 DEF Kept
<1>10. Advanced'
  <2> SUFFICES ASSUME ~changed'
               PROVE  (\A n \in Live : Sent(n)') /\ \A f \in edges' \ todo' : Done(f)'
    BY <1>6 DEF Advanced
  <2>1. ~changed /\ new = {}
    BY <1>1, <1>2 DEF TypeOK
  <2>2. edges' = edges
    BY <2>1, <1>1
  <2>3. \A m \in Nodes : pts'[m] = pts[m]
    BY <2>1, <1>1, LiveFacts
  <2>4. \A n \in Live : Sent(n)'
    BY <2>1, <2>3, <1>2, LiveFacts DEF Advanced, Sent
  <2>5. ASSUME NEW f \in edges' \ todo' PROVE Done(f)'
    <3>1. f \in Edge /\ f[2] \in Nodes /\ Visited(f) \in Nodes
      BY <2>2, LiveFacts DEF Visited, Live
    <3>2. CASE f = e
      <4>1. Fresh(e)' = {}
        BY <3>1, <3>2, <2>3 DEF Fresh, Visited
      <4> QED BY <4>1, <3>2 DEF Done
    <3>3. CASE f \in edges \ todo
      <4>1. Done(f)
        BY <3>3, <2>1, <1>2 DEF Advanced
      <4>2. Fresh(f)' \subseteq Fresh(f)
        BY <3>1, <2>3 DEF Fresh, Visited
      <4>3. pts'[f[2]] = pts[f[2]]
        BY <3>1, <2>3
      <4> QED BY <4>1, <4>2, <4>3 DEF Done
    <3> QED BY <3>2, <3>3, <2>2
  <2> QED BY <2>4, <2>5
<1>11. AnswerGrows
  BY <1>5, LiveFacts DEF AnswerGrows
<1> QED BY <1>7, <1>8, <1>9, <1>10, <1>11

LEMMA HandleLoadInv ==
  ASSUME Inv, NEW e \in todo, HandleLoad(e) PROVE Inv' /\ AnswerGrows
<1> DEFINE C == {<<"copy", rep[o], e[3]>> : o \in Fresh(e)}
<1>1. /\ pc = "edges" /\ e[1] = "load"
      /\ AddCopies(NewEdges(edges, rep, C))
      /\ edgeCached' = edgeCached \cup ({e} \X Fresh(e)) /\ todo' = todo \ {e}
      /\ UNCHANGED <<prog, rep, resolved, handled, cached, pending, pc>>
  BY DEF HandleLoad
<1>2. SoundInv'
  BY HandleLoadSound DEF Inv
<1>3. e[3] \in Live /\ e[3] \in Nodes /\ Fresh(e) \subseteq Nodes
  BY LiveFacts, TodoFacts, NodeFacts DEF Inv, Placed
<1>4. \A c \in C : c \in Edge /\ c[1] = "copy" /\ c[2] \in Live /\ c[3] \in Live
  BY <1>3, LiveFacts DEF Edge, Kinds
<1>5. \A o \in Fresh(e) : (IF e[1] = "load" THEN <<"copy", rep[o], e[3]>>
                                            ELSE <<"copy", e[2], rep[o]>>) \in C
  BY <1>1
<1> HIDE DEF C
<1>6. C \in SUBSET Edge
  BY <1>4
<1>7. Placed' /\ Remembered' /\ Kept' /\ Advanced' /\ AnswerGrows
  BY <1>1, <1>4, <1>5, <1>6, AccessInv
<1> QED BY <1>2, <1>7 DEF Inv

LEMMA HandleStoreInv ==
  ASSUME Inv, NEW e \in todo, HandleStore(e) PROVE Inv' /\ AnswerGrows
<1> DEFINE C == {<<"copy", e[2], rep[o]>> : o \in Fresh(e)}
<1>1. /\ pc = "edges" /\ e[1] = "store"
      /\ AddCopies(NewEdges(edges, rep, C))
      /\ edgeCached' = edgeCached \cup ({e} \X Fresh(e)) /\ todo' = todo \ {e}
      /\ UNCHANGED <<prog, rep, resolved, handled, cached, pending, pc>>
  BY DEF HandleStore
<1>2. SoundInv'
  BY HandleStoreSound DEF Inv
<1>3. e[2] \in Live /\ e[2] \in Nodes /\ Fresh(e) \subseteq Nodes
  BY LiveFacts, TodoFacts, NodeFacts DEF Inv, Placed
<1>4. \A c \in C : c \in Edge /\ c[1] = "copy" /\ c[2] \in Live /\ c[3] \in Live
  BY <1>3, LiveFacts DEF Edge, Kinds
<1>5. \A o \in Fresh(e) : (IF e[1] = "load" THEN <<"copy", rep[o], e[3]>>
                                            ELSE <<"copy", e[2], rep[o]>>) \in C
  BY <1>1
<1> HIDE DEF C
<1>6. C \in SUBSET Edge
  BY <1>4
<1>7. Placed' /\ Remembered' /\ Kept' /\ Advanced' /\ AnswerGrows
  BY <1>1, <1>4, <1>5, <1>6, AccessInv
<1> QED BY <1>2, <1>7 DEF Inv

(* The only object of an anonymous pointer is its own, so that the address *)
(* of a field that flows in brings nothing but the field.                  *)
LEMMA HandleOffsetInv ==
  ASSUME Inv, NEW e \in todo, HandleOffset(e) PROVE Inv' /\ AnswerGrows
<1> DEFINE g == e[3]
           newGEPs == {o \in pts[e[2]] : <<g, o>> \notin handled}
           fields == {IndexObject[g][o] : o \in newGEPs} \ ({NoObj} \cup pts[g])
           C == {"addr_of"} \X fields \X {g}
           new == NewEdges(edges, rep, C)
<1>1. /\ pc = "edges" /\ e[1] = "offset"
      /\ edges' = edges \cup new
      /\ pts' = [pts EXCEPT ![g] = @ \cup fields]
      /\ funPtrs' = funPtrs \cup GrownFunPtrs(rep, pts') \cup {}
      /\ changed' = (changed \/ fields # {})
      /\ handled' = handled \cup ({g} \X newGEPs)
      /\ todo' = todo \ {e}
      /\ UNCHANGED <<prog, rep, resolved, cached, edgeCached, pending, pc>>
  BY DEF HandleOffset, AddConstraints
<1>2. SoundInv'
  BY HandleOffsetSound DEF Inv
<1>3. Placed /\ Remembered /\ Kept /\ Advanced /\ Shape /\ Sound /\ TypeOK
  BY DEF Inv, SoundInv
<1>4. /\ e \in edges /\ e[2] \in Nodes /\ g \in Nodes /\ g \in GepNodes /\ g \in PtrNodes
      /\ pts[e[2]] \subseteq ObjNodes
  <2>1. e \in edges /\ e[2] \in Nodes /\ g \in Nodes /\ g \in GepNodes
    BY <1>1, <1>3, TodoFacts DEF Inv, Placed, WellFormedEdge
  <2> QED BY <2>1, LiveFacts, NodesAssumption
<1>5. fields \subseteq ObjNodes
  <2>1. \A o \in ObjNodes : IndexObject[g][o] \in ObjNodes \cup {NoObj}
    BY <1>4, NodesAssumption
  <2> QED BY <2>1, <1>4
<1>6. \A o \in newGEPs : IndexObject[g][o] # NoObj => IndexObject[g][o] \in pts[g] \cup fields
  OBVIOUS
<1> HIDE DEF fields, newGEPs
<1>7. \A c \in C : AsEdge(c) = <<"copy", AnonNode(c[2]), g>> /\ AsEdge(c) \in Edge /\ c[2] \in fields
  <2> TAKE c \in C
  <2>1. c[1] = "addr_of" /\ c[2] \in fields /\ c[3] = g
    OBVIOUS
  <2>2. AnonNode(c[2]) \in Nodes
    BY <2>1, <1>5, NodeFacts
  <2> QED BY <2>1, <2>2, <1>4 DEF AsEdge, Edge, Kinds
<1>8. \A f \in new : /\ f[2] \in Live /\ f[3] \in Live /\ ~SelfCopy(f)
                     /\ \E o \in fields : f[2] = AnonNode(o) /\ f[3] = g
  <2> TAKE f \in new
  <2>1. f[2] \in Live /\ f[3] \in Live /\ ~SelfCopy(f)
        /\ \E c \in C : f = Redirected(rep, AsEdge(c))
    BY <1>7, InsertedIsLive
  <2>2. PICK c \in C : f = Redirected(rep, AsEdge(c))
    BY <2>1
  <2> DEFINE a == AnonNode(c[2])
  <2>3. a \in Alone /\ a \in Nodes /\ g \in Alone
    BY <1>4, <1>5, <1>7, NodeFacts DEF Alone
  <2>4. rep[a] = a /\ rep[g] = g
    BY <2>3, <1>3, <1>4 DEF Shape
  <2>5. AsEdge(c) = <<"copy", a, g>> /\ c[2] \in fields
    BY <1>7
  <2>6. f[2] = a /\ f[3] = g
    BY <2>2, <2>4, <2>5 DEF Redirected
  <2> QED BY <2>1, <2>5, <2>6
<1>9. ~changed' => ~changed /\ fields = {} /\ new = {}
  <2>1. fields = {} => C = {}
    OBVIOUS
  <2>2. C = {} => new = {}
    BY DEF NewEdges
  <2> QED BY <2>1, <2>2, <1>1, <1>3 DEF TypeOK
<1> HIDE DEF new, C
<1>10. /\ \A m \in Nodes : pts[m] \subseteq pts'[m] /\ (m # g => pts'[m] = pts[m])
       /\ pts'[g] = pts[g] \cup fields
  BY <1>1, <1>4, LiveFacts
<1>11. Live' = Live
  BY <1>1 DEF Live
<1>12. Placed'
  BY <1>1, <1>3, <1>8, <1>11 DEF Placed, EdgesAreLive
<1>13. Remembered'
  <2>1. SentIsReceived'
    <3> SUFFICES ASSUME NEW k \in Live, NEW m \in CopySucc(edges', k)
                 PROVE  cached[k] \subseteq pts'[m]
      BY <1>1, <1>11 DEF SentIsReceived
    <3>1. k \in Nodes /\ m \in Nodes /\ <<"copy", k, m>> \in edges'
      BY DEF Live, CopySucc
    <3>2. CASE <<"copy", k, m>> \in edges
      <4>1. cached[k] \subseteq pts[m]
        BY <3>1, <3>2, <1>3 DEF Remembered, SentIsReceived, CopySucc
      <4> QED BY <4>1, <3>1, <1>10
    <3>3. CASE <<"copy", k, m>> \in new
      <4>1. PICK o \in fields : k = AnonNode(o) /\ m = g
        BY <3>3, <1>8
      <4>2. cached[k] \subseteq Reference[prog][k]
        BY <3>1, <1>3 DEF Remembered, Sound
      <4>3. Reference[prog][k] = {o}
        BY <4>1, <1>3, <1>5, ProgramFacts DEF TypeOK
      <4> QED BY <4>1, <4>2, <4>3, <1>10
    <3> QED BY <3>1, <3>2, <3>3, <1>1
  <2>2. \A m \in Nodes : cached[m] \subseteq pts'[m]
    BY <1>3, <1>10 DEF Remembered
  <2>3. \A h \in edgeCached : {h[1][2], h[1][3]} \subseteq Live =>
                                h[1] \in edges' /\ Backed(h[1], h[2])'
    BY <1>1, <1>3 DEF Remembered, Backed
  <2>4. \A h \in handled' : LET f == IndexObject[h[1]][h[2]] IN f # NoObj => f \in pts'[h[1]]
    <3>1. \A h \in handled : h[1] \in Nodes
      BY <1>3, NodeFacts DEF TypeOK
    <3> QED BY <3>1, <1>1, <1>3, <1>6, <1>10 DEF Remembered
  <2> QED BY <2>1, <2>2, <2>3, <2>4, <1>1, <1>3, <1>11 DEF Remembered
<1>14. Kept'
  <2>1. \A o \in ObjNodes : o \in pts'[AnonNode(o)]
    BY <1>3, <1>10, NodeFacts DEF Kept
  <2>2. CallsAreNotForgotten'
    BY <1>1, CallsStayRemembered
  <2>3. Bound' = Bound
    BY <1>1 DEF Bound
  <2> QED BY <2>1, <2>2, <2>3, <1>1, <1>3 DEF Kept
<1>15. Advanced'
  <2> SUFFICES ASSUME ~changed'
               PROVE  (\A n \in Live : Sent(n)') /\ \A f \in edges' \ todo' : Done(f)'
    BY <1>1, <1>11 DEF Advanced
  <2>1. ~changed /\ fields = {} /\ edges' = edges
    BY <1>1, <1>9
  <2>2. \A m \in Nodes : pts'[m] = pts[m]
    BY <2>1, <1>10
  <2>3. \A n \in Live : Sent(n)'
    BY <2>1, <2>2, <1>1, <1>3, LiveFacts DEF Advanced, Sent
  <2>4. ASSUME NEW f \in edges' \ todo' PROVE Done(f)'
    <3>1. f \in Edge /\ f[2] \in Nodes /\ Visited(f) \in Nodes
      BY <2>1, LiveFacts DEF Visited, Live
    <3>2. CASE f = e
      <4>1. {g} \X pts'[e[2]] \subseteq handled'
        BY <2>2, <1>1, <1>4 DEF newGEPs
      <4> QED BY <4>1, <3>2, <1>1 DEF Done
    <3>3. CASE f \in edges \ todo
      <4>1. Done(f)
        BY <3>3, <2>1, <1>1, <1>3 DEF Advanced
      <4>2. Fresh(f)' = Fresh(f)
        BY <3>1, <2>2, <1>1 DEF Fresh, Visited
      <4>3. pts'[f[2]] = pts[f[2]] /\ handled \subseteq handled'
        BY <3>1, <2>2, <1>1
      <4> QED BY <4>1, <4>2, <4>3 DEF Done
    <3> QED BY <3>2, <3>3, <2>1, <1>1
  <2> QED BY <2>3, <2>4
<1>16. AnswerGrows
  <2>1. \A m \in Nodes : pts[m] \subseteq pts'[m]
    BY <1>10
  <2> QED BY <2>1, <1>1, LiveFacts DEF AnswerGrows
<1> QED BY <1>2, <1>12, <1>13, <1>14, <1>15, <1>16 DEF Inv

(***************************************************************************)
(* Binding calls: the constraints of a call become edges, and a call that  *)
(* has to be looked at is bound.                                           *)
(***************************************************************************)
LEMMA ResolveFunPtrsInv == Inv /\ ResolveFunPtrs => Inv'
<1> SUFFICES ASSUME Inv, ResolveFunPtrs PROVE Inv'
  OBVIOUS
<1> DEFINE C == UNION {c.cons : c \in NewTargets}
           new == NewEdges(edges, rep, C)
<1>1. /\ pc = "resolve"
      /\ edges' = edges \cup new
      /\ resolved' = resolved \cup NewTargets /\ funPtrs' = {}
      /\ \/ NewTargets = {} /\ pc' = "done" /\ cached' = cached
         \/ pc' = "round" /\ cached' = [n \in Nodes |-> {}]
      /\ UNCHANGED <<prog, rep, pts, handled, edgeCached, pending, todo, changed>>
  BY DEF ResolveFunPtrs, AddConstraints
<1>2. SoundInv'
  BY ResolveFunPtrsSound DEF Inv
<1>3. Placed /\ Remembered /\ Kept /\ Advanced /\ TypeOK
  BY LiveFacts DEF Inv
<1>4. \A c \in C : AsEdge(c) \in Edge
  <2>1. \A c \in NewTargets : c \in Calls
    BY DEF NewTargets
  <2>2. C \subseteq Constraint
    BY <2>1, <1>3, ProgramFacts DEF TypeOK
  <2> HIDE DEF C
  <2> QED BY <2>2, LiveFacts, RedirectedFacts
<1>5. \A f \in new : f[2] \in Live /\ f[3] \in Live /\ ~SelfCopy(f)
  <2> HIDE DEF C
  <2> QED BY <1>4, InsertedIsLive
<1>6. NewTargets = {} => new = {}
  BY DEF NewEdges
<1>7. \A c \in C : LET e == Redirected(rep, AsEdge(c)) IN e \in edges' \/ SelfCopy(e)
  BY <1>1 DEF NewEdges
<1>8. Bound' = Bound \cup C
  BY <1>1 DEF Bound
<1> HIDE DEF C, new
<1>9. Live' = Live
  BY <1>1 DEF Live
<1>10. Placed'
  BY <1>1, <1>3, <1>5, <1>9 DEF Placed, EdgesAreLive
<1>11. Remembered'
  <2>1. SentIsReceived' /\ \A m \in Nodes : cached'[m] \subseteq pts'[m]
    <3>1. CASE NewTargets = {} /\ cached' = cached
      <4>1. edges' = edges /\ pts' = pts
        BY <3>1, <1>1, <1>6
      <4> QED BY <3>1, <4>1, <1>3, <1>9 DEF Remembered, SentIsReceived
    <3>2. CASE cached' = [n \in Nodes |-> {}]
      BY <3>2 DEF SentIsReceived, Live
    <3> QED BY <3>1, <3>2, <1>1
  <2>2. \A h \in edgeCached : {h[1][2], h[1][3]} \subseteq Live =>
                                h[1] \in edges' /\ Backed(h[1], h[2])'
    BY <1>1, <1>3 DEF Remembered, Backed
  <2> QED BY <2>1, <2>2, <1>1, <1>3, <1>9 DEF Remembered
<1>12. Kept'
  <2>1. CallsAreNotForgotten'
    <3> SUFFICES ASSUME NEW c \in Calls \ resolved', c.fn \in pts[rep[c.fp]] PROVE FALSE
      BY <1>1 DEF CallsAreNotForgotten, Calls
    <3>1. c \in Calls \ resolved /\ c \notin NewTargets
      BY <1>1
    <3>2. \E n \in funPtrs : rep[n] = rep[c.fp]
      BY <3>1, <1>3 DEF Kept, CallsAreNotForgotten
    <3> QED BY <3>1, <3>2 DEF NewTargets
  <2>2. \A c \in Bound : LET e == Redirected(rep, AsEdge(c)) IN e \in edges' \/ SelfCopy(e)
    BY <1>1, <1>3 DEF Kept
  <2> QED BY <2>1, <2>2, <1>1, <1>3, <1>7, <1>8 DEF Kept
<1>13. Advanced'
  BY <1>1 DEF Advanced
<1> QED BY <1>2, <1>10, <1>11, <1>12, <1>13 DEF Inv

(* Inv is an inductive invariant.                                          *)
LEMMA NextInv == Inv /\ [Next]_vars => Inv'
<1> SUFFICES ASSUME Inv, [Next]_vars PROVE Inv'
  OBVIOUS
<1>1. CASE BeginRound
  BY <1>1, BeginRoundInv
<1>2. CASE \E n \in Nodes : PropagateNode(n)
  BY <1>2, PropagateNodeInv
<1>3. CASE \E scc \in pending : \E super \in scc : CollapseCycle(scc, super)
  BY <1>3, CollapseCycleInv
<1>4. CASE EndWave
  BY <1>4, EndWaveInv
<1>5. CASE \E e \in todo : HandleLoad(e) \/ HandleStore(e) \/ HandleOffset(e)
  BY <1>5, HandleLoadInv, HandleStoreInv, HandleOffsetInv
<1>6. CASE EndRound
  BY <1>6, EndRoundInv
<1>7. CASE ResolveFunPtrs
  BY <1>7, ResolveFunPtrsInv
<1>8. CASE UNCHANGED vars
  <2>1. UNCHANGED <<prog, edges, rep, pts, funPtrs, resolved, handled, cached,
                    edgeCached, pending, todo, changed, pc>>
    BY <1>8 DEF vars, graphVars, callVars, cacheVars
  <2>2. SoundInv'
    BY <2>1 DEF Inv, SoundInv, TypeOK, Shape, Sound, Calls
  <2>3. Placed' /\ Remembered'
    BY <2>1 DEF Inv, Placed, EdgesAreLive, Live, Remembered, SentIsReceived, Backed
  <2>4. Kept' /\ Advanced'
    BY <2>1 DEF Inv, Kept, Bound, CallsAreNotForgotten, Calls, Advanced, Live, Sent, Done, Fresh
  <2> QED BY <2>2, <2>3, <2>4 DEF Inv
<1> QED BY <1>1, <1>2, <1>3, <1>4, <1>5, <1>6, <1>7, <1>8 DEF Next

(* The invariant of the solver, and with it everything its caches rely on. *)
THEOREM InvHolds == Spec => []Inv
<1>1. Init => Inv
  BY InitInv
<1>2. Inv /\ [Next]_vars => Inv'
  BY NextInv
<1> QED BY <1>1, <1>2, PTL DEF Spec

(* insertConstraint and collapseSCCTo leave no edge at a collapsed node.   *)
THEOREM EdgesStayLive == Spec => []EdgesAreLive
<1>1. Inv => EdgesAreLive
  BY DEF Inv, Placed
<1> QED BY <1>1, InvHolds, PTL

(* What cachedPTS says was sent has arrived at every successor, so sending *)
(* the difference is enough.                                               *)
THEOREM DifferenceIsEnough == Spec => []SentIsReceived
<1>1. Inv => SentIsReceived
  BY DEF Inv, Remembered
<1> QED BY <1>1, InvHolds, PTL

(* An edge need not look twice at an object: the copy edge it was handled  *)
(* for is still there, wherever its ends have been collapsed to.           *)
THEOREM EdgeCacheIsSafe == Spec => []EdgeCacheIsBacked
<1>1. Inv => EdgeCacheIsBacked
  <2> SUFFICES ASSUME Inv, NEW h \in edgeCached, h[1] \in edges PROVE Backed(h[1], h[2])
    BY DEF EdgeCacheIsBacked
  <2>1. {h[1][2], h[1][3]} \subseteq Live
    BY LiveFacts
  <2> QED BY <2>1 DEF Inv, Remembered
<1> QED BY <1>1, InvHolds, PTL

(* No indirect call to a function that its pointer points to is lost, also *)
(* when the pointer was collapsed in between.                              *)
THEOREM NoCallIsForgotten == Spec => []CallsAreNotForgotten
<1>1. Inv => CallsAreNotForgotten
  BY DEF Inv, Kept
<1> QED BY <1>1, InvHolds, PTL

(***************************************************************************)
(* The refinement.  When a round has added no edge, everything has been    *)
(* sent and every edge handled, so the answer satisfies each constraint    *)
(* that is bound.                                                          *)
(***************************************************************************)
LEMMA BoundHolds ==
  ASSUME Inv, pc = "resolve", NEW c \in Bound
  PROVE  Holds(Answer, c)
<1> DEFINE d == AsEdge(c)
           e == Redirected(rep, d)
           sends(a, b) == pts[a] \subseteq pts[b]
<1>1. Placed /\ Remembered /\ Kept /\ Advanced /\ Shape /\ TypeOK
  BY DEF Inv, SoundInv
<1>2. /\ \A n \in Live : Sent(n)
      /\ \A f \in edges : Done(f)
  BY <1>1 DEF Advanced, Placed
<1>3. c \in Constraint
  BY <1>1, ProgramFacts DEF Bound, TypeOK
<1>4. /\ d \in Edge /\ e = <<d[1], rep[d[2]], rep[d[3]]>> /\ e \in Edge
      /\ d[2] \in Nodes /\ d[3] \in Nodes /\ d[1] \in Kinds
      /\ d[1] = "offset" => d[3] \in GepNodes
  BY <1>3, LiveFacts, RedirectedFacts, EdgeFacts
<1>5. e \in edges \/ SelfCopy(e)
  BY <1>1 DEF Kept
<1>6. \A n \in Nodes : Answer[n] = pts[rep[n]]
  BY DEF Answer
<1>7. \A a, b \in Live : <<"copy", a, b>> \in edges \/ SelfCopy(<<"copy", a, b>>) => sends(a, b)
  <2> SUFFICES ASSUME NEW a \in Live, NEW b \in Live, <<"copy", a, b>> \in edges PROVE sends(a, b)
    BY DEF SelfCopy
  <2>1. b \in CopySucc(edges, a) /\ a \in Nodes
    BY LiveFacts DEF CopySucc
  <2> QED BY <2>1, <1>1, <1>2 DEF Remembered, SentIsReceived, Sent
<1>8. rep[d[2]] \in Live /\ rep[d[3]] \in Live
  BY <1>4, LiveFacts
<1>9. CASE d[1] = "copy"
  <2>1. sends(rep[d[2]], rep[d[3]])
    BY <1>4, <1>5, <1>7, <1>8, <1>9
  <2>2. CASE c[1] = "addr_of"
    <3>1. d = <<"copy", AnonNode(c[2]), c[3]>>
      BY <2>2 DEF AsEdge
    <3>2. c[2] \in ObjNodes
      BY <1>3, <2>2 DEF Constraint, AddrOf, Edge, Kinds
    <3>3. rep[AnonNode(c[2])] = AnonNode(c[2])
      BY <3>2, <1>1, NodeFacts DEF Shape, Alone
    <3>4. c[2] \in pts[AnonNode(c[2])] /\ c[3] \in Nodes
      BY <3>1, <3>2, <1>1, <1>4 DEF Kept
    <3> HIDE DEF d
    <3> QED BY <2>1, <2>2, <3>1, <3>3, <3>4, <1>6, HoldsFacts
  <2>3. CASE c[1] # "addr_of"
    <3>1. d = c
      BY <2>3 DEF AsEdge
    <3> HIDE DEF d
    <3> QED BY <2>1, <3>1, <1>4, <1>6, <1>9, HoldsFacts
  <2> QED BY <2>2, <2>3
<1>10. CASE d[1] # "copy"
  <2>1. d = c
    BY <1>10 DEF AsEdge
  <2> HIDE DEF d
  <2>2. e \in edges /\ Done(e) /\ e[1] = d[1] /\ e[2] = rep[d[2]] /\ e[3] = rep[d[3]]
    BY <1>2, <1>4, <1>5, <1>10 DEF SelfCopy
  <2>3. pts[e[2]] \subseteq ObjNodes /\ pts[e[3]] \subseteq ObjNodes
    BY <2>2, LiveFacts
  <2> HIDE DEF e
  <2>4. ASSUME e[1] \in {"load", "store"}, NEW o \in pts[Visited(e)]
        PROVE  /\ o \in Nodes /\ rep[o] \in Live
               /\ e[1] = "load" => sends(rep[o], e[3])
               /\ e[1] = "store" => sends(e[2], rep[o])
    <3>1. o \in Nodes /\ rep[o] \in Live
      BY <2>3, NodeFacts, LiveFacts DEF Visited
    <3>2. <<e, o>> \in edgeCached
      BY <2>2, <2>4 DEF Done, Fresh
    <3>3. e[2] \in Live /\ e[3] \in Live
      BY <2>2, LiveFacts
    <3>4. \A h \in edgeCached : {h[1][2], h[1][3]} \subseteq Live => Backed(h[1], h[2])
      BY <1>1 DEF Remembered
    <3>5. Backed(e, o)
      BY <3>2, <3>3, <3>4
    <3> QED BY <3>1, <3>3, <3>5, <1>7 DEF Backed
  <2>5. CASE d[1] = "load"
    <3>1. \A o \in pts[e[2]] : o \in Nodes /\ sends(rep[o], e[3])
      BY <2>2, <2>4, <2>5 DEF Visited
    <3> QED BY <3>1, <2>1, <2>2, <2>5, <1>4, <1>6, HoldsFacts
  <2>6. CASE d[1] = "store"
    <3>1. \A o \in pts[e[3]] : o \in Nodes /\ sends(e[2], rep[o])
      BY <2>2, <2>4, <2>6 DEF Visited
    <3> QED BY <3>1, <2>1, <2>2, <2>6, <1>4, <1>6, HoldsFacts
  <2>7. CASE d[1] = "offset"
    <3>1. d[3] \in GepNodes /\ rep[d[3]] = d[3]
      BY <2>7, <1>1, <1>4 DEF Shape, Alone
    <3>2. \A o \in pts[e[2]] : <<d[3], o>> \in handled
      BY <2>2, <2>7, <3>1 DEF Done
    <3>3. \A o \in pts[e[2]] : IndexObject[d[3]][o] # NoObj => IndexObject[d[3]][o] \in pts[d[3]]
      <4>1. \A h \in handled :
              IndexObject[h[1]][h[2]] # NoObj => IndexObject[h[1]][h[2]] \in pts[h[1]]
        BY <1>1 DEF Remembered
      <4> QED BY <3>2, <4>1
    <3> QED BY <3>1, <3>3, <2>1, <2>2, <2>7, <1>4, <1>6, HoldsFacts
  <2> QED BY <2>5, <2>6, <2>7, <1>4, <1>10 DEF Kinds
<1> QED BY <1>9, <1>10

(* When no call is left to bind, the answer is a solution.                 *)
LEMMA AnswerIsSolution ==
  ASSUME Inv, pc = "resolve", NewTargets = {}
  PROVE  IsSolution(Program[prog], Answer)
<1>1. Kept /\ Shape /\ Sound /\ TypeOK
  BY DEF Inv, SoundInv
<1>2. \A o \in ObjNodes : Answer[AnonNode(o)] = {o}
  <2> SUFFICES ASSUME NEW o \in ObjNodes PROVE Answer[AnonNode(o)] = {o}
    OBVIOUS
  <2>1. AnonNode(o) \in Nodes /\ AnonNode(o) \in Alone
    BY NodeFacts DEF Alone
  <2>2. rep[AnonNode(o)] = AnonNode(o)
    BY <2>1, <1>1 DEF Shape
  <2>3. pts[AnonNode(o)] \subseteq {o}
    BY <2>1, <1>1, ProgramFacts DEF Sound, TypeOK
  <2>4. o \in pts[AnonNode(o)]
    BY <1>1 DEF Kept
  <2> QED BY <2>1, <2>2, <2>3, <2>4 DEF Answer
<1>3. \A c \in Bound : Holds(Answer, c)
  BY BoundHolds
<1>4. ASSUME NEW call \in Calls, call.fn \in Answer[call.fp]
      PROVE  \A c \in call.cons : Holds(Answer, c)
  <2>1. call.fn \in pts[rep[call.fp]]
    BY <1>4, <1>1, ProgramFacts DEF Answer, TypeOK
  <2>2. call \in resolved
    BY <2>1, <1>1 DEF Kept, CallsAreNotForgotten, NewTargets
  <2>3. call.cons \subseteq Bound
    BY <2>2 DEF Bound
  <2> QED BY <2>3, <1>3
<1> QED BY <1>2, <1>3, <1>4 DEF IsSolution, Bound, Calls

(* The abstract analysis states the same conditions.                       *)
LEMMA SameConditions ==
  /\ Analysis!Nodes = Nodes
  /\ Analysis!Assignment = Assignment
  /\ \A S, T : Analysis!Within(S, T) <=> \A n \in Nodes : S[n] \subseteq T[n]
  /\ \A P, S : Analysis!IsSolution(P, S) <=> IsSolution(P, S)
<1>1. Analysis!Nodes = Nodes
  BY DEF Analysis!Nodes, Nodes, Analysis!AnonNodes, AnonNodes, Analysis!AnonNode, AnonNode
<1>2. Analysis!Assignment = Assignment
  BY <1>1 DEF Analysis!Assignment, Assignment
<1>3. \A S, T : Analysis!Within(S, T) <=> \A n \in Nodes : S[n] \subseteq T[n]
  BY <1>1 DEF Analysis!Within
<1>4. \A S, c : Analysis!Holds(S, c) <=> Holds(S, c)
  BY DEF Analysis!Holds, Holds
<1>5. \A P, S : Analysis!IsSolution(P, S) <=> IsSolution(P, S)
  BY <1>4 DEF Analysis!IsSolution, IsSolution, Analysis!AnonNode, AnonNode
<1> QED BY <1>1, <1>2, <1>3, <1>5

LEMMA InitMapsToInit == Init => Analysis!Init
<1> SUFFICES ASSUME Init PROVE Analysis!Init
  OBVIOUS
<1>1. /\ prog \in ProgIds /\ rep = [n \in Nodes |-> n] /\ pc = "round"
      /\ pts = [n \in Nodes |-> {o \in ObjNodes : AnonNode(o) = n}]
  BY DEF Init, SolverInit
<1>2. Answer = [n \in Nodes |-> {o \in ObjNodes : AnonNode(o) = n}]
  BY <1>1 DEF Answer
<1>3. Answer = [n \in Analysis!Nodes |-> {o \in ObjNodes : Analysis!AnonNode(o) = n}]
  BY <1>2, SameConditions DEF AnonNode, Analysis!AnonNode
<1> QED BY <1>1, <1>3 DEF Analysis!Init

(* A step after which the solver still runs.                               *)
LEMMA GrowingStep ==
  ASSUME Inv, Inv', AnswerGrows, pc # "done", pc' # "done", prog' = prog
  PROVE  Analysis!Grow
<1>1. TypeOK' /\ Sound'
  BY DEF Inv, SoundInv
<1>2. Answer = [n \in Nodes |-> pts[rep[n]]] /\ Answer' = [n \in Nodes |-> pts'[rep'[n]]]
  BY DEF Answer
<1>3. ASSUME NEW n \in Nodes
      PROVE  /\ pts'[rep'[n]] \subseteq ObjNodes
             /\ pts'[rep'[n]] \subseteq Reference[prog][n]
  <2>1. rep'[n] \in Nodes /\ Reference[prog][rep'[n]] = Reference[prog][n]
    BY <1>1 DEF TypeOK, Sound
  <2> QED BY <2>1, <1>1 DEF TypeOK, Sound, Assignment
<1>4. Answer' \in Assignment
  BY <1>2, <1>3 DEF Assignment
<1>5. \A n \in Nodes : Answer[n] \subseteq Answer'[n]
  BY <1>2 DEF AnswerGrows
<1>6. \A n \in Nodes : Answer'[n] \subseteq Reference[prog][n]
  BY <1>2, <1>3
<1> QED BY <1>4, <1>5, <1>6, SameConditions DEF Analysis!Grow

(* Each step maps to a step of the abstract analysis or to a stutter.      *)
LEMMA StepMapsToStep == Inv /\ Inv' /\ [Next]_vars => [Analysis!Next]_(Analysis!vars)
<1> SUFFICES ASSUME Inv, Inv', [Next]_vars PROVE [Analysis!Next]_(Analysis!vars)
  OBVIOUS
<1> USE DEF Analysis!Next
<1>1. CASE BeginRound \/ EndWave \/ EndRound
  <2>1. /\ prog' = prog /\ pts' = pts /\ rep' = rep /\ pc # "done" /\ pc' # "done"
    BY <1>1 DEF BeginRound, EndWave, EndRound, graphVars
  <2>2. AnswerGrows
    BY <2>1 DEF AnswerGrows
  <2> QED BY <2>1, <2>2, GrowingStep
<1>2. CASE \E n \in Nodes : PropagateNode(n)
  <2>1. prog' = prog /\ pc = "wave" /\ pc' = pc
    BY <1>2 DEF PropagateNode
  <2> QED BY <2>1, <1>2, PropagateNodeInv, GrowingStep
<1>3. CASE \E scc \in pending : \E super \in scc : CollapseCycle(scc, super)
  <2>1. prog' = prog /\ pc = "wave" /\ pc' = pc
    BY <1>3 DEF CollapseCycle
  <2> QED BY <2>1, <1>3, CollapseCycleInv, GrowingStep
<1>4. CASE \E e \in todo : HandleLoad(e) \/ HandleStore(e) \/ HandleOffset(e)
  <2>1. prog' = prog /\ pc = "edges" /\ pc' = pc
    BY <1>4 DEF HandleLoad, HandleStore, HandleOffset
  <2> QED BY <2>1, <1>4, HandleLoadInv, HandleStoreInv, HandleOffsetInv, GrowingStep
<1>5. CASE ResolveFunPtrs
  <2>1. pc = "resolve" /\ prog' = prog /\ pts' = pts /\ rep' = rep
    BY <1>5 DEF ResolveFunPtrs
  <2>2. CASE NewTargets = {} /\ pc' = "done"
    <3>1. IsSolution(Program[prog], Answer)
      BY <2>1, <2>2, AnswerIsSolution
    <3>2. Answer' = Answer
      BY <2>1 DEF Answer
    <3> QED BY <3>1, <3>2, <2>1, <2>2, SameConditions DEF Analysis!Stop
  <2>3. CASE pc' = "round"
    <3>1. AnswerGrows
      BY <2>1 DEF AnswerGrows
    <3> QED BY <3>1, <2>1, <2>3, GrowingStep
  <2> QED BY <2>2, <2>3, <1>5 DEF ResolveFunPtrs
<1>6. CASE UNCHANGED vars
  BY <1>6 DEF vars, graphVars, Answer, Analysis!vars
<1> QED BY <1>1, <1>2, <1>3, <1>4, <1>5, <1>6 DEF Next

(* The solver implements the abstract analysis: at every step its answer   *)
(* grows within every solution of the program, and it stops only with a    *)
(* solution.  So when it stops, it has computed the least one, whatever    *)
(* the program, the order of the edges and the cycles that are collapsed.  *)
THEOREM Refinement == Spec => ImplementsAnalysis
<1>1. Init => Analysis!Init
  BY InitMapsToInit
<1>2. Inv /\ Inv' /\ [Next]_vars => [Analysis!Next]_(Analysis!vars)
  BY StepMapsToStep
<1> QED BY <1>1, <1>2, InvHolds, PTL DEF Spec, ImplementsAnalysis, Analysis!Spec

=============================================================================
