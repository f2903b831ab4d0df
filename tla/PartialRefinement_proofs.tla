----------------------- MODULE PartialRefinement_proofs -----------------------
(***************************************************************************)
(* The partial update solver forgets no call, and misses nothing as long   *)
(* as the call back is given no node that was collapsed: every runSolver   *)
(* then ends with a fixed point, and the solver implements                 *)
(* InclusionAnalysis.                                                      *)
(*                                                                         *)
(* The part of the invariant behind soundness is proved in                 *)
(* PartialUpdate_proofs; here are Kept and Covered.                        *)
(***************************************************************************)
EXTENDS PartialUpdate_proofs

(* What a client is told only grows.                                       *)
AnswerGrows == \A n \in Nodes : pts[rep[n]] \subseteq pts'[rep'[n]]

(***************************************************************************)
(* Nothing is lost.                                                        *)
(***************************************************************************)

LEMMA InitKept == Init => Kept
<1> SUFFICES ASSUME Init PROVE Kept
  OBVIOUS
<1>1. Inv
  BY InitInv
<1>2. /\ rep = [n \in Nodes |-> n] /\ edges = AddConstraints({}, rep, Program[prog].base)
      /\ pts = [n \in Nodes |-> {o \in ObjNodes : AnonNode(o) = n}]
      /\ resolved = {} /\ adding = {}
  BY DEF Init, SolverInit
<1>3. \A o \in ObjNodes : o \in pts[AnonNode(o)]
  BY <1>2, NodeFacts
<1>4. \A e \in edges : ~SelfCopy(e)
  BY <1>2 DEF AddConstraints, NewEdges
<1>5. Bound \ adding = Program[prog].base
  BY <1>2 DEF Bound
<1>6. \A c \in Bound \ adding : LET e == Redirected(rep, AsEdge(c)) IN e \in edges \/ SelfCopy(e)
  BY <1>2, <1>5, InsertedEdge
<1>7. \A c \in Calls : pts[rep[c.fp]] = {}
  <2> TAKE c \in Calls
  <2>1. c.fp \in PtrNodes
    BY <1>1, ProgramAssumption DEF Inv, TypeOK, IsProgram, IsCall, Calls
  <2>2. c.fp \in Nodes /\ rep[c.fp] = c.fp
    BY <1>2, <2>1, NodeFacts
  <2>3. c.fp \notin AnonNodes
    BY <2>1, NodesAssumption
  <2>4. \A o \in ObjNodes : AnonNode(o) # c.fp
    BY <2>3, NodeFacts
  <2> QED BY <1>2, <2>2, <2>4
<1>8. CallsAreNotForgotten
  BY <1>7 DEF CallsAreNotForgotten
<1> QED BY <1>3, <1>4, <1>6, <1>8 DEF Kept

(* A step that inserts the edges of C, of which the constraints that have  *)
(* become bound are some, and lets sets grow.                              *)
LEMMA GrowKept ==
  ASSUME Inv, Kept, NEW C, UNCHANGED <<prog, rep>>,
         edges' = edges \cup NewEdges(edges, rep, C),
         Bound' \ adding' \subseteq (Bound \ adding) \cup C,
         \A n \in Nodes : pts[n] \subseteq pts'[n],
         NoCallThroughGep => CallsAreNotForgotten'
  PROVE  Kept' /\ AnswerGrows
<1>1. \A o \in ObjNodes : o \in pts'[AnonNode(o)]
  BY NodeFacts DEF Kept
<1>2. \A e \in edges' : ~SelfCopy(e)
  BY DEF Kept, NewEdges
<1>3. \A c \in Bound' \ adding' :
        LET e == Redirected(rep, AsEdge(c)) IN e \in edges' \/ SelfCopy(e)
  <2> TAKE c \in Bound' \ adding'
  <2>1. CASE c \in Bound \ adding
    BY <2>1 DEF Kept
  <2>2. CASE c \in C
    BY <2>2, InsertedEdge DEF AddConstraints
  <2> QED BY <2>1, <2>2
<1>4. NoCallThroughGep' <=> NoCallThroughGep
  BY DEF NoCallThroughGep, Calls
<1>5. AnswerGrows
  BY Facts DEF AnswerGrows
<1> QED BY <1>1, <1>2, <1>3, <1>4, <1>5 DEF Kept

(* A step that only moves on.                                              *)
LEMMA SteadyKept ==
  ASSUME Inv, Kept, UNCHANGED <<prog, edges, rep, pts, funPtrs, resolved, adding>>
  PROVE  Kept' /\ AnswerGrows
<1>1. edges' = edges \cup NewEdges(edges, rep, {})
  BY DEF NewEdges
<1>2. Bound' = Bound
  BY DEF Bound
<1>3. NoCallThroughGep => CallsAreNotForgotten'
  BY DEF Kept, CallsAreNotForgotten, Calls
<1> QED BY <1>1, <1>2, <1>3, GrowKept

(* A call whose pointer has grown is looked at again.                      *)
LEMMA GrownIsRecorded ==
  ASSUME NEW rp \in [Nodes -> Nodes], NEW c \in Calls, c.fp \in Nodes,
         NEW new, new[rp[c.fp]] # pts[rp[c.fp]]
  PROVE  rp[c.fp] \in GrownFunPtrs(rp, new)
BY DEF GrownFunPtrs, IsFunctionPtr

(* The set of a node that is walked is what it was, as it has no copy to   *)
(* itself; the others have grown and are recorded, or stay the same.       *)
LEMMA PropagateFacts ==
  ASSUME Inv, Kept, NEW n \in Nodes, PropagateNode(n)
  PROVE  /\ n \in Live
         /\ \A m \in Nodes : /\ pts[m] \subseteq pts'[m]
                             /\ pts'[m] # pts[m] => /\ m \in CopySucc(edges, n)
                                                    /\ m \in lsWork'
         /\ pts'[n] = pts[n]
         /\ \A m \in CopySucc(edges, n) : ShouldProcessCopy(n, m) => pts[n] \subseteq pts'[m]
<1> DEFINE targetsOf == {k \in CopySucc(edges, n) : ShouldProcessCopy(n, k)}
           processed == {<<"copy", n, m>> : m \in targetsOf}
<1>1. /\ pc = "wave" /\ {n} \in pending /\ pts' = Propagated(processed, pts, n)
      /\ lsWork' = lsWork \cup Grown(pts')
  BY DEF PropagateNode
<1>2. n \in Live
  BY <1>1 DEF Inv, Placed
<1>3. CopySucc(processed, n) = targetsOf
  BY DEF CopySucc
<1>4. pts \in Assignment
  BY DEF Inv, TypeOK
<1>5. \A m \in Nodes : /\ pts[m] \subseteq pts'[m]
                       /\ m \in targetsOf => pts[n] \subseteq pts'[m]
                       /\ m \notin targetsOf => pts'[m] = pts[m]
  <2> HIDE DEF processed, targetsOf
  <2> QED BY <1>1, <1>3, <1>4, PropagatedGrows
<1>6. \A m \in Nodes : pts'[m] # pts[m] => m \in lsWork'
  BY <1>1, <1>5 DEF Grown
<1>7. n \notin CopySucc(edges, n)
  <2> SUFFICES ASSUME <<"copy", n, n>> \in edges PROVE FALSE
    BY DEF CopySucc
  <2> QED BY DEF Kept, SelfCopy
<1>8. \A m \in CopySucc(edges, n) : m \in Nodes
  BY DEF CopySucc
<1> QED BY <1>2, <1>5, <1>6, <1>7, <1>8

LEMMA PropagateNodeKept ==
  ASSUME Inv, Kept, NEW n \in Nodes, PropagateNode(n) PROVE Kept' /\ AnswerGrows
<1>1. /\ funPtrs' = funPtrs \cup GrownFunPtrs(rep, pts')
      /\ UNCHANGED <<prog, edges, rep, resolved, adding>>
  BY DEF PropagateNode, graphVars
<1>2. \A m \in Nodes : pts[m] \subseteq pts'[m]
  BY PropagateFacts
<1>3. ASSUME NoCallThroughGep PROVE CallsAreNotForgotten'
  <2> SUFFICES ASSUME NEW c \in Calls \ resolved, c.fn \in pts'[rep[c.fp]]
               PROVE  \E k \in funPtrs' : rep[k] = rep[c.fp]
    BY <1>1 DEF CallsAreNotForgotten, Calls
  <2>1. c.fp \in Nodes /\ rep[rep[c.fp]] = rep[c.fp] /\ rep \in [Nodes -> Nodes]
    BY Facts, ProgramFacts DEF TypeOK
  <2>2. CASE pts'[rep[c.fp]] = pts[rep[c.fp]]
    BY <2>2, <1>1, <1>3 DEF Kept, CallsAreNotForgotten
  <2>3. CASE pts'[rep[c.fp]] # pts[rep[c.fp]]
    <3>1. rep[c.fp] \in GrownFunPtrs(rep, pts')
      BY <2>1, <2>3, GrownIsRecorded
    <3> QED BY <3>1, <2>1, <1>1
  <2> QED BY <2>2, <2>3
<1>4. edges' = edges \cup NewEdges(edges, rep, {})
  BY <1>1 DEF NewEdges
<1>5. Bound' = Bound
  BY <1>1 DEF Bound
<1> QED BY <1>1, <1>2, <1>3, <1>4, <1>5, GrowKept

(* Collapsing a cycle: where super nodes, edges and sets are afterwards.   *)
MovedTo(scc, super, n) == IF n \in scc THEN super ELSE n
Moved(scc, super, f) == <<f[1], MovedTo(scc, super, f[2]), MovedTo(scc, super, f[3])>>

LEMMA MergeFacts ==
  ASSUME Inv, Kept, NEW scc \in pending, NEW super \in scc, CollapseCycle(scc, super)
  PROVE  /\ scc \subseteq Live /\ scc \subseteq Nodes /\ super \in Nodes
         /\ scc \cap Alone = {}
         /\ rep' \in [Nodes -> Nodes]
         /\ \A n \in Nodes : rep'[n] = MovedTo(scc, super, rep[n]) /\ rep'[rep'[n]] = rep'[n]
         /\ Live' = (Live \ scc) \cup {super}
         /\ \A e \in edges' : /\ e \in Edge /\ e = <<e[1], e[2], e[3]>> /\ ~SelfCopy(e)
                              /\ \E f \in edges : e = Moved(scc, super, f)
         /\ \A f \in edges : \/ Moved(scc, super, f) \in edges'
                             \/ SelfCopy(Moved(scc, super, f))
         /\ \A m \in Nodes : pts[m] \subseteq pts'[MovedTo(scc, super, m)]
         /\ \A m \in Nodes \ scc : pts'[m] # pts[m] => /\ m \in CopySucc(edges', super)
                                                       /\ m \in lsWork'
         /\ \A m \in CopySucc(edges', super) : m \in Nodes /\ pts'[super] \subseteq pts'[m]
<1> DEFINE union == UNION {pts[m] : m \in scc}
           merged == [n \in Nodes |-> IF n = super THEN union
                                      ELSE IF n \in scc THEN {} ELSE pts[n]]
           moved(n) == MovedTo(scc, super, n)
<1>1. /\ pc = "wave" /\ scc # {super}
      /\ rep' = CollapseReps(rep, scc, super)
      /\ edges' = CollapseEdges(edges, scc, super)
      /\ pts' = Propagated(edges', merged, super)
      /\ lsWork' = lsWork \cup {super} \cup Grown(pts')
  BY DEF CollapseCycle
<1>2. TypeOK /\ Shape /\ Placed
  BY DEF Inv
<1>3. /\ scc \subseteq Live /\ scc \subseteq Nodes /\ super \in Nodes
      /\ scc \cap Alone = {} /\ \A n \in scc : rep[n] = n
  BY <1>1, <1>2 DEF Placed, Shape, Live
<1>4. /\ rep' \in [Nodes -> Nodes]
      /\ \A n \in Nodes : /\ rep[n] \in scc => rep'[n] = super
                          /\ rep[n] \notin scc => rep'[n] = rep[n]
      /\ \A n \in Nodes : rep'[rep'[n]] = rep'[n]
      /\ \A n \in Nodes : rep'[n] = n <=> (rep[n] = n /\ n \notin scc) \/ n = super
  <2>1. rep \in [Nodes -> Nodes] /\ \A n \in Nodes : rep[rep[n]] = rep[n]
    BY Facts
  <2>2. rep' = CollapseReps(rep, scc, super) /\ scc \in SUBSET Nodes
    BY <1>1, <1>3
  <2> QED BY <1>3, <2>1, <2>2, CollapsedReps
<1>5. \A n \in Nodes : rep'[n] = moved(rep[n])
  BY <1>4 DEF MovedTo
<1>6. Live' = (Live \ scc) \cup {super}
  BY <1>3, <1>4 DEF Live
<1>7. \A e \in edges' : /\ e \in Edge /\ e = <<e[1], e[2], e[3]>> /\ ~SelfCopy(e)
                        /\ \E f \in edges : e = Moved(scc, super, f)
  <2> TAKE e \in edges'
  <2>1. edges \in SUBSET Edge /\ scc \in SUBSET Nodes
    BY <1>2, <1>3 DEF TypeOK
  <2>2. e \in Edge /\ ~SelfCopy(e)
        /\ \E f \in edges : e[1] = f[1] /\ e[2] = moved(f[2]) /\ e[3] = moved(f[3])
    BY <2>1, <1>1, CollapseFacts DEF MovedTo
  <2>3. e = <<e[1], e[2], e[3]>>
    BY <2>2, EdgeFacts
  <2> QED BY <2>2, <2>3 DEF Moved
<1>8. \A f \in edges : Moved(scc, super, f) \in edges' \/ SelfCopy(Moved(scc, super, f))
  BY <1>1, MovedEdge DEF Moved, MovedTo
<1>9. super \notin CopySucc(edges', super)
  <2> SUFFICES ASSUME <<"copy", super, super>> \in edges' PROVE FALSE
    BY DEF CopySucc
  <2> QED BY <1>7 DEF SelfCopy
<1>10. CopySucc(edges', super) \subseteq Nodes /\ CopySucc(edges', super) \cap scc = {}
  <2>1. CopySucc(edges', super) \subseteq Nodes
    BY DEF CopySucc
  <2>2. ASSUME NEW m \in CopySucc(edges', super) PROVE m \notin scc
    <3>1. PICK f \in edges : <<"copy", super, m>> = Moved(scc, super, f)
      BY <1>7 DEF CopySucc
    <3>2. m = moved(f[3])
      BY <3>1 DEF Moved
    <3> QED BY <3>2, <2>2, <1>9 DEF MovedTo
  <2> QED BY <2>1, <2>2
<1>11. /\ merged \in Assignment
       /\ merged[super] = union
       /\ \A m \in Nodes \ scc : merged[m] = pts[m]
  <2>1. union \subseteq ObjNodes
    BY <1>3, Facts
  <2> HIDE DEF union
  <2> QED BY <2>1, <1>3, Facts DEF Assignment
<1>12. \A m \in scc : pts[m] \subseteq union
  OBVIOUS
<1> HIDE DEF union, merged
<1>13. \A m \in Nodes : /\ merged[m] \subseteq pts'[m]
                        /\ m \in CopySucc(edges', super) => merged[super] \subseteq pts'[m]
                        /\ m \notin CopySucc(edges', super) => pts'[m] = merged[m]
  <2> DEFINE q == Propagated(edges', merged, super)
  <2>1. \A m \in Nodes : /\ merged[m] \subseteq q[m]
                         /\ m \in CopySucc(edges', super) => merged[super] \subseteq q[m]
                         /\ m \notin CopySucc(edges', super) => q[m] = merged[m]
    <3>1. merged \in Assignment /\ super \in Nodes
      BY <1>3, <1>11
    <3> QED BY <3>1, PropagatedGrows
  <2>2. pts' = q
    BY <1>1 DEF merged
  <2> HIDE DEF q
  <2> QED BY <2>1, <2>2
<1>14. pts'[super] = union
  BY <1>3, <1>9, <1>11, <1>13
<1>15. \A m \in Nodes : pts[m] \subseteq pts'[moved(m)]
  BY <1>11, <1>12, <1>13, <1>14 DEF MovedTo
<1>16. \A m \in Nodes \ scc : pts'[m] # pts[m] => /\ m \in CopySucc(edges', super)
                                                  /\ m \in lsWork'
  <2>1. \A m \in Nodes \ scc : pts'[m] # pts[m] => m \in CopySucc(edges', super)
    BY <1>11, <1>13
  <2>2. \A m \in Nodes \ scc : pts'[m] # pts[m] => m \in Grown(pts')
    BY <1>11, <1>13 DEF Grown
  <2> QED BY <2>1, <2>2, <1>1
<1>17. \A m \in CopySucc(edges', super) : m \in Nodes /\ pts'[super] \subseteq pts'[m]
  BY <1>10, <1>11, <1>13, <1>14
<1>18. /\ scc \subseteq Live /\ scc \subseteq Nodes /\ super \in Nodes
       /\ scc \cap Alone = {}
       /\ rep' \in [Nodes -> Nodes]
       /\ \A n \in Nodes : rep'[n] = MovedTo(scc, super, rep[n]) /\ rep'[rep'[n]] = rep'[n]
  BY <1>3, <1>4, <1>5
<1> QED BY <1>6, <1>7, <1>8, <1>15, <1>16, <1>17, <1>18

LEMMA CollapseCycleKept ==
  ASSUME Inv, Kept, NEW scc \in pending, NEW super \in scc, CollapseCycle(scc, super)
  PROVE  Kept' /\ AnswerGrows
<1> DEFINE moved(n) == MovedTo(scc, super, n)
<1>1. /\ funPtrs' = funPtrs \cup GrownFunPtrs(rep', pts')
                      \cup {n \in {super} : IsFunctionPtr(rep', n)}
      /\ UNCHANGED <<prog, resolved, adding>>
  BY DEF CollapseCycle
<1>2. TypeOK /\ Shape
  BY DEF Inv
<1>3. /\ scc \subseteq Live /\ scc \subseteq Nodes /\ super \in Nodes
      /\ scc \cap Alone = {}
      /\ rep' \in [Nodes -> Nodes]
      /\ \A n \in Nodes : rep'[n] = moved(rep[n]) /\ rep'[rep'[n]] = rep'[n]
      /\ \A e \in edges' : ~SelfCopy(e)
      /\ \A f \in edges : Moved(scc, super, f) \in edges' \/ SelfCopy(Moved(scc, super, f))
      /\ \A m \in Nodes : pts[m] \subseteq pts'[moved(m)]
  BY MergeFacts
<1>4. \A o \in ObjNodes : o \in pts'[AnonNode(o)]
  <2> TAKE o \in ObjNodes
  <2>1. AnonNode(o) \in Nodes /\ AnonNode(o) \notin scc
    BY <1>3, NodeFacts DEF Alone
  <2>2. moved(AnonNode(o)) = AnonNode(o)
    BY <2>1 DEF MovedTo
  <2> QED BY <2>1, <2>2, <1>3 DEF Kept
<1>5. ASSUME NEW c \in Bound' \ adding'
      PROVE  LET e == Redirected(rep', AsEdge(c)) IN e \in edges' \/ SelfCopy(e)
  <2> DEFINE d == AsEdge(c)
             e == Redirected(rep, d)
  <2>1. c \in Bound \ adding /\ c \in Constraint
    BY <1>1, <1>2, ProgramFacts DEF Bound, TypeOK
  <2>2. d \in Edge /\ d[2] \in Nodes /\ d[3] \in Nodes
    BY <2>1, <1>3, RedirectedFacts, EdgeFacts
  <2>3. e \in edges \/ SelfCopy(e)
    BY <2>1 DEF Kept
  <2>4. Redirected(rep', d) = Moved(scc, super, e)
    BY <2>2, <1>3 DEF Redirected, Moved
  <2> HIDE DEF d
  <2>5. Redirected(rep', d) \in edges' \/ SelfCopy(Redirected(rep', d))
    <3> HIDE DEF e
    <3>1. CASE e \in edges
      BY <2>4, <3>1, <1>3
    <3>2. CASE SelfCopy(e)
      BY <2>4, <3>2 DEF SelfCopy, Moved
    <3> QED BY <2>3, <3>1, <3>2
  <2> QED BY <2>5 DEF d
<1>6. ASSUME NoCallThroughGep PROVE CallsAreNotForgotten'
  <2> SUFFICES ASSUME NEW c \in Calls \ resolved, c.fn \in pts'[rep'[c.fp]]
               PROVE  \E n \in funPtrs' : rep'[n] = rep'[c.fp]
    BY <1>1 DEF CallsAreNotForgotten, Calls
  <2>1. c.fp \in Nodes /\ rep[c.fp] \in Nodes
    BY <1>2, Facts, ProgramFacts DEF TypeOK
  <2>2. CASE rep[c.fp] \in scc
    <3>1. rep'[c.fp] = super /\ rep'[super] = super
      BY <2>1, <2>2, <1>3 DEF MovedTo
    <3>2. super \in funPtrs'
      BY <3>1, <1>1 DEF IsFunctionPtr, Calls
    <3> QED BY <3>1, <3>2
  <2>3. CASE rep[c.fp] \notin scc /\ pts'[rep[c.fp]] = pts[rep[c.fp]]
    <3>1. rep'[c.fp] = rep[c.fp]
      BY <2>1, <2>3, <1>3 DEF MovedTo
    <3>2. PICK n \in funPtrs : rep[n] = rep[c.fp]
      BY <3>1, <2>3, <1>6 DEF Kept, CallsAreNotForgotten
    <3>3. n \in Nodes
      BY <1>2 DEF TypeOK
    <3> QED BY <3>2, <3>3, <2>1, <1>1, <1>3
  <2>4. CASE rep[c.fp] \notin scc /\ pts'[rep[c.fp]] # pts[rep[c.fp]]
    <3>1. rep'[c.fp] = rep[c.fp]
      BY <2>1, <2>4, <1>3 DEF MovedTo
    <3>2. rep'[c.fp] \in GrownFunPtrs(rep', pts')
      BY <3>1, <2>1, <2>4, <1>3, GrownIsRecorded
    <3>3. rep'[rep'[c.fp]] = rep'[c.fp]
      BY <2>1, <1>3
    <3> QED BY <3>2, <3>3, <1>1
  <2> QED BY <2>2, <2>3, <2>4
<1>7. NoCallThroughGep' <=> NoCallThroughGep
  BY <1>1 DEF NoCallThroughGep, Calls
<1>8. AnswerGrows
  BY <1>3, Facts DEF AnswerGrows
<1> QED BY <1>3, <1>4, <1>5, <1>6, <1>7, <1>8 DEF Kept

LEMMA HandleLoadOrStoreKept ==
  ASSUME Inv, Kept, NEW e \in todo, HandleLoadOrStore(e) PROVE Kept' /\ AnswerGrows
<1>1. /\ edges' = edges \cup NewEdges(edges, rep, Implied(e))
      /\ UNCHANGED <<prog, rep, pts, funPtrs, resolved, adding>>
  BY DEF HandleLoadOrStore, callVars
<1>2. Bound' = Bound
  BY <1>1 DEF Bound
<1>3. NoCallThroughGep => CallsAreNotForgotten'
  BY <1>1 DEF Kept, CallsAreNotForgotten, Calls
<1> QED BY <1>1, <1>2, <1>3, GrowKept

(* Only a getelementptr grows, and no call is made through one.            *)
LEMMA HandleOffsetKept ==
  ASSUME Inv, Kept, NEW e \in todo, HandleOffset(e) PROVE Kept' /\ AnswerGrows
<1> DEFINE g == e[3]
<1>1. /\ e[1] = "offset"
      /\ edges' = edges \cup NewEdges(edges, rep, Implied(e))
      /\ pts' = [pts EXCEPT ![g] = @ \cup NewFields(e)]
      /\ UNCHANGED <<prog, rep, funPtrs, resolved, adding>>
  BY DEF HandleOffset, AddConstraints, callVars
<1>2. g \in GepNodes /\ g \in Alone
  BY <1>1 DEF Inv, TypeOK, Shape, WellFormedEdge, Alone
<1>3. /\ \A n \in Nodes : pts[n] \subseteq pts'[n]
      /\ \A n \in Nodes : n # g => pts'[n] = pts[n]
  BY <1>1, Facts
<1>4. Bound' = Bound
  BY <1>1 DEF Bound
<1>5. ASSUME NoCallThroughGep PROVE CallsAreNotForgotten'
  <2>1. \A c \in Calls : c.fp \in Nodes /\ rep[c.fp] \in Nodes
    BY Facts, ProgramFacts DEF TypeOK
  <2>2. \A c \in Calls : rep[c.fp] # g
    BY <2>1, <1>2, <1>5 DEF NoCallThroughGep, Inv, Shape
  <2>3. \A c \in Calls : pts'[rep[c.fp]] = pts[rep[c.fp]]
    BY <2>1, <2>2, <1>3
  <2> QED BY <2>3, <1>1, <1>5 DEF Kept, CallsAreNotForgotten, Calls
<1> QED BY <1>1, <1>3, <1>4, <1>5, GrowKept

(* The calls that are not resolved had no target in their pointer's set.   *)
LEMMA ResolveFunPtrsKept ==
  ASSUME Inv, Kept, ResolveFunPtrs PROVE Kept' /\ AnswerGrows
<1>1. /\ pc = "resolve"
      /\ adding' = UNION {c.cons : c \in NewTargets}
      /\ resolved' = resolved \cup NewTargets
      /\ UNCHANGED <<prog, edges, rep, pts>>
  BY DEF ResolveFunPtrs, graphVars
<1>2. adding = {}
  BY <1>1 DEF Inv, Placed
<1>3. edges' = edges \cup NewEdges(edges, rep, {})
  BY <1>1 DEF NewEdges
<1>4. Bound' \ adding' \subseteq (Bound \ adding) \cup {}
  BY <1>1, <1>2 DEF Bound
<1>5. ASSUME NoCallThroughGep PROVE CallsAreNotForgotten'
  <2>1. \A c \in Calls \ resolved : c.fn \in pts[rep[c.fp]] => c \in NewTargets
    BY <1>5 DEF Kept, CallsAreNotForgotten, NewTargets
  <2> QED BY <2>1, <1>1 DEF CallsAreNotForgotten, Calls
<1> QED BY <1>1, <1>3, <1>4, <1>5, GrowKept

LEMMA AddConstraintKept ==
  ASSUME Inv, Kept, NEW c \in adding, AddConstraint(c) PROVE Kept' /\ AnswerGrows
<1>1. PICK implied :
        /\ edges' = edges \cup NewEdges(edges, rep, {c} \cup implied)
        /\ adding' = adding \ {c}
        /\ UNCHANGED <<prog, rep, pts, funPtrs, resolved>>
  BY DEF AddConstraint, callVars
<1>2. Bound' = Bound
  BY <1>1 DEF Bound
<1>3. Bound' \ adding' \subseteq (Bound \ adding) \cup ({c} \cup implied)
  BY <1>1, <1>2
<1>4. NoCallThroughGep => CallsAreNotForgotten'
  BY <1>1 DEF Kept, CallsAreNotForgotten, Calls
<1> HIDE DEF Bound
<1> QED BY <1>1, <1>3, <1>4, GrowKept

(* Whatever a step does, nothing is lost.                                  *)
LEMMA NextKept == Inv /\ Kept /\ [Next]_vars => Kept' /\ AnswerGrows
<1> SUFFICES ASSUME Inv, Kept, [Next]_vars PROVE Kept' /\ AnswerGrows
  OBVIOUS
<1>1. CASE BeginRound
  BY <1>1, SteadyKept DEF BeginRound, graphVars, callVars
<1>2. CASE \E n \in Nodes : PropagateNode(n)
  BY <1>2, PropagateNodeKept
<1>3. CASE \E scc \in pending : \E super \in scc : CollapseCycle(scc, super)
  BY <1>3, CollapseCycleKept
<1>4. CASE EndWave
  BY <1>4, SteadyKept DEF EndWave, graphVars, callVars
<1>5. CASE \E e \in todo : HandleLoadOrStore(e) \/ HandleOffset(e)
  BY <1>5, HandleLoadOrStoreKept, HandleOffsetKept
<1>6. CASE EndRound
  BY <1>6, SteadyKept DEF EndRound, graphVars, callVars
<1>7. CASE ResolveFunPtrs
  BY <1>7, ResolveFunPtrsKept
<1>8. CASE \E c \in adding : AddConstraint(c)
  BY <1>8, AddConstraintKept
<1>9. CASE EndResolve
  BY <1>9, SteadyKept DEF EndResolve, graphVars, callVars
<1>10. CASE UNCHANGED vars
  BY <1>10, SteadyKept DEF vars, graphVars, callVars
<1> QED BY <1>1, <1>2, <1>3, <1>4, <1>5, <1>6, <1>7, <1>8, <1>9, <1>10 DEF Next

(* A function that a called pointer may hold is bound to the call or the   *)
(* pointer is recorded for resolution, whatever was collapsed or added by  *)
(* the call back, if no call is made through a getelementptr.              *)
THEOREM NoCallIsForgotten == Spec => [](NoCallThroughGep => CallsAreNotForgotten)
<1>1. Init => Kept
  BY InitKept
<1>2. Inv /\ Kept /\ [Next]_vars => Kept'
  BY NextKept
<1>3. Kept => (NoCallThroughGep => CallsAreNotForgotten)
  BY DEF Kept
<1> QED BY <1>1, <1>2, <1>3, InvHolds, PTL DEF Spec

(***************************************************************************)
(* The work lists cover what is left to do.                                *)
(***************************************************************************)

(* The roots are reached, and so are the successors of what is reached.    *)
LEMMA ReachedFacts ==
  ASSUME NEW E, NEW from
  PROVE  /\ from \cap Nodes \subseteq ReachedFrom(E, from)
         /\ \A n \in ReachedFrom(E, from) : CopySucc(E, n) \subseteq ReachedFrom(E, from)
<1>1. from \cap Nodes \subseteq ReachedFrom(E, from)
  BY DEF ReachedFrom
<1>2. ASSUME NEW n \in ReachedFrom(E, from), NEW m \in CopySucc(E, n)
      PROVE  m \in ReachedFrom(E, from)
  <2>1. m \in Nodes /\ <<"copy", n, m>> \in E
    BY DEF CopySucc
  <2>2. ASSUME NEW S \in ClosedSets(E), from \subseteq S PROVE m \in S
    <3>1. n \in S
      BY <2>2 DEF ReachedFrom
    <3>2. \A e \in E : e[1] = "copy" /\ e[2] \in S => e[3] \in S
      BY DEF ClosedSets
    <3>3. <<"copy", n, m>>[1] = "copy" /\ <<"copy", n, m>>[2] = n /\ <<"copy", n, m>>[3] = m
      OBVIOUS
    <3> QED BY <2>1, <3>1, <3>2, <3>3
  <2> QED BY <2>1, <2>2 DEF ReachedFrom
<1> QED BY <1>1, <1>2

(* What has been done stays done while sets do not change.                 *)
LEMMA DoneStays ==
  ASSUME UNCHANGED <<rep, pts>>, edges \subseteq edges'
  PROVE  /\ \A e : Done(e) => Done(e)'
         /\ \A g, o : HasField(g, o) => HasField(g, o)'
<1>1. \A g, o : HasField(g, o) => HasField(g, o)'
  BY DEF HasField
<1>2. \A a, b : Linked(a, b) => (<<"copy", a, b>> \in edges' \/ a = b)
  BY DEF Linked
<1>3. ASSUME NEW e, Done(e) PROVE Done(e)'
  <2>1. ASSUME e[1] = "load", NEW o \in pts[e[2]]
        PROVE  <<"copy", rep'[o], e[3]>> \in edges' \/ rep'[o] = e[3]
    BY <2>1, <1>2, <1>3 DEF Done
  <2>2. ASSUME e[1] = "store", NEW o \in pts[e[3]]
        PROVE  <<"copy", e[2], rep'[o]>> \in edges' \/ e[2] = rep'[o]
    BY <2>2, <1>2, <1>3 DEF Done
  <2>3. ASSUME e[1] = "offset", NEW o \in pts[e[2]] PROVE HasField(e[3], o)'
    BY <2>3, <1>1, <1>3 DEF Done
  <2> QED BY <2>1, <2>2, <2>3 DEF Done, Linked
<1> QED BY <1>1, <1>3

LEMMA InitCovered == Init => Covered
<1> SUFFICES ASSUME Init PROVE Covered
  OBVIOUS
<1>1. Inv
  BY InitInv
<1>2. /\ fresh = {} /\ copyWork = created /\ lsWork = created /\ handled = {} /\ pc = "round"
  BY DEF Init, SolverInit
<1>3. \A e \in edges : e[2] \in created /\ e[3] \in created
  BY <1>1, <1>2 DEF Inv, Known, Existing
<1>4. \A e \in edges : Visited(e) \in lsWork
  BY <1>2, <1>3 DEF Visited
<1>5. ASSUME NEW n \in Live, NEW m \in CopySucc(edges, n) PROVE n \in created
  <2>1. <<"copy", n, m>> \in edges
    BY DEF CopySucc
  <2> QED BY <2>1, <1>3
<1> QED BY <1>2, <1>4, <1>5 DEF Covered, ToBeWalked, NotSkipped, New

(* All that can be reached from a node to be walked will be.               *)
LEMMA BeginRoundCovered == ASSUME Inv, Covered, BeginRound PROVE Covered'
<1> DEFINE from == copyWork \cap Live
           walked == ReachedFrom(edges, from)
<1>1. /\ pc = "round" /\ pc' = "wave" /\ pending' = SCCs(edges, walked)
      /\ UNCHANGED <<prog, edges, rep, pts, handled, fresh, copyWork, lsWork, targets,
                     required, todo>>
  BY DEF BeginRound, graphVars, workLists
<1>2. walked \in SUBSET Nodes /\ from \subseteq Nodes
  BY DEF ReachedFrom, Live
<1>3. from \subseteq walked /\ \A n \in walked : CopySucc(edges, n) \subseteq walked
  BY <1>2, ReachedFacts
<1>4. UNION pending' = walked
  <2> HIDE DEF walked
  <2> QED BY <1>1, <1>2, ComponentFacts
<1>5. ASSUME NEW n \in Live, NEW m \in CopySucc(edges, n), ~(pts[n] \subseteq pts[m])
      PROVE  n \in walked /\ NotSkipped(n, m)'
  <2>1. n \in copyWork /\ NotSkipped(n, m)
    BY <1>1, <1>5 DEF Covered, ToBeWalked, New
  <2> HIDE DEF walked
  <2> QED BY <2>1, <1>1, <1>3 DEF NotSkipped, New
<1>6. \A e \in edges \ todo : Done(e)' \/ Visited(e) \in lsWork
  BY <1>1, DoneStays DEF Covered, New
<1>7. \A h \in handled : HasField(h[1], h[2])'
  BY <1>1 DEF Covered, HasField
<1>8. Live' = Live
  BY <1>1 DEF Live
<1> HIDE DEF walked
<1> QED BY <1>1, <1>3, <1>4, <1>5, <1>6, <1>7, <1>8 DEF Covered, ToBeWalked, New

(* A node that is walked has no successor that was walked before it, and   *)
(* a node that grows is to be walked and is not skipped.                   *)
LEMMA PropagateNodeCovered ==
  ASSUME Inv, Kept, Covered, NEW n \in Nodes, PropagateNode(n) PROVE Covered'
<1>1. /\ pc = "wave" /\ pc' = "wave" /\ {n} \in pending /\ OnTop({n})
      /\ pending' = pending \ {{n}}
      /\ lsWork \subseteq lsWork'
      /\ UNCHANGED <<prog, edges, rep, handled, fresh, copyWork, targets, required, todo>>
  BY DEF PropagateNode, graphVars
<1>2. /\ n \in Live
      /\ \A m \in Nodes : /\ pts[m] \subseteq pts'[m]
                          /\ pts'[m] # pts[m] => /\ m \in CopySucc(edges, n)
                                                 /\ m \in lsWork'
      /\ pts'[n] = pts[n]
      /\ \A m \in CopySucc(edges, n) : ShouldProcessCopy(n, m) => pts[n] \subseteq pts'[m]
  BY PropagateFacts
<1>3. todo = {} /\ Live' = Live /\ New = {} /\ New' = {}
  BY <1>1 DEF Inv, Placed, Live, New
<1>4. UNION pending' = (UNION pending) \ {n}
  <2>1. \A scc \in pending : n \in scc => scc = {n}
    BY <1>1 DEF Inv, Placed
  <2> QED BY <2>1, <1>1
<1>5. \A k \in UNION pending' : CopySucc(edges, k) \subseteq UNION pending'
  <2>1. \A k \in UNION pending' : n \notin CopySucc(edges, k)
    <3> SUFFICES ASSUME NEW scc \in pending \ {{n}}, NEW k \in scc
                 PROVE  <<"copy", k, n>> \notin edges
      BY <1>1 DEF CopySucc
    <3> QED BY <1>1 DEF OnTop
  <2> QED BY <2>1, <1>1, <1>4 DEF Covered
<1>6. ASSUME NEW k \in Live, NEW m \in CopySucc(edges, k), ~(pts'[k] \subseteq pts'[m])
      PROVE  k \in UNION pending' /\ NotSkipped(k, m)'
  <2>1. m \in Nodes /\ k \in Nodes /\ pts[m] \subseteq pts'[m]
    BY <1>2 DEF CopySucc, Live
  <2>2. k # n
    <3> SUFFICES ASSUME k = n PROVE FALSE
      OBVIOUS
    <3>1. ~(pts[n] \subseteq pts[m])
      BY <1>2, <1>6, <2>1
    <3>2. NotSkipped(n, m)
      BY <3>1, <1>2, <1>6 DEF Covered
    <3>3. ShouldProcessCopy(n, m)
      BY <3>2, <1>3 DEF NotSkipped, ShouldProcessCopy
    <3> QED BY <3>3, <1>2, <1>6
  <2>3. CASE pts'[k] = pts[k]
    <3>1. ~(pts[k] \subseteq pts[m])
      BY <2>1, <2>3, <1>6
    <3>2. k \in UNION pending /\ NotSkipped(k, m)
      BY <3>1, <1>1, <1>6 DEF Covered, ToBeWalked
    <3> QED BY <3>2, <2>2, <1>1, <1>3, <1>4 DEF NotSkipped
  <2>4. CASE pts'[k] # pts[k]
    <3>1. k \in CopySucc(edges, n) /\ k \in lsWork'
      BY <2>1, <2>4, <1>2
    <3>2. k \in UNION pending
      BY <3>1, <1>1 DEF Covered
    <3> QED BY <3>1, <3>2, <2>2, <1>4 DEF NotSkipped
  <2> QED BY <2>3, <2>4
<1>7. \A g, o : HasField(g, o) /\ g \in Nodes => HasField(g, o)'
  BY <1>1, <1>2 DEF HasField
<1>8. ASSUME NEW e \in edges PROVE Done(e)' \/ Visited(e) \in lsWork'
  <2>1. e[2] \in Nodes /\ e[3] \in Nodes /\ e[1] \in Kinds /\ Visited(e) \in Nodes
    BY Facts DEF Visited
  <2>2. CASE pts'[Visited(e)] # pts[Visited(e)]
    BY <2>1, <2>2, <1>2
  <2>3. CASE pts'[Visited(e)] = pts[Visited(e)] /\ Done(e)
    <3>1. e[1] = "load" => \A o \in pts'[e[2]] : Linked(rep[o], e[3])'
      BY <2>3, <1>1 DEF Done, Linked, Visited
    <3>2. e[1] = "store" => \A o \in pts'[e[3]] : Linked(e[2], rep[o])'
      BY <2>3, <1>1 DEF Done, Linked, Visited
    <3>3. e[1] = "offset" => \A o \in pts'[e[2]] : HasField(e[3], o)'
      BY <2>1, <2>3, <1>7 DEF Done, Visited
    <3> QED BY <3>1, <3>2, <3>3 DEF Done
  <2>4. Done(e) \/ Visited(e) \in lsWork
    BY <1>3 DEF Covered
  <2> QED BY <2>2, <2>3, <2>4, <1>1
<1>9. \A h \in handled : HasField(h[1], h[2])'
  <2>1. \A h \in handled : h[1] \in Nodes
    BY Facts, NodeFacts DEF TypeOK
  <2> QED BY <2>1, <1>7 DEF Covered
<1> QED BY <1>1, <1>3, <1>5, <1>6, <1>8, <1>9 DEF Covered, ToBeWalked

(* The copies of a cycle are sent when it is collapsed, a copy into it     *)
(* has nothing to send, and whatever else is left moves to the super node. *)
LEMMA CollapseCycleCovered ==
  ASSUME Inv, Kept, Covered, NEW scc \in pending, NEW super \in scc, CollapseCycle(scc, super)
  PROVE  Covered'
<1> DEFINE moved(n) == MovedTo(scc, super, n)
<1>1. /\ pc = "wave" /\ pc' = "wave" /\ OnTop(scc)
      /\ pending' = pending \ {scc}
      /\ lsWork \subseteq lsWork' /\ super \in lsWork' /\ targets \subseteq targets'
      /\ UNCHANGED <<prog, handled, fresh, copyWork, required, todo>>
  BY DEF CollapseCycle
<1>2. /\ scc \subseteq Live /\ scc \subseteq Nodes /\ super \in Nodes
      /\ scc \cap Alone = {}
      /\ \A n \in Nodes : rep'[n] = moved(rep[n])
      /\ Live' = (Live \ scc) \cup {super}
      /\ \A e \in edges' : /\ e \in Edge /\ e = <<e[1], e[2], e[3]>> /\ ~SelfCopy(e)
                           /\ \E f \in edges : e = Moved(scc, super, f)
      /\ \A f \in edges : Moved(scc, super, f) \in edges' \/ SelfCopy(Moved(scc, super, f))
      /\ \A m \in Nodes : pts[m] \subseteq pts'[moved(m)]
      /\ \A m \in Nodes \ scc : pts'[m] # pts[m] => /\ m \in CopySucc(edges', super)
                                                    /\ m \in lsWork'
      /\ \A m \in CopySucc(edges', super) : m \in Nodes /\ pts'[super] \subseteq pts'[m]
  BY MergeFacts
<1>3. todo = {} /\ New = {} /\ New' = {}
  BY <1>1 DEF Inv, Placed, New
<1>4. UNION pending' = (UNION pending) \ scc
  <2>1. \A other \in pending : other = scc \/ other \cap scc = {}
    BY DEF Inv, Placed
  <2> QED BY <2>1, <1>1
<1>5. ASSUME NEW k, NEW m, <<"copy", k, m>> \in edges'
      PROVE  \E a, b : <<"copy", a, b>> \in edges /\ k = moved(a) /\ m = moved(b)
                       /\ a \in Nodes /\ b \in Nodes
  <2>1. PICK f \in edges : <<"copy", k, m>> = Moved(scc, super, f)
    BY <1>2, <1>5
  <2>2. f = <<f[1], f[2], f[3]>> /\ f[2] \in Nodes /\ f[3] \in Nodes
    BY Facts
  <2>3. f[1] = "copy" /\ k = moved(f[2]) /\ m = moved(f[3])
    BY <2>1 DEF Moved
  <2> QED BY <2>2, <2>3
<1>6. ASSUME NEW k \in UNION pending, k \notin scc, NEW m, <<"copy", k, m>> \in edges'
      PROVE  /\ m \in CopySucc(edges, k) /\ m \notin scc
             /\ m \in UNION pending
  <2>1. PICK a, b : <<"copy", a, b>> \in edges /\ k = moved(a) /\ m = moved(b)
                    /\ a \in Nodes /\ b \in Nodes
    BY <1>5, <1>6
  <2>2. a = k
    BY <2>1, <1>6 DEF MovedTo
  <2>3. PICK other \in pending \ {scc} : k \in other
    BY <1>6
  <2>4. b \notin scc
    BY <2>1, <2>2, <2>3, <1>1 DEF OnTop
  <2>5. m = b
    BY <2>1, <2>4 DEF MovedTo
  <2>6. m \in CopySucc(edges, k)
    BY <2>1, <2>2, <2>5 DEF CopySucc
  <2>7. m \in UNION pending
    BY <2>6, <1>1, <1>6 DEF Covered
  <2> QED BY <2>4, <2>5, <2>6, <2>7
<1>7. \A k \in UNION pending' : CopySucc(edges', k) \subseteq UNION pending'
  BY <1>4, <1>6 DEF CopySucc
<1>8. ASSUME NEW k \in Live', NEW m \in CopySucc(edges', k), ~(pts'[k] \subseteq pts'[m])
      PROVE  k \in UNION pending' /\ NotSkipped(k, m)'
  <2>1. k # super /\ k \in Live /\ k \notin scc /\ k \in Nodes
    BY <1>2, <1>8 DEF Live
  <2>2. <<"copy", k, m>> \in edges'
    BY DEF CopySucc
  <2>3. CASE pts'[k] = pts[k]
    <3>1. PICK a, b : <<"copy", a, b>> \in edges /\ k = moved(a) /\ m = moved(b)
                      /\ a \in Nodes /\ b \in Nodes
      BY <2>2, <1>5
    <3>2. a = k
      BY <2>1, <3>1 DEF MovedTo
    <3>3. pts[b] \subseteq pts'[m] /\ b \in CopySucc(edges, k)
      BY <3>1, <3>2, <1>2 DEF CopySucc
    <3>4. ~(pts[k] \subseteq pts[b])
      BY <2>3, <3>3, <1>8
    <3>5. k \in UNION pending /\ NotSkipped(k, b)
      BY <2>1, <3>3, <3>4, <1>1 DEF Covered, ToBeWalked
    <3>6. b \notin scc
      <4>1. PICK other \in pending \ {scc} : k \in other
        BY <3>5, <2>1
      <4> QED BY <3>1, <3>2, <4>1, <1>1 DEF OnTop
    <3>7. m = b
      BY <3>1, <3>6 DEF MovedTo
    <3> QED BY <2>1, <3>5, <3>7, <1>1, <1>3, <1>4 DEF NotSkipped
  <2>4. CASE pts'[k] # pts[k]
    <3>1. <<"copy", super, k>> \in edges' /\ k \in lsWork'
      BY <2>1, <2>4, <1>2 DEF CopySucc
    <3>2. PICK a, b : <<"copy", a, b>> \in edges /\ super = moved(a) /\ k = moved(b)
                      /\ a \in Nodes /\ b \in Nodes
      BY <3>1, <1>5
    <3>3. a \in scc /\ b = k
      BY <3>2, <2>1 DEF MovedTo
    <3>4. k \in UNION pending
      <4>1. k \in CopySucc(edges, a)
        BY <3>2, <3>3 DEF CopySucc
      <4>2. a \in UNION pending
        BY <3>3
      <4> QED BY <4>1, <4>2, <1>1 DEF Covered
    <3> QED BY <3>1, <3>4, <2>1, <1>4 DEF NotSkipped
  <2> QED BY <2>3, <2>4
<1>9. \A a, b : Linked(a, b) => <<"copy", moved(a), moved(b)>> \in edges' \/ moved(a) = moved(b)
  <2> SUFFICES ASSUME NEW a, NEW b, <<"copy", a, b>> \in edges
               PROVE  <<"copy", moved(a), moved(b)>> \in edges' \/ moved(a) = moved(b)
    BY DEF Linked
  <2>1. Moved(scc, super, <<"copy", a, b>>) = <<"copy", moved(a), moved(b)>>
    BY DEF Moved
  <2> QED BY <2>1, <1>2 DEF SelfCopy
<1>10. ASSUME NEW g \in GepNodes, NEW o \in ObjNodes, HasField(g, o) PROVE HasField(g, o)'
  <2> DEFINE f == IndexObject[g][o]
  <2>1. g \in Alone /\ g \in Nodes /\ moved(g) = g
    BY <1>2, NodeFacts DEF Alone, MovedTo
  <2>2. CASE f = NoObj \/ f \in pts[g]
    BY <2>1, <2>2, <1>2 DEF HasField
  <2>3. CASE f # NoObj /\ <<"copy", AnonNode(f), g>> \in edges
    <3>1. f \in ObjNodes
      BY <2>3, NodesAssumption
    <3>2. moved(AnonNode(f)) = AnonNode(f) /\ AnonNode(f) # g
      BY <3>1, <1>2, NodeFacts DEF Alone, MovedTo
    <3>3. Moved(scc, super, <<"copy", AnonNode(f), g>>) = <<"copy", AnonNode(f), g>>
      BY <2>1, <3>2 DEF Moved
    <3>4. ~SelfCopy(<<"copy", AnonNode(f), g>>)
      BY <3>2 DEF SelfCopy
    <3> HIDE DEF f
    <3>5. <<"copy", AnonNode(f), g>> \in edges'
      BY <2>3, <3>3, <3>4, <1>2
    <3> QED BY <3>5 DEF HasField, f
  <2> QED BY <2>2, <2>3, <1>10 DEF HasField
<1>11. ASSUME NEW e \in edges' PROVE Done(e)' \/ Visited(e) \in lsWork'
  <2>1. PICK f \in edges : e = Moved(scc, super, f)
    BY <1>2
  <2>2. /\ f \in Edge /\ f[2] \in Nodes /\ f[3] \in Nodes /\ f[1] \in Kinds
        /\ pts[f[2]] \subseteq ObjNodes /\ pts[f[3]] \subseteq ObjNodes
    BY Facts
  <2>3. e[1] = f[1] /\ e[2] = moved(f[2]) /\ e[3] = moved(f[3])
    BY <2>1 DEF Moved
  <2> DEFINE v == Visited(f)
  <2>4. v \in Nodes /\ Visited(e) = moved(v)
    BY <2>2, <2>3 DEF Visited
  <2>5. CASE v \in scc
    BY <2>4, <2>5, <1>1 DEF MovedTo
  <2>6. CASE v \notin scc /\ pts'[v] # pts[v]
    BY <2>4, <2>6, <1>2 DEF MovedTo
  <2>7. CASE v \notin scc /\ v \in lsWork
    BY <2>4, <2>7, <1>1 DEF MovedTo
  <2>8. CASE v \notin scc /\ pts'[v] = pts[v] /\ Done(f)
    <3>1. ASSUME e[1] = "load", NEW o \in pts'[e[2]] PROVE Linked(rep[o], e[3])'
      <4>1. v = f[2] /\ e[2] = f[2]
        BY <2>3, <2>8, <3>1 DEF Visited, MovedTo
      <4>2. o \in pts[f[2]] /\ o \in Nodes
        BY <4>1, <2>2, <2>8, <3>1, NodeFacts
      <4>3. Linked(rep[o], f[3])
        BY <4>2, <2>3, <2>8, <3>1 DEF Done
      <4>4. <<"copy", moved(rep[o]), moved(f[3])>> \in edges' \/ moved(rep[o]) = moved(f[3])
        BY <4>3, <1>9
      <4>5. rep'[o] = moved(rep[o])
        BY <4>2, <1>2
      <4> HIDE DEF moved
      <4> QED BY <4>4, <4>5, <2>3 DEF Linked
    <3>2. ASSUME e[1] = "store", NEW o \in pts'[e[3]] PROVE Linked(e[2], rep[o])'
      <4>1. v = f[3] /\ e[3] = f[3]
        BY <2>3, <2>8, <3>2 DEF Visited, MovedTo
      <4>2. o \in pts[f[3]] /\ o \in Nodes
        BY <4>1, <2>2, <2>8, <3>2, NodeFacts
      <4>3. Linked(f[2], rep[o])
        BY <4>2, <2>3, <2>8, <3>2 DEF Done
      <4>4. <<"copy", moved(f[2]), moved(rep[o])>> \in edges' \/ moved(f[2]) = moved(rep[o])
        BY <4>3, <1>9
      <4>5. rep'[o] = moved(rep[o])
        BY <4>2, <1>2
      <4> HIDE DEF moved
      <4> QED BY <4>4, <4>5, <2>3 DEF Linked
    <3>3. ASSUME e[1] = "offset", NEW o \in pts'[e[2]] PROVE HasField(e[3], o)'
      <4>1. v = f[2] /\ e[2] = f[2]
        BY <2>3, <2>8, <3>3 DEF Visited, MovedTo
      <4>2. o \in pts[f[2]] /\ o \in ObjNodes
        BY <4>1, <2>2, <2>8, <3>3
      <4>3. f[3] \in GepNodes /\ f[3] \notin scc
        BY <2>3, <3>3, <1>2 DEF Inv, Shape, WellFormedEdge, Alone
      <4>4. e[3] = f[3]
        BY <4>3, <2>3 DEF MovedTo
      <4>5. HasField(f[3], o)
        BY <4>2, <2>3, <2>8, <3>3 DEF Done
      <4>6. HasField(f[3], o)'
        BY <4>2, <4>3, <4>5, <1>10
      <4> QED BY <4>4, <4>6
    <3> QED BY <3>1, <3>2, <3>3 DEF Done
  <2>9. Done(f) \/ v \in lsWork
    BY <1>3 DEF Covered
  <2> QED BY <2>5, <2>6, <2>7, <2>8, <2>9
<1>12. \A h \in handled : HasField(h[1], h[2])'
  <2>1. \A h \in handled : h[1] \in GepNodes /\ h[2] \in ObjNodes
    BY DEF Inv, TypeOK
  <2> QED BY <2>1, <1>10 DEF Covered
<1> QED BY <1>1, <1>3, <1>7, <1>8, <1>11, <1>12 DEF Covered, ToBeWalked

(* When the wave has walked all components, nothing is left to be sent.    *)
LEMMA EndWaveCovered == ASSUME Inv, Covered, EndWave PROVE Covered'
<1>1. /\ pc = "wave" /\ pc' = "edges" /\ pending = {} /\ lsWork' = {}
      /\ todo' = {e \in edges : e[1] # "copy" /\ Visited(e) \in lsWork}
      /\ UNCHANGED <<prog, edges, rep, pts, handled, fresh>>
  BY DEF EndWave, graphVars
<1>2. Live' = Live /\ fresh' = {} /\ todo = {} /\ New = {}
  BY <1>1 DEF Inv, Placed, Live, New
<1>3. \A n \in Live : \A m \in CopySucc(edges, n) : pts[n] \subseteq pts[m]
  BY <1>1 DEF Covered, ToBeWalked
<1>4. \A e \in edges \ todo' : Done(e)'
  <2> TAKE e \in edges \ todo'
  <2>1. CASE e[1] = "copy"
    BY <2>1 DEF Done
  <2>2. CASE e[1] # "copy"
    <3>1. Done(e)
      BY <2>2, <1>1, <1>2 DEF Covered
    <3> QED BY <3>1, <1>1, DoneStays
  <2> QED BY <2>1, <2>2
<1>5. \A h \in handled : HasField(h[1], h[2])'
  BY <1>1 DEF Covered, HasField
<1> QED BY <1>1, <1>2, <1>3, <1>4, <1>5 DEF Covered

(***************************************************************************)
(* Handling an edge.                                                       *)
(***************************************************************************)

(* An edge that stays where it is, while nothing it looks at has grown.    *)
LEMMA DoneGrows ==
  ASSUME rep' = rep, edges \subseteq edges', \A n \in Nodes : pts[n] \subseteq pts'[n]
  PROVE  /\ \A g \in Nodes : \A o : HasField(g, o) => HasField(g, o)'
         /\ \A e \in Edge : Done(e) /\ pts'[Visited(e)] = pts[Visited(e)] => Done(e)'
<1>1. \A g \in Nodes : \A o : HasField(g, o) => HasField(g, o)'
  BY DEF HasField
<1>2. ASSUME NEW e \in Edge, Done(e), pts'[Visited(e)] = pts[Visited(e)] PROVE Done(e)'
  <2>1. e[3] \in Nodes
    BY EdgeFacts
  <2>2. e[1] = "load" => \A o \in pts'[e[2]] : Linked(rep[o], e[3])'
    BY <1>2 DEF Done, Linked, Visited
  <2>3. e[1] = "store" => \A o \in pts'[e[3]] : Linked(e[2], rep[o])'
    BY <1>2 DEF Done, Linked, Visited
  <2>4. e[1] = "offset" => \A o \in pts'[e[2]] : HasField(e[3], o)'
    BY <1>1, <1>2, <2>1 DEF Done, Visited
  <2> QED BY <2>2, <2>3, <2>4 DEF Done
<1> QED BY <1>1, <1>2

(* What an edge between super nodes implies are copies between super nodes *)
(* that are left where they are when they are inserted.                    *)
LEMMA ImpliedCopies ==
  ASSUME Inv, NEW d \in Edge, WellFormedEdge(d), Holds(Reference[prog], d),
         d[2] \in Existing, d[3] \in Existing, d[2] \in Live, d[3] \in Live
  PROVE  /\ \A k \in Implied(d) : k[1] = "copy" /\ AsEdge(k) = k /\ Redirected(rep, k) = k
         /\ d[1] = "copy" => Implied(d) = {}
         /\ d[1] = "load" => \A o \in pts[d[2]] : <<"copy", rep[o], d[3]>> \in Implied(d)
         /\ d[1] = "store" => \A o \in pts[d[3]] : <<"copy", d[2], rep[o]>> \in Implied(d)
         /\ d[1] = "offset" =>
              /\ d[3] \in GepNodes
              /\ \A f \in NewFields(d) : /\ f \in ObjNodes
                                         /\ <<"copy", AnonNode(f), d[3]>> \in Implied(d)
                                         /\ ~SelfCopy(<<"copy", AnonNode(f), d[3]>>)
              /\ \A k \in Implied(d) : \E f \in NewFields(d) : k = <<"copy", AnonNode(f), d[3]>>
<1>1. /\ d[1] \in Kinds /\ rep[d[2]] = d[2] /\ rep[d[3]] = d[3]
      /\ pts[d[2]] \subseteq ObjNodes /\ pts[d[3]] \subseteq ObjNodes
  BY Facts, EdgeFacts
<1>2. \A o \in ObjNodes : rep[rep[o]] = rep[o]
  BY Facts, NodeFacts
<1>3. CASE d[1] = "copy"
  <2>1. Implied(d) = {}
    BY <1>3 DEF Implied
  <2> QED BY <2>1, <1>3
<1>4. CASE d[1] = "load"
  <2>1. Implied(d) = {<<"copy", rep[o], d[3]>> : o \in pts[d[2]]}
    BY <1>4 DEF Implied
  <2> QED BY <2>1, <1>1, <1>2, <1>4 DEF AsEdge, Redirected
<1>5. CASE d[1] = "store"
  <2>1. Implied(d) = {<<"copy", d[2], rep[o]>> : o \in pts[d[3]]}
    BY <1>5 DEF Implied
  <2> QED BY <2>1, <1>1, <1>2, <1>5 DEF AsEdge, Redirected
<1>6. CASE d[1] = "offset"
  <2>1. Implied(d) = {<<"copy", AnonNode(f), d[3]>> : f \in NewFields(d)}
    BY <1>6 DEF Implied
  <2>2. d[3] \in GepNodes /\ NewFields(d) \subseteq ObjNodes
    BY <1>6, ImpliedFacts
  <2>3. \A f \in NewFields(d) : AnonNode(f) # d[3] /\ rep[AnonNode(f)] = AnonNode(f)
    BY <2>2, NodeFacts DEF Inv, Shape, Alone
  <2>4. \A k \in Implied(d) : k[1] = "copy" /\ AsEdge(k) = k /\ Redirected(rep, k) = k
    BY <2>1, <2>3, <1>1 DEF AsEdge, Redirected
  <2>5. \A f \in NewFields(d) : ~SelfCopy(<<"copy", AnonNode(f), d[3]>>)
    BY <2>3 DEF SelfCopy
  <2> QED BY <2>1, <2>2, <2>4, <2>5, <1>6
<1> QED BY <1>1, <1>3, <1>4, <1>5, <1>6 DEF Kinds

(* So once they have been inserted, the edge is done, and a getelementptr  *)
(* has the fields it was handled for.                                      *)
LEMMA DoneAfter ==
  ASSUME Inv, Covered, NEW d \in Edge, WellFormedEdge(d), Holds(Reference[prog], d),
         d[2] \in Existing, d[3] \in Existing, d[2] \in Live, d[3] \in Live,
         NEW C, Implied(d) \subseteq C,
         rep' = rep, edges' = edges \cup NewEdges(edges, rep, C),
         \A n \in Nodes : pts[n] \subseteq pts'[n]
  PROVE  /\ pts'[Visited(d)] = pts[Visited(d)] => Done(d)'
         /\ \A h \in HandledBy(d) : HasField(h[1], h[2])'
<1>1. /\ \A k \in Implied(d) : k[1] = "copy" /\ AsEdge(k) = k /\ Redirected(rep, k) = k
      /\ d[1] = "load" => \A o \in pts[d[2]] : <<"copy", rep[o], d[3]>> \in Implied(d)
      /\ d[1] = "store" => \A o \in pts[d[3]] : <<"copy", d[2], rep[o]>> \in Implied(d)
      /\ d[1] = "offset" =>
           /\ d[3] \in GepNodes
           /\ \A f \in NewFields(d) : /\ <<"copy", AnonNode(f), d[3]>> \in Implied(d)
                                      /\ ~SelfCopy(<<"copy", AnonNode(f), d[3]>>)
  BY ImpliedCopies
<1>2. \A k \in Implied(d) : k \in edges' \/ SelfCopy(k)
  <2> TAKE k \in Implied(d)
  <2>1. LET e == Redirected(rep, AsEdge(k)) IN e \in AddConstraints(edges, rep, C) \/ SelfCopy(e)
    BY InsertedEdge
  <2> QED BY <2>1, <1>1 DEF AddConstraints
<1>3. \A a, b : <<"copy", a, b>> \in Implied(d) => <<"copy", a, b>> \in edges' \/ a = b
  BY <1>2 DEF SelfCopy
<1>4. ASSUME d[1] = "offset", NEW o \in NewGEPs(d) PROVE HasField(d[3], o)'
  <2> DEFINE f == IndexObject[d[3]][o]
  <2>1. f = NoObj \/ f \in pts[d[3]] \/ f \in NewFields(d)
    BY <1>4 DEF NewFields
  <2> HIDE DEF f
  <2>2. CASE f \in NewFields(d)
    BY <2>2, <1>1, <1>2, <1>4 DEF HasField, f
  <2>3. CASE f = NoObj
    BY <2>3 DEF HasField, f
  <2>4. CASE f \in pts[d[3]]
    <3>1. d[3] \in Nodes
      BY EdgeFacts
    <3> QED BY <2>4, <3>1 DEF HasField, f
  <2> QED BY <2>1, <2>2, <2>3, <2>4
<1>5. \A h \in HandledBy(d) : HasField(h[1], h[2])'
  BY <1>4 DEF HandledBy
<1>6. ASSUME pts'[Visited(d)] = pts[Visited(d)] PROVE Done(d)'
  <2>1. d[1] = "load" => \A o \in pts'[d[2]] : Linked(rep[o], d[3])'
    BY <1>1, <1>3, <1>6 DEF Linked, Visited
  <2>2. d[1] = "store" => \A o \in pts'[d[3]] : Linked(d[2], rep[o])'
    BY <1>1, <1>3, <1>6 DEF Linked, Visited
  <2>3. ASSUME d[1] = "offset", NEW o \in pts'[d[2]] PROVE HasField(d[3], o)'
    <3>1. o \in pts[d[2]]
      BY <1>6, <2>3 DEF Visited
    <3>2. CASE <<d[3], o>> \in handled
      <4>1. HasField(d[3], o) /\ d[3] \in Nodes
        BY <3>2, EdgeFacts DEF Covered
      <4> QED BY <4>1, DoneGrows
    <3>3. CASE <<d[3], o>> \notin handled
      BY <3>1, <3>3, <2>3, <1>4 DEF NewGEPs
    <3> QED BY <3>2, <3>3
  <2> QED BY <2>1, <2>2, <2>3 DEF Done
<1> QED BY <1>5, <1>6

(* The edge to be handled is one that the lemmas above are about.          *)
LEMMA TodoFacts ==
  ASSUME Inv, NEW e \in todo
  PROVE  /\ e \in edges /\ e \in Edge /\ WellFormedEdge(e) /\ Holds(Reference[prog], e)
         /\ e[2] \in Existing /\ e[3] \in Existing /\ e[2] \in Live /\ e[3] \in Live
         /\ e[2] \in Nodes /\ e[3] \in Nodes
<1>1. e \in edges
  BY DEF Inv, TypeOK
<1> QED BY <1>1, Facts DEF Inv, Shape, Sound, Known

(* The copies a load or a store adds are recorded, so that the next wave   *)
(* walks them and does not skip them.                                      *)
LEMMA HandleLoadOrStoreCovered ==
  ASSUME Inv, Covered, NEW e \in todo, HandleLoadOrStore(e) PROVE Covered'
<1> DEFINE C == Implied(e)
           new == NewEdges(edges, rep, C)
<1>1. /\ pc = "edges" /\ pc' = "edges" /\ e[1] # "offset"
      /\ edges' = edges \cup new
      /\ RecordCopies(Ends(new))
      /\ todo' = todo \ {e}
      /\ UNCHANGED <<prog, rep, pts, handled, fresh, created, lsWork>>
  BY DEF HandleLoadOrStore
<1>2. /\ e \in edges /\ e \in Edge /\ WellFormedEdge(e) /\ Holds(Reference[prog], e)
      /\ e[2] \in Existing /\ e[3] \in Existing /\ e[2] \in Live /\ e[3] \in Live
  BY TodoFacts
<1>3. fresh = {} /\ New = {} /\ New' = {} /\ Live' = Live
  BY <1>1 DEF Covered, New, Live
<1>4. \A f \in edges' : {f[2], f[3]} \subseteq created
  <2>1. Inv'
    BY HandleLoadOrStoreInv
  <2> QED BY <2>1, <1>1, <1>3 DEF Inv, Known, Existing
<1>5. \A k \in C : k[1] = "copy" /\ AsEdge(k) = k /\ Redirected(rep, k) = k
  BY <1>2, ImpliedCopies
<1>6. Done(e)'
  BY <1>1, <1>2, DoneAfter
<1> HIDE DEF C
<1>7. \A k \in new : k[1] = "copy"
  BY <1>5 DEF NewEdges
<1> HIDE DEF new
<1>8. /\ copyWork \subseteq copyWork' /\ targets \subseteq targets' /\ required \subseteq required'
      /\ \A k \in new : k[2] \in copyWork' /\ k[3] \in targets' /\ <<k[2], k[3]>> \in required'
  <2>1. \A k \in new : <<k[2], k[3]>> \in Ends(new) /\ k[2] \in created /\ k[3] \in created
    BY <1>1, <1>4 DEF Ends
  <2> QED BY <2>1, <1>1 DEF RecordCopies
<1>9. ASSUME NEW n \in Live, NEW m \in CopySucc(edges', n), ~(pts[n] \subseteq pts[m])
      PROVE  n \in copyWork' /\ NotSkipped(n, m)'
  <2>1. <<"copy", n, m>> \in edges \/ <<"copy", n, m>> \in new
    BY <1>1 DEF CopySucc
  <2>2. CASE <<"copy", n, m>> \in edges
    <3>1. m \in CopySucc(edges, n)
      BY <2>2 DEF CopySucc
    <3>2. n \in copyWork /\ NotSkipped(n, m)
      BY <3>1, <1>1, <1>3, <1>9 DEF Covered, ToBeWalked
    <3> QED BY <3>2, <1>1, <1>3, <1>8 DEF NotSkipped
  <2>3. CASE <<"copy", n, m>> \in new
    <3>1. n \in copyWork' /\ m \in targets' /\ <<n, m>> \in required'
      BY <2>3, <1>8
    <3> QED BY <3>1 DEF NotSkipped
  <2> QED BY <2>1, <2>2, <2>3
<1>10. ASSUME NEW f \in edges' \ todo' PROVE Done(f)' \/ Visited(f) \in lsWork
  <2>1. CASE f \in new
    BY <2>1, <1>7 DEF Done
  <2>2. CASE f = e
    BY <2>2, <1>6
  <2>3. CASE f \in edges \ todo
    <3>1. Done(f) \/ Visited(f) \in lsWork
      BY <2>3, <1>3 DEF Covered
    <3> QED BY <3>1, <1>1, DoneStays
  <2> QED BY <2>1, <2>2, <2>3, <1>1
<1>11. \A h \in handled : HasField(h[1], h[2])'
  BY <1>1, DoneStays DEF Covered
<1> QED BY <1>1, <1>3, <1>9, <1>10, <1>11 DEF Covered, ToBeWalked

(* A getelementptr that has grown is to be walked and looked at; the       *)
(* copies into it have sent what they have.                                *)
LEMMA HandleOffsetCovered ==
  ASSUME Inv, Covered, NEW e \in todo, HandleOffset(e) PROVE Covered'
<1> DEFINE C == Implied(e)
           g == e[3]
           fields == NewFields(e)
           new == NewEdges(edges, rep, C)
<1>1. /\ pc = "edges" /\ pc' = "edges" /\ e[1] = "offset" /\ IsNext(e)
      /\ edges' = edges \cup new
      /\ pts' = [pts EXCEPT ![g] = @ \cup fields]
      /\ copyWork' = copyWork \cup Grown(pts')
      /\ lsWork' = lsWork \cup Grown(pts')
      /\ handled' = handled \cup HandledBy(e)
      /\ todo' = todo \ {e}
      /\ UNCHANGED <<prog, rep, created, targets, required>>
  BY DEF HandleOffset, AddConstraints
<1>2. /\ e \in edges /\ e \in Edge /\ WellFormedEdge(e) /\ Holds(Reference[prog], e)
      /\ e[2] \in Existing /\ e[3] \in Existing /\ e[2] \in Live /\ e[3] \in Live
      /\ g \in Nodes
  BY TodoFacts
<1>3. New = {} /\ New' = {} /\ Live' = Live
  BY <1>1 DEF New, Live
<1>4. /\ \A k \in C : k[1] = "copy" /\ AsEdge(k) = k /\ Redirected(rep, k) = k
      /\ g \in GepNodes
      /\ \A f \in fields : f \in ObjNodes /\ <<"copy", AnonNode(f), g>> \in C
      /\ \A k \in C : \E f \in fields : k = <<"copy", AnonNode(f), g>>
  BY <1>1, <1>2, ImpliedCopies
<1> HIDE DEF fields
<1>5. /\ \A n \in Nodes : pts[n] \subseteq pts'[n]
      /\ \A n \in Nodes : n # g => pts'[n] = pts[n]
      /\ fields \subseteq pts'[g]
      /\ pts'[g] # pts[g] => g \in copyWork' /\ g \in lsWork'
  <2>1. pts'[g] = pts[g] \cup fields /\ \A n \in Nodes : n # g => pts'[n] = pts[n]
    BY <1>1, <1>2, Facts
  <2>2. pts'[g] # pts[g] => g \in Grown(pts')
    BY <2>1, <1>2 DEF Grown
  <2> QED BY <2>1, <2>2, <1>1
<1>6. /\ pts'[Visited(e)] = pts[Visited(e)] => Done(e)'
      /\ \A h \in HandledBy(e) : HasField(h[1], h[2])'
  <2>1. edges' = edges \cup NewEdges(edges, rep, C) /\ Implied(e) \subseteq C /\ rep' = rep
    BY <1>1
  <2> HIDE DEF C
  <2> QED BY <2>1, <1>2, <1>5, DoneAfter
<1> HIDE DEF C
<1>7. \A k \in new : k \in C
  BY <1>4 DEF NewEdges
<1> HIDE DEF new
<1>8. ASSUME NEW n \in Live, NEW m \in CopySucc(edges', n), ~(pts'[n] \subseteq pts'[m])
      PROVE  n \in copyWork' /\ NotSkipped(n, m)'
  <2>1. <<"copy", n, m>> \in edges \/ <<"copy", n, m>> \in new
    BY <1>1 DEF CopySucc
  <2>2. n \in Nodes /\ m \in Nodes
    BY Facts DEF CopySucc
  <2>3. CASE <<"copy", n, m>> \in new
    <3>1. PICK f \in fields : <<"copy", n, m>> = <<"copy", AnonNode(f), g>>
      BY <2>3, <1>4, <1>7
    <3>2. n = AnonNode(f) /\ m = g /\ f \in ObjNodes
      BY <3>1, <1>4
    <3>3. pts[n] \subseteq {f}
      BY <3>2, <2>2, Facts, ProgramFacts DEF TypeOK
    <3>4. n # g
      BY <3>2, <1>4, NodeFacts
    <3> QED BY <3>2, <3>3, <3>4, <2>2, <1>5, <1>8
  <2>4. CASE <<"copy", n, m>> \in edges /\ pts'[n] = pts[n]
    <3>1. m \in CopySucc(edges, n) /\ ~(pts[n] \subseteq pts[m])
      BY <2>2, <2>4, <1>5, <1>8 DEF CopySucc
    <3>2. n \in copyWork /\ NotSkipped(n, m)
      BY <3>1, <1>1, <1>3 DEF Covered, ToBeWalked
    <3> QED BY <3>2, <1>1, <1>3 DEF NotSkipped
  <2>5. CASE pts'[n] # pts[n]
    BY <2>2, <2>5, <1>5 DEF NotSkipped
  <2> QED BY <2>1, <2>3, <2>4, <2>5
<1>9. ASSUME NEW f \in edges' \ todo' PROVE Done(f)' \/ Visited(f) \in lsWork'
  <2>1. CASE f \in new
    BY <2>1, <1>4, <1>7 DEF Done
  <2>2. CASE f \in edges /\ pts'[Visited(f)] # pts[Visited(f)]
    <3>1. Visited(f) \in Nodes
      BY <2>2, Facts DEF Visited
    <3> QED BY <3>1, <2>2, <1>5
  <2>3. CASE f = e /\ pts'[Visited(f)] = pts[Visited(f)]
    BY <2>3, <1>6
  <2>4. CASE f \in edges \ todo /\ pts'[Visited(f)] = pts[Visited(f)]
    <3>1. Done(f) \/ Visited(f) \in lsWork
      BY <2>4, <1>3 DEF Covered
    <3>2. f \in Edge /\ edges \subseteq edges' /\ rep' = rep
      BY <2>4, <1>1, Facts
    <3>3. Done(f) => Done(f)'
      BY <3>2, <2>4, <1>5, DoneGrows
    <3> QED BY <3>1, <3>3, <1>1
  <2> QED BY <2>1, <2>2, <2>3, <2>4, <1>1
<1>10. \A h \in handled' : HasField(h[1], h[2])'
  <2>1. \A h \in handled : h[1] \in Nodes /\ HasField(h[1], h[2])
    BY Facts, NodeFacts DEF TypeOK, Covered
  <2>2. edges \subseteq edges' /\ rep' = rep
    BY <1>1
  <2>3. \A h \in handled : HasField(h[1], h[2])'
    BY <2>1, <2>2, <1>5, DoneGrows
  <2> QED BY <2>3, <1>1, <1>6
<1>11. \A f \in todo' : f[1] = "offset"
  BY <1>1 DEF IsNext
<1> QED BY <1>1, <1>3, <1>8, <1>9, <1>10, <1>11 DEF Covered, ToBeWalked

(* The copies of new nodes are to be walked.                               *)
LEMMA EndRoundCovered == ASSUME Inv, Covered, EndRound PROVE Covered'
<1>1. /\ pc = "edges" /\ todo = {} /\ pc' \in {"resolve", "round"}
      /\ copyWork \subseteq copyWork'
      /\ UNCHANGED <<edges, rep, pts, handled, lsWork, targets, required, todo>>
  BY DEF EndRound, graphVars
<1>2. New = {} /\ New' = {} /\ Live' = Live
  BY <1>1 DEF New, Live
<1>3. ASSUME NEW n \in Live, NEW m \in CopySucc(edges, n), ~(pts[n] \subseteq pts[m])
      PROVE  n \in copyWork' /\ NotSkipped(n, m)'
  <2>1. n \in copyWork /\ NotSkipped(n, m)
    BY <1>1, <1>2, <1>3 DEF Covered, ToBeWalked
  <2> QED BY <2>1, <1>1, <1>2 DEF NotSkipped
<1>4. \A e \in edges : Done(e)' \/ Visited(e) \in lsWork
  BY <1>1, <1>2, DoneStays DEF Covered
<1>5. \A h \in handled : HasField(h[1], h[2])'
  BY <1>1, DoneStays DEF Covered
<1> QED BY <1>1, <1>2, <1>3, <1>4, <1>5 DEF Covered, ToBeWalked

(* When runSolver ends, everything has been sent and every edge is done.   *)
LEMMA NothingIsLeft ==
  ASSUME Inv, Covered, pc = "resolve"
  PROVE  /\ \A n \in Live : \A m \in CopySucc(edges, n) : pts[n] \subseteq pts[m]
         /\ \A e \in edges : Done(e)
<1>1. copyWork = {} /\ lsWork = {} /\ New = {} /\ todo = {}
  BY DEF Inv, AllHandled, Placed, New
<1> QED BY <1>1 DEF Covered, ToBeWalked

LEMMA ResolveFunPtrsCovered == ASSUME Inv, Covered, ResolveFunPtrs PROVE Covered'
<1>1. /\ pc = "resolve" /\ pc' \in {"done", "bind"}
      /\ UNCHANGED <<edges, rep, pts, handled>>
  BY DEF ResolveFunPtrs, graphVars
<1>2. /\ \A n \in Live : \A m \in CopySucc(edges, n) : pts[n] \subseteq pts[m]
      /\ \A e \in edges : Done(e)
  BY <1>1, NothingIsLeft
<1>3. Live' = Live
  BY <1>1 DEF Live
<1>4. \A e \in edges : Done(e)'
  BY <1>1, <1>2, DoneStays
<1>5. \A h \in handled : HasField(h[1], h[2])'
  BY <1>1, DoneStays DEF Covered
<1> QED BY <1>1, <1>2, <1>3, <1>4, <1>5 DEF Covered

(* The call back records the copies it adds, with their ends; an end that  *)
(* has no bit in the work lists is new.                                    *)
LEMMA AddConstraintCovered ==
  ASSUME Inv, Covered, AddingIsLive, NEW c \in adding, AddConstraint(c) PROVE Covered'
<1> DEFINE d == AsEdge(c)
           isNew == NewEdges(edges, rep, {c}) # {} /\ Visited(d) \in created
           implied == IF isNew THEN Implied(d) ELSE {}
           C == {c} \cup implied
           new == NewEdges(edges, rep, C)
           recorded == CASE d[1] = "copy"   -> {d}
                         [] d[1] = "offset" -> implied
                         [] OTHER -> {k \in implied : NewEdges(edges, rep, {k}) # {}}
           ends == IF isNew THEN Ends(recorded) ELSE {}
<1>1. /\ pc = "bind" /\ pc' = "bind"
      /\ edges' = edges \cup new
      /\ RecordCopies(ends)
      /\ handled' = handled \cup (IF isNew THEN HandledBy(d) ELSE {})
      /\ fresh \subseteq fresh'
      /\ UNCHANGED <<prog, rep, pts, created, lsWork, todo>>
  BY DEF AddConstraint
<1>2. /\ d \in Edge /\ WellFormedEdge(d) /\ Holds(Reference[prog], d)
      /\ d[2] \in Existing /\ d[3] \in Existing /\ d[2] \in Live /\ d[3] \in Live
      /\ d[1] \in Kinds
  BY AddingFacts, EdgeFacts DEF AddingIsLive
<1>3. /\ todo = {} /\ New = fresh /\ New' = fresh' /\ New \subseteq New' /\ Live' = Live
  BY <1>1 DEF Inv, Placed, New, Live
<1>4. \A f \in edges' : {f[2], f[3]} \subseteq created \cup New'
  <2>1. Inv'
    BY AddConstraintInv
  <2> QED BY <2>1, <1>1, <1>3 DEF Inv, Known, Existing
<1>5. Redirected(rep, d) = d
  BY <1>2, Facts, EdgeFacts DEF Redirected
<1>6. /\ \A k \in implied : k[1] = "copy" /\ AsEdge(k) = k /\ Redirected(rep, k) = k
      /\ d[1] = "copy" => implied = {}
  <2>1. /\ \A k \in Implied(d) : k[1] = "copy" /\ AsEdge(k) = k /\ Redirected(rep, k) = k
        /\ d[1] = "copy" => Implied(d) = {}
    BY <1>2, ImpliedCopies
  <2> HIDE DEF d, isNew
  <2> QED BY <2>1
<1>7. isNew => Done(d)' /\ \A h \in HandledBy(d) : HasField(h[1], h[2])'
  <2> SUFFICES ASSUME isNew PROVE Done(d)' /\ \A h \in HandledBy(d) : HasField(h[1], h[2])'
    OBVIOUS
  <2>1. Implied(d) \subseteq C
    OBVIOUS
  <2> HIDE DEF C, d
  <2> QED BY <2>1, <1>1, <1>2, DoneAfter
<1> HIDE DEF d
<1>8. \A k \in new : k \notin edges /\ ~SelfCopy(k) /\ (k = d \/ k \in implied)
  BY <1>5, <1>6 DEF NewEdges, d
<1>9. d \in new => NewEdges(edges, rep, {c}) # {}
  BY <1>5, <1>8 DEF NewEdges, d
<1>10. \A k \in implied : k \in new => NewEdges(edges, rep, {k}) # {}
  BY <1>6, <1>8 DEF NewEdges
<1>11. ASSUME NEW k \in new, k[1] = "copy"
       PROVE  <<k[2], k[3]>> \in ends \/ k[2] \notin created
  <2>1. CASE k = d
    <3>1. d[1] = "copy" /\ Visited(d) = d[2]
      BY <2>1, <1>11 DEF Visited
    <3>2. recorded = {d}
      BY <3>1
    <3>3. isNew \/ d[2] \notin created
      BY <2>1, <3>1, <1>9
    <3> HIDE DEF recorded, isNew
    <3> QED BY <2>1, <3>2, <3>3 DEF Ends
  <2>2. CASE k \in implied
    <3>1. isNew /\ d[1] # "copy"
      BY <2>2, <1>6
    <3>2. k \in recorded
      <4> HIDE DEF implied
      <4>1. CASE d[1] = "offset"
        BY <4>1, <2>2
      <4>2. CASE d[1] \notin {"offset", "copy"}
        BY <4>2, <2>2, <1>10, <1>11
      <4> QED BY <4>1, <4>2, <3>1
    <3> HIDE DEF recorded, isNew
    <3> QED BY <3>1, <3>2 DEF Ends
  <2> QED BY <2>1, <2>2, <1>8
<1> HIDE DEF ends
<1>12. /\ copyWork \subseteq copyWork' /\ targets \subseteq targets' /\ required \subseteq required'
       /\ \A p \in ends : /\ p \in required'
                          /\ p[1] \in created => p[1] \in copyWork'
                          /\ p[2] \in created => p[2] \in targets'
  BY <1>1 DEF RecordCopies
<1>13. ASSUME NEW f \in edges' PROVE Done(f)' \/ Visited(f) \in lsWork \cup New'
  <2>1. CASE f \in edges
    <3>1. Done(f) \/ Visited(f) \in lsWork \cup New
      BY <2>1, <1>3 DEF Covered
    <3>2. Done(f) => Done(f)'
      BY <1>1, DoneStays
    <3> QED BY <3>1, <3>2, <1>3
  <2>2. CASE f \in implied
    BY <2>2, <1>6 DEF Done
  <2>3. CASE f = d /\ d \in new
    <3>1. isNew \/ Visited(d) \notin created
      BY <2>3, <1>9
    <3>2. Visited(d) \in created \cup New'
      BY <2>3, <1>1, <1>4 DEF Visited
    <3> HIDE DEF isNew
    <3> QED BY <2>3, <3>1, <3>2, <1>7
  <2> HIDE DEF implied, new
  <2> QED BY <2>1, <2>2, <2>3, <1>1, <1>8
<1>14. \A h \in handled' : HasField(h[1], h[2])'
  <2>1. \A h \in handled : HasField(h[1], h[2])'
    BY <1>1, DoneStays DEF Covered
  <2> HIDE DEF isNew
  <2> QED BY <2>1, <1>1, <1>7
<1> HIDE DEF new, isNew, implied
<1>15. ASSUME NEW n \in Live, NEW m \in CopySucc(edges', n), ~(pts[n] \subseteq pts[m])
       PROVE  n \in copyWork' \cup New' /\ NotSkipped(n, m)'
  <2>1. <<"copy", n, m>> \in edges'
    BY DEF CopySucc
  <2>2. CASE <<"copy", n, m>> \in edges
    <3>1. m \in CopySucc(edges, n)
      BY <2>2 DEF CopySucc
    <3>2. n \in copyWork \cup New /\ NotSkipped(n, m)
      BY <3>1, <1>1, <1>15 DEF Covered, ToBeWalked
    <3> QED BY <3>2, <1>1, <1>3, <1>12 DEF NotSkipped
  <2>3. CASE <<"copy", n, m>> \in new
    <3>1. n \in created \cup New' /\ m \in created \cup New'
      BY <2>1, <1>4
    <3>2. <<n, m>> \in ends \/ n \notin created
      BY <2>3, <1>11
    <3>3. CASE n \notin created
      BY <3>1, <3>3 DEF NotSkipped
    <3>4. CASE n \in created /\ <<n, m>> \in ends
      <4>1. <<n, m>> \in required' /\ n \in copyWork' /\ (m \in created => m \in targets')
        BY <3>4, <1>12
      <4> QED BY <4>1, <3>1 DEF NotSkipped
    <3> QED BY <3>2, <3>3, <3>4
  <2> QED BY <2>1, <2>2, <2>3, <1>1
<1> QED BY <1>1, <1>3, <1>13, <1>14, <1>15 DEF Covered, ToBeWalked

(* New nodes are to be visited in every respect.                           *)
LEMMA EndResolveCovered == ASSUME Inv, Covered, EndResolve PROVE Covered'
<1>1. /\ pc = "bind" /\ pc' = "round"
      /\ copyWork' = copyWork \cup fresh /\ lsWork' = lsWork \cup fresh
      /\ targets' = targets \cup fresh
      /\ UNCHANGED <<edges, rep, pts, handled, required, todo>>
  BY DEF EndResolve, graphVars
<1>2. New = fresh /\ New' = {} /\ Live' = Live
  BY <1>1 DEF New, Live
<1>3. ASSUME NEW n \in Live, NEW m \in CopySucc(edges, n), ~(pts[n] \subseteq pts[m])
      PROVE  n \in copyWork' /\ NotSkipped(n, m)'
  <2>1. n \in copyWork \cup New /\ NotSkipped(n, m)
    BY <1>1, <1>3 DEF Covered, ToBeWalked
  <2> QED BY <2>1, <1>1, <1>2 DEF NotSkipped
<1>4. \A e \in edges \ todo : Done(e)' \/ Visited(e) \in lsWork'
  BY <1>1, <1>2, DoneStays DEF Covered
<1>5. \A h \in handled : HasField(h[1], h[2])'
  BY <1>1, DoneStays DEF Covered
<1> QED BY <1>1, <1>2, <1>3, <1>4, <1>5 DEF Covered, ToBeWalked

LEMMA StutterCovered == ASSUME Covered, UNCHANGED vars PROVE Covered'
<1>1. UNCHANGED <<edges, rep, pts, handled, pending, fresh, copyWork, lsWork, targets,
                  required, todo, pc>>
  BY DEF vars, graphVars, workLists
<1>2. Live' = Live /\ New' = New /\ ToBeWalked' = ToBeWalked
  BY <1>1 DEF Live, New, ToBeWalked
<1>3. \A n, m : NotSkipped(n, m) => NotSkipped(n, m)'
  BY <1>1, <1>2 DEF NotSkipped
<1>4. \A e : Done(e) => Done(e)'
  BY <1>1, DoneStays
<1>5. \A h \in handled : HasField(h[1], h[2])'
  BY <1>1, DoneStays DEF Covered
<1> QED BY <1>1, <1>2, <1>3, <1>4, <1>5 DEF Covered

LEMMA NextCovered == Inv /\ Kept /\ Covered /\ AddingIsLive /\ [Next]_vars => Covered'
<1> SUFFICES ASSUME Inv, Kept, Covered, AddingIsLive, [Next]_vars PROVE Covered'
  OBVIOUS
<1>1. CASE BeginRound
  BY <1>1, BeginRoundCovered
<1>2. CASE \E n \in Nodes : PropagateNode(n)
  BY <1>2, PropagateNodeCovered
<1>3. CASE \E scc \in pending : \E super \in scc : CollapseCycle(scc, super)
  BY <1>3, CollapseCycleCovered
<1>4. CASE EndWave
  BY <1>4, EndWaveCovered
<1>5. CASE \E e \in todo : HandleLoadOrStore(e) \/ HandleOffset(e)
  BY <1>5, HandleLoadOrStoreCovered, HandleOffsetCovered
<1>6. CASE EndRound
  BY <1>6, EndRoundCovered
<1>7. CASE ResolveFunPtrs
  BY <1>7, ResolveFunPtrsCovered
<1>8. CASE \E c \in adding : AddConstraint(c)
  BY <1>8, AddConstraintCovered
<1>9. CASE EndResolve
  BY <1>9, EndResolveCovered
<1>10. CASE UNCHANGED vars
  BY <1>10, StutterCovered
<1> QED BY <1>1, <1>2, <1>3, <1>4, <1>5, <1>6, <1>7, <1>8, <1>9, <1>10 DEF Next

(***************************************************************************)
(* The theorems about what is covered.                                     *)
(***************************************************************************)

(* The set of a super node is the answer for it.                           *)
LEMMA AnswerFacts ==
  ASSUME Inv
  PROVE  /\ \A n \in Nodes : Answer[n] = pts[rep[n]] /\ Answer[rep[n]] = Answer[n]
         /\ \A n \in Live : Answer[n] = pts[n]
BY Facts DEF Answer

LEMMA AllSatisfied ==
  ASSUME Inv, Kept, Covered, pc = "resolve", NEW e \in edges
  PROVE  Holds(Answer, e)
<1>1. /\ \A n \in Live : \A m \in CopySucc(edges, n) : pts[n] \subseteq pts[m]
      /\ Done(e)
  BY NothingIsLeft
<1>2. /\ e \in Edge /\ e = <<e[1], e[2], e[3]>> /\ e[1] \in Kinds /\ e[2] \in Live /\ e[3] \in Live
      /\ e[2] \in Nodes /\ e[3] \in Nodes
      /\ pts[e[2]] \subseteq ObjNodes /\ pts[e[3]] \subseteq ObjNodes
  BY Facts
<1>3. /\ \A n \in Live : n \in Nodes
      /\ \A o \in ObjNodes : o \in Nodes /\ rep[o] \in Live
  BY Facts, NodeFacts
<1>4. /\ \A n \in Nodes : Answer[n] = pts[rep[n]]
      /\ \A n \in Live : Answer[n] = pts[n]
  BY AnswerFacts
<1>5. \A a, b \in Live : Linked(a, b) => pts[a] \subseteq pts[b]
  BY <1>1, <1>3 DEF Linked, CopySucc
<1>6. CASE e[1] = "copy"
  <2>1. Linked(e[2], e[3])
    BY <1>2, <1>6 DEF Linked
  <2> QED BY <2>1, <1>2, <1>4, <1>5, <1>6, HoldsFacts
<1>7. CASE e[1] = "load"
  <2>1. \A o \in pts[e[2]] : pts[rep[o]] \subseteq pts[e[3]]
    BY <1>1, <1>2, <1>3, <1>5, <1>7 DEF Done
  <2>2. \A o \in Answer[e[2]] : Answer[o] \subseteq Answer[e[3]]
    BY <2>1, <1>2, <1>3, <1>4
  <2> QED BY <2>2, <1>7, HoldsFacts
<1>8. CASE e[1] = "store"
  <2>1. \A o \in pts[e[3]] : pts[e[2]] \subseteq pts[rep[o]]
    BY <1>1, <1>2, <1>3, <1>5, <1>8 DEF Done
  <2>2. \A o \in Answer[e[3]] : Answer[e[2]] \subseteq Answer[o]
    BY <2>1, <1>2, <1>3, <1>4
  <2> QED BY <2>2, <1>8, HoldsFacts
<1>9. CASE e[1] = "offset"
  <2>1. e[3] \in GepNodes
    BY <1>9 DEF Inv, Shape, WellFormedEdge
  <2>2. ASSUME NEW o \in pts[e[2]], IndexObject[e[3]][o] # NoObj
        PROVE  IndexObject[e[3]][o] \in pts[e[3]]
    <3> DEFINE f == IndexObject[e[3]][o]
    <3>1. f \in ObjNodes
      BY <2>1, <2>2, <1>2, NodesAssumption
    <3>2. f \in pts[e[3]] \/ <<"copy", AnonNode(f), e[3]>> \in edges
      BY <2>2, <1>1, <1>9 DEF Done, HasField
    <3>3. f \in pts[AnonNode(f)]
      BY <3>1 DEF Kept
    <3> HIDE DEF f
    <3>4. CASE <<"copy", AnonNode(f), e[3]>> \in edges
      <4>1. AnonNode(f) \in Live
        BY <3>4, Facts
      <4>2. e[3] \in CopySucc(edges, AnonNode(f))
        BY <3>4, <1>2 DEF CopySucc
      <4>3. f \in pts[e[3]]
        BY <4>1, <4>2, <3>3, <1>1
      <4> QED BY <4>3 DEF f
    <3>5. CASE f \in pts[e[3]]
      BY <3>5 DEF f
    <3> QED BY <3>2, <3>4, <3>5
  <2> QED BY <2>2, <1>2, <1>4, <1>9, HoldsFacts
<1> QED BY <1>2, <1>6, <1>7, <1>8, <1>9 DEF Kinds

(* What is left of the invariant when the call back is given no node that  *)
(* was collapsed.                                                          *)
THEOREM EverythingIsCovered == Spec /\ []AddingIsLive => [](Kept /\ Covered)
<1>1. Init => Kept /\ Covered
  BY InitKept, InitCovered
<1>2. Inv /\ Kept /\ Covered /\ AddingIsLive /\ [Next]_vars => (Kept /\ Covered)'
  BY NextKept, NextCovered
<1> QED BY <1>1, <1>2, InvHolds, PTL DEF Spec

(* The comment of solve: after runSolver, the constraint graph has reached *)
(* a fixed point, if no constraint of a call mentions a collapsed node.    *)
THEOREM FixedPointReached == Spec /\ []AddingIsLive => []FixedPoint
<1>1. Inv /\ Kept /\ Covered => FixedPoint
  BY AllSatisfied DEF FixedPoint
<1> QED BY <1>1, InvHolds, EverythingIsCovered, PTL

(* When a wave is about to begin, every copy that has something to send    *)
(* will be walked and not be skipped, under the same condition.            *)
THEOREM UnsentStaysRecorded == Spec /\ []AddingIsLive => []UnsentIsRecorded
<1>1. Inv /\ Covered => UnsentIsRecorded
  <2> SUFFICES ASSUME Inv, Covered, pc = "round", NEW n \in Live, NEW m \in CopySucc(edges, n),
                      ~(pts[n] \subseteq pts[m])
               PROVE  n \in ReachedFrom(edges, copyWork \cap Live) /\ ShouldProcessCopy(n, m)
    BY DEF UnsentIsRecorded
  <2>1. New = {}
    BY DEF New
  <2>2. n \in copyWork /\ NotSkipped(n, m)
    BY <2>1 DEF Covered, ToBeWalked
  <2>3. n \in (copyWork \cap Live) \cap Nodes
    BY <2>2 DEF Live
  <2>4. (copyWork \cap Live) \cap Nodes \subseteq ReachedFrom(edges, copyWork \cap Live)
    BY ReachedFacts
  <2>5. ShouldProcessCopy(n, m)
    BY <2>1, <2>2 DEF NotSkipped, ShouldProcessCopy
  <2> QED BY <2>3, <2>4, <2>5
<1> QED BY <1>1, InvHolds, EverythingIsCovered, PTL

(***************************************************************************)
(* The refinement.                                                         *)
(***************************************************************************)

(* An edge says the same between nodes that have the same sets.            *)
LEMMA SameEnds ==
  ASSUME NEW S, NEW d, NEW e, Holds(S, e), d[1] \in Kinds,
         e[1] = d[1], S[e[2]] = S[d[2]], S[e[3]] = S[d[3]], d[1] = "offset" => e[3] = d[3]
  PROVE  Holds(S, d)
<1>1. CASE d[1] = "copy"
  BY <1>1, HoldsFacts
<1>2. CASE d[1] = "load"
  BY <1>2, HoldsFacts
<1>3. CASE d[1] = "store"
  BY <1>3, HoldsFacts
<1>4. CASE d[1] = "offset"
  BY <1>4, HoldsFacts
<1> QED BY <1>1, <1>2, <1>3, <1>4 DEF Kinds

(* A constraint that has been bound holds with the edge it became.         *)
LEMMA BoundHolds ==
  ASSUME Inv, Kept, Covered, pc = "resolve", NEW c \in Bound
  PROVE  Holds(Answer, c)
<1> DEFINE d == AsEdge(c)
           e == Redirected(rep, d)
<1>1. TypeOK /\ Shape /\ Placed
  BY DEF Inv
<1>2. c \in Constraint /\ c \in Bound \ adding
  BY <1>1, ProgramFacts DEF Bound, TypeOK, Placed
<1>3. /\ d \in Edge /\ e = <<d[1], rep[d[2]], rep[d[3]]>> /\ e \in Edge
      /\ d[2] \in Nodes /\ d[3] \in Nodes /\ d[1] \in Kinds
      /\ d[1] = "offset" => d[3] \in GepNodes
  BY <1>2, Facts, RedirectedFacts, EdgeFacts
<1>4. e \in edges \/ SelfCopy(e)
  BY <1>2 DEF Kept
<1>5. Holds(Answer, e)
  <2> HIDE DEF e
  <2>1. CASE e \in edges
    BY <2>1, AllSatisfied
  <2>2. CASE SelfCopy(e)
    BY <2>2, HoldsFacts DEF SelfCopy
  <2> QED BY <1>4, <2>1, <2>2
<1>6. \A n \in Nodes : Answer[n] = pts[rep[n]] /\ Answer[rep[n]] = Answer[n]
  BY AnswerFacts
<1>7. e[1] = d[1] /\ Answer[e[2]] = Answer[d[2]] /\ Answer[e[3]] = Answer[d[3]]
  BY <1>3, <1>6
<1>8. d[1] = "offset" => e[3] = d[3]
  BY <1>1, <1>3 DEF Shape, Alone
<1> HIDE DEF e
<1>9. CASE c[1] = "addr_of"
  <2>1. d = <<"copy", AnonNode(c[2]), c[3]>>
    BY <1>9 DEF AsEdge
  <2>2. c[2] \in ObjNodes
    BY <1>2, <1>9 DEF Constraint, AddrOf, Edge, Kinds
  <2>3. AnonNode(c[2]) \in Nodes /\ rep[AnonNode(c[2])] = AnonNode(c[2])
    BY <2>2, <1>1, NodeFacts DEF Shape, Alone
  <2>4. c[2] \in Answer[d[2]]
    BY <2>1, <2>2, <2>3, <1>6 DEF Kept
  <2>5. Answer[d[2]] \subseteq Answer[d[3]]
    <3>1. e[1] = "copy"
      BY <2>1, <1>7
    <3> QED BY <3>1, <1>5, <1>7, HoldsFacts
  <2>6. d[3] = c[3]
    BY <2>1
  <2> QED BY <2>4, <2>5, <2>6, <1>9, HoldsFacts
<1>10. CASE c[1] # "addr_of"
  <2>1. d = c
    BY <1>10 DEF AsEdge
  <2>2. d[1] \in Kinds
    BY <1>3
  <2> HIDE DEF d
  <2>3. Holds(Answer, d)
    BY <2>2, <1>5, <1>7, <1>8, SameEnds
  <2> QED BY <2>1, <2>3
<1> QED BY <1>9, <1>10

(* When no call is left to bind, the answer is a solution.                 *)
LEMMA AnswerIsSolution ==
  ASSUME Inv, Kept, Covered, NoCallThroughGep, pc = "resolve", NewTargets = {}
  PROVE  IsSolution(Program[prog], Answer)
<1>1. TypeOK /\ Shape
  BY DEF Inv
<1>2. ASSUME NEW o \in ObjNodes PROVE Answer[AnonNode(o)] = {o}
  <2>1. AnonNode(o) \in Nodes /\ rep[AnonNode(o)] = AnonNode(o)
    BY <1>1, NodeFacts DEF Shape, Alone
  <2>2. pts[AnonNode(o)] \subseteq {o}
    BY <2>1, <1>1, Facts, ProgramFacts DEF TypeOK
  <2> QED BY <2>1, <2>2, AnswerFacts DEF Kept
<1>3. \A c \in Bound : Holds(Answer, c)
  BY BoundHolds
<1>4. ASSUME NEW call \in Calls, call.fn \in Answer[call.fp]
      PROVE  \A c \in call.cons : Holds(Answer, c)
  <2>1. call.fn \in pts[rep[call.fp]]
    BY <1>4, <1>1, ProgramFacts, AnswerFacts DEF TypeOK
  <2>2. call \in resolved
    BY <2>1 DEF Kept, CallsAreNotForgotten, NewTargets
  <2>3. call.cons \subseteq Bound
    BY <2>2 DEF Bound
  <2> QED BY <2>3, <1>3
<1> QED BY <1>2, <1>3, <1>4 DEF IsSolution, Bound, Calls

(* The abstract analysis states the same conditions.                       *)
LEMMA SameConditions ==
  /\ Analysis!Nodes = Nodes
  /\ Analysis!Assignment = Assignment
  /\ \A S, T : Analysis!Within(S, T) <=> \A n \in Nodes : S[n] \subseteq T[n]
  /\ \A P, S : Analysis!IsSolution(P, S) <=> IsSolution(P, S)
<1>1. Analysis!Nodes = Nodes
  BY DEF Analysis!Nodes, Nodes, Analysis!AnonNodes, AnonNodes, Analysis!AnonNode, AnonNode
<1>2. \A S, c : Analysis!Holds(S, c) <=> Holds(S, c)
  BY DEF Analysis!Holds, Holds
<1>3. \A P, S : Analysis!IsSolution(P, S) <=> IsSolution(P, S)
  BY <1>2 DEF Analysis!IsSolution, IsSolution, Analysis!AnonNode, AnonNode
<1> QED BY <1>1, <1>3 DEF Analysis!Assignment, Assignment, Analysis!Within

LEMMA InitMapsToInit == Init => Analysis!Init
<1> SUFFICES ASSUME Init PROVE Analysis!Init
  OBVIOUS
<1>1. /\ prog \in ProgIds /\ rep = [n \in Nodes |-> n] /\ pc = "round"
      /\ pts = [n \in Nodes |-> {o \in ObjNodes : AnonNode(o) = n}]
  BY DEF Init, SolverInit
<1>2. Answer = [n \in Nodes |-> {o \in ObjNodes : AnonNode(o) = n}]
  BY <1>1 DEF Answer
<1>3. Answer = [n \in Analysis!Nodes |-> {o \in ObjNodes : Analysis!AnonNode(o) = n}]
  BY <1>2, SameConditions DEF AnonNode, Analysis!AnonNode
<1> QED BY <1>1, <1>3 DEF Analysis!Init

(* A step after which the solver still runs.                               *)
LEMMA GrowingStep ==
  ASSUME Inv, Inv', AnswerGrows, pc # "done", pc' # "done", prog' = prog
  PROVE  Analysis!Grow
<1>1. TypeOK' /\ Sound'
  BY DEF Inv
<1>2. Answer = [n \in Nodes |-> pts[rep[n]]] /\ Answer' = [n \in Nodes |-> pts'[rep'[n]]]
  BY DEF Answer
<1>3. ASSUME NEW n \in Nodes
      PROVE  /\ pts'[rep'[n]] \subseteq ObjNodes
             /\ pts'[rep'[n]] \subseteq Reference[prog][n]
  <2>1. rep'[n] \in Nodes /\ Reference[prog][rep'[n]] = Reference[prog][n]
    BY <1>1 DEF TypeOK, Sound
  <2> QED BY <2>1, <1>1 DEF TypeOK, Sound, WithinReference, Assignment
<1>4. Answer' \in Assignment
  BY <1>2, <1>3 DEF Assignment
<1>5. \A n \in Nodes : Answer[n] \subseteq Answer'[n]
  BY <1>2 DEF AnswerGrows
<1>6. \A n \in Nodes : Answer'[n] \subseteq Reference[prog][n]
  BY <1>2, <1>3
<1> QED BY <1>4, <1>5, <1>6, SameConditions DEF Analysis!Grow

(* Each step maps to a step of the abstract analysis or to a stutter.      *)
LEMMA StepMapsToStep ==
  Inv /\ Inv' /\ Kept /\ Covered /\ NoCallThroughGep /\ [Next]_vars
    => [Analysis!Next]_(Analysis!vars)
<1> SUFFICES ASSUME Inv, Inv', Kept, Covered, NoCallThroughGep, [Next]_vars
             PROVE  [Analysis!Next]_(Analysis!vars)
  OBVIOUS
<1> USE DEF Analysis!Next
<1>1. AnswerGrows
  BY NextKept
<1>2. CASE BeginRound \/ EndWave \/ EndRound \/ EndResolve
  <2>1. prog' = prog /\ pc # "done" /\ pc' # "done"
    BY <1>2 DEF BeginRound, EndWave, EndRound, EndResolve
  <2> QED BY <2>1, <1>1, GrowingStep
<1>3. CASE \/ \E n \in Nodes : PropagateNode(n)
           \/ \E scc \in pending : \E super \in scc : CollapseCycle(scc, super)
  <2>1. prog' = prog /\ pc = "wave" /\ pc' = pc
    BY <1>3 DEF PropagateNode, CollapseCycle
  <2> QED BY <2>1, <1>1, GrowingStep
<1>4. CASE \E e \in todo : HandleLoadOrStore(e) \/ HandleOffset(e)
  <2>1. prog' = prog /\ pc = "edges" /\ pc' = pc
    BY <1>4 DEF HandleLoadOrStore, HandleOffset
  <2> QED BY <2>1, <1>1, GrowingStep
<1>5. CASE \E c \in adding : AddConstraint(c)
  <2>1. prog' = prog /\ pc = "bind" /\ pc' = pc
    BY <1>5 DEF AddConstraint
  <2> QED BY <2>1, <1>1, GrowingStep
<1>6. CASE ResolveFunPtrs
  <2>1. pc = "resolve" /\ prog' = prog /\ pts' = pts /\ rep' = rep
    BY <1>6 DEF ResolveFunPtrs, graphVars
  <2>2. CASE NewTargets = {} /\ pc' = "done"
    <3>1. IsSolution(Program[prog], Answer)
      BY <2>1, <2>2, AnswerIsSolution
    <3>2. Answer' = Answer
      BY <2>1 DEF Answer
    <3> QED BY <3>1, <3>2, <2>1, <2>2, SameConditions DEF Analysis!Stop
  <2>3. CASE pc' = "bind"
    BY <2>1, <2>3, <1>1, GrowingStep
  <2> QED BY <2>2, <2>3, <1>6 DEF ResolveFunPtrs
<1>7. CASE UNCHANGED vars
  BY <1>7 DEF vars, graphVars, Answer, Analysis!vars
<1> QED BY <1>2, <1>3, <1>4, <1>5, <1>6, <1>7 DEF Next

(* The solver implements the abstract analysis when the call back is given *)
(* no collapsed node and no call is made through a getelementptr: skipping *)
(* copies, and handling offsets last and in place, lose nothing, and when  *)
(* the solver stops it has computed the least solution.                    *)
THEOREM Refinement ==
  Spec /\ []AddingIsLive /\ []NoCallThroughGep => ImplementsAnalysis
<1>1. Init => Analysis!Init
  BY InitMapsToInit
<1>2. Inv /\ Inv' /\ Kept /\ Covered /\ NoCallThroughGep /\ [Next]_vars
        => [Analysis!Next]_(Analysis!vars)
  BY StepMapsToStep
<1> QED BY <1>1, <1>2, InvHolds, EverythingIsCovered, PTL DEF Spec, ImplementsAnalysis, Analysis!Spec

(* Both conditions hold for a program without indirect calls, as no call   *)
(* ever adds a constraint: there, skipping copies loses nothing at all.    *)
NoCalls == Calls = {} /\ adding = {}

THEOREM RefinementWithoutCalls == Spec /\ Calls = {} => ImplementsAnalysis
<1>1. Init /\ Calls = {} => NoCalls
  BY DEF Init, NoCalls
<1>2. NoCalls /\ [Next]_vars => NoCalls'
  <2> SUFFICES ASSUME NoCalls, [Next]_vars PROVE prog' = prog /\ adding' = {}
    BY DEF NoCalls, Calls
  <2> USE DEF NoCalls
  <2>1. CASE ResolveFunPtrs
    BY <2>1 DEF ResolveFunPtrs, NewTargets
  <2>2. CASE BeginRound \/ EndWave \/ EndRound \/ EndResolve
    BY <2>2 DEF BeginRound, EndWave, EndRound, EndResolve
  <2>3. CASE \/ \E n \in Nodes : PropagateNode(n)
             \/ \E scc \in pending : \E super \in scc : CollapseCycle(scc, super)
    BY <2>3 DEF PropagateNode, CollapseCycle
  <2>4. CASE \E e \in todo : HandleLoadOrStore(e) \/ HandleOffset(e)
    BY <2>4 DEF HandleLoadOrStore, HandleOffset
  <2>5. CASE \E c \in adding : AddConstraint(c)
    BY <2>5
  <2>6. CASE UNCHANGED vars
    BY <2>6 DEF vars
  <2> QED BY <2>1, <2>2, <2>3, <2>4, <2>5, <2>6 DEF Next
<1>3. NoCalls => AddingIsLive /\ NoCallThroughGep
  BY DEF NoCalls, AddingIsLive, NoCallThroughGep
<1>4. Spec /\ Calls = {} => []NoCalls
  BY <1>1, <1>2, PTL DEF Spec
<1> QED BY <1>3, <1>4, Refinement, PTL

=============================================================================
