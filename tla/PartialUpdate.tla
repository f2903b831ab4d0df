---------------------------- MODULE PartialUpdate ----------------------------
(***************************************************************************)
(* PartialUpdateSolver: a wave only walks what can be reached from the     *)
(* nodes of the copy work list, and skips a copy edge unless its source    *)
(* has grown or the edge was recorded as new.  While indirect calls are    *)
(* resolved, a call back of the constraint graph records the edges that    *)
(* are added between nodes that existed before.                            *)
(*                                                                         *)
(* The code marks what is done in its bit vectors; the sets here hold what *)
(* is not.  requiredEdge is a table of hashes of edges: a collision makes  *)
(* the solver process a copy it could have skipped, so the set of the      *)
(* edges themselves is the case that skips most.  The build defines        *)
(* NO_ADDR_OF_FOR_OFFSET: offsets are handled after all loads and stores,  *)
(* and the address of a field is put into the pointer's set at once.       *)
(***************************************************************************)
EXTENDS SolverBase

VARIABLES
  created,     \* the nodes the work lists have a bit for
  fresh,       \* the nodes created since the work lists were resized
  copyWork,    \* copyWorkList: nodes whose copy edges are to be walked
  lsWork,      \* lsWorkList: nodes that have grown
  targets,     \* targetList: nodes that a new copy edge leads to
  required,    \* requiredEdge: <<source, destination>> of the new copy edges
  todo,        \* load, store and offset edges still to be handled
  adding       \* constraints of the calls being resolved, still to be added

workLists == <<copyWork, lsWork, targets, required>>
vars == <<prog, graphVars, pts, callVars, handled, pending, created, fresh,
          workLists, todo, adding, pc>>

TypeOK ==
  /\ prog \in ProgIds
  /\ edges \subseteq Edge
  /\ rep \in [Nodes -> Nodes]
  /\ pts \in Assignment
  /\ funPtrs \subseteq created
  /\ resolved \subseteq Calls
  /\ handled \subseteq GepNodes \X ObjNodes
  /\ pending \subseteq SUBSET created
  /\ created \subseteq Nodes /\ fresh \subseteq Nodes \ created
  /\ copyWork \subseteq created /\ lsWork \subseteq created /\ targets \subseteq created
  /\ required \subseteq Nodes \X Nodes
  /\ todo \subseteq edges
  /\ adding \subseteq Constraint
  /\ pc \in {"round", "wave", "edges", "resolve", "bind", "done"}

(* Creating an object creates its anonymous pointer.                       *)
WithAnon(S) == S \cup {AnonNode(o) : o \in S \cap ObjNodes}
Mentioned(C) == {c[2] : c \in C} \cup {c[3] : c \in C}

(* What exists from the start: all but the fields of objects and the nodes *)
(* of functions that are only reached by an indirect call.                 *)
InitialNodes ==
  LET fields == {IndexObject[g][o] : g \in GepNodes, o \in ObjNodes}
      later == fields \cup Mentioned(UNION {c.cons : c \in Calls})
      sooner == Mentioned(Program[prog].base) \cup {c.fn : c \in Calls}
  IN  WithAnon((PtrNodes \cup ObjNodes) \ (later \ sooner))

Init ==
  /\ SolverInit
  /\ created = InitialNodes
  /\ fresh = {}
  /\ copyWork = created
  /\ lsWork = created
  /\ targets = created
  /\ required = {}
  /\ todo = {}
  /\ adding = {}
  /\ pc = "round"

BeginRound ==
  /\ pc = "round"
  /\ pending' = SCCs(edges, ReachedFrom(edges, copyWork \cap Live))
  /\ pc' = "wave"
  /\ UNCHANGED <<prog, graphVars, pts, callVars, handled, created, fresh, workLists, todo, adding>>

(***************************************************************************)
(* The wave.                                                               *)
(***************************************************************************)
ShouldProcessCopy_TargetsOnly(n, m) ==   \* a mutant: growth is not looked at
  m \in targets /\ n \in copyWork /\ <<n, m>> \in required
ShouldProcessCopy(n, m) ==
  \/ n \in lsWork
  \/ m \in targets /\ n \in copyWork /\ <<n, m>> \in required

Grown(new) == {m \in Nodes : ~(new[m] \subseteq pts[m])}

PropagateNode(n) ==
  /\ pc = "wave"
  /\ {n} \in pending
  /\ OnTop({n})
  /\ LET processed == {<<"copy", n, m>> : m \in {k \in CopySucc(edges, n) : ShouldProcessCopy(n, k)}}
     IN  pts' = Propagated(processed, pts, n)
  /\ lsWork' = lsWork \cup Grown(pts')
  /\ funPtrs' = funPtrs \cup GrownFunPtrs(rep, pts')
  /\ pending' = pending \ {{n}}
  /\ UNCHANGED <<prog, graphVars, resolved, handled, created, fresh, copyWork, targets,
                 required, todo, adding, pc>>

(* processCopySCC of this solver: the sets of the collapsed nodes are      *)
(* emptied, and the super node counts as grown.                            *)
CollapseCycle(scc, super) ==
  /\ pc = "wave"
  /\ scc \in pending /\ scc # {super} /\ super \in scc
  /\ OnTop(scc)
  /\ LET merged == [n \in Nodes |-> IF n = super THEN UNION {pts[m] : m \in scc}
                                    ELSE IF n \in scc THEN {} ELSE pts[n]]
     IN  /\ rep' = CollapseReps(rep, scc, super)
         /\ edges' = CollapseEdges(edges, scc, super)
         /\ pts' = Propagated(edges', merged, super)
         /\ funPtrs' = funPtrs \cup GrownFunPtrs(rep', pts')
                         \cup {n \in {super} : IsFunctionPtr(rep', n)}
         /\ lsWork' = lsWork \cup {super} \cup Grown(pts')
  /\ targets' = targets \cup (IF scc \cap targets = {} THEN {} ELSE {super})
  /\ pending' = pending \ {scc}
  /\ UNCHANGED <<prog, resolved, handled, created, fresh, copyWork, required, todo, adding, pc>>

Visited(e) == IF e[1] = "store" THEN e[3] ELSE e[2]
Rank(e) == 2 * Visited(e) + (IF e[1] = "store" THEN 0 ELSE 1)
IsNext(e) ==
  /\ e \in todo
  /\ \A f \in todo : IF e[1] = "offset" THEN f[1] = "offset" /\ Rank(e) <= Rank(f)
                                        ELSE f[1] = "offset" \/ Rank(e) <= Rank(f)

EndWave_WorkKept ==   \* a mutant: the copy work list is not emptied
  /\ pc = "wave"
  /\ pending = {}
  /\ lsWork' = {} /\ targets' = {} /\ required' = {}
  /\ todo' = {e \in edges : e[1] # "copy" /\ Visited(e) \in lsWork}
  /\ pc' = "edges"
  /\ UNCHANGED <<prog, graphVars, pts, callVars, handled, pending, created, fresh, copyWork, adding>>
EndWave ==
  /\ pc = "wave"
  /\ pending = {}
  /\ copyWork' = {} /\ lsWork' = {} /\ targets' = {} /\ required' = {}
  /\ todo' = {e \in edges : e[1] # "copy" /\ Visited(e) \in lsWork}
  /\ pc' = "edges"
  /\ UNCHANGED <<prog, graphVars, pts, callVars, handled, pending, created, fresh, adding>>

(***************************************************************************)
(* The copy edges of loads and stores are recorded, and carry nothing      *)
(* before the next wave.                                                   *)
(***************************************************************************)
RecordCopies_SourcesOnly(new) ==   \* a mutant: the target is not marked
  /\ copyWork' = copyWork \cup ({p[1] : p \in new} \cap created)
  /\ required' = required \cup new
  /\ UNCHANGED targets
RecordCopies_TargetsOnly(new) ==   \* a mutant: the source is not marked
  /\ targets' = targets \cup ({p[2] : p \in new} \cap created)
  /\ required' = required \cup new
  /\ UNCHANGED copyWork
RecordCopies(new) ==
  /\ copyWork' = copyWork \cup ({p[1] : p \in new} \cap created)
  /\ targets' = targets \cup ({p[2] : p \in new} \cap created)
  /\ required' = required \cup new

(* What processLoad, processStore and processOffset add for an edge e, as  *)
(* constraints between super nodes, with sets read at the given node.      *)
NewGEPs(e) == {o \in pts[e[2]] : <<e[3], o>> \notin handled}
NewFields(e) == {IndexObject[e[3]][o] : o \in NewGEPs(e)} \ ({NoObj} \cup pts[e[3]])
Implied(e) ==
  CASE e[1] = "load"   -> {<<"copy", rep[o], e[3]>> : o \in pts[e[2]]}
    [] e[1] = "store"  -> {<<"copy", e[2], rep[o]>> : o \in pts[e[3]]}
    [] e[1] = "offset" -> {<<"copy", AnonNode(f), e[3]>> : f \in NewFields(e)}
    [] OTHER -> {}
HandledBy(e) == IF e[1] = "offset" THEN {e[3]} \X NewGEPs(e) ELSE {}
CreatedBy(e) == IF e[1] = "offset" THEN WithAnon(NewFields(e)) \ created ELSE {}

Ends(E) == {<<e[2], e[3]>> : e \in E}

HandleLoadOrStore(e) ==
  /\ pc = "edges"
  /\ IsNext(e) /\ e[1] # "offset"
  /\ LET new == NewEdges(edges, rep, Implied(e))
     IN  /\ edges' = edges \cup new
         /\ RecordCopies(Ends(new))
  /\ todo' = todo \ {e}
  /\ UNCHANGED <<prog, rep, pts, callVars, handled, pending, created, fresh, lsWork, adding, pc>>

(* The pointer has grown, and is both to be walked and to be looked at.    *)
HandleOffset_NotWalked(e) ==   \* a mutant: the pointer is not to be walked
  /\ pc = "edges"
  /\ IsNext(e) /\ e[1] = "offset"
  /\ edges' = AddConstraints(edges, rep, Implied(e))
  /\ pts' = [pts EXCEPT ![e[3]] = @ \cup NewFields(e)]
  /\ lsWork' = lsWork \cup Grown(pts')
  /\ handled' = handled \cup HandledBy(e)
  /\ fresh' = fresh \cup CreatedBy(e)
  /\ todo' = todo \ {e}
  /\ UNCHANGED <<prog, rep, callVars, pending, created, copyWork, targets, required, adding, pc>>
HandleOffset(e) ==
  /\ pc = "edges"
  /\ IsNext(e) /\ e[1] = "offset"
  /\ edges' = AddConstraints(edges, rep, Implied(e))
  /\ pts' = [pts EXCEPT ![e[3]] = @ \cup NewFields(e)]
  /\ copyWork' = copyWork \cup Grown(pts')
  /\ lsWork' = lsWork \cup Grown(pts')
  /\ handled' = handled \cup HandledBy(e)
  /\ fresh' = fresh \cup CreatedBy(e)
  /\ todo' = todo \ {e}
  /\ UNCHANGED <<prog, rep, callVars, pending, created, targets, required, adding, pc>>

(* The work lists are resized; the copies of new nodes are to be walked.   *)
EndRound ==
  /\ pc = "edges"
  /\ todo = {}
  /\ created' = created \cup fresh
  /\ fresh' = {}
  /\ copyWork' = copyWork \cup fresh
  /\ pc' = IF copyWork' = {} THEN "resolve" ELSE "round"
  /\ UNCHANGED <<prog, graphVars, pts, callVars, handled, pending, lsWork, targets,
                 required, todo, adding>>

(***************************************************************************)
(* resolveFunPtrs, with the call back registered.  The constraints of the  *)
(* calls that are bound are added in some order.                           *)
(***************************************************************************)
ResolveFunPtrs ==
  /\ pc = "resolve"
  /\ adding' = UNION {c.cons : c \in NewTargets}
  /\ fresh' = WithAnon(Mentioned(adding')) \ created
  /\ resolved' = resolved \cup NewTargets
  /\ funPtrs' = {}
  /\ pc' = IF NewTargets = {} THEN "done" ELSE "bind"
  /\ UNCHANGED <<prog, graphVars, pts, handled, pending, created, workLists, todo>>

(* addConstraints with onNewConstraint.  The call back is given the nodes  *)
(* of the constraint as they are, not their super nodes: it reads the set  *)
(* of, and marks, a node that may have been collapsed.                     *)
AddConstraint(c) ==
  /\ pc = "bind"
  /\ c \in adding
  /\ LET d == AsEdge(c)
         isNew == NewEdges(edges, rep, {c}) # {} /\ Visited(d) \in created
         implied == IF isNew THEN Implied(d) ELSE {}
         new == NewEdges(edges, rep, {c} \cup implied)
         recorded == CASE d[1] = "copy"   -> {d}
                       [] d[1] = "offset" -> implied
                       [] OTHER -> {k \in implied : NewEdges(edges, rep, {k}) # {}}
     IN  /\ edges' = edges \cup new
         /\ RecordCopies(IF isNew THEN Ends(recorded) ELSE {})
         /\ handled' = handled \cup (IF isNew THEN HandledBy(d) ELSE {})
         /\ fresh' = fresh \cup (IF isNew THEN CreatedBy(d) ELSE {})
  /\ adding' = adding \ {c}
  /\ UNCHANGED <<prog, rep, pts, callVars, pending, created, lsWork, todo, pc>>

(* All new nodes are to be visited in every respect.                       *)
EndResolve ==
  /\ pc = "bind"
  /\ adding = {}
  /\ created' = created \cup fresh
  /\ fresh' = {}
  /\ copyWork' = copyWork \cup fresh
  /\ lsWork' = lsWork \cup fresh
  /\ targets' = targets \cup fresh
  /\ pc' = "round"
  /\ UNCHANGED <<prog, graphVars, pts, callVars, handled, pending, required, todo, adding>>

Next ==
  \/ BeginRound
  \/ \E n \in Nodes : PropagateNode(n)
  \/ \E scc \in pending : \E super \in scc : CollapseCycle(scc, super)
  \/ EndWave
  \/ \E e \in todo : HandleLoadOrStore(e) \/ HandleOffset(e)
  \/ EndRound
  \/ ResolveFunPtrs
  \/ \E c \in adding : AddConstraint(c)
  \/ EndResolve

Spec == Init /\ [][Next]_vars

(* The solver is one thread that only stops when solve() returns.          *)
FairSpec == Spec /\ WF_vars(Next)

-----------------------------------------------------------------------------
(***************************************************************************)
(* Correctness.                                                            *)
(***************************************************************************)

(* solve() says of runSolver: "after this, the current contraints graph    *)
(* will reach fixed point".  Before indirect calls are resolved, every     *)
(* edge of the graph is satisfied by the points-to sets.                   *)
FixedPoint == pc = "resolve" => \A e \in edges : Holds(Answer, e)

(* The assertions of solve() after runSolver: the work lists only shrink   *)
(* to nothing together, so that nothing is carried over to the next call.  *)
AllHandled ==
  pc = "resolve" => copyWork = {} /\ lsWork = {} /\ targets = {} /\ required = {}

(* The work lists of runSolver and the table of required edges cover what  *)
(* is left to do: when a wave is about to begin, every copy edge whose     *)
(* source has something to send will be walked and will not be skipped.    *)
UnsentIsRecorded ==
  pc = "round" =>
    \A n \in Live : \A m \in CopySucc(edges, n) :
      ~(pts[n] \subseteq pts[m]) => /\ n \in ReachedFrom(edges, copyWork \cap Live)
                                    /\ ShouldProcessCopy(n, m)

(* The do-while loops of runSolver and solve end.                          *)
Terminates == <>(pc = "done")

-----------------------------------------------------------------------------
(***************************************************************************)
(* The inductive invariant behind TypeOK, WithinReference, AllHandled and  *)
(* EdgesAreLive.                                                           *)
(***************************************************************************)
Shape ==
  /\ \A e \in edges : WellFormedEdge(e)
  /\ \A x \in Alone : \A n \in Nodes : rep[n] = x <=> n = x
  /\ \A scc \in pending : \A x \in scc \cap Alone : scc = {x}

(* Edges and constraints still to be added hold in every solution, nodes   *)
(* that are or will be collapsed have the same set there.                  *)
Sound ==
  /\ WithinReference
  /\ \A n \in Nodes : Reference[prog][rep[n]] = Reference[prog][n]
  /\ \A c \in edges \cup adding : Holds(Reference[prog], c)
  /\ \A scc \in pending : \A a, b \in scc : Reference[prog][a] = Reference[prog][b]

Placed ==
  /\ EdgesAreLive
  /\ \A scc \in pending : scc \subseteq Live
  /\ \A scc, other \in pending : scc = other \/ scc \cap other = {}
  /\ pc # "wave" => pending = {}
  /\ pc # "edges" => todo = {}
  /\ pc # "bind" => adding = {}
  /\ pc \notin {"edges", "bind"} => fresh = {}

(* The work lists have a bit, or get one when they are resized, for every  *)
(* node that an edge, a set or a constraint of a call leads to.            *)
Existing == created \cup fresh
Known ==
  /\ \A o \in ObjNodes : /\ o \in created <=> AnonNode(o) \in created
                         /\ o \in fresh <=> AnonNode(o) \in fresh
  /\ \A n \in created : rep[n] \in created
  /\ \A n \in Nodes \ created : rep[n] = n
  /\ \A e \in edges : {e[2], e[3]} \subseteq Existing
  /\ \A e \in todo : {e[2], e[3]} \subseteq created
  /\ \A n \in Nodes : \A o \in pts[n] : o \in Existing \/ n = AnonNode(o)
  /\ Mentioned(adding) \subseteq Existing

(* While loads, stores and offsets are handled, nothing is recorded but    *)
(* together with a node to be walked or a new node, which will be.         *)
WorkIsWalked ==
  pc = "edges" => \/ copyWork \cup fresh # {}
                  \/ lsWork = {} /\ targets = {} /\ required = {}

Inv == TypeOK /\ Shape /\ Sound /\ Placed /\ Known /\ WorkIsWalked /\ AllHandled

-----------------------------------------------------------------------------
(***************************************************************************)
(* The inductive invariant behind CallsAreNotForgotten, FixedPoint,        *)
(* UnsentIsRecorded and ImplementsAnalysis.  Nothing bound is lost: the    *)
(* address of every object, the constraints of the program and of the      *)
(* calls resolved so far, and calls to look at.  The latter needs that no  *)
(* call is made through a getelementptr: processOffset does not record a   *)
(* function pointer.                                                       *)
(***************************************************************************)
NoCallThroughGep == \A c \in Calls : c.fp \notin GepNodes

Bound == Program[prog].base \cup UNION {c.cons : c \in resolved}
Kept ==
  /\ \A o \in ObjNodes : o \in pts[AnonNode(o)]
  /\ \A e \in edges : ~SelfCopy(e)
  /\ \A c \in Bound \ adding : LET e == Redirected(rep, AsEdge(c)) IN e \in edges \/ SelfCopy(e)
  /\ NoCallThroughGep => CallsAreNotForgotten

(* A load or store is done when its copy edges exist, an offset when the   *)
(* pointer has the fields or, from the call back, a copy of them.          *)
Linked(a, b) == <<"copy", a, b>> \in edges \/ a = b
HasField(g, o) ==
  LET f == IndexObject[g][o]
  IN  f # NoObj => f \in pts[g] \/ <<"copy", AnonNode(f), g>> \in edges
Done(e) ==
  /\ e[1] = "load" => \A o \in pts[e[2]] : Linked(rep[o], e[3])
  /\ e[1] = "store" => \A o \in pts[e[3]] : Linked(e[2], rep[o])
  /\ e[1] = "offset" => \A o \in pts[e[2]] : HasField(e[3], o)

(* The work lists cover what is left to do, as long as the call back is    *)
(* given no node that was collapsed.  A copy that has something to send    *)
(* will be walked and not be skipped, in a wave because its source is      *)
(* still to be walked; any other edge is done, or its node has grown or    *)
(* is new, or it is still to be handled.                                   *)
AddingIsLive == \A c \in adding : {AsEdge(c)[2], AsEdge(c)[3]} \subseteq Live
New == IF pc = "bind" THEN fresh ELSE {}
ToBeWalked == IF pc = "wave" THEN UNION pending ELSE copyWork \cup New
NotSkipped(n, m) ==
  \/ n \in lsWork \cup New
  \/ m \in targets \cup New /\ n \in copyWork /\ <<n, m>> \in required
Covered ==
  /\ \A n \in Live : \A m \in CopySucc(edges, n) :
       ~(pts[n] \subseteq pts[m]) => n \in ToBeWalked /\ NotSkipped(n, m)
  /\ \A e \in edges \ todo : Done(e) \/ Visited(e) \in lsWork \cup New
  /\ \A h \in handled : HasField(h[1], h[2])
  /\ pc = "wave" => \A n \in UNION pending : CopySucc(edges, n) \subseteq UNION pending
  /\ pc = "edges" => fresh = {} \/ \A e \in todo : e[1] = "offset"

=============================================================================
