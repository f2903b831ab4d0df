-------------------------- MODULE SolverBase_proofs --------------------------
(***************************************************************************)
(* Lemmas about the constraint graph and about the steps that the solvers  *)
(* share.                                                                  *)
(***************************************************************************)
EXTENDS SolverBase, TLAPS

(***************************************************************************)
(* Facts about the constraint graph.                                       *)
(***************************************************************************)

(* Anonymous and getelementptr pointers are different nodes, and all of    *)
(* them are nodes.                                                         *)
LEMMA NodeFacts ==
  /\ ObjNodes \subseteq Nodes
  /\ PtrNodes \subseteq Nodes
  /\ AnonNodes \subseteq Nodes
  /\ GepNodes \subseteq Nodes
  /\ GepNodes \cap AnonNodes = {}
  /\ ObjNodes \cap Alone = {}
  /\ \A o \in ObjNodes : AnonNode(o) \in AnonNodes
BY NodesAssumption DEF Nodes, AnonNodes, Alone

(* An edge is a triple.                                                    *)
LEMMA EdgeFacts ==
  ASSUME NEW e \in Edge
  PROVE  /\ e = <<e[1], e[2], e[3]>>
         /\ e[1] \in Kinds
         /\ e[2] \in Nodes
         /\ e[3] \in Nodes
BY DEF Edge

(* The edge that stands for a constraint, between any super nodes.         *)
LEMMA RedirectedFacts ==
  ASSUME NEW c \in Constraint, NEW rp \in [Nodes -> Nodes]
  PROVE  LET d == AsEdge(c) IN
         /\ d \in Edge
         /\ Redirected(rp, d) = <<d[1], rp[d[2]], rp[d[3]]>>
         /\ Redirected(rp, d) \in Edge
         /\ d[3] \notin AnonNodes
         /\ d[1] \in {"load", "copy"} /\ d[3] \in GepNodes => d[2] \in AnonNodes /\ d[1] = "copy"
         /\ d[1] = "offset" => d[3] \in GepNodes
<1>1. CASE c \in AddrOf
  <2>1. c = <<"addr_of", c[2], c[3]>> /\ c[2] \in ObjNodes /\ c[3] \in PtrNodes
    BY <1>1 DEF AddrOf
  <2>2. AsEdge(c) = <<"copy", AnonNode(c[2]), c[3]>>
    BY <2>1 DEF AsEdge
  <2>3. c[3] \notin AnonNodes /\ c[3] \in Nodes /\ AnonNode(c[2]) \in AnonNodes /\ AnonNode(c[2]) \in Nodes
    BY <2>1, NodeFacts, NodesAssumption
  <2> QED
    BY <2>1, <2>2, <2>3 DEF Edge, Kinds, Redirected
<1>2. CASE c \notin AddrOf
  <2>1. c \in Edge /\ c[3] \notin AnonNodes
        /\ (c[1] \in {"load", "copy"} => c[3] \notin GepNodes)
        /\ (c[1] = "offset" => c[3] \in GepNodes)
    BY <1>2 DEF Constraint
  <2>2. AsEdge(c) = c
    BY <2>1, EdgeFacts DEF AsEdge, Kinds
  <2> QED
    BY <2>1, <2>2, EdgeFacts DEF Edge, Redirected
<1> QED BY <1>1, <1>2

(* Moving the edges of a cycle keeps them edges; nodes outside the cycle   *)
(* keep their identity.                                                    *)
LEMMA CollapseFacts ==
  ASSUME NEW E \in SUBSET Edge, NEW scc \in SUBSET Nodes, NEW super \in scc,
         NEW e \in CollapseEdges(E, scc, super)
  PROVE  /\ e \in Edge
         /\ ~SelfCopy(e)
         /\ \E f \in E : /\ e[1] = f[1]
                         /\ e[2] = IF f[2] \in scc THEN super ELSE f[2]
                         /\ e[3] = IF f[3] \in scc THEN super ELSE f[3]
<1> DEFINE moved(n) == IF n \in scc THEN super ELSE n
<1>1. /\ e \in {<<f[1], moved(f[2]), moved(f[3])>> : f \in E}
      /\ ~SelfCopy(e)
  BY DEF CollapseEdges
<1>2. PICK f \in E : e = <<f[1], moved(f[2]), moved(f[3])>>
  BY <1>1
<1>3. f \in Edge
  OBVIOUS
<1>4. f[1] \in Kinds /\ f[2] \in Nodes /\ f[3] \in Nodes
  BY <1>3, EdgeFacts
<1>5. moved(f[2]) \in Nodes /\ moved(f[3]) \in Nodes
  BY <1>4
<1>6. e \in Edge
  BY <1>2, <1>4, <1>5 DEF Edge
<1>7. e[1] = f[1] /\ e[2] = moved(f[2]) /\ e[3] = moved(f[3])
  BY <1>2
<1> QED BY <1>1, <1>6, <1>7

(* The nodes that have in R everything a has are closed under copies that  *)
(* R satisfies.                                                            *)
LEMMA UpwardClosed ==
  ASSUME NEW E \in SUBSET Edge, NEW R \in Assignment, NEW a \in Nodes,
         \A e \in E : e[1] = "copy" => R[e[2]] \subseteq R[e[3]]
  PROVE  {n \in Nodes : R[a] \subseteq R[n]} \in ClosedSets(E)
<1> DEFINE U == {n \in Nodes : R[a] \subseteq R[n]}
<1>1. U \in SUBSET Nodes
  OBVIOUS
<1>2. ASSUME NEW e \in E, e[1] = "copy", e[2] \in U PROVE e[3] \in U
  <2>1. e \in Edge
    OBVIOUS
  <2>2. e[3] \in Nodes
    BY <2>1, EdgeFacts
  <2>3. R[a] \subseteq R[e[2]] /\ R[e[2]] \subseteq R[e[3]]
    BY <1>2
  <2> QED BY <2>2, <2>3
<1> QED BY <1>1, <1>2 DEF ClosedSets

(* The nodes of a cycle have the same set in every R that satisfies the    *)
(* copies.                                                                 *)
LEMMA CycleAgrees ==
  ASSUME NEW E \in SUBSET Edge, NEW live \in SUBSET Nodes, NEW R \in Assignment,
         \A e \in E : e[1] = "copy" => R[e[2]] \subseteq R[e[3]],
         NEW scc \in SCCs(E, live), NEW a \in scc, NEW b \in scc
  PROVE  R[a] = R[b]
<1> DEFINE closed == ClosedSets(E)
           reaches(x, y) == \A S \in closed : x \in S => y \in S
<1>1. PICK c \in live : scc = {x \in live : reaches(c, x) /\ reaches(x, c)}
  BY DEF SCCs
<1>2. ASSUME NEW x \in Nodes, NEW y \in Nodes, reaches(x, y)
      PROVE  R[x] \subseteq R[y]
  <2>1. {n \in Nodes : R[x] \subseteq R[n]} \in closed
    BY UpwardClosed
  <2> QED BY <2>1, <1>2
<1>3. c \in Nodes /\ a \in Nodes /\ b \in Nodes
  BY <1>1
<1>4. reaches(c, a) /\ reaches(a, c) /\ reaches(c, b) /\ reaches(b, c)
  BY <1>1
<1> HIDE DEF reaches
<1>5. R[a] \subseteq R[c] /\ R[c] \subseteq R[a]
  BY <1>2, <1>3, <1>4
<1>6. R[b] \subseteq R[c] /\ R[c] \subseteq R[b]
  BY <1>2, <1>3, <1>4
<1> QED BY <1>5, <1>6

(* A node that receives copies from anonymous pointers at most, when these *)
(* receive none, is no part of a larger cycle.                             *)
LEMMA AloneInCycle ==
  ASSUME NEW E \in SUBSET Edge, NEW live \in SUBSET Nodes,
         \A e \in E : e[3] \notin AnonNodes,
         \A e \in E : e[1] = "copy" /\ e[3] \in GepNodes => e[2] \in AnonNodes,
         NEW scc \in SCCs(E, live), NEW x \in scc \cap Alone
  PROVE  scc = {x}
<1> DEFINE closed == ClosedSets(E)
           reaches(a, b) == \A S \in closed : a \in S => b \in S
<1>1. PICK c \in live : scc = {n \in live : reaches(c, n) /\ reaches(n, c)}
  BY DEF SCCs
<1>e. \A e \in E : e[2] \in Nodes /\ e[3] \in Nodes /\ e[3] \notin AnonNodes
  <2>1. \A e \in E : e \in Edge
    OBVIOUS
  <2> QED BY <2>1, EdgeFacts
<1>2. (Nodes \ AnonNodes) \in closed
  BY <1>e DEF ClosedSets
<1>3. \A n \in Nodes \cap AnonNodes : (Nodes \ (AnonNodes \ {n})) \in closed
  BY <1>e DEF ClosedSets
<1>4. \A g \in GepNodes : (Nodes \ (AnonNodes \cup {g})) \in closed
  BY <1>e DEF ClosedSets
<1>5. ASSUME NEW n \in scc PROVE n = x
  <2>0. n \in Nodes /\ x \in Nodes
    BY <1>1
  <2>1. reaches(n, x) /\ reaches(x, n)
    BY <1>1
  <2>2. CASE x \in AnonNodes
    <3>1. n \in AnonNodes
      BY <2>0, <2>1, <2>2, <1>2
    <3> QED BY <2>0, <2>1, <2>2, <3>1, <1>3
  <2>3. CASE x \in GepNodes
    <3>1. n \notin AnonNodes
      BY <2>0, <2>1, <2>3, <1>2, NodeFacts
    <3> QED BY <2>0, <2>1, <2>3, <3>1, <1>4
  <2> QED BY <2>2, <2>3 DEF Alone
<1> QED BY <1>5

(* What Holds says of each kind of edge.                                   *)
LEMMA HoldsFacts ==
  ASSUME NEW S, NEW e
  PROVE  /\ e[1] = "addr_of" => (Holds(S, e) <=> e[2] \in S[e[3]])
         /\ e[1] = "copy" => (Holds(S, e) <=> S[e[2]] \subseteq S[e[3]])
         /\ e[1] = "load" => (Holds(S, e) <=> \A o \in S[e[2]] : S[o] \subseteq S[e[3]])
         /\ e[1] = "store" => (Holds(S, e) <=> \A o \in S[e[3]] : S[e[2]] \subseteq S[o])
         /\ e[1] = "offset" => (Holds(S, e) <=>
              \A o \in S[e[2]] : IndexObject[e[3]][o] # NoObj
                                   => IndexObject[e[3]][o] \in S[e[3]])
BY DEF Holds

(* What is known of the program under analysis and of its solution.        *)
LEMMA ProgramFacts ==
  ASSUME prog \in ProgIds
  PROVE  /\ Program[prog].base \subseteq Constraint
         /\ \A c \in Calls : /\ c.fp \in Nodes
                            /\ c.fn \in ObjNodes
                            /\ c.cons \subseteq Constraint
         /\ Reference[prog] \in Assignment
         /\ \A o \in ObjNodes : Reference[prog][AnonNode(o)] = {o}
         /\ \A c \in Program[prog].base : Holds(Reference[prog], c)
         /\ \A call \in Calls : call.fn \in Reference[prog][call.fp] =>
                \A c \in call.cons : Holds(Reference[prog], c)
<1>1. IsProgram(Program[prog]) /\ Reference[prog] \in Assignment
      /\ IsSolution(Program[prog], Reference[prog])
  BY ProgramAssumption, ReferenceAssumption
<1> QED BY <1>1, NodeFacts DEF IsProgram, IsCall, IsSolution, Calls

(* The edge of a constraint that the solution satisfies is satisfied by    *)
(* it, between whatever super nodes the ends have by then.                 *)
LEMMA ConstraintEdge ==
  ASSUME NEW R \in Assignment, NEW rp \in [Nodes -> Nodes], NEW c \in Constraint,
         \A o \in ObjNodes : R[AnonNode(o)] = {o},
         \A n \in Nodes : R[rp[n]] = R[n],
         \A x \in Alone : \A n \in Nodes : rp[n] = x <=> n = x,
         Holds(R, c)
  PROVE  LET e == Redirected(rp, AsEdge(c))
         IN  e \in Edge /\ WellFormedEdge(e) /\ Holds(R, e)
<1> DEFINE d == AsEdge(c)
           e == Redirected(rp, d)
<1>1. /\ d \in Edge /\ e = <<d[1], rp[d[2]], rp[d[3]]>> /\ e \in Edge
      /\ d[3] \notin AnonNodes
      /\ d[1] \in {"load", "copy"} /\ d[3] \in GepNodes => d[2] \in AnonNodes /\ d[1] = "copy"
      /\ d[1] = "offset" => d[3] \in GepNodes
  BY RedirectedFacts
<1>2. Holds(R, d)
  <2>1. CASE c \in AddrOf
    <3>1. c = <<"addr_of", c[2], c[3]>> /\ c[2] \in ObjNodes
      BY <2>1 DEF AddrOf
    <3>2. d = <<"copy", AnonNode(c[2]), c[3]>>
      BY <3>1 DEF AsEdge
    <3>3. c[2] \in R[c[3]]
      BY <3>1, HoldsFacts
    <3>4. R[d[2]] \subseteq R[d[3]]
      BY <3>1, <3>2, <3>3
    <3> QED BY <3>2, <3>4, HoldsFacts
  <2>2. CASE c \notin AddrOf
    <3>1. c \in Edge
      BY <2>2 DEF Constraint
    <3>2. d = c
      BY <3>1, EdgeFacts DEF AsEdge, Kinds
    <3> QED BY <3>2
  <2> QED BY <2>1, <2>2
<1> HIDE DEF d
<1>3. d[1] \in Kinds /\ d[2] \in Nodes /\ d[3] \in Nodes
  BY <1>1, EdgeFacts
<1>4. e[1] = d[1] /\ e[2] = rp[d[2]] /\ e[3] = rp[d[3]]
  BY <1>1
<1>5. R[e[2]] = R[d[2]] /\ R[e[3]] = R[d[3]]
  BY <1>3, <1>4
<1>6. e[1] = "offset" => e[3] = d[3]
  BY <1>1, <1>3, <1>4 DEF Alone
<1> HIDE DEF e
<1>7. Holds(R, e)
  BY <1>2, <1>3, <1>4, <1>5, <1>6, HoldsFacts DEF Kinds
<1>8. WellFormedEdge(e)
  BY <1>1, <1>3, <1>4 DEF WellFormedEdge, Alone
<1> QED BY <1>1, <1>7, <1>8 DEF e, d

(* Sending a node's set along copies that R satisfies stays within R.      *)
LEMMA PropagatedFacts ==
  ASSUME NEW E \in SUBSET Edge, NEW R \in Assignment, NEW p \in Assignment,
         NEW n \in Nodes,
         \A m \in Nodes : p[m] \subseteq R[m],
         \A e \in E : e[1] = "copy" => R[e[2]] \subseteq R[e[3]]
  PROVE  /\ Propagated(E, p, n) \in Assignment
         /\ \A m \in Nodes : Propagated(E, p, n)[m] \subseteq R[m]
<1>1. ASSUME NEW m \in CopySucc(E, n) PROVE p[n] \subseteq R[m]
  <2>1. <<"copy", n, m>> \in E
    BY DEF CopySucc
  <2>2. R[n] \subseteq R[m]
    BY <2>1
  <2> QED BY <2>2
<1> QED BY <1>1 DEF Propagated, Assignment

(* The components of the copy edges split the nodes they are taken from.   *)
LEMMA ComponentFacts ==
  ASSUME NEW E, NEW live \in SUBSET Nodes
  PROVE  /\ \A scc \in SCCs(E, live) : scc \subseteq live
         /\ \A scc, other \in SCCs(E, live) : scc = other \/ scc \cap other = {}
         /\ live \subseteq UNION SCCs(E, live)
<1> DEFINE closed == ClosedSets(E)
           reaches(a, b) == \A S \in closed : a \in S => b \in S
           of(a) == {b \in live : reaches(a, b) /\ reaches(b, a)}
<1>1. SCCs(E, live) = {of(a) : a \in live}
  BY DEF SCCs
<1>2. \A a : reaches(a, a)
  OBVIOUS
<1>3. \A a, b, c : reaches(a, b) /\ reaches(b, c) => reaches(a, c)
  OBVIOUS
<1> HIDE DEF reaches
<1>4. \A scc \in SCCs(E, live) : scc \subseteq live
  BY <1>1
<1>5. live \subseteq UNION SCCs(E, live)
  <2> SUFFICES ASSUME NEW a \in live PROVE a \in of(a) /\ of(a) \in SCCs(E, live)
    OBVIOUS
  <2> QED BY <1>1, <1>2
<1>6. ASSUME NEW scc \in SCCs(E, live), NEW other \in SCCs(E, live), scc \cap other # {}
      PROVE  scc = other
  <2>1. PICK a \in live : scc = of(a)
    BY <1>1
  <2>2. PICK b \in live : other = of(b)
    BY <1>1
  <2>3. PICK c : c \in scc /\ c \in other
    BY <1>6
  <2>4. reaches(a, c) /\ reaches(c, a) /\ reaches(b, c) /\ reaches(c, b)
    BY <2>1, <2>2, <2>3
  <2>5. reaches(a, b) /\ reaches(b, a)
    BY <2>4, <1>3
  <2> QED BY <2>1, <2>2, <2>5, <1>3
<1> QED BY <1>4, <1>5, <1>6

(* After a cycle of live nodes has been collapsed, its super node and the  *)
(* live nodes outside of the cycle are live, and every super node is.      *)
LEMMA CollapsedReps ==
  ASSUME NEW rp \in [Nodes -> Nodes], \A n \in Nodes : rp[rp[n]] = rp[n],
         NEW scc \in SUBSET Nodes, \A n \in scc : rp[n] = n, NEW super \in scc
  PROVE  LET rq == CollapseReps(rp, scc, super) IN
         /\ rq \in [Nodes -> Nodes]
         /\ \A n \in Nodes : /\ rp[n] \in scc => rq[n] = super
                             /\ rp[n] \notin scc => rq[n] = rp[n]
         /\ \A n \in Nodes : rq[rq[n]] = rq[n]
         /\ \A n \in Nodes : rq[n] = n <=> (rp[n] = n /\ n \notin scc) \/ n = super
<1> DEFINE rq == CollapseReps(rp, scc, super)
<1>1. super \in Nodes /\ rp[super] = super /\ \A n \in scc : n \in Nodes /\ rp[n] = n
  OBVIOUS
<1>2. rq \in [Nodes -> Nodes] /\ \A n \in Nodes : rq[n] = IF rp[n] \in scc THEN super ELSE rp[n]
  BY <1>1 DEF CollapseReps
<1> HIDE DEF rq
<1>3. ASSUME NEW n \in Nodes PROVE rq[rq[n]] = rq[n]
  <2>1. rp[n] \in Nodes /\ rp[rp[n]] = rp[n]
    OBVIOUS
  <2> QED BY <1>1, <1>2, <2>1
<1>4. ASSUME NEW n \in Nodes
      PROVE  rq[n] = n <=> (rp[n] = n /\ n \notin scc) \/ n = super
  BY <1>1, <1>2
<1> QED BY <1>1, <1>2, <1>3, <1>4 DEF rq

(* No edge is lost when a cycle is collapsed, unless it has become a copy  *)
(* from the super node to itself.                                          *)
LEMMA MovedEdge ==
  ASSUME NEW E, NEW scc, NEW super, NEW f \in E
  PROVE  LET moved(n) == IF n \in scc THEN super ELSE n
             e == <<f[1], moved(f[2]), moved(f[3])>>
         IN  e \in CollapseEdges(E, scc, super) \/ SelfCopy(e)
BY DEF CollapseEdges

(* An inserted edge is there, unless it was a copy from a node to itself.  *)
LEMMA InsertedEdge ==
  ASSUME NEW E, NEW rp, NEW C, NEW c \in C
  PROVE  LET e == Redirected(rp, AsEdge(c))
         IN  e \in AddConstraints(E, rp, C) \/ SelfCopy(e)
BY DEF AddConstraints, NewEdges

(* Sets only grow when one is sent, and only those of successors do.       *)
LEMMA PropagatedGrows ==
  ASSUME NEW E, NEW p \in Assignment, NEW n \in Nodes
  PROVE  LET q == Propagated(E, p, n) IN
         \A m \in Nodes : /\ p[m] \subseteq q[m]
                          /\ m \in CopySucc(E, n) => p[n] \subseteq q[m]
                          /\ m \notin CopySucc(E, n) => q[m] = p[m]
BY DEF Propagated

=============================================================================
