------------------------- MODULE PartialUpdate_proofs -------------------------
(***************************************************************************)
(* PartialUpdateSolver never leaves a solution, its work lists only speak  *)
(* of nodes that exist and are all empty when runSolver ends, and it       *)
(* leaves no edge at a collapsed node.                                     *)
(***************************************************************************)
EXTENDS PartialUpdate, SolverBase_proofs

(* What the proofs use most.                                               *)
LEMMA Facts ==
  ASSUME Inv
  PROVE  /\ TypeOK /\ Shape /\ Sound /\ Placed /\ Known
         /\ rep \in [Nodes -> Nodes] /\ pts \in [Nodes -> SUBSET ObjNodes]
         /\ edges \in SUBSET Edge /\ Live \in SUBSET Nodes
         /\ Reference[prog] \in Assignment
         /\ \A n \in Nodes : rep[n] \in Live /\ rep[n] \in Nodes /\ rep[rep[n]] = rep[n]
         /\ \A n \in Live : n \in Nodes /\ rep[n] = n
         /\ \A n \in Nodes : pts[n] \subseteq ObjNodes /\ pts[n] \subseteq Reference[prog][n]
         /\ \A e \in edges : /\ e \in Edge /\ e = <<e[1], e[2], e[3]>> /\ e[1] \in Kinds
                             /\ e[2] \in Live /\ e[3] \in Live
                             /\ e[2] \in Nodes /\ e[3] \in Nodes
                             /\ e[1] = "copy" => Reference[prog][e[2]] \subseteq Reference[prog][e[3]]
<1>1. TypeOK /\ Shape /\ Sound /\ Placed /\ Known /\ EdgesAreLive
  BY DEF Inv, Placed
<1>2. Live \in SUBSET Nodes /\ \A n \in Live : n \in Nodes /\ rep[n] = n
  BY DEF Live
<1>3. rep \in [Nodes -> Nodes] /\ pts \in [Nodes -> SUBSET ObjNodes] /\ edges \in SUBSET Edge
  BY <1>1 DEF TypeOK, Assignment
<1>4. \A n \in Nodes : rep[n] \in Live /\ rep[n] \in Nodes /\ rep[rep[n]] = rep[n]
  BY <1>1, <1>2 DEF EdgesAreLive
<1>5. \A n \in Nodes : pts[n] \subseteq ObjNodes /\ pts[n] \subseteq Reference[prog][n]
  BY <1>1, <1>3 DEF Sound, WithinReference
<1>6. \A e \in edges : e \in Edge /\ e[2] \in Live /\ e[3] \in Live
  BY <1>1, <1>3 DEF EdgesAreLive
<1>7. \A e \in edges : e[1] = "copy" => Reference[prog][e[2]] \subseteq Reference[prog][e[3]]
  BY <1>1, HoldsFacts DEF Sound
<1>8. Reference[prog] \in Assignment
  BY <1>1, ProgramFacts DEF TypeOK
<1> QED BY <1>1, <1>2, <1>3, <1>4, <1>5, <1>6, <1>7, <1>8, EdgeFacts

(* What exists: an object together with its pointer, all that a node which *)
(* exists points to, and its super node.                                   *)
LEMMA ExistingFacts ==
  ASSUME Inv
  PROVE  /\ Existing \subseteq Nodes
         /\ \A n \in Existing : rep[n] \in Existing /\ pts[n] \subseteq Existing
         /\ \A o \in ObjNodes : o \in Existing <=> AnonNode(o) \in Existing
<1>1. TypeOK /\ Known
  BY DEF Inv
<1>2. Existing \subseteq Nodes
  BY <1>1 DEF TypeOK, Existing
<1>3. \A o \in ObjNodes : o \in Existing <=> AnonNode(o) \in Existing
  BY <1>1 DEF Known, Existing
<1>4. ASSUME NEW n \in Existing PROVE rep[n] \in Existing /\ pts[n] \subseteq Existing
  <2>1. n \in Nodes
    BY <1>2
  <2>2. rep[n] \in Existing
    BY <2>1, <1>1 DEF Known, Existing
  <2>3. pts[n] \subseteq ObjNodes
    BY <2>1, Facts
  <2>4. \A o \in pts[n] : o \in Existing \/ n = AnonNode(o)
    BY <2>1, <1>1 DEF Known
  <2> QED BY <2>2, <2>3, <2>4, <1>3
<1> QED BY <1>2, <1>3, <1>4

(* Creating the nodes of S creates the pointers of its objects only.       *)
LEMMA WithAnonFacts ==
  ASSUME NEW S \in SUBSET (PtrNodes \cup ObjNodes)
  PROVE  /\ S \subseteq WithAnon(S) /\ WithAnon(S) \subseteq Nodes
         /\ \A o \in ObjNodes : o \in WithAnon(S) <=> AnonNode(o) \in WithAnon(S)
<1>1. S \subseteq WithAnon(S)
  BY DEF WithAnon
<1>2. WithAnon(S) \subseteq Nodes
  BY NodeFacts DEF WithAnon
<1>3. ASSUME NEW o \in ObjNodes PROVE o \in WithAnon(S) <=> AnonNode(o) \in WithAnon(S)
  <2>1. o \in WithAnon(S) <=> o \in S
    BY NodesAssumption, NodeFacts DEF WithAnon
  <2>2. AnonNode(o) \notin S
    BY NodesAssumption, NodeFacts
  <2>3. \A p \in ObjNodes : AnonNode(p) = AnonNode(o) => p = o
    BY NodesAssumption DEF AnonNode
  <2> QED BY <2>1, <2>2, <2>3 DEF WithAnon
<1> QED BY <1>1, <1>2, <1>3

(* The constraints of a program mention pointers and objects; the ends of  *)
(* the edge of a constraint exist with what it mentions.                   *)
LEMMA MentionedFacts ==
  ASSUME NEW C \in SUBSET Constraint
  PROVE  /\ Mentioned(C) \subseteq PtrNodes \cup ObjNodes
         /\ \A c \in C : \A S : /\ Mentioned(C) \subseteq S
                                /\ \A o \in ObjNodes : o \in S => AnonNode(o) \in S
                                => AsEdge(c)[2] \in S /\ AsEdge(c)[3] \in S
<1>1. ASSUME NEW c \in C
      PROVE  /\ c[2] \in PtrNodes \cup ObjNodes /\ c[3] \in PtrNodes \cup ObjNodes
             /\ c[1] = "addr_of" => c[2] \in ObjNodes
  <2>1. c \in Constraint
    OBVIOUS
  <2>2. CASE c \in AddrOf
    BY <2>2 DEF AddrOf
  <2>3. CASE c \in Edge /\ c[2] \notin AnonNodes /\ c[3] \notin AnonNodes
    BY <2>3, EdgeFacts DEF Nodes, Kinds
  <2> QED BY <2>1, <2>2, <2>3 DEF Constraint
<1>2. Mentioned(C) \subseteq PtrNodes \cup ObjNodes
  BY <1>1 DEF Mentioned
<1>3. ASSUME NEW c \in C, NEW S, Mentioned(C) \subseteq S,
             \A o \in ObjNodes : o \in S => AnonNode(o) \in S
      PROVE  AsEdge(c)[2] \in S /\ AsEdge(c)[3] \in S
  <2>1. c[2] \in S /\ c[3] \in S
    BY <1>3 DEF Mentioned
  <2>2. CASE c[1] = "addr_of"
    BY <2>1, <2>2, <1>1, <1>3 DEF AsEdge
  <2>3. CASE c[1] # "addr_of"
    BY <2>1, <2>3 DEF AsEdge
  <2> QED BY <2>2, <2>3
<1> QED BY <1>2, <1>3

(* Nothing is reached but what is in every closed set around the roots.    *)
LEMMA ReachedInside ==
  ASSUME NEW E, NEW S \in SUBSET Nodes, NEW from \in SUBSET S,
         \A e \in E : e[1] = "copy" /\ e[2] \in S => e[3] \in S
  PROVE  ReachedFrom(E, from) \subseteq S
BY DEF ReachedFrom, ClosedSets
(***************************************************************************)
(* Edges that may be inserted.                                             *)
(***************************************************************************)

(* Between the super nodes of its ends, which are in S, k is an edge that  *)
(* the solution satisfies.                                                 *)
Insertable(k, S) ==
  LET d == AsEdge(k)
      e == Redirected(rep, d)
  IN  /\ d \in Edge /\ d[2] \in S /\ d[3] \in S
      /\ WellFormedEdge(e) /\ Holds(Reference[prog], e)

(* Constraints still to be added may be inserted, and can be read as they  *)
(* are, not between super nodes.                                           *)
LEMMA AddingFacts ==
  ASSUME Inv, NEW c \in adding
  PROVE  /\ Insertable(c, Existing)
         /\ AsEdge(c) \in Edge /\ WellFormedEdge(AsEdge(c))
         /\ Holds(Reference[prog], AsEdge(c))
         /\ AsEdge(c)[2] \in Existing /\ AsEdge(c)[3] \in Existing
<1> DEFINE R == Reference[prog]
           d == AsEdge(c)
           own == [n \in Nodes |-> n]
<1>1. TypeOK /\ Shape /\ Sound /\ Known
  BY DEF Inv
<1>2. c \in Constraint /\ adding \in SUBSET Constraint /\ Holds(R, c)
  BY <1>1 DEF TypeOK, Sound
<1>3. R \in Assignment /\ \A o \in ObjNodes : R[AnonNode(o)] = {o}
  BY <1>1, ProgramFacts DEF TypeOK
<1>4. d[2] \in Existing /\ d[3] \in Existing
  <2>1. Mentioned(adding) \subseteq Existing
    BY <1>1 DEF Known
  <2>2. \A o \in ObjNodes : o \in Existing => AnonNode(o) \in Existing
    BY ExistingFacts
  <2> QED BY <1>2, <2>1, <2>2, MentionedFacts
<1>5. d \in Edge
  <2>1. rep \in [Nodes -> Nodes]
    BY <1>1 DEF TypeOK
  <2> QED BY <1>2, <2>1, RedirectedFacts
<1>6. WellFormedEdge(Redirected(rep, d)) /\ Holds(R, Redirected(rep, d))
  <2>1. /\ rep \in [Nodes -> Nodes]
        /\ \A n \in Nodes : R[rep[n]] = R[n]
        /\ \A x \in Alone : \A n \in Nodes : rep[n] = x <=> n = x
    BY <1>1 DEF TypeOK, Sound, Shape
  <2> HIDE DEF R
  <2> QED BY <2>1, <1>2, <1>3, ConstraintEdge
<1>7. WellFormedEdge(d) /\ Holds(R, d)
  <2>1. /\ own \in [Nodes -> Nodes]
        /\ \A n \in Nodes : R[own[n]] = R[n]
        /\ \A x \in Alone : \A n \in Nodes : own[n] = x <=> n = x
    OBVIOUS
  <2>2. Redirected(own, d) = d
    BY <1>5, EdgeFacts DEF Redirected
  <2> HIDE DEF R, own
  <2>3. WellFormedEdge(Redirected(own, d)) /\ Holds(R, Redirected(own, d))
    BY <2>1, <1>2, <1>3, ConstraintEdge
  <2> QED BY <2>2, <2>3
<1> QED BY <1>4, <1>5, <1>6, <1>7 DEF Insertable

(* What an edge that the solution satisfies implies may be inserted; what  *)
(* is created for it are fields with their anonymous pointers.             *)
LEMMA ImpliedFacts ==
  ASSUME Inv, NEW d \in Edge, WellFormedEdge(d), Holds(Reference[prog], d),
         d[2] \in Existing, d[3] \in Existing
  PROVE  /\ CreatedBy(d) \subseteq Nodes \ created
         /\ \A o \in ObjNodes : o \in CreatedBy(d) <=> AnonNode(o) \in CreatedBy(d)
         /\ HandledBy(d) \subseteq GepNodes \X ObjNodes
         /\ d[1] = "offset" => /\ d[3] \in GepNodes
                               /\ NewFields(d) \subseteq ObjNodes
                               /\ NewFields(d) \subseteq Reference[prog][d[3]]
                               /\ NewFields(d) \subseteq created \cup CreatedBy(d)
         /\ \A k \in Implied(d) : k \in Edge /\ Insertable(k, Existing \cup CreatedBy(d))
<1> DEFINE R == Reference[prog]
<1>1. TypeOK /\ Shape /\ Sound /\ Known
  BY DEF Inv
<1>2. d[1] \in Kinds /\ d[2] \in Nodes /\ d[3] \in Nodes
  BY EdgeFacts
<1>3. R \in Assignment /\ \A o \in ObjNodes : R[AnonNode(o)] = {o}
  BY <1>1, ProgramFacts DEF TypeOK
<1>4. \A n \in Nodes : /\ rep[n] \in Nodes /\ rep[rep[n]] = rep[n] /\ R[rep[n]] = R[n]
                       /\ pts[n] \subseteq ObjNodes /\ pts[n] \subseteq R[n]
  BY <1>1, Facts DEF Sound
<1>5. \A n \in Existing : rep[n] \in Existing /\ pts[n] \subseteq Existing
  BY ExistingFacts
<1>6. ASSUME d[1] = "load", NEW k \in Implied(d)
      PROVE  k \in Edge /\ Insertable(k, Existing \cup CreatedBy(d))
  <2>1. PICK o \in pts[d[2]] : k = <<"copy", rep[o], d[3]>>
    BY <1>6 DEF Implied
  <2>2. o \in ObjNodes /\ o \in Existing /\ o \in Nodes /\ o \in R[d[2]]
    BY <1>2, <1>4, <1>5, NodeFacts
  <2>3. rep[o] \in Existing /\ rep[o] \in Nodes /\ rep[d[3]] \in Nodes
    BY <2>2, <1>2, <1>4, <1>5
  <2>4. AsEdge(k) = k /\ Redirected(rep, k) = <<"copy", rep[o], rep[d[3]]>>
    BY <2>1, <2>2, <1>4 DEF AsEdge, Redirected
  <2>5. R[o] \subseteq R[d[3]]
    BY <1>6, <2>2, HoldsFacts
  <2>6. R[rep[o]] \subseteq R[rep[d[3]]]
    BY <2>2, <2>5, <1>2, <1>4
  <2>7. rep[d[3]] \notin Alone
    BY <1>1, <1>2, <1>6 DEF WellFormedEdge, Alone, Shape
  <2>8. k \in Edge
    BY <2>1, <2>3, <1>2 DEF Edge, Kinds
  <2>9. WellFormedEdge(Redirected(rep, k)) /\ Holds(R, Redirected(rep, k))
    BY <2>4, <2>6, <2>7, HoldsFacts DEF WellFormedEdge, Alone
  <2> QED BY <2>1, <2>3, <2>4, <2>8, <2>9 DEF Insertable
<1>7. ASSUME d[1] = "store", NEW k \in Implied(d)
      PROVE  k \in Edge /\ Insertable(k, Existing \cup CreatedBy(d))
  <2>1. PICK o \in pts[d[3]] : k = <<"copy", d[2], rep[o]>>
    BY <1>7 DEF Implied
  <2>2. o \in ObjNodes /\ o \in Existing /\ o \in Nodes /\ o \in R[d[3]]
    BY <1>2, <1>4, <1>5, NodeFacts
  <2>3. rep[o] \in Existing /\ rep[o] \in Nodes /\ rep[d[2]] \in Nodes
    BY <2>2, <1>2, <1>4, <1>5
  <2>4. AsEdge(k) = k /\ Redirected(rep, k) = <<"copy", rep[d[2]], rep[o]>>
    BY <2>1, <2>2, <1>4 DEF AsEdge, Redirected
  <2>5. R[d[2]] \subseteq R[o]
    BY <1>7, <2>2, HoldsFacts
  <2>6. R[rep[d[2]]] \subseteq R[rep[o]]
    BY <2>2, <2>5, <1>2, <1>4
  <2>7. rep[o] \notin Alone
    BY <1>1, <2>2, NodeFacts DEF Shape
  <2>8. k \in Edge
    BY <2>1, <2>3, <1>2 DEF Edge, Kinds
  <2>9. WellFormedEdge(Redirected(rep, k)) /\ Holds(R, Redirected(rep, k))
    BY <2>4, <2>6, <2>7, HoldsFacts DEF WellFormedEdge, Alone
  <2> QED BY <2>1, <2>3, <2>4, <2>8, <2>9 DEF Insertable
<1>8. ASSUME d[1] = "offset"
      PROVE  /\ d[3] \in GepNodes
             /\ NewGEPs(d) \subseteq ObjNodes
             /\ NewFields(d) \subseteq ObjNodes
             /\ NewFields(d) \subseteq R[d[3]]
  <2>1. d[3] \in GepNodes
    BY <1>8 DEF WellFormedEdge
  <2>2. NewGEPs(d) \subseteq ObjNodes /\ NewGEPs(d) \subseteq R[d[2]]
    BY <1>2, <1>4 DEF NewGEPs
  <2>3. ASSUME NEW f \in NewFields(d) PROVE f \in ObjNodes /\ f \in R[d[3]]
    <3>1. PICK o \in NewGEPs(d) : f = IndexObject[d[3]][o] /\ f # NoObj
      BY DEF NewFields
    <3>2. o \in ObjNodes /\ o \in R[d[2]]
      BY <2>2
    <3>3. IndexObject[d[3]] \in [ObjNodes -> ObjNodes \cup {NoObj}]
      BY <2>1, NodesAssumption
    <3>4. f \in ObjNodes
      BY <3>1, <3>2, <3>3
    <3>5. f \in R[d[3]]
      BY <1>8, <3>1, <3>2, HoldsFacts
    <3> QED BY <3>4, <3>5
  <2> QED BY <2>1, <2>2, <2>3
<1>9. ASSUME d[1] = "offset", NEW k \in Implied(d)
      PROVE  k \in Edge /\ Insertable(k, Existing \cup CreatedBy(d))
  <2>1. PICK f \in NewFields(d) : k = <<"copy", AnonNode(f), d[3]>>
    BY <1>9 DEF Implied
  <2>2. f \in ObjNodes /\ f \in R[d[3]] /\ d[3] \in GepNodes
    BY <1>8, <1>9
  <2>3. AnonNode(f) \in AnonNodes /\ AnonNode(f) \in Nodes /\ d[3] \notin AnonNodes
    BY <2>2, NodeFacts
  <2>4. rep[AnonNode(f)] = AnonNode(f) /\ rep[d[3]] = d[3]
    BY <1>1, <1>2, <2>2, <2>3 DEF Shape, Alone
  <2>5. AsEdge(k) = k /\ Redirected(rep, k) = k
    BY <2>1, <2>4 DEF AsEdge, Redirected
  <2>6. R[AnonNode(f)] \subseteq R[d[3]]
    BY <2>2, <1>3
  <2>7. AnonNode(f) \in Existing \cup CreatedBy(d)
    BY <1>9, <2>1, <2>2 DEF CreatedBy, WithAnon, Existing
  <2>8. k \in Edge
    BY <2>1, <2>3, <1>2 DEF Edge, Kinds
  <2>9. WellFormedEdge(k) /\ Holds(R, k)
    BY <2>1, <2>3, <2>6, HoldsFacts DEF WellFormedEdge
  <2> QED BY <2>1, <2>5, <2>7, <2>8, <2>9 DEF Insertable
<1>10. \A k \in Implied(d) : k \in Edge /\ Insertable(k, Existing \cup CreatedBy(d))
  <2>1. d[1] = "copy" => Implied(d) = {}
    BY DEF Implied
  <2> QED BY <2>1, <1>2, <1>6, <1>7, <1>9 DEF Kinds
<1>11. /\ CreatedBy(d) \subseteq Nodes \ created
       /\ \A o \in ObjNodes : o \in CreatedBy(d) <=> AnonNode(o) \in CreatedBy(d)
       /\ HandledBy(d) \subseteq GepNodes \X ObjNodes
       /\ d[1] = "offset" => NewFields(d) \subseteq created \cup CreatedBy(d)
  <2>1. CASE d[1] = "offset"
    <3>1. NewFields(d) \in SUBSET (PtrNodes \cup ObjNodes)
      BY <1>8, <2>1
    <3>2. /\ NewFields(d) \subseteq WithAnon(NewFields(d)) /\ WithAnon(NewFields(d)) \subseteq Nodes
          /\ \A o \in ObjNodes : o \in WithAnon(NewFields(d)) <=> AnonNode(o) \in WithAnon(NewFields(d))
      BY <3>1, WithAnonFacts
    <3>3. \A o \in ObjNodes : o \in created <=> AnonNode(o) \in created
      BY <1>1 DEF Known
    <3>4. CreatedBy(d) = WithAnon(NewFields(d)) \ created
      BY <2>1 DEF CreatedBy
    <3>5. HandledBy(d) \subseteq GepNodes \X ObjNodes
      BY <2>1, <1>8 DEF HandledBy
    <3> QED BY <3>2, <3>3, <3>4, <3>5
  <2>2. CASE d[1] # "offset"
    BY <2>2 DEF CreatedBy, HandledBy
  <2> QED BY <2>1, <2>2
<1> QED BY <1>8, <1>10, <1>11

(* Inserting such edges keeps the graph in shape and within the solution.  *)
LEMMA GrowGraph ==
  ASSUME Inv, NEW S \in SUBSET Nodes, Existing \subseteq S, NEW C,
         \A k \in C : Insertable(k, S),
         edges' = edges \cup NewEdges(edges, rep, C),
         UNCHANGED <<prog, rep, pending>>, adding' \subseteq adding,
         \A n \in Nodes : pts'[n] \subseteq Reference[prog][n]
  PROVE  /\ edges' \subseteq Edge /\ Shape' /\ Sound' /\ EdgesAreLive'
         /\ \A e \in edges' : {e[2], e[3]} \subseteq S
<1> DEFINE R == Reference[prog]
<1>1. TypeOK /\ Shape /\ Sound /\ Placed /\ Known
  BY DEF Inv
<1>2. \A n \in S : n \in Nodes /\ rep[n] \in S
  <2>1. \A n \in Existing : rep[n] \in Existing
    BY ExistingFacts
  <2>2. \A n \in S \ Existing : rep[n] = n
    BY <1>1 DEF Known, Existing
  <2> QED BY <2>1, <2>2
<1>3. ASSUME NEW e \in NewEdges(edges, rep, C)
      PROVE  /\ e \in Edge /\ WellFormedEdge(e) /\ Holds(R, e)
             /\ {e[2], e[3]} \subseteq S /\ {e[2], e[3]} \subseteq Live
  <2>1. PICK k \in C : e = Redirected(rep, AsEdge(k))
    BY DEF NewEdges
  <2>2. /\ AsEdge(k) \in Edge /\ AsEdge(k)[2] \in S /\ AsEdge(k)[3] \in S
        /\ WellFormedEdge(e) /\ Holds(R, e)
    BY <2>1 DEF Insertable
  <2> DEFINE d == AsEdge(k)
  <2> HIDE DEF d
  <2>3. d \in Edge /\ d[2] \in S /\ d[3] \in S /\ e = Redirected(rep, d)
    BY <2>1, <2>2 DEF d
  <2>4. d[1] \in Kinds /\ d[2] \in Nodes /\ d[3] \in Nodes
    BY <2>3, EdgeFacts
  <2>5. e = <<d[1], rep[d[2]], rep[d[3]]>>
    BY <2>3 DEF Redirected
  <2>6. rep[d[2]] \in Live /\ rep[d[3]] \in Live /\ rep[d[2]] \in Nodes /\ rep[d[3]] \in Nodes
    BY <2>4, Facts
  <2>7. e \in Edge
    BY <2>4, <2>5, <2>6 DEF Edge
  <2>8. rep[d[2]] \in S /\ rep[d[3]] \in S
    BY <2>3, <1>2
  <2> QED BY <2>2, <2>5, <2>6, <2>7, <2>8
<1>4. ASSUME NEW e \in edges
      PROVE  /\ e \in Edge /\ WellFormedEdge(e) /\ Holds(R, e)
             /\ {e[2], e[3]} \subseteq S /\ {e[2], e[3]} \subseteq Live
  <2>1. {e[2], e[3]} \subseteq Existing
    BY <1>1 DEF Known
  <2> QED BY <2>1, <1>1 DEF TypeOK, Shape, Sound, Placed, EdgesAreLive
<1>5. \A e \in edges' : /\ e \in Edge /\ WellFormedEdge(e) /\ Holds(R, e)
                        /\ {e[2], e[3]} \subseteq S /\ {e[2], e[3]} \subseteq Live
  BY <1>3, <1>4
<1>6. Live' = Live
  BY DEF Live
<1>7. Shape'
  BY <1>1, <1>5 DEF Shape
<1>8. Sound'
  BY <1>1, <1>5 DEF Sound, WithinReference
<1>9. EdgesAreLive'
  BY <1>1, <1>5, <1>6 DEF Placed, EdgesAreLive
<1> QED BY <1>5, <1>7, <1>8, <1>9

(***************************************************************************)
(* The invariant holds initially.                                          *)
(***************************************************************************)
LEMMA InitInv == Init => Inv
<1> SUFFICES ASSUME Init PROVE Inv
  OBVIOUS
<1> DEFINE R == Reference[prog]
           base == Program[prog].base
<1>1. /\ SolverInit /\ created = InitialNodes /\ fresh = {} /\ copyWork = created
      /\ lsWork = created /\ targets = created /\ required = {} /\ todo = {}
      /\ adding = {} /\ pc = "round"
  BY DEF Init
<1>2. /\ prog \in ProgIds /\ rep = [n \in Nodes |-> n]
      /\ edges = AddConstraints({}, rep, base)
      /\ pts = [n \in Nodes |-> {o \in ObjNodes : AnonNode(o) = n}]
      /\ funPtrs = {} /\ resolved = {} /\ handled = {} /\ pending = {}
  BY <1>1 DEF SolverInit
<1>3. rep \in [Nodes -> Nodes] /\ \A n \in Nodes : rep[n] = n
  BY <1>2
<1>4. /\ base \subseteq Constraint /\ R \in Assignment
      /\ \A o \in ObjNodes : R[AnonNode(o)] = {o}
      /\ \A c \in base : Holds(R, c)
  BY <1>2, ProgramFacts
<1>5. /\ Mentioned(base) \subseteq created /\ created \subseteq Nodes
      /\ \A o \in ObjNodes : o \in created <=> AnonNode(o) \in created
  <2>1. Mentioned(base) \subseteq PtrNodes \cup ObjNodes
    BY <1>4, MentionedFacts
  <2> DEFINE fields == {IndexObject[g][o] : g \in GepNodes, o \in ObjNodes}
             later == fields \cup Mentioned(UNION {c.cons : c \in Calls})
             sooner == Mentioned(base) \cup {c.fn : c \in Calls}
             S == (PtrNodes \cup ObjNodes) \ (later \ sooner)
  <2>2. created = WithAnon(S)
    BY <1>1 DEF InitialNodes
  <2>3. Mentioned(base) \subseteq S
    BY <2>1
  <2>4. S \in SUBSET (PtrNodes \cup ObjNodes)
    OBVIOUS
  <2> HIDE DEF S
  <2> QED BY <2>2, <2>3, <2>4, WithAnonFacts
<1>6. ASSUME NEW e \in edges
      PROVE  e \in Edge /\ WellFormedEdge(e) /\ Holds(R, e) /\ {e[2], e[3]} \subseteq created
  <2>1. PICK c \in base : e = Redirected(rep, AsEdge(c))
    BY <1>2 DEF AddConstraints, NewEdges
  <2>2. c \in Constraint /\ Holds(R, c)
    BY <2>1, <1>4
  <2>3. e \in Edge /\ WellFormedEdge(e) /\ Holds(R, e)
    <3> HIDE DEF R
    <3> QED BY <2>1, <2>2, <1>3, <1>4, ConstraintEdge
  <2>4. AsEdge(c)[2] \in created /\ AsEdge(c)[3] \in created
    BY <1>4, <1>5, MentionedFacts
  <2>5. e[2] = rep[AsEdge(c)[2]] /\ e[3] = rep[AsEdge(c)[3]]
    BY <2>1 DEF Redirected
  <2> QED BY <2>3, <2>4, <2>5, <1>3, <1>5
<1>7. TypeOK
  <2>1. edges \subseteq Edge
    BY <1>6
  <2>2. pts \in Assignment
    BY <1>2 DEF Assignment
  <2> QED BY <1>1, <1>2, <1>3, <1>5, <2>1, <2>2 DEF TypeOK
<1>8. Shape
  BY <1>2, <1>3, <1>6 DEF Shape
<1>9. Sound
  <2>1. \A n \in Nodes : pts[n] \subseteq R[n]
    BY <1>2, <1>4
  <2> QED BY <1>1, <1>2, <1>3, <1>6, <2>1 DEF Sound, WithinReference
<1>10. Placed
  <2>1. \A n \in Nodes : n \in Live
    BY <1>3 DEF Live
  <2>2. \A e \in edges : e[2] \in Nodes /\ e[3] \in Nodes
    BY <1>5, <1>6
  <2> QED BY <1>1, <1>2, <1>3, <2>1, <2>2 DEF Placed, EdgesAreLive
<1>11. Known
  <2>1. \A n \in Nodes : \A o \in pts[n] : n = AnonNode(o)
    BY <1>2
  <2>2. Mentioned(adding) = {}
    BY <1>1 DEF Mentioned
  <2> QED BY <1>1, <1>3, <1>5, <1>6, <2>1, <2>2 DEF Known, Existing
<1> QED BY <1>1, <1>7, <1>8, <1>9, <1>10, <1>11 DEF Inv, WorkIsWalked, AllHandled

(***************************************************************************)
(* Every step preserves it: the wave.                                      *)
(***************************************************************************)
LEMMA BeginRoundInv == Inv /\ BeginRound => Inv'
<1> SUFFICES ASSUME Inv, BeginRound PROVE Inv'
  OBVIOUS
<1> DEFINE R == Reference[prog]
           from == copyWork \cap Live
           walked == ReachedFrom(edges, from)
<1>1. TypeOK /\ Shape /\ Sound /\ Placed /\ Known
  BY DEF Inv
<1>2. /\ pc = "round" /\ pc' = "wave" /\ pending' = SCCs(edges, walked)
      /\ UNCHANGED <<prog, edges, rep, pts, funPtrs, resolved, handled, created, fresh,
                     copyWork, lsWork, targets, required, todo, adding>>
  BY DEF BeginRound, graphVars, callVars, workLists
<1>3. fresh = {} /\ Existing = created
  BY <1>1, <1>2 DEF Placed, Existing
<1>4. walked \subseteq Live \cap created
  <2>1. Live \cap created \in SUBSET Nodes
    BY DEF Live
  <2>2. from \in SUBSET (Live \cap created)
    BY <1>1 DEF TypeOK
  <2>3. \A e \in edges : e[3] \in Live \cap created
    BY <1>1, <1>3 DEF Placed, EdgesAreLive, Known
  <2> HIDE DEF from
  <2> QED BY <2>1, <2>2, <2>3, ReachedInside
<1>5. /\ \A scc \in pending' : scc \subseteq walked
      /\ \A scc, other \in pending' : scc = other \/ scc \cap other = {}
  <2>1. walked \in SUBSET Nodes
    BY <1>4 DEF Live
  <2> HIDE DEF walked
  <2> QED BY <2>1, <1>2, ComponentFacts
<1>6. walked \in SUBSET Nodes /\ edges \in SUBSET Edge /\ R \in Assignment
  BY <1>4, Facts
<1> HIDE DEF walked
<1>7. ASSUME NEW scc \in pending', NEW a \in scc, NEW b \in scc
      PROVE  R[a] = R[b]
  <2>1. \A e \in edges : e[1] = "copy" => R[e[2]] \subseteq R[e[3]]
    BY Facts
  <2> HIDE DEF R
  <2> QED BY <2>1, <1>2, <1>6, CycleAgrees
<1>8. ASSUME NEW scc \in pending', NEW x \in scc \cap Alone
      PROVE  scc = {x}
  <2>1. \A e \in edges : /\ e[3] \notin AnonNodes
                         /\ e[1] = "copy" /\ e[3] \in GepNodes => e[2] \in AnonNodes
    BY <1>1 DEF Shape, WellFormedEdge
  <2> QED BY <2>1, <1>2, <1>6, AloneInCycle
<1>9. TypeOK'
  <2>1. pending' \subseteq SUBSET created
    BY <1>4, <1>5
  <2> QED BY <1>1, <1>2, <2>1 DEF TypeOK, Calls
<1>10. Shape'
  BY <1>1, <1>2, <1>8 DEF Shape
<1>11. Sound'
  BY <1>1, <1>2, <1>7 DEF Sound, WithinReference
<1>12. Placed'
  <2>1. Live' = Live
    BY <1>2 DEF Live
  <2>2. \A scc \in pending' : scc \subseteq Live'
    BY <1>4, <1>5, <2>1
  <2>3. EdgesAreLive'
    BY <1>1, <1>2, <2>1 DEF Placed, EdgesAreLive
  <2> QED BY <1>1, <1>2, <1>5, <2>2, <2>3 DEF Placed
<1>13. Known'
  BY <1>1, <1>2 DEF Known, Existing
<1> QED BY <1>2, <1>9, <1>10, <1>11, <1>12, <1>13 DEF Inv, WorkIsWalked, AllHandled

LEMMA PropagateNodeInv ==
  ASSUME Inv, NEW n \in Nodes, PropagateNode(n) PROVE Inv'
<1> DEFINE R == Reference[prog]
           processed == {<<"copy", n, m>> : m \in {k \in CopySucc(edges, n) : ShouldProcessCopy(n, k)}}
           q == Propagated(processed, pts, n)
<1>1. TypeOK /\ Shape /\ Sound /\ Placed /\ Known
  BY DEF Inv
<1>2. /\ pc = "wave" /\ {n} \in pending /\ pts' = q
      /\ lsWork' = lsWork \cup Grown(pts')
      /\ funPtrs' = funPtrs \cup GrownFunPtrs(rep, pts')
      /\ pending' = pending \ {{n}}
      /\ UNCHANGED <<prog, edges, rep, resolved, handled, created, fresh, copyWork, targets,
                     required, todo, adding, pc>>
  BY DEF PropagateNode, graphVars
<1>3. fresh = {} /\ Existing = created
  BY <1>1, <1>2 DEF Placed, Existing
<1>4. n \in created
  BY <1>1, <1>2 DEF TypeOK
<1>5. processed \subseteq edges /\ \A m \in CopySucc(processed, n) : m \in created
  <2>1. processed \subseteq edges
    BY DEF CopySucc
  <2>2. ASSUME NEW m \in CopySucc(processed, n) PROVE m \in created
    <3>1. <<"copy", n, m>> \in edges
      BY <2>1 DEF CopySucc
    <3>2. {<<"copy", n, m>>[2], <<"copy", n, m>>[3]} \subseteq Existing
      BY <3>1, <1>1 DEF Known
    <3> QED BY <3>2, <1>3
  <2> QED BY <2>1, <2>2
<1> HIDE DEF processed
<1>6. pts \in Assignment /\ q \in Assignment /\ \A m \in Nodes : q[m] \subseteq R[m]
  <2>1. pts \in Assignment /\ processed \in SUBSET Edge /\ R \in Assignment
    BY <1>1, <1>5, Facts DEF TypeOK
  <2>2. \A e \in processed : e[1] = "copy" => R[e[2]] \subseteq R[e[3]]
    BY <1>5, Facts
  <2>3. \A m \in Nodes : pts[m] \subseteq R[m]
    BY Facts
  <2> HIDE DEF R
  <2> QED BY <2>1, <2>2, <2>3, PropagatedFacts
<1>7. \A m \in Nodes : /\ m \notin created => q[m] = pts[m]
                       /\ \A o \in q[m] : o \in created \/ m = AnonNode(o)
  <2>1. ASSUME NEW m \in Nodes, m \notin CopySucc(processed, n)
        PROVE  q[m] = pts[m]
    BY <2>1, <1>6, PropagatedGrows
  <2>2. ASSUME NEW m \in Nodes, m \in CopySucc(processed, n)
        PROVE  q[m] = pts[m] \cup pts[n]
    BY <2>2 DEF Propagated
  <2>3. pts[n] \subseteq created
    BY <1>3, <1>4, ExistingFacts
  <2>4. \A m \in Nodes : \A o \in pts[m] : o \in created \/ m = AnonNode(o)
    BY <1>1, <1>3 DEF Known
  <2> HIDE DEF q
  <2> QED BY <2>1, <2>2, <2>3, <2>4, <1>5
<1> HIDE DEF q
<1>8. TypeOK'
  <2>1. Grown(pts') \subseteq created /\ GrownFunPtrs(rep, pts') \subseteq created
    BY <1>2, <1>7 DEF Grown, GrownFunPtrs
  <2>2. /\ funPtrs' \subseteq created /\ lsWork' \subseteq created
        /\ pending' \subseteq SUBSET created
    BY <1>1, <1>2, <2>1 DEF TypeOK
  <2> QED BY <1>1, <1>2, <1>6, <2>2 DEF TypeOK, Calls
<1>9. Shape'
  BY <1>1, <1>2 DEF Shape
<1>10. Sound'
  BY <1>1, <1>2, <1>6 DEF Sound, WithinReference
<1>11. Placed'
  <2>1. Live' = Live
    BY <1>2 DEF Live
  <2>2. EdgesAreLive'
    BY <1>1, <1>2, <2>1 DEF Placed, EdgesAreLive
  <2> QED BY <1>1, <1>2, <2>1, <2>2 DEF Placed
<1>12. Known'
  BY <1>1, <1>2, <1>3, <1>7 DEF Known, Existing
<1> QED BY <1>2, <1>8, <1>9, <1>10, <1>11, <1>12 DEF Inv, WorkIsWalked, AllHandled

LEMMA EndWaveInv == Inv /\ EndWave => Inv'
<1> SUFFICES ASSUME Inv, EndWave PROVE Inv'
  OBVIOUS
<1>1. TypeOK /\ Shape /\ Sound /\ Placed /\ Known
  BY DEF Inv
<1>2. /\ pc = "wave" /\ pc' = "edges" /\ pending = {}
      /\ copyWork' = {} /\ lsWork' = {} /\ targets' = {} /\ required' = {}
      /\ todo' = {e \in edges : e[1] # "copy" /\ Visited(e) \in lsWork}
      /\ UNCHANGED <<prog, edges, rep, pts, funPtrs, resolved, handled, pending, created,
                     fresh, adding>>
  BY DEF EndWave, graphVars, callVars
<1>3. Existing = created
  BY <1>1, <1>2 DEF Placed, Existing
<1>4. TypeOK'
  BY <1>1, <1>2 DEF TypeOK, Calls
<1>5. Shape'
  BY <1>1, <1>2 DEF Shape
<1>6. Sound'
  BY <1>1, <1>2 DEF Sound, WithinReference
<1>7. Placed'
  <2>1. Live' = Live
    BY <1>2 DEF Live
  <2>2. EdgesAreLive'
    BY <1>1, <1>2, <2>1 DEF Placed, EdgesAreLive
  <2> QED BY <1>1, <1>2, <2>2 DEF Placed
<1>8. Known'
  <2>1. \A e \in todo' : {e[2], e[3]} \subseteq created
    BY <1>1, <1>2, <1>3 DEF Known
  <2> QED BY <2>1, <1>1, <1>2 DEF Known, Existing
<1> QED BY <1>2, <1>4, <1>5, <1>6, <1>7, <1>8 DEF Inv, WorkIsWalked, AllHandled

(* Collapsing a cycle: its nodes agree in every solution, exist, and are   *)
(* neither anonymous nor getelementptr pointers.                           *)
LEMMA CollapseCycleInv ==
  ASSUME Inv, NEW scc \in pending, NEW super \in scc, CollapseCycle(scc, super)
  PROVE  Inv'
<1> DEFINE R == Reference[prog]
           union == UNION {pts[m] : m \in scc}
           merged == [n \in Nodes |-> IF n = super THEN union
                                      ELSE IF n \in scc THEN {} ELSE pts[n]]
           q == Propagated(edges', merged, super)
<1>1. TypeOK /\ Shape /\ Sound /\ Placed /\ Known
  BY DEF Inv
<1>2. /\ pc = "wave" /\ scc # {super}
      /\ rep' = CollapseReps(rep, scc, super)
      /\ edges' = CollapseEdges(edges, scc, super)
      /\ pts' = q
      /\ funPtrs' = funPtrs \cup GrownFunPtrs(rep', pts')
                      \cup {n \in {super} : IsFunctionPtr(rep', n)}
      /\ lsWork' = lsWork \cup {super} \cup Grown(pts')
      /\ targets' \subseteq targets \cup {super}
      /\ pending' = pending \ {scc}
      /\ UNCHANGED <<prog, resolved, handled, created, fresh, copyWork, required, todo,
                     adding, pc>>
  BY DEF CollapseCycle
<1>3. fresh = {} /\ Existing = created /\ todo = {}
  BY <1>1, <1>2 DEF Placed, Existing
<1>4. /\ scc \subseteq created /\ scc \in SUBSET Nodes /\ super \in Nodes /\ super \in created
      /\ scc \subseteq Live /\ scc \cap Alone = {}
      /\ \A n \in scc : R[n] = R[super]
  BY <1>1, <1>2 DEF TypeOK, Placed, Shape, Sound
<1>5. R \in Assignment /\ edges \in SUBSET Edge
  BY Facts
<1>6. /\ rep' \in [Nodes -> Nodes]
      /\ \A n \in Nodes : /\ rep[n] \in scc => rep'[n] = super
                          /\ rep[n] \notin scc => rep'[n] = rep[n]
      /\ \A n \in Nodes : rep'[rep'[n]] = rep'[n]
      /\ \A n \in Nodes : rep'[n] = n <=> (rep[n] = n /\ n \notin scc) \/ n = super
  <2>1. rep \in [Nodes -> Nodes] /\ \A n \in Nodes : rep[rep[n]] = rep[n]
    BY Facts
  <2>2. \A n \in scc : rep[n] = n
    BY <1>4 DEF Live
  <2>3. rep' = CollapseReps(rep, scc, super) /\ scc \in SUBSET Nodes
    BY <1>2, <1>4
  <2> QED BY <2>1, <2>2, <2>3, CollapsedReps
<1>7. ASSUME NEW n \in Nodes
      PROVE  /\ R[rep'[n]] = R[n]
             /\ \A x \in Alone : rep'[n] = x <=> n = x
  <2>1. R[rep[n]] = R[n] /\ \A x \in Alone : rep[n] = x <=> n = x
    BY <1>1 DEF Sound, Shape
  <2> QED BY <2>1, <1>4, <1>6
<1>8. ASSUME NEW e \in edges'
      PROVE  /\ e \in Edge /\ WellFormedEdge(e) /\ Holds(R, e)
             /\ {e[2], e[3]} \subseteq created
             /\ rep'[e[2]] = e[2] /\ rep'[e[3]] = e[3]
  <2>1. e \in Edge
    BY <1>2, <1>4, <1>5, CollapseFacts
  <2>2. PICK f \in edges : /\ e[1] = f[1]
                           /\ e[2] = IF f[2] \in scc THEN super ELSE f[2]
                           /\ e[3] = IF f[3] \in scc THEN super ELSE f[3]
    BY <1>2, <1>4, <1>5, CollapseFacts
  <2>3. f \in Edge /\ WellFormedEdge(f) /\ Holds(R, f) /\ {f[2], f[3]} \subseteq created
        /\ f[2] \in Nodes /\ f[3] \in Nodes /\ rep[f[2]] = f[2] /\ rep[f[3]] = f[3]
    BY <1>1, <1>3, Facts DEF Shape, Sound, Known
  <2>4. R[e[2]] = R[f[2]] /\ R[e[3]] = R[f[3]]
    BY <2>2, <1>4
  <2>5. e[1] = "offset" => e[3] = f[3]
    BY <2>2, <2>3, <1>4 DEF WellFormedEdge, Alone
  <2>6. Holds(R, e)
    BY <2>1, <2>2, <2>3, <2>4, <2>5, EdgeFacts, HoldsFacts DEF Kinds
  <2>7. WellFormedEdge(e)
    BY <2>2, <2>3, <1>4 DEF WellFormedEdge, Alone
  <2>8. {e[2], e[3]} \subseteq created
    BY <2>2, <2>3, <1>4
  <2>9. rep'[e[2]] = e[2] /\ rep'[e[3]] = e[3]
    BY <2>2, <2>3, <1>4, <1>6
  <2> QED BY <2>1, <2>6, <2>7, <2>8, <2>9
<1>9. union \subseteq R[super] /\ union \subseteq ObjNodes /\ union \subseteq created
  <2>1. \A n \in scc : pts[n] \subseteq R[super] /\ pts[n] \subseteq ObjNodes
    BY <1>4, Facts
  <2>2. \A n \in scc : pts[n] \subseteq created
    BY <1>3, <1>4, ExistingFacts
  <2> HIDE DEF R
  <2> QED BY <2>1, <2>2
<1> HIDE DEF union
<1>10. merged \in Assignment /\ \A m \in Nodes : merged[m] \subseteq R[m]
  <2>1. pts \in Assignment /\ \A m \in Nodes : pts[m] \subseteq R[m]
    BY <1>1, Facts DEF TypeOK
  <2> HIDE DEF R
  <2> QED BY <2>1, <1>9 DEF Assignment
<1>11. /\ merged[super] = union
       /\ \A m \in Nodes \ scc : merged[m] = pts[m]
       /\ \A m \in scc \ {super} : merged[m] = {}
  BY <1>4
<1> HIDE DEF merged
<1>12. edges' \in SUBSET Edge /\ \A m \in CopySucc(edges', super) : m \in created
  <2>1. edges' \in SUBSET Edge
    BY <1>8
  <2>2. ASSUME NEW m \in CopySucc(edges', super) PROVE m \in created
    <3>1. <<"copy", super, m>> \in edges'
      BY DEF CopySucc
    <3>2. {<<"copy", super, m>>[2], <<"copy", super, m>>[3]} \subseteq created
      BY <3>1, <1>8
    <3> QED BY <3>2
  <2> QED BY <2>1, <2>2
<1>13. q \in Assignment /\ \A m \in Nodes : q[m] \subseteq R[m]
  <2>1. \A e \in edges' : e[1] = "copy" => R[e[2]] \subseteq R[e[3]]
    BY <1>8, HoldsFacts
  <2> HIDE DEF R
  <2> QED BY <2>1, <1>4, <1>5, <1>10, <1>12, PropagatedFacts
<1>14. \A m \in Nodes : /\ m \notin created => q[m] = pts[m]
                        /\ \A o \in q[m] : o \in created \/ m = AnonNode(o)
  <2>1. ASSUME NEW m \in Nodes, m \notin CopySucc(edges', super)
        PROVE  q[m] = merged[m]
    BY <2>1, <1>4, <1>10, PropagatedGrows
  <2>2. ASSUME NEW m \in Nodes, m \in CopySucc(edges', super)
        PROVE  q[m] = merged[m] \cup union
    BY <2>2, <1>11 DEF Propagated
  <2>3. \A m \in Nodes : \A o \in pts[m] : o \in created \/ m = AnonNode(o)
    BY <1>1, <1>3 DEF Known
  <2>4. \A m \in Nodes : /\ \A o \in merged[m] : o \in created \/ m = AnonNode(o)
                         /\ m \notin created => merged[m] = pts[m]
    BY <2>3, <1>4, <1>9, <1>11
  <2> HIDE DEF q
  <2> QED BY <2>1, <2>2, <2>4, <1>9, <1>12
<1> HIDE DEF q
<1>15. TypeOK'
  <2>1. Grown(pts') \subseteq created /\ GrownFunPtrs(rep', pts') \subseteq created
    BY <1>2, <1>14 DEF Grown, GrownFunPtrs
  <2>2. /\ funPtrs' \subseteq created /\ lsWork' \subseteq created /\ targets' \subseteq created
        /\ pending' \subseteq SUBSET created /\ todo' \subseteq edges'
    BY <1>1, <1>2, <1>3, <1>4, <2>1 DEF TypeOK
  <2> QED BY <1>1, <1>2, <1>6, <1>12, <1>13, <2>2 DEF TypeOK, Calls
<1>16. Shape'
  BY <1>1, <1>2, <1>7, <1>8 DEF Shape
<1>17. Sound'
  <2>1. \A c \in adding : Holds(R, c)
    BY <1>1 DEF Sound
  <2> QED BY <1>1, <1>2, <1>7, <1>8, <1>13, <2>1 DEF Sound, WithinReference
<1>18. Placed'
  <2>1. \A n \in Nodes : n \in Live' <=> (n \in Live /\ n \notin scc) \/ n = super
    BY <1>6 DEF Live
  <2>2. \A n \in Nodes : rep'[n] \in Live'
    BY <1>6 DEF Live
  <2>3. \A e \in edges' : {e[2], e[3]} \subseteq Live'
    <3> TAKE e \in edges'
    <3>1. e[2] \in Nodes /\ e[3] \in Nodes
      BY <1>12, EdgeFacts
    <3> QED BY <3>1, <1>8 DEF Live
  <2>4. \A other \in pending' : other \subseteq Live'
    <3> TAKE other \in pending'
    <3>1. other \in pending /\ other \cap scc = {} /\ other \subseteq Live
      BY <1>1, <1>2 DEF Placed
    <3> QED BY <3>1, <2>1 DEF Live
  <2> QED BY <1>1, <1>2, <2>2, <2>3, <2>4 DEF Placed, EdgesAreLive
<1>19. Known'
  <2>1. \A n \in created : rep'[n] \in created
    BY <1>1, <1>4, <1>6 DEF Known, TypeOK
  <2>2. \A n \in Nodes \ created : rep'[n] = n
    BY <1>1, <1>4, <1>6 DEF Known
  <2> QED BY <1>1, <1>2, <1>3, <1>8, <1>14, <2>1, <2>2 DEF Known, Existing
<1> QED BY <1>2, <1>15, <1>16, <1>17, <1>18, <1>19 DEF Inv, WorkIsWalked, AllHandled

(***************************************************************************)
(* Loads, stores and offsets.                                              *)
(***************************************************************************)

(* What has been recorded only grows, and if anything has been recorded,   *)
(* its source is to be walked or new.                                      *)
LEMMA RecordFacts ==
  ASSUME TypeOK, NEW new \in SUBSET (Existing \X Existing), Existing \subseteq Nodes,
         RecordCopies(new), created' = created
  PROVE  /\ copyWork' \subseteq created /\ targets' \subseteq created
         /\ required' \subseteq Nodes \X Nodes
         /\ copyWork \subseteq copyWork'
         /\ \/ new = {} /\ targets' = targets /\ required' = required
            \/ copyWork' \cup fresh # {}
<1>1. /\ copyWork' = copyWork \cup ({p[1] : p \in new} \cap created)
      /\ targets' = targets \cup ({p[2] : p \in new} \cap created)
      /\ required' = required \cup new
  BY DEF RecordCopies
<1>2. /\ copyWork' \subseteq created /\ targets' \subseteq created
      /\ required' \subseteq Nodes \X Nodes /\ copyWork \subseteq copyWork'
  BY <1>1 DEF TypeOK
<1>3. CASE new = {}
  BY <1>1, <1>2, <1>3
<1>4. CASE new # {}
  <2>1. PICK p \in new : TRUE
    BY <1>4
  <2>2. p[1] \in Existing
    OBVIOUS
  <2>3. p[1] \in copyWork' \/ p[1] \in fresh
    BY <1>1, <2>1, <2>2 DEF Existing
  <2> QED BY <1>2, <2>3
<1> QED BY <1>3, <1>4

LEMMA HandleLoadOrStoreInv ==
  ASSUME Inv, NEW e \in todo, HandleLoadOrStore(e) PROVE Inv'
<1> DEFINE R == Reference[prog]
           new == NewEdges(edges, rep, Implied(e))
<1>1. TypeOK /\ Shape /\ Sound /\ Placed /\ Known /\ WorkIsWalked
  BY DEF Inv
<1>2. /\ pc = "edges" /\ e[1] # "offset"
      /\ edges' = edges \cup new
      /\ RecordCopies(Ends(new))
      /\ todo' = todo \ {e}
      /\ UNCHANGED <<prog, rep, pts, funPtrs, resolved, handled, pending, created, fresh,
                     lsWork, adding, pc>>
  BY DEF HandleLoadOrStore, callVars
<1>3. e \in edges /\ e \in Edge /\ WellFormedEdge(e) /\ Holds(R, e)
      /\ e[2] \in Existing /\ e[3] \in Existing
  BY <1>1 DEF TypeOK, Shape, Sound, Known
<1>4. \A k \in Implied(e) : Insertable(k, Existing)
  <2>1. Existing \cup CreatedBy(e) = Existing
    BY <1>2 DEF CreatedBy
  <2>2. \A k \in Implied(e) : Insertable(k, Existing \cup CreatedBy(e))
    BY <1>3, ImpliedFacts
  <2> QED BY <2>1, <2>2
<1>5. Existing \in SUBSET Nodes /\ Existing' = Existing
  BY <1>2, ExistingFacts DEF Existing
<1>6. \A n \in Nodes : pts'[n] \subseteq R[n]
  BY <1>2, Facts
<1>7. /\ edges' \subseteq Edge /\ Shape' /\ Sound' /\ EdgesAreLive'
      /\ \A f \in edges' : {f[2], f[3]} \subseteq Existing
  <2>1. UNCHANGED <<prog, rep, pending>> /\ adding' \subseteq adding
    BY <1>2
  <2> DEFINE C == Implied(e)
  <2>2. edges' = edges \cup NewEdges(edges, rep, C) /\ \A k \in C : Insertable(k, Existing)
    BY <1>2, <1>4
  <2> HIDE DEF C
  <2> QED BY <2>1, <2>2, <1>5, <1>6, GrowGraph
<1> HIDE DEF new
<1>8. Ends(new) \in SUBSET (Existing \X Existing)
  BY <1>2, <1>7 DEF Ends
<1>9. /\ copyWork' \subseteq created /\ targets' \subseteq created
      /\ required' \subseteq Nodes \X Nodes
      /\ copyWork \subseteq copyWork'
      /\ \/ targets' = targets /\ required' = required
         \/ copyWork' \cup fresh # {}
  BY <1>1, <1>2, <1>5, <1>8, RecordFacts
<1>10. TypeOK'
  BY <1>1, <1>2, <1>7, <1>9 DEF TypeOK, Calls
<1>11. Placed'
  <2>1. Live' = Live
    BY <1>2 DEF Live
  <2> QED BY <1>1, <1>2, <1>7, <2>1 DEF Placed
<1>12. Known'
  BY <1>1, <1>2, <1>5, <1>7 DEF Known, Existing
<1>13. WorkIsWalked'
  BY <1>1, <1>2, <1>9 DEF WorkIsWalked
<1> QED BY <1>2, <1>7, <1>10, <1>11, <1>12, <1>13 DEF Inv, AllHandled

LEMMA HandleOffsetInv ==
  ASSUME Inv, NEW e \in todo, HandleOffset(e) PROVE Inv'
<1> DEFINE R == Reference[prog]
           g == e[3]
           fields == NewFields(e)
           S == Existing \cup CreatedBy(e)
<1>1. TypeOK /\ Shape /\ Sound /\ Placed /\ Known /\ WorkIsWalked
  BY DEF Inv
<1>2. /\ pc = "edges" /\ e[1] = "offset"
      /\ edges' = edges \cup NewEdges(edges, rep, Implied(e))
      /\ pts' = [pts EXCEPT ![g] = @ \cup fields]
      /\ copyWork' = copyWork \cup Grown(pts')
      /\ lsWork' = lsWork \cup Grown(pts')
      /\ handled' = handled \cup HandledBy(e)
      /\ fresh' = fresh \cup CreatedBy(e)
      /\ todo' = todo \ {e}
      /\ UNCHANGED <<prog, rep, funPtrs, resolved, pending, created, targets, required,
                     adding, pc>>
  BY DEF HandleOffset, AddConstraints, callVars
<1>3. /\ e \in edges /\ e \in Edge /\ WellFormedEdge(e) /\ Holds(R, e)
      /\ e[2] \in Existing /\ g \in Existing /\ g \in created /\ g \in Nodes
  BY <1>1 DEF TypeOK, Shape, Sound, Known, Existing
<1>4. /\ CreatedBy(e) \subseteq Nodes \ created
      /\ \A o \in ObjNodes : o \in CreatedBy(e) <=> AnonNode(o) \in CreatedBy(e)
      /\ HandledBy(e) \subseteq GepNodes \X ObjNodes
      /\ g \in GepNodes
      /\ fields \subseteq ObjNodes
      /\ fields \subseteq R[g]
      /\ fields \subseteq created \cup CreatedBy(e)
      /\ \A k \in Implied(e) : Insertable(k, S)
  BY <1>2, <1>3, ImpliedFacts
<1> HIDE DEF fields
<1>5. Existing \subseteq S /\ Existing' = S /\ S \in SUBSET Nodes
  BY <1>2, <1>4, ExistingFacts DEF Existing
<1> HIDE DEF S
<1>6. /\ pts' \in Assignment
      /\ pts'[g] = pts[g] \cup fields /\ \A n \in Nodes \ {g} : pts'[n] = pts[n]
  BY <1>1, <1>2, <1>3, <1>4 DEF TypeOK, Assignment
<1>7. \A n \in Nodes : pts'[n] \subseteq R[n]
  BY <1>4, <1>6, Facts
<1>8. /\ edges' \subseteq Edge /\ Shape' /\ Sound' /\ EdgesAreLive'
      /\ \A f \in edges' : {f[2], f[3]} \subseteq S
  <2>1. UNCHANGED <<prog, rep, pending>> /\ adding' \subseteq adding
    BY <1>2
  <2> DEFINE C == Implied(e)
  <2>2. edges' = edges \cup NewEdges(edges, rep, C) /\ \A k \in C : Insertable(k, S)
    BY <1>2, <1>4
  <2> HIDE DEF C, R
  <2>3. \A n \in Nodes : pts'[n] \subseteq Reference[prog][n]
    BY <1>7 DEF R
  <2> QED BY <2>1, <2>2, <2>3, <1>5, GrowGraph
<1>9. Grown(pts') \subseteq created
  BY <1>3, <1>6 DEF Grown
<1>10. TypeOK'
  <2>1. fresh' \subseteq Nodes \ created
    BY <1>1, <1>2, <1>4 DEF TypeOK
  <2>2. copyWork' \subseteq created /\ lsWork' \subseteq created /\ todo' \subseteq edges'
        /\ handled' \subseteq GepNodes \X ObjNodes
    BY <1>1, <1>2, <1>4, <1>9 DEF TypeOK
  <2> QED BY <1>1, <1>2, <1>6, <1>8, <2>1, <2>2 DEF TypeOK, Calls
<1>11. Placed'
  <2>1. Live' = Live
    BY <1>2 DEF Live
  <2> QED BY <1>1, <1>2, <1>8, <2>1 DEF Placed
<1>12. Known'
  <2>1. \A n \in Nodes : \A o \in pts'[n] : o \in S \/ n = AnonNode(o)
    BY <1>1, <1>4, <1>5, <1>6 DEF Known, S, Existing
  <2>2. \A o \in ObjNodes : o \in fresh' <=> AnonNode(o) \in fresh'
    BY <1>1, <1>2, <1>4 DEF Known
  <2> QED BY <1>1, <1>2, <1>5, <1>8, <2>1, <2>2 DEF Known
<1>13. WorkIsWalked'
  BY <1>1, <1>2 DEF WorkIsWalked
<1> QED BY <1>2, <1>8, <1>10, <1>11, <1>12, <1>13 DEF Inv, AllHandled

LEMMA EndRoundInv == Inv /\ EndRound => Inv'
<1> SUFFICES ASSUME Inv, EndRound PROVE Inv'
  OBVIOUS
<1>1. TypeOK /\ Shape /\ Sound /\ Placed /\ Known /\ WorkIsWalked
  BY DEF Inv
<1>2. /\ pc = "edges" /\ todo = {}
      /\ created' = created \cup fresh /\ fresh' = {}
      /\ copyWork' = copyWork \cup fresh
      /\ \/ pc' = "resolve" /\ copyWork' = {}
         \/ pc' = "round"
      /\ UNCHANGED <<prog, edges, rep, pts, funPtrs, resolved, handled, pending, lsWork,
                     targets, required, todo, adding>>
  BY DEF EndRound, graphVars, callVars
<1>3. Existing' = Existing
  BY <1>2 DEF Existing
<1>4. TypeOK'
  BY <1>1, <1>2 DEF TypeOK, Calls
<1>5. Shape'
  BY <1>1, <1>2 DEF Shape
<1>6. Sound'
  BY <1>1, <1>2 DEF Sound, WithinReference
<1>7. Placed'
  <2>1. Live' = Live
    BY <1>2 DEF Live
  <2>2. EdgesAreLive'
    BY <1>1, <1>2, <2>1 DEF Placed, EdgesAreLive
  <2> QED BY <1>1, <1>2, <2>1, <2>2 DEF Placed
<1>8. Known'
  <2>1. \A n \in created' : rep'[n] \in created'
    BY <1>1, <1>2 DEF Known, TypeOK
  <2> QED BY <2>1, <1>1, <1>2, <1>3 DEF Known
<1>9. AllHandled'
  BY <1>1, <1>2 DEF AllHandled, WorkIsWalked
<1> QED BY <1>2, <1>4, <1>5, <1>6, <1>7, <1>8, <1>9 DEF Inv, WorkIsWalked

(***************************************************************************)
(* Indirect calls.                                                         *)
(***************************************************************************)

(* A call is bound to a function only when the solution has the function   *)
(* in the pointer's set too, and then it satisfies the call's constraints. *)
LEMMA ResolveFunPtrsInv == Inv /\ ResolveFunPtrs => Inv'
<1> SUFFICES ASSUME Inv, ResolveFunPtrs PROVE Inv'
  OBVIOUS
<1> DEFINE R == Reference[prog]
           cons == UNION {c.cons : c \in NewTargets}
           nodes == WithAnon(Mentioned(cons))
<1>1. TypeOK /\ Shape /\ Sound /\ Placed /\ Known
  BY DEF Inv
<1>2. /\ pc = "resolve" /\ adding' = cons
      /\ fresh' = nodes \ created
      /\ resolved' = resolved \cup NewTargets
      /\ funPtrs' = {}
      /\ \/ pc' = "done" /\ NewTargets = {}
         \/ pc' = "bind"
      /\ UNCHANGED <<prog, edges, rep, pts, handled, pending, created, copyWork, lsWork,
                     targets, required, todo>>
  BY DEF ResolveFunPtrs, graphVars, workLists
<1>3. fresh = {} /\ Existing = created
  BY <1>1, <1>2 DEF Placed, Existing
<1>4. ASSUME NEW c \in NewTargets
      PROVE  c \in Calls /\ \A k \in c.cons : k \in Constraint /\ Holds(R, k)
  <2>1. c \in Calls /\ c.fn \in pts[rep[c.fp]]
    BY DEF NewTargets
  <2>2. /\ c.fp \in Nodes /\ c.cons \subseteq Constraint
        /\ c.fn \in R[c.fp] => \A k \in c.cons : Holds(R, k)
    BY <2>1, <1>1, ProgramFacts DEF TypeOK
  <2>3. c.fn \in R[rep[c.fp]] /\ R[rep[c.fp]] = R[c.fp]
    BY <2>1, <2>2, <1>1, Facts DEF Sound
  <2> QED BY <2>1, <2>2, <2>3
<1>5. cons \in SUBSET Constraint /\ \A k \in cons : Holds(R, k)
  BY <1>4
<1>6. /\ Mentioned(cons) \subseteq nodes /\ nodes \subseteq Nodes
      /\ \A o \in ObjNodes : o \in nodes <=> AnonNode(o) \in nodes
      /\ NewTargets = {} => cons = {} /\ nodes = {}
  <2>1. Mentioned(cons) \in SUBSET (PtrNodes \cup ObjNodes)
    BY <1>5, MentionedFacts
  <2>2. NewTargets = {} => cons = {} /\ nodes = {}
    BY DEF Mentioned, WithAnon
  <2> HIDE DEF cons
  <2> QED BY <2>1, <2>2, WithAnonFacts
<1> HIDE DEF cons, nodes
<1>7. TypeOK'
  <2>1. resolved' \subseteq Calls'
    BY <1>1, <1>2, <1>4 DEF TypeOK, Calls
  <2>2. fresh' \subseteq Nodes \ created
    BY <1>2, <1>6
  <2> QED BY <1>1, <1>2, <1>5, <2>1, <2>2 DEF TypeOK
<1>8. Shape'
  BY <1>1, <1>2 DEF Shape
<1>9. Sound'
  BY <1>1, <1>2, <1>5 DEF Sound, WithinReference
<1>10. Placed'
  <2>1. Live' = Live
    BY <1>2 DEF Live
  <2>2. EdgesAreLive'
    BY <1>1, <1>2, <2>1 DEF Placed, EdgesAreLive
  <2>3. pc' = "done" => adding' = {} /\ fresh' = {}
    BY <1>2, <1>6
  <2> QED BY <1>1, <1>2, <2>1, <2>2, <2>3 DEF Placed
<1>11. Known'
  <2>1. Existing' = created \cup nodes /\ Existing \subseteq Existing'
    BY <1>2, <1>3 DEF Existing
  <2>2. \A o \in ObjNodes : o \in fresh' <=> AnonNode(o) \in fresh'
    BY <1>1, <1>2, <1>6 DEF Known
  <2>3. Mentioned(adding') \subseteq Existing'
    BY <1>2, <1>6, <2>1
  <2>4. (Mentioned(adding))' = Mentioned(adding')
    BY DEF Mentioned
  <2> QED BY <1>1, <1>2, <2>1, <2>2, <2>3, <2>4 DEF Known
<1> QED BY <1>2, <1>7, <1>8, <1>9, <1>10, <1>11 DEF Inv, WorkIsWalked, AllHandled

(* The call back reads the constraint as it is, between nodes that may     *)
(* have been collapsed: what it adds holds in the solution all the same.   *)
LEMMA AddConstraintInv ==
  ASSUME Inv, NEW c \in adding, AddConstraint(c) PROVE Inv'
<1> DEFINE R == Reference[prog]
           d == AsEdge(c)
           isNew == NewEdges(edges, rep, {c}) # {} /\ Visited(d) \in created
           implied == IF isNew THEN Implied(d) ELSE {}
           C == {c} \cup implied
           recorded == CASE d[1] = "copy"   -> {d}
                         [] d[1] = "offset" -> implied
                         [] OTHER -> {k \in implied : NewEdges(edges, rep, {k}) # {}}
           nodes == IF isNew THEN CreatedBy(d) ELSE {}
           S == Existing \cup nodes
           ends == IF isNew THEN Ends(recorded) ELSE {}
           indexed == IF isNew THEN HandledBy(d) ELSE {}
<1>1. TypeOK /\ Shape /\ Sound /\ Placed /\ Known
  BY DEF Inv
<1>2. /\ pc = "bind"
      /\ edges' = edges \cup NewEdges(edges, rep, C)
      /\ RecordCopies(ends)
      /\ handled' = handled \cup indexed
      /\ fresh' = fresh \cup nodes
      /\ adding' = adding \ {c}
      /\ UNCHANGED <<prog, rep, pts, funPtrs, resolved, pending, created, lsWork, todo, pc>>
  BY DEF AddConstraint, callVars
<1>3. /\ Insertable(c, Existing)
      /\ d \in Edge /\ WellFormedEdge(d) /\ Holds(R, d)
      /\ d[2] \in Existing /\ d[3] \in Existing
  BY AddingFacts
<1> HIDE DEF d
<1>4. /\ CreatedBy(d) \subseteq Nodes \ created
      /\ \A o \in ObjNodes : o \in CreatedBy(d) <=> AnonNode(o) \in CreatedBy(d)
      /\ HandledBy(d) \subseteq GepNodes \X ObjNodes
      /\ \A k \in Implied(d) : k \in Edge /\ Insertable(k, Existing \cup CreatedBy(d))
  BY <1>3, ImpliedFacts
<1> HIDE DEF isNew
<1>5. /\ nodes \subseteq Nodes \ created
      /\ \A o \in ObjNodes : o \in nodes <=> AnonNode(o) \in nodes
      /\ indexed \subseteq GepNodes \X ObjNodes
      /\ \A k \in implied : k \in Edge /\ Insertable(k, S)
  BY <1>4
<1> HIDE DEF implied, nodes, indexed
<1>6. Existing \subseteq S /\ Existing' = S /\ S \in SUBSET Nodes
  BY <1>2, <1>5, ExistingFacts DEF Existing
<1> HIDE DEF S
<1>7. \A k \in C : Insertable(k, S)
  <2>1. Insertable(c, S)
    BY <1>3, <1>6 DEF Insertable
  <2> QED BY <2>1, <1>5
<1> HIDE DEF C
<1>8. /\ edges' \subseteq Edge /\ Shape' /\ Sound' /\ EdgesAreLive'
      /\ \A f \in edges' : {f[2], f[3]} \subseteq S
  <2>1. UNCHANGED <<prog, rep, pending>> /\ adding' \subseteq adding
    BY <1>2
  <2>2. \A n \in Nodes : pts'[n] \subseteq Reference[prog][n]
    BY <1>2, Facts
  <2>3. edges' = edges \cup NewEdges(edges, rep, C)
    BY <1>2
  <2> QED BY <2>1, <2>2, <2>3, <1>6, <1>7, GrowGraph
<1>9. /\ copyWork' \subseteq created /\ targets' \subseteq created
      /\ required' \subseteq Nodes \X Nodes
  <2>1. recorded \subseteq Edge
    BY <1>3, <1>5
  <2> HIDE DEF recorded
  <2>2. ends \subseteq Nodes \X Nodes
    BY <2>1, EdgeFacts DEF Ends
  <2> HIDE DEF ends
  <2> QED BY <2>2, <1>1, <1>2 DEF RecordCopies, TypeOK
<1>10. TypeOK'
  <2>1. handled' \subseteq GepNodes \X ObjNodes
    BY <1>1, <1>2, <1>5 DEF TypeOK
  <2>2. fresh' \subseteq Nodes \ created
    BY <1>1, <1>2, <1>5 DEF TypeOK
  <2>3. todo' \subseteq edges'
    BY <1>1, <1>2 DEF TypeOK
  <2>4. adding' \subseteq Constraint /\ resolved' \subseteq Calls'
    BY <1>1, <1>2 DEF TypeOK, Calls
  <2> QED BY <1>1, <1>2, <1>8, <1>9, <2>1, <2>2, <2>3, <2>4 DEF TypeOK
<1>11. Placed'
  <2>1. Live' = Live
    BY <1>2 DEF Live
  <2> QED BY <1>1, <1>2, <1>8, <2>1 DEF Placed
<1>12. Known'
  <2>1. Mentioned(adding') \subseteq Mentioned(adding)
    BY <1>2 DEF Mentioned
  <2>2. (Mentioned(adding))' = Mentioned(adding')
    BY DEF Mentioned
  <2>3. \A o \in ObjNodes : o \in fresh' <=> AnonNode(o) \in fresh'
    BY <1>1, <1>2, <1>5 DEF Known
  <2>4. Mentioned(adding') \subseteq S
    BY <2>1, <1>1, <1>6 DEF Known
  <2>5. \A n \in Nodes : \A o \in pts'[n] : o \in S \/ n = AnonNode(o)
    BY <1>1, <1>2, <1>6 DEF Known
  <2> QED BY <1>1, <1>2, <1>6, <1>8, <2>2, <2>3, <2>4, <2>5 DEF Known
<1> QED BY <1>2, <1>8, <1>10, <1>11, <1>12 DEF Inv, WorkIsWalked, AllHandled

LEMMA EndResolveInv == Inv /\ EndResolve => Inv'
<1> SUFFICES ASSUME Inv, EndResolve PROVE Inv'
  OBVIOUS
<1>1. TypeOK /\ Shape /\ Sound /\ Placed /\ Known
  BY DEF Inv
<1>2. /\ pc = "bind" /\ adding = {} /\ pc' = "round"
      /\ created' = created \cup fresh /\ fresh' = {}
      /\ copyWork' = copyWork \cup fresh
      /\ lsWork' = lsWork \cup fresh
      /\ targets' = targets \cup fresh
      /\ UNCHANGED <<prog, edges, rep, pts, funPtrs, resolved, handled, pending, required,
                     todo, adding>>
  BY DEF EndResolve, graphVars, callVars
<1>3. Existing' = Existing
  BY <1>2 DEF Existing
<1>4. TypeOK'
  BY <1>1, <1>2 DEF TypeOK, Calls
<1>5. Shape'
  BY <1>1, <1>2 DEF Shape
<1>6. Sound'
  BY <1>1, <1>2 DEF Sound, WithinReference
<1>7. Placed'
  <2>1. Live' = Live
    BY <1>2 DEF Live
  <2>2. EdgesAreLive'
    BY <1>1, <1>2, <2>1 DEF Placed, EdgesAreLive
  <2> QED BY <1>1, <1>2, <2>1, <2>2 DEF Placed
<1>8. Known'
  <2>1. \A n \in created' : rep'[n] \in created'
    BY <1>1, <1>2 DEF Known, TypeOK
  <2> QED BY <2>1, <1>1, <1>2, <1>3 DEF Known
<1> QED BY <1>2, <1>4, <1>5, <1>6, <1>7, <1>8 DEF Inv, WorkIsWalked, AllHandled

(***************************************************************************)
(* The theorems.                                                           *)
(***************************************************************************)

(* The invariant is inductive.                                             *)
THEOREM InvHolds == Spec => []Inv
<1>1. Init => Inv
  BY InitInv
<1>2. Inv /\ [Next]_vars => Inv'
  <2> SUFFICES ASSUME Inv, [Next]_vars PROVE Inv'
    OBVIOUS
  <2>1. CASE BeginRound
    BY <2>1, BeginRoundInv
  <2>2. CASE \E n \in Nodes : PropagateNode(n)
    BY <2>2, PropagateNodeInv
  <2>3. CASE \E scc \in pending : \E super \in scc : CollapseCycle(scc, super)
    BY <2>3, CollapseCycleInv
  <2>4. CASE EndWave
    BY <2>4, EndWaveInv
  <2>5. CASE \E e \in todo : HandleLoadOrStore(e) \/ HandleOffset(e)
    BY <2>5, HandleLoadOrStoreInv, HandleOffsetInv
  <2>6. CASE EndRound
    BY <2>6, EndRoundInv
  <2>7. CASE ResolveFunPtrs
    BY <2>7, ResolveFunPtrsInv
  <2>8. CASE \E c \in adding : AddConstraint(c)
    BY <2>8, AddConstraintInv
  <2>9. CASE EndResolve
    BY <2>9, EndResolveInv
  <2>10. CASE UNCHANGED vars
    <3>1. UNCHANGED <<prog, edges, rep, pts, funPtrs, resolved, handled, pending, created,
                      fresh, copyWork, lsWork, targets, required, todo, adding, pc>>
      BY <2>10 DEF vars, graphVars, callVars, workLists
    <3>2. Live' = Live
      BY <3>1 DEF Live
    <3>3. TypeOK' /\ AllHandled' /\ WorkIsWalked'
      BY <3>1 DEF Inv, TypeOK, AllHandled, WorkIsWalked, Calls
    <3>4. Shape' /\ Sound'
      BY <3>1 DEF Inv, Shape, Sound, WithinReference
    <3>5. Placed'
      BY <3>1, <3>2 DEF Inv, Placed, EdgesAreLive
    <3>6. Known'
      BY <3>1 DEF Inv, Known, Existing, Mentioned
    <3> QED BY <3>3, <3>4, <3>5, <3>6 DEF Inv
  <2> QED BY <2>1, <2>2, <2>3, <2>4, <2>5, <2>6, <2>7, <2>8, <2>9, <2>10 DEF Next
<1> QED BY <1>1, <1>2, PTL DEF Spec

(* The solver never leaves the sets it works on: the work lists only speak *)
(* of nodes that they have a bit for.                                      *)
THEOREM TypeCorrect == Spec => []TypeOK
<1>1. Inv => TypeOK
  BY DEF Inv
<1> QED BY <1>1, InvHolds, PTL

(* Whatever is walked, skipped, collapsed or added by the call back, no    *)
(* points-to set ever holds an object that some solution of the program    *)
(* does not have there.                                                    *)
THEOREM Soundness == Spec => []WithinReference
<1>1. Inv => WithinReference
  BY DEF Inv, Sound
<1> QED BY <1>1, InvHolds, PTL

(* The assertions of solve: when runSolver ends, nothing is left in any    *)
(* work list or in the table of required edges.                            *)
THEOREM NothingIsCarriedOver == Spec => []AllHandled
<1>1. Inv => AllHandled
  BY DEF Inv
<1> QED BY <1>1, InvHolds, PTL

(* No edge is left at a collapsed node, and no super node is collapsed.    *)
THEOREM EdgesStayLive == Spec => []EdgesAreLive
<1>1. Inv => EdgesAreLive
  BY DEF Inv, Placed
<1> QED BY <1>1, InvHolds, PTL

=============================================================================
