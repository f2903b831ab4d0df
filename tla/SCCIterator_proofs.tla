------------------------- MODULE SCCIterator_proofs --------------------------
(***************************************************************************)
(* Proofs about Tarjan's algorithm as SCCIterator runs it, for every       *)
(* finite graph, every set of collapsed nodes, every work list and every   *)
(* order in which the children of a node are visited.                      *)
(***************************************************************************)
EXTENDS SCCIterator, FiniteSetTheorems, SequenceTheorems, TLAPS

(***************************************************************************)
(* Reachability.                                                           *)
(***************************************************************************)

(* Every node reaches itself, and what its copy edges lead on to.          *)
LEMMA ReachesSelf ==
  ASSUME NEW n \in Nodes
  PROVE  Reaches(n, n)
BY DEF Reaches, ReachedFrom

LEMMA ReachesNext ==
  ASSUME NEW a, NEW b, NEW c, Reaches(a, b), c \in CopySucc(edges, b)
  PROVE  Reaches(a, c)
<1>1. c \in Nodes /\ <<"copy", b, c>> \in edges
  BY DEF CopySucc
<1>2. ASSUME NEW S \in ClosedSets(edges), {a} \subseteq S
      PROVE  c \in S
  <2>1. b \in S
    BY <1>2 DEF Reaches, ReachedFrom
  <2> QED BY <1>1, <2>1 DEF ClosedSets
<1> QED BY <1>1, <1>2 DEF Reaches, ReachedFrom

LEMMA ReachesFurther ==
  ASSUME NEW a, NEW b, NEW c, Reaches(a, b), Reaches(b, c)
  PROVE  Reaches(a, c)
<1>1. c \in Nodes
  BY DEF Reaches, ReachedFrom
<1>2. ASSUME NEW S \in ClosedSets(edges), {a} \subseteq S
      PROVE  c \in S
  <2>1. {b} \subseteq S
    BY <1>2 DEF Reaches, ReachedFrom
  <2> QED BY <2>1 DEF Reaches, ReachedFrom
<1> QED BY <1>1, <1>2 DEF Reaches, ReachedFrom

LEMMA ReachesStays ==
  ASSUME NEW S \in ClosedSets(edges), NEW a \in S, NEW b, Reaches(a, b)
  PROVE  b \in S
BY DEF Reaches, ReachedFrom

(* Nodes that a node reaches are in every closed set that has it.          *)
LEMMA ReachesIsOrder ==
  ASSUME NEW a \in Nodes, NEW b \in Nodes
  PROVE  Reaches(a, b) <=> \A S \in ClosedSets(edges) : a \in S => b \in S
BY DEF Reaches, ReachedFrom

LEMMA LiveIsClosed ==
  /\ Roots \cap Nodes \subseteq Live
  /\ \A n \in Live : CopySucc(edges, n) \subseteq Live
  /\ Live \subseteq Nodes
<1>1. ASSUME NEW n \in Live, NEW m \in CopySucc(edges, n)
      PROVE  m \in Live
  <2>1. m \in Nodes /\ <<"copy", n, m>> \in edges
    BY DEF CopySucc
  <2>2. ASSUME NEW S \in ClosedSets(edges), Roots \subseteq S
        PROVE  m \in S
    <3>1. n \in S
      BY <2>2 DEF Live, ReachedFrom
    <3> QED BY <2>1, <3>1 DEF ClosedSets
  <2> QED BY <2>1, <2>2 DEF Live, ReachedFrom
<1>2. Roots \cap Nodes \subseteq Live
  BY DEF Live, ReachedFrom
<1>3. Live \subseteq Nodes
  BY DEF Live, ReachedFrom
<1> QED BY <1>1, <1>2, <1>3

(* A component is what its nodes and one of them reach both ways.          *)
LEMMA MakesSCC ==
  ASSUME NEW a \in Live, NEW C \in SUBSET Live,
         \A b \in Live : b \in C <=> Reaches(a, b) /\ Reaches(b, a)
  PROVE  C \in SCCs(edges, Live)
<1> DEFINE reaches(x, y) == \A S \in ClosedSets(edges) : x \in S => y \in S
<1>1. \A b \in Live : b \in C <=> reaches(a, b) /\ reaches(b, a)
  BY ReachesIsOrder, LiveIsClosed
<1>2. C = {b \in Live : reaches(a, b) /\ reaches(b, a)}
  BY <1>1
<1> QED BY <1>2 DEF SCCs

(* Components that share a node are the same.                              *)
LEMMA SCCsAreApart ==
  ASSUME NEW c \in SCCs(edges, Live), NEW d \in SCCs(edges, Live),
         NEW n, n \in c, n \in d
  PROVE  c = d
<1> DEFINE reaches(x, y) == \A S \in ClosedSets(edges) : x \in S => y \in S
<1>1. PICK a \in Live : c = {y \in Live : reaches(a, y) /\ reaches(y, a)}
  BY DEF SCCs
<1>2. PICK b \in Live : d = {y \in Live : reaches(b, y) /\ reaches(y, b)}
  BY DEF SCCs
<1>3. reaches(a, n) /\ reaches(n, a) /\ reaches(b, n) /\ reaches(n, b)
  BY <1>1, <1>2
<1>4. reaches(a, b) /\ reaches(b, a)
  BY <1>3
<1>5. \A y : /\ reaches(a, y) <=> reaches(b, y)
             /\ reaches(y, a) <=> reaches(y, b)
  BY <1>4
<1> QED BY <1>1, <1>2, <1>5

(***************************************************************************)
(* Numbers.                                                                *)
(***************************************************************************)

LEMMA NodesAreNatural == Nodes \subseteq Nat
<1>1. PtrNodes \subseteq Nat /\ ObjNodes \subseteq Nat
  BY NodesAssumption
<1>2. \A n \in AnonNodes : n \in Nat
  BY <1>1 DEF AnonNodes, AnonNode
<1> QED BY <1>1, <1>2 DEF Nodes

(* Without a lowest member the lower bounds of a set of naturals would be  *)
(* closed under successor, and finite.                                     *)
LEMMA LowestIsIn ==
  ASSUME NEW S \in SUBSET Nodes, S # {}
  PROVE  Lowest(S) \in S
<1> SUFFICES ASSUME \A n \in S : \E m \in S : ~(n <= m)
             PROVE  FALSE
  BY DEF Lowest
<1> DEFINE L == {k \in Nat : \A n \in S : k <= n}
           f == [k \in L |-> k + 1]
<1>1. S \subseteq Nat
  BY NodesAreNatural
<1>2. PICK n \in S : TRUE
  OBVIOUS
<1>3. IsFiniteSet(L)
  <2>1. n \in Nat /\ L \in SUBSET Nat /\ \A k \in L : k <= n
    BY <1>1
  <2> QED BY ONLY <2>1, FS_BoundedSetOfNaturals
<1>4. \A k \in L : k + 1 \in L
  <2> TAKE k \in L
  <2>1. k \notin S
    BY <1>1
  <2> QED BY <1>1, <2>1
<1>5. f \in Injection(L, L)
  <2>1. f \in [L -> L]
    BY <1>4
  <2>2. \A i, j \in L : f[i] = f[j] => i = j
    OBVIOUS
  <2> QED BY <2>1, <2>2 DEF Injection, IsInjective
<1> HIDE DEF f
<1>6. f \in Surjection(L, L)
  <2> HIDE DEF L
  <2> QED BY <1>3, <1>5, FS_Injection
<1>7. 0 \in L
  BY <1>1
<1>8. PICK k \in L : f[k] = 0
  BY <1>6, <1>7 DEF Surjection
<1> QED BY <1>8 DEF f

LEMMA MaxNumberIsNat == MaxNumber \in Nat /\ MaxNumber >= 1
BY NodesAreFinite, FS_CardinalityType DEF MaxNumber

(* The numbers given out so far are below that of a delivered node.        *)
LEMMA CountOfNumbers ==
  ASSUME TypeOK
  PROVE  /\ Cardinality(DOMAIN numbers) \in Nat
         /\ Cardinality(DOMAIN numbers) < MaxNumber
         /\ \A n \in Nodes \ DOMAIN numbers :
              /\ Cardinality(DOMAIN numbers \cup {n}) = Cardinality(DOMAIN numbers) + 1
              /\ Cardinality(DOMAIN numbers) + 1 < MaxNumber
<1>1. DOMAIN numbers \in SUBSET Nodes
  BY DEF TypeOK
<1>2. IsFiniteSet(DOMAIN numbers) /\ Cardinality(DOMAIN numbers) <= Cardinality(Nodes)
  BY <1>1, NodesAreFinite, FS_Subset
<1>3. Cardinality(DOMAIN numbers) \in Nat /\ Cardinality(Nodes) \in Nat
  BY <1>2, NodesAreFinite, FS_CardinalityType
<1>4. ASSUME NEW n \in Nodes \ DOMAIN numbers
      PROVE  /\ Cardinality(DOMAIN numbers \cup {n}) = Cardinality(DOMAIN numbers) + 1
             /\ Cardinality(DOMAIN numbers) + 1 < MaxNumber
  <2>1. Cardinality(DOMAIN numbers \cup {n}) = Cardinality(DOMAIN numbers) + 1
    BY <1>2, FS_AddElement
  <2>2. DOMAIN numbers \cup {n} \in SUBSET Nodes
    BY <1>1
  <2>3. Cardinality(DOMAIN numbers \cup {n}) <= Cardinality(Nodes)
    BY <2>2, NodesAreFinite, FS_Subset
  <2> QED BY <1>3, <2>1, <2>3 DEF MaxNumber
<1> QED BY <1>2, <1>3, <1>4 DEF MaxNumber
(* A node on the component stack is told by its number.                    *)
LEMMA StackedNumbers ==
  ASSUME TypeOK, Numbered
  PROVE  /\ Len(sccStack) \in Nat /\ DOMAIN sccStack = 1 .. Len(sccStack)
         /\ Stacked \subseteq Nodes /\ Done \subseteq Nodes
         /\ \A n \in Stacked : /\ n \in DOMAIN numbers
                               /\ numbers[n] \in Nat
                               /\ 1 <= numbers[n]
                               /\ numbers[n] <= Cardinality(DOMAIN numbers)
                               /\ numbers[n] < MaxNumber
         /\ \A n, m \in Stacked : numbers[n] = numbers[m] => n = m
<1>1. Len(sccStack) \in Nat /\ DOMAIN sccStack = 1 .. Len(sccStack)
  <2>1. sccStack \in Seq(DOMAIN numbers)
    BY DEF TypeOK
  <2> QED BY <2>1, LenProperties
<1>2. DOMAIN numbers \subseteq Nodes /\ \A n \in DOMAIN numbers : numbers[n] \in 1 .. MaxNumber
  BY DEF TypeOK
<1>3. Stacked \subseteq DOMAIN numbers /\ Done \subseteq DOMAIN numbers
  BY DEF Numbered
<1>4. \A n \in Stacked : numbers[n] <= Cardinality(DOMAIN numbers)
  BY DEF Numbered
<1>5. \A n \in Stacked : /\ n \in DOMAIN numbers
                         /\ numbers[n] \in Nat
                         /\ 1 <= numbers[n]
                         /\ numbers[n] <= Cardinality(DOMAIN numbers)
                         /\ numbers[n] < MaxNumber
  BY <1>2, <1>3, <1>4, CountOfNumbers, MaxNumberIsNat
<1>6. ASSUME NEW n \in Stacked, NEW m \in Stacked, numbers[n] = numbers[m]
      PROVE  n = m
  <2>1. PICK i \in DOMAIN sccStack : n = sccStack[i]
    BY DEF Stacked, ToSet
  <2>2. PICK j \in DOMAIN sccStack : m = sccStack[j]
    BY DEF Stacked, ToSet
  <2>3. ~(i < j) /\ ~(j < i)
    BY <1>5, <1>6, <2>1, <2>2 DEF Numbered
  <2> QED BY <1>1, <2>1, <2>2, <2>3
<1> QED BY <1>1, <1>2, <1>3, <1>5, <1>6

(* The component of a node is what was stacked since.                      *)
LEMMA StackedSince ==
  ASSUME TypeOK, Numbered, NEW n \in Stacked
  PROVE  /\ Component(n) \in Seq(Stacked)
         /\ ToSet(Component(n)) = {m \in Stacked : numbers[n] <= numbers[m]}
         /\ Position(n) \in 1 .. Len(sccStack) /\ sccStack[Position(n)] = n
<1> DEFINE p == Position(n)
           l == Len(sccStack)
           since == SubSeq(sccStack, p, l)
<1>1. l \in Nat /\ DOMAIN sccStack = 1 .. l
  BY StackedNumbers
<1>2. p \in DOMAIN sccStack /\ sccStack[p] = n
  <2>1. \E i \in DOMAIN sccStack : sccStack[i] = n
    BY DEF Stacked, ToSet
  <2> QED BY <2>1 DEF Position
<1> HIDE DEF p
<1>3. \A i \in 1 .. l : sccStack[i] \in Stacked
  BY <1>1 DEF Stacked, ToSet
<1>4. /\ since \in Seq(Stacked) /\ Len(since) = l - p + 1
      /\ \A i \in 1 .. l - p + 1 : since[i] = sccStack[p + i - 1]
  <2>1. \A i \in p .. l : sccStack[i] \in Stacked
    BY <1>1, <1>2, <1>3
  <2>2. p \in Int /\ l \in Int /\ p <= l
    BY <1>1, <1>2
  <2> HIDE DEF l
  <2> QED BY <2>1, <2>2, SubSeqProperties
<1> DEFINE k == l - p + 1
           order == [i \in 1 .. Len(since) |-> since[(Len(since) - i) + 1]]
<1>5. Component(n) = order
  BY DEF Component, Reverse, p
<1> HIDE DEF since
<1>6. k \in Nat /\ order = [i \in 1 .. k |-> since[(k - i) + 1]]
  BY <1>1, <1>2, <1>4
<1>7. \A i \in 1 .. k : order[i] = sccStack[l - i + 1]
  <2> TAKE i \in 1 .. k
  <2>1. (k - i) + 1 \in 1 .. k /\ p + ((k - i) + 1) - 1 = l - i + 1
    BY <1>1, <1>2
  <2>2. since[(k - i) + 1] = sccStack[p + ((k - i) + 1) - 1]
    BY <1>4, <2>1
  <2> QED BY <1>6, <2>1, <2>2
<1> HIDE DEF order
<1>8. \A i \in 1 .. k : l - i + 1 \in 1 .. l /\ p <= l - i + 1
  BY <1>1, <1>2
<1>9. Component(n) \in Seq(Stacked)
  <2>1. DOMAIN order = 1 .. k /\ order = [i \in 1 .. k |-> order[i]]
    BY <1>6
  <2>2. order \in [1 .. k -> Stacked]
    BY <1>3, <1>7, <1>8, <2>1
  <2> HIDE DEF k
  <2> QED BY <1>5, <1>6, <2>2, SeqDef
<1>10. \A i, j \in 1 .. l : i < j => numbers[sccStack[i]] < numbers[sccStack[j]]
  BY <1>1 DEF Numbered
<1>11. \A i \in 1 .. l : numbers[sccStack[i]] \in Nat
  BY <1>3, StackedNumbers
<1>12. \A i \in 1 .. l : p <= i <=> numbers[n] <= numbers[sccStack[i]]
  <2> TAKE i \in 1 .. l
  <2>1. p \in 1 .. l
    BY <1>1, <1>2
  <2>2. i < p \/ i = p \/ p < i
    BY <2>1
  <2> QED BY <1>2, <1>10, <1>11, <2>1, <2>2
<1>13. ToSet(Component(n)) = {m \in Stacked : numbers[n] <= numbers[m]}
  <2>1. ASSUME NEW m \in ToSet(Component(n))
        PROVE  m \in Stacked /\ numbers[n] <= numbers[m]
    <3>1. PICK i \in 1 .. k : m = order[i]
      BY <1>5, <1>6 DEF ToSet
    <3> QED BY <1>3, <1>7, <1>8, <1>12, <3>1
  <2>2. ASSUME NEW m \in Stacked, numbers[n] <= numbers[m]
        PROVE  m \in ToSet(Component(n))
    <3>1. PICK i \in 1 .. l : m = sccStack[i]
      BY <1>1 DEF Stacked, ToSet
    <3>2. p <= i
      BY <1>12, <2>2, <3>1
    <3>3. l - i + 1 \in 1 .. k /\ l - (l - i + 1) + 1 = i
      BY <1>1, <1>2, <3>2
    <3>4. order[l - i + 1] = m
      BY <1>7, <3>1, <3>3
    <3>5. l - i + 1 \in DOMAIN order
      BY <1>6, <3>3
    <3> QED BY <1>5, <3>4, <3>5 DEF ToSet
  <2> QED BY <2>1, <2>2
<1> QED BY <1>1, <1>2, <1>9, <1>13 DEF p

(***************************************************************************)
(* What each step does to the two stacks, place by place.                  *)
(***************************************************************************)

LEMMA FramesOfPath ==
  ASSUME TypeOK
  PROVE  /\ Len(visitStack) \in Nat
         /\ DOMAIN visitStack = 1 .. Len(visitStack)
         /\ \A i \in 1 .. Len(visitStack) : visitStack[i] \in Frame
         /\ visitStack = <<>> <=> Len(visitStack) = 0
<1>1. visitStack \in Seq(Frame)
  BY DEF TypeOK
<1>2. Len(visitStack) \in Nat /\ DOMAIN visitStack = 1 .. Len(visitStack)
      /\ \A i \in 1 .. Len(visitStack) : visitStack[i] \in Frame
  BY <1>1, LenProperties, ElementOfSeq
<1>3. visitStack = <<>> <=> Len(visitStack) = 0
  BY <1>1, EmptySeq
<1> QED BY <1>2, <1>3

(* The frames below the top one.                                           *)
LEMMA BelowTop ==
  ASSUME TypeOK, visitStack # <<>>
  PROVE  /\ Len(visitStack) >= 1
         /\ Top = visitStack[Len(visitStack)] /\ Top \in Frame
         /\ Front(visitStack) \in Seq(Frame)
         /\ Len(Front(visitStack)) = Len(visitStack) - 1
         /\ \A i \in 1 .. Len(visitStack) - 1 : Front(visitStack)[i] = visitStack[i]
<1> DEFINE l == Len(visitStack)
<1>1. l \in Nat /\ l >= 1 /\ \A i \in 1 .. l : visitStack[i] \in Frame
  BY FramesOfPath
<1>2. Top = visitStack[l] /\ Top \in Frame
  BY <1>1 DEF Top, Last
<1>3. /\ SubSeq(visitStack, 1, l - 1) \in Seq(Frame)
      /\ Len(SubSeq(visitStack, 1, l - 1)) = IF 1 <= l - 1 THEN (l - 1) - 1 + 1 ELSE 0
      /\ \A i \in 1 .. (l - 1) - 1 + 1 : SubSeq(visitStack, 1, l - 1)[i] = visitStack[1 + i - 1]
  <2>1. 1 \in Int /\ l - 1 \in Int /\ \A i \in 1 .. l - 1 : visitStack[i] \in Frame
    BY <1>1
  <2> HIDE DEF l
  <2> QED BY <2>1, SubSeqProperties
<1>4. \A i \in 1 .. l - 1 : 1 + i - 1 = i
  OBVIOUS
<1>5. (l - 1) - 1 + 1 = l - 1 /\ (~(1 <= l - 1) => l - 1 = 0)
  <2>1. l \in Nat /\ l >= 1
    BY <1>1
  <2> HIDE DEF l
  <2> QED BY <2>1
<1>6. Front(visitStack) = SubSeq(visitStack, 1, l - 1)
  BY DEF Front
<1> HIDE DEF l
<1>7. \A i \in 1 .. l - 1 : SubSeq(visitStack, 1, l - 1)[i] = visitStack[i]
  BY <1>3, <1>4, <1>5
<1> QED BY <1>1, <1>2, <1>3, <1>5, <1>6, <1>7 DEF l

LEMMA LoweredFrame ==
  ASSUME NEW frame \in Frame, NEW number \in 1 .. MaxNumber
  PROVE  /\ Lowered(frame, number) \in Frame
         /\ Lowered(frame, number).node = frame.node
         /\ Lowered(frame, number).children = frame.children
         /\ Lowered(frame, number).min <= frame.min
         /\ Lowered(frame, number).min <= number
         /\ number >= frame.min => Lowered(frame, number) = frame
         /\ number < frame.min => Lowered(frame, number).min = number
<1>1. frame.min \in 1 .. MaxNumber /\ MaxNumber \in Nat
  BY MaxNumberIsNat DEF Frame
<1>2. CASE number < frame.min
  <2>1. Lowered(frame, number) = [frame EXCEPT !.min = number]
    BY <1>2 DEF Lowered
  <2>2. [frame EXCEPT !.min = number] = [node |-> frame.node, children |-> frame.children, min |-> number]
    BY DEF Frame
  <2>3. frame.node \in Nodes /\ frame.children \in SUBSET Nodes
    BY DEF Frame
  <2> QED BY <1>1, <1>2, <2>1, <2>2, <2>3 DEF Frame
<1>3. CASE ~(number < frame.min)
  <2>1. Lowered(frame, number) = frame
    BY <1>3 DEF Lowered
  <2> QED BY <1>1, <1>3, <2>1
<1> QED BY <1>2, <1>3

(* The top frame after a child has been looked at.                         *)
LEMMA ChildTaken ==
  ASSUME NEW frame \in Frame, NEW child
  PROVE  /\ [frame EXCEPT !.children = @ \ {child}] \in Frame
         /\ [frame EXCEPT !.children = @ \ {child}].node = frame.node
         /\ [frame EXCEPT !.children = @ \ {child}].children = frame.children \ {child}
         /\ [frame EXCEPT !.children = @ \ {child}].min = frame.min
<1>1. [frame EXCEPT !.children = @ \ {child}]
        = [node |-> frame.node, children |-> frame.children \ {child}, min |-> frame.min]
  BY DEF Frame
<1> QED BY <1>1 DEF Frame

LEMMA AppendedFrame ==
  ASSUME NEW S, NEW s \in Seq(S), NEW e \in S
  PROVE  /\ Append(s, e) \in Seq(S)
         /\ DOMAIN Append(s, e) = 1 .. Len(s) + 1
         /\ Len(s) \in Nat /\ Len(Append(s, e)) = Len(s) + 1
         /\ \A i \in 1 .. Len(s) : Append(s, e)[i] = s[i]
         /\ Append(s, e)[Len(s) + 1] = e
<1>1. /\ Append(s, e) \in Seq(S)
      /\ Len(Append(s, e)) = Len(s) + 1
      /\ \A i \in 1 .. Len(s) : Append(s, e)[i] = s[i]
      /\ Append(s, e)[Len(s) + 1] = e
  BY AppendProperties
<1> QED BY <1>1, LenProperties

(* A child that was seen: it leaves the top frame and may lower it.        *)
SeenStep(child) ==
  /\ UNCHANGED <<graphVars, visited, numbers, sccStack, lastRoot, current, delivered, pc>>
  /\ child \in Top.children
  /\ visitStack' \in Seq(Frame) /\ DOMAIN visitStack' = 1 .. Len(visitStack)
  /\ \A i \in 1 .. Len(visitStack) - 1 : visitStack'[i] = visitStack[i]
  /\ LET top == visitStack'[Len(visitStack)]
     IN  /\ top.node = Top.node
         /\ top.children = Top.children \ {child}
         /\ top.min <= Top.min
         /\ top.min <= numbers[child]
         /\ top.min = Top.min \/ (top.min = numbers[child] /\ numbers[child] < Top.min)

LEMMA SeenIsStep ==
  ASSUME TypeOK, visitStack # <<>>, NEW child \in DOMAIN numbers, VisitChild(child)
  PROVE  SeenStep(child)
<1> DEFINE frame == [Top EXCEPT !.children = @ \ {child}]
           top == Lowered(frame, numbers[child])
           l == Len(visitStack)
<1>1. numbers[child] \in 1 .. MaxNumber
  BY DEF TypeOK
<1>2. Top \in Frame /\ frame \in Frame
  BY BelowTop, ChildTaken
<1>3. /\ visitStack' = Append(Front(visitStack), top)
      /\ child \in Top.children
      /\ UNCHANGED <<graphVars, visited, numbers, sccStack, lastRoot, current, delivered, pc>>
  BY DEF VisitChild
<1>4. /\ top \in Frame /\ top.node = Top.node /\ top.children = Top.children \ {child}
      /\ top.min <= Top.min /\ top.min <= numbers[child]
      /\ top.min = Top.min \/ (top.min = numbers[child] /\ numbers[child] < Top.min)
  <2>1. /\ frame.node = Top.node /\ frame.children = Top.children \ {child} /\ frame.min = Top.min
    BY <1>2, ChildTaken
  <2>2. numbers[child] >= frame.min \/ numbers[child] < frame.min
    BY <1>1, <1>2, MaxNumberIsNat DEF Frame
  <2> HIDE DEF frame
  <2> QED BY <1>1, <1>2, <2>1, <2>2, LoweredFrame
<1> HIDE DEF top
<1>5. /\ Front(visitStack) \in Seq(Frame) /\ Len(Front(visitStack)) = l - 1 /\ l \in Nat /\ l >= 1
      /\ \A i \in 1 .. l - 1 : Front(visitStack)[i] = visitStack[i]
  BY BelowTop, FramesOfPath
<1>6. /\ visitStack' \in Seq(Frame) /\ DOMAIN visitStack' = 1 .. l
      /\ \A i \in 1 .. l - 1 : visitStack'[i] = visitStack[i]
      /\ visitStack'[l] = top
  <2>1. (l - 1) + 1 = l
    BY <1>5
  <2> HIDE DEF l
  <2> QED BY <1>3, <1>4, <1>5, <2>1, AppendedFrame
<1> QED BY <1>3, <1>4, <1>6 DEF SeenStep

(* A node that is seen for the first time: it is numbered and goes on top  *)
(* of both stacks.                                                         *)
VisitedStep(n, below) ==
  /\ DOMAIN numbers' = DOMAIN numbers \cup {n}
  /\ numbers'[n] = Cardinality(DOMAIN numbers) + 1
  /\ \A m \in DOMAIN numbers : numbers'[m] = numbers[m]
  /\ sccStack' \in Seq(DOMAIN numbers') /\ DOMAIN sccStack' = 1 .. Len(sccStack) + 1
  /\ \A i \in 1 .. Len(sccStack) : sccStack'[i] = sccStack[i]
  /\ sccStack'[Len(sccStack) + 1] = n
  /\ Stacked' = Stacked \cup {n}
  /\ visitStack' \in Seq(Frame) /\ DOMAIN visitStack' = 1 .. Len(below) + 1
  /\ \A i \in 1 .. Len(below) : visitStack'[i] = below[i]
  /\ visitStack'[Len(below) + 1].node = n
  /\ visitStack'[Len(below) + 1].children = CopySucc(edges, n)
  /\ visitStack'[Len(below) + 1].min = Cardinality(DOMAIN numbers) + 1
  /\ visited' = visited \cup {n}

LEMMA VisitedIsStep ==
  ASSUME TypeOK, NEW n \in Nodes \ DOMAIN numbers, NEW below \in Seq(Frame),
         DFSVisitOne(n, below)
  PROVE  VisitedStep(n, below)
<1> DEFINE number == Cardinality(DOMAIN numbers) + 1
           top == [node |-> n, children |-> CopySucc(edges, n), min |-> number]
<1>1. /\ numbers' = [m \in DOMAIN numbers \cup {n} |-> IF m = n THEN number ELSE numbers[m]]
      /\ sccStack' = Append(sccStack, n)
      /\ visitStack' = Append(below, top)
      /\ visited' = visited \cup {n}
  BY DEF DFSVisitOne, NewFrame
<1>2. number \in 1 .. MaxNumber
  BY CountOfNumbers, MaxNumberIsNat
<1>3. top \in Frame
  BY <1>2 DEF Frame, CopySucc
<1>4. top.node = n /\ top.children = CopySucc(edges, n) /\ top.min = number
  OBVIOUS
<1>5. /\ DOMAIN numbers' = DOMAIN numbers \cup {n}
      /\ numbers'[n] = number
      /\ \A m \in DOMAIN numbers : numbers'[m] = numbers[m]
  <2> HIDE DEF number
  <2> QED BY <1>1
<1>6. sccStack \in Seq(DOMAIN numbers')
  <2>1. sccStack \in Seq(DOMAIN numbers)
    BY DEF TypeOK
  <2>2. DOMAIN numbers \subseteq DOMAIN numbers'
    BY <1>5
  <2> QED BY <2>1, <2>2, SeqMonotonic
<1>7. /\ sccStack' \in Seq(DOMAIN numbers') /\ DOMAIN sccStack' = 1 .. Len(sccStack) + 1
      /\ \A i \in 1 .. Len(sccStack) : sccStack'[i] = sccStack[i]
      /\ sccStack'[Len(sccStack) + 1] = n /\ Len(sccStack) \in Nat
  <2>1. n \in DOMAIN numbers'
    BY <1>5
  <2> QED BY <1>1, <1>6, <2>1, AppendedFrame
<1>8. Stacked' = Stacked \cup {n}
  <2>1. DOMAIN sccStack = 1 .. Len(sccStack)
    BY <1>6, LenProperties
  <2>2. DOMAIN sccStack' = DOMAIN sccStack \cup {Len(sccStack) + 1}
    BY <1>7, <2>1
  <2> QED BY <1>7, <2>1, <2>2 DEF Stacked, ToSet
<1> HIDE DEF top, number
<1>9. /\ visitStack' \in Seq(Frame) /\ DOMAIN visitStack' = 1 .. Len(below) + 1
      /\ \A i \in 1 .. Len(below) : visitStack'[i] = below[i]
      /\ visitStack'[Len(below) + 1] = top
  BY <1>1, <1>3, AppendedFrame
<1> QED BY <1>1, <1>4, <1>5, <1>7, <1>8, <1>9 DEF VisitedStep, number

(* A child that was not: the path goes on to it.                           *)
DescendStep(child) ==
  /\ UNCHANGED <<graphVars, lastRoot, current, delivered, pc>>
  /\ child \in Top.children /\ child \notin DOMAIN numbers
  /\ DOMAIN numbers' = DOMAIN numbers \cup {child}
  /\ numbers'[child] = Cardinality(DOMAIN numbers) + 1
  /\ \A m \in DOMAIN numbers : numbers'[m] = numbers[m]
  /\ sccStack' \in Seq(DOMAIN numbers') /\ DOMAIN sccStack' = 1 .. Len(sccStack) + 1
  /\ \A i \in 1 .. Len(sccStack) : sccStack'[i] = sccStack[i]
  /\ sccStack'[Len(sccStack) + 1] = child
  /\ Stacked' = Stacked \cup {child}
  /\ visitStack' \in Seq(Frame) /\ DOMAIN visitStack' = 1 .. Len(visitStack) + 1
  /\ \A i \in 1 .. Len(visitStack) - 1 : visitStack'[i] = visitStack[i]
  /\ LET frame == visitStack'[Len(visitStack)]
     IN  frame.node = Top.node /\ frame.children = Top.children \ {child} /\ frame.min = Top.min
  /\ LET top == visitStack'[Len(visitStack) + 1]
     IN  /\ top.node = child /\ top.children = CopySucc(edges, child)
         /\ top.min = Cardinality(DOMAIN numbers) + 1
  /\ visited' = visited \cup {child}

LEMMA DescendIsStep ==
  ASSUME TypeOK, visitStack # <<>>, NEW child \in Nodes \ DOMAIN numbers, VisitChild(child)
  PROVE  DescendStep(child)
<1> DEFINE frame == [Top EXCEPT !.children = @ \ {child}]
           below == Append(Front(visitStack), frame)
           l == Len(visitStack)
<1>1. /\ DFSVisitOne(child, below)
      /\ child \in Top.children /\ child \notin DOMAIN numbers
      /\ UNCHANGED <<graphVars, lastRoot, current, delivered, pc>>
  BY DEF VisitChild
<1>2. /\ frame \in Frame /\ frame.node = Top.node /\ frame.children = Top.children \ {child}
      /\ frame.min = Top.min
  BY BelowTop, ChildTaken
<1> HIDE DEF frame
<1>3. /\ Front(visitStack) \in Seq(Frame) /\ Len(Front(visitStack)) = l - 1 /\ l \in Nat /\ l >= 1
      /\ \A i \in 1 .. l - 1 : Front(visitStack)[i] = visitStack[i]
  BY BelowTop, FramesOfPath
<1>4. /\ below \in Seq(Frame) /\ Len(below) = l
      /\ \A i \in 1 .. l - 1 : below[i] = visitStack[i]
      /\ below[l] = frame
  <2>1. (l - 1) + 1 = l
    BY <1>3
  <2> HIDE DEF l
  <2> QED BY <1>2, <1>3, <2>1, AppendedFrame
<1> HIDE DEF below
<1>5. VisitedStep(child, below)
  BY <1>1, <1>4, VisitedIsStep
<1>6. /\ \A i \in 1 .. l - 1 : visitStack'[i] = visitStack[i]
      /\ visitStack'[l] = frame
  <2>1. \A i \in 1 .. l : visitStack'[i] = below[i]
    BY <1>4, <1>5 DEF VisitedStep
  <2>2. l \in 1 .. l /\ \A i \in 1 .. l - 1 : i \in 1 .. l
    BY <1>3
  <2> QED BY <1>4, <2>1, <2>2
<1> QED BY <1>1, <1>2, <1>4, <1>5, <1>6 DEF VisitedStep, DescendStep

(* A node that was left: what it leads to, if it is lower, is passed to    *)
(* the node below.                                                         *)
LeftStep ==
  /\ Top.children = {}
  /\ UNCHANGED <<graphVars, visited, lastRoot>>
  /\ visitStack' \in Seq(Frame) /\ DOMAIN visitStack' = 1 .. Len(visitStack) - 1
  /\ \A i \in 1 .. Len(visitStack) - 2 : visitStack'[i] = visitStack[i]
  /\ Len(visitStack) > 1 =>
       LET old == visitStack[Len(visitStack) - 1]
           top == visitStack'[Len(visitStack) - 1]
       IN  /\ top.node = old.node /\ top.children = old.children
           /\ top.min <= old.min /\ top.min <= Top.min
           /\ old.min <= Top.min => top = old
           /\ Top.min < old.min => top.min = Top.min

LEMMA LeftIsStep ==
  ASSUME TypeOK, visitStack # <<>>, PopNode
  PROVE  LeftStep
<1> DEFINE l == Len(visitStack)
           front == Front(visitStack)
<1>1. /\ Top.children = {}
      /\ visitStack' = IF front = <<>> THEN front
                       ELSE Append(Front(front), Lowered(Last(front), Top.min))
      /\ UNCHANGED <<graphVars, visited, lastRoot>>
  BY DEF PopNode, Uplink
<1>2. /\ front \in Seq(Frame) /\ Len(front) = l - 1 /\ l \in Nat /\ l >= 1
      /\ \A i \in 1 .. l - 1 : front[i] = visitStack[i]
  BY BelowTop, FramesOfPath
<1>3. Top.min \in 1 .. MaxNumber
  BY BelowTop DEF Frame
<1>4. CASE front = <<>>
  <2>1. visitStack' = <<>> /\ l = 1
    BY <1>1, <1>2, <1>4, EmptySeq
  <2>2. visitStack' \in Seq(Frame) /\ DOMAIN visitStack' = {}
    BY <2>1, EmptySeq
  <2>3. DOMAIN visitStack' = 1 .. l - 1 /\ 1 .. l - 2 = {} /\ ~(l > 1)
    BY <2>1, <2>2
  <2> QED BY <1>1, <2>2, <2>3 DEF LeftStep
<1>5. CASE front # <<>>
  <2> DEFINE old == visitStack[l - 1]
             top == Lowered(old, Top.min)
             below == Front(front)
  <2>1. l - 1 \in Nat /\ l - 1 >= 1 /\ Last(front) = old
    <3>1. l - 1 \in Nat \ {0}
      BY <1>2, <1>5, EmptySeq
    <3>2. Last(front) = front[l - 1]
      BY <1>2 DEF Last
    <3>3. l - 1 \in 1 .. l - 1
      BY <1>2, <3>1
    <3> HIDE DEF l
    <3> QED BY <1>2, <3>1, <3>2, <3>3
  <2>2. old \in Frame
    BY <1>2, <2>1, FramesOfPath
  <2>3. /\ top \in Frame /\ top.node = old.node /\ top.children = old.children
        /\ top.min <= old.min /\ top.min <= Top.min
        /\ old.min <= Top.min => top = old
        /\ Top.min < old.min => top.min = Top.min
    <3>1. old.min \in 1 .. MaxNumber /\ MaxNumber \in Nat
      BY <2>2, MaxNumberIsNat DEF Frame
    <3>2. old.min <= Top.min => Top.min >= old.min
      BY <1>3, <3>1
    <3> HIDE DEF old
    <3> QED BY <1>3, <2>2, <3>2, LoweredFrame
  <2>4. visitStack' = Append(below, top)
    BY <1>1, <1>5, <2>1
  <2> HIDE DEF top
  <2>5. /\ below \in Seq(Frame) /\ Len(below) = l - 2
        /\ \A i \in 1 .. l - 2 : below[i] = front[i]
    <3>1. \A i \in 1 .. l - 2 : front[i] \in Frame
      <4>1. \A i \in 1 .. l - 1 : front[i] \in Frame
        BY <1>2, ElementOfSeq
      <4>2. \A i \in 1 .. l - 2 : i \in 1 .. l - 1
        BY <2>1
      <4> QED BY <4>1, <4>2
    <3>2. 1 \in Int /\ l - 2 \in Int /\ below = SubSeq(front, 1, l - 2)
      <4>1. (l - 1) - 1 = l - 2
        BY <1>2
      <4> QED BY <1>2, <4>1 DEF Front
    <3>3. /\ (IF 1 <= l - 2 THEN (l - 2) - 1 + 1 ELSE 0) = l - 2
          /\ (l - 2) - 1 + 1 = l - 2
          /\ \A i \in 1 .. l - 2 : 1 + i - 1 = i
      <4>1. l \in Int /\ l >= 2
        BY <1>2, <2>1
      <4> HIDE DEF l
      <4> QED BY <4>1
    <3> HIDE DEF below, front, l
    <3>4. /\ SubSeq(front, 1, l - 2) \in Seq(Frame)
          /\ Len(SubSeq(front, 1, l - 2)) = IF 1 <= l - 2 THEN (l - 2) - 1 + 1 ELSE 0
          /\ \A i \in 1 .. (l - 2) - 1 + 1 : SubSeq(front, 1, l - 2)[i] = front[1 + i - 1]
      BY <3>1, <3>2, SubSeqProperties
    <3> QED BY <3>2, <3>3, <3>4
  <2>6. \A i \in 1 .. l - 2 : below[i] = visitStack[i]
    <3>1. \A i \in 1 .. l - 2 : i \in 1 .. l - 1
      BY <2>1
    <3> QED BY <1>2, <2>5, <3>1
  <2>7. (l - 2) + 1 = l - 1
    BY <2>1
  <2> HIDE DEF below
  <2>8. /\ visitStack' \in Seq(Frame) /\ DOMAIN visitStack' = 1 .. l - 1
        /\ \A i \in 1 .. l - 2 : visitStack'[i] = visitStack[i]
        /\ visitStack'[l - 1] = top
    <3> HIDE DEF l
    <3> QED BY <2>3, <2>4, <2>5, <2>6, <2>7, AppendedFrame
  <2> QED BY <1>1, <2>3, <2>8 DEF LeftStep
<1> QED BY <1>4, <1>5

(* A complete component leaves the component stack.                        *)
DeliverStep ==
  LET n == Top.node
      scc == {m \in Stacked : numbers[n] <= numbers[m]}
  IN  /\ ToSet(current') = scc /\ current' \in Seq(Nodes)
      /\ delivered' = Append(delivered, scc)
      /\ delivered' \in Seq(SUBSET Nodes) /\ ToSet(delivered') = ToSet(delivered) \cup {scc}
      /\ Done' = Done \cup scc
      /\ Stacked' = Stacked \ scc
      /\ DOMAIN numbers' = DOMAIN numbers
      /\ \A m \in scc : numbers'[m] = MaxNumber
      /\ \A m \in DOMAIN numbers \ scc : numbers'[m] = numbers[m]
      /\ sccStack' \in Seq(DOMAIN numbers) /\ DOMAIN sccStack' \subseteq DOMAIN sccStack
      /\ \A i \in DOMAIN sccStack' : sccStack'[i] = sccStack[i]
      /\ pc' = "deliver"

LEMMA DeliverIsStep ==
  ASSUME TypeOK, Numbered, NEW n, n = Top.node, n \in Stacked, Top.min = numbers[n], PopNode
  PROVE  DeliverStep
<1> DEFINE scc == {m \in Stacked : numbers[n] <= numbers[m]}
           p == Position(n)
           l == Len(sccStack)
<1>1. /\ current' = Component(n)
      /\ sccStack' = SubSeq(sccStack, 1, p - 1)
      /\ numbers' = ResetNumbers(ToSet(current'))
      /\ delivered' = Append(delivered, ToSet(current'))
      /\ pc' = "deliver"
  BY DEF PopNode
<1>2. /\ Component(n) \in Seq(Stacked) /\ ToSet(Component(n)) = scc
      /\ p \in 1 .. l /\ sccStack[p] = n
  BY StackedSince
<1> HIDE DEF p
<1>3. ToSet(current') = scc
  BY <1>1, <1>2
<1>4. scc \subseteq Stacked /\ Stacked \subseteq Nodes /\ Stacked \subseteq DOMAIN numbers
  BY StackedNumbers
<1>5. current' \in Seq(Nodes)
  BY <1>1, <1>2, <1>4, SeqMonotonic
<1>6. l \in Nat /\ DOMAIN sccStack = 1 .. l
  BY StackedNumbers
<1>7. numbers' = [m \in DOMAIN numbers |-> IF m \in scc THEN MaxNumber ELSE numbers[m]]
  BY <1>1, <1>3 DEF ResetNumbers
<1>8. /\ DOMAIN numbers' = DOMAIN numbers
      /\ \A m \in scc : numbers'[m] = MaxNumber
      /\ \A m \in DOMAIN numbers \ scc : numbers'[m] = numbers[m]
  <2> HIDE DEF scc
  <2> QED BY <1>4, <1>7
<1>9. /\ delivered' = Append(delivered, scc) /\ delivered' \in Seq(SUBSET Nodes)
      /\ ToSet(delivered') = ToSet(delivered) \cup {scc}
  <2>1. delivered' = Append(delivered, scc) /\ scc \in SUBSET Nodes
    BY <1>1, <1>3, <1>4
  <2>2. delivered \in Seq(SUBSET Nodes)
    BY DEF TypeOK
  <2>3. /\ delivered' \in Seq(SUBSET Nodes)
        /\ DOMAIN delivered' = 1 .. Len(delivered) + 1 /\ Len(delivered) \in Nat
        /\ \A i \in 1 .. Len(delivered) : delivered'[i] = delivered[i]
        /\ delivered'[Len(delivered) + 1] = scc
    <3> HIDE DEF scc
    <3> QED BY <2>1, <2>2, AppendedFrame
  <2>4. DOMAIN delivered = 1 .. Len(delivered)
    BY <2>2, LenProperties
  <2>5. DOMAIN delivered' = DOMAIN delivered \cup {Len(delivered) + 1}
    BY <2>3, <2>4
  <2>6. ToSet(delivered') = ToSet(delivered) \cup {scc}
    <3> HIDE DEF scc
    <3> QED BY <2>3, <2>4, <2>5 DEF ToSet
  <2> QED BY <2>1, <2>3, <2>6
<1>10. Done' = Done \cup scc
  <2> HIDE DEF scc
  <2> QED BY <1>9 DEF Done
<1>11. \A i \in 1 .. l : /\ sccStack[i] \in Stacked
                         /\ i < p <=> ~(numbers[n] <= numbers[sccStack[i]])
  <2>1. \A i \in 1 .. l : sccStack[i] \in Stacked
    BY <1>6 DEF Stacked, ToSet
  <2>2. \A i, j \in 1 .. l : i < j => numbers[sccStack[i]] < numbers[sccStack[j]]
    BY <1>6 DEF Numbered
  <2>3. \A i \in 1 .. l : numbers[sccStack[i]] \in Nat
    BY <2>1, StackedNumbers
  <2>4. ASSUME NEW i \in 1 .. l
        PROVE  i < p <=> ~(numbers[n] <= numbers[sccStack[i]])
    <3>1. i < p \/ i = p \/ p < i
      BY <1>2, <1>6
    <3> QED BY <1>2, <2>2, <2>3, <3>1
  <2> QED BY <2>1, <2>4
<1>12. /\ sccStack' \in Seq(DOMAIN numbers) /\ DOMAIN sccStack' = 1 .. p - 1
       /\ \A i \in 1 .. p - 1 : sccStack'[i] = sccStack[i]
  <2>1. 1 \in Int /\ p - 1 \in Int /\ \A i \in 1 .. p - 1 : i \in 1 .. l
    BY <1>2, <1>6
  <2>2. \A i \in 1 .. p - 1 : sccStack[i] \in DOMAIN numbers
    BY <1>4, <1>11, <2>1
  <2>3. /\ (IF 1 <= p - 1 THEN (p - 1) - 1 + 1 ELSE 0) = p - 1
        /\ (p - 1) - 1 + 1 = p - 1
        /\ \A i \in 1 .. p - 1 : 1 + i - 1 = i
    <3>1. p \in Int /\ p >= 1
      BY <1>2, <1>6
    <3> QED BY <3>1
  <2>4. /\ sccStack' \in Seq(DOMAIN numbers)
        /\ Len(sccStack') = p - 1
        /\ \A i \in 1 .. p - 1 : sccStack'[i] = sccStack[1 + i - 1]
    BY <1>1, <2>1, <2>2, <2>3, SubSeqProperties
  <2> QED BY <2>3, <2>4, LenProperties
<1>13. DOMAIN sccStack' \subseteq DOMAIN sccStack
       /\ \A i \in DOMAIN sccStack' : sccStack'[i] = sccStack[i]
  BY <1>2, <1>6, <1>12
<1>14. Stacked' = Stacked \ scc
  <2>1. \A i \in 1 .. l : i \in 1 .. p - 1 <=> i < p
    BY <1>2, <1>6
  <2>2. ASSUME NEW m \in Stacked'
        PROVE  m \in Stacked \ scc
    <3>1. PICK i \in 1 .. p - 1 : m = sccStack[i]
      BY <1>12 DEF Stacked, ToSet
    <3>2. i \in 1 .. l
      BY <1>6, <1>12, <1>13
    <3> QED BY <1>11, <2>1, <3>1, <3>2
  <2>3. ASSUME NEW m \in Stacked \ scc
        PROVE  m \in Stacked'
    <3>1. PICK i \in 1 .. l : m = sccStack[i]
      BY <1>6 DEF Stacked, ToSet
    <3>2. i \in 1 .. p - 1
      BY <1>11, <2>1, <2>3, <3>1
    <3>3. m = sccStack'[i] /\ i \in DOMAIN sccStack'
      BY <1>12, <3>1, <3>2
    <3> QED BY <3>3 DEF Stacked, ToSet
  <2> QED BY <2>2, <2>3
<1> QED BY <1>1, <1>3, <1>5, <1>8, <1>9, <1>10, <1>12, <1>13, <1>14 DEF DeliverStep

(***************************************************************************)
(* The path from the root to the node being visited.                       *)
(***************************************************************************)

LEMMA PathFacts ==
  ASSUME TypeOK, Numbered, PathIsStacked
  PROVE  /\ Len(visitStack) \in Nat /\ DOMAIN visitStack = 1 .. Len(visitStack)
         /\ \A i \in 1 .. Len(visitStack) :
              /\ visitStack[i].node \in Stacked
              /\ visitStack[i].min \in Nat
              /\ visitStack[i].children \subseteq CopySucc(edges, visitStack[i].node)
         /\ \A i, j \in 1 .. Len(visitStack) :
              /\ i < j => numbers[visitStack[i].node] < numbers[visitStack[j].node]
              /\ i <= j => numbers[visitStack[i].node] <= numbers[visitStack[j].node]
<1> DEFINE l == Len(visitStack)
<1>1. l \in Nat /\ DOMAIN visitStack = 1 .. l /\ \A i \in 1 .. l : visitStack[i] \in Frame
  BY FramesOfPath
<1>2. \A i \in 1 .. l : /\ visitStack[i].node \in Stacked
                        /\ visitStack[i].children \subseteq CopySucc(edges, visitStack[i].node)
  BY <1>1 DEF PathIsStacked, PathNode
<1>3. \A i \in 1 .. l : visitStack[i].min \in Nat
  BY <1>1, MaxNumberIsNat DEF Frame
<1>4. \A i, j \in 1 .. l : i < j => numbers[visitStack[i].node] < numbers[visitStack[j].node]
  BY <1>1 DEF PathIsStacked, PathNode
<1>5. ASSUME NEW i \in 1 .. l, NEW j \in 1 .. l, i <= j
      PROVE  numbers[visitStack[i].node] <= numbers[visitStack[j].node]
  <2>1. numbers[visitStack[i].node] \in Nat /\ numbers[visitStack[j].node] \in Nat
    BY <1>2, StackedNumbers
  <2>2. i = j \/ i < j
    BY <1>1, <1>5
  <2> QED BY <1>4, <2>1, <2>2
<1> QED BY <1>1, <1>2, <1>3, <1>4, <1>5

(* StackIsOpen in terms of the places on the path.                         *)
Open ==
  \A n \in Stacked : \E i \in DOMAIN visitStack :
    /\ numbers[visitStack[i].node] <= numbers[n]
    /\ Reaches(visitStack[i].node, n)
    /\ Reaches(n, visitStack[i].node)

LEMMA OpenMeans == PathIsStacked => (StackIsOpen <=> Open)
<1> SUFFICES ASSUME PathIsStacked
             PROVE  StackIsOpen <=> Open
  OBVIOUS
<1> DEFINE reached == [n \in Stacked |-> ReachedFrom(edges, {n})]
           onPath == {visitStack[i].node : i \in DOMAIN visitStack}
<1>1. \A i \in DOMAIN visitStack : visitStack[i].node \in Stacked
  BY DEF PathIsStacked, PathNode
<1>2. StackIsOpen <=> \A n \in Stacked : \E m \in onPath :
                        /\ numbers[m] <= numbers[n] /\ n \in reached[m] /\ m \in reached[n]
  BY DEF StackIsOpen, Stacked
<1>3. \A n \in Stacked : reached[n] = ReachedFrom(edges, {n})
  OBVIOUS
<1> HIDE DEF reached
<1>4. \A n \in Stacked : \A i \in DOMAIN visitStack :
        /\ n \in reached[visitStack[i].node] <=> Reaches(visitStack[i].node, n)
        /\ visitStack[i].node \in reached[n] <=> Reaches(n, visitStack[i].node)
  BY <1>1, <1>3 DEF Reaches
<1>5. StackIsOpen <=> \A n \in Stacked : \E i \in DOMAIN visitStack :
                        /\ numbers[visitStack[i].node] <= numbers[n]
                        /\ n \in reached[visitStack[i].node]
                        /\ visitStack[i].node \in reached[n]
  BY <1>2
<1> QED BY <1>4, <1>5 DEF Open

LEMMA OpenMeansAfter == PathIsStacked' => (StackIsOpen' <=> Open')
BY OpenMeans, PTL

LEMMA SameReach ==
  ASSUME UNCHANGED graphVars
  PROVE  /\ Live' = Live /\ Roots' = Roots
         /\ \A a, b : Reaches(a, b)' <=> Reaches(a, b)
<1>1. edges' = edges /\ collapsed' = collapsed /\ workList' = workList
  BY DEF graphVars
<1>2. Roots' = Roots
  BY <1>1 DEF Roots
<1> QED BY <1>1, <1>2 DEF Live, Reaches

(***************************************************************************)
(* The invariant, step by step.                                            *)
(***************************************************************************)

(* Looking at a child that was seen.                                       *)
LEMMA SeenKeeps ==
  ASSUME Inv, pc = "visit", NEW child \in DOMAIN numbers, SeenStep(child)
  PROVE  Inv'
<1> DEFINE l == Len(visitStack)
           top == visitStack'[l]
<1>1. TypeOK /\ Numbered /\ PathIsStacked /\ visitStack # <<>>
  BY DEF Inv, PathIsStacked
<1>2. /\ l \in Nat /\ l >= 1 /\ DOMAIN visitStack = 1 .. l /\ Top = visitStack[l]
      /\ DOMAIN visitStack' = 1 .. l
  BY <1>1, PathFacts, BelowTop DEF SeenStep
<1>3. /\ UNCHANGED <<graphVars, visited, numbers, sccStack, lastRoot, current, delivered, pc>>
      /\ child \in Top.children
      /\ visitStack' \in Seq(Frame)
  BY DEF SeenStep
<1>4. /\ Stacked' = Stacked /\ Done' = Done /\ Live' = Live
      /\ edges' = edges /\ numbers' = numbers /\ sccStack' = sccStack /\ delivered' = delivered
      /\ \A a, b : Reaches(a, b)' <=> Reaches(a, b)
  BY <1>3, SameReach DEF Stacked, Done, graphVars
<1>5. /\ top.node = Top.node /\ top.children = Top.children \ {child}
      /\ top.min <= Top.min /\ top.min <= numbers[child]
      /\ top.min = Top.min \/ (top.min = numbers[child] /\ numbers[child] < Top.min)
      /\ \A i \in 1 .. l - 1 : visitStack'[i] = visitStack[i]
  BY DEF SeenStep
<1>6. \A i \in 1 .. l : /\ visitStack'[i].node = visitStack[i].node
                        /\ visitStack'[i].children \subseteq visitStack[i].children
                        /\ i < l => visitStack'[i] = visitStack[i]
  <2> TAKE i \in 1 .. l
  <2>1. CASE i = l
    BY <1>2, <1>5, <2>1
  <2>2. CASE i < l
    <3>1. i \in 1 .. l - 1
      BY <1>2, <2>2
    <3> QED BY <1>5, <3>1
  <2>3. i = l \/ i < l
    <3> HIDE DEF l
    <3> QED BY <1>2
  <2> QED BY <2>1, <2>2, <2>3
<1>7. \A n, m : ToVisit(n, m) => ToVisit(n, m)' \/ (n = Top.node /\ m = child)
  <2> SUFFICES ASSUME NEW n, NEW m, ToVisit(n, m), ~(n = Top.node /\ m = child)
               PROVE  ToVisit(n, m)'
    OBVIOUS
  <2>1. PICK i \in 1 .. l : visitStack[i].node = n /\ m \in visitStack[i].children
    BY <1>2 DEF ToVisit, PathNode
  <2>2. m \in visitStack'[i].children
    <3>1. CASE i = l
      BY <1>2, <1>5, <2>1, <3>1
    <3>2. CASE i # l
      <4>1. i < l
        <5> HIDE DEF l
        <5> QED BY <1>2, <2>1, <3>2
      <4> QED BY <1>6, <2>1, <4>1
    <3> QED BY <3>1, <3>2
  <2>3. visitStack'[i].node = n /\ i \in DOMAIN visitStack'
    BY <1>2, <1>6, <2>1
  <2> QED BY <2>2, <2>3 DEF ToVisit, PathNode
<1>8. /\ \A i \in 1 .. l : visitStack[i].node \in Stacked /\ visitStack[i].min \in Nat
      /\ \A i, j \in 1 .. l : i <= j => numbers[visitStack[i].node] <= numbers[visitStack[j].node]
      /\ \A n \in Stacked : numbers[n] \in Nat /\ numbers[n] < MaxNumber
  BY <1>1, PathFacts, StackedNumbers
<1>9. l \in 1 .. l
  BY <1>2
<1>10. child \in CopySucc(edges, Top.node)
  BY <1>1, <1>2, <1>3, <1>9, PathFacts
<1>11. child \in Done => numbers[child] = MaxNumber
  BY <1>1 DEF Numbered
<1>12. Top.min <= numbers[Top.node]
  BY <1>2, <1>9 DEF Inv, MinIsReached, PathNode
<1>13. child \in Stacked \/ child \in Done
  BY <1>1 DEF Numbered
<1> HIDE DEF top
<1>14. TypeOK'
  BY <1>1, <1>3, <1>4 DEF TypeOK, graphVars
<1>15. Numbered'
  BY <1>1, <1>3, <1>4 DEF Numbered, graphVars
<1>16. PathIsStacked'
  <2>1. visitStack' # <<>>
    BY <1>2, <1>9
  <2>2. \A i \in DOMAIN visitStack' :
          /\ PathNode(i)' \in Stacked'
          /\ visitStack'[i].children \subseteq CopySucc(edges', PathNode(i)')
    BY <1>1, <1>2, <1>4, <1>6 DEF PathIsStacked, PathNode
  <2>3. \A i, j \in DOMAIN visitStack' : i < j => numbers'[PathNode(i)'] < numbers'[PathNode(j)']
    BY <1>1, <1>2, <1>4, <1>6 DEF PathIsStacked, PathNode
  <2> QED BY <2>1, <2>2, <2>3 DEF PathIsStacked
<1>17. PathLeadsOn'
  <2>1. \A i \in DOMAIN visitStack' : PathNode(i)' = PathNode(i) /\ i \in DOMAIN visitStack
    BY <1>2, <1>6 DEF PathNode
  <2>2. \A i \in DOMAIN visitStack' : \A n \in Stacked' :
          numbers'[visitStack'[i].node] <= numbers'[n]
            => n \in ReachedFrom(edges', {visitStack'[i].node})
    BY <1>4, <2>1 DEF Inv, PathLeadsOn, PathNode, Reaches
  <2> QED BY <2>2 DEF PathLeadsOn, PathNode, Reaches
<1>18. MinIsReached'
  <2> SUFFICES ASSUME NEW i \in DOMAIN visitStack'
               PROVE  /\ visitStack'[i].min <= numbers'[visitStack'[i].node]
                      /\ \E n \in Stacked' : /\ visitStack'[i].min = numbers'[n]
                                             /\ n \in ReachedFrom(edges', {visitStack'[i].node})
    BY DEF MinIsReached, PathNode, Reaches
  <2>1. /\ visitStack[i].min <= numbers[visitStack[i].node]
        /\ \E n \in Stacked : /\ visitStack[i].min = numbers[n]
                              /\ n \in ReachedFrom(edges, {visitStack[i].node})
    BY <1>2 DEF Inv, MinIsReached, PathNode, Reaches
  <2>2. CASE visitStack'[i].min = visitStack[i].min
    BY <1>2, <1>4, <1>6, <2>1, <2>2
  <2>3. CASE visitStack'[i].min # visitStack[i].min
    <3>1. i = l
      BY <1>2, <1>6, <2>3
    <3>2. top.min = numbers[child] /\ numbers[child] < Top.min
      BY <1>2, <1>5, <2>3, <3>1 DEF top
    <3>3. Top.min \in Nat /\ numbers[Top.node] \in Nat /\ numbers[Top.node] < MaxNumber
      BY <1>2, <1>8, <1>9
    <3>4. child \in Stacked
      BY <1>11, <1>12, <1>13, <3>2, <3>3, MaxNumberIsNat
    <3>5. Reaches(Top.node, Top.node)
      BY <1>1, <1>2, <1>8, <1>9, StackedNumbers, ReachesSelf
    <3>6. Reaches(Top.node, child)
      BY <1>10, <3>5, ReachesNext
    <3>7. top.min <= numbers[Top.node]
      BY <1>8, <1>12, <3>2, <3>3, <3>4
    <3> QED BY <1>2, <1>4, <1>5, <3>1, <3>2, <3>4, <3>6, <3>7 DEF top, Reaches
  <2> QED BY <2>2, <2>3
<1>19. MinIsLowest'
  <2> SUFFICES ASSUME NEW i \in DOMAIN visitStack', NEW n \in Stacked',
                      numbers'[visitStack'[i].node] <= numbers'[n],
                      i + 1 \in DOMAIN visitStack' => numbers'[n] < numbers'[visitStack'[i + 1].node],
                      NEW m \in CopySucc(edges', n) \cap Stacked'
               PROVE  ToVisit(n, m)' \/ visitStack'[i].min <= numbers'[m]
    BY DEF MinIsLowest, PathNode
  <2>1. i \in 1 .. l /\ n \in Stacked /\ m \in CopySucc(edges, n) \cap Stacked
    BY <1>2, <1>4
  <2>2. /\ numbers[visitStack[i].node] <= numbers[n]
        /\ i + 1 \in 1 .. l => numbers[n] < numbers[visitStack[i + 1].node]
    BY <1>2, <1>4, <1>6, <2>1
  <2>3. ToVisit(n, m) \/ visitStack[i].min <= numbers[m]
    BY <1>2, <2>1, <2>2 DEF Inv, MinIsLowest, PathNode
  <2>4. visitStack[i].min <= numbers[m] => visitStack'[i].min <= numbers[m]
    <3>1. CASE i < l
      BY <1>6, <2>1, <3>1
    <3>2. CASE i = l
      <4>1. top \in Frame
        BY <1>3, <1>2, <1>9, <1>14, ElementOfSeq, LenProperties DEF top
      <4>2. top.min \in Nat
        BY <4>1, MaxNumberIsNat DEF Frame
      <4> QED BY <1>2, <1>5, <1>8, <2>1, <3>2, <4>2 DEF top
    <3> QED BY <1>2, <2>1, <3>1, <3>2
  <2>5. CASE n = Top.node /\ m = child
    <3>1. i = l
      <4>1. SUFFICES ASSUME i < l
                     PROVE  FALSE
        BY <2>1, <1>2
      <4>2. i + 1 \in 1 .. l
        BY <1>2, <2>1, <4>1
      <4>3. numbers[visitStack[i + 1].node] <= numbers[visitStack[l].node]
        BY <1>8, <1>9, <4>2
      <4>4. numbers[visitStack[i + 1].node] \in Nat /\ numbers[n] \in Nat
        BY <1>8, <2>1, <4>2
      <4> QED BY <1>2, <2>2, <2>5, <4>2, <4>3, <4>4
    <3> QED BY <1>4, <1>5, <2>5, <3>1 DEF top
  <2> QED BY <1>4, <1>7, <2>3, <2>4, <2>5
<1>20. Explored'
  <2>1. ASSUME NEW n \in Stacked, NEW m \in CopySucc(edges, n)
        PROVE  m \in DOMAIN numbers \/ ToVisit(n, m)'
    BY <1>7 DEF Inv, Explored
  <2>2. \A n \in Done : CopySucc(edges, n) \subseteq Done
    BY DEF Inv, Explored
  <2>3. /\ \A n \in Stacked' : \A m \in CopySucc(edges', n) : m \in DOMAIN numbers' \/ ToVisit(n, m)'
        /\ \A n \in Done' : CopySucc(edges', n) \subseteq Done'
    BY <1>4, <2>1, <2>2
  <2> QED BY <2>3 DEF Explored
<1>21. DeliveredAreSCCs'
  BY <1>4 DEF Inv, DeliveredAreSCCs
<1>22. StackIsOpen'
  <2>1. Open
    BY <1>1, OpenMeans DEF Inv
  <2>2. Open'
    <3> SUFFICES ASSUME NEW n \in Stacked'
                 PROVE  \E i \in DOMAIN visitStack' :
                          /\ numbers'[visitStack'[i].node] <= numbers'[n]
                          /\ n \in ReachedFrom(edges', {visitStack'[i].node})
                          /\ visitStack'[i].node \in ReachedFrom(edges', {n})
      BY DEF Open, Reaches
    <3>1. PICK i \in 1 .. l : /\ numbers[visitStack[i].node] <= numbers[n]
                              /\ n \in ReachedFrom(edges, {visitStack[i].node})
                              /\ visitStack[i].node \in ReachedFrom(edges, {n})
      BY <1>2, <1>4, <2>1 DEF Open, Reaches
    <3> QED BY <1>2, <1>4, <1>6, <3>1
  <2> QED BY <1>16, <2>2, OpenMeansAfter
<1> QED BY <1>14, <1>15, <1>16, <1>17, <1>18, <1>19, <1>20, <1>21, <1>22 DEF Inv

(* Going on to a child that was not.                                       *)
LEMMA DescendKeeps ==
  ASSUME Inv, pc = "visit", NEW child \in Nodes \ DOMAIN numbers, DescendStep(child)
  PROVE  Inv'
<1> DEFINE l == Len(visitStack)
           k == Len(sccStack)
           number == Cardinality(DOMAIN numbers) + 1
<1>1. TypeOK /\ Numbered /\ PathIsStacked /\ visitStack # <<>>
  BY DEF Inv, PathIsStacked
<1>2. /\ l \in Nat /\ l >= 1 /\ DOMAIN visitStack = 1 .. l /\ Top = visitStack[l]
      /\ DOMAIN visitStack' = 1 .. l + 1
  BY <1>1, PathFacts, BelowTop DEF DescendStep
<1>3. /\ UNCHANGED <<graphVars, lastRoot, current, delivered, pc>>
      /\ child \in Top.children
      /\ visitStack' \in Seq(Frame)
      /\ visited' = visited \cup {child}
  BY DEF DescendStep
<1>4. /\ Stacked' = Stacked \cup {child} /\ Done' = Done /\ Live' = Live
      /\ edges' = edges /\ delivered' = delivered
      /\ \A a, b : Reaches(a, b)' <=> Reaches(a, b)
  BY <1>3, SameReach DEF Done, graphVars, DescendStep
<1>5. /\ DOMAIN numbers' = DOMAIN numbers \cup {child}
      /\ numbers'[child] = number
      /\ \A m \in DOMAIN numbers : numbers'[m] = numbers[m]
  BY DEF DescendStep
<1>6. /\ number \in Nat /\ number = Cardinality(DOMAIN numbers') /\ number < MaxNumber
      /\ \A n \in Stacked : numbers[n] < number
  <2>1. /\ Cardinality(DOMAIN numbers) \in Nat
        /\ Cardinality(DOMAIN numbers \cup {child}) = number /\ number < MaxNumber
    BY <1>1, CountOfNumbers
  <2>2. \A n \in Stacked : numbers[n] \in Nat /\ numbers[n] <= Cardinality(DOMAIN numbers)
    BY <1>1, StackedNumbers
  <2> QED BY <1>5, <2>1, <2>2
<1> HIDE DEF number
<1>7. /\ l \in 1 .. l /\ l + 1 \in 1 .. l + 1
      /\ \A i \in 1 .. l : i \in 1 .. l + 1 /\ i < l + 1 /\ i # l + 1
      /\ \A i \in 1 .. l + 1 : i \in 1 .. l \/ i = l + 1
  <2> HIDE DEF l
  <2> QED BY <1>2
<1>8. /\ \A i \in 1 .. l - 1 : visitStack'[i] = visitStack[i]
      /\ visitStack'[l].node = Top.node
      /\ visitStack'[l].children = Top.children \ {child}
      /\ visitStack'[l].min = Top.min
      /\ visitStack'[l + 1].node = child
      /\ visitStack'[l + 1].children = CopySucc(edges, child)
      /\ visitStack'[l + 1].min = number
  BY DEF DescendStep, number
<1>9. \A i \in 1 .. l : /\ visitStack'[i].node = visitStack[i].node
                        /\ visitStack'[i].children \subseteq visitStack[i].children
                        /\ visitStack'[i].min = visitStack[i].min
                        /\ i # l => visitStack'[i] = visitStack[i]
  <2> TAKE i \in 1 .. l
  <2>1. CASE i = l
    BY <1>2, <1>8, <2>1
  <2>2. CASE i # l
    <3>1. i \in 1 .. l - 1
      <4> HIDE DEF l
      <4> QED BY <1>2, <2>2
    <3> QED BY <1>8, <3>1
  <2> QED BY <2>1, <2>2
<1>10. \A n, m : ToVisit(n, m) => ToVisit(n, m)' \/ (n = Top.node /\ m = child)
  <2> SUFFICES ASSUME NEW n, NEW m, ToVisit(n, m), ~(n = Top.node /\ m = child)
               PROVE  ToVisit(n, m)'
    OBVIOUS
  <2>1. PICK i \in 1 .. l : visitStack[i].node = n /\ m \in visitStack[i].children
    BY <1>2 DEF ToVisit, PathNode
  <2>2. m \in visitStack'[i].children
    <3>1. CASE i = l
      BY <1>2, <1>8, <2>1, <3>1
    <3>2. CASE i # l
      BY <1>9, <2>1, <3>2
    <3> QED BY <3>1, <3>2
  <2>3. visitStack'[i].node = n /\ i \in DOMAIN visitStack'
    BY <1>2, <1>7, <1>9, <2>1
  <2> QED BY <2>2, <2>3 DEF ToVisit, PathNode
<1>11. \A m \in CopySucc(edges, child) : ToVisit(child, m)'
  BY <1>2, <1>7, <1>8 DEF ToVisit, PathNode
<1>12. /\ \A i \in 1 .. l : visitStack[i].node \in Stacked /\ visitStack[i].min \in Nat
       /\ \A i, j \in 1 .. l : i <= j => numbers[visitStack[i].node] <= numbers[visitStack[j].node]
       /\ \A n \in Stacked : n \in DOMAIN numbers /\ numbers[n] \in Nat /\ numbers'[n] = numbers[n]
       /\ k \in Nat /\ DOMAIN sccStack = 1 .. k
  BY <1>1, <1>5, PathFacts, StackedNumbers
<1>12a. \A n \in Stacked : numbers'[n] < numbers'[child] /\ ~(numbers'[child] <= numbers'[n])
  <2> TAKE n \in Stacked
  <2>1. numbers[n] \in Nat /\ numbers'[n] = numbers[n] /\ numbers[n] < number
    BY <1>6, <1>12
  <2> QED BY <1>5, <1>6, <2>1
<1>13. child \notin Stacked /\ child \notin Done
  BY <1>1 DEF Numbered
<1>14. child \in CopySucc(edges, Top.node) /\ Top.node \in Stacked
  BY <1>1, <1>2, <1>3, <1>7, PathFacts
<1>15. \A i \in 1 .. l : visitStack[i].min <= numbers[visitStack[i].node]
  BY <1>2 DEF Inv, MinIsReached, PathNode
<1>16. Reaches(child, child)
  BY ReachesSelf
<1>17. \A i \in 1 .. l : Reaches(visitStack[i].node, child)
  <2> TAKE i \in 1 .. l
  <2>1. numbers[visitStack[i].node] <= numbers[Top.node]
    <3>1. i <= l
      <4> HIDE DEF l
      <4> QED BY <1>2
    <3> QED BY <1>2, <1>7, <1>12, <3>1
  <2>2. Reaches(visitStack[i].node, Top.node)
    BY <1>2, <1>14, <2>1 DEF Inv, PathLeadsOn, PathNode
  <2> QED BY <1>14, <2>2, ReachesNext
<1>18. TypeOK'
  <2>1. edges' \in Graphs /\ collapsed' \subseteq Nodes /\ workList' \in WorkLists(edges')
    BY <1>1, <1>3 DEF TypeOK, graphVars
  <2>2. visited' \subseteq Nodes /\ DOMAIN numbers' \subseteq visited'
    BY <1>1, <1>3, <1>5 DEF TypeOK
  <2>3. \A n \in DOMAIN numbers' : numbers'[n] \in 1 .. MaxNumber
    <3>1. number \in 1 .. MaxNumber
      <4>1. number >= 1
        BY <1>1, CountOfNumbers DEF number
      <4> QED BY <1>6, <4>1, MaxNumberIsNat
    <3> QED BY <1>1, <1>5, <3>1 DEF TypeOK
  <2>4. sccStack' \in Seq(DOMAIN numbers')
    BY DEF DescendStep
  <2> QED BY <1>1, <1>3, <2>1, <2>2, <2>3, <2>4 DEF TypeOK
<1>19. Numbered'
  <2>1. DOMAIN numbers' = Stacked' \cup Done' /\ Stacked' \cap Done' = {} /\ workList' \subseteq visited'
    BY <1>1, <1>3, <1>4, <1>5, <1>13 DEF Numbered, graphVars
  <2>2. \A n \in Done' : numbers'[n] = MaxNumber
    BY <1>1, <1>4, <1>5 DEF Numbered
  <2>3. \A n \in Stacked' : numbers'[n] <= Cardinality(DOMAIN numbers')
    <3> TAKE n \in Stacked'
    <3>1. CASE n = child
      BY <1>5, <1>6, <3>1
    <3>2. CASE n \in Stacked
      <4>1. numbers'[n] = numbers[n] /\ numbers[n] \in Nat /\ numbers[n] < number
        BY <1>6, <1>12, <3>2
      <4> QED BY <1>6, <4>1
    <3> QED BY <1>4, <3>1, <3>2
  <2>4. /\ DOMAIN sccStack' = 1 .. k + 1
        /\ \A i \in 1 .. k : sccStack'[i] = sccStack[i] /\ sccStack[i] \in Stacked
        /\ sccStack'[k + 1] = child
    BY <1>12 DEF DescendStep, Stacked, ToSet
  <2>5. ASSUME NEW i \in 1 .. k + 1, NEW j \in 1 .. k + 1, i < j
        PROVE  numbers'[sccStack'[i]] < numbers'[sccStack'[j]]
    <3>1. i \in 1 .. k /\ (j \in 1 .. k \/ j = k + 1)
      <4> HIDE DEF k
      <4> QED BY <1>12, <2>5
    <3>2. CASE j \in 1 .. k
      <4>1. numbers[sccStack[i]] < numbers[sccStack[j]]
        BY <1>1, <1>12, <2>5, <3>1, <3>2 DEF Numbered
      <4> QED BY <1>12, <2>4, <3>1, <3>2, <4>1
    <3>3. CASE j = k + 1
      BY <1>12a, <2>4, <3>1, <3>3
    <3> QED BY <3>1, <3>2, <3>3
  <2>6. \A i, j \in DOMAIN sccStack' : i < j => numbers'[sccStack'[i]] < numbers'[sccStack'[j]]
    BY <2>4, <2>5
  <2> QED BY <2>1, <2>2, <2>3, <2>6 DEF Numbered
<1>20. PathIsStacked'
  <2>1. visitStack' # <<>>
    BY <1>2, <1>7
  <2>2. \A i \in 1 .. l + 1 :
          /\ visitStack'[i].node \in Stacked'
          /\ visitStack'[i].children \subseteq CopySucc(edges', visitStack'[i].node)
    <3>1. \A i \in 1 .. l : visitStack[i].children \subseteq CopySucc(edges, visitStack[i].node)
      BY <1>1, PathFacts
    <3>2. \A i \in 1 .. l : visitStack[i].node \in Stacked
      BY <1>12
    <3> TAKE i \in 1 .. l + 1
    <3>3. CASE i \in 1 .. l
      BY <1>4, <1>9, <3>1, <3>2, <3>3
    <3>4. CASE i = l + 1
      BY <1>4, <1>8, <3>4
    <3> QED BY <1>7, <3>3, <3>4
  <2>3. ASSUME NEW i \in 1 .. l + 1, NEW j \in 1 .. l + 1, i < j
        PROVE  numbers'[visitStack'[i].node] < numbers'[visitStack'[j].node]
    <3>1. i \in 1 .. l /\ (j \in 1 .. l \/ j = l + 1)
      <4> HIDE DEF l
      <4> QED BY <1>2, <2>3
    <3>2. CASE j \in 1 .. l
      <4>1. numbers[visitStack[i].node] < numbers[visitStack[j].node]
        BY <1>1, <2>3, <3>1, <3>2, PathFacts
      <4> QED BY <1>9, <1>12, <3>1, <3>2, <4>1
    <3>3. CASE j = l + 1
      <4>1. visitStack[i].node \in Stacked
        BY <1>12, <3>1
      <4> QED BY <1>8, <1>9, <1>12a, <3>1, <3>3, <4>1
    <3> QED BY <3>1, <3>2, <3>3
  <2> QED BY <1>2, <2>1, <2>2, <2>3 DEF PathIsStacked, PathNode
<1>21. PathLeadsOn'
  <2> SUFFICES ASSUME NEW i \in 1 .. l + 1, NEW n \in Stacked',
                      numbers'[visitStack'[i].node] <= numbers'[n]
               PROVE  Reaches(visitStack'[i].node, n)
    BY <1>2, <1>4 DEF PathLeadsOn, PathNode, Reaches
  <2>1. CASE i = l + 1
    <3>1. n = child
      <4>1. SUFFICES ASSUME n \in Stacked
                     PROVE  FALSE
        BY <1>4
      <4> QED BY <1>8, <1>12a, <2>1, <4>1
    <3> QED BY <1>8, <1>16, <2>1, <3>1
  <2>2. CASE i \in 1 .. l /\ n \in Stacked
    <3>1. numbers[visitStack[i].node] <= numbers[n]
      BY <1>9, <1>12, <2>2
    <3> QED BY <1>2, <1>9, <2>2, <3>1 DEF Inv, PathLeadsOn, PathNode
  <2>3. CASE i \in 1 .. l /\ n = child
    BY <1>9, <1>17, <2>3
  <2> QED BY <1>4, <1>7, <2>1, <2>2, <2>3
<1>22. MinIsReached'
  <2> SUFFICES ASSUME NEW i \in 1 .. l + 1
               PROVE  /\ visitStack'[i].min <= numbers'[visitStack'[i].node]
                      /\ \E n \in Stacked' : /\ visitStack'[i].min = numbers'[n]
                                             /\ Reaches(visitStack'[i].node, n)
    BY <1>2, <1>4 DEF MinIsReached, PathNode, Reaches
  <2>1. CASE i = l + 1
    BY <1>4, <1>5, <1>6, <1>8, <1>16, <2>1
  <2>2. CASE i \in 1 .. l
    <3>1. PICK n \in Stacked : visitStack[i].min = numbers[n] /\ Reaches(visitStack[i].node, n)
      BY <1>2, <2>2 DEF Inv, MinIsReached, PathNode
    <3> QED BY <1>4, <1>9, <1>12, <1>15, <2>2, <3>1
  <2> QED BY <1>7, <2>1, <2>2
<1>23. MinIsLowest'
  <2> SUFFICES ASSUME NEW i \in 1 .. l + 1, NEW n \in Stacked',
                      numbers'[visitStack'[i].node] <= numbers'[n],
                      i + 1 \in 1 .. l + 1 => numbers'[n] < numbers'[visitStack'[i + 1].node],
                      NEW m \in CopySucc(edges, n) \cap Stacked'
               PROVE  ToVisit(n, m)' \/ visitStack'[i].min <= numbers'[m]
    BY <1>2, <1>4 DEF MinIsLowest, PathNode
  <2>1. CASE n = child
    BY <1>11, <2>1
  <2>2. CASE n \in Stacked
    <3>1. i \in 1 .. l
      <4>1. SUFFICES ASSUME i = l + 1
                     PROVE  FALSE
        BY <1>7
      <4> QED BY <1>8, <1>12a, <2>2, <4>1
    <3>2. CASE m = child
      <4>1. visitStack[i].min <= numbers[visitStack[i].node] /\ numbers[visitStack[i].node] < number
        BY <1>6, <1>12, <1>15, <3>1
      <4>2. visitStack[i].min \in Nat /\ numbers[visitStack[i].node] \in Nat
        BY <1>12, <3>1
      <4>3. visitStack[i].min <= number
        BY <1>6, <4>1, <4>2
      <4> QED BY <1>5, <1>9, <3>1, <3>2, <4>3
    <3>3. CASE m \in Stacked
      <4>1. numbers[visitStack[i].node] <= numbers[n]
        BY <1>9, <1>12, <2>2, <3>1
      <4>2. i + 1 \in 1 .. l => numbers[n] < numbers[visitStack[i + 1].node]
        BY <1>7, <1>9, <1>12, <2>2
      <4>3. ToVisit(n, m) \/ visitStack[i].min <= numbers[m]
        BY <1>2, <2>2, <3>1, <3>3, <4>1, <4>2 DEF Inv, MinIsLowest, PathNode
      <4>4. m # child
        BY <1>13, <3>3
      <4> QED BY <1>9, <1>10, <1>12, <3>1, <3>3, <4>3, <4>4
    <3> QED BY <1>4, <3>2, <3>3
  <2> QED BY <1>4, <2>1, <2>2
<1>24. Explored'
  <2>1. ASSUME NEW n \in Stacked', NEW m \in CopySucc(edges, n)
        PROVE  m \in DOMAIN numbers' \/ ToVisit(n, m)'
    <3>1. CASE n = child
      BY <1>11, <3>1
    <3>2. CASE n \in Stacked
      BY <1>5, <1>10, <3>2 DEF Inv, Explored
    <3> QED BY <1>4, <3>1, <3>2
  <2>2. \A n \in Done : CopySucc(edges, n) \subseteq Done
    BY DEF Inv, Explored
  <2>3. /\ \A n \in Stacked' : \A m \in CopySucc(edges', n) : m \in DOMAIN numbers' \/ ToVisit(n, m)'
        /\ \A n \in Done' : CopySucc(edges', n) \subseteq Done'
    BY <1>4, <2>1, <2>2
  <2> QED BY <2>3 DEF Explored
<1>25. DeliveredAreSCCs'
  <2>1. Top.node \in Live
    BY <1>12, <1>14 DEF Inv, DeliveredAreSCCs
  <2>2. child \in Live
    BY <1>14, <2>1, LiveIsClosed
  <2> QED BY <1>4, <1>5, <2>2 DEF Inv, DeliveredAreSCCs
<1>26. StackIsOpen'
  <2>1. Open
    BY <1>1, OpenMeans DEF Inv
  <2>2. Open'
    <3> SUFFICES ASSUME NEW n \in Stacked'
                 PROVE  \E i \in 1 .. l + 1 :
                          /\ numbers'[visitStack'[i].node] <= numbers'[n]
                          /\ Reaches(visitStack'[i].node, n)
                          /\ Reaches(n, visitStack'[i].node)
      BY <1>2, <1>4 DEF Open, Reaches
    <3>1. CASE n = child
      BY <1>5, <1>6, <1>7, <1>8, <1>16, <3>1
    <3>2. CASE n \in Stacked
      <4>1. PICK i \in 1 .. l : /\ numbers[visitStack[i].node] <= numbers[n]
                                /\ Reaches(visitStack[i].node, n)
                                /\ Reaches(n, visitStack[i].node)
        BY <1>2, <2>1, <3>2 DEF Open
      <4> QED BY <1>7, <1>9, <1>12, <3>2, <4>1
    <3> QED BY <1>4, <3>1, <3>2
  <2> QED BY <1>20, <2>2, OpenMeansAfter
<1> QED BY <1>18, <1>19, <1>20, <1>21, <1>22, <1>23, <1>24, <1>25, <1>26 DEF Inv

(* Going back from a node that leads lower.                                *)
LEMMA BackKeeps ==
  ASSUME Inv, pc = "visit", LeftStep, Top.min # numbers[Top.node],
         UNCHANGED <<numbers, sccStack, current, delivered, pc>>
  PROVE  Inv'
<1> DEFINE l == Len(visitStack)
           old == visitStack[l - 1]
           top == visitStack'[l - 1]
<1>1. TypeOK /\ Numbered /\ PathIsStacked /\ visitStack # <<>>
  BY DEF Inv, PathIsStacked
<1>2. /\ l \in Nat /\ l >= 1 /\ DOMAIN visitStack = 1 .. l /\ Top = visitStack[l]
      /\ DOMAIN visitStack' = 1 .. l - 1 /\ l \in 1 .. l
      /\ visitStack' \in Seq(Frame)
  <2>1. l \in Nat /\ l >= 1 /\ DOMAIN visitStack = 1 .. l /\ Top = visitStack[l]
    BY <1>1, PathFacts, BelowTop
  <2> QED BY <2>1 DEF LeftStep
<1>3. /\ UNCHANGED <<graphVars, visited, lastRoot, numbers, sccStack, current, delivered, pc>>
      /\ Top.children = {}
  BY DEF LeftStep
<1>4. /\ Stacked' = Stacked /\ Done' = Done /\ Live' = Live
      /\ edges' = edges /\ numbers' = numbers /\ sccStack' = sccStack /\ delivered' = delivered
      /\ \A a, b : Reaches(a, b)' <=> Reaches(a, b)
  BY <1>3, SameReach DEF Stacked, Done, graphVars
<1>5. /\ \A i \in 1 .. l : /\ visitStack[i].node \in Stacked
                           /\ visitStack[i].min \in Nat
                           /\ visitStack[i].children \subseteq CopySucc(edges, visitStack[i].node)
      /\ \A i, j \in 1 .. l :
           /\ i < j => numbers[visitStack[i].node] < numbers[visitStack[j].node]
           /\ i <= j => numbers[visitStack[i].node] <= numbers[visitStack[j].node]
      /\ \A n \in Stacked : numbers[n] \in Nat
  BY <1>1, PathFacts, StackedNumbers
<1>6. \A i \in 1 .. l : visitStack[i].min <= numbers[visitStack[i].node]
  BY <1>2 DEF Inv, MinIsReached, PathNode
<1>7. PICK x \in Stacked : Top.min = numbers[x] /\ Reaches(Top.node, x)
  BY <1>2 DEF Inv, MinIsReached, PathNode
<1>8. Top.node \in Stacked /\ numbers[x] < numbers[Top.node]
  <2>1. /\ Top.node \in Stacked /\ Top.min \in Nat /\ numbers[Top.node] \in Nat
        /\ Top.min <= numbers[Top.node] /\ Top.min # numbers[Top.node]
    BY <1>2, <1>5, <1>6
  <2> QED BY <1>7, <2>1
<1>9. Open
  BY <1>1, OpenMeans DEF Inv
(* The node below is in a cycle with what the top node leads to.           *)
<1>10. PICK p \in 1 .. l : /\ numbers[visitStack[p].node] <= numbers[x]
                           /\ Reaches(visitStack[p].node, x)
                           /\ Reaches(x, visitStack[p].node)
  BY <1>2, <1>9 DEF Open
<1>11. numbers[visitStack[p].node] < numbers[Top.node]
  BY <1>5, <1>8, <1>10
<1>12. p \in 1 .. l - 1 /\ l >= 2
  <2>1. p # l
    <3> SUFFICES ASSUME p = l
                 PROVE  FALSE
      OBVIOUS
    <3>1. numbers[Top.node] \in Nat /\ numbers[Top.node] < numbers[Top.node]
      BY <1>2, <1>5, <1>8, <1>11
    <3> QED BY <3>1
  <2> HIDE DEF l
  <2> QED BY <1>2, <2>1
<1>13. /\ l - 1 \in 1 .. l - 1 /\ l - 1 \in 1 .. l /\ l - 1 < l
       /\ \A i \in 1 .. l - 1 : i \in 1 .. l /\ i < l /\ i # l
       /\ \A i \in 1 .. l : i \in 1 .. l - 1 \/ i = l
       /\ \A i \in 1 .. l - 1 : i \in 1 .. l - 2 \/ i = l - 1
       /\ \A i \in 1 .. l - 2 : i + 1 \in 1 .. l - 1
       /\ (l - 1) + 1 = l
  <2> HIDE DEF l
  <2> QED BY <1>2, <1>12
<1>14. /\ top.node = old.node /\ top.children = old.children
       /\ top.min <= old.min /\ top.min <= Top.min
       /\ old.min <= Top.min => top = old
       /\ Top.min < old.min => top.min = Top.min
       /\ \A i \in 1 .. l - 2 : visitStack'[i] = visitStack[i]
  <2>1. l > 1
    <3> HIDE DEF l
    <3> QED BY <1>2, <1>12
  <2>2. \A i \in 1 .. l - 2 : visitStack'[i] = visitStack[i]
    BY DEF LeftStep
  <2>3. /\ top.node = old.node /\ top.children = old.children
        /\ top.min <= old.min /\ top.min <= Top.min
    BY <2>1 DEF LeftStep
  <2>4. /\ old.min <= Top.min => top = old
        /\ Top.min < old.min => top.min = Top.min
    BY <2>1 DEF LeftStep
  <2> QED BY <2>2, <2>3, <2>4
<1>15. top.min \in Nat
  <2>1. l - 1 \in 1 .. Len(visitStack')
    BY <1>2, <1>13, LenProperties
  <2>2. top \in Frame
    BY <1>2, <2>1, ElementOfSeq
  <2> QED BY <2>2, MaxNumberIsNat DEF Frame
<1> HIDE DEF l
<1>16. \A i \in 1 .. l - 1 : /\ visitStack'[i].node = visitStack[i].node
                             /\ visitStack'[i].children = visitStack[i].children
                             /\ visitStack'[i].min <= visitStack[i].min
                             /\ visitStack'[i].min \in Nat
                             /\ i # l - 1 => visitStack'[i] = visitStack[i]
  <2> TAKE i \in 1 .. l - 1
  <2>1. CASE i = l - 1
    BY <1>14, <1>15, <2>1
  <2>2. CASE i \in 1 .. l - 2
    BY <1>5, <1>13, <1>14, <2>2
  <2> QED BY <1>13, <2>1, <2>2
<1> HIDE DEF top, old
<1>17. \A n, m : ToVisit(n, m) => ToVisit(n, m)'
  <2> SUFFICES ASSUME NEW n, NEW m, ToVisit(n, m)
               PROVE  ToVisit(n, m)'
    OBVIOUS
  <2>1. PICK i \in 1 .. l : visitStack[i].node = n /\ m \in visitStack[i].children
    BY <1>2 DEF ToVisit, PathNode
  <2>2. i \in 1 .. l - 1
    BY <1>2, <1>3, <1>13, <2>1
  <2> QED BY <1>2, <1>16, <2>1, <2>2 DEF ToVisit, PathNode
<1>18. TypeOK'
  BY <1>1, <1>2, <1>3, <1>4 DEF TypeOK, graphVars
<1>19. Numbered'
  BY <1>1, <1>3, <1>4 DEF Numbered, graphVars
<1>20. PathIsStacked'
  <2>1. visitStack' # <<>>
    BY <1>2, <1>13
  <2>2. \A i \in 1 .. l - 1 :
          /\ visitStack'[i].node \in Stacked
          /\ visitStack'[i].children \subseteq CopySucc(edges, visitStack'[i].node)
    BY <1>5, <1>13, <1>16
  <2>3. \A i, j \in 1 .. l - 1 : i < j =>
          numbers[visitStack'[i].node] < numbers[visitStack'[j].node]
    BY <1>5, <1>13, <1>16
  <2> QED BY <1>2, <1>4, <2>1, <2>2, <2>3 DEF PathIsStacked, PathNode
<1>21. PathLeadsOn'
  <2>1. \A i \in 1 .. l - 1 : \A n \in Stacked :
          numbers[visitStack'[i].node] <= numbers[n] => Reaches(visitStack'[i].node, n)
    BY <1>2, <1>13, <1>16 DEF Inv, PathLeadsOn, PathNode
  <2> QED BY <1>2, <1>4, <2>1 DEF PathLeadsOn, PathNode, Reaches
<1>22. MinIsReached'
  <2> SUFFICES ASSUME NEW i \in 1 .. l - 1
               PROVE  /\ visitStack'[i].min <= numbers[visitStack'[i].node]
                      /\ \E n \in Stacked : /\ visitStack'[i].min = numbers[n]
                                            /\ Reaches(visitStack'[i].node, n)
    BY <1>2, <1>4 DEF MinIsReached, PathNode, Reaches
  <2>1. PICK y \in Stacked : visitStack[i].min = numbers[y] /\ Reaches(visitStack[i].node, y)
    BY <1>2, <1>13 DEF Inv, MinIsReached, PathNode
  <2>2. visitStack'[i].min <= numbers[visitStack'[i].node]
    <3>1. /\ visitStack'[i].min <= visitStack[i].min
          /\ visitStack[i].min <= numbers[visitStack[i].node]
          /\ visitStack'[i].node = visitStack[i].node
      BY <1>6, <1>13, <1>16
    <3>2. /\ visitStack'[i].min \in Nat /\ visitStack[i].min \in Nat
          /\ numbers[visitStack[i].node] \in Nat
      BY <1>5, <1>13, <1>16
    <3> QED BY <3>1, <3>2
  <2>3. CASE visitStack'[i].min = visitStack[i].min
    BY <1>16, <2>1, <2>2, <2>3
  <2>4. CASE visitStack'[i].min # visitStack[i].min
    <3>1. i = l - 1
      BY <1>13, <1>16, <2>4
    <3>2. top.min = Top.min
      <4>1. old.min \in Nat /\ Top.min \in Nat
        BY <1>2, <1>5, <1>13 DEF old
      <4>2. old.min <= Top.min \/ Top.min < old.min
        BY <4>1
      <4> QED BY <1>14, <2>4, <3>1, <4>2 DEF top, old
    <3>3. Reaches(visitStack[i].node, Top.node)
      <4>1. numbers[visitStack[i].node] <= numbers[Top.node]
        BY <1>2, <1>5, <1>13, <3>1
      <4> QED BY <1>2, <1>8, <1>13, <4>1 DEF Inv, PathLeadsOn, PathNode
    <3>4. Reaches(visitStack[i].node, x)
      BY <1>7, <3>3, ReachesFurther
    <3> QED BY <1>7, <1>16, <2>2, <3>1, <3>2, <3>4 DEF top
  <2> QED BY <2>3, <2>4
<1>23. MinIsLowest'
  <2> SUFFICES ASSUME NEW i \in 1 .. l - 1, NEW n \in Stacked,
                      numbers[visitStack'[i].node] <= numbers[n],
                      i + 1 \in 1 .. l - 1 => numbers[n] < numbers[visitStack'[i + 1].node],
                      NEW m \in CopySucc(edges, n) \cap Stacked
               PROVE  ToVisit(n, m)' \/ visitStack'[i].min <= numbers[m]
    BY <1>2, <1>4 DEF MinIsLowest, PathNode
  <2>1. numbers[visitStack[i].node] <= numbers[n]
    BY <1>16
  <2>2. CASE i \in 1 .. l - 2
    <3>1. numbers[n] < numbers[visitStack[i + 1].node]
      BY <1>13, <1>16, <2>2
    <3>2. ToVisit(n, m) \/ visitStack[i].min <= numbers[m]
      BY <1>2, <1>13, <2>1, <3>1 DEF Inv, MinIsLowest, PathNode
    <3>3. visitStack'[i] = visitStack[i]
      BY <1>14, <2>2
    <3> QED BY <1>17, <3>2, <3>3
  <2>3. CASE i = l - 1 /\ numbers[n] < numbers[Top.node]
    <3>1. ToVisit(n, m) \/ visitStack[i].min <= numbers[m]
      BY <1>2, <1>13, <2>1, <2>3 DEF Inv, MinIsLowest, PathNode
    <3>2. visitStack'[i].min <= visitStack[i].min /\ visitStack'[i].min \in Nat
      BY <1>16
    <3>3. visitStack[i].min \in Nat /\ numbers[m] \in Nat
      BY <1>5, <1>13
    <3>4. visitStack[i].min <= numbers[m] => visitStack'[i].min <= numbers[m]
      BY <3>2, <3>3
    <3> QED BY <1>17, <3>1, <3>4
  <2>4. CASE i = l - 1 /\ ~(numbers[n] < numbers[Top.node])
    <3>1. numbers[Top.node] <= numbers[n]
      BY <1>5, <1>8, <2>4
    <3>2. l + 1 \notin 1 .. l
      <4> HIDE DEF l
      <4> QED BY <1>2
    <3>3. ToVisit(n, m) \/ Top.min <= numbers[m]
      BY <1>2, <3>1, <3>2 DEF Inv, MinIsLowest, PathNode
    <3>4. top.min <= Top.min /\ top.min \in Nat /\ Top.min \in Nat /\ numbers[m] \in Nat
      BY <1>2, <1>5, <1>14, <1>15
    <3>5. Top.min <= numbers[m] => top.min <= numbers[m]
      BY <3>4
    <3> QED BY <1>17, <2>4, <3>3, <3>5 DEF top
  <2> QED BY <1>13, <2>2, <2>3, <2>4
<1>24. Explored'
  <2>1. \A n \in Stacked : \A m \in CopySucc(edges, n) : m \in DOMAIN numbers \/ ToVisit(n, m)'
    BY <1>17 DEF Inv, Explored
  <2>2. \A n \in Done : CopySucc(edges, n) \subseteq Done
    BY DEF Inv, Explored
  <2>3. /\ \A n \in Stacked' : \A m \in CopySucc(edges', n) : m \in DOMAIN numbers' \/ ToVisit(n, m)'
        /\ \A n \in Done' : CopySucc(edges', n) \subseteq Done'
    BY <1>4, <2>1, <2>2
  <2> QED BY <2>3 DEF Explored
<1>25. DeliveredAreSCCs'
  BY <1>4 DEF Inv, DeliveredAreSCCs
<1>26. StackIsOpen'
  <2> SUFFICES ASSUME NEW n \in Stacked
               PROVE  \E i \in 1 .. l - 1 : /\ numbers[visitStack[i].node] <= numbers[n]
                                            /\ Reaches(visitStack[i].node, n)
                                            /\ Reaches(n, visitStack[i].node)
    <3>1. \A n \in Stacked : \E i \in 1 .. l - 1 :
            /\ numbers[visitStack'[i].node] <= numbers[n]
            /\ Reaches(visitStack'[i].node, n)
            /\ Reaches(n, visitStack'[i].node)
      BY <1>16
    <3>2. Open'
      BY <1>2, <1>4, <3>1 DEF Open, Reaches
    <3> QED BY <1>20, <3>2, OpenMeansAfter
  <2>1. PICK i \in 1 .. l : /\ numbers[visitStack[i].node] <= numbers[n]
                            /\ Reaches(visitStack[i].node, n)
                            /\ Reaches(n, visitStack[i].node)
    BY <1>2, <1>9 DEF Open
  <2>2. CASE i \in 1 .. l - 1
    BY <2>1, <2>2
  <2>3. CASE i = l
    <3>1. numbers[visitStack[p].node] <= numbers[n]
      BY <1>2, <1>5, <1>8, <1>11, <2>1, <2>3
    <3>2. Reaches(visitStack[p].node, n)
      BY <1>2, <3>1 DEF Inv, PathLeadsOn, PathNode
    <3>3. Reaches(Top.node, visitStack[p].node)
      BY <1>7, <1>10, ReachesFurther
    <3>4. Reaches(n, visitStack[p].node)
      BY <1>2, <2>1, <2>3, <3>3, ReachesFurther
    <3> QED BY <1>12, <3>1, <3>2, <3>4
  <2> QED BY <1>13, <2>2, <2>3
<1> QED BY <1>18, <1>19, <1>20, <1>21, <1>22, <1>23, <1>24, <1>25, <1>26 DEF Inv

(***************************************************************************)
(* A component is complete when nothing stacked since its first node leads *)
(* lower.                                                                  *)
(***************************************************************************)

(* Copy edges from it lead to itself or to what was delivered.             *)
LEMMA ComponentIsClosed ==
  ASSUME Inv, pc = "visit", Top.children = {}, Top.min = numbers[Top.node],
         NEW scc, scc = {m \in Stacked : numbers[Top.node] <= numbers[m]}
  PROVE  \A n \in scc \cup Done : CopySucc(edges, n) \subseteq scc \cup Done
<1> DEFINE l == Len(visitStack)
<1>1. TypeOK /\ Numbered /\ PathIsStacked /\ visitStack # <<>>
  BY DEF Inv, PathIsStacked
<1>2. /\ l \in Nat /\ l >= 1 /\ DOMAIN visitStack = 1 .. l /\ Top = visitStack[l] /\ l \in 1 .. l
  BY <1>1, PathFacts, BelowTop
<1> SUFFICES ASSUME NEW n \in scc, NEW m \in CopySucc(edges, n)
             PROVE  m \in scc \cup Done
  BY DEF Inv, Explored
<1>3. n \in Stacked /\ numbers[Top.node] <= numbers[n] /\ numbers[n] \in Nat
      /\ numbers[Top.node] \in Nat
  BY <1>1, <1>2, PathFacts, StackedNumbers
<1>4. ~ToVisit(n, m)
  <2> SUFFICES ASSUME NEW i \in 1 .. l, visitStack[i].node = n, m \in visitStack[i].children
               PROVE  FALSE
    BY <1>2 DEF ToVisit, PathNode
  <2>1. i # l
    BY <1>2
  <2>2. i < l
    <3> HIDE DEF l
    <3> QED BY <1>2, <2>1
  <2>3. numbers[visitStack[i].node] < numbers[Top.node]
    BY <1>1, <1>2, <2>2, PathFacts
  <2> QED BY <1>3, <2>3
<1>5. m \in Stacked \/ m \in Done
  BY <1>1, <1>3, <1>4 DEF Inv, Explored, Numbered
<1>6. ASSUME m \in Stacked
      PROVE  numbers[Top.node] <= numbers[m]
  <2>1. l + 1 \notin 1 .. l
    <3> HIDE DEF l
    <3> QED BY <1>2
  <2>2. Top.min <= numbers[m]
    BY <1>2, <1>3, <1>4, <1>6, <2>1 DEF Inv, MinIsLowest, PathNode
  <2> QED BY <2>2
<1> QED BY <1>5, <1>6

(* So it is a strongly connected component.                                *)
LEMMA ComponentIsSCC ==
  ASSUME Inv, pc = "visit", Top.children = {}, Top.min = numbers[Top.node],
         NEW scc, scc = {m \in Stacked : numbers[Top.node] <= numbers[m]}
  PROVE  /\ scc \in SCCs(edges, Live)
         /\ Top.node \in scc
<1> DEFINE l == Len(visitStack)
           first == Top.node
<1>1. TypeOK /\ Numbered /\ PathIsStacked /\ visitStack # <<>>
  BY DEF Inv, PathIsStacked
<1>2. /\ l \in Nat /\ l >= 1 /\ DOMAIN visitStack = 1 .. l /\ Top = visitStack[l] /\ l \in 1 .. l
  BY <1>1, PathFacts, BelowTop
<1>3. first \in Stacked /\ numbers[first] \in Nat
  BY <1>1, <1>2, PathFacts, StackedNumbers
<1>4. first \in scc /\ scc \subseteq Stacked
  BY <1>3
<1>5. Stacked \subseteq Live /\ Done \subseteq Live /\ Stacked \cap Done = {}
  BY <1>1 DEF Inv, DeliveredAreSCCs, Numbered
<1>6. Stacked \subseteq Nodes /\ Done \subseteq Nodes
  BY <1>1, StackedNumbers
<1>7. ASSUME NEW b \in scc
      PROVE  Reaches(first, b) /\ Reaches(b, first)
  <2>1. Reaches(first, b)
    BY <1>2, <1>4 DEF Inv, PathLeadsOn, PathNode
  <2>2. Open
    BY <1>1, OpenMeans DEF Inv
  <2>3. PICK i \in 1 .. l : /\ numbers[visitStack[i].node] <= numbers[b]
                            /\ Reaches(b, visitStack[i].node)
    BY <1>2, <1>4, <2>2 DEF Open
  <2>4. numbers[visitStack[i].node] <= numbers[first]
    <3>1. i <= l
      <4> HIDE DEF l
      <4> QED BY <1>2
    <3> QED BY <1>1, <1>2, <3>1, PathFacts
  <2>5. Reaches(visitStack[i].node, first)
    BY <1>2, <1>3, <2>4 DEF Inv, PathLeadsOn, PathNode
  <2> QED BY <2>1, <2>3, <2>5, ReachesFurther
<1>8. \A n \in scc \cup Done : CopySucc(edges, n) \subseteq scc \cup Done
  BY ComponentIsClosed
<1>9. edges \subseteq Edge
  BY <1>1, GraphsAssumption DEF TypeOK
<1>10. scc \cup Done \in ClosedSets(edges) /\ Done \in ClosedSets(edges)
  <2>1. ASSUME NEW e \in edges, e[1] = "copy"
        PROVE  e[3] \in CopySucc(edges, e[2])
    <3>1. e = <<"copy", e[2], e[3]>> /\ e[3] \in Nodes
      BY <1>9, <2>1 DEF Edge
    <3> QED BY <3>1 DEF CopySucc
  <2>2. \A n \in Done : CopySucc(edges, n) \subseteq Done
    BY DEF Inv, Explored
  <2> QED BY <1>4, <1>6, <1>8, <2>1, <2>2 DEF ClosedSets
<1>11. ASSUME NEW b \in Live, Reaches(first, b), Reaches(b, first)
       PROVE  b \in scc
  <2>1. b \in scc \cup Done
    BY <1>4, <1>10, <1>11, ReachesStays
  <2>2. b \notin Done
    BY <1>3, <1>5, <1>10, <1>11, ReachesStays
  <2> QED BY <2>1, <2>2
<1>12. scc \in SCCs(edges, Live)
  <2>1. first \in Live /\ scc \in SUBSET Live
    BY <1>3, <1>4, <1>5
  <2>2. \A b \in Live : b \in scc <=> Reaches(first, b) /\ Reaches(b, first)
    BY <1>7, <1>11
  <2> HIDE DEF first
  <2> QED BY <2>1, <2>2, MakesSCC
<1> QED BY <1>4, <1>12

(* Delivering it.                                                          *)
LEMMA DeliverKeeps ==
  ASSUME Inv, pc = "visit", LeftStep, Top.min = numbers[Top.node], DeliverStep
  PROVE  Inv'
<1> DEFINE l == Len(visitStack)
           scc == {m \in Stacked : numbers[Top.node] <= numbers[m]}
<1>1. TypeOK /\ Numbered /\ PathIsStacked /\ visitStack # <<>>
  BY DEF Inv, PathIsStacked
<1>2. /\ l \in Nat /\ l >= 1 /\ DOMAIN visitStack = 1 .. l /\ Top = visitStack[l]
      /\ DOMAIN visitStack' = 1 .. l - 1 /\ l \in 1 .. l
      /\ visitStack' \in Seq(Frame)
  <2>1. l \in Nat /\ l >= 1 /\ DOMAIN visitStack = 1 .. l /\ Top = visitStack[l]
    BY <1>1, PathFacts, BelowTop
  <2> QED BY <2>1 DEF LeftStep
<1>3. /\ UNCHANGED <<graphVars, visited, lastRoot>>
      /\ Top.children = {} /\ pc' = "deliver"
  BY DEF LeftStep, DeliverStep
<1>4. /\ Live' = Live /\ edges' = edges /\ \A a, b : Reaches(a, b)' <=> Reaches(a, b)
  BY <1>3, SameReach DEF graphVars
<1>5. /\ Stacked' = Stacked \ scc /\ Done' = Done \cup scc /\ DOMAIN numbers' = DOMAIN numbers
      /\ \A m \in scc : numbers'[m] = MaxNumber
      /\ \A m \in DOMAIN numbers \ scc : numbers'[m] = numbers[m]
  BY DEF DeliverStep
<1>6. /\ \A i \in 1 .. l : /\ visitStack[i].node \in Stacked
                           /\ visitStack[i].min \in Nat
                           /\ visitStack[i].children \subseteq CopySucc(edges, visitStack[i].node)
      /\ \A i, j \in 1 .. l : i < j => numbers[visitStack[i].node] < numbers[visitStack[j].node]
      /\ \A n \in Stacked : numbers[n] \in Nat /\ n \in DOMAIN numbers
      /\ Stacked \subseteq Nodes
  BY <1>1, PathFacts, StackedNumbers
<1>7. \A i \in 1 .. l : visitStack[i].min <= numbers[visitStack[i].node]
  BY <1>2 DEF Inv, MinIsReached, PathNode
<1>8. Top.node \in Stacked /\ scc \subseteq Stacked
  BY <1>2, <1>6
<1>9. scc \in SCCs(edges, Live) /\ Top.node \in scc
      /\ \A n \in scc \cup Done : CopySucc(edges, n) \subseteq scc \cup Done
  BY <1>3, ComponentIsClosed, ComponentIsSCC
<1>10. /\ \A n \in Stacked' : /\ n \in Stacked /\ numbers'[n] = numbers[n]
                              /\ numbers[n] < numbers[Top.node]
       /\ \A n \in Stacked : numbers[n] < numbers[Top.node] => n \in Stacked'
  BY <1>5, <1>6, <1>8
<1>11. Open
  BY <1>1, OpenMeans DEF Inv
<1>12. \A i \in 1 .. l - 1 : i \in 1 .. l /\ i < l /\ i \in DOMAIN visitStack
  <2> HIDE DEF l
  <2> QED BY <1>2
<1>13. \A i \in 1 .. l - 1 : /\ visitStack[i].node \in Stacked'
                             /\ numbers[visitStack[i].node] < numbers[Top.node]
                             /\ visitStack[i].min < numbers[Top.node]
  <2> TAKE i \in 1 .. l - 1
  <2>1. numbers[visitStack[i].node] < numbers[Top.node]
    BY <1>2, <1>6, <1>12
  <2>2. visitStack[i].node \in Stacked'
    BY <1>6, <1>10, <1>12, <2>1
  <2>3. /\ visitStack[i].min \in Nat /\ numbers[visitStack[i].node] \in Nat
        /\ numbers[Top.node] \in Nat /\ visitStack[i].min <= numbers[visitStack[i].node]
    BY <1>6, <1>7, <1>8, <1>12
  <2> QED BY <2>1, <2>2, <2>3
<1>14. \A i \in 1 .. l - 1 : visitStack'[i] = visitStack[i]
  <2> TAKE i \in 1 .. l - 1
  <2>1. CASE i \in 1 .. l - 2
    BY <2>1 DEF LeftStep
  <2>2. CASE i = l - 1
    <3>1. l > 1
      <4> HIDE DEF l
      <4> QED BY <1>2
    <3>2. visitStack[l - 1].min <= Top.min => visitStack'[l - 1] = visitStack[l - 1]
      BY <3>1 DEF LeftStep
    <3>3. visitStack[i].min < Top.min /\ visitStack[i].min \in Nat /\ Top.min \in Nat
      BY <1>2, <1>6, <1>12, <1>13
    <3>4. visitStack[i].min <= Top.min
      BY <3>3
    <3> QED BY <2>2, <3>2, <3>4
  <2>3. i \in 1 .. l - 2 \/ i = l - 1
    <3> HIDE DEF l
    <3> QED BY <1>2
  <2> QED BY <2>1, <2>2, <2>3
<1>15. \A n, m : ToVisit(n, m) => ToVisit(n, m)'
  <2> SUFFICES ASSUME NEW n, NEW m, ToVisit(n, m)
               PROVE  ToVisit(n, m)'
    OBVIOUS
  <2>1. PICK i \in 1 .. l : visitStack[i].node = n /\ m \in visitStack[i].children
    BY <1>2 DEF ToVisit, PathNode
  <2>2. i # l
    BY <1>2, <1>3, <2>1
  <2>3. i \in 1 .. l - 1
    <3> HIDE DEF l
    <3> QED BY <1>2, <2>2
  <2> QED BY <1>2, <1>14, <2>1, <2>3 DEF ToVisit, PathNode
<1> HIDE DEF scc
<1>16. TypeOK'
  <2>1. edges' \in Graphs /\ collapsed' \subseteq Nodes /\ workList' \in WorkLists(edges')
        /\ visited' \subseteq Nodes /\ lastRoot' \in Nodes \cup {0} /\ DOMAIN numbers' \subseteq visited'
    BY <1>1, <1>3, <1>5 DEF TypeOK, graphVars
  <2>2. \A n \in DOMAIN numbers' : numbers'[n] \in 1 .. MaxNumber
    <3>1. MaxNumber \in 1 .. MaxNumber
      BY MaxNumberIsNat
    <3> QED BY <1>1, <1>5, <3>1 DEF TypeOK
  <2> QED BY <1>2, <1>3, <1>5, <2>1, <2>2 DEF TypeOK, DeliverStep
<1>17. Numbered'
  <2>1. DOMAIN numbers' = Stacked' \cup Done' /\ Stacked' \cap Done' = {} /\ workList' \subseteq visited'
    BY <1>1, <1>3, <1>5, <1>8 DEF Numbered, graphVars
  <2>2. \A n \in Done' : numbers'[n] = MaxNumber
    BY <1>1, <1>5 DEF Numbered
  <2>3. \A n \in Stacked' : numbers'[n] <= Cardinality(DOMAIN numbers')
    BY <1>1, <1>5, <1>10 DEF Numbered
  <2>4. ASSUME NEW i \in DOMAIN sccStack', NEW j \in DOMAIN sccStack', i < j
        PROVE  numbers'[sccStack'[i]] < numbers'[sccStack'[j]]
    <3>1. /\ i \in DOMAIN sccStack /\ j \in DOMAIN sccStack
          /\ sccStack'[i] = sccStack[i] /\ sccStack'[j] = sccStack[j]
      BY DEF DeliverStep
    <3>2. sccStack'[i] \in Stacked' /\ sccStack'[j] \in Stacked'
      BY DEF Stacked, ToSet
    <3>3. numbers[sccStack[i]] < numbers[sccStack[j]]
      BY <1>1, <2>4, <3>1 DEF Numbered
    <3>4. /\ numbers'[sccStack'[i]] = numbers[sccStack'[i]]
          /\ numbers'[sccStack'[j]] = numbers[sccStack'[j]]
      BY <1>10, <3>2
    <3> QED BY <3>1, <3>3, <3>4
  <2> QED BY <2>1, <2>2, <2>3, <2>4 DEF Numbered
<1>18. PathIsStacked'
  <2>1. \A i \in 1 .. l - 1 :
          /\ visitStack'[i].node \in Stacked'
          /\ visitStack'[i].children \subseteq CopySucc(edges', visitStack'[i].node)
    BY <1>4, <1>6, <1>12, <1>13, <1>14
  <2>2. \A i, j \in 1 .. l - 1 : i < j =>
          numbers'[visitStack'[i].node] < numbers'[visitStack'[j].node]
    <3> SUFFICES ASSUME NEW i \in 1 .. l - 1, NEW j \in 1 .. l - 1, i < j
                 PROVE  numbers'[visitStack[i].node] < numbers'[visitStack[j].node]
      BY <1>14
    <3>1. numbers[visitStack[i].node] < numbers[visitStack[j].node]
      BY <1>6, <1>12
    <3>2. /\ numbers'[visitStack[i].node] = numbers[visitStack[i].node]
          /\ numbers'[visitStack[j].node] = numbers[visitStack[j].node]
      BY <1>10, <1>13
    <3> QED BY <3>1, <3>2
  <2> QED BY <1>2, <1>3, <2>1, <2>2 DEF PathIsStacked, PathNode
<1>19. PathLeadsOn'
  <2> SUFFICES ASSUME NEW i \in 1 .. l - 1, NEW n \in Stacked',
                      numbers'[visitStack'[i].node] <= numbers'[n]
               PROVE  Reaches(visitStack'[i].node, n)
    BY <1>2, <1>4 DEF PathLeadsOn, PathNode, Reaches
  <2>1. numbers[visitStack[i].node] <= numbers[n]
    BY <1>10, <1>13, <1>14
  <2>2. i \in DOMAIN visitStack /\ n \in Stacked
    BY <1>10, <1>12
  <2>3. Reaches(visitStack[i].node, n)
    BY <2>1, <2>2 DEF Inv, PathLeadsOn, PathNode
  <2> QED BY <1>14, <2>3
<1>20. MinIsReached'
  <2> SUFFICES ASSUME NEW i \in 1 .. l - 1
               PROVE  /\ visitStack'[i].min <= numbers'[visitStack'[i].node]
                      /\ \E n \in Stacked' : /\ visitStack'[i].min = numbers'[n]
                                             /\ Reaches(visitStack'[i].node, n)
    BY <1>2, <1>4 DEF MinIsReached, PathNode, Reaches
  <2>1. PICK n \in Stacked : visitStack[i].min = numbers[n] /\ Reaches(visitStack[i].node, n)
    BY <1>2, <1>12 DEF Inv, MinIsReached, PathNode
  <2>2. n \in Stacked' /\ numbers'[n] = numbers[n]
    BY <1>10, <1>13, <2>1
  <2>3. visitStack[i].min <= numbers'[visitStack[i].node]
    BY <1>7, <1>10, <1>12, <1>13
  <2> QED BY <1>14, <2>1, <2>2, <2>3
<1>21. MinIsLowest'
  <2> SUFFICES ASSUME NEW i \in 1 .. l - 1, NEW n \in Stacked',
                      numbers'[visitStack'[i].node] <= numbers'[n],
                      i + 1 \in 1 .. l - 1 => numbers'[n] < numbers'[visitStack'[i + 1].node],
                      NEW m \in CopySucc(edges, n) \cap Stacked'
               PROVE  ToVisit(n, m)' \/ visitStack'[i].min <= numbers'[m]
    BY <1>2, <1>4 DEF MinIsLowest, PathNode
  <2>1. i \in DOMAIN visitStack /\ n \in Stacked /\ m \in CopySucc(edges, n) \cap Stacked
    BY <1>10, <1>12
  <2>2. numbers[visitStack[i].node] <= numbers[n]
    BY <1>10, <1>13, <1>14
  <2>3. numbers[n] < numbers[visitStack[i + 1].node]
    <3>1. i + 1 \in 1 .. l - 1 \/ i + 1 = l
      <4> HIDE DEF l
      <4> QED BY <1>2
    <3>2. CASE i + 1 \in 1 .. l - 1
      BY <1>10, <1>13, <1>14, <3>2
    <3>3. CASE i + 1 = l
      BY <1>2, <1>10, <3>3
    <3> QED BY <3>1, <3>2, <3>3
  <2>4. ToVisit(n, m) \/ visitStack[i].min <= numbers[m]
    BY <2>1, <2>2, <2>3 DEF Inv, MinIsLowest, PathNode
  <2>5. numbers'[m] = numbers[m] /\ visitStack'[i] = visitStack[i]
    BY <1>10, <1>14
  <2> QED BY <1>15, <2>4, <2>5
<1>22. Explored'
  <2>1. \A n \in Stacked : \A m \in CopySucc(edges, n) : m \in DOMAIN numbers \/ ToVisit(n, m)'
    BY <1>15 DEF Inv, Explored
  <2>2. /\ \A n \in Stacked' : \A m \in CopySucc(edges', n) : m \in DOMAIN numbers' \/ ToVisit(n, m)'
        /\ \A n \in Done' : CopySucc(edges', n) \subseteq Done'
    BY <1>4, <1>5, <1>9, <2>1
  <2> QED BY <2>2 DEF Explored
<1>23. DeliveredAreSCCs'
  <2>1. ToSet(delivered') = ToSet(delivered) \cup {scc}
    BY DEF DeliverStep, scc
  <2> QED BY <1>4, <1>5, <1>9, <2>1 DEF Inv, DeliveredAreSCCs
<1>24. StackIsOpen'
  <2> SUFFICES ASSUME NEW n \in Stacked'
               PROVE  \E i \in 1 .. l - 1 : /\ numbers[visitStack[i].node] <= numbers[n]
                                            /\ Reaches(visitStack[i].node, n)
                                            /\ Reaches(n, visitStack[i].node)
    <3>1. \A n \in Stacked' : \E i \in 1 .. l - 1 :
            /\ numbers'[visitStack'[i].node] <= numbers'[n]
            /\ Reaches(visitStack'[i].node, n)
            /\ Reaches(n, visitStack'[i].node)
      BY <1>10, <1>13, <1>14
    <3>2. Open'
      BY <1>2, <1>4, <3>1 DEF Open, Reaches
    <3> QED BY <1>18, <3>2, OpenMeansAfter
  <2>1. PICK i \in 1 .. l : /\ numbers[visitStack[i].node] <= numbers[n]
                            /\ Reaches(visitStack[i].node, n)
                            /\ Reaches(n, visitStack[i].node)
    BY <1>2, <1>10, <1>11 DEF Open
  <2>2. i # l
    <3> SUFFICES ASSUME i = l
                 PROVE  FALSE
      OBVIOUS
    <3>1. numbers[Top.node] <= numbers[n] /\ numbers[n] < numbers[Top.node]
      BY <1>2, <1>10, <2>1
    <3>2. numbers[Top.node] \in Nat /\ numbers[n] \in Nat
      BY <1>6, <1>8, <1>10
    <3> QED BY <3>1, <3>2
  <2>3. i \in 1 .. l - 1
    <3> HIDE DEF l
    <3> QED BY <1>2, <2>2
  <2> QED BY <2>1, <2>3
<1> QED BY <1>16, <1>17, <1>18, <1>19, <1>20, <1>21, <1>22, <1>23, <1>24 DEF Inv

(***************************************************************************)
(* Starting from a root.                                                   *)
(***************************************************************************)

FreshAt(f) ==
  /\ TypeOK
  /\ f \in Live /\ f \notin Done
  /\ DOMAIN numbers = {f} \cup Done
  /\ workList \subseteq visited
  /\ \A n \in Done : numbers[n] = MaxNumber /\ CopySucc(edges, n) \subseteq Done
  /\ Done \subseteq Live /\ ToSet(delivered) \subseteq SCCs(edges, Live)
  /\ numbers[f] = Cardinality(DOMAIN numbers)
  /\ DOMAIN sccStack = {1} /\ sccStack[1] = f
  /\ DOMAIN visitStack = {1}
  /\ visitStack[1].node = f
  /\ visitStack[1].children = CopySucc(edges, f)
  /\ visitStack[1].min = numbers[f]

Fresh == \E f : FreshAt(f)

LEMMA FreshIsInv == Fresh => Inv
<1> SUFFICES ASSUME Fresh
             PROVE  Inv
  OBVIOUS
<1>1. PICK f : FreshAt(f)
  BY DEF Fresh
<1>2. TypeOK
  BY <1>1 DEF FreshAt
<1>3. Stacked = {f}
  BY <1>1 DEF FreshAt, Stacked, ToSet
<1>4. numbers[f] \in Nat
  BY <1>1, <1>2, CountOfNumbers DEF FreshAt
<1>5. Reaches(f, f)
  BY <1>1, LiveIsClosed, ReachesSelf DEF FreshAt
<1>6. \A m \in CopySucc(edges, f) : ToVisit(f, m)
  BY <1>1 DEF FreshAt, ToVisit, PathNode
<1>7. Numbered
  BY <1>1, <1>3, <1>4 DEF FreshAt, Numbered
<1>8. PathIsStacked
  BY <1>1, <1>3 DEF FreshAt, PathIsStacked, PathNode
<1>9. PathLeadsOn
  BY <1>1, <1>3, <1>5 DEF FreshAt, PathLeadsOn, PathNode
<1>10. MinIsReached
  BY <1>1, <1>3, <1>4, <1>5 DEF FreshAt, MinIsReached, PathNode
<1>11. MinIsLowest
  BY <1>3, <1>6 DEF MinIsLowest
<1>12. Explored
  BY <1>1, <1>3, <1>6 DEF FreshAt, Explored
<1>13. DeliveredAreSCCs
  BY <1>1 DEF FreshAt, DeliveredAreSCCs
<1>14. Open
  BY <1>1, <1>3, <1>4, <1>5 DEF FreshAt, Open
<1> QED BY <1>2, <1>7, <1>8, <1>9, <1>10, <1>11, <1>12, <1>13, <1>14, OpenMeans DEF Inv

LEMMA FreshIsInvAfter == Fresh' => Inv'
BY FreshIsInv, PTL

LEMMA InitInv == Init => Inv
<1> SUFFICES ASSUME Init
             PROVE  Inv
  OBVIOUS
<1>1. /\ edges \in Graphs /\ collapsed \subseteq Nodes /\ workList \in WorkLists(edges)
      /\ lastRoot = 0 /\ current = <<>> /\ delivered = <<>>
  BY DEF Init
<1>2. workList \subseteq Nodes
  BY <1>1, GraphsAssumption
<1>3. ToSet(delivered) = {} /\ Done = {}
  BY <1>1 DEF ToSet, Done
<1>4. /\ current \in Seq(Nodes) /\ delivered \in Seq(SUBSET Nodes) /\ lastRoot \in Nodes \cup {0}
  BY <1>1, EmptySeq
<1>5. CASE workList = Nodes
  <2>1. /\ visited = workList /\ numbers = <<>> /\ sccStack = <<>> /\ visitStack = <<>>
        /\ pc = "end"
    BY <1>5 DEF Init
  <2>2. DOMAIN numbers = {} /\ DOMAIN sccStack = {} /\ DOMAIN visitStack = {} /\ Stacked = {}
    BY <2>1 DEF Stacked, ToSet
  <2>3. sccStack \in Seq(DOMAIN numbers) /\ visitStack \in Seq(Frame)
    BY <2>1, EmptySeq
  <2>4. TypeOK
    BY <1>1, <1>2, <1>4, <2>1, <2>2, <2>3 DEF TypeOK
  <2>5. Numbered
    BY <1>3, <2>1, <2>2 DEF Numbered
  <2>6. PathIsStacked
    BY <2>1, <2>2 DEF PathIsStacked
  <2>7. PathLeadsOn /\ MinIsReached /\ MinIsLowest
    BY <2>2 DEF PathLeadsOn, MinIsReached, MinIsLowest
  <2>8. Explored /\ DeliveredAreSCCs
    BY <1>3, <2>2 DEF Explored, DeliveredAreSCCs
  <2>9. Open
    BY <2>2 DEF Open
  <2> QED BY <2>4, <2>5, <2>6, <2>7, <2>8, <2>9, OpenMeans DEF Inv
<1>6. CASE workList # Nodes
  <2>1. PICK f : f = Lowest(Nodes \ workList)
    OBVIOUS
  <2>2. /\ visited = workList \cup {f} /\ numbers = [n \in {f} |-> 1] /\ sccStack = <<f>>
        /\ visitStack = <<NewFrame(f, 1)>> /\ pc = "visit"
    BY <1>6, <2>1 DEF Init
  <2>3. Nodes \ workList # {}
    BY <1>2, <1>6
  <2>4. f \in Nodes \ workList
    BY <2>1, <2>3, LowestIsIn
  <2>5. f \in Live
    <3>1. f \in Roots
      BY <2>1, <2>3 DEF Roots
    <3> QED BY <2>4, <3>1, LiveIsClosed
  <2>6. /\ DOMAIN numbers = {f} /\ numbers[f] = 1 /\ Cardinality(DOMAIN numbers) = 1
    BY <2>2, FS_Singleton
  <2>7. NewFrame(f, 1) \in Frame /\ visitStack[1].node = f
        /\ visitStack[1].children = CopySucc(edges, f) /\ visitStack[1].min = 1
    <3>1. 1 \in 1 .. MaxNumber
      BY MaxNumberIsNat
    <3> QED BY <2>2, <2>4, <3>1 DEF NewFrame, Frame, CopySucc
  <2>8. /\ sccStack \in Seq(DOMAIN numbers) /\ DOMAIN sccStack = {1} /\ sccStack[1] = f
        /\ visitStack \in Seq(Frame) /\ DOMAIN visitStack = {1}
    <3>1. \A S : \A e \in S : <<e>> \in Seq(S) /\ DOMAIN <<e>> = {1} /\ <<e>>[1] = e
      OBVIOUS
    <3>2. f \in DOMAIN numbers
      BY <2>6
    <3> QED BY <2>2, <2>7, <3>1, <3>2
  <2>9. TypeOK
    <3>1. \A n \in DOMAIN numbers : numbers[n] \in 1 .. MaxNumber
      BY <2>6, MaxNumberIsNat
    <3> QED BY <1>1, <1>2, <1>4, <2>2, <2>4, <2>6, <2>8, <3>1 DEF TypeOK
  <2>10. FreshAt(f)
    BY <1>3, <2>2, <2>5, <2>6, <2>7, <2>8, <2>9 DEF FreshAt
  <2> QED BY <2>10, FreshIsInv DEF Fresh
<1> QED BY <1>5, <1>6

(* When the path is at its end the component stack is, too.                *)
LEMMA NothingStacked ==
  ASSUME Inv, visitStack = <<>>
  PROVE  Stacked = {}
<1>1. Open
  BY OpenMeans DEF Inv
<1> QED BY <1>1 DEF Open

LEMMA RestartKeeps ==
  ASSUME Inv, NextSubGraph
  PROVE  Inv'
<1>1. TypeOK /\ Numbered /\ Stacked = {}
  BY NothingStacked DEF Inv, NextSubGraph
<1>2. UNCHANGED <<graphVars, delivered>> /\ visitStack = <<>> /\ current' = <<>>
  BY DEF NextSubGraph
<1>3. /\ Live' = Live /\ Done' = Done /\ edges' = edges /\ delivered' = delivered
      /\ \A a, b : Reaches(a, b)' <=> Reaches(a, b)
  BY <1>2, SameReach DEF Done, graphVars
<1>4. current' \in Seq(Nodes)
  BY <1>2, EmptySeq
<1>5. CASE NextRoots = {}
  <2>1. pc' = "end" /\ UNCHANGED <<visited, numbers, sccStack, visitStack, lastRoot>>
    BY <1>5 DEF NextSubGraph
  <2>2. Stacked' = {} /\ visitStack' = <<>> /\ DOMAIN visitStack' = {}
    BY <1>1, <1>2, <2>1 DEF Stacked
  <2>3. TypeOK'
    BY <1>1, <1>2, <1>4, <2>1 DEF TypeOK, graphVars
  <2>4. Numbered'
    BY <1>1, <1>2, <1>3, <2>1, <2>2 DEF Numbered, graphVars
  <2>5. PathIsStacked'
    BY <2>1, <2>2 DEF PathIsStacked
  <2>6. PathLeadsOn' /\ MinIsReached' /\ MinIsLowest'
    BY <2>2 DEF PathLeadsOn, MinIsReached, MinIsLowest
  <2>7. Explored' /\ DeliveredAreSCCs'
    BY <1>3, <2>1, <2>2 DEF Inv, Explored, DeliveredAreSCCs
  <2>8. Open'
    BY <2>2 DEF Open
  <2> QED BY <2>3, <2>4, <2>5, <2>6, <2>7, <2>8, OpenMeansAfter DEF Inv
<1>6. CASE NextRoots # {}
  <2>1. PICK f : f = lastRoot'
    OBVIOUS
  <2>2. f = Lowest(NextRoots) /\ DFSVisitOne(f, <<>>) /\ pc' = "visit"
    BY <1>6, <2>1 DEF NextSubGraph, DFSVisitOne
  <2>3. f \in NextRoots
    <3>1. NextRoots \in SUBSET Nodes
      BY DEF NextRoots
    <3> QED BY <1>6, <2>2, <3>1, LowestIsIn
  <2>4. f \in Nodes /\ f \notin visited /\ f \notin collapsed
    BY <2>3 DEF NextRoots
  <2>5. f \notin DOMAIN numbers /\ f \notin workList
    BY <1>1, <2>4 DEF TypeOK, Numbered
  <2>6. f \in Live
    <3>1. f \in Roots
      BY <2>4, <2>5 DEF Roots
    <3> QED BY <2>4, <3>1, LiveIsClosed
  <2>7. <<>> \in Seq(Frame) /\ Len(<<>>) = 0
    BY EmptySeq
  <2>8. VisitedStep(f, <<>>)
    BY <1>1, <2>2, <2>4, <2>5, <2>7, VisitedIsStep
  <2>9. /\ DOMAIN numbers' = {f} \cup Done /\ numbers'[f] = Cardinality(DOMAIN numbers')
        /\ \A n \in Done : numbers'[n] = MaxNumber
    <3>1. DOMAIN numbers = Done /\ \A n \in Done : numbers[n] = MaxNumber
      BY <1>1 DEF Numbered
    <3>2. numbers'[f] = Cardinality(DOMAIN numbers \cup {f})
      BY <1>1, <2>4, <2>5, <2>8, CountOfNumbers DEF VisitedStep
    <3> QED BY <2>8, <3>1, <3>2 DEF VisitedStep
  <2>10. DOMAIN sccStack' = {1} /\ sccStack'[1] = f /\ sccStack' \in Seq(DOMAIN numbers')
    <3>1. Len(sccStack) = 0
      <4>1. Len(sccStack) \in Nat /\ DOMAIN sccStack = 1 .. Len(sccStack)
        BY <1>1, StackedNumbers
      <4>2. DOMAIN sccStack = {}
        BY <1>1 DEF Stacked, ToSet
      <4>3. ~(Len(sccStack) >= 1)
        BY <4>1, <4>2
      <4> QED BY <4>1, <4>3
    <3>2. 1 .. 0 + 1 = {1} /\ 0 + 1 = 1
      OBVIOUS
    <3> QED BY <2>8, <3>1, <3>2 DEF VisitedStep
  <2>11. /\ DOMAIN visitStack' = {1} /\ visitStack' \in Seq(Frame)
         /\ visitStack'[1].node = f /\ visitStack'[1].children = CopySucc(edges, f)
         /\ visitStack'[1].min = numbers'[f]
    <3>1. 1 .. 0 + 1 = {1} /\ 0 + 1 = 1
      OBVIOUS
    <3> QED BY <2>7, <2>8, <3>1 DEF VisitedStep
  <2>12. visited' = visited \cup {f}
    BY <2>8 DEF VisitedStep
  <2>13. TypeOK'
    <3>1. edges' \in Graphs /\ collapsed' \subseteq Nodes /\ workList' \in WorkLists(edges')
      BY <1>1, <1>2 DEF TypeOK, graphVars
    <3>2. visited' \subseteq Nodes /\ DOMAIN numbers' \subseteq visited'
      BY <1>1, <2>4, <2>8, <2>12 DEF TypeOK, VisitedStep
    <3>3. \A n \in DOMAIN numbers' : numbers'[n] \in 1 .. MaxNumber
      <4>1. MaxNumber \in 1 .. MaxNumber
        BY MaxNumberIsNat
      <4>2. numbers'[f] \in 1 .. MaxNumber
        <5>1. numbers'[f] = Cardinality(DOMAIN numbers) + 1
          BY <2>8 DEF VisitedStep
        <5> QED BY <1>1, <2>4, <2>5, <5>1, CountOfNumbers, MaxNumberIsNat
      <4> QED BY <2>9, <4>1, <4>2
    <3> QED BY <1>1, <1>2, <1>4, <2>1, <2>2, <2>4, <2>10, <2>11, <3>1, <3>2, <3>3 DEF TypeOK
  <2>14. FreshAt(f)'
    <3>1. f \notin Done /\ workList' \subseteq visited'
      BY <1>1, <1>2, <2>5, <2>12 DEF Numbered, graphVars
    <3>2. /\ \A n \in Done : CopySucc(edges, n) \subseteq Done
          /\ Done \subseteq Live /\ ToSet(delivered) \subseteq SCCs(edges, Live)
      BY <1>1 DEF Inv, Explored, DeliveredAreSCCs, Numbered
    <3> QED BY <1>3, <2>6, <2>9, <2>10, <2>11, <2>13, <3>1, <3>2 DEF FreshAt
  <2> QED BY <2>14, FreshIsInvAfter DEF Fresh
<1> QED BY <1>5, <1>6

LEMMA ResumeKeeps ==
  ASSUME Inv, Resume
  PROVE  Inv'
<1>1. /\ current' = <<>> /\ pc' = "visit" /\ visitStack # <<>>
      /\ UNCHANGED <<graphVars, visited, numbers, sccStack, visitStack, lastRoot, delivered>>
  BY DEF Resume
<1>2. /\ Stacked' = Stacked /\ Done' = Done /\ Live' = Live
      /\ edges' = edges /\ numbers' = numbers /\ sccStack' = sccStack /\ delivered' = delivered
      /\ visitStack' = visitStack
      /\ \A a, b : Reaches(a, b)' <=> Reaches(a, b)
  BY <1>1, SameReach DEF Stacked, Done, graphVars
<1>3. \A n, m : ToVisit(n, m)' <=> ToVisit(n, m)
  BY <1>2 DEF ToVisit, PathNode
<1>4. TypeOK'
  BY <1>1, EmptySeq DEF Inv, TypeOK, graphVars
<1>5. Numbered'
  BY <1>1, <1>2 DEF Inv, Numbered, graphVars
<1>6. PathIsStacked'
  BY <1>1, <1>2 DEF Inv, PathIsStacked, PathNode
<1>7. PathLeadsOn'
  BY <1>2 DEF Inv, PathLeadsOn, PathNode, Reaches
<1>8. MinIsReached'
  BY <1>2 DEF Inv, MinIsReached, PathNode, Reaches
<1>9. MinIsLowest'
  BY <1>2, <1>3 DEF Inv, MinIsLowest, PathNode
<1>10. Explored' /\ DeliveredAreSCCs'
  BY <1>2, <1>3 DEF Inv, Explored, DeliveredAreSCCs
<1>11. StackIsOpen'
  <2>1. Open
    BY OpenMeans DEF Inv
  <2>2. Open'
    BY <1>2, <2>1 DEF Open, Reaches
  <2> QED BY <1>6, <2>2, OpenMeansAfter
<1> QED BY <1>4, <1>5, <1>6, <1>7, <1>8, <1>9, <1>10, <1>11 DEF Inv

LEMMA StutterKeeps ==
  ASSUME Inv, UNCHANGED vars
  PROVE  Inv'
<1>1. /\ edges' = edges /\ collapsed' = collapsed /\ workList' = workList /\ visited' = visited
      /\ numbers' = numbers /\ sccStack' = sccStack /\ visitStack' = visitStack
      /\ lastRoot' = lastRoot /\ current' = current /\ delivered' = delivered /\ pc' = pc
  BY DEF vars, graphVars
<1>2. /\ Stacked' = Stacked /\ Done' = Done /\ Live' = Live
      /\ \A a, b : Reaches(a, b)' <=> Reaches(a, b)
  BY <1>1, SameReach DEF Stacked, Done, graphVars
<1>3. \A n, m : ToVisit(n, m)' <=> ToVisit(n, m)
  BY <1>1 DEF ToVisit, PathNode
<1>4. TypeOK' /\ Numbered' /\ PathIsStacked'
  BY <1>1, <1>2 DEF Inv, TypeOK, Numbered, PathIsStacked, PathNode
<1>5. PathLeadsOn' /\ MinIsReached'
  BY <1>1, <1>2 DEF Inv, PathLeadsOn, MinIsReached, PathNode, Reaches
<1>6. MinIsLowest'
  BY <1>1, <1>2, <1>3 DEF Inv, MinIsLowest, PathNode
<1>7. Explored' /\ DeliveredAreSCCs'
  BY <1>1, <1>2, <1>3 DEF Inv, Explored, DeliveredAreSCCs
<1>8. StackIsOpen'
  <2>1. Open
    BY OpenMeans DEF Inv
  <2>2. Open'
    BY <1>1, <1>2, <2>1 DEF Open, Reaches
  <2> QED BY <1>4, <2>2, OpenMeansAfter
<1> QED BY <1>4, <1>5, <1>6, <1>7, <1>8 DEF Inv

(***************************************************************************)
(* The theorems.                                                           *)
(***************************************************************************)

LEMMA TopIsStacked ==
  ASSUME Inv, pc = "visit"
  PROVE  visitStack # <<>> /\ Top.node \in Stacked
<1>1. TypeOK /\ Numbered /\ PathIsStacked /\ visitStack # <<>>
  BY DEF Inv, PathIsStacked
<1>2. Len(visitStack) \in 1 .. Len(visitStack) /\ Top = visitStack[Len(visitStack)]
  BY <1>1, BelowTop, PathFacts
<1> QED BY <1>1, <1>2, PathFacts

LEMMA VisitKeeps ==
  ASSUME Inv, NEW child \in Nodes, VisitChild(child)
  PROVE  Inv'
<1>1. pc = "visit" /\ TypeOK /\ visitStack # <<>>
  BY TopIsStacked DEF Inv, VisitChild
<1>2. CASE child \in DOMAIN numbers
  BY <1>1, <1>2, SeenIsStep, SeenKeeps
<1>3. CASE child \notin DOMAIN numbers
  BY <1>1, <1>3, DescendIsStep, DescendKeeps
<1> QED BY <1>2, <1>3

LEMMA PopIsStep ==
  ASSUME Inv, PopNode
  PROVE  /\ pc = "visit" /\ LeftStep /\ Top.children = {}
         /\ \/ /\ Top.min # numbers[Top.node]
               /\ UNCHANGED <<numbers, sccStack, current, delivered, pc>>
            \/ /\ Top.min = numbers[Top.node]
               /\ DeliverStep
<1>1. pc = "visit" /\ Top.children = {}
  BY DEF PopNode
<1>2. TypeOK /\ Numbered /\ visitStack # <<>> /\ Top.node \in Stacked
  BY <1>1, TopIsStacked DEF Inv
<1>3. LeftStep
  BY <1>2, LeftIsStep
<1>4. ASSUME Top.min # numbers[Top.node]
      PROVE  UNCHANGED <<numbers, sccStack, current, delivered, pc>>
  BY <1>4 DEF PopNode
<1>5. ASSUME Top.min = numbers[Top.node]
      PROVE  DeliverStep
  <2>1. PICK n : n = Top.node
    OBVIOUS
  <2> QED BY <1>2, <1>5, <2>1, DeliverIsStep
<1> QED BY <1>1, <1>3, <1>4, <1>5

LEMMA PopKeeps ==
  ASSUME Inv, PopNode
  PROVE  Inv'
BY PopIsStep, BackKeeps, DeliverKeeps

LEMMA NextInv == Inv /\ [Next]_vars => Inv'
<1> SUFFICES ASSUME Inv, [Next]_vars
             PROVE  Inv'
  OBVIOUS
<1>1. ASSUME NEW child \in Nodes, VisitChild(child)
      PROVE  Inv'
  BY <1>1, VisitKeeps
<1>2. CASE PopNode
  BY <1>2, PopKeeps
<1>3. CASE Resume
  BY <1>3, ResumeKeeps
<1>4. CASE NextSubGraph
  BY <1>4, RestartKeeps
<1>5. CASE UNCHANGED vars
  BY <1>5, StutterKeeps
<1> QED BY <1>1, <1>2, <1>3, <1>4, <1>5 DEF Next

(* What the two stacks, the numbers and the minima stand for at every      *)
(* moment of the traversal, however often it is suspended and whatever     *)
(* order the children of a node are visited in.                            *)
THEOREM InvHolds == Spec => []Inv
<1>1. Init => Inv
  BY InitInv
<1>2. Inv /\ [Next]_vars => Inv'
  BY NextInv
<1> QED BY <1>1, <1>2, PTL DEF Spec

(* Type correctness; in particular the numbers never run out.              *)
THEOREM TypeCorrect == Spec => []TypeOK
<1>1. Inv => TypeOK
  BY DEF Inv
<1> QED BY <1>1, InvHolds, PTL

(* A node that stays on the component stack is in a cycle with a node      *)
(* whose visit is not over.                                                *)
THEOREM OnlyCyclesStay == Spec => []StackIsOpen
<1>1. Inv => StackIsOpen
  BY DEF Inv
<1> QED BY <1>1, InvHolds, PTL

(***************************************************************************)
(* The refinement.                                                         *)
(***************************************************************************)

(* The operators on graphs mean the same in the abstract specification.    *)
LEMMA SameOperators ==
  /\ Enumeration!Nodes = Nodes /\ Enumeration!Edge = Edge
  /\ \A E, R : Enumeration!ReachedFrom(E, R) = ReachedFrom(E, R)
  /\ \A E, live : Enumeration!SCCs(E, live) = SCCs(E, live)
<1>1. Enumeration!Nodes = Nodes
  BY DEF Enumeration!Nodes, Nodes, Enumeration!AnonNodes, AnonNodes, Enumeration!AnonNode, AnonNode
<1>2. Enumeration!Edge = Edge
  BY <1>1 DEF Enumeration!Edge, Edge, Enumeration!Kinds, Kinds
<1>3. \A E : Enumeration!ClosedSets(E) = ClosedSets(E)
  BY <1>1 DEF Enumeration!ClosedSets, ClosedSets
<1>4. \A E, R : Enumeration!ReachedFrom(E, R) = ReachedFrom(E, R)
  BY <1>1, <1>3 DEF Enumeration!ReachedFrom, ReachedFrom
<1>5. \A E, live : Enumeration!SCCs(E, live) = SCCs(E, live)
  BY <1>3 DEF Enumeration!SCCs, SCCs
<1> QED BY <1>1, <1>2, <1>4, <1>5

LEMMA InitIsInit == Init => Enumeration!Init
<1> SUFFICES ASSUME Init
             PROVE  Enumeration!Init
  OBVIOUS
<1>1. edges \in Graphs /\ workList \in WorkLists(edges) /\ delivered = <<>>
  BY DEF Init
<1>2. edges \subseteq Edge
  BY <1>1, GraphsAssumption
<1>3. Roots \subseteq Nodes
  <2>1. ASSUME Nodes \ workList # {}
        PROVE  Lowest(Nodes \ workList) \in Nodes
    BY <2>1, LowestIsIn
  <2> QED BY <2>1 DEF Roots
<1> QED BY <1>1, <1>2, <1>3, SameOperators DEF Enumeration!Init

(* A delivered component was left, and leads to none of the others left.   *)
LEMMA DeliverIsNext ==
  ASSUME Inv, PopNode, Top.min = numbers[Top.node]
  PROVE  Enumeration!Next
<1> DEFINE scc == {m \in Stacked : numbers[Top.node] <= numbers[m]}
           left == SCCs(edges, Live) \ ToSet(delivered)
<1>1. pc = "visit" /\ Top.children = {} /\ LeftStep /\ DeliverStep
  BY PopIsStep
<1>2. scc \in SCCs(edges, Live) /\ Top.node \in scc
      /\ \A n \in scc \cup Done : CopySucc(edges, n) \subseteq scc \cup Done
  BY <1>1, ComponentIsClosed, ComponentIsSCC
<1>3. delivered' = Append(delivered, scc) /\ UNCHANGED <<edges, Roots>>
  <2>1. UNCHANGED graphVars
    BY <1>1 DEF LeftStep
  <2> QED BY <1>1, <2>1, SameReach DEF DeliverStep, graphVars
<1>4. Enumeration!Left = left
  <2>1. Enumeration!ToSet(delivered) = ToSet(delivered)
    BY DEF Enumeration!ToSet, ToSet
  <2> QED BY <2>1, SameOperators DEF Enumeration!Left, Live
<1>5. scc \in left
  <2>1. Top.node \in Stacked /\ Stacked \cap Done = {}
    BY <1>2 DEF Inv, Numbered
  <2>2. scc \notin ToSet(delivered)
    BY <1>2, <2>1 DEF Done
  <2> QED BY <1>2, <2>2
<1>6. ASSUME NEW other \in left \ {scc}, NEW m \in scc, NEW n \in other, <<"copy", m, n>> \in edges
      PROVE  FALSE
  <2>1. edges \subseteq Edge
    BY GraphsAssumption DEF Inv, TypeOK
  <2>2. n \in CopySucc(edges, m)
    BY <1>6, <2>1 DEF Edge, CopySucc
  <2>3. n \in scc \cup Done
    BY <1>2, <2>2
  <2>4. CASE n \in scc
    <3> HIDE DEF scc
    <3> QED BY <1>2, <2>4, SCCsAreApart
  <2>5. CASE n \in Done
    <3>1. PICK d \in ToSet(delivered) : n \in d
      BY <2>5 DEF Done
    <3>2. d \in SCCs(edges, Live)
      BY DEF Inv, DeliveredAreSCCs
    <3>3. other = d
      BY <3>1, <3>2, SCCsAreApart
    <3> QED BY <3>1, <3>3
  <2> QED BY <2>3, <2>4, <2>5
<1> HIDE DEF scc, left
<1>7. \A other \in left \ {scc} : ~Enumeration!LeadsTo(scc, other)
  BY <1>6 DEF Enumeration!LeadsTo
<1>8. Enumeration!Deliver(scc)
  BY <1>3, <1>4, <1>7 DEF Enumeration!Deliver
<1> QED BY <1>4, <1>5, <1>8 DEF Enumeration!Next

LEMMA NextIsNext == Inv /\ [Next]_vars => [Enumeration!Next]_(Enumeration!vars)
<1> SUFFICES ASSUME Inv, [Next]_vars
             PROVE  [Enumeration!Next]_(Enumeration!vars)
  OBVIOUS
<1>1. ASSUME UNCHANGED <<graphVars, delivered>>
      PROVE  UNCHANGED Enumeration!vars
  BY <1>1, SameReach DEF Enumeration!vars, graphVars
<1>2. ASSUME NEW child \in Nodes, VisitChild(child)
      PROVE  UNCHANGED <<graphVars, delivered>>
  BY <1>2 DEF VisitChild
<1>3. CASE PopNode
  <2>1. CASE Top.min = numbers[Top.node]
    BY <1>3, <2>1, DeliverIsNext
  <2>2. CASE Top.min # numbers[Top.node]
    <3>1. UNCHANGED <<graphVars, delivered>>
      BY <1>3, <2>2 DEF PopNode
    <3> QED BY <1>1, <3>1
  <2> QED BY <2>1, <2>2
<1>4. CASE Resume
  BY <1>1, <1>4 DEF Resume
<1>5. CASE NextSubGraph
  BY <1>1, <1>5 DEF NextSubGraph
<1>6. CASE UNCHANGED vars
  BY <1>1, <1>6 DEF vars
<1> QED BY <1>1, <1>2, <1>3, <1>4, <1>5, <1>6 DEF Next

(* The iterator delivers the components of what its roots reach, each      *)
(* once, as a whole, and after all those it leads to.                      *)
THEOREM Refinement == Spec => ImplementsEnumeration
<1>1. Init => Enumeration!Init
  BY InitIsInit
<1>2. Inv /\ [Next]_vars => [Enumeration!Next]_(Enumeration!vars)
  BY NextIsNext
<1> QED BY <1>1, <1>2, InvHolds, PTL DEF Spec, ImplementsEnumeration, Enumeration!Spec

=============================================================================
