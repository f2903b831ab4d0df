---------------------------- MODULE SCCIterator -----------------------------
(***************************************************************************)
(* SCCIterator: Tarjan's algorithm with an explicit stack, suspended       *)
(* whenever a component is complete and resumed by operator++.  It starts  *)
(* at the first node that the work list leaves to be visited and goes on   *)
(* with the next unvisited node when everything that node leads to has     *)
(* been delivered.  Nodes that were collapsed into another are not roots.  *)
(*                                                                         *)
(* The order of the successors of a node is the iteration order of a hash  *)
(* set of pointers, so any child may be the next one.                      *)
(***************************************************************************)
EXTENDS ConstraintGraph, SequencesExt

CONSTANTS
  Graphs,      \* the sets of copy edges to look at
  WorkLists(_) \* per graph, the sets of nodes a caller may mark as visited before

VARIABLES
  edges,       \* the constraint graph
  collapsed,   \* the nodes that have a super node
  workList,    \* the nodes marked by the caller; none in the first constructor
  visited,     \* visitedNode
  numbers,     \* nodeVisitNumbers of the nodes seen so far
  sccStack,    \* SCCNodeStack
  visitStack,  \* VisitStack, the children of a node being those still to visit
  lastRoot,
  current,     \* CurrentSCC
  delivered,   \* the components handed out so far, in order
  pc           \* "visit": in GetNextSCC; "deliver": suspended; "end"

graphVars == <<edges, collapsed, workList>>
vars == <<graphVars, visited, numbers, sccStack, visitStack, lastRoot, current, delivered, pc>>

ASSUME NodesAreFinite == IsFiniteSet(Nodes)
ASSUME GraphsAssumption ==
  \A E \in Graphs : E \subseteq Edge /\ WorkLists(E) \subseteq SUBSET Nodes

(* ~0U, the number of a node whose component was delivered.                *)
MaxNumber == Cardinality(Nodes) + 1

Frame == [node : Nodes, children : SUBSET Nodes, min : 1 .. MaxNumber]

TypeOK ==
  /\ edges \in Graphs
  /\ collapsed \subseteq Nodes
  /\ workList \in WorkLists(edges)
  /\ visited \subseteq Nodes
  /\ DOMAIN numbers \subseteq visited
  /\ \A n \in DOMAIN numbers : numbers[n] \in 1 .. MaxNumber
  /\ sccStack \in Seq(DOMAIN numbers)
  /\ visitStack \in Seq(Frame)
  /\ lastRoot \in Nodes \cup {0}
  /\ current \in Seq(Nodes)
  /\ delivered \in Seq(SUBSET Nodes)
  /\ pc \in {"visit", "deliver", "end"}

Lowest(S) == CHOOSE n \in S : \A m \in S : n <= m

(* DFSVisitOne: number n, the rest of whose children are to be visited.    *)
NewFrame(n, number) == [node |-> n, children |-> CopySucc(edges, n), min |-> number]

DFSVisitOne_NotMarked(n, below) ==   \* a mutant: visitedNode is not set
  LET number == Cardinality(DOMAIN numbers) + 1
  IN  /\ numbers' = [m \in DOMAIN numbers \cup {n} |-> IF m = n THEN number ELSE numbers[m]]
      /\ sccStack' = Append(sccStack, n)
      /\ visitStack' = Append(below, NewFrame(n, number))
      /\ UNCHANGED visited
DFSVisitOne(n, below) ==
  LET number == Cardinality(DOMAIN numbers) + 1
  IN  /\ numbers' = [m \in DOMAIN numbers \cup {n} |-> IF m = n THEN number ELSE numbers[m]]
      /\ sccStack' = Append(sccStack, n)
      /\ visitStack' = Append(below, NewFrame(n, number))
      /\ visited' = visited \cup {n}

(* The constructors.  A collapsed node has no edges.                       *)
Init ==
  /\ edges \in Graphs
  /\ collapsed \in SUBSET {n \in Nodes : \A e \in edges : n \notin {e[2], e[3]}}
  /\ workList \in WorkLists(edges)
  /\ workList = {} => Lowest(Nodes) \notin collapsed
  /\ lastRoot = 0
  /\ current = <<>>
  /\ delivered = <<>>
  /\ IF workList = Nodes
     THEN /\ visited = workList
          /\ numbers = <<>>
          /\ sccStack = <<>>
          /\ visitStack = <<>>
          /\ pc = "end"
     ELSE LET first == Lowest(Nodes \ workList)
          IN  /\ visited = workList \cup {first}
              /\ numbers = [n \in {first} |-> 1]
              /\ sccStack = <<first>>
              /\ visitStack = <<NewFrame(first, 1)>>
              /\ pc = "visit"

Top == Last(visitStack)
Lowered(frame, number) ==
  IF number < frame.min THEN [frame EXCEPT !.min = number] ELSE frame

(* DFSVisitChildren: descend into a child that was never seen, or lower    *)
(* the minimum to the number of one that was.                              *)
VisitChild(child) ==
  /\ pc = "visit"
  /\ child \in Top.children
  /\ LET frame == [Top EXCEPT !.children = @ \ {child}]
         below == Front(visitStack)
     IN  IF child \notin DOMAIN numbers
         THEN DFSVisitOne(child, Append(below, frame))
         ELSE /\ visitStack' = Append(below, Lowered(frame, numbers[child]))
              /\ UNCHANGED <<visited, numbers, sccStack>>
  /\ UNCHANGED <<graphVars, lastRoot, current, delivered, pc>>

(* The nodes of a component are those from n to the top of the stack; the  *)
(* last one comes first.                                                   *)
Position(n) == CHOOSE i \in DOMAIN sccStack : sccStack[i] = n
Component(n) == Reverse(SubSeq(sccStack, Position(n), Len(sccStack)))

ResetNumbers_Kept(nodes) == numbers   \* a mutant: the numbers are not reset
ResetNumbers(nodes) ==
  [m \in DOMAIN numbers |-> IF m \in nodes THEN MaxNumber ELSE numbers[m]]

Uplink_Lost(below, min) == below   \* a mutant: the parent does not learn of it
Uplink(below, min) ==
  IF below = <<>> THEN below ELSE Append(Front(below), Lowered(Last(below), min))

(* GetNextSCC, once all children of the top node have been visited.        *)
PopNode ==
  /\ pc = "visit"
  /\ Top.children = {}
  /\ visitStack' = Uplink(Front(visitStack), Top.min)
  /\ IF Top.min # numbers[Top.node]
     THEN UNCHANGED <<numbers, sccStack, current, delivered, pc>>
     ELSE /\ current' = Component(Top.node)
          /\ sccStack' = SubSeq(sccStack, 1, Position(Top.node) - 1)
          /\ numbers' = ResetNumbers(ToSet(current'))
          /\ delivered' = Append(delivered, ToSet(current'))
          /\ pc' = "deliver"
  /\ UNCHANGED <<graphVars, visited, lastRoot>>

(* operator++ while the traversal from the last root is not over.          *)
Resume ==
  /\ pc = "deliver"
  /\ visitStack # <<>>
  /\ current' = <<>>
  /\ pc' = "visit"
  /\ UNCHANGED <<graphVars, visited, numbers, sccStack, visitStack, lastRoot, delivered>>

(* nextSubGraph: the next unvisited node that has no super node.           *)
NextRoots_FirstUnset ==   \* a mutant: it stops at a collapsed node
  {n \in {Lowest((Nodes \ visited) \cup {lastRoot})} : n > lastRoot /\ n \notin collapsed}
NextRoots == {n \in Nodes \ visited : n > lastRoot /\ n \notin collapsed}

NextSubGraph ==
  /\ pc = "deliver"
  /\ visitStack = <<>>
  /\ current' = <<>>
  /\ IF NextRoots = {}
     THEN /\ pc' = "end"
          /\ UNCHANGED <<visited, numbers, sccStack, visitStack, lastRoot>>
     ELSE /\ lastRoot' = Lowest(NextRoots)
          /\ DFSVisitOne(lastRoot', <<>>)
          /\ pc' = "visit"
  /\ UNCHANGED <<graphVars, delivered>>

Next ==
  \/ \E child \in Nodes : VisitChild(child)
  \/ PopNode
  \/ Resume
  \/ NextSubGraph

Spec == Init /\ [][Next]_vars

(* The solver that iterates asks for the next component until the end.     *)
FairSpec == Spec /\ WF_vars(Next)

-----------------------------------------------------------------------------
(***************************************************************************)
(* Correctness.                                                            *)
(***************************************************************************)

(* Where the iteration starts.                                             *)
Roots ==
  LET unset == Nodes \ workList
  IN  (unset \ collapsed) \cup (IF unset = {} THEN {} ELSE {Lowest(unset)})

(* The components are delivered once each, whole, in reverse topological   *)
(* order.                                                                  *)
Enumeration == INSTANCE SCCEnumeration WITH roots <- Roots
ImplementsEnumeration == Enumeration!Spec

(* In the end all of them have been delivered.                             *)
DeliversAll == <>(pc = "end" /\ ToSet(delivered) = SCCs(edges, ReachedFrom(edges, Roots)))

(* Between two calls a node stays on the component stack only as long as   *)
(* it is in a cycle with a node whose visit is not over.                   *)
StackIsOpen ==
  LET onPath == {visitStack[i].node : i \in DOMAIN visitStack}
      reached == [n \in ToSet(sccStack) |-> ReachedFrom(edges, {n})]
  IN  \A n \in ToSet(sccStack) :
        \E m \in onPath : /\ numbers[m] <= numbers[n]
                          /\ n \in reached[m]
                          /\ m \in reached[n]

(***************************************************************************)
(* The inductive invariant behind them.                                    *)
(***************************************************************************)

Stacked == ToSet(sccStack)
Done == UNION ToSet(delivered)
PathNode(i) == visitStack[i].node
Reaches(a, b) == b \in ReachedFrom(edges, {a})

(* A number tells a delivered node, and the order of the others.           *)
Numbered ==
  /\ DOMAIN numbers = Stacked \cup Done
  /\ Stacked \cap Done = {}
  /\ workList \subseteq visited
  /\ \A n \in Done : numbers[n] = MaxNumber
  /\ \A n \in Stacked : numbers[n] <= Cardinality(DOMAIN numbers)
  /\ \A i, j \in DOMAIN sccStack : i < j => numbers[sccStack[i]] < numbers[sccStack[j]]

(* The nodes being visited are on the component stack too, in order.       *)
PathIsStacked ==
  /\ pc = "visit" => visitStack # <<>>
  /\ \A i \in DOMAIN visitStack :
       /\ PathNode(i) \in Stacked
       /\ visitStack[i].children \subseteq CopySucc(edges, PathNode(i))
  /\ \A i, j \in DOMAIN visitStack : i < j => numbers[PathNode(i)] < numbers[PathNode(j)]

(* They lead to all that was stacked after them.                           *)
PathLeadsOn ==
  \A i \in DOMAIN visitStack : \A n \in Stacked :
    numbers[PathNode(i)] <= numbers[n] => Reaches(PathNode(i), n)

(* The minimum of a frame is the number of a node that its node leads to.  *)
MinIsReached ==
  \A i \in DOMAIN visitStack :
    /\ visitStack[i].min <= numbers[PathNode(i)]
    /\ \E n \in Stacked : visitStack[i].min = numbers[n] /\ Reaches(PathNode(i), n)

(* The edges that are still to be looked at.                               *)
ToVisit(n, m) ==
  \E i \in DOMAIN visitStack : PathNode(i) = n /\ m \in visitStack[i].children

(* No other edge from what was stacked since its node leads lower.         *)
MinIsLowest ==
  \A i \in DOMAIN visitStack : \A n \in Stacked :
    /\ numbers[PathNode(i)] <= numbers[n]
    /\ i + 1 \in DOMAIN visitStack => numbers[n] < numbers[PathNode(i + 1)]
    => \A m \in CopySucc(edges, n) \cap Stacked :
         ToVisit(n, m) \/ visitStack[i].min <= numbers[m]

Explored ==
  /\ \A n \in Stacked : \A m \in CopySucc(edges, n) : m \in DOMAIN numbers \/ ToVisit(n, m)
  /\ \A n \in Done : CopySucc(edges, n) \subseteq Done

Live == ReachedFrom(edges, Roots)

DeliveredAreSCCs ==
  /\ DOMAIN numbers \subseteq Live
  /\ ToSet(delivered) \subseteq SCCs(edges, Live)

Inv ==
  /\ TypeOK /\ Numbered /\ PathIsStacked /\ PathLeadsOn /\ MinIsReached /\ MinIsLowest
  /\ Explored /\ DeliveredAreSCCs /\ StackIsOpen

=============================================================================
