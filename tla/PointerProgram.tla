--------------------------- MODULE PointerProgram ---------------------------
(***************************************************************************)
(* What a pointer analysis is given and what it has to answer.             *)
(*                                                                         *)
(* The language model turns an LLVM module into nodes and inclusion        *)
(* constraints between them.  A node is a pointer (a CGPtrNode) or an      *)
(* object (a CGObjNode); an object node also stands for what is stored in  *)
(* the object, and its points-to set says where that may point.  Every     *)
(* object is created together with an anonymous pointer to it, whose       *)
(* identifier is the object's plus one.                                    *)
(*                                                                         *)
(* Nodes the memory model or an indirect call would create during the      *)
(* analysis are nodes from the start here: until some edge touches them    *)
(* they take no part in it.                                                *)
(***************************************************************************)
EXTENDS Integers, FiniteSets

CONSTANTS
  PtrNodes,     \* identifiers of the pointer nodes that stand for LLVM values
  ObjNodes,     \* identifiers of the object nodes
  GepNodes,     \* the pointer nodes that stand for a getelementptr
  IndexObject,  \* IndexObject[g][o]: the field of o that g selects, or NoObj
  NoObj,        \* o cannot be indexed that way
  ProgIds,      \* names of the programs to analyse
  Program,      \* Program[i]: the constraints and indirect calls of program i
  Reference     \* Reference[i]: some solution of program i

AnonNode(o) == o + 1
AnonNodes == {AnonNode(o) : o \in ObjNodes}
Nodes == PtrNodes \cup ObjNodes \cup AnonNodes

Kinds == {"load", "store", "copy", "offset"}
Edge == Kinds \X Nodes \X Nodes
AddrOf == {"addr_of"} \X ObjNodes \X PtrNodes

(* A constraint, as the language model states it.  getelementptr nodes     *)
(* receive nothing but the offset of their base pointer, anonymous nodes   *)
(* receive nothing at all.                                                 *)
Constraint ==
  {c \in Edge : /\ c[2] \notin AnonNodes
                /\ c[3] \notin AnonNodes
                /\ c[1] \in {"load", "copy"} => c[3] \notin GepNodes
                /\ c[1] = "offset" => c[3] \in GepNodes}
  \cup {c \in AddrOf : c[3] \notin GepNodes}

(* One way to resolve an indirect call: the call `site`, made through the  *)
(* pointer fp, reaches the function object fn; cons are the constraints    *)
(* that binding the call adds (parameters, result, the body of fn when it  *)
(* becomes reachable).                                                     *)
IsCall(c) ==
  /\ DOMAIN c = {"site", "fp", "fn", "cons"}
  /\ c.fp \in PtrNodes
  /\ c.fn \in ObjNodes
  /\ c.cons \subseteq Constraint

IsProgram(P) ==
  /\ DOMAIN P = {"base", "calls"}
  /\ P.base \subseteq Constraint
  /\ \A c \in P.calls : IsCall(c)

Assignment == [Nodes -> SUBSET ObjNodes]

(***************************************************************************)
(* The meaning of the constraints.                                         *)
(***************************************************************************)
Holds(S, c) ==
  CASE c[1] = "addr_of" -> c[2] \in S[c[3]]
    [] c[1] = "copy"    -> S[c[2]] \subseteq S[c[3]]
    [] c[1] = "load"    -> \A o \in S[c[2]] : S[o] \subseteq S[c[3]]
    [] c[1] = "store"   -> \A o \in S[c[3]] : S[c[2]] \subseteq S[o]
    [] c[1] = "offset"  -> \A o \in S[c[2]] : IndexObject[c[3]][o] # NoObj
                                   => IndexObject[c[3]][o] \in S[c[3]]

IsSolution(P, S) ==
  /\ \A o \in ObjNodes : S[AnonNode(o)] = {o}
  /\ \A c \in P.base : Holds(S, c)
  /\ \A call \in P.calls : call.fn \in S[call.fp] =>
                              \A c \in call.cons : Holds(S, c)

ASSUME NodesAssumption ==
  /\ PtrNodes \subseteq Nat
  /\ ObjNodes \subseteq Nat
  /\ PtrNodes \cap ObjNodes = {}
  /\ AnonNodes \cap (PtrNodes \cup ObjNodes) = {}
  /\ GepNodes \subseteq PtrNodes
  /\ NoObj \notin ObjNodes
  /\ IndexObject \in [GepNodes -> [ObjNodes -> ObjNodes \cup {NoObj}]]

ASSUME ProgramAssumption ==
  \A i \in ProgIds : IsProgram(Program[i])

ASSUME ReferenceAssumption ==
  \A i \in ProgIds : /\ Reference[i] \in Assignment
                     /\ IsSolution(Program[i], Reference[i])

=============================================================================
