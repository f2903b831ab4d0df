------------------------------ MODULE MemLayouts ------------------------------
(***************************************************************************)
(* The memory layouts of the field-sensitive model.  The layout of a type  *)
(* keeps one element of every array, so that an offset into the memory of  *)
(* the program (a physical offset) and an offset into the layout differ    *)
(* behind the first array.  Types are numbered, components first.          *)
(***************************************************************************)
EXTENDS Integers, Sequences

CONSTANTS
  Type,     \* per type: its kind and size; the element and count of an array;
            \* the fields of a structure and their offsets
  SizeMax   \* the largest size_t; as a count, the length of an unbounded array

Types == DOMAIN Type
SizeOf(t) == Type[t].size
Offsets(t) == Type[t].offsets
IsAggregate(t) == Type[t].kind \in {"array", "struct"}

(* The elements that are looked at: three stand for an unbounded array.    *)
Counted(t) == IF Type[t].count = SizeMax THEN 3 ELSE Type[t].count

(* What the data layout of a target guarantees: the elements of an array   *)
(* follow each other, and the fields of a structure do not overlap.        *)
ASSUME TypeAssumption ==
  /\ SizeMax \in Nat \ {0}
  /\ Len(Type) \in Nat /\ Types = 1 .. Len(Type)
  /\ \A t \in Types :
       /\ Type[t].kind \in {"scalar", "pointer", "array", "struct", "unknown"}
       /\ SizeOf(t) \in 0 .. SizeMax
       /\ Type[t].kind = "array" =>
            LET e == Type[t].elem
                n == Type[t].count
            IN /\ e \in Types /\ e < t /\ n \in 0 .. SizeMax
               /\ SizeOf(t) = IF n = SizeMax THEN SizeMax ELSE n * SizeOf(e)
               /\ Counted(t) * SizeOf(e) <= SizeOf(t)
       /\ Type[t].kind = "struct" =>
            LET fields == Type[t].fields IN
            /\ fields \in Seq({u \in Types : u < t})
            /\ Offsets(t) \in Seq(Nat) /\ Len(Offsets(t)) = Len(fields)
            /\ IF fields = <<>> THEN SizeOf(t) = 0 ELSE Offsets(t)[1] = 0
            /\ \A i \in DOMAIN fields :
                 /\ Offsets(t)[i] + SizeOf(fields[i]) <= SizeOf(t)
                 /\ \A j \in DOMAIN fields :
                      i < j => Offsets(t)[i] + SizeOf(fields[i]) <= Offsets(t)[j]

(* The sum of f[1] to f[n].                                                *)
Total(n, f) ==
  LET upTo[k \in 0 .. n] == IF k = 0 THEN 0 ELSE upTo[k - 1] + f[k]
  IN upTo[n]

LeastOf(S) == CHOOSE x \in S : \A y \in S : x <= y

-----------------------------------------------------------------------------
(* A layout: the offsets of elements and of pointers in it, the arrays by  *)
(* physical offset, and the first offsets behind it.  An array is given by *)
(* its type, as the layouts of types are kept.                             *)
EmptyLayout ==
  [elements |-> {}, pointers |-> {}, arrays |-> [x \in {} |-> 0], l |-> 0, p |-> 0]

Shift(S, d) == {s + d : s \in S}
ShiftArrays(A, d) == [x \in Shift(DOMAIN A, d) |-> A[x - d]]

(* std::map::insert keeps the array that is already at an offset.          *)
InsertArrays(A, B) ==
  [x \in DOMAIN A \cup DOMAIN B |-> IF x \in DOMAIN A THEN A[x] ELSE B[x]]

(* A mutant: pointers are marked at their physical offset.                 *)
AddElement_PointersInMemory(layout, t, inner) ==
  IF IsAggregate(t)
  THEN [elements |-> layout.elements \cup Shift(inner.elements, layout.l),
        pointers |-> layout.pointers \cup Shift(inner.pointers, layout.p),
        arrays   |-> InsertArrays(layout.arrays, ShiftArrays(inner.arrays, layout.p)),
        l |-> layout.l + inner.l,
        p |-> layout.p + SizeOf(t)]
  ELSE [elements |-> layout.elements \cup {layout.l},
        pointers |-> layout.pointers \cup {l \in {layout.l} : Type[t].kind = "pointer"},
        arrays   |-> layout.arrays,
        l |-> layout.l + SizeOf(t),
        p |-> layout.p + SizeOf(t)]

(* setElementLayout: add a component at the end of a layout, given its own *)
(* layout; a scalar has none.                                              *)
AddElement(layout, t, inner) ==
  IF IsAggregate(t)
  THEN [elements |-> layout.elements \cup Shift(inner.elements, layout.l),
        pointers |-> layout.pointers \cup Shift(inner.pointers, layout.l),
        arrays   |-> InsertArrays(layout.arrays, ShiftArrays(inner.arrays, layout.p)),
        l |-> layout.l + inner.l,
        p |-> layout.p + SizeOf(t)]
  ELSE [elements |-> layout.elements \cup {layout.l},
        pointers |-> layout.pointers \cup {l \in {layout.l} : Type[t].kind = "pointer"},
        arrays   |-> layout.arrays,
        l |-> layout.l + SizeOf(t),
        p |-> layout.p + SizeOf(t)]

Pad(layout, p) == [layout EXCEPT !.l = @ + (p - layout.p), !.p = p]

(* getStructLayout, given the layouts of the fields.                       *)
StructLayout(t, inner) ==
  LET fields == Type[t].fields
      upTo[n \in 0 .. Len(fields)] ==   \* the first n fields
        IF n = 0 THEN EmptyLayout
        ELSE AddElement(Pad(upTo[n - 1], Offsets(t)[n]), fields[n], inner[n])
  IN Pad(upTo[Len(fields)], SizeOf(t))

(* getArrayLayout: the layout of one element, and a single array; the      *)
(* arrays in an element are kept inside it.                                *)
ArrayLayout(t, inner) ==
  [AddElement(EmptyLayout, Type[t].elem, inner) EXCEPT !.arrays = [x \in {0} |-> t], !.p = SizeOf(t)]

(* DFSTypeTree, and the layouts it keeps, one per type.                    *)
LayoutOf[t \in Types] ==
  CASE Type[t].kind = "struct" ->
         StructLayout(t, [i \in DOMAIN Type[t].fields |-> LayoutOf[Type[t].fields[i]]])
    [] Type[t].kind = "array" -> ArrayLayout(t, LayoutOf[Type[t].elem])
    [] OTHER -> EmptyLayout

Layout == [t \in Types |-> LayoutOf[t]]

(* The size of an array in memory, and that of it in a layout.             *)
Bytes(a) == IF Type[a].count = SizeMax THEN SizeMax ELSE Type[a].count * SizeOf(Type[a].elem)

-----------------------------------------------------------------------------
(* The offset in a layout of an offset in memory that no array contains,   *)
(* or of the start of an array: the arrays before it keep one element.     *)
Compacted(arrays, p) ==
  p + Total(p, [x \in 1 .. p |->
                  IF x - 1 \in DOMAIN arrays
                  THEN Layout[arrays[x - 1]].l - Bytes(arrays[x - 1]) ELSE 0])

(* indexBetweenArrays for the arrays in the layout of a type: an offset    *)
(* inside an array is taken modulo the element size.  The second result is *)
(* the physical offset in the first element.                               *)
IndexBetweenArrays[t \in Types] ==
  [p \in 0 .. SizeOf(t) |->
     LET arrays == Layout[t].arrays
         inside == {x \in DOMAIN arrays : x < p /\ p < x + Bytes(arrays[x])}
         at == LeastOf(inside)
         e  == Type[arrays[at]].elem
         r  == IndexBetweenArrays[e][(p - at) % SizeOf(e)]
     IN IF inside = {} THEN [l |-> Compacted(arrays, p), p |-> p]
        ELSE [l |-> Compacted(arrays, at) + r.l, p |-> at + r.p]]

(* A mutant: the end of the layout is taken for the end of the memory.     *)
IndexPhysicalOffset_LayoutEnd(t, p) ==
  IF DOMAIN Layout[t].arrays = {} THEN [l |-> p, p |-> p]
  ELSE IF p >= Layout[t].l THEN [l |-> SizeMax, p |-> p]
  ELSE IndexBetweenArrays[t][p]

(* A mutant: the physical offset is not moved into the first element.      *)
IndexPhysicalOffset_ByValue(t, p) ==
  IF DOMAIN Layout[t].arrays = {} THEN [l |-> p, p |-> p]
  ELSE IF p >= Layout[t].p THEN [l |-> SizeMax, p |-> p]
  ELSE [IndexBetweenArrays[t][p] EXCEPT !.p = p]

(* indexPhysicalOffset: an offset behind the last one cannot be indexed.   *)
IndexPhysicalOffset(t, p) ==
  IF DOMAIN Layout[t].arrays = {} THEN [l |-> p, p |-> p]
  ELSE IF p >= Layout[t].p THEN [l |-> SizeMax, p |-> p]
  ELSE IndexBetweenArrays[t][p]

(* isArrayExistAtOffset: whether an array with elements of the given size  *)
(* starts at an offset, or inside the first array before the offset that   *)
(* ends behind the element size.                                           *)
IsArrayExistAtOffset[t \in Types] ==
  [p \in 0 .. SizeMax |-> [step \in 0 .. SizeMax |->
     LET arrays  == Layout[t].arrays
         nested  == {x \in DOMAIN arrays : x < p /\ x + Bytes(arrays[x]) >= step}
         elem(x) == Type[arrays[x]].elem
     IN IF p \in DOMAIN arrays
        THEN \/ SizeOf(elem(p)) = step
             \/ SizeOf(elem(p)) > step /\ IsArrayExistAtOffset[elem(p)][0][step]
        ELSE /\ nested # {}
             /\ IsArrayExistAtOffset[elem(LeastOf(nested))][p - LeastOf(nested)][step]]]

-----------------------------------------------------------------------------
(* The reference: the objects a type has inside it in memory, the type     *)
(* itself included, by the start of each, the start it has when all        *)
(* elements of an array are taken to be the first, and its type.           *)
PartsAt(parts, at, first) ==
  {[at |-> at + c.at, first |-> first + c.first, type |-> c.type] : c \in parts}

PartsOf[t \in Types] ==
  {[at |-> 0, first |-> 0, type |-> t]} \cup
  CASE Type[t].kind = "struct" ->
         UNION {PartsAt(PartsOf[Type[t].fields[i]], Offsets(t)[i], Offsets(t)[i]) :
                  i \in DOMAIN Type[t].fields}
    [] Type[t].kind = "array" ->
         UNION {PartsAt(PartsOf[Type[t].elem], n * SizeOf(Type[t].elem), 0) :
                  n \in 0 .. Counted(t) - 1}
    [] OTHER -> {}

Parts == [t \in Types |-> PartsOf[t]]

(* No part is empty: no structure without fields, and no array of length   *)
(* zero.                                                                   *)
Solid(t) == \A c \in Parts[t] : SizeOf(c.type) > 0

(* Of the arrays in a structure that are not inside each other, only the   *)
(* first has arrays in its elements.                                       *)
NestedFirst(t) ==
  \A c \in Parts[t] : \A x, y \in DOMAIN Layout[c.type].arrays :
    x < y => \A d \in Parts[Type[Layout[c.type].arrays[y]].elem] : Type[d.type].kind # "array"

(* The offsets in a type at which a scalar starts.                         *)
Fields(t) == {c.at : c \in {c \in Parts[t] : ~IsAggregate(c.type)}}
IsPointer(t, p) == \E c \in Parts[t] : c.at = p /\ Type[c.type].kind = "pointer"

(* The elements of an array.                                               *)
Elements(t) == {n * SizeOf(Type[t].elem) : n \in 0 .. Counted(t) - 1}

(* The field that the start of an object stands for when all the elements  *)
(* of an array are taken to be the first.                                  *)
FirstElement(t, p) == (CHOOSE c \in Parts[t] : c.at = p).first
=============================================================================
