-------------------------- MODULE FSMemModel_proofs --------------------------
(***************************************************************************)
(* Proofs about the memory blocks of the field-sensitive model, for every  *)
(* data layout and every type without empty parts (Solid), however it      *)
(* nests arrays and structures.                                            *)
(*                                                                         *)
(* The way to the invariant: a layout has the components of a type one     *)
(* behind the other, and its offsets agree with those in memory up to the  *)
(* arrays in front (Laid, Windows); so the offset of a scalar is           *)
(* translated to a layout offset that only the scalars of the same field   *)
(* have (ScalarsIndexed, ScalarsApart); so indexing finds or creates the   *)
(* one object of a field (IndexObject), and an initialiser stores each     *)
(* address in the object of its pointer (InitialisedFacts).                *)
(***************************************************************************)
EXTENDS FSMemModel, WellFoundedInduction, TLAPS

(* A set of naturals has a least element; from it induction for sets, as   *)
(* the theorem of the library on induction has a predicate as parameter.   *)
LEMMA LeastNatural ==
  ASSUME NEW T, T \subseteq Nat, T # {}
  PROVE  \E m \in T : \A n \in T : m <= n
<1> DEFINE R == OpToRel(<, Nat)
<1>1. IsWellFoundedOn(R, Nat)
  BY NatLessThanWellFounded
<1>2. \A x, y \in Nat : <<y, x>> \in R <=> y < x
  BY DEF OpToRel
<1> HIDE DEF R
<1>3. PICK m \in T : \A n \in T : ~(<<n, m>> \in R)
  BY <1>1, WFMin
<1>4. ASSUME NEW n \in T
      PROVE  m <= n
  <2>1. m \in Nat /\ n \in Nat /\ ~(n < m)
    BY <1>2, <1>3
  <2> QED
    BY <2>1
<1> QED
  BY <1>4

LEMMA SetInduction ==
  ASSUME NEW S, 0 \in S, \A n \in Nat : n \in S => n + 1 \in S
  PROVE  Nat \subseteq S
<1> SUFFICES ASSUME Nat \ S # {}
             PROVE  FALSE
  OBVIOUS
<1>1. PICK m \in Nat \ S : \A n \in Nat \ S : m <= n
  BY LeastNatural
<1>2. m - 1 \in Nat /\ m - 1 \in S
  BY <1>1
<1> QED
  BY <1>1, <1>2

(***************************************************************************)
(* Types.                                                                  *)
(***************************************************************************)
Below(k) == {t \in Types : t <= k}

(* Types are numbered, components first; so recursion over types ends and  *)
(* has a value, which is built up from the first type.                     *)
LEMMA TypesAreNumbered ==
  /\ Len(Type) \in Nat /\ Types = 1 .. Len(Type)
  /\ Below(0) = {} /\ Below(Len(Type)) = Types
  /\ \A k \in Nat : \A t \in Below(k + 1) : t # k + 1 => t \in Below(k)
<1>1. Len(Type) \in Nat /\ Types = 1 .. Len(Type)
  BY TypeAssumption
<1> QED
  BY <1>1 DEF Below

LEMMA Components ==
  ASSUME NEW t \in Types
  PROVE  /\ t \in Nat
         /\ Type[t].kind = "array" => Type[t].elem \in Types /\ Type[t].elem < t
         /\ Type[t].kind = "struct" =>
              \A i \in DOMAIN Type[t].fields :
                Type[t].fields[i] \in Types /\ Type[t].fields[i] < t
<1>1. t \in Nat
  BY TypesAreNumbered
<1>2. ASSUME Type[t].kind = "struct", NEW i \in DOMAIN Type[t].fields
      PROVE  Type[t].fields[i] \in Types /\ Type[t].fields[i] < t
  <2>1. Type[t].fields \in Seq({u \in Types : u < t})
    BY <1>2, TypeAssumption
  <2> QED
    BY <2>1
<1>3. Type[t].kind = "array" => Type[t].elem \in Types /\ Type[t].elem < t
  BY TypeAssumption
<1> QED
  BY <1>1, <1>2, <1>3

LayoutStep(f, t) ==
  CASE Type[t].kind = "struct" ->
         StructLayout(t, [i \in DOMAIN Type[t].fields |-> f[Type[t].fields[i]]])
    [] Type[t].kind = "array" -> ArrayLayout(t, f[Type[t].elem])
    [] OTHER -> EmptyLayout

LEMMA LayoutStepAgrees ==
  ASSUME NEW t \in Types, NEW f, NEW g,
         \A u \in Types : u < t => f[u] = g[u]
  PROVE  LayoutStep(f, t) = LayoutStep(g, t)
<1>1. CASE Type[t].kind = "struct"
  <2>1. [i \in DOMAIN Type[t].fields |-> f[Type[t].fields[i]]]
          = [i \in DOMAIN Type[t].fields |-> g[Type[t].fields[i]]]
    BY <1>1, Components
  <2> QED
    BY <1>1, <2>1 DEF LayoutStep
<1>2. CASE Type[t].kind = "array"
  BY <1>2, Components DEF LayoutStep
<1>3. CASE Type[t].kind \notin {"array", "struct"}
  BY <1>3 DEF LayoutStep
<1> QED
  BY <1>1, <1>2, <1>3

LEMMA LayoutExists ==
  \E f : f = [t \in Types |-> LayoutStep(f, t)]
<1> DEFINE S == {k \in Nat : \E f : f = [t \in Below(k) |-> LayoutStep(f, t)]}
<1>1. 0 \in S
  <2>1. [t \in {} |-> 0] = [t \in Below(0) |-> LayoutStep([u \in {} |-> 0], t)]
    BY TypesAreNumbered
  <2> QED
    BY <2>1
<1>2. ASSUME NEW k \in Nat, k \in S
      PROVE  k + 1 \in S
  <2>1. PICK f : f = [t \in Below(k) |-> LayoutStep(f, t)]
    BY <1>2
  <2>2. PICK g : g = [t \in Below(k + 1) |-> IF t = k + 1 THEN LayoutStep(f, t) ELSE f[t]]
    OBVIOUS
  <2>3. ASSUME NEW t \in Below(k + 1)
        PROVE  g[t] = LayoutStep(g, t)
    <3>1. t \in Types /\ t <= k + 1
      BY DEF Below
    <3>2. \A u \in Types : u < t => f[u] = g[u]
      BY <2>2, <3>1, TypesAreNumbered DEF Below
    <3>3. LayoutStep(f, t) = LayoutStep(g, t)
      BY <3>1, <3>2, LayoutStepAgrees
    <3>4. g[t] = LayoutStep(f, t)
      BY <2>1, <2>2, TypesAreNumbered
    <3> QED
      BY <3>3, <3>4
  <2>4. g = [t \in Below(k + 1) |-> g[t]]
    BY <2>2
  <2>5. g = [t \in Below(k + 1) |-> LayoutStep(g, t)]
    BY <2>3, <2>4
  <2> QED
    BY <2>5
<1> HIDE DEF S
<1>3. Len(Type) \in S
  BY <1>1, <1>2, SetInduction, TypesAreNumbered
<1> QED
  BY <1>3, TypesAreNumbered DEF S

(* The layout of a type, from those of its components.                     *)
LEMMA LayoutFacts ==
  ASSUME NEW t \in Types
  PROVE  Layout[t] = LayoutStep(Layout, t)
<1>1. LayoutOf = [u \in Types |-> LayoutStep(LayoutOf, u)]
  BY LayoutExists DEF LayoutOf, LayoutStep
<1>2. LayoutOf[t] = LayoutStep(LayoutOf, t)
  BY <1>1
<1>3. \A u \in Types : LayoutOf[u] = Layout[u]
  BY DEF Layout
<1>4. LayoutStep(LayoutOf, t) = LayoutStep(Layout, t)
  BY <1>3, LayoutStepAgrees
<1> QED
  BY <1>2, <1>3, <1>4

(* The facts about the data layout that the proofs use.                    *)
LEMMA TypeFacts ==
  ASSUME NEW t \in Types
  PROVE  /\ SizeMax \in Nat /\ SizeMax > 0
         /\ SizeOf(t) \in Nat /\ SizeOf(t) <= SizeMax
         /\ Type[t].kind \in {"scalar", "pointer", "array", "struct", "unknown"}
<1>1. SizeMax \in Nat /\ SizeMax > 0
  <2>1. SizeMax \in Nat \ {0}
    BY TypeAssumption, Zenon
  <2> QED
    BY <2>1
<1>2. /\ SizeOf(t) \in 0 .. SizeMax
      /\ Type[t].kind \in {"scalar", "pointer", "array", "struct", "unknown"}
  BY TypeAssumption
<1> QED
  BY <1>1, <1>2

LEMMA ArrayFacts ==
  ASSUME NEW t \in Types, Type[t].kind = "array"
  PROVE  /\ Type[t].elem \in Types /\ Type[t].elem < t
         /\ Counted(t) \in Nat /\ Counted(t) * SizeOf(Type[t].elem) <= SizeOf(t)
         /\ Bytes(t) = SizeOf(t)
         /\ SizeOf(t) > 0 => Counted(t) >= 1
<1>1. /\ Type[t].elem \in Types /\ Type[t].elem < t
      /\ Type[t].count \in 0 .. SizeMax
      /\ SizeOf(t) = IF Type[t].count = SizeMax THEN SizeMax
                     ELSE Type[t].count * SizeOf(Type[t].elem)
      /\ Counted(t) * SizeOf(Type[t].elem) <= SizeOf(t)
  BY TypeAssumption
<1>2. SizeMax \in Nat /\ SizeOf(Type[t].elem) \in Nat
  BY <1>1, TypeFacts
<1>3. Counted(t) \in Nat
  BY <1>1, <1>2 DEF Counted
<1>4. Bytes(t) = SizeOf(t)
  BY <1>1 DEF Bytes
<1>5. ASSUME Counted(t) = 0
      PROVE  SizeOf(t) = 0
  <2>1. Type[t].count = 0 /\ Type[t].count # SizeMax
    BY <1>1, <1>5 DEF Counted
  <2>2. 0 * SizeOf(Type[t].elem) = 0
    BY <1>2
  <2> QED
    BY <1>1, <2>1, <2>2
<1> QED
  BY <1>1, <1>3, <1>4, <1>5

LEMMA StructFacts ==
  ASSUME NEW t \in Types, Type[t].kind = "struct"
  PROVE  /\ Len(Type[t].fields) \in Nat
         /\ DOMAIN Type[t].fields = 1 .. Len(Type[t].fields)
         /\ SizeOf(t) > 0 => Len(Type[t].fields) >= 1 /\ Offsets(t)[1] = 0
         /\ \A i \in 1 .. Len(Type[t].fields) :
              /\ Type[t].fields[i] \in Types /\ Type[t].fields[i] < t
              /\ Offsets(t)[i] \in Nat
              /\ Offsets(t)[i] + SizeOf(Type[t].fields[i]) <= SizeOf(t)
              /\ \A j \in 1 .. Len(Type[t].fields) :
                   i < j => Offsets(t)[i] + SizeOf(Type[t].fields[i]) <= Offsets(t)[j]
<1> DEFINE fields == Type[t].fields
<1>1. /\ fields \in Seq({u \in Types : u < t})
      /\ Offsets(t) \in Seq(Nat) /\ Len(Offsets(t)) = Len(fields)
      /\ IF fields = <<>> THEN SizeOf(t) = 0 ELSE Offsets(t)[1] = 0
      /\ \A i \in DOMAIN fields :
           /\ Offsets(t)[i] + SizeOf(fields[i]) <= SizeOf(t)
           /\ \A j \in DOMAIN fields :
                i < j => Offsets(t)[i] + SizeOf(fields[i]) <= Offsets(t)[j]
  BY TypeAssumption
<1> HIDE DEF fields
<1>2. Len(fields) \in Nat /\ DOMAIN fields = 1 .. Len(fields)
  BY <1>1
<1>3. \A i \in 1 .. Len(fields) :
        fields[i] \in Types /\ fields[i] < t /\ Offsets(t)[i] \in Nat
  BY <1>1, <1>2
<1>4. fields # <<>> => Len(fields) >= 1
  BY <1>1, <1>2
<1>5. SizeOf(t) > 0 => Len(fields) >= 1 /\ Offsets(t)[1] = 0
  BY <1>1, <1>4
<1> QED
  BY <1>1, <1>2, <1>3, <1>5 DEF fields

(* Sums.                                                                   *)
LEMMA TotalExists ==
  ASSUME NEW n \in Nat, NEW g
  PROVE  \E f : f = [k \in 0 .. n |-> IF k = 0 THEN 0 ELSE f[k - 1] + g[k]]
<1> DEFINE S == {m \in Nat : \E f : f = [k \in 0 .. m |-> IF k = 0 THEN 0 ELSE f[k - 1] + g[k]]}
<1>1. 0 \in S
  <2>1. PICK f : f = [k \in 0 .. 0 |-> 0]
    OBVIOUS
  <2>2. f = [k \in 0 .. 0 |-> IF k = 0 THEN 0 ELSE f[k - 1] + g[k]]
    BY <2>1
  <2> QED
    BY <2>2
<1>2. ASSUME NEW m \in Nat, m \in S
      PROVE  m + 1 \in S
  <2>1. PICK f : f = [k \in 0 .. m |-> IF k = 0 THEN 0 ELSE f[k - 1] + g[k]]
    BY <1>2
  <2>2. PICK h : h = [k \in 0 .. m + 1 |-> IF k = m + 1 THEN f[m] + g[m + 1] ELSE f[k]]
    OBVIOUS
  <2>3. ASSUME NEW k \in 0 .. m + 1
        PROVE  h[k] = IF k = 0 THEN 0 ELSE h[k - 1] + g[k]
    <3>1. CASE k = m + 1
      BY <3>1, <2>2
    <3>2. CASE k = 0
      BY <3>2, <2>1, <2>2
    <3>3. CASE k \in 1 .. m
      <4>1. h[k] = f[k] /\ h[k - 1] = f[k - 1]
        BY <3>3, <2>2
      <4>2. f[k] = f[k - 1] + g[k]
        BY <3>3, <2>1
      <4> QED
        BY <3>3, <4>1, <4>2
    <3> QED
      BY <3>1, <3>2, <3>3
  <2>4. h = [k \in 0 .. m + 1 |-> h[k]]
    BY <2>2
  <2>5. h = [k \in 0 .. m + 1 |-> IF k = 0 THEN 0 ELSE h[k - 1] + g[k]]
    BY <2>3, <2>4
  <2> QED
    BY <2>5
<1> HIDE DEF S
<1>3. n \in S
  BY <1>1, <1>2, SetInduction
<1> QED
  BY <1>3 DEF S

(* Two sums of the same numbers agree as far as both go.                   *)
LEMMA TotalPrefix ==
  ASSUME NEW n \in Nat, NEW m \in Nat, m <= n, NEW g, NEW h,
         \A k \in 1 .. m : g[k] = h[k] /\ g[k] \in Int
  PROVE  /\ Total(m, h) \in Int
         /\ m = 0 => Total(m, h) = 0
         /\ n = m => Total(n, g) = Total(m, h)
         /\ n = m + 1 => Total(n, g) = Total(m, h) + g[n]
<1> DEFINE Sum(k, f, x) == f = [i \in 0 .. k |-> IF i = 0 THEN 0 ELSE f[i - 1] + x[i]]
           a == CHOOSE f : Sum(n, f, g)
           b == CHOOSE f : Sum(m, f, h)
<1>1. Total(n, g) = a[n] /\ Total(m, h) = b[m]
  BY DEF Total
<1>2. Sum(n, a, g) /\ Sum(m, b, h)
  <2>1. (\E f : Sum(n, f, g)) /\ \E f : Sum(m, f, h)
    BY TotalExists
  <2> QED
    BY <2>1
<1> HIDE DEF a, b
<1>3. a[0] = 0 /\ b[0] = 0
  BY <1>2
<1>4. \A k \in 1 .. n : a[k] = a[k - 1] + g[k]
  BY <1>2
<1>5. \A k \in 1 .. m : b[k] = b[k - 1] + h[k]
  BY <1>2
<1> HIDE DEF Sum
<1> DEFINE S == {k \in Nat : k <= m => a[k] = b[k] /\ a[k] \in Int}
<1>6. 0 \in S
  BY <1>3
<1>7. ASSUME NEW k \in Nat, k \in S
      PROVE  k + 1 \in S
  <2> SUFFICES ASSUME k + 1 <= m
               PROVE  a[k + 1] = b[k + 1] /\ a[k + 1] \in Int
    OBVIOUS
  <2>1. a[k + 1] = a[k] + g[k + 1] /\ b[k + 1] = b[k] + h[k + 1]
    BY <1>4, <1>5
  <2>2. a[k] = b[k] /\ a[k] \in Int /\ g[k + 1] = h[k + 1] /\ g[k + 1] \in Int
    BY <1>7
  <2> QED
    BY <2>1, <2>2
<1> HIDE DEF S
<1>8. m \in S
  BY <1>6, <1>7, SetInduction
<1>9. a[m] = b[m] /\ a[m] \in Int
  BY <1>8 DEF S
<1> QED
  BY <1>1, <1>3, <1>4, <1>9

LEMMA TotalFacts ==
  ASSUME NEW n \in Nat, NEW g, NEW h,
         \A k \in 1 .. n : g[k] = h[k] /\ g[k] \in Int
  PROVE  /\ Total(n, g) \in Int /\ Total(n, g) = Total(n, h)
         /\ n = 0 => Total(n, g) = 0
         /\ n # 0 => Total(n, g) = Total(n - 1, h) + g[n]
<1>1. /\ Total(n, h) \in Int
      /\ n = 0 => Total(n, h) = 0
      /\ Total(n, g) = Total(n, h)
  <2>1. n <= n
    OBVIOUS
  <2> QED
    BY <2>1, TotalPrefix
<1>2. ASSUME n # 0
      PROVE  Total(n, g) = Total(n - 1, h) + g[n]
  <2>1. /\ n - 1 \in Nat /\ n - 1 <= n /\ n = (n - 1) + 1
        /\ \A k \in 1 .. n - 1 : g[k] = h[k] /\ g[k] \in Int
    BY <1>2
  <2> QED
    BY <2>1, TotalPrefix
<1> QED
  BY <1>1, <1>2

(***************************************************************************)
(* Arrays in a layout.                                                     *)
(***************************************************************************)

(* The arrays of a memory of the given size have elements, lie behind each *)
(* other and are of types up to k.                                         *)
Apart(A, size, k) ==
  /\ A = [x \in DOMAIN A |-> A[x]]
  /\ DOMAIN A \subseteq Nat
  /\ \A x \in DOMAIN A :
       /\ A[x] \in Types /\ A[x] <= k /\ Type[A[x]].kind = "array" /\ Solid(A[x])
       /\ SizeOf(A[x]) > 0 /\ Layout[A[x]].l \in Nat
       /\ x + SizeOf(A[x]) <= size
       /\ \A y \in DOMAIN A : x < y => x + SizeOf(A[x]) <= y

NoArrays == [x \in {} |-> 0]

LEMMA NoArraysApart ==
  ASSUME NEW size, NEW k
  PROVE  Apart(NoArrays, size, k)
BY DEF Apart, NoArrays

LEMMA ApartFacts ==
  ASSUME NEW A, NEW size, NEW k, Apart(A, size, k), NEW x \in DOMAIN A
  PROVE  /\ x \in Nat /\ A[x] \in Types /\ A[x] <= k /\ Type[A[x]].kind = "array"
         /\ Solid(A[x])
         /\ SizeOf(A[x]) \in Nat /\ SizeOf(A[x]) > 0 /\ Bytes(A[x]) = SizeOf(A[x])
         /\ Layout[A[x]].l \in Nat
         /\ x + SizeOf(A[x]) <= size
         /\ \A y \in DOMAIN A : x < y => x + SizeOf(A[x]) <= y
<1>1. /\ x \in Nat /\ A[x] \in Types /\ A[x] <= k /\ Type[A[x]].kind = "array"
      /\ Solid(A[x])
      /\ SizeOf(A[x]) > 0 /\ Layout[A[x]].l \in Nat
      /\ x + SizeOf(A[x]) <= size
      /\ \A y \in DOMAIN A : x < y => x + SizeOf(A[x]) <= y
  BY DEF Apart
<1>2. SizeOf(A[x]) \in Nat /\ Bytes(A[x]) = SizeOf(A[x])
  BY <1>1, TypeFacts, ArrayFacts
<1> QED
  BY <1>1, <1>2

(* How the offset in a layout grows with that in memory.                   *)
Saved(A, x) == IF x \in DOMAIN A THEN Layout[A[x]].l - SizeOf(A[x]) ELSE 0

LEMMA SavedFacts ==
  ASSUME NEW A, NEW size, NEW k, Apart(A, size, k), NEW x
  PROVE  /\ Saved(A, x) \in Int
         /\ x \in DOMAIN A => Layout[A[x]].l - Bytes(A[x]) = Saved(A, x)
BY ApartFacts DEF Saved

LEMMA CompactedFacts ==
  ASSUME NEW A, NEW size, NEW k, Apart(A, size, k), NEW p \in Nat
  PROVE  /\ Compacted(A, p) \in Int
         /\ p = 0 => Compacted(A, p) = 0
         /\ Compacted(A, p + 1) = Compacted(A, p) + 1 + Saved(A, p)
<1> DEFINE g(n) == [x \in 1 .. n |->
                  IF x - 1 \in DOMAIN A
                  THEN Layout[A[x - 1]].l - Bytes(A[x - 1]) ELSE 0]
<1>1. ASSUME NEW n \in Nat, NEW x \in 1 .. n
      PROVE  g(n)[x] = Saved(A, x - 1) /\ g(n)[x] \in Int
  BY SavedFacts DEF Saved
<1>2. \A n \in Nat : Compacted(A, n) = n + Total(n, g(n))
  BY DEF Compacted
<1> HIDE DEF g
<1>3. Total(p, g(p)) \in Int /\ (p = 0 => Total(p, g(p)) = 0)
  BY <1>1, TotalFacts
<1>4. Total(p + 1, g(p + 1)) = Total(p, g(p)) + Saved(A, p)
  <2>1. PICK n \in Nat : n = p + 1
    OBVIOUS
  <2>2. p <= n /\ n = p + 1 /\ \A x \in 1 .. p : g(n)[x] = g(p)[x] /\ g(n)[x] \in Int
    BY <1>1, <2>1
  <2>3. Total(n, g(n)) = Total(p, g(p)) + g(n)[n]
    BY <2>2, TotalPrefix
  <2>4. g(n)[n] = Saved(A, n - 1) /\ n - 1 = p
    BY <1>1, <2>1
  <2> QED
    BY <2>1, <2>3, <2>4
<1>5. Saved(A, p) \in Int
  BY SavedFacts
<1>6. Compacted(A, p) = p + Total(p, g(p)) /\ Compacted(A, p + 1) = p + 1 + Total(p + 1, g(p + 1))
  BY <1>2
<1> QED
  BY <1>3, <1>4, <1>5, <1>6

(* Behind offset a, where A has the arrays of B, offsets grow as in B.     *)
LEMMA CompactedShift ==
  ASSUME NEW A, NEW B, NEW size, NEW k, NEW size2, NEW k2,
         Apart(A, size, k), Apart(B, size2, k2), NEW a \in Nat, NEW q \in Nat,
         \A x \in Nat : x < q => Saved(A, a + x) = Saved(B, x)
  PROVE  Compacted(A, a + q) = Compacted(A, a) + Compacted(B, q)
<1> DEFINE S == {n \in Nat : n <= q => Compacted(A, a + n) = Compacted(A, a) + Compacted(B, n)}
<1>1. 0 \in S
  <2>1. Compacted(A, a) \in Int /\ Compacted(B, 0) = 0 /\ a + 0 = a
    BY CompactedFacts
  <2> QED
    BY <2>1
<1>2. ASSUME NEW n \in Nat, n \in S
      PROVE  n + 1 \in S
  <2> SUFFICES ASSUME n + 1 <= q
               PROVE  Compacted(A, a + (n + 1)) = Compacted(A, a) + Compacted(B, n + 1)
    OBVIOUS
  <2>1. Compacted(A, a + n) = Compacted(A, a) + Compacted(B, n)
    BY <1>2
  <2>2. PICK m \in Nat : m = a + n
    OBVIOUS
  <2>3. Compacted(A, m + 1) = Compacted(A, m) + 1 + Saved(A, m)
    BY CompactedFacts
  <2>4. Compacted(B, n + 1) = Compacted(B, n) + 1 + Saved(B, n)
    BY CompactedFacts
  <2>5. Saved(A, m) = Saved(B, n)
    BY <2>2
  <2>6. /\ Compacted(A, a) \in Int /\ Compacted(B, n) \in Int /\ Saved(B, n) \in Int
        /\ a + (n + 1) = m + 1
    BY <2>2, CompactedFacts, SavedFacts
  <2> QED
    BY <2>1, <2>2, <2>3, <2>4, <2>5, <2>6
<1> HIDE DEF S
<1>3. q \in S
  BY <1>1, <1>2, SetInduction
<1> QED
  BY <1>3 DEF S

LEMMA CompactedNoArrays ==
  ASSUME NEW q \in Nat
  PROVE  Compacted(NoArrays, q) = q
<1>1. Apart(NoArrays, 0, 0) /\ \A x : Saved(NoArrays, x) = 0
  BY NoArraysApart DEF Saved, NoArrays
<1> DEFINE S == {n \in Nat : Compacted(NoArrays, n) = n}
<1>2. 0 \in S
  BY <1>1, CompactedFacts
<1>3. ASSUME NEW n \in Nat, n \in S
      PROVE  n + 1 \in S
  <2>1. Compacted(NoArrays, n + 1) = Compacted(NoArrays, n) + 1 + Saved(NoArrays, n)
    BY <1>1, CompactedFacts
  <2> QED
    BY <1>1, <1>3, <2>1
<1> HIDE DEF S
<1>4. q \in S
  BY <1>2, <1>3, SetInduction
<1> QED
  BY <1>4 DEF S

(* Where there are no arrays, both offsets grow alike.                     *)
LEMMA CompactedGap ==
  ASSUME NEW A, NEW size, NEW k, Apart(A, size, k), NEW a \in Nat, NEW q \in Nat,
         \A x \in DOMAIN A : ~(a <= x /\ x < a + q)
  PROVE  Compacted(A, a + q) = Compacted(A, a) + q
<1>1. Apart(NoArrays, 0, 0) /\ \A x : Saved(NoArrays, x) = 0
  BY NoArraysApart DEF Saved, NoArrays
<1>2. \A x \in Nat : x < q => Saved(A, a + x) = Saved(NoArrays, x)
  BY <1>1 DEF Saved
<1>3. Compacted(A, a + q) = Compacted(A, a) + Compacted(NoArrays, q)
  BY <1>1, <1>2, CompactedShift
<1> QED
  BY <1>3, CompactedNoArrays

(* Only the arrays in front of an offset matter.                           *)
LEMMA CompactedAgrees ==
  ASSUME NEW A, NEW B, NEW size, NEW k, NEW size2, NEW k2,
         Apart(A, size, k), Apart(B, size2, k2), NEW q \in Nat,
         \A x \in Nat : x < q => Saved(A, x) = Saved(B, x)
  PROVE  Compacted(A, q) = Compacted(B, q)
<1>1. \A x \in Nat : x < q => Saved(A, 0 + x) = Saved(B, x)
  OBVIOUS
<1>2. Compacted(A, 0 + q) = Compacted(A, 0) + Compacted(B, q)
  BY <1>1, CompactedShift
<1>3. 0 + q = q /\ Compacted(A, 0) = 0 /\ Compacted(B, q) \in Int
  BY CompactedFacts
<1> QED
  BY <1>2, <1>3

(***************************************************************************)
(* Layouts.                                                                *)
(***************************************************************************)

(* What a component adds to a layout: its layout, or that of a scalar.     *)
Own(t) ==
  IF IsAggregate(t) THEN Layout[t]
  ELSE [elements |-> {0}, pointers |-> {l \in {0} : Type[t].kind = "pointer"},
        arrays |-> NoArrays, l |-> SizeOf(t), p |-> SizeOf(t)]

(* A layout, finished or not, of types up to k: its elements are inside    *)
(* it, and its end is the translation of the end of the memory.            *)
Laid(L, k) ==
  /\ L = [elements |-> L.elements, pointers |-> L.pointers, arrays |-> L.arrays,
          l |-> L.l, p |-> L.p]
  /\ L.l \in Nat /\ L.p \in Nat /\ L.l <= L.p
  /\ L.elements \subseteq Nat /\ (\A m \in L.elements : m < L.l)
  /\ L.pointers \subseteq L.elements
  /\ Apart(L.arrays, L.p, k)
  /\ Compacted(L.arrays, L.p) = L.l

(* A component f of a layout is at offset `at' of memory and `lo' of the   *)
(* layout.                                                                 *)
Window(L, f, at, lo) ==
  /\ at \in Nat /\ lo \in Nat /\ Own(f).l \in Nat
  /\ at + SizeOf(f) <= L.p /\ lo + Own(f).l <= L.l
  /\ \A m \in Nat : m < Own(f).l =>
       /\ lo + m \in L.elements <=> m \in Own(f).elements
       /\ lo + m \in L.pointers <=> m \in Own(f).pointers
  /\ \A q \in Nat : q < SizeOf(f) =>
       /\ at + q \in DOMAIN L.arrays <=> q \in DOMAIN Own(f).arrays
       /\ q \in DOMAIN Own(f).arrays => L.arrays[at + q] = Own(f).arrays[q]
  /\ Compacted(L.arrays, at) = lo
  /\ \A x \in DOMAIN L.arrays : x < at => x + SizeOf(L.arrays[x]) <= at

LEMMA EmptyLaid ==
  ASSUME NEW k
  PROVE  Laid(EmptyLayout, k) /\ EmptyLayout.l = 0 /\ EmptyLayout.p = 0
         /\ EmptyLayout.arrays = NoArrays
<1>1. EmptyLayout = [elements |-> {}, pointers |-> {}, arrays |-> NoArrays, l |-> 0, p |-> 0]
  BY DEF EmptyLayout, NoArrays
<1>2. Apart(NoArrays, 0, k) /\ Compacted(NoArrays, 0) = 0
  BY NoArraysApart, CompactedNoArrays
<1> QED
  BY <1>1, <1>2 DEF Laid

LEMMA PadLaid ==
  ASSUME NEW L, NEW k, Laid(L, k), NEW p \in Nat, L.p <= p
  PROVE  /\ Laid(Pad(L, p), k)
         /\ Pad(L, p).p = p /\ Pad(L, p).l = L.l + (p - L.p)
         /\ \A f \in Types : \A at, lo : Window(L, f, at, lo) => Window(Pad(L, p), f, at, lo)
<1> DEFINE P == Pad(L, p)
<1>1. P = [elements |-> L.elements, pointers |-> L.pointers, arrays |-> L.arrays,
           l |-> L.l + (p - L.p), p |-> p]
  <2>1. PICK es, ps, as, l, q :
          L = [elements |-> es, pointers |-> ps, arrays |-> as, l |-> l, p |-> q]
    BY DEF Laid
  <2>2. /\ L.elements = es /\ L.pointers = ps /\ L.arrays = as /\ L.l = l /\ L.p = q
        /\ DOMAIN L = {"elements", "pointers", "arrays", "l", "p"}
    BY <2>1
  <2>3. P = [L EXCEPT !.l = L.l + (p - L.p), !.p = p]
    BY DEF Pad
  <2>4. /\ P = [x \in DOMAIN L |-> P[x]]
        /\ P.elements = es /\ P.pointers = ps /\ P.arrays = as
        /\ P.l = l + (p - q) /\ P.p = p
    BY <2>2, <2>3
  <2> HIDE DEF P
  <2> QED
    BY <2>2, <2>4
<1> HIDE DEF P
<1>2. L.l \in Nat /\ L.p \in Nat /\ P.l \in Nat /\ P.l <= p /\ L.l <= P.l
  BY <1>1 DEF Laid
<1>3. Apart(P.arrays, P.p, k)
  <2>1. Apart(L.arrays, L.p, k) /\ P.arrays = L.arrays /\ P.p = p
    BY <1>1 DEF Laid
  <2>2. \A x \in DOMAIN L.arrays : x + SizeOf(L.arrays[x]) <= p
    <3>1. \A x \in DOMAIN L.arrays : /\ x \in Nat /\ SizeOf(L.arrays[x]) \in Nat
                                     /\ x + SizeOf(L.arrays[x]) <= L.p
      BY <2>1, ApartFacts
    <3> QED
      BY <3>1, <1>2
  <2> QED
    BY <2>1, <2>2 DEF Apart
<1>4. Compacted(P.arrays, P.p) = P.l
  <2>1. Apart(L.arrays, L.p, k) /\ Compacted(L.arrays, L.p) = L.l
    BY DEF Laid
  <2>2. PICK q \in Nat : q = p - L.p
    BY <1>2
  <2>3. \A x \in DOMAIN L.arrays : ~(L.p <= x /\ x < L.p + q)
    BY <2>1, <1>2, ApartFacts
  <2>4. Compacted(L.arrays, L.p + q) = L.l + q
    BY <2>1, <2>3, <1>2, CompactedGap
  <2>5. L.p + q = p
    BY <2>2, <1>2
  <2> QED
    BY <2>2, <2>4, <2>5, <1>1
<1>5. Laid(P, k)
  <2>1. \A m \in L.elements : m \in Nat /\ m < L.l
    BY DEF Laid
  <2> QED
    BY <1>1, <1>2, <1>3, <1>4, <2>1 DEF Laid
<1>6. ASSUME NEW f \in Types, NEW at, NEW lo, Window(L, f, at, lo)
      PROVE  Window(P, f, at, lo)
  <2>1. at + SizeOf(f) <= p
    <3>1. at \in Nat /\ SizeOf(f) \in Nat /\ at + SizeOf(f) <= L.p
      BY <1>6, TypeFacts DEF Window
    <3> QED
      BY <3>1, <1>2
  <2>2. lo + Own(f).l <= P.l
    <3>1. lo \in Nat /\ Own(f).l \in Nat /\ lo + Own(f).l <= L.l
      BY <1>6 DEF Window
    <3> QED
      BY <3>1, <1>2
  <2> QED
    BY <1>1, <1>6, <2>1, <2>2 DEF Window
<1> QED
  BY <1>1, <1>5, <1>6 DEF P

(* A component is added behind what a layout has.                          *)
Added(L, f) == AddElement(L, f, Layout[f])

LEMMA AddFacts ==
  ASSUME NEW L, NEW k, Laid(L, k), NEW f \in Types
  PROVE  LET M == Added(L, f)
             O == Own(f)
         IN /\ M = [elements |-> M.elements, pointers |-> M.pointers, arrays |-> M.arrays,
                    l |-> M.l, p |-> M.p]
            /\ M.elements = L.elements \cup {m + L.l : m \in O.elements}
            /\ M.pointers = L.pointers \cup {m + L.l : m \in O.pointers}
            /\ M.arrays = [x \in DOMAIN L.arrays \cup {y + L.p : y \in DOMAIN O.arrays} |->
                             IF x \in DOMAIN L.arrays THEN L.arrays[x] ELSE O.arrays[x - L.p]]
            /\ M.l = L.l + O.l /\ M.p = L.p + SizeOf(f)
<1> DEFINE M == Added(L, f)
           O == Own(f)
<1>1. L.l \in Nat /\ L.p \in Nat /\ L.arrays = [x \in DOMAIN L.arrays |-> L.arrays[x]]
  BY DEF Laid, Apart
<1>2. CASE IsAggregate(f)
  <2>1. M = [elements |-> L.elements \cup Shift(O.elements, L.l),
             pointers |-> L.pointers \cup Shift(O.pointers, L.l),
             arrays   |-> InsertArrays(L.arrays, ShiftArrays(O.arrays, L.p)),
             l |-> L.l + O.l,
             p |-> L.p + SizeOf(f)]
    BY <1>2 DEF Added, AddElement, Own
  <2> HIDE DEF M, O
  <2>2. InsertArrays(L.arrays, ShiftArrays(O.arrays, L.p))
          = [x \in DOMAIN L.arrays \cup {y + L.p : y \in DOMAIN O.arrays} |->
               IF x \in DOMAIN L.arrays THEN L.arrays[x] ELSE O.arrays[x - L.p]]
    <3>1. PICK B : B = ShiftArrays(O.arrays, L.p)
      OBVIOUS
    <3>2. B = [x \in {y + L.p : y \in DOMAIN O.arrays} |-> O.arrays[x - L.p]]
      BY <3>1 DEF ShiftArrays, Shift
    <3>3. InsertArrays(L.arrays, B)
            = [x \in DOMAIN L.arrays \cup DOMAIN B |->
                 IF x \in DOMAIN L.arrays THEN L.arrays[x] ELSE B[x]]
      BY DEF InsertArrays
    <3>4. DOMAIN B = {y + L.p : y \in DOMAIN O.arrays}
      BY <3>2
    <3>5. \A x \in DOMAIN B : B[x] = O.arrays[x - L.p]
      BY <3>2
    <3> HIDE <3>2
    <3> QED
      BY <3>1, <3>3, <3>4, <3>5
  <2> QED
    BY <2>1, <2>2 DEF Shift, M, O
<1>3. CASE ~IsAggregate(f)
  <2>1. M = [elements |-> L.elements \cup {L.l},
             pointers |-> L.pointers \cup {l \in {L.l} : Type[f].kind = "pointer"},
             arrays   |-> L.arrays,
             l |-> L.l + SizeOf(f),
             p |-> L.p + SizeOf(f)]
    BY <1>3 DEF Added, AddElement
  <2>2. O = [elements |-> {0}, pointers |-> {l \in {0} : Type[f].kind = "pointer"},
             arrays |-> NoArrays, l |-> SizeOf(f), p |-> SizeOf(f)]
    BY <1>3 DEF Own
  <2> HIDE DEF M, O
  <2>3. DOMAIN O.arrays = {}
    BY <2>2 DEF NoArrays
  <2>4. {m + L.l : m \in O.elements} = {L.l}
    BY <2>2, <1>1
  <2>5. {m + L.l : m \in O.pointers} = {l \in {L.l} : Type[f].kind = "pointer"}
    BY <2>2, <1>1
  <2>6. L.arrays = [x \in DOMAIN L.arrays \cup {y + L.p : y \in DOMAIN O.arrays} |->
               IF x \in DOMAIN L.arrays THEN L.arrays[x] ELSE O.arrays[x - L.p]]
    <3>1. DOMAIN L.arrays \cup {y + L.p : y \in DOMAIN O.arrays} = DOMAIN L.arrays
      BY <2>3
    <3>2. [x \in DOMAIN L.arrays |->
               IF x \in DOMAIN L.arrays THEN L.arrays[x] ELSE O.arrays[x - L.p]]
             = [x \in DOMAIN L.arrays |-> L.arrays[x]]
      OBVIOUS
    <3> QED
      BY <3>1, <3>2, <1>1
  <2>7. M.arrays = L.arrays /\ M.l = L.l + O.l /\ M.p = L.p + SizeOf(f)
    BY <2>1, <2>2
  <2>8. /\ M.elements = L.elements \cup {m + L.l : m \in O.elements}
        /\ M.pointers = L.pointers \cup {m + L.l : m \in O.pointers}
    BY <2>1, <2>4, <2>5
  <2>9. M = [elements |-> M.elements, pointers |-> M.pointers, arrays |-> M.arrays,
             l |-> M.l, p |-> M.p]
    BY <2>1
  <2> QED
    BY <2>6, <2>7, <2>8, <2>9 DEF M, O
<1> QED
  BY <1>2, <1>3

LEMMA AddArrays ==
  ASSUME NEW L, NEW k, Laid(L, k), NEW f \in Types, Laid(Own(f), k), Own(f).p = SizeOf(f)
  PROVE  LET M == Added(L, f)
             O == Own(f)
         IN /\ Apart(M.arrays, M.p, k)
            /\ \A x \in Nat : x < L.p =>
                 /\ x \in DOMAIN M.arrays <=> x \in DOMAIN L.arrays
                 /\ x \in DOMAIN L.arrays => M.arrays[x] = L.arrays[x]
            /\ \A q \in Nat :
                 /\ L.p + q \in DOMAIN M.arrays <=> q \in DOMAIN O.arrays
                 /\ q \in DOMAIN O.arrays => M.arrays[L.p + q] = O.arrays[q]
<1> DEFINE M == Added(L, f)
           O == Own(f)
<1>1. /\ M.arrays = [x \in DOMAIN L.arrays \cup {y + L.p : y \in DOMAIN O.arrays} |->
                       IF x \in DOMAIN L.arrays THEN L.arrays[x] ELSE O.arrays[x - L.p]]
      /\ M.p = L.p + SizeOf(f)
  BY AddFacts
<1>2. /\ L.p \in Nat /\ Apart(L.arrays, L.p, k)
      /\ O.p \in Nat /\ O.p = SizeOf(f) /\ Apart(O.arrays, SizeOf(f), k)
  BY DEF Laid
<1>3. PICK A, B, C, p, s : /\ A = L.arrays /\ B = O.arrays /\ C = M.arrays /\ p = L.p
                           /\ s = SizeOf(f)
  OBVIOUS
<1>4. /\ C = [x \in DOMAIN A \cup {y + p : y \in DOMAIN B} |->
                IF x \in DOMAIN A THEN A[x] ELSE B[x - p]]
      /\ p \in Nat /\ s \in Nat /\ Apart(A, p, k) /\ Apart(B, s, k)
  BY <1>1, <1>2, <1>3
<1> HIDE DEF M, O
<1>5. /\ \A x \in DOMAIN A : x \in Nat /\ x < p
      /\ \A y \in DOMAIN B : y \in Nat /\ y + p \notin DOMAIN A
  <2>1. \A x \in DOMAIN A : /\ x \in Nat /\ SizeOf(A[x]) \in Nat /\ SizeOf(A[x]) > 0
                            /\ x + SizeOf(A[x]) <= p
    BY <1>4, ApartFacts
  <2>2. \A y \in DOMAIN B : y \in Nat
    BY <1>4, ApartFacts
  <2> QED
    BY <1>4, <2>1, <2>2
<1>6. \A x \in Nat : x < p =>
        /\ x \in DOMAIN C <=> x \in DOMAIN A
        /\ x \in DOMAIN A => C[x] = A[x]
  BY <1>4, <1>5
<1>7. \A q \in Nat :
        /\ p + q \in DOMAIN C <=> q \in DOMAIN B
        /\ q \in DOMAIN B => C[p + q] = B[q]
  <2>1. ASSUME NEW q \in Nat
        PROVE  p + q \in DOMAIN C <=> q \in DOMAIN B
    BY <1>4, <1>5
  <2>2. ASSUME NEW q \in Nat, q \in DOMAIN B
        PROVE  C[p + q] = B[q]
    <3>1. p + q \in DOMAIN C /\ p + q \notin DOMAIN A /\ (p + q) - p = q
      BY <2>1, <2>2, <1>4, <1>5
    <3> QED
      BY <3>1, <1>4
  <2> QED
    BY <2>1, <2>2
<1>8. \A x \in DOMAIN C : \/ x \in DOMAIN A /\ C[x] = A[x] /\ x < p
                          \/ \E q \in DOMAIN B : x = p + q /\ C[x] = B[q]
  <2>1. ASSUME NEW x \in DOMAIN C, x \notin DOMAIN A
        PROVE  \E q \in DOMAIN B : x = p + q /\ C[x] = B[q]
    <3>1. PICK q \in DOMAIN B : x = q + p
      BY <1>4, <2>1
    <3>2. q \in Nat /\ x = p + q
      BY <3>1, <1>4, <1>5
    <3> QED
      BY <3>2, <1>7
  <2> QED
    BY <2>1, <1>4, <1>5
<1>9. Apart(C, p + s, k)
  <2>1. C = [x \in DOMAIN C |-> C[x]]
    BY <1>4
  <2>2. DOMAIN C \subseteq Nat
    BY <1>4, <1>5, <1>8
  <2>3. ASSUME NEW x \in DOMAIN A
        PROVE  /\ A[x] \in Types /\ A[x] <= k /\ Type[A[x]].kind = "array" /\ Solid(A[x])
               /\ SizeOf(A[x]) \in Nat /\ SizeOf(A[x]) > 0 /\ Layout[A[x]].l \in Nat
               /\ x \in Nat /\ x + SizeOf(A[x]) <= p
               /\ \A y \in DOMAIN A : x < y => x + SizeOf(A[x]) <= y
    BY <1>4, ApartFacts
  <2>4. ASSUME NEW x \in DOMAIN B
        PROVE  /\ B[x] \in Types /\ B[x] <= k /\ Type[B[x]].kind = "array" /\ Solid(B[x])
               /\ SizeOf(B[x]) \in Nat /\ SizeOf(B[x]) > 0 /\ Layout[B[x]].l \in Nat
               /\ x \in Nat /\ x + SizeOf(B[x]) <= s
               /\ \A y \in DOMAIN B : x < y => x + SizeOf(B[x]) <= y
    BY <1>4, ApartFacts
  <2>5. ASSUME NEW x \in DOMAIN C
        PROVE  /\ C[x] \in Types /\ C[x] <= k /\ Type[C[x]].kind = "array" /\ Solid(C[x])
               /\ SizeOf(C[x]) > 0 /\ Layout[C[x]].l \in Nat
               /\ x + SizeOf(C[x]) <= p + s
               /\ \A y \in DOMAIN C : x < y => x + SizeOf(C[x]) <= y
    <3>1. CASE x \in DOMAIN A /\ C[x] = A[x]
      <4>1. \A y \in DOMAIN C : x < y => x + SizeOf(C[x]) <= y
        <5> SUFFICES ASSUME NEW y \in DOMAIN C, x < y
                     PROVE  x + SizeOf(A[x]) <= y
          BY <3>1
        <5>1. CASE y \in DOMAIN A
          BY <5>1, <3>1, <2>3
        <5>2. CASE \E q \in DOMAIN B : y = p + q
          BY <5>2, <3>1, <2>3, <1>4, <1>5
        <5> QED
          BY <5>1, <5>2, <1>8
      <4> QED
        BY <3>1, <4>1, <2>3, <1>4
    <3>2. ASSUME NEW q \in DOMAIN B, x = p + q, C[x] = B[q]
          PROVE  <2>5!2
      <4>1. \A y \in DOMAIN C : x < y => x + SizeOf(C[x]) <= y
        <5> SUFFICES ASSUME NEW y \in DOMAIN C, x < y
                     PROVE  x + SizeOf(B[q]) <= y
          BY <3>2
        <5>1. CASE y \in DOMAIN A
          BY <5>1, <3>2, <2>4, <1>4, <1>5
        <5>2. ASSUME NEW r \in DOMAIN B, y = p + r
              PROVE  x + SizeOf(B[q]) <= y
          <6>1. q \in Nat /\ r \in Nat /\ q < r
            BY <5>2, <3>2, <1>4, <1>5
          <6> QED
            BY <6>1, <5>2, <3>2, <2>4, <1>4
        <5> QED
          BY <5>1, <5>2, <1>8
      <4> QED
        BY <3>2, <4>1, <2>4, <1>4
    <3> QED
      BY <3>1, <3>2, <1>8
  <2> QED
    BY <2>1, <2>2, <2>5 DEF Apart
<1> QED
  BY <1>1, <1>3, <1>6, <1>7, <1>9 DEF M, O

(* Adding a component to what is laid out leaves it laid out, and gives    *)
(* the component its place.                                                *)
LEMMA AddLaid ==
  ASSUME NEW L, NEW k, Laid(L, k), NEW f \in Types, Laid(Own(f), k), Own(f).p = SizeOf(f)
  PROVE  LET M == Added(L, f)
         IN /\ Laid(M, k) /\ M.l = L.l + Own(f).l /\ M.p = L.p + SizeOf(f)
            /\ Window(M, f, L.p, L.l)
            /\ \A g \in Types : \A at, lo : Window(L, g, at, lo) => Window(M, g, at, lo)
<1> DEFINE M == Added(L, f)
           O == Own(f)
<1>1. /\ M = [elements |-> M.elements, pointers |-> M.pointers, arrays |-> M.arrays,
              l |-> M.l, p |-> M.p]
      /\ M.elements = L.elements \cup {m + L.l : m \in O.elements}
      /\ M.pointers = L.pointers \cup {m + L.l : m \in O.pointers}
      /\ M.l = L.l + O.l /\ M.p = L.p + SizeOf(f)
  BY AddFacts, ZenonT(60)
<1>2. /\ Apart(M.arrays, M.p, k)
      /\ \A x \in Nat : x < L.p =>
           /\ x \in DOMAIN M.arrays <=> x \in DOMAIN L.arrays
           /\ x \in DOMAIN L.arrays => M.arrays[x] = L.arrays[x]
      /\ \A q \in Nat :
           /\ L.p + q \in DOMAIN M.arrays <=> q \in DOMAIN O.arrays
           /\ q \in DOMAIN O.arrays => M.arrays[L.p + q] = O.arrays[q]
  BY AddArrays
<1> HIDE DEF M, O
<1>3. /\ L.l \in Nat /\ L.p \in Nat /\ L.l <= L.p
      /\ L.elements \subseteq Nat /\ (\A m \in L.elements : m < L.l)
      /\ L.pointers \subseteq L.elements
      /\ Apart(L.arrays, L.p, k) /\ Compacted(L.arrays, L.p) = L.l
  BY DEF Laid
<1>4. /\ O.l \in Nat /\ O.p = SizeOf(f) /\ SizeOf(f) \in Nat /\ O.l <= SizeOf(f)
      /\ O.elements \subseteq Nat /\ (\A m \in O.elements : m < O.l)
      /\ O.pointers \subseteq O.elements
      /\ Apart(O.arrays, SizeOf(f), k) /\ Compacted(O.arrays, SizeOf(f)) = O.l
  BY DEF Laid, O
<1>5. \A p \in Nat : p <= L.p => Compacted(M.arrays, p) = Compacted(L.arrays, p)
  <2> SUFFICES ASSUME NEW p \in Nat, p <= L.p
               PROVE  Compacted(M.arrays, p) = Compacted(L.arrays, p)
    OBVIOUS
  <2>1. \A x \in Nat : x < p => Saved(M.arrays, x) = Saved(L.arrays, x)
    <3>1. \A x \in Nat : x < p => x < L.p
      BY <1>3
    <3> QED
      BY <3>1, <1>2 DEF Saved
  <2> QED
    BY <2>1, <1>2, <1>3, CompactedAgrees
<1>6. \A q \in Nat : Compacted(M.arrays, L.p + q) = L.l + Compacted(O.arrays, q)
  <2> SUFFICES ASSUME NEW q \in Nat
               PROVE  Compacted(M.arrays, L.p + q) = L.l + Compacted(O.arrays, q)
    OBVIOUS
  <2>1. \A x \in Nat : x < q => Saved(M.arrays, L.p + x) = Saved(O.arrays, x)
    BY <1>2 DEF Saved
  <2>2. Compacted(M.arrays, L.p + q) = Compacted(M.arrays, L.p) + Compacted(O.arrays, q)
    BY <2>1, <1>2, <1>3, <1>4, CompactedShift
  <2>3. Compacted(M.arrays, L.p) = L.l
    BY <1>3, <1>5
  <2> QED
    BY <2>2, <2>3
<1>7. Laid(M, k)
  <2>1. M.l \in Nat /\ M.p \in Nat /\ M.l <= M.p
    BY <1>1, <1>3, <1>4
  <2>2. M.elements \subseteq Nat /\ \A m \in M.elements : m < M.l
    BY <1>1, <1>3, <1>4
  <2>3. M.pointers \subseteq M.elements
    BY <1>1, <1>3, <1>4
  <2>4. Compacted(M.arrays, M.p) = M.l
    BY <1>1, <1>4, <1>6
  <2> QED
    BY <1>1, <1>2, <2>1, <2>2, <2>3, <2>4 DEF Laid
<1>8. Window(M, f, L.p, L.l)
  <2>1. ASSUME NEW m \in Nat, m < O.l
        PROVE  /\ L.l + m \in M.elements <=> m \in O.elements
               /\ L.l + m \in M.pointers <=> m \in O.pointers
    <3>1. L.l + m \notin L.elements /\ L.l + m \notin L.pointers
      BY <1>3
    <3>2. (\E n \in O.elements : L.l + m = n + L.l) <=> m \in O.elements
      BY <1>3, <1>4
    <3>3. (\E n \in O.pointers : L.l + m = n + L.l) <=> m \in O.pointers
      BY <1>3, <1>4
    <3> QED
      BY <3>1, <3>2, <3>3, <1>1
  <2>2. Compacted(M.arrays, L.p) = L.l
    BY <1>3, <1>5
  <2>3. L.p + SizeOf(f) <= M.p /\ L.l + O.l <= M.l
    BY <1>1, <1>3, <1>4
  <2>4. \A x \in DOMAIN M.arrays : x < L.p => x + SizeOf(M.arrays[x]) <= L.p
    <3>1. \A x \in DOMAIN L.arrays : x + SizeOf(L.arrays[x]) <= L.p
      BY <1>3, ApartFacts
    <3>2. DOMAIN M.arrays \subseteq Nat
      BY <1>2 DEF Apart
    <3> QED
      BY <3>1, <3>2, <1>2
  <2> QED
    BY <2>1, <2>2, <2>3, <2>4, <1>2, <1>3, <1>4 DEF Window, O
<1>9. ASSUME NEW g \in Types, NEW at, NEW lo, Window(L, g, at, lo)
      PROVE  Window(M, g, at, lo)
  <2>1. /\ at \in Nat /\ lo \in Nat /\ Own(g).l \in Nat /\ SizeOf(g) \in Nat
        /\ at + SizeOf(g) <= L.p /\ lo + Own(g).l <= L.l
    BY <1>9, TypeFacts DEF Window
  <2>2. ASSUME NEW m \in Nat, m < Own(g).l
        PROVE  /\ lo + m \in M.elements <=> m \in Own(g).elements
               /\ lo + m \in M.pointers <=> m \in Own(g).pointers
    <3>1. lo + m < L.l
      BY <2>1, <2>2, <1>3
    <3>2. \A n \in O.elements : lo + m # n + L.l
      BY <3>1, <2>1, <1>3, <1>4
    <3>3. /\ lo + m \in M.elements <=> lo + m \in L.elements
          /\ lo + m \in M.pointers <=> lo + m \in L.pointers
      BY <3>2, <1>1, <1>4
    <3> QED
      BY <3>3, <1>9, <2>2 DEF Window
  <2>3. ASSUME NEW q \in Nat, q < SizeOf(g)
        PROVE  /\ at + q \in DOMAIN M.arrays <=> q \in DOMAIN Own(g).arrays
               /\ q \in DOMAIN Own(g).arrays => M.arrays[at + q] = Own(g).arrays[q]
    <3>1. at + q \in Nat /\ at + q < L.p
      BY <2>1, <2>3, <1>3
    <3>2. /\ at + q \in DOMAIN M.arrays <=> at + q \in DOMAIN L.arrays
          /\ at + q \in DOMAIN L.arrays => M.arrays[at + q] = L.arrays[at + q]
      BY <3>1, <1>2
    <3> QED
      BY <3>2, <1>9, <2>3 DEF Window
  <2>4. Compacted(M.arrays, at) = lo
    <3>1. at <= L.p
      BY <2>1, <1>3
    <3> QED
      BY <3>1, <2>1, <1>5, <1>9 DEF Window
  <2>5. at + SizeOf(g) <= M.p /\ lo + Own(g).l <= M.l
    BY <2>1, <1>1, <1>3, <1>4
  <2>6. ASSUME NEW x \in DOMAIN M.arrays, x < at
        PROVE  x + SizeOf(M.arrays[x]) <= at
    <3>1. x \in Nat /\ x < L.p
      BY <2>1, <2>6, <1>2, <1>3 DEF Apart
    <3>2. x \in DOMAIN L.arrays /\ M.arrays[x] = L.arrays[x]
      BY <3>1, <1>2
    <3> QED
      BY <3>2, <2>6, <1>9 DEF Window
  <2> QED
    BY <2>1, <2>2, <2>3, <2>4, <2>5, <2>6 DEF Window
<1> QED
  BY <1>1, <1>7, <1>8, <1>9 DEF M, O

(***************************************************************************)
(* Parts.                                                                  *)
(***************************************************************************)
(* Induction over types.                                                   *)
LEMMA TypeInduction ==
  ASSUME NEW S, \A t \in Types : (\A u \in Types : u < t => u \in S) => t \in S
  PROVE  Types \subseteq S
<1> SUFFICES ASSUME Types \ S # {}
             PROVE  FALSE
  OBVIOUS
<1>1. Types \subseteq Nat
  BY TypesAreNumbered
<1>2. PICK m \in Types \ S : \A n \in Types \ S : m <= n
  BY <1>1, LeastNatural
<1>3. \A u \in Types : u < m => u \in S
  BY <1>1, <1>2
<1> QED
  BY <1>2, <1>3

(* A part of a component, seen from the whole; and the whole as a part.    *)
Moved(c, at, first) == [at |-> at + c.at, first |-> first + c.first, type |-> c.type]

Whole(t) == [at |-> 0, first |-> 0, type |-> t]

PartsStep(f, t) ==
  {[at |-> 0, first |-> 0, type |-> t]} \cup
  CASE Type[t].kind = "struct" ->
         UNION {PartsAt(f[Type[t].fields[i]], Offsets(t)[i], Offsets(t)[i]) :
                  i \in DOMAIN Type[t].fields}
    [] Type[t].kind = "array" ->
         UNION {PartsAt(f[Type[t].elem], n * SizeOf(Type[t].elem), 0) :
                  n \in 0 .. Counted(t) - 1}
    [] OTHER -> {}

LEMMA PartsStepAgrees ==
  ASSUME NEW t \in Types, NEW f, NEW g,
         \A u \in Types : u < t => f[u] = g[u]
  PROVE  PartsStep(f, t) = PartsStep(g, t)
<1>1. CASE Type[t].kind = "struct"
  <2>1. \A i \in DOMAIN Type[t].fields : f[Type[t].fields[i]] = g[Type[t].fields[i]]
    BY <1>1, Components
  <2>2. {PartsAt(f[Type[t].fields[i]], Offsets(t)[i], Offsets(t)[i]) : i \in DOMAIN Type[t].fields}
          = {PartsAt(g[Type[t].fields[i]], Offsets(t)[i], Offsets(t)[i]) : i \in DOMAIN Type[t].fields}
    BY <2>1
  <2> QED
    BY <1>1, <2>2 DEF PartsStep
<1>2. CASE Type[t].kind = "array"
  <2>1. f[Type[t].elem] = g[Type[t].elem]
    BY <1>2, Components
  <2> QED
    BY <1>2, <2>1 DEF PartsStep
<1>3. CASE Type[t].kind \notin {"array", "struct"}
  BY <1>3 DEF PartsStep
<1> QED
  BY <1>1, <1>2, <1>3

LEMMA PartsExist ==
  \E f : f = [t \in Types |-> PartsStep(f, t)]
<1> DEFINE S == {k \in Nat : \E f : f = [t \in Below(k) |-> PartsStep(f, t)]}
<1>1. 0 \in S
  <2>1. [t \in {} |-> 0] = [t \in Below(0) |-> PartsStep([u \in {} |-> 0], t)]
    BY TypesAreNumbered
  <2> QED
    BY <2>1
<1>2. ASSUME NEW k \in Nat, k \in S
      PROVE  k + 1 \in S
  <2>1. PICK f : f = [t \in Below(k) |-> PartsStep(f, t)]
    BY <1>2
  <2>2. PICK g : g = [t \in Below(k + 1) |-> IF t = k + 1 THEN PartsStep(f, t) ELSE f[t]]
    OBVIOUS
  <2>3. ASSUME NEW t \in Below(k + 1)
        PROVE  g[t] = PartsStep(g, t)
    <3>1. t \in Types /\ t <= k + 1
      BY DEF Below
    <3>2. \A u \in Types : u < t => f[u] = g[u]
      BY <2>2, <3>1, TypesAreNumbered DEF Below
    <3>3. PartsStep(f, t) = PartsStep(g, t)
      BY <3>1, <3>2, PartsStepAgrees
    <3>4. g[t] = PartsStep(f, t)
      BY <2>1, <2>2, TypesAreNumbered
    <3> QED
      BY <3>3, <3>4
  <2>4. g = [t \in Below(k + 1) |-> g[t]]
    BY <2>2
  <2>5. g = [t \in Below(k + 1) |-> PartsStep(g, t)]
    BY <2>3, <2>4
  <2> QED
    BY <2>5
<1> HIDE DEF S
<1>3. Len(Type) \in S
  BY <1>1, <1>2, SetInduction, TypesAreNumbered
<1> QED
  BY <1>3, TypesAreNumbered DEF S

(* The parts of a type, from those of its components.                      *)
LEMMA PartsFacts ==
  ASSUME NEW t \in Types
  PROVE  Parts[t] = PartsStep(Parts, t)
<1>1. PartsOf = [u \in Types |-> PartsStep(PartsOf, u)]
  BY PartsExist DEF PartsOf, PartsStep
<1>2. PartsOf[t] = PartsStep(PartsOf, t)
  BY <1>1
<1>3. \A u \in Types : PartsOf[u] = Parts[u]
  BY DEF Parts
<1>4. PartsStep(PartsOf, t) = PartsStep(Parts, t)
  BY <1>3, PartsStepAgrees
<1> QED
  BY <1>2, <1>3, <1>4

LEMMA PartsOfStruct ==
  ASSUME NEW t \in Types, Type[t].kind = "struct", NEW c
  PROVE  c \in Parts[t] <=>
           \/ c = Whole(t)
           \/ \E i \in 1 .. Len(Type[t].fields) : \E d \in Parts[Type[t].fields[i]] :
                c = Moved(d, Offsets(t)[i], Offsets(t)[i])
<1>1. Parts[t] = {Whole(t)} \cup
         UNION {PartsAt(Parts[Type[t].fields[i]], Offsets(t)[i], Offsets(t)[i]) :
                  i \in 1 .. Len(Type[t].fields)}
  BY PartsFacts, StructFacts DEF PartsStep, Whole
<1>2. \A i : c \in PartsAt(Parts[Type[t].fields[i]], Offsets(t)[i], Offsets(t)[i]) <=>
        \E d \in Parts[Type[t].fields[i]] : c = Moved(d, Offsets(t)[i], Offsets(t)[i])
  BY DEF PartsAt, Moved
<1> QED
  BY <1>1, <1>2

LEMMA PartsOfArray ==
  ASSUME NEW t \in Types, Type[t].kind = "array", NEW c
  PROVE  c \in Parts[t] <=>
           \/ c = Whole(t)
           \/ \E n \in 0 .. Counted(t) - 1 : \E d \in Parts[Type[t].elem] :
                c = Moved(d, n * SizeOf(Type[t].elem), 0)
<1>1. Parts[t] = {Whole(t)} \cup
         UNION {PartsAt(Parts[Type[t].elem], n * SizeOf(Type[t].elem), 0) :
                  n \in 0 .. Counted(t) - 1}
  BY PartsFacts DEF PartsStep, Whole
<1>2. \A n : c \in PartsAt(Parts[Type[t].elem], n * SizeOf(Type[t].elem), 0) <=>
        \E d \in Parts[Type[t].elem] : c = Moved(d, n * SizeOf(Type[t].elem), 0)
  BY DEF PartsAt, Moved
<1> QED
  BY <1>1, <1>2

LEMMA PartsOfScalar ==
  ASSUME NEW t \in Types, ~IsAggregate(t)
  PROVE  Parts[t] = {Whole(t)}
BY PartsFacts DEF PartsStep, Whole, IsAggregate

(* Elements are at multiples of their size, inside the array.              *)
LEMMA ElementFacts ==
  ASSUME NEW t \in Types, Type[t].kind = "array", NEW n \in 0 .. Counted(t) - 1
  PROVE  /\ n * SizeOf(Type[t].elem) \in Nat
         /\ n * SizeOf(Type[t].elem) + SizeOf(Type[t].elem) <= SizeOf(t)
<1>1. PICK s, m, z : /\ s = SizeOf(Type[t].elem) /\ m = Counted(t) /\ z = SizeOf(t)
  OBVIOUS
<1>2. s \in Nat /\ m \in Nat /\ z \in Nat /\ m * s <= z /\ n \in Nat /\ n + 1 <= m
  BY <1>1, ArrayFacts, TypeFacts
<1>3. \A a, b, x \in Nat : a <= b => a * x <= b * x
  BY Z3
<1>4. (n + 1) * s <= m * s /\ (n + 1) * s = n * s + s /\ n * s \in Nat /\ m * s \in Nat
  BY <1>2, <1>3, Z3
<1> QED
  BY <1>1, <1>2, <1>4

(* Parts lie inside the type.                                              *)
LEMMA PartsTyped ==
  ASSUME NEW t \in Types
  PROVE  \A c \in Parts[t] :
           /\ c.at \in Nat /\ c.first \in Nat /\ c.first <= c.at
           /\ c.type \in Types /\ c.type <= t
           /\ c.at + SizeOf(c.type) <= SizeOf(t)
           /\ c = [at |-> c.at, first |-> c.first, type |-> c.type]
<1> DEFINE Good(u, c) ==
             /\ c.at \in Nat /\ c.first \in Nat /\ c.first <= c.at
             /\ c.type \in Types /\ c.type <= u
             /\ c.at + SizeOf(c.type) <= SizeOf(u)
             /\ c = [at |-> c.at, first |-> c.first, type |-> c.type]
           S == {u \in Types : \A c \in Parts[u] : Good(u, c)}
<1>1. ASSUME NEW u \in Types, \A v \in Types : v < u => v \in S
      PROVE  u \in S
  <2>1. u \in Nat /\ SizeOf(u) \in Nat
    BY TypesAreNumbered, TypeFacts
  <2>2. Good(u, Whole(u))
    <3>1. /\ Whole(u).at = 0 /\ Whole(u).first = 0 /\ Whole(u).type = u
          /\ Whole(u) = [at |-> 0, first |-> 0, type |-> u]
      BY DEF Whole
    <3> QED
      BY <2>1, <3>1
  <2>3. ASSUME NEW v \in Types, v < u, NEW d \in Parts[v], NEW at \in Nat, NEW first \in Nat,
               first <= at, at + SizeOf(v) <= SizeOf(u)
        PROVE  Good(u, Moved(d, at, first))
    <3>1. Good(v, d)
      BY <1>1, <2>3
    <3> DEFINE c == Moved(d, at, first)
    <3>2. /\ c.at = at + d.at /\ c.first = first + d.first /\ c.type = d.type
          /\ c = [at |-> c.at, first |-> c.first, type |-> c.type]
      BY DEF Moved
    <3>3. v \in Nat /\ SizeOf(v) \in Nat /\ SizeOf(d.type) \in Nat /\ d.type \in Nat
      <4>1. v \in Types /\ d.type \in Types
        BY <3>1
      <4> QED
        BY <4>1, TypesAreNumbered, TypeFacts
    <3> HIDE DEF c
    <3> QED
      BY <3>1, <3>2, <3>3, <2>1, <2>3 DEF c
  <2>4. CASE Type[u].kind = "struct"
    <3>1. ASSUME NEW c \in Parts[u]
          PROVE  Good(u, c)
      <4>1. CASE c = Whole(u)
        BY <4>1, <2>2
      <4>2. ASSUME NEW i \in 1 .. Len(Type[u].fields), NEW d \in Parts[Type[u].fields[i]],
                   c = Moved(d, Offsets(u)[i], Offsets(u)[i])
            PROVE  Good(u, c)
        <5>1. /\ Type[u].fields[i] \in Types /\ Type[u].fields[i] < u
              /\ Offsets(u)[i] \in Nat /\ Offsets(u)[i] <= Offsets(u)[i]
              /\ Offsets(u)[i] + SizeOf(Type[u].fields[i]) <= SizeOf(u)
          BY <2>4, <4>2, StructFacts
        <5> QED
          BY <5>1, <4>2, <2>3
      <4> QED
        BY <2>4, <4>1, <4>2, PartsOfStruct
    <3> QED
      BY <3>1
  <2>5. CASE Type[u].kind = "array"
    <3>1. ASSUME NEW c \in Parts[u]
          PROVE  Good(u, c)
      <4>1. CASE c = Whole(u)
        BY <4>1, <2>2
      <4>2. ASSUME NEW n \in 0 .. Counted(u) - 1, NEW d \in Parts[Type[u].elem],
                   c = Moved(d, n * SizeOf(Type[u].elem), 0)
            PROVE  Good(u, c)
        <5>1. Type[u].elem \in Types /\ Type[u].elem < u
          BY <2>5, ArrayFacts
        <5>2. PICK a \in Nat : a = n * SizeOf(Type[u].elem)
          BY <2>5, <4>2, ElementFacts
        <5>3. a + SizeOf(Type[u].elem) <= SizeOf(u) /\ 0 <= a /\ 0 \in Nat
          BY <5>2, <2>5, <4>2, ElementFacts
        <5>4. Good(u, Moved(d, a, 0))
          BY <5>1, <5>3, <4>2, <2>3
        <5> QED
          BY <5>4, <5>2, <4>2
      <4> QED
        BY <2>5, <4>1, <4>2, PartsOfArray
    <3> QED
      BY <3>1
  <2>6. CASE ~IsAggregate(u)
    BY <2>6, <2>2, PartsOfScalar
  <2> QED
    BY <2>4, <2>5, <2>6 DEF IsAggregate
<1> HIDE DEF S
<1>2. t \in S
  BY <1>1, TypeInduction
<1> QED
  BY <1>2 DEF S

(* The components of a type without empty parts have no empty parts.       *)
LEMMA SolidFacts ==
  ASSUME NEW t \in Types, Solid(t)
  PROVE  /\ SizeOf(t) > 0
         /\ Type[t].kind = "array" =>
              Solid(Type[t].elem) /\ SizeOf(Type[t].elem) > 0 /\ Counted(t) >= 1
         /\ Type[t].kind = "struct" =>
              /\ Len(Type[t].fields) >= 1 /\ Offsets(t)[1] = 0
              /\ \A i \in 1 .. Len(Type[t].fields) :
                   Solid(Type[t].fields[i]) /\ SizeOf(Type[t].fields[i]) > 0
<1>1. \A u \in Types : Whole(u) \in Parts[u] /\ Whole(u).type = u
  BY PartsFacts DEF PartsStep, Whole
<1>2. \A u \in Types : Solid(u) => SizeOf(u) > 0
  BY <1>1 DEF Solid
<1>3. \A d, at, first : Moved(d, at, first).type = d.type
  BY DEF Moved
<1>4. ASSUME Type[t].kind = "array"
      PROVE  Solid(Type[t].elem) /\ Type[t].elem \in Types /\ Counted(t) >= 1
  <2>1. Counted(t) \in Nat /\ Counted(t) >= 1 /\ Type[t].elem \in Types
    BY <1>2, <1>4, ArrayFacts
  <2>2. 0 \in 0 .. Counted(t) - 1
    BY <2>1
  <2>3. ASSUME NEW d \in Parts[Type[t].elem]
        PROVE  SizeOf(d.type) > 0
    <3>1. Moved(d, 0 * SizeOf(Type[t].elem), 0) \in Parts[t]
      BY <1>4, <2>2, PartsOfArray
    <3> QED
      BY <3>1, <1>3 DEF Solid
  <2> QED
    BY <2>1, <2>3 DEF Solid
<1>5. ASSUME Type[t].kind = "struct", NEW i \in 1 .. Len(Type[t].fields)
      PROVE  Solid(Type[t].fields[i]) /\ Type[t].fields[i] \in Types
  <2>1. ASSUME NEW d \in Parts[Type[t].fields[i]]
        PROVE  SizeOf(d.type) > 0
    <3>1. Moved(d, Offsets(t)[i], Offsets(t)[i]) \in Parts[t]
      BY <1>5, PartsOfStruct
    <3> QED
      BY <3>1, <1>3 DEF Solid
  <2> QED
    BY <2>1, <1>5, StructFacts DEF Solid
<1> QED
  BY <1>2, <1>4, <1>5, StructFacts

(***************************************************************************)
(* The layouts of types.                                                   *)
(***************************************************************************)
LEMMA PrefixesExist ==
  ASSUME NEW t \in Types, NEW inner, NEW n \in Nat
  PROVE  \E f : f = [k \in 0 .. n |-> IF k = 0 THEN EmptyLayout
                       ELSE AddElement(Pad(f[k - 1], Offsets(t)[k]), Type[t].fields[k], inner[k])]
<1> DEFINE S == {m \in Nat : \E f : f = [k \in 0 .. m |-> IF k = 0 THEN EmptyLayout
                  ELSE AddElement(Pad(f[k - 1], Offsets(t)[k]), Type[t].fields[k], inner[k])]}
<1> DEFINE G(L, k) == AddElement(Pad(L, Offsets(t)[k]), Type[t].fields[k], inner[k])
<1>1. 0 \in S
  <2>1. PICK f : f = [k \in 0 .. 0 |-> EmptyLayout]
    OBVIOUS
  <2>2. f = [k \in 0 .. 0 |-> IF k = 0 THEN EmptyLayout ELSE G(f[k - 1], k)]
    BY <2>1
  <2> QED
    BY <2>2
<1>2. ASSUME NEW m \in Nat, m \in S
      PROVE  m + 1 \in S
  <2>1. PICK f : f = [k \in 0 .. m |-> IF k = 0 THEN EmptyLayout ELSE G(f[k - 1], k)]
    BY <1>2
  <2> HIDE DEF G
  <2>2. PICK h : h = [k \in 0 .. m + 1 |-> IF k = m + 1 THEN G(f[m], m + 1) ELSE f[k]]
    OBVIOUS
  <2>3. ASSUME NEW k \in 0 .. m + 1
        PROVE  h[k] = IF k = 0 THEN EmptyLayout ELSE G(h[k - 1], k)
    <3>1. CASE k = m + 1
      BY <3>1, <2>2
    <3>2. CASE k = 0
      BY <3>2, <2>1, <2>2
    <3>3. CASE k \in 1 .. m
      <4>1. h[k] = f[k] /\ h[k - 1] = f[k - 1]
        BY <3>3, <2>2
      <4>2. f[k] = G(f[k - 1], k)
        BY <3>3, <2>1
      <4> QED
        BY <3>3, <4>1, <4>2
    <3> QED
      BY <3>1, <3>2, <3>3
  <2>4. h = [k \in 0 .. m + 1 |-> h[k]]
    BY <2>2
  <2>5. h = [k \in 0 .. m + 1 |-> IF k = 0 THEN EmptyLayout ELSE G(h[k - 1], k)]
    BY <2>3, <2>4
  <2> QED
    BY <2>5 DEF G
<1> HIDE DEF S
<1>3. n \in S
  BY <1>1, <1>2, SetInduction
<1> QED
  BY <1>3 DEF S

(* A structure is laid out field by field.                                 *)
LEMMA StructPrefixes ==
  ASSUME NEW t \in Types, Type[t].kind = "struct"
  PROVE  \E f : /\ f[0] = EmptyLayout
                /\ \A k \in 1 .. Len(Type[t].fields) :
                     f[k] = Added(Pad(f[k - 1], Offsets(t)[k]), Type[t].fields[k])
                /\ Layout[t] = Pad(f[Len(Type[t].fields)], SizeOf(t))
<1> DEFINE n == Len(Type[t].fields)
           inner == [i \in DOMAIN Type[t].fields |-> Layout[Type[t].fields[i]]]
           Pre(f, in) == f = [k \in 0 .. n |-> IF k = 0 THEN EmptyLayout
                  ELSE AddElement(Pad(f[k - 1], Offsets(t)[k]), Type[t].fields[k], in[k])]
           a == CHOOSE f : Pre(f, inner)
<1>1. n \in Nat /\ DOMAIN Type[t].fields = 1 .. n
  BY StructFacts
<1>2. Layout[t] = Pad(a[n], SizeOf(t))
  BY LayoutFacts DEF LayoutStep, StructLayout
<1>3. \A in : \E f : Pre(f, in)
  BY <1>1, PrefixesExist
<1>4. Pre(a, inner)
  BY <1>3, Zenon
<1>5. \A i \in 1 .. n : inner[i] = Layout[Type[t].fields[i]]
  BY <1>1
<1> HIDE DEF a, inner
<1>6. /\ a[0] = EmptyLayout
      /\ \A k \in 1 .. n :
           a[k] = AddElement(Pad(a[k - 1], Offsets(t)[k]), Type[t].fields[k], inner[k])
  <2> DEFINE G(L, k) == AddElement(Pad(L, Offsets(t)[k]), Type[t].fields[k], inner[k])
  <2>1. a = [k \in 0 .. n |-> IF k = 0 THEN EmptyLayout ELSE G(a[k - 1], k)]
    BY <1>4
  <2> HIDE DEF n, G
  <2>2. a[0] = EmptyLayout /\ \A k \in 1 .. n : a[k] = G(a[k - 1], k)
    BY <1>1, <2>1
  <2> QED
    BY <2>2 DEF G
<1>7. \A k \in 1 .. n : a[k] = Added(Pad(a[k - 1], Offsets(t)[k]), Type[t].fields[k])
  BY <1>5, <1>6 DEF Added
<1> QED
  BY <1>2, <1>6, <1>7

(* An array keeps the layout of one element.                               *)
LEMMA ArrayLayoutFacts ==
  ASSUME NEW t \in Types, Type[t].kind = "array", Solid(t),
         NEW k, Laid(Own(Type[t].elem), k)
  PROVE  Layout[t] = [elements |-> Own(Type[t].elem).elements,
                      pointers |-> Own(Type[t].elem).pointers,
                      arrays |-> [x \in {0} |-> t],
                      l |-> Own(Type[t].elem).l, p |-> SizeOf(t)]
<1> DEFINE e == Type[t].elem
           M == Added(EmptyLayout, e)
           O == Own(e)
<1>1. e \in Types /\ Layout[t] = ArrayLayout(t, Layout[e])
  BY LayoutFacts, ArrayFacts DEF LayoutStep
<1>2. Layout[t] = [M EXCEPT !.arrays = [x \in {0} |-> t], !.p = SizeOf(t)]
  BY <1>1 DEF ArrayLayout, Added
<1>3. /\ EmptyLayout.l = 0 /\ EmptyLayout.p = 0 /\ EmptyLayout.elements = {}
      /\ EmptyLayout.pointers = {}
  BY DEF EmptyLayout
<1>4. /\ O.elements \subseteq Nat /\ O.pointers \subseteq O.elements /\ O.l \in Nat
  BY DEF Laid
<1> HIDE DEF e, M, O
<1>5. /\ M = [elements |-> M.elements, pointers |-> M.pointers, arrays |-> M.arrays,
              l |-> M.l, p |-> M.p]
      /\ M.elements = EmptyLayout.elements \cup {m + EmptyLayout.l : m \in O.elements}
      /\ M.pointers = EmptyLayout.pointers \cup {m + EmptyLayout.l : m \in O.pointers}
      /\ M.l = EmptyLayout.l + O.l
  <2>1. Laid(EmptyLayout, k) /\ e \in Types
    BY <1>1, EmptyLaid
  <2> HIDE <1>1
  <2>2. PICK E, g : E = EmptyLayout /\ g = e
    OBVIOUS
  <2>3. M = Added(E, g) /\ O = Own(g) /\ Laid(E, k) /\ g \in Types
    BY <2>1, <2>2 DEF M, O
  <2>4. /\ M = [elements |-> M.elements, pointers |-> M.pointers, arrays |-> M.arrays,
                l |-> M.l, p |-> M.p]
        /\ M.elements = E.elements \cup {m + E.l : m \in O.elements}
        /\ M.pointers = E.pointers \cup {m + E.l : m \in O.pointers}
        /\ M.l = E.l + O.l
    BY <2>3, AddFacts, ZenonT(60)
  <2> QED
    BY <2>2, <2>4
<1>6. M.elements = O.elements /\ M.pointers = O.pointers /\ M.l = O.l
  BY <1>3, <1>4, <1>5
<1>7. PICK R, A, s : R = Layout[t] /\ A = [x \in {0} |-> t] /\ s = SizeOf(t)
  OBVIOUS
<1>8. R = [M EXCEPT !.arrays = A, !.p = s]
  BY <1>2, <1>7
<1>9. DOMAIN M = {"elements", "pointers", "arrays", "l", "p"}
  BY <1>5
<1>10. /\ R = [x \in DOMAIN M |-> R[x]]
       /\ R.elements = M.elements /\ R.pointers = M.pointers /\ R.arrays = A
       /\ R.l = M.l /\ R.p = s
  BY <1>8, <1>9
<1>11. R = [elements |-> O.elements, pointers |-> O.pointers, arrays |-> A, l |-> O.l, p |-> s]
  BY <1>6, <1>9, <1>10
<1> QED
  BY <1>7, <1>11 DEF O, e

LEMMA ArrayLaid ==
  ASSUME NEW t \in Types, Type[t].kind = "array", Solid(t),
         NEW k, Laid(Own(Type[t].elem), k), Own(Type[t].elem).l > 0,
         Own(Type[t].elem).p = SizeOf(Type[t].elem)
  PROVE  Laid(Layout[t], t) /\ Layout[t].p = SizeOf(t) /\ Layout[t].l > 0
<1> DEFINE A == [x \in {0} |-> t]
           s == SizeOf(t)
           L == Layout[t]
           O == Own(Type[t].elem)
<1>1. L = [elements |-> O.elements, pointers |-> O.pointers, arrays |-> A, l |-> O.l, p |-> s]
  BY ArrayLayoutFacts
<1>2. /\ O.l \in Nat /\ O.p = SizeOf(Type[t].elem) /\ O.l <= O.p /\ O.p \in Nat /\ O.l > 0
      /\ O.elements \subseteq Nat /\ (\A m \in O.elements : m < O.l)
      /\ O.pointers \subseteq O.elements
  BY DEF Laid
<1>3. s \in Nat /\ s > 0 /\ O.l <= s
  <2>1. s \in Nat /\ s > 0 /\ Counted(t) \in Nat /\ Counted(t) >= 1
    BY SolidFacts, ArrayFacts, TypeFacts
  <2>2. 0 \in 0 .. Counted(t) - 1
    BY <2>1
  <2>3. 0 * O.p + O.p <= s
    BY <1>2, <2>2, ElementFacts
  <2> QED
    BY <1>2, <2>1, <2>3
<1>4. L.l = O.l /\ L.p = s /\ L.arrays = A /\ L.elements = O.elements /\ L.pointers = O.pointers
  BY <1>1
<1> HIDE DEF L, O, s
<1>5. t \in Nat
  BY TypesAreNumbered
<1>6. Apart(A, s, t)
  <2>1. DOMAIN A = {0} /\ A[0] = t
    OBVIOUS
  <2>2. Layout[t].l \in Nat
    BY <1>2, <1>4 DEF L
  <2> HIDE DEF A
  <2>3. A = [x \in DOMAIN A |-> A[x]]
    BY DEF A
  <2> QED
    BY <2>1, <2>2, <2>3, <1>3, <1>5 DEF Apart, s
<1>7. Compacted(A, s) = L.l
  <2>1. DOMAIN A = {0} /\ Saved(A, 0) = L.l - s
    BY DEF Saved, L, s
  <2> HIDE DEF A
  <2>2. Compacted(A, 0) = 0 /\ Compacted(A, 0 + 1) = Compacted(A, 0) + 1 + Saved(A, 0)
    BY <1>6, CompactedFacts
  <2>3. PICK q \in Nat : q = s - 1
    BY <1>3
  <2>4. \A x \in DOMAIN A : ~(1 <= x /\ x < 1 + q)
    BY <2>1
  <2>5. Compacted(A, 1 + q) = Compacted(A, 1) + q
    BY <1>6, <2>4, CompactedGap
  <2> QED
    BY <1>2, <1>3, <1>4, <2>1, <2>2, <2>3, <2>5
<1>8. L = [elements |-> L.elements, pointers |-> L.pointers, arrays |-> L.arrays,
           l |-> L.l, p |-> L.p]
  BY <1>1, <1>4
<1>9. Laid(L, t)
  <2> HIDE DEF A
  <2> QED
    BY <1>2, <1>3, <1>4, <1>6, <1>7, <1>8 DEF Laid
<1> QED
  BY <1>2, <1>4, <1>9 DEF L, s

(* The fields of a structure, up to the n-th, have places in a layout that *)
(* follow each other.                                                      *)
Placed(L, t, i) == Compacted(L.arrays, Offsets(t)[i])

Windows(L, t, n) ==
  \A i \in 1 .. n :
    /\ Window(L, Type[t].fields[i], Offsets(t)[i], Placed(L, t, i))
    /\ \A j \in 1 .. n :
         i < j => Placed(L, t, i) + Own(Type[t].fields[i]).l <= Placed(L, t, j)

LEMMA PlacedFacts ==
  ASSUME NEW L, NEW t, NEW i, NEW f, NEW lo
  PROVE  Window(L, f, Offsets(t)[i], lo) => Placed(L, t, i) = lo
BY DEF Window, Placed

LEMMA LaidMonotone ==
  ASSUME NEW L, NEW j \in Nat, NEW k \in Nat, j <= k, Laid(L, j)
  PROVE  Laid(L, k)
<1>1. \A x \in DOMAIN L.arrays : L.arrays[x] <= k
  <2>1. \A x \in DOMAIN L.arrays : L.arrays[x] \in Nat /\ L.arrays[x] <= j
    BY TypesAreNumbered DEF Laid, Apart
  <2> QED
    BY <2>1
<1> QED
  BY <1>1 DEF Laid, Apart

(* A structure is laid out if its fields are, and each field has its place *)
(* in it.                                                                  *)
LEMMA StructLaid ==
  ASSUME NEW t \in Types, Type[t].kind = "struct", Solid(t),
         \A i \in 1 .. Len(Type[t].fields) :
           /\ Laid(Own(Type[t].fields[i]), Type[t].fields[i])
           /\ Own(Type[t].fields[i]).p = SizeOf(Type[t].fields[i])
           /\ Own(Type[t].fields[i]).l > 0
  PROVE  /\ Laid(Layout[t], t) /\ Layout[t].p = SizeOf(t) /\ Layout[t].l > 0
         /\ Windows(Layout[t], t, Len(Type[t].fields))
<1> DEFINE n == Len(Type[t].fields)
           field(i) == Type[t].fields[i]
           off(i) == Offsets(t)[i]
<1>1. PICK f : /\ f[0] = EmptyLayout
               /\ \A k \in 1 .. n : f[k] = Added(Pad(f[k - 1], off(k)), field(k))
               /\ Layout[t] = Pad(f[n], SizeOf(t))
  BY StructPrefixes
<1>2. /\ n \in Nat /\ n >= 1 /\ off(1) = 0 /\ t \in Nat /\ SizeOf(t) \in Nat
      /\ \A i \in 1 .. n :
           /\ field(i) \in Types /\ field(i) < t /\ off(i) \in Nat /\ field(i) \in Nat
           /\ SizeOf(field(i)) \in Nat
           /\ off(i) + SizeOf(field(i)) <= SizeOf(t)
           /\ \A j \in 1 .. n : i < j => off(i) + SizeOf(field(i)) <= off(j)
  <2>1. /\ n \in Nat
        /\ \A i \in 1 .. n :
             /\ field(i) \in Types /\ field(i) < t /\ off(i) \in Nat
             /\ off(i) + SizeOf(field(i)) <= SizeOf(t)
             /\ \A j \in 1 .. n : i < j => off(i) + SizeOf(field(i)) <= off(j)
    BY StructFacts
  <2>2. n >= 1 /\ off(1) = 0
    BY SolidFacts
  <2> HIDE DEF n, field, off
  <2>3. \A u \in Types : u \in Nat /\ SizeOf(u) \in Nat
    BY TypesAreNumbered, TypeFacts
  <2> QED
    BY <2>1, <2>2, <2>3
<1>3. \A i \in 1 .. n : /\ Laid(Own(field(i)), t) /\ Own(field(i)).p = SizeOf(field(i))
                        /\ Own(field(i)).l > 0 /\ Own(field(i)).l \in Nat
  <2>1. \A i \in 1 .. n : Laid(Own(field(i)), t)
    BY <1>2, LaidMonotone
  <2> QED
    BY <2>1 DEF Laid
<1> HIDE DEF n, field, off
<1> DEFINE behind(k) == IF k = 0 THEN 0 ELSE off(k) + SizeOf(field(k))
           W(L, k) == \A i \in 1 .. k :
                        /\ Window(L, field(i), off(i), Placed(L, t, i))
                        /\ \A j \in 1 .. k :
                             i < j => Placed(L, t, i) + Own(field(i)).l <= Placed(L, t, j)
           S == {k \in Nat : k <= n => /\ Laid(f[k], t) /\ f[k].p = behind(k)
                                       /\ W(f[k], k)}
<1>4. 0 \in S
  BY <1>1, EmptyLaid
<1>5. ASSUME NEW L, NEW k \in 0 .. n, Laid(L, t), L.p = behind(k), W(L, k),
             NEW p \in Nat, behind(k) <= p
      PROVE  /\ Laid(Pad(L, p), t) /\ Pad(L, p).p = p /\ L.l \in Nat /\ L.p \in Nat
             /\ Pad(L, p).l = L.l + (p - L.p)
             /\ W(Pad(L, p), k)
             /\ \A i \in 1 .. k : Placed(L, t, i) + Own(field(i)).l <= Pad(L, p).l
  <2>1. /\ Laid(Pad(L, p), t) /\ Pad(L, p).p = p /\ Pad(L, p).l = L.l + (p - L.p)
        /\ \A g \in Types : \A at, lo : Window(L, g, at, lo) => Window(Pad(L, p), g, at, lo)
    BY <1>5, PadLaid
  <2>2. L.l \in Nat /\ L.p \in Nat
    BY <1>5 DEF Laid
  <2>3. \A i \in 1 .. k : i \in 1 .. n
    BY <1>2
  <2>4. \A i \in 1 .. k : Window(Pad(L, p), field(i), off(i), Placed(L, t, i))
    BY <1>2, <1>5, <2>1, <2>3
  <2>5. \A i \in 1 .. k : Placed(Pad(L, p), t, i) = Placed(L, t, i)
    BY <2>4, PlacedFacts DEF off
  <2>6. \A i \in 1 .. k : Placed(L, t, i) + Own(field(i)).l <= Pad(L, p).l
    BY <2>4, <2>1 DEF Window
  <2> QED
    BY <1>5, <2>1, <2>2, <2>4, <2>5, <2>6
<1>6. ASSUME NEW k \in Nat, k \in S
      PROVE  k + 1 \in S
  <2> SUFFICES ASSUME k + 1 <= n
               PROVE  /\ Laid(f[k + 1], t) /\ f[k + 1].p = behind(k + 1)
                      /\ W(f[k + 1], k + 1)
    OBVIOUS
  <2>1. PICK m \in 1 .. n : m = k + 1
    BY <1>2
  <2>2. Laid(f[k], t) /\ f[k].p = behind(k) /\ W(f[k], k) /\ k \in 0 .. n /\ k = m - 1
    <3>1. k <= n /\ k \in 0 .. n /\ k = m - 1
      BY <1>2, <2>1
    <3> HIDE DEF W, behind
    <3> QED
      BY <1>6, <3>1
  <2>3. off(m) \in Nat /\ behind(k) <= off(m)
    <3>1. CASE k = 0
      BY <3>1, <1>2
    <3>2. CASE k # 0
      <4>1. k \in 1 .. n /\ k < m
        BY <3>2, <2>1, <1>2
      <4> QED
        BY <4>1, <3>2, <1>2
    <3> QED
      BY <3>1, <3>2
  <2> PICK L, P, M : L = f[k] /\ P = Pad(f[k], off(m)) /\ M = f[m]
    OBVIOUS
  <2>4. /\ Laid(P, t) /\ P.p = off(m) /\ W(P, k)
        /\ \A i \in 1 .. k : Placed(L, t, i) + Own(field(i)).l <= P.l
    BY <2>2, <2>3, <1>5
  <2>5. M = Added(P, field(m))
    BY <1>1, <2>2
  <2>6. /\ Laid(M, t) /\ M.l = P.l + Own(field(m)).l /\ M.p = P.p + SizeOf(field(m))
        /\ Window(M, field(m), P.p, P.l)
        /\ \A g \in Types : \A at, lo : Window(P, g, at, lo) => Window(M, g, at, lo)
    <3>1. PICK g \in Types : g = field(m)
      BY <1>2
    <3>2. Laid(P, t) /\ Laid(Own(g), t) /\ Own(g).p = SizeOf(g) /\ M = Added(P, g)
      BY <1>3, <2>4, <2>5, <3>1
    <3>3. /\ Laid(M, t) /\ M.l = P.l + Own(g).l /\ M.p = P.p + SizeOf(g)
          /\ Window(M, g, P.p, P.l)
          /\ \A h \in Types : \A at, lo : Window(P, h, at, lo) => Window(M, h, at, lo)
      BY <3>2, AddLaid
    <3> QED
      BY <3>1, <3>3
  <2>7. ASSUME NEW i \in 1 .. k
        PROVE  /\ Window(M, field(i), off(i), Placed(M, t, i))
               /\ Placed(M, t, i) = Placed(P, t, i)
    <3>1. Window(P, field(i), off(i), Placed(P, t, i)) /\ field(i) \in Types
      <4>1. Window(P, field(i), off(i), Placed(P, t, i))
        BY <2>4
      <4>2. i \in 1 .. n
        BY <1>2, <2>1
      <4>3. field(i) \in Types
        BY <1>2, <4>2
      <4> QED
        BY <4>1, <4>3
    <3>2. Window(M, field(i), off(i), Placed(P, t, i))
      BY <3>1, <2>6
    <3>3. Placed(M, t, i) = Placed(P, t, i)
      BY <3>2, PlacedFacts DEF off
    <3> QED
      BY <3>2, <3>3
  <2>8. Placed(M, t, m) = P.l /\ Window(M, field(m), off(m), Placed(M, t, m))
    BY <2>4, <2>6, PlacedFacts DEF off
  <2>9. \A i \in 1 .. k : Placed(P, t, i) + Own(field(i)).l <= P.l
    BY <2>4 DEF Window
  <2>10. \A i \in 1 .. m : i = m \/ i \in 1 .. k
    BY <2>1
  <2>11. W(M, m)
    <3> SUFFICES ASSUME NEW i \in 1 .. m
                 PROVE  /\ Window(M, field(i), off(i), Placed(M, t, i))
                        /\ \A j \in 1 .. m :
                             i < j => Placed(M, t, i) + Own(field(i)).l <= Placed(M, t, j)
      OBVIOUS
    <3>1. CASE i = m
      BY <3>1, <2>8
    <3>2. CASE i \in 1 .. k
      <4>1. \A j \in 1 .. k :
              i < j => Placed(P, t, i) + Own(field(i)).l <= Placed(P, t, j)
        BY <3>2, <2>4
      <4>2. \A j \in 1 .. k : Placed(M, t, j) = Placed(P, t, j)
        BY <2>7
      <4>3. \A j \in 1 .. m : i < j => Placed(M, t, i) + Own(field(i)).l <= Placed(M, t, j)
        BY <3>2, <4>1, <4>2, <2>8, <2>9, <2>10
      <4> QED
        BY <4>3, <3>2, <2>7
    <3> QED
      BY <3>1, <3>2, <2>10
  <2>12. M.p = behind(m)
    BY <2>4, <2>6, <2>1
  <2> QED
    BY <2>1, <2>6, <2>11, <2>12
<1> HIDE DEF S
<1>7. n \in S
  BY <1>2, <1>4, <1>6, SetInduction
<1>8. Laid(f[n], t) /\ f[n].p = behind(n) /\ W(f[n], n)
  BY <1>2, <1>7 DEF S
<1>9. n \in 0 .. n /\ n \in 1 .. n /\ behind(n) <= SizeOf(t)
  BY <1>2
<1>10. /\ Laid(Layout[t], t) /\ Layout[t].p = SizeOf(t) /\ W(Layout[t], n)
  <2> HIDE DEF W, behind
  <2>1. PICK L : L = f[n]
    OBVIOUS
  <2> QED
    BY <1>1, <1>2, <1>5, <1>8, <1>9, <2>1
<1>11. Layout[t].l > 0
  <2>1. 1 \in 1 .. n
    BY <1>2
  <2>2. Window(Layout[t], field(1), off(1), Placed(Layout[t], t, 1)) /\ Own(field(1)).l > 0
    BY <2>1, <1>10, <1>3
  <2>3. Layout[t].l \in Nat
    BY <1>10 DEF Laid
  <2> QED
    BY <2>2, <2>3 DEF Window
<1> QED
  BY <1>10, <1>11 DEF Windows, n, field, off

LEMMA ScalarLaid ==
  ASSUME NEW t \in Types, ~IsAggregate(t), Solid(t)
  PROVE  /\ Laid(Own(t), t) /\ Own(t).p = SizeOf(t) /\ Own(t).l > 0
         /\ Own(t) = [elements |-> {0}, pointers |-> {l \in {0} : Type[t].kind = "pointer"},
                      arrays |-> NoArrays, l |-> SizeOf(t), p |-> SizeOf(t)]
<1> DEFINE O == Own(t)
           ps == {l \in {0} : Type[t].kind = "pointer"}
<1>1. O = [elements |-> {0}, pointers |-> ps, arrays |-> NoArrays, l |-> SizeOf(t), p |-> SizeOf(t)]
  BY DEF Own
<1>2. SizeOf(t) \in Nat /\ SizeOf(t) > 0
  BY TypeFacts, SolidFacts
<1>3. Apart(NoArrays, SizeOf(t), t) /\ Compacted(NoArrays, SizeOf(t)) = SizeOf(t)
  BY <1>2, NoArraysApart, CompactedNoArrays
<1>4. ps \subseteq {0}
  OBVIOUS
<1> HIDE DEF O, ps
<1>5. /\ O.elements = {0} /\ O.pointers = ps /\ O.arrays = NoArrays /\ O.l = SizeOf(t)
      /\ O.p = SizeOf(t)
  BY <1>1
<1>6. Laid(O, t)
  BY <1>1, <1>2, <1>3, <1>4, <1>5 DEF Laid
<1> QED
  BY <1>1, <1>2, <1>5, <1>6 DEF O, ps

(* Every type without empty parts is laid out, its components in it.       *)
LEMMA TypesLaid ==
  ASSUME NEW t \in Types, Solid(t)
  PROVE  /\ Laid(Own(t), t) /\ Own(t).p = SizeOf(t) /\ Own(t).l > 0
         /\ Type[t].kind = "struct" => Windows(Own(t), t, Len(Type[t].fields))
<1> DEFINE Good(u) ==
             /\ Laid(Own(u), u) /\ Own(u).p = SizeOf(u) /\ Own(u).l > 0
             /\ Type[u].kind = "struct" => Windows(Own(u), u, Len(Type[u].fields))
           S == {u \in Types : Solid(u) => Good(u)}
<1>1. ASSUME NEW u \in Types, \A v \in Types : v < u => v \in S
      PROVE  u \in S
  <2> SUFFICES ASSUME Solid(u)
               PROVE  Good(u)
    OBVIOUS
  <2>1. CASE Type[u].kind = "struct"
    <3>1. \A i \in 1 .. Len(Type[u].fields) :
            /\ Type[u].fields[i] \in Types /\ Type[u].fields[i] < u
            /\ Solid(Type[u].fields[i])
      BY <2>1, StructFacts, SolidFacts
    <3>2. \A i \in 1 .. Len(Type[u].fields) :
            /\ Laid(Own(Type[u].fields[i]), Type[u].fields[i])
            /\ Own(Type[u].fields[i]).p = SizeOf(Type[u].fields[i])
            /\ Own(Type[u].fields[i]).l > 0
      BY <3>1, <1>1
    <3>3. Own(u) = Layout[u]
      BY <2>1 DEF Own, IsAggregate
    <3> QED
      BY <2>1, <3>2, <3>3, StructLaid
  <2>2. CASE Type[u].kind = "array"
    <3>1. /\ Type[u].elem \in Types /\ Type[u].elem < u /\ Solid(Type[u].elem)
      BY <2>2, ArrayFacts, SolidFacts
    <3>2. Good(Type[u].elem)
      BY <3>1, <1>1
    <3>3. Own(u) = Layout[u]
      BY <2>2 DEF Own, IsAggregate
    <3> QED
      BY <2>2, <3>2, <3>3, ArrayLaid
  <2>3. CASE ~IsAggregate(u)
    BY <2>3, ScalarLaid DEF IsAggregate
  <2> QED
    BY <2>1, <2>2, <2>3 DEF IsAggregate
<1> HIDE DEF S
<1>2. t \in S
  BY <1>1, TypeInduction
<1> QED
  BY <1>2 DEF S

(***************************************************************************)
(* Indices.  The arrays in a layout are of smaller types or the type       *)
(* itself, whatever its parts are.                                         *)
(***************************************************************************)
Nested(L, k) ==
  /\ L = [elements |-> L.elements, pointers |-> L.pointers, arrays |-> L.arrays,
          l |-> L.l, p |-> L.p]
  /\ L.p \in Nat
  /\ DOMAIN L.arrays \subseteq Nat
  /\ \A x \in DOMAIN L.arrays :
       L.arrays[x] \in Types /\ L.arrays[x] <= k /\ Type[L.arrays[x]].kind = "array"

LEMMA EmptyNested ==
  ASSUME NEW k
  PROVE  Nested(EmptyLayout, k)
<1>1. EmptyLayout = [elements |-> {}, pointers |-> {}, arrays |-> NoArrays, l |-> 0, p |-> 0]
  BY DEF EmptyLayout, NoArrays
<1>2. DOMAIN NoArrays = {}
  BY DEF NoArrays
<1> QED
  BY <1>1, <1>2 DEF Nested

LEMMA PadNested ==
  ASSUME NEW L, NEW k, Nested(L, k), NEW p \in Nat
  PROVE  Nested(Pad(L, p), k) /\ Pad(L, p).arrays = L.arrays
<1> DEFINE P == Pad(L, p)
<1>1. PICK es, ps, as, l, q :
        L = [elements |-> es, pointers |-> ps, arrays |-> as, l |-> l, p |-> q]
  BY DEF Nested
<1>2. /\ L.elements = es /\ L.pointers = ps /\ L.arrays = as /\ L.l = l /\ L.p = q
      /\ DOMAIN L = {"elements", "pointers", "arrays", "l", "p"}
  BY <1>1
<1>3. P = [L EXCEPT !.l = L.l + (p - L.p), !.p = p]
  BY DEF Pad
<1>4. /\ P = [x \in DOMAIN L |-> P[x]]
      /\ P.elements = es /\ P.pointers = ps /\ P.arrays = as
      /\ P.l = l + (p - q) /\ P.p = p
  BY <1>2, <1>3
<1> HIDE DEF P
<1>5. P = [elements |-> es, pointers |-> ps, arrays |-> as, l |-> l + (p - q), p |-> p]
  BY <1>2, <1>4
<1>6. P = [elements |-> P.elements, pointers |-> P.pointers, arrays |-> P.arrays,
           l |-> P.l, p |-> P.p]
  BY <1>5
<1>7. /\ DOMAIN L.arrays \subseteq Nat
      /\ \A x \in DOMAIN L.arrays :
           L.arrays[x] \in Types /\ L.arrays[x] <= k /\ Type[L.arrays[x]].kind = "array"
  BY DEF Nested
<1>8. Nested(P, k) /\ P.arrays = L.arrays
  BY <1>2, <1>4, <1>6, <1>7 DEF Nested
<1> QED
  BY <1>8 DEF P

LEMMA AddNested ==
  ASSUME NEW L, NEW k, Nested(L, k), NEW f \in Types, Nested(Layout[f], k)
  PROVE  Nested(Added(L, f), k)
<1> DEFINE M == Added(L, f)
<1>1. /\ L.p \in Nat /\ SizeOf(f) \in Nat /\ DOMAIN L.arrays \subseteq Nat
      /\ \A x \in DOMAIN L.arrays :
           L.arrays[x] \in Types /\ L.arrays[x] <= k /\ Type[L.arrays[x]].kind = "array"
  BY TypeFacts DEF Nested
<1>2. CASE IsAggregate(f)
  <2>1. M = [elements |-> L.elements \cup Shift(Layout[f].elements, L.l),
             pointers |-> L.pointers \cup Shift(Layout[f].pointers, L.l),
             arrays   |-> InsertArrays(L.arrays, ShiftArrays(Layout[f].arrays, L.p)),
             l |-> L.l + Layout[f].l,
             p |-> L.p + SizeOf(f)]
    BY <1>2 DEF Added, AddElement
  <2>2. PICK A, B, C, p : /\ A = L.arrays /\ B = Layout[f].arrays /\ p = L.p
                          /\ C = InsertArrays(A, ShiftArrays(B, p))
    OBVIOUS
  <2>3. /\ DOMAIN B \subseteq Nat /\ p \in Nat
        /\ \A x \in DOMAIN B : B[x] \in Types /\ B[x] <= k /\ Type[B[x]].kind = "array"
    BY <2>2, <1>1 DEF Nested
  <2>4. PICK D : D = ShiftArrays(B, p)
    OBVIOUS
  <2>5. D = [x \in {y + p : y \in DOMAIN B} |-> B[x - p]]
    BY <2>4 DEF ShiftArrays, Shift
  <2>6. /\ DOMAIN D \subseteq Nat
        /\ \A x \in DOMAIN D : D[x] \in Types /\ D[x] <= k /\ Type[D[x]].kind = "array"
    <3>1. ASSUME NEW x \in DOMAIN D
          PROVE  x \in Nat /\ D[x] \in Types /\ D[x] <= k /\ Type[D[x]].kind = "array"
      <4>1. PICK y \in DOMAIN B : x = y + p
        BY <2>5
      <4>2. x - p = y /\ D[x] = B[x - p]
        BY <4>1, <2>3, <2>5
      <4> QED
        BY <4>1, <4>2, <2>3
    <3> QED
      BY <3>1
  <2>7. C = [x \in DOMAIN A \cup DOMAIN D |-> IF x \in DOMAIN A THEN A[x] ELSE D[x]]
    BY <2>2, <2>4 DEF InsertArrays
  <2>8. /\ DOMAIN C \subseteq Nat
        /\ \A x \in DOMAIN C : C[x] \in Types /\ C[x] <= k /\ Type[C[x]].kind = "array"
    BY <2>2, <2>6, <2>7, <1>1
  <2> HIDE DEF M
  <2>9. M.arrays = C /\ M.p = p + SizeOf(f)
    BY <2>1, <2>2
  <2>10. M = [elements |-> M.elements, pointers |-> M.pointers, arrays |-> M.arrays,
              l |-> M.l, p |-> M.p]
    BY <2>1
  <2> QED
    BY <2>3, <2>8, <2>9, <2>10, <1>1 DEF Nested, M
<1>3. CASE ~IsAggregate(f)
  <2>1. M = [elements |-> L.elements \cup {L.l},
             pointers |-> L.pointers \cup {l \in {L.l} : Type[f].kind = "pointer"},
             arrays   |-> L.arrays,
             l |-> L.l + SizeOf(f),
             p |-> L.p + SizeOf(f)]
    BY <1>3 DEF Added, AddElement
  <2> HIDE DEF M
  <2>2. M.arrays = L.arrays /\ M.p = L.p + SizeOf(f)
    BY <2>1
  <2>3. M = [elements |-> M.elements, pointers |-> M.pointers, arrays |-> M.arrays,
             l |-> M.l, p |-> M.p]
    BY <2>1
  <2> QED
    BY <2>2, <2>3, <1>1 DEF Nested, M
<1> QED
  BY <1>2, <1>3

LEMMA NestedMonotone ==
  ASSUME NEW L, NEW j \in Nat, NEW k \in Nat, j <= k, Nested(L, j)
  PROVE  Nested(L, k)
<1>1. \A x \in DOMAIN L.arrays : L.arrays[x] <= k
  <2>1. \A x \in DOMAIN L.arrays : L.arrays[x] \in Nat /\ L.arrays[x] <= j
    BY TypesAreNumbered DEF Nested
  <2> QED
    BY <2>1
<1> QED
  BY <1>1 DEF Nested

(* Layouts of all types, also of those with empty parts.                   *)
LEMMA LayoutsNested ==
  ASSUME NEW t \in Types
  PROVE  Nested(Layout[t], t)
<1> DEFINE S == {u \in Types : Nested(Layout[u], u)}
<1>1. ASSUME NEW u \in Types, \A v \in Types : v < u => v \in S
      PROVE  u \in S
  <2>1. u \in Nat /\ \A v \in Types : v \in Nat /\ SizeOf(v) \in Nat
    BY TypesAreNumbered, TypeFacts
  <2>2. \A v \in Types : v < u => Nested(Layout[v], u)
    <3>1. ASSUME NEW v \in Types, v < u
          PROVE  Nested(Layout[v], u)
      <4>1. v <= u /\ Nested(Layout[v], v)
        BY <1>1, <2>1, <3>1
      <4> QED
        BY <4>1, <2>1, NestedMonotone
    <3> QED
      BY <3>1
  <2>3. CASE Type[u].kind = "struct"
    <3> DEFINE n == Len(Type[u].fields)
               off(i) == Offsets(u)[i]
               field(i) == Type[u].fields[i]
    <3>1. PICK f : /\ f[0] = EmptyLayout
                   /\ \A k \in 1 .. n : f[k] = Added(Pad(f[k - 1], off(k)), field(k))
                   /\ Layout[u] = Pad(f[n], SizeOf(u))
      BY <2>3, StructPrefixes
    <3>2. /\ n \in Nat
          /\ \A i \in 1 .. n : field(i) \in Types /\ field(i) < u /\ off(i) \in Nat
      BY <2>3, StructFacts
    <3> HIDE DEF n, off, field
    <3> DEFINE N == {k \in Nat : k <= n => Nested(f[k], u)}
    <3>3. 0 \in N
      BY <3>1, EmptyNested
    <3>4. ASSUME NEW k \in Nat, k \in N
          PROVE  k + 1 \in N
      <4> SUFFICES ASSUME k + 1 <= n
                   PROVE  Nested(f[k + 1], u)
        OBVIOUS
      <4>1. PICK m \in 1 .. n : m = k + 1 /\ m - 1 = k
        BY <3>2
      <4>2. Nested(f[m - 1], u)
        BY <4>1, <3>2, <3>4
      <4>3. PICK L : L = f[m - 1]
        OBVIOUS
      <4>4. Nested(Pad(L, off(m)), u) /\ field(m) \in Types /\ Nested(Layout[field(m)], u)
        BY <4>2, <4>3, <3>2, <2>2, PadNested
      <4>5. f[m] = Added(Pad(L, off(m)), field(m))
        BY <4>3, <3>1
      <4> QED
        BY <4>1, <4>4, <4>5, AddNested
    <3> HIDE DEF N
    <3>5. n \in N
      BY <3>2, <3>3, <3>4, SetInduction
    <3>6. Nested(f[n], u) /\ SizeOf(u) \in Nat
      BY <3>2, <3>5, <2>1 DEF N
    <3>7. PICK L : L = f[n]
      OBVIOUS
    <3> QED
      BY <3>1, <3>6, <3>7, PadNested
  <2>4. CASE Type[u].kind = "array"
    <3> DEFINE e == Type[u].elem
               M == Added(EmptyLayout, e)
    <3>1. e \in Types /\ e < u /\ Layout[u] = ArrayLayout(u, Layout[e])
      BY <2>4, LayoutFacts, ArrayFacts DEF LayoutStep
    <3>2. Layout[u] = [M EXCEPT !.arrays = [x \in {0} |-> u], !.p = SizeOf(u)]
      BY <3>1 DEF ArrayLayout, Added
    <3>3. Nested(M, u)
      BY <3>1, <2>2, EmptyNested, AddNested
    <3> HIDE DEF M
    <3>4. PICK R, A, s : R = Layout[u] /\ A = [x \in {0} |-> u] /\ s = SizeOf(u)
      OBVIOUS
    <3>5. R = [M EXCEPT !.arrays = A, !.p = s]
      BY <3>2, <3>4
    <3>6. DOMAIN M = {"elements", "pointers", "arrays", "l", "p"}
      BY <3>3 DEF Nested
    <3>7. /\ R = [x \in DOMAIN M |-> R[x]]
          /\ R.elements = M.elements /\ R.pointers = M.pointers /\ R.arrays = A
          /\ R.l = M.l /\ R.p = s
      BY <3>5, <3>6
    <3>8. R = [elements |-> R.elements, pointers |-> R.pointers, arrays |-> R.arrays,
               l |-> R.l, p |-> R.p]
      BY <3>6, <3>7
    <3>9. DOMAIN A = {0} /\ A[0] = u /\ s \in Nat
      BY <3>4, <2>1
    <3>10. Nested(R, u)
      BY <3>7, <3>8, <3>9, <2>1, <2>4 DEF Nested
    <3> QED
      BY <3>4, <3>10
  <2>5. CASE ~IsAggregate(u)
    <3>1. Layout[u] = EmptyLayout
      BY <2>5, LayoutFacts DEF LayoutStep, IsAggregate
    <3> QED
      BY <3>1, EmptyNested
  <2> QED
    BY <2>3, <2>4, <2>5 DEF IsAggregate
<1> HIDE DEF S
<1>2. t \in S
  BY <1>1, TypeInduction
<1> QED
  BY <1>2 DEF S

LEMMA LeastFacts ==
  ASSUME NEW S, S \subseteq Nat, S # {}
  PROVE  LeastOf(S) \in S /\ \A x \in S : LeastOf(S) <= x
BY LeastNatural DEF LeastOf

(* The arrays that an offset is inside of.                                 *)
Inside(t, p) ==
  {x \in DOMAIN Layout[t].arrays : x < p /\ p < x + Bytes(Layout[t].arrays[x])}

(* The type of the elements of the array at an offset.                     *)
ElementAt(t, x) == Type[Layout[t].arrays[x]].elem

LEMMA ElementAtFacts ==
  ASSUME NEW t \in Types, NEW x \in DOMAIN Layout[t].arrays
  PROVE  ElementAt(t, x) \in Types /\ ElementAt(t, x) < t /\ x \in Nat
<1>1. /\ Layout[t].arrays[x] \in Types /\ Layout[t].arrays[x] <= t
      /\ Type[Layout[t].arrays[x]].kind = "array" /\ x \in Nat
  BY LayoutsNested DEF Nested
<1>2. /\ ElementAt(t, x) \in Types /\ ElementAt(t, x) < Layout[t].arrays[x]
  BY <1>1, ArrayFacts DEF ElementAt
<1>3. t \in Nat /\ Layout[t].arrays[x] \in Nat /\ ElementAt(t, x) \in Nat
  BY <1>1, <1>2, TypesAreNumbered
<1> QED
  BY <1>1, <1>2, <1>3

(* IndexBetweenArrays of a type, from that of smaller types.               *)
IndexAt(f, t, p) ==
  LET at == LeastOf(Inside(t, p))
      r == f[ElementAt(t, at)][(p - at) % SizeOf(ElementAt(t, at))]
  IN IF Inside(t, p) = {} THEN [l |-> Compacted(Layout[t].arrays, p), p |-> p]
     ELSE [l |-> Compacted(Layout[t].arrays, at) + r.l, p |-> at + r.p]

IndexStep(f, t) == [p \in 0 .. SizeOf(t) |-> IndexAt(f, t, p)]

LEMMA IndexStepAgrees ==
  ASSUME NEW t \in Types, NEW f, NEW g,
         \A u \in Types : u < t => f[u] = g[u]
  PROVE  IndexStep(f, t) = IndexStep(g, t)
<1>1. ASSUME NEW p
      PROVE  IndexAt(f, t, p) = IndexAt(g, t, p)
  <2>1. CASE Inside(t, p) = {}
    BY <2>1 DEF IndexAt
  <2>2. CASE Inside(t, p) # {}
    <3>1. Inside(t, p) \subseteq DOMAIN Layout[t].arrays /\ DOMAIN Layout[t].arrays \subseteq Nat
      BY LayoutsNested DEF Nested, Inside
    <3>2. LeastOf(Inside(t, p)) \in DOMAIN Layout[t].arrays
      BY <2>2, <3>1, LeastFacts
    <3>3. f[ElementAt(t, LeastOf(Inside(t, p)))] = g[ElementAt(t, LeastOf(Inside(t, p)))]
      BY <3>2, ElementAtFacts
    <3> QED
      BY <3>3 DEF IndexAt
  <2> QED
    BY <2>1, <2>2
<1> QED
  BY <1>1 DEF IndexStep

LEMMA IndexExists ==
  \E f : f = [t \in Types |-> IndexStep(f, t)]
<1> DEFINE S == {k \in Nat : \E f : f = [t \in Below(k) |-> IndexStep(f, t)]}
<1>1. 0 \in S
  <2>1. [t \in {} |-> 0] = [t \in Below(0) |-> IndexStep([u \in {} |-> 0], t)]
    BY TypesAreNumbered
  <2> QED
    BY <2>1
<1>2. ASSUME NEW k \in Nat, k \in S
      PROVE  k + 1 \in S
  <2>1. PICK f : f = [t \in Below(k) |-> IndexStep(f, t)]
    BY <1>2
  <2>2. PICK g : g = [t \in Below(k + 1) |-> IF t = k + 1 THEN IndexStep(f, t) ELSE f[t]]
    OBVIOUS
  <2>3. ASSUME NEW t \in Below(k + 1)
        PROVE  g[t] = IndexStep(g, t)
    <3>1. t \in Types /\ t <= k + 1
      BY DEF Below
    <3>2. \A u \in Types : u < t => f[u] = g[u]
      BY <2>2, <3>1, TypesAreNumbered DEF Below
    <3>3. IndexStep(f, t) = IndexStep(g, t)
      BY <3>1, <3>2, IndexStepAgrees
    <3>4. g[t] = IndexStep(f, t)
      BY <2>1, <2>2, TypesAreNumbered
    <3> QED
      BY <3>3, <3>4
  <2>4. g = [t \in Below(k + 1) |-> g[t]]
    BY <2>2
  <2>5. g = [t \in Below(k + 1) |-> IndexStep(g, t)]
    BY <2>3, <2>4
  <2> QED
    BY <2>5
<1> HIDE DEF S
<1>3. Len(Type) \in S
  BY <1>1, <1>2, SetInduction, TypesAreNumbered
<1> QED
  BY <1>3, TypesAreNumbered DEF S

(* The translation of an offset, from that of the array it is inside.      *)
LEMMA IndexFacts ==
  ASSUME NEW t \in Types, NEW p \in 0 .. SizeOf(t)
  PROVE  IndexBetweenArrays[t][p] = IndexAt(IndexBetweenArrays, t, p)
<1>1. IndexBetweenArrays = [u \in Types |-> IndexStep(IndexBetweenArrays, u)]
  BY IndexExists DEF IndexBetweenArrays, IndexStep, IndexAt, Inside, ElementAt
<1>2. IndexBetweenArrays[t] = IndexStep(IndexBetweenArrays, t)
  BY <1>1
<1> QED
  BY <1>2 DEF IndexStep

(* An offset in an array is in one element, at one offset in it.           *)
LEMMA Digits ==
  ASSUME NEW n \in Nat, NEW m \in Nat, NEW s \in Nat, NEW x \in Nat, NEW y \in Nat,
         x < s, y < s, n * s + x = m * s + y
  PROVE  n = m /\ x = y
<1>1. \A a, b \in Nat : a + 1 <= b => a * s + s <= b * s /\ a * s \in Nat /\ b * s \in Nat
  <2>1. \A a, b \in Nat : a <= b => a * s <= b * s
    BY Z3
  <2>2. \A a \in Nat : (a + 1) * s = a * s + s /\ a * s \in Nat
    BY Z3
  <2>3. ASSUME NEW a \in Nat, NEW b \in Nat, a + 1 <= b
        PROVE  a * s + s <= b * s
    <3>1. (a + 1) * s <= b * s
      BY <2>1, <2>3
    <3> QED
      BY <3>1, <2>2
  <2> QED
    BY <2>2, <2>3
<1>2. \A a, b, z, w \in Nat : z < s /\ w < s /\ a * s + z = b * s + w => ~(a + 1 <= b)
  BY <1>1
<1>3. ~(n + 1 <= m) /\ ~(m + 1 <= n)
  BY <1>2
<1>4. n = m
  BY <1>3
<1>5. n * s \in Nat
  BY Z3
<1> QED
  BY <1>4, <1>5

LEMMA Modulo ==
  ASSUME NEW n \in Nat, NEW s \in Nat, s > 0, NEW x \in Nat, x < s
  PROVE  (n * s + x) % s = x
<1>1. n * s + x \in Nat
  BY Z3
<1>2. PICK a \in Nat : a = n * s + x
  BY <1>1
<1>3. a = (a \div s) * s + (a % s) /\ a % s \in Nat /\ a % s < s /\ a \div s \in Nat
  BY Z3
<1>4. PICK d \in Nat, r \in Nat : d = a \div s /\ r = a % s
  BY <1>3
<1>5. d * s + r = n * s + x /\ r < s
  BY <1>2, <1>3, <1>4
<1>6. r = x
  BY <1>5, Digits
<1> QED
  BY <1>2, <1>4, <1>6

LEMMA Remainder ==
  ASSUME NEW a \in Nat, NEW s \in Nat, s > 0
  PROVE  a % s \in 0 .. s - 1
BY Z3

LEMMA OwnArrays ==
  ASSUME NEW t \in Types, Solid(t)
  PROVE  Own(t).arrays = Layout[t].arrays
<1>1. CASE ~IsAggregate(t)
  <2>1. Layout[t] = EmptyLayout
    BY <1>1, LayoutFacts DEF LayoutStep, IsAggregate
  <2>2. Own(t).arrays = NoArrays
    BY <1>1, ScalarLaid
  <2> QED
    BY <2>1, <2>2, EmptyLaid
<1>2. CASE IsAggregate(t)
  BY <1>2 DEF Own
<1> QED
  BY <1>1, <1>2

LEMMA ArraysApart ==
  ASSUME NEW t \in Types, Solid(t)
  PROVE  Apart(Layout[t].arrays, SizeOf(t), t)
BY TypesLaid, OwnArrays DEF Laid

(* The array an offset is inside of has smaller elements without empty     *)
(* parts.                                                                  *)
LEMMA InsideFacts ==
  ASSUME NEW t \in Types, Solid(t), NEW p, Inside(t, p) # {}
  PROVE  LET at == LeastOf(Inside(t, p)) IN
         /\ at \in Nat /\ at \in DOMAIN Layout[t].arrays
         /\ at < p /\ p < at + SizeOf(Layout[t].arrays[at])
         /\ ElementAt(t, at) \in Types /\ ElementAt(t, at) < t /\ Solid(ElementAt(t, at))
         /\ SizeOf(ElementAt(t, at)) \in Nat /\ SizeOf(ElementAt(t, at)) > 0
<1>1. PICK at : at = LeastOf(Inside(t, p))
  OBVIOUS
<1>2. Inside(t, p) \subseteq Nat
  BY ArraysApart DEF Inside, Apart
<1>3. at \in Inside(t, p)
  BY <1>1, <1>2, LeastFacts
<1>4. at \in DOMAIN Layout[t].arrays
  BY <1>3 DEF Inside
<1>5. PICK a : a = Layout[t].arrays[at]
  OBVIOUS
<1>6. at \in Nat /\ a \in Types /\ Type[a].kind = "array" /\ Solid(a) /\ Bytes(a) = SizeOf(a)
  BY <1>4, <1>5, ArraysApart, ApartFacts
<1>7. at < p /\ p < at + SizeOf(a)
  BY <1>3, <1>5, <1>6 DEF Inside
<1>8. ElementAt(t, at) = Type[a].elem /\ Solid(Type[a].elem) /\ SizeOf(Type[a].elem) > 0
  BY <1>5, <1>6, SolidFacts DEF ElementAt
<1>9. ElementAt(t, at) \in Types /\ ElementAt(t, at) < t /\ SizeOf(ElementAt(t, at)) \in Nat
  BY <1>4, ElementAtFacts, TypeFacts
<1> QED
  BY <1>1, <1>4, <1>5, <1>6, <1>7, <1>8, <1>9

LEMMA IndexTyped ==
  ASSUME NEW t \in Types, Solid(t), NEW p \in 0 .. SizeOf(t)
  PROVE  LET r == IndexBetweenArrays[t][p] IN
         r.l \in Int /\ r.p \in Nat /\ r = [l |-> r.l, p |-> r.p]
<1> DEFINE Good(r) == r.l \in Int /\ r.p \in Nat /\ r = [l |-> r.l, p |-> r.p]
           S == {u \in Types : Solid(u) => \A q \in 0 .. SizeOf(u) : Good(IndexBetweenArrays[u][q])}
<1>1. ASSUME NEW u \in Types, \A v \in Types : v < u => v \in S
      PROVE  u \in S
  <2> SUFFICES ASSUME Solid(u), NEW q \in 0 .. SizeOf(u)
               PROVE  Good(IndexBetweenArrays[u][q])
    OBVIOUS
  <2>1. IndexBetweenArrays[u][q] = IndexAt(IndexBetweenArrays, u, q) /\ q \in Nat
    BY IndexFacts, TypeFacts
  <2>2. CASE Inside(u, q) = {}
    <3>1. IndexBetweenArrays[u][q] = [l |-> Compacted(Layout[u].arrays, q), p |-> q]
      BY <2>1, <2>2 DEF IndexAt
    <3>2. Compacted(Layout[u].arrays, q) \in Int
      BY <2>1, ArraysApart, CompactedFacts
    <3> QED
      BY <2>1, <3>1, <3>2
  <2>3. CASE Inside(u, q) # {}
    <3>1. PICK at : at = LeastOf(Inside(u, q))
      OBVIOUS
    <3>2. PICK e : e = ElementAt(u, at)
      OBVIOUS
    <3>3. /\ at \in Nat /\ at < q /\ e \in Types /\ e < u /\ Solid(e)
          /\ SizeOf(e) \in Nat /\ SizeOf(e) > 0
      BY <2>3, <3>1, <3>2, InsideFacts
    <3>4. PICK m : m = (q - at) % SizeOf(e)
      OBVIOUS
    <3>5. m \in 0 .. SizeOf(e)
      <4>1. q - at \in Nat
        BY <2>1, <3>3
      <4>2. m \in 0 .. SizeOf(e) - 1
        BY <3>3, <3>4, <4>1, Remainder
      <4> QED
        BY <4>2, <3>3
    <3>6. PICK r : r = IndexBetweenArrays[e][m]
      OBVIOUS
    <3>7. Good(r)
      BY <1>1, <3>3, <3>5, <3>6
    <3>8. IndexBetweenArrays[u][q] = [l |-> Compacted(Layout[u].arrays, at) + r.l, p |-> at + r.p]
      BY <2>1, <2>3, <3>1, <3>2, <3>4, <3>6 DEF IndexAt
    <3>9. Compacted(Layout[u].arrays, at) \in Int
      BY <3>3, ArraysApart, CompactedFacts
    <3> QED
      BY <3>3, <3>7, <3>8, <3>9
  <2> QED
    BY <2>2, <2>3
<1> HIDE DEF S
<1>2. t \in S
  BY <1>1, TypeInduction
<1> QED
  BY <1>2 DEF S

LEMMA IndexZero ==
  ASSUME NEW t \in Types, Solid(t)
  PROVE  IndexBetweenArrays[t][0] = [l |-> 0, p |-> 0]
<1>1. 0 \in 0 .. SizeOf(t)
  BY TypeFacts
<1>2. Inside(t, 0) = {}
  <2>1. \A x \in DOMAIN Layout[t].arrays : x \in Nat
    BY ElementAtFacts
  <2>2. \A x \in Nat : ~(x < 0)
    OBVIOUS
  <2> QED
    BY <2>1, <2>2 DEF Inside
<1>3. Compacted(Layout[t].arrays, 0) = 0
  BY ArraysApart, CompactedFacts
<1> QED
  BY <1>1, <1>2, <1>3, IndexFacts DEF IndexAt

LEMMA ArrayOwn ==
  ASSUME NEW t \in Types, Type[t].kind = "array", Solid(t)
  PROVE  /\ Own(t) = Layout[t]
         /\ Own(t).elements = Own(Type[t].elem).elements
         /\ Own(t).pointers = Own(Type[t].elem).pointers
         /\ Own(t).l = Own(Type[t].elem).l
         /\ DOMAIN Layout[t].arrays = {0} /\ Layout[t].arrays[0] = t
<1>1. Type[t].elem \in Types /\ Solid(Type[t].elem)
  BY ArrayFacts, SolidFacts
<1>2. Laid(Own(Type[t].elem), Type[t].elem)
  BY <1>1, TypesLaid
<1>3. PICK O, A, L, s : /\ O = Own(Type[t].elem) /\ A = [x \in {0} |-> t] /\ L = Layout[t]
                        /\ s = SizeOf(t)
  OBVIOUS
<1>4. L = [elements |-> O.elements, pointers |-> O.pointers, arrays |-> A, l |-> O.l, p |-> s]
  BY <1>2, <1>3, ArrayLayoutFacts
<1>5. L.elements = O.elements /\ L.pointers = O.pointers /\ L.l = O.l /\ L.arrays = A
  BY <1>4
<1>6. DOMAIN A = {0} /\ A[0] = t
  BY <1>3
<1>7. Own(t) = Layout[t]
  BY DEF Own, IsAggregate
<1> QED
  BY <1>3, <1>5, <1>6, <1>7

(* Inside an array, offsets are translated as in the first element.        *)
LEMMA ArrayIndex ==
  ASSUME NEW t \in Types, Type[t].kind = "array", Solid(t), NEW n \in 0 .. Counted(t) - 1,
         NEW q \in Nat, q < SizeOf(Type[t].elem)
  PROVE  IndexBetweenArrays[t][n * SizeOf(Type[t].elem) + q]
           = IndexBetweenArrays[Type[t].elem][q]
<1> DEFINE e == Type[t].elem
<1>1. e \in Types /\ Solid(e) /\ SizeOf(e) \in Nat /\ SizeOf(e) > 0 /\ SizeOf(t) \in Nat /\ n \in Nat
  BY ArrayFacts, SolidFacts, TypeFacts
<1>2. PICK s \in Nat : s = SizeOf(e)
  BY <1>1
<1>3. n * s \in Nat /\ n * s + s <= SizeOf(t)
  BY <1>2, ElementFacts
<1>4. PICK p \in Nat : p = n * s + q
  BY <1>3
<1>5. p < SizeOf(t) /\ p \in 0 .. SizeOf(t)
  BY <1>1, <1>2, <1>3, <1>4
<1>6. p % s = q
  BY <1>1, <1>2, <1>4, Modulo
<1> DEFINE A == Layout[t].arrays
<1>7. DOMAIN A = {0} /\ A[0] = t
  BY ArrayOwn DEF A
<1> HIDE DEF A
<1>8. /\ Apart(A, SizeOf(t), t)
      /\ Compacted(A, 0) = 0
  BY ArraysApart, CompactedFacts DEF A
<1>9. Bytes(t) = SizeOf(t)
  BY ArrayFacts
<1>10. CASE p = 0
  <2>1. q = 0
    BY <1>10, <1>3, <1>4
  <2> QED
    BY <2>1, <1>1, <1>2, <1>4, <1>10, IndexZero
<1>11. CASE p # 0
  <2>1. Inside(t, p) = {0}
    <3>1. 0 < p /\ p < 0 + Bytes(A[0])
      BY <1>1, <1>5, <1>7, <1>9, <1>11
    <3>2. Inside(t, p) = {x \in DOMAIN A : x < p /\ p < x + Bytes(A[x])}
      BY DEF Inside, A
    <3> QED
      BY <3>1, <3>2, <1>7
  <2>2. LeastOf(Inside(t, p)) = 0
    BY <2>1, LeastFacts
  <2>3. ElementAt(t, 0) = e
    BY <1>7 DEF ElementAt, A
  <2>4. PICK r : r = IndexBetweenArrays[e][q]
    OBVIOUS
  <2>5. IndexBetweenArrays[t][p] = [l |-> Compacted(A, 0) + r.l, p |-> 0 + r.p]
    <3>1. (p - 0) % SizeOf(ElementAt(t, 0)) = q
      BY <1>2, <1>6, <2>3
    <3> QED
      BY <1>5, <2>1, <2>2, <2>3, <2>4, <3>1, IndexFacts DEF IndexAt, A
  <2>6. r.l \in Int /\ r.p \in Nat /\ r = [l |-> r.l, p |-> r.p]
    <3>1. q \in 0 .. SizeOf(e)
      BY <1>1
    <3> QED
      BY <3>1, <1>1, <2>4, IndexTyped
  <2> QED
    BY <1>2, <1>4, <1>8, <2>4, <2>5, <2>6
<1> QED
  BY <1>10, <1>11

(* Inside a field, offsets are translated as in the field, and moved.      *)
LEMMA FieldIndex ==
  ASSUME NEW t \in Types, Solid(t), NEW f \in Types, Solid(f), NEW at, NEW lo,
         Window(Own(t), f, at, lo), NEW q \in Nat, q < SizeOf(f)
  PROVE  IndexBetweenArrays[t][at + q]
           = [l |-> lo + IndexBetweenArrays[f][q].l, p |-> at + IndexBetweenArrays[f][q].p]
<1> DEFINE A == Layout[t].arrays
           B == Layout[f].arrays
<1>1. A = Own(t).arrays /\ B = Own(f).arrays
  BY OwnArrays
<1>2. Apart(A, SizeOf(t), t) /\ Apart(B, SizeOf(f), f)
  BY ArraysApart
<1> HIDE DEF A, B
<1>3. /\ at \in Nat /\ lo \in Nat /\ SizeOf(t) \in Nat /\ SizeOf(f) \in Nat
      /\ at + SizeOf(f) <= SizeOf(t)
      /\ Compacted(A, at) = lo
  BY <1>1, TypesLaid, TypeFacts DEF Window
<1>4. /\ \A x \in Nat : x < SizeOf(f) =>
           /\ at + x \in DOMAIN A <=> x \in DOMAIN B
           /\ x \in DOMAIN B => A[at + x] = B[x]
      /\ \A x \in DOMAIN A : x < at => x + SizeOf(A[x]) <= at
  BY <1>1 DEF Window
<1>5. /\ \A x \in DOMAIN A : x \in Nat /\ SizeOf(A[x]) \in Nat /\ Bytes(A[x]) = SizeOf(A[x])
      /\ \A x \in DOMAIN B : x \in Nat
  BY <1>2, ApartFacts
<1>6. PICK p \in Nat : p = at + q
  BY <1>3
<1>7. p \in 0 .. SizeOf(t) /\ q \in 0 .. SizeOf(f)
  BY <1>3, <1>6
<1>8. \A x : x \in Inside(t, p) <=> \E y \in Inside(f, q) : x = at + y
  <2>1. ASSUME NEW x \in Inside(t, p)
        PROVE  \E y \in Inside(f, q) : x = at + y
    <3>1. x \in DOMAIN A /\ x \in Nat /\ x < p /\ p < x + Bytes(A[x])
      BY <1>5 DEF Inside, A
    <3>2. at <= x
      BY <3>1, <1>3, <1>4, <1>5, <1>6
    <3>3. PICK y \in Nat : y = x - at
      BY <3>1, <3>2, <1>3
    <3>4. x = at + y /\ y < q /\ y < SizeOf(f)
      BY <3>1, <3>3, <1>3, <1>6
    <3>5. y \in DOMAIN B /\ A[x] = B[y]
      BY <3>1, <3>4, <1>4
    <3>6. q < y + Bytes(B[y])
      BY <3>1, <3>4, <3>5, <1>3, <1>5, <1>6
    <3> QED
      BY <3>4, <3>5, <3>6 DEF Inside, B
  <2>2. ASSUME NEW y \in Inside(f, q)
        PROVE  at + y \in Inside(t, p)
    <3>1. y \in DOMAIN B /\ y \in Nat /\ y < q /\ q < y + Bytes(B[y])
      BY <1>5 DEF Inside, B
    <3>2. at + y \in DOMAIN A /\ A[at + y] = B[y]
      BY <3>1, <1>3, <1>4
    <3>3. at + y < p /\ p < at + y + Bytes(A[at + y])
      BY <3>1, <3>2, <1>3, <1>5, <1>6
    <3> QED
      BY <3>2, <3>3 DEF Inside, A
  <2> QED
    BY <2>1, <2>2
<1>9. ASSUME NEW y \in Nat, y <= q
      PROVE  Compacted(A, at + y) = lo + Compacted(B, y)
  <2>1. \A x \in Nat : x < y => Saved(A, at + x) = Saved(B, x)
    <3>1. \A x \in Nat : x < y => x < SizeOf(f)
      BY <1>3, <1>9
    <3> QED
      BY <3>1, <1>4 DEF Saved
  <2> QED
    BY <2>1, <1>2, <1>3, CompactedShift
<1>10. CASE Inside(f, q) = {}
  <2>1. Inside(t, p) = {}
    BY <1>8, <1>10
  <2>2. IndexBetweenArrays[t][p] = [l |-> Compacted(A, p), p |-> p]
    BY <2>1, <1>7, IndexFacts DEF IndexAt, A
  <2>3. IndexBetweenArrays[f][q] = [l |-> Compacted(B, q), p |-> q]
    BY <1>7, <1>10, IndexFacts DEF IndexAt, B
  <2>4. Compacted(A, p) = lo + Compacted(B, q)
    BY <1>6, <1>9
  <2> QED
    BY <2>2, <2>3, <2>4, <1>6
<1>11. CASE Inside(f, q) # {}
  <2>1. PICK y : y = LeastOf(Inside(f, q))
    OBVIOUS
  <2>2. y \in Inside(f, q) /\ y \in Nat /\ \A z \in Inside(f, q) : y <= z /\ z \in Nat
    <3>1. Inside(f, q) \subseteq Nat
      BY <1>5 DEF Inside, B
    <3> QED
      BY <2>1, <3>1, <1>11, LeastFacts
  <2>3. Inside(t, p) # {} /\ LeastOf(Inside(t, p)) = at + y
    <3>1. at + y \in Inside(t, p) /\ Inside(t, p) \subseteq Nat
      BY <2>2, <1>3, <1>8
    <3>2. PICK x : x = LeastOf(Inside(t, p))
      OBVIOUS
    <3>3. x \in Inside(t, p) /\ x <= at + y
      BY <3>1, <3>2, LeastFacts
    <3>4. at + y <= x
      BY <3>3, <2>2, <1>3, <1>8
    <3> QED
      BY <3>1, <3>2, <3>3, <3>4, <1>3, <2>2
  <2>4. /\ y < q /\ y \in DOMAIN B /\ A[at + y] = B[y]
    BY <2>2, <1>3, <1>4 DEF Inside, B
  <2>5. ElementAt(t, at + y) = ElementAt(f, y)
    BY <2>4 DEF ElementAt, A, B
  <2>6. p - (at + y) = q - y
    BY <1>3, <1>6, <2>2
  <2>7. PICK r : r = IndexBetweenArrays[ElementAt(f, y)][(q - y) % SizeOf(ElementAt(f, y))]
    OBVIOUS
  <2>8. IndexBetweenArrays[t][p] = [l |-> Compacted(A, at + y) + r.l, p |-> at + y + r.p]
    BY <1>7, <2>3, <2>5, <2>6, <2>7, IndexFacts DEF IndexAt, A
  <2>9. IndexBetweenArrays[f][q] = [l |-> Compacted(B, y) + r.l, p |-> y + r.p]
    BY <1>7, <1>11, <2>1, <2>7, IndexFacts DEF IndexAt, B
  <2>10. r.l \in Int /\ r.p \in Nat
    <3>1. /\ ElementAt(f, y) \in Types /\ Solid(ElementAt(f, y))
          /\ SizeOf(ElementAt(f, y)) \in Nat /\ SizeOf(ElementAt(f, y)) > 0
      BY <1>11, <2>1, InsideFacts
    <3>2. q - y \in Nat
      BY <2>2, <2>4
    <3>3. (q - y) % SizeOf(ElementAt(f, y)) \in 0 .. SizeOf(ElementAt(f, y)) - 1
      BY <3>1, <3>2, Remainder
    <3>4. (q - y) % SizeOf(ElementAt(f, y)) \in 0 .. SizeOf(ElementAt(f, y))
      BY <3>1, <3>3
    <3> QED
      BY <3>1, <3>4, <2>7, IndexTyped
  <2>11. Compacted(A, at + y) = lo + Compacted(B, y) /\ Compacted(B, y) \in Int
    <3>1. y <= q
      BY <2>2, <2>4
    <3> QED
      BY <3>1, <2>2, <1>2, <1>9, CompactedFacts
  <2>12. /\ lo + Compacted(B, y) + r.l = lo + (Compacted(B, y) + r.l)
         /\ at + y + r.p = at + (y + r.p)
    BY <2>2, <2>10, <2>11, <1>3
  <2> QED
    BY <2>8, <2>9, <2>11, <2>12, <1>6
<1> QED
  BY <1>10, <1>11

(***************************************************************************)
(* The parts of a type and their indices.                                  *)
(***************************************************************************)
(* The scalar parts of a type; a part as it is in the first elements.      *)
Scalars(t) == {c \in Parts[t] : ~IsAggregate(c.type)}

First(c) == [at |-> c.first, first |-> c.first, type |-> c.type]

LEMMA SolidParts ==
  ASSUME NEW t \in Types, Solid(t), NEW d \in Parts[t]
  PROVE  /\ d.at \in Nat /\ d.first \in Nat /\ d.first <= d.at /\ d.at < SizeOf(t)
         /\ d.type \in Types /\ SizeOf(d.type) \in Nat /\ SizeOf(d.type) > 0
         /\ d.at + SizeOf(d.type) <= SizeOf(t)
         /\ d = [at |-> d.at, first |-> d.first, type |-> d.type]
<1>1. /\ d.at \in Nat /\ d.first \in Nat /\ d.first <= d.at
      /\ d.type \in Types /\ d.at + SizeOf(d.type) <= SizeOf(t)
      /\ d = [at |-> d.at, first |-> d.first, type |-> d.type]
  BY PartsTyped
<1>2. SizeOf(d.type) > 0 /\ SizeOf(d.type) \in Nat /\ SizeOf(t) \in Nat
  BY <1>1, TypeFacts DEF Solid
<1> QED
  BY <1>1, <1>2

LEMMA MovedFacts ==
  ASSUME NEW d, NEW at, NEW first
  PROVE  /\ Moved(d, at, first).at = at + d.at
         /\ Moved(d, at, first).first = first + d.first
         /\ Moved(d, at, first).type = d.type
BY DEF Moved

LEMMA FieldPart ==
  ASSUME NEW t \in Types, Type[t].kind = "struct", Solid(t),
         NEW i \in 1 .. Len(Type[t].fields), NEW d \in Parts[Type[t].fields[i]]
  PROVE  LET f == Type[t].fields[i]
             o == Offsets(t)[i]
             lo == Placed(Own(t), t, i)
         IN /\ f \in Types /\ f < t /\ Solid(f) /\ o \in Nat /\ lo \in Nat
            /\ Window(Own(t), f, o, lo)
            /\ Moved(d, o, o) \in Parts[t]
            /\ IndexBetweenArrays[t][o + d.at]
                 = [l |-> lo + IndexBetweenArrays[f][d.at].l, p |-> o + IndexBetweenArrays[f][d.at].p]
            /\ IndexBetweenArrays[t][o + d.first]
                 = [l |-> lo + IndexBetweenArrays[f][d.first].l,
                    p |-> o + IndexBetweenArrays[f][d.first].p]
<1>1. PICK f, o, lo : f = Type[t].fields[i] /\ o = Offsets(t)[i] /\ lo = Placed(Own(t), t, i)
  OBVIOUS
<1>2. f \in Types /\ f < t /\ Solid(f) /\ o \in Nat
  BY <1>1, StructFacts, SolidFacts
<1>3. Window(Own(t), f, o, lo)
  BY <1>1, TypesLaid DEF Windows
<1>4. lo \in Nat
  BY <1>3 DEF Window
<1>5. Moved(d, o, o) \in Parts[t]
  BY <1>1, PartsOfStruct
<1>6. d.at \in Nat /\ d.first \in Nat /\ d.at < SizeOf(f) /\ d.first < SizeOf(f)
  <2>1. d \in Parts[f] /\ SizeOf(f) \in Nat
    BY <1>1, <1>2, TypeFacts
  <2>2. d.at \in Nat /\ d.first \in Nat /\ d.first <= d.at /\ d.at < SizeOf(f)
    BY <2>1, <1>2, SolidParts
  <2> QED
    BY <2>1, <2>2
<1>7. /\ IndexBetweenArrays[t][o + d.at]
           = [l |-> lo + IndexBetweenArrays[f][d.at].l, p |-> o + IndexBetweenArrays[f][d.at].p]
      /\ IndexBetweenArrays[t][o + d.first]
           = [l |-> lo + IndexBetweenArrays[f][d.first].l, p |-> o + IndexBetweenArrays[f][d.first].p]
  BY <1>2, <1>3, <1>6, FieldIndex
<1> QED
  BY <1>1, <1>2, <1>3, <1>4, <1>5, <1>7

LEMMA ElementPart ==
  ASSUME NEW t \in Types, Type[t].kind = "array", Solid(t),
         NEW n \in 0 .. Counted(t) - 1, NEW d \in Parts[Type[t].elem]
  PROVE  LET e == Type[t].elem
             a == n * SizeOf(e)
         IN /\ e \in Types /\ e < t /\ Solid(e) /\ a \in Nat
            /\ Moved(d, a, 0) \in Parts[t] /\ Moved(d, 0, 0) \in Parts[t]
            /\ IndexBetweenArrays[t][a + d.at] = IndexBetweenArrays[e][d.at]
            /\ IndexBetweenArrays[t][d.first] = IndexBetweenArrays[e][d.first]
<1>1. PICK e : e = Type[t].elem
  OBVIOUS
<1>2. e \in Types /\ e < t /\ Solid(e) /\ SizeOf(e) \in Nat
  BY <1>1, ArrayFacts, SolidFacts, TypeFacts
<1>3. 0 \in 0 .. Counted(t) - 1 /\ 0 * SizeOf(e) = 0
  BY <1>2, SolidFacts, ArrayFacts
<1>4. n * SizeOf(e) \in Nat
  BY <1>1, ElementFacts
<1>5. Moved(d, n * SizeOf(e), 0) \in Parts[t] /\ Moved(d, 0 * SizeOf(e), 0) \in Parts[t]
  BY <1>1, <1>3, PartsOfArray
<1>6. d.at \in Nat /\ d.first \in Nat /\ d.at < SizeOf(e) /\ d.first < SizeOf(e)
  <2>1. d.at \in Nat /\ d.first \in Nat /\ d.first <= d.at /\ d.at < SizeOf(e)
    BY <1>1, <1>2, SolidParts
  <2> QED
    BY <2>1, <1>2
<1>7. IndexBetweenArrays[t][n * SizeOf(e) + d.at] = IndexBetweenArrays[e][d.at]
  BY <1>1, <1>6, ArrayIndex
<1>8. IndexBetweenArrays[t][0 * SizeOf(e) + d.first] = IndexBetweenArrays[e][d.first]
  BY <1>1, <1>3, <1>6, ArrayIndex
<1>9. 0 * SizeOf(e) + d.first = d.first
  BY <1>3, <1>6
<1> QED
  BY <1>1, <1>2, <1>3, <1>4, <1>5, <1>7, <1>8, <1>9

(* Where a scalar part is found.                                           *)
LEMMA ScalarsIndexed ==
  ASSUME NEW t \in Types, Solid(t)
  PROVE  \A c \in Scalars(t) :
           LET r == IndexBetweenArrays[t][c.at] IN
           /\ r.p = c.first /\ r.l \in Own(t).elements
           /\ r.l \in Own(t).pointers <=> Type[c.type].kind = "pointer"
           /\ IndexBetweenArrays[t][c.first].l = r.l
<1> DEFINE Good(u, c) ==
             /\ IndexBetweenArrays[u][c.at].p = c.first
             /\ IndexBetweenArrays[u][c.at].l \in Own(u).elements
             /\ IndexBetweenArrays[u][c.at].l \in Own(u).pointers <=> Type[c.type].kind = "pointer"
             /\ IndexBetweenArrays[u][c.first].l = IndexBetweenArrays[u][c.at].l
           S == {u \in Types : Solid(u) => \A c \in Scalars(u) : Good(u, c)}
<1>1. ASSUME NEW u \in Types, \A v \in Types : v < u => v \in S
      PROVE  u \in S
  <2> SUFFICES ASSUME Solid(u), NEW c \in Scalars(u)
               PROVE  Good(u, c)
    OBVIOUS
  <2>1. c \in Parts[u] /\ ~IsAggregate(c.type)
    BY DEF Scalars
  <2>2. IsAggregate(u) => c # Whole(u)
    BY <2>1 DEF Whole
  <2>3. CASE Type[u].kind = "struct"
    <3>1. PICK i \in 1 .. Len(Type[u].fields) : \E d \in Parts[Type[u].fields[i]] :
                 c = Moved(d, Offsets(u)[i], Offsets(u)[i])
      BY <2>1, <2>2, <2>3, PartsOfStruct DEF IsAggregate
    <3>2. PICK f, o, lo : f = Type[u].fields[i] /\ o = Offsets(u)[i] /\ lo = Placed(Own(u), u, i)
      OBVIOUS
    <3>3. PICK d \in Parts[f] : c = Moved(d, o, o)
      BY <3>1, <3>2
    <3>4. /\ f \in Types /\ f < u /\ Solid(f) /\ o \in Nat /\ lo \in Nat
          /\ Window(Own(u), f, o, lo)
          /\ IndexBetweenArrays[u][o + d.at]
               = [l |-> lo + IndexBetweenArrays[f][d.at].l, p |-> o + IndexBetweenArrays[f][d.at].p]
          /\ IndexBetweenArrays[u][o + d.first]
               = [l |-> lo + IndexBetweenArrays[f][d.first].l,
                  p |-> o + IndexBetweenArrays[f][d.first].p]
      BY <2>3, <3>2, FieldPart
    <3>5. c.at = o + d.at /\ c.first = o + d.first /\ c.type = d.type
      BY <3>3, MovedFacts
    <3>6. d \in Scalars(f)
      BY <3>5, <2>1 DEF Scalars
    <3>7. Good(f, d)
      BY <1>1, <3>4, <3>6
    <3>8. PICK m : m = IndexBetweenArrays[f][d.at].l
      OBVIOUS
    <3>9. m \in Own(f).elements /\ m \in Nat /\ m < Own(f).l
      BY <3>4, <3>7, <3>8, TypesLaid DEF Laid
    <3>10. /\ lo + m \in Own(u).elements
           /\ lo + m \in Own(u).pointers <=> Type[c.type].kind = "pointer"
      BY <3>4, <3>5, <3>7, <3>8, <3>9 DEF Window
    <3>11. IndexBetweenArrays[u][c.at].l = lo + m /\ IndexBetweenArrays[u][c.first].l = lo + m
      BY <3>4, <3>5, <3>7, <3>8
    <3>12. IndexBetweenArrays[u][c.at].p = c.first
      BY <3>4, <3>5, <3>7
    <3> QED
      BY <3>10, <3>11, <3>12
  <2>4. CASE Type[u].kind = "array"
    <3>1. PICK n \in 0 .. Counted(u) - 1 : \E d \in Parts[Type[u].elem] :
                 c = Moved(d, n * SizeOf(Type[u].elem), 0)
      BY <2>1, <2>2, <2>4, PartsOfArray DEF IsAggregate
    <3>2. PICK e, a : e = Type[u].elem /\ a = n * SizeOf(e)
      OBVIOUS
    <3>3. PICK d \in Parts[e] : c = Moved(d, a, 0)
      BY <3>1, <3>2
    <3>4. /\ e \in Types /\ e < u /\ Solid(e)
          /\ IndexBetweenArrays[u][a + d.at] = IndexBetweenArrays[e][d.at]
          /\ IndexBetweenArrays[u][d.first] = IndexBetweenArrays[e][d.first]
      BY <2>4, <3>2, ElementPart
    <3>5. c.at = a + d.at /\ c.first = d.first /\ c.type = d.type
      BY <3>3, <3>4, MovedFacts, SolidParts
    <3>6. d \in Scalars(e)
      BY <3>5, <2>1 DEF Scalars
    <3>7. Good(e, d)
      BY <1>1, <3>4, <3>6
    <3>8. Own(u).elements = Own(e).elements /\ Own(u).pointers = Own(e).pointers
      BY <2>4, <3>2, ArrayOwn
    <3> QED
      BY <3>4, <3>5, <3>7, <3>8
  <2>5. CASE ~IsAggregate(u)
    <3>1. c = Whole(u)
      BY <2>1, <2>5, PartsOfScalar
    <3>2. c.at = 0 /\ c.first = 0 /\ c.type = u
      BY <3>1 DEF Whole
    <3>3. PICK O : O = Own(u)
      OBVIOUS
    <3>4. O = [elements |-> {0}, pointers |-> {l \in {0} : Type[u].kind = "pointer"},
               arrays |-> NoArrays, l |-> SizeOf(u), p |-> SizeOf(u)]
      BY <2>5, <3>3, ScalarLaid
    <3>5. O.elements = {0} /\ O.pointers = {l \in {0} : Type[u].kind = "pointer"}
      BY <3>4
    <3>6. IndexBetweenArrays[u][0].l = 0 /\ IndexBetweenArrays[u][0].p = 0
      BY IndexZero
    <3> QED
      BY <3>2, <3>3, <3>5, <3>6
  <2> QED
    BY <2>3, <2>4, <2>5 DEF IsAggregate
<1> HIDE DEF S
<1>2. t \in S
  BY <1>1, TypeInduction
<1> QED
  BY <1>2 DEF S

(* A layout offset stands for one field.                                   *)
LEMMA ScalarsApart ==
  ASSUME NEW t \in Types, Solid(t)
  PROVE  \A c, d \in Scalars(t) :
           IndexBetweenArrays[t][c.at].l = IndexBetweenArrays[t][d.at].l
             => c.first = d.first /\ c.type = d.type
<1> DEFINE Same(u, c, d) == IndexBetweenArrays[u][c.at].l = IndexBetweenArrays[u][d.at].l
                              => c.first = d.first /\ c.type = d.type
           S == {u \in Types : Solid(u) => \A c, d \in Scalars(u) : Same(u, c, d)}
<1>1. ASSUME NEW u \in Types, \A v \in Types : v < u => v \in S
      PROVE  u \in S
  <2> SUFFICES ASSUME Solid(u)
               PROVE  \A c, d \in Scalars(u) : Same(u, c, d)
    OBVIOUS
  <2>1. CASE Type[u].kind = "struct"
    <3> DEFINE n == Len(Type[u].fields)
               lo(i) == Placed(Own(u), u, i)
               width(i) == Own(Type[u].fields[i]).l
               Owns(i, a, c) ==
                 /\ a \in Scalars(Type[u].fields[i])
                 /\ c.first = Offsets(u)[i] + a.first /\ c.type = a.type
                 /\ IndexBetweenArrays[Type[u].fields[i]][a.at].l \in Nat
                 /\ IndexBetweenArrays[Type[u].fields[i]][a.at].l < width(i)
                 /\ IndexBetweenArrays[u][c.at].l
                      = lo(i) + IndexBetweenArrays[Type[u].fields[i]][a.at].l
    <3>1. ASSUME NEW c \in Scalars(u)
          PROVE  \E i \in 1 .. n : \E a : Owns(i, a, c)
      <4>1. c \in Parts[u] /\ ~IsAggregate(c.type) /\ c # Whole(u)
        BY <2>1 DEF Scalars, Whole, IsAggregate
      <4>2. PICK i \in 1 .. n : \E a \in Parts[Type[u].fields[i]] :
                   c = Moved(a, Offsets(u)[i], Offsets(u)[i])
        BY <4>1, <2>1, PartsOfStruct
      <4>3. PICK f, o : f = Type[u].fields[i] /\ o = Offsets(u)[i]
        OBVIOUS
      <4>4. PICK a \in Parts[f] : c = Moved(a, o, o)
        BY <4>2, <4>3
      <4>5. /\ f \in Types /\ Solid(f)
            /\ IndexBetweenArrays[u][o + a.at]
                 = [l |-> lo(i) + IndexBetweenArrays[f][a.at].l,
                    p |-> o + IndexBetweenArrays[f][a.at].p]
        BY <2>1, <4>3, FieldPart
      <4>6. c.at = o + a.at /\ c.first = o + a.first /\ c.type = a.type
        BY <4>4, MovedFacts
      <4>7. a \in Scalars(f)
        BY <4>1, <4>6 DEF Scalars
      <4>8. IndexBetweenArrays[f][a.at].l \in Own(f).elements
        BY <4>5, <4>7, ScalarsIndexed
      <4>9. IndexBetweenArrays[f][a.at].l \in Nat /\ IndexBetweenArrays[f][a.at].l < Own(f).l
        BY <4>5, <4>8, TypesLaid DEF Laid
      <4>10. IndexBetweenArrays[u][c.at].l = lo(i) + IndexBetweenArrays[f][a.at].l
        BY <4>5, <4>6
      <4>11. Owns(i, a, c)
        BY <4>3, <4>6, <4>7, <4>9, <4>10
      <4> QED
        BY <4>11
    <3>2. \A i \in 1 .. n : /\ lo(i) \in Nat /\ width(i) \in Nat
                            /\ \A j \in 1 .. n : i < j => lo(i) + width(i) <= lo(j)
      BY <2>1, TypesLaid DEF Windows, Window
    <3>3. \A i \in 1 .. n : i \in Nat /\ Type[u].fields[i] \in S /\ Solid(Type[u].fields[i])
      BY <2>1, <1>1, StructFacts, SolidFacts
    <3>4. ASSUME NEW c \in Scalars(u), NEW d \in Scalars(u),
                 IndexBetweenArrays[u][c.at].l = IndexBetweenArrays[u][d.at].l
          PROVE  c.first = d.first /\ c.type = d.type
      <4>1. PICK i \in 1 .. n : \E a : Owns(i, a, c)
        BY <3>1
      <4>2. PICK a : Owns(i, a, c)
        BY <4>1
      <4>3. PICK j \in 1 .. n : \E b : Owns(j, b, d)
        BY <3>1
      <4>4. PICK b : Owns(j, b, d)
        BY <4>3
      <4> HIDE DEF n, lo, width
      <4>5. PICK x \in Nat : x = IndexBetweenArrays[Type[u].fields[i]][a.at].l
        BY <4>2
      <4>6. PICK y \in Nat : y = IndexBetweenArrays[Type[u].fields[j]][b.at].l
        BY <4>4
      <4>7. lo(i) + x = lo(j) + y /\ x < width(i) /\ y < width(j)
        BY <3>4, <4>2, <4>4, <4>5, <4>6
      <4>8. i = j
        <5>1. ~(i < j) /\ ~(j < i)
          BY <3>2, <4>7
        <5> QED
          BY <5>1, <3>3
      <4>9. x = y
        BY <4>7, <4>8, <3>2
      <4>10. a.first = b.first /\ a.type = b.type
        <5>1. PICK f : f = Type[u].fields[i]
          OBVIOUS
        <5>2. a \in Scalars(f) /\ b \in Scalars(f)
          BY <5>1, <4>2, <4>4, <4>8
        <5>3. IndexBetweenArrays[f][a.at].l = IndexBetweenArrays[f][b.at].l
          BY <5>1, <4>5, <4>6, <4>8, <4>9
        <5>4. f \in S /\ Solid(f)
          BY <5>1, <3>3
        <5> QED
          BY <5>2, <5>3, <5>4
      <4> QED
        BY <4>2, <4>4, <4>8, <4>10
    <3> QED
      BY <3>4
  <2>2. CASE Type[u].kind = "array"
    <3>1. PICK e : e = Type[u].elem
      OBVIOUS
    <3>2. e \in Types /\ e < u /\ Solid(e)
      BY <2>2, <3>1, ArrayFacts, SolidFacts
    <3>3. ASSUME NEW c \in Scalars(u)
          PROVE  \E a \in Scalars(e) :
                   /\ c.first = a.first /\ c.type = a.type
                   /\ IndexBetweenArrays[u][c.at].l = IndexBetweenArrays[e][a.at].l
      <4>1. c \in Parts[u] /\ ~IsAggregate(c.type) /\ c # Whole(u)
        BY <2>2 DEF Scalars, Whole, IsAggregate
      <4>2. PICK n \in 0 .. Counted(u) - 1 : \E a \in Parts[e] : c = Moved(a, n * SizeOf(e), 0)
        BY <4>1, <2>2, <3>1, PartsOfArray
      <4>3. PICK a \in Parts[e] : c = Moved(a, n * SizeOf(e), 0)
        BY <4>2
      <4>4. c.at = n * SizeOf(e) + a.at /\ c.first = 0 + a.first /\ c.type = a.type
        BY <4>3, MovedFacts
      <4>5. a.first \in Nat /\ a \in Scalars(e)
        BY <4>1, <4>4, <3>2, SolidParts DEF Scalars
      <4>6. IndexBetweenArrays[u][n * SizeOf(e) + a.at] = IndexBetweenArrays[e][a.at]
        BY <2>2, <3>1, ElementPart
      <4> QED
        BY <4>4, <4>5, <4>6
    <3>4. e \in S
      BY <1>1, <3>2
    <3> QED
      BY <3>2, <3>3, <3>4
  <2>3. CASE ~IsAggregate(u)
    BY <2>3, PartsOfScalar DEF Scalars
  <2> QED
    BY <2>1, <2>2, <2>3 DEF IsAggregate
<1> HIDE DEF S
<1>2. t \in S
  BY <1>1, TypeInduction
<1> QED
  BY <1>2 DEF S

LEMMA ElementAtZero ==
  ASSUME NEW t \in Types, Type[t].kind = "array", Solid(t)
  PROVE  /\ Type[t].elem \in Types /\ Type[t].elem < t /\ Solid(Type[t].elem)
         /\ \A d \in Parts[Type[t].elem] : Moved(d, 0, 0) \in Parts[t]
<1>1. Type[t].elem \in Types /\ Type[t].elem < t /\ Solid(Type[t].elem)
  BY ArrayFacts, SolidFacts
<1>2. 0 \in 0 .. Counted(t) - 1 /\ 0 * SizeOf(Type[t].elem) = 0
  BY <1>1, SolidFacts, ArrayFacts, TypeFacts
<1> QED
  BY <1>1, <1>2, PartsOfArray

LEMMA MoveZero ==
  ASSUME NEW t \in Types, NEW d \in Parts[t]
  PROVE  Moved(d, 0, 0) = d
<1>1. /\ d.at \in Nat /\ d.first \in Nat
      /\ d = [at |-> d.at, first |-> d.first, type |-> d.type]
  BY PartsTyped
<1>2. 0 + d.at = d.at /\ 0 + d.first = d.first
  BY <1>1
<1> QED
  BY <1>1, <1>2 DEF Moved

(* A part of a part is a part.                                             *)
LEMMA PartsOfParts ==
  ASSUME NEW t \in Types
  PROVE  \A c \in Parts[t] : \A d \in Parts[c.type] : Moved(d, c.at, c.first) \in Parts[t]
<1> DEFINE S == {u \in Types : \A c \in Parts[u] : \A d \in Parts[c.type] :
                                 Moved(d, c.at, c.first) \in Parts[u]}
<1>1. ASSUME NEW u \in Types, \A v \in Types : v < u => v \in S
      PROVE  u \in S
  <2> SUFFICES ASSUME NEW c \in Parts[u], NEW d \in Parts[c.type]
               PROVE  Moved(d, c.at, c.first) \in Parts[u]
    OBVIOUS
  <2>1. CASE c = Whole(u)
    <3>1. c.at = 0 /\ c.first = 0 /\ c.type = u
      BY <2>1 DEF Whole
    <3> QED
      BY <3>1, MoveZero
  <2>2. ASSUME NEW v \in Types, v < u, NEW b \in Parts[v], NEW at \in Nat, NEW first \in Nat,
               c = Moved(b, at, first)
        PROVE  \E x \in Parts[v] : Moved(d, c.at, c.first) = Moved(x, at, first)
    <3>1. c.at = at + b.at /\ c.first = first + b.first /\ c.type = b.type
      BY <2>2, MovedFacts
    <3>2. Moved(d, b.at, b.first) \in Parts[v]
      BY <1>1, <2>2, <3>1
    <3>3. b.at \in Nat /\ b.first \in Nat /\ b.type \in Types
      BY <2>2, PartsTyped
    <3>4. d.at \in Nat /\ d.first \in Nat
      BY <3>1, <3>3, PartsTyped
    <3>5. /\ at + b.at + d.at = at + (b.at + d.at)
          /\ first + b.first + d.first = first + (b.first + d.first)
      BY <2>2, <3>3, <3>4
    <3>6. Moved(d, c.at, c.first) = Moved(Moved(d, b.at, b.first), at, first)
      BY <3>1, <3>5 DEF Moved
    <3> QED
      BY <3>2, <3>6
  <2>3. CASE c # Whole(u) /\ Type[u].kind = "struct"
    <3>1. PICK i \in 1 .. Len(Type[u].fields) : \E b \in Parts[Type[u].fields[i]] :
                 c = Moved(b, Offsets(u)[i], Offsets(u)[i])
      BY <2>3, PartsOfStruct
    <3>2. Type[u].fields[i] \in Types /\ Type[u].fields[i] < u /\ Offsets(u)[i] \in Nat
      BY <2>3, StructFacts
    <3>3. \E x \in Parts[Type[u].fields[i]] :
            Moved(d, c.at, c.first) = Moved(x, Offsets(u)[i], Offsets(u)[i])
      BY <3>1, <3>2, <2>2
    <3> QED
      BY <3>3, <2>3, PartsOfStruct
  <2>4. CASE c # Whole(u) /\ Type[u].kind = "array"
    <3>1. PICK n \in 0 .. Counted(u) - 1 : \E b \in Parts[Type[u].elem] :
                 c = Moved(b, n * SizeOf(Type[u].elem), 0)
      BY <2>4, PartsOfArray
    <3>2. PICK a \in Nat : a = n * SizeOf(Type[u].elem)
      BY <2>4, ElementFacts
    <3>3. Type[u].elem \in Types /\ Type[u].elem < u
      BY <2>4, ArrayFacts
    <3>4. \E x \in Parts[Type[u].elem] : Moved(d, c.at, c.first) = Moved(x, a, 0)
      BY <3>1, <3>2, <3>3, <2>2
    <3> QED
      BY <3>2, <3>4, <2>4, PartsOfArray
  <2>5. CASE c # Whole(u) /\ ~IsAggregate(u)
    BY <2>5, PartsOfScalar
  <2> QED
    BY <2>1, <2>3, <2>4, <2>5 DEF IsAggregate
<1> HIDE DEF S
<1>2. t \in S
  BY <1>1, TypeInduction
<1> QED
  BY <1>2 DEF S

(* The first elements are parts themselves.                                *)
LEMMA FirstsAreParts ==
  ASSUME NEW t \in Types, Solid(t)
  PROVE  \A c \in Parts[t] : First(c) \in Parts[t]
<1> DEFINE S == {u \in Types : Solid(u) => \A c \in Parts[u] : First(c) \in Parts[u]}
<1>1. ASSUME NEW u \in Types, \A v \in Types : v < u => v \in S
      PROVE  u \in S
  <2> SUFFICES ASSUME Solid(u), NEW c \in Parts[u]
               PROVE  First(c) \in Parts[u]
    OBVIOUS
  <2>1. CASE c = Whole(u)
    BY <2>1 DEF Whole, First
  <2>2. CASE c # Whole(u) /\ Type[u].kind = "struct"
    <3>1. PICK i \in 1 .. Len(Type[u].fields) : \E b \in Parts[Type[u].fields[i]] :
                 c = Moved(b, Offsets(u)[i], Offsets(u)[i])
      BY <2>2, PartsOfStruct
    <3>2. PICK b \in Parts[Type[u].fields[i]] : c = Moved(b, Offsets(u)[i], Offsets(u)[i])
      BY <3>1
    <3>3. /\ Type[u].fields[i] \in Types /\ Type[u].fields[i] < u
          /\ Solid(Type[u].fields[i])
      BY <2>2, StructFacts, SolidFacts
    <3>4. First(b) \in Parts[Type[u].fields[i]]
      BY <1>1, <3>3
    <3>5. First(c) = Moved(First(b), Offsets(u)[i], Offsets(u)[i])
      BY <3>2 DEF First, Moved
    <3> QED
      BY <3>4, <3>5, <2>2, PartsOfStruct
  <2>3. CASE c # Whole(u) /\ Type[u].kind = "array"
    <3>1. PICK n \in 0 .. Counted(u) - 1 : \E b \in Parts[Type[u].elem] :
                 c = Moved(b, n * SizeOf(Type[u].elem), 0)
      BY <2>3, PartsOfArray
    <3>2. PICK b \in Parts[Type[u].elem] : c = Moved(b, n * SizeOf(Type[u].elem), 0)
      BY <3>1
    <3>3. /\ Type[u].elem \in Types /\ Type[u].elem < u /\ Solid(Type[u].elem)
          /\ \A d \in Parts[Type[u].elem] : Moved(d, 0, 0) \in Parts[u]
      BY <2>3, ElementAtZero
    <3>4. First(b) \in Parts[Type[u].elem]
      BY <1>1, <3>3
    <3>5. First(c) = Moved(First(b), 0, 0)
      BY <3>2 DEF First, Moved
    <3> QED
      BY <3>3, <3>4, <3>5
  <2>4. CASE c # Whole(u) /\ ~IsAggregate(u)
    BY <2>4, PartsOfScalar
  <2> QED
    BY <2>1, <2>2, <2>3, <2>4 DEF IsAggregate
<1> HIDE DEF S
<1>2. t \in S
  BY <1>1, TypeInduction
<1> QED
  BY <1>2 DEF S

(* Every part starts with a scalar.                                        *)
LEMMA StartsWithScalar ==
  ASSUME NEW t \in Types, Solid(t)
  PROVE  \E d \in Scalars(t) : d.at = 0 /\ d.first = 0
<1> DEFINE S == {u \in Types : Solid(u) => \E d \in Scalars(u) : d.at = 0 /\ d.first = 0}
<1>1. ASSUME NEW u \in Types, \A v \in Types : v < u => v \in S
      PROVE  u \in S
  <2> SUFFICES ASSUME Solid(u)
               PROVE  \E d \in Scalars(u) : d.at = 0 /\ d.first = 0
    OBVIOUS
  <2>1. ASSUME NEW v \in Types, v < u, Solid(v), \A d \in Parts[v] : Moved(d, 0, 0) \in Parts[u]
        PROVE  \E d \in Scalars(u) : d.at = 0 /\ d.first = 0
    <3>1. PICK d \in Scalars(v) : d.at = 0 /\ d.first = 0
      BY <1>1, <2>1
    <3>2. Moved(d, 0, 0).at = 0 /\ Moved(d, 0, 0).first = 0 /\ Moved(d, 0, 0).type = d.type
      BY <3>1 DEF Moved
    <3>3. Moved(d, 0, 0) \in Scalars(u)
      BY <2>1, <3>1, <3>2 DEF Scalars
    <3> QED
      BY <3>2, <3>3
  <2>2. CASE Type[u].kind = "struct"
    <3>1. 1 \in 1 .. Len(Type[u].fields) /\ Offsets(u)[1] = 0
      BY <2>2, SolidFacts, StructFacts
    <3>2. /\ Type[u].fields[1] \in Types /\ Type[u].fields[1] < u
          /\ Solid(Type[u].fields[1])
      BY <2>2, <3>1, StructFacts, SolidFacts
    <3>3. \A d \in Parts[Type[u].fields[1]] : Moved(d, 0, 0) \in Parts[u]
      BY <2>2, <3>1, PartsOfStruct
    <3> QED
      BY <2>1, <3>2, <3>3
  <2>3. CASE Type[u].kind = "array"
    BY <2>1, <2>3, ElementAtZero
  <2>4. CASE ~IsAggregate(u)
    <3>1. Whole(u) \in Scalars(u) /\ Whole(u).at = 0 /\ Whole(u).first = 0
      BY <2>4, PartsOfScalar DEF Scalars, Whole
    <3> QED
      BY <3>1
  <2> QED
    BY <2>2, <2>3, <2>4 DEF IsAggregate
<1> HIDE DEF S
<1>2. t \in S
  BY <1>1, TypeInduction
<1> QED
  BY <1>2 DEF S

LEMMA PartsStartWithScalars ==
  ASSUME NEW t \in Types, Solid(t), NEW c \in Parts[t]
  PROVE  \E d \in Scalars(t) : d.at = c.at /\ d.first = c.first
<1>1. c.type \in Types /\ c.at \in Nat /\ c.first \in Nat
  BY PartsTyped
<1>2. Solid(c.type)
  <2>1. ASSUME NEW d \in Parts[c.type]
        PROVE  SizeOf(d.type) > 0
    <3>1. Moved(d, c.at, c.first) \in Parts[t] /\ Moved(d, c.at, c.first).type = d.type
      BY PartsOfParts, MovedFacts
    <3> QED
      BY <3>1 DEF Solid
  <2> QED
    BY <2>1 DEF Solid
<1>3. PICK d \in Scalars(c.type) : d.at = 0 /\ d.first = 0
  BY <1>1, <1>2, StartsWithScalar
<1>4. /\ Moved(d, c.at, c.first).at = c.at /\ Moved(d, c.at, c.first).first = c.first
      /\ Moved(d, c.at, c.first).type = d.type
  BY <1>1, <1>3, MovedFacts
<1>5. Moved(d, c.at, c.first) \in Scalars(t)
  BY <1>3, <1>4, PartsOfParts DEF Scalars
<1> QED
  BY <1>4, <1>5

(* The parts that start at an offset stand for the same first elements.    *)
LEMMA StartsAgree ==
  ASSUME NEW t \in Types, Solid(t), NEW c \in Parts[t], NEW d \in Parts[t], c.at = d.at
  PROVE  c.first = d.first
<1>1. PICK a \in Scalars(t) : a.at = c.at /\ a.first = c.first
  BY PartsStartWithScalars
<1>2. PICK b \in Scalars(t) : b.at = d.at /\ b.first = d.first
  BY PartsStartWithScalars
<1> QED
  BY <1>1, <1>2, ScalarsApart

(* The reference for the object of a pointer does not depend on the choice *)
(* of the part at its offset.                                              *)
LEMMA FirstElementFacts ==
  ASSUME NEW t \in Types, Solid(t), NEW c \in Parts[t]
  PROVE  FirstElement(t, c.at) = c.first
<1>1. PICK d : d = CHOOSE x \in Parts[t] : x.at = c.at
  OBVIOUS
<1>2. d \in Parts[t] /\ d.at = c.at
  BY <1>1
<1>3. d.first = c.first
  BY <1>2, StartsAgree
<1> QED
  BY <1>1, <1>3 DEF FirstElement

LEMMA ScalarsUnique ==
  ASSUME NEW t \in Types, Solid(t), NEW c \in Scalars(t), NEW d \in Scalars(t), c.at = d.at
  PROVE  c = d
<1>1. c.first = d.first /\ c.type = d.type
  BY ScalarsApart
<1>2. /\ c = [at |-> c.at, first |-> c.first, type |-> c.type]
      /\ d = [at |-> d.at, first |-> d.first, type |-> d.type]
  BY PartsTyped DEF Scalars
<1> QED
  BY <1>1, <1>2

(***************************************************************************)
(* The objects of a block.                                                 *)
(***************************************************************************)
(* Inside a type, the test for an offset behind the end changes nothing.   *)
LEMMA IndexPhysicalOffsetFacts ==
  ASSUME NEW t \in Types, Solid(t), NEW p \in Nat, p < SizeOf(t), IsAggregate(t)
  PROVE  IndexPhysicalOffset(t, p) = IndexBetweenArrays[t][p]
<1> DEFINE A == Layout[t].arrays
<1>1. Apart(A, SizeOf(t), t)
  BY ArraysApart
<1>2. p \in 0 .. SizeOf(t) /\ SizeOf(t) \in Nat
  BY TypeFacts
<1>3. Layout[t].p = SizeOf(t)
  BY TypesLaid DEF Own
<1> HIDE DEF A
<1>4. CASE DOMAIN A = {}
  <2>1. Inside(t, p) = {}
    BY <1>4 DEF Inside, A
  <2>2. IndexBetweenArrays[t][p] = [l |-> Compacted(A, p), p |-> p]
    BY <1>2, <2>1, IndexFacts DEF IndexAt, A
  <2>3. PICK a \in Nat : a = 0
    OBVIOUS
  <2>4. Compacted(A, p) = p
    <3>1. Compacted(A, a) = 0
      BY <1>1, <2>3, CompactedFacts
    <3>2. \A x \in DOMAIN A : ~(a <= x /\ x < a + p)
      BY <1>4
    <3>3. Compacted(A, a + p) = Compacted(A, a) + p
      BY <1>1, <3>2, CompactedGap
    <3> QED
      BY <2>3, <3>1, <3>3
  <2> QED
    BY <1>4, <2>2, <2>4 DEF IndexPhysicalOffset, A
<1>5. CASE DOMAIN A # {}
  <2>1. ~(p >= Layout[t].p)
    BY <1>2, <1>3
  <2> QED
    BY <1>5, <2>1 DEF IndexPhysicalOffset, A
<1> QED
  BY <1>4, <1>5

(* The objects of a block of type t are scalars in first elements, each    *)
(* kept under the layout offset of its field.                              *)
Objects(t, objs) ==
  /\ 0 \in DOMAIN objs /\ objs[0] = 0
  /\ \A l \in DOMAIN objs :
       \E c \in Scalars(t) :
         c.at = c.first /\ objs[l] = c.first /\ l = IndexBetweenArrays[t][c.first].l

(* objs2 has the objects of objs, and one for the scalar c.                *)
Extended(t, objs, objs2, c) ==
  /\ Objects(t, objs2)
  /\ DOMAIN objs \subseteq DOMAIN objs2
  /\ \A l \in DOMAIN objs : objs2[l] = objs[l]
  /\ IndexBetweenArrays[t][c.at].l \in DOMAIN objs2
  /\ objs2[IndexBetweenArrays[t][c.at].l] = c.first

(* What is known of a scalar part.                                         *)
LEMMA ScalarFacts ==
  ASSUME NEW t \in Types, Solid(t), NEW c \in Scalars(t)
  PROVE  /\ c.at \in Nat /\ c.first \in Nat /\ c.first <= c.at /\ c.at < SizeOf(t)
         /\ c.first < SizeOf(t)
         /\ IndexBetweenArrays[t][c.at].p = c.first
         /\ IndexBetweenArrays[t][c.first].l = IndexBetweenArrays[t][c.at].l
         /\ IndexBetweenArrays[t][c.at].l \in Own(t).elements
         /\ First(c) \in Scalars(t)
         /\ First(c).at = c.first /\ First(c).first = c.first /\ First(c).type = c.type
<1>1. c \in Parts[t] /\ ~IsAggregate(c.type)
  BY DEF Scalars
<1>2. /\ c.at \in Nat /\ c.first \in Nat /\ c.first <= c.at /\ c.at < SizeOf(t)
      /\ SizeOf(t) \in Nat
  BY <1>1, SolidParts, TypeFacts
<1>3. /\ IndexBetweenArrays[t][c.at].p = c.first
      /\ IndexBetweenArrays[t][c.first].l = IndexBetweenArrays[t][c.at].l
      /\ IndexBetweenArrays[t][c.at].l \in Own(t).elements
  BY ScalarsIndexed
<1>4. First(c).at = c.first /\ First(c).first = c.first /\ First(c).type = c.type
  BY DEF First
<1>5. First(c) \in Scalars(t)
  BY <1>1, <1>4, FirstsAreParts DEF Scalars
<1> QED
  BY <1>2, <1>3, <1>4, <1>5

(* A layout offset is that of one object, and an object has one.           *)
LEMMA ObjectsFacts ==
  ASSUME NEW t \in Types, Solid(t), NEW objs, Objects(t, objs), NEW l \in DOMAIN objs
  PROVE  /\ \A c \in Scalars(t) : IndexBetweenArrays[t][c.at].l = l => objs[l] = c.first
         /\ LayoutOffset(objs, objs[l]) = l
         /\ \A m \in DOMAIN objs : objs[l] = objs[m] => l = m
<1>1. PICK d \in Scalars(t) :
        d.at = d.first /\ objs[l] = d.first /\ l = IndexBetweenArrays[t][d.first].l
  BY DEF Objects
<1>2. \A c \in Scalars(t) : IndexBetweenArrays[t][c.at].l = l => objs[l] = c.first
  BY <1>1, ScalarsApart
<1>3. \A m \in DOMAIN objs : objs[l] = objs[m] => l = m
  <2> SUFFICES ASSUME NEW m \in DOMAIN objs, objs[l] = objs[m]
               PROVE  l = m
    OBVIOUS
  <2>1. PICK e \in Scalars(t) :
          e.at = e.first /\ objs[m] = e.first /\ m = IndexBetweenArrays[t][e.first].l
    BY DEF Objects
  <2> QED
    BY <1>1, <2>1
<1>4. LayoutOffset(objs, objs[l]) = l
  BY <1>3 DEF LayoutOffset
<1> QED
  BY <1>2, <1>3, <1>4

LEMMA IndexBlock ==
  ASSUME NEW t \in Types, Solid(t), IsAggregate(t), NEW objs, Objects(t, objs),
         NEW c \in Scalars(t)
  PROVE  LET r == IndexMemoryBlock(t, objs, c.at) IN
         r.object = c.first /\ Extended(t, objs, r.objs, c)
<1> DEFINE r == IndexMemoryBlock(t, objs, c.at)
           at == IndexBetweenArrays[t][c.at]
<1>1. /\ c.at \in Nat /\ c.first \in Nat /\ c.first <= c.at /\ c.at < SizeOf(t)
      /\ at.p = c.first /\ at.l \in Own(t).elements
      /\ IndexBetweenArrays[t][c.first].l = at.l
      /\ First(c) \in Scalars(t)
      /\ First(c).at = c.first /\ First(c).first = c.first
  BY ScalarFacts
<1>2. IndexPhysicalOffset(t, c.at) = at
  BY <1>1, IndexPhysicalOffsetFacts
<1>3. at.l \in Layout[t].elements
  BY <1>1 DEF Own
<1>4. r = IF c.at = 0 THEN [object |-> 0, objs |-> objs]
          ELSE IF at.l \in DOMAIN objs THEN [object |-> objs[at.l], objs |-> objs]
          ELSE [object |-> at.p,
                objs |-> [l \in DOMAIN objs \cup {at.l} |-> IF l = at.l THEN at.p ELSE objs[l]]]
  BY <1>2, <1>3 DEF IndexMemoryBlock, Slot, ObjectOffset
<1> HIDE DEF r, at
<1>5. CASE c.at = 0
  <2>1. at.l = 0 /\ c.first = 0
    BY <1>1, <1>5, IndexZero DEF at
  <2>2. r.object = 0 /\ r.objs = objs
    BY <1>4, <1>5
  <2>3. Extended(t, objs, objs, c)
    BY <2>1 DEF Extended, Objects, at
  <2> QED
    BY <2>1, <2>2, <2>3 DEF r
<1>6. CASE c.at # 0 /\ at.l \in DOMAIN objs
  <2>1. objs[at.l] = c.first
    BY <1>6, ObjectsFacts DEF at
  <2>2. r.object = c.first /\ r.objs = objs
    BY <1>4, <1>6, <2>1
  <2>3. Extended(t, objs, objs, c)
    BY <1>6, <2>1 DEF Extended, at
  <2> QED
    BY <2>2, <2>3 DEF r
<1>7. CASE c.at # 0 /\ at.l \notin DOMAIN objs
  <2>1. PICK new : new = [l \in DOMAIN objs \cup {at.l} |-> IF l = at.l THEN at.p ELSE objs[l]]
    OBVIOUS
  <2>2. r.object = c.first /\ r.objs = new
    BY <1>1, <1>4, <1>7, <2>1
  <2>3. /\ DOMAIN new = DOMAIN objs \cup {at.l} /\ new[at.l] = c.first
        /\ \A l \in DOMAIN objs : new[l] = objs[l]
    BY <1>1, <1>7, <2>1
  <2>4. Objects(t, new)
    BY <1>1, <2>3 DEF Objects
  <2>5. Extended(t, objs, new, c)
    BY <2>3, <2>4 DEF Extended, at
  <2> QED
    BY <2>2, <2>5 DEF r
<1> QED
  BY <1>5, <1>6, <1>7

(* Indexing a scalar finds the object of its field or creates it.          *)
LEMMA IndexObject ==
  ASSUME NEW t \in Types, Solid(t), NEW objs, Objects(t, objs), NEW c \in Scalars(t)
  PROVE  LET r == GetObjectAt(t, objs, c.at) IN
         r.object = c.first /\ Extended(t, objs, r.objs, c)
<1>1. CASE IsAggregate(t)
  BY <1>1, IndexBlock DEF GetObjectAt
<1>2. CASE ~IsAggregate(t)
  <2>1. c.at = 0 /\ c.first = 0
    BY <1>2, PartsOfScalar DEF Scalars, Whole
  <2>2. GetObjectAt(t, objs, c.at) = [object |-> 0, objs |-> objs]
    BY <1>2, <2>1 DEF GetObjectAt
  <2>3. IndexBetweenArrays[t][0].l = 0
    BY IndexZero
  <2>4. Extended(t, objs, objs, c)
    BY <2>1, <2>3 DEF Extended, Objects
  <2> QED
    BY <2>1, <2>2, <2>4
<1> QED
  BY <1>1, <1>2

(***************************************************************************)
(* Initialisers.                                                           *)
(***************************************************************************)
(* The walk over an initialiser, from those of its components.             *)
WalkStep(f, t) ==
  CASE Type[t].kind = "struct" ->
         WalkStruct(t, [i \in DOMAIN Type[t].fields |-> f[Type[t].fields[i]]])
    [] Type[t].kind = "array" -> WalkArray(t, f[Type[t].elem])
    [] OTHER -> [offset |-> SizeOf(t),
                 seen |-> {s \in {[offset |-> 0, at |-> 0]} : Type[t].kind = "pointer"}]

LEMMA WalkStepAgrees ==
  ASSUME NEW t \in Types, NEW f, NEW g,
         \A u \in Types : u < t => f[u] = g[u]
  PROVE  WalkStep(f, t) = WalkStep(g, t)
<1>1. CASE Type[t].kind = "struct"
  <2>1. [i \in DOMAIN Type[t].fields |-> f[Type[t].fields[i]]]
          = [i \in DOMAIN Type[t].fields |-> g[Type[t].fields[i]]]
    BY <1>1, Components
  <2> QED
    BY <1>1, <2>1 DEF WalkStep
<1>2. CASE Type[t].kind = "array"
  BY <1>2, Components DEF WalkStep
<1>3. CASE Type[t].kind \notin {"array", "struct"}
  BY <1>3 DEF WalkStep
<1> QED
  BY <1>1, <1>2, <1>3

LEMMA WalkExists ==
  \E f : f = [t \in Types |-> WalkStep(f, t)]
<1> DEFINE S == {k \in Nat : \E f : f = [t \in Below(k) |-> WalkStep(f, t)]}
<1>1. 0 \in S
  <2>1. [t \in {} |-> 0] = [t \in Below(0) |-> WalkStep([u \in {} |-> 0], t)]
    BY TypesAreNumbered
  <2> QED
    BY <2>1
<1>2. ASSUME NEW k \in Nat, k \in S
      PROVE  k + 1 \in S
  <2>1. PICK f : f = [t \in Below(k) |-> WalkStep(f, t)]
    BY <1>2
  <2>2. PICK g : g = [t \in Below(k + 1) |-> IF t = k + 1 THEN WalkStep(f, t) ELSE f[t]]
    OBVIOUS
  <2>3. ASSUME NEW t \in Below(k + 1)
        PROVE  g[t] = WalkStep(g, t)
    <3>1. t \in Types /\ t <= k + 1
      BY DEF Below
    <3>2. \A u \in Types : u < t => f[u] = g[u]
      BY <2>2, <3>1, TypesAreNumbered DEF Below
    <3>3. WalkStep(f, t) = WalkStep(g, t)
      BY <3>1, <3>2, WalkStepAgrees
    <3>4. g[t] = WalkStep(f, t)
      BY <2>1, <2>2, TypesAreNumbered
    <3> QED
      BY <3>3, <3>4
  <2>4. g = [t \in Below(k + 1) |-> g[t]]
    BY <2>2
  <2>5. g = [t \in Below(k + 1) |-> WalkStep(g, t)]
    BY <2>3, <2>4
  <2> QED
    BY <2>5
<1> HIDE DEF S
<1>3. Len(Type) \in S
  BY <1>1, <1>2, SetInduction, TypesAreNumbered
<1> QED
  BY <1>3, TypesAreNumbered DEF S

LEMMA WalkFacts ==
  ASSUME NEW t \in Types
  PROVE  Walk[t] = WalkStep(Walk, t)
<1>1. WalkOf = [u \in Types |-> WalkStep(WalkOf, u)]
  BY WalkExists DEF WalkOf, WalkStep
<1>2. WalkOf[t] = WalkStep(WalkOf, t)
  BY <1>1
<1>3. \A u \in Types : WalkOf[u] = Walk[u]
  BY DEF Walk
<1>4. WalkStep(WalkOf, t) = WalkStep(Walk, t)
  BY <1>3, WalkStepAgrees
<1> QED
  BY <1>2, <1>3, <1>4

(* Without padding, the offset of a field is the sum of the sizes of the   *)
(* fields in front of it.                                                  *)
LEMMA NoPadding ==
  ASSUME NEW t \in Types, Type[t].kind = "struct", ~HasPadding(t),
         NEW g, NEW i \in 1 .. Len(Type[t].fields),
         \A j \in 1 .. Len(Type[t].fields) : j < i => g[j] = SizeOf(Type[t].fields[j]),
         Offsets(t)[1] = 0
  PROVE  Total(i - 1, g) = Offsets(t)[i]
<1> DEFINE n == Len(Type[t].fields)
           size(j) == SizeOf(Type[t].fields[j])
           off(j) == Offsets(t)[j]
           h == [j \in DOMAIN Type[t].fields |-> SizeOf(Type[t].fields[j])]
           before(j) == Total(j - 1, h)
<1>1. /\ n \in Nat
      /\ \A j \in 1 .. n :
           /\ off(j) \in Nat /\ size(j) \in Nat /\ h[j] = size(j)
           /\ off(j) + size(j) <= SizeOf(t)
           /\ \A k \in 1 .. n : j < k => off(j) + size(j) <= off(k)
  BY StructFacts, TypeFacts
<1>2. SizeOf(t) = Total(n, h) /\ off(1) = 0
  BY DEF HasPadding
<1> HIDE DEF h, size, off, n
<1>3. \A j \in 0 .. n : /\ Total(j, h) \in Int
                        /\ j = 0 => Total(j, h) = 0
                        /\ j # 0 => Total(j, h) = Total(j - 1, h) + size(j)
  <2> SUFFICES ASSUME NEW j \in 0 .. n
               PROVE  /\ Total(j, h) \in Int
                      /\ j = 0 => Total(j, h) = 0
                      /\ j # 0 => Total(j, h) = Total(j - 1, h) + size(j)
    OBVIOUS
  <2>1. j \in Nat /\ \A k \in 1 .. j : k \in 1 .. n
    BY <1>1
  <2>2. \A k \in 1 .. j : h[k] = h[k] /\ h[k] \in Int
    BY <1>1, <2>1
  <2>3. /\ Total(j, h) \in Int
        /\ j = 0 => Total(j, h) = 0
        /\ j # 0 => Total(j, h) = Total(j - 1, h) + h[j]
    BY <2>1, <2>2, TotalFacts
  <2>4. j # 0 => h[j] = size(j)
    BY <1>1
  <2> QED
    BY <2>3, <2>4
<1> DEFINE S == {k \in Nat : k + 1 <= n =>
                   \A j \in 1 .. k + 1 :
                     before(j) <= off(j) /\ off(j) - before(j) <= off(k + 1) - before(k + 1)}
<1>4. \A j \in 1 .. n : /\ before(j) \in Int
                        /\ j + 1 <= n => before(j + 1) = before(j) + size(j)
  <2> SUFFICES ASSUME NEW j \in 1 .. n
               PROVE  /\ before(j) \in Int
                      /\ j + 1 <= n => before(j + 1) = before(j) + size(j)
    OBVIOUS
  <2>1. PICK m \in 0 .. n : m = j - 1
    BY <1>1
  <2>2. j \in 0 .. n /\ j # 0 /\ (j + 1) - 1 = j
    BY <1>1
  <2> QED
    BY <1>3, <2>1, <2>2
<1>5. before(1) = 0
  BY <1>1, <1>3
<1> HIDE DEF before
<1>6. 0 \in S
  <2>1. \A j \in 1 .. 0 + 1 : j = 1
    OBVIOUS
  <2> QED
    BY <1>2, <1>5, <2>1
<1>7. ASSUME NEW k \in Nat, k \in S
      PROVE  k + 1 \in S
  <2> SUFFICES ASSUME (k + 1) + 1 <= n, NEW j \in 1 .. (k + 1) + 1
               PROVE  /\ before(j) <= off(j)
                      /\ off(j) - before(j) <= off((k + 1) + 1) - before((k + 1) + 1)
    OBVIOUS
  <2>1. PICK m \in 1 .. n : m = k + 1
    BY <1>1
  <2>2. PICK q \in 1 .. n : q = m + 1
    BY <1>1, <2>1
  <2>3. \A x \in 1 .. m : before(x) <= off(x) /\ off(x) - before(x) <= off(m) - before(m)
    BY <1>1, <1>7, <2>1
  <2>4. off(m) + size(m) <= off(q) /\ before(q) = before(m) + size(m)
    BY <1>1, <1>4, <2>2
  <2>5. /\ off(m) \in Nat /\ off(q) \in Nat /\ size(m) \in Nat /\ before(m) \in Int
        /\ before(q) \in Int /\ m \in 1 .. m
    BY <1>1, <1>4
  <2>6. before(m) <= off(m)
    BY <2>3, <2>5
  <2>7. before(q) <= off(q) /\ off(m) - before(m) <= off(q) - before(q)
    BY <2>4, <2>5, <2>6
  <2>8. CASE j = q
    BY <2>1, <2>2, <2>5, <2>7, <2>8
  <2>9. CASE j # q
    <3>1. j \in 1 .. m /\ j \in 1 .. n
      BY <2>1, <2>2, <2>9, <1>1
    <3>2. before(j) \in Int /\ off(j) \in Nat
      BY <3>1, <1>1, <1>4
    <3>3. before(j) <= off(j) /\ off(j) - before(j) <= off(m) - before(m)
      BY <2>3, <3>1
    <3>4. off(j) - before(j) <= off(q) - before(q)
      BY <3>2, <3>3, <2>5, <2>7
    <3> QED
      BY <3>3, <3>4, <2>1, <2>2
  <2> QED
    BY <2>8, <2>9
<1> HIDE DEF S
<1>8. before(i) = off(i)
  <2>1. PICK k \in Nat : k = n - 1 /\ n \in 1 .. n
    <3>1. i \in 1 .. n
      BY DEF n
    <3> QED
      BY <3>1, <1>1
  <2>2. k \in S
    BY <1>6, <1>7, SetInduction
  <2>3. before(i) <= off(i) /\ off(i) - before(i) <= off(n) - before(n)
    <3>1. k + 1 = n /\ i \in 1 .. k + 1 /\ k + 1 <= n
      BY <1>1, <2>1 DEF n
    <3> QED
      BY <2>2, <3>1 DEF S
  <2>4. off(n) + size(n) <= SizeOf(t) /\ SizeOf(t) = before(n) + size(n)
    <3>1. n \in 0 .. n /\ n # 0
      BY <2>1
    <3> QED
      BY <1>1, <1>2, <1>3, <2>1, <3>1 DEF before
  <2>5. /\ off(n) \in Nat /\ size(n) \in Nat /\ before(n) \in Int /\ before(i) \in Int
        /\ off(i) \in Nat
    BY <1>1, <1>4, <2>1 DEF n
  <2> QED
    BY <2>3, <2>4, <2>5
<1>9. Total(i - 1, g) = before(i)
  <2>1. PICK m \in Nat : m = i - 1
    OBVIOUS
  <2>2. \A k \in 1 .. m : h[k] = g[k] /\ h[k] \in Int
    <3>1. \A k \in 1 .. m : k \in 1 .. n /\ k < i
      BY <2>1, <1>1 DEF n
    <3>2. \A k \in 1 .. m : g[k] = size(k)
      BY <3>1 DEF n, size
    <3> QED
      BY <3>1, <3>2, <1>1
  <2>3. Total(m, h) = Total(m, g)
    BY <2>2, TotalFacts
  <2> QED
    BY <2>1, <2>3 DEF before
<1> QED
  BY <1>8, <1>9 DEF off

(* The pointers in a type.                                                 *)
Pointers(t) == {c \in Parts[t] : Type[c.type].kind = "pointer"}

(* What an initialiser has an address for, at the offset that is counted.  *)
Addresses(t) == {[offset |-> c.at, at |-> c.at] : c \in Pointers(t)}

LEMMA BoundedArray ==
  ASSUME NEW t \in Types, Type[t].kind = "array", SizeOf(t) < SizeMax
  PROVE  SizeOf(t) = Counted(t) * SizeOf(Type[t].elem)
<1>1. SizeOf(t) = IF Type[t].count = SizeMax THEN SizeMax
                  ELSE Type[t].count * SizeOf(Type[t].elem)
  BY TypeAssumption
<1>2. SizeMax \in Nat
  BY TypeFacts
<1>3. Type[t].count # SizeMax
  BY <1>1, <1>2
<1> QED
  BY <1>1, <1>3 DEF Counted

LEMMA SeenMoved ==
  ASSUME NEW t \in Types, NEW d \in Nat
  PROVE  Seen(Addresses(t), d, d) = {[offset |-> d + c.at, at |-> d + c.at] : c \in Pointers(t)}
<1>1. \A c : [offset |-> c.at, at |-> c.at].offset = c.at /\ [offset |-> c.at, at |-> c.at].at = c.at
  OBVIOUS
<1>2. ASSUME NEW x \in Seen(Addresses(t), d, d)
      PROVE  \E c \in Pointers(t) : x = [offset |-> d + c.at, at |-> d + c.at]
  <2>1. PICK s \in Addresses(t) : x = [offset |-> d + s.offset, at |-> d + s.at]
    BY <1>2 DEF Seen
  <2>2. PICK c \in Pointers(t) : s = [offset |-> c.at, at |-> c.at]
    BY DEF Addresses
  <2> QED
    BY <1>1, <2>1, <2>2
<1>3. ASSUME NEW c \in Pointers(t)
      PROVE  [offset |-> d + c.at, at |-> d + c.at] \in Seen(Addresses(t), d, d)
  <2>1. [offset |-> c.at, at |-> c.at] \in Addresses(t)
    BY DEF Addresses
  <2> QED
    BY <1>1, <2>1 DEF Seen
<1> QED
  BY <1>2, <1>3

(* A walk counts the offset of every pointer right and leaves out none.    *)
LEMMA WalkSeen ==
  ASSUME NEW t \in Types, Solid(t)
  PROVE  Walk[t].seen = Addresses(t)
<1> DEFINE Good(u) == /\ Walk[u].seen = Addresses(u) /\ Walk[u].offset \in Nat
                      /\ SizeOf(u) < SizeMax => Walk[u].offset = SizeOf(u)
           S == {u \in Types : Solid(u) => Good(u)}
<1>1. ASSUME NEW u \in Types, \A v \in Types : v < u => v \in S
      PROVE  u \in S
  <2> SUFFICES ASSUME Solid(u)
               PROVE  Good(u)
    OBVIOUS
  <2>1. SizeOf(u) \in Nat /\ SizeMax \in Nat /\ SizeOf(u) <= SizeMax /\ SizeOf(u) > 0
    BY TypeFacts, SolidFacts
  <2>2. CASE Type[u].kind = "struct"
    <3> DEFINE n == Len(Type[u].fields)
               field(i) == Type[u].fields[i]
               off(i) == Offsets(u)[i]
               inner == [i \in DOMAIN Type[u].fields |-> Walk[Type[u].fields[i]]]
               offs == [j \in DOMAIN Type[u].fields |-> inner[j].offset]
               counted(i) == IF HasPadding(u) THEN Offsets(u)[i] ELSE Total(i - 1, offs)
    <3>1. Walk[u] = [offset |-> SizeOf(u),
                     seen |-> UNION {Seen(inner[i].seen, counted(i), off(i)) :
                                       i \in DOMAIN Type[u].fields}]
      BY <2>2, WalkFacts DEF WalkStep, WalkStruct
    <3>2. /\ n \in Nat /\ DOMAIN Type[u].fields = 1 .. n /\ off(1) = 0
          /\ \A i \in 1 .. n :
               /\ field(i) \in Types /\ field(i) < u /\ Solid(field(i))
               /\ off(i) \in Nat /\ SizeOf(field(i)) \in Nat /\ SizeOf(field(i)) > 0
               /\ off(i) + SizeOf(field(i)) <= SizeOf(u)
               /\ inner[i] = Walk[field(i)]
               /\ offs[i] = Walk[field(i)].offset
               /\ \A j \in 1 .. n : i < j => off(i) + SizeOf(field(i)) <= off(j)
      <4>1. /\ n \in Nat /\ DOMAIN Type[u].fields = 1 .. n
            /\ \A i \in 1 .. n :
                 /\ field(i) \in Types /\ field(i) < u /\ off(i) \in Nat
                 /\ off(i) + SizeOf(field(i)) <= SizeOf(u)
                 /\ \A j \in 1 .. n : i < j => off(i) + SizeOf(field(i)) <= off(j)
        BY <2>2, StructFacts
      <4>2. off(1) = 0 /\ \A i \in 1 .. n : Solid(field(i)) /\ SizeOf(field(i)) > 0
        BY <2>2, SolidFacts
      <4>3. \A i \in 1 .. n : inner[i] = Walk[field(i)] /\ offs[i] = Walk[field(i)].offset
        BY <4>1
      <4> HIDE DEF n, field, off, inner, offs
      <4>4. \A v \in Types : SizeOf(v) \in Nat
        BY TypeFacts
      <4> QED
        BY <4>1, <4>2, <4>3, <4>4
    <3>3. ASSUME NEW i \in 1 .. n
          PROVE  counted(i) = off(i)
      <4>1. CASE HasPadding(u)
        BY <4>1
      <4>2. CASE ~HasPadding(u)
        <5>1. ASSUME NEW j \in 1 .. n, j < i
              PROVE  offs[j] = SizeOf(field(j))
          <6> HIDE DEF n, field, off, inner, offs
          <6>1. SizeOf(field(j)) < SizeMax
            BY <5>1, <3>2, <2>1
          <6>2. Good(field(j))
            BY <3>2, <1>1
          <6> QED
            BY <6>1, <6>2, <3>2
        <5>2. counted(i) = Total(i - 1, offs)
          BY <4>2
        <5>3. off(1) = 0
          BY <3>2
        <5> HIDE DEF offs, counted
        <5>4. \A j \in 1 .. Len(Type[u].fields) : j < i => offs[j] = SizeOf(Type[u].fields[j])
          BY <5>1
        <5> QED
          BY <5>2, <5>3, <5>4, <4>2, <2>2, NoPadding
      <4> QED
        BY <4>1, <4>2
    <3> HIDE DEF n, field, off, inner, offs, counted
    <3>4. \A i \in 1 .. n : Seen(inner[i].seen, counted(i), off(i))
                              = {[offset |-> off(i) + c.at, at |-> off(i) + c.at] : c \in Pointers(field(i))}
      <4> SUFFICES ASSUME NEW i \in 1 .. n
                   PROVE  Seen(inner[i].seen, counted(i), off(i))
                            = {[offset |-> off(i) + c.at, at |-> off(i) + c.at] : c \in Pointers(field(i))}
        OBVIOUS
      <4>1. PICK d, f : d = off(i) /\ f = field(i)
        OBVIOUS
      <4>2. d \in Nat /\ f \in Types /\ f < u /\ Solid(f) /\ counted(i) = d
            /\ inner[i] = Walk[f]
        BY <3>2, <3>3, <4>1
      <4>3. Walk[f].seen = Addresses(f)
        BY <1>1, <4>2
      <4>4. Seen(Addresses(f), d, d) = {[offset |-> d + c.at, at |-> d + c.at] : c \in Pointers(f)}
        BY <4>2, SeenMoved
      <4> QED
        BY <4>1, <4>2, <4>3, <4>4
    <3>5. Walk[u].seen = UNION {Seen(inner[i].seen, counted(i), off(i)) : i \in 1 .. n}
          /\ Walk[u].offset = SizeOf(u)
      BY <3>1, <3>2
    <3>6. ASSUME NEW x
          PROVE  x \in Walk[u].seen <=>
                   \E i \in 1 .. n : \E c \in Pointers(field(i)) :
                     x = [offset |-> off(i) + c.at, at |-> off(i) + c.at]
      BY <3>4, <3>5
    <3>7. ASSUME NEW i \in 1 .. n, NEW c \in Pointers(field(i))
          PROVE  [offset |-> off(i) + c.at, at |-> off(i) + c.at] \in Addresses(u)
      <4>1. Moved(c, off(i), off(i)) \in Parts[u]
        BY <2>2, PartsOfStruct DEF Pointers, n, field, off
      <4>2. Moved(c, off(i), off(i)).at = off(i) + c.at /\ Moved(c, off(i), off(i)).type = c.type
        BY MovedFacts
      <4>3. Moved(c, off(i), off(i)) \in Pointers(u)
        BY <4>1, <4>2 DEF Pointers
      <4> QED
        BY <4>2, <4>3 DEF Addresses
    <3>8. ASSUME NEW b \in Pointers(u)
          PROVE  \E i \in 1 .. n : \E c \in Pointers(field(i)) : b.at = off(i) + c.at
      <4>1. b \in Parts[u] /\ b # Whole(u)
        BY <2>2 DEF Pointers, Whole
      <4>2. PICK i \in 1 .. n : \E c \in Parts[field(i)] : b = Moved(c, off(i), off(i))
        BY <4>1, <2>2, PartsOfStruct DEF n, field, off
      <4>3. PICK c \in Parts[field(i)] : b = Moved(c, off(i), off(i))
        BY <4>2
      <4>4. b.at = off(i) + c.at /\ b.type = c.type
        BY <4>3, MovedFacts
      <4>5. c \in Pointers(field(i))
        BY <4>4 DEF Pointers
      <4> QED
        BY <4>4, <4>5
    <3>9. Walk[u].seen = Addresses(u)
      <4>1. \A x \in Walk[u].seen : x \in Addresses(u)
        BY <3>6, <3>7
      <4>2. ASSUME NEW x \in Addresses(u)
            PROVE  x \in Walk[u].seen
        <5>1. PICK b \in Pointers(u) : x = [offset |-> b.at, at |-> b.at]
          BY DEF Addresses
        <5>2. \E i \in 1 .. n : \E c \in Pointers(field(i)) : b.at = off(i) + c.at
          BY <3>8
        <5> QED
          BY <5>1, <5>2, <3>6
      <4>3. Walk[u].seen \subseteq Addresses(u) /\ Addresses(u) \subseteq Walk[u].seen
        BY <4>1, <4>2
      <4> QED
        BY <4>3
    <3> QED
      BY <3>5, <3>9, <2>1
  <2>3. CASE Type[u].kind = "array"
    <3> DEFINE e == Type[u].elem
               s == SizeOf(e)
               w == Walk[e].offset
               m == Counted(u)
    <3>1. /\ e = Type[u].elem /\ s = SizeOf(e) /\ w = Walk[e].offset
          /\ m = Counted(u)
      OBVIOUS
    <3>4. Walk[u] = [offset |-> m * w,
                     seen |-> UNION {Seen(Walk[e].seen, n * w, n * s) : n \in 0 .. m - 1}]
      BY <2>3, WalkFacts DEF WalkStep, WalkArray
    <3> HIDE DEF e, s, w, m
    <3>2. /\ e \in Types /\ e < u /\ Solid(e) /\ s \in Nat /\ s > 0 /\ s <= SizeMax
          /\ m \in Nat /\ m >= 1
      BY <2>3, <3>1, ArrayFacts, SolidFacts, TypeFacts
    <3>3. Good(e)
      BY <1>1, <3>2
    <3>5. \A n \in 0 .. m - 1 : n \in Nat /\ n * s \in Nat /\ n * s + s <= SizeOf(u)
      BY <2>3, <3>1, ElementFacts
    <3>6. ASSUME NEW n \in 0 .. m - 1
          PROVE  n * w = n * s
      <4>1. CASE s < SizeMax
        BY <4>1, <3>1, <3>3
      <4>2. CASE s = SizeMax
        <5>1. n * s = 0 /\ n \in Nat
          BY <4>2, <3>2, <3>5, <2>1
        <5>2. n * s + 0 = 0 * s + 0
          BY <5>1, <3>2
        <5>3. n = 0
          BY <5>1, <5>2, <3>2, Digits
        <5>4. w \in Nat
          BY <3>1, <3>3
        <5> QED
          BY <5>3, <5>4, <3>2
      <4> QED
        BY <4>1, <4>2, <3>2, <2>1
    <3>7. /\ Walk[u].offset = m * w
          /\ Walk[u].seen = UNION {Seen(Walk[e].seen, n * w, n * s) : n \in 0 .. m - 1}
      BY <3>4
    <3>8. m * w \in Nat
      <4>1. w \in Nat
        BY <3>1, <3>3
      <4> HIDE <3>1, <3>3
      <4> QED
        BY <3>2, <4>1, Z3
    <3>9. ASSUME SizeOf(u) < SizeMax
          PROVE  m * w = SizeOf(u)
      <4>1. SizeOf(u) = m * s
        BY <3>9, <2>3, <3>1, BoundedArray
      <4>2. 0 \in 0 .. m - 1 /\ 0 * s = 0
        BY <3>2
      <4>3. s < SizeMax
        BY <4>2, <3>2, <3>5, <3>9, <2>1
      <4>4. w = s
        BY <4>3, <3>1, <3>3
      <4> QED
        BY <4>1, <4>4
    <3>10. ASSUME NEW n \in 0 .. m - 1
           PROVE  Seen(Walk[e].seen, n * w, n * s)
                    = {[offset |-> n * s + c.at, at |-> n * s + c.at] : c \in Pointers(e)}
      <4>1. PICK d \in Nat : d = n * s
        BY <3>5
      <4>2. Seen(Addresses(e), d, d) = {[offset |-> d + c.at, at |-> d + c.at] : c \in Pointers(e)}
        BY <3>2, SeenMoved
      <4> QED
        BY <4>1, <4>2, <3>3, <3>6
    <3>11. ASSUME NEW x
           PROVE  x \in Walk[u].seen <=>
                    \E n \in 0 .. m - 1 : \E c \in Pointers(e) :
                      x = [offset |-> n * s + c.at, at |-> n * s + c.at]
      BY <3>7, <3>10
    <3>12. ASSUME NEW n \in 0 .. m - 1, NEW c \in Pointers(e)
           PROVE  [offset |-> n * s + c.at, at |-> n * s + c.at] \in Addresses(u)
      <4>1. Moved(c, n * s, 0) \in Parts[u]
        BY <2>3, <3>1, PartsOfArray DEF Pointers
      <4>2. Moved(c, n * s, 0).at = n * s + c.at /\ Moved(c, n * s, 0).type = c.type
        BY MovedFacts
      <4>3. Moved(c, n * s, 0) \in Pointers(u)
        BY <4>1, <4>2 DEF Pointers
      <4> QED
        BY <4>2, <4>3 DEF Addresses
    <3>13. ASSUME NEW b \in Pointers(u)
           PROVE  \E n \in 0 .. m - 1 : \E c \in Pointers(e) : b.at = n * s + c.at
      <4>1. b \in Parts[u] /\ b # Whole(u)
        BY <2>3 DEF Pointers, Whole
      <4>2. PICK n \in 0 .. m - 1 : \E c \in Parts[e] : b = Moved(c, n * s, 0)
        BY <4>1, <2>3, <3>1, PartsOfArray
      <4>3. PICK c \in Parts[e] : b = Moved(c, n * s, 0)
        BY <4>2
      <4>4. b.at = n * s + c.at /\ b.type = c.type
        BY <4>3, MovedFacts
      <4>5. c \in Pointers(e)
        BY <4>4 DEF Pointers
      <4> QED
        BY <4>4, <4>5
    <3>14. Walk[u].seen = Addresses(u)
      <4>1. \A x \in Walk[u].seen : x \in Addresses(u)
        BY <3>11, <3>12
      <4>2. ASSUME NEW x \in Addresses(u)
            PROVE  x \in Walk[u].seen
        <5>1. PICK b \in Pointers(u) : x = [offset |-> b.at, at |-> b.at]
          BY DEF Addresses
        <5>2. \E n \in 0 .. m - 1 : \E c \in Pointers(e) : b.at = n * s + c.at
          BY <3>13
        <5> QED
          BY <5>1, <5>2, <3>11
      <4>3. Walk[u].seen \subseteq Addresses(u) /\ Addresses(u) \subseteq Walk[u].seen
        BY <4>1, <4>2
      <4> QED
        BY <4>3
    <3> QED
      BY <3>7, <3>8, <3>9, <3>14
  <2>4. CASE ~IsAggregate(u)
    <3>1. Walk[u] = [offset |-> SizeOf(u),
                     seen |-> {s \in {[offset |-> 0, at |-> 0]} : Type[u].kind = "pointer"}]
      BY <2>4, WalkFacts DEF WalkStep, IsAggregate
    <3>2. Walk[u].offset = SizeOf(u)
          /\ Walk[u].seen = {s \in {[offset |-> 0, at |-> 0]} : Type[u].kind = "pointer"}
      BY <3>1
    <3>3. Parts[u] = {Whole(u)} /\ Whole(u).at = 0 /\ Whole(u).type = u
      BY <2>4, PartsOfScalar DEF Whole
    <3>4. Pointers(u) = {c \in {Whole(u)} : Type[u].kind = "pointer"}
      BY <3>3 DEF Pointers
    <3>5. Addresses(u) = {s \in {[offset |-> 0, at |-> 0]} : Type[u].kind = "pointer"}
      BY <3>3, <3>4 DEF Addresses
    <3> QED
      BY <3>2, <3>5, <2>1
  <2> QED
    BY <2>2, <2>3, <2>4 DEF IsAggregate
<1> HIDE DEF S
<1>2. t \in S
  BY <1>1, TypeInduction
<1> QED
  BY <1>2 DEF S

(* What is stored once the initialiser of a global of type t has been      *)
(* walked up to offset n: for every pointer its address, in its object.    *)
Addressed(t, objs, st, n) ==
  /\ \A s : s \in st <=>
       \E c \in Pointers(t) : c.at < n /\ s = <<IndexBetweenArrays[t][c.at].l, c.at>>
  /\ \A c \in Pointers(t) : c.at < n => IndexBetweenArrays[t][c.at].l \in DOMAIN objs

(* The objects of a new block, and the steps of its initialisation.        *)
NewBlock == [objs |-> [l \in {0} |-> 0], stored |-> {}]

SeenAt(t, n) == {s \in Walk[t].seen : s.at = n}

InitStep(t, b, n) ==
  IF SeenAt(t, n - 1) = {} THEN b ELSE Store(t, b, CHOOSE s \in SeenAt(t, n - 1) : TRUE)

LEMMA BlocksExist ==
  ASSUME NEW t, NEW n \in Nat
  PROVE  \E f : f = [k \in 0 .. n |-> IF k = 0 THEN NewBlock ELSE InitStep(t, f[k - 1], k)]
<1> DEFINE S == {m \in Nat : \E f : f = [k \in 0 .. m |-> IF k = 0 THEN NewBlock
                                                      ELSE InitStep(t, f[k - 1], k)]}
<1>1. 0 \in S
  <2>1. PICK f : f = [k \in 0 .. 0 |-> NewBlock]
    OBVIOUS
  <2>2. f = [k \in 0 .. 0 |-> IF k = 0 THEN NewBlock ELSE InitStep(t, f[k - 1], k)]
    BY <2>1
  <2> QED
    BY <2>2
<1>2. ASSUME NEW m \in Nat, m \in S
      PROVE  m + 1 \in S
  <2>1. PICK f : f = [k \in 0 .. m |-> IF k = 0 THEN NewBlock ELSE InitStep(t, f[k - 1], k)]
    BY <1>2
  <2>2. PICK h : h = [k \in 0 .. m + 1 |-> IF k = m + 1 THEN InitStep(t, f[m], m + 1) ELSE f[k]]
    OBVIOUS
  <2>3. ASSUME NEW k \in 0 .. m + 1
        PROVE  h[k] = IF k = 0 THEN NewBlock ELSE InitStep(t, h[k - 1], k)
    <3>1. CASE k = m + 1
      BY <3>1, <2>2
    <3>2. CASE k = 0
      BY <3>2, <2>1, <2>2
    <3>3. CASE k \in 1 .. m
      <4>1. h[k] = f[k] /\ h[k - 1] = f[k - 1]
        BY <3>3, <2>2
      <4>2. f[k] = InitStep(t, f[k - 1], k)
        BY <3>3, <2>1
      <4> QED
        BY <3>3, <4>1, <4>2
    <3> QED
      BY <3>1, <3>2, <3>3
  <2>4. h = [k \in 0 .. m + 1 |-> h[k]]
    BY <2>2
  <2>5. h = [k \in 0 .. m + 1 |-> IF k = 0 THEN NewBlock ELSE InitStep(t, h[k - 1], k)]
    BY <2>3, <2>4
  <2> QED
    BY <2>5
<1> HIDE DEF S
<1>3. n \in S
  BY <1>1, <1>2, SetInduction
<1> QED
  BY <1>3 DEF S

LEMMA InitialisedPrefixes ==
  ASSUME NEW t \in Types
  PROVE  \E f : /\ f[0] = NewBlock
                /\ \A k \in 1 .. SizeOf(t) : f[k] = InitStep(t, f[k - 1], k)
                /\ Initialised(t) = f[SizeOf(t)]
<1> DEFINE n == SizeOf(t)
           Pre(f) == f = [k \in 0 .. n |-> IF k = 0 THEN NewBlock ELSE InitStep(t, f[k - 1], k)]
           a == CHOOSE f : Pre(f)
<1>1. n \in Nat
  BY TypeFacts
<1>2. Initialised(t) = a[n]
  BY DEF Initialised, NewBlock, InitStep, SeenAt
<1>3. \E f : Pre(f)
  BY <1>1, BlocksExist
<1>4. Pre(a)
  BY <1>3, Zenon
<1> HIDE DEF a
<1>5. a = [k \in 0 .. n |-> IF k = 0 THEN NewBlock ELSE InitStep(t, a[k - 1], k)]
  BY <1>4
<1> HIDE DEF n, Pre
<1>6. a[0] = NewBlock /\ \A k \in 1 .. n : a[k] = InitStep(t, a[k - 1], k)
  BY <1>1, <1>5
<1> QED
  BY <1>2, <1>6 DEF n

LEMMA NewObjects ==
  ASSUME NEW t \in Types, Solid(t)
  PROVE  Objects(t, [l \in {0} |-> 0])
<1>1. PICK c \in Scalars(t) : c.at = 0 /\ c.first = 0
  BY StartsWithScalar
<1>2. IndexBetweenArrays[t][0].l = 0
  BY IndexZero
<1> QED
  BY <1>1, <1>2 DEF Objects

(* An address that is stored is in the object of its pointer.              *)
LEMMA StoreFacts ==
  ASSUME NEW t \in Types, Solid(t), NEW b, Objects(t, b.objs), NEW c \in Pointers(t),
         NEW a, a = [offset |-> c.at, at |-> c.at]
  PROVE  /\ Extended(t, b.objs, Store(t, b, a).objs, c)
         /\ Store(t, b, a).stored = b.stored \cup {<<IndexBetweenArrays[t][c.at].l, c.at>>}
<1>1. c \in Scalars(t)
  BY DEF Pointers, Scalars, IsAggregate
<1>2. PICK r : r = GetObjectAt(t, b.objs, c.at)
  OBVIOUS
<1>3. r.object = c.first /\ Extended(t, b.objs, r.objs, c)
  BY <1>1, <1>2, IndexObject
<1>4. c.first # Lost
  BY <1>1, ScalarFacts DEF Lost
<1>5. LayoutOffset(r.objs, c.first) = IndexBetweenArrays[t][c.at].l
  <2>1. PICK l : l = IndexBetweenArrays[t][c.at].l
    OBVIOUS
  <2>2. l \in DOMAIN r.objs /\ r.objs[l] = c.first /\ Objects(t, r.objs)
    BY <1>3, <2>1 DEF Extended
  <2> QED
    BY <2>1, <2>2, ObjectsFacts
<1>6. a.offset = c.at /\ a.at = c.at
  OBVIOUS
<1>7. /\ Store(t, b, a).objs = r.objs
      /\ Store(t, b, a).stored = b.stored \cup
           {<<IF r.object = Lost THEN Lost ELSE LayoutOffset(r.objs, r.object), a.at>>}
  BY <1>2, <1>6 DEF Store
<1> QED
  BY <1>3, <1>4, <1>5, <1>6, <1>7

(* After the initialiser all pointers have their addresses.                *)
LEMMA InitialisedFacts ==
  ASSUME NEW t \in Types, Solid(t)
  PROVE  /\ Objects(t, Initialised(t).objs)
         /\ Addressed(t, Initialised(t).objs, Initialised(t).stored, SizeOf(t))
<1>1. PICK f : /\ f[0] = NewBlock
               /\ \A k \in 1 .. SizeOf(t) : f[k] = InitStep(t, f[k - 1], k)
               /\ Initialised(t) = f[SizeOf(t)]
  BY InitialisedPrefixes
<1>2. SizeOf(t) \in Nat /\ \A c \in Pointers(t) : c \in Scalars(t) /\ c.at \in Nat
  BY TypeFacts, ScalarFacts DEF Pointers, Scalars, IsAggregate
<1> DEFINE Good(b, k) == Objects(t, b.objs) /\ Addressed(t, b.objs, b.stored, k)
           S == {k \in Nat : k <= SizeOf(t) => Good(f[k], k)}
<1>3. 0 \in S
  <2>1. f[0].objs = [l \in {0} |-> 0] /\ f[0].stored = {}
    BY <1>1 DEF NewBlock
  <2>2. Objects(t, f[0].objs)
    BY <2>1, NewObjects
  <2>3. \A c \in Pointers(t) : ~(c.at < 0)
    BY <1>2
  <2> QED
    BY <2>1, <2>2, <2>3 DEF Addressed
<1>4. ASSUME NEW k \in Nat, k \in S
      PROVE  k + 1 \in S
  <2> SUFFICES ASSUME k + 1 <= SizeOf(t)
               PROVE  Good(f[k + 1], k + 1)
    OBVIOUS
  <2>1. PICK m \in 1 .. SizeOf(t) : m = k + 1 /\ m - 1 = k
    BY <1>2
  <2>2. PICK b : b = f[k]
    OBVIOUS
  <2>3. Good(b, k)
    BY <1>2, <1>4, <2>1, <2>2
  <2>4. f[m] = InitStep(t, b, m) /\ SeenAt(t, m - 1) = SeenAt(t, k)
    BY <1>1, <2>1, <2>2
  <2>5. \A s : s \in SeenAt(t, k) <=> \E c \in Pointers(t) : c.at = k /\ s = [offset |-> c.at, at |-> c.at]
    BY WalkSeen DEF SeenAt, Addresses
  <2>6. CASE SeenAt(t, k) = {}
    <3>1. f[m] = b
      BY <2>4, <2>6 DEF InitStep
    <3>2. \A c \in Pointers(t) : c.at < k + 1 <=> c.at < k
      <4>1. \A c \in Pointers(t) : c.at # k
        BY <2>5, <2>6
      <4> QED
        BY <4>1, <1>2
    <3>3. Addressed(t, b.objs, b.stored, k + 1)
      BY <2>3, <3>2 DEF Addressed
    <3> QED
      BY <2>1, <2>3, <3>1, <3>3
  <2>7. CASE SeenAt(t, k) # {}
    <3>1. PICK a : a = CHOOSE s \in SeenAt(t, k) : TRUE
      OBVIOUS
    <3>2. a \in SeenAt(t, k)
      BY <3>1, <2>7
    <3>3. PICK c \in Pointers(t) : c.at = k /\ a = [offset |-> c.at, at |-> c.at]
      BY <3>2, <2>5
    <3>4. PICK x : x = Store(t, b, a)
      OBVIOUS
    <3>5. f[m] = x
      BY <2>4, <2>7, <3>1, <3>4 DEF InitStep
    <3>6. /\ Extended(t, b.objs, x.objs, c)
          /\ x.stored = b.stored \cup {<<IndexBetweenArrays[t][c.at].l, c.at>>}
      BY <2>3, <3>3, <3>4, StoreFacts
    <3>7. \A d \in Pointers(t) : d.at < k + 1 <=> d.at < k \/ d = c
      <4>1. \A d \in Pointers(t) : d.at = k => d = c
        BY <1>2, <3>3, ScalarsUnique
      <4> QED
        BY <4>1, <1>2, <3>3
    <3>8. Addressed(t, x.objs, x.stored, k + 1)
      <4>1. \A s : s \in x.stored <=>
              \E d \in Pointers(t) : d.at < k + 1 /\ s = <<IndexBetweenArrays[t][d.at].l, d.at>>
        <5>1. \A s : s \in b.stored <=>
                \E d \in Pointers(t) : d.at < k /\ s = <<IndexBetweenArrays[t][d.at].l, d.at>>
          BY <2>3 DEF Addressed
        <5> QED
          BY <5>1, <3>6, <3>7
      <4>2. \A d \in Pointers(t) : d.at < k + 1 => IndexBetweenArrays[t][d.at].l \in DOMAIN x.objs
        <5>1. \A d \in Pointers(t) : d.at < k => IndexBetweenArrays[t][d.at].l \in DOMAIN b.objs
          BY <2>3 DEF Addressed
        <5>2. /\ DOMAIN b.objs \subseteq DOMAIN x.objs
              /\ IndexBetweenArrays[t][c.at].l \in DOMAIN x.objs
          BY <3>6 DEF Extended
        <5> QED
          BY <5>1, <5>2, <3>7
      <4> QED
        BY <4>1, <4>2 DEF Addressed
    <3> QED
      BY <2>1, <3>5, <3>6, <3>8 DEF Extended
  <2> QED
    BY <2>6, <2>7
<1> HIDE DEF S
<1>5. SizeOf(t) \in S
  BY <1>2, <1>3, <1>4, SetInduction
<1>6. Good(f[SizeOf(t)], SizeOf(t))
  BY <1>2, <1>5 DEF S
<1> QED
  BY <1>1, <1>6

(***************************************************************************)
(* The invariant.                                                          *)
(***************************************************************************)
(* Parts have no empty parts.                                              *)
LEMMA PartsSolid ==
  ASSUME NEW t \in Types, Solid(t), NEW c \in Parts[t]
  PROVE  c.type \in Types /\ c.type <= t /\ Solid(c.type)
<1>1. ASSUME NEW d \in Parts[c.type]
      PROVE  SizeOf(d.type) > 0
  <2>1. Moved(d, c.at, c.first) \in Parts[t] /\ Moved(d, c.at, c.first).type = d.type
    BY PartsOfParts, MovedFacts
  <2> QED
    BY <2>1 DEF Solid
<1> QED
  BY <1>1, PartsTyped DEF Solid

(* The elements of an array in a block, and those of its first element.    *)
LEMMA ElementsAreParts ==
  ASSUME NEW t \in Types, Solid(t), NEW c \in Parts[t], Type[c.type].kind = "array",
         NEW n \in 0 .. Counted(c.type) - 1
  PROVE  LET e == Type[c.type].elem
             a == n * SizeOf(e)
         IN /\ a \in Nat /\ c.at \in Nat /\ c.first \in Nat
            /\ \E x \in Parts[t] : x.at = c.at + a /\ x.first = c.first /\ x.type = e
            /\ \E x \in Parts[t] : x.at = c.first + a /\ x.first = c.first /\ x.type = e
<1>1. PICK e, a : e = Type[c.type].elem /\ a = n * SizeOf(e)
  OBVIOUS
<1>2. /\ c.type \in Types /\ Solid(c.type) /\ c.at \in Nat /\ c.first \in Nat
  BY PartsSolid, SolidParts
<1>3. e \in Types /\ a \in Nat
  BY <1>1, <1>2, ArrayFacts, ElementFacts
<1>4. Whole(e) \in Parts[e] /\ Whole(e).at = 0 /\ Whole(e).first = 0 /\ Whole(e).type = e
  BY <1>3, PartsFacts DEF PartsStep, Whole
<1>5. PICK d : d = Moved(Whole(e), a, 0)
  OBVIOUS
<1>6. d \in Parts[c.type]
  BY <1>1, <1>2, <1>4, <1>5, PartsOfArray
<1>7. d.at = a /\ d.first = 0 /\ d.type = e
  BY <1>3, <1>4, <1>5, MovedFacts
<1>8. /\ Moved(d, c.at, c.first) \in Parts[t]
      /\ Moved(d, c.first, c.first) \in Parts[t]
  <2>1. First(c) \in Parts[t] /\ First(c).type = c.type /\ First(c).at = c.first /\ First(c).first = c.first
    BY FirstsAreParts DEF First
  <2> QED
    BY <2>1, <1>6, PartsOfParts
<1>9. /\ Moved(d, c.at, c.first).at = c.at + a /\ Moved(d, c.at, c.first).first = c.first
      /\ Moved(d, c.at, c.first).type = e
      /\ Moved(d, c.first, c.first).at = c.first + a /\ Moved(d, c.first, c.first).first = c.first
      /\ Moved(d, c.first, c.first).type = e
  BY <1>2, <1>7, MovedFacts
<1> QED
  BY <1>1, <1>2, <1>3, <1>8, <1>9

(* The object of a pointer is the part at its offset, in first elements.   *)
Found(t, p, o) == \E c \in Parts[t] : c.at = p /\ (o # Lost => o = c.first)

LEMMA FoundFacts ==
  ASSUME NEW t \in Types, Solid(t), NEW p, NEW o, Found(t, p, o), o # Lost
  PROVE  \A c \in Parts[t] : c.at = p => o = c.first
BY StartsAgree DEF Found

(* Where a pointer can move by constant indices there is a part, and the   *)
(* offset that indexObject asks for, counted from the object of the        *)
(* pointer, is that of a scalar in the same first elements.                *)
LEMMA ReachableFacts ==
  ASSUME type \in Types, Solid(type), Found(type, real, object), object # Lost,
         NEW to \in Reachable(real), to > real
  PROVE  \E x \in Parts[type], y \in Scalars(type) :
           x.at = to /\ y.at = object + to - real /\ y.first = x.first
<1>1. CASE \E c \in Parts[type] : c.at = real /\ \E f \in Fields(c.type) : to = real + f
  <2>1. PICK c \in Parts[type] : c.at = real /\ \E f \in Fields(c.type) : to = real + f
    BY <1>1
  <2>2. PICK d \in Scalars(c.type) : to = real + d.at
    BY <2>1 DEF Fields, Scalars
  <2>3. /\ c.type \in Types /\ Solid(c.type) /\ c.at \in Nat /\ c.first \in Nat /\ object = c.first
        /\ d.at \in Nat /\ d.first \in Nat /\ d \in Parts[c.type] /\ ~IsAggregate(d.type)
    BY <2>1, PartsSolid, SolidParts, FoundFacts DEF Scalars
  <2>4. Moved(d, c.at, c.first) \in Parts[type] /\ Moved(d, c.first, c.first) \in Parts[type]
    <3>1. First(c) \in Parts[type] /\ First(c).type = c.type /\ First(c).at = c.first
          /\ First(c).first = c.first
      BY FirstsAreParts DEF First
    <3> QED
      BY <3>1, <2>3, PartsOfParts
  <2>5. PICK x, y : x = Moved(d, c.at, c.first) /\ y = Moved(d, c.first, c.first)
    OBVIOUS
  <2>6. /\ x.at = c.at + d.at /\ x.first = c.first + d.first
        /\ y.at = c.first + d.at /\ y.first = c.first + d.first /\ y.type = d.type
    BY <2>5, MovedFacts
  <2>7. y \in Scalars(type) /\ x \in Parts[type]
    BY <2>3, <2>4, <2>5, <2>6 DEF Scalars
  <2>8. y.at = object + to - real
    BY <2>1, <2>2, <2>3, <2>6
  <2> QED
    BY <2>1, <2>2, <2>6, <2>7, <2>8
<1>2. CASE \E c \in Parts[type] : /\ Type[c.type].kind = "array" /\ real - c.at \in Elements(c.type)
                                  /\ \E n \in Elements(c.type) : to = c.at + n
  <2>1. PICK c \in Parts[type] : /\ Type[c.type].kind = "array" /\ real - c.at \in Elements(c.type)
                                 /\ \E n \in Elements(c.type) : to = c.at + n
    BY <1>2
  <2>2. PICK s : s = SizeOf(Type[c.type].elem)
    OBVIOUS
  <2>3. PICK k \in 0 .. Counted(c.type) - 1 : real - c.at = k * s
    BY <2>1, <2>2 DEF Elements
  <2>4. PICK n \in 0 .. Counted(c.type) - 1 : to = c.at + n * s
    BY <2>1, <2>2 DEF Elements
  <2>5. PICK a \in Nat : a = k * s
    BY <2>1, <2>2, ElementsAreParts
  <2>6. PICK b \in Nat : b = n * s
    BY <2>1, <2>2, ElementsAreParts
  <2>7. /\ c.at \in Nat /\ c.first \in Nat /\ c.type \in Types /\ Counted(c.type) \in Nat
        /\ s \in Nat /\ s > 0
    <3>1. c.at \in Nat /\ c.first \in Nat /\ c.type \in Types /\ Solid(c.type)
      BY PartsSolid, SolidParts
    <3> QED
      BY <3>1, <2>1, <2>2, ArrayFacts, SolidFacts, TypeFacts
  <2>8. real = c.at + a
    <3>1. Found(type, real, object) /\ \A d \in Parts[type] : d.at \in Nat
      BY SolidParts
    <3>2. real \in Nat
      BY <3>1 DEF Found
    <3> QED
      BY <3>2, <2>3, <2>5, <2>7
  <2>9. object = c.first
    <3>1. \E x \in Parts[type] : x.at = c.at + a /\ x.first = c.first
      BY <2>1, <2>2, <2>5, ElementsAreParts
    <3> QED
      BY <3>1, <2>8, FoundFacts
  <2>10. a < b /\ to = c.at + b
    BY <2>4, <2>6, <2>7, <2>8
  <2>11. k \in Nat /\ n \in Nat /\ k < n
    <3>1. ASSUME n <= k
          PROVE  FALSE
      <4>1. \A i, j \in Nat : i <= j => i * s <= j * s
        BY <2>7, Z3
      <4>2. n * s <= k * s
        BY <3>1, <4>1, <2>3, <2>4
      <4> QED
        BY <4>2, <2>5, <2>6, <2>10
    <3> QED
      BY <3>1, <2>3, <2>4
  <2>12. PICK m \in Nat : m = n - k
    BY <2>11
  <2>13. m \in 0 .. Counted(c.type) - 1
    BY <2>11, <2>12, <2>7
  <2>14. m * s = b - a
    <3>1. n = m + k
      BY <2>11, <2>12
    <3>2. (m + k) * s = m * s + k * s /\ m * s \in Nat
      BY <2>7, <2>11, Z3
    <3> QED
      BY <3>1, <3>2, <2>5, <2>6
  <2>15. PICK x \in Parts[type] : x.at = c.at + b /\ x.first = c.first
    BY <2>1, <2>2, <2>6, ElementsAreParts
  <2>16. PICK z \in Parts[type] : z.at = c.first + m * s /\ z.first = c.first
    BY <2>1, <2>2, <2>13, ElementsAreParts
  <2>17. PICK y \in Scalars(type) : y.at = z.at /\ y.first = z.first
    BY PartsStartWithScalars
  <2>18. y.at = object + to - real
    BY <2>5, <2>6, <2>7, <2>8, <2>9, <2>10, <2>14, <2>16, <2>17
  <2> QED
    BY <2>10, <2>15, <2>16, <2>17, <2>18
<1>3. \/ \E c \in Parts[type] : c.at = real /\ \E f \in Fields(c.type) : to = real + f
      \/ \E c \in Parts[type] : /\ Type[c.type].kind = "array" /\ real - c.at \in Elements(c.type)
                                /\ \E n \in Elements(c.type) : to = c.at + n
  <2> DEFINE A == UNION {{real + f : f \in Fields(c.type)} : c \in {c \in Parts[type] : c.at = real}}
             B == UNION {{c.at + n : n \in Elements(c.type)} :
                    c \in {c \in Parts[type] : Type[c.type].kind = "array" /\ real - c.at \in Elements(c.type)}}
  <2>1. CASE to \in A
    <3>1. PICK c \in {c \in Parts[type] : c.at = real} : to \in {real + f : f \in Fields(c.type)}
      BY <2>1
    <3> QED
      BY <3>1
  <2>2. CASE to \in B
    <3>1. PICK c \in {c \in Parts[type] : Type[c.type].kind = "array" /\ real - c.at \in Elements(c.type)} :
            to \in {c.at + n : n \in Elements(c.type)}
      BY <2>2
    <3> QED
      BY <3>1
  <2>3. to \in A \/ to \in B
    BY DEF Reachable
  <2> QED
    BY <2>1, <2>2, <2>3
<1> QED
  BY <1>1, <1>2, <1>3

(* The inductive invariant: the pointer is at a part of the block and its  *)
(* object in the first elements of it, the objects are those of fields,    *)
(* and an initialiser stored what it should.                               *)
Inv ==
  /\ type \in Allocated
  /\ Solid(type) =>
       /\ Found(type, real, object)
       /\ object # Lost => \E l \in DOMAIN fieldObjs : fieldObjs[l] = object
       /\ Objects(type, fieldObjs)
       /\ stored = {} \/ Addressed(type, fieldObjs, stored, SizeOf(type))

LEMMA InitInv ==
  ASSUME Init
  PROVE  Inv
<1>1. type \in Allocated /\ type \in Types /\ real = 0 /\ object = 0
  BY AllocatedAssumption DEF Init
<1> SUFFICES ASSUME Solid(type)
             PROVE  /\ Found(type, real, object)
                    /\ object # Lost => \E l \in DOMAIN fieldObjs : fieldObjs[l] = object
                    /\ Objects(type, fieldObjs)
                    /\ stored = {} \/ Addressed(type, fieldObjs, stored, SizeOf(type))
  BY <1>1 DEF Inv
<1>2. Found(type, real, object)
  BY <1>1, StartsWithScalar DEF Found, Scalars
<1>3. /\ Objects(type, fieldObjs)
      /\ stored = {} \/ Addressed(type, fieldObjs, stored, SizeOf(type))
  <2>1. CASE fieldObjs = [l \in {0} |-> 0] /\ stored = {}
    BY <2>1, <1>1, NewObjects
  <2>2. CASE fieldObjs = Initialised(type).objs /\ stored = Initialised(type).stored
    BY <2>2, <1>1, InitialisedFacts
  <2> QED
    BY <2>1, <2>2 DEF Init
<1> QED
  BY <1>1, <1>2, <1>3 DEF Objects

LEMMA NextInv ==
  ASSUME Inv, [Next]_vars
  PROVE  Inv'
<1>1. type' = type /\ stored' = stored /\ type \in Allocated /\ type \in Types
  BY AllocatedAssumption DEF Inv, Next, IndexConstant, IndexVariable, Restart, vars
<1> SUFFICES ASSUME Solid(type)
             PROVE  /\ Found(type, real', object')
                    /\ object' # Lost => \E l \in DOMAIN fieldObjs' : fieldObjs'[l] = object'
                    /\ Objects(type, fieldObjs')
                    /\ stored = {} \/ Addressed(type, fieldObjs', stored, SizeOf(type))
  BY <1>1 DEF Inv
<1>2. /\ Found(type, real, object)
      /\ object # Lost => \E l \in DOMAIN fieldObjs : fieldObjs[l] = object
      /\ Objects(type, fieldObjs)
      /\ stored = {} \/ Addressed(type, fieldObjs, stored, SizeOf(type))
  BY DEF Inv
<1>3. CASE IndexConstant
  <2>1. PICK to \in Reachable(real) :
          /\ to > real
          /\ object' = GetObjectAt(type, fieldObjs, object + to - real).object
          /\ fieldObjs' = GetObjectAt(type, fieldObjs, object + to - real).objs
          /\ real' = to
    BY <1>3 DEF IndexConstant
  <2>2. object # Lost
    BY <1>3 DEF IndexConstant
  <2>3. PICK x \in Parts[type], y \in Scalars(type) :
          x.at = to /\ y.at = object + to - real /\ y.first = x.first
    BY <1>1, <1>2, <2>1, <2>2, ReachableFacts
  <2>4. object' = y.first /\ Extended(type, fieldObjs, fieldObjs', y)
    BY <1>1, <1>2, <2>1, <2>3, IndexObject
  <2>5. Found(type, real', object')
    BY <2>1, <2>3, <2>4 DEF Found
  <2>6. \E l \in DOMAIN fieldObjs' : fieldObjs'[l] = object'
    BY <2>4 DEF Extended
  <2>7. Objects(type, fieldObjs')
    BY <2>4 DEF Extended
  <2>8. stored = {} \/ Addressed(type, fieldObjs', stored, SizeOf(type))
    <3>1. DOMAIN fieldObjs \subseteq DOMAIN fieldObjs'
      BY <2>4 DEF Extended
    <3> QED
      BY <3>1, <1>2 DEF Addressed
  <2> QED
    BY <2>5, <2>6, <2>7, <2>8
<1>4. CASE IndexVariable
  <2>1. PICK c \in Parts[type] :
          /\ Type[c.type].kind = "array" /\ real - c.at \in Elements(c.type)
          /\ object' = object \/ object' = Lost
          /\ \E n \in Elements(c.type) : real' = c.at + n
    BY <1>4 DEF IndexVariable
  <2>2. object # Lost /\ fieldObjs' = fieldObjs
    BY <1>4 DEF IndexVariable
  <2>3. PICK s : s = SizeOf(Type[c.type].elem)
    OBVIOUS
  <2>4. PICK k \in 0 .. Counted(c.type) - 1 : real - c.at = k * s
    BY <2>1, <2>3 DEF Elements
  <2>5. PICK n \in 0 .. Counted(c.type) - 1 : real' = c.at + n * s
    BY <2>1, <2>3 DEF Elements
  <2>6. PICK x \in Parts[type] : x.at = c.at + k * s /\ x.first = c.first
    BY <1>1, <2>1, <2>3, ElementsAreParts
  <2>7. PICK z \in Parts[type] : z.at = c.at + n * s /\ z.first = c.first
    BY <1>1, <2>1, <2>3, ElementsAreParts
  <2>8. real = x.at
    <3>1. real \in Nat /\ c.at \in Nat /\ x.at \in Nat
      BY <1>1, <1>2, SolidParts DEF Found
    <3>2. PICK a \in Nat : a = k * s
      BY <1>1, <2>1, <2>3, ElementsAreParts
    <3> QED
      BY <3>1, <3>2, <2>4, <2>6
  <2>9. object = c.first
    BY <1>1, <1>2, <2>2, <2>6, <2>8, FoundFacts
  <2>10. Found(type, real', object')
    BY <2>1, <2>5, <2>7, <2>9 DEF Found
  <2> QED
    BY <1>2, <2>1, <2>2, <2>10
<1>5. CASE Restart
  <2>1. real' = 0 /\ object' = 0 /\ fieldObjs' = fieldObjs
    BY <1>5 DEF Restart
  <2>2. Found(type, 0, 0)
    BY <1>1, StartsWithScalar DEF Found, Scalars
  <2> QED
    BY <1>2, <2>1, <2>2 DEF Objects
<1>6. CASE UNCHANGED vars
  BY <1>2, <1>6 DEF vars
<1> QED
  BY <1>3, <1>4, <1>5, <1>6 DEF Next

(* In every reachable state of a block without empty parts its objects are *)
(* those of fields, each under its layout offset, the pointer is at a part *)
(* and its object is that of this part, and the addresses of an            *)
(* initialiser are in the objects of their pointers (indexMemoryBlock,     *)
(* indexObject, initializeGlobal).                                         *)
THEOREM Invariance == Spec => []Inv
<1>1. Init => Inv
  BY InitInv
<1>2. Inv /\ [Next]_vars => Inv'
  BY NextInv
<1> QED
  BY <1>1, <1>2, PTL DEF Spec

(* The invariant implies each of the properties of a block whose type is   *)
(* solid.                                                                  *)
InvSolid ==
  /\ type \in Allocated /\ type \in Types /\ Solid(type)
  /\ Found(type, real, object)
  /\ object # Lost => \E l \in DOMAIN fieldObjs : fieldObjs[l] = object
  /\ Objects(type, fieldObjs)
  /\ stored = {} \/ Addressed(type, fieldObjs, stored, SizeOf(type))

LEMMA SolidInv ==
  ASSUME Inv, Solid(type)
  PROVE  InvSolid
BY AllocatedAssumption DEF Inv, InvSolid

LEMMA InvTypeOK ==
  ASSUME InvSolid
  PROVE  TypeOK
<1>1. type \in Allocated /\ type \in Types /\ Solid(type)
  BY DEF InvSolid
<1>2. SizeOf(type) \in Nat /\ SizeOf(type) <= SizeMax /\ SizeMax \in Nat
  <2>1. SizeMax \in Nat /\ \A t \in Types : SizeOf(t) \in 0 .. SizeMax
    BY TypeAssumption
  <2> QED
    BY <1>1, <2>1
<1>3. PICK c \in Parts[type] : c.at = real /\ (object # Lost => object = c.first)
  BY DEF InvSolid, Found
<1>4. /\ c.at \in Nat /\ c.first \in Nat /\ c.first <= c.at /\ c.at < SizeOf(type)
  BY <1>1, SolidParts
<1>5. real \in 0 .. SizeMax
  BY <1>2, <1>3, <1>4
<1>6. object \in {Lost} \cup 0 .. SizeMax
  BY <1>2, <1>3, <1>4
<1>7. DOMAIN fieldObjs \subseteq Layout[type].elements \cup {0}
  <2> SUFFICES ASSUME NEW l \in DOMAIN fieldObjs
               PROVE  l \in Layout[type].elements \cup {0}
    OBVIOUS
  <2>1. PICK d \in Scalars(type) : d.at = d.first /\ l = IndexBetweenArrays[type][d.first].l
    BY DEF InvSolid, Objects
  <2>2. l \in Own(type).elements
    BY <1>1, <2>1, ScalarFacts
  <2> QED
    BY <2>2 DEF Own
<1>8. \A s \in stored : s[1] \in DOMAIN fieldObjs /\ IsPointer(type, s[2])
  <2> SUFFICES ASSUME NEW s \in stored
               PROVE  s[1] \in DOMAIN fieldObjs /\ IsPointer(type, s[2])
    OBVIOUS
  <2>1. Addressed(type, fieldObjs, stored, SizeOf(type))
    BY DEF InvSolid
  <2>2. PICK d \in Pointers(type) :
          d.at < SizeOf(type) /\ s = <<IndexBetweenArrays[type][d.at].l, d.at>>
    BY <2>1 DEF Addressed
  <2>3. IndexBetweenArrays[type][d.at].l \in DOMAIN fieldObjs
    BY <2>1, <2>2 DEF Addressed
  <2>4. d \in Parts[type] /\ Type[d.type].kind = "pointer"
    BY DEF Pointers
  <2> QED
    BY <2>2, <2>3, <2>4 DEF IsPointer
<1> QED
  BY <1>1, <1>5, <1>6, <1>7, <1>8 DEF TypeOK

LEMMA InvObjectIsField ==
  ASSUME InvSolid
  PROVE  ObjectIsField
<1> SUFFICES ASSUME object # Lost
             PROVE  object = FirstElement(type, real)
  BY DEF ObjectIsField
<1>1. PICK c \in Parts[type] : c.at = real /\ object = c.first
  BY DEF InvSolid, Found
<1> QED
  BY <1>1, FirstElementFacts DEF InvSolid

(* The objects of a block are at the first elements of its fields.         *)
LEMMA ObjectsAreFirst ==
  ASSUME NEW t \in Types, Solid(t), NEW objs, Objects(t, objs), NEW l \in DOMAIN objs
  PROVE  FirstElement(t, objs[l]) = objs[l]
<1>1. PICK c \in Scalars(t) : c.at = c.first /\ objs[l] = c.first
  BY DEF Objects
<1>2. c \in Parts[t]
  BY DEF Scalars
<1> QED
  BY <1>1, <1>2, FirstElementFacts

LEMMA InvOneObjectPerField ==
  ASSUME InvSolid
  PROVE  OneObjectPerField
BY ObjectsAreFirst, ObjectsFacts DEF InvSolid, OneObjectPerField

LEMMA InvPointersAreMarked ==
  ASSUME InvSolid
  PROVE  PointersAreMarked
<1> SUFFICES ASSUME IsAggregate(type), NEW l \in DOMAIN fieldObjs
             PROVE  (l \in Layout[type].pointers) <=> IsPointer(type, fieldObjs[l])
  BY DEF PointersAreMarked
<1>1. type \in Types /\ Solid(type)
  BY DEF InvSolid
<1>2. PICK c \in Scalars(type) :
        c.at = c.first /\ fieldObjs[l] = c.first /\ l = IndexBetweenArrays[type][c.first].l
  BY DEF InvSolid, Objects
<1>3. l \in Own(type).pointers <=> Type[c.type].kind = "pointer"
  BY <1>1, <1>2, ScalarsIndexed
<1>4. Own(type).pointers = Layout[type].pointers
  BY DEF Own
<1>5. ASSUME IsPointer(type, fieldObjs[l])
      PROVE  Type[c.type].kind = "pointer"
  <2>1. PICK d \in Parts[type] : d.at = fieldObjs[l] /\ Type[d.type].kind = "pointer"
    BY <1>5 DEF IsPointer
  <2>2. d \in Scalars(type)
    BY <2>1 DEF Scalars, IsAggregate
  <2> QED
    BY <1>1, <1>2, <2>1, <2>2, ScalarsUnique
<1>6. ASSUME Type[c.type].kind = "pointer"
      PROVE  IsPointer(type, fieldObjs[l])
  BY <1>2, <1>6 DEF IsPointer, Scalars
<1> QED
  BY <1>3, <1>4, <1>5, <1>6

LEMMA InvInitialisersAreFound ==
  ASSUME InvSolid
  PROVE  InitialisersAreFound
<1> DEFINE here == {s[2] : s \in {s \in stored : s[1] = LayoutOffset(fieldObjs, object)}}
<1> SUFFICES ASSUME stored # {}, object # Lost, IsPointer(type, real)
             PROVE  /\ real \in here
                    /\ \A p \in here : FirstElement(type, p) = FirstElement(type, real)
  BY DEF InitialisersAreFound
<1>1. type \in Types /\ Solid(type) /\ Objects(type, fieldObjs) /\ Found(type, real, object)
  BY DEF InvSolid
<1>2. Addressed(type, fieldObjs, stored, SizeOf(type))
  BY DEF InvSolid
<1>3. PICK c \in Parts[type] : c.at = real /\ Type[c.type].kind = "pointer"
  BY DEF IsPointer
<1>4. c \in Scalars(type) /\ c \in Pointers(type)
  BY <1>3 DEF Scalars, Pointers, IsAggregate
<1>5. object = c.first
  BY <1>1, <1>3, FoundFacts
<1>6. PICK x : x = IndexBetweenArrays[type][c.at].l
  OBVIOUS
<1>7. x \in DOMAIN fieldObjs /\ <<x, real>> \in stored
  <2>1. c.at < SizeOf(type)
    BY <1>1, <1>4, ScalarFacts
  <2> QED
    BY <1>2, <1>3, <1>4, <1>6, <2>1 DEF Addressed
<1>8. fieldObjs[x] = object /\ LayoutOffset(fieldObjs, object) = x
  BY <1>1, <1>4, <1>5, <1>6, <1>7, ObjectsFacts
<1>9. real \in here
  <2>1. <<x, real>> \in {s \in stored : s[1] = LayoutOffset(fieldObjs, object)}
    BY <1>7, <1>8
  <2>2. <<x, real>>[2] = real
    OBVIOUS
  <2> QED
    BY <2>1, <2>2
<1>10. ASSUME NEW p \in here
       PROVE  FirstElement(type, p) = FirstElement(type, real)
  <2>1. PICK s \in stored : s[1] = x /\ p = s[2]
    BY <1>8, <1>10
  <2>2. PICK d \in Pointers(type) : s = <<IndexBetweenArrays[type][d.at].l, d.at>>
    BY <1>2, <2>1 DEF Addressed
  <2>3. d \in Scalars(type)
    BY DEF Scalars, Pointers, IsAggregate
  <2>4. IndexBetweenArrays[type][d.at].l = IndexBetweenArrays[type][c.at].l /\ p = d.at
    BY <1>6, <2>1, <2>2
  <2>5. d.first = c.first
    BY <1>1, <1>4, <2>3, <2>4, ScalarsApart
  <2>6. d \in Parts[type]
    BY <2>3 DEF Scalars
  <2> QED
    BY <1>1, <1>3, <2>4, <2>5, <2>6, FirstElementFacts
<1> QED
  BY <1>9, <1>10

(* In a block without empty parts all objects have a layout offset of the  *)
(* layout, and each address of an initialiser is stored in an object,      *)
(* never through the null pointer that getObjectAt may return              *)
(* (processScalarGlobals).                                                 *)
THEOREM TypeCorrect == Spec => [](Solid(type) => TypeOK)
<1>1. Inv => (Solid(type) => TypeOK)
  BY SolidInv, InvTypeOK
<1> QED
  BY <1>1, Invariance, PTL

(* In a block without empty parts the object of a pointer is the field it  *)
(* points to, with all elements of an array taken as one                   *)
(* (indexPhysicalOffset, indexObject).                                     *)
THEOREM ObjectsOfPointers == Spec => [](Solid(type) => ObjectIsField)
<1>1. Inv => (Solid(type) => ObjectIsField)
  BY SolidInv, InvObjectIsField
<1> QED
  BY <1>1, Invariance, PTL

(* In a block without empty parts each field has one object, however it    *)
(* was reached first (indexMemoryBlock).                                   *)
THEOREM FieldsHaveOneObject == Spec => [](Solid(type) => OneObjectPerField)
<1>1. Inv => (Solid(type) => OneObjectPerField)
  BY SolidInv, InvOneObjectPerField
<1> QED
  BY <1>1, Invariance, PTL

(* In a block without empty parts an object is marked as a pointer exactly *)
(* when its field is one (setElementLayout).                               *)
THEOREM MarkedPointers == Spec => [](Solid(type) => PointersAreMarked)
<1>1. Inv => (Solid(type) => PointersAreMarked)
  BY SolidInv, InvPointersAreMarked
<1> QED
  BY <1>1, Invariance, PTL

(* In an initialised block without empty parts the object of a pointer     *)
(* field holds the address that is there in memory, and otherwise only     *)
(* those of the same field in other elements (processInitializer).         *)
THEOREM FoundInitialisers == Spec => [](Solid(type) => InitialisersAreFound)
<1>1. Inv => (Solid(type) => InitialisersAreFound)
  BY SolidInv, InvInitialisersAreFound
<1> QED
  BY <1>1, Invariance, PTL

(***************************************************************************)
(* The search for an array at an offset finds the array that a variable    *)
(* index moves in, if only the first array of a structure is nested.       *)
(***************************************************************************)
(* isArrayExistAtOffset of a type, from that of smaller types.             *)
Behind(t, p, step) ==
  {x \in DOMAIN Layout[t].arrays : x < p /\ x + Bytes(Layout[t].arrays[x]) >= step}

ExistsAt(f, t, p, step) ==
  IF p \in DOMAIN Layout[t].arrays
  THEN \/ SizeOf(ElementAt(t, p)) = step
       \/ SizeOf(ElementAt(t, p)) > step /\ f[ElementAt(t, p)][0][step]
  ELSE /\ Behind(t, p, step) # {}
       /\ f[ElementAt(t, LeastOf(Behind(t, p, step)))][p - LeastOf(Behind(t, p, step))][step]

ExistsStep(f, t) == [p \in 0 .. SizeMax |-> [step \in 0 .. SizeMax |-> ExistsAt(f, t, p, step)]]

LEMMA ExistsStepAgrees ==
  ASSUME NEW t \in Types, NEW f, NEW g,
         \A u \in Types : u < t => f[u] = g[u]
  PROVE  ExistsStep(f, t) = ExistsStep(g, t)
<1>1. ASSUME NEW p, NEW step
      PROVE  ExistsAt(f, t, p, step) = ExistsAt(g, t, p, step)
  <2>1. CASE p \in DOMAIN Layout[t].arrays
    <3>1. f[ElementAt(t, p)] = g[ElementAt(t, p)]
      BY <2>1, ElementAtFacts
    <3> QED
      BY <2>1, <3>1 DEF ExistsAt
  <2>2. CASE p \notin DOMAIN Layout[t].arrays /\ Behind(t, p, step) = {}
    BY <2>2 DEF ExistsAt
  <2>3. CASE p \notin DOMAIN Layout[t].arrays /\ Behind(t, p, step) # {}
    <3>1. Behind(t, p, step) \subseteq DOMAIN Layout[t].arrays /\ DOMAIN Layout[t].arrays \subseteq Nat
      BY LayoutsNested DEF Nested, Behind
    <3>2. LeastOf(Behind(t, p, step)) \in DOMAIN Layout[t].arrays
      BY <2>3, <3>1, LeastFacts
    <3>3. f[ElementAt(t, LeastOf(Behind(t, p, step)))] = g[ElementAt(t, LeastOf(Behind(t, p, step)))]
      BY <3>2, ElementAtFacts
    <3> QED
      BY <2>3, <3>3 DEF ExistsAt
  <2> QED
    BY <2>1, <2>2, <2>3
<1> QED
  BY <1>1 DEF ExistsStep

LEMMA ExistsExists ==
  \E f : f = [t \in Types |-> ExistsStep(f, t)]
<1> DEFINE S == {k \in Nat : \E f : f = [t \in Below(k) |-> ExistsStep(f, t)]}
<1>1. 0 \in S
  <2>1. [t \in {} |-> 0] = [t \in Below(0) |-> ExistsStep([u \in {} |-> 0], t)]
    BY TypesAreNumbered
  <2> QED
    BY <2>1
<1>2. ASSUME NEW k \in Nat, k \in S
      PROVE  k + 1 \in S
  <2>1. PICK f : f = [t \in Below(k) |-> ExistsStep(f, t)]
    BY <1>2
  <2>2. PICK g : g = [t \in Below(k + 1) |-> IF t = k + 1 THEN ExistsStep(f, t) ELSE f[t]]
    OBVIOUS
  <2>3. ASSUME NEW t \in Below(k + 1)
        PROVE  g[t] = ExistsStep(g, t)
    <3>1. t \in Types /\ t <= k + 1
      BY DEF Below
    <3>2. \A u \in Types : u < t => f[u] = g[u]
      BY <2>2, <3>1, TypesAreNumbered DEF Below
    <3>3. ExistsStep(f, t) = ExistsStep(g, t)
      BY <3>1, <3>2, ExistsStepAgrees
    <3>4. g[t] = ExistsStep(f, t)
      BY <2>1, <2>2, TypesAreNumbered
    <3> QED
      BY <3>3, <3>4
  <2>4. g = [t \in Below(k + 1) |-> g[t]]
    BY <2>2
  <2>5. g = [t \in Below(k + 1) |-> ExistsStep(g, t)]
    BY <2>3, <2>4
  <2> QED
    BY <2>5
<1> HIDE DEF S
<1>3. Len(Type) \in S
  BY <1>1, <1>2, SetInduction, TypesAreNumbered
<1> QED
  BY <1>3, TypesAreNumbered DEF S

LEMMA ExistsFacts ==
  ASSUME NEW t \in Types, NEW p \in 0 .. SizeMax, NEW step \in 0 .. SizeMax
  PROVE  IsArrayExistAtOffset[t][p][step] = ExistsAt(IsArrayExistAtOffset, t, p, step)
<1>1. IsArrayExistAtOffset = [u \in Types |-> ExistsStep(IsArrayExistAtOffset, u)]
  BY ExistsExists DEF IsArrayExistAtOffset, ExistsStep, ExistsAt, Behind, ElementAt
<1>2. IsArrayExistAtOffset[t] = ExistsStep(IsArrayExistAtOffset, t)
  BY <1>1
<1> QED
  BY <1>2 DEF ExistsStep

(* The array with the type and the first elements of c starts at x in the  *)
(* layout of t, or is inside the elements of the array that starts there.  *)
StartsAt(t, c, x) == c.first = x /\ Layout[t].arrays[x] = c.type

InsideOf(t, c, x) ==
  /\ \E e \in Parts[t] : e.type = ElementAt(t, x)
  /\ \E d \in Parts[ElementAt(t, x)] : d.type = c.type /\ c.first = x + d.first

(* Every array in a type starts in its layout, or is in the elements of an *)
(* array that does.                                                        *)
LEMMA ArrayStarts ==
  ASSUME NEW t \in Types, Solid(t), NEW c \in Parts[t], Type[c.type].kind = "array"
  PROVE  \E x \in DOMAIN Layout[t].arrays : StartsAt(t, c, x) \/ InsideOf(t, c, x)
<1> DEFINE S == {u \in Types : Solid(u) =>
                  \A b \in Parts[u] : Type[b.type].kind = "array" =>
                    \E x \in DOMAIN Layout[u].arrays : StartsAt(u, b, x) \/ InsideOf(u, b, x)}
<1>1. ASSUME NEW u \in Types, \A f \in Types : f < u => f \in S
      PROVE  u \in S
  <2> SUFFICES ASSUME Solid(u), NEW b \in Parts[u], Type[b.type].kind = "array"
               PROVE  \E x \in DOMAIN Layout[u].arrays : StartsAt(u, b, x) \/ InsideOf(u, b, x)
    OBVIOUS
  <2>1. CASE Type[u].kind = "array"
    <3>1. Layout[u].arrays = [x \in {0} |-> u]
      <4>1. Type[u].elem \in Types /\ Solid(Type[u].elem)
        BY <2>1, ArrayFacts, SolidFacts
      <4>2. Laid(Own(Type[u].elem), Type[u].elem)
        BY <4>1, TypesLaid
      <4>3. PICK O, A, L, s : /\ O = Own(Type[u].elem) /\ A = [x \in {0} |-> u] /\ L = Layout[u]
                              /\ s = SizeOf(u)
        OBVIOUS
      <4>4. L = [elements |-> O.elements, pointers |-> O.pointers, arrays |-> A, l |-> O.l, p |-> s]
        BY <2>1, <4>2, <4>3, ArrayLayoutFacts
      <4>5. L.arrays = A
        BY <4>4
      <4> QED
        BY <4>3, <4>5
    <3>2. 0 \in DOMAIN Layout[u].arrays /\ Layout[u].arrays[0] = u /\ ElementAt(u, 0) = Type[u].elem
      BY <3>1 DEF ElementAt
    <3>3. CASE b = Whole(u)
      BY <3>2, <3>3 DEF Whole, StartsAt
    <3>4. CASE \E n \in 0 .. Counted(u) - 1 : \E d \in Parts[Type[u].elem] :
                 b = Moved(d, n * SizeOf(Type[u].elem), 0)
      <4>1. PICK d \in Parts[Type[u].elem] : b.first = 0 + d.first /\ b.type = d.type
        BY <3>4 DEF Moved
      <4>2. \E e \in Parts[u] : e.type = Type[u].elem
        <5>1. Type[u].elem \in Types /\ Counted(u) \in Nat /\ Counted(u) >= 1
          BY <2>1, ArrayFacts, SolidFacts
        <5>2. Whole(Type[u].elem) \in Parts[Type[u].elem]
          BY <5>1, PartsOfStruct, PartsOfArray, PartsOfScalar DEF IsAggregate
        <5>3. 0 \in 0 .. Counted(u) - 1
          BY <5>1
        <5>4. Moved(Whole(Type[u].elem), 0 * SizeOf(Type[u].elem), 0) \in Parts[u]
          BY <2>1, <5>2, <5>3, PartsOfArray
        <5> QED
          BY <5>4 DEF Moved, Whole
      <4> QED
        BY <3>2, <4>1, <4>2 DEF InsideOf
    <3> QED
      BY <2>1, <3>3, <3>4, PartsOfArray
  <2>2. CASE Type[u].kind = "struct"
    <3>1. b # Whole(u)
      BY <2>2 DEF Whole
    <3>2. PICK i \in 1 .. Len(Type[u].fields) : \E d \in Parts[Type[u].fields[i]] :
                 b = Moved(d, Offsets(u)[i], Offsets(u)[i])
      BY <2>2, <3>1, PartsOfStruct
    <3>3. PICK f \in Types : f = Type[u].fields[i] /\ f < u /\ Solid(f)
      BY <2>2, StructFacts, SolidFacts
    <3>4. PICK o \in Nat : o = Offsets(u)[i]
      BY <2>2, StructFacts
    <3>5. PICK d \in Parts[f] : b = Moved(d, o, o)
      BY <3>2, <3>3, <3>4
    <3>6. b.type = d.type /\ b.first = o + d.first /\ d.first \in Nat
      BY <3>3, <3>5, PartsTyped DEF Moved
    <3>7. PICK y \in DOMAIN Layout[f].arrays : StartsAt(f, d, y) \/ InsideOf(f, d, y)
      BY <1>1, <3>3, <3>6
    <3>8. y \in Nat /\ y < SizeOf(f)
      <4>1. Apart(Layout[f].arrays, SizeOf(f), f)
        BY <3>3, ArraysApart
      <4>2. y \in Nat /\ SizeOf(Layout[f].arrays[y]) > 0 /\ y + SizeOf(Layout[f].arrays[y]) <= SizeOf(f)
            /\ Layout[f].arrays[y] \in Types
        BY <4>1 DEF Apart
      <4>3. SizeOf(Layout[f].arrays[y]) \in Nat /\ SizeOf(f) \in Nat
        BY <3>3, <4>2, TypeFacts
      <4> QED
        BY <4>2, <4>3
    <3>9. o + y \in DOMAIN Layout[u].arrays /\ Layout[u].arrays[o + y] = Layout[f].arrays[y]
      <4>1. Window(Own(u), f, o, Placed(Own(u), u, i))
        BY <2>2, <3>3, <3>4, TypesLaid DEF Windows
      <4>2. Own(u).arrays = Layout[u].arrays /\ Own(f).arrays = Layout[f].arrays
        BY <3>3, OwnArrays
      <4> QED
        BY <3>7, <3>8, <4>1, <4>2 DEF Window
    <3>10. CASE StartsAt(f, d, y)
      BY <3>6, <3>8, <3>9, <3>10 DEF StartsAt
    <3>11. CASE InsideOf(f, d, y)
      <4>1. ElementAt(u, o + y) = ElementAt(f, y)
        BY <3>9 DEF ElementAt
      <4>2. PICK e \in Parts[f] : e.type = ElementAt(f, y)
        BY <3>11 DEF InsideOf
      <4>3. Moved(e, o, o) \in Parts[u] /\ Moved(e, o, o).type = e.type
        BY <2>2, <3>3, <3>4, PartsOfStruct DEF Moved
      <4>4. PICK z \in Parts[ElementAt(f, y)] : z.type = d.type /\ d.first = y + z.first
        BY <3>11 DEF InsideOf
      <4>5. z.first \in Nat
        <5>1. ElementAt(f, y) \in Types
          BY <3>7, ElementAtFacts, <3>3
        <5> QED
          BY <5>1, PartsTyped
      <4>6. b.first = (o + y) + z.first
        BY <3>6, <3>8, <4>4, <4>5
      <4> QED
        BY <3>6, <3>9, <4>1, <4>2, <4>3, <4>4, <4>6 DEF InsideOf
    <3> QED
      BY <3>7, <3>10, <3>11
  <2>3. CASE ~IsAggregate(u)
    <3>1. b = Whole(u)
      BY <2>3, PartsOfScalar
    <3> QED
      BY <2>3, <3>1 DEF Whole, IsAggregate
  <2> QED
    BY <2>1, <2>2, <2>3 DEF IsAggregate
<1> HIDE DEF S
<1>2. t \in S
  BY <1>1, TypeInduction
<1> QED
  BY <1>2 DEF S

LEMMA WholeIsPart ==
  ASSUME NEW t \in Types
  PROVE  Whole(t) \in Parts[t]
BY PartsOfStruct, PartsOfArray, PartsOfScalar DEF IsAggregate

(* The condition holds for the parts of a type if it holds for the type.   *)
LEMMA PartsNestedFirst ==
  ASSUME NEW t \in Types, NestedFirst(t), NEW c \in Parts[t]
  PROVE  NestedFirst(c.type)
<1>1. c.type \in Types
  BY PartsTyped
<1> SUFFICES ASSUME NEW b \in Parts[c.type],
                    NEW x \in DOMAIN Layout[b.type].arrays, NEW y \in DOMAIN Layout[b.type].arrays, x < y,
                    NEW d \in Parts[Type[Layout[b.type].arrays[y]].elem]
             PROVE  Type[d.type].kind # "array"
  BY DEF NestedFirst
<1>2. Moved(b, c.at, c.first) \in Parts[t] /\ Moved(b, c.at, c.first).type = b.type
  BY PartsOfParts DEF Moved
<1> QED
  BY <1>2 DEF NestedFirst

(* Under the condition the search finds every array in a type by its start *)
(* in the first elements and the size of its elements: an array that is    *)
(* inside another starts behind that one only, so the search descends into *)
(* the right one.                                                          *)
LEMMA ArrayIsFound ==
  ASSUME NEW t \in Types, Solid(t), NestedFirst(t),
         NEW c \in Parts[t], Type[c.type].kind = "array"
  PROVE  IsArrayExistAtOffset[t][c.first][SizeOf(Type[c.type].elem)]
<1> DEFINE S == {u \in Types : Solid(u) /\ NestedFirst(u) =>
                  \A b \in Parts[u] : Type[b.type].kind = "array" =>
                    IsArrayExistAtOffset[u][b.first][SizeOf(Type[b.type].elem)]}
<1>1. ASSUME NEW u \in Types, \A e \in Types : e < u => e \in S
      PROVE  u \in S
  <2> SUFFICES ASSUME Solid(u), NestedFirst(u), NEW b \in Parts[u], Type[b.type].kind = "array"
               PROVE  IsArrayExistAtOffset[u][b.first][SizeOf(Type[b.type].elem)]
    OBVIOUS
  <2>1. PICK p \in 0 .. SizeMax : p = b.first
    <3>1. b.first \in Nat /\ b.first <= b.at /\ b.at < SizeOf(u) /\ b.at \in Nat
      BY SolidParts
    <3> QED
      BY <3>1, TypeFacts
  <2>2. b.type \in Types /\ Type[b.type].elem \in Types
    BY PartsTyped, ArrayFacts
  <2>3. PICK step \in 0 .. SizeMax : step = SizeOf(Type[b.type].elem)
    BY <2>2, TypeFacts
  <2>4. IsArrayExistAtOffset[u][p][step] = ExistsAt(IsArrayExistAtOffset, u, p, step)
    BY ExistsFacts
  <2>5. PICK x \in DOMAIN Layout[u].arrays : StartsAt(u, b, x) \/ InsideOf(u, b, x)
    BY ArrayStarts
  <2>6. CASE StartsAt(u, b, x)
    <3>1. p \in DOMAIN Layout[u].arrays /\ SizeOf(ElementAt(u, p)) = step
      BY <2>1, <2>3, <2>6 DEF StartsAt, ElementAt
    <3>2. ExistsAt(IsArrayExistAtOffset, u, p, step)
      BY <3>1 DEF ExistsAt
    <3> QED
      BY <2>1, <2>3, <2>4, <3>2
  <2>7. CASE InsideOf(u, b, x)
    <3>1. PICK e \in Types : e = ElementAt(u, x) /\ e < u
      BY ElementAtFacts
    <3>2. Solid(e) /\ NestedFirst(e)
      <4>1. PICK f \in Parts[u] : f.type = e
        BY <2>7, <3>1 DEF InsideOf
      <4> QED
        BY <4>1, PartsSolid, PartsNestedFirst
    <3>3. PICK d \in Parts[e] : d.type = b.type /\ b.first = x + d.first
      BY <2>7, <3>1 DEF InsideOf
    <3>4. PICK q \in Nat : q = d.first /\ q < SizeOf(e) /\ p = x + q
      <4>1. d.first \in Nat /\ d.first <= d.at /\ d.at < SizeOf(e) /\ d.at \in Nat
        BY <3>2, SolidParts
      <4> QED
        BY <2>1, <3>3, <4>1, TypeFacts
    <3>5. IsArrayExistAtOffset[e][q][step]
      BY <1>1, <2>3, <3>1, <3>2, <3>3, <3>4
    <3>6. step <= SizeOf(e) /\ SizeOf(e) \in Nat
      <4>1. SizeOf(b.type) <= SizeOf(e)
        <5>1. d.at \in Nat /\ d.at + SizeOf(d.type) <= SizeOf(e) /\ d.type \in Types
          BY PartsTyped
        <5> QED
          BY <5>1, <3>3, TypeFacts
      <4>2. step <= SizeOf(b.type)
        <5>1. SizeOf(b.type) > 0 /\ Counted(b.type) >= 1 /\ Counted(b.type) \in Nat
          BY <2>2, PartsSolid, SolidFacts, ArrayFacts
        <5>2. 0 \in 0 .. Counted(b.type) - 1
          BY <5>1
        <5>3. 0 * SizeOf(Type[b.type].elem) + SizeOf(Type[b.type].elem) <= SizeOf(b.type)
          BY <2>2, <5>2, ElementFacts
        <5>4. 0 * step = 0
          OBVIOUS
        <5> QED
          BY <2>3, <5>3, <5>4
      <4>3. step \in Nat /\ SizeOf(b.type) \in Nat /\ SizeOf(e) \in Nat
        BY <2>2, <2>3, TypeFacts
      <4> QED
        BY <4>1, <4>2, <4>3
    <3>7. PICK a \in Types : a = Layout[u].arrays[x]
      BY LayoutsNested DEF Nested
    <3>8. /\ x \in Nat /\ Type[a].kind = "array" /\ Type[a].elem = e /\ Bytes(a) = SizeOf(a)
          /\ SizeOf(a) \in Nat /\ SizeOf(e) <= SizeOf(a)
          /\ \A y \in DOMAIN Layout[u].arrays : y \in Nat /\ (x < y => x + SizeOf(a) <= y)
      <4>1. Apart(Layout[u].arrays, SizeOf(u), u)
        BY ArraysApart
      <4>2. /\ x \in Nat /\ Type[a].kind = "array" /\ Solid(a)
            /\ \A y \in DOMAIN Layout[u].arrays : y \in Nat /\ (x < y => x + SizeOf(a) <= y)
        BY <3>7, <4>1 DEF Apart
      <4>3. Type[a].elem = e
        BY <3>1, <3>7 DEF ElementAt
      <4>4. Counted(a) >= 1 /\ Counted(a) \in Nat
        BY <4>2, SolidFacts, ArrayFacts
      <4>5. 0 \in 0 .. Counted(a) - 1
        BY <4>4
      <4>6. 0 * SizeOf(e) + SizeOf(e) <= SizeOf(a)
        BY <4>2, <4>3, <4>5, ElementFacts
      <4>7. SizeOf(e) \in Nat /\ SizeOf(a) \in Nat /\ Bytes(a) = SizeOf(a)
        BY <4>2, TypeFacts, ArrayFacts
      <4>8. PICK n \in Nat : n = SizeOf(e) /\ 0 * n = 0
        BY <4>7
      <4> QED
        BY <4>2, <4>3, <4>6, <4>7, <4>8
    <3>9. CASE q = 0
      <4>1. p = x
        BY <3>4, <3>8, <3>9
      <4>2. SizeOf(e) = step \/ SizeOf(e) > step
        BY <3>6
      <4>3. IsArrayExistAtOffset[e][0][step]
        BY <3>5, <3>9
      <4>4. ExistsAt(IsArrayExistAtOffset, u, x, step)
        BY <3>1, <4>2, <4>3 DEF ExistsAt
      <4> QED
        BY <2>1, <2>3, <2>4, <4>1, <4>4
    <3>10. CASE q > 0
      <4>1. p \notin DOMAIN Layout[u].arrays
        BY <3>4, <3>6, <3>8, <3>10
      <4>2. x \in Behind(u, p, step)
        <5>1. x < p
          BY <3>4, <3>8, <3>10
        <5>2. x + Bytes(a) >= step
          BY <3>6, <3>8, <2>3
        <5> QED
          BY <3>7, <5>1, <5>2 DEF Behind
      <4>3. Behind(u, p, step) \subseteq DOMAIN Layout[u].arrays /\ Behind(u, p, step) \subseteq Nat
        BY <3>8 DEF Behind
      <4>4. PICK m : m = LeastOf(Behind(u, p, step))
        OBVIOUS
      <4>5. m \in DOMAIN Layout[u].arrays /\ m <= x /\ m \in Nat
        BY <4>2, <4>3, <4>4, LeastFacts
      <4>6. ~(m < x)
        <5>1. Whole(u) \in Parts[u] /\ Whole(u).type = u
          BY WholeIsPart DEF Whole
        <5>2. Type[d.type].kind = "array"
          BY <3>3
        <5>3. m < x => \A g \in Parts[Type[Layout[u].arrays[x]].elem] : Type[g.type].kind # "array"
          BY <4>5, <5>1 DEF NestedFirst
        <5> QED
          BY <3>7, <3>8, <5>2, <5>3
      <4>7. m = x
        BY <3>8, <4>5, <4>6
      <4>8. p - x = q
        BY <3>4, <3>8
      <4>9. ExistsAt(IsArrayExistAtOffset, u, p, step)
        <5>1. Behind(u, p, step) # {}
          BY <4>2
        <5>2. IsArrayExistAtOffset[ElementAt(u, m)][p - m][step]
          BY <3>1, <3>5, <4>7, <4>8
        <5> QED
          BY <4>1, <4>4, <5>1, <5>2 DEF ExistsAt
      <4> QED
        BY <2>1, <2>3, <2>4, <4>9
    <3> QED
      BY <3>4, <3>9, <3>10
  <2> QED
    BY <2>5, <2>6, <2>7
<1> HIDE DEF S
<1>2. t \in S
  BY <1>1, TypeInduction
<1> QED
  BY <1>2 DEF S

(* A pointer in a block of such a type keeps its object: a variable index  *)
(* is in an array that the search finds.                                   *)
InvFound ==
  /\ Inv
  /\ Solid(type) /\ NestedFirst(type) => object # Lost

LEMMA InitFound ==
  ASSUME Init
  PROVE  InvFound
BY InitInv DEF Init, InvFound, Lost

LEMMA NextFound ==
  ASSUME InvFound, [Next]_vars
  PROVE  InvFound'
<1>1. Inv /\ Inv'
  BY NextInv DEF InvFound
<1>2. type' = type
  BY DEF Next, IndexConstant, IndexVariable, Restart, vars
<1> SUFFICES ASSUME Solid(type), NestedFirst(type)
             PROVE  object' # Lost
  BY <1>1, <1>2 DEF InvFound
<1>3. InvSolid /\ object # Lost
  BY <1>1, SolidInv DEF InvFound
<1>4. type \in Types /\ Found(type, real, object) /\ Objects(type, fieldObjs)
  BY <1>3 DEF InvSolid
<1>5. CASE IndexConstant
  <2>1. PICK to \in Reachable(real) :
          /\ to > real
          /\ object' = GetObjectAt(type, fieldObjs, object + to - real).object
    BY <1>5 DEF IndexConstant
  <2>2. PICK y \in Scalars(type) : y.at = object + to - real
    BY <1>3, <1>4, <2>1, ReachableFacts
  <2>3. object' = y.first /\ y.first \in Nat
    BY <1>4, <2>1, <2>2, IndexObject, ScalarFacts
  <2> QED
    BY <2>3 DEF Lost
<1>6. CASE IndexVariable
  <2>1. PICK c \in Parts[type] :
          /\ Type[c.type].kind = "array" /\ real - c.at \in Elements(c.type)
          /\ object' = IF ValidateStepSize(type, object, SizeOf(Type[c.type].elem))
                       THEN object ELSE Lost
    BY <1>6 DEF IndexVariable
  <2>2. IsAggregate(type)
    <3>1. ~IsAggregate(type) => c = Whole(type)
      BY <1>4, PartsOfScalar
    <3> QED
      BY <2>1, <3>1 DEF IsAggregate, Whole
  <2>3. PICK s : s = SizeOf(Type[c.type].elem)
    OBVIOUS
  <2>4. PICK k \in 0 .. Counted(c.type) - 1 : real - c.at = k * s
    BY <2>1, <2>3 DEF Elements
  <2>5. PICK x \in Parts[type] : x.at = c.at + k * s /\ x.first = c.first
    BY <1>4, <2>1, <2>3, ElementsAreParts
  <2>6. real = x.at
    <3>1. real \in Nat /\ c.at \in Nat /\ x.at \in Nat
      BY <1>4, SolidParts DEF Found
    <3>2. PICK a \in Nat : a = k * s
      BY <1>4, <2>1, <2>3, ElementsAreParts
    <3> QED
      BY <3>1, <3>2, <2>4, <2>5
  <2>7. object = c.first
    BY <1>3, <1>4, <2>5, <2>6, FoundFacts
  <2>8. IsArrayExistAtOffset[type][c.first][SizeOf(Type[c.type].elem)]
    BY <1>4, <2>1, ArrayIsFound
  <2>9. ValidateStepSize(type, object, SizeOf(Type[c.type].elem))
    BY <2>2, <2>7, <2>8 DEF ValidateStepSize
  <2> QED
    BY <1>3, <2>1, <2>9
<1>7. CASE Restart
  BY <1>7 DEF Restart, Lost
<1>8. CASE UNCHANGED vars
  BY <1>3, <1>8 DEF vars
<1> QED
  BY <1>5, <1>6, <1>7, <1>8 DEF Next

(* A pointer in a block without empty parts never loses its object if only *)
(* the first array of a structure has arrays in its elements               *)
(* (isArrayExistAtOffset); without the condition it can, as the run        *)
(* LayoutsNested shows.                                                    *)
THEOREM FieldsAreFound == Spec => [](Solid(type) /\ NestedFirst(type) => FieldIsFound)
<1>1. InvFound => (Solid(type) /\ NestedFirst(type) => FieldIsFound)
  BY DEF InvFound, FieldIsFound
<1> QED
  BY <1>1, InitFound, NextFound, PTL DEF Spec

=============================================================================
