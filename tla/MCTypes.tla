------------------------------- MODULE MCTypes -------------------------------
(***************************************************************************)
(* Types for FSMemModel: by hand, structures with padding, arrays of       *)
(* arrays, a zero-length array in front of a field, an array of unknown    *)
(* length and a block of unknown type; and every structure of three fields *)
(* of six types, alone and as the element of an array.                     *)
(***************************************************************************)
EXTENDS Integers, Sequences
LOCAL INSTANCE TLC
LOCAL INSTANCE FiniteSetsExt
LOCAL INSTANCE SequencesExt

Scalar(n) == [kind |-> "scalar", size |-> n]
Pointer == [kind |-> "pointer", size |-> 8]
Unknown == [kind |-> "unknown", size |-> 8]
Struct(fs) == [kind |-> "struct", fields |-> fs]
Array(n, e) == [kind |-> "array", count |-> n, elem |-> e]

WordMax == 1023

BasicTypes ==
  << Scalar(1),                      \*  1  i8
     Scalar(4),                      \*  2  i32
     Pointer,                        \*  3
     Unknown,                        \*  4
     Struct(<<1, 3, 2>>),            \*  5  {i8, ptr, i32}
     Array(3, 2),                    \*  6  [3 x i32]
     Struct(<<1, 6, 3>>),            \*  7  {i8, [3 x i32], ptr}
     Array(2, 6),                    \*  8  [2 x [3 x i32]]
     Struct(<<2, 8, 3>>),            \*  9  {i32, [2 x [3 x i32]], ptr}
     Array(2, 7),                    \* 10  [2 x {i8, [3 x i32], ptr}]
     Struct(<<3, 10, 1>>),           \* 11  {ptr, [2 x {...}], i8}
     Struct(<<6, 10>>),              \* 12  {[3 x i32], [2 x {i8, [3 x i32], ptr}]}
     Struct(<<2, 2, 2>>),            \* 13  {i32, i32, i32}
     Array(WordMax, 13),             \* 14  {i32, i32, i32}[]
     Array(0, 2),                    \* 15  [0 x i32]
     Struct(<<2, 15, 2, 3>>),        \* 16  {i32, [0 x i32], i32, ptr}
     Struct(<<>>),                   \* 17  {}
     Struct(<<17, 3>>),              \* 18  {{}, ptr}
     Struct(<<1, 3>>),               \* 19  {i8, ptr}
     Array(2, 19) >>                 \* 20  [2 x {i8, ptr}]

FieldTypes == <<1, 2, 3, 6, 19, 20>>

ThreeFields ==
  [i \in 1 .. 216 |-> Struct([f \in 1 .. 3 |->
     FieldTypes[1 + (((i - 1) \div (CASE f = 1 -> 1 [] f = 2 -> 6 [] f = 3 -> 36)) % 6)]])]

ArraysOfThem == [i \in 1 .. 216 |-> Array(2, 20 + i)]

Declared == BasicTypes \o ThreeFields \o ArraysOfThem

(* The data layout of a target on which a type is aligned to its largest   *)
(* scalar.                                                                 *)
RoundUp(n, a) == ((n + a - 1) \div a) * a

RECURSIVE DataLayout(_)
DataLayout(t) ==
  CASE Declared[t].kind = "struct" ->
         LET place(s, f) ==
               LET d == DataLayout(f)
                   at == RoundUp(s.size, d.align)
               IN [align |-> Max({s.align, d.align}), size |-> at + d.size,
                   offsets |-> Append(s.offsets, at)]
             all == FoldLeft(place, [align |-> 1, size |-> 0, offsets |-> <<>>],
                             Declared[t].fields)
         IN [all EXCEPT !.size = RoundUp(@, all.align)]
    [] Declared[t].kind = "array" ->
         LET d == DataLayout(Declared[t].elem) IN
         [align |-> d.align, offsets |-> <<>>,
          size |-> IF Declared[t].count = WordMax THEN WordMax ELSE Declared[t].count * d.size]
    [] OTHER -> [align |-> Declared[t].size, size |-> Declared[t].size, offsets |-> <<>>]

SampleTypes ==
  LET layouts == [t \in DOMAIN Declared |-> DataLayout(t)]
  IN [t \in DOMAIN Declared |->
        [size |-> layouts[t].size, offsets |-> layouts[t].offsets] @@ Declared[t]]
=============================================================================
