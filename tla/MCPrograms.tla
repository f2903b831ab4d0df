----------------------------- MODULE MCPrograms -----------------------------
(***************************************************************************)
(* Small programs for model checking, and their least solutions.           *)
(*                                                                         *)
(* A family of programs is a set of constraints that all of them have, a   *)
(* sequence of optional ones and a set of indirect calls; program number i *)
(* has the optional constraints whose bit is set in i.                     *)
(***************************************************************************)
EXTENDS Integers, FiniteSets, Sequences

CONSTANTS Fixed, Optional, IndirectCalls, NodeSet, ObjSet, AnonOf(_), Index, NoField

ProgramNumbers == 0 .. 2 ^ Len(Optional) - 1

Bit(i, j) == (i \div 2 ^ (j - 1)) % 2 = 1

Programs ==
  [i \in ProgramNumbers |->
     [base  |-> Fixed \cup {Optional[j] : j \in {k \in DOMAIN Optional : Bit(i, k)}},
      calls |-> IndirectCalls]]

(***************************************************************************)
(* The least solution, by iteration from below: S maps every node to the   *)
(* objects known to be there, Contribution(S, c, n) are those that         *)
(* constraint c sends to node n.                                           *)
(***************************************************************************)
Contribution(S, c, n) ==
  CASE c[1] = "addr_of" -> IF c[3] = n THEN {c[2]} ELSE {}
    [] c[1] = "copy"    -> IF c[3] = n THEN S[c[2]] ELSE {}
    [] c[1] = "load"    -> IF c[3] = n THEN UNION {S[o] : o \in S[c[2]]} ELSE {}
    [] c[1] = "store"   -> IF n \in S[c[3]] THEN S[c[2]] ELSE {}
    [] c[1] = "offset"  -> IF c[3] = n
                           THEN {Index[n][o] : o \in S[c[2]]} \ {NoField}
                           ELSE {}

Improved(P, S) ==
  LET active == P.base \cup UNION {c.cons : c \in {d \in P.calls : d.fn \in S[d.fp]}}
  IN  [n \in NodeSet |-> S[n] \cup UNION {Contribution(S, c, n) : c \in active}]

RECURSIVE Saturated(_, _)
Saturated(P, S) ==
  LET next == Improved(P, S)
  IN  IF next = S THEN S ELSE Saturated(P, next)

LeastSolution(P) == Saturated(P, [n \in NodeSet |-> {o \in ObjSet : AnonOf(o) = n}])

LeastSolutions == [i \in ProgramNumbers |-> LeastSolution(Programs[i])]

=============================================================================
