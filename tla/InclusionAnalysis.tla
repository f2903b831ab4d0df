-------------------------- MODULE InclusionAnalysis --------------------------
(***************************************************************************)
(* What every solver promises.  The points-to sets of a program start from *)
(* the anonymous pointers, they only ever grow, they never leave any       *)
(* solution of the program (Reference is an arbitrary one), and the        *)
(* analysis may stop only when they are a solution themselves.  An         *)
(* analysis that stops has therefore computed the least solution.          *)
(***************************************************************************)
EXTENDS PointerProgram

VARIABLES
  prog,   \* the program under analysis
  sol,    \* the points-to sets that a client would be given now
  done    \* whether the analysis has stopped

vars == <<prog, sol, done>>

Within(S, T) == \A n \in Nodes : S[n] \subseteq T[n]

TypeOK ==
  /\ prog \in ProgIds
  /\ sol \in Assignment
  /\ done \in BOOLEAN

Init ==
  /\ prog \in ProgIds
  /\ sol = [n \in Nodes |-> {o \in ObjNodes : AnonNode(o) = n}]
  /\ done = FALSE

Grow ==
  /\ ~done
  /\ sol' \in Assignment
  /\ Within(sol, sol')
  /\ Within(sol', Reference[prog])
  /\ UNCHANGED <<prog, done>>

Stop ==
  /\ ~done
  /\ IsSolution(Program[prog], sol)
  /\ done' = TRUE
  /\ UNCHANGED <<prog, sol>>

Next == Grow \/ Stop

Spec == Init /\ [][Next]_vars

=============================================================================
