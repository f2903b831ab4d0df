----------------------------- MODULE CallStrings -----------------------------
(***************************************************************************)
(* What the call graph promises about calling contexts: a function is only *)
(* ever analysed under a context when some chain of calls from the entry   *)
(* function reaches it with those last K call sites.  Call strings whose   *)
(* hashes clash may stand for each other.                                  *)
(***************************************************************************)
EXTENDS Naturals, Sequences

CONSTANTS
  K, CallSites, Functions, Entry, ProgIds,
  SitesOf(_, _),       \* the call sites in the body of a function of a program
  MayCall(_, _),       \* the functions a call site may run
  Extends(_, _),       \* whether a call site extends the context
  Alike(_, _)          \* the call strings that one may be taken for

VARIABLES
  prog,      \* the program
  reached    \* the call strings and functions reached so far

vars == <<prog, reached>>

LastSites(s) == IF Len(s) <= K THEN s ELSE SubSeq(s, Len(s) - K + 1, Len(s))

CalleeString(s, site) ==
  IF Extends(prog, site) THEN LastSites(Append(s, site)) ELSE s

Init ==
  /\ prog \in ProgIds
  /\ reached = {<< <<>>, Entry >>}

(* A call from a function that has been reached runs one of its targets.   *)
Call ==
  \E r \in reached : \E site \in SitesOf(prog, r[2]) : \E f \in MayCall(prog, site) :
    \E s \in Alike(prog, CalleeString(r[1], site)) :
      /\ reached' = reached \cup {<<s, f>>}
      /\ UNCHANGED prog

Next == Call

Spec == Init /\ [][Next]_vars
=============================================================================
