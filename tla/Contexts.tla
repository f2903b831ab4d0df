------------------------------ MODULE Contexts ------------------------------
(***************************************************************************)
(* The calling contexts of the analysis.  A context holds the last K call  *)
(* sites in a ring buffer; contexts are interned, and the lookup tells two *)
(* of them apart by their hash alone, because operator== walks two         *)
(* iterators over the same buffer and so always succeeds.  A k-origin      *)
(* context is extended at some call sites only, the context of a           *)
(* context-insensitive analysis at none.                                   *)
(***************************************************************************)
EXTENDS Naturals, Sequences

CONSTANTS
  K,          \* the length of the call strings
  CallSites,  \* the call instructions
  NoSite      \* the null pointer in a slot that no call site has filled

ASSUME KAssumption == K \in Nat \ {0}
ASSUME NoSiteAssumption == NoSite \notin CallSites

Buffers == [buffer : [0 .. K - 1 -> CallSites \cup {NoSite}], last : 0 .. K - 1]

(* initCtx: an empty buffer that is never in the set of interned contexts. *)
InitialCtx == [buffer |-> [i \in 0 .. K - 1 |-> NoSite], last |-> 0]

(* Defect: the slot is taken after moving on.                              *)
Push_AfterMoving(ring, site) ==
  [buffer |-> [ring.buffer EXCEPT ![(ring.last + 1) % K] = site],
   last   |-> (ring.last + 1) % K]

Push(ring, site) ==
  [buffer |-> [ring.buffer EXCEPT ![ring.last] = site],
   last   |-> (ring.last + 1) % K]

(* operator++ of the iterator: K is the index of end().                    *)
Advance(ring, index) ==
  IF (index + 1) % K = ring.last THEN K ELSE (index + 1) % K

(* What a loop from begin() to end() reads.                                *)
Walk(ring) ==
  LET from[n \in 0 .. K] ==   \* the first n entries and the index behind them
        IF n = 0 THEN [read |-> <<>>, index |-> ring.last]
        ELSE LET f == from[n - 1] IN
             IF f.index = K THEN f
             ELSE [read  |-> Append(f.read, ring.buffer[f.index]),
                   index |-> Advance(ring, f.index)]
  IN from[K].read

(* What contents are printed as: the slots that were never filled are left *)
(* out.                                                                    *)
Filled(s) ==
  LET from[n \in 0 .. Len(s)] ==   \* of the first n slots
        IF n = 0 THEN <<>>
        ELSE IF s[n] = NoSite THEN from[n - 1] ELSE Append(from[n - 1], s[n])
  IN from[Len(s)]

CallString(ring) == Filled(Walk(ring))

(* The contents that hash to the same value as the given ones; the classes *)
(* of a hash function that only merges the strings of clash.               *)
SameHash(clash, s, t) == s = t \/ (s \in clash /\ t \in clash)

(* contextEvolve: the context of a callee and the interned contexts after. *)
Evolve(pool, clash, origins, ctx, site) ==
  IF site \notin origins THEN [ctx |-> ctx, pool |-> pool]
  ELSE LET new  == Push(ctx, site)
           same == {c \in pool : SameHash(clash, Walk(c), Walk(new))}
       IN IF same = {} THEN [ctx |-> new, pool |-> pool \cup {new}]
          ELSE [ctx |-> CHOOSE c \in same : TRUE, pool |-> pool]
=============================================================================
