------------------------------ MODULE CtxModule ------------------------------
(***************************************************************************)
(* The construction of the call graph.  From the entry function, functions *)
(* are visited in breadth-first order; a call site gets an edge to a node  *)
(* for its target in the context it evolves, or to a node that stands for  *)
(* the calls through a pointer.  The solver resolves such a node whenever  *)
(* a function reaches the points-to set of its pointer: the model lets it  *)
(* find the functions the pointer may hold one at a time, in any order.    *)
(* The language model intercepts calls first: intrinsics are ignored,      *)
(* allocation functions keep their call site only, and pthread_create      *)
(* becomes a call of the thread function.                                  *)
(***************************************************************************)
EXTENDS Contexts, FiniteSets

CONSTANTS
  Functions, Defined, HeapAllocs, Intrinsics,
  PthreadCreate, StartFunctions,  \* StartFunctions take one i8 pointer
  Entry,
  NoFunction,
  ProgIds,
  Program  \* per id: the call sites of each body, the call sites, and options

ASSUME FunctionsAssumption ==
  /\ Entry \in Defined
  /\ Defined \subseteq Functions \ (HeapAllocs \cup Intrinsics \cup {PthreadCreate})
  /\ HeapAllocs \cup Intrinsics \cup {PthreadCreate} \subseteq Functions
  /\ HeapAllocs \cap Intrinsics = {} /\ PthreadCreate \notin HeapAllocs \cup Intrinsics
  /\ NoFunction \notin Functions
  /\ \A id \in ProgIds :
       \A f \in Functions \ Defined : Program[id].body[f] = <<>>

(* A call site is an instruction: it is in one place of one function.      *)
ASSUME ProgramAssumption ==
  \A id \in ProgIds :
    /\ \A f \in Functions : Program[id].body[f] \in Seq(CallSites)
    /\ \A f, g \in Functions :
         \A p \in DOMAIN Program[id].body[f], q \in DOMAIN Program[id].body[g] :
           Program[id].body[f][p] = Program[id].body[g][q] => f = g /\ p = q
    /\ \A s \in CallSites :
         /\ Program[id].call[s].to \in Functions \cup {NoFunction}
         /\ Program[id].call[s].start \in Functions \cup {NoFunction}
         /\ Program[id].call[s].holds \subseteq Functions
    /\ Program[id].limit \in Nat

VARIABLES
  prog,
  contexts,     \* the interned contexts (ctxSet)
  nodes,        \* the nodes of the call graph (ctxFunMap and ctxFunPtrMap)
  edges,        \* the edges of the call graph
  initialised,  \* the direct nodes whose parameters and body are in the constraint graph
  external,     \* the direct nodes marked as external
  targets,      \* the functions each pointer call was resolved to
  resolved,     \* and the nodes of those
  links,        \* how often the language model has processed each edge
  queue,        \* BFSQueue
  at,           \* the node being visited and how many of its call sites have been
  failed        \* the assertions that did not hold

vars == <<prog, contexts, nodes, edges, initialised, external, targets, resolved,
          links, queue, at, failed>>

NoNode == [ctx |-> InitialCtx, fn |-> NoFunction]
Idle == [node |-> NoNode, site |-> 0]

(* Defect: a call through a pointer has one node for all contexts.         *)
Indirect_AnyContext(ctx, site) == [ctx |-> InitialCtx, inst |-> site]

Direct(ctx, f)      == [ctx |-> ctx, fn |-> f]
Indirect(ctx, site) == [ctx |-> ctx, inst |-> site]
IsIndirect(n)       == "inst" \in DOMAIN n

Body(f)    == Program[prog].body[f]
Call(site) == Program[prog].call[site]

(* A call site has a direct target or calls through a pointer, and passes  *)
(* pthread_create a function or a pointer to run.                          *)
CallsPointer(site) == Call(site).to = NoFunction
Intercepted(site)  == Call(site).to = PthreadCreate

(* isCompatibleCall and isCompatible: whether a target fits the call site. *)
Fits(site, f) ==
  IF Intercepted(site) THEN f \in StartFunctions ELSE f \in Call(site).fits

-----------------------------------------------------------------------------
(* overrideFunction: what a call of f at a call site is turned into.       *)
Intercept(f, site) ==
  CASE f \in HeapAllocs -> [option |-> "ONLY_CALLSITE", to |-> f]
    [] f \in Intrinsics -> [option |-> "IGNORE", to |-> NoFunction]
    [] f = PthreadCreate -> [option |-> "EXPAND_BODY", to |-> Call(site).start]
    [] OTHER -> [option |-> "EXPAND_BODY", to |-> f]

(* overrideCallSite evolves the context of the caller once more and wants  *)
(* that of the callee; by then the latter has been interned.               *)
ContextFailures(caller, callee, site, pool) ==
  {a \in {"context evolves"} :
     Evolve(pool, Program[prog].clash, Program[prog].origins, caller.ctx, site).ctx
       # callee.ctx}

(* processCallSite, for an edge to a direct node: the assertions that fail *)
(* there.  An allocation function is modelled at the call site, a thread   *)
(* function gets the fourth argument, a declared function nothing, and     *)
(* every other function its actual parameters.                             *)
LinkFailures(caller, callee, site, built, pool) ==
  ContextFailures(caller, callee, site, pool) \cup
  (IF callee.fn \in HeapAllocs THEN {}
   ELSE IF Intercepted(site)
        THEN {a \in {"start function takes one argument"} : callee.fn \notin StartFunctions}
             \cup {a \in {"formal parameter exists"} : callee \notin built}
        ELSE {a \in {"call site is in the caller"} :
                \A p \in DOMAIN Body(caller.fn) : Body(caller.fn)[p] # site}
             \cup {a \in {"target matches"} : Call(site).to \notin {NoFunction, callee.fn}}
             \cup {a \in {"type matches"} : CallsPointer(site) /\ ~Fits(site, callee.fn)}
             \cup {a \in {"formal parameter exists"} :
                     callee.fn \in Defined /\ callee \notin built})

(* createEdge and its callback.                                            *)
Link(caller, callee, site, built) ==
  LET e == [from |-> caller, to |-> callee, inst |-> site] IN
  /\ edges' = edges \cup {e}
  /\ IF IsIndirect(callee)
     THEN UNCHANGED <<links, failed>>
     ELSE /\ links' = IF e \in DOMAIN links THEN [links EXCEPT ![e] = @ + 1]
                      ELSE [x \in DOMAIN links \cup {e} |->
                              IF x = e THEN 1 ELSE links[x]]
          /\ failed' = failed \cup LinkFailures(caller, callee, site, built, contexts')

(* Defect: a new node starts without an entry for its targets.             *)
CallThroughPointer_NoTargets(caller, site) ==
  /\ nodes' = nodes \cup {Indirect(caller.ctx, site)}
  /\ Link(caller, Indirect(caller.ctx, site), site, initialised)
  /\ UNCHANGED <<targets, initialised, external>>

(* getOrCreateInDirectCallNode, then the edge.                             *)
CallThroughPointer(caller, site) ==
  LET n == Indirect(caller.ctx, site) IN
  /\ nodes' = nodes \cup {n}
  /\ targets' = IF n \in nodes THEN targets
                ELSE [x \in DOMAIN targets \cup {n} |-> IF x = n THEN {} ELSE targets[x]]
  /\ Link(caller, n, site, initialised)
  /\ UNCHANGED <<initialised, external>>

(* Defect: a callee that is already in the call graph is visited again.    *)
CallFunction_Revisits(caller, n, option, site) ==
  \E expand \in {option = "EXPAND_BODY" /\ n.fn \in Defined} :
    /\ nodes' = nodes \cup {n}
    /\ initialised' = IF expand THEN initialised \cup {n} ELSE initialised
    /\ external' = IF ~expand THEN external \cup {n} ELSE external
    /\ queue' = IF expand THEN Append(queue, n) ELSE queue
    /\ Link(caller, n, site, initialised \cup {n})

(* Defect: a callee that is already in the call graph gets no edge.        *)
CallFunction_NoEdge(caller, n, option, site) ==
  /\ nodes' = nodes \cup {n}
  /\ IF n \in nodes
     THEN UNCHANGED <<initialised, external, queue, edges, links, failed>>
     ELSE /\ initialised' = initialised \cup {n}
          /\ queue' = Append(queue, n)
          /\ Link(caller, n, site, initialised \cup {n})
          /\ UNCHANGED external

(* getOrCreateCallNode for a function in a context, then the edge; a new   *)
(* node whose body is expanded joins the queue.                            *)
CallFunction(caller, n, option, site) ==
  \E isNew \in {n \notin nodes} :
  \E expand \in {isNew /\ option = "EXPAND_BODY" /\ n.fn \in Defined} :
  \E built \in {IF expand THEN initialised \cup {n} ELSE initialised} :
    /\ nodes' = nodes \cup {n}
    /\ initialised' = built
    /\ external' = IF isNew /\ ~expand THEN external \cup {n} ELSE external
    /\ queue' = IF expand THEN Append(queue, n) ELSE queue
    /\ Link(caller, n, site, built)

-----------------------------------------------------------------------------
(* buildInitCallGraph: the entry function is the first node and is always  *)
(* expanded.                                                               *)
Init ==
  /\ prog \in ProgIds
  /\ contexts = {}
  /\ nodes = {Direct(InitialCtx, Entry)}
  /\ initialised = nodes
  /\ edges = {} /\ external = {} /\ resolved = {} /\ failed = {}
  /\ targets = <<>> /\ links = <<>>
  /\ queue = <<Direct(InitialCtx, Entry)>>
  /\ at = Idle

(* expandFromNode takes the next node from the queue.                      *)
NextNode ==
  /\ failed = {} /\ at = Idle /\ queue # <<>>
  /\ at' = [node |-> Head(queue), site |-> 0]
  /\ queue' = Tail(queue)
  /\ UNCHANGED <<prog, contexts, nodes, edges, initialised, external, targets,
                 resolved, links, failed>>

Visiting == failed = {} /\ at # Idle
HasMore  == at.site < Len(Body(at.node.fn))
Site     == Body(at.node.fn)[at.site + 1]
NextSite == at' = [at EXCEPT !.site = @ + 1]

LeaveNode ==
  /\ Visiting /\ ~HasMore
  /\ at' = Idle
  /\ UNCHANGED <<prog, contexts, nodes, edges, initialised, external, targets,
                 resolved, links, queue, failed>>

(* The callee of a call through a pointer is not known yet, and neither is *)
(* its context.                                                            *)
VisitInDirectCallSite ==
  /\ Visiting /\ HasMore /\ CallsPointer(Site)
  /\ CallThroughPointer(at.node, Site)
  /\ NextSite
  /\ UNCHANGED <<prog, contexts, resolved, queue>>

Evolved(caller, site) ==
  Evolve(contexts, Program[prog].clash, Program[prog].origins, caller.ctx, site)

VisitDirectCallSite ==
  /\ Visiting /\ HasMore /\ ~CallsPointer(Site)
  /\ \E evolved \in {Evolved(at.node, Site)}, r \in {Intercept(Call(Site).to, Site)} :
       /\ contexts' = evolved.pool
       /\ \/ /\ r.option = "IGNORE"
             /\ UNCHANGED <<nodes, edges, initialised, external, targets, links,
                            queue, failed>>
          \/ /\ r.option # "IGNORE" /\ r.to # NoFunction
             /\ CallFunction(at.node, Direct(evolved.ctx, r.to), r.option, Site)
             /\ UNCHANGED targets
          \/ /\ r.option # "IGNORE" /\ r.to = NoFunction
             /\ CallThroughPointer(at.node, Site)
             /\ UNCHANGED queue
  /\ NextSite
  /\ UNCHANGED <<prog, resolved>>
-----------------------------------------------------------------------------
(* Defect: a known target counts as new.                                   *)
Resolvable_Again(n, f) ==
  /\ f \in Call(n.inst).holds /\ Fits(n.inst, f)
  /\ Cardinality(targets[n] \ {f}) < Program[prog].limit

(* resolvedTo: a fitting target that is new to the node and still under    *)
(* the limit, which counts targets that are ignored later as well.         *)
Resolvable(n, f) ==
  /\ f \in Call(n.inst).holds /\ Fits(n.inst, f)
  /\ f \notin targets[n]
  /\ Cardinality(targets[n]) < Program[prog].limit

ResolveIn(n, caller, ctx, r) ==
  \/ /\ r.option = "IGNORE"
     /\ UNCHANGED <<nodes, edges, initialised, external, resolved, links, queue, failed>>
  \/ /\ r.option # "IGNORE" /\ r.to = NoFunction
     /\ failed' = {"callee is direct"}
     /\ UNCHANGED <<nodes, edges, initialised, external, resolved, links, queue>>
  \/ /\ r.option # "IGNORE" /\ r.to # NoFunction
     /\ <<n, Direct(ctx, r.to)>> \in resolved
     /\ failed' = {"resolved once"}
     /\ UNCHANGED <<nodes, edges, initialised, external, resolved, links, queue>>
  \/ /\ r.option # "IGNORE" /\ r.to # NoFunction
     /\ <<n, Direct(ctx, r.to)>> \notin resolved
     /\ resolved' = resolved \cup {<<n, Direct(ctx, r.to)>>}
     /\ CallFunction(caller, Direct(ctx, r.to), r.option, n.inst)

(* resolveCallTo: the caller gets an edge to the target; a new target is   *)
(* expanded before the next resolution.                                    *)
ResolveCallTo(n, f) ==
  /\ failed = {} /\ at = Idle /\ queue = <<>>
  /\ Resolvable(n, f)
  /\ targets' = [targets EXCEPT ![n] = @ \cup {f}]
  /\ \E callers \in {{e.from : e \in {e \in edges : e.to = n}}} :
     \/ /\ Cardinality(callers) # 1
        /\ failed' = {"one caller"}
        /\ UNCHANGED <<contexts, nodes, edges, initialised, external, resolved,
                       links, queue>>
     \/ /\ Cardinality(callers) = 1
        /\ \E caller \in callers : \E evolved \in {Evolved(caller, n.inst)} :
           /\ contexts' = evolved.pool
           /\ ResolveIn(n, caller, evolved.ctx, Intercept(f, n.inst))
  /\ UNCHANGED <<prog, at>>

IndirectNodes == {n \in nodes : IsIndirect(n)}
DirectNodes   == nodes \ IndirectNodes

Next ==
  \/ NextNode \/ LeaveNode \/ VisitInDirectCallSite \/ VisitDirectCallSite
  \/ \E n \in IndirectNodes, f \in Functions : ResolveCallTo(n, f)

Spec == Init /\ [][Next]_vars

(* The construction runs to its end, and the solver is started again until *)
(* no pointer has a new target.                                            *)
FairSpec == Spec /\ WF_vars(Next)

-----------------------------------------------------------------------------
TypeOK ==
  /\ prog \in ProgIds
  /\ contexts \subseteq Buffers
  /\ \A n \in nodes :
       /\ n.ctx \in contexts \cup {InitialCtx}
       /\ IF IsIndirect(n) THEN n.inst \in CallSites ELSE n.fn \in Functions
  /\ edges \subseteq [from : DirectNodes, to : nodes, inst : CallSites]
  /\ initialised \subseteq DirectNodes /\ external \subseteq DirectNodes
  /\ targets \in [IndirectNodes -> SUBSET Functions]
  /\ resolved \subseteq IndirectNodes \X DirectNodes
  /\ DOMAIN links \subseteq edges
  /\ queue \in Seq(initialised)
  /\ at.node \in initialised \cup {NoNode}

(* No assertion of CtxModule.h, CtxFunction.h, overrideCallSite and        *)
(* processCallSite about the call graph fails: a pointer call has one      *)
(* caller, is resolved to direct nodes and to each of them once; the       *)
(* caller's context, evolved again, is that of the callee, also when two   *)
(* contexts have the same hash; and the callee of an edge matches its call *)
(* site and has its parameters in the constraint graph by then.  The       *)
(* numbers and types of arguments are not modelled, nor the assertions     *)
(* that compare them: for a pointer call, isCompatibleCall (Fits) is all   *)
(* there is of them.                                                       *)
AssertionsHold == failed = {}

(* "both caller and callee have been initialized by OnNew(In)DirectCall":  *)
(* the parameters that processCallSite links exist (ConsGraphBuilder.h).   *)
CalleeIsInitialised == "formal parameter exists" \notin failed

(* "each call edge is only visited once": no edge is linked twice, however *)
(* functions recurse and pointers are resolved (OnNewCallEdge).            *)
LinkedOnce == \A e \in DOMAIN links : links[e] = 1

AtRest ==
  /\ at = Idle /\ queue = <<>>
  /\ \A n \in IndirectNodes, f \in Functions : ~Resolvable(n, f)

CalleesOf(n, site) ==
  {e.to.fn : e \in {e \in edges : e.from = n /\ e.inst = site /\ ~IsIndirect(e.to)}}

(* When nothing is left to do, every call site of every function in the    *)
(* call graph has edges to all its targets, in each of its contexts; a     *)
(* pointer call may only lack targets when it has reached the limit        *)
(* (visitCallNode, updateFunPtrs, resolvedTo).                             *)
CallsAreComplete ==
  AtRest =>
    \A n \in initialised : \A p \in 1 .. Len(Body(n.fn)) :
      LET site == Body(n.fn)[p]
          node == Indirect(n.ctx, site)
          fitting == {f \in Call(site).holds : Fits(site, f)}
      IN IF ~CallsPointer(site) /\ ~(Intercepted(site) /\ Call(site).start = NoFunction)
         THEN CalleesOf(n, site) =
                {Intercept(Call(site).to, site).to} \ {NoFunction}
         ELSE /\ CalleesOf(n, site) = targets[node] \ Intrinsics
              /\ targets[node] # fitting =>
                   Cardinality(targets[node]) = Program[prog].limit

(* The call graph reaches a function in a context only along calls of the  *)
(* program whose last K call sites are that context.                       *)
SitesOf(id, f) == LET b == Program[id].body[f] IN {b[p] : p \in 1 .. Len(b)}

MayCall(id, site) ==
  LET c == Program[id].call[site] IN
  IF c.to = NoFunction
  THEN (c.holds \ Intrinsics)
         \cup {f \in {c.start} \ {NoFunction} : PthreadCreate \in c.holds}
  ELSE IF c.to # PthreadCreate THEN {c.to} \ Intrinsics
       ELSE IF c.start # NoFunction THEN {c.start} ELSE c.holds

Extends(id, site) == site \in Program[id].origins

Alike(id, s) ==
  LET alike == {Filled(c) : c \in Program[id].clash} IN
  IF s \in alike THEN alike ELSE {s}

Strings == INSTANCE CallStrings WITH
  reached <- {<<CallString(n.ctx), n.fn>> : n \in DirectNodes}

ContextsAreCallStrings == Strings!Spec

(* The construction ends, also for recursive programs.                     *)
Terminates == <>(AtRest \/ failed # {})
-----------------------------------------------------------------------------
(***************************************************************************)
(* The inductive invariant behind the first four properties.               *)
(***************************************************************************)

(* A node is a function or a pointer call, in an interned context.         *)
Known ==
  /\ nodes \subseteq [ctx : contexts \cup {InitialCtx}, fn : Functions]
                       \cup [ctx : contexts \cup {InitialCtx}, inst : CallSites]
  /\ \A n \in DirectNodes : n.fn \in Defined <=> n \in initialised
  /\ at \in [node : initialised \cup {NoNode}, site : Nat]
  /\ at.node = NoNode => at = Idle

(* A function waits in the queue once, and not while it is visited.        *)
QueuedOnce ==
  /\ \A p, q \in DOMAIN queue : queue[p] = queue[q] => p = q
  /\ \A p \in DOMAIN queue : queue[p] # at.node

(* Whether call site p of a function has been visited.                     *)
Visited(n, p) ==
  /\ \A q \in DOMAIN queue : queue[q] # n
  /\ n = at.node => p <= at.site

(* The call sites whose callee the solver has to find, and the callee of   *)
(* the others; NoFunction for the ones that are ignored.                   *)
ThroughPointer(site) ==
  CallsPointer(site) \/ (Intercepted(site) /\ Call(site).start = NoFunction)
Target(site) == Intercept(Call(site).to, site).to

(* An edge belongs to a call site that has been visited, and leads to what *)
(* is called there; the callee of a pointer call was recorded as resolved. *)
IsCallEdge(e) ==
  /\ e.from \in initialised
  /\ \E p \in DOMAIN Body(e.from.fn) : e.inst = Body(e.from.fn)[p] /\ Visited(e.from, p)
  /\ IsIndirect(e.to) => ThroughPointer(e.inst) /\ e.to = Indirect(e.from.ctx, e.inst)
  /\ ~IsIndirect(e.to) /\ ~ThroughPointer(e.inst) => e.to.fn = Target(e.inst)
  /\ ~IsIndirect(e.to) /\ ThroughPointer(e.inst) =>
       <<Indirect(e.from.ctx, e.inst), e.to>> \in resolved
EdgesAreCalls == \A e \in edges : IsCallEdge(e)

PointersAreCalled == \A n \in IndirectNodes : \E e \in edges : e.to = n

Inv == TypeOK /\ Known /\ QueuedOnce /\ EdgesAreCalls /\ PointersAreCalled /\ LinkedOnce

(* What the construction can handle: threads run functions of the program  *)
(* that take one pointer, and no pointer holds pthread_create.             *)
Supported(id) ==
  \A s \in CallSites :
    LET c == Program[id].call[s] IN
    /\ PthreadCreate \notin c.holds
    /\ c.to = PthreadCreate =>
         /\ c.start \in (Defined \cap StartFunctions) \cup {NoFunction}
         /\ c.holds \cap StartFunctions \subseteq Defined \cup HeapAllocs \cup Intrinsics

(* A call site that has been visited has its edge.                         *)
VisitedIsCalled ==
  \A n \in initialised : \A p \in DOMAIN Body(n.fn) :
    LET site == Body(n.fn)[p] IN
    Visited(n, p) =>
      \/ ~ThroughPointer(site) /\ Target(site) = NoFunction
      \/ \E e \in edges :
           /\ e.from = n /\ e.inst = site
           /\ IsIndirect(e.to) <=> ThroughPointer(site)

(* The targets of a pointer call fit it, and those that are not ignored    *)
(* are its callees.                                                        *)
TargetsAreCallees ==
  \A n \in IndirectNodes :
    /\ targets[n] \subseteq {f \in Call(n.inst).holds : Fits(n.inst, f)}
    /\ IsFiniteSet(targets[n]) /\ Cardinality(targets[n]) <= Program[prog].limit
    /\ \A d \in DirectNodes :
         <<n, d>> \in resolved =>
           /\ d.fn \in targets[n] \ Intrinsics
           /\ \E e \in edges : e.to = d /\ e.inst = n.inst /\ e.from.ctx = n.ctx
    /\ \A f \in targets[n] \ Intrinsics :
         \E d \in DirectNodes : d.fn = f /\ <<n, d>> \in resolved

CallsInv == AssertionsHold /\ VisitedIsCalled /\ TargetsAreCallees

Expected == Supported(prog) => CallsInv

(* Behind the refinement: the slots of a context that no call site has     *)
(* filled yet are the first ones a loop over it reads.                     *)
EmptyFirst(ctx, empty) ==
  empty \in 0 .. K /\ \A i \in 1 .. K : Walk(ctx)[i] = NoSite <=> i <= empty
EmptiesFirst == \A ctx \in contexts \cup {InitialCtx} : \E empty \in 0 .. K : EmptyFirst(ctx, empty)

=============================================================================
