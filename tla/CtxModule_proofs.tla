-------------------------- MODULE CtxModule_proofs --------------------------
(***************************************************************************)
(* Proofs about the construction of the call graph, for any functions and  *)
(* programs, any length of the call strings and any clashes of their       *)
(* hashes.                                                                 *)
(***************************************************************************)
EXTENDS CtxModule, FiniteSetTheorems, SequenceTheorems, WellFoundedInduction, TLAPS

(***************************************************************************)
(* Contexts and nodes.                                                     *)
(***************************************************************************)

(* A ring buffer stays one when a call site is pushed.                     *)
LEMMA RingFacts ==
  /\ InitialCtx \in Buffers
  /\ \A ring \in Buffers, site \in CallSites : Push(ring, site) \in Buffers
<1>1. 0 \in 0 .. K - 1
  BY KAssumption
<1>2. \A i \in 0 .. K - 1 : ((i + 1) % K) \in 0 .. K - 1
  BY KAssumption
<1>3. InitialCtx \in Buffers
  BY <1>1 DEF InitialCtx, Buffers
<1>4. ASSUME NEW ring \in Buffers, NEW site \in CallSites
      PROVE  Push(ring, site) \in Buffers
  <2>1. ring.buffer \in [0 .. K - 1 -> CallSites \cup {NoSite}] /\ ring.last \in 0 .. K - 1
    BY DEF Buffers
  <2>2. [ring.buffer EXCEPT ![ring.last] = site] \in [0 .. K - 1 -> CallSites \cup {NoSite}]
    BY <2>1
  <2> QED
    BY <2>1, <2>2, <1>2 DEF Push, Buffers
<1> QED
  BY <1>3, <1>4

(* A callee gets an interned context or the one of its caller.             *)
LEMMA EvolveFacts ==
  ASSUME NEW pool \in SUBSET Buffers, NEW clash, NEW origins,
         NEW ctx \in pool \cup {InitialCtx}, NEW site \in CallSites
  PROVE  LET r == Evolve(pool, clash, origins, ctx, site) IN
         /\ pool \subseteq r.pool /\ r.pool \subseteq Buffers
         /\ r.ctx \in r.pool \cup {InitialCtx}
<1> DEFINE new == Push(ctx, site)
           same == {c \in pool : SameHash(clash, Walk(c), Walk(new))}
<1>1. new \in Buffers
  BY RingFacts
<1>2. same \subseteq pool
  OBVIOUS
<1>3. same # {} => (CHOOSE c \in same : TRUE) \in same
  OBVIOUS
<1>4. Evolve(pool, clash, origins, ctx, site) =
        IF site \notin origins THEN [ctx |-> ctx, pool |-> pool]
        ELSE IF same = {} THEN [ctx |-> new, pool |-> pool \cup {new}]
             ELSE [ctx |-> CHOOSE c \in same : TRUE, pool |-> pool]
  BY DEF Evolve
<1> HIDE DEF new, same
<1> QED
  BY <1>1, <1>2, <1>3, <1>4

(* The node of a function and the node of a pointer call.                  *)
LEMMA NodeKinds ==
  /\ \A C, F : \A n \in [ctx : C, fn : F] :
       ~IsIndirect(n) /\ n = Direct(n.ctx, n.fn) /\ n.ctx \in C /\ n.fn \in F
  /\ \A C, S : \A n \in [ctx : C, inst : S] :
       IsIndirect(n) /\ n = Indirect(n.ctx, n.inst) /\ n.ctx \in C /\ n.inst \in S
  /\ \A c, f : ~IsIndirect(Direct(c, f)) /\ Direct(c, f).ctx = c /\ Direct(c, f).fn = f
  /\ \A c, s : IsIndirect(Indirect(c, s)) /\ Indirect(c, s).ctx = c /\ Indirect(c, s).inst = s
  /\ \A C, F, c, f : c \in C /\ f \in F => Direct(c, f) \in [ctx : C, fn : F]
  /\ \A C, S, c, s : c \in C /\ s \in S => Indirect(c, s) \in [ctx : C, inst : S]
BY DEF IsIndirect, Direct, Indirect

(* The parts of a record of the call graph.                                *)
LEMMA InvFacts ==
  ASSUME Inv
  PROVE  /\ \A n \in DirectNodes :
              /\ n \in nodes /\ ~IsIndirect(n) /\ n = Direct(n.ctx, n.fn)
              /\ n.ctx \in contexts \cup {InitialCtx} /\ n.fn \in Functions
         /\ \A n \in IndirectNodes :
              /\ n \in nodes /\ IsIndirect(n) /\ n = Indirect(n.ctx, n.inst)
              /\ n.ctx \in contexts \cup {InitialCtx} /\ n.inst \in CallSites
         /\ \A n \in nodes : IsIndirect(n) <=> n \in IndirectNodes
         /\ \A n \in nodes : IsIndirect(n) <=> n \notin DirectNodes
         /\ initialised \subseteq DirectNodes
         /\ NoNode \notin nodes
         /\ \A e \in edges : /\ e = [from |-> e.from, to |-> e.to, inst |-> e.inst]
                             /\ e.from \in DirectNodes /\ e.to \in nodes /\ e.inst \in CallSites
         /\ prog \in ProgIds /\ contexts \in SUBSET Buffers
<1> DEFINE C == contexts \cup {InitialCtx}
<1>1. nodes \subseteq [ctx : C, fn : Functions] \cup [ctx : C, inst : CallSites]
  BY DEF Inv, Known
<1>2. \A n \in nodes : IF IsIndirect(n) THEN n \in [ctx : C, inst : CallSites]
                                        ELSE n \in [ctx : C, fn : Functions]
  BY <1>1, NodeKinds
<1>3. \A n \in nodes : IsIndirect(n) <=> n \in IndirectNodes
  BY DEF IndirectNodes
<1>4. \A n \in nodes : IsIndirect(n) <=> n \notin DirectNodes
  BY <1>3 DEF DirectNodes
<1>5. \A n \in DirectNodes : n \in nodes /\ ~IsIndirect(n)
  BY <1>4 DEF DirectNodes
<1>6. \A n \in IndirectNodes : n \in nodes /\ IsIndirect(n)
  BY DEF IndirectNodes
<1>7. ~IsIndirect(NoNode) /\ NoNode \notin [ctx : C, fn : Functions]
  BY FunctionsAssumption, NodeKinds DEF NoNode, IsIndirect
<1>8. initialised \subseteq DirectNodes /\ prog \in ProgIds /\ contexts \in SUBSET Buffers
      /\ edges \subseteq [from : DirectNodes, to : nodes, inst : CallSites]
  BY DEF Inv, TypeOK
<1>9. NoNode \notin nodes
  BY <1>2, <1>7
<1> HIDE DEF C
<1>10. ASSUME NEW n \in DirectNodes
       PROVE  n = Direct(n.ctx, n.fn) /\ n.ctx \in C /\ n.fn \in Functions
  <2>1. n \in [ctx : C, fn : Functions]
    BY <1>2, <1>5
  <2> QED
    BY <2>1 DEF Direct
<1>11. ASSUME NEW n \in IndirectNodes
       PROVE  n = Indirect(n.ctx, n.inst) /\ n.ctx \in C /\ n.inst \in CallSites
  <2>1. n \in [ctx : C, inst : CallSites]
    BY <1>2, <1>6
  <2> QED
    BY <2>1 DEF Indirect
<1>12. \A e \in edges : /\ e = [from |-> e.from, to |-> e.to, inst |-> e.inst]
                        /\ e.from \in DirectNodes /\ e.to \in nodes /\ e.inst \in CallSites
  BY <1>8
<1> QED
  BY <1>3, <1>4, <1>5, <1>6, <1>8, <1>9, <1>10, <1>11, <1>12 DEF C

(* The call sites of a body; none is in two places.                        *)
LEMMA SiteFacts ==
  ASSUME Inv
  PROVE  /\ \A n \in DirectNodes : Body(n.fn) \in Seq(CallSites)
         /\ \A n \in DirectNodes : \A p \in DOMAIN Body(n.fn) :
              p \in Nat /\ Body(n.fn)[p] \in CallSites
         /\ \A m, n \in DirectNodes : \A p \in DOMAIN Body(m.fn), q \in DOMAIN Body(n.fn) :
              Body(m.fn)[p] = Body(n.fn)[q] => m.fn = n.fn /\ p = q
<1>1. prog \in ProgIds /\ \A n \in DirectNodes : n.fn \in Functions
  BY InvFacts
<1>2. \A f \in Functions : Body(f) \in Seq(CallSites)
  BY <1>1, ProgramAssumption DEF Body
<1>3. \A f, g \in Functions : \A p \in DOMAIN Body(f), q \in DOMAIN Body(g) :
        Body(f)[p] = Body(g)[q] => f = g /\ p = q
  BY <1>1, ProgramAssumption DEF Body
<1>4. \A s \in Seq(CallSites) : \A p \in DOMAIN s : p \in Nat /\ s[p] \in CallSites
  OBVIOUS
<1> QED
  BY <1>1, <1>2, <1>3, <1>4

(* What a call is turned into.                                             *)
LEMMA InterceptFacts ==
  ASSUME prog \in ProgIds, NEW f \in Functions, NEW site \in CallSites
  PROVE  LET r == Intercept(f, site) IN
         /\ r.to \in Functions \cup {NoFunction}
         /\ r.to \in Defined => r.option = "EXPAND_BODY"
         /\ r.option = "IGNORE" <=> f \in Intrinsics
         /\ f \in Intrinsics => r.to = NoFunction
         /\ f \notin Intrinsics /\ f # PthreadCreate => r.to = f
         /\ f = PthreadCreate => r.to = Call(site).start
<1>1. Call(site).start \in Functions \cup {NoFunction}
  BY ProgramAssumption DEF Call
<1>2. CASE f \in HeapAllocs
  <2>1. f \notin Intrinsics /\ f # PthreadCreate /\ f \notin Defined
    BY <1>2, FunctionsAssumption
  <2>2. Intercept(f, site) = [option |-> "ONLY_CALLSITE", to |-> f]
    BY <1>2, <2>1 DEF Intercept
  <2> QED
    BY <2>1, <2>2
<1>3. CASE f \in Intrinsics
  <2>1. f \notin HeapAllocs /\ f # PthreadCreate /\ NoFunction \notin Defined
    BY <1>3, FunctionsAssumption
  <2>2. Intercept(f, site) = [option |-> "IGNORE", to |-> NoFunction]
    BY <1>3, <2>1 DEF Intercept
  <2> QED
    BY <2>1, <2>2, <1>3
<1>4. CASE f = PthreadCreate
  <2>1. f \notin HeapAllocs /\ f \notin Intrinsics
    BY <1>4, FunctionsAssumption
  <2>2. Intercept(f, site) = [option |-> "EXPAND_BODY", to |-> Call(site).start]
    BY <1>4, <2>1 DEF Intercept
  <2> QED
    BY <2>1, <2>2, <1>1, <1>4
<1>5. CASE f \notin HeapAllocs \cup Intrinsics \cup {PthreadCreate}
  <2>1. Intercept(f, site) = [option |-> "EXPAND_BODY", to |-> f]
    BY <1>5 DEF Intercept
  <2> QED
    BY <2>1, <1>5
<1> QED
  BY <1>2, <1>3, <1>4, <1>5

(* When the callee of a direct call site has to be found by the solver.    *)
LEMMA ThroughPointerFacts ==
  ASSUME prog \in ProgIds, NEW site \in CallSites, ~CallsPointer(site)
  PROVE  LET r == Intercept(Call(site).to, site) IN
         /\ Call(site).to \in Functions
         /\ ThroughPointer(site) <=> r.option # "IGNORE" /\ r.to = NoFunction
         /\ r.option = "IGNORE" => r.to = NoFunction
<1>1. Call(site).to \in Functions
  BY ProgramAssumption DEF Call, CallsPointer
<1>2. NoFunction \notin Functions /\ PthreadCreate \notin Intrinsics
  BY FunctionsAssumption
<1> QED
  BY <1>1, <1>2, InterceptFacts DEF ThroughPointer, Intercepted

(***************************************************************************)
(* The steps.                                                              *)
(***************************************************************************)

(* The program does not change.                                            *)
LEMMA SameProgram ==
  ASSUME prog' = prog
  PROVE  /\ \A f : Body(f)' = Body(f)
         /\ \A s : Call(s)' = Call(s)
         /\ \A s : ThroughPointer(s)' <=> ThroughPointer(s)
         /\ \A s : Target(s)' = Target(s)
<1>1. \A s : Call(s)' = Call(s)
  BY DEF Call
<1>2. \A s : ThroughPointer(s)' <=> ThroughPointer(s)
  BY <1>1 DEF ThroughPointer, CallsPointer, Intercepted
<1>3. \A f, s : Intercept(f, s)' = Intercept(f, s)
  BY <1>1 DEF Intercept
<1>4. \A s : Target(s)' = Target(s)
  BY <1>1, <1>3 DEF Target
<1> QED
  BY <1>1, <1>2, <1>4 DEF Body

(* createEdge.                                                             *)
LEMMA LinkFacts ==
  ASSUME NEW caller, NEW callee, NEW site, NEW built, Link(caller, callee, site, built)
  PROVE  LET e == [from |-> caller, to |-> callee, inst |-> site] IN
         /\ edges' = edges \cup {e}
         /\ IsIndirect(callee) => links' = links /\ failed' = failed
         /\ ~IsIndirect(callee) =>
              /\ failed' = failed \cup LinkFailures(caller, callee, site, built, contexts')
              /\ DOMAIN links' = DOMAIN links \cup {e}
              /\ e \notin DOMAIN links =>
                   links'[e] = 1 /\ \A x \in DOMAIN links : links'[x] = links[x]
<1> DEFINE e == [from |-> caller, to |-> callee, inst |-> site]
<1>1. edges' = edges \cup {e}
  BY DEF Link
<1>2. IsIndirect(callee) => links' = links /\ failed' = failed
  BY DEF Link
<1>3. ASSUME ~IsIndirect(callee)
      PROVE  /\ failed' = failed \cup LinkFailures(caller, callee, site, built, contexts')
             /\ links' = IF e \in DOMAIN links THEN [links EXCEPT ![e] = @ + 1]
                         ELSE [x \in DOMAIN links \cup {e} |-> IF x = e THEN 1 ELSE links[x]]
  BY <1>3 DEF Link
<1> HIDE DEF e
<1>4. ASSUME ~IsIndirect(callee)
      PROVE  /\ DOMAIN links' = DOMAIN links \cup {e}
             /\ e \notin DOMAIN links =>
                  links'[e] = 1 /\ \A x \in DOMAIN links : links'[x] = links[x]
  <2>1. CASE e \in DOMAIN links
    BY <1>3, <1>4, <2>1
  <2>2. CASE e \notin DOMAIN links
    BY <1>3, <1>4, <2>2
  <2> QED
    BY <2>1, <2>2
<1> QED
  BY <1>1, <1>2, <1>3, <1>4 DEF e

(* getOrCreateCallNode.                                                    *)
LEMMA CallFunctionFacts ==
  ASSUME NEW caller, NEW n, NEW option, NEW site, CallFunction(caller, n, option, site)
  PROVE  /\ nodes' = nodes \cup {n}
         /\ Link(caller, n, site, initialised')
         /\ n \notin nodes /\ option = "EXPAND_BODY" /\ n.fn \in Defined =>
              /\ initialised' = initialised \cup {n} /\ external' = external
              /\ queue' = Append(queue, n)
         /\ ~(n \notin nodes /\ option = "EXPAND_BODY" /\ n.fn \in Defined) =>
              /\ initialised' = initialised /\ queue' = queue
              /\ external \subseteq external' /\ external' \subseteq external \cup {n}
BY DEF CallFunction

(* getOrCreateInDirectCallNode.                                            *)
LEMMA CallThroughPointerFacts ==
  ASSUME NEW caller, NEW site, CallThroughPointer(caller, site),
         targets \in [IndirectNodes -> SUBSET Functions]
  PROVE  LET n == Indirect(caller.ctx, site) IN
         /\ nodes' = nodes \cup {n}
         /\ edges' = edges \cup {[from |-> caller, to |-> n, inst |-> site]}
         /\ links' = links /\ failed' = failed
         /\ initialised' = initialised /\ external' = external
         /\ targets' \in [IndirectNodes \cup {n} -> SUBSET Functions]
         /\ \A x \in IndirectNodes : targets'[x] = targets[x]
         /\ n \notin nodes => targets'[n] = {}
<1> DEFINE n == Indirect(caller.ctx, site)
<1>1. IsIndirect(n)
  BY NodeKinds
<1>2. /\ nodes' = nodes \cup {n}
      /\ initialised' = initialised /\ external' = external
      /\ Link(caller, n, site, initialised)
      /\ targets' = IF n \in nodes THEN targets
                    ELSE [x \in DOMAIN targets \cup {n} |-> IF x = n THEN {} ELSE targets[x]]
  BY DEF CallThroughPointer
<1>3. n \in nodes <=> n \in IndirectNodes
  BY <1>1 DEF IndirectNodes
<1> HIDE DEF n
<1>4. /\ edges' = edges \cup {[from |-> caller, to |-> n, inst |-> site]}
      /\ links' = links /\ failed' = failed
  BY <1>1, <1>2, LinkFacts
<1>5. CASE n \in nodes
  <2>1. targets' = targets /\ IndirectNodes \cup {n} = IndirectNodes
    BY <1>2, <1>3, <1>5
  <2> QED
    BY <1>2, <1>4, <1>5, <2>1 DEF n
<1>6. CASE n \notin nodes
  <2>1. targets' = [x \in IndirectNodes \cup {n} |-> IF x = n THEN {} ELSE targets[x]]
    BY <1>2, <1>6
  <2>2. n \notin IndirectNodes
    BY <1>3, <1>6
  <2>3. targets' \in [IndirectNodes \cup {n} -> SUBSET Functions]
        /\ targets'[n] = {} /\ \A x \in IndirectNodes : targets'[x] = targets[x]
    BY <2>1, <2>2
  <2> QED
    BY <1>2, <1>4, <1>6, <2>3 DEF n
<1> QED
  BY <1>5, <1>6

(* A new node is of one kind.                                              *)
LEMMA NodesGrow ==
  ASSUME NEW n, nodes' = nodes \cup {n}
  PROVE  /\ IsIndirect(n) => IndirectNodes' = IndirectNodes \cup {n} /\ DirectNodes' = DirectNodes
         /\ ~IsIndirect(n) => IndirectNodes' = IndirectNodes /\ DirectNodes' = DirectNodes \cup {n}
BY DEF IndirectNodes, DirectNodes

(* A visited call site stays visited, and the next one may join them.      *)
LEMMA VisitedFacts ==
  ASSUME Inv, at' = at \/ at' = [at EXCEPT !.site = @ + 1],
         \/ queue' = queue
         \/ \E m : m \notin nodes /\ queue' = Append(queue, m)
  PROVE  /\ \A n \in nodes : \A p \in Nat : Visited(n, p) => Visited(n, p)'
         /\ \A n \in nodes : \A p \in Nat :
              Visited(n, p)' => Visited(n, p) \/ (at' # at /\ n = at.node /\ p = at.site + 1)
<1>1. at \in [node : initialised \cup {NoNode}, site : Nat] /\ queue \in Seq(initialised)
  BY DEF Inv, Known, TypeOK
<1>2. at'.node = at.node /\ at.site \in Nat /\ (at'.site = at.site \/ at'.site = at.site + 1)
      /\ (at'.site = at.site => at' = at)
  BY <1>1
<1>3. ASSUME NEW n \in nodes
      PROVE  (\A q \in DOMAIN queue : queue[q] # n) <=> (\A q \in DOMAIN queue' : queue'[q] # n)
  <2>1. CASE queue' = queue
    BY <2>1
  <2>2. CASE \E m : m \notin nodes /\ queue' = Append(queue, m)
    <3>1. PICK m : m \notin nodes /\ queue' = Append(queue, m)
      BY <2>2
    <3>2. /\ DOMAIN queue = 1 .. Len(queue) /\ Len(queue) \in Nat
          /\ DOMAIN queue' = 1 .. Len(queue) + 1
          /\ \A q \in 1 .. Len(queue) : queue'[q] = queue[q]
          /\ queue'[Len(queue) + 1] = m
      BY <1>1, <3>1
    <3>3. m # n
      BY <3>1
    <3>4. \A q \in DOMAIN queue' : q \in DOMAIN queue \/ queue'[q] = m
      BY <3>2
    <3>5. \A q \in DOMAIN queue : q \in DOMAIN queue' /\ queue'[q] = queue[q]
      BY <3>2
    <3> QED
      BY <3>3, <3>4, <3>5
  <2> QED
    BY <2>1, <2>2
<1>4. ASSUME NEW n \in nodes, NEW p \in Nat, Visited(n, p)
      PROVE  Visited(n, p)'
  <2>1. (\A q \in DOMAIN queue : queue[q] # n) /\ (n = at.node => p <= at.site)
    BY <1>4 DEF Visited
  <2>2. n = at'.node => p <= at'.site
    BY <2>1, <1>2
  <2> QED
    BY <2>1, <2>2, <1>3 DEF Visited
<1>5. ASSUME NEW n \in nodes, NEW p \in Nat, Visited(n, p)'
      PROVE  Visited(n, p) \/ (at' # at /\ n = at.node /\ p = at.site + 1)
  <2>1. (\A q \in DOMAIN queue' : queue'[q] # n) /\ (n = at'.node => p <= at'.site)
    BY <1>5 DEF Visited
  <2>2. (n = at.node => p <= at.site) \/ (at' # at /\ n = at.node /\ p = at.site + 1)
    BY <2>1, <1>2
  <2> QED
    BY <2>1, <2>2, <1>3 DEF Visited
<1> QED
  BY <1>4, <1>5

(***************************************************************************)
(* The invariant.                                                          *)
(***************************************************************************)

(* An edge keeps what is said of it.                                       *)
LEMMA CallEdgesStay ==
  ASSUME Inv, prog' = prog, initialised \subseteq initialised', resolved \subseteq resolved',
         \A n \in nodes : \A p \in Nat : Visited(n, p) => Visited(n, p)'
  PROVE  \A e \in edges : IsCallEdge(e)'
<1> TAKE e \in edges
<1>1. IsCallEdge(e)
  BY DEF Inv, EdgesAreCalls
<1>2. \A p \in DOMAIN Body(e.from.fn) : e.from \in nodes /\ p \in Nat
  BY InvFacts, SiteFacts
<1>3. \E p \in DOMAIN Body(e.from.fn) : e.inst = Body(e.from.fn)[p] /\ Visited(e.from, p)'
  BY <1>1, <1>2 DEF IsCallEdge
<1>4. /\ e.from \in initialised'
      /\ IsIndirect(e.to) => ThroughPointer(e.inst)' /\ e.to = Indirect(e.from.ctx, e.inst)
      /\ ~IsIndirect(e.to) /\ ~(ThroughPointer(e.inst)') => e.to.fn = Target(e.inst)'
      /\ ~IsIndirect(e.to) /\ ThroughPointer(e.inst)' =>
           <<Indirect(e.from.ctx, e.inst), e.to>> \in resolved'
  BY <1>1, SameProgram DEF IsCallEdge
<1> QED
  BY <1>3, <1>4, SameProgram DEF IsCallEdge

(* A call that is ignored, or that fails an assertion, adds nothing.       *)
LEMMA QuietInv ==
  ASSUME Inv, prog' = prog, contexts \subseteq contexts', contexts' \in SUBSET Buffers,
         UNCHANGED <<nodes, edges, initialised, external, resolved, links, queue>>,
         targets' \in [IndirectNodes -> SUBSET Functions],
         \/ at' = at
         \/ at.node \in initialised /\ at' = [at EXCEPT !.site = @ + 1]
  PROVE  Inv'
<1>1. IndirectNodes' = IndirectNodes /\ DirectNodes' = DirectNodes
  BY DEF IndirectNodes, DirectNodes
<1>2. TypeOK /\ Known /\ QueuedOnce /\ EdgesAreCalls /\ PointersAreCalled /\ LinkedOnce
  BY DEF Inv
<1>3. at \in [node : initialised \cup {NoNode}, site : Nat] /\ (at.node = NoNode => at = Idle)
  BY <1>2 DEF Known
<1>4. at' \in [node : initialised \cup {NoNode}, site : Nat] /\ at'.node = at.node
  BY <1>3
<1>5. at.node \in initialised => at.node # NoNode
  BY InvFacts
<1>6. at'.node = NoNode => at' = Idle
  BY <1>3, <1>4, <1>5
<1>7. TypeOK'
  <2>1. \A n \in nodes' : /\ n.ctx \in contexts' \cup {InitialCtx}
                          /\ IF IsIndirect(n) THEN n.inst \in CallSites ELSE n.fn \in Functions
    BY <1>2 DEF TypeOK
  <2>2. /\ edges' \subseteq [from : DirectNodes', to : nodes', inst : CallSites]
        /\ initialised' \subseteq DirectNodes' /\ external' \subseteq DirectNodes'
        /\ resolved' \subseteq IndirectNodes' \X DirectNodes'
        /\ DOMAIN links' \subseteq edges' /\ queue' \in Seq(initialised') /\ prog' \in ProgIds
    BY <1>1, <1>2 DEF TypeOK
  <2>3. at'.node \in initialised' \cup {NoNode}
    BY <1>4
  <2> QED
    BY <2>1, <2>2, <2>3, <1>1 DEF TypeOK
<1>8. Known'
  <2>1. nodes' \subseteq [ctx : contexts' \cup {InitialCtx}, fn : Functions]
                           \cup [ctx : contexts' \cup {InitialCtx}, inst : CallSites]
    BY <1>2 DEF Known
  <2>2. \A n \in DirectNodes' : n.fn \in Defined <=> n \in initialised'
    BY <1>1, <1>2 DEF Known
  <2> QED
    BY <2>1, <2>2, <1>4, <1>6 DEF Known
<1>9. QueuedOnce'
  BY <1>2, <1>4 DEF QueuedOnce
<1>10. EdgesAreCalls'
  <2>1. \A n \in nodes : \A p \in Nat : Visited(n, p) => Visited(n, p)'
    <3>1. at' = at \/ at' = [at EXCEPT !.site = @ + 1]
      OBVIOUS
    <3>2. queue' = queue
      OBVIOUS
    <3> QED
      BY <3>1, <3>2, VisitedFacts
  <2> QED
    BY <2>1, CallEdgesStay DEF EdgesAreCalls
<1>11. PointersAreCalled'
  BY <1>1, <1>2 DEF PointersAreCalled
<1>12. LinkedOnce'
  BY <1>2 DEF LinkedOnce
<1> QED
  BY <1>7, <1>8, <1>9, <1>10, <1>11, <1>12 DEF Inv

(* A call through a pointer.                                               *)
LEMMA PointerInv ==
  ASSUME Inv, prog' = prog, contexts \subseteq contexts', contexts' \in SUBSET Buffers,
         resolved' = resolved, queue' = queue,
         NEW caller \in initialised, caller = at.node, at' = [at EXCEPT !.site = @ + 1],
         NEW p \in DOMAIN Body(caller.fn), p = at.site + 1,
         NEW site, site = Body(caller.fn)[p], ThroughPointer(site),
         CallThroughPointer(caller, site)
  PROVE  Inv'
<1> DEFINE n == Indirect(caller.ctx, site)
           e == [from |-> caller, to |-> n, inst |-> site]
<1>1. TypeOK /\ Known /\ QueuedOnce /\ EdgesAreCalls /\ PointersAreCalled /\ LinkedOnce
  BY DEF Inv
<1>2. at \in [node : initialised \cup {NoNode}, site : Nat] /\ (at.node = NoNode => at = Idle)
  BY <1>1 DEF Known
<1>3. caller \in DirectNodes /\ caller \in nodes /\ caller # NoNode
      /\ caller.ctx \in contexts \cup {InitialCtx} /\ site \in CallSites
  BY InvFacts, SiteFacts
<1>4. /\ IsIndirect(n) /\ n.ctx = caller.ctx /\ n.inst = site
      /\ n \in [ctx : contexts' \cup {InitialCtx}, inst : CallSites]
  <2>1. caller.ctx \in contexts' \cup {InitialCtx}
    BY <1>3
  <2> QED
    BY <2>1, <1>3, NodeKinds DEF Indirect
<1>5. targets \in [IndirectNodes -> SUBSET Functions]
  BY <1>1 DEF TypeOK
<1>6. /\ nodes' = nodes \cup {n}
      /\ edges' = edges \cup {e}
      /\ links' = links /\ failed' = failed
      /\ initialised' = initialised /\ external' = external
      /\ targets' \in [IndirectNodes \cup {n} -> SUBSET Functions]
  BY <1>5, CallThroughPointerFacts
<1>7. e.from = caller /\ e.to = n /\ e.inst = site
  OBVIOUS
<1> HIDE DEF n
<1>8. IndirectNodes' = IndirectNodes \cup {n} /\ DirectNodes' = DirectNodes
  BY <1>4, <1>6, NodesGrow
<1>9. at' \in [node : initialised \cup {NoNode}, site : Nat] /\ at'.node = at.node
      /\ at'.site = at.site + 1
  BY <1>2
<1>10. TypeOK'
  <2>1. \A m \in nodes' : /\ m.ctx \in contexts' \cup {InitialCtx}
                          /\ IF IsIndirect(m) THEN m.inst \in CallSites ELSE m.fn \in Functions
    <3>1. \A m \in nodes : /\ m.ctx \in contexts \cup {InitialCtx}
                           /\ IF IsIndirect(m) THEN m.inst \in CallSites ELSE m.fn \in Functions
      BY <1>1 DEF TypeOK
    <3>2. n.ctx \in contexts' \cup {InitialCtx} /\ n.inst \in CallSites
      BY <1>4
    <3> QED
      BY <3>1, <3>2, <1>4, <1>6
  <2>2. e \in [from : DirectNodes', to : nodes', inst : CallSites]
    BY <1>3, <1>6, <1>8
  <2>3. /\ edges \subseteq [from : DirectNodes, to : nodes, inst : CallSites]
        /\ initialised' \subseteq DirectNodes' /\ external' \subseteq DirectNodes'
        /\ resolved \subseteq IndirectNodes \X DirectNodes
        /\ DOMAIN links' \subseteq edges /\ queue' \in Seq(initialised') /\ prog' \in ProgIds
    BY <1>1, <1>6, <1>8 DEF TypeOK
  <2>4. edges' \subseteq [from : DirectNodes', to : nodes', inst : CallSites]
    <3>1. edges \subseteq [from : DirectNodes', to : nodes', inst : CallSites]
      BY <2>3, <1>6, <1>8
    <3> HIDE DEF e
    <3> QED
      BY <2>2, <3>1, <1>6
  <2>5. resolved' \subseteq IndirectNodes' \X DirectNodes'
    BY <2>3, <1>8
  <2>6. targets' \in [IndirectNodes' -> SUBSET Functions] /\ DOMAIN links' \subseteq edges'
    BY <2>3, <1>6, <1>8
  <2>7. at'.node \in initialised' \cup {NoNode}
    BY <1>6, <1>9
  <2> QED
    BY <2>1, <2>3, <2>4, <2>5, <2>6, <2>7 DEF TypeOK
<1>11. Known'
  <2>1. nodes' \subseteq [ctx : contexts' \cup {InitialCtx}, fn : Functions]
                           \cup [ctx : contexts' \cup {InitialCtx}, inst : CallSites]
    <3>1. nodes \subseteq [ctx : contexts \cup {InitialCtx}, fn : Functions]
                             \cup [ctx : contexts \cup {InitialCtx}, inst : CallSites]
      BY <1>1 DEF Known
    <3>2. nodes \subseteq [ctx : contexts' \cup {InitialCtx}, fn : Functions]
                             \cup [ctx : contexts' \cup {InitialCtx}, inst : CallSites]
      BY <3>1
    <3> QED
      BY <3>2, <1>4, <1>6
  <2>2. \A m \in DirectNodes' : m.fn \in Defined <=> m \in initialised'
    BY <1>1, <1>6, <1>8 DEF Known
  <2> QED
    BY <2>1, <2>2, <1>3, <1>6, <1>9 DEF Known
<1>12. QueuedOnce'
  BY <1>1, <1>9 DEF QueuedOnce
<1>13. EdgesAreCalls'
  <2>1. \A m \in nodes : \A q \in Nat : Visited(m, q) => Visited(m, q)'
    <3>1. queue' = queue
      OBVIOUS
    <3> QED
      BY <3>1, VisitedFacts
  <2>2. \A f \in edges : IsCallEdge(f)'
    BY <2>1, <1>6, CallEdgesStay
  <2>3. Visited(caller, p)'
    <3>1. \A q \in DOMAIN queue' : queue'[q] # caller
      BY <1>1 DEF QueuedOnce
    <3> QED
      BY <3>1, <1>9 DEF Visited
  <2>4. IsCallEdge(e)'
    <3>1. e.from \in initialised' /\ e.inst = Body(e.from.fn)'[p]
      BY <1>6, <1>7, SameProgram
    <3>2. ThroughPointer(e.inst)' /\ e.to = Indirect(e.from.ctx, e.inst) /\ IsIndirect(e.to)
      BY <1>4, <1>7, SameProgram DEF n
    <3>3. p \in DOMAIN (Body(e.from.fn)') /\ Visited(e.from, p)'
      BY <2>3, <1>7, SameProgram
    <3> HIDE DEF e
    <3> QED
      BY <3>1, <3>2, <3>3 DEF IsCallEdge
  <2> HIDE DEF e
  <2> QED
    BY <2>2, <2>4, <1>6 DEF EdgesAreCalls
<1>14. PointersAreCalled'
  <2>1. \A m \in IndirectNodes : \E f \in edges : f.to = m
    BY <1>1 DEF PointersAreCalled
  <2> HIDE DEF e
  <2> QED
    BY <2>1, <1>6, <1>7, <1>8 DEF PointersAreCalled
<1>15. LinkedOnce'
  BY <1>1, <1>6 DEF LinkedOnce
<1> QED
  BY <1>10, <1>11, <1>12, <1>13, <1>14, <1>15 DEF Inv

(* A call of a function, either at the call site that is visited or        *)
(* through a pointer that has a new target.                                *)
CallOf(caller, p, site, callee) ==
  \/ /\ ~ThroughPointer(site) /\ callee.fn = Target(site)
     /\ caller = at.node /\ p = at.site + 1 /\ at' = [at EXCEPT !.site = @ + 1]
     /\ resolved' = resolved
  \/ /\ ThroughPointer(site) /\ Indirect(caller.ctx, site) \in IndirectNodes
     /\ Visited(caller, p) /\ at' = at
     /\ <<Indirect(caller.ctx, site), callee>> \notin resolved
     /\ resolved' = resolved \cup {<<Indirect(caller.ctx, site), callee>>}

(* It adds an edge that was not there.                                     *)
LEMMA NewEdge ==
  ASSUME Inv, NEW caller \in initialised, NEW p \in DOMAIN Body(caller.fn),
         NEW site, site = Body(caller.fn)[p], NEW callee, ~IsIndirect(callee),
         CallOf(caller, p, site, callee)
  PROVE  [from |-> caller, to |-> callee, inst |-> site] \notin edges
<1> DEFINE e == [from |-> caller, to |-> callee, inst |-> site]
<1>1. e.from = caller /\ e.to = callee /\ e.inst = site
  OBVIOUS
<1> HIDE DEF e
<1> SUFFICES ASSUME e \in edges PROVE FALSE
  BY DEF e
<1>2. IsCallEdge(e) /\ caller \in DirectNodes
  BY InvFacts DEF Inv, EdgesAreCalls
<1>3. PICK q \in DOMAIN Body(caller.fn) : site = Body(caller.fn)[q] /\ Visited(caller, q)
  BY <1>1, <1>2 DEF IsCallEdge
<1>4. q = p /\ p \in Nat
  BY <1>2, <1>3, SiteFacts
<1>5. CASE ~ThroughPointer(site) /\ caller = at.node /\ p = at.site + 1
  <2>1. p <= at.site /\ at.site \in Nat
    BY <1>3, <1>4, <1>5 DEF Visited, Inv, Known
  <2> QED
    BY <2>1, <1>5
<1>6. CASE ThroughPointer(site) /\ <<Indirect(caller.ctx, site), callee>> \notin resolved
  BY <1>1, <1>2, <1>6 DEF IsCallEdge
<1> QED
  BY <1>5, <1>6 DEF CallOf

LEMMA FunctionInv ==
  ASSUME Inv, prog' = prog, contexts \subseteq contexts', contexts' \in SUBSET Buffers,
         NEW caller \in initialised, NEW p \in DOMAIN Body(caller.fn),
         NEW site, site = Body(caller.fn)[p],
         NEW ctx \in contexts' \cup {InitialCtx}, NEW f \in Functions,
         NEW option, f \in Defined => option = "EXPAND_BODY",
         CallOf(caller, p, site, Direct(ctx, f)),
         CallFunction(caller, Direct(ctx, f), option, site),
         targets' \in [IndirectNodes -> SUBSET Functions]
  PROVE  Inv'
<1> DEFINE n == Direct(ctx, f)
           e == [from |-> caller, to |-> n, inst |-> site]
<1>1. TypeOK /\ Known /\ QueuedOnce /\ EdgesAreCalls /\ PointersAreCalled /\ LinkedOnce
  BY DEF Inv
<1>2. at \in [node : initialised \cup {NoNode}, site : Nat] /\ (at.node = NoNode => at = Idle)
  BY <1>1 DEF Known
<1>3. caller \in DirectNodes /\ caller \in nodes /\ caller # NoNode /\ site \in CallSites
      /\ p \in Nat
  BY InvFacts, SiteFacts
<1>4. ~IsIndirect(n) /\ n.ctx = ctx /\ n.fn = f
      /\ n \in [ctx : contexts' \cup {InitialCtx}, fn : Functions]
  BY NodeKinds DEF Direct
<1>5. targets \in [IndirectNodes -> SUBSET Functions]
  BY <1>1 DEF TypeOK
<1>6. /\ nodes' = nodes \cup {n}
      /\ Link(caller, n, site, initialised')
      /\ n \notin nodes /\ option = "EXPAND_BODY" /\ n.fn \in Defined =>
           /\ initialised' = initialised \cup {n} /\ external' = external
           /\ queue' = Append(queue, n)
      /\ ~(n \notin nodes /\ option = "EXPAND_BODY" /\ n.fn \in Defined) =>
           /\ initialised' = initialised /\ queue' = queue
           /\ external \subseteq external' /\ external' \subseteq external \cup {n}
  <2>1. CallFunction(caller, n, option, site)
    OBVIOUS
  <2> HIDE DEF n
  <2> QED
    BY <2>1, CallFunctionFacts
<1>7. CallOf(caller, p, site, n)
  OBVIOUS
<1>8. e.from = caller /\ e.to = n /\ e.inst = site
  OBVIOUS
<1> HIDE DEF n
<1>9. e \notin edges
  BY <1>4, <1>7, NewEdge
<1>10. /\ edges' = edges \cup {e}
       /\ DOMAIN links' = DOMAIN links \cup {e}
       /\ e \notin DOMAIN links =>
            links'[e] = 1 /\ \A x \in DOMAIN links : links'[x] = links[x]
  <2>1. PICK built : built = initialised'
    OBVIOUS
  <2>2. Link(caller, n, site, built)
    BY <1>6, <2>1
  <2> HIDE DEF e
  <2>3. e = [from |-> caller, to |-> n, inst |-> site]
    BY DEF e
  <2>4. edges' = edges \cup {e}
    BY <2>2, <2>3 DEF Link
  <2>5. links' = IF e \in DOMAIN links THEN [links EXCEPT ![e] = @ + 1]
                 ELSE [x \in DOMAIN links \cup {e} |-> IF x = e THEN 1 ELSE links[x]]
    BY <1>4, <2>2, <2>3 DEF Link
  <2> QED
    BY <2>4, <2>5
<1>11. IndirectNodes' = IndirectNodes /\ DirectNodes' = DirectNodes \cup {n}
  BY <1>4, <1>6, NodesGrow
<1>12. /\ initialised \subseteq initialised' /\ initialised' \subseteq initialised \cup {n}
       /\ external' \subseteq external \cup {n}
       /\ n.fn \in Defined <=> n \in initialised'
  <2>1. n \in nodes => n \in DirectNodes
    BY <1>4, InvFacts
  <2>2. n \in DirectNodes => (n.fn \in Defined <=> n \in initialised)
    BY <1>1 DEF Known
  <2>3. n \in initialised => n \in nodes
    BY InvFacts
  <2>4. n.fn \in Defined => option = "EXPAND_BODY"
    BY <1>4
  <2> QED
    BY <1>6, <2>1, <2>2, <2>3, <2>4
<1>13. \/ queue' = queue /\ initialised' = initialised
       \/ n \notin nodes /\ queue' = Append(queue, n) /\ initialised' = initialised \cup {n}
  BY <1>6
<1>14. /\ at' = at \/ at' = [at EXCEPT !.site = @ + 1]
       /\ at' \in [node : initialised \cup {NoNode}, site : Nat] /\ at'.node = at.node
       /\ at.node = NoNode => at' = Idle
  <2>1. at' = at \/ (caller = at.node /\ at' = [at EXCEPT !.site = @ + 1])
    BY <1>7 DEF CallOf
  <2> QED
    BY <2>1, <1>2, <1>3
<1>15. resolved \subseteq resolved'
       /\ resolved' \subseteq IndirectNodes' \X DirectNodes'
  <2>1. resolved \subseteq IndirectNodes \X DirectNodes
    BY <1>1 DEF TypeOK
  <2>2. \/ resolved' = resolved
        \/ /\ Indirect(caller.ctx, site) \in IndirectNodes
           /\ resolved' = resolved \cup {<<Indirect(caller.ctx, site), n>>}
    BY <1>7 DEF CallOf
  <2> QED
    BY <2>1, <2>2, <1>11
<1>16. TypeOK'
  <2>1. \A m \in nodes' : /\ m.ctx \in contexts' \cup {InitialCtx}
                          /\ IF IsIndirect(m) THEN m.inst \in CallSites ELSE m.fn \in Functions
    <3>1. \A m \in nodes : /\ m.ctx \in contexts \cup {InitialCtx}
                           /\ IF IsIndirect(m) THEN m.inst \in CallSites ELSE m.fn \in Functions
      BY <1>1 DEF TypeOK
    <3> QED
      BY <3>1, <1>4, <1>6
  <2>2. e \in [from : DirectNodes', to : nodes', inst : CallSites]
    BY <1>3, <1>6, <1>11
  <2>3. /\ edges \subseteq [from : DirectNodes, to : nodes, inst : CallSites]
        /\ initialised \subseteq DirectNodes /\ external \subseteq DirectNodes
        /\ DOMAIN links \subseteq edges /\ queue \in Seq(initialised) /\ prog' \in ProgIds
    BY <1>1 DEF TypeOK
  <2>4. edges' \subseteq [from : DirectNodes', to : nodes', inst : CallSites]
    <3>1. edges \subseteq [from : DirectNodes', to : nodes', inst : CallSites]
      BY <2>3, <1>6, <1>11
    <3> HIDE DEF e
    <3> QED
      BY <2>2, <3>1, <1>10
  <2>5. initialised' \subseteq DirectNodes' /\ external' \subseteq DirectNodes'
    BY <2>3, <1>11, <1>12
  <2>6. DOMAIN links' \subseteq edges'
    <3> HIDE DEF e
    <3> QED
      BY <2>3, <1>10
  <2>7. queue' \in Seq(initialised')
    <3>1. queue \in Seq(initialised')
      <4>1. queue \in [1 .. Len(queue) -> initialised'] /\ Len(queue) \in Nat
        BY <2>3, <1>12
      <4> QED
        BY <4>1
    <3> QED
      BY <3>1, <1>13
  <2>8. at'.node \in initialised' \cup {NoNode}
    BY <1>12, <1>14
  <2>9. targets' \in [IndirectNodes' -> SUBSET Functions]
    BY <1>11
  <2> QED
    BY <2>1, <2>3, <2>4, <2>5, <2>6, <2>7, <2>8, <2>9, <1>15 DEF TypeOK
<1>17. Known'
  <2>1. nodes' \subseteq [ctx : contexts' \cup {InitialCtx}, fn : Functions]
                           \cup [ctx : contexts' \cup {InitialCtx}, inst : CallSites]
    <3>1. nodes \subseteq [ctx : contexts \cup {InitialCtx}, fn : Functions]
                             \cup [ctx : contexts \cup {InitialCtx}, inst : CallSites]
      BY <1>1 DEF Known
    <3>2. nodes \subseteq [ctx : contexts' \cup {InitialCtx}, fn : Functions]
                             \cup [ctx : contexts' \cup {InitialCtx}, inst : CallSites]
      BY <3>1
    <3> QED
      BY <3>2, <1>4, <1>6
  <2>2. \A m \in DirectNodes' : m.fn \in Defined <=> m \in initialised'
    <3>1. \A m \in DirectNodes : m.fn \in Defined <=> m \in initialised
      BY <1>1 DEF Known
    <3> QED
      BY <3>1, <1>11, <1>12
  <2>3. at' \in [node : initialised' \cup {NoNode}, site : Nat]
    BY <1>12, <1>14
  <2> QED
    BY <2>1, <2>2, <2>3, <1>14 DEF Known
<1>18. QueuedOnce'
  <2>1. queue \in Seq(initialised)
    BY <1>1 DEF TypeOK
  <2>2. \A q \in DOMAIN queue : queue[q] \in nodes
    BY <2>1, InvFacts
  <2>3. (\A q, r \in DOMAIN queue : queue[q] = queue[r] => q = r)
        /\ (\A q \in DOMAIN queue : queue[q] # at.node)
    BY <1>1 DEF QueuedOnce
  <2>4. CASE queue' = queue
    BY <2>3, <2>4, <1>14 DEF QueuedOnce
  <2>5. CASE n \notin nodes /\ queue' = Append(queue, n)
    <3>1. /\ DOMAIN queue = 1 .. Len(queue) /\ Len(queue) \in Nat
          /\ DOMAIN queue' = 1 .. (Len(queue) + 1)
          /\ \A q \in 1 .. Len(queue) : queue'[q] = queue[q]
          /\ queue'[Len(queue) + 1] = n
      BY <2>1, <2>5
    <3>2. \A q \in 1 .. Len(queue) : queue[q] # n
      BY <2>2, <2>5, <3>1
    <3>3. n # at.node
      <4>1. n # NoNode
        BY <1>4, FunctionsAssumption DEF NoNode
      <4>2. at.node \in nodes \cup {NoNode}
        BY <1>2, InvFacts
      <4> QED
        BY <4>1, <4>2, <2>5
    <3>4. \A q, r \in DOMAIN queue' : queue'[q] = queue'[r] => q = r
      BY <2>3, <3>1, <3>2
    <3>5. \A q \in DOMAIN queue' : queue'[q] # at'.node
      BY <2>3, <3>1, <3>3, <1>14
    <3> QED
      BY <3>4, <3>5 DEF QueuedOnce
  <2> QED
    BY <2>4, <2>5, <1>13
<1>19. \A m \in nodes : \A q \in Nat : Visited(m, q) => Visited(m, q)'
  <2>1. queue' = queue \/ \E m : m \notin nodes /\ queue' = Append(queue, m)
    BY <1>13
  <2> QED
    BY <2>1, <1>14, VisitedFacts
<1>20. EdgesAreCalls'
  <2>1. \A x \in edges : IsCallEdge(x)'
    BY <1>12, <1>15, <1>19, CallEdgesStay
  <2>2. Visited(caller, p)'
    <3>1. CASE Visited(caller, p)
      BY <3>1, <1>3, <1>19
    <3>2. CASE caller = at.node /\ p = at.site + 1 /\ at' = [at EXCEPT !.site = @ + 1]
      <4>1. \A q \in DOMAIN queue' : queue'[q] # at'.node
        BY <1>18 DEF QueuedOnce
      <4>2. at'.node = caller /\ at'.site = p
        BY <3>2, <1>2
      <4>3. p <= at'.site
        BY <4>2, <1>3
      <4> QED
        BY <4>1, <4>2, <4>3 DEF Visited
    <3> QED
      BY <3>1, <3>2, <1>7 DEF CallOf
  <2>3. IsCallEdge(e)'
    <3>1. e.from \in initialised'
      BY <1>8, <1>12
    <3>2. e.inst = Body(e.from.fn)'[p] /\ p \in DOMAIN (Body(e.from.fn)') /\ Visited(e.from, p)'
      BY <2>2, <1>8, SameProgram
    <3>3. ~IsIndirect(e.to) /\ e.to.fn = n.fn
      BY <1>4, <1>8
    <3>4. ~(ThroughPointer(e.inst)') => e.to.fn = Target(e.inst)'
      BY <1>7, <1>8, SameProgram DEF CallOf
    <3>5. ThroughPointer(e.inst)' => <<Indirect(e.from.ctx, e.inst), e.to>> \in resolved'
      BY <1>7, <1>8, SameProgram DEF CallOf
    <3> HIDE DEF e
    <3> QED
      BY <3>1, <3>2, <3>3, <3>4, <3>5 DEF IsCallEdge
  <2> HIDE DEF e
  <2> QED
    BY <2>1, <2>3, <1>10 DEF EdgesAreCalls
<1>21. PointersAreCalled'
  <2>1. \A m \in IndirectNodes : \E x \in edges : x.to = m
    BY <1>1 DEF PointersAreCalled
  <2> HIDE DEF e
  <2> QED
    BY <2>1, <1>10, <1>11 DEF PointersAreCalled
<1>22. LinkedOnce'
  <2> HIDE DEF e
  <2>1. e \notin DOMAIN links
    BY <1>1, <1>9 DEF TypeOK
  <2>2. \A x \in DOMAIN links : links[x] = 1
    BY <1>1 DEF LinkedOnce
  <2> QED
    BY <2>1, <2>2, <1>10 DEF LinkedOnce
<1> QED
  BY <1>16, <1>17, <1>18, <1>20, <1>21, <1>22 DEF Inv

(* The entry function alone.                                               *)
LEMMA InitInv == Init => Inv
<1> SUFFICES ASSUME Init PROVE Inv
  OBVIOUS
<1> DEFINE n == Direct(InitialCtx, Entry)
<1>1. /\ prog \in ProgIds /\ contexts = {} /\ nodes = {n} /\ initialised = {n}
      /\ edges = {} /\ external = {} /\ resolved = {} /\ failed = {}
      /\ targets = <<>> /\ links = <<>> /\ queue = <<n>> /\ at = Idle
  BY DEF Init
<1>2. ~IsIndirect(n) /\ n.ctx = InitialCtx /\ n.fn = Entry
      /\ n \in [ctx : {InitialCtx}, fn : Functions]
  BY NodeKinds, FunctionsAssumption DEF Direct
<1>3. Entry \in Functions /\ Entry \in Defined /\ NoFunction \notin Functions
  BY FunctionsAssumption
<1> HIDE DEF n
<1>4. IndirectNodes = {} /\ DirectNodes = {n}
  BY <1>1, <1>2 DEF IndirectNodes, DirectNodes
<1>5. at.node = NoNode /\ at.site = 0 /\ at = [node |-> NoNode, site |-> 0]
  BY <1>1 DEF Idle
<1>6. queue \in Seq(initialised) /\ DOMAIN queue = {1} /\ queue[1] = n
  BY <1>1
<1>7. n # NoNode
  BY <1>2, <1>3 DEF NoNode
<1>8. TypeOK
  <2>1. DOMAIN links = {} /\ targets \in [{} -> SUBSET Functions]
    BY <1>1
  <2>2. edges \subseteq [from : DirectNodes, to : nodes, inst : CallSites]
        /\ resolved \subseteq IndirectNodes \X DirectNodes
    BY <1>1
  <2>3. targets \in [IndirectNodes -> SUBSET Functions]
    BY <2>1, <1>4
  <2> QED
    BY <1>1, <1>2, <1>3, <1>4, <1>5, <1>6, <2>1, <2>2, <2>3 DEF TypeOK
<1>9. Known
  BY <1>1, <1>2, <1>3, <1>4, <1>5 DEF Known
<1>10. QueuedOnce
  BY <1>5, <1>6, <1>7 DEF QueuedOnce
<1>11. EdgesAreCalls /\ PointersAreCalled /\ LinkedOnce
  BY <1>1, <1>4 DEF EdgesAreCalls, PointersAreCalled, LinkedOnce
<1> QED
  BY <1>8, <1>9, <1>10, <1>11 DEF Inv

(* The steps that only move on: nothing but queue and at changes.          *)
LEMMA MoveInv ==
  ASSUME Inv, UNCHANGED <<prog, contexts, nodes, edges, initialised, external, targets,
                          resolved, links>>,
         queue' \in Seq(initialised), QueuedOnce',
         at' \in [node : initialised \cup {NoNode}, site : Nat], at'.node = NoNode => at' = Idle,
         \A n \in nodes : \A p \in Nat : Visited(n, p) => Visited(n, p)'
  PROVE  Inv'
<1>1. IndirectNodes' = IndirectNodes /\ DirectNodes' = DirectNodes
  BY DEF IndirectNodes, DirectNodes
<1>2. TypeOK /\ Known /\ EdgesAreCalls /\ PointersAreCalled /\ LinkedOnce
  BY DEF Inv
<1>3. TypeOK'
  <2>1. at'.node \in initialised \cup {NoNode}
    OBVIOUS
  <2> QED
    BY <1>1, <1>2, <2>1 DEF TypeOK
<1>4. Known'
  BY <1>1, <1>2 DEF Known
<1>5. EdgesAreCalls'
  BY CallEdgesStay DEF EdgesAreCalls
<1>6. PointersAreCalled' /\ LinkedOnce'
  BY <1>1, <1>2 DEF PointersAreCalled, LinkedOnce
<1> QED
  BY <1>3, <1>4, <1>5, <1>6 DEF Inv

LEMMA NextNodeInv == Inv /\ NextNode => Inv'
<1> SUFFICES ASSUME Inv, NextNode PROVE Inv'
  OBVIOUS
<1>1. queue \in Seq(initialised) /\ queue # <<>> /\ QueuedOnce
  BY DEF Inv, TypeOK, NextNode
<1>2. /\ Head(queue) = queue[1] /\ queue' = Tail(queue) /\ at = Idle
      /\ at' = [node |-> queue[1], site |-> 0]
      /\ UNCHANGED <<prog, contexts, nodes, edges, initialised, external, targets,
                     resolved, links>>
  BY <1>1 DEF NextNode
<1>3. /\ DOMAIN queue = 1 .. Len(queue) /\ Len(queue) \in Nat /\ 1 \in DOMAIN queue
      /\ DOMAIN queue' = 1 .. (Len(queue) - 1) /\ queue' \in Seq(initialised)
      /\ \A q \in DOMAIN queue' : q + 1 \in DOMAIN queue /\ queue'[q] = queue[q + 1]
  BY <1>1, <1>2
<1>4. queue[1] \in initialised /\ queue[1] # NoNode
  <2>1. queue[1] \in initialised
    BY <1>1, <1>3
  <2> QED
    BY <2>1, InvFacts
<1>5. \A p, q \in DOMAIN queue : queue[p] = queue[q] => p = q
  BY <1>1 DEF QueuedOnce
<1>6. at' \in [node : initialised \cup {NoNode}, site : Nat] /\ at'.node = queue[1]
  BY <1>2, <1>4
<1>7. QueuedOnce'
  <2>1. \A p, q \in DOMAIN queue' : queue'[p] = queue'[q] => p = q
    <3> TAKE p, q \in DOMAIN queue'
    <3>1. p + 1 \in DOMAIN queue /\ q + 1 \in DOMAIN queue /\ p \in Nat /\ q \in Nat
          /\ queue'[p] = queue[p + 1] /\ queue'[q] = queue[q + 1]
      BY <1>3
    <3>2. queue'[p] = queue'[q] => p + 1 = q + 1
      BY <3>1, <1>5
    <3> QED
      BY <3>1, <3>2
  <2>2. ASSUME NEW p \in DOMAIN queue' PROVE queue'[p] # queue[1]
    <3>1. p + 1 \in DOMAIN queue /\ p \in Nat /\ p # 0 /\ queue'[p] = queue[p + 1]
      BY <1>3
    <3> QED
      BY <3>1, <1>3, <1>5
  <2> QED
    BY <2>1, <2>2, <1>6 DEF QueuedOnce
<1>8. ASSUME NEW n \in nodes, NEW p \in Nat, Visited(n, p)
      PROVE  Visited(n, p)'
  <2>1. \A q \in DOMAIN queue : queue[q] # n
    BY <1>8 DEF Visited
  <2>2. \A q \in DOMAIN queue' : queue'[q] # n
    BY <2>1, <1>3
  <2>3. n # at'.node
    BY <2>1, <1>3, <1>6
  <2> QED
    BY <2>2, <2>3 DEF Visited
<1> QED
  BY <1>2, <1>3, <1>4, <1>6, <1>7, <1>8, MoveInv

LEMMA LeaveNodeInv == Inv /\ LeaveNode => Inv'
<1> SUFFICES ASSUME Inv, LeaveNode PROVE Inv'
  OBVIOUS
<1>1. queue \in Seq(initialised) /\ QueuedOnce
  BY DEF Inv, TypeOK
<1>2. /\ queue' = queue /\ at' = [node |-> NoNode, site |-> 0]
      /\ UNCHANGED <<prog, contexts, nodes, edges, initialised, external, targets,
                     resolved, links>>
  BY DEF LeaveNode, Idle
<1>3. at' \in [node : initialised \cup {NoNode}, site : Nat] /\ at'.node = NoNode /\ at' = Idle'
  BY <1>2 DEF Idle
<1>4. \A n \in nodes : n # NoNode
  BY InvFacts
<1>5. \A q \in DOMAIN queue : queue[q] # NoNode
  <2>1. \A q \in DOMAIN queue : queue[q] \in initialised
    BY <1>1
  <2> QED
    BY <2>1, InvFacts
<1>6. QueuedOnce'
  BY <1>1, <1>2, <1>3, <1>5 DEF QueuedOnce
<1>7. \A n \in nodes : \A p \in Nat : Visited(n, p) => Visited(n, p)'
  BY <1>2, <1>3, <1>4 DEF Visited
<1>8. at' = Idle
  BY <1>2 DEF Idle
<1> QED
  BY <1>1, <1>2, <1>3, <1>6, <1>7, <1>8, MoveInv

(* Where a visit is.                                                       *)
LEMMA VisitingFacts ==
  ASSUME Inv, Visiting, HasMore
  PROVE  /\ at.node \in initialised /\ at.node \in DirectNodes
         /\ at.site + 1 \in DOMAIN Body(at.node.fn)
         /\ Site = Body(at.node.fn)[at.site + 1] /\ Site \in CallSites
         /\ at' = [at EXCEPT !.site = @ + 1] <=> NextSite
<1>1. at \in [node : initialised \cup {NoNode}, site : Nat] /\ (at.node = NoNode => at = Idle)
      /\ at # Idle
  BY DEF Inv, Known, Visiting
<1>2. at.node \in initialised /\ at.node \in DirectNodes
  BY <1>1, InvFacts
<1>3. Body(at.node.fn) \in Seq(CallSites) /\ at.site \in Nat /\ at.site < Len(Body(at.node.fn))
  BY <1>1, <1>2, SiteFacts DEF HasMore
<1>4. at.site + 1 \in DOMAIN Body(at.node.fn)
  BY <1>3
<1> QED
  BY <1>2, <1>4, SiteFacts DEF Site, NextSite

LEMMA VisitInDirectInv == Inv /\ VisitInDirectCallSite => Inv'
<1> SUFFICES ASSUME Inv, VisitInDirectCallSite PROVE Inv'
  OBVIOUS
<1>1. /\ Visiting /\ HasMore /\ CallsPointer(Site) /\ CallThroughPointer(at.node, Site) /\ NextSite
      /\ UNCHANGED <<prog, contexts, resolved, queue>>
  BY DEF VisitInDirectCallSite
<1>2. PICK caller \in initialised : caller = at.node
  BY <1>1, VisitingFacts
<1>3. PICK p \in DOMAIN Body(caller.fn) : p = at.site + 1 /\ Site = Body(caller.fn)[p]
  BY <1>1, <1>2, VisitingFacts
<1>4. PICK site : site = Site
  OBVIOUS
<1>5. ThroughPointer(site) /\ CallThroughPointer(caller, site) /\ at' = [at EXCEPT !.site = @ + 1]
  BY <1>1, <1>2, <1>4, VisitingFacts DEF ThroughPointer
<1>6. contexts' \in SUBSET Buffers /\ contexts \subseteq contexts'
  BY <1>1, InvFacts
<1> QED
  BY <1>1, <1>2, <1>3, <1>4, <1>5, <1>6, PointerInv

(* The context of a callee.                                                *)
LEMMA EvolvedFacts ==
  ASSUME Inv, NEW caller \in DirectNodes, NEW site \in CallSites
  PROVE  LET r == Evolved(caller, site) IN
         /\ contexts \subseteq r.pool /\ r.pool \in SUBSET Buffers
         /\ r.ctx \in r.pool \cup {InitialCtx}
<1>1. contexts \in SUBSET Buffers /\ caller.ctx \in contexts \cup {InitialCtx}
  BY InvFacts
<1>2. PICK clash, origins : clash = Program[prog].clash /\ origins = Program[prog].origins
  OBVIOUS
<1>3. Evolved(caller, site) = Evolve(contexts, clash, origins, caller.ctx, site)
  BY <1>2 DEF Evolved
<1>4. PICK pool \in SUBSET Buffers, ctx \in contexts \cup {InitialCtx} :
        pool = contexts /\ ctx = caller.ctx
  BY <1>1
<1>5. LET r == Evolve(pool, clash, origins, ctx, site) IN
      /\ pool \subseteq r.pool /\ r.pool \subseteq Buffers
      /\ r.ctx \in r.pool \cup {InitialCtx}
  <2>1. ctx \in pool \cup {InitialCtx}
    BY <1>4
  <2> QED
    BY <2>1, EvolveFacts
<1> QED
  BY <1>3, <1>4, <1>5

LEMMA VisitDirectInv == Inv /\ VisitDirectCallSite => Inv'
<1> SUFFICES ASSUME Inv, VisitDirectCallSite PROVE Inv'
  OBVIOUS
<1>1. Visiting /\ HasMore /\ ~CallsPointer(Site) /\ NextSite /\ UNCHANGED <<prog, resolved>>
  BY DEF VisitDirectCallSite
<1>2. PICK caller \in initialised : caller = at.node
  BY <1>1, VisitingFacts
<1>3. PICK p \in DOMAIN Body(caller.fn) : p = at.site + 1 /\ Site = Body(caller.fn)[p]
  BY <1>1, <1>2, VisitingFacts
<1>4. PICK site \in CallSites : site = Site
  BY <1>1, VisitingFacts
<1>5. PICK evolved, r :
        /\ evolved = Evolved(caller, site) /\ r = Intercept(Call(site).to, site)
        /\ contexts' = evolved.pool
        /\ \/ /\ r.option = "IGNORE"
              /\ UNCHANGED <<nodes, edges, initialised, external, targets, links,
                             queue, failed>>
           \/ /\ r.option # "IGNORE" /\ r.to # NoFunction
              /\ CallFunction(caller, Direct(evolved.ctx, r.to), r.option, site)
              /\ UNCHANGED targets
           \/ /\ r.option # "IGNORE" /\ r.to = NoFunction
              /\ CallThroughPointer(caller, site)
              /\ UNCHANGED queue
  BY <1>2, <1>4 DEF VisitDirectCallSite
<1>6. caller \in DirectNodes /\ at' = [at EXCEPT !.site = @ + 1] /\ prog \in ProgIds
      /\ targets \in [IndirectNodes -> SUBSET Functions]
  BY <1>1, <1>2, VisitingFacts, InvFacts DEF Inv, TypeOK
<1>7. contexts \subseteq contexts' /\ contexts' \in SUBSET Buffers
      /\ evolved.ctx \in contexts' \cup {InitialCtx}
  BY <1>5, <1>6, EvolvedFacts
<1>8. /\ Call(site).to \in Functions
      /\ ThroughPointer(site) <=> r.option # "IGNORE" /\ r.to = NoFunction
  BY <1>1, <1>4, <1>5, <1>6, ThroughPointerFacts
<1>9. r.to \in Functions \cup {NoFunction} /\ (r.to \in Defined => r.option = "EXPAND_BODY")
  BY <1>5, <1>6, <1>8, InterceptFacts
<1>10. CASE r.option = "IGNORE"
  <2>1. UNCHANGED <<nodes, edges, initialised, external, targets, links, queue>>
    BY <1>5, <1>10
  <2>2. at.node \in initialised
    BY <1>2
  <2> QED
    BY <2>1, <2>2, <1>1, <1>6, <1>7, QuietInv
<1>11. CASE r.option # "IGNORE" /\ r.to # NoFunction
  <2>1. PICK f \in Functions : f = r.to
    BY <1>9, <1>11
  <2>2. PICK ctx \in contexts' \cup {InitialCtx} : ctx = evolved.ctx
    BY <1>7
  <2>3. PICK option : option = r.option
    OBVIOUS
  <2>4. CallFunction(caller, Direct(ctx, f), option, site) /\ targets' = targets
    BY <1>5, <1>11, <2>1, <2>2, <2>3
  <2>5. Target(site) = f /\ Direct(ctx, f).fn = f
    BY <1>5, <2>1, NodeKinds DEF Target
  <2>6. CallOf(caller, p, site, Direct(ctx, f))
    BY <1>1, <1>2, <1>3, <1>6, <1>8, <1>11, <2>5 DEF CallOf
  <2>7. f \in Defined => option = "EXPAND_BODY"
    BY <1>9, <2>1, <2>3
  <2>8. site = Body(caller.fn)[p] /\ prog' = prog /\ targets' \in [IndirectNodes -> SUBSET Functions]
    BY <1>1, <1>3, <1>4, <1>6, <2>4
  <2> QED
    BY <2>4, <2>6, <2>7, <2>8, <1>7, FunctionInv
<1>12. CASE r.option # "IGNORE" /\ r.to = NoFunction
  <2>1. CallThroughPointer(caller, site) /\ queue' = queue
    BY <1>5, <1>12
  <2>2. ThroughPointer(site)
    BY <1>8, <1>12
  <2> QED
    BY <2>1, <2>2, <1>1, <1>2, <1>3, <1>4, <1>6, <1>7, PointerInv
<1> QED
  BY <1>10, <1>11, <1>12

(* The caller of a pointer call is the function the call site is in, in    *)
(* the context of the node.                                                *)
LEMMA CallerFacts ==
  ASSUME Inv, NEW n \in IndirectNodes
  PROVE  \E caller \in initialised :
           /\ {e.from : e \in {e \in edges : e.to = n}} = {caller}
           /\ n = Indirect(caller.ctx, n.inst) /\ ThroughPointer(n.inst)
           /\ \E p \in DOMAIN Body(caller.fn) : n.inst = Body(caller.fn)[p] /\ Visited(caller, p)
<1>1. n \in nodes /\ IsIndirect(n)
  BY InvFacts
<1>2. PICK e \in edges : e.to = n
  BY DEF Inv, PointersAreCalled
<1>3. ASSUME NEW x \in edges, x.to = n
      PROVE  /\ x.from \in initialised /\ x.from \in DirectNodes
             /\ n = Indirect(x.from.ctx, x.inst) /\ ThroughPointer(x.inst)
             /\ n.inst = x.inst /\ n.ctx = x.from.ctx
             /\ \E p \in DOMAIN Body(x.from.fn) :
                  n.inst = Body(x.from.fn)[p] /\ Visited(x.from, p)
  <2>1. IsCallEdge(x)
    BY DEF Inv, EdgesAreCalls
  <2>2. n = Indirect(x.from.ctx, x.inst) /\ ThroughPointer(x.inst) /\ x.from \in initialised
    BY <2>1, <1>1, <1>3 DEF IsCallEdge
  <2>3. n.inst = x.inst /\ n.ctx = x.from.ctx
    BY <2>2, NodeKinds
  <2>4. x.from \in DirectNodes
    BY InvFacts
  <2> QED
    BY <2>1, <2>2, <2>3, <2>4 DEF IsCallEdge
<1>4. ASSUME NEW x \in edges, x.to = n
      PROVE  x.from = e.from
  <2>1. x.from.ctx = e.from.ctx /\ x.from \in DirectNodes /\ e.from \in DirectNodes
    BY <1>2, <1>3, <1>4
  <2>2. x.from.fn = e.from.fn
    <3>1. PICK p \in DOMAIN Body(x.from.fn) : n.inst = Body(x.from.fn)[p]
      BY <1>3, <1>4
    <3>2. PICK q \in DOMAIN Body(e.from.fn) : n.inst = Body(e.from.fn)[q]
      BY <1>2, <1>3
    <3> QED
      BY <2>1, <3>1, <3>2, SiteFacts
  <2>3. x.from = Direct(x.from.ctx, x.from.fn) /\ e.from = Direct(e.from.ctx, e.from.fn)
    BY <2>1, InvFacts
  <2> QED
    BY <2>1, <2>2, <2>3
<1>5. {x.from : x \in {x \in edges : x.to = n}} = {e.from}
  BY <1>2, <1>4
<1> QED
  BY <1>2, <1>3, <1>5

LEMMA ResolveInv ==
  ASSUME Inv, NEW n \in IndirectNodes, NEW f \in Functions, ResolveCallTo(n, f)
  PROVE  Inv'
<1>1. /\ at = Idle /\ queue = <<>> /\ Resolvable(n, f)
      /\ targets' = [targets EXCEPT ![n] = @ \cup {f}]
      /\ UNCHANGED <<prog, at>>
  BY DEF ResolveCallTo
<1>2. PICK caller \in initialised :
        /\ {e.from : e \in {e \in edges : e.to = n}} = {caller}
        /\ n = Indirect(caller.ctx, n.inst) /\ ThroughPointer(n.inst)
        /\ \E p \in DOMAIN Body(caller.fn) : n.inst = Body(caller.fn)[p] /\ Visited(caller, p)
  BY CallerFacts
<1>3. PICK p \in DOMAIN Body(caller.fn) : n.inst = Body(caller.fn)[p] /\ Visited(caller, p)
  BY <1>2
<1>4. PICK site \in CallSites : site = n.inst
  BY InvFacts
<1>5. targets \in [IndirectNodes -> SUBSET Functions] /\ prog \in ProgIds
  BY DEF Inv, TypeOK
<1>6. targets' \in [IndirectNodes -> SUBSET Functions]
  BY <1>1, <1>5
<1>7. Cardinality({caller}) = 1
  BY FS_Singleton
<1>8. PICK evolved, r :
        /\ evolved = Evolved(caller, site) /\ r = Intercept(f, site)
        /\ contexts' = evolved.pool
        /\ ResolveIn(n, caller, evolved.ctx, r)
  BY <1>2, <1>4, <1>7 DEF ResolveCallTo
<1>9. caller \in DirectNodes
  BY InvFacts
<1>10. contexts \subseteq contexts' /\ contexts' \in SUBSET Buffers
       /\ evolved.ctx \in contexts' \cup {InitialCtx}
  BY <1>8, <1>9, EvolvedFacts
<1>11. r.to \in Functions \cup {NoFunction} /\ (r.to \in Defined => r.option = "EXPAND_BODY")
  BY <1>5, <1>8, InterceptFacts
<1>12. CASE UNCHANGED <<nodes, edges, initialised, external, resolved, links, queue>>
  BY <1>1, <1>6, <1>10, <1>12, QuietInv
<1>13. CASE /\ r.to # NoFunction
            /\ <<n, Direct(evolved.ctx, r.to)>> \notin resolved
            /\ resolved' = resolved \cup {<<n, Direct(evolved.ctx, r.to)>>}
            /\ CallFunction(caller, Direct(evolved.ctx, r.to), r.option, n.inst)
  <2>1. PICK g \in Functions : g = r.to
    BY <1>11, <1>13
  <2>2. PICK ctx \in contexts' \cup {InitialCtx} : ctx = evolved.ctx
    BY <1>10
  <2>3. PICK option : option = r.option
    OBVIOUS
  <2>4. CallFunction(caller, Direct(ctx, g), option, site)
    BY <1>4, <1>13, <2>1, <2>2, <2>3
  <2>5. CallOf(caller, p, site, Direct(ctx, g))
    BY <1>1, <1>2, <1>3, <1>4, <1>13, <2>1, <2>2 DEF CallOf
  <2>6. g \in Defined => option = "EXPAND_BODY"
    BY <1>11, <2>1, <2>3
  <2>7. site = Body(caller.fn)[p] /\ prog' = prog
    BY <1>1, <1>3, <1>4
  <2> QED
    BY <2>4, <2>5, <2>6, <2>7, <1>6, <1>10, FunctionInv
<1> QED
  BY <1>8, <1>12, <1>13 DEF ResolveIn

LEMMA StutterInv == Inv /\ UNCHANGED vars => Inv'
<1> SUFFICES ASSUME Inv, UNCHANGED vars PROVE Inv'
  OBVIOUS
<1>1. UNCHANGED <<prog, contexts, nodes, edges, initialised, external, targets, resolved,
                  links, queue, at>>
  BY DEF vars
<1>2. contexts' \in SUBSET Buffers /\ targets' \in [IndirectNodes -> SUBSET Functions]
  BY <1>1, InvFacts DEF Inv, TypeOK
<1> QED
  BY <1>1, <1>2, QuietInv

LEMMA NextInv == Inv /\ [Next]_vars => Inv'
<1> SUFFICES ASSUME Inv, [Next]_vars PROVE Inv'
  OBVIOUS
<1>1. CASE NextNode
  BY <1>1, NextNodeInv
<1>2. CASE LeaveNode
  BY <1>2, LeaveNodeInv
<1>3. CASE VisitInDirectCallSite
  BY <1>3, VisitInDirectInv
<1>4. CASE VisitDirectCallSite
  BY <1>4, VisitDirectInv
<1>5. CASE \E n \in IndirectNodes, f \in Functions : ResolveCallTo(n, f)
  BY <1>5, ResolveInv
<1>6. CASE UNCHANGED vars
  BY <1>6, StutterInv
<1> QED
  BY <1>1, <1>2, <1>3, <1>4, <1>5, <1>6 DEF Next

(* The invariant of the construction: what the nodes and edges of the call *)
(* graph stand for, and how far the visit of each function has come        *)
(* (expandFromNode, visitCallNode, resolveCallTo).                         *)
THEOREM InvHolds == Spec => []Inv
BY InitInv, NextInv, PTL DEF Spec

(* Type correctness: nodes are functions and pointer calls in interned     *)
(* contexts, and only functions wait to be visited (CtxModule).            *)
THEOREM TypeCorrect == Spec => []TypeOK
<1>1. Inv => TypeOK
  BY DEF Inv
<1> QED
  BY <1>1, InvHolds, PTL

(* The language model processes each edge of the call graph once, for any  *)
(* recursion, any targets of the pointers found in any order, any limit on *)
(* them, and whatever contexts the hashes make one (OnNewCallEdge).        *)
THEOREM NoEdgeIsLinkedTwice == Spec => []LinkedOnce
<1>1. Inv => LinkedOnce
  BY DEF Inv
<1> QED
  BY <1>1, InvHolds, PTL

(***************************************************************************)
(* The calls of a program that the construction can handle.                *)
(***************************************************************************)

LEMMA SupportedFacts ==
  ASSUME Supported(prog), NEW site \in CallSites
  PROVE  /\ PthreadCreate \notin Call(site).holds
         /\ Intercepted(site) =>
              /\ Call(site).start \in (Defined \cap StartFunctions) \cup {NoFunction}
              /\ Call(site).holds \cap StartFunctions \subseteq Defined \cup HeapAllocs \cup Intrinsics
BY DEF Supported, Call, Intercepted

(* A context that has been evolved is found again.                         *)
LEMMA EvolvedIsFound ==
  ASSUME NEW pool, NEW clash, NEW origins, NEW ctx, NEW site
  PROVE  LET e == Evolve(pool, clash, origins, ctx, site)
         IN Evolve(e.pool, clash, origins, ctx, site).ctx = e.ctx
<1> DEFINE new == Push(ctx, site)
           same(S) == {c \in S : SameHash(clash, Walk(c), Walk(new))}
           evolve(S) == IF same(S) = {} THEN [ctx |-> new, pool |-> S \cup {new}]
                        ELSE [ctx |-> CHOOSE c \in same(S) : TRUE, pool |-> S]
<1>1. CASE site \notin origins
  BY <1>1 DEF Evolve
<1>2. CASE site \in origins
  <2>1. \A S : Evolve(S, clash, origins, ctx, site) = evolve(S)
    BY <1>2 DEF Evolve
  <2>2. SameHash(clash, Walk(new), Walk(new))
    BY DEF SameHash
  <2>3. CASE same(pool) = {}
    <3>1. evolve(pool).ctx = new /\ evolve(pool).pool = pool \cup {new}
      BY <2>3
    <3>2. same(pool \cup {new}) = {new}
      BY <2>2, <2>3
    <3>3. evolve(pool \cup {new}).ctx = new
      BY <3>2
    <3> QED
      BY <2>1, <3>1, <3>3
  <2>4. CASE same(pool) # {}
    <3>1. evolve(pool).pool = pool
      BY <2>4
    <3> QED
      BY <2>1, <3>1
  <2> QED
    BY <2>3, <2>4
<1> QED
  BY <1>1, <1>2

(* When overrideCallSite and processCallSite meet none of their assertions *)
LEMMA NoLinkFailures ==
  ASSUME NEW caller, NEW callee, NEW site, NEW built, NEW pool, NEW p \in DOMAIN Body(caller.fn),
         site = Body(caller.fn)[p],
         pool = Evolved(caller, site).pool, callee.ctx = Evolved(caller, site).ctx,
         \/ callee.fn \in HeapAllocs
         \/ Intercepted(site) /\ callee.fn \in StartFunctions /\ callee \in built
         \/ /\ ~Intercepted(site) /\ Call(site).to \in {NoFunction, callee.fn}
            /\ CallsPointer(site) => Fits(site, callee.fn)
            /\ callee.fn \in Defined => callee \in built
  PROVE  LinkFailures(caller, callee, site, built, pool) = {}
<1>1. ContextFailures(caller, callee, site, pool) = {}
  <2>1. PICK clash, origins : clash = Program[prog].clash /\ origins = Program[prog].origins
    OBVIOUS
  <2>2. PICK e : e = Evolve(contexts, clash, origins, caller.ctx, site)
    OBVIOUS
  <2>3. pool = e.pool /\ callee.ctx = e.ctx
    BY <2>1, <2>2 DEF Evolved
  <2>4. Evolve(pool, clash, origins, caller.ctx, site).ctx = callee.ctx
    BY <2>2, <2>3, EvolvedIsFound
  <2> QED
    BY <2>1, <2>4 DEF ContextFailures
<1> QED
  BY <1>1 DEF LinkFailures

(* A visited call site has its edge after a step if the one that the step  *)
(* visits, if any, has.                                                    *)
LEMMA VisitedIsCalledStep ==
  ASSUME Inv, VisitedIsCalled, prog' = prog, edges \subseteq edges',
         at' = at \/ at' = [at EXCEPT !.site = @ + 1],
         \/ queue' = queue /\ initialised' = initialised
         \/ \E m : m \notin nodes /\ queue' = Append(queue, m) /\ initialised' = initialised \cup {m},
         \A n \in initialised : \A p \in DOMAIN Body(n.fn) :
           at' # at /\ n = at.node /\ p = at.site + 1 =>
             \/ ~ThroughPointer(Body(n.fn)[p]) /\ Target(Body(n.fn)[p]) = NoFunction
             \/ \E e \in edges' :
                  /\ e.from = n /\ e.inst = Body(n.fn)[p]
                  /\ IsIndirect(e.to) <=> ThroughPointer(Body(n.fn)[p])
  PROVE  VisitedIsCalled'
<1> SUFFICES ASSUME NEW n \in initialised', NEW p \in DOMAIN Body(n.fn), Visited(n, p)'
             PROVE  \/ ~ThroughPointer(Body(n.fn)[p]) /\ Target(Body(n.fn)[p]) = NoFunction
                    \/ \E e \in edges' :
                         /\ e.from = n /\ e.inst = Body(n.fn)[p]
                         /\ IsIndirect(e.to) <=> ThroughPointer(Body(n.fn)[p])
  BY SameProgram DEF VisitedIsCalled
<1>1. n \in initialised
  <2>1. CASE \E m : m \notin nodes /\ queue' = Append(queue, m) /\ initialised' = initialised \cup {m}
    <3>1. PICK m : queue' = Append(queue, m) /\ initialised' = initialised \cup {m}
      BY <2>1
    <3>2. queue \in Seq(initialised)
      BY DEF Inv, TypeOK
    <3>3. Len(queue) + 1 \in DOMAIN queue' /\ queue'[Len(queue) + 1] = m
      BY <3>1, <3>2
    <3>4. n # m
      BY <3>3 DEF Visited
    <3> QED
      BY <3>1, <3>4
  <2> QED
    BY <2>1
<1>2. n \in nodes /\ p \in Nat
  BY <1>1, InvFacts, SiteFacts
<1>3. Visited(n, p) \/ (at' # at /\ n = at.node /\ p = at.site + 1)
  <2>1. queue' = queue \/ \E m : m \notin nodes /\ queue' = Append(queue, m)
    OBVIOUS
  <2> QED
    BY <1>2, <2>1, VisitedFacts
<1>4. CASE Visited(n, p)
  BY <1>1, <1>4 DEF VisitedIsCalled
<1> QED
  BY <1>1, <1>3, <1>4

(* What there is to show about the targets after a step.                   *)
LEMMA TargetsAfter ==
  ASSUME prog' = prog,
         \A n \in IndirectNodes' :
           /\ targets'[n] \subseteq {f \in Call(n.inst).holds : Fits(n.inst, f)}
           /\ IsFiniteSet(targets'[n]) /\ Cardinality(targets'[n]) <= Program[prog].limit
           /\ \A d \in DirectNodes' :
                <<n, d>> \in resolved' =>
                  /\ d.fn \in targets'[n] \ Intrinsics
                  /\ \E e \in edges' : e.to = d /\ e.inst = n.inst /\ e.from.ctx = n.ctx
           /\ \A f \in targets'[n] \ Intrinsics :
                \E d \in DirectNodes' : d.fn = f /\ <<n, d>> \in resolved'
  PROVE  TargetsAreCallees'
<1>1. \A s, f : Fits(s, f)' <=> Fits(s, f)
  BY SameProgram DEF Fits, Intercepted
<1>2. \A s : {f \in Call(s)'.holds : Fits(s, f)'} = {f \in Call(s).holds : Fits(s, f)}
  BY <1>1, SameProgram
<1> QED
  BY <1>2 DEF TargetsAreCallees

(* TargetsAreCallees, for one pointer call.                                *)
LEMMA PointerTargets ==
  ASSUME CallsInv, NEW n \in IndirectNodes,
         NEW site, NEW ctx, n.inst = site, n.ctx = ctx
  PROVE
    /\ targets[n] \subseteq {f \in Call(site).holds : Fits(site, f)}
    /\ IsFiniteSet(targets[n]) /\ Cardinality(targets[n]) <= Program[prog].limit
    /\ \A d \in DirectNodes :
         <<n, d>> \in resolved =>
           /\ d.fn \in targets[n] \ Intrinsics
           /\ \E x \in edges : x.to = d /\ x.inst = site /\ x.from.ctx = ctx
    /\ \A f \in targets[n] \ Intrinsics :
         \E d \in DirectNodes : d.fn = f /\ <<n, d>> \in resolved
BY DEF CallsInv, TargetsAreCallees

(* The resolved calls are not disturbed by other steps.                    *)
LEMMA TargetsStep ==
  ASSUME Inv, TargetsAreCallees, prog' = prog, resolved' = resolved, edges \subseteq edges',
         IndirectNodes' = IndirectNodes, DirectNodes \subseteq DirectNodes', targets' = targets
  PROVE  TargetsAreCallees'
<1>1. resolved \subseteq IndirectNodes \X DirectNodes
  BY DEF Inv, TypeOK
<1> SUFFICES ASSUME NEW n \in IndirectNodes
             PROVE
    /\ targets[n] \subseteq {f \in Call(n.inst).holds : Fits(n.inst, f)}
    /\ IsFiniteSet(targets[n]) /\ Cardinality(targets[n]) <= Program[prog].limit
    /\ \A d \in DirectNodes' :
         <<n, d>> \in resolved =>
           /\ d.fn \in targets[n] \ Intrinsics
           /\ \E e \in edges' : e.to = d /\ e.inst = n.inst /\ e.from.ctx = n.ctx
    /\ \A f \in targets[n] \ Intrinsics :
         \E d \in DirectNodes' : d.fn = f /\ <<n, d>> \in resolved
  BY SameProgram DEF TargetsAreCallees, Fits, Intercepted
<1>2. /\ targets[n] \subseteq {f \in Call(n.inst).holds : Fits(n.inst, f)}
      /\ IsFiniteSet(targets[n]) /\ Cardinality(targets[n]) <= Program[prog].limit
      /\ \A d \in DirectNodes :
           <<n, d>> \in resolved =>
             /\ d.fn \in targets[n] \ Intrinsics
             /\ \E e \in edges : e.to = d /\ e.inst = n.inst /\ e.from.ctx = n.ctx
      /\ \A f \in targets[n] \ Intrinsics :
           \E d \in DirectNodes : d.fn = f /\ <<n, d>> \in resolved
  BY DEF TargetsAreCallees
<1>3. \A d : <<n, d>> \in resolved => d \in DirectNodes
  BY <1>1
<1>4. ASSUME NEW d \in DirectNodes', <<n, d>> \in resolved
      PROVE  /\ d.fn \in targets[n] \ Intrinsics
             /\ \E e \in edges' : e.to = d /\ e.inst = n.inst /\ e.from.ctx = n.ctx
  BY <1>2, <1>3, <1>4
<1>5. ASSUME NEW f \in targets[n] \ Intrinsics
      PROVE  \E d \in DirectNodes' : d.fn = f /\ <<n, d>> \in resolved
  BY <1>2
<1> QED
  BY <1>2, <1>4, <1>5
LEMMA InitExpected == Init => Expected
<1> SUFFICES ASSUME Init PROVE CallsInv
  BY DEF Expected
<1>1. /\ failed = {} /\ nodes = {Direct(InitialCtx, Entry)} /\ initialised = nodes
      /\ queue = <<Direct(InitialCtx, Entry)>>
  BY DEF Init
<1>2. IndirectNodes = {}
  BY <1>1, NodeKinds DEF IndirectNodes
<1>3. \A n \in initialised : queue[1] = n /\ 1 \in DOMAIN queue
  BY <1>1
<1> QED
  BY <1>1, <1>2, <1>3 DEF CallsInv, AssertionsHold, VisitedIsCalled, TargetsAreCallees, Visited

LEMMA NextNodeCalls == Inv /\ CallsInv /\ NextNode => CallsInv'
<1> SUFFICES ASSUME Inv, CallsInv, NextNode PROVE CallsInv'
  OBVIOUS
<1>1. /\ queue # <<>> /\ queue' = Tail(queue) /\ at = Idle
      /\ at' = [node |-> Head(queue), site |-> 0]
      /\ UNCHANGED <<prog, contexts, nodes, edges, initialised, external, targets,
                     resolved, links, failed>>
  BY DEF NextNode
<1>2. IndirectNodes' = IndirectNodes /\ DirectNodes' = DirectNodes
  BY <1>1 DEF IndirectNodes, DirectNodes
<1>3. TargetsAreCallees'
  BY <1>1, <1>2, TargetsStep DEF CallsInv
<1>4. queue \in Seq(initialised)
  BY DEF Inv, TypeOK
<1>5. \A q \in DOMAIN queue : q = 1 \/ (q - 1 \in DOMAIN queue' /\ queue'[q - 1] = queue[q])
  BY <1>1, <1>4
<1>6. queue[1] = Head(queue)
  BY <1>1, <1>4
<1>7. ASSUME NEW n \in initialised, NEW p \in DOMAIN Body(n.fn), Visited(n, p)'
      PROVE  Visited(n, p)
  <2>1. (\A q \in DOMAIN queue' : queue'[q] # n) /\ (n = at'.node => p <= at'.site)
    BY <1>7 DEF Visited
  <2>2. p \in Nat /\ p # 0 /\ n \in nodes
    <3>1. n \in DirectNodes /\ n \in nodes
      BY InvFacts
    <3>2. Body(n.fn) \in Seq(CallSites)
      BY <3>1, SiteFacts
    <3> QED
      BY <3>1, <3>2
  <2>3. n # Head(queue)
    BY <2>1, <2>2, <1>1
  <2>4. \A q \in DOMAIN queue : queue[q] # n
    BY <2>1, <2>3, <1>5, <1>6
  <2>5. n # at.node
    BY <2>2, <1>1, InvFacts DEF Idle
  <2> QED
    BY <2>4, <2>5 DEF Visited
<1>8. VisitedIsCalled'
  BY <1>1, <1>7, SameProgram DEF CallsInv, VisitedIsCalled
<1> QED
  BY <1>1, <1>3, <1>8 DEF CallsInv, AssertionsHold

LEMMA LeaveNodeCalls == Inv /\ CallsInv /\ LeaveNode => CallsInv'
<1> SUFFICES ASSUME Inv, CallsInv, LeaveNode PROVE CallsInv'
  OBVIOUS
<1>1. /\ at # Idle /\ ~HasMore /\ queue' = queue /\ at' = Idle
      /\ UNCHANGED <<prog, contexts, nodes, edges, initialised, external, targets,
                     resolved, links, failed>>
  BY DEF LeaveNode, Visiting
<1>2. IndirectNodes' = IndirectNodes /\ DirectNodes' = DirectNodes
  BY <1>1 DEF IndirectNodes, DirectNodes
<1>3. TargetsAreCallees'
  BY <1>1, <1>2, TargetsStep DEF CallsInv
<1>4. ASSUME NEW n \in initialised, NEW p \in DOMAIN Body(n.fn), Visited(n, p)'
      PROVE  Visited(n, p)
  <2>1. \A q \in DOMAIN queue : queue[q] # n
    BY <1>1, <1>4 DEF Visited
  <2>2. n = at.node => p <= at.site
    <3> SUFFICES ASSUME n = at.node PROVE p <= at.site
      OBVIOUS
    <3>1. Body(n.fn) \in Seq(CallSites)
      BY InvFacts, SiteFacts
    <3>2. at.site \in Nat
      BY DEF Inv, Known
    <3>3. ~(at.site < Len(Body(n.fn)))
      BY <1>1 DEF HasMore
    <3> QED
      BY <3>1, <3>2, <3>3
  <2> QED
    BY <2>1, <2>2 DEF Visited
<1>5. VisitedIsCalled'
  BY <1>1, <1>4, SameProgram DEF CallsInv, VisitedIsCalled
<1> QED
  BY <1>1, <1>3, <1>5 DEF CallsInv, AssertionsHold

(* A call through a pointer has no targets at first.                       *)
LEMMA PointerCalls ==
  ASSUME Inv, CallsInv, prog' = prog, resolved' = resolved, queue' = queue,
         NEW caller \in initialised, caller = at.node, at' = [at EXCEPT !.site = @ + 1],
         NEW p \in DOMAIN Body(caller.fn), p = at.site + 1,
         NEW site, site = Body(caller.fn)[p], ThroughPointer(site),
         CallThroughPointer(caller, site)
  PROVE  CallsInv'
<1> DEFINE n == Indirect(caller.ctx, site)
           e == [from |-> caller, to |-> n, inst |-> site]
<1>1. /\ nodes' = nodes \cup {n}
      /\ edges' = edges \cup {e}
      /\ failed' = failed /\ initialised' = initialised
      /\ \A x \in IndirectNodes : targets'[x] = targets[x]
      /\ n \notin nodes => targets'[n] = {}
  BY CallThroughPointerFacts DEF Inv, TypeOK
<1>2. IsIndirect(n)
  BY NodeKinds
<1>3. e.from = caller /\ e.to = n /\ e.inst = site
  OBVIOUS
<1> HIDE DEF n
<1>4. IndirectNodes' = IndirectNodes \cup {n} /\ DirectNodes' = DirectNodes
  BY <1>1, <1>2, NodesGrow
<1> HIDE DEF e
<1>5. VisitedIsCalled'
  <2>1. queue' = queue /\ initialised' = initialised /\ edges \subseteq edges' /\ VisitedIsCalled
    BY <1>1 DEF CallsInv
  <2>2. ASSUME NEW m \in initialised, NEW q \in DOMAIN Body(m.fn), m = at.node, q = at.site + 1
        PROVE  \E x \in edges' :
                  /\ x.from = m /\ x.inst = Body(m.fn)[q]
                  /\ IsIndirect(x.to) <=> ThroughPointer(Body(m.fn)[q])
    BY <2>2, <1>1, <1>2, <1>3
  <2> QED
    BY <2>1, <2>2, VisitedIsCalledStep
<1>6. TargetsAreCallees'
  <2>1. ASSUME NEW m \in IndirectNodes'
        PROVE
      /\ targets'[m] \subseteq {f \in Call(m.inst).holds : Fits(m.inst, f)}
      /\ IsFiniteSet(targets'[m]) /\ Cardinality(targets'[m]) <= Program[prog].limit
      /\ \A d \in DirectNodes :
           <<m, d>> \in resolved =>
             /\ d.fn \in targets'[m] \ Intrinsics
             /\ \E x \in edges' : x.to = d /\ x.inst = m.inst /\ x.from.ctx = m.ctx
      /\ \A f \in targets'[m] \ Intrinsics :
           \E d \in DirectNodes : d.fn = f /\ <<m, d>> \in resolved
    <3>1. CASE m \in IndirectNodes
      <4>1. targets'[m] = targets[m]
        BY <3>1, <1>1
      <4>2. /\ targets[m] \subseteq {f \in Call(m.inst).holds : Fits(m.inst, f)}
            /\ IsFiniteSet(targets[m]) /\ Cardinality(targets[m]) <= Program[prog].limit
            /\ \A d \in DirectNodes :
                 <<m, d>> \in resolved =>
                   /\ d.fn \in targets[m] \ Intrinsics
                   /\ \E x \in edges : x.to = d /\ x.inst = m.inst /\ x.from.ctx = m.ctx
            /\ \A f \in targets[m] \ Intrinsics :
                 \E d \in DirectNodes : d.fn = f /\ <<m, d>> \in resolved
        BY <3>1 DEF CallsInv, TargetsAreCallees
      <4>3. edges \subseteq edges'
        BY <1>1
      <4> QED
        BY <4>1, <4>2, <4>3
    <3>2. CASE m \notin IndirectNodes
      <4>1. m = n /\ n \notin nodes /\ targets'[m] = {}
        BY <3>2, <1>1, <1>2, <1>4 DEF IndirectNodes
      <4>2. \A d : <<m, d>> \notin resolved
        BY <3>2 DEF Inv, TypeOK
      <4>3. IsFiniteSet({}) /\ Cardinality({}) = 0
        BY FS_EmptySet
      <4>4. Program[prog].limit \in Nat
        BY InvFacts, ProgramAssumption
      <4> QED
        BY <4>1, <4>2, <4>3, <4>4
    <3> QED
      BY <3>1, <3>2
  <2> QED
    BY <2>1, <1>4, SameProgram DEF TargetsAreCallees, Fits, Intercepted
<1> QED
  BY <1>1, <1>5, <1>6 DEF CallsInv, AssertionsHold

(* A call of a function that fits.                                         *)
LEMMA FunctionCalls ==
  ASSUME Inv, CallsInv, Inv', prog' = prog,
         NEW caller \in initialised, NEW p \in DOMAIN Body(caller.fn),
         NEW site, site = Body(caller.fn)[p], NEW ctx, NEW f, NEW option,
         CallOf(caller, p, site, Direct(ctx, f)),
         CallFunction(caller, Direct(ctx, f), option, site),
         contexts' = Evolved(caller, site).pool, ctx = Evolved(caller, site).ctx,
         \/ f \in HeapAllocs
         \/ Intercepted(site) /\ f \in Defined \cap StartFunctions
         \/ /\ ~Intercepted(site) /\ Call(site).to \in {NoFunction, f}
            /\ CallsPointer(site) => Fits(site, f)
  PROVE  /\ AssertionsHold' /\ VisitedIsCalled'
         /\ edges' = edges \cup {[from |-> caller, to |-> Direct(ctx, f), inst |-> site]}
         /\ IndirectNodes' = IndirectNodes /\ DirectNodes' = DirectNodes \cup {Direct(ctx, f)}
<1> DEFINE n == Direct(ctx, f)
           e == [from |-> caller, to |-> n, inst |-> site]
<1>1. ~IsIndirect(n) /\ n.fn = f /\ n.ctx = ctx
  BY NodeKinds
<1>2. CallOf(caller, p, site, n) /\ CallFunction(caller, n, option, site)
  OBVIOUS
<1>3. e.from = caller /\ e.to = n /\ e.inst = site
  OBVIOUS
<1> HIDE DEF n
<1>4. PICK built : built = initialised'
  OBVIOUS
<1>5. /\ nodes' = nodes \cup {n}
      /\ Link(caller, n, site, built)
      /\ \/ queue' = queue /\ initialised' = initialised
         \/ n \notin nodes /\ queue' = Append(queue, n) /\ initialised' = initialised \cup {n}
  BY <1>2, <1>4, CallFunctionFacts
<1>6. edges' = edges \cup {e} /\ failed' = failed \cup LinkFailures(caller, n, site, built, contexts')
  <2>1. Link(caller, n, site, built)
    BY <1>5
  <2> QED
    BY <1>1, <2>1 DEF Link
<1>7. IndirectNodes' = IndirectNodes /\ DirectNodes' = DirectNodes \cup {n}
  BY <1>1, <1>5, NodesGrow
<1>8. n.fn \in Defined => n \in built
  BY <1>4, <1>7 DEF Inv, Known
<1>9. LinkFailures(caller, n, site, built, contexts') = {}
  <2>1. \/ n.fn \in HeapAllocs
        \/ Intercepted(site) /\ n.fn \in StartFunctions /\ n \in built
        \/ /\ ~Intercepted(site) /\ Call(site).to \in {NoFunction, n.fn}
           /\ CallsPointer(site) => Fits(site, n.fn)
           /\ n.fn \in Defined => n \in built
    BY <1>1, <1>8
  <2> QED
    BY <1>1, <2>1, NoLinkFailures
<1>10. AssertionsHold'
  BY <1>6, <1>9 DEF CallsInv, AssertionsHold
<1>11. VisitedIsCalled'
  <2> HIDE DEF e
  <2>1. edges \subseteq edges' /\ VisitedIsCalled
        /\ (\/ queue' = queue /\ initialised' = initialised
            \/ \E m : m \notin nodes /\ queue' = Append(queue, m) /\ initialised' = initialised \cup {m})
    BY <1>5, <1>6 DEF CallsInv
  <2>2. at' = at \/ at' = [at EXCEPT !.site = @ + 1]
    BY <1>2 DEF CallOf
  <2>3. ASSUME NEW m \in initialised, NEW q \in DOMAIN Body(m.fn),
               at' # at, m = at.node, q = at.site + 1
        PROVE  \E x \in edges' :
                  /\ x.from = m /\ x.inst = Body(m.fn)[q]
                  /\ IsIndirect(x.to) <=> ThroughPointer(Body(m.fn)[q])
    <3>1. caller = m /\ p = q /\ ~ThroughPointer(site)
      BY <1>2, <2>3 DEF CallOf
    <3>2. site = Body(m.fn)[q]
      BY <3>1
    <3> QED
      BY <3>1, <3>2, <1>1, <1>3, <1>6
  <2> QED
    BY <2>1, <2>2, <2>3, VisitedIsCalledStep
<1> QED
  BY <1>6, <1>7, <1>10, <1>11 DEF n, e

LEMMA VisitDirectCalls ==
  ASSUME Inv, CallsInv, Inv', Supported(prog), VisitDirectCallSite
  PROVE  CallsInv'
<1>1. Visiting /\ HasMore /\ ~CallsPointer(Site) /\ NextSite /\ UNCHANGED <<prog, resolved>>
  BY DEF VisitDirectCallSite
<1>2. PICK caller \in initialised : caller = at.node
  BY <1>1, VisitingFacts
<1>3. PICK p \in DOMAIN Body(caller.fn) : p = at.site + 1 /\ Site = Body(caller.fn)[p]
  BY <1>1, <1>2, VisitingFacts
<1>4. PICK site \in CallSites : site = Site
  BY <1>1, VisitingFacts
<1>5. PICK evolved, r :
        /\ evolved = Evolved(caller, site) /\ contexts' = evolved.pool
        /\ r = Intercept(Call(site).to, site)
        /\ \/ /\ r.option = "IGNORE"
              /\ UNCHANGED <<nodes, edges, initialised, external, targets, links,
                             queue, failed>>
           \/ /\ r.option # "IGNORE" /\ r.to # NoFunction
              /\ CallFunction(caller, Direct(evolved.ctx, r.to), r.option, site)
              /\ UNCHANGED targets
           \/ /\ r.option # "IGNORE" /\ r.to = NoFunction
              /\ CallThroughPointer(caller, site)
              /\ UNCHANGED queue
  BY <1>2, <1>4 DEF VisitDirectCallSite
<1>6. at' = [at EXCEPT !.site = @ + 1] /\ prog \in ProgIds
  BY <1>1, VisitingFacts, InvFacts
<1>7. /\ Call(site).to \in Functions
      /\ ThroughPointer(site) <=> r.option # "IGNORE" /\ r.to = NoFunction
      /\ r.option = "IGNORE" => r.to = NoFunction
      /\ Target(site) = r.to
  BY <1>1, <1>4, <1>5, <1>6, ThroughPointerFacts DEF Target
<1>8. site = Body(caller.fn)[p] /\ prog' = prog
  BY <1>1, <1>3, <1>4
<1>9. CASE r.option = "IGNORE"
  <2>1. UNCHANGED <<nodes, edges, initialised, targets, queue, failed>>
    BY <1>5, <1>9
  <2>2. IndirectNodes' = IndirectNodes /\ DirectNodes' = DirectNodes
    BY <2>1 DEF IndirectNodes, DirectNodes
  <2>3. TargetsAreCallees'
    BY <1>1, <2>1, <2>2, TargetsStep DEF CallsInv
  <2>4. VisitedIsCalled'
    <3>1. ASSUME NEW m \in initialised, NEW q \in DOMAIN Body(m.fn), m = at.node, q = at.site + 1
          PROVE  ~ThroughPointer(Body(m.fn)[q]) /\ Target(Body(m.fn)[q]) = NoFunction
      BY <1>2, <1>3, <1>7, <1>8, <1>9, <3>1
    <3>2. queue' = queue /\ initialised' = initialised /\ edges \subseteq edges' /\ VisitedIsCalled
      BY <2>1 DEF CallsInv
    <3> QED
      BY <3>1, <3>2, <1>1, <1>6, VisitedIsCalledStep
  <2> QED
    BY <2>1, <2>3, <2>4 DEF CallsInv, AssertionsHold
<1>10. CASE r.option # "IGNORE" /\ r.to # NoFunction
  <2>1. PICK f, ctx, option : f = r.to /\ ctx = evolved.ctx /\ option = r.option
    OBVIOUS
  <2>2. CallFunction(caller, Direct(ctx, f), option, site) /\ targets' = targets
    BY <1>5, <1>10, <2>1
  <2>3. CallOf(caller, p, site, Direct(ctx, f))
    BY <1>1, <1>2, <1>3, <1>6, <1>7, <1>10, <2>1, NodeKinds DEF CallOf
  <2>4. \/ f \in HeapAllocs
        \/ Intercepted(site) /\ f \in Defined \cap StartFunctions
        \/ /\ ~Intercepted(site) /\ Call(site).to \in {NoFunction, f}
           /\ CallsPointer(site) => Fits(site, f)
    <3>1. CASE Intercepted(site)
      <4>1. f = Call(site).start /\ f # NoFunction
        BY <3>1, <1>5, <1>6, <1>7, <1>10, <2>1, InterceptFacts DEF Intercepted
      <4> QED
        BY <3>1, <4>1, SupportedFacts
    <3>2. CASE ~Intercepted(site)
      <4>1. Call(site).to \notin Intrinsics /\ Call(site).to # PthreadCreate
        BY <3>2, <1>5, <1>6, <1>7, <1>10, InterceptFacts DEF Intercepted
      <4>2. f = Call(site).to
        BY <4>1, <1>5, <1>6, <1>7, <2>1, InterceptFacts
      <4> QED
        BY <3>2, <4>2, <1>1, <1>4
    <3> QED
      BY <3>1, <3>2
  <2>5. /\ AssertionsHold' /\ VisitedIsCalled'
        /\ edges \subseteq edges'
        /\ IndirectNodes' = IndirectNodes /\ DirectNodes \subseteq DirectNodes'
    <3>1. contexts' = Evolved(caller, site).pool /\ ctx = Evolved(caller, site).ctx
      BY <1>5, <2>1
    <3>2. AssertionsHold' /\ VisitedIsCalled'
      BY <3>1, <2>2, <2>3, <2>4, <1>8, FunctionCalls
    <3>3. PICK d : d = Direct(ctx, f) /\ ~IsIndirect(d)
      BY NodeKinds
    <3>4. CallFunction(caller, d, option, site)
      BY <2>2, <3>3
    <3>5. nodes' = nodes \cup {d} /\ edges \subseteq edges'
      BY <3>4 DEF CallFunction, Link
    <3>6. IndirectNodes' = IndirectNodes /\ DirectNodes' = DirectNodes \cup {d}
      BY <3>3, <3>5, NodesGrow
    <3> QED
      BY <3>2, <3>5, <3>6
  <2>6. TargetsAreCallees'
    BY <1>1, <2>2, <2>5, TargetsStep DEF CallsInv
  <2> QED
    BY <2>5, <2>6 DEF CallsInv
<1>11. CASE r.option # "IGNORE" /\ r.to = NoFunction
  <2>1. CallThroughPointer(caller, site) /\ queue' = queue
    BY <1>5, <1>11
  <2>2. ThroughPointer(site)
    BY <1>7, <1>11
  <2> QED
    BY <2>1, <2>2, <1>1, <1>2, <1>3, <1>6, <1>8, PointerCalls
<1> QED
  BY <1>9, <1>10, <1>11

LEMMA VisitInDirectCalls ==
  ASSUME Inv, CallsInv, VisitInDirectCallSite
  PROVE  CallsInv'
<1>1. /\ Visiting /\ HasMore /\ CallsPointer(Site) /\ CallThroughPointer(at.node, Site) /\ NextSite
      /\ UNCHANGED <<prog, contexts, resolved, queue>>
  BY DEF VisitInDirectCallSite
<1>2. PICK caller \in initialised : caller = at.node
  BY <1>1, VisitingFacts
<1>3. PICK p \in DOMAIN Body(caller.fn) : p = at.site + 1 /\ Site = Body(caller.fn)[p]
  BY <1>1, <1>2, VisitingFacts
<1>4. PICK site : site = Site
  OBVIOUS
<1>5. ThroughPointer(site) /\ CallThroughPointer(caller, site) /\ at' = [at EXCEPT !.site = @ + 1]
  BY <1>1, <1>2, <1>4, VisitingFacts DEF ThroughPointer
<1> QED
  BY <1>1, <1>2, <1>3, <1>4, <1>5, PointerCalls

LEMMA ResolveCalls ==
  ASSUME Inv, CallsInv, Inv', Supported(prog),
         NEW n \in IndirectNodes, NEW f \in Functions, ResolveCallTo(n, f)
  PROVE  CallsInv'
<1>1. /\ at = Idle /\ queue = <<>> /\ Resolvable(n, f)
      /\ targets' = [targets EXCEPT ![n] = @ \cup {f}]
      /\ UNCHANGED <<prog, at>>
  BY DEF ResolveCallTo
<1>2. PICK caller \in initialised :
        /\ {e.from : e \in {e \in edges : e.to = n}} = {caller}
        /\ n = Indirect(caller.ctx, n.inst) /\ ThroughPointer(n.inst)
        /\ \E p \in DOMAIN Body(caller.fn) : n.inst = Body(caller.fn)[p] /\ Visited(caller, p)
  BY CallerFacts
<1>3. PICK p \in DOMAIN Body(caller.fn) : n.inst = Body(caller.fn)[p] /\ Visited(caller, p)
  BY <1>2
<1>4. PICK site \in CallSites : site = n.inst
  BY InvFacts
<1>5. targets \in [IndirectNodes -> SUBSET Functions] /\ prog \in ProgIds
      /\ resolved \subseteq IndirectNodes \X DirectNodes
  BY DEF Inv, TypeOK
<1>6. Cardinality({caller}) = 1
  BY FS_Singleton
<1>7. PICK evolved, r :
        /\ evolved = Evolved(caller, n.inst) /\ contexts' = evolved.pool
        /\ r = Intercept(f, site)
        /\ ResolveIn(n, caller, evolved.ctx, r)
  BY <1>2, <1>4, <1>6 DEF ResolveCallTo
<1>8. /\ f \in Call(site).holds /\ Fits(site, f) /\ f \notin targets[n]
      /\ Cardinality(targets[n]) < Program[prog].limit
  BY <1>1, <1>4 DEF Resolvable
<1>9. f # PthreadCreate /\ f # NoFunction
  BY <1>8, SupportedFacts, FunctionsAssumption
<1>10. /\ r.option = "IGNORE" <=> f \in Intrinsics
       /\ f \notin Intrinsics => r.to = f
  BY <1>5, <1>7, <1>9, InterceptFacts
<1>11. \A d \in DirectNodes : <<n, d>> \in resolved => d.fn # f
  BY <1>8 DEF CallsInv, TargetsAreCallees
<1>12. /\ targets' \in [IndirectNodes -> SUBSET Functions]
       /\ targets'[n] = targets[n] \cup {f}
       /\ \A m \in IndirectNodes : m # n => targets'[m] = targets[m]
  BY <1>1, <1>5
<1>13. /\ targets'[n] \subseteq {g \in Call(n.inst).holds : Fits(n.inst, g)}
       /\ IsFiniteSet(targets'[n]) /\ Cardinality(targets'[n]) <= Program[prog].limit
  <2>1. /\ targets[n] \subseteq {g \in Call(n.inst).holds : Fits(n.inst, g)}
        /\ IsFiniteSet(targets[n])
    BY DEF CallsInv, TargetsAreCallees
  <2>2. IsFiniteSet(targets[n] \cup {f}) /\ Cardinality(targets[n] \cup {f}) = Cardinality(targets[n]) + 1
    BY <1>8, <2>1, FS_AddElement
  <2>3. Cardinality(targets[n]) \in Nat /\ Program[prog].limit \in Nat
    BY <1>5, <2>1, FS_CardinalityType, ProgramAssumption
  <2> QED
    BY <1>4, <1>8, <1>12, <2>1, <2>2, <2>3
<1>14. CASE f \in Intrinsics
  <2>1. UNCHANGED <<nodes, edges, initialised, external, resolved, links, queue, failed>>
    BY <1>7, <1>10, <1>14 DEF ResolveIn
  <2>2. IndirectNodes' = IndirectNodes /\ DirectNodes' = DirectNodes
    BY <2>1 DEF IndirectNodes, DirectNodes
  <2>3. VisitedIsCalled'
    <3>1. queue' = queue /\ initialised' = initialised /\ edges \subseteq edges' /\ VisitedIsCalled
      BY <2>1 DEF CallsInv
    <3> QED
      BY <3>1, <1>1, VisitedIsCalledStep
  <2>4. ASSUME NEW m \in IndirectNodes
        PROVE
      /\ targets'[m] \subseteq {g \in Call(m.inst).holds : Fits(m.inst, g)}
      /\ IsFiniteSet(targets'[m]) /\ Cardinality(targets'[m]) <= Program[prog].limit
      /\ \A d \in DirectNodes' :
           <<m, d>> \in resolved' =>
             /\ d.fn \in targets'[m] \ Intrinsics
             /\ \E x \in edges' : x.to = d /\ x.inst = m.inst /\ x.from.ctx = m.ctx
      /\ \A g \in targets'[m] \ Intrinsics :
           \E d \in DirectNodes' : d.fn = g /\ <<m, d>> \in resolved'
    <3>1. CASE m # n
      <4>1. targets'[m] = targets[m] /\ edges' = edges /\ resolved' = resolved
        BY <3>1, <2>1, <1>12
      <4>2. /\ targets[m] \subseteq {g \in Call(m.inst).holds : Fits(m.inst, g)}
            /\ IsFiniteSet(targets[m]) /\ Cardinality(targets[m]) <= Program[prog].limit
            /\ \A d \in DirectNodes :
                 <<m, d>> \in resolved =>
                   /\ d.fn \in targets[m] \ Intrinsics
                   /\ \E x \in edges : x.to = d /\ x.inst = m.inst /\ x.from.ctx = m.ctx
            /\ \A g \in targets[m] \ Intrinsics :
                 \E d \in DirectNodes : d.fn = g /\ <<m, d>> \in resolved
        BY PointerTargets
      <4> QED
        BY <4>1, <4>2, <2>2
    <3>2. CASE m = n
      <4>1. targets'[m] \ Intrinsics = targets[n] \ Intrinsics
        BY <3>2, <1>12, <1>14
      <4>2. /\ \A d \in DirectNodes :
                 <<n, d>> \in resolved =>
                   /\ d.fn \in targets[n] \ Intrinsics
                   /\ \E x \in edges : x.to = d /\ x.inst = n.inst /\ x.from.ctx = n.ctx
            /\ \A g \in targets[n] \ Intrinsics :
                 \E d \in DirectNodes : d.fn = g /\ <<n, d>> \in resolved
        BY DEF CallsInv, TargetsAreCallees
      <4> QED
        BY <3>2, <4>1, <4>2, <2>1, <2>2, <1>13
    <3> QED
      BY <3>1, <3>2
  <2>5. TargetsAreCallees'
    BY <2>2, <2>4, <1>1, TargetsAfter
  <2> QED
    BY <2>1, <2>3, <2>5 DEF CallsInv, AssertionsHold
<1>15. CASE f \notin Intrinsics
  <2>1. PICK ctx, option : ctx = evolved.ctx /\ option = r.option
    OBVIOUS
  <2> DEFINE d0 == Direct(ctx, f)
             e0 == [from |-> caller, to |-> d0, inst |-> site]
  <2>2. r.option # "IGNORE" /\ r.to = f /\ d0.fn = f /\ ~IsIndirect(d0)
    BY <1>10, <1>15, NodeKinds
  <2>3. <<n, d0>> \notin resolved
    <3>1. <<n, d0>> \in resolved => d0 \in DirectNodes
      BY <1>5
    <3> QED
      BY <3>1, <2>2, <1>11
  <2>4. resolved' = resolved \cup {<<n, d0>>} /\ CallFunction(caller, d0, option, n.inst)
    BY <1>7, <1>9, <2>1, <2>2, <2>3 DEF ResolveIn
  <2>5. CallFunction(caller, Direct(ctx, f), option, site)
    BY <1>4, <2>4
  <2>6. CallOf(caller, p, site, Direct(ctx, f))
    <3>1. n = Indirect(caller.ctx, site) /\ ThroughPointer(site)
      BY <1>2, <1>4
    <3>2. Visited(caller, p) /\ at' = at
      BY <1>1, <1>3
    <3> QED
      BY <3>1, <3>2, <2>3, <2>4 DEF CallOf
  <2>7. \/ f \in HeapAllocs
        \/ Intercepted(site) /\ f \in Defined \cap StartFunctions
        \/ /\ ~Intercepted(site) /\ Call(site).to \in {NoFunction, f}
           /\ CallsPointer(site) => Fits(site, f)
    <3>1. CASE Intercepted(site)
      <4>1. f \in StartFunctions
        BY <3>1, <1>8 DEF Fits
      <4> QED
        BY <3>1, <4>1, <1>8, <1>15, SupportedFacts
    <3>2. CASE ~Intercepted(site)
      <4>1. CallsPointer(site)
        BY <3>2, <1>2, <1>4 DEF ThroughPointer
      <4> QED
        BY <3>2, <4>1, <1>8 DEF CallsPointer
    <3> QED
      BY <3>1, <3>2
  <2>8. site = Body(caller.fn)[p] /\ prog' = prog
    BY <1>1, <1>3, <1>4
  <2>9. /\ AssertionsHold' /\ VisitedIsCalled'
        /\ edges' = edges \cup {e0}
        /\ IndirectNodes' = IndirectNodes /\ DirectNodes' = DirectNodes \cup {d0}
    <3>1. contexts' = Evolved(caller, site).pool /\ ctx = Evolved(caller, site).ctx
      BY <1>4, <1>7, <2>1
    <3>2. AssertionsHold' /\ VisitedIsCalled'
      BY <3>1, <2>5, <2>6, <2>7, <2>8, FunctionCalls
    <3>3. PICK built : built = initialised'
      OBVIOUS
    <3>4. nodes' = nodes \cup {d0} /\ Link(caller, d0, site, built)
      <4>1. CallFunction(caller, d0, option, site)
        BY <1>4, <2>4
      <4> HIDE DEF d0
      <4> QED
        BY <3>3, <4>1, CallFunctionFacts
    <3>5. edges' = edges \cup {e0}
      BY <3>4 DEF Link
    <3>6. IndirectNodes' = IndirectNodes /\ DirectNodes' = DirectNodes \cup {d0}
      BY <2>2, <3>4, NodesGrow
    <3> QED
      BY <3>2, <3>5, <3>6
  <2>10. e0.to = d0 /\ e0.inst = n.inst /\ e0.from.ctx = n.ctx
    <3>1. n = Indirect(caller.ctx, site) /\ n.inst = site
      BY <1>2, <1>4
    <3>2. n.ctx = caller.ctx
      BY <3>1, NodeKinds
    <3> QED
      BY <3>1, <3>2
  <2> HIDE DEF d0, e0
  <2>11. ASSUME NEW m \in IndirectNodes
         PROVE
      /\ targets'[m] \subseteq {g \in Call(m.inst).holds : Fits(m.inst, g)}
      /\ IsFiniteSet(targets'[m]) /\ Cardinality(targets'[m]) <= Program[prog].limit
      /\ \A d \in DirectNodes' :
           <<m, d>> \in resolved' =>
             /\ d.fn \in targets'[m] \ Intrinsics
             /\ \E x \in edges' : x.to = d /\ x.inst = m.inst /\ x.from.ctx = m.ctx
      /\ \A g \in targets'[m] \ Intrinsics :
           \E d \in DirectNodes' : d.fn = g /\ <<m, d>> \in resolved'
    <3>1. /\ \A d \in DirectNodes :
               <<m, d>> \in resolved =>
                 /\ d.fn \in targets[m] \ Intrinsics
                 /\ \E x \in edges : x.to = d /\ x.inst = m.inst /\ x.from.ctx = m.ctx
          /\ \A g \in targets[m] \ Intrinsics :
               \E d \in DirectNodes : d.fn = g /\ <<m, d>> \in resolved
          /\ targets[m] \subseteq {g \in Call(m.inst).holds : Fits(m.inst, g)}
          /\ IsFiniteSet(targets[m]) /\ Cardinality(targets[m]) <= Program[prog].limit
      BY DEF CallsInv, TargetsAreCallees
    <3>2. /\ targets'[m] \subseteq {g \in Call(m.inst).holds : Fits(m.inst, g)}
          /\ IsFiniteSet(targets'[m]) /\ Cardinality(targets'[m]) <= Program[prog].limit
      <4>1. CASE m = n
        BY <4>1, <1>13
      <4>2. CASE m # n
        BY <4>2, <3>1, <1>12
      <4> QED
        BY <4>1, <4>2
    <3>3. targets[m] \subseteq targets'[m] /\ \A g \in targets'[m] : g \in targets[m] \/ (m = n /\ g = f)
      BY <1>12
    <3>4. ASSUME NEW d \in DirectNodes', <<m, d>> \in resolved'
          PROVE  /\ d.fn \in targets'[m] \ Intrinsics
                 /\ \E x \in edges' : x.to = d /\ x.inst = m.inst /\ x.from.ctx = m.ctx
      <4>1. CASE <<m, d>> \in resolved
        <5>1. d \in DirectNodes
          BY <4>1, <1>5
        <5> QED
          BY <4>1, <5>1, <3>1, <3>3, <2>9
      <4>2. CASE <<m, d>> \notin resolved
        <5>1. m = n /\ d = d0
          BY <3>4, <4>2, <2>4
        <5>2. d.fn \in targets'[m] \ Intrinsics
          BY <5>1, <2>2, <1>12, <1>15
        <5> QED
          BY <5>1, <5>2, <2>9, <2>10
      <4> QED
        BY <4>1, <4>2
    <3>5. ASSUME NEW g \in targets'[m] \ Intrinsics
          PROVE  \E d \in DirectNodes' : d.fn = g /\ <<m, d>> \in resolved'
      <4>1. CASE g \in targets[m]
        BY <4>1, <3>1, <3>5, <2>4, <2>9
      <4>2. CASE m = n /\ g = f
        BY <4>2, <2>2, <2>4, <2>9
      <4> QED
        BY <3>3, <4>1, <4>2
    <3> QED
      BY <3>2, <3>4, <3>5
  <2>12. TargetsAreCallees'
    BY <2>9, <2>11, <1>1, TargetsAfter
  <2> QED
    BY <2>9, <2>12 DEF CallsInv
<1> QED
  BY <1>14, <1>15

LEMMA NextExpected == Inv /\ Expected /\ [Next]_vars => Expected'
<1> SUFFICES ASSUME Inv, Expected, [Next]_vars, Supported(prog)' PROVE CallsInv'
  BY DEF Expected
<1>1. prog' = prog
  BY DEF Next, NextNode, LeaveNode, VisitInDirectCallSite, VisitDirectCallSite,
         ResolveCallTo, vars
<1>2. Supported(prog) /\ CallsInv
  BY <1>1 DEF Expected
<1>3. Inv'
  BY NextInv
<1>4. CASE NextNode
  BY <1>2, <1>4, NextNodeCalls
<1>5. CASE LeaveNode
  BY <1>2, <1>5, LeaveNodeCalls
<1>6. CASE VisitInDirectCallSite
  BY <1>2, <1>6, VisitInDirectCalls
<1>7. CASE VisitDirectCallSite
  BY <1>2, <1>3, <1>7, VisitDirectCalls
<1>8. CASE \E n \in IndirectNodes, f \in Functions : ResolveCallTo(n, f)
  BY <1>2, <1>3, <1>8, ResolveCalls
<1>9. CASE UNCHANGED vars
  <2>1. UNCHANGED <<prog, contexts, nodes, edges, initialised, external, targets, resolved,
                    links, queue, at, failed>>
    BY <1>9 DEF vars
  <2>2. IndirectNodes' = IndirectNodes /\ DirectNodes' = DirectNodes
    BY <2>1 DEF IndirectNodes, DirectNodes
  <2>3. TargetsAreCallees'
    BY <2>1, <2>2, <1>2, TargetsStep DEF CallsInv
  <2>4. VisitedIsCalled'
    BY <2>1, <1>2, VisitedIsCalledStep DEF CallsInv
  <2> QED
    BY <2>1, <2>3, <2>4, <1>2 DEF CallsInv, AssertionsHold
<1> QED
  BY <1>4, <1>5, <1>6, <1>7, <1>8, <1>9 DEF Next

(* What holds of the programs the construction can handle: no assertion    *)
(* fails, what has been visited has its edges, and the targets of a        *)
(* pointer call are its callees (visitCallNode, resolveCallTo).            *)
THEOREM ExpectedHolds == Spec => []Expected
<1>1. Inv /\ Expected /\ [Next]_vars => Expected'
  BY NextExpected
<1> QED
  BY <1>1, InitExpected, InvHolds, PTL DEF Spec

(* Unless a thread may run a function that is only declared or has other   *)
(* parameters, or a pointer holds pthread_create, no assertion of          *)
(* CtxModule.h, CtxFunction.h, overrideCallSite and processCallSite about  *)
(* the call graph fails: a pointer call has one caller, is resolved to a   *)
(* function once, the context of each callee is what evolving that of its  *)
(* caller gives, merged or not, and the callee matches its call site and   *)
(* has its parameters by then.  The assertions that compare the numbers    *)
(* and types of arguments are not modelled.                                *)
THEOREM NoAssertionFails == Spec => [](Supported(prog) => AssertionsHold)
<1>1. Expected => (Supported(prog) => AssertionsHold)
  BY DEF Expected, CallsInv
<1> QED
  BY <1>1, ExpectedHolds, PTL

(* In the same programs every call site of every function in the call      *)
(* graph has, in each of its contexts, edges to all its targets when       *)
(* nothing is left to do; only a pointer call at the limit may lack some   *)
(* (visitCallNode, updateFunPtrs, resolvedTo).                             *)
THEOREM NoCallIsMissed == Spec => [](Supported(prog) => CallsAreComplete)
<1>1. ASSUME Inv, CallsInv
      PROVE  CallsAreComplete
  <2> SUFFICES ASSUME AtRest, NEW n \in initialised, NEW p \in 1 .. Len(Body(n.fn))
               PROVE  LET site == Body(n.fn)[p]
                          node == Indirect(n.ctx, site)
                          fitting == {f \in Call(site).holds : Fits(site, f)}
                      IN IF ~CallsPointer(site) /\ ~(Intercepted(site) /\ Call(site).start = NoFunction)
                         THEN CalleesOf(n, site) =
                                {Intercept(Call(site).to, site).to} \ {NoFunction}
                         ELSE /\ CalleesOf(n, site) = targets[node] \ Intrinsics
                              /\ targets[node] # fitting =>
                                   Cardinality(targets[node]) = Program[prog].limit
    BY DEF CallsAreComplete
  <2>1. n \in DirectNodes /\ n \in nodes /\ n # NoNode /\ n.fn \in Functions
    BY <1>1, InvFacts
  <2>2. p \in DOMAIN Body(n.fn)
    <3>1. Body(n.fn) \in Seq(CallSites)
      BY <1>1, <2>1, SiteFacts
    <3> QED
      BY <3>1
  <2>3. PICK site \in CallSites : site = Body(n.fn)[p]
    BY <1>1, <2>1, <2>2, SiteFacts
  <2>4. Visited(n, p)
    <3>1. queue = <<>> /\ at.node = NoNode
      BY DEF AtRest, Idle
    <3> QED
      BY <2>1, <3>1 DEF Visited
  <2>5. \/ ~ThroughPointer(site) /\ Target(site) = NoFunction
        \/ \E e \in edges :
             /\ e.from = n /\ e.inst = site
             /\ IsIndirect(e.to) <=> ThroughPointer(site)
    BY <1>1, <2>2, <2>3, <2>4 DEF CallsInv, VisitedIsCalled
  <2>6. \A e \in edges : IsCallEdge(e)
    BY <1>1 DEF Inv, EdgesAreCalls
  <2>7. CASE ~ThroughPointer(site)
    <3>1. ASSUME NEW e \in edges, e.from = n, e.inst = site
          PROVE  ~IsIndirect(e.to) /\ e.to.fn = Target(site)
      BY <2>6, <2>7, <3>1 DEF IsCallEdge
    <3>2. Target(site) # NoFunction =>
            \E e \in edges : e.from = n /\ e.inst = site /\ ~IsIndirect(e.to)
      BY <2>5, <2>7
    <3>3. ASSUME NEW e \in edges, e.from = n, e.inst = site
          PROVE  e.to.fn # NoFunction
      <4>1. e.to \in nodes /\ ~IsIndirect(e.to)
        BY <1>1, <3>1, <3>3, InvFacts
      <4>2. e.to.fn \in Functions
        BY <1>1, <4>1, InvFacts
      <4> QED
        BY <4>2, FunctionsAssumption
    <3>4. CalleesOf(n, site) = {Target(site)} \ {NoFunction}
      BY <3>1, <3>2, <3>3 DEF CalleesOf
    <3> QED
      BY <2>3, <2>7, <3>4 DEF ThroughPointer, Target
  <2>8. CASE ThroughPointer(site)
    <3> DEFINE node == Indirect(n.ctx, site)
    <3>1. PICK e \in edges : e.from = n /\ e.inst = site /\ IsIndirect(e.to)
      BY <2>5, <2>8
    <3>2. e.to = node /\ node \in IndirectNodes /\ node.inst = site /\ node.ctx = n.ctx
      <4>1. e.to \in IndirectNodes
        BY <1>1, <3>1, InvFacts
      <4>2. e.to = node
        BY <2>6, <3>1 DEF IsCallEdge
      <4> QED
        BY <4>1, <4>2, NodeKinds
    <3> HIDE DEF node
    <3>3. /\ targets[node] \subseteq {f \in Call(site).holds : Fits(site, f)}
          /\ IsFiniteSet(targets[node]) /\ Cardinality(targets[node]) <= Program[prog].limit
          /\ \A d \in DirectNodes :
               <<node, d>> \in resolved =>
                 /\ d.fn \in targets[node] \ Intrinsics
                 /\ \E x \in edges : x.to = d /\ x.inst = site /\ x.from.ctx = n.ctx
          /\ \A f \in targets[node] \ Intrinsics :
               \E d \in DirectNodes : d.fn = f /\ <<node, d>> \in resolved
      BY <1>1, <3>2, PointerTargets
    <3>4. ASSUME NEW x \in edges, x.from = n, x.inst = site, ~IsIndirect(x.to)
          PROVE  x.to.fn \in targets[node] \ Intrinsics
      <4>1. <<node, x.to>> \in resolved
        BY <2>6, <2>8, <3>4 DEF IsCallEdge, node
      <4>2. x.to \in DirectNodes
        BY <1>1, <3>4, InvFacts
      <4> QED
        BY <3>3, <4>1, <4>2
    <3>5. ASSUME NEW f \in targets[node] \ Intrinsics
          PROVE  \E x \in edges : /\ x.from = n /\ x.inst = site /\ ~IsIndirect(x.to)
                                  /\ x.to.fn = f
      <4>1. PICK d \in DirectNodes : d.fn = f /\ <<node, d>> \in resolved
        BY <3>3
      <4>2. PICK x \in edges : x.to = d /\ x.inst = site /\ x.from.ctx = n.ctx
        BY <3>3, <4>1
      <4>3. x.from \in DirectNodes /\ ~IsIndirect(x.to)
        BY <1>1, <4>1, <4>2, InvFacts
      <4>4. PICK q \in DOMAIN Body(x.from.fn) : site = Body(x.from.fn)[q]
        BY <2>6, <4>2 DEF IsCallEdge
      <4>5. x.from.fn = n.fn
        <5>1. Body(x.from.fn)[q] = Body(n.fn)[p]
          BY <2>3, <4>4
        <5>2. \A k \in DOMAIN Body(x.from.fn), j \in DOMAIN Body(n.fn) :
                Body(x.from.fn)[k] = Body(n.fn)[j] => x.from.fn = n.fn
          BY <1>1, <2>1, <4>3, SiteFacts
        <5> QED
          BY <2>2, <5>1, <5>2
      <4>6. x.from = Direct(x.from.ctx, x.from.fn) /\ n = Direct(n.ctx, n.fn)
        BY <1>1, <2>1, <4>3, InvFacts
      <4> QED
        BY <4>1, <4>2, <4>3, <4>5, <4>6
    <3>6. CalleesOf(n, site) = targets[node] \ Intrinsics
      BY <3>4, <3>5 DEF CalleesOf
    <3>7. ASSUME targets[node] # {f \in Call(site).holds : Fits(site, f)}
          PROVE  Cardinality(targets[node]) = Program[prog].limit
      <4>1. PICK f \in Call(site).holds : Fits(site, f) /\ f \notin targets[node]
        BY <3>3, <3>7
      <4>2. f \in Functions /\ Program[prog].limit \in Nat
        BY <1>1, InvFacts, ProgramAssumption DEF Call
      <4>3. ~Resolvable(node, f)
        BY <3>2, <4>2 DEF AtRest
      <4>4. ~(Cardinality(targets[node]) < Program[prog].limit)
        BY <3>2, <4>1, <4>3 DEF Resolvable
      <4>5. Cardinality(targets[node]) \in Nat
        BY <3>3, FS_CardinalityType
      <4> QED
        BY <3>3, <4>2, <4>4, <4>5
    <3> QED
      BY <2>3, <2>8, <3>6, <3>7 DEF ThroughPointer, node
  <2> QED
    BY <2>7, <2>8
<1>2. Inv /\ Expected => (Supported(prog) => CallsAreComplete)
  BY <1>1 DEF Expected
<1> QED
  BY <1>2, InvHolds, ExpectedHolds, PTL

(***************************************************************************)
(* Induction, and what is read from the ring buffer of a context.          *)
(***************************************************************************)

(* A set of naturals has a least element, hence induction.                 *)
LEMMA LeastNatural ==
  ASSUME NEW T, T \subseteq Nat, T # {}
  PROVE  \E m \in T : \A n \in T : m <= n
<1> DEFINE R == OpToRel(<, Nat)
<1>1. IsWellFoundedOn(R, Nat)
  BY NatLessThanWellFounded
<1>2. \A x, y \in Nat : <<y, x>> \in R <=> y < x
  BY DEF OpToRel
<1> HIDE DEF R
<1>3. PICK m \in T : \A n \in T : ~(<<n, m>> \in R)
  BY <1>1, WFMin
<1>4. ASSUME NEW n \in T
      PROVE  m <= n
  <2>1. m \in Nat /\ n \in Nat /\ ~(n < m)
    BY <1>2, <1>3
  <2> QED
    BY <2>1
<1> QED
  BY <1>4

LEMMA SetInduction ==
  ASSUME NEW S, 0 \in S, \A n \in Nat : n \in S => n + 1 \in S
  PROVE  Nat \subseteq S
<1> SUFFICES ASSUME Nat \ S # {}
             PROVE  FALSE
  OBVIOUS
<1>1. PICK m \in Nat \ S : \A n \in Nat \ S : m <= n
  BY LeastNatural
<1>2. m - 1 \in Nat /\ m - 1 \in S
  BY <1>1
<1> QED
  BY <1>1, <1>2

(* A function that is defined by recursion on an interval exists: its      *)
(* value at n is given by that at n - 1.                                   *)
IsRecursive(f, N, V, base, step) ==
  f \in [0 .. N -> V] /\ f[0] = base /\ \A n \in 1 .. N : f[n] = step[n][f[n - 1]]

LEMMA Recursion ==
  ASSUME NEW N \in Nat, NEW V, NEW base \in V, NEW step \in [1 .. N -> [V -> V]]
  PROVE  \E f : IsRecursive(f, N, V, base, step)
<1> DEFINE Good(k, f) == f[0] = base /\ \A n \in 1 .. k : f[n] = step[n][f[n - 1]]
           S == {k \in Nat : k <= N => \E f \in [0 .. k -> V] : Good(k, f)}
<1>1. 0 \in S
  <2>1. [n \in 0 .. 0 |-> base] \in [0 .. 0 -> V] /\ Good(0, [n \in 0 .. 0 |-> base])
    OBVIOUS
  <2> QED
    BY <2>1
<1>2. ASSUME NEW k \in Nat, k \in S
      PROVE  k + 1 \in S
  <2> SUFFICES ASSUME k + 1 <= N
               PROVE  \E f \in [0 .. k + 1 -> V] : Good(k + 1, f)
    OBVIOUS
  <2>1. PICK f \in [0 .. k -> V] : Good(k, f)
    BY <1>2
  <2> DEFINE h == [n \in 0 .. k + 1 |-> IF n = k + 1 THEN step[k + 1][f[k]] ELSE f[n]]
  <2>2. step[k + 1][f[k]] \in V
    <3>1. step[k + 1] \in [V -> V] /\ f[k] \in V
      OBVIOUS
    <3> QED
      BY <3>1
  <2>3. h \in [0 .. k + 1 -> V]
    BY <2>2
  <2>4. h[k + 1] = step[k + 1][f[k]] /\ \A n \in 0 .. k : h[n] = f[n]
    OBVIOUS
  <2> HIDE DEF h
  <2>5. ASSUME NEW n \in 1 .. k + 1
        PROVE  h[n] = step[n][h[n - 1]]
    <3>1. CASE n = k + 1
      BY <3>1, <2>4
    <3>2. CASE n # k + 1
      <4>1. n \in 1 .. k /\ n \in 0 .. k /\ n - 1 \in 0 .. k
        BY <3>2
      <4> QED
        BY <4>1, <2>1, <2>4
    <3> QED
      BY <3>1, <3>2
  <2>6. h[0] = base
    BY <2>1, <2>4
  <2> QED
    BY <2>3, <2>5, <2>6
<1> HIDE DEF S
<1>3. N \in S
  BY <1>1, <1>2, SetInduction
<1> QED
  BY <1>3 DEF S, IsRecursive

Slots == CallSites \cup {NoSite}

(* Indices into a buffer.                                                  *)
LEMMA Wraps ==
  ASSUME NEW m \in 0 .. 2 * K - 1
  PROVE  m % K = IF m < K THEN m ELSE m - K
BY KAssumption

(* The slot after the n-th from slot x on.                                 *)
LEMMA NextSlot ==
  ASSUME NEW x \in 0 .. K - 1, NEW n \in 0 .. K - 1
  PROVE  /\ (x + n) % K \in 0 .. K - 1
         /\ (((x + n) % K) + 1) % K = (x + (n + 1)) % K
         /\ (x + (n + 1)) % K = x <=> n + 1 = K
<1>1. /\ (x + n) % K = IF x + n < K THEN x + n ELSE x + n - K
      /\ (x + (n + 1)) % K = IF x + (n + 1) < K THEN x + (n + 1) ELSE x + (n + 1) - K
  BY KAssumption, Wraps
<1>2. (x + n) % K \in 0 .. K - 1
  BY <1>1, KAssumption
<1>3. (((x + n) % K) + 1) % K =
        IF ((x + n) % K) + 1 < K THEN ((x + n) % K) + 1 ELSE ((x + n) % K) + 1 - K
  BY <1>2, KAssumption, Wraps
<1> QED
  BY <1>1, <1>2, <1>3, KAssumption

(* The states of a loop over a buffer: what has been read, and the index.  *)
Reads == [read : Seq(Slots), index : 0 .. K]
ReadNext(ring, f) ==
  IF f.index = K THEN f
  ELSE [read |-> Append(f.read, ring.buffer[f.index]), index |-> Advance(ring, f.index)]

LEMMA ReadNextType ==
  ASSUME NEW ring \in Buffers, NEW f \in Reads
  PROVE  ReadNext(ring, f) \in Reads
<1>1. K \in Nat /\ K > 0 /\ ring.last \in 0 .. K - 1 /\ ring.buffer \in [0 .. K - 1 -> Slots]
  BY KAssumption DEF Buffers, Slots
<1>2. CASE f.index = K
  BY <1>2 DEF ReadNext
<1>3. CASE f.index # K
  <2>1. f.read \in Seq(Slots) /\ f.index \in 0 .. K - 1
    BY <1>1, <1>3 DEF Reads
  <2>2. Append(f.read, ring.buffer[f.index]) \in Seq(Slots)
    BY <2>1, <1>1
  <2>3. (f.index + 1) % K \in 0 .. K - 1
    BY <2>1, <1>1
  <2>4. Advance(ring, f.index) \in 0 .. K
    BY <2>3, <1>1 DEF Advance
  <2> QED
    BY <2>2, <2>4, <1>3 DEF ReadNext, Reads
<1> QED
  BY <1>2, <1>3

LEMMA WalkExists ==
  ASSUME NEW ring \in Buffers
  PROVE  \E f : f = [n \in 0 .. K |-> IF n = 0 THEN [read |-> <<>>, index |-> ring.last]
                                      ELSE ReadNext(ring, f[n - 1])]
<1>1. K \in Nat
  BY KAssumption
<1>2. PICK base : base = [read |-> <<>>, index |-> ring.last]
  OBVIOUS
<1>3. base \in Reads
  BY <1>1, <1>2 DEF Reads, Buffers
<1> DEFINE step == [n \in 1 .. K |-> [v \in Reads |-> ReadNext(ring, v)]]
<1>4. step \in [1 .. K -> [Reads -> Reads]]
  BY ReadNextType
<1>5. \A n \in 1 .. K : \A v \in Reads : step[n][v] = ReadNext(ring, v)
  OBVIOUS
<1> HIDE DEF step
<1>6. PICK f : IsRecursive(f, K, Reads, base, step)
  BY <1>1, <1>3, <1>4, Recursion
<1>7. ASSUME NEW n \in 0 .. K
      PROVE  f[n] = IF n = 0 THEN base ELSE ReadNext(ring, f[n - 1])
  <2>1. CASE n = 0
    BY <2>1, <1>6 DEF IsRecursive
  <2>2. CASE n # 0
    <3>1. n \in 1 .. K /\ f[n - 1] \in Reads
      BY <2>2, <1>1, <1>6 DEF IsRecursive
    <3> QED
      BY <2>2, <3>1, <1>5, <1>6 DEF IsRecursive
  <2> QED
    BY <2>1, <2>2
<1>8. f = [n \in 0 .. K |-> f[n]]
  BY <1>6 DEF IsRecursive
<1>9. f = [n \in 0 .. K |-> IF n = 0 THEN base ELSE ReadNext(ring, f[n - 1])]
  BY <1>7, <1>8
<1> QED
  BY <1>2, <1>9

(* What is read from a buffer: its K slots from the oldest on.             *)
LEMMA WalkFacts ==
  ASSUME NEW ring \in Buffers
  PROVE  Walk(ring) = [i \in 1 .. K |-> ring.buffer[(ring.last + i - 1) % K]]
<1> DEFINE base == [read |-> <<>>, index |-> ring.last]
           Def(f) == [n \in 0 .. K |-> IF n = 0 THEN base ELSE ReadNext(ring, f[n - 1])]
           slot(i) == ring.buffer[(ring.last + i - 1) % K]
<1>1. K \in Nat /\ K > 0 /\ ring.last \in 0 .. K - 1 /\ ring.buffer \in [0 .. K - 1 -> Slots]
  BY KAssumption DEF Buffers, Slots
<1>4. \E f : f = Def(f)
  BY WalkExists
<1>5. PICK f : f = Def(f) /\ Walk(ring) = f[K].read
  <2> DEFINE g == CHOOSE f : f = Def(f)
  <2>1. g = Def(g)
    <3> HIDE DEF Def
    <3> QED
      BY <1>4
  <2>2. Walk(ring) = g[K].read
    BY DEF Walk, ReadNext
  <2> HIDE DEF g
  <2> QED
    BY <2>1, <2>2
<1>6. f[0] = base /\ \A n \in 1 .. K : f[n] = ReadNext(ring, f[n - 1])
  <2> HIDE DEF base
  <2>1. \A n \in 0 .. K : f[n] = IF n = 0 THEN base ELSE ReadNext(ring, f[n - 1])
    BY <1>5
  <2> QED
    BY <2>1, <1>1
<1> DEFINE S == {n \in Nat : n <= K =>
                   /\ f[n].read = [i \in 1 .. n |-> slot(i)]
                   /\ f[n].index = IF n = K THEN K ELSE (ring.last + n) % K}
<1>7. 0 \in S
  <2>1. ring.last % K = ring.last
    BY <1>1
  <2>2. f[0].read = <<>> /\ f[0].index = ring.last
    BY <1>6
  <2> QED
    BY <2>1, <2>2, <1>1
<1>8. ASSUME NEW n \in Nat, n \in S
      PROVE  n + 1 \in S
  <2> SUFFICES ASSUME n + 1 <= K
               PROVE  /\ f[n + 1].read = [i \in 1 .. n + 1 |-> slot(i)]
                      /\ f[n + 1].index = IF n + 1 = K THEN K ELSE (ring.last + (n + 1)) % K
    OBVIOUS
  <2>1. /\ f[n].read = [i \in 1 .. n |-> slot(i)]
        /\ f[n].index = (ring.last + n) % K
    BY <1>1, <1>8
  <2>2. /\ (ring.last + n) % K \in 0 .. K - 1
        /\ ring.last + n \in 0 .. 2 * K - 1 /\ ring.last + (n + 1) \in 0 .. 2 * K - 1
    BY <1>1
  <2>3. f[n + 1] = [read |-> Append(f[n].read, ring.buffer[f[n].index]),
                    index |-> Advance(ring, f[n].index)]
    <3>1. f[n].index # K
      BY <1>1, <2>1, <2>2
    <3>2. n + 1 \in 1 .. K /\ (n + 1) - 1 = n
      BY <1>1
    <3>3. f[n + 1] = ReadNext(ring, f[n])
      BY <1>6, <3>2
    <3> QED
      BY <3>1, <3>3 DEF ReadNext
  <2>4. slot(n + 1) = ring.buffer[f[n].index]
    BY <1>1, <2>1
  <2>5. Append([i \in 1 .. n |-> slot(i)], slot(n + 1)) = [i \in 1 .. n + 1 |-> slot(i)]
    <3> HIDE DEF slot
    <3> QED
      OBVIOUS
  <2>6. Advance(ring, f[n].index) = IF n + 1 = K THEN K ELSE (ring.last + (n + 1)) % K
    <3>1. ring.last \in 0 .. K - 1 /\ n \in 0 .. K - 1
      BY <1>1
    <3>2. /\ (((ring.last + n) % K) + 1) % K = (ring.last + (n + 1)) % K
          /\ (ring.last + (n + 1)) % K = ring.last <=> n + 1 = K
      BY <3>1, NextSlot
    <3> QED
      BY <2>1, <3>2 DEF Advance
  <2> HIDE DEF slot
  <2> QED
    BY <2>1, <2>3, <2>4, <2>5, <2>6
<1> HIDE DEF S
<1>9. K \in S
  BY <1>1, <1>7, <1>8, SetInduction
<1> QED
  BY <1>1, <1>5, <1>9 DEF S

(* What contents are printed as.                                           *)
NextFilled(site, t) == IF site = NoSite THEN t ELSE Append(t, site)

LEMMA FilledExists ==
  ASSUME NEW s \in Seq(Slots)
  PROVE  \E f : f = [n \in 0 .. Len(s) |-> IF n = 0 THEN <<>> ELSE NextFilled(s[n], f[n - 1])]
<1>1. PICK N \in Nat : N = Len(s) /\ s \in [1 .. N -> Slots]
  <2>1. Len(s) \in Nat /\ s \in [1 .. Len(s) -> Slots]
    OBVIOUS
  <2> QED
    BY <2>1
<1>2. PICK base \in Seq(Slots) : base = <<>>
  <2>1. <<>> \in Seq(Slots)
    OBVIOUS
  <2> QED
    BY <2>1
<1> DEFINE step == [n \in 1 .. N |-> [t \in Seq(Slots) |-> NextFilled(s[n], t)]]
<1>3. \A n \in 1 .. N : \A t \in Seq(Slots) : NextFilled(s[n], t) \in Seq(Slots)
  BY <1>1 DEF NextFilled
<1>4. step \in [1 .. N -> [Seq(Slots) -> Seq(Slots)]]
  BY <1>3
<1>5. \A n \in 1 .. N : \A t \in Seq(Slots) : step[n][t] = NextFilled(s[n], t)
  OBVIOUS
<1> HIDE DEF step
<1>6. PICK f : IsRecursive(f, N, Seq(Slots), base, step)
  BY <1>4, Recursion
<1>7. ASSUME NEW n \in 0 .. N
      PROVE  f[n] = IF n = 0 THEN <<>> ELSE NextFilled(s[n], f[n - 1])
  <2>1. CASE n = 0
    BY <2>1, <1>2, <1>6 DEF IsRecursive
  <2>2. CASE n # 0
    <3>1. n \in 1 .. N /\ n - 1 \in 0 .. N
      BY <2>2
    <3>2. f[n - 1] \in Seq(Slots)
      BY <3>1, <1>6 DEF IsRecursive
    <3> QED
      BY <2>2, <3>1, <3>2, <1>5, <1>6 DEF IsRecursive
  <2> QED
    BY <2>1, <2>2
<1>8. f = [n \in 0 .. N |-> f[n]]
  BY <1>6 DEF IsRecursive
<1>9. f = [n \in 0 .. N |-> IF n = 0 THEN <<>> ELSE NextFilled(s[n], f[n - 1])]
  BY <1>7, <1>8
<1> QED
  BY <1>1, <1>9

(* When the slots that are not filled come first.                          *)
LEMMA FilledFacts ==
  ASSUME NEW s \in Seq(Slots), NEW e \in 0 .. Len(s),
         \A i \in 1 .. Len(s) : s[i] = NoSite <=> i <= e
  PROVE  Filled(s) = [i \in 1 .. Len(s) - e |-> s[e + i]]
<1> DEFINE Def(f) == [n \in 0 .. Len(s) |-> IF n = 0 THEN <<>> ELSE NextFilled(s[n], f[n - 1])]
<1>1. PICK f : f = Def(f) /\ Filled(s) = f[Len(s)]
  <2> DEFINE g == CHOOSE f : f = Def(f)
  <2>1. \E f : f = Def(f)
    BY FilledExists
  <2>2. g = Def(g)
    <3> HIDE DEF Def
    <3> QED
      BY <2>1
  <2>3. Filled(s) = g[Len(s)]
    BY DEF Filled, NextFilled
  <2> HIDE DEF g
  <2> QED
    BY <2>2, <2>3
<1>2. PICK N \in Nat : N = Len(s)
  OBVIOUS
<1>3. f[0] = <<>> /\ \A n \in 1 .. N : f[n] = NextFilled(s[n], f[n - 1])
  <2>1. \A n \in 0 .. N : f[n] = IF n = 0 THEN <<>> ELSE NextFilled(s[n], f[n - 1])
    BY <1>1, <1>2
  <2> QED
    BY <2>1
<1> DEFINE Is(n) == f[n] = [i \in 1 .. (IF n <= e THEN 0 ELSE n - e) |-> s[e + i]]
           S == {n \in Nat : n <= N => Is(n)}
<1>4. Is(0)
  BY <1>2, <1>3
<1>5. ASSUME NEW n \in Nat, n + 1 <= N, Is(n)
      PROVE  Is(n + 1)
  <2>1. f[n] = [i \in 1 .. (IF n <= e THEN 0 ELSE n - e) |-> s[e + i]]
    BY <1>5
  <2>2. f[n + 1] = NextFilled(s[n + 1], f[n]) /\ n + 1 \in 1 .. Len(s)
    BY <1>2, <1>3, <1>5
  <2>3. CASE n + 1 <= e
    <3>1. s[n + 1] = NoSite /\ n <= e
      BY <2>2, <2>3
    <3> QED
      BY <2>1, <2>2, <2>3, <3>1 DEF NextFilled
  <2>4. CASE ~(n + 1 <= e)
    <3>1. PICK m \in Nat : m = n - e
      BY <2>4
    <3>2. f[n] = [i \in 1 .. m |-> s[e + i]]
      BY <2>1, <3>1
    <3>3. f[n + 1] = Append(f[n], s[n + 1]) /\ s[n + 1] = s[e + (m + 1)]
      BY <2>2, <2>4, <3>1 DEF NextFilled
    <3>4. Append([i \in 1 .. m |-> s[e + i]], s[e + (m + 1)]) = [i \in 1 .. m + 1 |-> s[e + i]]
      OBVIOUS
    <3>5. f[n + 1] = [i \in 1 .. m + 1 |-> s[e + i]]
      BY <3>2, <3>3, <3>4
    <3>6. (IF n + 1 <= e THEN 0 ELSE n + 1 - e) = m + 1
      BY <2>4, <3>1
    <3> QED
      BY <3>5, <3>6
  <2> QED
    BY <2>3, <2>4
<1> HIDE DEF Is
<1>6. 0 \in S /\ \A n \in Nat : n \in S => n + 1 \in S
  BY <1>4, <1>5
<1> HIDE DEF S
<1>7. f[N] = [i \in 1 .. (IF N <= e THEN 0 ELSE N - e) |-> s[e + i]]
  <2>1. N \in S
    BY <1>6, SetInduction
  <2> QED
    BY <2>1 DEF S, Is
<1>8. 1 .. (IF N <= e THEN 0 ELSE N - e) = 1 .. N - e
  BY <1>2
<1> QED
  BY <1>1, <1>2, <1>7, <1>8

(* The call string of a context whose first slots are empty.               *)
LEMMA CallStringFacts ==
  ASSUME NEW ring \in Buffers, NEW e, EmptyFirst(ring, e)
  PROVE  CallString(ring) = [i \in 1 .. K - e |-> Walk(ring)[e + i]]
<1>1. K \in Nat /\ K > 0 /\ ring.last \in 0 .. K - 1 /\ ring.buffer \in [0 .. K - 1 -> Slots]
  BY KAssumption DEF Buffers, Slots
<1>2. Walk(ring) = [i \in 1 .. K |-> ring.buffer[(ring.last + i - 1) % K]]
  BY WalkFacts
<1>3. \A i \in 1 .. K : (ring.last + i - 1) % K \in 0 .. K - 1
  BY <1>1
<1>4. Walk(ring) \in Seq(Slots) /\ Len(Walk(ring)) = K
  BY <1>1, <1>2, <1>3
<1> QED
  BY <1>4, FilledFacts DEF EmptyFirst, CallString

LEMMA WalkPush ==
  ASSUME NEW ring \in Buffers, NEW site \in CallSites
  PROVE  Walk(Push(ring, site)) = [i \in 1 .. K |-> IF i = K THEN site ELSE Walk(ring)[i + 1]]
<1>1. K \in Nat /\ K > 0 /\ ring.last \in 0 .. K - 1 /\ ring.buffer \in [0 .. K - 1 -> Slots]
  BY KAssumption DEF Buffers, Slots
<1>2. PICK x \in 0 .. K - 1 : x = ring.last
  BY <1>1
<1>3. PICK y \in 0 .. K - 1 : y = (x + 1) % K
  BY <1>1
<1>4. PICK b : b = [ring.buffer EXCEPT ![x] = site]
  OBVIOUS
<1>5. Push(ring, site) = [buffer |-> b, last |-> y]
  BY <1>2, <1>3, <1>4 DEF Push
<1>6. b \in [0 .. K - 1 -> Slots] /\ Push(ring, site) \in Buffers
  <2>1. b \in [0 .. K - 1 -> Slots]
    BY <1>1, <1>4 DEF Slots
  <2> QED
    BY <1>5, <2>1 DEF Buffers, Slots
<1>7. Walk(Push(ring, site)) = [i \in 1 .. K |-> b[(y + i - 1) % K]]
  <2>1. PICK r \in Buffers : r = Push(ring, site) /\ r.buffer = b /\ r.last = y
    BY <1>5, <1>6
  <2>2. Walk(r) = [i \in 1 .. K |-> r.buffer[(r.last + i - 1) % K]]
    BY WalkFacts
  <2> QED
    BY <2>1, <2>2
<1>8. Walk(ring) = [i \in 1 .. K |-> ring.buffer[(x + i - 1) % K]]
  BY <1>2, WalkFacts
<1>9. ASSUME NEW i \in 1 .. K
      PROVE  b[(y + i - 1) % K] = IF i = K THEN site ELSE Walk(ring)[i + 1]
  <2>1. y = IF x + 1 < K THEN x + 1 ELSE x + 1 - K
    BY <1>1, <1>3, Wraps
  <2>2. y + i - 1 \in 0 .. 2 * K - 1 /\ x + i \in 0 .. 2 * K - 1
    BY <1>1
  <2>3. /\ (y + i - 1) % K = IF y + i - 1 < K THEN y + i - 1 ELSE y + i - 1 - K
        /\ (x + i) % K = IF x + i < K THEN x + i ELSE x + i - K
    <3>1. PICK p, q \in 0 .. 2 * K - 1 : p = y + i - 1 /\ q = x + i
      BY <2>2
    <3>2. p % K = (IF p < K THEN p ELSE p - K) /\ q % K = (IF q < K THEN q ELSE q - K)
      BY Wraps
    <3> QED
      BY <1>1, <3>1, <3>2
  <2>4. (y + i - 1) % K = (x + i) % K /\ (x + i) % K \in 0 .. K - 1
    BY <1>1, <2>1, <2>3
  <2>5. CASE i = K
    <3>1. (x + i) % K = x
      BY <1>1, <2>3, <2>5
    <3> QED
      BY <1>1, <1>4, <2>4, <2>5, <3>1
  <2>6. CASE i # K
    <3>1. i + 1 \in 1 .. K /\ x + (i + 1) - 1 = x + i
      BY <1>1, <2>6
    <3>2. Walk(ring)[i + 1] = ring.buffer[(x + i) % K]
      BY <1>8, <3>1
    <3>3. (x + i) % K # x
      BY <1>1, <2>3, <2>6
    <3>4. b[(x + i) % K] = ring.buffer[(x + i) % K]
      BY <1>1, <1>4, <2>4, <3>3
    <3> QED
      BY <2>4, <2>6, <3>2, <3>4
  <2> QED
    BY <2>5, <2>6
<1> QED
  BY <1>7, <1>9

LEMMA InitialString ==
  /\ EmptyFirst(InitialCtx, K) /\ InitialCtx \in Buffers
  /\ CallString(InitialCtx) = <<>>
<1>1. K \in Nat /\ K > 0
  BY KAssumption
<1>2. InitialCtx \in Buffers
  BY <1>1 DEF InitialCtx, Buffers
<1>3. Walk(InitialCtx) =
        [i \in 1 .. K |-> InitialCtx.buffer[(InitialCtx.last + i - 1) % K]]
  BY <1>2, WalkFacts
<1>4. ASSUME NEW i \in 1 .. K
      PROVE  Walk(InitialCtx)[i] = NoSite
  <2>1. InitialCtx.last = 0 /\ \A j \in 0 .. K - 1 : InitialCtx.buffer[j] = NoSite
    BY DEF InitialCtx
  <2>2. (InitialCtx.last + i - 1) % K \in 0 .. K - 1
    BY <1>1, <2>1
  <2> QED
    BY <1>3, <2>1, <2>2
<1>5. EmptyFirst(InitialCtx, K)
  BY <1>1, <1>4 DEF EmptyFirst
<1>6. CallString(InitialCtx) = [i \in 1 .. K - K |-> Walk(InitialCtx)[K + i]]
  BY <1>2, <1>5, CallStringFacts
<1>7. 1 .. K - K = {}
  BY <1>1
<1> QED
  BY <1>2, <1>5, <1>6, <1>7

LEMMA PushString ==
  ASSUME NEW ring \in Buffers, NEW site \in CallSites, NEW e, EmptyFirst(ring, e)
  PROVE  /\ EmptyFirst(Push(ring, site), IF e = 0 THEN 0 ELSE e - 1)
         /\ CallString(Push(ring, site)) = Strings!LastSites(Append(CallString(ring), site))
<1> DEFINE r == Push(ring, site)
           d == IF e = 0 THEN 0 ELSE e - 1
<1>1. K \in Nat /\ K > 0 /\ e \in 0 .. K /\ d \in 0 .. K
  BY KAssumption DEF EmptyFirst
<1>2. site # NoSite
  BY NoSiteAssumption
<1>3. PICK w : w = Walk(ring)
  OBVIOUS
<1>4. Walk(r) = [i \in 1 .. K |-> IF i = K THEN site ELSE w[i + 1]]
  BY <1>3, WalkPush
<1>5. \A i \in 1 .. K : w[i] = NoSite <=> i <= e
  BY <1>3 DEF EmptyFirst
<1>6. r \in Buffers
  <2>1. ring.buffer \in [0 .. K - 1 -> CallSites \cup {NoSite}] /\ ring.last \in 0 .. K - 1
    BY DEF Buffers
  <2>2. [ring.buffer EXCEPT ![ring.last] = site] \in [0 .. K - 1 -> CallSites \cup {NoSite}]
    BY <2>1
  <2>3. (ring.last + 1) % K \in 0 .. K - 1
    BY <1>1, <2>1
  <2> QED
    BY <2>2, <2>3 DEF Push, Buffers
<1> HIDE DEF r
<1>7. EmptyFirst(r, d)
  <2> SUFFICES ASSUME NEW i \in 1 .. K
               PROVE  Walk(r)[i] = NoSite <=> i <= d
    BY <1>1 DEF EmptyFirst
  <2>1. CASE i = K
    BY <2>1, <1>1, <1>2, <1>4
  <2>2. CASE i # K
    <3>1. i + 1 \in 1 .. K
      BY <2>2, <1>1
    <3>2. Walk(r)[i] = w[i + 1]
      BY <2>2, <1>4
    <3> QED
      BY <3>1, <3>2, <1>1, <1>5
  <2> QED
    BY <2>1, <2>2
<1>8. CallString(r) = [i \in 1 .. K - d |-> IF d + i = K THEN site ELSE w[d + i + 1]]
  <2>1. CallString(r) = [i \in 1 .. K - d |-> Walk(r)[d + i]]
    BY <1>6, <1>7, CallStringFacts
  <2>2. ASSUME NEW i \in 1 .. K - d
        PROVE  Walk(r)[d + i] = IF d + i = K THEN site ELSE w[d + i + 1]
    <3>1. d + i \in 1 .. K
      BY <1>1
    <3> QED
      BY <3>1, <1>4
  <2> QED
    BY <2>1, <2>2
<1>9. CallString(ring) = [i \in 1 .. K - e |-> w[e + i]]
  BY <1>3, CallStringFacts
<1> HIDE DEF d
<1>10. PICK m \in 0 .. K : m = K - e
  BY <1>1
<1>11. PICK t : t = [i \in 1 .. m + 1 |-> IF i = m + 1 THEN site ELSE w[e + i]]
  OBVIOUS
<1>12. Append(CallString(ring), site) = t
  <2>1. Append([i \in 1 .. m |-> w[e + i]], site) = t
    BY <1>11
  <2> QED
    BY <2>1, <1>9, <1>10
<1>13. Len(t) = m + 1
  BY <1>1, <1>10, <1>11
<1>14. CASE e = 0
  <2>1. d = 0 /\ m = K /\ Len(t) = K + 1
    BY <1>1, <1>10, <1>13, <1>14 DEF d
  <2>2. Strings!LastSites(t) = SubSeq(t, 2, K + 1)
    BY <2>1, <1>1 DEF Strings!LastSites
  <2>3. SubSeq(t, 2, K + 1) = [i \in 1 .. K |-> t[i + 1]]
    BY <2>1, <1>1, <1>11
  <2>4. ASSUME NEW i \in 1 .. K
        PROVE  t[i + 1] = IF d + i = K THEN site ELSE w[d + i + 1]
    BY <2>1, <1>1, <1>11, <1>14
  <2>5. [i \in 1 .. K |-> t[i + 1]] = [i \in 1 .. K |-> IF d + i = K THEN site ELSE w[d + i + 1]]
    BY <2>4
  <2>6. K - d = K
    BY <2>1, <1>1
  <2>7. CallString(r) = Strings!LastSites(t)
    BY <2>2, <2>3, <2>5, <2>6, <1>8
  <2> QED
    BY <2>7, <1>7, <1>12 DEF r, d
<1>15. CASE e # 0
  <2>1. d = e - 1 /\ K - d = m + 1 /\ m + 1 <= K
    BY <1>1, <1>10, <1>15 DEF d
  <2>2. Strings!LastSites(t) = t
    BY <2>1, <1>13 DEF Strings!LastSites
  <2>3. ASSUME NEW i \in 1 .. m + 1
        PROVE  t[i] = IF d + i = K THEN site ELSE w[d + i + 1]
    <3>1. (d + i = K <=> i = m + 1) /\ d + i + 1 = e + i
      BY <2>1, <1>1, <1>10
    <3> QED
      BY <3>1, <1>11
  <2>4. t = [i \in 1 .. m + 1 |-> t[i]]
    BY <1>11
  <2>5. t = [i \in 1 .. K - d |-> IF d + i = K THEN site ELSE w[d + i + 1]]
    BY <2>1, <2>3, <2>4
  <2> QED
    BY <2>2, <2>5, <1>7, <1>8, <1>12 DEF r, d
<1> QED
  BY <1>14, <1>15

(***************************************************************************)
(* The contexts of the call graph are call strings.                        *)
(***************************************************************************)

(* A callee's context stands for the last call sites of its caller's and   *)
(* the call site.                                                          *)
LEMMA EvolvedString ==
  ASSUME contexts \in SUBSET Buffers, EmptiesFirst,
         NEW caller, caller.ctx \in contexts \cup {InitialCtx}, NEW site \in CallSites
  PROVE  LET evolved == Evolved(caller, site) IN
         /\ CallString(evolved.ctx) \in
              Alike(prog, Strings!CalleeString(CallString(caller.ctx), site))
         /\ \A c \in evolved.pool \cup {InitialCtx} : \E e \in 0 .. K : EmptyFirst(c, e)
<1> DEFINE ctx  == caller.ctx
           new  == Push(ctx, site)
           clash == Program[prog].clash
           same == {c \in contexts : SameHash(clash, Walk(c), Walk(new))}
           alike == {Filled(c) : c \in clash}
           string == Strings!CalleeString(CallString(ctx), site)
<1>1. PICK e \in 0 .. K : EmptyFirst(ctx, e)
  BY DEF EmptiesFirst
<1>2. ctx \in Buffers
  BY InitialString
<1>3. /\ EmptyFirst(new, IF e = 0 THEN 0 ELSE e - 1)
      /\ CallString(new) = Strings!LastSites(Append(CallString(ctx), site))
  BY <1>1, <1>2, PushString
<1>4. (IF e = 0 THEN 0 ELSE e - 1) \in 0 .. K
  BY KAssumption
<1>5. Evolved(caller, site) =
        IF site \notin Program[prog].origins THEN [ctx |-> ctx, pool |-> contexts]
        ELSE IF same = {} THEN [ctx |-> new, pool |-> contexts \cup {new}]
             ELSE [ctx |-> CHOOSE c \in same : TRUE, pool |-> contexts]
  BY DEF Evolved, Evolve
<1>6. \A s : s \in Alike(prog, s)
  BY DEF Alike
<1>7. string = IF site \in Program[prog].origins
               THEN Strings!LastSites(Append(CallString(ctx), site)) ELSE CallString(ctx)
  BY DEF Strings!CalleeString, Extends
<1>8. \A c \in contexts \cup {InitialCtx} : \E d \in 0 .. K : EmptyFirst(c, d)
  BY DEF EmptiesFirst
<1>9. \A c \in same : CallString(c) \in Alike(prog, CallString(new))
  <2> SUFFICES ASSUME NEW c \in same PROVE CallString(c) \in Alike(prog, CallString(new))
    OBVIOUS
  <2>1. CASE Walk(c) = Walk(new)
    <3>1. CallString(c) = CallString(new)
      BY <2>1 DEF CallString
    <3> QED
      BY <3>1, <1>6
  <2>2. CASE Walk(c) \in clash /\ Walk(new) \in clash
    <3>1. CallString(c) \in alike /\ CallString(new) \in alike
      BY <2>2 DEF CallString
    <3> QED
      BY <3>1 DEF Alike
  <2> QED
    BY <2>1, <2>2 DEF SameHash
<1>10. same # {} => (CHOOSE c \in same : TRUE) \in same
  OBVIOUS
<1> HIDE DEF new, same, string
<1>11. CASE site \notin Program[prog].origins
  <2>1. Evolved(caller, site).ctx = ctx /\ Evolved(caller, site).pool = contexts
    BY <1>5, <1>11
  <2> QED
    BY <2>1, <1>6, <1>7, <1>8, <1>11 DEF string
<1>12. CASE site \in Program[prog].origins /\ same = {}
  <2>1. Evolved(caller, site).ctx = new /\ Evolved(caller, site).pool = contexts \cup {new}
    BY <1>5, <1>12
  <2>2. string = CallString(new)
    BY <1>3, <1>7, <1>12
  <2> QED
    BY <2>1, <2>2, <1>3, <1>4, <1>6, <1>8 DEF string
<1>13. CASE site \in Program[prog].origins /\ same # {}
  <2>1. PICK c \in same : Evolved(caller, site).ctx = c
    BY <1>5, <1>10, <1>13
  <2>2. string = CallString(new) /\ Evolved(caller, site).pool = contexts
    BY <1>3, <1>5, <1>7, <1>13
  <2> QED
    BY <2>1, <2>2, <1>8, <1>9 DEF string
<1> QED
  BY <1>11, <1>12, <1>13

(* A step adds at most the node of a function that a call site of a        *)
(* function in the call graph may run.                                     *)
IsCall(caller, site) ==
  /\ caller \in DirectNodes /\ site \in CallSites /\ site \in SitesOf(prog, caller.fn)
  /\ prog' = prog /\ contexts' = Evolved(caller, site).pool
  /\ \/ DirectNodes' = DirectNodes
     \/ \E f \in MayCall(prog, site) :
          DirectNodes' = DirectNodes \cup {Direct(Evolved(caller, site).ctx, f)}

Quiet == prog' = prog /\ contexts' = contexts /\ DirectNodes' = DirectNodes

LEMMA BodySites ==
  ASSUME NEW f, NEW p \in DOMAIN Body(f), Body(f) \in Seq(CallSites)
  PROVE  Body(f)[p] \in SitesOf(prog, f)
BY DEF SitesOf, Body

LEMMA VisitDirectCalled == Inv /\ VisitDirectCallSite => \E caller, site : IsCall(caller, site)
<1> SUFFICES ASSUME Inv, VisitDirectCallSite PROVE \E caller, site : IsCall(caller, site)
  OBVIOUS
<1>1. Visiting /\ HasMore /\ ~CallsPointer(Site) /\ prog' = prog
  BY DEF VisitDirectCallSite
<1>2. PICK caller \in DirectNodes : caller = at.node
  BY <1>1, VisitingFacts
<1>3. PICK site \in CallSites : site = Site
  BY <1>1, VisitingFacts
<1>4. site \in SitesOf(prog, caller.fn)
  <2>1. at.site + 1 \in DOMAIN Body(caller.fn) /\ site = Body(caller.fn)[at.site + 1]
    BY <1>1, <1>2, <1>3, VisitingFacts
  <2>2. Body(caller.fn) \in Seq(CallSites)
    BY SiteFacts
  <2> QED
    BY <2>1, <2>2, BodySites
<1>5. PICK evolved, r :
        /\ evolved = Evolved(caller, site) /\ r = Intercept(Call(site).to, site)
        /\ contexts' = evolved.pool
        /\ \/ /\ r.option = "IGNORE"
              /\ nodes' = nodes
           \/ /\ r.option # "IGNORE" /\ r.to # NoFunction
              /\ CallFunction(caller, Direct(evolved.ctx, r.to), r.option, site)
           \/ /\ r.option # "IGNORE" /\ r.to = NoFunction
              /\ CallThroughPointer(caller, site)
  BY <1>2, <1>3 DEF VisitDirectCallSite
<1>6. CASE nodes' = nodes
  BY <1>1, <1>4, <1>5, <1>6 DEF IsCall, DirectNodes, IndirectNodes
<1>7. CASE r.option # "IGNORE" /\ CallThroughPointer(caller, site)
  <2>1. nodes' = nodes \cup {Indirect(caller.ctx, site)}
    BY <1>7 DEF CallThroughPointer
  <2>2. DirectNodes' = DirectNodes
    BY <2>1, NodesGrow, NodeKinds
  <2> QED
    BY <1>1, <1>4, <1>5, <2>2 DEF IsCall
<1>8. CASE /\ r.option # "IGNORE" /\ r.to # NoFunction
           /\ CallFunction(caller, Direct(evolved.ctx, r.to), r.option, site)
  <2>1. PICK f : f = r.to
    OBVIOUS
  <2>2. nodes' = nodes \cup {Direct(evolved.ctx, f)}
    BY <1>8, <2>1, CallFunctionFacts
  <2>3. DirectNodes' = DirectNodes \cup {Direct(evolved.ctx, f)}
    BY <2>2, NodesGrow, NodeKinds
  <2>4. prog \in ProgIds /\ Call(site).to \in Functions
    BY <1>1, <1>3, InvFacts, ThroughPointerFacts
  <2>5. f \in MayCall(prog, site)
    <3>1. Call(site).to \notin Intrinsics
      BY <1>5, <1>8, <2>4, InterceptFacts
    <3>2. IF Call(site).to = PthreadCreate THEN f = Call(site).start ELSE f = Call(site).to
      BY <1>5, <2>1, <2>4, <3>1, InterceptFacts
    <3>3. Call(site).to # NoFunction /\ f # NoFunction
      BY <1>1, <1>3, <1>8, <2>1 DEF CallsPointer
    <3> QED
      BY <3>1, <3>2, <3>3 DEF MayCall, Call
  <2> QED
    BY <1>1, <1>4, <1>5, <2>3, <2>5 DEF IsCall
<1> QED
  BY <1>5, <1>6, <1>7, <1>8

LEMMA ResolveCalled ==
  ASSUME Inv, NEW n \in IndirectNodes, NEW f \in Functions, ResolveCallTo(n, f)
  PROVE  Quiet \/ \E caller, site : IsCall(caller, site)
<1>1. Resolvable(n, f) /\ prog' = prog
  BY DEF ResolveCallTo
<1>2. PICK caller \in initialised :
        /\ {e.from : e \in {e \in edges : e.to = n}} = {caller}
        /\ ThroughPointer(n.inst)
        /\ \E p \in DOMAIN Body(caller.fn) : n.inst = Body(caller.fn)[p] /\ Visited(caller, p)
  BY CallerFacts
<1>3. PICK site \in CallSites : site = n.inst
  BY InvFacts
<1>4. caller \in DirectNodes /\ prog \in ProgIds
  BY InvFacts
<1>5. site \in SitesOf(prog, caller.fn)
  <2>1. Body(caller.fn) \in Seq(CallSites)
    BY <1>4, SiteFacts
  <2> QED
    BY <1>2, <1>3, <2>1, BodySites
<1>6. Cardinality({caller}) = 1
  BY FS_Singleton
<1>7. PICK evolved, r :
        /\ evolved = Evolved(caller, site) /\ r = Intercept(f, site)
        /\ contexts' = evolved.pool
        /\ ResolveIn(n, caller, evolved.ctx, r)
  BY <1>2, <1>3, <1>6 DEF ResolveCallTo
<1>8. CASE nodes' = nodes
  BY <1>1, <1>4, <1>5, <1>7, <1>8 DEF IsCall, DirectNodes, IndirectNodes
<1>9. CASE /\ r.option # "IGNORE" /\ r.to # NoFunction
           /\ CallFunction(caller, Direct(evolved.ctx, r.to), r.option, n.inst)
  <2>1. PICK g : g = r.to
    OBVIOUS
  <2>2. nodes' = nodes \cup {Direct(evolved.ctx, g)}
    BY <1>9, <2>1, CallFunctionFacts
  <2>3. DirectNodes' = DirectNodes \cup {Direct(evolved.ctx, g)}
    BY <2>2, NodesGrow, NodeKinds
  <2>4. g \in MayCall(prog, site)
    <3>1. f \in Call(site).holds /\ f \notin Intrinsics
      BY <1>1, <1>3, <1>4, <1>7, <1>9, InterceptFacts DEF Resolvable
    <3>2. IF f = PthreadCreate THEN g = Call(site).start ELSE g = f
      BY <1>4, <1>7, <2>1, <3>1, InterceptFacts
    <3>3. Call(site).to = NoFunction \/ (Call(site).to = PthreadCreate /\ Call(site).start = NoFunction)
      BY <1>2, <1>3 DEF ThroughPointer, CallsPointer, Intercepted
    <3>4. g # NoFunction /\ PthreadCreate # NoFunction
      BY <1>9, <2>1, FunctionsAssumption
    <3> QED
      BY <3>1, <3>2, <3>3, <3>4 DEF MayCall, Call
  <2> QED
    BY <1>1, <1>4, <1>5, <1>7, <2>3, <2>4 DEF IsCall
<1> QED
  BY <1>7, <1>8, <1>9 DEF ResolveIn

LEMMA StepsAreCalls ==
  ASSUME Inv, [Next]_vars
  PROVE  Quiet \/ \E caller, site : IsCall(caller, site)
<1>1. CASE NextNode \/ LeaveNode \/ UNCHANGED vars
  BY <1>1 DEF NextNode, LeaveNode, vars, Quiet, DirectNodes, IndirectNodes
<1>2. CASE VisitInDirectCallSite
  <2>1. prog' = prog /\ contexts' = contexts
    BY <1>2 DEF VisitInDirectCallSite
  <2>2. nodes' = nodes \cup {Indirect(at.node.ctx, Site)}
    BY <1>2 DEF VisitInDirectCallSite, CallThroughPointer
  <2>3. DirectNodes' = DirectNodes
    BY <2>2, NodesGrow, NodeKinds
  <2> QED
    BY <2>1, <2>3 DEF Quiet
<1>3. CASE VisitDirectCallSite
  BY <1>3, VisitDirectCalled
<1>4. CASE \E n \in IndirectNodes, f \in Functions : ResolveCallTo(n, f)
  BY <1>4, ResolveCalled
<1> QED
  BY <1>1, <1>2, <1>3, <1>4 DEF Next

LEMMA NextEmptiesFirst == Inv /\ EmptiesFirst /\ [Next]_vars => EmptiesFirst'
<1> SUFFICES ASSUME Inv, EmptiesFirst, [Next]_vars PROVE EmptiesFirst'
  OBVIOUS
<1>1. contexts \in SUBSET Buffers /\ \A n \in DirectNodes : n.ctx \in contexts \cup {InitialCtx}
  BY InvFacts
<1>2. CASE Quiet
  BY <1>2 DEF Quiet, EmptiesFirst
<1>3. ASSUME NEW caller, NEW site, IsCall(caller, site)
      PROVE  EmptiesFirst'
  <2>1. contexts' = Evolved(caller, site).pool
    BY <1>3 DEF IsCall
  <2>2. \A c \in Evolved(caller, site).pool \cup {InitialCtx} : \E e \in 0 .. K : EmptyFirst(c, e)
    BY <1>1, <1>3, EvolvedString DEF IsCall
  <2> QED
    BY <2>1, <2>2 DEF EmptiesFirst
<1> QED
  BY <1>2, <1>3, StepsAreCalls

LEMMA InitMapsToInit == Init => EmptiesFirst /\ Strings!Init
<1> SUFFICES ASSUME Init PROVE EmptiesFirst /\ Strings!Init
  OBVIOUS
<1>1. EmptiesFirst
  <2>1. contexts = {} /\ K \in 0 .. K
    BY KAssumption DEF Init
  <2> QED
    BY <2>1, InitialString DEF EmptiesFirst
<1>2. DirectNodes = {Direct(InitialCtx, Entry)} /\ prog \in ProgIds
  BY NodeKinds DEF Init, DirectNodes, IndirectNodes
<1>3. {<<CallString(n.ctx), n.fn>> : n \in DirectNodes} = {<< <<>>, Entry >>}
  BY <1>2, InitialString, NodeKinds
<1> QED
  BY <1>1, <1>2, <1>3 DEF Strings!Init

LEMMA StepMapsToStep == Inv /\ EmptiesFirst /\ [Next]_vars => [Strings!Next]_(Strings!vars)
<1> DEFINE reached == {<<CallString(n.ctx), n.fn>> : n \in DirectNodes}
<1> SUFFICES ASSUME Inv, EmptiesFirst, [Next]_vars
             PROVE  Strings!Next \/ (prog' = prog /\ reached' = reached)
  BY DEF Strings!vars
<1>1. contexts \in SUBSET Buffers /\ \A n \in DirectNodes : n.ctx \in contexts \cup {InitialCtx}
  BY InvFacts
<1>2. CASE Quiet
  BY <1>2 DEF Quiet
<1>3. ASSUME NEW caller, NEW site, IsCall(caller, site)
      PROVE  Strings!Next \/ (prog' = prog /\ reached' = reached)
  <2>1. CASE DirectNodes' = DirectNodes
    BY <1>3, <2>1 DEF IsCall
  <2>2. ASSUME NEW f \in MayCall(prog, site),
               DirectNodes' = DirectNodes \cup {Direct(Evolved(caller, site).ctx, f)}
        PROVE  Strings!Next
    <3>1. /\ caller \in DirectNodes /\ site \in CallSites /\ site \in SitesOf(prog, caller.fn)
          /\ prog' = prog
      BY <1>3 DEF IsCall
    <3>2. PICK ctx : ctx = Evolved(caller, site).ctx
      OBVIOUS
    <3>3. PICK s \in Alike(prog, Strings!CalleeString(CallString(caller.ctx), site)) :
            s = CallString(ctx)
      BY <1>1, <3>1, <3>2, EvolvedString
    <3>4. Direct(ctx, f).ctx = ctx /\ Direct(ctx, f).fn = f
      BY NodeKinds
    <3>5. reached' = reached \cup {<<s, f>>}
      <4>1. PICK d : d = Direct(ctx, f)
        OBVIOUS
      <4>2. DirectNodes' = DirectNodes \cup {d} /\ <<CallString(d.ctx), d.fn>> = <<s, f>>
        BY <4>1, <2>2, <3>2, <3>3, <3>4
      <4> QED
        BY <4>2
    <3>6. PICK r \in reached : r[1] = CallString(caller.ctx) /\ r[2] = caller.fn
      <4>1. <<CallString(caller.ctx), caller.fn>> \in reached
        BY <3>1
      <4> HIDE DEF reached
      <4> QED
        BY <4>1
    <3> HIDE DEF reached
    <3>7. \E q \in reached : \E t \in SitesOf(prog, q[2]) : \E g \in MayCall(prog, t) :
            \E u \in Alike(prog, Strings!CalleeString(q[1], t)) :
              reached' = reached \cup {<<u, g>>} /\ prog' = prog
      BY <2>2, <3>1, <3>3, <3>5, <3>6
    <3> QED
      BY <3>7 DEF Strings!Next, Strings!Call, reached
  <2> QED
    BY <1>3, <2>1, <2>2 DEF IsCall
<1> QED
  BY <1>2, <1>3, StepsAreCalls

(* The call graph reaches a function in a context only along calls of the  *)
(* program whose last K call sites are that context, or have the same hash *)
(* (KCallSite, KOrigin, visitCallNode, resolveCallTo): for every length of *)
(* the call strings and every program, also those in which an assertion    *)
(* fails.                                                                  *)
THEOREM Refinement == Spec => ContextsAreCallStrings
<1>1. Inv /\ EmptiesFirst /\ [Next]_vars => EmptiesFirst' /\ [Strings!Next]_(Strings!vars)
  BY NextEmptiesFirst, StepMapsToStep
<1> QED
  BY <1>1, InitMapsToInit, InvHolds, PTL DEF Spec, ContextsAreCallStrings, Strings!Spec

=============================================================================
