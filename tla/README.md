# A TLA+ model of AserPTA

AserPTA is a whole-program, inclusion-based (Andersen style) pointer analysis
for LLVM. This directory models how it computes its answer (the constraint graph,
the enumeration of its strongly connected components, three solvers), how it
builds the call graph with calling contexts, and how it finds the field of an
object that a pointer points to. TLC checks the models on small programs and
graphs. For all of them TLAPS proves that the three solvers never leave a solution, that
the wave propagation solver computes the least one and under which condition the
partial update solver does, that the iterator delivers the strongly connected
components, that the call graph of a supported program is complete, and that a field of
a memory block has one object, which is that of every pointer to it.

Paths below are relative to `src/include/aser/PointerAnalysis/`.

## 1. Inventory

| Component | State | Operations | Correct when |
|---|---|---|---|
| Constraint language, `Models/LanguageModel/ConsGraphBuilder.h` | nodes of values and objects | `visit*`, `processCallSite`, `initFunction` emit `load`, `store`, `copy`, `addr_of`, `offset` constraints | every constraint has its meaning |
| Constraint graph, `Graph/ConstraintGraph/` | successor and predecessor sets by kind, super nodes | `addConstraints`, `insertConstraint`, `collapseSCCTo`, `clearConstraints` | an edge is never lost, nor left at a collapsed node |
| SCC iterator, `SCCIterator.h` | visit numbers, three stacks, bits of visited nodes | `begin`, `++` | every component is delivered whole, once, successors first |
| Solver base, `Solver/SolverBase.h` | points-to sets, `updatedFunPtrs`, `handledGEPMap` | `processCopy`, `processCopySCC`, `processLoad`, `processStore`, `processOffset`, `resolveFunPtrs`, `analyze`, queries | the answer is the least solution |
| `WavePropagation` | `cachedPTS`, `edgeCachedPTS`, `changed` | `runSolver` | the caches never hide something that has not been handled |
| `PartialUpdateSolver` | `copyWorkList`, `lsWorkList`, `targetList`, `requiredEdge` | `runSolver`, `solve`, `onNewConstraint` | the work lists cover what is left to do |
| `DeepPropagation` | the two caches, node colours | `runSolver`, `deepPropagate`, `unmarkBlack` | the wave and the passes leave nothing unsent |
| `Andersen` | queue of nodes | `processNode`, `runSolver` | as above; not instantiated anywhere |
| Points-to sets, `Solver/PointsTo/` | one vector of bit vectors for the process | union, insert, clear | both directions of `PointedByPts` agree |
| Call graph and program, `Program/`, `Graph/CallGraph.h` | nodes per function and context, nodes per pointer call, their targets | `buildInitCallGraph`, `visitCallNode`, `getOrCreateCallNode`, `resolveCallTo`, `resolvedTo` | every call has its edges, each is processed once |
| Contexts, `Context/` | ring buffers of call sites, the set of contexts | `contextEvolve` | a context is the last k call sites of a chain of calls |
| Field-sensitive memory, `Models/MemoryModel/FieldSensitive/` | layouts of types, objects of a block | `getLayoutForType`, `indexPhysicalOffset`, `indexObject`, `initializeGlobal`, `memcpy` | each field has one object, whatever way it is reached |
| Field-insensitive memory | one object per block | `indexObject` | - |
| Heap, thread and library models, `Models/` | tables of names | `overrideFunction`, `overrideCallSite` | the call graph knows what a call really runs |
| Analysis pass, `PointerAnalysisPass.h` | the solver it owns | `analyze`, `release` | an answer belongs to the program asked for |
| IR preprocessing, `src/lib/aser/PreProcessing/` | LLVM IR | rewriting passes | LLVM semantics is kept |

### How they interact

`analyze` lets the language model build the initial graph. `solve` alternates
`runSolver` and `resolveFunPtrs` until no new call is resolved. A solver asks
`SCCIterator` for the copy cycles, merges the points-to sets of a cycle and has
the constraint graph collapse it, propagates sets along copy edges, and turns
loads, stores and offsets into further copy edges. A copy that changes the set
of a node through which a call is made records the node in `updatedFunPtrs`.
`resolveFunPtrs` hands these to the language model: `updateFunPtrs` asks
`CtxModule` for a call graph node per compatible target, which evolves the
context, lets the language model intercept the call, visits a function that is
new in its context, and links actual to formal parameters by new constraints. While
it does, `PartialUpdateSolver` has a call back registered with the constraint
graph. An offset constraint asks the memory model for the object at the offset.

### What is hard

Everything runs in one thread and nothing is persisted or sent. What is hard is
*staleness*: every solver avoids work by remembering what it has already done
for a node, an edge or an object, while the graph is collapsed and extended
under those memories. The hazards, each at its line, are in `PROJECT.json`:
caches that outlive a collapse, work lists filled at different places, the order
of the components while the graph changes, pointers that are called
through and collapsed, downcasts that rely on the shape of the graph, contexts
that are merged by their hashes, objects that remember the offset by which they
were first reached, and termination.

## 2. The modules

| Module | Models | Relation |
|---|---|---|
| `PointerProgram` | nodes, constraints, their meaning, solutions, indirect calls | |
| `InclusionAnalysis` | what a solver promises | extends `PointerProgram` |
| `ConstraintGraph` | insertion, collapsing, components | extends `PointerProgram` |
| `SolverBase` | the state of every solver, shared steps and properties | extends `ConstraintGraph` |
| `WavePropagation` | `Solver/WavePropagation.h` with `solve` | extends `SolverBase`, implements `InclusionAnalysis` |
| `SolverBase_proofs` | lemmas about nodes, edges, collapsing and components | extends `SolverBase` |
| `WavePropagation_proofs` | soundness; caches, calls and the refinement | extends `WavePropagation` |
| `PartialUpdate` | `Solver/PartialUpdateSolver.h` | extends `SolverBase`; implements `InclusionAnalysis` without indirect calls |
| `PartialUpdate_proofs`, `PartialRefinement_proofs` | soundness and the assertions of `solve`; what the work lists cover and the refinement | extend `PartialUpdate` |
| `DeepPropagation` | `Solver/DeepPropagation.h` with `solve` | extends `SolverBase`, takes the wave from an instance of `WavePropagation` |
| `DeepPropagation_proofs` | soundness, the wave, the passes, calls | extends `DeepPropagation` |
| `SCCEnumeration` | what the iterator promises | |
| `SCCIterator` | `SCCIterator.h` step by step | implements `SCCEnumeration` |
| `SCCIterator_proofs` | Tarjan's algorithm and the refinement | extends `SCCIterator` |
| `Contexts` | `PtrRingBuffer.h`, `KCallSite.h`, `KOrigin.h` | |
| `CallStrings` | what contexts promise | |
| `CtxModule` | `Program/CtxModule.h`, `CtxFunction.h` and the call backs of `ConsGraphBuilder.h`, `DefaultLangModel.h` | extends `Contexts`, implements `CallStrings` |
| `CtxModule_proofs` | each edge once, no assertion fails, no call is missed, contexts are call strings | extends `CtxModule` |
| `MemLayouts` | `Layout/*.h`, `FSLayouts.cpp`, `isArrayExistAtOffset`; the reference: where the parts of a type are | |
| `FSMemModel` | `MemBlock.h`, indexing and global initialisers of `FSMemModel.h` | extends `MemLayouts` |
| `FSMemModel_proofs` | layouts, translation of offsets, one object per field, initialisers | extends `FSMemModel` |
| `MCPrograms`, `MCFamilies`, `MCWave`, `MCPartial`, `MCDeep`, `MCSCC`, `MCCalls`, `MCTypes`, `MCLayout` | families of programs with their least solutions, of call structures and of types, and the instances | |

### State

* A graph is a set of edges `<<kind, source, destination>>`; it stands for
  `succCons` and `predCons`, which `insertConstraint` and `clearConstraints`
  keep symmetric. The `addr_of` edges from an object to its anonymous pointer
  are left out, as no solver acts on them.
* `rep[n]` is what `getSuperNode()` returns for `n`: the chain of super nodes,
  followed to its end.
* `pts[n]` is the points-to set stored under `n`'s own identifier. `Answer[n]`,
  the set of `rep[n]`, is what a query returns.
* In `WavePropagation` nodes that are created during the analysis (fields,
  nodes of functions reached by an indirect call) exist from the start: without
  an edge they do not take part. In `PartialUpdate` the moment of creation
  matters, as the work lists are resized, so `created` and `fresh` record it.
* In the solvers an indirect call is a set of possible bindings, each with the
  pointer, the function and the constraints that binding adds. `CtxModule`
  looks inside: there a call site has the set of functions its pointer may hold
  and those that are compatible, the solver delivers the former one at a time
  in any order, and the constraints a function adds are its node being `initialised`.
* `failed` in `CtxModule` collects the assertions of the code that do not hold; the
  construction stops there. Those of `processCallSite` and `overrideCallSite`
  about nodes and contexts are modelled: the call site is in the caller, the
  context of the caller evolves to that of the callee (`LangModelBase.h:112`,
  `ConsGraphBuilder.h:338`), and the callee is a target of the site. Those about the
  numbers and types of arguments (`ConsGraphBuilder.h:364`, `381`) are not.
* A context is a ring buffer. Contexts are interned by hash because
  `KCallSite::operator==` compares a context with itself; the classes of equal
  hashes are an input (`clash`), most often none.
* `FSMemModel` follows one pointer twice: at its offset in the memory of the
  program (`real`) and as the object the analysis has for it (`object`, by its
  physical offset). `fieldObjs` is the vector of objects of the block. A null
  pointer is `Lost`. Types are numbered, components first, and given with their sizes and
  offsets, which LLVM's `DataLayout` computes in the code; layouts and
  translations of offsets are recursive functions of the number.
* The bit vectors of `PartialUpdateSolver` hold a 0 for what is to be done; the
  sets of the model hold what is to be done. The table of hashed edges is
  exact in the model: a collision can only make the solver do more.

### Actions

An action is a step of the loop it is named after: one component of the wave
(`PropagateNode`, `CollapseCycle`), one load, store or offset edge
(`HandleLoad`, `HandleStore`, `HandleOffset`; `HandleLoadOrStore`), the code between
two loops (`BeginRound`, `EndWave`, `EndRound`), the resolution of indirect
calls (`ResolveFunPtrs`; with the call back also `AddConstraint` for each
constraint and `EndResolve`), and in `SCCIterator` one visit of a child or one
pop of a node. In `DeepPropagation` a walk takes a step per call of
`deepPropagate`; the calls return together, as each returns what the inner one
does. In `CtxModule` a step is one call site of the function being visited, or
one resolution of a pointer call. In `FSMemModel` it is one getelementptr. The
sequence of the steps is the code's; open is only what the
code leaves open: the order of a node's edges (hash sets of pointers), the order
of components that do not lead to each other, which node of a cycle comes
first, and the order in which targets of pointer calls are found.
The solvers take the stack of components from `SCCs`, in any topological
order; `SCCIterator` shows that the iterator delivers such an order.

## 3. What is checked

The runs of the solvers start from *every* program of a family
(`MCFamilies`): three pointers, two or three objects with their anonymous
pointers, one fixed part and eight to ten optional constraints, each present
or absent. `MCPrograms` computes the least solution of each; `Reference` is that
one.

| Run | Bounds | Shows |
|---|---|---|
| `wave_programs` | 1,536 programs: 1,024 with cycles through pointers, objects and both; 512 with two call sites and two functions | collapse, difference propagation, both caches; no call is forgotten; termination; refinement of `InclusionAnalysis` |
| `wave_fields` | 1,024 programs, an offset in or next to a cycle | the inductive invariant of the proofs; refinement |
| `partial_fields` | as `wave_fields`, the field may be created on the way | the work lists cover what is left, and are empty together, as `solve()` asserts; each `runSolver` reaches a fixed point; refinement |
| `partial_calls` | the 512 programs with calls | soundness, no call is forgotten, termination |
| `partial_calls_fixed_point` | the same | **violated**, see below |
| `deep_mixed` | 256 programs with an offset and two call sites | soundness; the wave is complete; loads, stores and calls are all expanded; termination |
| `deep_copies` | the same | **violated**, see below |
| `scc` | every graph of 4 nodes with at most 5 copy edges (`MaxEdges`); every graph of 3 nodes with every work list | the iterator implements `SCCEnumeration`; nothing that can be reached is missed |
| `call_graph` | 960 programs: `main`, two functions, four call sites, `K = 2`, five options | no assertion fails, edges are complete and linked once, contexts are call strings, termination |
| `call_graph_threads` | 64 programs, the thread's routine is only declared | **violated**, see below |
| `layouts` | 441 types; `WordMax = 1023` | a pointer always has the object of the field it points to; global initialisers are found |
| `layouts_nested` | one type | **violated**, see below |

The bounds of the solvers: with three pointers and two objects there are cycles
of two, cycles that grow by a collapsed node, a cycle joined by a load or a store
resolved in an earlier round, objects collapsed with pointers, and offsets applied
to their own result; two call sites and two functions suffice for a call whose pointer
was collapsed before its set grew and for a binding that makes another call
possible. Four nodes suffice for two components connected both by a tree edge
and by a cross edge to a component that was delivered before.

The bounds of the call graph: a function that calls itself, two that call each
other, and two sites that call the same function fill a buffer of two and wrap
it; longer buffers differ in length only. The five options are: every site
extends the context; the same with room for one target per pointer call; only two
sites do, as origins; none does, which is the analysis without contexts; and two
call strings with the same hash. Left out of the passing family: a start routine
that is only declared (its own run) and a pointer that holds `pthread_create`,
for which `DefaultLangModel.h:115` has a TODO.

The bounds of the layouts: the types are all structures of three fields out of
six types (a byte, a word, a pointer, an array, a structure with padding, an
array of it), each alone and as element of an array, and nine hand-written ones
with arrays of arrays, a zero-length array in front of a field, an empty structure, an array
of unknown length and a block of unknown type. `WordMax` stands for the largest
`size_t` and is larger than any offset in them; sums do not wrap, as negative
constant offsets are left out. Three elements stand for an array of unknown
length. An initialiser has an address for each pointer; a null pointer only
leaves out the store.

`InclusionAnalysis` says: points-to sets only grow, never leave the reference
solution, and the analysis stops only when they are a solution. A solver that
implements it and ends has computed the least solution. `CallStrings` says: the
call graph has a function in a context only if a chain of calls from the entry
reaches it with those last `K` call sites.

**Fairness.** `FairSpec` adds `WF_vars(Next)`: the program is a single thread
that does not wait for anything, so it takes its next step until `solve` (or the
iteration, or the construction of the call graph) ends. In `CtxModule` this
includes that the solver delivers a target while there is one, as `solve` repeats
until no call is resolved. No action is given fairness of its own.

**Deadlock.** `CHECK_DEADLOCK FALSE` in all configurations but those of
`FSMemModel`, whose pointer never stops: `solve` returns and
an iteration ends. `Terminates` and `DeliversAll` check that nothing ends
early.

Every property of a passing run is paired in `PROJECT.json` with a mutant (the
definitions with a suffix, commented "a mutant"), a plausible mistake in the
code that makes it fail.

### What the violated runs show

**`partial_calls_fixed_point`.** `PartialUpdateSolver.h:312` says that after `runSolver` "the current contraints
graph will reach fixed point". It does not after a call was resolved whose
actual argument, or another node its constraints name, had been collapsed
before. `addConstraints` inserts the edge between super nodes but gives the call
back the nodes it was given; `recordCopyEdge` then resets the bit of
a collapsed node and records an edge that does not exist. The super node is not
walked, the points-to set of the formal argument stays without the argument's
objects, and `runSolver` ends. In the counterexample `P` and `Q` form a copy
cycle and are collapsed, the call through `P` passes `Q` to the parameter `R`,
and `R` stays empty. With assertions enabled, the load, store and offset cases
of the call back stop at the assertions of `SolverBase.h:114`, `189` and `218`
instead; the copy case has none. `partial_calls` shows what remains true of
this solver: it never exceeds a solution, forgets no call among those its sets
show, and ends. `FixedPointReached` (section 4) shows that nothing else is wrong: as long
as the call back is given no collapsed node, no inclusion is ever lost. `WavePropagation`, which looks at all nodes in every round, is
not affected (`wave_programs`).

**`deep_copies`.** A copy edge means `pts(dst) |= pts(src)`
(`SolverBase.h:488`), but `DeepPropagation` ends with copy edges whose
destination lacks objects of the source. In the counterexample an offset puts an
object into the set of a getelementptr and no copy edge leaving it is
walked (`DeepPropagation.h:129-135`): only loads and stores start a walk, and
there is no further wave unless a call is resolved. Other ways to the same end are the `return` inside the
loop over the successors (`:166-175`), grey nodes, at which every later walk
stops and which are never unmarked (`:142`), and loads that read the stale set of a
collapsed object, left behind by `processCopySCC`, and not that of its super node
(`:96`). `deep_mixed` shows what remains true: no object too
many, a complete wave at the start of each `runSolver`, all edges for loads and
stores, no forgotten call among what its sets show, and an end.

**`call_graph_threads`.** `ConsGraphBuilder.h:205` assumes that caller and callee
of an edge have been initialised. If the start routine of `pthread_create` is
only declared, the call is redirected to it (`DefaultLangModel.h:92`),
`initFunction` returns before it creates nodes for its parameters, and
`interceptCallSite` looks up the node of the formal parameter (`:124`).

**`layouts_nested`.** `FSObject.h:39` wants a variable index to be applied to an array.
`isArrayExistAtOffset` (`MemModels.cpp:140-147`) looks for a nested array in
the first array that starts before the offset and ends behind the *element size*; in
`{[3 x i32], [2 x {i8, [3 x i32], ptr}]}` that is the first array, which does not
contain the offset. The pointer to the inner `[3 x i32]` is rejected and its object
lost. `FieldsAreFound` (section 4) shows that this is all that is wrong with the indices
modelled, constant ones that move forward and variable ones: an object is never lost
if only the first array of each structure has arrays in its elements. Negative
constant offsets (`FSMemModel.h:458`) are outside the model, so it says nothing about them.

## 4. What is proved

All theorems hold for every value of the constants: any nodes, objects and
getelementptrs, any programs, any solution `Reference[i]` of program `i`, any finite
graph, any functions and calls, any length of call strings and any clashes of
their hashes, any data layout and any types. `PROJECT.json` lists them; one lemma per action
shows that it preserves each part of an invariant, and every invariant was
checked by TLC on the programs of section 3 before it was proved.

*Assumptions.* In `PointerProgram`: identifiers are naturals, pointers, objects and
anonymous pointers are disjoint, fields are objects, the programs are well formed (nothing but
an offset or an address flows into a getelementptr pointer, nothing flows into an
anonymous one), and `Reference[i]` is a solution. In `SCCIterator`: there are
finitely many nodes, and edges and work lists are among them. In `Contexts`: a
context has at least one slot. In `CtxModule`: the entry is defined, the kinds of
library functions are disjoint and not defined, and a call site is in one place
of one function (`ProgramAssumption`: call sites are instructions). In `MemLayouts`: what a
data layout guarantees, that is, the elements of an array follow each other, and the fields of a
structure start at its beginning, do not overlap and lie inside it.

### The solvers never leave a solution

`Soundness` of each solver: `Spec => []WithinReference`. As `Reference` is
arbitrary, no step puts an object into a set that some solution does not have
there. `WithinReference` alone is not inductive. Collapsing
merges the sets of a cycle, which is sound only because its nodes have the same set
in every solution; that holds because each copy edge is an inclusion in every
solution and the nodes reach each other; and the components were computed at the
beginning of the wave, while the graph changes during it. `Sound` therefore says
that every edge, also one still to be handled, holds in the reference, that a
node and its super node are equal there, and so are the nodes of every component
still to be walked. Closing this under offsets needs `Shape`: no getelementptr
and no anonymous pointer is ever collapsed. They cannot be on a copy
cycle: nothing leads to an anonymous pointer, and only anonymous pointers lead by a
copy to a getelementptr. That is also why the unchecked casts of `processOffset` are
safe (`OffsetCastsAreSafe`). `Placed` adds where edges and components may be
(`EdgesStayLive`).

### Wave propagation computes the least solution

`WavePropagation_proofs!Refinement`: `Spec => ImplementsAnalysis`. The answer of
the solver only grows, stays in every solution and is one when the
solver stops. Beyond soundness the invariant `Inv` has three parts.

* `Remembered`: what the caches stand for. What `cachedPTS` says was sent is in the
  set of every successor (`DifferenceIsEnough`), and an object that `edgeCachedPTS` lets
  an edge skip has its copy edge between the super nodes of today
  (`EdgeCacheIsSafe`); the latter is stated for edges between live nodes, because
  entries of edges that were moved stay in the cache.
* `Kept`: no bound constraint is lost when edges move, the address of every object
  stays, and a call is bound or its pointer recorded (`NoCallIsForgotten`).
* `Advanced`: how far a round has come, that is, which nodes have sent all they have and
  which edges are done, in the wave, in the loop over the edges and at its end.

At the end of a round in which nothing changed, `Advanced` says that every node
has sent its set and every edge is done; with `Remembered` each edge is satisfied,
with `Kept` each constraint, and with no call left to bind the answer is a solution.

### The partial update solver

`PartialUpdate_proofs` proves soundness, with the call back adding edges between
nodes that may have been collapsed, and `NothingIsCarriedOver`, the assertions of
`solve()` after `runSolver`. The latter needs `Known` (the work lists have a bit, or get one
when they are resized, for every node an edge, a set or a constraint leads to)
and `WorkIsWalked` (while edges are handled, nothing is recorded but together
with a node to be walked or a new one).

`PartialRefinement_proofs` proves that nothing is missed. `Covered` says that at every moment
a copy which has something to send will be walked (its source is in
`copyWorkList` or new, in a wave in a component still to be walked, and so are
its successors) and will not be skipped; and that any other edge is done, or the
node it looks at has grown or is new, or it is still to be handled. The
delicate points are the order of the wave (a node that grows is still to be walked,
as components are walked in topological order), the copies of a cycle (all sent when
it is collapsed, whatever the lists say), loads and stores before offsets
(their copies end at nodes that exist), and new nodes, whose bits only appear when the lists
are resized.

Two conditions are stated as hypotheses:

* `AddingIsLive`: no constraint of a call that is being bound mentions a node that
  was collapsed. It is false in some programs, and then the comment of
  `solve` is false as well: that is the finding of `partial_calls_fixed_point`. Under it
  `FixedPointReached` and `UnsentStaysRecorded` hold, so it is the only cause.
* `NoCallThroughGep`: no call is made through a getelementptr. `processOffset` puts
  objects into the set of a getelementptr without recording a changed function
  pointer, so such a call could be forgotten. In the source the objects it
  inserts are fields of objects, not functions. The programs of the runs have
  no such call; it is needed for `NoCallIsForgotten` and the refinement.

`RefinementWithoutCalls` discharges both for programs without indirect calls:
`Spec /\ Calls = {} => ImplementsAnalysis`, what `partial_fields` checks.

### Deep propagation

`DeepPropagation_proofs` shows what the solver does promise, as it does not
reach a fixed point of the copy edges (`deep_copies`). `OneWaveIsEnough`: when the wave of a
`runSolver` ends, all copy edges are satisfied. `PassesAreEnough`: when it
ends, each load and store has its copy edges. `NoCallIsForgotten` is about the calls its sets
show. A walk (`deepPropagate`) is sound since it brings only objects
the node has in every solution, wherever it goes and returns. In the invariant,
`Remembered` leaves out a store that is being handled (`StillToStore`), as a store is recorded as
handled before its copy edges exist. The steps of the wave come from an
instance of `WavePropagation`; they are restated in the terms of this
module first, because the prover cannot use the lemmas of an instance.

### The iterator delivers the components

`SCCIterator_proofs!Refinement`: `Spec => ImplementsEnumeration`, for every
finite graph, work list and order of the children, also of nodes that were
collapsed: each component of what the roots reach is delivered once, whole, and
after those it leads to. The invariant: visit numbers order the component stack; every
node on the path leads to all that were stacked after it; `min` of a frame is the number of a node
that its node reaches, and nothing that nodes stacked since lead to among the visited
ones is lower (`MinIsLowest`). So when `min` is the node's own number, the nodes stacked since
it, together with those delivered, are closed under copy edges; hence they reach
each other and no one else that is left, and are a component. When it is not,
the node stays on the stack because it is in a cycle with one on the path
(`OnlyCyclesStay`). That a lowest number exists rests on an injection of the
visited nodes into their numbers.

### The call graph

`CtxModule_proofs` proves `TypeCorrect`, `NoEdgeIsLinkedTwice`, `NoAssertionFails` and
`NoCallIsMissed`, with contexts of any depth and merged by clashing hashes. An edge
belongs to a visited call site; a site is in one place of one function; the queue of
functions to visit holds each once; and what is resolved records the edges of
pointer calls. For the assertion that the caller's context evolves to that of the callee,
`EvolvedIsFound` shows that evolving a context again at the same site finds what is
interned already, and is not given another context when hashes clash. `NoAssertionFails`
and `NoCallIsMissed` are about programs that are `Supported`: a thread has a start
routine that is defined and of the right type, or none that is known, and no pointer
holds `pthread_create`. Without this the assertions do fail (`call_graph_threads`) or
meet the TODO of `DefaultLangModel.h:115`. All programs of `call_graph` are `Supported`.

`Refinement`: `Spec => ContextsAreCallStrings`, for every program, supported or not, and
every `K`. Every context that is built belongs, up to clashes of hashes, to a chain of
calls of the program and is the last `K` call sites of that chain. The code never has the
chain: it pushes a call site into a ring buffer and reads the buffer by an iterator
that ends when its next position would be the write position.
The iterator is a recursive function of the buffer, and the proof is an induction over it:
`WalkFacts` shows that it reads all `K` slots from the oldest to the newest, `FilledFacts`
that the empty ones are skipped, and `PushString` that a push appends a
site and drops the first one of a full buffer. This needs the invariant
`EmptiesFirst`: the empty slots of a context are the ones that are read first. The
induction itself is `LeastNatural`, derived from the library's theorems on well-founded
relations, because its theorem on induction takes an operator as a parameter.

### The fields of a block

`FSMemModel_proofs` is about every data layout and every type. A type is `Solid` if no part of it
is empty: no structure without fields, no array of length zero. Two of the types of
`layouts` are not, and stay with TLC (`MCLayout` states which: an `ASSUME` that TLC evaluates);
with empty parts several parts of different kinds start at one offset, and a layout does not
tell them apart. For blocks of solid types, `Invariance` says of every state:

* `Objects`: each object is the scalar in the first elements whose offset is translated to
  the layout offset the object is kept under;
* `Found`: the pointer is at the start of a part, and its object, unless lost, is at
  the offset that this part has in the first elements;
* `Addressed`: what an initialiser has stored is, for every pointer of the type, its
  address, in the object of the layout offset of the pointer.

`TypeCorrect`, `ObjectsOfPointers`, `FieldsHaveOneObject`, `MarkedPointers` and
`FoundInitialisers` follow. The work is in the lemmas about the data:

* `TypesLaid`, by induction over types: a layout has the elements of the components of the
  type behind each other, each at a place (`Window`), its arrays lie `Apart`, and the offset in the
  layout is that in memory less what the arrays in front keep to themselves (`Compacted`).
* `ScalarsIndexed`: from the start of any scalar, in any element of any array,
  `IndexBetweenArrays` comes to the offset in the first elements and to an element of
  the layout, which is marked exactly if the scalar is a pointer. `ScalarsApart`: two scalars come to
  the same layout offset only if they are the same field.
* `ReachableFacts`: a pointer that moves by constant indices from an element `n` of an array to
  a later element or a field asks for an offset, counted from its *object*, that is behind the first element;
  there is a scalar of the field it moves to. So `indexMemoryBlock` never answers with a null
  pointer.
* `WalkSeen`: the offset that `processAggregateGlobals` counts is where the data layout
  has put the pointer, although it is only moved over padding when a structure has some (`NoPadding`).

`FieldsAreFound`: `FieldIsFound` holds of solid types with `NestedFirst`, in every structure of
which only the first array has arrays in its elements. This is what makes the search of
`isArrayExistAtOffset` descend into the right array (`ArrayIsFound`); type 12, which is without
it, is the counterexample of `layouts_nested`. All solid types of `layouts` satisfy it.

Recursion over types is a recursive function in the model; that it has a value, and what it is for each
type, is shown by the same induction as above (`LayoutExists`, `IndexExists`, `WalkExists`,
`ExistsExists`).

### Only model-checked

* Liveness: `Terminates` and `DeliversAll`.
* Blocks with empty parts, and, in `layouts`, that such blocks never lose the object of a
  pointer either.
* The sizes and offsets of `MCTypes`: the theorems hold for all that a data layout may choose.
* `CallsAreNotForgotten` and the fixed point of `PartialUpdate` without the
  conditions above: the former for the programs of `partial_calls`; the
  latter is false.
* The least solutions of `MCPrograms`, which the runs use as `Reference`.

## 5. What is not modelled, and the plan

Built, in this order: program and graph; `WavePropagation`; `SCCIterator`;
`PartialUpdate`; `DeepPropagation`; `Contexts` and `CtxModule`; `MemLayouts` and
`FSMemModel`; then the proofs, in the order of section 4. What is left:

* a statement of `NoCallThroughGep` as a fact about the program the language
  model emits, so that it need not be a condition of the theorems.

Not modelled, and why:

* `Andersen`: no analysis of the repository instantiates it, and its loops insert
  into the sets they iterate over, so that what they do is a matter of iterators.
* The assertions that compare the numbers and types of arguments with those of the
  parameters (`ConsGraphBuilder.h:364`, `381`): they follow the instructions of the
  program; what is compatible with a pointer call (`isCompatibleCall`) is an input.
* `PointedByPts`: a second representation of points-to sets that no solver selects.
* The life cycle of the pass: the points-to vector is shared by all analyses
  of the process, but every tool analyses and releases one at a time.
* The field-insensitive memory model: one object per block, no state.
* In the field-sensitive one: `memcpy` and the inference of heap types, which read
  LLVM instructions; anonymous objects for external globals; `p[-1]`; addresses of
  fields in initialisers of other globals (`FSMemModel.h:361`); flexible array
  members and structures of size zero as array elements.
* `HybridCtx`, a tuple of contexts that evolve independently.
* The visit of LLVM instructions (its result, the set of constraints, is a
  parameter), tables of library functions, printing, dumping and statistics,
  tools and tests, IR preprocessing, and the vendored `spdlog` and `googletest`,
  which are most of the lines of this repository.

The composition of `CtxModule` with a solver is not checked: the solvers take what a
binding adds as given, and `CtxModule` takes the targets the solver finds as
given. `childNodes` of a node is never filled by any caller. `PartialUpdate`
models the branch of `NO_ADDR_OF_FOR_OFFSET`, which `src/CMakeLists.txt:24`
defines.
