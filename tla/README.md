# TLA+ models of SeQuant

SeQuant is a C++ computer algebra system for tensor expressions over scalar and
operator rings; it can also evaluate them numerically through a tensor backend.
Most of it is sequential symbolic algebra. The parts whose correctness depends on
*order* -- which step runs before which, which thread sees which state, which
value is still held when it is needed -- are modelled here in TLA+, checked with
TLC, and in part proved with TLAPS.

Paths are relative to `src/SeQuant/`. `PROJECT.json` maps every definition that
models code to the lines it stands for.

## 1. Inventory

### Numerical evaluation of ordered schedules (`core/eval/`)

The optimizer decides at which nodes of an expression forest a batch loop over an
index is *opened*. From these decisions a schedule is derived: loops of different
places that may share their batches become one, nodes that compute the same under the
same loops become one value, and the loops are nested. The forest is then
evaluated by walking this *ordered schedule*: a tree of
blocks, one block per batch loop over an index, with Build steps (compute one
tensor), Assemble outputs (sum or scatter the batches of a value when a loop
closes) and child blocks.

| component | state | operations | talks to |
|---|---|---|---|
| cell table (`cell_table.hpp`, `cell_table_builder.hpp`) | cells (one per value and form), reads, lives | `build_cell_table`, `apply_persistence_frontier`, `validate_cell_table` | derived from the schedule, read by registry and executor |
| cell registry (`cell_registry.hpp`) | slots (value, life, fill-once mark, charged bytes), live bytes | `set`, `read`, `forgo`, `clear_bound_to`, `seed_persistent`, `record_leaf` | called by the executor; the persistent store outlives it |
| ordered executor (`ordered_executor.hpp`) | open blocks and batches, skip sets, accumulators | `run_ordered_schedule_pre_results`, `run_ordered_contracted_block`, `evaluate_ordered_schedule` | registry, cell table, backend |
| loop identity (`peak_profile.hpp`, `lifetime_mask.hpp`) | classes of loops while it unites them | `compute_dag_boulevard`: which loops are one loop, which nodes are one value | from the optimizer's trees to the rich schedule |
| schedule builder (`legality.hpp`, `ordered_schedule.hpp`) | none at run time | roles of values on loops, chain and nests of loops, passes, placement, topological order, build-scope walk | from the rich schedule to the schedule |
| evaluation trees (`eval_expr.cpp`, `eval_node_compare.hpp`) | none: values | `binarize`, canonical form and phase of a node, node equality | keys of the cache |
| evaluation cache (`cache_manager.hpp`) | entries with lives | build from use counts, access, store, reset | the tree evaluator |
| tree evaluator (`eval.hpp`) | an explicit stack of frames, shared buffers | evaluate a forest term by term, accumulate in place | cache, backend |

What is hard here: a value is released with its last read, counted at planning
time; loops re-run their steps, so every count is a product of batch counts; a
cached result of an earlier evaluation makes whole subtrees unnecessary, and the
reads they would have made must still be written off; buffers are shared, and
some are accumulated into in place. Correct means: nothing is read that is not
there, nothing stale is served, no buffer is written that someone else holds,
every intermediate is gone at the end, the roots are right in every evaluation.
On the way there, two loops must not become one if one of them reads what the other
sums, and a value that is complete only when a loop closes must not be read before:
the builder puts such a reader in a later pass of the loops, or refuses the forest.
The tree evaluator is the older way to evaluate the same forests: nodes that
compare equal share one cache entry although they may differ by a sign and by the
names of their indices, and a sum may accumulate into the buffer of its left
operand if nobody else holds it. There, correct also means that equality is fine
enough for the sharing to be right.

### Shared state and threads

| component | state | operations | talks to |
|---|---|---|---|
| default contexts (`core/context.cpp`, `core/utility/context.hpp`) | process-wide map, published copy, generation, per-thread cache, per-thread scopes | set, reset, get, snapshot, scope, modify, pin | everything reads it; scopes travel into parallel workers |
| versions of configurations (`Context::version`, `core/context.cpp`) | a table with weak keys, a version cached in each context | set, copy, destroy, version | the caches of canonical forms |
| parallel runtime (`core/runtime.hpp`) | item counter, exception collector, threads | `parallel_do`, `for_each`, `transform_reduce` | Wick, canonicalization, optimize |
| memoize (`core/utility/memoize.hpp`) | a map with placeholders, mutex, condition variable | one call | `domain/mbpt/biorthogonalization` |
| singleton (`core/utility/singleton.hpp`) | owning pointer, published pointer, mutex | `instance`, `instance_ptr`, `set_instance` | everywhere |
| factorial (`core/math.hpp`) | published vector of values, mutex | `factorial` | Wick, permutations |
| index factory (`core/index.hpp`) | a counter per space, mutex | `make` | everything that needs temporary indices |
| index basis registry (`core/index_basis_registry.hpp`) | table of bases, who follows whom, roles, memoized base spaces | add, remove, replace, follow, unions and intersections, roles, masks, copy, move | contexts hold one; every index refers to its spaces |
| optimizer of sums (`core/optimize/optimize.cpp`, `sum.cpp`) | results under construction, annotations by address | `optimize`, `reorder` | runtime, pin and record sessions |
| pin and record sessions (`core/optimize/schedule_pin.cpp`) | uses, keys by address, a finished flag | take, bind, add, relocate, finish | workers of optimize |

What is hard here: lock-free reads of state that is changed under a lock; two
critical sections that callers take for one; condition variables and exceptions;
iterators and references that outlive a lock; thread-local scopes on threads that
were not there when the scope was opened; addresses used as keys after the object
at them was replaced; calls that throw half way. There is no persistence to
recover, no network, no message.

### Code generation (`core/export/`)

| component | state | operations | talks to |
|---|---|---|---|
| preprocessing (`export.hpp`, `context.cpp`) | the tree it rewrites, pruned scalars, names in use, strategies | prune, rebalance, name, select | from evaluation trees to trees for export |
| generation (`export.hpp`) | uses of every object | load or create, compute, drop, persist | emits operations to a generator |
| optimizing generator (`generation_optimizer.hpp`) | queue, cache, pairs | queue an operation, process the queue, optimize the cache | between the generation and the generator of a language |

What is hard here: two traversals must agree on what is in memory; an intermediate
reuses the object of another, which must be dead by then and zeroed; a computation
adds to its target, which sums rely on; the optimizer removes and swaps operations
by their positions. Correct means: the program computes the equations, before and
after the optimization, and gives memory back in the order of a stack.

### Wick's theorem (`core/wick.hpp`, `core/wick.impl.hpp`, `core/op.hpp`)

| component | state | operations | talks to |
|---|---|---|---|
| contraction engine (`recursive_nontensor_wick`) | the operators left, the contractions made, connections, degrees of partitions, the calls in progress | contract a pair, recurse, restore; emit a term | runtime (terms of a sum), operators |
| reduction (`reduce_wick_impl`) | replacement rules that share destinations | collect rules from deltas, apply them, fold deltas | terms of the engine |

What is hard here: one mutable state is contracted and restored in place along a
depth-first search; equivalent contractions are pruned and made up for by a weight; the
rules of several deltas share destinations that later deltas narrow and merge. Correct
means: every contraction counted once with its sign, and a reduced product of the same
value.

### Symbolic algebra and the rest

Expressions, tensor networks and canonicalization,
permutational irreps, the text backends of `core/export`, parsing and printing
(`core/io`), the many-body domain (`domain/mbpt`), the vendored bliss. They are
sequential functions on large data; their state (memoized hashes, counters) is
local. They are not modelled; `PROJECT.json` lists each with the reason.

## 2. Modules

| module | models | used by |
|---|---|---|
| `LoopIdentity` | occurrences of a forest, which loops are one, which nodes are one value | `ScheduleBuilder` |
| `ScheduleBuilder` | roles, chain, nests, passes, placement, the blocks and their steps, refusals | `MCOrderedExecutor` |
| `CellTable` | the table: cells, scopes, forms, read multiplicity, the validator's rules | `CellTableBuilder`, `OrderedExecutor` |
| `CellTableBuilder` | the table derived from a schedule, and what is derived from both (`PlanOf`) | `MCOrderedExecutor` |
| `CellSlots` | what one registry operation does to one slot | `CellRegistry`, `OrderedExecutor` |
| `CellRegistry` | the registry under every order of operations, with buffers | `MCCellRegistry`, `CellRegistryProofs` |
| `OrderedExecutor` | the walk over the schedule, step by step, for successive evaluations | `MCOrderedExecutor`, `OrderedExecutorProofs` |
| `Evaluation` | what an evaluation promises: the roots, right, in one step | refined by `OrderedExecutor` |
| `EvalTree` | expressions, arrays, binarized trees, canonical phases, node equality | `EvalIdentity`, `TreeEvaluator` |
| `EvalIdentity` | two expressions binarized and compared | `MCTermParts` |
| `TreeEvaluator` | the evaluation cache and the stack evaluator over shared buffers | `MCTermParts`, `MCTreeEvaluator` |
| `ContextRegister` | what the default contexts promise: one register, atomic calls | refined by `DefaultContext` |
| `DefaultContext` | locks, published copies, generation, caches, scopes | `ContextRefinement`, `MCDefaultContext` |
| `ContextRefinement` | the refinement and the assumption it needs | `MCContexts` |
| `ContextVersion` | versions, weak keys, reused addresses | `MCContexts` |
| `Memoize` | placeholder, condition variable, moving slots, exceptions | `MCMemoize`, `MCSharedObjects` |
| `ParallelRuntime` | a tree of parallel calls, workers, scopes, exceptions | `MCSharedObjects` |
| `Threads` | the threads of `Singleton`, `FactorialMemo` and `IndexFactory` | those three |
| `Singleton` | double-checked publication of one object | `MCSharedObjects` |
| `FactorialMemo` | a table read without a lock that grows by replacement | `MCSharedObjects` |
| `IndexFactory` | counters of temporary indices | `MCSharedObjects` |
| `IndexBasisRegistry` | registries of spaces and named bases, with readers | `MCTermParts` |
| `SumOptimizer` | a sum optimized on several threads, recorded or pinned | `MCTermParts`, `SumOptimizerProofs` |
| `GenerationOptimizer` | operations, the optimizer of their sequence, the machine that runs them | `CodeGeneration` |
| `CodeGeneration` | equations preprocessed and visited for the generator | `MCTermParts`, `MCCodeGeneration` |
| `WickTheorem` | the depth-first search for contractions | `MCTermParts` |
| `DeltaReduction` | the deltas of a term turned into replacements and folded | `MCTermParts` |
| `SharedObjectProofs` | theorems about `Singleton`, `FactorialMemo`, `IndexFactory` and `Memoize` | TLAPS |
| `DefaultContextProofs` | theorems about `DefaultContext`, its refinement and `ContextVersion` | TLAPS |
| `FiniteSums` | lemmas about sums over finite sets | `CellRegistryProofs`, `IndexBasisRegistryProofs` |
| the other `*Proofs` | theorems about the module of the same name | TLAPS |

`MCContexts`, `MCSharedObjects` and `MCTermParts` each check several modules that
share no state with each other: `Init` chooses the part that the behaviour uses
and the variables of the others keep their initial values. The state spaces add
up, they do not multiply, and every property is checked on its own part.

### How state and actions correspond to the code

**CellSlots / CellRegistry.** A slot is `CellRegistry::Slot`: `value` is a buffer
(identity matters, because ownership is the question), `life`, `filled`
(`filled_since_clear`), `charged`. Actions are the public operations, whole:
`Set`, `Read`, `Forgo`, `ClearBoundTo`, `NewRegistry` (a new evaluation's
registry, seeded from the store). Buffers that a client obtained are held until
dropped (`DropBuffer`); a pending view may grow (`Materialize`). `seen`, `lost`
and the like are history variables, named so in the module.

**LoopIdentity / ScheduleBuilder.** Pure operators, in the order of the code. A
forest's nodes carry what the derivation looks at: what they compute (`id`), their
batchable modes, the loops opened there. A loop node is an occurrence with a mode;
`LoopClasses` unites them along each tree without conditions and then, for occurrences
of one id, where `Refuses` (`try_unite`) allows it; union-find is a set of classes.
`ValueKey` decides which occurrences are one value. A `Plan` gathers what
`build_ordered_schedule` computes before it makes steps: chain, axes with their roles,
nests, passes. `RootSteps` makes the blocks, innermost first, forked by pass;
`Refused` are its throws and `well_formed`. The result is the schedule record of the
next paragraph, and `MCOrderedExecutor` runs what is made of its forests. A forest is
assumed to be as the optimizer makes them; the header of `LoopIdentity` says how.

**CellTable / CellTableBuilder / OrderedExecutor.** The schedule is a nested
record as the builder emits it. `CellTableBuilder!BuildCellTable` is
`build_cell_table` with its passes in order: emission of builds and assembles,
leaf cells, residency flags, reads, the persistence frontier, and last the lives.
A `Plan` is what one sequence of evaluations is given: the schedule, the volatile
leaves, the batch counts, and what is derived from them (`PlanOf`: the table, the
consumers, the productions of every block). `OrderedExecutor` runs any of a set
`Plans`, `NEvals` times in a row; `MCOrderedExecutor` has the builders make them, and
`PlansAssumption` names what the executor relies on of every one of them. The
executor's `frames` holds a frame per open block (phase and position, batch, skip
sets, the accumulators of its outputs); each action is one iteration of the code's
loops: `StartEvaluation`, `BuildStep`, `SkipBuildStep`, `EnterBlock`, `SkipBlock`,
`BeginBatch`, `StepsDone`, `AssembleStep` and `FoldStep`, `SkipAssembleStep`,
`NextBatch`, `BatchesDone`, `CloseOutput`, `LeaveBlock`, `ReturnRoots`. A production
(`compute_cell`) is one action per read: `making` is its cell, the reads it has yet to
make and the operands it holds, `TouchLeaf` fetches a leaf at its first touch,
`ReadLeg` is `fetch`, `Produce` applies the operation and sets the cell. Every throw
of the code sets `exn`, and the walk ends
there. A tensor is abstracted to what is accumulated at each of its points (nothing,
constant inputs only, the inputs of one evaluation, or garbage); a buffer is an
identity, so that writing in place into a shared one shows. A value's production is
one operation on its operands: the transient subtrees the code computes on the way
(`read_operand`'s last arm) and the custom evaluator are abstracted into it.

**EvalTree / EvalIdentity.** An expression is a tensor, a product with a scalar, or
a sum; an array is a function from the tuples of its modes' elements to integers.
`Binarize` folds the factors and summands from the left and keeps an index until
its last factor is in (`OpenIndices`); `ProductNode` puts a contraction in the
canonical form that the graph canonicalizer gives it, here the least form over all
numberings of its internal indices, with the sign of the swaps; `Same` is
`TreeNodeEqualityComparator`. `Denote` is the reference: what the expression means,
index by index, without a tree.

**TreeEvaluator.** `Walk` and `Registered` are the cache builder (use counts, volatile
nodes, the frontier of persistent ones, the footprint limit). Each action is one
pass of the evaluation loop: `EnterHit`, `EnterConstant`, `EnterLeaf`,
`EnterInternal`, `NeedLeft`, `NeedRightInPlace`, `NeedRightApply`, then
`FirstTerm` and `AddTerm` of the sum over terms. `heap` holds the contents of the
buffers, and frames, cache entries and results hold buffers, so that an in-place sum
into a held buffer corrupts its holder. `EvaluateAgain` and `UpdateAndReset` are the
caller's.

**DefaultContext.** `contexts`, `published`, `generation`, `cache`, `scopes` are
the code's variables of (nearly) those names. A critical section is one action;
a write is two, because the generation's bump is visible to threads without the
lock. `SnapshotCached` is the lock-free path, `SnapshotStale` and `Refresh` the
slow one; `ModifyUnscoped` and `CopyContexts` are the two critical sections of
`set_scoped_modified_default_context`. `settled` (history) is the map as of the
last completed change.

**ContextVersion.** Objects are numbered as they are made and each lives at an
address (`home`) that a dead object's successor may reuse. `table` is
`canonicalization_config_versions`; a key matches if its weak references are alive
and their addresses are those asked for. `LoadStale`, `Lookup` and `Store` are the
steps of `Context::version()`; `Change` gathers the setters and the life of contexts.

**Memoize.** The flat map is a sequence of slots sorted by key; `ref` is the
iterator or reference a thread holds, a position in a storage. `Ask`, `Fill` and
`Recheck` are the stretches under the mutex, `Throw` the exception of
`compute_fn`, `Use` the caller's read after the lock is released. A read through
a reference into storage that was given up yields any value.

**ParallelRuntime.** Calls form a tree. Each thread has a stack of tasks; a
call's last worker is its calling thread. `Enter` and `Leave` are
`ImplicitContextOverlaysScope`, `Take` the `fetch_add`, `RunLeaf`, `ThrowLeaf`,
`RunNested` the operation of an item, `JoinNested` and `JoinRoot` the joins and
`rethrow`.

**Singleton, FactorialMemo, IndexFactory.** One action per atomic access or critical
section. In `Singleton` an object is the number of its construction; the load of the
published pointer and the mutex are separate steps (`LoadFound`, `LoadEmpty`,
`LockFound`, `LockEmpty`, `Construct` or `ConstructThrows`, `Publish`). In
`FactorialMemo` every vector ever made has a number, `Copy` and `Extend` change the
unpublished one, `Store` publishes it. In `IndexFactory` the search and the insertion
of a counter are under the mutex and `Increment` is not.

**IndexBasisRegistry.** A registry is a value, and every operation an operator from a
registry to the registry it leaves and whether it returned or threw; the actions
apply one of them to `reg`, or copy and move between `reg` and `other`. `reader`
is where a thread is in `base_spaces()`: the load of the published vector, the lock
and the fill. The code excludes changes concurrent with readers
(`Excluded`). Types and quantum numbers are sets of bits, those of a type 0 to 30 (bit
31 is reserved).

**SumOptimizer.** `task` gives every summand the steps that its worker has yet to
take (optimize or take from the pinner, bind or add, store the annotations), so that
the steps of different summands interleave. `results` maps an address to the result
that lives there; the allocator reuses the address that was freed first. The walk of
`clusters()` and the clones of `reorder()` are steps of their own (`VisitHead`,
`VisitNext`, `CloneNext`; `walk` is the stack, the order so far, the clones), sequential
as in the code; relocation, re-keying and the end of the originals are
`ReturnReordered`. The stack holds visits, and its top is the one `Before` all others:
deepest first, then by hash and position, which is the order they are pushed in. The tree
that the optimizer finds for a product is any of those given. A caller may pass the
terms one by one or as one sum, keep or drop results, record, pin or neither.

**GenerationOptimizer / CodeGeneration.** A tensor's elements are one number and a
contraction is a multiplication: what can go wrong here is which object is read or
written when, and the number shows it. `node` is the tree under the ids of
`ExportExpr`; `visits` the visits to come, so that a traversal is a sequence of
`PreprocessNode` and `ReleaseNode`, then of `GenerateNode` and `ComputeNode`, each the
whole visit; all trees are preprocessed before any is generated (`NextTree`). Every
operation goes to a plain generator (`code`) and through `Enqueue` to an optimizing
one, whose `end_expression` is `Optimized`. `Machine` does what `generator.hpp` says of
the operations; `Meant` is the reference: the equations one after another. An
assertion of the code that fails sets `aborted`.

**WickTheorem.** An operator is its position in the input and the state is
`NontensorWickState`: the operators left, the contractions made, the connections of
normal operators, the degrees of partitions; `frames` is the recursion. `Contract`
takes the next pair a call may contract and records the term if it is one, `Restore` is
all that the code does after the recursive call returns, `Return` the end of a call.
`ContractionsExact` compares what was recorded with the set of contractions in the
definition of the theorem, class by class of equivalent ones.

**DeltaReduction.** `Reduce` is one pass of the loop of `reduce_wick_impl`: `Rules` reads
the deltas in order (a rule maps an index to the place of its destination, which rules
share), `Applied` renames, `Folded` drops what is 1. `ReductionExact` compares the value
of the product, as a multiset of products of tensor elements for every value of the
external indices, with that of the input.

## 3. Runs

| run | what it asks | result |
|---|---|---|
| `ordered_executor` | two evaluations in a row of seven forests, from the opened loops to the roots, chosen for the schedules they lead to (one contracted loop of several terms, a contracted inside an external loop, a loop a term does not open between two it does, two passes of one loop, an external inside a contracted loop, a value split in two by a loop inside another, a value skipped in later evaluations), every choice of volatile leaves, one or two batches per space | passes |
| `external_loops` | is the result right if an External loop is opened inside another, over modes the outer node carries both? | violated: they nest by slot, not as opened |
| `leaf_release` | is every leaf released at the end? | violated: a leaf first touched after some of its reads were forgone stays |
| `cell_registry` | every order of registry operations on three cells of two nested loops, two evaluations, shared and owned buffers | passes |
| `tree_evaluator_nested` | does a sum only accumulate into a buffer that nobody else holds? | violated by `x (x + y)`: the enclosing product holds the left operand, whose cache entry is already empty |
| `contexts` | two threads set, reset, get, snapshot, scope, modify: is the cache current, and do the default contexts behave as one atomic register; apart from them, do versions identify configurations | passes, for modifications that keep `Context{}` |
| `scoped_modify` | is every context that `set_scoped_modified_default_context` scopes a result of the caller's function? | violated: a reset between its two locks |
| `shared_objects` | threads that call a singleton (of either kind), `factorial`, an index factory, a memoized function of one key, or a tree of parallel calls any leaf of which may throw (items run once, exceptions complete and ordered, scopes right, the call ends) | passes |
| `memoize_throw` | does each caller return if computations may throw? | violated: the placeholder stays |
| `memoize_moved` | with two keys, does a returned reference name its key's value? | violated: an insertion moved it |
| `term_parts` | every pair of calls on a registry with two readers; every pair of terms binarized and compared; sums optimized, recorded and pinned; forests with repeated, persistent, scaled and summed intermediates, evaluated whole or in part three times, with changes of the volatile tensor and resets in between; exports of sums and products, plain and optimized; products of up to ten operators contracted, weighted or not, with contractions required or avoided, and the deltas of terms reduced | passes |
| `scaled_sum` | does the generated program compute `R = 2 (A B + B C)`? | violated: the 2 is pruned onto the sum, which emits no computation to apply it |

The invariants, action properties and liveness properties are stated with a
comment each in the modules; every property of a passing run is shown to matter
by a mutant of a modelled definition that violates it (the `Mutant:` operators
beside the definitions, listed in `PROJECT.json`). The violations are
findings: the line and the sentence of the repository they disagree with are in
`PROJECT.json`.

### Bounds, and why they are enough

* Executor: at most two batches per space (the first, the last, and the boundary
  between them; more repeat the last case), loops nest twice (an enclosing and an
  enclosed loop is all the rules distinguish), two spaces, up to two loops of one
  space, two evaluations (the second is the first with a store, and a third starts from
  the same kind of store). Buffers are not bounded: the allocator takes the first that
  is free.
* Registry of cells: three cells -- persistent, produced if absent and sliced by the
  outer loop, partial over the inner -- cover the cases of `clear_bound_to`; buffers
  three, one more than any operation involves; `MaxSize` 2 lets a view grow once.
* Tree evaluator: indices range over two elements, arrays are chosen without
  accidental equalities; four forests, each with a feature the others lack (two
  spellings of opposite sign, a scalar accumulator, a leaf as the left operand, the
  footprint limit); three evaluations, so that a reset can be between two of them and
  absent between two others; two versions of the volatile tensor.
* Contexts: two threads, since a thread interacts with others only through the
  shared map; `MaxGeneration` 3 explicit changes allows a change before, during
  and after a call; two scopes deep.
* Versions: two contexts and two readers; three objects at two addresses, so that an
  address is reused; three versions.
* Shared objects: three threads (one constructs, computes or inserts, two wait or
  read) with two calls each; factorials up to 4 of which 2 are precomputed, so that
  the table grows twice; two spaces whose refused indices differ.
* Parallel runtime: two threads per call, three items (more than threads), a nested
  `for_each` and a nested `parallel_do`.
* Index basis registry: all sequences of two calls from five registries (empty, with
  named bases, with one following another, with roles and quantum numbers, with
  composite spaces): an operation and one that undoes, repeats or meets what it left.
* Identity: all pairs of 43 terms over one antisymmetric and two plain tensors; two
  elements per index.
* Optimizer: sums of two summands or three, with repeated, mixed and tensor summands;
  two runs, so that the second reuses the addresses of the first; six addresses, as
  many as two runs of three terms hold.
* Exports: sums and products of two contractions and one more factor or summand, two
  contractions that each have an intermediate for an operand, equations that use or add
  to the result of another; two blocks, so that an intermediate does and does not meet
  its own block; numbers and variables as scalars, pruned or not. Every product has its
  operands in one order and no sum is scaled or a factor beside another sum: those
  cases go wrong (run `scaled_sum` and section 5).

* Wick's theorem: two or three normal operators of at most two particles each, whose
  spaces are occupied, unoccupied, both or active: pairs, cycles and partitions of
  every kind, and up to three normal operators between which connections are required
  or avoided. Reduction: the deltas of two contractions, or three in a row or a ring, over
  two disjoint spaces and their union; the values of an index are those of its base
  spaces.

### Fairness

`OrderedExecutor`: the walk is one sequential call, so the specification `FairSpec`
says that it keeps taking steps for as long as it has one to take. `Memoize`: weak
fairness of `Fill \/ Throw` (a computation ends), `Recheck` (a
notified thread runs; the mutex is only held for short stretches that never
block) and `Use`. Nothing is assumed of `SpuriousWake`: the code may not rely on
it. `IndexFactory`: weak fairness of each thread's `MakeStep`: a thread that is in
`make` keeps running, and nobody holds the mutex for longer than an insertion; a call
need not be made. `ParallelRuntime`: its own specification has weak fairness of each
thread, since the operating system runs every started thread and operations end; the
run assumes only that some thread that can go on does. The others state no fairness
and only safety is claimed of them. Where a module of several parts is checked, the
fairness is that of the part in use.

## 4. Proofs

`CellRegistryProofs` proves, for every table, buffer set and bound:

* `TypeCorrect`: `Spec => []TypeOK`;
* `LedgerCorrect`: `Spec => []LedgerExact`, the reads performed, forgone and left
  add up to the declared life. It is not inductive alone: a value that is absent
  must have no ledger to keep, hence the invariant `LedgerInv` with `HeldIsFilled`
  (a held value was filled since the last clear);
* `NoStaleBatchCorrect`: `Spec => []NoStaleBatch`, by the case split of
  `clear_bound_to` on bound, produced-if-absent and home loop;
* `OwnershipCorrect`: `Spec => []OwnedIsPrivate`, from `Unshared`: two cells that
  may be accumulated into never hold the same buffer, because persistent forms of
  one value do not coexist (an assumption of the module that
  `validate_cell_table` enforces);
* `ReleaseCorrect`: the action property `ReleasedOnlyWhenDone`;
* `LiveBytesCorrect`: `Spec => []LiveBytesExact`, the live byte count is the sum of
  what the held cells were charged. The sum is a fold over a set, so the lemmas about it
  (`FiniteSums`: a set without elements that count, one element changed, a subset) come
  first; where an induction would be needed they take a smallest counterexample instead,
  since the identifiers of cells are finitely many (`IdsAssumption`).

`OrderedExecutorProofs` proves, for every plan that satisfies `PlansAssumption` (any
block tree, table, volatile leaves and batch counts) and any number of evaluations:

* `TypeCorrect`: `Spec => []TypeOK`;
* `StoreNeverReplaced`: `Spec => StoredValueStands`, a value in the persistent store is
  never published again, by a later batch, a later block or a later evaluation;
* `HeldBuffersStand`: `Spec => NoWriteIntoHeldBuffer`, no accumulation in place (of a
  sum, of a block's running result, of the combine) changes a buffer that a cell holds;
* `StoredContentStands`: until the walk throws, the content of a buffer that the
  persistent store holds does not change either, so what a later evaluation reads from
  the store is what was published (it follows from the two above: the store's slot
  keeps its value, so its cell is held across every step).

All rest on one inductive invariant, `IInv`: the types, and while nothing was thrown
`Safe`, a conjunction whose parts need each other. The store stands because a persistent
cell is produced only while it is absent (`InProduction`), which is read when the
production begins and used when it ends, many reads later, and because an output that
is not skipped at block entry does not stand until the block closes, all batches later
(`OutputsOpen`); that nothing in between fills it is where the block tree comes in: the
cell an open block or a production is about belongs to its own place in the walk
(`BlocksOpen`, scopes by their length), and a production further down has another. At
the root, which no loop repeats, what the steps to come produce does not stand unless
the call-wide skip set has it (`RootPending`). That a stored value's cell holds it
through the whole evaluation (`StoreHeld`) closes the circle. A held buffer is not
written because no two cells hold one buffer (`Unshared`), a running result's buffer is
its own (`AccsPrivate`), and what a production holds is held by nothing else but the
cell it was read from (`LegsPrivate`); the allocator's buffer is free of all of them
(`FreshFree`). Each action has a lemma (`...Good`) that it keeps `Safe` and takes no
step the two properties forbid.

The proof asks of a plan: finitely many cells; that a persistent Build cell is bound to
no loop and a persistent cell inside a loop is produced if absent (`set_residency_flags`);
that all reads of one operand by one cell are of one form; that a built value has an
operand; that no value is built twice by the steps of the root, or is an output of two
blocks side by side there, or of one block twice (`Sound`). The validity of the table is
no assumption: the executor asserts it before it runs, and the proof uses what
`validate_cell_table` checks. TLC evaluates the assumption on every plan the builders
make of the run's forests; that they keep it for every forest is not proved.

`DefaultContextProofs` proves, for every set of threads, Statistics, contexts, scoped
maps and modifications and every bound:

* `TypeCorrect`: `Spec => []TypeOK`, in which every map a lookup can meet has a
  context for Arbitrary;
* `CacheCorrect`: `Spec => []CacheIsCurrent`. The inductive invariant `Inv` adds what
  the lock protects: the published copy is the map, a map nobody holds the lock on is
  that of the last completed change, and no cache is of a later generation than the
  current one. It is the order of `publish_default_contexts` (copy, then bump) that
  makes it inductive: between the two a hit still means the settled map;
* `ContextsAreARegister`: under `ModifyKeepsInitial`, `Spec` implements
  `ContextRegister`, with the register read as the settled map completed for Arbitrary
  (`Shown`). A change takes effect at its bump, a refreshed snapshot and a modified copy
  at their critical section; creating the context for Arbitrary shows nothing. The
  invariant `CallsInProgress` says what a thread between two steps may rely on. Without
  `ModifyKeepsInitial` the theorem is false (run `scoped_modify`).

It also proves `VersionsCorrect`: `VersionSpec => []VersionsIdentifyConfigurations`,
for any numbers of threads, contexts, objects, addresses and versions. What makes it
inductive: a dead object never lives again, because objects are numbered as they are
made; two living objects have different addresses; every configuration of a living
context that has a version is in the table; and a thread in `version()` keeps its
context alive. So an entry whose weak references are alive matches exactly the
configuration it was made for.

`SharedObjectProofs` proves, for any threads and calls:

* of `Singleton`, `TypeCorrect` (the mutex is held by the one thread that constructs)
  and `OneInstanceCorrect`: the owner is set once and the published pointer is null or
  the owner;
* of `FactorialMemo`, `ResultsCorrect` (every call returns n!) and `HeldCorrect` (a
  vector that is published or loaded is never modified). The invariant has three parts:
  every vector holds factorials (`Right`), a vector under construction is neither
  published nor loaded (`Private`), and the results so far are right;
* of `IndexFactory`, `LabelsCorrect`: no index is handed out twice, for any spaces and
  refused indices. The invariant says that a counter is inserted by one thread and only
  if it is absent (the mutex), that it has reached every candidate and every index handed
  out of its space, and that nobody else has a candidate: the atomic increment passes all
  of them;
* of `Memoize`, `ComputedOnceCorrect`: a value is computed once, for any keys, whether or
  not computations throw. The invariant is that the flat map has a key at most once,
  wherever its slots move, and that whoever computes has a placeholder there which only
  he fills. It holds although a returned reference may name another slot (run
  `memoize_moved`): the value is stored under the key, found anew.

`ParallelRuntimeProofs` proves, for any number of threads and any tree of nested calls:

* `ScopesCorrect`: an operation runs under the scoped contexts of the code that makes
  its call. The invariant `ScopeInv` says of every task in a thread's stack that what its
  call captured, and what the thread will get back after it, are the contexts of the
  items above the call; that a task runs the item that makes the call of the next; and
  that the thread has the contexts of the innermost;
* `ItemsCorrect`: every item of every call runs once. `ItemsInv` says of each item that
  it is not handed out (nothing below it ran), held by one place in one stack, or done
  (everything below it ran once); and of each counter that a caller stays a worker until
  all is handed out. When the root call is over so is every call (`AllOver`), from the
  outermost inwards;
* `OperationsCorrect`: with it, the exceptions of a call are reported, all and once each,
  as those of the root items they were thrown below, in the order of these items
  (`OperationsComplete`). `ErrorsInv` says that a recorded exception was thrown by a leaf
  below the item it is recorded for, and that this item is done; that none is recorded
  twice for a call; that what a leaf threw is recorded for its call; and that a call that
  is over has passed everything on to the one that made it. A call ends only where its
  caller joins (`OthersGoOn`), and that the caller joins last is what the threads' joins
  are for (`JoinsAlone`). `OrderedFacts` is about the sort: it permutes the entries, and
  the items ascend.

Their hypothesis `CallTree` says that the calls form a finite tree: each call but the
root is made by one item. `MCSharedObjects` has TLC evaluate it for the calls of its run.

`IndexBasisRegistryProofs` proves, for any bits, spaces offered, labels and starting
registries that are consistent:

* `EntriesCorrect`: a named basis belongs to a registered space, holds a copy of it with
  its present metadata, and is the one name of its instance; who follows another is
  equal to it, and following is one level deep;
* `BaseSpacesCorrect`: what is memoized is that of the present table, and all readers at
  once refer to the one vector that the registry owns;
* `FailureCorrect`: the action property that a call which throws changes nothing
  (`replace()` excepted, section 5);
* `AlgebraCorrect`: `RegistrySpec => []AlgebraOfSpaces`. Its second conjunct
  (`BoundsCorrect`): unions and intersections are the bounds of types, symmetric, and the
  queries tell when they throw. Its first: occupancy by comparison of integers agrees
  with occupancy by bits. The integer of a set of bits is a sum of powers of two
  (`FiniteSums`), less than that of any bit above them (`LowBits`, over the smallest
  counterexample); so integers compare as sets do where the occupied bits are the low
  ones (`IntegersCompare`). The occupied type is one that a registered space has, so it
  has only the bits 0 to 30 of a type (`IsSpaceValue`, part of `Sound`).

A call is an operator from a registry to the registry it leaves, so each has a lemma
(`...Good`): from a `Sound` registry it leaves a sound one whose memo is current, and if
it throws, one of the same contents. `Sound` adds to `EntriesConsistent` that no two
spaces have the same attributes and that the names of instances are counted, on which a
later removal or renaming relies. The invariant `RegistryInv` adds what a reader
between two steps refers to (`ReadersRefer`). The failing `follow()` that takes its
change back has a lemma of its own (`TakenBack`). The registries that a behaviour may
start from are a constant; that they are consistent is `StartsAssumption`, that the
spaces offered are values of their type is `OfferedAssumption`, both evaluated by TLC,
and a registry made without arguments is proved sound.

`SumOptimizerProofs` proves, for any terms, trees, loaded records, number of summands
optimized at once, addresses and runs:

* `KeptCorrect`: `OptimizerSpec => []KeptWithTheirResults`, the record of a run lists
  its results and the annotations of a sum are those of its summands;
* `PinCorrect`: `OptimizerSpec => []PinReplaysRecord`, a pinned run replays its record,
  all of it, or throws, and throws for a cause.

Both are statements about the end of a call or a run, so the inductive invariant `IInv`
says what holds in between, for any set of summands that are at any of their steps.
`Held`: a result that a summand made or the caller keeps lives at an address of its own,
its tree is one it may have, and its annotations, once stored, are under that address.
`Recording`: the index of the recorder leads from each held address to the record of the
result there, although addresses are reused (a newer record hides the older one), and
where the terms come one by one the records are in the order of the calls. `PinInv` is
the ledger of the pin session: a position of the record was used exactly if a result
says so, each once unless there are duplicates, every key that was missed is of a
summand, and a summand that threw had a reason. `WalkInv`: what is tied to a visited
summand is visited or on the stack, so when the stack and the heads are exhausted every
summand has been visited, once (`WalkedFacts`: each shares a node with the first holder
of that node); each clone equals its original. Relocation then carries the index from
the originals to the clones (`RelocateFacts`). For a pinned sum, a count does the rest:
all positions used and none twice makes the summands and the positions a bijection
(`InDocumentOrderFacts`), which `in_document_order` relies on; for terms passed one by
one it is `PinnedTerms`.

It is assumed that a term has a node to share (`TermsAssumption`), and that a loaded
record gives a term that can be pinned one of its trees with that tree's annotations
(`DocumentsAssumption`), which is what a recording writes (part of `IInv`).

Assumptions are the named `ASSUME`s of the modules; TLC evaluates them in the runs.
Each preservation proof has one step per action of `Next`.

Only model-checked:

* of the executor, that the builders' table is valid, that the walk over a valid table
  does not throw, what the store and the roots contain and what is released: they depend
  on the declared lives being the reads of the walk, a product of batch counts over the
  block tree, and on contents, both inductions over data;
* schedules, tables, the trees and their identity, the cache and the exports: their
  definitions recurse over schedules and expressions with `RECURSIVE`
  operators, which the provers cannot reason about, and what they compute for every
  input is an induction over data;
* `ContractionsExact` and `ReductionExact`: sums over all contractions and all values of
  the summed indices;
* liveness and fairness (no `ENABLED` in this prover).

## 5. Not modelled, and why

See `PROJECT.json` for every component. In the modelled ones: tracing, dumps and
op counts; the numerical backends (contents stand for tensors); the
`std::execution` branch of the parallel primitives (its scheduling is the
library's); builds without `SEQUANT_CONTEXT_MANIPULATION_THREADSAFE`; a failure to
start a thread (it terminates the program); a moved-from `Context`, which keeps its
cached version; the reference that `get_default_context` returns into the map
(`context.hpp` warns of it and offers the snapshot, which is modelled); the hash that
combines the versions of three contexts; the batched evaluator of `eval.hpp`, tensors of tensors and symmetrized roots; the cost-aware
admission of the cache; the costs in the optimizer's dynamic program, and which loops
it opens (the forests are given); the sizes and peaks `peak_profile.hpp` estimates;
bases given as prefixed label patterns; of the export, the text backends, declarations
and sections, index batching and irreps, adjoints, powers and broadcasts, the recycling
of names across equations.

Most of the repository's lines are symbolic algebra without state, control or
concurrency beyond a function's own recursion; a model of them would repeat the
functions. Their correctness is algebraic and the unit tests' concern.

### Noted while modelling

Observations that no run states as a property; each is visible in the lines named.

* `physical_particle_attribute_mask(m)` (`index_basis_registry.cpp:21`) leaves the
  memoized base spaces as they were, although being a base space depends on the mask.
* `add_intersection` leaves the field to its default; its comment says it is computed.
* `intersection()` looks up the quantum numbers of its first argument rather than those
  of the meet, so it is not symmetric.
* `replace()` removes the old space before it adds the new one, and loses it if the
  addition throws.
* The annotations of a sum (`term_batch_axes`) are keyed by the addresses of results:
  in a map that a caller reuses after dropping the results, a key may be stale. The
  model gives each call a fresh map.
* Two sums compare equal as nodes if their canonical forms do
  (`eval_node_compare.hpp:269`), and the scalar accumulator of a sum may alias a cached
  value (`eval.hpp:1446`).
* `R = A B + B A` fails the assertion that a pair still pairs
  (`export/generation_optimizer.hpp:650`): every pair is shifted by all that was erased
  before it (line 641), also if the erased operations stood after it. A build without
  assertions erases the wrong operations.
* `(A B + B C) C + (A C) D`: the strategy to zero the object of an intermediate that is
  used again (`export/export.hpp:614` and `:621`) is set for the object in the whole
  tree, and so zeroes a sum between its summands as well.
* Contractions that are not full are emitted before all the connections required of
  them are made (`wick.hpp:1627`; its documentation at line 236 says that only terms with
  them are). Inputs that ask for both are left out.
* `op_permutational_degeneracy` (`wick.hpp:1530`) weights by whatever partitions there
  are, also if `use_topology(false)` was called after they had been found.
* A summed index that deltas tie to external indices of two different spaces is given a
  fresh index of their intersection (`update_rule`, `wick.impl.hpp:282`), and its deltas
  stand although one could be resolved. The value is right.
* `(A B + B C) C`: every summand counts a use of the sum's object
  (`export/export.hpp:161`) and only one is dropped, so it is never unloaded.

## 6. Plan

What exists: the construction and the evaluation of schedules, the evaluation of
trees, the shared objects, the default contexts and versions, the runtime, the registry
of spaces and bases, the optimizer's sessions, the generation of code. What is left, in
order of value:

1. The recycling of names across equations (`core/optimize/name_recycling.hpp`), whose
   value ranges and repeated regions a program for the machine of `GenerationOptimizer`
   can be checked against.
2. The optimizer's dynamic program, with the loops it opens, against a reference
   definition on bounded inputs.
