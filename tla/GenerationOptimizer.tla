------------------------ MODULE GenerationOptimizer ------------------------
(***************************************************************************)
(* The operations a code generator is told to emit (core/export/            *)
(* generator.hpp), the generator that optimizes their sequence before it    *)
(* passes it on (generation_optimizer.hpp), and the machine that runs them: *)
(* what generator.hpp says each of them does.  A tensor's elements are      *)
(* abstracted to one number, a contraction to a multiplication.             *)
(***************************************************************************)
EXTENDS Integers, Sequences, SequencesExt, FiniteSets, Functions, TLC

CONSTANT Undefined   \* the value of an object that was never given one

Operation(type, obj) == [type |-> type, obj |-> obj, args |-> <<>>]
\* the target gains the product of the operands
Compute(obj, args) == [type |-> "compute", obj |-> obj, args |-> args]

Allocates(op) == op.type \in {"create", "load", "load and zero"}
Deallocates(op) == op.type \in {"unload", "persist"}

\* Mutant: what is loaded as zero cancels too.
CancelsZeroed(a, b) ==
  a.obj = b.obj /\ {a.type, b.type} \in {{"load", "unload"}, {"load and zero", "unload"}}
Cancels(a, b) == a.obj = b.obj /\ {a.type, b.type} = {"load", "unload"}
PairsWith(a, b) ==
  /\ a.obj = b.obj
  /\ \/ Allocates(a) /\ Deallocates(b)
     \/ Deallocates(a) /\ Allocates(b)

-----------------------------------------------------------------------------
(* The optimizer: a queue up to the next computation, the cache of what was *)
(* queued before, the pairs of operations that might be removed, and        *)
(* whether an assertion has failed.                                         *)

NewOptimizer == [queue |-> <<>>, cache |-> <<>>, paired |-> <<>>, failed |-> FALSE]

Without(s, positions) ==
  LET keep == SelectSeq([p \in DOMAIN s |-> p], LAMBDA p : p \notin positions)
  IN [k \in DOMAIN keep |-> s[keep[k]]]

\* Adjacent operations that cancel go, which leaves the memory a stack.
RECURSIVE Elided(_)
Elided(queue) ==
  LET pairs == {p \in 1 .. Len(queue) - 1 : Cancels(queue[p], queue[p + 1])}
  IN IF pairs = {} THEN queue
     ELSE LET p == CHOOSE q \in pairs : \A r \in pairs : q <= r
          IN Elided(Without(queue, {p, p + 1}))

\* the pairs of the queue, at their positions in the cache
PairsOf(queue, base) ==
  LET partners(p) == {q \in p + 1 .. Len(queue) : PairsWith(queue[p], queue[q])}
      firsts == SelectSeq([p \in DOMAIN queue |-> p], LAMBDA p : partners(p) # {})
  IN [k \in DOMAIN firsts |->
        <<base + firsts[k],
          base + CHOOSE q \in partners(firsts[k]) :
                   \A r \in partners(firsts[k]) : q <= r>>]

\* process_operation_queue
ProcessQueue(o) ==
  LET queue == Elided(o.queue)
      pairs == PairsOf(queue, Len(o.cache))
      clash == \E j, k \in DOMAIN pairs : j # k /\ pairs[j][2] = pairs[k][2]
  IN [queue |-> <<>>, cache |-> o.cache \o queue, paired |-> o.paired \o pairs,
      failed |-> o.failed \/ clash]

\* an operation is queued; a computation has the queue processed
Enqueue(o, op) ==
  LET queued == [o EXCEPT !.queue = Append(@, op)]
  IN IF op.type = "compute" THEN ProcessQueue(queued) ELSE queued

\* find_unpaired_allocation, from p downwards: 0 when there is none
RECURSIVE UnpairedAllocation(_, _, _)
UnpairedAllocation(cache, p, open) ==
  IF p = 0 THEN 0
  ELSE IF Deallocates(cache[p]) THEN UnpairedAllocation(cache, p - 1, <<cache[p]>> \o open)
  ELSE IF ~Allocates(cache[p]) THEN UnpairedAllocation(cache, p - 1, open)
  ELSE IF open # <<>> /\ PairsWith(cache[p], Head(open))
       THEN UnpairedAllocation(cache, p - 1, Tail(open))
  ELSE p

\* Mutant: the allocations keep their order when the pair goes.
ErasePairOnly(s, pair) ==
  LET first == pair[1] - s.erased
      second == pair[2] - s.erased
  IN IF second - first > 2 \/ ~Deallocates(s.cache[first + 1]) THEN s
     ELSE [s EXCEPT !.cache = Without(@, {first, second}), !.erased = @ + 2]

\* One pair: if what stands between its two operations frees the object that
\* was allocated right before theirs, the allocations are swapped and the pair
\* goes.  s is the cache, the number of operations erased, and whether an
\* assertion has failed.
ErasePair(s, pair) ==
  LET first == pair[1] - s.erased
      second == pair[2] - s.erased
      inside == first >= 1 /\ second <= Len(s.cache) /\ first < second
      own == UnpairedAllocation(s.cache, first - 1, <<>>)
      other == IF own = 0 THEN 0 ELSE UnpairedAllocation(s.cache, own - 1, <<>>)
  IN CASE s.failed -> s
       [] ~s.failed /\ (~inside \/ ~PairsWith(s.cache[first], s.cache[second])) ->
            [s EXCEPT !.failed = TRUE]
       [] OTHER ->
            IF second - first > 2 \/ ~Deallocates(s.cache[first + 1]) THEN s
            ELSE IF ~(/\ Deallocates(s.cache[first])
                      /\ own # 0 /\ PairsWith(s.cache[own], s.cache[first])
                      /\ other # 0 /\ PairsWith(s.cache[other], s.cache[first + 1]))
                 THEN [s EXCEPT !.failed = TRUE]
            ELSE IF own - other # 1 THEN s
            ELSE [s EXCEPT !.cache = Without([@ EXCEPT ![own] = s.cache[other],
                                                       ![other] = s.cache[own]],
                                             {first, second}),
                           !.erased = @ + 2]

\* end_expression: what is passed on
Optimized(o) ==
  LET processed == ProcessQueue(o)
      ends == \/ processed.cache = <<>>
              \/ PairsWith(Head(processed.cache), Last(processed.cache))
      start == [cache |-> processed.cache, erased |-> 0,
                failed |-> processed.failed \/ ~ends]
  IN FoldLeft(ErasePair, start, processed.paired)

-----------------------------------------------------------------------------
(* The machine.                                                             *)

\* memory: the objects in it, stack: in the order of their allocation, store:
\* what can be loaded, ok: every operation has found what it needs, lifo: what
\* was allocated last has been freed first
Machine(store) ==
  [memory |-> <<>>, stack |-> <<>>, store |-> store, ok |-> TRUE, lifo |-> TRUE]

Allocated(m, obj, value) ==
  [m EXCEPT !.memory = (obj :> value) @@ @, !.stack = Append(@, obj),
            !.ok = @ /\ obj \notin DOMAIN m.memory]
Freed(m, obj) ==
  [m EXCEPT !.memory = Restrict(@, DOMAIN @ \ {obj}),
            !.stack = SelectSeq(@, LAMBDA o : o # obj),
            !.ok = @ /\ obj \in DOMAIN m.memory,
            !.lifo = @ /\ m.stack # <<>> /\ Last(m.stack) = obj]

Operand(m, arg) == IF arg.kind = "constant" THEN arg.value ELSE m.memory[arg]
Defined(m, arg) ==
  \/ arg.kind = "constant"
  \/ arg \in DOMAIN m.memory /\ m.memory[arg] # Undefined

Execute(m, op) ==
  CASE ~m.ok -> m
    [] m.ok /\ op.type = "create" ->
         \* it can be loaded from then on
         [Allocated(m, op.obj, 0) EXCEPT !.store = @ @@ (op.obj :> Undefined)]
    [] m.ok /\ op.type \in {"load", "load and zero"} ->
         IF op.obj \notin DOMAIN m.store THEN [m EXCEPT !.ok = FALSE]
         ELSE Allocated(m, op.obj, IF op.type = "load" THEN m.store[op.obj] ELSE 0)
    [] m.ok /\ op.type = "zero" ->
         [m EXCEPT !.memory = (op.obj :> 0) @@ @, !.ok = op.obj \in DOMAIN m.memory]
    [] m.ok /\ op.type = "unload" -> Freed(m, op.obj)
    [] m.ok /\ op.type = "persist" ->
         IF op.obj \notin DOMAIN m.memory THEN [m EXCEPT !.ok = FALSE]
         ELSE [Freed(m, op.obj) EXCEPT !.store = (op.obj :> m.memory[op.obj]) @@ @]
    [] m.ok /\ op.type = "compute" ->
         IF \E a \in Range(op.args) \cup {op.obj} : ~Defined(m, a)
         THEN [m EXCEPT !.ok = FALSE]
         ELSE [m EXCEPT !.memory[op.obj] =
                 @ + FoldLeft(LAMBDA acc, a : acc * Operand(m, a), 1, op.args)]

Run(ops, store) == FoldLeft(Execute, Machine(store), ops)
=============================================================================
