---------------------------- MODULE TreeEvaluator ----------------------------
(***************************************************************************)
(* The tree evaluator (src/SeQuant/core/eval/eval.hpp) and the cache it    *)
(* evaluates against (src/SeQuant/core/eval/cache_manager.hpp).  A forest  *)
(* of trees is evaluated term by term on an explicit stack, and the terms  *)
(* are added up.  Values are shared buffers, so a sum that accumulates in  *)
(* place changes the value for everybody who holds it.  A cached value     *)
(* lives for a counted number of reads, a persistent one for ever; between *)
(* evaluations the caller may change the volatile tensors and reset the    *)
(* cache.                                                                  *)
(***************************************************************************)
EXTENDS EvalTree

CONSTANTS
  Programs,         \* a sequence of [terms, out, maxFootprint]: expressions, their
                    \* layout, and the cache builder's limit, 0 when there is none
  VolatileLeaves,   \* the tensors whose data changes between evaluations
  Versions,         \* a sequence: the tensors' data, version by version
  MinRepeats,       \* min_repeats of the cache builder
  MaxEvaluations    \* how many times the forest is evaluated

VARIABLES
  program,     \* which of Programs is evaluated
  memoizing,   \* whether the leaf evaluator hands out one buffer per tensor
  version,     \* the version of the volatile tensors
  cache,       \* the cache's entries, by the number of their key
  heap,        \* the buffers allocated so far: their contents
  leafBuffer,  \* the buffers of a memoizing leaf evaluator, 0 for none
  stack,       \* the evaluation stack
  ret,         \* the buffer the frame that finished last returned, 0 for none
  chosen,      \* the terms the caller evaluates, in order
  pos,         \* how many of them are evaluated and added
  total,       \* the buffer of their sum, 0 before the first
  evaluation,  \* how many evaluations of the forest have begun
  failed,      \* whether a value was stored twice
  builds,      \* history: for each key, how often its value was computed
               \* since the last reset
  resetAt      \* history: the evaluation that began with the last reset

vars == <<program, memoizing, version, cache, heap, leafBuffer, stack, ret,
          chosen, pos, total, evaluation, failed, builds, resetAt>>

-----------------------------------------------------------------------------
\* The cache builder cache_manager(nodes, is_volatile, min_repeats, ...).

Forest(p) ==
  [k \in DOMAIN p.terms |-> Binarize(p.terms[k], Range(p.out))]

Known(S, n) == \E k \in S : Same(k, n)
Rep(S, n) == CHOOSE k \in S : Same(k, n)

\* Mutant: only the first use is counted.
CountUseFirst(n, counts) ==
  IF IsLeaf(n) \/ Known(DOMAIN counts, n) THEN counts
  ELSE [k \in DOMAIN counts \cup {n} |-> IF k = n THEN 1 ELSE counts[k]]
\* One visit of a node by the walk w: an internal node's use is counted, and
\* its children are descended into on the first visit only.  A node is volatile
\* if a child is; the internal children of a volatile node that are not
\* volatile are persistent.
CountUse(n, counts) ==
  IF IsLeaf(n) THEN counts
  ELSE IF Known(DOMAIN counts, n)
       THEN [counts EXCEPT ![Rep(DOMAIN counts, n)] = @ + 1]
       ELSE [k \in DOMAIN counts \cup {n} |-> IF k = n THEN 1 ELSE counts[k]]
IsVolatile(w, n) == w.volatile[Rep(DOMAIN w.volatile, n)]
Classify(w, n, v) ==
  [w EXCEPT !.volatile = [k \in DOMAIN w.volatile \cup {n} |->
                            IF k = n THEN v ELSE w.volatile[k]]]
Frontier(w, n) ==
  {c \in {n.left, n.right} : ~IsLeaf(c) /\ ~IsVolatile(w, c)}
RECURSIVE Descend(_, _)
Closed(w, n, v) ==
  Classify([w EXCEPT !.persistent = IF v THEN @ \cup Frontier(w, n) ELSE @], n, v)
CloseInternal(w, n) ==
  Closed(w, n, IsVolatile(w, n.left) \/ IsVolatile(w, n.right))
Enter(w, n) ==
  CASE Known(DOMAIN w.volatile, n) -> w
    [] ~Known(DOMAIN w.volatile, n) /\ IsLeaf(n) ->
         Classify(w, n, n.name \in VolatileLeaves)
    [] OTHER -> CloseInternal(Descend(Descend(w, n.left), n.right), n)
Descend(w, n) == Enter([w EXCEPT !.counts = CountUse(n, @)], n)

Walk(forest) ==
  FoldLeft(Descend, [counts |-> [k \in {} |-> 0], volatile |-> [k \in {} |-> FALSE],
                     persistent |-> {}], forest)

\* The nodes the builder registers: the repeated ones and the persistent ones,
\* unless their arrays are too large to hold.
Registered(w, maxFootprint) ==
  {n \in DOMAIN w.counts :
     /\ w.counts[n] >= MinRepeats \/ Known(w.persistent, n)
     /\ maxFootprint > 0 => Len(n.idx) <= maxFootprint}

\* The forests, and the keys and entries of their caches.
Forests == [p \in DOMAIN Programs |-> Forest(Programs[p])]
Keys ==
  [p \in DOMAIN Programs |->
     FoldSet(LAMBDA n, ns : Append(ns, n), <<>>, 
                   Registered(Walk(Forests[p]), Programs[p].maxFootprint))]
NewEntry(life, persistent) ==
  [maxLife |-> life, life |-> life, persistent |-> persistent, data |-> 0,
   stored |-> FALSE]
NewCaches ==
  [p \in DOMAIN Programs |->
     LET w == Walk(Forests[p]) IN
     [k \in DOMAIN Keys[p] |-> NewEntry(w.counts[Keys[p][k]],
                                        Known(w.persistent, Keys[p][k]))]]

forest == Forests[program]
keys == Keys[program]
out == Programs[program].out
Data == Versions[version]

\* exists(n), and the number of the node's key.
Exists(n) == \E k \in DOMAIN keys : Same(keys[k], n)
KeyOf(n) == CHOOSE k \in DOMAIN keys : Same(keys[k], n)

-----------------------------------------------------------------------------
\* entry::access: a read of a counted value uses up one of its reads, and the
\* last one takes the value out.
LastRead(e) == ~e.persistent /\ e.life <= 1
\* Mutant: a value is kept for as many reads as there are uses, and one more.
AccessedLate(e) ==
  CASE e.data = 0 \/ e.persistent -> e
    [] e.data # 0 /\ ~e.persistent /\ e.life = 0 ->
         [e EXCEPT !.data = 0, !.stored = FALSE]
    [] OTHER -> [e EXCEPT !.life = @ - 1]
Accessed(e) ==
  CASE e.data = 0 \/ e.persistent -> e
    [] e.data # 0 /\ LastRead(e) ->
         [e EXCEPT !.life = 0, !.data = 0, !.stored = FALSE]
    [] OTHER -> [e EXCEPT !.life = @ - 1]

\* entry::store.
StoresTwice(e) == ~e.persistent /\ e.stored
Stored(e, buffer) == [e EXCEPT !.data = buffer, !.stored = ~e.persistent]

\* entry::reset.
\* Mutant: counted values survive a reset.
ResetKeepingData(e) == [e EXCEPT !.life = e.maxLife, !.stored = FALSE]
Reset(e) ==
  [e EXCEPT !.life = e.maxLife, !.stored = FALSE,
            !.data = IF e.persistent THEN @ ELSE 0]

\* chain_holds_shared: an entry with more readers than one holds the buffer.
HoldsShared(buffer) ==
  \E k \in DOMAIN cache :
    /\ cache[k].data = buffer
    /\ cache[k].persistent \/ cache[k].maxLife > 1

-----------------------------------------------------------------------------
\* What the caller evaluates: the whole forest, or one of its terms (an
\* observable beside a residual).
TermChoices == {[k \in DOMAIN forest |-> k]} \cup {<<k>> : k \in DOMAIN forest}

Frame(n) == [node |-> n, stage |-> "Enter", left |-> 0, right |-> 0]
Top == stack[Len(stack)]
Popped == Front(stack)
SetTop(f) == Append(Popped, f)

Init ==
  /\ program \in DOMAIN Programs
  /\ memoizing \in BOOLEAN
  /\ version = 1
  /\ cache = NewCaches[program]
  /\ heap = <<>>
  /\ leafBuffer = [t \in DOMAIN Versions[1] |-> 0]
  /\ stack = <<>>
  /\ ret = 0
  /\ chosen \in TermChoices
  /\ pos = 0
  /\ total = 0
  /\ evaluation = 1
  /\ failed = FALSE
  /\ builds = [k \in DOMAIN cache |-> 0]
  /\ resetAt = 1

caller == <<program, memoizing, version, chosen, pos, total, evaluation, resetAt>>

\* apply_canon_phase: the buffer times the node's phase; a phase of 1 returns
\* the buffer itself.
Phased(n, h, b) ==
  IF n.phase = 1 THEN [heap |-> h, buffer |-> b]
  ELSE [heap |-> Append(h, Scale(n.phase, h[b])), buffer |-> Len(h) + 1]

\* The Enter stage finds the node's value in the cache.
EnterHit ==
  /\ stack # <<>> /\ Top.stage = "Enter"
  /\ Exists(Top.node)
  /\ LET k == KeyOf(Top.node)
         read == Phased(Top.node, heap, cache[k].data)
     IN
     /\ cache[k].data # 0
     /\ cache' = [cache EXCEPT ![k] = Accessed(@)]
     /\ heap' = read.heap
     /\ ret' = read.buffer
  /\ stack' = Popped
  /\ UNCHANGED <<caller, leafBuffer, failed, builds>>

Missed(n) == Exists(n) => cache[KeyOf(n)].data = 0

\* finish_phase_b: the fresh value b of the node n, in the heap h; a
\* registered one is stored in the canonical orientation and read back.
Finish(n, h, b) ==
  IF Exists(n)
  THEN LET k == KeyOf(n)
           canonical == Phased(n, h, b)
           stored == Stored(cache[k], canonical.buffer)
           oriented == Phased(n, canonical.heap, canonical.buffer)
       IN /\ cache' = [cache EXCEPT ![k] = Accessed(stored)]
          /\ failed' = (failed \/ StoresTwice(cache[k]))
          /\ heap' = oriented.heap
          /\ ret' = oriented.buffer
          /\ builds' = [builds EXCEPT ![k] = @ + 1]
  ELSE /\ heap' = h
       /\ ret' = b
       /\ UNCHANGED <<cache, failed, builds>>

\* A constant leaf.
EnterConstant ==
  /\ stack # <<>> /\ Top.stage = "Enter" /\ Top.node.op = "constant"
  /\ heap' = Append(heap, [r \in {<<>>} |-> Top.node.value])
  /\ ret' = Len(heap) + 1
  /\ stack' = Popped
  /\ UNCHANGED <<caller, leafBuffer, cache, failed, builds>>

\* fetch_leaf_traced: the leaf evaluator returns the tensor's data, in a new
\* buffer or, when it memoizes, in the buffer it returned before.
EnterLeaf ==
  /\ stack # <<>> /\ Top.stage = "Enter" /\ Top.node.op = "leaf"
  /\ LET t == Top.node.name IN
     IF memoizing /\ leafBuffer[t] # 0
     THEN /\ ret' = leafBuffer[t]
          /\ UNCHANGED <<heap, leafBuffer>>
     ELSE /\ heap' = Append(heap, Data[t])
          /\ ret' = Len(heap) + 1
          /\ leafBuffer' = [leafBuffer EXCEPT ![t] = Len(heap) + 1]
  /\ stack' = Popped
  /\ UNCHANGED <<caller, cache, failed, builds>>

\* An internal node that is not cached asks for its left operand.
EnterInternal ==
  /\ stack # <<>> /\ Top.stage = "Enter" /\ ~IsLeaf(Top.node)
  /\ Missed(Top.node)
  /\ stack' = Append(SetTop([Top EXCEPT !.stage = "NeedLeft"]),
                     Frame(Top.node.left))
  /\ ret' = 0
  /\ UNCHANGED <<caller, leafBuffer, cache, heap, failed, builds>>

\* The left operand is here: the right one is asked for.
NeedLeft ==
  /\ stack # <<>> /\ Top.stage = "NeedLeft" /\ ret # 0
  /\ stack' = Append(SetTop([Top EXCEPT !.stage = "NeedRight", !.left = ret]),
                     Frame(Top.node.right))
  /\ ret' = 0
  /\ UNCHANGED <<caller, leafBuffer, cache, heap, failed, builds>>

\* A sum accumulates into its left operand when that is the value of an
\* internal node that no entry with several readers holds.
\* Mutant: the cache is not asked.
InPlaceUnshared(n, left) == n.op = "Sum" /\ ~IsLeaf(n.left)
InPlace(n, left) == n.op = "Sum" /\ ~IsLeaf(n.left) /\ ~HoldsShared(left)

\* sum_in_place_traced: the right operand, in the left one's layout, is added
\* to the left operand's buffer.
NeedRightInPlace ==
  /\ stack # <<>> /\ Top.stage = "NeedRight" /\ ret # 0
  /\ InPlace(Top.node, Top.left)
  /\ LET n == Top.node
         aligned == Permute(heap[ret], n.right.idx, n.left.idx)
     IN Finish(n, [heap EXCEPT ![Top.left] = Plus(@, aligned)], Top.left)
  /\ stack' = Popped
  /\ UNCHANGED <<caller, leafBuffer>>

\* apply_one_op: the operation into a new buffer.
Applied(n, left, right) ==
  IF n.op = "Sum"
  THEN Plus(Permute(left, n.left.idx, n.idx), Permute(right, n.right.idx, n.idx))
  ELSE Contract(left, n.left.idx, right, n.right.idx, n.idx)
NeedRightApply ==
  /\ stack # <<>> /\ Top.stage = "NeedRight" /\ ret # 0
  /\ ~InPlace(Top.node, Top.left)
  /\ Finish(Top.node, Append(heap, Applied(Top.node, heap[Top.left], heap[ret])),
            Len(heap) + 1)
  /\ stack' = Popped
  /\ UNCHANGED <<caller, leafBuffer>>

-----------------------------------------------------------------------------
\* evaluate(nodes, layout, leaf_evaluator, cache).

Term == forest[chosen[pos + 1]]

StartTerm ==
  /\ stack = <<>> /\ ret = 0 /\ pos < Len(chosen)
  /\ stack' = <<Frame(Term)>>
  /\ UNCHANGED <<caller, leafBuffer, cache, heap, ret, failed, builds>>

\* The first term's value, permuted to the layout, becomes the result; a
\* scalar has no layout and is not copied.
FirstTerm ==
  /\ stack = <<>> /\ ret # 0 /\ pos = 0
  /\ IF out = <<>>
     THEN total' = ret /\ UNCHANGED heap
     ELSE /\ heap' = Append(heap, Permute(heap[ret], Term.idx, out))
          /\ total' = Len(heap) + 1
  /\ pos' = 1
  /\ ret' = 0
  /\ UNCHANGED <<program, memoizing, version, chosen, evaluation, leafBuffer,
                 cache, stack, failed, builds, resetAt>>

\* A later term's value is added to the result in place.
AddTerm ==
  /\ stack = <<>> /\ ret # 0 /\ pos > 0
  /\ heap' = [heap EXCEPT ![total] =
                Plus(@, Permute(heap[ret], Term.idx, out))]
  /\ pos' = pos + 1
  /\ ret' = 0
  /\ UNCHANGED <<program, memoizing, version, chosen, total, evaluation,
                 leafBuffer, cache, stack, failed, builds, resetAt>>

Done == stack = <<>> /\ ret = 0 /\ pos = Len(chosen)

\* The caller begins another evaluation against the same cache.
Restart ==
  /\ Done /\ evaluation < MaxEvaluations
  /\ evaluation' = evaluation + 1
  /\ chosen' \in TermChoices
  /\ pos' = 0
  /\ total' = 0
  /\ UNCHANGED <<program, memoizing, heap, stack, ret, failed>>

EvaluateAgain ==
  /\ Restart
  /\ UNCHANGED <<version, cache, leafBuffer, builds, resetAt>>

\* CacheManager::reset, and the volatile tensors change.
UpdateAndReset ==
  /\ version < Len(Versions)
  /\ Restart
  /\ version' = version + 1
  /\ cache' = [k \in DOMAIN cache |-> Reset(cache[k])]
  /\ leafBuffer' = [t \in DOMAIN leafBuffer |->
                      IF t \in VolatileLeaves THEN 0 ELSE leafBuffer[t]]
  /\ builds' = [k \in DOMAIN builds |->
                  IF cache[k].persistent THEN builds[k] ELSE 0]
  /\ resetAt' = evaluation'

Step ==
  \/ EnterHit
  \/ EnterConstant
  \/ EnterLeaf
  \/ EnterInternal
  \/ NeedLeft
  \/ NeedRightInPlace
  \/ NeedRightApply
  \/ StartTerm
  \/ FirstTerm
  \/ AddTerm

Next == Step \/ EvaluateAgain \/ UpdateAndReset

Spec == Init /\ [][Next]_vars

-----------------------------------------------------------------------------
TypeOK ==
  /\ \A k \in DOMAIN cache :
       /\ cache[k].data \in 0..Len(heap)
       /\ cache[k].life \in 0..cache[k].maxLife
       /\ cache[k].data # 0 /\ ~cache[k].persistent =>
            cache[k].stored /\ cache[k].life > 0
  /\ ret \in 0..Len(heap) /\ total \in 0..Len(heap)
  /\ \A d \in DOMAIN stack :
       /\ d < Len(stack) => stack[d].stage # "Enter"
       /\ (stack[d].left # 0) <=> (stack[d].stage = "NeedRight")

\* The evaluation's result is the sum of what the chosen terms denote for the
\* tensors' present data: no value was taken from an entry of another node, of
\* an earlier version, or with the wrong phase, and none was overwritten.  On
\* the way no value was stored while the one stored before was still to be
\* read, which the cache would assert.
ResultsRight ==
  /\ ~failed
  /\ Done /\ pos > 0 =>
    LET Sums[k \in 0..Len(chosen)] ==
          IF k = 0 THEN [r \in [DOMAIN out -> Extent] |-> 0]
          ELSE Plus(Sums[k - 1],
                    Denote(Programs[program].terms[chosen[k]], Data, out))
    IN heap[total] = Sums[Len(chosen)]

\* Every value in the cache is its node's canonical value for the present
\* data, whoever else holds the buffer.
CacheIsCurrent ==
  \A k \in DOMAIN cache :
    cache[k].data # 0 =>
      heap[cache[k].data] = Scale(keys[k].phase, Raw(keys[k], Data))

\* After a reset, evaluating the whole forest computes every registered value
\* once; a persistent one is not computed again by later evaluations.  (A value
\* that max_footprint keeps out of the cache is computed for each use, and the
\* registered values below it are read more often than the builder counted.)
Ungated == Programs[program].maxFootprint = 0
Whole == chosen = [k \in DOMAIN forest |-> k]
FirstSinceReset == Whole /\ evaluation = resetAt
BuiltOnce ==
  Ungated => \A k \in DOMAIN builds :
    (cache[k].persistent \/ FirstSinceReset) => builds[k] <= 1

\* The counts of the builder are the reads of the evaluation: when the whole
\* forest is evaluated after a reset, only persistent values stay in memory.
AllReleased ==
  Ungated /\ Done /\ FirstSinceReset =>
    \A k \in DOMAIN cache : cache[k].data # 0 => cache[k].persistent

\* A use counted too little computes a value again, one too many keeps it.
UsesCounted == BuiltOnce /\ AllReleased

\* A sum accumulates into a buffer nobody else holds.
InPlaceExclusive ==
  stack # <<>> /\ Top.stage = "NeedRight" /\ ret # 0 /\ InPlace(Top.node, Top.left)
    => \A d \in 1..(Len(stack) - 1) : stack[d].left # Top.left
=============================================================================
