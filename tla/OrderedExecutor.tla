-------------------------- MODULE OrderedExecutor --------------------------
(***************************************************************************)
(* The ordered executor (core/eval/ordered_executor.hpp): it walks the     *)
(* block tree of a schedule over the cell table built from it, batch by    *)
(* batch, reads every operand through the CellRegistry, assembles the      *)
(* per-batch partials when a block closes, and skips what a persistent or  *)
(* still resident cell makes unnecessary.  Several evaluations of one      *)
(* schedule run in a row, sharing only the persistent value store.         *)
(*                                                                         *)
(* A value is a tensor over its batched modes.  Its content says, for each *)
(* point (one batch number per mode it carries or sums over), what is      *)
(* accumulated there: nothing, the contribution of constant leaves only,   *)
(* the contribution of the volatile leaves of one evaluation, or garbage   *)
(* (a contribution counted twice, or mixed from two evaluations).          *)
(* Contents live in buffers, since several holders may share one buffer    *)
(* and an in-place accumulation changes what all of them see.              *)
(***************************************************************************)
EXTENDS CellSlots, SequencesExt, FiniteSetsExt, Functions, Integers

CONSTANTS Plans,    \* what may be evaluated: records [sched, nb, batches, table,
                    \* volatile, consumers, blocks, productions] (CellTableBuilder!PlanOf)
          NEvals    \* number of successive evaluations of the schedule

ASSUME BufsAssumption == NoBuf \notin Nat /\ NEvals \in Nat

(* What the builders of schedules and tables guarantee of a plan.          *)
(* set_residency_flags *)
ResidencyFlags(t) ==
  \A c \in CellIds(t) : t.cells[c].persistent =>
    /\ t.cells[c].kind = "Build" => BoundInstances(t.cells[c]) = {}
    /\ t.cells[c].kind # "Leaf" /\ t.cells[c].scope # << >> => t.cells[c].pia
(* The reads of one operand by one cell are of one form of it.             *)
OneForm(t) ==
  \A r, q \in DOMAIN t.reads :
    /\ t.reads[r].consumer = t.reads[q].consumer
    /\ t.reads[r].operand = t.reads[q].operand
    => t.reads[r].source = t.reads[q].source
(* well_formed: no two steps build one value, no two outputs of blocks     *)
(* side by side, or of one block, are one value.                           *)
SingleProducer(steps) ==
  \A i, j \in DOMAIN steps : i # j =>
    /\ IsBuild(steps[i]) /\ IsBuild(steps[j]) => steps[i].vid # steps[j].vid
    /\ ~IsBuild(steps[i]) /\ ~IsBuild(steps[j]) =>
         \A k \in DOMAIN steps[i].outputs, l \in DOMAIN steps[j].outputs :
           steps[i].outputs[k][1] # steps[j].outputs[l][1]
OutputsDistinct(block) ==
  \A k, l \in DOMAIN block.outputs :
    block.outputs[k][1] = block.outputs[l][1] => k = l
BlocksAmong(steps, blocks) ==
  \A i \in DOMAIN steps : ~IsBuild(steps[i]) => steps[i] \in blocks
Sound(p) ==
  /\ IsFiniteSet(CellIds(p.table)) /\ CellIds(p.table) \subseteq Nat \ {NoCell}
  /\ IsFiniteSet(DOMAIN p.sched.values) /\ DOMAIN p.table.reads \subseteq Nat
  /\ \A c \in CellIds(p.table) : p.table.cells[c].vid \in DOMAIN p.sched.values
  /\ \A c \in CellIds(p.table) :
       /\ p.table.cells[c].kind = "Build" => ReadsOf(p.table, c) # {}
       /\ p.table.cells[c].kind = "Assemble" => p.table.cells[c].asm \in {"Sum", "Scatter"}
  /\ ResidencyFlags(p.table) /\ OneForm(p.table)
  /\ Len(p.sched.root) \in Nat /\ DOMAIN p.sched.root = 1 .. Len(p.sched.root)
  /\ SingleProducer(p.sched.root) /\ BlocksAmong(p.sched.root, p.blocks)
  /\ \A b \in p.blocks :
       /\ Len(b.steps) \in Nat /\ DOMAIN b.steps = 1 .. Len(b.steps)
       /\ Len(b.outputs) \in Nat /\ DOMAIN b.outputs = 1 .. Len(b.outputs)
       /\ OutputsDistinct(b) /\ BlocksAmong(b.steps, p.blocks)
ASSUME PlansAssumption == \A p \in Plans : p.sched.refused \/ Sound(p)

VARIABLES
  cfg,      \* what is evaluated: a member of Plans
  round,    \* the number of the current (or last) evaluation
  slots,    \* the CellRegistry's slots, per cell
  heap,     \* the content of each buffer
  store,    \* the PersistentValueStore: value id -> buffer
  skip,     \* the call-wide cache-halt skip set
  frames,   \* the stack of blocks being run; << >> between evaluations
  making,   \* the production in progress: its cell, the reads it has yet to make, its legs
  results,  \* what each evaluation returned: root -> content
  exn       \* the exception thrown, if any

vars == <<cfg, round, slots, heap, store, skip, frames, making, results, exn>>

sched == cfg.sched
batches == cfg.batches
table == cfg.table
consumers == cfg.consumers
Cell(c) == table.cells[c]
Value(v) == sched.values[v]

(***************************************************************************)
(* Contents.                                                               *)
(***************************************************************************)
Absent == 0
Constant == 1
Volatile(e) == 1 + e
Garbage == -1

Times(x, y) ==
  CASE x = Absent \/ y = Absent -> Absent
    [] x = Constant -> y
    [] y = Constant \/ x = y -> x
    [] OTHER -> Garbage
(* Accumulation: a point that already holds something must not get more.   *)
Plus(x, y) == IF x = Absent THEN y ELSE IF y = Absent THEN x ELSE Garbage
(* Sum of two operands: both have to cover the same points.                *)
Aligned(x, y) == IF (x = Absent) # (y = Absent) THEN Garbage ELSE Times(x, y)

PointsOver(modes) ==
  {p \in [modes -> 1 .. 3] : \A m \in modes : p[m] <= cfg.nb[m[1]]}
Points(v) == PointsOver(Value(v).home \cup Value(v).reduced)

Complete(v, e) ==
  [p \in Points(v) |-> IF v \in cfg.volatile THEN Volatile(e) ELSE Constant]

(***************************************************************************)
(* Buffers.  Whatever a cell, the store, an accumulator or a leg of the    *)
(* production in progress refers to is alive.                              *)
(***************************************************************************)
Held(c) == slots[c].val # NoBuf

Legs(m) == {m.legs[i].buf : i \in DOMAIN m.legs}
Referenced(ss) ==
  ({ss[c].val : c \in DOMAIN ss} \cup {store[v] : v \in DOMAIN store}
     \cup (UNION {{frames[i].acc[k] : k \in DOMAIN frames[i].acc} : i \in DOMAIN frames})
     \cup Legs(making))
  \ {NoBuf}
(* The allocator: the first buffer that is free.                           *)
Fresh(used) ==
  LET free == (1 .. Cardinality(used) + 1) \ used
  IN  CHOOSE b \in free : \A o \in free : b <= o
Written(h, b, x) == [o \in DOMAIN h \cup {b} |-> IF o = b THEN x ELSE h[o]]

(***************************************************************************)
(* The registry as the executor uses it.                                   *)
(***************************************************************************)
Throw(what) == exn' = what

(* registry.set of a buffer; a persistent cell is published to the store.  *)
SetCell(c, b) ==
  IF SetThrows(Cell(c), slots[c])
  THEN Throw("filled twice") /\ UNCHANGED <<slots, store>>
  ELSE /\ slots' = [slots EXCEPT ![c] = SetSlot(Cell(c), b)]
       /\ store' = IF Cell(c).persistent THEN [store EXCEPT ![Cell(c).vid] = b] ELSE store
       /\ UNCHANGED exn

(* Stores content x in a new buffer and sets the cell to it.               *)
ProduceCell(c, x) ==
  LET b == Fresh(Referenced(slots))
  IN  heap' = Written(heap, b, x) /\ SetCell(c, b)

(***************************************************************************)
(* Scopes and the batch context of the walk.                               *)
(***************************************************************************)
BlockStack == [i \in 1 .. Len(frames) - 1 |-> frames[i + 1].block]
ScopeHere == ScopeOf(BlockStack)
(* ordered_range_of: the current batch of the open loop k.                 *)
OpenAt(k) == {i \in 2 .. Len(frames) : frames[i].block.key = k}
BatchOf(k) == frames[CHOOSE i \in OpenAt(k) : \A j \in OpenAt(k) : i <= j].batch

BuildCellAt(vid, scope) == CellAt(table, "Build", vid, scope)
AssembleCellAt(vid, scope) == CellAt(table, "Assemble", vid, scope)
CellsOf(vid, kind) ==
  SelectSeq([c \in 1 .. Len(table.cells) |-> c],
            LAMBDA c : Cell(c).vid = vid /\ Cell(c).kind = kind)
(* CellRegistry::cell_of: Build forms are offered before Assemble forms.   *)
CellOf(vid, scope) ==
  DeepestVisibleForm(table, CellsOf(vid, "Build") \o CellsOf(vid, "Assemble"), scope)

(* The implicit per-batch build an output needs: its Assemble's source is  *)
(* a Build at the block's own scope that no step of the block builds.      *)
BuiltByStep(block, vid) ==
  \E i \in DOMAIN block.steps : IsBuild(block.steps[i]) /\ block.steps[i].vid = vid
ImplicitBuild(block, a, scope) ==
  LET s == Cell(Cell(a).source)
  IN  s.kind = "Build" /\ s.scope = scope /\ ~BuiltByStep(block, Cell(a).vid)

(***************************************************************************)
(* Skipping.                                                               *)
(***************************************************************************)
(* ordered_skip_closure: a cell whose consumers are all skipped is skipped.*)
SkipClosure(seed) ==
  LET dead[n \in 0 .. Cardinality(CellIds(table))] ==
        IF n = 0 THEN {}
        ELSE LET skipped == seed \cup dead[n - 1]
             IN  {c \in CellIds(table) : consumers[c] # {} /\ consumers[c] \subseteq skipped}
  IN  seed \cup {c \in CellIds(table) : c \in dead[Cardinality(CellIds(table))]}

(* ordered_cache_halt_skip, on the slots as seeded from the store.         *)
CacheHaltSkip(ss) ==
  SkipClosure({c \in CellIds(table) : Cell(c).persistent /\ ss[c].val # NoBuf})

(* ordered_visit_skip_seedable: a resident produce-if-absent cell that no  *)
(* batch boundary inside a visit of the block can empty.                   *)
VisitSeedable(c, parentScope) ==
  Cell(c).pia /\ BoundInstances(Cell(c)) \subseteq Keys(parentScope)
VisitSkip(outer, parentScope) ==
  LET seeds == {c \in CellIds(table) \ outer : VisitSeedable(c, parentScope) /\ Held(c)}
  IN  IF seeds = {} THEN outer ELSE SkipClosure(outer \cup seeds)

(* The productions of a block: its steps' cells, its descendants', and the *)
(* Assemble cells of its outputs.                                          *)
BlockProductions(block, parentScope) == cfg.productions[Append(parentScope, Entry(block))]
(* ordered_block_fully_skipped *)
FullySkipped(block, parentScope, vskip) == BlockProductions(block, parentScope) \subseteq vskip

(* The cells ordered_forgo_block spends the reads of: the productions, and *)
(* the implicit per-batch builds its outputs need.                         *)
DeadCells(block, parentScope) ==
  LET all == BlockProductions(block, parentScope)
  IN  all \cup {Cell(a).source : a \in {x \in all :
                  /\ Cell(x).kind = "Assemble"
                  /\ Cell(Cell(x).source).kind = "Build"}}

(* ordered_forgo_reads of every skipped production: the reads it does not  *)
(* make (elided[c, src] of them per leg) are spent, up to what their       *)
(* source has left, so that the source still reaches the end of its life.  *)
Unread(productions, elided, src) ==
  LET reads == {r \in ReadsFrom(table, src) : table.reads[r].consumer \in productions}
      assembles == {a \in productions : Cell(a).kind = "Assemble" /\ Cell(a).source = src}
  IN  MapThenSumSet(LAMBDA r : elided[table.reads[r].consumer, src], reads)
      + MapThenSumSet(LAMBDA a : elided[a, src], assembles)
UpTo(n, limit) == IF n < limit THEN n ELSE limit
ForgoReads(productions, elided) ==
  slots' = [src \in DOMAIN slots |->
              ForgoSlot(Cell(src), slots[src],
                        UpTo(Unread(productions, elided, src), slots[src].life))]

(* One visit skipped: one read per leg.                                    *)
OnePerLeg == [c, src \in CellIds(table) |-> 1]
(* Mutant: a skipped visit leaves its sources' lives alone.                *)
ForgoVisitNothing(productions) == UNCHANGED slots
ForgoVisit(productions) == ForgoReads(productions, OnePerLeg)
(* A whole block skipped: ordered_elided_reads, the reads of all the       *)
(* batches of the loops below base in the production's scope.              *)
PerLegBelow(base) ==
  [c, src \in CellIds(table) |->
     RepeatsOver(SubSeq(Cell(c).scope, base + 1, Len(Cell(c).scope)), Cell(src), batches)]
ForgoBlock(block, parentScope) ==
  ForgoReads(DeadCells(block, parentScope), PerLegBelow(Len(parentScope)))

(***************************************************************************)
(* Producing a cell (compute_cell): read the legs in order, a leaf being   *)
(* fetched at its first touch, then apply the op.  A marked sum            *)
(* accumulates into its left operand's buffer when that operand is drained.*)
(***************************************************************************)
Nothing == [cell |-> NoCell, left |-> {}, legs |-> << >>]
Making(c) == [cell |-> c, left |-> ReadsOf(table, c), legs |-> << >>]

(* What the read r of leg k sees of content x: nothing outside the current *)
(* batches of the loops that slice the read.  Of the modes of x only those *)
(* the consumer shares are left; a point that stands for several, not all  *)
(* of which hold the same, is garbage.                                     *)
Seen(x, r, k) ==
  LET reader == Value(Cell(r.consumer).vid)
      modes == Value(r.operand).home \cup Value(r.operand).reduced
      points == PointsOver(modes \cup reader.binds[k])
      at(p) == IF \E s \in r.slice : p[s[1]] # BatchOf(s[2]) THEN Absent
               ELSE x[Restrict(p, modes)]
  IN  [q \in PointsOver(reader.shared[k]) |->
         LET terms == {at(p) : p \in {o \in points : \A m \in DOMAIN q : o[m] = q[m]}}
         IN  IF Cardinality(terms) = 1 THEN CHOOSE y \in terms : TRUE ELSE Garbage]

(* The leg that read r of content x in buffer b becomes.                   *)
LegOf(r, b) ==
  [seen |-> Seen(heap[b], r, Len(making.legs) + 1), buf |-> b, operand |-> r.operand,
   source |-> r.source, whole |-> r.slice = {}]

OpContent(v, legs) ==
  LET at(i, p) == legs[i].seen[Restrict(p, Value(v).shared[i])]
  IN  [p \in Points(v) |->
        IF Value(v).diagonal THEN Garbage ELSE
        FoldLeft(LAMBDA x, i : IF Value(v).op = "sum" THEN Aligned(x, at(i, p))
                               ELSE Times(x, at(i, p)),
                 at(1, p), [i \in 1 .. Len(legs) - 1 |-> i + 1])]

(* operand_drained of the left operand: the cell its value was last served *)
(* from holds nothing and has no life left.                                *)
(* Mutant: the left operand is accumulated into whether or not drained.    *)
InPlaceUndrained(v, legs) ==
  /\ Value(v).op = "sum" /\ Value(v).inplace
  /\ ~Value(legs[1].operand).leaf
  /\ legs[1].whole
InPlace(v, legs) ==
  LET served == {i \in DOMAIN legs : legs[i].operand = legs[1].operand}
      last == legs[CHOOSE i \in served : \A j \in served : j <= i].source
  IN  /\ Value(v).op = "sum" /\ Value(v).inplace
      /\ ~Value(legs[1].operand).leaf
      /\ legs[1].whole
      /\ Drained(Cell(last), slots[last])

(***************************************************************************)
(* Steps.                                                                  *)
(***************************************************************************)
Running == frames # << >> /\ exn = "none" /\ making = Nothing
Top == frames[Len(frames)]
SetTop(f) == frames' = [frames EXCEPT ![Len(frames)] = f]
NextStep == [Top EXCEPT !.pc = @ + 1]
StepsOf(f) == IF f.phase = "root" THEN sched.root ELSE f.block.steps
AtStep == Running /\ Top.phase \in {"root", "steps"} /\ Top.pc <= Len(StepsOf(Top))
ThisStep == StepsOf(Top)[Top.pc]

RootFrame ==
  [block |-> [steps |-> << >>, outputs |-> << >>, key |-> <<0, 0>>], phase |-> "root",
   pc |-> 1, batch |-> 0, vskip |-> {}, cells |-> << >>, outSkip |-> {}, acc |-> << >>]

(* seed_persistent on a new registry, then the call-wide skip set.         *)
SeededSlots ==
  [c \in CellIds(table) |->
     IF Cell(c).persistent /\ store[Cell(c).vid] # NoBuf
     THEN SetSlot(Cell(c), store[Cell(c).vid]) ELSE InitSlot(Cell(c))]

(* Two persistent cells of one value would share one store slot.           *)
SharedStoreSlot ==
  \E c, d \in CellIds(table) :
    c # d /\ Cell(c).persistent /\ Cell(d).persistent /\ Cell(c).vid = Cell(d).vid

(* assert_valid_cell_table, and the refusal of several persistent forms    *)
StartEvaluation ==
  /\ frames = << >> /\ exn = "none" /\ round < NEvals
  /\ round' = round + 1
  /\ slots' = SeededSlots
  /\ skip' = CacheHaltSkip(SeededSlots)
  /\ frames' = <<[RootFrame EXCEPT !.vskip = CacheHaltSkip(SeededSlots)]>>
  /\ exn' = CASE ~ValidCellTable(table, batches) -> "invalid table"
              [] ValidCellTable(table, batches) /\ SharedStoreSlot -> "shared store slot"
              [] OTHER -> "none"
  /\ UNCHANGED <<cfg, heap, store, making, results>>

(***************************************************************************)
(* A production: its reads one after another, then the op.                 *)
(***************************************************************************)
Producing == making # Nothing /\ exn = "none"
Reading == Producing /\ making.left # {}
NextRead == table.reads[Min(making.left)]

(* A leaf is fetched at its first touch.                                   *)
TouchLeaf ==
  /\ Reading
  /\ \E src \in {NextRead.source} :
       /\ Cell(src).kind = "Leaf" /\ ~Held(src)
       /\ ProduceCell(src, Complete(Cell(src).vid, round))
  /\ UNCHANGED <<cfg, round, skip, frames, making, results>>

(* CellReadResolver::fetch                                                 *)
ReadLeg ==
  /\ Reading
  /\ \E src \in {NextRead.source} :
       /\ ~(Cell(src).kind = "Leaf" /\ ~Held(src))
       /\ IF ReadThrows(Cell(src), slots[src])
          THEN Throw("read of an absent or spent cell") /\ UNCHANGED <<slots, making>>
          ELSE /\ slots' = [slots EXCEPT ![src] = ReadSlot(Cell(src), @)]
               /\ making' = [making EXCEPT
                    !.left = @ \ {Min(@)},
                    !.legs = Append(@, LegOf(NextRead, slots[src].val))]
               /\ UNCHANGED exn
  /\ UNCHANGED <<cfg, round, heap, store, skip, frames, results>>

(* apply_op, and registry.set of what it made: of a step of the block, or  *)
(* of the source that the current output has built implicitly.             *)
Produce ==
  /\ Producing /\ making.left = {}
  /\ \E x \in {OpContent(Cell(making.cell).vid, making.legs)} :
       IF InPlace(Cell(making.cell).vid, making.legs)
       THEN /\ heap' = Written(heap, making.legs[1].buf, x)
            /\ SetCell(making.cell, making.legs[1].buf)
       ELSE ProduceCell(making.cell, x)
  /\ making' = Nothing
  /\ SetTop(IF Top.phase = "outputs" THEN [Top EXCEPT !.phase = "fold"] ELSE NextStep)
  /\ UNCHANGED <<cfg, round, skip, results>>

(* A resident produce-if-absent cell is reused; a skipped one is not made. *)
(* Mutant: the skip set is not consulted for a cell of a running block.    *)
ElidedIfResident(c, skipped, held) == Cell(c).pia /\ held
Elided(c, skipped, held) == (Cell(c).pia /\ held) \/ c \in skipped

StepCell == BuildCellAt(ThisStep.vid, ScopeHere)

BuildStep ==
  /\ AtStep /\ IsBuild(ThisStep)
  /\ IF StepCell = NoCell THEN Throw("no Build cell") /\ UNCHANGED making
     ELSE /\ ~Elided(StepCell, Top.vskip, Held(StepCell))
          /\ making' = Making(StepCell) /\ UNCHANGED exn
  /\ UNCHANGED <<cfg, round, slots, heap, store, skip, frames, results>>

SkipBuildStep ==
  /\ AtStep /\ IsBuild(ThisStep) /\ StepCell # NoCell
  /\ Elided(StepCell, Top.vskip, Held(StepCell))
  /\ ForgoVisit({StepCell})
  /\ SetTop(NextStep)
  /\ UNCHANGED <<cfg, round, heap, store, skip, making, results, exn>>

(* Block entry: the visit's skip set, then either the whole block is dead  *)
(* work, or its outputs' cells are resolved and its batch loop begins.     *)
SkipBlock ==
  /\ AtStep /\ ~IsBuild(ThisStep)
  /\ FullySkipped(ThisStep, ScopeHere, VisitSkip(Top.vskip, ScopeHere))
  /\ ForgoBlock(ThisStep, ScopeHere)
  /\ SetTop(NextStep)
  /\ UNCHANGED <<cfg, round, heap, store, skip, making, results, exn>>

OutputCells == [k \in DOMAIN ThisStep.outputs |->
                  AssembleCellAt(ThisStep.outputs[k][1], ScopeHere)]
FrameOf(vskip, cells) ==
  [block |-> ThisStep, phase |-> "begin", pc |-> 1, batch |-> 1, vskip |-> vskip,
   cells |-> cells,
   outSkip |-> {k \in DOMAIN cells : Elided(cells[k], vskip, Held(cells[k]))},
   acc |-> [k \in DOMAIN cells |-> NoBuf]]

EnterBlock ==
  /\ AtStep /\ ~IsBuild(ThisStep)
  /\ \E vskip \in {VisitSkip(Top.vskip, ScopeHere)}, cells \in {OutputCells} :
       /\ ~FullySkipped(ThisStep, ScopeHere, vskip)
       /\ IF NoCell \in Range(cells) THEN Throw("no Assemble cell") /\ UNCHANGED frames
          ELSE /\ frames' = Append([frames EXCEPT ![Len(frames)] = NextStep],
                                   FrameOf(vskip, cells))
               /\ UNCHANGED exn
  /\ UNCHANGED <<cfg, round, slots, heap, store, skip, making, results>>

(* A batch starts: every cell bound to this loop is emptied.               *)
BeginBatch ==
  /\ Running /\ Top.phase = "begin"
  /\ slots' = [c \in DOMAIN slots |->
                 IF ClearedBy(Cell(c), Top.block.key) THEN ClearSlot(slots[c]) ELSE slots[c]]
  /\ SetTop([Top EXCEPT !.phase = "steps", !.pc = 1])
  /\ UNCHANGED <<cfg, round, heap, store, skip, making, results, exn>>

StepsDone ==
  /\ Running /\ Top.phase = "steps" /\ Top.pc > Len(Top.block.steps)
  /\ SetTop([Top EXCEPT !.phase = "outputs", !.pc = 1])
  /\ UNCHANGED <<cfg, round, slots, heap, store, skip, making, results, exn>>

AtOutput == Running /\ Top.phase = "outputs" /\ Top.pc <= Len(Top.cells)
ThisOutputCell == Top.cells[Top.pc]

(* The read an Assemble makes of its source, after the implicit per-batch  *)
(* build when it needs one; and what it folds into the running result.     *)
Scattered(dest, part, a) ==
  LET maps == Cell(a).scatter
  IN  [p \in DOMAIN dest |->
        IF \A s \in maps : p[s[1]] = BatchOf(s[2]) THEN part[p] ELSE dest[p]]
(* make_zeros on the value's full index list.                              *)
ZerosOf(v) == [p \in Points(v) |-> Absent]

(* The buffer block output k's running result ends up in: its own once it  *)
(* has one; a Sum takes over its first partial when that read was the last *)
(* of its life; else a new one.                                            *)
AccTarget(a, prior, part, exhausted) ==
  CASE prior # NoBuf -> prior
    [] prior = NoBuf /\ Cell(a).asm = "Sum" /\ exhausted -> part
    [] OTHER -> Fresh(Referenced(slots))
Folded(a, before, x) ==
  IF Cell(a).asm = "Sum" THEN [p \in DOMAIN x |-> Plus(before[p], x[p])]
  ELSE Scattered(before, x, a)

(* The implicit per-batch build, when the output needs one.                *)
AssembleStep ==
  /\ AtOutput /\ Top.pc \notin Top.outSkip
  /\ IF ImplicitBuild(Top.block, ThisOutputCell, ScopeHere)
     THEN making' = Making(Cell(ThisOutputCell).source) /\ UNCHANGED frames
     ELSE SetTop([Top EXCEPT !.phase = "fold"]) /\ UNCHANGED making
  /\ UNCHANGED <<cfg, round, slots, heap, store, skip, results, exn>>

(* The read the Assemble makes of its source, and what it does with it.    *)
FoldStep ==
  /\ Running /\ Top.phase = "fold"
  /\ \E a \in {ThisOutputCell} : \E src \in {Cell(a).source} :
       LET prior == Top.acc[Top.pc]
           part == slots[src].val
           before == IF prior # NoBuf THEN heap[prior] ELSE ZerosOf(Cell(a).vid)
           target == AccTarget(a, prior, part, ReadExhausts(Cell(src), slots[src]))
       IN  IF ReadThrows(Cell(src), slots[src])
           THEN /\ Throw("read of an absent or spent cell")
                /\ UNCHANGED <<slots, heap, frames>>
           ELSE /\ slots' = [slots EXCEPT ![src] = ReadSlot(Cell(src), @)]
                /\ heap' = Written(heap, target, Folded(a, before, heap[part]))
                /\ SetTop([NextStep EXCEPT !.phase = "outputs", !.acc[Top.pc] = target])
                /\ UNCHANGED exn
  /\ UNCHANGED <<cfg, round, store, skip, making, results>>

SkipAssembleStep ==
  /\ AtOutput /\ Top.pc \in Top.outSkip
  /\ ForgoVisit({ThisOutputCell}
                  \cup (IF ImplicitBuild(Top.block, ThisOutputCell, ScopeHere)
                        THEN {Cell(ThisOutputCell).source} ELSE {}))
  /\ SetTop(NextStep)
  /\ UNCHANGED <<cfg, round, heap, store, skip, making, results, exn>>

OutputsDone == Running /\ Top.phase = "outputs" /\ Top.pc > Len(Top.cells)
LastBatch == Top.batch = cfg.nb[Top.block.axis]

NextBatch ==
  /\ OutputsDone /\ ~LastBatch
  /\ SetTop([Top EXCEPT !.phase = "begin", !.batch = @ + 1])
  /\ UNCHANGED <<cfg, round, slots, heap, store, skip, making, results, exn>>

BatchesDone ==
  /\ OutputsDone /\ LastBatch
  /\ SetTop([Top EXCEPT !.phase = "close", !.pc = 1])
  /\ UNCHANGED <<cfg, round, slots, heap, store, skip, making, results, exn>>

(* Block close: each running result becomes its Assemble cell's value.     *)
Closing == Running /\ Top.phase = "close"

CloseOutput ==
  /\ Closing /\ Top.pc <= Len(Top.cells)
  /\ CASE Top.pc \in Top.outSkip -> UNCHANGED <<slots, store, exn>>
       [] Top.pc \notin Top.outSkip /\ Top.acc[Top.pc] = NoBuf ->
            Throw("zero batches") /\ UNCHANGED <<slots, store>>
       [] OTHER -> SetCell(ThisOutputCell, Top.acc[Top.pc])
  /\ SetTop([NextStep EXCEPT !.acc[Top.pc] = NoBuf])
  /\ UNCHANGED <<cfg, round, heap, skip, making, results>>

LeaveBlock ==
  /\ Closing /\ Top.pc > Len(Top.cells)
  /\ frames' = SubSeq(frames, 1, Len(frames) - 1)
  /\ UNCHANGED <<cfg, round, slots, heap, store, skip, making, results, exn>>

(* The roots are peeked; the first is cloned because the combine           *)
(* accumulates the others into it in place.                                *)
RootCells == [i \in DOMAIN sched.roots |-> CellOf(sched.roots[i], << >>)]
(* Mutant: the first root is accumulated into without a clone.             *)
CombineUncloned(b) == b
CombineTarget(b) == Fresh(Referenced(slots))

(* What the combine makes of the buffer it accumulates into.               *)
Combined(b) == [p \in DOMAIN heap[b] |-> Garbage]

ReturnRoots ==
  /\ Running /\ Top.phase = "root" /\ Top.pc > Len(sched.root)
  /\ IF \E i \in DOMAIN RootCells : RootCells[i] = NoCell
     THEN Throw("root has no form") /\ UNCHANGED <<heap, results>>
     ELSE IF \E i \in DOMAIN RootCells : ~Held(RootCells[i])
     THEN Throw("root holds no result") /\ UNCHANGED <<heap, results>>
     ELSE /\ results' = Append(results, [i \in DOMAIN RootCells |-> heap[slots[RootCells[i]].val]])
          /\ \E b \in {slots[RootCells[1]].val} :
               heap' = IF Len(RootCells) = 1 THEN heap
                       ELSE Written(heap, CombineTarget(b), Combined(b))
          /\ UNCHANGED exn
  /\ frames' = << >>
  /\ UNCHANGED <<cfg, round, slots, store, skip, making>>

Init ==
  /\ cfg \in Plans
  /\ round = 0
  /\ slots = [c \in CellIds(table) |-> InitSlot(Cell(c))]
  /\ heap = << >>
  /\ store = [v \in DOMAIN sched.values |-> NoBuf]
  /\ skip = {}
  /\ frames = << >>
  /\ making = Nothing
  /\ results = << >>
  /\ exn = IF sched.refused THEN "schedule refused" ELSE "none"

Next ==
  \/ StartEvaluation
  \/ BuildStep \/ SkipBuildStep
  \/ TouchLeaf \/ ReadLeg \/ Produce
  \/ SkipBlock \/ EnterBlock
  \/ BeginBatch \/ StepsDone
  \/ AssembleStep \/ FoldStep \/ SkipAssembleStep
  \/ NextBatch \/ BatchesDone
  \/ CloseOutput \/ LeaveBlock
  \/ ReturnRoots

Spec == Init /\ [][Next]_vars
(* The walk is one sequential call, made NEvals times: it keeps going for  *)
(* as long as it has a step to take.  This is WF_vars(Next) with ENABLED   *)
(* Next written out; under [][Next]_vars a step that changes vars is Next. *)
HasStep == (exn = "none" /\ frames # << >>) \/ (frames = << >> /\ exn = "none" /\ round < NEvals)
FairSpec == Spec /\ ([]<>~HasStep \/ []<><<TRUE>>_vars)

(***************************************************************************)
(* Properties.                                                             *)
(***************************************************************************)
Phases == {"root", "begin", "steps", "outputs", "fold", "close"}
Frames ==
  [block : cfg.blocks \cup {RootFrame.block}, phase : Phases, pc : Nat \ {0}, batch : Nat,
   vskip : SUBSET CellIds(table), cells : Seq(CellIds(table)), outSkip : SUBSET Nat,
   acc : Seq(Nat \cup {NoBuf})]

TypeOK ==
  /\ round \in 0 .. NEvals
  /\ DOMAIN slots = CellIds(table)
  /\ \A c \in CellIds(table) :
       slots[c].val \in Nat \cup {NoBuf} /\ slots[c].filled \in BOOLEAN
  /\ store \in [DOMAIN sched.values -> Nat \cup {NoBuf}]
  /\ skip \subseteq CellIds(table)
  /\ frames \in Seq(Frames)
  /\ making.cell \in CellIds(table) \cup {NoCell}
  /\ making.left \subseteq ReadsOf(table, making.cell)

(* Every table the builder derives passes validate_cell_table, which the   *)
(* executor asserts before it runs (assert_valid_cell_table).              *)
DerivedTableIsValid == ValidCellTable(table, batches)

(* On a valid table the walk never throws: no read of a cell that is       *)
(* absent or past its life, no cell filled twice while live, no block      *)
(* closing an output it never assembled, and every root is there to return.*)
NeverThrows == exn = "none"

(* Everything the persistent store holds across evaluations is the         *)
(* complete value of a value without volatile inputs: never a per-batch or *)
(* half-summed form, never a buffer an accumulation wrote into.            *)
StoreIsComplete ==
  \A v \in DOMAIN store : store[v] # NoBuf =>
    /\ v \notin cfg.volatile
    /\ heap[store[v]] = Complete(v, round)

(* Cache-halt: a value published to the store is not produced again by a   *)
(* later batch or a later evaluation.                                      *)
StoredValueStands ==
  [][\A v \in DOMAIN store : store[v] # NoBuf => store'[v] = store[v]]_vars

(* An in-place accumulation (a sum into its drained left operand, a block  *)
(* assembling into its first partial, the combine into the first root)     *)
(* never writes into a buffer that a cell keeps holding.                   *)
NoWriteIntoHeldBuffer ==
  [][\A c \in DOMAIN slots :
       (Held(c) /\ slots'[c] = slots[c]) => heap'[slots[c].val] = heap[slots[c].val]]_vars

(* When an evaluation returns, the registry holds nothing but persistent   *)
(* cells, the roots, and leaves: every other cell was released at its last *)
(* declared read, performed or forgone.                                    *)
Leftover == {c \in CellIds(table) :
               Held(c) /\ ~Cell(c).persistent /\ c \notin Range(RootCells)}
Returned == frames = << >> /\ round > 0 /\ exn = "none"
IntermediatesReleased == Returned => \A c \in Leftover : Cell(c).kind = "Leaf"

(* The same for every cell: ordered_forgo_reads says a skipped production  *)
(* spends its reads "so its sources still reach the end of their declared  *)
(* lives and are released there".                                          *)
EverythingReleased == Returned => Leftover = {}

(* The executor implements the abstract evaluation: each evaluation        *)
(* terminates and returns the complete value of every root, computed from  *)
(* that evaluation's volatile inputs.                                      *)
Abstract == INSTANCE Evaluation WITH
  answers <- [e \in 1 .. NEvals |->
                [i \in DOMAIN sched.roots |-> Complete(sched.roots[i], e)]]
ImplementsEvaluation == Abstract!Spec
=============================================================================
