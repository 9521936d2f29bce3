-------------------------- MODULE CellTableBuilder --------------------------
(***************************************************************************)
(* build_cell_table (core/eval/cell_table_builder.hpp): from an ordered    *)
(* schedule (the tree of loop blocks of core/eval/ordered_schedule.hpp) to *)
(* the cell table the executor runs on.                                    *)
(*                                                                         *)
(* A schedule is a record (ScheduleBuilder!ScheduleOf makes it)            *)
(*   refused whether the schedule builder threw                            *)
(*   root    the steps of the root block                                   *)
(*   values  for each value id: [leaf, ops, home, reduced, binds, shared]  *)
(*           ops: operand value ids, one per leg of the production tree;   *)
(*           home: the modes it is sliced by; reduced: those its own       *)
(*           contraction sums over; binds: per leg, the modes of the       *)
(*           operand a loop may slice at that read; shared: those of them  *)
(*           the value has itself; diagonal: two of its modes are one loop *)
(*   roots   the value ids of the forest's roots                           *)
(* A step is [build, vid] or [block, key, lat, axis, steps, outputs]; a    *)
(* block's outputs are a sequence of <<vid, "Sum" | "Scatter">>.  A mode   *)
(* is named by its fusion stamp <<space, slot>>; a block slices the modes  *)
(* whose stamp is <<axis, slot of its key>>.                               *)
(***************************************************************************)
EXTENDS CellSlots, SequencesExt

Stamp(block) == <<block.axis, block.key[2]>>

(* slicing_instance: the outermost enclosing loop of the mode's own space  *)
(* and slot.                                                               *)
SlicingEntries(stack, mode) == {i \in DOMAIN stack : Stamp(stack[i]) = mode}
SlicingInstance(stack, mode) ==
  stack[CHOOSE i \in SlicingEntries(stack, mode) :
          \A j \in SlicingEntries(stack, mode) : i <= j].key

HasSumOutput(block, vid) ==
  \E k \in DOMAIN block.outputs : block.outputs[k] = <<vid, "Sum">>

(* volatile_of: a volatile leaf in the value's production tree.            *)
RECURSIVE IsVolatile(_, _, _)
IsVolatile(sched, vol, vid) ==
  vid \in vol \/ \E op \in Range(sched.values[vid].ops) : IsVolatile(sched, vol, op)

(* set_residency_flags: a persistence candidate is bound to no enclosing   *)
(* loop; a cell not bound to its innermost loop is produced on first visit *)
(* only.                                                                   *)
WithResidencyFlags(cell, isVolatile) ==
  LET path == cell.scope
  IN  [cell EXCEPT
        !.persistent = ~isVolatile /\ Keys(path) \cap BoundInstances(cell) = {},
        !.pia = /\ path # << >>
                /\ path[Len(path)].key \notin BoundInstances(cell)]

BlankCell(vid, kind, scope) ==
  [vid |-> vid, kind |-> kind, scope |-> scope, sliced |-> {}, partial |-> {},
   asm |-> "Sum", source |-> NoCell, scatter |-> {}, pia |-> FALSE,
   persistent |-> FALSE, life |-> 0]

(* emit_build_cell *)
BuildCell(sched, vol, vid, stack) ==
  WithResidencyFlags(
    [BlankCell(vid, "Build", ScopeOf(stack)) EXCEPT
      !.sliced = {<<m, SlicingInstance(stack, m)>> :
                   m \in {n \in sched.values[vid].home :
                            SlicingEntries(stack, n) # {}}},
      !.partial = {stack[i].key :
                    i \in {j \in DOMAIN stack : HasSumOutput(stack[j], vid)}}],
    IsVolatile(sched, vol, vid))

(* The last form of vid registered inside the child's scope, or NoCell.    *)
FormInside(cells, vid, childScope) ==
  LET inside == {c \in DOMAIN cells :
                   cells[c].vid = vid /\ Encloses(childScope, cells[c].scope)}
  IN  IF inside = {} THEN NoCell
      ELSE CHOOSE c \in inside : \A d \in inside : d <= c

(* The Assemble cell of one output of a child block that closes.           *)
(* Mutant: the sum that closes the loop stays a partial over it.           *)
AssembleCellStillPartial(sched, vol, cells, src, child, out, stack) ==
  WithResidencyFlags(
    [BlankCell(out[1], "Assemble", ScopeOf(stack)) EXCEPT
      !.asm = out[2],
      !.source = src,
      !.scatter = IF out[2] = "Sum" THEN {} ELSE {p \in cells[src].sliced : p[2] = child.key},
      !.sliced = {p \in cells[src].sliced : p[2] # child.key},
      !.partial = cells[src].partial],
    IsVolatile(sched, vol, out[1]))
AssembleCell(sched, vol, cells, src, child, out, stack) ==
  LET s == cells[src]
      here == {p \in s.sliced : p[2] = child.key}
      sum == out[2] = "Sum"
  IN  WithResidencyFlags(
        [BlankCell(out[1], "Assemble", ScopeOf(stack)) EXCEPT
          !.asm = out[2],
          !.source = src,
          !.scatter = IF sum THEN {} ELSE here,
          !.sliced = s.sliced \ here,
          !.partial = IF sum THEN s.partial \ {child.key} ELSE s.partial],
        IsVolatile(sched, vol, out[1]))

RECURSIVE EmitSteps(_, _, _, _, _)
RECURSIVE EmitOutputs(_, _, _, _, _, _)

(* One output: its source form is an in-block form, or a Build cell of its *)
(* own at the child's scope (an implicit per-batch build).                 *)
EmitOutputs(sched, vol, child, stack, cells, k) ==
  IF k > Len(child.outputs) THEN cells
  ELSE LET out == child.outputs[k]
           inner == Append(stack, child)
           found == FormInside(cells, out[1], ScopeOf(inner))
           withSrc == IF found # NoCell THEN cells
                      ELSE Append(cells, BuildCell(sched, vol, out[1], inner))
           src == IF found # NoCell THEN found ELSE Len(withSrc)
       IN  EmitOutputs(sched, vol, child, stack,
             Append(withSrc, AssembleCell(sched, vol, withSrc, src, child, out, stack)),
             k + 1)

(* emit_cells over a block's steps, in order.                              *)
EmitSteps(sched, vol, steps, stack, cells) ==
  IF steps = << >> THEN cells
  ELSE LET step == Head(steps)
           after == IF IsBuild(step)
                    THEN Append(cells, BuildCell(sched, vol, step.vid, stack))
                    ELSE EmitOutputs(sched, vol, step, stack,
                           EmitSteps(sched, vol, step.steps, Append(stack, step), cells),
                           1)
       IN  EmitSteps(sched, vol, Tail(steps), stack, after)

(* One Leaf cell per leaf that is an operand, in value-id order.           *)
LeafCells(sched, vol) ==
  LET used == {v \in DOMAIN sched.values : sched.values[v].leaf /\
                 \E w \in DOMAIN sched.values : v \in Range(sched.values[w].ops)}
  IN  [i \in 1 .. Cardinality(used) |->
        LET v == CHOOSE u \in used : Cardinality({w \in used : w < u}) = i - 1
        IN  [BlankCell(v, "Leaf", << >>) EXCEPT
               !.persistent = v \notin vol]]

(* populate_build_scope_walk: the blocks a value's operands are fetched    *)
(* under: its BuildStep's, or those of its deepest escape.                 *)
RECURSIVE ProductionStacks(_, _, _)
ProductionStacks(steps, stack, vid) ==
  UNION {IF IsBuild(steps[i])
         THEN IF steps[i].vid = vid THEN {stack} ELSE {}
         ELSE LET inner == Append(stack, steps[i])
              IN  ProductionStacks(steps[i].steps, inner, vid) \cup
                  (IF \E k \in DOMAIN steps[i].outputs : steps[i].outputs[k][1] = vid
                   THEN {inner} ELSE {})
         : i \in DOMAIN steps}
FetchStack(sched, vid) ==
  LET all == ProductionStacks(sched.root, << >>, vid)
  IN  CHOOSE s \in all : \A o \in all : Len(o) <= Len(s)

(* The read of leg i by Build cell c: the operand's form visible at c's    *)
(* scope (else its last form), sliced by every enclosing loop the consumer *)
(* is fetched under that binds a mode of the operand and that the source   *)
(* form is not already bound to; the loops that bind none are recorded     *)
(* invariant.                                                              *)
ReadOf(sched, cells, c, i) ==
  LET cell == cells[c]
      op == sched.values[cell.vid].ops[i]
      forms == SelectSeq([n \in 1 .. Len(cells) |-> n], LAMBDA n : cells[n].vid = op)
      best == DeepestVisibleForm([cells |-> cells], forms, cell.scope)
      source == IF best # NoCell THEN best ELSE forms[Len(forms)]
      s == cells[source]
      fetch == FetchStack(sched, cell.vid)
      facts == {<<Stamp(fetch[j]), fetch[j].key>> : j \in DOMAIN fetch}
      bound == sched.values[cell.vid].binds[i]
  IN  [consumer |-> c, operand |-> op, source |-> source,
       slice |-> {f \in facts : /\ f[1] \in bound
                                /\ f[2] \in Keys(cell.scope)
                                /\ f \notin s.sliced
                                /\ f[2] \notin s.partial},
       invariant |-> {f[2] : f \in {g \in facts : g[1] \notin bound}}
                       \cap BoundInstances(cell)]

AllReads(sched, cells) ==
  FoldLeftDomain(LAMBDA reads, c :
    IF cells[c].kind # "Build" THEN reads
    ELSE FoldLeftDomain(LAMBDA rs, i : Append(rs, ReadOf(sched, cells, c, i)),
                        reads, sched.values[cells[c].vid].ops),
    << >>, cells)

(* apply_persistence_frontier: a candidate all of whose consumers are      *)
(* non-volatile is demoted.                                                *)
ConsumersOf(t, c) ==
  {t.reads[r].consumer : r \in ReadsFrom(t, c)} \cup AssemblesOf(t, c)
ApplyPersistenceFrontier(sched, vol, t) ==
  [t EXCEPT !.cells =
    [c \in DOMAIN t.cells |->
      [t.cells[c] EXCEPT !.persistent =
         /\ @
         /\ \/ ConsumersOf(t, c) = {}
            \/ \E d \in ConsumersOf(t, c) : IsVolatile(sched, vol, t.cells[d].vid)]]]

(* build_cell_table: cells, reads, persistence, and last the lives.        *)
BuildCellTable(sched, vol, batches) ==
  LET cells == EmitSteps(sched, vol, sched.root, << >>, << >>) \o LeafCells(sched, vol)
      t == ApplyPersistenceFrontier(sched, vol,
             [cells |-> cells, reads |-> AllReads(sched, cells)])
  IN  [t EXCEPT !.cells =
        [c \in DOMAIN t.cells |->
          [t.cells[c] EXCEPT !.life = DeclaredReads(t, c, batches)]]]

(***************************************************************************)
(* What an evaluation is given: the batch count of each loop               *)
(* (ordered_n_batches_by_loop), the cell table, each cell's consumers, and *)
(* the productions of each block, under the scope of its steps.            *)
(***************************************************************************)
RECURSIVE BlockSites(_, _)
BlockSites(steps, scope) ==
  UNION {{[block |-> steps[i], scope |-> scope]}
           \cup BlockSites(steps[i].steps, Append(scope, Entry(steps[i]))) :
           i \in {j \in DOMAIN steps : ~IsBuild(steps[j])}}

NBatches(sites, nb) ==
  [k \in {s.block.key : s \in sites} |->
     nb[(CHOOSE s \in sites : s.block.key = k).block.axis]]

(* The cells the steps produce and those their blocks' outputs become.     *)
RECURSIVE ProductionsOf(_, _, _)
ProductionsOf(t, steps, scope) ==
  UNION {IF IsBuild(steps[i]) THEN {CellAt(t, "Build", steps[i].vid, scope)}
         ELSE ProductionsOf(t, steps[i].steps, Append(scope, Entry(steps[i])))
                \cup {CellAt(t, "Assemble", steps[i].outputs[k][1], scope) :
                        k \in DOMAIN steps[i].outputs}
         : i \in DOMAIN steps}

PlanOf(sched, vol, nb) ==
  LET sites == BlockSites(sched.root, << >>)
      inner(s) == Append(s.scope, Entry(s.block))
      nbatches == NBatches(sites, nb)
      t == BuildCellTable(sched, vol, nbatches)
  IN  [sched |-> sched, nb |-> nb, batches |-> nbatches, table |-> t,
       volatile |-> {v \in DOMAIN sched.values : IsVolatile(sched, vol, v)},
       consumers |-> [c \in CellIds(t) |-> ConsumersOf(t, c)],
       blocks |-> {s.block : s \in sites},
       productions |->
         [scope \in {inner(s) : s \in sites} |->
            LET s == CHOOSE o \in sites : inner(o) = scope
            IN  ProductionsOf(t, <<s.block>>, s.scope)]]
=============================================================================
