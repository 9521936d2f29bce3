--------------------------- MODULE ScheduleBuilder ---------------------------
(***************************************************************************)
(* analyze_legality (core/eval/legality.hpp) and build_ordered_schedule    *)
(* (core/eval/ordered_schedule.hpp): from the rich schedule of a forest    *)
(* (LoopIdentity) to the tree of loop blocks the executor walks.           *)
(*                                                                         *)
(* ScheduleOf(forest) is the record CellTableBuilder and OrderedExecutor   *)
(* take.  The loops are nested in one chain; a loop is named by its depth  *)
(* in the chain (1 is outermost, 0 stands for the root, outside every      *)
(* loop).  A plan is a record [rich, chain, axes, nests, deps, pass].      *)
(***************************************************************************)
EXTENDS LoopIdentity

CONSTANT SpaceOrder  \* the index spaces, those whose loops go outermost first

(***************************************************************************)
(* Roles of a value on its axes: the loops it is sliced by or sums over.   *)
(* An occurrence not enclosed by a loop that slices the value reads it     *)
(* assembled over that loop.                                               *)
(***************************************************************************)
AxisStamps(rich, v) ==
  HomeStamps(rich, ProductionPoint(rich, v)) \cup ContractedStamps(rich, ProductionPoint(rich, v))

AssembledPoints(rich, v, stamp) ==
  {i \in PointsOf(rich, v) : stamp \notin Range(EnclosingStamps(rich, i))}

(* classify_axis *)
RoleOf(rich, v, stamp) ==
  CASE stamp \notin HomeStamps(rich, ProductionPoint(rich, v)) -> "Reduction"
    [] AssembledPoints(rich, v, stamp) = PointsOf(rich, v) -> "Carried"
    [] OTHER -> "Local"

(***************************************************************************)
(* Topological order (topological_order_indexed): of the items whose       *)
(* predecessors are placed, the one with the least key, then the least     *)
(* index, goes next.  On a cycle the order stays short.                    *)
(***************************************************************************)
RECURSIVE InOrder(_, _, _)
InOrder(left, before, key) ==
  LET ready == {i \in left : \A e \in before : e[2] = i => e[1] \notin left}
      next == CHOOSE i \in ready : \A j \in ready :
                key[i] < key[j] \/ (key[i] = key[j] /\ i <= j)
  IN  IF ready = {} THEN << >> ELSE <<next>> \o InOrder(left \ {next}, before, key)

(***************************************************************************)
(* The chain: loops by space, then slot, reordered as the optimizer nested *)
(* them.                                                                   *)
(***************************************************************************)
CanonicalOrder(stamps) ==
  FlattenSeq([k \in DOMAIN SpaceOrder |->
    LET slots == SetToSortSeq({s[2] : s \in {t \in stamps : t[1] = SpaceOrder[k]}},
                              LAMBDA a, b : a < b)
    IN  [j \in DOMAIN slots |-> <<SpaceOrder[k], slots[j]>>]])

Chain(rich, stamps) ==
  LET canonical == CanonicalOrder(stamps)
      ids == DOMAIN canonical
      before == {e \in ids \X ids : <<canonical[e[1]], canonical[e[2]]>> \in LoopOrder(rich)}
      order == InOrder(ids, before, [d \in ids |-> 0])
  IN  [d \in DOMAIN order |-> canonical[order[d]]]

(* The optimizer's nesting has no cycle: every loop is in the chain.       *)
LoopStamps(rich) == UNION {AxisStamps(rich, v) : v \in rich.values}
ChainIsWhole(rich) == Len(Chain(rich, LoopStamps(rich))) = Cardinality(LoopStamps(rich))

AxesOf(rich, chain, v) ==
  {[depth |-> CHOOSE d \in DOMAIN chain : chain[d] = s,
    role |-> RoleOf(rich, v, s),
    assembled |-> AssembledPoints(rich, v, s)] : s \in AxisStamps(rich, v)}

DepthsOf(axes) == {a.depth : a \in axes}
Deepest(depths) == IF depths = {} THEN 0 ELSE Max(depths)

(* Loops some value has in common are nested in each other; the others are *)
(* run one nest after the other.                                           *)
NestsOf(chain, axes) ==
  FoldLeft(LAMBDA nests, mine :
             LET touched == {n \in nests : n \cap DepthsOf(mine) # {}}
             IN  (nests \ touched) \cup ({UNION touched} \ {{}}),
           {{d} : d \in DOMAIN chain}, axes)

SameNest(plan, d, e) == \E n \in plan.nests : {d, e} \subseteq n

HomeDepth(plan, v) == Deepest({a.depth : a \in {x \in plan.axes[v] : x.role = "Local"}})
(* The deepest loop a value is produced in, by any of its roles.           *)
ProductionDepth(plan, v) == Deepest(DepthsOf(plan.axes[v]))

DepsOf(rich, v) ==
  {rich.valueOf[k] : k \in Range(Production(rich, v).operands)}
Users(plan, v) == {u \in plan.rich.values : v \in plan.deps[u]}

(***************************************************************************)
(* Passes (forced_split_levels): a reader that needs the completed form of *)
(* what it reads is in a later traversal of the loops.                     *)
(***************************************************************************)
ProducedInside(plan, reader, depths) ==
  LET p == ProductionDepth(plan, reader)
  IN  \E d \in depths : p >= d /\ SameNest(plan, p, d)

ReadsAssembled(plan, reader, source) ==
  \E a \in plan.axes[source] : a.role # "Reduction" /\
    \E i \in a.assembled : /\ ~IsRoot(plan.rich.occs, i)
                           /\ plan.rich.valueOf[plan.rich.occs[i].consumer] = reader

Bumps(plan, reader, source) ==
  LET axes == plan.axes[source]
  IN  \/ \E a \in axes : a.role = "Carried"
      \/ /\ ReadsAssembled(plan, reader, source)
         /\ ProducedInside(plan, reader,
              {a.depth : a \in {x \in axes : x.role = "Local" /\ x.assembled # {}}})
      \/ ProducedInside(plan, reader,
           {a.depth : a \in {x \in axes : x.role = "Reduction"}})

(* The earliest pass of each value, operands first.                        *)
EarliestPasses(plan) ==
  FoldLeft(LAMBDA base, v :
             Append(base, Max({0} \cup {base[o] + (IF Bumps(plan, v, o) THEN 1 ELSE 0) :
                                          o \in plan.deps[v]})),
           << >>, [v \in plan.rich.values |-> v])

(* A value no reader needs completed moves to the pass of its first        *)
(* reader.                                                                 *)
Pinned(plan, v) ==
  \/ Users(plan, v) = {}
  \/ \E a \in plan.axes[v] : a.role = "Carried"
  \/ \E u \in Users(plan, v) : Bumps(plan, u, v)

PassesOf(plan) ==
  LET base == EarliestPasses(plan)
  IN  FoldLeft(LAMBDA pass, v :
                 pass @@ (v :> IF Pinned(plan, v) THEN base[v]
                               ELSE Max({base[v], Min({pass[u] : u \in Users(plan, v)})})),
               << >>, Reverse([v \in plan.rich.values |-> v]))

Plan(rich) ==
  LET chain == Chain(rich, LoopStamps(rich))
      axes == [v \in rich.values |-> AxesOf(rich, chain, v)]
      bare == [rich |-> rich, chain |-> chain, axes |-> axes,
               nests |-> NestsOf(chain, axes),
               deps |-> [v \in rich.values |-> DepsOf(rich, v)]]
  IN  bare @@ [pass |-> PassesOf(bare)]

(***************************************************************************)
(* Placement: where a value is built, and the loops it escapes when they   *)
(* close, by a sum over the batches or by scattering them.                 *)
(***************************************************************************)
LaterReaders(plan, v) == {u \in Users(plan, v) : plan.pass[u] > plan.pass[v]}

(* Some later pass of its own nest reads a value sliced by the nest.       *)
ReadAcrossSplit(plan, v) ==
  \E u \in LaterReaders(plan, v) : SameNest(plan, ProductionDepth(plan, u), HomeDepth(plan, v))

(* Mutant: only a reader in a later pass makes a slice escape its loop.    *)
EscapesAxisForPasses(plan, v, a) == a.role # "Local" \/ ReadAcrossSplit(plan, v)
EscapesAxis(plan, v, a) ==
  a.role # "Local" \/ a.assembled # {} \/ ReadAcrossSplit(plan, v)
Escapes(plan, v) ==
  {<<a.depth, IF a.role = "Reduction" THEN "Sum" ELSE "Scatter">> :
     a \in {x \in plan.axes[v] : EscapesAxis(plan, v, x)}}
EscapeDepths(plan, v) == {e[1] : e \in Escapes(plan, v)}

(* Without a build step, a value is produced where it escapes deepest.     *)
HasBuildStep(plan, v) ==
  \/ Escapes(plan, v) = {}
  \/ \E a \in plan.axes[v] : a.role = "Local" /\ EscapesAxis(plan, v, a)
BuildDepth(plan, v) == Deepest({HomeDepth(plan, v)} \cup EscapeDepths(plan, v))

ComputedValues(plan) ==
  SelectSeq([v \in plan.rich.values |-> v], LAMBDA v : plan.deps[v] # {})
BuildsAt(plan, d) ==
  SelectSeq(ComputedValues(plan),
            LAMBDA v : HasBuildStep(plan, v) /\ BuildDepth(plan, v) = d)
OutputsAt(plan, d) ==
  FlattenSeq([k \in DOMAIN ComputedValues(plan) |->
    LET v == ComputedValues(plan)[k]
    IN  IF <<d, "Sum">> \in Escapes(plan, v) THEN << <<v, "Sum">> >>
        ELSE IF <<d, "Scatter">> \in Escapes(plan, v) THEN << <<v, "Scatter">> >>
        ELSE << >>])

(***************************************************************************)
(* Steps of a block, in dependency order.  An item is a step with what it  *)
(* advertises to its siblings, what it needs, and the point it is first    *)
(* used at.                                                                *)
(***************************************************************************)
RECURSIVE ProducedBy(_)
ProducedBy(step) ==
  IF step.type = "build" THEN {step.vid}
  ELSE UNION {ProducedBy(s) : s \in Range(step.steps)} \cup {o[1] : o \in Range(step.outputs)}

Item(plan, step, advertised) ==
  LET made == ProducedBy(step)
  IN  [step |-> step, produced |-> advertised,
       needs |-> UNION {plan.deps[v] : v \in made} \ made,
       tie |-> Min({ProductionPoint(plan.rich, v) : v \in made})]
WholeItem(plan, step) == Item(plan, step, ProducedBy(step))
BuildItem(plan, v) == WholeItem(plan, [type |-> "build", vid |-> v])

(* ordered_schedule_topo_sort_steps: the producer of a value is the first  *)
(* item that advertises it.                                                *)
Sorted(items) ==
  LET ids == DOMAIN items
      producer(v) == CHOOSE i \in ids : /\ v \in items[i].produced
                                        /\ \A j \in 1 .. i - 1 : v \notin items[j].produced
      local == UNION {items[j].produced : j \in ids}
      before == UNION {{<<producer(v), i>> : v \in items[i].needs \cap local} : i \in ids}
      order == InOrder(ids, {e \in before : e[1] # e[2]}, [i \in ids |-> items[i].tie])
  IN  [k \in DOMAIN order |-> items[order[k]].step]

(* make_block *)
Block(plan, d, latitude, builds, outputs, inner) ==
  [type |-> "block", axis |-> plan.chain[d][1], key |-> <<d, plan.chain[d][2]>>,
   lat |-> latitude, outputs |-> outputs,
   steps |-> Sorted([k \in DOMAIN builds |-> BuildItem(plan, builds[k])] \o inner)]

RECURSIVE InnerItems(_, _)
InnerItems(plan, depths) ==
  IF depths = {} THEN << >>
  ELSE LET d == Min(depths)
       IN  << WholeItem(plan, Block(plan, d, 0, BuildsAt(plan, d), OutputsAt(plan, d),
                                    InnerItems(plan, depths \ {d}))) >>

(* fork_subchain: the part of already sorted steps that belongs to a pass. *)
OutputsIn(plan, outputs, pass) == SelectSeq(outputs, LAMBDA o : plan.pass[o[1]] = pass)
BuildsIn(plan, builds, pass) == SelectSeq(builds, LAMBDA v : plan.pass[v] = pass)

RECURSIVE Fork(_, _, _)
Fork(plan, steps, pass) ==
  FlattenSeq([k \in DOMAIN steps |->
    IF steps[k].type = "build"
    THEN IF plan.pass[steps[k].vid] = pass THEN <<steps[k]>> ELSE << >>
    ELSE LET mine == [steps[k] EXCEPT !.steps = Fork(plan, @, pass),
                                      !.outputs = OutputsIn(plan, @, pass)]
         IN  IF mine.steps = << >> /\ mine.outputs = << >> THEN << >> ELSE <<mine>>])

(* A forked block advertises its own outputs only.                         *)
ForkedItem(plan, step) ==
  Item(plan, step,
       IF step.type = "build" THEN {step.vid} ELSE {o[1] : o \in Range(step.outputs)})

(* A nest is one block, or one per pass at its outermost loop.             *)
NestItems(plan, nest) ==
  LET d == Min(nest)
      builds == BuildsAt(plan, d)
      outputs == OutputsAt(plan, d)
      inner == InnerItems(plan, nest \ {d})
      innerSteps == [k \in DOMAIN inner |-> inner[k].step]
      passes == SetToSortSeq(
        {plan.pass[v] : v \in UNION {Range(BuildsAt(plan, e)) : e \in nest} \cup
                              UNION {{o[1] : o \in Range(OutputsAt(plan, e))} : e \in nest}},
        LAMBDA a, b : a < b)
      passBlock(pass) ==
        LET mine == Fork(plan, innerSteps, pass)
        IN  Block(plan, d, pass, BuildsIn(plan, builds, pass), OutputsIn(plan, outputs, pass),
                  [k \in DOMAIN mine |-> ForkedItem(plan, mine[k])])
  IN  IF Len(passes) = 1
      THEN << WholeItem(plan, Block(plan, d, passes[1], builds, outputs, inner)) >>
      ELSE [k \in DOMAIN passes |-> WholeItem(plan, passBlock(passes[k]))]

RootSteps(plan) ==
  LET outermost == SelectSeq([d \in DOMAIN plan.chain |-> d],
                             LAMBDA d : \E n \in plan.nests : d = Min(n))
      builds == BuildsAt(plan, 0)
      nestAt(d) == CHOOSE n \in plan.nests : d = Min(n)
  IN  Sorted([k \in DOMAIN builds |-> BuildItem(plan, builds[k])]
             \o FlattenSeq([k \in DOMAIN outermost |-> NestItems(plan, nestAt(outermost[k]))]))

(***************************************************************************)
(* What the builder refuses.                                               *)
(***************************************************************************)
(* A slice of the value is read outside its nest, in a later pass.         *)
ReadOutsideNest(plan, v) ==
  /\ ~ReadAcrossSplit(plan, v)
  /\ \E a \in plan.axes[v] : a.role = "Local" /\ a.assembled = {}
  /\ \E u \in LaterReaders(plan, v) :
       /\ ProductionDepth(plan, u) # 0
       /\ ~SameNest(plan, ProductionDepth(plan, u), HomeDepth(plan, v))

(* A sum is read inside the loop it sums over, in the same pass.           *)
PartialSumRead(plan, v) ==
  \E e \in Escapes(plan, v), u \in Users(plan, v) :
    e[2] = "Sum" /\ plan.pass[u] = plan.pass[v] /\ ProducedInside(plan, u, {e[1]})

(* Every site a value is built or escapes at: [vid, what, path].           *)
RECURSIVE Sites(_, _)
Sites(steps, path) ==
  UNION {LET step == steps[k]
             inner == Append(path, k)
         IN  IF step.type = "build" THEN {[vid |-> step.vid, what |-> "build", path |-> path]}
             ELSE Sites(step.steps, inner) \cup
                  {[vid |-> o[1], what |-> "output", path |-> inner] : o \in Range(step.outputs)}
         : k \in DOMAIN steps}

RECURSIVE SiblingsDistinct(_)
SiblingsDistinct(steps) ==
  LET blocks == {k \in DOMAIN steps : steps[k].type = "block"}
  IN  /\ \A j, k \in blocks :
           steps[j].key = steps[k].key /\ steps[j].lat = steps[k].lat => j = k
      /\ \A k \in blocks : SiblingsDistinct(steps[k].steps)

(* well_formed: a value is built once, and all it escapes from is on the   *)
(* path to where it is built, one escape per depth.                        *)
WellFormed(root) ==
  /\ SiblingsDistinct(root)
  /\ \A s, t \in Sites(root, << >>) : s.vid = t.vid /\ s # t =>
       /\ s.what # "build" \/ t.what # "build"
       /\ s.what = "build" => IsPrefix(t.path, s.path)
       /\ s.what = "output" /\ t.what = "output" =>
            IsStrictPrefix(s.path, t.path) \/ IsStrictPrefix(t.path, s.path)

(* No topological sort met a cycle: every site is there.                   *)
AllPlaced(plan, root) ==
  Cardinality(Sites(root, << >>)) =
    MapThenSumSet(LAMBDA v : Cardinality(Escapes(plan, v))
                             + (IF HasBuildStep(plan, v) THEN 1 ELSE 0),
                  Range(ComputedValues(plan)))

Refused(plan, root) ==
  \/ \E d \in DOMAIN plan.chain : \A k \in LoopKind(plan.rich) : k[1] # plan.chain[d]
  \/ \E v \in Range(ComputedValues(plan)) : ReadOutsideNest(plan, v) \/ PartialSumRead(plan, v)
  \/ ~AllPlaced(plan, root)
  \/ ~WellFormed(root)

(***************************************************************************)
(* The schedule record.                                                    *)
(***************************************************************************)
(* The loops a value's read of an operand is matched with                  *)
(* (compute_sliced_mode_assignment): those that slice the operand itself   *)
(* and those of the modes the operand shares with the value, which the     *)
(* value is sliced on or sums over.                                        *)
SharedStamps(rich, i, j) ==
  {rich.stamps[<<i, m>>] : m \in Range(rich.occs[j].carried) \cap
                                 (rich.occs[i].home \cup Range(ReducedModes(rich.occs, i)))}
BindsOf(rich, i, j) == HomeStamps(rich, j) \cup SharedStamps(rich, i, j)

(* Two modes of one occurrence that are one loop: only the batches on the  *)
(* diagonal are ever made.                                                 *)
IsDiagonal(rich, i) ==
  \E m, n \in rich.occs[i].home \cup Range(ReducedModes(rich.occs, i)) :
    m # n /\ rich.stamps[<<i, m>>] = rich.stamps[<<i, n>>]

ValueRecord(rich, i) ==
  LET occ == rich.occs[i]
  IN  [diagonal |-> IsDiagonal(rich, i),
       leaf |-> occ.op = "leaf", op |-> occ.op,
       inplace |-> occ.op = "sum",
       ops |-> [k \in DOMAIN occ.operands |-> rich.valueOf[occ.operands[k]]],
       home |-> HomeStamps(rich, i),
       reduced |-> {rich.stamps[<<i, m>>] : m \in Range(ReducedModes(rich.occs, i))},
       binds |-> [k \in DOMAIN occ.operands |-> BindsOf(rich, i, occ.operands[k])],
       shared |-> [k \in DOMAIN occ.operands |-> SharedStamps(rich, i, occ.operands[k])]]

RootPoints(occs) == SelectSeq([i \in DOMAIN occs |-> i], LAMBDA i : IsRoot(occs, i))

(* `root` are the steps made of `plan`.                                    *)
Schedule(plan, root) ==
  [refused |-> Refused(plan, root), root |-> root,
   values |-> [v \in plan.rich.values |-> ValueRecord(plan.rich, ProductionPoint(plan.rich, v))],
   roots |-> FoldLeft(LAMBDA roots, i : Append(roots, plan.rich.valueOf[i]),
                      << >>, RootPoints(plan.rich.occs))]
Built(plan) == Schedule(plan, RootSteps(plan))

NoSchedule == [refused |-> TRUE, root |-> << >>, values |-> << >>, roots |-> << >>]

Ordered(rich) == IF ChainIsWhole(rich) THEN Built(Plan(rich)) ELSE NoSchedule
ScheduleOf(forest) == Ordered(RichSchedule(forest))
=============================================================================
