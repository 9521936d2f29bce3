----------------------- MODULE OrderedExecutorProofs -----------------------
(***************************************************************************)
(* Proofs about OrderedExecutor, for every plan the builders may derive    *)
(* and every number of evaluations: what the store holds stands, and no    *)
(* accumulation writes into a buffer that a cell keeps holding.            *)
(***************************************************************************)
EXTENDS OrderedExecutor, FiniteSetTheorems, SequenceTheorems, WellFoundedInduction, TLAPS

(***************************************************************************)
(* The inductive invariant.                                                *)
(***************************************************************************)
Record(s) == s = [val |-> s.val, life |-> s.life, filled |-> s.filled]
Records ==
  /\ \A c \in CellIds(table) : Record(slots[c])
  /\ making = [cell |-> making.cell, left |-> making.left, legs |-> making.legs]
  /\ making.legs \in Seq(Range(making.legs))
  /\ \A l \in DOMAIN making.legs : making.legs[l].buf \in Nat

(* Where the walk can be.                                                  *)
Control ==
  /\ ~sched.refused
  /\ frames # << >> => round > 0
  /\ round > 0 => ValidCellTable(table, batches) /\ ~SharedStoreSlot
  /\ making # Nothing => frames # << >>

(* Two cells never hold one buffer.                                        *)
Unshared ==
  \A c, d \in CellIds(table) : c # d /\ Held(c) => slots[c].val # slots[d].val

(* What the store holds, the persistent cell of the value holds.           *)
StoreHeld ==
  \A v \in DOMAIN store : store[v] # NoBuf =>
    \E c \in CellIds(table) :
      Cell(c).persistent /\ Cell(c).vid = v /\ slots[c].val = store[v]

(* A running result's buffer is its own.                                   *)
AccsPrivate ==
  \A i \in DOMAIN frames : \A k \in DOMAIN frames[i].acc : frames[i].acc[k] # NoBuf =>
    /\ \A c \in CellIds(table) : slots[c].val # frames[i].acc[k]
    /\ \A l \in DOMAIN making.legs : making.legs[l].buf # frames[i].acc[k]
    /\ \A j \in DOMAIN frames : \A m \in DOMAIN frames[j].acc :
         frames[j].acc[m] = frames[i].acc[k] => i = j /\ k = m

(* A leg's buffer is held by nothing but the cell it was read from.        *)
LegsPrivate ==
  \A l \in DOMAIN making.legs :
    /\ \E r \in ReadsOf(table, making.cell) :
         /\ making.legs[l].operand = table.reads[r].operand
         /\ making.legs[l].source = table.reads[r].source
    /\ \A c \in CellIds(table) :
         slots[c].val = making.legs[l].buf => c = making.legs[l].source

(* Whatever is referred to has been written.                               *)
Alive ==
  /\ \A c \in CellIds(table) : Held(c) => slots[c].val \in DOMAIN heap
  /\ \A i \in DOMAIN frames : \A k \in DOMAIN frames[i].acc :
       frames[i].acc[k] # NoBuf => frames[i].acc[k] \in DOMAIN heap
  /\ \A l \in DOMAIN making.legs : making.legs[l].buf \in DOMAIN heap

(* Cell c is where an output k of the open block i goes.                   *)
IsOutputOf(c, i, k) ==
  /\ Cell(c).kind = "Assemble"
  /\ Cell(c).vid = frames[i].block.outputs[k][1]
  /\ DOMAIN Cell(c).scope = 1 .. i - 2
BlocksOpen ==
  /\ frames # << >> => frames[1].phase = "root" /\ frames[1].vskip = skip
                       /\ frames[1].cells = << >> /\ frames[1].acc = << >>
  /\ \A i \in 2 .. Len(frames) :
       /\ frames[i].phase # "root" /\ frames[i].block \in cfg.blocks
       /\ DOMAIN frames[i].cells = DOMAIN frames[i].block.outputs
       /\ DOMAIN frames[i].acc = DOMAIN frames[i].cells
       /\ \A k \in DOMAIN frames[i].cells : IsOutputOf(frames[i].cells[k], i, k)
       /\ frames[i].phase = "fold" => frames[i].pc \in DOMAIN frames[i].cells
  /\ Len(frames) > 1 =>
       /\ frames[1].pc - 1 \in DOMAIN sched.root
       /\ ~IsBuild(sched.root[frames[1].pc - 1])
       /\ frames[2].block = sched.root[frames[1].pc - 1]

(* The production in progress is that of the top block's step, or the      *)
(* source of its output; a persistent cell is made only once.              *)
InProduction ==
  making # Nothing =>
    /\ making.cell \in CellIds(table) /\ Cell(making.cell).kind = "Build"
    /\ Cell(making.cell).persistent => ~Held(making.cell)
    /\ making.legs = << >> => making.left # {}
    /\ DOMAIN Cell(making.cell).scope = 1 .. Len(frames) - 1
    /\ \/ /\ Top.phase \in {"root", "steps"} /\ Top.pc \in DOMAIN StepsOf(Top)
          /\ IsBuild(ThisStep) /\ Cell(making.cell).vid = ThisStep.vid
       \/ Top.phase = "outputs" /\ Top.pc \in DOMAIN Top.cells

(* An output yet to be stored does not stand already.                      *)
OutputsOpen ==
  \A i \in DOMAIN frames : \A k \in DOMAIN frames[i].cells :
    /\ k \notin frames[i].outSkip
    /\ frames[i].phase = "close" => frames[i].pc <= k
    /\ Cell(frames[i].cells[k]).persistent
    => ~Held(frames[i].cells[k])

(* Step j of the root produces the cell c.                                 *)
RootProduces(j, c) ==
  /\ Cell(c).scope = << >>
  /\ \/ /\ IsBuild(sched.root[j])
        /\ Cell(c).kind = "Build" /\ Cell(c).vid = sched.root[j].vid
     \/ /\ ~IsBuild(sched.root[j]) /\ Cell(c).kind = "Assemble"
        /\ \E k \in DOMAIN sched.root[j].outputs :
             Cell(c).vid = sched.root[j].outputs[k][1]
(* What the root has yet to produce does not stand, unless it is skipped.  *)
RootPending ==
  frames # << >> =>
    \A j \in DOMAIN sched.root : frames[1].pc <= j =>
      \A c \in CellIds(table) :
        RootProduces(j, c) /\ Cell(c).persistent /\ Held(c) => c \in skip

Safe ==
  /\ Control
  /\ Unshared /\ StoreHeld /\ AccsPrivate /\ LegsPrivate /\ Alive
  /\ BlocksOpen /\ InProduction /\ OutputsOpen /\ RootPending
IInv == cfg \in Plans /\ TypeOK /\ Records /\ (exn = "none" => Safe)

(***************************************************************************)
(* Buffers.                                                                *)
(***************************************************************************)
LEMMA NatMin ==
  ASSUME NEW S \in SUBSET Nat, S # {}
  PROVE  \E x \in S : \A y \in S : x <= y
<1>1. PICK x \in S : \A y \in S : ~(<<y, x>> \in OpToRel(<, Nat))
  BY NatLessThanWellFounded, WFMin
<1>2. ASSUME NEW y \in S PROVE x <= y
  <2>1. <<y, x>> \in OpToRel(<, Nat) <=> y < x
    BY DEF OpToRel
  <2>2. ~(y < x)
    BY <1>1, <2>1
  <2> QED BY <2>2
<1> QED BY <1>2

LEMMA FreshFree ==
  ASSUME NEW used, IsFiniteSet(used)
  PROVE  Fresh(used) \in Nat \ used
<1> DEFINE n == Cardinality(used)
           free == (1 .. n + 1) \ used
<1>1. n \in Nat
  BY FS_CardinalityType
<1>2. free # {}
  <2>1. SUFFICES ASSUME 1 .. n + 1 \subseteq used PROVE FALSE
    OBVIOUS
  <2>2. Cardinality(1 .. n + 1) = n + 1
    BY <1>1, FS_Interval
  <2>3. Cardinality(1 .. n + 1) <= n
    BY <2>1, FS_Subset
  <2> QED BY <1>1, <2>2, <2>3
<1>3. \E b \in free : \A o \in free : b <= o
  <2>1. free \in SUBSET Nat
    BY <1>1
  <2> HIDE DEF free
  <2> QED BY <2>1, <1>2, NatMin
<1>4. Fresh(used) = CHOOSE b \in free : \A o \in free : b <= o
  BY DEF Fresh
<1>5. Fresh(used) \in free
  BY <1>3, <1>4
<1> QED BY <1>1, <1>5

LEMMA CellAtFacts ==
  ASSUME NEW t, CellIds(t) \subseteq Nat \ {NoCell}, NEW kind, NEW vid, NEW scope,
         NEW c, c = CellAt(t, kind, vid, scope), c # NoCell
  PROVE  /\ c \in CellIds(t)
         /\ t.cells[c].kind = kind /\ t.cells[c].vid = vid /\ t.cells[c].scope = scope
<1> DEFINE there == {d \in CellIds(t) : /\ t.cells[d].kind = kind
                                       /\ t.cells[d].vid = vid
                                       /\ t.cells[d].scope = scope}
<1>1. there # {}
  BY DEF CellAt
<1>2. \E d \in there : \A e \in there : d <= e
  BY <1>1, NatMin
<1>3. c = CHOOSE d \in there : \A e \in there : d <= e
  BY <1>1 DEF CellAt
<1>4. c \in there
  BY <1>2, <1>3
<1> QED BY <1>4

(***************************************************************************)
(* Slots: what empties one, and what fills one.                            *)
(***************************************************************************)
Emptied(cell, s, t) ==
  /\ Record(t) /\ t.filled \in BOOLEAN
  /\ t.val \in {s.val, NoBuf}
  /\ cell.persistent => t.val = s.val

LEMMA ReadEmpties ==
  ASSUME NEW cell, NEW s, Record(s), s.filled \in BOOLEAN
  PROVE  Emptied(cell, s, ReadSlot(cell, s))
<1>1. CASE cell.persistent
  BY <1>1 DEF Emptied, Record, ReadSlot, ReadExhausts
<1>2. CASE ~cell.persistent /\ ReadExhausts(cell, s)
  BY <1>2 DEF Emptied, Record, ReadSlot
<1>3. CASE ~cell.persistent /\ ~ReadExhausts(cell, s)
  <2>1. ReadSlot(cell, s) = [val |-> s.val, life |-> s.life - 1, filled |-> s.filled]
    BY <1>3 DEF Record, ReadSlot
  <2> QED BY <1>3, <2>1 DEF Emptied, Record
<1> QED BY <1>1, <1>2, <1>3

LEMMA ForgoEmpties ==
  ASSUME NEW cell, NEW s, NEW n, Record(s), s.filled \in BOOLEAN
  PROVE  Emptied(cell, s, ForgoSlot(cell, s, n))
<1>1. CASE n = 0 \/ cell.persistent
  BY <1>1 DEF Emptied, Record, ForgoSlot
<1>2. CASE ~(n = 0 \/ cell.persistent) /\ n = s.life
  BY <1>2 DEF Emptied, Record, ForgoSlot
<1>3. CASE ~(n = 0 \/ cell.persistent) /\ n # s.life
  <2>1. ForgoSlot(cell, s, n) = [val |-> s.val, life |-> s.life - n, filled |-> s.filled]
    BY <1>3 DEF Record, ForgoSlot
  <2> QED BY <1>3, <2>1 DEF Emptied, Record
<1> QED BY <1>1, <1>2, <1>3

LEMMA ClearEmpties ==
  ASSUME NEW cell, NEW s, NEW k, Record(s), s.filled \in BOOLEAN
  PROVE  Emptied(cell, s, IF ClearedBy(cell, k) THEN ClearSlot(s) ELSE s)
<1>1. CASE ClearedBy(cell, k)
  <2>0. s \in [val : {s.val}, life : {s.life}, filled : BOOLEAN]
    BY DEF Record
  <2>1. ClearSlot(s) \in [val : {NoBuf}, life : {s.life}, filled : {FALSE}]
    BY <2>0 DEF ClearSlot
  <2>2. ~cell.persistent
    BY <1>1 DEF ClearedBy
  <2> QED BY <1>1, <2>1, <2>2 DEF Emptied, Record
<1>2. CASE ~ClearedBy(cell, k)
  BY <1>2 DEF Emptied, Record
<1> QED BY <1>1, <1>2

(***************************************************************************)
(* Skipping.                                                               *)
(***************************************************************************)
LEMMA ClosureGrows ==
  ASSUME NEW seed
  PROVE  /\ seed \subseteq SkipClosure(seed)
         /\ seed \subseteq CellIds(table) => SkipClosure(seed) \subseteq CellIds(table)
<1> DEFINE D == CHOOSE dead : dead = [n \in 0 .. Cardinality(CellIds(table)) |->
                   IF n = 0 THEN {}
                   ELSE LET skipped == seed \cup dead[n - 1]
                        IN  {c \in CellIds(table) :
                               consumers[c] # {} /\ consumers[c] \subseteq skipped}]
<1>1. SkipClosure(seed) =
        seed \cup {c \in CellIds(table) : c \in D[Cardinality(CellIds(table))]}
  BY DEF SkipClosure
<1> HIDE DEF D
<1> QED BY <1>1

LEMMA VisitSkipGrows ==
  ASSUME NEW outer, NEW scope
  PROVE  /\ outer \subseteq VisitSkip(outer, scope)
         /\ outer \subseteq CellIds(table) => VisitSkip(outer, scope) \subseteq CellIds(table)
<1> DEFINE seeds == {c \in CellIds(table) \ outer : VisitSeedable(c, scope) /\ Held(c)}
<1>1. VisitSkip(outer, scope) \in {outer, SkipClosure(outer \cup seeds)}
  BY DEF VisitSkip
<1>2. seeds \subseteq CellIds(table)
  OBVIOUS
<1> HIDE DEF seeds
<1> QED BY <1>1, <1>2, ClosureGrows

(***************************************************************************)
(* What the builders guarantee of the plan being run.                      *)
(***************************************************************************)
LEMMA PlanFacts ==
  ASSUME cfg \in Plans, ~sched.refused
  PROVE  /\ IsFiniteSet(CellIds(table)) /\ CellIds(table) \subseteq Nat \ {NoCell}
         /\ IsFiniteSet(DOMAIN sched.values) /\ DOMAIN table.reads \subseteq Nat
         /\ \A c \in CellIds(table) : Cell(c).vid \in DOMAIN sched.values
         /\ \A c \in CellIds(table) : Cell(c).kind = "Build" => ReadsOf(table, c) # {}
         /\ \A c \in CellIds(table) :
              Cell(c).kind = "Assemble" => Cell(c).asm \in {"Sum", "Scatter"}
         /\ ResidencyFlags(table) /\ OneForm(table)
         /\ Len(sched.root) \in Nat /\ DOMAIN sched.root = 1 .. Len(sched.root)
         /\ SingleProducer(sched.root) /\ BlocksAmong(sched.root, cfg.blocks)
         /\ \A b \in cfg.blocks :
              /\ Len(b.steps) \in Nat /\ DOMAIN b.steps = 1 .. Len(b.steps)
              /\ Len(b.outputs) \in Nat /\ DOMAIN b.outputs = 1 .. Len(b.outputs)
              /\ OutputsDistinct(b) /\ BlocksAmong(b.steps, cfg.blocks)
<1>1. Sound(cfg)
  BY PlansAssumption DEF sched
<1> QED BY <1>1 DEF Sound, table, sched, Cell

(***************************************************************************)
(* The stack of blocks.                                                    *)
(***************************************************************************)
LEMMA SetTopFacts ==
  ASSUME NEW S, frames \in Seq(S), frames # << >>, NEW f \in S, SetTop(f)
  PROVE  /\ frames' \in Seq(S) /\ frames' # << >>
         /\ Len(frames') = Len(frames) /\ DOMAIN frames' = DOMAIN frames
         /\ \A i \in DOMAIN frames : frames'[i] = IF i = Len(frames) THEN f ELSE frames[i]
         /\ Top' = f
<1>1. Len(frames) \in Nat /\ DOMAIN frames = 1 .. Len(frames) /\ Len(frames) # 0
  BY EmptySeq, LenProperties
<1>2. Len(frames) \in DOMAIN frames
  BY <1>1
<1> QED BY <1>1, <1>2, ExceptSeq DEF SetTop, Top

LEMMA TopFacts ==
  ASSUME NEW S, frames \in Seq(S), frames # << >>
  PROVE  /\ Len(frames) \in Nat \ {0} /\ DOMAIN frames = 1 .. Len(frames)
         /\ Len(frames) \in DOMAIN frames /\ Top \in S /\ Top = frames[Len(frames)]
         /\ 1 \in DOMAIN frames
<1>1. Len(frames) \in Nat /\ DOMAIN frames = 1 .. Len(frames) /\ Len(frames) # 0
  BY EmptySeq, LenProperties
<1> QED BY <1>1, ElementOfSeq DEF Top

(***************************************************************************)
(* What the steps have in common.                                          *)
(***************************************************************************)
SlotsOK ==
  /\ DOMAIN slots = CellIds(table)
  /\ \A c \in CellIds(table) : /\ Record(slots[c]) /\ slots[c].filled \in BOOLEAN
                              /\ slots[c].val \in Nat \cup {NoBuf}
StoreOK == store \in [DOMAIN sched.values -> Nat \cup {NoBuf}]

Emptying ==
  /\ DOMAIN slots' = DOMAIN slots
  /\ \A c \in CellIds(table) : Emptied(Cell(c), slots[c], slots'[c])

LEMMA Static ==
  ASSUME cfg' = cfg
  PROVE  /\ sched' = sched /\ table' = table /\ batches' = batches /\ consumers' = consumers
         /\ CellIds(table)' = CellIds(table)
         /\ \A c : Cell(c)' = Cell(c)
BY DEF sched, table, batches, consumers, Cell, CellIds

LEMMA SlotsFacts ==
  ASSUME TypeOK, Records
  PROVE  SlotsOK /\ StoreOK
BY DEF TypeOK, Records, SlotsOK, StoreOK

(* Slots that only lose buffers, and no persistent one of them.            *)
LEMMA EmptyingKeeps ==
  ASSUME SlotsOK, Emptying, cfg' = cfg, store' = store
  PROVE  /\ SlotsOK' /\ (StoreOK => StoreOK')
         /\ \A c \in CellIds(table) : Held(c)' => Held(c) /\ slots'[c].val = slots[c].val
         /\ Unshared => Unshared'
         /\ StoreHeld => StoreHeld'
<1>1. /\ sched' = sched /\ table' = table /\ CellIds(table)' = CellIds(table)
      /\ \A c : Cell(c)' = Cell(c)
  BY Static
<1>2. \A c \in CellIds(table) :
        /\ Record(slots'[c]) /\ slots'[c].filled \in BOOLEAN
        /\ slots'[c].val \in {slots[c].val, NoBuf}
        /\ Cell(c).persistent => slots'[c].val = slots[c].val
  BY DEF Emptying, Emptied
<1>3. SlotsOK'
  BY <1>1, <1>2 DEF SlotsOK, Emptying, Record
<1>4. StoreOK => StoreOK'
  BY <1>1 DEF StoreOK
<1>5. \A c \in CellIds(table) : Held(c)' => Held(c) /\ slots'[c].val = slots[c].val
  BY <1>2 DEF Held
<1>6. Unshared => Unshared'
  BY <1>1, <1>2 DEF Unshared, Held
<1>7. StoreHeld => StoreHeld'
  BY <1>1, <1>2 DEF StoreHeld
<1> QED BY <1>3, <1>4, <1>5, <1>6, <1>7

(* The types of the frames, and of the production.                         *)
FramesOK ==
  /\ frames \in Seq(Frames)
  /\ Len(frames) \in Nat /\ DOMAIN frames = 1 .. Len(frames)
  /\ \A i \in DOMAIN frames :
       /\ frames[i] \in Frames /\ frames[i].pc \in Nat \ {0}
       /\ \A k \in DOMAIN frames[i].cells : frames[i].cells[k] \in CellIds(table)
       /\ \A k \in DOMAIN frames[i].acc : frames[i].acc[k] \in Nat \cup {NoBuf}
       /\ Len(frames[i].cells) \in Nat /\ DOMAIN frames[i].cells = 1 .. Len(frames[i].cells)
       /\ Len(frames[i].acc) \in Nat /\ DOMAIN frames[i].acc = 1 .. Len(frames[i].acc)

LEMMA FramesFacts ==
  ASSUME TypeOK
  PROVE  FramesOK
<1>1. frames \in Seq(Frames)
  BY DEF TypeOK
<1>2. Len(frames) \in Nat /\ DOMAIN frames = 1 .. Len(frames)
  BY <1>1, LenProperties
<1>3. ASSUME NEW f \in Frames
      PROVE  /\ f.pc \in Nat \ {0} /\ Len(f.cells) \in Nat /\ Len(f.acc) \in Nat
             /\ DOMAIN f.cells = 1 .. Len(f.cells) /\ DOMAIN f.acc = 1 .. Len(f.acc)
             /\ \A k \in DOMAIN f.cells : f.cells[k] \in CellIds(table)
             /\ \A k \in DOMAIN f.acc : f.acc[k] \in Nat \cup {NoBuf}
  <2>1. f.pc \in Nat \ {0} /\ f.cells \in Seq(CellIds(table)) /\ f.acc \in Seq(Nat \cup {NoBuf})
    BY DEF Frames
  <2> QED BY <2>1, LenProperties, ElementOfSeq
<1>4. \A i \in DOMAIN frames : frames[i] \in Frames
  BY <1>1, <1>2, ElementOfSeq
<1> QED BY <1>1, <1>2, <1>3, <1>4 DEF FramesOK

MakingOK ==
  /\ making = [cell |-> making.cell, left |-> making.left, legs |-> making.legs]
  /\ making.cell \in CellIds(table) \cup {NoCell}
  /\ making.left \subseteq ReadsOf(table, making.cell)
  /\ making.legs \in Seq(Range(making.legs))
  /\ \A l \in DOMAIN making.legs : making.legs[l].buf \in Nat

LEMMA InvParts ==
  ASSUME IInv
  PROVE  /\ cfg \in Plans /\ SlotsOK /\ StoreOK /\ FramesOK /\ MakingOK
         /\ round \in 0 .. NEvals /\ skip \subseteq CellIds(table)
         /\ exn = "none" => Safe
<1>1. TypeOK /\ Records /\ cfg \in Plans /\ (exn = "none" => Safe)
  BY DEF IInv
<1> QED BY <1>1, FramesFacts, SlotsFacts DEF TypeOK, Records, MakingOK

LEMMA InvNext ==
  ASSUME cfg' \in Plans, SlotsOK', StoreOK', frames' \in Seq(Frames'), MakingOK',
         round' \in 0 .. NEvals, skip' \subseteq CellIds(table)', exn' = "none" => Safe'
  PROVE  IInv'
<1>1. TypeOK' /\ Records'
  BY DEF TypeOK, Records, MakingOK, SlotsOK, StoreOK
<1> QED BY <1>1 DEF IInv

(* What no step may do.                                                    *)
StoreStands == \A v \in DOMAIN store : store[v] # NoBuf => store'[v] = store[v]
HeldUnwritten ==
  \A c \in DOMAIN slots :
    (Held(c) /\ slots'[c].val = slots[c].val) => heap'[slots[c].val] = heap[slots[c].val]
Good == IInv' /\ StoreStands /\ HeldUnwritten

(***************************************************************************)
(* Steps that make nothing: they only empty slots and move on.             *)
(***************************************************************************)
KeepsBlock(f) ==
  /\ f \in Frames /\ SetTop(f)
  /\ f.block = Top.block /\ f.cells = Top.cells
  /\ f.vskip = Top.vskip /\ f.outSkip = Top.outSkip
  /\ DOMAIN f.acc = DOMAIN Top.acc
  /\ f.phase = "root" <=> Top.phase = "root"
  /\ f.phase = "root" => f.acc = Top.acc
  /\ f.phase = "fold" => f.pc \in DOMAIN f.cells
MovesTo(f) ==
  /\ KeepsBlock(f) /\ f.acc = Top.acc /\ Top.phase # "close"
  /\ f.phase = "root" => Top.pc <= f.pc

(* The top block moves on, and stays the block it is.                      *)
LEMMA TopMoved ==
  ASSUME cfg' = cfg, skip' = skip, frames \in Seq(Frames), frames # << >>, BlocksOpen,
         NEW f, KeepsBlock(f)
  PROVE  /\ frames' \in Seq(Frames') /\ frames' # << >> /\ Len(frames') = Len(frames)
         /\ DOMAIN frames' = DOMAIN frames /\ Top' = f
         /\ \A i \in DOMAIN frames : frames'[i] = IF i = Len(frames) THEN f ELSE frames[i]
         /\ Len(frames) \in Nat \ {0} /\ DOMAIN frames = 1 .. Len(frames)
         /\ Top = frames[Len(frames)] /\ Len(frames) \in DOMAIN frames /\ 1 \in DOMAIN frames
         /\ \A i \in DOMAIN frames :
              /\ frames'[i].block = frames[i].block /\ frames'[i].cells = frames[i].cells
              /\ frames'[i].vskip = frames[i].vskip /\ frames'[i].outSkip = frames[i].outSkip
              /\ DOMAIN frames'[i].acc = DOMAIN frames[i].acc
              /\ i # Len(frames) \/ f.acc = Top.acc => frames'[i].acc = frames[i].acc
              /\ frames'[i].phase = "root" <=> frames[i].phase = "root"
         /\ BlocksOpen'
<1>2. /\ sched' = sched /\ table' = table /\ CellIds(table)' = CellIds(table)
      /\ \A c : Cell(c)' = Cell(c)
  BY Static
<1>4. f \in Frames
  BY DEF KeepsBlock
<1>5. /\ frames' \in Seq(Frames) /\ frames' # << >> /\ Len(frames') = Len(frames)
      /\ DOMAIN frames' = DOMAIN frames /\ Top' = f
      /\ \A i \in DOMAIN frames : frames'[i] = IF i = Len(frames) THEN f ELSE frames[i]
  BY <1>4, SetTopFacts DEF KeepsBlock
<1>6. /\ Len(frames) \in Nat \ {0} /\ DOMAIN frames = 1 .. Len(frames)
      /\ Top = frames[Len(frames)] /\ Len(frames) \in DOMAIN frames /\ 1 \in DOMAIN frames
  BY <1>4, TopFacts
<1>7. \A i \in DOMAIN frames :
        /\ frames'[i].block = frames[i].block /\ frames'[i].cells = frames[i].cells
        /\ frames'[i].vskip = frames[i].vskip /\ frames'[i].outSkip = frames[i].outSkip
        /\ DOMAIN frames'[i].acc = DOMAIN frames[i].acc
        /\ i # Len(frames) \/ f.acc = Top.acc => frames'[i].acc = frames[i].acc
        /\ frames'[i].phase = "root" <=> frames[i].phase = "root"
        /\ frames'[i].phase = "root" => frames'[i].acc = frames[i].acc
  BY <1>5, <1>6 DEF KeepsBlock
<1>8. frames' \in Seq(Frames')
  BY <1>2, <1>5 DEF Frames, RootFrame
<1>14. BlocksOpen'
  <2>2. \A i, k, c : IsOutputOf(c, i, k) /\ i \in DOMAIN frames => IsOutputOf(c, i, k)'
    BY <1>2, <1>7 DEF IsOutputOf
  <2>3. \A i \in DOMAIN frames :
          frames'[i].phase = "fold" =>
            \/ frames'[i].phase = frames[i].phase /\ frames'[i].pc = frames[i].pc
            \/ frames'[i].pc \in DOMAIN frames'[i].cells
    BY <1>5 DEF KeepsBlock
  <2>4. ASSUME Len(frames) > 1 PROVE frames'[1].pc = frames[1].pc
    BY <2>4, <1>5, <1>6
  <2>5. /\ frames'[1].phase = "root" /\ frames'[1].vskip = skip
        /\ frames'[1].cells = << >> /\ frames'[1].acc = << >>
    BY <1>4, <1>6, <1>7 DEF BlocksOpen
  <2>6. ASSUME NEW i \in 2 .. Len(frames')
        PROVE  /\ frames'[i].phase # "root" /\ frames'[i].block \in cfg'.blocks
               /\ DOMAIN frames'[i].cells = DOMAIN frames'[i].block.outputs
               /\ DOMAIN frames'[i].acc = DOMAIN frames'[i].cells
               /\ \A k \in DOMAIN frames'[i].cells : IsOutputOf(frames[i].cells[k], i, k)
               /\ frames'[i].phase = "fold" => frames'[i].pc \in DOMAIN frames'[i].cells
    <3>1. i \in 2 .. Len(frames) /\ i \in DOMAIN frames
      BY <1>5, <1>6
    <3>2. /\ frames[i].phase # "root" /\ frames[i].block \in cfg.blocks
          /\ DOMAIN frames[i].cells = DOMAIN frames[i].block.outputs
          /\ DOMAIN frames[i].acc = DOMAIN frames[i].cells
          /\ \A k \in DOMAIN frames[i].cells : IsOutputOf(frames[i].cells[k], i, k)
          /\ frames[i].phase = "fold" => frames[i].pc \in DOMAIN frames[i].cells
      BY <3>1 DEF BlocksOpen
    <3> QED BY <3>1, <3>2, <2>3, <1>7
  <2>7. Len(frames') > 1 =>
          /\ frames'[1].pc - 1 \in DOMAIN sched.root
          /\ ~IsBuild(sched.root[frames'[1].pc - 1])
          /\ frames'[2].block = sched.root[frames'[1].pc - 1]
    BY <2>4, <1>5, <1>6, <1>7 DEF BlocksOpen
  <2> QED BY <2>2, <2>5, <2>6, <2>7, <1>2, <1>5, <1>6, <1>7 DEF BlocksOpen
<1> QED BY <1>5, <1>6, <1>7, <1>8, <1>14

LEMMA QuietStep ==
  ASSUME IInv, Running, Emptying, NEW f, MovesTo(f),
         UNCHANGED <<cfg, round, heap, store, skip, making, exn>>
  PROVE  Good
<1>1. /\ cfg \in Plans /\ SlotsOK /\ StoreOK /\ FramesOK /\ MakingOK /\ Safe
      /\ round \in 0 .. NEvals /\ skip \subseteq CellIds(table)
  BY InvParts DEF Running
<1>2. /\ sched' = sched /\ table' = table /\ batches' = batches
      /\ CellIds(table)' = CellIds(table) /\ \A c : Cell(c)' = Cell(c)
  BY Static
<1>3. /\ SlotsOK' /\ StoreOK' /\ Unshared' /\ StoreHeld'
      /\ \A c \in CellIds(table) : Held(c)' => Held(c) /\ slots'[c].val = slots[c].val
  BY <1>1, EmptyingKeeps DEF Safe
<1>4. frames # << >> /\ making = Nothing /\ f \in Frames /\ frames \in Seq(Frames)
  BY <1>1 DEF Running, MovesTo, KeepsBlock, FramesOK
<1>5. /\ frames' \in Seq(Frames) /\ frames' # << >> /\ Len(frames') = Len(frames)
      /\ DOMAIN frames' = DOMAIN frames /\ Top' = f
      /\ \A i \in DOMAIN frames : frames'[i] = IF i = Len(frames) THEN f ELSE frames[i]
      /\ Len(frames) \in Nat \ {0} /\ DOMAIN frames = 1 .. Len(frames)
      /\ Top = frames[Len(frames)] /\ Len(frames) \in DOMAIN frames /\ 1 \in DOMAIN frames
      /\ frames' \in Seq(Frames') /\ BlocksOpen'
      /\ \A i \in DOMAIN frames :
           /\ frames'[i].block = frames[i].block /\ frames'[i].cells = frames[i].cells
           /\ frames'[i].vskip = frames[i].vskip /\ frames'[i].outSkip = frames[i].outSkip
           /\ frames'[i].acc = frames[i].acc
           /\ frames'[i].phase = "root" <=> frames[i].phase = "root"
  BY <1>1, <1>4, TopMoved DEF MovesTo, Safe
<1>9. MakingOK' /\ DOMAIN making.legs = {}
  BY <1>1, <1>2, <1>4 DEF MakingOK, Nothing
<1>10. Control'
  BY <1>1, <1>2, <1>4 DEF Safe, Control, SharedStoreSlot
<1>11. AccsPrivate'
  <2>1. AccsPrivate
    BY <1>1 DEF Safe
  <2> QED BY <2>1, <1>2, <1>3, <1>5, <1>9 DEF AccsPrivate, Held
<1>12. LegsPrivate'
  BY <1>9 DEF LegsPrivate
<1>13. Alive'
  <2>1. Alive
    BY <1>1 DEF Safe
  <2> QED BY <2>1, <1>2, <1>3, <1>5, <1>9 DEF Alive
<1>15. InProduction'
  BY <1>4 DEF InProduction, Nothing
<1>16. OutputsOpen'
  <2>1. OutputsOpen
    BY <1>1 DEF Safe
  <2>2. \A i \in DOMAIN frames :
          frames[i].phase = "close" => frames'[i].phase = "close" /\ frames'[i].pc = frames[i].pc
    BY <1>5 DEF MovesTo, KeepsBlock
  <2>3. \A i \in DOMAIN frames : \A k \in DOMAIN frames[i].cells :
          frames[i].cells[k] \in CellIds(table)
    BY <1>1 DEF FramesOK
  <2>4. SUFFICES ASSUME NEW i \in DOMAIN frames', NEW k \in DOMAIN frames'[i].cells,
                        k \notin frames'[i].outSkip,
                        frames'[i].phase = "close" => frames'[i].pc <= k,
                        table'.cells[frames'[i].cells[k]].persistent
                 PROVE  slots'[frames'[i].cells[k]].val = NoBuf
    BY DEF OutputsOpen, Held, Cell
  <2>5. /\ i \in DOMAIN frames /\ k \in DOMAIN frames[i].cells
        /\ frames'[i].cells[k] = frames[i].cells[k] /\ k \notin frames[i].outSkip
    BY <2>4, <1>5
  <2>6. frames[i].phase = "close" => frames[i].pc <= k
    BY <2>2, <2>4, <2>5
  <2>7. Cell(frames[i].cells[k]).persistent
    BY <2>4, <2>5, <1>2 DEF Cell
  <2>8. ~Held(frames[i].cells[k])
    BY <2>1, <2>5, <2>6, <2>7 DEF OutputsOpen
  <2> QED BY <2>3, <2>5, <2>8, <1>3 DEF Held
<1>17. RootPending'
  <2>1. RootPending /\ BlocksOpen
    BY <1>1 DEF Safe
  <2>2. frames[1].pc <= frames'[1].pc
    BY <1>1, <1>5, <2>1 DEF MovesTo, KeepsBlock, BlocksOpen, FramesOK
  <2>3. \A j, c : RootProduces(j, c)' <=> RootProduces(j, c)
    BY <1>2 DEF RootProduces
  <2>4. Len(sched.root) \in Nat /\ DOMAIN sched.root = 1 .. Len(sched.root)
    BY <1>1, PlanFacts DEF Safe, Control
  <2>5. frames[1].pc \in Nat /\ frames'[1].pc \in Nat
    BY <1>1, <1>5 DEF FramesOK, MovesTo, KeepsBlock, Frames
  <2>6. SUFFICES ASSUME NEW j \in DOMAIN sched.root, frames'[1].pc <= j,
                        NEW c \in CellIds(table), RootProduces(j, c),
                        Cell(c).persistent, slots'[c].val # NoBuf
                 PROVE  c \in skip
    BY <2>3, <1>2 DEF RootPending, Held
  <2>7. Held(c) /\ frames[1].pc <= j
    BY <2>2, <2>4, <2>5, <2>6, <1>3 DEF Held
  <2> QED BY <2>1, <2>6, <2>7, <1>4 DEF RootPending
<1>18. Safe'
  BY <1>3, <1>10, <1>11, <1>12, <1>13, <1>5, <1>15, <1>16, <1>17 DEF Safe
<1>19. IInv'
  BY <1>1, <1>2, <1>3, <1>5, <1>9, <1>18, InvNext
<1> QED BY <1>19 DEF Good, StoreStands, HeldUnwritten

LEMMA ForgoReadsEmpties ==
  ASSUME SlotsOK, NEW productions, NEW elided, ForgoReads(productions, elided)
  PROVE  Emptying
<1>1. SUFFICES ASSUME NEW c \in CellIds(table)
      PROVE  Emptied(Cell(c), slots[c], slots'[c])
  BY DEF Emptying, ForgoReads
<1>2. slots'[c] = ForgoSlot(Cell(c), slots[c],
                            UpTo(Unread(productions, elided, c), slots[c].life))
  BY DEF ForgoReads, SlotsOK
<1>3. Record(slots[c]) /\ slots[c].filled \in BOOLEAN
  BY DEF SlotsOK
<1> QED BY <1>2, <1>3, ForgoEmpties

LEMMA NoneEmpties ==
  ASSUME SlotsOK, slots' = slots
  PROVE  Emptying
BY DEF Emptying, Emptied, SlotsOK

LEMMA RunningFacts ==
  ASSUME IInv, Running
  PROVE  /\ cfg \in Plans /\ SlotsOK /\ StoreOK /\ FramesOK /\ MakingOK /\ Safe
         /\ round \in 0 .. NEvals /\ skip \subseteq CellIds(table) /\ exn = "none"
         /\ frames # << >> /\ making = Nothing /\ frames \in Seq(Frames)
         /\ Top \in Frames /\ Top = frames[Len(frames)]
         /\ Len(frames) \in Nat \ {0} /\ DOMAIN frames = 1 .. Len(frames)
         /\ Top.pc \in Nat \ {0} /\ Top.batch \in Nat /\ Top.phase \in Phases
<1>1. /\ cfg \in Plans /\ SlotsOK /\ StoreOK /\ FramesOK /\ MakingOK /\ Safe
      /\ round \in 0 .. NEvals /\ skip \subseteq CellIds(table) /\ exn = "none"
      /\ frames # << >> /\ making = Nothing
  BY InvParts DEF Running
<1>2. frames \in Seq(Frames)
  BY <1>1 DEF FramesOK
<1>3. /\ Len(frames) \in Nat \ {0} /\ DOMAIN frames = 1 .. Len(frames)
      /\ Top \in Frames /\ Top = frames[Len(frames)]
  BY <1>1, <1>2, TopFacts
<1>4. Top.pc \in Nat \ {0} /\ Top.batch \in Nat /\ Top.phase \in Phases
  BY <1>3 DEF Frames
<1> QED BY <1>1, <1>2, <1>3, <1>4

LEMMA NextStepMoves ==
  ASSUME IInv, Running, Top.phase \in {"root", "steps", "outputs"}
  PROVE  /\ NextStep \in Frames /\ NextStep.pc = Top.pc + 1 /\ NextStep.phase = Top.phase
         /\ NextStep.block = Top.block /\ NextStep.cells = Top.cells /\ NextStep.acc = Top.acc
         /\ NextStep.vskip = Top.vskip /\ NextStep.outSkip = Top.outSkip
         /\ SetTop(NextStep) => MovesTo(NextStep)
<1>1. Top \in Frames /\ Top.pc \in Nat \ {0} /\ Top.pc + 1 \in Nat \ {0}
  BY RunningFacts
<1>2. /\ NextStep \in Frames /\ NextStep.pc = Top.pc + 1 /\ NextStep.phase = Top.phase
      /\ NextStep.block = Top.block /\ NextStep.cells = Top.cells /\ NextStep.acc = Top.acc
      /\ NextStep.vskip = Top.vskip /\ NextStep.outSkip = Top.outSkip
  BY <1>1 DEF NextStep, Frames
<1> QED BY <1>1, <1>2 DEF MovesTo, KeepsBlock

(* A new phase of the top block.                                           *)
LEMMA PhaseMoves ==
  ASSUME IInv, Running, Top.phase \notin {"root", "close"},
         NEW ph \in {"begin", "steps", "outputs", "fold", "close"}, NEW f,
         \/ f = [Top EXCEPT !.phase = ph]
         \/ f = [Top EXCEPT !.phase = ph, !.pc = 1]
         \/ f = [Top EXCEPT !.phase = ph, !.batch = @ + 1],
         ph = "fold" => f.pc \in DOMAIN f.cells, SetTop(f)
  PROVE  MovesTo(f) /\ f \in Frames
<1>1. Top \in Frames /\ Top.batch + 1 \in Nat /\ ph \in Phases
  BY RunningFacts DEF Phases
<1>2. /\ f \in Frames /\ f.block = Top.block /\ f.cells = Top.cells /\ f.acc = Top.acc
      /\ f.vskip = Top.vskip /\ f.outSkip = Top.outSkip /\ f.phase = ph
  <2>1. CASE f = [Top EXCEPT !.phase = ph]
    BY <1>1, <2>1 DEF Frames
  <2>2. CASE f = [Top EXCEPT !.phase = ph, !.pc = 1]
    <3> DEFINE n == 1
    <3>1. n \in Nat \ {0} /\ f = [Top EXCEPT !.phase = ph, !.pc = n]
      BY <2>2
    <3> HIDE DEF n
    <3> QED BY <1>1, <3>1 DEF Frames
  <2>3. CASE f = [Top EXCEPT !.phase = ph, !.batch = @ + 1]
    BY <1>1, <2>3 DEF Frames
  <2> QED BY <2>1, <2>2, <2>3
<1> QED BY <1>2 DEF MovesTo, KeepsBlock

LEMMA SkipBuildStepGood ==
  ASSUME IInv, SkipBuildStep
  PROVE  Good
<1>1. Running /\ Top.phase \in {"root", "steps"}
  BY DEF SkipBuildStep, AtStep
<1>2. Emptying
  BY <1>1, RunningFacts, ForgoReadsEmpties DEF SkipBuildStep, ForgoVisit
<1>3. MovesTo(NextStep)
  BY <1>1, NextStepMoves DEF SkipBuildStep
<1> QED BY <1>1, <1>2, <1>3, QuietStep DEF SkipBuildStep

LEMMA SkipBlockGood ==
  ASSUME IInv, SkipBlock
  PROVE  Good
<1>1. Running /\ Top.phase \in {"root", "steps"}
  BY DEF SkipBlock, AtStep
<1>2. Emptying
  BY <1>1, RunningFacts, ForgoReadsEmpties DEF SkipBlock, ForgoBlock
<1>3. MovesTo(NextStep)
  BY <1>1, NextStepMoves DEF SkipBlock
<1> QED BY <1>1, <1>2, <1>3, QuietStep DEF SkipBlock

LEMMA SkipAssembleStepGood ==
  ASSUME IInv, SkipAssembleStep
  PROVE  Good
<1>1. Running /\ Top.phase = "outputs"
  BY DEF SkipAssembleStep, AtOutput
<1>2. Emptying
  BY <1>1, RunningFacts, ForgoReadsEmpties DEF SkipAssembleStep, ForgoVisit
<1>3. MovesTo(NextStep)
  BY <1>1, NextStepMoves DEF SkipAssembleStep
<1> QED BY <1>1, <1>2, <1>3, QuietStep DEF SkipAssembleStep

LEMMA BeginBatchGood ==
  ASSUME IInv, BeginBatch
  PROVE  Good
<1> DEFINE f == [Top EXCEPT !.phase = "steps", !.pc = 1]
<1>1. Running /\ Top.phase = "begin"
  BY DEF BeginBatch
<1>2. SlotsOK /\ Top \in Frames
  BY <1>1, RunningFacts
<1>3. Emptying
  <2>1. SUFFICES ASSUME NEW c \in CellIds(table)
        PROVE  Emptied(Cell(c), slots[c], slots'[c])
    BY DEF Emptying, BeginBatch
  <2>2. slots'[c] = IF ClearedBy(Cell(c), Top.block.key) THEN ClearSlot(slots[c]) ELSE slots[c]
    BY <1>2 DEF BeginBatch, SlotsOK
  <2> QED BY <1>2, <2>2, ClearEmpties DEF SlotsOK
<1>4. MovesTo(f)
  BY <1>1, PhaseMoves DEF BeginBatch
<1> HIDE DEF f
<1> QED BY <1>1, <1>3, <1>4, QuietStep DEF BeginBatch

LEMMA StepsDoneGood ==
  ASSUME IInv, StepsDone
  PROVE  Good
<1> DEFINE f == [Top EXCEPT !.phase = "outputs", !.pc = 1]
<1>1. Running /\ Top.phase = "steps"
  BY DEF StepsDone
<1>2. SlotsOK /\ Top \in Frames
  BY <1>1, RunningFacts
<1>3. Emptying
  BY <1>2, NoneEmpties DEF StepsDone
<1>4. MovesTo(f)
  BY <1>1, PhaseMoves DEF StepsDone
<1> HIDE DEF f
<1> QED BY <1>1, <1>3, <1>4, QuietStep DEF StepsDone

LEMMA NextBatchGood ==
  ASSUME IInv, NextBatch
  PROVE  Good
<1> DEFINE f == [Top EXCEPT !.phase = "begin", !.batch = @ + 1]
<1>1. Running /\ Top.phase = "outputs"
  BY DEF NextBatch, OutputsDone
<1>2. SlotsOK /\ Top \in Frames /\ Top.batch + 1 \in Nat
  BY <1>1, RunningFacts
<1>3. Emptying
  BY <1>2, NoneEmpties DEF NextBatch
<1>4. MovesTo(f)
  BY <1>1, PhaseMoves DEF NextBatch
<1> HIDE DEF f
<1> QED BY <1>1, <1>3, <1>4, QuietStep DEF NextBatch

LEMMA BatchesDoneGood ==
  ASSUME IInv, BatchesDone
  PROVE  Good
<1> DEFINE f == [Top EXCEPT !.phase = "close", !.pc = 1]
<1>1. Running /\ Top.phase = "outputs"
  BY DEF BatchesDone, OutputsDone
<1>2. SlotsOK /\ Top \in Frames
  BY <1>1, RunningFacts
<1>3. Emptying
  BY <1>2, NoneEmpties DEF BatchesDone
<1>4. MovesTo(f)
  BY <1>1, PhaseMoves DEF BatchesDone
<1> HIDE DEF f
<1> QED BY <1>1, <1>3, <1>4, QuietStep DEF BatchesDone

(***************************************************************************)
(* A step of a block: the production of a value, or an inner block.        *)
(***************************************************************************)
LEMMA OneOrMore ==
  \A n \in Nat \ {0} : n # 1 => n > 1 /\ n \in 2 .. n
OBVIOUS

LEMMA ScopeFacts ==
  ASSUME IInv, Running
  PROVE  /\ DOMAIN ScopeHere = 1 .. Len(frames) - 1
         /\ Len(frames) = 1 => ScopeHere = << >>
         /\ Len(frames) > 1 => ScopeHere # << >>
<1>1. Len(frames) \in Nat \ {0}
  BY RunningFacts
<1>2. DOMAIN ScopeHere = 1 .. Len(frames) - 1
  BY <1>1 DEF ScopeHere, ScopeOf, BlockStack
<1>3. ASSUME Len(frames) = 1 PROVE ScopeHere = << >>
  BY <1>1, <1>3 DEF ScopeHere, ScopeOf, BlockStack
<1>4. ASSUME Len(frames) > 1 PROVE ScopeHere # << >>
  <2>1. 1 \in DOMAIN ScopeHere
    BY <1>1, <1>2, <1>4
  <2>2. DOMAIN << >> = {}
    OBVIOUS
  <2> QED BY <2>1, <2>2
<1> QED BY <1>2, <1>3, <1>4

LEMMA StepFacts ==
  ASSUME IInv, AtStep
  PROVE  /\ Running /\ Top.pc \in DOMAIN StepsOf(Top)
         /\ Len(frames) = 1 => /\ Top = frames[1] /\ Top.phase = "root" /\ Top.vskip = skip
                               /\ Top.pc \in DOMAIN sched.root /\ ThisStep = sched.root[Top.pc]
         /\ Len(frames) # 1 => Top.phase = "steps"
         /\ ~IsBuild(ThisStep) => ThisStep \in cfg.blocks
<1>1. /\ Running /\ Safe /\ cfg \in Plans /\ frames # << >>
      /\ Len(frames) \in Nat \ {0} /\ Top = frames[Len(frames)] /\ Top.pc \in Nat \ {0}
      /\ Top.phase \in {"root", "steps"} /\ Top.pc <= Len(StepsOf(Top))
  BY RunningFacts DEF AtStep
<1>2. BlocksOpen /\ ~sched.refused
  BY <1>1 DEF Safe, Control
<1>3. /\ Len(sched.root) \in Nat /\ DOMAIN sched.root = 1 .. Len(sched.root)
      /\ BlocksAmong(sched.root, cfg.blocks)
      /\ \A b \in cfg.blocks :
           /\ Len(b.steps) \in Nat /\ DOMAIN b.steps = 1 .. Len(b.steps)
           /\ BlocksAmong(b.steps, cfg.blocks)
  BY <1>1, <1>2, PlanFacts
<1>4. CASE Len(frames) = 1
  <2>1. Top = frames[1] /\ Top.phase = "root" /\ Top.vskip = skip
    BY <1>1, <1>2, <1>4 DEF BlocksOpen
  <2>2. StepsOf(Top) = sched.root
    BY <2>1 DEF StepsOf
  <2> QED BY <1>1, <1>3, <1>4, <2>1, <2>2 DEF ThisStep, BlocksAmong
<1>5. CASE Len(frames) # 1
  <2>0. Len(frames) \in 2 .. Len(frames)
    BY <1>1, <1>5, OneOrMore
  <2>1. Top.phase # "root" /\ Top.block \in cfg.blocks
    BY <1>1, <1>2, <2>0 DEF BlocksOpen
  <2>2. StepsOf(Top) = Top.block.steps
    BY <2>1 DEF StepsOf
  <2> QED BY <1>1, <1>3, <1>5, <2>1, <2>2 DEF ThisStep, BlocksAmong
<1> QED BY <1>4, <1>5

(* A persistent cell that the step at hand is about to make does not stand.*)
LEMMA NotMadeTwice ==
  ASSUME IInv, AtStep, NEW c \in CellIds(table), NEW skipped, Top.vskip \subseteq skipped,
         ~Elided(c, skipped, Held(c)), Cell(c).scope = ScopeHere, Cell(c).kind # "Leaf",
         Len(frames) = 1 => RootProduces(Top.pc, c), Cell(c).persistent
  PROVE  ~Held(c)
<1>1. /\ Safe /\ cfg \in Plans /\ Running /\ Len(frames) \in Nat \ {0} /\ frames # << >>
      /\ Top.pc \in Nat
  BY RunningFacts DEF AtStep
<1>2. CASE Len(frames) = 1
  <2>1. Top = frames[1] /\ Top.vskip = skip /\ Top.pc \in DOMAIN sched.root
    BY <1>2, StepFacts
  <2>2. Held(c) => c \in skip
    BY <1>1, <1>2, <2>1 DEF Safe, RootPending
  <2> QED BY <2>1, <2>2 DEF Elided
<1>3. CASE Len(frames) # 1
  <2>0. Len(frames) > 1
    BY <1>1, <1>3, OneOrMore
  <2>1. ScopeHere # << >>
    BY <1>1, <2>0, ScopeFacts
  <2>2. ResidencyFlags(table)
    BY <1>1, PlanFacts DEF Safe, Control
  <2>3. Cell(c).pia
    BY <2>1, <2>2 DEF ResidencyFlags, Cell
  <2> QED BY <2>3 DEF Elided
<1> QED BY <1>2, <1>3

(* A production begins.                                                    *)
LEMMA MakingStarts ==
  ASSUME IInv, Running, UNCHANGED <<cfg, round, slots, heap, store, skip, frames, exn>>,
         NEW c \in CellIds(table), making' = Making(c), Cell(c).kind = "Build",
         Cell(c).persistent => ~Held(c), DOMAIN Cell(c).scope = 1 .. Len(frames) - 1,
         \/ /\ Top.phase \in {"root", "steps"} /\ Top.pc \in DOMAIN StepsOf(Top)
            /\ IsBuild(ThisStep) /\ Cell(c).vid = ThisStep.vid
         \/ Top.phase = "outputs" /\ Top.pc \in DOMAIN Top.cells
  PROVE  Good
<1>1. /\ cfg \in Plans /\ SlotsOK /\ StoreOK /\ FramesOK /\ MakingOK /\ Safe
      /\ round \in 0 .. NEvals /\ skip \subseteq CellIds(table)
      /\ frames # << >> /\ frames \in Seq(Frames)
  BY RunningFacts
<1>2. /\ sched' = sched /\ table' = table /\ batches' = batches
      /\ CellIds(table)' = CellIds(table) /\ \A d : Cell(d)' = Cell(d)
  BY Static
<1>3. making'.cell = c /\ making'.left = ReadsOf(table, c) /\ making'.legs = << >>
  BY DEF Making
<1>4. ReadsOf(table, c) # {}
  BY <1>1, PlanFacts DEF Safe, Control
<1>5. MakingOK'
  BY <1>2, <1>3, EmptySeq DEF MakingOK, Making
<1>6. SlotsOK' /\ StoreOK' /\ frames' \in Seq(Frames')
  BY <1>1, <1>2 DEF SlotsOK, StoreOK, Frames, RootFrame
<1>7. Control'
  BY <1>1, <1>2 DEF Safe, Control, SharedStoreSlot
<1>8. Unshared' /\ StoreHeld'
  BY <1>1, <1>2 DEF Safe, Unshared, StoreHeld, Held
<1>9. DOMAIN making'.legs = {}
  BY <1>3
<1>10. AccsPrivate' /\ LegsPrivate' /\ Alive'
  BY <1>1, <1>2, <1>9 DEF Safe, AccsPrivate, LegsPrivate, Alive, Held
<1>11. BlocksOpen'
  BY <1>1, <1>2 DEF Safe, BlocksOpen, IsOutputOf
<1>12. InProduction'
  BY <1>2, <1>3, <1>4 DEF InProduction, Held, Top, ThisStep, StepsOf
<1>13. OutputsOpen' /\ RootPending'
  BY <1>1, <1>2 DEF Safe, OutputsOpen, RootPending, RootProduces, Held
<1>14. Safe'
  BY <1>7, <1>8, <1>10, <1>11, <1>12, <1>13 DEF Safe
<1>15. IInv'
  BY <1>1, <1>2, <1>5, <1>6, <1>14, InvNext
<1> QED BY <1>15 DEF Good, StoreStands, HeldUnwritten

(* A step that throws.                                                     *)
LEMMA Thrown ==
  ASSUME IInv, exn = "none", exn' # "none", cfg' = cfg, round' \in 0 .. NEvals,
         skip' \subseteq CellIds(table), SlotsOK', StoreOK', FramesOK', MakingOK',
         StoreStands, HeldUnwritten
  PROVE  Good
<1>1. cfg \in Plans /\ CellIds(table)' = CellIds(table)
  BY InvParts, Static
<1>2. frames' \in Seq(Frames')
  BY DEF FramesOK
<1> QED BY <1>1, <1>2, InvNext DEF Good

LEMMA BuildStepGood ==
  ASSUME IInv, BuildStep
  PROVE  Good
<1>1. /\ AtStep /\ Running /\ IsBuild(ThisStep) /\ exn = "none" /\ cfg \in Plans /\ Safe
      /\ round \in 0 .. NEvals /\ skip \subseteq CellIds(table)
      /\ SlotsOK /\ StoreOK /\ FramesOK /\ MakingOK
  BY RunningFacts DEF BuildStep, AtStep
<1>2. CASE StepCell = NoCell
  <2>1. exn' # "none" /\ making' = making
    BY <1>2 DEF BuildStep, Throw
  <2>2. SlotsOK' /\ StoreOK' /\ FramesOK' /\ MakingOK'
    BY <1>1, <2>1, Static
       DEF BuildStep, SlotsOK, StoreOK, FramesOK, MakingOK, Frames, RootFrame
  <2> QED BY <1>1, <2>1, <2>2, Thrown DEF BuildStep, StoreStands, HeldUnwritten
<1>3. CASE StepCell # NoCell
  <2> DEFINE c == StepCell
  <2>1. /\ c \in CellIds(table) /\ Cell(c).kind = "Build" /\ Cell(c).vid = ThisStep.vid
        /\ Cell(c).scope = ScopeHere
    BY <1>1, <1>3, PlanFacts, CellAtFacts DEF StepCell, BuildCellAt, Cell, Safe, Control
  <2>2. DOMAIN Cell(c).scope = 1 .. Len(frames) - 1
    BY <1>1, <2>1, ScopeFacts
  <2>3. Len(frames) = 1 => RootProduces(Top.pc, c)
    BY <1>1, <2>1, StepFacts, ScopeFacts DEF RootProduces
  <2>4. ~Elided(c, Top.vskip, Held(c)) /\ making' = Making(c)
    BY <1>3 DEF BuildStep
  <2> HIDE DEF c
  <2>5. Cell(c).persistent => ~Held(c)
    BY <1>1, <2>1, <2>3, <2>4, NotMadeTwice
  <2>6. Top.phase \in {"root", "steps"} /\ Top.pc \in DOMAIN StepsOf(Top)
    BY <1>1, StepFacts DEF AtStep
  <2> QED BY <1>1, <1>3, <2>1, <2>2, <2>4, <2>5, <2>6, MakingStarts DEF BuildStep
<1> QED BY <1>2, <1>3

(***************************************************************************)
(* The outputs of a block: what a batch adds to them, and what they become.*)
(***************************************************************************)
LEMMA SourceFacts ==
  ASSUME IInv, Running, NEW a \in CellIds(table), Cell(a).kind = "Assemble"
  PROVE  /\ Cell(a).source \in CellIds(table)
         /\ Cell(Cell(a).source).kind = "Build" => ~Cell(Cell(a).source).persistent
<1>1. cfg \in Plans /\ Safe /\ frames # << >>
  BY RunningFacts
<1>2. ValidCellTable(table, batches) /\ ~sched.refused
  BY <1>1 DEF Safe, Control
<1>3. Cell(a).source \in CellIds(table)
  BY <1>2 DEF ValidCellTable, RuleVisibility, ProducedBefore, Cell
<1>4. ASSUME Cell(Cell(a).source).kind = "Build", Cell(Cell(a).source).persistent PROVE FALSE
  <2> DEFINE s == Cell(Cell(a).source)
  <2>1. BoundInstances(s) = {}
    BY <1>1, <1>2, <1>3, <1>4, PlanFacts DEF ResidencyFlags, Cell
  <2>2. s.partial = {} /\ s.sliced = {}
    BY <2>1 DEF BoundInstances, SlicedKeys
  <2>3. /\ Cell(a).asm = "Scatter" => Cell(a).scatter # {} /\ Cell(a).scatter \subseteq s.sliced
        /\ Cell(a).asm = "Sum" => \E k : k \in s.partial
    BY <1>2 DEF ValidCellTable, RuleChain, Cell
  <2>4. Cell(a).asm \in {"Sum", "Scatter"}
    BY <1>1, <1>2, PlanFacts
  <2> QED BY <2>2, <2>3, <2>4
<1> QED BY <1>3, <1>4

LEMMA OutputFacts ==
  ASSUME IInv, Running, Top.phase \notin {"root"}
  PROVE  /\ Len(frames) \in 2 .. Len(frames) /\ Top.block \in cfg.blocks
         /\ DOMAIN Top.cells = DOMAIN Top.block.outputs /\ DOMAIN Top.acc = DOMAIN Top.cells
         /\ DOMAIN Top.cells = 1 .. Len(Top.cells) /\ Len(Top.cells) \in Nat
         /\ \A k \in DOMAIN Top.cells : /\ Top.cells[k] \in CellIds(table)
                                       /\ IsOutputOf(Top.cells[k], Len(frames), k)
         /\ Top.phase = "fold" => Top.pc \in DOMAIN Top.cells
<1>1. /\ Safe /\ FramesOK /\ Top = frames[Len(frames)] /\ Len(frames) \in Nat \ {0}
      /\ Len(frames) \in DOMAIN frames /\ frames # << >>
  BY RunningFacts
<1>2. Len(frames) # 1
  BY <1>1 DEF Safe, BlocksOpen
<1>3. Len(frames) \in 2 .. Len(frames)
  BY <1>1, <1>2, OneOrMore
<1> QED BY <1>1, <1>3 DEF Safe, BlocksOpen, FramesOK

LEMMA AssembleStepGood ==
  ASSUME IInv, AssembleStep
  PROVE  Good
<1> DEFINE a == ThisOutputCell
           s == Cell(a).source
<1>1. Running /\ Top.phase = "outputs" /\ Top.pc <= Len(Top.cells)
  BY DEF AssembleStep, AtOutput
<1>2. SlotsOK /\ Top.pc \in Nat \ {0} /\ Top.pc \in DOMAIN Top.cells
  BY <1>1, RunningFacts, OutputFacts
<1>3. a \in CellIds(table) /\ Cell(a).kind = "Assemble"
  BY <1>1, <1>2, OutputFacts DEF ThisOutputCell, IsOutputOf
<1>4. CASE ImplicitBuild(Top.block, a, ScopeHere)
  <2>1. Cell(s).kind = "Build" /\ Cell(s).scope = ScopeHere
    BY <1>4 DEF ImplicitBuild
  <2>2. s \in CellIds(table) /\ ~Cell(s).persistent
    BY <1>1, <1>3, <2>1, SourceFacts
  <2>3. DOMAIN Cell(s).scope = 1 .. Len(frames) - 1
    BY <1>1, <2>1, ScopeFacts
  <2>4. making' = Making(s) /\ frames' = frames
    BY <1>4 DEF AssembleStep
  <2> QED BY <1>1, <1>2, <2>1, <2>2, <2>3, <2>4, MakingStarts DEF AssembleStep
<1>5. CASE ~ImplicitBuild(Top.block, a, ScopeHere)
  <2> DEFINE f == [Top EXCEPT !.phase = "fold"]
  <2>1. SetTop(f) /\ making' = making
    BY <1>5 DEF AssembleStep
  <2>2. f.pc \in DOMAIN f.cells
    BY <1>1, <1>2, RunningFacts DEF Frames
  <2>3. MovesTo(f)
    BY <1>1, <2>1, <2>2, PhaseMoves
  <2>4. Emptying
    BY <1>2, NoneEmpties DEF AssembleStep
  <2> HIDE DEF f
  <2> QED BY <1>1, <2>1, <2>3, <2>4, QuietStep DEF AssembleStep
<1> QED BY <1>4, <1>5

LEMMA LeaveBlockGood ==
  ASSUME IInv, LeaveBlock
  PROVE  Good
<1>1. /\ Running /\ Top.phase = "close" /\ frames' = SubSeq(frames, 1, Len(frames) - 1)
      /\ UNCHANGED <<cfg, round, slots, heap, store, skip, making, results, exn>>
  BY DEF LeaveBlock, Closing
<1>2. /\ cfg \in Plans /\ SlotsOK /\ StoreOK /\ FramesOK /\ MakingOK /\ Safe
      /\ round \in 0 .. NEvals /\ skip \subseteq CellIds(table)
      /\ frames # << >> /\ frames \in Seq(Frames) /\ making = Nothing
      /\ Len(frames) \in Nat \ {0} /\ DOMAIN frames = 1 .. Len(frames)
  BY <1>1, RunningFacts
<1>3. Len(frames) \in 2 .. Len(frames)
  BY <1>1, OutputFacts
<1>4. /\ sched' = sched /\ table' = table /\ batches' = batches
      /\ CellIds(table)' = CellIds(table) /\ \A d : Cell(d)' = Cell(d)
  BY <1>1, Static
<1>5. /\ frames' \in Seq(Frames) /\ Len(frames') = Len(frames) - 1
      /\ DOMAIN frames' = 1 .. Len(frames) - 1 /\ DOMAIN frames' \subseteq DOMAIN frames
      /\ \A i \in DOMAIN frames' : frames'[i] = frames[i]
      /\ 1 \in DOMAIN frames' /\ frames' # << >>
  <2>1. frames' \in Seq(Frames) /\ Len(frames') = Len(frames) - 1
        /\ \A i \in 1 .. Len(frames) - 1 : frames'[i] = frames[i]
    BY <1>1, <1>2, <1>3, SubSeqProperties
  <2> QED BY <1>2, <1>3, <2>1, LenProperties
<1>6. frames' \in Seq(Frames')
  BY <1>1, <1>4, <1>5 DEF Frames, RootFrame
<1>7. SlotsOK' /\ StoreOK' /\ MakingOK' /\ DOMAIN making.legs = {}
  BY <1>1, <1>2, <1>4 DEF SlotsOK, StoreOK, MakingOK, Nothing
<1>8. Control'
  BY <1>1, <1>2, <1>4, <1>5 DEF Safe, Control, SharedStoreSlot
<1>9. Unshared' /\ StoreHeld' /\ LegsPrivate' /\ InProduction'
  BY <1>1, <1>2, <1>4, <1>7 DEF Safe, Unshared, StoreHeld, LegsPrivate, InProduction, Held, Nothing
<1>10. AccsPrivate' /\ Alive'
  BY <1>1, <1>2, <1>4, <1>5, <1>7 DEF Safe, AccsPrivate, Alive, Held
<1>11. BlocksOpen'
  BY <1>1, <1>2, <1>3, <1>4, <1>5 DEF Safe, BlocksOpen, IsOutputOf
<1>12. OutputsOpen'
  BY <1>1, <1>2, <1>4, <1>5 DEF Safe, OutputsOpen, Held
<1>13. RootPending'
  BY <1>1, <1>2, <1>4, <1>5 DEF Safe, RootPending, RootProduces, Held
<1>14. Safe'
  BY <1>8, <1>9, <1>10, <1>11, <1>12, <1>13 DEF Safe
<1>15. IInv'
  BY <1>1, <1>2, <1>4, <1>6, <1>7, <1>14, InvNext
<1> QED BY <1>1, <1>15 DEF Good, StoreStands, HeldUnwritten

LEMMA AppendFacts ==
  ASSUME NEW S, frames \in Seq(S), frames # << >>, NEW f \in S, NEW g \in S,
         frames' = Append([frames EXCEPT ![Len(frames)] = g], f)
  PROVE  /\ frames' \in Seq(S) /\ Len(frames') = Len(frames) + 1
         /\ DOMAIN frames' = 1 .. Len(frames) + 1 /\ frames' # << >>
         /\ \A i \in DOMAIN frames : frames'[i] = IF i = Len(frames) THEN g ELSE frames[i]
         /\ frames'[Len(frames) + 1] = f
<1> DEFINE h == [frames EXCEPT ![Len(frames)] = g]
<1>1. Len(frames) \in Nat \ {0} /\ DOMAIN frames = 1 .. Len(frames) /\ Len(frames) \in DOMAIN frames
  BY TopFacts
<1>2. h \in Seq(S) /\ Len(h) = Len(frames) /\ DOMAIN h = DOMAIN frames
  BY <1>1, ExceptSeq
<1>3. \A i \in DOMAIN frames : h[i] = IF i = Len(frames) THEN g ELSE frames[i]
  OBVIOUS
<1>4. frames' = Append(h, f)
  OBVIOUS
<1> HIDE DEF h
<1>5. /\ Append(h, f) \in Seq(S) /\ Len(Append(h, f)) = Len(h) + 1 /\ Append(h, f) # << >>
      /\ \A i \in 1 .. Len(h) : Append(h, f)[i] = h[i]
      /\ Append(h, f)[Len(h) + 1] = f
  BY <1>2, AppendProperties
<1>6. DOMAIN Append(h, f) = 1 .. Len(h) + 1
  BY <1>5, LenProperties
<1>7. \A i \in 1 .. Len(h) : Append(h, f)[i] = IF i = Len(frames) THEN g ELSE frames[i]
  BY <1>1, <1>2, <1>3, <1>5
<1> QED BY <1>1, <1>2, <1>4, <1>5, <1>6, <1>7

LEMMA FunctionIsSeq ==
  ASSUME NEW S, NEW n \in Nat, NEW s \in [1 .. n -> S]
  PROVE  s \in Seq(S) /\ Len(s) = n
OBVIOUS

LEMMA EnterBlockGood ==
  ASSUME IInv, EnterBlock
  PROVE  Good
<1> DEFINE n == Len(frames)
<1>1. /\ AtStep /\ Running /\ ~IsBuild(ThisStep)
      /\ UNCHANGED <<cfg, round, slots, heap, store, skip, making, results>>
  BY DEF EnterBlock, AtStep
<1>2. /\ cfg \in Plans /\ SlotsOK /\ StoreOK /\ FramesOK /\ MakingOK /\ Safe
      /\ round \in 0 .. NEvals /\ skip \subseteq CellIds(table) /\ exn = "none"
      /\ frames # << >> /\ frames \in Seq(Frames) /\ making = Nothing
      /\ n \in Nat \ {0} /\ DOMAIN frames = 1 .. n /\ Top \in Frames /\ Top = frames[n]
  BY <1>1, RunningFacts
<1>3. /\ sched' = sched /\ table' = table /\ batches' = batches
      /\ CellIds(table)' = CellIds(table) /\ \A d : Cell(d)' = Cell(d)
  BY <1>1, Static
<1> DEFINE cells == OutputCells
           vskip == VisitSkip(Top.vskip, ScopeHere)
           f == FrameOf(vskip, cells)
<1>4. CASE NoCell \in Range(cells)
  <2>1. exn' # "none" /\ frames' = frames
    BY <1>4 DEF EnterBlock, Throw
  <2>2. SlotsOK' /\ StoreOK' /\ FramesOK' /\ MakingOK'
    BY <1>1, <1>2, <1>3, <2>1 DEF SlotsOK, StoreOK, FramesOK, MakingOK, Frames, RootFrame
  <2> QED BY <1>1, <1>2, <1>3, <2>1, <2>2, Thrown DEF StoreStands, HeldUnwritten
<1>5. CASE NoCell \notin Range(cells)
  <2>1. frames' = Append([frames EXCEPT ![n] = NextStep], f) /\ exn' = exn
    BY <1>5 DEF EnterBlock
  <2>2. ThisStep \in cfg.blocks
    BY <1>1, StepFacts
  <2>3. /\ Len(ThisStep.outputs) \in Nat /\ DOMAIN ThisStep.outputs = 1 .. Len(ThisStep.outputs)
        /\ CellIds(table) \subseteq Nat \ {NoCell}
    BY <1>2, <2>2, PlanFacts DEF Safe, Control
  <2>4. DOMAIN cells = DOMAIN ThisStep.outputs
    BY DEF OutputCells
  <2>5. ASSUME NEW k \in DOMAIN cells
        PROVE  /\ cells[k] \in CellIds(table) /\ Cell(cells[k]).kind = "Assemble"
               /\ Cell(cells[k]).vid = ThisStep.outputs[k][1] /\ Cell(cells[k]).scope = ScopeHere
    <3>1. /\ cells[k] # NoCell
          /\ cells[k] = CellAt(table, "Assemble", ThisStep.outputs[k][1], ScopeHere)
      BY <1>5, <2>5 DEF OutputCells, AssembleCellAt, Range
    <3> QED BY <2>3, <3>1, CellAtFacts DEF Cell
  <2>6. cells \in Seq(CellIds(table))
    <3>1. cells \in [1 .. Len(ThisStep.outputs) -> CellIds(table)]
      BY <2>3, <2>4, <2>5 DEF OutputCells
    <3> QED BY <2>3, <3>1, FunctionIsSeq
  <2>7. Top.vskip \subseteq CellIds(table)
    BY <1>2 DEF Frames
  <2>8. Top.vskip \subseteq vskip /\ vskip \subseteq CellIds(table)
    BY <2>7, VisitSkipGrows
  <2> HIDE DEF vskip, cells
  <2>9. /\ f.block = ThisStep /\ f.phase = "begin" /\ f.cells = cells
        /\ f.outSkip = {k \in DOMAIN cells : Elided(cells[k], vskip, Held(cells[k]))}
        /\ f.acc = [k \in DOMAIN cells |-> NoBuf]
    BY DEF FrameOf
  <2>10. f \in Frames
    <3>1. [k \in DOMAIN cells |-> NoBuf] \in Seq(Nat \cup {NoBuf})
      BY <2>3, <2>4, IsASeq
    <3> QED BY <2>2, <2>3, <2>4, <2>6, <2>8, <3>1 DEF FrameOf, Frames, Phases
  <2>11. /\ NextStep \in Frames /\ NextStep.pc = Top.pc + 1 /\ NextStep.phase = Top.phase
         /\ NextStep.block = Top.block /\ NextStep.cells = Top.cells /\ NextStep.acc = Top.acc
         /\ NextStep.vskip = Top.vskip /\ NextStep.outSkip = Top.outSkip
         /\ Top.phase \in {"root", "steps"}
    BY <1>1, NextStepMoves DEF AtStep
  <2> HIDE DEF f
  <2>12. /\ frames' \in Seq(Frames) /\ Len(frames') = n + 1
         /\ DOMAIN frames' = 1 .. n + 1 /\ frames' # << >>
         /\ \A i \in DOMAIN frames : frames'[i] = IF i = n THEN NextStep ELSE frames[i]
         /\ frames'[n + 1] = f
    BY <1>2, <2>1, <2>10, <2>11, AppendFacts
  <2>13. \A i \in DOMAIN frames :
           /\ frames'[i].block = frames[i].block /\ frames'[i].cells = frames[i].cells
           /\ frames'[i].acc = frames[i].acc /\ frames'[i].vskip = frames[i].vskip
           /\ frames'[i].outSkip = frames[i].outSkip /\ frames'[i].phase = frames[i].phase
           /\ frames[i].phase \in {"fold", "close"} => frames'[i].pc = frames[i].pc
    BY <1>2, <2>11, <2>12
  <2>14. n \in Nat \ {0} /\ \A i \in DOMAIN frames' : i \in DOMAIN frames \/ i = n + 1
    BY <1>2, <2>12
  <2>15. frames' \in Seq(Frames')
    BY <1>1, <1>3, <2>12 DEF Frames, RootFrame
  <2>16. SlotsOK' /\ StoreOK' /\ MakingOK' /\ DOMAIN making.legs = {}
    BY <1>1, <1>2, <1>3 DEF SlotsOK, StoreOK, MakingOK, Nothing
  <2>17. Control'
    BY <1>1, <1>2, <1>3, <2>12 DEF Safe, Control, SharedStoreSlot
  <2>18. Unshared' /\ StoreHeld' /\ LegsPrivate' /\ InProduction'
    BY <1>1, <1>2, <1>3, <2>16
       DEF Safe, Unshared, StoreHeld, LegsPrivate, InProduction, Held, Nothing
  <2>19. AccsPrivate' /\ Alive'
    <3>1. \A i \in DOMAIN frames' : \A k \in DOMAIN frames'[i].acc :
            frames'[i].acc[k] # NoBuf =>
              i \in DOMAIN frames /\ k \in DOMAIN frames[i].acc
              /\ frames'[i].acc[k] = frames[i].acc[k]
      BY <2>9, <2>12, <2>13, <2>14
    <3>2. AccsPrivate /\ Alive
      BY <1>2 DEF Safe
    <3>3. Alive'
      BY <3>1, <3>2, <1>1, <1>3, <2>16 DEF Alive, Held
    <3>4. AccsPrivate'
      BY <3>1, <3>2, <1>1, <1>3, <2>16 DEF AccsPrivate
    <3> QED BY <3>3, <3>4
  <2>20. BlocksOpen'
    <3>1. BlocksOpen
      BY <1>2 DEF Safe
    <3>2. 1 \in DOMAIN frames /\ (n > 1 => 2 \in DOMAIN frames) /\ (n = 1 => 2 = n + 1)
      BY <1>2
    <3>3. /\ frames'[1].phase = "root" /\ frames'[1].vskip = skip
          /\ frames'[1].cells = << >> /\ frames'[1].acc = << >>
      BY <1>2, <2>13, <3>1, <3>2 DEF BlocksOpen
    <3>4. ASSUME NEW i \in 2 .. n
          PROVE  /\ frames'[i].phase # "root" /\ frames'[i].block \in cfg.blocks
                 /\ DOMAIN frames'[i].cells = DOMAIN frames'[i].block.outputs
                 /\ DOMAIN frames'[i].acc = DOMAIN frames'[i].cells
                 /\ \A k \in DOMAIN frames'[i].cells : IsOutputOf(frames[i].cells[k], i, k)
                 /\ frames'[i].phase = "fold" => frames'[i].pc \in DOMAIN frames'[i].cells
      <4>1. i \in DOMAIN frames /\ i \in 2 .. Len(frames)
        BY <1>2
      <4> QED BY <2>13, <3>1, <4>1 DEF BlocksOpen
    <3>5. \A i \in 2 .. n + 1 : i \in 2 .. n \/ i = n + 1
      BY <1>2
    <3>6. \A i, k, c : IsOutputOf(c, i, k) /\ i \in DOMAIN frames => IsOutputOf(c, i, k)'
      BY <1>3, <2>13 DEF IsOutputOf
    <3>7. \A i \in 2 .. n : i \in DOMAIN frames
      BY <1>2
    <3>8. ASSUME NEW k \in DOMAIN f.cells
          PROVE  /\ table'.cells[f.cells[k]].kind = "Assemble"
                 /\ table'.cells[f.cells[k]].vid = f.block.outputs[k][1]
                 /\ DOMAIN table'.cells[f.cells[k]].scope = 1 .. (n + 1) - 2
      <4>1. DOMAIN ScopeHere = 1 .. n - 1 /\ n - 1 = (n + 1) - 2
        BY <1>1, <1>2, ScopeFacts
      <4> QED BY <1>3, <2>5, <2>9, <4>1 DEF Cell
    <3>9. /\ f.phase = "begin" /\ f.block \in cfg.blocks
          /\ DOMAIN f.cells = DOMAIN f.block.outputs /\ DOMAIN f.acc = DOMAIN f.cells
      BY <2>2, <2>4, <2>9
    <3>10. /\ frames'[1].pc - 1 \in DOMAIN sched.root
           /\ ~IsBuild(sched.root[frames'[1].pc - 1])
           /\ frames'[2].block = sched.root[frames'[1].pc - 1]
      <4>1. CASE n = 1
        <5>1. Top.pc \in DOMAIN sched.root /\ ThisStep = sched.root[Top.pc] /\ Top.pc \in Nat
          BY <1>1, <4>1, StepFacts, RunningFacts
        <5>2. frames'[1].pc = Top.pc + 1 /\ frames'[2] = f
          BY <2>11, <2>12, <3>2, <4>1
        <5>3. frames'[1].pc - 1 = Top.pc
          BY <5>1, <5>2
        <5> QED BY <1>1, <2>9, <5>1, <5>2, <5>3
      <4>2. CASE n # 1
        <5>1. n > 1
          BY <1>2, <4>2, OneOrMore
        <5> QED BY <2>12, <2>13, <3>1, <3>2, <4>2, <5>1 DEF BlocksOpen
      <4> QED BY <4>1, <4>2
    <3>11. ASSUME NEW i \in 2 .. Len(frames')
           PROVE  /\ frames'[i].phase # "root" /\ frames'[i].block \in cfg'.blocks
                  /\ DOMAIN frames'[i].cells = DOMAIN frames'[i].block.outputs
                  /\ DOMAIN frames'[i].acc = DOMAIN frames'[i].cells
                  /\ \A k \in DOMAIN frames'[i].cells :
                       /\ table'.cells[frames'[i].cells[k]].kind = "Assemble"
                       /\ table'.cells[frames'[i].cells[k]].vid = frames'[i].block.outputs[k][1]
                       /\ DOMAIN table'.cells[frames'[i].cells[k]].scope = 1 .. i - 2
                  /\ frames'[i].phase = "fold" => frames'[i].pc \in DOMAIN frames'[i].cells
      <4>1. CASE i \in 2 .. n
        BY <1>1, <1>3, <2>13, <3>4, <3>7, <4>1 DEF IsOutputOf, Cell
      <4>2. CASE i = n + 1
        BY <1>1, <2>12, <3>8, <3>9, <4>2
      <4> QED BY <2>12, <3>5, <4>1, <4>2
    <3> QED BY <1>1, <1>3, <3>3, <3>10, <3>11 DEF BlocksOpen, IsOutputOf, Cell
  <2>21. OutputsOpen'
    <3>1. SUFFICES ASSUME NEW i \in DOMAIN frames', NEW k \in DOMAIN frames'[i].cells,
                          k \notin frames'[i].outSkip,
                          frames'[i].phase = "close" => frames'[i].pc <= k,
                          table'.cells[frames'[i].cells[k]].persistent
                   PROVE  slots'[frames'[i].cells[k]].val = NoBuf
      BY DEF OutputsOpen, Held, Cell
    <3>2. CASE i \in DOMAIN frames
      BY <1>1, <1>2, <1>3, <2>13, <3>1, <3>2 DEF Safe, OutputsOpen, Held, Cell
    <3>3. CASE i = n + 1
      <4>1. k \in DOMAIN cells /\ frames'[i].cells[k] = cells[k]
        BY <2>9, <2>12, <3>1, <3>3
      <4>2. ~Elided(cells[k], vskip, Held(cells[k]))
        BY <2>9, <2>12, <3>1, <3>3, <4>1
      <4>3. Cell(cells[k]).persistent
        BY <1>3, <3>1, <4>1 DEF Cell
      <4>4. n = 1 => RootProduces(Top.pc, cells[k])
        BY <1>1, <2>4, <2>5, <4>1, StepFacts, ScopeFacts DEF RootProduces
      <4>5. ~Held(cells[k])
        BY <1>1, <2>5, <2>8, <4>1, <4>2, <4>3, <4>4, NotMadeTwice
      <4> QED BY <1>1, <4>1, <4>5 DEF Held
    <3> QED BY <2>14, <3>2, <3>3
  <2>22. RootPending'
    <3>1. 1 \in DOMAIN frames /\ frames[1].pc \in Nat
      BY <1>2 DEF FramesOK
    <3>2. frames'[1].pc \in {frames[1].pc, frames[1].pc + 1}
      BY <1>2, <2>11, <2>12, <3>1
    <3>3. Len(sched.root) \in Nat /\ DOMAIN sched.root = 1 .. Len(sched.root)
      BY <1>2, PlanFacts DEF Safe, Control
    <3>4. \A j \in DOMAIN sched.root : frames'[1].pc <= j => frames[1].pc <= j
      BY <3>1, <3>2, <3>3
    <3> QED BY <1>1, <1>2, <1>3, <3>4 DEF Safe, RootPending, RootProduces, Held
  <2>23. Safe'
    BY <2>17, <2>18, <2>19, <2>20, <2>21, <2>22 DEF Safe
  <2>24. IInv'
    BY <1>1, <1>2, <1>3, <2>15, <2>16, <2>23, InvNext
  <2> QED BY <1>1, <2>24 DEF Good, StoreStands, HeldUnwritten
<1> QED BY <1>4, <1>5

(***************************************************************************)
(* The allocator, and the filling of a cell.                               *)
(***************************************************************************)
LEMMA FiniteImage ==
  ASSUME NEW S, IsFiniteSet(S), NEW g
  PROVE  IsFiniteSet({g[x] : x \in S})
<1> DEFINE T == {g[x] : x \in S}
           h == [x \in S |-> g[x]]
<1>1. h \in Surjection(S, T)
  BY DEF Surjection
<1> HIDE DEF h
<1> QED BY <1>1, FS_Surjection

LEMMA FreshBuffer ==
  ASSUME IInv, exn = "none", NEW b, b = Fresh(Referenced(slots))
  PROVE  /\ b \in Nat /\ b # NoBuf
         /\ \A c \in CellIds(table) : slots[c].val # b
         /\ \A i \in DOMAIN frames : \A k \in DOMAIN frames[i].acc : frames[i].acc[k] # b
         /\ \A l \in DOMAIN making.legs : making.legs[l].buf # b
<1>1. /\ cfg \in Plans /\ SlotsOK /\ StoreOK /\ FramesOK /\ MakingOK /\ ~sched.refused
  BY InvParts DEF Safe, Control
<1>2. IsFiniteSet(CellIds(table)) /\ IsFiniteSet(DOMAIN sched.values)
  BY <1>1, PlanFacts
<1> DEFINE held == {slots[c].val : c \in DOMAIN slots}
           stored == {store[v] : v \in DOMAIN store}
           accs(i) == {frames[i].acc[k] : k \in DOMAIN frames[i].acc}
           all == {accs(i) : i \in DOMAIN frames}
           legs == Legs(making)
<1>3. IsFiniteSet(held)
  <2> DEFINE g == [c \in DOMAIN slots |-> slots[c].val]
  <2>1. held = {g[c] : c \in DOMAIN slots}
    OBVIOUS
  <2>2. IsFiniteSet(DOMAIN slots)
    BY <1>1, <1>2 DEF SlotsOK
  <2> HIDE DEF g
  <2> QED BY <2>1, <2>2, FiniteImage
<1>4. IsFiniteSet(stored)
  BY <1>1, <1>2, FiniteImage DEF StoreOK
<1>5. IsFiniteSet(legs)
  <2> DEFINE g == [l \in DOMAIN making.legs |-> making.legs[l].buf]
  <2>1. legs = {g[l] : l \in DOMAIN making.legs}
    BY DEF Legs
  <2>2. IsFiniteSet(DOMAIN making.legs)
    <3>1. Len(making.legs) \in Nat /\ DOMAIN making.legs = 1 .. Len(making.legs)
      BY <1>1, LenProperties DEF MakingOK
    <3> QED BY <3>1, FS_Interval
  <2> HIDE DEF g
  <2> QED BY <2>1, <2>2, FiniteImage
<1>6. IsFiniteSet(UNION all)
  <2>1. ASSUME NEW i \in DOMAIN frames PROVE IsFiniteSet(accs(i))
    <3>1. Len(frames[i].acc) \in Nat /\ DOMAIN frames[i].acc = 1 .. Len(frames[i].acc)
      BY <1>1 DEF FramesOK
    <3>2. IsFiniteSet(DOMAIN frames[i].acc)
      BY <3>1, FS_Interval
    <3> QED BY <3>2, FiniteImage
  <2>2. IsFiniteSet(all)
    <3> DEFINE g == [i \in DOMAIN frames |-> accs(i)]
    <3>1. all = {g[i] : i \in DOMAIN frames}
      OBVIOUS
    <3>2. IsFiniteSet(DOMAIN frames)
      <4>1. Len(frames) \in Nat /\ DOMAIN frames = 1 .. Len(frames)
        BY <1>1 DEF FramesOK
      <4> QED BY <4>1, FS_Interval
    <3> HIDE DEF g
    <3>3. IsFiniteSet({g[i] : i \in DOMAIN frames})
      BY <3>2, FiniteImage
    <3> QED BY <3>1, <3>3
  <2> QED BY <2>1, <2>2, FS_UNION
<1>7. Referenced(slots) = (held \cup stored \cup (UNION all) \cup legs) \ {NoBuf}
  BY DEF Referenced
<1>8. IsFiniteSet(Referenced(slots))
  <2> HIDE DEF held, stored, all, legs
  <2>1. IsFiniteSet(held \cup stored)
    BY <1>3, <1>4, FS_Union
  <2>2. IsFiniteSet((held \cup stored) \cup (UNION all))
    BY <2>1, <1>6, FS_Union
  <2>3. IsFiniteSet(((held \cup stored) \cup (UNION all)) \cup legs)
    BY <2>2, <1>5, FS_Union
  <2> QED BY <2>3, <1>7, FS_Difference
<1>9. b \in Nat \ Referenced(slots)
  BY <1>8, FreshFree
<1>10. b # NoBuf
  BY <1>9, BufsAssumption
<1>11. b \notin held /\ b \notin UNION all /\ b \notin legs
  BY <1>7, <1>9, <1>10
<1> QED BY <1>1, <1>9, <1>10, <1>11 DEF SlotsOK, Legs

(* A cell is set to a buffer that no other cell holds.                     *)
LEMMA SetCellKeeps ==
  ASSUME IInv, exn = "none", frames # << >>, cfg' = cfg, NEW c \in CellIds(table), NEW b \in Nat,
         SetCell(c, b), Cell(c).persistent => ~Held(c)
  PROVE  /\ SlotsOK' /\ StoreOK' /\ DOMAIN slots' = DOMAIN slots /\ StoreStands
         /\ \A d \in CellIds(table) : d # c => slots'[d] = slots[d]
         /\ exn' = "none" => slots'[c].val = b
         /\ exn' = "none" /\ (\A d \in CellIds(table) : d # c => slots[d].val # b)
              => Unshared' /\ StoreHeld'
<1>1. /\ cfg \in Plans /\ SlotsOK /\ StoreOK /\ Safe /\ ~sched.refused /\ ~SharedStoreSlot
  BY InvParts DEF Safe, Control
<1>2. /\ sched' = sched /\ table' = table /\ CellIds(table)' = CellIds(table)
      /\ \A d : Cell(d)' = Cell(d)
  BY Static
<1>3. b # NoBuf /\ Cell(c).vid \in DOMAIN sched.values
  BY <1>1, BufsAssumption, PlanFacts
<1>4. CASE SetThrows(Cell(c), slots[c])
  <2>1. exn' # "none" /\ slots' = slots /\ store' = store
    BY <1>4 DEF SetCell, Throw
  <2> QED BY <1>1, <1>2, <2>1 DEF SlotsOK, StoreOK, StoreStands
<1>5. CASE ~SetThrows(Cell(c), slots[c])
  <2>1. /\ slots' = [slots EXCEPT ![c] = SetSlot(Cell(c), b)] /\ exn' = exn
        /\ store' = IF Cell(c).persistent THEN [store EXCEPT ![Cell(c).vid] = b] ELSE store
    BY <1>5 DEF SetCell
  <2>2. /\ DOMAIN slots' = DOMAIN slots /\ slots'[c] = SetSlot(Cell(c), b)
        /\ \A d \in CellIds(table) : d # c => slots'[d] = slots[d]
    BY <1>1, <2>1 DEF SlotsOK
  <2>3. /\ Record(slots'[c]) /\ slots'[c].filled \in BOOLEAN /\ slots'[c].val = b
    BY <2>2 DEF Record, SetSlot
  <2>4. SlotsOK'
    BY <1>1, <1>2, <2>2, <2>3 DEF SlotsOK, Record
  <2>5. StoreOK'
    BY <1>1, <1>2, <1>3, <2>1 DEF StoreOK
  <2>6. \A v \in DOMAIN store : store'[v] = IF Cell(c).persistent /\ v = Cell(c).vid THEN b
                                         ELSE store[v]
    BY <1>1, <2>1 DEF StoreOK
  <2>7. ASSUME NEW v \in DOMAIN store, store[v] # NoBuf
        PROVE  \E d \in CellIds(table) : /\ Cell(d).persistent /\ Cell(d).vid = v
                                         /\ slots[d].val = store[v] /\ d # c
    <3>1. PICK d \in CellIds(table) :
                 Cell(d).persistent /\ Cell(d).vid = v /\ slots[d].val = store[v]
      BY <1>1, <2>7 DEF Safe, StoreHeld
    <3>2. d # c
      BY <2>7, <3>1 DEF Held
    <3> QED BY <3>1, <3>2
  <2>8. StoreStands
    <3>1. SUFFICES ASSUME NEW v \in DOMAIN store, store[v] # NoBuf,
                          Cell(c).persistent /\ v = Cell(c).vid
                   PROVE  FALSE
      BY <2>6 DEF StoreStands
    <3> QED BY <1>1, <2>7, <3>1 DEF SharedStoreSlot
  <2>9. ASSUME \A d \in CellIds(table) : d # c => slots[d].val # b
        PROVE  Unshared'
    BY <1>1, <1>2, <2>2, <2>3, <2>9 DEF Safe, Unshared, Held
  <2>10. StoreHeld'
    <3>1. SUFFICES ASSUME NEW v \in DOMAIN store, store'[v] # NoBuf
                   PROVE  \E d \in CellIds(table) : /\ Cell(d).persistent /\ Cell(d).vid = v
                                                    /\ slots'[d].val = store'[v]
      <4>1. DOMAIN store' = DOMAIN store
        BY <1>1, <2>1 DEF StoreOK
      <4> QED BY <1>2, <4>1 DEF StoreHeld
    <3>2. CASE Cell(c).persistent /\ v = Cell(c).vid
      BY <2>3, <2>6, <3>2
    <3>3. CASE ~(Cell(c).persistent /\ v = Cell(c).vid)
      <4>1. store'[v] = store[v] /\ store[v] # NoBuf
        BY <2>6, <3>1, <3>3
      <4> QED BY <2>2, <2>7, <4>1
    <3> QED BY <3>2, <3>3
  <2> QED BY <2>2, <2>3, <2>4, <2>5, <2>8, <2>9, <2>10
<1> QED BY <1>4, <1>5

(***************************************************************************)
(* A production: the first touch of a leaf, a read, and the op.            *)
(***************************************************************************)
LEMMA ProducingFacts ==
  ASSUME IInv, Producing
  PROVE  /\ cfg \in Plans /\ SlotsOK /\ StoreOK /\ FramesOK /\ MakingOK /\ Safe
         /\ round \in 0 .. NEvals /\ skip \subseteq CellIds(table) /\ exn = "none"
         /\ frames # << >> /\ frames \in Seq(Frames) /\ ~sched.refused
         /\ making.cell \in CellIds(table) /\ Cell(making.cell).kind = "Build"
         /\ Cell(making.cell).persistent => ~Held(making.cell)
<1>1. /\ cfg \in Plans /\ SlotsOK /\ StoreOK /\ FramesOK /\ MakingOK /\ Safe
      /\ round \in 0 .. NEvals /\ skip \subseteq CellIds(table) /\ exn = "none"
  BY InvParts DEF Producing
<1>2. frames # << >> /\ ~sched.refused
  BY <1>1 DEF Safe, Control, Producing
<1> QED BY <1>1, <1>2 DEF Safe, InProduction, Producing, FramesOK

LEMMA NextReadFacts ==
  ASSUME IInv, Reading
  PROVE  /\ Min(making.left) \in making.left
         /\ Min(making.left) \in ReadsOf(table, making.cell)
         /\ NextRead = table.reads[Min(making.left)] /\ NextRead.consumer = making.cell
         /\ NextRead.source \in CellIds(table)
<1>1. /\ Producing /\ making.left # {} /\ MakingOK /\ cfg \in Plans /\ Safe /\ ~sched.refused
      /\ frames # << >> /\ making.cell \in CellIds(table) /\ Cell(making.cell).kind = "Build"
  BY ProducingFacts DEF Reading
<1>2. making.left \subseteq ReadsOf(table, making.cell)
  BY <1>1 DEF MakingOK
<1>3. making.left \in SUBSET Nat
  BY <1>1, <1>2, PlanFacts DEF ReadsOf
<1>4. \E x \in making.left : \A y \in making.left : x <= y
  BY <1>1, <1>3, NatMin
<1>5. Min(making.left) \in making.left
  BY <1>4 DEF Min
<1>6. Min(making.left) \in ReadsOf(table, making.cell)
  BY <1>2, <1>5
<1>7. RuleVisibility(table)
  BY <1>1 DEF Safe, Control, ValidCellTable
<1>8. table.reads[Min(making.left)].source \in CellIds(table)
  BY <1>1, <1>6, <1>7 DEF RuleVisibility, ProducedBefore, Cell
<1> QED BY <1>5, <1>6, <1>8 DEF NextRead, ReadsOf

LEMMA TouchLeafGood ==
  ASSUME IInv, TouchLeaf
  PROVE  Good
<1> DEFINE c == NextRead.source
           b == Fresh(Referenced(slots))
           x == Complete(Cell(c).vid, round)
<1>1. /\ Reading /\ Producing /\ Cell(c).kind = "Leaf" /\ ~Held(c) /\ ProduceCell(c, x)
      /\ UNCHANGED <<cfg, round, skip, frames, making, results>>
  BY DEF TouchLeaf, Reading
<1>2. /\ cfg \in Plans /\ SlotsOK /\ StoreOK /\ FramesOK /\ MakingOK /\ Safe
      /\ round \in 0 .. NEvals /\ skip \subseteq CellIds(table) /\ exn = "none"
      /\ frames # << >> /\ frames \in Seq(Frames)
      /\ Cell(making.cell).kind = "Build" /\ making.cell \in CellIds(table)
  BY <1>1, ProducingFacts
<1>3. /\ sched' = sched /\ table' = table /\ batches' = batches
      /\ CellIds(table)' = CellIds(table) /\ \A d : Cell(d)' = Cell(d)
  BY <1>1, Static
<1>4. c \in CellIds(table)
  BY <1>1, NextReadFacts
<1>5. heap' = Written(heap, b, x) /\ SetCell(c, b)
  BY <1>1 DEF ProduceCell
<1> HIDE DEF b, c, x
<1>6. /\ b \in Nat /\ b # NoBuf
      /\ \A d \in CellIds(table) : slots[d].val # b
      /\ \A i \in DOMAIN frames : \A k \in DOMAIN frames[i].acc : frames[i].acc[k] # b
      /\ \A l \in DOMAIN making.legs : making.legs[l].buf # b
  BY <1>2, FreshBuffer DEF b
<1>7. /\ SlotsOK' /\ StoreOK' /\ DOMAIN slots' = DOMAIN slots /\ StoreStands
      /\ \A d \in CellIds(table) : d # c => slots'[d] = slots[d]
      /\ exn' = "none" => slots'[c].val = b /\ Unshared' /\ StoreHeld'
  BY <1>1, <1>2, <1>4, <1>5, <1>6, SetCellKeeps
<1>8. DOMAIN heap' = DOMAIN heap \cup {b} /\ \A o \in DOMAIN heap : o # b => heap'[o] = heap[o]
  BY <1>5 DEF Written
<1>9. HeldUnwritten
  BY <1>2, <1>6, <1>8 DEF HeldUnwritten, Safe, Alive, Held, SlotsOK
<1>10. MakingOK' /\ FramesOK'
  BY <1>1, <1>2, <1>3 DEF MakingOK, FramesOK, Frames, RootFrame
<1>11. CASE exn' # "none"
  BY <1>1, <1>2, <1>3, <1>7, <1>9, <1>10, <1>11, Thrown
<1>12. CASE exn' = "none"
  <2>1. /\ slots'[c].val = b /\ Unshared' /\ StoreHeld'
        /\ \A d \in CellIds(table) : d # c => slots'[d] = slots[d]
    BY <1>7, <1>12
  <2>2. Control'
    BY <1>1, <1>2, <1>3 DEF Safe, Control, SharedStoreSlot
  <2>3. AccsPrivate'
    BY <1>1, <1>2, <1>3, <1>6, <2>1 DEF Safe, AccsPrivate
  <2>4. LegsPrivate'
    BY <1>1, <1>2, <1>3, <1>6, <2>1 DEF Safe, LegsPrivate
  <2>5. Alive'
    BY <1>1, <1>2, <1>3, <1>8, <2>1 DEF Safe, Alive, Held
  <2>6. BlocksOpen'
    BY <1>1, <1>2, <1>3 DEF Safe, BlocksOpen, IsOutputOf
  <2>7. InProduction'
    <3>1. making.cell # c
      BY <1>1, <1>2 DEF c
    <3>2. InProduction
      BY <1>2 DEF Safe
    <3>3. Held(making.cell)' <=> Held(making.cell)
      BY <1>1, <1>2, <2>1, <3>1 DEF Held
    <3> QED BY <1>1, <1>3, <3>2, <3>3 DEF InProduction, Top, ThisStep, StepsOf
  <2>8. OutputsOpen'
    <3>1. ASSUME NEW i \in DOMAIN frames, NEW k \in DOMAIN frames[i].cells
          PROVE  frames[i].cells[k] \in CellIds(table) /\ frames[i].cells[k] # c
      <4>1. frames[i].cells[k] \in CellIds(table)
        BY <1>2 DEF FramesOK
      <4>2. i = 1 \/ i \in 2 .. Len(frames)
        BY <1>2 DEF FramesOK
      <4>3. i # 1
        BY <1>2, <3>1 DEF Safe, BlocksOpen
      <4>4. Cell(frames[i].cells[k]).kind = "Assemble"
        BY <1>2, <4>2, <4>3 DEF Safe, BlocksOpen, IsOutputOf
      <4> QED BY <1>1, <4>1, <4>4 DEF c
    <3> QED BY <1>1, <1>2, <1>3, <2>1, <3>1 DEF Safe, OutputsOpen, Held
  <2>9. RootPending'
    <3>1. \A j : ~RootProduces(j, c)
      BY <1>1 DEF RootProduces, c
    <3> QED BY <1>1, <1>2, <1>3, <2>1, <3>1 DEF Safe, RootPending, RootProduces, Held
  <2>10. Safe'
    BY <2>1, <2>2, <2>3, <2>4, <2>5, <2>6, <2>7, <2>8, <2>9 DEF Safe
  <2>11. IInv'
    BY <1>1, <1>2, <1>3, <1>7, <1>10, <2>10, InvNext DEF FramesOK
  <2> QED BY <1>7, <1>9, <2>11 DEF Good
<1> QED BY <1>11, <1>12

LEMMA RangeAppend ==
  ASSUME NEW s, s \in Seq(Range(s)), NEW e
  PROVE  /\ Append(s, e) \in Seq(Range(Append(s, e))) /\ Append(s, e) # << >>
         /\ DOMAIN Append(s, e) = 1 .. Len(s) + 1 /\ DOMAIN s = 1 .. Len(s) /\ Len(s) \in Nat
         /\ \A l \in DOMAIN s : Append(s, e)[l] = s[l]
         /\ Append(s, e)[Len(s) + 1] = e
<1> DEFINE S == Range(s) \cup {e}
           t == Append(s, e)
<1>1. s \in Seq(S)
  BY SeqMonotonic
<1>2. /\ t \in Seq(S) /\ t # << >> /\ Len(t) = Len(s) + 1
      /\ \A l \in 1 .. Len(s) : t[l] = s[l]
      /\ t[Len(s) + 1] = e
  BY <1>1, AppendProperties
<1>3. DOMAIN s = 1 .. Len(s) /\ Len(s) \in Nat /\ DOMAIN t = 1 .. Len(t)
  BY <1>1, <1>2, LenProperties
<1>4. t \in [1 .. Len(t) -> Range(t)] /\ Len(t) \in Nat
  BY <1>1, <1>2, <1>3, LenProperties DEF Range
<1>5. t \in Seq(Range(t))
  <2> HIDE DEF t
  <2> QED BY <1>4, FunctionIsSeq
<1> QED BY <1>2, <1>3, <1>5

LEMMA ReadLegGood ==
  ASSUME IInv, ReadLeg
  PROVE  Good
<1> DEFINE r == NextRead
           c == r.source
<1>1. /\ Reading /\ Producing
      /\ UNCHANGED <<cfg, round, heap, store, skip, frames, results>>
  BY DEF ReadLeg, Reading
<1>2. /\ cfg \in Plans /\ SlotsOK /\ StoreOK /\ FramesOK /\ MakingOK /\ Safe
      /\ round \in 0 .. NEvals /\ skip \subseteq CellIds(table) /\ exn = "none"
      /\ frames # << >> /\ frames \in Seq(Frames)
      /\ Cell(making.cell).kind = "Build" /\ making.cell \in CellIds(table)
      /\ Cell(making.cell).persistent => ~Held(making.cell)
  BY <1>1, ProducingFacts
<1>3. /\ sched' = sched /\ table' = table /\ batches' = batches
      /\ CellIds(table)' = CellIds(table) /\ \A d : Cell(d)' = Cell(d)
  BY <1>1, Static
<1>4. c \in CellIds(table) /\ Min(making.left) \in ReadsOf(table, making.cell)
      /\ r = table.reads[Min(making.left)]
  BY <1>1, NextReadFacts
<1>5. CASE ReadThrows(Cell(c), slots[c])
  <2>1. exn' # "none" /\ slots' = slots /\ making' = making
    BY <1>5 DEF ReadLeg, Throw
  <2>2. SlotsOK' /\ StoreOK' /\ FramesOK' /\ MakingOK'
    BY <1>1, <1>2, <1>3, <2>1 DEF SlotsOK, StoreOK, FramesOK, MakingOK, Frames, RootFrame
  <2> QED BY <1>1, <1>2, <1>3, <2>1, <2>2, Thrown DEF StoreStands, HeldUnwritten
<1>6. CASE ~ReadThrows(Cell(c), slots[c])
  <2> DEFINE e == LegOf(r, slots[c].val)
  <2>1. /\ slots' = [slots EXCEPT ![c] = ReadSlot(Cell(c), @)] /\ exn' = exn
        /\ making' = [making EXCEPT !.left = @ \ {Min(@)}, !.legs = Append(@, e)]
    BY <1>6 DEF ReadLeg
  <2>2. /\ e.buf = slots[c].val /\ e.operand = r.operand /\ e.source = c
    BY DEF LegOf
  <2> HIDE DEF e, c, r
  <2>3. slots[c].val \in Nat /\ Held(c) /\ slots[c].val # NoBuf
    BY <1>2, <1>4, <1>6 DEF ReadThrows, SlotsOK, Held
  <2>4. Emptying
    <3>1. SUFFICES ASSUME NEW d \in CellIds(table)
          PROVE  Emptied(Cell(d), slots[d], slots'[d])
      BY <2>1 DEF Emptying
    <3>2. CASE d = c
      BY <1>2, <1>4, <2>1, <3>2, ReadEmpties DEF SlotsOK
    <3>3. CASE d # c
      BY <1>2, <2>1, <3>3 DEF SlotsOK, Emptied
    <3> QED BY <3>2, <3>3
  <2>5. /\ SlotsOK' /\ StoreOK' /\ Unshared' /\ StoreHeld'
        /\ \A d \in CellIds(table) : Held(d)' => Held(d) /\ slots'[d].val = slots[d].val
    BY <1>1, <1>2, <2>4, EmptyingKeeps DEF Safe
  <2>6. /\ making' = [cell |-> making.cell, left |-> making.left \ {Min(making.left)},
                      legs |-> Append(making.legs, e)]
    <3>1. making \in [cell : {making.cell}, left : {making.left}, legs : {making.legs}]
      BY <1>2 DEF MakingOK
    <3>2. making' \in [cell : {making.cell}, left : {making.left \ {Min(making.left)}},
                       legs : {Append(making.legs, e)}]
      BY <2>1, <3>1
    <3> QED BY <3>2
  <2>7. /\ making'.cell = making.cell /\ making'.left = making.left \ {Min(making.left)}
        /\ making'.legs = Append(making.legs, e)
    BY <2>6
  <2> DEFINE n == Len(making.legs)
  <2>8. /\ making'.legs \in Seq(Range(making'.legs)) /\ making'.legs # << >>
        /\ DOMAIN making'.legs = 1 .. n + 1 /\ DOMAIN making.legs = 1 .. n /\ n \in Nat
        /\ \A l \in DOMAIN making.legs : making'.legs[l] = making.legs[l]
        /\ making'.legs[n + 1] = e
    BY <1>2, <2>7, RangeAppend DEF MakingOK
  <2>9. \A l \in DOMAIN making'.legs : l \in DOMAIN making.legs \/ l = n + 1
    BY <2>8
  <2> HIDE DEF n
  <2>10. MakingOK'
    BY <1>2, <1>3, <2>2, <2>3, <2>6, <2>7, <2>8, <2>9 DEF MakingOK
  <2>11. frames' \in Seq(Frames')
    BY <1>1, <1>2, <1>3 DEF Frames, RootFrame
  <2>12. Control'
    BY <1>1, <1>2, <1>3 DEF Safe, Control, SharedStoreSlot
  <2>13. AccsPrivate'
    <3>1. AccsPrivate
      BY <1>2 DEF Safe
    <3>2. SUFFICES ASSUME NEW i \in DOMAIN frames, NEW k \in DOMAIN frames[i].acc,
                          frames[i].acc[k] # NoBuf
                   PROVE  /\ \A d \in CellIds(table) : slots'[d].val # frames[i].acc[k]
                          /\ \A l \in DOMAIN making'.legs : making'.legs[l].buf # frames[i].acc[k]
      BY <1>1, <1>3, <3>1 DEF AccsPrivate
    <3>3. \A d \in CellIds(table) : slots'[d].val # frames[i].acc[k]
      BY <2>5, <3>1, <3>2 DEF AccsPrivate, Held
    <3>4. \A l \in DOMAIN making'.legs : making'.legs[l].buf # frames[i].acc[k]
      BY <1>4, <2>2, <2>8, <2>9, <3>1, <3>2 DEF AccsPrivate
    <3> QED BY <3>3, <3>4
  <2>14. LegsPrivate'
    <3>1. LegsPrivate /\ Unshared
      BY <1>2 DEF Safe
    <3>2. SUFFICES ASSUME NEW l \in DOMAIN making'.legs
                   PROVE  /\ \E q \in ReadsOf(table, making.cell) :
                               /\ making'.legs[l].operand = table.reads[q].operand
                               /\ making'.legs[l].source = table.reads[q].source
                          /\ \A d \in CellIds(table) :
                               slots'[d].val = making'.legs[l].buf => d = making'.legs[l].source
      BY <1>3, <2>7 DEF LegsPrivate
    <3>3. CASE l \in DOMAIN making.legs
      <4>1. making'.legs[l] = making.legs[l] /\ making.legs[l].buf \in Nat
        BY <1>2, <2>8, <3>3 DEF MakingOK
      <4>2. making.legs[l].buf # NoBuf
        BY <4>1, BufsAssumption
      <4> QED BY <2>5, <3>1, <3>3, <4>1, <4>2 DEF LegsPrivate, Held
    <3>4. CASE l = n + 1
      <4>1. making'.legs[l] = e
        BY <2>8, <3>4
      <4>2. \A d \in CellIds(table) : slots'[d].val = slots[c].val => d = c
        BY <1>4, <2>3, <2>5, <3>1 DEF Unshared, Held
      <4> QED BY <1>4, <2>2, <4>1, <4>2 DEF c
    <3> QED BY <2>9, <3>3, <3>4
  <2>15. Alive'
    BY <1>1, <1>2, <1>3, <1>4, <2>2, <2>3, <2>5, <2>8, <2>9 DEF Safe, Alive, Held
  <2>16. BlocksOpen'
    BY <1>1, <1>2, <1>3 DEF Safe, BlocksOpen, IsOutputOf
  <2>17. InProduction'
    <3>1. InProduction /\ making # Nothing
      BY <1>1, <1>2 DEF Safe, Producing
    <3>2. Held(making.cell)' => Held(making.cell)
      BY <1>2, <2>5, <2>7 DEF Held
    <3> QED BY <1>1, <1>2, <1>3, <2>7, <2>8, <3>1, <3>2, <2>5
        DEF InProduction, Top, ThisStep, StepsOf, Held
  <2>18. OutputsOpen' /\ RootPending'
    <3>1. OutputsOpen'
      BY <1>1, <1>2, <1>3, <2>5 DEF Safe, OutputsOpen, Held, FramesOK
    <3>2. RootPending'
      BY <1>1, <1>2, <1>3, <2>5 DEF Safe, RootPending, RootProduces, Held
    <3> QED BY <3>1, <3>2
  <2>19. Safe'
    BY <2>5, <2>12, <2>13, <2>14, <2>15, <2>16, <2>17, <2>18 DEF Safe
  <2>20. IInv'
    BY <1>1, <1>2, <1>3, <2>5, <2>10, <2>11, <2>19, InvNext
  <2> QED BY <1>1, <2>20 DEF Good, StoreStands, HeldUnwritten
<1> QED BY <1>5, <1>6

LEMMA NatMax ==
  ASSUME NEW S \in SUBSET Nat, S # {}, NEW n \in Nat, \A x \in S : x <= n
  PROVE  \E x \in S : \A y \in S : y <= x
<1> DEFINE B == {m \in Nat : \A x \in S : x <= m}
<1>1. B \in SUBSET Nat /\ B # {}
  OBVIOUS
<1>2. PICK m \in B : \A o \in B : m <= o
  <2> HIDE DEF B
  <2> QED BY <1>1, NatMin
<1>3. m \in S
  <2>1. SUFFICES ASSUME m \notin S PROVE FALSE
    OBVIOUS
  <2>2. \A x \in S : x < m
    BY <2>1, <1>1, <1>2
  <2>3. m \in Nat /\ m # 0
    <3>1. PICK x \in S : x < m /\ x \in Nat
      BY <2>2
    <3> QED BY <3>1, <1>2
  <2>4. m - 1 \in B
    BY <2>2, <2>3
  <2> QED BY <1>2, <2>3, <2>4
<1> QED BY <1>2, <1>3

(* A sum that accumulates into its left operand's buffer writes where no   *)
(* cell looks.                                                             *)
LEMMA InPlaceUnheld ==
  ASSUME IInv, Producing, making.left = {}, InPlace(Cell(making.cell).vid, making.legs)
  PROVE  /\ 1 \in DOMAIN making.legs
         /\ \A c \in CellIds(table) : slots[c].val # making.legs[1].buf
<1> DEFINE legs == making.legs
           served == {i \in DOMAIN legs : legs[i].operand = legs[1].operand}
           last == CHOOSE i \in served : \A j \in served : j <= i
<1>1. /\ cfg \in Plans /\ MakingOK /\ Safe /\ ~sched.refused
  BY ProducingFacts
<1>2. legs # << >> /\ legs \in Seq(Range(legs))
  BY <1>1 DEF Safe, InProduction, Producing, MakingOK
<1>3. Len(legs) \in Nat /\ DOMAIN legs = 1 .. Len(legs) /\ 1 \in DOMAIN legs
  BY <1>2, LenProperties, EmptySeq
<1>4. last \in served
  <2>1. served \in SUBSET Nat /\ 1 \in served /\ \A i \in served : i <= Len(legs)
    BY <1>3
  <2>2. \E i \in served : \A j \in served : j <= i
    <3> HIDE DEF served
    <3> QED BY <1>3, <2>1, NatMax
  <2> QED BY <2>2
<1>5. legs[last].source = legs[1].source
  <2>1. last \in DOMAIN legs /\ legs[last].operand = legs[1].operand
    BY <1>4
  <2> HIDE DEF last
  <2>2. PICK r \in ReadsOf(table, making.cell) :
          legs[1].operand = table.reads[r].operand /\ legs[1].source = table.reads[r].source
    BY <1>1, <1>3 DEF Safe, LegsPrivate
  <2>3. PICK q \in ReadsOf(table, making.cell) :
          legs[last].operand = table.reads[q].operand
          /\ legs[last].source = table.reads[q].source
    BY <1>1, <2>1 DEF Safe, LegsPrivate
  <2>4. OneForm(table)
    BY <1>1, PlanFacts
  <2> QED BY <2>1, <2>2, <2>3, <2>4 DEF OneForm, ReadsOf
<1>6. slots[legs[1].source].val = NoBuf
  <2>1. Drained(Cell(legs[last].source), slots[legs[last].source])
    BY DEF InPlace
  <2> HIDE DEF last
  <2> QED BY <2>1, <1>5 DEF Drained
<1>7. legs[1].buf # NoBuf
  BY <1>1, <1>3, BufsAssumption DEF MakingOK
<1>8. \A c \in CellIds(table) : slots[c].val = legs[1].buf => c = legs[1].source
  BY <1>1, <1>3 DEF Safe, LegsPrivate
<1> QED BY <1>3, <1>6, <1>7, <1>8

LEMMA ProduceGood ==
  ASSUME IInv, Produce
  PROVE  Good
<1> DEFINE c == making.cell
           f == IF Top.phase = "outputs" THEN [Top EXCEPT !.phase = "fold"] ELSE NextStep
<1>1. /\ Producing /\ making.left = {} /\ making' = Nothing /\ SetTop(f)
      /\ UNCHANGED <<cfg, round, skip, results>>
  BY DEF Produce
<1>2. /\ cfg \in Plans /\ SlotsOK /\ StoreOK /\ FramesOK /\ MakingOK /\ Safe
      /\ round \in 0 .. NEvals /\ skip \subseteq CellIds(table) /\ exn = "none"
      /\ frames # << >> /\ frames \in Seq(Frames) /\ ~sched.refused
      /\ c \in CellIds(table) /\ Cell(c).kind = "Build" /\ (Cell(c).persistent => ~Held(c))
  BY <1>1, ProducingFacts
<1>3. /\ sched' = sched /\ table' = table /\ batches' = batches
      /\ CellIds(table)' = CellIds(table) /\ \A d : Cell(d)' = Cell(d)
  BY <1>1, Static
<1>4. PICK b \in Nat : \E x :
        /\ heap' = Written(heap, b, x) /\ SetCell(c, b) /\ b # NoBuf
        /\ \A d \in CellIds(table) : slots[d].val # b
        /\ \A i \in DOMAIN frames : \A k \in DOMAIN frames[i].acc : frames[i].acc[k] # b
  <2>1. PICK x : IF InPlace(Cell(c).vid, making.legs)
                 THEN /\ heap' = Written(heap, making.legs[1].buf, x)
                      /\ SetCell(c, making.legs[1].buf)
                 ELSE ProduceCell(c, x)
    BY DEF Produce
  <2>2. CASE InPlace(Cell(c).vid, making.legs)
    <3>1. /\ 1 \in DOMAIN making.legs
          /\ \A d \in CellIds(table) : slots[d].val # making.legs[1].buf
      BY <1>1, <2>2, InPlaceUnheld
    <3>2. making.legs[1].buf \in Nat /\ making.legs[1].buf # NoBuf
      BY <1>2, <3>1, BufsAssumption DEF MakingOK
    <3>3. \A i \in DOMAIN frames : \A k \in DOMAIN frames[i].acc :
            frames[i].acc[k] # making.legs[1].buf
      BY <1>2, <3>1, <3>2 DEF Safe, AccsPrivate
    <3> QED BY <2>1, <2>2, <3>1, <3>2, <3>3
  <2>3. CASE ~InPlace(Cell(c).vid, making.legs)
    <3> DEFINE b == Fresh(Referenced(slots))
    <3>1. heap' = Written(heap, b, x) /\ SetCell(c, b)
      BY <2>1, <2>3 DEF ProduceCell
    <3> HIDE DEF b
    <3>2. /\ b \in Nat /\ b # NoBuf
          /\ \A d \in CellIds(table) : slots[d].val # b
          /\ \A i \in DOMAIN frames : \A k \in DOMAIN frames[i].acc : frames[i].acc[k] # b
      BY <1>2, FreshBuffer DEF b
    <3> QED BY <3>1, <3>2
  <2> QED BY <2>2, <2>3
<1>5. DOMAIN heap' = DOMAIN heap \cup {b} /\ \A o \in DOMAIN heap : o # b => heap'[o] = heap[o]
  BY <1>4 DEF Written
<1> HIDE DEF c
<1>6. /\ SlotsOK' /\ StoreOK' /\ DOMAIN slots' = DOMAIN slots /\ StoreStands
      /\ \A d \in CellIds(table) : d # c => slots'[d] = slots[d]
      /\ exn' = "none" => slots'[c].val = b /\ Unshared' /\ StoreHeld'
  BY <1>1, <1>2, <1>4, SetCellKeeps
<1>7. HeldUnwritten
  BY <1>2, <1>4, <1>5 DEF HeldUnwritten, Safe, Alive, Held, SlotsOK
<1>8. MakingOK' /\ making'.legs = << >> /\ DOMAIN making'.legs = {}
  BY <1>1, EmptySeq DEF MakingOK, Nothing
<1>9. /\ Len(frames) \in Nat \ {0} /\ DOMAIN frames = 1 .. Len(frames)
      /\ Len(frames) \in DOMAIN frames /\ Top \in Frames /\ Top = frames[Len(frames)]
  BY <1>2, TopFacts
<1>10. /\ InProduction /\ BlocksOpen /\ making # Nothing
  BY <1>1, <1>2 DEF Safe, Producing
<1>11. /\ f \in Frames /\ f.block = Top.block /\ f.cells = Top.cells /\ f.acc = Top.acc
       /\ f.vskip = Top.vskip /\ f.outSkip = Top.outSkip
       /\ Top.phase = "outputs" => f.phase = "fold" /\ f.pc = Top.pc /\ Top.pc \in DOMAIN Top.cells
       /\ Top.phase # "outputs" => /\ f.phase = Top.phase /\ f.pc = Top.pc + 1
                                   /\ Top.phase \in {"root", "steps"}
  <2>1. Top.pc \in Nat \ {0} /\ Top.pc + 1 \in Nat \ {0}
    BY <1>9 DEF Frames
  <2>2. CASE Top.phase = "outputs"
    <3>1. f = [Top EXCEPT !.phase = "fold"]
      BY <2>2
    <3> HIDE DEF f
    <3> QED BY <1>9, <1>10, <2>2, <3>1 DEF Frames, Phases, InProduction
  <2>3. CASE Top.phase # "outputs"
    <3>1. f = [Top EXCEPT !.pc = Top.pc + 1]
      BY <2>3 DEF NextStep
    <3> HIDE DEF f
    <3> QED BY <1>9, <1>10, <2>1, <2>3, <3>1 DEF Frames, InProduction
  <2> QED BY <2>2, <2>3
<1> HIDE DEF f
<1>12. KeepsBlock(f)
  BY <1>1, <1>11 DEF KeepsBlock
<1>13. /\ frames' \in Seq(Frames') /\ frames' # << >> /\ Len(frames') = Len(frames)
       /\ DOMAIN frames' = DOMAIN frames /\ 1 \in DOMAIN frames
       /\ \A i \in DOMAIN frames : frames'[i] = IF i = Len(frames) THEN f ELSE frames[i]
       /\ \A i \in DOMAIN frames :
            /\ frames'[i].block = frames[i].block /\ frames'[i].cells = frames[i].cells
            /\ frames'[i].outSkip = frames[i].outSkip /\ frames'[i].acc = frames[i].acc
       /\ BlocksOpen'
  BY <1>1, <1>2, <1>10, <1>11, <1>12, TopMoved
<1>14. round' \in 0 .. NEvals /\ skip' \subseteq CellIds(table)' /\ cfg' \in Plans
  BY <1>1, <1>2, <1>3
<1>15. CASE exn' # "none"
  BY <1>6, <1>7, <1>8, <1>13, <1>14, <1>15, InvNext DEF Good
<1>16. CASE exn' = "none"
  <2>1. /\ slots'[c].val = b /\ Unshared' /\ StoreHeld'
        /\ \A d \in CellIds(table) : d # c => slots'[d] = slots[d]
    BY <1>6, <1>16
  <2>2. Control'
    BY <1>1, <1>2, <1>3, <1>13 DEF Safe, Control, SharedStoreSlot
  <2>3. AccsPrivate'
    BY <1>2, <1>3, <1>4, <1>8, <1>13, <2>1 DEF Safe, AccsPrivate
  <2>4. LegsPrivate' /\ InProduction'
    BY <1>1, <1>8 DEF LegsPrivate, InProduction
  <2>5. Alive'
    BY <1>2, <1>3, <1>5, <1>8, <1>13, <2>1 DEF Safe, Alive, Held
  <2>6. OutputsOpen'
    <3>1. SUFFICES ASSUME NEW i \in DOMAIN frames, NEW k \in DOMAIN frames[i].cells,
                          k \notin frames[i].outSkip,
                          frames'[i].phase = "close" => frames'[i].pc <= k,
                          Cell(frames[i].cells[k]).persistent
                   PROVE  slots'[frames[i].cells[k]].val = NoBuf
      BY <1>3, <1>13 DEF OutputsOpen, Held, Cell
    <3>2. frames[i].phase = "close" => frames[i].pc <= k
      BY <1>9, <1>11, <1>13, <3>1
    <3>3. ~Held(frames[i].cells[k])
      BY <1>2, <3>1, <3>2 DEF Safe, OutputsOpen
    <3>4. frames[i].cells[k] \in CellIds(table) /\ Cell(frames[i].cells[k]).kind = "Assemble"
      <4>1. frames[i].cells[k] \in CellIds(table)
        BY <1>2 DEF FramesOK
      <4>2. i = 1 \/ i \in 2 .. Len(frames)
        BY <1>9
      <4>3. i # 1
        BY <1>2, <1>10, <3>1 DEF BlocksOpen
      <4> QED BY <1>10, <4>1, <4>2, <4>3 DEF BlocksOpen, IsOutputOf
    <3>5. frames[i].cells[k] # c
      BY <1>2, <3>4 DEF c
    <3> QED BY <2>1, <3>3, <3>4, <3>5 DEF Held
  <2>7. RootPending'
    <3>1. RootPending
      BY <1>2 DEF Safe
    <3>2. /\ frames[1].pc \in Nat /\ frames'[1].pc \in {frames[1].pc, frames[1].pc + 1}
          /\ Len(frames) = 1 => frames'[1].pc = frames[1].pc + 1
      <4>1. frames[1].pc \in Nat
        BY <1>2, <1>13 DEF FramesOK
      <4>2. CASE Len(frames) = 1
        <5>1. Top.phase = "root" /\ frames'[1] = f /\ Top = frames[1]
          BY <1>2, <1>9, <1>10, <1>13, <4>2 DEF BlocksOpen
        <5> QED BY <1>11, <4>1, <5>1
      <4>3. CASE Len(frames) # 1
        BY <1>13, <4>1, <4>3
      <4> QED BY <4>1, <4>2, <4>3
    <3>3. /\ Len(sched.root) \in Nat /\ DOMAIN sched.root = 1 .. Len(sched.root)
          /\ SingleProducer(sched.root)
      BY <1>2, PlanFacts
    <3>4. SUFFICES ASSUME NEW j \in DOMAIN sched.root, frames'[1].pc <= j,
                          NEW d \in CellIds(table), RootProduces(j, d),
                          Cell(d).persistent, slots'[d].val # NoBuf
                   PROVE  d \in skip
      BY <1>1, <1>3 DEF RootPending, RootProduces, Held
    <3>5. frames[1].pc <= j
      BY <3>2, <3>3, <3>4
    <3>6. d # c
      <4>1. SUFFICES ASSUME d = c PROVE FALSE
        OBVIOUS
      <4>2. Cell(c).scope = << >> /\ IsBuild(sched.root[j]) /\ Cell(c).vid = sched.root[j].vid
        BY <1>2, <3>4, <4>1 DEF RootProduces
      <4>3. DOMAIN Cell(c).scope = 1 .. Len(frames) - 1
        BY <1>10 DEF InProduction, c
      <4>4. Len(frames) = 1
        <5>1. 1 .. Len(frames) - 1 = {}
          BY <4>2, <4>3
        <5>2. CASE Len(frames) # 1
          <6>1. Len(frames) > 1 /\ 1 \in 1 .. Len(frames) - 1
            BY <1>9, <5>2, OneOrMore
          <6> QED BY <5>1, <6>1
        <5> QED BY <5>2
      <4>5. Top.phase = "root" /\ Top = frames[1]
        BY <1>2, <1>9, <1>10, <4>4 DEF BlocksOpen
      <4>6. /\ Top.pc \in DOMAIN sched.root /\ IsBuild(sched.root[Top.pc])
            /\ Cell(c).vid = sched.root[Top.pc].vid
        BY <1>10, <4>5 DEF InProduction, StepsOf, ThisStep, c
      <4>7. j # Top.pc
        BY <3>2, <3>3, <3>4, <4>4, <4>5
      <4> QED BY <3>3, <4>2, <4>6, <4>7 DEF SingleProducer
    <3> QED BY <1>2, <2>1, <3>1, <3>4, <3>5, <3>6 DEF RootPending, Held
  <2>8. Safe'
    BY <1>13, <2>1, <2>2, <2>3, <2>4, <2>5, <2>6, <2>7 DEF Safe
  <2> QED BY <1>6, <1>7, <1>8, <1>13, <1>14, <2>8, InvNext DEF Good
<1> QED BY <1>15, <1>16

(* The frame an output leaves behind.                                      *)
LEMMA OutputFrame ==
  ASSUME IInv, Running, Top.phase \in {"fold", "close"}, Top.pc \in DOMAIN Top.cells,
         NEW b \in Nat \cup {NoBuf}, NEW ph \in {"outputs", "close"}, NEW f,
         \/ f = [NextStep EXCEPT !.phase = "outputs", !.acc[Top.pc] = b] /\ ph = "outputs"
         \/ f = [NextStep EXCEPT !.acc[Top.pc] = b] /\ ph = Top.phase,
         SetTop(f)
  PROVE  /\ KeepsBlock(f) /\ f.phase = ph /\ f.pc = Top.pc + 1
         /\ f.acc = [Top.acc EXCEPT ![Top.pc] = b]
<1>1. /\ Top \in Frames /\ Top.pc \in Nat \ {0} /\ Top.pc + 1 \in Nat \ {0}
      /\ DOMAIN Top.acc = DOMAIN Top.cells
  BY RunningFacts, OutputFacts
<1> DEFINE acc == [Top.acc EXCEPT ![Top.pc] = b]
<1>2. acc \in Seq(Nat \cup {NoBuf}) /\ DOMAIN acc = DOMAIN Top.acc
  <2>1. Top.acc \in Seq(Nat \cup {NoBuf})
    BY <1>1 DEF Frames
  <2>2. Top.pc \in 1 .. Len(Top.acc)
    BY <1>1, <2>1, LenProperties
  <2> QED BY <2>1, <2>2, ExceptSeq
<1>3. /\ NextStep \in Frames /\ NextStep.pc = Top.pc + 1 /\ NextStep.phase = Top.phase
      /\ NextStep.block = Top.block /\ NextStep.cells = Top.cells /\ NextStep.acc = Top.acc
      /\ NextStep.vskip = Top.vskip /\ NextStep.outSkip = Top.outSkip
  BY <1>1 DEF NextStep, Frames
<1>4. \/ f = [NextStep EXCEPT !.phase = "outputs", !.acc = acc] /\ ph = "outputs"
      \/ f = [NextStep EXCEPT !.acc = acc] /\ ph = Top.phase
  <2>1. CASE f = [NextStep EXCEPT !.phase = "outputs", !.acc[Top.pc] = b] /\ ph = "outputs"
    <3>1. f = [NextStep EXCEPT !.phase = "outputs", !.acc = [NextStep.acc EXCEPT ![Top.pc] = b]]
      BY <2>1
    <3> QED BY <2>1, <3>1, <1>3
  <2>2. CASE f = [NextStep EXCEPT !.acc[Top.pc] = b] /\ ph = Top.phase
    <3>1. f = [NextStep EXCEPT !.acc = [NextStep.acc EXCEPT ![Top.pc] = b]]
      BY <2>2
    <3> QED BY <2>2, <3>1, <1>3
  <2> QED BY <2>1, <2>2
<1> HIDE DEF acc
<1>5. /\ f \in Frames /\ f.block = Top.block /\ f.cells = Top.cells /\ f.acc = acc
      /\ f.vskip = Top.vskip /\ f.outSkip = Top.outSkip /\ f.phase = ph /\ f.pc = Top.pc + 1
  <2>1. CASE f = [NextStep EXCEPT !.phase = "outputs", !.acc = acc] /\ ph = "outputs"
    BY <1>2, <1>3, <2>1 DEF Frames, Phases
  <2>2. CASE f = [NextStep EXCEPT !.acc = acc] /\ ph = Top.phase
    BY <1>2, <1>3, <2>2 DEF Frames, Phases
  <2> QED BY <1>4, <2>1, <2>2
<1> QED BY <1>1, <1>2, <1>5 DEF KeepsBlock, acc

LEMMA FoldStepGood ==
  ASSUME IInv, FoldStep
  PROVE  Good
<1> DEFINE n == Len(frames)
           k0 == Top.pc
           a == ThisOutputCell
           c == Cell(a).source
<1>1. /\ Running /\ Top.phase = "fold"
      /\ UNCHANGED <<cfg, round, store, skip, making, results>>
  BY DEF FoldStep
<1>2. /\ cfg \in Plans /\ SlotsOK /\ StoreOK /\ FramesOK /\ MakingOK /\ Safe
      /\ round \in 0 .. NEvals /\ skip \subseteq CellIds(table) /\ exn = "none"
      /\ frames # << >> /\ frames \in Seq(Frames) /\ making = Nothing
      /\ n \in Nat \ {0} /\ DOMAIN frames = 1 .. n /\ Top \in Frames /\ Top = frames[n]
      /\ n \in DOMAIN frames /\ Top.pc \in Nat
  BY <1>1, RunningFacts
<1>3. /\ sched' = sched /\ table' = table /\ batches' = batches
      /\ CellIds(table)' = CellIds(table) /\ \A d : Cell(d)' = Cell(d)
  BY <1>1, Static
<1>4. /\ k0 \in DOMAIN Top.cells /\ DOMAIN Top.acc = DOMAIN Top.cells
      /\ a \in CellIds(table) /\ Cell(a).kind = "Assemble"
  BY <1>1, OutputFacts DEF ThisOutputCell, IsOutputOf
<1>5. c \in CellIds(table)
  BY <1>1, <1>4, SourceFacts
<1> HIDE DEF a
<1>6. CASE ReadThrows(Cell(c), slots[c])
  <2>1. exn' # "none" /\ slots' = slots /\ heap' = heap /\ frames' = frames
    BY <1>6 DEF FoldStep, Throw, a
  <2>2. SlotsOK' /\ StoreOK' /\ FramesOK' /\ MakingOK'
    BY <1>1, <1>2, <1>3, <2>1 DEF SlotsOK, StoreOK, FramesOK, MakingOK, Frames, RootFrame
  <2> QED BY <1>1, <1>2, <1>3, <2>1, <2>2, Thrown DEF StoreStands, HeldUnwritten
<1>7. CASE ~ReadThrows(Cell(c), slots[c])
  <2> DEFINE prior == Top.acc[k0]
             part == slots[c].val
             exhausts == ReadExhausts(Cell(c), slots[c])
             b == AccTarget(a, prior, part, exhausts)
             f == [NextStep EXCEPT !.phase = "outputs", !.acc[Top.pc] = b]
  <2>1. PICK x : /\ slots' = [slots EXCEPT ![c] = ReadSlot(Cell(c), @)] /\ exn' = exn
                 /\ heap' = Written(heap, b, x) /\ SetTop(f)
    BY <1>7 DEF FoldStep, a
  <2> HIDE DEF c
  <2>2. part \in Nat /\ part # NoBuf
    BY <1>2, <1>5, <1>7 DEF ReadThrows, SlotsOK
  <2>3. Emptying
    <3>1. SUFFICES ASSUME NEW d \in CellIds(table)
          PROVE  Emptied(Cell(d), slots[d], slots'[d])
      BY <2>1 DEF Emptying
    <3>2. CASE d = c
      BY <1>2, <1>5, <2>1, <3>2, ReadEmpties DEF SlotsOK
    <3>3. CASE d # c
      BY <1>2, <2>1, <3>3 DEF SlotsOK, Emptied
    <3> QED BY <3>2, <3>3
  <2>4. /\ SlotsOK' /\ StoreOK' /\ Unshared' /\ StoreHeld'
        /\ \A d \in CellIds(table) : Held(d)' => Held(d) /\ slots'[d].val = slots[d].val
    BY <1>1, <1>2, <2>3, EmptyingKeeps DEF Safe
  <2>5. /\ b \in Nat
        /\ \A d \in CellIds(table) : slots'[d].val # b
        /\ \A d \in CellIds(table) : Held(d) /\ slots'[d] = slots[d] => slots[d].val # b
        /\ \A i \in DOMAIN frames : \A k \in DOMAIN frames[i].acc :
             frames[i].acc[k] = b => i = n /\ k = k0
    <3>1. AccsPrivate /\ Unshared
      BY <1>2 DEF Safe
    <3>2. CASE prior # NoBuf
      <4>1. b = prior /\ prior \in Nat
        BY <1>2, <1>4, <3>2 DEF AccTarget, FramesOK
      <4> QED BY <1>2, <1>4, <2>4, <3>1, <3>2, <4>1 DEF AccsPrivate, Held
    <3>3. CASE prior = NoBuf /\ Cell(a).asm = "Sum" /\ exhausts
      <4>1. b = part
        BY <3>3 DEF AccTarget
      <4>2. slots'[c].val = NoBuf /\ slots'[c] # slots[c]
        <5>1. slots'[c] = ReadSlot(Cell(c), slots[c])
          BY <1>2, <1>5, <2>1 DEF SlotsOK
        <5>2. ReadSlot(Cell(c), slots[c]).val = NoBuf
          BY <3>3 DEF ReadSlot, ReadExhausts
        <5> QED BY <2>2, <5>1, <5>2
      <4>3. \A d \in CellIds(table) : d # c => slots[d].val # part
        BY <1>5, <2>2, <3>1 DEF Unshared, Held
      <4>4. \A i \in DOMAIN frames : \A k \in DOMAIN frames[i].acc : frames[i].acc[k] # part
        BY <1>5, <2>2, <3>1 DEF AccsPrivate
      <4> HIDE DEF b, part
      <4>5. \A d \in CellIds(table) : slots'[d].val # b
        BY <2>2, <2>4, <4>1, <4>2, <4>3 DEF Held
      <4> QED BY <2>2, <4>1, <4>2, <4>3, <4>4, <4>5
    <3>4. CASE prior = NoBuf /\ ~(Cell(a).asm = "Sum" /\ exhausts)
      <4>1. b = Fresh(Referenced(slots))
        BY <3>4 DEF AccTarget
      <4> HIDE DEF b
      <4>2. /\ b \in Nat /\ b # NoBuf /\ \A d \in CellIds(table) : slots[d].val # b
            /\ \A i \in DOMAIN frames : \A k \in DOMAIN frames[i].acc : frames[i].acc[k] # b
        BY <1>2, <4>1, FreshBuffer
      <4> QED BY <2>4, <4>2 DEF Held
    <3> QED BY <3>2, <3>3, <3>4
  <2> HIDE DEF b
  <2>6. b # NoBuf
    BY <2>5, BufsAssumption
  <2>7. DOMAIN heap' = DOMAIN heap \cup {b} /\ \A o \in DOMAIN heap : o # b => heap'[o] = heap[o]
    BY <2>1 DEF Written
  <2>8. HeldUnwritten
    BY <1>2, <2>5, <2>7 DEF HeldUnwritten, Safe, Alive, Held, SlotsOK
  <2>9. /\ KeepsBlock(f) /\ f.phase = "outputs" /\ f.pc = Top.pc + 1
        /\ f.acc = [Top.acc EXCEPT ![Top.pc] = b]
    BY <1>1, <1>4, <2>1, <2>5, OutputFrame
  <2> HIDE DEF f
  <2>10. BlocksOpen
    BY <1>2 DEF Safe
  <2>11. /\ frames' \in Seq(Frames') /\ frames' # << >> /\ Len(frames') = n
         /\ DOMAIN frames' = DOMAIN frames /\ 1 \in DOMAIN frames
         /\ \A i \in DOMAIN frames : frames'[i] = IF i = n THEN f ELSE frames[i]
         /\ \A i \in DOMAIN frames :
              /\ frames'[i].block = frames[i].block /\ frames'[i].cells = frames[i].cells
              /\ frames'[i].outSkip = frames[i].outSkip
              /\ DOMAIN frames'[i].acc = DOMAIN frames[i].acc
              /\ frames'[i].phase = "root" <=> frames[i].phase = "root"
         /\ BlocksOpen'
    BY <1>1, <1>2, <2>9, <2>10, TopMoved
  <2>12. \A i \in DOMAIN frames : \A k \in DOMAIN frames[i].acc :
           frames'[i].acc[k] = IF i = n /\ k = k0 THEN b ELSE frames[i].acc[k]
    BY <1>2, <1>4, <2>9, <2>11
  <2>13. Control'
    BY <1>1, <1>2, <1>3, <2>1, <2>11 DEF Safe, Control, SharedStoreSlot
  <2>14. MakingOK' /\ DOMAIN making.legs = {}
    BY <1>1, <1>2, <1>3 DEF MakingOK, Nothing
  <2>15. LegsPrivate' /\ InProduction'
    BY <1>1, <1>2, <2>14 DEF LegsPrivate, InProduction
  <2>16. AccsPrivate'
    <3>1. AccsPrivate
      BY <1>2 DEF Safe
    <3>2. SUFFICES ASSUME NEW i \in DOMAIN frames, NEW k \in DOMAIN frames[i].acc,
                          frames'[i].acc[k] # NoBuf
                   PROVE  /\ \A d \in CellIds(table) : slots'[d].val # frames'[i].acc[k]
                          /\ \A j \in DOMAIN frames : \A m \in DOMAIN frames[j].acc :
                               frames'[j].acc[m] = frames'[i].acc[k] => i = j /\ k = m
      BY <1>1, <1>3, <2>11, <2>14 DEF AccsPrivate
    <3>3. CASE i = n /\ k = k0
      BY <1>2, <1>4, <2>5, <2>12, <3>3
    <3>4. CASE ~(i = n /\ k = k0)
      <4>1. frames'[i].acc[k] = frames[i].acc[k] /\ frames[i].acc[k] # b
        BY <2>5, <2>12, <3>4
      <4>2. \A d \in CellIds(table) : slots'[d].val # frames[i].acc[k]
        BY <2>4, <3>1, <3>2, <4>1 DEF AccsPrivate, Held
      <4>3. \A j \in DOMAIN frames : \A m \in DOMAIN frames[j].acc :
              frames[j].acc[m] = frames[i].acc[k] => i = j /\ k = m
        BY <3>1, <3>2, <4>1 DEF AccsPrivate
      <4> QED BY <2>12, <4>1, <4>2, <4>3
    <3> QED BY <3>3, <3>4
  <2>17. Alive'
    BY <1>1, <1>2, <1>3, <2>4, <2>7, <2>11, <2>12, <2>14 DEF Safe, Alive, Held
  <2>18. OutputsOpen'
    <3>1. SUFFICES ASSUME NEW i \in DOMAIN frames, NEW k \in DOMAIN frames[i].cells,
                          k \notin frames[i].outSkip,
                          frames'[i].phase = "close" => frames'[i].pc <= k,
                          Cell(frames[i].cells[k]).persistent
                   PROVE  slots'[frames[i].cells[k]].val = NoBuf
      BY <1>3, <2>11 DEF OutputsOpen, Held, Cell
    <3>2. frames[i].phase = "close" => frames[i].pc <= k
      BY <1>1, <1>2, <2>11, <3>1
    <3>3. ~Held(frames[i].cells[k])
      BY <1>2, <3>1, <3>2 DEF Safe, OutputsOpen
    <3>4. frames[i].cells[k] \in CellIds(table)
      BY <1>2 DEF FramesOK
    <3> QED BY <2>4, <3>3, <3>4 DEF Held
  <2>19. RootPending'
    <3>1. n # 1
      BY <1>1, <1>2, <2>10 DEF BlocksOpen
    <3>2. frames'[1] = frames[1]
      BY <2>11, <3>1
    <3> QED BY <1>1, <1>2, <1>3, <2>4, <3>2 DEF Safe, RootPending, RootProduces, Held
  <2>20. Safe'
    BY <2>4, <2>11, <2>13, <2>15, <2>16, <2>17, <2>18, <2>19 DEF Safe
  <2>21. IInv'
    BY <1>1, <1>2, <1>3, <2>4, <2>11, <2>14, <2>20, InvNext
  <2> QED BY <1>1, <2>8, <2>21 DEF Good, StoreStands
<1> QED BY <1>6, <1>7
LEMMA CloseOutputGood ==
  ASSUME IInv, CloseOutput
  PROVE  Good
<1> DEFINE n == Len(frames)
           k0 == Top.pc
           a == ThisOutputCell
           b == Top.acc[k0]
           f == [NextStep EXCEPT !.acc[Top.pc] = NoBuf]
<1>1. /\ Running /\ Top.phase = "close" /\ Top.pc <= Len(Top.cells) /\ SetTop(f)
      /\ UNCHANGED <<cfg, round, heap, skip, making, results>>
  BY DEF CloseOutput, Closing
<1>2. /\ cfg \in Plans /\ SlotsOK /\ StoreOK /\ FramesOK /\ MakingOK /\ Safe
      /\ round \in 0 .. NEvals /\ skip \subseteq CellIds(table) /\ exn = "none"
      /\ frames # << >> /\ frames \in Seq(Frames) /\ making = Nothing
      /\ n \in Nat \ {0} /\ DOMAIN frames = 1 .. n /\ Top = frames[n] /\ n \in DOMAIN frames
      /\ k0 \in Nat \ {0}
  BY <1>1, RunningFacts
<1>3. /\ sched' = sched /\ table' = table /\ batches' = batches
      /\ CellIds(table)' = CellIds(table) /\ \A d : Cell(d)' = Cell(d)
  BY <1>1, Static
<1>4. /\ n \in 2 .. n /\ Top.block \in cfg.blocks
      /\ k0 \in DOMAIN Top.cells /\ DOMAIN Top.acc = DOMAIN Top.cells
      /\ DOMAIN Top.cells = DOMAIN Top.block.outputs
      /\ a \in CellIds(table) /\ a = Top.cells[k0] /\ IsOutputOf(a, n, k0)
  BY <1>1, <1>2, OutputFacts DEF ThisOutputCell
<1>5. b \in Nat \cup {NoBuf}
  BY <1>2, <1>4 DEF FramesOK
<1>6. /\ k0 \in Top.outSkip => slots' = slots /\ store' = store /\ exn' = exn
      /\ k0 \notin Top.outSkip /\ b = NoBuf =>
           slots' = slots /\ store' = store /\ exn' # "none"
      /\ k0 \notin Top.outSkip /\ b # NoBuf => SetCell(a, b)
  BY DEF CloseOutput, Throw
<1>7. /\ KeepsBlock(f) /\ f.phase = "close" /\ f.pc = k0 + 1
      /\ f.acc = [Top.acc EXCEPT ![k0] = NoBuf]
  BY <1>1, <1>4, OutputFrame
<1> HIDE DEF f, a
<1>8. BlocksOpen /\ AccsPrivate /\ OutputsOpen /\ Alive
  BY <1>2 DEF Safe
<1>9. /\ frames' \in Seq(Frames') /\ frames' # << >> /\ Len(frames') = n
      /\ DOMAIN frames' = DOMAIN frames /\ 1 \in DOMAIN frames
      /\ \A i \in DOMAIN frames : frames'[i] = IF i = n THEN f ELSE frames[i]
      /\ \A i \in DOMAIN frames :
           /\ frames'[i].block = frames[i].block /\ frames'[i].cells = frames[i].cells
           /\ frames'[i].outSkip = frames[i].outSkip
           /\ DOMAIN frames'[i].acc = DOMAIN frames[i].acc
      /\ BlocksOpen'
  BY <1>1, <1>2, <1>7, <1>8, TopMoved
<1>10. \A i \in DOMAIN frames : \A k \in DOMAIN frames[i].acc :
         frames'[i].acc[k] = IF i = n /\ k = k0 THEN NoBuf ELSE frames[i].acc[k]
  BY <1>2, <1>4, <1>7, <1>9
<1>11. k0 \notin Top.outSkip /\ Cell(a).persistent => ~Held(a)
  BY <1>1, <1>2, <1>4, <1>8 DEF OutputsOpen
<1>12. b # NoBuf => \A d \in CellIds(table) : slots[d].val # b
  BY <1>2, <1>4, <1>8 DEF AccsPrivate
<1>13. /\ SlotsOK' /\ StoreOK' /\ StoreStands
       /\ \A d \in CellIds(table) : d # a => slots'[d] = slots[d]
       /\ exn' = "none" => Unshared' /\ StoreHeld' /\ slots'[a].val \in {slots[a].val, b}
       /\ exn' = "none" /\ k0 \in Top.outSkip => slots' = slots
  <2>1. CASE k0 \notin Top.outSkip /\ b # NoBuf
    <3>1. b \in Nat /\ SetCell(a, b)
      BY <1>5, <1>6, <2>1
    <3> HIDE DEF b
    <3> QED BY <1>1, <1>2, <1>4, <1>11, <1>12, <2>1, <3>1, SetCellKeeps
  <2>2. CASE ~(k0 \notin Top.outSkip /\ b # NoBuf)
    <3>1. slots' = slots /\ store' = store
      BY <1>6, <2>2
    <3> QED BY <1>2, <1>3, <3>1
        DEF SlotsOK, StoreOK, StoreStands, Safe, Unshared, StoreHeld, Held
  <2> QED BY <2>1, <2>2
<1>14. HeldUnwritten
  BY <1>1 DEF HeldUnwritten
<1>15. MakingOK' /\ DOMAIN making.legs = {}
  BY <1>1, <1>2, <1>3 DEF MakingOK, Nothing
<1>16. round' \in 0 .. NEvals /\ skip' \subseteq CellIds(table)' /\ cfg' \in Plans
  BY <1>1, <1>2, <1>3
<1>17. CASE exn' # "none"
  BY <1>9, <1>13, <1>14, <1>15, <1>16, <1>17, InvNext DEF Good
<1>18. CASE exn' = "none"
  <2>1. /\ Unshared' /\ StoreHeld' /\ slots'[a].val \in {slots[a].val, b}
        /\ k0 \in Top.outSkip => slots' = slots
    BY <1>13, <1>18
  <2>2. Control'
    BY <1>1, <1>2, <1>3, <1>9 DEF Safe, Control, SharedStoreSlot
  <2>3. LegsPrivate' /\ InProduction'
    BY <1>1, <1>2, <1>15 DEF LegsPrivate, InProduction
  <2>4. AccsPrivate'
    <3>1. SUFFICES ASSUME NEW i \in DOMAIN frames, NEW k \in DOMAIN frames[i].acc,
                          frames'[i].acc[k] # NoBuf
                   PROVE  /\ \A d \in CellIds(table) : slots'[d].val # frames'[i].acc[k]
                          /\ \A j \in DOMAIN frames : \A m \in DOMAIN frames[j].acc :
                               frames'[j].acc[m] = frames'[i].acc[k] => i = j /\ k = m
      BY <1>1, <1>3, <1>9, <1>15 DEF AccsPrivate
    <3>2. frames'[i].acc[k] = frames[i].acc[k] /\ frames[i].acc[k] # NoBuf
      BY <1>10, <3>1
    <3>3. frames[i].acc[k] # b
      <4>1. ~(i = n /\ k = k0)
        BY <1>10, <3>1
      <4>2. b = frames[n].acc[k0] /\ k0 \in DOMAIN frames[n].acc
        BY <1>2, <1>4
      <4> HIDE DEF b
      <4> QED BY <1>2, <1>8, <3>2, <4>1, <4>2 DEF AccsPrivate
    <3>4. \A d \in CellIds(table) : slots[d].val # frames[i].acc[k]
      BY <1>8, <3>2 DEF AccsPrivate
    <3>5. \A d \in CellIds(table) : slots'[d].val # frames[i].acc[k]
      BY <1>13, <2>1, <3>3, <3>4
    <3>6. \A j \in DOMAIN frames : \A m \in DOMAIN frames[j].acc :
            frames[j].acc[m] = frames[i].acc[k] => i = j /\ k = m
      BY <1>8, <3>2 DEF AccsPrivate
    <3> QED BY <1>10, <3>2, <3>5, <3>6
  <2>5. Alive'
    <3>1. \A d \in CellIds(table) : slots'[d].val # NoBuf => slots'[d].val \in DOMAIN heap
      <4>1. b # NoBuf => b \in DOMAIN heap
        BY <1>2, <1>4, <1>8 DEF Alive
      <4> QED BY <1>4, <1>8, <1>13, <2>1, <4>1 DEF Alive, Held
    <3>2. \A i \in DOMAIN frames : \A k \in DOMAIN frames[i].acc :
            frames'[i].acc[k] # NoBuf => frames'[i].acc[k] \in DOMAIN heap
      BY <1>8, <1>10 DEF Alive
    <3> QED BY <1>1, <1>3, <1>9, <1>15, <3>1, <3>2 DEF Alive, Held
  <2>6. OutputsOpen'
    <3>1. SUFFICES ASSUME NEW i \in DOMAIN frames, NEW k \in DOMAIN frames[i].cells,
                          k \notin frames[i].outSkip,
                          frames'[i].phase = "close" => frames'[i].pc <= k,
                          Cell(frames[i].cells[k]).persistent
                   PROVE  slots'[frames[i].cells[k]].val = NoBuf
      BY <1>3, <1>9 DEF OutputsOpen, Held, Cell
    <3>2. /\ frames[i].cells[k] \in CellIds(table) /\ k \in Nat
          /\ i \in 2 .. n /\ IsOutputOf(frames[i].cells[k], i, k)
      <4>1. frames[i].cells[k] \in CellIds(table) /\ k \in Nat
        BY <1>2 DEF FramesOK
      <4>2. i = 1 \/ i \in 2 .. n
        BY <1>2
      <4>3. i # 1
        BY <1>2, <1>8, <3>1 DEF BlocksOpen
      <4> QED BY <1>8, <4>1, <4>2, <4>3 DEF BlocksOpen
    <3>3. i = n => k # k0 /\ k0 <= k
      BY <1>2, <1>7, <1>9, <3>1, <3>2
    <3>4. frames[i].phase = "close" => frames[i].pc <= k
      BY <1>2, <1>9, <3>1, <3>3
    <3>5. ~Held(frames[i].cells[k])
      BY <1>8, <3>1, <3>4 DEF OutputsOpen
    <3>6. frames[i].cells[k] # a
      <4>1. CASE i = n
        <5>1. OutputsDistinct(Top.block)
          BY <1>2, <1>4, PlanFacts DEF Safe, Control
        <5>2. /\ Cell(frames[i].cells[k]).vid = Top.block.outputs[k][1]
              /\ Cell(a).vid = Top.block.outputs[k0][1] /\ k \in DOMAIN Top.block.outputs
          BY <1>2, <1>4, <3>1, <3>2, <4>1 DEF IsOutputOf
        <5> QED BY <1>4, <3>3, <4>1, <5>1, <5>2 DEF OutputsDistinct
      <4>2. CASE i # n
        <5>1. /\ DOMAIN Cell(frames[i].cells[k]).scope = 1 .. i - 2
              /\ DOMAIN Cell(a).scope = 1 .. n - 2
          BY <1>4, <3>2 DEF IsOutputOf
        <5>2. i \in Nat /\ n \in Nat /\ i > 1 /\ n > 1
          BY <1>2, <1>4, <3>2
        <5>3. 1 .. i - 2 # 1 .. n - 2
          <6>1. CASE i < n
            <7>1. n - 2 \in 1 .. n - 2 /\ n - 2 \notin 1 .. i - 2
              BY <5>2, <6>1
            <7> QED BY <7>1
          <6>2. CASE n < i
            <7>1. i - 2 \in 1 .. i - 2 /\ i - 2 \notin 1 .. n - 2
              BY <5>2, <6>2
            <7> QED BY <7>1
          <6> QED BY <4>2, <5>2, <6>1, <6>2
        <5> QED BY <5>1, <5>3
      <4> QED BY <4>1, <4>2
    <3> QED BY <1>13, <3>2, <3>5, <3>6 DEF Held
  <2>7. RootPending'
    <3>1. RootPending /\ ~sched.refused
      BY <1>2 DEF Safe, Control
    <3>2. frames'[1] = frames[1]
      BY <1>4, <1>9
    <3>3. SUFFICES ASSUME NEW j \in DOMAIN sched.root, frames[1].pc <= j,
                          NEW d \in CellIds(table), RootProduces(j, d),
                          Cell(d).persistent, slots'[d].val # NoBuf
                   PROVE  d \in skip
      BY <1>1, <1>3, <3>2 DEF RootPending, RootProduces, Held
    <3>4. d # a
      <4>1. SUFFICES ASSUME d = a PROVE FALSE
        OBVIOUS
      <4>2. /\ ~IsBuild(sched.root[j]) /\ Cell(a).scope = << >>
            /\ \E k \in DOMAIN sched.root[j].outputs : Cell(a).vid = sched.root[j].outputs[k][1]
        BY <1>4, <3>3, <4>1 DEF RootProduces, IsOutputOf
      <4>3. n = 2
        <5>1. 1 .. n - 2 = {}
          BY <1>4, <4>2 DEF IsOutputOf
        <5>2. CASE n # 2
          <6>1. 1 \in 1 .. n - 2
            BY <1>2, <1>4, <5>2
          <6> QED BY <5>1, <6>1
        <5> QED BY <5>2
      <4>4. /\ frames[1].pc - 1 \in DOMAIN sched.root
            /\ ~IsBuild(sched.root[frames[1].pc - 1])
            /\ Top.block = sched.root[frames[1].pc - 1]
        BY <1>2, <1>8, <4>3 DEF BlocksOpen
      <4>5. Cell(a).vid = Top.block.outputs[k0][1] /\ k0 \in DOMAIN Top.block.outputs
        BY <1>2, <1>4 DEF IsOutputOf
      <4>6. j # frames[1].pc - 1
        <5>1. frames[1].pc \in Nat
          BY <1>2, <1>9 DEF FramesOK
        <5> QED BY <3>3, <5>1
      <4>7. SingleProducer(sched.root)
        BY <1>2, <3>1, PlanFacts
      <4> DEFINE m == frames[1].pc - 1
      <4>8. /\ m \in DOMAIN sched.root /\ m # j /\ ~IsBuild(sched.root[m])
            /\ Cell(a).vid = sched.root[m].outputs[k0][1] /\ k0 \in DOMAIN sched.root[m].outputs
        BY <4>4, <4>5, <4>6
      <4> HIDE DEF m
      <4>9. PICK k \in DOMAIN sched.root[j].outputs : Cell(a).vid = sched.root[j].outputs[k][1]
        BY <4>2
      <4>10. \A l \in DOMAIN sched.root[j].outputs, q \in DOMAIN sched.root[m].outputs :
               sched.root[j].outputs[l][1] # sched.root[m].outputs[q][1]
        BY <3>3, <4>2, <4>7, <4>8 DEF SingleProducer
      <4> QED BY <4>8, <4>9, <4>10
    <3>5. Held(d) /\ frames # << >>
      BY <1>2, <1>13, <3>3, <3>4 DEF Held
    <3> QED BY <3>1, <3>3, <3>5 DEF RootPending
  <2>8. Safe'
    BY <1>9, <2>1, <2>2, <2>3, <2>4, <2>5, <2>6, <2>7 DEF Safe
  <2> QED BY <1>9, <1>13, <1>14, <1>15, <1>16, <2>8, InvNext DEF Good
<1> QED BY <1>17, <1>18

(***************************************************************************)
(* An evaluation: its start and its return.                                *)
(***************************************************************************)
LEMMA ReturnRootsGood ==
  ASSUME IInv, ReturnRoots
  PROVE  Good
<1>1. /\ Running /\ frames' = << >>
      /\ UNCHANGED <<cfg, round, slots, store, skip, making>>
  BY DEF ReturnRoots
<1>2. /\ cfg \in Plans /\ SlotsOK /\ StoreOK /\ MakingOK /\ Safe
      /\ round \in 0 .. NEvals /\ skip \subseteq CellIds(table) /\ exn = "none"
      /\ making = Nothing
  BY <1>1, RunningFacts
<1>3. /\ sched' = sched /\ table' = table /\ batches' = batches
      /\ CellIds(table)' = CellIds(table) /\ \A d : Cell(d)' = Cell(d)
  BY <1>1, Static
<1>4. /\ DOMAIN heap \subseteq DOMAIN heap'
      /\ \A c \in CellIds(table) : Held(c) => heap'[slots[c].val] = heap[slots[c].val]
  <2> DEFINE b == Fresh(Referenced(slots))
  <2>1. heap' = heap \/ \E x : heap' = Written(heap, b, x)
    BY DEF ReturnRoots, CombineTarget
  <2> HIDE DEF b
  <2>2. \A c \in CellIds(table) : slots[c].val # b
    BY <1>2, FreshBuffer DEF b
  <2> QED BY <1>2, <2>1, <2>2 DEF Written, Safe, Alive
<1>5. HeldUnwritten /\ StoreStands
  BY <1>1, <1>2, <1>4 DEF HeldUnwritten, StoreStands, SlotsOK
<1>6. SlotsOK' /\ StoreOK' /\ MakingOK' /\ DOMAIN making.legs = {}
  BY <1>1, <1>2, <1>3 DEF SlotsOK, StoreOK, MakingOK, Nothing
<1>7. frames' \in Seq(Frames') /\ DOMAIN frames' = {} /\ Len(frames') = 0
  BY <1>1, EmptySeq
<1>8. Control' /\ Unshared' /\ StoreHeld'
  BY <1>1, <1>2, <1>3 DEF Safe, Control, Unshared, StoreHeld, Held, SharedStoreSlot
<1>9. AccsPrivate' /\ LegsPrivate' /\ OutputsOpen' /\ RootPending'
  BY <1>1, <1>6, <1>7 DEF AccsPrivate, LegsPrivate, OutputsOpen, RootPending
<1>10. Alive'
  BY <1>1, <1>2, <1>3, <1>4, <1>6, <1>7 DEF Safe, Alive, Held
<1>11. BlocksOpen' /\ InProduction'
  BY <1>1, <1>2, <1>7 DEF BlocksOpen, InProduction
<1>12. Safe'
  BY <1>8, <1>9, <1>10, <1>11 DEF Safe
<1> QED BY <1>1, <1>2, <1>3, <1>5, <1>6, <1>7, <1>12, InvNext DEF Good

LEMMA StartEvaluationGood ==
  ASSUME IInv, StartEvaluation
  PROVE  Good
<1> DEFINE g == [RootFrame EXCEPT !.vskip = CacheHaltSkip(SeededSlots)]
<1>1. /\ frames = << >> /\ exn = "none" /\ round < NEvals /\ round' = round + 1
      /\ slots' = SeededSlots /\ skip' = CacheHaltSkip(SeededSlots) /\ frames' = <<g>>
      /\ exn' = "none" => ValidCellTable(table, batches) /\ ~SharedStoreSlot
      /\ UNCHANGED <<cfg, heap, store, making, results>>
  BY DEF StartEvaluation
<1>2. /\ cfg \in Plans /\ SlotsOK /\ StoreOK /\ MakingOK /\ Safe /\ round \in 0 .. NEvals
      /\ ~sched.refused /\ making = Nothing
  BY <1>1, InvParts DEF Safe, Control
<1>3. /\ sched' = sched /\ table' = table /\ batches' = batches
      /\ CellIds(table)' = CellIds(table) /\ \A d : Cell(d)' = Cell(d)
  BY <1>1, Static
<1>4. \A c \in CellIds(table) : Cell(c).vid \in DOMAIN sched.values
  BY <1>2, PlanFacts
<1>5. /\ DOMAIN slots' = CellIds(table)
      /\ \A c \in CellIds(table) :
           /\ Record(slots'[c]) /\ slots'[c].filled \in BOOLEAN
           /\ slots'[c].val = IF Cell(c).persistent THEN store[Cell(c).vid] ELSE NoBuf
  BY <1>1 DEF SeededSlots, SetSlot, InitSlot, Record
<1>6. SlotsOK' /\ StoreOK'
  BY <1>1, <1>2, <1>3, <1>4, <1>5 DEF SlotsOK, StoreOK, Record
<1>7. MakingOK' /\ DOMAIN making.legs = {}
  BY <1>1, <1>2, <1>3 DEF MakingOK, Nothing
<1>8. skip' \subseteq CellIds(table)
  BY <1>1, ClosureGrows DEF CacheHaltSkip
<1>9. /\ g.block = RootFrame.block /\ g.phase = "root" /\ g.pc = 1 /\ g.vskip = skip'
      /\ g.cells = << >> /\ g.outSkip = {} /\ g.acc = << >> /\ g \in Frames
  <2> DEFINE vskip == CacheHaltSkip(SeededSlots)
             blk == RootFrame.block
             one == 1
             zero == 0
  <2>1. g = [block |-> blk, phase |-> "root", pc |-> one, batch |-> zero, vskip |-> vskip,
             cells |-> << >>, outSkip |-> {}, acc |-> << >>]
    <3>1. RootFrame = [block |-> blk, phase |-> "root", pc |-> one, batch |-> zero,
                       vskip |-> {}, cells |-> << >>, outSkip |-> {}, acc |-> << >>]
      BY DEF RootFrame
    <3> HIDE DEF blk, one, zero, vskip
    <3>2. g = [RootFrame EXCEPT !.vskip = vskip]
      BY DEF vskip
    <3> HIDE DEF g
    <3> QED BY <3>1, <3>2
  <2>2. one \in Nat \ {0} /\ zero \in Nat /\ vskip \subseteq CellIds(table) /\ vskip = skip'
    BY <1>1, <1>8
  <2>3. blk = RootFrame.block /\ one = 1
    OBVIOUS
  <2> HIDE DEF g, vskip, blk, one, zero
  <2> QED BY <2>1, <2>2, <2>3, EmptySeq DEF Frames, Phases
<1> HIDE DEF g
<1>10. /\ frames' \in Seq(Frames') /\ Len(frames') = 1 /\ DOMAIN frames' = {1}
       /\ frames'[1] = g /\ frames' # << >>
  <2>1. g \in Frames'
    BY <1>1, <1>3, <1>9 DEF Frames, RootFrame
  <2> QED BY <1>1, <2>1
<1>11. round' \in 0 .. NEvals /\ round' > 0
  BY <1>1, <1>2, BufsAssumption
<1>12. StoreStands /\ HeldUnwritten
  BY <1>1 DEF StoreStands, HeldUnwritten
<1>13. CASE exn' # "none"
  BY <1>1, <1>2, <1>3, <1>6, <1>7, <1>8, <1>10, <1>11, <1>12, <1>13, InvNext DEF Good
<1>14. CASE exn' = "none"
  <2>1. ValidCellTable(table, batches) /\ ~SharedStoreSlot
    BY <1>1, <1>14
  <2>2. Control'
    BY <1>1, <1>2, <1>3, <1>10, <1>11, <2>1 DEF Control, SharedStoreSlot
  <2>3. ASSUME NEW v \in DOMAIN store, store[v] # NoBuf
        PROVE  \E e \in CellIds(table) : /\ Cell(e).persistent /\ Cell(e).vid = v
                                         /\ slots[e].val = store[v] /\ Held(e)
    BY <1>2, <2>3 DEF Safe, StoreHeld, Held
  <2>4. Unshared'
    <3>1. SUFFICES ASSUME NEW c \in CellIds(table), NEW d \in CellIds(table), c # d,
                          slots'[c].val # NoBuf, slots'[c].val = slots'[d].val
                   PROVE  FALSE
      BY <1>3 DEF Unshared, Held
    <3>2. /\ Cell(c).persistent /\ Cell(d).persistent
          /\ store[Cell(c).vid] # NoBuf /\ store[Cell(c).vid] = store[Cell(d).vid]
      BY <1>5, <3>1
    <3>3. Cell(c).vid \in DOMAIN store /\ Cell(d).vid \in DOMAIN store
      BY <1>2, <1>4 DEF StoreOK
    <3>4. PICK e \in CellIds(table) :
                 Cell(e).vid = Cell(c).vid /\ slots[e].val = store[Cell(c).vid] /\ Held(e)
      BY <2>3, <3>2, <3>3
    <3>5. PICK o \in CellIds(table) :
                 Cell(o).vid = Cell(d).vid /\ slots[o].val = store[Cell(d).vid]
      BY <2>3, <3>2, <3>3
    <3>6. e = o
      BY <1>2, <3>2, <3>4, <3>5 DEF Safe, Unshared
    <3> QED BY <2>1, <3>1, <3>2, <3>4, <3>5, <3>6 DEF SharedStoreSlot
  <2>5. StoreHeld'
    BY <1>1, <1>3, <1>5, <2>3 DEF StoreHeld
  <2>6. Alive'
    <3>1. ASSUME NEW c \in CellIds(table), slots'[c].val # NoBuf
          PROVE  slots'[c].val \in DOMAIN heap
      <4>1. slots'[c].val = store[Cell(c).vid] /\ Cell(c).vid \in DOMAIN store
        BY <1>2, <1>4, <1>5, <3>1 DEF StoreOK
      <4>2. PICK e \in CellIds(table) : slots[e].val = store[Cell(c).vid] /\ Held(e)
        BY <2>3, <3>1, <4>1
      <4> QED BY <1>2, <4>1, <4>2 DEF Safe, Alive
    <3> QED BY <1>1, <1>3, <1>7, <1>9, <1>10, <3>1 DEF Alive, Held
  <2>7. AccsPrivate' /\ LegsPrivate' /\ OutputsOpen' /\ InProduction'
    BY <1>1, <1>2, <1>7, <1>9, <1>10 DEF AccsPrivate, LegsPrivate, OutputsOpen, InProduction
  <2>8. BlocksOpen'
    BY <1>9, <1>10 DEF BlocksOpen
  <2>9. RootPending'
    <3>1. SUFFICES ASSUME NEW c \in CellIds(table), Cell(c).persistent, slots'[c].val # NoBuf
                   PROVE  c \in skip'
      BY <1>3 DEF RootPending, Held
    <3> DEFINE seed == {d \in CellIds(table) : Cell(d).persistent /\ slots'[d].val # NoBuf}
    <3>2. skip' = SkipClosure(seed)
      BY <1>1 DEF CacheHaltSkip
    <3>3. c \in seed
      BY <3>1
    <3> HIDE DEF seed
    <3> QED BY <3>2, <3>3, ClosureGrows
  <2>10. Safe'
    BY <2>2, <2>4, <2>5, <2>6, <2>7, <2>8, <2>9 DEF Safe
  <2> QED BY <1>1, <1>2, <1>3, <1>6, <1>7, <1>8, <1>10, <1>11, <1>12, <2>10, InvNext DEF Good
<1> QED BY <1>13, <1>14

(***************************************************************************)
(* The theorems.                                                           *)
(***************************************************************************)
LEMMA InitInv ==
  ASSUME Init
  PROVE  IInv
<1>1. /\ cfg \in Plans /\ round = 0 /\ slots = [c \in CellIds(table) |-> InitSlot(Cell(c))]
      /\ heap = << >> /\ store = [v \in DOMAIN sched.values |-> NoBuf] /\ skip = {}
      /\ frames = << >> /\ making = Nothing
      /\ exn = "none" => ~sched.refused
  BY DEF Init
<1>2. making.cell = NoCell /\ making.left = {} /\ making.legs = << >> /\ DOMAIN making.legs = {}
  BY <1>1 DEF Nothing
<1>3. SlotsOK /\ StoreOK
  BY <1>1 DEF SlotsOK, StoreOK, InitSlot, Record
<1>4. MakingOK /\ frames \in Seq(Frames) /\ round \in 0 .. NEvals
  BY <1>1, <1>2, BufsAssumption, EmptySeq DEF MakingOK, Nothing
<1>5. TypeOK /\ Records
  BY <1>1, <1>3, <1>4 DEF TypeOK, Records, SlotsOK, StoreOK, MakingOK
<1>6. ASSUME exn = "none" PROVE Safe
  <2>1. /\ DOMAIN frames = {} /\ Len(frames) = 0 /\ DOMAIN making.legs = {}
        /\ \A c \in CellIds(table) : ~Held(c)
    BY <1>1, EmptySeq DEF Nothing, Held, InitSlot
  <2>2. Control
    BY <1>1, <1>6 DEF Control
  <2>3. Unshared /\ StoreHeld
    BY <1>1, <2>1 DEF Unshared, StoreHeld
  <2>4. AccsPrivate /\ LegsPrivate /\ OutputsOpen /\ RootPending /\ Alive
    BY <1>1, <2>1 DEF AccsPrivate, LegsPrivate, OutputsOpen, RootPending, Alive
  <2>5. BlocksOpen /\ InProduction
    BY <1>1, <2>1 DEF BlocksOpen, InProduction
  <2> QED BY <2>2, <2>3, <2>4, <2>5 DEF Safe
<1> QED BY <1>1, <1>5, <1>6 DEF IInv

LEMMA StutterGood ==
  ASSUME IInv, UNCHANGED vars
  PROVE  Good
<1>1. UNCHANGED <<cfg, round, slots, heap, store, skip, frames, making, results, exn>>
  BY DEF vars
<1>2. /\ cfg \in Plans /\ SlotsOK /\ StoreOK /\ FramesOK /\ MakingOK
      /\ round \in 0 .. NEvals /\ skip \subseteq CellIds(table)
      /\ exn = "none" => Safe
  BY InvParts
<1>3. /\ sched' = sched /\ table' = table /\ batches' = batches
      /\ CellIds(table)' = CellIds(table) /\ \A d : Cell(d)' = Cell(d)
  BY <1>1, Static
<1>4. SlotsOK' /\ StoreOK' /\ MakingOK' /\ frames' \in Seq(Frames')
  BY <1>1, <1>2, <1>3 DEF SlotsOK, StoreOK, MakingOK, FramesOK, Frames, RootFrame
<1>5. ASSUME Safe PROVE Safe'
  <2>1. Control' /\ Unshared' /\ StoreHeld' /\ AccsPrivate' /\ LegsPrivate' /\ Alive'
    BY <1>1, <1>3, <1>5
       DEF Safe, Control, SharedStoreSlot, Unshared, StoreHeld, AccsPrivate, LegsPrivate,
           Alive, Held
  <2>2. BlocksOpen' /\ OutputsOpen' /\ RootPending'
    BY <1>1, <1>3, <1>5
       DEF Safe, BlocksOpen, IsOutputOf, OutputsOpen, RootPending, RootProduces, Held
  <2>3. InProduction'
    BY <1>1, <1>3, <1>5 DEF Safe, InProduction, Held, Top, ThisStep, StepsOf
  <2> QED BY <2>1, <2>2, <2>3 DEF Safe
<1> QED BY <1>1, <1>2, <1>3, <1>4, <1>5, InvNext DEF Good, StoreStands, HeldUnwritten

LEMMA NextGood ==
  ASSUME IInv, [Next]_vars
  PROVE  Good
<1>1. CASE StartEvaluation
  BY <1>1, StartEvaluationGood
<1>2. CASE BuildStep
  BY <1>2, BuildStepGood
<1>3. CASE SkipBuildStep
  BY <1>3, SkipBuildStepGood
<1>4. CASE TouchLeaf
  BY <1>4, TouchLeafGood
<1>5. CASE ReadLeg
  BY <1>5, ReadLegGood
<1>6. CASE Produce
  BY <1>6, ProduceGood
<1>7. CASE SkipBlock
  BY <1>7, SkipBlockGood
<1>8. CASE EnterBlock
  BY <1>8, EnterBlockGood
<1>9. CASE BeginBatch
  BY <1>9, BeginBatchGood
<1>10. CASE StepsDone
  BY <1>10, StepsDoneGood
<1>11. CASE AssembleStep
  BY <1>11, AssembleStepGood
<1>12. CASE FoldStep
  BY <1>12, FoldStepGood
<1>13. CASE SkipAssembleStep
  BY <1>13, SkipAssembleStepGood
<1>14. CASE NextBatch
  BY <1>14, NextBatchGood
<1>15. CASE BatchesDone
  BY <1>15, BatchesDoneGood
<1>16. CASE CloseOutput
  BY <1>16, CloseOutputGood
<1>17. CASE LeaveBlock
  BY <1>17, LeaveBlockGood
<1>18. CASE ReturnRoots
  BY <1>18, ReturnRootsGood
<1>19. CASE UNCHANGED vars
  BY <1>19, StutterGood
<1> QED
  BY <1>1, <1>2, <1>3, <1>4, <1>5, <1>6, <1>7, <1>8, <1>9, <1>10, <1>11, <1>12, <1>13,
     <1>14, <1>15, <1>16, <1>17, <1>18, <1>19 DEF Next

(* The inductive invariant holds throughout every run of the executor.     *)
THEOREM Invariance == Spec => []IInv
<1>1. Init => IInv
  BY InitInv
<1>2. IInv /\ [Next]_vars => IInv'
  BY NextGood DEF Good
<1> QED BY <1>1, <1>2, PTL DEF Spec

(* Every variable keeps its type: a block is left before its parent moves  *)
(* on, and nothing but cells of the table is ever skipped.                 *)
THEOREM TypeCorrect == Spec => []TypeOK
<1>1. IInv => TypeOK
  BY DEF IInv
<1> QED BY <1>1, Invariance, PTL

(* A value published to the persistent store is never published again: no  *)
(* later batch, and no later evaluation, produces it a second time.        *)
THEOREM StoreNeverReplaced == Spec => StoredValueStands
<1>1. IInv /\ [Next]_vars => [\A v \in DOMAIN store : store[v] # NoBuf => store'[v] = store[v]]_vars
  BY NextGood DEF Good, StoreStands
<1> QED BY <1>1, Invariance, PTL DEF Spec, StoredValueStands

(* Every step is taken by a walk that has not thrown, keeps the plan, and  *)
(* leaves an evaluation under way or finished.                             *)
LEMMA WalkGoesOn ==
  ASSUME IInv, Next
  PROVE  cfg' = cfg /\ exn = "none" /\ round' > 0
<1>1. /\ round \in Nat
      /\ exn = "none" /\ frames # << >> => round > 0
      /\ exn = "none" /\ making # Nothing => round > 0
  BY BufsAssumption DEF IInv, TypeOK, Safe, Control
<1>2. CASE StartEvaluation
  <2>1. cfg' = cfg /\ exn = "none" /\ round' = round + 1
    BY <1>2 DEF StartEvaluation
  <2> QED BY <1>1, <2>1
<1>3. CASE BuildStep \/ SkipBuildStep \/ SkipBlock \/ EnterBlock
  BY <1>1, <1>3 DEF BuildStep, SkipBuildStep, SkipBlock, EnterBlock, AtStep, Running
<1>4. CASE TouchLeaf \/ ReadLeg \/ Produce
  BY <1>1, <1>4 DEF TouchLeaf, ReadLeg, Produce, Reading, Producing
<1>5. CASE BeginBatch \/ StepsDone \/ NextBatch \/ BatchesDone
  BY <1>1, <1>5 DEF BeginBatch, StepsDone, NextBatch, BatchesDone, OutputsDone, Running
<1>6. CASE AssembleStep \/ FoldStep \/ SkipAssembleStep
  BY <1>1, <1>6 DEF AssembleStep, FoldStep, SkipAssembleStep, AtOutput, Running
<1>7. CASE CloseOutput \/ LeaveBlock \/ ReturnRoots
  BY <1>1, <1>7 DEF CloseOutput, LeaveBlock, ReturnRoots, Closing, Running
<1> QED BY <1>2, <1>3, <1>4, <1>5, <1>6, <1>7 DEF Next

(* Until the walk throws, no step writes into a buffer that the persistent *)
(* store holds, between evaluations and after any of them too: no in-place *)
(* sum, running result or combine, and no buffer allocated anew.           *)
THEOREM StoredContentStands ==
  Spec => [][exn' = "none" =>
               \A v \in DOMAIN store : store[v] # NoBuf => heap'[store[v]] = heap[store[v]]]_vars
<1>1. ASSUME IInv, [Next]_vars, exn' = "none", NEW v \in DOMAIN store, store[v] # NoBuf
      PROVE  heap'[store[v]] = heap[store[v]]
  <2>1. SUFFICES ASSUME Next PROVE heap'[store[v]] = heap[store[v]]
    BY <1>1 DEF vars
  <2>2. cfg' = cfg /\ exn = "none" /\ round' > 0
    BY <1>1, <2>1, WalkGoesOn
  <2>3. Safe /\ Safe' /\ StoreStands /\ HeldUnwritten /\ TypeOK /\ TypeOK'
    BY <1>1, <2>2, NextGood DEF Good, IInv
  <2>4. /\ table' = table /\ CellIds(table)' = CellIds(table) /\ \A c : Cell(c)' = Cell(c)
    BY <2>2, Static
  <2>5. PICK c \in CellIds(table) :
          Cell(c).persistent /\ Cell(c).vid = v /\ slots[c].val = store[v]
    BY <1>1, <2>3 DEF Safe, StoreHeld
  <2>6. store'[v] = store[v] /\ v \in DOMAIN store'
    BY <1>1, <2>2, <2>3 DEF StoreStands, TypeOK, sched
  <2>7. PICK d \in CellIds(table) :
          Cell(d).persistent /\ Cell(d).vid = v /\ slots'[d].val = store[v]
    BY <1>1, <2>3, <2>4, <2>6 DEF Safe, StoreHeld
  <2>8. ~SharedStoreSlot'
    BY <2>2, <2>3 DEF Safe, Control
  <2>9. c = d
    BY <2>4, <2>5, <2>7, <2>8 DEF SharedStoreSlot
  <2>10. c \in DOMAIN slots
    BY <2>3 DEF TypeOK
  <2>11. Held(c) /\ slots'[c].val = slots[c].val
    BY <1>1, <2>5, <2>7, <2>9 DEF Held
  <2>12. heap'[slots[c].val] = heap[slots[c].val]
    BY <2>3, <2>10, <2>11 DEF HeldUnwritten
  <2> QED BY <2>5, <2>12
<1>2. IInv /\ [Next]_vars =>
        [exn' = "none" =>
           \A v \in DOMAIN store : store[v] # NoBuf => heap'[store[v]] = heap[store[v]]]_vars
  BY <1>1
<1> QED BY <1>2, Invariance, PTL DEF Spec

(* No accumulation in place, of a sum, of a block's running result or of   *)
(* the combine, changes a buffer that some cell goes on holding.           *)
THEOREM HeldBuffersStand == Spec => NoWriteIntoHeldBuffer
<1>1. IInv /\ [Next]_vars =>
        [\A c \in DOMAIN slots :
           (Held(c) /\ slots'[c] = slots[c]) => heap'[slots[c].val] = heap[slots[c].val]]_vars
  BY NextGood DEF Good, HeldUnwritten
<1> QED BY <1>1, Invariance, PTL DEF Spec, NoWriteIntoHeldBuffer
=============================================================================
