------------------------- MODULE SumOptimizerProofs -------------------------
(***************************************************************************)
(* Proofs about SumOptimizer, for every set of terms and trees, every      *)
(* loaded record, any number of summands, threads, addresses and runs: what *)
(* is kept beside a result is that result's, and a pinned run replays its  *)
(* record, all of it, or throws.                                           *)
(***************************************************************************)
EXTENDS SumOptimizer, FiniteSetTheorems, SequenceTheorems, WellFoundedInduction, TLAPS

(***************************************************************************)
(* The inductive invariant.                                                *)
(***************************************************************************)
Tasks ==
  {<<>>, <<"optimize">>, <<"threw">>, <<"store">>, <<"add">>, <<"add", "store">>,
   <<"store", "add">>, <<"bind">>, <<"bind", "store">>}
ToStore == {<<"store">>, <<"add", "store">>, <<"store", "add">>, <<"bind", "store">>}
ToAdd == {<<"add">>, <<"add", "store">>, <<"store", "add">>}
ToBind == {<<"bind">>, <<"bind", "store">>}
\* the result of summand i is made
Made(i) == task[i] \notin {<<"optimize">>, <<"threw">>}

Active == run.stage \in {"ready", "call", "returned"}
Listing(s) == s \in Seq(Range(s))
TaskSorts ==
  /\ addends \in Seq(DOMAIN Kind)
  /\ task \in [DOMAIN addends -> Tasks]
  /\ slot \in [DOMAIN addends -> Address \cup {None}]
RunSorts ==
  /\ run = [stage |-> run.stage, how |-> run.how, each |-> run.each, reorder |-> run.reorder]
  /\ run.how \in {"plain", "record", "pin"} /\ run.each \in BOOLEAN /\ run.reorder \in BOOLEAN
  /\ run.each => ~run.reorder
  /\ waiting \in Seq(DOMAIN Kind)
  /\ kept \in Seq(Address) /\ Listing(picked)
RecorderSorts ==
  /\ recorder = [records |-> recorder.records, index |-> recorder.index]
  /\ Listing(recorder.records)
PinnerSorts ==
  /\ pinner = [uses |-> pinner.uses, missing |-> pinner.missing,
               duplicates |-> pinner.duplicates, keys |-> pinner.keys,
               finished |-> pinner.finished]
  /\ pinner.finished \in BOOLEAN
  /\ doc = None \/ Recorded(doc)
  /\ run.stage # "idle" /\ run.how = "pin" =>
       doc # None /\ pinner.uses \in [DOMAIN doc -> Nat]
WalkSorts ==
  /\ walk = [stack |-> walk.stack, order |-> walk.order, clones |-> walk.clones]
  /\ walk.order \in Seq(DOMAIN addends) /\ walk.clones \in Seq(Address)
Sorts ==
  /\ DOMAIN results \subseteq Address
  /\ TaskSorts /\ RunSorts /\ RecorderSorts /\ PinnerSorts /\ WalkSorts

(* Where a run can be.                                                     *)
Control ==
  /\ run.stage \in {"idle", "ready"} => kept = <<>>
  /\ run.stage = "ready" =>
       picked = <<>> /\ pinner.missing = {} /\ pinner.duplicates = {}
  /\ Optimizing =>
       /\ addends # <<>>
       /\ run.each => Len(addends) = 1
       /\ ~run.each => waiting = <<>>
  /\ Active /\ ~run.each /\ run.stage # "returned" /\ (run.how = "pin" => ~pinner.finished) =>
       kept = <<>> /\ picked = <<>>
  /\ run.stage = "returned" /\ ~run.each /\ waiting # <<>> => run.how = "pin"
  /\ walk # NoWalk =>
       /\ Optimizing /\ ~run.each /\ run.reorder /\ run.how # "pin"
       /\ \A i \in DOMAIN task : task[i] = <<>>

(* Every result that is held has an address of its own.                    *)
KeptApart ==
  Active =>
    \A p \in DOMAIN kept :
      /\ kept[p] \in DOMAIN results
      /\ \A q \in DOMAIN kept : kept[p] = kept[q] => p = q
SlotsApart ==
  Optimizing =>
    \A i \in DOMAIN addends : Made(i) =>
      /\ slot[i] \in DOMAIN results
      /\ \A p \in DOMAIN kept : kept[p] # slot[i]
      /\ \A j \in DOMAIN addends : Made(j) /\ slot[i] = slot[j] => i = j

(* A result is one that its optimization may make.                         *)
Chosen(r) ==
  /\ r.key \in DOMAIN Kind
  /\ run.how # "pin" => r.tree \in Trees[r.key] /\ r.nodes = Axes[r.tree]
  /\ run.how = "pin" =>
       /\ Positions(doc, r.key) = {} => r.nodes = <<>>
       /\ Positions(doc, r.key) # {} =>
            \E p \in DOMAIN doc :
              /\ p = Min(Positions(doc, r.key)) /\ doc[p].pinnable
              /\ r.tree = doc[p].tree /\ r.nodes = doc[p].nodes
SlotsChosen ==
  Optimizing =>
    \A i \in DOMAIN addends : Made(i) =>
      results[slot[i]].key = addends[i] /\ Chosen(results[slot[i]])

(* The annotations in the making.                                          *)
AxesStored ==
  Optimizing =>
    /\ \A a \in DOMAIN axes : \E i \in DOMAIN addends : Made(i) /\ slot[i] = a
    /\ \A i \in DOMAIN addends : Made(i) =>
         /\ slot[i] \in DOMAIN axes => axes[slot[i]] = results[slot[i]].nodes
         /\ task[i] \notin ToStore => slot[i] \in DOMAIN axes \/ results[slot[i]].nodes = <<>>

(* The record in the making.                                               *)
RecordKept(a) ==
  /\ a \in DOMAIN recorder.index
  /\ recorder.records[recorder.index[a]] = RecordOf(results[a])
GoodRecord(rec) ==
  /\ rec.key \in DOMAIN Kind
  /\ rec.pinnable =>
       Pinnable(rec.key) /\ rec.tree \in Trees[rec.key] /\ rec.nodes = Axes[rec.tree]
RecordsIndexed ==
  Active /\ run.how = "record" =>
    /\ \A a \in DOMAIN recorder.index : recorder.index[a] \in DOMAIN recorder.records
    /\ \A n \in DOMAIN recorder.records : GoodRecord(recorder.records[n])
    /\ \A p \in DOMAIN kept : RecordKept(kept[p])
    /\ Optimizing => \A i \in DOMAIN addends :
         Made(i) /\ task[i] \notin ToAdd => RecordKept(slot[i])
(* ... of terms optimized one by one.                                      *)
AddedNow == Optimizing /\ Made(1) /\ task[1] \notin ToAdd
RecordsInCallOrder ==
  Active /\ run.how = "record" /\ run.each =>
    /\ Len(recorder.records) = Len(picked) + (IF AddedNow THEN 1 ELSE 0)
    /\ \A k \in DOMAIN picked : recorder.records[k] = RecordOf(picked[k])
    /\ AddedNow => recorder.records[Len(picked) + 1] = RecordOf(results[slot[1]])

(* What the pin session knows of the terms it was asked for.               *)
Pinning == Active /\ run.how = "pin" /\ ~pinner.finished
AtPosition(key, p) == Positions(doc, key) # {} /\ p = Min(Positions(doc, key))
Known(key) ==
  /\ Positions(doc, key) = {} => key \in pinner.missing
  /\ \A p \in DOMAIN doc : AtPosition(key, p) => pinner.uses[p] > 0
NoneThrew == Optimizing => \A i \in DOMAIN addends : task[i] # <<"threw">>
UsesCounted ==
  /\ \A k \in DOMAIN picked : Known(picked[k].key) /\ Chosen(picked[k])
  /\ Optimizing => \A i \in DOMAIN addends : Made(i) => Known(addends[i])
  /\ NoneThrew =>
       \A p \in DOMAIN doc : pinner.uses[p] > 0 =>
         \/ \E k \in DOMAIN picked : AtPosition(picked[k].key, p)
         \/ Optimizing /\ \E i \in DOMAIN addends : Made(i) /\ AtPosition(addends[i], p)
TakenOnce ==
  pinner.duplicates = {} /\ pinner.missing = {} =>
    /\ \A k, l \in DOMAIN picked : picked[k].key = picked[l].key => k = l
    /\ Optimizing => \A i \in DOMAIN addends : Made(i) =>
         /\ \A j \in DOMAIN addends : Made(j) /\ addends[i] = addends[j] => i = j
         /\ \A k \in DOMAIN picked : picked[k].key # addends[i]
MismatchCaused ==
  ~run.each /\ NoneThrew =>
    /\ pinner.duplicates # {} => HasDuplicates(addends)
    /\ \A key \in pinner.missing :
         Positions(doc, key) = {} /\ \E i \in DOMAIN addends : addends[i] = key
Ledger == Pinning => UsesCounted /\ TakenOnce /\ MismatchCaused
Bound ==
  Optimizing /\ run.how = "pin" =>
    \A i \in DOMAIN addends : Made(i) /\ task[i] \notin ToBind =>
      slot[i] \in DOMAIN pinner.keys /\ pinner.keys[slot[i]] = addends[i]
ThrewCaused ==
  Optimizing /\ run.how = "pin" =>
    \A i \in DOMAIN addends : task[i] = <<"threw">> =>
      \/ ~Pinnable(addends[i]) \/ pinner.finished
      \/ \E p \in DOMAIN doc : ~doc[p].pinnable
OncePinned ==
  Active /\ run.how = "pin" =>
    /\ pinner.finished => ~run.each /\ kept # <<>>
    /\ pinner.finished /\ Optimizing => \A i \in DOMAIN addends : ~Made(i)
    /\ run.stage = "returned" /\ ~run.each => pinner.finished /\ Said(picked) = Said(doc)
PinInv == Ledger /\ Bound /\ ThrewCaused /\ OncePinned

(* The walk over the summands, and their clones.                           *)
WalkInv ==
  Optimizing =>
    /\ \A k, l \in DOMAIN walk.order : walk.order[k] = walk.order[l] => k = l
    /\ \A v \in walk.stack : v[3] \in DOMAIN addends
    /\ \A k \in DOMAIN walk.order : \A c \in Connections(walk.order[k]) :
         \/ c[2] \in Range(walk.order)
         \/ \E v \in walk.stack : v[3] = c[2]
    /\ Len(walk.clones) <= Len(walk.order)
    /\ \A k \in DOMAIN walk.clones :
         /\ walk.clones[k] \in DOMAIN results
         /\ results[walk.clones[k]] = results[slot[walk.order[k]]]
         /\ \A i \in DOMAIN addends : slot[i] # walk.clones[k]
         /\ \A l \in DOMAIN walk.clones : walk.clones[k] = walk.clones[l] => k = l

Held == KeptApart /\ SlotsApart /\ SlotsChosen /\ AxesStored
Recording == RecordsIndexed /\ RecordsInCallOrder
Promises == KeptWithTheirResults /\ PinReplaysRecord
IInv ==
  /\ Sorts /\ Control /\ Held /\ Recording /\ PinInv /\ WalkInv /\ Promises

(***************************************************************************)
(* Addresses, positions, tasks and sequences.                              *)
(***************************************************************************)
LEMMA NatMin ==
  ASSUME NEW S \in SUBSET Nat, S # {}
  PROVE  Min(S) \in S /\ \A y \in S : Min(S) <= y
<1>1. PICK x \in S : \A y \in S : ~(<<y, x>> \in OpToRel(<, Nat))
  BY NatLessThanWellFounded, WFMin
<1>2. ASSUME NEW y \in S PROVE x <= y
  <2>1. <<y, x>> \in OpToRel(<, Nat) <=> y < x
    BY DEF OpToRel
  <2>2. ~(y < x)
    BY <1>1, <2>1
  <2> QED BY <2>2
<1> QED BY <1>2 DEF Min

LEMMA FreshFree ==
  ASSUME FreeAddresses # {}
  PROVE  Fresh \in Address /\ Fresh \notin DOMAIN results
<1>1. FreeAddresses \in SUBSET Nat
  BY AddressAssumption DEF FreeAddresses
<1> QED BY <1>1, NatMin DEF Fresh, FreeAddresses

LEMMA PositionFacts ==
  ASSUME NEW records, Recorded(records), NEW key, Positions(records, key) # {}
  PROVE  /\ Min(Positions(records, key)) \in DOMAIN records
         /\ records[Min(Positions(records, key))].key = key
<1>1. Positions(records, key) \in SUBSET Nat
  BY DEF Recorded, Positions
<1>2. Min(Positions(records, key)) \in Positions(records, key)
  BY <1>1, NatMin
<1> QED BY <1>2 DEF Positions

LEMMA TaskSteps ==
  ASSUME NEW t \in Tasks, t # <<>>
  PROVE  /\ Head(t) = "optimize" => t = <<"optimize">>
         /\ Head(t) = "store" =>
              /\ t \in ToStore /\ Tail(t) \in {<<>>, <<"add">>}
              /\ t \in ToAdd <=> Tail(t) = <<"add">>
              /\ t \notin ToBind
         /\ Head(t) = "add" =>
              /\ t \in ToAdd /\ Tail(t) \in {<<>>, <<"store">>}
              /\ t \in ToStore <=> Tail(t) = <<"store">>
              /\ t \notin ToBind
         /\ Head(t) = "bind" =>
              /\ t \in ToBind /\ Tail(t) \in {<<>>, <<"store">>}
              /\ t \in ToStore <=> Tail(t) = <<"store">>
              /\ t \notin ToAdd
<1>1. Head(t) = "optimize" => t = <<"optimize">>
  BY DEF Tasks
<1>2. ASSUME Head(t) = "store"
      PROVE  /\ t \in ToStore /\ Tail(t) \in {<<>>, <<"add">>}
             /\ t \in ToAdd <=> Tail(t) = <<"add">>
             /\ t \notin ToBind
  <2>1. t \in {<<"store">>, <<"store", "add">>}
    BY <1>2 DEF Tasks
  <2>2. CASE t = <<"store">>
    <3>1. Tail(t) = <<>> /\ <<>> # <<"add">>
      BY <2>2
    <3> QED BY <2>2, <3>1 DEF ToStore, ToAdd, ToBind
  <2>3. CASE t = <<"store", "add">>
    <3>1. Tail(t) = <<"add">>
      BY <2>3
    <3> QED BY <2>3, <3>1 DEF ToStore, ToAdd, ToBind
  <2> QED BY <2>1, <2>2, <2>3
<1>3. ASSUME Head(t) = "add"
      PROVE  /\ t \in ToAdd /\ Tail(t) \in {<<>>, <<"store">>}
             /\ t \in ToStore <=> Tail(t) = <<"store">>
             /\ t \notin ToBind
  <2>1. t \in {<<"add">>, <<"add", "store">>}
    BY <1>3 DEF Tasks
  <2>2. CASE t = <<"add">>
    <3>1. Tail(t) = <<>> /\ <<>> # <<"store">>
      BY <2>2
    <3> QED BY <2>2, <3>1 DEF ToStore, ToAdd, ToBind
  <2>3. CASE t = <<"add", "store">>
    <3>1. Tail(t) = <<"store">>
      BY <2>3
    <3> QED BY <2>3, <3>1 DEF ToStore, ToAdd, ToBind
  <2> QED BY <2>1, <2>2, <2>3
<1>4. ASSUME Head(t) = "bind"
      PROVE  /\ t \in ToBind /\ Tail(t) \in {<<>>, <<"store">>}
             /\ t \in ToStore <=> Tail(t) = <<"store">>
             /\ t \notin ToAdd
  <2>1. t \in {<<"bind">>, <<"bind", "store">>}
    BY <1>4 DEF Tasks
  <2>2. CASE t = <<"bind">>
    <3>1. Tail(t) = <<>> /\ <<>> # <<"store">>
      BY <2>2
    <3> QED BY <2>2, <3>1 DEF ToStore, ToAdd, ToBind
  <2>3. CASE t = <<"bind", "store">>
    <3>1. Tail(t) = <<"store">>
      BY <2>3
    <3> QED BY <2>3, <3>1 DEF ToStore, ToAdd, ToBind
  <2> QED BY <2>1, <2>2, <2>3
<1> QED BY <1>1, <1>2, <1>3, <1>4

LEMMA TaskKinds ==
  /\ {<<>>, <<"store">>, <<"add">>} \subseteq Tasks \ {<<"optimize">>, <<"threw">>}
  /\ ToStore \cup ToAdd \cup ToBind \subseteq Tasks \ {<<>>, <<"optimize">>, <<"threw">>}
  /\ <<"threw">> \in Tasks /\ <<"optimize">> \in Tasks
  /\ <<"optimize">> # <<"threw">>
  /\ <<>> \notin ToStore \cup ToAdd \cup ToBind
  /\ <<"store">> \in ToStore /\ <<"store">> \notin ToAdd \cup ToBind
  /\ <<"add">> \in ToAdd /\ <<"add">> \notin ToStore \cup ToBind
BY DEF Tasks, ToStore, ToAdd, ToBind

LEMMA SeqFacts ==
  ASSUME NEW S, NEW s \in Seq(S)
  PROVE  /\ Len(s) \in Nat /\ DOMAIN s = 1 .. Len(s)
         /\ \A k \in DOMAIN s : s[k] \in S
         /\ Len(s) = 0 <=> s = <<>>
         /\ \A x : x \in Range(s) <=> \E k \in DOMAIN s : s[k] = x
<1>1. Len(s) \in Nat /\ DOMAIN s = 1 .. Len(s) /\ \A k \in DOMAIN s : s[k] \in S
  BY LenProperties, ElementOfSeq
<1>2. Len(s) = 0 <=> s = <<>>
  BY EmptySeq
<1> QED BY <1>1, <1>2 DEF Range

LEMMA Concatenated ==
  ASSUME NEW s, Listing(s), NEW t, Listing(t), NEW c, c = s \o t
  PROVE  /\ Listing(c) /\ Len(c) = Len(s) + Len(t)
         /\ Len(s) \in Nat /\ DOMAIN s = 1 .. Len(s)
         /\ Len(t) \in Nat /\ DOMAIN t = 1 .. Len(t)
         /\ DOMAIN c = 1 .. Len(s) + Len(t)
         /\ \A k \in DOMAIN s : c[k] = s[k]
         /\ \A k \in DOMAIN t : c[Len(s) + k] = t[k]
         /\ \A k \in 1 .. Len(s) + Len(t) :
              k \in DOMAIN s \/ \E l \in DOMAIN t : k = Len(s) + l
         /\ s = <<>> => c = t
<1>1. s \in Seq(Range(s) \cup Range(t)) /\ t \in Seq(Range(s) \cup Range(t))
  BY SeqMonotonic DEF Listing
<1>2. /\ Len(s) \in Nat /\ DOMAIN s = 1 .. Len(s) /\ Len(t) \in Nat /\ DOMAIN t = 1 .. Len(t)
  BY <1>1, LenProperties
<1>3. /\ s \o t \in Seq(Range(s) \cup Range(t)) /\ Len(s \o t) = Len(s) + Len(t)
      /\ \A i \in 1 .. Len(s) + Len(t) :
           (s \o t)[i] = IF i <= Len(s) THEN s[i] ELSE t[i - Len(s)]
  BY <1>1, ConcatProperties
<1>4. DOMAIN (s \o t) = 1 .. Len(s) + Len(t)
  BY <1>3, LenProperties
<1>5. Listing(s \o t)
  BY <1>3, SeqOfRange DEF Listing
<1>6. \A k \in DOMAIN s : (s \o t)[k] = s[k]
  BY <1>2, <1>3
<1>7. \A k \in DOMAIN t : (s \o t)[Len(s) + k] = t[k]
  <2>1. SUFFICES ASSUME NEW k \in DOMAIN t PROVE (s \o t)[Len(s) + k] = t[k]
    OBVIOUS
  <2>2. Len(s) + k \in 1 .. Len(s) + Len(t) /\ ~(Len(s) + k <= Len(s)) /\ (Len(s) + k) - Len(s) = k
    BY <1>2
  <2> QED BY <2>2, <1>3
<1>8. ASSUME NEW k \in 1 .. Len(s) + Len(t), k \notin DOMAIN s
      PROVE  \E l \in DOMAIN t : k = Len(s) + l
  <2>1. k - Len(s) \in DOMAIN t /\ k = Len(s) + (k - Len(s))
    BY <1>2, <1>8
  <2> QED BY <2>1
<1>9. s = <<>> => s \o t = t
  BY <1>1, ConcatEmptySeq
<1> QED BY <1>2, <1>3, <1>4, <1>5, <1>6, <1>7, <1>8, <1>9

LEMMA Appended ==
  ASSUME NEW s, Listing(s), NEW x
  PROVE  /\ Listing(Append(s, x)) /\ Len(Append(s, x)) = Len(s) + 1
         /\ Len(s) \in Nat /\ DOMAIN s = 1 .. Len(s)
         /\ DOMAIN Append(s, x) = DOMAIN s \cup {Len(s) + 1}
         /\ \A k \in DOMAIN s : Append(s, x)[k] = s[k]
         /\ Append(s, x)[Len(s) + 1] = x
<1>1. s \in Seq(Range(s) \cup {x})
  BY SeqMonotonic DEF Listing
<1>2. Len(s) \in Nat /\ DOMAIN s = 1 .. Len(s)
  BY <1>1, LenProperties
<1>3. /\ Append(s, x) \in Seq(Range(s) \cup {x}) /\ Len(Append(s, x)) = Len(s) + 1
      /\ \A i \in 1 .. Len(s) : Append(s, x)[i] = s[i]
      /\ Append(s, x)[Len(s) + 1] = x
  BY <1>1, AppendProperties
<1>4. DOMAIN Append(s, x) = 1 .. Len(s) + 1
  BY <1>3, LenProperties
<1>5. Listing(Append(s, x))
  BY <1>3, SeqOfRange DEF Listing
<1> QED BY <1>2, <1>3, <1>4, <1>5

(***************************************************************************)
(* Steps of the threads of a call: what they all leave as it is.           *)
(***************************************************************************)
Fixed == UNCHANGED <<run, waiting, addends, walk, doc, kept, picked>>

(* While a summand has a step to take nothing is reordered.                *)
LEMMA NoWalkYet ==
  ASSUME IInv, NEW i \in DOMAIN task, task[i] # <<>>
  PROVE  walk = NoWalk
BY DEF IInv, Control

LEMMA FixedFacts ==
  ASSUME IInv, Optimizing, NEW i \in DOMAIN task, task[i] # <<>>, Fixed,
         pinner'.finished = pinner.finished
  PROVE  /\ Control' /\ RunSorts' /\ WalkSorts' /\ WalkInv' /\ Promises'
         /\ Optimizing' /\ Active /\ Active'
<1> USE DEF Fixed
<1>1. Optimizing' /\ Active /\ Active'
  BY DEF Optimizing, Active
<1>2. Promises'
  BY <1>1 DEF Optimizing, Promises, KeptWithTheirResults, RecordListsResults,
              AxesFollowSummands, PinReplaysRecord
<1>3. walk' = NoWalk /\ walk = NoWalk
  BY NoWalkYet
<1>4. WalkInv'
  <2>1. walk'.order = <<>> /\ walk'.clones = <<>> /\ walk'.stack = {}
    BY <1>3 DEF NoWalk
  <2>2. DOMAIN walk'.order = {} /\ DOMAIN walk'.clones = {} /\ Len(walk'.order) = 0
        /\ Len(walk'.clones) = 0
    BY <2>1
  <2> QED BY <2>1, <2>2 DEF WalkInv
<1>5. Control'
  BY <1>1, <1>3 DEF IInv, Control, Optimizing, Active
<1>6. RunSorts' /\ WalkSorts'
  BY DEF IInv, Sorts, RunSorts, WalkSorts, Listing
<1> QED BY <1>1, <1>2, <1>4, <1>5, <1>6

(***************************************************************************)
(* A result is made.                                                       *)
(***************************************************************************)
(* What is chosen for a term depends on the run and the record only.       *)
LEMMA ChosenStays ==
  ASSUME run'.how = run.how, doc' = doc
  PROVE  \A r : Chosen(r)' = Chosen(r)
BY DEF Chosen, Positions

MakeStep(i, r, steps) ==
  /\ task[i] = <<"optimize">> /\ steps \in Tasks \ {<<"optimize">>, <<"threw">>}
  /\ r.key = addends[i] /\ Chosen(r)
  /\ steps \in ToStore \/ r.nodes = <<>>
  /\ run.how = "record" => steps \in ToAdd
  /\ Make(i, r, steps) /\ Fixed /\ UNCHANGED <<axes, recorder>>
  /\ pinner'.finished = pinner.finished

LEMMA MadeFacts ==
  ASSUME IInv, Optimizing, NEW i \in DOMAIN task, NEW r, NEW steps, MakeStep(i, r, steps)
  PROVE  /\ Fresh \in Address /\ Fresh \notin DOMAIN results
         /\ DOMAIN addends = DOMAIN task /\ i \in DOMAIN addends
         /\ task' \in [DOMAIN addends -> Tasks] /\ task'[i] = steps
         /\ slot' \in [DOMAIN addends -> Address \cup {None}] /\ slot'[i] = Fresh
         /\ ~Made(i) /\ Made(i)'
         /\ \A j \in DOMAIN addends : j # i =>
              task'[j] = task[j] /\ slot'[j] = slot[j] /\ Made(j)' = Made(j)
         /\ DOMAIN results' = DOMAIN results \cup {Fresh} /\ results'[Fresh] = r
         /\ \A a \in DOMAIN results : a # Fresh /\ results'[a] = results[a]
<1>1. task \in [DOMAIN addends -> Tasks] /\ slot \in [DOMAIN addends -> Address \cup {None}]
  BY DEF IInv, Sorts, TaskSorts
<1>2. Fresh \in Address /\ Fresh \notin DOMAIN results
  BY FreshFree DEF MakeStep, Make
<1>3. DOMAIN addends = DOMAIN task /\ i \in DOMAIN addends
  BY <1>1
<1>4. task' = [task EXCEPT ![i] = steps] /\ slot' = [slot EXCEPT ![i] = Fresh]
      /\ steps \in Tasks \ {<<"optimize">>, <<"threw">>} /\ task[i] = <<"optimize">>
  BY DEF MakeStep, Make
<1>5. /\ task' \in [DOMAIN addends -> Tasks] /\ task'[i] = steps
      /\ slot' \in [DOMAIN addends -> Address \cup {None}] /\ slot'[i] = Fresh
  BY <1>1, <1>2, <1>3, <1>4
<1>6. \A j \in DOMAIN addends : j # i => task'[j] = task[j] /\ slot'[j] = slot[j]
  BY <1>1, <1>4
<1>7. ~Made(i) /\ Made(i)'
  BY <1>4, <1>5 DEF Made
<1>8. \A j \in DOMAIN addends : j # i => Made(j)' = Made(j)
  BY <1>6 DEF Made
<1>9. results' = Put(results, Fresh, r)
  BY DEF MakeStep, Make
<1>10. DOMAIN results' = DOMAIN results \cup {Fresh} /\ results'[Fresh] = r
       /\ \A a \in DOMAIN results : a # Fresh /\ results'[a] = results[a]
  BY <1>2, <1>9 DEF Put
<1> QED BY <1>2, <1>3, <1>5, <1>6, <1>7, <1>8, <1>10

LEMMA MakeKeeps ==
  ASSUME IInv, Optimizing, NEW i \in DOMAIN task, NEW r, NEW steps, MakeStep(i, r, steps)
  PROVE  /\ (DOMAIN results \subseteq Address /\ TaskSorts /\ RecorderSorts)'
         /\ Held' /\ Recording'
<1>1. /\ Fresh \in Address /\ Fresh \notin DOMAIN results
      /\ DOMAIN addends = DOMAIN task /\ i \in DOMAIN addends
      /\ task' \in [DOMAIN addends -> Tasks] /\ task'[i] = steps
      /\ slot' \in [DOMAIN addends -> Address \cup {None}] /\ slot'[i] = Fresh
      /\ ~Made(i) /\ Made(i)'
      /\ \A j \in DOMAIN addends : j # i =>
           task'[j] = task[j] /\ slot'[j] = slot[j] /\ Made(j)' = Made(j)
      /\ DOMAIN results' = DOMAIN results \cup {Fresh} /\ results'[Fresh] = r
      /\ \A a \in DOMAIN results : a # Fresh /\ results'[a] = results[a]
  BY MadeFacts
<1>2. /\ addends' = addends /\ run' = run /\ kept' = kept /\ doc' = doc /\ picked' = picked
      /\ axes' = axes /\ recorder' = recorder
      /\ r.key = addends[i] /\ Chosen(r) /\ (steps \in ToStore \/ r.nodes = <<>>)
      /\ run.how = "record" => steps \in ToAdd
  BY DEF MakeStep, Fixed
<1>3. Optimizing' /\ Active /\ Active'
  BY <1>2 DEF Optimizing, Active
<1>4. (DOMAIN results \subseteq Address /\ TaskSorts /\ RecorderSorts)'
  BY <1>1, <1>2 DEF IInv, Sorts, TaskSorts, RecorderSorts, Listing
<1>5. KeptApart'
  BY <1>1, <1>2, <1>3 DEF IInv, Held, KeptApart
<1>6. SlotsApart'
  <2>1. /\ \A j \in DOMAIN addends : Made(j) =>
             /\ slot[j] \in DOMAIN results
             /\ \A p \in DOMAIN kept : kept[p] # slot[j]
             /\ \A l \in DOMAIN addends : Made(l) /\ slot[j] = slot[l] => j = l
        /\ \A p \in DOMAIN kept : kept[p] \in DOMAIN results
    BY <1>3 DEF IInv, Held, SlotsApart, KeptApart
  <2>2. ASSUME NEW j \in DOMAIN addends, Made(j)'
        PROVE  /\ slot'[j] \in DOMAIN results'
               /\ \A p \in DOMAIN kept' : kept'[p] # slot'[j]
               /\ \A l \in DOMAIN addends : Made(l)' /\ slot'[j] = slot'[l] => j = l
    BY <1>1, <1>2, <2>1, <2>2
  <2> QED BY <1>2, <2>2 DEF SlotsApart
<1>7. SlotsChosen'
  <2>1. \A j \in DOMAIN addends : Made(j) =>
          /\ slot[j] \in DOMAIN results
          /\ results[slot[j]].key = addends[j] /\ Chosen(results[slot[j]])
    BY <1>3 DEF IInv, Held, SlotsApart, SlotsChosen
  <2>2. \A j \in DOMAIN addends : Made(j)' =>
          results'[slot'[j]].key = addends[j] /\ Chosen(results'[slot'[j]])
    BY <1>1, <1>2, <2>1
  <2>3. \A x : Chosen(x)' = Chosen(x)
    BY <1>2, ChosenStays
  <2> QED BY <1>2, <2>2, <2>3 DEF SlotsChosen, Chosen
<1>8. AxesStored'
  <2>1. /\ \A a \in DOMAIN axes : \E j \in DOMAIN addends : Made(j) /\ slot[j] = a
        /\ \A j \in DOMAIN addends : Made(j) =>
             /\ slot[j] \in DOMAIN results
             /\ slot[j] \in DOMAIN axes => axes[slot[j]] = results[slot[j]].nodes
             /\ task[j] \notin ToStore =>
                  slot[j] \in DOMAIN axes \/ results[slot[j]].nodes = <<>>
    BY <1>3 DEF IInv, Held, SlotsApart, AxesStored
  <2>2. Fresh \notin DOMAIN axes
    BY <1>1, <2>1
  <2>3. \A a \in DOMAIN axes : \E j \in DOMAIN addends : Made(j)' /\ slot'[j] = a
    BY <1>1, <2>1
  <2>4. ASSUME NEW j \in DOMAIN addends, Made(j)'
        PROVE  /\ slot'[j] \in DOMAIN axes => axes[slot'[j]] = results'[slot'[j]].nodes
               /\ task'[j] \notin ToStore =>
                    slot'[j] \in DOMAIN axes \/ results'[slot'[j]].nodes = <<>>
    <3>1. CASE j = i
      BY <3>1, <1>1, <1>2, <2>2
    <3>2. CASE j # i
      BY <3>2, <2>4, <1>1, <2>1
    <3> QED BY <3>1, <3>2
  <2> QED BY <1>2, <2>3, <2>4 DEF AxesStored
<1>9. Recording'
  <2>1. CASE run.how = "record"
    <3>1. /\ \A p \in DOMAIN kept : RecordKept(kept[p]) /\ kept[p] \in DOMAIN results
          /\ \A j \in DOMAIN addends : Made(j) =>
               /\ slot[j] \in DOMAIN results
               /\ task[j] \notin ToAdd => RecordKept(slot[j])
      BY <2>1, <1>3 DEF IInv, Held, SlotsApart, KeptApart, Recording, RecordsIndexed
    <3> DEFINE KeptNext(a) == /\ a \in DOMAIN recorder'.index
                              /\ recorder'.records[recorder'.index[a]] = RecordOf(results'[a])
    <3>2. \A a \in DOMAIN results : RecordKept(a) => KeptNext(a)
      BY <1>1, <1>2 DEF RecordKept
    <3>3. \A j \in DOMAIN addends : Made(j)' /\ task'[j] \notin ToAdd => KeptNext(slot'[j])
      <4>1. SUFFICES ASSUME NEW j \in DOMAIN addends, Made(j)', task'[j] \notin ToAdd
                     PROVE  KeptNext(slot'[j])
        OBVIOUS
      <4>2. j # i /\ Made(j) /\ task[j] \notin ToAdd /\ slot'[j] = slot[j]
        BY <1>1, <1>2, <2>1, <4>1
      <4>3. RecordKept(slot[j]) /\ slot[j] \in DOMAIN results
        BY <3>1, <4>2
      <4> HIDE DEF KeptNext
      <4> QED BY <3>2, <4>2, <4>3
    <3>4. \A p \in DOMAIN kept' : KeptNext(kept'[p])
      BY <1>2, <3>1, <3>2
    <3>5. RecordsIndexed'
      <4>1. /\ \A a \in DOMAIN recorder.index : recorder.index[a] \in DOMAIN recorder.records
            /\ \A n \in DOMAIN recorder.records : GoodRecord(recorder.records[n])
        BY <2>1, <1>3 DEF IInv, Recording, RecordsIndexed
      <4>2. /\ \A p \in DOMAIN kept' : RecordKept(kept[p])'
            /\ \A j \in DOMAIN addends : Made(j)' /\ task'[j] \notin ToAdd =>
                 RecordKept(slot[j])'
        BY <3>3, <3>4 DEF RecordKept
      <4> QED BY <1>2, <4>1, <4>2 DEF RecordsIndexed
    <3>6. RecordsInCallOrder'
      <4>1. SUFFICES ASSUME run.each PROVE RecordsInCallOrder'
        BY <1>2 DEF RecordsInCallOrder
      <4>2. addends # <<>> /\ Len(addends) = 1 /\ DOMAIN addends = 1 .. Len(addends)
        <5>1. addends \in Seq(DOMAIN Kind)
          BY DEF IInv, Sorts, TaskSorts
        <5> QED BY <4>1, <5>1, SeqFacts DEF IInv, Control
      <4>3. i = 1
        BY <1>1, <4>2
      <4>4. ~AddedNow /\ ~AddedNow'
        BY <1>1, <1>2, <2>1, <4>3 DEF AddedNow
      <4> QED BY <1>2, <1>3, <2>1, <4>1, <4>4 DEF IInv, Recording, RecordsInCallOrder
    <3> QED BY <3>5, <3>6 DEF Recording
  <2>2. CASE run.how # "record"
    BY <1>2, <2>2 DEF Recording, RecordsIndexed, RecordsInCallOrder
  <2> QED BY <2>1, <2>2
<1> QED BY <1>4, <1>5, <1>6, <1>7, <1>8, <1>9 DEF Held

(* Without a pin there is nothing to say of its session.                   *)
LEMMA OptimizeKeeps ==
  ASSUME IInv, NEW i \in DOMAIN task, Optimize(i)
  PROVE  IInv'
<1>1. PICK tree \in Trees[addends[i]] :
        Make(i, Result(addends[i], tree, Axes[tree]),
             IF Kind[addends[i]] \in {"product", "mixed"} THEN <<"store">> ELSE <<>>)
  BY DEF Optimize
<1> DEFINE r == Result(addends[i], tree, Axes[tree])
           steps == IF Kind[addends[i]] \in {"product", "mixed"} THEN <<"store">> ELSE <<>>
<1>2. Optimizing /\ task[i] # <<>> /\ Head(task[i]) = "optimize" /\ run.how = "plain"
  BY DEF Optimize, Ready
<1>3. task[i] \in Tasks /\ addends[i] \in DOMAIN Kind
  BY SeqFacts DEF IInv, Sorts, TaskSorts
<1>4. task[i] = <<"optimize">>
  BY <1>2, <1>3, TaskSteps
<1>5. Fixed /\ UNCHANGED <<axes, recorder>> /\ pinner' = pinner
  BY DEF Optimize, Fixed
<1>6. r.key = addends[i] /\ r.tree = tree /\ r.nodes = Axes[tree]
  BY DEF Result
<1>7. Chosen(r)
  BY <1>2, <1>3, <1>6 DEF Chosen
<1>8. steps \in Tasks \ {<<"optimize">>, <<"threw">>}
  BY TaskKinds
<1>9. steps \in ToStore \/ r.nodes = <<>>
  BY <1>3, <1>6, TermsAssumption, TaskKinds
<1> HIDE DEF r, steps
<1>10. MakeStep(i, r, steps)
  BY <1>1, <1>2, <1>4, <1>5, <1>6, <1>7, <1>8, <1>9 DEF MakeStep, r, steps
<1>11. (DOMAIN results \subseteq Address /\ TaskSorts /\ RecorderSorts)' /\ Held' /\ Recording'
  BY <1>2, <1>10, MakeKeeps
<1>12. Control' /\ RunSorts' /\ WalkSorts' /\ WalkInv' /\ Promises'
  BY <1>2, <1>5, FixedFacts
<1>13. PinnerSorts' /\ PinInv'
  BY <1>2, <1>5 DEF Fixed, IInv, Sorts, PinnerSorts, PinInv, Ledger, Pinning, Bound,
                    ThrewCaused, OncePinned
<1> QED BY <1>11, <1>12, <1>13 DEF IInv, Sorts

LEMMA OptimizeRecordedKeeps ==
  ASSUME IInv, NEW i \in DOMAIN task, OptimizeRecorded(i)
  PROVE  IInv'
<1> DEFINE steps == CASE Pinnable(addends[i]) -> <<"add", "store">>
                      [] Kind[addends[i]] = "mixed" -> <<"store", "add">>
                      [] Kind[addends[i]] = "variable" -> <<"add">>
<1>1. PICK tree \in Trees[addends[i]] : Make(i, Result(addends[i], tree, Axes[tree]), steps)
  BY DEF OptimizeRecorded
<1> DEFINE r == Result(addends[i], tree, Axes[tree])
<1>2. Optimizing /\ task[i] # <<>> /\ Head(task[i]) = "optimize" /\ run.how = "record"
  BY DEF OptimizeRecorded, Ready
<1>3. task[i] \in Tasks /\ addends[i] \in DOMAIN Kind
  BY SeqFacts DEF IInv, Sorts, TaskSorts
<1>4. task[i] = <<"optimize">>
  BY <1>2, <1>3, TaskSteps
<1>5. Fixed /\ UNCHANGED <<axes, recorder>> /\ pinner' = pinner
  BY DEF OptimizeRecorded, Fixed
<1>6. r.key = addends[i] /\ r.tree = tree /\ r.nodes = Axes[tree]
  BY DEF Result
<1>7. Chosen(r)
  BY <1>2, <1>3, <1>6 DEF Chosen
<1>8. /\ Kind[addends[i]] \in {"product", "mixed", "tensor", "variable"}
      /\ Kind[addends[i]] = "variable" => Axes[tree] = <<>>
  BY <1>3, TermsAssumption
<1>9. /\ Pinnable(addends[i]) => steps = <<"add", "store">>
      /\ Kind[addends[i]] = "mixed" => steps = <<"store", "add">>
      /\ Kind[addends[i]] = "variable" => steps = <<"add">>
      /\ Pinnable(addends[i]) \/ Kind[addends[i]] \in {"mixed", "variable"}
  BY <1>8 DEF Pinnable
<1>10. steps \in ToAdd /\ (steps \in ToStore \/ r.nodes = <<>>)
  BY <1>6, <1>8, <1>9 DEF ToAdd, ToStore
<1>11. steps \in Tasks \ {<<"optimize">>, <<"threw">>}
  BY <1>10, TaskKinds
<1> HIDE DEF r, steps
<1>12. MakeStep(i, r, steps)
  BY <1>1, <1>2, <1>4, <1>5, <1>6, <1>7, <1>10, <1>11 DEF MakeStep, r
<1>13. (DOMAIN results \subseteq Address /\ TaskSorts /\ RecorderSorts)' /\ Held' /\ Recording'
  BY <1>2, <1>12, MakeKeeps
<1>14. Control' /\ RunSorts' /\ WalkSorts' /\ WalkInv' /\ Promises'
  BY <1>2, <1>5, FixedFacts
<1>15. PinnerSorts' /\ PinInv'
  BY <1>2, <1>5 DEF Fixed, IInv, Sorts, PinnerSorts, PinInv, Ledger, Pinning, Bound,
                    ThrewCaused, OncePinned
<1> QED BY <1>13, <1>14, <1>15 DEF IInv, Sorts

(***************************************************************************)
(* A term is taken from the record.                                        *)
(***************************************************************************)
LEMMA TakenFacts ==
  ASSUME PinnerSorts, run.stage # "idle", run.how = "pin", NEW key,
         NEW t, t = Taken(pinner, doc, key)
  PROVE  /\ t = [uses |-> t.uses, missing |-> t.missing, duplicates |-> t.duplicates,
                 keys |-> pinner.keys, finished |-> pinner.finished]
         /\ t.uses \in [DOMAIN doc -> Nat]
         /\ \A p \in DOMAIN doc : pinner.uses[p] > 0 => t.uses[p] > 0
         /\ Positions(doc, key) = {} =>
              /\ t.uses = pinner.uses /\ t.duplicates = pinner.duplicates
              /\ t.missing = pinner.missing \cup {key}
         /\ Positions(doc, key) # {} => \E p \in DOMAIN doc :
              /\ p = Min(Positions(doc, key)) /\ doc[p].key = key
              /\ t.missing = pinner.missing
              /\ t.uses[p] > 0 /\ \A q \in DOMAIN doc : q # p => t.uses[q] = pinner.uses[q]
              /\ pinner.uses[p] > 0 => t.duplicates = pinner.duplicates \cup {key}
              /\ ~(pinner.uses[p] > 0) => t.duplicates = pinner.duplicates
<1>1. /\ pinner = [uses |-> pinner.uses, missing |-> pinner.missing,
                   duplicates |-> pinner.duplicates, keys |-> pinner.keys,
                   finished |-> pinner.finished]
      /\ Recorded(doc) /\ pinner.uses \in [DOMAIN doc -> Nat]
  BY DEF PinnerSorts
<1>2. CASE Positions(doc, key) = {}
  <2>1. t = [pinner EXCEPT !.missing = @ \cup {key}]
    BY <1>2 DEF Taken
  <2>2. t = [uses |-> pinner.uses, missing |-> pinner.missing \cup {key},
             duplicates |-> pinner.duplicates, keys |-> pinner.keys,
             finished |-> pinner.finished]
    BY <1>1, <2>1
  <2> QED BY <1>1, <1>2, <2>2
<1>3. CASE Positions(doc, key) # {}
  <2> DEFINE p == Min(Positions(doc, key))
  <2>1. p \in DOMAIN doc /\ doc[p].key = key
    BY <1>1, <1>3, PositionFacts
  <2>2. t = [pinner EXCEPT !.uses[p] = @ + 1,
               !.duplicates = IF pinner.uses[p] > 0 THEN @ \cup {key} ELSE @]
    BY <1>3 DEF Taken
  <2> HIDE DEF p
  <2>3. t = [uses |-> [pinner.uses EXCEPT ![p] = @ + 1], missing |-> pinner.missing,
             duplicates |-> IF pinner.uses[p] > 0 THEN pinner.duplicates \cup {key}
                            ELSE pinner.duplicates,
             keys |-> pinner.keys, finished |-> pinner.finished]
    BY <1>1, <2>2
  <2>4. /\ t.uses = [pinner.uses EXCEPT ![p] = @ + 1] /\ t.missing = pinner.missing
        /\ pinner.uses[p] > 0 => t.duplicates = pinner.duplicates \cup {key}
        /\ ~(pinner.uses[p] > 0) => t.duplicates = pinner.duplicates
    BY <2>3
  <2>5. /\ t.uses \in [DOMAIN doc -> Nat] /\ t.uses[p] > 0
        /\ \A q \in DOMAIN doc : q # p => t.uses[q] = pinner.uses[q]
    BY <1>1, <2>1, <2>4
  <2>6. \A q \in DOMAIN doc : pinner.uses[q] > 0 => t.uses[q] > 0
    BY <2>5
  <2>7. p = Min(Positions(doc, key))
    BY DEF p
  <2>8. t = [uses |-> t.uses, missing |-> t.missing, duplicates |-> t.duplicates,
             keys |-> pinner.keys, finished |-> pinner.finished]
    BY <2>3
  <2> QED BY <1>3, <2>1, <2>4, <2>5, <2>6, <2>7, <2>8
<1> QED BY <1>2, <1>3

LEMMA TakeLedger ==
  ASSUME IInv, Optimizing, run.how = "pin", ~pinner.finished,
         NEW i \in DOMAIN task, task[i] = <<"optimize">>,
         pinner' = Taken(pinner, doc, addends[i]), Fixed,
         task' \in [DOMAIN addends -> Tasks], task'[i] # <<"optimize">>,
         \A j \in DOMAIN addends : j # i => task'[j] = task[j]
  PROVE  Ledger' /\ PinnerSorts' /\ pinner'.finished = pinner.finished /\ pinner'.keys = pinner.keys
<1> DEFINE key == addends[i]
<1>1. i \in DOMAIN addends /\ task \in [DOMAIN addends -> Tasks]
  BY DEF IInv, Sorts, TaskSorts
<1>2. /\ run' = run /\ addends' = addends /\ doc' = doc /\ kept' = kept /\ picked' = picked
      /\ run.stage = "call"
  BY DEF Fixed, Optimizing
<1>3. PinnerSorts /\ Recorded(doc) /\ pinner.uses \in [DOMAIN doc -> Nat]
  BY <1>2 DEF IInv, Sorts, PinnerSorts
<1>4. /\ pinner' = [uses |-> pinner'.uses, missing |-> pinner'.missing,
                    duplicates |-> pinner'.duplicates,
                    keys |-> pinner.keys, finished |-> pinner.finished]
      /\ pinner'.uses \in [DOMAIN doc -> Nat]
      /\ \A p \in DOMAIN doc : pinner.uses[p] > 0 => pinner'.uses[p] > 0
      /\ Positions(doc, key) = {} =>
           /\ pinner'.uses = pinner.uses /\ pinner'.duplicates = pinner.duplicates
           /\ pinner'.missing = pinner.missing \cup {key}
      /\ Positions(doc, key) # {} => \E p \in DOMAIN doc :
           /\ p = Min(Positions(doc, key)) /\ doc[p].key = key
           /\ pinner'.missing = pinner.missing
           /\ pinner'.uses[p] > 0 /\ \A q \in DOMAIN doc : q # p => pinner'.uses[q] = pinner.uses[q]
           /\ pinner.uses[p] > 0 => pinner'.duplicates = pinner.duplicates \cup {key}
           /\ ~(pinner.uses[p] > 0) => pinner'.duplicates = pinner.duplicates
  BY <1>2, <1>3, TakenFacts
<1>5. pinner'.finished = pinner.finished /\ pinner'.keys = pinner.keys
  BY <1>4
<1>6. PinnerSorts'
  BY <1>2, <1>3, <1>4, <1>5 DEF PinnerSorts
<1>7. UsesCounted /\ TakenOnce /\ MismatchCaused
  BY <1>2 DEF IInv, PinInv, Ledger, Pinning, Active
<1>8. /\ ~Made(i) /\ (Made(i)' <=> task'[i] # <<"threw">>)
      /\ \A j \in DOMAIN addends : j # i => Made(j)' = Made(j)
  BY DEF Made
<1>9. NoneThrew' => NoneThrew /\ Made(i)'
  BY <1>1, <1>2, <1>8, TaskKinds DEF NoneThrew, Optimizing
<1>10. \A x : Positions(doc, x)' = Positions(doc, x)
  BY <1>2 DEF Positions
<1> DEFINE KnownNext(x) ==
      /\ Positions(doc, x) = {} => x \in pinner'.missing
      /\ \A p \in DOMAIN doc : AtPosition(x, p) => pinner'.uses[p] > 0
<1>11. \A x : Known(x) => KnownNext(x)
  BY <1>4 DEF Known
<1>12. KnownNext(key)
  BY <1>4 DEF AtPosition
<1>13. \A x : Known(x)' = KnownNext(x)
  BY <1>2, <1>10 DEF Known, AtPosition
<1>14. \A x, p : AtPosition(x, p)' = AtPosition(x, p)
  BY <1>10 DEF AtPosition
<1>15. UsesCounted'
  <2>1. \A k \in DOMAIN picked : KnownNext(picked[k].key) /\ Chosen(picked[k])
    BY <1>7, <1>11 DEF UsesCounted
  <2>2. \A j \in DOMAIN addends : Made(j)' => KnownNext(addends[j])
    <3>1. \A j \in DOMAIN addends : Made(j) => Known(addends[j])
      BY <1>7 DEF UsesCounted
    <3> QED BY <3>1, <1>8, <1>11, <1>12
  <2>3. ASSUME NoneThrew', NEW p \in DOMAIN doc, pinner'.uses[p] > 0
        PROVE  \/ \E k \in DOMAIN picked : AtPosition(picked[k].key, p)
               \/ \E j \in DOMAIN addends : Made(j)' /\ AtPosition(addends[j], p)
    <3>1. CASE AtPosition(key, p)
      BY <3>1, <2>3, <1>1, <1>9
    <3>2. CASE ~AtPosition(key, p)
      <4>1. pinner.uses[p] > 0
        BY <3>2, <2>3, <1>4 DEF AtPosition
      <4>2. \/ \E k \in DOMAIN picked : AtPosition(picked[k].key, p)
            \/ \E j \in DOMAIN addends : Made(j) /\ AtPosition(addends[j], p)
        BY <4>1, <2>3, <1>7, <1>9 DEF UsesCounted
      <4> QED BY <4>2, <1>8
    <3> QED BY <3>1, <3>2
  <2>4. \A x : Chosen(x)' = Chosen(x)
    BY <1>2, ChosenStays
  <2>5. \A k \in DOMAIN picked : Chosen(picked[k])'
    BY <1>2, <2>1, <2>4 DEF Chosen
  <2>6. \A k \in DOMAIN picked : Known(picked[k].key)'
    BY <1>2, <2>1, <1>10 DEF Known, AtPosition
  <2>7. \A j \in DOMAIN addends : Made(j)' => Known(addends[j])'
    BY <1>2, <2>2, <1>10 DEF Known, AtPosition
  <2>8. NoneThrew' => \A p \in DOMAIN doc : pinner'.uses[p] > 0 =>
          \/ \E k \in DOMAIN picked : AtPosition(picked[k].key, p)'
          \/ \E j \in DOMAIN addends : Made(j)' /\ AtPosition(addends[j], p)'
    BY <1>2, <2>3, <1>10 DEF AtPosition
  <2>9. Optimizing'
    BY <1>2 DEF Optimizing
  <2> HIDE DEF KnownNext
  <2> QED BY <1>2, <2>5, <2>6, <2>7, <2>8, <2>9 DEF UsesCounted
<1>16. TakenOnce'
  <2>1. SUFFICES ASSUME pinner'.duplicates = {}, pinner'.missing = {} PROVE TakenOnce'
    BY DEF TakenOnce
  <2>2. PICK p \in DOMAIN doc : /\ AtPosition(key, p) /\ ~(pinner.uses[p] > 0)
                                /\ pinner.duplicates = {} /\ pinner.missing = {}
    BY <1>4, <2>1 DEF AtPosition
  <2>3. \A x : Known(x) => x # key
    BY <2>2 DEF Known
  <2>4. /\ \A k \in DOMAIN picked : picked[k].key # key
        /\ \A j \in DOMAIN addends : Made(j) => addends[j] # key
    BY <1>7, <2>3 DEF UsesCounted
  <2>5. /\ \A k, l \in DOMAIN picked : picked[k].key = picked[l].key => k = l
        /\ \A j \in DOMAIN addends : Made(j) =>
             /\ \A l \in DOMAIN addends : Made(l) /\ addends[j] = addends[l] => j = l
             /\ \A k \in DOMAIN picked : picked[k].key # addends[j]
    BY <1>7, <2>2 DEF TakenOnce
  <2>6. \A j \in DOMAIN addends : Made(j)' =>
          /\ \A l \in DOMAIN addends : Made(l)' /\ addends[j] = addends[l] => j = l
          /\ \A k \in DOMAIN picked : picked[k].key # addends[j]
    BY <1>8, <2>4, <2>5
  <2> QED BY <1>2, <2>5, <2>6 DEF TakenOnce
<1>17. MismatchCaused'
  <2>1. SUFFICES ASSUME ~run.each, NoneThrew' PROVE MismatchCaused'
    BY <1>2 DEF MismatchCaused
  <2>2. /\ pinner.duplicates # {} => HasDuplicates(addends)
        /\ \A x \in pinner.missing :
             Positions(doc, x) = {} /\ \E j \in DOMAIN addends : addends[j] = x
    BY <1>7, <1>9, <2>1 DEF MismatchCaused
  <2>3. picked = <<>>
    BY <1>2, <2>1 DEF IInv, Control, Active
  <2>4. ASSUME NEW p \in DOMAIN doc, AtPosition(key, p), pinner.uses[p] > 0
        PROVE  HasDuplicates(addends)
    <3>1. PICK j \in DOMAIN addends : Made(j) /\ AtPosition(addends[j], p)
      BY <1>7, <1>9, <2>1, <2>3, <2>4 DEF UsesCounted
    <3>2. Positions(doc, addends[j]) # {} /\ p = Min(Positions(doc, addends[j]))
      BY <3>1 DEF AtPosition
    <3>3. Positions(doc, addends[i]) # {} /\ p = Min(Positions(doc, addends[i]))
      BY <2>4 DEF AtPosition
    <3>4. doc[p].key = addends[j]
      BY <1>3, <3>2, PositionFacts
    <3>5. doc[p].key = addends[i]
      BY <1>3, <3>3, PositionFacts
    <3>6. j # i
      BY <1>8, <3>1
    <3> QED BY <1>1, <3>4, <3>5, <3>6 DEF HasDuplicates
  <2>5. pinner'.duplicates # {} => HasDuplicates(addends)
    BY <1>4, <2>2, <2>4 DEF AtPosition
  <2>6. \A x \in pinner'.missing :
          Positions(doc, x) = {} /\ \E j \in DOMAIN addends : addends[j] = x
    BY <1>1, <1>4, <2>2
  <2>7. \A x \in pinner'.missing :
          Positions(doc, x)' = {} /\ \E j \in DOMAIN addends : addends[j] = x
    BY <2>6, <1>2 DEF Positions
  <2> QED BY <1>2, <2>5, <2>7 DEF MismatchCaused
<1> QED BY <1>5, <1>6, <1>15, <1>16, <1>17 DEF Ledger

(* A term that cannot be rebuilt is not made.                              *)
LEMMA ThrewKeeps ==
  ASSUME IInv, Optimizing, run.how = "pin", NEW i \in DOMAIN task, task[i] = <<"optimize">>,
         task' = [task EXCEPT ![i] = <<"threw">>], Fixed,
         UNCHANGED <<results, slot, axes, recorder>>
  PROVE  /\ (DOMAIN results \subseteq Address /\ TaskSorts /\ RecorderSorts)'
         /\ Held' /\ Recording'
         /\ task' \in [DOMAIN addends -> Tasks] /\ task'[i] = <<"threw">>
         /\ \A j \in DOMAIN addends : Made(j)' = Made(j)
         /\ \A j \in DOMAIN addends : j # i => task'[j] = task[j]
<1>1. /\ addends' = addends /\ run' = run /\ kept' = kept /\ doc' = doc /\ picked' = picked
      /\ results' = results /\ slot' = slot /\ axes' = axes /\ recorder' = recorder
      /\ Optimizing' /\ Active /\ Active'
  BY DEF Fixed, Optimizing, Active
<1>2. task \in [DOMAIN addends -> Tasks] /\ i \in DOMAIN addends
  BY DEF IInv, Sorts, TaskSorts
<1>3. /\ task' \in [DOMAIN addends -> Tasks] /\ task'[i] = <<"threw">>
      /\ \A j \in DOMAIN addends : j # i => task'[j] = task[j]
  BY <1>2, TaskKinds
<1>4. \A j \in DOMAIN addends : Made(j)' = Made(j) /\ (Made(j) => task'[j] = task[j])
  BY <1>3 DEF Made
<1>5. (DOMAIN results \subseteq Address /\ TaskSorts /\ RecorderSorts)'
  BY <1>1, <1>3 DEF IInv, Sorts, TaskSorts, RecorderSorts, Listing
<1>6. KeptApart' /\ SlotsApart' /\ AxesStored'
  BY <1>1, <1>4 DEF IInv, Held, KeptApart, SlotsApart, AxesStored
<1>7. SlotsChosen'
  <2>1. \A x : Chosen(x)' = Chosen(x)
    BY <1>1, ChosenStays
  <2>2. \A j \in DOMAIN addends : Made(j) =>
          results[slot[j]].key = addends[j] /\ Chosen(results[slot[j]])
    BY DEF IInv, Held, SlotsChosen
  <2>3. \A j \in DOMAIN addends : Made(j)' =>
          results'[slot'[j]].key = addends[j] /\ Chosen(results'[slot'[j]])
    BY <1>1, <1>4, <2>2
  <2> QED BY <1>1, <2>1, <2>3 DEF SlotsChosen, Chosen
<1>8. Recording'
  BY <1>1 DEF Recording, RecordsIndexed, RecordsInCallOrder
<1> QED BY <1>3, <1>4, <1>5, <1>6, <1>7, <1>8 DEF Held

(* The steps of a term that is made under a pin, and what they leave to do. *)
LEMMA TakeMade ==
  ASSUME IInv, Optimizing, run.how = "pin", ~pinner.finished,
         NEW i \in DOMAIN task, NEW r, NEW steps \in ToBind, MakeStep(i, r, steps),
         pinner' = Taken(pinner, doc, addends[i])
  PROVE  IInv'
<1>1. /\ DOMAIN addends = DOMAIN task /\ i \in DOMAIN addends
      /\ task' \in [DOMAIN addends -> Tasks] /\ task'[i] = steps
      /\ slot'[i] = Fresh /\ ~Made(i) /\ Made(i)'
      /\ \A j \in DOMAIN addends : j # i =>
           task'[j] = task[j] /\ slot'[j] = slot[j] /\ Made(j)' = Made(j)
  BY MadeFacts
<1>2. task[i] = <<"optimize">> /\ Fixed /\ steps # <<"optimize">> /\ steps # <<"threw">>
  BY DEF MakeStep
<1>3. /\ addends' = addends /\ run' = run /\ kept' = kept /\ doc' = doc /\ picked' = picked
      /\ Optimizing'
  BY <1>2 DEF Fixed, Optimizing
<1>4. /\ Ledger' /\ PinnerSorts'
      /\ pinner'.finished = pinner.finished /\ pinner'.keys = pinner.keys
  BY <1>1, <1>2, TakeLedger
<1>5. (DOMAIN results \subseteq Address /\ TaskSorts /\ RecorderSorts)' /\ Held' /\ Recording'
  BY MakeKeeps
<1>6. Control' /\ RunSorts' /\ WalkSorts' /\ WalkInv' /\ Promises'
  BY <1>2, <1>4, FixedFacts, TaskKinds
<1>7. Bound'
  <2>1. \A j \in DOMAIN addends : Made(j) /\ task[j] \notin ToBind =>
          slot[j] \in DOMAIN pinner.keys /\ pinner.keys[slot[j]] = addends[j]
    BY DEF IInv, PinInv, Bound
  <2>2. \A j \in DOMAIN addends : Made(j)' /\ task'[j] \notin ToBind =>
          slot'[j] \in DOMAIN pinner'.keys /\ pinner'.keys[slot'[j]] = addends'[j]
    BY <1>1, <1>3, <1>4, <2>1
  <2> QED BY <1>3, <2>2 DEF Bound
<1>8. ThrewCaused'
  BY <1>1, <1>2, <1>3, <1>4 DEF IInv, PinInv, ThrewCaused
<1>9. OncePinned'
  BY <1>3, <1>4 DEF IInv, PinInv, OncePinned, Active
<1> QED BY <1>4, <1>5, <1>6, <1>7, <1>8, <1>9 DEF IInv, Sorts, PinInv

LEMMA TakeThrew ==
  ASSUME IInv, Optimizing, run.how = "pin", NEW i \in DOMAIN task, task[i] = <<"optimize">>,
         task' = [task EXCEPT ![i] = <<"threw">>], Fixed,
         UNCHANGED <<results, slot, axes, recorder>>,
         pinner' = pinner \/ (~pinner.finished /\ pinner' = Taken(pinner, doc, addends[i])),
         ~Pinnable(addends[i]) \/ pinner.finished \/ \E p \in DOMAIN doc : ~doc[p].pinnable
  PROVE  IInv'
<1>1. /\ (DOMAIN results \subseteq Address /\ TaskSorts /\ RecorderSorts)'
      /\ Held' /\ Recording'
      /\ task' \in [DOMAIN addends -> Tasks] /\ task'[i] = <<"threw">>
      /\ \A j \in DOMAIN addends : Made(j)' = Made(j)
      /\ \A j \in DOMAIN addends : j # i => task'[j] = task[j]
  BY ThrewKeeps
<1>2. /\ addends' = addends /\ run' = run /\ kept' = kept /\ doc' = doc /\ picked' = picked
      /\ slot' = slot /\ Optimizing'
  BY DEF Fixed, Optimizing
<1>3. i \in DOMAIN addends
  BY DEF IInv, Sorts, TaskSorts
<1>4. /\ Ledger' /\ PinnerSorts'
      /\ pinner'.finished = pinner.finished /\ pinner'.keys = pinner.keys
  <2>1. CASE ~pinner.finished /\ pinner' = Taken(pinner, doc, addends[i])
    BY <1>1, <2>1, TakeLedger, TaskKinds
  <2>2. CASE pinner' = pinner
    <3>1. PinnerSorts'
      BY <1>2, <2>2 DEF IInv, Sorts, PinnerSorts
    <3>2. SUFFICES ASSUME Pinning' PROVE Ledger'
      BY <2>2, <3>1 DEF Ledger
    <3>3. UsesCounted /\ TakenOnce
      BY <1>2, <2>2, <3>2 DEF IInv, PinInv, Ledger, Pinning, Active
    <3>4. ~NoneThrew'
      BY <1>1, <1>2, <1>3 DEF NoneThrew
    <3>5. \A x : Known(x)' = Known(x) /\ Chosen(x)' = Chosen(x)
      BY <1>2, <2>2 DEF Known, AtPosition, Positions, Chosen
    <3>6. UsesCounted'
      <4>1. \A k \in DOMAIN picked : Known(picked[k].key)' /\ Chosen(picked[k])'
        BY <1>2, <3>3, <3>5 DEF UsesCounted, Known, Chosen
      <4>2. \A j \in DOMAIN addends : Made(j)' => Known(addends[j])'
        BY <1>1, <1>2, <3>3, <3>5 DEF UsesCounted, Known
      <4> QED BY <1>2, <3>4, <4>1, <4>2 DEF UsesCounted
    <3>7. TakenOnce'
      BY <1>1, <1>2, <2>2, <3>3 DEF TakenOnce
    <3>8. MismatchCaused'
      BY <3>4 DEF MismatchCaused
    <3> QED BY <3>6, <3>7, <3>8 DEF Ledger
  <2> QED BY <2>1, <2>2
<1>5. Control' /\ RunSorts' /\ WalkSorts' /\ WalkInv' /\ Promises'
  BY <1>4, FixedFacts, TaskKinds
<1>6. Bound'
  <2>1. \A j \in DOMAIN addends : Made(j) => task'[j] = task[j]
    BY <1>1 DEF Made
  <2> QED BY <1>1, <1>2, <1>4, <2>1 DEF IInv, PinInv, Bound
<1>7. ThrewCaused'
  <2>1. \A j \in DOMAIN addends : task'[j] = <<"threw">> =>
          ~Pinnable(addends[j]) \/ pinner.finished \/ \E p \in DOMAIN doc : ~doc[p].pinnable
    BY <1>1 DEF IInv, PinInv, ThrewCaused
  <2> QED BY <1>2, <1>4, <2>1 DEF ThrewCaused
<1>8. OncePinned'
  <2>1. \A j \in DOMAIN addends : pinner.finished => ~Made(j)
    BY DEF IInv, PinInv, OncePinned, Active, Optimizing
  <2> QED BY <1>1, <1>2, <1>4, <2>1 DEF IInv, PinInv, OncePinned, Active
<1> QED BY <1>1, <1>4, <1>5, <1>6, <1>7, <1>8 DEF IInv, Sorts, PinInv

LEMMA TakePinnedKeeps ==
  ASSUME IInv, NEW i \in DOMAIN task, TakePinned(i)
  PROVE  IInv'
<1> DEFINE key == addends[i]
           p == Min(Positions(doc, key))
<1>1. Optimizing /\ task[i] # <<>> /\ Head(task[i]) = "optimize" /\ run.how = "pin"
  BY DEF TakePinned, Ready
<1>2. task[i] \in Tasks
  BY DEF IInv, Sorts, TaskSorts
<1>3. task[i] = <<"optimize">>
  BY <1>1, <1>2, TaskSteps
<1>4. Fixed /\ UNCHANGED <<axes, recorder>>
  BY DEF TakePinned, Fixed
<1>5. PinnerSorts /\ Recorded(doc) /\ run.stage # "idle"
  BY <1>1 DEF IInv, Sorts, PinnerSorts, Optimizing
<1>6. Positions(doc, key) # {} => p \in DOMAIN doc /\ doc[p].key = key
  BY <1>5, PositionFacts
<1>7. CASE /\ ~Pinnable(key) \/ pinner.finished
           /\ task' = [task EXCEPT ![i] = <<"threw">>]
           /\ UNCHANGED <<results, slot, pinner>>
  BY <1>1, <1>3, <1>4, <1>7, TakeThrew
<1>8. CASE /\ Pinnable(key) /\ ~pinner.finished /\ pinner' = Taken(pinner, doc, key)
           /\ Positions(doc, key) # {} /\ ~doc[p].pinnable
           /\ task' = [task EXCEPT ![i] = <<"threw">>] /\ UNCHANGED <<results, slot>>
  BY <1>1, <1>3, <1>4, <1>6, <1>8, TakeThrew
<1>9. pinner' = Taken(pinner, doc, key) => pinner'.finished = pinner.finished
  BY <1>1, <1>5, TakenFacts
<1>10. key \in DOMAIN Kind
  BY SeqFacts DEF IInv, Sorts, TaskSorts
<1>11. CASE /\ Pinnable(key) /\ ~pinner.finished /\ pinner' = Taken(pinner, doc, key)
            /\ Positions(doc, key) = {}
            /\ Make(i, Result(key, None, <<>>), <<"bind">>)
  <2> DEFINE r == Result(key, None, <<>>)
  <2>1. r.key = key /\ r.nodes = <<>>
    BY DEF Result
  <2>2. Chosen(r)
    BY <1>1, <1>10, <1>11, <2>1 DEF Chosen
  <2>3. <<"bind">> \in ToBind /\ <<"bind">> \in Tasks \ {<<"optimize">>, <<"threw">>}
    BY TaskKinds DEF ToBind
  <2> HIDE DEF r
  <2>4. MakeStep(i, r, <<"bind">>)
    BY <1>1, <1>3, <1>4, <1>9, <1>11, <2>1, <2>2, <2>3 DEF MakeStep, r
  <2> QED BY <1>1, <1>11, <2>3, <2>4, TakeMade
<1>12. CASE /\ Pinnable(key) /\ ~pinner.finished /\ pinner' = Taken(pinner, doc, key)
            /\ Positions(doc, key) # {} /\ doc[p].pinnable
            /\ Make(i, Result(key, doc[p].tree, doc[p].nodes), <<"bind", "store">>)
  <2> DEFINE r == Result(key, doc[p].tree, doc[p].nodes)
  <2>1. r.key = key /\ r.nodes = doc[p].nodes /\ r.tree = doc[p].tree
    BY DEF Result
  <2>2. Chosen(r)
    BY <1>1, <1>6, <1>10, <1>12, <2>1 DEF Chosen
  <2>3. /\ <<"bind", "store">> \in ToBind /\ <<"bind", "store">> \in ToStore
        /\ <<"bind", "store">> \in Tasks \ {<<"optimize">>, <<"threw">>}
    BY TaskKinds DEF ToBind, ToStore
  <2> HIDE DEF r
  <2>4. MakeStep(i, r, <<"bind", "store">>)
    BY <1>1, <1>3, <1>4, <1>9, <1>12, <2>1, <2>2, <2>3 DEF MakeStep, r
  <2> QED BY <1>1, <1>12, <2>3, <2>4, TakeMade
<1> QED BY <1>7, <1>8, <1>11, <1>12 DEF TakePinned

(***************************************************************************)
(* The other steps of a summand.                                           *)
(***************************************************************************)
LEMMA DidFacts ==
  ASSUME IInv, NEW i \in DOMAIN task, NEW step \in {"bind", "add", "store"}, Ready(i, step),
         task' = Did(i)
  PROVE  /\ i \in DOMAIN addends /\ task[i] # <<>> /\ Optimizing
         /\ task' \in [DOMAIN addends -> Tasks]
         /\ \A j \in DOMAIN addends : j # i => task'[j] = task[j]
         /\ \A j \in DOMAIN addends : Made(j)' = Made(j)
         /\ \A j \in DOMAIN addends : task'[j] = <<"threw">> <=> task[j] = <<"threw">>
         /\ Made(i) /\ Made(i)'
         /\ step # "store" => (task'[i] \in ToStore <=> task[i] \in ToStore)
         /\ step # "add" => (task'[i] \in ToAdd <=> task[i] \in ToAdd)
         /\ step = "add" => task[i] \in ToAdd /\ task'[i] \notin ToAdd
         /\ step # "bind" => task[i] \notin ToBind
<1>1. task \in [DOMAIN addends -> Tasks] /\ i \in DOMAIN addends
  BY DEF IInv, Sorts, TaskSorts
<1>2. task[i] \in Tasks /\ task[i] # <<>> /\ Head(task[i]) = step /\ Optimizing
  BY <1>1 DEF Ready
<1>3. /\ Tail(task[i]) \in {<<>>, <<"store">>, <<"add">>}
      /\ task[i] \in ToStore \cup ToAdd \cup ToBind
      /\ step # "store" => (Tail(task[i]) = <<"store">> <=> task[i] \in ToStore)
      /\ step = "store" => (Tail(task[i]) = <<"add">> <=> task[i] \in ToAdd)
      /\ step = "store" => Tail(task[i]) \in {<<>>, <<"add">>}
      /\ step # "store" => Tail(task[i]) \in {<<>>, <<"store">>}
      /\ step = "bind" => task[i] \notin ToAdd
      /\ step = "add" => task[i] \in ToAdd
      /\ step # "bind" => task[i] \notin ToBind
  BY <1>2, TaskSteps
<1>4. /\ task' \in [DOMAIN addends -> Tasks] /\ task'[i] = Tail(task[i])
      /\ \A j \in DOMAIN addends : j # i => task'[j] = task[j]
  BY <1>1, <1>3, TaskKinds DEF Did
<1>5. /\ task[i] \in Tasks \ {<<"optimize">>, <<"threw">>}
      /\ task'[i] \in Tasks \ {<<"optimize">>, <<"threw">>}
  BY <1>3, <1>4, TaskKinds
<1>6. Made(i) /\ Made(i)' /\ \A j \in DOMAIN addends : Made(j)' = Made(j)
  BY <1>4, <1>5 DEF Made
<1>7. \A j \in DOMAIN addends : task'[j] = <<"threw">> <=> task[j] = <<"threw">>
  BY <1>4, <1>5
<1>8. step # "store" => (task'[i] \in ToStore <=> task[i] \in ToStore)
  BY <1>3, <1>4, TaskKinds
<1>9. step # "add" => (task'[i] \in ToAdd <=> task[i] \in ToAdd)
  BY <1>3, <1>4, TaskKinds
<1>10. step = "add" => task[i] \in ToAdd /\ task'[i] \notin ToAdd
  BY <1>3, <1>4, TaskKinds
<1> QED BY <1>1, <1>2, <1>3, <1>4, <1>6, <1>7, <1>8, <1>9, <1>10

LEMMA DidKeeps ==
  ASSUME IInv, NEW i \in DOMAIN task, NEW step \in {"bind", "add", "store"}, Ready(i, step),
         task' = Did(i), Fixed, UNCHANGED <<results, slot>>,
         pinner'.uses = pinner.uses, pinner'.missing = pinner.missing,
         pinner'.duplicates = pinner.duplicates, pinner'.finished = pinner.finished
  PROVE  /\ (DOMAIN results \subseteq Address /\ TaskSorts)'
         /\ KeptApart' /\ SlotsApart' /\ SlotsChosen'
         /\ Ledger' /\ ThrewCaused' /\ OncePinned'
         /\ Control' /\ RunSorts' /\ WalkSorts' /\ WalkInv' /\ Promises'
<1>1. /\ i \in DOMAIN addends /\ task[i] # <<>> /\ Optimizing
      /\ task' \in [DOMAIN addends -> Tasks]
      /\ \A j \in DOMAIN addends : Made(j)' = Made(j)
      /\ \A j \in DOMAIN addends : task'[j] = <<"threw">> <=> task[j] = <<"threw">>
  BY DidFacts
<1>2. /\ addends' = addends /\ run' = run /\ kept' = kept /\ doc' = doc /\ picked' = picked
      /\ slot' = slot /\ results' = results /\ Optimizing' /\ Active /\ Active'
  BY <1>1 DEF Fixed, Optimizing, Active
<1>3. (DOMAIN results \subseteq Address /\ TaskSorts)'
  BY <1>1, <1>2 DEF IInv, Sorts, TaskSorts
<1>4. KeptApart' /\ SlotsApart'
  BY <1>1, <1>2 DEF IInv, Held, KeptApart, SlotsApart
<1>5. SlotsChosen'
  <2>1. \A x : Chosen(x)' = Chosen(x)
    BY <1>2, ChosenStays
  <2>2. \A j \in DOMAIN addends : Made(j) =>
          results[slot[j]].key = addends[j] /\ Chosen(results[slot[j]])
    BY <1>1 DEF IInv, Held, SlotsChosen
  <2>3. \A j \in DOMAIN addends : Made(j)' =>
          results'[slot'[j]].key = addends[j] /\ Chosen(results'[slot'[j]])
    BY <1>1, <1>2, <2>2
  <2> QED BY <1>2, <2>1, <2>3 DEF SlotsChosen, Chosen
<1>6. Ledger'
  <2>1. SUFFICES ASSUME Pinning PROVE (UsesCounted /\ TakenOnce /\ MismatchCaused)'
    BY <1>2 DEF Ledger, Pinning
  <2>2. UsesCounted /\ TakenOnce /\ MismatchCaused
    BY <2>1 DEF IInv, PinInv, Ledger
  <2>3. \A x : Known(x)' = Known(x) /\ Chosen(x)' = Chosen(x)
    BY <1>2 DEF Known, AtPosition, Positions, Chosen
  <2>4. \A x, p : AtPosition(x, p)' = AtPosition(x, p)
    BY <1>2 DEF AtPosition, Positions
  <2>5. NoneThrew' = NoneThrew
    BY <1>1, <1>2 DEF NoneThrew
  <2>6. UsesCounted'
    <3>1. \A k \in DOMAIN picked : Known(picked[k].key)' /\ Chosen(picked[k])'
      <4>1. \A k \in DOMAIN picked : Known(picked[k].key) /\ Chosen(picked[k])
        BY <2>2 DEF UsesCounted
      <4>2. \A k \in DOMAIN picked : Known(picked[k].key)'
        BY <1>2, <4>1 DEF Known, AtPosition, Positions
      <4>3. \A k \in DOMAIN picked : Chosen(picked[k])'
        BY <1>2, <4>1 DEF Chosen, Positions
      <4> QED BY <4>2, <4>3
    <3>2. \A j \in DOMAIN addends : Made(j)' => Known(addends[j])'
      BY <1>1, <1>2, <2>2, <2>3 DEF UsesCounted, Known
    <3>3. NoneThrew' => \A p \in DOMAIN doc : pinner'.uses[p] > 0 =>
            \/ \E k \in DOMAIN picked : AtPosition(picked[k].key, p)'
            \/ \E j \in DOMAIN addends : Made(j)' /\ AtPosition(addends[j], p)'
      BY <1>1, <1>2, <2>2, <2>4, <2>5 DEF UsesCounted, AtPosition
    <3> QED BY <1>2, <3>1, <3>2, <3>3 DEF UsesCounted
  <2>7. TakenOnce'
    BY <1>1, <1>2, <2>2 DEF TakenOnce
  <2>8. MismatchCaused'
    BY <1>2, <2>2, <2>5 DEF MismatchCaused, Positions
  <2> QED BY <2>6, <2>7, <2>8
<1>7. ThrewCaused'
  BY <1>1, <1>2 DEF IInv, PinInv, ThrewCaused
<1>8. OncePinned'
  BY <1>1, <1>2 DEF IInv, PinInv, OncePinned
<1>9. Control' /\ RunSorts' /\ WalkSorts' /\ WalkInv' /\ Promises'
  BY <1>1, FixedFacts
<1> QED BY <1>3, <1>4, <1>5, <1>6, <1>7, <1>8, <1>9

LEMMA DidRecording ==
  ASSUME IInv, NEW i \in DOMAIN task, NEW step \in {"bind", "store"}, Ready(i, step),
         task' = Did(i), Fixed, UNCHANGED <<results, slot, recorder>>
  PROVE  Recording'
<1>1. /\ i \in DOMAIN addends /\ Optimizing
      /\ task' \in [DOMAIN addends -> Tasks]
      /\ \A j \in DOMAIN addends : j # i => task'[j] = task[j]
      /\ \A j \in DOMAIN addends : Made(j)' = Made(j)
      /\ Made(i) /\ Made(i)'
      /\ task'[i] \in ToAdd <=> task[i] \in ToAdd
  BY DidFacts
<1>2. /\ addends' = addends /\ run' = run /\ kept' = kept /\ doc' = doc /\ picked' = picked
      /\ results' = results /\ slot' = slot /\ recorder' = recorder
      /\ Optimizing' /\ Active /\ Active'
  BY <1>1 DEF Fixed, Optimizing, Active
<1>3. \A a : RecordKept(a)' = RecordKept(a)
  BY <1>2 DEF RecordKept
<1>4. RecordsIndexed'
  <2>1. SUFFICES ASSUME run.how = "record" PROVE RecordsIndexed'
    BY <1>2 DEF RecordsIndexed
  <2>2. /\ \A p \in DOMAIN kept : RecordKept(kept[p])
        /\ \A j \in DOMAIN addends : Made(j) /\ task[j] \notin ToAdd => RecordKept(slot[j])
        /\ \A a \in DOMAIN recorder.index : recorder.index[a] \in DOMAIN recorder.records
        /\ \A n \in DOMAIN recorder.records : GoodRecord(recorder.records[n])
    BY <1>1, <1>2, <2>1 DEF IInv, Recording, RecordsIndexed
  <2>3. \A p \in DOMAIN kept : RecordKept(kept[p])'
    BY <1>2, <1>3, <2>2 DEF RecordKept
  <2>4. \A j \in DOMAIN addends : Made(j)' /\ task'[j] \notin ToAdd => RecordKept(slot[j])'
    BY <1>1, <1>2, <1>3, <2>2 DEF RecordKept
  <2> QED BY <1>2, <2>2, <2>3, <2>4 DEF RecordsIndexed
<1>5. RecordsInCallOrder'
  <2>1. SUFFICES ASSUME run.each PROVE RecordsInCallOrder'
    BY <1>2 DEF RecordsInCallOrder
  <2>2. 1 \in DOMAIN addends
    BY <1>1, <2>1, SeqFacts DEF IInv, Sorts, TaskSorts, Control
  <2>3. AddedNow' = AddedNow
    BY <1>1, <1>2, <2>2 DEF AddedNow
  <2> QED BY <1>2, <2>3 DEF IInv, Recording, RecordsInCallOrder
<1> QED BY <1>4, <1>5 DEF Recording

(* The key of a rebuilt term is bound to the result.                       *)
LEMMA BindKeeps ==
  ASSUME IInv, NEW i \in DOMAIN task, Bind(i)
  PROVE  IInv'
<1>1. Ready(i, "bind") /\ task' = Did(i) /\ Fixed /\ UNCHANGED <<results, axes, slot, recorder>>
  BY DEF Bind, Fixed
<1>2. pinner' = [uses |-> pinner.uses, missing |-> pinner.missing,
                 duplicates |-> pinner.duplicates,
                 keys |-> Put(pinner.keys, slot[i], addends[i]),
                 finished |-> pinner.finished]
  BY DEF Bind, IInv, Sorts, PinnerSorts
<1>3. /\ pinner'.uses = pinner.uses /\ pinner'.missing = pinner.missing
      /\ pinner'.duplicates = pinner.duplicates /\ pinner'.finished = pinner.finished
      /\ pinner'.keys = Put(pinner.keys, slot[i], addends[i])
  BY <1>2
<1>4. /\ (DOMAIN results \subseteq Address /\ TaskSorts)'
      /\ KeptApart' /\ SlotsApart' /\ SlotsChosen'
      /\ Ledger' /\ ThrewCaused' /\ OncePinned'
      /\ Control' /\ RunSorts' /\ WalkSorts' /\ WalkInv' /\ Promises'
  BY <1>1, <1>3, DidKeeps
<1>5. /\ i \in DOMAIN addends /\ Optimizing
      /\ \A j \in DOMAIN addends : j # i => task'[j] = task[j]
      /\ \A j \in DOMAIN addends : Made(j)' = Made(j)
      /\ Made(i) /\ Made(i)'
      /\ task'[i] \in ToStore <=> task[i] \in ToStore
      /\ task'[i] \in ToAdd <=> task[i] \in ToAdd
  BY <1>1, DidFacts
<1>6. /\ addends' = addends /\ run' = run /\ kept' = kept /\ doc' = doc /\ picked' = picked
      /\ Optimizing' /\ Active
  BY <1>1, <1>5 DEF Fixed, Optimizing, Active
<1>7. PinnerSorts' /\ RecorderSorts'
  BY <1>1, <1>2, <1>3, <1>6 DEF IInv, Sorts, PinnerSorts, RecorderSorts, Listing
<1>8. AxesStored'
  BY <1>1, <1>5, <1>6 DEF IInv, Held, AxesStored
<1>9. Recording'
  BY <1>1, DidRecording
<1>10. Bound'
  <2>1. ASSUME run.how = "pin", NEW j \in DOMAIN addends, Made(j)', task'[j] \notin ToBind
        PROVE  slot[j] \in DOMAIN pinner'.keys /\ pinner'.keys[slot[j]] = addends[j]
    <3>1. CASE j = i
      BY <1>3, <3>1 DEF Put
    <3>2. CASE j # i
      <4>1. slot[j] \in DOMAIN pinner.keys /\ pinner.keys[slot[j]] = addends[j]
        BY <1>5, <2>1, <3>2 DEF IInv, PinInv, Bound
      <4>2. slot[j] # slot[i]
        BY <1>5, <2>1, <3>2 DEF IInv, Held, SlotsApart
      <4> QED BY <1>3, <4>1, <4>2 DEF Put
    <3> QED BY <3>1, <3>2
  <2> QED BY <1>1, <1>6, <2>1 DEF Bound
<1> QED BY <1>4, <1>7, <1>8, <1>9, <1>10 DEF IInv, Sorts, Held, PinInv

(* Steps that leave the pin session alone.                                 *)
LEMMA DidUnpinned ==
  ASSUME IInv, NEW i \in DOMAIN task, NEW step \in {"add", "store"}, Ready(i, step),
         task' = Did(i), Fixed, UNCHANGED <<results, slot, pinner>>
  PROVE  PinnerSorts' /\ Bound'
<1>1. /\ Optimizing /\ task[i] \notin ToBind
      /\ \A j \in DOMAIN addends : j # i => task'[j] = task[j]
      /\ \A j \in DOMAIN addends : Made(j)' = Made(j)
  BY DidFacts
<1>2. /\ addends' = addends /\ run' = run /\ doc' = doc /\ slot' = slot /\ pinner' = pinner
  BY DEF Fixed
<1>3. PinnerSorts'
  BY <1>2 DEF IInv, Sorts, PinnerSorts
<1>4. \A j \in DOMAIN addends : Made(j)' /\ task'[j] \notin ToBind =>
        Made(j) /\ task[j] \notin ToBind
  BY <1>1
<1>5. Bound'
  BY <1>1, <1>2, <1>4 DEF IInv, PinInv, Bound, Optimizing
<1> QED BY <1>3, <1>5

(* The annotations of the result are kept.                                 *)
LEMMA StoreAxesKeeps ==
  ASSUME IInv, NEW i \in DOMAIN task, StoreAxes(i)
  PROVE  IInv'
<1>1. /\ Ready(i, "store") /\ task' = Did(i) /\ Fixed
      /\ UNCHANGED <<results, slot, recorder, pinner>>
      /\ axes' = Put(axes, slot[i], results[slot[i]].nodes)
  BY DEF StoreAxes, Fixed
<1>2. /\ (DOMAIN results \subseteq Address /\ TaskSorts)'
      /\ KeptApart' /\ SlotsApart' /\ SlotsChosen'
      /\ Ledger' /\ ThrewCaused' /\ OncePinned'
      /\ Control' /\ RunSorts' /\ WalkSorts' /\ WalkInv' /\ Promises'
  BY <1>1, DidKeeps
<1>3. /\ i \in DOMAIN addends /\ Optimizing
      /\ \A j \in DOMAIN addends : j # i => task'[j] = task[j]
      /\ \A j \in DOMAIN addends : Made(j)' = Made(j)
      /\ Made(i) /\ Made(i)'
  BY <1>1, DidFacts
<1>4. PinnerSorts' /\ Bound' /\ Recording'
  BY <1>1, DidUnpinned, DidRecording
<1>5. RecorderSorts'
  BY <1>1 DEF IInv, Sorts, RecorderSorts, Listing
<1>6. AxesStored'
  <2>1. /\ \A a \in DOMAIN axes : \E j \in DOMAIN addends : Made(j) /\ slot[j] = a
        /\ \A j \in DOMAIN addends : Made(j) =>
             /\ slot[j] \in DOMAIN axes => axes[slot[j]] = results[slot[j]].nodes
             /\ task[j] \notin ToStore =>
                  slot[j] \in DOMAIN axes \/ results[slot[j]].nodes = <<>>
    BY <1>3 DEF IInv, Held, AxesStored
  <2>2. /\ DOMAIN axes' = DOMAIN axes \cup {slot[i]}
        /\ axes'[slot[i]] = results[slot[i]].nodes
        /\ \A a \in DOMAIN axes : a # slot[i] => axes'[a] = axes[a]
    BY <1>1 DEF Put
  <2>3. \A j \in DOMAIN addends : Made(j) =>
          /\ slot[j] \in DOMAIN axes' => axes'[slot[j]] = results[slot[j]].nodes
          /\ task'[j] \notin ToStore =>
               slot[j] \in DOMAIN axes' \/ results[slot[j]].nodes = <<>>
    BY <1>3, <2>1, <2>2
  <2>4. \A a \in DOMAIN axes' : \E j \in DOMAIN addends : Made(j) /\ slot[j] = a
    BY <1>3, <2>1, <2>2
  <2>5. addends' = addends /\ slot' = slot /\ results' = results
    BY <1>1 DEF Fixed
  <2> QED BY <1>3, <2>3, <2>4, <2>5 DEF AxesStored
<1> QED BY <1>2, <1>4, <1>5, <1>6 DEF IInv, Sorts, Held, PinInv

(* A result gets its record.                                               *)
LEMMA AddRecordKeeps ==
  ASSUME IInv, NEW i \in DOMAIN task, AddRecord(i)
  PROVE  IInv'
<1> DEFINE rec == RecordOf(results[slot[i]])
           n == Len(recorder.records) + 1
<1>1. /\ Ready(i, "add") /\ task' = Did(i) /\ Fixed
      /\ UNCHANGED <<results, slot, axes, pinner>>
      /\ recorder' = Added(recorder, slot[i], rec)
  BY DEF AddRecord, Fixed
<1>2. /\ (DOMAIN results \subseteq Address /\ TaskSorts)'
      /\ KeptApart' /\ SlotsApart' /\ SlotsChosen'
      /\ Ledger' /\ ThrewCaused' /\ OncePinned'
      /\ Control' /\ RunSorts' /\ WalkSorts' /\ WalkInv' /\ Promises'
  BY <1>1, DidKeeps
<1>3. /\ i \in DOMAIN addends /\ Optimizing
      /\ \A j \in DOMAIN addends : j # i => task'[j] = task[j]
      /\ \A j \in DOMAIN addends : Made(j)' = Made(j)
      /\ Made(i) /\ Made(i)'
      /\ task'[i] \in ToStore <=> task[i] \in ToStore
      /\ task[i] \in ToAdd /\ task'[i] \notin ToAdd
  BY <1>1, DidFacts
<1>4. PinnerSorts' /\ Bound'
  BY <1>1, DidUnpinned
<1>5. /\ addends' = addends /\ run' = run /\ kept' = kept /\ doc' = doc /\ picked' = picked
      /\ results' = results /\ slot' = slot /\ Optimizing' /\ Active /\ Active'
  BY <1>1, <1>3 DEF Fixed, Optimizing, Active
<1>6. AxesStored'
  BY <1>1, <1>3, <1>5 DEF IInv, Held, AxesStored
<1>7. Listing(recorder.records)
  BY DEF IInv, Sorts, RecorderSorts
<1>8. /\ recorder'.records = Append(recorder.records, rec)
      /\ recorder'.index = Put(recorder.index, slot[i], n)
      /\ recorder' = [records |-> recorder'.records, index |-> recorder'.index]
  BY <1>1 DEF Added
<1> HIDE DEF rec
<1>9. /\ Listing(recorder'.records) /\ Len(recorder'.records) = n
      /\ DOMAIN recorder'.records = DOMAIN recorder.records \cup {n}
      /\ n \notin DOMAIN recorder.records
      /\ \A k \in DOMAIN recorder.records : recorder'.records[k] = recorder.records[k]
      /\ recorder'.records[n] = rec
  BY <1>7, <1>8, Appended
<1>10. RecorderSorts'
  BY <1>8, <1>9 DEF RecorderSorts
<1> HIDE DEF n
<1>11. /\ DOMAIN recorder'.index = DOMAIN recorder.index \cup {slot[i]}
       /\ recorder'.index[slot[i]] = n
       /\ \A a \in DOMAIN recorder.index : a # slot[i] => recorder'.index[a] = recorder.index[a]
  BY <1>8 DEF Put
<1>12. RecordsIndexed'
  <2>1. SUFFICES ASSUME run.how = "record" PROVE RecordsIndexed'
    BY <1>5 DEF RecordsIndexed
  <2>2. /\ \A a \in DOMAIN recorder.index : recorder.index[a] \in DOMAIN recorder.records
        /\ \A k \in DOMAIN recorder.records : GoodRecord(recorder.records[k])
        /\ \A p \in DOMAIN kept : RecordKept(kept[p])
        /\ \A j \in DOMAIN addends : Made(j) /\ task[j] \notin ToAdd => RecordKept(slot[j])
    BY <1>3, <1>5, <2>1 DEF IInv, Recording, RecordsIndexed
  <2>3. GoodRecord(rec)
    <3>1. Chosen(results[slot[i]])
      BY <1>3 DEF IInv, Held, SlotsChosen
    <3> QED BY <2>1, <3>1 DEF rec, RecordOf, Chosen, GoodRecord
  <2>4. /\ \A a \in DOMAIN recorder'.index : recorder'.index[a] \in DOMAIN recorder'.records
        /\ \A k \in DOMAIN recorder'.records : GoodRecord(recorder'.records[k])
    BY <1>9, <1>11, <2>2, <2>3
  <2> DEFINE KeptNext(a) == /\ a \in DOMAIN recorder'.index
                            /\ recorder'.records[recorder'.index[a]] = RecordOf(results[a])
  <2>5. \A a : RecordKept(a) /\ a # slot[i] => KeptNext(a)
    BY <1>9, <1>11, <2>2 DEF RecordKept
  <2>6. KeptNext(slot[i])
    BY <1>9, <1>11 DEF rec
  <2>7. /\ \A p \in DOMAIN kept : kept[p] # slot[i]
        /\ \A j \in DOMAIN addends : Made(j) /\ j # i => slot[j] # slot[i]
    BY <1>3 DEF IInv, Held, SlotsApart
  <2> HIDE DEF KeptNext
  <2>8. /\ \A p \in DOMAIN kept : KeptNext(kept[p])
        /\ \A j \in DOMAIN addends : Made(j)' /\ task'[j] \notin ToAdd => KeptNext(slot[j])
    BY <1>3, <2>2, <2>5, <2>6, <2>7
  <2>9. /\ \A p \in DOMAIN kept' : RecordKept(kept[p])'
        /\ \A j \in DOMAIN addends' : Made(j)' /\ task'[j] \notin ToAdd => RecordKept(slot[j])'
    BY <1>5, <2>8 DEF RecordKept, KeptNext
  <2> QED BY <2>4, <2>9 DEF RecordsIndexed
<1>13. RecordsInCallOrder'
  <2>1. SUFFICES ASSUME run.how = "record", run.each PROVE RecordsInCallOrder'
    BY <1>5 DEF RecordsInCallOrder
  <2>2. i = 1
    BY <1>3, <2>1, SeqFacts DEF IInv, Sorts, TaskSorts, Control
  <2>3. ~AddedNow /\ AddedNow'
    BY <1>3, <1>5, <2>2 DEF AddedNow
  <2>4. /\ Len(recorder.records) = Len(picked)
        /\ \A k \in DOMAIN picked : recorder.records[k] = RecordOf(picked[k])
        /\ Listing(picked)
    <3>1. Listing(picked) /\ Len(picked) \in Nat
      BY Appended DEF IInv, Sorts, RunSorts
    <3> QED BY <1>5, <2>1, <2>3, <3>1 DEF IInv, Recording, RecordsInCallOrder
  <2>5. DOMAIN picked = DOMAIN recorder.records /\ n = Len(picked) + 1
    BY <1>7, <2>4, Appended DEF n
  <2>6. Len(recorder'.records) = Len(picked) + 1
    BY <1>9, <2>5
  <2>7. \A k \in DOMAIN picked : recorder'.records[k] = RecordOf(picked[k])
    BY <1>9, <2>4, <2>5
  <2>8. recorder'.records[Len(picked) + 1] = RecordOf(results[slot[1]])
    BY <1>9, <2>2, <2>5 DEF rec
  <2> QED BY <1>5, <2>3, <2>6, <2>7, <2>8 DEF RecordsInCallOrder
<1> QED BY <1>2, <1>4, <1>6, <1>10, <1>12, <1>13 DEF IInv, Sorts, Held, Recording, PinInv

(***************************************************************************)
(* The end of a call.                                                      *)
(***************************************************************************)
(* What is said of a call, or of a run, says nothing after it.             *)
LEMMA CallOver ==
  ASSUME ~Optimizing'
  PROVE  SlotsApart' /\ SlotsChosen' /\ AxesStored' /\ Bound' /\ ThrewCaused' /\ WalkInv'
BY DEF SlotsApart, SlotsChosen, AxesStored, Bound, ThrewCaused, WalkInv

LEMMA RunOver ==
  ASSUME ~Active'
  PROVE  Held' /\ Recording' /\ PinInv' /\ WalkInv'
<1>1. ~Optimizing'
  BY DEF Active, Optimizing
<1> QED BY <1>1, CallOver DEF Held, KeptApart, Recording, RecordsIndexed, RecordsInCallOrder,
                              PinInv, Ledger, Pinning, OncePinned

LEMMA NoWalkOver ==
  ASSUME IInv, ~Optimizing \/ run.each \/ ~run.reorder \/ run.how = "pin"
  PROVE  walk = NoWalk
BY DEF IInv, Control

(* The results of a call that succeeded.                                   *)
LEMMA SlotFacts ==
  ASSUME IInv, Succeeded
  PROVE  /\ Optimizing /\ Active /\ NoneThrew
         /\ addends \in Seq(DOMAIN Kind) /\ Len(addends) \in Nat
         /\ DOMAIN addends = 1 .. Len(addends) /\ 1 \in DOMAIN addends
         /\ slot \in Seq(Address) /\ DOMAIN slot = DOMAIN addends /\ Len(slot) = Len(addends)
         /\ \A i \in DOMAIN addends :
              /\ Made(i) /\ task[i] = <<>>
              /\ task[i] \notin ToStore /\ task[i] \notin ToAdd /\ task[i] \notin ToBind
              /\ slot[i] \in DOMAIN results /\ slot[i] \in Address
              /\ results[slot[i]].key = addends[i] /\ Chosen(results[slot[i]])
              /\ \A p \in DOMAIN kept : kept[p] # slot[i]
              /\ \A j \in DOMAIN addends : slot[i] = slot[j] => i = j
         /\ \A a : a \in Range(slot) <=> \E i \in DOMAIN addends : slot[i] = a
<1>1. /\ task \in [DOMAIN addends -> Tasks] /\ slot \in [DOMAIN addends -> Address \cup {None}]
      /\ addends \in Seq(DOMAIN Kind) /\ DOMAIN results \subseteq Address
  BY DEF IInv, Sorts, TaskSorts
<1>2. Optimizing /\ Active /\ addends # <<>>
  BY DEF Succeeded, Ended, Optimizing, Active, IInv, Control
<1>3. Len(addends) \in Nat /\ DOMAIN addends = 1 .. Len(addends) /\ 1 \in DOMAIN addends
  BY <1>1, <1>2, SeqFacts
<1>4. \A i \in DOMAIN addends :
        /\ task[i] = <<>> /\ Made(i)
        /\ task[i] \notin ToStore /\ task[i] \notin ToAdd /\ task[i] \notin ToBind
  BY <1>1, TaskKinds DEF Succeeded, Made
<1>5. \A i \in DOMAIN addends :
        /\ slot[i] \in DOMAIN results /\ slot[i] \in Address
        /\ results[slot[i]].key = addends[i] /\ Chosen(results[slot[i]])
        /\ \A p \in DOMAIN kept : kept[p] # slot[i]
        /\ \A j \in DOMAIN addends : slot[i] = slot[j] => i = j
  BY <1>1, <1>2, <1>4 DEF IInv, Held, SlotsApart, SlotsChosen
<1>6. slot \in Seq(Address) /\ Len(slot) = Len(addends) /\ DOMAIN slot = DOMAIN addends
  <2>1. slot \in [1 .. Len(addends) -> Address]
    BY <1>1, <1>3, <1>5
  <2>2. slot \in Seq(Address)
    BY <1>3, <2>1, SeqDef
  <2>3. Len(slot) \in Nat /\ DOMAIN slot = 1 .. Len(slot)
    BY <2>2, LenProperties
  <2> QED BY <1>3, <2>1, <2>2, <2>3
<1>7. NoneThrew
  BY <1>4, TaskKinds DEF NoneThrew, Made
<1>8. \A a : a \in Range(slot) <=> \E i \in DOMAIN addends : slot[i] = a
  BY <1>6 DEF Range
<1> QED BY <1>1, <1>2, <1>3, <1>4, <1>5, <1>6, <1>7, <1>8

(* The annotations become those of the sum.                                *)
LEMMA Rekeyed ==
  ASSUME IInv, Succeeded, NEW order, Range(order) = Range(slot)
  PROVE  RekeyOnto(order) =
           [a \in {SumKey} |-> FlattenSeq([p \in DOMAIN order |-> results[order[p]].nodes])]
<1>1. \A a \in DOMAIN axes : a \in Range(order)
  BY SlotFacts DEF IInv, Held, AxesStored
<1>2. (DOMAIN axes \ Range(order)) \cup {SumKey} = {SumKey}
  BY <1>1
<1>3. ASSUME NEW p \in DOMAIN order
      PROVE  (IF order[p] \in DOMAIN axes THEN axes[order[p]] ELSE <<>>) = results[order[p]].nodes
  <2>1. order[p] \in Range(slot)
    BY DEF Range
  <2>2. PICK i \in DOMAIN addends : slot[i] = order[p]
    BY <2>1, SlotFacts
  <2> QED BY <2>2, SlotFacts DEF IInv, Held, AxesStored
<1>4. [p \in DOMAIN order |-> IF order[p] \in DOMAIN axes THEN axes[order[p]] ELSE <<>>] =
        [p \in DOMAIN order |-> results[order[p]].nodes]
  BY <1>3
<1> QED BY <1>2, <1>4 DEF RekeyOnto

LEMMA Listed ==
  ASSUME NEW n \in Nat, NEW f, f = [k \in 1 .. n |-> f[k]]
  PROVE  Listing(f) /\ Len(f) = n
<1>1. DOMAIN f = 1 .. n
  OBVIOUS
<1>2. f \in [1 .. n -> Range(f)]
  BY <1>1 DEF Range
<1>3. f \in Seq(Range(f))
  BY <1>2, SeqDef
<1>4. Len(f) \in Nat /\ DOMAIN f = 1 .. Len(f)
  BY <1>3, LenProperties
<1>5. n = Len(f)
  BY <1>1, <1>4
<1> QED BY <1>3, <1>5 DEF Listing

(* A call that throws: what it has made is freed.                          *)
LEMMA Thrown ==
  ASSUME IInv, Ended, Throw, PinnerSorts', walk = NoWalk, PinReplaysRecord'
  PROVE  IInv'
<1>1. /\ run' = [stage |-> "threw", how |-> run.how, each |-> run.each, reorder |-> run.reorder]
      /\ UNCHANGED <<axes, waiting, addends, task, slot, walk, recorder, doc, kept, runs, picked>>
      /\ results' = Discarded(Range(slot))
  BY DEF Throw, IInv, Sorts, RunSorts
<1>2. DOMAIN results' \subseteq Address
  BY <1>1 DEF Discarded, IInv, Sorts
<1>3. run'.stage = "threw" /\ ~Active' /\ ~Optimizing'
  BY <1>1 DEF Active, Optimizing
<1>4. TaskSorts' /\ RunSorts' /\ RecorderSorts' /\ WalkSorts'
  BY <1>1 DEF IInv, Sorts, TaskSorts, RunSorts, RecorderSorts, WalkSorts, Listing
<1>5. Held' /\ Recording' /\ PinInv' /\ WalkInv'
  BY <1>3, RunOver
<1>6. Control'
  BY <1>1, <1>3 DEF Control
<1>7. Promises'
  BY <1>3 DEF Promises, KeptWithTheirResults, RecordListsResults, AxesFollowSummands
<1> QED BY <1>2, <1>4, <1>5, <1>6, <1>7 DEF IInv, Sorts

LEMMA FailCallKeeps ==
  ASSUME IInv, FailCall
  PROVE  IInv'
<1>1. Ended /\ ~Succeeded /\ Throw /\ pinner' = pinner /\ Optimizing /\ Active
  BY DEF FailCall, Ended, Optimizing, Active
<1>2. /\ run' = [stage |-> "threw", how |-> run.how, each |-> run.each, reorder |-> run.reorder]
      /\ addends' = addends /\ doc' = doc /\ kept' = kept
  BY <1>1 DEF Throw, IInv, Sorts, RunSorts
<1>3. PinnerSorts'
  BY <1>1, <1>2 DEF IInv, Sorts, PinnerSorts, Optimizing
<1>4. PICK i \in DOMAIN task : task[i] = <<"threw">>
  BY <1>1 DEF Succeeded, Ended
<1>5. i \in DOMAIN addends /\ addends[i] \in DOMAIN Kind
  BY SeqFacts DEF IInv, Sorts, TaskSorts
<1>6. walk = NoWalk
  BY <1>4, NoWalkYet
<1>7. PinReplaysRecord'
  <2>1. SUFFICES ASSUME run.how = "pin"
                 PROVE  \/ kept # <<>> \/ ToSet(addends) # ToSet(KeysOf(doc))
                        \/ \E p \in DOMAIN doc : ~doc[p].pinnable
    BY <1>2 DEF PinReplaysRecord
  <2>2. \/ ~Pinnable(addends[i]) \/ pinner.finished
        \/ \E p \in DOMAIN doc : ~doc[p].pinnable
    BY <1>1, <1>4, <1>5, <2>1 DEF IInv, PinInv, ThrewCaused
  <2>3. pinner.finished => kept # <<>>
    BY <1>1, <2>1 DEF IInv, PinInv, OncePinned
  <2>4. ASSUME ~Pinnable(addends[i]), ToSet(addends) = ToSet(KeysOf(doc))
        PROVE  \E p \in DOMAIN doc : ~doc[p].pinnable
    <3>1. addends[i] \in ToSet(KeysOf(doc))
      BY <1>5, <2>4 DEF ToSet
    <3>2. PICK p \in DOMAIN doc : doc[p].key = addends[i]
      BY <3>1 DEF ToSet, KeysOf
    <3>3. Recorded(doc)
      BY <1>1, <2>1 DEF IInv, Sorts, PinnerSorts, Optimizing
    <3>4. ~doc[p].pinnable
      BY <2>4, <3>2, <3>3 DEF Recorded
    <3> QED BY <3>4
  <2> QED BY <2>2, <2>3, <2>4
<1> QED BY <1>1, <1>3, <1>6, <1>7, Thrown

(* What every call returns.                                                *)
LEMMA ReturnFacts ==
  ASSUME IInv, Succeeded, NEW order, order \in Seq(Address), NEW made, DOMAIN made = DOMAIN order,
         Return(order, made)
  PROVE  /\ ~Optimizing' /\ Active' /\ run'.stage = "returned" /\ run'.how = run.how
         /\ run'.each = run.each /\ run'.reorder = run.reorder
         /\ TaskSorts' /\ RunSorts'
         /\ Len(order) \in Nat /\ DOMAIN order = 1 .. Len(order)
         /\ Len(kept) \in Nat /\ DOMAIN kept = 1 .. Len(kept)
         /\ Len(picked) \in Nat /\ DOMAIN picked = 1 .. Len(picked)
         /\ DOMAIN kept' = 1 .. Len(kept) + Len(order)
         /\ DOMAIN picked' = 1 .. Len(picked) + Len(order)
         /\ Len(picked') = Len(picked) + Len(order)
         /\ \A k \in DOMAIN kept : kept'[k] = kept[k]
         /\ \A k \in DOMAIN order : kept'[Len(kept) + k] = order[k]
         /\ \A k \in DOMAIN picked : picked'[k] = picked[k]
         /\ \A k \in DOMAIN order : picked'[Len(picked) + k] = results[made[k]]
         /\ kept = <<>> => kept' = order
         /\ \A k \in DOMAIN kept' : k \in DOMAIN kept \/ \E l \in DOMAIN order : k = Len(kept) + l
         /\ \A k \in DOMAIN picked' :
              k \in DOMAIN picked \/ \E l \in DOMAIN order : k = Len(picked) + l
         /\ picked = <<>> => picked' = [k \in DOMAIN made |-> results[made[k]]]
<1> DEFINE new == [k \in DOMAIN made |-> results[made[k]]]
<1>1. Len(order) \in Nat /\ DOMAIN order = 1 .. Len(order) /\ Listing(order)
  BY LenProperties, SeqOfRange DEF Listing
<1>2. Listing(new) /\ Len(new) = Len(order)
  BY <1>1, Listed
<1>3. /\ kept \in Seq(Address) /\ Listing(picked)
      /\ run = [stage |-> run.stage, how |-> run.how, each |-> run.each, reorder |-> run.reorder]
  BY DEF IInv, Sorts, RunSorts
<1>4. Listing(kept)
  BY <1>3, SeqOfRange DEF Listing
<1>5. kept' = kept \o order /\ picked' = picked \o new
  BY DEF Return
<1>6. \A k \in DOMAIN order : new[k] = results[made[k]]
  OBVIOUS
<1>7. picked = <<>> => picked' = [k \in DOMAIN made |-> results[made[k]]]
  BY <1>2, <1>3, <1>5, Concatenated
<1> HIDE DEF new
<1>8. /\ Len(kept) \in Nat /\ DOMAIN kept = 1 .. Len(kept)
      /\ DOMAIN kept' = 1 .. Len(kept) + Len(order)
      /\ \A k \in DOMAIN kept : kept'[k] = kept[k]
      /\ \A k \in DOMAIN order : kept'[Len(kept) + k] = order[k]
      /\ kept = <<>> => kept' = order
  <2>1. Len(kept) \in Nat /\ DOMAIN kept = 1 .. Len(kept)
    BY <1>3, LenProperties
  <2>4. DOMAIN kept' = 1 .. Len(kept) + Len(order)
    BY <1>1, <1>4, <1>5, Concatenated
  <2>5. kept = <<>> => kept' = order
    BY <1>1, <1>4, <1>5, Concatenated
  <2>2. \A k \in DOMAIN kept : kept'[k] = kept[k]
    BY <1>1, <1>4, <1>5, Concatenated
  <2>3. \A k \in DOMAIN order : kept'[Len(kept) + k] = order[k]
    BY <1>1, <1>4, <1>5, Concatenated
  <2> QED BY <2>1, <2>2, <2>3, <2>4, <2>5
<1>9. /\ Len(picked) \in Nat /\ DOMAIN picked = 1 .. Len(picked)
      /\ Listing(picked') /\ Len(picked') = Len(picked) + Len(order)
      /\ DOMAIN picked' = 1 .. Len(picked) + Len(order)
      /\ \A k \in DOMAIN picked : picked'[k] = picked[k]
      /\ \A k \in DOMAIN new : picked'[Len(picked) + k] = new[k]
  <2>1. Len(picked) \in Nat /\ DOMAIN picked = 1 .. Len(picked)
    BY <1>3, LenProperties DEF Listing
  <2>4. Listing(picked) /\ Listing(new) /\ picked' = picked \o new
    BY <1>2, <1>3, <1>5
  <2>5. Listing(picked') /\ Len(picked') = Len(picked) + Len(new)
    BY <2>4, Concatenated
  <2>6. DOMAIN picked' = 1 .. Len(picked) + Len(new)
    BY <2>4, Concatenated
  <2>2. \A k \in DOMAIN picked : picked'[k] = picked[k]
    BY <1>2, <1>3, <1>5, Concatenated
  <2>3. \A k \in DOMAIN new : picked'[Len(picked) + k] = new[k]
    BY <1>2, <1>3, <1>5, Concatenated
  <2> QED BY <1>2, <2>1, <2>2, <2>3, <2>5, <2>6
<1>10. \A k \in DOMAIN order : picked'[Len(picked) + k] = results[made[k]]
  BY <1>6, <1>9 DEF new
<1>11. kept' \in Seq(Address)
  BY <1>3, <1>5, ConcatProperties
<1>12. /\ run' = [stage |-> "returned", how |-> run.how, each |-> run.each,
                  reorder |-> run.reorder]
       /\ UNCHANGED <<waiting, addends, task, slot, doc, runs>>
  BY <1>3 DEF Return
<1>13. ~Optimizing' /\ Active'
  BY <1>12 DEF Optimizing, Active
<1>14. TaskSorts'
  BY <1>12 DEF IInv, Sorts, TaskSorts
<1>15. RunSorts'
  BY <1>9, <1>11, <1>12 DEF IInv, Sorts, RunSorts
<1>16. ASSUME NEW n \in Nat, NEW k \in 1 .. n + Len(order)
       PROVE  k \in 1 .. n \/ \E l \in DOMAIN order : k = n + l
  <2>1. CASE k > n
    <3>1. k - n \in DOMAIN order /\ k = n + (k - n)
      BY <1>1, <2>1
    <3> QED BY <3>1
  <2> QED BY <2>1
<1> QED BY <1>1, <1>7, <1>8, <1>9, <1>10, <1>12, <1>13, <1>14, <1>15, <1>16

(* The results are returned as they are.                                   *)
LEMMA ReturnHolds ==
  ASSUME IInv, Succeeded, NEW order, order \in Seq(Address), Range(order) = Range(slot),
         \A p, q \in DOMAIN order : order[p] = order[q] => p = q,
         Return(order, order), UNCHANGED <<results, recorder>>
  PROVE  (DOMAIN results \subseteq Address)' /\ RecorderSorts' /\ Held' /\ RecordsIndexed'
<1>1. /\ ~Optimizing' /\ Active' /\ run'.how = run.how
      /\ DOMAIN order = 1 .. Len(order) /\ Len(order) \in Nat
      /\ Len(kept) \in Nat /\ DOMAIN kept = 1 .. Len(kept)
      /\ \A k \in DOMAIN kept : kept'[k] = kept[k]
      /\ \A k \in DOMAIN order : kept'[Len(kept) + k] = order[k]
      /\ \A k \in DOMAIN kept' : k \in DOMAIN kept \/ \E l \in DOMAIN order : k = Len(kept) + l
  BY ReturnFacts
<1>2. Optimizing /\ Active
  BY SlotFacts
<1>3. ASSUME NEW l \in DOMAIN order
      PROVE  /\ order[l] \in DOMAIN results /\ \A p \in DOMAIN kept : kept[p] # order[l]
             /\ run.how = "record" => RecordKept(order[l])
  <2>1. order[l] \in Range(slot)
    BY DEF Range
  <2>2. PICK i \in DOMAIN addends : slot[i] = order[l]
    BY <2>1, SlotFacts
  <2>3. run.how = "record" => RecordKept(slot[i])
    BY <1>2, SlotFacts DEF IInv, Recording, RecordsIndexed
  <2> QED BY <2>2, <2>3, SlotFacts
<1>4. KeptApart'
  <2>1. /\ \A p \in DOMAIN kept : kept[p] \in DOMAIN results
        /\ \A p, q \in DOMAIN kept : kept[p] = kept[q] => p = q
    BY <1>2 DEF IInv, Held, KeptApart
  <2>2. ASSUME NEW p \in DOMAIN kept' PROVE kept'[p] \in DOMAIN results
    BY <1>1, <1>3, <2>1
  <2>3. ASSUME NEW p \in DOMAIN kept', NEW q \in DOMAIN kept', kept'[p] = kept'[q]
        PROVE  p = q
    <3>1. CASE p \in DOMAIN kept /\ q \in DOMAIN kept
      BY <1>1, <2>1, <2>3, <3>1
    <3>2. ASSUME NEW k \in DOMAIN order, p = Len(kept) + k, q \in DOMAIN kept PROVE FALSE
      BY <1>1, <1>3, <2>3, <3>2
    <3>3. ASSUME NEW k \in DOMAIN order, q = Len(kept) + k, p \in DOMAIN kept PROVE FALSE
      BY <1>1, <1>3, <2>3, <3>3
    <3>4. ASSUME NEW k \in DOMAIN order, NEW l \in DOMAIN order,
                 p = Len(kept) + k, q = Len(kept) + l
          PROVE  p = q
      <4>1. order[k] = order[l]
        BY <1>1, <2>3, <3>4
      <4> QED BY <4>1, <3>4
    <3> QED BY <1>1, <3>1, <3>2, <3>3, <3>4
  <2> QED BY <2>2, <2>3 DEF KeptApart
<1>5. RecordsIndexed'
  <2>1. SUFFICES ASSUME run.how = "record" PROVE RecordsIndexed'
    BY <1>1 DEF RecordsIndexed
  <2>2. /\ \A a \in DOMAIN recorder.index : recorder.index[a] \in DOMAIN recorder.records
        /\ \A n \in DOMAIN recorder.records : GoodRecord(recorder.records[n])
        /\ \A p \in DOMAIN kept : RecordKept(kept[p])
    BY <1>2, <2>1 DEF IInv, Recording, RecordsIndexed
  <2>3. \A p \in DOMAIN kept' : RecordKept(kept'[p])
    BY <1>1, <1>3, <2>1, <2>2
  <2>4. \A p \in DOMAIN kept' : RecordKept(kept[p])'
    BY <2>3 DEF RecordKept
  <2> QED BY <1>1, <2>2, <2>4 DEF RecordsIndexed
<1>6. (DOMAIN results \subseteq Address)' /\ RecorderSorts'
  BY DEF IInv, Sorts, RecorderSorts, Listing
<1> QED BY <1>1, <1>4, <1>5, <1>6, CallOver DEF Held

(* The result of a root that is no sum.                                    *)
LEMMA ReturnTermKeeps ==
  ASSUME IInv, ReturnTerm
  PROVE  IInv'
<1>1. /\ Succeeded /\ run.each /\ Return(slot, slot)
      /\ UNCHANGED <<results, axes, walk, recorder, pinner>>
  BY DEF ReturnTerm
<1>2. /\ Optimizing /\ Active /\ NoneThrew
      /\ slot \in Seq(Address) /\ DOMAIN slot = DOMAIN addends /\ Len(slot) = Len(addends)
      /\ \A i, j \in DOMAIN slot : slot[i] = slot[j] => i = j
  BY <1>1, SlotFacts
<1>3. (DOMAIN results \subseteq Address)' /\ RecorderSorts' /\ Held' /\ RecordsIndexed'
  BY <1>1, <1>2, ReturnHolds
<1>4. Len(slot) = 1 /\ DOMAIN slot = {1}
  <2>1. Len(addends) = 1 /\ DOMAIN addends = 1 .. Len(addends)
    BY <1>1, <1>2, SlotFacts DEF IInv, Control
  <2> QED BY <1>2, <2>1
<1>5. /\ ~Optimizing' /\ Active' /\ run'.stage = "returned" /\ run'.how = run.how
      /\ run'.each = run.each /\ run'.reorder = run.reorder
      /\ TaskSorts' /\ RunSorts'
      /\ Len(picked) \in Nat /\ DOMAIN picked = 1 .. Len(picked)
      /\ DOMAIN picked' = 1 .. Len(picked) + 1 /\ Len(picked') = Len(picked) + 1
      /\ \A k \in DOMAIN picked : picked'[k] = picked[k]
      /\ picked'[Len(picked) + 1] = results[slot[1]]
  <2>1. /\ ~Optimizing' /\ Active' /\ run'.stage = "returned" /\ run'.how = run.how
        /\ run'.each = run.each /\ run'.reorder = run.reorder
        /\ TaskSorts' /\ RunSorts'
    BY <1>1, <1>2, ReturnFacts
  <2>2. /\ Len(picked) \in Nat /\ DOMAIN picked = 1 .. Len(picked)
        /\ DOMAIN picked' = 1 .. Len(picked) + Len(slot) /\ Len(picked') = Len(picked) + Len(slot)
    BY <1>1, <1>2, ReturnFacts
  <2>3. \A k \in DOMAIN picked : picked'[k] = picked[k]
    BY <1>1, <1>2, ReturnFacts
  <2>4. \A k \in DOMAIN slot : picked'[Len(picked) + k] = results[slot[k]]
    BY <1>1, <1>2, ReturnFacts
  <2> QED BY <1>4, <2>1, <2>2, <2>3, <2>4
<1>6. UNCHANGED <<waiting, addends, task, slot, doc, runs>>
  BY <1>1 DEF Return
<1>7. walk = NoWalk
  BY <1>1, NoWalkOver
<1>8. WalkSorts' /\ PinnerSorts'
  BY <1>1, <1>2, <1>5, <1>6 DEF IInv, Sorts, WalkSorts, PinnerSorts, Optimizing
<1>9. Control'
  BY <1>1, <1>5, <1>7 DEF Control
<1>10. DOMAIN picked' = DOMAIN picked \cup {Len(picked) + 1} /\ Len(picked) + 1 \notin DOMAIN picked
  BY <1>5
<1>11. RecordsInCallOrder'
  <2>1. SUFFICES ASSUME run.how = "record" PROVE RecordsInCallOrder'
    BY <1>5 DEF RecordsInCallOrder
  <2>2. AddedNow
    BY <1>1, <1>2, <1>4, SlotFacts DEF AddedNow
  <2>3. /\ Len(recorder.records) = Len(picked) + 1
        /\ \A k \in DOMAIN picked : recorder.records[k] = RecordOf(picked[k])
        /\ recorder.records[Len(picked) + 1] = RecordOf(results[slot[1]])
    BY <1>1, <1>2, <2>1, <2>2 DEF IInv, Recording, RecordsInCallOrder
  <2>4. \A k \in DOMAIN picked' : recorder'.records[k] = RecordOf(picked'[k])
    BY <1>1, <1>5, <1>10, <2>3
  <2>5. ~AddedNow' /\ Len(recorder'.records) = Len(picked') + 0
    BY <1>1, <1>5, <2>3 DEF AddedNow
  <2> QED BY <2>4, <2>5 DEF RecordsInCallOrder
<1>12. OncePinned'
  BY <1>1, <1>2, <1>5 DEF IInv, PinInv, OncePinned
<1>13. Ledger'
  <2>1. SUFFICES ASSUME run.how = "pin", ~pinner.finished
                 PROVE  (UsesCounted /\ TakenOnce /\ MismatchCaused)'
    BY <1>1, <1>5 DEF Ledger, Pinning
  <2>2. UsesCounted /\ TakenOnce
    BY <1>2, <2>1 DEF IInv, PinInv, Ledger, Pinning
  <2>3. Made(1) /\ 1 \in DOMAIN addends /\ results[slot[1]].key = addends[1]
        /\ Chosen(results[slot[1]]) /\ \A i \in DOMAIN addends : i = 1
    BY <1>1, <1>2, <1>4, SlotFacts
  <2>4. \A k \in DOMAIN picked' : Known(picked'[k].key) /\ Chosen(picked'[k])
    BY <1>2, <1>5, <1>10, <2>2, <2>3 DEF UsesCounted
  <2>5. \A p \in DOMAIN doc : pinner.uses[p] > 0 =>
          \E k \in DOMAIN picked' : AtPosition(picked'[k].key, p)
    BY <1>2, <1>5, <1>10, <2>2, <2>3 DEF UsesCounted
  <2>6. UsesCounted'
    <3>1. \A k \in DOMAIN picked' : Known(picked[k].key)' /\ Chosen(picked[k])'
      <4>1. \A k \in DOMAIN picked' : Known(picked[k].key)'
        BY <1>1, <1>6, <2>4 DEF Known, AtPosition, Positions
      <4>2. ASSUME NEW k \in DOMAIN picked' PROVE Chosen(picked[k])'
        <5>1. Chosen(picked'[k])
          BY <2>4
        <5> QED BY <1>5, <1>6, <5>1 DEF Chosen, Positions
      <4> QED BY <4>1, <4>2
    <3>2. \A p \in DOMAIN doc : pinner'.uses[p] > 0 =>
            \E k \in DOMAIN picked' : AtPosition(picked[k].key, p)'
      BY <1>1, <1>6, <2>5 DEF AtPosition, Positions
    <3> QED BY <1>5, <1>6, <3>1, <3>2 DEF UsesCounted
  <2>7. TakenOnce'
    <3>1. SUFFICES ASSUME pinner.duplicates = {}, pinner.missing = {}
                   PROVE  \A k, l \in DOMAIN picked' : picked'[k].key = picked'[l].key => k = l
      BY <1>1, <1>5 DEF TakenOnce
    <3>2. /\ \A k, l \in DOMAIN picked : picked[k].key = picked[l].key => k = l
          /\ \A k \in DOMAIN picked : picked[k].key # addends[1]
      BY <1>2, <2>2, <2>3, <3>1 DEF TakenOnce
    <3> QED BY <1>5, <1>10, <2>3, <3>2
  <2>8. MismatchCaused'
    BY <1>1, <1>5 DEF MismatchCaused
  <2> QED BY <2>6, <2>7, <2>8
<1>14. Promises'
  BY <1>1, <1>5 DEF Promises, KeptWithTheirResults, RecordListsResults, AxesFollowSummands,
                    PinReplaysRecord
<1> QED BY <1>3, <1>5, <1>8, <1>9, <1>11, <1>12, <1>13, <1>14, CallOver
        DEF IInv, Sorts, Recording, PinInv

(* The results of a sum are returned as they are.                          *)
LEMMA SumReturned ==
  ASSUME IInv, Succeeded, ~run.each, walk = NoWalk, run.how = "pin" => ~pinner.finished,
         NEW order, order \in Seq(Address), Range(order) = Range(slot),
         \A p, q \in DOMAIN order : order[p] = order[q] => p = q,
         \A p \in DOMAIN order : results[order[p]].nodes = Axes[results[order[p]].tree],
         Return(order, order), axes' = RekeyOnto(order), UNCHANGED <<results, walk, recorder>>,
         PinnerSorts',
         run.how = "pin" => pinner'.finished /\ Said(picked') = Said(doc)
  PROVE  IInv'
<1>1. /\ ~Optimizing' /\ Active' /\ run'.stage = "returned" /\ run'.how = run.how
      /\ run'.each = run.each /\ run'.reorder = run.reorder
      /\ TaskSorts' /\ RunSorts'
  BY ReturnFacts
<1>2. Optimizing /\ Active /\ run.stage = "call"
  BY SlotFacts DEF Optimizing
<1>3. kept = <<>> /\ picked = <<>> /\ waiting = <<>>
  BY <1>2 DEF IInv, Control
<1>4. kept' = order /\ UNCHANGED <<waiting, addends, task, slot, doc, runs>>
  BY <1>3, ReturnFacts DEF Return
<1>5. (DOMAIN results \subseteq Address)' /\ RecorderSorts' /\ Held' /\ RecordsIndexed'
  BY ReturnHolds
<1>6. WalkSorts' /\ Control'
  BY <1>1, <1>3, <1>4 DEF IInv, Sorts, WalkSorts, Control
<1>7. RecordsInCallOrder'
  BY <1>1 DEF RecordsInCallOrder
<1>8. Ledger' /\ OncePinned'
  <2>1. kept' # <<>>
    <3>1. PICK p \in DOMAIN order : order[p] = slot[1]
      <4>1. slot[1] \in Range(order)
        BY SlotFacts
      <4> QED BY <4>1 DEF Range
    <3> QED BY <1>4, <3>1
  <2>2. Said(doc') = Said(doc)
    BY <1>4
  <2> QED BY <1>1, <2>1, <2>2 DEF Ledger, Pinning, OncePinned
<1>9. Promises'
  <2>1. axes' = [a \in {SumKey} |-> FlattenSeq([p \in DOMAIN order |-> results[order[p]].nodes])]
    BY Rekeyed
  <2>2. [p \in DOMAIN order |-> results[order[p]].nodes] =
          [p \in DOMAIN order |-> Axes[results[order[p]].tree]]
    OBVIOUS
  <2>3. AxesFollowSummands'
    BY <1>4, <2>1, <2>2 DEF AxesFollowSummands
  <2> QED BY <1>1, <2>3 DEF Promises, KeptWithTheirResults, RecordListsResults, PinReplaysRecord
<1> QED BY <1>1, <1>5, <1>6, <1>7, <1>8, <1>9, CallOver DEF IInv, Sorts, Recording, PinInv

LEMMA ReturnInOrderKeeps ==
  ASSUME IInv, ReturnInOrder
  PROVE  IInv'
<1>1. /\ Succeeded /\ ~run.each /\ ~run.reorder /\ run.how # "pin"
      /\ axes' = RekeyOnto(slot) /\ Return(slot, slot)
      /\ UNCHANGED <<results, walk, recorder, pinner>>
  BY DEF ReturnInOrder
<1>2. /\ slot \in Seq(Address) /\ DOMAIN slot = DOMAIN addends
      /\ \A i \in DOMAIN slot :
           /\ \A j \in DOMAIN slot : slot[i] = slot[j] => i = j
           /\ Chosen(results[slot[i]])
  BY <1>1, SlotFacts
<1>3. \A i \in DOMAIN slot : results[slot[i]].nodes = Axes[results[slot[i]].tree]
  BY <1>1, <1>2 DEF Chosen
<1>4. PinnerSorts' /\ walk = NoWalk
  BY <1>1, NoWalkOver DEF IInv, Sorts, PinnerSorts, Return
<1> QED BY <1>1, <1>2, <1>3, <1>4, SumReturned

(* When the terms match the record each position has a result of its own.  *)
LEMMA InDocumentOrderFacts ==
  ASSUME IInv, Succeeded, ~run.each, run.how = "pin", ~pinner.finished, Matches(pinner, doc),
         NEW order, order = InDocumentOrder(pinner, doc, slot)
  PROVE  /\ order \in Seq(Address) /\ DOMAIN order = DOMAIN doc
         /\ Range(order) = Range(slot)
         /\ \A p, q \in DOMAIN order : order[p] = order[q] => p = q
         /\ \A p \in DOMAIN order :
              /\ SaidOf(results[order[p]]) = SaidOf(doc[p])
              /\ results[order[p]].nodes = Axes[results[order[p]].tree]
<1>1. Optimizing /\ Active /\ NoneThrew /\ run.stage = "call"
  BY SlotFacts DEF Optimizing
<1>2. Recorded(doc)
  BY <1>1 DEF IInv, Sorts, PinnerSorts
<1>3. picked = <<>>
  BY <1>1 DEF IInv, Control
<1>4. UsesCounted /\ TakenOnce
  BY <1>1 DEF IInv, PinInv, Ledger, Pinning
<1>5. \A i \in DOMAIN addends :
        /\ Made(i) /\ Known(addends[i])
        /\ results[slot[i]].key = addends[i] /\ Chosen(results[slot[i]])
        /\ pinner.keys[slot[i]] = addends[i]
        /\ slot[i] \in Address
        /\ \A j \in DOMAIN addends : slot[i] = slot[j] => i = j
        /\ \A j \in DOMAIN addends : addends[i] = addends[j] => i = j
  <2>1. pinner.duplicates = {} /\ pinner.missing = {}
    BY DEF Matches
  <2>2. \A i \in DOMAIN addends : Made(i)
    BY SlotFacts
  <2>3. \A i \in DOMAIN addends : pinner.keys[slot[i]] = addends[i]
    BY <1>1, SlotFacts DEF IInv, PinInv, Bound
  <2>4. \A i \in DOMAIN addends :
          Known(addends[i]) /\ \A j \in DOMAIN addends : addends[i] = addends[j] => i = j
    BY <1>1, <1>4, <2>1, <2>2 DEF UsesCounted, TakenOnce
  <2> QED BY <2>2, <2>3, <2>4, SlotFacts
(* what is found for a term *)
<1>6. ASSUME NEW i \in DOMAIN addends
      PROVE  \E p \in DOMAIN doc :
               /\ AtPosition(addends[i], p) /\ doc[p].key = addends[i]
               /\ SaidOf(results[slot[i]]) = SaidOf(doc[p])
               /\ results[slot[i]].nodes = Axes[results[slot[i]].tree]
  <2>1. Positions(doc, addends[i]) # {}
    BY <1>5 DEF Known, Matches
  <2>2. PICK p \in DOMAIN doc :
          /\ p = Min(Positions(doc, addends[i])) /\ doc[p].pinnable
          /\ results[slot[i]].tree = doc[p].tree /\ results[slot[i]].nodes = doc[p].nodes
    BY <1>5, <2>1 DEF Chosen
  <2>3. doc[p].key = addends[i]
    BY <1>2, <2>1, <2>2, PositionFacts
  <2>4. doc[p].nodes = Axes[doc[p].tree]
    BY <1>2, <2>2 DEF Recorded
  <2> QED BY <1>5, <2>1, <2>2, <2>3, <2>4 DEF AtPosition, SaidOf
<1>7. ASSUME NEW p \in DOMAIN doc
      PROVE  \E i \in DOMAIN addends : order[p] = slot[i] /\ AtPosition(addends[i], p)
  <2>1. pinner.uses[p] > 0
    BY DEF Matches
  <2>2. PICK i \in DOMAIN addends : AtPosition(addends[i], p)
    BY <1>1, <1>3, <1>4, <2>1 DEF UsesCounted
  <2> DEFINE Found(a) == Min(Positions(doc, pinner.keys[a])) = p
  <2>3. slot[i] \in Range(slot) /\ Found(slot[i])
    BY <1>5, <2>2, SlotFacts DEF AtPosition
  <2>4. order[p] = CHOOSE a \in Range(slot) : Found(a)
    BY DEF InDocumentOrder
  <2>5. order[p] \in Range(slot) /\ Found(order[p])
    BY <2>3, <2>4
  <2>6. PICK j \in DOMAIN addends : order[p] = slot[j]
    BY <2>5, SlotFacts
  <2>7. Min(Positions(doc, addends[j])) = p
    BY <1>5, <2>5, <2>6
  <2>8. Positions(doc, addends[j]) # {}
    BY <1>5 DEF Known, Matches
  <2> QED BY <2>6, <2>7, <2>8 DEF AtPosition
<1>8. DOMAIN order = DOMAIN doc
  BY DEF InDocumentOrder
<1>9. \A p \in DOMAIN order :
        /\ SaidOf(results[order[p]]) = SaidOf(doc[p])
        /\ results[order[p]].nodes = Axes[results[order[p]].tree]
        /\ order[p] \in Address
  BY <1>5, <1>6, <1>7, <1>8 DEF AtPosition
<1>10. \A p, q \in DOMAIN order : order[p] = order[q] => p = q
  BY <1>5, <1>7, <1>8 DEF AtPosition
<1>11. Range(order) = Range(slot)
  <2>1. ASSUME NEW p \in DOMAIN order PROVE order[p] \in Range(slot)
    BY <1>7, <1>8, SlotFacts
  <2>2. ASSUME NEW i \in DOMAIN addends PROVE slot[i] \in Range(order)
    <3>1. PICK p \in DOMAIN doc : AtPosition(addends[i], p) /\ doc[p].key = addends[i]
      BY <1>6
    <3>2. PICK j \in DOMAIN addends : order[p] = slot[j] /\ AtPosition(addends[j], p)
      BY <1>7
    <3>3. doc[p].key = addends[j]
      BY <1>6, <3>2 DEF AtPosition
    <3>4. i = j
      BY <1>5, <3>1, <3>3
    <3> QED BY <1>8, <3>2, <3>4 DEF Range
  <2>3. \A a \in Range(order) : a \in Range(slot)
    BY <2>1 DEF Range
  <2>4. \A a \in Range(slot) : a \in Range(order)
    BY <2>2, SlotFacts
  <2> QED BY <2>3, <2>4
<1>12. order \in Seq(Address)
  <2>1. Len(doc) \in Nat /\ DOMAIN order = 1 .. Len(doc)
    BY <1>2, <1>8 DEF Recorded
  <2>2. order = [p \in DOMAIN order |-> order[p]]
    BY DEF InDocumentOrder
  <2>3. order \in [1 .. Len(doc) -> Address]
    BY <1>9, <2>1, <2>2
  <2> QED BY <2>1, <2>3, SeqDef
<1> QED BY <1>8, <1>9, <1>10, <1>11, <1>12

(* When they do not, that is because they differ.                          *)
LEMMA MismatchFacts ==
  ASSUME IInv, Succeeded, ~run.each, run.how = "pin", ~pinner.finished, ~Matches(pinner, doc)
  PROVE  \/ HasDuplicates(KeysOf(doc)) \/ HasDuplicates(addends)
         \/ ToSet(addends) # ToSet(KeysOf(doc))
<1>1. Optimizing /\ Active /\ NoneThrew /\ run.stage = "call"
  BY SlotFacts DEF Optimizing
<1>2. Recorded(doc) /\ pinner.uses \in [DOMAIN doc -> Nat]
  BY <1>1 DEF IInv, Sorts, PinnerSorts
<1>3. UsesCounted /\ MismatchCaused
  BY <1>1 DEF IInv, PinInv, Ledger, Pinning
<1>4. /\ pinner.duplicates # {} => HasDuplicates(addends)
      /\ \A key \in pinner.missing :
           Positions(doc, key) = {} /\ \E i \in DOMAIN addends : addends[i] = key
  BY <1>1, <1>3 DEF MismatchCaused
<1>5. ASSUME NEW key \in pinner.missing PROVE ToSet(addends) # ToSet(KeysOf(doc))
  <2>1. key \in ToSet(addends)
    BY <1>4 DEF ToSet
  <2>2. key \notin ToSet(KeysOf(doc))
    BY <1>4 DEF ToSet, KeysOf, Positions
  <2> QED BY <2>1, <2>2
<1>6. ASSUME NEW p \in DOMAIN doc, ~(pinner.uses[p] > 0), ToSet(addends) = ToSet(KeysOf(doc))
      PROVE  HasDuplicates(KeysOf(doc))
  <2>1. doc[p].key \in ToSet(addends)
    BY <1>6 DEF ToSet, KeysOf
  <2>2. PICK i \in DOMAIN addends : addends[i] = doc[p].key
    BY <2>1 DEF ToSet
  <2>3. Positions(doc, addends[i]) # {}
    BY <2>2 DEF Positions
  <2> DEFINE q == Min(Positions(doc, addends[i]))
  <2>4. q \in DOMAIN doc /\ doc[q].key = addends[i]
    BY <1>2, <2>3, PositionFacts
  <2>5. pinner.uses[q] > 0
    <3>1. Known(addends[i])
      BY <1>1, <1>3, SlotFacts DEF UsesCounted
    <3> QED BY <2>3, <2>4, <3>1 DEF Known, AtPosition
  <2>6. q # p
    BY <1>6, <2>5
  <2> HIDE DEF q
  <2> QED BY <2>2, <2>4, <2>6 DEF HasDuplicates, KeysOf
<1> QED BY <1>4, <1>5, <1>6 DEF Matches

LEMMA ReturnPinnedKeeps ==
  ASSUME IInv, ReturnPinned
  PROVE  IInv'
<1>1. /\ Succeeded /\ ~run.each /\ run.how = "pin"
      /\ pinner' = [pinner EXCEPT !.finished = TRUE]
  BY DEF ReturnPinned
<1>2. Optimizing /\ Active /\ run.stage = "call" /\ walk = NoWalk
  BY <1>1, SlotFacts, NoWalkOver DEF Optimizing
<1>3. pinner' = [uses |-> pinner.uses, missing |-> pinner.missing,
                 duplicates |-> pinner.duplicates, keys |-> pinner.keys, finished |-> TRUE]
  BY <1>1 DEF IInv, Sorts, PinnerSorts
<1>4. ~pinner.finished
  BY <1>1, <1>2, SlotFacts DEF IInv, PinInv, OncePinned
<1>5. doc' = doc /\ run'.how = run.how
  BY DEF ReturnPinned, Return, Throw, IInv, Sorts, RunSorts
<1>6. PinnerSorts'
  BY <1>1, <1>2, <1>3, <1>5 DEF IInv, Sorts, PinnerSorts
<1>7. CASE ~Matches(pinner, doc) /\ Throw
  <2>1. addends' = addends /\ Ended
    BY <1>1, <1>7 DEF Throw, Succeeded
  <2>2. PinReplaysRecord'
    <3>1. \/ HasDuplicates(KeysOf(doc)) \/ HasDuplicates(addends)
          \/ ToSet(addends) # ToSet(KeysOf(doc))
      BY <1>1, <1>4, <1>7, MismatchFacts
    <3>2. run'.stage = "threw"
      BY <1>7 DEF Throw, IInv, Sorts, RunSorts
    <3> QED BY <1>5, <2>1, <3>1, <3>2 DEF PinReplaysRecord
  <2> QED BY <1>2, <1>6, <1>7, <2>1, <2>2, Thrown
<1>8. CASE /\ Matches(pinner, doc)
           /\ LET order == InDocumentOrder(pinner, doc, slot)
              IN axes' = RekeyOnto(order) /\ Return(order, order)
           /\ UNCHANGED <<results, walk, recorder>>
  <2> DEFINE order == InDocumentOrder(pinner, doc, slot)
  <2>1. axes' = RekeyOnto(order) /\ Return(order, order)
    BY <1>8
  <2> HIDE DEF order
  <2>2. /\ order \in Seq(Address) /\ DOMAIN order = DOMAIN doc
        /\ Range(order) = Range(slot)
        /\ \A p, q \in DOMAIN order : order[p] = order[q] => p = q
        /\ \A p \in DOMAIN order :
             /\ SaidOf(results[order[p]]) = SaidOf(doc[p])
             /\ results[order[p]].nodes = Axes[results[order[p]].tree]
    BY <1>1, <1>4, <1>8, InDocumentOrderFacts DEF order
  <2>3. picked = <<>>
    BY <1>1, <1>2, <1>4 DEF IInv, Control
  <2>4. picked' = [p \in DOMAIN order |-> results[order[p]]]
    BY <1>1, <2>1, <2>2, <2>3, ReturnFacts
  <2>5. Said(picked') = Said(doc)
    BY <2>2, <2>4 DEF Said
  <2> QED BY <1>1, <1>2, <1>3, <1>4, <1>6, <1>8, <2>1, <2>2, <2>5, SumReturned
<1> QED BY <1>7, <1>8 DEF ReturnPinned

(***************************************************************************)
(* The walk over the summands, and their clones.                           *)
(***************************************************************************)
LEMMA WalkOnly ==
  ASSUME IInv,
         UNCHANGED <<results, axes, run, waiting, addends, task, slot, recorder, pinner, doc,
                     kept, runs, picked>>
  PROVE  /\ (DOMAIN results \subseteq Address)' /\ TaskSorts' /\ RunSorts' /\ RecorderSorts'
         /\ PinnerSorts'
         /\ Held' /\ Recording' /\ PinInv' /\ Promises'
<1>1. /\ (DOMAIN results \subseteq Address)' /\ TaskSorts' /\ RunSorts' /\ RecorderSorts'
      /\ PinnerSorts'
  BY DEF IInv, Sorts, TaskSorts, RunSorts, RecorderSorts, PinnerSorts, Listing
<1>2. KeptApart' /\ SlotsApart' /\ AxesStored'
  BY DEF IInv, Held, KeptApart, SlotsApart, AxesStored, Active, Optimizing, Made
<1>3. SlotsChosen'
  <2>1. SUFFICES ASSUME Optimizing PROVE SlotsChosen'
    BY DEF SlotsChosen, Optimizing
  <2>2. \A j \in DOMAIN addends : Made(j) =>
          results[slot[j]].key = addends[j] /\ Chosen(results[slot[j]])
    BY <2>1 DEF IInv, Held, SlotsChosen
  <2>3. \A j \in DOMAIN addends : Made(j)' =>
          results[slot[j]].key = addends[j] /\ Chosen(results[slot[j]])'
    BY <2>2 DEF Made, Chosen, Positions
  <2> QED BY <2>3 DEF SlotsChosen
<1>4. RecordsIndexed'
  BY DEF IInv, Recording, RecordsIndexed, RecordKept, Active, Optimizing, Made
<1>5. RecordsInCallOrder'
  BY DEF IInv, Recording, RecordsInCallOrder, AddedNow, Active, Optimizing, Made
<1>6. Ledger'
  <2>1. Pinning' = Pinning
    BY DEF Pinning, Active
  <2>2. UsesCounted' = UsesCounted
    BY DEF UsesCounted, Known, Chosen, AtPosition, Positions, NoneThrew, Optimizing, Made
  <2>3. TakenOnce' = TakenOnce
    BY DEF TakenOnce, Optimizing, Made
  <2>4. MismatchCaused' = MismatchCaused
    BY DEF MismatchCaused, NoneThrew, Positions, Optimizing
  <2> QED BY <2>1, <2>2, <2>3, <2>4 DEF IInv, PinInv, Ledger
<1>7. Bound' /\ ThrewCaused' /\ OncePinned'
  BY DEF IInv, PinInv, Bound, ThrewCaused, OncePinned, Active, Optimizing, Made
<1>8. Promises'
  BY DEF IInv, Promises, KeptWithTheirResults, RecordListsResults, AxesFollowSummands,
         PinReplaysRecord
<1> QED BY <1>1, <1>2, <1>3, <1>4, <1>5, <1>6, <1>7, <1>8 DEF Held, Recording, PinInv

LEMMA ReorderingFacts ==
  ASSUME IInv, Reordering
  PROVE  /\ Succeeded /\ Optimizing /\ Active /\ ~run.each /\ run.reorder /\ run.how # "pin"
         /\ \A i \in DOMAIN task : task[i] = <<>>
         /\ kept = <<>> /\ picked = <<>> /\ waiting = <<>>
         /\ addends \in Seq(DOMAIN Kind) /\ Len(addends) \in Nat
         /\ DOMAIN addends = 1 .. Len(addends) /\ DOMAIN slot = DOMAIN addends
<1>1. Succeeded /\ ~run.each /\ run.reorder /\ run.how # "pin"
  BY DEF Reordering
<1>2. Optimizing /\ Active
  BY <1>1, SlotFacts
<1> QED BY <1>1, <1>2, SlotFacts DEF Succeeded, IInv, Control, Optimizing

LEMMA VisitHeadKeeps ==
  ASSUME IInv, VisitHead
  PROVE  IInv'
<1>1. /\ Reordering /\ walk.stack = {} /\ Unvisited # {}
      /\ walk' = [walk EXCEPT !.stack = {<<0, 0, Min(Unvisited)>>}]
      /\ UNCHANGED <<results, axes, run, waiting, addends, task, slot, recorder, pinner, doc,
                     kept, runs, picked>>
  BY DEF VisitHead
<1>2. /\ (DOMAIN results \subseteq Address)' /\ TaskSorts' /\ RunSorts' /\ RecorderSorts'
      /\ PinnerSorts'
      /\ Held' /\ Recording' /\ PinInv' /\ Promises'
  BY <1>1, WalkOnly
<1>3. /\ Optimizing /\ ~run.each /\ run.reorder /\ run.how # "pin"
      /\ \A i \in DOMAIN task : task[i] = <<>>
      /\ DOMAIN slot = DOMAIN addends /\ DOMAIN addends \subseteq Nat
  BY <1>1, ReorderingFacts
<1>4. Min(Unvisited) \in DOMAIN addends
  <2>1. Unvisited \in SUBSET DOMAIN addends
    BY <1>3 DEF Unvisited, Heads
  <2> QED BY <1>1, <1>3, <2>1, NatMin
<1>5. /\ walk' = [stack |-> {<<0, 0, Min(Unvisited)>>}, order |-> walk.order,
                  clones |-> walk.clones]
  BY <1>1 DEF IInv, Sorts, WalkSorts
<1>6. WalkSorts'
  BY <1>1, <1>5 DEF IInv, Sorts, WalkSorts
<1>7. Control'
  BY <1>1, <1>3 DEF IInv, Control, Optimizing, Active
<1>8. WalkInv'
  <2>1. /\ \A k, l \in DOMAIN walk.order : walk.order[k] = walk.order[l] => k = l
        /\ \A k \in DOMAIN walk.order : \A c \in Connections(walk.order[k]) :
             c[2] \in Range(walk.order)
        /\ Len(walk.clones) <= Len(walk.order)
        /\ \A k \in DOMAIN walk.clones :
             /\ walk.clones[k] \in DOMAIN results
             /\ results[walk.clones[k]] = results[slot[walk.order[k]]]
             /\ \A i \in DOMAIN addends : slot[i] # walk.clones[k]
             /\ \A l \in DOMAIN walk.clones : walk.clones[k] = walk.clones[l] => k = l
    BY <1>1, <1>3 DEF IInv, WalkInv
  <2>2. walk'.order = walk.order /\ walk'.clones = walk.clones
        /\ walk'.stack = {<<0, 0, Min(Unvisited)>>}
    BY <1>5
  <2>3. \A v \in walk'.stack : v[3] \in DOMAIN addends
    BY <1>4, <2>2
  <2>4. \A k \in DOMAIN walk'.order : \A c \in Connections(walk.order[k])' :
          c[2] \in Range(walk'.order)
    <3>1. \A k \in DOMAIN walk'.order : Connections(walk.order[k])' = Connections(walk.order[k])
      BY <1>1, <2>2 DEF Connections, Holders, IsFirst, TreeNodes
    <3> QED BY <2>1, <2>2, <3>1
  <2> QED BY <1>1, <2>1, <2>2, <2>3, <2>4 DEF WalkInv
<1> QED BY <1>2, <1>6, <1>7, <1>8 DEF IInv, Sorts

LEMMA VisitNextKeeps ==
  ASSUME IInv, VisitNext
  PROVE  IInv'
<1>1. /\ Reordering
      /\ UNCHANGED <<results, axes, run, waiting, addends, task, slot, recorder, pinner, doc,
                     kept, runs, picked>>
  BY DEF VisitNext
<1>2. PICK v \in walk.stack :
        walk' = [walk EXCEPT
          !.stack = (@ \ {v}) \cup {<<v[1] + 1, c[1], c[2]>> : c \in Connections(v[3])},
          !.order = IF v[3] \in Range(@) THEN @ ELSE Append(@, v[3])]
  BY DEF VisitNext
<1> DEFINE pushed == {<<v[1] + 1, c[1], c[2]>> : c \in Connections(v[3])}
<1>3. /\ (DOMAIN results \subseteq Address)' /\ TaskSorts' /\ RunSorts' /\ RecorderSorts'
      /\ PinnerSorts'
      /\ Held' /\ Recording' /\ PinInv' /\ Promises'
  BY <1>1, WalkOnly
<1>4. /\ Optimizing /\ ~run.each /\ run.reorder /\ run.how # "pin"
      /\ \A i \in DOMAIN task : task[i] = <<>>
      /\ DOMAIN slot = DOMAIN addends /\ DOMAIN addends \subseteq Nat
  BY <1>1, ReorderingFacts
<1>5. /\ \A k, l \in DOMAIN walk.order : walk.order[k] = walk.order[l] => k = l
      /\ \A w \in walk.stack : w[3] \in DOMAIN addends
      /\ \A k \in DOMAIN walk.order : \A c \in Connections(walk.order[k]) :
           \/ c[2] \in Range(walk.order)
           \/ \E w \in walk.stack : w[3] = c[2]
      /\ Len(walk.clones) <= Len(walk.order)
      /\ \A k \in DOMAIN walk.clones :
           /\ walk.clones[k] \in DOMAIN results
           /\ results[walk.clones[k]] = results[slot[walk.order[k]]]
           /\ \A i \in DOMAIN addends : slot[i] # walk.clones[k]
           /\ \A l \in DOMAIN walk.clones : walk.clones[k] = walk.clones[l] => k = l
  BY <1>4 DEF IInv, WalkInv
<1>6. walk' = [stack |-> (walk.stack \ {v}) \cup pushed,
               order |-> IF v[3] \in Range(walk.order) THEN walk.order
                         ELSE Append(walk.order, v[3]),
               clones |-> walk.clones]
  BY <1>2 DEF IInv, Sorts, WalkSorts
<1>7. /\ walk'.stack = (walk.stack \ {v}) \cup pushed /\ walk'.clones = walk.clones
      /\ v[3] \in Range(walk.order) => walk'.order = walk.order
      /\ v[3] \notin Range(walk.order) => walk'.order = Append(walk.order, v[3])
  BY <1>6
<1>8. /\ v[3] \in DOMAIN addends
      /\ walk.order \in Seq(DOMAIN addends) /\ walk.clones \in Seq(Address)
  BY <1>5 DEF IInv, Sorts, WalkSorts
<1>9. Listing(walk.order) /\ Listing(walk.clones)
  BY <1>8, SeqOfRange DEF Listing
<1>10. /\ walk'.order \in Seq(DOMAIN addends)
       /\ Len(walk.order) \in Nat /\ DOMAIN walk.order = 1 .. Len(walk.order)
       /\ Len(walk.clones) \in Nat /\ DOMAIN walk.clones = 1 .. Len(walk.clones)
       /\ Len(walk'.order) >= Len(walk.order)
       /\ \A k \in DOMAIN walk.order : k \in DOMAIN walk'.order /\ walk'.order[k] = walk.order[k]
       /\ \A k \in DOMAIN walk'.order :
            \/ k \in DOMAIN walk.order
            \/ k = Len(walk.order) + 1 /\ walk'.order[k] = v[3] /\ v[3] \notin Range(walk.order)
       /\ v[3] \in Range(walk'.order)
  <2>1. /\ Len(walk.order) \in Nat /\ DOMAIN walk.order = 1 .. Len(walk.order)
        /\ Len(walk.clones) \in Nat /\ DOMAIN walk.clones = 1 .. Len(walk.clones)
    BY <1>8, LenProperties
  <2>2. CASE v[3] \in Range(walk.order)
    BY <1>7, <1>8, <2>1, <2>2
  <2>3. CASE v[3] \notin Range(walk.order)
    <3> DEFINE new == Append(walk.order, v[3])
    <3>1. walk'.order = new
      BY <1>7, <2>3
    <3>2. new \in Seq(DOMAIN addends)
      BY <1>8, AppendProperties
    <3>3. /\ Len(new) = Len(walk.order) + 1
          /\ DOMAIN new = DOMAIN walk.order \cup {Len(walk.order) + 1}
          /\ \A k \in DOMAIN walk.order : new[k] = walk.order[k]
          /\ new[Len(walk.order) + 1] = v[3]
      BY <1>9, Appended
    <3> HIDE DEF new
    <3>4. v[3] \in Range(walk'.order)
      BY <3>1, <3>3 DEF Range
    <3> QED BY <2>1, <2>3, <3>1, <3>2, <3>3, <3>4
  <2> QED BY <2>2, <2>3
<1>11. WalkSorts'
  BY <1>1, <1>6, <1>7, <1>8, <1>10 DEF WalkSorts
<1>12. Control'
  BY <1>1, <1>4 DEF IInv, Control, Optimizing, Active
<1>13. \A c \in Connections(v[3]) : \E w \in pushed : w[3] = c[2]
  <2>1. ASSUME NEW c \in Connections(v[3]) PROVE \E w \in pushed : w[3] = c[2]
    <3>1. <<v[1] + 1, c[1], c[2]>> \in pushed /\ <<v[1] + 1, c[1], c[2]>>[3] = c[2]
      OBVIOUS
    <3> QED BY <3>1
  <2> QED BY <2>1
<1>14. \A w \in pushed : w[3] \in DOMAIN addends
  <2>1. ASSUME NEW c \in Connections(v[3]) PROVE c[2] \in DOMAIN addends
    <3>1. PICK h \in TreeNodes(v[3]) : c \in {<<h, q>> : q \in Holders(h) \ {v[3]}}
      BY DEF Connections
    <3>2. PICK q \in Holders(h) : c = <<h, q>>
      BY <3>1
    <3> QED BY <1>4, <3>2 DEF Holders
  <2> QED BY <2>1
<1> HIDE DEF pushed
<1>15. WalkInv'
  <2>1. \A k, l \in DOMAIN walk'.order : walk'.order[k] = walk'.order[l] => k = l
    <3>1. \A k \in DOMAIN walk.order : walk.order[k] \in Range(walk.order)
      BY DEF Range
    <3> QED BY <1>5, <1>10, <3>1
  <2>2. \A w \in walk'.stack : w[3] \in DOMAIN addends
    BY <1>5, <1>7, <1>14
  <2>3. ASSUME NEW k \in DOMAIN walk'.order, NEW c \in Connections(walk'.order[k])
        PROVE  \/ c[2] \in Range(walk'.order)
               \/ \E w \in walk'.stack : w[3] = c[2]
    <3>1. CASE k \in DOMAIN walk.order
      <4>1. \/ c[2] \in Range(walk.order)
            \/ \E w \in walk.stack : w[3] = c[2]
        BY <1>5, <1>10, <2>3, <3>1
      <4>2. \A x \in Range(walk.order) : x \in Range(walk'.order)
        BY <1>10 DEF Range
      <4>3. ASSUME NEW w \in walk.stack, w[3] = c[2], w # v
            PROVE  \E u \in walk'.stack : u[3] = c[2]
        BY <1>7, <4>3
      <4> QED BY <1>10, <4>1, <4>2, <4>3
    <3>2. CASE k \notin DOMAIN walk.order
      <4>1. c \in Connections(v[3])
        BY <1>10, <2>3, <3>2
      <4> QED BY <1>7, <1>13, <4>1
    <3> QED BY <3>1, <3>2
  <2>4. \A k \in DOMAIN walk'.order : \A c \in Connections(walk.order[k])' :
           \/ c[2] \in Range(walk'.order)
           \/ \E w \in walk'.stack : w[3] = c[2]
    <3>1. \A k \in DOMAIN walk'.order : Connections(walk.order[k])' = Connections(walk'.order[k])
      BY <1>1 DEF Connections, Holders, IsFirst, TreeNodes
    <3> QED BY <2>3, <3>1
  <2>5. \A k \in DOMAIN walk.clones : walk'.order[k] = walk.order[k]
    BY <1>5, <1>10
  <2>6. Len(walk'.clones) <= Len(walk'.order)
    <3>1. Len(walk'.order) \in Nat
      BY <1>10, LenProperties
    <3> QED BY <1>5, <1>7, <1>10, <3>1
  <2>7. \A k \in DOMAIN walk'.clones :
           /\ walk'.clones[k] \in DOMAIN results'
           /\ results'[walk'.clones[k]] = results'[slot'[walk'.order[k]]]
           /\ \A i \in DOMAIN addends' : slot'[i] # walk'.clones[k]
           /\ \A l \in DOMAIN walk'.clones : walk'.clones[k] = walk'.clones[l] => k = l
    BY <1>1, <1>5, <1>7, <2>5
  <2>8. addends' = addends
    BY <1>1
  <2> QED BY <2>1, <2>2, <2>4, <2>6, <2>7, <2>8 DEF WalkInv
<1> QED BY <1>3, <1>11, <1>12, <1>15 DEF IInv, Sorts

(* Before the originals go a summand is cloned.                            *)
LEMMA CloneNextKeeps ==
  ASSUME IInv, CloneNext
  PROVE  IInv'
<1> DEFINE k == Len(walk.clones) + 1
           a == slot[walk.order[k]]
<1>1. /\ Reordering /\ Len(walk.clones) < Len(walk.order)
      /\ results' = Put(results, Fresh, results[a])
      /\ walk' = [walk EXCEPT !.clones = Append(@, Fresh)]
      /\ UNCHANGED <<axes, run, waiting, addends, task, slot, recorder, pinner, doc, kept,
                     runs, picked>>
      /\ FreeAddresses # {}
  BY DEF CloneNext, Walked
<1>2. /\ Succeeded /\ Optimizing /\ Active /\ ~run.each /\ run.reorder /\ run.how # "pin"
      /\ \A i \in DOMAIN task : task[i] = <<>>
      /\ kept = <<>> /\ picked = <<>>
      /\ DOMAIN slot = DOMAIN addends
      /\ \A i \in DOMAIN addends :
           /\ Made(i) /\ task[i] \notin ToStore /\ task[i] \notin ToAdd
           /\ slot[i] \in DOMAIN results
           /\ results[slot[i]].key = addends[i] /\ Chosen(results[slot[i]])
           /\ \A j \in DOMAIN addends : slot[i] = slot[j] => i = j
  <2>1. /\ Succeeded /\ Optimizing /\ Active /\ ~run.each /\ run.reorder /\ run.how # "pin"
        /\ \A i \in DOMAIN task : task[i] = <<>>
        /\ kept = <<>> /\ picked = <<>> /\ DOMAIN slot = DOMAIN addends
    BY <1>1, ReorderingFacts
  <2> QED BY <2>1, SlotFacts
<1>3. /\ walk.order \in Seq(DOMAIN addends) /\ walk.clones \in Seq(Address)
      /\ walk = [stack |-> walk.stack, order |-> walk.order, clones |-> walk.clones]
  BY DEF IInv, Sorts, WalkSorts
<1>4. /\ Len(walk.order) \in Nat /\ DOMAIN walk.order = 1 .. Len(walk.order)
      /\ Len(walk.clones) \in Nat /\ DOMAIN walk.clones = 1 .. Len(walk.clones)
      /\ \A l \in DOMAIN walk.order : walk.order[l] \in DOMAIN addends
  BY <1>3, LenProperties, ElementOfSeq
<1>5. k \in DOMAIN walk.order /\ a \in DOMAIN results
  BY <1>1, <1>2, <1>4
<1>6. Fresh \in Address /\ Fresh \notin DOMAIN results
  BY <1>1, FreshFree
<1>7. /\ DOMAIN results' = DOMAIN results \cup {Fresh} /\ results'[Fresh] = results[a]
      /\ \A b \in DOMAIN results : b # Fresh /\ results'[b] = results[b]
  BY <1>1, <1>6 DEF Put
<1>8. Listing(walk.clones)
  BY <1>3, SeqOfRange DEF Listing
<1>9. walk' = [stack |-> walk.stack, order |-> walk.order, clones |-> Append(walk.clones, Fresh)]
  BY <1>1, <1>3
<1> HIDE DEF a
<1>10. /\ walk'.stack = walk.stack /\ walk'.order = walk.order
       /\ walk'.clones \in Seq(Address)
       /\ Len(walk'.clones) = k /\ DOMAIN walk'.clones = DOMAIN walk.clones \cup {k}
       /\ k \notin DOMAIN walk.clones
       /\ \A l \in DOMAIN walk.clones : walk'.clones[l] = walk.clones[l]
       /\ walk'.clones[k] = Fresh
  <2>1. walk'.stack = walk.stack /\ walk'.order = walk.order
        /\ walk'.clones = Append(walk.clones, Fresh)
    BY <1>9
  <2>2. walk'.clones \in Seq(Address)
    BY <1>3, <1>6, <2>1, AppendProperties
  <2>3. /\ Len(walk'.clones) = k /\ DOMAIN walk'.clones = DOMAIN walk.clones \cup {k}
        /\ \A l \in DOMAIN walk.clones : walk'.clones[l] = walk.clones[l]
        /\ walk'.clones[k] = Fresh
    BY <1>8, <2>1, Appended
  <2> QED BY <1>4, <2>1, <2>2, <2>3
<1>11. a = slot[walk.order[k]]
  BY DEF a
<1>12. k <= Len(walk.order) /\ k \in Nat
  BY <1>1, <1>4
<1> HIDE DEF k
<1>13. WalkSorts' /\ TaskSorts' /\ RunSorts' /\ RecorderSorts' /\ PinnerSorts'
       /\ (DOMAIN results \subseteq Address)'
  <2>1. WalkSorts'
    BY <1>1, <1>3, <1>9, <1>10 DEF WalkSorts
  <2> QED BY <1>1, <1>6, <1>7, <2>1
          DEF IInv, Sorts, TaskSorts, RunSorts, RecorderSorts, PinnerSorts, Listing
<1>14. Control'
  BY <1>1, <1>2 DEF IInv, Control, Optimizing, Active
<1>15. \A i : Made(i)' = Made(i)
  BY <1>1 DEF Made
<1>16. Optimizing' /\ Active'
  BY <1>1, <1>2 DEF Optimizing, Active
<1>17. KeptApart'
  BY <1>1, <1>2 DEF KeptApart
<1>18. SlotsApart'
  BY <1>1, <1>2, <1>7 DEF SlotsApart
<1>19. SlotsChosen'
  <2>1. \A j \in DOMAIN addends :
          results'[slot[j]].key = addends[j] /\ Chosen(results'[slot[j]])
    BY <1>2, <1>7
  <2>2. \A j \in DOMAIN addends :
          results'[slot'[j]].key = addends[j] /\ Chosen(results[slot[j]])'
    BY <1>1, <2>1 DEF Chosen, Positions
  <2> QED BY <1>1, <2>2 DEF SlotsChosen
<1>20. AxesStored'
  <2>1. /\ \A b \in DOMAIN axes : \E i \in DOMAIN addends : slot[i] = b
        /\ \A i \in DOMAIN addends :
             /\ slot[i] \in DOMAIN axes => axes[slot[i]] = results[slot[i]].nodes
             /\ slot[i] \in DOMAIN axes \/ results[slot[i]].nodes = <<>>
    BY <1>2 DEF IInv, Held, AxesStored
  <2>2. \A i \in DOMAIN addends : results'[slot[i]] = results[slot[i]]
    BY <1>2, <1>7
  <2> QED BY <1>1, <1>2, <1>15, <2>1, <2>2 DEF AxesStored
<1>21. Recording'
  <2>1. RecordsIndexed'
    <3>1. SUFFICES ASSUME run.how = "record" PROVE RecordsIndexed'
      BY <1>1 DEF RecordsIndexed
    <3>2. /\ \A b \in DOMAIN recorder.index : recorder.index[b] \in DOMAIN recorder.records
          /\ \A n \in DOMAIN recorder.records : GoodRecord(recorder.records[n])
          /\ \A i \in DOMAIN addends : RecordKept(slot[i])
      BY <1>2, <3>1 DEF IInv, Recording, RecordsIndexed
    <3>3. \A i \in DOMAIN addends : results'[slot[i]] = results[slot[i]]
      BY <1>2, <1>7
    <3>4. \A i \in DOMAIN addends : RecordKept(slot[i])'
      BY <1>1, <3>2, <3>3 DEF RecordKept
    <3> QED BY <1>1, <1>2, <3>2, <3>4 DEF RecordsIndexed
  <2>2. RecordsInCallOrder'
    BY <1>1, <1>2 DEF RecordsInCallOrder
  <2> QED BY <2>1, <2>2 DEF Recording
<1>22. PinInv'
  BY <1>1, <1>2 DEF PinInv, Ledger, Pinning, Bound, ThrewCaused, OncePinned
<1>23. Promises'
  BY <1>1, <1>2 DEF Promises, KeptWithTheirResults, RecordListsResults, AxesFollowSummands,
                    PinReplaysRecord, Optimizing
<1>24. WalkInv'
  <2>1. /\ \A l, m \in DOMAIN walk.order : walk.order[l] = walk.order[m] => l = m
        /\ \A v \in walk.stack : v[3] \in DOMAIN addends
        /\ \A l \in DOMAIN walk.order : \A c \in Connections(walk.order[l]) :
             \/ c[2] \in Range(walk.order)
             \/ \E v \in walk.stack : v[3] = c[2]
        /\ \A l \in DOMAIN walk.clones :
             /\ walk.clones[l] \in DOMAIN results
             /\ results[walk.clones[l]] = results[slot[walk.order[l]]]
             /\ \A i \in DOMAIN addends : slot[i] # walk.clones[l]
             /\ \A m \in DOMAIN walk.clones : walk.clones[l] = walk.clones[m] => l = m
    BY <1>2 DEF IInv, WalkInv
  <2>2. \A p \in DOMAIN slot : TreeNodes(p)' = TreeNodes(p)
    BY <1>1, <1>2, <1>7 DEF TreeNodes
  <2>3. \A h : Holders(h)' = Holders(h)
    BY <1>1, <2>2 DEF Holders
  <2>4. \A p, h : IsFirst(p, h)' = IsFirst(p, h)
    BY <2>3 DEF IsFirst
  <2>5. \A p \in DOMAIN slot : Connections(p)' = Connections(p)
    BY <2>2, <2>3, <2>4 DEF Connections
  <2>6. \A l \in DOMAIN walk'.order : Connections(walk.order[l])' = Connections(walk.order[l])
    <3>1. \A l \in DOMAIN walk'.order : walk'.order[l] \in DOMAIN slot
      BY <1>2, <1>4, <1>10
    <3> QED BY <1>10, <2>5, <3>1 DEF Connections, Holders, IsFirst, TreeNodes
  <2>7. ASSUME NEW l \in DOMAIN walk'.clones
        PROVE  /\ walk'.clones[l] \in DOMAIN results'
               /\ results'[walk'.clones[l]] = results'[slot'[walk'.order[l]]]
               /\ \A i \in DOMAIN addends' : slot'[i] # walk'.clones[l]
               /\ \A m \in DOMAIN walk'.clones : walk'.clones[l] = walk'.clones[m] => l = m
    <3>1. CASE l = k
      <4>1. results'[a] = results[a]
        BY <1>5, <1>7
      <4>2. \A m \in DOMAIN walk.clones : walk.clones[m] # Fresh
        BY <1>6, <2>1
      <4> QED BY <1>1, <1>2, <1>6, <1>7, <1>10, <1>11, <3>1, <4>1, <4>2
    <3>2. CASE l # k
      <4>1. l \in DOMAIN walk.clones /\ walk'.clones[l] = walk.clones[l]
        BY <1>10, <3>2
      <4>2. l \in DOMAIN walk.order
        BY <1>1, <1>4, <4>1
      <4>3. slot[walk.order[l]] \in DOMAIN results
        BY <1>2, <1>4, <4>2
      <4>4. walk.clones[l] # Fresh
        BY <1>6, <2>1, <4>1
      <4> QED BY <1>1, <1>7, <1>10, <2>1, <4>1, <4>3, <4>4
    <3> QED BY <3>1, <3>2
  <2>8. \A l \in DOMAIN walk'.order : \A c \in Connections(walk.order[l])' :
           \/ c[2] \in Range(walk'.order)
           \/ \E v \in walk'.stack : v[3] = c[2]
    BY <1>10, <2>1, <2>6
  <2> QED BY <1>1, <1>10, <1>12, <2>1, <2>7, <2>8 DEF WalkInv
<1> QED BY <1>13, <1>14, <1>17, <1>18, <1>19, <1>20, <1>21, <1>22, <1>23, <1>24
        DEF IInv, Sorts, Held

(* The walk reaches every summand: from the first holder of one of its     *)
(* nodes, if it is not that itself.                                        *)
LEMMA WalkedFacts ==
  ASSUME IInv, Walked
  PROVE  /\ \A p \in DOMAIN addends : p \in Range(walk.order)
         /\ \A k, l \in DOMAIN walk.order : walk.order[k] = walk.order[l] => k = l
<1>1. Reordering /\ walk.stack = {} /\ Unvisited = {}
  BY DEF Walked
<1>2. /\ Succeeded /\ Optimizing /\ run.how # "pin"
      /\ DOMAIN slot = DOMAIN addends /\ DOMAIN addends \subseteq Nat
  BY <1>1, ReorderingFacts
<1>3. /\ \A k, l \in DOMAIN walk.order : walk.order[k] = walk.order[l] => k = l
      /\ \A k \in DOMAIN walk.order : \A c \in Connections(walk.order[k]) :
           c[2] \in Range(walk.order)
  BY <1>1, <1>2 DEF IInv, WalkInv
<1>4. ASSUME NEW p \in DOMAIN addends PROVE p \in Range(walk.order)
  <2>1. results[slot[p]].key \in DOMAIN Kind
        /\ results[slot[p]].tree \in Trees[results[slot[p]].key]
    BY <1>2, SlotFacts DEF Chosen
  <2>2. PICK h : h \in TreeNodes(p)
    BY <2>1, TermsAssumption DEF TreeNodes
  <2>3. Holders(h) \in SUBSET Nat /\ p \in Holders(h)
    BY <1>2, <2>2 DEF Holders
  <2> DEFINE q == Min(Holders(h))
  <2>4. q \in Holders(h) /\ \A y \in Holders(h) : q <= y
    BY <2>3, NatMin
  <2> HIDE DEF q
  <2>5. h \in TreeNodes(q) /\ IsFirst(q, h) /\ q \in DOMAIN slot
    BY <2>4 DEF Holders, IsFirst
  <2>6. q \in Range(walk.order)
    BY <1>1, <2>5 DEF Heads, Unvisited
  <2>7. PICK k \in DOMAIN walk.order : walk.order[k] = q
    BY <2>6 DEF Range
  <2>8. CASE p # q
    <3>1. <<h, p>> \in Connections(q)
      BY <2>3, <2>5, <2>8 DEF Connections
    <3>2. <<h, p>>[2] \in Range(walk.order)
      BY <1>3, <2>7, <3>1
    <3> QED BY <3>2
  <2> QED BY <2>6, <2>8
<1> QED BY <1>3, <1>4

(* The clones take the place of the summands.                              *)
Moves(order, clones) ==
  [a \in Range(order) |-> clones[CHOOSE p \in DOMAIN order : order[p] = a]]
LEMMA RelocateFacts ==
  ASSUME NEW order, NEW clones, DOMAIN clones = DOMAIN order,
         \A p, q \in DOMAIN order : order[p] = order[q] => p = q,
         \A p, q \in DOMAIN order : clones[p] = clones[q] => p = q,
         NEW session, Range(order) \subseteq DOMAIN session.index,
         session = [records |-> session.records, index |-> session.index],
         NEW moved, moved = Relocate(session, Moves(order, clones))
  PROVE  /\ moved = [records |-> session.records, index |-> moved.index]
         /\ \A p \in DOMAIN order :
              /\ clones[p] \in DOMAIN moved.index
              /\ moved.index[clones[p]] = session.index[order[p]]
         /\ \A b \in DOMAIN moved.index :
              \E a \in DOMAIN session.index : moved.index[b] = session.index[a]
<1> DEFINE moves == Moves(order, clones)
           from == DOMAIN moves \cap DOMAIN session.index
           stay == DOMAIN session.index \ from
           targets == {moves[a] : a \in from}
           index == [b \in targets \cup stay |->
                       IF b \in targets THEN session.index[CHOOSE a \in from : moves[a] = b]
                       ELSE session.index[b]]
<1>1. moved = [session EXCEPT !.index = index]
  BY DEF Relocate
<1>2. \A p \in DOMAIN order : order[p] \in Range(order)
  BY DEF Range
<1>3. from = Range(order)
  BY DEF Moves
<1>4. ASSUME NEW p \in DOMAIN order PROVE moves[order[p]] = clones[p]
  <2>1. (CHOOSE q \in DOMAIN order : order[q] = order[p]) = p
    OBVIOUS
  <2> QED BY <1>2, <2>1 DEF Moves
<1> HIDE DEF moves
<1>5. \A a \in Range(order) : \E p \in DOMAIN order : order[p] = a
  BY DEF Range
<1>6. ASSUME NEW p \in DOMAIN order
      PROVE  clones[p] \in targets /\ (CHOOSE a \in from : moves[a] = clones[p]) = order[p]
  <2>1. order[p] \in from /\ moves[order[p]] = clones[p]
    BY <1>2, <1>3, <1>4
  <2>2. \A a \in from : moves[a] = clones[p] => a = order[p]
    BY <1>3, <1>4, <1>5
  <2> QED BY <2>1, <2>2
<1>7. \A p \in DOMAIN order : clones[p] \in DOMAIN index
                              /\ index[clones[p]] = session.index[order[p]]
  BY <1>6
<1>8. ASSUME NEW b \in DOMAIN index
      PROVE  \E a \in DOMAIN session.index : index[b] = session.index[a]
  <2>1. CASE b \in targets
    <3>1. PICK a \in from : moves[a] = b
      BY <2>1
    <3>2. PICK p \in DOMAIN order : order[p] = a
      BY <1>3, <1>5, <3>1
    <3>3. b = clones[p]
      BY <1>4, <3>1, <3>2
    <3> QED BY <1>2, <1>7, <3>3
  <2>2. CASE b \notin targets
    BY <2>2
  <2> QED BY <2>1, <2>2
<1> HIDE DEF index
<1>9. moved = [records |-> session.records, index |-> index] /\ moved.index = index
  BY <1>1
<1> QED BY <1>7, <1>8, <1>9

LEMMA ReturnReorderedKeeps ==
  ASSUME IInv, ReturnReordered
  PROVE  IInv'
<1> DEFINE old == [p \in DOMAIN walk.order |-> slot[walk.order[p]]]
<1>1. /\ Walked /\ Len(walk.clones) = Len(walk.order)
      /\ results' = Discarded(Range(old))
      /\ run.how = "record" => recorder' = Relocate(recorder, Moves(old, walk.clones))
      /\ run.how # "record" => recorder' = recorder
      /\ axes' = RekeyOnto(old) /\ Return(walk.clones, old)
      /\ walk' = NoWalk /\ pinner' = pinner
  BY DEF ReturnReordered, Moves
<1>2. /\ Succeeded /\ Optimizing /\ Active /\ ~run.each /\ run.reorder /\ run.how # "pin"
      /\ kept = <<>> /\ picked = <<>> /\ waiting = <<>>
      /\ DOMAIN slot = DOMAIN addends
  BY <1>1, ReorderingFacts DEF Walked
<1>3. \A i \in DOMAIN addends :
        /\ Made(i) /\ task[i] \notin ToAdd
        /\ slot[i] \in DOMAIN results /\ Chosen(results[slot[i]])
        /\ \A j \in DOMAIN addends : slot[i] = slot[j] => i = j
  BY <1>2, SlotFacts
<1>4. /\ walk.order \in Seq(DOMAIN addends) /\ walk.clones \in Seq(Address)
      /\ Len(walk.order) \in Nat /\ DOMAIN walk.order = 1 .. Len(walk.order)
      /\ DOMAIN walk.clones = DOMAIN walk.order
      /\ \A l \in DOMAIN walk.order : walk.order[l] \in DOMAIN addends
  BY <1>1, LenProperties, ElementOfSeq DEF IInv, Sorts, WalkSorts
<1>5. /\ \A p \in DOMAIN addends : p \in Range(walk.order)
      /\ \A k, l \in DOMAIN walk.order : walk.order[k] = walk.order[l] => k = l
  BY <1>1, WalkedFacts
<1>6. \A k \in DOMAIN walk.order :
        /\ walk.clones[k] \in DOMAIN results
        /\ results[walk.clones[k]] = results[slot[walk.order[k]]]
        /\ \A i \in DOMAIN addends : slot[i] # walk.clones[k]
        /\ \A l \in DOMAIN walk.order : walk.clones[k] = walk.clones[l] => k = l
  BY <1>2, <1>4 DEF IInv, WalkInv
<1>7. /\ DOMAIN old = DOMAIN walk.order
      /\ \A k \in DOMAIN old : old[k] = slot[walk.order[k]] /\ walk.order[k] \in DOMAIN addends
      /\ \A k, l \in DOMAIN old : old[k] = old[l] => k = l
  BY <1>3, <1>4, <1>5
<1>8. Range(old) = Range(slot)
  <2>1. ASSUME NEW k \in DOMAIN old PROVE old[k] \in Range(slot)
    BY <1>2, <1>7 DEF Range
  <2>2. ASSUME NEW i \in DOMAIN addends PROVE slot[i] \in Range(old)
    <3>1. PICK k \in DOMAIN walk.order : walk.order[k] = i
      BY <1>5 DEF Range
    <3>2. old[k] = slot[i] /\ k \in DOMAIN old
      BY <1>7, <3>1
    <3> QED BY <3>2 DEF Range
  <2>3. \A a \in Range(old) : a \in Range(slot)
    BY <2>1 DEF Range
  <2>4. \A a \in Range(slot) : a \in Range(old)
    BY <1>2, <2>2 DEF Range
  <2> QED BY <2>3, <2>4
<1> HIDE DEF old
<1>9. /\ ~Optimizing' /\ Active' /\ run'.stage = "returned" /\ run'.how = run.how
      /\ run'.each = run.each /\ run'.reorder = run.reorder
      /\ TaskSorts' /\ RunSorts'
      /\ kept' = walk.clones
  BY <1>1, <1>2, <1>4, <1>7, ReturnFacts
<1>10. UNCHANGED <<waiting, addends, task, slot, doc, runs>>
  BY <1>1 DEF Return
<1>11. ASSUME NEW k \in DOMAIN kept'
       PROVE  /\ k \in DOMAIN old /\ kept'[k] = walk.clones[k] /\ kept'[k] \in DOMAIN results'
              /\ results'[kept'[k]] = results[old[k]] /\ Chosen(results[old[k]])
  <2>1. k \in DOMAIN old /\ kept'[k] = walk.clones[k] /\ k \in DOMAIN walk.order
    BY <1>4, <1>7, <1>9
  <2>2. walk.clones[k] \notin Range(old)
    BY <1>2, <1>6, <1>8, <2>1, SlotFacts
  <2>3. walk.clones[k] \in DOMAIN results' /\ results'[walk.clones[k]] = results[walk.clones[k]]
    BY <1>1, <1>6, <2>1, <2>2 DEF Discarded
  <2> QED BY <1>3, <1>6, <1>7, <2>1, <2>3
<1>12. KeptApart'
  BY <1>4, <1>6, <1>9, <1>11 DEF KeptApart
<1>13. (DOMAIN results \subseteq Address)'
  BY <1>1 DEF IInv, Sorts, Discarded
<1>14. RecorderSorts' /\ RecordsIndexed'
  <2>1. CASE run.how # "record"
    <3>1. recorder' = recorder
      BY <1>1, <2>1
    <3> QED BY <1>9, <2>1, <3>1 DEF IInv, Sorts, RecorderSorts, RecordsIndexed, Listing
  <2>2. CASE run.how = "record"
    <3>1. /\ \A a \in DOMAIN recorder.index : recorder.index[a] \in DOMAIN recorder.records
          /\ \A n \in DOMAIN recorder.records : GoodRecord(recorder.records[n])
          /\ \A i \in DOMAIN addends : RecordKept(slot[i])
      BY <1>2, <1>3, <2>2 DEF IInv, Recording, RecordsIndexed
    <3>2. \A k \in DOMAIN old : RecordKept(old[k])
      BY <1>7, <3>1
    <3>3. Range(old) \subseteq DOMAIN recorder.index
      BY <3>2 DEF Range, RecordKept
    <3>4. /\ recorder = [records |-> recorder.records, index |-> recorder.index]
          /\ Listing(recorder.records)
      BY DEF IInv, Sorts, RecorderSorts
    <3>5. recorder' = Relocate(recorder, Moves(old, walk.clones))
      BY <1>1, <2>2
    <3>6. /\ DOMAIN walk.clones = DOMAIN old
          /\ \A k, l \in DOMAIN old : walk.clones[k] = walk.clones[l] => k = l
      BY <1>4, <1>6, <1>7
    <3>7. /\ recorder' = [records |-> recorder.records, index |-> recorder'.index]
          /\ \A p \in DOMAIN old :
               /\ walk.clones[p] \in DOMAIN recorder'.index
               /\ recorder'.index[walk.clones[p]] = recorder.index[old[p]]
          /\ \A b \in DOMAIN recorder'.index :
               \E a \in DOMAIN recorder.index : recorder'.index[b] = recorder.index[a]
      BY <1>7, <3>3, <3>4, <3>5, <3>6, RelocateFacts
    <3>8. recorder'.records = recorder.records
      BY <3>7
    <3>9. RecorderSorts'
      BY <3>4, <3>7, <3>8 DEF RecorderSorts
    <3>10. \A b \in DOMAIN recorder'.index : recorder'.index[b] \in DOMAIN recorder'.records
      BY <3>1, <3>7, <3>8
    <3>11. \A k \in DOMAIN kept' : RecordKept(kept[k])'
      <4>1. ASSUME NEW k \in DOMAIN kept'
            PROVE  /\ kept'[k] \in DOMAIN recorder'.index
                   /\ recorder'.records[recorder'.index[kept'[k]]] = RecordOf(results'[kept'[k]])
        BY <1>11, <3>2, <3>7, <3>8 DEF RecordKept
      <4> QED BY <4>1 DEF RecordKept
    <3> QED BY <1>9, <3>1, <3>8, <3>9, <3>10, <3>11 DEF RecordsIndexed
  <2> QED BY <2>1, <2>2
<1>15. RecordsInCallOrder' /\ Ledger' /\ OncePinned'
  BY <1>2, <1>9 DEF RecordsInCallOrder, Ledger, Pinning, OncePinned
<1>16. WalkSorts' /\ PinnerSorts'
  <2>1. WalkSorts'
    BY <1>1 DEF WalkSorts, NoWalk
  <2>2. PinnerSorts'
    BY <1>1, <1>2, <1>9, <1>10 DEF IInv, Sorts, PinnerSorts
  <2> QED BY <2>1, <2>2
<1>17. Control'
  BY <1>1, <1>2, <1>9, <1>10 DEF Control
<1>18. Promises'
  <2>1. axes' = [a \in {SumKey} |-> FlattenSeq([p \in DOMAIN old |-> results[old[p]].nodes])]
    BY <1>1, <1>2, <1>8, Rekeyed
  <2>2. DOMAIN kept' = DOMAIN old
    BY <1>4, <1>7, <1>9
  <2>3. \A p \in DOMAIN old : results[old[p]].nodes = Axes[results'[kept'[p]].tree]
    BY <1>2, <1>11, <2>2 DEF Chosen
  <2>4. [p \in DOMAIN old |-> results[old[p]].nodes] =
          [p \in DOMAIN kept' |-> Axes[results'[kept'[p]].tree]]
    BY <2>2, <2>3
  <2>5. AxesFollowSummands'
    BY <2>1, <2>4 DEF AxesFollowSummands
  <2> QED BY <1>9, <2>5 DEF Promises, KeptWithTheirResults, RecordListsResults, PinReplaysRecord
<1> QED BY <1>9, <1>12, <1>13, <1>14, <1>15, <1>16, <1>17, <1>18, CallOver
        DEF IInv, Sorts, Held, Recording, PinInv

(***************************************************************************)
(* The caller.                                                             *)
(***************************************************************************)
LEMMA BeginKeeps ==
  ASSUME IInv, Begin
  PROVE  IInv'
<1>1. PICK root \in Roots, how \in {"plain", "record", "pin"}, each \in BOOLEAN,
           reorder \in BOOLEAN :
        /\ (how = "pin") <=> (doc # None)
        /\ each => ~reorder
        /\ run' = [stage |-> "ready", how |-> how, each |-> each, reorder |-> reorder]
        /\ waiting' = root
        /\ recorder' = NewRecorder
        /\ pinner' = NewPinner(IF how = "pin" THEN doc ELSE <<>>)
  BY DEF Begin
<1>2. /\ run.stage = "idle" /\ picked' = <<>>
      /\ UNCHANGED <<results, axes, addends, task, slot, walk, doc, kept>>
  BY DEF Begin
<1>3. /\ run'.stage = "ready" /\ run'.how = how /\ run'.each = each /\ run'.reorder = reorder
      /\ ~Optimizing /\ ~Optimizing' /\ Active' /\ kept = <<>> /\ kept' = <<>>
  BY <1>1, <1>2 DEF Optimizing, Active, IInv, Control
<1>4. walk = NoWalk /\ walk' = NoWalk
  BY <1>2, <1>3, NoWalkOver
<1>5. /\ pinner'.missing = {} /\ pinner'.duplicates = {} /\ pinner'.finished = FALSE
      /\ pinner' = [uses |-> pinner'.uses, missing |-> pinner'.missing,
                    duplicates |-> pinner'.duplicates, keys |-> pinner'.keys,
                    finished |-> pinner'.finished]
      /\ how = "pin" => pinner'.uses = [p \in DOMAIN doc |-> 0]
  BY <1>1 DEF NewPinner
<1>6. Listing(<<>>) /\ DOMAIN <<>> = {} /\ Len(<<>>) = 0
  BY EmptySeq DEF Listing
<1>7. Sorts'
  <2>1. root \in Seq(DOMAIN Kind)
    BY RootsAssumption
  <2>2. RunSorts'
    BY <1>1, <1>2, <1>3, <1>6, <2>1 DEF IInv, Sorts, RunSorts
  <2>3. RecorderSorts'
    BY <1>1, <1>6 DEF RecorderSorts, NewRecorder
  <2>4. PinnerSorts'
    <3>1. how = "pin" => doc # None /\ pinner'.uses \in [DOMAIN doc -> Nat]
      BY <1>1, <1>5
    <3> QED BY <1>2, <1>3, <1>5, <3>1 DEF IInv, Sorts, PinnerSorts
  <2> QED BY <1>2, <2>2, <2>3, <2>4 DEF IInv, Sorts, TaskSorts, WalkSorts
<1>8. Control'
  BY <1>2, <1>3, <1>4, <1>5 DEF Control
<1>9. KeptApart'
  BY <1>3, <1>6 DEF KeptApart
<1>10. Recording'
  <2>1. recorder'.records = <<>> /\ recorder'.index = <<>>
    BY <1>1 DEF NewRecorder
  <2>2. ~AddedNow'
    BY <1>3 DEF AddedNow
  <2> QED BY <1>2, <1>3, <1>6, <2>1, <2>2 DEF Recording, RecordsIndexed, RecordsInCallOrder
<1>11. Ledger'
  <2>1. SUFFICES ASSUME how = "pin" PROVE (UsesCounted /\ TakenOnce /\ MismatchCaused)'
    BY <1>3 DEF Ledger, Pinning
  <2>2. \A p \in DOMAIN doc' : ~(pinner'.uses[p] > 0)
    BY <1>2, <1>5, <2>1
  <2>3. UsesCounted'
    BY <1>2, <1>3, <1>6, <2>2 DEF UsesCounted
  <2>4. TakenOnce' /\ MismatchCaused'
    BY <1>2, <1>3, <1>5, <1>6 DEF TakenOnce, MismatchCaused
  <2> QED BY <2>3, <2>4
<1>12. OncePinned'
  BY <1>3, <1>5 DEF OncePinned
<1>13. Promises'
  BY <1>3 DEF Promises, KeptWithTheirResults, RecordListsResults, AxesFollowSummands,
              PinReplaysRecord
<1> QED BY <1>3, <1>7, <1>8, <1>9, <1>10, <1>11, <1>12, <1>13, CallOver
        DEF IInv, Held, PinInv

LEMMA CallOptimizeKeeps ==
  ASSUME IInv, CallOptimize
  PROVE  IInv'
<1>1. /\ run.stage \in {"ready", "returned"} /\ waiting # <<>>
      /\ addends' = (IF run.each THEN <<Head(waiting)>> ELSE waiting)
      /\ waiting' = (IF run.each THEN Tail(waiting) ELSE <<>>)
      /\ task' = [i \in DOMAIN addends' |-> <<"optimize">>]
      /\ slot' = [i \in DOMAIN addends' |-> None]
      /\ axes' = <<>>
      /\ run' = [run EXCEPT !.stage = "call"]
      /\ UNCHANGED <<results, walk, recorder, pinner, doc, kept, runs, picked>>
  BY DEF CallOptimize
<1>2. /\ run = [stage |-> run.stage, how |-> run.how, each |-> run.each, reorder |-> run.reorder]
      /\ run.each \in BOOLEAN /\ waiting \in Seq(DOMAIN Kind)
  BY DEF IInv, Sorts, RunSorts
<1>3. /\ run' = [stage |-> "call", how |-> run.how, each |-> run.each, reorder |-> run.reorder]
      /\ run'.stage = "call" /\ run'.how = run.how /\ run'.each = run.each
      /\ run'.reorder = run.reorder
  BY <1>1, <1>2
<1>4. ~Optimizing /\ Optimizing' /\ Active /\ Active'
  BY <1>1, <1>3 DEF Optimizing, Active
<1>5. /\ addends' \in Seq(DOMAIN Kind) /\ addends' # <<>>
      /\ waiting' \in Seq(DOMAIN Kind)
      /\ run.each => Len(addends') = 1
      /\ ~run.each => waiting' = <<>>
  <2>1. Head(waiting) \in DOMAIN Kind /\ Tail(waiting) \in Seq(DOMAIN Kind)
    BY <1>1, <1>2, HeadTailProperties
  <2>2. <<>> \in Seq(DOMAIN Kind)
    BY EmptySeq
  <2>3. CASE run.each
    <3>1. addends' = <<Head(waiting)>> /\ waiting' = Tail(waiting)
      BY <1>1, <2>3
    <3>2. Len(<<Head(waiting)>>) = 1 /\ <<Head(waiting)>> # <<>>
          /\ <<Head(waiting)>> \in Seq(DOMAIN Kind)
      BY <2>1
    <3> QED BY <2>1, <2>3, <3>1, <3>2
  <2>4. CASE ~run.each
    BY <1>1, <1>2, <2>2, <2>4
  <2> QED BY <2>3, <2>4
<1>6. DOMAIN addends' = 1 .. Len(addends') /\ 1 \in DOMAIN addends'
  BY <1>5, SeqFacts
<1>7. \A i \in DOMAIN addends' : task'[i] = <<"optimize">> /\ ~Made(i)'
  BY <1>1 DEF Made
<1>8. walk = NoWalk /\ walk' = NoWalk
  BY <1>1, <1>4, NoWalkOver
<1>9. ~run.each =>
        /\ run.stage = "ready" \/ (run.how = "pin" /\ pinner.finished)
        /\ run.stage = "ready" => kept = <<>> /\ picked = <<>>
                                  /\ pinner.missing = {} /\ pinner.duplicates = {}
  BY <1>1, <1>4 DEF IInv, Control, PinInv, OncePinned
<1>10. Sorts'
  <2>1. TaskSorts'
    BY <1>1, <1>5, TaskKinds DEF TaskSorts
  <2>2. RunSorts'
    BY <1>1, <1>2, <1>3, <1>5 DEF IInv, Sorts, RunSorts, Listing
  <2>3. RecorderSorts'
    BY <1>1 DEF IInv, Sorts, RecorderSorts, Listing
  <2>4. PinnerSorts'
    BY <1>1, <1>3 DEF IInv, Sorts, PinnerSorts
  <2>5. WalkSorts'
    <3>1. <<>> \in Seq(DOMAIN addends') /\ <<>> \in Seq(Address)
      BY EmptySeq
    <3> QED BY <1>8, <3>1 DEF WalkSorts, NoWalk
  <2> QED BY <1>1, <2>1, <2>2, <2>3, <2>4, <2>5 DEF IInv, Sorts
<1>11. Control'
  BY <1>1, <1>3, <1>4, <1>5, <1>8, <1>9 DEF Control
<1>12. Held'
  <2>1. KeptApart'
    BY <1>1, <1>4 DEF IInv, Held, KeptApart
  <2>2. SlotsApart' /\ SlotsChosen'
    BY <1>7 DEF SlotsApart, SlotsChosen
  <2>3. AxesStored'
    <3>1. DOMAIN axes' = {}
      BY <1>1
    <3> QED BY <1>7, <3>1 DEF AxesStored
  <2> QED BY <2>1, <2>2, <2>3 DEF Held
<1>13. Recording'
  <2>1. RecordsIndexed'
    <3>1. SUFFICES ASSUME run.how = "record" PROVE RecordsIndexed'
      BY <1>3 DEF RecordsIndexed
    <3>2. /\ \A a \in DOMAIN recorder.index : recorder.index[a] \in DOMAIN recorder.records
          /\ \A n \in DOMAIN recorder.records : GoodRecord(recorder.records[n])
          /\ \A p \in DOMAIN kept : RecordKept(kept[p])
      BY <1>4, <3>1 DEF IInv, Recording, RecordsIndexed
    <3>3. \A p \in DOMAIN kept : RecordKept(kept[p])'
      BY <1>1, <3>2 DEF RecordKept
    <3> QED BY <1>1, <1>7, <3>2, <3>3 DEF RecordsIndexed
  <2>2. ~AddedNow /\ ~AddedNow'
    BY <1>4, <1>6, <1>7 DEF AddedNow
  <2>3. RecordsInCallOrder'
    BY <1>1, <1>3, <1>4, <2>2 DEF IInv, Recording, RecordsInCallOrder
  <2> QED BY <2>1, <2>3 DEF Recording
<1>14. Ledger'
  <2>1. SUFFICES ASSUME run.how = "pin", ~pinner.finished
                 PROVE  (UsesCounted /\ TakenOnce /\ MismatchCaused)'
    BY <1>1, <1>3 DEF Ledger, Pinning
  <2>2. UsesCounted /\ TakenOnce
    BY <1>4, <2>1 DEF IInv, PinInv, Ledger, Pinning
  <2>3. UsesCounted'
    <3>1. \A k \in DOMAIN picked : Known(picked[k].key) /\ Chosen(picked[k])
      BY <2>2 DEF UsesCounted
    <3>2. \A k \in DOMAIN picked : Known(picked[k].key)'
      BY <1>1, <3>1 DEF Known, AtPosition, Positions
    <3>3. \A k \in DOMAIN picked : Chosen(picked[k])'
      BY <1>1, <1>3, <3>1 DEF Chosen, Positions
    <3>4. \A p \in DOMAIN doc : pinner.uses[p] > 0 =>
            \E k \in DOMAIN picked : AtPosition(picked[k].key, p)
      BY <1>4, <2>2 DEF UsesCounted, NoneThrew
    <3>5. \A p \in DOMAIN doc : pinner.uses[p] > 0 =>
            \E k \in DOMAIN picked : AtPosition(picked[k].key, p)'
      BY <1>1, <3>4 DEF AtPosition, Positions
    <3> QED BY <1>1, <1>7, <3>2, <3>3, <3>5 DEF UsesCounted
  <2>4. TakenOnce'
    BY <1>1, <1>7, <2>2 DEF TakenOnce
  <2>5. MismatchCaused'
    BY <1>1, <1>3, <1>9, <2>1 DEF MismatchCaused
  <2> QED BY <2>3, <2>4, <2>5
<1>15. Bound' /\ ThrewCaused'
  <2>1. \A i \in DOMAIN addends' : task'[i] # <<"threw">>
    BY <1>7, TaskKinds
  <2> QED BY <1>7, <2>1 DEF Bound, ThrewCaused
<1>16. OncePinned'
  BY <1>1, <1>3, <1>4, <1>7 DEF IInv, PinInv, OncePinned
<1>17. WalkInv'
  <2>1. walk'.order = <<>> /\ walk'.clones = <<>> /\ walk'.stack = {}
    BY <1>8 DEF NoWalk
  <2>2. DOMAIN walk'.order = {} /\ DOMAIN walk'.clones = {} /\ Len(walk'.order) = 0
        /\ Len(walk'.clones) = 0
    BY <2>1
  <2> QED BY <2>1, <2>2 DEF WalkInv
<1>18. Promises'
  BY <1>3 DEF Promises, KeptWithTheirResults, RecordListsResults, AxesFollowSummands,
              PinReplaysRecord
<1> QED BY <1>10, <1>11, <1>12, <1>13, <1>14, <1>15, <1>16, <1>17, <1>18 DEF IInv, PinInv

(* Between calls.                                                          *)
LEMMA UseAgainKeeps ==
  ASSUME IInv, UseAgain
  PROVE  IInv'
<1>1. /\ run.stage = "returned" /\ run.how = "pin" /\ ~run.each /\ waiting' = addends
      /\ UNCHANGED <<results, axes, run, addends, task, slot, walk, recorder, pinner, doc,
                     kept, picked>>
  BY DEF UseAgain, Over
<1>2. ~Optimizing /\ ~Optimizing' /\ Active /\ Active'
  BY <1>1 DEF Optimizing, Active
<1>3. walk = NoWalk
  BY <1>2, NoWalkOver
<1>4. addends \in Seq(DOMAIN Kind)
  BY DEF IInv, Sorts, TaskSorts
<1>5. Sorts'
  BY <1>1, <1>4 DEF IInv, Sorts, TaskSorts, RunSorts, RecorderSorts, PinnerSorts, WalkSorts, Listing
<1>6. Control'
  BY <1>1, <1>2, <1>3 DEF IInv, Control
<1>7. KeptApart' /\ Recording'
  BY <1>1, <1>2 DEF IInv, Held, KeptApart, Recording, RecordsIndexed, RecordsInCallOrder
<1>8. OncePinned'
  BY <1>1, <1>2 DEF IInv, PinInv, OncePinned
<1>9. Ledger'
  BY <1>1, <1>2 DEF IInv, PinInv, OncePinned, Ledger, Pinning
<1>10. Promises'
  BY <1>1 DEF IInv, Promises, KeptWithTheirResults, RecordListsResults, AxesFollowSummands,
              PinReplaysRecord
<1> QED BY <1>2, <1>5, <1>6, <1>7, <1>8, <1>9, <1>10, CallOver DEF IInv, Held, PinInv

LEMMA DropLastKeeps ==
  ASSUME IInv, DropLast
  PROVE  IInv'
<1>1. /\ run.stage = "returned" /\ run.each /\ kept # <<>>
      /\ results' = Discarded({Last(kept)}) /\ kept' = Front(kept)
      /\ UNCHANGED <<axes, run, waiting, addends, task, slot, walk, recorder, pinner, doc,
                     runs, picked>>
  BY DEF DropLast
<1>2. ~Optimizing /\ ~Optimizing' /\ Active /\ Active'
  BY <1>1 DEF Optimizing, Active
<1>3. walk = NoWalk
  BY <1>2, NoWalkOver
<1>4. /\ kept \in Seq(Address) /\ Len(kept) \in Nat \ {0} /\ DOMAIN kept = 1 .. Len(kept)
      /\ kept' \in Seq(Address) /\ DOMAIN kept' = 1 .. Len(kept) - 1
      /\ \A p \in DOMAIN kept' : kept'[p] = kept[p]
      /\ Last(kept) = kept[Len(kept)]
  <2>1. kept \in Seq(Address)
    BY DEF IInv, Sorts, RunSorts
  <2>2. Len(kept) \in Nat \ {0} /\ DOMAIN kept = 1 .. Len(kept)
        /\ \A p \in DOMAIN kept : kept[p] \in Address
    BY <1>1, <2>1, SeqFacts
  <2>3. kept' = [p \in 1 .. Len(kept) - 1 |-> kept[p]]
    BY <1>1, <2>1, <2>2 DEF Front
  <2>4. kept' \in [1 .. Len(kept) - 1 -> Address] /\ Len(kept) - 1 \in Nat
    BY <2>2, <2>3
  <2>5. kept' \in Seq(Address)
    BY <2>4, SeqDef
  <2> QED BY <2>1, <2>2, <2>3, <2>5 DEF Last
<1>5. /\ \A p \in DOMAIN kept : kept[p] \in DOMAIN results
      /\ \A p, q \in DOMAIN kept : kept[p] = kept[q] => p = q
  BY <1>2 DEF IInv, Held, KeptApart
<1>6. ASSUME NEW p \in DOMAIN kept'
      PROVE  /\ p \in DOMAIN kept /\ kept'[p] = kept[p] /\ kept[p] \in DOMAIN results'
             /\ results'[kept[p]] = results[kept[p]]
  <2>1. p \in DOMAIN kept /\ kept'[p] = kept[p] /\ Len(kept) \in DOMAIN kept /\ p # Len(kept)
    BY <1>4
  <2>2. kept[p] # Last(kept)
    BY <1>4, <1>5, <2>1
  <2> QED BY <1>1, <1>5, <2>1, <2>2 DEF Discarded
<1>7. KeptApart'
  BY <1>5, <1>6 DEF KeptApart
<1>8. Sorts'
  <2>1. (DOMAIN results \subseteq Address)'
    BY <1>1 DEF IInv, Sorts, Discarded
  <2> QED BY <1>1, <1>4, <2>1
          DEF IInv, Sorts, TaskSorts, RunSorts, RecorderSorts, PinnerSorts, WalkSorts, Listing
<1>9. Control'
  BY <1>1, <1>2, <1>3 DEF IInv, Control
<1>10. RecordsIndexed'
  <2>1. SUFFICES ASSUME run.how = "record" PROVE RecordsIndexed'
    BY <1>1 DEF RecordsIndexed
  <2>2. /\ \A a \in DOMAIN recorder.index : recorder.index[a] \in DOMAIN recorder.records
        /\ \A n \in DOMAIN recorder.records : GoodRecord(recorder.records[n])
        /\ \A p \in DOMAIN kept : RecordKept(kept[p])
    BY <1>2, <2>1 DEF IInv, Recording, RecordsIndexed
  <2>3. ASSUME NEW p \in DOMAIN kept'
        PROVE  /\ kept'[p] \in DOMAIN recorder'.index
               /\ recorder'.records[recorder'.index[kept'[p]]] = RecordOf(results'[kept'[p]])
    <3>1. RecordKept(kept[p]) /\ kept'[p] = kept[p] /\ results'[kept[p]] = results[kept[p]]
      BY <1>6, <2>2
    <3>2. recorder' = recorder
      BY <1>1
    <3> QED BY <3>1, <3>2 DEF RecordKept
  <2>4. \A p \in DOMAIN kept' : RecordKept(kept[p])'
    BY <2>3 DEF RecordKept
  <2> QED BY <1>1, <1>2, <2>2, <2>4 DEF RecordsIndexed
<1>11. RecordsInCallOrder'
  <2>1. ~AddedNow /\ ~AddedNow'
    BY <1>2 DEF AddedNow
  <2> QED BY <1>1, <1>2, <2>1 DEF IInv, Recording, RecordsInCallOrder
<1>12. Ledger'
  <2>1. SUFFICES ASSUME Pinning PROVE (UsesCounted /\ TakenOnce /\ MismatchCaused)'
    BY <1>1, <1>2 DEF Ledger, Pinning
  <2>2. UsesCounted /\ TakenOnce /\ MismatchCaused
    BY <2>1 DEF IInv, PinInv, Ledger
  <2>3. UsesCounted'
    <3>1. \A k \in DOMAIN picked : Known(picked[k].key) /\ Chosen(picked[k])
      BY <2>2 DEF UsesCounted
    <3>2. \A k \in DOMAIN picked : Known(picked[k].key)'
      BY <1>1, <3>1 DEF Known, AtPosition, Positions
    <3>3. \A k \in DOMAIN picked : Chosen(picked[k])'
      BY <1>1, <3>1 DEF Chosen, Positions
    <3>4. \A p \in DOMAIN doc : pinner.uses[p] > 0 =>
            \E k \in DOMAIN picked : AtPosition(picked[k].key, p)
      BY <1>2, <2>2 DEF UsesCounted, NoneThrew
    <3>5. \A p \in DOMAIN doc : pinner.uses[p] > 0 =>
            \E k \in DOMAIN picked : AtPosition(picked[k].key, p)'
      <4>1. picked' = picked /\ doc' = doc
        BY <1>1
      <4> QED BY <3>4, <4>1 DEF AtPosition, Positions
    <3> QED BY <1>1, <1>2, <3>2, <3>3, <3>5 DEF UsesCounted
  <2>4. TakenOnce'
    BY <1>1, <1>2, <2>2 DEF TakenOnce
  <2>5. MismatchCaused'
    BY <1>1 DEF MismatchCaused
  <2> QED BY <2>3, <2>4, <2>5
<1>13. OncePinned'
  BY <1>1, <1>2 DEF IInv, PinInv, OncePinned
<1>14. Promises'
  BY <1>1 DEF Promises, KeptWithTheirResults, RecordListsResults, AxesFollowSummands,
              PinReplaysRecord
<1> QED BY <1>2, <1>7, <1>8, <1>9, <1>10, <1>11, <1>12, <1>13, <1>14, CallOver
        DEF IInv, Held, Recording, PinInv

(* The end of a run.                                                       *)
LEMMA RunEnded ==
  ASSUME IInv, Over,
         run'.stage \notin {"idle", "ready", "call", "returned"},
         EndRun(run'.stage), UNCHANGED Rest,
         PinnerSorts', RecordListsResults', PinReplaysRecord'
  PROVE  IInv'
<1>1. /\ run' = [stage |-> run'.stage, how |-> run.how, each |-> run.each,
                 reorder |-> run.reorder]
      /\ UNCHANGED <<results, axes, waiting, addends, task, slot, walk, recorder, kept, runs,
                     picked>>
  BY DEF EndRun, Rest, IInv, Sorts, RunSorts
<1>2. ~Active' /\ ~Optimizing' /\ ~Optimizing
  BY DEF Active, Optimizing, Over
<1>3. walk = NoWalk
  BY <1>2, NoWalkOver
<1>4. Sorts'
  BY <1>1 DEF IInv, Sorts, TaskSorts, RunSorts, RecorderSorts, WalkSorts, Listing
<1>5. Control'
  BY <1>1, <1>2, <1>3 DEF Control
<1>6. Held' /\ Recording' /\ PinInv' /\ WalkInv'
  BY <1>2, RunOver
<1>7. Promises'
  BY DEF Promises, KeptWithTheirResults, AxesFollowSummands
<1> QED BY <1>4, <1>5, <1>6, <1>7 DEF IInv

LEMMA FinishedFacts ==
  ASSUME NEW session, NEW n \in Nat, NEW positions, DOMAIN positions = 1 .. n,
         \A p \in 1 .. n : GoodRecord(session.records[positions[p]]),
         NEW records, records = Finished(session, positions), records # None
  PROVE  /\ Recorded(records) /\ DOMAIN records = 1 .. n
         /\ \A p \in 1 .. n : records[p] = session.records[positions[p]]
<1>1. records = [p \in 1 .. n |-> session.records[positions[p]]]
  BY DEF Finished
<1>2. records = [p \in 1 .. n |-> records[p]]
  BY <1>1
<1>3. Len(records) = n
  BY <1>2, Listed
<1>4. \A p \in 1 .. n : records[p] = session.records[positions[p]] /\ GoodRecord(records[p])
  BY <1>1
<1> QED BY <1>1, <1>3, <1>4 DEF Recorded, GoodRecord

LEMMA NothingAdded ==
  ASSUME NEW n \in Nat
  PROVE  n + 0 = n
OBVIOUS

LEMMA SaidOfRecord ==
  ASSUME NEW r
  PROVE  SaidOf(RecordOf(r)) = RecordedAs(r)
BY DEF SaidOf, RecordOf, RecordedAs, Pinnable

LEMMA EndRecordingKeeps ==
  ASSUME IInv, EndRecording
  PROVE  IInv'
<1>1. PICK by \in {"address", "call order"} :
        /\ by = "call order" => run.each
        /\ doc' = IF by = "address" THEN FinishByAddress(recorder, kept)
                  ELSE FinishInCallOrder(recorder)
        /\ EndRun(IF doc' = None THEN "threw"
                  ELSE IF by = "address" THEN "recorded kept" ELSE "recorded")
  BY DEF EndRecording
<1>2. /\ Over /\ run.how = "record" /\ pinner' = pinner /\ UNCHANGED Rest
  BY DEF EndRecording
<1>3. run' = [stage |-> IF doc' = None THEN "threw"
                        ELSE IF by = "address" THEN "recorded kept" ELSE "recorded",
              how |-> run.how, each |-> run.each, reorder |-> run.reorder]
  BY <1>1 DEF EndRun, IInv, Sorts, RunSorts
<1>4. /\ run'.how = "record" /\ EndRun(run'.stage)
      /\ run'.stage \in {"threw", "recorded kept", "recorded"}
      /\ run'.stage = "recorded kept" => by = "address" /\ doc' # None
      /\ run'.stage = "recorded" => by = "call order" /\ doc' # None
  BY <1>1, <1>2, <1>3 DEF EndRun
<1>5. Active /\ ~Optimizing
  BY <1>2 DEF Active, Optimizing, Over
<1>6. /\ \A a \in DOMAIN recorder.index : recorder.index[a] \in DOMAIN recorder.records
      /\ \A n \in DOMAIN recorder.records : GoodRecord(recorder.records[n])
      /\ \A p \in DOMAIN kept : RecordKept(kept[p])
  BY <1>2, <1>5 DEF IInv, Recording, RecordsIndexed
<1>7. UNCHANGED <<results, kept, picked>>
  BY <1>2 DEF Rest
<1>8. /\ kept \in Seq(Address) /\ Len(kept) \in Nat /\ DOMAIN kept = 1 .. Len(kept)
      /\ Len(picked) \in Nat /\ DOMAIN picked = 1 .. Len(picked)
      /\ Len(recorder.records) \in Nat /\ DOMAIN recorder.records = 1 .. Len(recorder.records)
  BY LenProperties DEF IInv, Sorts, RunSorts, RecorderSorts, Listing
<1>9. CASE doc' = None
  <2>1. PinnerSorts'
    BY <1>2, <1>4, <1>9 DEF IInv, Sorts, PinnerSorts
  <2>2. RecordListsResults' /\ PinReplaysRecord'
    BY <1>4, <1>9 DEF RecordListsResults, PinReplaysRecord
  <2> QED BY <1>2, <1>4, <2>1, <2>2, RunEnded
<1>10. CASE by = "address" /\ doc' # None
  <2> DEFINE positions == [p \in DOMAIN kept |-> recorder.index[kept[p]]]
  <2>1. doc' = Finished(recorder, positions)
    BY <1>1, <1>10 DEF FinishByAddress
  <2>2. /\ DOMAIN positions = 1 .. Len(kept)
        /\ \A p \in 1 .. Len(kept) : positions[p] = recorder.index[kept[p]]
    BY <1>8
  <2> HIDE DEF positions
  <2>3. \A p \in 1 .. Len(kept) :
          /\ recorder.records[positions[p]] = RecordOf(results[kept[p]])
          /\ GoodRecord(recorder.records[positions[p]])
    BY <1>6, <1>8, <2>2 DEF RecordKept
  <2>4. /\ Recorded(doc') /\ DOMAIN doc' = 1 .. Len(kept)
        /\ \A p \in 1 .. Len(kept) : doc'[p] = recorder.records[positions[p]]
    <3>1. /\ Len(kept) \in Nat /\ DOMAIN positions = 1 .. Len(kept) /\ doc' # None
          /\ \A p \in 1 .. Len(kept) : GoodRecord(recorder.records[positions[p]])
      BY <1>8, <1>10, <2>2, <2>3
    <3>2. Recorded(doc') /\ DOMAIN doc' = 1 .. Len(kept)
      BY <2>1, <3>1, FinishedFacts
    <3>3. doc' = [p \in DOMAIN positions |-> recorder.records[positions[p]]]
      BY <2>1, <3>1 DEF Finished
    <3> QED BY <3>1, <3>2, <3>3
  <2>5. PinnerSorts'
    BY <1>2, <1>4, <2>4 DEF IInv, Sorts, PinnerSorts
  <2>6. RecordListsResults'
    <3>1. \A p \in DOMAIN doc' : SaidOf(doc'[p]) = RecordedAs(results[kept[p]])
      BY <2>3, <2>4, SaidOfRecord
    <3>2. Said(doc)' = [p \in DOMAIN kept |-> RecordedAs(results[kept[p]])]
      BY <1>8, <2>4, <3>1 DEF Said, SaidOf
    <3> QED BY <1>4, <1>7, <1>10, <3>2 DEF RecordListsResults, RecordedAs, SaidOf
  <2>7. PinReplaysRecord'
    BY <1>4 DEF PinReplaysRecord
  <2> QED BY <1>2, <1>4, <2>5, <2>6, <2>7, RunEnded
<1>11. CASE by = "call order" /\ doc' # None
  <2> DEFINE positions == [p \in DOMAIN recorder.records |-> p]
  <2>1. doc' = Finished(recorder, positions)
    BY <1>1, <1>11 DEF FinishInCallOrder
  <2>2. ~AddedNow
    BY <1>5 DEF AddedNow
  <2>3. /\ Len(recorder.records) = Len(picked)
        /\ \A k \in DOMAIN picked : recorder.records[k] = RecordOf(picked[k])
    <3>1. run.each /\ run.how = "record"
      BY <1>1, <1>2, <1>11
    <3>2. /\ Len(recorder.records) = Len(picked) + (IF AddedNow THEN 1 ELSE 0)
          /\ \A k \in DOMAIN picked : recorder.records[k] = RecordOf(picked[k])
      BY <1>5, <3>1 DEF IInv, Recording, RecordsInCallOrder
    <3>3. Len(recorder.records) = Len(picked) + 0
      BY <2>2, <3>2 DEF AddedNow
    <3>4. Len(picked) + 0 = Len(picked)
      BY <1>8, NothingAdded
    <3>5. Len(recorder.records) = Len(picked)
      BY <3>3, <3>4, Zenon
    <3> QED BY <3>2, <3>5
  <2>4. /\ DOMAIN positions = 1 .. Len(picked)
        /\ \A p \in 1 .. Len(picked) : positions[p] = p
    BY <1>8, <2>3
  <2> HIDE DEF positions
  <2>5. \A p \in 1 .. Len(picked) :
          /\ recorder.records[positions[p]] = RecordOf(picked[p])
          /\ GoodRecord(recorder.records[positions[p]])
    BY <1>6, <1>8, <2>3, <2>4
  <2>6. /\ Recorded(doc') /\ DOMAIN doc' = 1 .. Len(picked)
        /\ \A p \in 1 .. Len(picked) : doc'[p] = recorder.records[positions[p]]
    <3>1. /\ Len(picked) \in Nat /\ DOMAIN positions = 1 .. Len(picked) /\ doc' # None
          /\ \A p \in 1 .. Len(picked) : GoodRecord(recorder.records[positions[p]])
      BY <1>8, <1>11, <2>4, <2>5
    <3>2. Recorded(doc') /\ DOMAIN doc' = 1 .. Len(picked)
      BY <2>1, <3>1, FinishedFacts
    <3>3. doc' = [p \in DOMAIN positions |-> recorder.records[positions[p]]]
      BY <2>1, <3>1 DEF Finished
    <3> QED BY <3>1, <3>2, <3>3
  <2>7. PinnerSorts'
    BY <1>2, <1>4, <2>6 DEF IInv, Sorts, PinnerSorts
  <2>8. RecordListsResults'
    <3>1. \A p \in DOMAIN doc' : SaidOf(doc'[p]) = RecordedAs(picked[p])
      BY <2>5, <2>6, SaidOfRecord
    <3>2. Said(doc)' = [p \in DOMAIN picked |-> RecordedAs(picked[p])]
      BY <1>8, <2>6, <3>1 DEF Said, SaidOf
    <3> QED BY <1>4, <1>7, <1>11, <3>2 DEF RecordListsResults, RecordedAs, SaidOf
  <2>9. PinReplaysRecord'
    BY <1>4 DEF PinReplaysRecord
  <2> QED BY <1>2, <1>4, <2>7, <2>8, <2>9, RunEnded
<1> QED BY <1>9, <1>10, <1>11

LEMMA Counted ==
  ASSUME NEW n \in Nat
  PROVE  IsFiniteSet(1 .. n) /\ Cardinality(1 .. n) = n
<1>1. /\ IsFiniteSet(1 .. n)
      /\ Cardinality(1 .. n) = IF 1 > n THEN 0 ELSE n - 1 + 1
  BY FS_Interval
<1> QED BY <1>1

(* What a run under a pin has returned, term by term.                      *)
LEMMA PinnedTerms ==
  ASSUME IInv, Over, run.how = "pin", run.each, Matches(pinner, doc)
  PROVE  ToSet(Said(picked)) = ToSet(Said(doc)) /\ Len(picked) = Len(doc)
<1>1. Active /\ ~Optimizing
  BY DEF Over, Active, Optimizing
<1>2. ~pinner.finished
  BY <1>1 DEF IInv, PinInv, OncePinned
<1>3. UsesCounted /\ TakenOnce
  BY <1>1, <1>2 DEF IInv, PinInv, Ledger, Pinning
<1>4. Recorded(doc) /\ Len(doc) \in Nat /\ DOMAIN doc = 1 .. Len(doc)
  BY DEF IInv, Sorts, PinnerSorts, Over, Recorded
<1>5. Len(picked) \in Nat /\ DOMAIN picked = 1 .. Len(picked)
  BY LenProperties DEF IInv, Sorts, RunSorts, Listing
<1>6. \A k, l \in DOMAIN picked : picked[k].key = picked[l].key => k = l
  BY <1>3 DEF TakenOnce, Matches
<1> DEFINE at == [k \in DOMAIN picked |-> Min(Positions(doc, picked[k].key))]
<1>7. ASSUME NEW k \in DOMAIN picked
      PROVE  /\ at[k] \in DOMAIN doc /\ doc[at[k]].key = picked[k].key
             /\ SaidOf(picked[k]) = SaidOf(doc[at[k]])
  <2>1. Known(picked[k].key) /\ Chosen(picked[k])
    BY <1>3 DEF UsesCounted
  <2>2. Positions(doc, picked[k].key) # {}
    BY <2>1 DEF Known, Matches
  <2>3. at[k] \in DOMAIN doc /\ doc[at[k]].key = picked[k].key
    BY <1>4, <2>2, PositionFacts
  <2>4. picked[k].tree = doc[at[k]].tree /\ picked[k].nodes = doc[at[k]].nodes
    BY <2>1, <2>2 DEF Chosen
  <2> QED BY <2>3, <2>4 DEF SaidOf
<1>8. ASSUME NEW p \in DOMAIN doc PROVE \E k \in DOMAIN picked : at[k] = p
  <2>1. pinner.uses[p] > 0 /\ NoneThrew
    BY <1>1 DEF Matches, NoneThrew
  <2>2. PICK k \in DOMAIN picked : AtPosition(picked[k].key, p)
    BY <1>1, <1>3, <2>1 DEF UsesCounted
  <2> QED BY <2>2 DEF AtPosition
<1> HIDE DEF at
<1>9. ToSet(Said(picked)) = ToSet(Said(doc))
  <2>1. /\ ToSet(Said(picked)) = {SaidOf(picked[k]) : k \in DOMAIN picked}
        /\ ToSet(Said(doc)) = {SaidOf(doc[p]) : p \in DOMAIN doc}
    BY DEF ToSet, Said
  <2> QED BY <1>7, <1>8, <2>1
<1>10. Len(picked) = Len(doc)
  <2>1. at \in [DOMAIN picked -> DOMAIN doc]
    BY <1>7 DEF at
  <2>2. \A k, l \in DOMAIN picked : at[k] = at[l] => k = l
    BY <1>6, <1>7
  <2>3. at \in Injection(DOMAIN picked, DOMAIN doc)
    BY <2>1, <2>2 DEF Injection, IsInjective
  <2>4. at \in Surjection(DOMAIN picked, DOMAIN doc)
    BY <1>8, <2>1 DEF Surjection
  <2>5. /\ IsFiniteSet(1 .. Len(picked)) /\ Cardinality(1 .. Len(picked)) = Len(picked)
    BY <1>5, Counted
  <2>6. Cardinality(1 .. Len(doc)) = Len(doc)
    BY <1>4, Counted
  <2>7. Cardinality(DOMAIN doc) = Cardinality(DOMAIN picked)
    BY <1>5, <2>3, <2>4, <2>5, FS_Surjection
  <2> QED BY <1>4, <1>5, <2>5, <2>6, <2>7
<1> QED BY <1>9, <1>10

LEMMA EndPinningKeeps ==
  ASSUME IInv, EndPinning
  PROVE  IInv'
<1>1. /\ Over /\ run.how = "pin" /\ doc' = doc /\ UNCHANGED Rest
      /\ pinner' = [pinner EXCEPT !.finished = TRUE]
      /\ EndRun(IF Matches(pinner, doc) THEN "pinned" ELSE "threw")
  BY DEF EndPinning
<1>2. run' = [stage |-> IF Matches(pinner, doc) THEN "pinned" ELSE "threw",
              how |-> run.how, each |-> run.each, reorder |-> run.reorder]
  BY <1>1 DEF EndRun, IInv, Sorts, RunSorts
<1>3. /\ run'.how = "pin" /\ run'.each = run.each /\ EndRun(run'.stage)
      /\ run'.stage \in {"pinned", "threw"}
      /\ run'.stage = "pinned" => Matches(pinner, doc)
  BY <1>1, <1>2 DEF EndRun
<1>4. pinner' = [uses |-> pinner.uses, missing |-> pinner.missing,
                 duplicates |-> pinner.duplicates, keys |-> pinner.keys, finished |-> TRUE]
  BY <1>1 DEF IInv, Sorts, PinnerSorts
<1>5. PinnerSorts'
  BY <1>1, <1>3, <1>4 DEF IInv, Sorts, PinnerSorts, Over
<1>6. RecordListsResults'
  BY <1>3 DEF RecordListsResults
<1>7. picked' = picked /\ kept' = kept
  BY <1>1 DEF Rest
<1>8. Active
  BY <1>1 DEF Over, Active
<1>9. ~run.each => kept # <<>> /\ Said(picked) = Said(doc)
  BY <1>1, <1>8 DEF IInv, PinInv, OncePinned, Over
<1>10. ASSUME Said(picked) = Said(doc)
       PROVE  ToSet(Said(picked)) = ToSet(Said(doc)) /\ Len(picked) = Len(doc)
  <2>1. Len(doc) \in Nat /\ DOMAIN doc = 1 .. Len(doc)
    BY <1>1 DEF IInv, Sorts, PinnerSorts, Over, Recorded
  <2>2. Len(picked) \in Nat /\ DOMAIN picked = 1 .. Len(picked)
    BY LenProperties DEF IInv, Sorts, RunSorts, Listing
  <2>3. DOMAIN picked = DOMAIN doc
    BY <1>10 DEF Said
  <2>4. Len(picked) = Len(doc)
    <3>1. Cardinality(1 .. Len(picked)) = Len(picked) /\ Cardinality(1 .. Len(doc)) = Len(doc)
      BY <2>1, <2>2, Counted
    <3> QED BY <2>1, <2>2, <2>3, <3>1
  <2> QED BY <1>10, <2>4
<1>11. Matches(pinner, doc) =>
         ToSet(Said(picked)) = ToSet(Said(doc)) /\ Len(picked) = Len(doc)
  BY <1>1, <1>9, <1>10, PinnedTerms
<1>12. PinReplaysRecord'
  BY <1>1, <1>3, <1>7, <1>9, <1>11 DEF PinReplaysRecord, Said, SaidOf
<1> QED BY <1>1, <1>3, <1>5, <1>6, <1>12, RunEnded

LEMMA EndPlainKeeps ==
  ASSUME IInv, EndPlain
  PROVE  IInv'
<1>1. /\ Over /\ run.how = "plain" /\ EndRun("ended") /\ UNCHANGED <<pinner, doc>>
      /\ UNCHANGED Rest
  BY DEF EndPlain
<1>2. run' = [stage |-> "ended", how |-> run.how, each |-> run.each, reorder |-> run.reorder]
  BY <1>1 DEF EndRun, IInv, Sorts, RunSorts
<1>3. run'.how = "plain" /\ run'.stage = "ended" /\ EndRun(run'.stage)
  BY <1>1, <1>2
<1>4. PinnerSorts' /\ RecordListsResults' /\ PinReplaysRecord'
  BY <1>1, <1>3 DEF IInv, Sorts, PinnerSorts, RecordListsResults, PinReplaysRecord
<1> QED BY <1>1, <1>3, <1>4, RunEnded

(* The caller rests.                                                       *)
LEMMA AtRest ==
  ASSUME run' = NoRun, results' = <<>>, kept' = <<>>, waiting' = <<>>, addends' = <<>>,
         task' = <<>>, slot' = <<>>, picked' = <<>>, walk' = NoWalk,
         recorder' = NewRecorder, pinner' = NewPinner(<<>>),
         doc' = None \/ Recorded(doc')
  PROVE  IInv'
<1>1. /\ run'.stage = "idle" /\ run'.how = "plain" /\ run'.each = FALSE /\ run'.reorder = FALSE
      /\ ~Active'
  BY DEF NoRun, Active
<1>2. /\ DOMAIN <<>> = {} /\ Listing(<<>>)
      /\ \A S : <<>> \in Seq(S)
  BY EmptySeq DEF Listing
<1>3. Sorts'
  <2>1. TaskSorts'
    <3>1. <<>> \in [{} -> Tasks] /\ <<>> \in [{} -> Address \cup {None}]
      OBVIOUS
    <3> QED BY <1>2, <3>1 DEF TaskSorts
  <2>2. RunSorts'
    BY <1>1, <1>2 DEF RunSorts, NoRun
  <2>3. RecorderSorts'
    BY <1>2 DEF RecorderSorts, NewRecorder
  <2>4. PinnerSorts'
    BY <1>1 DEF PinnerSorts, NewPinner
  <2>5. WalkSorts'
    BY <1>2 DEF WalkSorts, NoWalk
  <2> QED BY <1>2, <2>1, <2>2, <2>3, <2>4, <2>5 DEF Sorts
<1>4. Control'
  BY <1>1 DEF Control, Active, Optimizing
<1>5. Held' /\ Recording' /\ PinInv' /\ WalkInv'
  BY <1>1, RunOver
<1>6. Promises'
  BY <1>1 DEF Promises, KeptWithTheirResults, RecordListsResults, AxesFollowSummands,
              PinReplaysRecord
<1> QED BY <1>3, <1>4, <1>5, <1>6 DEF IInv

LEMMA LeaveKeeps ==
  ASSUME IInv, Leave
  PROVE  IInv'
<1>1. ~Optimizing /\ walk' = walk /\ doc' = doc
  BY DEF Leave, Optimizing
<1>2. walk = NoWalk
  BY <1>1, NoWalkOver
<1>3. doc' = None \/ Recorded(doc')
  BY <1>1 DEF IInv, Sorts, PinnerSorts
<1> QED BY <1>1, <1>2, <1>3, AtRest DEF Leave

LEMMA StartsAtRest ==
  ASSUME OptimizerInit
  PROVE  IInv
<1>1. /\ run.stage = "idle" /\ run.how = "plain" /\ run.each = FALSE /\ run.reorder = FALSE
      /\ results = <<>> /\ kept = <<>> /\ ~Active /\ ~Optimizing
  BY DEF OptimizerInit, NoRun, Active, Optimizing
<1>2. /\ DOMAIN <<>> = {} /\ Listing(<<>>)
      /\ \A S : <<>> \in Seq(S)
  BY EmptySeq DEF Listing
<1>3. Sorts
  <2>1. TaskSorts
    <3>1. <<>> \in [{} -> Tasks] /\ <<>> \in [{} -> Address \cup {None}]
      OBVIOUS
    <3> QED BY <1>2, <3>1 DEF OptimizerInit, TaskSorts
  <2>2. RunSorts
    BY <1>1, <1>2 DEF OptimizerInit, RunSorts, NoRun
  <2>3. RecorderSorts
    BY <1>2 DEF OptimizerInit, RecorderSorts, NewRecorder
  <2>4. PinnerSorts
    BY <1>1, DocumentsAssumption DEF OptimizerInit, PinnerSorts, NewPinner
  <2>5. WalkSorts
    BY <1>2 DEF OptimizerInit, WalkSorts, NoWalk
  <2> QED BY <1>1, <1>2, <2>1, <2>2, <2>3, <2>4, <2>5 DEF Sorts
<1>4. Control
  BY <1>1 DEF OptimizerInit, Control
<1>5. Held /\ Recording /\ WalkInv
  BY <1>1 DEF Held, KeptApart, SlotsApart, SlotsChosen, AxesStored, Recording, RecordsIndexed,
              RecordsInCallOrder, WalkInv
<1>6. PinInv
  BY <1>1 DEF PinInv, Ledger, Pinning, Bound, ThrewCaused, OncePinned
<1>7. Promises
  BY <1>1 DEF Promises, KeptWithTheirResults, RecordListsResults, AxesFollowSummands,
              PinReplaysRecord
<1> QED BY <1>3, <1>4, <1>5, <1>6, <1>7 DEF IInv

LEMMA StutterKeeps ==
  ASSUME IInv, UNCHANGED optimizerVars
  PROVE  IInv'
<1>1. UNCHANGED <<results, axes, run, waiting, addends, task, slot, walk, recorder, pinner, doc,
                  kept, runs, picked>>
  BY DEF optimizerVars
<1>2. /\ (DOMAIN results \subseteq Address)' /\ TaskSorts' /\ RunSorts' /\ RecorderSorts'
      /\ PinnerSorts'
      /\ Held' /\ Recording' /\ PinInv' /\ Promises'
  BY <1>1, WalkOnly
<1>3. WalkSorts'
  BY <1>1 DEF IInv, Sorts, WalkSorts
<1>4. Control'
  BY <1>1 DEF IInv, Control, Active, Optimizing
<1>5. WalkInv'
  BY <1>1 DEF IInv, WalkInv, Optimizing, Connections, Holders, IsFirst, TreeNodes
<1> QED BY <1>2, <1>3, <1>4, <1>5 DEF IInv, Sorts

LEMMA NextKeeps ==
  ASSUME IInv, [OptimizerNext]_optimizerVars
  PROVE  IInv'
<1>1. CASE UNCHANGED optimizerVars
  BY <1>1, StutterKeeps
<1>2. ASSUME NEW i \in DOMAIN task, Work(i) PROVE IInv'
  BY <1>2, OptimizeKeeps, OptimizeRecordedKeeps, TakePinnedKeeps, BindKeeps, AddRecordKeeps,
     StoreAxesKeeps DEF Work
<1>3. CASE Reorder
  BY <1>3, VisitHeadKeeps, VisitNextKeeps, CloneNextKeeps, ReturnReorderedKeeps DEF Reorder
<1>4. CASE End
  BY <1>4, FailCallKeeps, ReturnTermKeeps, ReturnInOrderKeeps, ReturnPinnedKeeps DEF End
<1>5. CASE Caller
  BY <1>5, BeginKeeps, CallOptimizeKeeps, UseAgainKeeps, DropLastKeeps, EndRecordingKeeps,
     EndPinningKeeps, EndPlainKeeps, LeaveKeeps DEF Caller
<1> QED BY <1>1, <1>2, <1>3, <1>4, <1>5 DEF OptimizerNext

(***************************************************************************)
(* The theorems.                                                           *)
(***************************************************************************)
\* The inductive invariant: every result that is held has an address of its
\* own, and what the sessions and the map of annotations have under an address
\* is of the result that lives there, in each of the orders the threads, the
\* walk of reorder(), the caller and the allocator may take.
THEOREM Invariance == OptimizerSpec => []IInv
<1>1. OptimizerInit => IInv
  BY StartsAtRest
<1>2. IInv /\ [OptimizerNext]_optimizerVars => IInv'
  BY NextKeeps
<1> QED BY <1>1, <1>2, PTL DEF OptimizerSpec

\* A record lists the results of its run, in their order, and the annotations
\* kept for a sum are those of its summands, in theirs, however many summands
\* are optimized at once, whatever is cloned, and although addresses are used
\* again (RecordSession, rekey_onto, clusters and reorder).
THEOREM KeptCorrect == OptimizerSpec => []KeptWithTheirResults
<1>1. IInv => KeptWithTheirResults
  BY DEF IInv, Promises
<1> QED BY <1>1, Invariance, PTL

\* A pinned run that ends well has rebuilt every recorded tree, once, in the
\* order of the record when it is of a sum, and one that throws had a cause
\* (PinSession::take and finish, in_document_order).
THEOREM PinCorrect == OptimizerSpec => []PinReplaysRecord
<1>1. IInv => PinReplaysRecord
  BY DEF IInv, Promises
<1> QED BY <1>1, Invariance, PTL

=============================================================================
