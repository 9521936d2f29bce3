---------------------------- MODULE CellRegistry ----------------------------
(***************************************************************************)
(* The CellRegistry (core/eval/cell_registry.hpp) under an arbitrary       *)
(* client: every operation, on any cell, in any order.  The client is only *)
(* held to what the ordered executor does: it stores buffers it owns (a    *)
(* new result, or the buffer an exhausting read handed over), and a batch  *)
(* of a loop begins with clear_bound_to.  An exception abandons the        *)
(* evaluation; the next one constructs a new registry over the same store. *)
(*                                                                         *)
(* Values are buffers.  A buffer's measured size may grow while it is held *)
(* (a pending view that materializes).                                     *)
(***************************************************************************)
EXTENDS CellSlots, Integers, FiniteSets, FiniteSetsExt

CONSTANTS Ids,        \* the cells
          Desc,       \* Ids -> the cell's table entry
          Vids,       \* the values the cells are forms of
          Loops,      \* the loop keys
          Bufs,       \* buffers
          MaxSize,    \* bound on a buffer's size
          MaxBatch,   \* bound on the batches begun per loop
          MaxEvals    \* bound on evaluations

(* CellRegistry::slots_ is a vector.                                       *)
ASSUME IdsAssumption == IsFiniteSet(Ids)
(* set_residency_flags (cell_table_builder.hpp): a persistent cell is      *)
(* bound to no loop.                                                       *)
ASSUME TableAssumption ==
  \A c \in Ids : /\ Desc[c].life \in Nat
                 /\ Desc[c].persistent \in BOOLEAN
                 /\ Desc[c].vid \in Vids
                 /\ Desc[c].persistent => BoundInstances(Desc[c]) = {}
ASSUME BufAssumption == NoBuf \notin Bufs
ASSUME BoundAssumption == MaxSize \in Nat /\ MaxBatch \in Nat /\ MaxEvals \in Nat

VARIABLES
  slots,    \* the slots: [val, life, filled]
  charged,  \* charged_bytes of each slot
  live,     \* live_bytes_
  store,    \* the PersistentValueStore: value -> buffer
  strict,   \* whether a fill-once violation throws
  thrown,   \* an exception abandoned the evaluation
  size,     \* what size_in_bytes() measures now
  owned,    \* the buffers only the client refers to
  eval,     \* how many registries were constructed
  batch,    \* the batch each loop is in
  born,     \* ghost: for a held value, the batch of each loop it was stored in
  spent     \* ghost: reads and forgone reads of a non-persistent cell since its
            \* last production

vars == <<slots, charged, live, store, strict, thrown, size, owned, eval, batch,
          born, spent>>

Held(c) == slots[c].val # NoBuf
InUse == owned \cup {slots[c].val : c \in Ids} \cup {store[v] : v \in Vids}

TotalCharged(ch) == MapThenSumSet(LAMBDA c : ch[c], Ids)

(***************************************************************************)
(* The client's buffers.                                                   *)
(***************************************************************************)
NewBuffer(b) ==
  /\ b \notin InUse
  /\ owned' = owned \cup {b}
  /\ \E n \in 1 .. MaxSize : size' = [size EXCEPT ![b] = n]
  /\ UNCHANGED <<slots, charged, live, store, strict, thrown, eval, batch, born, spent>>

Materialize(b) ==
  /\ b \in InUse /\ size[b] < MaxSize
  /\ size' = [size EXCEPT ![b] = @ + 1]
  /\ UNCHANGED <<slots, charged, live, store, strict, thrown, owned, eval, batch, born, spent>>

DropBuffer(b) ==
  /\ b \in owned
  /\ owned' = owned \ {b}
  /\ UNCHANGED <<slots, charged, live, store, strict, thrown, size, eval, batch, born, spent>>

(***************************************************************************)
(* The registry's operations.                                              *)
(***************************************************************************)
(* charge and discharge of one slot.                                       *)
(* Mutant: the value's size now is taken off, not what it was charged.     *)
RechargeMeasured(c, n) ==
  /\ charged' = [charged EXCEPT ![c] = n]
  /\ live' = live - (IF Held(c) THEN size[slots[c].val] ELSE 0) + n
Recharge(c, n) ==
  /\ charged' = [charged EXCEPT ![c] = n]
  /\ live' = live - charged[c] + n
Discharge(c) == Recharge(c, 0)

Throws == /\ thrown' = TRUE
          /\ UNCHANGED <<slots, charged, live, store, strict, size, owned, eval, batch,
                         born, spent>>

(* With the fill-once check off, a second production overwrites the first. *)
Set(c, b) ==
  /\ ~thrown /\ b \in owned
  /\ IF strict /\ SetThrows(Desc[c], slots[c]) THEN Throws
     ELSE /\ slots' = [slots EXCEPT ![c] = SetSlot(Desc[c], b)]
          /\ Recharge(c, size[b])
          /\ store' = IF Desc[c].persistent
                      THEN [store EXCEPT ![Desc[c].vid] = b] ELSE store
          /\ owned' = owned \ {b}
          /\ born' = [born EXCEPT ![c] = batch]
          /\ spent' = [spent EXCEPT ![c] = 0]
          /\ UNCHANGED <<strict, thrown, size, eval, batch>>

Read(c) ==
  /\ ~thrown
  /\ IF ReadThrows(Desc[c], slots[c]) THEN Throws
     ELSE /\ slots' = [slots EXCEPT ![c] = ReadSlot(Desc[c], slots[c])]
          /\ IF ReadExhausts(Desc[c], slots[c])
             THEN Discharge(c) /\ owned' = owned \cup {slots[c].val}
             ELSE UNCHANGED <<charged, live, owned>>
          /\ spent' = IF Desc[c].persistent THEN spent ELSE [spent EXCEPT ![c] = @ + 1]
          /\ UNCHANGED <<store, strict, thrown, size, eval, batch, born>>

Forgo(c, n) ==
  /\ ~thrown
  /\ IF ForgoThrows(Desc[c], slots[c], n) THEN Throws
     ELSE /\ slots' = [slots EXCEPT ![c] = ForgoSlot(Desc[c], slots[c], n)]
          /\ IF Held(c) /\ slots'[c].val = NoBuf THEN Discharge(c)
             ELSE UNCHANGED <<charged, live>>
          /\ spent' = IF Desc[c].persistent THEN spent ELSE [spent EXCEPT ![c] = @ + n]
          /\ UNCHANGED <<store, strict, thrown, size, owned, eval, batch, born>>

(* A batch of loop k begins.                                               *)
ClearBoundTo(k) ==
  /\ ~thrown /\ batch[k] < MaxBatch
  /\ batch' = [batch EXCEPT ![k] = @ + 1]
  /\ slots' = [c \in Ids |-> IF ClearedBy(Desc[c], k) THEN ClearSlot(slots[c]) ELSE slots[c]]
  /\ charged' = [c \in Ids |-> IF ClearedBy(Desc[c], k) THEN 0 ELSE charged[c]]
  /\ live' = live - MapThenSumSet(LAMBDA c : charged[c], {c \in Ids : ClearedBy(Desc[c], k)})
  /\ UNCHANGED <<store, strict, thrown, size, owned, eval, born, spent>>

(* The next evaluation: a new registry, and seed_persistent.               *)
(* Mutant: every form of a stored value is seeded.                         *)
SeededAnyForm(c) == store[Desc[c].vid] # NoBuf
Seeded(c) == Desc[c].persistent /\ store[Desc[c].vid] # NoBuf
NewRegistry ==
  /\ eval < MaxEvals
  /\ eval' = eval + 1
  /\ slots' = [c \in Ids |-> IF Seeded(c) THEN SetSlot(Desc[c], store[Desc[c].vid])
                             ELSE InitSlot(Desc[c])]
  /\ charged' = [c \in Ids |-> IF Seeded(c) THEN size[store[Desc[c].vid]] ELSE 0]
  /\ live' = TotalCharged(charged')
  /\ thrown' = FALSE
  /\ born' = [c \in Ids |-> batch]
  /\ spent' = [c \in Ids |-> 0]
  /\ UNCHANGED <<store, strict, size, owned, batch>>

Init ==
  /\ slots = [c \in Ids |-> InitSlot(Desc[c])]
  /\ charged = [c \in Ids |-> 0]
  /\ live = 0
  /\ store = [v \in Vids |-> NoBuf]
  /\ strict \in BOOLEAN
  /\ thrown = FALSE
  /\ size = [b \in Bufs |-> 1]
  /\ owned = {}
  /\ eval = 1
  /\ batch = [k \in Loops |-> 0]
  /\ born = [c \in Ids |-> batch]
  /\ spent = [c \in Ids |-> 0]

Next ==
  \/ \E b \in Bufs : NewBuffer(b) \/ Materialize(b) \/ DropBuffer(b)
  \/ \E c \in Ids, b \in Bufs : Set(c, b)
  \/ \E c \in Ids : Read(c)
  \/ \E c \in Ids : \E n \in 0 .. Desc[c].life + 1 : Forgo(c, n)
  \/ \E k \in Loops : ClearBoundTo(k)
  \/ NewRegistry

Spec == Init /\ [][Next]_vars

(***************************************************************************)
(* Properties.                                                             *)
(***************************************************************************)
(* The state is well typed.                                                *)
TypeOK ==
  /\ slots \in [Ids -> [val : Bufs \cup {NoBuf}, life : Nat, filled : BOOLEAN]]
  /\ charged \in [Ids -> Nat]
  /\ store \in [Vids -> Bufs \cup {NoBuf}]
  /\ strict \in BOOLEAN /\ thrown \in BOOLEAN
  /\ size \in [Bufs -> Nat] /\ owned \subseteq Bufs
  /\ eval \in Nat /\ batch \in [Loops -> Nat]
  /\ born \in [Ids -> [Loops -> Nat]]
  /\ spent \in [Ids -> Nat]

(* The ledger of a held non-persistent value is exact: the reads made and  *)
(* forgone since it was stored, and the reads left, are the reads the      *)
(* table declares; and it is still held only while reads are left (or none *)
(* was ever declared).                                                     *)
LedgerExact ==
  \A c \in Ids : Held(c) /\ ~Desc[c].persistent =>
    /\ slots[c].life + spent[c] = Desc[c].life
    /\ slots[c].life = 0 => Desc[c].life = 0

(* A cell bound to a loop never serves a value of an earlier batch of it.  *)
NoStaleBatch ==
  \A c \in Ids : Held(c) =>
    \A k \in BoundInstances(Desc[c]) \cap Loops : born[c][k] = batch[k]

(* A buffer an exhausting read hands over is the reader's alone, so that   *)
(* accumulating into it in place changes nothing another reader will see:  *)
(* no cell holds it and the store does not.                                *)
OwnedIsPrivate ==
  \A b \in owned : (\A c \in Ids : slots[c].val # b) /\ (\A v \in Vids : store[v] # b)

(* live_bytes is the sum of what the held values were charged when stored, *)
(* however they grew since, and nothing is charged for an empty slot.      *)
LiveBytesExact ==
  /\ live = TotalCharged(charged)
  /\ \A c \in Ids : ~Held(c) => charged[c] = 0

(* Within one evaluation a value leaves its cell only when the last of its *)
(* declared reads is spent, when a batch of a loop the cell lives in       *)
(* begins, or, with the fill-once check off, when another production       *)
(* overwrites it.                                                          *)
LivesIn(c, k) ==
  \/ k \in BoundInstances(Desc[c])
  \/ Desc[c].scope # << >> /\ Desc[c].scope[Len(Desc[c].scope)].key = k
ReleasedOnlyWhenDone ==
  [][\A c \in Ids :
       Held(c) /\ slots'[c].val # slots[c].val /\ eval' = eval =>
         \/ ~Desc[c].persistent /\ spent'[c] = Desc[c].life
         \/ \E k \in Loops : batch'[k] # batch[k] /\ LivesIn(c, k)
         \/ slots'[c].val # NoBuf /\ (~strict \/ Desc[c].persistent)]_vars

(* What OwnedIsPrivate needs to be inductive: buffers are not shared where *)
(* an exhausting read could hand one over.                                 *)
Unshared ==
  \A c \in Ids : Held(c) /\ ~Desc[c].persistent =>
    /\ \A d \in Ids \ {c} : slots[d].val # slots[c].val
    /\ \A v \in Vids : store[v] # slots[c].val
=============================================================================
