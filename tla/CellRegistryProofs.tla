------------------------- MODULE CellRegistryProofs -------------------------
(***************************************************************************)
(* Proofs about CellRegistry, for every table, every number of buffers and *)
(* every bound.                                                            *)
(***************************************************************************)
EXTENDS CellRegistry, FiniteSums, FiniteSetTheorems, TLAPS

Slot == [val : Bufs \cup {NoBuf}, life : Nat, filled : BOOLEAN]

(* What each registry operation does to one slot.                          *)
LEMMA SetSlotFacts ==
  ASSUME NEW c \in Ids, NEW b \in Bufs
  PROVE  /\ SetSlot(Desc[c], b) \in Slot
         /\ SetSlot(Desc[c], b).val = b
         /\ SetSlot(Desc[c], b).life = Desc[c].life
BY TableAssumption DEF SetSlot, Slot

LEMMA InitSlotFacts ==
  ASSUME NEW c \in Ids
  PROVE  InitSlot(Desc[c]) \in Slot /\ InitSlot(Desc[c]).val = NoBuf
BY TableAssumption DEF InitSlot, Slot

(* A read of a persistent cell changes nothing; another read spends one    *)
(* life, and takes the buffer out when that was the last.                  *)
LEMMA ReadSlotFacts ==
  ASSUME NEW c \in Ids, NEW s \in Slot, ~ReadThrows(Desc[c], s)
  PROVE  /\ ReadSlot(Desc[c], s) \in Slot
         /\ s.val \in Bufs
         /\ Desc[c].persistent => ReadSlot(Desc[c], s) = s
         /\ ~Desc[c].persistent => ReadSlot(Desc[c], s).life = s.life - 1
         /\ ReadExhausts(Desc[c], s) <=> ~Desc[c].persistent /\ s.life = 1
         /\ ReadExhausts(Desc[c], s) => ReadSlot(Desc[c], s).val = NoBuf
         /\ ~ReadExhausts(Desc[c], s) => ReadSlot(Desc[c], s).val = s.val
<1>1. Desc[c].persistent \in BOOLEAN /\ s.life \in Nat /\ s.val \in Bufs
  BY TableAssumption DEF Slot, ReadThrows
<1>2. CASE Desc[c].persistent
  BY <1>1, <1>2 DEF ReadSlot, ReadExhausts, Slot
<1>3. CASE ~Desc[c].persistent /\ s.life = 1
  BY <1>1, <1>3 DEF ReadSlot, ReadExhausts, Slot
<1>4. CASE ~Desc[c].persistent /\ s.life # 1
  BY <1>1, <1>4 DEF ReadSlot, ReadExhausts, Slot, ReadThrows
<1> QED BY <1>1, <1>2, <1>3, <1>4

(* Forgoing n reads spends n lives and releases the value at the last.     *)
LEMMA ForgoSlotFacts ==
  ASSUME NEW c \in Ids, NEW s \in Slot, NEW n \in Nat, ~ForgoThrows(Desc[c], s, n)
  PROVE  /\ ForgoSlot(Desc[c], s, n) \in Slot
         /\ Desc[c].persistent => ForgoSlot(Desc[c], s, n) = s
         /\ ~Desc[c].persistent => ForgoSlot(Desc[c], s, n).life = s.life - n
         /\ ForgoSlot(Desc[c], s, n).val \in {s.val, NoBuf}
         /\ ForgoSlot(Desc[c], s, n).val # s.val => ForgoSlot(Desc[c], s, n).life = 0
         /\ n > 0 /\ ForgoSlot(Desc[c], s, n).life = 0 /\ ~Desc[c].persistent
              => ForgoSlot(Desc[c], s, n).val = NoBuf
<1>1. Desc[c].persistent \in BOOLEAN /\ s.life \in Nat
  BY TableAssumption DEF Slot
<1>2. CASE n = 0 \/ Desc[c].persistent
  BY <1>1, <1>2 DEF ForgoSlot, Slot
<1>3. CASE n # 0 /\ ~Desc[c].persistent /\ n = s.life
  BY <1>1, <1>3 DEF ForgoSlot, Slot
<1>4. CASE n # 0 /\ ~Desc[c].persistent /\ n # s.life
  BY <1>1, <1>4 DEF ForgoSlot, Slot, ForgoThrows
<1> QED BY <1>1, <1>2, <1>3, <1>4

LEMMA ClearSlotFacts ==
  ASSUME NEW s \in Slot
  PROVE  ClearSlot(s) \in Slot /\ ClearSlot(s).val = NoBuf
BY DEF ClearSlot, Slot

(***************************************************************************)
(* Type correctness.                                                       *)
(***************************************************************************)
LEMMA TypeInit == Init => TypeOK
<1> SUFFICES ASSUME Init PROVE TypeOK
  OBVIOUS
<1>1. slots \in [Ids -> Slot]
  BY InitSlotFacts DEF Init
<1> QED BY <1>1 DEF Init, TypeOK, Slot

LEMMA TypeNext == TypeOK /\ [Next]_vars => TypeOK'
<1> SUFFICES ASSUME TypeOK, [Next]_vars PROVE TypeOK'
  OBVIOUS
<1>0. slots \in [Ids -> Slot]
  BY DEF TypeOK, Slot
<1>1. ASSUME NEW b \in Bufs, NewBuffer(b) \/ Materialize(b) \/ DropBuffer(b)
      PROVE TypeOK'
  BY <1>1, BoundAssumption DEF TypeOK, NewBuffer, Materialize, DropBuffer
<1>2. ASSUME NEW c \in Ids, NEW b \in Bufs, Set(c, b) PROVE TypeOK'
  <2>1. CASE strict /\ SetThrows(Desc[c], slots[c])
    BY <1>2, <2>1 DEF TypeOK, Set, Throws
  <2>2. CASE ~(strict /\ SetThrows(Desc[c], slots[c]))
    <3>1. slots' \in [Ids -> Slot]
      BY <1>0, <1>2, <2>2, SetSlotFacts DEF Set
    <3>2. charged' \in [Ids -> Nat]
      BY <1>2, <2>2 DEF TypeOK, Set, Recharge
    <3>3. store' \in [Vids -> Bufs \cup {NoBuf}]
      BY <1>2, <2>2, TableAssumption DEF TypeOK, Set
    <3>4. born' \in [Ids -> [Loops -> Nat]]
      BY <1>2, <2>2 DEF TypeOK, Set
    <3>5. spent' \in [Ids -> Nat]
      <4>1. spent' = [spent EXCEPT ![c] = 0]
        BY <1>2, <2>2, Zenon DEF Set
      <4> QED BY <4>1 DEF TypeOK
    <3>6. owned' \subseteq Bufs
      BY <1>2, <2>2 DEF TypeOK, Set
    <3>7. UNCHANGED <<strict, thrown, size, eval, batch>>
      BY <1>2, <2>2, Zenon DEF Set
    <3> QED BY <3>1, <3>2, <3>3, <3>4, <3>5, <3>6, <3>7 DEF TypeOK, Slot
  <2> QED BY <2>1, <2>2
<1>3. ASSUME NEW c \in Ids, Read(c) PROVE TypeOK'
  <2>1. CASE ReadThrows(Desc[c], slots[c])
    BY <1>3, <2>1 DEF TypeOK, Read, Throws
  <2>2. CASE ~ReadThrows(Desc[c], slots[c])
    <3>1. slots' \in [Ids -> Slot] /\ slots[c].val \in Bufs
      BY <1>0, <1>3, <2>2, ReadSlotFacts DEF Read
    <3>2. charged' \in [Ids -> Nat] /\ owned' \subseteq Bufs
      BY <1>3, <2>2, <3>1 DEF TypeOK, Read, Discharge, Recharge
    <3>3. spent' \in [Ids -> Nat]
      BY <1>3, <2>2 DEF TypeOK, Read
    <3> QED BY <1>3, <2>2, <3>1, <3>2, <3>3 DEF TypeOK, Read, Slot
  <2> QED BY <2>1, <2>2
<1>4. ASSUME NEW c \in Ids, NEW n \in 0 .. Desc[c].life + 1, Forgo(c, n) PROVE TypeOK'
  <2>0. n \in Nat
    BY TableAssumption
  <2>1. CASE ForgoThrows(Desc[c], slots[c], n)
    BY <1>4, <2>1 DEF TypeOK, Forgo, Throws
  <2>2. CASE ~ForgoThrows(Desc[c], slots[c], n)
    <3>1. slots' \in [Ids -> Slot]
      BY <1>0, <1>4, <2>0, <2>2, ForgoSlotFacts DEF Forgo
    <3>2. charged' \in [Ids -> Nat]
      BY <1>4, <2>2 DEF TypeOK, Forgo, Discharge, Recharge
    <3>3. spent' \in [Ids -> Nat]
      BY <1>4, <2>0, <2>2 DEF TypeOK, Forgo
    <3> QED BY <1>4, <2>2, <3>1, <3>2, <3>3 DEF TypeOK, Forgo, Slot
  <2> QED BY <2>1, <2>2
<1>5. ASSUME NEW k \in Loops, ClearBoundTo(k) PROVE TypeOK'
  <2>1. slots' \in [Ids -> Slot]
    BY <1>0, <1>5, ClearSlotFacts DEF ClearBoundTo
  <2>2. charged' \in [Ids -> Nat] /\ batch' \in [Loops -> Nat]
    BY <1>5 DEF TypeOK, ClearBoundTo
  <2> QED BY <1>5, <2>1, <2>2 DEF TypeOK, ClearBoundTo, Slot
<1>6. ASSUME NewRegistry PROVE TypeOK'
  <2>1. \A c \in Ids : Seeded(c) => store[Desc[c].vid] \in Bufs
    BY TableAssumption DEF Seeded, TypeOK
  <2>2. slots' \in [Ids -> Slot]
    BY <1>6, <2>1, SetSlotFacts, InitSlotFacts DEF NewRegistry
  <2>3. charged' \in [Ids -> Nat]
    BY <1>6, <2>1 DEF NewRegistry, TypeOK
  <2>4. born' \in [Ids -> [Loops -> Nat]] /\ spent' \in [Ids -> Nat]
    BY <1>6 DEF NewRegistry, TypeOK
  <2>5. eval' \in Nat
    BY <1>6 DEF NewRegistry, TypeOK
  <2>6. thrown' = FALSE /\ UNCHANGED <<store, strict, size, owned, batch>>
    BY <1>6 DEF NewRegistry
  <2> QED BY <2>2, <2>3, <2>4, <2>5, <2>6 DEF TypeOK, Slot
<1>7. CASE UNCHANGED vars
  BY <1>7 DEF TypeOK, vars
<1> QED BY <1>1, <1>2, <1>3, <1>4, <1>5, <1>6, <1>7 DEF Next

(* Whatever the client does, the registry's state stays well typed.        *)
THEOREM TypeCorrect == Spec => []TypeOK
<1>1. Init => TypeOK
  BY TypeInit
<1>2. TypeOK /\ [Next]_vars => TypeOK'
  BY TypeNext
<1> QED BY <1>1, <1>2, PTL DEF Spec

(***************************************************************************)
(* The ledger.  HeldIsFilled strengthens it for ReleasedOnlyWhenDone: a    *)
(* cell holding a value always bears the fill-once mark, so with the check *)
(* on nothing can overwrite it.                                            *)
(***************************************************************************)
HeldIsFilled == \A c \in Ids : Held(c) => slots[c].filled
LedgerInv == TypeOK /\ LedgerExact /\ HeldIsFilled

(* What the ledger says of one cell.                                       *)
LedgerOf(c) ==
  Held(c) =>
    /\ slots[c].filled
    /\ ~Desc[c].persistent => /\ slots[c].life + spent[c] = Desc[c].life
                              /\ slots[c].life = 0 => Desc[c].life = 0

(* The ledger is kept cell by cell.                                        *)
LEMMA LedgerByCell == LedgerExact /\ HeldIsFilled <=> \A c \in Ids : LedgerOf(c)
BY DEF LedgerExact, HeldIsFilled, LedgerOf

(* In the initial state no cell holds a value.                             *)
LEMMA LedgerInit == Init => LedgerInv
<1> SUFFICES ASSUME Init PROVE LedgerInv
  OBVIOUS
<1>1. \A c \in Ids : ~Held(c)
  BY InitSlotFacts DEF Init, Held
<1> QED BY <1>1, TypeInit, LedgerByCell DEF LedgerInv, LedgerOf

(* Every operation keeps the ledger of every cell.                         *)
LEMMA LedgerNext == LedgerInv /\ [Next]_vars => LedgerInv'
<1> SUFFICES ASSUME LedgerInv, [Next]_vars PROVE \A d \in Ids : LedgerOf(d)'
  BY TypeNext, LedgerByCell DEF LedgerInv, LedgerExact, HeldIsFilled, LedgerOf, Held
<1> TAKE d \in Ids
<1>0. /\ slots \in [Ids -> Slot] /\ spent \in [Ids -> Nat]
      /\ LedgerOf(d) /\ Desc[d].persistent \in BOOLEAN /\ Desc[d].life \in Nat
  BY LedgerByCell, TableAssumption DEF LedgerInv, TypeOK, Slot
<1>1. ASSUME UNCHANGED <<slots, spent>> PROVE LedgerOf(d)'
  BY <1>0, <1>1 DEF LedgerOf, Held
<1>2. ASSUME NEW b \in Bufs, NewBuffer(b) \/ Materialize(b) \/ DropBuffer(b)
      PROVE LedgerOf(d)'
  BY <1>1, <1>2 DEF NewBuffer, Materialize, DropBuffer
<1>3. ASSUME NEW c \in Ids, NEW b \in Bufs, Set(c, b) PROVE LedgerOf(d)'
  <2>1. CASE strict /\ SetThrows(Desc[c], slots[c])
    BY <1>1, <1>3, <2>1 DEF Set, Throws
  <2>2. CASE ~(strict /\ SetThrows(Desc[c], slots[c]))
    <3>1. slots' = [slots EXCEPT ![c] = SetSlot(Desc[c], b)]
      BY <1>3, <2>2, Zenon DEF Set
    <3>2. spent' = [spent EXCEPT ![c] = 0]
      BY <1>3, <2>2, Zenon DEF Set
    <3> QED BY <1>0, <3>1, <3>2 DEF LedgerOf, Held, SetSlot
  <2> QED BY <2>1, <2>2
<1>4. ASSUME NEW c \in Ids, Read(c) PROVE LedgerOf(d)'
  <2>1. CASE ReadThrows(Desc[c], slots[c])
    BY <1>1, <1>4, <2>1 DEF Read, Throws
  <2>2. CASE ~ReadThrows(Desc[c], slots[c])
    <3>1. slots' = [slots EXCEPT ![c] = ReadSlot(Desc[c], slots[c])]
      BY <1>4, <2>2, Zenon DEF Read
    <3>2. spent' = IF Desc[c].persistent THEN spent ELSE [spent EXCEPT ![c] = @ + 1]
      BY <1>4, <2>2, Zenon DEF Read
    <3>3. CASE d # c
      BY <1>0, <3>1, <3>2, <3>3 DEF LedgerOf, Held
    <3>4. CASE d = c
      <4>1. slots'[d] = ReadSlot(Desc[d], slots[d]) /\ slots[d] \in Slot
        BY <1>0, <3>1, <3>4
      <4>2. ~Desc[d].persistent => spent'[d] = spent[d] + 1
        BY <1>0, <3>2, <3>4
      <4>3. ~ReadThrows(Desc[d], slots[d])
        BY <2>2, <3>4
      <4> QED
        BY <1>0, <4>1, <4>2, <4>3
        DEF LedgerOf, Held, Slot, ReadSlot, ReadExhausts, ReadThrows
    <3> QED BY <3>3, <3>4
  <2> QED BY <2>1, <2>2
<1>5. ASSUME NEW c \in Ids, NEW n \in 0 .. Desc[c].life + 1, Forgo(c, n)
      PROVE LedgerOf(d)'
  <2>0. n \in Nat
    BY TableAssumption
  <2>1. CASE ForgoThrows(Desc[c], slots[c], n)
    BY <1>1, <1>5, <2>1 DEF Forgo, Throws
  <2>2. CASE ~ForgoThrows(Desc[c], slots[c], n)
    <3>1. slots' = [slots EXCEPT ![c] = ForgoSlot(Desc[c], slots[c], n)]
      BY <1>5, <2>2, Zenon DEF Forgo
    <3>2. spent' = IF Desc[c].persistent THEN spent ELSE [spent EXCEPT ![c] = @ + n]
      BY <1>5, <2>2, Zenon DEF Forgo
    <3>3. CASE d # c
      BY <1>0, <3>1, <3>2, <3>3 DEF LedgerOf, Held
    <3>4. CASE d = c
      <4>1. slots'[d] = ForgoSlot(Desc[d], slots[d], n) /\ slots[d] \in Slot
        BY <1>0, <3>1, <3>4
      <4>2. ~Desc[d].persistent => spent'[d] = spent[d] + n
        BY <1>0, <3>2, <3>4
      <4>3. ~ForgoThrows(Desc[d], slots[d], n)
        BY <2>2, <3>4
      <4> QED
        BY <1>0, <2>0, <4>1, <4>2, <4>3 DEF LedgerOf, Held, Slot, ForgoSlot, ForgoThrows
    <3> QED BY <3>3, <3>4
  <2> QED BY <2>1, <2>2
<1>6. ASSUME NEW k \in Loops, ClearBoundTo(k) PROVE LedgerOf(d)'
  <2>1. slots'[d] \in {ClearSlot(slots[d]), slots[d]} /\ spent' = spent
    BY <1>0, <1>6 DEF ClearBoundTo
  <2> QED BY <1>0, <2>1, ClearSlotFacts DEF LedgerOf, Held
<1>7. ASSUME NewRegistry PROVE LedgerOf(d)'
  <2>1. slots'[d] = IF Seeded(d) THEN SetSlot(Desc[d], store[Desc[d].vid])
                    ELSE InitSlot(Desc[d])
    BY <1>7 DEF NewRegistry
  <2> QED BY <1>0, <2>1 DEF LedgerOf, Held, Seeded, SetSlot, InitSlot
<1>8. CASE UNCHANGED vars
  BY <1>1, <1>8 DEF vars
<1> QED BY <1>2, <1>3, <1>4, <1>5, <1>6, <1>7, <1>8 DEF Next

(* The reads made and forgone of a held value, and the reads left of it,   *)
(* always add up to the reads the table declares of its cell.              *)
THEOREM LedgerCorrect == Spec => []LedgerExact
<1>1. Init => LedgerInv
  BY LedgerInit
<1>2. LedgerInv /\ [Next]_vars => LedgerInv'
  BY LedgerNext
<1>3. LedgerInv => LedgerExact
  BY DEF LedgerInv
<1> QED BY <1>1, <1>2, <1>3, PTL DEF Spec

(***************************************************************************)
(* No value outlives the batch it was computed in.                         *)
(***************************************************************************)
BatchInv == TypeOK /\ NoStaleBatch

(* What NoStaleBatch says of one cell.                                     *)
FreshIn(c) == Held(c) => \A k \in BoundInstances(Desc[c]) \cap Loops : born[c][k] = batch[k]

(* A batch of a loop empties every cell bound to it: none of those is      *)
(* persistent.                                                             *)
LEMMA BoundIsCleared ==
  ASSUME NEW c \in Ids, NEW k \in BoundInstances(Desc[c])
  PROVE  ClearedBy(Desc[c], k)
BY TableAssumption DEF ClearedBy

(* Every operation keeps every held value in the current batch.            *)
LEMMA BatchNext == BatchInv /\ [Next]_vars => BatchInv'
<1> SUFFICES ASSUME BatchInv, [Next]_vars, NEW d \in Ids PROVE FreshIn(d)'
  BY TypeNext DEF BatchInv, NoStaleBatch, FreshIn, Held
<1>0. /\ slots \in [Ids -> Slot] /\ born \in [Ids -> [Loops -> Nat]]
      /\ batch \in [Loops -> Nat] /\ FreshIn(d)
  BY DEF BatchInv, NoStaleBatch, FreshIn, TypeOK, Slot
<1>1. ASSUME UNCHANGED <<slots, born, batch>> PROVE FreshIn(d)'
  BY <1>0, <1>1 DEF FreshIn, Held
<1>2. ASSUME NEW b \in Bufs, NewBuffer(b) \/ Materialize(b) \/ DropBuffer(b)
      PROVE FreshIn(d)'
  BY <1>1, <1>2 DEF NewBuffer, Materialize, DropBuffer
<1>3. ASSUME NEW c \in Ids, NEW b \in Bufs, Set(c, b) PROVE FreshIn(d)'
  <2>1. CASE strict /\ SetThrows(Desc[c], slots[c])
    BY <1>1, <1>3, <2>1 DEF Set, Throws
  <2>2. CASE ~(strict /\ SetThrows(Desc[c], slots[c]))
    <3>1. slots' = [slots EXCEPT ![c] = SetSlot(Desc[c], b)]
      BY <1>3, <2>2, Zenon DEF Set
    <3>2. born' = [born EXCEPT ![c] = batch] /\ batch' = batch
      BY <1>3, <2>2, Zenon DEF Set
    <3> QED BY <1>0, <3>1, <3>2 DEF FreshIn, Held
  <2> QED BY <2>1, <2>2
<1>4. ASSUME NEW c \in Ids, Read(c) PROVE FreshIn(d)'
  <2>1. CASE ReadThrows(Desc[c], slots[c])
    BY <1>1, <1>4, <2>1 DEF Read, Throws
  <2>2. CASE ~ReadThrows(Desc[c], slots[c])
    <3>1. slots' = [slots EXCEPT ![c] = ReadSlot(Desc[c], slots[c])]
      BY <1>4, <2>2, Zenon DEF Read
    <3>2. born' = born /\ batch' = batch
      BY <1>4, <2>2, Zenon DEF Read
    <3>3. slots'[d].val \in {slots[d].val, NoBuf}
      BY <1>0, <2>2, <3>1, ReadSlotFacts
    <3> QED BY <1>0, <3>2, <3>3 DEF FreshIn, Held
  <2> QED BY <2>1, <2>2
<1>5. ASSUME NEW c \in Ids, NEW n \in 0 .. Desc[c].life + 1, Forgo(c, n)
      PROVE FreshIn(d)'
  <2>0. n \in Nat
    BY TableAssumption
  <2>1. CASE ForgoThrows(Desc[c], slots[c], n)
    BY <1>1, <1>5, <2>1 DEF Forgo, Throws
  <2>2. CASE ~ForgoThrows(Desc[c], slots[c], n)
    <3>1. slots' = [slots EXCEPT ![c] = ForgoSlot(Desc[c], slots[c], n)]
      BY <1>5, <2>2, Zenon DEF Forgo
    <3>2. born' = born /\ batch' = batch
      BY <1>5, <2>2, Zenon DEF Forgo
    <3>3. slots'[d].val \in {slots[d].val, NoBuf}
      BY <1>0, <2>0, <2>2, <3>1, ForgoSlotFacts
    <3> QED BY <1>0, <3>2, <3>3 DEF FreshIn, Held
  <2> QED BY <2>1, <2>2
<1>6. ASSUME NEW k \in Loops, ClearBoundTo(k) PROVE FreshIn(d)'
  <2>1. /\ slots'[d] = IF ClearedBy(Desc[d], k) THEN ClearSlot(slots[d]) ELSE slots[d]
        /\ batch' = [batch EXCEPT ![k] = @ + 1] /\ born' = born
    BY <1>6 DEF ClearBoundTo
  <2>2. CASE k \in BoundInstances(Desc[d])
    <3>1. ClearedBy(Desc[d], k)
      BY <2>2, BoundIsCleared
    <3>2. slots'[d].val = NoBuf
      BY <1>0, <2>1, <3>1, ClearSlotFacts
    <3> QED BY <3>2 DEF FreshIn, Held
  <2>3. CASE k \notin BoundInstances(Desc[d])
    <3>1. slots'[d].val \in {slots[d].val, NoBuf}
      BY <1>0, <2>1, ClearSlotFacts
    <3> QED BY <1>0, <2>1, <2>3, <3>1 DEF FreshIn, Held
  <2> QED BY <2>2, <2>3
<1>7. ASSUME NewRegistry PROVE FreshIn(d)'
  <2>1. born'[d] = batch'
    BY <1>7 DEF NewRegistry
  <2> QED BY <2>1 DEF FreshIn
<1>8. CASE UNCHANGED vars
  BY <1>1, <1>8 DEF vars
<1> QED BY <1>2, <1>3, <1>4, <1>5, <1>6, <1>7, <1>8 DEF Next, BatchInv

(* Clearing at the start of a batch is enough: no cell bound to a loop     *)
(* ever serves a value of an earlier batch.                                *)
THEOREM NoStaleBatchCorrect == Spec => []NoStaleBatch
<1>1. Init => BatchInv
  <2> SUFFICES ASSUME Init, NEW c \in Ids PROVE ~Held(c)
    BY TypeInit DEF BatchInv, NoStaleBatch
  <2> QED BY InitSlotFacts DEF Init, Held
<1>2. BatchInv /\ [Next]_vars => BatchInv'
  BY BatchNext
<1>3. BatchInv => NoStaleBatch
  BY DEF BatchInv
<1> QED BY <1>1, <1>2, <1>3, PTL DEF Spec

(***************************************************************************)
(* Ownership.  OwnedIsPrivate is not inductive: that a read may hand its   *)
(* buffer over needs that nothing else holds the buffer, which is Unshared.*)
(***************************************************************************)
OwnershipInv == TypeOK /\ OwnedIsPrivate /\ Unshared

(* Initially the client owns nothing and no cell holds anything.           *)
LEMMA OwnershipInit == Init => OwnershipInv
<1> SUFFICES ASSUME Init PROVE OwnershipInv
  OBVIOUS
<1>1. owned = {} /\ \A c \in Ids : ~Held(c)
  BY InitSlotFacts DEF Init, Held
<1> QED BY <1>1, TypeInit DEF OwnershipInv, OwnedIsPrivate, Unshared

(* A step that stores nothing keeps both, when what it hands over comes    *)
(* from no cell and no store entry afterwards.                             *)
LEMMA OwnershipByRelease ==
  ASSUME OwnershipInv,
         \A c \in Ids : slots'[c].val \in {slots[c].val, NoBuf},
         store' = store, owned' \subseteq Bufs,
         \A b \in owned' \ owned : /\ \A c \in Ids : slots'[c].val # b
                                   /\ \A v \in Vids : store[v] # b
  PROVE  OwnedIsPrivate' /\ Unshared'
<1>1. OwnedIsPrivate'
  BY BufAssumption DEF OwnershipInv, OwnedIsPrivate, TypeOK
<1>2. Unshared'
  BY DEF OwnershipInv, Unshared, Held
<1> QED BY <1>1, <1>2

(* Storing a buffer the client owns gives it up.                           *)
LEMMA OwnershipBySet ==
  ASSUME OwnershipInv, NEW c \in Ids, NEW b \in owned,
         slots' = [slots EXCEPT ![c] = SetSlot(Desc[c], b)],
         owned' = owned \ {b},
         store' = IF Desc[c].persistent THEN [store EXCEPT ![Desc[c].vid] = b] ELSE store
  PROVE  OwnedIsPrivate' /\ Unshared'
<1>0. /\ slots \in [Ids -> Slot] /\ store \in [Vids -> Bufs \cup {NoBuf}]
      /\ b \in Bufs /\ b # NoBuf
  BY BufAssumption DEF OwnershipInv, TypeOK, Slot
<1>1. slots'[c].val = b /\ \A d \in Ids \ {c} : slots'[d] = slots[d]
  BY <1>0, SetSlotFacts
<1>2. \A v \in Vids : store'[v] = store[v] \/ (Desc[c].persistent /\ store'[v] = b)
  BY <1>0
<1>3. \A d \in Ids : slots[d].val # b
  BY DEF OwnershipInv, OwnedIsPrivate
<1>4. \A v \in Vids : store[v] # b
  BY DEF OwnershipInv, OwnedIsPrivate
<1>5. OwnedIsPrivate'
  BY <1>1, <1>2 DEF OwnershipInv, OwnedIsPrivate
<1>6. Unshared'
  <2> SUFFICES ASSUME NEW e \in Ids, slots'[e].val # NoBuf, ~Desc[e].persistent
               PROVE /\ \A d \in Ids \ {e} : slots'[d].val # slots'[e].val
                     /\ \A v \in Vids : store'[v] # slots'[e].val
    BY DEF Unshared, Held
  <2>1. CASE e = c
    BY <1>1, <1>2, <1>3, <1>4, <2>1
  <2>2. CASE e # c
    <3>1. slots'[e].val = slots[e].val /\ slots[e].val # b
      BY <1>1, <1>3, <2>2
    <3>2. /\ \A d \in Ids \ {e} : slots[d].val # slots[e].val
          /\ \A v \in Vids : store[v] # slots[e].val
      BY <3>1 DEF OwnershipInv, Unshared, Held
    <3> QED BY <1>1, <1>2, <3>1, <3>2
  <2> QED BY <2>1, <2>2
<1> QED BY <1>5, <1>6

(* Every operation keeps both.                                             *)
LEMMA OwnershipNext == OwnershipInv /\ [Next]_vars => OwnershipInv'
<1> SUFFICES ASSUME OwnershipInv, [Next]_vars PROVE OwnedIsPrivate' /\ Unshared'
  BY TypeNext DEF OwnershipInv
<1>0. /\ slots \in [Ids -> Slot] /\ owned \subseteq Bufs
      /\ store \in [Vids -> Bufs \cup {NoBuf}]
  BY DEF OwnershipInv, TypeOK, Slot
<1>1. ASSUME UNCHANGED <<slots, store, owned>> PROVE OwnedIsPrivate' /\ Unshared'
  BY <1>0, <1>1, OwnershipByRelease
<1>2. ASSUME NEW b \in Bufs, NewBuffer(b) PROVE OwnedIsPrivate' /\ Unshared'
  BY <1>0, <1>2, OwnershipByRelease DEF NewBuffer, InUse
<1>3. ASSUME NEW b \in Bufs, Materialize(b) PROVE OwnedIsPrivate' /\ Unshared'
  BY <1>1, <1>3 DEF Materialize
<1>4. ASSUME NEW b \in Bufs, DropBuffer(b) PROVE OwnedIsPrivate' /\ Unshared'
  BY <1>0, <1>4, OwnershipByRelease DEF DropBuffer
<1>5. ASSUME NEW c \in Ids, NEW b \in Bufs, Set(c, b) PROVE OwnedIsPrivate' /\ Unshared'
  <2>1. CASE strict /\ SetThrows(Desc[c], slots[c])
    BY <1>1, <1>5, <2>1 DEF Set, Throws
  <2>2. CASE ~(strict /\ SetThrows(Desc[c], slots[c]))
    <3>1. slots' = [slots EXCEPT ![c] = SetSlot(Desc[c], b)] /\ b \in owned
      BY <1>5, <2>2, Zenon DEF Set
    <3>2. owned' = owned \ {b}
      BY <1>5, <2>2, Zenon DEF Set
    <3>3. store' = IF Desc[c].persistent THEN [store EXCEPT ![Desc[c].vid] = b] ELSE store
      BY <1>5, <2>2, Zenon DEF Set
    <3> QED BY <3>1, <3>2, <3>3, OwnershipBySet
  <2> QED BY <2>1, <2>2
<1>6. ASSUME NEW c \in Ids, Read(c) PROVE OwnedIsPrivate' /\ Unshared'
  <2>1. CASE ReadThrows(Desc[c], slots[c])
    BY <1>1, <1>6, <2>1 DEF Read, Throws
  <2>2. CASE ~ReadThrows(Desc[c], slots[c])
    <3>1. slots' = [slots EXCEPT ![c] = ReadSlot(Desc[c], slots[c])] /\ store' = store
      BY <1>6, <2>2, Zenon DEF Read
    <3>2. slots[c].val \in Bufs /\ \A d \in Ids : slots'[d].val \in {slots[d].val, NoBuf}
      BY <1>0, <2>2, <3>1, ReadSlotFacts
    <3>3. CASE ~ReadExhausts(Desc[c], slots[c])
      BY <1>0, <1>6, <2>2, <3>1, <3>2, <3>3, OwnershipByRelease DEF Read
    <3>4. CASE ReadExhausts(Desc[c], slots[c])
      <4>1. owned' = owned \cup {slots[c].val}
        BY <1>6, <2>2, <3>4, Zenon DEF Read
      <4>2. slots'[c].val = NoBuf /\ ~Desc[c].persistent /\ Held(c)
        BY <1>0, <2>2, <3>1, <3>2, <3>4, ReadSlotFacts, BufAssumption DEF Held, ReadExhausts
      <4>3. /\ \A d \in Ids \ {c} : slots[d].val # slots[c].val
            /\ \A v \in Vids : store[v] # slots[c].val
        BY <4>2 DEF OwnershipInv, Unshared
      <4>4. \A d \in Ids : slots'[d].val # slots[c].val
        BY <3>2, <4>2, <4>3, BufAssumption
      <4> QED BY <1>0, <3>1, <3>2, <4>1, <4>3, <4>4, OwnershipByRelease
    <3> QED BY <3>3, <3>4
  <2> QED BY <2>1, <2>2
<1>7. ASSUME NEW c \in Ids, NEW n \in 0 .. Desc[c].life + 1, Forgo(c, n)
      PROVE OwnedIsPrivate' /\ Unshared'
  <2>0. n \in Nat
    BY TableAssumption
  <2>1. CASE ForgoThrows(Desc[c], slots[c], n)
    BY <1>1, <1>7, <2>1 DEF Forgo, Throws
  <2>2. CASE ~ForgoThrows(Desc[c], slots[c], n)
    <3>1. slots' = [slots EXCEPT ![c] = ForgoSlot(Desc[c], slots[c], n)]
      BY <1>7, <2>2, Zenon DEF Forgo
    <3>2. store' = store /\ owned' = owned
      BY <1>7, <2>2, Zenon DEF Forgo
    <3>3. \A d \in Ids : slots'[d].val \in {slots[d].val, NoBuf}
      BY <1>0, <2>0, <2>2, <3>1, ForgoSlotFacts
    <3> QED BY <1>0, <3>2, <3>3, OwnershipByRelease
  <2> QED BY <2>1, <2>2
<1>8. ASSUME NEW k \in Loops, ClearBoundTo(k) PROVE OwnedIsPrivate' /\ Unshared'
  <2>1. store' = store /\ owned' = owned
    BY <1>8 DEF ClearBoundTo
  <2>2. \A d \in Ids : slots'[d] = ClearSlot(slots[d]) \/ slots'[d] = slots[d]
    <3>1. slots' = [c \in Ids |-> IF ClearedBy(Desc[c], k) THEN ClearSlot(slots[c])
                                  ELSE slots[c]]
      BY <1>8, Zenon DEF ClearBoundTo
    <3> QED BY <3>1
  <2>3. \A d \in Ids : slots'[d].val \in {slots[d].val, NoBuf}
    BY <1>0, <2>2, ClearSlotFacts
  <2> QED BY <1>0, <2>1, <2>3, OwnershipByRelease
<1>9. ASSUME NewRegistry PROVE OwnedIsPrivate' /\ Unshared'
  <2>1. store' = store /\ owned' = owned
    BY <1>9 DEF NewRegistry
  <2>2. \A d \in Ids : slots'[d] = IF Seeded(d) THEN SetSlot(Desc[d], store[Desc[d].vid])
                                   ELSE InitSlot(Desc[d])
    BY <1>9 DEF NewRegistry
  <2>3. \A d \in Ids : slots'[d].val = NoBuf
                       \/ (Desc[d].persistent /\ \E v \in Vids : slots'[d].val = store[v])
    <3> SUFFICES ASSUME NEW d \in Ids
                 PROVE slots'[d].val = NoBuf
                       \/ (Desc[d].persistent /\ \E v \in Vids : slots'[d].val = store[v])
      OBVIOUS
    <3>1. CASE Seeded(d)
      <4>1. Desc[d].vid \in Vids /\ Desc[d].persistent
        BY <3>1, TableAssumption DEF Seeded
      <4>2. slots'[d].val = store[Desc[d].vid]
        <5>1. slots'[d] = SetSlot(Desc[d], store[Desc[d].vid])
          BY <2>2, <3>1
        <5> QED BY <5>1 DEF SetSlot
      <4> QED BY <4>1, <4>2
    <3>2. CASE ~Seeded(d)
      <4>1. slots'[d] = InitSlot(Desc[d])
        BY <2>2, <3>2
      <4> QED BY <4>1, InitSlotFacts
    <3> QED BY <3>1, <3>2
  <2>4. OwnedIsPrivate'
    BY <1>0, <2>1, <2>3, BufAssumption DEF OwnershipInv, OwnedIsPrivate
  <2>5. Unshared'
    BY <2>3 DEF Unshared, Held
  <2> QED BY <2>4, <2>5
<1>10. CASE UNCHANGED vars
  BY <1>1, <1>10 DEF vars
<1> QED BY <1>2, <1>3, <1>4, <1>5, <1>6, <1>7, <1>8, <1>9, <1>10 DEF Next

(* A buffer an exhausting read hands over is the reader's alone.           *)
THEOREM OwnershipCorrect == Spec => []OwnedIsPrivate
<1>1. Init => OwnershipInv
  BY OwnershipInit
<1>2. OwnershipInv /\ [Next]_vars => OwnershipInv'
  BY OwnershipNext
<1>3. OwnershipInv => OwnedIsPrivate
  BY DEF OwnershipInv
<1> QED BY <1>1, <1>2, <1>3, PTL DEF Spec

(***************************************************************************)
(* Why a value may leave its cell.                                         *)
(***************************************************************************)
Releasable(c) ==
  Held(c) /\ slots'[c].val # slots[c].val /\ eval' = eval =>
    \/ ~Desc[c].persistent /\ spent'[c] = Desc[c].life
    \/ \E k \in Loops : batch'[k] # batch[k] /\ LivesIn(c, k)
    \/ slots'[c].val # NoBuf /\ (~strict \/ Desc[c].persistent)

(* The ledger decides it: a value taken at the last life has had all its   *)
(* declared reads, and a marked slot is not overwritten.                   *)
LEMMA ReleaseStep == LedgerInv /\ [Next]_vars => \A d \in Ids : Releasable(d)
<1> SUFFICES ASSUME LedgerInv, [Next]_vars, NEW d \in Ids PROVE Releasable(d)
  OBVIOUS
<1>0. /\ slots \in [Ids -> Slot] /\ spent \in [Ids -> Nat] /\ batch \in [Loops -> Nat]
      /\ LedgerOf(d) /\ Desc[d].persistent \in BOOLEAN /\ Desc[d].life \in Nat
      /\ eval \in Nat
  BY LedgerByCell, TableAssumption DEF LedgerInv, TypeOK, Slot
<1>1. ASSUME slots'[d].val = slots[d].val PROVE Releasable(d)
  BY <1>1 DEF Releasable
<1>2. ASSUME NEW b \in Bufs, NewBuffer(b) \/ Materialize(b) \/ DropBuffer(b)
      PROVE Releasable(d)
  BY <1>1, <1>2 DEF NewBuffer, Materialize, DropBuffer
<1>3. ASSUME NEW c \in Ids, NEW b \in Bufs, Set(c, b) PROVE Releasable(d)
  <2>1. CASE strict /\ SetThrows(Desc[c], slots[c])
    BY <1>1, <1>3, <2>1 DEF Set, Throws
  <2>2. CASE ~(strict /\ SetThrows(Desc[c], slots[c]))
    <3>1. slots' = [slots EXCEPT ![c] = SetSlot(Desc[c], b)]
      BY <1>3, <2>2, Zenon DEF Set
    <3>2. CASE d # c
      BY <1>0, <1>1, <3>1, <3>2
    <3>3. CASE d = c
      <4>1. slots'[d].val = b /\ b # NoBuf
        BY <1>0, <3>1, <3>3, SetSlotFacts, BufAssumption
      <4>2. Held(d) => ~strict \/ Desc[d].persistent
        BY <1>0, <2>2, <3>3 DEF LedgerOf, SetThrows
      <4> QED BY <4>1, <4>2 DEF Releasable
    <3> QED BY <3>2, <3>3
  <2> QED BY <2>1, <2>2
<1>4. ASSUME NEW c \in Ids, Read(c) PROVE Releasable(d)
  <2>1. CASE ReadThrows(Desc[c], slots[c])
    BY <1>1, <1>4, <2>1 DEF Read, Throws
  <2>2. CASE ~ReadThrows(Desc[c], slots[c])
    <3>1. slots' = [slots EXCEPT ![c] = ReadSlot(Desc[c], slots[c])]
      BY <1>4, <2>2, Zenon DEF Read
    <3>2. spent' = IF Desc[c].persistent THEN spent ELSE [spent EXCEPT ![c] = @ + 1]
      BY <1>4, <2>2, Zenon DEF Read
    <3>3. CASE d # c \/ ~ReadExhausts(Desc[c], slots[c])
      <4>1. slots'[d].val = slots[d].val
        BY <1>0, <2>2, <3>1, <3>3, ReadSlotFacts
      <4> QED BY <1>1, <4>1
    <3>4. CASE d = c /\ ReadExhausts(Desc[c], slots[c])
      <4>1. slots[d].life = 1 /\ ~Desc[d].persistent /\ spent'[d] = spent[d] + 1
        BY <1>0, <3>2, <3>4 DEF ReadExhausts
      <4>2. Held(d) => spent[d] + 1 = Desc[d].life
        BY <1>0, <4>1 DEF LedgerOf
      <4> QED BY <4>1, <4>2 DEF Releasable
    <3> QED BY <3>3, <3>4
  <2> QED BY <2>1, <2>2
<1>5. ASSUME NEW c \in Ids, NEW n \in 0 .. Desc[c].life + 1, Forgo(c, n)
      PROVE Releasable(d)
  <2>0. n \in Nat
    BY TableAssumption
  <2>1. CASE ForgoThrows(Desc[c], slots[c], n)
    BY <1>1, <1>5, <2>1 DEF Forgo, Throws
  <2>2. CASE ~ForgoThrows(Desc[c], slots[c], n)
    <3>1. slots' = [slots EXCEPT ![c] = ForgoSlot(Desc[c], slots[c], n)]
      BY <1>5, <2>2, Zenon DEF Forgo
    <3>2. spent' = IF Desc[c].persistent THEN spent ELSE [spent EXCEPT ![c] = @ + n]
      BY <1>5, <2>2, Zenon DEF Forgo
    <3>3. CASE slots'[d].val = slots[d].val
      BY <1>1, <3>3
    <3>4. CASE slots'[d].val # slots[d].val
      <4>1. d = c /\ slots'[d] = ForgoSlot(Desc[d], slots[d], n)
        BY <1>0, <3>1, <3>4
      <4>2. ~Desc[d].persistent
        BY <1>0, <2>0, <2>2, <3>4, <4>1, ForgoSlotFacts
      <4>3. spent'[d] = spent[d] + n /\ slots[d].life = n
        <5>1. slots'[d].life = slots[d].life - n /\ slots'[d].life = 0
          BY <1>0, <2>0, <2>2, <3>4, <4>1, <4>2, ForgoSlotFacts
        <5> QED BY <1>0, <2>0, <3>2, <4>1, <4>2, <5>1 DEF Slot
      <4>4. Held(d) => slots[d].life + spent[d] = Desc[d].life
        BY <1>0, <4>2 DEF LedgerOf
      <4> QED BY <1>0, <2>0, <4>2, <4>3, <4>4 DEF Releasable
    <3> QED BY <3>3, <3>4
  <2> QED BY <2>1, <2>2
<1>6. ASSUME NEW k \in Loops, ClearBoundTo(k) PROVE Releasable(d)
  <2>1. slots' = [c \in Ids |-> IF ClearedBy(Desc[c], k) THEN ClearSlot(slots[c])
                                ELSE slots[c]]
    BY <1>6, Zenon DEF ClearBoundTo
  <2>2. batch'[k] # batch[k]
    BY <1>0, <1>6 DEF ClearBoundTo
  <2>3. CASE ClearedBy(Desc[d], k)
    BY <2>2, <2>3 DEF ClearedBy, LivesIn, Releasable
  <2>4. CASE ~ClearedBy(Desc[d], k)
    BY <1>1, <2>1, <2>4
  <2> QED BY <2>3, <2>4
<1>7. ASSUME NewRegistry PROVE Releasable(d)
  <2>1. eval' # eval
    BY <1>0, <1>7 DEF NewRegistry
  <2> QED BY <2>1 DEF Releasable
<1>8. CASE UNCHANGED vars
  BY <1>1, <1>8 DEF vars
<1> QED BY <1>2, <1>3, <1>4, <1>5, <1>6, <1>7, <1>8 DEF Next

(* A value leaves its cell only for one of the reasons the code gives.     *)
THEOREM ReleaseCorrect == Spec => ReleasedOnlyWhenDone
<1>1. Init => LedgerInv
  BY LedgerInit
<1>2. LedgerInv /\ [Next]_vars => LedgerInv'
  BY LedgerNext
<1>3. LedgerInv /\ [Next]_vars => [\A c \in Ids : Releasable(c)]_vars
  BY ReleaseStep
<1> QED BY <1>1, <1>2, <1>3, PTL DEF Spec, ReleasedOnlyWhenDone, Releasable

(***************************************************************************)
(* live_bytes.  It is kept by differences, and is the sum at any time.     *)
(***************************************************************************)
ChargesInv == TypeOK /\ LiveBytesExact

(* The two sums of the registry are sums of charged.                       *)
LEMMA ChargedSums ==
  ASSUME NEW ch, NEW D
  PROVE  /\ TotalCharged(ch) = SumOver(ch, Ids)
         /\ MapThenSumSet(LAMBDA c : ch[c], D) = SumOver(ch, D)
BY DEF TotalCharged, SumOver

(* A new registry holds nothing and charges nothing.                       *)
LEMMA ChargesInit == Init => ChargesInv
<1> SUFFICES ASSUME Init PROVE LiveBytesExact
  BY TypeInit DEF ChargesInv
<1> DEFINE zero == [c \in Ids |-> 0]
           D == Ids
<1>1. zero \in [Ids -> Int] /\ Ids \in SUBSET Ids /\ Ids \cap D = Ids
  OBVIOUS
<1>2. \A c \in Ids : zero[c] = IF c \in D THEN 0 ELSE zero[c]
  OBVIOUS
<1>3. SumOver(zero, Ids) = SumOver(zero, Ids) - SumOver(zero, Ids \cap D)
  <2> HIDE DEF zero, D
  <2> QED BY <1>1, <1>2, SumZeroed, IdsAssumption
<1>4. SumOver(zero, Ids) \in Int
  <2> HIDE DEF zero
  <2> QED BY <1>1, SumType, IdsAssumption
<1>5. SumOver(zero, Ids) = 0
  <2> HIDE DEF zero, D
  <2> QED BY <1>1, <1>3, <1>4
<1>6. charged = zero /\ live = 0
  BY DEF Init
<1> QED BY <1>5, <1>6, ChargedSums DEF LiveBytesExact

(* Recharging one slot keeps the sum, if a slot left empty is discharged.  *)
LEMMA RechargeExact ==
  ASSUME ChargesInv, NEW c \in Ids, NEW n \in Nat, Recharge(c, n),
         \A d \in Ids \ {c} : slots'[d].val = slots[d].val,
         slots'[c].val = NoBuf => n = 0
  PROVE  LiveBytesExact'
<1>1. charged \in [Ids -> Int] /\ charged' = [charged EXCEPT ![c] = n] /\ n \in Int
  BY DEF ChargesInv, TypeOK, Recharge
<1>2. live = SumOver(charged, Ids) /\ live' = live - charged[c] + n
  BY ChargedSums DEF ChargesInv, LiveBytesExact, Recharge
<1>3. SumOver(charged', Ids) = SumOver(charged, Ids) - charged[c] + n
  <2>1. charged' \in [Ids -> Int] /\ charged'[c] = n
    BY <1>1
  <2>2. \A d \in Ids \ {c} : charged'[d] = charged[d]
    BY <1>1
  <2>3. charged \in [Ids -> Int]
    BY <1>1
  <2> QED BY <2>1, <2>2, <2>3, SumExcept, IdsAssumption
<1>4. live' = TotalCharged(charged')
  BY <1>1, <1>2, <1>3, ChargedSums
<1>5. \A d \in Ids : slots'[d].val = NoBuf => charged'[d] = 0
  BY <1>1 DEF ChargesInv, LiveBytesExact, Held
<1> QED BY <1>4, <1>5 DEF LiveBytesExact, Held

(* A step that charges nothing and takes nothing out keeps it.             *)
LEMMA NoCharge ==
  ASSUME ChargesInv, UNCHANGED <<charged, live>>,
         \A d \in Ids : slots'[d].val = NoBuf => slots[d].val = NoBuf
  PROVE  LiveBytesExact'
<1>1. live' = TotalCharged(charged')
  BY ChargedSums DEF ChargesInv, LiveBytesExact
<1> QED BY <1>1 DEF ChargesInv, LiveBytesExact, Held

(* Every operation keeps live_bytes exact.                                 *)
LEMMA ChargesNext == ChargesInv /\ [Next]_vars => ChargesInv'
<1> SUFFICES ASSUME ChargesInv, [Next]_vars PROVE LiveBytesExact'
  BY TypeNext DEF ChargesInv
<1>0. /\ slots \in [Ids -> Slot] /\ charged \in [Ids -> Nat] /\ size \in [Bufs -> Nat]
      /\ store \in [Vids -> Bufs \cup {NoBuf}] /\ owned \subseteq Bufs
  BY DEF ChargesInv, TypeOK, Slot
<1>1. ASSUME NEW b \in Bufs, NewBuffer(b) \/ Materialize(b) \/ DropBuffer(b)
      PROVE LiveBytesExact'
  BY <1>1, NoCharge DEF NewBuffer, Materialize, DropBuffer
<1>2. ASSUME NEW c \in Ids, NEW b \in Bufs, Set(c, b) PROVE LiveBytesExact'
  <2>1. CASE strict /\ SetThrows(Desc[c], slots[c])
    BY <1>2, <2>1, NoCharge DEF Set, Throws
  <2>2. CASE ~(strict /\ SetThrows(Desc[c], slots[c]))
    <3>1. slots' = [slots EXCEPT ![c] = SetSlot(Desc[c], b)] /\ Recharge(c, size[b])
      BY <1>2, <2>2, Zenon DEF Set
    <3>2. \A d \in Ids \ {c} : slots'[d].val = slots[d].val
      BY <1>0, <3>1
    <3>3. slots'[c].val # NoBuf /\ size[b] \in Nat
      BY <1>0, <3>1, SetSlotFacts, BufAssumption
    <3> QED BY <3>1, <3>2, <3>3, RechargeExact
  <2> QED BY <2>1, <2>2
<1>3. ASSUME NEW c \in Ids, Read(c) PROVE LiveBytesExact'
  <2>1. CASE ReadThrows(Desc[c], slots[c])
    BY <1>3, <2>1, NoCharge DEF Read, Throws
  <2>2. CASE ~ReadThrows(Desc[c], slots[c])
    <3>1. slots' = [slots EXCEPT ![c] = ReadSlot(Desc[c], slots[c])]
      BY <1>3, <2>2, Zenon DEF Read
    <3>2. \A d \in Ids \ {c} : slots'[d].val = slots[d].val
      BY <1>0, <3>1
    <3>3. CASE ReadExhausts(Desc[c], slots[c])
      <4>1. Recharge(c, 0)
        BY <1>3, <2>2, <3>3 DEF Read, Discharge
      <4> QED BY <3>2, <4>1, RechargeExact
    <3>4. CASE ~ReadExhausts(Desc[c], slots[c])
      <4>1. UNCHANGED <<charged, live>>
        BY <1>3, <2>2, <3>4 DEF Read
      <4>2. slots'[c].val = slots[c].val
        BY <1>0, <2>2, <3>1, <3>4, ReadSlotFacts
      <4> QED BY <3>2, <4>1, <4>2, NoCharge
    <3> QED BY <3>3, <3>4
  <2> QED BY <2>1, <2>2
<1>4. ASSUME NEW c \in Ids, NEW n \in 0 .. Desc[c].life + 1, Forgo(c, n)
      PROVE LiveBytesExact'
  <2>1. CASE ForgoThrows(Desc[c], slots[c], n)
    BY <1>4, <2>1, NoCharge DEF Forgo, Throws
  <2>2. CASE ~ForgoThrows(Desc[c], slots[c], n)
    <3>1. slots' = [slots EXCEPT ![c] = ForgoSlot(Desc[c], slots[c], n)]
      BY <1>4, <2>2, Zenon DEF Forgo
    <3>2. \A d \in Ids \ {c} : slots'[d].val = slots[d].val
      BY <1>0, <3>1
    <3>3. CASE Held(c) /\ slots'[c].val = NoBuf
      <4>1. Recharge(c, 0)
        BY <1>4, <2>2, <3>3 DEF Forgo, Discharge
      <4> QED BY <3>2, <4>1, RechargeExact
    <3>4. CASE ~(Held(c) /\ slots'[c].val = NoBuf)
      <4>1. UNCHANGED <<charged, live>>
        BY <1>4, <2>2, <3>4 DEF Forgo
      <4> QED BY <3>2, <3>4, <4>1, NoCharge DEF Held
    <3> QED BY <3>3, <3>4
  <2> QED BY <2>1, <2>2
<1>5. ASSUME NEW k \in Loops, ClearBoundTo(k) PROVE LiveBytesExact'
  <2> DEFINE D == {c \in Ids : ClearedBy(Desc[c], k)}
  <2>1. live' = live - SumOver(charged, D)
    BY <1>5, ChargedSums DEF ClearBoundTo
  <2>2. charged' = [c \in Ids |-> IF c \in D THEN 0 ELSE charged[c]]
    BY <1>5 DEF ClearBoundTo
  <2>3. charged \in [Ids -> Int] /\ charged' \in [Ids -> Int]
    BY <1>0, <2>2
  <2>4. \A c \in Ids : charged'[c] = IF c \in D THEN 0 ELSE charged[c]
    BY <2>2
  <2>5. Ids \in SUBSET Ids /\ Ids \cap D = D
    OBVIOUS
  <2>6. SumOver(charged', Ids) = SumOver(charged, Ids) - SumOver(charged, D)
    <3> HIDE DEF D
    <3>1. SumOver(charged', Ids) = SumOver(charged, Ids) - SumOver(charged, Ids \cap D)
      BY <2>3, <2>4, SumZeroed, IdsAssumption
    <3> QED BY <2>5, <3>1
  <2>7. live' = TotalCharged(charged')
    BY <2>1, <2>6, ChargedSums DEF ChargesInv, LiveBytesExact
  <2>8. \A c \in Ids : slots'[c].val = NoBuf => charged'[c] = 0
    <3> SUFFICES ASSUME NEW c \in Ids, c \notin D, slots'[c].val = NoBuf
                 PROVE  charged'[c] = 0
      BY <2>4
    <3>1. slots'[c] = slots[c]
      BY <1>5 DEF ClearBoundTo
    <3> QED BY <2>4, <3>1 DEF ChargesInv, LiveBytesExact, Held
  <2> QED BY <2>7, <2>8 DEF LiveBytesExact, Held
<1>6. ASSUME NewRegistry PROVE LiveBytesExact'
  <2>1. live' = TotalCharged(charged')
    BY <1>6 DEF NewRegistry
  <2>2. ASSUME NEW c \in Ids, slots'[c].val = NoBuf PROVE charged'[c] = 0
    <3>1. CASE Seeded(c)
      <4>1. store[Desc[c].vid] \in Bufs
        BY <1>0, <3>1, TableAssumption DEF Seeded
      <4>2. slots'[c] = SetSlot(Desc[c], store[Desc[c].vid])
        BY <1>6, <3>1 DEF NewRegistry
      <4> QED BY <2>2, <4>1, <4>2, SetSlotFacts, BufAssumption
    <3>2. CASE ~Seeded(c)
      BY <1>6, <3>2 DEF NewRegistry
    <3> QED BY <3>1, <3>2
  <2> QED BY <2>1, <2>2 DEF LiveBytesExact, Held
<1>7. CASE UNCHANGED vars
  BY <1>7, NoCharge DEF vars
<1> QED BY <1>1, <1>2, <1>3, <1>4, <1>5, <1>6, <1>7 DEF Next

(* live_bytes is the sum of what the held values were charged when stored, *)
(* and nothing is charged for an empty slot.                               *)
THEOREM LiveBytesCorrect == Spec => []LiveBytesExact
<1>1. Init => ChargesInv
  BY ChargesInit
<1>2. ChargesInv /\ [Next]_vars => ChargesInv'
  BY ChargesNext
<1>3. ChargesInv => LiveBytesExact
  BY DEF ChargesInv
<1> QED BY <1>1, <1>2, <1>3, PTL DEF Spec
=============================================================================
