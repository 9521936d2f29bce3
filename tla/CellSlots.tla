----------------------------- MODULE CellSlots -----------------------------
(***************************************************************************)
(* One slot of the CellRegistry (core/eval/cell_registry.hpp) and what     *)
(* each registry operation does to it, as functions from a slot to a slot. *)
(* CellRegistry makes a state machine of them for an arbitrary client;     *)
(* OrderedExecutor applies them to the slots of a whole table.             *)
(*                                                                         *)
(* A slot is [val, life, filled]: the held buffer or NoBuf, the remaining  *)
(* declared life, and the fill-once mark filled_since_clear.               *)
(***************************************************************************)
EXTENDS CellTable

CONSTANT NoBuf

InitSlot(cell) == [val |-> NoBuf, life |-> cell.life, filled |-> FALSE]

(* set: a new production restores the life the table declares.             *)
SetThrows(cell, s) == ~cell.persistent /\ s.filled
SetSlot(cell, v) == [val |-> v, life |-> cell.life, filled |-> TRUE]

(* read: a persistent cell is never spent; the read that spends the last   *)
(* life of any other cell takes the buffer out of the slot.                *)
ReadThrows(cell, s) == s.val = NoBuf \/ (~cell.persistent /\ s.life = 0)
(* Mutant: off by one, the last but one read takes the buffer.             *)
ReadExhaustsEarly(cell, s) == ~cell.persistent /\ s.life \in {1, 2}
ReadExhausts(cell, s) == ~cell.persistent /\ s.life = 1
(* Mutant: a read of a persistent cell spends a life too.                  *)
ReadSlotSpendingAll(cell, s) ==
  IF ReadExhausts(cell, s) THEN [val |-> NoBuf, life |-> 0, filled |-> FALSE]
  ELSE [s EXCEPT !.life = @ - 1]
(* Mutant: the last read copies the buffer handle instead of moving it.    *)
ReadSlotCopying(cell, s) ==
  IF cell.persistent THEN s ELSE [s EXCEPT !.life = @ - 1]
ReadSlot(cell, s) ==
  CASE cell.persistent -> s
    [] ReadExhausts(cell, s) -> [val |-> NoBuf, life |-> 0, filled |-> FALSE]
    [] OTHER -> [s EXCEPT !.life = @ - 1]

(* forgo: spends n reads without taking the value.                         *)
ForgoThrows(cell, s, n) == n > 0 /\ ~cell.persistent /\ n > s.life
(* Mutant: forgoing the last reads does not release the value.             *)
ForgoSlotHolding(cell, s, n) ==
  IF n = 0 \/ cell.persistent THEN s ELSE [s EXCEPT !.life = @ - n]
ForgoSlot(cell, s, n) ==
  IF n = 0 \/ cell.persistent THEN s
  ELSE IF n = s.life THEN [val |-> NoBuf, life |-> 0, filled |-> FALSE]
  ELSE [s EXCEPT !.life = @ - n]

(* clear_bound_to: the cells a batch boundary of loop k empties.           *)
(* Mutant: only the cells of the loop's own block are emptied.             *)
ClearedByOwnBlock(cell, k) ==
  ~cell.persistent /\ cell.scope # << >> /\ cell.scope[Len(cell.scope)].key = k
ClearedBy(cell, k) ==
  /\ ~cell.persistent
  /\ \/ k \in BoundInstances(cell)
     \/ /\ ~cell.pia
        /\ cell.scope # << >>
        /\ cell.scope[Len(cell.scope)].key = k
ClearSlot(s) == [s EXCEPT !.val = NoBuf, !.filled = FALSE]

(* drained: a spent cell that will not be read again.                      *)
Drained(cell, s) == ~cell.persistent /\ s.life = 0 /\ s.val = NoBuf
=============================================================================
