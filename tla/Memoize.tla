------------------------------ MODULE Memoize ------------------------------
(***************************************************************************)
(* sequant::detail::memoize (core/utility/memoize.hpp) and its callers, the *)
(* coefficient caches of domain/mbpt/biorthogonalization: threads look keys *)
(* up in one cache; the first to ask for a key puts a placeholder there,    *)
(* computes outside the lock, stores the value and notifies; the others     *)
(* wait on a condition variable.  The cache is a flat map, a vector sorted  *)
(* by key: an insertion moves the slots behind it, or all of them to new    *)
(* storage, while a waiter keeps an iterator and a caller a reference.      *)
(*                                                                          *)
(* A stretch of code under the mutex is one action, so the mutex itself     *)
(* needs no variable.                                                       *)
(***************************************************************************)
EXTENDS Integers, FiniteSets, SequencesExt

CONSTANTS Caller,     \* the threads that call the memoized function
          Key,        \* keys, ordered as the map orders them
          NoValue,    \* std::nullopt
          CanThrow    \* whether compute_fn may throw

VARIABLES cache,      \* the slots [key, value], sorted by key
          storage,    \* how often the slots moved to new storage
          memoPc,     \* where each thread is
          key,        \* the key it asked for
          ref,        \* its iterator or reference: a position in a storage
          answer      \* what it last read through a returned reference, and for which key

memoVars == <<cache, storage, memoPc, key, ref, answer>>

\* the value compute_fn computes for k; distinct keys have distinct values
Value(k) == k
Values == {Value(k) : k \in Key}
AnyKey == CHOOSE k \in Key : TRUE

MemoInit ==
  /\ cache = << >>
  /\ storage = 0
  /\ memoPc = [t \in Caller |-> "idle"]
  /\ key = [t \in Caller |-> AnyKey]
  /\ ref = [t \in Caller |-> [storage |-> 0, pos |-> 0]]
  /\ answer = [t \in Caller |-> [key |-> AnyKey, value |-> Value(AnyKey)]]

Slots(k) == {i \in DOMAIN cache : cache[i].key = k}
SlotOf(k) == CHOOSE i \in Slots(k) : TRUE
Refer(t, i) == ref' = [ref EXCEPT ![t] = [storage |-> storage', pos |-> i]]
MemoGoesTo(t, l) == memoPc' = [memoPc EXCEPT ![t] = l]

\* what a thread may read through its iterator or reference: the slot now at
\* that position; once the slots moved to new storage it dangles, and the
\* memory it names may hold anything
Reads(t) == IF ref[t].storage = storage THEN {cache[ref[t].pos].value}
            ELSE Values \cup {NoValue}

-----------------------------------------------------------------------------
\* try_emplace(key, nullopt) finds no such key, and inserts
InsertSlot(t, k) ==
  LET before == Cardinality({i \in DOMAIN cache : cache[i].key < k}) IN
  /\ cache' = InsertAt(cache, before + 1, [key |-> k, value |-> NoValue])
  /\ \/ storage' = storage + 1
     \/ cache # << >> /\ storage' = storage
  /\ Refer(t, before + 1)
  /\ MemoGoesTo(t, "compute")

\* it finds the key: the thread returns the value, or waits for it
FindSlot(t, k) ==
  /\ UNCHANGED <<cache, storage>>
  /\ Refer(t, SlotOf(k))
  /\ MemoGoesTo(t, IF cache[SlotOf(k)].value # NoValue THEN "return" ELSE "waiting")

\* Mutant: only a slot with a value counts as found
MissingUnlessFilled(k) == \A i \in Slots(k) : cache[i].value = NoValue

Missing(k) == Slots(k) = {}

Ask(t) == \E k \in Key :
  /\ memoPc[t] = "idle"
  /\ key' = [key EXCEPT ![t] = k]
  /\ IF Missing(k) THEN InsertSlot(t, k) ELSE FindSlot(t, k)
  /\ UNCHANGED answer

\* compute_fn throws: the exception leaves memoize, the placeholder stays
Throw(t) ==
  /\ CanThrow /\ memoPc[t] = "compute"
  /\ MemoGoesTo(t, "idle")
  /\ UNCHANGED <<cache, storage, key, ref, answer>>

Notified(t) == [u \in Caller |-> IF u = t THEN "return"
                                 ELSE IF memoPc[u] = "waiting" THEN "woken" ELSE memoPc[u]]

\* Mutant: the value is stored and nobody is told
FillSilently(t) ==
  /\ memoPc[t] = "compute"
  /\ cache' = [cache EXCEPT ![SlotOf(key[t])].value = Value(key[t])]
  /\ storage' = storage
  /\ Refer(t, SlotOf(key[t]))
  /\ MemoGoesTo(t, "return")
  /\ UNCHANGED <<key, answer>>

\* compute_fn has returned: the value is stored under the key, found anew
Fill(t) ==
  /\ memoPc[t] = "compute"
  /\ cache' = [cache EXCEPT ![SlotOf(key[t])].value = Value(key[t])]
  /\ storage' = storage
  /\ Refer(t, SlotOf(key[t]))
  /\ memoPc' = Notified(t)
  /\ UNCHANGED <<key, answer>>

SpuriousWake(t) ==
  /\ memoPc[t] = "waiting"
  /\ MemoGoesTo(t, "woken")
  /\ UNCHANGED <<cache, storage, key, ref, answer>>

\* Mutant: cv.wait without a predicate
RecheckNothing(t) ==
  /\ memoPc[t] = "woken"
  /\ MemoGoesTo(t, "return")
  /\ UNCHANGED <<cache, storage, key, ref, answer>>

\* a woken thread evaluates the predicate through its iterator
Recheck(t) == memoPc[t] = "woken" /\ \E v \in Reads(t) :
  /\ MemoGoesTo(t, IF v # NoValue THEN "return" ELSE "waiting")
  /\ UNCHANGED <<cache, storage, key, ref, answer>>

\* the caller reads the returned reference, outside the lock
Use(t) == memoPc[t] = "return" /\ \E v \in Reads(t) :
  /\ answer' = [answer EXCEPT ![t] = [key |-> key[t], value |-> v]]
  /\ MemoGoesTo(t, "idle")
  /\ UNCHANGED <<cache, storage, key, ref>>

MemoNext == \E t \in Caller :
  Ask(t) \/ Throw(t) \/ Fill(t) \/ SpuriousWake(t) \/ Recheck(t) \/ Use(t)

\* a computation ends, a notified thread gets to run, a caller uses its result
MemoFairness == \A t \in Caller :
  WF_memoVars(Fill(t) \/ Throw(t)) /\ WF_memoVars(Recheck(t)) /\ WF_memoVars(Use(t))

MemoSpec == MemoInit /\ [][MemoNext]_memoVars /\ MemoFairness

-----------------------------------------------------------------------------
\* The types; the cache is a map: its slots are sorted and no key has two.
MemoTypeOK ==
  /\ cache \in Seq([key : Key, value : Values \cup {NoValue}])
  /\ \A i, j \in DOMAIN cache : i < j => cache[i].key < cache[j].key
  /\ storage \in 0..Cardinality(Key)
  /\ memoPc \in [Caller -> {"idle", "compute", "waiting", "woken", "return"}]
  /\ key \in [Caller -> Key]
  /\ ref \in [Caller -> [storage : Nat, pos : Nat]]
  /\ answer \in [Caller -> [key : Key, value : Values \cup {NoValue}]]

\* An expensive value is computed once however many threads ask for it: while
\* one computes it, or once it is there, no thread (else) computes it.
ComputedOnce == \A t \in Caller : memoPc[t] = "compute" =>
  /\ \A i \in Slots(key[t]) : cache[i].value = NoValue
  /\ \A u \in Caller \ {t} : ~(memoPc[u] = "compute" /\ key[u] = key[t])

\* "@return Reference to the cached value": what a caller reads through it is
\* the value of the key it asked for.
ReturnsOwnValue == \A t \in Caller : answer[t].value = Value(answer[t].key)

\* A caller that waits for another thread's computation is served in the end:
\* the placeholder is filled and its waiters are notified.
EveryCallReturns == \A t \in Caller : memoPc[t] # "idle" ~> memoPc[t] = "idle"
=============================================================================
