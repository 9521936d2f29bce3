---------------------------- MODULE IndexFactory ----------------------------
(***************************************************************************)
(* IndexFactory of core/index.hpp, shared by threads: make() hands out the   *)
(* temporary indices of a space in the order of its counter, skipping those  *)
(* the validator refuses (the indices already in the expression).  The map   *)
(* of counters is searched and extended under the mutex; a counter, which    *)
(* stays where it is in the map, is incremented without it.                  *)
(* An index is named <<space, ordinal>>.                                     *)
(***************************************************************************)
EXTENDS Integers, Sequences, Functions, Threads

CONSTANTS Maker,      \* the threads that make indices
          Space,
          MinIndex,   \* min_index_, which the constructor asserts is positive
          Taken       \* the indices the validator refuses, finitely many

ASSUME FactoryAssumption == NoThread \notin Maker

VARIABLES counters,    \* counters_: a number for each space asked for
          indexMutex,  \* the thread that inserts, or NoThread
          indexPc,     \* where each thread is
          space,       \* the space it makes an index of
          index,       \* its candidate
          indices,     \* history: the indices returned, in order
          makes        \* history: the calls each thread made

factoryVars == <<counters, indexMutex, indexPc, space, index, indices, makes>>

NoIndex == << >>

FactoryInit ==
  /\ counters = << >> /\ indexMutex = NoThread
  /\ indexPc = [t \in Maker |-> "idle"]
  /\ space \in [Maker -> {CHOOSE s \in Space : TRUE}]
  /\ index = [t \in Maker |-> NoIndex]
  /\ indices = << >>
  /\ makes = [t \in Maker |-> 0]

MakeGoesTo(t, l) == indexPc' = [indexPc EXCEPT ![t] = l]

-----------------------------------------------------------------------------
Make(t, s) ==
  /\ indexPc[t] = "idle" /\ makes[t] < MaxCalls
  /\ makes' = [makes EXCEPT ![t] = @ + 1]
  /\ space' = [space EXCEPT ![t] = s]
  /\ MakeGoesTo(t, "begin")
  /\ UNCHANGED <<counters, indexMutex, index, indices>>

\* counter_it = counters_.begin(), before the lock; the iterator is not used
BeginMake(t) ==
  /\ indexPc[t] = "begin"
  /\ MakeGoesTo(t, "find")
  /\ UNCHANGED <<counters, indexMutex, space, index, indices, makes>>

FindCounter(t) ==
  /\ indexPc[t] = "find" /\ indexMutex = NoThread /\ space[t] \in DOMAIN counters
  /\ MakeGoesTo(t, "count")
  /\ UNCHANGED <<counters, indexMutex, space, index, indices, makes>>

\* Mutant: the mutex is not held while the space is inserted
InserterUnlocked(t) == NoThread

\* who holds the mutex while the space is inserted
Inserter(t) == t

NotFound(t) ==
  /\ indexPc[t] = "find" /\ indexMutex = NoThread /\ space[t] \notin DOMAIN counters
  /\ indexMutex' = Inserter(t)
  /\ MakeGoesTo(t, "insert")
  /\ UNCHANGED <<counters, space, index, indices, makes>>

\* one overload emplaces, the other assigns: both end with this number
InsertCounter(t) ==
  /\ indexPc[t] = "insert"
  /\ counters' = [s \in DOMAIN counters \cup {space[t]} |->
                    IF s = space[t] THEN MinIndex - 1 ELSE counters[s]]
  /\ indexMutex' = NoThread
  /\ MakeGoesTo(t, "count")
  /\ UNCHANGED <<space, index, indices, makes>>

\* Mutant: an increment of a plain number, loaded in one step and stored in another
IncrementTorn(t) ==
  IF index[t] = NoIndex \/ index[t] \in Taken
  THEN /\ index' = [index EXCEPT ![t] = <<space[t], counters[space[t]] + 1>>]
       /\ UNCHANGED <<counters, indexPc>>
  ELSE /\ counters' = [counters EXCEPT ![space[t]] = index[t][2]]
       /\ MakeGoesTo(t, "validate")
       /\ UNCHANGED index

\* Mutant: the counter is incremented, then read once more
IncrementReread(t) ==
  IF index[t] = NoIndex \/ index[t] \in Taken
  THEN /\ counters' = [counters EXCEPT ![space[t]] = @ + 1]
       /\ index' = [index EXCEPT ![t] = <<space[t], 0>>]
       /\ UNCHANGED indexPc
  ELSE /\ index' = [index EXCEPT ![t] = <<space[t], counters[space[t]]>>]
       /\ MakeGoesTo(t, "validate")
       /\ UNCHANGED counters

\* ++ of the atomic counter
Increment(t) ==
  /\ counters' = [counters EXCEPT ![space[t]] = @ + 1]
  /\ index' = [index EXCEPT ![t] = <<space[t], counters'[space[t]]>>]
  /\ MakeGoesTo(t, "validate")

Count(t) ==
  /\ indexPc[t] = "count"
  /\ Increment(t)
  /\ UNCHANGED <<indexMutex, space, indices, makes>>

Accept(t) ==
  /\ indexPc[t] = "validate" /\ index[t] \notin Taken
  /\ indices' = Append(indices, index[t])
  /\ index' = [index EXCEPT ![t] = NoIndex]
  /\ MakeGoesTo(t, "idle")
  /\ UNCHANGED <<counters, indexMutex, space, makes>>

\* Mutant: a refused ordinal is tried again
AfterRefusalSame(t) == "validate"

\* a refused index is dropped and the next ordinal taken
AfterRefusal(t) == "begin"

Refuse(t) ==
  /\ indexPc[t] = "validate" /\ index[t] \in Taken
  /\ MakeGoesTo(t, AfterRefusal(t))
  /\ UNCHANGED <<counters, indexMutex, space, index, indices, makes>>

MakeStep(t) == \/ BeginMake(t) \/ FindCounter(t) \/ NotFound(t) \/ InsertCounter(t)
               \/ Count(t) \/ Accept(t) \/ Refuse(t)

FactoryNext == \E t \in Maker : MakeStep(t) \/ \E s \in Space : Make(t, s)

FactorySpec == FactoryInit /\ [][FactoryNext]_factoryVars

\* a thread in make() goes on unless the mutex, held for one insertion, stops it
FactoryFairSpec == FactorySpec /\ \A t \in Maker : WF_factoryVars(MakeStep(t))

-----------------------------------------------------------------------------
\* the types of the variables; the mutex is held during an insertion only
FactoryTypeOK ==
  /\ DOMAIN counters \subseteq Space
  /\ \A s \in DOMAIN counters : counters[s] \in Nat /\ counters[s] >= MinIndex - 1
  /\ indexPc \in [Maker -> {"idle", "begin", "find", "insert", "count", "validate"}]
  /\ \A t \in Maker : indexMutex = t <=> indexPc[t] = "insert"
  /\ space \in [Maker -> Space]
  /\ \A t \in Maker : index[t] = NoIndex \/ index[t] \in Space \X Nat
  /\ indices \in Seq(Space \X Nat)
  /\ makes \in [Maker -> 0 .. MaxCalls]

\* no index is returned twice, whichever threads ask, nor one that was refused
LabelsUnique ==
  /\ IsInjective(indices)
  /\ \A i \in DOMAIN indices : indices[i] \notin Taken

\* a call returns when the validator refuses finitely many indices
MakeReturns == \A t \in Maker : indexPc[t] = "begin" ~> indexPc[t] = "idle"
=============================================================================
