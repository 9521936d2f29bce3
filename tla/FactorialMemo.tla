---------------------------- MODULE FactorialMemo ----------------------------
(***************************************************************************)
(* factorial of core/math.hpp: the first values are constants, the others   *)
(* are kept in a vector that is never modified once it is published.  A     *)
(* reader loads the pointer to it without the mutex; a call that needs more *)
(* values copies the vector under the mutex, extends the copy and publishes *)
(* it in place of the old one.  vectors names every vector ever made by its *)
(* position, 0 is the null pointer.                                         *)
(***************************************************************************)
EXTENDS Threads, Sequences

CONSTANTS NPre,       \* n_max_precomputed
          MaxN,       \* bound: the arguments
          Factorial   \* the function to compute

ASSUME FactorialAssumption ==
  /\ NPre \in Nat /\ MaxN \in Nat /\ NPre <= MaxN
  /\ Factorial \in [0 .. MaxN -> Nat]
  /\ Factorial[0] = 1
  /\ \A n \in 1 .. MaxN : Factorial[n] = n * Factorial[n - 1]

VARIABLES vectors,  \* the vectors of memoized values
          memvals,  \* the published one, or 0
          memvalsMutex,  \* who holds memvals_mutex
          at,       \* where each thread is
          arg,      \* n
          handle,   \* memvals_handle: the vector it loaded last
          new,      \* new_memvals: the vector it extends
          result,   \* what its last call returned
          asked     \* history: the calls it made

factorialVars == <<vectors, memvals, memvalsMutex, at, arg, handle, new, result, asked>>

FactorialInit ==
  /\ vectors = << >> /\ memvals = 0 /\ memvalsMutex = NoThread
  /\ at = [t \in Thread |-> "idle"]
  /\ arg = [t \in Thread |-> 0]
  /\ handle = [t \in Thread |-> 0]
  /\ new = [t \in Thread |-> 0]
  /\ result = [t \in Thread |-> Factorial[0]]
  /\ asked = [t \in Thread |-> 0]

\* a null pointer holds no value
Known(v) == IF v = 0 THEN 0 ELSE Len(vectors[v])

\* n_in_memvals, counting from one
Position(t) == arg[t] - NPre

GoTo(t, l) == at' = [at EXCEPT ![t] = l]
ReturnValue(t, value) == GoTo(t, "idle") /\ result' = [result EXCEPT ![t] = value]

-----------------------------------------------------------------------------
\* n <= n_max_precomputed: the result is one of the constants
Precomputed(t, n) ==
  /\ at[t] = "idle" /\ asked[t] < MaxCalls /\ n <= NPre
  /\ asked' = [asked EXCEPT ![t] = asked[t] + 1]
  /\ arg' = [arg EXCEPT ![t] = n]
  /\ ReturnValue(t, Factorial[n])
  /\ UNCHANGED <<vectors, memvals, memvalsMutex, handle, new>>

BeginFactorial(t, n) ==
  /\ at[t] = "idle" /\ asked[t] < MaxCalls /\ n > NPre
  /\ asked' = [asked EXCEPT ![t] = asked[t] + 1]
  /\ arg' = [arg EXCEPT ![t] = n]
  /\ GoTo(t, "load")
  /\ UNCHANGED <<vectors, memvals, memvalsMutex, handle, new, result>>

\* the pointer is loaded atomically, without the mutex
Load(t) ==
  /\ at[t] = "load"
  /\ handle' = [handle EXCEPT ![t] = memvals]
  /\ GoTo(t, "look")
  /\ UNCHANGED <<vectors, memvals, memvalsMutex, arg, new, result, asked>>

\* the vector is read later, when another may be published
Hit(t) ==
  /\ at[t] = "look" /\ Known(handle[t]) >= Position(t)
  /\ ReturnValue(t, vectors[handle[t]][Position(t)])
  /\ UNCHANGED <<vectors, memvals, memvalsMutex, arg, handle, new, asked>>

Miss(t) ==
  /\ at[t] = "look" /\ Known(handle[t]) < Position(t)
  /\ GoTo(t, "lock")
  /\ UNCHANGED <<vectors, memvals, memvalsMutex, arg, handle, new, result, asked>>

\* Mutant: the vector loaded before the lock is extended
ReloadNot(t) == handle[t]

\* the pointer is loaded once more under the mutex
Reload(t) == memvals

LockTable(t) ==
  /\ at[t] = "lock" /\ memvalsMutex = NoThread
  /\ memvalsMutex' = t
  /\ handle' = [handle EXCEPT ![t] = Reload(t)]
  /\ GoTo(t, "locked")
  /\ UNCHANGED <<vectors, memvals, arg, new, result, asked>>

\* another thread added the value in the meantime
LockedHit(t) ==
  /\ at[t] = "locked" /\ Known(handle[t]) >= Position(t)
  /\ memvalsMutex' = NoThread
  /\ ReturnValue(t, vectors[handle[t]][Position(t)])
  /\ UNCHANGED <<vectors, memvals, arg, handle, new, asked>>

\* Mutant: the published vector itself is extended
NewVectorShared(t) ==
  IF handle[t] = 0
  THEN vectors' = Append(vectors, << >>) /\ new' = [new EXCEPT ![t] = Len(vectors) + 1]
  ELSE vectors' = vectors /\ new' = [new EXCEPT ![t] = handle[t]]

\* make_shared of a copy of the old values
NewVector(t) ==
  /\ vectors' = Append(vectors, IF handle[t] = 0 THEN << >> ELSE vectors[handle[t]])
  /\ new' = [new EXCEPT ![t] = Len(vectors) + 1]

Copy(t) ==
  /\ at[t] = "locked" /\ Known(handle[t]) < Position(t)
  /\ NewVector(t)
  /\ GoTo(t, "extend")
  /\ UNCHANGED <<memvals, memvalsMutex, arg, handle, result, asked>>

\* Mutant: the factor of a value is the one of the value before it
FactorBefore(size) == size + NPre

\* the factor of the value to be appended to a vector of that size
Factor(size) == size + NPre + 1

Extend(t) ==
  /\ at[t] = "extend" /\ Known(new[t]) < Position(t)
  /\ LET v == vectors[new[t]]
         last == IF v = << >> THEN Factorial[NPre] ELSE v[Len(v)] IN
     vectors' = [vectors EXCEPT ![new[t]] = Append(v, last * Factor(Len(v)))]
  /\ UNCHANGED <<memvals, memvalsMutex, at, arg, handle, new, result, asked>>

\* Mutant: the mutex is not released
HolderAfterStoreStill(t) == t

\* the lock_guard ends with the block
HolderAfterStore(t) == NoThread

StoreTable(t) ==
  /\ at[t] = "extend" /\ Known(new[t]) >= Position(t)
  /\ memvals' = new[t]
  /\ memvalsMutex' = HolderAfterStore(t)
  /\ ReturnValue(t, vectors[new[t]][Position(t)])
  /\ UNCHANGED <<vectors, arg, handle, new, asked>>

FactorialNext ==
  \E t \in Thread :
    \/ \E n \in 0 .. MaxN : Precomputed(t, n) \/ BeginFactorial(t, n)
    \/ Load(t) \/ Hit(t) \/ Miss(t)
    \/ LockTable(t) \/ LockedHit(t) \/ Copy(t) \/ Extend(t) \/ StoreTable(t)

FactorialSpec == FactorialInit /\ [][FactorialNext]_factorialVars

-----------------------------------------------------------------------------
\* the types of the variables; the mutex is held from the lock to the return
FactorialTypeOK ==
  /\ vectors \in Seq(Seq(Nat))
  /\ memvals \in 0 .. Len(vectors)
  /\ memvalsMutex \in Thread \cup {NoThread}
  /\ at \in [Thread -> {"idle", "load", "look", "lock", "locked", "extend"}]
  /\ arg \in [Thread -> 0 .. MaxN]
  /\ handle \in [Thread -> 0 .. Len(vectors)]
  /\ new \in [Thread -> 0 .. Len(vectors)]
  /\ result \in [Thread -> Nat]
  /\ asked \in [Thread -> 0 .. MaxCalls]
  /\ \A t \in Thread : memvalsMutex = t <=> at[t] \in {"locked", "extend"}

\* a call returns the factorial of its argument, also when the table it read was
\* replaced, or completed by another thread, after it was loaded
FactorialsRight == \A t \in Thread : at[t] = "idle" => result[t] = Factorial[arg[t]]

\* what a reader may hold is never modified: the published vector and the loaded ones
HeldFrozen ==
  [][\A v \in DOMAIN vectors :
       v = memvals \/ (\E t \in Thread : handle[t] = v) => vectors'[v] = vectors[v]]_factorialVars
=============================================================================
