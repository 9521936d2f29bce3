------------------------- MODULE SharedObjectProofs -------------------------
(***************************************************************************)
(* What callers get from the objects that the threads of a program share,  *)
(* for every number of threads and calls: a memoized value is computed     *)
(* once; no temporary index is handed out twice; every call of a Singleton *)
(* that returns an object returns the same one, with or without a default  *)
(* constructor; factorial returns factorials, from vectors that nobody     *)
(* modifies while a reader holds them.                                     *)
(***************************************************************************)
EXTENDS Singleton, FactorialMemo, IndexFactory, Memoize,
        FiniteSetTheorems, SequenceTheorems, TLAPS

-----------------------------------------------------------------------------
(* Memoize, whatever the keys and whether or not computations throw.       *)

MemoTypes ==
  /\ cache \in Seq([key : Key, value : Values \cup {NoValue}])
  /\ memoPc \in [Caller -> {"idle", "compute", "waiting", "woken", "return"}]
  /\ key \in [Caller -> Key]

\* the cache is a map
Unique == \A i, j \in DOMAIN cache : cache[i].key = cache[j].key => i = j

\* whoever computes a value put a placeholder there, which nobody fills for it
Placeholders == \A t \in Caller : memoPc[t] = "compute" =>
  \E i \in DOMAIN cache : cache[i] = [key |-> key[t], value |-> NoValue]

Alone == \A t, u \in Caller :
  memoPc[t] = "compute" /\ memoPc[u] = "compute" /\ key[t] = key[u] => t = u

MemoInv == MemoTypes /\ Unique /\ Placeholders /\ Alone

LEMMA InsertedAt ==
  ASSUME NEW S, NEW s \in Seq(S), NEW n \in 0 .. Len(s), NEW e \in S
  PROVE  /\ InsertAt(s, n + 1, e) \in Seq(S)
         /\ Len(InsertAt(s, n + 1, e)) = Len(s) + 1
         /\ \A i \in 1 .. n : InsertAt(s, n + 1, e)[i] = s[i]
         /\ \A i \in 1 .. Len(s) + 1 : i = n + 1 => InsertAt(s, n + 1, e)[i] = e
         /\ \A i \in n + 1 .. Len(s) : InsertAt(s, n + 1, e)[i + 1] = s[i]
<1> DEFINE a == SubSeq(s, 1, n)
           b == SubSeq(s, n + 1, Len(s))
<1>1. a \in Seq(S) /\ Len(a) = n /\ \A i \in 1 .. n : a[i] = s[i]
  OBVIOUS
<1>2. /\ b \in Seq(S) /\ Len(b) = Len(s) - n
      /\ \A i \in 1 .. Len(s) - n : b[i] = s[n + i]
  OBVIOUS
<1>3. InsertAt(s, n + 1, e) = (a \o <<e>>) \o b
  <2>1. (n + 1) - 1 = n
    OBVIOUS
  <2> QED BY <2>1 DEF InsertAt
<1> HIDE DEF a, b
<1> DEFINE c == a \o <<e>>
<1>4. /\ c \in Seq(S) /\ Len(c) = n + 1 /\ c[n + 1] = e
      /\ \A i \in 1 .. n : c[i] = s[i]
  BY <1>1
<1> HIDE DEF c
<1>5. InsertAt(s, n + 1, e) = c \o b
  BY <1>3 DEF c
<1>6. c \o b \in Seq(S) /\ Len(c \o b) = Len(s) + 1
  <2>1. Len(s) \in Nat /\ n \in Nat
    OBVIOUS
  <2>2. c \o b \in Seq(S)
    BY <1>2, <1>4
  <2>3. Len(c \o b) = Len(c) + Len(b)
    BY <1>2, <1>4, ConcatProperties
  <2> QED BY <1>2, <1>4, <2>1, <2>2, <2>3
<1>7. \A i \in 1 .. n + 1 : (c \o b)[i] = c[i]
  BY <1>2, <1>4
<1>8. \A i \in n + 1 .. Len(s) : (c \o b)[i + 1] = s[i]
  <2> SUFFICES ASSUME NEW i \in n + 1 .. Len(s) PROVE (c \o b)[i + 1] = s[i]
    OBVIOUS
  <2>1. (c \o b)[i + 1] = b[i - n]
    BY <1>2, <1>4
  <2>2. i - n \in 1 .. Len(s) - n /\ n + (i - n) = i
    OBVIOUS
  <2> QED BY <1>2, <2>1, <2>2
<1>9. \A i \in 1 .. n : (c \o b)[i] = s[i]
  BY <1>4, <1>7
<1>10. (c \o b)[n + 1] = e
  BY <1>4, <1>7
<1> QED BY <1>5, <1>6, <1>8, <1>9, <1>10

LEMMA MemoInitInv == ASSUME Key # {}, MemoInit PROVE MemoInv
<1>1. AnyKey \in Key
  BY DEF AnyKey
<1> QED BY <1>1 DEF MemoInit, MemoInv, MemoTypes, Unique, Placeholders, Alone

\* A step of one thread that leaves the cache alone and does not start to compute.
LEMMA AsksAside ==
  ASSUME MemoInv, NEW t \in Caller, NEW l \in {"idle", "waiting", "woken", "return"},
         UNCHANGED cache, memoPc' = [memoPc EXCEPT ![t] = l],
         key' \in [Caller -> Key], \A u \in Caller \ {t} : key'[u] = key[u]
  PROVE  MemoInv'
<1>1. MemoTypes'
  BY DEF MemoInv, MemoTypes
<1>2. Unique'
  BY DEF MemoInv, Unique
<1>3. \A u \in Caller : memoPc'[u] = "compute" =>
        memoPc[u] = "compute" /\ key'[u] = key[u]
  BY DEF MemoInv, MemoTypes
<1>4. Placeholders'
  BY <1>3 DEF MemoInv, Placeholders
<1>5. Alone'
  BY <1>3 DEF MemoInv, Alone
<1> QED BY <1>1, <1>2, <1>4, <1>5 DEF MemoInv

LEMMA InsertSlotInv ==
  ASSUME MemoInv, NEW t \in Caller, NEW k \in Key, memoPc[t] = "idle",
         key' = [key EXCEPT ![t] = k], Missing(k), InsertSlot(t, k)
  PROVE  MemoInv'
<1> DEFINE n == Cardinality({i \in DOMAIN cache : cache[i].key < k})
           e == [key |-> k, value |-> NoValue]
           SlotSet == [key : Key, value : Values \cup {NoValue}]
<1>1. /\ cache' = InsertAt(cache, n + 1, e)
      /\ memoPc' = [memoPc EXCEPT ![t] = "compute"]
  BY DEF InsertSlot, MemoGoesTo
<1>2. cache \in Seq(SlotSet) /\ DOMAIN cache = 1 .. Len(cache) /\ Len(cache) \in Nat
  BY DEF MemoInv, MemoTypes
<1>3. n \in 0 .. Len(cache)
  <2>1. IsFiniteSet(1 .. Len(cache)) /\ Cardinality(1 .. Len(cache)) = Len(cache)
    <3>1. /\ IsFiniteSet(1 .. Len(cache))
          /\ Cardinality(1 .. Len(cache)) =
               IF 1 > Len(cache) THEN 0 ELSE Len(cache) - 1 + 1
      BY <1>2, FS_Interval
    <3> QED BY <1>2, <3>1
  <2>2. {i \in DOMAIN cache : cache[i].key < k} \in SUBSET (1 .. Len(cache))
    BY <1>2
  <2>3. /\ IsFiniteSet({i \in DOMAIN cache : cache[i].key < k})
        /\ n <= Len(cache)
    BY <2>1, <2>2, FS_Subset
  <2>4. n \in Nat
    BY <2>3, FS_CardinalityType
  <2> QED BY <1>2, <2>3, <2>4
<1>4. e \in SlotSet
  OBVIOUS
<1>5. \A i \in DOMAIN cache : cache[i].key # k
  BY DEF Missing, Slots
<1> HIDE DEF n, e, SlotSet
<1>6. /\ cache' \in Seq(SlotSet) /\ Len(cache') = Len(cache) + 1
      /\ \A i \in 1 .. n : cache'[i] = cache[i]
      /\ cache'[n + 1] = e
      /\ \A i \in n + 1 .. Len(cache) : cache'[i + 1] = cache[i]
  <2> HIDE DEF MemoInv, Missing, InsertSlot
  <2> DEFINE r == InsertAt(cache, n + 1, e)
  <2>1. r \in Seq(SlotSet)
    BY <1>2, <1>3, <1>4, InsertedAt
  <2>2. Len(r) = Len(cache) + 1
    BY <1>2, <1>3, <1>4, InsertedAt
  <2>3. \A i \in 1 .. n : r[i] = cache[i]
    BY <1>2, <1>3, <1>4, InsertedAt
  <2>4. r[n + 1] = e
    <3>1. \A i \in 1 .. Len(cache) + 1 : i = n + 1 => r[i] = e
      BY <1>2, <1>3, <1>4, InsertedAt
    <3>2. n + 1 \in 1 .. Len(cache) + 1
      <4>1. Len(cache) \in Nat
        BY <1>2
      <4> QED BY <1>3, <4>1
    <3> QED BY <3>1, <3>2
  <2>5. \A i \in n + 1 .. Len(cache) : r[i + 1] = cache[i]
    BY <1>2, <1>3, <1>4, InsertedAt
  <2> QED BY <1>1, <2>1, <2>2, <2>3, <2>4, <2>5
\* where a slot is after the insertion, and where it was before
<1>7. \A i \in DOMAIN cache : \E j \in DOMAIN cache' : cache'[j] = cache[i]
  <2> SUFFICES ASSUME NEW i \in DOMAIN cache
               PROVE  \E j \in DOMAIN cache' : cache'[j] = cache[i]
    OBVIOUS
  <2>1. DOMAIN cache' = 1 .. Len(cache) + 1
    BY <1>2, <1>6
  <2>2. CASE i <= n
    BY <1>2, <1>3, <1>6, <2>1, <2>2
  <2>3. CASE i > n
    <3>1. i + 1 \in DOMAIN cache' /\ i \in n + 1 .. Len(cache)
      BY <1>2, <1>3, <2>1, <2>3
    <3> QED BY <1>6, <3>1
  <2> QED BY <1>2, <1>3, <2>2, <2>3
<1> DEFINE Was(j) == IF j <= n THEN j ELSE j - 1
<1>8. \A j \in DOMAIN cache' : j # n + 1 => Was(j) \in DOMAIN cache /\ cache'[j] = cache[Was(j)]
  <2> SUFFICES ASSUME NEW j \in DOMAIN cache', j # n + 1
               PROVE  Was(j) \in DOMAIN cache /\ cache'[j] = cache[Was(j)]
    OBVIOUS
  <2>1. j \in 1 .. Len(cache) + 1
    BY <1>2, <1>6
  <2>2. CASE j <= n
    BY <1>2, <1>3, <1>6, <2>1, <2>2
  <2>3. CASE j > n
    <3>1. j - 1 \in n + 1 .. Len(cache) /\ (j - 1) + 1 = j /\ Was(j) = j - 1
      BY <1>2, <1>3, <2>1, <2>3
    <3>2. cache'[j] = cache[j - 1]
      BY <1>6, <3>1
    <3>3. j - 1 \in DOMAIN cache
      BY <1>2, <1>3, <3>1
    <3> QED BY <3>1, <3>2, <3>3
  <2> QED BY <1>3, <2>1, <2>2, <2>3
<1>9. MemoTypes'
  BY <1>1, <1>6 DEF MemoInv, MemoTypes, SlotSet
<1>10. Unique'
  <2> SUFFICES ASSUME NEW i \in DOMAIN cache', NEW j \in DOMAIN cache',
                      cache'[i].key = cache'[j].key
               PROVE  i = j
    BY DEF Unique
  <2>1. i \in Nat /\ j \in Nat /\ n \in Nat
    BY <1>2, <1>3, <1>6
  <2>2. e.key = k
    BY DEF e
  <2>3. CASE i = n + 1 \/ j = n + 1
    BY <1>5, <1>6, <1>8, <2>2, <2>3
  <2>4. CASE i # n + 1 /\ j # n + 1
    <3>1. Was(i) = Was(j)
      BY <1>8, <2>4 DEF MemoInv, Unique
    <3> QED BY <2>1, <2>4, <3>1
  <2> QED BY <2>3, <2>4
<1>11. \A u \in Caller : memoPc'[u] = "compute" =>
         u = t \/ (memoPc[u] = "compute" /\ key'[u] = key[u] /\ key[u] # k)
  <2> SUFFICES ASSUME NEW u \in Caller, memoPc'[u] = "compute", u # t
               PROVE  memoPc[u] = "compute" /\ key'[u] = key[u] /\ key[u] # k
    OBVIOUS
  <2>1. memoPc[u] = "compute" /\ key'[u] = key[u]
    BY <1>1 DEF MemoInv, MemoTypes
  <2>2. \E i \in DOMAIN cache : cache[i].key = key[u]
    BY <2>1 DEF MemoInv, Placeholders
  <2> QED BY <1>5, <2>1, <2>2
<1>12. key'[t] = k
  BY DEF MemoInv, MemoTypes
<1>13. Placeholders'
  <2> SUFFICES ASSUME NEW u \in Caller, memoPc'[u] = "compute"
               PROVE  \E i \in DOMAIN cache' : cache'[i] = [key |-> key'[u], value |-> NoValue]
    BY DEF Placeholders
  <2>1. CASE u = t
    <3>1. n + 1 \in DOMAIN cache'
      BY <1>2, <1>3, <1>6
    <3> QED BY <1>6, <1>12, <2>1, <3>1 DEF e
  <2>2. CASE u # t
    <3>1. PICK i \in DOMAIN cache : cache[i] = [key |-> key[u], value |-> NoValue]
      BY <1>11, <2>2 DEF MemoInv, Placeholders
    <3> QED BY <1>7, <1>11, <2>2, <3>1
  <2> QED BY <2>1, <2>2
<1>14. Alone'
  BY <1>11, <1>12 DEF MemoInv, Alone
<1> QED BY <1>9, <1>10, <1>13, <1>14 DEF MemoInv

LEMMA CallInv == ASSUME MemoInv, NEW t \in Caller, Ask(t) PROVE MemoInv'
<1>1. PICK k \in Key : /\ memoPc[t] = "idle"
                       /\ key' = [key EXCEPT ![t] = k]
                       /\ IF Missing(k) THEN InsertSlot(t, k) ELSE FindSlot(t, k)
  BY DEF Ask
<1>2. CASE Missing(k)
  BY <1>1, <1>2, InsertSlotInv
<1>3. CASE ~Missing(k)
  <2>1. /\ UNCHANGED cache
        /\ \/ memoPc' = [memoPc EXCEPT ![t] = "return"]
           \/ memoPc' = [memoPc EXCEPT ![t] = "waiting"]
    BY <1>1, <1>3 DEF FindSlot, MemoGoesTo
  <2>2. key' \in [Caller -> Key] /\ \A u \in Caller \ {t} : key'[u] = key[u]
    BY <1>1 DEF MemoInv, MemoTypes
  <2> QED BY <2>1, <2>2, AsksAside
<1> QED BY <1>2, <1>3

\* the slot is found anew, so that it is the key's whatever moved meanwhile
LEMMA FillInv == ASSUME MemoInv, NEW t \in Caller, Fill(t) PROVE MemoInv'
<1> DEFINE s == SlotOf(key[t])
           v == Value(key[t])
<1>1. /\ memoPc[t] = "compute" /\ memoPc' = Notified(t) /\ UNCHANGED key
      /\ cache' = [cache EXCEPT ![s].value = v]
  BY DEF Fill
<1>2. s \in DOMAIN cache /\ cache[s].key = key[t]
  <2>1. Slots(key[t]) # {}
    BY <1>1 DEF MemoInv, Placeholders, Slots
  <2>2. s \in Slots(key[t])
    BY <2>1 DEF SlotOf
  <2> QED BY <2>2 DEF Slots
<1>3. v \in Values
  BY DEF MemoInv, MemoTypes, Values
<1> HIDE DEF s, v
<1>4. /\ cache' \in Seq([key : Key, value : Values \cup {NoValue}])
      /\ DOMAIN cache' = DOMAIN cache
  <2> DEFINE R == [key : Key, value : Values \cup {NoValue}]
             filled == [cache[s] EXCEPT !.value = v]
  <2>1. \A r \in R : [r EXCEPT !.value = v] \in R
    BY <1>3
  <2>2. cache \in Seq(R)
    BY DEF MemoInv, MemoTypes
  <2>3. cache' = [cache EXCEPT ![s] = filled]
    BY <1>1
  <2> HIDE DEF R
  <2>4. cache[s] \in R
    BY <1>2, <2>2, ElementOfSeq
  <2>5. filled \in R
    BY <2>1, <2>4
  <2> HIDE DEF filled
  <2>6. cache' \in Seq(R) /\ DOMAIN cache' = DOMAIN cache
    BY <1>2, <2>2, <2>3, <2>5
  <2> QED BY <2>6 DEF R
<1>5. \A i \in DOMAIN cache : /\ cache'[i].key = cache[i].key
                              /\ i # s => cache'[i] = cache[i]
  BY <1>1, <1>2 DEF MemoInv, MemoTypes
<1>6. memoPc' \in [Caller -> {"idle", "compute", "waiting", "woken", "return"}]
  BY <1>1 DEF MemoInv, MemoTypes, Notified
<1>7. \A u \in Caller : memoPc'[u] = "compute" => u # t /\ memoPc[u] = "compute"
  BY <1>1 DEF MemoInv, MemoTypes, Notified
<1>8. MemoTypes'
  BY <1>1, <1>4, <1>6 DEF MemoInv, MemoTypes
<1>9. Unique'
  BY <1>4, <1>5 DEF MemoInv, Unique
<1>10. Placeholders'
  <2> SUFFICES ASSUME NEW u \in Caller, memoPc'[u] = "compute"
               PROVE  \E i \in DOMAIN cache' : cache'[i] = [key |-> key'[u], value |-> NoValue]
    BY DEF Placeholders
  <2>1. u # t /\ memoPc[u] = "compute" /\ key[u] # key[t]
    BY <1>1, <1>7 DEF MemoInv, Alone
  <2>2. PICK i \in DOMAIN cache : cache[i] = [key |-> key[u], value |-> NoValue]
    BY <2>1 DEF MemoInv, Placeholders
  <2>3. i # s
    BY <1>2, <2>1, <2>2
  <2> QED BY <1>1, <1>4, <1>5, <2>2, <2>3
<1>11. Alone'
  BY <1>1, <1>7 DEF MemoInv, Alone
<1> QED BY <1>8, <1>9, <1>10, <1>11 DEF MemoInv

LEMMA MemoNextInv == ASSUME MemoInv, [MemoNext]_memoVars PROVE MemoInv'
<1>1. CASE UNCHANGED memoVars
  BY <1>1 DEF memoVars, MemoInv, MemoTypes, Unique, Placeholders, Alone
<1>2. CASE MemoNext
  <2>1. PICK t \in Caller : \/ Ask(t) \/ Throw(t) \/ Fill(t)
                            \/ SpuriousWake(t) \/ Recheck(t) \/ Use(t)
    BY <1>2 DEF MemoNext
  <2>2. CASE Throw(t)
    BY <2>2, AsksAside DEF Throw, MemoGoesTo, MemoInv, MemoTypes
  <2>3. CASE SpuriousWake(t)
    BY <2>3, AsksAside DEF SpuriousWake, MemoGoesTo, MemoInv, MemoTypes
  <2>4. CASE Recheck(t)
    <3>1. /\ UNCHANGED <<cache, key>>
          /\ \/ memoPc' = [memoPc EXCEPT ![t] = "return"]
             \/ memoPc' = [memoPc EXCEPT ![t] = "waiting"]
      BY <2>4 DEF Recheck, MemoGoesTo
    <3> QED BY <3>1, AsksAside DEF MemoInv, MemoTypes
  <2>5. CASE Use(t)
    <3>1. UNCHANGED <<cache, key>> /\ memoPc' = [memoPc EXCEPT ![t] = "idle"]
      BY <2>5 DEF Use, MemoGoesTo
    <3> QED BY <3>1, AsksAside DEF MemoInv, MemoTypes
  <2> QED BY <2>1, <2>2, <2>3, <2>4, <2>5, CallInv, FillInv
<1> QED BY <1>1, <1>2

\* memoize computes a value once, however many threads ask for it, although the
\* slots of its map move and a computation that throws leaves its placeholder.
THEOREM ComputedOnceCorrect == ASSUME Key # {} PROVE MemoSpec => []ComputedOnce
<1>1. MemoInit => MemoInv
  BY MemoInitInv
<1>2. MemoInv /\ [MemoNext]_memoVars => MemoInv'
  BY MemoNextInv
<1>3. MemoInv => ComputedOnce
  BY DEF MemoInv, MemoTypes, Unique, Placeholders, Alone, ComputedOnce, Slots
<1> QED BY <1>1, <1>2, <1>3, PTL DEF MemoSpec

-----------------------------------------------------------------------------
(* IndexFactory, whatever the spaces and whatever the validator refuses.   *)

\* A thread inserts a counter alone and a counter that is absent; a candidate
\* is one that its counter has reached, and nobody else has or had it.
Exclusive ==
  \A t \in Maker :
    /\ indexMutex = t <=> indexPc[t] = "insert"
    /\ indexPc[t] = "insert" => space[t] \notin DOMAIN counters
    /\ indexPc[t] \in {"count", "validate"} => space[t] \in DOMAIN counters

Reached(x) == x[1] \in DOMAIN counters /\ x[2] <= counters[x[1]]

Candidates ==
  \A t \in Maker : indexPc[t] = "validate" =>
    /\ index[t] \in Space \X Int /\ index[t][1] = space[t] /\ Reached(index[t])
    /\ \A i \in DOMAIN indices : indices[i] # index[t]
    /\ \A u \in Maker \ {t} : indexPc[u] = "validate" => index[u] # index[t]

FactoryTypes ==
  /\ DOMAIN counters \subseteq Space /\ \A s \in DOMAIN counters : counters[s] \in Int
  /\ counters = [s \in DOMAIN counters |-> counters[s]]
  /\ indexPc \in [Maker -> {"idle", "begin", "find", "insert", "count", "validate"}]
  /\ space \in [Maker -> Space]
  /\ DOMAIN index = Maker
  /\ indices \in Seq(Space \X Int) /\ \A i \in DOMAIN indices : Reached(indices[i])

FactoryInv == FactoryTypes /\ Exclusive /\ Candidates /\ LabelsUnique

LEMMA FactoryInitInv == ASSUME Space # {}, FactoryInit PROVE FactoryInv
<1>1. (CHOOSE s \in Space : TRUE) \in Space
  OBVIOUS
<1>2. FactoryTypes
  BY <1>1 DEF FactoryInit, FactoryTypes, Reached
<1>3. Exclusive
  BY ThreadsAssumption, FactoryAssumption DEF FactoryInit, Exclusive
<1>4. Candidates
  BY DEF FactoryInit, Candidates
<1>5. LabelsUnique
  BY DEF FactoryInit, LabelsUnique, IsInjective
<1> QED BY <1>2, <1>3, <1>4, <1>5 DEF FactoryInv

\* A step that changes neither the counters nor the candidates nor what was
\* handed out leaves all that is said of them.
LEMMA MakesAside ==
  ASSUME FactoryInv, NEW t \in Maker, NEW l \in {"begin", "find", "insert", "count"},
         indexPc' = [indexPc EXCEPT ![t] = l], UNCHANGED <<counters, index, indices>>,
         space' \in [Maker -> Space],
         \A u \in Maker \ {t} : space'[u] = space[u]
  PROVE  FactoryTypes' /\ Candidates' /\ LabelsUnique'
<1>1. FactoryTypes'
  BY DEF FactoryInv, FactoryTypes, Reached
<1>2. Candidates'
  BY DEF FactoryInv, FactoryTypes, Candidates, Reached
<1>3. LabelsUnique'
  BY DEF FactoryInv, LabelsUnique
<1> QED BY <1>1, <1>2, <1>3

LEMMA MakeInv ==
  ASSUME FactoryInv, NEW t \in Maker, NEW s \in Space, Make(t, s) PROVE FactoryInv'
<1>1. /\ indexPc' = [indexPc EXCEPT ![t] = "begin"] /\ space' = [space EXCEPT ![t] = s]
      /\ UNCHANGED <<counters, indexMutex, index, indices>> /\ indexPc[t] = "idle"
  BY DEF Make, MakeGoesTo
<1>2. space' \in [Maker -> Space] /\ \A u \in Maker \ {t} : space'[u] = space[u]
  BY <1>1 DEF FactoryInv, FactoryTypes
<1>3. FactoryTypes' /\ Candidates' /\ LabelsUnique'
  BY <1>1, <1>2, MakesAside
<1>4. Exclusive'
  BY <1>1, <1>2 DEF FactoryInv, FactoryTypes, Exclusive
<1> QED BY <1>3, <1>4 DEF FactoryInv

LEMMA BeginMakeInv == ASSUME FactoryInv, NEW t \in Maker, BeginMake(t) PROVE FactoryInv'
<1>1. /\ indexPc' = [indexPc EXCEPT ![t] = "find"] /\ indexPc[t] = "begin"
      /\ UNCHANGED <<counters, indexMutex, space, index, indices>>
  BY DEF BeginMake, MakeGoesTo
<1>2. FactoryTypes' /\ Candidates' /\ LabelsUnique'
  BY <1>1, MakesAside DEF FactoryInv, FactoryTypes
<1>3. Exclusive'
  BY <1>1 DEF FactoryInv, FactoryTypes, Exclusive
<1> QED BY <1>2, <1>3 DEF FactoryInv

LEMMA FindInv == ASSUME FactoryInv, NEW t \in Maker, FindCounter(t) PROVE FactoryInv'
<1>1. /\ indexPc' = [indexPc EXCEPT ![t] = "count"] /\ indexPc[t] = "find"
      /\ space[t] \in DOMAIN counters
      /\ UNCHANGED <<counters, indexMutex, space, index, indices>>
  BY DEF FindCounter, MakeGoesTo
<1>2. FactoryTypes' /\ Candidates' /\ LabelsUnique'
  BY <1>1, MakesAside DEF FactoryInv, FactoryTypes
<1>3. Exclusive'
  BY <1>1 DEF FactoryInv, FactoryTypes, Exclusive
<1> QED BY <1>2, <1>3 DEF FactoryInv

LEMMA NotFoundInv == ASSUME FactoryInv, NEW t \in Maker, NotFound(t) PROVE FactoryInv'
<1>1. /\ indexPc' = [indexPc EXCEPT ![t] = "insert"] /\ indexPc[t] = "find"
      /\ indexMutex = NoThread /\ indexMutex' = t /\ space[t] \notin DOMAIN counters
      /\ UNCHANGED <<counters, space, index, indices>>
  BY DEF NotFound, MakeGoesTo, Inserter
<1>2. FactoryTypes' /\ Candidates' /\ LabelsUnique'
  BY <1>1, MakesAside DEF FactoryInv, FactoryTypes
<1>3. Exclusive'
  BY <1>1, ThreadsAssumption, FactoryAssumption DEF FactoryInv, FactoryTypes, Exclusive
<1> QED BY <1>2, <1>3 DEF FactoryInv

\* the mutex kept every other thread from inserting the counter meanwhile
LEMMA InsertCounterInv ==
  ASSUME FactoryInv, MinIndex \in Int, NEW t \in Maker, InsertCounter(t) PROVE FactoryInv'
<1>1. /\ indexPc' = [indexPc EXCEPT ![t] = "count"] /\ indexPc[t] = "insert"
      /\ indexMutex' = NoThread
      /\ counters' = [s \in DOMAIN counters \cup {space[t]} |->
                        IF s = space[t] THEN MinIndex - 1 ELSE counters[s]]
      /\ UNCHANGED <<space, index, indices>>
  BY DEF InsertCounter, MakeGoesTo
<1>2. space[t] \in Space /\ space[t] \notin DOMAIN counters
  BY <1>1 DEF FactoryInv, FactoryTypes, Exclusive
<1>3. /\ DOMAIN counters' = DOMAIN counters \cup {space[t]}
      /\ \A s \in DOMAIN counters : counters'[s] = counters[s]
      /\ counters'[space[t]] = MinIndex - 1
  BY <1>1, <1>2
<1>4. MinIndex - 1 \in Int
  OBVIOUS
<1>5. \A x : Reached(x) => Reached(x)'
  BY <1>3 DEF Reached
<1>6. FactoryTypes'
  <2>1. \A s \in DOMAIN counters' : counters'[s] \in Int
    BY <1>3, <1>4 DEF FactoryInv, FactoryTypes
  <2>2. counters' = [s \in DOMAIN counters' |-> counters'[s]]
    BY <1>1
  <2>3. \A i \in DOMAIN indices' : Reached(indices[i])'
    BY <1>1, <1>5 DEF FactoryInv, FactoryTypes
  <2> QED BY <1>1, <1>2, <1>3, <2>1, <2>2, <2>3 DEF FactoryInv, FactoryTypes
<1>7. Exclusive'
  BY <1>1, <1>3, ThreadsAssumption, FactoryAssumption DEF FactoryInv, FactoryTypes, Exclusive
<1>8. Candidates'
  BY <1>1, <1>5 DEF FactoryInv, FactoryTypes, Candidates
<1>9. LabelsUnique'
  BY <1>1 DEF FactoryInv, LabelsUnique
<1> QED BY <1>6, <1>7, <1>8, <1>9 DEF FactoryInv

\* the counter passes every candidate and every index handed out of its space
LEMMA CountInv == ASSUME FactoryInv, NEW t \in Maker, Count(t) PROVE FactoryInv'
<1> DEFINE s == space[t]
           n == counters[s] + 1
<1>1. /\ indexPc' = [indexPc EXCEPT ![t] = "validate"] /\ indexPc[t] = "count"
      /\ counters' = [counters EXCEPT ![s] = n]
      /\ index' = [index EXCEPT ![t] = <<s, counters'[s]>>]
      /\ UNCHANGED <<indexMutex, space, indices>>
  BY DEF Count, Increment, MakeGoesTo
<1>2. s \in DOMAIN counters /\ s \in Space /\ counters[s] \in Int
  BY <1>1 DEF FactoryInv, FactoryTypes, Exclusive
<1>3. /\ DOMAIN counters' = DOMAIN counters /\ counters'[s] = n
      /\ \A r \in DOMAIN counters : r # s => counters'[r] = counters[r]
  BY <1>1, <1>2
<1>4. index'[t] = <<s, n>> /\ \A u \in Maker \ {t} : index'[u] = index[u]
  BY <1>1, <1>3 DEF FactoryInv, FactoryTypes
<1>5. n \in Int /\ n > counters[s]
  BY <1>2
<1> HIDE DEF n, s
<1>6. \A x \in Space \X Int : Reached(x) => Reached(x)' /\ x # <<s, n>>
  <2> SUFFICES ASSUME NEW x \in Space \X Int, Reached(x)
               PROVE  Reached(x)' /\ x # <<s, n>>
    OBVIOUS
  <2>1. x[1] \in DOMAIN counters /\ x[2] <= counters[x[1]] /\ x[2] \in Int
    BY DEF Reached
  <2>2. CASE x[1] = s
    BY <1>2, <1>3, <1>5, <2>1, <2>2 DEF Reached
  <2>3. CASE x[1] # s
    BY <1>3, <2>1, <2>3 DEF Reached
  <2> QED BY <2>2, <2>3
<1>7. s \in DOMAIN counters' /\ n <= counters'[s]
  BY <1>2, <1>3, <1>5
<1>8. FactoryTypes'
  <2>1. \A r \in DOMAIN counters' : counters'[r] \in Int
    BY <1>3, <1>5 DEF FactoryInv, FactoryTypes
  <2>2. counters' = [r \in DOMAIN counters' |-> counters'[r]]
    BY <1>1 DEF FactoryInv, FactoryTypes
  <2>3. DOMAIN index' = Maker
    BY <1>1 DEF FactoryInv, FactoryTypes
  <2>4. indexPc' \in [Maker -> {"idle", "begin", "find", "insert", "count", "validate"}]
    BY <1>1 DEF FactoryInv, FactoryTypes
  <2>5. \A i \in DOMAIN indices' : Reached(indices[i])'
    BY <1>1, <1>6 DEF FactoryInv, FactoryTypes
  <2> QED BY <1>1, <1>3, <2>1, <2>2, <2>3, <2>4, <2>5 DEF FactoryInv, FactoryTypes
<1>9. Exclusive'
  BY <1>1, <1>2, <1>3 DEF FactoryInv, FactoryTypes, Exclusive, s
<1>10. Candidates'
  <2> SUFFICES ASSUME NEW u \in Maker, indexPc'[u] = "validate"
               PROVE  /\ index'[u] \in Space \X Int /\ index'[u][1] = space'[u]
                      /\ Reached(index[u])'
                      /\ \A i \in DOMAIN indices' : indices'[i] # index'[u]
                      /\ \A w \in Maker \ {u} : indexPc'[w] = "validate" => index'[w] # index'[u]
    BY DEF Candidates
  <2>1. \A w \in Maker \ {t} : indexPc'[w] = "validate" =>
          /\ indexPc[w] = "validate" /\ index'[w] = index[w]
          /\ index[w] \in Space \X Int /\ Reached(index[w]) /\ index[w][1] = space[w]
    BY <1>1, <1>4 DEF FactoryInv, FactoryTypes, Candidates
  <2>2. CASE u = t
    <3>1. \A i \in DOMAIN indices' : indices'[i] # index'[u]
      BY <1>1, <1>4, <1>6, <2>2 DEF FactoryInv, FactoryTypes
    <3>2. \A w \in Maker \ {u} : indexPc'[w] = "validate" => index'[w] # index'[u]
      BY <1>4, <1>6, <2>1, <2>2
    <3>3. space'[u] = s
      BY <1>1, <2>2 DEF s
    <3>4. Reached(index[u])'
      BY <1>4, <1>7, <2>2 DEF Reached
    <3> QED BY <1>2, <1>4, <1>5, <2>2, <3>1, <3>2, <3>3, <3>4
  <2>3. CASE u # t
    <3>1. \A i \in DOMAIN indices' : indices'[i] # index'[u]
      BY <1>1, <2>1, <2>3 DEF FactoryInv, Candidates
    <3>2. \A w \in Maker \ {u} : indexPc'[w] = "validate" => index'[w] # index'[u]
      <4> SUFFICES ASSUME NEW w \in Maker \ {u}, indexPc'[w] = "validate"
                   PROVE  index'[w] # index'[u]
        OBVIOUS
      <4>1. CASE w = t
        BY <1>4, <1>6, <2>1, <2>3, <4>1
      <4>2. CASE w # t
        BY <2>1, <2>3, <4>2 DEF FactoryInv, Candidates
      <4> QED BY <4>1, <4>2
    <3> QED BY <1>1, <1>6, <2>1, <2>3, <3>1, <3>2
  <2> QED BY <2>2, <2>3
<1>11. LabelsUnique'
  BY <1>1 DEF FactoryInv, LabelsUnique
<1> QED BY <1>8, <1>9, <1>10, <1>11 DEF FactoryInv

LEMMA AcceptInv == ASSUME FactoryInv, NEW t \in Maker, Accept(t) PROVE FactoryInv'
<1>1. /\ indexPc' = [indexPc EXCEPT ![t] = "idle"] /\ indexPc[t] = "validate"
      /\ index[t] \notin Taken
      /\ indices' = Append(indices, index[t]) /\ index' = [index EXCEPT ![t] = NoIndex]
      /\ UNCHANGED <<counters, indexMutex, space>>
  BY DEF Accept, MakeGoesTo
<1>2. /\ index[t] \in Space \X Int /\ Reached(index[t])
      /\ \A i \in DOMAIN indices : indices[i] # index[t]
      /\ \A u \in Maker \ {t} : indexPc[u] = "validate" => index[u] # index[t]
  BY <1>1 DEF FactoryInv, Candidates
<1>3. indices \in Seq(Space \X Int)
  BY DEF FactoryInv, FactoryTypes
<1>4. /\ indices' \in Seq(Space \X Int) /\ DOMAIN indices' = 1 .. Len(indices) + 1
      /\ DOMAIN indices = 1 .. Len(indices) /\ Len(indices) \in Nat
      /\ indices'[Len(indices) + 1] = index[t]
      /\ \A i \in DOMAIN indices : indices'[i] = indices[i]
  BY <1>1, <1>2, <1>3
<1>5. \A i \in DOMAIN indices' : i \in DOMAIN indices \/ i = Len(indices) + 1
  BY <1>4
<1>6. FactoryTypes'
  <2>1. \A i \in DOMAIN indices' : Reached(indices[i])'
    BY <1>1, <1>2, <1>4, <1>5 DEF FactoryInv, FactoryTypes, Reached
  <2>2. DOMAIN index' = Maker
    BY <1>1 DEF FactoryInv, FactoryTypes
  <2>3. indexPc' \in [Maker -> {"idle", "begin", "find", "insert", "count", "validate"}]
    BY <1>1 DEF FactoryInv, FactoryTypes
  <2> QED BY <1>1, <1>4, <2>1, <2>2, <2>3 DEF FactoryInv, FactoryTypes
<1>7. Exclusive'
  BY <1>1 DEF FactoryInv, FactoryTypes, Exclusive
<1>8. Candidates'
  <2> SUFFICES ASSUME NEW u \in Maker, indexPc'[u] = "validate"
               PROVE  /\ index'[u] \in Space \X Int /\ index'[u][1] = space'[u]
                      /\ Reached(index[u])'
                      /\ \A i \in DOMAIN indices' : indices'[i] # index'[u]
                      /\ \A w \in Maker \ {u} : indexPc'[w] = "validate" => index'[w] # index'[u]
    BY DEF Candidates
  <2>1. \A w \in Maker : indexPc'[w] = "validate" =>
          w # t /\ indexPc[w] = "validate" /\ index'[w] = index[w]
    BY <1>1 DEF FactoryInv, FactoryTypes
  <2>2. \A i \in DOMAIN indices' : indices'[i] # index'[u]
    BY <1>2, <1>4, <1>5, <2>1 DEF FactoryInv, Candidates
  <2>3. \A w \in Maker \ {u} : indexPc'[w] = "validate" => index'[w] # index'[u]
    BY <2>1 DEF FactoryInv, Candidates
  <2>4. /\ index[u] \in Space \X Int /\ index[u][1] = space[u] /\ Reached(index[u])
    BY <2>1 DEF FactoryInv, Candidates
  <2> QED BY <1>1, <2>1, <2>2, <2>3, <2>4 DEF Reached
<1>9. LabelsUnique'
  BY <1>1, <1>2, <1>4, <1>5 DEF FactoryInv, LabelsUnique, IsInjective
<1> QED BY <1>6, <1>7, <1>8, <1>9 DEF FactoryInv

LEMMA RefuseInv == ASSUME FactoryInv, NEW t \in Maker, Refuse(t) PROVE FactoryInv'
<1>1. /\ indexPc' = [indexPc EXCEPT ![t] = "begin"] /\ indexPc[t] = "validate"
      /\ UNCHANGED <<counters, indexMutex, space, index, indices>>
  BY DEF Refuse, MakeGoesTo, AfterRefusal
<1>2. FactoryTypes' /\ Candidates' /\ LabelsUnique'
  BY <1>1, MakesAside DEF FactoryInv, FactoryTypes
<1>3. Exclusive'
  BY <1>1 DEF FactoryInv, FactoryTypes, Exclusive
<1> QED BY <1>2, <1>3 DEF FactoryInv

LEMMA FactoryNextInv ==
  ASSUME FactoryInv, MinIndex \in Int, [FactoryNext]_factoryVars PROVE FactoryInv'
<1>1. CASE UNCHANGED factoryVars
  BY <1>1 DEF factoryVars, FactoryInv, FactoryTypes, Exclusive, Candidates, Reached, LabelsUnique
<1>2. CASE FactoryNext
  <2>1. PICK t \in Maker : MakeStep(t) \/ \E s \in Space : Make(t, s)
    BY <1>2 DEF FactoryNext
  <2>2. CASE MakeStep(t)
    BY <2>2, BeginMakeInv, FindInv, NotFoundInv, InsertCounterInv, CountInv, AcceptInv, RefuseInv
       DEF MakeStep
  <2>3. CASE \E s \in Space : Make(t, s)
    BY <2>3, MakeInv
  <2> QED BY <2>1, <2>2, <2>3
<1> QED BY <1>1, <1>2

\* make() of core/index.hpp hands out an index once and none that the validator
\* refuses, however many threads call it for however many spaces.
THEOREM LabelsCorrect ==
  ASSUME Space # {}, MinIndex \in Int
  PROVE  FactorySpec => []LabelsUnique
<1>1. FactoryInit => FactoryInv
  BY FactoryInitInv
<1>2. FactoryInv /\ [FactoryNext]_factoryVars => FactoryInv'
  BY FactoryNextInv
<1>3. FactoryInv => LabelsUnique
  BY DEF FactoryInv
<1> QED BY <1>1, <1>2, <1>3, PTL DEF FactorySpec

-----------------------------------------------------------------------------
(* Singleton.                                                              *)

USE SingletonAssumption, ThreadsAssumption DEF state

\* the mutex serializes construction, and readers see what the owner holds
Serialized ==
  /\ published # 0 => published = owner
  /\ \A t \in Thread : pc[t] = "construct" => owner = 0 /\ published = 0
  /\ \A t \in Thread : pc[t] = "publish" => owner # 0

Inv == TypeOK /\ Serialized /\ OneInstance

LEMMA InitInv == Init => Inv
BY DEF Init, Inv, TypeOK, MutexHeldToConstruct, Serialized, OneInstance, Operation

\* each action keeps the invariant
LEMMA BeginInv == ASSUME Inv, NEW t \in Thread, NEW op \in Operation, Begin(t, op) PROVE Inv'
<1> USE DEF Begin
<1>1. TypeOK'
  <2>1. MutexHeldToConstruct'
    BY DEF Inv, TypeOK, MutexHeldToConstruct
  <2>2. pc' \in [Thread -> {"idle", "load", "lock", "construct", "publish"}]
    <3>1. CASE op = "set_instance"
      BY <3>1 DEF Inv, TypeOK
    <3>2. CASE op # "set_instance"
      BY <3>2 DEF Inv, TypeOK
    <3> QED BY <3>1, <3>2
  <2>3. outcome' \in [Thread -> {"none", "instance", "null", "threw", "ctor threw"}]
    BY DEF Inv, TypeOK
  <2>4. got' \in [Thread -> Nat]
    BY DEF Inv, TypeOK
  <2>5. /\ owner' \in Nat /\ published' \in Nat /\ made' \in Nat
        /\ mutex' \in Thread \cup {NoThread}
    BY DEF Inv, TypeOK
  <2>6. calls' \in [Thread -> 0 .. MaxCalls]
    <3>1. calls' = [calls EXCEPT ![t] = calls[t] + 1] /\ calls[t] < MaxCalls
      OBVIOUS
    <3>2. calls[t] \in 0 .. MaxCalls /\ calls \in [Thread -> 0 .. MaxCalls]
      BY DEF Inv, TypeOK
    <3>3. MaxCalls \in Nat
      BY SingletonAssumption, ThreadsAssumption
    <3> HIDE DEF Begin
    <3>4. calls[t] + 1 \in 0 .. MaxCalls
      BY <3>1, <3>2, <3>3, SMT
    <3> QED BY <3>1, <3>2, <3>4
  <2>7. call' \in [Thread -> Operation]
    BY DEF Inv, TypeOK
  <2> QED BY <2>1, <2>2, <2>3, <2>4, <2>5, <2>6, <2>7 DEF TypeOK
<1>2. Serialized'
  BY DEF Inv, TypeOK, MutexHeldToConstruct, Serialized, OneInstance
<1>3. OneInstance'
  BY DEF Inv, TypeOK, MutexHeldToConstruct, Serialized, OneInstance
<1> QED BY <1>1, <1>2, <1>3 DEF Inv

LEMMA LoadFoundInv == ASSUME Inv, NEW t \in Thread, LoadFound(t) PROVE Inv'
<1> USE DEF LoadFound, Return
<1>1. TypeOK'
  <2>1. MutexHeldToConstruct'
    BY DEF Inv, TypeOK, MutexHeldToConstruct
  <2>2. pc' \in [Thread -> {"idle", "load", "lock", "construct", "publish"}]
    BY DEF Inv, TypeOK
  <2>3. outcome' \in [Thread -> {"none", "instance", "null", "threw", "ctor threw"}]
    BY DEF Inv, TypeOK
  <2>4. got' \in [Thread -> Nat]
    BY DEF Inv, TypeOK
  <2>5. /\ owner' \in Nat /\ published' \in Nat /\ made' \in Nat
        /\ mutex' \in Thread \cup {NoThread}
    BY DEF Inv, TypeOK
  <2>6. calls' \in [Thread -> 0 .. MaxCalls]
    BY DEF Inv, TypeOK
  <2>7. call' \in [Thread -> Operation]
    BY DEF Inv, TypeOK
  <2> QED BY <2>1, <2>2, <2>3, <2>4, <2>5, <2>6, <2>7 DEF TypeOK
<1>2. Serialized'
  BY DEF Inv, TypeOK, MutexHeldToConstruct, Serialized, OneInstance
<1>3. OneInstance'
  BY DEF Inv, TypeOK, MutexHeldToConstruct, Serialized, OneInstance
<1> QED BY <1>1, <1>2, <1>3 DEF Inv

LEMMA LoadEmptyInv == ASSUME Inv, NEW t \in Thread, LoadEmpty(t) PROVE Inv'
<1> USE DEF LoadEmpty, Goto
<1>1. TypeOK'
  <2>1. MutexHeldToConstruct'
    BY DEF Inv, TypeOK, MutexHeldToConstruct
  <2>2. pc' \in [Thread -> {"idle", "load", "lock", "construct", "publish"}]
    BY DEF Inv, TypeOK
  <2>3. outcome' \in [Thread -> {"none", "instance", "null", "threw", "ctor threw"}]
    BY DEF Inv, TypeOK
  <2>4. got' \in [Thread -> Nat]
    BY DEF Inv, TypeOK
  <2>5. /\ owner' \in Nat /\ published' \in Nat /\ made' \in Nat
        /\ mutex' \in Thread \cup {NoThread}
    BY DEF Inv, TypeOK
  <2>6. calls' \in [Thread -> 0 .. MaxCalls]
    BY DEF Inv, TypeOK
  <2>7. call' \in [Thread -> Operation]
    BY DEF Inv, TypeOK
  <2> QED BY <2>1, <2>2, <2>3, <2>4, <2>5, <2>6, <2>7 DEF TypeOK
<1>2. Serialized'
  BY DEF Inv, TypeOK, MutexHeldToConstruct, Serialized, OneInstance
<1>3. OneInstance'
  BY DEF Inv, TypeOK, MutexHeldToConstruct, Serialized, OneInstance
<1> QED BY <1>1, <1>2, <1>3 DEF Inv

LEMMA LoadFailsInv == ASSUME Inv, NEW t \in Thread, LoadFails(t) PROVE Inv'
<1> USE DEF LoadFails, Return
<1>1. TypeOK'
  <2>1. MutexHeldToConstruct'
    BY DEF Inv, TypeOK, MutexHeldToConstruct
  <2>2. pc' \in [Thread -> {"idle", "load", "lock", "construct", "publish"}]
    BY DEF Inv, TypeOK
  <2>3. outcome' \in [Thread -> {"none", "instance", "null", "threw", "ctor threw"}]
    BY DEF Inv, TypeOK
  <2>4. got' \in [Thread -> Nat]
    BY DEF Inv, TypeOK
  <2>5. /\ owner' \in Nat /\ published' \in Nat /\ made' \in Nat
        /\ mutex' \in Thread \cup {NoThread}
    BY DEF Inv, TypeOK
  <2>6. calls' \in [Thread -> 0 .. MaxCalls]
    BY DEF Inv, TypeOK
  <2>7. call' \in [Thread -> Operation]
    BY DEF Inv, TypeOK
  <2> QED BY <2>1, <2>2, <2>3, <2>4, <2>5, <2>6, <2>7 DEF TypeOK
<1>2. Serialized'
  BY DEF Inv, TypeOK, MutexHeldToConstruct, Serialized, OneInstance
<1>3. OneInstance'
  BY DEF Inv, TypeOK, MutexHeldToConstruct, Serialized, OneInstance
<1> QED BY <1>1, <1>2, <1>3 DEF Inv

LEMMA LockFoundInv == ASSUME Inv, NEW t \in Thread, LockFound(t) PROVE Inv'
<1> USE DEF LockFound, Found
<1>0. Return(t, "threw", 0) \/ Return(t, "instance", owner)
  BY DEF WhenFound
<1>1. TypeOK'
  <2>1. MutexHeldToConstruct'
    BY <1>0 DEF Return, Inv, TypeOK, MutexHeldToConstruct
  <2>2. pc' \in [Thread -> {"idle", "load", "lock", "construct", "publish"}]
    BY <1>0 DEF Return, Inv, TypeOK
  <2>3. outcome' \in [Thread -> {"none", "instance", "null", "threw", "ctor threw"}]
    BY <1>0 DEF Return, Inv, TypeOK
  <2>4. got' \in [Thread -> Nat]
    <3>1. got \in [Thread -> Nat] /\ owner \in Nat
      BY DEF Inv, TypeOK
    <3>2. got' = [got EXCEPT ![t] = 0] \/ got' = [got EXCEPT ![t] = owner]
      BY <1>0 DEF Return
    <3> HIDE DEF LockFound
    <3> QED BY <3>1, <3>2
  <2>5. /\ owner' \in Nat /\ published' \in Nat /\ made' \in Nat
        /\ mutex' \in Thread \cup {NoThread}
    BY DEF Inv, TypeOK
  <2>6. calls' \in [Thread -> 0 .. MaxCalls]
    BY DEF Inv, TypeOK
  <2>7. call' \in [Thread -> Operation]
    BY DEF Inv, TypeOK
  <2> QED BY <2>1, <2>2, <2>3, <2>4, <2>5, <2>6, <2>7 DEF TypeOK
<1>2. Serialized'
  BY <1>0 DEF Return, Inv, TypeOK, MutexHeldToConstruct, Serialized, OneInstance
<1>3. OneInstance'
  BY <1>0 DEF Return, Inv, TypeOK, MutexHeldToConstruct, Serialized, OneInstance
<1> QED BY <1>1, <1>2, <1>3 DEF Inv

LEMMA LockEmptyInv == ASSUME Inv, NEW t \in Thread, LockEmpty(t) PROVE Inv'
<1> USE DEF LockEmpty, Found, Goto
<1>1. TypeOK'
  <2>1. MutexHeldToConstruct'
    BY DEF Inv, TypeOK, MutexHeldToConstruct
  <2>2. pc' \in [Thread -> {"idle", "load", "lock", "construct", "publish"}]
    BY DEF Inv, TypeOK
  <2>3. outcome' \in [Thread -> {"none", "instance", "null", "threw", "ctor threw"}]
    BY DEF Inv, TypeOK
  <2>4. got' \in [Thread -> Nat]
    BY DEF Inv, TypeOK
  <2>5. /\ owner' \in Nat /\ published' \in Nat /\ made' \in Nat
        /\ mutex' \in Thread \cup {NoThread}
    BY DEF Inv, TypeOK
  <2>6. calls' \in [Thread -> 0 .. MaxCalls]
    BY DEF Inv, TypeOK
  <2>7. call' \in [Thread -> Operation]
    BY DEF Inv, TypeOK
  <2> QED BY <2>1, <2>2, <2>3, <2>4, <2>5, <2>6, <2>7 DEF TypeOK
<1>2. Serialized'
  BY DEF Inv, TypeOK, MutexHeldToConstruct, Serialized, OneInstance
<1>3. OneInstance'
  BY DEF Inv, TypeOK, MutexHeldToConstruct, Serialized, OneInstance
<1> QED BY <1>1, <1>2, <1>3 DEF Inv

LEMMA ConstructInv == ASSUME Inv, NEW t \in Thread, Construct(t) PROVE Inv'
<1> USE DEF Construct, Goto
<1>0. made' \in Nat \ {0} /\ owner' = made'
  <2>1. made' = made + 1 /\ owner' = made'
    OBVIOUS
  <2>2. made \in Nat
    BY DEF Inv, TypeOK
  <2> HIDE DEF Construct
  <2> QED BY <2>1, <2>2, SMT
<1>1. TypeOK'
  <2>1. MutexHeldToConstruct'
    BY DEF Inv, TypeOK, MutexHeldToConstruct
  <2>2. pc' \in [Thread -> {"idle", "load", "lock", "construct", "publish"}]
    BY DEF Inv, TypeOK
  <2>3. outcome' \in [Thread -> {"none", "instance", "null", "threw", "ctor threw"}]
    BY DEF Inv, TypeOK
  <2>4. got' \in [Thread -> Nat]
    BY DEF Inv, TypeOK
  <2>5. /\ owner' \in Nat /\ published' \in Nat /\ made' \in Nat
        /\ mutex' \in Thread \cup {NoThread}
    BY <1>0 DEF Inv, TypeOK
  <2>6. calls' \in [Thread -> 0 .. MaxCalls]
    BY DEF Inv, TypeOK
  <2>7. call' \in [Thread -> Operation]
    BY DEF Inv, TypeOK
  <2> QED BY <2>1, <2>2, <2>3, <2>4, <2>5, <2>6, <2>7 DEF TypeOK
<1>2. Serialized'
  <2>1. \A u \in Thread \ {t} : pc[u] \notin {"construct", "publish"}
    BY DEF Inv, TypeOK, MutexHeldToConstruct
  <2>2. \A u \in Thread : pc'[u] # "construct"
    BY <2>1 DEF Inv, TypeOK
  <2>3. published = 0
    BY DEF Inv, Serialized
  <2> QED BY <1>0, <2>2, <2>3 DEF Serialized
<1>3. OneInstance'
  BY DEF Inv, TypeOK, MutexHeldToConstruct, Serialized, OneInstance
<1> QED BY <1>1, <1>2, <1>3 DEF Inv

LEMMA ConstructThrowsInv == ASSUME Inv, NEW t \in Thread, ConstructThrows(t) PROVE Inv'
<1> USE DEF ConstructThrows, HolderAfterThrow, Return
<1>1. TypeOK'
  <2>1. MutexHeldToConstruct'
    BY DEF Inv, TypeOK, MutexHeldToConstruct
  <2>2. pc' \in [Thread -> {"idle", "load", "lock", "construct", "publish"}]
    BY DEF Inv, TypeOK
  <2>3. outcome' \in [Thread -> {"none", "instance", "null", "threw", "ctor threw"}]
    BY DEF Inv, TypeOK
  <2>4. got' \in [Thread -> Nat]
    BY DEF Inv, TypeOK
  <2>5. /\ owner' \in Nat /\ published' \in Nat /\ made' \in Nat
        /\ mutex' \in Thread \cup {NoThread}
    BY DEF Inv, TypeOK
  <2>6. calls' \in [Thread -> 0 .. MaxCalls]
    BY DEF Inv, TypeOK
  <2>7. call' \in [Thread -> Operation]
    BY DEF Inv, TypeOK
  <2> QED BY <2>1, <2>2, <2>3, <2>4, <2>5, <2>6, <2>7 DEF TypeOK
<1>2. Serialized'
  BY DEF Inv, TypeOK, MutexHeldToConstruct, Serialized, OneInstance
<1>3. OneInstance'
  BY DEF Inv, TypeOK, MutexHeldToConstruct, Serialized, OneInstance
<1> QED BY <1>1, <1>2, <1>3 DEF Inv

LEMMA PublishInv == ASSUME Inv, NEW t \in Thread, Publish(t) PROVE Inv'
<1> USE DEF Publish, PublishedPointer, Return
<1>1. TypeOK'
  <2>1. MutexHeldToConstruct'
    BY DEF Inv, TypeOK, MutexHeldToConstruct
  <2>2. pc' \in [Thread -> {"idle", "load", "lock", "construct", "publish"}]
    BY DEF Inv, TypeOK
  <2>3. outcome' \in [Thread -> {"none", "instance", "null", "threw", "ctor threw"}]
    BY DEF Inv, TypeOK
  <2>4. got' \in [Thread -> Nat]
    BY DEF Inv, TypeOK
  <2>5. /\ owner' \in Nat /\ published' \in Nat /\ made' \in Nat
        /\ mutex' \in Thread \cup {NoThread}
    BY DEF Inv, TypeOK
  <2>6. calls' \in [Thread -> 0 .. MaxCalls]
    BY DEF Inv, TypeOK
  <2>7. call' \in [Thread -> Operation]
    BY DEF Inv, TypeOK
  <2> QED BY <2>1, <2>2, <2>3, <2>4, <2>5, <2>6, <2>7 DEF TypeOK
<1>2. Serialized'
  <2>1. \A u \in Thread \ {t} : pc[u] \notin {"construct", "publish"}
    BY DEF Inv, TypeOK, MutexHeldToConstruct
  <2>2. \A u \in Thread : pc'[u] \notin {"construct", "publish"}
    BY <2>1 DEF Inv, TypeOK
  <2>3. published' = owner'
    OBVIOUS
  <2> QED BY <2>2, <2>3 DEF Serialized
<1>3. OneInstance'
  BY DEF Inv, TypeOK, MutexHeldToConstruct, Serialized, OneInstance
<1> QED BY <1>1, <1>2, <1>3 DEF Inv

LEMMA NextInv == Inv /\ [Next]_vars => Inv'
<1> SUFFICES ASSUME Inv, [Next]_vars PROVE Inv'
  OBVIOUS
<1>1. ASSUME NEW t \in Thread, NEW op \in Operation, Begin(t, op) PROVE Inv'
  BY <1>1, BeginInv
<1>2. ASSUME NEW t \in Thread, LoadFound(t) \/ LoadEmpty(t) \/ LoadFails(t) PROVE Inv'
  BY <1>2, LoadFoundInv, LoadEmptyInv, LoadFailsInv
<1>3. ASSUME NEW t \in Thread, LockFound(t) PROVE Inv'
  BY <1>3, LockFoundInv
<1>4. ASSUME NEW t \in Thread, LockEmpty(t) PROVE Inv'
  BY <1>4, LockEmptyInv
<1>5. ASSUME NEW t \in Thread, Construct(t) PROVE Inv'
  BY <1>5, ConstructInv
<1>6. ASSUME NEW t \in Thread, ConstructThrows(t) PROVE Inv'
  BY <1>6, ConstructThrowsInv
<1>7. ASSUME NEW t \in Thread, Publish(t) PROVE Inv'
  BY <1>7, PublishInv
<1>8. CASE UNCHANGED vars
  BY <1>8 DEF vars, Inv, TypeOK, MutexHeldToConstruct, Serialized, OneInstance
<1> QED BY <1>1, <1>2, <1>3, <1>4, <1>5, <1>6, <1>7, <1>8 DEF Next

\* The variables keep their types, and the mutex is held by the thread that
\* constructs the object and by no other (core/utility/singleton.hpp).
THEOREM TypeCorrect == Spec => []TypeOK
<1>1. Inv => TypeOK BY DEF Inv
<1> QED BY <1>1, InitInv, NextInv, PTL DEF Spec

\* A first use that races another or set_instance never constructs a second
\* object: every call that returns an object returns the one the owner holds.
THEOREM OneInstanceCorrect == Spec => []OneInstance
<1>1. Inv => OneInstance BY DEF Inv
<1> QED BY <1>1, InitInv, NextInv, PTL DEF Spec

HIDE DEF state

-----------------------------------------------------------------------------
(* The factorial table.                                                    *)

LEMMA FactorialConstants ==
  /\ NPre \in Nat /\ MaxN \in Nat /\ NPre <= MaxN /\ MaxCalls \in Nat
  /\ NoThread \notin Thread
  /\ Factorial \in [0 .. MaxN -> Nat]
  /\ Factorial[0] = 1
BY FactorialAssumption, ThreadsAssumption

USE FactorialConstants

\* a vector holds factorials, and none beyond the largest argument
VectorsRight ==
  \A v \in DOMAIN vectors :
    /\ Len(vectors[v]) <= MaxN - NPre
    /\ \A i \in DOMAIN vectors[v] : vectors[v][i] = Factorial[NPre + i]

\* the vector being extended is not null, and nobody else knows it
NewVectorPrivate ==
  /\ \A t \in Thread : at[t] # "idle" => arg[t] > NPre
  /\ \A t \in Thread : at[t] = "extend" =>
       /\ new[t] # 0 /\ new[t] # memvals
       /\ \A u \in Thread : handle[u] # new[t]

FactorialInv == FactorialTypeOK /\ VectorsRight /\ NewVectorPrivate /\ FactorialsRight

LEMMA FactorialInitInv == FactorialInit => FactorialInv
<1> SUFFICES ASSUME FactorialInit PROVE FactorialInv
  OBVIOUS
<1>1. FactorialTypeOK
  BY DEF FactorialInit, FactorialTypeOK
<1>2. VectorsRight
  BY DEF FactorialInit, VectorsRight
<1>3. NewVectorPrivate /\ FactorialsRight
  BY DEF FactorialInit, NewVectorPrivate, FactorialsRight
<1> QED BY <1>1, <1>2, <1>3 DEF FactorialInv

LEMMA PositionType ==
  ASSUME FactorialTypeOK, NEW t \in Thread, arg[t] > NPre
  PROVE  Position(t) \in Nat \ {0} /\ NPre + Position(t) = arg[t]
<1>1. arg[t] \in Nat /\ NPre \in Nat
  BY DEF FactorialTypeOK
<1>2. \A n \in Nat : n > NPre => n - NPre \in Nat \ {0} /\ NPre + (n - NPre) = n
  BY <1>1
<1> QED BY <1>1, <1>2 DEF Position

\* the value a call takes from a vector long enough is the factorial of its argument
LEMMA KnownIsFactorial ==
  ASSUME FactorialInv, NEW t \in Thread, NEW v \in 0 .. Len(vectors),
         arg[t] > NPre, Known(v) >= Position(t)
  PROVE  /\ v \in DOMAIN vectors
         /\ vectors[v][Position(t)] \in Nat
         /\ vectors[v][Position(t)] = Factorial[arg[t]]
<1>1. Position(t) \in Nat \ {0} /\ NPre + Position(t) = arg[t]
  BY PositionType DEF FactorialInv
<1>2. v # 0
  BY <1>1 DEF Known
<1>3. v \in DOMAIN vectors
  BY <1>2 DEF FactorialInv, FactorialTypeOK
<1>4. Known(v) = Len(vectors[v]) /\ vectors[v] \in Seq(Nat)
  BY <1>2, <1>3 DEF Known, FactorialInv, FactorialTypeOK
<1>5. Position(t) \in DOMAIN vectors[v]
  BY <1>1, <1>4
<1>6. vectors[v][Position(t)] \in Nat
  BY <1>4, <1>5
<1>7. vectors[v][Position(t)] = Factorial[NPre + Position(t)]
  BY <1>3, <1>5 DEF FactorialInv, VectorsRight
<1> QED BY <1>1, <1>3, <1>6, <1>7

LEMMA PrecomputedInv == ASSUME FactorialInv, NEW t \in Thread, NEW n \in 0 .. MaxN, Precomputed(t, n) PROVE FactorialInv'
<1> USE DEF Precomputed, ReturnValue, GoTo
<1>1. FactorialTypeOK'
  <2>1. asked' \in [Thread -> 0 .. MaxCalls]
    <3>1. asked' = [asked EXCEPT ![t] = asked[t] + 1] /\ asked[t] < MaxCalls
      OBVIOUS
    <3>2. asked[t] \in 0 .. MaxCalls /\ asked \in [Thread -> 0 .. MaxCalls]
      BY DEF FactorialInv, FactorialTypeOK
    <3> HIDE DEF Precomputed
    <3>3. asked[t] + 1 \in 0 .. MaxCalls
      BY <3>1, <3>2
    <3> QED BY <3>1, <3>2, <3>3
  <2>2. result' \in [Thread -> Nat]
    BY DEF FactorialInv, FactorialTypeOK
  <2> QED BY <2>1, <2>2 DEF FactorialInv, FactorialTypeOK
<1>2. VectorsRight'
  BY DEF FactorialInv, FactorialTypeOK, VectorsRight
<1>3. NewVectorPrivate'
  BY DEF FactorialInv, FactorialTypeOK, NewVectorPrivate
<1>4. FactorialsRight'
  BY DEF FactorialInv, FactorialTypeOK, FactorialsRight
<1> QED BY <1>1, <1>2, <1>3, <1>4 DEF FactorialInv

LEMMA FactorialBeginInv == ASSUME FactorialInv, NEW t \in Thread, NEW n \in 0 .. MaxN, BeginFactorial(t, n) PROVE FactorialInv'
<1> USE DEF BeginFactorial, GoTo
<1>1. FactorialTypeOK'
  <2>1. asked' \in [Thread -> 0 .. MaxCalls]
    <3>1. asked' = [asked EXCEPT ![t] = asked[t] + 1] /\ asked[t] < MaxCalls
      OBVIOUS
    <3>2. asked[t] \in 0 .. MaxCalls /\ asked \in [Thread -> 0 .. MaxCalls]
      BY DEF FactorialInv, FactorialTypeOK
    <3> HIDE DEF BeginFactorial
    <3>3. asked[t] + 1 \in 0 .. MaxCalls
      BY <3>1, <3>2
    <3> QED BY <3>1, <3>2, <3>3
  <2> QED BY <2>1 DEF FactorialInv, FactorialTypeOK
<1>2. VectorsRight'
  BY DEF FactorialInv, FactorialTypeOK, VectorsRight
<1>3. NewVectorPrivate'
  BY DEF FactorialInv, FactorialTypeOK, NewVectorPrivate
<1>4. FactorialsRight'
  BY DEF FactorialInv, FactorialTypeOK, FactorialsRight
<1> QED BY <1>1, <1>2, <1>3, <1>4 DEF FactorialInv

LEMMA FactorialLoadInv == ASSUME FactorialInv, NEW t \in Thread, Load(t) PROVE FactorialInv'
<1> USE DEF Load, GoTo
<1>1. FactorialTypeOK'
  BY DEF FactorialInv, FactorialTypeOK
<1>2. VectorsRight'
  BY DEF FactorialInv, FactorialTypeOK, VectorsRight
<1>3. NewVectorPrivate'
  BY DEF FactorialInv, FactorialTypeOK, NewVectorPrivate
<1>4. FactorialsRight'
  BY DEF FactorialInv, FactorialTypeOK, FactorialsRight
<1> QED BY <1>1, <1>2, <1>3, <1>4 DEF FactorialInv

LEMMA HitInv == ASSUME FactorialInv, NEW t \in Thread, Hit(t) PROVE FactorialInv'
<1> USE DEF Hit, ReturnValue, GoTo
<1>0. /\ vectors[handle[t]][Position(t)] \in Nat
      /\ vectors[handle[t]][Position(t)] = Factorial[arg[t]]
  <2>1. arg[t] > NPre /\ handle[t] \in 0 .. Len(vectors)
    BY DEF FactorialInv, FactorialTypeOK, NewVectorPrivate
  <2> QED BY <2>1, KnownIsFactorial
<1> DEFINE value == vectors[handle[t]][Position(t)]
<1>5. result' = [result EXCEPT ![t] = value] /\ value \in Nat /\ value = Factorial[arg[t]]
  BY <1>0
<1> HIDE DEF value
<1>1. FactorialTypeOK'
  <2>1. result' \in [Thread -> Nat]
    BY <1>5 DEF FactorialInv, FactorialTypeOK
  <2> QED BY <2>1 DEF FactorialInv, FactorialTypeOK
<1>2. VectorsRight'
  BY DEF FactorialInv, FactorialTypeOK, VectorsRight
<1>3. NewVectorPrivate'
  BY DEF FactorialInv, FactorialTypeOK, NewVectorPrivate
<1>4. FactorialsRight'
  BY <1>5 DEF FactorialInv, FactorialTypeOK, FactorialsRight
<1> QED BY <1>1, <1>2, <1>3, <1>4 DEF FactorialInv

LEMMA MissInv == ASSUME FactorialInv, NEW t \in Thread, Miss(t) PROVE FactorialInv'
<1> USE DEF Miss, GoTo
<1>1. FactorialTypeOK'
  BY DEF FactorialInv, FactorialTypeOK
<1>2. VectorsRight'
  BY DEF FactorialInv, FactorialTypeOK, VectorsRight
<1>3. NewVectorPrivate'
  BY DEF FactorialInv, FactorialTypeOK, NewVectorPrivate
<1>4. FactorialsRight'
  BY DEF FactorialInv, FactorialTypeOK, FactorialsRight
<1> QED BY <1>1, <1>2, <1>3, <1>4 DEF FactorialInv

LEMMA LockInv == ASSUME FactorialInv, NEW t \in Thread, LockTable(t) PROVE FactorialInv'
<1> USE DEF LockTable, Reload, GoTo
<1>1. FactorialTypeOK'
  BY DEF FactorialInv, FactorialTypeOK
<1>2. VectorsRight'
  BY DEF FactorialInv, FactorialTypeOK, VectorsRight
<1>3. NewVectorPrivate'
  BY DEF FactorialInv, FactorialTypeOK, NewVectorPrivate
<1>4. FactorialsRight'
  BY DEF FactorialInv, FactorialTypeOK, FactorialsRight
<1> QED BY <1>1, <1>2, <1>3, <1>4 DEF FactorialInv

LEMMA LockedHitInv == ASSUME FactorialInv, NEW t \in Thread, LockedHit(t) PROVE FactorialInv'
<1> USE DEF LockedHit, ReturnValue, GoTo
<1>0. /\ vectors[handle[t]][Position(t)] \in Nat
      /\ vectors[handle[t]][Position(t)] = Factorial[arg[t]]
  <2>1. arg[t] > NPre /\ handle[t] \in 0 .. Len(vectors)
    BY DEF FactorialInv, FactorialTypeOK, NewVectorPrivate
  <2> QED BY <2>1, KnownIsFactorial
<1> DEFINE value == vectors[handle[t]][Position(t)]
<1>5. result' = [result EXCEPT ![t] = value] /\ value \in Nat /\ value = Factorial[arg[t]]
  BY <1>0
<1> HIDE DEF value
<1>1. FactorialTypeOK'
  <2>1. result' \in [Thread -> Nat]
    BY <1>5 DEF FactorialInv, FactorialTypeOK
  <2> QED BY <2>1 DEF FactorialInv, FactorialTypeOK
<1>2. VectorsRight'
  BY DEF FactorialInv, FactorialTypeOK, VectorsRight
<1>3. NewVectorPrivate'
  BY DEF FactorialInv, FactorialTypeOK, NewVectorPrivate
<1>4. FactorialsRight'
  BY <1>5 DEF FactorialInv, FactorialTypeOK, FactorialsRight
<1> QED BY <1>1, <1>2, <1>3, <1>4 DEF FactorialInv

LEMMA CopyInv == ASSUME FactorialInv, NEW t \in Thread, Copy(t) PROVE FactorialInv'
<1> USE DEF Copy, NewVector, GoTo
<1> DEFINE base == IF handle[t] = 0 THEN << >> ELSE vectors[handle[t]]
<1>0. /\ base \in Seq(Nat) /\ Len(base) <= MaxN - NPre
      /\ \A i \in DOMAIN base : base[i] = Factorial[NPre + i]
  <2>1. CASE handle[t] = 0
    <3>1. base = << >>
      BY <2>1
    <3> HIDE DEF base, Copy
    <3>2. base \in Seq(Nat) /\ Len(base) = 0 /\ DOMAIN base = {}
      BY <3>1
    <3>3. NPre \in Nat /\ MaxN \in Nat /\ NPre <= MaxN
      BY FactorialConstants
    <3> QED BY <3>2, <3>3
  <2>2. CASE handle[t] # 0
    <3>1. handle[t] \in DOMAIN vectors /\ base = vectors[handle[t]]
      BY <2>2 DEF FactorialInv, FactorialTypeOK
    <3>2. vectors[handle[t]] \in Seq(Nat)
      BY <3>1 DEF FactorialInv, FactorialTypeOK
    <3>3. /\ Len(vectors[handle[t]]) <= MaxN - NPre
          /\ \A i \in DOMAIN vectors[handle[t]] :
               vectors[handle[t]][i] = Factorial[NPre + i]
      BY <3>1 DEF FactorialInv, VectorsRight
    <3> HIDE DEF base, Copy
    <3> QED BY <3>1, <3>2, <3>3
  <2> QED BY <2>1, <2>2
<1>5. /\ vectors' = Append(vectors, base)
      /\ new' = [new EXCEPT ![t] = Len(vectors) + 1]
      /\ vectors \in Seq(Seq(Nat))
  BY DEF FactorialInv, FactorialTypeOK
<1> HIDE DEF base
<1>6. /\ vectors' \in Seq(Seq(Nat)) /\ Len(vectors') = Len(vectors) + 1
      /\ \A v \in DOMAIN vectors : vectors'[v] = vectors[v]
      /\ vectors'[Len(vectors) + 1] = base
  <2> HIDE DEF Copy
  <2>1. vectors' \in Seq(Seq(Nat)) /\ Len(vectors') = Len(vectors) + 1
    BY <1>0, <1>5
  <2>2. \A v \in DOMAIN vectors : vectors'[v] = vectors[v]
    BY <1>0, <1>5
  <2>3. vectors'[Len(vectors) + 1] = base
    BY <1>0, <1>5
  <2> QED BY <2>1, <2>2, <2>3
<1>1. FactorialTypeOK'
  <2>1. /\ memvals \in 0 .. Len(vectors) /\ handle \in [Thread -> 0 .. Len(vectors)]
        /\ new \in [Thread -> 0 .. Len(vectors)] /\ Len(vectors) \in Nat
    BY <1>5 DEF FactorialInv, FactorialTypeOK
  <2>2. 0 .. Len(vectors) \subseteq 0 .. Len(vectors')
    BY <1>6, <2>1
  <2>3. memvals' \in 0 .. Len(vectors') /\ handle' \in [Thread -> 0 .. Len(vectors')]
    BY <2>1, <2>2
  <2>4. new' \in [Thread -> 0 .. Len(vectors')]
    BY <1>5, <1>6, <2>1, <2>2
  <2> QED BY <1>6, <2>3, <2>4 DEF FactorialInv, FactorialTypeOK
<1>2. VectorsRight'
  <2> SUFFICES ASSUME NEW v \in DOMAIN vectors'
               PROVE /\ Len(vectors'[v]) <= MaxN - NPre
                     /\ \A i \in DOMAIN vectors'[v] : vectors'[v][i] = Factorial[NPre + i]
    BY DEF VectorsRight
  <2>1. CASE v \in DOMAIN vectors
    BY <1>6, <2>1 DEF FactorialInv, VectorsRight
  <2>2. CASE v \notin DOMAIN vectors
    <3>1. v = Len(vectors) + 1
      BY <1>5, <1>6, <2>2
    <3> QED BY <1>0, <1>6, <3>1
  <2> QED BY <2>1, <2>2
<1>3. NewVectorPrivate'
  <2>1. /\ at'[t] = "extend" /\ at[t] = "locked"
        /\ \A u \in Thread \ {t} : at'[u] = at[u]
        /\ arg' = arg /\ memvals' = memvals /\ handle' = handle
    BY DEF FactorialInv, FactorialTypeOK
  <2>2. /\ \A u \in Thread : handle[u] # Len(vectors) + 1 /\ memvals # Len(vectors) + 1
        /\ Len(vectors) + 1 # 0
    <3>1. /\ \A u \in Thread : handle[u] \in 0 .. Len(vectors)
          /\ memvals \in 0 .. Len(vectors) /\ Len(vectors) \in Nat
      BY <1>5 DEF FactorialInv, FactorialTypeOK
    <3> HIDE DEF Copy, NewVector
    <3> QED BY <3>1
  <2>3. new'[t] = Len(vectors) + 1 /\ \A u \in Thread \ {t} : new'[u] = new[u]
    BY <1>5 DEF FactorialInv, FactorialTypeOK
  <2> HIDE DEF Copy, NewVector
  <2> QED BY <2>1, <2>2, <2>3 DEF FactorialInv, NewVectorPrivate
<1>4. FactorialsRight'
  BY DEF FactorialInv, FactorialTypeOK, FactorialsRight
<1> QED BY <1>1, <1>2, <1>3, <1>4 DEF FactorialInv

LEMMA ExtendInv == ASSUME FactorialInv, NEW t \in Thread, Extend(t) PROVE FactorialInv'
<1> USE DEF Extend
<1> DEFINE v == vectors[new[t]]
           last == IF v = << >> THEN Factorial[NPre] ELSE v[Len(v)]
<1>0. new[t] \in DOMAIN vectors /\ v \in Seq(Nat) /\ Len(v) \in Nat
  BY DEF FactorialInv, FactorialTypeOK, NewVectorPrivate
<1>5. Len(v) < Position(t) /\ Position(t) \in Nat /\ NPre + Position(t) <= MaxN
  <2>1. arg[t] > NPre /\ arg[t] <= MaxN
    BY DEF FactorialInv, FactorialTypeOK, NewVectorPrivate
  <2>2. Position(t) \in Nat /\ NPre + Position(t) = arg[t]
    BY <2>1, PositionType DEF FactorialInv
  <2>3. Known(new[t]) = Len(v) /\ Known(new[t]) < Position(t)
    BY DEF Known, FactorialInv, NewVectorPrivate
  <2> QED BY <2>1, <2>2, <2>3
<1>6. last = Factorial[NPre + Len(v)]
  <2>1. CASE v = << >>
    BY <2>1
  <2>2. CASE v # << >>
    <3>1. Len(v) \in DOMAIN v
      BY <1>0, <2>2
    <3> QED BY <1>0, <2>2, <3>1 DEF FactorialInv, VectorsRight
  <2> QED BY <2>1, <2>2
<1>7. vectors' = [vectors EXCEPT ![new[t]] = Append(v, last * (Len(v) + NPre + 1))]
  BY DEF Factor
<1>8. last * (Len(v) + NPre + 1) = Factorial[NPre + (Len(v) + 1)]
  <2> DEFINE k == NPre + Len(v) + 1
  <2>1. k \in 1 .. MaxN /\ k - 1 = NPre + Len(v) /\ k = NPre + (Len(v) + 1)
        /\ Len(v) + NPre + 1 = k
    <3> DEFINE n == Len(v)
    <3>1. n \in Nat /\ n < Position(t) /\ Position(t) \in Nat /\ NPre + Position(t) <= MaxN
      BY <1>0, <1>5
    <3>2. NPre \in Nat /\ MaxN \in Nat
      BY FactorialAssumption, ThreadsAssumption
    <3> HIDE DEF n, v, last, Extend
    <3> QED BY <3>1, <3>2 DEF n
  <2>2. Factorial[k] = k * Factorial[k - 1]
    BY <2>1, FactorialAssumption, ThreadsAssumption
  <2>3. Factorial[k - 1] \in Nat /\ last = Factorial[k - 1]
    BY <2>1, <1>6
  <2> HIDE DEF k, last, v
  <2>4. last * k = k * last
    BY <2>1, <2>3
  <2> QED BY <2>1, <2>2, <2>3, <2>4
<1> DEFINE longer == Append(v, last * (Len(v) + NPre + 1))
<1>9. /\ longer \in Seq(Nat) /\ Len(longer) = Len(v) + 1
      /\ \A i \in DOMAIN v : longer[i] = v[i]
      /\ longer[Len(v) + 1] = Factorial[NPre + (Len(v) + 1)]
  <2>1. NPre + (Len(v) + 1) \in 0 .. MaxN
    <3> HIDE DEF v, Extend
    <3>1. NPre \in Nat /\ MaxN \in Nat
      BY FactorialConstants
    <3> QED BY <1>0, <1>5, <3>1
  <2>2. last * (Len(v) + NPre + 1) \in Nat
    BY <1>8, <2>1
  <2> HIDE DEF last, v
  <2> QED BY <1>0, <1>8, <2>2
<1>10. vectors' = [vectors EXCEPT ![new[t]] = longer]
  BY <1>7
<1> HIDE DEF longer, last
<1>1. FactorialTypeOK'
  <2>1. vectors' \in Seq(Seq(Nat)) /\ Len(vectors') = Len(vectors)
    <3>1. vectors \in Seq(Seq(Nat))
      BY DEF FactorialInv, FactorialTypeOK
    <3> HIDE DEF v, Extend
    <3> QED BY <1>0, <1>9, <1>10, <3>1
  <2> QED BY <2>1 DEF FactorialInv, FactorialTypeOK
<1>2. VectorsRight'
  <2>1. Len(longer) <= MaxN - NPre
    BY <1>0, <1>5, <1>9
  <2>2. \A i \in DOMAIN longer : longer[i] = Factorial[NPre + i]
    <3> SUFFICES ASSUME NEW i \in DOMAIN longer PROVE longer[i] = Factorial[NPre + i]
      OBVIOUS
    <3>1. CASE i \in DOMAIN v
      BY <1>0, <1>9, <3>1 DEF FactorialInv, VectorsRight
    <3>2. CASE i \notin DOMAIN v
      <4>1. i = Len(v) + 1
        <5>1. DOMAIN longer = 1 .. Len(longer) /\ DOMAIN v = 1 .. Len(v)
          BY <1>0, <1>9
        <5> HIDE DEF v, Extend
        <5> QED BY <1>0, <1>9, <3>2, <5>1
      <4> QED BY <1>9, <4>1
    <3> QED BY <3>1, <3>2
  <2>3. DOMAIN vectors' = DOMAIN vectors
        /\ \A w \in DOMAIN vectors : vectors'[w] = IF w = new[t] THEN longer ELSE vectors[w]
    BY <1>10
  <2> HIDE DEF v, Extend
  <2> QED BY <2>1, <2>2, <2>3 DEF FactorialInv, VectorsRight
<1>3. NewVectorPrivate'
  BY DEF FactorialInv, FactorialTypeOK, NewVectorPrivate
<1>4. FactorialsRight'
  BY DEF FactorialInv, FactorialTypeOK, FactorialsRight
<1> QED BY <1>1, <1>2, <1>3, <1>4 DEF FactorialInv

LEMMA StoreInv == ASSUME FactorialInv, NEW t \in Thread, StoreTable(t) PROVE FactorialInv'
<1> USE DEF StoreTable, HolderAfterStore, ReturnValue, GoTo
<1>0. /\ vectors[new[t]][Position(t)] \in Nat
      /\ vectors[new[t]][Position(t)] = Factorial[arg[t]]
  <2>1. arg[t] > NPre /\ new[t] \in 0 .. Len(vectors)
    BY DEF FactorialInv, FactorialTypeOK, NewVectorPrivate
  <2> QED BY <2>1, KnownIsFactorial
<1> DEFINE value == vectors[new[t]][Position(t)]
<1>5. result' = [result EXCEPT ![t] = value] /\ value \in Nat /\ value = Factorial[arg[t]]
  BY <1>0
<1> HIDE DEF value
<1>1. FactorialTypeOK'
  <2>1. result' \in [Thread -> Nat]
    BY <1>5 DEF FactorialInv, FactorialTypeOK
  <2> QED BY <2>1 DEF FactorialInv, FactorialTypeOK
<1>2. VectorsRight'
  BY DEF FactorialInv, FactorialTypeOK, VectorsRight
<1>3. NewVectorPrivate'
  BY DEF FactorialInv, FactorialTypeOK, NewVectorPrivate
<1>4. FactorialsRight'
  BY <1>5 DEF FactorialInv, FactorialTypeOK, FactorialsRight
<1> QED BY <1>1, <1>2, <1>3, <1>4 DEF FactorialInv

LEMMA FactorialNextInv == FactorialInv /\ [FactorialNext]_factorialVars => FactorialInv'
<1> SUFFICES ASSUME FactorialInv, [FactorialNext]_factorialVars PROVE FactorialInv'
  OBVIOUS
<1>1. ASSUME NEW t \in Thread, NEW n \in 0 .. MaxN, Precomputed(t, n) \/ BeginFactorial(t, n)
      PROVE FactorialInv'
  BY <1>1, PrecomputedInv, FactorialBeginInv
<1>2. ASSUME NEW t \in Thread, Load(t) \/ Hit(t) \/ Miss(t) PROVE FactorialInv'
  BY <1>2, FactorialLoadInv, HitInv, MissInv
<1>3. ASSUME NEW t \in Thread, LockTable(t) \/ LockedHit(t) \/ Copy(t) PROVE FactorialInv'
  BY <1>3, LockInv, LockedHitInv, CopyInv
<1>4. ASSUME NEW t \in Thread, Extend(t) \/ StoreTable(t) PROVE FactorialInv'
  BY <1>4, ExtendInv, StoreInv
<1>5. CASE UNCHANGED factorialVars
  BY <1>5 DEF factorialVars, FactorialInv, FactorialTypeOK, VectorsRight, NewVectorPrivate, FactorialsRight, Position
<1> QED BY <1>1, <1>2, <1>3, <1>4, <1>5 DEF FactorialNext

\* every call of factorial returns n! (core/math.hpp), whatever replaces the
\* table while it is read
THEOREM ResultsCorrect == FactorialSpec => []FactorialsRight
<1>1. FactorialInv => FactorialsRight BY DEF FactorialInv
<1> QED BY <1>1, FactorialInitInv, FactorialNextInv, PTL DEF FactorialSpec

\* only the copy that nobody else knows is modified
LEMMA HeldFrozenStep ==
  FactorialInv /\ [FactorialNext]_factorialVars => [\A v \in DOMAIN vectors :
    v = memvals \/ (\E t \in Thread : handle[t] = v) => vectors'[v] = vectors[v]]_factorialVars
<1> SUFFICES ASSUME FactorialInv, FactorialNext, NEW v \in DOMAIN vectors,
                    v = memvals \/ \E t \in Thread : handle[t] = v
             PROVE vectors'[v] = vectors[v]
  BY DEF factorialVars
<1>1. ASSUME NEW t \in Thread, Extend(t) PROVE vectors'[v] = vectors[v]
  <2>1. v # new[t]
    BY <1>1 DEF Extend, FactorialInv, NewVectorPrivate
  <2> QED BY <1>1, <2>1 DEF Extend
<1>2. ASSUME NEW t \in Thread, Copy(t) PROVE vectors'[v] = vectors[v]
  <2> DEFINE base == IF handle[t] = 0 THEN << >> ELSE vectors[handle[t]]
  <2>1. vectors' = Append(vectors, base) /\ vectors \in Seq(Seq(Nat))
    BY <1>2 DEF Copy, NewVector, FactorialInv, FactorialTypeOK
  <2> HIDE DEF base
  <2> QED BY <2>1
<1>3. CASE UNCHANGED vectors
  BY <1>3
<1> QED BY <1>1, <1>2, <1>3 DEF FactorialNext, Precomputed, BeginFactorial, Load, Hit, Miss, LockTable, LockedHit, StoreTable

\* a vector that is published, or that a reader has loaded, is never modified
\* again, so reading it without the mutex is safe (core/math.hpp)
THEOREM HeldCorrect == FactorialSpec => HeldFrozen
BY FactorialInitInv, FactorialNextInv, HeldFrozenStep, PTL DEF FactorialSpec, HeldFrozen
=============================================================================
