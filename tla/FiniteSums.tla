----------------------------- MODULE FiniteSums ------------------------------
(***************************************************************************)
(* Sums over finite sets.  MapThenSumSet adds the elements in an order     *)
(* that CHOOSE fixes; what follows is that the order does not matter.  An  *)
(* induction over the subsets of a finite set is written as: among the     *)
(* subsets that are counterexamples one is smallest, and it is none.       *)
(***************************************************************************)
EXTENDS Integers, FiniteSetsExt, FiniteSetTheorems, WellFoundedInduction, TLAPS

SumOver(f, T) == MapThenSumSet(LAMBDA c : f[c], T)

Summing(f, T, g) ==
  g = [s \in SUBSET T |->
         IF s = {} THEN 0
         ELSE f[CHOOSE x \in s : TRUE] + g[s \ {CHOOSE x \in s : TRUE}]]

LEMMA SumIsChosen ==
  ASSUME NEW f, NEW T
  PROVE  SumOver(f, T) = (CHOOSE g : Summing(f, T, g))[T]
BY DEF SumOver, Summing, MapThenSumSet, MapThenFoldSet

LEMMA SmallestSubset ==
  ASSUME NEW S, IsFiniteSet(S), NEW Bad, Bad \subseteq SUBSET S, Bad # {}
  PROVE  \E T \in Bad : \A U \in Bad : U \subseteq T => U = T
<1>1. IsWellFoundedOn(StrictSubsetOrdering(S), SUBSET S)
  BY FS_StrictSubsetOrderingWellFounded, FS_FiniteSubsetsOfFinite
<1>2. PICK T \in Bad : \A U \in Bad : ~ (<<U, T>> \in StrictSubsetOrdering(S))
  BY <1>1, WFMin
<1> QED BY <1>2 DEF StrictSubsetOrdering

(* Two such functions agree on the sets both are defined on. *)
LEMMA SummingUnique ==
  ASSUME NEW f, NEW S, IsFiniteSet(S), NEW T \in SUBSET S, NEW U \in SUBSET T,
         NEW g, Summing(f, T, g), NEW h, Summing(f, U, h)
  PROVE  g[U] = h[U]
<1> DEFINE Bad == {s \in SUBSET U : g[s] # h[s]}
<1>1. SUFFICES ASSUME Bad # {} PROVE FALSE
  OBVIOUS
<1>2. PICK s \in Bad : \A t \in Bad : t \subseteq s => t = s
  <2>1. Bad \subseteq SUBSET S
    OBVIOUS
  <2> HIDE DEF Bad
  <2> QED BY <1>1, <2>1, SmallestSubset
<1> DEFINE x == CHOOSE y \in s : TRUE
<1>3. g[s] = (IF s = {} THEN 0 ELSE f[x] + g[s \ {x}])
  <2>1. s \in SUBSET T
    BY <1>2
  <2> QED BY <2>1 DEF Summing
<1>4. h[s] = (IF s = {} THEN 0 ELSE f[x] + h[s \ {x}])
  <2>1. s \in SUBSET U
    BY <1>2
  <2> QED BY <2>1 DEF Summing
<1>5. s # {} /\ g[s \ {x}] # h[s \ {x}]
  BY <1>2, <1>3, <1>4
<1>6. x \in s
  BY <1>5
<1>7. s \ {x} \in Bad
  BY <1>2, <1>5
<1> QED BY <1>2, <1>6, <1>7

LEMMA SummingExists ==
  ASSUME NEW f, NEW S, IsFiniteSet(S), NEW T \in SUBSET S
  PROVE  \E g : Summing(f, T, g)
<1> DEFINE Bad == {s \in SUBSET S : ~ \E g : Summing(f, s, g)}
<1>1. SUFFICES ASSUME Bad # {} PROVE FALSE
  OBVIOUS
<1>2. PICK s \in Bad : \A t \in Bad : t \subseteq s => t = s
  <2>1. Bad \subseteq SUBSET S
    OBVIOUS
  <2> HIDE DEF Bad
  <2> QED BY <1>1, <2>1, SmallestSubset
<1> DEFINE G(t) == CHOOSE g : Summing(f, t, g)
           x(t) == CHOOSE y \in t : TRUE
           g == [t \in SUBSET s |-> IF t = {} THEN 0 ELSE f[x(t)] + G(t \ {x(t)})[t \ {x(t)}]]
<1>3. \A t \in SUBSET s : t # s => Summing(f, t, G(t))
  BY <1>2
<1>4. \A t \in SUBSET s : t # s => g[t] = G(t)[t]
  <2> TAKE t \in SUBSET s
  <2> HAVE t # s
  <2>1. Summing(f, t, G(t))
    BY <1>3
  <2>2. CASE t = {}
    BY <2>1, <2>2 DEF Summing
  <2>3. CASE t # {}
    <3> DEFINE u == t \ {x(t)}
    <3>1. x(t) \in t /\ u \in SUBSET t /\ u \in SUBSET s /\ u # s
      BY <2>3
    <3>2. G(t)[t] = f[x(t)] + G(t)[u]
      <4>1. t \in SUBSET t
        OBVIOUS
      <4> QED BY <2>1, <2>3, <4>1 DEF Summing
    <3>3. Summing(f, u, G(u))
      BY <1>3, <3>1
    <3>4. G(t)[u] = G(u)[u]
      <4>1. t \in SUBSET S
        BY <1>2
      <4> HIDE DEF G, u
      <4> QED BY <2>1, <3>1, <3>3, <4>1, SummingUnique
    <3> QED BY <2>3, <3>2, <3>4
  <2> QED BY <2>2, <2>3
<1>5. \A t \in SUBSET s : t # {} => x(t) \in t /\ t \ {x(t)} \in SUBSET s /\ t \ {x(t)} # s
  OBVIOUS
<1> DEFINE H(t) == G(t \ {x(t)})[t \ {x(t)}]
<1>6. g = [t \in SUBSET s |-> IF t = {} THEN 0 ELSE f[x(t)] + H(t)]
  OBVIOUS
<1>7. \A t \in SUBSET s : t # {} => H(t) = g[t \ {x(t)}]
  <2> HIDE DEF g
  <2> QED BY <1>4, <1>5
<1>8. Summing(f, s, g)
  <2> HIDE DEF g, H, x
  <2>1. g = [t \in SUBSET s |-> IF t = {} THEN 0 ELSE f[x(t)] + g[t \ {x(t)}]]
    BY <1>6, <1>7
  <2> USE DEF x
  <2> QED BY <2>1 DEF Summing
<1> QED BY <1>2, <1>8

LEMMA SumStep ==
  ASSUME NEW f, NEW S, IsFiniteSet(S), NEW T \in SUBSET S
  PROVE  /\ SumOver(f, {}) = 0
         /\ T # {} => \E x \in T : SumOver(f, T) = f[x] + SumOver(f, T \ {x})
<1> DEFINE G(U) == CHOOSE g : Summing(f, U, g)
<1>1. \A U \in SUBSET S : Summing(f, U, G(U)) /\ SumOver(f, U) = G(U)[U]
  BY SummingExists, SumIsChosen
<1>2. SumOver(f, {}) = 0
  <2>1. {} \in SUBSET {} /\ Summing(f, {}, G({})) /\ SumOver(f, {}) = G({})[{}]
    BY <1>1
  <2> HIDE DEF G
  <2> QED BY <2>1 DEF Summing
<1>3. ASSUME T # {} PROVE \E x \in T : SumOver(f, T) = f[x] + SumOver(f, T \ {x})
  <2> DEFINE x == CHOOSE y \in T : TRUE
             U == T \ {x}
  <2>1. x \in T
    BY <1>3
  <2>2. G(T)[T] = f[x] + G(T)[U]
    <3>1. T \in SUBSET T /\ Summing(f, T, G(T))
      BY <1>1
    <3> HIDE DEF G
    <3> QED BY <1>3, <3>1 DEF Summing
  <2>3. G(T)[U] = G(U)[U]
    <3>1. U \in SUBSET T /\ U \in SUBSET S
      OBVIOUS
    <3>2. Summing(f, T, G(T)) /\ Summing(f, U, G(U))
      BY <1>1, <3>1
    <3> HIDE DEF G, U
    <3> QED BY <3>1, <3>2, SummingUnique
  <2> QED BY <1>1, <2>1, <2>2, <2>3
<1> QED BY <1>2, <1>3

(* The sum of integers is an integer, *)
LEMMA SumType ==
  ASSUME NEW S, IsFiniteSet(S), NEW f \in [S -> Int]
  PROVE  \A T \in SUBSET S : SumOver(f, T) \in Int
<1> DEFINE Bad == {T \in SUBSET S : SumOver(f, T) \notin Int}
<1>1. SUFFICES ASSUME Bad # {} PROVE FALSE
  OBVIOUS
<1>2. PICK T \in Bad : \A U \in Bad : U \subseteq T => U = T
  <2>1. Bad \subseteq SUBSET S
    OBVIOUS
  <2> HIDE DEF Bad
  <2> QED BY <1>1, <2>1, SmallestSubset
<1>3. T # {}
  <2>1. SumOver(f, {}) = 0
    <3> HIDE DEF Bad
    <3> QED BY SumStep
  <2>2. SumOver(f, {}) \in Int
    BY <2>1
  <2> QED BY <1>2, <2>2, Zenon
<1>4. PICK x \in T : SumOver(f, T) = f[x] + SumOver(f, T \ {x})
  BY <1>2, <1>3, SumStep
<1>5. T \ {x} \in SUBSET S /\ T \ {x} \notin Bad
  BY <1>2
<1> QED BY <1>2, <1>4, <1>5

(* and does not depend on which element is added first. *)
LEMMA SumRemove ==
  ASSUME NEW S, IsFiniteSet(S), NEW f \in [S -> Int]
  PROVE  \A T \in SUBSET S : \A x \in T : SumOver(f, T) = f[x] + SumOver(f, T \ {x})
<1> DEFINE Bad == {T \in SUBSET S : \E x \in T : SumOver(f, T) # f[x] + SumOver(f, T \ {x})}
<1>1. SUFFICES ASSUME Bad # {} PROVE FALSE
  OBVIOUS
<1>2. PICK T \in Bad : \A U \in Bad : U \subseteq T => U = T
  <2>1. Bad \subseteq SUBSET S
    OBVIOUS
  <2> HIDE DEF Bad
  <2> QED BY <1>1, <2>1, SmallestSubset
<1>3. PICK x \in T : SumOver(f, T) # f[x] + SumOver(f, T \ {x})
  BY <1>2
<1>4. PICK y \in T : SumOver(f, T) = f[y] + SumOver(f, T \ {y})
  BY <1>2, <1>3, SumStep
<1>5. x # y
  BY <1>3, <1>4
<1> DEFINE R == (T \ {x}) \ {y}
<1>6. SumOver(f, T \ {y}) = f[x] + SumOver(f, R)
  <2>1. T \ {y} \notin Bad /\ T \ {y} \in SUBSET S /\ x \in T \ {y}
    BY <1>2, <1>3, <1>4, <1>5
  <2>2. R = (T \ {y}) \ {x}
    OBVIOUS
  <2> QED BY <2>1, <2>2
<1>7. SumOver(f, T \ {x}) = f[y] + SumOver(f, R)
  <2>1. T \ {x} \notin Bad /\ T \ {x} \in SUBSET S /\ y \in T \ {x}
    BY <1>2, <1>3, <1>4, <1>5
  <2> QED BY <2>1
<1>8. SumOver(f, R) \in Int /\ f[x] \in Int /\ f[y] \in Int
  BY <1>2, SumType
<1> QED BY <1>3, <1>4, <1>6, <1>7, <1>8

(* What is zeroed on the elements of D leaves the sum.  With D = {} this   *)
(* says that only the values on the set matter.                            *)
LEMMA SumZeroed ==
  ASSUME NEW S, IsFiniteSet(S), NEW f \in [S -> Int], NEW g \in [S -> Int], NEW D,
         \A c \in S : g[c] = IF c \in D THEN 0 ELSE f[c]
  PROVE  \A T \in SUBSET S : SumOver(g, T) = SumOver(f, T) - SumOver(f, T \cap D)
<1> DEFINE Bad == {T \in SUBSET S : SumOver(g, T) # SumOver(f, T) - SumOver(f, T \cap D)}
<1>1. SUFFICES ASSUME Bad # {} PROVE FALSE
  OBVIOUS
<1>2. PICK T \in Bad : \A U \in Bad : U \subseteq T => U = T
  <2>1. Bad \subseteq SUBSET S
    OBVIOUS
  <2> HIDE DEF Bad
  <2> QED BY <1>1, <2>1, SmallestSubset
<1>3. T # {}
  <2>1. SumOver(f, {}) = 0 /\ SumOver(g, {}) = 0
    BY <1>2, SumStep
  <2>2. {} \cap D = {} /\ SumOver(g, T) # SumOver(f, T) - SumOver(f, T \cap D)
    BY <1>2
  <2> QED BY <2>1, <2>2
<1>4. PICK x \in T : TRUE
  BY <1>3
<1> DEFINE U == T \ {x}
<1>5. U \in SUBSET S /\ U \cap D \in SUBSET S /\ T \cap D \in SUBSET S /\ x \in S
  BY <1>2
<1>6. SumOver(g, U) = SumOver(f, U) - SumOver(f, U \cap D)
  BY <1>2, <1>4, <1>5
<1>7. SumOver(g, T) = g[x] + SumOver(g, U) /\ SumOver(f, T) = f[x] + SumOver(f, U)
  BY <1>2, SumRemove
<1>8. SumOver(f, T \cap D) = SumOver(f, U \cap D) + (IF x \in D THEN f[x] ELSE 0)
  <2>1. CASE x \in D
    <3>1. x \in T \cap D /\ U \cap D = (T \cap D) \ {x}
      BY <2>1
    <3>2. SumOver(f, T \cap D) = f[x] + SumOver(f, U \cap D)
      BY <1>5, <3>1, SumRemove
    <3> QED BY <1>5, <2>1, <3>2, SumType
  <2>2. CASE x \notin D
    <3>1. T \cap D = U \cap D
      BY <2>2
    <3>2. SumOver(f, U \cap D) \in Int
      BY <1>5, SumType
    <3> HIDE DEF U
    <3>3. SumOver(f, T \cap D) = SumOver(f, U \cap D)
      BY <3>1
    <3> QED BY <2>2, <3>2, <3>3
  <2> QED BY <2>1, <2>2
<1>9. /\ SumOver(f, U) \in Int /\ SumOver(f, U \cap D) \in Int /\ SumOver(g, U) \in Int
      /\ f[x] \in Int /\ g[x] = IF x \in D THEN 0 ELSE f[x]
  BY <1>5, SumType
<1>10. SumOver(g, T) = SumOver(f, T) - SumOver(f, T \cap D)
  BY <1>6, <1>7, <1>8, <1>9
<1> QED BY <1>2, <1>10

(* One value changed changes the sum by the difference. *)
LEMMA SumExcept ==
  ASSUME NEW S, IsFiniteSet(S), NEW f \in [S -> Int], NEW g \in [S -> Int], NEW c \in S,
         \A d \in S \ {c} : g[d] = f[d]
  PROVE  SumOver(g, S) = SumOver(f, S) - f[c] + g[c]
<1> DEFINE z == [f EXCEPT ![c] = 0]
           R == S \ {c}
           D == {c}
<1>1. z \in [S -> Int] /\ R \in SUBSET S /\ S \in SUBSET S
  OBVIOUS
<1>2. SumOver(g, S) = g[c] + SumOver(g, R) /\ SumOver(f, S) = f[c] + SumOver(f, R)
  BY <1>1, SumRemove
<1>3. SumOver(z, R) = SumOver(f, R) /\ SumOver(z, R) = SumOver(g, R)
  <2>1. \A d \in S : z[d] = IF d \in D THEN 0 ELSE f[d]
    OBVIOUS
  <2>2. \A d \in S : z[d] = IF d \in D THEN 0 ELSE g[d]
    OBVIOUS
  <2>3. SumOver(z, R) = SumOver(f, R) - SumOver(f, R \cap D)
    <3> HIDE DEF z, R, D
    <3> QED BY <1>1, <2>1, SumZeroed
  <2>4. SumOver(z, R) = SumOver(g, R) - SumOver(g, R \cap D)
    <3> HIDE DEF z, R, D
    <3> QED BY <1>1, <2>2, SumZeroed
  <2>5. R \cap D = {} /\ SumOver(f, {}) = 0 /\ SumOver(g, {}) = 0
    BY <1>1, SumStep
  <2>6. SumOver(f, R) \in Int /\ SumOver(g, R) \in Int
    <3> HIDE DEF z, R, D
    <3>1. SumOver(f, R) \in Int
      BY <1>1, SumType
    <3>2. SumOver(g, R) \in Int
      BY <1>1, SumType
    <3> QED BY <3>1, <3>2
  <2> HIDE DEF z, R, D
  <2>7. SumOver(z, R) = SumOver(f, R) - 0
    BY <2>3, <2>5
  <2>8. SumOver(z, R) = SumOver(g, R) - 0
    BY <2>4, <2>5
  <2> QED BY <2>6, <2>7, <2>8
<1>4. SumOver(f, R) \in Int /\ f[c] \in Int /\ g[c] \in Int
  BY <1>1, SumType
<1> QED BY <1>2, <1>3, <1>4

(* The sum of naturals grows with the set. *)
LEMMA SumMonotone ==
  ASSUME NEW S, IsFiniteSet(S), NEW f \in [S -> Nat]
  PROVE  \A T \in SUBSET S : \A U \in SUBSET T : SumOver(f, U) <= SumOver(f, T)
<1> DEFINE Bad == {T \in SUBSET S : \E U \in SUBSET T : ~(SumOver(f, U) <= SumOver(f, T))}
<1>1. SUFFICES ASSUME Bad # {} PROVE FALSE
  OBVIOUS
<1>2. PICK T \in Bad : \A U \in Bad : U \subseteq T => U = T
  <2>1. Bad \subseteq SUBSET S
    OBVIOUS
  <2> HIDE DEF Bad
  <2> QED BY <1>1, <2>1, SmallestSubset
<1>3. PICK U \in SUBSET T : ~(SumOver(f, U) <= SumOver(f, T))
  BY <1>2
<1>4. f \in [S -> Int] /\ T \in SUBSET S /\ U \in SUBSET S
  BY <1>2
<1>5. SumOver(f, T) \in Int /\ SumOver(f, U) \in Int
  BY <1>4, SumType
<1>6. PICK x \in T : x \notin U
  BY <1>3, <1>5
<1>7. SumOver(f, T) = f[x] + SumOver(f, T \ {x}) /\ SumOver(f, T \ {x}) \in Int
  BY <1>4, SumRemove, SumType
<1>8. T \ {x} \in SUBSET S /\ T \ {x} \notin Bad /\ U \in SUBSET (T \ {x})
  BY <1>2, <1>6
<1>9. SumOver(f, U) <= SumOver(f, T \ {x})
  BY <1>8
<1>10. f[x] \in Nat
  BY <1>4
<1> HIDE DEF Bad
<1> QED BY <1>3, <1>5, <1>7, <1>9, <1>10
==============================================================================
