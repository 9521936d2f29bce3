------------------------ MODULE DefaultContextProofs ------------------------
(***************************************************************************)
(* Proofs about DefaultContext, for every set of threads, Statistics and   *)
(* contexts, every scoped map and modification, and every bound: its       *)
(* types, that a cache with the current generation is current, and that it *)
(* implements a register of contexts; and about the versions of contexts   *)
(* (ContextVersion).                                                       *)
(***************************************************************************)
EXTENDS ContextRefinement, ContextVersion, TLAPS

PartialMaps == Register!PartialMaps
FullMaps == Register!FullMaps

-----------------------------------------------------------------------------
(* Maps.                                                                   *)

LEMMA PartialMapFacts ==
  ASSUME NEW m
  PROVE  /\ m \in PartialMaps <=> DOMAIN m \subseteq Stat /\ m \in [DOMAIN m -> Ctx]
         /\ m \in FullMaps <=> m \in PartialMaps /\ Arbitrary \in DOMAIN m
BY DEF PartialMaps, FullMaps, Register!PartialMaps, Register!FullMaps

LEMMA NoContextsFacts == Register!NoContexts \in PartialMaps /\ DOMAIN Register!NoContexts = {}
BY PartialMapFacts DEF Register!NoContexts

LEMMA AssignedFacts ==
  ASSUME NEW m \in PartialMaps, NEW s \in Stat, NEW c \in Ctx
  PROVE  Register!Assigned(m, s, c) \in PartialMaps
<1> DEFINE a == Register!Assigned(m, s, c)
<1>1. DOMAIN m \subseteq Stat /\ m \in [DOMAIN m -> Ctx]
  BY PartialMapFacts
<1>2. a = [x \in DOMAIN m \cup {s} |-> IF x = s THEN c ELSE m[x]]
  BY DEF Register!Assigned
<1>3. DOMAIN a = DOMAIN m \cup {s} /\ a \in [DOMAIN m \cup {s} -> Ctx]
  BY <1>1, <1>2
<1> QED BY <1>1, <1>3, PartialMapFacts

LEMMA WithArbitraryFacts ==
  ASSUME NEW m \in PartialMaps
  PROVE  Register!WithArbitrary(m) \in FullMaps
<1>1. CASE Arbitrary \in DOMAIN m
  BY <1>1, PartialMapFacts DEF Register!WithArbitrary
<1>2. CASE Arbitrary \notin DOMAIN m
  <2>1. Register!WithArbitrary(m) = Register!Assigned(m, Arbitrary, Initial)
    BY <1>2 DEF Register!WithArbitrary
  <2>2. Register!WithArbitrary(m) \in PartialMaps
    BY <2>1, AssignedFacts, DefaultContextAssumption
  <2>3. Arbitrary \in DOMAIN Register!WithArbitrary(m)
    BY <2>1 DEF Register!Assigned
  <2> QED BY <2>2, <2>3, PartialMapFacts
<1> QED BY <1>1, <1>2

LEMMA ModifiedFacts ==
  ASSUME NEW m \in PartialMaps, NEW f \in [Ctx -> Ctx]
  PROVE  /\ Register!Modified(m, f) \in PartialMaps
         /\ DOMAIN Register!Modified(m, f) = DOMAIN m
<1>1. DOMAIN m \subseteq Stat /\ m \in [DOMAIN m -> Ctx]
  BY PartialMapFacts
<1>2. /\ DOMAIN Register!Modified(m, f) = DOMAIN m
      /\ Register!Modified(m, f) \in [DOMAIN m -> Ctx]
  BY <1>1 DEF Register!Modified
<1> QED BY <1>1, <1>2, PartialMapFacts

LEMMA LookupFacts ==
  ASSUME NEW m \in FullMaps, NEW s \in Stat
  PROVE  Register!Lookup(m, s) \in Ctx
<1>1. m \in [DOMAIN m -> Ctx] /\ Arbitrary \in DOMAIN m
  BY PartialMapFacts
<1> QED BY <1>1 DEF Register!Lookup

LEMMA ScopeFacts ==
  ASSUME NEW q \in Seq(FullMaps), q # << >>
  PROVE  Register!Top(q) \in FullMaps /\ SubSeq(q, 1, Len(q) - 1) \in Seq(FullMaps)
BY DEF Register!Top

-----------------------------------------------------------------------------
(* The inductive invariant.                                                *)

\* the published copy is the map, or there is no copy of the initial one yet
PublishedIsMap ==
  published = contexts \/ (published = NoMap /\ contexts = Register!NoContexts)

\* a map that differs from the last completed change is still being changed
UnlockedIsSettled == mutex = NoThread => contexts = settled

\* no cache is of a later generation, and one of this generation is current
CachesFollow ==
  /\ generation > 0
  /\ \A t \in Thread : /\ cache[t].generation <= generation
                       /\ CacheHit(t) => cache[t].contexts = settled

Inv == TypeOK /\ PublishedIsMap /\ UnlockedIsSettled /\ CachesFollow

Caches == [generation : Nat, contexts : FullMaps] \cup [generation : {0}, contexts : {NoMap}]

\* The type invariant in the vocabulary of this module.
LEMMA TypeFacts ==
  TypeOK <=> /\ contexts \in PartialMaps /\ settled \in PartialMaps
             /\ published \in PartialMaps \cup {NoMap}
             /\ generation \in Nat /\ mutex \in Thread \cup {NoThread}
             /\ cache \in [Thread -> Caches]
             /\ scopes \in [Thread -> Seq(FullMaps)]
             /\ pc \in [Thread -> {"idle", "bump", "refresh", "copy"}]
             /\ asked \in [Thread -> Stat]
             /\ modify \in [Thread -> [Ctx -> Ctx]]
             /\ answer \in [Thread -> Ctx]
BY DEF TypeOK, Caches, PartialMaps, FullMaps

\* What a call that makes sure of a context for Arbitrary leaves behind.
LEMMA EnsureFacts ==
  ASSUME Inv, mutex = NoThread, EnsureArbitrary
  PROVE  /\ contexts' \in FullMaps /\ published' = contexts' /\ settled' = contexts'
         /\ generation' \in Nat
         /\ \/ generation' = generation /\ settled' = settled
            \/ generation' = generation + 1 /\ settled' = Register!WithArbitrary(settled)
<1>1. contexts \in PartialMaps /\ contexts = settled /\ generation \in Nat
  BY TypeFacts DEF Inv, UnlockedIsSettled
<1>2. CASE Arbitrary \in DOMAIN contexts
  <2>1. contexts' = contexts /\ published' = published /\ generation' = generation
        /\ settled' = settled
    BY <1>2 DEF EnsureArbitrary, shared
  <2>2. contexts # Register!NoContexts
    BY <1>2, NoContextsFacts
  <2>3. published = contexts
    BY <2>2 DEF Inv, PublishedIsMap
  <2> QED BY <1>1, <1>2, <2>1, <2>3, PartialMapFacts
<1>3. CASE Arbitrary \notin DOMAIN contexts
  <2>1. /\ contexts' = Register!WithArbitrary(contexts) /\ published' = contexts'
        /\ generation' = generation + 1 /\ settled' = contexts'
    BY <1>3 DEF EnsureArbitrary
  <2> QED BY <1>1, <2>1, WithArbitraryFacts
<1> QED BY <1>2, <1>3

LEMMA InvInit == Init => Inv
<1> SUFFICES ASSUME Init PROVE Inv
  OBVIOUS
<1>1. TypeOK
  <2>1. contexts \in PartialMaps /\ settled \in PartialMaps
    BY NoContextsFacts DEF Init
  <2>2. cache \in [Thread -> Caches]
    BY DEF Init, Caches
  <2>3. scopes \in [Thread -> Seq(FullMaps)]
    BY DEF Init
  <2>4. asked \in [Thread -> Stat] /\ answer \in [Thread -> Ctx]
    BY DefaultContextAssumption DEF Init
  <2>5. modify \in [Thread -> [Ctx -> Ctx]]
    BY DEF Init, Register!Identity
  <2>6. /\ published = NoMap /\ generation = 1 /\ mutex = NoThread
        /\ pc \in [Thread -> {"idle", "bump", "refresh", "copy"}]
    BY DEF Init
  <2> QED BY <2>1, <2>2, <2>3, <2>4, <2>5, <2>6, TypeFacts
<1>2. PublishedIsMap /\ UnlockedIsSettled
  BY DEF Init, PublishedIsMap, UnlockedIsSettled
<1>3. CachesFollow
  BY DEF Init, CachesFollow, CacheHit
<1> QED BY <1>1, <1>2, <1>3 DEF Inv

\* A call that only looks, or opens or closes a scope, changes its own thread.
LEMMA OwnStepKeepsInv ==
  ASSUME Inv, UNCHANGED <<shared, mutex, cache>>,
         scopes' \in [Thread -> Seq(FullMaps)],
         pc' \in [Thread -> {"idle", "bump", "refresh", "copy"}],
         asked' \in [Thread -> Stat], modify' \in [Thread -> [Ctx -> Ctx]],
         answer' \in [Thread -> Ctx]
  PROVE  Inv'
<1>1. /\ contexts' = contexts /\ published' = published /\ generation' = generation
      /\ settled' = settled /\ mutex' = mutex /\ cache' = cache
  BY DEF shared
<1>2. TypeOK'
  BY <1>1, TypeFacts DEF Inv, TypeOK, Caches, PartialMaps, FullMaps
<1>3. (PublishedIsMap /\ UnlockedIsSettled /\ CachesFollow)'
  BY <1>1 DEF Inv, PublishedIsMap, UnlockedIsSettled, CachesFollow, CacheHit, Register!NoContexts
<1> QED BY <1>2, <1>3 DEF Inv

\* A call that makes sure of a context for Arbitrary leaves the other caches
\* current, or behind.
LEMMA EnsureKeepsInv ==
  ASSUME Inv, mutex = NoThread, EnsureArbitrary, UNCHANGED <<mutex, scopes>>,
         NEW t \in Thread,
         \/ cache' = cache
         \/ cache' = [cache EXCEPT ![t] = [generation |-> generation', contexts |-> published']],
         pc' \in [Thread -> {"idle", "bump", "refresh", "copy"}],
         asked' \in [Thread -> Stat], modify' \in [Thread -> [Ctx -> Ctx]],
         answer' \in [Thread -> Ctx]
  PROVE  Inv'
<1>1. /\ contexts' \in FullMaps /\ published' = contexts' /\ settled' = contexts'
      /\ generation' \in Nat
      /\ \/ generation' = generation /\ settled' = settled
         \/ generation' = generation + 1
  BY EnsureFacts
<1>2. contexts' \in PartialMaps /\ generation \in Nat /\ generation > 0
      /\ cache \in [Thread -> Caches] /\ scopes \in [Thread -> Seq(FullMaps)]
      /\ mutex \in Thread \cup {NoThread}
  BY <1>1, PartialMapFacts, TypeFacts DEF Inv, CachesFollow
<1>3. cache' \in [Thread -> Caches]
  <2>1. [generation |-> generation', contexts |-> published'] \in Caches
    BY <1>1 DEF Caches
  <2> QED BY <1>2, <2>1
<1>4. TypeOK'
  <2>1. /\ contexts' \in PartialMaps /\ settled' \in PartialMaps
        /\ published' \in PartialMaps \cup {NoMap} /\ generation' \in Nat
        /\ mutex' \in Thread \cup {NoThread} /\ scopes' \in [Thread -> Seq(FullMaps)]
    BY <1>1, <1>2
  <2> QED BY <1>3, <2>1 DEF TypeOK, Caches, PartialMaps, FullMaps
<1>5. PublishedIsMap' /\ UnlockedIsSettled'
  BY <1>1 DEF PublishedIsMap, UnlockedIsSettled
<1>6. CachesFollow'
  <2>1. generation' > 0
    BY <1>1, <1>2
  <2>2. ASSUME NEW u \in Thread
        PROVE  /\ cache'[u].generation <= generation'
               /\ cache'[u].generation = generation' => cache'[u].contexts = settled'
    <3>1. CASE cache'[u] = cache[u]
      <4>1. cache[u].generation \in Nat /\ cache[u].generation <= generation
            /\ (cache[u].generation = generation => cache[u].contexts = settled)
        BY <1>2 DEF Inv, CachesFollow, CacheHit, Caches
      <4> QED BY <1>1, <1>2, <3>1, <4>1
    <3>2. CASE cache'[u] = [generation |-> generation', contexts |-> published']
      BY <1>1, <3>2
    <3> QED BY <1>2, <3>1, <3>2
  <2> QED BY <2>1, <2>2 DEF CachesFollow, CacheHit
<1> QED BY <1>4, <1>5, <1>6 DEF Inv

LEMMA InvNext == Inv /\ [Next]_vars => Inv'
<1> SUFFICES ASSUME Inv, [Next]_vars PROVE Inv'
  OBVIOUS
<1>0. /\ contexts \in PartialMaps /\ settled \in PartialMaps
      /\ generation \in Nat /\ generation > 0
      /\ mutex \in Thread \cup {NoThread}
      /\ cache \in [Thread -> Caches]
      /\ scopes \in [Thread -> Seq(FullMaps)]
      /\ pc \in [Thread -> {"idle", "bump", "refresh", "copy"}]
      /\ asked \in [Thread -> Stat]
      /\ modify \in [Thread -> [Ctx -> Ctx]]
      /\ answer \in [Thread -> Ctx]
  BY TypeFacts DEF Inv, CachesFollow
<1>1. ASSUME NEW t \in Thread, NEW m \in PartialMaps, Replace(t, m) PROVE Inv'
  <2>1. /\ contexts' = m /\ published' = m /\ mutex' = t /\ t # NoThread
        /\ pc' = [pc EXCEPT ![t] = "bump"]
        /\ generation' = generation /\ settled' = settled /\ cache' = cache
        /\ scopes' = scopes /\ asked' = asked /\ modify' = modify /\ answer' = answer
    BY <1>1, DefaultContextAssumption DEF Replace, args
  <2>2. TypeOK'
    <3>1. pc' \in [Thread -> {"idle", "bump", "refresh", "copy"}]
      BY <1>0, <2>1
    <3> QED BY <1>0, <2>1, <3>1 DEF TypeOK, Caches, PartialMaps, FullMaps
  <2>3. PublishedIsMap' /\ UnlockedIsSettled'
    BY <2>1 DEF PublishedIsMap, UnlockedIsSettled
  <2>4. CachesFollow'
    BY <2>1 DEF Inv, CachesFollow, CacheHit
  <2> QED BY <2>2, <2>3, <2>4 DEF Inv
<1>2. ASSUME NEW t \in Thread, SetDefaultContext(t) PROVE Inv'
  BY <1>0, <1>1, <1>2, AssignedFacts DEF SetDefaultContext
<1>3. ASSUME NEW t \in Thread, ResetDefaultContext(t) PROVE Inv'
  BY <1>1, <1>3, NoContextsFacts DEF ResetDefaultContext
<1>4. ASSUME NEW t \in Thread, Bump(t) PROVE Inv'
  <2>1. /\ generation' = generation + 1 /\ settled' = contexts /\ mutex' = NoThread
        /\ pc' = [pc EXCEPT ![t] = "idle"]
        /\ contexts' = contexts /\ published' = published /\ cache' = cache
        /\ scopes' = scopes /\ asked' = asked /\ modify' = modify /\ answer' = answer
    BY <1>4 DEF Bump, args
  <2>2. TypeOK'
    <3>1. pc' \in [Thread -> {"idle", "bump", "refresh", "copy"}] /\ generation' \in Nat
      BY <1>0, <2>1
    <3>2. published \in PartialMaps \cup {NoMap}
      BY TypeFacts DEF Inv
    <3> QED BY <1>0, <2>1, <3>1, <3>2 DEF TypeOK, Caches, PartialMaps, FullMaps
  <2>3. PublishedIsMap' /\ UnlockedIsSettled'
    BY <2>1 DEF Inv, PublishedIsMap, UnlockedIsSettled, Register!NoContexts
  <2>4. CachesFollow'
    <3>1. ASSUME NEW u \in Thread PROVE cache[u].generation < generation + 1
      <4>1. cache[u].generation \in Nat /\ cache[u].generation <= generation
        BY <1>0 DEF Inv, CachesFollow, Caches
      <4> QED BY <1>0, <4>1
    <3>2. ASSUME NEW u \in Thread
          PROVE  cache'[u].generation <= generation' /\ cache'[u].generation # generation'
      <4>1. cache[u].generation \in Nat
        BY <1>0 DEF Caches
      <4> QED BY <1>0, <2>1, <3>1, <4>1
    <3>3. generation' > 0
      BY <1>0, <2>1
    <3> QED BY <3>2, <3>3 DEF CachesFollow, CacheHit
  <2> QED BY <2>2, <2>3, <2>4 DEF Inv
<1>5. ASSUME NEW t \in Thread, GetDefaultContext(t) PROVE Inv'
  BY <1>0, <1>5, EnsureKeepsInv DEF GetDefaultContext, args
<1>6. ASSUME NEW t \in Thread, NEW m \in FullMaps, NEW s \in Stat, Answer(t, m, s)
      PROVE  answer' \in [Thread -> Ctx]
  BY <1>0, <1>6, LookupFacts DEF Answer
<1>7. ASSUME NEW t \in Thread, SnapshotScoped(t) PROVE Inv'
  BY <1>0, <1>6, <1>7, ScopeFacts, OwnStepKeepsInv DEF SnapshotScoped, args
<1>8. ASSUME NEW t \in Thread, SnapshotCached(t) PROVE Inv'
  <2>1. cache[t].contexts \in FullMaps
    BY <1>0, <1>8 DEF SnapshotCached, CacheHit, Caches
  <2> QED BY <1>0, <1>6, <1>8, <2>1, OwnStepKeepsInv DEF SnapshotCached, args
<1>9. ASSUME NEW t \in Thread, SnapshotStale(t) PROVE Inv'
  BY <1>0, <1>9, OwnStepKeepsInv DEF SnapshotStale
<1>10. ASSUME NEW t \in Thread, Refresh(t) PROVE Inv'
  <2>1. published' \in FullMaps
    BY <1>10, EnsureFacts DEF Refresh
  <2>2. answer' \in [Thread -> Ctx]
    BY <1>0, <1>6, <1>10, <2>1 DEF Refresh
  <2>3. pc' \in [Thread -> {"idle", "bump", "refresh", "copy"}]
    BY <1>0, <1>10 DEF Refresh
  <2>4. /\ mutex = NoThread /\ EnsureArbitrary /\ UNCHANGED <<mutex, scopes>>
        /\ cache' = [cache EXCEPT ![t] = [generation |-> generation', contexts |-> published']]
        /\ asked' = asked /\ modify' = modify
    BY <1>10 DEF Refresh, args
  <2> QED BY <1>0, <2>2, <2>3, <2>4, EnsureKeepsInv
<1>11. ASSUME NEW t \in Thread, NEW m \in PartialMaps, Push(t, m)
       PROVE  scopes' \in [Thread -> Seq(FullMaps)]
  BY <1>0, <1>11, WithArbitraryFacts DEF Push
<1>12. ASSUME NEW t \in Thread, SetScopedDefaultContext(t) PROVE Inv'
  <2>1. scopes' \in [Thread -> Seq(FullMaps)]
    BY <1>11, <1>12, DefaultContextAssumption
    DEF SetScopedDefaultContext, PartialMaps, Register!PartialMaps
  <2> QED BY <1>0, <1>12, <2>1, OwnStepKeepsInv DEF SetScopedDefaultContext, args
<1>13. ASSUME NEW t \in Thread, ModifyScoped(t) PROVE Inv'
  <2>1. PICK f \in Modify : Push(t, Register!Modified(Register!Top(scopes[t]), f))
    BY <1>13 DEF ModifyScoped
  <2>2. Register!Top(scopes[t]) \in PartialMaps /\ f \in [Ctx -> Ctx]
    BY <1>0, <1>13, ScopeFacts, PartialMapFacts, DefaultContextAssumption DEF ModifyScoped
  <2>3. scopes' \in [Thread -> Seq(FullMaps)]
    BY <1>11, <2>1, <2>2, ModifiedFacts
  <2> QED BY <1>0, <1>13, <2>3, OwnStepKeepsInv DEF ModifyScoped, args
<1>14. ASSUME NEW t \in Thread, ModifyUnscoped(t) PROVE Inv'
  <2>1. PICK f \in Modify \cup {Register!Identity} : modify' = [modify EXCEPT ![t] = f]
    BY <1>14 DEF ModifyUnscoped
  <2>2. f \in [Ctx -> Ctx]
    BY DefaultContextAssumption DEF Register!Identity
  <2>3. /\ mutex = NoThread /\ EnsureArbitrary /\ UNCHANGED <<mutex, scopes>>
        /\ cache' = cache /\ asked' = asked /\ answer' = answer
        /\ pc' = [pc EXCEPT ![t] = "copy"]
    BY <1>14 DEF ModifyUnscoped
  <2> QED BY <1>0, <2>1, <2>2, <2>3, EnsureKeepsInv
<1>15. ASSUME NEW t \in Thread, CopyContexts(t) PROVE Inv'
  <2>1. scopes' \in [Thread -> Seq(FullMaps)]
    BY <1>0, <1>11, <1>15, ModifiedFacts DEF CopyContexts
  <2> QED BY <1>0, <1>15, <2>1, OwnStepKeepsInv DEF CopyContexts, args
<1>16. ASSUME NEW t \in Thread, EndScope(t) PROVE Inv'
  <2>1. scopes' \in [Thread -> Seq(FullMaps)]
    BY <1>0, <1>16, ScopeFacts DEF EndScope
  <2> QED BY <1>0, <1>16, <2>1, OwnStepKeepsInv DEF EndScope, args
<1>17. CASE UNCHANGED vars
  BY <1>0, <1>17, OwnStepKeepsInv DEF vars, shared, args
<1> QED
  BY <1>2, <1>3, <1>4, <1>5, <1>7, <1>8, <1>9, <1>10, <1>12, <1>13, <1>14, <1>15, <1>16,
     <1>17 DEF Next

-----------------------------------------------------------------------------
(* The theorems.                                                           *)

\* Every map that a lookup can meet has a context for Arbitrary, so that the
\* assertions of get_default_context and cached_default_context hold, on any
\* number of threads and after any number of changes.
THEOREM TypeCorrect == Spec => []TypeOK
<1>1. Inv => TypeOK
  BY DEF Inv
<1> QED BY InvInit, InvNext, <1>1, PTL DEF Spec

\* A cache of the current generation holds the last completed change: the
\* lock-free path of get_default_context_snapshot is never out of date.
THEOREM CacheCorrect == Spec => []CacheIsCurrent
<1>1. Inv => CacheIsCurrent
  BY DEF Inv, CachesFollow, CacheIsCurrent
<1> QED BY InvInit, InvNext, <1>1, PTL DEF Spec

(***************************************************************************)
(* Proof that the default contexts implement the register of               *)
(* ContextRegister: which steps change what callers see, and that they do  *)
(* to it what the register's operations do.                                *)
(***************************************************************************)

-----------------------------------------------------------------------------
(* What callers see of a map.                                              *)

LEMMA ShownFacts ==
  ASSUME NEW m \in PartialMaps
  PROVE  /\ Shown(m) = Register!WithArbitrary(m)
         /\ Shown(m) \in FullMaps
         /\ Arbitrary \in DOMAIN m => Shown(m) = m
         /\ Shown(Register!WithArbitrary(m)) = Shown(m)
<1>1. Shown(m) = Register!WithArbitrary(m)
  BY DEF Shown, Register!WithArbitrary, Register!Assigned
<1>2. Arbitrary \in DOMAIN m => Shown(m) = m
  BY DEF Shown
<1>3. Register!WithArbitrary(m) \in FullMaps
  BY WithArbitraryFacts
<1>4. Arbitrary \in DOMAIN Register!WithArbitrary(m)
  BY <1>3, PartialMapFacts
<1>5. Shown(Register!WithArbitrary(m)) = Register!WithArbitrary(m)
  BY <1>4 DEF Shown
<1> QED BY <1>1, <1>2, <1>3, <1>5

\* An assignment shows as the same assignment.
LEMMA ShownAssigned ==
  ASSUME NEW m \in PartialMaps, NEW s \in Stat, NEW c \in Ctx
  PROVE  Shown(Register!Assigned(m, s, c)) = Register!Assigned(Shown(m), s, c)
<1> DEFINE a == Register!Assigned(m, s, c)
           b == Register!Assigned(Shown(m), s, c)
<1>1. a = [x \in DOMAIN m \cup {s} |-> IF x = s THEN c ELSE m[x]]
  BY DEF Register!Assigned
<1>2. b = [x \in DOMAIN Shown(m) \cup {s} |-> IF x = s THEN c ELSE Shown(m)[x]]
  BY DEF Register!Assigned
<1> HIDE DEF a, b
<1>3. CASE Arbitrary \in DOMAIN m
  <2>1. Shown(m) = m /\ Arbitrary \in DOMAIN a
    BY <1>1, <1>3 DEF Shown
  <2> QED BY <1>1, <1>2, <2>1 DEF Shown, a, b
<1>4. CASE Arbitrary \notin DOMAIN m /\ s = Arbitrary
  <2>1. Arbitrary \in DOMAIN a
    BY <1>1, <1>4
  <2>2. Shown(a) = a
    BY <2>1 DEF Shown
  <2>3. Shown(m) = [x \in DOMAIN m \cup {Arbitrary} |-> IF x = Arbitrary THEN Initial ELSE m[x]]
    BY <1>4 DEF Shown
  <2>4. a = b
    BY <1>1, <1>2, <1>4, <2>3
  <2> QED BY <2>2, <2>4 DEF a, b
<1>5. CASE Arbitrary \notin DOMAIN m /\ s # Arbitrary
  <2>1. DOMAIN a = DOMAIN m \cup {s} /\ Arbitrary \notin DOMAIN a
    BY <1>1, <1>5
  <2>2. Shown(a) = [x \in DOMAIN a \cup {Arbitrary} |-> IF x = Arbitrary THEN Initial ELSE a[x]]
    BY <2>1 DEF Shown
  <2>3. Shown(m) = [x \in DOMAIN m \cup {Arbitrary} |-> IF x = Arbitrary THEN Initial ELSE m[x]]
    BY <1>5 DEF Shown
  <2>4. Shown(a) = b
    BY <1>1, <1>2, <1>5, <2>1, <2>2, <2>3
  <2> QED BY <2>4 DEF a, b
<1> QED BY <1>3, <1>4, <1>5

\* Copying a map, modifying the copy and giving it a context for Arbitrary is
\* modifying what callers see of it: the modification keeps Context{}.
LEMMA ShownModified ==
  ASSUME NEW m \in PartialMaps, NEW f \in [Ctx -> Ctx], f[Initial] = Initial
  PROVE  Register!WithArbitrary(Register!Modified(m, f)) = Register!Modified(Shown(m), f)
<1> DEFINE a == Register!Modified(m, f)
           b == Register!Modified(Shown(m), f)
<1>1. a = [x \in DOMAIN m |-> f[m[x]]] /\ b = [x \in DOMAIN Shown(m) |-> f[Shown(m)[x]]]
  BY DEF Register!Modified
<1>2. Shown(a) = Register!WithArbitrary(a)
  BY DEF Shown, Register!WithArbitrary, Register!Assigned
<1> HIDE DEF a, b
<1>3. CASE Arbitrary \in DOMAIN m
  <2>1. Shown(m) = m /\ Arbitrary \in DOMAIN a
    BY <1>1, <1>3 DEF Shown
  <2>2. Shown(a) = a /\ a = b
    BY <1>1, <2>1 DEF Shown
  <2> QED BY <1>2, <2>2 DEF a, b
<1>4. CASE Arbitrary \notin DOMAIN m
  <2>1. DOMAIN a = DOMAIN m /\ Arbitrary \notin DOMAIN a
    BY <1>1, <1>4
  <2>2. Shown(a) = [x \in DOMAIN a \cup {Arbitrary} |-> IF x = Arbitrary THEN Initial ELSE a[x]]
    BY <2>1 DEF Shown
  <2>3. Shown(m) = [x \in DOMAIN m \cup {Arbitrary} |-> IF x = Arbitrary THEN Initial ELSE m[x]]
    BY <1>4 DEF Shown
  <2>4. Shown(a) = b
    BY <1>1, <2>1, <2>2, <2>3
  <2> QED BY <1>2, <2>4 DEF a, b
<1> QED BY <1>3, <1>4

-----------------------------------------------------------------------------
(* The invariant of calls in progress.                                     *)

\* A thread between its change and the bump holds the lock, and the map is the
\* settled one after that one change; a thread that is to take the lock for a
\* second time has no scope, and a function of its caller.
CallsInProgress == \A t \in Thread :
  /\ pc[t] = "bump" =>
       /\ mutex = t
       /\ \/ contexts = Register!NoContexts
          \/ \E s \in Stat, c \in Ctx : contexts = Register!Assigned(settled, s, c)
  /\ pc[t] \in {"refresh", "copy"} => scopes[t] = << >>
  /\ modify[t] \in Modify \cup {Register!Identity}

LEMMA CallsInit == Init => CallsInProgress
BY DEF Init, CallsInProgress

\* A step of thread t that leaves another thread's change alone.
LEMMA OthersKeepCalls ==
  ASSUME TypeOK, CallsInProgress, NEW t \in Thread,
         \/ mutex = NoThread
         \/ UNCHANGED <<mutex, contexts, settled>>,
         \A u \in Thread \ {t} : pc'[u] = pc[u] /\ scopes'[u] = scopes[u] /\ modify'[u] = modify[u],
         pc'[t] = "bump" =>
           /\ mutex' = t
           /\ \/ contexts' = Register!NoContexts
              \/ \E s \in Stat, c \in Ctx : contexts' = Register!Assigned(settled', s, c),
         pc'[t] \in {"refresh", "copy"} => scopes'[t] = << >>,
         modify'[t] \in Modify \cup {Register!Identity}
  PROVE  CallsInProgress'
<1>1. Register!NoContexts' = Register!NoContexts /\ Register!Identity' = Register!Identity
  BY DEF Register!NoContexts, Register!Identity
<1>2. ASSUME NEW u \in Thread, u # t, pc'[u] = "bump"
      PROVE  /\ mutex' = u
             /\ \/ contexts' = Register!NoContexts
                \/ \E s \in Stat, c \in Ctx : contexts' = Register!Assigned(settled', s, c)
  <2>1. pc[u] = "bump"
    BY <1>2
  <2>2. mutex = u /\ u # NoThread
    BY <2>1, DefaultContextAssumption DEF CallsInProgress
  <2>3. mutex' = mutex /\ contexts' = contexts /\ settled' = settled
    BY <2>2
  <2> QED BY <2>1, <2>2, <2>3 DEF CallsInProgress
<1>3. ASSUME NEW u \in Thread
      PROVE  /\ pc'[u] = "bump" =>
                  /\ mutex' = u
                  /\ \/ contexts' = Register!NoContexts
                     \/ \E s \in Stat, c \in Ctx : contexts' = Register!Assigned(settled', s, c)
             /\ pc'[u] \in {"refresh", "copy"} => scopes'[u] = << >>
             /\ modify'[u] \in Modify \cup {Register!Identity}
  <2>1. CASE u = t
    BY <2>1
  <2>2. CASE u # t
    BY <1>2, <2>2 DEF CallsInProgress
  <2> QED BY <2>1, <2>2
<1> QED BY <1>1, <1>3 DEF CallsInProgress, Register!Assigned

LEMMA CallsNext == Inv /\ CallsInProgress /\ [Next]_vars => CallsInProgress'
<1> SUFFICES ASSUME Inv, CallsInProgress, [Next]_vars PROVE CallsInProgress'
  OBVIOUS
<1>0. /\ TypeOK
      /\ scopes \in [Thread -> Seq(FullMaps)]
      /\ pc \in [Thread -> {"idle", "bump", "refresh", "copy"}]
      /\ modify \in [Thread -> [Ctx -> Ctx]]
      /\ \A t \in Thread : modify[t] \in Modify \cup {Register!Identity}
  BY TypeFacts DEF Inv, CallsInProgress
<1>1. ASSUME NEW t \in Thread, NEW m, Replace(t, m),
             m = Register!NoContexts \/ \E s \in Stat, c \in Ctx : m = Register!Assigned(contexts, s, c)
      PROVE  CallsInProgress'
  <2>1. /\ mutex = NoThread /\ mutex' = t /\ contexts' = m /\ settled' = settled
        /\ pc' = [pc EXCEPT ![t] = "bump"] /\ scopes' = scopes /\ modify' = modify
    BY <1>1 DEF Replace, args
  <2>2. contexts = settled
    BY <2>1 DEF Inv, UnlockedIsSettled
  <2>3. pc'[t] = "bump" /\ \A u \in Thread \ {t} : pc'[u] = pc[u]
    BY <1>0, <2>1
  <2>4. contexts' = Register!NoContexts
        \/ \E s \in Stat, c \in Ctx : contexts' = Register!Assigned(settled', s, c)
    BY <1>1, <2>1, <2>2
  <2> QED BY <1>0, <2>1, <2>3, <2>4, OthersKeepCalls
<1>2. ASSUME NEW t \in Thread, SetDefaultContext(t) PROVE CallsInProgress'
  BY <1>1, <1>2 DEF SetDefaultContext
<1>3. ASSUME NEW t \in Thread, ResetDefaultContext(t) PROVE CallsInProgress'
  BY <1>1, <1>3 DEF ResetDefaultContext
<1>4. ASSUME NEW t \in Thread, Bump(t) PROVE CallsInProgress'
  <2>1. /\ mutex = t /\ pc' = [pc EXCEPT ![t] = "idle"] /\ scopes' = scopes /\ modify' = modify
    BY <1>4 DEF Bump, CallsInProgress, args
  <2>2. ASSUME NEW u \in Thread PROVE pc'[u] # "bump" /\ pc'[u] \in {pc[u], "idle"}
    BY <1>0, <2>1 DEF CallsInProgress
  <2>3. ASSUME NEW u \in Thread
        PROVE  /\ pc'[u] # "bump"
               /\ pc'[u] \in {"refresh", "copy"} => scopes'[u] = << >>
               /\ modify'[u] \in Modify \cup {Register!Identity}
    BY <1>0, <2>1, <2>2 DEF CallsInProgress
  <2> QED BY <2>3 DEF CallsInProgress, Register!Identity
\* The other calls let go of the lock before they return.
<1>5. ASSUME NEW t \in Thread,
             mutex = NoThread \/ UNCHANGED <<mutex, contexts, settled>>,
             NEW p \in {"idle", "refresh", "copy"}, pc' = [pc EXCEPT ![t] = p] \/ (pc' = pc /\ Idle(t)),
             NEW q, scopes' = [scopes EXCEPT ![t] = q],
             p = "idle" \/ q = << >> \/ (pc' = pc /\ Idle(t)),
             modify' = modify \/ \E f \in Modify \cup {Register!Identity} :
                                    modify' = [modify EXCEPT ![t] = f]
      PROVE  CallsInProgress'
  <2>1. \A u \in Thread \ {t} :
          pc'[u] = pc[u] /\ scopes'[u] = scopes[u] /\ modify'[u] = modify[u]
    BY <1>0, <1>5
  <2>2. pc'[t] # "bump" /\ (pc'[t] \in {"refresh", "copy"} => scopes'[t] = << >>)
    BY <1>0, <1>5 DEF Idle
  <2>3. modify'[t] \in Modify \cup {Register!Identity}
    BY <1>0, <1>5
  <2> QED BY <1>0, <1>5, <2>1, <2>2, <2>3, OthersKeepCalls
<1>6. ASSUME NEW t \in Thread PROVE scopes = [scopes EXCEPT ![t] = scopes[t]]
  BY <1>0
<1>7. ASSUME NEW t \in Thread, GetDefaultContext(t) PROVE CallsInProgress'
  BY <1>5, <1>6, <1>7 DEF GetDefaultContext, args
<1>8. ASSUME NEW t \in Thread, SnapshotScoped(t) \/ SnapshotCached(t) PROVE CallsInProgress'
  BY <1>5, <1>6, <1>8 DEF SnapshotScoped, SnapshotCached, shared, args
<1>9. ASSUME NEW t \in Thread, SnapshotStale(t) PROVE CallsInProgress'
  BY <1>5, <1>6, <1>9 DEF SnapshotStale, shared
<1>10. ASSUME NEW t \in Thread, Refresh(t) PROVE CallsInProgress'
  BY <1>5, <1>6, <1>10 DEF Refresh, args
<1>11. ASSUME NEW t \in Thread, SetScopedDefaultContext(t) PROVE CallsInProgress'
  BY <1>5, <1>11 DEF SetScopedDefaultContext, Push, MayOpen, shared, args
<1>12. ASSUME NEW t \in Thread, ModifyScoped(t) PROVE CallsInProgress'
  BY <1>5, <1>12 DEF ModifyScoped, Push, MayOpen, shared, args
<1>13. ASSUME NEW t \in Thread, ModifyUnscoped(t) PROVE CallsInProgress'
  BY <1>5, <1>6, <1>13 DEF ModifyUnscoped
<1>14. ASSUME NEW t \in Thread, CopyContexts(t) PROVE CallsInProgress'
  BY <1>5, <1>14 DEF CopyContexts, Push, args
<1>15. ASSUME NEW t \in Thread, EndScope(t) PROVE CallsInProgress'
  BY <1>5, <1>15 DEF EndScope, shared, args
<1>16. CASE UNCHANGED vars
  <2>1. /\ mutex' = mutex /\ contexts' = contexts /\ settled' = settled
        /\ pc' = pc /\ scopes' = scopes /\ modify' = modify
    BY <1>16 DEF vars, args
  <2>2. ASSUME NEW t \in Thread
        PROVE  /\ pc'[t] = "bump" =>
                    /\ mutex' = t
                    /\ \/ contexts' = Register!NoContexts
                       \/ \E s \in Stat, c \in Ctx : contexts' = Register!Assigned(settled', s, c)
               /\ pc'[t] \in {"refresh", "copy"} => scopes'[t] = << >>
               /\ modify'[t] \in Modify \cup {Register!Identity}
    BY <2>1 DEF CallsInProgress
  <2> QED BY <2>2 DEF CallsInProgress, Register!NoContexts, Register!Assigned, Register!Identity
<1> QED
  BY <1>2, <1>3, <1>4, <1>7, <1>8, <1>9, <1>10, <1>11, <1>12, <1>13, <1>14, <1>15, <1>16 DEF Next

-----------------------------------------------------------------------------
(* The refinement.                                                         *)

LEMMA RegisterInit == Init => Register!Init
<1> SUFFICES ASSUME Init PROVE Register!Init
  OBVIOUS
<1>1. Shown(settled) = Register!WithArbitrary(Register!NoContexts)
  BY NoContextsFacts, ShownFacts DEF Init
<1> QED BY <1>1 DEF Init, Register!Init

\* What making sure of a context for Arbitrary shows: nothing.
LEMMA EnsureShowsNothing ==
  ASSUME Inv, mutex = NoThread, EnsureArbitrary
  PROVE  Shown(settled') = Shown(settled) /\ settled' = Shown(settled)
<1>1. settled \in PartialMaps
  BY TypeFacts DEF Inv
<1>2. settled' \in FullMaps /\ settled' \in PartialMaps /\ Arbitrary \in DOMAIN settled'
  BY EnsureFacts, PartialMapFacts
<1>3. settled' = settled \/ settled' = Register!WithArbitrary(settled)
  BY EnsureFacts
<1>4. Shown(settled') = Shown(settled)
  BY <1>1, <1>3, ShownFacts
<1> QED BY <1>2, <1>4, ShownFacts

LEMMA RegisterNext ==
  Inv /\ CallsInProgress /\ [Next]_vars => [Register!Next]_(Register!vars)
<1> SUFFICES ASSUME Inv, CallsInProgress, [Next]_vars PROVE [Register!Next]_(Register!vars)
  OBVIOUS
<1> DEFINE Stutter == Shown(settled') = Shown(settled) /\ scopes' = scopes /\ answer' = answer
<1>0. /\ contexts \in PartialMaps /\ settled \in PartialMaps
      /\ generation \in Nat /\ generation > 0
      /\ cache \in [Thread -> Caches]
      /\ scopes \in [Thread -> Seq(FullMaps)]
      /\ modify \in [Thread -> [Ctx -> Ctx]]
      /\ asked \in [Thread -> Stat]
  BY TypeFacts DEF Inv, CachesFollow
<1>s. Stutter => UNCHANGED Register!vars
  BY DEF Register!vars
<1>1. ASSUME NEW t \in Thread, SetDefaultContext(t) \/ ResetDefaultContext(t) PROVE Stutter
  BY <1>1 DEF SetDefaultContext, ResetDefaultContext, Replace
<1>2. ASSUME NEW t \in Thread, Bump(t) PROVE Register!Next
  <2>1. settled' = contexts /\ scopes' = scopes /\ answer' = answer
    BY <1>2 DEF Bump
  <2>2. CASE contexts = Register!NoContexts
    <3>1. Shown(settled') = Register!WithArbitrary(Register!NoContexts)
      BY <2>1, <2>2, NoContextsFacts, ShownFacts
    <3> QED BY <2>1, <3>1 DEF Register!Next, Register!Reset
  <2>3. ASSUME NEW s \in Stat, NEW c \in Ctx, contexts = Register!Assigned(settled, s, c)
        PROVE  Register!Next
    <3>1. Shown(settled') = Register!Assigned(Shown(settled), s, c)
      BY <1>0, <2>1, <2>3, ShownAssigned
    <3> QED BY <2>1, <3>1 DEF Register!Next, Register!Set
  <2> QED BY <1>2, <2>2, <2>3 DEF Bump, CallsInProgress
<1>3. ASSUME NEW t \in Thread, GetDefaultContext(t) PROVE Stutter
  BY <1>3, EnsureShowsNothing DEF GetDefaultContext
\* A snapshot that looks s up in m, the contexts in effect for its thread.
<1>4. ASSUME NEW t \in Thread, NEW s \in Stat, NEW m, Answer(t, m, s),
             m = Register!InEffect(t), Shown(settled') = Shown(settled), scopes' = scopes
      PROVE  Register!Next
  <2>1. answer' = [answer EXCEPT ![t] = Register!Lookup(Register!InEffect(t), s)]
    BY <1>4 DEF Answer
  <2> QED BY <1>4, <2>1 DEF Register!Next, Register!Snapshot
<1>5. ASSUME NEW t \in Thread, SnapshotScoped(t) PROVE Register!Next
  <2>1. Register!InEffect(t) = Register!Top(scopes[t])
    BY <1>5 DEF SnapshotScoped, Register!InEffect
  <2> QED BY <1>4, <1>5, <2>1 DEF SnapshotScoped, shared
<1>6. ASSUME NEW t \in Thread, SnapshotCached(t) PROVE Register!Next
  <2>1. cache[t].contexts \in FullMaps /\ cache[t].contexts = settled
    BY <1>0, <1>6 DEF SnapshotCached, CacheHit, Caches, Inv, CachesFollow
  <2>2. Shown(settled) = settled
    BY <2>1, <1>0, PartialMapFacts, ShownFacts
  <2>3. Register!InEffect(t) = cache[t].contexts
    BY <1>6, <2>1, <2>2 DEF SnapshotCached, Register!InEffect
  <2> QED BY <1>4, <1>6, <2>3 DEF SnapshotCached, shared
<1>7. ASSUME NEW t \in Thread, SnapshotStale(t) PROVE Stutter
  BY <1>7 DEF SnapshotStale, shared
<1>8. ASSUME NEW t \in Thread, Refresh(t) PROVE Register!Next
  <2>1. mutex = NoThread /\ EnsureArbitrary /\ Answer(t, published', asked[t]) /\ scopes' = scopes
    BY <1>8 DEF Refresh
  <2>2. published' = Shown(settled) /\ Shown(settled') = Shown(settled)
    BY <2>1, EnsureFacts, EnsureShowsNothing
  <2>3. Register!InEffect(t) = published'
    BY <1>8, <2>2 DEF Refresh, CallsInProgress, Register!InEffect
  <2> QED BY <1>0, <1>4, <2>1, <2>2, <2>3
<1>9. ASSUME NEW t \in Thread, SetScopedDefaultContext(t) PROVE Register!Next
  <2>1. PICK m \in Scopes : Push(t, m)
    BY <1>9 DEF SetScopedDefaultContext
  <2>2. settled' = settled /\ answer' = answer
    BY <1>9 DEF SetScopedDefaultContext, shared
  <2> QED BY <2>1, <2>2 DEF Push, Register!Next, Register!SetScoped, Register!Open
<1>10. ASSUME NEW t \in Thread, NEW f \in Modify \cup {Register!Identity},
              NEW m \in PartialMaps, Shown(m) = Register!InEffect(t),
              Push(t, Register!Modified(m, f)),
              Shown(settled') = Shown(settled), answer' = answer
       PROVE  Register!Next
  <2>1. f \in [Ctx -> Ctx] /\ f[Initial] = Initial
    BY DefaultContextAssumption, ModifyKeepsInitial DEF Register!Identity
  <2>2. Register!WithArbitrary(Register!Modified(m, f))
          = Register!Modified(Register!InEffect(t), f)
    BY <1>10, <2>1, ShownModified
  <2>3. scopes' = [scopes EXCEPT ![t] = Append(@, Register!Modified(Register!InEffect(t), f))]
    BY <1>10, <2>2 DEF Push
  <2> QED BY <1>10, <2>3 DEF Register!Next, Register!SetScopedModified, Register!Open
<1>11. ASSUME NEW t \in Thread, ModifyScoped(t) PROVE Register!Next
  <2>1. PICK f \in Modify : Push(t, Register!Modified(Register!Top(scopes[t]), f))
    BY <1>11 DEF ModifyScoped
  <2>2. Register!InEffect(t) = Register!Top(scopes[t]) /\ Register!Top(scopes[t]) \in FullMaps
    BY <1>0, <1>11, ScopeFacts DEF ModifyScoped, Register!InEffect
  <2>3. Register!Top(scopes[t]) \in PartialMaps
        /\ Shown(Register!Top(scopes[t])) = Register!Top(scopes[t])
    BY <2>2, PartialMapFacts, ShownFacts
  <2>4. settled' = settled /\ answer' = answer
    BY <1>11 DEF ModifyScoped, shared
  <2> QED BY <1>10, <2>1, <2>2, <2>3, <2>4
<1>12. ASSUME NEW t \in Thread, ModifyUnscoped(t) PROVE Stutter
  BY <1>12, EnsureShowsNothing DEF ModifyUnscoped
<1>13. ASSUME NEW t \in Thread, CopyContexts(t) PROVE Register!Next
  <2>1. contexts = settled
    BY <1>13 DEF CopyContexts, Inv, UnlockedIsSettled
  <2>2. Shown(contexts) = Register!InEffect(t)
    BY <1>13, <2>1 DEF CopyContexts, CallsInProgress, Register!InEffect
  <2>3. Push(t, Register!Modified(contexts, modify[t])) /\ settled' = settled /\ answer' = answer
    BY <1>13 DEF CopyContexts, shared
  <2>4. modify[t] \in Modify \cup {Register!Identity}
    BY DEF CallsInProgress
  <2> QED BY <1>0, <1>10, <2>2, <2>3, <2>4
<1>14. ASSUME NEW t \in Thread, EndScope(t) PROVE Register!Next
  BY <1>14 DEF EndScope, shared, Register!Next, Register!Close
<1>15. CASE UNCHANGED vars
  BY <1>15 DEF vars, Register!vars
<1> HIDE DEF Stutter
<1> QED
  BY <1>s, <1>1, <1>2, <1>3, <1>5, <1>6, <1>7, <1>8, <1>9, <1>11, <1>12, <1>13, <1>14, <1>15
  DEF Next

\* For modifications that keep Context{}, the default contexts are a register:
\* every snapshot returns what the last completed change left, and every pinned
\* scope is the contexts of one moment, whatever the interleaving.
THEOREM ContextsAreARegister == Spec => ImplementsContextRegister
<1>1. Inv /\ CallsInProgress /\ [Next]_vars => Inv' /\ CallsInProgress'
  BY InvNext, CallsNext
<1> QED
  BY InvInit, CallsInit, <1>1, RegisterInit, RegisterNext, PTL
  DEF Spec, ImplementsContextRegister, Register!Spec

-----------------------------------------------------------------------------
(* The versions of ContextVersion identify configurations, for any number   *)
(* of threads, contexts, objects, addresses and settings.                   *)

Issue == [config : Configuration, version : Nat \ {0}]
Reading == {NotReading}
             \cup [at : {"missed"}, context : Contexts]
             \cup [at : {"found"}, context : Contexts, version : Nat \ {0}]

VersionTypeOK ==
  /\ made \in Object /\ held \subseteq 1 .. made /\ Default \in held
  /\ home \in [Object -> Address]
  /\ context \in [Contexts -> Configuration \cup {None}]
  /\ cached \in [Contexts -> Nat]
  /\ last \in Nat
  /\ reader \in [Reader -> Reading]
  /\ issued \subseteq Issue

\* only what was made is referred to, and what a version was given out for
MadeBefore ==
  /\ \A c \in Contexts : context[c] # None => Objects(context[c]) \subseteq 1 .. made
  /\ \A x \in issued : x.version <= last /\ Objects(x.config) \subseteq 1 .. made

\* objects that live have addresses of their own
HomesApart == \A o, p \in Living : home[o] = home[p] => o = p

\* the table has the versions of every configuration that may be asked for
\* again: the objects of the others are dead
TableComplete ==
  /\ table \subseteq issued
  /\ \A x \in issued : x \in table \/ ~Alive(x.config)

ReadersApart ==
  \A t \in Reader : reader[t] # NotReading =>
    /\ context[reader[t].context] # None
    /\ reader[t].at = "found" =>
         [config |-> context[reader[t].context], version |-> reader[t].version] \in issued

VersionInv ==
  /\ VersionTypeOK /\ MadeBefore /\ HomesApart /\ TableComplete /\ ReadersApart
  /\ VersionsIdentifyConfigurations

-----------------------------------------------------------------------------
LEMMA LivingMade ==
  ASSUME VersionTypeOK, MadeBefore
  PROVE  Living \subseteq 1 .. made
BY DEF Living, Referenced, VersionTypeOK, MadeBefore

(* A configuration that a context has is alive.                            *)
LEMMA ContextAlive ==
  ASSUME NEW c \in Contexts, context[c] # None
  PROVE  Alive(context[c])
BY DEF Alive, Living, Referenced

(* Objects that live are the same when they are at the same address, hence *)
(* keys of live objects are the same when they compare so.                 *)
LEMMA SameKeySame ==
  ASSUME HomesApart, NEW k \in Configuration, NEW config \in Configuration,
         Alive(k), Alive(config)
  PROVE  SameKey(k, config) <=> k = config
<1>1. ASSUME NEW o \in Object \cup {Null}, NEW p \in Object \cup {Null},
             o # Null => o \in Living, p # Null => p \in Living
      PROVE  SameRef(o, p) <=> o = p
  BY <1>1 DEF SameRef, HomesApart
<1>2. /\ k.registry # Null => k.registry \in Living
      /\ config.registry # Null => config.registry \in Living
      /\ k.canonicalizer # Null => k.canonicalizer \in Living
      /\ config.canonicalizer # Null => config.canonicalizer \in Living
  BY DEF Alive, Objects
<1>3. /\ k.registry \in Object \cup {Null} /\ config.registry \in Object \cup {Null}
      /\ k.canonicalizer \in Object \cup {Null}
      /\ config.canonicalizer \in Object \cup {Null}
  BY DEF Configuration
<1>4. SameRef(k.registry, config.registry) <=> k.registry = config.registry
  BY <1>1, <1>2, <1>3
<1>5. SameRef(k.canonicalizer, config.canonicalizer)
        <=> k.canonicalizer = config.canonicalizer
  BY <1>1, <1>2, <1>3
<1>6. k = config <=> /\ k.registry = config.registry
                     /\ k.canonicalizer = config.canonicalizer
                     /\ k.setting = config.setting
  BY DEF Configuration
<1> QED BY <1>4, <1>5, <1>6 DEF SameKey

-----------------------------------------------------------------------------
(* What every change of contexts and objects keeps: at most the object just *)
(* made comes to life, at an address where nothing lived.                   *)
LEMMA ChangeKeeps ==
  ASSUME VersionInv, VersionTypeOK',
         UNCHANGED <<table, last, reader, issued>>,
         made' \in {made, made + 1},
         Living' \subseteq Living \cup {made + 1},
         \A o \in 1 .. made : home'[o] = home[o],
         made + 1 \in Living' => \A o \in Living : home'[made + 1] # home[o],
         \A c \in Contexts : context'[c] # None => Objects(context'[c]) \subseteq 1 .. made',
         \A c \in Contexts : ~Unused(c) => context'[c] = context[c],
         \A c \in Contexts : cached'[c] # 0 =>
           context'[c] # None
             /\ [config |-> context'[c], version |-> cached'[c]] \in issued
  PROVE  VersionInv'
<1> USE DEF VersionInv
<1>1. MadeBefore'
  <2>0. 1 .. made \subseteq 1 .. made'
    BY ContextVersionAssumption DEF VersionTypeOK, Object
  <2>1. \A x \in issued : x.version <= last /\ Objects(x.config) \subseteq 1 .. made'
    BY <2>0 DEF MadeBefore
  <2> QED BY <2>1 DEF MadeBefore, Objects
<1>2. Living \subseteq 1 .. made
  BY LivingMade
<1>3. HomesApart'
  <2> SUFFICES ASSUME NEW o \in Living', NEW p \in Living', home'[o] = home'[p]
               PROVE  o = p
    BY DEF HomesApart
  <2>1. CASE o \in Living /\ p \in Living
    BY <1>2, <2>1 DEF HomesApart
  <2>2. CASE o = made + 1 /\ p \in Living
    BY <1>2, <2>2
  <2>3. CASE o \in Living /\ p = made + 1
    BY <1>2, <2>3
  <2> QED BY <2>1, <2>2, <2>3
<1>4. TableComplete'
  <2> SUFFICES ASSUME NEW x \in issued, x \notin table PROVE ~Alive(x.config)'
    BY DEF TableComplete
  <2>1. PICK o \in Objects(x.config) : o \notin Living
    BY DEF TableComplete, Alive
  <2>2. o \in 1 .. made
    BY <2>1 DEF MadeBefore
  <2>3. o # made + 1
    BY <2>2 DEF VersionTypeOK, Object
  <2>4. o \notin Living'
    BY <2>1, <2>3
  <2> QED BY <2>1, <2>4 DEF Alive, Objects
<1>5. ReadersApart'
  <2> SUFFICES ASSUME NEW t \in Reader, reader[t] # NotReading
               PROVE  /\ context'[reader[t].context] # None
                      /\ reader[t].at = "found" =>
                           [config |-> context'[reader[t].context],
                            version |-> reader[t].version] \in issued
    BY DEF ReadersApart
  <2>1. reader[t].context \in Contexts
    BY DEF VersionTypeOK, Reading, NotReading
  <2>2. context'[reader[t].context] = context[reader[t].context]
    BY <2>1 DEF Unused
  <2> QED BY <2>2 DEF ReadersApart
<1>6. VersionsIdentifyConfigurations'
  BY DEF VersionsIdentifyConfigurations
<1> QED BY <1>1, <1>3, <1>4, <1>5, <1>6

-----------------------------------------------------------------------------
(* One lemma for each change.                                              *)

LEMMA MakeObjectFacts ==
  ASSUME VersionInv, MakeObject
  PROVE  /\ made + 1 \in Object /\ made' = made + 1
         /\ home' \in [Object -> Address]
         /\ \A o \in 1 .. made : home'[o] = home[o]
         /\ \A o \in Living : home'[made + 1] # home[o]
         /\ 1 .. made \subseteq 1 .. (made + 1)
<1>1. made \in Nat /\ made >= 1 /\ made < MaxObjects /\ made' = made + 1
  BY ContextVersionAssumption DEF MakeObject, VersionInv, VersionTypeOK, Object
<1>2. made + 1 \in Object
  BY <1>1, ContextVersionAssumption DEF Object
<1>3. PICK a \in Address \ {home[o] : o \in Living} :
        home' = [home EXCEPT ![made + 1] = a]
  BY DEF MakeObject
<1>4. home \in [Object -> Address]
  BY DEF VersionInv, VersionTypeOK
<1>5. \A o \in 1 .. made : o \in Object /\ o # made + 1
  BY <1>1, ContextVersionAssumption DEF Object
<1>6. \A o \in 1 .. made : home'[o] = home[o]
  BY <1>3, <1>4, <1>5
<1>7. home'[made + 1] = a
  BY <1>2, <1>3, <1>4
<1>8. home' \in [Object -> Address]
  BY <1>2, <1>3, <1>4
<1>9. 1 .. made \subseteq 1 .. (made + 1)
  BY <1>1
<1> QED BY <1>1, <1>2, <1>3, <1>6, <1>7, <1>8, <1>9

LEMMA ContextsBounded ==
  ASSUME VersionInv, NEW c \in Contexts, context[c] # None
  PROVE  context[c] \in Configuration /\ Objects(context[c]) \subseteq Living
           /\ Objects(context[c]) \subseteq 1 .. made
BY DEF VersionInv, VersionTypeOK, MadeBefore, Living, Referenced

(* A setter whose configuration refers only to what lives already.         *)
LEMMA SetLiving ==
  ASSUME VersionInv, NEW c \in Contexts, NEW config \in Configuration,
         Unused(c), Set(c, config), UNCHANGED <<made, home, held>>,
         Objects(config) \subseteq Living
  PROVE  VersionInv'
<1> USE DEF VersionInv
<1>1. /\ context' = [context EXCEPT ![c] = config]
      /\ cached' = [cached EXCEPT ![c] = 0]
      /\ UNCHANGED <<table, last, reader, issued>>
  BY DEF Set
<1>2. VersionTypeOK'
  BY <1>1 DEF VersionTypeOK
<1>3. \A d \in Contexts : d # c => context'[d] = context[d] /\ cached'[d] = cached[d]
  BY <1>1 DEF VersionTypeOK
<1>4. context'[c] = config /\ cached'[c] = 0
  BY <1>1 DEF VersionTypeOK
<1>5. Living' \subseteq Living
  <2>1. \A d \in Contexts : context'[d] # None => Objects(context'[d]) \subseteq Living
    BY <1>3, <1>4, ContextsBounded
  <2> QED BY <2>1 DEF Living, Referenced, Objects
<1>6. Living \subseteq 1 .. made
  BY LivingMade
<1>7. \A d \in Contexts : context'[d] # None => Objects(context'[d]) \subseteq 1 .. made'
  BY <1>3, <1>4, <1>6, ContextsBounded
<1>8. made + 1 \notin Living'
  <2>1. made + 1 \notin 1 .. made
    BY ContextVersionAssumption DEF VersionTypeOK, Object
  <2> QED BY <2>1, <1>5, <1>6
<1>9. \A d \in Contexts : ~Unused(d) => context'[d] = context[d]
  BY <1>3
<1>10. \A d \in Contexts : cached'[d] # 0 =>
         context'[d] # None
           /\ [config |-> context'[d], version |-> cached'[d]] \in issued
  BY <1>3, <1>4 DEF VersionsIdentifyConfigurations
<1> QED BY <1>1, <1>2, <1>5, <1>7, <1>8, <1>9, <1>10, ChangeKeeps

LEMMA SetRegistryKeeps ==
  ASSUME VersionInv, NEW c \in Contexts, SetRegistry(c)
  PROVE  VersionInv'
<1> DEFINE fresh == [context[c] EXCEPT !.registry = made + 1]
           none == [context[c] EXCEPT !.registry = Null]
<1>1. /\ context[c] # None /\ Unused(c) /\ held' = held
      /\ context[c] \in Configuration
      /\ Objects(context[c]) \subseteq Living
  BY ContextsBounded DEF SetRegistry
<1>2. CASE MakeObject /\ Set(c, fresh)
  <2>1. /\ context' = [context EXCEPT ![c] = fresh]
        /\ cached' = [cached EXCEPT ![c] = 0]
        /\ UNCHANGED <<table, last, reader, issued>>
    BY <1>2 DEF Set
  <2>2. fresh \in Configuration /\ Objects(fresh) \subseteq Living \cup {made + 1}
    BY <1>1, <1>2, MakeObjectFacts DEF Configuration, Objects
  <2>3. VersionTypeOK'
    BY <1>1, <1>2, <2>1, <2>2, MakeObjectFacts DEF VersionInv, VersionTypeOK
  <2>4. /\ \A d \in Contexts : d # c => context'[d] = context[d] /\ cached'[d] = cached[d]
        /\ context'[c] = fresh /\ cached'[c] = 0
    BY <2>1 DEF VersionInv, VersionTypeOK
  <2> HIDE DEF fresh, none
  <2>5. Living' \subseteq Living \cup {made + 1}
    <3>1. \A d \in Contexts : context'[d] # None =>
            Objects(context'[d]) \subseteq Living \cup {made + 1}
      BY <2>2, <2>4, ContextsBounded
    <3> QED BY <1>1, <3>1 DEF Living, Referenced, Objects
  <2>6. \A d \in Contexts : context'[d] # None => Objects(context'[d]) \subseteq 1 .. made'
    <3>1. Living \subseteq 1 .. made
      BY LivingMade DEF VersionInv
    <3>2. 1 .. made \subseteq 1 .. (made + 1) /\ made' = made + 1
      BY <1>2, MakeObjectFacts
    <3>3. made + 1 \in 1 .. (made + 1)
      BY <1>2, MakeObjectFacts, ContextVersionAssumption DEF Object
    <3>4. Objects(fresh) \subseteq 1 .. made'
      BY <2>2, <3>1, <3>2, <3>3
    <3> QED BY <2>4, <3>2, <3>4, ContextsBounded
  <2>7. \A d \in Contexts : ~Unused(d) => context'[d] = context[d]
    BY <1>1, <2>4
  <2>8. \A d \in Contexts : cached'[d] # 0 =>
          context'[d] # None
            /\ [config |-> context'[d], version |-> cached'[d]] \in issued
    BY <2>4 DEF VersionInv, VersionsIdentifyConfigurations
  <2> QED BY <1>2, <2>1, <2>3, <2>5, <2>6, <2>7, <2>8, MakeObjectFacts, ChangeKeeps
<1>3. CASE UNCHANGED <<made, home>> /\ Set(c, none)
  <2>1. none \in Configuration /\ Objects(none) \subseteq Living
    BY <1>1 DEF Configuration, Objects
  <2> QED BY <1>1, <1>3, <2>1, SetLiving
<1> QED BY <1>2, <1>3 DEF SetRegistry

LEMMA MakeCanonicalizerKeeps ==
  ASSUME VersionInv, MakeCanonicalizer
  PROVE  VersionInv'
<1>1. /\ MakeObject /\ held' = held \cup {made + 1}
      /\ UNCHANGED <<context, cached, table, last, reader, issued>>
  BY DEF MakeCanonicalizer
<1>2. made + 1 \in 1 .. (made + 1)
  BY <1>1, MakeObjectFacts, ContextVersionAssumption DEF Object
<1>3. VersionTypeOK'
  BY <1>1, <1>2, MakeObjectFacts DEF VersionInv, VersionTypeOK
<1>4. Living' \subseteq Living \cup {made + 1}
  BY <1>1 DEF Living, Referenced, Objects
<1>5. \A d \in Contexts : context'[d] # None => Objects(context'[d]) \subseteq 1 .. made'
  BY <1>1, MakeObjectFacts, ContextsBounded
<1>6. \A d \in Contexts : cached'[d] # 0 =>
        context'[d] # None
          /\ [config |-> context'[d], version |-> cached'[d]] \in issued
  BY <1>1 DEF VersionInv, VersionsIdentifyConfigurations
<1> QED BY <1>1, <1>3, <1>4, <1>5, <1>6, MakeObjectFacts, ChangeKeeps

LEMMA LetGoKeeps ==
  ASSUME VersionInv, LetGo
  PROVE  VersionInv'
<1>1. PICK o \in held \ {Default} : held' = held \ {o}
  BY DEF LetGo
<1>2. UNCHANGED <<made, home, context, cached, table, last, reader, issued>>
  BY DEF LetGo
<1>3. VersionTypeOK'
  BY <1>1, <1>2 DEF VersionInv, VersionTypeOK
<1>4. Living' \subseteq Living
  BY <1>1, <1>2 DEF Living, Referenced, Objects
<1>5. made + 1 \notin Living'
  <2>1. Living \subseteq 1 .. made
    BY LivingMade DEF VersionInv
  <2>2. made + 1 \notin 1 .. made
    BY ContextVersionAssumption DEF VersionInv, VersionTypeOK, Object
  <2> QED BY <1>4, <2>1, <2>2
<1>6. \A d \in Contexts : context'[d] # None => Objects(context'[d]) \subseteq 1 .. made'
  BY <1>2, ContextsBounded
<1>7. \A d \in Contexts : cached'[d] # 0 =>
        context'[d] # None
          /\ [config |-> context'[d], version |-> cached'[d]] \in issued
  BY <1>2 DEF VersionInv, VersionsIdentifyConfigurations
<1> QED BY <1>2, <1>3, <1>4, <1>5, <1>6, <1>7, ChangeKeeps

LEMMA SetCanonicalizerKeeps ==
  ASSUME VersionInv, NEW c \in Contexts, SetCanonicalizer(c)
  PROVE  VersionInv'
<1>1. PICK o \in held \cup {context[x].canonicalizer :
                              x \in {y \in Contexts : context[y] # None}} :
        Set(c, [context[c] EXCEPT !.canonicalizer = o])
  BY DEF SetCanonicalizer
<1> DEFINE new == [context[c] EXCEPT !.canonicalizer = o]
<1>2. context[c] # None /\ Unused(c) /\ UNCHANGED <<made, home, held>>
  BY DEF SetCanonicalizer
<1>3. o \in Living /\ o \in Object
  <2>1. CASE o \in held
    <3>1. 1 .. made \subseteq Object
      BY ContextVersionAssumption DEF VersionInv, VersionTypeOK, Object
    <3> QED BY <2>1, <3>1 DEF Living, VersionInv, VersionTypeOK
  <2>2. CASE o \notin held
    <3>1. PICK x \in Contexts : context[x] # None /\ o = context[x].canonicalizer
      BY <1>1, <2>2
    <3>2. context[x] \in Configuration /\ Objects(context[x]) \subseteq Living
      BY <3>1, ContextsBounded
    <3>3. o \in Object
      BY <3>1, <3>2 DEF Configuration
    <3>4. o # Null
      BY <3>3, ContextVersionAssumption DEF Object, Null
    <3> QED BY <3>1, <3>2, <3>3, <3>4 DEF Objects
  <2> QED BY <2>1, <2>2
<1>4. context[c] \in Configuration /\ Objects(context[c]) \subseteq Living
  BY <1>2, ContextsBounded
<1>5. new \in Configuration /\ Objects(new) \subseteq Living
  BY <1>3, <1>4 DEF Configuration, Objects
<1> QED BY <1>1, <1>2, <1>5, SetLiving

LEMMA SetValueKeeps ==
  ASSUME VersionInv, NEW c \in Contexts, SetValue(c)
  PROVE  VersionInv'
<1>1. PICK s \in Setting : Set(c, [context[c] EXCEPT !.setting = s])
  BY DEF SetValue
<1>2. context[c] # None /\ Unused(c) /\ UNCHANGED <<made, home, held>>
  BY DEF SetValue
<1> DEFINE new == [context[c] EXCEPT !.setting = s]
<1>3. context[c] \in Configuration /\ Objects(context[c]) \subseteq Living
  BY <1>2, ContextsBounded
<1>4. new \in Configuration /\ Objects(new) \subseteq Living
  BY <1>3 DEF Configuration, Objects
<1> QED BY <1>1, <1>2, <1>4, SetLiving

LEMMA ConstructKeeps ==
  ASSUME VersionInv, NEW c \in Contexts, Construct(c)
  PROVE  VersionInv'
<1>1. PICK s \in Setting :
        Set(c, [registry |-> Null, canonicalizer |-> Default, setting |-> s])
  BY DEF Construct
<1> DEFINE new == [registry |-> Null, canonicalizer |-> Default, setting |-> s]
<1>2. context[c] = None /\ UNCHANGED <<made, home, held>>
  BY DEF Construct
<1>3. Unused(c)
  BY <1>2 DEF Unused, VersionInv, ReadersApart
<1>4. Default \in Object
  BY ContextVersionAssumption DEF Object, Default
<1>5. new \in Configuration /\ Objects(new) \subseteq Living
  BY <1>4 DEF Configuration, Objects, Living, VersionInv, VersionTypeOK
<1> QED BY <1>1, <1>2, <1>3, <1>5, SetLiving

LEMMA CopyKeeps ==
  ASSUME VersionInv, NEW c \in Contexts, NEW d \in Contexts, Copy(c, d)
  PROVE  VersionInv'
<1>1. /\ context[c] # None /\ Unused(d)
      /\ context' = [context EXCEPT ![d] = context[c]]
      /\ cached' = [cached EXCEPT ![d] = cached[c]]
      /\ UNCHANGED <<made, home, held, table, last, reader, issued>>
  BY DEF Copy
<1>2. VersionTypeOK'
  BY <1>1 DEF VersionInv, VersionTypeOK
<1>3. /\ \A x \in Contexts : x # d => context'[x] = context[x] /\ cached'[x] = cached[x]
      /\ context'[d] = context[c] /\ cached'[d] = cached[c]
  BY <1>1 DEF VersionInv, VersionTypeOK
<1>4. Living' \subseteq Living
  <2>1. \A x \in Contexts : context'[x] # None => Objects(context'[x]) \subseteq Living
    BY <1>1, <1>3, ContextsBounded
  <2> QED BY <1>1, <2>1 DEF Living, Referenced, Objects
<1>5. made + 1 \notin Living'
  <2>1. Living \subseteq 1 .. made
    BY LivingMade DEF VersionInv
  <2>2. made + 1 \notin 1 .. made
    BY ContextVersionAssumption DEF VersionInv, VersionTypeOK, Object
  <2> QED BY <1>4, <2>1, <2>2
<1>6. \A x \in Contexts : context'[x] # None => Objects(context'[x]) \subseteq 1 .. made'
  BY <1>1, <1>3, ContextsBounded
<1>7. \A x \in Contexts : cached'[x] # 0 =>
        context'[x] # None
          /\ [config |-> context'[x], version |-> cached'[x]] \in issued
  BY <1>1, <1>3 DEF VersionInv, VersionsIdentifyConfigurations
<1>8. \A x \in Contexts : ~Unused(x) => context'[x] = context[x]
  BY <1>1, <1>3
<1> QED BY <1>1, <1>2, <1>4, <1>5, <1>6, <1>7, <1>8, ChangeKeeps

LEMMA DestroyKeeps ==
  ASSUME VersionInv, NEW c \in Contexts, Destroy(c)
  PROVE  VersionInv'
<1>1. /\ Unused(c)
      /\ context' = [context EXCEPT ![c] = None]
      /\ cached' = [cached EXCEPT ![c] = 0]
      /\ UNCHANGED <<made, home, held, table, last, reader, issued>>
  BY DEF Destroy
<1>2. VersionTypeOK'
  BY <1>1 DEF VersionInv, VersionTypeOK
<1>3. /\ \A x \in Contexts : x # c => context'[x] = context[x] /\ cached'[x] = cached[x]
      /\ context'[c] = None /\ cached'[c] = 0
  BY <1>1 DEF VersionInv, VersionTypeOK
<1>4. Living' \subseteq Living
  BY <1>1, <1>3 DEF Living, Referenced, Objects
<1>5. made + 1 \notin Living'
  <2>1. Living \subseteq 1 .. made
    BY LivingMade DEF VersionInv
  <2>2. made + 1 \notin 1 .. made
    BY ContextVersionAssumption DEF VersionInv, VersionTypeOK, Object
  <2> QED BY <1>4, <2>1, <2>2
<1>6. \A x \in Contexts : context'[x] # None => Objects(context'[x]) \subseteq 1 .. made'
  BY <1>1, <1>3, ContextsBounded
<1>7. \A x \in Contexts : cached'[x] # 0 =>
        context'[x] # None
          /\ [config |-> context'[x], version |-> cached'[x]] \in issued
  BY <1>3 DEF VersionInv, VersionsIdentifyConfigurations
<1>8. \A x \in Contexts : ~Unused(x) => context'[x] = context[x]
  BY <1>1, <1>3
<1> QED BY <1>1, <1>2, <1>4, <1>5, <1>6, <1>7, <1>8, ChangeKeeps

-----------------------------------------------------------------------------
(* version(): the steps of a reader.                                       *)

LEMMA LoadStaleKeeps ==
  ASSUME VersionInv, NEW t \in Reader, NEW c \in Contexts, LoadStale(t, c)
  PROVE  VersionInv'
<1>1. /\ context[c] # None
      /\ reader' = [reader EXCEPT ![t] = [at |-> "missed", context |-> c]]
      /\ UNCHANGED <<made, home, held, context, cached, table, last, issued>>
  BY DEF LoadStale
<1>2. VersionTypeOK'
  BY <1>1 DEF VersionInv, VersionTypeOK, Reading
<1>3. ReadersApart'
  BY <1>1 DEF VersionInv, VersionTypeOK, ReadersApart
<1>4. (MadeBefore /\ HomesApart /\ TableComplete /\ VersionsIdentifyConfigurations)'
  BY <1>1 DEF VersionInv, MadeBefore, HomesApart, TableComplete, Living, Referenced,
              Objects, Alive, VersionsIdentifyConfigurations
<1> QED BY <1>2, <1>3, <1>4 DEF VersionInv

(* A lookup gives out one version: known, with the configuration it was    *)
(* made for, or new, and the table then is as complete.                    *)
LEMMA LookupKeeps ==
  ASSUME VersionInv, NEW t \in Reader, Lookup(t)
  PROVE  VersionInv'
<1> DEFINE c == reader[t].context
           config == context[c]
<1>1. /\ reader[t].at = "missed"
      /\ UNCHANGED <<made, home, held, context, cached>>
  BY DEF Lookup
<1>2. reader[t] # NotReading /\ c \in Contexts
  BY <1>1 DEF VersionInv, VersionTypeOK, Reading, NotReading
<1>3. config # None
  BY <1>2 DEF VersionInv, ReadersApart
<1>4. config \in Configuration /\ Alive(config) /\ Objects(config) \subseteq 1 .. made
  BY <1>2, <1>3, ContextsBounded, ContextAlive
<1> HIDE DEF config
<1>5. \A e \in table : e \in issued /\ e \in Issue
  BY DEF VersionInv, TableComplete, VersionTypeOK
<1>6. Living' = Living /\ \A k \in Configuration : Alive(k)' <=> Alive(k)
  BY <1>1 DEF Living, Referenced, Objects, Alive
<1>7. HomesApart'
  BY <1>1, <1>6 DEF VersionInv, HomesApart
<1>8. \A e \in table : e \in Find(config) <=> Alive(e.config) /\ e.config = config
  <2> SUFFICES ASSUME NEW e \in table
               PROVE  e \in Find(config) <=> Alive(e.config) /\ e.config = config
    OBVIOUS
  <2>1. e.config \in Configuration
    BY <1>5 DEF Issue
  <2>2. Alive(e.config) => (SameKey(e.config, config) <=> e.config = config)
    BY <1>4, <2>1, SameKeySame DEF VersionInv
  <2> QED BY <2>2 DEF Find
<1>9. ASSUME NEW version \in Nat \ {0},
             reader' = [reader EXCEPT ![t] =
               [at |-> "found", context |-> c, version |-> version]],
             [config |-> config, version |-> version] \in issued',
             issued \subseteq issued'
      PROVE  ReadersApart' /\ reader' \in [Reader -> Reading]
  <2>1. reader' \in [Reader -> Reading]
    BY <1>2, <1>9 DEF VersionInv, VersionTypeOK, Reading
  <2>2. /\ reader'[t] = [at |-> "found", context |-> c, version |-> version]
        /\ \A u \in Reader : u # t => reader'[u] = reader[u]
    BY <1>9 DEF VersionInv, VersionTypeOK
  <2>3. context' = context
    BY <1>1
  <2> SUFFICES ASSUME NEW u \in Reader, reader'[u] # NotReading
               PROVE  /\ context[reader'[u].context] # None
                      /\ reader'[u].at = "found" =>
                           [config |-> context[reader'[u].context],
                            version |-> reader'[u].version] \in issued'
    BY <2>1, <2>3 DEF ReadersApart
  <2>4. CASE u = t
    BY <1>3, <1>9, <2>2, <2>4 DEF config
  <2>5. CASE u # t
    BY <1>9, <2>2, <2>5 DEF VersionInv, ReadersApart
  <2> QED BY <2>4, <2>5
<1>10. CASE \E e \in Find(config) :
              /\ reader' = [reader EXCEPT ![t] =
                   [at |-> "found", context |-> @.context, version |-> e.version]]
              /\ issued' = issued \cup {[config |-> config, version |-> e.version]}
              /\ UNCHANGED <<table, last>>
  <2>1. PICK e \in Find(config) :
          /\ reader' = [reader EXCEPT ![t] =
               [at |-> "found", context |-> c, version |-> e.version]]
          /\ issued' = issued \cup {[config |-> config, version |-> e.version]}
          /\ UNCHANGED <<table, last>>
    BY <1>10
  <2>2. e \in table /\ e.config = config /\ e \in issued /\ e \in Issue
    BY <1>5, <1>8, <2>1 DEF Find
  <2>3. e = [config |-> config, version |-> e.version] /\ e.version \in Nat \ {0}
    BY <2>2 DEF Issue
  <2>4. issued' = issued
    BY <2>1, <2>2, <2>3
  <2>5. ReadersApart' /\ reader' \in [Reader -> Reading]
    BY <1>9, <2>1, <2>3
  <2>6. VersionTypeOK'
    BY <1>1, <2>1, <2>4, <2>5 DEF VersionInv, VersionTypeOK
  <2>7. TableComplete'
    BY <1>6, <2>1, <2>4 DEF VersionInv, TableComplete, VersionTypeOK, Issue
  <2>8. MadeBefore' /\ VersionsIdentifyConfigurations'
    BY <1>1, <2>1, <2>4 DEF VersionInv, MadeBefore, Objects, VersionsIdentifyConfigurations
  <2> QED BY <1>7, <2>5, <2>6, <2>7, <2>8 DEF VersionInv
<1>11. CASE /\ Find(config) = {}
            /\ last < MaxVersions /\ last' = last + 1
            /\ table' = {e \in table : Alive(e.config)}
                          \cup {[config |-> config, version |-> last']}
            /\ reader' = [reader EXCEPT ![t] =
                 [at |-> "found", context |-> @.context, version |-> last']]
            /\ issued' = issued \cup {[config |-> config, version |-> last']}
  <2> DEFINE new == [config |-> config, version |-> last']
  <2>1. last \in Nat /\ last' \in Nat \ {0} /\ last' > last
    BY <1>11 DEF VersionInv, VersionTypeOK
  <2>2. new \in Issue
    BY <1>4, <2>1 DEF Issue
  <2>3. issued' = issued \cup {new}
    BY <1>11
  <2>4. ReadersApart' /\ reader' \in [Reader -> Reading]
    BY <1>9, <1>11, <2>1, <2>3
  <2>5. VersionTypeOK'
    BY <1>1, <2>1, <2>2, <2>3, <2>4 DEF VersionInv, VersionTypeOK
  <2>6. MadeBefore'
    <3>1. \A x \in issued : x.version <= last /\ x.version \in Nat
                              /\ Objects(x.config) \subseteq 1 .. made
      BY DEF VersionInv, MadeBefore, VersionTypeOK, Issue
    <3>2. \A x \in issued' : x.version <= last' /\ Objects(x.config) \subseteq 1 .. made
      BY <1>4, <2>1, <2>3, <3>1
    <3> QED BY <1>1, <3>2 DEF VersionInv, MadeBefore, Objects
  <2>7. \A x \in issued : x.config # config
    <3>1. \A x \in issued : x \in table \/ ~Alive(x.config)
      BY DEF VersionInv, TableComplete
    <3>2. \A x \in table : x \notin Find(config)
      BY <1>11
    <3> QED BY <1>4, <1>8, <3>1, <3>2
  <2>8. \A x \in issued : x.version # last'
    BY <2>1 DEF VersionInv, MadeBefore, VersionTypeOK, Issue
  <2>9. TableComplete'
    <3>1. table' \subseteq issued'
      BY <1>5, <1>11
    <3>2. \A x \in issued' : x \in table' \/ ~Alive(x.config)
      BY <1>11, <2>3 DEF VersionInv, TableComplete
    <3>3. \A x \in issued' : x.config \in Configuration
      BY <2>5 DEF VersionTypeOK, Issue
    <3> QED BY <1>6, <3>1, <3>2, <3>3 DEF TableComplete
  <2>10. VersionsIdentifyConfigurations'
    <3>1. \A x, y \in issued' : x.version = y.version <=> x.config = y.config
      BY <2>3, <2>7, <2>8 DEF VersionInv, VersionsIdentifyConfigurations
    <3>2. \A d \in Contexts : cached[d] # 0 =>
            context[d] # None /\ [config |-> context[d], version |-> cached[d]] \in issued'
      BY <2>3 DEF VersionInv, VersionsIdentifyConfigurations
    <3> QED BY <1>1, <3>1, <3>2 DEF VersionsIdentifyConfigurations
  <2> QED BY <1>7, <2>4, <2>5, <2>6, <2>9, <2>10 DEF VersionInv
<1> QED BY <1>10, <1>11 DEF Lookup, config

LEMMA StoreKeeps ==
  ASSUME VersionInv, NEW t \in Reader, Store(t)
  PROVE  VersionInv'
<1> DEFINE c == reader[t].context
<1>1. /\ reader[t].at = "found"
      /\ cached' = [cached EXCEPT ![c] = reader[t].version]
      /\ reader' = [reader EXCEPT ![t] = NotReading]
      /\ UNCHANGED <<made, home, held, context, table, last, issued>>
  BY DEF Store
<1>2. /\ reader[t] # NotReading /\ c \in Contexts
      /\ reader[t].version \in Nat \ {0}
  BY <1>1 DEF VersionInv, VersionTypeOK, Reading, NotReading
<1>3. /\ context[c] # None
      /\ [config |-> context[c], version |-> reader[t].version] \in issued
  BY <1>1, <1>2 DEF VersionInv, ReadersApart
<1> HIDE DEF c
<1>4. VersionTypeOK'
  BY <1>1, <1>2 DEF VersionInv, VersionTypeOK, Reading
<1>5. ReadersApart'
  BY <1>1 DEF VersionInv, VersionTypeOK, ReadersApart
<1>6. (MadeBefore /\ HomesApart /\ TableComplete)'
  BY <1>1 DEF VersionInv, MadeBefore, HomesApart, TableComplete, Living, Referenced,
              Objects, Alive
<1>7. VersionsIdentifyConfigurations'
  BY <1>1, <1>2, <1>3 DEF VersionInv, VersionTypeOK, VersionsIdentifyConfigurations
<1> QED BY <1>4, <1>5, <1>6, <1>7 DEF VersionInv

-----------------------------------------------------------------------------
LEMMA InitVersions == VersionInit => VersionInv
<1> SUFFICES ASSUME VersionInit PROVE VersionInv
  OBVIOUS
<1>1. /\ made = 1 /\ held = {Default} /\ context = [c \in Contexts |-> None]
      /\ cached = [c \in Contexts |-> 0] /\ table = {} /\ last = 0
      /\ reader = [t \in Reader |-> NotReading] /\ issued = {}
      /\ home \in [Object -> Address]
  BY DEF VersionInit
<1>2. VersionTypeOK
  BY <1>1, ContextVersionAssumption DEF VersionTypeOK, Object, Default, Reading
<1>3. Living = {Default}
  BY <1>1 DEF Living, Referenced
<1> QED BY <1>1, <1>2, <1>3 DEF VersionInv, MadeBefore, HomesApart, TableComplete,
          ReadersApart, VersionsIdentifyConfigurations

LEMMA NextVersions == VersionInv /\ [VersionNext]_versionVars => VersionInv'
<1> SUFFICES ASSUME VersionInv, [VersionNext]_versionVars PROVE VersionInv'
  OBVIOUS
<1>1. ASSUME NEW c \in Contexts, Change(c) PROVE VersionInv'
  BY <1>1, SetRegistryKeeps, SetCanonicalizerKeeps, SetValueKeeps, ConstructKeeps,
     DestroyKeeps, CopyKeeps DEF Change
<1>2. ASSUME NEW t \in Reader, Read(t) PROVE VersionInv'
  BY <1>2, LoadStaleKeeps, LookupKeeps, StoreKeeps DEF Read
<1>3. CASE UNCHANGED versionVars
  BY <1>3 DEF versionVars, VersionInv, VersionTypeOK, MadeBefore, HomesApart,
              TableComplete, ReadersApart, VersionsIdentifyConfigurations, Living,
              Referenced, Objects, Alive
<1> QED BY <1>1, <1>2, <1>3, MakeCanonicalizerKeeps, LetGoKeeps DEF VersionNext

(* Versions of canonicalization configurations identify them, for as long  *)
(* as any context has them, although the table that gives them out refers  *)
(* to the objects of a configuration weakly and compares their addresses.  *)
THEOREM VersionsCorrect == VersionSpec => []VersionsIdentifyConfigurations
<1>1. VersionInv => VersionsIdentifyConfigurations
  BY DEF VersionInv
<1> QED BY InitVersions, NextVersions, <1>1, PTL DEF VersionSpec
==============================================================================
