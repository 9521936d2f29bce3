---------------------- MODULE IndexBasisRegistryProofs ----------------------
(***************************************************************************)
(* That every call leaves a registry consistent, whatever spaces and bases  *)
(* a program registers and in whatever order.  A call is an operator from a *)
(* registry to a registry, so each has a lemma of its own, without          *)
(* variables; the theorems are about the calls that a program makes.        *)
(***************************************************************************)
EXTENDS IndexBasisRegistry, FiniteSums, FiniteSetTheorems, TLAPS

-----------------------------------------------------------------------------
(* Registries are records: what a change of some fields leaves.             *)

\* a registry by its fields
Made(bases, named, follows, mask, role, roleAt, memo, types) ==
  [bases |-> bases, named |-> named, follows |-> follows, mask |-> mask,
   role |-> role, roleAt |-> roleAt, memo |-> memo, types |-> types]
\* with what r has besides its table, its count and who follows whom
Remade(r, bases, named, follows) ==
  Made(bases, named, follows, r.mask, r.role, r.roleAt, r.memo, r.types)

IsTable(bases) ==
  /\ IsFunction(bases) /\ IsFiniteSet(DOMAIN bases)
  /\ \A l \in DOMAIN bases : IsEntry(bases[l])

LEMMA EntryFields ==
  ASSUME NEW s, NEW i, NEW n, NEW m, NEW f, NEW e, e = Entry(s, i, n, m, f)
  PROVE  /\ e.space = s /\ e.instance = i /\ e.extent = n /\ e.metric = m /\ e.field = f
         /\ IsSpaceValue(s) => IsEntry(e)
BY DEF Entry, IsEntry

LEMMA MadeFields ==
  ASSUME NEW b, NEW n, NEW f, NEW m, NEW ro, NEW ra, NEW me, NEW ty,
         NEW r, r = Made(b, n, f, m, ro, ra, me, ty)
  PROVE  /\ r.bases = b /\ r.named = n /\ r.follows = f /\ r.mask = m
         /\ r.role = ro /\ r.roleAt = ra /\ r.memo = me /\ r.types = ty
         /\ IsTable(b) /\ IsFunction(f) => IsRegistry(r)
BY DEF Made, IsRegistry, IsTable

LEMMA RemadeFields ==
  ASSUME NEW r, NEW b, NEW n, NEW f, NEW q, q = Remade(r, b, n, f)
  PROVE  /\ q.bases = b /\ q.named = n /\ q.follows = f /\ q.mask = r.mask
         /\ q.role = r.role /\ q.roleAt = r.roleAt /\ q.memo = r.memo /\ q.types = r.types
         /\ IsTable(b) /\ IsFunction(f) => IsRegistry(q)
BY MadeFields DEF Remade

LEMMA RegistryFields ==
  ASSUME NEW r, IsRegistry(r)
  PROVE  /\ r = Remade(r, r.bases, r.named, r.follows)
         /\ IsTable(r.bases) /\ IsFunction(r.follows)
         /\ Forget(r) = Made(r.bases, r.named, r.follows, r.mask, r.role, r.roleAt, {}, {})
         /\ \A m : [r EXCEPT !.mask = m]
                     = Made(r.bases, r.named, r.follows, m, r.role, r.roleAt, r.memo, r.types)
         /\ \A x : [r EXCEPT !.role = x]
                     = Made(r.bases, r.named, r.follows, r.mask, x, r.roleAt, r.memo, r.types)
         /\ \A x : [r EXCEPT !.roleAt = x]
                     = Made(r.bases, r.named, r.follows, r.mask, r.role, x, r.memo, r.types)
         /\ \A x : [r EXCEPT !.memo = x]
                     = Made(r.bases, r.named, r.follows, r.mask, r.role, r.roleAt, x, r.types)
         /\ \A x : [r EXCEPT !.types = x]
                     = Made(r.bases, r.named, r.follows, r.mask, r.role, r.roleAt, r.memo, x)
         /\ \A b : [r EXCEPT !.bases = b] = Remade(r, b, r.named, r.follows)
         /\ \A f : [r EXCEPT !.follows = f] = Remade(r, r.bases, r.named, f)
         /\ \A b, n : [r EXCEPT !.bases = b, !.named = n] = Remade(r, b, n, r.follows)
         /\ \A b, n, f :
              [r EXCEPT !.bases = b, !.named = n, !.follows = f] = Remade(r, b, n, f)
<1>1. r = [bases |-> r.bases, named |-> r.named, follows |-> r.follows, mask |-> r.mask,
           role |-> r.role, roleAt |-> r.roleAt, memo |-> r.memo, types |-> r.types]
  BY DEF IsRegistry
<1>2. IsTable(r.bases) /\ IsFunction(r.follows)
  BY DEF IsRegistry, IsTable
<1>3. Forget(r) = Made(r.bases, r.named, r.follows, r.mask, r.role, r.roleAt, {}, {})
  <2> DEFINE q == [r EXCEPT !.memo = {}]
  <2>1. q = Made(r.bases, r.named, r.follows, r.mask, r.role, r.roleAt, {}, r.types)
    BY <1>1 DEF Made
  <2>2. Forget(r) = [q EXCEPT !.types = {}]
    BY DEF Forget
  <2> HIDE DEF q
  <2> QED BY <2>1, <2>2 DEF Made
<1>4. \A b : [r EXCEPT !.bases = b] = Remade(r, b, r.named, r.follows)
  BY <1>1 DEF Remade, Made
<1>5. \A f : [r EXCEPT !.follows = f] = Remade(r, r.bases, r.named, f)
  BY <1>1 DEF Remade, Made
<1>6. \A b, n : [r EXCEPT !.bases = b, !.named = n] = Remade(r, b, n, r.follows)
  <2> SUFFICES ASSUME NEW b, NEW n
               PROVE  [r EXCEPT !.bases = b, !.named = n] = Remade(r, b, n, r.follows)
    OBVIOUS
  <2> DEFINE q == [r EXCEPT !.bases = b]
  <2>1. q = Remade(r, b, r.named, r.follows)
    BY <1>4
  <2>2. [r EXCEPT !.bases = b, !.named = n] = [q EXCEPT !.named = n]
    OBVIOUS
  <2> HIDE DEF q
  <2> QED BY <2>1, <2>2 DEF Remade, Made
<1>7. \A b, n, f : [r EXCEPT !.bases = b, !.named = n, !.follows = f] = Remade(r, b, n, f)
  <2> SUFFICES ASSUME NEW b, NEW n, NEW f
               PROVE  [r EXCEPT !.bases = b, !.named = n, !.follows = f] = Remade(r, b, n, f)
    OBVIOUS
  <2> DEFINE q == [r EXCEPT !.bases = b, !.named = n]
  <2>1. q = Remade(r, b, n, r.follows)
    BY <1>6
  <2>2. [r EXCEPT !.bases = b, !.named = n, !.follows = f] = [q EXCEPT !.follows = f]
    OBVIOUS
  <2> HIDE DEF q
  <2> QED BY <2>1, <2>2 DEF Remade, Made
<1>8. \A m : [r EXCEPT !.mask = m]
              = Made(r.bases, r.named, r.follows, m, r.role, r.roleAt, r.memo, r.types)
  BY <1>1 DEF Made
<1>9. \A x : [r EXCEPT !.role = x]
              = Made(r.bases, r.named, r.follows, r.mask, x, r.roleAt, r.memo, r.types)
  BY <1>1 DEF Made
<1>10. \A x : [r EXCEPT !.roleAt = x]
               = Made(r.bases, r.named, r.follows, r.mask, r.role, x, r.memo, r.types)
  BY <1>1 DEF Made
<1>11. \A x : [r EXCEPT !.memo = x]
               = Made(r.bases, r.named, r.follows, r.mask, r.role, r.roleAt, x, r.types)
  BY <1>1 DEF Made
<1>12. \A x : [r EXCEPT !.types = x]
               = Made(r.bases, r.named, r.follows, r.mask, r.role, r.roleAt, r.memo, x)
  BY <1>1 DEF Made
<1>13. r = Remade(r, r.bases, r.named, r.follows)
  BY <1>1 DEF Remade, Made
<1> QED BY <1>2, <1>3, <1>4, <1>5, <1>6, <1>7, <1>8, <1>9, <1>10, <1>11, <1>12, <1>13

\* a map with one more key
LEMMA WithKeyFacts ==
  ASSUME NEW f, NEW l, NEW e, NEW g, g = WithKey(f, l, e)
  PROVE  /\ IsFunction(g) /\ DOMAIN g = DOMAIN f \cup {l}
         /\ g[l] = e /\ \A x \in DOMAIN f \ {l} : g[x] = f[x]
BY DEF IsFunction, WithKey

\* a table with one more entry
LEMMA WithEntry ==
  ASSUME NEW b, IsTable(b), NEW l, NEW e, IsEntry(e), NEW g, g = WithKey(b, l, e)
  PROVE  IsTable(g)
<1>1. /\ IsFunction(g) /\ DOMAIN g = DOMAIN b \cup {l}
      /\ g[l] = e /\ \A x \in DOMAIN b \ {l} : g[x] = b[x]
  BY WithKeyFacts
<1>2. IsFiniteSet(DOMAIN g)
  BY <1>1, FS_AddElement DEF IsTable
<1> QED BY <1>1, <1>2 DEF IsTable

\* an entry with other metadata
LEMMA EntryUpdates ==
  ASSUME NEW e, IsEntry(e)
  PROVE  /\ \A n, m, f : [e EXCEPT !.extent = n, !.metric = m, !.field = f]
                            = Entry(e.space, e.instance, n, m, f)
         /\ \A n : [e EXCEPT !.extent = n] = Entry(e.space, e.instance, n, e.metric, e.field)
         /\ \A m : [e EXCEPT !.metric = m] = Entry(e.space, e.instance, e.extent, m, e.field)
         /\ \A f : [e EXCEPT !.field = f] = Entry(e.space, e.instance, e.extent, e.metric, f)
<1>1. e = [space |-> e.space, instance |-> e.instance, extent |-> e.extent,
           metric |-> e.metric, field |-> e.field]
  BY DEF IsEntry, Entry
<1>2. \A n : [e EXCEPT !.extent = n] = Entry(e.space, e.instance, n, e.metric, e.field)
  BY <1>1 DEF Entry
<1>3. \A m : [e EXCEPT !.metric = m] = Entry(e.space, e.instance, e.extent, m, e.field)
  BY <1>1 DEF Entry
<1>4. \A f : [e EXCEPT !.field = f] = Entry(e.space, e.instance, e.extent, e.metric, f)
  BY <1>1 DEF Entry
<1>5. ASSUME NEW n, NEW m, NEW f
      PROVE  [e EXCEPT !.extent = n, !.metric = m, !.field = f]
               = Entry(e.space, e.instance, n, m, f)
  <2> DEFINE g == [e EXCEPT !.extent = n]
             h == [g EXCEPT !.metric = m]
  <2>1. g = Entry(e.space, e.instance, n, e.metric, e.field)
    BY <1>2
  <2>2. [e EXCEPT !.extent = n, !.metric = m, !.field = f] = [h EXCEPT !.field = f]
    OBVIOUS
  <2>3. h = Entry(e.space, e.instance, n, m, e.field)
    <3> HIDE DEF g
    <3> QED BY <2>1 DEF Entry
  <2> HIDE DEF h
  <2> QED BY <2>2, <2>3 DEF Entry
<1> QED BY <1>2, <1>3, <1>4, <1>5

\* and with other metadata of its space
LEMMA SpaceUpdates ==
  ASSUME NEW e, IsEntry(e)
  PROVE  /\ \A n : [e EXCEPT !.space.dimension = n]
                     = Entry(Space(e.space.label, e.space.type, e.space.qns, n, e.space.field),
                             e.instance, e.extent, e.metric, e.field)
         /\ \A f : [e EXCEPT !.space.field = f]
                     = Entry(Space(e.space.label, e.space.type, e.space.qns,
                                   e.space.dimension, f),
                             e.instance, e.extent, e.metric, e.field)
<1> DEFINE s == e.space
<1>1. e = [space |-> s, instance |-> e.instance, extent |-> e.extent,
           metric |-> e.metric, field |-> e.field]
  BY DEF IsEntry, Entry
<1>2. s = [label |-> s.label, type |-> s.type, qns |-> s.qns,
           dimension |-> s.dimension, field |-> s.field]
  BY DEF IsEntry, IsSpaceValue, Space
<1>3. \A n : [s EXCEPT !.dimension = n] = Space(s.label, s.type, s.qns, n, s.field)
  <2> HIDE DEF s
  <2> QED BY <1>2 DEF Space
<1>4. \A f : [s EXCEPT !.field = f] = Space(s.label, s.type, s.qns, s.dimension, f)
  <2> HIDE DEF s
  <2> QED BY <1>2 DEF Space
<1>5. \A t : [e EXCEPT !.space = t] = Entry(t, e.instance, e.extent, e.metric, e.field)
  BY <1>1 DEF Entry
<1>6. \A n : [e EXCEPT !.space.dimension = n] = [e EXCEPT !.space = [s EXCEPT !.dimension = n]]
  OBVIOUS
<1>7. \A f : [e EXCEPT !.space.field = f] = [e EXCEPT !.space = [s EXCEPT !.field = f]]
  OBVIOUS
<1> QED BY <1>3, <1>4, <1>5, <1>6, <1>7

-----------------------------------------------------------------------------
(* Calls that change metadata.                                              *)

\* what a call that returns leaves, what it has memoized aside
Sound(r) ==
  /\ IsRegistry(r) /\ SpacesDiffer(r) /\ NamedAgree(r) /\ NamedCounted(r)
  /\ FollowsNamed(r) /\ FollowersEqual(r)

\* Tables of the same labels, spaces and instances agree in all but metadata.
LEMMA SameKinds ==
  ASSUME NEW r, NEW q, DOMAIN q.bases = DOMAIN r.bases, q.named = r.named,
         \A l \in DOMAIN r.bases : /\ q.bases[l].space = r.bases[l].space
                                   /\ q.bases[l].instance = r.bases[l].instance
  PROVE  /\ \A l : IsNamed(q, l) <=> IsNamed(r, l)
         /\ \A l : IsSpace(q, l) <=> IsSpace(r, l)
         /\ Spaces(q) = Spaces(r)
         /\ \A s, i : NamesOf(q, s, i) = NamesOf(r, s, i)
         /\ SpacesDiffer(r) => SpacesDiffer(q)
         /\ NamedAgree(r) => NamedAgree(q)
         /\ NamedCounted(r) => NamedCounted(q)
<1>1. \A l : (IsNamed(q, l) <=> IsNamed(r, l)) /\ (IsSpace(q, l) <=> IsSpace(r, l))
  BY DEF IsNamed, IsSpace
<1>2. Spaces(q) = Spaces(r)
  BY <1>1 DEF Spaces
<1>3. \A s, i : NamesOf(q, s, i) = NamesOf(r, s, i)
  BY <1>1 DEF NamesOf
<1>4. SpacesDiffer(r) => SpacesDiffer(q)
  BY <1>1 DEF SpacesDiffer
<1>5. NamedAgree(r) => NamedAgree(q)
  BY <1>1, <1>2, <1>3 DEF NamedAgree
<1>6. {l \in DOMAIN q.bases : IsNamed(q, l)} = {l \in DOMAIN r.bases : IsNamed(r, l)}
  BY <1>1
<1>7. NamedCounted(r) => NamedCounted(q)
  BY <1>6 DEF NamedCounted
<1> QED BY <1>1, <1>2, <1>3, <1>4, <1>5, <1>7

\* what an optional value that is there is
LEMMA ValueOfOne == \A v, x : ValueOr({v}, x) = v
BY DEF ValueOr

\* Once followers are refreshed they have the values of what they follow.
LEMMA RefreshedSound ==
  ASSUME NEW r, IsRegistry(r), SpacesDiffer(r), NamedAgree(r), NamedCounted(r), FollowsNamed(r)
  PROVE  Sound(Refreshed(r))
<1> DEFINE Mirror(l) == LET source == r.bases[r.follows[l]]
                        IN [r.bases[l] EXCEPT !.extent = {ExtentOf(source)},
                                              !.metric = source.metric,
                                              !.field = {FieldOf(source)}]
           B == [l \in DOMAIN r.bases |-> IF l \notin DOMAIN r.follows THEN r.bases[l]
                                          ELSE Mirror(l)]
           q == Refreshed(r)
<1>1. q = [r EXCEPT !.bases = B]
  BY DEF Refreshed
<1>2. q = Remade(r, B, r.named, r.follows)
  BY <1>1, RegistryFields
<1>3. \A l \in DOMAIN r.bases : IsEntry(r.bases[l])
  BY DEF IsRegistry
<1>4. ASSUME NEW l \in DOMAIN r.follows
      PROVE  LET source == r.bases[r.follows[l]]
             IN /\ l \in DOMAIN r.bases /\ r.follows[l] \in DOMAIN r.bases
                /\ r.follows[l] \notin DOMAIN r.follows
                /\ B[l] = Entry(r.bases[l].space, r.bases[l].instance, {ExtentOf(source)},
                                source.metric, {FieldOf(source)})
  <2>1. l \in DOMAIN r.bases /\ r.follows[l] \in DOMAIN r.bases
        /\ r.follows[l] \notin DOMAIN r.follows
    BY DEF FollowsNamed, IsNamed
  <2>2. B[l] = Mirror(l)
    BY <2>1
  <2>3. Mirror(l) = Entry(r.bases[l].space, r.bases[l].instance,
                          {ExtentOf(r.bases[r.follows[l]])},
                          r.bases[r.follows[l]].metric, {FieldOf(r.bases[r.follows[l]])})
    <3> DEFINE e == r.bases[l]
               source == r.bases[r.follows[l]]
               n == {ExtentOf(source)}
               m == source.metric
               f == {FieldOf(source)}
    <3>1. IsEntry(e)
      BY <2>1, <1>3
    <3>2. Mirror(l) = [e EXCEPT !.extent = n, !.metric = m, !.field = f]
      OBVIOUS
    <3>3. [e EXCEPT !.extent = n, !.metric = m, !.field = f] = Entry(e.space, e.instance, n, m, f)
      <4> HIDE DEF e, n, m, f
      <4>1. \A x, y, z : [e EXCEPT !.extent = x, !.metric = y, !.field = z]
                           = Entry(e.space, e.instance, x, y, z)
        BY <3>1, EntryUpdates
      <4> QED BY <4>1
    <3> QED BY <3>2, <3>3
  <2> QED BY <2>1, <2>2, <2>3
<1>5. DOMAIN B = DOMAIN r.bases
  OBVIOUS
<1>6. ASSUME NEW l \in DOMAIN r.bases
      PROVE  IsEntry(B[l]) /\ B[l].space = r.bases[l].space /\ B[l].instance = r.bases[l].instance
  <2>1. CASE l \notin DOMAIN r.follows
    BY <2>1, <1>3
  <2>2. CASE l \in DOMAIN r.follows
    <3>1. IsSpaceValue(r.bases[l].space)
      BY <1>3 DEF IsEntry
    <3> DEFINE source == r.bases[r.follows[l]]
               n == {ExtentOf(source)}
               f == {FieldOf(source)}
               e == B[l]
    <3>2. e = Entry(r.bases[l].space, r.bases[l].instance, n, source.metric, f)
      BY <2>2, <1>4
    <3> HIDE DEF e, n, f
    <3>3. e.space = r.bases[l].space /\ e.instance = r.bases[l].instance /\ IsEntry(e)
      BY <3>1, <3>2, EntryFields
    <3> QED BY <3>3 DEF e
  <2> QED BY <2>1, <2>2
<1>7. IsTable(B)
  BY <1>5, <1>6 DEF IsTable, IsFunction, IsRegistry
<1> HIDE DEF B, q, Mirror
<1>8. q.bases = B /\ q.named = r.named /\ q.follows = r.follows /\ IsRegistry(q)
  BY <1>2, <1>7, RemadeFields DEF IsRegistry
<1>9. /\ \A l : IsNamed(q, l) <=> IsNamed(r, l)
      /\ SpacesDiffer(q) /\ NamedAgree(q) /\ NamedCounted(q)
  BY <1>5, <1>6, <1>8, SameKinds
<1>10. FollowsNamed(q)
  BY <1>8, <1>9 DEF FollowsNamed
<1>11. ASSUME NEW l \in DOMAIN r.follows
       PROVE  /\ ExtentOf(B[l]) = ExtentOf(B[r.follows[l]])
              /\ B[l].metric = B[r.follows[l]].metric
              /\ FieldOf(B[l]) = FieldOf(B[r.follows[l]])
  <2>1. B[r.follows[l]] = r.bases[r.follows[l]]
    BY <1>4 DEF B
  <2>2. /\ B[l].extent = {ExtentOf(B[r.follows[l]])}
        /\ B[l].metric = B[r.follows[l]].metric
        /\ B[l].field = {FieldOf(B[r.follows[l]])}
    <3> DEFINE source == r.bases[r.follows[l]]
               n == {ExtentOf(source)}
               f == {FieldOf(source)}
               e == B[l]
    <3>1. e = Entry(r.bases[l].space, r.bases[l].instance, n, source.metric, f)
      BY <1>4
    <3> HIDE DEF e, n, f
    <3>2. e.extent = n /\ e.metric = source.metric /\ e.field = f
      BY <3>1, EntryFields
    <3> QED BY <2>1, <3>2 DEF e, n, f
  <2> QED BY <2>2, ValueOfOne DEF ExtentOf, FieldOf
<1>12. FollowersEqual(q)
  BY <1>8, <1>11 DEF FollowersEqual
<1> QED BY <1>8, <1>9, <1>10, <1>12 DEF Sound, q

\* registries alike in all but what they have memoized
LEMMA SameSound ==
  ASSUME NEW r, Sound(r), NEW q, IsRegistry(q), q.bases = r.bases, q.named = r.named,
         q.follows = r.follows
  PROVE  Sound(q)
<1>1. /\ \A l : IsNamed(q, l) <=> IsNamed(r, l)
      /\ SpacesDiffer(q) /\ NamedAgree(q) /\ NamedCounted(q)
  BY SameKinds DEF Sound
<1>2. FollowsNamed(q)
  BY <1>1 DEF Sound, FollowsNamed
<1>3. FollowersEqual(q)
  BY DEF Sound, FollowersEqual
<1> QED BY <1>1, <1>2, <1>3 DEF Sound

\* what a call on r promises, however it ends
Good(r, result) ==
  /\ result.ok \in BOOLEAN
  /\ Sound(result.reg) /\ MemoCurrent(result.reg)
  /\ ~result.ok => Forget(result.reg) = Forget(r)

LEMMA ForgetSound ==
  ASSUME NEW r, Sound(r)
  PROVE  /\ Forget(r).bases = r.bases /\ Forget(r).named = r.named
         /\ Forget(r).follows = r.follows
         /\ Forget(r).mask = r.mask /\ Forget(r).role = r.role
         /\ Forget(r).roleAt = r.roleAt
         /\ Forget(r).memo = {} /\ Forget(r).types = {}
         /\ Sound(Forget(r)) /\ MemoCurrent(Forget(r))
<1> DEFINE q == Forget(r)
<1>1. q = Made(r.bases, r.named, r.follows, r.mask, r.role, r.roleAt, {}, {})
  BY RegistryFields DEF Sound
<1>2. IsTable(r.bases) /\ IsFunction(r.follows)
  BY RegistryFields DEF Sound
<1> HIDE DEF q
<1>3. /\ q.bases = r.bases /\ q.named = r.named /\ q.follows = r.follows
      /\ q.mask = r.mask /\ q.role = r.role /\ q.roleAt = r.roleAt
      /\ q.memo = {} /\ q.types = {} /\ IsRegistry(q)
  BY <1>1, <1>2, MadeFields
<1>4. Sound(q)
  BY <1>3, SameSound
<1>5. MemoCurrent(q)
  BY <1>3 DEF MemoCurrent
<1> QED BY <1>3, <1>4, <1>5 DEF q

LEMMA ForgetTwice ==
  ASSUME NEW r, Sound(r)
  PROVE  Forget(Forget(r)) = Forget(r)
<1> DEFINE q == Forget(r)
<1>1. /\ q.bases = r.bases /\ q.named = r.named /\ q.follows = r.follows
      /\ q.mask = r.mask /\ q.role = r.role /\ q.roleAt = r.roleAt /\ IsRegistry(q)
  BY ForgetSound DEF Sound
<1>2. q = Made(r.bases, r.named, r.follows, r.mask, r.role, r.roleAt, {}, {})
  BY RegistryFields DEF Sound
<1> HIDE DEF q
<1>3. Forget(q) = Made(q.bases, q.named, q.follows, q.mask, q.role, q.roleAt, {}, {})
  BY <1>1, RegistryFields
<1> QED BY <1>1, <1>2, <1>3 DEF q

LEMMA ReturnedGood ==
  ASSUME NEW r, NEW q, Sound(q)
  PROVE  Good(r, Returned(q))
BY ForgetSound DEF Good, Returned

LEMMA ThrewGood ==
  ASSUME NEW r, Sound(r), MemoCurrent(r)
  PROVE  Good(r, Threw(r))
BY DEF Good, Threw

\* extent(), field() and metric() of a named basis write its entry, and its
\* followers then mirror that
LEMMA NamedWritten ==
  ASSUME NEW r, Sound(r), NEW l, IsNamed(r, l), NEW e, IsEntry(e),
         e.space = r.bases[l].space, e.instance = r.bases[l].instance
  PROVE  Sound(Refreshed([r EXCEPT !.bases[l] = e]))
<1> DEFINE B == [r.bases EXCEPT ![l] = e]
           q == [r EXCEPT !.bases[l] = e]
<1>1. q = [r EXCEPT !.bases = B]
  OBVIOUS
<1>2. q = Remade(r, B, r.named, r.follows) /\ IsTable(r.bases) /\ IsFunction(r.follows)
  BY <1>1, RegistryFields DEF Sound
<1>3. l \in DOMAIN r.bases
  BY DEF IsNamed
<1>4. /\ DOMAIN B = DOMAIN r.bases /\ IsFunction(B)
      /\ \A x \in DOMAIN r.bases : B[x] = IF x = l THEN e ELSE r.bases[x]
  BY <1>3 DEF IsFunction
<1> HIDE DEF B, q
<1>5. IsTable(B)
  BY <1>2, <1>4 DEF IsTable
<1>6. IsRegistry(q) /\ q.bases = B /\ q.named = r.named /\ q.follows = r.follows
  BY <1>2, <1>5, RemadeFields
<1>7. \A x \in DOMAIN r.bases : /\ q.bases[x].space = r.bases[x].space
                                /\ q.bases[x].instance = r.bases[x].instance
  BY <1>4, <1>6
<1>8. /\ \A x : IsNamed(q, x) <=> IsNamed(r, x)
      /\ SpacesDiffer(q) /\ NamedAgree(q) /\ NamedCounted(q)
  BY <1>4, <1>6, <1>7, SameKinds DEF Sound
<1>9. FollowsNamed(q)
  BY <1>6, <1>8 DEF Sound, FollowsNamed
<1> QED BY <1>6, <1>8, <1>9, RefreshedSound DEF q

LEMMA SetMetricGood ==
  ASSUME NEW r, Sound(r), MemoCurrent(r), NEW l, NEW m
  PROVE  Good(r, SetMetric(r, l, m))
<1>1. CASE ~IsNamed(r, l) \/ l \in DOMAIN r.follows
  BY <1>1, ThrewGood DEF SetMetric
<1>2. CASE ~(~IsNamed(r, l) \/ l \in DOMAIN r.follows)
  <2> DEFINE e == [r.bases[l] EXCEPT !.metric = m]
  <2>1. IsEntry(r.bases[l]) /\ IsSpaceValue(r.bases[l].space)
    BY <1>2 DEF IsNamed, Sound, IsRegistry, IsEntry
  <2>2. e = Entry(r.bases[l].space, r.bases[l].instance, r.bases[l].extent, m,
                  r.bases[l].field)
    BY <2>1, EntryUpdates
  <2>3. SetMetric(r, l, m) = Returned(Refreshed([r EXCEPT !.bases[l] = e]))
    BY <1>2 DEF SetMetric
  <2> HIDE DEF e
  <2>4. IsEntry(e) /\ e.space = r.bases[l].space /\ e.instance = r.bases[l].instance
    BY <2>1, <2>2, EntryFields
  <2> QED BY <1>2, <2>3, <2>4, NamedWritten, ReturnedGood
<1> QED BY <1>1, <1>2

\* a space and the copies of it that its named bases hold are equal
LEMMA CopiesEqual ==
  ASSUME NEW r, Sound(r), NEW l, IsSpace(r, l)
  PROVE  /\ CopiesOf(r, l) \subseteq DOMAIN r.bases
         /\ \A x \in CopiesOf(r, l) : r.bases[x].space = r.bases[l].space
         /\ \A x \in DOMAIN r.bases \ CopiesOf(r, l) :
              IsNamed(r, x) => ~SameSpace(r.bases[x].space, r.bases[l].space)
<1>1. l \in DOMAIN r.bases
  BY DEF IsSpace
<1>2. CopiesOf(r, l) \subseteq DOMAIN r.bases
  BY <1>1 DEF CopiesOf
<1>3. ASSUME NEW x \in DOMAIN r.bases, IsNamed(r, x),
             SameSpace(r.bases[x].space, r.bases[l].space)
      PROVE  r.bases[x].space = r.bases[l].space
  <2>1. r.bases[x].space \in Spaces(r)
    BY <1>3 DEF Sound, NamedAgree
  <2>2. PICK k \in DOMAIN r.bases : IsSpace(r, k) /\ r.bases[x].space = r.bases[k].space
    BY <2>1 DEF Spaces
  <2>3. k = l
    BY <1>1, <1>3, <2>2 DEF Sound, SpacesDiffer, SameSpace
  <2> QED BY <2>2, <2>3
<1> QED BY <1>1, <1>2, <1>3 DEF CopiesOf

\* extent() and field() of a space write it and those copies
LEMMA CopiesWritten ==
  ASSUME NEW r, Sound(r), NEW l, IsSpace(r, l),
         NEW t, IsSpaceValue(t), SameSpace(t, r.bases[l].space),
         NEW B, DOMAIN B = DOMAIN r.bases, IsFunction(B),
         \A x \in CopiesOf(r, l) :
           B[x] = Entry(t, r.bases[x].instance, r.bases[x].extent, r.bases[x].metric,
                        r.bases[x].field),
         \A x \in DOMAIN r.bases \ CopiesOf(r, l) : B[x] = r.bases[x]
  PROVE  Sound(Refreshed([r EXCEPT !.bases = B]))
<1> DEFINE q == [r EXCEPT !.bases = B]
<1>1. q = Remade(r, B, r.named, r.follows) /\ IsTable(r.bases) /\ IsFunction(r.follows)
  BY RegistryFields DEF Sound
<1>2. /\ CopiesOf(r, l) \subseteq DOMAIN r.bases
      /\ \A x \in CopiesOf(r, l) : r.bases[x].space = r.bases[l].space
      /\ \A x \in DOMAIN r.bases \ CopiesOf(r, l) :
           IsNamed(r, x) => ~SameSpace(r.bases[x].space, r.bases[l].space)
  BY CopiesEqual
<1>3. \A x \in CopiesOf(r, l) : /\ B[x].space = t /\ B[x].instance = r.bases[x].instance
                                /\ IsEntry(B[x])
  <2> SUFFICES ASSUME NEW x \in CopiesOf(r, l)
               PROVE  B[x].space = t /\ B[x].instance = r.bases[x].instance /\ IsEntry(B[x])
    OBVIOUS
  <2> DEFINE e == r.bases[x]
  <2>1. B[x] = Entry(t, e.instance, e.extent, e.metric, e.field)
    OBVIOUS
  <2> HIDE DEF e
  <2>2. B[x].space = t /\ B[x].instance = e.instance /\ IsEntry(B[x])
    BY <2>1, EntryFields
  <2> QED BY <2>2 DEF e
<1>4. IsTable(B)
  BY <1>1, <1>3 DEF IsTable
<1> HIDE DEF q
<1>5. IsRegistry(q) /\ q.bases = B /\ q.named = r.named /\ q.follows = r.follows
  BY <1>1, <1>4, RemadeFields
<1>6. l \in DOMAIN r.bases /\ l \in CopiesOf(r, l) /\ B[l].space = t
  BY <1>2, <1>3 DEF CopiesOf
<1>7. \A x \in DOMAIN r.bases : /\ SameSpace(B[x].space, r.bases[x].space)
                                /\ B[x].instance = r.bases[x].instance
  BY <1>2, <1>3 DEF SameSpace, Attr
<1>8. \A x : (IsNamed(q, x) <=> IsNamed(r, x)) /\ (IsSpace(q, x) <=> IsSpace(r, x))
  BY <1>5, <1>7 DEF IsNamed, IsSpace
<1>9. SpacesDiffer(q)
  BY <1>5, <1>7, <1>8 DEF Sound, SpacesDiffer, SameSpace
<1>10. \A s, u, i : SameSpace(s, u) => NamesOf(q, s, i) = NamesOf(r, u, i)
  BY <1>5, <1>7, <1>8 DEF NamesOf, SameSpace
<1>11. ASSUME NEW x \in DOMAIN r.bases, IsNamed(r, x)
       PROVE  /\ B[x].space \in Spaces(q)
              /\ NamesOf(q, B[x].space, B[x].instance) = {x}
  <2>1. NamesOf(q, B[x].space, B[x].instance) = NamesOf(r, r.bases[x].space, r.bases[x].instance)
    BY <1>7, <1>10, <1>11
  <2>2. NamesOf(r, r.bases[x].space, r.bases[x].instance) = {x}
    BY <1>11 DEF Sound, NamedAgree
  <2>3. CASE x \in CopiesOf(r, l)
    <3>1. B[x].space = B[l].space
      BY <2>3, <1>3, <1>6
    <3> QED BY <2>1, <2>2, <3>1, <1>5, <1>6, <1>8 DEF Spaces
  <2>4. CASE x \notin CopiesOf(r, l)
    <3>1. r.bases[x].space \in Spaces(r)
      BY <1>11 DEF Sound, NamedAgree
    <3>2. PICK k \in DOMAIN r.bases : IsSpace(r, k) /\ r.bases[x].space = r.bases[k].space
      BY <3>1 DEF Spaces
    <3>3. k # l
      BY <2>4, <3>2, <1>2, <1>11 DEF SameSpace
    <3>4. k \notin CopiesOf(r, l)
      BY <3>2, <3>3 DEF CopiesOf, IsSpace, IsNamed
    <3>5. B[x].space = B[k].space
      BY <2>4, <3>2, <3>4
    <3> QED BY <2>1, <2>2, <3>2, <3>5, <1>5, <1>8 DEF Spaces
  <2> QED BY <2>3, <2>4
<1>12. NamedAgree(q)
  BY <1>5, <1>8, <1>11 DEF NamedAgree
<1>13. NamedCounted(q)
  <2>1. {x \in DOMAIN q.bases : IsNamed(q, x)} = {x \in DOMAIN r.bases : IsNamed(r, x)}
    BY <1>5, <1>8
  <2> QED BY <2>1, <1>5 DEF Sound, NamedCounted
<1>14. FollowsNamed(q)
  BY <1>5, <1>8 DEF Sound, FollowsNamed
<1> QED BY <1>5, <1>9, <1>12, <1>13, <1>14, RefreshedSound DEF q

LEMMA SetExtentGood ==
  ASSUME NEW r, Sound(r), MemoCurrent(r), NEW l, NEW n
  PROVE  Good(r, SetExtent(r, l, n))
<1>1. CASE l \notin DOMAIN r.bases \/ l \in DOMAIN r.follows
  BY <1>1, ThrewGood DEF SetExtent
<1>2. ASSUME l \in DOMAIN r.bases, l \notin DOMAIN r.follows
      PROVE  /\ IsEntry(r.bases[l]) /\ IsSpaceValue(r.bases[l].space)
             /\ IsTable(r.bases)
  BY <1>2, RegistryFields DEF Sound, IsRegistry, IsEntry
<1>3. CASE l \in DOMAIN r.bases /\ l \notin DOMAIN r.follows /\ IsNamed(r, l)
  <2> DEFINE e == [r.bases[l] EXCEPT !.extent = {n}]
  <2>1. e = Entry(r.bases[l].space, r.bases[l].instance, {n}, r.bases[l].metric,
                  r.bases[l].field)
    BY <1>2, <1>3, EntryUpdates
  <2>2. SetExtent(r, l, n) = Returned(Refreshed([r EXCEPT !.bases[l] = e]))
    BY <1>3 DEF SetExtent
  <2> HIDE DEF e
  <2>3. IsEntry(e) /\ e.space = r.bases[l].space /\ e.instance = r.bases[l].instance
    BY <1>2, <1>3, <2>1, EntryFields
  <2> QED BY <1>3, <2>2, <2>3, NamedWritten, ReturnedGood
<1>4. CASE l \in DOMAIN r.bases /\ l \notin DOMAIN r.follows /\ ~IsNamed(r, l)
  <2> DEFINE B == [x \in DOMAIN r.bases |->
                     IF x \in CopiesOf(r, l) THEN [r.bases[x] EXCEPT !.space.dimension = n]
                     ELSE r.bases[x]]
             s == r.bases[l].space
             t == Space(s.label, s.type, s.qns, n, s.field)
  <2>1. IsSpace(r, l)
    BY <1>4 DEF IsSpace, IsNamed
  <2>2. SetExtent(r, l, n) = Returned(Refreshed([r EXCEPT !.bases = B]))
    BY <1>4 DEF SetExtent
  <2>3. CopiesOf(r, l) \subseteq DOMAIN r.bases
        /\ \A x \in CopiesOf(r, l) : r.bases[x].space = s
    BY <2>1, CopiesEqual
  <2>4. IsFunction(B) /\ DOMAIN B = DOMAIN r.bases
    BY DEF IsFunction
  <2>5. \A x \in DOMAIN r.bases \ CopiesOf(r, l) : B[x] = r.bases[x]
    OBVIOUS
  <2>6. ASSUME NEW x \in CopiesOf(r, l)
        PROVE  B[x] = Entry(t, r.bases[x].instance, r.bases[x].extent, r.bases[x].metric,
                            r.bases[x].field)
    <3>1. B[x] = [r.bases[x] EXCEPT !.space.dimension = n]
      BY <2>3
    <3>2. IsEntry(r.bases[x]) /\ r.bases[x].space = s
      BY <2>3, <1>2, <1>4 DEF IsTable
    <3>3. [r.bases[x] EXCEPT !.space.dimension = n]
            = Entry(Space(r.bases[x].space.label, r.bases[x].space.type,
                          r.bases[x].space.qns, n, r.bases[x].space.field),
                    r.bases[x].instance, r.bases[x].extent, r.bases[x].metric,
                    r.bases[x].field)
      BY <3>2, SpaceUpdates
    <3> QED BY <3>1, <3>2, <3>3
  <2>7. IsSpaceValue(t) /\ SameSpace(t, s)
    BY <1>2, <1>4 DEF IsSpaceValue, SameSpace, Attr, Space
  <2> HIDE DEF B, t
  <2>8. Sound(Refreshed([r EXCEPT !.bases = B]))
    BY <2>1, <2>4, <2>5, <2>6, <2>7, CopiesWritten
  <2> QED BY <2>2, <2>8, ReturnedGood
<1> QED BY <1>1, <1>3, <1>4

LEMMA SetFieldGood ==
  ASSUME NEW r, Sound(r), MemoCurrent(r), NEW l, NEW f
  PROVE  Good(r, SetField(r, l, f))
<1>1. CASE l \notin DOMAIN r.bases \/ l \in DOMAIN r.follows
  BY <1>1, ThrewGood DEF SetField
<1>2. ASSUME l \in DOMAIN r.bases, l \notin DOMAIN r.follows
      PROVE  /\ IsEntry(r.bases[l]) /\ IsSpaceValue(r.bases[l].space)
             /\ IsTable(r.bases)
  BY <1>2, RegistryFields DEF Sound, IsRegistry, IsEntry
<1>3. CASE l \in DOMAIN r.bases /\ l \notin DOMAIN r.follows /\ IsNamed(r, l)
  <2> DEFINE e == [r.bases[l] EXCEPT !.field = {f}]
  <2>1. e = Entry(r.bases[l].space, r.bases[l].instance, r.bases[l].extent,
                  r.bases[l].metric, {f})
    BY <1>2, <1>3, EntryUpdates
  <2>2. SetField(r, l, f) = Returned(Refreshed([r EXCEPT !.bases[l] = e]))
    BY <1>3 DEF SetField
  <2> HIDE DEF e
  <2>3. IsEntry(e) /\ e.space = r.bases[l].space /\ e.instance = r.bases[l].instance
    BY <1>2, <1>3, <2>1, EntryFields
  <2> QED BY <1>3, <2>2, <2>3, NamedWritten, ReturnedGood
<1>4. CASE l \in DOMAIN r.bases /\ l \notin DOMAIN r.follows /\ ~IsNamed(r, l)
  <2> DEFINE B == [x \in DOMAIN r.bases |->
                     IF x \in CopiesOf(r, l) THEN [r.bases[x] EXCEPT !.space.field = f]
                     ELSE r.bases[x]]
             s == r.bases[l].space
             t == Space(s.label, s.type, s.qns, s.dimension, f)
  <2>1. IsSpace(r, l)
    BY <1>4 DEF IsSpace, IsNamed
  <2>2. SetField(r, l, f) = Returned(Refreshed([r EXCEPT !.bases = B]))
    BY <1>4 DEF SetField
  <2>3. CopiesOf(r, l) \subseteq DOMAIN r.bases
        /\ \A x \in CopiesOf(r, l) : r.bases[x].space = s
    BY <2>1, CopiesEqual
  <2>4. IsFunction(B) /\ DOMAIN B = DOMAIN r.bases
    BY DEF IsFunction
  <2>5. \A x \in DOMAIN r.bases \ CopiesOf(r, l) : B[x] = r.bases[x]
    OBVIOUS
  <2>6. ASSUME NEW x \in CopiesOf(r, l)
        PROVE  B[x] = Entry(t, r.bases[x].instance, r.bases[x].extent, r.bases[x].metric,
                            r.bases[x].field)
    <3>1. B[x] = [r.bases[x] EXCEPT !.space.field = f]
      BY <2>3
    <3>2. IsEntry(r.bases[x]) /\ r.bases[x].space = s
      BY <2>3, <1>2, <1>4 DEF IsTable
    <3>3. [r.bases[x] EXCEPT !.space.field = f]
            = Entry(Space(r.bases[x].space.label, r.bases[x].space.type,
                          r.bases[x].space.qns, r.bases[x].space.dimension, f),
                    r.bases[x].instance, r.bases[x].extent, r.bases[x].metric,
                    r.bases[x].field)
      BY <3>2, SpaceUpdates
    <3> QED BY <3>1, <3>2, <3>3
  <2>7. IsSpaceValue(t) /\ SameSpace(t, s)
    BY <1>2, <1>4 DEF IsSpaceValue, SameSpace, Attr, Space
  <2> HIDE DEF B, t
  <2>8. Sound(Refreshed([r EXCEPT !.bases = B]))
    BY <2>1, <2>4, <2>5, <2>6, <2>7, CopiesWritten
  <2> QED BY <2>2, <2>8, ReturnedGood
<1> QED BY <1>1, <1>3, <1>4

LEMMA FollowGood ==
  ASSUME NEW r, Sound(r), MemoCurrent(r), NEW l, NEW source
  PROVE  Good(r, Follow(r, l, source))
<1> DEFINE Refused == \/ ~IsNamed(r, l) \/ ~IsNamed(r, source)
                      \/ l = source
                      \/ source \in DOMAIN r.follows
                      \/ l \in Range(r.follows)
           F == WithKey(r.follows, l, source)
           q == [r EXCEPT !.follows = F]
<1>1. CASE Refused
  BY <1>1, ThrewGood DEF Follow
<1>2. CASE ~Refused
  <2>1. Follow(r, l, source) = Returned(Refreshed(q))
    BY <1>2 DEF Follow
  <2>2. q = Remade(r, r.bases, r.named, F) /\ IsTable(r.bases)
    BY RegistryFields DEF Sound
  <2>3. /\ IsFunction(F) /\ DOMAIN F = DOMAIN r.follows \cup {l}
        /\ F[l] = source /\ \A x \in DOMAIN r.follows \ {l} : F[x] = r.follows[x]
    BY DEF IsFunction, WithKey
  <2> HIDE DEF F, q
  <2>4. IsRegistry(q) /\ q.bases = r.bases /\ q.named = r.named /\ q.follows = F
    BY <2>2, <2>3, RemadeFields
  <2>5. /\ \A x : IsNamed(q, x) <=> IsNamed(r, x)
        /\ SpacesDiffer(q) /\ NamedAgree(q) /\ NamedCounted(q)
    BY <2>4, SameKinds DEF Sound
  <2>6. \A x \in DOMAIN r.follows : r.follows[x] # l
    BY <1>2 DEF Range
  <2>7. FollowsNamed(q)
    BY <1>2, <2>3, <2>4, <2>5, <2>6 DEF Sound, FollowsNamed
  <2> QED BY <2>1, <2>4, <2>5, <2>7, RefreshedSound, ReturnedGood
<1> QED BY <1>1, <1>2

-----------------------------------------------------------------------------
(* Calls that add and remove entries.                                       *)

\* No named bases are looked for when none are counted, and none are then there.
LEMMA NamesAre ==
  ASSUME NEW r, IsRegistry(r), NamedCounted(r)
  PROVE  \A s, i : NamesOf(r, s, i) =
           {l \in DOMAIN r.bases : /\ IsNamed(r, l) /\ SameSpace(r.bases[l].space, s)
                                   /\ r.bases[l].instance = i}
<1> DEFINE N == {l \in DOMAIN r.bases : IsNamed(r, l)}
<1>1. IsFiniteSet(N)
  BY FS_Subset DEF IsRegistry
<1>2. r.named = 0 <=> N = {}
  BY <1>1, FS_EmptySet DEF NamedCounted
<1> QED BY <1>2 DEF NamesOf

\* add(space)
LEMMA AddSpaceGood ==
  ASSUME NEW r, Sound(r), MemoCurrent(r), NEW s, IsSpaceValue(s)
  PROVE  Good(r, AddSpace(r, s))
<1> DEFINE Refused == \/ ~SameSpace(s, NullSpace) /\ s.label \notin ValidLabel
                      \/ s.label \in DOMAIN r.bases
                      \/ At(r, Attr(s)) # {}
           e == SpaceEntry(s)
           B == WithKey(r.bases, s.label, e)
           q == [r EXCEPT !.bases = B]
<1>1. CASE Refused
  BY <1>1, ThrewGood DEF AddSpace
<1>2. CASE ~Refused
  <2>1. AddSpace(r, s) = Returned(q)
    BY <1>2 DEF AddSpace
  <2>2. q = Remade(r, B, r.named, r.follows) /\ IsTable(r.bases) /\ IsFunction(r.follows)
    BY RegistryFields DEF Sound
  <2>3. DOMAIN B = DOMAIN r.bases \cup {s.label} /\ B[s.label] = e
        /\ \A x \in DOMAIN r.bases : B[x] = r.bases[x]
    BY <1>2 DEF WithKey
  <2>4. IsEntry(e) /\ e.space = s /\ e.instance = {}
    BY DEF IsEntry, Entry, SpaceEntry
  <2> HIDE DEF e
  <2>5. IsTable(B)
    BY <2>2, <2>4, WithEntry
  <2> HIDE DEF B, q
  <2>6. IsRegistry(q) /\ q.bases = B /\ q.named = r.named /\ q.follows = r.follows
    BY <2>2, <2>5, RemadeFields
  <2>7. s.label \notin DOMAIN r.bases /\ At(r, Attr(s)) = {}
    BY <1>2
  <2>8. \A x : IsNamed(q, x) <=> IsNamed(r, x)
    BY <2>3, <2>4, <2>6, <2>7 DEF IsNamed
  <2>9. \A x : IsSpace(q, x) <=> IsSpace(r, x) \/ x = s.label
    BY <2>3, <2>4, <2>6, <2>7 DEF IsSpace
  <2>10. \A x \in DOMAIN r.bases : IsSpace(r, x) => Attr(r.bases[x].space) # Attr(s)
    BY <2>7 DEF At, IsSpace
  <2>11. SpacesDiffer(q)
    <3> SUFFICES ASSUME NEW k \in DOMAIN B, NEW l \in DOMAIN B,
                        IsSpace(q, k), IsSpace(q, l),
                        Attr(B[k].space) = Attr(B[l].space)
                 PROVE  k = l
      BY <2>6 DEF SpacesDiffer
    <3>1. CASE k = s.label \/ l = s.label
      BY <3>1, <2>3, <2>4, <2>9, <2>10
    <3>2. CASE k # s.label /\ l # s.label
      BY <3>2, <2>3, <2>9 DEF Sound, SpacesDiffer
    <3> QED BY <3>1, <3>2
  <2>12. {x \in DOMAIN q.bases : IsNamed(q, x)} = {x \in DOMAIN r.bases : IsNamed(r, x)}
    BY <2>3, <2>6, <2>8 DEF IsNamed
  <2>13. NamedCounted(q)
    BY <2>6, <2>12 DEF Sound, NamedCounted
  <2>14. NamedAgree(q)
    <3> SUFFICES ASSUME NEW l \in DOMAIN B, IsNamed(q, l)
                 PROVE  /\ B[l].space \in Spaces(q)
                        /\ NamesOf(q, B[l].space, B[l].instance) = {l}
      BY <2>6 DEF NamedAgree
    <3>1. l \in DOMAIN r.bases /\ IsNamed(r, l) /\ B[l] = r.bases[l]
      BY <2>3, <2>8 DEF IsNamed
    <3>2. /\ r.bases[l].space \in Spaces(r)
          /\ NamesOf(r, r.bases[l].space, r.bases[l].instance) = {l}
      BY <3>1 DEF Sound, NamedAgree
    <3>3. r.bases[l].space \in Spaces(q)
      BY <3>2, <2>3, <2>6, <2>9 DEF Spaces
    <3>4. \A u, i : NamesOf(q, u, i) = NamesOf(r, u, i)
      BY <2>3, <2>6, <2>8 DEF NamesOf, IsNamed
    <3> QED BY <3>1, <3>2, <3>3, <3>4
  <2>15. FollowsNamed(q)
    BY <2>6, <2>8 DEF Sound, FollowsNamed
  <2>16. FollowersEqual(q)
    <3>1. \A x \in DOMAIN r.follows : B[x] = r.bases[x]
                                      /\ B[r.follows[x]] = r.bases[r.follows[x]]
      BY <2>3 DEF Sound, FollowsNamed, IsNamed
    <3> QED BY <3>1, <2>6 DEF Sound, FollowersEqual
  <2> QED BY <2>1, <2>6, <2>11, <2>13, <2>14, <2>15, <2>16, ReturnedGood DEF Sound
<1> QED BY <1>1, <1>2

\* add(label, space, instance, spec): a new name
LEMMA NamedAdded ==
  ASSUME NEW r, Sound(r), NEW l, l \notin DOMAIN r.bases, NEW e, IsEntry(e),
         e.instance # {}, e.space \in Spaces(r), NamesOf(r, e.space, e.instance) = {},
         NEW n, n = r.named + 1, NEW f, f = r.follows,
         NEW q, q = Remade(r, WithKey(r.bases, l, e), n, f)
  PROVE  Sound(q) /\ r.named \in Nat
<1> DEFINE B == WithKey(r.bases, l, e)
           N == {x \in DOMAIN r.bases : IsNamed(r, x)}
           M == {x \in DOMAIN q.bases : IsNamed(q, x)}
<1>1. q = Remade(r, B, n, f) /\ IsTable(r.bases) /\ IsFunction(f)
  BY RegistryFields DEF Sound
<1>2. DOMAIN B = DOMAIN r.bases \cup {l} /\ B[l] = e
      /\ \A x \in DOMAIN r.bases : B[x] = r.bases[x]
  BY DEF WithKey
<1>3. IsTable(B)
  BY <1>1, WithEntry
<1> HIDE DEF B
<1>4. IsRegistry(q) /\ q.bases = B /\ q.named = n /\ q.follows = f
  BY <1>1, <1>3, RemadeFields
<1>5. \A x : IsNamed(q, x) <=> IsNamed(r, x) \/ x = l
  BY <1>2, <1>4 DEF IsNamed
<1>6. \A x : IsSpace(q, x) <=> IsSpace(r, x)
  BY <1>2, <1>4 DEF IsSpace
<1>7. SpacesDiffer(q)
  BY <1>2, <1>4, <1>6 DEF Sound, SpacesDiffer, IsSpace
<1>8. IsFiniteSet(N) /\ l \notin N /\ r.named = Cardinality(N) /\ r.named \in Nat
  BY FS_Subset, FS_CardinalityType DEF Sound, IsRegistry, NamedCounted
<1>9. M = N \cup {l}
  BY <1>2, <1>4, <1>5 DEF IsNamed
<1>10. NamedCounted(q)
  <2>1. Cardinality(M) = Cardinality(N) + 1
    BY <1>8, <1>9, FS_AddElement
  <2> QED BY <2>1, <1>4, <1>8 DEF NamedCounted
<1>11. Spaces(q) = Spaces(r)
  BY <1>2, <1>4, <1>6 DEF Spaces, IsSpace
<1>12. \A s, i : NamesOf(q, s, i) =
         {x \in DOMAIN q.bases : /\ IsNamed(q, x) /\ SameSpace(q.bases[x].space, s)
                                 /\ q.bases[x].instance = i}
  BY <1>4, <1>10, NamesAre
<1>13. \A s, i : NamesOf(r, s, i) =
         {x \in DOMAIN r.bases : /\ IsNamed(r, x) /\ SameSpace(r.bases[x].space, s)
                                 /\ r.bases[x].instance = i}
  BY NamesAre DEF Sound
<1>14. \A x \in DOMAIN r.bases : IsNamed(r, x) =>
         ~(SameSpace(r.bases[x].space, e.space) /\ r.bases[x].instance = e.instance)
  BY <1>13
<1>15. NamedAgree(q)
  <2> SUFFICES ASSUME NEW k \in DOMAIN B, IsNamed(q, k)
               PROVE  /\ B[k].space \in Spaces(q)
                      /\ NamesOf(q, B[k].space, B[k].instance) = {k}
    BY <1>4 DEF NamedAgree
  <2>1. CASE k = l
    <3>1. NamesOf(q, e.space, e.instance) = {l}
      BY <1>2, <1>4, <1>5, <1>12, <1>14 DEF SameSpace
    <3> QED BY <2>1, <3>1, <1>2, <1>11
  <2>2. CASE k # l
    <3>1. k \in DOMAIN r.bases /\ IsNamed(r, k) /\ B[k] = r.bases[k]
      BY <2>2, <1>2, <1>5
    <3>2. /\ r.bases[k].space \in Spaces(r)
          /\ NamesOf(r, r.bases[k].space, r.bases[k].instance) = {k}
      BY <3>1 DEF Sound, NamedAgree
    <3>3. ~(SameSpace(e.space, r.bases[k].space) /\ e.instance = r.bases[k].instance)
      BY <3>1, <1>14 DEF SameSpace
    <3>4. NamesOf(q, r.bases[k].space, r.bases[k].instance)
            = NamesOf(r, r.bases[k].space, r.bases[k].instance)
      <4> DEFINE s == r.bases[k].space
                 i == r.bases[k].instance
                 Old == {x \in DOMAIN r.bases : /\ IsNamed(r, x) /\ SameSpace(r.bases[x].space, s)
                                                /\ r.bases[x].instance = i}
                 New == {x \in DOMAIN q.bases : /\ IsNamed(q, x) /\ SameSpace(q.bases[x].space, s)
                                                /\ q.bases[x].instance = i}
      <4>1. ~(SameSpace(e.space, s) /\ e.instance = i)
        BY <3>3
      <4>2. Old = NamesOf(r, s, i) /\ New = NamesOf(q, s, i)
        BY <1>12, <1>13
      <4> HIDE DEF s, i
      <4>3. Old = New
        BY <4>1, <1>2, <1>4, <1>5 DEF IsNamed
      <4> QED BY <4>2, <4>3 DEF s, i
    <3> QED BY <3>1, <3>2, <3>4, <1>11
  <2> QED BY <2>1, <2>2
<1>16. FollowsNamed(q)
  BY <1>4, <1>5 DEF Sound, FollowsNamed
<1>17. FollowersEqual(q)
  <2>1. \A x \in DOMAIN r.follows : B[x] = r.bases[x]
                                    /\ B[r.follows[x]] = r.bases[r.follows[x]]
    BY <1>2 DEF Sound, FollowsNamed, IsNamed
  <2> QED BY <2>1, <1>4 DEF Sound, FollowersEqual
<1> QED BY <1>1, <1>4, <1>7, <1>8, <1>10, <1>15, <1>16, <1>17 DEF Sound, B

\* remove() of a named basis
LEMMA RemoveNamedGood ==
  ASSUME NEW r, Sound(r), NEW l, IsNamed(r, l)
  PROVE  Good(r, RemoveNamed(r, l))
<1> DEFINE B == [x \in DOMAIN r.bases \ {l} |-> r.bases[x]]
           F == [x \in {y \in DOMAIN r.follows \ {l} : r.follows[y] # l} |-> r.follows[x]]
           q == [r EXCEPT !.bases = B, !.named = r.named - 1, !.follows = F]
           N == {x \in DOMAIN r.bases : IsNamed(r, x)}
           M == {x \in DOMAIN q.bases : IsNamed(q, x)}
<1>1. RemoveNamed(r, l) = Returned(q)
  BY DEF RemoveNamed
<1>2. q = Remade(r, B, r.named - 1, F) /\ IsTable(r.bases)
  <2> DEFINE n == r.named - 1
  <2>1. q = [r EXCEPT !.bases = B, !.named = n, !.follows = F]
    OBVIOUS
  <2> HIDE DEF B, F, n, q
  <2>2. \A b, m, f : [r EXCEPT !.bases = b, !.named = m, !.follows = f] = Remade(r, b, m, f)
    BY RegistryFields DEF Sound
  <2>3. q = Remade(r, B, n, F)
    BY <2>1, <2>2
  <2> QED BY <2>3, RegistryFields DEF Sound, n
<1>3. DOMAIN B = DOMAIN r.bases \ {l} /\ IsFunction(B) /\ IsFunction(F)
      /\ \A x \in DOMAIN r.bases \ {l} : B[x] = r.bases[x]
  BY DEF IsFunction
<1>4. /\ DOMAIN F \subseteq DOMAIN r.follows \ {l}
      /\ \A x \in DOMAIN F : F[x] = r.follows[x] /\ r.follows[x] # l
  OBVIOUS
<1> HIDE DEF B, F, q
<1>5. IsTable(B)
  BY <1>2, <1>3, FS_Subset DEF IsTable
<1>6. IsRegistry(q) /\ q.bases = B /\ q.named = r.named - 1 /\ q.follows = F
  BY <1>2, <1>3, <1>5, RemadeFields
<1>7. \A x : IsNamed(q, x) <=> IsNamed(r, x) /\ x # l
  BY <1>3, <1>6 DEF IsNamed
<1>8. \A x : IsSpace(q, x) <=> IsSpace(r, x)
  BY <1>3, <1>6 DEF IsSpace, IsNamed
<1>9. SpacesDiffer(q)
  BY <1>3, <1>6, <1>8 DEF Sound, SpacesDiffer, IsSpace
<1>10. IsFiniteSet(N) /\ l \in N /\ r.named = Cardinality(N)
  BY FS_Subset DEF Sound, IsRegistry, NamedCounted, IsNamed
<1>11. M = N \ {l}
  BY <1>3, <1>6, <1>7 DEF IsNamed
<1>12. NamedCounted(q)
  <2>1. Cardinality(M) = Cardinality(N) - 1
    BY <1>10, <1>11, FS_RemoveElement
  <2> QED BY <2>1, <1>6, <1>10 DEF NamedCounted
<1>13. Spaces(q) = Spaces(r)
  BY <1>3, <1>6, <1>8 DEF Spaces, IsSpace, IsNamed
<1>14. \A s, i : NamesOf(q, s, i) =
         {x \in DOMAIN q.bases : /\ IsNamed(q, x) /\ SameSpace(q.bases[x].space, s)
                                 /\ q.bases[x].instance = i}
  BY <1>6, <1>12, NamesAre
<1>15. \A s, i : NamesOf(r, s, i) =
         {x \in DOMAIN r.bases : /\ IsNamed(r, x) /\ SameSpace(r.bases[x].space, s)
                                 /\ r.bases[x].instance = i}
  BY NamesAre DEF Sound
<1>16. NamedAgree(q)
  <2> SUFFICES ASSUME NEW k \in DOMAIN B, IsNamed(q, k)
               PROVE  /\ B[k].space \in Spaces(q)
                      /\ NamesOf(q, B[k].space, B[k].instance) = {k}
    BY <1>6 DEF NamedAgree
  <2>1. k \in DOMAIN r.bases /\ IsNamed(r, k) /\ B[k] = r.bases[k] /\ k # l
    BY <1>3, <1>7
  <2>2. /\ r.bases[k].space \in Spaces(r)
        /\ NamesOf(r, r.bases[k].space, r.bases[k].instance) = {k}
    BY <2>1 DEF Sound, NamedAgree
  <2>3. NamesOf(q, r.bases[k].space, r.bases[k].instance) = {k}
    BY <2>1, <2>2, <1>3, <1>6, <1>7, <1>14, <1>15
  <2> QED BY <2>1, <2>2, <2>3, <1>13
<1>17. FollowsNamed(q)
  BY <1>4, <1>6, <1>7 DEF Sound, FollowsNamed
<1>18. FollowersEqual(q)
  <2>1. \A x \in DOMAIN F : B[x] = r.bases[x] /\ B[F[x]] = r.bases[r.follows[x]]
    BY <1>3, <1>4 DEF Sound, FollowsNamed, IsNamed
  <2> QED BY <2>1, <1>4, <1>6 DEF Sound, FollowersEqual
<1> QED BY <1>1, <1>6, <1>9, <1>12, <1>16, <1>17, <1>18, ReturnedGood DEF Sound

\* remove() of a space that no named basis is of
LEMMA RemoveSpaceGood ==
  ASSUME NEW r, Sound(r), MemoCurrent(r), NEW l
  PROVE  Good(r, RemoveSpace(r, l))
<1>1. CASE ~IsSpace(r, l)
  BY <1>1, ReturnedGood DEF RemoveSpace
<1>2. CASE IsSpace(r, l) /\ CopiesOf(r, l) # {l}
  BY <1>2, ThrewGood DEF RemoveSpace
<1>3. CASE IsSpace(r, l) /\ CopiesOf(r, l) = {l}
  <2> DEFINE B == [x \in DOMAIN r.bases \ {l} |-> r.bases[x]]
             q == [r EXCEPT !.bases = B]
  <2>1. RemoveSpace(r, l) = Returned(q)
    BY <1>3 DEF RemoveSpace
  <2>2. q = Remade(r, B, r.named, r.follows) /\ IsTable(r.bases) /\ IsFunction(r.follows)
    BY RegistryFields DEF Sound
  <2>3. DOMAIN B = DOMAIN r.bases \ {l} /\ IsFunction(B)
        /\ \A x \in DOMAIN r.bases \ {l} : B[x] = r.bases[x]
    BY DEF IsFunction
  <2> HIDE DEF B, q
  <2>4. IsTable(B)
    BY <2>2, <2>3, FS_Subset DEF IsTable
  <2>5. IsRegistry(q) /\ q.bases = B /\ q.named = r.named /\ q.follows = r.follows
    BY <2>2, <2>4, RemadeFields
  <2>6. \A x : IsNamed(q, x) <=> IsNamed(r, x)
    BY <1>3, <2>3, <2>5 DEF IsNamed, IsSpace
  <2>7. \A x : IsSpace(q, x) <=> IsSpace(r, x) /\ x # l
    BY <2>3, <2>5 DEF IsSpace
  <2>8. SpacesDiffer(q)
    BY <2>3, <2>5, <2>7 DEF Sound, SpacesDiffer, IsSpace
  <2>9. \A x : IsNamed(r, x) => x \in DOMAIN B /\ x \in DOMAIN r.bases /\ B[x] = r.bases[x]
    BY <1>3, <2>3 DEF IsNamed, IsSpace
  <2>10. {x \in DOMAIN q.bases : IsNamed(q, x)} = {x \in DOMAIN r.bases : IsNamed(r, x)}
    BY <2>5, <2>6, <2>9
  <2>11. NamedCounted(q)
    BY <2>5, <2>10 DEF Sound, NamedCounted
  <2>12. \A s, i : NamesOf(q, s, i) = NamesOf(r, s, i)
    BY <2>5, <2>6, <2>9 DEF NamesOf
  <2>13. NamedAgree(q)
    <3> SUFFICES ASSUME NEW k \in DOMAIN B, IsNamed(q, k)
                 PROVE  /\ B[k].space \in Spaces(q)
                        /\ NamesOf(q, B[k].space, B[k].instance) = {k}
      BY <2>5 DEF NamedAgree
    <3>1. k \in DOMAIN r.bases /\ IsNamed(r, k) /\ B[k] = r.bases[k]
      BY <2>6, <2>9
    <3>2. /\ r.bases[k].space \in Spaces(r)
          /\ NamesOf(r, r.bases[k].space, r.bases[k].instance) = {k}
      BY <3>1 DEF Sound, NamedAgree
    <3>3. PICK x \in DOMAIN r.bases : IsSpace(r, x) /\ r.bases[x].space = r.bases[k].space
      BY <3>2 DEF Spaces
    <3>4. x # l
      BY <1>3, <3>1, <3>3 DEF CopiesOf, SameSpace, IsNamed, IsSpace
    <3>5. r.bases[k].space \in Spaces(q)
      BY <3>3, <3>4, <2>3, <2>5, <2>7 DEF Spaces
    <3> QED BY <3>1, <3>2, <3>5, <2>12
  <2>14. FollowsNamed(q)
    BY <2>5, <2>6 DEF Sound, FollowsNamed
  <2>15. FollowersEqual(q)
    <3>1. \A x \in DOMAIN r.follows : B[x] = r.bases[x]
                                      /\ B[r.follows[x]] = r.bases[r.follows[x]]
      BY <2>9 DEF Sound, FollowsNamed
    <3> QED BY <3>1, <2>5 DEF Sound, FollowersEqual
  <2> QED BY <2>1, <2>5, <2>8, <2>11, <2>13, <2>14, <2>15, ReturnedGood DEF Sound
<1> QED BY <1>1, <1>2, <1>3

LEMMA RemoveLabelGood ==
  ASSUME NEW r, Sound(r), MemoCurrent(r), NEW l
  PROVE  Good(r, RemoveLabel(r, l))
<1>1. CASE l \notin DOMAIN r.bases
  BY <1>1, ThrewGood DEF RemoveLabel
<1>2. CASE l \in DOMAIN r.bases /\ IsNamed(r, l)
  BY <1>2, RemoveNamedGood DEF RemoveLabel
<1>3. CASE l \in DOMAIN r.bases /\ ~IsNamed(r, l)
  BY <1>3, RemoveSpaceGood DEF RemoveLabel
<1> QED BY <1>1, <1>2, <1>3

\* A replacement may lose the space replaced, but nothing else.
LEMMA ReplaceSound ==
  ASSUME NEW r, Sound(r), MemoCurrent(r), NEW s, IsSpaceValue(s)
  PROVE  Sound(Replace(r, s).reg) /\ MemoCurrent(Replace(r, s).reg)
<1> DEFINE removed == RemoveSpace(r, s.label)
<1>1. Good(r, removed)
  BY RemoveSpaceGood
<1>2. Good(removed.reg, AddSpace(removed.reg, s))
  BY <1>1, AddSpaceGood DEF Good
<1> QED BY <1>1, <1>2 DEF Replace, Good

\* one space at most has a type and quantum numbers
LEMMA OneAt ==
  ASSUME NEW r, SpacesDiffer(r), NEW attr
  PROVE  /\ At(r, attr) \subseteq Spaces(r)
         /\ \A u \in At(r, attr) : Attr(u) = attr
         /\ \A u, v \in At(r, attr) : u = v
BY DEF At, Spaces, SpacesDiffer, IsSpace

\* The registration of a named basis adds it, or changes nothing.
LEMMA Emplaced ==
  ASSUME NEW r, Sound(r), NEW l, NEW s, NEW instance, instance # {},
         NEW extent0, NEW metric0, NEW field0, NEW added,
         added = EmplaceNamed(r, l, s, instance, extent0, metric0, field0)
  PROVE  \/ added = Threw(r)
         \/ \E e : LET q == Remade(r, WithKey(r.bases, l, e), r.named + 1, r.follows)
                   IN /\ added = Returned(q) /\ Sound(q)
                      /\ l \notin DOMAIN r.bases /\ r.named \in Nat
                      /\ IsEntry(e) /\ e.instance # {}
<1> DEFINE Refused == \/ l \notin ValidLabel \/ l \in DOMAIN r.bases
                      \/ ~\E u \in At(r, Attr(s)) : SameSpace(u, s)
                      \/ NamesOf(r, s, instance) # {}
           registered == CHOOSE u \in At(r, Attr(s)) : TRUE
           e == Entry(registered, instance, extent0, metric0, field0)
           b == WithKey(r.bases, l, e)
           n == r.named + 1
           f == r.follows
           q == Remade(r, b, n, f)
<1>1. CASE Refused
  BY <1>1 DEF EmplaceNamed
<1>2. CASE ~Refused
  <2>1. registered \in At(r, Attr(s)) /\ SameSpace(registered, s)
    <3>1. PICK u \in At(r, Attr(s)) : SameSpace(u, s)
      BY <1>2
    <3>2. registered \in At(r, Attr(s))
      BY <3>1
    <3>3. registered = u
      BY <3>1, <3>2, OneAt DEF Sound
    <3> QED BY <3>1, <3>2, <3>3
  <2>2. added = Returned([r EXCEPT !.bases = b, !.named = n])
    BY <1>2 DEF EmplaceNamed
  <2>3. [r EXCEPT !.bases = b, !.named = n] = q
    <3> HIDE DEF b, n
    <3>1. \A x, y : [r EXCEPT !.bases = x, !.named = y] = Remade(r, x, y, r.follows)
      BY RegistryFields DEF Sound
    <3> QED BY <3>1
  <2>4. registered \in Spaces(r)
    BY <2>1, OneAt DEF Sound
  <2>5. IsSpaceValue(registered)
    <3>1. PICK x \in DOMAIN r.bases : registered = r.bases[x].space
      BY <2>4 DEF Spaces
    <3> HIDE DEF registered
    <3> QED BY <3>1 DEF Sound, IsRegistry, IsEntry
  <2> HIDE DEF registered
  <2>6. e.space = registered /\ e.instance = instance /\ IsEntry(e)
    BY <2>5, EntryFields
  <2>7. NamesOf(r, registered, instance) = {}
    BY <1>2, <2>1 DEF NamesOf, SameSpace
  <2>8. l \notin DOMAIN r.bases
    BY <1>2
  <2> HIDE DEF e, n, f, q
  <2>9. Sound(q) /\ r.named \in Nat
    BY <2>4, <2>6, <2>7, <2>8, NamedAdded DEF n, f, q
  <2>10. added = Returned(q)
    BY <2>2, <2>3
  <2> QED BY <2>6, <2>8, <2>9, <2>10 DEF n, f, q
<1> QED BY <1>1, <1>2

\* To take back a basis just added restores what was there.
LEMMA TakenBack ==
  ASSUME NEW r, Sound(r), NEW l, l \notin DOMAIN r.bases, NEW e, r.named \in Nat,
         NEW q, q = Remade(r, WithKey(r.bases, l, e), r.named + 1, r.follows), Sound(q)
  PROVE  RemoveNamed(Forget(q), l).reg = Forget(r)
<1> DEFINE a == Forget(q)
           B == [x \in DOMAIN a.bases \ {l} |-> a.bases[x]]
           F == [x \in {y \in DOMAIN a.follows \ {l} : a.follows[y] # l} |-> a.follows[x]]
           n == a.named - 1
           w == [a EXCEPT !.bases = B, !.named = n, !.follows = F]
<1>1. RemoveNamed(a, l).reg = Forget(w)
  BY DEF RemoveNamed, Returned
<1>2. /\ q.bases = WithKey(r.bases, l, e) /\ q.named = r.named + 1 /\ q.follows = r.follows
      /\ q.mask = r.mask /\ q.role = r.role /\ q.roleAt = r.roleAt
  <2> DEFINE b == WithKey(r.bases, l, e)
             m == r.named + 1
             f == r.follows
  <2>1. q = Remade(r, b, m, f)
    OBVIOUS
  <2> HIDE DEF b, m, f
  <2>2. /\ q.bases = b /\ q.named = m /\ q.follows = f
        /\ q.mask = r.mask /\ q.role = r.role /\ q.roleAt = r.roleAt
    BY <2>1, RemadeFields
  <2> QED BY <2>2 DEF b, m, f
<1>3. /\ a.bases = WithKey(r.bases, l, e) /\ a.named = r.named + 1 /\ a.follows = r.follows
      /\ a.mask = r.mask /\ a.role = r.role /\ a.roleAt = r.roleAt /\ Sound(a)
  BY <1>2, ForgetSound
<1> HIDE DEF a
<1>4. B = r.bases
  <2>1. IsFunction(r.bases)
    BY DEF Sound, IsRegistry
  <2>2. DOMAIN a.bases \ {l} = DOMAIN r.bases
        /\ \A x \in DOMAIN r.bases : a.bases[x] = r.bases[x]
    BY <1>3 DEF WithKey
  <2> QED BY <2>1, <2>2 DEF IsFunction
<1>5. F = r.follows
  <2>1. IsFunction(r.follows)
    BY DEF Sound, IsRegistry
  <2>2. \A x \in DOMAIN r.follows : x # l /\ r.follows[x] # l
    BY DEF Sound, FollowsNamed, IsNamed
  <2>3. {y \in DOMAIN a.follows \ {l} : a.follows[y] # l} = DOMAIN r.follows
    BY <1>3, <2>2
  <2> QED BY <2>1, <2>3, <1>3 DEF IsFunction
<1>6. n = r.named
  BY <1>3
<1>7. w = Remade(a, r.bases, r.named, r.follows)
  <2> HIDE DEF B, F, n
  <2>1. \A b, m, f : [a EXCEPT !.bases = b, !.named = m, !.follows = f] = Remade(a, b, m, f)
    BY <1>3, RegistryFields DEF Sound
  <2> QED BY <2>1, <1>4, <1>5, <1>6
<1> HIDE DEF w, B, F, n
<1>8. IsTable(r.bases) /\ IsFunction(r.follows)
  BY RegistryFields DEF Sound
<1>9. /\ w.bases = r.bases /\ w.named = r.named /\ w.follows = r.follows
      /\ w.mask = r.mask /\ w.role = r.role /\ w.roleAt = r.roleAt /\ IsRegistry(w)
  BY <1>3, <1>7, <1>8, RemadeFields
<1>10. Forget(w) = Made(r.bases, r.named, r.follows, r.mask, r.role, r.roleAt, {}, {})
  <2>1. Forget(w) = Made(w.bases, w.named, w.follows, w.mask, w.role, w.roleAt, {}, {})
    BY <1>9, RegistryFields
  <2> QED BY <2>1, <1>9
<1>11. Forget(r) = Made(r.bases, r.named, r.follows, r.mask, r.role, r.roleAt, {}, {})
  BY RegistryFields DEF Sound
<1> QED BY <1>1, <1>10, <1>11 DEF a

\* A registration whose follow() fails is undone.
LEMMA AddNamedGood ==
  ASSUME NEW r, Sound(r), MemoCurrent(r), NEW l, NEW s, NEW instance, instance # {},
         NEW extent0, NEW metric0, NEW field0, NEW source
  PROVE  Good(r, AddNamed(r, l, s, instance, extent0, metric0, field0, source))
<1> DEFINE added == EmplaceNamed(r, l, s, instance, extent0, metric0, field0)
           following == Follow(added.reg, l, CHOOSE x \in source : TRUE)
           result == AddNamed(r, l, s, instance, extent0, metric0, field0, source)
<1>1. CASE source # {} /\ (extent0 # {} \/ metric0 # "unit" \/ field0 # {})
  BY <1>1, ThrewGood DEF AddNamed
<1>2. CASE ~(source # {} /\ (extent0 # {} \/ metric0 # "unit" \/ field0 # {}))
  <2>1. result = IF ~added.ok \/ source = {} THEN added
                 ELSE IF following.ok THEN following
                 ELSE [reg |-> RemoveNamed(added.reg, l).reg, ok |-> FALSE]
    BY <1>2 DEF AddNamed
  <2> HIDE DEF result, added, following
  <2>2. CASE added = Threw(r)
    <3>1. result = added
      BY <2>1, <2>2 DEF Threw
    <3> QED BY <2>2, <3>1, ThrewGood DEF result
  <2>3. ASSUME NEW e, LET q == Remade(r, WithKey(r.bases, l, e), r.named + 1, r.follows)
                      IN /\ added = Returned(q) /\ Sound(q)
                         /\ l \notin DOMAIN r.bases /\ r.named \in Nat
        PROVE  Good(r, result)
    <3> DEFINE q == Remade(r, WithKey(r.bases, l, e), r.named + 1, r.follows)
    <3>1. added = Returned(q) /\ Sound(q) /\ l \notin DOMAIN r.bases /\ r.named \in Nat
      BY <2>3
    <3>2. RemoveNamed(Forget(q), l).reg = Forget(r)
      BY <3>1, TakenBack
    <3> HIDE DEF q
    <3>3. added.ok = TRUE /\ added.reg = Forget(q) /\ Good(r, added)
      BY <3>1, ReturnedGood DEF Returned
    <3>4. CASE source = {}
      BY <2>1, <3>3, <3>4
    <3>5. CASE source # {}
      <4>1. Good(added.reg, following)
        BY <3>3, FollowGood DEF Good, following
      <4>2. CASE following.ok
        BY <2>1, <3>3, <3>5, <4>1, <4>2 DEF Good
      <4>3. CASE ~following.ok
        <5>1. result = [reg |-> Forget(r), ok |-> FALSE]
          BY <2>1, <3>2, <3>3, <3>5, <4>3
        <5>2. Sound(Forget(r)) /\ MemoCurrent(Forget(r)) /\ Forget(Forget(r)) = Forget(r)
          BY ForgetSound, ForgetTwice
        <5> QED BY <5>1, <5>2 DEF Good
      <4> QED BY <4>2, <4>3
    <3> QED BY <3>4, <3>5
  <2> QED BY <2>2, <2>3, Emplaced DEF result, added
<1> QED BY <1>1, <1>2

-----------------------------------------------------------------------------
(* The other calls.                                                         *)

\* The base spaces under a mask are those of the table.
LEMMA BaseSpacesUnder ==
  ASSUME NEW r, IsRegistry(r), NEW q, IsRegistry(q), q.bases = r.bases
  PROVE  \A m : BaseSpaces([q EXCEPT !.mask = m]) = BaseSpaces([r EXCEPT !.mask = m])
<1> SUFFICES ASSUME NEW m
             PROVE  BaseSpaces([q EXCEPT !.mask = m]) = BaseSpaces([r EXCEPT !.mask = m])
  OBVIOUS
<1> DEFINE u == [q EXCEPT !.mask = m]
           v == [r EXCEPT !.mask = m]
<1>1. u = Made(q.bases, q.named, q.follows, m, q.role, q.roleAt, q.memo, q.types)
  BY RegistryFields
<1>2. v = Made(r.bases, r.named, r.follows, m, r.role, r.roleAt, r.memo, r.types)
  BY RegistryFields
<1> HIDE DEF u, v
<1>3. u.bases = r.bases /\ u.mask = m
  BY <1>1, MadeFields
<1>4. v.bases = r.bases /\ v.mask = m
  BY <1>2, MadeFields
<1>5. Spaces(u) = Spaces(v)
  BY <1>3, <1>4 DEF Spaces, IsSpace
<1>6. \A s : IsBase(u, s) <=> IsBase(v, s)
  BY <1>3, <1>4 DEF IsBase
<1> QED BY <1>5, <1>6 DEF BaseSpaces, u, v

\* What is memoized stays current while the table does.
LEMMA MemoKept ==
  ASSUME NEW r, IsRegistry(r), MemoCurrent(r),
         NEW q, IsRegistry(q), q.bases = r.bases, q.memo = r.memo, q.types = r.types
  PROVE  MemoCurrent(q)
<1>1. \A m : BaseSpaces([q EXCEPT !.mask = m]) = BaseSpaces([r EXCEPT !.mask = m])
  BY BaseSpacesUnder
<1>2. \A m \in q.memo : m.spaces = BaseSpaces([q EXCEPT !.mask = m.mask])
  BY <1>1 DEF MemoCurrent
<1>3. BaseTypes(q) = BaseTypes(r)
  BY DEF BaseTypes, Spaces, IsSpace
<1>4. \A types \in q.types : types = BaseTypes(q)
  BY <1>3 DEF MemoCurrent
<1> QED BY <1>2, <1>4 DEF MemoCurrent

LEMMA AddWithRolesGood ==
  ASSUME NEW r, Sound(r), MemoCurrent(r), NEW s, IsSpaceValue(s), NEW roles
  PROVE  Good(r, AddWithRoles(r, s, roles))
<1> DEFINE added == AddSpace(r, s)
           a == added.reg
           x == [y \in Role |-> IF y \in roles THEN s.type ELSE a.role[y]]
           q == [a EXCEPT !.role = x]
<1>1. Good(r, added)
  BY AddSpaceGood
<1>2. AddWithRoles(r, s, roles) = IF ~added.ok THEN added ELSE Returned(q)
  BY DEF AddWithRoles
<1> HIDE DEF added
<1>3. Sound(a)
  BY <1>1 DEF Good
<1> HIDE DEF a, x
<1>4. q = Made(a.bases, a.named, a.follows, a.mask, x, a.roleAt, a.memo, a.types)
      /\ IsTable(a.bases) /\ IsFunction(a.follows)
  BY <1>3, RegistryFields DEF Sound
<1> HIDE DEF q
<1>5. q.bases = a.bases /\ q.named = a.named /\ q.follows = a.follows /\ IsRegistry(q)
  BY <1>4, MadeFields
<1>6. Sound(q)
  BY <1>3, <1>5, SameSound
<1> QED BY <1>1, <1>2, <1>6, ReturnedGood

LEMMA AddUnionGood ==
  ASSUME NEW r, Sound(r), MemoCurrent(r), NEW l, NEW l1, NEW l2, NEW roles
  PROVE  Good(r, AddUnion(r, l, l1, l2, roles))
<1> DEFINE s == r.bases[l1].space
           u == r.bases[l2].space
           type == s.type \cup u.type
           qns == s.qns \cup u.qns
           w == Space(l, type, qns, DimensionOf(r, type, qns), FieldOver(r, type, qns))
<1>1. CASE ~(IsSpace(r, l1) /\ IsSpace(r, l2))
  BY <1>1, ThrewGood DEF AddUnion
<1>2. CASE IsSpace(r, l1) /\ IsSpace(r, l2)
  <2>1. \/ AddUnion(r, l, l1, l2, roles) = Threw(r)
        \/ AddUnion(r, l, l1, l2, roles) = AddWithRoles(r, w, roles)
    BY DEF AddUnion
  <2>2. IsSpaceValue(s) /\ IsSpaceValue(u)
    BY <1>2 DEF IsSpace, Sound, IsRegistry, IsEntry
  <2>3. type \subseteq TypeBits
    BY <2>2 DEF IsSpaceValue
  <2> HIDE DEF type
  <2>4. IsSpaceValue(w)
    BY <2>3 DEF IsSpaceValue, Space
  <2> HIDE DEF w
  <2> QED BY <2>1, <2>4, ThrewGood, AddWithRolesGood
<1> QED BY <1>1, <1>2

LEMMA AddIntersectionGood ==
  ASSUME NEW r, Sound(r), MemoCurrent(r), NEW l, NEW l1, NEW l2, NEW roles
  PROVE  Good(r, AddIntersection(r, l, l1, l2, roles))
<1> DEFINE s == r.bases[l1].space
           u == r.bases[l2].space
           type == s.type \cap u.type
           qns == s.qns \cap u.qns
           w == Space(l, type, qns, DimensionOf(r, type, qns), "complex")
<1>1. CASE ~(IsSpace(r, l1) /\ IsSpace(r, l2))
  BY <1>1, ThrewGood DEF AddIntersection
<1>2. CASE IsSpace(r, l1) /\ IsSpace(r, l2)
  <2>1. \/ AddIntersection(r, l, l1, l2, roles) = Threw(r)
        \/ AddIntersection(r, l, l1, l2, roles) = AddWithRoles(r, w, roles)
    BY DEF AddIntersection
  <2>2. IsSpaceValue(s) /\ IsSpaceValue(u)
    BY <1>2 DEF IsSpace, Sound, IsRegistry, IsEntry
  <2>3. type \subseteq TypeBits
    BY <2>2 DEF IsSpaceValue
  <2> HIDE DEF type
  <2>4. IsSpaceValue(w)
    BY <2>3 DEF IsSpaceValue, Space
  <2> HIDE DEF w
  <2> QED BY <2>1, <2>4, ThrewGood, AddWithRolesGood
<1> QED BY <1>1, <1>2

\* roles and the mask are no part of the table
LEMMA AnnotatedGood ==
  ASSUME NEW r, Sound(r), MemoCurrent(r), NEW m, NEW ro, NEW ra, NEW q,
         q = Made(r.bases, r.named, r.follows, m, ro, ra, r.memo, r.types)
  PROVE  Good(r, [reg |-> q, ok |-> TRUE])
<1>1. IsTable(r.bases) /\ IsFunction(r.follows)
  BY RegistryFields DEF Sound
<1>2. /\ q.bases = r.bases /\ q.named = r.named /\ q.follows = r.follows
      /\ q.memo = r.memo /\ q.types = r.types /\ IsRegistry(q)
  BY <1>1, MadeFields
<1>3. Sound(q)
  BY <1>2, SameSound
<1>4. MemoCurrent(q)
  BY <1>2, MemoKept DEF Sound
<1> QED BY <1>3, <1>4 DEF Good

LEMMA SetRoleGood ==
  ASSUME NEW r, Sound(r), MemoCurrent(r), NEW role, NEW type
  PROVE  Good(r, SetRole(r, role, type))
<1> DEFINE x == [r.role EXCEPT ![role] = type]
           q == [r EXCEPT !.role = x]
<1>1. SetRole(r, role, type) = Threw(r) \/ SetRole(r, role, type) = [reg |-> q, ok |-> TRUE]
  BY DEF SetRole
<1> HIDE DEF x
<1>2. q = Made(r.bases, r.named, r.follows, r.mask, x, r.roleAt, r.memo, r.types)
  BY RegistryFields DEF Sound
<1> HIDE DEF q
<1> QED BY <1>1, <1>2, ThrewGood, AnnotatedGood

LEMMA SetRoleAtGood ==
  ASSUME NEW r, Sound(r), MemoCurrent(r), NEW role, NEW typeAt
  PROVE  Good(r, SetRoleAt(r, role, typeAt))
<1> DEFINE x == [r.roleAt EXCEPT ![role] = typeAt]
           q == [r EXCEPT !.roleAt = x]
<1>1. \/ SetRoleAt(r, role, typeAt) = Threw(r)
      \/ SetRoleAt(r, role, typeAt) = [reg |-> q, ok |-> TRUE]
  BY DEF SetRoleAt
<1> HIDE DEF x
<1>2. q = Made(r.bases, r.named, r.follows, r.mask, r.role, x, r.memo, r.types)
  BY RegistryFields DEF Sound
<1> HIDE DEF q
<1> QED BY <1>1, <1>2, ThrewGood, AnnotatedGood

LEMMA SetMaskGood ==
  ASSUME NEW r, Sound(r), MemoCurrent(r), NEW m
  PROVE  Good(r, [reg |-> [r EXCEPT !.mask = m], ok |-> TRUE])
<1> DEFINE q == [r EXCEPT !.mask = m]
<1>1. q = Made(r.bases, r.named, r.follows, m, r.role, r.roleAt, r.memo, r.types)
  BY RegistryFields DEF Sound
<1> HIDE DEF q
<1>2. Good(r, [reg |-> q, ok |-> TRUE])
  BY <1>1, AnnotatedGood
<1> QED BY <1>2 DEF q

\* a registry of no named basis that follows another and of one space at most
LEMMA SmallSound ==
  ASSUME NEW b, IsTable(b), NEW l, DOMAIN b \subseteq {l}, \A x \in DOMAIN b : b[x].instance = {},
         NEW m, NEW ro, NEW ra, NEW r, r = Made(b, 0, <<>>, m, ro, ra, {}, {})
  PROVE  Sound(r) /\ MemoCurrent(r)
<1>1. DOMAIN <<>> = {} /\ IsFunction(<<>>)
  BY DEF IsFunction
<1> DEFINE f == <<>>
<1>2. r = Made(b, 0, f, m, ro, ra, {}, {}) /\ DOMAIN f = {} /\ IsFunction(f)
  BY <1>1
<1> HIDE DEF f
<1>3. /\ r.bases = b /\ r.named = 0 /\ r.follows = f /\ r.memo = {} /\ r.types = {}
      /\ IsRegistry(r)
  BY <1>2, MadeFields
<1>4. \A x : ~IsNamed(r, x)
  BY <1>3 DEF IsNamed
<1>5. {x \in DOMAIN r.bases : IsNamed(r, x)} = {}
  BY <1>4
<1>6. NamedCounted(r)
  BY <1>3, <1>5, FS_EmptySet DEF NamedCounted
<1>7. SpacesDiffer(r) /\ NamedAgree(r)
  BY <1>3, <1>4 DEF SpacesDiffer, NamedAgree
<1>8. FollowsNamed(r) /\ FollowersEqual(r) /\ MemoCurrent(r)
  BY <1>2, <1>3 DEF FollowsNamed, FollowersEqual, MemoCurrent
<1> QED BY <1>3, <1>6, <1>7, <1>8 DEF Sound

LEMMA DefaultSound == Sound(Default) /\ MemoCurrent(Default)
<1> DEFINE b == [l \in {NullLabel} |-> SpaceEntry(NullSpace)]
           ro == [x \in Role |-> {}]
           ra == [x \in Role |-> <<>>]
<1>1. Default = Made(b, 0, <<>>, {}, ro, ra, {}, {})
  BY DEF Default, Registry, Made
<1>2. IsFunction(b) /\ DOMAIN b = {NullLabel}
  BY DEF IsFunction
<1>3. IsEntry(b[NullLabel]) /\ b[NullLabel].instance = {}
  BY DEF SpaceEntry, NullSpace, IsEntry, Entry, IsSpaceValue, Space
<1> HIDE DEF b, ro, ra
<1>4. IsTable(b)
  BY <1>2, <1>3, FS_Singleton DEF IsTable
<1> QED BY <1>1, <1>2, <1>3, <1>4, SmallSound

LEMMA MovedFromSound ==
  ASSUME NEW r, Sound(r)
  PROVE  Sound(MovedFrom(r)) /\ MemoCurrent(MovedFrom(r))
<1> DEFINE b == <<>>
           f == <<>>
           ra == [role \in Role |-> <<>>]
           q == [r EXCEPT !.bases = b, !.named = 0, !.follows = f]
           w == [q EXCEPT !.roleAt = ra]
<1>1. MovedFrom(r) = Forget(w)
  BY DEF MovedFrom
<1>2. IsTable(b) /\ DOMAIN b = {} /\ IsFunction(f)
  BY FS_EmptySet DEF IsTable, IsFunction
<1> HIDE DEF b, ra
<1>3. q = Remade(r, b, 0, f)
  <2> HIDE DEF f
  <2>1. \A x, y, z : [r EXCEPT !.bases = x, !.named = y, !.follows = z] = Remade(r, x, y, z)
    BY RegistryFields DEF Sound
  <2> QED BY <2>1
<1> HIDE DEF q
<1>4. q.bases = b /\ q.named = 0 /\ q.follows = f /\ IsRegistry(q)
  BY <1>2, <1>3, RemadeFields
<1>5. w = Made(b, 0, f, q.mask, q.role, ra, q.memo, q.types)
  <2>1. \A x : [q EXCEPT !.roleAt = x]
                 = Made(q.bases, q.named, q.follows, q.mask, q.role, x, q.memo, q.types)
    BY <1>4, RegistryFields
  <2> QED BY <2>1, <1>4
<1> HIDE DEF w
<1>6. /\ w.bases = b /\ w.named = 0 /\ w.follows = f /\ w.mask = q.mask /\ w.role = q.role
      /\ w.roleAt = ra /\ IsRegistry(w)
  BY <1>2, <1>5, MadeFields
<1>7. Forget(w) = Made(w.bases, w.named, w.follows, w.mask, w.role, w.roleAt, {}, {})
  BY <1>6, RegistryFields
<1>8. Forget(w) = Made(b, 0, <<>>, q.mask, q.role, ra, {}, {})
  BY <1>6, <1>7
<1> QED BY <1>1, <1>2, <1>8, SmallSound

\* a registry with other memoized values
LEMMA MemoWritten ==
  ASSUME NEW r, Sound(r), NEW memo, NEW types,
         NEW q, q = Made(r.bases, r.named, r.follows, r.mask, r.role, r.roleAt, memo, types)
  PROVE  /\ Sound(q) /\ IsRegistry(q) /\ IsRegistry(r)
         /\ q.bases = r.bases /\ q.mask = r.mask /\ q.memo = memo /\ q.types = types
<1>1. IsTable(r.bases) /\ IsFunction(r.follows) /\ IsRegistry(r)
  BY RegistryFields DEF Sound
<1>2. /\ q.bases = r.bases /\ q.named = r.named /\ q.follows = r.follows /\ q.mask = r.mask
      /\ q.memo = memo /\ q.types = types /\ IsRegistry(q)
  BY <1>1, MadeFields
<1>3. Sound(q)
  BY <1>2, SameSound
<1> QED BY <1>1, <1>2, <1>3

\* base_spaces() and base_space_types() memoize what the table says.
LEMMA SpacesFilled ==
  ASSUME NEW r, Sound(r), MemoCurrent(r),
         NEW x, x.mask = r.mask, x.spaces = BaseSpaces(r)
  PROVE  LET q == [r EXCEPT !.memo = {x}]
         IN Sound(q) /\ MemoCurrent(q) /\ q.memo = {x}
<1> DEFINE q == [r EXCEPT !.memo = {x}]
           new == {x}
           old == r.types
<1>1. q = Made(r.bases, r.named, r.follows, r.mask, r.role, r.roleAt, new, old)
  BY RegistryFields DEF Sound
<1> HIDE DEF new, old, q
<1>2. /\ Sound(q) /\ IsRegistry(q)
      /\ q.bases = r.bases /\ q.mask = r.mask /\ q.memo = new /\ q.types = old
  BY <1>1, MemoWritten
<1>3. BaseSpaces(q) = BaseSpaces(r) /\ BaseTypes(q) = BaseTypes(r)
  BY <1>2 DEF BaseSpaces, IsBase, BaseTypes, Spaces, IsSpace
<1>4. [q EXCEPT !.mask = q.mask] = q
  BY <1>2 DEF IsRegistry
<1>5. \A m \in q.memo : m.spaces = BaseSpaces([q EXCEPT !.mask = m.mask])
  BY <1>2, <1>3, <1>4 DEF new
<1>6. \A t \in q.types : t = BaseTypes(q)
  BY <1>2, <1>3 DEF MemoCurrent, old
<1> QED BY <1>2, <1>5, <1>6 DEF MemoCurrent, new, q

LEMMA TypesFilled ==
  ASSUME NEW r, Sound(r), MemoCurrent(r)
  PROVE  LET q == [r EXCEPT !.types = {BaseTypes(r)}]
         IN Sound(q) /\ MemoCurrent(q) /\ q.memo = r.memo
<1> DEFINE q == [r EXCEPT !.types = {BaseTypes(r)}]
           new == {BaseTypes(r)}
           old == r.memo
<1>1. q = Made(r.bases, r.named, r.follows, r.mask, r.role, r.roleAt, old, new)
  BY RegistryFields DEF Sound
<1> HIDE DEF new, old, q
<1>2. /\ Sound(q) /\ IsRegistry(q) /\ IsRegistry(r)
      /\ q.bases = r.bases /\ q.memo = old /\ q.types = new
  BY <1>1, MemoWritten
<1>3. \A m : BaseSpaces([q EXCEPT !.mask = m]) = BaseSpaces([r EXCEPT !.mask = m])
  BY <1>2, BaseSpacesUnder
<1>4. BaseTypes(q) = BaseTypes(r)
  BY <1>2 DEF BaseTypes, Spaces, IsSpace
<1>5. \A m \in q.memo : m.spaces = BaseSpaces([q EXCEPT !.mask = m.mask])
  BY <1>2, <1>3 DEF MemoCurrent, old
<1>6. \A t \in q.types : t = BaseTypes(q)
  BY <1>2, <1>4 DEF new
<1> QED BY <1>2, <1>5, <1>6 DEF MemoCurrent, old, q

-----------------------------------------------------------------------------
(* What every step keeps.                                                   *)

Fit(r) == Sound(r) /\ MemoCurrent(r)

\* A reader has a vector that the registry still owns; that is the only one,
\* since none is made while there is one and no call runs while one is read.
ReadersRefer ==
  /\ DOMAIN reader = Reader
  /\ \A t \in Reader : reader[t].at = "reads" =>
       \E m \in reg.memo : reader[t].table = m.table

RegistryInv == Fit(reg) /\ Fit(other) /\ ReadersRefer

\* what a call leaves; refused: what threw changed nothing
ChangeKept ==
  /\ Fit(reg') /\ Fit(other')
  /\ outcome' = "threw" => Forget(reg') = Forget(reg) /\ other' = other
  /\ \A t \in Reader : reader[t].at = "idle"
  /\ reader' = reader

LEMMA RegistryInitKept == RegistryInit => RegistryInv
<1> SUFFICES ASSUME RegistryInit
             PROVE  RegistryInv
  OBVIOUS
<1>1. Consistent(reg)
  BY StartsAssumption DEF RegistryInit
<1>2. Fit(reg)
  BY <1>1 DEF Consistent, Fit, Sound
<1>3. Fit(other)
  BY DefaultSound DEF Fit, RegistryInit
<1>4. ReadersRefer
  BY DEF ReadersRefer, RegistryInit
<1> QED BY <1>2, <1>3, <1>4 DEF RegistryInv

LEMMA ChangeKeeps ==
  ASSUME RegistryInv, Change
  PROVE  ChangeKept
<1>1. Fit(reg) /\ Fit(other) /\ Sound(reg) /\ MemoCurrent(reg) /\ Sound(other)
  BY DEF RegistryInv, Fit
<1>2. ASSUME NEW result, Excluded, Good(reg, result), Call(result)
      PROVE  ChangeKept
  <2>1. reg' = result.reg /\ other' = other /\ reader' = reader
    BY <1>2 DEF Call
  <2>2. outcome' = "threw" => ~result.ok
    BY <1>2 DEF Call
  <2>3. Fit(reg')
    BY <1>2, <2>1 DEF Good, Fit
  <2>4. outcome' = "threw" => Forget(reg') = Forget(reg)
    BY <1>2, <2>1, <2>2 DEF Good
  <2> QED BY <1>1, <1>2, <2>1, <2>3, <2>4 DEF ChangeKept, Excluded
<1>3. CASE extent
  BY <1>1, <1>2, <1>3, SetExtentGood DEF extent
<1>4. CASE field
  BY <1>1, <1>2, <1>4, SetFieldGood DEF field
<1>5. CASE metric
  BY <1>1, <1>2, <1>5, SetMetricGood DEF metric
<1>6. CASE follow
  BY <1>1, <1>2, <1>6, FollowGood DEF follow
<1>7. CASE addSpace
  <2>1. Excluded
    BY <1>7 DEF addSpace
  <2>2. PICK s \in Offered, roles \in {{}, {"vacuum occupied"}, {"complete"}} :
          Call(AddWithRoles(reg, s, roles))
    BY <1>7 DEF addSpace
  <2>3. Good(reg, AddWithRoles(reg, s, roles))
    BY <1>1, AddWithRolesGood, OfferedAssumption
  <2> QED BY <1>2, <2>1, <2>2, <2>3
<1>8. CASE addNamed
  <2>1. Excluded
    BY <1>8 DEF addNamed
  <2>2. PICK l \in NewLabel, s \in Offered, instance \in Instances,
             extent0 \in Optional(Extents), source \in Optional(Label) :
          Call(AddNamed(reg, l, s, {instance}, extent0, "unit", {}, source))
    BY <1>8 DEF addNamed
  <2> DEFINE i == {instance}
             none == {}
             result == AddNamed(reg, l, s, i, extent0, "unit", none, source)
  <2>3. i # {}
    OBVIOUS
  <2> HIDE DEF i, none
  <2>4. Good(reg, result)
    BY <1>1, <2>3, AddNamedGood
  <2>5. Call(result)
    BY <2>2 DEF i, none
  <2> HIDE DEF result
  <2> QED BY <1>2, <2>1, <2>4, <2>5
<1>9. CASE addUnion
  BY <1>1, <1>2, <1>9, AddUnionGood DEF addUnion
<1>10. CASE addIntersection
  BY <1>1, <1>2, <1>10, AddIntersectionGood DEF addIntersection
<1>11. CASE remove
  <2>1. ASSUME NEW l
        PROVE  Good(reg, RemoveLabel(reg, l)) /\ Good(reg, RemoveSpace(reg, l))
    BY <1>1, RemoveLabelGood, RemoveSpaceGood
  <2>2. Excluded
    BY <1>11 DEF remove
  <2>3. CASE \E l \in Label : Call(RemoveLabel(reg, l))
    BY <1>2, <2>1, <2>2, <2>3
  <2>4. CASE \E s \in Offered : Call(RemoveSpace(reg, s.label))
    BY <1>2, <2>1, <2>2, <2>4
  <2> QED BY <1>11, <2>3, <2>4 DEF remove
<1>12. CASE replace
  <2>1. PICK s \in Offered : reg' = Replace(reg, s).reg
    BY <1>12 DEF replace
  <2>2. /\ \A t \in Reader : reader[t].at = "idle"
        /\ other' = other /\ reader' = reader /\ outcome' # "threw"
    BY <1>12 DEF replace, Excluded
  <2>3. Fit(reg')
    BY <1>1, <2>1, ReplaceSound, OfferedAssumption DEF Fit
  <2> QED BY <1>1, <2>2, <2>3 DEF ChangeKept
<1>13. CASE clear
  <2>1. Good(reg, Returned(Default))
    BY DefaultSound, ReturnedGood
  <2> QED BY <1>2, <1>13, <2>1 DEF clear
<1>14. CASE setRole
  BY <1>1, <1>2, <1>14, SetRoleGood, SetRoleAtGood DEF setRole
<1>15. CASE setMask
  <2>1. PICK mask \in Masks : Call([reg |-> [reg EXCEPT !.mask = mask], ok |-> TRUE])
    BY <1>15 DEF setMask
  <2>2. Excluded
    BY <1>15 DEF setMask
  <2> DEFINE result == [reg |-> [reg EXCEPT !.mask = mask], ok |-> TRUE]
  <2>3. Good(reg, result)
    BY <1>1, SetMaskGood
  <2>4. Call(result)
    BY <2>1
  <2> HIDE DEF result
  <2> QED BY <1>2, <2>2, <2>3, <2>4
<1>16. CASE copyTo
  <2>1. Fit(Forget(reg))
    BY <1>1, ForgetSound DEF Fit
  <2> QED BY <1>1, <1>16, <2>1 DEF copyTo, Excluded, ChangeKept
<1>17. CASE copyFrom
  <2>1. Good(reg, Returned(other))
    BY <1>1, ReturnedGood
  <2> QED BY <1>2, <1>17, <2>1 DEF copyFrom
<1>18. CASE moveTo
  <2>1. Fit(Forget(reg)) /\ Fit(MovedFrom(reg))
    BY <1>1, ForgetSound, MovedFromSound DEF Fit
  <2> QED BY <1>18, <2>1 DEF moveTo, Excluded, ChangeKept
<1>19. CASE moveFrom
  <2>1. Fit(Forget(other)) /\ Fit(MovedFrom(other))
    BY <1>1, ForgetSound, MovedFromSound DEF Fit
  <2> QED BY <1>19, <2>1 DEF moveFrom, Excluded, ChangeKept
<1> QED BY <1>3, <1>4, <1>5, <1>6, <1>7, <1>8, <1>9, <1>10, <1>11, <1>12, <1>13, <1>14,
           <1>15, <1>16, <1>17, <1>18, <1>19 DEF Change

LEMMA ReadKeeps ==
  ASSUME RegistryInv, NEW t \in Reader, Read(t)
  PROVE  RegistryInv' /\ calls' = calls
<1>1. Fit(reg) /\ Fit(other) /\ Sound(reg) /\ MemoCurrent(reg) /\ DOMAIN reader = Reader
      /\ \A u \in Reader : reader[u].at = "reads" =>
           \E m \in reg.memo : reader[u].table = m.table
  BY DEF RegistryInv, ReadersRefer, Fit
<1>2. CASE LoadPublished(t)
  <2>1. reg' = reg /\ other' = other /\ calls' = calls
    BY <1>2 DEF LoadPublished
  <2>2. CASE reader' = [reader EXCEPT ![t] = [at |-> "missed"]]
    BY <1>1, <2>1, <2>2 DEF RegistryInv, ReadersRefer
  <2>3. ASSUME NEW m \in reg.memo,
               reader' = [reader EXCEPT ![t] = [at |-> "reads", table |-> m.table]]
        PROVE  ReadersRefer'
    BY <1>1, <2>1, <2>3 DEF ReadersRefer
  <2> QED BY <1>1, <1>2, <2>1, <2>2, <2>3 DEF LoadPublished, RegistryInv
<1>3. CASE FillLocked(t)
  <2>1. other' = other /\ calls' = calls
    BY <1>3 DEF FillLocked
  <2>2. PICK m \in reg'.memo :
          reader' = [reader EXCEPT ![t] = [at |-> "reads", table |-> m.table]]
    BY <1>3 DEF FillLocked
  <2>3. CASE reg' = reg
    <3>1. ReadersRefer'
      BY <1>1, <2>2, <2>3 DEF ReadersRefer
    <3> QED BY <1>1, <2>1, <2>3, <3>1 DEF RegistryInv
  <2>4. CASE reg.memo = {} /\ reg' # reg
    <3> DEFINE x == [table |-> tables + 1, mask |-> reg.mask, spaces |-> BaseSpaces(reg)]
    <3>1. reg' = [reg EXCEPT !.memo = {x}]
      BY <1>3, <2>4 DEF FillLocked
    <3>2. x.mask = reg.mask /\ x.spaces = BaseSpaces(reg)
      OBVIOUS
    <3> HIDE DEF x
    <3>3. Fit(reg')
      BY <1>1, <3>1, <3>2, SpacesFilled DEF Fit
    <3>4. \A u \in Reader : reader[u].at # "reads"
      BY <1>1, <2>4
    <3>5. ReadersRefer'
      BY <1>1, <2>2, <3>4 DEF ReadersRefer
    <3> QED BY <1>1, <2>1, <3>3, <3>5 DEF RegistryInv
  <2> QED BY <1>3, <2>3, <2>4 DEF FillLocked
<1>4. CASE FillTypes(t)
  <2>1. other' = other /\ calls' = calls /\ reader' = reader
    BY <1>4 DEF FillTypes
  <2>2. reg' = [reg EXCEPT !.types = {BaseTypes(reg)}]
    BY <1>4 DEF FillTypes
  <2>3. Fit(reg') /\ reg'.memo = reg.memo
    BY <1>1, <2>2, TypesFilled DEF Fit
  <2> QED BY <1>1, <2>1, <2>3 DEF RegistryInv, ReadersRefer
<1>5. CASE Drop(t)
  BY <1>1, <1>5 DEF Drop, RegistryInv, ReadersRefer
<1> QED BY <1>2, <1>3, <1>4, <1>5 DEF Read

LEMMA RegistryInvariant == RegistrySpec => []RegistryInv
<1>1. RegistryInv /\ [RegistryNext]_registryVars => RegistryInv'
  <2> SUFFICES ASSUME RegistryInv, [RegistryNext]_registryVars
               PROVE  RegistryInv'
    OBVIOUS
  <2>1. CASE Change
    <3>1. ChangeKept
      BY <2>1, ChangeKeeps
    <3>2. ReadersRefer'
      BY <3>1 DEF ChangeKept, RegistryInv, ReadersRefer
    <3> QED BY <3>1, <3>2 DEF ChangeKept, RegistryInv
  <2>2. CASE \E t \in Reader : Read(t)
    BY <2>2, ReadKeeps
  <2>3. CASE UNCHANGED registryVars
    BY <2>3 DEF RegistryInv, ReadersRefer, registryVars
  <2> QED BY <2>1, <2>2, <2>3 DEF RegistryNext
<1> QED BY <1>1, RegistryInitKept, PTL DEF RegistrySpec

-----------------------------------------------------------------------------
(* The theorems.                                                            *)

\* Whatever a program registers, renames, copies, moves and removes, a basis
\* that follows another has what that has, also after the space of the one
\* followed changes, and every named basis is of a registered space, has its
\* present metadata and is the one name of its instance (follow(), extent(),
\* field(), remove() and the copies that named bases hold of their space).
THEOREM EntriesCorrect == RegistrySpec => []EntriesConsistent
<1>1. RegistryInv => EntriesConsistent
  BY DEF RegistryInv, Fit, Sound, EntriesConsistent
<1> QED BY <1>1, RegistryInvariant, PTL

\* The memoized base spaces and types are those of the table at every moment,
\* in a registry and in one copied or moved to or from, and readers without the
\* lock hold the vector the registry owns (base_spaces(), base_space_types()).
THEOREM BaseSpacesCorrect == RegistrySpec => []BaseSpacesCurrent
<1>1. RegistryInv => BaseSpacesCurrent
  BY DEF RegistryInv, Fit, ReadersRefer, BaseSpacesCurrent
<1> QED BY <1>1, RegistryInvariant, PTL

\* A call that throws leaves both registries as they were: in particular, a
\* registration of a named basis whose follow() throws after the entry was made
\* is undone without a trace (add(label, space, instance, spec)).
THEOREM FailureCorrect == RegistrySpec => FailureChangesNothing
<1>1. RegistryInv /\ [RegistryNext]_registryVars
        => [calls' # calls /\ outcome' = "threw" => Contents' = Contents]_registryVars
  <2> SUFFICES ASSUME RegistryInv, RegistryNext, calls' # calls, outcome' = "threw"
               PROVE  Contents' = Contents
    OBVIOUS
  <2>1. CASE Change
    <3>1. Forget(reg') = Forget(reg) /\ other' = other
      BY <2>1, ChangeKeeps DEF ChangeKept
    <3> QED BY <3>1 DEF Contents
  <2>2. CASE \E t \in Reader : Read(t)
    BY <2>2, ReadKeeps
  <2> QED BY <2>1, <2>2 DEF RegistryNext
<1> QED BY <1>1, RegistryInvariant, PTL DEF RegistrySpec, FailureChangesNothing

-----------------------------------------------------------------------------
(* Integers of bits.                                                        *)

LEMMA Powers ==
  /\ Power \in [TypeBits -> Nat]
  /\ \A b \in TypeBits : Power[b] >= 1
  /\ \A b \in TypeBits : b + 1 \in TypeBits => Power[b + 1] = 2 * Power[b]
<1> DEFINE P == [b \in 0 .. 30 |-> 2 ^ b]
<1>1. P = Power
  BY DEF Power, TypeBits
<1>2. /\ DOMAIN P = 0 .. 30 /\ P = [b \in 0 .. 30 |-> P[b]]
      /\ P[0] = 1 /\ P[1] = 2 /\ P[2] = 4 /\ P[3] = 8 /\ P[4] = 16 /\ P[5] = 32
      /\ P[6] = 64 /\ P[7] = 128 /\ P[8] = 256 /\ P[9] = 512 /\ P[10] = 1024
      /\ P[11] = 2048 /\ P[12] = 4096 /\ P[13] = 8192 /\ P[14] = 16384
      /\ P[15] = 32768 /\ P[16] = 65536 /\ P[17] = 131072 /\ P[18] = 262144
      /\ P[19] = 524288 /\ P[20] = 1048576 /\ P[21] = 2097152 /\ P[22] = 4194304
      /\ P[23] = 8388608 /\ P[24] = 16777216 /\ P[25] = 33554432
      /\ P[26] = 67108864 /\ P[27] = 134217728 /\ P[28] = 268435456
      /\ P[29] = 536870912 /\ P[30] = 1073741824
  OBVIOUS
<1> HIDE DEF P
<1>3. \A b \in 0 .. 30 : P[b] \in Nat /\ P[b] >= 1
  BY <1>2
<1>4. \A b \in 0 .. 30 : b + 1 \in 0 .. 30 => P[b + 1] = 2 * P[b]
  BY <1>2
<1> QED BY <1>1, <1>2, <1>3, <1>4 DEF TypeBits

LEMMA IntegerIsSum == \A bits : Integer(bits) = SumOver(Power, bits)
BY DEF Integer, SumOver

LEMMA BitsFinite == IsFiniteSet(TypeBits)
<1>1. \A a, b \in Int : IsFiniteSet(a .. b)
  BY FS_Interval
<1> DEFINE n == 30
<1>2. 0 \in Int /\ n \in Int /\ TypeBits = 0 .. n
  BY DEF TypeBits
<1> HIDE DEF n
<1> QED BY <1>1, <1>2

(* The integer of bits is less than that of any bit above them. *)
LEMMA LowBits ==
  \A c \in TypeBits : \A B \in SUBSET (0 .. c - 1) : Integer(B) < Power[c]
<1> DEFINE Large(C, c) == \E B \in SUBSET C : ~(SumOver(Power, B) < Power[c])
           Bad == {C \in SUBSET TypeBits : \E c \in TypeBits : C = 0 .. c - 1 /\ Large(C, c)}
<1>1. SUFFICES ASSUME Bad # {} PROVE FALSE
  <2> SUFFICES ASSUME NEW c \in TypeBits, NEW B \in SUBSET (0 .. c - 1),
                      ~(Integer(B) < Power[c])
               PROVE  0 .. c - 1 \in Bad
    OBVIOUS
  <2>1. 0 .. c - 1 \in SUBSET TypeBits
    BY DEF TypeBits
  <2>2. Large(0 .. c - 1, c)
    BY IntegerIsSum
  <2> HIDE DEF Large
  <2> QED BY <2>1, <2>2
<1>2. PICK C \in Bad : \A U \in Bad : U \subseteq C => U = C
  <2>1. Bad \subseteq SUBSET TypeBits
    OBVIOUS
  <2> HIDE DEF Bad
  <2> QED BY <1>1, <2>1, BitsFinite, SmallestSubset
<1>3. PICK c \in TypeBits : C = 0 .. c - 1 /\ Large(C, c)
  BY <1>2
<1>4. PICK B \in SUBSET C : ~(SumOver(Power, B) < Power[c])
  BY <1>3
<1>5. B \in SUBSET TypeBits /\ Power \in [TypeBits -> Int]
  BY <1>2, Powers
<1>6. SumOver(Power, B) \in Int /\ SumOver(Power, {}) = 0
  BY <1>5, BitsFinite, SumType, SumStep
<1>7. c \in Nat /\ Power[c] \in Nat /\ Power[c] >= 1
  BY Powers DEF TypeBits
<1>8. c # 0
  <2> SUFFICES ASSUME c = 0 PROVE FALSE
    OBVIOUS
  <2>1. B = {}
    BY <1>3
  <2> HIDE DEF Bad, Large
  <2> QED BY <1>4, <1>6, <1>7, <2>1
<1> DEFINE d == c - 1
           D == 0 .. d - 1
<1>9. d \in TypeBits /\ d + 1 = c /\ C = D \cup {d} /\ D # C /\ D \in SUBSET TypeBits
  BY <1>3, <1>7, <1>8 DEF TypeBits
<1>10. ~Large(D, d)
  <2> HIDE DEF Large
  <2>1. D \notin Bad
    <3> HIDE DEF D, Bad
    <3> QED BY <1>2, <1>9
  <2> QED BY <1>9, <2>1
<1>11. B \ {d} \in SUBSET D
  BY <1>9
<1>12. SumOver(Power, B \ {d}) < Power[d]
  <2> HIDE DEF D, d, Bad
  <2> QED BY <1>10, <1>11
<1>13. Power[c] = 2 * Power[d] /\ Power[d] \in Nat
  <2> HIDE DEF d, D
  <2> QED BY <1>9, Powers
<1>14. CASE d \in B
  <2>1. SumOver(Power, B) = Power[d] + SumOver(Power, B \ {d})
    <3> HIDE DEF d, D
    <3> QED BY <1>5, <1>14, BitsFinite, SumRemove
  <2>2. SumOver(Power, B \ {d}) \in Int
    BY <1>5, BitsFinite, SumType
  <2> HIDE DEF d, D, Bad, Large
  <2> QED BY <1>4, <1>6, <1>12, <1>13, <2>1, <2>2
<1>15. CASE d \notin B
  <2>1. B \ {d} = B
    BY <1>15
  <2> HIDE DEF d, D, Bad, Large
  <2> QED BY <1>4, <1>6, <1>12, <1>13, <2>1
<1> QED BY <1>14, <1>15

(* So when the bits of A that are not in O are above all of O, the integers *)
(* compare as the sets do.                                                  *)
LEMMA IntegersCompare ==
  ASSUME NEW A, NEW O, A \subseteq TypeBits, O \subseteq TypeBits,
         \A b \in O : \A c \in A \ O : b < c
  PROVE  Integer(A) <= Integer(O) <=> A \subseteq O
<1>1. /\ Power \in [TypeBits -> Nat] /\ Power \in [TypeBits -> Int]
      /\ IsFiniteSet(TypeBits)
  BY Powers, BitsFinite
<1>2. SumOver(Power, A) \in Int /\ SumOver(Power, O) \in Int
  BY <1>1, SumType
<1>3. ASSUME A \subseteq O PROVE SumOver(Power, A) <= SumOver(Power, O)
  BY <1>1, <1>3, SumMonotone
<1>4. ASSUME NEW c \in A, c \notin O PROVE ~(SumOver(Power, A) <= SumOver(Power, O))
  <2>1. c \in TypeBits /\ {c} \in SUBSET TypeBits /\ {c} \in SUBSET A
    BY <1>4
  <2>2. O \in SUBSET (0 .. c - 1)
    BY <1>4 DEF TypeBits
  <2>3. SumOver(Power, O) < Power[c]
    BY <2>1, <2>2, LowBits, IntegerIsSum
  <2>4. SumOver(Power, {c}) = Power[c]
    <3>1. c \in {c} /\ {c} \ {c} = {} /\ {} \in SUBSET TypeBits
      OBVIOUS
    <3>2. SumOver(Power, {c}) = Power[c] + SumOver(Power, {c} \ {c})
      BY <1>1, <2>1, <3>1, SumRemove
    <3>3. SumOver(Power, {}) = 0
      BY <1>1, <3>1, SumStep
    <3>4. Power[c] \in Int
      BY <1>1, <2>1
    <3> QED BY <3>1, <3>2, <3>3, <3>4
  <2>5. SumOver(Power, {c}) <= SumOver(Power, A)
    BY <1>1, <2>1, SumMonotone
  <2>6. Power[c] \in Int
    BY <1>1, <2>1
  <2> QED BY <1>2, <2>3, <2>4, <2>5, <2>6
<1>5. SumOver(Power, A) <= SumOver(Power, O) <=> A \subseteq O
  BY <1>3, <1>4
<1> QED BY <1>5, IntegerIsSum

LEMMA OccupiedBits ==
  ASSUME NEW r, Sound(r)
  PROVE  /\ \A s \in Spaces(r) : s.type \subseteq TypeBits
         /\ \A q : VacuumOccupied(r, q) \subseteq TypeBits
<1>1. \A l \in DOMAIN r.bases : r.bases[l].space.type \subseteq TypeBits
  BY DEF Sound, IsRegistry, IsEntry, IsSpaceValue
<1>2. \A type, q : At(r, <<type, q>>) # {} => type \subseteq TypeBits
  BY <1>1 DEF At, Attr
<1>3. \A q : VacuumOccupied(r, q) \subseteq TypeBits
  BY <1>2 DEF VacuumOccupied, TypeOrNull
<1> QED BY <1>1, <1>3 DEF Spaces

(* The lookups of a role agree in any registry whatever.                    *)
LEMMA RolesAgree ==
  ASSUME NEW r, NEW role, NEW q
  PROVE  TypeOrNull(r, role, q) = UNION {u.type : u \in RoleSpace(r, role, q)}
<1> DEFINE type == IF q \in DOMAIN r.roleAt[role] THEN r.roleAt[role][q] ELSE r.role[role]
           found == At(r, <<type, q>>)
<1>1. \A u \in found : u.type = type
  BY DEF At, Attr
<1>2. TypeOrNull(r, role, q) = IF found = {} THEN {} ELSE type
  BY DEF TypeOrNull
<1>3. RoleSpace(r, role, q) = found \/ (type = {} /\ RoleSpace(r, role, q) = {})
  BY DEF RoleSpace
<1> HIDE DEF type, found
<1>4. UNION {u.type : u \in found} = IF found = {} THEN {} ELSE type
  BY <1>1
<1>5. CASE RoleSpace(r, role, q) = found
  BY <1>2, <1>4, <1>5
<1>6. CASE type = {} /\ RoleSpace(r, role, q) = {}
  BY <1>2, <1>6
<1> QED BY <1>3, <1>5, <1>6

LEMMA Occupancy ==
  ASSUME NEW r, Sound(r), NEW s \in Spaces(r), ~SameSpace(s, NullSpace),
         NEW O, O = VacuumOccupied(r, Physical(r, s.qns)),
         NEW C, C = TypeOrNull(r, "complete", Physical(r, s.qns)),
         s.type \subseteq C, O \subseteq C, \A b \in O : \A c \in C \ O : b < c
  PROVE  /\ IsPureOccupied(r, s) <=> ~ContainsUnoccupied(r, s)
         /\ IsPureUnoccupied(r, s) <=> ~ContainsOccupied(r, s)
<1>1. s.type \subseteq TypeBits /\ O \subseteq TypeBits
  BY OccupiedBits
<1>2. Integer(s.type) <= Integer(O) <=> s.type \subseteq O
  <2> DEFINE A == s.type
  <2>1. A \subseteq TypeBits /\ \A b \in O : \A c \in A \ O : b < c
    BY <1>1
  <2> HIDE DEF A
  <2>2. Integer(A) <= Integer(O) <=> A \subseteq O
    BY <1>1, <2>1, IntegersCompare
  <2> QED BY <2>2 DEF A
<1>3. IsPureOccupied(r, s) <=> s.type \subseteq O
  BY <1>2 DEF IsPureOccupied
<1>4. ContainsUnoccupied(r, s) <=> s.type \cap (C \ O) # {}
  BY DEF ContainsUnoccupied, VacuumUnoccupied
<1>5. IsPureOccupied(r, s) <=> ~ContainsUnoccupied(r, s)
  BY <1>3, <1>4
<1>6. IsPureUnoccupied(r, s) <=> ~ContainsOccupied(r, s)
  BY DEF IsPureUnoccupied, ContainsOccupied
<1> QED BY <1>5, <1>6

\* The unions and intersections that a registry finds of two of its spaces are
\* the bounds of the two among types, in either order, and its queries whether
\* they are registered tell when the lookup throws (unIon(), intersection(),
\* valid_unIon(), valid_intersection()): no two spaces share their attributes.
THEOREM BoundsCorrect == RegistrySpec => []BoundsAgree
<1>1. ASSUME NEW r, SpacesDiffer(r), NEW s \in Spaces(r), NEW u \in Spaces(r),
             s.qns = u.qns, s # u
      PROVE  /\ \A w \in Union(r, s, u) : w.type = s.type \cup u.type /\ w.qns = s.qns
             /\ Union(r, s, u) = Union(r, u, s)
             /\ ValidUnion(r, s, u) => Union(r, s, u) # {}
             /\ \A w \in Intersection(r, s, u) : w.type = s.type \cap u.type
             /\ Intersection(r, s, u) = Intersection(r, u, s)
             /\ s.type \cap u.type # {} =>
                  (ValidIntersection(r, s, u) <=> Intersection(r, s, u) # {})
  <2> DEFINE above == At(r, <<s.type \cup u.type, s.qns>>)
             below == At(r, <<s.type \cap u.type, s.qns>>)
  <2>1. ~SameSpace(s, u) /\ ~SameSpace(u, s)
    BY <1>1 DEF SameSpace, Spaces, SpacesDiffer, IsSpace
  <2>2. s \in At(r, Attr(s)) /\ u \in At(r, Attr(u))
    BY <1>1 DEF At, Spaces, IsSpace
  <2>3. /\ \A w \in above : w.type = s.type \cup u.type /\ w.qns = s.qns
        /\ \A w \in below : w.type = s.type \cap u.type
    BY DEF At, Attr
  <2>4. Union(r, s, u) = above \ {NullSpace}
    BY <1>1, <2>1, <2>2 DEF Union
  <2>5. Union(r, u, s) = above \ {NullSpace}
    <3>1. <<u.type \cup s.type, u.qns>> = <<s.type \cup u.type, s.qns>>
      BY <1>1
    <3> QED BY <1>1, <2>1, <2>2, <3>1 DEF Union
  <2>6. NullSpace.type = {}
    BY DEF NullSpace, Space
  <2>7. ValidUnion(r, s, u) => ~(u.type \subseteq s.type) /\ above # {}
    BY <1>1 DEF ValidUnion
  <2>8. ValidUnion(r, s, u) => Union(r, s, u) # {}
    BY <2>3, <2>4, <2>6, <2>7
  <2>9. Intersection(r, s, u) = IF below # {} THEN below
                                ELSE IF s.type \cap u.type = {} THEN {NullSpace} ELSE {}
    BY <1>1, <2>1 DEF Intersection
  <2>10. Intersection(r, u, s) = IF below # {} THEN below
                                 ELSE IF s.type \cap u.type = {} THEN {NullSpace} ELSE {}
    <3>1. u.type \cap s.type = s.type \cap u.type
      OBVIOUS
    <3> QED BY <1>1, <2>1, <3>1 DEF Intersection
  <2>11. \A w \in Intersection(r, s, u) : w.type = s.type \cap u.type
    BY <2>3, <2>6, <2>9
  <2>12. ValidIntersection(r, s, u) <=> s.type \cap u.type # {} /\ below # {}
    <3>1. s.qns \cap u.qns = s.qns
      BY <1>1
    <3> QED BY <3>1 DEF ValidIntersection
  <2> HIDE DEF above, below
  <2>13. \A w \in Union(r, s, u) : w.type = s.type \cup u.type /\ w.qns = s.qns
    BY <2>3, <2>4
  <2>14. s.type \cap u.type # {} =>
           (ValidIntersection(r, s, u) <=> Intersection(r, s, u) # {})
    BY <2>9, <2>12
  <2> QED BY <2>4, <2>5, <2>8, <2>9, <2>10, <2>11, <2>13, <2>14
<1>2. RegistryInv => BoundsAgree
  <2> SUFFICES ASSUME RegistryInv
               PROVE  BoundsAgree
    OBVIOUS
  <2>1. SpacesDiffer(reg)
    BY DEF RegistryInv, Fit, Sound
  <2> QED BY <1>1, <2>1 DEF BoundsAgree
<1> QED BY <1>2, RegistryInvariant, PTL

\* The queries about the occupancy of a space agree with each other, in every
\* registry that calls lead to: comparing integers tells whether a space is
\* purely occupied where occupied bits are the low ones (is_pure_occupied(),
\* contains_unoccupied()), a role is found by the lookup that throws where the
\* other finds it; and so do the bounds (unIon(), intersection()).
THEOREM AlgebraCorrect == RegistrySpec => []AlgebraOfSpaces
<1>1. RegistryInv => OccupancyAgrees
  <2> SUFFICES ASSUME RegistryInv
               PROVE  OccupancyAgrees
    OBVIOUS
  <2>1. Sound(reg)
    BY DEF RegistryInv, Fit
  <2>2. ASSUME NEW s \in {u \in Spaces(reg) : ~SameSpace(u, NullSpace)},
               s.type \subseteq TypeOrNull(reg, "complete", Physical(reg, s.qns)),
               VacuumOccupied(reg, Physical(reg, s.qns))
                 \subseteq TypeOrNull(reg, "complete", Physical(reg, s.qns)),
               \A b \in VacuumOccupied(reg, Physical(reg, s.qns)),
                  c \in TypeOrNull(reg, "complete", Physical(reg, s.qns))
                         \ VacuumOccupied(reg, Physical(reg, s.qns)) : b < c
        PROVE  /\ IsPureOccupied(reg, s) <=> ~ContainsUnoccupied(reg, s)
               /\ IsPureUnoccupied(reg, s) <=> ~ContainsOccupied(reg, s)
    <3> DEFINE O == VacuumOccupied(reg, Physical(reg, s.qns))
               C == TypeOrNull(reg, "complete", Physical(reg, s.qns))
    <3>1. \A b \in O : \A c \in C \ O : b < c
      BY <2>2
    <3>2. O = VacuumOccupied(reg, Physical(reg, s.qns))
          /\ C = TypeOrNull(reg, "complete", Physical(reg, s.qns))
          /\ s.type \subseteq C /\ O \subseteq C
          /\ s \in Spaces(reg) /\ ~SameSpace(s, NullSpace)
      BY <2>2
    <3> HIDE DEF O, C
    <3> QED BY <2>1, <3>1, <3>2, Occupancy
  <2>3. \A role \in Role, s \in Offered :
          TypeOrNull(reg, role, s.qns) = UNION {u.type : u \in RoleSpace(reg, role, s.qns)}
    BY RolesAgree
  <2> QED BY <2>2, <2>3 DEF OccupancyAgrees
<1>2. RegistrySpec => []OccupancyAgrees
  BY <1>1, RegistryInvariant, PTL
<1>3. OccupancyAgrees /\ BoundsAgree => AlgebraOfSpaces
  BY DEF AlgebraOfSpaces
<1> QED BY <1>2, <1>3, BoundsCorrect, PTL
=============================================================================
