------------------------- MODULE IndexBasisRegistry -------------------------
(***************************************************************************)
(* The registries of index spaces and of the named bases of them            *)
(* (core/index_basis_registry.hpp).  A registry is a value: its table, who  *)
(* follows whom, the roles of its spaces and what it has memoized.  Every   *)
(* operation is an operator from a registry to the registry it leaves and   *)
(* to whether it returned or threw.  A type and a set of quantum numbers    *)
(* are the sets of their bits, a label of an index is its base key, and an  *)
(* optional value is a set of at most one element.                          *)
(***************************************************************************)
EXTENDS Integers, FiniteSets, FiniteSetsExt, Functions

CONSTANTS Label,       \* the labels an entry may be asked under
          ValidLabel,  \* those that is_base_key accepts
          NullLabel,   \* the label of IndexSpace::null
          NewLabel,    \* the labels that a program gives to new entries
          Reader,      \* the threads that read the base spaces
          Offered,     \* the spaces a program registers
          Instances, Extents, Fields, Metrics,  \* what it gives to bases
          Masks,       \* the masks of physical attributes it sets
          Starts,      \* the registries it starts from, as earlier calls left them
          MaxCalls,    \* bound: calls that change a registry
          MaxTables    \* bound: vectors of base spaces made before the last miss

ASSUME RegistryAssumption == NewLabel \subseteq Label /\ NullLabel \notin ValidLabel

\* the optional values of a set, and what such a value is when it is absent
Optional(S) == {{}} \cup {{x} : x \in S}
ValueOr(optional, x) == IF optional = {} THEN x ELSE CHOOSE y \in optional : TRUE

\* a map with one more key, or another value of it
WithKey(map, key, value) ==
  [x \in DOMAIN map \cup {key} |-> IF x = key THEN value ELSE map[x]]

Role == {"vacuum occupied", "reference occupied", "complete", "hole", "particle"}

VARIABLES
  reg,      \* a registry
  other,    \* another, that it is copied and moved to and from
  reader,   \* thread -> where it is in base_spaces(), or what that returned
  tables,   \* the number of vectors of base spaces made: names the last one
  calls,    \* the calls so far
  outcome   \* history: how the last of them ended

registryVars == <<reg, other, reader, tables, calls, outcome>>

-----------------------------------------------------------------------------
(* Spaces and entries.                                                      *)

\* the bits of a type, whose most significant one is reserved
TypeBits == 0 .. 30

Space(label, type, qns, dimension, field) ==
  [label |-> label, type |-> type, qns |-> qns,
   dimension |-> dimension, field |-> field]
NullSpace == Space(NullLabel, {}, {}, 0, "complex")

Attr(s) == <<s.type, s.qns>>
\* equality of spaces, which their metadata does not enter
SameSpace(s, u) == Attr(s) = Attr(u) /\ s.label = u.label

Entry(s, instance, extent, metric, field) ==
  [space |-> s, instance |-> instance, extent |-> extent, metric |-> metric,
   field |-> field]
SpaceEntry(s) == Entry(s, {}, {}, "unit", {})

\* what a basis has of its own, else what its copy of the space has
ExtentOf(e) == ValueOr(e.extent, e.space.dimension)
FieldOf(e) == ValueOr(e.field, e.space.field)

IsSpace(r, l) == l \in DOMAIN r.bases /\ r.bases[l].instance = {}
IsNamed(r, l) == l \in DOMAIN r.bases /\ r.bases[l].instance # {}
Spaces(r) == {r.bases[l].space : l \in {x \in DOMAIN r.bases : IsSpace(r, x)}}
At(r, attr) ==
  {r.bases[l].space : l \in {x \in DOMAIN r.bases :
     r.bases[x].instance = {} /\ Attr(r.bases[x].space) = attr}}

\* the names of a space's instance: none while no instance is named
NamesOf(r, s, instance) ==
  IF r.named = 0 THEN {}
  ELSE {l \in DOMAIN r.bases : /\ IsNamed(r, l)
                               /\ SameSpace(r.bases[l].space, s)
                               /\ r.bases[l].instance = instance}

\* a table without what a registry derives from it
Registry(bases, named) ==
  [bases |-> bases, named |-> named, follows |-> <<>>, mask |-> {},
   role |-> [x \in Role |-> {}], roleAt |-> [x \in Role |-> <<>>],
   memo |-> {}, types |-> {}]

Default == Registry([l \in {NullLabel} |-> SpaceEntry(NullSpace)], 0)
\* the constructor that takes a table
FromTable(bases) ==
  Registry(bases, Cardinality({l \in DOMAIN bases : bases[l].instance # {}}))

-----------------------------------------------------------------------------
(* How calls end.                                                           *)

Forget(r) == [r EXCEPT !.memo = {}, !.types = {}]
Returned(r) == [reg |-> Forget(r), ok |-> TRUE]
Threw(r) == [reg |-> r, ok |-> FALSE]

-----------------------------------------------------------------------------
(* Base spaces.                                                             *)

IsBaseType(type) == Cardinality(type) = 1
IsBase(r, s) == IsBaseType(s.type) /\ s.qns \subseteq r.mask
BaseSpaces(r) == {s \in Spaces(r) : IsBase(r, s)}
BaseTypes(r) == {s.type : s \in {u \in Spaces(r) : IsBaseType(u.type)}}

-----------------------------------------------------------------------------
(* Metadata, and the entries that mirror it.                                *)

Refreshed(r) ==
  [r EXCEPT !.bases = [l \in DOMAIN @ |->
     IF l \notin DOMAIN r.follows THEN @[l]
     ELSE LET source == r.bases[r.follows[l]]
          IN [@[l] EXCEPT !.extent = {ExtentOf(source)}, !.metric = source.metric,
                          !.field = {FieldOf(source)}]]]

\* Mutant: only the entry of the space is written.
EntryOnly(r, l) == {l}
\* a space's own entry and the copies of it that its named bases hold
CopiesOf(r, l) ==
  {l} \cup {x \in DOMAIN r.bases : /\ IsNamed(r, x)
                                   /\ SameSpace(r.bases[x].space, r.bases[l].space)}

SetExtent(r, l, n) ==
  IF l \notin DOMAIN r.bases \/ l \in DOMAIN r.follows THEN Threw(r)
  ELSE IF IsNamed(r, l) THEN Returned(Refreshed([r EXCEPT !.bases[l].extent = {n}]))
  ELSE Returned(Refreshed([r EXCEPT !.bases = [x \in DOMAIN @ |->
         IF x \in CopiesOf(r, l) THEN [@[x] EXCEPT !.space.dimension = n] ELSE @[x]]]))

SetField(r, l, f) ==
  IF l \notin DOMAIN r.bases \/ l \in DOMAIN r.follows THEN Threw(r)
  ELSE IF IsNamed(r, l) THEN Returned(Refreshed([r EXCEPT !.bases[l].field = {f}]))
  ELSE Returned(Refreshed([r EXCEPT !.bases = [x \in DOMAIN @ |->
         IF x \in CopiesOf(r, l) THEN [@[x] EXCEPT !.space.field = f] ELSE @[x]]]))

SetMetric(r, l, m) ==
  IF ~IsNamed(r, l) \/ l \in DOMAIN r.follows THEN Threw(r)
  ELSE Returned(Refreshed([r EXCEPT !.bases[l].metric = m]))

Follow(r, l, source) ==
  IF \/ ~IsNamed(r, l) \/ ~IsNamed(r, source)
     \/ l = source
     \/ source \in DOMAIN r.follows
     \/ l \in Range(r.follows)
  THEN Threw(r)
  ELSE Returned(Refreshed([r EXCEPT !.follows = WithKey(@, l, source)]))

-----------------------------------------------------------------------------
(* Entries that come and go.                                                *)

AddSpace(r, s) ==
  IF \/ ~SameSpace(s, NullSpace) /\ s.label \notin ValidLabel
     \/ s.label \in DOMAIN r.bases
     \/ At(r, Attr(s)) # {}
  THEN Threw(r)
  ELSE Returned([r EXCEPT !.bases = WithKey(@, s.label, SpaceEntry(s))])

\* the default of a role
SetRole(r, role, type) ==
  IF \A s \in Spaces(r) : s.type # type THEN Threw(r)
  ELSE [reg |-> [r EXCEPT !.role[role] = type], ok |-> TRUE]
\* its types at some quantum numbers
SetRoleAt(r, role, typeAt) ==
  IF typeAt = <<>> \/ \E q \in DOMAIN typeAt : At(r, <<typeAt[q], q>>) = {} THEN Threw(r)
  ELSE [reg |-> [r EXCEPT !.roleAt[role] = typeAt], ok |-> TRUE]

\* add(label, type, spec): the space of a spec has the roles it asks for
AddWithRoles(r, s, roles) ==
  LET added == AddSpace(r, s)
  IN IF ~added.ok THEN added
     ELSE Returned([added.reg EXCEPT
            !.role = [x \in Role |-> IF x \in roles THEN s.type ELSE @[x]]])

\* Mutant: the followers of an entry that goes keep following it.
RemoveNamedKeepFollowers(r, l) ==
  Returned([r EXCEPT !.bases = [x \in DOMAIN @ \ {l} |-> @[x]],
                     !.named = @ - 1,
                     !.follows = [x \in DOMAIN @ \ {l} |-> @[x]]])
RemoveNamed(r, l) ==
  Returned([r EXCEPT !.bases = [x \in DOMAIN @ \ {l} |-> @[x]],
                     !.named = @ - 1,
                     !.follows = [x \in {y \in DOMAIN @ \ {l} : @[y] # l} |-> @[x]]])

\* remove(space): of an absent key and of a basis's, nothing happens
RemoveSpace(r, l) ==
  IF ~IsSpace(r, l) THEN Returned(r)
  ELSE IF CopiesOf(r, l) # {l} THEN Threw(r)
  ELSE Returned([r EXCEPT !.bases = [x \in DOMAIN @ \ {l} |-> @[x]]])

RemoveLabel(r, l) ==
  IF l \notin DOMAIN r.bases THEN Threw(r)
  ELSE IF IsNamed(r, l) THEN RemoveNamed(r, l) ELSE RemoveSpace(r, l)

Replace(r, s) ==
  LET removed == RemoveSpace(r, s.label)
  IN IF removed.ok THEN AddSpace(removed.reg, s) ELSE removed

\* the tail of the registrations of a named basis
EmplaceNamed(r, l, s, instance, extent, metric, field) ==
  IF \/ l \notin ValidLabel \/ l \in DOMAIN r.bases
     \/ ~\E u \in At(r, Attr(s)) : SameSpace(u, s)
     \/ NamesOf(r, s, instance) # {}
  THEN Threw(r)
  ELSE LET registered == CHOOSE u \in At(r, Attr(s)) : TRUE
       IN Returned([r EXCEPT
            !.bases = WithKey(@, l, Entry(registered, instance, extent, metric, field)),
            !.named = @ + 1])

\* Mutant: a registration whose follow() fails stays.
AddNamedKept(r, l, s, instance, extent, metric, field, source) ==
  LET added == EmplaceNamed(r, l, s, instance, extent, metric, field)
  IN IF ~added.ok \/ source = {} THEN added
     ELSE Follow(added.reg, l, CHOOSE x \in source : TRUE)
\* add(label, space, instance, spec), where the spec names an entry to follow
\* or carries metadata, never both; follow() failing undoes the registration
AddNamed(r, l, s, instance, extent, metric, field, source) ==
  IF source # {} /\ (extent # {} \/ metric # "unit" \/ field # {})
  THEN Threw(r)
  ELSE LET added == EmplaceNamed(r, l, s, instance, extent, metric, field)
           following == Follow(added.reg, l, CHOOSE x \in source : TRUE)
       IN IF ~added.ok \/ source = {} THEN added
          ELSE IF following.ok THEN following
          ELSE [reg |-> RemoveNamed(added.reg, l).reg, ok |-> FALSE]

-----------------------------------------------------------------------------
(* What every registry keeps to.                                            *)

IsFunction(f) == f = [x \in DOMAIN f |-> f[x]]
IsSpaceValue(s) ==
  /\ s = Space(s.label, s.type, s.qns, s.dimension, s.field)
  /\ s.type \subseteq TypeBits
IsEntry(e) ==
  /\ e = Entry(e.space, e.instance, e.extent, e.metric, e.field)
  /\ IsSpaceValue(e.space)
IsRegistry(r) ==
  /\ r = [bases |-> r.bases, named |-> r.named, follows |-> r.follows, mask |-> r.mask,
           role |-> r.role, roleAt |-> r.roleAt, memo |-> r.memo, types |-> r.types]
  /\ IsFunction(r.bases) /\ IsFiniteSet(DOMAIN r.bases)
  /\ IsFunction(r.follows)
  /\ \A l \in DOMAIN r.bases : IsEntry(r.bases[l])

\* no two registered spaces have the same type and quantum numbers
SpacesDiffer(r) ==
  \A k, l \in DOMAIN r.bases :
    /\ IsSpace(r, k) /\ IsSpace(r, l)
    /\ Attr(r.bases[k].space) = Attr(r.bases[l].space)
    => k = l

\* each named basis is of a registered space, with its present metadata, and
\* is the one name of its instance
NamedAgree(r) ==
  \A l \in {y \in DOMAIN r.bases : IsNamed(r, y)} :
    /\ r.bases[l].space \in Spaces(r)
    /\ NamesOf(r, r.bases[l].space, r.bases[l].instance) = {l}

\* named bases are counted
NamedCounted(r) == r.named = Cardinality({l \in DOMAIN r.bases : IsNamed(r, l)})

\* a named basis follows one that follows none
FollowsNamed(r) ==
  \A l \in DOMAIN r.follows :
    /\ IsNamed(r, l) /\ IsNamed(r, r.follows[l])
    /\ r.follows[l] \notin DOMAIN r.follows
\* and has its extent, metric and field
FollowersEqual(r) ==
  \A l \in DOMAIN r.follows :
    LET source == r.follows[l]
    IN /\ ExtentOf(r.bases[l]) = ExtentOf(r.bases[source])
       /\ r.bases[l].metric = r.bases[source].metric
       /\ FieldOf(r.bases[l]) = FieldOf(r.bases[source])

\* what is memoized is that of the table, under the mask it was computed with
MemoCurrent(r) ==
  /\ \A m \in r.memo : m.spaces = BaseSpaces([r EXCEPT !.mask = m.mask])
  /\ \A types \in r.types : types = BaseTypes(r)

Consistent(r) ==
  /\ IsRegistry(r) /\ SpacesDiffer(r) /\ NamedAgree(r) /\ NamedCounted(r)
  /\ FollowsNamed(r) /\ FollowersEqual(r) /\ MemoCurrent(r)

ASSUME StartsAssumption == \A r \in Starts : Consistent(r)
ASSUME OfferedAssumption == \A s \in Offered : IsSpaceValue(s)

-----------------------------------------------------------------------------
(* Unions and intersections.                                                *)

\* the base subspaces that a composite space is made of
Subspaces(r, type, qns) ==
  {s \in Spaces(r) : s.qns = qns /\ IsBaseType(s.type) /\ s.type \cap type # {}}

\* the space of a base type must be registered
Computable(r, type, qns) == IsBaseType(type) => At(r, <<type, qns>>) # {}
DimensionOf(r, type, qns) ==
  IF IsBaseType(type) THEN (CHOOSE s \in At(r, <<type, qns>>) : TRUE).dimension
  ELSE MapThenSumSet(LAMBDA s : s.dimension, Subspaces(r, type, qns))
FieldOver(r, type, qns) ==
  IF IsBaseType(type) THEN (CHOOSE s \in At(r, <<type, qns>>) : TRUE).field
  ELSE IF \E s \in Subspaces(r, type, qns) : s.field = "complex"
       THEN "complex" ELSE "real"

\* add_unIon of the spaces of two labels
AddUnion(r, l, l1, l2, roles) ==
  IF ~IsSpace(r, l1) \/ ~IsSpace(r, l2) THEN Threw(r)
  ELSE LET s == r.bases[l1].space
           u == r.bases[l2].space
           type == s.type \cup u.type
           qns == s.qns \cup u.qns
       IN IF ~Computable(r, type, qns) THEN Threw(r)
          ELSE AddWithRoles(r, Space(l, type, qns, DimensionOf(r, type, qns),
                                     FieldOver(r, type, qns)), roles)

\* add_intersection, which leaves the field what a space's is by default
AddIntersection(r, l, l1, l2, roles) ==
  IF ~IsSpace(r, l1) \/ ~IsSpace(r, l2) THEN Threw(r)
  ELSE LET s == r.bases[l1].space
           u == r.bases[l2].space
           type == s.type \cap u.type
           qns == s.qns \cap u.qns
       IN IF ~Computable(r, type, qns) THEN Threw(r)
          ELSE AddWithRoles(r, Space(l, type, qns, DimensionOf(r, type, qns),
                                     "complex"), roles)

ValidIntersection(r, s, u) ==
  s.type \cap u.type # {} /\ At(r, <<s.type \cap u.type, s.qns \cap u.qns>>) # {}

\* the space intersection() returns, {} when it throws
Intersection(r, s, u) ==
  LET type == s.type \cap u.type
  IN IF SameSpace(s, u) THEN {s}
     ELSE IF s.qns # u.qns /\ s.qns \cap u.qns = {} THEN {NullSpace}
     ELSE IF At(r, <<type, s.qns>>) # {} THEN At(r, <<type, s.qns>>)
     ELSE IF type = {} THEN {NullSpace} ELSE {}

ValidUnion(r, s, u) ==
  \/ /\ ~(u.type \subseteq s.type) /\ s.qns = u.qns
     /\ At(r, <<s.type \cup u.type, s.qns>>) # {}
  \/ /\ ~(u.qns \subseteq s.qns) /\ s.type = u.type
     /\ At(r, <<s.type, s.qns \cup u.qns>>) # {}

\* Mutant: the union is looked up at the second operand's attributes.
UnionOfSecond(r, s, u) ==
  IF At(r, Attr(s)) = {} \/ At(r, Attr(u)) = {} THEN {}
  ELSE IF SameSpace(s, u) THEN {s}
  ELSE IF s.qns # u.qns THEN {}
  ELSE At(r, <<u.type, s.qns>>) \ {NullSpace}
\* the space unIon() returns, {} when it throws
Union(r, s, u) ==
  IF At(r, Attr(s)) = {} \/ At(r, Attr(u)) = {} THEN {}
  ELSE IF SameSpace(s, u) THEN {s}
  ELSE IF s.qns # u.qns THEN {}
  ELSE At(r, <<s.type \cup u.type, s.qns>>) \ {NullSpace}

-----------------------------------------------------------------------------
(* Occupancy.                                                               *)

\* Mutant: the type of a role is answered whether a space has it or not.
TypeUnchecked(r, role, qns) ==
  IF qns \in DOMAIN r.roleAt[role] THEN r.roleAt[role][qns] ELSE r.role[role]
\* the type of a role at some quantum numbers, {} when no space has it
TypeOrNull(r, role, qns) ==
  LET type == IF qns \in DOMAIN r.roleAt[role] THEN r.roleAt[role][qns]
              ELSE r.role[role]
  IN IF At(r, <<type, qns>>) = {} THEN {} ELSE type
\* the space that the throwing lookup of a role returns, {} when it throws
RoleSpace(r, role, qns) ==
  IF qns \in DOMAIN r.roleAt[role] THEN At(r, <<r.roleAt[role][qns], qns>>)
  ELSE IF r.role[role] = {} THEN {} ELSE At(r, <<r.role[role], qns>>)
VacuumOccupied(r, qns) == TypeOrNull(r, "vacuum occupied", qns)
\* complete minus vacuum-occupied
VacuumUnoccupied(r, qns) ==
  TypeOrNull(r, "complete", qns) \ VacuumOccupied(r, qns)

\* the integer of the bits of a type
Power == [b \in TypeBits |-> 2 ^ b]
Integer(bits) == MapThenSumSet(LAMBDA b : Power[b], bits)
Physical(r, qns) == qns \cap r.mask

IsPureOccupied(r, s) ==
  /\ ~SameSpace(s, NullSpace)
  /\ Integer(s.type) <= Integer(VacuumOccupied(r, Physical(r, s.qns)))
IsPureUnoccupied(r, s) ==
  /\ ~SameSpace(s, NullSpace)
  /\ s.type \cap VacuumOccupied(r, Physical(r, s.qns)) = {}
ContainsOccupied(r, s) == s.type \cap VacuumOccupied(r, Physical(r, s.qns)) # {}
ContainsUnoccupied(r, s) ==
  s.type \cap VacuumUnoccupied(r, Physical(r, s.qns)) # {}

-----------------------------------------------------------------------------
(* The calls of a program.  Whoever changes a registry keeps the readers of *)
(* its base spaces out, as the header asks.                                 *)

RegistryInit ==
  /\ reg \in Starts
  /\ other = Default
  /\ reader = [t \in Reader |-> [at |-> "idle"]]
  /\ tables = 0 /\ calls = 0 /\ outcome = "returned"

Excluded == calls < MaxCalls /\ \A t \in Reader : reader[t].at = "idle"

\* a call on the registry that ends as result says
Call(result) ==
  /\ reg' = result.reg
  /\ outcome' = IF result.ok THEN "returned" ELSE "threw"
  /\ calls' = calls + 1
  /\ UNCHANGED <<other, reader, tables>>

extent ==
  Excluded /\ \E l \in Label, n \in Extents : Call(SetExtent(reg, l, n))
field ==
  Excluded /\ \E l \in Label, f \in Fields : Call(SetField(reg, l, f))
metric ==
  Excluded /\ \E l \in Label, m \in Metrics : Call(SetMetric(reg, l, m))
follow ==
  Excluded /\ \E l, source \in Label : Call(Follow(reg, l, source))

addSpace ==
  /\ Excluded
  /\ \E s \in Offered, roles \in {{}, {"vacuum occupied"}, {"complete"}} :
       Call(AddWithRoles(reg, s, roles))
addNamed ==
  /\ Excluded
  /\ \E l \in NewLabel, s \in Offered, instance \in Instances,
        extent0 \in Optional(Extents), source \in Optional(Label) :
       Call(AddNamed(reg, l, s, {instance}, extent0, "unit", {}, source))
addUnion ==
  /\ Excluded
  /\ \E l \in NewLabel, l1, l2 \in Label, roles \in {{}, {"complete"}} :
       Call(AddUnion(reg, l, l1, l2, roles))
addIntersection ==
  Excluded /\ \E l \in NewLabel, l1, l2 \in Label : Call(AddIntersection(reg, l, l1, l2, {}))

remove ==
  /\ Excluded
  /\ \/ \E l \in Label : Call(RemoveLabel(reg, l))
     \/ \E s \in Offered : Call(RemoveSpace(reg, s.label))

\* A replacement that is refused after the removal loses the space replaced.
replace ==
  /\ Excluded
  /\ \E s \in Offered : LET result == Replace(reg, s) IN
       /\ reg' = result.reg
       /\ outcome' = IF result.ok THEN "returned" ELSE "replace threw"
       /\ calls' = calls + 1
       /\ UNCHANGED <<other, reader, tables>>

clear == Excluded /\ Call(Returned(Default))

setRole ==
  /\ Excluded
  /\ \E s \in Offered, role \in Role :
       \/ Call(SetRole(reg, role, s.type))
       \/ Call(SetRoleAt(reg, role, [q \in {s.qns} |-> s.type]))

\* The memoized base spaces are left as they are.
setMask ==
  /\ Excluded
  /\ \E mask \in Masks : Call([reg |-> [reg EXCEPT !.mask = mask], ok |-> TRUE])

copyTo ==
  /\ Excluded /\ other' = Forget(reg)
  /\ outcome' = "returned" /\ calls' = calls + 1
  /\ UNCHANGED <<reg, reader, tables>>
copyFrom == Excluded /\ Call(Returned(other))

\* what is left of a registry moved from
MovedFrom(r) ==
  Forget([r EXCEPT !.bases = <<>>, !.named = 0, !.follows = <<>>,
                   !.roleAt = [role \in Role |-> <<>>]])
moveTo ==
  /\ Excluded
  /\ other' = Forget(reg) /\ reg' = MovedFrom(reg)
  /\ outcome' = "returned" /\ calls' = calls + 1
  /\ UNCHANGED <<reader, tables>>
moveFrom ==
  /\ Excluded
  /\ reg' = Forget(other) /\ other' = MovedFrom(other)
  /\ outcome' = "returned" /\ calls' = calls + 1
  /\ UNCHANGED <<reader, tables>>

-----------------------------------------------------------------------------
(* The readers of the base spaces.                                          *)

\* base_spaces(): the published vector, without the lock
LoadPublished(t) ==
  /\ reader[t].at = "idle"
  /\ \/ /\ reg.memo = {} /\ tables < MaxTables
        /\ reader' = [reader EXCEPT ![t] = [at |-> "missed"]]
     \/ \E m \in reg.memo :
          reader' = [reader EXCEPT ![t] = [at |-> "reads", table |-> m.table]]
  /\ UNCHANGED <<reg, other, tables, calls, outcome>>

\* Mutant: the vector is not looked for again with the lock.
FillUnchecked(t) ==
  /\ reader[t] = [at |-> "missed"]
  /\ tables' = tables + 1
  /\ reg' = [reg EXCEPT !.memo = {[table |-> tables + 1, mask |-> reg.mask,
                                      spaces |-> BaseSpaces(reg)]}]
  /\ reader' = [reader EXCEPT ![t] = [at |-> "reads", table |-> tables + 1]]
  /\ UNCHANGED <<other, calls, outcome>>
\* with the lock: another reader may have filled it
FillLocked(t) ==
  /\ reader[t] = [at |-> "missed"]
  /\ \/ /\ reg.memo # {} /\ UNCHANGED <<reg, tables>>
     \/ /\ reg.memo = {}
        /\ tables' = tables + 1
        /\ reg' = [reg EXCEPT !.memo = {[table |-> tables + 1, mask |-> reg.mask,
                                            spaces |-> BaseSpaces(reg)]}]
  /\ \E m \in reg'.memo :
       reader' = [reader EXCEPT ![t] = [at |-> "reads", table |-> m.table]]
  /\ UNCHANGED <<other, calls, outcome>>

\* base_space_types()
FillTypes(t) ==
  /\ reader[t].at = "idle" /\ reg.types = {}
  /\ reg' = [reg EXCEPT !.types = {BaseTypes(reg)}]
  /\ UNCHANGED <<other, reader, tables, calls, outcome>>

\* the reader is done with the reference
Drop(t) ==
  /\ reader[t].at = "reads"
  /\ reader' = [reader EXCEPT ![t] = [at |-> "idle"]]
  /\ UNCHANGED <<reg, other, tables, calls, outcome>>

Change ==
  \/ extent \/ field \/ metric \/ follow \/ addSpace \/ addNamed
  \/ addUnion \/ addIntersection \/ remove \/ replace \/ clear
  \/ setRole \/ setMask
  \/ copyTo \/ copyFrom \/ moveTo \/ moveFrom
Read(t) ==
  LoadPublished(t) \/ FillLocked(t) \/ FillTypes(t) \/ Drop(t)

RegistryNext == Change \/ (\E t \in Reader : Read(t))

RegistrySpec == RegistryInit /\ [][RegistryNext]_registryVars

-----------------------------------------------------------------------------
(* Properties.                                                              *)

\* An entry that follows another has its extent, metric and field, also when
\* they change through the space of the one followed, and however entries,
\* copies and moves of the registry come and go (follow()).  Every named basis
\* belongs to a registered space, holds a copy of it with its present metadata,
\* and is the one name of its instance, by which basis_label() and resolve()
\* find it.
EntriesConsistent ==
  \A r \in {reg, other} : FollowsNamed(r) /\ FollowersEqual(r) /\ NamedAgree(r)

\* A call that throws leaves the registries as they were, what they have
\* memoized aside, however late in the call the exception is thrown; of the
\* calls of several steps only replace() does not.
Contents == <<Forget(reg), Forget(other)>>
FailureChangesNothing ==
  [][calls' # calls /\ outcome' = "threw" => Contents' = Contents]_registryVars

\* The memoized base spaces and types are those of the present table, with
\* its present metadata, under the mask they were computed with; and all
\* readers at once refer to one vector, the one the registry still owns.
BaseSpacesCurrent ==
  /\ MemoCurrent(reg) /\ MemoCurrent(other)
  /\ \A t \in Reader : reader[t].at = "reads" =>
       \E m \in reg.memo : reader[t].table = m.table

\* A subspace of the complete space contains no unoccupied states exactly when
\* it is purely occupied, and no occupied ones exactly when it is purely
\* unoccupied, where the occupied bits are the low ones (the convention that
\* is_pure_occupied compares integers by); and the lookups of a role that
\* throw and those that do not agree.
OccupancyAgrees ==
  LET r == reg IN
    /\ \A s \in {u \in Spaces(r) : ~SameSpace(u, NullSpace)} :
         LET occupied == VacuumOccupied(r, Physical(r, s.qns))
             complete == TypeOrNull(r, "complete", Physical(r, s.qns))
         IN /\ s.type \subseteq complete /\ occupied \subseteq complete
            /\ \A b \in occupied, c \in complete \ occupied : b < c
            => /\ IsPureOccupied(r, s) <=> ~ContainsUnoccupied(r, s)
               /\ IsPureUnoccupied(r, s) <=> ~ContainsOccupied(r, s)
    /\ \A role \in Role, s \in Offered :
         TypeOrNull(r, role, s.qns) = UNION {u.type : u \in RoleSpace(r, role, s.qns)}

\* Of two spaces with the same quantum numbers, the union and the intersection
\* that the registry finds are the least upper and greatest lower bounds of
\* the two among types, the same in either order, and the queries whether they
\* are registered tell when the lookup throws.
BoundsAgree ==
  LET r == reg IN
    \A s, u \in Spaces(r) : s.qns = u.qns /\ s # u =>
      /\ \A w \in Union(r, s, u) :
           w.type = s.type \cup u.type /\ w.qns = s.qns
      /\ Union(r, s, u) = Union(r, u, s)
      /\ ValidUnion(r, s, u) => Union(r, s, u) # {}
      /\ \A w \in Intersection(r, s, u) : w.type = s.type \cap u.type
      /\ Intersection(r, s, u) = Intersection(r, u, s)
      /\ s.type \cap u.type # {} =>
           (ValidIntersection(r, s, u) <=> Intersection(r, s, u) # {})

\* The queries about spaces agree with each other in every registry that calls
\* can lead to: occupancies among themselves, bounds with what is registered.
AlgebraOfSpaces == OccupancyAgrees /\ BoundsAgree
=============================================================================
