--------------------------- MODULE ContextVersion ---------------------------
(***************************************************************************)
(* The versions of the canonicalization configurations of contexts          *)
(* (Context::version(), core/context.cpp), by which canonical forms are     *)
(* cached.  A version is looked up in a process-wide table whose keys hold  *)
(* the shared objects of a configuration weakly and compare their           *)
(* addresses, which the allocator reuses.                                   *)
(***************************************************************************)
EXTENDS Integers

CONSTANTS
  Reader,      \* threads that ask for versions
  Contexts,    \* variables of type Context
  Address,
  Setting,     \* values of the labels, the options and the SP basis together
  MaxObjects,  \* bound: shared objects made
  MaxVersions, \* bound: versions given out
  None

\* Objects are numbered as they are made; Null is no object, Default the
\* canonicalizer that always exists.
Null == 0
Default == 1
Object == 1 .. MaxObjects
Configuration ==
  [registry : Object \cup {Null}, canonicalizer : Object, setting : Setting]

ASSUME ContextVersionAssumption ==
  MaxObjects \in Nat \ {0} /\ MaxVersions \in Nat /\ None \notin Configuration

VARIABLES
  made,     \* the number of objects made
  home,     \* object -> the address it is, or was, or will be at
  held,     \* the canonicalizers that the program itself holds
  context,  \* the configuration of a context, None where there is none
  cached,   \* its cached version, 0 when stale
  table,    \* the entries of the version table
  last,     \* last_version
  reader,   \* where a thread is in version()
  issued    \* history: every configuration with the version it got

versionVars == <<made, home, held, context, cached, table, last, reader, issued>>

NotReading == [at |-> "idle"]

-----------------------------------------------------------------------------
Objects(config) == {config.registry, config.canonicalizer} \ {Null}
Referenced == UNION {Objects(context[c]) : c \in {x \in Contexts : context[x] # None}}

\* ObjectRef::alive
Living == held \cup Referenced
Alive(config) == Objects(config) \subseteq Living

SameRef(o, p) == IF o = Null \/ p = Null THEN o = p ELSE home[o] = home[p]
\* operator== of keys
SameKey(k, config) ==
  /\ SameRef(k.registry, config.registry)
  /\ SameRef(k.canonicalizer, config.canonicalizer)
  /\ k.setting = config.setting

-----------------------------------------------------------------------------
VersionInit ==
  /\ made = 1 /\ held = {Default}
  /\ \E a \in Address : home = [o \in Object |-> a]
  /\ context = [c \in Contexts |-> None]
  /\ cached = [c \in Contexts |-> 0]
  /\ table = {} /\ last = 0
  /\ reader = [t \in Reader |-> NotReading]
  /\ issued = {}

\* a context is changed only while nobody else uses it
Unused(c) == \A t \in Reader : reader[t] # NotReading => reader[t].context # c
\* a setter, which makes the version stale
Set(c, config) ==
  /\ context' = [context EXCEPT ![c] = config]
  /\ cached' = [cached EXCEPT ![c] = 0]
  /\ UNCHANGED <<table, last, reader, issued>>

\* object made + 1, at an address where nothing lives
MakeObject ==
  /\ made < MaxObjects /\ made' = made + 1
  /\ \E a \in Address \ {home[o] : o \in Living} : home' = [home EXCEPT ![made + 1] = a]

\* set(registry): a Context is the one owner of its registry, so a shared one
\* is copied (owned())
SetRegistry(c) ==
  /\ context[c] # None /\ Unused(c)
  /\ \/ MakeObject /\ Set(c, [context[c] EXCEPT !.registry = made + 1])
     \/ UNCHANGED <<made, home>> /\ Set(c, [context[c] EXCEPT !.registry = Null])
  /\ UNCHANGED held

\* a canonicalizer, or a comparer, made by the program
MakeCanonicalizer ==
  /\ MakeObject /\ held' = held \cup {made + 1}
  /\ UNCHANGED <<context, cached, table, last, reader, issued>>
LetGo ==
  /\ \E o \in held \ {Default} : held' = held \ {o}
  /\ UNCHANGED <<made, home, context, cached, table, last, reader, issued>>

\* set_tensor_canonicalizer(p), with a pointer that the program has, or has
\* from another context
SetCanonicalizer(c) ==
  /\ context[c] # None /\ Unused(c)
  /\ \E o \in held \cup {context[x].canonicalizer : x \in {y \in Contexts : context[y] # None}} :
       Set(c, [context[c] EXCEPT !.canonicalizer = o])
  /\ UNCHANGED <<made, home, held>>

\* set(CanonicalizeOptions), set(SPBasis), set_cardinal_tensor_labels
SetValue(c) ==
  /\ context[c] # None /\ Unused(c)
  /\ \E s \in Setting : Set(c, [context[c] EXCEPT !.setting = s])
  /\ UNCHANGED <<made, home, held>>

\* Context(Options), without a registry of its own
Construct(c) ==
  /\ context[c] = None
  /\ \E s \in Setting :
       Set(c, [registry |-> Null, canonicalizer |-> Default, setting |-> s])
  /\ UNCHANGED <<made, home, held>>

\* a copy shares the objects and has the cached version
Copy(c, d) ==
  /\ context[c] # None /\ Unused(d) /\ c # d
  /\ context' = [context EXCEPT ![d] = context[c]]
  /\ cached' = [cached EXCEPT ![d] = cached[c]]
  /\ UNCHANGED <<made, home, held, table, last, reader, issued>>

Destroy(c) ==
  /\ context[c] # None /\ Unused(c)
  /\ context' = [context EXCEPT ![c] = None]
  /\ cached' = [cached EXCEPT ![c] = 0]
  /\ UNCHANGED <<made, home, held, table, last, reader, issued>>

-----------------------------------------------------------------------------
(* version()                                                                *)

\* the cached version is stale: a key is made of the configuration
LoadStale(t, c) ==
  /\ reader[t] = NotReading /\ context[c] # None /\ cached[c] = 0
  /\ reader' = [reader EXCEPT ![t] = [at |-> "missed", context |-> c]]
  /\ UNCHANGED <<made, home, held, context, cached, table, last, issued>>

\* Mutant: an entry of dead objects is found.
FindAny(config) == {e \in table : SameKey(e.config, config)}
\* the entries of a configuration
Find(config) == {e \in table : Alive(e.config) /\ SameKey(e.config, config)}

\* canonicalization_version(), with its lock
Lookup(t) ==
  /\ reader[t].at = "missed"
  /\ LET config == context[reader[t].context]
     IN \/ \E e \in Find(config) :
             /\ reader' = [reader EXCEPT ![t] =
                  [at |-> "found", context |-> @.context, version |-> e.version]]
             /\ issued' = issued \cup {[config |-> config, version |-> e.version]}
             /\ UNCHANGED <<table, last>>
        \/ /\ Find(config) = {}
           /\ last < MaxVersions /\ last' = last + 1
           /\ table' = {e \in table : Alive(e.config)}
                         \cup {[config |-> config, version |-> last']}
           /\ reader' = [reader EXCEPT ![t] =
                [at |-> "found", context |-> @.context, version |-> last']]
           /\ issued' = issued \cup {[config |-> config, version |-> last']}
  /\ UNCHANGED <<made, home, held, context, cached>>

Store(t) ==
  /\ reader[t].at = "found"
  /\ cached' = [cached EXCEPT ![reader[t].context] = reader[t].version]
  /\ reader' = [reader EXCEPT ![t] = NotReading]
  /\ UNCHANGED <<made, home, held, context, table, last, issued>>

-----------------------------------------------------------------------------
Change(c) ==
  \/ SetRegistry(c) \/ SetCanonicalizer(c) \/ SetValue(c)
  \/ Construct(c) \/ Destroy(c)
  \/ \E d \in Contexts : Copy(c, d)
Read(t) == (\E c \in Contexts : LoadStale(t, c)) \/ Lookup(t) \/ Store(t)

VersionNext ==
  \/ MakeCanonicalizer \/ LetGo
  \/ \E c \in Contexts : Change(c)
  \/ \E t \in Reader : Read(t)

VersionSpec == VersionInit /\ [][VersionNext]_versionVars

-----------------------------------------------------------------------------
(* Properties.                                                              *)

\* Two configurations that ever got a version got the same one exactly when
\* they are the same, of the same objects, although objects die, others are
\* made at their addresses, and contexts are copied and changed meanwhile; and
\* a context has a version of no other configuration than its own.
VersionsIdentifyConfigurations ==
  /\ \A x, y \in issued : x.version = y.version <=> x.config = y.config
  /\ \A c \in Contexts : cached[c] # 0 =>
       context[c] # None /\ [config |-> context[c], version |-> cached[c]] \in issued
=============================================================================
