-------------------------- MODULE DefaultContext ---------------------------
(***************************************************************************)
(* The default contexts (core/context.cpp, core/utility/context.hpp) in a  *)
(* build with SEQUANT_CONTEXT_MANIPULATION_THREADSAFE.  The process-wide   *)
(* map is read and written under ctx_mtx.  Each change publishes an        *)
(* immutable copy and then bumps a generation, which a snapshot reads      *)
(* without the lock to decide whether this thread's cached copy is still   *)
(* good.  Scopes are thread-local and need no lock.                        *)
(*                                                                         *)
(* A step that holds the lock from its first access to its last is one     *)
(* action, except a write: its bump of the generation is a step of its     *)
(* own, because the lock does not hide it from the snapshots.              *)
(***************************************************************************)
EXTENDS Integers, Sequences

CONSTANTS Thread, Stat, Arbitrary, Ctx, Initial, Scopes, Modify,  \* see ContextRegister
          MaxScopes,       \* bound on the scopes a thread has open
          NoThread,        \* ctx_mtx is free
          NoMap,           \* a null shared_ptr to a published map
          MaxGeneration    \* bound: no explicit change past this generation

ASSUME DefaultContextAssumption ==
  /\ Arbitrary \in Stat
  /\ Initial \in Ctx
  /\ Scopes \subseteq UNION {[S -> Ctx] : S \in SUBSET Stat}
  /\ Modify \subseteq [Ctx -> Ctx]
  /\ MaxScopes \in Nat
  /\ NoThread \notin Thread
  /\ NoMap \notin UNION {[S -> Ctx] : S \in SUBSET Stat}
  /\ MaxGeneration \in Nat

VARIABLES contexts,     \* implicit_context_instance
          published,    \* published_default_contexts
          generation,   \* default_contexts_generation
          mutex,        \* the thread that holds ctx_mtx
          cache,        \* cached_default_context's thread_local Cache
          scopes,       \* implicit_context_overlays of each thread
          pc,           \* where each thread is in its call
          asked,        \* the Statistics of its snapshot in progress
          modify,       \* the function of its set_scoped_modified_default_context
          answer,       \* the result of each thread's last snapshot
          settled       \* history: the contexts as of the last completed change

vars == <<contexts, published, generation, mutex, cache, scopes, pc, asked, modify,
          answer, settled>>
shared == <<contexts, published, generation, settled>>
args == <<asked, modify>>

\* what callers see of the process-wide map: a context for Arbitrary in any case
Shown(m) ==
  IF Arbitrary \in DOMAIN m THEN m
  ELSE [x \in DOMAIN m \cup {Arbitrary} |-> IF x = Arbitrary THEN Initial ELSE m[x]]

Register == INSTANCE ContextRegister WITH contexts <- Shown(settled)

-----------------------------------------------------------------------------
(* The process-wide contexts.                                              *)

\* the caller's thread is in none of the calls below and may start one
Idle(t) == pc[t] = "idle"

\* lock, replace the map and publish a copy of it
Replace(t, m) ==
  /\ Idle(t) /\ mutex = NoThread /\ generation < MaxGeneration
  /\ mutex' = t
  /\ contexts' = m
  /\ published' = m
  /\ pc' = [pc EXCEPT ![t] = "bump"]
  /\ UNCHANGED <<generation, cache, scopes, args, answer, settled>>

SetDefaultContext(t) ==
  \E s \in Stat, c \in Ctx : Replace(t, Register!Assigned(contexts, s, c))

ResetDefaultContext(t) == Replace(t, Register!NoContexts)

\* Mutant: the published map is replaced and the generation left alone
BumpForgotten(t) ==
  /\ pc[t] = "bump"
  /\ settled' = contexts
  /\ mutex' = NoThread
  /\ pc' = [pc EXCEPT ![t] = "idle"]
  /\ UNCHANGED <<contexts, published, generation, cache, scopes, args, answer>>

\* the last statement of publish_default_contexts, then unlock
Bump(t) ==
  /\ pc[t] = "bump"
  /\ generation' = generation + 1
  /\ settled' = contexts
  /\ mutex' = NoThread
  /\ pc' = [pc EXCEPT ![t] = "idle"]
  /\ UNCHANGED <<contexts, published, cache, scopes, args, answer>>

\* get_default_context(Arbitrary) on the process-wide contexts, under the lock:
\* its context comes into being, published, when first asked for (a Statistics
\* with a context of its own is only read)
EnsureArbitrary ==
  IF Arbitrary \in DOMAIN contexts THEN UNCHANGED shared
  ELSE /\ contexts' = Register!WithArbitrary(contexts)
       /\ published' = contexts'
       /\ generation' = generation + 1
       /\ settled' = contexts'

GetDefaultContext(t) ==
  /\ Idle(t) /\ scopes[t] = << >> /\ mutex = NoThread
  /\ EnsureArbitrary
  /\ UNCHANGED <<mutex, cache, scopes, pc, args, answer>>

-----------------------------------------------------------------------------
(* Snapshots.                                                              *)

\* Mutant: a filled cache is never refreshed
CacheHitOnceFilled(t) == cache[t].generation # 0

\* the generation, read without the lock, is the one this thread's copy has
CacheHit(t) == cache[t].generation = generation

Answer(t, m, s) == answer' = [answer EXCEPT ![t] = Register!Lookup(m, s)]

SnapshotScoped(t) == \E s \in Stat :
  /\ Idle(t) /\ scopes[t] # << >>
  /\ Answer(t, Register!Top(scopes[t]), s)
  /\ UNCHANGED <<shared, mutex, cache, scopes, pc, args>>

SnapshotCached(t) == \E s \in Stat :
  /\ Idle(t) /\ scopes[t] = << >> /\ CacheHit(t)
  /\ Answer(t, cache[t].contexts, s)
  /\ UNCHANGED <<shared, mutex, cache, scopes, pc, args>>

SnapshotStale(t) == \E s \in Stat :
  /\ Idle(t) /\ scopes[t] = << >> /\ ~CacheHit(t)
  /\ pc' = [pc EXCEPT ![t] = "refresh"]
  /\ asked' = [asked EXCEPT ![t] = s]
  /\ UNCHANGED <<shared, mutex, cache, scopes, modify, answer>>

Refresh(t) ==
  /\ pc[t] = "refresh" /\ mutex = NoThread
  /\ EnsureArbitrary
  /\ cache' = [cache EXCEPT ![t] = [generation |-> generation', contexts |-> published']]
  /\ Answer(t, published', asked[t])
  /\ pc' = [pc EXCEPT ![t] = "idle"]
  /\ UNCHANGED <<mutex, scopes, args>>

-----------------------------------------------------------------------------
(* Scopes.                                                                 *)

\* Mutant: the map is scoped as given
PushAsGiven(t, m) == scopes' = [scopes EXCEPT ![t] = Append(@, m)]

\* every scoped map gets a context for Arbitrary
Push(t, m) == scopes' = [scopes EXCEPT ![t] = Append(@, Register!WithArbitrary(m))]

MayOpen(t) == Idle(t) /\ Len(scopes[t]) < MaxScopes

SetScopedDefaultContext(t) == \E m \in Scopes :
  /\ MayOpen(t)
  /\ Push(t, m)
  /\ UNCHANGED <<shared, mutex, cache, pc, args, answer>>

\* under a scope the modified copy is of that scope's map
ModifyScoped(t) == \E f \in Modify :
  /\ MayOpen(t) /\ scopes[t] # << >>
  /\ Push(t, Register!Modified(Register!Top(scopes[t]), f))
  /\ UNCHANGED <<shared, mutex, cache, pc, args, answer>>

\* else get_default_context locks and unlocks, and then the copy locks again;
\* pin_default_contexts does so with a function that changes nothing
ModifyUnscoped(t) == \E f \in Modify \cup {Register!Identity} :
  /\ MayOpen(t) /\ scopes[t] = << >> /\ mutex = NoThread
  /\ EnsureArbitrary
  /\ pc' = [pc EXCEPT ![t] = "copy"]
  /\ modify' = [modify EXCEPT ![t] = f]
  /\ UNCHANGED <<mutex, cache, scopes, asked, answer>>

CopyContexts(t) ==
  /\ pc[t] = "copy" /\ mutex = NoThread
  /\ Push(t, Register!Modified(contexts, modify[t]))
  /\ pc' = [pc EXCEPT ![t] = "idle"]
  /\ UNCHANGED <<shared, mutex, cache, args, answer>>

EndScope(t) ==
  /\ Idle(t) /\ scopes[t] # << >>
  /\ scopes' = [scopes EXCEPT ![t] = SubSeq(@, 1, Len(@) - 1)]
  /\ UNCHANGED <<shared, mutex, cache, pc, args, answer>>

-----------------------------------------------------------------------------
Init ==
  /\ contexts = Register!NoContexts
  /\ published = NoMap
  /\ generation = 1
  /\ mutex = NoThread
  /\ cache = [t \in Thread |-> [generation |-> 0, contexts |-> NoMap]]
  /\ scopes = [t \in Thread |-> << >>]
  /\ pc = [t \in Thread |-> "idle"]
  /\ asked = [t \in Thread |-> Arbitrary]
  /\ modify = [t \in Thread |-> Register!Identity]
  /\ answer = [t \in Thread |-> Initial]
  /\ settled = Register!NoContexts

Next == \E t \in Thread :
  \/ SetDefaultContext(t) \/ ResetDefaultContext(t) \/ Bump(t)
  \/ GetDefaultContext(t)
  \/ SnapshotScoped(t) \/ SnapshotCached(t) \/ SnapshotStale(t) \/ Refresh(t)
  \/ SetScopedDefaultContext(t) \/ ModifyScoped(t) \/ ModifyUnscoped(t) \/ CopyContexts(t)
  \/ EndScope(t)

Spec == Init /\ [][Next]_vars

-----------------------------------------------------------------------------
(* Properties.                                                             *)

\* The types; the assertions it != end() of get_default_context and
\* cached_default_context hold by them: every map that a lookup can meet, a
\* filled cache or a scope, has a context for Arbitrary.
TypeOK ==
  /\ contexts \in Register!PartialMaps
  /\ settled \in Register!PartialMaps
  /\ published \in Register!PartialMaps \cup {NoMap}
  /\ generation \in Nat
  /\ mutex \in Thread \cup {NoThread}
  /\ cache \in [Thread -> [generation : Nat, contexts : Register!FullMaps]
                           \cup [generation : {0}, contexts : {NoMap}]]
  /\ scopes \in [Thread -> Seq(Register!FullMaps)]
  /\ pc \in [Thread -> {"idle", "bump", "refresh", "copy"}]
  /\ asked \in [Thread -> Stat]
  /\ modify \in [Thread -> [Ctx -> Ctx]]
  /\ answer \in [Thread -> Ctx]

\* A thread whose cached generation is the current one holds the contexts of
\* the last completed change: the copy it then reads without the lock is never
\* out of date (cached_default_context).
CacheIsCurrent == \A t \in Thread : CacheHit(t) => cache[t].contexts = settled

\* "modify applied to a copy of each current default context"
\* (context.hpp): every context that set_scoped_modified_default_context
\* scopes is a result of the caller's function.
ScopedContextsAreModified ==
  [][\A t \in Thread : pc[t] = "copy" /\ pc'[t] = "idle" =>
       \A s \in DOMAIN Register!Top(scopes'[t]) :
          Register!Top(scopes'[t])[s] \in {modify[t][c] : c \in Ctx}]_vars
=============================================================================
