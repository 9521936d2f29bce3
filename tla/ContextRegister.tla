-------------------------- MODULE ContextRegister --------------------------
(***************************************************************************)
(* What SeQuant promises of its default contexts (core/context.hpp): a     *)
(* process-wide map from Statistics to Context that any thread changes in  *)
(* one step and any thread reads in one step, shadowed on a thread by the  *)
(* scopes that thread has open.  A map always has a context for Arbitrary, *)
(* which stands in for the Statistics that have none of their own.         *)
(***************************************************************************)
EXTENDS Integers, Sequences

CONSTANTS Thread,
          Stat,        \* Statistics
          Arbitrary,   \* Statistics::Arbitrary
          Ctx,         \* the values a Context takes
          Initial,     \* Context{}
          Scopes,      \* the maps that set_scoped_default_context is given
          Modify       \* the functions that set_scoped_modified_default_context is given

VARIABLES contexts,   \* the process-wide contexts
          scopes,     \* the maps each thread has scoped, innermost last
          answer      \* the Context each thread's last snapshot returned

vars == <<contexts, scopes, answer>>

-----------------------------------------------------------------------------
(* Maps from Statistics to Context.                                        *)

PartialMaps == UNION {[S -> Ctx] : S \in SUBSET Stat}
FullMaps == {m \in PartialMaps : Arbitrary \in DOMAIN m}
NoContexts == [s \in {} |-> Initial]
Assigned(m, s, c) == [x \in DOMAIN m \cup {s} |-> IF x = s THEN c ELSE m[x]]
WithArbitrary(m) == IF Arbitrary \in DOMAIN m THEN m ELSE Assigned(m, Arbitrary, Initial)
Modified(m, f) == [s \in DOMAIN m |-> f[m[s]]]
Lookup(m, s) == IF s \in DOMAIN m THEN m[s] ELSE m[Arbitrary]

Top(q) == q[Len(q)]
InEffect(t) == IF scopes[t] = << >> THEN contexts ELSE Top(scopes[t])
Identity == [c \in Ctx |-> c]

-----------------------------------------------------------------------------
Set == \E s \in Stat, c \in Ctx :
  contexts' = Assigned(contexts, s, c) /\ UNCHANGED <<scopes, answer>>

Reset == contexts' = WithArbitrary(NoContexts) /\ UNCHANGED <<scopes, answer>>

Snapshot(t) == \E s \in Stat :
  answer' = [answer EXCEPT ![t] = Lookup(InEffect(t), s)] /\ UNCHANGED <<contexts, scopes>>

Open(t, m) ==
  /\ scopes' = [scopes EXCEPT ![t] = Append(@, m)]
  /\ UNCHANGED <<contexts, answer>>

SetScoped(t) == \E m \in Scopes : Open(t, WithArbitrary(m))

SetScopedModified(t) == \E f \in Modify \cup {Identity} : Open(t, Modified(InEffect(t), f))

Close(t) ==
  /\ scopes[t] # << >>
  /\ scopes' = [scopes EXCEPT ![t] = SubSeq(@, 1, Len(@) - 1)]
  /\ UNCHANGED <<contexts, answer>>

Init == /\ contexts = WithArbitrary(NoContexts)
        /\ scopes = [t \in Thread |-> << >>]
        /\ answer = [t \in Thread |-> Initial]

Next == \/ Set
        \/ Reset
        \/ \E t \in Thread : \/ Snapshot(t)
                             \/ SetScoped(t)
                             \/ SetScopedModified(t)
                             \/ Close(t)

Spec == Init /\ [][Next]_vars
=============================================================================
