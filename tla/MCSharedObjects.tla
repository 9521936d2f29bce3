-------------------------- MODULE MCSharedObjects --------------------------
(***************************************************************************)
(* The objects that the threads of a program share, besides the default    *)
(* contexts: a Singleton of either kind, the factorial table, an           *)
(* IndexFactory and a memoized function; and the parallel primitives that  *)
(* start such threads.  They share no state with each other, so a          *)
(* behaviour uses one of them, which Init chooses.                         *)
(***************************************************************************)
EXTENDS Singleton, FactorialMemo, IndexFactory, Memoize, ParallelRuntime, TLC

CONSTANTS t1, t2, t3, s1, s2

MCThread == {t1, t2, t3}
MCMaker == {t1, t2}

fact[n \in 0 .. MaxN] == IF n = 0 THEN 1 ELSE n * fact[n - 1]

\* two spaces: the second index of one and the first of the other are taken
MCSpace == {s1, s2}
MCTaken == {<<s1, 2>>, <<s2, 1>>}

\* two threads per call; a for_each over three items: the first makes a
\* for_each over three leaves, the second a parallel_do, the third is a leaf
ParallelCalls == {"a", "b", "c"}
CallKind == [a |-> "each", b |-> "each", c |-> "do"]
CallSize == [a |-> 3, b |-> 3, c |-> 2]
NestedCalls == { [call |-> "a", item |-> 1, calls |-> "b"],
                 [call |-> "a", item |-> 2, calls |-> "c"] }

\* what the theorems about the parallel primitives take of the calls
ASSUME CallsAssumption == CallTree

\* a class without a default constructor, and a computation that may throw
NoDefault == INSTANCE Singleton WITH HasDefaultCtor <- FALSE
Throwing == INSTANCE Memoize WITH CanThrow <- TRUE

VARIABLE object  \* the object in use

allVars == <<object, vars, factorialVars, factoryVars, memoVars, runtimeVars>>

Objects == {"class", "class without default", "factorial", "factory",
            "memo", "memo of throwing", "runtime"}

AllInit ==
  /\ object \in Objects
  /\ Init /\ FactorialInit /\ FactoryInit /\ MemoInit /\ RuntimeInit

\* the other objects are left alone
ClassOnly == UNCHANGED <<object, factorialVars, factoryVars, memoVars, runtimeVars>>
FactorialOnly == UNCHANGED <<object, vars, factoryVars, memoVars, runtimeVars>>
FactoryOnly == UNCHANGED <<object, vars, factorialVars, memoVars, runtimeVars>>
MemoOnly == UNCHANGED <<object, vars, factorialVars, factoryVars, runtimeVars>>
RuntimeOnly == UNCHANGED <<object, vars, factorialVars, factoryVars, memoVars>>

UseClass == object = "class" /\ Next /\ ClassOnly
UseClassWithoutDefault == object = "class without default" /\ NoDefault!Next /\ ClassOnly
UseFactorial == object = "factorial" /\ FactorialNext /\ FactorialOnly
UseFactory == object = "factory" /\ FactoryNext /\ FactoryOnly
UseMemo == object = "memo" /\ MemoNext /\ MemoOnly
UseThrowingMemo == object = "memo of throwing" /\ Throwing!MemoNext /\ MemoOnly
UseRuntime == object = "runtime" /\ RuntimeNext /\ RuntimeOnly

AllNext == UseClass \/ UseClassWithoutDefault \/ UseFactorial \/ UseFactory
           \/ UseMemo \/ UseThrowingMemo \/ UseRuntime

\* each object's own fairness, while it is the one in use; of the parallel
\* primitives, that some thread goes on is enough
AllFairness ==
  /\ \A t \in Maker : WF_allVars(object = "factory" /\ MakeStep(t) /\ FactoryOnly)
  /\ \A t \in Caller :
       /\ WF_allVars(object = "memo" /\ (Fill(t) \/ Throw(t)) /\ MemoOnly)
       /\ WF_allVars(object = "memo" /\ Recheck(t) /\ MemoOnly)
       /\ WF_allVars(object = "memo" /\ Use(t) /\ MemoOnly)
  /\ WF_allVars(UseRuntime)

AllSpec == AllInit /\ [][AllNext]_allVars /\ AllFairness

-----------------------------------------------------------------------------
(* What ends, of the object in use: a computation that throws leaves its    *)
(* waiters waiting.                                                         *)

\* every caller of a memoized function that does not throw is served
MemoServes == object = "memo" => EveryCallReturns
\* every call of a parallel primitive ends
ParallelCallEnds == object = "runtime" => CallEnds
=============================================================================
