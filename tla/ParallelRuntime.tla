-------------------------- MODULE ParallelRuntime --------------------------
(***************************************************************************)
(* The parallel primitives of core/runtime.hpp in a build without the      *)
(* parallel STL, with the context overlays of core/utility/context.hpp     *)
(* that they carry into their workers.  A tree of calls is given: an item  *)
(* of a call either is a leaf, whose operation may throw, or opens a       *)
(* scoped context and makes another call in it.  Every call starts         *)
(* NThreads - 1 threads; its last worker is the calling thread.            *)
(***************************************************************************)
EXTENDS Integers, SequencesExt

CONSTANTS Call, Root,
          Kind,       \* [Call -> {"each", "do"}]: for_each, transform_reduce; parallel_do
          Size,       \* [Call -> Nat]: the number of items (for "do", NThreads)
          Nested,     \* the calls made by items: [call, item, calls] records
          NThreads    \* num_threads()

Items(c) == 1..Size[c]
Calls(c, i) == {n \in Nested : n.call = c /\ n.item = i}
Leaves == {l \in UNION {{c} \X Items(c) : c \in Call} : Calls(l[1], l[2]) = {}}

\* The calls are a tree: an item makes at most one call, a call other than the
\* root is made by one item, and no call is made, at any depth, by itself.
CallTree ==
  /\ NThreads \in Nat \ {0} /\ Root \in Call
  /\ Kind \in [Call -> {"each", "do"}] /\ Size \in [Call -> Nat]
  /\ \A c \in Call : Kind[c] = "do" => Size[c] = NThreads
  /\ \A n \in Nested : n.call \in Call /\ n.item \in Items(n.call) /\ n.calls \in Call \ {Root}
  /\ \A c \in Call \ {Root} : \E n \in Nested : n.calls = c
  /\ \A n, m \in Nested : n.calls = m.calls \/ (n.call = m.call /\ n.item = m.item) => n = m
  /\ \A C \in SUBSET Call \ {{}} : \E c \in C : \A n \in Nested : n.calls = c => n.call \notin C

\* the k-th thread that a call starts; the thread that makes the root call
Spawned(c) == {<<c, k>> : k \in 1..NThreads - 1}
Main == <<Root, NThreads>>
Worker == {Main} \cup UNION {Spawned(c) : c \in Call}

VARIABLES overlays,   \* implicit_context_overlays of each thread, innermost last
          stack,      \* the tasks each thread is in, innermost last
          captured,   \* each call's copy of its caller's overlays
          work,       \* each call's counter of items handed out
          errors,     \* each call's ParallelExceptionCollector: [item, leaf] entries
          ran, thrown,\* history: how often each leaf ran, which leaves threw
          reported    \* what the root call threw, once it is over

runtimeVars == <<overlays, stack, captured, work, errors, ran, thrown, reported>>

\* the scoped contexts that the program holds when it makes the root call
RootScope == << <<Root, 0>> >>
Running == << >>
Over == reported # << >>

-----------------------------------------------------------------------------
Task(c) == [call |-> c, pc |-> "enter", item |-> 0, saved |-> << >>]
Top(t) == stack[t][Len(stack[t])]
InTask(t, pc) == stack[t] # << >> /\ Top(t).pc = pc

SetTop(s, t, f) == [s EXCEPT ![t] = Front(@) \o <<f>>]

\* a call: the overlays are copied, the threads start, and the caller joins in
Started(s, t, c) ==
  [u \in Worker |-> IF u \in Spawned(c) THEN <<Task(c)>>
                    ELSE IF u = t THEN Append(s[u], Task(c)) ELSE s[u]]

RuntimeInit ==
  /\ overlays = [t \in Worker |-> IF t = Main THEN RootScope ELSE << >>]
  /\ stack = Started([t \in Worker |-> << >>], Main, Root)
  /\ captured = [c \in Call |-> IF c = Root THEN RootScope ELSE << >>]
  /\ work = [c \in Call |-> 0]
  /\ errors = [c \in Call |-> << >>]
  /\ ran = [l \in Leaves |-> 0]
  /\ thrown = {}
  /\ reported = Running

\* Mutant: the worker keeps its own overlays
EnterUnscoped(t) ==
  /\ InTask(t, "enter")
  /\ stack' = SetTop(stack, t, [Top(t) EXCEPT !.pc = "take", !.saved = overlays[t]])
  /\ UNCHANGED <<overlays, captured, work, errors, ran, thrown, reported>>

\* a worker takes over the caller's overlays (ImplicitContextOverlaysScope); in
\* parallel_do the caller, who has them already, does not
Enter(t) ==
  /\ InTask(t, "enter")
  /\ stack' = SetTop(stack, t, [Top(t) EXCEPT !.pc = "take", !.saved = overlays[t]])
  /\ overlays' = [overlays EXCEPT ![t] = captured[Top(t).call]]
  /\ UNCHANGED <<captured, work, errors, ran, thrown, reported>>

\* the item a worker takes next: for_each hands out the next one that nobody
\* has taken, the k-th instance of parallel_do runs item k and no other
WorkerNumber(t) == IF t \in Spawned(Top(t).call) THEN t[2] ELSE NThreads
NextItem(t) ==
  CASE Kind[Top(t).call] = "each" -> work[Top(t).call] + 1
    [] Kind[Top(t).call] = "do" /\ Top(t).item = 0 -> WorkerNumber(t)
    [] Kind[Top(t).call] = "do" /\ Top(t).item # 0 -> Size[Top(t).call] + 1

Take(t) ==
  /\ InTask(t, "take") /\ NextItem(t) \in Items(Top(t).call)
  /\ stack' = SetTop(stack, t, [Top(t) EXCEPT !.pc = "run", !.item = NextItem(t)])
  /\ work' = IF Kind[Top(t).call] = "each" THEN [work EXCEPT ![Top(t).call] = @ + 1] ELSE work
  /\ UNCHANGED <<overlays, captured, errors, ran, thrown, reported>>

\* no item is left (a fetch past the end also advances the counter, for nobody
\* to see): the worker gets its overlays back; a thread ends, the caller goes
\* on to join the threads
Leave(t) ==
  /\ InTask(t, "take") /\ NextItem(t) \notin Items(Top(t).call)
  /\ overlays' = [overlays EXCEPT ![t] = Top(t).saved]
  /\ stack' = IF t \in Spawned(Top(t).call) THEN [stack EXCEPT ![t] = << >>]
              ELSE SetTop(stack, t, [Top(t) EXCEPT !.pc = "join"])
  /\ UNCHANGED <<captured, work, errors, ran, thrown, reported>>

-----------------------------------------------------------------------------
(* The operation of an item.                                               *)

Leaf(t) == <<Top(t).call, Top(t).item>>
AtLeaf(t) == Calls(Top(t).call, Top(t).item) = {}

RunLeaf(t) ==
  /\ InTask(t, "run") /\ AtLeaf(t)
  /\ ran' = [ran EXCEPT ![Leaf(t)] = @ + 1]
  /\ stack' = SetTop(stack, t, [Top(t) EXCEPT !.pc = "take"])
  /\ UNCHANGED <<overlays, captured, work, errors, thrown, reported>>

\* Mutant: an exception ends the worker's loop over the items
ThrowLeafQuitting(t) ==
  /\ InTask(t, "run") /\ AtLeaf(t)
  /\ ran' = [ran EXCEPT ![Leaf(t)] = @ + 1]
  /\ thrown' = thrown \cup {Leaf(t)}
  /\ errors' = [errors EXCEPT ![Top(t).call] = Append(@, [item |-> Top(t).item, leaf |-> Leaf(t)])]
  /\ overlays' = [overlays EXCEPT ![t] = Top(t).saved]
  /\ stack' = IF t \in Spawned(Top(t).call) THEN [stack EXCEPT ![t] = << >>]
              ELSE SetTop(stack, t, [Top(t) EXCEPT !.pc = "join"])
  /\ UNCHANGED <<captured, work, reported>>

\* the exception of an item is recorded and the worker goes on
ThrowLeaf(t) ==
  /\ InTask(t, "run") /\ AtLeaf(t)
  /\ ran' = [ran EXCEPT ![Leaf(t)] = @ + 1]
  /\ thrown' = thrown \cup {Leaf(t)}
  /\ errors' = [errors EXCEPT ![Top(t).call] = Append(@, [item |-> Top(t).item, leaf |-> Leaf(t)])]
  /\ stack' = SetTop(stack, t, [Top(t) EXCEPT !.pc = "take"])
  /\ UNCHANGED <<overlays, captured, work, reported>>

\* an item opens a scope and makes a call in it
RunNested(t) ==
  /\ InTask(t, "run")
  /\ \E n \in Calls(Top(t).call, Top(t).item) :
       /\ overlays' = [overlays EXCEPT ![t] = Append(@, Leaf(t))]
       /\ captured' = [captured EXCEPT ![n.calls] = overlays'[t]]
       /\ stack' = Started(stack, t, n.calls)
  /\ UNCHANGED <<work, errors, ran, thrown, reported>>

-----------------------------------------------------------------------------
(* The end of a call: the threads are joined, and what they threw is       *)
(* rethrown, a single exception as it is and several ordered by item.      *)

\* Mutant: the caller joins its own worker too
JoinableWithItself(t) ==
  InTask(t, "join") /\ \A u \in Spawned(Top(t).call) \cup {t} : stack[u] = << >>

Joinable(t) == InTask(t, "join") /\ \A u \in Spawned(Top(t).call) : stack[u] = << >>

\* the entries that a stable sort by item puts before or at entry i
UpTo(s, i) == {k \in DOMAIN s : \/ s[k].item < s[i].item
                                \/ s[k].item = s[i].item /\ k <= i}

\* Mutant: in the order in which they were recorded
Unordered(s) == s

\* the entries in the order of their items, those of one item as recorded
Ordered(s) ==
  [j \in DOMAIN s |-> s[CHOOSE i \in DOMAIN s : Cardinality(UpTo(s, i)) = j]]

\* Mutant: under the nested call's own items
RecordedVerbatim(i, s) == s

\* the enclosing item records each exception of a nested call as its own
Recorded(i, s) == [j \in DOMAIN s |-> [item |-> i, leaf |-> s[j].leaf]]

JoinNested(t) ==
  /\ Joinable(t) /\ Len(stack[t]) > 1
  /\ LET below == stack[t][Len(stack[t]) - 1]
         c == Top(t).call IN
       /\ stack' = [stack EXCEPT ![t] = Front(Front(@)) \o <<[below EXCEPT !.pc = "take"]>>]
       /\ errors' = [errors EXCEPT ![below.call] = @ \o Recorded(below.item, Ordered(errors[c]))]
  /\ overlays' = [overlays EXCEPT ![t] = Front(@)]
  /\ UNCHANGED <<captured, work, ran, thrown, reported>>

JoinRoot(t) ==
  /\ Joinable(t) /\ Len(stack[t]) = 1 /\ t = Main
  /\ stack' = [stack EXCEPT ![t] = << >>]
  /\ reported' = << Ordered(errors[Root]) >>
  /\ UNCHANGED <<overlays, captured, work, errors, ran, thrown>>

WorkerStep(t) == \/ Enter(t) \/ Take(t) \/ Leave(t)
                 \/ RunLeaf(t) \/ ThrowLeaf(t) \/ RunNested(t)
                 \/ JoinNested(t) \/ JoinRoot(t)

RuntimeNext == \E t \in Worker : WorkerStep(t)

\* every thread runs, and every operation ends
RuntimeSpec ==
  RuntimeInit /\ [][RuntimeNext]_runtimeVars /\ \A t \in Worker : WF_runtimeVars(WorkerStep(t))

-----------------------------------------------------------------------------
Overlay == UNION {{c} \X (0..Size[c]) : c \in Call}
Entries(c) == [item : Items(c), leaf : Leaves]

RuntimeTypeOK ==
  /\ overlays \in [Worker -> Seq(Overlay)]
  /\ \A t \in Worker : \A i \in DOMAIN stack[t] :
       /\ stack[t][i].pc \in {"enter", "take", "run", "join"}
       /\ stack[t][i].item \in 0..Size[stack[t][i].call]
  /\ captured \in [Call -> Seq(Overlay)]
  /\ \A c \in Call : work[c] \in 0..Size[c] /\ errors[c] \in Seq(Entries(c))
  /\ ran \in [Leaves -> Nat] /\ thrown \subseteq Leaves
  /\ reported \in Seq(Seq(Entries(Root)))

\* the items from the root call down to call c
Path[c \in Call] == IF c = Root THEN << >>
                    ELSE LET n == CHOOSE n \in Nested : n.calls = c
                         IN Append(Path[n.call], <<n.call, n.item>>)

\* "each invocation of op sees the scoped contexts of the calling thread": those
\* of the program and of every item that the call is nested in, on whichever
\* thread it runs.
SeesCallersScopes == \A t \in Worker :
  InTask(t, "run") => overlays[t] = RootScope \o Path[Top(t).call]

\* When a call is over every item below it ran once, whoever threw.
ItemsRunOnce ==
  /\ \A l \in Leaves : ran[l] <= 1
  /\ Over => \A l \in Leaves : ran[l] = 1

\* The root item that leaf l is, or is below.
RootItem(l) == IF l[1] = Root THEN l[2] ELSE Path[l[1]][1][2]

\* The exceptions of a call are all reported, each once, as those of the items
\* that the calling code knows and in their order (ParallelExceptions).
ExceptionsReported == Over =>
  LET s == reported[1] IN
  /\ {s[i].leaf : i \in DOMAIN s} = thrown
  /\ \A i \in DOMAIN s : s[i].item = RootItem(s[i].leaf)
  /\ \A i, j \in DOMAIN s : i < j => s[i].leaf # s[j].leaf /\ s[i].item <= s[j].item

\* A call does what it was asked for, and tells how it went.
OperationsComplete == ItemsRunOnce /\ ExceptionsReported

\* Every call ends, also when its operations throw.
CallEnds == <>Over
=============================================================================
