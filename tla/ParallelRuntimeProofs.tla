----------------------- MODULE ParallelRuntimeProofs ------------------------
(***************************************************************************)
(* What the operations of a parallel primitive see, that each is done      *)
(* once, and how their exceptions are reported: for every tree of calls,   *)
(* every number of items and every number of threads.                      *)
(***************************************************************************)
EXTENDS ParallelRuntime, FiniteSetTheorems, TLAPS

-----------------------------------------------------------------------------
(* The path of a call.  Path is defined by recursion over the tree; that   *)
(* there is such a function takes an argument: among the calls without a   *)
(* path one is not below another of them, and it has one.                  *)

\* the item that makes call c
Maker(c) == CHOOSE n \in Nested : n.calls = c

LEMMA MakerFacts ==
  ASSUME CallTree
  PROVE  /\ \A c \in Call \ {Root} :
                 /\ Maker(c) \in Nested /\ Maker(c).calls = c
                 /\ Maker(c).call \in Call /\ Maker(c).item \in Nat
         /\ \A n \in Nested : n.calls \in Call \ {Root} /\ n = Maker(n.calls)
<1>1. ASSUME NEW c \in Call \ {Root}
      PROVE  /\ Maker(c) \in Nested /\ Maker(c).calls = c
             /\ Maker(c).call \in Call /\ Maker(c).item \in Nat
  <2>1. \E n \in Nested : n.calls = c
    BY DEF CallTree
  <2>2. Maker(c) \in Nested /\ Maker(c).calls = c
    BY <2>1 DEF Maker
  <2>3. Maker(c).call \in Call /\ Maker(c).item \in Items(Maker(c).call)
    BY <2>2 DEF CallTree
  <2>4. Size[Maker(c).call] \in Nat
    BY <2>3 DEF CallTree
  <2> QED BY <2>2, <2>3, <2>4 DEF Items
<1>2. ASSUME NEW n \in Nested PROVE n.calls \in Call \ {Root} /\ n = Maker(n.calls)
  <2>1. n.calls \in Call \ {Root}
    BY DEF CallTree
  <2>2. Maker(n.calls) \in Nested /\ Maker(n.calls).calls = n.calls
    BY <1>1, <2>1
  <2> QED BY <2>1, <2>2 DEF CallTree
<1> QED BY <1>1, <1>2

\* Among any calls one is made by none of them.
LEMMA Outermost ==
  ASSUME CallTree, NEW C, C \subseteq Call, C # {}
  PROVE  \E c \in C : c # Root => Maker(c).call \notin C
<1>1. PICK c \in C : \A n \in Nested : n.calls = c => n.call \notin C
  BY DEF CallTree
<1>2. c \in Call
  BY <1>1
<1> QED BY <1>1, <1>2, MakerFacts

\* g gives the paths of the calls of C, which has the makers of its calls
Paths(C, g) ==
  /\ C \subseteq Call
  /\ \A c \in C \ {Root} : Maker(c).call \in C
  /\ \A c \in C : g[c] = IF c = Root THEN << >>
                         ELSE Append(g[Maker(c).call], <<Maker(c).call, Maker(c).item>>)

LEMMA PathsAgree ==
  ASSUME CallTree, NEW C, NEW g, Paths(C, g), NEW D, NEW h, Paths(D, h)
  PROVE  \A c \in C \cap D : g[c] = h[c]
<1> DEFINE Bad == {c \in C \cap D : g[c] # h[c]}
<1>1. SUFFICES ASSUME Bad # {} PROVE FALSE
  OBVIOUS
<1>2. Bad \subseteq Call
  BY DEF Paths
<1>3. PICK c \in Bad : c # Root => Maker(c).call \notin Bad
  <2> HIDE DEF Bad
  <2> QED BY <1>1, <1>2, Outermost
<1>4. c # Root
  BY <1>3 DEF Paths
<1>5. Maker(c).call \in C \cap D /\ g[Maker(c).call] = h[Maker(c).call]
  BY <1>3, <1>4 DEF Paths
<1> QED BY <1>3, <1>4, <1>5 DEF Paths

LEMMA PathsExist ==
  ASSUME CallTree
  PROVE  \A c \in Call : \E C, g : c \in C /\ Paths(C, g)
<1> DEFINE Bad == {c \in Call : ~ \E C, g : c \in C /\ Paths(C, g)}
<1>1. SUFFICES ASSUME Bad # {} PROVE FALSE
  OBVIOUS
<1>2. PICK c \in Bad : c # Root => Maker(c).call \notin Bad
  <2>1. Bad \subseteq Call
    OBVIOUS
  <2> HIDE DEF Bad
  <2> QED BY <1>1, <2>1, Outermost
<1>3. CASE c = Root
  <2>1. Paths({Root}, [d \in {Root} |-> << >>])
    BY <1>2, <1>3 DEF Paths
  <2> QED BY <1>2, <1>3, <2>1
<1>4. CASE c # Root
  <2> DEFINE p == Maker(c).call
             last == <<p, Maker(c).item>>
  <2>1. c \in Call \ {Root} /\ p \in Call
    BY <1>2, <1>4, MakerFacts
  <2>2. PICK C, g : p \in C /\ Paths(C, g)
    BY <1>2, <1>4, <2>1
  <2>3. CASE c \in C
    BY <1>2, <2>2, <2>3
  <2>4. CASE c \notin C
    <3> DEFINE D == C \cup {c}
               h == [d \in D |-> IF d = c THEN Append(g[p], last) ELSE g[d]]
    <3>1. D \subseteq Call /\ \A d \in D \ {Root} : Maker(d).call \in D
      BY <2>1, <2>2 DEF Paths
    <3>2. ASSUME NEW d \in D
          PROVE  h[d] = IF d = Root THEN << >>
                        ELSE Append(h[Maker(d).call], <<Maker(d).call, Maker(d).item>>)
      <4>1. CASE d = c
        <5>1. h[c] = Append(g[p], last) /\ h[p] = g[p] /\ c # Root
          BY <1>4, <2>2, <2>4
        <5> HIDE DEF h
        <5> QED BY <4>1, <5>1
      <4>2. CASE d # c
        <5>1. d \in C /\ (d # Root => Maker(d).call \in C)
          BY <2>2, <4>2 DEF Paths
        <5>2. h[d] = g[d] /\ (d # Root => h[Maker(d).call] = g[Maker(d).call])
          BY <2>4, <4>2, <5>1
        <5> HIDE DEF h
        <5> QED BY <2>2, <5>1, <5>2 DEF Paths
      <4> QED BY <4>1, <4>2
    <3>3. c \in D /\ Paths(D, h)
      <4> HIDE DEF h, D
      <4>1. c \in D
        BY DEF D
      <4> QED BY <3>1, <3>2, <4>1 DEF Paths
    <3> HIDE DEF D, h
    <3> QED BY <1>2, <3>3
  <2> QED BY <2>3, <2>4
<1> QED BY <1>3, <1>4

\* The path of a call is that of the call whose item makes it, and that item.
LEMMA PathFacts ==
  ASSUME CallTree
  PROVE  /\ Path[Root] = << >>
         /\ \A n \in Nested : Path[n.calls] = Append(Path[n.call], <<n.call, n.item>>)
<1> DEFINE E(c, f) == IF c = Root THEN << >>
                      ELSE LET n == CHOOSE n \in Nested : n.calls = c
                           IN Append(f[n.call], <<n.call, n.item>>)
<1>1. Path = CHOOSE f : f = [c \in Call |-> E(c, f)]
  BY DEF Path
<1>2. \E f : f = [c \in Call |-> E(c, f)]
  <2> DEFINE G(c) == CHOOSE g : \E C : c \in C /\ Paths(C, g)
             f == [c \in Call |-> G(c)[c]]
  <2>1. \A c \in Call : \E C : c \in C /\ Paths(C, G(c))
    BY PathsExist
  <2>2. ASSUME NEW c \in Call PROVE f[c] = E(c, f)
    <3>1. PICK C : c \in C /\ Paths(C, G(c))
      BY <2>1
    <3>2. CASE c = Root
      <4> HIDE DEF G
      <4> QED BY <3>1, <3>2 DEF Paths
    <3>3. CASE c # Root
      <4> DEFINE p == Maker(c).call
      <4>1. p \in C /\ p \in Call
        BY <3>1, <3>3 DEF Paths
      <4>2. PICK D : p \in D /\ Paths(D, G(p))
        BY <2>1, <4>1
      <4>3. G(c)[p] = G(p)[p]
        <5> HIDE DEF G, p
        <5> QED BY <3>1, <4>1, <4>2, PathsAgree
      <4>4. G(c)[c] = Append(G(c)[p], <<p, Maker(c).item>>)
        <5> HIDE DEF G
        <5> QED BY <3>1, <3>3 DEF Paths
      <4>5. f[c] = G(c)[c] /\ f[p] = G(p)[p]
        BY <4>1
      <4>6. f[c] = Append(f[p], <<p, Maker(c).item>>)
        <5> HIDE DEF G, p, f
        <5> QED BY <4>3, <4>4, <4>5
      <4> HIDE DEF f
      <4> QED BY <3>3, <4>6 DEF Maker
    <3> QED BY <3>2, <3>3
  <2> HIDE DEF f, E
  <2>3. f = [c \in Call |-> E(c, f)]
    <3>1. f = [c \in Call |-> f[c]]
      BY DEF f
    <3> QED BY <2>2, <3>1
  <2> QED BY <2>3
<1>3. Path = [c \in Call |-> E(c, Path)]
  <2> HIDE DEF E
  <2> QED BY <1>1, <1>2
<1>4. \A c \in Call : Path[c] = E(c, Path)
  <2> HIDE DEF E
  <2> QED BY <1>3
<1>5. Path[Root] = << >>
  BY <1>4 DEF CallTree
<1>6. ASSUME NEW n \in Nested PROVE Path[n.calls] = Append(Path[n.call], <<n.call, n.item>>)
  <2>1. n.calls \in Call \ {Root} /\ n = Maker(n.calls)
    BY MakerFacts
  <2> QED BY <1>4, <2>1 DEF Maker
<1> QED BY <1>5, <1>6

\* A path consists of items.
LEMMA PathType == CallTree => \A c \in Call : Path[c] \in Seq(Call \X Nat)
<1> SUFFICES ASSUME CallTree PROVE \A c \in Call : Path[c] \in Seq(Call \X Nat)
  OBVIOUS
<1> DEFINE Bad == {c \in Call : Path[c] \notin Seq(Call \X Nat)}
<1>1. SUFFICES ASSUME Bad # {} PROVE FALSE
  OBVIOUS
<1>2. PICK c \in Bad : c # Root => Maker(c).call \notin Bad
  <2>1. Bad \subseteq Call
    OBVIOUS
  <2> HIDE DEF Bad
  <2> QED BY <1>1, <2>1, Outermost
<1>3. c # Root
  <2>1. << >> \in Seq(Call \X Nat)
    OBVIOUS
  <2>2. Path[Root] \in Seq(Call \X Nat)
    BY <2>1, PathFacts, Zenon
  <2> QED BY <1>2, <2>2
<1> DEFINE n == Maker(c)
<1>4. n \in Nested /\ n.calls = c /\ n.call \in Call /\ n.item \in Nat
  BY <1>2, <1>3, MakerFacts
<1>5. Path[n.call] \in Seq(Call \X Nat)
  BY <1>2, <1>3, <1>4
<1>6. Path[c] = Append(Path[n.call], <<n.call, n.item>>)
  BY <1>4, PathFacts
<1>7. Append(Path[n.call], <<n.call, n.item>>) \in Seq(Call \X Nat)
  <2> HIDE DEF n
  <2>1. <<n.call, n.item>> \in Call \X Nat
    BY <1>4
  <2> QED BY <1>5, <2>1
<1> QED BY <1>2, <1>6, <1>7

-----------------------------------------------------------------------------
(* The scoped contexts of a task are those of its call, wherever it runs.  *)

ScopeOf(c) == RootScope \o Path[c]

Scope == Seq(Call \X Nat)
TaskType == [call : Call, pc : {"enter", "take", "run", "join"}, item : Nat, saved : Scope]

Typed ==
  /\ overlays \in [Worker -> Scope]
  /\ captured \in [Call -> Scope]
  /\ stack \in [Worker -> Seq(TaskType)]

\* each task's call has the contexts of its caller, and so has a thread that
\* will get its own back; a thread that was started does not join
TaskScoped(t, k) ==
  /\ captured[k.call] = ScopeOf(k.call)
  /\ k.pc # "enter" /\ t \notin Spawned(k.call) => k.saved = ScopeOf(k.call)
  /\ k.pc = "join" => t \notin Spawned(k.call)

\* task k runs an item that makes the call of task m
Makes(k, m) ==
  k.pc = "run" /\ \E n \in Nested : n.call = k.call /\ n.item = k.item /\ n.calls = m.call

\* a thread has the contexts of its innermost task, once it has entered it
TopScoped(t) ==
  stack[t] # << >> /\ ~(Top(t).pc = "enter" /\ t \in Spawned(Top(t).call)) =>
    overlays[t] = ScopeOf(Top(t).call)

ScopedThread(t) ==
  /\ \A i \in 1 .. Len(stack[t]) : TaskScoped(t, stack[t][i])
  /\ \A i \in 1 .. Len(stack[t]) - 1 : Makes(stack[t][i], stack[t][i + 1])
  /\ TopScoped(t)

ScopeInv == Typed /\ \A t \in Worker : ScopedThread(t)

\* replacing the last element of a sequence
LEMMA TopReplaced ==
  ASSUME NEW S, NEW s \in Seq(S), s # << >>, NEW f \in S
  PROVE  /\ Front(s) \o <<f>> \in Seq(S)
         /\ Len(Front(s) \o <<f>>) = Len(s) /\ Len(s) > 0
         /\ \A i \in 1 .. Len(s) - 1 : (Front(s) \o <<f>>)[i] = s[i]
         /\ (Front(s) \o <<f>>)[Len(s)] = f
BY DEF Front

\* the types that CallTree gives
LEMMA TreeTypes ==
  ASSUME CallTree
  PROVE  /\ \A c \in Call : ScopeOf(c) \in Scope
         /\ Root \in Call /\ RootScope \in Scope
         /\ \A n \in Nested : /\ n.call \in Call /\ n.calls \in Call /\ n.item \in Nat
                              /\ ScopeOf(n.calls) = Append(ScopeOf(n.call), <<n.call, n.item>>)
<1>1. Root \in Call
  BY DEF CallTree
<1>2. RootScope \in Scope
  BY <1>1 DEF RootScope, Scope
<1>3. \A c \in Call : Path[c] \in Scope
  BY PathType DEF Scope
<1>4. \A c \in Call : ScopeOf(c) \in Scope
  BY <1>2, <1>3 DEF ScopeOf, Scope
<1>5. ASSUME NEW n \in Nested
      PROVE  /\ n.call \in Call /\ n.calls \in Call /\ n.item \in Nat
             /\ ScopeOf(n.calls) = Append(ScopeOf(n.call), <<n.call, n.item>>)
  <2>1. n.call \in Call /\ n.calls \in Call /\ n.item \in Nat
    BY MakerFacts
  <2>2. Path[n.calls] = Append(Path[n.call], <<n.call, n.item>>)
    BY PathFacts
  <2>3. <<n.call, n.item>> \in Call \X Nat
    BY <2>1
  <2> DEFINE p == Path[n.call]
             e == <<n.call, n.item>>
  <2>4. RootScope \o Append(p, e) = Append(RootScope \o p, e)
    <3>1. p \in Scope /\ e \in Call \X Nat
      BY <1>3, <2>1, <2>3
    <3> HIDE DEF p, e
    <3> QED BY <1>2, <3>1 DEF Scope
  <2> QED BY <2>1, <2>2, <2>4 DEF ScopeOf
<1> QED BY <1>1, <1>2, <1>4, <1>5

\* the task in the middle of a thread's stack, or on top of it
LEMMA TaskTypes ==
  ASSUME Typed, NEW t \in Worker
  PROVE  /\ stack[t] \in Seq(TaskType) /\ Len(stack[t]) \in Nat
         /\ \A i \in 1 .. Len(stack[t]) : stack[t][i] \in TaskType
         /\ stack[t] # << >> => /\ Len(stack[t]) \in 1 .. Len(stack[t])
                                /\ Top(t) = stack[t][Len(stack[t])] /\ Top(t) \in TaskType
<1>1. stack[t] \in Seq(TaskType)
  BY DEF Typed
<1> QED BY <1>1 DEF Top

\* A step within a thread's innermost task.
LEMMA TopStep ==
  ASSUME ScopeInv, NEW t \in Worker, stack[t] # << >>,
         NEW f \in TaskType, f.call = Top(t).call, TaskScoped(t, f),
         stack' = SetTop(stack, t, f), captured' = captured,
         NEW o \in Scope, overlays' = [overlays EXCEPT ![t] = o],
         ~(f.pc = "enter" /\ t \in Spawned(f.call)) => o = ScopeOf(f.call)
  PROVE  ScopeInv'
<1>1. /\ stack \in [Worker -> Seq(TaskType)] /\ overlays \in [Worker -> Scope]
      /\ captured \in [Call -> Scope] /\ stack[t] \in Seq(TaskType)
  BY DEF ScopeInv, Typed
<1> DEFINE r == Front(stack[t]) \o <<f>>
<1>2. stack' = [stack EXCEPT ![t] = r]
  BY DEF SetTop
<1>3. /\ r \in Seq(TaskType) /\ Len(r) = Len(stack[t]) /\ Len(stack[t]) > 0
      /\ \A i \in 1 .. Len(stack[t]) - 1 : r[i] = stack[t][i]
      /\ r[Len(stack[t])] = f
  BY <1>1, TopReplaced
<1> HIDE DEF r
<1>4. Typed'
  BY <1>1, <1>2, <1>3 DEF Typed
<1>5. ASSUME NEW u \in Worker, u # t PROVE ScopedThread(u)'
  <2>1. stack'[u] = stack[u] /\ overlays'[u] = overlays[u]
    BY <1>1, <1>2, <1>5
  <2> QED BY <2>1 DEF ScopeInv, ScopedThread, TaskScoped, TopScoped, Top
<1>6. ScopedThread(t)'
  <2> DEFINE n == Len(stack[t])
  <2>1. n \in Nat \ {0} /\ stack'[t] = r /\ Len(stack'[t]) = n /\ overlays'[t] = o
    BY <1>1, <1>2, <1>3
  <2>2. stack[t][n] = Top(t) /\ ScopedThread(t)
    BY DEF Top, ScopeInv
  <2> HIDE DEF n
  <2>3. \A i \in 1 .. n : TaskScoped(t, r[i])
    <3> SUFFICES ASSUME NEW i \in 1 .. n PROVE TaskScoped(t, r[i])
      OBVIOUS
    <3>1. CASE i = n
      BY <1>3, <3>1 DEF n
    <3>2. CASE i # n
      BY <1>3, <2>1, <2>2, <3>2 DEF n, ScopedThread
    <3> QED BY <3>1, <3>2
  <2>4. \A i \in 1 .. n - 1 : Makes(r[i], r[i + 1])
    <3> SUFFICES ASSUME NEW i \in 1 .. n - 1 PROVE Makes(r[i], r[i + 1])
      OBVIOUS
    <3>1. Makes(stack[t][i], stack[t][i + 1]) /\ r[i] = stack[t][i]
      BY <1>3, <2>2 DEF n, ScopedThread
    <3>2. CASE i = n - 1
      <4>1. r[i + 1] = f /\ stack[t][i + 1] = Top(t)
        BY <1>3, <2>1, <2>2, <3>2 DEF n
      <4> QED BY <3>1, <4>1 DEF Makes
    <3>3. CASE i # n - 1
      BY <1>3, <2>1, <3>1, <3>3 DEF n
    <3> QED BY <3>2, <3>3
  <2>5. TopScoped(t)'
    BY <1>3, <2>1 DEF TopScoped, Top, n
  <2> QED BY <2>1, <2>3, <2>4, <2>5 DEF ScopedThread, TaskScoped
<1> QED BY <1>4, <1>5, <1>6 DEF ScopeInv

\* what the innermost task of a thread says of it
LEMMA TopFacts ==
  ASSUME CallTree, ScopeInv, NEW t \in Worker, stack[t] # << >>
  PROVE  /\ Top(t) \in TaskType /\ Top(t).call \in Call /\ TaskScoped(t, Top(t)) /\ TopScoped(t)
         /\ overlays[t] \in Scope /\ ScopeOf(Top(t).call) \in Scope
         /\ overlays = [overlays EXCEPT ![t] = overlays[t]]
<1>1. Typed /\ ScopedThread(t)
  BY DEF ScopeInv
<1>2. /\ Top(t) \in TaskType /\ Len(stack[t]) \in 1 .. Len(stack[t])
      /\ Top(t) = stack[t][Len(stack[t])]
  BY <1>1, TaskTypes
<1>3. TaskScoped(t, Top(t)) /\ TopScoped(t)
  BY <1>1, <1>2 DEF ScopedThread
<1>4. Top(t).call \in Call
  BY <1>2 DEF TaskType
<1>5. overlays \in [Worker -> Scope]
  BY <1>1 DEF Typed
<1> QED BY <1>2, <1>3, <1>4, <1>5, TreeTypes

LEMMA EnterScoped == ASSUME CallTree, ScopeInv, NEW t \in Worker, Enter(t) PROVE ScopeInv'
<1> DEFINE f == [Top(t) EXCEPT !.pc = "take", !.saved = overlays[t]]
           o == captured[Top(t).call]
<1>1. stack[t] # << >> /\ Top(t).pc = "enter"
  BY DEF Enter, InTask
<1>2. f \in TaskType /\ f.call = Top(t).call /\ f.pc = "take" /\ f.saved = overlays[t]
  BY <1>1, TopFacts DEF TaskType
<1>3. o = ScopeOf(Top(t).call) /\ o \in Scope
  BY <1>1, TopFacts DEF TaskScoped
<1>4. TaskScoped(t, f)
  BY <1>1, <1>2, <1>3, TopFacts DEF TaskScoped, TopScoped
<1>5. stack' = SetTop(stack, t, f) /\ captured' = captured /\ overlays' = [overlays EXCEPT ![t] = o]
  BY DEF Enter
<1> HIDE DEF f, o
<1> QED BY <1>1, <1>2, <1>3, <1>4, <1>5, TopStep

LEMMA TakeScoped == ASSUME CallTree, ScopeInv, NEW t \in Worker, Take(t) PROVE ScopeInv'
<1> DEFINE f == [Top(t) EXCEPT !.pc = "run", !.item = NextItem(t)]
<1>1. stack[t] # << >> /\ Top(t).pc = "take" /\ NextItem(t) \in Items(Top(t).call)
  BY DEF Take, InTask
<1>2. NextItem(t) \in Nat
  <2>1. Size[Top(t).call] \in Nat
    BY <1>1, TopFacts DEF CallTree
  <2> QED BY <1>1, <2>1 DEF Items
<1>3. /\ f \in TaskType /\ f.call = Top(t).call /\ f.pc = "run" /\ f.saved = Top(t).saved
  BY <1>1, <1>2, TopFacts DEF TaskType
<1>4. TaskScoped(t, f)
  BY <1>1, <1>3, TopFacts DEF TaskScoped
<1>5. stack' = SetTop(stack, t, f) /\ captured' = captured /\ overlays' = overlays
  BY DEF Take
<1>6. overlays[t] = ScopeOf(f.call)
  BY <1>1, <1>3, TopFacts DEF TopScoped
<1> HIDE DEF f
<1>7. overlays' = [overlays EXCEPT ![t] = overlays[t]] /\ overlays[t] \in Scope
  BY <1>1, <1>5, TopFacts
<1> QED BY <1>1, <1>3, <1>4, <1>5, <1>6, <1>7, TopStep

\* the operation of a leaf, whether or not it throws
LEMMA LeafScoped ==
  ASSUME CallTree, ScopeInv, NEW t \in Worker, InTask(t, "run"),
         stack' = SetTop(stack, t, [Top(t) EXCEPT !.pc = "take"]),
         captured' = captured, overlays' = overlays
  PROVE  ScopeInv'
<1> DEFINE f == [Top(t) EXCEPT !.pc = "take"]
<1>1. stack[t] # << >> /\ Top(t).pc = "run"
  BY DEF InTask
<1>2. /\ f \in TaskType /\ f.call = Top(t).call /\ f.pc = "take" /\ f.saved = Top(t).saved
  BY <1>1, TopFacts DEF TaskType
<1>3. TaskScoped(t, f) /\ overlays[t] = ScopeOf(f.call)
  BY <1>1, <1>2, TopFacts DEF TaskScoped, TopScoped
<1> HIDE DEF f
<1>4. overlays' = [overlays EXCEPT ![t] = overlays[t]] /\ overlays[t] \in Scope
  BY <1>1, TopFacts
<1>5. stack' = SetTop(stack, t, f)
  BY DEF f
<1> QED BY <1>1, <1>2, <1>3, <1>4, <1>5, TopStep

\* a thread whose stack is emptied has nothing to be said of
LEMMA EmptiedScoped ==
  ASSUME ScopeInv, NEW t \in Worker, stack' = [stack EXCEPT ![t] = << >>],
         captured' = captured, NEW o \in Scope, overlays' = [overlays EXCEPT ![t] = o]
  PROVE  ScopeInv'
<1>1. /\ stack \in [Worker -> Seq(TaskType)] /\ overlays \in [Worker -> Scope]
      /\ captured \in [Call -> Scope]
  BY DEF ScopeInv, Typed
<1>2. Typed'
  BY <1>1 DEF Typed
<1>3. ASSUME NEW u \in Worker, u # t PROVE ScopedThread(u)'
  <2>1. stack'[u] = stack[u] /\ overlays'[u] = overlays[u]
    BY <1>1, <1>3
  <2> QED BY <2>1 DEF ScopeInv, ScopedThread, TaskScoped, TopScoped, Top
<1>4. ScopedThread(t)'
  <2>1. stack'[t] = << >>
    BY <1>1
  <2> QED BY <2>1 DEF ScopedThread, TopScoped
<1> QED BY <1>2, <1>3, <1>4 DEF ScopeInv

LEMMA LeaveScoped == ASSUME CallTree, ScopeInv, NEW t \in Worker, Leave(t) PROVE ScopeInv'
<1> DEFINE f == [Top(t) EXCEPT !.pc = "join"]
           o == Top(t).saved
<1>1. stack[t] # << >> /\ Top(t).pc = "take"
  BY DEF Leave, InTask
<1>2. /\ f \in TaskType /\ f.call = Top(t).call /\ f.pc = "join" /\ f.saved = o
      /\ o \in Scope
  BY <1>1, TopFacts DEF TaskType
<1>3. captured' = captured /\ overlays' = [overlays EXCEPT ![t] = o]
  BY DEF Leave
<1>4. CASE t \in Spawned(Top(t).call)
  <2>1. stack' = [stack EXCEPT ![t] = << >>]
    BY <1>4 DEF Leave
  <2> QED BY <1>2, <1>3, <2>1, EmptiedScoped
<1>5. CASE t \notin Spawned(Top(t).call)
  <2>1. stack' = SetTop(stack, t, f)
    BY <1>5 DEF Leave
  <2>2. TaskScoped(t, f) /\ o = ScopeOf(f.call)
    BY <1>1, <1>2, <1>5, TopFacts DEF TaskScoped
  <2> HIDE DEF f, o
  <2> QED BY <1>1, <1>2, <1>3, <2>1, <2>2, TopStep
<1> QED BY <1>4, <1>5

LEMMA JoinRootScoped == ASSUME CallTree, ScopeInv, NEW t \in Worker, JoinRoot(t) PROVE ScopeInv'
<1>1. stack[t] # << >> /\ stack' = [stack EXCEPT ![t] = << >>]
  BY DEF JoinRoot, Joinable, InTask
<1>2. captured' = captured /\ overlays' = [overlays EXCEPT ![t] = overlays[t]]
  BY <1>1, TopFacts DEF JoinRoot
<1> QED BY <1>1, <1>2, TopFacts, EmptiedScoped

LEMMA RunNestedScoped == ASSUME CallTree, ScopeInv, NEW t \in Worker, RunNested(t) PROVE ScopeInv'
<1>1. stack[t] # << >> /\ Top(t).pc = "run"
  BY DEF RunNested, InTask
<1>2. PICK n \in Calls(Top(t).call, Top(t).item) :
        /\ overlays' = [overlays EXCEPT ![t] = Append(@, Leaf(t))]
        /\ captured' = [captured EXCEPT ![n.calls] = overlays'[t]]
        /\ stack' = Started(stack, t, n.calls)
  BY DEF RunNested
<1>3. n \in Nested /\ n.call = Top(t).call /\ n.item = Top(t).item
  BY DEF Calls
<1>4. /\ stack \in [Worker -> Seq(TaskType)] /\ overlays \in [Worker -> Scope]
      /\ captured \in [Call -> Scope]
  BY DEF ScopeInv, Typed
<1> DEFINE c == n.calls
           k == Task(c)
<1>5. c \in Call /\ k \in TaskType /\ ScopeOf(c) \in Scope /\ k.call = c /\ k.pc = "enter"
  BY <1>3, TreeTypes DEF Task, TaskType, Scope
<1>6. overlays'[t] = ScopeOf(c) /\ overlays' \in [Worker -> Scope]
      /\ \A u \in Worker \ {t} : overlays'[u] = overlays[u]
  <2>1. overlays[t] = ScopeOf(n.call) /\ Leaf(t) = <<n.call, n.item>>
    BY <1>1, <1>3, TopFacts DEF TopScoped, Leaf
  <2>2. Append(overlays[t], Leaf(t)) = ScopeOf(c)
    BY <1>3, <2>1, TreeTypes
  <2> HIDE DEF c
  <2> QED BY <1>2, <1>4, <1>5, <2>2
<1>7. /\ captured' \in [Call -> Scope] /\ captured'[c] = ScopeOf(c)
      /\ \A d \in Call : captured[d] = ScopeOf(d) => captured'[d] = ScopeOf(d)
  <2> HIDE DEF c
  <2>1. captured' = [captured EXCEPT ![c] = ScopeOf(c)]
    BY <1>2, <1>6 DEF c
  <2> QED BY <1>4, <1>5, <2>1
<1>8. \A u \in Worker : stack'[u] = IF u \in Spawned(c) THEN <<k>>
                                    ELSE IF u = t THEN Append(stack[u], k) ELSE stack[u]
  BY <1>2 DEF Started
<1>9. stack' = [u \in Worker |-> stack'[u]]
  BY <1>2 DEF Started
<1> HIDE DEF c, k
<1>10. Typed'
  <2>1. \A u \in Worker : stack[u] \in Seq(TaskType) /\ Append(stack[u], k) \in Seq(TaskType)
    BY <1>4, <1>5
  <2>2. <<k>> \in Seq(TaskType)
    BY <1>5
  <2>3. \A u \in Worker : stack'[u] \in Seq(TaskType)
    BY <1>8, <2>1, <2>2
  <2> QED BY <1>6, <1>7, <1>9, <2>3 DEF Typed
<1>11. ASSUME NEW u \in Worker, NEW m \in TaskType, TaskScoped(u, m) PROVE TaskScoped(u, m)'
  <2>1. m.call \in Call
    BY <1>11 DEF TaskType
  <2> QED BY <1>7, <1>11, <2>1 DEF TaskScoped
<1>12. ASSUME NEW u \in Worker PROVE TaskScoped(u, k)'
  BY <1>5, <1>7 DEF TaskScoped
<1>13. ASSUME NEW u \in Worker PROVE ScopedThread(u)'
  <2>1. ScopedThread(u) /\ \A i \in 1 .. Len(stack[u]) : stack[u][i] \in TaskType
    BY TaskTypes DEF ScopeInv
  <2>2. CASE u \in Spawned(c)
    <3>1. stack'[u] = <<k>> /\ Len(stack'[u]) = 1 /\ stack'[u][1] = k
      BY <1>8, <2>2
    <3> QED BY <1>5, <1>12, <2>2, <3>1 DEF ScopedThread, TopScoped, Top
  <2>3. CASE u \notin Spawned(c) /\ u # t
    <3>1. stack'[u] = stack[u] /\ overlays'[u] = overlays[u]
      BY <1>6, <1>8, <2>3
    <3> QED BY <1>11, <2>1, <3>1 DEF ScopedThread, TopScoped, Top
  <2>4. CASE u \notin Spawned(c) /\ u = t
    <3> DEFINE N == Len(stack[t])
    <3>0. /\ stack[t] \in Seq(TaskType) /\ N \in Nat \ {0} /\ stack[t][N] = Top(t)
      BY <1>1, <1>4 DEF Top
    <3>1. stack'[t] = Append(stack[t], k)
      BY <1>8, <2>4
    <3>2. /\ Len(stack'[t]) = N + 1 /\ stack'[t][N + 1] = k
          /\ \A i \in 1 .. N : stack'[t][i] = stack[t][i]
      BY <1>5, <3>0, <3>1
    <3>3. Makes(Top(t), k)
      BY <1>1, <1>3, <1>5 DEF Makes, c
    <3> HIDE DEF N
    <3>4. \A i \in 1 .. N + 1 : TaskScoped(t, stack[t][i])'
      <4> SUFFICES ASSUME NEW i \in 1 .. N + 1 PROVE TaskScoped(t, stack[t][i])'
        OBVIOUS
      <4>1. CASE i = N + 1
        BY <1>12, <3>2, <4>1
      <4>2. CASE i # N + 1
        <5>1. i \in 1 .. N /\ stack'[t][i] = stack[t][i]
          BY <3>0, <3>2, <4>2
        <5> QED BY <1>11, <2>1, <2>4, <3>2, <5>1 DEF ScopedThread, N
      <4> QED BY <4>1, <4>2
    <3>5. \A i \in 1 .. N : Makes(stack'[t][i], stack'[t][i + 1])
      <4> SUFFICES ASSUME NEW i \in 1 .. N PROVE Makes(stack'[t][i], stack'[t][i + 1])
        OBVIOUS
      <4>1. CASE i = N
        BY <3>0, <3>2, <3>3, <4>1
      <4>2. CASE i # N
        <5>1. i \in 1 .. N - 1 /\ i + 1 \in 1 .. N
          BY <3>0, <4>2
        <5> QED BY <2>1, <2>4, <3>2, <5>1 DEF ScopedThread, N
      <4> QED BY <4>1, <4>2
    <3>6. TopScoped(t)'
      BY <1>5, <1>6, <3>2 DEF TopScoped, Top
    <3>7. Len(stack'[t]) - 1 = N
      BY <3>0, <3>2
    <3> QED BY <2>4, <3>2, <3>4, <3>5, <3>6, <3>7 DEF ScopedThread
  <2> QED BY <2>2, <2>3, <2>4
<1> QED BY <1>10, <1>13 DEF ScopeInv

LEMMA JoinNestedScoped ==
  ASSUME CallTree, ScopeInv, NEW t \in Worker, JoinNested(t) PROVE ScopeInv'
<1> DEFINE N == Len(stack[t])
           below == stack[t][N - 1]
           f == [below EXCEPT !.pc = "take"]
           s == Front(stack[t])
           r == Front(s) \o <<f>>
           o == Front(overlays[t])
<1>1. /\ stack \in [Worker -> Seq(TaskType)] /\ overlays \in [Worker -> Scope]
      /\ captured \in [Call -> Scope] /\ stack[t] \in Seq(TaskType)
  BY DEF ScopeInv, Typed
<1>2. /\ N \in Nat /\ N > 1 /\ stack[t] # << >> /\ Top(t).pc = "join"
      /\ Top(t) = stack[t][N] /\ Top(t) \in TaskType /\ below \in TaskType
  BY <1>1, TaskTypes DEF JoinNested, Joinable, InTask, Top
<1>3. /\ captured' = captured /\ overlays' = [overlays EXCEPT ![t] = o]
      /\ stack' = [stack EXCEPT ![t] = r]
  BY DEF JoinNested
<1>4. ScopedThread(t)
  BY DEF ScopeInv
<1>5. /\ TaskScoped(t, below) /\ Makes(below, Top(t)) /\ TaskScoped(t, Top(t)) /\ TopScoped(t)
  <2>1. N - 1 \in 1 .. N - 1 /\ N - 1 \in 1 .. N /\ N \in 1 .. N /\ (N - 1) + 1 = N
    BY <1>2
  <2> QED BY <1>2, <1>4, <2>1 DEF ScopedThread
<1>6. /\ f \in TaskType /\ f.call = below.call /\ f.pc = "take" /\ f.saved = below.saved
      /\ below.pc = "run"
  BY <1>2, <1>5 DEF TaskType, Makes
<1>7. TaskScoped(t, f)
  BY <1>5, <1>6 DEF TaskScoped
<1>8. o = ScopeOf(f.call) /\ o \in Scope
  <2>1. overlays[t] = ScopeOf(Top(t).call)
    BY <1>2, <1>5 DEF TaskScoped, TopScoped
  <2>2. PICK n \in Nested : n.call = below.call /\ n.calls = Top(t).call
    BY <1>5 DEF Makes
  <2>3. /\ ScopeOf(Top(t).call) = Append(ScopeOf(below.call), <<n.call, n.item>>)
        /\ ScopeOf(below.call) \in Scope /\ <<n.call, n.item>> \in Call \X Nat
    BY <2>2, TreeTypes
  <2>4. \A p \in Scope, e \in Call \X Nat : Front(Append(p, e)) = p
    BY DEF Scope, Front
  <2>5. Front(Append(ScopeOf(below.call), <<n.call, n.item>>)) = ScopeOf(below.call)
    BY <2>3, <2>4
  <2> QED BY <1>6, <2>1, <2>3, <2>5
<1>9. /\ s \in Seq(TaskType) /\ s # << >> /\ Len(s) = N - 1
      /\ \A i \in 1 .. N - 1 : s[i] = stack[t][i]
  <2>1. s = SubSeq(stack[t], 1, N - 1)
    BY DEF Front
  <2>2. N - 1 \in 1 .. N
    BY <1>2
  <2> HIDE DEF s
  <2>3. /\ s \in Seq(TaskType) /\ Len(s) = N - 1
        /\ \A i \in 1 .. N - 1 : s[i] = stack[t][i]
    BY <1>1, <1>2, <2>1, <2>2
  <2> QED BY <1>2, <2>3
<1> HIDE DEF N, f, s, o, below
<1>10. /\ r \in Seq(TaskType) /\ Len(r) = N - 1 /\ r[N - 1] = f
       /\ \A i \in 1 .. N - 2 : r[i] = s[i]
  <2>1. /\ r \in Seq(TaskType) /\ Len(r) = Len(s) /\ r[Len(s)] = f
        /\ \A i \in 1 .. Len(s) - 1 : r[i] = s[i]
    <3>1. s \in Seq(TaskType) /\ s # << >> /\ f \in TaskType
      BY <1>6, <1>9
    <3> QED BY <3>1, TopReplaced
  <2> HIDE DEF r
  <2> QED BY <1>2, <1>9, <2>1
<1>11. \A i \in 1 .. N - 2 : r[i] = stack[t][i]
  <2> HIDE DEF r
  <2> QED BY <1>2, <1>9, <1>10
<1> HIDE DEF r
<1>12. Typed'
  BY <1>1, <1>3, <1>8, <1>10 DEF Typed
<1>13. ASSUME NEW u \in Worker, u # t PROVE ScopedThread(u)'
  <2>1. stack'[u] = stack[u] /\ overlays'[u] = overlays[u]
    BY <1>1, <1>3, <1>13
  <2> QED BY <1>3, <2>1 DEF ScopeInv, ScopedThread, TaskScoped, TopScoped, Top
<1>14. ScopedThread(t)'
  <2>1. stack'[t] = r /\ overlays'[t] = o
    BY <1>1, <1>3
  <2>2. \A i \in 1 .. N - 1 : TaskScoped(t, r[i])
    <3> SUFFICES ASSUME NEW i \in 1 .. N - 1 PROVE TaskScoped(t, r[i])
      OBVIOUS
    <3>1. CASE i = N - 1
      BY <1>7, <1>10, <3>1
    <3>2. CASE i # N - 1
      BY <1>2, <1>4, <1>11, <3>2 DEF ScopedThread, N
    <3> QED BY <3>1, <3>2
  <2>3. \A i \in 1 .. N - 2 : Makes(r[i], r[i + 1])
    <3> SUFFICES ASSUME NEW i \in 1 .. N - 2 PROVE Makes(r[i], r[i + 1])
      OBVIOUS
    <3>1. Makes(stack[t][i], stack[t][i + 1]) /\ r[i] = stack[t][i]
      BY <1>2, <1>4, <1>11 DEF ScopedThread, N
    <3>2. CASE i = N - 2
      <4>1. r[i + 1] = f /\ stack[t][i + 1] = below
        BY <1>2, <1>10, <3>2 DEF below
      <4> QED BY <1>6, <3>1, <4>1 DEF Makes
    <3>3. CASE i # N - 2
      BY <1>2, <1>11, <3>1, <3>3
    <3> QED BY <3>2, <3>3
  <2>4. TopScoped(t)'
    BY <1>2, <1>8, <1>10, <2>1 DEF TopScoped, Top
  <2>5. Len(stack'[t]) = N - 1 /\ Len(stack'[t]) - 1 = N - 2
    BY <1>2, <1>10, <2>1
  <2> QED BY <1>3, <2>1, <2>2, <2>3, <2>4, <2>5 DEF ScopedThread, TaskScoped
<1> QED BY <1>12, <1>13, <1>14 DEF ScopeInv

LEMMA InitScoped == CallTree /\ RuntimeInit => ScopeInv
<1> SUFFICES ASSUME CallTree, RuntimeInit PROVE ScopeInv
  OBVIOUS
<1> DEFINE k == Task(Root)
<1>1. /\ k \in TaskType /\ k.call = Root /\ k.pc = "enter" /\ << >> \in Seq(TaskType)
      /\ << >> \in Scope
  BY TreeTypes DEF Task, TaskType, Scope
<1>2. ScopeOf(Root) = RootScope
  BY PathFacts, TreeTypes DEF ScopeOf, Scope
<1>3. \A u \in Worker : stack[u] = IF u \in Spawned(Root) \/ u = Main THEN <<k>> ELSE << >>
  BY DEF RuntimeInit, Started
<1>4. stack = [u \in Worker |-> stack[u]]
  BY DEF RuntimeInit, Started
<1> HIDE DEF k
<1>5. Typed
  <2>1. <<k>> \in Seq(TaskType)
    BY <1>1
  <2>2. \A u \in Worker : stack[u] \in Seq(TaskType)
    BY <1>1, <1>3, <2>1
  <2> QED BY <1>1, <1>4, <2>2, TreeTypes DEF Typed, RuntimeInit
<1>6. ASSUME NEW u \in Worker PROVE ScopedThread(u)
  <2>1. CASE stack[u] = << >>
    BY <2>1 DEF ScopedThread, TopScoped
  <2>2. CASE stack[u] # << >>
    <3>1. stack[u] = <<k>> /\ Len(stack[u]) = 1 /\ stack[u][1] = k /\ Top(u) = k
      BY <1>3, <2>2 DEF Top
    <3>2. captured[Root] = RootScope
      BY TreeTypes DEF RuntimeInit
    <3>3. TaskScoped(u, k)
      BY <1>1, <1>2, <3>2 DEF TaskScoped
    <3>4. u \in Spawned(Root) \/ overlays[u] = RootScope
      BY <1>3, <2>2 DEF RuntimeInit
    <3> QED BY <1>1, <1>2, <3>1, <3>3, <3>4 DEF ScopedThread, TopScoped
  <2> QED BY <2>1, <2>2
<1> QED BY <1>5, <1>6 DEF ScopeInv

LEMMA NextScoped == CallTree /\ ScopeInv /\ [RuntimeNext]_runtimeVars => ScopeInv'
<1> SUFFICES ASSUME CallTree, ScopeInv, [RuntimeNext]_runtimeVars PROVE ScopeInv'
  OBVIOUS
<1>1. ASSUME NEW t \in Worker, Enter(t) PROVE ScopeInv'
  BY <1>1, EnterScoped
<1>2. ASSUME NEW t \in Worker, Take(t) PROVE ScopeInv'
  BY <1>2, TakeScoped
<1>3. ASSUME NEW t \in Worker, Leave(t) PROVE ScopeInv'
  BY <1>3, LeaveScoped
<1>4. ASSUME NEW t \in Worker, RunLeaf(t) \/ ThrowLeaf(t) PROVE ScopeInv'
  BY <1>4, LeafScoped DEF RunLeaf, ThrowLeaf
<1>5. ASSUME NEW t \in Worker, RunNested(t) PROVE ScopeInv'
  BY <1>5, RunNestedScoped
<1>6. ASSUME NEW t \in Worker, JoinNested(t) PROVE ScopeInv'
  BY <1>6, JoinNestedScoped
<1>7. ASSUME NEW t \in Worker, JoinRoot(t) PROVE ScopeInv'
  BY <1>7, JoinRootScoped
<1>8. CASE UNCHANGED runtimeVars
  BY <1>8 DEF runtimeVars, ScopeInv, Typed, ScopedThread, TaskScoped, TopScoped, Top
<1> QED BY <1>1, <1>2, <1>3, <1>4, <1>5, <1>6, <1>7, <1>8 DEF RuntimeNext, WorkerStep

(* Each invocation of an operation sees the scoped contexts of the code    *)
(* that makes the call, on whichever thread it runs and however deep the   *)
(* calls are nested.                                                       *)
THEOREM ScopesCorrect == ASSUME CallTree PROVE RuntimeSpec => []SeesCallersScopes
<1>1. RuntimeInit => ScopeInv
  BY InitScoped
<1>2. ScopeInv /\ [RuntimeNext]_runtimeVars => ScopeInv'
  BY NextScoped
<1>3. ScopeInv => SeesCallersScopes
  BY DEF ScopeInv, ScopedThread, TopScoped, SeesCallersScopes, InTask, ScopeOf
<1> QED BY <1>1, <1>2, <1>3, PTL DEF RuntimeSpec

-----------------------------------------------------------------------------
(* Every item runs once.  A place is a level of a thread's stack, with a   *)
(* task; a call is begun once it has its caller's contexts, and over when  *)
(* it was begun and no place has a task of it.                             *)

Places == {p \in Worker \X Nat : p[2] \in 1 .. Len(stack[p[1]])}
At(p) == stack[p[1]][p[2]]
Above(p) == <<p[1], p[2] + 1>>

Begun(c) == captured[c] # << >>
Active(c) == \E p \in Places : At(p).call = c

\* which of the call's workers has the task
Number(p) == IF p[1] \in Spawned(At(p).call) THEN p[1][2] ELSE NThreads

\* item i of call c was handed out, and is being run
Taken(c, i) ==
  IF Kind[c] = "each" THEN i <= work[c]
  ELSE Begun(c) /\ \A p \in Places : At(p).call = c /\ Number(p) = i => At(p).item # 0
Runs(p, c, i) == At(p).pc = "run" /\ At(p).call = c /\ At(p).item = i
Held(c, i) == \E p \in Places : Runs(p, c, i)

\* nothing was done of item i of call c, or all of it
Fresh(c, i) == /\ Calls(c, i) = {} => ran[<<c, i>>] = 0
               /\ \A n \in Calls(c, i) : ~Begun(n.calls)
Done(c, i) == /\ Calls(c, i) = {} => ran[<<c, i>>] = 1
              /\ \A n \in Calls(c, i) : Begun(n.calls) /\ ~Active(n.calls)

\* a thread begins in the call that started it, and joins in no call that did
Bottoms == \A p \in Places : IF p[2] = 1 THEN At(p).call = p[1][1]
                             ELSE p[1] \notin Spawned(At(p).call)

\* an item is run in one place
OneHolder == \A p, q \in Places :
  At(p).pc = "run" /\ Runs(q, At(p).call, At(p).item) => p = q

\* the item of a task: one that was handed out; in a parallel_do its number
ItemOf(p) ==
  /\ At(p).pc = "run" => At(p).item \in Items(At(p).call)
  /\ Kind[At(p).call] = "each" /\ At(p).pc = "run" => At(p).item <= work[At(p).call]
  /\ Kind[At(p).call] = "do" =>
       /\ At(p).item \in {0, Number(p)}
       /\ At(p).pc = "enter" => At(p).item = 0
       /\ At(p).pc \in {"run", "join"} => At(p).item # 0

\* the counters; of a for_each, the caller helps until all items are handed out
Counted == \A c \in Call :
  /\ work[c] \in 0 .. Size[c]
  /\ ~Begun(c) => work[c] = 0
  /\ Begun(c) /\ Kind[c] = "each" /\ work[c] # Size[c] =>
       \E p \in Places : At(p).call = c /\ p[1] \notin Spawned(c) /\ At(p).pc # "join"

\* what was done of an item
ItemsInOrder == \A c \in Call : \A i \in Items(c) :
  /\ ~Taken(c, i) => Fresh(c, i)
  /\ Taken(c, i) /\ ~Held(c, i) => Done(c, i)
Ready == \A p \in Places :
  At(p).pc = "run" /\ Above(p) \notin Places => Fresh(At(p).call, At(p).item)

Ended == Begun(Root) /\ (Over => ~Active(Root))

ItemsInv ==
  /\ ran \in [Leaves -> Nat] /\ work \in [Call -> Nat]
  /\ Bottoms /\ OneHolder /\ (\A p \in Places : ItemOf(p)) /\ Counted
  /\ ItemsInOrder /\ Ready /\ Ended

LEMMA PlaceFacts ==
  ASSUME Typed, NEW p \in Places
  PROVE  /\ p[1] \in Worker /\ p[2] \in Nat \ {0} /\ p = <<p[1], p[2]>>
         /\ At(p) \in TaskType /\ At(p).call \in Call
<1>1. p[1] \in Worker /\ p[2] \in Nat /\ p = <<p[1], p[2]>> /\ p[2] \in 1 .. Len(stack[p[1]])
  BY DEF Places
<1>2. At(p) \in TaskType /\ Len(stack[p[1]]) \in Nat
  BY <1>1, TaskTypes DEF At
<1> QED BY <1>1, <1>2 DEF TaskType

\* a call with a task is begun, and each task but a thread's first is made by
\* the item that the task below it runs
LEMMA PlaceScoped ==
  ASSUME CallTree, ScopeInv, NEW p \in Places
  PROVE  /\ Begun(At(p).call)
         /\ Above(p) \in Places => Makes(At(p), At(Above(p)))
         /\ p[2] # 1 => <<p[1], p[2] - 1>> \in Places /\ Makes(At(<<p[1], p[2] - 1>>), At(p))
<1>1. Typed /\ ScopedThread(p[1]) /\ stack[p[1]] \in Seq(TaskType)
  BY PlaceFacts, TaskTypes DEF ScopeInv
<1>2. /\ p[1] \in Worker /\ p[2] \in Nat \ {0} /\ p = <<p[1], p[2]>> /\ At(p).call \in Call
      /\ p[2] \in 1 .. Len(stack[p[1]]) /\ Len(stack[p[1]]) \in Nat
  BY <1>1, PlaceFacts DEF Places
<1>3. Begun(At(p).call)
  <2>1. captured[At(p).call] = ScopeOf(At(p).call)
    BY <1>1, <1>2 DEF ScopedThread, TaskScoped, At
  <2>2. Path[At(p).call] \in Seq(Call \X Nat)
    BY <1>2, PathType
  <2>3. RootScope \in Seq(Call \X Nat) /\ Len(RootScope) = 1
    BY TreeTypes DEF RootScope, Scope
  <2>4. \A a, b \in Seq(Call \X Nat) : Len(a) = 1 => a \o b # << >>
    OBVIOUS
  <2> QED BY <2>1, <2>2, <2>3, <2>4 DEF Begun, ScopeOf
<1>4. ASSUME Above(p) \in Places PROVE Makes(At(p), At(Above(p)))
  <2>1. p[2] \in 1 .. Len(stack[p[1]]) - 1
    BY <1>2, <1>4 DEF Above, Places
  <2> QED BY <1>1, <2>1 DEF ScopedThread, At, Above
<1>5. ASSUME p[2] # 1
      PROVE  <<p[1], p[2] - 1>> \in Places /\ Makes(At(<<p[1], p[2] - 1>>), At(p))
  <2>1. p[2] - 1 \in 1 .. Len(stack[p[1]]) - 1 /\ (p[2] - 1) + 1 = p[2]
    BY <1>2, <1>5
  <2>2. <<p[1], p[2] - 1>> \in Places
    BY <1>2, <2>1 DEF Places
  <2> QED BY <1>1, <2>1, <2>2 DEF ScopedThread, At
<1> QED BY <1>3, <1>4, <1>5

LEMMA NumberFacts ==
  ASSUME CallTree, Typed, NEW p \in Places
  PROVE  /\ Number(p) \in 1 .. NThreads
         /\ p[1] \in Spawned(At(p).call) => /\ Number(p) # NThreads
                                            /\ p[1] = <<At(p).call, Number(p)>>
         /\ p[1] \notin Spawned(At(p).call) => Number(p) = NThreads
<1>1. NThreads \in Nat \ {0}
  BY DEF CallTree
<1>2. CASE p[1] \in Spawned(At(p).call)
  <2>1. PICK k \in 1 .. NThreads - 1 : p[1] = <<At(p).call, k>>
    BY <1>2 DEF Spawned
  <2>2. Number(p) = k
    BY <1>2, <2>1 DEF Number
  <2> QED BY <1>1, <1>2, <2>1, <2>2
<1>3. CASE p[1] \notin Spawned(At(p).call)
  BY <1>1, <1>3 DEF Number
<1> QED BY <1>2, <1>3

\* a thread that a call did not start is its caller, in the one place that
\* makes the call: no two tasks of a call have the same number
LEMMA OneWorker ==
  ASSUME CallTree, ScopeInv, Bottoms, OneHolder, NEW p \in Places, NEW q \in Places,
         At(p).call = At(q).call, Number(p) = Number(q)
  PROVE  p = q
<1>0. Typed
  BY DEF ScopeInv
<1>1. /\ p[1] \in Worker /\ p[2] \in Nat \ {0} /\ p = <<p[1], p[2]>>
      /\ q[1] \in Worker /\ q[2] \in Nat \ {0} /\ q = <<q[1], q[2]>>
  BY <1>0, PlaceFacts
<1> DEFINE c == At(p).call
<1>2. CASE p[1] \in Spawned(c)
  <2>1. p[1] = <<c, Number(p)>> /\ q[1] = <<c, Number(p)>>
    BY <1>0, <1>2, NumberFacts
  <2>2. p[2] = 1 /\ q[2] = 1
    BY <1>2, <2>1 DEF Bottoms
  <2> QED BY <1>1, <2>1, <2>2
<1>3. CASE p[1] \notin Spawned(c)
  <2>1. q[1] \notin Spawned(c)
    BY <1>0, <1>3, NumberFacts
  <2>2. \A r \in Places : At(r).call = c /\ r[1] \notin Spawned(c) /\ r[2] = 1
                            => r[1] = Main /\ c = Root
    <3> SUFFICES ASSUME NEW r \in Places, At(r).call = c, r[1] \notin Spawned(c), r[2] = 1
                 PROVE  r[1] = Main /\ c = Root
      OBVIOUS
    <3>1. c = r[1][1] /\ r[1] \in Worker
      BY <1>0, PlaceFacts DEF Bottoms
    <3>2. r[1] = Main \/ \E d \in Call : r[1] \in Spawned(d)
      BY <3>1 DEF Worker
    <3>3. ASSUME NEW d \in Call, r[1] \in Spawned(d) PROVE FALSE
      BY <3>1, <3>3 DEF Spawned
    <3> QED BY <3>1, <3>2, <3>3 DEF Main
  <2>3. \A r \in Places : At(r).call = c /\ r[2] # 1 => c # Root
    <3> SUFFICES ASSUME NEW r \in Places, At(r).call = c, r[2] # 1 PROVE c # Root
      OBVIOUS
    <3>1. PICK n \in Nested : n.calls = At(r).call
      BY PlaceScoped DEF Makes
    <3> QED BY <3>1, MakerFacts
  <2>4. CASE p[2] = 1
    BY <1>1, <1>3, <2>1, <2>2, <2>3, <2>4
  <2>5. CASE p[2] # 1
    <3>1. q[2] # 1
      BY <1>3, <2>1, <2>2, <2>3, <2>5
    <3> DEFINE a == <<p[1], p[2] - 1>>
               b == <<q[1], q[2] - 1>>
    <3>2. a \in Places /\ b \in Places /\ Makes(At(a), At(p)) /\ Makes(At(b), At(q))
      BY <2>5, <3>1, PlaceScoped
    <3>3. At(a).pc = "run" /\ Runs(b, At(a).call, At(a).item)
      <4> HIDE DEF a, b
      <4>1. PICK n \in Nested : n.call = At(a).call /\ n.item = At(a).item /\ n.calls = c
        BY <3>2 DEF Makes
      <4>2. PICK m \in Nested : m.call = At(b).call /\ m.item = At(b).item /\ m.calls = c
        BY <3>2 DEF Makes
      <4>3. n = m
        BY <4>1, <4>2 DEF CallTree
      <4> QED BY <3>2, <4>1, <4>2, <4>3 DEF Makes, Runs
    <3>4. a = b
      <4> HIDE DEF a, b
      <4> QED BY <3>2, <3>3 DEF OneHolder
    <3> QED BY <1>1, <3>4
  <2> QED BY <2>4, <2>5
<1> QED BY <1>2, <1>3

\* an item that is being run was handed out
LEMMA HeldTaken ==
  ASSUME CallTree, ScopeInv, Bottoms, OneHolder, NEW p \in Places, ItemOf(p), At(p).pc = "run"
  PROVE  At(p).item \in Items(At(p).call) /\ Taken(At(p).call, At(p).item)
<1>0. Typed /\ At(p).call \in Call
  BY PlaceFacts DEF ScopeInv
<1>1. At(p).item \in Items(At(p).call)
  BY DEF ItemOf
<1>2. CASE Kind[At(p).call] = "each"
  BY <1>1, <1>2 DEF ItemOf, Taken
<1>3. CASE Kind[At(p).call] # "each"
  <2>1. Kind[At(p).call] = "do"
    BY <1>0, <1>3 DEF CallTree
  <2>2. At(p).item = Number(p) /\ At(p).item # 0
    BY <2>1 DEF ItemOf
  <2>3. ASSUME NEW q \in Places, At(q).call = At(p).call, Number(q) = At(p).item
        PROVE  At(q).item # 0
    BY <2>2, <2>3, OneWorker
  <2> QED BY <1>1, <1>3, <2>3, PlaceScoped DEF Taken
<1> QED BY <1>2, <1>3

\* the innermost place of a thread
Innermost(t) == <<t, Len(stack[t])>>

LEMMA InnermostFacts ==
  ASSUME Typed, NEW t \in Worker, stack[t] # << >>
  PROVE  /\ Innermost(t) \in Places /\ Above(Innermost(t)) \notin Places
         /\ At(Innermost(t)) = Top(t) /\ Innermost(t)[1] = t
<1>1. Len(stack[t]) \in Nat /\ Len(stack[t]) \in 1 .. Len(stack[t])
  BY TaskTypes
<1> QED BY <1>1 DEF Innermost, Above, Places, At, Top

\* a step within a thread's innermost task changes the task at its place only
LEMMA PlacesOfTop ==
  ASSUME Typed, NEW t \in Worker, stack[t] # << >>, NEW p, p = Innermost(t),
         NEW f \in TaskType, stack' = SetTop(stack, t, f)
  PROVE  /\ Places' = Places /\ At(p)' = f
         /\ \A q \in Places : q # p => At(q)' = At(q)
<1>1. stack \in [Worker -> Seq(TaskType)] /\ stack[t] \in Seq(TaskType)
  BY DEF Typed
<1> DEFINE r == Front(stack[t]) \o <<f>>
<1>2. stack' = [stack EXCEPT ![t] = r]
  BY DEF SetTop
<1>3. /\ r \in Seq(TaskType) /\ Len(r) = Len(stack[t]) /\ Len(stack[t]) > 0
      /\ \A i \in 1 .. Len(stack[t]) - 1 : r[i] = stack[t][i]
      /\ r[Len(stack[t])] = f
  BY <1>1, TopReplaced
<1> HIDE DEF r
<1>4. stack'[t] = r /\ \A u \in Worker \ {t} : stack'[u] = stack[u]
  BY <1>1, <1>2
<1>5. \A u \in Worker : Len(stack'[u]) = Len(stack[u])
  BY <1>3, <1>4
<1>6. Places' = Places
  BY <1>5 DEF Places
<1>7. At(p)' = f
  <2>1. p[1] = t /\ p[2] = Len(stack[t])
    BY DEF Innermost
  <2> QED BY <1>3, <1>4, <2>1 DEF At
<1>8. ASSUME NEW q \in Places, q # p PROVE At(q)' = At(q)
  <2>1. q[1] \in Worker /\ q = <<q[1], q[2]>> /\ q[2] \in 1 .. Len(stack[q[1]])
    BY DEF Places
  <2>2. CASE q[1] = t
    <3>1. q[2] # Len(stack[t])
      BY <1>8, <2>1, <2>2 DEF Innermost
    <3>2. q[2] \in 1 .. Len(stack[t]) - 1
      BY <1>3, <2>1, <2>2, <3>1
    <3> QED BY <1>3, <1>4, <2>2, <3>2 DEF At
  <2>3. CASE q[1] # t
    BY <1>4, <2>1, <2>3 DEF At
  <2> QED BY <2>2, <2>3
<1> QED BY <1>6, <1>7, <1>8

\* ... and it stays a task of the same call
LEMMA InPlace ==
  ASSUME Typed, NEW t \in Worker, stack[t] # << >>, NEW p, p = Innermost(t),
         NEW f \in TaskType, f.call = Top(t).call, stack' = SetTop(stack, t, f)
  PROVE  /\ p \in Places /\ p[1] = t /\ At(p) = Top(t) /\ Above(p) \notin Places
         /\ Places' = Places /\ At(p)' = f
         /\ \A q \in Places : /\ q # p => At(q)' = At(q)
                              /\ At(q)'.call = At(q).call /\ Number(q)' = Number(q)
         /\ \A d : Active(d)' <=> Active(d)
         /\ Bottoms => Bottoms'
<1>1. p \in Places /\ p[1] = t /\ At(p) = Top(t) /\ Above(p) \notin Places
  BY InnermostFacts
<1>2. Places' = Places /\ At(p)' = f /\ \A q \in Places : q # p => At(q)' = At(q)
  BY PlacesOfTop
<1>3. \A q \in Places : At(q)'.call = At(q).call
  BY <1>1, <1>2
<1>4. \A q \in Places : Number(q)' = Number(q)
  BY <1>3 DEF Number
<1>5. \A d : Active(d)' <=> Active(d)
  BY <1>2, <1>3 DEF Active
<1>6. Bottoms => Bottoms'
  BY <1>2, <1>3 DEF Bottoms
<1> QED BY <1>1, <1>2, <1>3, <1>4, <1>5, <1>6

\* the item that a worker takes next
LEMMA NextItemFacts ==
  ASSUME CallTree, Typed, NEW t \in Worker, stack[t] # << >>, NEW p, p = Innermost(t),
         NEW c, c = Top(t).call
  PROVE  /\ Kind[c] = "each" => NextItem(t) = work[c] + 1
         /\ Kind[c] = "do" /\ Top(t).item = 0 => NextItem(t) = Number(p) /\ NextItem(t) \in Items(c)
         /\ Kind[c] = "do" /\ Top(t).item # 0 => NextItem(t) \notin Items(c)
<1>1. p \in Places /\ p[1] = t /\ At(p) = Top(t)
  BY InnermostFacts
<1>2. c \in Call /\ Size[c] \in Nat
  BY <1>1, PlaceFacts DEF CallTree
<1>3. WorkerNumber(t) = Number(p)
  BY <1>1 DEF WorkerNumber, Number
<1>4. Kind[c] = "do" => Number(p) \in Items(c)
  BY <1>1, <1>2, NumberFacts DEF CallTree, Items
<1>5. Kind[c] = "each" => NextItem(t) = work[c] + 1
  BY DEF NextItem
<1>6. Kind[c] = "do" /\ Top(t).item = 0 => NextItem(t) = Number(p) /\ NextItem(t) \in Items(c)
  BY <1>3, <1>4 DEF NextItem
<1>7. Kind[c] = "do" /\ Top(t).item # 0 => NextItem(t) \notin Items(c)
  BY <1>2 DEF NextItem, Items
<1> QED BY <1>5, <1>6, <1>7

-----------------------------------------------------------------------------
(* Each step keeps the items in order.                                     *)

\* a worker enters its call, or its caller finds no item left
LEMMA QuietItems ==
  ASSUME CallTree, ScopeInv, ItemsInv, NEW t \in Worker, stack[t] # << >>, Top(t).pc # "run",
         NEW p, p = Innermost(t),
         NEW f \in TaskType, f.call = Top(t).call, f.item = Top(t).item, f.pc \in {"take", "join"},
         f.pc = "join" => NextItem(t) \notin Items(f.call),
         stack' = SetTop(stack, t, f), UNCHANGED <<captured, work, ran, reported>>
  PROVE  ItemsInv'
<1> DEFINE c == f.call
<1>0. Typed
  BY DEF ScopeInv
<1>1. /\ p \in Places /\ p[1] = t /\ At(p) = Top(t) /\ Above(p) \notin Places
      /\ c \in Call /\ Size[c] \in Nat /\ Kind[c] \in {"each", "do"}
  BY <1>0, InnermostFacts, PlaceFacts DEF CallTree
<1>2. /\ Kind[c] = "each" => NextItem(t) = work[c] + 1
      /\ Kind[c] = "do" /\ Top(t).item = 0 => NextItem(t) \in Items(c)
  BY <1>0, NextItemFacts
<1> HIDE DEF c
<1>4. /\ Places' = Places /\ At(p)' = f /\ Bottoms'
      /\ \A q \in Places : /\ q # p => At(q)' = At(q)
                           /\ At(q)'.call = At(q).call /\ Number(q)' = Number(q)
      /\ \A d : Active(d)' <=> Active(d)
  BY <1>0, InPlace DEF ItemsInv
<1>5. \A q \in Places : /\ At(q)'.item = At(q).item
                        /\ At(q)'.pc = "run" <=> At(q).pc = "run"
                        /\ At(q)'.pc = "run" => q # p
  BY <1>1, <1>4
<1>6. \A q \in Places : \A d, j : Runs(q, d, j)' <=> Runs(q, d, j)
  BY <1>4, <1>5 DEF Runs
<1>7. OneHolder'
  BY <1>4, <1>5, <1>6 DEF ItemsInv, OneHolder
<1>8. ASSUME NEW q \in Places' PROVE ItemOf(q)'
  <2>1. ItemOf(q)
    BY <1>4 DEF ItemsInv
  <2>2. CASE q # p
    BY <1>4, <2>1, <2>2 DEF ItemOf
  <2>3. CASE q = p
    <3>1. Number(p)' = Number(p) /\ At(p)'.item = Top(t).item /\ At(p)'.call = c /\ At(p)'.pc = f.pc
      BY <1>1, <1>4, <1>5 DEF c
    <3>2. Kind[c] = "do" /\ f.pc = "join" => Top(t).item # 0
      BY <1>2 DEF c
    <3>3. Kind[c] = "do" => Top(t).item \in {0, Number(p)}
      BY <1>1, <2>1, <2>3 DEF ItemOf, c
    <3> QED BY <1>1, <2>3, <3>1, <3>2, <3>3 DEF ItemOf
  <2> QED BY <2>2, <2>3
<1>9. Counted'
  <2> SUFFICES ASSUME NEW d \in Call
               PROVE  /\ work[d] \in 0 .. Size[d] /\ (~Begun(d)' => work[d] = 0)
                      /\ Begun(d)' /\ Kind[d] = "each" /\ work[d] # Size[d] =>
                           \E q \in Places : /\ At(q)'.call = d /\ q[1] \notin Spawned(d)
                                             /\ At(q)'.pc # "join"
    BY <1>4 DEF Counted
  <2>1. /\ work[d] \in 0 .. Size[d] /\ (~Begun(d) => work[d] = 0)
        /\ Begun(d) /\ Kind[d] = "each" /\ work[d] # Size[d] =>
             \E q \in Places : At(q).call = d /\ q[1] \notin Spawned(d) /\ At(q).pc # "join"
    BY DEF ItemsInv, Counted
  <2>2. Begun(d)' <=> Begun(d)
    BY DEF Begun
  <2>3. ASSUME Begun(d), Kind[d] = "each", work[d] # Size[d]
        PROVE  \E q \in Places : At(q)'.call = d /\ q[1] \notin Spawned(d) /\ At(q)'.pc # "join"
    <3>1. PICK q \in Places : At(q).call = d /\ q[1] \notin Spawned(d) /\ At(q).pc # "join"
      BY <2>1, <2>3
    <3>2. CASE q # p
      BY <1>4, <3>1, <3>2
    <3>3. CASE q = p
      <4>1. c = d
        BY <1>1, <3>1, <3>3 DEF c
      <4>2. f.pc # "join"
        BY <1>1, <1>2, <2>1, <2>3, <4>1 DEF Items, c
      <4> QED BY <1>4, <3>1, <3>3, <4>2
    <3> QED BY <3>2, <3>3
  <2> QED BY <2>1, <2>2, <2>3
<1>10. \A d, j : /\ Taken(d, j)' <=> Taken(d, j)
                 /\ Held(d, j)' <=> Held(d, j)
                 /\ Fresh(d, j)' <=> Fresh(d, j)
                 /\ Done(d, j)' <=> Done(d, j)
  BY <1>4, <1>5, <1>6 DEF Taken, Held, Fresh, Done, Begun
<1>11. ItemsInOrder'
  BY <1>10 DEF ItemsInv, ItemsInOrder
<1>12. Ready'
  <2> SUFFICES ASSUME NEW q \in Places, At(q)'.pc = "run", Above(q)' \notin Places
               PROVE  Fresh(At(q).call, At(q).item)'
    BY <1>4 DEF Ready
  <2>1. At(q)' = At(q) /\ Above(q)' = Above(q)
    BY <1>4, <1>5 DEF Above
  <2> QED BY <1>10, <2>1 DEF ItemsInv, Ready
<1>13. Ended'
  BY <1>4 DEF ItemsInv, Ended, Begun, Over
<1> QED BY <1>4, <1>7, <1>8, <1>9, <1>11, <1>12, <1>13 DEF ItemsInv

\* an item without calls is run
LEMMA LeafItems ==
  ASSUME CallTree, ScopeInv, ItemsInv, NEW t \in Worker, InTask(t, "run"), AtLeaf(t),
         NEW p, p = Innermost(t), NEW f \in TaskType,
         f.call = Top(t).call, f.item = Top(t).item, f.pc = "take",
         stack' = SetTop(stack, t, f), ran' = [ran EXCEPT ![Leaf(t)] = @ + 1],
         UNCHANGED <<captured, work, reported>>
  PROVE  ItemsInv'
<1> DEFINE c == f.call
           i == f.item
<1>0. Typed /\ stack[t] # << >> /\ Top(t).pc = "run"
  BY DEF ScopeInv, InTask
<1>1. /\ p \in Places /\ p[1] = t /\ At(p) = Top(t) /\ Above(p) \notin Places
      /\ At(p) \in TaskType /\ At(p).call \in Call
  BY <1>0, InnermostFacts, PlaceFacts
<1>2. f.call = Top(t).call /\ f.item = Top(t).item /\ f.pc = "take"
  OBVIOUS
<1>3. /\ Places' = Places /\ At(p)' = f /\ Bottoms'
      /\ \A q \in Places : /\ q # p => At(q)' = At(q)
                           /\ At(q)'.call = At(q).call /\ Number(q)' = Number(q)
      /\ \A d : Active(d)' <=> Active(d)
  <2>1. Bottoms
    BY DEF ItemsInv
  <2> QED BY <1>0, <2>1, InPlace
<1>4. \A q \in Places : /\ At(q)'.item = At(q).item
                        /\ At(q)'.pc = "run" <=> At(q).pc = "run" /\ q # p
  BY <1>0, <1>1, <1>2, <1>3
<1>5. /\ c \in Call /\ i \in Items(c) /\ Taken(c, i) /\ Fresh(c, i) /\ Calls(c, i) = {}
      /\ Leaf(t) = <<c, i>>
  <2>1. ItemOf(p) /\ Bottoms /\ OneHolder /\ Ready
    BY <1>1 DEF ItemsInv
  <2>2. At(p).pc = "run" /\ At(p).call = c /\ At(p).item = i
    BY <1>0, <1>1, <1>2
  <2>3. i \in Items(c) /\ Taken(c, i)
    BY <1>1, <2>1, <2>2, HeldTaken
  <2>4. Fresh(c, i)
    BY <1>1, <2>1, <2>2 DEF Ready
  <2> QED BY <1>1, <1>2, <2>2, <2>3, <2>4 DEF AtLeaf, Leaf
<1>6. \A q \in Places : Runs(q, c, i) => q = p
  <2>1. At(p).pc = "run" /\ At(p).call = c /\ At(p).item = i
    BY <1>0, <1>1, <1>2
  <2> QED BY <1>1, <2>1 DEF ItemsInv, OneHolder
<1> HIDE DEF c, i
<1>7. \A q \in Places : \A d, j : Runs(q, d, j)' <=> Runs(q, d, j) /\ q # p
  BY <1>3, <1>4 DEF Runs
<1>8. OneHolder'
  BY <1>3, <1>4, <1>7 DEF ItemsInv, OneHolder
<1>9. ASSUME NEW q \in Places' PROVE ItemOf(q)'
  <2>1. ItemOf(q)
    BY <1>3 DEF ItemsInv
  <2>2. CASE q # p
    BY <1>3, <2>1, <2>2 DEF ItemOf
  <2>3. CASE q = p
    BY <1>1, <1>2, <1>3, <1>4, <2>1, <2>3 DEF ItemOf
  <2> QED BY <2>2, <2>3
<1>10. Counted'
  <2>1. \A q \in Places : At(q).pc # "join" => At(q)'.pc # "join"
    BY <1>2, <1>3
  <2> QED BY <1>3, <2>1 DEF ItemsInv, Counted, Begun
<1>11. ran' \in [Leaves -> Nat] /\ ran'[<<c, i>>] = 1
       /\ \A d \in Call : \A j \in Items(d) :
            <<d, j>> # <<c, i>> /\ Calls(d, j) = {} => ran'[<<d, j>>] = ran[<<d, j>>]
  <2>1. \A d \in Call : \A j \in Items(d) : Calls(d, j) = {} => <<d, j>> \in Leaves
    BY DEF Leaves
  <2>2. ran \in [Leaves -> Nat] /\ ran[<<c, i>>] = 0
    BY <1>5 DEF ItemsInv, Fresh
  <2>3. ran' = [ran EXCEPT ![<<c, i>>] = @ + 1] /\ <<c, i>> \in Leaves
    BY <1>5, <2>1
  <2> DEFINE l == <<c, i>>
  <2> HIDE DEF l
  <2>4. ran' = [ran EXCEPT ![l] = @ + 1] /\ l \in Leaves /\ ran[l] = 0
    BY <2>2, <2>3 DEF l
  <2>5. ran' \in [Leaves -> Nat] /\ ran'[l] = 1 /\ \A k \in Leaves : k # l => ran'[k] = ran[k]
    BY <2>2, <2>4
  <2> QED BY <2>1, <2>5 DEF l
<1>12. ASSUME NEW d \in Call, NEW j \in Items(d), d # c \/ j # i
       PROVE  /\ Taken(d, j)' <=> Taken(d, j)
              /\ Held(d, j)' <=> Held(d, j)
              /\ Fresh(d, j)' <=> Fresh(d, j)
              /\ Done(d, j)' <=> Done(d, j)
  <2>1. Taken(d, j)' <=> Taken(d, j)
    BY <1>3, <1>4 DEF Taken, Begun
  <2>2. Held(d, j)' <=> Held(d, j)
    <3>1. ~Runs(p, d, j)
      BY <1>1, <1>2, <1>12 DEF Runs, c, i
    <3> QED BY <1>3, <1>7, <3>1 DEF Held
  <2>3. Calls(d, j) = {} => ran'[<<d, j>>] = ran[<<d, j>>]
    BY <1>11, <1>12
  <2>4. Fresh(d, j)' <=> Fresh(d, j)
    BY <2>3 DEF Fresh, Begun
  <2>5. Done(d, j)' <=> Done(d, j)
    BY <1>3, <2>3 DEF Done, Begun
  <2> QED BY <2>1, <2>2, <2>4, <2>5
<1>13. Taken(c, i)' /\ Done(c, i)'
  BY <1>3, <1>4, <1>5, <1>11 DEF Taken, Done, Begun
<1>14. ItemsInOrder'
  <2> SUFFICES ASSUME NEW d \in Call, NEW j \in Items(d)
               PROVE  /\ ~Taken(d, j)' => Fresh(d, j)'
                      /\ Taken(d, j)' /\ ~Held(d, j)' => Done(d, j)'
    BY DEF ItemsInOrder
  <2>1. CASE d = c /\ j = i
    BY <1>13, <2>1
  <2>2. CASE d # c \/ j # i
    BY <1>12, <2>2 DEF ItemsInv, ItemsInOrder
  <2> QED BY <2>1, <2>2
<1>15. Ready'
  <2> SUFFICES ASSUME NEW q \in Places, At(q)'.pc = "run", Above(q)' \notin Places
               PROVE  Fresh(At(q).call, At(q).item)'
    BY <1>3 DEF Ready
  <2>1. At(q)' = At(q) /\ Above(q)' = Above(q) /\ At(q).pc = "run" /\ q # p
    BY <1>3, <1>4 DEF Above
  <2>2. ItemOf(q) /\ Fresh(At(q).call, At(q).item)
    BY <2>1 DEF ItemsInv, Ready
  <2>3. At(q).call \in Call /\ At(q).item \in Items(At(q).call)
    BY <1>0, <2>1, <2>2, PlaceFacts DEF ItemOf
  <2>4. At(q).call # c \/ At(q).item # i
    BY <1>6, <2>1 DEF Runs
  <2> DEFINE d == At(q).call
             j == At(q).item
  <2>5. Fresh(d, j)'
    <3>1. \A x \in Call : \A y \in Items(x) : (x # c \/ y # i) /\ Fresh(x, y) => Fresh(x, y)'
      BY <1>12
    <3> QED BY <2>1, <2>2, <2>3, <2>4, <3>1
  <2> QED BY <2>5
<1>16. Ended'
  BY <1>3 DEF ItemsInv, Ended, Begun, Over
<1>17. work' \in [Call -> Nat]
  BY DEF ItemsInv
<1> QED BY <1>3, <1>8, <1>9, <1>10, <1>11, <1>14, <1>15, <1>16, <1>17 DEF ItemsInv

\* a worker takes an item, which nobody took
LEMMA TakeItems ==
  ASSUME CallTree, ScopeInv, ItemsInv, NEW t \in Worker, InTask(t, "take"),
         NEW p, p = Innermost(t), NEW c, c = Top(t).call, NEW i, i = NextItem(t), i \in Items(c),
         NEW f \in TaskType, f.call = c, f.item = i, f.pc = "run",
         stack' = SetTop(stack, t, f),
         work' = IF Kind[c] = "each" THEN [work EXCEPT ![c] = @ + 1] ELSE work,
         UNCHANGED <<captured, ran, reported>>
  PROVE  ItemsInv'
<1>0. Typed /\ stack[t] # << >> /\ Top(t).pc = "take"
  BY DEF ScopeInv, InTask
<1>1. /\ p \in Places /\ p[1] = t /\ At(p) = Top(t) /\ Above(p) \notin Places
      /\ c \in Call /\ Size[c] \in Nat /\ Kind[c] \in {"each", "do"} /\ Begun(c)
  <2>1. p \in Places /\ p[1] = t /\ At(p) = Top(t) /\ Above(p) \notin Places
    BY <1>0, InnermostFacts
  <2>2. c \in Call /\ Begun(c)
    BY <1>0, <2>1, PlaceFacts, PlaceScoped
  <2> QED BY <2>1, <2>2 DEF CallTree
<1>2. /\ Kind[c] = "each" => i = work[c] + 1
      /\ Kind[c] = "do" => Top(t).item = 0 /\ i = Number(p)
  BY <1>0, NextItemFacts
<1>3. /\ Places' = Places /\ At(p)' = f /\ Bottoms'
      /\ \A q \in Places : /\ q # p => At(q)' = At(q)
                           /\ At(q)'.call = At(q).call /\ Number(q)' = Number(q)
      /\ \A d : Active(d)' <=> Active(d)
  <2>1. Bottoms
    BY DEF ItemsInv
  <2> QED BY <1>0, <2>1, InPlace
<1>4. work \in [Call -> Nat] /\ work[c] \in 0 .. Size[c] /\ i \in 1 .. Size[c]
  BY <1>1 DEF ItemsInv, Counted, Items
<1>5. /\ work' \in [Call -> Nat] /\ \A d \in Call : d # c => work'[d] = work[d]
      /\ Kind[c] = "each" => work'[c] = i
      /\ Kind[c] = "do" => work'[c] = work[c]
      /\ \A d \in Call : work[d] <= work'[d]
  BY <1>1, <1>2, <1>4
<1>6. ~Taken(c, i) /\ Fresh(c, i)
  <2>1. ~Taken(c, i)
    <3>1. CASE Kind[c] = "each"
      BY <1>2, <1>4, <3>1 DEF Taken
    <3>2. CASE Kind[c] = "do"
      BY <1>1, <1>2, <3>2 DEF Taken
    <3> QED BY <1>1, <3>1, <3>2
  <2> QED BY <1>1, <2>1 DEF ItemsInv, ItemsInOrder
<1>7. \A q \in Places : ~Runs(q, c, i)
  <2> SUFFICES ASSUME NEW q \in Places, Runs(q, c, i) PROVE FALSE
    OBVIOUS
  <2>1. Bottoms /\ OneHolder /\ ItemOf(q)
    BY DEF ItemsInv
  <2>2. Taken(At(q).call, At(q).item)
    BY <2>1, HeldTaken DEF Runs
  <2> QED BY <1>6, <2>2 DEF Runs
<1>8. \A q \in Places : \A d, j :
        Runs(q, d, j)' <=> IF q = p THEN d = c /\ j = i ELSE Runs(q, d, j)
  BY <1>3 DEF Runs
<1>9. \A d, j : ~Runs(p, d, j)
  BY <1>0, <1>1 DEF Runs
<1>10. OneHolder'
  <2> SUFFICES ASSUME NEW q \in Places, NEW r \in Places, At(q)'.pc = "run",
                      Runs(r, At(q).call, At(q).item)'
               PROVE  q = r
    BY <1>3 DEF OneHolder
  <2>1. CASE q = p
    BY <1>3, <1>7, <1>8, <2>1
  <2>2. CASE q # p
    <3>1. At(q)' = At(q) /\ Runs(q, At(q).call, At(q).item)
      BY <1>3, <2>2 DEF Runs
    <3>2. r # p
      BY <1>3, <1>7, <1>8, <3>1
    <3>3. Runs(r, At(q).call, At(q).item)
      BY <1>3, <2>2, <3>1, <3>2 DEF Runs
    <3> QED BY <3>1, <3>3 DEF ItemsInv, OneHolder, Runs
  <2> QED BY <2>1, <2>2
<1>11. ASSUME NEW q \in Places' PROVE ItemOf(q)'
  <2>1. ItemOf(q) /\ At(q).call \in Call
    BY <1>0, <1>3, PlaceFacts DEF ItemsInv
  <2>2. CASE q # p
    <3>1. At(q)' = At(q) /\ Number(q)' = Number(q)
      BY <1>3, <2>2
    <3>2. /\ work[At(q).call] <= work'[At(q).call]
          /\ work[At(q).call] \in Nat /\ work'[At(q).call] \in Nat
      BY <1>4, <1>5, <2>1
    <3>3. Size[At(q).call] \in Nat
      BY <2>1 DEF CallTree
    <3>4. Kind[At(q).call] = "each" /\ At(q).pc = "run" => At(q).item <= work'[At(q).call]
      BY <2>1, <3>2, <3>3 DEF ItemOf, Items
    <3> QED BY <2>1, <3>1, <3>4 DEF ItemOf
  <2>3. CASE q = p
    <3>1. /\ Number(p)' = Number(p) /\ At(p)'.item = i /\ At(p)'.call = c /\ At(p)'.pc = "run"
      BY <1>1, <1>3
    <3>2. i \in Nat \ {0} /\ (Kind[c] = "each" => i <= work'[c])
      BY <1>4, <1>5
    <3>3. Kind[c] = "do" => i = Number(p)
      BY <1>2
    <3> QED BY <2>3, <3>1, <3>2, <3>3 DEF ItemOf
  <2> QED BY <2>2, <2>3
<1>12. Counted'
  <2> SUFFICES ASSUME NEW d \in Call
               PROVE  /\ work'[d] \in 0 .. Size[d] /\ (~Begun(d)' => work'[d] = 0)
                      /\ Begun(d)' /\ Kind[d] = "each" /\ work'[d] # Size[d] =>
                           \E q \in Places : /\ At(q)'.call = d /\ q[1] \notin Spawned(d)
                                             /\ At(q)'.pc # "join"
    BY <1>3 DEF Counted
  <2>1. /\ work[d] \in 0 .. Size[d] /\ (~Begun(d) => work[d] = 0)
        /\ Begun(d) /\ Kind[d] = "each" /\ work[d] # Size[d] =>
             \E q \in Places : At(q).call = d /\ q[1] \notin Spawned(d) /\ At(q).pc # "join"
    BY DEF ItemsInv, Counted
  <2>2. Begun(d)' <=> Begun(d)
    BY DEF Begun
  <2>3. \A q \in Places : At(q).pc # "join" => At(q)'.pc # "join"
    BY <1>3
  <2>4. work'[d] \in 0 .. Size[d] /\ (~Begun(d) => work'[d] = 0)
    BY <1>1, <1>4, <1>5, <2>1
  <2>5. Begun(d) /\ Kind[d] = "each" /\ work'[d] # Size[d] =>
          \E q \in Places : At(q).call = d /\ q[1] \notin Spawned(d) /\ At(q).pc # "join"
    <3>1. CASE d # c
      BY <1>5, <2>1, <3>1
    <3>2. CASE d = c
      <4>1. Kind[c] = "each" => work[c] # Size[c]
        BY <1>2, <1>4
      <4> QED BY <2>1, <3>2, <4>1
    <3> QED BY <3>1, <3>2
  <2>6. ASSUME Begun(d), Kind[d] = "each", work'[d] # Size[d]
        PROVE  \E q \in Places : At(q)'.call = d /\ q[1] \notin Spawned(d) /\ At(q)'.pc # "join"
    <3>1. PICK q \in Places : At(q).call = d /\ q[1] \notin Spawned(d) /\ At(q).pc # "join"
      BY <2>5, <2>6
    <3> QED BY <1>3, <2>3, <3>1
  <2> QED BY <2>2, <2>4, <2>6
<1>13. ASSUME NEW d \in Call, NEW j \in Items(d)
       PROVE  Taken(d, j)' <=> Taken(d, j) \/ (d = c /\ j = i)
  <2>0. work[d] \in Nat /\ j \in Nat
    BY <1>4 DEF Items, CallTree
  <2>1. CASE Kind[d] = "each"
    BY <1>2, <1>4, <1>5, <2>0, <2>1 DEF Taken
  <2>2. CASE Kind[d] # "each" /\ d # c
    <3>1. \A q \in Places : At(q).call = d => At(q)' = At(q) /\ Number(q)' = Number(q)
      BY <1>1, <1>3, <2>2
    <3> QED BY <1>3, <2>2, <3>1 DEF Taken, Begun
  <2>3. CASE Kind[d] # "each" /\ d = c /\ j # i
    <3>1. \A q \in Places : Number(q) = j => At(q)' = At(q) /\ Number(q)' = Number(q)
      BY <1>1, <1>2, <1>3, <2>3
    <3>2. \A q \in Places : Number(q)' = Number(q) /\ At(q)'.call = At(q).call
      BY <1>3
    <3>3. Begun(c)'
      BY <1>1 DEF Begun
    <3> QED BY <1>1, <1>3, <2>3, <3>1, <3>2, <3>3 DEF Taken
  <2>4. CASE Kind[d] # "each" /\ d = c /\ j = i
    <3>1. ASSUME NEW q \in Places, At(q)'.call = c, Number(q)' = i PROVE At(q)'.item # 0
      <4>1. Bottoms /\ OneHolder /\ At(q).call = At(p).call /\ Number(q) = Number(p)
        BY <1>1, <1>2, <1>3, <2>4, <3>1 DEF ItemsInv
      <4>2. q = p
        BY <1>1, <4>1, OneWorker
      <4> QED BY <1>3, <1>4, <4>2
    <3> QED BY <1>1, <1>3, <2>4, <3>1 DEF Taken, Begun
  <2> QED BY <2>1, <2>2, <2>3, <2>4
<1>14. \A d, j : /\ Held(d, j)' <=> Held(d, j) \/ (d = c /\ j = i)
                 /\ Fresh(d, j)' <=> Fresh(d, j)
                 /\ Done(d, j)' <=> Done(d, j)
  <2>1. \A d, j : Held(d, j)' <=> Held(d, j) \/ (d = c /\ j = i)
    BY <1>1, <1>3, <1>8, <1>9 DEF Held
  <2> QED BY <1>3, <2>1 DEF Fresh, Done, Begun
<1>15. ItemsInOrder'
  BY <1>13, <1>14 DEF ItemsInv, ItemsInOrder
<1>16. Ready'
  <2> SUFFICES ASSUME NEW q \in Places, At(q)'.pc = "run", Above(q)' \notin Places
               PROVE  Fresh(At(q).call, At(q).item)'
    BY <1>3 DEF Ready
  <2>1. CASE q = p
    <3>1. At(q)'.call = c /\ At(q)'.item = i /\ Fresh(c, i)'
      BY <1>3, <1>6, <1>14, <2>1
    <3> QED BY <3>1
  <2>2. CASE q # p
    <3>1. At(q)' = At(q) /\ Above(q)' = Above(q)
      BY <1>3, <2>2 DEF Above
    <3>2. Fresh(At(q).call, At(q).item)
      BY <3>1 DEF ItemsInv, Ready
    <3> QED BY <1>14, <3>1, <3>2
  <2> QED BY <2>1, <2>2
<1>17. Ended'
  BY <1>3 DEF ItemsInv, Ended, Begun, Over
<1> QED BY <1>3, <1>5, <1>10, <1>11, <1>12, <1>15, <1>16, <1>17 DEF ItemsInv

\* a thread's only task ends: its place goes
LEMMA EndPlaces ==
  ASSUME Typed, NEW t \in Worker, stack[t] # << >>, Len(stack[t]) = 1, NEW p, p = Innermost(t),
         stack' = [stack EXCEPT ![t] = << >>]
  PROVE  /\ p \in Places /\ p[1] = t /\ p[2] = 1 /\ At(p) = Top(t)
         /\ Places' = Places \ {p}
         /\ \A q \in Places \ {p} : At(q)' = At(q) /\ Number(q)' = Number(q)
<1>1. p \in Places /\ p[1] = t /\ p[2] = 1 /\ At(p) = Top(t)
  BY InnermostFacts DEF Innermost
<1>2. /\ Places' = Places \ {p}
      /\ \A q \in Places \ {p} : At(q)' = At(q) /\ Number(q)' = Number(q)
  <2>1. stack'[t] = << >> /\ \A u \in Worker \ {t} : stack'[u] = stack[u]
    BY DEF Typed
  <2>2. \A q \in Places : q = <<q[1], q[2]>> /\ q[1] \in Worker /\ (q[1] = t => q[2] = 1)
    <3> SUFFICES ASSUME NEW q \in Places
                 PROVE  q = <<q[1], q[2]>> /\ q[1] \in Worker /\ (q[1] = t => q[2] = 1)
      OBVIOUS
    <3>1. q = <<q[1], q[2]>> /\ q[1] \in Worker /\ q[2] \in 1 .. Len(stack[q[1]])
      BY DEF Places
    <3>2. ASSUME q[1] = t PROVE q[2] = 1
      <4>1. q[2] \in 1 .. 1
        BY <3>1, <3>2
      <4> QED BY <4>1
    <3> QED BY <3>1, <3>2, Zenon
  <2>3. \A q \in Places : q[1] = t <=> q = p
    BY <1>1, <2>2
  <2>4. \A q \in Places \ {p} : At(q)' = At(q)
    BY <2>1, <2>2, <2>3 DEF At
  <2>5. Places' = Places \ {p}
    BY <1>1, <2>1, <2>3 DEF Places
  <2> QED BY <2>4, <2>5 DEF Number
<1> QED BY <1>1, <1>2

\* a task ends: that of a thread, or at last that of the caller of the root call
LEMMA EndItems ==
  ASSUME CallTree, ScopeInv, ItemsInv, NEW t \in Worker, stack[t] # << >>, Top(t).pc # "run",
         NEW c, c = Top(t).call, Top(t).pc = "join" \/ t \in Spawned(c),
         Len(stack[t]) = 1, NEW p, p = Innermost(t),
         Kind[c] = "do" => Top(t).item # 0,
         stack' = [stack EXCEPT ![t] = << >>], UNCHANGED <<captured, work, ran>>,
         Over' => Over \/ (c = Root /\ Top(t).pc = "join" /\ Joinable(t))
  PROVE  ItemsInv'
<1>0. Typed
  BY DEF ScopeInv
<1>1. p \in Places /\ p[1] = t /\ p[2] = 1 /\ At(p) = Top(t)
  BY <1>0, InnermostFacts DEF Innermost
<1>2. c \in Call /\ Kind[c] \in {"each", "do"}
  BY <1>0, <1>1, PlaceFacts DEF CallTree
<1>3. /\ Places' = Places \ {p}
      /\ \A q \in Places \ {p} : At(q)' = At(q) /\ Number(q)' = Number(q)
  BY <1>0, EndPlaces
<1>4. \A q \in Places \ {p} : \A d, j : Runs(q, d, j)' <=> Runs(q, d, j)
  BY <1>3 DEF Runs
<1>5. \A d, j : ~Runs(p, d, j)
  BY <1>1 DEF Runs
<1>6. Bottoms' /\ OneHolder' /\ \A q \in Places' : ItemOf(q)'
  BY <1>3, <1>4 DEF ItemsInv, Bottoms, OneHolder, ItemOf
<1>7. \A d : Active(d)' => Active(d)
  BY <1>3 DEF Active
<1>8. Counted'
  <2>1. ASSUME NEW d \in Call, Begun(d), Kind[d] = "each", work[d] # Size[d]
        PROVE  \E q \in Places' : At(q)'.call = d /\ q[1] \notin Spawned(d) /\ At(q)'.pc # "join"
    <3>1. PICK q \in Places : At(q).call = d /\ q[1] \notin Spawned(d) /\ At(q).pc # "join"
      BY <2>1 DEF ItemsInv, Counted
    <3>2. q # p
      BY <1>1, <3>1
    <3> QED BY <1>3, <3>1, <3>2
  <2>2. \A d \in Call : work[d] \in 0 .. Size[d] /\ (~Begun(d) => work[d] = 0)
    BY DEF ItemsInv, Counted
  <2> QED BY <2>1, <2>2 DEF Counted, Begun
<1>9. \A d \in Call : \A j \in Items(d) : Taken(d, j)' <=> Taken(d, j)
  <2> SUFFICES ASSUME NEW d \in Call, NEW j \in Items(d) PROVE Taken(d, j)' <=> Taken(d, j)
    OBVIOUS
  <2>1. CASE Kind[d] = "each"
    BY <2>1 DEF Taken
  <2>2. CASE Kind[d] # "each"
    <3>1. Kind[d] = "do"
      BY <2>2 DEF CallTree
    <3>2. At(p).call = d => At(p).item # 0
      BY <1>1, <3>1
    <3> QED BY <1>3, <2>2, <3>2 DEF Taken, Begun
  <2> QED BY <2>1, <2>2
<1>10. \A d, j : /\ Held(d, j)' <=> Held(d, j)
                 /\ Fresh(d, j)' <=> Fresh(d, j)
                 /\ Done(d, j) => Done(d, j)'
  <2>1. \A d, j : Held(d, j)' <=> Held(d, j)
    BY <1>3, <1>4, <1>5 DEF Held
  <2> QED BY <1>7, <2>1 DEF Fresh, Done, Begun
<1>11. ItemsInOrder'
  BY <1>9, <1>10 DEF ItemsInv, ItemsInOrder
<1>12. Ready'
  <2> SUFFICES ASSUME NEW q \in Places', At(q)'.pc = "run", Above(q)' \notin Places'
               PROVE  Fresh(At(q).call, At(q).item)'
    BY DEF Ready
  <2>1. At(q)' = At(q) /\ q \in Places
    BY <1>3
  <2>2. Above(q) # p
    BY <1>0, <1>1, <2>1, PlaceFacts DEF Above
  <2>3. Above(q) \notin Places
    BY <1>3, <2>2 DEF Above
  <2>4. Fresh(At(q).call, At(q).item)
    BY <2>1, <2>3 DEF ItemsInv, Ready
  <2> QED BY <1>10, <2>1, <2>4
<1>13. Ended'
  <2>1. ASSUME c = Root, Top(t).pc = "join", Joinable(t) PROVE ~Active(Root)'
    <3> SUFFICES ASSUME NEW q \in Places, q # p, At(q).call = Root PROVE FALSE
      BY <1>3 DEF Active
    <3>1. t \notin Spawned(Root)
      BY <1>0, <1>1, <2>1 DEF ScopeInv, ScopedThread, TaskScoped, At, Top
    <3>2. stack[q[1]] # << >> /\ q[1] \in Worker
      BY <1>0, PlaceFacts DEF Places
    <3>3. q[1] \notin Spawned(Root)
      BY <2>1, <3>2 DEF Joinable
    <3>4. Number(q) = Number(p)
      BY <1>1, <2>1, <3>1, <3>3 DEF Number
    <3>5. q = p
      BY <1>1, <2>1, <3>4, OneWorker DEF ItemsInv
    <3> QED BY <3>5
  <2>2. Over => ~Active(Root)'
    BY <1>7 DEF ItemsInv, Ended
  <2>3. Begun(Root)'
    BY DEF ItemsInv, Ended, Begun
  <2> QED BY <2>1, <2>2, <2>3 DEF Ended
<1>14. ran' \in [Leaves -> Nat] /\ work' \in [Call -> Nat]
  BY DEF ItemsInv
<1> QED BY <1>6, <1>8, <1>11, <1>12, <1>13, <1>14 DEF ItemsInv

\* an item makes a call: its threads start, and its caller begins to help
LEMMA RunNestedPlaces ==
  ASSUME CallTree, ScopeInv, Bottoms, NEW t \in Worker, stack[t] # << >>,
         NEW m \in Call, ~Begun(m), stack' = Started(stack, t, m),
         NEW p, p = Innermost(t), NEW a, a = Above(p),
         NEW S, S = {<<u, 1>> : u \in Spawned(m)} \cup {a}
  PROVE  /\ t \notin Spawned(m) /\ a[1] = t /\ a \notin Places /\ a[2] # 1
         /\ Places' = Places \cup S
         /\ \A q \in Places : q \notin S /\ At(q)' = At(q)
         /\ \A q \in S : At(q)' = Task(m)
<1>0. Typed
  BY DEF ScopeInv
<1>1. stack[t] \in Seq(TaskType) /\ Len(stack[t]) \in Nat \ {0} /\ a = <<t, Len(stack[t]) + 1>>
  BY <1>0, TaskTypes DEF Above, Innermost
<1>2. \A u \in Spawned(m) : u \in Worker /\ u[1] = m
  BY DEF Worker, Spawned
<1>3. ASSUME NEW u \in Spawned(m) PROVE stack[u] = << >>
  <2> SUFFICES ASSUME stack[u] # << >> PROVE FALSE
    OBVIOUS
  <2>1. stack[u] \in Seq(TaskType) /\ u \in Worker
    BY <1>0, <1>2, TaskTypes
  <2>2. <<u, 1>> \in Places
    BY <2>1 DEF Places
  <2>3. At(<<u, 1>>).call = m
    BY <1>2, <2>2 DEF Bottoms
  <2> QED BY <2>2, <2>3, PlaceScoped
<1>4. t \notin Spawned(m)
  BY <1>3
<1>5. \A u \in Worker : stack'[u] = IF u \in Spawned(m) THEN <<Task(m)>>
                                    ELSE IF u = t THEN Append(stack[u], Task(m)) ELSE stack[u]
  BY DEF Started
<1>6. a \notin Places /\ a[1] = t /\ a[2] # 1
  BY <1>1 DEF Places
<1>7. ASSUME NEW q \in Places PROVE q \notin S /\ At(q)' = At(q) /\ q \in Places'
  <2>1. q[1] \in Worker /\ q = <<q[1], q[2]>> /\ q[2] \in Nat /\ q[2] \in 1 .. Len(stack[q[1]])
    BY DEF Places
  <2>2. q[1] \notin Spawned(m)
    BY <1>3, <2>1
  <2>3. q \notin S
    BY <1>6, <2>2
  <2>4. CASE q[1] = t
    <3>1. stack'[t] = Append(stack[t], Task(m))
      BY <1>4, <1>5
    <3>2. Len(stack'[t]) = Len(stack[t]) + 1 /\ stack'[t][q[2]] = stack[t][q[2]]
      BY <1>1, <2>1, <2>4, <3>1
    <3>3. q[2] \in 1 .. Len(stack'[q[1]])
      BY <1>1, <2>1, <2>4, <3>2
    <3> QED BY <2>1, <2>3, <2>4, <3>2, <3>3 DEF At, Places
  <2>5. CASE q[1] # t
    BY <1>5, <2>1, <2>2, <2>3, <2>5 DEF At, Places
  <2> QED BY <2>4, <2>5
<1>8. ASSUME NEW q \in S PROVE q \in Places' /\ At(q)' = Task(m)
  <2>1. CASE q = a
    <3>1. stack'[t] = Append(stack[t], Task(m))
      BY <1>4, <1>5
    <3> DEFINE n == Len(stack[t]) + 1
    <3>2. Len(stack'[t]) = n /\ stack'[t][n] = Task(m) /\ n \in 1 .. n
      BY <1>1, <3>1
    <3>3. q[1] = t /\ q[2] = n /\ q = <<t, n>> /\ n \in Nat
      BY <1>1, <2>1
    <3> HIDE DEF n
    <3> QED BY <3>2, <3>3 DEF At, Places
  <2>2. CASE q # a
    <3>1. PICK u \in Spawned(m) : q = <<u, 1>>
      BY <2>2
    <3>2. u \in Worker /\ stack'[u] = <<Task(m)>>
      BY <1>2, <1>5
    <3>3. Len(stack'[u]) = 1 /\ stack'[u][1] = Task(m) /\ 1 \in 1 .. 1
      BY <3>2
    <3> QED BY <3>1, <3>2, <3>3 DEF At, Places
  <2> QED BY <2>1, <2>2
<1>9. ASSUME NEW q \in Places' PROVE q \in Places \cup S
  <2>1. q[1] \in Worker /\ q = <<q[1], q[2]>> /\ q[2] \in Nat /\ q[2] \in 1 .. Len(stack'[q[1]])
    BY <1>9 DEF Places
  <2>2. CASE q[1] \in Spawned(m)
    <3>1. Len(stack'[q[1]]) = 1
      BY <1>5, <2>1, <2>2
    <3> QED BY <2>1, <2>2, <3>1
  <2>3. CASE q[1] = t
    <3>0. stack'[t] = Append(stack[t], Task(m))
      BY <1>4, <1>5
    <3>1. Len(stack'[t]) = Len(stack[t]) + 1
      BY <1>1, <3>0
    <3>2. q[2] \in 1 .. Len(stack[t]) \/ q[2] = Len(stack[t]) + 1
      BY <1>1, <2>1, <2>3, <3>1
    <3> QED BY <1>1, <2>1, <2>3, <3>2 DEF Places
  <2>4. CASE q[1] \notin Spawned(m) /\ q[1] # t
    BY <1>5, <2>1, <2>4 DEF Places
  <2> QED BY <2>2, <2>3, <2>4
<1> QED BY <1>4, <1>6, <1>7, <1>8, <1>9

LEMMA RunNestedItems ==
  ASSUME CallTree, ScopeInv, ItemsInv, NEW t \in Worker, RunNested(t) PROVE ItemsInv'
<1>0. Typed /\ stack[t] # << >> /\ Top(t).pc = "run" /\ UNCHANGED <<work, ran, reported>>
  BY DEF ScopeInv, InTask, RunNested
<1>1. PICK p : p = Innermost(t)
  OBVIOUS
<1>2. p \in Places /\ At(p) = Top(t) /\ Above(p) \notin Places
  BY <1>0, <1>1, InnermostFacts
<1>3. PICK c, i : c = At(p).call /\ i = At(p).item
  OBVIOUS
<1>4. PICK n \in Calls(c, i) :
        /\ captured' = [captured EXCEPT ![n.calls] = overlays'[t]]
        /\ overlays' = [overlays EXCEPT ![t] = Append(@, Leaf(t))]
        /\ stack' = Started(stack, t, n.calls)
  BY <1>2, <1>3 DEF RunNested
<1>5. PICK m : m = n.calls
  OBVIOUS
<1>6. n \in Nested /\ n.call = c /\ n.item = i /\ m \in Call /\ m # Root
  BY <1>4, <1>5, MakerFacts DEF Calls
<1>7. Runs(p, c, i) /\ c \in Call /\ i \in Items(c) /\ Taken(c, i) /\ Begun(c) /\ Fresh(c, i)
  <2>1. ItemOf(p) /\ Bottoms /\ OneHolder /\ At(p).pc = "run"
    BY <1>0, <1>2 DEF ItemsInv
  <2>2. i \in Items(c) /\ Taken(c, i) /\ Begun(c) /\ c \in Call
    BY <1>0, <1>2, <1>3, <2>1, HeldTaken, PlaceScoped, PlaceFacts
  <2>3. Fresh(c, i)
    BY <1>2, <1>3, <2>1 DEF ItemsInv, Ready
  <2> QED BY <1>3, <2>1, <2>2, <2>3 DEF Runs
<1>8. ~Begun(m) /\ work[m] = 0
  BY <1>4, <1>5, <1>6, <1>7 DEF Fresh, ItemsInv, Counted
<1>9. \A d \in Call : Begun(d)' <=> Begun(d) \/ d = m
  <2>1. overlays'[t] = Append(overlays[t], Leaf(t)) /\ overlays[t] \in Scope
    BY <1>0, <1>4 DEF Typed
  <2>2. overlays'[t] # << >>
    <3>1. Leaf(t) \in Call \X Nat
      BY <1>0, TaskTypes DEF Leaf, TaskType
    <3>2. \A s \in Scope, e \in Call \X Nat : Len(Append(s, e)) = Len(s) + 1 /\ Len(s) \in Nat
      BY DEF Scope
    <3>3. Len(overlays'[t]) # 0
      BY <2>1, <3>1, <3>2
    <3> QED BY <3>3
  <2>3. captured \in [Call -> Scope] /\ captured' = [captured EXCEPT ![m] = overlays'[t]]
    BY <1>0, <1>4, <1>5 DEF Typed
  <2> QED BY <1>6, <2>2, <2>3 DEF Begun
<1>10. PICK a : a = Above(p)
  OBVIOUS
<1>11. PICK S : S = {<<u, 1>> : u \in Spawned(m)} \cup {a}
  OBVIOUS
<1>12. /\ t \notin Spawned(m) /\ a[1] = t /\ a \notin Places /\ a[2] # 1
       /\ Places' = Places \cup S
       /\ \A q \in Places : q \notin S /\ At(q)' = At(q)
       /\ \A q \in S : At(q)' = Task(m)
  <2>1. Bottoms /\ stack' = Started(stack, t, m)
    BY <1>4, <1>5 DEF ItemsInv
  <2> QED BY <1>0, <1>1, <1>6, <1>8, <1>10, <1>11, <2>1, RunNestedPlaces
<1>13. /\ \A q \in Places : At(q).call # m /\ Number(q)' = Number(q)
       /\ \A q \in S : /\ At(q)'.call = m /\ At(q)'.pc = "enter" /\ At(q)'.item = 0
                       /\ q # a => q[1] \in Spawned(m) /\ q[2] = 1
  <2>1. \A q \in Places : At(q).call # m
    BY <1>8, PlaceScoped
  <2> QED BY <1>11, <1>12, <2>1 DEF Task, Number
<1>14. /\ \A q \in Places : \A d, j : Runs(q, d, j)' <=> Runs(q, d, j)
       /\ \A q \in S : \A d, j : ~Runs(q, d, j)'
  BY <1>12, <1>13 DEF Runs
<1>15. Bottoms'
  <2> SUFFICES ASSUME NEW q \in Places'
               PROVE  IF q[2] = 1 THEN At(q)'.call = q[1][1] ELSE q[1] \notin Spawned(At(q)'.call)
    BY DEF Bottoms
  <2>1. CASE q \in Places
    BY <1>12, <2>1 DEF ItemsInv, Bottoms
  <2>2. CASE q = a
    BY <1>11, <1>12, <1>13, <2>2
  <2>3. CASE q \in S /\ q # a
    BY <1>13, <2>3 DEF Spawned
  <2> QED BY <1>12, <2>1, <2>2, <2>3
<1>16. OneHolder'
  BY <1>12, <1>13, <1>14 DEF ItemsInv, OneHolder
<1>17. \A q \in Places' : ItemOf(q)'
  <2>1. ASSUME NEW q \in Places PROVE ItemOf(q)'
    <3>1. ItemOf(q) /\ At(q)' = At(q) /\ Number(q)' = Number(q)
      BY <1>12, <1>13 DEF ItemsInv
    <3> QED BY <1>0, <3>1 DEF ItemOf
  <2>2. ASSUME NEW q \in S PROVE ItemOf(q)'
    BY <1>13, <2>2 DEF ItemOf
  <2> QED BY <1>12, <2>1, <2>2
<1>18. Counted'
  <2> SUFFICES ASSUME NEW d \in Call
               PROVE  /\ work[d] \in 0 .. Size[d] /\ (~Begun(d)' => work[d] = 0)
                      /\ Begun(d)' /\ Kind[d] = "each" /\ work[d] # Size[d] =>
                           \E q \in Places' : /\ At(q)'.call = d /\ q[1] \notin Spawned(d)
                                              /\ At(q)'.pc # "join"
    BY <1>0 DEF Counted
  <2>1. /\ work[d] \in 0 .. Size[d] /\ (~Begun(d) => work[d] = 0)
        /\ Begun(d) /\ Kind[d] = "each" /\ work[d] # Size[d] =>
             \E q \in Places : At(q).call = d /\ q[1] \notin Spawned(d) /\ At(q).pc # "join"
    BY DEF ItemsInv, Counted
  <2>2. CASE d = m
    <3>1. a \in Places' /\ At(a)'.call = m /\ a[1] \notin Spawned(m) /\ At(a)'.pc # "join"
      BY <1>11, <1>12, <1>13
    <3> QED BY <1>8, <2>1, <2>2, <3>1
  <2>3. CASE d # m
    BY <1>9, <1>12, <2>1, <2>3
  <2> QED BY <2>2, <2>3
<1>19. \A d \in Call : \A j \in Items(d) : n \in Calls(d, j) => d = c /\ j = i
  BY <1>6 DEF Calls
<1>20. \A d, j : \A k \in Calls(d, j) : k.calls \in Call /\ (k.calls = m => k = n)
  <2>1. \A k \in Nested : k.calls \in Call /\ k = Maker(k.calls)
    BY MakerFacts
  <2> QED BY <1>5, <1>6, <2>1 DEF Calls
<1>21. \A d, j : Fresh(d, j) /\ n \notin Calls(d, j) => Fresh(d, j)'
  BY <1>0, <1>9, <1>20 DEF Fresh
<1>22. \A d, j : Done(d, j) => Done(d, j)'
  <2> SUFFICES ASSUME NEW d, NEW j, Done(d, j) PROVE Done(d, j)'
    OBVIOUS
  <2>1. ASSUME NEW k \in Calls(d, j) PROVE Begun(k.calls)' /\ ~Active(k.calls)'
    <3>1. Begun(k.calls) /\ ~Active(k.calls) /\ k.calls \in Call /\ k.calls # m
      BY <1>8, <1>20, <2>1 DEF Done
    <3> QED BY <1>9, <1>12, <1>13, <3>1 DEF Active
  <2> QED BY <1>0, <2>1 DEF Done
<1>23. \A d, j : Held(d, j)' <=> Held(d, j)
  BY <1>12, <1>14 DEF Held
<1>24. \A d \in Call : \A j \in Items(d) : Taken(d, j)' <=> Taken(d, j)
  <2> SUFFICES ASSUME NEW d \in Call, NEW j \in Items(d) PROVE Taken(d, j)' <=> Taken(d, j)
    OBVIOUS
  <2>1. CASE Kind[d] = "each"
    BY <1>0, <2>1 DEF Taken
  <2>2. CASE Kind[d] # "each" /\ d # m
    <3>1. Begun(d)' <=> Begun(d)
      BY <1>9, <2>2
    <3>2. \A q \in S : At(q)'.call # d
      BY <1>13, <2>2
    <3>3. \A q \in Places : At(q)' = At(q) /\ Number(q)' = Number(q)
      BY <1>12, <1>13
    <3> QED BY <1>12, <2>2, <3>1, <3>2, <3>3 DEF Taken
  <2>3. CASE Kind[d] # "each" /\ d = m
    <3>1. Size[m] = NThreads /\ NThreads \in Nat \ {0} /\ j \in 1 .. NThreads
      <4>1. Kind[m] = "do"
        BY <2>3 DEF CallTree
      <4> QED BY <2>3, <4>1 DEF CallTree, Items
    <3>2. \E q \in S : Number(q)' = j
      <4>1. CASE j = NThreads
        <5>1. Number(a)' = NThreads
          BY <1>11, <1>12, <1>13 DEF Number
        <5> QED BY <1>11, <4>1, <5>1
      <4>2. CASE j # NThreads
        <5>1. <<m, j>> \in Spawned(m)
          BY <3>1, <4>2 DEF Spawned
        <5>2. PICK q : q = << <<m, j>>, 1>>
          OBVIOUS
        <5>3. q \in S /\ q[1] = <<m, j>> /\ q[1][2] = j
          BY <1>11, <5>1, <5>2
        <5>4. At(q)'.call = m
          BY <1>13, <5>3
        <5>5. Number(q)' = j
          BY <5>1, <5>3, <5>4 DEF Number
        <5> QED BY <5>3, <5>5
      <4> QED BY <4>1, <4>2
    <3>3. PICK q \in S : Number(q)' = j
      BY <3>2
    <3>4. q \in Places' /\ At(q)'.call = m /\ At(q)'.item = 0
      BY <1>12, <1>13
    <3>5. ~Taken(d, j)'
      BY <2>3, <3>3, <3>4 DEF Taken
    <3> QED BY <1>8, <2>3, <3>5 DEF Taken
  <2> QED BY <2>1, <2>2, <2>3
<1>25. ItemsInOrder'
  <2> SUFFICES ASSUME NEW d \in Call, NEW j \in Items(d)
               PROVE  /\ ~Taken(d, j)' => Fresh(d, j)'
                      /\ Taken(d, j)' /\ ~Held(d, j)' => Done(d, j)'
    BY DEF ItemsInOrder
  <2>1. ~Taken(d, j) => n \notin Calls(d, j)
    BY <1>7, <1>19
  <2> QED BY <1>21, <1>22, <1>23, <1>24, <2>1 DEF ItemsInv, ItemsInOrder
<1>26. Ready'
  <2> SUFFICES ASSUME NEW q \in Places', At(q)'.pc = "run", Above(q)' \notin Places'
               PROVE  Fresh(At(q).call, At(q).item)'
    BY DEF Ready
  <2>1. q \in Places /\ At(q)' = At(q) /\ Above(q) \notin Places /\ q # p
    BY <1>10, <1>11, <1>12, <1>13 DEF Above
  <2>2. ItemOf(q) /\ Fresh(At(q).call, At(q).item)
    BY <2>1 DEF ItemsInv, Ready
  <2>3. At(q).call # c \/ At(q).item # i
    BY <1>2, <1>7, <2>1 DEF ItemsInv, OneHolder, Runs
  <2>4. n \notin Calls(At(q).call, At(q).item)
    BY <1>6, <2>3 DEF Calls
  <2> QED BY <1>21, <2>1, <2>2, <2>4
<1>27. Ended'
  <2>1. Root \in Call
    BY TreeTypes
  <2>2. Active(Root)' => Active(Root)
    BY <1>6, <1>12, <1>13 DEF Active
  <2> QED BY <1>0, <1>9, <2>1, <2>2 DEF ItemsInv, Ended, Over
<1> QED BY <1>0, <1>15, <1>16, <1>17, <1>18, <1>25, <1>26, <1>27 DEF ItemsInv

\* a call that an item made ends: the threads have ended, and the item with it
LEMMA JoinNestedPlaces ==
  ASSUME CallTree, ScopeInv, NEW t \in Worker, JoinNested(t),
         NEW p, p = Innermost(t), NEW b, b = <<p[1], p[2] - 1>>
  PROVE  /\ p \in Places /\ At(p) = Top(t) /\ p[1] = t /\ p[2] # 1 /\ b \in Places /\ b # p
         /\ p = Above(b)
         /\ Places' = Places \ {p} /\ At(b)' = [At(b) EXCEPT !.pc = "take"]
         /\ \A q \in Places \ {p, b} : At(q)' = At(q)
<1>0. Typed /\ stack[t] # << >> /\ Len(stack[t]) > 1
  BY DEF ScopeInv, JoinNested, Joinable, InTask
<1> DEFINE s == stack[t]
           N == Len(s)
           f == [At(b) EXCEPT !.pc = "take"]
           r == Front(Front(s)) \o <<f>>
<1>1. s \in Seq(TaskType) /\ N \in Nat /\ N > 1 /\ p = <<t, N>> /\ b = <<t, N - 1>>
  BY <1>0, TaskTypes DEF Innermost
<1>2. p \in Places /\ At(p) = Top(t) /\ p[1] = t /\ p[2] # 1
  <2>1. p \in Places /\ At(p) = Top(t) /\ p[1] = t
    BY <1>0, InnermostFacts
  <2> HIDE DEF s, N
  <2> QED BY <1>1, <2>1
<1>3. b \in Places /\ b # p /\ At(b) = stack[t][N - 1]
  BY <1>1 DEF Places, At
<1>4. p = Above(b)
  BY <1>1 DEF Above
<1>5. stack' = [stack EXCEPT ![t] = r]
  BY <1>3 DEF JoinNested
<1>6. f \in TaskType
  BY <1>0, <1>3, PlaceFacts DEF TaskType
<1>7. /\ Front(s) \in Seq(TaskType) /\ Len(Front(s)) = N - 1 /\ Front(s) # << >>
      /\ \A k \in 1 .. N - 1 : Front(s)[k] = s[k]
  <2>1. Front(s) = SubSeq(s, 1, N - 1)
    BY DEF Front
  <2>2. N - 1 \in 1 .. N
    BY <1>1
  <2> HIDE DEF s, N
  <2>3. /\ SubSeq(s, 1, N - 1) \in Seq(TaskType) /\ Len(SubSeq(s, 1, N - 1)) = N - 1
        /\ \A k \in 1 .. N - 1 : SubSeq(s, 1, N - 1)[k] = s[k]
    BY <1>1, <2>2 DEF N
  <2>4. Len(Front(s)) # 0
    BY <1>1, <2>1, <2>3
  <2>5. Front(s) # << >>
    BY <2>4
  <2> QED BY <2>1, <2>3, <2>5, Zenon
<1>8. /\ r \in Seq(TaskType) /\ Len(r) = N - 1 /\ r[N - 1] = f
      /\ \A k \in 1 .. (N - 1) - 1 : r[k] = s[k]
  <2> DEFINE g == Front(s)
  <2> HIDE DEF f, g
  <2>1. g \in Seq(TaskType) /\ g # << >> /\ f \in TaskType /\ Len(g) = N - 1
    BY <1>6, <1>7 DEF g
  <2>2. /\ Front(g) \o <<f>> \in Seq(TaskType)
        /\ Len(Front(g) \o <<f>>) = Len(g) /\ Len(g) > 0
        /\ \A k \in 1 .. Len(g) - 1 : (Front(g) \o <<f>>)[k] = g[k]
        /\ (Front(g) \o <<f>>)[Len(g)] = f
    BY <2>1, TopReplaced
  <2>3. r = Front(g) \o <<f>>
    BY DEF g
  <2>4. \A k \in 1 .. (N - 1) - 1 : g[k] = s[k]
    BY <1>1, <1>7 DEF g
  <2> QED BY <2>1, <2>2, <2>3, <2>4
<1> HIDE DEF r, f
<1>9. stack'[t] = r /\ \A u \in Worker \ {t} : stack'[u] = stack[u]
  BY <1>0, <1>5 DEF Typed
<1>10. At(b)' = f
  BY <1>1, <1>8, <1>9 DEF At
<1>11. ASSUME NEW q \in Places, q # p PROVE q \in Places' /\ (q # b => At(q)' = At(q))
  <2>1. q[1] \in Worker /\ q = <<q[1], q[2]>> /\ q[2] \in Nat /\ q[2] \in 1 .. Len(stack[q[1]])
    BY DEF Places
  <2>2. CASE q[1] = t
    <3>1. q[2] # N /\ q[2] \in 1 .. N
      BY <1>1, <1>11, <2>1, <2>2
    <3>2. q[2] \in 1 .. N - 1
      BY <1>1, <3>1
    <3>3. q \in Places'
      BY <1>8, <1>9, <2>1, <2>2, <3>2 DEF Places
    <3>4. ASSUME q # b PROVE At(q)' = At(q)
      <4>1. q[2] # N - 1
        BY <1>1, <2>1, <2>2, <3>4
      <4>2. q[2] \in 1 .. (N - 1) - 1
        BY <1>1, <3>2, <4>1
      <4> QED BY <1>8, <1>9, <2>2, <4>2 DEF At
    <3> QED BY <3>3, <3>4
  <2>3. CASE q[1] # t
    BY <1>9, <2>1, <2>3 DEF At, Places
  <2> QED BY <2>2, <2>3
<1>12. ASSUME NEW q \in Places' PROVE q \in Places /\ q # p
  <2>1. q[1] \in Worker /\ q = <<q[1], q[2]>> /\ q[2] \in Nat /\ q[2] \in 1 .. Len(stack'[q[1]])
    BY <1>12 DEF Places
  <2>2. CASE q[1] = t
    <3>1. q[2] \in 1 .. N - 1
      BY <1>8, <1>9, <2>1, <2>2
    <3>2. q[2] \in 1 .. N /\ q[2] # N
      BY <1>1, <3>1
    <3> QED BY <1>1, <2>1, <2>2, <3>2 DEF Places
  <2>3. CASE q[1] # t
    BY <1>1, <1>9, <2>1, <2>3 DEF Places
  <2> QED BY <2>2, <2>3
<1> QED BY <1>2, <1>3, <1>4, <1>10, <1>11, <1>12 DEF f

LEMMA JoinNestedItems ==
  ASSUME CallTree, ScopeInv, ItemsInv, NEW t \in Worker, JoinNested(t) PROVE ItemsInv'
<1>0. /\ Typed /\ stack[t] # << >> /\ Top(t).pc = "join" /\ Joinable(t)
      /\ UNCHANGED <<captured, work, ran, reported>>
  BY DEF ScopeInv, InTask, JoinNested, Joinable
<1>1. PICK p : p = Innermost(t)
  OBVIOUS
<1>2. PICK b : b = <<p[1], p[2] - 1>>
  OBVIOUS
<1>3. /\ p \in Places /\ At(p) = Top(t) /\ p[1] = t /\ p[2] # 1 /\ b \in Places /\ b # p
      /\ p = Above(b)
      /\ Places' = Places \ {p} /\ At(b)' = [At(b) EXCEPT !.pc = "take"]
      /\ \A q \in Places \ {p, b} : At(q)' = At(q)
  BY <1>1, <1>2, JoinNestedPlaces
<1>4. At(b) \in TaskType /\ At(b).call \in Call /\ At(p).call \in Call /\ Kind[At(p).call] \in {"each", "do"}
  BY <1>0, <1>3, PlaceFacts DEF CallTree
<1>5. /\ At(b)'.call = At(b).call /\ At(b)'.item = At(b).item /\ At(b)'.pc = "take"
      /\ \A q \in Places \ {p} : /\ At(q)'.call = At(q).call /\ At(q)'.item = At(q).item
                                 /\ Number(q)' = Number(q)
  <2>1. At(b)'.call = At(b).call /\ At(b)'.item = At(b).item /\ At(b)'.pc = "take"
    BY <1>3, <1>4 DEF TaskType
  <2>2. \A q \in Places \ {p} : At(q)'.call = At(q).call /\ At(q)'.item = At(q).item
    BY <1>3, <2>1
  <2> QED BY <2>1, <2>2 DEF Number
<1>6. PICK m : m = At(p).call
  OBVIOUS
<1>7. PICK c, i : c = At(b).call /\ i = At(b).item
  OBVIOUS
<1>8. At(b).pc = "run" /\ \E n \in Nested : n.call = c /\ n.item = i /\ n.calls = m
  BY <1>2, <1>3, <1>6, <1>7, PlaceScoped DEF Makes
<1>9. PICK n \in Nested : n.call = c /\ n.item = i /\ n.calls = m
  BY <1>8
<1>10. /\ c \in Call /\ i \in Items(c) /\ Taken(c, i) /\ Begun(m) /\ Runs(b, c, i)
       /\ \A k \in Calls(c, i) : k = n
  <2>1. ItemOf(b) /\ Bottoms /\ OneHolder
    BY <1>3 DEF ItemsInv
  <2>2. i \in Items(c) /\ Taken(c, i) /\ Begun(m) /\ c \in Call
    BY <1>3, <1>4, <1>6, <1>7, <1>8, <2>1, HeldTaken, PlaceScoped
  <2>3. \A k \in Calls(c, i) : k = n
    BY <1>9 DEF Calls, CallTree
  <2> QED BY <1>7, <1>8, <2>2, <2>3 DEF Runs
<1>11. ~Active(m)'
  <2> SUFFICES ASSUME NEW q \in Places \ {p}, At(q).call = m PROVE FALSE
    BY <1>3, <1>5 DEF Active
  <2>1. t \notin Spawned(m) /\ Bottoms /\ OneHolder
    BY <1>3, <1>6 DEF ItemsInv, Bottoms
  <2>2. q[1] \in Worker /\ stack[q[1]] # << >>
    BY <1>0, PlaceFacts DEF Places
  <2>3. q[1] \notin Spawned(m)
    BY <1>0, <1>3, <1>6, <2>2 DEF Joinable
  <2>4. Number(q) = Number(p)
    BY <1>3, <1>6, <2>1, <2>3 DEF Number
  <2>5. q = p
    BY <1>3, <1>6, <2>1, <2>4, OneWorker
  <2> QED BY <2>5
<1>12. \A d : Active(d)' => Active(d)
  BY <1>3, <1>5 DEF Active
<1>13. \A q \in Places : \A d, j : ~Runs(p, d, j) /\
         (q # p => (Runs(q, d, j)' <=> Runs(q, d, j) /\ q # b))
  <2>1. \A d, j : ~Runs(p, d, j)
    BY <1>0, <1>3 DEF Runs
  <2>2. ASSUME NEW q \in Places, NEW d, NEW j, q # p
        PROVE  Runs(q, d, j)' <=> Runs(q, d, j) /\ q # b
    BY <1>3, <1>5, <2>2 DEF Runs
  <2> QED BY <2>1, <2>2
<1>14. Bottoms'
  BY <1>3, <1>5 DEF ItemsInv, Bottoms
<1>15. OneHolder'
  <2> SUFFICES ASSUME NEW q \in Places \ {p}, NEW r \in Places \ {p}, At(q)'.pc = "run",
                      Runs(r, At(q).call, At(q).item)'
               PROVE  q = r
    BY <1>3 DEF OneHolder
  <2>1. q # b /\ At(q)' = At(q)
    BY <1>3, <1>5
  <2>2. Runs(r, At(q).call, At(q).item)
    BY <1>5, <1>13, <2>1 DEF Runs
  <2> QED BY <2>1, <2>2 DEF ItemsInv, OneHolder
<1>16. ASSUME NEW q \in Places' PROVE ItemOf(q)'
  <2>1. ItemOf(q) /\ q \in Places \ {p}
    BY <1>3 DEF ItemsInv
  <2>2. CASE q # b
    BY <1>0, <1>3, <1>5, <2>1, <2>2 DEF ItemOf
  <2>3. CASE q = b
    BY <1>0, <1>5, <2>1, <2>3 DEF ItemOf
  <2> QED BY <2>2, <2>3
<1>17. Counted'
  <2>1. ASSUME NEW d \in Call, Begun(d), Kind[d] = "each", work[d] # Size[d]
        PROVE  \E q \in Places' : At(q)'.call = d /\ q[1] \notin Spawned(d) /\ At(q)'.pc # "join"
    <3>1. PICK q \in Places : At(q).call = d /\ q[1] \notin Spawned(d) /\ At(q).pc # "join"
      BY <2>1 DEF ItemsInv, Counted
    <3>2. q # p
      BY <1>0, <1>3, <3>1
    <3>3. At(q)'.pc # "join"
      BY <1>3, <1>5, <3>1, <3>2
    <3> QED BY <1>3, <1>5, <3>1, <3>2, <3>3
  <2>2. \A d \in Call : work[d] \in 0 .. Size[d] /\ (~Begun(d) => work[d] = 0)
    BY DEF ItemsInv, Counted
  <2> QED BY <1>0, <2>1, <2>2 DEF Counted, Begun
<1>18. \A d \in Call : \A j \in Items(d) : Taken(d, j)' <=> Taken(d, j)
  <2> SUFFICES ASSUME NEW d \in Call, NEW j \in Items(d) PROVE Taken(d, j)' <=> Taken(d, j)
    OBVIOUS
  <2>1. CASE Kind[d] = "each"
    BY <1>0, <2>1 DEF Taken
  <2>2. CASE Kind[d] # "each"
    <3>1. Kind[d] = "do"
      BY <2>2 DEF CallTree
    <3>2. At(p).call = d => At(p).item # 0
      BY <1>0, <1>3, <3>1 DEF ItemsInv, ItemOf
    <3> QED BY <1>0, <1>3, <1>5, <2>2, <3>2 DEF Taken, Begun
  <2> QED BY <2>1, <2>2
<1>19. \A d, j : (Fresh(d, j)' <=> Fresh(d, j)) /\ (Done(d, j) => Done(d, j)')
  BY <1>0, <1>12 DEF Fresh, Done, Begun
<1>20. \A d, j : Held(d, j) => Held(d, j)' \/ (d = c /\ j = i)
  <2> SUFFICES ASSUME NEW d, NEW j, NEW q \in Places, Runs(q, d, j)
               PROVE  Held(d, j)' \/ (d = c /\ j = i)
    BY DEF Held
  <2>1. q # p
    BY <1>13
  <2>2. CASE q = b
    BY <1>7, <2>2 DEF Runs
  <2>3. CASE q # b
    BY <1>3, <1>13, <2>1, <2>3 DEF Held
  <2> QED BY <2>2, <2>3
<1>21. Done(c, i)'
  <2>1. n \in Calls(c, i) /\ Begun(m)'
    BY <1>0, <1>9, <1>10 DEF Calls, Begun
  <2> QED BY <1>9, <1>10, <1>11, <2>1 DEF Done
<1>22. ItemsInOrder'
  <2> SUFFICES ASSUME NEW d \in Call, NEW j \in Items(d)
               PROVE  /\ ~Taken(d, j)' => Fresh(d, j)'
                      /\ Taken(d, j)' /\ ~Held(d, j)' => Done(d, j)'
    BY DEF ItemsInOrder
  <2>1. CASE d = c /\ j = i
    BY <1>10, <1>18, <1>21, <2>1
  <2>2. CASE d # c \/ j # i
    BY <1>18, <1>19, <1>20, <2>2 DEF ItemsInv, ItemsInOrder
  <2> QED BY <2>1, <2>2
<1>23. Ready'
  <2> SUFFICES ASSUME NEW q \in Places', At(q)'.pc = "run", Above(q)' \notin Places'
               PROVE  Fresh(At(q).call, At(q).item)'
    BY DEF Ready
  <2>1. q \in Places /\ q # p /\ q # b /\ At(q)' = At(q)
    BY <1>3, <1>5
  <2>2. Above(q) # p
    <3>1. /\ q = <<q[1], q[2]>> /\ q[2] \in Nat /\ p = <<p[1], p[2]>> /\ p[2] \in Nat
      BY <1>0, <1>3, <2>1, PlaceFacts
    <3> QED BY <1>2, <2>1, <3>1 DEF Above
  <2>3. Above(q) \notin Places
    BY <1>3, <2>2 DEF Above
  <2>4. Fresh(At(q).call, At(q).item)
    BY <2>1, <2>3 DEF ItemsInv, Ready
  <2> QED BY <1>19, <2>1, <2>4
<1>24. Ended'
  BY <1>0, <1>12 DEF ItemsInv, Ended, Begun, Over
<1> QED BY <1>0, <1>14, <1>15, <1>16, <1>17, <1>22, <1>23, <1>24 DEF ItemsInv

LEMMA InitItems == CallTree /\ RuntimeInit => ItemsInv
<1> SUFFICES ASSUME CallTree, RuntimeInit PROVE ItemsInv
  OBVIOUS
<1>0. ScopeInv
  BY InitScoped
<1>1. /\ \A u \in Worker : stack[u] = IF u \in Spawned(Root) \/ u = Main THEN <<Task(Root)>> ELSE << >>
      /\ Root \in Call /\ NThreads \in Nat \ {0}
  BY DEF RuntimeInit, Started, CallTree
<1>2. ASSUME NEW p \in Places
      PROVE  /\ p[1] \in Spawned(Root) \/ p[1] = Main
             /\ p[2] = 1 /\ At(p) = Task(Root)
  <2>1. p[1] \in Worker /\ p[2] \in 1 .. Len(stack[p[1]])
    BY DEF Places
  <2>2. p[1] \in Spawned(Root) \/ p[1] = Main
    <3>1. ASSUME stack[p[1]] = << >> PROVE FALSE
      BY <2>1, <3>1
    <3> QED BY <1>1, <2>1, <3>1
  <2>3. stack[p[1]] = <<Task(Root)>>
    BY <1>1, <2>1, <2>2
  <2>4. p[2] \in 1 .. 1
    BY <2>1, <2>3
  <2> QED BY <2>2, <2>3, <2>4 DEF At
<1>3. ASSUME NEW p \in Places
      PROVE  At(p).call = Root /\ At(p).pc = "enter" /\ At(p).item = 0
  BY <1>2 DEF Task
<1>4. ASSUME NEW u \in Spawned(Root) \cup {Main} PROVE <<u, 1>> \in Places
  <2>1. u \in Worker
    BY <1>1 DEF Worker
  <2>2. stack[u] = <<Task(Root)>>
    BY <1>1, <2>1
  <2>3. 1 \in Nat /\ 1 \in 1 .. Len(stack[u])
    BY <2>2
  <2>4. <<u, 1>> \in Worker \X Nat
    BY <2>1, <2>3
  <2> QED BY <2>3, <2>4 DEF Places
<1>5. Main \notin Spawned(Root) /\ Main[1] = Root
  BY <1>1 DEF Main, Spawned
<1>6. \A c \in Call : Begun(c) <=> c = Root
  BY <1>1 DEF Begun, RuntimeInit, RootScope
<1>7. Bottoms
  BY <1>2, <1>3, <1>5 DEF Bottoms, Spawned
<1>8. OneHolder /\ \A p \in Places : ItemOf(p)
  BY <1>3 DEF OneHolder, ItemOf
<1>9. \A c \in Call : work[c] = 0 /\ Size[c] \in Nat
  BY DEF RuntimeInit, CallTree
<1>10. Counted
  <2>1. PICK p : p = <<Main, 1>>
    OBVIOUS
  <2>2. p \in Places /\ p[1] \notin Spawned(Root) /\ At(p).call = Root /\ At(p).pc # "join"
    BY <1>3, <1>4, <1>5, <2>1
  <2>3. \A c \in Call : Begun(c) =>
          \E q \in Places : At(q).call = c /\ q[1] \notin Spawned(c) /\ At(q).pc # "join"
    BY <1>6, <2>2
  <2>4. \A c \in Call : work[c] \in 0 .. Size[c]
    BY <1>9
  <2> QED BY <1>9, <2>3, <2>4 DEF Counted
<1>11. ASSUME NEW c \in Call, NEW i \in Items(c) PROVE ~Taken(c, i) /\ Fresh(c, i)
  <2>1. ~Taken(c, i)
    <3>1. CASE Kind[c] = "each"
      BY <1>9, <3>1 DEF Taken, Items
    <3>2. CASE Kind[c] # "each" /\ c # Root
      BY <1>6, <3>2 DEF Taken
    <3>3. CASE Kind[c] # "each" /\ c = Root
      <4>1. i \in 1 .. NThreads
        BY <3>3 DEF CallTree, Items
      <4>2. PICK u : u = IF i = NThreads THEN Main ELSE <<Root, i>>
        OBVIOUS
      <4>3. u \in Spawned(Root) \cup {Main} /\ (i # NThreads => u \in Spawned(Root) /\ u[2] = i)
        BY <1>1, <4>1, <4>2 DEF Spawned
      <4>4. PICK p : p = <<u, 1>>
        OBVIOUS
      <4>5. p \in Places /\ p[1] = u /\ At(p).call = Root /\ At(p).item = 0
        BY <1>3, <1>4, <4>3, <4>4
      <4>6. Number(p) = i
        BY <1>5, <4>2, <4>3, <4>5 DEF Number
      <4> QED BY <3>3, <4>5, <4>6 DEF Taken
    <3> QED BY <3>1, <3>2, <3>3
  <2>2. Fresh(c, i)
    <3>1. Calls(c, i) = {} => ran[<<c, i>>] = 0
      BY DEF RuntimeInit, Leaves
    <3>2. \A n \in Calls(c, i) : ~Begun(n.calls)
      BY <1>6, MakerFacts DEF Calls
    <3> QED BY <3>1, <3>2 DEF Fresh
  <2> QED BY <2>1, <2>2
<1>12. ItemsInOrder /\ Ready
  BY <1>3, <1>11 DEF ItemsInOrder, Ready
<1>13. Ended
  BY <1>1, <1>6 DEF Ended, RuntimeInit, Over, Running
<1>14. ran \in [Leaves -> Nat] /\ work \in [Call -> Nat]
  BY DEF RuntimeInit
<1> QED BY <1>7, <1>8, <1>10, <1>12, <1>13, <1>14 DEF ItemsInv

LEMMA EnterItems ==
  ASSUME CallTree, ScopeInv, ItemsInv, NEW t \in Worker, Enter(t) PROVE ItemsInv'
<1>1. stack[t] # << >> /\ Top(t).pc = "enter"
  BY DEF Enter, InTask
<1>2. PICK f : f = [Top(t) EXCEPT !.pc = "take", !.saved = overlays[t]]
  OBVIOUS
<1>3. f \in TaskType /\ f.call = Top(t).call /\ f.item = Top(t).item /\ f.pc = "take"
  BY <1>1, <1>2, TopFacts DEF TaskType
<1>4. stack' = SetTop(stack, t, f) /\ UNCHANGED <<captured, work, ran, reported>>
  BY <1>2 DEF Enter
<1>5. f.pc = "join" => NextItem(t) \notin Items(f.call)
  BY <1>3
<1>6. f.pc \in {"take", "join"} /\ Top(t).pc # "run"
  BY <1>1, <1>3
<1> HIDE <1>2
<1> QED BY <1>1, <1>3, <1>4, <1>5, <1>6, QuietItems

LEMMA TakeInOrder ==
  ASSUME CallTree, ScopeInv, ItemsInv, NEW t \in Worker, Take(t) PROVE ItemsInv'
<1>1. InTask(t, "take") /\ stack[t] # << >> /\ NextItem(t) \in Items(Top(t).call)
  BY DEF Take, InTask
<1>2. PICK c, i : c = Top(t).call /\ i = NextItem(t)
  OBVIOUS
<1>3. PICK f : f = [Top(t) EXCEPT !.pc = "run", !.item = NextItem(t)]
  OBVIOUS
<1>4. NextItem(t) \in Nat
  <2>1. Size[Top(t).call] \in Nat
    BY <1>1, TopFacts DEF CallTree
  <2> QED BY <1>1, <2>1 DEF Items
<1>5. f \in TaskType /\ f.call = c /\ f.item = i /\ f.pc = "run"
  BY <1>1, <1>2, <1>3, <1>4, TopFacts DEF TaskType
<1>6. /\ stack' = SetTop(stack, t, f) /\ UNCHANGED <<captured, ran, reported>>
      /\ work' = IF Kind[c] = "each" THEN [work EXCEPT ![c] = @ + 1] ELSE work
  BY <1>2, <1>3 DEF Take
<1>7. i \in Items(c)
  BY <1>1, <1>2
<1> QED BY <1>1, <1>2, <1>5, <1>6, <1>7, TakeItems

LEMMA LeaveItems ==
  ASSUME CallTree, ScopeInv, ItemsInv, NEW t \in Worker, Leave(t) PROVE ItemsInv'
<1>0. Typed
  BY DEF ScopeInv
<1>1. /\ stack[t] # << >> /\ Top(t).pc = "take" /\ NextItem(t) \notin Items(Top(t).call)
      /\ UNCHANGED <<captured, work, ran, reported>>
  BY DEF Leave, InTask
<1>2. PICK p, c : p = Innermost(t) /\ c = Top(t).call
  OBVIOUS
<1>3. p \in Places /\ p[1] = t /\ At(p) = Top(t)
  BY <1>0, <1>1, <1>2, InnermostFacts
<1>4. CASE t \in Spawned(Top(t).call)
  <2>1. stack' = [stack EXCEPT ![t] = << >>]
    BY <1>4 DEF Leave
  <2>2. Len(stack[t]) = 1
    BY <1>2, <1>3, <1>4 DEF ItemsInv, Bottoms, Innermost
  <2>3. Kind[c] = "do" => Top(t).item # 0
    BY <1>0, <1>1, <1>2, NextItemFacts
  <2>4. Over' => Over
    BY <1>1 DEF Over
  <2>5. Top(t).pc # "run"
    BY <1>1
  <2> QED BY <1>1, <1>2, <1>4, <2>1, <2>2, <2>3, <2>4, <2>5, EndItems
<1>5. CASE t \notin Spawned(Top(t).call)
  <2>1. PICK f : f = [Top(t) EXCEPT !.pc = "join"]
    OBVIOUS
  <2>2. f \in TaskType /\ f.call = Top(t).call /\ f.item = Top(t).item /\ f.pc = "join"
    BY <1>1, <2>1, TopFacts DEF TaskType
  <2>3. stack' = SetTop(stack, t, f)
    BY <1>5, <2>1 DEF Leave
  <2>4. NextItem(t) \notin Items(f.call) /\ f.pc \in {"take", "join"} /\ Top(t).pc # "run"
    BY <1>1, <2>2
  <2> HIDE <2>1
  <2> QED BY <1>1, <2>2, <2>3, <2>4, QuietItems
<1> QED BY <1>4, <1>5

LEMMA LeafInOrder ==
  ASSUME CallTree, ScopeInv, ItemsInv, NEW t \in Worker, RunLeaf(t) \/ ThrowLeaf(t) PROVE ItemsInv'
<1>1. /\ InTask(t, "run") /\ stack[t] # << >> /\ AtLeaf(t)
      /\ ran' = [ran EXCEPT ![Leaf(t)] = @ + 1] /\ UNCHANGED <<captured, work, reported>>
  BY DEF RunLeaf, ThrowLeaf, InTask
<1>2. PICK f : f = [Top(t) EXCEPT !.pc = "take"]
  OBVIOUS
<1>3. f \in TaskType /\ f.call = Top(t).call /\ f.item = Top(t).item /\ f.pc = "take"
  BY <1>1, <1>2, TopFacts DEF TaskType
<1>4. stack' = SetTop(stack, t, f)
  BY <1>2 DEF RunLeaf, ThrowLeaf
<1> HIDE <1>2
<1> QED BY <1>1, <1>3, <1>4, LeafItems

LEMMA JoinRootItems ==
  ASSUME CallTree, ScopeInv, ItemsInv, NEW t \in Worker, JoinRoot(t) PROVE ItemsInv'
<1>0. Typed
  BY DEF ScopeInv
<1>1. /\ stack[t] # << >> /\ Top(t).pc = "join" /\ Joinable(t) /\ Len(stack[t]) = 1 /\ t = Main
      /\ stack' = [stack EXCEPT ![t] = << >>] /\ UNCHANGED <<captured, work, ran>>
  BY DEF JoinRoot, Joinable, InTask
<1>2. PICK p, c : p = Innermost(t) /\ c = Top(t).call
  OBVIOUS
<1>3. p \in Places /\ p[1] = t /\ At(p) = Top(t) /\ p[2] = 1
  BY <1>0, <1>1, <1>2, InnermostFacts DEF Innermost
<1>4. c = Root
  <2>1. At(p).call = p[1][1]
    BY <1>3 DEF ItemsInv, Bottoms
  <2>2. Main[1] = Root
    BY DEF Main
  <2> QED BY <1>1, <1>2, <1>3, <2>1, <2>2
<1>5. Kind[c] = "do" => Top(t).item # 0
  BY <1>1, <1>2, <1>3 DEF ItemsInv, ItemOf
<1>6. Top(t).pc # "run" /\ (Over' => Over \/ (c = Root /\ Top(t).pc = "join" /\ Joinable(t)))
  BY <1>1, <1>4
<1> QED BY <1>1, <1>2, <1>5, <1>6, EndItems

LEMMA NextItems == CallTree /\ ScopeInv /\ ItemsInv /\ [RuntimeNext]_runtimeVars => ItemsInv'
<1> SUFFICES ASSUME CallTree, ScopeInv, ItemsInv, [RuntimeNext]_runtimeVars PROVE ItemsInv'
  OBVIOUS
<1>1. ASSUME NEW t \in Worker, Enter(t) PROVE ItemsInv'
  BY <1>1, EnterItems
<1>2. ASSUME NEW t \in Worker, Take(t) PROVE ItemsInv'
  BY <1>2, TakeInOrder
<1>3. ASSUME NEW t \in Worker, Leave(t) PROVE ItemsInv'
  BY <1>3, LeaveItems
<1>4. ASSUME NEW t \in Worker, RunLeaf(t) \/ ThrowLeaf(t) PROVE ItemsInv'
  BY <1>4, LeafInOrder
<1>5. ASSUME NEW t \in Worker, RunNested(t) PROVE ItemsInv'
  BY <1>5, RunNestedItems
<1>6. ASSUME NEW t \in Worker, JoinNested(t) PROVE ItemsInv'
  BY <1>6, JoinNestedItems
<1>7. ASSUME NEW t \in Worker, JoinRoot(t) PROVE ItemsInv'
  BY <1>7, JoinRootItems
<1>8. CASE UNCHANGED runtimeVars
  <2> USE <1>8 DEF runtimeVars
  <2>1. Places' = Places /\ \A p : At(p)' = At(p)
    BY DEF Places, At
  <2>2. \A p : Number(p)' = Number(p) /\ Above(p)' = Above(p)
    BY <2>1 DEF Number, Above
  <2>3. \A c, i : /\ Taken(c, i)' <=> Taken(c, i)
                  /\ Held(c, i)' <=> Held(c, i)
                  /\ Fresh(c, i)' <=> Fresh(c, i)
                  /\ Done(c, i)' <=> Done(c, i)
    BY <2>1, <2>2 DEF Taken, Held, Fresh, Done, Begun, Active, Runs
  <2>4. Bottoms' /\ OneHolder' /\ (\A p \in Places' : ItemOf(p)') /\ Counted'
    BY <2>1, <2>2 DEF ItemsInv, Bottoms, OneHolder, Runs, ItemOf, Counted, Begun
  <2>5. ItemsInOrder' /\ Ready' /\ Ended'
    <3>1. ItemsInOrder'
      BY <2>3 DEF ItemsInv, ItemsInOrder
    <3>2. Ready'
      BY <2>1, <2>2, <2>3 DEF ItemsInv, Ready
    <3>3. Ended'
      BY <2>1 DEF ItemsInv, Ended, Begun, Active, Over
    <3> QED BY <3>1, <3>2, <3>3
  <2> QED BY <2>4, <2>5 DEF ItemsInv
<1> QED BY <1>1, <1>2, <1>3, <1>4, <1>5, <1>6, <1>7, <1>8 DEF RuntimeNext, WorkerStep

\* When the root call is over, so is every call of the tree.
LEMMA AllOver ==
  ASSUME CallTree, ScopeInv, ItemsInv, Over
  PROVE  \A c \in Call : /\ Begun(c) /\ ~Active(c)
                         /\ \A i \in Items(c) : Done(c, i)
<1>1. ASSUME NEW c \in Call, Begun(c), ~Active(c), NEW i \in Items(c) PROVE Done(c, i)
  <2>1. Taken(c, i)
    <3>1. CASE Kind[c] = "each"
      <4>1. work[c] = Size[c] /\ Size[c] \in Nat
        BY <1>1, <3>1 DEF ItemsInv, Counted, Active, CallTree
      <4> QED BY <3>1, <4>1 DEF Taken, Items
    <3>2. CASE Kind[c] # "each"
      BY <1>1, <3>2 DEF Taken, Active
    <3> QED BY <3>1, <3>2
  <2>2. ~Held(c, i)
    BY <1>1 DEF Held, Runs, Active
  <2> QED BY <2>1, <2>2 DEF ItemsInv, ItemsInOrder
<1> DEFINE Bad == {c \in Call : ~(Begun(c) /\ ~Active(c))}
<1>2. Bad = {}
  <2> SUFFICES ASSUME Bad # {} PROVE FALSE
    OBVIOUS
  <2>1. PICK c \in Bad : c # Root => Maker(c).call \notin Bad
    <3>1. Bad \subseteq Call
      OBVIOUS
    <3> HIDE DEF Bad
    <3> QED BY <3>1, Outermost
  <2>2. c # Root
    BY <2>1 DEF ItemsInv, Ended
  <2> DEFINE n == Maker(c)
  <2>3. n \in Nested /\ n.calls = c /\ n.call \in Call
    BY <2>1, <2>2, MakerFacts
  <2>4. Begun(n.call) /\ ~Active(n.call) /\ n.item \in Items(n.call)
    BY <2>1, <2>2, <2>3 DEF CallTree
  <2>5. Done(n.call, n.item) /\ n \in Calls(n.call, n.item)
    BY <1>1, <2>3, <2>4 DEF Calls
  <2>6. Begun(c) /\ ~Active(c)
    BY <2>3, <2>5 DEF Done
  <2> QED BY <2>1, <2>6
<1> QED BY <1>1, <1>2

LEMMA ItemsInvOnce == CallTree /\ ScopeInv /\ ItemsInv => ItemsRunOnce
<1> SUFFICES ASSUME CallTree, ScopeInv, ItemsInv PROVE ItemsRunOnce
  OBVIOUS
<1>1. ASSUME NEW l \in Leaves
      PROVE  \E c \in Call : \E i \in Items(c) : l = <<c, i>> /\ Calls(c, i) = {}
  BY DEF Leaves
<1>2. ASSUME NEW l \in Leaves PROVE ran[l] <= 1
  <2>1. PICK c \in Call : \E i \in Items(c) : l = <<c, i>> /\ Calls(c, i) = {}
    BY <1>1
  <2>2. PICK i \in Items(c) : l = <<c, i>> /\ Calls(c, i) = {}
    BY <2>1
  <2>3. CASE ~Taken(c, i)
    BY <2>2, <2>3 DEF ItemsInv, ItemsInOrder, Fresh
  <2>4. CASE Taken(c, i) /\ ~Held(c, i)
    BY <2>2, <2>4 DEF ItemsInv, ItemsInOrder, Done
  <2>5. CASE Held(c, i)
    <3>1. PICK q \in Places : Runs(q, c, i)
      BY <2>5 DEF Held
    <3>2. Above(q) \notin Places
      BY <2>2, <3>1, PlaceScoped DEF Makes, Runs, Calls
    <3>3. Fresh(c, i)
      BY <3>1, <3>2 DEF ItemsInv, Ready, Runs
    <3> QED BY <2>2, <3>3 DEF Fresh
  <2> QED BY <2>3, <2>4, <2>5
<1>3. ASSUME Over, NEW l \in Leaves PROVE ran[l] = 1
  <2>1. PICK c \in Call : \E i \in Items(c) : l = <<c, i>> /\ Calls(c, i) = {}
    BY <1>1
  <2>2. PICK i \in Items(c) : l = <<c, i>> /\ Calls(c, i) = {}
    BY <2>1
  <2> QED BY <1>3, <2>2, AllOver DEF Done
<1> QED BY <1>2, <1>3 DEF ItemsRunOnce

(* Every item of every call runs once, whoever throws, and none is left    *)
(* when the root call is over: for every number of threads, however the    *)
(* calls are nested and whichever worker takes the items.                  *)
THEOREM ItemsCorrect == ASSUME CallTree PROVE RuntimeSpec => []ItemsRunOnce
<1>1. RuntimeInit => ScopeInv /\ ItemsInv
  BY InitScoped, InitItems
<1>2. ScopeInv /\ ItemsInv /\ [RuntimeNext]_runtimeVars => (ScopeInv /\ ItemsInv)'
  BY NextScoped, NextItems
<1>3. ScopeInv /\ ItemsInv => ItemsRunOnce
  BY ItemsInvOnce
<1> QED BY <1>1, <1>2, <1>3, PTL DEF RuntimeSpec

-----------------------------------------------------------------------------
(* What the calls throw, and where it is recorded.                         *)

Entry == [item : Nat, leaf : Leaves]

\* Ordered permutes the entries so that the items do not descend.
LEMMA OrderedFacts ==
  ASSUME NEW s \in Seq(Entry)
  PROVE  \E f \in [1 .. Len(s) -> 1 .. Len(s)] :
           /\ \A i \in 1 .. Len(s) : \E j \in 1 .. Len(s) : f[j] = i
           /\ \A j, k \in 1 .. Len(s) : f[j] = f[k] => j = k
           /\ \A j, k \in 1 .. Len(s) : j < k => s[f[j]].item <= s[f[k]].item
           /\ Ordered(s) = [j \in 1 .. Len(s) |-> s[f[j]]]
<1> DEFINE D == 1 .. Len(s)
           n(i) == Cardinality(UpTo(s, i))
<1>1. /\ DOMAIN s = D /\ Len(s) \in Nat /\ IsFiniteSet(D) /\ Cardinality(D) = Len(s)
      /\ \A i \in D : s[i] \in Entry /\ s[i].item \in Nat
  <2>1. IsFiniteSet(D) /\ Cardinality(D) = IF 1 > Len(s) THEN 0 ELSE Len(s) - 1 + 1
    BY FS_Interval
  <2>2. \A i \in D : s[i] \in Entry
    OBVIOUS
  <2> QED BY <2>1, <2>2 DEF Entry
<1>2. ASSUME NEW i \in D
      PROVE  /\ UpTo(s, i) \subseteq D /\ i \in UpTo(s, i) /\ IsFiniteSet(UpTo(s, i))
             /\ n(i) \in D
  <2>1. UpTo(s, i) \subseteq D /\ i \in UpTo(s, i)
    BY <1>1 DEF UpTo
  <2>2. IsFiniteSet(UpTo(s, i)) /\ n(i) <= Len(s)
    BY <1>1, <2>1, FS_Subset
  <2>3. n(i) \in Nat /\ n(i) # 0
    BY <2>1, <2>2, FS_CardinalityType, FS_EmptySet
  <2> QED BY <1>1, <2>1, <2>2, <2>3
<1>3. ASSUME NEW i \in D, NEW k \in D, i # k, i \in UpTo(s, k) PROVE n(i) < n(k)
  <2>1. UpTo(s, i) \subseteq UpTo(s, k) /\ k \notin UpTo(s, i)
    BY <1>1, <1>3 DEF UpTo
  <2>2. n(i) <= n(k) /\ n(i) # n(k)
    BY <1>2, <2>1, FS_Subset
  <2> QED BY <1>2, <2>2
<1>4. \A i, k \in D : i = k \/ i \in UpTo(s, k) \/ k \in UpTo(s, i)
  BY <1>1 DEF UpTo
<1>5. \A i, k \in D : n(i) = n(k) => i = k
  BY <1>2, <1>3, <1>4
<1>6. \A j \in D : \E i \in D : n(i) = j
  <2> DEFINE r == [i \in D |-> n(i)]
  <2>1. r \in Injection(D, D)
    BY <1>2, <1>5 DEF Injection, IsInjective
  <2>2. r \in Surjection(D, D)
    BY <1>1, <2>1, FS_Injection
  <2> QED BY <2>2 DEF Surjection
<1> DEFINE f == [j \in D |-> CHOOSE i \in D : n(i) = j]
<1>7. \A j \in D : f[j] \in D /\ n(f[j]) = j
  BY <1>6
<1>8. Ordered(s) = [j \in D |-> s[f[j]]]
  BY <1>1 DEF Ordered
<1> HIDE DEF n, f
<1>9. f \in [D -> D]
  BY <1>7 DEF f
<1>10. \A i \in D : \E j \in D : f[j] = i
  BY <1>2, <1>5, <1>7
<1>11. \A j, k \in D : f[j] = f[k] => j = k
  BY <1>7
<1>12. ASSUME NEW j \in D, NEW k \in D, j < k PROVE s[f[j]].item <= s[f[k]].item
  <2> SUFFICES ASSUME s[f[k]].item < s[f[j]].item PROVE FALSE
    BY <1>1, <1>7
  <2>1. f[k] \in UpTo(s, f[j]) /\ f[k] # f[j]
    BY <1>1, <1>7 DEF UpTo
  <2>2. n(f[k]) < n(f[j])
    BY <1>3, <1>7, <2>1
  <2> QED BY <1>7, <1>12, <2>2
<1> QED BY <1>8, <1>9, <1>10, <1>11, <1>12

\* the call was made and is over
Finished(c) == Begun(c) /\ ~Active(c)

\* Whoever joins the threads of a call is the last to have a task of it.
LEMMA JoinsAlone ==
  ASSUME CallTree, ScopeInv, ItemsInv, NEW t \in Worker, Joinable(t), NEW p, p = Innermost(t),
         NEW q \in Places, At(q).call = At(p).call
  PROVE  q = p
<1> DEFINE m == At(p).call
<1>1. Typed /\ stack[t] # << >> /\ Top(t).pc = "join"
  BY DEF ScopeInv, Joinable, InTask
<1>2. p \in Places /\ At(p) = Top(t) /\ p[1] = t
  BY <1>1, InnermostFacts
<1>3. t \notin Spawned(m)
  <2>1. TaskScoped(t, Top(t))
    BY <1>1, TopFacts
  <2> QED BY <1>1, <1>2, <2>1 DEF TaskScoped
<1>4. q[1] \in Worker /\ stack[q[1]] # << >>
  BY <1>1, PlaceFacts DEF Places
<1>5. q[1] \notin Spawned(m)
  BY <1>2, <1>4 DEF Joinable
<1>6. Number(q) = Number(p)
  BY <1>2, <1>3, <1>5 DEF Number
<1>7. Bottoms /\ OneHolder
  BY DEF ItemsInv
<1> QED BY <1>2, <1>6, <1>7, OneWorker

\* While a call that an item makes goes on, a thread runs that item and has the
\* call above it.
LEMMA CallerStays ==
  ASSUME CallTree, ScopeInv, ItemsInv, NEW n \in Nested, Active(n.calls)
  PROVE  \E q \in Places : At(q).pc = "run" /\ Above(q) \in Places /\ At(Above(q)).call = n.calls
<1> DEFINE c == n.call
           i == n.item
<1>1. c \in Call /\ i \in Items(c) /\ n \in Calls(c, i)
  BY DEF CallTree, Calls
<1>2. Begun(n.calls)
  BY PlaceScoped DEF Active
<1>3. Held(c, i)
  <2> SUFFICES ASSUME ~Held(c, i) PROVE FALSE
    OBVIOUS
  <2>1. Fresh(c, i) \/ Done(c, i)
    BY <1>1 DEF ItemsInv, ItemsInOrder
  <2> QED BY <1>1, <1>2, <2>1 DEF Fresh, Done
<1>4. PICK q \in Places : Runs(q, c, i)
  BY <1>3 DEF Held
<1>5. Above(q) \in Places
  <2> SUFFICES ASSUME Above(q) \notin Places PROVE FALSE
    OBVIOUS
  <2>1. Fresh(c, i)
    BY <1>4 DEF ItemsInv, Ready, Runs
  <2> QED BY <1>1, <1>2, <2>1 DEF Fresh
<1>6. PICK m \in Nested : m.call = c /\ m.item = i /\ m.calls = At(Above(q)).call
  <2>1. Makes(At(q), At(Above(q)))
    BY <1>5, PlaceScoped
  <2> QED BY <1>4, <2>1 DEF Makes, Runs
<1>7. m = n
  BY <1>6 DEF CallTree
<1> QED BY <1>4, <1>5, <1>6, <1>7 DEF Runs

\* No call ends, and none that has ended goes on, but where a caller joins.
LEMMA OthersGoOn ==
  ASSUME CallTree, ScopeInv, ItemsInv, NEW t \in Worker,
         \/ Enter(t) \/ Take(t) \/ Leave(t) \/ RunLeaf(t) \/ ThrowLeaf(t)
         \/ RunNested(t) \/ JoinRoot(t)
  PROVE  \A n \in Nested : Finished(n.calls)' <=> Finished(n.calls)
<1>0. Typed /\ stack[t] # << >>
  BY DEF ScopeInv, Enter, Take, Leave, RunLeaf, ThrowLeaf, RunNested, JoinRoot, Joinable, InTask
<1>1. PICK p : p = Innermost(t)
  OBVIOUS
<1>2. Top(t) \in TaskType /\ Top(t).call \in Call
  BY <1>0, TopFacts
<1>3. ASSUME captured' = captured, NEW f \in TaskType, f.call = Top(t).call,
             stack' = SetTop(stack, t, f)
      PROVE  \A n \in Nested : Finished(n.calls)' <=> Finished(n.calls)
  <2>1. \A d : Active(d)' <=> Active(d)
    BY <1>0, <1>1, <1>3, InPlace
  <2> QED BY <1>3, <2>1 DEF Finished, Begun
<1>4. CASE Enter(t)
  <2>1. PICK f : f = [Top(t) EXCEPT !.pc = "take", !.saved = overlays[t]]
    OBVIOUS
  <2>2. f \in TaskType /\ f.call = Top(t).call
    <3>1. overlays[t] \in Scope
      BY <1>0, TopFacts
    <3> QED BY <1>2, <2>1, <3>1 DEF TaskType
  <2>3. stack' = SetTop(stack, t, f) /\ captured' = captured
    BY <1>4, <2>1 DEF Enter
  <2> QED BY <1>3, <2>2, <2>3
<1>5. CASE Take(t)
  <2>1. PICK f : f = [Top(t) EXCEPT !.pc = "run", !.item = NextItem(t)]
    OBVIOUS
  <2>2. NextItem(t) \in Nat
    BY <1>2, <1>5 DEF Take, CallTree, Items
  <2>3. f \in TaskType /\ f.call = Top(t).call
    BY <1>2, <2>1, <2>2 DEF TaskType
  <2>4. stack' = SetTop(stack, t, f) /\ captured' = captured
    BY <1>5, <2>1 DEF Take
  <2> QED BY <1>3, <2>3, <2>4
<1>6. CASE RunLeaf(t) \/ ThrowLeaf(t)
  <2>1. PICK f : f = [Top(t) EXCEPT !.pc = "take"]
    OBVIOUS
  <2>2. f \in TaskType /\ f.call = Top(t).call
    BY <1>2, <2>1 DEF TaskType
  <2>3. stack' = SetTop(stack, t, f) /\ captured' = captured
    BY <1>6, <2>1 DEF RunLeaf, ThrowLeaf
  <2> QED BY <1>3, <2>2, <2>3
<1>7. CASE Leave(t) /\ t \notin Spawned(Top(t).call)
  <2>1. PICK f : f = [Top(t) EXCEPT !.pc = "join"]
    OBVIOUS
  <2>2. f \in TaskType /\ f.call = Top(t).call
    BY <1>2, <2>1 DEF TaskType
  <2>3. stack' = SetTop(stack, t, f) /\ captured' = captured
    BY <1>7, <2>1 DEF Leave
  <2> QED BY <1>3, <2>2, <2>3
<1>8. CASE Leave(t) /\ t \in Spawned(Top(t).call)
  <2>1. p \in Places /\ At(p) = Top(t) /\ p[1] = t
    BY <1>0, <1>1, InnermostFacts
  <2>2. /\ stack' = [stack EXCEPT ![t] = << >>] /\ captured' = captured
        /\ At(p).pc = "take" /\ Len(stack[t]) = 1
    BY <1>1, <1>8, <2>1 DEF Leave, InTask, ItemsInv, Bottoms, Innermost
  <2>3. /\ Places' = Places \ {p} /\ p[2] = 1
        /\ \A q \in Places \ {p} : At(q)' = At(q)
    BY <1>0, <1>1, <2>2, EndPlaces
  <2>4. ASSUME NEW n \in Nested, Active(n.calls) PROVE Active(n.calls)'
    <3>1. PICK q \in Places : /\ At(q).pc = "run" /\ Above(q) \in Places
                              /\ At(Above(q)).call = n.calls
      BY <2>4, CallerStays
    <3>2. q[2] \in Nat \ {0} /\ Above(q)[2] = q[2] + 1
      BY <1>0, PlaceFacts DEF Above
    <3>3. Above(q) # p
      BY <2>3, <3>2
    <3> QED BY <2>3, <3>1, <3>3 DEF Active
  <2>5. \A d : Active(d)' => Active(d)
    BY <2>3 DEF Active
  <2> QED BY <2>2, <2>4, <2>5 DEF Finished, Begun
<1>9. CASE JoinRoot(t)
  <2>1. stack' = [stack EXCEPT ![t] = << >>] /\ captured' = captured /\ t = Main /\ Len(stack[t]) = 1
    BY <1>9 DEF JoinRoot
  <2>2. /\ Places' = Places \ {p} /\ p \in Places /\ p[1] = t /\ p[2] = 1
        /\ \A q \in Places \ {p} : At(q)' = At(q)
    BY <1>0, <1>1, <2>1, EndPlaces
  <2>3. At(p).call = Root
    BY <2>1, <2>2 DEF ItemsInv, Bottoms, Main
  <2>4. \A n \in Nested : n.calls # Root
    BY DEF CallTree
  <2>5. \A d : d # Root => (Active(d)' <=> Active(d))
    BY <2>2, <2>3 DEF Active
  <2> QED BY <2>1, <2>4, <2>5 DEF Finished, Begun
<1>10. CASE RunNested(t)
  <2>1. PICK m \in Nested : /\ m \in Calls(Top(t).call, Top(t).item)
                            /\ captured' = [captured EXCEPT ![m.calls] = overlays'[t]]
                            /\ stack' = Started(stack, t, m.calls)
    BY <1>10 DEF RunNested, Calls
  <2>2. p \in Places /\ At(p) = Top(t) /\ p[1] = t /\ Above(p) \notin Places
    BY <1>0, <1>1, InnermostFacts
  <2>3. ~Begun(m.calls) /\ m.calls \in Call
    <3>1. Fresh(Top(t).call, Top(t).item)
      BY <1>10, <2>2 DEF ItemsInv, Ready, RunNested, InTask
    <3> QED BY <2>1, <3>1 DEF Fresh, CallTree
  <2>4. PICK S : S = {<<u, 1>> : u \in Spawned(m.calls)} \cup {Above(p)}
    OBVIOUS
  <2>5. Bottoms
    BY DEF ItemsInv
  <2>6. /\ Places' = Places \cup S
        /\ \A q \in Places : q \notin S /\ At(q)' = At(q)
        /\ \A q \in S : At(q)' = Task(m.calls)
    BY <1>0, <1>1, <2>1, <2>3, <2>4, <2>5, RunNestedPlaces
  <2>7. \A q \in S : At(q)'.call = m.calls
    BY <2>6 DEF Task
  <2>8. \A d : d # m.calls => (Active(d)' <=> Active(d))
    BY <2>6, <2>7 DEF Active
  <2>9. Active(m.calls)'
    BY <2>4, <2>6, <2>7 DEF Active
  <2>10. \A d \in Call : d # m.calls => captured'[d] = captured[d]
    BY <1>0, <2>1 DEF Typed
  <2>11. \A n \in Nested : n.calls \in Call
    BY DEF CallTree
  <2> QED BY <2>3, <2>8, <2>9, <2>10, <2>11 DEF Finished, Begun
<1> QED BY <1>4, <1>5, <1>6, <1>7, <1>8, <1>9, <1>10

\* A caller that joins ends the call it made: for the item that made it, which
\* records the call's exceptions as its own.
LEMMA JoinEnds ==
  ASSUME CallTree, ScopeInv, ItemsInv, NEW t \in Worker, JoinNested(t)
  PROVE  \E n \in Nested :
           /\ n.call \in Call /\ n.calls \in Call /\ n.item \in Items(n.call)
           /\ Calls(n.call, n.item) = {n}
           /\ Active(n.calls) /\ Begun(n.calls) /\ Finished(n.calls)'
           /\ Active(n.call) /\ Active(n.call)'
           /\ \A m \in Nested : m.calls # n.calls => (Finished(m.calls)' <=> Finished(m.calls))
           /\ errors' = [errors EXCEPT ![n.call] =
                           @ \o Recorded(n.item, Ordered(errors[n.calls]))]
<1>0. Typed /\ stack[t] # << >> /\ Joinable(t) /\ captured' = captured
  BY DEF ScopeInv, JoinNested, Joinable, InTask
<1>1. PICK p : p = Innermost(t)
  OBVIOUS
<1>2. PICK b : b = <<p[1], p[2] - 1>>
  OBVIOUS
<1>3. /\ p \in Places /\ At(p) = Top(t) /\ p[1] = t /\ p[2] # 1 /\ b \in Places /\ b # p
      /\ Places' = Places \ {p} /\ At(b)' = [At(b) EXCEPT !.pc = "take"]
      /\ \A q \in Places \ {p, b} : At(q)' = At(q)
  BY <1>1, <1>2, JoinNestedPlaces
<1>4. Makes(At(b), At(p)) /\ Begun(At(p).call)
  BY <1>2, <1>3, PlaceScoped
<1>5. PICK n \in Nested : n.call = At(b).call /\ n.item = At(b).item /\ n.calls = At(p).call
  BY <1>4 DEF Makes
<1>6. /\ n.call \in Call /\ n.calls \in Call /\ n.item \in Items(n.call)
      /\ Calls(n.call, n.item) = {n}
  BY DEF CallTree, Calls
<1>7. \A q \in Places \ {p} : At(q)'.call = At(q).call
  <2>1. At(b) \in TaskType
    BY <1>0, <1>3, PlaceFacts
  <2> QED BY <1>3, <2>1 DEF TaskType
<1>8. Active(n.calls) /\ Active(n.call) /\ Active(n.call)'
  BY <1>3, <1>5, <1>7 DEF Active
<1>9. ~Active(n.calls)'
  BY <1>0, <1>1, <1>3, <1>5, <1>7, JoinsAlone DEF Active
<1>10. \A d : d # n.calls => (Active(d)' <=> Active(d))
  BY <1>3, <1>5, <1>7 DEF Active
<1>11. errors' = [errors EXCEPT ![n.call] = @ \o Recorded(n.item, Ordered(errors[n.calls]))]
  <2>1. At(b) = stack[t][Len(stack[t]) - 1]
    BY <1>1, <1>2 DEF At, Innermost
  <2> QED BY <1>3, <1>5, <2>1 DEF JoinNested
<1> QED BY <1>0, <1>4, <1>5, <1>6, <1>8, <1>9, <1>10, <1>11 DEF Finished, Begun

\* the items from the root call down to an item, with it
Way(c, i) == Append(Path[c], <<c, i>>)

\* leaf l is item i of call c, or is below it
Below(l, c, i) ==
  /\ Len(Way(c, i)) <= Len(Way(l[1], l[2]))
  /\ \A k \in 1 .. Len(Way(c, i)) : Way(l[1], l[2])[k] = Way(c, i)[k]

\* what a leaf is
LEMMA LeafFacts ==
  ASSUME CallTree, NEW l \in Leaves
  PROVE  /\ l = <<l[1], l[2]>> /\ l[1] \in Call /\ l[2] \in Items(l[1]) /\ l[2] \in Nat
         /\ Calls(l[1], l[2]) = {}
<1>1. PICK c \in Call : \E i \in Items(c) : l = <<c, i>> /\ Calls(l[1], l[2]) = {}
  BY DEF Leaves
<1>2. PICK i \in Items(c) : l = <<c, i>>
  BY <1>1
<1> QED BY <1>1, <1>2 DEF CallTree, Items

\* the last item of a way, and those above it
LEMMA WayFacts ==
  ASSUME CallTree, NEW c \in Call, NEW i \in Nat
  PROVE  /\ Way(c, i) \in Seq(Call \X Nat) /\ Len(Way(c, i)) = Len(Path[c]) + 1
         /\ Len(Path[c]) \in Nat
         /\ Way(c, i)[Len(Path[c]) + 1] = <<c, i>>
         /\ \A k \in 1 .. Len(Path[c]) : Way(c, i)[k] = Path[c][k]
<1> DEFINE p == Path[c]
           x == <<c, i>>
<1>1. p \in Seq(Call \X Nat) /\ x \in Call \X Nat
  BY PathType
<1> HIDE DEF p, x
<1>2. /\ Append(p, x) \in Seq(Call \X Nat) /\ Len(Append(p, x)) = Len(p) + 1 /\ Len(p) \in Nat
      /\ Append(p, x)[Len(p) + 1] = x
      /\ \A k \in 1 .. Len(p) : Append(p, x)[k] = p[k]
  BY <1>1
<1> QED BY <1>2 DEF p, x, Way

\* What is below an item is below no other of its call, and below the item that
\* makes the call.
LEMMA BelowFacts ==
  ASSUME CallTree, NEW l \in Leaves
  PROVE  /\ Below(l, l[1], l[2])
         /\ \A c \in Call : \A i, j \in Nat : Below(l, c, i) /\ Below(l, c, j) => i = j
         /\ \A n \in Nested : \A j \in Nat : Below(l, n.calls, j) => Below(l, n.call, n.item)
         /\ \A i \in Nat : Below(l, Root, i) => RootItem(l) = i
<1> DEFINE w == Way(l[1], l[2])
<1>0. l[1] \in Call /\ l[2] \in Nat /\ l = <<l[1], l[2]>>
  BY LeafFacts
<1>1. w \in Seq(Call \X Nat) /\ Len(w) \in Nat
  BY <1>0, WayFacts
<1>2. Below(l, l[1], l[2])
  BY <1>1 DEF Below
<1>3. ASSUME NEW c \in Call, NEW i \in Nat, Below(l, c, i)
      PROVE  w[Len(Path[c]) + 1] = <<c, i>> /\ Len(Path[c]) + 1 <= Len(w)
  <2>1. /\ Len(Way(c, i)) = Len(Path[c]) + 1 /\ Len(Path[c]) \in Nat
        /\ Way(c, i)[Len(Path[c]) + 1] = <<c, i>>
    BY WayFacts
  <2> HIDE DEF w
  <2>2. Len(Way(c, i)) <= Len(w) /\ \A k \in 1 .. Len(Way(c, i)) : w[k] = Way(c, i)[k]
    BY <1>3 DEF Below, w
  <2> QED BY <2>1, <2>2
<1>4. ASSUME NEW c \in Call, NEW i \in Nat, NEW j \in Nat, Below(l, c, i), Below(l, c, j)
      PROVE  i = j
  BY <1>3, <1>4
<1>5. ASSUME NEW n \in Nested, NEW j \in Nat, Below(l, n.calls, j)
      PROVE  Below(l, n.call, n.item)
  <2>1. n.call \in Call /\ n.calls \in Call /\ n.item \in Nat
    BY TreeTypes
  <2>2. Path[n.calls] = Way(n.call, n.item)
    BY PathFacts DEF Way
  <2>3. /\ Len(Way(n.calls, j)) = Len(Path[n.calls]) + 1 /\ Len(Path[n.calls]) \in Nat
        /\ \A k \in 1 .. Len(Path[n.calls]) : Way(n.calls, j)[k] = Path[n.calls][k]
    BY <2>1, WayFacts
  <2> HIDE DEF w
  <2>4. /\ Len(Path[n.calls]) + 1 <= Len(w)
        /\ \A k \in 1 .. Len(Path[n.calls]) + 1 : w[k] = Way(n.calls, j)[k]
    BY <1>5, <2>3 DEF Below, w
  <2>5. /\ Len(Path[n.calls]) <= Len(w)
        /\ \A k \in 1 .. Len(Path[n.calls]) : w[k] = Path[n.calls][k]
    BY <1>1, <2>3, <2>4
  <2> QED BY <2>2, <2>5 DEF Below, w
<1>6. ASSUME NEW i \in Nat, Below(l, Root, i) PROVE RootItem(l) = i
  <2>1. Root \in Call /\ Path[Root] = << >> /\ Len(Path[Root]) = 0
    BY PathFacts DEF CallTree
  <2>2. w[1] = <<Root, i>> /\ 1 <= Len(w)
    BY <1>3, <1>6, <2>1
  <2>3. CASE l[1] = Root
    <3>1. w[1] = <<l[1], l[2]>>
      BY <1>0, <2>1, <2>3, WayFacts
    <3> QED BY <2>2, <2>3, <3>1 DEF RootItem
  <2>4. CASE l[1] # Root
    <3>1. PICK n \in Nested : n.calls = l[1]
      BY <1>0, <2>4 DEF CallTree
    <3>2. n.call \in Call /\ n.item \in Nat /\ Path[l[1]] = Way(n.call, n.item)
      BY <3>1, PathFacts, TreeTypes DEF Way
    <3>3. Len(Path[l[1]]) = Len(Path[n.call]) + 1 /\ Len(Path[n.call]) \in Nat
      <4>1. Len(Way(n.call, n.item)) = Len(Path[n.call]) + 1 /\ Len(Path[n.call]) \in Nat
        BY <3>2, WayFacts
      <4> QED BY <3>2, <4>1
    <3>4. 1 \in 1 .. Len(Path[l[1]])
      BY <3>3
    <3>5. w[1] = Path[l[1]][1]
      BY <1>0, <3>4, WayFacts
    <3> QED BY <2>2, <2>4, <3>5 DEF RootItem
  <2> QED BY <2>3, <2>4
<1> QED BY <1>2, <1>4, <1>5, <1>6

-----------------------------------------------------------------------------
\* an exception of leaf l is recorded for call c
Reports(c, l) == \E j \in 1 .. Len(errors[c]) : errors[c][j].leaf = l

\* an entry is of an item that is done, and of a leaf below it that threw
EntryRight(c, e) ==
  /\ e.item \in Items(c) /\ e.leaf \in thrown /\ Below(e.leaf, c, e.item)
  /\ Calls(c, e.item) = {} => ran[<<c, e.item>>] # 0
  /\ \A n \in Calls(c, e.item) : Finished(n.calls)

\* An exception is recorded where it was thrown, and a call that is over has
\* passed its exceptions on, each once.
ErrorsInv ==
  /\ errors \in [Call -> Seq(Entry)] /\ thrown \subseteq Leaves
  /\ \A c \in Call : \A j \in 1 .. Len(errors[c]) : EntryRight(c, errors[c][j])
  /\ \A c \in Call : \A j, k \in 1 .. Len(errors[c]) :
       errors[c][j].leaf = errors[c][k].leaf => j = k
  /\ \A l \in thrown : Reports(l[1], l)
  /\ \A n \in Nested : Finished(n.calls) =>
       \A l \in Leaves : Reports(n.calls, l) => Reports(n.call, l)
  /\ Over => reported = <<Ordered(errors[Root])>>

\* what makes an entry right lasts
LEMMA EntriesLast ==
  ASSUME CallTree, NEW c \in Call, NEW e, EntryRight(c, e), thrown \subseteq thrown',
         \A l \in Leaves : ran[l] # 0 => ran'[l] # 0,
         \A n \in Nested : Finished(n.calls) => Finished(n.calls)'
  PROVE  EntryRight(c, e)'
<1>1. e.item \in Items(c) /\ e.leaf \in thrown' /\ Below(e.leaf, c, e.item)
  BY DEF EntryRight
<1>2. ASSUME Calls(c, e.item) = {} PROVE ran'[<<c, e.item>>] # 0
  <2>1. <<c, e.item>> \in Leaves
    BY <1>1, <1>2 DEF Leaves
  <2> QED BY <1>2, <2>1 DEF EntryRight
<1>3. \A n \in Calls(c, e.item) : Finished(n.calls)'
  BY DEF EntryRight, Calls
<1> QED BY <1>1, <1>2, <1>3 DEF EntryRight

\* a step that records nothing
LEMMA ErrorsAside ==
  ASSUME CallTree, ErrorsInv, UNCHANGED <<errors, thrown>>,
         \A l \in Leaves : ran[l] # 0 => ran'[l] # 0,
         \A n \in Nested : Finished(n.calls)' <=> Finished(n.calls),
         Over' => reported' = <<Ordered(errors[Root])>>
  PROVE  ErrorsInv'
<1>1. ASSUME NEW c \in Call, NEW j \in 1 .. Len(errors[c]) PROVE EntryRight(c, errors[c][j])'
  <2> DEFINE e == errors[c][j]
  <2>1. EntryRight(c, e)
    BY DEF ErrorsInv
  <2>2. e' = e
    OBVIOUS
  <2> HIDE DEF e
  <2>3. thrown \subseteq thrown' /\ \A n \in Nested : Finished(n.calls) => Finished(n.calls)'
    OBVIOUS
  <2>4. PICK x : x = e
    OBVIOUS
  <2>5. EntryRight(c, x)'
    BY <2>1, <2>3, <2>4, EntriesLast
  <2>6. EntryRight(c, e)'
    BY <2>2, <2>4, <2>5 DEF EntryRight
  <2> QED BY <2>6 DEF e
<1>2. \A c, l : Reports(c, l)' <=> Reports(c, l)
  BY DEF Reports
<1> QED BY <1>1, <1>2 DEF ErrorsInv

\* while a thread is in a task the root call is not over
LEMMA NotOver ==
  ASSUME CallTree, ScopeInv, ItemsInv, NEW t \in Worker, stack[t] # << >>
  PROVE  ~Over
<1>1. Innermost(t) \in Places
  BY InnermostFacts DEF ScopeInv
<1>2. Active(At(Innermost(t)).call) /\ At(Innermost(t)).call \in Call
  BY <1>1, PlaceFacts DEF ScopeInv, Active
<1> QED BY <1>2, AllOver

\* what is reported for call d is among r
PassedOn(d, r) ==
  \A l \in Leaves : Reports(d, l) => \E j \in 1 .. Len(r) : r[j].leaf = l

\* a step that records the exceptions r for call c
LEMMA ErrorsAdded ==
  ASSUME CallTree, ErrorsInv, NEW c \in Call, NEW r \in Seq(Entry),
         errors' = [errors EXCEPT ![c] = @ \o r],
         thrown \subseteq thrown', thrown' \subseteq Leaves,
         \A l \in Leaves : ran[l] # 0 => ran'[l] # 0,
         \A n \in Nested : Finished(n.calls) => Finished(n.calls)',
         \A j \in 1 .. Len(r) : EntryRight(c, r[j])',
         \A j \in 1 .. Len(r) : ~Reports(c, r[j].leaf),
         \A j, k \in 1 .. Len(r) : r[j].leaf = r[k].leaf => j = k,
         \A l \in thrown' \ thrown : l[1] = c /\ \E j \in 1 .. Len(r) : r[j].leaf = l,
         \A n \in Nested : Finished(n.calls)' =>
           n.calls # c /\ (Finished(n.calls) \/ (n.call = c /\ PassedOn(n.calls, r))),
         ~Over'
  PROVE  ErrorsInv'
<1> DEFINE e == errors[c]
<1>1. e \in Seq(Entry) /\ Len(e) \in Nat /\ Len(r) \in Nat
  BY DEF ErrorsInv
<1>2. PICK s : s = e \o r
  OBVIOUS
<1>3. /\ s \in Seq(Entry) /\ Len(s) = Len(e) + Len(r)
      /\ \A j \in 1 .. Len(e) : s[j] = e[j]
      /\ \A j \in 1 .. Len(r) : s[Len(e) + j] = r[j]
  <2> HIDE DEF e
  <2> QED BY <1>1, <1>2
<1>4. errors'[c] = s /\ \A d \in Call : d # c => errors'[d] = errors[d]
  BY <1>2 DEF ErrorsInv
<1>5. errors' \in [Call -> Seq(Entry)]
  <2> DEFINE z == e \o r
  <2>1. z \in Seq(Entry) /\ errors \in [Call -> Seq(Entry)] /\ errors' = [errors EXCEPT ![c] = z]
    BY <1>2, <1>3 DEF ErrorsInv
  <2> HIDE DEF z
  <2> QED BY <2>1
<1> HIDE DEF e
\* an entry of call c was there or is added
<1>6. ASSUME NEW j \in 1 .. Len(s)
      PROVE  \/ j \in 1 .. Len(e) /\ s[j] = e[j]
             \/ j - Len(e) \in 1 .. Len(r) /\ s[j] = r[j - Len(e)]
  <2>1. CASE j <= Len(e)
    BY <1>1, <1>3, <2>1
  <2>2. CASE j > Len(e)
    <3>1. j - Len(e) \in 1 .. Len(r) /\ j = Len(e) + (j - Len(e))
      BY <1>1, <1>3, <2>2
    <3> QED BY <1>3, <3>1
  <2> QED BY <1>1, <2>1, <2>2
<1>7. \A j \in 1 .. Len(e) : EntryRight(c, e[j])
  BY DEF ErrorsInv, e
<1>8. ASSUME NEW d \in Call, NEW j \in 1 .. Len(errors'[d]) PROVE EntryRight(d, errors[d][j])'
  <2>1. PICK x : x = errors'[d][j]
    OBVIOUS
  <2>2. CASE d # c \/ (d = c /\ j \in 1 .. Len(e) /\ s[j] = e[j])
    <3>1. EntryRight(d, x)
      BY <1>4, <1>7, <2>1, <2>2 DEF ErrorsInv
    <3>2. EntryRight(d, x)'
      BY <3>1, EntriesLast
    <3> QED BY <2>1, <3>2 DEF EntryRight
  <2>3. CASE d = c /\ j - Len(e) \in 1 .. Len(r) /\ s[j] = r[j - Len(e)]
    <3>1. PICK k \in 1 .. Len(r) : k = j - Len(e) /\ s[j] = r[k]
      BY <2>3
    <3>2. \A m \in 1 .. Len(r) : EntryRight(c, r[m])'
      OBVIOUS
    <3>3. PICK y : y = r[k]
      OBVIOUS
    <3>4. EntryRight(c, y)' /\ x = y
      BY <1>4, <2>1, <2>3, <3>1, <3>2, <3>3 DEF EntryRight
    <3> QED BY <2>1, <2>3, <3>4 DEF EntryRight
  <2>4. d = c => \/ j \in 1 .. Len(e) /\ s[j] = e[j]
                 \/ j - Len(e) \in 1 .. Len(r) /\ s[j] = r[j - Len(e)]
    BY <1>4, <1>6
  <2> QED BY <2>2, <2>3, <2>4
<1>9. \A j \in 1 .. Len(e), m \in 1 .. Len(r) : e[j].leaf # r[m].leaf
  <2> SUFFICES ASSUME NEW j \in 1 .. Len(e), NEW m \in 1 .. Len(r), e[j].leaf = r[m].leaf
               PROVE  FALSE
    OBVIOUS
  <2>1. ~Reports(c, r[m].leaf)
    OBVIOUS
  <2> QED BY <2>1 DEF Reports, e
<1>10. ASSUME NEW d \in Call, NEW j \in 1 .. Len(errors'[d]), NEW k \in 1 .. Len(errors'[d]),
             errors'[d][j].leaf = errors'[d][k].leaf
      PROVE  j = k
  <2>1. CASE d # c
    BY <1>4, <1>10, <2>1 DEF ErrorsInv
  <2>2. CASE d = c
    <3>0. j \in 1 .. Len(s) /\ k \in 1 .. Len(s) /\ s[j].leaf = s[k].leaf
      BY <1>4, <1>10, <2>2
    <3>1. CASE j \in 1 .. Len(e) /\ s[j] = e[j] /\ k \in 1 .. Len(e) /\ s[k] = e[k]
      BY <3>0, <3>1 DEF ErrorsInv, e
    <3>2. CASE /\ j \in 1 .. Len(e) /\ s[j] = e[j]
               /\ k - Len(e) \in 1 .. Len(r) /\ s[k] = r[k - Len(e)]
      <4>1. PICK m \in 1 .. Len(r) : s[k] = r[m]
        BY <3>2
      <4> QED BY <1>9, <3>0, <3>2, <4>1
    <3>3. CASE /\ k \in 1 .. Len(e) /\ s[k] = e[k]
               /\ j - Len(e) \in 1 .. Len(r) /\ s[j] = r[j - Len(e)]
      <4>1. PICK m \in 1 .. Len(r) : s[j] = r[m]
        BY <3>3
      <4> QED BY <1>9, <3>0, <3>3, <4>1
    <3>4. CASE /\ j - Len(e) \in 1 .. Len(r) /\ s[j] = r[j - Len(e)]
               /\ k - Len(e) \in 1 .. Len(r) /\ s[k] = r[k - Len(e)]
      <4>1. PICK a \in 1 .. Len(r), b \in 1 .. Len(r) : a = j - Len(e) /\ b = k - Len(e)
        BY <3>4
      <4>2. r[a].leaf = r[b].leaf
        BY <3>0, <3>4, <4>1
      <4>3. a = b
        BY <4>2
      <4> QED BY <1>1, <3>0, <4>1, <4>3
    <3> QED BY <1>6, <3>0, <3>1, <3>2, <3>3, <3>4
  <2> QED BY <2>1, <2>2
<1>11. ASSUME NEW d \in Call, NEW l, Reports(d, l) PROVE Reports(d, l)'
  <2>1. PICK j \in 1 .. Len(errors[d]) : errors[d][j].leaf = l
    BY <1>11 DEF Reports
  <2>2. CASE d # c
    BY <1>4, <2>1, <2>2 DEF Reports
  <2>3. CASE d = c
    <3>1. j \in 1 .. Len(e) /\ e[j].leaf = l
      BY <2>1, <2>3 DEF e
    <3>2. j \in 1 .. Len(s) /\ s[j].leaf = l
      BY <1>1, <1>3, <3>1
    <3> QED BY <1>4, <2>3, <3>2 DEF Reports
  <2> QED BY <2>2, <2>3
<1>12. ASSUME NEW j \in 1 .. Len(r) PROVE Reports(c, r[j].leaf)'
  <2>1. Len(e) + j \in 1 .. Len(s)
    BY <1>1, <1>3
  <2> QED BY <1>3, <1>4, <2>1 DEF Reports
<1>13. ASSUME NEW l \in thrown' PROVE Reports(l[1], l)'
  <2>1. CASE l \in thrown
    <3>1. Reports(l[1], l) /\ l[1] \in Call
      BY <2>1, LeafFacts DEF ErrorsInv
    <3> QED BY <1>11, <3>1
  <2>2. CASE l \notin thrown
    BY <1>12, <2>2
  <2> QED BY <2>1, <2>2
<1>14. ASSUME NEW n \in Nested, Finished(n.calls)', NEW l \in Leaves, Reports(n.calls, l)'
       PROVE  Reports(n.call, l)'
  <2>1. n.call \in Call /\ n.calls \in Call /\ n.calls # c
    BY <1>14 DEF CallTree
  <2>2. Reports(n.calls, l)
    BY <1>4, <1>14, <2>1 DEF Reports
  <2>3. CASE Finished(n.calls)
    <3>1. Reports(n.call, l)
      BY <2>2, <2>3 DEF ErrorsInv
    <3> QED BY <1>11, <2>1, <3>1
  <2>4. CASE ~Finished(n.calls)
    <3>1. n.call = c /\ \E j \in 1 .. Len(r) : r[j].leaf = l
      BY <1>14, <2>2, <2>4 DEF PassedOn
    <3> QED BY <1>12, <3>1
  <2> QED BY <2>3, <2>4
<1> QED BY <1>5, <1>8, <1>10, <1>13, <1>14 DEF ErrorsInv

\* the steps that record nothing
LEMMA QuietErrors ==
  ASSUME CallTree, ScopeInv, ItemsInv, ErrorsInv, NEW t \in Worker,
         Enter(t) \/ Take(t) \/ Leave(t) \/ RunLeaf(t) \/ RunNested(t) \/ JoinRoot(t)
  PROVE  ErrorsInv'
<1>1. stack[t] # << >>
  BY DEF Enter, Take, Leave, RunLeaf, RunNested, JoinRoot, Joinable, InTask
<1>2. \A n \in Nested : Finished(n.calls)' <=> Finished(n.calls)
  BY OthersGoOn
<1>3. UNCHANGED <<errors, thrown>>
  BY DEF Enter, Take, Leave, RunLeaf, RunNested, JoinRoot
<1>4. \A l \in Leaves : ran[l] # 0 => ran'[l] # 0
  <2>1. ran \in [Leaves -> Nat]
    BY DEF ItemsInv
  <2>2. ran' = ran \/ \E x : ran' = [ran EXCEPT ![x] = @ + 1]
    BY DEF Enter, Take, Leave, RunLeaf, RunNested, JoinRoot
  <2> QED BY <2>1, <2>2
<1>5. Over' => reported' = <<Ordered(errors[Root])>>
  <2>1. ~Over
    BY <1>1, NotOver
  <2>2. reported' = reported \/ reported' = <<Ordered(errors[Root])>>
    BY DEF Enter, Take, Leave, RunLeaf, RunNested, JoinRoot
  <2> QED BY <2>1, <2>2 DEF Over
<1> QED BY <1>2, <1>3, <1>4, <1>5, ErrorsAside

LEMMA ThrowLeafErrors ==
  ASSUME CallTree, ScopeInv, ItemsInv, ErrorsInv, NEW t \in Worker, ThrowLeaf(t)
  PROVE  ErrorsInv'
<1>0. Typed /\ stack[t] # << >> /\ Top(t).pc = "run" /\ AtLeaf(t)
  BY DEF ScopeInv, ThrowLeaf, InTask
<1>1. PICK p : p = Innermost(t)
  OBVIOUS
<1>2. p \in Places /\ At(p) = Top(t) /\ p[1] = t /\ Above(p) \notin Places
  BY <1>0, <1>1, InnermostFacts
<1>3. PICK c, i : c = Top(t).call /\ i = Top(t).item
  OBVIOUS
<1>4. PICK l : l = <<c, i>>
  OBVIOUS
<1>5. c \in Call /\ i \in Items(c) /\ i \in Nat /\ Calls(c, i) = {}
  <2>1. c \in Call /\ i \in Items(c) /\ Calls(c, i) = {}
    BY <1>0, <1>2, <1>3, PlaceFacts DEF ItemsInv, ItemOf, AtLeaf
  <2> QED BY <2>1 DEF Items, CallTree
<1>6. l \in Leaves /\ l[1] = c /\ l[2] = i /\ Leaf(t) = l
  BY <1>3, <1>4, <1>5 DEF Leaves, Leaf
<1>7. ran[l] = 0 /\ ran \in [Leaves -> Nat]
  <2>1. Fresh(c, i)
    BY <1>0, <1>2, <1>3 DEF ItemsInv, Ready
  <2> QED BY <1>4, <1>5, <2>1 DEF Fresh, ItemsInv
<1>8. PICK x : x = [item |-> i, leaf |-> l]
  OBVIOUS
<1>9. PICK r : r = <<x>>
  OBVIOUS
<1>10. x \in Entry /\ x.item = i /\ x.leaf = l
  BY <1>5, <1>6, <1>8 DEF Entry
<1>11. r \in Seq(Entry) /\ Len(r) = 1 /\ r[1] = x
  BY <1>9, <1>10
<1>12. /\ errors' = [errors EXCEPT ![c] = @ \o r] /\ thrown' = thrown \cup {l}
       /\ ran' = [ran EXCEPT ![l] = @ + 1] /\ reported' = reported
  <2>1. errors \in [Call -> Seq(Entry)]
    BY DEF ErrorsInv
  <2>2. Append(errors[c], x) = errors[c] \o r
    BY <1>5, <1>9, <1>10, <2>1
  <2>3. errors' = [errors EXCEPT ![c] = Append(@, x)]
    BY <1>3, <1>6, <1>8 DEF ThrowLeaf
  <2>4. errors' = [errors EXCEPT ![c] = @ \o r]
    BY <2>2, <2>3
  <2> QED BY <1>6, <2>4 DEF ThrowLeaf
<1>13. thrown \subseteq thrown' /\ thrown' \subseteq Leaves
  BY <1>6, <1>12 DEF ErrorsInv
<1>14. ran'[l] = 1 /\ \A m \in Leaves : ran[m] # 0 => ran'[m] # 0
  BY <1>6, <1>7, <1>12
<1>15. \A n \in Nested : Finished(n.calls)' <=> Finished(n.calls)
  BY OthersGoOn
<1>16. EntryRight(c, x)'
  <2>1. Below(l, c, i)
    BY <1>6, BelowFacts
  <2>2. x.item \in Items(c) /\ x.leaf \in thrown' /\ Below(x.leaf, c, x.item)
    BY <1>5, <1>10, <1>12, <2>1
  <2>3. ran'[<<c, x.item>>] # 0 /\ Calls(c, x.item) = {}
    BY <1>4, <1>5, <1>10, <1>14
  <2> QED BY <2>2, <2>3 DEF EntryRight
<1>17. ~Reports(c, l)
  <2> SUFFICES ASSUME Reports(c, l) PROVE FALSE
    OBVIOUS
  <2>1. PICK j \in 1 .. Len(errors[c]) : errors[c][j].leaf = l
    BY DEF Reports
  <2>2. PICK e : e = errors[c][j]
    OBVIOUS
  <2>3. EntryRight(c, e) /\ e.leaf = l
    BY <1>5, <2>1, <2>2 DEF ErrorsInv
  <2>4. e.item = i
    <3>1. Below(l, c, e.item) /\ Below(l, c, i) /\ e.item \in Nat
      BY <1>5, <1>6, <2>3, BelowFacts DEF EntryRight, Items, CallTree
    <3> QED BY <1>5, <1>6, <3>1, BelowFacts
  <2> QED BY <1>4, <1>5, <1>7, <2>3, <2>4 DEF EntryRight
<1>18. \A j \in 1 .. Len(r) : EntryRight(c, r[j])'
  <2> SUFFICES ASSUME NEW j \in 1 .. Len(r) PROVE EntryRight(c, r[j])'
    OBVIOUS
  <2>1. r[j] = x
    BY <1>11
  <2> QED BY <1>16, <2>1 DEF EntryRight
<1>19. \A j \in 1 .. Len(r) : ~Reports(c, r[j].leaf)
  BY <1>10, <1>11, <1>17
<1>20. \A j, k \in 1 .. Len(r) : r[j].leaf = r[k].leaf => j = k
  BY <1>11
<1>21. \A m \in thrown' \ thrown : m[1] = c /\ \E j \in 1 .. Len(r) : r[j].leaf = m
  BY <1>6, <1>10, <1>11, <1>12
<1>22. Active(c)
  BY <1>2, <1>3 DEF Active
<1>23. \A n \in Nested : Finished(n.calls)' => n.calls # c /\ Finished(n.calls)
  BY <1>15, <1>22 DEF Finished
<1>24. ~Over'
  BY <1>0, <1>12, NotOver DEF Over
<1> QED BY <1>5, <1>11, <1>12, <1>13, <1>14, <1>15, <1>18, <1>19, <1>20, <1>21, <1>23, <1>24,
           ErrorsAdded

LEMMA JoinNestedErrors ==
  ASSUME CallTree, ScopeInv, ItemsInv, ErrorsInv, NEW t \in Worker, JoinNested(t)
  PROVE  ErrorsInv'
<1>1. PICK n \in Nested :
        /\ n.call \in Call /\ n.calls \in Call /\ n.item \in Items(n.call)
        /\ Calls(n.call, n.item) = {n}
        /\ Active(n.calls) /\ Begun(n.calls) /\ Finished(n.calls)'
        /\ Active(n.call) /\ Active(n.call)'
        /\ \A m \in Nested : m.calls # n.calls => (Finished(m.calls)' <=> Finished(m.calls))
        /\ errors' = [errors EXCEPT ![n.call] = @ \o Recorded(n.item, Ordered(errors[n.calls]))]
  BY JoinEnds
<1>2. PICK c, i, d : c = n.call /\ i = n.item /\ d = n.calls
  OBVIOUS
<1>3. c \in Call /\ d \in Call /\ c # d /\ i \in Items(c) /\ i \in Nat
  <2>1. c # d
    BY <1>1, <1>2 DEF Finished
  <2> QED BY <1>1, <1>2, <2>1, TreeTypes
<1>4. PICK s : s = errors[d]
  OBVIOUS
<1>5. s \in Seq(Entry) /\ Len(s) \in Nat
  BY <1>3, <1>4 DEF ErrorsInv
<1>6. PICK f \in [1 .. Len(s) -> 1 .. Len(s)] :
        /\ \A k \in 1 .. Len(s) : \E j \in 1 .. Len(s) : f[j] = k
        /\ \A j, k \in 1 .. Len(s) : f[j] = f[k] => j = k
        /\ Ordered(s) = [j \in 1 .. Len(s) |-> s[f[j]]]
  BY <1>5, OrderedFacts
<1>7. PICK r : r = Recorded(i, Ordered(s))
  OBVIOUS
<1>8. /\ r \in Seq(Entry) /\ Len(r) = Len(s)
      /\ \A j \in 1 .. Len(r) : r[j].item = i /\ r[j].leaf = s[f[j]].leaf
  <2>1. r = [j \in 1 .. Len(s) |-> [item |-> i, leaf |-> s[f[j]].leaf]]
    BY <1>6, <1>7 DEF Recorded
  <2>2. ASSUME NEW j \in 1 .. Len(s) PROVE s[f[j]] \in Entry
    <3>1. PICK k \in 1 .. Len(s) : k = f[j]
      BY <1>6
    <3> QED BY <1>5, <3>1
  <2>3. \A j \in 1 .. Len(s) : [item |-> i, leaf |-> s[f[j]].leaf] \in Entry
    BY <1>3, <2>2 DEF Entry
  <2>4. r \in [1 .. Len(s) -> Entry]
    BY <2>1, <2>3
  <2>5. r \in Seq(Entry) /\ Len(r) = Len(s)
    BY <1>5, <2>4
  <2> QED BY <2>1, <2>5
<1>9. errors' = [errors EXCEPT ![c] = @ \o r] /\ UNCHANGED <<ran, thrown, reported>>
  BY <1>1, <1>2, <1>4, <1>7 DEF JoinNested
\* an exception of the call: it is the exception of one entry, and threw
<1>10. ASSUME NEW k \in 1 .. Len(s)
       PROVE  s[k].leaf \in thrown /\ s[k].leaf \in Leaves /\ Below(s[k].leaf, c, i)
  <2>1. PICK e : e = s[k]
    OBVIOUS
  <2>2. EntryRight(d, e)
    BY <1>3, <1>4, <1>10, <2>1 DEF ErrorsInv
  <2>3. e.leaf \in thrown /\ Below(e.leaf, d, e.item) /\ e.item \in Nat /\ e.leaf \in Leaves
    BY <1>3, <2>2 DEF EntryRight, Items, CallTree, ErrorsInv
  <2>4. Below(e.leaf, c, i)
    BY <1>2, <2>3, BelowFacts
  <2> QED BY <2>1, <2>3, <2>4
<1>11. \A m \in Nested : Finished(m.calls) => Finished(m.calls)'
  BY <1>1
<1>12. \A j \in 1 .. Len(r) : EntryRight(c, r[j])'
  <2> SUFFICES ASSUME NEW j \in 1 .. Len(r) PROVE EntryRight(c, r[j])'
    OBVIOUS
  <2>1. PICK e : e = r[j]
    OBVIOUS
  <2>2. e.item = i /\ e.leaf \in thrown' /\ Below(e.leaf, c, i)
    BY <1>6, <1>8, <1>9, <1>10, <2>1
  <2>3. EntryRight(c, e)'
    BY <1>1, <1>2, <1>3, <2>2 DEF EntryRight
  <2> QED BY <2>1, <2>3 DEF EntryRight
<1>13. \A j \in 1 .. Len(r) : ~Reports(c, r[j].leaf)
  <2> SUFFICES ASSUME NEW j \in 1 .. Len(r), Reports(c, r[j].leaf) PROVE FALSE
    OBVIOUS
  <2>1. PICK l : l = r[j].leaf
    OBVIOUS
  <2>2. l \in Leaves /\ Below(l, c, i)
    BY <1>6, <1>8, <1>10, <2>1
  <2>3. PICK k \in 1 .. Len(errors[c]) : errors[c][k].leaf = l
    BY <2>1 DEF Reports
  <2>4. PICK e : e = errors[c][k]
    OBVIOUS
  <2>5. EntryRight(c, e) /\ e.leaf = l
    BY <1>3, <2>3, <2>4 DEF ErrorsInv
  <2>6. e.item = i
    <3>1. Below(l, c, e.item) /\ e.item \in Nat
      BY <1>3, <2>5 DEF EntryRight, Items, CallTree
    <3> QED BY <1>3, <2>2, <3>1, BelowFacts
  <2> QED BY <1>1, <1>2, <2>5, <2>6 DEF EntryRight, Finished
<1>14. \A j, k \in 1 .. Len(r) : r[j].leaf = r[k].leaf => j = k
  <2> SUFFICES ASSUME NEW j \in 1 .. Len(r), NEW k \in 1 .. Len(r), r[j].leaf = r[k].leaf
               PROVE  j = k
    OBVIOUS
  <2>1. PICK a \in 1 .. Len(s), b \in 1 .. Len(s) : a = f[j] /\ b = f[k]
    BY <1>6, <1>8
  <2>2. s[a].leaf = s[b].leaf
    BY <1>8, <2>1
  <2>3. a = b
    BY <1>3, <1>4, <2>2 DEF ErrorsInv
  <2> QED BY <1>6, <1>8, <2>1, <2>3
<1>15. ASSUME NEW l, Reports(d, l) PROVE \E j \in 1 .. Len(r) : r[j].leaf = l
  <2>1. PICK k \in 1 .. Len(s) : s[k].leaf = l
    BY <1>4, <1>15 DEF Reports
  <2>2. PICK j \in 1 .. Len(s) : f[j] = k
    BY <1>6
  <2> QED BY <1>8, <2>1, <2>2
<1>16. ASSUME NEW m \in Nested, Finished(m.calls)'
       PROVE  m.calls # c /\ (Finished(m.calls) \/ (m.call = c /\ PassedOn(m.calls, r)))
  <2>1. m.calls # c
    BY <1>1, <1>2, <1>16 DEF Finished
  <2>2. CASE m.calls # d
    BY <1>1, <1>2, <1>16, <2>1, <2>2
  <2>3. CASE m.calls = d
    <3>1. m = n
      BY <1>2, <2>3 DEF CallTree
    <3> QED BY <1>2, <1>15, <2>1, <3>1 DEF PassedOn
  <2> QED BY <2>2, <2>3
<1>17. ~Over'
  <2>1. stack[t] # << >>
    BY DEF JoinNested, Joinable, InTask
  <2> QED BY <1>9, <2>1, NotOver DEF Over
<1>18. thrown' \subseteq Leaves /\ thrown' \ thrown = {} /\ thrown \subseteq thrown'
  BY <1>9 DEF ErrorsInv
<1>19. \A l \in Leaves : ran[l] # 0 => ran'[l] # 0
  BY <1>9
<1>20. \A l \in thrown' \ thrown : l[1] = c /\ \E j \in 1 .. Len(r) : r[j].leaf = l
  BY <1>18
<1>21. \A m \in Nested : Finished(m.calls)' =>
         m.calls # c /\ (Finished(m.calls) \/ (m.call = c /\ PassedOn(m.calls, r)))
  BY <1>16
<1>22. c \in Call /\ r \in Seq(Entry) /\ errors' = [errors EXCEPT ![c] = @ \o r]
  BY <1>3, <1>8, <1>9
<1>23. thrown \subseteq thrown' /\ thrown' \subseteq Leaves
  BY <1>18
<1> QED BY <1>11, <1>12, <1>13, <1>14, <1>17, <1>19, <1>20, <1>21, <1>22, <1>23, ErrorsAdded

LEMMA InitErrors == CallTree /\ RuntimeInit => ErrorsInv
<1> SUFFICES ASSUME CallTree, RuntimeInit PROVE ErrorsInv
  OBVIOUS
<1>1. \A c \in Call : errors[c] = << >> /\ Len(errors[c]) = 0
  BY DEF RuntimeInit
<1>2. errors \in [Call -> Seq(Entry)]
  BY DEF RuntimeInit
<1>3. \A c \in Call : \A l : ~Reports(c, l)
  BY <1>1 DEF Reports
<1>4. \A n \in Nested : n.calls \in Call
  BY DEF CallTree
<1> QED BY <1>1, <1>2, <1>3, <1>4 DEF ErrorsInv, RuntimeInit, Over, Running

LEMMA NextErrors ==
  CallTree /\ ScopeInv /\ ItemsInv /\ ErrorsInv /\ [RuntimeNext]_runtimeVars => ErrorsInv'
<1> SUFFICES ASSUME CallTree, ScopeInv, ItemsInv, ErrorsInv, [RuntimeNext]_runtimeVars
             PROVE  ErrorsInv'
  OBVIOUS
<1>1. CASE RuntimeNext
  <2>1. PICK t \in Worker : WorkerStep(t)
    BY <1>1 DEF RuntimeNext
  <2>2. CASE ThrowLeaf(t)
    BY <2>2, ThrowLeafErrors
  <2>3. CASE JoinNested(t)
    BY <2>3, JoinNestedErrors
  <2>4. CASE Enter(t) \/ Take(t) \/ Leave(t) \/ RunLeaf(t) \/ RunNested(t) \/ JoinRoot(t)
    BY <2>4, QuietErrors
  <2> QED BY <2>1, <2>2, <2>3, <2>4 DEF WorkerStep
<1>2. CASE UNCHANGED runtimeVars
  <2>1. UNCHANGED <<errors, thrown, reported, ran, captured>> /\ \A c : Active(c)' <=> Active(c)
    BY <1>2 DEF runtimeVars, Active, Places, At
  <2>2. \A n \in Nested : Finished(n.calls)' <=> Finished(n.calls)
    BY <2>1 DEF Finished, Begun
  <2>3. \A l \in Leaves : ran[l] # 0 => ran'[l] # 0
    BY <2>1
  <2>4. Over' => reported' = <<Ordered(errors[Root])>>
    BY <2>1 DEF ErrorsInv, Over
  <2> QED BY <2>1, <2>2, <2>3, <2>4, ErrorsAside
<1> QED BY <1>1, <1>2

LEMMA AllReported ==
  ASSUME CallTree, ScopeInv, ItemsInv, ErrorsInv, Over
  PROVE  ExceptionsReported
<1>1. PICK s : s = errors[Root]
  OBVIOUS
<1>2. s \in Seq(Entry) /\ Len(s) \in Nat /\ Root \in Call
  BY <1>1 DEF ErrorsInv, CallTree
<1>3. PICK f \in [1 .. Len(s) -> 1 .. Len(s)] :
        /\ \A k \in 1 .. Len(s) : \E j \in 1 .. Len(s) : f[j] = k
        /\ \A j, k \in 1 .. Len(s) : f[j] = f[k] => j = k
        /\ \A j, k \in 1 .. Len(s) : j < k => s[f[j]].item <= s[f[k]].item
        /\ Ordered(s) = [j \in 1 .. Len(s) |-> s[f[j]]]
  BY <1>2, OrderedFacts
<1>4. PICK r : r = reported[1]
  OBVIOUS
<1>5. /\ DOMAIN r = 1 .. Len(s)
      /\ \A j \in 1 .. Len(s) : r[j] = s[f[j]]
  BY <1>1, <1>3, <1>4 DEF ErrorsInv
<1>6. ASSUME NEW k \in 1 .. Len(s)
      PROVE  /\ s[k].leaf \in thrown /\ s[k].item = RootItem(s[k].leaf)
             /\ s[k].item \in Nat
  <2>1. PICK e : e = s[k]
    OBVIOUS
  <2>2. EntryRight(Root, e)
    BY <1>1, <1>2, <1>6, <2>1 DEF ErrorsInv
  <2>3. e.leaf \in thrown /\ Below(e.leaf, Root, e.item) /\ e.item \in Nat /\ e.leaf \in Leaves
    BY <1>2, <2>2 DEF EntryRight, Items, CallTree, ErrorsInv
  <2> QED BY <2>1, <2>3, BelowFacts
\* what a leaf throws reaches the root call
<1>7. ASSUME NEW l \in thrown PROVE Reports(Root, l)
  <2> DEFINE C == {c \in Call : Reports(c, l)}
  <2>1. C \subseteq Call /\ l \in Leaves
    BY DEF ErrorsInv
  <2>2. C # {}
    BY <2>1, LeafFacts DEF ErrorsInv
  <2>3. PICK c \in C : c # Root => Maker(c).call \notin C
    <3> HIDE DEF C
    <3> QED BY <2>1, <2>2, Outermost
  <2>4. ASSUME c # Root PROVE FALSE
    <3>1. PICK n \in Nested : n = Maker(c) /\ n.calls = c /\ n.call \in Call
      BY <2>3, <2>4, MakerFacts
    <3>2. Finished(n.calls)
      BY <2>3, <3>1, AllOver DEF Finished
    <3>3. Reports(n.call, l)
      BY <2>1, <2>3, <3>1, <3>2 DEF ErrorsInv
    <3> QED BY <2>3, <2>4, <3>1, <3>3
  <2> QED BY <2>3, <2>4
<1>8. {r[j].leaf : j \in DOMAIN r} = thrown
  <2>1. ASSUME NEW j \in DOMAIN r PROVE r[j].leaf \in thrown
    BY <1>3, <1>5, <1>6
  <2>2. ASSUME NEW l \in thrown PROVE \E j \in DOMAIN r : r[j].leaf = l
    <3>1. PICK k \in 1 .. Len(s) : s[k].leaf = l
      BY <1>1, <1>7 DEF Reports
    <3>2. PICK j \in 1 .. Len(s) : f[j] = k
      BY <1>3
    <3> QED BY <1>5, <3>1, <3>2
  <2> QED BY <2>1, <2>2
<1>9. \A j \in DOMAIN r : r[j].item = RootItem(r[j].leaf)
  <2> SUFFICES ASSUME NEW j \in 1 .. Len(s) PROVE r[j].item = RootItem(r[j].leaf)
    BY <1>5
  <2>1. PICK k \in 1 .. Len(s) : k = f[j]
    BY <1>3
  <2> QED BY <1>5, <1>6, <2>1
<1>10. \A j, k \in DOMAIN r : j < k => r[j].leaf # r[k].leaf /\ r[j].item <= r[k].item
  <2> SUFFICES ASSUME NEW j \in 1 .. Len(s), NEW k \in 1 .. Len(s), j < k
               PROVE  r[j].leaf # r[k].leaf /\ r[j].item <= r[k].item
    BY <1>5
  <2>1. r[j].item <= r[k].item
    <3>1. s[f[j]].item <= s[f[k]].item
      BY <1>3
    <3> QED BY <1>5, <3>1
  <2>2. ASSUME r[j].leaf = r[k].leaf PROVE FALSE
    <3>1. PICK a \in 1 .. Len(s), b \in 1 .. Len(s) : a = f[j] /\ b = f[k]
      BY <1>3
    <3>2. s[a].leaf = s[b].leaf
      BY <1>5, <2>2, <3>1
    <3>3. a = b
      BY <1>1, <1>2, <3>2 DEF ErrorsInv
    <3>4. j = k
      BY <1>3, <3>1, <3>3
    <3> QED BY <3>4
  <2> QED BY <2>1, <2>2
<1> QED BY <1>4, <1>8, <1>9, <1>10 DEF ExceptionsReported

(* When the root call ends, every operation was done once, and what was    *)
(* thrown, by whichever thread and however deep in the calls, is reported  *)
(* once each, as an exception of the item of the root call that it is      *)
(* below and in the order of these items.                                  *)
THEOREM OperationsCorrect == ASSUME CallTree PROVE RuntimeSpec => []OperationsComplete
<1>1. RuntimeInit => ScopeInv /\ ItemsInv /\ ErrorsInv
  BY InitScoped, InitItems, InitErrors
<1>2. ScopeInv /\ ItemsInv /\ ErrorsInv /\ [RuntimeNext]_runtimeVars
        => (ScopeInv /\ ItemsInv /\ ErrorsInv)'
  BY NextScoped, NextItems, NextErrors
<1>3. ScopeInv /\ ItemsInv /\ ErrorsInv => OperationsComplete
  <2>1. CASE ~Over
    BY <2>1, ItemsInvOnce DEF OperationsComplete, ExceptionsReported
  <2>2. CASE Over
    BY <2>2, ItemsInvOnce, AllReported DEF OperationsComplete
  <2> QED BY <2>1, <2>2
<1> QED BY <1>1, <1>2, <1>3, PTL DEF RuntimeSpec
=============================================================================
