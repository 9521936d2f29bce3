--------------------------- MODULE CodeGeneration ---------------------------
(***************************************************************************)
(* The export of a sequence of equations (core/export/export.hpp): the tree *)
(* of each is preprocessed, which settles what objects hold its             *)
(* intermediates, then visited once more to tell the generator what to      *)
(* emit.  What a tensor is called within its block is a base and a number   *)
(* (I, I2, ...); blocks are members of a set.                               *)
(***************************************************************************)
EXTENDS GenerationOptimizer, FiniteSetsExt

CONSTANTS
  Exports,   \* the exports: sequences of equations [result, expr, scope, set],
             \* scope being the trees the strategy for the result is set for
  Prunable,  \* what scalars the generators prune: sets of kinds
  Values     \* the value of each object that exists before

VARIABLES
  export,    \* the equations
  prunable,  \* the kinds of scalars that are pruned
  node,      \* tree -> id -> [op, expr, left, right, selection]
  scaling,   \* tree -> id -> the scalars pruned from that node
  references, \* object -> its references in the tree that is preprocessed
  strategy,  \* <<tree, object>> -> the strategies set for it
  progress,     \* "preprocess", "generate" or "done"
  tree,      \* the tree that is visited
  visits,    \* the visits to come
  uses,      \* object -> its uses in the tree that is generated
  code,      \* the operations
  optimizer, \* the optimizing generator
  optimized, \* the operations it passes on
  aborted    \* an assertion has failed

generationVars == <<export, prunable, node, scaling, references, strategy, progress,
                    tree, visits, uses, code, optimizer, optimized, aborted>>

-----------------------------------------------------------------------------
(* Expressions and their trees (binarize).                                  *)

Object(kind, base, n, block) ==
  [kind |-> kind, base |-> base, n |-> n, block |-> block]
Tensor(name, block) == Object("tensor", name, 1, block)
Variable(name) == Object("variable", name, 1, "")
Constant(c) == [kind |-> "constant", value |-> c]
IsObject(x) == x.kind \in {"tensor", "variable"}
IsNumber(x) == x.kind \in {"variable", "constant"}

\* a leaf, the product of factors (blocks[k] is the block of the contraction of
\* the first k) and a sum
Leaf(x) == [kind |-> "leaf", of |-> x]
Product(scalar, factors, blocks) ==
  [kind |-> "product", scalar |-> scalar, factors |-> factors, blocks |-> blocks]
Sum(summands) == [kind |-> "sum", summands |-> summands]

Tree(op, expr, left, right) ==
  [op |-> op, expr |-> expr, left |-> left, right |-> right,
   selection |-> {"left", "right"}]
LeafTree(x) == Tree("leaf", x, <<>>, <<>>)

\* make_prod, make_sum: the objects of intermediates
Intermediate(block) ==
  IF block = "" THEN Variable("Z") ELSE Tensor("I", block)
BlockOf(t) == IF IsNumber(t.expr) THEN "" ELSE t.expr.block
\* a scalar leaves the block of a tensor as it is
ProductBlock(l, r, contracted) ==
  IF IsNumber(l.expr) THEN BlockOf(r)
  ELSE IF IsNumber(r.expr) THEN BlockOf(l) ELSE contracted

RECURSIVE Binarized(_)
Binarized(e) ==
  CASE e.kind = "leaf" -> LeafTree(e.of)
    [] e.kind = "sum" ->
         LET ts == [k \in DOMAIN e.summands |-> Binarized(e.summands[k])]
         IN FoldLeft(LAMBDA l, r : Tree("Sum", Intermediate(BlockOf(l)), l, r),
                     Head(ts), Tail(ts))
    [] e.kind = "product" ->
         LET ts == [k \in DOMAIN e.factors |-> Binarized(e.factors[k])]
             Upto[k \in DOMAIN ts] ==
               IF k = 1 THEN ts[1]
               ELSE Tree("Product",
                         Intermediate(ProductBlock(Upto[k - 1], ts[k], e.blocks[k])),
                         Upto[k - 1], ts[k])
             whole == Upto[Len(ts)]
         IN IF e.scalar = 1 THEN whole
            ELSE Tree("Product", Intermediate(BlockOf(whole)), whole,
                      LeafTree(Constant(e.scalar)))

\* to_export_tree: the root holds the result; a tree of one leaf is multiplied
\* by one
ExportTree(equation) ==
  LET t == Binarized(equation.expr)
  IN IF t.op = "leaf" THEN Tree("Product", equation.result, t, LeafTree(Constant(1)))
     ELSE [t EXCEPT !.expr = equation.result]

\* The nodes of t under ids: the root is 1, the children of i are 2i and 2i+1.
RECURSIVE NodesOf(_, _)
NodesOf(t, id) ==
  (id :> [op |-> t.op, expr |-> t.expr, selection |-> t.selection,
          left |-> IF t.op = "leaf" THEN 0 ELSE 2 * id,
          right |-> IF t.op = "leaf" THEN 0 ELSE 2 * id + 1])
  @@ (IF t.op = "leaf" THEN <<>>
      ELSE NodesOf(t.left, 2 * id) @@ NodesOf(t.right, 2 * id + 1))

\* What an expression denotes, given the values of the objects.
RECURSIVE Denoted(_, _)
Denoted(e, values) ==
  CASE e.kind = "leaf" -> IF IsObject(e.of) THEN values[e.of] ELSE e.of.value
    [] e.kind = "sum" ->
         FoldLeft(LAMBDA acc, x : acc + Denoted(x, values), 0, e.summands)
    [] e.kind = "product" ->
         FoldLeft(LAMBDA acc, x : acc * Denoted(x, values), e.scalar, e.factors)

-----------------------------------------------------------------------------
(* The strategies for loading and zeroing (context.cpp).  Those for every   *)
(* tree are set under Global, which is asked first.                         *)

Global == 0

StrategyOf(obj, what, default) ==
  LET set(k) == <<k, obj>> \in DOMAIN strategy /\ what \in DOMAIN strategy[<<k, obj>>]
  IN IF set(Global) THEN strategy[<<Global, obj>>][what]
     ELSE IF set(tree) THEN strategy[<<tree, obj>>][what]
     ELSE default
LoadStrategy(obj) == StrategyOf(obj, "load", "create")
\* when a value is set to zero
ZeroStrategy(obj) == StrategyOf(obj, "zero", {"create"})
AlwaysZero == {"load", "create", "reuse"}

\* setLoadStrategy, setZeroStrategy, for the current expression
WithStrategy(s, obj, set) ==
  (<<tree, obj>> :> (set @@ (IF <<tree, obj>> \in DOMAIN s
                             THEN s[<<tree, obj>>] ELSE <<>>))) @@ s

-----------------------------------------------------------------------------
(* Preprocessing (PreprocessVisitor).                                       *)

LeafAt(ns, id) == ns[id].op = "leaf"
IsRoot(id) == id = 1
Parent(ns, id) == CHOOSE p \in DOMAIN ns : id \in {ns[p].left, ns[p].right}
Side(ns, id) == IF ns[Parent(ns, id)].left = id THEN "left" ELSE "right"
Factors(fs, id) == IF id \in DOMAIN fs THEN fs[id] ELSE <<>>
WithFactors(fs, id, more) == (id :> Factors(fs, id) \o more) @@ fs

\* may_prune
MayPrune(ns, id) ==
  /\ ns[id].op = "Product"
  /\ \/ ~(LeafAt(ns, ns[id].left) /\ LeafAt(ns, ns[id].right))
     \/ ~IsRoot(id) /\ ns[Parent(ns, id)].op = "Product"

IsPrunable(n) == n.op = "leaf" /\ n.expr.kind \in prunable

\* prune_scalar_factor: the sibling takes the place of the node, whose result
\* it keeps unless it is a leaf; a leaf leaves its factors to its parent.
\* s is the nodes and the factors.
Pruned(s, id, side) ==
  LET ns == s.node
      child == ns[ns[id][side]]
      sibling == ns[ns[id][IF side = "left" THEN "right" ELSE "left"]]
      rest == Restrict(ns, DOMAIN ns \ {ns[id].left, ns[id].right})
      all == Append(Factors(s.factors, id), child.expr)
  IN IF sibling.op = "leaf"
     THEN [node |-> [rest EXCEPT ![id] = sibling],
           factors |-> WithFactors(Restrict(s.factors, DOMAIN s.factors \ {id}),
                                   Parent(ns, id), all)]
     ELSE [node |-> [rest EXCEPT ![id] = [sibling EXCEPT !.expr = ns[id].expr]],
           factors |-> (id :> all) @@ s.factors]

\* prune_scalar_factors: from the left as often as it goes, then the right
RECURSIVE PrunedFrom(_, _, _)
PrunedFrom(s, id, side) ==
  IF MayPrune(s.node, id) /\ IsPrunable(s.node[s.node[id][side]])
  THEN PrunedFrom(Pruned(s, id, side), id, side)
  ELSE s
PruneScalarFactors(s, id) == PrunedFrom(PrunedFrom(s, id, "left"), id, "right")

\* rebalance_tree: the larger subtree is on the left
RECURSIVE Size(_, _)
Size(ns, id) ==
  IF LeafAt(ns, id) THEN 1 ELSE 1 + Size(ns, ns[id].left) + Size(ns, ns[id].right)
Rebalanced(ns, id) ==
  IF Size(ns, ns[id].left) < Size(ns, ns[id].right)
  THEN [ns EXCEPT ![id].left = ns[id].right, ![id].right = ns[id].left]
  ELSE ns

\* set_compute_selection: a sum adds its leaves, its other summands accumulate
\* into its result themselves
Selected(ns, id) ==
  IF ns[id].op # "Sum" THEN ns
  ELSE [ns EXCEPT ![id].selection =
          {side \in {"left", "right"} : LeafAt(ns, ns[id][side])}]

\* prune_redundant_intermediate
Adopted(ns, id) ==
  IF ~IsRoot(id) /\ Side(ns, id) \notin ns[Parent(ns, id)].selection
  THEN [ns EXCEPT ![id].expr = ns[Parent(ns, id)].expr]
  ELSE ns

Seen(obj) == obj \in DOMAIN references
InUse(obj) == Seen(obj) /\ references[obj] > 0
\* Mutant: the first name of the block is taken although it is in use.
FirstName(obj) == [obj EXCEPT !.n = 1]
\* lowest_available: the first name of the block that is not in use
LowestAvailable(obj) ==
  LET free == {n \in 1 .. Cardinality(DOMAIN references) + 1 :
                 ~InUse([obj EXCEPT !.n = n])}
  IN [obj EXCEPT !.n = Min(free)]

\* preprocess: the object that holds the node's value, and the strategies
Preprocessed(ns, id) ==
  LET obj == ns[id].expr
      reused == /\ ~IsRoot(id) /\ ns[Parent(ns, id)].op # "Sum"
                /\ Seen(obj)
      chosen == IF reused /\ InUse(obj) THEN LowestAvailable(obj) ELSE obj
  IN CASE ~IsObject(obj) -> [expr |-> obj, strategy |-> strategy]
       [] IsObject(obj) /\ LeafAt(ns, id) ->
            [expr |-> obj,
             strategy |-> WithStrategy(strategy, obj,
                            [load |-> "load", zero |-> {}])]
       [] OTHER ->
            [expr |-> chosen,
             strategy |-> IF reused /\ Seen(chosen)
                          THEN WithStrategy(strategy, chosen, [zero |-> AlwaysZero])
                          ELSE strategy]

\* track_usage and release_used_terms
Referenced(refs, x) ==
  IF IsObject(x) THEN (x :> (IF x \in DOMAIN refs THEN refs[x] ELSE 0) + 1) @@ refs
  ELSE refs
Released(refs, x) == IF IsObject(x) THEN [refs EXCEPT ![x] = @ - 1] ELSE refs

Due(what, id) == progress = what /\ visits # <<>> /\ Head(visits).id = id
VisitsOf(ns, id) ==
  IF LeafAt(ns, id) THEN <<>>
  ELSE <<[at |-> "enter", id |-> ns[id].left], [at |-> "enter", id |-> ns[id].right],
         [at |-> "leave", id |-> id]>>
Visit(id) == [at |-> "enter", id |-> id]

\* the visit of a node before those of its subtrees
PreprocessNode(id) ==
  /\ Due("preprocess", id) /\ Head(visits).at = "enter"
  /\ LET pruned == PruneScalarFactors([node |-> node[tree], factors |-> scaling[tree]], id)
         named == Preprocessed(pruned.node, id)
         renamed == [pruned.node EXCEPT ![id].expr = named.expr]
         ns == IF LeafAt(renamed, id) THEN renamed
               ELSE Adopted(Selected(Rebalanced(renamed, id), id), id)
     IN /\ node' = [node EXCEPT ![tree] = ns]
        /\ scaling' = [scaling EXCEPT ![tree] = pruned.factors]
        /\ strategy' = named.strategy
        /\ references' = Referenced(references, ns[id].expr)
        /\ visits' = VisitsOf(ns, id) \o Tail(visits)
  /\ UNCHANGED <<export, prunable, progress, tree, uses, code, optimizer, optimized,
                 aborted>>

\* the visit after those of its subtrees
ReleaseNode(id) ==
  /\ Due("preprocess", id) /\ Head(visits).at = "leave"
  /\ LET n == node[tree][id]
     IN references' = Released(Released(references, node[tree][n.left].expr),
                               node[tree][n.right].expr)
  /\ visits' = Tail(visits)
  /\ UNCHANGED <<export, prunable, node, scaling, strategy, progress, tree, uses, code,
                 optimizer, optimized, aborted>>

\* all trees are preprocessed before any is generated
NextTree ==
  /\ progress = "preprocess" /\ visits = <<>>
  /\ references' = <<>> /\ visits' = <<Visit(1)>>
  /\ IF tree < Len(export) THEN tree' = tree + 1 /\ UNCHANGED progress
     ELSE tree' = 1 /\ progress' = "generate"
  /\ UNCHANGED <<export, prunable, node, scaling, strategy, uses, code, optimizer,
                 optimized, aborted>>

-----------------------------------------------------------------------------
(* Generation (GenerationVisitor).  e is the operations of a visit, the     *)
(* uses after them and whether an assertion has failed.                     *)

UsesOf(e, obj) == IF obj \in DOMAIN e.uses THEN e.uses[obj] ELSE 0
Emit(e, op) == [e EXCEPT !.ops = Append(@, op)]
Use(e, obj) == [e EXCEPT !.uses = (obj :> UsesOf(e, obj) + 1) @@ @]

\* load_or_create
LoadOrCreate(e, obj, leaf) ==
  LET before == obj \in DOMAIN e.uses
      loaded == UsesOf(e, obj) > 0
      zero == ZeroStrategy(obj)
      used == Use(e, obj)
  IN CASE ~leaf /\ ~before /\ LoadStrategy(obj) = "create" ->
            Emit(used, Operation("create", obj))
       [] ~loaded /\ ~(~leaf /\ ~before /\ LoadStrategy(obj) = "create") ->
            Emit(used, Operation(IF "load" \in zero THEN "load and zero" ELSE "load",
                                 obj))
       [] loaded /\ ~leaf /\ "reuse" \in zero -> Emit(used, Operation("zero", obj))
       [] OTHER -> used

\* drop
DropUse(e, x) ==
  IF ~IsObject(x) THEN e
  ELSE IF UsesOf(e, x) = 0 THEN [e EXCEPT !.failed = TRUE]
  ELSE LET dropped == [e EXCEPT !.uses[x] = @ - 1]
       IN IF dropped.uses[x] = 0 THEN Emit(dropped, Operation("unload", x)) ELSE dropped

\* the variables among the factors are loaded around the computations
LoadFactor(e, x) ==
  IF ~IsObject(x) THEN e
  ELSE Use(IF UsesOf(e, x) = 0 THEN Emit(e, Operation("load", x)) ELSE e, x)

\* process_computation
Computations(ns, id) ==
  LET n == ns[id]
  IN IF n.op = "Product" THEN <<<<ns[n.left].expr, ns[n.right].expr>>>>
     ELSE (IF "left" \in n.selection THEN <<<<ns[n.left].expr>>>> ELSE <<>>)
          \o (IF "right" \in n.selection THEN <<<<ns[n.right].expr>>>> ELSE <<>>)
ProcessComputation(e, id) ==
  LET ns == node[tree]
      n == ns[id]
      scalars == Factors(scaling[tree], id)
      loaded == FoldLeft(LoadFactor, e, scalars)
      computed == FoldLeft(LAMBDA acc, args : Emit(acc, Compute(n.expr, scalars \o args)),
                           loaded, Computations(ns, id))
      unloaded == FoldRight(LAMBDA x, acc : DropUse(acc, x), scalars, computed)
  IN IF n.op = "Sum" /\ n.selection = {} THEN e
     ELSE DropUse(DropUse(unloaded, ns[n.right].expr), ns[n.left].expr)

\* the operations go to a generator and to an optimizing one
Emitted(e) ==
  /\ code' = code \o e.ops
  /\ optimizer' = FoldLeft(Enqueue, optimizer, e.ops)
  /\ uses' = e.uses
  /\ aborted' = e.failed

Quiet == [ops |-> <<>>, uses |-> uses, failed |-> aborted]

GenerateNode(id) ==
  /\ Due("generate", id) /\ Head(visits).at = "enter"
  /\ LET n == node[tree][id]
     IN Emitted(IF IsObject(n.expr) THEN LoadOrCreate(Quiet, n.expr, n.op = "leaf")
                ELSE Quiet)
  /\ visits' = VisitsOf(node[tree], id) \o Tail(visits)
  /\ UNCHANGED <<export, prunable, node, scaling, references, strategy, progress, tree,
                 optimized>>

\* the root is persisted once it is computed
ComputeNode(id) ==
  /\ Due("generate", id) /\ Head(visits).at = "leave"
  /\ LET computed == ProcessComputation(Quiet, id)
     IN Emitted(IF IsRoot(id)
                THEN Emit(computed, Operation("persist", node[tree][id].expr))
                ELSE computed)
  /\ visits' = Tail(visits)
  /\ UNCHANGED <<export, prunable, node, scaling, references, strategy, progress, tree,
                 optimized>>

\* end_expression
EndExpression ==
  /\ progress = "generate" /\ visits = <<>>
  /\ LET passed == Optimized(optimizer)
     IN /\ optimized' = optimized \o passed.cache
        /\ aborted' = (aborted \/ passed.failed)
  /\ optimizer' = NewOptimizer
  /\ uses' = <<>>
  /\ IF tree < Len(export)
     THEN tree' = tree + 1 /\ visits' = <<Visit(1)>> /\ UNCHANGED progress
     ELSE progress' = "done" /\ UNCHANGED <<tree, visits>>
  /\ UNCHANGED <<export, prunable, node, scaling, references, strategy, code>>

-----------------------------------------------------------------------------
GenerationInit ==
  /\ export \in Exports /\ prunable \in Prunable
  /\ node = [k \in DOMAIN export |-> NodesOf(ExportTree(export[k]), 1)]
  /\ scaling = [k \in DOMAIN export |-> <<>>]
  /\ references = <<>>
  /\ strategy = FoldLeft(LAMBDA s, k :
                  IF export[k].set = <<>> THEN s
                  ELSE (<<export[k].scope, export[k].result>> :> export[k].set) @@ s,
                  <<>>, [k \in DOMAIN export |-> k])
  /\ progress = "preprocess" /\ tree = 1 /\ visits = <<Visit(1)>>
  /\ uses = <<>> /\ code = <<>> /\ optimizer = NewOptimizer /\ optimized = <<>>
  /\ aborted = FALSE

GenerationNext ==
  \/ \E id \in DOMAIN node[tree] :
       \/ PreprocessNode(id)
       \/ ReleaseNode(id)
       \/ GenerateNode(id)
       \/ ComputeNode(id)
  \/ NextTree
  \/ EndExpression

GenerationSpec == GenerationInit /\ [][GenerationNext]_generationVars

-----------------------------------------------------------------------------
(* Properties.                                                              *)

\* The equations executed one after another: a result is overwritten, unless
\* it is to be loaded first.
LoadsFirst(k) ==
  \E q \in Range(export) :
    q.result = export[k].result /\ q.scope \in {Global, k} /\ "load" \in DOMAIN q.set
Meant ==
  FoldLeft(LAMBDA values, k :
             (export[k].result :> Denoted(export[k].expr, values)
                + (IF LoadsFirst(k) THEN values[export[k].result] ELSE 0))
             @@ values,
           Values, [k \in DOMAIN export |-> k])
Results == {export[k].result : k \in DOMAIN export}

Computes(ops) ==
  LET m == Run(ops, Values)
  IN m.ok /\ \A r \in Results : m.store[r] = Meant[r]
\* every object is freed, the last that was allocated first
IsStackLike(ops) == LET m == Run(ops, Values) IN m.lifo /\ m.stack = <<>>

\* the program that is generated computes the equations
CodeComputesEquations == progress = "done" => Computes(code)
\* and so does the optimized one, with no assertion failing; both use memory like a
\* stack and give it back
OptimizedComputesEquations ==
  progress = "done" => /\ ~aborted /\ Computes(optimized)
                       /\ IsStackLike(code) /\ IsStackLike(optimized)
=============================================================================
