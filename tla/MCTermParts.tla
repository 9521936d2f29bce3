----------------------------- MODULE MCTermParts -----------------------------
(***************************************************************************)
(* What becomes of the terms of an expression: the registry of their index  *)
(* spaces and bases, the identity of their evaluation nodes, the            *)
(* optimization of a sum, the evaluation of trees against a cache, and the  *)
(* code generated for trees; before that, the contractions that yield them  *)
(* and the reduction of their deltas.  These parts share no state, so a      *)
(* behaviour uses one of them, which Init chooses.                          *)
(***************************************************************************)
EXTENDS IndexBasisRegistry, SumOptimizer, TreeEvaluator, CodeGeneration

CONSTANTS t1, t2,
          TermData, Expressions,  \* those of EvalIdentity
          Theorems,               \* that of WickTheorem
          Products, SpaceRank, IndexValues  \* those of DeltaReduction

VARIABLES part,          \* the part in use
          both, trees,   \* EvalIdentity
          wt, opseq, pairings, parity, connected, adjacency, degree, ncontracted,
          search, wickTerms, tallies,  \* WickTheorem
          reducing, reduced, rounds, verdict  \* DeltaReduction

identityVars == <<both, trees>>
wickVars == <<wt, opseq, pairings, parity, connected, adjacency, degree,
              ncontracted, search, wickTerms, tallies>>
reductionVars == <<reducing, reduced, rounds, verdict>>
allVars == <<part, registryVars, identityVars, optimizerVars, vars, generationVars,
             wickVars, reductionVars>>

Identity == INSTANCE EvalIdentity WITH Data <- TermData, terms <- both
Wick == INSTANCE WickTheorem WITH contractions <- pairings, phase <- parity,
                                  frames <- search, terms <- wickTerms, stats <- tallies
Reduction == INSTANCE DeltaReduction WITH given <- reducing, factors <- reduced,
                                          passes <- rounds, ended <- verdict

-----------------------------------------------------------------------------
(* The registries that a program starts from.                               *)

MCi == Space("i", {0}, {}, 2, "real")
MCa == Space("a", {1}, {}, 3, "complex")
MCs == Space("s", {0}, {"up"}, 1, "real")
MCp == Space("p", {0, 1}, {}, 5, "complex")
\* another space under the label of i, of a's attributes
MCj == Space("i", {1}, {}, 2, "real")
MCOffered == {MCi, MCs, MCj}

\* Two named bases of a, the one of which has values of its own.
Table1 == [l \in {"", "i", "a", "m", "y"} |->
  CASE l = "" -> SpaceEntry(NullSpace)
    [] l = "i" -> SpaceEntry(MCi)
    [] l = "a" -> SpaceEntry(MCa)
    [] l = "m" -> Entry(MCa, {1}, {}, "general", {})
    [] l = "y" -> Entry(MCa, {2}, {2}, "unit", {"real"})]
\* Spaces that differ in their quantum numbers, with roles.
Table2 == [l \in {"", "i", "a", "p", "s"} |->
  CASE l = "" -> SpaceEntry(NullSpace)
    [] l = "i" -> SpaceEntry(MCi)
    [] l = "a" -> SpaceEntry(MCa)
    [] l = "p" -> SpaceEntry(MCp)
    [] l = "s" -> SpaceEntry(MCs)]
\* Composite spaces whose intersection is composite.
Table3 == [l \in {"", "i", "a", "x", "z"} |->
  CASE l = "" -> SpaceEntry(NullSpace)
    [] l = "i" -> SpaceEntry(MCi)
    [] l = "a" -> SpaceEntry(MCa)
    [] l = "x" -> SpaceEntry(Space("x", {0, 1, 2}, {}, 9, "complex"))
    [] l = "z" -> SpaceEntry(Space("z", {0, 1, 3}, {}, 8, "real"))]
WithRoles(r) ==
  SetRole(SetRole(r, "vacuum occupied", {0}).reg, "complete", {0, 1}).reg
MCStarts ==
  {Default, FromTable(Table1), Follow(FromTable(Table1), "y", "m").reg,
   WithRoles(FromTable(Table2)), FromTable(Table3)}
MCValid == {"n", "i", "a", "p", "s", "x", "z", "m", "y"}
MCLabels == {"n", "i", "a", "x", "z", "m", "y", "1"}

-----------------------------------------------------------------------------
(* The products of operators that Wick's theorem is applied to.             *)

Reference(name) ==
  [vacuum |-> name,
   occupied |-> CASE name = "physical" -> {} [] name = "single" -> {"i"}
                  [] name = "multi" -> {"i", "u"},
   unoccupied |-> CASE name = "physical" -> {"i", "a"} [] name = "single" -> {"a"}
                    [] name = "multi" -> {"u", "a"}]
Ask(vacuum, full) ==
  Reference(vacuum) @@
  [full |-> full, topology |-> FALSE, equivalent |-> {}, connect |-> {}, avoid |-> {},
   fermi |-> TRUE, spinfree |-> FALSE, count |-> FALSE]
More(how, more) == more @@ how

Creator(n, sp) == [action |-> "create", nop |-> n, space |-> sp]
Annihilator(n, sp) == [action |-> "annihilate", nop |-> n, space |-> sp]
\* Normal operators are given by the spaces of their creators and annihilators.
Word(shape) ==
  FlattenSeq([n \in DOMAIN shape |->
    [k \in DOMAIN shape[n][1] |-> Creator(n, shape[n][1][k])]
    \o [k \in DOMAIN shape[n][2] |-> Annihilator(n, shape[n][2][k])]])
OneBody(sp) == <<<<sp>>, <<sp>>>>
TwoBody(sp) == <<<<sp, sp>>, <<sp, sp>>>>
General == {"i", "a"}
Single == <<<<{"a"}>>, <<{"i"}>>>>
Double == <<<<{"a"}, {"a"}>>, <<{"i"}, {"i"}>>>>
Projector == <<<<{"i"}, {"i"}>>, <<{"a"}, {"a"}>>>>
Annihilators(n) == <<<<>>, [k \in 1 .. n |-> General]>>
Creators(n) == <<[k \in 1 .. n |-> General], <<>>>>

ThreeBody == <<OneBody(General), OneBody(General), OneBody(General)>>
Conserving ==
  {<<TwoBody(General), TwoBody(General)>>, <<TwoBody(General), Double>>,
   <<Projector, TwoBody(General)>>, ThreeBody, <<Single, OneBody(General), Single>>,
   <<Projector, Single, Single>>}
Charged ==
  {<<Annihilators(1), OneBody(General), Creators(2)>>,
   <<Annihilators(2), OneBody(General), Creators(2)>>,
   << <<<<General, General>>, <<{"a"}>>>>, <<<<{"a"}>>, <<General, {"i"}>>>> >>}
\* with operators of a space that is occupied in part
Active ==
  {<<OneBody({"i", "u"}), OneBody({"u"}), OneBody({"u", "a"})>>,
   <<TwoBody({"u"}), OneBody({"u", "a"})>>}
Long == <<TwoBody(General), OneBody(General), TwoBody(General)>>

Asked(shape, hows) == {More(how, [ops |-> Word(shape)]) : how \in hows}
Both(vacuum) == {Ask(vacuum, TRUE), Ask(vacuum, FALSE)}
\* operators of one kind in one normal operator are equivalent
Alike(ops) ==
  {P \in {{o \in DOMAIN ops : ops[o] = x} : x \in {ops[k] : k \in DOMAIN ops}} :
     Cardinality(P) > 1}
Weighted(shape, hows) ==
  {More(how, [topology |-> TRUE, equivalent |-> Alike(Word(shape))]) : how \in hows}
Connected(cs) == {More(Ask("single", TRUE), [connect |-> c]) : c \in cs}
Avoiding ==
  {More(Ask("single", full), [avoid |-> {{1, 2}}, count |-> n]) :
     full \in BOOLEAN, n \in BOOLEAN}
MCTheorems ==
  UNION {Asked(s, Both("physical") \cup Both("single") \cup Weighted(s, Both("single"))) :
           s \in Conserving \cup Charged}
    \* the extended theorem asks for contractions that are not full
    \cup UNION {Asked(s, {Ask("multi", FALSE)} \cup Weighted(s, {Ask("multi", FALSE)})) :
                  s \in Active}
    \cup UNION {Asked(s, {More(how, [spinfree |-> TRUE]) : how \in Both("single")}
                           \cup {More(how, [fermi |-> FALSE]) : how \in Both("physical")}) :
                  s \in Conserving}
    \cup UNION {Asked(s, Avoiding \cup
                         Connected({{{1, 2}, {1, 3}}, {{2, 3}}, {{1, 3}, {2, 3}}})) :
                  s \in {ThreeBody, <<Projector, Single, Single>>,
                         <<TwoBody(General), Single, Single>>}}
    \cup Asked(Long, Connected({{{1, 2}, {1, 3}}})
                       \cup Weighted(Long, Connected({{{1, 2}, {2, 3}}})))

-----------------------------------------------------------------------------
(* The products whose deltas are reduced.                                   *)

Occ == {"o"}
Virt == {"v"}
Either == {"o", "v"}
MCSpaceRank == (Occ :> 1) @@ (Virt :> 2) @@ (Either :> 3)
MCIndexValues == (Occ :> {1}) @@ (Virt :> {2, 3}) @@ (Either :> {1, 2, 3})
AnySpace == {Occ, Virt, Either}

I(space, n) == [space |-> space, n |-> n]
Delta(label, b, k) == [label |-> label, slots |-> <<b, k>>]
Amplitude(slots) == [label |-> "t", slots |-> slots]
Reduce(factors, contracted, named) ==
  [factors |-> factors, contractions |-> contracted, named |-> named]
\* the spaces of two operators that can be contracted, and that of quasiparticles
Contractible ==
  {x \in AnySpace \X AnySpace \X {Occ, Virt} : x[1] \cap x[2] \cap x[3] # {}}
\* two contractions, of operators whose indices are those of tensors or free
Contractions ==
  UNION {LET b == I(x[1], 1)
             k == I(x[2], 2)
             c == I(y[1], 3)
             l == I(y[2], 4)
         IN {Reduce(ts, <<<<b, k, x[3]>>, <<c, l, y[3]>>>>, {}) :
               ts \in {<<Amplitude(<<b, l>>), Amplitude(<<c, k>>)>>,
                       <<Amplitude(<<b, k, c>>)>>, <<Amplitude(<<k>>)>>}} :
           x \in Contractible, y \in {z \in Contractible : z[3] = Virt}}
\* deltas in a row
Rows ==
  UNION {{Reduce([k \in 1 .. 3 |->
                    <<Delta(label, I(c[1], 1), I(c[2], 2)),
                      Delta("overlap", I(c[2], 2), I(c[3], 3)),
                      Delta("kronecker", I(c[4], 4), I(c[3], 3))>>[order[k]]]
                 \o <<Amplitude(slots)>>, <<>>, {}) :
            label \in {"overlap", "kronecker"}, order \in {<<1, 3, 2>>, <<2, 1, 3>>},
            slots \in {<<I(c[1], 1), I(c[4], 4)>>, <<I(c[1], 1)>>,
                       <<I(c[4], 4), I(c[4], 4)>>}} :
           c \in [1 .. 4 -> AnySpace]}
\* ... and in a ring, of indices some of which are named as external
Rings ==
  {Reduce(<<Delta("overlap", I(c[1], 1), I(c[2], 2)),
            Delta("overlap", I(c[2], 2), I(c[3], 3)),
            Delta("kronecker", I(c[3], 3), I(c[1], 1))>>, <<>>,
          {I(c[k], k) : k \in named}) :
     c \in [1 .. 3 -> AnySpace], named \in SUBSET (1 .. 3)}
MCReducible == Contractions \cup Rows \cup Rings

-----------------------------------------------------------------------------
(* The terms that are binarized.                                            *)

MCAntisymm == {"A"}

\* Arrays with no accidental equalities.
MCData ==
  [A |-> [r \in (1..2) \X (1..2) |-> IF r = <<1, 2>> THEN 3
                                     ELSE IF r = <<2, 1>> THEN -3 ELSE 0],
   t |-> [r \in (1..2) \X (1..2) |-> 2 * r[1] + 3 * r[2] * r[2]],
   u |-> [r \in (1..2) \X (1..2) |-> 7 * r[1] * r[1] - r[2]]]

Pairs == {<<1, 2>>, <<2, 1>>, <<2, 3>>, <<3, 2>>, <<1, 3>>, <<3, 1>>}
\* The contractions of two tensors, some with a scalar, and a few of three.
TwoFactors ==
  {Mul(1, <<T(x, p), T(y, q)>>) : x \in {"A"}, y \in {"A", "t"},
                                  p \in {<<1, 2>>, <<2, 1>>}, q \in Pairs}
    \cup {Mul(1, <<T("t", <<1, 2>>), T(y, q)>>) : y \in {"A", "t"}, q \in Pairs}
Others ==
  {Mul(-2, <<T("A", <<2, 1>>), T("t", <<2, 3>>)>>),
   Mul(-2, <<T("A", <<1, 2>>), T("t", <<2, 3>>)>>),
   Mul(3, <<T("t", <<2, 3>>)>>),
   Mul(1, <<T("t", <<1, 2>>), T("u", <<2, 3>>), T("A", <<3, 1>>)>>),
   Mul(1, <<T("A", <<1, 3>>), T("u", <<2, 3>>), T("t", <<1, 2>>)>>),
   Mul(1, <<T("A", <<3, 1>>), T("u", <<2, 3>>), T("t", <<1, 2>>)>>)}
\* A sum as a factor; its first summand is a contraction.
AlignedSum ==
  Mul(1, <<Add(<<Mul(1, <<T("t", <<1, 4>>), T("u", <<4, 2>>)>>),
                 T("u", <<1, 2>>)>>),
           T("t", <<2, 3>>)>>)
ProductTerms == TwoFactors \cup Others \cup {AlignedSum}

-----------------------------------------------------------------------------
(* The sums that are optimized: products of two or three trees, a mixed     *)
(* product, a tensor and a variable.                                        *)

MCKind == [p |-> "product", q |-> "product", r |-> "product", m |-> "mixed",
           t |-> "tensor", v |-> "variable"]
MCTrees == [p |-> {"p1", "p2"}, q |-> {"q1"}, r |-> {"r1", "r2"}, m |-> {"m1"},
            t |-> {"t1"}, v |-> {"v1"}]
MCNodes == [p1 |-> {1, 2}, p2 |-> {1, 3}, q1 |-> {4}, r1 |-> {2, 5},
            r2 |-> {4, 5}, m1 |-> {6}, t1 |-> {7}, v1 |-> {8}]
MCAxes == [p1 |-> <<1, 2>>, p2 |-> <<3, 4>>, q1 |-> <<5>>, r1 |-> <<6, 7>>,
           r2 |-> <<8, 9>>, m1 |-> <<10>>, t1 |-> <<>>, v1 |-> <<>>]
MCRoots == {<<"p", "q", "r">>, <<"q", "r", "p">>, <<"q", "p">>, <<"p", "p">>,
            <<"t", "m">>, <<"v", "q">>}

Recording(key, of, nodes, pinnable) ==
  [key |-> key, tree |-> of, nodes |-> nodes, pinnable |-> pinnable]
MCDocuments ==
  {<<Recording("q", "q1", <<5>>, TRUE), Recording("q", "q1", <<5>>, TRUE)>>,
   <<Recording("q", "q1", <<5>>, TRUE), Recording("p", "p2", <<3, 4>>, TRUE)>>,
   <<Recording("q", None, <<>>, FALSE)>>}

-----------------------------------------------------------------------------
(* The expressions that are evaluated.                                      *)

MCVolatile == {"v"}

Square == (1..2) \X (1..2)
MCVersions ==
  [n \in 1..2 |->
    [A |-> [r \in Square |-> CASE r = <<1, 2>> -> 1 [] r = <<2, 1>> -> -1
                               [] OTHER -> 0],
     t |-> [r \in Square |-> r[1] + 2 * r[2]],
     u |-> [r \in Square |-> 3 * r[1] - r[2]],
     v |-> [r \in Square |-> n * r[1] - r[2] + 1]]]

At2 == T("A", <<1, 2>>)
MCuv == Mul(1, <<T("u", <<1, 2>>), T("v", <<2, 4>>)>>)
MCut == Mul(1, <<T("u", <<1, 2>>), T("t", <<2, 4>>)>>)

\* Two spellings of A t, of opposite signs; u v in a sum that accumulates in
\* place and alone; u t with volatile consumers only.
Residual ==
  [maxFootprint |-> 0, out |-> <<3, 1>>,
   terms |->
     <<Mul(1, <<At2, T("t", <<2, 3>>)>>),
       Mul(2, <<T("A", <<2, 1>>), T("t", <<2, 3>>)>>),
       Mul(1, <<Add(<<MCuv, T("t", <<1, 4>>), T("A", <<1, 4>>)>>),
                T("t", <<4, 3>>)>>),
       Mul(1, <<MCuv, T("t", <<4, 3>>)>>),
       Mul(1, <<MCut, T("v", <<4, 3>>)>>)>>]

\* Scalars: x = u12 t12, spelled with other indices as another factor, and
\* y = A12 t12.
MCx == Mul(1, <<T("u", <<1, 2>>), T("t", <<1, 2>>)>>)
MCx34 == Mul(1, <<T("u", <<3, 4>>), T("t", <<3, 4>>)>>)
MCy == Mul(1, <<T("A", <<1, 2>>), T("t", <<1, 2>>)>>)
OneScalar == [maxFootprint |-> 0, out |-> <<>>, terms |-> <<Mul(1, <<Add(<<MCx, MCy>>), MCx34>>)>>]

\* x times t in two terms: a repeated array too large to hold, whose scalar
\* factor is held.
MCxt == Mul(1, <<MCx34, T("t", <<1, 5>>)>>)
Gated == [maxFootprint |-> 1, out |-> <<1, 2>>,
          terms |-> <<Mul(1, <<MCxt, T("u", <<5, 2>>)>>),
                      Mul(1, <<MCxt, T("A", <<5, 2>>)>>),
                      Mul(1, <<MCx34, T("A", <<1, 2>>)>>)>>]

\* A sum whose left operand is a tensor.
LeafFirst ==
  [maxFootprint |-> 0, out |-> <<1, 2>>,
   terms |-> <<Mul(1, <<Add(<<T("t", <<1, 4>>),
                                  Mul(1, <<T("u", <<1, 3>>), T("v", <<3, 4>>)>>)>>),
                           T("u", <<4, 2>>)>>)>>]

MCPrograms == <<Residual, OneScalar, LeafFirst, Gated>>

-----------------------------------------------------------------------------
(* The equations that code is generated for.                                *)

a == Tensor("A", "p")
b == Tensor("B", "q")
c == Tensor("C", "p")
d == Tensor("D", "q")
v == Variable("v")
e == Variable("E")
r == Tensor("R", "p")
s == Tensor("S", "q")
MCValues == (a :> 2) @@ (b :> 3) @@ (c :> 5) @@ (d :> 7) @@ (v :> 11)
            @@ (e :> 500) @@ (r :> 1000) @@ (s :> 10000)

Just(x) == Leaf(x)
SumOf(x, y) == Sum(<<x, y>>)
\* a product whose contractions lie in one block
Times(k, x, y, block) == Product(k, <<x, y>>, <<block, block>>)
Equation(res, x) ==
  [result |-> res, expr |-> x, scope |-> Global, set |-> <<>>]
\* the result is loaded first, in the trees of the scope
Accumulation(res, x, scope) ==
  [result |-> res, expr |-> x, scope |-> scope, set |-> [load |-> "load"]]

\* Products with their operands in one order, some with a scalar.
MCProducts ==
  {Times(k, Just(xy[1]), Just(xy[2]), "p") :
     k \in {1, 2}, xy \in {<<a, a>>, <<a, b>>, <<b, c>>, <<a, v>>}}
    \cup {Times(1, Just(v), Just(v), ""), Times(1, Just(a), Just(b), "q")}
OneProduct == MCProducts
TwoProducts ==
  {SumOf(x, y) : x \in MCProducts, y \in MCProducts \cup {Just(a), Just(v)}}
    \cup {Times(k, x, y, "p") : k \in {1, 2}, x \in MCProducts,
                               y \in MCProducts \cup {Just(a), Just(v)}}
\* The intermediate of the first product is needed again in the second.
LongProducts ==
  {SumOf(Times(1, x, Just(c), "p"), Times(1, y, Just(d), "p")) :
     x \in MCProducts, y \in MCProducts}
AB(block) == Times(1, Just(a), Just(b), block)
MCExports ==
  {<<Equation(r, x)>> : x \in OneProduct \cup TwoProducts \cup LongProducts}
    \cup {<<Equation(s, AB("q")), Equation(r, Times(1, Just(s), Just(s), "p"))>>,
          <<Equation(r, AB("p")), Accumulation(r, Just(c), 2)>>,
          <<Equation(r, AB("p")),
            Accumulation(r, Times(2, AB("p"), AB("p"), "p"), 2)>>,
          <<Accumulation(r, AB("p"), Global), Equation(r, Just(c))>>,
          <<Equation(e, Times(1, Just(a), Just(a), "")),
            Equation(r, Times(1, Just(a), Just(e), "p"))>>}

-----------------------------------------------------------------------------
NoIdentity == both = <<>> /\ trees = <<>>
NoRegistry ==
  /\ reg = Default /\ other = Default
  /\ reader = [t \in Reader |-> [at |-> "idle"]]
  /\ tables = 0 /\ calls = 0 /\ outcome = "returned"
NoOptimizer ==
  /\ results = <<>> /\ axes = <<>> /\ run = NoRun /\ waiting = <<>> /\ addends = <<>>
  /\ task = <<>> /\ slot = <<>> /\ walk = NoWalk /\ recorder = None /\ pinner = None
  /\ doc = None /\ kept = <<>> /\ runs = 0 /\ picked = <<>>
NoEvaluator ==
  /\ program = 1 /\ memoizing = FALSE /\ version = 1 /\ cache = <<>>
  /\ heap = <<>> /\ leafBuffer = <<>> /\ stack = <<>> /\ ret = 0
  /\ chosen = <<>> /\ pos = 0 /\ total = 0 /\ evaluation = 0
  /\ failed = FALSE /\ builds = <<>> /\ resetAt = 0
NoGeneration ==
  /\ export = <<>> /\ prunable = {} /\ node = <<>> /\ scaling = <<>>
  /\ references = <<>> /\ strategy = <<>> /\ progress = "none" /\ tree = 0
  /\ visits = <<>> /\ uses = <<>> /\ code = <<>> /\ optimizer = NewOptimizer
  /\ optimized = <<>> /\ aborted = FALSE
NoWick ==
  /\ wt = None /\ opseq = <<>> /\ pairings = <<>> /\ parity = 1
  /\ connected = <<>> /\ adjacency = <<>> /\ degree = <<>> /\ ncontracted = <<>>
  /\ search = <<>> /\ wickTerms = <<>> /\ tallies = None
NoReduction == reducing = None /\ reduced = <<>> /\ rounds = 0 /\ verdict = "no"

AllInit ==
  \/ /\ part = "registry" /\ RegistryInit
     /\ NoIdentity /\ NoOptimizer /\ NoEvaluator /\ NoGeneration /\ NoWick
     /\ NoReduction
  \/ /\ part = "identity" /\ Identity!Init
     /\ NoRegistry /\ NoOptimizer /\ NoEvaluator /\ NoGeneration /\ NoWick
     /\ NoReduction
  \/ /\ part = "optimizer" /\ OptimizerInit
     /\ NoRegistry /\ NoIdentity /\ NoEvaluator /\ NoGeneration /\ NoWick
     /\ NoReduction
  \/ /\ part = "evaluator" /\ Init
     /\ NoRegistry /\ NoIdentity /\ NoOptimizer /\ NoGeneration /\ NoWick
     /\ NoReduction
  \/ /\ part = "generation" /\ GenerationInit
     /\ NoRegistry /\ NoIdentity /\ NoOptimizer /\ NoEvaluator /\ NoWick
     /\ NoReduction
  \/ /\ part = "wick" /\ Wick!WickInit
     /\ NoRegistry /\ NoIdentity /\ NoOptimizer /\ NoEvaluator /\ NoGeneration
     /\ NoReduction
  \/ /\ part = "reduction" /\ Reduction!ReductionInit
     /\ NoRegistry /\ NoIdentity /\ NoOptimizer /\ NoEvaluator /\ NoGeneration
     /\ NoWick

UseRegistry ==
  /\ part = "registry" /\ RegistryNext
  /\ UNCHANGED <<part, identityVars, optimizerVars, vars, generationVars,
                 wickVars, reductionVars>>
UseIdentity ==
  /\ part = "identity" /\ Identity!Next
  /\ UNCHANGED <<part, registryVars, optimizerVars, vars, generationVars,
                 wickVars, reductionVars>>
UseOptimizer ==
  /\ part = "optimizer" /\ OptimizerNext
  /\ UNCHANGED <<part, registryVars, identityVars, vars, generationVars,
                 wickVars, reductionVars>>
UseEvaluator ==
  /\ part = "evaluator" /\ Next
  /\ UNCHANGED <<part, registryVars, identityVars, optimizerVars,
                 generationVars, wickVars, reductionVars>>
UseGeneration ==
  /\ part = "generation" /\ GenerationNext
  /\ UNCHANGED <<part, registryVars, identityVars, optimizerVars, vars,
                 wickVars, reductionVars>>
UseWick ==
  /\ part = "wick" /\ Wick!WickNext
  /\ UNCHANGED <<part, registryVars, identityVars, optimizerVars, vars,
                 generationVars, reductionVars>>
UseReduction ==
  /\ part = "reduction" /\ Reduction!Reduce
  /\ UNCHANGED <<part, registryVars, identityVars, optimizerVars, vars,
                 generationVars, wickVars>>

AllNext == UseRegistry \/ UseIdentity \/ UseOptimizer \/ UseEvaluator
           \/ UseGeneration \/ UseWick \/ UseReduction
AllSpec == AllInit /\ [][AllNext]_allVars

-----------------------------------------------------------------------------
(* What the instances promise, by the names their modules give it.          *)

\* evaluating a tree gives the value its expression denotes
TreesEvaluateExpressions == Identity!TreesEvaluateExpressions
\* nodes that compare equal may be read from one cache entry
SameNodesSameValue == Identity!SameNodesSameValue

\* the terms are those of the theorem, each class of equivalent ones once
ContractionsExact == part = "wick" => Wick!ContractionsExact
\* reducing the deltas of a product keeps its value and leaves none it could resolve
ReductionExact == part = "reduction" => Reduction!ReductionExact
=============================================================================
