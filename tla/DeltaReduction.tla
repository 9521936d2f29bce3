--------------------------- MODULE DeltaReduction ---------------------------
(***************************************************************************)
(* The reduction of Kronecker deltas and overlaps in a term of Wick's         *)
(* theorem (core/wick.impl.hpp): they are turned into replacements of        *)
(* summed indices, all applied at once, what is left of them is folded, and *)
(* this is repeated until nothing folds.                                     *)
(*                                                                          *)
(* A space is a set of base spaces.  An index is in its space's own,         *)
(* orthonormal, basis and has no protoindices: every overlap is a delta.     *)
(***************************************************************************)
EXTENDS Integers, Sequences, SequencesExt, FiniteSets, FiniteSetsExt,
        Functions, TLC

CONSTANTS
  Products,   \* what is reduced: see Reducible
  SpaceRank,  \* the order of spaces
  IndexValues    \* space -> the values its indices take

VARIABLES
  given,   \* the product to reduce
  factors, \* the product
  passes,  \* how often the loop was run
  ended    \* "no", "reduced", or "zero"

reductionVars == <<given, factors, passes, ended>>

-----------------------------------------------------------------------------
(* Products.                                                                *)

Ind(space, n) == [space |-> space, n |-> n]
Factor(label, slots) == [label |-> label, slots |-> slots]
One == Factor("1", <<>>)
Overlap(b, k) == Factor("overlap", <<b, k>>)
Kronecker(b, k) == Factor("kronecker", <<b, k>>)
IsDelta(f) == f.label \in {"overlap", "kronecker"}
Bra(f) == f.slots[1]
Ket(f) == f.slots[2]

IndicesOf(fs) == UNION {Range(f.slots) : f \in Range(fs)}
\* get_used_indices_with_counts, of an index
CountOf(fs, x) ==
  FoldLeft(LAMBDA n, f : n + Cardinality({k \in DOMAIN f.slots : f.slots[k] = x}),
           0, fs)

\* contract, of an annihilator b and a creator k of quasiparticles in qp: an index
\* that is not all in qp is projected with a temporary, the n-th
Contracted(b, k, qp, n) ==
  LET common == b.space \cap k.space \cap qp
      bq == IF b.space \subseteq qp THEN b ELSE Ind(common, n)
      kq == IF k.space \subseteq qp THEN k ELSE Ind(common, n + 1)
  IN <<Overlap(bq, kq)>>
     \o (IF bq = b THEN <<>> ELSE <<Kronecker(b, bq)>>)
     \o (IF kq = k THEN <<>> ELSE <<Kronecker(kq, k)>>)

\* What is reduced: factors of the input, and what contracting its operators yields,
\* of which contractions are <<ann, cre, qp>>.  The external indices are those named
\* or, if there are none, those in one slot.  A product is covariant if it has no
\* noncovariant_indices: its other indices are in two slots.
Reducible(x) ==
  LET Yield(k) == Contracted(x.contractions[k][1], x.contractions[k][2],
                             x.contractions[k][3], 1000 + 2 * k)
      fs == x.factors \o FlattenSeq([k \in DOMAIN x.contractions |-> Yield(k)])
      external == IF x.named # {} THEN x.named
                  ELSE {i \in IndicesOf(fs) : CountOf(fs, i) <= 1}
  IN [factors |-> fs, external |-> external,
      covariant |-> \A i \in IndicesOf(fs) \ external : CountOf(fs, i) = 2]
IsExternal(i) == i \in given.external

-----------------------------------------------------------------------------
(* The replacements: rule maps an index to a destination, dst holds the      *)
(* destinations.  next counts the temporaries made.                          *)

NoRules == [rule |-> <<>>, dst |-> <<>>, next |-> 0, zero |-> FALSE]
Zero(s) == [s EXCEPT !.zero = TRUE]
Has(s, x) == x \in DOMAIN s.rule
Destination(s, x) == s.dst[s.rule[x]]

Less(x, y) ==
  \/ SpaceRank[x.space] < SpaceRank[y.space]
  \/ x.space = y.space /\ x.n < y.n

\* IndexFactory::make: an index of the space whose label the product has not
Temporary(s, space, used) ==
  LET taken == {x.n : x \in {y \in used : y.space = space}}
  IN Ind(space, CHOOSE n \in (1000 + s.next + 1) .. (1000 + s.next + 1 + Cardinality(taken)) :
                  /\ n \notin taken
                  /\ \A m \in (1000 + s.next + 1) .. (n - 1) : m \in taken)
Made(s, x) == [s EXCEPT !.next = x.n - 1000]

\* add_rule
AddRule(s, src, dst) ==
  LET same == {d \in Range(s.rule) : s.dst[d] = dst}
      new == Len(s.dst) + 1
  IN IF same # {} THEN [s EXCEPT !.rule = (src :> CHOOSE d \in same : TRUE) @@ @]
     ELSE [s EXCEPT !.rule = (src :> new) @@ @, !.dst = Append(@, dst)]

\* update_rule: the destination of src is narrowed to the space of dst
UpdateRule(s, src, dst, used) ==
  LET old == Destination(s, src)
      common == old.space \cap dst.space
      new == Temporary(s, common, used)
  IN IF dst.space = old.space THEN s
     ELSE IF common = {} THEN Zero(s)
     ELSE [Made(s, new) EXCEPT !.dst[s.rule[src]] = new]

\* add_or_update_rule
AddOrUpdate(s, src, dst, used) ==
  IF Has(s, src) THEN UpdateRule(s, src, dst, used) ELSE AddRule(s, src, dst)

\* update_rule, add_src_to_existing_dst: other follows src
Extend(s, src, other, dst, used) ==
  LET t == UpdateRule(s, src, dst, used)
  IN IF t.zero THEN t ELSE [t EXCEPT !.rule = (other :> t.rule[src]) @@ @]

\* Mutant: the first destination stays, in whatever space.
MergeIntoFirst(s, src1, src2, dst, used) ==
  [s EXCEPT !.rule = [x \in DOMAIN @ |->
                        IF @[x] = s.rule[src2] THEN s.rule[src1] ELSE @[x]]]

\* The two destinations become one, in the space common to both and to dst.
Merge(s, src1, src2, dst, used) ==
  LET old1 == Destination(s, src1)
      old2 == Destination(s, src2)
      common == old1.space \cap old2.space \cap dst.space
      known == {x \in {old1, old2, dst} : x.space = common}
      new == IF known = {} THEN Temporary(s, common, used)
             ELSE CHOOSE x \in known : \A y \in known : x = y \/ Less(x, y)
      t == IF known = {} THEN Made(s, new) ELSE s
      d1 == s.rule[src1]
  IN IF common = {} THEN Zero(s)
     ELSE [t EXCEPT !.dst[d1] = new,
                    !.rule = [x \in DOMAIN @ |->
                                IF @[x] = s.rule[src2] THEN d1 ELSE @[x]]]
\* add_or_update_rules
AddOrUpdateBoth(s, src1, src2, dst, used) ==
  IF ~Has(s, src1) /\ ~Has(s, src2) THEN AddRule(AddRule(s, src1, dst), src2, dst)
  ELSE IF ~Has(s, src2) THEN Extend(s, src1, src2, dst, used)
  ELSE IF ~Has(s, src1) THEN Extend(s, src2, src1, dst, used)
  ELSE Merge(s, src1, src2, dst, used)

\* Mutant: the external index replaces one of a smaller space.
BindAlways(s, x, e, used) == AddOrUpdate(s, x, e, used)

\* The summed index x is bound to the external index e.
Bind(s, x, e, used) ==
  LET new == Temporary(s, x.space \cap e.space, used)
  IN IF e.space \subseteq x.space THEN AddOrUpdate(s, x, e, used)
     ELSE AddOrUpdate(Made(s, new), x, new, used)
\* process(), of a delta; unpaired: the summed indices not in two slots
Process(s, f, used, unpaired) ==
  LET b == Bra(f)
      k == Ket(f)
      new == Temporary(s, b.space \cap k.space, used)
      skip == b = k \/ (f.label = "overlap" /\ {b, k} \subseteq unpaired)
  IN IF s.zero \/ skip THEN s
     ELSE IF b.space \cap k.space = {} THEN Zero(s)
     ELSE CASE ~IsExternal(b) /\ ~IsExternal(k) ->
                 AddOrUpdateBoth(Made(s, new), b, k, new, used)
            [] IsExternal(b) /\ ~IsExternal(k) -> Bind(s, k, b, used)
            [] ~IsExternal(b) /\ IsExternal(k) -> Bind(s, b, k, used)
            [] OTHER -> s

Deltas(fs) == SelectSeq(fs, IsDelta)
\* compute_index_replacement_rules; covariant: the input had no index that is not
Rules(fs) ==
  LET used == IndicesOf(fs)
      unpaired == IF given.covariant THEN {}
                  ELSE {x \in used : CountOf(fs, x) # 2 /\ ~IsExternal(x)}
  IN FoldLeft(LAMBDA s, f : Process(s, f, used, unpaired), NoRules, Deltas(fs))

\* apply_index_replacement_rules: every index once
Applied(fs, s) ==
  [k \in DOMAIN fs |->
     [fs[k] EXCEPT !.slots = [j \in DOMAIN @ |->
        IF Has(s, @[j]) THEN Destination(s, @[j]) ELSE @[j]]]]

-----------------------------------------------------------------------------
(* What the replacements leave of the deltas.                               *)

\* the external indices identified with x by these pairs
Identified(x, pairs) ==
  FoldLeft(LAMBDA S, k : S \cup UNION {p \in pairs : p \cap S # {}}, {x},
           [k \in 1 .. Cardinality(pairs) |-> k])

\* Mutant: a self-delta is 1 wherever its index is.
SelfAlwaysRedundant(fs, x, kept) == TRUE

\* a self-delta is 1 if its index is bound elsewhere, and one is kept otherwise
SelfRedundant(fs, x, kept) ==
  \/ IsExternal(x)
  \/ CountOf(fs, x) > 2 * Len(SelectSeq(fs, LAMBDA f : IsDelta(f) /\ f.slots = <<x, x>>))
  \/ x \in kept
\* fold_deltas, of the k-th factor
FoldFactor(fs, st, k) ==
  LET f == fs[k]
      b == Bra(f)
      Put(g) == [st EXCEPT !.out = Append(@, g)]
      Keep == Put(Kronecker(Bra(f), Ket(f)))
  IN IF ~IsDelta(f) THEN Put(f)
     ELSE IF Bra(f) = Ket(f)
     THEN IF SelfRedundant(fs, Bra(f), st.kept) THEN Put(One)
          ELSE [Keep EXCEPT !.kept = @ \cup {Bra(f)}]
     ELSE IF ~IsExternal(Bra(f)) \/ ~IsExternal(Ket(f)) THEN Put(f)
     ELSE IF Ket(f) \in Identified(Bra(f), st.same) THEN Put(One)
     ELSE [Keep EXCEPT !.same = @ \cup {Range(f.slots)}]
Folded(fs) ==
  FoldLeft(LAMBDA st, k : FoldFactor(fs, st, k),
           [out |-> <<>>, kept |-> {}, same |-> {}], [k \in DOMAIN fs |-> k]).out

-----------------------------------------------------------------------------
ReductionInit ==
  /\ given \in {Reducible(x) : x \in Products}
  /\ factors = given.factors
  /\ passes = 0 /\ ended = "no"

\* reduce_wick_impl, a pass
Reduce ==
  /\ ended = "no"
  /\ passes' = passes + 1
  /\ LET s == Rules(factors)
         next == Folded(Applied(factors, s))
         mutated == next # Applied(factors, s)
     IN IF s.zero THEN ended' = "zero" /\ UNCHANGED factors
        ELSE IF Deltas(factors) = <<>> THEN ended' = "reduced" /\ UNCHANGED factors
        ELSE /\ factors' = next
             /\ ended' = IF mutated THEN "no" ELSE "reduced"
  /\ UNCHANGED given

ReductionSpec == ReductionInit /\ [][Reduce]_reductionVars

-----------------------------------------------------------------------------
(* The value of a product: for every value of the external indices and every   *)
(* product of tensor elements, how often it is summed.                       *)

\* the functions that give an index of S a value of its space
Assignments(S) ==
  {g \in [S -> UNION Range(IndexValues)] : \A x \in S : g[x] \in IndexValues[x.space]}
Entries(fs, g) ==
  [k \in DOMAIN fs |-> IF IsDelta(fs[k]) \/ fs[k] = One THEN <<>>
                       ELSE [j \in DOMAIN fs[k].slots |-> g[fs[k].slots[j]]]]
ValueOf(fs) ==
  LET external == given.external
      nonzero == {g \in Assignments(IndicesOf(fs) \cup external) :
                    \A f \in Range(fs) : IsDelta(f) => g[Bra(f)] = g[Ket(f)]}
      Key(g) == <<[x \in external |-> g[x]], Entries(fs, g)>>
  IN {<<key, Cardinality({g \in nonzero : Key(g) = key})>> :
        key \in {Key(g) : g \in nonzero}}

Ties(fs, x) == {y \in given.external : \E f \in Range(Deltas(fs)) : Range(f.slots) = {x, y}}
\* A delta that stands: of an index with itself or of external ones; with a summed
\* index that is not as wide as the external one, or is tied to several; an overlap
\* of unpaired ones.
Stands(f) ==
  \/ Bra(f) = Ket(f)
  \/ IsExternal(Bra(f)) /\ IsExternal(Ket(f))
  \/ \E x, y \in Range(f.slots) :
       /\ IsExternal(x) /\ ~IsExternal(y)
       /\ ~(x.space \subseteq y.space) \/ Cardinality(Ties(factors, y)) > 1
  \/ f.label = "overlap" /\ ~given.covariant

\* Every pass leaves the value of the product what it was: replacements made for
\* one delta and narrowed, merged or shared by another still identify what the
\* deltas do, and what is folded away was 1.  Each pass but the last folds a
\* delta, and those that are left could not be resolved.
ReductionExact ==
  /\ (IF ended = "zero" THEN {} ELSE ValueOf(factors)) = ValueOf(given.factors)
  /\ passes <= Len(Deltas(given.factors)) + 1
  /\ ended = "reduced" => \A f \in Range(Deltas(factors)) : Stands(f)
=============================================================================
