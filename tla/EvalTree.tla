------------------------------ MODULE EvalTree ------------------------------
(***************************************************************************)
(* Evaluation trees (src/SeQuant/core/eval/eval_expr.cpp): an expression   *)
(* over tensors is binarized into a tree of binary operations, and two     *)
(* nodes that compare equal (eval_node_compare.hpp) share one entry of the *)
(* evaluation cache.  A tensor's value is an array: a function from the    *)
(* tuples of its modes' elements to integers; a scalar has no modes.       *)
(***************************************************************************)
EXTENDS Integers, Sequences, SequencesExt, FiniteSetsExt, BagsExt, Functions

CONSTANTS
  Extent,     \* the elements an index ranges over
  Antisymm    \* the tensors that change sign when their two indices are swapped

\* Expressions.
T(name, idx) == [kind |-> "tensor", name |-> name, idx |-> idx]
Mul(scalar, factors) ==
  [kind |-> "product", scalar |-> scalar, factors |-> factors]
Add(summands) == [kind |-> "sum", summands |-> summands]

-----------------------------------------------------------------------------
\* Arrays.

\* The elements of the indices idx under the assignment s.
Elements(s, idx) == [p \in DOMAIN idx |-> s[idx[p]]]

\* The assignments to the indices idxs under which every operand <<array,
\* layout>> of ops has an element.
Assignments(ops) ==
  LET names == UNION {Range(o[2]) : o \in ops} IN
  {s \in [names -> Extent] : \A o \in ops : Elements(s, o[2]) \in DOMAIN o[1]}

\* Result::prod: the contraction of a and b over the indices missing from out.
Contract(a, la, b, lb, out) ==
  LET all == Assignments({<<a, la>>, <<b, lb>>}) IN
  [r \in {Elements(s, out) : s \in all} |->
     MapThenSumSet(LAMBDA s : a[Elements(s, la)] * b[Elements(s, lb)],
                   {s \in all : Elements(s, out) = r})]

\* Result::permute: a in the layout out.
Permute(a, la, out) ==
  [r \in {Elements(s, out) : s \in Assignments({<<a, la>>})} |->
     a[Elements(CHOOSE s \in Assignments({<<a, la>>}) : Elements(s, out) = r, la)]]

\* Result::mult_by_phase, and the sum of two arrays of one layout.
Scale(c, a) == [r \in DOMAIN a |-> c * a[r]]
Plus(a, b) == [r \in DOMAIN a |-> a[r] + b[r]]

-----------------------------------------------------------------------------
\* The value an expression denotes, by the definition of its operations: data
\* gives the tensors' arrays, s the elements of the expression's free indices.

RECURSIVE AllIndices(_)
AllIndices(e) ==
  CASE e.kind = "tensor" -> Range(e.idx)
    [] e.kind = "sum" -> AllIndices(e.summands[1])
    [] e.kind = "product" ->
         UNION {AllIndices(e.factors[i]) : i \in DOMAIN e.factors}

\* The indices of e its value keeps: those that occur once in each term.
RECURSIVE Occurrences(_, _)
Occurrences(e, i) ==
  CASE e.kind = "tensor" -> Cardinality({p \in DOMAIN e.idx : e.idx[p] = i})
    [] e.kind = "sum" -> Occurrences(e.summands[1], i)
    [] e.kind = "product" ->
         FoldLeft(LAMBDA acc, f : acc + Occurrences(f, i), 0, e.factors)
Free(e) == {i \in AllIndices(e) : Occurrences(e, i) = 1}

RECURSIVE ValueAt(_, _, _)
ValueAt(e, data, s) ==
  CASE e.kind = "tensor" -> data[e.name][Elements(s, e.idx)]
    [] e.kind = "sum" ->
         FoldLeft(LAMBDA acc, x : acc + ValueAt(x, data, s), 0, e.summands)
    [] e.kind = "product" ->
         LET bound == UNION {Free(e.factors[k]) : k \in DOMAIN e.factors}
             extended == {x \in [bound \cup DOMAIN s -> Extent] :
                            \A i \in DOMAIN s : x[i] = s[i]} IN
         MapThenSumSet(
           LAMBDA x : FoldLeft(LAMBDA acc, f : acc * ValueAt(f, data, x),
                               e.scalar, e.factors), extended)

\* The array of the expression e in the layout out.
Denote(e, data, out) ==
  [r \in [DOMAIN out -> Extent] |->
     ValueAt(e, data, [i \in Range(out) |-> r[CHOOSE p \in DOMAIN out : out[p] = i]])]

-----------------------------------------------------------------------------
\* Nodes.  idx is canon_indices, net the canonical form of the tensor network
\* a contraction computes ({} when the node has no connectivity graph).

LeafNode(t) ==
  [op |-> "leaf", name |-> t.name, idx |-> t.idx, phase |-> 1, net |-> {}]
ConstantNode(c) ==
  [op |-> "constant", name |-> "", value |-> c, idx |-> <<>>, phase |-> 1,
   net |-> {}]
IsLeaf(n) == n.op \in {"leaf", "constant"}
IsScalar(n) == n.idx = <<>>

\* collect_tensor_factors: the tensors of a product subtree; a sum contributes
\* one intermediate tensor, labelled I, whose indices make_tensor sorts.
RECURSIVE TensorFactors(_)
TensorFactors(n) ==
  CASE n.op = "leaf" -> <<[name |-> n.name, idx |-> n.idx]>>
    [] n.op = "Sum" /\ ~IsScalar(n) ->
         <<[name |-> "I", idx |-> SetToSortSeq(Range(n.idx), <)]>>
    [] n.op = "Product" -> TensorFactors(n.left) \o TensorFactors(n.right)
    [] OTHER -> <<>>

\* The factor f with its indices renamed by b, in the order antisymmetry
\* allows, and the sign of that reordering.
Swapped(f, b) ==
  f.name \in Antisymm /\ Len(f.idx) = 2 /\ b[f.idx[1]] > b[f.idx[2]]
Renamed(f, b) ==
  LET t == Elements(b, f.idx) IN
  <<f.name, IF Swapped(f, b) THEN <<t[2], t[1]>> ELSE t>>
Sign(fs, b) == IF Cardinality({k \in DOMAIN fs : Swapped(fs[k], b)}) % 2 = 0
               THEN 1 ELSE -1

\* canonicalize_slots: every numbering of the indices, the named ones first,
\* gives a form of the network; one form is canonical, the one all spellings
\* of the network agree on.
Numberings(fs, named) ==
  LET names == UNION {Range(fs[k].idx) : k \in DOMAIN fs} IN
  {b \in Bijection(names, 1..Cardinality(names)) :
     \A i \in names : i \in named <=> b[i] <= Cardinality(named)}
Form(fs, b) == FoldLeft(LAMBDA bag, f : bag (+) SetToBag({Renamed(f, b)}), EmptyBag, fs)
Forms(fs, named) == {Form(fs, b) : b \in Numberings(fs, named)}

\* make_prod over two tensors: the node of their contraction, which leaves the
\* indices keep.  Its modes are in the canonical order, and its phase is the
\* sign that takes the network as written to its canonical form.
NumberingOf(rep, fs, named) ==
  CHOOSE b \in Numberings(fs, named) : Form(fs, b) = rep
Contraction(l, r, fs, named, forms, b) ==
  [op |-> "Product", left |-> l, right |-> r, phase |-> Sign(fs, b),
   idx |-> [k \in 1..Cardinality(named) |-> CHOOSE i \in named : b[i] = k],
   net |-> {<<Cardinality(named), forms>>}]
ContractionOf(l, r, fs, named, forms) ==
  Contraction(l, r, fs, named, forms,
              NumberingOf(CHOOSE f \in forms : TRUE, fs, named))
ContractionOver(l, r, fs, named) ==
  ContractionOf(l, r, fs, named, Forms(fs, named))
ContractionNode(l, r, keep) ==
  ContractionOver(l, r, TensorFactors(l) \o TensorFactors(r),
                  keep \cap (Range(l.idx) \cup Range(r.idx)))

\* Mutant: a scaled tensor has no phase.
ProductNodePhaseless(l, r, keep) ==
  CASE IsScalar(l) /\ IsScalar(r) ->
         [op |-> "Product", left |-> l, right |-> r, idx |-> <<>>,
          phase |-> 1, net |-> {}]
    [] IsScalar(l) # IsScalar(r) ->
         [op |-> "Product", left |-> l, right |-> r, phase |-> 1,
          idx |-> l.idx \o r.idx, net |-> {}]
    [] OTHER -> ContractionNode(l, r, keep)

\* make_prod: a scalar factor leaves the tensor's modes and phase.
ProductNode(l, r, keep) ==
  CASE IsScalar(l) /\ IsScalar(r) ->
         [op |-> "Product", left |-> l, right |-> r, idx |-> <<>>,
          phase |-> 1, net |-> {}]
    [] IsScalar(l) /\ ~IsScalar(r) ->
         [op |-> "Product", left |-> l, right |-> r, idx |-> r.idx,
          phase |-> r.phase, net |-> {}]
    [] ~IsScalar(l) /\ IsScalar(r) ->
         [op |-> "Product", left |-> l, right |-> r, idx |-> l.idx,
          phase |-> l.phase, net |-> {}]
    [] OTHER -> ContractionNode(l, r, keep)

\* make_sum: the layout of the left operand, accumulated into in place.
SumNode(l, r) ==
  [op |-> "Sum", left |-> l, right |-> r, idx |-> l.idx, phase |-> 1,
   net |-> {}]

\* left_to_right_binarization_indices: the indices of fs[i..j] that another
\* factor carries or the result keeps.
\* Mutant: the last factor is not looked at.
OpenIndicesOneShort(fs, i, j, keep) ==
  LET inside == UNION {AllIndices(fs[k]) : k \in i..j}
      others == UNION {AllIndices(fs[k]) :
                         k \in (1..(Len(fs) - 1)) \ (i..j)}
  IN inside \cap (keep \cup others)
OpenIndices(fs, i, j, keep) ==
  LET inside == UNION {AllIndices(fs[k]) : k \in i..j}
      others == UNION {AllIndices(fs[k]) : k \in DOMAIN fs \ (i..j)}
  IN inside \cap (keep \cup others)

\* binarize: sums and products are folded from the left; a product's scalar
\* is its last factor.
RECURSIVE Binarize(_, _)
Binarize(e, keep) ==
  CASE e.kind = "tensor" -> LeafNode(e)
    [] e.kind = "sum" ->
         LET ns == [i \in DOMAIN e.summands |-> Binarize(e.summands[i], keep)]
         IN FoldLeft(SumNode, Head(ns), Tail(ns))
    [] e.kind = "product" /\ e.factors = <<>> -> ConstantNode(e.scalar)
    [] e.kind = "product" /\ e.factors # <<>> ->
         LET fs == e.factors
             ns == [i \in DOMAIN fs |->
                      Binarize(fs[i], OpenIndices(fs, i, i, keep))]
             Upto[i \in DOMAIN fs] ==
               IF i = 1 THEN ns[1]
               ELSE ProductNode(Upto[i - 1], ns[i],
                                OpenIndices(fs, 1, i, keep))
             whole == Upto[Len(fs)]
         IN IF e.scalar = 1 THEN whole
            ELSE ProductNode(whole, ConstantNode(e.scalar), keep)

-----------------------------------------------------------------------------
\* TreeNodeEqualityComparator: leaves by name and block, contractions by their
\* networks, and the children in turn: of a product in either order.
RECURSIVE Same(_, _)
Same(n, m) ==
  /\ n.op = m.op
  /\ Len(n.idx) = Len(m.idx)
  /\ n.net = m.net
  /\ IsLeaf(n) => n.name = m.name
  /\ n.op = "constant" => n.value = m.value
  /\ n.op = "Product" =>
       \/ Same(n.left, m.left) /\ Same(n.right, m.right)
       \/ Same(n.left, m.right) /\ Same(n.right, m.left)
  /\ n.op = "Sum" => Same(n.left, m.left) /\ Same(n.right, m.right)

\* What evaluating the node alone, without a cache, computes: its array, in
\* its own layout (apply_one_op on the operands' arrays).
RECURSIVE Raw(_, _)
Raw(n, data) ==
  CASE n.op = "leaf" -> data[n.name]
    [] n.op = "constant" -> [r \in {<<>>} |-> n.value]
    [] n.op = "Sum" -> Plus(Permute(Raw(n.left, data), n.left.idx, n.idx),
                            Permute(Raw(n.right, data), n.right.idx, n.idx))
    [] n.op = "Product" -> Contract(Raw(n.left, data), n.left.idx,
                                    Raw(n.right, data), n.right.idx, n.idx)

RECURSIVE Subtrees(_)
Subtrees(n) ==
  {n} \cup (IF IsLeaf(n) THEN {} ELSE Subtrees(n.left) \cup Subtrees(n.right))
=============================================================================
