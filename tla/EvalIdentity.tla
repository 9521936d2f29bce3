---------------------------- MODULE EvalIdentity ----------------------------
(***************************************************************************)
(* Two expressions are binarized one after the other, as the terms of an   *)
(* equation are.  The nodes of the two trees that compare equal are one    *)
(* value of the cache, up to the phases the nodes carry.                   *)
(***************************************************************************)
EXTENDS EvalTree

CONSTANTS
  Expressions,    \* the expressions to binarize
  Data            \* the tensors' arrays

VARIABLES
  terms,    \* the two expressions
  trees     \* the trees of those binarized so far

vars == <<terms, trees>>

Init ==
  /\ terms \in Expressions \X Expressions
  /\ trees = <<>>

\* binarize the next term.
BinarizeNext ==
  /\ Len(trees) < 2
  /\ LET e == terms[Len(trees) + 1] IN
       trees' = Append(trees, Binarize(e, Free(e)))
  /\ UNCHANGED terms

Next == BinarizeNext

Spec == Init /\ [][Next]_vars

-----------------------------------------------------------------------------
\* What a node contributes to the cache: its array in the canonical
\* orientation, which the node's own phase takes back to the node's.
CanonicalValue(n) == Scale(n.phase, Raw(n, Data))

\* Evaluating the tree gives the value the expression denotes: folding the
\* factors from the left keeps an index until its last factor is in.
TreesEvaluateExpressions ==
  \A k \in DOMAIN trees :
    Raw(trees[k], Data) = Denote(terms[k], Data, trees[k].idx)

\* Nodes that compare equal hold the same canonical array, whatever the
\* spelling of their indices: one may be read from the other's cache entry.
SameNodesSameValue ==
  Len(trees) = 2 =>
    \A n \in Subtrees(trees[1]), m \in Subtrees(trees[2]) :
      Same(n, m) => CanonicalValue(n) = CanonicalValue(m)
=============================================================================
