--------------------------- MODULE MCTreeEvaluator ---------------------------
(***************************************************************************)
(* The evaluation of a product whose right factor is a sum that starts with *)
(* the left factor.                                                         *)
(***************************************************************************)
EXTENDS TreeEvaluator

MCAntisymm == {"A"}
MCVolatile == {"v"}

Square == (1..2) \X (1..2)
MCVersions ==
  [n \in 1..2 |->
    [A |-> [r \in Square |-> CASE r = <<1, 2>> -> 1 [] r = <<2, 1>> -> -1
                               [] OTHER -> 0],
     t |-> [r \in Square |-> r[1] + 2 * r[2]],
     u |-> [r \in Square |-> 3 * r[1] - r[2]]]]

\* Scalars: x = u12 t12, spelled with other indices as another factor, and
\* y = A12 t12.
x == Mul(1, <<T("u", <<1, 2>>), T("t", <<1, 2>>)>>)
x34 == Mul(1, <<T("u", <<3, 4>>), T("t", <<3, 4>>)>>)
y == Mul(1, <<T("A", <<1, 2>>), T("t", <<1, 2>>)>>)
Nested == [maxFootprint |-> 0, out |-> <<>>, terms |-> <<Mul(1, <<x34, Add(<<x, y>>)>>)>>]

NestedPrograms == <<Nested>>
=============================================================================
