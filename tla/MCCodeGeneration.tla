-------------------------- MODULE MCCodeGeneration --------------------------
(***************************************************************************)
(* The export of a product of a number and a sum.                           *)
(***************************************************************************)
EXTENDS CodeGeneration

a == Tensor("A", "p")
b == Tensor("B", "q")
c == Tensor("C", "p")
r == Tensor("R", "p")
MCValues == (a :> 2) @@ (b :> 3) @@ (c :> 5) @@ (r :> 1000)

Times(x, y) == Product(1, <<Leaf(x), Leaf(y)>>, <<"p", "p">>)
One(e) == <<[result |-> r, expr |-> e, scope |-> Global, set |-> <<>>]>>

\* R = 2 (A B + B C)
ScaledSum == {One(Product(2, <<Sum(<<Times(a, b), Times(b, c)>>)>>, <<"p">>))}
=============================================================================
