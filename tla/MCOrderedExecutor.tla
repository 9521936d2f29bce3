------------------------- MODULE MCOrderedExecutor -------------------------
(***************************************************************************)
(* Model-checking instances of OrderedExecutor: the schedules the builder  *)
(* makes of small expression forests, each chosen for the shape of its     *)
(* loops.                                                                  *)
(***************************************************************************)
EXTENDS OrderedExecutor, CellTableBuilder

Builder == INSTANCE ScheduleBuilder WITH SpaceOrder <- <<"i", "K">>

i == <<"i", 1>>
j == <<"i", 2>>
K == <<"K", 1>>
L == <<"K", 2>>

Leaf(id, carried) ==
  [id |-> id, op |-> "leaf", carried |-> carried, opens |-> << >>, kids |-> << >>]
Prod(id, carried, left, right) ==
  [id |-> id, op |-> "product", carried |-> carried, opens |-> << >>,
   kids |-> <<left, right>>]
Add(id, carried, left, right) == [Prod(id, carried, left, right) EXCEPT !.op = "sum"]
Over(tree, mode) == [tree EXCEPT !.opens = Append(@, <<mode, "Contracted">>)]
Sliced(tree, mode) == [tree EXCEPT !.opens = Append(@, <<mode, "External">>)]

A(m) == Leaf("A", <<m>>)
B(m) == Leaf("B", <<m>>)
C == Leaf("C", << >>)
(* P = A.B, per batch of K, and R = sum_K P.A, the same in three places    *)
(* of two terms, one a sum of products of R.                               *)
P(m) == Prod("P", <<m>>, A(m), B(m))
R(m) == Over(Prod("R", << >>, P(m), A(m)), m)
Contracted ==
  << Add("T", << >>, Prod("RR", << >>, R(K), R(L)), Prod("RC", << >>, R(K), C)),
     Prod("RRC", << >>, Prod("RR", << >>, R(L), R(K)), C) >>

(* A contracted loop K inside an external loop i, with a value that is     *)
(* invariant to both (W) and one invariant to K only (U) produced inside K.*)
Nested ==
  LET D == Leaf("D", <<i>>)
      W == Prod("W", << >>, C, C)
      U == Prod("U", <<i>>, Prod("DD", <<i>>, D, D), W)
      Y == Prod("Y", <<i, K>>, Leaf("E", <<i, K>>), B(K))
      X == Over(Prod("X", <<i>>, Y, U), K)
  IN  << Prod("N", <<i>>, Sliced(Add("S", <<i>>, X, D), i), C) >>

(* A term of loops i and K nested under a loop j it does not open: V =     *)
(* sum_K is complete after the first j batch and reused by the others; it  *)
(* escapes i past the level of j.                                          *)
Interposed ==
  LET Y == Prod("Y", <<i, K>>, Leaf("E", <<i, K>>), B(K))
      V == Over(Prod("V", <<i>>, Y, B(K)), K)
      W == Prod("W", <<i, j>>, V, Leaf("D", <<j>>))
      Z == Prod("Z", <<i, j>>, W, Leaf("F", <<i, j>>))
  IN  << Prod("ZV", <<i, j>>, Sliced(Sliced(Z, i), j), Sliced(V, i)) >>

U(m) == Prod("U", <<m>>, Leaf("H", <<m>>), Leaf("H", <<m>>))
E(m, n) == Leaf("E", <<m, n>>)
(* Two passes of the loop K: V, complete on i, is read inside the loops it *)
(* is produced in, and P is sliced by K in both.                           *)
Passes ==
  LET V == Sliced(Prod("V", <<i>>, U(i), Leaf("G", <<i>>)), i)
      T == Over(Prod("TQ", << >>, Prod("Q", <<i, K>>, V, P(K)), E(i, K)), K)
      X == Prod("X", <<j>>, U(j), Prod("PE", <<j, L>>, P(L), E(j, L)))
  IN  << T, Sliced(Over(X, L), j) >>

(* An external loop inside the contracted loop K: V is sliced by both, and *)
(* R is summed over K outside the inner one.                               *)
Inner ==
  LET V == Sliced(Prod("V", <<i, K>>, E(i, K), P(K)), i)
  IN  << Over(Prod("VE", << >>, V, E(i, K)), K), R(L) >>

(* W is summed over its loop j inside the loop i: U is sliced by both, in  *)
(* two values.                                                             *)
Apart ==
  LET W == Sliced(Prod("W", <<j>>, U(j), C), j)
  IN  << Sliced(Prod("WEU", <<i>>, Prod("WE", <<i>>, W, E(i, j)), U(i)), i) >>

(* CC is built once and for all; later evaluations skip it and its reads   *)
(* of C, but C is touched again by the loop that rebuilds CB.              *)
Halted ==
  << Prod("T", << >>, Prod("CC", << >>, C, C),
          Over(Prod("CBA", << >>, Prod("CB", <<K>>, C, B(K)), A(K)), K)) >>

(* T opens the external loop i, and its operand V the external loop j      *)
(* inside it, over a mode that T carries too but is not sliced on.  V has  *)
(* j first, so the builder makes j the outer loop.                         *)
TwoExternals ==
  LET V == Sliced(Prod("V", <<j, i>>, Leaf("H", <<j>>), Leaf("D", <<i>>)), j)
  IN  << Sliced(Prod("T", <<j, i>>, V, Leaf("D", <<i>>)), i) >>

(* Any leaves may be volatile; a loop has one or two batches.              *)
PlansOf(forests) ==
  UNION {{PlanOf(s, vol, nb) : vol \in SUBSET {v \in DOMAIN s.values : s.values[v].leaf},
                               nb \in [{"i", "K"} -> 1 .. 2]}
         : s \in {Builder!ScheduleOf(f) : f \in forests}}

AllPlans ==
  PlansOf({Contracted, Nested, Interposed, Passes, Inner, Apart, Halted})
HaltedPlans == PlansOf({Halted})
TwoExternalsPlans == PlansOf({TwoExternals})
=============================================================================
