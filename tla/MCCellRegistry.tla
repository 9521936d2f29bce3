--------------------------- MODULE MCCellRegistry ---------------------------
(***************************************************************************)
(* A loop k inside a loop j with: a value W sliced by j, produced inside k *)
(* on first visit only (produce-if-absent), its persistent whole form p,   *)
(* and a partial sum over k read twice.                                    *)
(***************************************************************************)
EXTENDS CellRegistry, TLC

CONSTANTS b1, b2, b3

J == <<1, 0>>
K == <<2, 0>>
InK == << [key |-> J, lat |-> 0], [key |-> K, lat |-> 0] >>
Entries ==
  [p |-> [vid |-> "W", scope |-> << >>, sliced |-> {}, partial |-> {}, pia |-> FALSE,
          persistent |-> TRUE, life |-> 1],
   w |-> [vid |-> "W", scope |-> InK, sliced |-> {<<"m", J>>}, partial |-> {}, pia |-> TRUE,
          persistent |-> FALSE, life |-> 2],
   s |-> [vid |-> "S", scope |-> InK, sliced |-> {}, partial |-> {K}, pia |-> FALSE,
          persistent |-> FALSE, life |-> 2]]
MCIds == {"p", "w", "s"}
MCVids == {"W", "S"}
MCLoops == {J, K}
MCBufs == {b1, b2, b3}
Sym == Permutations(MCBufs)
=============================================================================
