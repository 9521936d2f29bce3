------------------------- MODULE MCDefaultContext --------------------------
(***************************************************************************)
(* Two threads, a Statistics with a context of its own and Arbitrary, two  *)
(* contexts besides Context{}, and a modification that changes all three.  *)
(***************************************************************************)
EXTENDS DefaultContext, TLC

CONSTANTS t1, t2, init, c, d

MCThread == {t1, t2}
MCStat == {"Arbitrary", "FermiDirac"}
MCCtx == {init, c, d}
MCScopes == { [s \in {"FermiDirac"} |-> c] }
MCModify == { [x \in MCCtx |-> d] }
Sym == Permutations(MCThread)
=============================================================================
