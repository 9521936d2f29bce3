----------------------------- MODULE MCMemoize -----------------------------
(* The keys, and whether a computation may throw, are the cfgs'.           *)
EXTENDS Memoize, TLC

CONSTANTS t1, t2, t3, t4
Three == {t1, t2, t3}
Four == {t1, t2, t3, t4}
Sym == Permutations(Three)
=============================================================================
