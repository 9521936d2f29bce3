----------------------------- MODULE Evaluation -----------------------------
(***************************************************************************)
(* What evaluating a forest over and over promises, whatever the schedule: *)
(* the n-th evaluation returns, for every root, its complete value on the  *)
(* inputs of that evaluation, and every evaluation returns.                *)
(***************************************************************************)
EXTENDS Naturals, Sequences

CONSTANT NEvals

VARIABLES answers,   \* the right results of each evaluation, fixed
          results    \* the results returned so far

Init == results = << >>

Evaluate ==
  /\ Len(results) < NEvals
  /\ results' = Append(results, answers[Len(results) + 1])

Spec == Init /\ [][Evaluate]_results /\ [][FALSE]_answers /\ WF_results(Evaluate)
=============================================================================
