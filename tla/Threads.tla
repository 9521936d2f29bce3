------------------------------ MODULE Threads ------------------------------
(* Threads that make a bounded number of calls each.                       *)
EXTENDS Naturals

CONSTANTS Thread,
          NoThread,   \* the holder of a free mutex
          MaxCalls    \* bound: calls one thread makes

ASSUME ThreadsAssumption == MaxCalls \in Nat /\ NoThread \notin Thread
=============================================================================
