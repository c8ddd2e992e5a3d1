---------------------------- MODULE MCPermuteMapping ----------------------------
(* Data sets of different sizes, either of them the smaller, and of the    *)
(* same size; two executions, at the same time or one after the other.     *)
EXTENDS PermuteMapping, TLC

CONSTANTS first, again

TwoExecutions == {first, again}
AnyExecution  == Permutations(TwoExecutions)
SmallSizes    == {[s \in Side |-> IF s = "a" THEN 1 ELSE 2], [s \in Side |-> IF s = "a" THEN 3 ELSE 2],
                   [s \in Side |-> 2]}
===============================================================================
