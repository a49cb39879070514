----------------------------- MODULE MCRunStore -----------------------------
(* RunStore on small instances: a job of two steps, the second needing the  *)
(* first, and a job of one step for the questions that need two runs.       *)
EXTENDS RunStore, TLC

\* One tick past the clock's bound, so that something can be held for good.
AllTimes    == 0..(MaxTime + 1)
ChainNeeds  == [s \in Step |-> {q \in Step : q + 1 = s}]
RetryFirst  == [s \in Step |-> IF s = 1 THEN 2 ELSE 1]
OneAttempt  == [s \in Step |-> 1]
Symmetry    == Permutations(Owner) \union Permutations(Actor)
TwoRuns     == Permutations(Run)
=============================================================================
