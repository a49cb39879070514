------------------------------ MODULE MCEngine ------------------------------
(* Engine on small instances.                                              *)
EXTENDS Engine, TLC

\* One tick past the clock's bound, so that something can be held for good.
AllTimes    == 0..(MaxTime + 1)
ChainNeeds  == [s \in Step |-> {q \in Step : q + 1 = s}]
\* Step 3 needs step 1; step 2 needs nothing.
ForkNeeds   == [s \in Step |-> IF s = 3 THEN {1} ELSE {}]
RetryFirst  == [s \in Step |-> IF s = 1 THEN 2 ELSE 1]
SameName    == [e \in Exec |-> CHOOSE o \in Owner : TRUE]
ExecSymmetry == Permutations(Exec)
=============================================================================
