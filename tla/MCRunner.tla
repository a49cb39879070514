------------------------------ MODULE MCRunner ------------------------------
(* Runner on small instances: one call, and two that share the core limit. *)
EXTENDS Runner, TLC

CallSymmetry == Permutations(Call)

\* A helper that left the pipes changes nothing a second call can notice.
NoDetachedHelper == \A c \in Call : call[c].helper # "detached"
=============================================================================
