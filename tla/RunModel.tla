------------------------------ MODULE RunModel ------------------------------
(***************************************************************************)
(* internal/model: the run machine, the step machine and the aggregate.    *)
(*                                                                         *)
(* The package is pure: two transition functions of a state, an event and  *)
(* a record of guards.  Here each machine is a relation: RunMove and       *)
(* StepMove hold of (cur, ev, g, to) when the Go function returns `to`     *)
(* without an error.  A refusal is a (cur, ev, g) related to no state.     *)
(***************************************************************************)

RunActive   == {"queued", "running"}
RunTerminal == {"succeeded", "failed", "cancelled"}
RunStates   == RunActive \union RunTerminal

StepOpen     == {"pending", "running"}
StepTerminal == {"succeeded", "failed", "skipped", "cancelled"}
StepStates   == StepOpen \union StepTerminal

\* The input alphabet, shared by the two machines.
Events == {"claim", "deferred", "step_started", "step_succeeded", "step_failed",
           "upstream_failed", "all_steps_done", "cancel_observed",
           "lease_expired", "operator_retry"}

\* What a machine may know beyond the state and the event.  `available` is the
\* comparison AvailableAt <= Now; `reason` and `deferReason` say whether the
\* string is non-empty, which is all the machines ask of it.
Guards == [available : BOOLEAN, cancelRequested : BOOLEAN, leaseValid : BOOLEAN,
           attemptsLeft : BOOLEAN, anyStepFailed : BOOLEAN,
           allStepsTerminal : BOOLEAN, crashBudgetLeft : BOOLEAN,
           reason : BOOLEAN, deferReason : BOOLEAN]

\* model.Guards{}: the zero value every caller starts from.
NoGuards == [available |-> FALSE, cancelRequested |-> FALSE, leaseValid |-> FALSE,
             attemptsLeft |-> FALSE, anyStepFailed |-> FALSE,
             allStepsTerminal |-> FALSE, crashBudgetLeft |-> FALSE,
             reason |-> FALSE, deferReason |-> FALSE]

\* NextRunState, one disjunct per transition that moves or keeps the state.
RunMove(cur, ev, g, to) ==
    \/ /\ cur = "queued" /\ ev = "claim"
       /\ \/ g.cancelRequested /\ g.reason /\ to = "cancelled"
          \/ ~g.cancelRequested /\ g.available /\ to = "running"
    \/ /\ cur = "queued" /\ ev = "deferred"
       /\ g.deferReason /\ to = "queued"
    \/ /\ cur = "running" /\ ev = "all_steps_done"
       /\ g.leaseValid /\ g.allStepsTerminal /\ g.reason
       /\ to = IF g.anyStepFailed THEN "failed" ELSE "succeeded"
    \/ /\ cur = "running" /\ ev = "cancel_observed"
       /\ g.leaseValid /\ g.reason /\ to = "cancelled"
    \/ /\ cur = "running" /\ ev = "lease_expired" /\ ~g.leaseValid
       /\ \/ g.crashBudgetLeft /\ to = "queued"
          \/ ~g.crashBudgetLeft /\ g.reason /\ to = "failed"
    \/ /\ cur \in RunTerminal /\ ev = "operator_retry" /\ to = "queued"

\* NextStepState.
StepMove(cur, ev, g, to) ==
    \/ cur = "pending" /\ ev = "step_started" /\ to = "running"
    \/ cur = "pending" /\ ev = "upstream_failed" /\ g.reason /\ to = "skipped"
    \/ cur = "running" /\ ev = "step_succeeded" /\ g.reason /\ to = "succeeded"
    \/ /\ cur = "running" /\ ev = "step_failed" /\ g.reason
       /\ to = IF g.attemptsLeft THEN "pending" ELSE "failed"
    \/ cur = "running" /\ ev = "cancel_observed" /\ g.reason /\ to = "cancelled"

\* The machines' refusals: GuardError and IllegalTransitionError.
RunRefuses(cur, ev, g)  == \A to \in RunStates : ~RunMove(cur, ev, g, to)
StepRefuses(cur, ev, g) == \A to \in StepStates : ~StepMove(cur, ev, g, to)

\* RunAggregate of the steps' states, given as the set of states that occur.
RunAggregate(states) ==
    CASE states \intersect StepOpen # {} -> "running"
      [] states \intersect StepOpen = {} /\ "failed" \in states -> "failed"
      [] states \intersect (StepOpen \union {"failed"}) = {}
            /\ "cancelled" \in states -> "cancelled"
      [] OTHER -> "succeeded"
=============================================================================
