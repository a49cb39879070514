------------------------------- MODULE Engine -------------------------------
(***************************************************************************)
(* internal/engine: ExecuteRun, over the transactions of RunStore.         *)
(*                                                                         *)
(* Each executor is one call of ExecuteRun.  Its program counter stands    *)
(* between two accesses to the database, so a request, another executor,   *)
(* the clock or a crash may come between any two of them.  The process it  *)
(* runs lives strictly between two transactions, while pc = "process".     *)
(***************************************************************************)
EXTENDS RunStore, Integers

CONSTANTS
    Exec,        \* calls of ExecuteRun
    OwnerOf,     \* the lease name of an executor; two may share one
    JobTimeout,  \* the run's own budget in ticks, 0 for none
    StepTimeout, \* the step's timeout in ticks
    Delays,      \* what the backoff with jitter may draw
    MayDie,      \* whether executors crash, are hard stopped, or lose the log
    SlowStore    \* whether time may pass between any two database accesses

StepFailures == {"STEP_FAILED_NONZERO_EXIT", "STEP_FAILED_TIMEOUT",
                 "STEP_FAILED_SIGNAL", "STEP_FAILED_SPAWN", "STEP_RETRIES_EXHAUSTED"}

ReasonCodes ==
    {"RUN_SUCCEEDED", "RUN_FAILED_STEP", "RUN_TIMED_OUT", "RUN_CANCELLED_MANUAL",
     "STEP_SUCCEEDED", "STEP_CANCELLED", "STEP_SKIPPED_UPSTREAM_FAILED",
     "STEP_RETRY_SCHEDULED"} \union StepFailures

ASSUME CodeAssumption == ReasonCodes \subseteq Code
ASSUME ExecAssumption ==
    /\ OwnerOf \in [Exec -> Owner]
    /\ JobTimeout \in Nat /\ StepTimeout \in Nat \ {0} /\ Delays \subseteq Nat
    /\ MayDie \in BOOLEAN /\ SlowStore \in BOOLEAN
    /\ \A t \in 0..MaxTime : t \in Times /\ \A d \in Delays : t + d \in Times

VARIABLES
    ex,      \* the local variables of each executor
    late     \* history: steps started on a run after its cancellation request

evars == <<runs, steps, runLog, stepLog, now, ex, late>>

-----------------------------------------------------------------------------

\* runner.Outcome, with the Signalled that answers a cancellation told apart.
Outcomes == {"Succeeded", "Failed", "TimedOut", "SpawnFailed", "Signalled", "Cancelled"}

\* ExecuteRun has returned without an error, or with one, or never will.
Gone == {"returned", "error", "dead"}

Steady == {"claim", "loop", "observe", "pick", "wait", "sleep", "read", "start",
           "launch", "spawn", "process", "record", "pending", "skip", "finish"}

ExecRow == [pc : {"idle"} \union Steady \union Gone, run : Run \union {NULL},
            deadline : Time,           \* the run's budget ends here
            step : Step \union {NULL}, \* the step in hand
            attempt : Nat,             \* before.Attempt + 1
            left : Int,                \* the timeout the process is to be given
            end : Time,                \* when `left` was read; then when the process
                                       \* is timed out, or the sleep ends
            hit : BOOLEAN,             \* runDeadlineHit
            killed : BOOLEAN,          \* the poll cancelled the process' context
            outcome : Outcomes \union {NULL},
            finished : Time,           \* result.FinishedAt
            skips : SUBSET Step,       \* PendingSteps, what is left of it
            timedOut : BOOLEAN,
            reason : Code \union {NULL}]

Idle == [pc |-> "idle", run |-> NULL, deadline |-> NULL, step |-> NULL, attempt |-> 0,
         left |-> 0, end |-> NULL, hit |-> FALSE, killed |-> FALSE, outcome |-> NULL,
         finished |-> NULL, skips |-> {}, timedOut |-> FALSE, reason |-> NULL]

ETypeOK ==
    /\ TypeOK
    /\ ex \in [Exec -> ExecRow]
    /\ late \in [Run -> Nat]

EInit ==
    /\ Init
    /\ ex = [e \in Exec |-> Idle]
    /\ late = [r \in Run |-> 0]

\* Executor e moves from one program point to another.
Goto(e, from, to) ==
    /\ ex[e].pc = from
    /\ ex' = [ex EXCEPT ![e].pc = to]

\* The locals of one iteration of the loop go out of scope.
BackTo(e, pc) == [ex[e] EXCEPT !.pc = pc, !.step = NULL, !.attempt = 0, !.left = 0,
                    !.end = NULL, !.hit = FALSE, !.killed = FALSE, !.outcome = NULL, !.finished = NULL]

-----------------------------------------------------------------------------
(* ExecuteRun up to its loop *)

\* GetRun and frozenSpec, then the deadline: before the claim.
Begin(e, r) ==
    /\ ex[e].pc = "idle" /\ Exists(r)
    /\ ex' = [ex EXCEPT ![e] = [Idle EXCEPT
                !.pc = "claim", !.run = r,
                !.deadline = IF JobTimeout > 0 THEN now + JobTimeout ELSE NULL]]
    /\ UNCHANGED <<vars, late>>

Claim(e) ==
    /\ ex[e].pc = "claim"
    /\ ClaimRun(ex[e].run, OwnerOf[e], "RUN_CANCELLED_MANUAL", "STEP_CANCELLED")
    /\ ex' = [ex EXCEPT ![e].pc =
                IF runs'[ex[e].run].state = "cancelled" THEN "returned" ELSE "loop"]
    /\ UNCHANGED late

\* Mutant: an executor that was refused goes on.
ClaimRefusalIgnored(e) ==
    /\ Goto(e, "claim", "loop")
    /\ RunRefuses(runs[ex[e].run].state, "claim", ClaimGuards(ex[e].run))
    /\ UNCHANGED <<vars, late>>

\* ErrNotClaimable: somebody else has the run, or it has ended.
ClaimRefused(e) ==
    /\ Goto(e, "claim", "error")
    /\ RunRefuses(runs[ex[e].run].state, "claim", ClaimGuards(ex[e].run))
    /\ UNCHANGED <<vars, late>>

-----------------------------------------------------------------------------
(* The loop: between steps, nothing is running *)

CheckCancel(e) ==
    /\ Goto(e, "loop", IF CancelRequested(ex[e].run) THEN "observe" ELSE "pick")
    /\ UNCHANGED <<vars, late>>

ObserveCancel(e) ==
    /\ Goto(e, "observe", "returned")
    /\ ObserveRunCancel(ex[e].run, OwnerOf[e], "RUN_CANCELLED_MANUAL", "STEP_CANCELLED")
    /\ UNCHANGED late

\* ErrStaleLease.
ObserveRefused(e) ==
    /\ Goto(e, "observe", "error")
    /\ RunRefuses(runs[ex[e].run].state, "cancel_observed",
                  CancelGuards(ex[e].run, OwnerOf[e], "RUN_CANCELLED_MANUAL"))
    /\ UNCHANGED <<vars, late>>

PickStep(e) ==
    /\ ex[e].pc = "pick"
    /\ \/ \E s \in Step :
            /\ IsNextRunnable(ex[e].run, s)
            /\ ex' = [ex EXCEPT ![e].pc = "read", ![e].step = s]
       \/ Runnable(ex[e].run) = {} /\ Goto(e, "pick", "wait")
    /\ UNCHANGED <<vars, late>>

\* Mutant: a parked retry is taken for the end.
NoRetryWait(e) ==
    /\ Goto(e, "wait", "pending")
    /\ UNCHANGED <<vars, late>>

\* NextRetryWait: sleep until the soonest retry, or leave the loop.
RetryWait(e) ==
    /\ ex[e].pc = "wait"
    /\ \/ \E t \in {steps[ex[e].run][s].nextAt : s \in Parked(ex[e].run)} :
            /\ IsRetryDue(ex[e].run, t)
            /\ ex' = [ex EXCEPT ![e].pc = "sleep", ![e].end = t]
       \/ Parked(ex[e].run) = {} /\ Goto(e, "wait", "pending")
    /\ UNCHANGED <<vars, late>>

Wake(e) ==
    /\ ex[e].pc = "sleep" /\ ex[e].end <= now
    /\ ex' = [ex EXCEPT ![e] = BackTo(e, "loop")]
    /\ UNCHANGED <<vars, late>>

-----------------------------------------------------------------------------
(* runStep *)

\* GetRun again, for the attempt number and the budget.
ReadStep(e) ==
    /\ ex[e].pc = "read"
    /\ ex' = [ex EXCEPT ![e].pc = "start",
                        ![e].attempt = steps[ex[e].run][ex[e].step].attempt + 1]
    /\ UNCHANGED <<vars, late>>

Start(e) ==
    /\ Goto(e, "start", "launch")
    /\ StartStep(ex[e].run, ex[e].step)
    /\ late' = [late EXCEPT ![ex[e].run] = IF CancelRequested(ex[e].run) THEN @ + 1 ELSE @]

\* min(step timeout, what is left of the run's budget), which may be nothing.
TimeLeft(e) == IF ex[e].deadline = NULL THEN StepTimeout
               ELSE IF ex[e].deadline < now + StepTimeout THEN ex[e].deadline - now
                                                         ELSE StepTimeout
DeadlineHit(e) == ex[e].deadline # NULL /\ ex[e].deadline < now + StepTimeout

\* The log is open and the time left is read from the clock.
ReadBudget(e) ==
    /\ ex[e].pc = "launch"
    /\ ex' = [ex EXCEPT ![e].pc = "spawn", ![e].left = TimeLeft(e),
                        ![e].end = now, ![e].hit = DeadlineHit(e)]
    /\ UNCHANGED <<vars, late>>

\* runner.Run gets past validate and the process exists.  Its timer was armed
\* with the time left at some instant since that was read, so the process may be
\* given more than its run has left by then.
Launch(e) ==
    /\ ex[e].pc = "spawn" /\ ex[e].left > 0 /\ ~ex[e].killed
    /\ \E armed \in 0..now :
        /\ ex[e].end <= armed
        /\ ex' = [ex EXCEPT ![e].pc = "process", ![e].left = 0,
                            ![e].end = armed + ex[e].left]
    /\ UNCHANGED <<vars, late>>

\* SpawnFailed: a result like any other, with no finish time of its own.
\* Start also refuses a context the poll has cancelled.
SpawnFails(e) ==
    /\ ex[e].pc = "spawn" /\ ex[e].left > 0
    /\ ex' = [ex EXCEPT ![e].pc = "record", ![e].left = 0, ![e].end = NULL,
                        ![e].outcome = "SpawnFailed"]
    /\ UNCHANGED <<vars, late>>

\* ErrInvalidSpec: a timeout that is not positive, after StartStep committed.
LaunchRefused(e) ==
    /\ Goto(e, "spawn", "error")
    /\ ex[e].left <= 0
    /\ UNCHANGED <<vars, late>>

\* The poll, which runs from before runner.Run, sees the request and cancels the
\* context.
PollCancel(e) ==
    /\ ex[e].pc \in {"spawn", "process"} /\ ~ex[e].killed /\ CancelRequested(ex[e].run)
    /\ ex' = [ex EXCEPT ![e].killed = TRUE]
    /\ UNCHANGED <<vars, late>>

\* How the process ends, as classify reports it.  An exit status wins over
\* everything.  A signal is the deadline's from its instant on, ours after
\* the poll, or somebody else's; at the boundary the goroutines race.
MayEndAs(e, outcome) ==
    \/ outcome \in {"Succeeded", "Failed"}
    \/ outcome = "TimedOut"  /\ ex[e].end <= now
    \/ outcome = "Cancelled" /\ ex[e].killed
    \/ outcome = "Signalled" /\ ~ex[e].killed

ProcessEnds(e, outcome) ==
    /\ ex[e].pc = "process" /\ MayEndAs(e, outcome)
    /\ ex' = [ex EXCEPT ![e].pc = "record", ![e].outcome = outcome, ![e].finished = now]
    /\ UNCHANGED <<vars, late>>

\* verdictFor: the step machine's event and the reason code of an outcome.
VerdictFor(outcome) ==
    CASE outcome = "Succeeded"   -> [event |-> "step_succeeded",  code |-> "STEP_SUCCEEDED"]
      [] outcome = "Failed"      -> [event |-> "step_failed",     code |-> "STEP_FAILED_NONZERO_EXIT"]
      [] outcome = "TimedOut"    -> [event |-> "step_failed",     code |-> "STEP_FAILED_TIMEOUT"]
      [] outcome = "Signalled"   -> [event |-> "step_failed",     code |-> "STEP_FAILED_SIGNAL"]
      [] outcome = "SpawnFailed" -> [event |-> "step_failed",     code |-> "STEP_FAILED_SPAWN"]
      [] outcome = "Cancelled"   -> [event |-> "cancel_observed", code |-> "STEP_CANCELLED"]

\* A step killed by the run's own budget.
SpentRunBudget(e) == ex[e].outcome = "TimedOut" /\ ex[e].hit

\* The verdict and, for a failed attempt under a retry budget, either the plan
\* for the next one or the code that says the last one is spent.
Record(e, delay) ==
    LET v == VerdictFor(ex[e].outcome)
        budget == Budget[ex[e].step]
        retries == v.event = "step_failed" /\ ~SpentRunBudget(e) /\ budget > 1
        planned == retries /\ ex[e].attempt < budget
        finished == IF ex[e].finished = NULL THEN now ELSE ex[e].finished
    IN  /\ ex[e].pc = "record"
        /\ RecordStepOutcome(ex[e].run, ex[e].step, v.event,
               IF retries /\ ~planned THEN "STEP_RETRIES_EXHAUSTED" ELSE v.code,
               IF planned THEN finished + delay ELSE finished,
               IF planned THEN "STEP_RETRY_SCHEDULED" ELSE NULL)
        /\ ex' = [ex EXCEPT ![e] =
                    IF SpentRunBudget(e)
                    THEN [BackTo(e, "pending") EXCEPT !.timedOut = TRUE]
                    ELSE BackTo(e, "loop")]
        /\ UNCHANGED late

-----------------------------------------------------------------------------
(* After the loop *)

\* Mutant: nothing is skipped.
ReadNothing(e) ==
    /\ ex[e].pc = "pending"
    /\ ex' = [ex EXCEPT ![e].pc = "skip", ![e].skips = {}]
    /\ UNCHANGED <<vars, late>>

\* skipPending reads the list, then records one skip per transaction.
ReadPending(e) ==
    /\ ex[e].pc = "pending"
    /\ ex' = [ex EXCEPT ![e].pc = "skip", ![e].skips = StepsIn(ex[e].run, {"pending"})]
    /\ UNCHANGED <<vars, late>>

SkipStep(e, s) ==
    /\ ex[e].pc = "skip" /\ s \in ex[e].skips /\ \A q \in ex[e].skips : s <= q
    /\ RecordStepOutcome(ex[e].run, s, "upstream_failed",
                         "STEP_SKIPPED_UPSTREAM_FAILED", now, NULL)
    /\ ex' = [ex EXCEPT ![e].skips = @ \ {s}]
    /\ UNCHANGED late

\* Mutant: the last step decides.
LastStepIs(e, state) ==
    \E s \in StepsIn(ex[e].run, {state}) : \A q \in Step : q <= s

\* The first step, in index order, that failed or was cancelled is in `state`.
FirstEndedIs(e, state) ==
    \E s \in StepsIn(ex[e].run, {state}) :
        \A q \in StepsIn(ex[e].run, {"failed", "cancelled"}) : s <= q

\* finishReason: from a snapshot of its own, before the finishing transaction.
FinishReason(e) ==
    /\ ex[e].pc = "skip" /\ ex[e].skips = {}
    /\ ex' = [ex EXCEPT ![e].pc = "finish", ![e].reason =
                IF ex[e].timedOut THEN "RUN_TIMED_OUT"
                ELSE IF FirstEndedIs(e, "failed") THEN "RUN_FAILED_STEP"
                ELSE IF FirstEndedIs(e, "cancelled") THEN "RUN_CANCELLED_MANUAL"
                ELSE "RUN_SUCCEEDED"]
    /\ UNCHANGED <<vars, late>>

Finish(e) ==
    /\ Goto(e, "finish", "returned")
    /\ FinishRun(ex[e].run, OwnerOf[e], ex[e].reason)
    /\ UNCHANGED late

\* ErrStaleLease.
FinishRefused(e) ==
    /\ Goto(e, "finish", "error")
    /\ RunRefuses(runs[ex[e].run].state, "all_steps_done",
                  FinishGuards(ex[e].run, OwnerOf[e], ex[e].reason))
    /\ UNCHANGED <<vars, late>>

-----------------------------------------------------------------------------
(* What the executor does not decide *)

\* The executor stops between two transactions: the machine or the process
\* dies, the second interrupt cancels its context (every later call on the
\* store then fails), or the log file cannot be opened or closed.
Die(e) ==
    /\ MayDie /\ ex[e].pc \in Steady
    /\ ex' = [ex EXCEPT ![e] = [BackTo(e, "dead") EXCEPT !.skips = {}]]
    /\ UNCHANGED <<vars, late>>

\* MaterializeManualTrigger: available at once, no concurrency key.
Materialize(r) ==
    /\ CreateRunWithSteps(r, NULL, now, FALSE)
    /\ UNCHANGED <<ex, late>>

\* The first interrupt, or another person.
Interrupt(r, a) ==
    /\ RequestCancel(r, a)
    /\ UNCHANGED <<ex, late>>

\* An executor that waits for the clock: parked on a retry, or on a process
\* that is not timed out yet.
Waiting(e) == ex[e].pc \in {"sleep", "process"} /\ ex[e].end > now

EngineTick ==
    /\ \/ SlowStore
       \/ /\ \A e \in Exec : Waiting(e) \/ ex[e].pc \in Gone \union {"idle"}
          /\ \E e \in Exec : Waiting(e)
    /\ Tick
    /\ UNCHANGED <<ex, late>>

-----------------------------------------------------------------------------

\* What an executor does on its own account.
Advance(e) ==
    \/ Claim(e) \/ ClaimRefused(e)
    \/ CheckCancel(e) \/ ObserveCancel(e) \/ ObserveRefused(e)
    \/ PickStep(e) \/ RetryWait(e) \/ Wake(e)
    \/ ReadStep(e) \/ Start(e)
    \/ ReadBudget(e) \/ Launch(e) \/ SpawnFails(e) \/ LaunchRefused(e)
    \/ PollCancel(e)
    \/ \E delay \in Delays : Record(e, delay)
    \/ ReadPending(e) \/ (\E s \in Step : SkipStep(e, s))
    \/ FinishReason(e) \/ Finish(e) \/ FinishRefused(e)

ENext ==
    \/ EngineTick
    \/ \E r \in Run : Materialize(r) \/ \E a \in Actor : Interrupt(r, a)
    \/ \E e \in Exec :
        \/ \E r \in Run : Begin(e, r)
        \/ Advance(e)
        \/ \E outcome \in Outcomes : ProcessEnds(e, outcome)
        \/ Die(e)

ESpec == EInit /\ [][ENext]_evars

\* Fairness.  An executor that can take its next step takes it, a process ends
\* at the latest when its timeout has passed (TERM, then KILL after the grace
\* period), and the clock advances.  Requests, process exits before the timeout
\* and crashes are never obliged to happen.
FairESpec ==
    /\ ESpec
    /\ WF_evars(EngineTick)
    /\ \A e \in Exec :
        /\ WF_evars(Advance(e))
        /\ WF_evars(ex[e].pc = "process" /\ ex[e].end <= now /\ ProcessEnds(e, "TimedOut"))

-----------------------------------------------------------------------------
(* Properties *)

\* I2: nothing is open under a finished run.  The store does not ensure this by
\* itself (ObserveRunCancel leaves running steps to its caller); the engine's
\* order of transactions does.
NothingOpenUnderEndedRun ==
    \A r \in Run : runs[r].state \in RunTerminal => AllStepsTerminal(r)

\* The process runs strictly between two transactions: while it lives, its
\* step is recorded as running, in the attempt it was told, under a running run
\* its executor owns, and no other executor runs anything for that run.
ProcessIsAccountedFor ==
    \A e \in Exec : ex[e].pc = "process" =>
        /\ runs[ex[e].run].state = "running" /\ runs[ex[e].run].owner = OwnerOf[e]
        /\ StepsIn(ex[e].run, {"running"}) = {ex[e].step}
        /\ steps[ex[e].run][ex[e].step].attempt = ex[e].attempt
        /\ \A f \in Exec \ {e} : ex[f].run = ex[e].run => ex[f].pc # "process"

\* What the engine read before a transaction is still true inside it: a call on
\* the store is refused for a lost claim or a lost lease, and for nothing else.
NoSurpriseRefusal ==
    \A e \in Exec :
        /\ ex[e].pc \in {"read", "start"} => ex[e].step \in Runnable(ex[e].run)
        /\ ex[e].pc \in {"launch", "spawn", "process", "record"} =>
              steps[ex[e].run][ex[e].step].state = "running"
        /\ ex[e].pc = "skip" => ex[e].skips = StepsIn(ex[e].run, {"pending"})
        /\ ex[e].pc = "finish" => AllStepsTerminal(ex[e].run)
        /\ ex[e].pc \in Steady \ {"claim"} => runs[ex[e].run].state = "running"

\* A step that was ever started had every step it needs succeed, also when it
\* is retried, also when steps fail and are skipped around it.
StartedAfterItsNeeds ==
    \A r \in Run, s \in Step :
        steps[r][s].attempt > 0 => Needs[s] \subseteq StepsIn(r, {"succeeded"})

\* No attempt starts before the time its backoff named.
BackoffRespected ==
    [][\A r \in Run, s \in Step :
        (steps[r][s].state = "pending" /\ steps'[r][s].state = "running")
            => steps[r][s].nextAt = NULL \/ steps[r][s].nextAt <= now]_evars

\* A cancellation stops the work: after the request at most one more step
\* starts, the one whose executor had already looked.
AtMostOneLateStart == \A r \in Run : late[r] <= 1

\* An executor of the run has recorded a process its budget killed, at or after
\* the end of that budget.
BudgetSpent(r) ==
    \E e \in Exec :
        /\ ex[e].run = r /\ ex[e].timedOut
        /\ ex[e].deadline # NULL /\ ex[e].deadline <= now

\* The killed step: it was started, and has failed or, with an attempt left, was
\* put back and skipped.
KilledStep(r, s) == steps[r][s].attempt > 0 /\ steps[r][s].state \in {"failed", "skipped"}

\* The reason code, decided from a snapshot of its own, fits the verdict the
\* finishing transaction computes.  A spent budget goes with either verdict,
\* since FinishRun does not look at the code.
ReasonFitsVerdict ==
    \A r \in Run :
        LET state == runs[r].state
            reason == runs[r].reason
        IN  /\ state = "cancelled" <=> reason = "RUN_CANCELLED_MANUAL"
            /\ state \in {"succeeded", "failed"} =>
                    reason \in {"RUN_SUCCEEDED", "RUN_FAILED_STEP", "RUN_TIMED_OUT"}
            /\ reason = "RUN_SUCCEEDED" => state = "succeeded"
            /\ reason = "RUN_FAILED_STEP" => state = "failed"
            /\ reason = "RUN_TIMED_OUT" =>
                    BudgetSpent(r) /\ \E s \in Step : KilledStep(r, s)

\* A run closed because its own budget was spent has failed.
TimedOutRunFailed ==
    \A r \in Run : runs[r].reason = "RUN_TIMED_OUT" => runs[r].state = "failed"

\* A skip has a cause: a step closed as skipped because of an upstream needs one
\* that did not succeed, or the budget of its run was spent.
SkipIsCaused ==
    \A r \in Run, s \in Step :
        steps[r][s].reason = "STEP_SKIPPED_UPSTREAM_FAILED" =>
            \/ \E q \in Needs[s] : steps[r][q].state # "succeeded"
            \/ BudgetSpent(r)

\* A spent budget ends the work: no step of the run is running from then on, by
\* whichever executor.
NothingRunsPastBudget ==
    \A r \in Run : BudgetSpent(r) => StepsIn(r, {"running"}) = {}

\* A launch refused because the budget was spent before it: ExecuteRun returns an
\* error with its step still running, and nothing in the engine resumes it.
Stranded(r) ==
    \E e \in Exec :
        /\ ex[e].pc = "error" /\ ex[e].run = r /\ ex[e].step # NULL
        /\ ex[e].deadline # NULL /\ ex[e].deadline <= now

\* G5: ExecuteRun drives the run it claimed to a terminal state, unless the
\* budget is spent between the start of a step and its launch.
ClaimedRunEnds ==
    \A r \in Run :
        runs[r].state = "running" ~> runs[r].state \in RunTerminal \/ Stranded(r)

\* fsck's I10: the verdict of a run that ended on its own is the aggregate of its
\* steps' states, which FinishRun computes by another rule.  A run cancelled
\* between two steps has no such aggregate.
EndedRunIsItsAggregate ==
    \A r \in Run : runs[r].state \in {"succeeded", "failed"} =>
        runs[r].state = RunAggregate({steps[r][s].state : s \in Step})

\* A verdict agrees with its reason and with the steps it sums up, whether the
\* graph, the operator or the budget ended the run.
VerdictIsExplained == ReasonFitsVerdict /\ EndedRunIsItsAggregate

\* What runs is decided by the graph, the budget and the operator: a step starts
\* only over succeeded upstreams, is skipped as a consequence only under one that
\* did not succeed or after the budget, nothing runs after the budget, and a
\* cancellation lets at most the start pass that was under way.
StartsAreOrderly ==
    /\ StartedAfterItsNeeds /\ SkipIsCaused
    /\ NothingRunsPastBudget /\ AtMostOneLateStart

\* Whatever the two executors, the operator and the clock do between two accesses,
\* the rows say what the processes do and the executors know it.
ExecutorsAgreeWithRows ==
    /\ ETypeOK
    /\ NothingOpenUnderEndedRun /\ ProcessIsAccountedFor /\ NoSurpriseRefusal
=============================================================================
