------------------------------ MODULE RunStore ------------------------------
(***************************************************************************)
(* internal/store: the transition layer (transitions.go) and the insert    *)
(* that creates a run (runs.go).                                           *)
(*                                                                         *)
(* Every method is one BEGIN IMMEDIATE transaction, so every method is one *)
(* action here; a method that returns an error rolls back and is an action *)
(* that is not enabled.  The callers are unconstrained: any executor may   *)
(* call any method on any run in any order.  What this module shows        *)
(* therefore holds whatever the layers above do; what additionally needs   *)
(* the engine's ordering is in Engine.                                     *)
(*                                                                         *)
(* Not in the rows: timestamps nothing compares (updated_at, durations),   *)
(* texts, log facts.  A run whose row does not exist is "absent".          *)
(***************************************************************************)
EXTENDS RunModel, Naturals, Sequences

CONSTANTS
    Run,        \* run ids
    Step,       \* the steps of the job, each named by its idx
    Needs,      \* step_deps: the steps a step depends on
    Budget,     \* max_attempts of a step
    Owner,      \* names executors claim leases under
    Actor,      \* people and tools that request cancellations
    Key,        \* concurrency keys
    Code,       \* reason codes
    NULL,       \* SQL's NULL, and Go's zero value standing for it
    TTL,        \* lease duration, in ticks
    Times,      \* bound: the times callers name for a hold or a retry
    MaxTime     \* bound: the clock stops here

ASSUME StepAssumption   == Step # {} /\ Step \subseteq Nat
ASSUME NeedsAssumption  == Needs \in [Step -> SUBSET Step]
ASSUME BudgetAssumption == Budget \in [Step -> Nat \ {0}]
ASSUME TimeAssumption   == TTL \in Nat \ {0} /\ MaxTime \in Nat /\ Times \subseteq Nat
ASSUME NullAssumption   == NULL \notin Nat \union Owner \union Actor \union Key \union Code

VARIABLES
    runs,       \* the runs table
    steps,      \* the steps table
    runLog,     \* run_events with step_name NULL, per run
    stepLog,    \* run_events with a step_name, per run and step
    now         \* the store's clock

vars == <<runs, steps, runLog, stepLog, now>>

-----------------------------------------------------------------------------
(* Rows *)

Time == Nat \union {NULL}

RunRow == [state : RunStates \union {"absent"}, key : Key \union {NULL},
           availableAt : Nat, owner : Owner \union {NULL}, epoch : Nat,
           expires : Time, cancelBy : Actor \union {NULL},
           reason : Code \union {NULL}]

StepRow == [state : StepStates, attempt : Nat, nextAt : Time,
            reason : Code \union {NULL}]

EventRow == [from : RunStates \union StepStates \union {NULL},
             to : RunStates \union StepStates]

TypeOK ==
    /\ runs \in [Run -> RunRow]
    /\ steps \in [Run -> [Step -> StepRow]]
    /\ runLog \in [Run -> Seq(EventRow)]
    /\ stepLog \in [Run -> [Step -> Seq(EventRow)]]
    /\ now \in Nat

AbsentRun == [state |-> "absent", key |-> NULL, availableAt |-> 0, owner |-> NULL,
              epoch |-> 0, expires |-> NULL, cancelBy |-> NULL, reason |-> NULL]

NewStep == [state |-> "pending", attempt |-> 0, nextAt |-> NULL, reason |-> NULL]

Init ==
    /\ runs = [r \in Run |-> AbsentRun]
    /\ steps = [r \in Run |-> [s \in Step |-> NewStep]]
    /\ runLog = [r \in Run |-> << >>]
    /\ stepLog = [r \in Run |-> [s \in Step |-> << >>]]
    /\ now = 0

-----------------------------------------------------------------------------
(* Reads *)

Exists(r) == runs[r].state # "absent"

CancelRequested(r) == runs[r].cancelBy # NULL

\* The guard FinishRun and ObserveRunCancel build from the row.
LeaseValid(r, o) ==
    /\ runs[r].owner = o
    /\ runs[r].expires = NULL \/ runs[r].expires > now

StepsIn(r, states) == {s \in Step : steps[r][s].state \in states}

AllStepsTerminal(r) == StepsIn(r, StepTerminal) = Step

\* Mutant: a cancelled step does not count against the run.
AnyStepFailedOnly(r) == StepsIn(r, {"failed"}) # {}
AnyStepFailed(r) == StepsIn(r, {"failed", "cancelled"}) # {}

\* Mutant: the budget counts the attempts after the first.
AttemptsLeftOffByOne(r, s) == steps[r][s].attempt <= Budget[s]
AttemptsLeft(r, s) == steps[r][s].attempt < Budget[s]

\* Mutant: the index covers queued runs only.
KeyIsFreeInQueue(key) == \A q \in Run : runs[q].key = key => runs[q].state # "queued"
\* runs_concurrency_active: no active run holds the key.
KeyIsFree(key) == \A q \in Run : runs[q].key = key => runs[q].state \notin RunActive

\* Mutant: there is no retry gate.
RunnableAtOnce(r) ==
    {s \in StepsIn(r, {"pending"}) : Needs[s] \subseteq StepsIn(r, {"succeeded"})}

\* nextRunnableStepSQL without its ORDER BY and LIMIT.
Runnable(r) ==
    {s \in StepsIn(r, {"pending"}) :
        /\ steps[r][s].nextAt = NULL \/ steps[r][s].nextAt <= now
        /\ Needs[s] \subseteq StepsIn(r, {"succeeded"})}

\* nextRunnableStepSQL: the lowest idx.
IsNextRunnable(r, s) == s \in Runnable(r) /\ \A q \in Runnable(r) : s <= q

\* nextRetryWaitSQL: the parked steps, and the soonest of their times.
Parked(r) == {s \in StepsIn(r, {"pending"}) : steps[r][s].nextAt # NULL}
IsRetryDue(r, t) ==
    \E s \in Parked(r) :
        t = steps[r][s].nextAt /\ \A q \in Parked(r) : t <= steps[r][q].nextAt

-----------------------------------------------------------------------------
(* finishTransition: the row and its event are written together *)

\* The run's row becomes `row`, and one event records the move.
RunTransition(r, row) ==
    /\ runs' = [runs EXCEPT ![r] = row]
    /\ runLog' = [runLog EXCEPT ![r] =
                    Append(@, [from |-> runs[r].state, to |-> row.state])]

\* One step's row becomes `row`, and one event records the move.
StepTransition(r, s, row) ==
    /\ steps' = [steps EXCEPT ![r][s] = row]
    /\ stepLog' = [stepLog EXCEPT ![r][s] =
                    Append(@, [from |-> steps[r][s].state, to |-> row.state])]

\* Mutant: the rows move without their events.
SkipPendingStepsSilently(r, code) ==
    /\ steps' = [steps EXCEPT ![r] = [s \in Step |->
                    IF steps[r][s].state = "pending"
                    THEN [steps[r][s] EXCEPT !.state = "skipped", !.reason = code]
                    ELSE steps[r][s]]]
    /\ UNCHANGED stepLog

\* skipPendingStepsTx: every pending step leaves through the step machine,
\* each with its own event.
SkipPendingSteps(r, code) ==
    LET Skips(s) == StepMove(steps[r][s].state, "upstream_failed",
                             [NoGuards EXCEPT !.reason = (code # NULL)], "skipped")
    IN  /\ steps' = [steps EXCEPT ![r] = [s \in Step |->
                        IF Skips(s)
                        THEN [steps[r][s] EXCEPT !.state = "skipped", !.reason = code]
                        ELSE steps[r][s]]]
        /\ stepLog' = [stepLog EXCEPT ![r] = [s \in Step |->
                        IF Skips(s)
                        THEN Append(stepLog[r][s], [from |-> "pending", to |-> "skipped"])
                        ELSE stepLog[r][s]]]

-----------------------------------------------------------------------------
(* The transactions *)

\* Mutant: the event is written from the row read before the insert.
CreateRunLogsOldState(r, key, at, deferReason) ==
    /\ ~Exists(r) /\ (key # NULL => KeyIsFree(key)) /\ (at > now => deferReason)
    /\ runs' = [runs EXCEPT ![r] = [AbsentRun EXCEPT
                    !.state = "queued", !.key = key, !.availableAt = at]]
    /\ runLog' = [runLog EXCEPT ![r] = Append(@, [from |-> NULL, to |-> runs[r].state])]
    /\ UNCHANGED <<steps, stepLog, now>>

\* CreateRunWithSteps.  The partial unique index refuses a second active run
\* on one concurrency key, and a CHECK refuses a run held for the future
\* without a defer reason.
CreateRunWithSteps(r, key, at, deferReason) ==
    /\ ~Exists(r)
    /\ key # NULL => KeyIsFree(key)
    /\ at > now => deferReason
    /\ runs' = [runs EXCEPT ![r] = [AbsentRun EXCEPT
                    !.state = "queued", !.key = key, !.availableAt = at]]
    /\ runLog' = [runLog EXCEPT ![r] = Append(@, [from |-> NULL, to |-> "queued"])]
    /\ UNCHANGED <<steps, stepLog, now>>

\* The guards ClaimRun reads from the row.
ClaimGuards(r) ==
    [NoGuards EXCEPT !.available = (runs[r].availableAt <= now),
                     !.cancelRequested = CancelRequested(r),
                     !.reason = CancelRequested(r)]

\* ClaimRun.  The machine sends the run one of two ways: a run whose
\* cancellation is already requested is cancelled instead of started.
ClaimRun(r, o, manual, skipped) ==
    LET g == ClaimGuards(r)
    IN  \/ /\ RunMove(runs[r].state, "claim", g, "running")
           /\ RunTransition(r, [runs[r] EXCEPT !.state = "running", !.owner = o,
                                    !.epoch = @ + 1, !.expires = now + TTL])
           /\ UNCHANGED <<steps, stepLog, now>>
        \/ /\ RunMove(runs[r].state, "claim", g, "cancelled")
           /\ SkipPendingSteps(r, skipped)
           /\ RunTransition(r, [runs[r] EXCEPT !.state = "cancelled", !.reason = manual])
           /\ UNCHANGED now

\* Mutant: the last request stands.
RequestCancelAgain(r, a) ==
    /\ Exists(r)
    /\ runs' = [runs EXCEPT ![r].cancelBy = a]
    /\ UNCHANGED <<steps, runLog, stepLog, now>>

\* RequestCancel: durable, no state guard, no event; the first request stands.
RequestCancel(r, a) ==
    /\ Exists(r)
    /\ runs' = [runs EXCEPT ![r].cancelBy = IF @ = NULL THEN a ELSE @]
    /\ UNCHANGED <<steps, runLog, stepLog, now>>

\* Mutant: the run's state is not looked at either.
StartStepOfAnyRun(r, s) ==
    /\ StepMove(steps[r][s].state, "step_started", NoGuards, "running")
    /\ StepTransition(r, s, [steps[r][s] EXCEPT !.state = "running", !.attempt = @ + 1])
    /\ UNCHANGED <<runs, runLog, now>>

\* StartStep.  The run must be running; who holds its lease, the retry gate
\* and the dependencies are not looked at.
StartStep(r, s) ==
    /\ runs[r].state = "running"
    /\ StepMove(steps[r][s].state, "step_started", NoGuards, "running")
    /\ StepTransition(r, s, [steps[r][s] EXCEPT !.state = "running", !.attempt = @ + 1])
    /\ UNCHANGED <<runs, runLog, now>>

\* RecordStepOutcome.  Whether another attempt is left is decided from the
\* row.  `at` is the retry plan's time, or finished_at without a plan; it is
\* written only when the step goes back to pending, like `retryCode`.
RecordStepOutcome(r, s, ev, code, at, retryCode) ==
    LET row == steps[r][s]
        g == [NoGuards EXCEPT !.reason = (code # NULL),
                              !.attemptsLeft = AttemptsLeft(r, s)]
    IN  /\ Exists(r)
        /\ \E to \in StepStates :
             /\ StepMove(row.state, ev, g, to)
             /\ StepTransition(r, s, [row EXCEPT
                    !.state = to,
                    !.reason = IF to = "pending" /\ retryCode # NULL THEN retryCode ELSE code,
                    !.nextAt = IF to = "pending" THEN at ELSE NULL])
        /\ UNCHANGED <<runs, runLog, now>>

\* The guards FinishRun reads from the run's row and its steps' rows.
FinishGuards(r, o, code) ==
    [NoGuards EXCEPT !.leaseValid = LeaseValid(r, o),
                     !.allStepsTerminal = AllStepsTerminal(r),
                     !.anyStepFailed = AnyStepFailed(r),
                     !.reason = (code # NULL)]

\* Mutant: the lease is not released.
FinishRunKeepsLease(r, o, code) ==
    /\ \E to \in RunStates :
         /\ RunMove(runs[r].state, "all_steps_done", FinishGuards(r, o, code), to)
         /\ RunTransition(r, [runs[r] EXCEPT !.state = to, !.reason = code])
    /\ UNCHANGED <<steps, stepLog, now>>

\* FinishRun: the verdict is computed from the step rows in the transaction
\* that writes it, and the lease is released.
FinishRun(r, o, code) ==
    /\ \E to \in RunStates :
         /\ RunMove(runs[r].state, "all_steps_done", FinishGuards(r, o, code), to)
         /\ RunTransition(r, [runs[r] EXCEPT !.state = to, !.reason = code,
                                  !.owner = NULL, !.expires = NULL])
    /\ UNCHANGED <<steps, stepLog, now>>

\* The guards ObserveRunCancel reads from the run's row.
CancelGuards(r, o, code) ==
    [NoGuards EXCEPT !.leaseValid = LeaseValid(r, o), !.reason = (code # NULL)]

\* ObserveRunCancel: refused when nobody asked.  Steps still running are the
\* caller's to close first; only the pending ones are skipped here.
ObserveRunCancel(r, o, code, skipped) ==
    /\ CancelRequested(r)
    /\ RunMove(runs[r].state, "cancel_observed", CancelGuards(r, o, code), "cancelled")
    /\ SkipPendingSteps(r, skipped)
    /\ RunTransition(r, [runs[r] EXCEPT !.state = "cancelled", !.reason = code,
                             !.owner = NULL, !.expires = NULL])
    /\ UNCHANGED now

\* Time passes.
Tick ==
    /\ now < MaxTime
    /\ now' = now + 1
    /\ UNCHANGED <<runs, steps, runLog, stepLog>>

-----------------------------------------------------------------------------

StepEvents == {"step_succeeded", "step_failed", "cancel_observed", "upstream_failed"}

\* Any caller, any method.
Next ==
    \/ Tick
    \/ \E r \in Run :
        \/ \E key \in Key \union {NULL}, at \in Times, why \in BOOLEAN :
               CreateRunWithSteps(r, key, at, why)
        \/ \E a \in Actor : RequestCancel(r, a)
        \/ \E o \in Owner, code \in Code, skipped \in Code : ClaimRun(r, o, code, skipped)
        \/ \E s \in Step : StartStep(r, s)
        \/ \E s \in Step, ev \in StepEvents, code \in Code \union {NULL},
              at \in Times, retryCode \in Code \union {NULL} :
               RecordStepOutcome(r, s, ev, code, at, retryCode)
        \/ \E o \in Owner, code \in Code \union {NULL} : FinishRun(r, o, code)
        \/ \E o \in Owner, code \in Code \union {NULL}, skipped \in Code :
               ObserveRunCancel(r, o, code, skipped)

Spec == Init /\ [][Next]_vars

-----------------------------------------------------------------------------
(* Properties.  They hold whatever the callers do. *)

\* A log whose events follow one another, starting from `start` (a run's row
\* begins with an event, a step's row begins without one) and ending in the
\* row's state.
Chained(events, start, state) ==
    /\ \A i \in DOMAIN events :
          events[i].from = IF i = 1 THEN start ELSE events[i - 1].to
    /\ state = IF events = << >> THEN start ELSE events[Len(events)].to

\* I15 and G10: the run_events of every run and of every step form one unbroken
\* chain, and that chain ends in the state its row has now.  A row that moved
\* without its event, or an event that was written without the move, breaks it.
HistoryExplainsRows ==
    \A r \in Run :
        /\ IF Exists(r) THEN Chained(runLog[r], NULL, runs[r].state)
                        ELSE runLog[r] = << >>
        /\ \A s \in Step : Chained(stepLog[r][s], "pending", steps[r][s].state)

\* The verdict never disagrees with the steps it describes (the comment on
\* FinishRun): a succeeded run has only steps that succeeded or were skipped,
\* a failed run has nothing open and a step that failed or was cancelled.  It
\* relates a verdict to rows that other callers may go on writing.
VerdictMatchesSteps ==
    \A r \in Run :
        /\ runs[r].state = "succeeded" => StepsIn(r, {"succeeded", "skipped"}) = Step
        /\ runs[r].state = "failed" => AllStepsTerminal(r) /\ AnyStepFailed(r)

\* Lease, epoch and state tell one story (I1, I11): a run is owned exactly while
\* it is running, and no run is ever started twice, because nothing in the
\* store puts a claimed run back in the queue.
LeaseTellsOwnership ==
    \A r \in Run :
        /\ runs[r].state = "running" <=> runs[r].owner # NULL
        /\ runs[r].owner = NULL <=> runs[r].expires = NULL
        /\ runs[r].state \in {"absent", "queued"} => runs[r].epoch = 0
        /\ runs[r].epoch <= 1

\* The retry budget is exact: an attempt is spent by StartStep and only there,
\* a step never has more attempts than its budget, one that waits for another
\* attempt still has one, and only a spent budget makes a step failed.
AttemptsWithinBudget ==
    \A r \in Run, s \in Step :
        /\ steps[r][s].attempt <= Budget[s]
        /\ steps[r][s].state = "pending" => steps[r][s].attempt < Budget[s]
        /\ steps[r][s].state = "failed" => steps[r][s].attempt = Budget[s]

\* A run that was never claimed has run nothing, in particular one that was
\* cancelled in the queue ("the cheapest cancellation in the system, because
\* there is no process group to kill").
UnclaimedRanNothing ==
    \A r \in Run : runs[r].epoch = 0 =>
        \A s \in Step : /\ steps[r][s].attempt = 0
                        /\ steps[r][s].state \in {"pending", "skipped"}

\* A run nobody asked to cancel is never cancelled, whichever of the two
\* transactions that can cancel it is called (the comment on ObserveRunCancel).
CancelledOnRequest ==
    \A r \in Run : runs[r].state = "cancelled" => CancelRequested(r)

\* The partial unique index: at most one active run holds a concurrency key.
OneActiveRunPerKey ==
    \A q, r \in Run :
        (q # r /\ runs[q].key # NULL /\ runs[q].key = runs[r].key)
            => ~(runs[q].state \in RunActive /\ runs[r].state \in RunActive)

\* Nothing ends twice: whatever is called later, in whatever order, a terminal
\* run keeps its verdict and reason, a terminal step its state, its reason and
\* its attempt count, and the first cancellation request stands.
EndedIsFinal ==
    [][\A r \in Run :
        /\ runs[r].state \in RunTerminal =>
              runs'[r] = [runs[r] EXCEPT !.cancelBy = runs'[r].cancelBy]
        /\ CancelRequested(r) => runs'[r].cancelBy = runs[r].cancelBy
        /\ \A s \in Step : steps[r][s].state \in StepTerminal =>
              steps'[r][s] = steps[r][s]]_vars

-----------------------------------------------------------------------------
(* The abstract specification this module implements *)

WorkOf(step) == CASE step.state = "pending"                -> "waiting"
                  [] step.state = "running"                -> "busy"
                  [] step.state \in {"succeeded", "skipped"} -> "good"
                  [] step.state \in {"failed", "cancelled"}  -> "bad"

Life == INSTANCE RunLifecycle WITH
    status    <- [r \in Run |-> runs[r].state],
    requested <- [r \in Run |-> CancelRequested(r)],
    work      <- [r \in Run |-> [s \in Step |-> WorkOf(steps[r][s])]]

\* Every transaction is one step of a run's life, or none of its business: the
\* store's rows, guards and log never show a life RunLifecycle does not allow.
Lifecycle == Life!LifeSpec
=============================================================================
