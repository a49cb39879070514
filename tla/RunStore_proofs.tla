--------------------------- MODULE RunStore_proofs ---------------------------
(***************************************************************************)
(* Theorems about RunStore, for every set of runs, every graph of steps,   *)
(* every retry budget and every caller.                                    *)
(***************************************************************************)
EXTENDS RunStore, TLAPS

\* The transactions, without the clock: what Next offers for a run.
Transaction(r) ==
    \/ \E key \in Key \union {NULL}, at \in Times, why \in BOOLEAN :
           CreateRunWithSteps(r, key, at, why)
    \/ \E a \in Actor : RequestCancel(r, a)
    \/ \E o \in Owner, code \in Code, skipped \in Code : ClaimRun(r, o, code, skipped)
    \/ \E s \in Step : StartStep(r, s)
    \/ \E s \in Step, ev \in StepEvents, code \in Code \union {NULL},
          at \in Times, retryCode \in Code \union {NULL} :
           RecordStepOutcome(r, s, ev, code, at, retryCode)
    \/ \E o \in Owner, code \in Code \union {NULL} : FinishRun(r, o, code)
    \/ \E o \in Owner, code \in Code \union {NULL}, skipped \in Code :
           ObserveRunCancel(r, o, code, skipped)

LEMMA NextIsTickOrTransaction == Next <=> (Tick \/ \E r \in Run : Transaction(r))
  BY DEF Next, Transaction

-----------------------------------------------------------------------------
(* The machines *)

\* The run machine reaches five states and leaves the two active ones only,
\* but for an operator's retry.
LEMMA RunMoveStates ==
  ASSUME NEW cur, NEW ev, NEW g, NEW to, RunMove(cur, ev, g, to), ev # "operator_retry"
  PROVE  cur \in RunActive /\ to \in RunStates
  BY DEF RunMove, RunActive, RunTerminal, RunStates

\* The step machine leaves the two open states only.
LEMMA StepMoveStates ==
  ASSUME NEW cur, NEW ev, NEW g, NEW to, StepMove(cur, ev, g, to)
  PROVE  cur \in StepOpen /\ to \in StepStates
  BY DEF StepMove, StepOpen, StepTerminal, StepStates

-----------------------------------------------------------------------------
(* Types *)

\* A log grows by one well-formed event.
LEMMA LogGrows ==
  ASSUME NEW log \in Seq(EventRow), NEW from \in RunStates \union StepStates \union {NULL},
         NEW to \in RunStates \union StepStates
  PROVE  Append(log, [from |-> from, to |-> to]) \in Seq(EventRow)
<1>1. [from |-> from, to |-> to] \in EventRow
  BY DEF EventRow
<1> QED BY <1>1

\* A row written through finishTransition keeps the tables' types.
LEMMA RunTransitionType ==
  ASSUME TypeOK, NEW r \in Run, NEW row \in RunRow,
         row.state \in RunStates, runs[r].state \in RunStates, RunTransition(r, row)
  PROVE  runs' \in [Run -> RunRow] /\ runLog' \in [Run -> Seq(EventRow)]
<1>1. Append(runLog[r], [from |-> runs[r].state, to |-> row.state]) \in Seq(EventRow)
  BY LogGrows DEF TypeOK
<1> QED BY <1>1 DEF TypeOK, RunTransition

LEMMA StepTransitionType ==
  ASSUME TypeOK, NEW r \in Run, NEW s \in Step, NEW row \in StepRow,
         StepTransition(r, s, row)
  PROVE  steps' \in [Run -> [Step -> StepRow]] /\ stepLog' \in [Run -> [Step -> Seq(EventRow)]]
<1>0. steps[r] \in [Step -> StepRow] /\ stepLog[r] \in [Step -> Seq(EventRow)]
  BY DEF TypeOK
<1>1. Append(stepLog[r][s], [from |-> steps[r][s].state, to |-> row.state]) \in Seq(EventRow)
  BY <1>0, LogGrows DEF StepRow
<1>2. steps' = [steps EXCEPT ![r] = [steps[r] EXCEPT ![s] = row]]
  BY DEF StepTransition
<1>3. stepLog' = [stepLog EXCEPT ![r] = [stepLog[r] EXCEPT ![s] =
                     Append(stepLog[r][s], [from |-> steps[r][s].state, to |-> row.state])]]
  BY DEF StepTransition
<1>4. [steps[r] EXCEPT ![s] = row] \in [Step -> StepRow]
  BY <1>0
<1>5. [stepLog[r] EXCEPT ![s] =
          Append(stepLog[r][s], [from |-> steps[r][s].state, to |-> row.state])]
        \in [Step -> Seq(EventRow)]
  BY <1>0, <1>1
<1> QED BY <1>2, <1>3, <1>4, <1>5 DEF TypeOK

LEMMA SkipPendingStepsType ==
  ASSUME TypeOK, NEW r \in Run, NEW code \in Code, SkipPendingSteps(r, code)
  PROVE  steps' \in [Run -> [Step -> StepRow]] /\ stepLog' \in [Run -> [Step -> Seq(EventRow)]]
<1>0. steps[r] \in [Step -> StepRow] /\ stepLog[r] \in [Step -> Seq(EventRow)]
  BY DEF TypeOK
<1>1. ASSUME NEW s \in Step
      PROVE  /\ [steps[r][s] EXCEPT !.state = "skipped", !.reason = code] \in StepRow
             /\ Append(stepLog[r][s], [from |-> "pending", to |-> "skipped"]) \in Seq(EventRow)
  BY <1>0, LogGrows DEF StepRow, StepStates, StepOpen, StepTerminal
<1>2. PICK skips \in [Step -> BOOLEAN] :
        /\ steps' = [steps EXCEPT ![r] = [s \in Step |->
              IF skips[s] THEN [steps[r][s] EXCEPT !.state = "skipped", !.reason = code]
                          ELSE steps[r][s]]]
        /\ stepLog' = [stepLog EXCEPT ![r] = [s \in Step |->
              IF skips[s] THEN Append(stepLog[r][s], [from |-> "pending", to |-> "skipped"])
                          ELSE stepLog[r][s]]]
  <2> DEFINE Skips(s) == StepMove(steps[r][s].state, "upstream_failed",
                             [NoGuards EXCEPT !.reason = (code # NULL)], "skipped")
             skips == [s \in Step |-> Skips(s)]
  <2>1. \A s \in Step : skips[s] = Skips(s) /\ Skips(s) \in BOOLEAN
    BY DEF StepMove
  <2> QED BY <2>1 DEF SkipPendingSteps
<1>3. [s \in Step |->
         IF skips[s] THEN [steps[r][s] EXCEPT !.state = "skipped", !.reason = code]
                     ELSE steps[r][s]] \in [Step -> StepRow]
  BY <1>0, <1>1
<1>4. [s \in Step |->
         IF skips[s] THEN Append(stepLog[r][s], [from |-> "pending", to |-> "skipped"])
                     ELSE stepLog[r][s]] \in [Step -> Seq(EventRow)]
  BY <1>0, <1>1
<1> QED BY <1>2, <1>3, <1>4 DEF TypeOK

LEMMA TypeInit == Init => TypeOK
  BY NullAssumption DEF Init, TypeOK, AbsentRun, NewStep, RunRow, StepRow, Time,
     StepStates, StepOpen, StepTerminal

LEMMA TypeStep == TypeOK /\ [Next]_vars => TypeOK'
<1> SUFFICES ASSUME TypeOK, [Next]_vars PROVE TypeOK'
  OBVIOUS
<1>1. CASE UNCHANGED vars
  BY <1>1 DEF TypeOK, vars
<1>2. CASE Tick
  BY <1>2 DEF TypeOK, Tick
<1>3. ASSUME NEW r \in Run, Transaction(r) PROVE TypeOK'
  <2>0. runs[r] \in RunRow /\ now \in Nat /\ steps[r] \in [Step -> StepRow]
    BY DEF TypeOK
  <2>00. runs[r].epoch + 1 \in Nat /\ now + TTL \in Nat
    BY <2>0, TimeAssumption DEF RunRow
  <2>1. ASSUME NEW key \in Key \union {NULL}, NEW at \in Times, NEW why \in BOOLEAN,
               CreateRunWithSteps(r, key, at, why)
        PROVE  TypeOK'
    <3> DEFINE row == [AbsentRun EXCEPT !.state = "queued", !.key = key, !.availableAt = at]
    <3>1. row \in RunRow
      BY TimeAssumption DEF AbsentRun, RunRow, Time, RunStates, RunActive
    <3>2. Append(runLog[r], [from |-> NULL, to |-> "queued"]) \in Seq(EventRow)
      BY LogGrows DEF TypeOK, RunStates, RunActive
    <3> QED BY <2>1, <3>1, <3>2 DEF TypeOK, CreateRunWithSteps
  <2>2. ASSUME NEW a \in Actor, RequestCancel(r, a) PROVE TypeOK'
    <3>1. \A by \in Actor \union {NULL} : [runs[r] EXCEPT !.cancelBy = by] \in RunRow
      BY <2>0 DEF RunRow
    <3>2. runs' = [runs EXCEPT ![r] = [runs[r] EXCEPT !.cancelBy = IF @ = NULL THEN a ELSE @]]
      BY <2>2 DEF RequestCancel
    <3>3. (IF runs[r].cancelBy = NULL THEN a ELSE runs[r].cancelBy) \in Actor \union {NULL}
      BY <2>0 DEF RunRow
    <3> QED BY <2>2, <3>1, <3>2, <3>3 DEF TypeOK, RequestCancel
  <2>3. ASSUME NEW o \in Owner, NEW code \in Code, NEW skipped \in Code,
               ClaimRun(r, o, code, skipped)
        PROVE  TypeOK'
    <3>1. runs[r].state \in RunStates
      BY <2>3 DEF ClaimRun, RunMove, RunStates, RunActive
    <3>2. CASE /\ RunTransition(r, [runs[r] EXCEPT !.state = "running", !.owner = o,
                                        !.epoch = @ + 1, !.expires = now + TTL])
               /\ UNCHANGED <<steps, stepLog, now>>
      <4>1. [runs[r] EXCEPT !.state = "running", !.owner = o,
                 !.epoch = @ + 1, !.expires = now + TTL] \in RunRow
        BY <2>0, <2>00 DEF RunRow, Time, RunStates, RunActive
      <4> QED BY <3>1, <3>2, <4>1, RunTransitionType DEF TypeOK, RunStates, RunActive, RunRow
    <3>3. CASE /\ SkipPendingSteps(r, skipped)
               /\ RunTransition(r, [runs[r] EXCEPT !.state = "cancelled", !.reason = code])
               /\ UNCHANGED now
      <4>1. [runs[r] EXCEPT !.state = "cancelled", !.reason = code] \in RunRow
        BY <2>0 DEF RunRow, RunStates, RunTerminal
      <4> QED BY <3>1, <3>3, <4>1, RunTransitionType, SkipPendingStepsType
              DEF TypeOK, RunStates, RunTerminal, RunRow
    <3> QED BY <2>3, <3>2, <3>3 DEF ClaimRun
  <2>4. ASSUME NEW s \in Step, StartStep(r, s) PROVE TypeOK'
    <3>1. [steps[r][s] EXCEPT !.state = "running", !.attempt = @ + 1] \in StepRow
      <4>1. steps[r][s] \in StepRow /\ steps[r][s].attempt + 1 \in Nat
        BY <2>0 DEF StepRow
      <4> QED BY <4>1 DEF StepRow, StepStates, StepOpen
    <3> QED BY <2>4, <3>1, StepTransitionType DEF TypeOK, StartStep
  <2>5. ASSUME NEW s \in Step, NEW ev \in StepEvents, NEW code \in Code \union {NULL},
               NEW at \in Times, NEW retryCode \in Code \union {NULL},
               RecordStepOutcome(r, s, ev, code, at, retryCode)
        PROVE  TypeOK'
    <3>1. ASSUME NEW to \in StepStates
          PROVE  [steps[r][s] EXCEPT
                    !.state = to,
                    !.reason = IF to = "pending" /\ retryCode # NULL THEN retryCode ELSE code,
                    !.nextAt = IF to = "pending" THEN at ELSE NULL] \in StepRow
      BY <2>0, TimeAssumption DEF StepRow, Time
    <3> QED BY <2>5, <3>1, StepTransitionType DEF TypeOK, RecordStepOutcome
  <2>6. ASSUME NEW o \in Owner, NEW code \in Code \union {NULL}, FinishRun(r, o, code)
        PROVE  TypeOK'
    <3>1. runs[r].state \in RunStates
      BY <2>6 DEF FinishRun, RunMove, RunStates, RunActive
    <3>2. ASSUME NEW to \in RunStates
          PROVE  [runs[r] EXCEPT !.state = to, !.reason = code,
                      !.owner = NULL, !.expires = NULL] \in RunRow
      BY <2>0 DEF RunRow, Time
    <3> QED BY <2>6, <3>1, <3>2, RunTransitionType DEF TypeOK, FinishRun, RunRow
  <2>7. ASSUME NEW o \in Owner, NEW code \in Code \union {NULL}, NEW skipped \in Code,
               ObserveRunCancel(r, o, code, skipped)
        PROVE  TypeOK'
    <3>1. runs[r].state \in RunStates
      BY <2>7 DEF ObserveRunCancel, RunMove, RunStates, RunActive
    <3>2. [runs[r] EXCEPT !.state = "cancelled", !.reason = code,
               !.owner = NULL, !.expires = NULL] \in RunRow
      BY <2>0 DEF RunRow, Time, RunStates, RunTerminal
    <3> QED BY <2>7, <3>1, <3>2, RunTransitionType, SkipPendingStepsType
            DEF TypeOK, ObserveRunCancel, RunStates, RunTerminal, RunRow
  <2> QED BY <1>3, <2>1, <2>2, <2>3, <2>4, <2>5, <2>6, <2>7 DEF Transaction
<1> QED BY <1>1, <1>2, <1>3, NextIsTickOrTransaction

\* The tables hold what their columns allow, whatever is called in whatever
\* order.
THEOREM TypeCorrect == Spec => []TypeOK
<1>1. Init => TypeOK
  BY TypeInit
<1>2. TypeOK /\ [Next]_vars => TypeOK'
  BY TypeStep
<1> QED BY <1>1, <1>2, PTL DEF Spec

-----------------------------------------------------------------------------
(* What a transaction may do to one run's row, and to one step's row *)

Created(r) ==
    /\ runs[r].state = "absent" /\ runs'[r].state = "queued"
    /\ runs'[r].epoch = 0 /\ runs'[r].owner = NULL /\ runs'[r].expires = NULL
    /\ runs'[r].cancelBy = NULL /\ runs'[r].key \in Key \union {NULL}
    /\ runs'[r].key # NULL => KeyIsFree(runs'[r].key)

Requested(r) ==
    /\ Exists(r)
    /\ \E by \in Actor : runs'[r] = [runs[r] EXCEPT !.cancelBy = by]
    /\ CancelRequested(r) => runs'[r] = runs[r]

\* The columns that only CreateRunWithSteps and RequestCancel write.
KeepsIdentity(r) == runs'[r].key = runs[r].key /\ runs'[r].cancelBy = runs[r].cancelBy

Claimed(r) ==
    /\ KeepsIdentity(r)
    /\ runs[r].state = "queued" /\ ~CancelRequested(r) /\ runs'[r].state = "running"
    /\ runs'[r].epoch = runs[r].epoch + 1
    /\ runs'[r].owner \in Owner /\ runs'[r].expires \in Nat

CancelledInQueue(r) ==
    /\ KeepsIdentity(r)
    /\ runs[r].state = "queued" /\ CancelRequested(r) /\ runs'[r].state = "cancelled"
    /\ runs'[r].epoch = runs[r].epoch
    /\ runs'[r].owner = runs[r].owner /\ runs'[r].expires = runs[r].expires

Released(r) ==
    /\ KeepsIdentity(r)
    /\ runs[r].state = "running"
    /\ runs'[r].epoch = runs[r].epoch /\ runs'[r].owner = NULL /\ runs'[r].expires = NULL

Concluded(r) ==
    /\ Released(r) /\ AllStepsTerminal(r)
    /\ runs'[r].state = IF AnyStepFailed(r) THEN "failed" ELSE "succeeded"
    /\ steps' = steps

CancelledAtWork(r) ==
    Released(r) /\ CancelRequested(r) /\ runs'[r].state = "cancelled"

RunMoves(r) == \/ runs'[r] = runs[r] \/ Created(r) \/ Requested(r) \/ Claimed(r)
               \/ CancelledInQueue(r) \/ Concluded(r) \/ CancelledAtWork(r)

\* A transaction touches the row of one run, and moves it one of these ways.
LEMMA RunEffect ==
  ASSUME TypeOK, NEW r \in Run, Transaction(r)
  PROVE  RunMoves(r) /\ \A q \in Run \ {r} : runs'[q] = runs[q]
<1>0. runs[r] \in RunRow /\ now \in Nat /\ runs \in [Run -> RunRow] /\ TTL \in Nat
  BY TimeAssumption DEF TypeOK
<1>1. ASSUME NEW key \in Key \union {NULL}, NEW at \in Times, NEW why \in BOOLEAN,
             CreateRunWithSteps(r, key, at, why)
      PROVE  Created(r) /\ \A q \in Run \ {r} : runs'[q] = runs[q]
  BY <1>0, <1>1 DEF CreateRunWithSteps, Created, Exists, AbsentRun
<1>2. ASSUME NEW a \in Actor, RequestCancel(r, a)
      PROVE  Requested(r) /\ \A q \in Run \ {r} : runs'[q] = runs[q]
  <2>1. runs' = [runs EXCEPT ![r] =
            [runs[r] EXCEPT !.cancelBy = IF runs[r].cancelBy = NULL THEN a ELSE runs[r].cancelBy]]
    BY <1>2 DEF RequestCancel
  <2>2. runs'[r] = [runs[r] EXCEPT !.cancelBy =
                       IF runs[r].cancelBy = NULL THEN a ELSE runs[r].cancelBy]
    BY <1>0, <2>1
  <2>3. (IF runs[r].cancelBy = NULL THEN a ELSE runs[r].cancelBy) \in Actor
    BY <1>0 DEF RunRow
  <2>4. runs[r].cancelBy # NULL => runs'[r] = runs[r]
    BY <1>0, <2>2 DEF RunRow
  <2>5. Exists(r)
    BY <1>2 DEF RequestCancel
  <2> QED BY <1>0, <2>1, <2>2, <2>3, <2>4, <2>5 DEF Requested, CancelRequested
<1>3. ASSUME NEW o \in Owner, NEW code \in Code, NEW skipped \in Code,
             ClaimRun(r, o, code, skipped)
      PROVE  (Claimed(r) \/ CancelledInQueue(r)) /\ \A q \in Run \ {r} : runs'[q] = runs[q]
  <2>1. CASE /\ RunMove(runs[r].state, "claim", ClaimGuards(r), "running")
             /\ RunTransition(r, [runs[r] EXCEPT !.state = "running", !.owner = o,
                                      !.epoch = @ + 1, !.expires = now + TTL])
    <3>1. runs[r].state = "queued" /\ ~CancelRequested(r)
      BY <2>1 DEF RunMove, ClaimGuards, NoGuards, RunTerminal
    <3>2. runs'[r] = [runs[r] EXCEPT !.state = "running", !.owner = o,
                          !.epoch = @ + 1, !.expires = now + TTL]
          /\ \A q \in Run \ {r} : runs'[q] = runs[q]
      BY <1>0, <2>1 DEF RunTransition
    <3>3. runs[r].epoch \in Nat /\ now + TTL \in Nat
      BY <1>0 DEF RunRow
    <3> QED BY <1>0, <3>1, <3>2, <3>3 DEF Claimed, KeepsIdentity, RunRow
  <2>2. CASE /\ RunMove(runs[r].state, "claim", ClaimGuards(r), "cancelled")
             /\ RunTransition(r, [runs[r] EXCEPT !.state = "cancelled", !.reason = code])
    <3>1. runs[r].state = "queued" /\ CancelRequested(r)
      BY <2>2 DEF RunMove, ClaimGuards, NoGuards, RunTerminal
    <3>2. runs'[r] = [runs[r] EXCEPT !.state = "cancelled", !.reason = code]
          /\ \A q \in Run \ {r} : runs'[q] = runs[q]
      BY <1>0, <2>2 DEF RunTransition
    <3> QED BY <1>0, <3>1, <3>2 DEF CancelledInQueue, KeepsIdentity, RunRow
  <2> QED BY <1>3, <2>1, <2>2 DEF ClaimRun
<1>4. ASSUME NEW s \in Step, StartStep(r, s) PROVE runs' = runs
  BY <1>4 DEF StartStep
<1>5. ASSUME NEW s \in Step, NEW ev \in StepEvents, NEW code \in Code \union {NULL},
             NEW at \in Times, NEW retryCode \in Code \union {NULL},
             RecordStepOutcome(r, s, ev, code, at, retryCode)
      PROVE  runs' = runs
  BY <1>5 DEF RecordStepOutcome
<1>6. ASSUME NEW o \in Owner, NEW code \in Code \union {NULL}, FinishRun(r, o, code)
      PROVE  Concluded(r) /\ \A q \in Run \ {r} : runs'[q] = runs[q]
  <2>1. PICK to \in RunStates :
          /\ RunMove(runs[r].state, "all_steps_done", FinishGuards(r, o, code), to)
          /\ RunTransition(r, [runs[r] EXCEPT !.state = to, !.reason = code,
                                   !.owner = NULL, !.expires = NULL])
    BY <1>6 DEF FinishRun
  <2>2. /\ runs[r].state = "running" /\ AllStepsTerminal(r)
        /\ to = IF AnyStepFailed(r) THEN "failed" ELSE "succeeded"
    BY <2>1 DEF RunMove, FinishGuards, NoGuards, RunTerminal
  <2>3. runs'[r] = [runs[r] EXCEPT !.state = to, !.reason = code,
                        !.owner = NULL, !.expires = NULL]
        /\ \A q \in Run \ {r} : runs'[q] = runs[q]
    BY <1>0, <2>1 DEF RunTransition
  <2>4. steps' = steps
    BY <1>6 DEF FinishRun
  <2> QED BY <1>0, <2>2, <2>3, <2>4 DEF Concluded, Released, KeepsIdentity, RunRow
<1>7. ASSUME NEW o \in Owner, NEW code \in Code \union {NULL}, NEW skipped \in Code,
             ObserveRunCancel(r, o, code, skipped)
      PROVE  CancelledAtWork(r) /\ \A q \in Run \ {r} : runs'[q] = runs[q]
  <2>1. runs[r].state = "running" /\ CancelRequested(r)
    BY <1>7 DEF ObserveRunCancel, RunMove, RunTerminal
  <2>2. runs'[r] = [runs[r] EXCEPT !.state = "cancelled", !.reason = code,
                        !.owner = NULL, !.expires = NULL]
        /\ \A q \in Run \ {r} : runs'[q] = runs[q]
    BY <1>0, <1>7 DEF ObserveRunCancel, RunTransition
  <2> QED BY <1>0, <2>1, <2>2 DEF CancelledAtWork, Released, KeepsIdentity, RunRow
<1> QED BY <1>1, <1>2, <1>3, <1>4, <1>5, <1>6, <1>7 DEF Transaction, RunMoves

Started(r, s) ==
    /\ steps[r][s].state = "pending" /\ steps'[r][s].state = "running"
    /\ steps'[r][s].attempt = steps[r][s].attempt + 1
    /\ runs[r].state = "running" /\ runs' = runs

Retried(r, s) ==
    /\ steps[r][s].state = "running" /\ steps'[r][s].state = "pending"
    /\ steps'[r][s].attempt = steps[r][s].attempt
    /\ AttemptsLeft(r, s)
    /\ Exists(r) /\ runs' = runs

Ended(r, s) ==
    /\ steps[r][s].state = "running"
    /\ steps'[r][s].state \in {"succeeded", "failed", "cancelled"}
    /\ steps'[r][s].attempt = steps[r][s].attempt
    /\ steps'[r][s].state = "failed" => ~AttemptsLeft(r, s)
    /\ Exists(r) /\ runs' = runs

Skipped(r, s) ==
    /\ steps[r][s].state = "pending" /\ steps'[r][s].state = "skipped"
    /\ steps'[r][s].attempt = steps[r][s].attempt
    /\ Exists(r)

\* One step of r moves and nothing else does; or the run is cancelled, and every
\* pending step of it is skipped with it; or no step moves.
OneStepMoves(r) ==
    \E s \in Step :
        /\ Started(r, s) \/ Retried(r, s) \/ Ended(r, s) \/ (Skipped(r, s) /\ runs' = runs)
        /\ \A q \in Step \ {s} : steps'[r][q] = steps[r][q]

PendingStepsSkipped(r) ==
    /\ CancelledInQueue(r) \/ CancelledAtWork(r)
    /\ \A s \in Step : IF steps[r][s].state = "pending" THEN Skipped(r, s)
                                                       ELSE steps'[r][s] = steps[r][s]

StepsMove(r) == steps' = steps \/ OneStepMoves(r) \/ PendingStepsSkipped(r)

LEMMA SkipEffect ==
  ASSUME TypeOK, NEW r \in Run, Exists(r), NEW code \in Code, SkipPendingSteps(r, code)
  PROVE  /\ \A s \in Step : IF steps[r][s].state = "pending"
                            THEN Skipped(r, s) ELSE steps'[r][s] = steps[r][s]
         /\ \A q \in Run \ {r} : steps'[q] = steps[q]
<1>0. steps \in [Run -> [Step -> StepRow]] /\ code # NULL
  BY NullAssumption DEF TypeOK
<1> DEFINE Skips(s) == StepMove(steps[r][s].state, "upstream_failed",
                           [NoGuards EXCEPT !.reason = (code # NULL)], "skipped")
<1>1. ASSUME NEW s \in Step PROVE Skips(s) <=> steps[r][s].state = "pending"
  BY <1>0 DEF StepMove, NoGuards
<1>2. steps' = [steps EXCEPT ![r] = [s \in Step |->
          IF Skips(s) THEN [steps[r][s] EXCEPT !.state = "skipped", !.reason = code]
                      ELSE steps[r][s]]]
  BY DEF SkipPendingSteps
<1> HIDE DEF Skips
<1>3. ASSUME NEW s \in Step
      PROVE  steps'[r][s] = IF Skips(s)
                            THEN [steps[r][s] EXCEPT !.state = "skipped", !.reason = code]
                            ELSE steps[r][s]
  BY <1>0, <1>2
<1>4. ASSUME NEW s \in Step, steps[r][s].state = "pending" PROVE Skipped(r, s)
  <2>1. steps'[r][s] = [steps[r][s] EXCEPT !.state = "skipped", !.reason = code]
    BY <1>1, <1>3, <1>4
  <2>2. steps[r][s] \in StepRow
    BY <1>0
  <2> QED BY <1>4, <2>1, <2>2 DEF Skipped, StepRow
<1> QED BY <1>0, <1>1, <1>2, <1>3, <1>4

\* A transaction touches the steps of one run, and moves them one of these ways.
LEMMA StepEffect ==
  ASSUME TypeOK, NEW r \in Run, Transaction(r)
  PROVE  StepsMove(r) /\ \A q \in Run \ {r} : steps'[q] = steps[q]
<1>0. steps \in [Run -> [Step -> StepRow]]
  BY DEF TypeOK
<1>1. ASSUME NEW key \in Key \union {NULL}, NEW at \in Times, NEW why \in BOOLEAN,
             CreateRunWithSteps(r, key, at, why)
      PROVE  steps' = steps
  BY <1>1 DEF CreateRunWithSteps
<1>2. ASSUME NEW a \in Actor, RequestCancel(r, a) PROVE steps' = steps
  BY <1>2 DEF RequestCancel
<1>3. ASSUME NEW o \in Owner, NEW code \in Code, NEW skipped \in Code,
             ClaimRun(r, o, code, skipped)
      PROVE  StepsMove(r) /\ \A q \in Run \ {r} : steps'[q] = steps[q]
  <2>1. CASE steps' = steps
    BY <2>1 DEF StepsMove
  <2>2. CASE SkipPendingSteps(r, skipped) /\ CancelledInQueue(r)
    <3>1. Exists(r)
      BY <2>2 DEF CancelledInQueue, Exists
    <3> QED BY <2>2, <3>1, SkipEffect DEF StepsMove, PendingStepsSkipped
  <2>3. (steps' = steps) \/ (SkipPendingSteps(r, skipped) /\ CancelledInQueue(r))
    <3>1. CASE /\ RunMove(runs[r].state, "claim", ClaimGuards(r), "cancelled")
               /\ SkipPendingSteps(r, skipped)
               /\ RunTransition(r, [runs[r] EXCEPT !.state = "cancelled", !.reason = code])
      <4>1. runs[r].state = "queued" /\ CancelRequested(r)
        BY <3>1 DEF RunMove, ClaimGuards, NoGuards, RunTerminal
      <4>2. runs'[r] = [runs[r] EXCEPT !.state = "cancelled", !.reason = code]
            /\ runs[r] \in RunRow
        BY <3>1 DEF RunTransition, TypeOK
      <4> QED BY <3>1, <4>1, <4>2 DEF CancelledInQueue, KeepsIdentity, RunRow
    <3> QED BY <1>3, <3>1 DEF ClaimRun
  <2> QED BY <2>1, <2>2, <2>3
<1>4. ASSUME NEW s \in Step, StartStep(r, s)
      PROVE  StepsMove(r) /\ \A q \in Run \ {r} : steps'[q] = steps[q]
  <2>1. /\ steps[r] \in [Step -> StepRow] /\ steps[r][s] \in StepRow
        /\ steps[r][s].attempt \in Nat
    BY <1>0 DEF StepRow
  <2>2. steps' = [steps EXCEPT ![r] = [steps[r] EXCEPT ![s] =
                     [steps[r][s] EXCEPT !.state = "running",
                                         !.attempt = steps[r][s].attempt + 1]]]
    BY <1>4 DEF StartStep, StepTransition
  <2>3. steps'[r] = [steps[r] EXCEPT ![s] =
                     [steps[r][s] EXCEPT !.state = "running",
                                         !.attempt = steps[r][s].attempt + 1]]
        /\ \A q \in Run \ {r} : steps'[q] = steps[q]
    BY <1>0, <2>2
  <2>4. steps[r][s].state = "pending" /\ runs[r].state = "running" /\ runs' = runs
    BY <1>4 DEF StartStep, StepMove
  <2>5. Started(r, s) /\ \A q \in Step \ {s} : steps'[r][q] = steps[r][q]
    BY <2>1, <2>3, <2>4 DEF Started, StepRow
  <2> QED BY <2>3, <2>5 DEF StepsMove, OneStepMoves
<1>5. ASSUME NEW s \in Step, NEW ev \in StepEvents, NEW code \in Code \union {NULL},
             NEW at \in Times, NEW retryCode \in Code \union {NULL},
             RecordStepOutcome(r, s, ev, code, at, retryCode)
      PROVE  StepsMove(r) /\ \A q \in Run \ {r} : steps'[q] = steps[q]
  <2> DEFINE g == [NoGuards EXCEPT !.reason = (code # NULL), !.attemptsLeft = AttemptsLeft(r, s)]
             row(to) == [steps[r][s] EXCEPT
                    !.state = to,
                    !.reason = IF to = "pending" /\ retryCode # NULL THEN retryCode ELSE code,
                    !.nextAt = IF to = "pending" THEN at ELSE NULL]
  <2>1. PICK to \in StepStates :
          /\ StepMove(steps[r][s].state, ev, g, to) /\ StepTransition(r, s, row(to))
    BY <1>5 DEF RecordStepOutcome
  <2>2. runs' = runs /\ Exists(r)
    BY <1>5 DEF RecordStepOutcome
  <2>3. steps[r] \in [Step -> StepRow] /\ steps[r][s] \in StepRow
    BY <1>0
  <2>4. steps' = [steps EXCEPT ![r] = [steps[r] EXCEPT ![s] = row(to)]]
    BY <2>1 DEF StepTransition
  <2>5. steps'[r] = [steps[r] EXCEPT ![s] = row(to)]
        /\ \A q \in Run \ {r} : steps'[q] = steps[q]
    BY <1>0, <2>4
  <2>6. /\ steps'[r][s].state = to /\ steps'[r][s].attempt = steps[r][s].attempt
        /\ \A q \in Step \ {s} : steps'[r][q] = steps[r][q]
    BY <2>3, <2>5 DEF StepRow
  <2>7. AttemptsLeft(r, s) \in BOOLEAN
    BY DEF AttemptsLeft
  <2>8. g.attemptsLeft = AttemptsLeft(r, s)
    BY DEF NoGuards
  <2> HIDE DEF g
  <2>9. Retried(r, s) \/ Ended(r, s) \/ (Skipped(r, s) /\ runs' = runs)
    <3>1. CASE steps[r][s].state = "pending" /\ to = "skipped"
      BY <2>2, <2>6, <3>1 DEF Skipped
    <3>2. CASE steps[r][s].state = "running" /\ to = "pending" /\ g.attemptsLeft
      BY <2>2, <2>6, <2>8, <3>2 DEF Retried
    <3>3. CASE steps[r][s].state = "running" /\ to = "failed" /\ ~g.attemptsLeft
      BY <2>2, <2>6, <2>8, <3>3 DEF Ended
    <3>4. CASE steps[r][s].state = "running" /\ to \in {"succeeded", "cancelled"}
      BY <2>2, <2>6, <3>4 DEF Ended
    <3> QED BY <2>1, <3>1, <3>2, <3>3, <3>4 DEF StepMove, StepEvents
  <2> QED BY <2>5, <2>6, <2>9 DEF StepsMove, OneStepMoves
<1>6. ASSUME NEW o \in Owner, NEW code \in Code \union {NULL}, FinishRun(r, o, code)
      PROVE  steps' = steps
  BY <1>6 DEF FinishRun
<1>7. ASSUME NEW o \in Owner, NEW code \in Code \union {NULL}, NEW skipped \in Code,
             ObserveRunCancel(r, o, code, skipped)
      PROVE  StepsMove(r) /\ \A q \in Run \ {r} : steps'[q] = steps[q]
  <2>1. runs[r].state = "running" /\ CancelRequested(r)
    BY <1>7 DEF ObserveRunCancel, RunMove, RunTerminal
  <2>2. runs'[r] = [runs[r] EXCEPT !.state = "cancelled", !.reason = code,
                        !.owner = NULL, !.expires = NULL]
        /\ runs[r] \in RunRow
    BY <1>7 DEF ObserveRunCancel, RunTransition, TypeOK
  <2>3. CancelledAtWork(r) /\ Exists(r)
    BY <2>1, <2>2 DEF CancelledAtWork, Released, KeepsIdentity, RunRow, Exists
  <2>4. SkipPendingSteps(r, skipped)
    BY <1>7 DEF ObserveRunCancel
  <2> QED BY <2>3, <2>4, SkipEffect DEF StepsMove, PendingStepsSkipped
<1> QED BY <1>0, <1>1, <1>2, <1>3, <1>4, <1>5, <1>6, <1>7 DEF Transaction, StepsMove

\* A run that becomes cancelled takes every pending step with it.
LEMMA CancelEffect ==
  ASSUME TypeOK, NEW r \in Run, Transaction(r),
         runs[r].state # "cancelled", runs'[r].state = "cancelled"
  PROVE  PendingStepsSkipped(r)
<1>0. CancelledInQueue(r) \/ CancelledAtWork(r)
  <2>1. RunMoves(r)
    BY RunEffect
  <2>2. ~Requested(r)
    BY DEF TypeOK, RunRow, Requested
  <2> QED BY <2>1, <2>2 DEF RunMoves, Created, Claimed, Concluded
<1>1. Exists(r) /\ runs[r].state \in {"queued", "running"}
  BY <1>0 DEF CancelledInQueue, CancelledAtWork, Released, Exists
<1>2. PICK skipped \in Code : SkipPendingSteps(r, skipped)
  <2>1. ASSUME NEW key \in Key \union {NULL}, NEW at \in Times, NEW why \in BOOLEAN,
               CreateRunWithSteps(r, key, at, why)
        PROVE  FALSE
    BY <1>1, <2>1 DEF CreateRunWithSteps, Exists
  <2>2. ASSUME NEW a \in Actor, RequestCancel(r, a) PROVE FALSE
    BY <2>2 DEF RequestCancel, TypeOK, RunRow
  <2>3. ASSUME NEW o \in Owner, NEW code \in Code, NEW skipped \in Code,
               ClaimRun(r, o, code, skipped)
        PROVE  SkipPendingSteps(r, skipped)
    <3>1. ASSUME RunTransition(r, [runs[r] EXCEPT !.state = "running", !.owner = o,
                                       !.epoch = @ + 1, !.expires = now + TTL])
          PROVE  FALSE
      <4>1. runs[r] \in RunRow /\ runs \in [Run -> RunRow]
        BY DEF TypeOK
      <4>2. runs'[r] = [runs[r] EXCEPT !.state = "running", !.owner = o,
                            !.epoch = @ + 1, !.expires = now + TTL]
        BY <3>1, <4>1 DEF RunTransition
      <4>3. runs'[r].state = "running"
        BY <4>1, <4>2 DEF RunRow
      <4> QED BY <4>3
    <3> QED BY <2>3, <3>1 DEF ClaimRun
  <2>4. ASSUME NEW s \in Step, StartStep(r, s) PROVE FALSE
    BY <2>4 DEF StartStep
  <2>5. ASSUME NEW s \in Step, NEW ev \in StepEvents, NEW code \in Code \union {NULL},
               NEW at \in Times, NEW retryCode \in Code \union {NULL},
               RecordStepOutcome(r, s, ev, code, at, retryCode)
        PROVE  FALSE
    BY <2>5 DEF RecordStepOutcome
  <2>6. ASSUME NEW o \in Owner, NEW code \in Code \union {NULL}, FinishRun(r, o, code)
        PROVE  FALSE
    <3>1. PICK to \in RunStates :
            /\ RunMove(runs[r].state, "all_steps_done", FinishGuards(r, o, code), to)
            /\ RunTransition(r, [runs[r] EXCEPT !.state = to, !.reason = code,
                                     !.owner = NULL, !.expires = NULL])
      BY <2>6 DEF FinishRun
    <3>2. to # "cancelled"
      BY <3>1 DEF RunMove
    <3>3. runs'[r].state = to
      BY <3>1 DEF RunTransition, TypeOK, RunRow
    <3> QED BY <3>2, <3>3
  <2>7. ASSUME NEW o \in Owner, NEW code \in Code \union {NULL}, NEW skipped \in Code,
               ObserveRunCancel(r, o, code, skipped)
        PROVE  SkipPendingSteps(r, skipped)
    BY <2>7 DEF ObserveRunCancel
  <2> QED BY <2>1, <2>2, <2>3, <2>4, <2>5, <2>6, <2>7 DEF Transaction
<1> QED BY <1>0, <1>1, <1>2, SkipEffect DEF PendingStepsSkipped

-----------------------------------------------------------------------------
(* The rows' invariant.  The properties lean on one another: a run can only be *)
(* cancelled on request because a request survives, an unclaimed run has run   *)
(* nothing because steps start under running runs, which have been claimed.    *)

RowsInv ==
    /\ TypeOK
    /\ LeaseTellsOwnership
    /\ CancelledOnRequest
    /\ UnclaimedRanNothing
    /\ AttemptsWithinBudget
    /\ VerdictMatchesSteps
    /\ OneActiveRunPerKey
    /\ \A r \in Run : runs[r].state = "absent" => ~CancelRequested(r)
    /\ \A r \in Run : runs[r].state \in {"running", "succeeded", "failed"} => runs[r].epoch = 1

\* Some facts about any row, said once.
LEMMA RowFacts ==
  ASSUME TypeOK, NEW r \in Run
  PROVE  /\ runs[r].state \in RunStates \union {"absent"} /\ runs[r].epoch \in Nat
         /\ runs[r].owner \in Owner \union {NULL} /\ runs[r].expires \in Time
         /\ \A s \in Step : /\ steps[r][s].state \in StepStates
                            /\ steps[r][s].attempt \in Nat
                            /\ Budget[s] \in Nat /\ Budget[s] >= 1
  BY BudgetAssumption DEF TypeOK, RunRow, StepRow

LEMMA RowsInit == Init => RowsInv
<1> SUFFICES ASSUME Init PROVE RowsInv
  OBVIOUS
<1>1. TypeOK
  BY TypeInit
<1>2. \A r \in Run : runs[r] = AbsentRun /\ \A s \in Step : steps[r][s] = NewStep
  BY DEF Init
<1>3. \A s \in Step : Budget[s] \in Nat /\ Budget[s] >= 1
  BY BudgetAssumption
<1>4. LeaseTellsOwnership /\ CancelledOnRequest /\ VerdictMatchesSteps /\ OneActiveRunPerKey
  BY <1>2 DEF LeaseTellsOwnership, CancelledOnRequest, VerdictMatchesSteps,
     OneActiveRunPerKey, AbsentRun, RunActive
<1>5. UnclaimedRanNothing /\ AttemptsWithinBudget
  BY <1>2, <1>3 DEF UnclaimedRanNothing, AttemptsWithinBudget, NewStep
<1>6. \A r \in Run : runs[r].state = "absent" /\ ~CancelRequested(r)
  BY <1>2 DEF AbsentRun, CancelRequested
<1> QED BY <1>1, <1>4, <1>5, <1>6 DEF RowsInv

\* A step that does not change the tables of runs and steps changes none of it.
LEMMA RowsStutter ==
  ASSUME RowsInv, TypeOK', runs' = runs, steps' = steps
  PROVE  RowsInv'
  BY DEF RowsInv, LeaseTellsOwnership, CancelledOnRequest, UnclaimedRanNothing,
     AttemptsWithinBudget, VerdictMatchesSteps, OneActiveRunPerKey, StepsIn,
     AllStepsTerminal, AnyStepFailed, CancelRequested

LEMMA RowsStep == RowsInv /\ [Next]_vars => RowsInv'
<1> SUFFICES ASSUME RowsInv, [Next]_vars PROVE RowsInv'
  OBVIOUS
<1>0. TypeOK /\ TypeOK'
  BY TypeStep DEF RowsInv
<1>1. CASE UNCHANGED vars
  BY <1>0, <1>1, RowsStutter DEF vars
<1>2. CASE Tick
  BY <1>0, <1>2, RowsStutter DEF Tick
<1>3. ASSUME NEW r \in Run, Transaction(r) PROVE RowsInv'
  <2>1. RunMoves(r) /\ \A q \in Run \ {r} : runs'[q] = runs[q]
    BY <1>0, <1>3, RunEffect
  <2>2. StepsMove(r) /\ \A q \in Run \ {r} : steps'[q] = steps[q]
    BY <1>0, <1>3, StepEffect
  <2>3. /\ runs[r].state \in RunStates \union {"absent"} /\ runs[r].epoch \in Nat
        /\ runs[r].owner \in Owner \union {NULL} /\ runs[r].expires \in Time
        /\ \A s \in Step : /\ steps[r][s].state \in StepStates
                           /\ steps[r][s].attempt \in Nat
                           /\ Budget[s] \in Nat /\ Budget[s] >= 1
    BY <1>0, RowFacts
  <2>4. NULL \notin Owner /\ NULL \notin Nat /\ NULL \notin Actor
    BY NullAssumption
  <2>5. \* The columns RequestCancel leaves alone.
        Requested(r) => /\ runs'[r].state = runs[r].state /\ runs'[r].epoch = runs[r].epoch
                        /\ runs'[r].owner = runs[r].owner /\ runs'[r].expires = runs[r].expires
                        /\ runs'[r].key = runs[r].key /\ runs'[r].cancelBy \in Actor
    BY <1>0 DEF Requested, TypeOK, RunRow
  <2>6. \* What may happen to one step.
        \A s \in Step : \/ steps'[r][s] = steps[r][s]
                        \/ Started(r, s) \/ Retried(r, s) \/ Ended(r, s) \/ Skipped(r, s)
    BY <2>2 DEF StepsMove, OneStepMoves, PendingStepsSkipped
  <2>7. LeaseTellsOwnership'
    <3>1. ASSUME NEW q \in Run PROVE LeaseTellsOwnership!(q)'
      <4>1. CASE q # r
        BY <2>1, <4>1 DEF RowsInv, LeaseTellsOwnership
      <4>2. CASE q = r
        BY <2>1, <2>3, <2>4, <2>5, <4>2 DEF RowsInv, LeaseTellsOwnership, RunMoves, Created,
           Claimed, CancelledInQueue, Released, Concluded, CancelledAtWork
      <4> QED BY <4>1, <4>2
    <3> QED BY <3>1 DEF LeaseTellsOwnership
  <2>8. CancelledOnRequest' /\ \A q \in Run : (runs[q].state = "absent" => ~CancelRequested(q))'
    BY <2>1, <2>3, <2>4, <2>5 DEF RowsInv, CancelledOnRequest, CancelRequested, RunMoves, Created,
       Claimed, CancelledInQueue, Released, Concluded, CancelledAtWork, KeepsIdentity, Requested,
       Exists, RunStates, RunActive, RunTerminal
  <2>9. \A q \in Run : (runs[q].state \in {"running", "succeeded", "failed"} => runs[q].epoch = 1)'
    BY <2>1, <2>3, <2>5 DEF RowsInv, LeaseTellsOwnership, RunMoves, Created,
       Claimed, CancelledInQueue, Released, Concluded, CancelledAtWork
  <2>10. UnclaimedRanNothing'
    <3>1. ASSUME NEW q \in Run, NEW s \in Step, runs'[q].epoch = 0
          PROVE  steps'[q][s].attempt = 0 /\ steps'[q][s].state \in {"pending", "skipped"}
      <4>1. CASE q # r
        BY <2>1, <2>2, <3>1, <4>1 DEF RowsInv, UnclaimedRanNothing
      <4>2. CASE q = r
        <5>1. runs[r].epoch = 0 \/ Created(r)
          BY <2>1, <2>3, <2>5, <3>1, <4>2 DEF RowsInv, RunMoves, Claimed,
             CancelledInQueue, Released, Concluded, CancelledAtWork
        <5>2. runs[r].epoch = 0
          BY <5>1 DEF Created, RowsInv, LeaseTellsOwnership
        <5>3. steps[r][s].attempt = 0 /\ steps[r][s].state \in {"pending", "skipped"}
          BY <5>2 DEF RowsInv, UnclaimedRanNothing
        <5>4. runs[r].state # "running"
          BY <5>2 DEF RowsInv
        <5> QED BY <2>6, <4>2, <5>3, <5>4 DEF Started, Retried, Ended, Skipped
      <4> QED BY <4>1, <4>2
    <3> QED BY <3>1 DEF UnclaimedRanNothing
  <2>11. AttemptsWithinBudget'
    <3>1. ASSUME NEW q \in Run, NEW s \in Step PROVE AttemptsWithinBudget!(q, s)'
      <4>1. CASE q # r
        BY <2>2, <4>1 DEF RowsInv, AttemptsWithinBudget
      <4>2. CASE q = r
        BY <2>3, <2>6, <4>2 DEF RowsInv, AttemptsWithinBudget, Started, Retried, Ended, Skipped,
           AttemptsLeft
      <4> QED BY <4>1, <4>2
    <3> QED BY <3>1 DEF AttemptsWithinBudget
  <2>12. VerdictMatchesSteps'
    <3>1. ASSUME NEW q \in Run PROVE VerdictMatchesSteps!(q)'
      <4>1. CASE q # r
        BY <2>1, <2>2, <4>1 DEF RowsInv, VerdictMatchesSteps, StepsIn, AllStepsTerminal, AnyStepFailed
      <4>2. CASE q = r /\ Concluded(r)
        BY <2>3, <4>2 DEF Concluded, VerdictMatchesSteps, StepsIn, AllStepsTerminal,
           AnyStepFailed, StepTerminal
      <4>3. CASE q = r /\ runs'[r].state \notin {"succeeded", "failed"}
        BY <4>3 DEF VerdictMatchesSteps
      <4>4. CASE q = r /\ runs'[r].state \in {"succeeded", "failed"} /\ ~Concluded(r)
        <5>1. runs[r].state = runs'[r].state
          BY <2>1, <2>5, <4>4 DEF RunMoves, Created, Claimed, CancelledInQueue, CancelledAtWork
        <5>2. \A s \in Step : steps[r][s].state \in StepTerminal
          BY <4>4, <5>1 DEF RowsInv, VerdictMatchesSteps, StepsIn, AllStepsTerminal, StepTerminal
        <5>3. \A s \in Step : steps'[r][s] = steps[r][s]
          BY <2>6, <5>2 DEF Started, Retried, Ended, Skipped, StepTerminal
        <5> QED BY <4>4, <5>1, <5>3 DEF RowsInv, VerdictMatchesSteps, StepsIn, AllStepsTerminal,
                AnyStepFailed
      <4> QED BY <4>1, <4>2, <4>3, <4>4
    <3> QED BY <3>1 DEF VerdictMatchesSteps
  <2>13. OneActiveRunPerKey'
    <3>1. \* No run becomes active but by its creation, which finds its key free.
          /\ runs'[r].state \in RunActive => runs[r].state \in RunActive \/ Created(r)
          /\ runs'[r].key = runs[r].key \/ Created(r)
      BY <2>1, <2>5 DEF RunMoves, Created, Claimed, CancelledInQueue, Released, Concluded,
         CancelledAtWork, KeepsIdentity, RunActive
    <3>2. ASSUME NEW p \in Run, p # r, runs'[r].key # NULL, runs'[p].key = runs'[r].key
          PROVE  ~(runs'[p].state \in RunActive /\ runs'[r].state \in RunActive)
      <4>1. runs'[p] = runs[p]
        BY <2>1, <3>2
      <4>2. CASE Created(r)
        BY <3>2, <4>1, <4>2 DEF Created, KeyIsFree
      <4>3. CASE ~Created(r)
        BY <3>1, <3>2, <4>1, <4>3 DEF RowsInv, OneActiveRunPerKey
      <4> QED BY <4>2, <4>3
    <3>3. ASSUME NEW p \in Run, NEW q \in Run, p # q, p # r, q # r,
                 runs'[p].key # NULL, runs'[p].key = runs'[q].key
          PROVE  ~(runs'[p].state \in RunActive /\ runs'[q].state \in RunActive)
      BY <2>1, <3>3 DEF RowsInv, OneActiveRunPerKey
    <3> QED BY <3>2, <3>3 DEF OneActiveRunPerKey
  <2> QED BY <1>0, <2>7, <2>8, <2>9, <2>10, <2>11, <2>12, <2>13 DEF RowsInv
<1> QED BY <1>1, <1>2, <1>3, NextIsTickOrTransaction

\* The rows' invariant holds of every behaviour of the store.
THEOREM RowsAlwaysHold == Spec => []RowsInv
<1>1. RowsInv /\ [Next]_vars => RowsInv'
  BY RowsStep
<1> QED BY RowsInit, <1>1, PTL DEF Spec

\* A run is owned exactly while it runs, and is claimed at most once.
THEOREM LeaseIsOwnership == Spec => []LeaseTellsOwnership
<1>1. RowsInv => LeaseTellsOwnership
  BY DEF RowsInv
<1> QED BY <1>1, RowsAlwaysHold, PTL

\* No run is cancelled that nobody asked to cancel.
THEOREM CancelledOnlyOnRequest == Spec => []CancelledOnRequest
<1>1. RowsInv => CancelledOnRequest
  BY DEF RowsInv
<1> QED BY <1>1, RowsAlwaysHold, PTL

\* A run that was never claimed has run nothing.
THEOREM UnclaimedRunsNothing == Spec => []UnclaimedRanNothing
<1>1. RowsInv => UnclaimedRanNothing
  BY DEF RowsInv
<1> QED BY <1>1, RowsAlwaysHold, PTL

\* No step starts more often than its budget allows, and only a spent budget
\* makes it failed.
THEOREM BudgetIsExact == Spec => []AttemptsWithinBudget
<1>1. RowsInv => AttemptsWithinBudget
  BY DEF RowsInv
<1> QED BY <1>1, RowsAlwaysHold, PTL

\* A verdict agrees with the steps it describes, then and ever after.
THEOREM VerdictsAreTrue == Spec => []VerdictMatchesSteps
<1>1. RowsInv => VerdictMatchesSteps
  BY DEF RowsInv
<1> QED BY <1>1, RowsAlwaysHold, PTL

\* Two active runs never hold one concurrency key.
THEOREM KeysExclude == Spec => []OneActiveRunPerKey
<1>1. RowsInv => OneActiveRunPerKey
  BY DEF RowsInv
<1> QED BY <1>1, RowsAlwaysHold, PTL

-----------------------------------------------------------------------------
(* What has ended does not change *)

EndedStays(r) ==
    /\ runs[r].state \in RunTerminal =>
          runs'[r] = [runs[r] EXCEPT !.cancelBy = runs'[r].cancelBy]
    /\ CancelRequested(r) => runs'[r].cancelBy = runs[r].cancelBy
    /\ \A s \in Step : steps[r][s].state \in StepTerminal => steps'[r][s] = steps[r][s]

LEMMA EndedStaysStep == RowsInv /\ [Next]_vars => \A r \in Run : EndedStays(r)
<1> SUFFICES ASSUME RowsInv, [Next]_vars, NEW q \in Run PROVE EndedStays(q)
  OBVIOUS
<1>0. TypeOK /\ runs[q] \in RunRow
  BY DEF RowsInv, TypeOK
<1>1. ASSUME runs'[q] = runs[q], steps'[q] = steps[q] PROVE EndedStays(q)
  <2>1. runs[q] = [runs[q] EXCEPT !.cancelBy = runs[q].cancelBy]
    BY <1>0 DEF RunRow
  <2> QED BY <1>1, <2>1 DEF EndedStays
<1>2. CASE UNCHANGED vars \/ Tick
  BY <1>1, <1>2 DEF vars, Tick
<1>3. ASSUME NEW r \in Run, Transaction(r) PROVE EndedStays(q)
  <2>1. RunMoves(r) /\ \A p \in Run \ {r} : runs'[p] = runs[p]
    BY <1>0, <1>3, RunEffect
  <2>2. StepsMove(r) /\ \A p \in Run \ {r} : steps'[p] = steps[p]
    BY <1>0, <1>3, StepEffect
  <2>3. CASE q # r
    BY <1>1, <2>1, <2>2, <2>3
  <2>4. CASE q = r
    <3>1. \A s \in Step : steps[r][s].state \in StepTerminal => steps'[r][s] = steps[r][s]
      BY <2>2 DEF StepsMove, OneStepMoves, PendingStepsSkipped, Started, Retried, Ended,
         Skipped, StepTerminal
    <3>2. runs[r].state \in RunTerminal =>
             runs'[r] = [runs[r] EXCEPT !.cancelBy = runs'[r].cancelBy]
      <4>1. CASE runs'[r] = runs[r]
        BY <1>0, <2>4, <4>1 DEF RunRow
      <4>2. CASE Requested(r)
        <5>1. PICK by \in Actor : runs'[r] = [runs[r] EXCEPT !.cancelBy = by]
          BY <4>2 DEF Requested
        <5> QED BY <1>0, <2>4, <5>1 DEF RunRow
      <4>3. CASE runs[r].state \notin RunTerminal
        BY <4>3
      <4> QED BY <2>1, <4>1, <4>2, <4>3 DEF RunMoves, Created, Claimed, CancelledInQueue,
              Released, Concluded, CancelledAtWork, RunTerminal
    <3>3. CancelRequested(r) => runs'[r].cancelBy = runs[r].cancelBy
      BY <2>1, <2>4 DEF RowsInv, RunMoves, Created, Requested, Claimed, CancelledInQueue,
         Released, Concluded, CancelledAtWork, KeepsIdentity
    <3> QED BY <2>4, <3>1, <3>2, <3>3 DEF EndedStays
  <2> QED BY <2>3, <2>4
<1> QED BY <1>2, <1>3, NextIsTickOrTransaction

\* Whatever is called later, an ended run keeps its verdict, an ended step its
\* outcome, and the first cancellation request stands.
THEOREM NothingEndsTwice == Spec => EndedIsFinal
<1>1. RowsInv /\ [Next]_vars =>
        [\A r \in Run :
          /\ runs[r].state \in RunTerminal =>
                runs'[r] = [runs[r] EXCEPT !.cancelBy = runs'[r].cancelBy]
          /\ CancelRequested(r) => runs'[r].cancelBy = runs[r].cancelBy
          /\ \A s \in Step : steps[r][s].state \in StepTerminal =>
                steps'[r][s] = steps[r][s]]_vars
  BY EndedStaysStep DEF EndedStays
<1> QED BY <1>1, RowsAlwaysHold, PTL DEF Spec, EndedIsFinal

-----------------------------------------------------------------------------
(* RunStore implements RunLifecycle.  Every transaction is mapped to one     *)
(* step of a run's life, by what is known above of its effects.              *)

\* The mapped state: what RunLifecycle sees of the tables.
LStatus    == [r \in Run |-> runs[r].state]
LRequested == [r \in Run |-> CancelRequested(r)]
LWork      == [r \in Run |-> [s \in Step |-> WorkOf(steps[r][s])]]

LEMMA LifeInitially == Init => Life!LifeInit
<1> SUFFICES ASSUME Init PROVE Life!LifeInit
  OBVIOUS
<1>1. \A r \in Run : /\ runs[r].state = "absent" /\ runs[r].cancelBy = NULL
                     /\ \A s \in Step : steps[r][s].state = "pending"
  BY DEF Init, AbsentRun, NewStep
<1>2. \A r \in Run, s \in Step : WorkOf(steps[r][s]) = "waiting"
  BY <1>1 DEF WorkOf
<1>3. \A r \in Run : CancelRequested(r) = FALSE
  BY <1>1 DEF CancelRequested
<1>4. LStatus = [r \in Run |-> "absent"]
  BY <1>1 DEF LStatus
<1>5. LRequested = [r \in Run |-> FALSE]
  BY <1>3 DEF LRequested
<1>6. LWork = [r \in Run |-> [s \in Step |-> "waiting"]]
  BY <1>2 DEF LWork
<1> QED BY <1>4, <1>5, <1>6 DEF Life!LifeInit, LStatus, LRequested, LWork

\* How a step's move looks from above.
LEMMA WorkMoves ==
  ASSUME NEW r \in Run, NEW s \in Step
  PROVE  /\ Started(r, s) => LWork[r][s] = "waiting" /\ LWork'[r][s] = "busy"
         /\ Retried(r, s) => LWork[r][s] = "busy" /\ LWork'[r][s] = "waiting"
         /\ Ended(r, s) => LWork[r][s] = "busy" /\ LWork'[r][s] \in {"good", "bad"}
         /\ Skipped(r, s) => LWork[r][s] = "waiting" /\ LWork'[r][s] = "good"
         /\ steps'[r][s] = steps[r][s] => LWork'[r][s] = LWork[r][s]
<1>1. LWork[r][s] = WorkOf(steps[r][s]) /\ LWork'[r][s] = WorkOf(steps'[r][s])
  BY DEF LWork
<1>2. /\ steps[r][s].state = "pending" => WorkOf(steps[r][s]) = "waiting"
      /\ steps[r][s].state = "running" => WorkOf(steps[r][s]) = "busy"
  BY DEF WorkOf
<1>3. /\ steps'[r][s].state = "pending" => WorkOf(steps'[r][s]) = "waiting"
      /\ steps'[r][s].state = "running" => WorkOf(steps'[r][s]) = "busy"
      /\ steps'[r][s].state \in {"succeeded", "skipped"} => WorkOf(steps'[r][s]) = "good"
      /\ steps'[r][s].state \in {"failed", "cancelled"} => WorkOf(steps'[r][s]) = "bad"
  BY DEF WorkOf
<1>4. steps'[r][s] = steps[r][s] => WorkOf(steps'[r][s]) = WorkOf(steps[r][s])
  OBVIOUS
<1> QED BY <1>1, <1>2, <1>3, <1>4 DEF Started, Retried, Ended, Skipped

\* Rows that stay leave what is seen of them as it was.
LEMMA SeenUnchanged ==
  ASSUME NEW r \in Run
  PROVE  /\ runs'[r] = runs[r] => LStatus'[r] = LStatus[r] /\ LRequested'[r] = LRequested[r]
         /\ steps'[r] = steps[r] => LWork'[r] = LWork[r]
  BY DEF LStatus, LRequested, LWork, CancelRequested

\* A transaction that leaves the steps alone and does not cancel moves the run.
LEMMA RunLifeStep ==
  ASSUME RowsInv, NEW r \in Run, Transaction(r), steps' = steps,
         runs'[r].state = "cancelled" => runs[r].state = "cancelled"
  PROVE  Life!LifeNext \/ UNCHANGED Life!lifeVars
<1>0. TypeOK
  BY DEF RowsInv
<1>1. RunMoves(r) /\ \A q \in Run \ {r} : runs'[q] = runs[q]
  BY <1>0, RunEffect
<1>2. LWork' = LWork
  BY DEF LWork
<1>3. \A q \in Run \ {r} : LStatus'[q] = LStatus[q] /\ LRequested'[q] = LRequested[q]
  BY <1>1, SeenUnchanged
<1>4. \A q \in Run : LStatus[q] = runs[q].state /\ LStatus'[q] = runs'[q].state
  BY DEF LStatus
<1>5. \A q \in Run : /\ LRequested[q] = (runs[q].cancelBy # NULL)
                     /\ LRequested'[q] = (runs'[q].cancelBy # NULL)
  BY DEF LRequested, CancelRequested
<1>6. CASE runs'[r] = runs[r]
  <2>1. LStatus' = LStatus /\ LRequested' = LRequested
    BY <1>3, <1>6, SeenUnchanged DEF LStatus, LRequested
  <2> QED BY <1>2, <2>1 DEF Life!lifeVars, LStatus, LRequested, LWork
<1>7. CASE Created(r)
  <2>1. ~CancelRequested(r)
    BY <1>7 DEF RowsInv, Created
  <2>2. LStatus[r] = "absent" /\ LStatus' = [LStatus EXCEPT ![r] = "queued"]
    BY <1>3, <1>4, <1>7 DEF Created, LStatus
  <2>3. LRequested' = LRequested
    BY <1>3, <1>5, <1>7, <2>1 DEF Created, LRequested, CancelRequested
  <2>4. Life!Submit(r)
    BY <1>2, <2>2, <2>3 DEF Life!Submit, LStatus, LRequested, LWork
  <2> QED BY <2>4 DEF Life!LifeNext
<1>8. CASE Requested(r)
  <2>1. runs[r] \in RunRow /\ NULL \notin Actor
    BY <1>0, NullAssumption DEF TypeOK
  <2>2. runs'[r].state = runs[r].state /\ runs'[r].cancelBy # NULL /\ runs[r].state # "absent"
    BY <1>8, <2>1 DEF Requested, RunRow, Exists
  <2>3. LStatus' = LStatus
    BY <1>3, <1>4, <2>2 DEF LStatus
  <2>4. LRequested' = [LRequested EXCEPT ![r] = TRUE]
    BY <1>3, <1>5, <2>2 DEF LRequested, CancelRequested
  <2>5. Life!Request(r)
    BY <1>2, <1>4, <2>2, <2>3, <2>4 DEF Life!Request, LStatus, LRequested, LWork
  <2> QED BY <2>5 DEF Life!LifeNext
<1>9. CASE Claimed(r)
  <2>1. LStatus[r] = "queued" /\ LRequested[r] = FALSE
    BY <1>9 DEF Claimed, LStatus, LRequested, CancelRequested
  <2>2. LStatus' = [LStatus EXCEPT ![r] = "running"]
    BY <1>3, <1>4, <1>9 DEF Claimed, LStatus
  <2>3. LRequested' = LRequested
    BY <1>3, <1>5, <1>9 DEF Claimed, KeepsIdentity, LRequested, CancelRequested
  <2>4. Life!Launch(r)
    BY <1>2, <2>1, <2>2, <2>3 DEF Life!Launch, LStatus, LRequested, LWork
  <2> QED BY <2>4 DEF Life!LifeNext
<1>10. CASE Concluded(r)
  <2>1. \A s \in Step : steps[r][s].state \in StepTerminal
    BY <1>10 DEF Concluded, AllStepsTerminal, StepsIn
  <2>2. \A s \in Step : LWork[r][s] \in {"good", "bad"}
    BY <2>1 DEF LWork, WorkOf, StepTerminal
  <2>3. (\E s \in Step : LWork[r][s] = "bad") <=> AnyStepFailed(r)
    BY <2>1 DEF LWork, WorkOf, StepTerminal, AnyStepFailed, StepsIn
  <2>4. LStatus[r] = "running"
    BY <1>10 DEF Concluded, Released, LStatus
  <2>5. LStatus' = [LStatus EXCEPT ![r] = IF AnyStepFailed(r) THEN "failed" ELSE "succeeded"]
    BY <1>3, <1>4, <1>10 DEF Concluded, LStatus
  <2>6. LRequested' = LRequested
    BY <1>3, <1>5, <1>10 DEF Concluded, Released, KeepsIdentity, LRequested, CancelRequested
  <2>7. Life!Conclude(r)
    BY <1>2, <2>2, <2>3, <2>4, <2>5, <2>6 DEF Life!Conclude, LStatus, LRequested, LWork
  <2> QED BY <2>7 DEF Life!LifeNext
<1> QED BY <1>1, <1>6, <1>7, <1>8, <1>9, <1>10 DEF RunMoves, CancelledInQueue,
        CancelledAtWork, Released

\* A transaction that cancels the run gives up what waits.
LEMMA CancelLifeStep ==
  ASSUME TypeOK, NEW r \in Run, Transaction(r),
         runs[r].state # "cancelled", runs'[r].state = "cancelled"
  PROVE  Life!LifeNext
<1>1. PendingStepsSkipped(r)
  BY CancelEffect
<1>2. /\ \A q \in Run \ {r} : runs'[q] = runs[q]
      /\ \A q \in Run \ {r} : steps'[q] = steps[q]
  BY RunEffect, StepEffect
<1>3. LStatus[r] \in {"queued", "running"} /\ LRequested[r] = TRUE
  BY <1>1 DEF PendingStepsSkipped, CancelledInQueue, CancelledAtWork, Released, LStatus,
     LRequested, CancelRequested
<1>4. LStatus' = [LStatus EXCEPT ![r] = "cancelled"]
  BY <1>2 DEF LStatus
<1>5. LRequested' = LRequested
  BY <1>1, <1>2 DEF PendingStepsSkipped, CancelledInQueue, CancelledAtWork, Released,
     KeepsIdentity, LRequested, CancelRequested
<1>6. ASSUME NEW s \in Step
      PROVE  LWork'[r][s] = IF LWork[r][s] = "waiting" THEN "good" ELSE LWork[r][s]
  <2>1. CASE steps[r][s].state = "pending"
    BY <1>1, <2>1, WorkMoves DEF PendingStepsSkipped
  <2>2. CASE steps[r][s].state # "pending"
    <3>1. steps[r][s].state \in StepStates
      BY DEF TypeOK, StepRow
    <3>2. LWork[r][s] # "waiting"
      BY <2>2, <3>1 DEF LWork, WorkOf, StepStates, StepOpen, StepTerminal
    <3> QED BY <1>1, <2>2, <3>2, WorkMoves DEF PendingStepsSkipped
  <2> QED BY <2>1, <2>2
<1>7. LWork' = [LWork EXCEPT ![r] = [s \in Step |->
          IF LWork[r][s] = "waiting" THEN "good" ELSE LWork[r][s]]]
  <2>1. \A q \in Run \ {r} : LWork'[q] = LWork[q]
    BY <1>2, SeenUnchanged
  <2>2. LWork'[r] = [s \in Step |-> IF LWork[r][s] = "waiting" THEN "good" ELSE LWork[r][s]]
    BY <1>6 DEF LWork
  <2> QED BY <2>1, <2>2 DEF LWork
<1>8. Life!Cancel(r)
  BY <1>3, <1>4, <1>5, <1>7 DEF Life!Cancel, LStatus, LRequested, LWork
<1> QED BY <1>8 DEF Life!LifeNext

\* A transaction on one step moves its work.
LEMMA WorkLifeStep ==
  ASSUME TypeOK, NEW r \in Run, Transaction(r), OneStepMoves(r)
  PROVE  Life!LifeNext
<1>1. PICK s \in Step :
        /\ Started(r, s) \/ Retried(r, s) \/ Ended(r, s) \/ (Skipped(r, s) /\ runs' = runs)
        /\ \A q \in Step \ {s} : steps'[r][q] = steps[r][q]
  BY DEF OneStepMoves
<1>2. \A q \in Run \ {r} : steps'[q] = steps[q]
  BY StepEffect
<1>3. runs' = runs /\ Exists(r)
  BY <1>1 DEF Started, Retried, Ended, Skipped, Exists
<1>4. LStatus' = LStatus /\ LRequested' = LRequested /\ LStatus[r] # "absent"
  BY <1>3 DEF LStatus, LRequested, CancelRequested, Exists
<1>5. LWork' = [LWork EXCEPT ![r][s] = LWork'[r][s]]
  <2>1. \A q \in Run \ {r} : LWork'[q] = LWork[q]
    BY <1>2, SeenUnchanged
  <2>2. \A q \in Step \ {s} : LWork'[r][q] = LWork[r][q]
    BY <1>1, WorkMoves
  <2>3. LWork'[r] = [LWork[r] EXCEPT ![s] = LWork'[r][s]]
    BY <2>2 DEF LWork
  <2>4. LWork' = [LWork EXCEPT ![r] = LWork'[r]]
    BY <2>1 DEF LWork
  <2> QED BY <2>3, <2>4
<1>6. CASE Started(r, s)
  <2>1. LWork[r][s] = "waiting" /\ LWork'[r][s] = "busy" /\ LStatus[r] = "running"
    BY <1>6, WorkMoves DEF Started, LStatus
  <2>2. Life!BeginWork(r, s)
    BY <1>4, <1>5, <2>1 DEF Life!BeginWork, LStatus, LRequested, LWork
  <2> QED BY <2>2 DEF Life!LifeNext
<1>7. CASE Retried(r, s) \/ Ended(r, s)
  <2>1. LWork[r][s] = "busy" /\ LWork'[r][s] \in {"waiting", "good", "bad"}
    BY <1>7, WorkMoves
  <2>2. Life!EndWork(r, s, LWork'[r][s])
    BY <1>4, <1>5, <2>1 DEF Life!EndWork, LStatus, LRequested, LWork
  <2> QED BY <2>1, <2>2 DEF Life!LifeNext
<1>8. CASE Skipped(r, s)
  <2>1. LWork[r][s] = "waiting" /\ LWork'[r][s] = "good"
    BY <1>8, WorkMoves
  <2>2. Life!GiveUp(r, s)
    BY <1>4, <1>5, <2>1 DEF Life!GiveUp, LStatus, LRequested, LWork
  <2> QED BY <2>2 DEF Life!LifeNext
<1> QED BY <1>1, <1>6, <1>7, <1>8

LEMMA LifeStep == RowsInv /\ [Next]_vars => [Life!LifeNext]_(Life!lifeVars)
<1> SUFFICES ASSUME RowsInv, [Next]_vars PROVE Life!LifeNext \/ UNCHANGED Life!lifeVars
  OBVIOUS
<1>0. TypeOK
  BY DEF RowsInv
<1>1. CASE UNCHANGED vars \/ Tick
  BY <1>1 DEF vars, Tick, Life!lifeVars, CancelRequested
<1>2. ASSUME NEW r \in Run, Transaction(r)
      PROVE  Life!LifeNext \/ UNCHANGED Life!lifeVars
  <2>1. CASE runs[r].state # "cancelled" /\ runs'[r].state = "cancelled"
    BY <1>0, <1>2, <2>1, CancelLifeStep
  <2>2. CASE OneStepMoves(r)
    BY <1>0, <1>2, <2>2, WorkLifeStep
  <2>3. CASE ~(runs[r].state # "cancelled" /\ runs'[r].state = "cancelled") /\ steps' = steps
    BY <1>2, <2>3, RunLifeStep
  <2>4. PendingStepsSkipped(r) => runs[r].state # "cancelled" /\ runs'[r].state = "cancelled"
    BY DEF PendingStepsSkipped, CancelledInQueue, CancelledAtWork, Released
  <2> QED BY <1>0, <1>2, <2>1, <2>2, <2>3, <2>4, StepEffect DEF StepsMove
<1> QED BY <1>1, <1>2, NextIsTickOrTransaction

\* The store implements the life of a run: its rows, leases, clock, attempts
\* and log show only what RunLifecycle allows.
THEOREM StoreImplementsLifecycle == Spec => Lifecycle
<1>1. Init => Life!LifeInit
  BY LifeInitially
<1>2. RowsInv /\ [Next]_vars => [Life!LifeNext]_(Life!lifeVars)
  BY LifeStep
<1> QED BY <1>1, <1>2, RowsAlwaysHold, PTL DEF Spec, Lifecycle, Life!LifeSpec

-----------------------------------------------------------------------------
(* The append-only log explains every row: one unbroken chain of events per  *)
(* run and per step, which ends in the state the row has.                    *)

\* A chain stays a chain when the next event starts where it ended.
LEMMA ChainGrows ==
  ASSUME NEW log \in Seq(EventRow), NEW start, NEW state, NEW next,
         Chained(log, start, state)
  PROVE  Chained(Append(log, [from |-> state, to |-> next]), start, next)
<1> DEFINE e == [from |-> state, to |-> next]
           longer == Append(log, e)
<1>1. Len(log) \in Nat /\ Len(longer) = Len(log) + 1 /\ longer # << >>
  OBVIOUS
<1>2. longer[Len(longer)] = e /\ \A i \in 1..Len(log) : longer[i] = log[i]
  OBVIOUS
<1>3. DOMAIN log = 1..Len(log) /\ DOMAIN longer = 1..Len(longer)
  OBVIOUS
<1>4. ASSUME NEW i \in 1..Len(longer)
      PROVE  longer[i].from = IF i = 1 THEN start ELSE longer[i - 1].to
  <2>1. CASE i \in 1..Len(log)
    <3>1. i # 1 => i - 1 \in 1..Len(log)
      BY <1>1, <2>1
    <3>2. log[i].from = IF i = 1 THEN start ELSE log[i - 1].to
      BY <1>3, <2>1 DEF Chained
    <3> QED BY <1>2, <2>1, <3>1, <3>2
  <2>2. CASE i = Len(longer) /\ log = << >>
    BY <1>1, <1>2, <2>2 DEF Chained
  <2>3. CASE i = Len(longer) /\ log # << >>
    <3>1. i # 1 /\ i - 1 = Len(log) /\ Len(log) \in 1..Len(log)
      BY <1>1, <2>3
    <3>2. log[Len(log)].to = state
      BY <2>3 DEF Chained
    <3>3. longer[i].from = state /\ longer[i - 1] = log[Len(log)]
      BY <1>2, <2>3, <3>1
    <3> QED BY <3>1, <3>2, <3>3
  <2> QED BY <1>1, <2>1, <2>2, <2>3
<1>5. longer[Len(longer)].to = next
  BY <1>2
<1> HIDE DEF longer
<1>6. Chained(longer, start, next)
  BY <1>1, <1>3, <1>4, <1>5 DEF Chained
<1> QED BY <1>6 DEF longer

RunChained(r) == IF Exists(r) THEN Chained(runLog[r], NULL, runs[r].state)
                              ELSE runLog[r] = << >>
StepChained(r, s) == Chained(stepLog[r][s], "pending", steps[r][s].state)

\* finishTransition writes the row and its event together.
LEMMA RunTransitionChains ==
  ASSUME TypeOK, NEW r \in Run, NEW row, row.state # "absent", Exists(r),
         RunChained(r), RunTransition(r, row)
  PROVE  RunChained(r)' /\ \A q \in Run \ {r} : runs'[q] = runs[q] /\ runLog'[q] = runLog[q]
<1>1. /\ runs'[r] = row
      /\ runLog'[r] = Append(runLog[r], [from |-> runs[r].state, to |-> row.state])
      /\ \A q \in Run \ {r} : runs'[q] = runs[q] /\ runLog'[q] = runLog[q]
  BY DEF RunTransition, TypeOK
<1>2. Chained(runLog[r], NULL, runs[r].state) /\ runLog[r] \in Seq(EventRow)
  BY DEF RunChained, TypeOK
<1>3. Chained(Append(runLog[r], [from |-> runs[r].state, to |-> row.state]), NULL, row.state)
  BY <1>2, ChainGrows
<1>4. Chained(runLog'[r], NULL, runs'[r].state) /\ Exists(r)'
  BY <1>1, <1>3 DEF Exists
<1> QED BY <1>1, <1>4 DEF RunChained

LEMMA StepTransitionChains ==
  ASSUME TypeOK, NEW r \in Run, NEW s \in Step, NEW row \in StepRow, StepTransition(r, s, row),
         \A q \in Run, t \in Step : StepChained(q, t)
  PROVE  \A q \in Run, t \in Step : StepChained(q, t)'
<1>0. /\ steps[r] \in [Step -> StepRow] /\ stepLog[r] \in [Step -> Seq(EventRow)]
      /\ steps \in [Run -> [Step -> StepRow]] /\ stepLog \in [Run -> [Step -> Seq(EventRow)]]
  BY DEF TypeOK
<1>1. steps' = [steps EXCEPT ![r] = [steps[r] EXCEPT ![s] = row]]
  BY DEF StepTransition
<1>2. stepLog' = [stepLog EXCEPT ![r] = [stepLog[r] EXCEPT ![s] =
                     Append(stepLog[r][s], [from |-> steps[r][s].state, to |-> row.state])]]
  BY DEF StepTransition
<1>3. Chained(Append(stepLog[r][s], [from |-> steps[r][s].state, to |-> row.state]),
              "pending", row.state)
  BY <1>0, ChainGrows DEF StepChained
<1>4. steps'[r][s] = row /\ stepLog'[r][s] =
         Append(stepLog[r][s], [from |-> steps[r][s].state, to |-> row.state])
  BY <1>0, <1>1, <1>2
<1>5. StepChained(r, s)'
  BY <1>3, <1>4 DEF StepChained
<1>6. ASSUME NEW q \in Run, NEW t \in Step, q # r \/ t # s
      PROVE  steps'[q][t] = steps[q][t] /\ stepLog'[q][t] = stepLog[q][t]
  BY <1>0, <1>1, <1>2, <1>6
<1> QED BY <1>5, <1>6 DEF StepChained

LEMMA SkipChains ==
  ASSUME TypeOK, NEW r \in Run, NEW code \in Code, SkipPendingSteps(r, code),
         \A q \in Run, t \in Step : StepChained(q, t)
  PROVE  \A q \in Run, t \in Step : StepChained(q, t)'
<1>0. /\ steps[r] \in [Step -> StepRow] /\ stepLog[r] \in [Step -> Seq(EventRow)]
      /\ steps \in [Run -> [Step -> StepRow]] /\ stepLog \in [Run -> [Step -> Seq(EventRow)]]
  BY DEF TypeOK
<1> DEFINE Skips(s) == StepMove(steps[r][s].state, "upstream_failed",
                           [NoGuards EXCEPT !.reason = (code # NULL)], "skipped")
<1>1. ASSUME NEW s \in Step, Skips(s) PROVE steps[r][s].state = "pending"
  BY <1>1 DEF StepMove
<1>2. /\ steps' = [steps EXCEPT ![r] = [s \in Step |->
             IF Skips(s) THEN [steps[r][s] EXCEPT !.state = "skipped", !.reason = code]
                         ELSE steps[r][s]]]
      /\ stepLog' = [stepLog EXCEPT ![r] = [s \in Step |->
             IF Skips(s) THEN Append(stepLog[r][s], [from |-> "pending", to |-> "skipped"])
                         ELSE stepLog[r][s]]]
  BY DEF SkipPendingSteps
<1> HIDE DEF Skips
<1>3. ASSUME NEW s \in Step, Skips(s) PROVE StepChained(r, s)'
  <2>1. steps'[r][s] = [steps[r][s] EXCEPT !.state = "skipped", !.reason = code]
    BY <1>0, <1>2, <1>3
  <2>2. steps'[r][s].state = "skipped"
    BY <1>0, <2>1 DEF StepRow
  <2>3. stepLog'[r][s] = Append(stepLog[r][s], [from |-> "pending", to |-> "skipped"])
    BY <1>0, <1>2, <1>3
  <2>4. Chained(stepLog[r][s], "pending", "pending")
    BY <1>1, <1>3 DEF StepChained
  <2>5. Chained(Append(stepLog[r][s], [from |-> "pending", to |-> "skipped"]),
                "pending", "skipped")
    BY <1>0, <2>4, ChainGrows
  <2> QED BY <2>2, <2>3, <2>5 DEF StepChained
<1>4. ASSUME NEW s \in Step, ~Skips(s) PROVE StepChained(r, s)'
  <2>1. steps'[r][s] = steps[r][s] /\ stepLog'[r][s] = stepLog[r][s]
    BY <1>0, <1>2, <1>4
  <2> QED BY <2>1 DEF StepChained
<1>5. ASSUME NEW q \in Run \ {r} PROVE steps'[q] = steps[q] /\ stepLog'[q] = stepLog[q]
  BY <1>0, <1>2
<1> QED BY <1>3, <1>4, <1>5 DEF StepChained

-----------------------------------------------------------------------------

HistoryInv == /\ \A r \in Run : RunChained(r)
              /\ \A r \in Run, s \in Step : StepChained(r, s)

LEMMA HistoryInvIsProperty == HistoryInv <=> HistoryExplainsRows
  BY DEF HistoryInv, HistoryExplainsRows, RunChained, StepChained

LEMMA HistoryInit == Init => HistoryInv
<1> SUFFICES ASSUME Init PROVE HistoryInv
  OBVIOUS
<1>1. \A r \in Run : ~Exists(r) /\ runLog[r] = << >>
  BY DEF Init, AbsentRun, Exists
<1>2. \A r \in Run, s \in Step : stepLog[r][s] = << >> /\ steps[r][s].state = "pending"
  BY DEF Init, NewStep
<1>3. Chained(<< >>, "pending", "pending")
  BY DEF Chained
<1> QED BY <1>1, <1>2, <1>3 DEF HistoryInv, RunChained, StepChained

LEMMA ChainsStep == TypeOK /\ HistoryInv /\ [Next]_vars => HistoryInv'
<1> SUFFICES ASSUME TypeOK, HistoryInv, [Next]_vars PROVE HistoryInv'
  OBVIOUS
<1>1. CASE UNCHANGED vars \/ Tick
  BY <1>1 DEF vars, Tick, HistoryInv, RunChained, StepChained, Exists
<1>2. ASSUME runs' = runs, runLog' = runLog PROVE \A q \in Run : RunChained(q)'
  BY <1>2 DEF HistoryInv, RunChained, Exists
<1>3. ASSUME steps' = steps, stepLog' = stepLog PROVE \A q \in Run, s \in Step : StepChained(q, s)'
  BY <1>3 DEF HistoryInv, StepChained
<1>4. ASSUME NEW r \in Run, NEW row, row.state # "absent", Exists(r), RunTransition(r, row)
      PROVE  \A q \in Run : RunChained(q)'
  <2>1. RunChained(r)' /\ \A q \in Run \ {r} : runs'[q] = runs[q] /\ runLog'[q] = runLog[q]
    BY <1>4, RunTransitionChains DEF HistoryInv
  <2> QED BY <2>1 DEF HistoryInv, RunChained, Exists
<1>5. ASSUME NEW r \in Run, Transaction(r) PROVE HistoryInv'
  <2>0. runs[r] \in RunRow /\ runs \in [Run -> RunRow]
    BY DEF TypeOK
  <2>1. ASSUME NEW key \in Key \union {NULL}, NEW at \in Times, NEW why \in BOOLEAN,
               CreateRunWithSteps(r, key, at, why)
        PROVE  HistoryInv'
    <3>1. runs'[r].state = "queued" /\ runLog' = [runLog EXCEPT ![r] =
             Append(runLog[r], [from |-> NULL, to |-> "queued"])]
      BY <2>0, <2>1 DEF CreateRunWithSteps, AbsentRun
    <3>2. runLog[r] = << >>
      BY <2>1 DEF CreateRunWithSteps, HistoryInv, RunChained
    <3>3. Chained(<< >>, NULL, NULL) /\ << >> \in Seq(EventRow)
      BY DEF Chained
    <3>4. Chained(Append(<< >>, [from |-> NULL, to |-> "queued"]), NULL, "queued")
      BY <3>3, ChainGrows
    <3>5. RunChained(r)'
      BY <3>1, <3>2, <3>4 DEF RunChained, Exists, TypeOK
    <3>6. \A q \in Run \ {r} : runs'[q] = runs[q] /\ runLog'[q] = runLog[q]
      BY <2>1 DEF CreateRunWithSteps, TypeOK
    <3>7. \A q \in Run : RunChained(q)'
      BY <3>5, <3>6 DEF HistoryInv, RunChained, Exists
    <3>8. steps' = steps /\ stepLog' = stepLog
      BY <2>1 DEF CreateRunWithSteps
    <3> QED BY <1>3, <3>7, <3>8 DEF HistoryInv
  <2>2. ASSUME NEW a \in Actor, RequestCancel(r, a) PROVE HistoryInv'
    <3>1. \A q \in Run : runs'[q].state = runs[q].state
      BY <2>0, <2>2 DEF RequestCancel, RunRow
    <3>2. steps' = steps /\ stepLog' = stepLog /\ runLog' = runLog
      BY <2>2 DEF RequestCancel
    <3> QED BY <1>3, <3>1, <3>2 DEF HistoryInv, RunChained, Exists
  <2>3. ASSUME NEW o \in Owner, NEW code \in Code, NEW skipped \in Code,
               ClaimRun(r, o, code, skipped)
        PROVE  HistoryInv'
    <3>1. Exists(r)
      BY <2>3 DEF ClaimRun, RunMove, Exists, RunTerminal
    <3>2. CASE /\ RunTransition(r, [runs[r] EXCEPT !.state = "running", !.owner = o,
                                        !.epoch = @ + 1, !.expires = now + TTL])
               /\ UNCHANGED <<steps, stepLog, now>>
      <4> DEFINE row == [runs[r] EXCEPT !.state = "running", !.owner = o,
                             !.epoch = @ + 1, !.expires = now + TTL]
      <4>1. row.state # "absent"
        BY <2>0 DEF RunRow
      <4> HIDE DEF row
      <4>2. \A q \in Run : RunChained(q)'
        BY <1>4, <3>1, <3>2, <4>1 DEF row
      <4> QED BY <1>3, <3>2, <4>2 DEF HistoryInv
    <3>3. CASE /\ SkipPendingSteps(r, skipped)
               /\ RunTransition(r, [runs[r] EXCEPT !.state = "cancelled", !.reason = code])
      <4>1. [runs[r] EXCEPT !.state = "cancelled", !.reason = code].state # "absent"
        BY <2>0 DEF RunRow
      <4>2. \A q \in Run : RunChained(q)'
        BY <1>4, <3>1, <3>3, <4>1
      <4> QED BY <3>3, <4>2, SkipChains DEF HistoryInv
    <3> QED BY <2>3, <3>2, <3>3 DEF ClaimRun
  <2>4. ASSUME NEW s \in Step, StartStep(r, s) PROVE HistoryInv'
    <3>1. [steps[r][s] EXCEPT !.state = "running", !.attempt = @ + 1] \in StepRow
      <4>1. steps[r][s] \in StepRow /\ steps[r][s].attempt + 1 \in Nat
        BY DEF TypeOK, StepRow
      <4> QED BY <4>1 DEF StepRow, StepStates, StepOpen
    <3> QED BY <1>2, <2>4, <3>1, StepTransitionChains DEF StartStep, HistoryInv
  <2>5. ASSUME NEW s \in Step, NEW ev \in StepEvents, NEW code \in Code \union {NULL},
               NEW at \in Times, NEW retryCode \in Code \union {NULL},
               RecordStepOutcome(r, s, ev, code, at, retryCode)
        PROVE  HistoryInv'
    <3>1. ASSUME NEW to \in StepStates
          PROVE  [steps[r][s] EXCEPT
                    !.state = to,
                    !.reason = IF to = "pending" /\ retryCode # NULL THEN retryCode ELSE code,
                    !.nextAt = IF to = "pending" THEN at ELSE NULL] \in StepRow
      <4>1. steps[r][s] \in StepRow
        BY DEF TypeOK
      <4> QED BY <4>1, TimeAssumption DEF StepRow, Time
    <3>2. \A q \in Run, t \in Step : StepChained(q, t)'
      BY <2>5, <3>1, StepTransitionChains DEF RecordStepOutcome, HistoryInv
    <3> QED BY <1>2, <2>5, <3>2 DEF RecordStepOutcome, HistoryInv
  <2>6. ASSUME NEW o \in Owner, NEW code \in Code \union {NULL}, FinishRun(r, o, code)
        PROVE  HistoryInv'
    <3>1. PICK to \in RunStates :
            /\ RunMove(runs[r].state, "all_steps_done", FinishGuards(r, o, code), to)
            /\ RunTransition(r, [runs[r] EXCEPT !.state = to, !.reason = code,
                                     !.owner = NULL, !.expires = NULL])
      BY <2>6 DEF FinishRun
    <3>2. Exists(r) /\ to # "absent"
      BY <3>1 DEF RunMove, Exists, RunTerminal
    <3>3. [runs[r] EXCEPT !.state = to, !.reason = code,
               !.owner = NULL, !.expires = NULL].state # "absent"
      BY <2>0, <3>2 DEF RunRow
    <3>4. \A q \in Run : RunChained(q)'
      BY <1>4, <3>1, <3>2, <3>3
    <3> QED BY <1>3, <2>6, <3>4 DEF FinishRun, HistoryInv
  <2>7. ASSUME NEW o \in Owner, NEW code \in Code \union {NULL}, NEW skipped \in Code,
               ObserveRunCancel(r, o, code, skipped)
        PROVE  HistoryInv'
    <3>1. Exists(r)
      BY <2>7 DEF ObserveRunCancel, RunMove, Exists, RunTerminal
    <3>2. [runs[r] EXCEPT !.state = "cancelled", !.reason = code,
               !.owner = NULL, !.expires = NULL].state # "absent"
      BY <2>0 DEF RunRow
    <3>3. \A q \in Run : RunChained(q)'
      BY <1>4, <2>7, <3>1, <3>2 DEF ObserveRunCancel
    <3> QED BY <2>7, <3>3, SkipChains DEF ObserveRunCancel, HistoryInv
  <2> QED BY <1>5, <2>1, <2>2, <2>3, <2>4, <2>5, <2>6, <2>7 DEF Transaction
<1> QED BY <1>1, <1>5, NextIsTickOrTransaction

\* The events of every run and every step are one unbroken chain that ends in
\* the state the row has.
THEOREM HistoryIsComplete == Spec => []HistoryExplainsRows
<1>1. TypeOK /\ HistoryInv /\ [Next]_vars => HistoryInv'
  BY ChainsStep
<1>2. HistoryInv => HistoryExplainsRows
  BY HistoryInvIsProperty
<1> QED BY HistoryInit, <1>1, <1>2, TypeCorrect, PTL DEF Spec
=============================================================================
