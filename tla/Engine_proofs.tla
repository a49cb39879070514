---------------------------- MODULE Engine_proofs ----------------------------
(***************************************************************************)
(* Theorems about Engine, for every set of runs and executors, every graph *)
(* of steps, every retry budget, timeout and lease.                        *)
(***************************************************************************)
EXTENDS Engine, RunStore_proofs, WellFoundedInduction

-----------------------------------------------------------------------------
(* The locals of an executor, action by action. *)

Points == {"idle"} \union Steady \union Gone

Unmoved(e) == \A f \in Exec \ {e} : ex'[f] = ex[f]

\* What one iteration of the loop keeps in its locals.
SameStep(e) ==
    /\ ex'[e].step = ex[e].step /\ ex'[e].attempt = ex[e].attempt
SameBudget(e) ==
    /\ ex'[e].run = ex[e].run /\ ex'[e].deadline = ex[e].deadline
SameProcess(e) ==
    /\ ex'[e].end = ex[e].end /\ ex'[e].hit = ex[e].hit /\ ex'[e].killed = ex[e].killed
    /\ ex'[e].outcome = ex[e].outcome /\ ex'[e].finished = ex[e].finished
    /\ ex'[e].left = ex[e].left
SameEnding(e) ==
    /\ ex'[e].skips = ex[e].skips /\ ex'[e].timedOut = ex[e].timedOut
    /\ ex'[e].reason = ex[e].reason

Locals == ex \in [Exec -> ExecRow]

LEMMA Points0 ==
    /\ "idle" \in Points /\ Steady \subseteq Points /\ Gone \subseteq Points
BY DEF Points

LEMMA Updated ==
    ASSUME Locals, NEW e \in Exec, NEW row \in ExecRow, ex' = [ex EXCEPT ![e] = row]
    PROVE  Locals' /\ ex'[e] = row /\ Unmoved(e)
BY DEF Locals, Unmoved

LEMMA Hop ==
    ASSUME Locals, NEW e \in Exec, NEW to \in Points,
           ex' = [ex EXCEPT ![e].pc = to]
    PROVE  /\ Locals' /\ Unmoved(e) /\ ex'[e].pc = to
           /\ SameBudget(e) /\ SameStep(e) /\ SameProcess(e) /\ SameEnding(e)
<1> DEFINE row == [ex[e] EXCEPT !.pc = to]
<1>1. ex[e] \in ExecRow
  BY DEF Locals
<1>2. row \in ExecRow
  BY <1>1 DEF ExecRow, Points
<1>3. ex' = [ex EXCEPT ![e] = row]
  BY <1>1 DEF Locals, ExecRow
<1>4. /\ row.pc = to /\ row.run = ex[e].run /\ row.deadline = ex[e].deadline
      /\ row.step = ex[e].step /\ row.attempt = ex[e].attempt /\ row.end = ex[e].end
      /\ row.hit = ex[e].hit /\ row.killed = ex[e].killed /\ row.outcome = ex[e].outcome
      /\ row.finished = ex[e].finished /\ row.skips = ex[e].skips /\ row.left = ex[e].left
      /\ row.timedOut = ex[e].timedOut /\ row.reason = ex[e].reason
  BY <1>1 DEF ExecRow
<1> HIDE DEF row
<1> QED BY <1>2, <1>3, <1>4, Updated DEF SameBudget, SameStep, SameProcess, SameEnding

LEMMA Back ==
    ASSUME Locals, NEW e \in Exec, NEW to \in Points
    PROVE  /\ BackTo(e, to) \in ExecRow
           /\ BackTo(e, to).pc = to /\ BackTo(e, to).run = ex[e].run /\ BackTo(e, to).deadline = ex[e].deadline
           /\ BackTo(e, to).step = NULL /\ BackTo(e, to).attempt = 0 /\ BackTo(e, to).end = NULL
           /\ BackTo(e, to).hit = FALSE /\ BackTo(e, to).killed = FALSE /\ BackTo(e, to).outcome = NULL
           /\ BackTo(e, to).left = 0
           /\ BackTo(e, to).finished = NULL /\ BackTo(e, to).skips = ex[e].skips
           /\ BackTo(e, to).timedOut = ex[e].timedOut /\ BackTo(e, to).reason = ex[e].reason
<1>1. ex[e] \in ExecRow
  BY DEF Locals
<1>2. 0 \in Int /\ 0 \in Nat
  OBVIOUS
<1> QED BY ZenonT(30), <1>1, <1>2 DEF BackTo, ExecRow, Time, Points

\* The actions that only move the program counter.
LEMMA Hops ==
    ASSUME Locals, NEW e \in Exec, NEW from \in Points, NEW to \in Points,
           Goto(e, from, to)
    PROVE  /\ Locals' /\ Unmoved(e) /\ ex[e].pc = from /\ ex'[e].pc = to
           /\ SameBudget(e) /\ SameStep(e) /\ SameProcess(e) /\ SameEnding(e)
BY Hop DEF Goto

LEMMA CodeFacts ==
    /\ ReasonCodes \subseteq Code
    /\ {"RUN_SUCCEEDED", "RUN_FAILED_STEP", "RUN_TIMED_OUT", "RUN_CANCELLED_MANUAL",
        "STEP_CANCELLED", "STEP_SKIPPED_UPSTREAM_FAILED", "STEP_RETRY_SCHEDULED",
        "STEP_RETRIES_EXHAUSTED"} \subseteq Code
    /\ \A o \in Outcomes : VerdictFor(o).code \in Code
    /\ NULL \notin Code /\ NULL \notin Nat /\ NULL \notin Owner
<1>1. \A o \in Outcomes : VerdictFor(o).code \in ReasonCodes
  BY DEF Outcomes, VerdictFor, ReasonCodes, StepFailures
<1> QED BY <1>1, CodeAssumption, NullAssumption DEF ReasonCodes, StepFailures

LEMMA BeginMoves ==
    ASSUME Locals, now \in Nat, NEW e \in Exec, NEW r \in Run, Begin(e, r)
    PROVE  /\ Locals' /\ Unmoved(e) /\ ex[e].pc = "idle" /\ ex'[e].pc = "claim"
           /\ ex'[e].run = r /\ ex'[e].finished = NULL /\ ex'[e].killed = FALSE
           /\ ex'[e].timedOut = FALSE /\ ex'[e].outcome = NULL /\ ex'[e].hit = FALSE
<1> DEFINE row == [Idle EXCEPT !.pc = "claim", !.run = r,
                     !.deadline = IF JobTimeout > 0 THEN now + JobTimeout ELSE NULL]
<1>0. Idle \in ExecRow
  BY DEF Idle, ExecRow, Time
<1>1. row \in ExecRow
  <2> DEFINE d == IF JobTimeout > 0 THEN now + JobTimeout ELSE NULL
  <2>1. d \in Time
    BY ExecAssumption DEF Time
  <2> HIDE DEF d
  <2>2. [Idle EXCEPT !.pc = "claim", !.run = r, !.deadline = d] \in ExecRow
    BY <1>0, <2>1 DEF ExecRow, Steady
  <2> QED BY <2>2 DEF d
<1>2. ex' = [ex EXCEPT ![e] = row] /\ ex[e].pc = "idle"
  BY DEF Begin
<1>3. /\ row.pc = "claim" /\ row.run = r /\ row.finished = NULL /\ row.killed = FALSE
      /\ row.timedOut = FALSE /\ row.outcome = NULL /\ row.hit = FALSE
  BY DEF Idle
<1> HIDE DEF row
<1> QED BY <1>1, <1>2, <1>3, Updated

LEMMA PickMoves ==
    ASSUME Locals, NEW e \in Exec, PickStep(e)
    PROVE  /\ Locals' /\ Unmoved(e) /\ SameBudget(e) /\ SameProcess(e) /\ SameEnding(e)
           /\ ex[e].pc = "pick"
           /\ \/ /\ ex'[e].pc = "read" /\ ex'[e].step \in Step
                 /\ IsNextRunnable(ex[e].run, ex'[e].step)
              \/ ex'[e].pc = "wait" /\ Runnable(ex[e].run) = {}
<1>1. CASE Runnable(ex[e].run) = {} /\ Goto(e, "pick", "wait")
  BY <1>1, Hops DEF Points, Steady
<1>2. ASSUME NEW s \in Step, IsNextRunnable(ex[e].run, s),
             ex' = [ex EXCEPT ![e].pc = "read", ![e].step = s]
      PROVE  /\ Locals' /\ Unmoved(e) /\ SameBudget(e) /\ SameProcess(e) /\ SameEnding(e)
             /\ ex'[e].pc = "read" /\ ex'[e].step = s
  <2> DEFINE row == [ex[e] EXCEPT !.pc = "read", !.step = s]
  <2>1. ex[e] \in ExecRow
    BY DEF Locals
  <2>2. row \in ExecRow
    BY <2>1 DEF ExecRow, Steady, Gone
  <2>3. ex' = [ex EXCEPT ![e] = row]
    BY <1>2, <2>1 DEF Locals, ExecRow
  <2>4. /\ row.pc = "read" /\ row.step = s /\ row.run = ex[e].run
        /\ row.deadline = ex[e].deadline /\ row.end = ex[e].end
        /\ row.hit = ex[e].hit /\ row.killed = ex[e].killed /\ row.outcome = ex[e].outcome
        /\ row.finished = ex[e].finished /\ row.skips = ex[e].skips /\ row.left = ex[e].left
        /\ row.timedOut = ex[e].timedOut /\ row.reason = ex[e].reason
    BY <2>1 DEF ExecRow
  <2> HIDE DEF row
  <2> QED BY <2>2, <2>3, <2>4, Updated DEF SameBudget, SameProcess, SameEnding
<1> QED BY <1>1, <1>2 DEF PickStep

LEMMA WaitMoves ==
    ASSUME TypeOK, Locals, NEW e \in Exec, ex[e].run \in Run, RetryWait(e)
    PROVE  /\ Locals' /\ Unmoved(e) /\ SameBudget(e) /\ SameStep(e) /\ SameEnding(e)
           /\ ex'[e].killed = ex[e].killed /\ ex'[e].outcome = ex[e].outcome
           /\ ex'[e].finished = ex[e].finished
           /\ ex[e].pc = "wait"
           /\ \/ ex'[e].pc = "sleep" /\ ex'[e].end \in Nat
              \/ ex'[e].pc = "pending" /\ Parked(ex[e].run) = {}
<1>1. CASE Parked(ex[e].run) = {} /\ Goto(e, "wait", "pending")
  BY <1>1, Hops DEF Points, Steady, SameProcess
<1>2. ASSUME NEW t \in {steps[ex[e].run][s].nextAt : s \in Parked(ex[e].run)},
             ex' = [ex EXCEPT ![e].pc = "sleep", ![e].end = t]
      PROVE  /\ Locals' /\ Unmoved(e) /\ SameBudget(e) /\ SameStep(e) /\ SameEnding(e)
             /\ ex'[e].killed = ex[e].killed /\ ex'[e].outcome = ex[e].outcome
             /\ ex'[e].finished = ex[e].finished
             /\ ex'[e].pc = "sleep" /\ ex'[e].end = t /\ t \in Nat
  <2> DEFINE row == [ex[e] EXCEPT !.pc = "sleep", !.end = t]
  <2>0. t \in Nat
    BY DEF Parked, StepsIn, TypeOK, StepRow, Time
  <2>1. ex[e] \in ExecRow
    BY DEF Locals
  <2>2. row \in ExecRow
    BY <2>0, <2>1 DEF ExecRow, Steady, Gone, Time
  <2>3. ex' = [ex EXCEPT ![e] = row]
    BY <1>2, <2>1 DEF Locals, ExecRow
  <2>4. /\ row.pc = "sleep" /\ row.end = t /\ row.run = ex[e].run
        /\ row.deadline = ex[e].deadline /\ row.step = ex[e].step
        /\ row.attempt = ex[e].attempt
        /\ row.killed = ex[e].killed /\ row.outcome = ex[e].outcome
        /\ row.finished = ex[e].finished /\ row.skips = ex[e].skips
        /\ row.timedOut = ex[e].timedOut /\ row.reason = ex[e].reason
    BY <2>1 DEF ExecRow
  <2> HIDE DEF row
  <2> QED BY <2>0, <2>2, <2>3, <2>4, Updated DEF SameBudget, SameStep, SameEnding
<1> QED BY <1>1, <1>2 DEF RetryWait

LEMMA WakeMoves ==
    ASSUME Locals, NEW e \in Exec, Wake(e)
    PROVE  /\ Locals' /\ Unmoved(e) /\ SameBudget(e) /\ SameEnding(e)
           /\ ex[e].pc = "sleep" /\ ex'[e].pc = "loop"
           /\ ex'[e].finished = NULL /\ ex'[e].killed = FALSE /\ ex'[e].outcome = NULL
<1>1. "loop" \in Points
  BY DEF Points, Steady
<1> DEFINE row == BackTo(e, "loop")
<1>2. ex' = [ex EXCEPT ![e] = row] /\ ex[e].pc = "sleep"
  BY DEF Wake
<1>4. /\ row \in ExecRow /\ row.pc = "loop"
      /\ row.run = ex[e].run /\ row.deadline = ex[e].deadline
      /\ row.killed = FALSE /\ row.outcome = NULL
      /\ row.finished = NULL /\ row.skips = ex[e].skips
      /\ row.timedOut = ex[e].timedOut /\ row.reason = ex[e].reason
  BY <1>1, Back
<1> HIDE DEF row
<1>5. Locals' /\ Unmoved(e) /\ ex'[e] = row
  BY <1>2, <1>4, Updated
<1> QED BY <1>2, <1>4, <1>5 DEF SameBudget, SameEnding

LEMMA ReadMoves ==
    ASSUME TypeOK, Locals, NEW e \in Exec, ex[e].run \in Run, ex[e].step \in Step, ReadStep(e)
    PROVE  /\ Locals' /\ Unmoved(e) /\ SameBudget(e) /\ SameProcess(e) /\ SameEnding(e)
           /\ ex[e].pc = "read" /\ ex'[e].pc = "start" /\ ex'[e].step = ex[e].step
           /\ ex'[e].attempt = steps[ex[e].run][ex[e].step].attempt + 1
<1> DEFINE a == steps[ex[e].run][ex[e].step].attempt + 1
           row == [ex[e] EXCEPT !.pc = "start", !.attempt = a]
<1>0. a \in Nat
  BY DEF TypeOK, StepRow
<1>1. ex[e] \in ExecRow
  BY DEF Locals
<1>2. row \in ExecRow
  BY <1>0, <1>1 DEF ExecRow, Steady, Gone
<1>3. ex' = [ex EXCEPT ![e] = row] /\ ex[e].pc = "read"
  BY <1>1 DEF Locals, ExecRow, ReadStep
<1>4. /\ row.pc = "start" /\ row.attempt = a /\ row.run = ex[e].run
      /\ row.deadline = ex[e].deadline /\ row.step = ex[e].step /\ row.end = ex[e].end
      /\ row.hit = ex[e].hit /\ row.killed = ex[e].killed /\ row.outcome = ex[e].outcome
      /\ row.finished = ex[e].finished /\ row.skips = ex[e].skips /\ row.left = ex[e].left
      /\ row.timedOut = ex[e].timedOut /\ row.reason = ex[e].reason
  BY <1>1 DEF ExecRow
<1> HIDE DEF row
<1> QED BY <1>2, <1>3, <1>4, Updated DEF SameBudget, SameProcess, SameEnding

LEMMA TimeLeftFacts ==
    ASSUME Locals, now \in Nat, NEW e \in Exec
    PROVE  /\ TimeLeft(e) \in Int /\ DeadlineHit(e) \in BOOLEAN
           /\ DeadlineHit(e) => ex[e].deadline # NULL /\ now + TimeLeft(e) = ex[e].deadline
<1>1. ex[e].deadline \in Nat \union {NULL} /\ StepTimeout \in Nat
  BY ExecAssumption DEF Locals, ExecRow, Time
<1>2. CASE ex[e].deadline = NULL
  BY <1>1, <1>2 DEF TimeLeft, DeadlineHit
<1>3. CASE ex[e].deadline \in Nat
  <2>1. PICK d \in Nat : d = ex[e].deadline
    BY <1>3
  <2>2. d # NULL
    BY NullAssumption
  <2>3. /\ TimeLeft(e) = IF d < now + StepTimeout THEN d - now ELSE StepTimeout
        /\ DeadlineHit(e) <=> d < now + StepTimeout
    BY <2>1, <2>2 DEF TimeLeft, DeadlineHit
  <2>4. DeadlineHit(e) \in BOOLEAN
    BY DEF DeadlineHit
  <2> QED BY <1>1, <2>1, <2>2, <2>3, <2>4
<1> QED BY <1>1, <1>2, <1>3

LEMMA ReadBudgetMoves ==
    ASSUME Locals, now \in Nat, NEW e \in Exec, ReadBudget(e)
    PROVE  /\ Locals' /\ Unmoved(e) /\ SameBudget(e) /\ SameStep(e) /\ SameEnding(e)
           /\ ex[e].pc = "launch" /\ ex'[e].pc = "spawn"
           /\ ex'[e].end = now /\ ex'[e].left = TimeLeft(e) /\ ex'[e].hit = DeadlineHit(e)
           /\ ex'[e].killed = ex[e].killed /\ ex'[e].outcome = ex[e].outcome
           /\ ex'[e].finished = ex[e].finished
<1> DEFINE given == TimeLeft(e)
           hit == DeadlineHit(e)
           row == [ex[e] EXCEPT !.pc = "spawn", !.left = given, !.end = now, !.hit = hit]
<1>0. given \in Int /\ hit \in BOOLEAN
  BY TimeLeftFacts
<1>1. ex[e] \in ExecRow
  BY DEF Locals
<1>2. ex' = [ex EXCEPT ![e] = row] /\ ex[e].pc = "launch"
  BY <1>1 DEF Locals, ExecRow, ReadBudget
<1>6. given = TimeLeft(e) /\ hit = DeadlineHit(e)
  OBVIOUS
<1> HIDE DEF given, hit
<1>3. row \in ExecRow
  BY <1>0, <1>1 DEF ExecRow, Steady, Gone, Time
<1>4. /\ row.pc = "spawn" /\ row.hit = hit /\ row.end = now /\ row.left = given
      /\ row.run = ex[e].run /\ row.deadline = ex[e].deadline /\ row.step = ex[e].step
      /\ row.attempt = ex[e].attempt
      /\ row.killed = ex[e].killed /\ row.outcome = ex[e].outcome
      /\ row.finished = ex[e].finished /\ row.skips = ex[e].skips
      /\ row.timedOut = ex[e].timedOut /\ row.reason = ex[e].reason
  BY <1>1 DEF ExecRow
<1> HIDE DEF row
<1>5. Locals' /\ Unmoved(e) /\ ex'[e] = row
  BY <1>2, <1>3, Updated
<1> QED BY <1>2, <1>4, <1>5, <1>6 DEF SameBudget, SameStep, SameEnding

\* The timer is armed after the time left was read, so it fires no earlier than
\* that reading plus the time left.
LEMMA LaunchMoves ==
    ASSUME Locals, now \in Nat, NEW e \in Exec, Launch(e), ex[e].end \in Nat
    PROVE  /\ Locals' /\ Unmoved(e) /\ SameBudget(e) /\ SameStep(e) /\ SameEnding(e)
           /\ ex[e].pc = "spawn" /\ ex'[e].pc = "process"
           /\ ex'[e].end \in Nat /\ ex[e].end + ex[e].left <= ex'[e].end
           /\ ex'[e].killed = ex[e].killed /\ ex'[e].outcome = ex[e].outcome
           /\ ex'[e].finished = ex[e].finished /\ ex'[e].hit = ex[e].hit
<1>1. ex[e] \in ExecRow /\ ex[e].left \in Int /\ ex[e].left > 0 /\ ex[e].pc = "spawn"
  BY DEF Locals, ExecRow, Launch
<1>2. PICK armed \in 0..now :
        /\ ex[e].end <= armed
        /\ ex' = [ex EXCEPT ![e].pc = "process", ![e].left = 0, ![e].end = armed + ex[e].left]
  BY DEF Launch
<1> DEFINE end == armed + ex[e].left
           none == 0
           row == [ex[e] EXCEPT !.pc = "process", !.left = none, !.end = end]
<1>0. end \in Nat /\ ex[e].end + ex[e].left <= end /\ none \in Int
  BY <1>1, <1>2
<1>3. ex' = [ex EXCEPT ![e] = row]
  BY <1>1, <1>2 DEF Locals, ExecRow
<1> HIDE DEF end, none
<1>4. row \in ExecRow
  BY <1>0, <1>1 DEF ExecRow, Steady, Gone, Time
<1>5. /\ row.pc = "process" /\ row.hit = ex[e].hit /\ row.end = end /\ row.run = ex[e].run
      /\ row.deadline = ex[e].deadline /\ row.step = ex[e].step
      /\ row.attempt = ex[e].attempt
      /\ row.killed = ex[e].killed /\ row.outcome = ex[e].outcome
      /\ row.finished = ex[e].finished /\ row.skips = ex[e].skips
      /\ row.timedOut = ex[e].timedOut /\ row.reason = ex[e].reason
  BY <1>1 DEF ExecRow
<1> HIDE DEF row
<1>6. Locals' /\ Unmoved(e) /\ ex'[e] = row
  BY <1>3, <1>4, Updated
<1> QED BY <1>0, <1>1, <1>5, <1>6 DEF SameBudget, SameStep, SameEnding

LEMMA SpawnMoves ==
    ASSUME Locals, NEW e \in Exec, SpawnFails(e)
    PROVE  /\ Locals' /\ Unmoved(e) /\ SameBudget(e) /\ SameStep(e) /\ SameEnding(e)
           /\ ex[e].pc = "spawn" /\ ex'[e].pc = "record"
           /\ ex'[e].outcome = "SpawnFailed"
           /\ ex'[e].killed = ex[e].killed /\ ex'[e].finished = ex[e].finished
<1> DEFINE none == 0
           row == [ex[e] EXCEPT !.pc = "record", !.left = none, !.end = NULL,
                                !.outcome = "SpawnFailed"]
<1>0. none \in Int
  OBVIOUS
<1>1. ex[e] \in ExecRow
  BY DEF Locals
<1>2. ex' = [ex EXCEPT ![e] = row] /\ ex[e].pc = "spawn"
  BY <1>1 DEF Locals, ExecRow, SpawnFails
<1> HIDE DEF none
<1>3. row \in ExecRow
  BY <1>0, <1>1 DEF ExecRow, Steady, Gone, Outcomes, Time
<1>4. /\ row.pc = "record" /\ row.run = ex[e].run
      /\ row.deadline = ex[e].deadline /\ row.step = ex[e].step
      /\ row.attempt = ex[e].attempt
      /\ row.killed = ex[e].killed /\ row.outcome = "SpawnFailed"
      /\ row.finished = ex[e].finished /\ row.skips = ex[e].skips
      /\ row.timedOut = ex[e].timedOut /\ row.reason = ex[e].reason
  BY <1>1 DEF ExecRow
<1> HIDE DEF row
<1>5. Locals' /\ Unmoved(e) /\ ex'[e] = row
  BY <1>2, <1>3, Updated
<1> QED BY <1>2, <1>4, <1>5 DEF SameBudget, SameStep, SameEnding

LEMMA PollMoves ==
    ASSUME Locals, NEW e \in Exec, PollCancel(e)
    PROVE  /\ Locals' /\ Unmoved(e) /\ SameBudget(e) /\ SameStep(e) /\ SameEnding(e)
           /\ ex[e].pc \in {"spawn", "process"} /\ ex'[e].pc = ex[e].pc
           /\ CancelRequested(ex[e].run) /\ ex'[e].left = ex[e].left
           /\ ex'[e].killed = TRUE /\ ex'[e].end = ex[e].end /\ ex'[e].hit = ex[e].hit
           /\ ex'[e].outcome = ex[e].outcome /\ ex'[e].finished = ex[e].finished
<1> DEFINE row == [ex[e] EXCEPT !.killed = TRUE]
<1>1. ex[e] \in ExecRow
  BY DEF Locals
<1>2. /\ ex' = [ex EXCEPT ![e] = row] /\ ex[e].pc \in {"spawn", "process"}
      /\ CancelRequested(ex[e].run)
  BY <1>1 DEF Locals, ExecRow, PollCancel
<1>3. row \in ExecRow
  BY <1>1 DEF ExecRow
<1>4. /\ row.pc = ex[e].pc /\ row.hit = ex[e].hit /\ row.end = ex[e].end
      /\ row.run = ex[e].run
      /\ row.deadline = ex[e].deadline /\ row.step = ex[e].step
      /\ row.attempt = ex[e].attempt
      /\ row.killed = TRUE /\ row.outcome = ex[e].outcome /\ row.left = ex[e].left
      /\ row.finished = ex[e].finished /\ row.skips = ex[e].skips
      /\ row.timedOut = ex[e].timedOut /\ row.reason = ex[e].reason
  BY <1>1 DEF ExecRow
<1> HIDE DEF row
<1>5. Locals' /\ Unmoved(e) /\ ex'[e] = row
  BY <1>2, <1>3, Updated
<1> QED BY <1>2, <1>4, <1>5 DEF SameBudget, SameStep, SameEnding

LEMMA EndsMoves ==
    ASSUME Locals, now \in Nat, NEW e \in Exec, NEW outcome \in Outcomes, ProcessEnds(e, outcome)
    PROVE  /\ Locals' /\ Unmoved(e) /\ SameBudget(e) /\ SameStep(e) /\ SameEnding(e)
           /\ ex[e].pc = "process" /\ ex'[e].pc = "record"
           /\ ex'[e].outcome = outcome /\ ex'[e].finished = now
           /\ outcome = "Cancelled" => ex[e].killed
           /\ outcome = "TimedOut" => ex[e].end <= now
           /\ ex'[e].killed = ex[e].killed /\ ex'[e].hit = ex[e].hit
<1> DEFINE row == [ex[e] EXCEPT !.pc = "record", !.outcome = outcome, !.finished = now]
<1>1. ex[e] \in ExecRow
  BY DEF Locals
<1>2. ex' = [ex EXCEPT ![e] = row] /\ ex[e].pc = "process"
      /\ (outcome = "Cancelled" => ex[e].killed)
      /\ (outcome = "TimedOut" => ex[e].end <= now)
  BY <1>1 DEF Locals, ExecRow, ProcessEnds, MayEndAs
<1>3. row \in ExecRow
  BY <1>1 DEF ExecRow, Steady, Gone, Time
<1>4. /\ row.pc = "record" /\ row.hit = ex[e].hit /\ row.end = ex[e].end
      /\ row.run = ex[e].run
      /\ row.deadline = ex[e].deadline /\ row.step = ex[e].step
      /\ row.attempt = ex[e].attempt
      /\ row.killed = ex[e].killed /\ row.outcome = outcome
      /\ row.finished = now /\ row.skips = ex[e].skips
      /\ row.timedOut = ex[e].timedOut /\ row.reason = ex[e].reason
  BY <1>1 DEF ExecRow
<1> HIDE DEF row
<1>5. Locals' /\ Unmoved(e) /\ ex'[e] = row
  BY <1>2, <1>3, Updated
<1> QED BY <1>2, <1>4, <1>5 DEF SameBudget, SameStep, SameEnding

LEMMA PendingMoves ==
    ASSUME Locals, NEW e \in Exec, ReadPending(e)
    PROVE  /\ Locals' /\ Unmoved(e) /\ SameBudget(e) /\ SameStep(e) /\ SameProcess(e)
           /\ ex[e].pc = "pending" /\ ex'[e].pc = "skip"
           /\ ex'[e].skips = StepsIn(ex[e].run, {"pending"})
           /\ ex'[e].timedOut = ex[e].timedOut
<1> DEFINE pending == StepsIn(ex[e].run, {"pending"})
           row == [ex[e] EXCEPT !.pc = "skip", !.skips = pending]
<1>0. pending \in SUBSET Step
  BY DEF StepsIn
<1>1. ex[e] \in ExecRow
  BY DEF Locals
<1>2. ex' = [ex EXCEPT ![e] = row] /\ ex[e].pc = "pending"
  BY <1>1 DEF Locals, ExecRow, ReadPending
<1>6. pending = StepsIn(ex[e].run, {"pending"})
  OBVIOUS
<1> HIDE DEF pending
<1>3. row \in ExecRow
  BY <1>0, <1>1 DEF ExecRow, Steady, Gone
<1>4. /\ row.pc = "skip" /\ row.hit = ex[e].hit /\ row.end = ex[e].end
      /\ row.run = ex[e].run
      /\ row.deadline = ex[e].deadline /\ row.step = ex[e].step
      /\ row.attempt = ex[e].attempt
      /\ row.killed = ex[e].killed /\ row.outcome = ex[e].outcome
      /\ row.finished = ex[e].finished /\ row.skips = pending /\ row.left = ex[e].left
      /\ row.timedOut = ex[e].timedOut
  BY <1>1 DEF ExecRow
<1> HIDE DEF row
<1>5. Locals' /\ Unmoved(e) /\ ex'[e] = row
  BY <1>2, <1>3, Updated
<1> QED BY <1>2, <1>4, <1>5, <1>6 DEF SameBudget, SameStep, SameProcess

LEMMA SkipMoves ==
    ASSUME Locals, NEW e \in Exec, NEW s \in Step, SkipStep(e, s)
    PROVE  /\ Locals' /\ Unmoved(e) /\ SameBudget(e) /\ SameStep(e) /\ SameProcess(e)
           /\ ex[e].pc = "skip" /\ ex'[e].pc = "skip"
           /\ ex'[e].skips = ex[e].skips \ {s}
           /\ ex'[e].timedOut = ex[e].timedOut
<1> DEFINE pending == ex[e].skips \ {s}
           row == [ex[e] EXCEPT !.skips = pending]
<1>1. ex[e] \in ExecRow
  BY DEF Locals
<1>2. ex' = [ex EXCEPT ![e] = row] /\ ex[e].pc = "skip"
  BY <1>1 DEF Locals, ExecRow, SkipStep
<1>0. pending \in SUBSET Step
  BY <1>1 DEF ExecRow
<1>6. pending = ex[e].skips \ {s}
  OBVIOUS
<1> HIDE DEF pending
<1>3. row \in ExecRow
  BY <1>0, <1>1 DEF ExecRow
<1>4. /\ row.pc = ex[e].pc /\ row.hit = ex[e].hit /\ row.end = ex[e].end
      /\ row.run = ex[e].run
      /\ row.deadline = ex[e].deadline /\ row.step = ex[e].step
      /\ row.attempt = ex[e].attempt
      /\ row.killed = ex[e].killed /\ row.outcome = ex[e].outcome
      /\ row.finished = ex[e].finished /\ row.skips = pending /\ row.left = ex[e].left
      /\ row.timedOut = ex[e].timedOut
  BY <1>1 DEF ExecRow
<1> HIDE DEF row
<1>5. Locals' /\ Unmoved(e) /\ ex'[e] = row
  BY <1>2, <1>3, Updated
<1> QED BY <1>2, <1>4, <1>5, <1>6 DEF SameBudget, SameStep, SameProcess

\* The reason a run ends with, before it is written.
ReasonOf(e) == IF ex[e].timedOut THEN "RUN_TIMED_OUT"
               ELSE IF FirstEndedIs(e, "failed") THEN "RUN_FAILED_STEP"
               ELSE IF FirstEndedIs(e, "cancelled") THEN "RUN_CANCELLED_MANUAL"
               ELSE "RUN_SUCCEEDED"

LEMMA ReasonMoves ==
    ASSUME Locals, NEW e \in Exec, FinishReason(e)
    PROVE  /\ Locals' /\ Unmoved(e) /\ SameBudget(e) /\ SameStep(e) /\ SameProcess(e)
           /\ ex[e].pc = "skip" /\ ex'[e].pc = "finish" /\ ex[e].skips = {}
           /\ ex'[e].reason = ReasonOf(e) /\ ex'[e].reason \in Code
           /\ ex'[e].timedOut = ex[e].timedOut
<1> DEFINE code == ReasonOf(e)
           row == [ex[e] EXCEPT !.pc = "finish", !.reason = code]
<1>1. ex[e] \in ExecRow
  BY DEF Locals
<1>2. ex' = [ex EXCEPT ![e] = row] /\ ex[e].pc = "skip" /\ ex[e].skips = {}
  BY <1>1 DEF Locals, ExecRow, FinishReason, ReasonOf
<1>0. code \in Code
  BY CodeFacts DEF ReasonOf
<1>6. code = ReasonOf(e)
  OBVIOUS
<1> HIDE DEF code
<1>3. row \in ExecRow
  BY <1>0, <1>1 DEF ExecRow, Steady, Gone
<1>4. /\ row.pc = "finish" /\ row.hit = ex[e].hit /\ row.end = ex[e].end
      /\ row.run = ex[e].run
      /\ row.deadline = ex[e].deadline /\ row.step = ex[e].step
      /\ row.attempt = ex[e].attempt
      /\ row.killed = ex[e].killed /\ row.outcome = ex[e].outcome
      /\ row.finished = ex[e].finished /\ row.reason = code /\ row.left = ex[e].left
      /\ row.timedOut = ex[e].timedOut
  BY <1>1 DEF ExecRow
<1> HIDE DEF row
<1>5. Locals' /\ Unmoved(e) /\ ex'[e] = row
  BY <1>2, <1>3, Updated
<1> QED BY <1>0, <1>2, <1>4, <1>5, <1>6 DEF SameBudget, SameStep, SameProcess

LEMMA DieMoves ==
    ASSUME Locals, NEW e \in Exec, Die(e)
    PROVE  /\ Locals' /\ Unmoved(e) /\ SameBudget(e)
           /\ ex[e].pc \in Steady /\ ex'[e].pc = "dead"
           /\ ex'[e].finished = NULL /\ ex'[e].killed = FALSE /\ ex'[e].outcome = NULL
           /\ ex'[e].hit = FALSE /\ ex'[e].timedOut = ex[e].timedOut
<1> DEFINE back == BackTo(e, "dead")
           row == [back EXCEPT !.skips = {}]
<1>1. "dead" \in Points
  BY DEF Points, Gone
<1>2. /\ back \in ExecRow
      /\ back.pc = "dead" /\ back.run = ex[e].run /\ back.deadline = ex[e].deadline
      /\ back.hit = FALSE /\ back.killed = FALSE /\ back.outcome = NULL
      /\ back.finished = NULL /\ back.timedOut = ex[e].timedOut
  BY <1>1, Back
<1>3. ex' = [ex EXCEPT ![e] = row] /\ ex[e].pc \in Steady
  BY DEF Die
<1> HIDE DEF back
<1>4. /\ row \in ExecRow
      /\ row.pc = "dead" /\ row.run = ex[e].run /\ row.deadline = ex[e].deadline
      /\ row.hit = FALSE /\ row.killed = FALSE /\ row.outcome = NULL
      /\ row.finished = NULL /\ row.timedOut = ex[e].timedOut
  BY <1>2 DEF ExecRow
<1> HIDE DEF row
<1>5. Locals' /\ Unmoved(e) /\ ex'[e] = row
  BY <1>3, <1>4, Updated
<1> QED BY <1>3, <1>4, <1>5 DEF SameBudget

LEMMA RecordMoves ==
    ASSUME Locals, NEW e \in Exec, NEW delay \in Delays, Record(e, delay)
    PROVE  /\ Locals' /\ Unmoved(e) /\ SameBudget(e)
           /\ ex[e].pc = "record"
           /\ ex'[e].pc = IF SpentRunBudget(e) THEN "pending" ELSE "loop"
           /\ ex'[e].timedOut = IF SpentRunBudget(e) THEN TRUE ELSE ex[e].timedOut
           /\ ex'[e].finished = NULL /\ ex'[e].killed = FALSE /\ ex'[e].outcome = NULL
           /\ ex'[e].hit = FALSE
<1>0. "pending" \in Points /\ "loop" \in Points
  BY DEF Points, Steady
<1>1. CASE SpentRunBudget(e)
  <2> DEFINE back == BackTo(e, "pending")
             row == [back EXCEPT !.timedOut = TRUE]
  <2>1. /\ back \in ExecRow
        /\ back.pc = "pending" /\ back.run = ex[e].run /\ back.deadline = ex[e].deadline
        /\ back.hit = FALSE /\ back.killed = FALSE /\ back.outcome = NULL
        /\ back.finished = NULL
    BY <1>0, Back
  <2>2. ex' = [ex EXCEPT ![e] = row] /\ ex[e].pc = "record"
    BY <1>1 DEF Record
  <2> HIDE DEF back
  <2>3. /\ row \in ExecRow
        /\ row.pc = "pending" /\ row.run = ex[e].run /\ row.deadline = ex[e].deadline
        /\ row.hit = FALSE /\ row.killed = FALSE /\ row.outcome = NULL
        /\ row.finished = NULL /\ row.timedOut = TRUE
    BY <2>1 DEF ExecRow
  <2> HIDE DEF row
  <2>4. Locals' /\ Unmoved(e) /\ ex'[e] = row
    BY <2>2, <2>3, Updated
  <2> QED BY <1>1, <2>2, <2>3, <2>4 DEF SameBudget
<1>2. CASE ~SpentRunBudget(e)
  <2> DEFINE row == BackTo(e, "loop")
  <2>1. /\ row \in ExecRow
        /\ row.pc = "loop" /\ row.run = ex[e].run /\ row.deadline = ex[e].deadline
        /\ row.hit = FALSE /\ row.killed = FALSE /\ row.outcome = NULL
        /\ row.finished = NULL /\ row.timedOut = ex[e].timedOut
    BY <1>0, Back
  <2>2. ex' = [ex EXCEPT ![e] = row] /\ ex[e].pc = "record"
    BY <1>2 DEF Record
  <2> HIDE DEF row
  <2>3. Locals' /\ Unmoved(e) /\ ex'[e] = row
    BY <2>1, <2>2, Updated
  <2> QED BY <1>2, <2>1, <2>2, <2>3 DEF SameBudget
<1> QED BY <1>1, <1>2

LEMMA ClaimMoves ==
    ASSUME Locals, NEW e \in Exec, Claim(e)
    PROVE  /\ Locals' /\ Unmoved(e) /\ SameBudget(e) /\ SameStep(e) /\ SameProcess(e)
           /\ SameEnding(e) /\ ex[e].pc = "claim"
           /\ ex'[e].pc = IF runs'[ex[e].run].state = "cancelled" THEN "returned" ELSE "loop"
<1> DEFINE to == IF runs'[ex[e].run].state = "cancelled" THEN "returned" ELSE "loop"
<1>1. to \in Points
  BY DEF Points, Steady, Gone
<1>2. ex' = [ex EXCEPT ![e].pc = to] /\ ex[e].pc = "claim"
  BY DEF Claim
<1>3. to = IF runs'[ex[e].run].state = "cancelled" THEN "returned" ELSE "loop"
  OBVIOUS
<1> HIDE DEF to
<1>4. /\ Locals' /\ Unmoved(e) /\ ex'[e].pc = to
      /\ SameBudget(e) /\ SameStep(e) /\ SameProcess(e) /\ SameEnding(e)
  BY <1>1, <1>2, Hop
<1> QED BY <1>2, <1>3, <1>4

-----------------------------------------------------------------------------
(* Every step of the engine is a transaction of the store, or none of it.  *)

InHand == {"read", "start", "launch", "spawn", "process", "record"}

\* Which locals have a value at which point, and what the clock has to do with them.
Shape(e) ==
    /\ ex[e].pc # "idle" => ex[e].run \in Run
    /\ ex[e].pc \in InHand => ex[e].step \in Step
    /\ ex[e].pc = "record" => ex[e].outcome \in Outcomes
    /\ ex[e].pc \in {"spawn", "process", "sleep"} => ex[e].end \in Nat
    /\ ex[e].pc = "finish" => ex[e].reason \in Code
    /\ ex[e].finished \in (0..MaxTime) \union {NULL}
    /\ ex[e].timedOut => ex[e].pc # "idle"

\* The budget's end against what the process is given: the time left was read up to
\* it, the timer of a process given no more than that fires no earlier, and a verdict
\* that blames the budget comes after it.
OnBudget(e) ==
    /\ ex[e].pc = "spawn" /\ ex[e].hit =>
          ex[e].deadline \in Nat /\ ex[e].deadline <= ex[e].end + ex[e].left
    /\ ex[e].pc = "process" /\ ex[e].hit =>
          ex[e].deadline \in Nat /\ ex[e].deadline <= ex[e].end
    /\ ex[e].pc = "record" /\ SpentRunBudget(e) =>
          ex[e].deadline \in Nat /\ ex[e].deadline <= now
    /\ ex[e].timedOut => ex[e].deadline \in Nat /\ ex[e].deadline <= now

Sane == ETypeOK /\ now <= MaxTime /\ \A e \in Exec : Shape(e)

LEMMA TimesFacts ==
    ASSUME Sane
    PROVE  /\ now \in Nat /\ now \in 0..MaxTime /\ now \in Times /\ MaxTime \in Nat
           /\ Locals /\ TypeOK
BY TimeAssumption, ExecAssumption DEF Sane, ETypeOK, TypeOK, Locals

LEMMA RecordIsTransaction ==
    ASSUME Sane, NEW e \in Exec, NEW delay \in Delays, Record(e, delay)
    PROVE  Transaction(ex[e].run)
<1>0. ex[e].pc = "record"
  BY DEF Record
<1>1. /\ ex[e].step \in Step /\ ex[e].outcome \in Outcomes
      /\ ex[e].finished \in (0..MaxTime) \union {NULL} /\ now \in 0..MaxTime
  BY <1>0, TimesFacts DEF Sane, Shape, InHand
<1> DEFINE v == VerdictFor(ex[e].outcome)
           budget == Budget[ex[e].step]
           retries == v.event = "step_failed" /\ ~SpentRunBudget(e) /\ budget > 1
           planned == retries /\ ex[e].attempt < budget
           finished == IF ex[e].finished = NULL THEN now ELSE ex[e].finished
           code == IF retries /\ ~planned THEN "STEP_RETRIES_EXHAUSTED" ELSE v.code
           at == IF planned THEN finished + delay ELSE finished
           plan == IF planned THEN "STEP_RETRY_SCHEDULED" ELSE NULL
<1>2. RecordStepOutcome(ex[e].run, ex[e].step, v.event, code, at, plan)
  BY DEF Record
<1>3. v.event \in StepEvents
  BY <1>1 DEF VerdictFor, Outcomes, StepEvents
<1>4. code \in Code /\ plan \in Code \union {NULL}
  BY <1>1, CodeFacts
<1>5. finished \in 0..MaxTime
  BY <1>1
<1>6. at \in Times
  BY <1>5, ExecAssumption
<1> HIDE DEF v, code, at, plan
<1> QED BY <1>1, <1>2, <1>3, <1>4, <1>6 DEF Transaction

LEMMA StoreActs ==
    ASSUME Sane, NEW e \in Exec,
           \/ Claim(e) \/ ObserveCancel(e) \/ Start(e) \/ Finish(e)
           \/ (\E delay \in Delays : Record(e, delay)) \/ (\E s \in Step : SkipStep(e, s))
    PROVE  ex[e].run \in Run /\ Transaction(ex[e].run)
<1> USE TimesFacts
<1>0. Shape(e) /\ OwnerOf[e] \in Owner
  BY ExecAssumption DEF Sane
<1>1. CASE Claim(e)
  <2>1. ex[e].run \in Run
    BY <1>0, <1>1 DEF Claim, Shape
  <2> QED BY <1>0, <1>1, <2>1, CodeFacts DEF Claim, Transaction
<1>2. CASE ObserveCancel(e)
  <2>1. ex[e].run \in Run
    BY <1>0, <1>2 DEF ObserveCancel, Goto, Shape
  <2> QED BY <1>0, <1>2, <2>1, CodeFacts DEF ObserveCancel, Transaction
<1>3. CASE Start(e)
  <2>1. ex[e].run \in Run /\ ex[e].step \in Step
    BY <1>0, <1>3 DEF Start, Goto, Shape, InHand
  <2> QED BY <1>3, <2>1 DEF Start, Transaction
<1>4. CASE Finish(e)
  <2>1. ex[e].run \in Run /\ ex[e].reason \in Code
    BY <1>0, <1>4 DEF Finish, Goto, Shape
  <2> QED BY <1>0, <1>4, <2>1 DEF Finish, Transaction
<1>5. CASE \E delay \in Delays : Record(e, delay)
  <2>1. ex[e].run \in Run
    BY <1>0, <1>5 DEF Record, Shape
  <2> QED BY <1>5, <2>1, RecordIsTransaction
<1>6. ASSUME NEW s \in Step, SkipStep(e, s)
      PROVE  ex[e].run \in Run /\ Transaction(ex[e].run)
  <2>1. ex[e].run \in Run
    BY <1>0, <1>6 DEF SkipStep, Shape
  <2>2. "upstream_failed" \in StepEvents /\ "STEP_SKIPPED_UPSTREAM_FAILED" \in Code
        /\ now \in Times
    BY CodeFacts DEF StepEvents
  <2>3. RecordStepOutcome(ex[e].run, s, "upstream_failed",
                          "STEP_SKIPPED_UPSTREAM_FAILED", now, NULL)
    BY <1>6 DEF SkipStep
  <2> QED BY <2>1, <2>2, <2>3 DEF Transaction
<1> QED BY <1>1, <1>2, <1>3, <1>4, <1>5, <1>6

\* The steps of an executor that touch nothing but its own locals.
Quiet(e) ==
    \/ \E r \in Run : Begin(e, r)
    \/ ClaimRefused(e) \/ CheckCancel(e) \/ ObserveRefused(e)
    \/ PickStep(e) \/ RetryWait(e) \/ Wake(e) \/ ReadStep(e)
    \/ ReadBudget(e) \/ Launch(e) \/ SpawnFails(e) \/ LaunchRefused(e) \/ PollCancel(e)
    \/ (\E outcome \in Outcomes : ProcessEnds(e, outcome))
    \/ ReadPending(e) \/ FinishReason(e) \/ FinishRefused(e) \/ Die(e)

Acts(e) ==
    \/ Claim(e) \/ ObserveCancel(e) \/ Start(e) \/ Finish(e)
    \/ (\E delay \in Delays : Record(e, delay)) \/ (\E s \in Step : SkipStep(e, s))

LEMMA NextCases ==
    ENext <=> \/ EngineTick
              \/ \E r \in Run : Materialize(r) \/ \E a \in Actor : Interrupt(r, a)
              \/ \E e \in Exec : Quiet(e) \/ Acts(e)
BY DEF ENext, Advance, Quiet, Acts

LEMMA QuietFrame ==
    ASSUME NEW e \in Exec, Quiet(e)
    PROVE  UNCHANGED <<vars, late>>
BY DEF Quiet, Begin, ClaimRefused, CheckCancel, ObserveRefused, PickStep, RetryWait,
   Wake, ReadStep, ReadBudget, Launch, SpawnFails, LaunchRefused, PollCancel, ProcessEnds,
   ReadPending, FinishReason, FinishRefused, Die

LEMMA OutsideActs ==
    ASSUME Sane, NEW r \in Run, Materialize(r) \/ \E a \in Actor : Interrupt(r, a)
    PROVE  Transaction(r) /\ UNCHANGED <<ex, late, now>>
<1>1. now \in Times
  BY TimesFacts
<1> QED BY <1>1 DEF Materialize, Interrupt, Transaction, CreateRunWithSteps, RequestCancel

LEMMA StoreStep ==
    ASSUME Sane, [ENext]_evars
    PROVE  [Next]_vars
<1>1. CASE UNCHANGED evars
  BY <1>1 DEF evars, vars
<1>2. CASE EngineTick
  BY <1>2, NextIsTickOrTransaction DEF EngineTick
<1>3. ASSUME NEW r \in Run, Materialize(r) \/ \E a \in Actor : Interrupt(r, a)
      PROVE  [Next]_vars
  BY <1>3, OutsideActs, NextIsTickOrTransaction
<1>4. ASSUME NEW e \in Exec, Quiet(e) PROVE [Next]_vars
  BY <1>4, QuietFrame
<1>5. ASSUME NEW e \in Exec, Acts(e) PROVE [Next]_vars
  BY <1>5, StoreActs, NextIsTickOrTransaction DEF Acts
<1> QED BY <1>1, <1>2, <1>3, <1>4, <1>5, NextCases

-----------------------------------------------------------------------------
(* Types and locals. *)

LEMMA SaneInit == EInit => Sane
<1> SUFFICES ASSUME EInit PROVE Sane
  OBVIOUS
<1>1. TypeOK /\ now = 0
  BY TypeInit DEF EInit, Init
<1>2. Idle \in ExecRow
  BY DEF Idle, ExecRow, Time
<1>3. ETypeOK
  BY <1>1, <1>2 DEF EInit, ETypeOK
<1>4. \A e \in Exec : Shape(e)
  BY DEF EInit, Shape, Idle, InHand
<1> QED BY <1>1, <1>3, <1>4, TimeAssumption DEF Sane

LEMMA HopShape ==
    ASSUME Sane, NEW e \in Exec, NEW from \in Steady, NEW to \in Points,
           to \notin InHand \union {"idle", "sleep", "finish"}, Goto(e, from, to)
    PROVE  Locals' /\ Unmoved(e) /\ Shape(e)'
<1>1. from \in Points /\ from # "idle"
  BY DEF Points, Steady
<1>2. /\ Locals' /\ Unmoved(e) /\ ex[e].pc = from /\ ex'[e].pc = to
      /\ SameBudget(e) /\ SameStep(e) /\ SameProcess(e) /\ SameEnding(e)
  BY <1>1, Hops, TimesFacts
<1>3. Shape(e)
  BY DEF Sane
<1> QED BY <1>1, <1>2, <1>3 DEF Shape, InHand, SameBudget, SameProcess, SameEnding

LEMMA ShapeQuiet ==
    ASSUME Sane, NEW e \in Exec, Quiet(e)
    PROVE  Locals' /\ Unmoved(e) /\ Shape(e)'
<1> USE TimesFacts
<1>0. Shape(e) /\ NULL \notin Nat /\ ex[e] \in ExecRow
  BY NullAssumption DEF Sane, Locals
<1> USE DEF Shape, InHand
<1>1. ASSUME NEW r \in Run, Begin(e, r) PROVE Locals' /\ Unmoved(e) /\ Shape(e)'
  BY <1>1, BeginMoves
<1>2. CASE ClaimRefused(e)
  BY <1>2, HopShape DEF ClaimRefused, Points, Steady, Gone, InHand
<1>3. CASE CheckCancel(e)
  BY <1>3, HopShape DEF CheckCancel, Points, Steady, Gone, InHand
<1>4. CASE ObserveRefused(e)
  BY <1>4, HopShape DEF ObserveRefused, Points, Steady, Gone, InHand
<1>5. CASE PickStep(e)
  BY <1>0, <1>5, PickMoves DEF SameBudget, SameProcess, SameEnding
<1>6. CASE RetryWait(e)
  <2>1. ex[e].run \in Run
    BY <1>0, <1>6 DEF RetryWait, Goto
  <2> QED BY <1>0, <1>6, <2>1, WaitMoves DEF SameBudget, SameStep, SameEnding
<1>7. CASE Wake(e)
  BY <1>0, <1>7, WakeMoves DEF SameBudget, SameEnding
<1>8. CASE ReadStep(e)
  <2>1. ex[e].run \in Run /\ ex[e].step \in Step
    BY <1>0, <1>8 DEF ReadStep
  <2> QED BY <1>0, <1>8, <2>1, ReadMoves DEF SameBudget, SameProcess, SameEnding
<1>9. CASE Launch(e)
  <2>1. ex[e].end \in Nat
    BY <1>0, <1>9 DEF Launch
  <2> QED BY <1>0, <1>9, <2>1, LaunchMoves DEF SameBudget, SameStep, SameEnding
<1>10. CASE SpawnFails(e)
  BY <1>0, <1>10, SpawnMoves DEF SameBudget, SameStep, SameEnding, Outcomes
<1>18. CASE ReadBudget(e)
  BY <1>0, <1>18, ReadBudgetMoves DEF SameBudget, SameStep, SameEnding
<1>11. CASE LaunchRefused(e)
  BY <1>11, HopShape DEF LaunchRefused, Points, Steady, Gone, InHand
<1>12. CASE PollCancel(e)
  BY <1>0, <1>12, PollMoves DEF SameBudget, SameStep, SameEnding
<1>13. ASSUME NEW outcome \in Outcomes, ProcessEnds(e, outcome)
       PROVE  Locals' /\ Unmoved(e) /\ Shape(e)'
  BY <1>0, <1>13, EndsMoves DEF SameBudget, SameStep, SameEnding
<1>14. CASE ReadPending(e)
  BY <1>0, <1>14, PendingMoves DEF SameBudget, SameStep, SameProcess
<1>15. CASE FinishReason(e)
  BY <1>0, <1>15, ReasonMoves DEF SameBudget, SameStep, SameProcess
<1>16. CASE FinishRefused(e)
  BY <1>16, HopShape DEF FinishRefused, Points, Steady, Gone, InHand
<1>17. CASE Die(e)
  BY <1>0, <1>17, DieMoves DEF SameBudget, Steady
<1> QED BY <1>1, <1>2, <1>3, <1>4, <1>5, <1>6, <1>7, <1>8, <1>9, <1>10, <1>11, <1>12,
           <1>13, <1>14, <1>15, <1>16, <1>17, <1>18 DEF Quiet

LEMMA ShapeActs ==
    ASSUME Sane, NEW e \in Exec, Acts(e)
    PROVE  Locals' /\ Unmoved(e) /\ Shape(e)' /\ now' = now /\ late' \in [Run -> Nat]
<1> USE TimesFacts
<1>0. Shape(e) /\ NULL \notin Nat /\ late \in [Run -> Nat]
  BY NullAssumption DEF Sane, ETypeOK
<1> USE DEF Shape, InHand
<1>1. CASE Claim(e)
  <2>1. now' = now /\ late' = late
    BY <1>1 DEF Claim, ClaimRun
  <2> QED BY <1>0, <1>1, <2>1, ClaimMoves DEF SameBudget, SameProcess, SameEnding
<1>2. CASE ObserveCancel(e)
  <2>1. now' = now /\ late' = late
    BY <1>2 DEF ObserveCancel, ObserveRunCancel
  <2> QED BY <1>0, <1>2, <2>1, HopShape DEF ObserveCancel, Points, Steady, Gone, InHand
<1>3. CASE Start(e)
  <2>1. Locals' /\ Unmoved(e) /\ ex[e].pc = "start" /\ ex'[e].pc = "launch"
        /\ SameBudget(e) /\ SameStep(e) /\ SameProcess(e) /\ SameEnding(e)
    BY <1>3, Hops DEF Start, Points, Steady
  <2>2. Shape(e)'
    BY <1>0, <2>1 DEF SameBudget, SameStep, SameProcess, SameEnding
  <2>3. ex[e].run \in Run
    BY <1>0, <2>1
  <2>4. late' \in [Run -> Nat]
    <3> DEFINE n == IF CancelRequested(ex[e].run) THEN late[ex[e].run] + 1 ELSE late[ex[e].run]
    <3>1. n \in Nat
      BY <1>0, <2>3
    <3>2. late' = [late EXCEPT ![ex[e].run] = n]
      BY <1>3 DEF Start
    <3> QED BY <1>0, <3>1, <3>2
  <2>5. now' = now
    BY <1>3 DEF Start, StartStep
  <2> QED BY <2>1, <2>2, <2>4, <2>5
<1>4. CASE Finish(e)
  <2>1. now' = now /\ late' = late
    BY <1>4 DEF Finish, FinishRun
  <2> QED BY <1>0, <1>4, <2>1, HopShape DEF Finish, Points, Steady, Gone, InHand
<1>5. ASSUME NEW delay \in Delays, Record(e, delay)
      PROVE  Locals' /\ Unmoved(e) /\ Shape(e)' /\ now' = now /\ late' = late
  <2>1. now' = now /\ late' = late
    BY <1>5 DEF Record, RecordStepOutcome
  <2> QED BY <1>0, <1>5, <2>1, RecordMoves DEF SameBudget, SpentRunBudget
<1>6. ASSUME NEW s \in Step, SkipStep(e, s)
      PROVE  Locals' /\ Unmoved(e) /\ Shape(e)' /\ now' = now /\ late' = late
  <2>1. now' = now /\ late' = late
    BY <1>6 DEF SkipStep, RecordStepOutcome
  <2> QED BY <1>0, <1>6, <2>1, SkipMoves DEF SameBudget, SameStep, SameProcess
<1> QED BY <1>0, <1>1, <1>2, <1>3, <1>4, <1>5, <1>6 DEF Acts

LEMMA SaneStep ==
    ASSUME Sane, [ENext]_evars
    PROVE  Sane'
<1>0. TypeOK' /\ TypeOK /\ Locals
  BY StoreStep, TypeStep, TimesFacts
<1>1. ASSUME UNCHANGED <<ex, late>>, now' <= MaxTime PROVE Sane'
  BY <1>0, <1>1 DEF Sane, ETypeOK, Shape
<1>2. CASE UNCHANGED evars
  BY <1>1, <1>2 DEF evars, Sane
<1>3. CASE EngineTick
  BY <1>1, <1>3, TimesFacts DEF EngineTick, Tick
<1>4. ASSUME NEW r \in Run, Materialize(r) \/ \E a \in Actor : Interrupt(r, a)
      PROVE  Sane'
  BY <1>1, <1>4, OutsideActs DEF Sane
<1>5. ASSUME NEW e \in Exec, Quiet(e) \/ Acts(e) PROVE Sane'
  <2>1. /\ Locals' /\ Unmoved(e) /\ Shape(e)' /\ now' = now /\ late' \in [Run -> Nat]
    BY <1>5, ShapeQuiet, ShapeActs, QuietFrame DEF vars, Sane, ETypeOK
  <2>2. \A f \in Exec \ {e} : Shape(f)'
    BY <2>1 DEF Unmoved, Sane, Shape
  <2> QED BY <1>0, <2>1, <2>2 DEF Sane, ETypeOK, Locals
<1> QED BY <1>2, <1>3, <1>4, <1>5, NextCases

-----------------------------------------------------------------------------
(* Executors and rows.  An executor past its claim is the only one at work *)
(* on its run, and the rows are what it left them to be.                   *)

Engaged == Steady \ {"claim"}
AtWork  == {"launch", "spawn", "process", "record"}

Fit(e) ==
    ex[e].pc \in Engaged =>
        /\ runs[ex[e].run].state = "running" /\ runs[ex[e].run].owner = OwnerOf[e]
        /\ ex[e].pc \in AtWork =>
              /\ StepsIn(ex[e].run, {"running"}) = {ex[e].step}
              /\ steps[ex[e].run][ex[e].step].attempt = ex[e].attempt
              /\ ex[e].attempt > 0
        /\ ex[e].pc \notin AtWork => StepsIn(ex[e].run, {"running"}) = {}
        /\ ex[e].pc \in {"read", "start"} => ex[e].step \in Runnable(ex[e].run)
        /\ ex[e].pc = "start" =>
              ex[e].attempt = steps[ex[e].run][ex[e].step].attempt + 1
        /\ ex[e].pc = "skip" => ex[e].skips = StepsIn(ex[e].run, {"pending"})
        /\ ex[e].pc = "finish" => AllStepsTerminal(ex[e].run)

Alone == \A e \in Exec : \A f \in Exec :
    ex[e].pc \in Engaged /\ ex[f].pc \in Engaged /\ ex[e].run = ex[f].run => e = f

CoreInv ==
    Sane /\ RowsInv /\ (\A e \in Exec : Fit(e)) /\ Alone /\ NothingOpenUnderEndedRun

LEMMA CoreFacts ==
    ASSUME CoreInv, NEW e \in Exec
    PROVE  /\ Sane /\ RowsInv /\ TypeOK /\ Locals /\ now \in Nat /\ Shape(e) /\ Fit(e)
           /\ ex[e].pc \in Engaged =>
                 ex[e].run \in Run /\ ex[e].pc # "idle"
BY TimesFacts DEF CoreInv, Sane, Shape, Engaged, Steady

\* What the row and the steps of a run keep, its executor may rely on.
LEMMA FitKept ==
    ASSUME TypeOK, now \in Nat, NEW f \in Exec, Fit(f), ex'[f] = ex[f],
           ex[f].pc \in Engaged => /\ runs'[ex[f].run].state = runs[ex[f].run].state
                                   /\ runs'[ex[f].run].owner = runs[ex[f].run].owner
                                   /\ steps'[ex[f].run] = steps[ex[f].run],
           now' \in Nat, now <= now',
           ex[f].pc \in Engaged => ex[f].run \in Run
    PROVE  Fit(f)'
<1> SUFFICES ASSUME ex[f].pc \in Engaged
             PROVE  /\ runs'[ex[f].run].state = "running"
                    /\ runs'[ex[f].run].owner = OwnerOf[f]
                    /\ ex[f].pc \in AtWork =>
                          /\ StepsIn(ex[f].run, {"running"})' = {ex[f].step}
                          /\ steps'[ex[f].run][ex[f].step].attempt = ex[f].attempt
                          /\ ex[f].attempt > 0
                    /\ ex[f].pc \notin AtWork => StepsIn(ex[f].run, {"running"})' = {}
                    /\ ex[f].pc \in {"read", "start"} => ex[f].step \in Runnable(ex[f].run)'
                    /\ ex[f].pc = "start" =>
                          ex[f].attempt = steps'[ex[f].run][ex[f].step].attempt + 1
                    /\ ex[f].pc = "skip" => ex[f].skips = StepsIn(ex[f].run, {"pending"})'
                    /\ ex[f].pc = "finish" => AllStepsTerminal(ex[f].run)'
  BY DEF Fit
<1>1. \A S : StepsIn(ex[f].run, S)' = StepsIn(ex[f].run, S)
  BY DEF StepsIn
<1>2. AllStepsTerminal(ex[f].run)' = AllStepsTerminal(ex[f].run)
  BY <1>1 DEF AllStepsTerminal
<1>3. \A s \in Runnable(ex[f].run) : s \in Runnable(ex[f].run)'
  <2> SUFFICES ASSUME NEW s \in Runnable(ex[f].run) PROVE s \in Runnable(ex[f].run)'
    OBVIOUS
  <2>1. s \in Step /\ s \in StepsIn(ex[f].run, {"pending"})
        /\ Needs[s] \subseteq StepsIn(ex[f].run, {"succeeded"})
        /\ (steps[ex[f].run][s].nextAt = NULL \/ steps[ex[f].run][s].nextAt <= now)
    BY DEF Runnable, StepsIn
  <2>2. steps[ex[f].run][s].nextAt \in Nat \union {NULL}
    BY <2>1 DEF TypeOK, StepRow, Time
  <2>3. steps'[ex[f].run][s].nextAt = NULL \/ steps'[ex[f].run][s].nextAt <= now'
    BY <2>1, <2>2
  <2> QED BY <1>1, <2>1, <2>3 DEF Runnable
<1> QED BY <1>1, <1>2, <1>3 DEF Fit

\* Quiet steps change no row, and only an executor past its claim stays so.
LEMMA FitQuiet ==
    ASSUME CoreInv, NEW e \in Exec, Quiet(e)
    PROVE  /\ Fit(e)'
           /\ ex'[e].pc \in Engaged => ex[e].pc \in Engaged /\ ex'[e].run = ex[e].run
<1>0. /\ Sane /\ TypeOK /\ Locals /\ now \in Nat /\ Shape(e) /\ Fit(e)
      /\ UNCHANGED <<runs, steps, now>>
      /\ ex[e].pc \in Engaged => ex[e].run \in Run
  BY CoreFacts, QuietFrame DEF vars
<1>f. \A r : /\ \A S : StepsIn(r, S)' = StepsIn(r, S)
             /\ Runnable(r)' = Runnable(r) /\ AllStepsTerminal(r)' = AllStepsTerminal(r)
  BY <1>0 DEF StepsIn, Runnable, AllStepsTerminal
<1> USE DEF Engaged, AtWork, Steady
\* Leaving, or not yet claimed: nothing to show.
<1>i. ASSUME ex'[e].pc \notin Engaged
      PROVE  Fit(e)' /\ (ex'[e].pc \in Engaged =>
                            ex[e].pc \in Engaged /\ ex'[e].run = ex[e].run)
  BY <1>i DEF Fit
\* Moving between points where no step is at hand and nothing is claimed of it.
<1>b. ASSUME ex[e].pc \in Engaged \ AtWork, SameBudget(e),
             ex'[e].pc \in {"loop", "observe", "pick", "wait", "sleep", "pending"}
      PROVE  Fit(e)' /\ (ex'[e].pc \in Engaged =>
                            ex[e].pc \in Engaged /\ ex'[e].run = ex[e].run)
  BY <1>0, <1>f, <1>b DEF Fit, SameBudget
<1>w. ASSUME ex[e].pc \in AtWork, ex'[e].pc \in AtWork, SameBudget(e), SameStep(e)
      PROVE  Fit(e)' /\ (ex'[e].pc \in Engaged =>
                            ex[e].pc \in Engaged /\ ex'[e].run = ex[e].run)
  BY <1>0, <1>f, <1>w DEF Fit, SameBudget, SameStep
<1> DEFINE Goal == Fit(e)' /\ (ex'[e].pc \in Engaged =>
                                  ex[e].pc \in Engaged /\ ex'[e].run = ex[e].run)
<1>1. ASSUME NEW r \in Run, Begin(e, r) PROVE Goal
  BY <1>0, <1>i, <1>1, BeginMoves
<1>2. CASE ClaimRefused(e) \/ ObserveRefused(e) \/ LaunchRefused(e) \/ FinishRefused(e)
  <2>1. ex'[e].pc = "error"
    BY <1>0, <1>2 DEF ClaimRefused, ObserveRefused, LaunchRefused, FinishRefused, Goto, Locals, ExecRow
  <2> QED BY <1>i, <2>1
<1>3. CASE CheckCancel(e)
  <2>1. /\ SameBudget(e) /\ ex[e].pc = "loop"
        /\ ex'[e].pc \in {"observe", "pick"}
    BY <1>0, <1>3, Hops DEF CheckCancel, Points
  <2> QED BY <1>b, <2>1
<1>4. CASE PickStep(e)
  <2>0. /\ SameBudget(e) /\ ex[e].pc = "pick"
        /\ \/ /\ ex'[e].pc = "read" /\ ex'[e].step \in Step
              /\ IsNextRunnable(ex[e].run, ex'[e].step)
           \/ ex'[e].pc = "wait"
    BY <1>0, <1>4, PickMoves
  <2>1. CASE ex'[e].pc = "wait"
    BY <1>b, <2>0, <2>1
  <2>2. CASE ex'[e].pc = "read" /\ IsNextRunnable(ex[e].run, ex'[e].step)
    BY <1>0, <1>f, <2>0, <2>2 DEF Fit, IsNextRunnable, SameBudget
  <2> QED BY <2>0, <2>1, <2>2
<1>5. CASE RetryWait(e)
  <2>1. ex[e].pc = "wait"
    BY <1>5 DEF RetryWait, Goto
  <2>2. ex[e].run \in Run
    BY <1>0, <2>1
  <2>3. SameBudget(e) /\ ex'[e].pc \in {"sleep", "pending"}
    BY <1>0, <1>5, <2>2, WaitMoves
  <2> QED BY <1>b, <2>1, <2>3
<1>6. CASE Wake(e)
  BY <1>0, <1>b, <1>6, WakeMoves
<1>7. CASE ReadStep(e)
  <2>0. ex[e].pc = "read" /\ ex[e].run \in Run /\ ex[e].step \in Step
    BY <1>0, <1>7 DEF ReadStep, Shape, InHand
  <2>1. /\ SameBudget(e) /\ ex'[e].pc = "start" /\ ex'[e].step = ex[e].step
        /\ ex'[e].attempt = steps[ex[e].run][ex[e].step].attempt + 1
    BY <1>0, <1>7, <2>0, ReadMoves
  <2> QED BY <1>0, <1>f, <2>0, <2>1 DEF Fit, SameBudget
<1>8. CASE Launch(e)
  <2>1. ex[e].end \in Nat
    BY <1>0, <1>8 DEF Launch, Shape
  <2> QED BY <1>0, <1>w, <1>8, <2>1, LaunchMoves
<1>9. CASE SpawnFails(e)
  BY <1>0, <1>w, <1>9, SpawnMoves
<1>10. CASE PollCancel(e)
  BY <1>0, <1>w, <1>10, PollMoves
<1>11. ASSUME NEW outcome \in Outcomes, ProcessEnds(e, outcome) PROVE Goal
  BY <1>0, <1>w, <1>11, EndsMoves
<1>12. CASE ReadPending(e)
  <2>1. /\ SameBudget(e) /\ ex[e].pc = "pending" /\ ex'[e].pc = "skip"
        /\ ex'[e].skips = StepsIn(ex[e].run, {"pending"})
    BY <1>0, <1>12, PendingMoves
  <2> QED BY <1>0, <1>f, <2>1 DEF Fit, SameBudget
<1>13. CASE FinishReason(e)
  <2>1. /\ SameBudget(e) /\ ex[e].pc = "skip" /\ ex'[e].pc = "finish" /\ ex[e].skips = {}
    BY <1>0, <1>13, ReasonMoves
  <2>2. StepsIn(ex[e].run, {"pending"}) = {} /\ StepsIn(ex[e].run, {"running"}) = {}
    BY <1>0, <2>1 DEF Fit
  <2>3. \A s \in Step : steps[ex[e].run][s].state \in StepStates
    BY <1>0, <2>1, RowFacts
  <2>4. AllStepsTerminal(ex[e].run)
    BY <2>2, <2>3 DEF AllStepsTerminal, StepsIn, StepStates, StepOpen
  <2> QED BY <1>0, <1>f, <2>1, <2>4 DEF Fit, SameBudget
<1>14. CASE Die(e)
  BY <1>0, <1>i, <1>14, DieMoves
<1>15. CASE ReadBudget(e)
  BY <1>0, <1>w, <1>15, ReadBudgetMoves
<1> QED BY <1>1, <1>2, <1>3, <1>4, <1>5, <1>6, <1>7, <1>8, <1>9, <1>10, <1>11, <1>12,
           <1>13, <1>14, <1>15 DEF Quiet

-----------------------------------------------------------------------------
(* What an acting executor does to its run. *)

LEMMA OneStep ==
    ASSUME TypeOK, NEW r \in Run, NEW s \in Step, NEW row, StepTransition(r, s, row)
    PROVE  /\ steps'[r][s] = row
           /\ \A q \in Step \ {s} : steps'[r][q] = steps[r][q]
           /\ \A p \in Run \ {r} : steps'[p] = steps[p]
BY DEF TypeOK, StepTransition

LEMMA OneRun ==
    ASSUME TypeOK, NEW r \in Run, NEW row, RunTransition(r, row)
    PROVE  runs'[r] = row /\ \A p \in Run \ {r} : runs'[p] = runs[p]
BY DEF TypeOK, RunTransition

\* A claim that starts the run, and a claim that cancels it in the queue.
LEMMA ClaimDoes ==
    ASSUME CoreInv, NEW e \in Exec, Claim(e)
    PROVE  LET r == ex[e].run
           IN  /\ runs[r].state = "queued"
               /\ \/ /\ runs'[r].state = "running" /\ runs'[r].owner = OwnerOf[e]
                     /\ runs'[r].reason = runs[r].reason /\ ~CancelRequested(r)
                     /\ runs'[r].cancelBy = runs[r].cancelBy
                     /\ steps' = steps
                  \/ /\ runs'[r].state = "cancelled"
                     /\ runs'[r].reason = "RUN_CANCELLED_MANUAL"
                     /\ runs'[r].cancelBy = runs[r].cancelBy
                     /\ SkipPendingSteps(r, "STEP_CANCELLED")
<1> DEFINE r == ex[e].run
           g == ClaimGuards(r)
<1>0. ex[e].pc = "claim" /\ ClaimRun(r, OwnerOf[e], "RUN_CANCELLED_MANUAL", "STEP_CANCELLED")
  BY DEF Claim
<1>1. r \in Run /\ TypeOK /\ runs[r] \in RunRow
  BY <1>0, CoreFacts DEF Shape, TypeOK
<1>2. CASE /\ RunMove(runs[r].state, "claim", g, "running")
           /\ RunTransition(r, [runs[r] EXCEPT !.state = "running", !.owner = OwnerOf[e],
                                    !.epoch = @ + 1, !.expires = now + TTL])
           /\ UNCHANGED <<steps, stepLog, now>>
  <2>1. runs[r].state = "queued" /\ ~CancelRequested(r)
    BY <1>2 DEF RunMove, ClaimGuards, NoGuards
  <2>2. runs'[r] = [runs[r] EXCEPT !.state = "running", !.owner = OwnerOf[e],
                        !.epoch = @ + 1, !.expires = now + TTL]
    BY <1>1, <1>2, OneRun
  <2>3. /\ runs'[r].state = "running" /\ runs'[r].owner = OwnerOf[e]
        /\ runs'[r].reason = runs[r].reason /\ runs'[r].cancelBy = runs[r].cancelBy
    BY <1>1, <2>2 DEF RunRow
  <2> QED BY <1>2, <2>1, <2>3
<1>3. CASE /\ RunMove(runs[r].state, "claim", g, "cancelled")
           /\ SkipPendingSteps(r, "STEP_CANCELLED")
           /\ RunTransition(r, [runs[r] EXCEPT !.state = "cancelled",
                                    !.reason = "RUN_CANCELLED_MANUAL"])
           /\ UNCHANGED now
  <2>1. runs[r].state = "queued"
    BY <1>3 DEF RunMove
  <2>2. runs'[r] = [runs[r] EXCEPT !.state = "cancelled", !.reason = "RUN_CANCELLED_MANUAL"]
    BY <1>1, <1>3, OneRun
  <2>3. /\ runs'[r].state = "cancelled" /\ runs'[r].reason = "RUN_CANCELLED_MANUAL"
        /\ runs'[r].cancelBy = runs[r].cancelBy
    BY <1>1, <2>2 DEF RunRow
  <2> QED BY <1>3, <2>1, <2>3
<1> HIDE DEF r
<1>4. \/ /\ RunMove(runs[r].state, "claim", g, "running")
         /\ RunTransition(r, [runs[r] EXCEPT !.state = "running", !.owner = OwnerOf[e],
                                  !.epoch = @ + 1, !.expires = now + TTL])
         /\ UNCHANGED <<steps, stepLog, now>>
      \/ /\ RunMove(runs[r].state, "claim", g, "cancelled")
         /\ SkipPendingSteps(r, "STEP_CANCELLED")
         /\ RunTransition(r, [runs[r] EXCEPT !.state = "cancelled",
                                  !.reason = "RUN_CANCELLED_MANUAL"])
         /\ UNCHANGED now
  BY <1>0 DEF ClaimRun
<1> QED BY <1>2, <1>3, <1>4 DEF r

LEMMA ObserveDoes ==
    ASSUME CoreInv, NEW e \in Exec, ObserveCancel(e)
    PROVE  LET r == ex[e].run
           IN  /\ runs[r].state = "running" /\ CancelRequested(r)
               /\ runs'[r].state = "cancelled" /\ runs'[r].reason = "RUN_CANCELLED_MANUAL"
               /\ runs'[r].cancelBy = runs[r].cancelBy
               /\ SkipPendingSteps(r, "STEP_CANCELLED")
<1> DEFINE r == ex[e].run
<1>0. ex[e].pc = "observe"
      /\ ObserveRunCancel(r, OwnerOf[e], "RUN_CANCELLED_MANUAL", "STEP_CANCELLED")
  BY DEF ObserveCancel, Goto
<1>1. r \in Run /\ TypeOK /\ runs[r] \in RunRow
  BY <1>0, CoreFacts DEF Shape, TypeOK
<1>2. /\ CancelRequested(r) /\ SkipPendingSteps(r, "STEP_CANCELLED")
      /\ RunMove(runs[r].state, "cancel_observed",
                 CancelGuards(r, OwnerOf[e], "RUN_CANCELLED_MANUAL"), "cancelled")
      /\ RunTransition(r, [runs[r] EXCEPT !.state = "cancelled",
              !.reason = "RUN_CANCELLED_MANUAL", !.owner = NULL, !.expires = NULL])
  BY <1>0 DEF ObserveRunCancel
<1>3. runs[r].state = "running"
  BY <1>2 DEF RunMove
<1>4. runs'[r] = [runs[r] EXCEPT !.state = "cancelled",
              !.reason = "RUN_CANCELLED_MANUAL", !.owner = NULL, !.expires = NULL]
  BY <1>1, <1>2, OneRun
<1>5. /\ runs'[r].state = "cancelled" /\ runs'[r].reason = "RUN_CANCELLED_MANUAL"
      /\ runs'[r].cancelBy = runs[r].cancelBy
  BY <1>1, <1>4 DEF RunRow
<1> QED BY <1>2, <1>3, <1>5

LEMMA FinishDoes ==
    ASSUME CoreInv, NEW e \in Exec, Finish(e)
    PROVE  LET r == ex[e].run
           IN  /\ runs[r].state = "running" /\ AllStepsTerminal(r)
               /\ runs'[r].state = IF AnyStepFailed(r) THEN "failed" ELSE "succeeded"
               /\ runs'[r].reason = ex[e].reason
               /\ runs'[r].cancelBy = runs[r].cancelBy /\ steps' = steps
<1> DEFINE r == ex[e].run
<1>0. ex[e].pc = "finish" /\ FinishRun(r, OwnerOf[e], ex[e].reason)
  BY DEF Finish, Goto
<1>1. r \in Run /\ TypeOK /\ runs[r] \in RunRow
  BY <1>0, CoreFacts DEF Shape, TypeOK
<1>2. PICK to \in RunStates :
        /\ RunMove(runs[r].state, "all_steps_done",
                   FinishGuards(r, OwnerOf[e], ex[e].reason), to)
        /\ RunTransition(r, [runs[r] EXCEPT !.state = to, !.reason = ex[e].reason,
                                 !.owner = NULL, !.expires = NULL])
  BY <1>0 DEF FinishRun
<1>3. /\ runs[r].state = "running" /\ AllStepsTerminal(r)
      /\ to = IF AnyStepFailed(r) THEN "failed" ELSE "succeeded"
  BY <1>2 DEF RunMove, FinishGuards, NoGuards, RunTerminal
<1>4. runs'[r] = [runs[r] EXCEPT !.state = to, !.reason = ex[e].reason,
                      !.owner = NULL, !.expires = NULL]
  BY <1>1, <1>2, OneRun
<1>5. runs'[r].state = to /\ runs'[r].reason = ex[e].reason
      /\ runs'[r].cancelBy = runs[r].cancelBy
  BY <1>1, <1>4 DEF RunRow
<1>6. steps' = steps
  BY <1>0 DEF FinishRun
<1> QED BY <1>3, <1>5, <1>6

LEMMA StartDoes ==
    ASSUME CoreInv, NEW e \in Exec, Start(e)
    PROVE  LET r == ex[e].run  s == ex[e].step
           IN  /\ ex[e].pc = "start" /\ s \in Step /\ s \in Runnable(r)
               /\ runs' = runs /\ now' = now
               /\ steps[r][s].state = "pending" /\ steps'[r][s].state = "running"
               /\ steps'[r][s].attempt = steps[r][s].attempt + 1
               /\ steps'[r][s].nextAt = steps[r][s].nextAt
               /\ steps'[r][s].reason = steps[r][s].reason
               /\ \A q \in Step \ {s} : steps'[r][q] = steps[r][q]
               /\ \A p \in Run \ {r} : steps'[p] = steps[p]
<1> DEFINE r == ex[e].run
           s == ex[e].step
           row == [steps[r][s] EXCEPT !.state = "running", !.attempt = @ + 1]
<1>0. ex[e].pc = "start" /\ StartStep(r, s)
  BY DEF Start, Goto
<1>1. r \in Run /\ s \in Step /\ TypeOK /\ s \in Runnable(r)
  BY <1>0, CoreFacts DEF Shape, InHand, Fit, Engaged, Steady
<1>2. StepMove(steps[r][s].state, "step_started", NoGuards, "running")
      /\ StepTransition(r, s, row) /\ runs' = runs /\ now' = now
  BY <1>0 DEF StartStep
<1>3. steps[r][s].state = "pending" /\ steps[r][s] \in StepRow
  BY <1>1, <1>2 DEF StepMove, TypeOK
<1>4. /\ row.state = "running" /\ row.attempt = steps[r][s].attempt + 1
      /\ row.nextAt = steps[r][s].nextAt /\ row.reason = steps[r][s].reason
  BY <1>3 DEF StepRow
<1> HIDE DEF row
<1>5. /\ steps'[r][s] = row
      /\ \A q \in Step \ {s} : steps'[r][q] = steps[r][q]
      /\ \A p \in Run \ {r} : steps'[p] = steps[p]
  BY <1>1, <1>2, OneStep
<1> QED BY <1>0, <1>1, <1>2, <1>3, <1>4, <1>5

LEMMA OutcomeDoes ==
    ASSUME TypeOK, NEW r \in Run, NEW s \in Step, NEW ev, NEW code, NEW at, NEW plan,
           RecordStepOutcome(r, s, ev, code, at, plan)
    PROVE  /\ runs' = runs /\ now' = now
           /\ StepMove(steps[r][s].state, ev,
                  [NoGuards EXCEPT !.reason = (code # NULL), !.attemptsLeft = AttemptsLeft(r, s)],
                  steps'[r][s].state)
           /\ steps'[r][s].attempt = steps[r][s].attempt
           /\ steps'[r][s].reason = IF steps'[r][s].state = "pending" /\ plan # NULL
                                    THEN plan ELSE code
           /\ steps'[r][s].nextAt = IF steps'[r][s].state = "pending" THEN at ELSE NULL
           /\ \A q \in Step \ {s} : steps'[r][q] = steps[r][q]
           /\ \A p \in Run \ {r} : steps'[p] = steps[p]
<1> DEFINE g == [NoGuards EXCEPT !.reason = (code # NULL), !.attemptsLeft = AttemptsLeft(r, s)]
           why(to) == IF to = "pending" /\ plan # NULL THEN plan ELSE code
           wait(to) == IF to = "pending" THEN at ELSE NULL
           row(to) == [steps[r][s] EXCEPT !.state = to, !.reason = why(to), !.nextAt = wait(to)]
<1>1. PICK to \in StepStates :
        StepMove(steps[r][s].state, ev, g, to) /\ StepTransition(r, s, row(to))
  BY DEF RecordStepOutcome
<1>2. runs' = runs /\ now' = now
  BY DEF RecordStepOutcome
<1>3. steps[r][s] \in StepRow
  BY DEF TypeOK
<1> HIDE DEF g, why, wait
<1>4. /\ row(to).state = to /\ row(to).attempt = steps[r][s].attempt
      /\ row(to).reason = why(to) /\ row(to).nextAt = wait(to)
  BY <1>3 DEF StepRow
<1> HIDE DEF row
<1>5. /\ steps'[r][s] = row(to)
      /\ \A q \in Step \ {s} : steps'[r][q] = steps[r][q]
      /\ \A p \in Run \ {r} : steps'[p] = steps[p]
  BY <1>1, OneStep
<1> QED BY <1>1, <1>2, <1>4, <1>5 DEF g, why, wait

RetryOrEnd == {"pending", "succeeded", "failed", "cancelled"}

LEMMA RecordDoes ==
    ASSUME CoreInv, NEW e \in Exec, NEW delay \in Delays, Record(e, delay)
    PROVE  LET r == ex[e].run  s == ex[e].step
           IN  /\ ex[e].pc = "record" /\ s \in Step
               /\ runs' = runs /\ now' = now
               /\ steps[r][s].state = "running" /\ steps'[r][s].state \in RetryOrEnd
               /\ steps'[r][s].attempt = steps[r][s].attempt
               /\ steps'[r][s].state = "cancelled" => ex[e].outcome = "Cancelled"
               /\ ex[e].outcome = "TimedOut" => steps'[r][s].state \in {"pending", "failed"}
               /\ steps'[r][s].reason # "STEP_SKIPPED_UPSTREAM_FAILED"
               /\ steps'[r][s].state = "pending" => steps'[r][s].nextAt \in Nat
               /\ \A q \in Step \ {s} : steps'[r][q] = steps[r][q]
               /\ \A p \in Run \ {r} : steps'[p] = steps[p]
<1>0. ex[e].pc = "record"
  BY DEF Record
<1>1. /\ ex[e].run \in Run /\ ex[e].step \in Step /\ ex[e].outcome \in Outcomes
      /\ ex[e].finished \in Nat \union {NULL} /\ now \in Nat /\ TypeOK
      /\ steps[ex[e].run][ex[e].step].state = "running"
  <2>1. Shape(e) /\ Fit(e) /\ Sane /\ ex[e].pc \in AtWork /\ ex[e].pc \in Engaged
    BY <1>0, CoreFacts DEF AtWork, Engaged, Steady
  <2>2. StepsIn(ex[e].run, {"running"}) = {ex[e].step}
    BY <2>1 DEF Fit
  <2>3. steps[ex[e].run][ex[e].step].state = "running"
    BY <2>2 DEF StepsIn
  <2> QED BY <1>0, <2>1, <2>3, TimesFacts DEF Shape, InHand
<1> DEFINE r == ex[e].run
           s == ex[e].step
           v == VerdictFor(ex[e].outcome)
           budget == Budget[ex[e].step]
           retries == v.event = "step_failed" /\ ~SpentRunBudget(e) /\ budget > 1
           planned == retries /\ ex[e].attempt < budget
           finished == IF ex[e].finished = NULL THEN now ELSE ex[e].finished
           code == IF retries /\ ~planned THEN "STEP_RETRIES_EXHAUSTED" ELSE v.code
           at == IF planned THEN finished + delay ELSE finished
           plan == IF planned THEN "STEP_RETRY_SCHEDULED" ELSE NULL
<1>2. RecordStepOutcome(ex[e].run, ex[e].step, v.event, code, at, plan)
  BY DEF Record
<1>3. /\ v.event \in {"step_succeeded", "step_failed", "cancel_observed"}
      /\ v.event = "cancel_observed" => ex[e].outcome = "Cancelled"
      /\ ex[e].outcome = "TimedOut" => v.event = "step_failed"
      /\ v.code # "STEP_SKIPPED_UPSTREAM_FAILED"
  BY <1>1 DEF VerdictFor, Outcomes
<1>4. code # "STEP_SKIPPED_UPSTREAM_FAILED" /\ plan # "STEP_SKIPPED_UPSTREAM_FAILED"
  BY <1>3, CodeFacts
<1>5. at \in Nat
  <2>1. finished \in Nat
    BY <1>1
  <2>2. delay \in Nat
    BY ExecAssumption
  <2> QED BY <2>1, <2>2
<1> HIDE DEF v, code, at, plan
<1>6. /\ runs' = runs /\ now' = now
      /\ StepMove(steps[r][s].state, v.event,
             [NoGuards EXCEPT !.reason = (code # NULL), !.attemptsLeft = AttemptsLeft(r, s)],
             steps'[r][s].state)
      /\ steps'[r][s].attempt = steps[r][s].attempt
      /\ steps'[r][s].reason = IF steps'[r][s].state = "pending" /\ plan # NULL
                               THEN plan ELSE code
      /\ steps'[r][s].nextAt = IF steps'[r][s].state = "pending" THEN at ELSE NULL
      /\ \A q \in Step \ {s} : steps'[r][q] = steps[r][q]
      /\ \A p \in Run \ {r} : steps'[p] = steps[p]
  BY ZenonT(30), <1>1, <1>2, OutcomeDoes
<1>7. /\ steps'[r][s].state \in RetryOrEnd
      /\ steps'[r][s].state = "cancelled" => ex[e].outcome = "Cancelled"
      /\ ex[e].outcome = "TimedOut" => steps'[r][s].state \in {"pending", "failed"}
  BY <1>1, <1>3, <1>6 DEF StepMove, RetryOrEnd
<1>8. /\ steps'[r][s].reason # "STEP_SKIPPED_UPSTREAM_FAILED"
      /\ steps'[r][s].state = "pending" => steps'[r][s].nextAt \in Nat
  BY <1>4, <1>5, <1>6
<1> QED BY <1>0, <1>1, <1>6, <1>7, <1>8

LEMMA SkipDoes ==
    ASSUME CoreInv, NEW e \in Exec, NEW s \in Step, SkipStep(e, s)
    PROVE  LET r == ex[e].run
           IN  /\ ex[e].pc = "skip" /\ s \in ex[e].skips
               /\ runs' = runs /\ now' = now
               /\ steps[r][s].state = "pending" /\ steps'[r][s].state = "skipped"
               /\ steps'[r][s].attempt = steps[r][s].attempt
               /\ \A q \in Step \ {s} : steps'[r][q] = steps[r][q]
               /\ \A p \in Run \ {r} : steps'[p] = steps[p]
<1> DEFINE r == ex[e].run
           ev == "upstream_failed"
           code == "STEP_SKIPPED_UPSTREAM_FAILED"
<1>1. /\ ex[e].pc = "skip" /\ s \in ex[e].skips
      /\ RecordStepOutcome(r, s, ev, code, now, NULL)
  BY DEF SkipStep
<1>2. r \in Run /\ TypeOK
  BY <1>1, CoreFacts DEF Engaged, Steady
<1> HIDE DEF r, ev, code
<1>3. /\ runs' = runs /\ now' = now
      /\ StepMove(steps[r][s].state, ev,
             [NoGuards EXCEPT !.reason = (code # NULL),
                              !.attemptsLeft = AttemptsLeft(r, s)],
             steps'[r][s].state)
      /\ steps'[r][s].attempt = steps[r][s].attempt
      /\ \A q \in Step \ {s} : steps'[r][q] = steps[r][q]
      /\ \A p \in Run \ {r} : steps'[p] = steps[p]
  BY ZenonT(30), <1>1, <1>2, OutcomeDoes
<1>4. steps[r][s].state = "pending" /\ steps'[r][s].state = "skipped"
  BY <1>3 DEF StepMove, ev
<1> QED BY <1>1, <1>3, <1>4 DEF r

\* A cancellation that finds no step running leaves none open.
LEMMA SkipCloses ==
    ASSUME TypeOK, NEW r \in Run, Exists(r), SkipPendingSteps(r, "STEP_CANCELLED"),
           StepsIn(r, {"running"}) = {}
    PROVE  AllStepsTerminal(r)'
<1>1. \A s \in Step : IF steps[r][s].state = "pending"
                      THEN Skipped(r, s) ELSE steps'[r][s] = steps[r][s]
  BY SkipEffect, CodeFacts
<1>2. \A s \in Step : steps[r][s].state \in StepStates /\ steps[r][s].state # "running"
  BY RowFacts DEF StepsIn
<1>3. \A s \in Step : steps'[r][s].state \in StepTerminal
  <2> TAKE s \in Step
  <2>1. CASE steps[r][s].state = "pending"
    BY <1>1, <2>1 DEF Skipped, StepTerminal
  <2>2. CASE steps[r][s].state # "pending"
    BY <1>1, <1>2, <2>2 DEF StepStates, StepOpen
  <2> QED BY <2>1, <2>2
<1> QED BY <1>3 DEF AllStepsTerminal, StepsIn

LEMMA ActsRun ==
    ASSUME CoreInv, NEW e \in Exec, Acts(e)
    PROVE  /\ ex[e].run \in Run /\ Unmoved(e) /\ now' = now /\ Exists(ex[e].run)
           /\ ex[e].pc \in Engaged \/ runs[ex[e].run].state = "queued"
           /\ \A q \in Run \ {ex[e].run} : runs'[q] = runs[q] /\ steps'[q] = steps[q]
<1>1. /\ Sane /\ TypeOK /\ Fit(e)
      /\ ex[e].pc \in Engaged => runs[ex[e].run].state = "running"
  BY CoreFacts DEF Fit
<1>2. ex[e].run \in Run /\ Transaction(ex[e].run)
  BY <1>1, StoreActs DEF Acts
<1>3. \A q \in Run \ {ex[e].run} : runs'[q] = runs[q] /\ steps'[q] = steps[q]
  BY <1>1, <1>2, RunEffect, StepEffect
<1>4. Unmoved(e) /\ now' = now
  BY <1>1, ShapeActs
<1>5. ex[e].pc \in Engaged \/ runs[ex[e].run].state = "queued"
  <2>1. Claim(e) => runs[ex[e].run].state = "queued"
    BY ClaimDoes
  <2>2. ~Claim(e) => ex[e].pc \in {"observe", "start", "finish", "record", "skip"}
    BY DEF Acts, ObserveCancel, Start, Finish, Record, SkipStep, Goto
  <2> QED BY <2>1, <2>2 DEF Engaged, Steady
<1> QED BY <1>1, <1>2, <1>3, <1>4, <1>5 DEF Exists

\* The executors of other runs do not notice.
LEMMA FitOthers ==
    ASSUME CoreInv, NEW e \in Exec, Acts(e), NEW f \in Exec \ {e}
    PROVE  Fit(f)' /\ ~(ex[f].pc \in Engaged /\ ex[f].run = ex[e].run)
<1>1. /\ TypeOK /\ now \in Nat /\ Fit(f) /\ Alone
      /\ ex[f].pc \in Engaged => ex[f].run \in Run /\ runs[ex[f].run].state = "running"
  BY CoreFacts DEF Fit, CoreInv
<1>2. ex'[f] = ex[f]
  BY ActsRun DEF Unmoved
<1>3. ~(ex[f].pc \in Engaged /\ ex[f].run = ex[e].run)
  BY <1>1, ActsRun DEF Alone
<1>4. ex[f].pc \in Engaged => /\ runs'[ex[f].run] = runs[ex[f].run]
                              /\ steps'[ex[f].run] = steps[ex[f].run]
  BY <1>1, <1>3, ActsRun
<1>5. now' \in Nat /\ now <= now'
  BY <1>1, ActsRun
<1> QED BY <1>1, <1>2, <1>3, <1>4, <1>5, FitKept

LEMMA ClaimFits ==
    ASSUME CoreInv, NEW e \in Exec, Claim(e)
    PROVE  Fit(e)' /\ \A r \in Run : r = ex[e].run /\ runs'[r].state \in RunTerminal
                                       => AllStepsTerminal(r)'
<1>r. PICK r \in Run : r = ex[e].run
  BY ActsRun DEF Acts
<1>1. /\ r \in Run /\ TypeOK /\ RowsInv /\ Locals /\ runs[r].state = "queued" /\ Exists(r)
  BY <1>r, ClaimDoes, ActsRun, CoreFacts DEF Acts
<1>2. StepsIn(r, {"running"}) = {}
  BY <1>1 DEF RowsInv, LeaseTellsOwnership, UnclaimedRanNothing, StepsIn
<1>3. ex'[e].run = r /\ ex'[e].pc = IF runs'[r].state = "cancelled" THEN "returned" ELSE "loop"
  BY <1>r, <1>1, ClaimMoves DEF SameBudget
<1>4. CASE /\ runs'[r].state = "running" /\ runs'[r].owner = OwnerOf[e]
           /\ steps' = steps
  <2>1. StepsIn(r, {"running"})' = {}
    BY <1>2, <1>4 DEF StepsIn
  <2>2. ex'[e].pc = "loop"
    BY <1>3, <1>4
  <2>3. Fit(e)'
    BY <1>3, <1>4, <2>1, <2>2 DEF Fit, AtWork
  <2> QED BY <1>r, <1>4, <2>3 DEF RunTerminal
<1>5. CASE runs'[r].state = "cancelled" /\ SkipPendingSteps(r, "STEP_CANCELLED")
  <2>1. AllStepsTerminal(r)'
    BY <1>1, <1>2, <1>5, SkipCloses
  <2>2. ex'[e].pc \notin Engaged
    BY <1>3, <1>5 DEF Engaged, Steady
  <2> QED BY <1>r, <2>1, <2>2 DEF Fit
<1> QED BY <1>r, <1>4, <1>5, ClaimDoes

LEMMA ObserveFits ==
    ASSUME CoreInv, NEW e \in Exec, ObserveCancel(e)
    PROVE  Fit(e)' /\ \A r \in Run : r = ex[e].run => AllStepsTerminal(r)'
<1>r. PICK r \in Run : r = ex[e].run
  BY ActsRun DEF Acts
<1>0. ex[e].pc = "observe" /\ Goto(e, "observe", "returned")
  BY DEF ObserveCancel, Goto
<1>1. /\ TypeOK /\ Locals /\ Fit(e) /\ Exists(r)
      /\ SkipPendingSteps(r, "STEP_CANCELLED")
  BY <1>r, ObserveDoes, ActsRun, CoreFacts DEF Acts
<1>2. StepsIn(r, {"running"}) = {}
  BY <1>r, <1>0, <1>1 DEF Fit, Engaged, Steady, AtWork
<1>3. ex'[e].pc = "returned"
  BY <1>0, <1>1 DEF Goto, Locals, ExecRow
<1>4. ex'[e].pc \notin Engaged
  BY <1>3 DEF Engaged, Steady
<1> QED BY <1>r, <1>1, <1>2, <1>4, SkipCloses DEF Fit

LEMMA FinishFits ==
    ASSUME CoreInv, NEW e \in Exec, Finish(e)
    PROVE  Fit(e)' /\ \A r \in Run : r = ex[e].run => AllStepsTerminal(r)'
<1>r. PICK r \in Run : r = ex[e].run
  BY ActsRun DEF Acts
<1>0. Goto(e, "finish", "returned")
  BY DEF Finish
<1>1. Locals /\ AllStepsTerminal(r) /\ steps' = steps
  BY <1>r, FinishDoes, CoreFacts
<1>2. ex'[e].pc = "returned"
  BY <1>0, <1>1 DEF Goto, Locals, ExecRow
<1>3. ex'[e].pc \notin Engaged
  BY <1>2 DEF Engaged, Steady
<1> QED BY <1>r, <1>1, <1>3 DEF Fit, AllStepsTerminal, StepsIn

LEMMA StartFits ==
    ASSUME CoreInv, NEW e \in Exec, Start(e)
    PROVE  Fit(e)'
<1>r. PICK r \in Run : r = ex[e].run
  BY ActsRun DEF Acts
<1> DEFINE s == ex[e].step
<1>1. /\ ex[e].pc = "start" /\ s \in Step /\ runs' = runs
      /\ steps'[r][s].state = "running"
      /\ steps'[r][s].attempt = steps[r][s].attempt + 1
      /\ \A q \in Step \ {s} : steps'[r][q] = steps[r][q]
  BY <1>r, StartDoes
<1>2. /\ ex'[e].pc = "launch" /\ ex'[e].run = r /\ ex'[e].step = s
      /\ ex'[e].attempt = ex[e].attempt
  <2>1. Goto(e, "start", "launch") /\ Locals
    BY CoreFacts DEF Start
  <2> QED BY <1>r, <2>1, Hops DEF Points, Steady, SameBudget, SameStep
<1>3. /\ runs[r].state = "running" /\ runs[r].owner = OwnerOf[e]
      /\ ex[e].attempt = steps[r][s].attempt + 1 /\ ex[e].attempt > 0
      /\ StepsIn(r, {"running"}) = {}
  <2>1. steps[r][s].attempt \in Nat
    BY <1>1, CoreFacts DEF TypeOK, StepRow
  <2>2. /\ runs[r].state = "running" /\ runs[r].owner = OwnerOf[e]
        /\ ex[e].attempt = steps[r][s].attempt + 1
        /\ StepsIn(r, {"running"}) = {}
    BY <1>r, <1>1, CoreFacts DEF Fit, Engaged, Steady, AtWork
  <2> QED BY <2>1, <2>2
<1>4. StepsIn(r, {"running"})' = {s}
  BY <1>1, <1>3 DEF StepsIn
<1> QED BY <1>1, <1>2, <1>3, <1>4 DEF Fit, AtWork

LEMMA RecordFits ==
    ASSUME CoreInv, NEW e \in Exec, NEW delay \in Delays, Record(e, delay)
    PROVE  Fit(e)'
<1>r. PICK r \in Run : r = ex[e].run
  BY ActsRun DEF Acts
<1> DEFINE s == ex[e].step
<1>1. /\ ex[e].pc = "record" /\ s \in Step /\ runs' = runs
      /\ steps'[r][s].state \in RetryOrEnd
      /\ \A q \in Step \ {s} : steps'[r][q] = steps[r][q]
  BY <1>r, RecordDoes
<1>2. ex'[e].pc \in {"pending", "loop"} /\ ex'[e].run = r
  BY <1>r, CoreFacts, RecordMoves DEF SameBudget
<1>3. /\ runs[r].state = "running" /\ runs[r].owner = OwnerOf[e]
      /\ StepsIn(r, {"running"}) = {s}
  BY <1>r, <1>1, CoreFacts DEF Fit, Engaged, Steady, AtWork
<1>4. StepsIn(r, {"running"})' = {}
  BY <1>1, <1>3 DEF StepsIn, RetryOrEnd
<1> QED BY <1>1, <1>2, <1>3, <1>4 DEF Fit, AtWork

LEMMA SkipFits ==
    ASSUME CoreInv, NEW e \in Exec, NEW s \in Step, SkipStep(e, s)
    PROVE  Fit(e)'
<1>r. PICK r \in Run : r = ex[e].run
  BY ActsRun DEF Acts
<1>1. /\ ex[e].pc = "skip" /\ s \in ex[e].skips /\ runs' = runs
      /\ steps[r][s].state = "pending" /\ steps'[r][s].state = "skipped"
      /\ \A q \in Step \ {s} : steps'[r][q] = steps[r][q]
  BY <1>r, SkipDoes
<1>2. ex'[e].pc = "skip" /\ ex'[e].run = r /\ ex'[e].skips = ex[e].skips \ {s}
  BY <1>r, CoreFacts, SkipMoves DEF SameBudget
<1>3. /\ runs[r].state = "running" /\ runs[r].owner = OwnerOf[e]
      /\ StepsIn(r, {"running"}) = {} /\ ex[e].skips = StepsIn(r, {"pending"})
  BY <1>r, <1>1, CoreFacts DEF Fit, Engaged, Steady, AtWork
<1>4. StepsIn(r, {"running"})' = {} /\ ex'[e].skips = StepsIn(r, {"pending"})'
  BY <1>1, <1>2, <1>3 DEF StepsIn
<1> QED BY <1>1, <1>2, <1>3, <1>4 DEF Fit, AtWork

LEMMA ActsFit ==
    ASSUME CoreInv, NEW e \in Exec, Acts(e)
    PROVE  /\ Fit(e)'
           /\ \A r \in Run : r = ex[e].run /\ runs'[r].state \in RunTerminal
                                => AllStepsTerminal(r)'
<1>1. ASSUME runs' = runs, ex[e].pc \in Engaged
      PROVE  \A r \in Run : r = ex[e].run /\ runs'[r].state \in RunTerminal
                               => AllStepsTerminal(r)'
  <2>1. runs[ex[e].run].state = "running"
    BY <1>1, CoreFacts DEF Fit
  <2> QED BY <1>1, <2>1 DEF RunTerminal
<1>2. CASE Claim(e)
  BY <1>2, ClaimFits
<1>3. CASE ObserveCancel(e)
  BY <1>3, ObserveFits
<1>4. CASE Finish(e)
  BY <1>4, FinishFits
<1>5. CASE Start(e)
  BY <1>1, <1>5, StartFits, StartDoes DEF Engaged, Steady
<1>6. ASSUME NEW delay \in Delays, Record(e, delay)
      PROVE  Fit(e)' /\ runs' = runs /\ ex[e].pc \in Engaged
  BY <1>6, RecordFits, RecordDoes DEF Engaged, Steady
<1>7. ASSUME NEW s \in Step, SkipStep(e, s)
      PROVE  Fit(e)' /\ runs' = runs /\ ex[e].pc \in Engaged
  BY <1>7, SkipFits, SkipDoes DEF Engaged, Steady
<1> QED BY <1>1, <1>2, <1>3, <1>4, <1>5, <1>6, <1>7 DEF Acts

LEMMA CoreInit == EInit => CoreInv
<1> SUFFICES ASSUME EInit PROVE CoreInv
  OBVIOUS
<1>1. Sane /\ RowsInv
  BY SaneInit, RowsInit DEF EInit
<1>2. \A e \in Exec : ex[e].pc = "idle"
  BY DEF EInit, Idle
<1>3. \A r \in Run : runs[r].state = "absent"
  BY DEF EInit, Init, AbsentRun
<1> QED BY <1>1, <1>2, <1>3 DEF CoreInv, Fit, Alone, Engaged, Steady,
           NothingOpenUnderEndedRun, RunTerminal

\* Nothing moves but the clock, or the operator's side of one run.
LEMMA CoreOutside ==
    ASSUME CoreInv, ex' = ex, steps' = steps, now' \in Nat, now <= now',
           \A r \in Run : runs'[r] # runs[r] =>
               \/ runs[r].state = "absent" /\ runs'[r].state = "queued"
               \/ runs'[r].state = runs[r].state /\ runs'[r].owner = runs[r].owner
    PROVE  /\ (\A e \in Exec : Fit(e)') /\ Alone' /\ NothingOpenUnderEndedRun'
<1>1. ASSUME NEW f \in Exec PROVE Fit(f)'
  <2>1. /\ TypeOK /\ now \in Nat /\ Fit(f) /\ ex'[f] = ex[f]
        /\ ex[f].pc \in Engaged => ex[f].run \in Run /\ runs[ex[f].run].state = "running"
    BY CoreFacts DEF Fit
  <2>2. ex[f].pc \in Engaged => /\ runs'[ex[f].run].state = runs[ex[f].run].state
                                /\ runs'[ex[f].run].owner = runs[ex[f].run].owner
                                /\ steps'[ex[f].run] = steps[ex[f].run]
    BY <2>1
  <2> QED BY <2>1, <2>2, FitKept
<1>2. Alone'
  BY DEF Alone, CoreInv
<1>3. ASSUME NEW r \in Run, runs'[r].state \in RunTerminal PROVE AllStepsTerminal(r)'
  <2>1. runs[r].state \in RunTerminal
    BY <1>3 DEF RunTerminal
  <2> QED BY <2>1 DEF CoreInv, NothingOpenUnderEndedRun, AllStepsTerminal, StepsIn
<1> QED BY <1>1, <1>2, <1>3 DEF NothingOpenUnderEndedRun

LEMMA CoreStep ==
    ASSUME CoreInv, [ENext]_evars
    PROVE  CoreInv'
<1>0. Sane' /\ RowsInv' /\ TypeOK /\ now \in Nat /\ Sane
  BY SaneStep, StoreStep, RowsStep, TimesFacts DEF CoreInv
<1>1. ASSUME /\ \A e \in Exec : Fit(e)'
             /\ Alone' /\ NothingOpenUnderEndedRun'
      PROVE  CoreInv'
  BY <1>0, <1>1 DEF CoreInv
<1>2. CASE UNCHANGED evars
  <2>1. runs' = runs /\ ex' = ex /\ steps' = steps /\ now' = now
    BY <1>2 DEF evars
  <2> QED BY <1>0, <1>1, <2>1, CoreOutside
<1>3. CASE EngineTick
  <2>1. runs' = runs /\ ex' = ex /\ steps' = steps /\ now' = now + 1
    BY <1>3 DEF EngineTick, Tick
  <2> QED BY <1>0, <1>1, <2>1, CoreOutside
<1>4. ASSUME NEW r \in Run, Materialize(r) PROVE CoreInv'
  <2>1. ex' = ex /\ steps' = steps /\ now' = now /\ runs[r].state = "absent"
    BY <1>4 DEF Materialize, CreateRunWithSteps, Exists
  <2>2. /\ runs'[r].state = "queued"
        /\ \A q \in Run \ {r} : runs'[q] = runs[q]
    <3>1. runs' = [runs EXCEPT ![r] = [AbsentRun EXCEPT
                    !.state = "queued", !.key = NULL, !.availableAt = now]]
      BY <1>4 DEF Materialize, CreateRunWithSteps
    <3> QED BY <1>0, <3>1 DEF TypeOK, AbsentRun
  <2> QED BY <1>0, <1>1, <2>1, <2>2, CoreOutside
<1>5. ASSUME NEW r \in Run, NEW a \in Actor, Interrupt(r, a) PROVE CoreInv'
  <2>1. ex' = ex /\ steps' = steps /\ now' = now
    BY <1>5 DEF Interrupt, RequestCancel
  <2>2. \A q \in Run : runs'[q].state = runs[q].state /\ runs'[q].owner = runs[q].owner
    BY <1>0, <1>5 DEF Interrupt, RequestCancel, TypeOK, RunRow
  <2> QED BY <1>0, <1>1, <2>1, <2>2, CoreOutside
<1>6. ASSUME NEW e \in Exec, Quiet(e) PROVE CoreInv'
  <2>1. UNCHANGED <<runs, steps, now>>
    BY <1>6, QuietFrame DEF vars
  <2>2. Unmoved(e)
    BY <1>0, <1>6, ShapeQuiet
  <2>3. \A f \in Exec \ {e} : Fit(f)'
    <3> TAKE f \in Exec \ {e}
    <3>1. Fit(f) /\ ex'[f] = ex[f] /\ (ex[f].pc \in Engaged => ex[f].run \in Run)
      BY <2>2, CoreFacts DEF Unmoved
    <3> QED BY <1>0, <2>1, <3>1, FitKept
  <2>4. Fit(e)' /\ (ex'[e].pc \in Engaged => ex[e].pc \in Engaged /\ ex'[e].run = ex[e].run)
    BY <1>6, FitQuiet
  <2>5. Alone'
    BY <2>2, <2>4 DEF Alone, CoreInv, Unmoved
  <2>6. NothingOpenUnderEndedRun'
    BY <2>1 DEF CoreInv, NothingOpenUnderEndedRun, AllStepsTerminal, StepsIn
  <2> QED BY <1>1, <2>3, <2>4, <2>5, <2>6
<1>7. ASSUME NEW e \in Exec, Acts(e) PROVE CoreInv'
  <2>1. /\ Unmoved(e) /\ ex[e].run \in Run
        /\ \A q \in Run \ {ex[e].run} : runs'[q] = runs[q] /\ steps'[q] = steps[q]
    BY <1>7, ActsRun
  <2>2. \A f \in Exec : Fit(f)'
    BY <1>7, ActsFit, FitOthers
  <2>3. ex'[e].run = ex[e].run
    <3>1. Locals
      BY <1>0, TimesFacts
    <3>2. ASSUME ObserveCancel(e) \/ Start(e) \/ Finish(e) PROVE ex'[e].run = ex[e].run
      BY <3>1, <3>2 DEF Locals, ExecRow, ObserveCancel, Start, Finish, Goto
    <3> QED BY <1>7, <3>1, <3>2, ClaimMoves, RecordMoves, SkipMoves DEF Acts, SameBudget
  <2>4. \A f \in Exec \ {e} : ~(ex[f].pc \in Engaged /\ ex[f].run = ex[e].run)
    BY <1>7, FitOthers
  <2>5. Alone'
    BY <2>1, <2>3, <2>4 DEF Alone, CoreInv, Unmoved
  <2>6. \A r \in Run : runs'[r].state \in RunTerminal => AllStepsTerminal(r)'
    <3> TAKE r \in Run
    <3>1. CASE r = ex[e].run
      BY <1>7, <3>1, ActsFit
    <3>2. CASE r # ex[e].run
      BY <2>1, <3>2 DEF CoreInv, NothingOpenUnderEndedRun, AllStepsTerminal, StepsIn
    <3> QED BY <3>1, <3>2
  <2> QED BY <1>1, <2>2, <2>5, <2>6 DEF NothingOpenUnderEndedRun
<1> QED BY <1>2, <1>3, <1>4, <1>5, <1>6, <1>7, NextCases

-----------------------------------------------------------------------------
(* Theorems. *)

LEMMA CoreAlways == ESpec => []CoreInv
<1>1. CoreInv /\ [ENext]_evars => CoreInv'
  BY CoreStep
<1> QED BY CoreInit, <1>1, PTL DEF ESpec

\* The engine drives the store through its transactions only, so whatever is
\* proved of the store's rows and of their history holds under the engine.
THEOREM EngineUsesTheStore == ESpec => Spec
<1>1. CoreInv /\ [ENext]_evars => [Next]_vars
  BY StoreStep DEF CoreInv
<1>2. EInit => Init
  BY DEF EInit
<1> QED BY <1>1, <1>2, CoreAlways, PTL DEF ESpec, Spec

LEMMA CoreImplies == CoreInv => ExecutorsAgreeWithRows
<1> SUFFICES ASSUME CoreInv PROVE ExecutorsAgreeWithRows
  OBVIOUS
<1>1. ETypeOK /\ NothingOpenUnderEndedRun
  BY DEF CoreInv, Sane
<1>2. ProcessIsAccountedFor
  <2> SUFFICES ASSUME NEW e \in Exec, ex[e].pc = "process"
               PROVE  /\ runs[ex[e].run].state = "running"
                      /\ runs[ex[e].run].owner = OwnerOf[e]
                      /\ StepsIn(ex[e].run, {"running"}) = {ex[e].step}
                      /\ steps[ex[e].run][ex[e].step].attempt = ex[e].attempt
                      /\ \A f \in Exec \ {e} : ex[f].run = ex[e].run => ex[f].pc # "process"
    BY DEF ProcessIsAccountedFor
  <2>1. Fit(e) /\ Alone
    BY DEF CoreInv
  <2>2. "process" \in Engaged /\ "process" \in AtWork
    BY DEF Engaged, Steady, AtWork
  <2> QED BY <2>1, <2>2 DEF Fit, Alone
<1>3. NoSurpriseRefusal
  <2> SUFFICES ASSUME NEW e \in Exec
               PROVE  /\ ex[e].pc \in {"read", "start"} => ex[e].step \in Runnable(ex[e].run)
                      /\ ex[e].pc \in {"launch", "spawn", "process", "record"} =>
                            steps[ex[e].run][ex[e].step].state = "running"
                      /\ ex[e].pc = "skip" => ex[e].skips = StepsIn(ex[e].run, {"pending"})
                      /\ ex[e].pc = "finish" => AllStepsTerminal(ex[e].run)
                      /\ ex[e].pc \in Steady \ {"claim"} => runs[ex[e].run].state = "running"
    BY DEF NoSurpriseRefusal
  <2>1. Fit(e) /\ Steady \ {"claim"} = Engaged
    BY DEF CoreInv, Engaged
  <2>2. {"read", "start", "launch", "spawn", "process", "record", "skip", "finish"} \subseteq Engaged
        /\ AtWork = {"launch", "spawn", "process", "record"}
    BY DEF Engaged, Steady, AtWork
  <2>3. ex[e].pc \in AtWork => steps[ex[e].run][ex[e].step].state = "running"
    <3>1. ex[e].pc \in AtWork => StepsIn(ex[e].run, {"running"}) = {ex[e].step}
      BY <2>1, <2>2 DEF Fit
    <3> QED BY <3>1 DEF StepsIn
  <2> QED BY <2>1, <2>2, <2>3 DEF Fit
<1> QED BY <1>1, <1>2, <1>3 DEF ExecutorsAgreeWithRows

\* Whatever the executors, the operator and the clock do between two accesses to
\* the database, a live process is the one its row describes, no call on the
\* store is refused but for a lost claim or lease, and nothing is left open.
THEOREM ExecutorsAgree == ESpec => []ExecutorsAgreeWithRows
BY CoreAlways, CoreImplies, PTL

\* Only Start makes a step run, and it runs what PickStep found runnable.
LEMMA OnlyStartRuns ==
    ASSUME CoreInv, [ENext]_evars, NEW r \in Run, NEW s \in Step,
           steps[r][s].state = "pending", steps'[r][s].state = "running"
    PROVE  \E e \in Exec : Start(e) /\ r = ex[e].run /\ s = ex[e].step
<1>0. TypeOK
  BY CoreFacts, TimesFacts DEF CoreInv
<1>1. steps' # steps
  OBVIOUS
<1>2. PICK e \in Exec : Acts(e)
  <2>1. ~UNCHANGED evars /\ ~EngineTick
    BY <1>1 DEF evars, EngineTick, Tick
  <2>2. ASSUME NEW q \in Run, Materialize(q) \/ \E a \in Actor : Interrupt(q, a) PROVE FALSE
    BY <1>1, <2>2 DEF Materialize, Interrupt, CreateRunWithSteps, RequestCancel
  <2>3. ASSUME NEW e \in Exec, Quiet(e) PROVE FALSE
    BY <1>1, <2>3, QuietFrame DEF vars
  <2> QED BY <2>1, <2>2, <2>3, NextCases
<1>3. r = ex[e].run
  BY <1>2, ActsRun
<1>4. ASSUME SkipPendingSteps(r, "STEP_CANCELLED") PROVE FALSE
  <2>1. Exists(r)
    BY <1>2, <1>3, ActsRun
  <2> QED BY <1>0, <1>4, <2>1, SkipEffect, CodeFacts DEF Skipped
<1>5. ~Claim(e)
  BY <1>1, <1>3, <1>4, ClaimDoes
<1>6. ~ObserveCancel(e)
  BY <1>3, <1>4, ObserveDoes
<1>7. ~Finish(e)
  BY <1>1, FinishDoes
<1>8. ASSUME NEW delay \in Delays, Record(e, delay) PROVE FALSE
  BY <1>3, <1>8, RecordDoes DEF RetryOrEnd
<1>9. ASSUME NEW q \in Step, SkipStep(e, q) PROVE FALSE
  BY <1>3, <1>9, SkipDoes
<1>10. Start(e)
  BY <1>2, <1>5, <1>6, <1>7, <1>8, <1>9 DEF Acts
<1> QED BY <1>3, <1>10, StartDoes

\* No attempt starts before the time its backoff named, whatever passed between
\* the look at the parked steps and the start.
THEOREM BackoffKept == ESpec => BackoffRespected
<1>1. CoreInv /\ [ENext]_evars =>
        [\A r \in Run, s \in Step :
            (steps[r][s].state = "pending" /\ steps'[r][s].state = "running")
                => steps[r][s].nextAt = NULL \/ steps[r][s].nextAt <= now]_evars
  <2> SUFFICES ASSUME CoreInv, [ENext]_evars, NEW r \in Run, NEW s \in Step,
                      steps[r][s].state = "pending", steps'[r][s].state = "running"
               PROVE  steps[r][s].nextAt = NULL \/ steps[r][s].nextAt <= now
    OBVIOUS
  <2>1. PICK e \in Exec : Start(e) /\ r = ex[e].run /\ s = ex[e].step
    BY OnlyStartRuns
  <2>2. s \in Runnable(r)
    BY <2>1, StartDoes
  <2> QED BY <2>2 DEF Runnable
<1> QED BY <1>1, CoreAlways, PTL DEF ESpec, BackoffRespected

-----------------------------------------------------------------------------
(* What the engine decides: which steps start and which are skipped, and how *)
(* a run is said to have ended.                                              *)

\* A set of step numbers that is not empty has a first one.
LEMMA LeastNatural ==
    ASSUME NEW T, T \subseteq Nat, T # {}
    PROVE  \E x \in T : \A y \in T : x <= y
<1> DEFINE R == OpToRel(<, Nat)
<1>1. IsWellFoundedOn(R, Nat)
  BY NatLessThanWellFounded
<1>2. \A x, y \in Nat : x < y => <<x, y>> \in R
  BY DEF OpToRel
<1> HIDE DEF R
<1>3. PICK x \in T : \A y \in T : ~(<<y, x>> \in R)
  BY <1>1, WFMin
<1>4. \A y \in T : ~(y < x)
  BY <1>2, <1>3, Zenon
<1>5. \A y \in T : x \in Nat /\ y \in Nat
  OBVIOUS
<1>6. \A y \in T : x <= y
  BY <1>4, <1>5
<1> QED BY <1>6

-----------------------------------------------------------------------------
(* What stays and who changes what. *)

\* A request stands, and what has ended keeps its rows.
LEMMA StaysPut ==
    ASSUME CoreInv, [ENext]_evars, NEW r \in Run
    PROVE  /\ CancelRequested(r) => CancelRequested(r)'
           /\ runs[r].state \in RunTerminal =>
                 runs'[r].state = runs[r].state /\ runs'[r].reason = runs[r].reason
           /\ \A s \in Step : steps[r][s].state \in StepTerminal => steps'[r][s] = steps[r][s]
<1>1. EndedStays(r) /\ runs[r] \in RunRow
  BY StoreStep, EndedStaysStep, CoreFacts, TimesFacts DEF CoreInv, TypeOK
<1>2. CancelRequested(r) => CancelRequested(r)'
  BY <1>1 DEF EndedStays, CancelRequested
<1>3. runs[r].state \in RunTerminal =>
         runs'[r].state = runs[r].state /\ runs'[r].reason = runs[r].reason
  BY <1>1 DEF EndedStays, RunRow
<1> QED BY <1>1, <1>2, <1>3 DEF EndedStays

\* Every step of the engine is the clock, the operator's, or one executor's.
LEMMA WhoMoves ==
    ASSUME CoreInv, [ENext]_evars
    PROVE  \/ UNCHANGED <<runs, steps, ex, late>>
           \/ \E r \in Run : Materialize(r) \/ \E a \in Actor : Interrupt(r, a)
           \/ \E e \in Exec : Quiet(e)
           \/ \E e \in Exec : Acts(e)
<1>1. (UNCHANGED evars) \/ EngineTick => UNCHANGED <<runs, steps, ex, late>>
  BY DEF evars, EngineTick, Tick
<1> QED BY <1>1, NextCases

\* A run is created without a request or a reason, and a request changes no other column.
LEMMA OperatorDoes ==
    ASSUME CoreInv, NEW r \in Run, Materialize(r) \/ \E a \in Actor : Interrupt(r, a)
    PROVE  /\ ex' = ex /\ steps' = steps /\ late' = late
           /\ \A q \in Run \ {r} : runs'[q] = runs[q]
           /\ \/ /\ runs[r].state = "absent" /\ runs'[r].state = "queued"
                 /\ runs'[r].reason = NULL
              \/ runs'[r].state = runs[r].state /\ runs'[r].reason = runs[r].reason
<1>0. TypeOK /\ runs[r] \in RunRow
  BY TimesFacts DEF CoreInv, TypeOK
<1>1. CASE Materialize(r)
  <2>1. runs' = [runs EXCEPT ![r] = [AbsentRun EXCEPT
                  !.state = "queued", !.key = NULL, !.availableAt = now]]
    BY <1>1 DEF Materialize, CreateRunWithSteps
  <2>2. runs[r].state = "absent" /\ UNCHANGED <<ex, late, steps>>
    BY <1>1 DEF Materialize, CreateRunWithSteps, Exists
  <2> QED BY <1>0, <2>1, <2>2 DEF TypeOK, AbsentRun
<1>2. ASSUME NEW a \in Actor, Interrupt(r, a)
      PROVE  /\ ex' = ex /\ steps' = steps /\ late' = late
             /\ \A q \in Run \ {r} : runs'[q] = runs[q]
             /\ runs'[r].state = runs[r].state /\ runs'[r].reason = runs[r].reason
  BY <1>0, <1>2 DEF Interrupt, RequestCancel, TypeOK, RunRow
<1> QED BY <1>1, <1>2

\* An executor that does not move keeps its run as it was.
LEMMA OthersKeep ==
    ASSUME CoreInv, NEW e \in Exec, Quiet(e) \/ Acts(e), NEW f \in Exec \ {e}
    PROVE  /\ ex'[f] = ex[f]
           /\ ex[f].pc \in Engaged => /\ ex[f].run \in Run
                                      /\ steps'[ex[f].run] = steps[ex[f].run]
<1>1. Sane /\ (ex[f].pc \in Engaged => ex[f].run \in Run)
  BY CoreFacts
<1>2. CASE Quiet(e)
  BY <1>1, <1>2, ShapeQuiet, QuietFrame DEF Unmoved, vars
<1>3. CASE Acts(e)
  <2>1. ~(ex[f].pc \in Engaged /\ ex[f].run = ex[e].run)
    BY <1>3, FitOthers
  <2> QED BY <1>1, <1>3, <2>1, ActsRun DEF Unmoved
<1> QED BY <1>2, <1>3

\* From which point to which an executor goes by itself.
LEMMA QuietPoints ==
    ASSUME CoreInv, NEW e \in Exec, Quiet(e)
    PROVE  \/ ex'[e].pc \in Gone
           \/ ex[e].pc = "idle" /\ ex'[e].pc = "claim"
           \/ ex[e].pc = "loop" /\ ex'[e].pc = "observe"
           \/ ex[e].pc = "loop" /\ ex'[e].pc = "pick" /\ ~CancelRequested(ex[e].run)
           \/ ex[e].pc = "pick" /\ ex'[e].pc = "read"
           \/ ex[e].pc = "pick" /\ ex'[e].pc = "wait" /\ Runnable(ex[e].run) = {}
           \/ ex[e].pc = "wait" /\ ex'[e].pc = "sleep"
           \/ ex[e].pc = "wait" /\ ex'[e].pc = "pending" /\ Parked(ex[e].run) = {}
           \/ ex[e].pc = "sleep" /\ ex'[e].pc = "loop"
           \/ ex[e].pc = "read" /\ ex'[e].pc = "start"
           \/ ex[e].pc = "launch" /\ ex'[e].pc = "spawn"
           \/ ex[e].pc \in {"spawn", "process"} /\ ex'[e].pc \in {"spawn", "process", "record"}
           \/ ex[e].pc = "pending" /\ ex'[e].pc = "skip"
           \/ ex[e].pc = "skip" /\ ex'[e].pc = "finish"
<1>0. Sane /\ Locals /\ TypeOK /\ now \in Nat /\ Shape(e)
  BY CoreFacts
<1>1. ASSUME NEW r \in Run, Begin(e, r) PROVE ex[e].pc = "idle" /\ ex'[e].pc = "claim"
  BY <1>0, <1>1, BeginMoves
<1>2. CASE ClaimRefused(e) \/ ObserveRefused(e) \/ LaunchRefused(e) \/ FinishRefused(e)
  BY <1>0, <1>2, Hops DEF Points, Steady, Gone, ClaimRefused, ObserveRefused, LaunchRefused,
     FinishRefused
<1>3. CASE CheckCancel(e)
  BY <1>0, <1>3, Hops DEF Points, Steady, Gone, CheckCancel
<1>4. CASE PickStep(e)
  BY <1>0, <1>4, PickMoves
<1>5. CASE RetryWait(e)
  <2>1. ex[e].run \in Run
    BY <1>0, <1>5 DEF RetryWait, Goto, Shape
  <2> QED BY <1>0, <1>5, <2>1, WaitMoves
<1>6. CASE Wake(e)
  BY <1>0, <1>6, WakeMoves
<1>7. CASE ReadStep(e)
  <2>1. ex[e].run \in Run /\ ex[e].step \in Step
    BY <1>0, <1>7 DEF ReadStep, Shape, InHand
  <2> QED BY <1>0, <1>7, <2>1, ReadMoves
<1>8. CASE Launch(e)
  <2>1. ex[e].end \in Nat
    BY <1>0, <1>8 DEF Launch, Shape
  <2> QED BY <1>0, <1>8, <2>1, LaunchMoves
<1>15. CASE ReadBudget(e)
  BY <1>0, <1>15, ReadBudgetMoves
<1>9. CASE SpawnFails(e)
  BY <1>0, <1>9, SpawnMoves
<1>10. CASE PollCancel(e)
  BY <1>0, <1>10, PollMoves
<1>11. ASSUME NEW outcome \in Outcomes, ProcessEnds(e, outcome)
       PROVE  ex[e].pc = "process" /\ ex'[e].pc = "record"
  BY <1>0, <1>11, EndsMoves
<1>12. CASE ReadPending(e)
  BY <1>0, <1>12, PendingMoves
<1>13. CASE FinishReason(e)
  BY <1>0, <1>13, ReasonMoves
<1>14. CASE Die(e)
  BY <1>0, <1>14, DieMoves DEF Gone
<1> QED BY <1>1, <1>2, <1>3, <1>4, <1>5, <1>6, <1>7, <1>8, <1>9, <1>10, <1>11, <1>12,
           <1>13, <1>14, <1>15 DEF Quiet

\* From which point to which it goes with a transaction.
LEMMA ActsPoints ==
    ASSUME CoreInv, NEW e \in Exec, Acts(e)
    PROVE  /\ ex'[e].run = ex[e].run
           /\ \/ ex'[e].pc \in {"loop", "returned"}
              \/ ex'[e].pc = "launch" /\ Start(e)
              \/ /\ ex'[e].pc = "pending" /\ SpentRunBudget(e)
                 /\ \E delay \in Delays : Record(e, delay)
              \/ ex'[e].pc = "skip" /\ \E s \in Step : SkipStep(e, s)
<1>0. Locals /\ Shape(e)
  BY CoreFacts
<1>1. CASE Claim(e)
  BY <1>0, <1>1, ClaimMoves DEF SameBudget
<1>2. CASE ObserveCancel(e) \/ Finish(e)
  BY <1>0, <1>2, Hops DEF ObserveCancel, Finish, Points, Steady, Gone, SameBudget
<1>3. CASE Start(e)
  BY <1>0, <1>3, Hops DEF Start, Points, Steady, Gone, SameBudget
<1>4. ASSUME NEW delay \in Delays, Record(e, delay)
      PROVE  /\ ex'[e].run = ex[e].run
             /\ ex'[e].pc = IF SpentRunBudget(e) THEN "pending" ELSE "loop"
  BY <1>0, <1>4, RecordMoves DEF SameBudget
<1>5. ASSUME NEW s \in Step, SkipStep(e, s)
      PROVE  ex'[e].run = ex[e].run /\ ex'[e].pc = "skip"
  BY <1>0, <1>5, SkipMoves DEF SameBudget
<1> QED BY <1>1, <1>2, <1>3, <1>4, <1>5 DEF Acts

-----------------------------------------------------------------------------
(* The budget.  A process that is said to have spent it has outlived it, and *)
(* from then on the executor that says so only closes its run, which no      *)
(* other executor can take.                                                  *)

LEMMA TimeGrows ==
    ASSUME CoreInv, [ENext]_evars
    PROVE  now \in Nat /\ now' \in Nat /\ now <= now'
<1>1. now \in Nat
  BY TimesFacts DEF CoreInv
<1>2. now' = now \/ now' = now + 1
  <2>1. (UNCHANGED evars) \/ EngineTick => now' = now \/ now' = now + 1
    BY DEF evars, EngineTick, Tick
  <2>2. ASSUME NEW r \in Run, Materialize(r) \/ \E a \in Actor : Interrupt(r, a)
        PROVE  now' = now
    BY <2>2, OutsideActs DEF CoreInv
  <2>3. ASSUME NEW e \in Exec, Quiet(e) \/ Acts(e) PROVE now' = now
    BY <2>3, QuietFrame, ActsRun DEF vars
  <2> QED BY <2>1, <2>2, <2>3, NextCases
<1> QED BY <1>1, <1>2

LEMMA HopEnding ==
    ASSUME Locals, NEW e \in Exec, NEW from \in Steady, NEW to \in Points, Goto(e, from, to)
    PROVE  /\ SameBudget(e) /\ ex'[e].timedOut = ex[e].timedOut
           /\ ex[e].pc # "idle" /\ ex'[e].pc = to
<1>1. from \in Points /\ from # "idle"
  BY DEF Points, Steady
<1> QED BY <1>1, Hops DEF SameEnding

\* What an executor remembers of its run and of the budget.
LEMMA QuietEnding ==
    ASSUME CoreInv, NEW e \in Exec, Quiet(e)
    PROVE  /\ ex[e].pc # "idle" => SameBudget(e) /\ ex'[e].timedOut = ex[e].timedOut
           /\ ex[e].pc = "idle" => ex'[e].timedOut = FALSE
<1>0. Sane /\ Locals /\ TypeOK /\ now \in Nat /\ Shape(e)
  BY CoreFacts
<1> DEFINE Kept == SameBudget(e) /\ ex'[e].timedOut = ex[e].timedOut /\ ex[e].pc # "idle"
<1>1. ASSUME NEW r \in Run, Begin(e, r) PROVE ex[e].pc = "idle" /\ ex'[e].timedOut = FALSE
  BY <1>0, <1>1, BeginMoves
<1>2. CASE ClaimRefused(e) \/ ObserveRefused(e) \/ LaunchRefused(e) \/ FinishRefused(e)
  <2>1. /\ "error" \in Points
        /\ {"claim", "observe", "spawn", "finish"} \subseteq Steady
    BY DEF Points, Steady, Gone
  <2> QED BY <1>0, <1>2, <2>1, HopEnding
          DEF ClaimRefused, ObserveRefused, LaunchRefused, FinishRefused
<1>15. CASE CheckCancel(e)
  BY <1>0, <1>15, HopEnding DEF CheckCancel, Points, Steady
<1>3. CASE PickStep(e)
  BY <1>0, <1>3, PickMoves DEF SameEnding
<1>4. CASE RetryWait(e)
  <2>1. ex[e].run \in Run
    BY <1>0, <1>4 DEF RetryWait, Goto, Shape
  <2> QED BY <1>0, <1>4, <2>1, WaitMoves DEF SameEnding
<1>5. CASE Wake(e)
  BY <1>0, <1>5, WakeMoves DEF SameEnding
<1>6. CASE ReadStep(e)
  <2>1. ex[e].run \in Run /\ ex[e].step \in Step
    BY <1>0, <1>6 DEF ReadStep, Shape, InHand
  <2> QED BY <1>0, <1>6, <2>1, ReadMoves DEF SameEnding
<1>7. CASE ReadBudget(e)
  BY <1>0, <1>7, ReadBudgetMoves DEF SameEnding
<1>8. CASE Launch(e)
  <2>1. ex[e].end \in Nat
    BY <1>0, <1>8 DEF Launch, Shape
  <2> QED BY <1>0, <1>8, <2>1, LaunchMoves DEF SameEnding
<1>9. CASE SpawnFails(e)
  BY <1>0, <1>9, SpawnMoves DEF SameEnding
<1>10. CASE PollCancel(e)
  BY <1>0, <1>10, PollMoves DEF SameEnding
<1>11. ASSUME NEW outcome \in Outcomes, ProcessEnds(e, outcome) PROVE Kept
  BY <1>0, <1>11, EndsMoves DEF SameEnding
<1>12. CASE ReadPending(e)
  BY <1>0, <1>12, PendingMoves
<1>13. CASE FinishReason(e)
  BY <1>0, <1>13, ReasonMoves
<1>14. CASE Die(e)
  BY <1>0, <1>14, DieMoves DEF Steady
<1> QED BY <1>1, <1>2, <1>3, <1>4, <1>5, <1>6, <1>7, <1>8, <1>9, <1>10, <1>11, <1>12,
           <1>13, <1>14, <1>15 DEF Quiet

LEMMA ActsEnding ==
    ASSUME CoreInv, NEW e \in Exec, Acts(e)
    PROVE  /\ SameBudget(e) /\ ex[e].pc # "idle"
           /\ ex[e].timedOut => ex'[e].timedOut
           /\ ex'[e].timedOut => ex[e].timedOut \/ (ex[e].pc = "record" /\ SpentRunBudget(e))
<1>0. Locals
  BY CoreFacts
<1>1. CASE Claim(e)
  BY <1>0, <1>1, ClaimMoves DEF SameEnding
<1>2. CASE ObserveCancel(e) \/ Start(e) \/ Finish(e)
  <2>1. /\ {"returned", "launch"} \subseteq Points
        /\ {"observe", "start", "finish"} \subseteq Steady
    BY DEF Points, Steady, Gone
  <2> QED BY <1>0, <1>2, <2>1, HopEnding DEF ObserveCancel, Start, Finish
<1>3. ASSUME NEW delay \in Delays, Record(e, delay)
      PROVE  /\ SameBudget(e) /\ ex[e].pc = "record"
             /\ ex'[e].timedOut = IF SpentRunBudget(e) THEN TRUE ELSE ex[e].timedOut
  BY <1>0, <1>3, RecordMoves
<1>4. ASSUME NEW s \in Step, SkipStep(e, s)
      PROVE  SameBudget(e) /\ ex[e].pc = "skip" /\ ex'[e].timedOut = ex[e].timedOut
  BY <1>0, <1>4, SkipMoves
<1> QED BY <1>1, <1>2, <1>3, <1>4 DEF Acts

\* A spent budget is remembered.
LEMMA TimedOutStays ==
    ASSUME CoreInv, [ENext]_evars, NEW f \in Exec, ex[f].timedOut
    PROVE  /\ ex'[f].timedOut /\ ex'[f].run = ex[f].run
           /\ ex'[f].deadline = ex[f].deadline /\ ex[f].run \in Run
<1>0. ex[f].pc # "idle" /\ ex[f].run \in Run
  BY CoreFacts DEF Shape
<1>1. CASE ex'[f] = ex[f]
  BY <1>0, <1>1
<1>2. CASE Quiet(f)
  BY <1>0, <1>2, QuietEnding DEF SameBudget
<1>3. CASE Acts(f)
  BY <1>0, <1>3, ActsEnding DEF SameBudget
<1>4. ASSUME NEW e \in Exec, e # f, Quiet(e) \/ Acts(e) PROVE ex'[f] = ex[f]
  BY <1>4, OthersKeep
<1> QED BY <1>1, <1>2, <1>3, <1>4, WhoMoves, OperatorDoes

LEMMA SpentStays ==
    ASSUME CoreInv, [ENext]_evars, NEW r \in Run, BudgetSpent(r)
    PROVE  BudgetSpent(r)'
<1>1. PICK f \in Exec : /\ ex[f].run = r /\ ex[f].timedOut
                        /\ ex[f].deadline # NULL /\ ex[f].deadline <= now
  BY DEF BudgetSpent
<1>2. ex[f].deadline \in Nat
  BY <1>1, CoreFacts DEF Locals, ExecRow, Time
<1>3. ex'[f].timedOut /\ ex'[f].run = r /\ ex'[f].deadline = ex[f].deadline
  BY <1>1, TimedOutStays
<1>4. ex[f].deadline <= now'
  BY <1>1, <1>2, TimeGrows
<1> QED BY <1>1, <1>3, <1>4 DEF BudgetSpent

\* Where an executor may be once its budget is spent.
Closing == {"pending", "skip", "finish"}

SpentEnds(e) ==
    ex[e].timedOut =>
        /\ ex[e].pc \in Closing \union Gone
        /\ runs[ex[e].run].state \notin {"absent", "queued"}
        /\ StepsIn(ex[e].run, {"running"}) = {}
        /\ \A f \in Exec \ {e} : ex[f].pc \in Engaged => ex[f].run # ex[e].run

SpentInv == CoreInv /\ \A e \in Exec : OnBudget(e) /\ SpentEnds(e)

LEMMA SpentInit == EInit => SpentInv
<1> SUFFICES ASSUME EInit PROVE SpentInv
  OBVIOUS
<1>1. CoreInv
  BY CoreInit
<1>2. \A e \in Exec : ex[e].pc = "idle" /\ ex[e].timedOut = FALSE
  BY DEF EInit, Idle
<1> QED BY <1>1, <1>2 DEF SpentInv, OnBudget, SpentEnds

\* From the reading of the time left to the verdict, the budget's end is where the
\* executor thinks it is.
LEMMA OnBudgetStep ==
    ASSUME SpentInv, [ENext]_evars, NEW f \in Exec
    PROVE  OnBudget(f)'
<1>0. /\ CoreInv /\ Sane /\ Locals /\ Shape(f) /\ OnBudget(f) /\ TypeOK
      /\ now \in Nat /\ now' \in Nat /\ now <= now'
      /\ ex[f].deadline \in Nat \union {NULL} /\ ex[f].left \in Int
  BY CoreFacts, TimeGrows DEF SpentInv, Locals, ExecRow, Time
<1>1. CASE ex'[f] = ex[f]
  BY <1>0, <1>1 DEF OnBudget, SpentRunBudget
<1>2. ASSUME ex'[f].pc \notin {"spawn", "process", "record"},
             ex'[f].timedOut => ex[f].timedOut /\ SameBudget(f)
      PROVE  OnBudget(f)'
  BY <1>0, <1>2 DEF OnBudget, SameBudget
<1>3. CASE Quiet(f)
  <2>1. now' = now
    BY <1>3, QuietFrame DEF vars
  <2>2. ex'[f].timedOut => ex[f].timedOut /\ SameBudget(f)
    BY <1>0, <1>3, QuietEnding
  <2>3. CASE ReadBudget(f)
    <3>1. /\ ex'[f].pc = "spawn" /\ ex'[f].end = now /\ ex'[f].left = TimeLeft(f)
          /\ ex'[f].hit = DeadlineHit(f) /\ SameBudget(f)
          /\ ex'[f].timedOut = ex[f].timedOut
      BY <1>0, <2>3, ReadBudgetMoves DEF SameEnding
    <3>2. ex'[f].hit => ex'[f].deadline \in Nat /\ ex'[f].deadline <= ex'[f].end + ex'[f].left
      <4> SUFFICES ASSUME DeadlineHit(f)
                   PROVE  /\ ex[f].deadline \in Nat
                          /\ ex[f].deadline <= now + TimeLeft(f)
        BY <3>1 DEF SameBudget
      <4>1. /\ TimeLeft(f) \in Int /\ ex[f].deadline # NULL
            /\ now + TimeLeft(f) = ex[f].deadline
        BY <1>0, TimeLeftFacts
      <4> QED BY <1>0, <4>1
    <3> QED BY <1>0, <2>1, <2>2, <3>1, <3>2 DEF OnBudget, SameBudget
  <2>4. CASE Launch(f)
    <3>1. ex[f].end \in Nat /\ ex[f].pc = "spawn"
      BY <1>0, <2>4 DEF Launch, Shape
    <3>2. /\ ex'[f].pc = "process" /\ ex'[f].end \in Nat
          /\ ex[f].end + ex[f].left <= ex'[f].end
          /\ ex'[f].hit = ex[f].hit /\ SameBudget(f)
      BY <1>0, <2>4, <3>1, LaunchMoves
    <3>3. ex'[f].hit => ex'[f].deadline \in Nat /\ ex'[f].deadline <= ex'[f].end
      BY <1>0, <3>1, <3>2 DEF OnBudget, SameBudget
    <3> QED BY <1>0, <2>1, <2>2, <3>2, <3>3 DEF OnBudget, SameBudget
  <2>5. CASE SpawnFails(f)
    BY <1>0, <2>1, <2>2, <2>5, SpawnMoves DEF OnBudget, SpentRunBudget, SameBudget
  <2>6. CASE PollCancel(f)
    BY <1>0, <2>1, <2>2, <2>6, PollMoves DEF OnBudget, SameBudget
  <2>7. ASSUME NEW outcome \in Outcomes, ProcessEnds(f, outcome) PROVE OnBudget(f)'
    <3>1. /\ ex[f].pc = "process" /\ ex'[f].pc = "record" /\ ex'[f].outcome = outcome
          /\ outcome = "TimedOut" => ex[f].end <= now
          /\ ex'[f].hit = ex[f].hit /\ SameBudget(f)
      BY <1>0, <2>7, EndsMoves
    <3>2. ex[f].end \in Nat
      BY <1>0, <3>1 DEF Shape
    <3>3. SpentRunBudget(f)' => ex'[f].deadline \in Nat /\ ex'[f].deadline <= now
      BY <1>0, <3>1, <3>2 DEF OnBudget, SpentRunBudget, SameBudget
    <3> QED BY <1>0, <2>1, <2>2, <3>1, <3>3 DEF OnBudget, SameBudget
  <2>8. ASSUME ~ReadBudget(f), ~Launch(f), ~SpawnFails(f), ~PollCancel(f),
               ~\E outcome \in Outcomes : ProcessEnds(f, outcome)
        PROVE  ex'[f].pc \notin {"spawn", "process", "record"}
    <3>1. ASSUME NEW r \in Run, Begin(f, r) PROVE ex'[f].pc = "claim"
      BY <1>0, <3>1, BeginMoves
    <3>2. CASE ClaimRefused(f) \/ ObserveRefused(f) \/ LaunchRefused(f) \/ FinishRefused(f)
      <4>1. /\ "error" \in Points
            /\ {"claim", "observe", "spawn", "finish"} \subseteq Steady
        BY DEF Points, Steady, Gone
      <4> QED BY <1>0, <3>2, <4>1, HopEnding
              DEF ClaimRefused, ObserveRefused, LaunchRefused, FinishRefused
    <3>5. CheckCancel(f) => ex'[f].pc \in {"observe", "pick"}
      BY <1>0, HopEnding DEF CheckCancel, Points, Steady
    <3>3. ex[f].pc \in {"pick", "wait", "sleep", "read", "pending", "skip"} =>
             ex'[f].pc \notin {"spawn", "process", "record"}
      BY <1>0, <1>3, QuietPoints DEF Gone
    <3>4. Die(f) => ex'[f].pc = "dead"
      BY <1>0, DieMoves
    <3> QED BY <1>3, <2>8, <3>1, <3>2, <3>3, <3>4, <3>5
            DEF Quiet, PickStep, RetryWait, Wake, ReadStep, ReadPending, FinishReason, Goto
  <2> QED BY <1>2, <2>2, <2>3, <2>4, <2>5, <2>6, <2>7, <2>8
<1>4. CASE Acts(f)
  <2>1. /\ SameBudget(f)
        /\ ex'[f].timedOut => ex[f].timedOut \/ (ex[f].pc = "record" /\ SpentRunBudget(f))
    BY <1>0, <1>4, ActsEnding
  <2>2. ex'[f].pc \notin {"spawn", "process", "record"}
    BY <1>0, <1>4, ActsPoints
  <2> QED BY <1>0, <2>1, <2>2 DEF OnBudget, SameBudget
<1>5. ASSUME NEW e \in Exec, e # f, Quiet(e) \/ Acts(e) PROVE ex'[f] = ex[f]
  BY <1>0, <1>5, OthersKeep
<1> QED BY <1>1, <1>3, <1>4, <1>5, <1>0, WhoMoves, OperatorDoes

\* What the others leave alone.
LEMMA SpentEndsKept ==
    ASSUME NEW f \in Exec, SpentEnds(f), ex[f].timedOut, ex'[f].run = ex[f].run,
           ex'[f].pc \in Closing \union Gone, steps'[ex[f].run] = steps[ex[f].run],
           runs'[ex[f].run].state \notin {"absent", "queued"},
           \A g \in Exec \ {f} :
              ex'[g].pc \in Engaged => ex[g].pc \in Engaged /\ ex'[g].run = ex[g].run
    PROVE  SpentEnds(f)'
BY DEF SpentEnds, StepsIn

LEMMA SpentEndsStep ==
    ASSUME SpentInv, [ENext]_evars, NEW f \in Exec
    PROVE  SpentEnds(f)'
<1>0. /\ CoreInv /\ CoreInv' /\ SpentEnds(f) /\ Fit(f)' /\ Alone'
  BY CoreStep DEF SpentInv, CoreInv
<1> SUFFICES ASSUME ex'[f].timedOut PROVE SpentEnds(f)'
  BY DEF SpentEnds
<1>1. ASSUME ex[f].timedOut
      PROVE  /\ ex'[f].run = ex[f].run /\ ex[f].run \in Run
             /\ ex[f].pc \in Closing \union Gone /\ ex[f].pc # "idle"
             /\ runs[ex[f].run].state \notin {"absent", "queued"}
  BY <1>0, <1>1, TimedOutStays DEF SpentEnds, Closing, Gone
\* An executor that goes on to close the run is the only one at work on it.
<1>2. ASSUME ex'[f].pc \in Closing PROVE SpentEnds(f)'
  <2>1. ex'[f].pc \in Engaged /\ ex'[f].pc \notin AtWork
    BY <1>2 DEF Closing, Engaged, Steady, AtWork
  <2>2. runs'[ex'[f].run].state = "running" /\ StepsIn(ex[f].run, {"running"})' = {}
    BY <1>0, <2>1 DEF Fit
  <2>3. \A g \in Exec \ {f} : ex'[g].pc \in Engaged => ex'[g].run # ex'[f].run
    BY <1>0, <2>1 DEF Alone
  <2> QED BY <1>2, <2>2, <2>3 DEF SpentEnds
<1>3. CASE Quiet(f)
  <2>1. ex[f].timedOut
    BY <1>0, <1>3, QuietEnding
  <2>2. ex'[f].pc \in Closing \union Gone
    BY <1>0, <1>1, <1>3, <2>1, QuietPoints DEF Closing, Gone
  <2>3. steps' = steps /\ runs' = runs /\ \A g \in Exec \ {f} : ex'[g] = ex[g]
    BY <1>0, <1>3, QuietFrame, OthersKeep DEF vars
  <2> QED BY <1>0, <1>1, <2>1, <2>2, <2>3, SpentEndsKept
<1>4. CASE Acts(f)
  <2>1. ex'[f].pc \in {"loop", "returned", "launch", "pending", "skip"}
    BY <1>0, <1>4, ActsPoints
  <2>2. CASE ex'[f].pc \in {"pending", "skip"}
    BY <1>2, <2>2 DEF Closing
  <2>3. CASE ex'[f].pc \in {"loop", "returned", "launch"}
    <3>1. ex[f].timedOut
      <4>1. ASSUME ~ex[f].timedOut PROVE FALSE
        <5>1. ex[f].pc = "record" /\ SpentRunBudget(f)
          BY <1>0, <1>4, <4>1, ActsEnding
        <5>2. PICK delay \in Delays : Record(f, delay)
          BY <1>4, <5>1 DEF Acts, Claim, ObserveCancel, Start, Finish, SkipStep, Goto
        <5>3. ex'[f].pc = "pending"
          BY <1>0, <5>1, <5>2, RecordMoves, CoreFacts
        <5> QED BY <2>3, <5>3
      <4> QED BY <4>1
    <3>2. ex[f].pc \in Closing
      <4>1. ex[f].pc \in Engaged
        BY <1>0, <1>1, <1>4, <3>1, ActsRun
      <4> QED BY <1>1, <3>1, <4>1 DEF Engaged, Steady, Gone
    <3>3. Finish(f)
      <4>1. ~\E s \in Step : SkipStep(f, s)
        BY <1>0, <2>3, SkipMoves, CoreFacts
      <4> QED BY <1>4, <3>2, <4>1
              DEF Acts, Claim, ObserveCancel, Start, Record, Closing, Goto
    <3>4. ex'[f].pc = "returned"
      BY <1>0, <3>3, Hops, CoreFacts DEF Finish, Points, Steady, Gone
    <3>5. /\ steps' = steps
          /\ runs'[ex[f].run].state \in {"failed", "succeeded"}
      BY <1>0, <3>3, FinishDoes
    <3>6. \A g \in Exec \ {f} : ex'[g] = ex[g]
      BY <1>0, <1>4, OthersKeep
    <3> QED BY <1>0, <1>1, <3>1, <3>4, <3>5, <3>6, SpentEndsKept DEF Gone
  <2> QED BY <2>1, <2>2, <2>3
<1>5. ASSUME NEW e \in Exec, e # f, Quiet(e) PROVE SpentEnds(f)'
  <2>1. ex'[f] = ex[f] /\ \A g \in Exec \ {e} : ex'[g] = ex[g]
    BY <1>0, <1>5, OthersKeep
  <2>2. steps' = steps /\ runs' = runs
    BY <1>5, QuietFrame DEF vars
  <2>3. ex'[e].pc \in Engaged => ex[e].pc \in Engaged /\ ex'[e].run = ex[e].run
    BY <1>0, <1>5, FitQuiet
  <2> QED BY <1>0, <1>1, <2>1, <2>2, <2>3, SpentEndsKept
<1>6. ASSUME NEW e \in Exec, e # f, Acts(e) PROVE SpentEnds(f)'
  <2>1. ex'[f] = ex[f] /\ \A g \in Exec \ {e} : ex'[g] = ex[g]
    BY <1>0, <1>6, OthersKeep
  <2>2. /\ ex[e].pc \in Engaged \/ runs[ex[e].run].state = "queued"
        /\ \A q \in Run \ {ex[e].run} : runs'[q] = runs[q] /\ steps'[q] = steps[q]
    BY <1>0, <1>6, ActsRun
  <2>3. ex[f].timedOut
    BY <2>1
  <2>4. ex[e].run # ex[f].run
    <3>1. ex[e].pc \in Engaged => ex[e].run # ex[f].run
      BY <1>0, <1>6, <2>3 DEF SpentEnds
    <3> QED BY <1>1, <2>2, <2>3, <3>1
  <2>5. steps'[ex[f].run] = steps[ex[f].run] /\ runs'[ex[f].run] = runs[ex[f].run]
    BY <1>1, <2>2, <2>3, <2>4
  <2>6. ex'[e].run = ex[e].run
    BY <1>0, <1>6, ActsPoints
  <2>7. \A g \in Exec \ {f} : ex'[g].pc \in Engaged => ex'[g].run # ex[f].run
    BY <1>0, <2>1, <2>3, <2>4, <2>6 DEF SpentEnds
  <2> QED BY <1>0, <1>1, <2>1, <2>3, <2>5, <2>7 DEF SpentEnds, StepsIn
<1>7. ASSUME ex' = ex, steps' = steps,
             \A r \in Run : runs'[r].state \in {"absent", "queued"} =>
                                runs[r].state \in {"absent", "queued"}
      PROVE  SpentEnds(f)'
  BY <1>0, <1>1, <1>7, SpentEndsKept
<1>8. CASE UNCHANGED <<runs, steps, ex, late>>
  BY <1>7, <1>8
<1>9. ASSUME NEW r \in Run, Materialize(r) \/ \E a \in Actor : Interrupt(r, a)
      PROVE  SpentEnds(f)'
  BY <1>0, <1>7, <1>9, OperatorDoes
<1> QED BY <1>0, <1>3, <1>4, <1>5, <1>6, <1>8, <1>9, WhoMoves

LEMMA SpentStep ==
    ASSUME SpentInv, [ENext]_evars
    PROVE  SpentInv'
BY CoreStep, OnBudgetStep, SpentEndsStep DEF SpentInv

-----------------------------------------------------------------------------
(* Verdicts.  A step is only cancelled on request, and a loop that finds one *)
(* finds the request too; so a run that is finished rather than cancelled    *)
(* has no cancelled step, and the reason read before the transaction that    *)
(* finishes it names what that transaction finds, or the spent budget.       *)

NoneCancelled(r) == StepsIn(r, {"cancelled"}) = {}

Asked(e) ==
    ex[e].killed \/ (ex[e].pc = "record" /\ ex[e].outcome = "Cancelled") =>
        ex[e].run \in Run /\ CancelRequested(ex[e].run)

\* What finishReason is to say of the steps it finds.
NameOf(e) == IF ex[e].timedOut THEN "RUN_TIMED_OUT"
             ELSE IF StepsIn(ex[e].run, {"failed"}) # {} THEN "RUN_FAILED_STEP"
             ELSE "RUN_SUCCEEDED"

Reasoned(e) ==
    /\ ex[e].pc \in Engaged \ {"loop", "observe"} => NoneCancelled(ex[e].run)
    /\ ex[e].pc = "finish" => ex[e].reason = NameOf(e)

\* The step whose process spent the budget: put back or failed, and then skipped.
Blamed(e) ==
    ex[e].timedOut /\ ex[e].pc \in Engaged =>
        \E s \in Step : /\ steps[ex[e].run][s].attempt > 0
                        /\ steps[ex[e].run][s].state \in {"failed", "skipped", "pending"}

Told(r) ==
    /\ ~NoneCancelled(r) => CancelRequested(r)
    /\ runs[r].state \in RunStates \union {"absent"}
    /\ runs[r].state \in {"absent", "queued", "running"} => runs[r].reason = NULL
    /\ runs[r].state = "cancelled" => runs[r].reason = "RUN_CANCELLED_MANUAL"
    /\ runs[r].state = "succeeded" =>
          runs[r].reason \in {"RUN_SUCCEEDED", "RUN_TIMED_OUT"} /\ NoneCancelled(r)
    /\ runs[r].state = "failed" =>
          runs[r].reason \in {"RUN_FAILED_STEP", "RUN_TIMED_OUT"} /\ NoneCancelled(r)
    /\ runs[r].reason = "RUN_TIMED_OUT" =>
          /\ runs[r].state \in RunTerminal
          /\ BudgetSpent(r) /\ \E s \in Step : KilledStep(r, s)

VerdictInv ==
    /\ SpentInv
    /\ \A e \in Exec : Asked(e) /\ Reasoned(e) /\ Blamed(e)
    /\ \A r \in Run : Told(r)

LEMMA VerdictInit == EInit => VerdictInv
<1> SUFFICES ASSUME EInit PROVE VerdictInv
  OBVIOUS
<1>1. SpentInv
  BY SpentInit
<1>2. \A e \in Exec : Asked(e) /\ Reasoned(e) /\ Blamed(e)
  BY DEF EInit, Idle, Asked, Reasoned, Blamed, Engaged, Steady
<1>3. \A r \in Run : Told(r)
  <2>1. NULL # "RUN_TIMED_OUT"
    BY CodeFacts
  <2> QED BY <2>1 DEF EInit, Init, AbsentRun, NewStep, Told, NoneCancelled, StepsIn
<1> QED BY <1>1, <1>2, <1>3 DEF VerdictInv

\* Asked follows the process: only the poll sets it, and only on a request.
LEMMA AskedStep ==
    ASSUME VerdictInv, [ENext]_evars, NEW f \in Exec
    PROVE  Asked(f)'
<1>0. CoreInv /\ Sane /\ Locals /\ now \in Nat /\ Asked(f) /\ Shape(f)
  BY CoreFacts DEF VerdictInv, SpentInv
<1>1. ASSUME ex'[f].run = ex[f].run,
             ex'[f].killed => ex[f].killed,
             ex'[f].pc = "record" /\ ex'[f].outcome = "Cancelled" =>
                ex[f].killed \/ (ex[f].pc = "record" /\ ex[f].outcome = "Cancelled")
      PROVE  Asked(f)'
  <2>1. ex[f].run \in Run /\ CancelRequested(ex[f].run) => CancelRequested(ex[f].run)'
                                                           \/ ex'[f].run # ex[f].run
    <3> SUFFICES ASSUME NEW r \in Run, r = ex[f].run, CancelRequested(r)
                 PROVE  runs'[ex'[f].run].cancelBy # NULL
      BY <1>1 DEF CancelRequested
    <3> QED BY <1>0, <1>1, StaysPut DEF CancelRequested
  <2> QED BY <1>0, <1>1, <2>1 DEF Asked, CancelRequested
<1>2. ASSUME ex'[f].killed = FALSE, ex'[f].pc # "record" PROVE Asked(f)'
  BY <1>2 DEF Asked
<1>3. CASE ex'[f] = ex[f]
  BY <1>1, <1>3
<1>4. CASE Acts(f)
  <2>1. ASSUME NEW delay \in Delays, Record(f, delay) PROVE Asked(f)'
    BY <1>0, <1>2, <2>1, RecordMoves
  <2>2. ASSUME NEW s \in Step, SkipStep(f, s) PROVE Asked(f)'
    BY <1>0, <1>1, <2>2, SkipMoves DEF SameBudget, SameProcess
  <2>3. CASE Claim(f)
    BY <1>0, <1>1, <2>3, ClaimMoves DEF SameBudget, SameProcess
  <2>4. CASE ObserveCancel(f) \/ Start(f) \/ Finish(f)
    BY <1>0, <1>1, <2>4, Hops DEF SameBudget, SameProcess, Points, Steady, Gone,
       ObserveCancel, Start, Finish
  <2> QED BY <1>4, <2>1, <2>2, <2>3, <2>4 DEF Acts
<1>5. CASE Quiet(f)
  <2>1. ASSUME NEW r \in Run, Begin(f, r) PROVE Asked(f)'
    BY <1>0, <1>2, <2>1, BeginMoves
  <2>2. CASE ClaimRefused(f) \/ CheckCancel(f) \/ ObserveRefused(f) \/ LaunchRefused(f)
             \/ FinishRefused(f)
    BY <1>0, <1>1, <2>2, Hops DEF SameBudget, SameProcess, Points, Steady, Gone,
       ClaimRefused, CheckCancel, ObserveRefused, LaunchRefused, FinishRefused
  <2>3. CASE PickStep(f)
    BY <1>0, <1>1, <2>3, PickMoves DEF SameBudget, SameProcess
  <2>4. CASE RetryWait(f)
    <3>1. ex[f].run \in Run /\ TypeOK
      BY <1>0, <2>4, TimesFacts DEF RetryWait, Goto, Shape
    <3> QED BY <1>0, <1>1, <2>4, <3>1, WaitMoves DEF SameBudget
  <2>5. CASE Wake(f)
    BY <1>0, <1>2, <2>5, WakeMoves
  <2>6. CASE ReadStep(f)
    <3>1. ex[f].run \in Run /\ ex[f].step \in Step /\ TypeOK
      BY <1>0, <2>6, TimesFacts DEF ReadStep, Shape, InHand
    <3> QED BY <1>0, <1>1, <2>6, <3>1, ReadMoves DEF SameBudget, SameProcess
  <2>7. CASE Launch(f)
    <3>1. ex[f].end \in Nat
      BY <1>0, <2>7 DEF Launch, Shape
    <3> QED BY <1>0, <1>1, <2>7, <3>1, LaunchMoves DEF SameBudget
  <2>14. CASE ReadBudget(f)
    BY <1>0, <1>1, <2>14, ReadBudgetMoves DEF SameBudget
  <2>8. CASE SpawnFails(f)
    BY <1>0, <1>1, <2>8, SpawnMoves DEF SameBudget
  <2>9. CASE PollCancel(f)
    <3>1. ex[f].run \in Run /\ CancelRequested(ex[f].run) /\ ex'[f].run = ex[f].run
      BY <1>0, <2>9, PollMoves DEF Shape, SameBudget
    <3>2. PICK r \in Run : r = ex[f].run
      BY <3>1
    <3>3. CancelRequested(r)'
      BY <1>0, <3>1, <3>2, StaysPut
    <3> QED BY <3>1, <3>2, <3>3 DEF Asked, CancelRequested
  <2>10. ASSUME NEW outcome \in Outcomes, ProcessEnds(f, outcome) PROVE Asked(f)'
    BY <1>0, <1>1, <2>10, EndsMoves DEF SameBudget
  <2>11. CASE ReadPending(f)
    BY <1>0, <1>1, <2>11, PendingMoves DEF SameBudget, SameProcess
  <2>12. CASE FinishReason(f)
    BY <1>0, <1>1, <2>12, ReasonMoves DEF SameBudget, SameProcess
  <2>13. CASE Die(f)
    BY <1>0, <1>2, <2>13, DieMoves
  <2> QED BY <1>5, <2>1, <2>2, <2>3, <2>4, <2>5, <2>6, <2>7, <2>8, <2>9, <2>10, <2>11,
             <2>12, <2>13, <2>14 DEF Quiet
<1>6. ASSUME NEW e \in Exec, e # f, Quiet(e) \/ Acts(e) PROVE ex'[f] = ex[f]
  BY <1>0, <1>6, ShapeQuiet, ShapeActs DEF Unmoved
<1> QED BY <1>0, <1>3, <1>4, <1>5, <1>6, WhoMoves, OperatorDoes

\* A pass over the pending steps cancels none of them.
LEMMA SkipCancelsNone ==
    ASSUME TypeOK, NEW r \in Run, Exists(r), SkipPendingSteps(r, "STEP_CANCELLED"),
           NoneCancelled(r)
    PROVE  NoneCancelled(r)'
<1>1. \A s \in Step : IF steps[r][s].state = "pending"
                      THEN Skipped(r, s) ELSE steps'[r][s] = steps[r][s]
  BY SkipEffect, CodeFacts
<1> QED BY <1>1 DEF NoneCancelled, StepsIn, Skipped

\* A step becomes cancelled only when the outcome of its process is recorded,
\* and its executor then looks for the request.
LEMMA CancelledGrow ==
    ASSUME CoreInv, NEW e \in Exec, Acts(e), NEW r \in Run, r = ex[e].run, NoneCancelled(r)
    PROVE  \/ NoneCancelled(r)'
           \/ /\ ex[e].pc = "record" /\ ex[e].outcome = "Cancelled"
              /\ ex'[e].pc = "loop"
<1>0. TypeOK /\ Exists(r) /\ Locals
  BY ActsRun, CoreFacts
<1>1. CASE Claim(e)
  <2>1. steps' = steps \/ SkipPendingSteps(r, "STEP_CANCELLED")
    BY <1>1, ClaimDoes
  <2> QED BY <1>0, <2>1, SkipCancelsNone DEF NoneCancelled, StepsIn
<1>2. CASE ObserveCancel(e)
  BY <1>0, <1>2, ObserveDoes, SkipCancelsNone
<1>3. CASE Finish(e)
  BY <1>3, FinishDoes DEF NoneCancelled, StepsIn
<1>4. CASE Start(e)
  <2>1. /\ steps'[r][ex[e].step].state = "running"
        /\ \A q \in Step \ {ex[e].step} : steps'[r][q] = steps[r][q]
    BY <1>4, StartDoes
  <2>2. PICK s : s = ex[e].step
    OBVIOUS
  <2> QED BY <2>1, <2>2 DEF NoneCancelled, StepsIn
<1>5. ASSUME NEW delay \in Delays, Record(e, delay)
      PROVE  \/ NoneCancelled(r)'
             \/ /\ ex[e].pc = "record" /\ ex[e].outcome = "Cancelled"
                /\ ex'[e].pc = "loop"
  <2>1. /\ ex[e].pc = "record"
        /\ steps'[r][ex[e].step].state = "cancelled" => ex[e].outcome = "Cancelled"
        /\ \A q \in Step \ {ex[e].step} : steps'[r][q] = steps[r][q]
    BY <1>5, RecordDoes
  <2>2. PICK s : s = ex[e].step
    OBVIOUS
  <2>3. CASE ex[e].outcome = "Cancelled"
    <3>1. ex'[e].pc = "loop"
      BY <1>0, <1>5, <2>3, RecordMoves DEF SpentRunBudget
    <3> QED BY <2>1, <2>3, <3>1
  <2>4. CASE ex[e].outcome # "Cancelled"
    BY <2>1, <2>2, <2>4 DEF NoneCancelled, StepsIn
  <2> QED BY <2>3, <2>4
<1>6. ASSUME NEW s \in Step, SkipStep(e, s) PROVE NoneCancelled(r)'
  <2>1. /\ steps'[r][s].state = "skipped"
        /\ \A q \in Step \ {s} : steps'[r][q] = steps[r][q]
    BY <1>6, SkipDoes
  <2> QED BY <2>1 DEF NoneCancelled, StepsIn
<1> QED BY <1>1, <1>2, <1>3, <1>4, <1>5, <1>6 DEF Acts

\* The code decided before the finishing transaction: the first step that failed
\* or was cancelled has failed, unless the budget was spent.
LEMMA ReasonIsRight ==
    ASSUME NEW e \in Exec, NoneCancelled(ex[e].run)
    PROVE  ReasonOf(e) = NameOf(e)
<1> DEFINE r == ex[e].run
           failed == StepsIn(r, {"failed"})
<1>2. StepsIn(r, {"cancelled"}) = {} /\ StepsIn(r, {"failed", "cancelled"}) = failed
  BY DEF NoneCancelled, StepsIn
<1>3. ~FirstEndedIs(e, "cancelled")
  BY <1>2 DEF FirstEndedIs
<1>4. failed \subseteq Nat
  BY StepAssumption DEF StepsIn
<1>5. FirstEndedIs(e, "failed") <=> failed # {}
  <2>1. CASE failed = {}
    BY <2>1 DEF FirstEndedIs
  <2>2. CASE failed # {}
    <3>1. PICK s \in failed : \A q \in failed : s <= q
      BY <1>4, <2>2, LeastNatural
    <3> QED BY <1>2, <2>2, <3>1 DEF FirstEndedIs
  <2> QED BY <2>1, <2>2
<1> QED BY <1>3, <1>5 DEF ReasonOf, NameOf

LEMMA ReasonedActs ==
    ASSUME VerdictInv, NEW e \in Exec, Acts(e)
    PROVE  Reasoned(e)'
<1>0. CoreInv /\ Locals /\ Reasoned(e)
  BY CoreFacts DEF VerdictInv, SpentInv
<1>1. PICK r \in Run : r = ex[e].run
  BY <1>0, ActsRun
<1>2. \/ ex'[e].pc \in {"loop", "returned"}
      \/ /\ ex[e].pc \in Engaged \ {"loop", "observe"} /\ ex'[e].run = r
         /\ ex'[e].pc # "finish"
  <2>1. CASE Claim(e)
    BY <1>0, <2>1, ClaimMoves
  <2>2. CASE ObserveCancel(e) \/ Finish(e)
    BY <1>0, <2>2, Hops DEF ObserveCancel, Finish, Points, Steady, Gone
  <2>3. CASE Start(e)
    <3>1. Goto(e, "start", "launch")
      BY <2>3 DEF Start
    <3>2. "start" \in Points /\ "launch" \in Points
      BY DEF Points, Steady, Gone
    <3>3. /\ ex[e].pc = "start" /\ ex'[e].pc = "launch"
          /\ SameBudget(e)
      BY <1>0, <3>1, <3>2, Hops
    <3>4. ex'[e].run = r
      BY <1>1, <3>3 DEF SameBudget
    <3>5. "start" \in Engaged \ {"loop", "observe"}
      BY DEF Engaged, Steady
    <3> QED BY <3>3, <3>4, <3>5
  <2>4. ASSUME NEW delay \in Delays, Record(e, delay)
        PROVE  /\ ex[e].pc \in Engaged \ {"loop", "observe"} /\ ex'[e].run = r
               /\ ex'[e].pc # "finish"
    BY <1>0, <1>1, <2>4, RecordMoves DEF Engaged, Steady, SameBudget
  <2>5. ASSUME NEW s \in Step, SkipStep(e, s)
        PROVE  /\ ex[e].pc \in Engaged \ {"loop", "observe"} /\ ex'[e].run = r
               /\ ex'[e].pc # "finish"
    BY <1>0, <1>1, <2>5, SkipMoves DEF Engaged, Steady, SameBudget
  <2> QED BY <2>1, <2>2, <2>3, <2>4, <2>5 DEF Acts
<1>3. CASE ex'[e].pc \in {"loop", "returned"}
  BY <1>3 DEF Reasoned, Engaged, Steady
<1>4. CASE /\ ex[e].pc \in Engaged \ {"loop", "observe"} /\ ex'[e].run = r
           /\ ex'[e].pc # "finish" /\ ex'[e].pc # "loop"
  <2>1. NoneCancelled(r)
    BY <1>0, <1>1, <1>4 DEF Reasoned
  <2>2. NoneCancelled(r)'
    BY <1>0, <1>1, <1>4, <2>1, CancelledGrow
  <2> QED BY <1>4, <2>2 DEF Reasoned, NoneCancelled, StepsIn
<1> QED BY <1>2, <1>3, <1>4

LEMMA ReasonedQuiet ==
    ASSUME VerdictInv, NEW e \in Exec, Quiet(e)
    PROVE  Reasoned(e)'
<1>0. CoreInv /\ Sane /\ Locals /\ Shape(e) /\ Reasoned(e) /\ (\A r \in Run : Told(r))
  BY CoreFacts DEF VerdictInv, SpentInv
<1>1. steps' = steps /\ runs' = runs
  BY QuietFrame DEF vars
<1>2. ex'[e].pc \in Engaged => ex[e].pc \in Engaged /\ ex[e].run \in Run /\ ex'[e].run = ex[e].run
  BY <1>0, FitQuiet, CoreFacts
<1>3. ASSUME ex'[e].pc \in Engaged \ {"loop", "observe"} PROVE NoneCancelled(ex[e].run)
  <2>1. CASE ex[e].pc \in Engaged \ {"loop", "observe"}
    BY <1>0, <2>1 DEF Reasoned
  <2>2. CASE ex[e].pc = "loop"
    <3>1. CheckCancel(e) \/ Die(e)
      BY <2>2 DEF Quiet, Begin, ClaimRefused, CheckCancel, ObserveRefused, PickStep, RetryWait,
         Wake, ReadStep, ReadBudget, Launch, SpawnFails, LaunchRefused, PollCancel, ProcessEnds,
         ReadPending, FinishReason, FinishRefused, Goto
    <3>2. ~Die(e)
      BY <1>0, <1>3, DieMoves DEF Engaged, Steady
    <3>3. ~CancelRequested(ex[e].run)
      BY <1>0, <1>3, <3>1, <3>2, Hops DEF CheckCancel, Points, Steady
    <3> QED BY <1>0, <1>2, <1>3, <3>3 DEF Told
  <2>3. CASE ex[e].pc = "observe"
    <3>1. ObserveRefused(e) \/ Die(e)
      BY <2>3 DEF Quiet, Begin, ClaimRefused, CheckCancel, ObserveRefused, PickStep, RetryWait,
         Wake, ReadStep, ReadBudget, Launch, SpawnFails, LaunchRefused, PollCancel, ProcessEnds,
         ReadPending, FinishReason, FinishRefused, Goto
    <3>2. ex'[e].pc \in {"error", "dead"}
      <4>1. Die(e) => ex'[e].pc = "dead"
        BY <1>0, DieMoves
      <4>2. ObserveRefused(e) => ex'[e].pc = "error"
        BY <1>0, Hops DEF ObserveRefused, Points, Steady, Gone
      <4> QED BY <3>1, <4>1, <4>2
    <3> QED BY <1>3, <3>2 DEF Engaged, Steady
  <2> QED BY <1>2, <1>3, <2>1, <2>2, <2>3
<1>4. ASSUME ex'[e].pc = "finish"
      PROVE  ex'[e].reason = NameOf(e) /\ ex'[e].timedOut = ex[e].timedOut
  <2>1. ex'[e].pc \in Engaged \ {"loop", "observe"}
    BY <1>4 DEF Engaged, Steady
  <2>2. NoneCancelled(ex[e].run) /\ ex[e].run \in Run
    BY <1>2, <1>3, <2>1
  <2>3. FinishReason(e)
    <3>1. ex[e].pc = "skip"
      BY <1>0, <1>4, QuietPoints DEF Gone
    <3>2. ~Die(e) /\ ~PollCancel(e)
      BY <1>0, <1>4, <3>1, DieMoves, PollMoves
    <3> QED BY <3>1, <3>2 DEF Quiet, Begin, ClaimRefused, CheckCancel, ObserveRefused, PickStep,
         RetryWait, Wake, ReadStep, ReadBudget, Launch, SpawnFails, LaunchRefused, ProcessEnds,
         ReadPending, FinishRefused, Goto
  <2>4. ex'[e].reason = ReasonOf(e) /\ ex'[e].timedOut = ex[e].timedOut
    BY <1>0, <2>3, ReasonMoves
  <2> QED BY <2>2, <2>4, ReasonIsRight
<1>5. ex'[e].pc = "finish" => ex'[e].pc \in Engaged
  BY DEF Engaged, Steady
<1>6. ASSUME ex'[e].pc = "finish" PROVE ex'[e].reason = NameOf(e)'
  <2>1. StepsIn(ex[e].run, {"failed"})' = StepsIn(ex[e].run, {"failed"})
    BY <1>1, <1>2, <1>5, <1>6 DEF StepsIn
  <2> QED BY <1>4, <1>6, <2>1 DEF NameOf
<1> QED BY <1>1, <1>2, <1>3, <1>6 DEF Reasoned, NoneCancelled, StepsIn

\* The step that spent the budget keeps its attempt and can only fail or be skipped.
LEMMA BlamedStep ==
    ASSUME VerdictInv, [ENext]_evars, NEW f \in Exec
    PROVE  Blamed(f)'
<1>0. /\ CoreInv /\ SpentInv /\ SpentInv' /\ SpentEnds(f) /\ SpentEnds(f)' /\ Blamed(f)
  BY SpentStep DEF VerdictInv, SpentInv
<1> SUFFICES ASSUME ex'[f].timedOut, ex'[f].pc \in Engaged
             PROVE  \E s \in Step : /\ steps'[ex'[f].run][s].attempt > 0
                                    /\ steps'[ex'[f].run][s].state
                                          \in {"failed", "skipped", "pending"}
  BY DEF Blamed
<1>1. ex'[f].pc \in Closing
  BY <1>0 DEF SpentEnds, Engaged, Steady, Gone
<1>2. ASSUME ex[f].timedOut, ex[f].pc \in Engaged, ex'[f].run = ex[f].run,
             steps'[ex[f].run] = steps[ex[f].run]
      PROVE  \E s \in Step : /\ steps'[ex'[f].run][s].attempt > 0
                             /\ steps'[ex'[f].run][s].state
                                   \in {"failed", "skipped", "pending"}
  BY <1>0, <1>2 DEF Blamed
<1>3. CASE ex' = ex /\ steps' = steps
  BY <1>2, <1>3
<1>4. CASE Quiet(f)
  <2>1. ex[f].pc \in Engaged /\ ex'[f].run = ex[f].run /\ steps' = steps
    BY <1>0, <1>4, FitQuiet, QuietFrame DEF vars
  <2>2. ex[f].timedOut
    BY <1>0, <1>4, QuietEnding
  <2> QED BY <1>2, <2>1, <2>2
<1>5. CASE Acts(f)
  <2>r. PICK r \in Run : r = ex[f].run
    BY <1>0, <1>5, ActsRun
  <2>1. ex'[f].run = r
    BY <1>0, <1>5, <2>r, ActsPoints
  <2>2. \/ SpentRunBudget(f) /\ \E delay \in Delays : Record(f, delay)
        \/ \E s \in Step : SkipStep(f, s)
    BY <1>0, <1>1, <1>5, ActsPoints DEF Closing
  <2>3. ASSUME SpentRunBudget(f), NEW delay \in Delays, Record(f, delay)
        PROVE  \E s \in Step : /\ steps'[r][s].attempt > 0
                               /\ steps'[r][s].state \in {"failed", "skipped", "pending"}
    <3>1. PICK s \in Step : s = ex[f].step
      BY <1>0, <2>3, RecordDoes
    <3>2. /\ ex[f].pc = "record" /\ steps'[r][s].attempt = steps[r][s].attempt
          /\ steps'[r][s].state \in {"failed", "pending"}
      BY <1>0, <2>r, <2>3, <3>1, RecordDoes DEF SpentRunBudget
    <3>3. steps[r][s].attempt > 0
      BY <1>0, <2>r, <3>1, <3>2, CoreFacts DEF Fit, AtWork, Engaged, Steady
    <3> QED BY <3>2, <3>3
  <2>4. ASSUME NEW q \in Step, SkipStep(f, q)
        PROVE  \E s \in Step : /\ steps'[r][s].attempt > 0
                               /\ steps'[r][s].state \in {"failed", "skipped", "pending"}
    <3>1. /\ ex[f].pc = "skip" /\ steps'[r][q].state = "skipped"
          /\ steps'[r][q].attempt = steps[r][q].attempt
          /\ \A s \in Step \ {q} : steps'[r][s] = steps[r][s]
      BY <1>0, <2>r, <2>4, SkipDoes
    <3>2. ex[f].timedOut
      BY <1>0, <2>4, SkipMoves, CoreFacts
    <3>3. PICK s \in Step : /\ steps[r][s].attempt > 0
                            /\ steps[r][s].state \in {"failed", "skipped", "pending"}
      BY <1>0, <2>r, <3>1, <3>2 DEF Blamed, Engaged, Steady
    <3>4. /\ steps'[r][s].attempt > 0
          /\ steps'[r][s].state \in {"failed", "skipped", "pending"}
      BY <3>1, <3>3
    <3> QED BY <3>4
  <2> QED BY <2>1, <2>2, <2>3, <2>4
<1>6. ASSUME NEW e \in Exec, e # f, Quiet(e) \/ Acts(e)
      PROVE  \E s \in Step : /\ steps'[ex'[f].run][s].attempt > 0
                             /\ steps'[ex'[f].run][s].state
                                   \in {"failed", "skipped", "pending"}
  <2>1. /\ ex'[f] = ex[f]
        /\ ex[f].pc \in Engaged => steps'[ex[f].run] = steps[ex[f].run]
    BY <1>0, <1>6, OthersKeep
  <2> QED BY <1>2, <2>1
<1> QED BY <1>0, <1>3, <1>4, <1>5, <1>6, WhoMoves, OperatorDoes

\* What a run was closed with stands: its budget stays spent, its steps keep their rows.
LEMMA KilledStays ==
    ASSUME CoreInv, [ENext]_evars, NEW r \in Run, BudgetSpent(r), NEW s \in Step,
           KilledStep(r, s)
    PROVE  BudgetSpent(r)' /\ KilledStep(r, s)'
<1>1. BudgetSpent(r)'
  BY SpentStays
<1>2. steps'[r][s] = steps[r][s]
  BY StaysPut DEF KilledStep, StepTerminal
<1> QED BY <1>1, <1>2 DEF KilledStep

LEMMA ToldActs ==
    ASSUME VerdictInv, [ENext]_evars, NEW e \in Exec, Acts(e), NEW r \in Run, r = ex[e].run
    PROVE  Told(r)'
<1>0. /\ CoreInv /\ Locals /\ Told(r) /\ Asked(e) /\ Reasoned(e)
      /\ ex[e].pc \in Engaged \/ runs[r].state = "queued"
      /\ ex[e].pc \in Engaged => runs[r].state = "running"
      /\ NULL # "RUN_TIMED_OUT"
  BY CoreFacts, CodeFacts, ActsRun DEF VerdictInv, SpentInv, Fit
<1>1. ~NoneCancelled(r)' => CancelRequested(r)'
  <2>1. CancelRequested(r) => CancelRequested(r)'
    BY <1>0, StaysPut
  <2>2. ~NoneCancelled(r)' => CancelRequested(r)
    BY <1>0, CancelledGrow DEF Told, Asked
  <2> QED BY <2>1, <2>2
<1>2. runs'[r].state \in RunStates \union {"absent"}
  <2>1. TypeOK'
    BY <1>0, SaneStep DEF CoreInv, Sane, ETypeOK
  <2> QED BY <2>1 DEF TypeOK, RunRow
<1>3. CASE Claim(e)
  <2>1. \/ runs'[r].state = "running" /\ runs'[r].reason = runs[r].reason
        \/ runs'[r].state = "cancelled" /\ runs'[r].reason = "RUN_CANCELLED_MANUAL"
    BY <1>0, <1>3, ClaimDoes
  <2>2. runs[r].reason = NULL /\ NULL # "RUN_TIMED_OUT"
    BY <1>0, <1>3, ClaimDoes DEF Told
  <2> QED BY <1>1, <1>2, <2>1, <2>2 DEF Told
<1>4. CASE ObserveCancel(e)
  <2>1. runs'[r].state = "cancelled" /\ runs'[r].reason = "RUN_CANCELLED_MANUAL"
    BY <1>0, <1>4, ObserveDoes
  <2> QED BY <1>1, <1>2, <2>1 DEF Told
<1>5. CASE Finish(e)
  <2>1. /\ runs'[r].state = IF AnyStepFailed(r) THEN "failed" ELSE "succeeded"
        /\ runs'[r].reason = ex[e].reason /\ steps' = steps
    BY <1>0, <1>5, FinishDoes
  <2>2. NoneCancelled(r) /\ ex[e].reason = NameOf(e) /\ ex[e].pc = "finish"
    BY <1>0, <1>5 DEF Finish, Goto, Reasoned, Engaged, Steady
  <2>5. CASE ex[e].timedOut
    <3>1. runs'[r].reason = "RUN_TIMED_OUT"
      BY <2>1, <2>2, <2>5 DEF NameOf
    <3>2. BudgetSpent(r)
      <4>1. /\ OnBudget(e) /\ NULL \notin Nat
        BY CodeFacts DEF VerdictInv, SpentInv
      <4> QED BY <2>5, <4>1 DEF OnBudget, BudgetSpent
    <3>3. PICK s \in Step : /\ steps[r][s].attempt > 0
                            /\ steps[r][s].state \in {"failed", "skipped", "pending"}
      BY <2>2, <2>5 DEF VerdictInv, Blamed, Engaged, Steady
    <3>4. KilledStep(r, s)
      <4>1. steps[r][s].state \in StepTerminal
        BY <1>0, <1>5, FinishDoes DEF AllStepsTerminal, StepsIn
      <4> QED BY <3>3, <4>1 DEF KilledStep, StepTerminal
    <3>5. BudgetSpent(r)' /\ KilledStep(r, s)'
      BY <1>0, <3>2, <3>4, KilledStays
    <3>6. NoneCancelled(r)'
      BY <2>1, <2>2 DEF NoneCancelled, StepsIn
    <3> QED BY <1>1, <1>2, <2>1, <3>1, <3>5, <3>6 DEF Told, RunTerminal
  <2>6. CASE ~ex[e].timedOut
    <3>1. ex[e].reason = IF StepsIn(r, {"failed"}) # {}
                         THEN "RUN_FAILED_STEP" ELSE "RUN_SUCCEEDED"
      BY <2>2, <2>6 DEF NameOf
    <3>2. AnyStepFailed(r) <=> StepsIn(r, {"failed"}) # {}
      BY <2>2 DEF AnyStepFailed, NoneCancelled, StepsIn
    <3>3. NoneCancelled(r)'
      BY <2>1, <2>2 DEF NoneCancelled, StepsIn
    <3> QED BY <1>1, <1>2, <2>1, <3>1, <3>2, <3>3 DEF Told
  <2> QED BY <2>5, <2>6
<1>6. ASSUME runs' = runs, runs[r].state = "running" PROVE Told(r)'
  BY <1>0, <1>1, <1>2, <1>6 DEF Told
<1>7. CASE Start(e)
  BY <1>0, <1>6, <1>7, StartDoes DEF Engaged, Steady
<1>8. ASSUME NEW delay \in Delays, Record(e, delay) PROVE Told(r)'
  BY <1>0, <1>6, <1>8, RecordDoes DEF Engaged, Steady
<1>9. ASSUME NEW s \in Step, SkipStep(e, s) PROVE Told(r)'
  BY <1>0, <1>6, <1>9, SkipDoes DEF Engaged, Steady
<1> QED BY <1>3, <1>4, <1>5, <1>7, <1>8, <1>9 DEF Acts

LEMMA VerdictStep ==
    ASSUME VerdictInv, [ENext]_evars
    PROVE  VerdictInv'
<1>0. SpentInv' /\ CoreInv /\ (\A e \in Exec : Asked(e)' /\ Blamed(e)')
  BY SpentStep, AskedStep, BlamedStep DEF VerdictInv, SpentInv
<1>1. ASSUME ex' = ex, steps' = steps PROVE \A e \in Exec : Reasoned(e)'
  BY <1>1 DEF VerdictInv, Reasoned, NameOf, NoneCancelled, StepsIn
<1>2. ASSUME NEW r \in Run, runs'[r].state = runs[r].state, runs'[r].reason = runs[r].reason,
             steps'[r] = steps[r]
      PROVE  Told(r)'
  <2>1. CancelRequested(r) => CancelRequested(r)'
    BY <1>0, StaysPut
  <2>2. NoneCancelled(r)' <=> NoneCancelled(r)
    BY <1>2 DEF NoneCancelled, StepsIn
  <2>3. runs[r].reason = "RUN_TIMED_OUT" =>
            BudgetSpent(r)' /\ \E s \in Step : KilledStep(r, s)'
    BY <1>0, KilledStays DEF VerdictInv, Told
  <2> QED BY <1>2, <2>1, <2>2, <2>3 DEF VerdictInv, Told
<1>3. CASE UNCHANGED <<runs, steps, ex, late>>
  BY <1>0, <1>1, <1>2, <1>3 DEF VerdictInv
<1>4. ASSUME NEW r \in Run, Materialize(r) \/ \E a \in Actor : Interrupt(r, a)
      PROVE  VerdictInv'
  <2>1. /\ ex' = ex /\ steps' = steps /\ \A q \in Run \ {r} : runs'[q] = runs[q]
        /\ \/ /\ runs[r].state = "absent" /\ runs'[r].state = "queued"
              /\ runs'[r].reason = NULL
           \/ runs'[r].state = runs[r].state /\ runs'[r].reason = runs[r].reason
    BY <1>0, <1>4, OperatorDoes
  <2>2. ASSUME runs'[r].state = "queued", runs'[r].reason = NULL PROVE Told(r)'
    <3>1. CancelRequested(r) => CancelRequested(r)'
      BY <1>0, StaysPut
    <3>2. NoneCancelled(r)' <=> NoneCancelled(r)
      BY <2>1 DEF NoneCancelled, StepsIn
    <3>3. "queued" \in RunStates /\ NULL # "RUN_TIMED_OUT"
      BY CodeFacts DEF RunStates, RunActive
    <3> QED BY <2>2, <3>1, <3>2, <3>3 DEF VerdictInv, Told
  <2>3. \A q \in Run : Told(q)'
    BY <1>2, <2>1, <2>2
  <2> QED BY <1>0, <1>1, <2>1, <2>3 DEF VerdictInv
<1>5. ASSUME NEW e \in Exec, Quiet(e) \/ Acts(e) PROVE VerdictInv'
  <2>1. Reasoned(e)'
    BY <1>5, ReasonedQuiet, ReasonedActs
  <2>2. ASSUME NEW f \in Exec \ {e} PROVE Reasoned(f)'
    <3>1. /\ ex'[f] = ex[f] /\ Reasoned(f)
          /\ ex[f].pc \in Engaged => steps'[ex[f].run] = steps[ex[f].run]
      BY <1>0, <1>5, OthersKeep DEF VerdictInv
    <3>2. "finish" \in Engaged
      BY DEF Engaged, Steady
    <3> QED BY <3>1, <3>2 DEF Reasoned, NameOf, NoneCancelled, StepsIn
  <2>3. ASSUME NEW r \in Run PROVE Told(r)'
    <3>1. CASE Quiet(e)
      BY <1>2, <3>1, QuietFrame DEF vars
    <3>2. CASE Acts(e) /\ r = ex[e].run
      BY <3>2, ToldActs
    <3>3. CASE Acts(e) /\ r # ex[e].run
      BY <1>0, <1>2, <3>3, ActsRun
    <3> QED BY <1>5, <3>1, <3>2, <3>3
  <2> QED BY <1>0, <2>1, <2>2, <2>3 DEF VerdictInv
<1> QED BY <1>0, <1>3, <1>4, <1>5, WhoMoves

LEMMA VerdictExplains == VerdictInv => VerdictIsExplained
<1> SUFFICES ASSUME VerdictInv PROVE VerdictIsExplained
  OBVIOUS
<1>1. ASSUME NEW r \in Run
      PROVE  /\ runs[r].state = "cancelled" <=> runs[r].reason = "RUN_CANCELLED_MANUAL"
             /\ runs[r].state \in {"succeeded", "failed"} =>
                   runs[r].reason \in {"RUN_SUCCEEDED", "RUN_FAILED_STEP", "RUN_TIMED_OUT"}
             /\ runs[r].reason = "RUN_SUCCEEDED" => runs[r].state = "succeeded"
             /\ runs[r].reason = "RUN_FAILED_STEP" => runs[r].state = "failed"
             /\ runs[r].reason = "RUN_TIMED_OUT" =>
                   BudgetSpent(r) /\ \E s \in Step : KilledStep(r, s)
  <2>1. Told(r)
    BY DEF VerdictInv
  <2>2. /\ runs[r].state \in {"absent", "queued", "running", "cancelled", "succeeded", "failed"}
        /\ NULL \notin {"RUN_SUCCEEDED", "RUN_FAILED_STEP", "RUN_TIMED_OUT",
                        "RUN_CANCELLED_MANUAL"}
    BY <2>1, CodeFacts DEF Told, RunStates, RunActive, RunTerminal
  <2> QED BY <2>1, <2>2 DEF Told
<1>2. ASSUME NEW r \in Run, runs[r].state \in {"succeeded", "failed"}
      PROVE  runs[r].state = RunAggregate({steps[r][s].state : s \in Step})
  <2> DEFINE states == {steps[r][s].state : s \in Step}
  <2>1. VerdictMatchesSteps /\ NoneCancelled(r)
    BY <1>2 DEF VerdictInv, SpentInv, CoreInv, RowsInv, Told
  <2>2. CASE runs[r].state = "succeeded"
    <3>1. states \subseteq {"succeeded", "skipped"}
      BY <2>1, <2>2 DEF VerdictMatchesSteps, StepsIn
    <3> HIDE DEF states
    <3>2. /\ states \intersect StepOpen = {} /\ "failed" \notin states
          /\ "cancelled" \notin states
      BY <3>1 DEF StepOpen
    <3> QED BY <2>2, <3>2 DEF RunAggregate, states
  <2>3. CASE runs[r].state = "failed"
    <3>1. AllStepsTerminal(r) /\ AnyStepFailed(r)
      BY <2>1, <2>3 DEF VerdictMatchesSteps
    <3>2. "failed" \in states
      BY <2>1, <3>1 DEF AnyStepFailed, NoneCancelled, StepsIn
    <3>3. states \intersect StepOpen = {}
      BY <3>1 DEF AllStepsTerminal, StepsIn, StepTerminal, StepOpen
    <3> HIDE DEF states
    <3> QED BY <2>3, <3>2, <3>3 DEF RunAggregate, states
  <2> QED BY <1>2, <2>2, <2>3
<1> QED BY <1>1, <1>2 DEF VerdictIsExplained, ReasonFitsVerdict, EndedRunIsItsAggregate

\* A verdict agrees with the aggregate of its steps and with its reason code, which
\* was decided from an earlier snapshot; and a run said to have spent its
\* budget has an executor that recorded so after the budget's end, and a started step that failed
\* or was skipped.
THEOREM VerdictsAreExplained == ESpec => []VerdictIsExplained
<1>1. VerdictInv /\ [ENext]_evars => VerdictInv'
  BY VerdictStep
<1> QED BY <1>1, VerdictInit, VerdictExplains, PTL DEF ESpec

-----------------------------------------------------------------------------
(* What starts and what is skipped.  Started work has its needs, skipped     *)
(* work misses one, and a request stops the loop at its next turn.           *)

Succeeded(r) == StepsIn(r, {"succeeded"})

\* Where an executor may be that started a step after the request.
AfterLateStart == {"launch", "spawn", "process", "record", "loop", "observe", "pending", "skip", "finish"}

Prompt(e) ==
    ex[e].pc \in Engaged /\ late[ex[e].run] > 0 => ex[e].pc \in AfterLateStart

\* Nothing more can run: what is not parked misses a need, and in the end all do,
\* unless the budget is spent.
Stuck(e) ==
    /\ ex[e].pc = "wait" =>
          \A s \in StepsIn(ex[e].run, {"pending"}) :
              steps[ex[e].run][s].nextAt = NULL => ~(Needs[s] \subseteq Succeeded(ex[e].run))
    /\ ex[e].pc \in {"pending", "skip"} /\ ~ex[e].timedOut =>
          \A s \in StepsIn(ex[e].run, {"pending"}) :
              ~(Needs[s] \subseteq Succeeded(ex[e].run))

\* Once one step is skipped, its executor has left the loop and no other can enter.
Skips(r) == \E s \in Step : steps[r][s].reason = "STEP_SKIPPED_UPSTREAM_FAILED"

Closes(e) == ex[e].pc \in Engaged /\ Skips(ex[e].run) => ex[e].pc \in {"skip", "finish"}

Taken(r) == runs[r].state \in {"absent", "queued"} => ~Skips(r)

Counted(r) == late[r] <= 1 /\ (late[r] > 0 => CancelRequested(r))

OrderInv ==
    /\ SpentInv /\ StartedAfterItsNeeds /\ SkipIsCaused
    /\ \A e \in Exec : Prompt(e) /\ Stuck(e) /\ Closes(e)
    /\ \A r \in Run : Counted(r) /\ Taken(r)

LEMMA OrderInit == EInit => OrderInv
<1> SUFFICES ASSUME EInit PROVE OrderInv
  OBVIOUS
<1>1. SpentInv
  BY SpentInit
<1>2. \A e \in Exec : Prompt(e) /\ Stuck(e) /\ Closes(e)
  BY DEF EInit, Idle, Prompt, Stuck, Closes, Engaged, Steady
<1>3. \A r \in Run, s \in Step : steps[r][s].attempt = 0 /\ steps[r][s].reason = NULL
  BY DEF EInit, Init, NewStep
<1>4. NULL # "STEP_SKIPPED_UPSTREAM_FAILED"
  BY CodeFacts
<1>5. \A r \in Run : Counted(r) /\ Taken(r)
  BY <1>3, <1>4 DEF EInit, Counted, Taken, Skips
<1> QED BY <1>1, <1>2, <1>3, <1>4, <1>5
        DEF OrderInv, StartedAfterItsNeeds, SkipIsCaused

\* A pass that cancels leaves its own reason on what it skips, and no attempt.
LEMMA SkipReason ==
    ASSUME TypeOK, NEW r \in Run, SkipPendingSteps(r, "STEP_CANCELLED"), NEW s \in Step
    PROVE  /\ steps'[r][s].attempt = steps[r][s].attempt
           /\ steps'[r][s].reason \in {steps[r][s].reason, "STEP_CANCELLED"}
<1> DEFINE skips == StepMove(steps[r][s].state, "upstream_failed",
                        [NoGuards EXCEPT !.reason = ("STEP_CANCELLED" # NULL)], "skipped")
<1>1. steps[r][s] \in StepRow
  BY DEF TypeOK
<1>2. steps'[r][s] = IF skips
                     THEN [steps[r][s] EXCEPT !.state = "skipped", !.reason = "STEP_CANCELLED"]
                     ELSE steps[r][s]
  BY DEF SkipPendingSteps, TypeOK
<1> HIDE DEF skips
<1> QED BY <1>1, <1>2 DEF StepRow

\* Attempts come from Start, and the reason of a skip from SkipStep.
LEMMA RowsComeFrom ==
    ASSUME CoreInv, NEW e \in Exec, Acts(e), NEW r \in Run, r = ex[e].run, NEW s \in Step
    PROVE  /\ \/ steps'[r][s].attempt = steps[r][s].attempt
              \/ s \in Runnable(r)
           /\ \/ steps'[r][s].reason = steps[r][s].reason
              \/ steps'[r][s].reason # "STEP_SKIPPED_UPSTREAM_FAILED"
              \/ SkipStep(e, s)
<1>0. TypeOK
  BY CoreFacts
<1>1. ASSUME SkipPendingSteps(r, "STEP_CANCELLED")
      PROVE  /\ steps'[r][s].attempt = steps[r][s].attempt
             /\ \/ steps'[r][s].reason = steps[r][s].reason
                \/ steps'[r][s].reason # "STEP_SKIPPED_UPSTREAM_FAILED"
  BY <1>0, <1>1, SkipReason
<1>2. CASE Claim(e)
  <2>1. steps' = steps \/ SkipPendingSteps(r, "STEP_CANCELLED")
    BY <1>2, ClaimDoes
  <2> QED BY <1>1, <2>1
<1>3. CASE ObserveCancel(e)
  BY <1>1, <1>3, ObserveDoes
<1>4. CASE Finish(e)
  BY <1>4, FinishDoes
<1>5. CASE Start(e)
  <2>1. PICK q \in Step : q = ex[e].step
    BY <1>5, StartDoes
  <2>2. /\ q \in Runnable(r) /\ steps'[r][q].reason = steps[r][q].reason
        /\ \A p \in Step \ {q} : steps'[r][p] = steps[r][p]
    BY <1>5, <2>1, StartDoes
  <2> QED BY <2>2
<1>6. ASSUME NEW delay \in Delays, Record(e, delay)
      PROVE  /\ steps'[r][s].attempt = steps[r][s].attempt
             /\ \/ steps'[r][s].reason = steps[r][s].reason
                \/ steps'[r][s].reason # "STEP_SKIPPED_UPSTREAM_FAILED"
  <2>1. PICK q \in Step : q = ex[e].step
    BY <1>6, RecordDoes
  <2>2. /\ steps'[r][q].attempt = steps[r][q].attempt
        /\ steps'[r][q].reason # "STEP_SKIPPED_UPSTREAM_FAILED"
        /\ \A p \in Step \ {q} : steps'[r][p] = steps[r][p]
    BY <1>6, <2>1, RecordDoes
  <2> QED BY <2>2
<1>7. ASSUME NEW q \in Step, SkipStep(e, q)
      PROVE  /\ steps'[r][s].attempt = steps[r][s].attempt
             /\ steps'[r][s].reason = steps[r][s].reason \/ SkipStep(e, s)
  <2>1. /\ steps'[r][q].attempt = steps[r][q].attempt
        /\ \A p \in Step \ {q} : steps'[r][p] = steps[r][p]
    BY <1>7, SkipDoes
  <2> QED BY <1>7, <2>1
<1> QED BY <1>2, <1>3, <1>4, <1>5, <1>6, <1>7 DEF Acts

\* A skip is made under a need that has not succeeded, or after the budget.
LEMMA SkipIsExplained ==
    ASSUME OrderInv, NEW e \in Exec, NEW s \in Step, SkipStep(e, s),
           NEW r \in Run, r = ex[e].run
    PROVE  (\E q \in Needs[s] : steps[r][q].state # "succeeded") \/ BudgetSpent(r)
<1>0. /\ CoreInv /\ Stuck(e) /\ ex[e].pc = "skip" /\ OnBudget(e) /\ NULL \notin Nat
  BY CodeFacts DEF OrderInv, SpentInv, SkipStep
<1>1. CASE ex[e].timedOut
  BY <1>0, <1>1 DEF OnBudget, BudgetSpent
<1>2. CASE ~ex[e].timedOut
  <2>1. s \in StepsIn(r, {"pending"})
    BY <1>0, SkipDoes DEF StepsIn
  <2>2. ~(Needs[s] \subseteq Succeeded(r))
    BY <1>0, <1>2, <2>1 DEF Stuck
  <2>3. PICK q \in Needs[s] : q \notin Succeeded(r)
    BY <2>2
  <2>4. q \in Step
    BY <2>3, NeedsAssumption
  <2> QED BY <2>3, <2>4 DEF Succeeded, StepsIn
<1> QED BY <1>1, <1>2

\* What has ended stays as it ended.
LEMMA EndedStay ==
    ASSUME CoreInv, [ENext]_evars, NEW r \in Run
    PROVE  Succeeded(r) \subseteq Succeeded(r)'
BY StaysPut DEF Succeeded, StepsIn, StepTerminal

\* A step succeeds only when the outcome of its process is recorded.
LEMMA SucceededGrow ==
    ASSUME CoreInv, NEW e \in Exec, Acts(e), NEW r \in Run, r = ex[e].run,
           NEW q \in Step, steps'[r][q].state = "succeeded"
    PROVE  steps[r][q].state = "succeeded" \/ ex[e].pc = "record"
<1>0. TypeOK /\ Exists(r)
  BY ActsRun, CoreFacts
<1>1. ASSUME SkipPendingSteps(r, "STEP_CANCELLED") PROVE steps[r][q].state = "succeeded"
  BY <1>0, <1>1, SkipEffect, CodeFacts DEF Skipped
<1>2. CASE Claim(e)
  <2>1. steps' = steps \/ SkipPendingSteps(r, "STEP_CANCELLED")
    BY <1>2, ClaimDoes
  <2> QED BY <1>1, <2>1
<1>3. CASE ObserveCancel(e)
  BY <1>1, <1>3, ObserveDoes
<1>4. CASE Finish(e)
  BY <1>4, FinishDoes
<1>5. CASE Start(e)
  <2>1. PICK s \in Step : s = ex[e].step
    BY <1>5, StartDoes
  <2>2. steps'[r][s].state = "running" /\ \A p \in Step \ {s} : steps'[r][p] = steps[r][p]
    BY <1>5, <2>1, StartDoes
  <2> QED BY <2>2
<1>6. CASE \E delay \in Delays : Record(e, delay)
  BY <1>6 DEF Record
<1>7. ASSUME NEW s \in Step, SkipStep(e, s) PROVE steps[r][q].state = "succeeded"
  <2>1. steps'[r][s].state = "skipped" /\ \A p \in Step \ {s} : steps'[r][p] = steps[r][p]
    BY <1>7, SkipDoes
  <2> QED BY <2>1
<1> QED BY <1>2, <1>3, <1>4, <1>5, <1>6, <1>7 DEF Acts

\* Under a run with a skipped step nothing succeeds any more.
LEMMA NoneSucceeds ==
    ASSUME OrderInv, [ENext]_evars, NEW r \in Run, NEW q \in Step,
           steps'[r][q].state = "succeeded",
           Skips(r) \/ \E e \in Exec, s \in Step : SkipStep(e, s) /\ r = ex[e].run
    PROVE  steps[r][q].state = "succeeded"
<1>0. CoreInv
  BY DEF OrderInv, SpentInv
<1>1. CASE steps'[r] = steps[r]
  BY <1>1
<1>2. ASSUME NEW e \in Exec, Acts(e), steps[r][q].state # "succeeded" PROVE FALSE
  <2>1. r = ex[e].run
    BY <1>0, <1>2, ActsRun
  <2>2. ex[e].pc = "record"
    BY <1>0, <1>2, <2>1, SucceededGrow
  <2>3. ~Skips(r)
    BY <2>1, <2>2 DEF OrderInv, Closes, Engaged, Steady
  <2>4. PICK f \in Exec, s \in Step : SkipStep(f, s) /\ r = ex[f].run
    BY <2>3
  <2>5. ex[f].pc = "skip"
    BY <2>4 DEF SkipStep
  <2> QED BY <1>0, <2>1, <2>2, <2>4, <2>5 DEF CoreInv, Alone, Engaged, Steady
<1>3. ASSUME NEW e \in Exec, Quiet(e) PROVE steps' = steps
  BY <1>3, QuietFrame DEF vars
<1> QED BY <1>0, <1>1, <1>2, <1>3, WhoMoves, OperatorDoes

\* Where the attempts and the reasons of a step come from, whoever moves.
LEMMA RowsOrigin ==
    ASSUME CoreInv, [ENext]_evars, NEW r \in Run, NEW s \in Step
    PROVE  /\ steps'[r][s].attempt = steps[r][s].attempt \/ s \in Runnable(r)
           /\ \/ steps'[r][s].reason = steps[r][s].reason
              \/ steps'[r][s].reason # "STEP_SKIPPED_UPSTREAM_FAILED"
              \/ \E e \in Exec : SkipStep(e, s) /\ r = ex[e].run
<1>1. CASE steps' = steps
  BY <1>1
<1>2. ASSUME NEW e \in Exec, Acts(e)
      PROVE  /\ steps'[r][s].attempt = steps[r][s].attempt \/ s \in Runnable(r)
             /\ \/ steps'[r][s].reason = steps[r][s].reason
                \/ steps'[r][s].reason # "STEP_SKIPPED_UPSTREAM_FAILED"
                \/ SkipStep(e, s) /\ r = ex[e].run
  <2>1. CASE r = ex[e].run
    BY <1>2, <2>1, RowsComeFrom
  <2>2. CASE r # ex[e].run
    BY <1>2, <2>2, ActsRun
  <2> QED BY <2>1, <2>2
<1>3. ASSUME NEW e \in Exec, Quiet(e) PROVE steps' = steps
  BY <1>3, QuietFrame DEF vars
<1> QED BY <1>1, <1>2, <1>3, WhoMoves, OperatorDoes

LEMMA HistoryStep ==
    ASSUME OrderInv, [ENext]_evars
    PROVE  StartedAfterItsNeeds' /\ SkipIsCaused'
<1>0. CoreInv
  BY DEF OrderInv, SpentInv
<1>1. ASSUME NEW r \in Run, NEW s \in Step, steps'[r][s].attempt > 0
      PROVE  Needs[s] \subseteq Succeeded(r)'
  <2>1. steps'[r][s].attempt = steps[r][s].attempt \/ s \in Runnable(r)
    BY <1>0, RowsOrigin
  <2>2. Needs[s] \subseteq Succeeded(r)
    BY <1>1, <2>1 DEF OrderInv, StartedAfterItsNeeds, Runnable, Succeeded
  <2> QED BY <1>0, <2>2, EndedStay
<1>2. ASSUME NEW r \in Run, NEW s \in Step,
             steps'[r][s].reason = "STEP_SKIPPED_UPSTREAM_FAILED"
      PROVE  (\E q \in Needs[s] : steps'[r][q].state # "succeeded") \/ BudgetSpent(r)'
  <2>1. \/ steps[r][s].reason = "STEP_SKIPPED_UPSTREAM_FAILED"
        \/ \E e \in Exec : SkipStep(e, s) /\ r = ex[e].run
    BY <1>0, <1>2, RowsOrigin
  <2>2. (\E q \in Needs[s] : steps[r][q].state # "succeeded") \/ BudgetSpent(r)
    BY <2>1, SkipIsExplained DEF OrderInv, SkipIsCaused
  <2>3. CASE BudgetSpent(r)
    BY <1>0, <2>3, SpentStays
  <2>4. ASSUME NEW q \in Needs[s], steps[r][q].state # "succeeded"
        PROVE  steps'[r][q].state # "succeeded"
    <3>1. q \in Step
      BY NeedsAssumption
    <3>2. Skips(r) \/ \E e \in Exec, p \in Step : SkipStep(e, p) /\ r = ex[e].run
      BY <2>1 DEF Skips
    <3> QED BY <2>4, <3>1, <3>2, NoneSucceeds
  <2> QED BY <2>2, <2>3, <2>4
<1>3. StartedAfterItsNeeds'
  BY <1>1 DEF StartedAfterItsNeeds, Succeeded
<1>4. SkipIsCaused'
  BY <1>2 DEF SkipIsCaused
<1> QED BY <1>3, <1>4

\* A skip comes from an executor that has left the loop, under a running run.
LEMMA ClosingStep ==
    ASSUME OrderInv, [ENext]_evars
    PROVE  (\A e \in Exec : Closes(e)') /\ (\A r \in Run : Taken(r)')
<1>0. CoreInv
  BY DEF OrderInv, SpentInv
<1>1. ASSUME NEW r \in Run, Skips(r)'
      PROVE  Skips(r) \/ \E e \in Exec, s \in Step : SkipStep(e, s) /\ r = ex[e].run
  <2>1. PICK s \in Step : steps'[r][s].reason = "STEP_SKIPPED_UPSTREAM_FAILED"
    BY <1>1 DEF Skips
  <2> QED BY <1>0, <2>1, RowsOrigin DEF Skips
\* Of an engaged executor whose run has a skipped step, or gets one.
<1>2. ASSUME NEW f \in Exec, NEW r \in Run, ex[f].pc \in Engaged, ex[f].run = r, Skips(r)'
      PROVE  ex[f].pc \in {"skip", "finish"}
  <2>2. CASE Skips(r)
    BY <1>2, <2>2 DEF OrderInv, Closes
  <2>3. ASSUME NEW e \in Exec, NEW s \in Step, SkipStep(e, s), r = ex[e].run
        PROVE  ex[f].pc \in {"skip", "finish"}
    <3>1. ex[e].pc = "skip"
      BY <2>3 DEF SkipStep
    <3>2. ex[e].pc \in Engaged
      BY <3>1 DEF Engaged, Steady
    <3>3. ex[e].run = ex[f].run
      BY <1>2, <2>3
    <3>4. e = f
      BY <1>0, <1>2, <3>2, <3>3 DEF CoreInv, Alone
    <3> QED BY <3>1, <3>4
  <2> QED BY <1>1, <1>2, <2>2, <2>3
<1>3. ASSUME NEW r \in Run, runs'[r].state \in {"absent", "queued"} PROVE ~Skips(r)'
  <2>1. runs[r].state \in {"absent", "queued"}
    <3>1. ASSUME NEW e \in Exec, Acts(e), r = ex[e].run PROVE FALSE
      <4>1. CASE Claim(e)
        BY <1>0, <1>3, <3>1, <4>1, ClaimDoes
      <4>2. CASE ObserveCancel(e)
        BY <1>0, <1>3, <3>1, <4>2, ObserveDoes
      <4>3. CASE Finish(e)
        BY <1>0, <1>3, <3>1, <4>3, FinishDoes
      <4>4. ASSUME ex[e].pc \in Engaged, runs' = runs PROVE FALSE
        BY <1>0, <1>3, <3>1, <4>4, CoreFacts DEF Fit
      <4>5. CASE Start(e)
        BY <1>0, <4>4, <4>5, StartDoes DEF Engaged, Steady
      <4>6. ASSUME NEW delay \in Delays, Record(e, delay) PROVE FALSE
        BY <1>0, <4>4, <4>6, RecordDoes DEF Engaged, Steady
      <4>7. ASSUME NEW s \in Step, SkipStep(e, s) PROVE FALSE
        BY <1>0, <4>4, <4>7, SkipDoes DEF Engaged, Steady
      <4> QED BY <3>1, <4>1, <4>2, <4>3, <4>5, <4>6, <4>7 DEF Acts
    <3>2. ASSUME NEW e \in Exec, Acts(e) PROVE runs'[r] = runs[r]
      BY <1>0, <3>1, <3>2, ActsRun
    <3>3. ASSUME NEW e \in Exec, Quiet(e) PROVE runs' = runs
      BY <3>3, QuietFrame DEF vars
    <3> QED BY <1>0, <1>3, <3>2, <3>3, WhoMoves, OperatorDoes
  <2>2. ~Skips(r)
    BY <2>1 DEF OrderInv, Taken
  <2>3. ASSUME NEW e \in Exec, NEW s \in Step, SkipStep(e, s), r = ex[e].run PROVE FALSE
    <3>1. ex[e].pc \in Engaged
      BY <2>3 DEF SkipStep, Engaged, Steady
    <3>2. runs[r].state = "running"
      BY <1>0, <2>3, <3>1, CoreFacts DEF Fit
    <3> QED BY <2>1, <3>2
  <2> QED BY <1>1, <2>2, <2>3
<1>4. ASSUME NEW f \in Exec PROVE Closes(f)'
  <2> SUFFICES ASSUME ex'[f].pc \in Engaged, NEW r \in Run, ex'[f].run = r, Skips(r)'
               PROVE  ex'[f].pc \in {"skip", "finish"}
    <3>1. ex'[f].pc \in Engaged => ex'[f].run \in Run
      BY <1>0, CoreStep DEF CoreInv, Sane, Shape, Engaged, Steady
    <3>2. Skips(ex[f].run)' <=> \E s \in Step :
              steps'[ex'[f].run][s].reason = "STEP_SKIPPED_UPSTREAM_FAILED"
      BY DEF Skips
    <3>3. \A r \in Run : Skips(r)' <=> \E s \in Step :
              steps'[r][s].reason = "STEP_SKIPPED_UPSTREAM_FAILED"
      BY DEF Skips
    <3> QED BY <3>1, <3>2, <3>3 DEF Closes
  <2>1. CASE ex'[f] = ex[f]
    BY <1>2, <2>1
  <2>2. CASE Quiet(f)
    <3>1. ex[f].pc \in Engaged /\ ex'[f].run = ex[f].run
      BY <1>0, <2>2, FitQuiet
    <3>2. ex[f].pc \in {"skip", "finish"}
      BY <1>2, <3>1
    <3> QED BY <1>0, <2>2, <3>2, QuietPoints DEF Engaged, Steady, Gone
  <2>3. CASE Acts(f)
    <3>1. ex[f].run = r
      BY <1>0, <2>3, ActsPoints
    <3>2. CASE ex[f].pc \in Engaged
      <4>1. ex[f].pc \in {"skip", "finish"}
        BY <1>2, <3>1, <3>2
      <4>2. (\E s \in Step : SkipStep(f, s)) \/ Finish(f)
        BY <2>3, <4>1 DEF Acts, Claim, ObserveCancel, Start, Record, Goto
      <4>3. Finish(f) => ex'[f].pc = "returned"
        BY <1>0, HopEnding, CoreFacts DEF Finish, Points, Steady, Gone
      <4>4. (\E s \in Step : SkipStep(f, s)) => ex'[f].pc = "skip"
        BY <1>0, SkipMoves, CoreFacts
      <4> QED BY <4>2, <4>3, <4>4 DEF Engaged, Steady
    <3>3. CASE ex[f].pc \notin Engaged
      <4>1. runs[r].state = "queued" /\ ~\E e \in Exec : ex[e].pc \in Engaged /\ ex[e].run = r
        <5>1. runs[r].state = "queued"
          BY <1>0, <2>3, <3>1, <3>3, ActsRun
        <5> QED BY <1>0, <5>1, CoreFacts DEF Fit
      <4>2. ~Skips(r)
        BY <4>1 DEF OrderInv, Taken
      <4>3. PICK e \in Exec, s \in Step : SkipStep(e, s) /\ r = ex[e].run
        BY <1>1, <4>2
      <4> QED BY <4>1, <4>3 DEF SkipStep, Engaged, Steady
    <3> QED BY <3>2, <3>3
  <2>4. ASSUME NEW e \in Exec, e # f, Quiet(e) \/ Acts(e) PROVE ex'[f] = ex[f]
    BY <1>0, <2>4, OthersKeep
  <2> QED BY <1>0, <2>1, <2>2, <2>3, <2>4, WhoMoves, OperatorDoes
<1> QED BY <1>3, <1>4 DEF Taken

\* Only Start counts, and only once after a request.
LEMMA CountedStep ==
    ASSUME OrderInv, [ENext]_evars, NEW r \in Run
    PROVE  Counted(r)'
<1>0. CoreInv /\ Counted(r) /\ late \in [Run -> Nat]
  BY DEF OrderInv, SpentInv, CoreInv, Sane, ETypeOK
<1>1. CASE late'[r] = late[r]
  BY <1>0, <1>1, StaysPut DEF Counted
<1>2. ASSUME NEW e \in Exec, Start(e) PROVE Counted(r)'
  <2>1. late' = [late EXCEPT ![ex[e].run] =
                    IF CancelRequested(ex[e].run) THEN @ + 1 ELSE @]
        /\ ex[e].pc = "start"
    BY <1>2 DEF Start, Goto
  <2>2. CASE r # ex[e].run
    BY <1>0, <1>1, <2>1, <2>2
  <2>3. CASE r = ex[e].run
    <3>1. ~(late[r] > 0)
      BY <2>1, <2>3 DEF OrderInv, Prompt, Engaged, Steady, AfterLateStart
    <3>2. late[r] = 0
      BY <1>0, <3>1
    <3>3. late'[r] = IF CancelRequested(r) THEN 1 ELSE 0
      BY <1>0, <2>1, <2>3, <3>2
    <3>4. CancelRequested(r) => CancelRequested(r)'
      BY <1>0, StaysPut
    <3> QED BY <3>3, <3>4 DEF Counted
  <2> QED BY <2>2, <2>3
<1>3. ASSUME NEW e \in Exec, Acts(e), ~Start(e) PROVE late' = late
  BY <1>3 DEF Acts, Claim, ObserveCancel, Finish, Record, SkipStep
<1>4. ASSUME NEW e \in Exec, Quiet(e) PROVE late' = late
  BY <1>4, QuietFrame
<1> QED BY <1>0, <1>1, <1>2, <1>3, <1>4, WhoMoves, OperatorDoes

\* An executor at a turn of its loop sees the request, and one that looks for
\* work finds none once nothing can run.
LEMMA PointsStep ==
    ASSUME OrderInv, [ENext]_evars, NEW f \in Exec
    PROVE  Prompt(f)' /\ Stuck(f)'
<1>0. /\ CoreInv /\ Prompt(f) /\ Stuck(f) /\ late \in [Run -> Nat] /\ TypeOK /\ NULL \notin Nat
      /\ ex[f].pc \in Engaged => ex[f].run \in Run
  BY CoreFacts, CodeFacts DEF OrderInv, SpentInv, CoreInv, Sane, ETypeOK
<1>p. {"wait", "pending", "skip"} \subseteq Engaged
  BY DEF Engaged, Steady
<1>1. ASSUME ex'[f] = ex[f],
             ex[f].pc \in Engaged => /\ steps'[ex[f].run] = steps[ex[f].run]
                                     /\ late'[ex[f].run] = late[ex[f].run]
      PROVE  Prompt(f)' /\ Stuck(f)'
  BY <1>0, <1>1, <1>p DEF Prompt, Stuck, StepsIn, Succeeded
<1>2. CASE Quiet(f)
  <2>1. steps' = steps /\ runs' = runs /\ late' = late
    BY <1>2, QuietFrame DEF vars
  <2>2. ex'[f].pc \in Engaged => ex[f].pc \in Engaged /\ ex'[f].run = ex[f].run
    BY <1>0, <1>2, FitQuiet
  <2>3. Prompt(f)'
    <3> SUFFICES ASSUME ex'[f].pc \in Engaged, late[ex[f].run] > 0
                 PROVE  ex'[f].pc \in AfterLateStart
      BY <2>1, <2>2 DEF Prompt
    <3>1. ex[f].pc \in AfterLateStart /\ ex[f].run \in Run
      BY <1>0, <2>2 DEF Prompt
    <3>2. CancelRequested(ex[f].run)
      BY <3>1 DEF OrderInv, Counted
    <3> QED BY <1>0, <1>2, <3>1, <3>2, QuietPoints DEF AfterLateStart, Engaged, Steady, Gone
  <2>4. Stuck(f)'
    <3>1. ASSUME ex'[f].pc = "wait"
          PROVE  \A s \in StepsIn(ex[f].run, {"pending"}) :
                    steps[ex[f].run][s].nextAt = NULL => ~(Needs[s] \subseteq Succeeded(ex[f].run))
      <4>1. Runnable(ex[f].run) = {}
        BY <1>0, <1>2, <3>1, QuietPoints DEF Gone
      <4> QED BY <4>1 DEF Runnable, Succeeded, StepsIn
    <3>2. ASSUME ex'[f].pc \in {"pending", "skip"}, ~ex'[f].timedOut
          PROVE  \A s \in StepsIn(ex[f].run, {"pending"}) : ~(Needs[s] \subseteq Succeeded(ex[f].run))
      <4>1. \/ ex[f].pc = "wait" /\ Parked(ex[f].run) = {}
            \/ ex[f].pc = "pending"
        BY <1>0, <1>2, <3>2, QuietPoints DEF Gone
      <4>2. ~ex[f].timedOut
        BY <1>0, <1>2, <3>2, <4>1, QuietEnding
      <4> QED BY <1>0, <4>1, <4>2 DEF Stuck, Parked, StepsIn
    <3> QED BY <1>p, <2>1, <2>2, <3>1, <3>2 DEF Stuck, StepsIn, Succeeded
  <2> QED BY <2>3, <2>4
<1>3. CASE Acts(f)
  <2>1. Prompt(f)'
    BY <1>0, <1>3, ActsPoints DEF Prompt, AfterLateStart, Engaged, Steady
  <2>4. CASE ex'[f].pc = "pending"
    <3>1. PICK delay \in Delays : Record(f, delay) /\ SpentRunBudget(f)
      BY <1>0, <1>3, <2>4, ActsPoints
    <3>2. ex'[f].timedOut
      BY <1>0, <3>1, RecordMoves, CoreFacts
    <3>3. ex'[f].pc # "wait"
      BY <2>4
    <3> QED BY <2>1, <3>2, <3>3 DEF Stuck
  <2>2. ASSUME ex'[f].pc \in {"wait", "skip"}
        PROVE  Stuck(f)'
    <3>1. PICK s \in Step : SkipStep(f, s)
      BY <1>0, <1>3, <2>2, ActsPoints
    <3>2. PICK r \in Run : r = ex[f].run
      BY <1>0, <1>3, ActsRun
    <3>3. /\ ex[f].pc = "skip" /\ ex'[f].pc = "skip" /\ ex'[f].run = r
          /\ steps[r][s].state = "pending" /\ steps'[r][s].state = "skipped"
          /\ \A q \in Step \ {s} : steps'[r][q] = steps[r][q]
      BY <1>0, <3>1, <3>2, SkipDoes, SkipMoves, CoreFacts DEF SameBudget
    <3>4. Succeeded(r)' = Succeeded(r) /\ StepsIn(r, {"pending"})' \subseteq StepsIn(r, {"pending"})
      BY <3>3 DEF Succeeded, StepsIn
    <3>6. ex'[f].timedOut = ex[f].timedOut
      BY <1>0, <3>1, SkipMoves, CoreFacts
    <3>5. ~ex[f].timedOut =>
             \A q \in StepsIn(r, {"pending"})' : ~(Needs[q] \subseteq Succeeded(r)')
      BY <1>0, <3>2, <3>3, <3>4 DEF Stuck
    <3> QED BY <3>3, <3>5, <3>6 DEF Stuck, StepsIn, Succeeded
  <2>3. ex'[f].pc \notin {"wait", "pending", "skip"} => Stuck(f)'
    BY DEF Stuck
  <2> QED BY <2>1, <2>2, <2>3, <2>4
<1>4. ASSUME NEW e \in Exec, e # f, Quiet(e) \/ Acts(e) PROVE Prompt(f)' /\ Stuck(f)'
  <2>1. /\ ex'[f] = ex[f]
        /\ ex[f].pc \in Engaged => steps'[ex[f].run] = steps[ex[f].run]
    BY <1>0, <1>4, OthersKeep
  <2>2. ex[f].pc \in Engaged => late'[ex[f].run] = late[ex[f].run]
    <3>1. CASE late' = late
      BY <3>1
    <3>2. CASE Start(e)
      <4>1. ~(ex[f].pc \in Engaged /\ ex[f].run = ex[e].run)
        BY <1>0, <1>4, <3>2, FitOthers DEF Acts
      <4>2. late' = [late EXCEPT ![ex[e].run] =
                        IF CancelRequested(ex[e].run) THEN @ + 1 ELSE @]
        BY <3>2 DEF Start
      <4> QED BY <1>0, <4>1, <4>2
    <3>3. Acts(e) /\ ~Start(e) => late' = late
      BY DEF Acts, Claim, ObserveCancel, Finish, Record, SkipStep
    <3> QED BY <1>4, <3>1, <3>2, <3>3, QuietFrame
  <2> QED BY <1>1, <2>1, <2>2
<1>5. ASSUME ex' = ex, steps' = steps, late' = late PROVE Prompt(f)' /\ Stuck(f)'
  BY <1>1, <1>5
<1> QED BY <1>0, <1>2, <1>3, <1>4, <1>5, WhoMoves, OperatorDoes

\* What runs is decided by the graph, the budget and the operator: a step starts only
\* over succeeded needs, is skipped only under one that did not succeed or after the
\* budget, nothing runs once the budget is spent, and a cancellation lets at most
\* the start pass that was under way.
THEOREM StartsAndSkipsAreOrderly == ESpec => []StartsAreOrderly
<1>1. OrderInv /\ [ENext]_evars => OrderInv'
  BY SpentStep, HistoryStep, ClosingStep, CountedStep, PointsStep DEF OrderInv
<1>2. OrderInv => StartsAreOrderly
  <2>1. OrderInv => NothingRunsPastBudget
    BY DEF OrderInv, SpentInv, SpentEnds, NothingRunsPastBudget, BudgetSpent
  <2> QED BY <2>1 DEF OrderInv, StartsAreOrderly, AtMostOneLateStart, Counted
<1> QED BY <1>1, <1>2, OrderInit, PTL DEF ESpec
=============================================================================
