------------------------------- MODULE Runner -------------------------------
(***************************************************************************)
(* internal/runner: Run, its escalation and its core limit window.         *)
(*                                                                         *)
(* A call owns a leader process in a group of its own, which may leave a   *)
(* helper behind.  Up to three goroutines act for it: Run itself, the      *)
(* deadline watcher, and the escalation; os/exec adds the one that watches *)
(* the context.  Each takes its steps one at a time, in any order with the *)
(* others, with the processes and with the clock.                          *)
(*                                                                         *)
(* os/exec and the kernel are external: Cancel is called once the context  *)
(* is done and the process was started; WaitDelay later the leader alone   *)
(* is killed; Wait returns when the leader is reaped and the output pipes  *)
(* are drained, or closed at the end of WaitDelay.                         *)
(***************************************************************************)
EXTENDS Integers, Sequences

CONSTANTS
    Call,       \* concurrent calls of Run in one process
    Timeout,    \* Spec.Timeout, in ticks
    Grace,      \* Spec.KillGrace, which is also WaitDelay
    MaxTime,    \* bound: the clock stops here
    NULL        \* no time, no call, no outcome

Verdicts == {"Succeeded", "Failed", "TimedOut", "SpawnFailed", "Signalled", "Cancelled"}

ASSUME RunnerAssumption ==
    /\ Timeout \in Nat \ {0} /\ Grace \in Nat \ {0} /\ MaxTime \in Nat
    /\ NULL \notin Nat \union Call \union Verdicts

VARIABLES
    call,       \* each call of Run: locals, goroutines, processes
    mutex,      \* coreLimitMu: the call that holds it
    limit,      \* the process' own RLIMIT_CORE
    now

rvars == <<call, mutex, limit, now>>

OwnLimit == 1

\* Where a leader is: never started, alive, or gone in one of three ways.
Ends    == {"exit 0", "exit N", "signal"}
Leaders == {"none", "alive"} \union Ends

\* The helper shares the output pipes with its leader, or it does not.
Helpers == {"none", "holding", "detached"}

Sends == [sig : {"TERM", "KILL"}, at : Nat]

CallRow == [pc : {"prepare", "lock", "start", "group", "wait", "handover", "drain",
                  "reaped", "stop", "watcher", "classify", "defer", "returned"},
            ctxDone : BOOLEAN,
            deadline : Nat \union {NULL},      \* the timer; it is started before the lock
            old : {0, OwnLimit},               \* the limit to restore
            group : BOOLEAN,                   \* setGroup has happened
            fired : BOOLEAN, done : BOOLEAN,   \* the escalation's channels
            killAt : Nat \union {NULL},        \* escalate waits until then; NULL: not running
            watcher : {"none", "armed", "done"},
            timedOut : BOOLEAN,
            exec : {"none", "armed", "delay", "gone"},
            delayEnd : Nat \union {NULL},      \* WaitDelay ends
            leader : Leaders, helper : Helpers,
            ours : BOOLEAN,                    \* history: a signal of ours ended the leader
            sent : Seq(Sends),                 \* history: sent to the group
            verdict : Verdicts \union {NULL}]

Fresh == [pc |-> "prepare", ctxDone |-> FALSE, deadline |-> NULL, old |-> OwnLimit,
          group |-> FALSE, fired |-> FALSE, done |-> FALSE,
          killAt |-> NULL, watcher |-> "none", timedOut |-> FALSE, exec |-> "none",
          delayEnd |-> NULL, leader |-> "none", helper |-> "none", ours |-> FALSE,
          sent |-> << >>, verdict |-> NULL]

RTypeOK ==
    /\ call \in [Call -> CallRow]
    /\ mutex \in Call \union {NULL}
    /\ limit \in {0, OwnLimit}
    /\ now \in Nat

RInit ==
    /\ call = [c \in Call |-> Fresh]
    /\ mutex = NULL /\ limit = OwnLimit /\ now = 0

\* Call c moves from one program point to another; the row becomes `row`.
Moves(c, from, row) ==
    /\ call[c].pc = from
    /\ call' = [call EXCEPT ![c] = row]

-----------------------------------------------------------------------------
(* Run *)

\* resolveWorkdir, buildEnv or createOutput fails: nothing ran.
PrepareFails(c) ==
    /\ Moves(c, "prepare", [call[c] EXCEPT !.pc = "returned", !.verdict = "SpawnFailed"])
    /\ UNCHANGED <<mutex, limit, now>>

\* Mutant: the timeout is subtracted.
ArmBackwards(c) ==
    /\ Moves(c, "prepare", [call[c] EXCEPT !.pc = "lock", !.deadline = now - Timeout])
    /\ UNCHANGED <<mutex, limit, now>>

\* The timer starts here, whatever follows.
Arm(c) ==
    /\ Moves(c, "prepare", [call[c] EXCEPT !.pc = "lock", !.deadline = now + Timeout])
    /\ UNCHANGED <<mutex, limit, now>>

\* Mutant: the window is not serialised.
ZeroCoreLimitUnlocked(c) ==
    /\ Moves(c, "lock", [call[c] EXCEPT !.pc = "start", !.old = limit])
    /\ mutex' = c /\ limit' = 0
    /\ UNCHANGED now

\* zeroCoreLimit.
ZeroCoreLimit(c) ==
    /\ mutex = NULL
    /\ Moves(c, "lock", [call[c] EXCEPT !.pc = "start", !.old = limit])
    /\ mutex' = c /\ limit' = 0
    /\ UNCHANGED now

\* The platform refuses to read or to change the limit: the job still runs.
CoreLimitRefused(c) ==
    /\ mutex = NULL
    /\ Moves(c, "lock", [call[c] EXCEPT !.pc = "start"])
    /\ UNCHANGED <<mutex, limit, now>>

\* releaseCoreLimit: nothing to do where the limit was never changed.
ReleaseCoreLimit(c) ==
    /\ mutex' = IF mutex = c THEN NULL ELSE mutex
    /\ limit' = IF mutex = c THEN call[c].old ELSE limit

\* cmd.Start: refused when the context is done already, or by the kernel.
StartFails(c) ==
    /\ Moves(c, "start", [call[c] EXCEPT !.pc = "defer", !.verdict = "SpawnFailed",
                            !.done = TRUE])
    /\ ReleaseCoreLimit(c)
    /\ UNCHANGED now

StartProcess(c) ==
    /\ ~call[c].ctxDone
    /\ Moves(c, "start", [call[c] EXCEPT !.pc = "group", !.leader = "alive", !.exec = "armed"])
    /\ UNCHANGED <<mutex, limit, now>>

\* setGroup, and the deadline watcher starts.
SetGroup(c) ==
    /\ Moves(c, "group", [call[c] EXCEPT !.pc = "wait", !.group = TRUE, !.watcher = "armed"])
    /\ UNCHANGED <<mutex, limit, now>>

\* cmd.Wait: the leader is reaped.
Reap(c) ==
    /\ call[c].leader \in Ends
    /\ Moves(c, "wait", [call[c] EXCEPT !.pc = "handover"])
    /\ UNCHANGED <<mutex, limit, now>>

\* The context is not watched any more; WaitDelay starts now unless it has
\* started already.
HandOver(c) ==
    /\ Moves(c, "handover", [call[c] EXCEPT !.pc = "drain", !.exec = "gone",
                 !.delayEnd = IF @ = NULL THEN now + Grace ELSE @])
    /\ UNCHANGED <<mutex, limit, now>>

\* The pipes are at their end, or are closed.
Drain(c) ==
    /\ Moves(c, "drain", [call[c] EXCEPT !.pc = "reaped"])
    /\ call[c].helper = "holding" => call[c].delayEnd <= now
    /\ UNCHANGED <<mutex, limit, now>>

\* releaseCoreLimit, and stop closes the channel done.
Disarm(c) ==
    /\ Moves(c, "reaped", [call[c] EXCEPT !.pc = "stop", !.done = TRUE])
    /\ ReleaseCoreLimit(c)
    /\ UNCHANGED now

\* stop waits for the escalation only if it was started.
EscalationOver(c) == call[c].fired => call[c].killAt = NULL

Stop(c) ==
    /\ EscalationOver(c)
    /\ Moves(c, "stop", [call[c] EXCEPT !.pc = "watcher"])
    /\ UNCHANGED <<mutex, limit, now>>

JoinWatcher(c) ==
    /\ call[c].watcher = "done"
    /\ Moves(c, "watcher", [call[c] EXCEPT !.pc = "classify"])
    /\ UNCHANGED <<mutex, limit, now>>

\* Mutant: the context is not asked.
VerdictWithoutContext(row) ==
    CASE row.leader = "signal" /\ row.timedOut -> "TimedOut"
      [] row.leader = "signal" /\ ~row.timedOut -> "Signalled"
      [] row.leader = "exit 0" -> "Succeeded"
      [] row.leader = "exit N" -> "Failed"

\* classify, with the signal that answers a cancellation told apart.
Verdict(row) ==
    CASE row.leader = "signal" /\ row.timedOut -> "TimedOut"
      [] row.leader = "signal" /\ ~row.timedOut /\ row.ctxDone -> "Cancelled"
      [] row.leader = "signal" /\ ~row.timedOut /\ ~row.ctxDone -> "Signalled"
      [] row.leader = "exit 0" -> "Succeeded"
      [] row.leader = "exit N" -> "Failed"

Classify(c) ==
    /\ Moves(c, "classify", [call[c] EXCEPT !.pc = "defer", !.verdict = Verdict(call[c])])
    /\ UNCHANGED <<mutex, limit, now>>

\* Mutant: the deferred stop is missing.
ReturnAtOnce(c) ==
    /\ Moves(c, "defer", [call[c] EXCEPT !.pc = "returned"])
    /\ UNCHANGED <<mutex, limit, now>>

\* The deferred calls: stop once more, for a deadline that fired after the first.
Return(c) ==
    /\ EscalationOver(c)
    /\ Moves(c, "defer", [call[c] EXCEPT !.pc = "returned"])
    /\ UNCHANGED <<mutex, limit, now>>

-----------------------------------------------------------------------------
(* Signals *)

\* The members of the group a TERM may end: any of them may ignore it.
AfterTerm(row, leaderDies, helperDies) ==
    [row EXCEPT !.leader = IF leaderDies /\ @ = "alive" THEN "signal" ELSE @,
                !.ours = @ \/ (leaderDies /\ row.leader = "alive"),
                !.helper = IF helperDies THEN "none" ELSE @]

AfterKill(row) == AfterTerm(row, TRUE, TRUE)

\* Mutant: a second trigger starts a second sequence.
FiresAgain(row, leaderDies, helperDies) ==
    IF ~row.group THEN [row EXCEPT !.fired = TRUE]
    ELSE [AfterTerm(row, leaderDies, helperDies) EXCEPT
            !.fired = TRUE, !.killAt = now + Grace,
            !.sent = Append(row.sent, [sig |-> "TERM", at |-> now])]

\* fire: once; without a group there is nothing to signal and nothing to wait for.
Fires(row, leaderDies, helperDies) ==
    IF row.fired THEN row
    ELSE IF ~row.group THEN [row EXCEPT !.fired = TRUE]
    ELSE [AfterTerm(row, leaderDies, helperDies) EXCEPT
            !.fired = TRUE, !.killAt = now + Grace,
            !.sent = Append(row.sent, [sig |-> "TERM", at |-> now])]

\* The deadline watcher: the timer, or the end of the attempt.
DeadlineFires(c, leaderDies, helperDies) ==
    /\ call[c].watcher = "armed" /\ call[c].deadline <= now
    /\ call' = [call EXCEPT ![c] =
                  [Fires(call[c], leaderDies, helperDies) EXCEPT
                     !.timedOut = TRUE, !.watcher = "done"]]
    /\ UNCHANGED <<mutex, limit, now>>

WatcherLeaves(c) ==
    /\ call[c].watcher = "armed" /\ call[c].done
    /\ call' = [call EXCEPT ![c].watcher = "done"]
    /\ UNCHANGED <<mutex, limit, now>>

\* Mutant: the second signal is a TERM like the first.
EscalateToTerm(c) ==
    /\ call[c].killAt # NULL /\ call[c].killAt <= now
    /\ call' = [call EXCEPT ![c] =
                  [AfterTerm(call[c], FALSE, FALSE) EXCEPT
                     !.killAt = NULL, !.sent = Append(call[c].sent, [sig |-> "TERM", at |-> now])]]
    /\ UNCHANGED <<mutex, limit, now>>

\* escalate: KILL to the group when the grace period is over.
Escalate(c) ==
    /\ call[c].killAt # NULL /\ call[c].killAt <= now
    /\ call' = [call EXCEPT ![c] =
                  [AfterKill(call[c]) EXCEPT
                     !.killAt = NULL, !.sent = Append(call[c].sent, [sig |-> "KILL", at |-> now])]]
    /\ UNCHANGED <<mutex, limit, now>>

\* escalate is disarmed.
EscalationLeaves(c) ==
    /\ call[c].killAt # NULL /\ call[c].done
    /\ call' = [call EXCEPT ![c].killAt = NULL]
    /\ UNCHANGED <<mutex, limit, now>>

-----------------------------------------------------------------------------
(* What Run does not decide *)

\* The caller's context ends.
Cancel(c) ==
    /\ call[c].pc # "returned" /\ ~call[c].ctxDone
    /\ call' = [call EXCEPT ![c].ctxDone = TRUE]
    /\ UNCHANGED <<mutex, limit, now>>

\* os/exec: the context is done, Cancel is fire, and WaitDelay starts.
ExecCancel(c, leaderDies, helperDies) ==
    /\ call[c].exec = "armed" /\ call[c].ctxDone
    /\ call' = [call EXCEPT ![c] =
                  [Fires(call[c], leaderDies, helperDies) EXCEPT
                     !.exec = "delay", !.delayEnd = now + Grace]]
    /\ UNCHANGED <<mutex, limit, now>>

\* os/exec: WaitDelay is over and the leader was not reaped: it alone is killed.
ExecKill(c) ==
    /\ call[c].exec = "delay" /\ call[c].delayEnd <= now
    /\ call' = [call EXCEPT ![c] = [AfterTerm(call[c], TRUE, FALSE) EXCEPT !.exec = "gone"]]
    /\ UNCHANGED <<mutex, limit, now>>

\* The job: it leaves a helper, it exits, somebody else's signal ends it.
LeaveHelper(c, kind) ==
    /\ call[c].leader = "alive" /\ call[c].helper = "none"
    /\ call' = [call EXCEPT ![c].helper = kind]
    /\ UNCHANGED <<mutex, limit, now>>

LeaderEnds(c, end) ==
    /\ call[c].leader = "alive"
    /\ call' = [call EXCEPT ![c].leader = end]
    /\ UNCHANGED <<mutex, limit, now>>

RTick ==
    /\ now < MaxTime
    /\ now' = now + 1
    /\ UNCHANGED <<call, mutex, limit>>

-----------------------------------------------------------------------------

\* What Run and its goroutines do, and os/exec for them.
Works(c) ==
    \/ PrepareFails(c) \/ Arm(c) \/ ZeroCoreLimit(c) \/ CoreLimitRefused(c)
    \/ StartFails(c) \/ StartProcess(c) \/ SetGroup(c)
    \/ Reap(c) \/ HandOver(c) \/ Drain(c)
    \/ Disarm(c) \/ Stop(c) \/ JoinWatcher(c) \/ Classify(c) \/ Return(c)

Watches(c) ==
    \/ \E l, h \in BOOLEAN : DeadlineFires(c, l, h)
    \/ WatcherLeaves(c)

Escalates(c) == Escalate(c) \/ EscalationLeaves(c)

Execs(c) ==
    \/ \E l, h \in BOOLEAN : ExecCancel(c, l, h)
    \/ ExecKill(c)

World(c) ==
    \/ Cancel(c)
    \/ \E kind \in Helpers \ {"none"} : LeaveHelper(c, kind)
    \/ \E end \in Ends : LeaderEnds(c, end)

RNext ==
    \/ RTick
    \/ \E c \in Call : Works(c) \/ Watches(c) \/ Escalates(c) \/ Execs(c) \/ World(c)

RSpec == RInit /\ [][RNext]_rvars

\* The host is prompt: no time passes while something can go on.
Prompt == now' # now =>
    \A c \in Call : ~ENABLED (Works(c) \/ Watches(c) \/ Escalates(c) \/ Execs(c))

PromptRSpec == RInit /\ [][RNext /\ Prompt]_rvars

\* Fairness.  Goroutines that can go on are scheduled, and time passes.  A job
\* is never obliged to end, and a context never to be cancelled.
FairRSpec ==
    /\ PromptRSpec
    /\ WF_rvars(RTick)
    /\ \A c \in Call :
        /\ WF_rvars(Works(c))
        /\ WF_rvars(Watches(c)) /\ WF_rvars(Escalates(c)) /\ WF_rvars(Execs(c))

-----------------------------------------------------------------------------
(* Properties *)

\* No verdict is given without its evidence: an exit status wins over everything;
\* a death by signal is a timeout only once the deadline has passed, a cancellation
\* only once the context has ended, and somebody else's doing only if no signal of
\* the runner's own ended the leader.  The evidence need not be the cause: see
\* SignalWasOurs.
VerdictHasEvidence ==
    \A c \in Call : LET row == call[c] IN
        /\ row.verdict = "Succeeded" <=> (row.verdict # NULL /\ row.leader = "exit 0")
        /\ row.verdict = "Failed" <=> (row.verdict # NULL /\ row.leader = "exit N")
        /\ row.verdict = "SpawnFailed" <=> (row.verdict # NULL /\ row.leader = "none")
        /\ row.verdict = "TimedOut" => row.deadline <= now
        /\ row.verdict = "Cancelled" => row.ctxDone
        /\ row.verdict = "Signalled" => ~row.ours

\* A death by signal that is reported as a timeout or as a cancellation was the
\* runner's own doing, as the comments of classify have it.
SignalWasOurs ==
    \A c \in Call : call[c].verdict \in {"TimedOut", "Cancelled"} => call[c].ours

\* The sequence is TERM and then KILL, each at most once, whatever triggers race,
\* and the whole grace period lies between them.
TermThenKill ==
    \A c \in Call : LET sent == call[c].sent IN
        /\ Len(sent) <= 2
        /\ Len(sent) >= 1 => sent[1].sig = "TERM"
        /\ Len(sent) = 2 => sent[2].sig = "KILL" /\ sent[2].at >= sent[1].at + Grace

\* After Run has returned it owns nothing: no goroutine that could still signal
\* the group, no process unreaped, and not the core limit.
NothingLeftBehind ==
    \A c \in Call : call[c].pc = "returned" =>
        /\ call[c].killAt = NULL /\ call[c].watcher # "armed"
        /\ call[c].exec \in {"none", "gone"}
        /\ call[c].leader # "alive" /\ mutex # c

\* The limit comes back, however many calls there are and however they end.
CoreLimitComesBack == mutex = NULL => limit = OwnLimit

\* A leader that ignores TERM, a helper that keeps the pipes, a context that ends
\* between the start and the group: every call returns.
RunReturns == \A c \in Call : <>(call[c].pc = "returned")
=============================================================================
