# Formal models of paceq

paceq is a job runner that keeps every fact about a run in one SQLite file and
executes jobs one step at a time.  This directory holds TLA+ models of it, the
TLC runs that check them on small instances, and TLAPS proofs of what matters
most for every instance.  Source paths below are relative to `src/internal`.

## 1. The system

| component | state it keeps | operations | who it talks to |
|---|---|---|---|
| State machines (`model`) | none: pure functions | `NextRunState`, `NextStepState`, `RunAggregate` | called inside every transaction of the store, and by fsck |
| Transition layer (`store/transitions.go`, `runs.go`) | the `runs`, `steps`, `step_deps`, `run_events` tables | create, claim, start step, record outcome, finish, request and observe cancellation; reads for the engine | one `BEGIN IMMEDIATE` transaction per method; callers in other processes are only other transactions |
| Engine (`engine`) | local variables of one `ExecuteRun` call | the loop: observe cancellation, pick, wait, run a step, record, skip, finish | the store between any two steps, the runner, the log sink |
| Backoff (`retry`, `engine/retry.go`) | none | the policy of a frozen retry block, the delay it grows to | the engine, before it records a retry |
| Runner (`runner`) | a process group, two timers, a core-limit lock | spawn, deadline, TERM, grace, KILL, classify | the operating system, the engine's context |
| Log sink (`logsink`) | one file, a ring of lines, a window per stream | write, Finish (head, marker, tail); `SeqCheck` on the reader's side | the engine opens and closes it inside `runStep`; `paceq logs` reads the file from another process |
| Sessions and state lock (`store/session.go`, `statelock.go`, `openstate.go`) | `daemon_sessions`, a boot id, a kernel lock, the mode of the database file | acquire, open, start, heartbeat, stop, close | everything that opens the state directory |
| Migrator (`store/migrate.go`) | `schema_migrations`, `user_version`, a lock row | migrate | runs before anything else writes |
| Job catalogue (`store/apply.go`, `jobs.go`, `materialize.go`) | jobs and their immutable versions, ticks, triggers | apply, pause, materialise, status | the command line, and the engine through the version frozen in a run |
| Job specification (`spec`) | none: pure functions | parse, check, canonical form, hash, read back; durations | `apply` before the transaction, the engine when it reads a version |
| fsck | none | one sweep of invariants over the rows | reads what the store wrote |
| Command line (`cli`) | none | `run` materialises, executes, turns a first interrupt into a request and a second into a hard stop; `apply` reads files; `logs` follows | everything above |
| Identifiers, clock, reason catalogue, doctor | none | ULIDs, time, texts, reports | everything above |

What is hard here.  A run is driven by a sequence of short transactions with
nothing held between them, so whatever the engine has read may be stale when it
acts: a request, another executor, the clock or a crash may come between any
two accesses.  Verdict, reason and event are decided in different places.
Deadlines, retries, leases and cancellations all race with the process.  Several
programs, of several builds, may open one directory; the rows a crash leaves
behind are read by the next start.  A log is written by one process and read by
another, and what no longer fits has to be admitted.  A job file is read before
any lock is taken, and what runs later is what was hashed, not what was written.

What makes each component correct:

* the transition layer: a row never moves without its event, nothing ends twice,
  verdicts agree with steps, ownership, epoch and state agree, budgets are exact;
* the engine: a process runs only under a running step of a running run it owns,
  nothing is open under an ended run, a step starts after what it needs and
  after its backoff, a cancellation stops the work, every claimed run ends;
* the runner: no verdict without its evidence; TERM, the whole grace period, KILL;
  nothing left behind after it returned; the core limit comes back;
* the log sink: every byte is on disk, held or admitted as lost; a log that lost
  something says so, one that lost nothing does not; the reader's gaps are
  losses; a follower leaves after the last line and not before;
* sessions: one writer, one open session, a crash told from a stop and a restart
  of the machine told once, nothing recorded in a file others can read;
* the migrator: ledger, schema and version agree after any crash, a lock is lost
  only by outliving it, a newer database is left alone;
* the catalogue: dense versions, whole batches, whole runs, true reports, and a
  pause that only an operator lifts;
* the specification: two files are one version exactly when they say one job,
  what is read back is what was written, no duration wraps.

## 2. Modules

| module | models | extends / instantiates |
|---|---|---|
| `RunModel` | `model`: both machines as relations `RunMove`, `StepMove`; `RunAggregate` | |
| `RunStore` | the transition layer, one action per transaction, callers unconstrained | `RunModel`; `RunLifecycle` by refinement |
| `RunLifecycle` | the abstract promise about a run: no rows, leases, clock, attempts, history | |
| `Engine` | `ExecuteRun` over the actions of `RunStore` | `RunStore` |
| `Runner` | `runner.Run`, its watcher, its escalation, the core limit window | |
| `Migrator` | `Store.Migrate` by processes of several builds | |
| `StateDir` | the state lock, opening and closing, the session rows | |
| `LogSink` | the log of one attempt, and what a reader counts | |
| `LogFollow` | the attempts of a step and a follower in another process | `LogSink` |
| `JobSpec` | job files: durations, refusals, canonical form and the way back, as operators | |
| `Backoff` | retry policies and delays, as operators | `JobSpec` |
| `JobCatalog` | `apply`, `run` (materialisation), pausing and status as transactions | `Backoff` |
| `MCRunStore`, `MCEngine`, `MCRunner`, `MCMigrator`, `MCStateDir`, `MCLogFollow`, `MCJobCatalog` | instances for TLC | |
| `RunStore_proofs` | type correctness, the inductive invariant of the rows, the theorems about them, `Spec => Lifecycle`, and that the history explains the rows | `RunStore` |
| `Engine_proofs` | `ESpec => Spec`, executors against rows, starts, skips, reasons and verdicts | `Engine`, `RunStore_proofs` |
| `Runner_proofs` | type correctness, verdicts, signals, the core limit, what a call leaves | `Runner` |
| `Migrator_proofs` | the migrator's safety properties | `Migrator` |
| `StateDir_proofs` | the state directory's properties | `StateDir` |
| `LogFollow_proofs` | sums along sequences, the accounting of a log, what readers and followers see | `LogFollow` |
| `JobSpec_proofs` | the laws of files, durations and delays, for any documents and any width | `Backoff` |
| `JobCatalog_proofs` | the catalogue's safety properties under conflicts, failures and deaths | `JobCatalog`, `JobSpec_proofs` |

Mutants (named `Mutant:` in a comment) stand next to the definition they
replace: each is a plausible slip, and shows that the property it is listed with
notices.

### RunModel and RunStore

A machine is a relation `Move(cur, ev, guards, to)`; the Go function refuses
where no `to` is related.  `Guards` keeps the fields of the Go struct; a reason
is a Boolean (given or not), `available` is the comparison of the two times.

`runs` and `steps` are the tables, one row per id; a run not yet created is
`"absent"`.  `runLog` and `stepLog` are `run_events`, split by run and step.
`now` is the clock.  Each method of `transitions.go` is one action of the same
name: its conjuncts are the guards it builds from the row, the move the machine
allows, the columns it writes and the one event `finishTransition` appends.  A
method that returns an error rolls back, which is an action that is not enabled.
`Next` lets any owner and any person call any method on any run at any time, so
what holds here holds whatever the engine does.

Abstractions.  The Go methods read the clock just before their transaction
begins; the models read it inside.  `cancelBy` stands for the three columns of a
request, with a name that is not empty.  Timestamps nothing compares, texts, log
facts and trigger rows are left out.  A `RetryPlan` is its time and its code.

### Engine

`ex[e]` is one call of `ExecuteRun`: a program counter between two accesses to
the database and the Go local variables that live across them.  Every access is
an action of its own, so anything may come between two of them.  A process lives
while `pc = "process"`.  Its end is any outcome `classify` can report at that
moment (`MayEndAs`).  `Die` stands for everything that stops an executor
between two transactions: a crash, the second interrupt, a log file that cannot
be opened or closed.  `SlowStore` says whether time passes between any two
accesses or only while an executor waits.  `late` is a history variable.

The time left of the run's budget is read by `ReadBudget`, and the runner's timer
armed with it by `Launch` at some instant since: whatever passes between the two
(validation, paths, the output file) is time the process has beyond the budget.
A reading that is not positive is refused by `validate` (`LaunchRefused`), and the
poll runs from before the launch.

### Runner

`call[c]` is one call of `Run`: its program point, the channels and the timer of
its escalation, the goroutine that watches the deadline, the one of os/exec that
watches the context, its leader and the rest of its process group.  The rest is
one helper, which may share the output pipes with its leader (`Drain` then
waits) or not.  Any member may ignore TERM (`AfterTerm` chooses), none KILL.
`mutex` and `limit` are `coreLimitMu` and the process' own `RLIMIT_CORE`, where 1
is what it was and 0 the window.  `ours` and `sent` are history variables.
"Cancelled" is `Signalled` with `cancelled` in its data.

The engine reaches the runner only through `Launch`, `MayEndAs` and
`ProcessEnds` of `Engine`, which are the summary of this module: an exit is
always possible, a signal with the deadline behind it is a timeout.

os/exec and the kernel are external and modelled from how `Run` uses them: Start
refuses a context that is done, Cancel is called at most once and only until the
leader is reaped, WaitDelay starts with Cancel or with the exit, kills the
leader alone, and closes the pipes.

`RSpec` lets any goroutine be delayed at will.  `PromptRSpec` lets no time pass
while some goroutine can go on, so what it still shows is not the scheduler's
doing.  The runs use the second, the theorems the first.

### Migrator

`pc[p]` is where a call of `Migrate` is; the actions are its accesses to the
database in order: check the fence, read the ledger, repair the fence, take the
lock, read the ledger again, apply one file per transaction (with or without the
table rebuild, which switches `foreign_keys` off and on around it), release.
`ledger` is `schema_migrations`, `fence` is `PRAGMA user_version`, and `ran`
counts, as history, how often the statements of a file were committed.  `lock`
is the lock row with the identity it records (boot id and process id) and the
time it has left; `held` and `overstayed` are history.  A build is the set of
files it carries and their texts, so an edited or a newer build is another
element of `Build`.  `Exit` is a death at any point, `Cancel` a context that
ends, `Reboot` a restart after which process ids are handed out again.

Left out: `ensureMigrationTables` is not a variable, because a missing table
reads as an empty ledger; jumps of the wall clock; process ids reused by foreign
programs; holders of other hosts or with an unreadable boot id.  At this commit
the only caller is `paceq init`, under the state lock (`cli/initcmd.go`), so the
model is of what `Migrate` promises by itself.

### StateDir

A process goes from `off` through `lockfile` (descriptor open), `locked`,
`opened` (connections, mode narrowed next), `open`, `closing` and `closed` back
to `off`, or is refused.  `flock` is the kernel's table: one holder per inode,
gone with the process.  `sessions` are the rows of `daemon_sessions`, `metaBoot`
the value kept in `meta`; StartSession closes what a crash left open, compares
the boot and inserts its row in one transaction.  `told` (what `BootChanged`
answered) and `named` (the row a refusal named) are what callers see.

Left out: the refusals for a directory or a lock file with the wrong mode; the
clock is monotone.  `StartSession` has no caller outside tests at this commit.
The command line sets umask 077 (`cli/umask_unix.go`), so a database file that is
created wide, which the code narrows and the model allows, needs another umask.

### LogSink and LogFollow

A record is its number, its raw bytes, its size on disk (`Wrap` and `Escape` for
the JSON around it) and its kind.  `Write` is a `Write` of one stream under the
sink's mutex: complete lines, the unfinished rest, the cut at the end of the
window.  `file`, `written`, `phase`, `ring`, `dropped` and `truncated` are the
fields of the sink.  `Finish` flushes the windows and then writes the tail one
record at a time, because a reader may look between two of them.  A failing
write takes its bytes along (`lost`) and stops that stream's copier.  `Notices`
is what `SeqCheck` announces over a file.

`LogFollow` puts a step around it: the engine starts an attempt, opens its log,
records the outcome with the path; `older` keeps the length of earlier logs.
The follower asks the store for the row, resolves the files and drains them, in
three actions between which the writer goes on.

Left out: error-tail texts, short writes that leave a torn line, `Close`
(nothing calls it), decoding and rendering.

### JobSpec, Backoff and JobCatalog

A document is a job file after YAML: NULL for what it leaves out, names as
numbers in byte order, durations as the pairs of number and unit that were
written.  `Problems` are the refusals, `Decode` fills the defaults, `Canonical`
is the object the hash is taken over, `FromIR` what the engine reads back.
Integers have `Width` bits: `Limit` is the first number that does not fit, `Wrap`
is what Go's arithmetic does, `MulChecked` and `AddChecked` are the checks
against it.  `RetryPolicyOf`, `Grown` and `Draws`
are the backoff, in nanoseconds of the same width.  Each law of these modules is
stated over all documents or policies of the instance.

`JobCatalog` is their use: `disk` the files, `db` what is committed, `work` the
copy of the one open transaction, `writer` who holds SQLite's write lock.  A call
is `apply` (read the files, then one transaction), `run` (materialise: tick,
trigger, run, steps, edges, first event) or pause; a conflict runs the
transaction again, up to the bound, and a failure or a death leaves nothing of
it.  Files are edited at any time; the files an `apply` is given are read in the
order of their names, so they are an increasing sequence of numbers.

Left out: schedules, sensors, environment, warnings, positions, aliases.
`UpsertJobVersion`, `SetJobPaused`, `CurrentJobVersion` and `StepDeps` have no
production caller at this commit; pausing is modelled all the same.

## 3. Runs

| run | instance | what it shows |
|---|---|---|
| `RunStore_steps` | 1 run, 2 steps in a chain, the first with 2 attempts, 2 owners, 2 people, 3 instants, lease of 1 tick | `TypeOK`, `HistoryExplainsRows`, `VerdictMatchesSteps`, `LeaseTellsOwnership`, `AttemptsWithinBudget`, `EndedIsFinal`, and `Lifecycle` (refinement) under arbitrary callers |
| `RunStore_keys` | 2 runs, 1 step each, 1 key | `OneActiveRunPerKey` |
| `Engine_safety` | 2 executors with one lease name, 1 run with a budget of 2, 3 steps (the third needs the first, the second needs nothing), timeouts of 2, a lease of 3 in 5 instants, crashes, time between any two accesses | `ExecutorsAgreeWithRows`: nothing open under an ended run, every process accounted for by a row, no refusal but for a lost claim or lease. `StartsAreOrderly`: starts after what is needed, skips under an upstream that did not succeed or under a spent budget, nothing running once the budget is recorded as spent, at most one late start. `VerdictIsExplained`: reason, verdict and aggregate fit, and a run that timed out has the process that did. `BackoffRespected` |
| `Engine_ends` | 1 executor, a chain of 2, a budget of 4, long lease, no crash | `ClaimedRunEnds` under fairness: every claimed run ends or is stranded by a launch its spent budget refused |
| `Engine_timeout_verdict` | 1 executor, a chain of 2, a budget that kills an attempt with one left | a violation of `TimedOutRunFailed`, see section 6 |
| `Runner_one` | 1 call, timeout 2, grace 2, 8 instants; a prompt host | `RTypeOK`, `VerdictHasEvidence`, `TermThenKill`, `NothingLeftBehind`, and `RunReturns` under fairness |
| `Runner_two` | 2 calls, timeout 1, 2 instants | `CoreLimitComesBack` |
| `Runner_foreign_signal` | 1 call, timeout 2, grace 2, 5 instants | a violation of `SignalWasOurs`, see section 6 |
| `Migrator_turns` | 2 processes, three builds (old, new, new with an edited file), 2 versions of which the first rebuilds tables, 2 process ids, 1 restart, a lock of 1 tick, patience of 1 | `SchemaIsItsLedger` (applied in order, once, fence not ahead), `LostOnlyByOverstaying`, `SuccessMeansMigrated`, `NewerIsNotMigrated`, and `MigrateReturns` under fairness |
| `StateDir` | 2 processes, 2 inodes, both creation modes, 3 sessions, 3 instants, 2 restarts | `OneWriterPerLock`, `SessionsTellTheTruth`, `PrivateBeforeData`, `HistoryOfSessions` |
| `LogFollow` | 2 streams, windows of 2, head and ring of 3, 4 lines, 2 attempts, the three ways to follow and none, a disk that may fill up | `EveryByteIsAccountedFor`, `TruncationIsTold`, `GapsAreLosses`, `FollowerMissesNothing`, and `FollowerEnds` under fairness |
| `JobCatalog` | 3 calls, 2 jobs, 2 files, 1 edit, 1 fault, 2 write attempts; several hundred documents; integers of 11 bits | `CatalogIsConsistent`, `TriggersAreWhole`, `ApplyIsOneFact`, `CommittedStays`, and the laws of files and delays: `SpecSurvivesTheHash`, `DurationsAreExact` |

`LogFollow` and `Engine_safety` take about two minutes each, the others at most
about one.

Bounds and why they are enough.  One run is enough wherever a property speaks of
one run, since no action on a run reads another run except for the concurrency
key, which has a run with two.  Two owners (or two executors) are enough for a
race between them.  Three steps give a failing, a dependent and an independent
step; two attempts give a retry that succeeds and one that is spent.  `MaxTime`
stops the clock after the lease, the retry gate and the timeout have passed; a
lease of 99 means one that does not expire.  `Times` is one tick longer than the
clock so that something can be held for good.  Every job has a budget of its own
(a file that names none gets an hour, and less than a millisecond is refused), so
every run of the engine has one: 2 of 5 instants in `Engine_safety` let it pass
in any state of either executor and leave time to act afterwards, 4 in
`Engine_ends` let a job finish in it, be killed by it, or find it gone after a
backoff.  In the safety runs the clock's
bound only cuts behaviours short; in the liveness runs it is past the longest
execution (two attempts, timeouts and one backoff), so nothing waits for an
instant that never comes.  Symmetry is used for owners, people, runs, executors,
calls and processes in safety runs only.  `CHECK_DEADLOCK FALSE`: executors and
calls return, runs and followers end, after which nothing may be left to do.

For `Runner`, `MaxTime` is past the deadline, the grace period of the escalation
and WaitDelay together; the calls do not interact except through the lock, so
one call is enough for everything else and two for the lock.  `Runner_two` cuts
off helpers that left the pipes, which another call cannot notice.  Its two
instants let a deadline pass while the other call waits for the lock.

For `Migrator`, two versions give a gap, an order and a rebuild; two processes
with two ids give a holder, a waiter, a recycled id and a stranger after the
restart; a lock of one tick can be outlived and waited out.  For `StateDir`,
three sessions give a crash, an unreadable boot and the start that has to look
past it.  For `LogFollow`, a head and a ring of three records' bytes are filled,
overfilled and evicted from with four lines; lines may be longer than the
window, and with escapes longer than the ring.  A log that is followed is
limited to two whole lines per attempt (`MaxFollowed`), because what the
follower does depends on when records appear and not on what was cut.  For
`JobCatalog`, two files may name one job or two, an edit makes a second version
or brings the first one back, and the documents vary one or two fields at a time
around each check; with 11 bits every limit of the arithmetic lies within reach
of a few digits, as it does with 64 bits and nineteen.

Fairness.  `FairESpec`: an executor that can take its next step takes it (a Go
goroutine that is not blocked is scheduled), a process ends at the latest after
its timeout (the runner sends TERM, then KILL), and the clock advances.  Nothing
obliges a request, an early exit or a crash.  `Engine_ends` assumes no crash,
because nothing in this version picks up a run whose executor died.
`FairRSpec`: goroutines that can go on do, and the clock advances; a job is not
obliged to end, nor to obey TERM, nor a context to be cancelled.  `FairSpec` of
`Migrator`: a process that is not killed goes on, and time passes, so a waiter
runs out of patience or out of a dead holder's lifetime.  `FairLFSpec`: the
ticker of a follower fires; nothing obliges the job or the engine.  `StateDir`
and `JobCatalog` state none: their calls wait for nobody but SQLite.

## 4. Proofs

The theorems hold for every value of the constants, under the named `ASSUME`s of
the modules, which every run evaluates.  An invariant is proved by Init, Next
and PTL from an inductive one; that is named below with what it adds.

RunStore.  Assumptions: step indexes are numbers, `Needs` and `Budget` are
functions of the steps, at least one attempt each, a positive TTL, and a NULL
that is none of the values.  `RowsInv` is the inductive invariant.  None of the
properties is inductive alone: that a failed step has spent its budget needs
that a running step has spent at least one and at most all; that verdicts stay
true needs that nothing moves a step of an ended run except a running step under
a cancelled one; that a run is started once needs that a queued run has epoch 0.
The proof goes through *effects*: `RunEffect`, `SkipEffect`, `StepEffect` and
`CancelEffect` say once what each family of transactions does to one row,
whatever its arguments, and `RowsStep` uses them for every disjunct of `Next`.
`NothingEndsTwice` follows from the same effects.  `StoreImplementsLifecycle`
maps every transaction to a step of `RunLifecycle` or a stutter: a retry is
`EndWork` back to waiting, a claim is `Launch` or `Cancel`.  `HistoryIsComplete`
proves that appending the event of the move it made keeps a chain a chain.

Engine.  `EngineUsesTheStore` (`ESpec => Spec`): every action of an executor is a
transaction of the store or changes nothing of it, so all of the above holds of
the store under executors, interrupts, crashes and clocks.  `CoreInv` is
`RowsInv`, the shape of the locals (`Sane`), one executor at work per run
(`Alone`), nothing open under an ended run, and `Fit(e)` for each executor: what
it believes of its run and its step, as far as nobody but it can have changed
that.  Actions are split into those that only move locals (`Quiet`) and those
that commit (`Acts`); each of the first has a `...Moves` lemma for its locals,
each of the second a `...Does` lemma for its row.  From it come `ExecutorsAgree`
and `BackoffKept`.

The second half adds the budget, which is any number of ticks.  `SpentInv` says
when an executor may believe it spent: a process that is to be timed out by the
budget is not so before the deadline (`OnBudget`), and an executor that has
recorded one has left the loop of a run it alone works on, so that nothing of the
run starts any more (`SpentEnds`, `NothingRunsPastBudget`).  `VerdictInv` adds what
the finishing transaction will be told: the reason an executor carries fits what
that transaction computes (`Reasoned`), a process is killed and a step cancelled on
request only (`Asked`), and a spent budget has a step that was started and has not
succeeded (`Blamed`, `Told`).
`VerdictsAreExplained` needs the last: the killed step is not always failed, it
may have gone back to pending and been skipped.  `OrderInv` adds what the loop
knows when it looks for work: one that found nothing to pick and nothing parked
leaves only steps behind whose needs did not succeed (`Stuck`), once one is
skipped no executor of the run is in the loop (`Closes`), and one start follows a
request at most (`Prompt`, `Counted`).  Neither theorem has a hypothesis beyond the
assumptions of the modules.

Runner.  The assumption is `RunnerAssumption`: a positive timeout and grace, and
a NULL that is no time, call or verdict; `validate` and `Run` establish the
first two.  The proofs are over `RSpec`, where any goroutine may be delayed at
will, for any number of calls.  `RunnerInv` relates, in each row, the program
point to the leader (`Phased`), the verdict to the leader (`Backed`), a signal of
the runner's own to its cause (`Excused`) and the timer to the watcher
(`Timed`), and globally the mutex to the limit.  `VerdictHasEvidence` says
that no verdict lacks its evidence, not that the evidence is the cause (section 6).
It is not inductive alone: a verdict is final only because the leader is reaped by then, and
a timeout is evidence only because no watcher runs before there is a deadline.
`EndInv` adds what was sent against the escalation's channel and timer
(`Ordered`) and the program point against every goroutine that could still act
(`Quits`); `TermThenKill` needs that the timer, while it runs, was set by the one
TERM, and `NothingLeftBehind` that os/exec is gone and the watcher joined before
the deferred stop is reached.  One action changes one row, so there is one lemma
per goroutine for each invariant.

Migrator.  `MInv` is `MTypeOK`, `LedgerInv` (what a process has read and may
still rely on while it applies), `LockInv` (who owns the lock and how long it
lasts), `BuildInv` (whose files the rows are from) and `KeysInv`.  The ledger
part does not use the lock: that a version is never applied twice rests on the
check inside the transaction.  The lock part needs that live process ids differ
and that an owner's row does not expire before its owner has held it for the
whole lifetime (`Countdown`).

StateDir.  `SDInv` is `SDTypeOK`, `LockInv` (flock, descriptor and program
point), `ModeInv` (the file is narrowed before the first session), `RowInv` (the
rows in order, the open one last and its process the only one with a session),
`BootEvidence`, and that `metaBoot` is the last boot known.  All four properties
of the run are proved from it.

Logs.  The assumptions are those of `LogSink`: at least one byte fits a window, a
piece and a wrapper, and a stream occurs once.  The invariant is `SinkInv` for
the writer, `RowInv` for the row the engine writes about it and `FollowInv` for
the reader.  `EveryByteIsAccountedFor` is an equation between sums over a
sequence of records.  A sum is a recursive function, and what it does under
append, concatenation and removal is shown by taking the least length at which
it would go wrong (`LeastNatural`, `Induction`), which needs no induction
theorem with an operator parameter.  The properties are not inductive alone.
`Order` describes the file and the ring at every stage of `Finish`: before the
marker a head in order and, in the ring, the last numbers without a gap; once it
is written, the same before and behind it.  `Kept` says that a log that is not
truncated holds every line, `Stages` what each stage of `Finish` has emptied, and
`Quota` bounds ring and file.  `GapsAreLosses` follows from the numbers alone,
because a file in this order misses exactly what was evicted or failed.
`FollowerMissesNothing` needs that a row with a verdict names a log that is
finished (`RowInv`), so that a follower that has seen the verdict sees nothing
move any more, and that in its last round every file it owes is shown or on its
list (`Owed`).

Specification.  The assumptions are `JobSpecAssumption` (the last
unit is a millisecond, each unit and the default and greatest durations fit the
integers, a limit of at least ten milliseconds, an even number of nanoseconds to
the millisecond, as the constants of `duration.go` and `values.go` have it) and
`DocumentsAssumption` (what YAML calls a list is one, a duration is a list of
numbers and units).  No bound on documents is assumed: the laws are over `Docs`,
whatever it holds.  Two of the theorems say more than the laws the run checks.
`EveryDurationIsExact` is about any number of parts, digits and places, where
`DurationArithmetic` enumerates short ones, and `EveryDelayGrowsToTheCap` about any
delays of whole milliseconds and any attempt, where `DelaysGrowToTheCap` tries those
at the edges.  Both rest on `MulExact` and `AddExact`: a checked product or sum is
refused exactly when it is too long, because one that has wrapped does not divide
back, or is smaller than it was.  What is defined along a list (the value of
digits, the total of parts, what is left after a unit, a delay that doubles) is a
recursive function; the lemma `Recursion` shows that such a function exists and
unfolds, and `Induction` what holds at each place.  `FormattedReadsBack` follows
what has been written and what is left, unit by unit (`WrittenAndLeft`), on top of
`DecimalReads`: the digits of a number have its value.  For the hash,
`AcceptedSays` collects what the refusals exclude, `ReadsBack` puts every key
`Canonical` writes or leaves out against what `FromIR` reads, and
`PermutedSortAlike` shows that lists with the same names, however often and in
whatever order, have one sorted form, so that objects are equal exactly when jobs
are (`SameObjectSameJob`, `SameJobSameObject`).

Catalogue.  The assumptions are `JobCatalogAssumption` (files are finitely many
and numbered by name, documents that are accepted name a job),
`NullAssumption` and those of the specification.
`CatInv` holds of the committed tables `Book` (every version stored under the
name its document gives, numbers dense from 1, one row per id, each job pointing
to a version of its own) and `Whole` (a run has its tick, trigger, steps and
edges, or no row of any).  None of the properties is inductive alone, because
the writer's copy runs ahead of what is committed: `Tx` relates the two, an
`apply` turn by turn (`ApplyTx`: the copy is the committed tables and the
versions of the turns done, and the last turn that names a job left its document
current) and a `run` insert by insert (`RunTx`).  `Settled` says what a call has
left behind: nothing under its ids until it succeeds (`Fresh`), what it reported
once it has (`Landed`).  `Going` bounds what a call has in hand by how far it has
come, which is what makes the ids of two calls differ.  That numbers stay dense
rests on one turn adding at most the next one (`OneTurn`).  `CommittedStays` is
an action property from the same invariant: a commit replaces the tables by a
copy that contains them, because nobody else has written since it was taken.  `SpecSurvivesTheHash` and
`DurationsAreExact` are the laws above, and that every stored version is the
object of a document that was accepted.

Checked by TLC only: liveness under fairness (`ClaimedRunEnds`, `RunReturns`,
`MigrateReturns`, `FollowerEnds`), since ENABLED is out of the prover's reach.
`TimedOutRunFailed` and `SignalWasOurs` are false.

## 5. Not modelled

* YAML and its limits, schedules, sensors, environments, positions and wording of
  diagnostics (`spec`, `diag`); rendering, exit codes and texts (`cli`, `reason`
  beyond the codes the engine writes, `doctor`): conversions without state.
* The DDL of the migrations: a file is one commit that succeeds or fails.
* Database settings and file systems: external; opening is a step that may fail.
* ULIDs, unique by randomness; the clock, of which the models have their own.
* The runner's environment, paths and output file: one step that may fail.
* Artifacts and log facts.
* fsck's sweep only reads; three of its invariants are properties here
  (`NothingOpenUnderEndedRun`, `EndedRunIsItsAggregate`, `HistoryExplainsRows`).
* `scheduler`, `sensor`, `notify`, `obs`, `explain`, `cronx`: at this commit each
  holds only a package clause.

## 6. Where code and documents disagree

`Engine_timeout_verdict` has a run of its own.  A run whose budget kills a step
with attempts left is recorded *succeeded* with reason `RUN_TIMED_OUT`.
`runStep` attaches no plan "because no further attempt can fit anyway", but the
store decides from the row that an attempt is left, so the step returns to
pending, is skipped, and nothing has failed.

`Runner_foreign_signal` has one too.  `classify` asks whether the leader died of a
signal, whether the deadline's flag is set and whether the context has ended, but
not who sent the signal.  A leader killed from outside (by the kernel for want of
memory, say), whose deadline or context ends before `Run` has joined its watcher,
is recorded as timed out or cancelled, although "two different incidents must
never share a value" (`result.go:9`) and "the signal came from us" (`result.go:87`).

Smaller ones were met on the way, by reading or while a property was being
stated; the models follow the code.

Engine and runner:

* A budget that passes during a backoff, or between two steps: the step is
  started, the runner refuses a timeout that is not positive, and the run stays
  running with nobody to close it (`execute.go:202`, `runner.go:73`;
  `execute.go:18`, G5 of the guarantees).  `ClaimedRunEnds` names this case
  (`Stranded`) and no other.
* The time left is read at `execute.go:202` and the timer armed at
  `runner.go:158`, so a process may live past its run's budget by what lies
  between, and by the grace period.  The model has the first; no property bounds
  a process by the budget.
* The lease is never renewed, so an execution longer than its TTL cannot be
  finished by its owner (`transitions.go:467`, comment at 33).
* KILL is disarmed when the leader is reaped, so a leader that obeys TERM saves a
  helper that ignores it (`runner.go:189`).
* A spent budget leaves pending steps that `skipPending` records as skipped for a
  failed upstream even when they need nothing (so `SkipIsCaused` has the spent
  budget as a second cause).
* fsck's I10 also compares a cancelled run with the aggregate of its steps, which
  a run cancelled between two steps does not have (so `EndedRunIsItsAggregate`
  speaks of the other verdicts).
* A context that ends between Start and `setGroup` spends the escalation on no
  group, and os/exec then kills the leader alone (`ExecCancel` at "group").
* The core limit lock is held until the process is reaped while the next call's
  timer is running (`Arm` comes before `ZeroCoreLimit`, `Disarm` after `Drain`);
  the engine runs one process at a time at this commit.

Migrator:

* A migrator that outlives the lock can leave a ledger with rows of two builds
  (`migrate.go:44`): the check inside the transaction compares the version and
  not the checksum.  `LedgerOfOneBuild` therefore speaks of `overstayed`.
* The fence can fall: `repairUserVersion` writes a highest version that may be
  stale (`migrate.go:316`), also that of an older build over a newer one's.  Then
  only the ledger refuses older builds.  `NewerIsNotMigrated` speaks of statements
  and ledger rows for this reason.
* A context that ends during a rebuild leaves `foreign_keys` off on that
  connection, since the restoring pragma uses the same context (617), and leaves
  the lock row until it expires.

State directory:

* `LockedError.Owner` names a session row, "the process holding the state lock"
  (`session.go:158`, `statelock.go:38`); when a command without a session holds
  the lock, the row is that of an earlier crash.  `OwnerIsTheLiveSession` speaks
  of the case where somebody has a session.
* A crash between creating the database file and narrowing its mode, under a
  wide umask, makes every later start refuse.

Logs:

* A newline emits the window and the rest of the piece as one line, which may be
  longer than `maxFragment` (`sink.go:28`).
* The marker is written whenever the tail phase was entered, also if nothing
  reached the tail: a log that fills its head exactly is not flagged but ends in a
  marker that counts nothing, where the comment has it that such a log "never
  carries an empty marker" (`sink.go:313`, `337`).  `TruncationIsTold` describes both:
  the flag by what is missing, the marker by the full head.
* A line bigger than the ring empties the whole ring before it is dropped itself
  (`quota.go:28`).  Blank lines that are evicted count no bytes.
* `SeqCheck` takes the first line it sees as its baseline, so losses before it
  are silent (`tail.go:13`); so are losses behind the last, after a failed write.
* `StartStep` leaves `log_path` at the previous attempt's file, so `paceq logs`
  can show attempt k-1 as attempt k until the outcome is recorded (`logs.go:193`).
* Without `--all-attempts` the follower that switches to the retry does not drain
  the rest of the first attempt, and with `--step` later attempts are never
  followed (`logs.go:241`).  Cancelling during GetRun with `--step
  --all-attempts` reports "not found" (`logs.go:243`).

Specification and catalogue:

* `needs: [a, a]` is accepted, but the primary key of `step_deps` makes every
  materialisation of the job fail (`parse.go:34`); lists documented as sets are
  sorted and not made unique (`canonical.go:183`, `216`).  Needs that form a cycle
  are accepted.
* A retry block with only `max_delay` below the default initial delay is refused
  because of the default (`decode.go:328`).
* Applying the same file again leaves "byte for byte the same" database
  (`apply.go:24`), but `jobs.updated_at` changes.
* Two files that name one job: the report shows the last file's name and hash
  for both, while the version numbers are each result's own (`applycmd.go:204`).
* `apply` reads files before it takes the state lock, so the slower of two can
  put older content back.  `JobLastRuns` takes id order for time order, which a
  wall clock that steps back breaks.

## 7. What is left

* Growing the engine's model by the delay operators of `Backoff` (it draws from
  any set of delays) and by log facts, so that `LogFollow` and `Engine` share one
  step.
* Schedules and sensors of the specification once a scheduler exists to use them.
