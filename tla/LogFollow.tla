----------------------------- MODULE LogFollow ------------------------------
(***************************************************************************)
(* A step's attempts, each with a log of its own (LogSink), the step's row *)
(* as the engine moves it around them (execute.go), and `paceq logs -f`    *)
(* (cli/logs.go) in another process, which sees files and row at different *)
(* moments and has to show every file it follows to its end.               *)
(***************************************************************************)
EXTENDS LogSink

CONSTANTS
    MaxAttempt,     \* the step's max_attempts
    Mode,           \* what may be followed: "newest", "all", "step", or "none"
    MaxFollowed     \* lines of a log that is followed, all whole (bound)

ASSUME LogFollowAssumption == MaxAttempt \in Nat \ {0} /\ MaxFollowed \in Nat

VARIABLES
    row,        \* the step's row: state, attempt, attempt log_path points at
    opened,     \* the attempt whose log was opened last
    older,      \* how many records the log of an earlier attempt has
    mode,       \* the flags of the follower
    at,         \* where the follower is in followLogs
    snap,       \* the row as its last GetRun returned it
    sources,    \* the attempts it was told to follow when it began
    list,       \* the files it still has to drain in this round
    offset      \* how many records of each file it has shown

stepVars   == <<row, opened, older>>
followVars == <<mode, at, snap, sources, list, offset>>
lfVars     == <<sinkVars, stepVars, followVars>>

Attempt == 1..MaxAttempt
Size(a) == IF a = opened THEN Len(file) ELSE older[a]

LFInit ==
    /\ SinkInit
    /\ row = [state |-> "pending", attempt |-> 0, path |-> 0]
    /\ opened = 0
    /\ older = [a \in Attempt |-> 0]
    /\ mode \in Mode
    /\ at = "off"
    /\ snap = row
    /\ sources = << >> /\ list = << >>
    /\ offset = [a \in Attempt |-> 0]

-----------------------------------------------------------------------------
(* The engine around one attempt. *)

\* StartStep leaves log_path where the previous attempt put it.
StartStep ==
    /\ row.state = "pending" /\ row.attempt < MaxAttempt
    /\ row' = [row EXCEPT !.state = "running", !.attempt = @ + 1]
    /\ UNCHANGED <<sinkVars, opened, older, followVars>>

OpenLog ==
    /\ row.state = "running" /\ opened < row.attempt
    /\ Open
    /\ older' = [a \in Attempt |-> IF a = opened THEN Len(file) ELSE older[a]]
    /\ opened' = row.attempt
    /\ UNCHANGED <<row, followVars>>

\* What the job and Finish do between Open and RecordStepOutcome.
Produce ==
    /\ row.state = "running" /\ opened = row.attempt
    /\ Write \/ Finish \/ FinishFails
    /\ mode # "none" /\ stage' = "open" => seq' <= MaxFollowed /\ Held' = 0
    /\ UNCHANGED <<stepVars, followVars>>

Outcome(states) ==
    /\ row.state = "running" /\ opened = row.attempt
    /\ \E s \in states :
          /\ s = "pending" => row.attempt < MaxAttempt
          /\ row' = [row EXCEPT !.state = s, !.path = row.attempt]
    /\ UNCHANGED <<sinkVars, opened, older, followVars>>

\* The log is closed before the row moves; a retry leaves the step pending.
RecordOutcome ==
    stage = "finished" /\ Outcome({"pending", "terminal"})

\* The step is skipped or cancelled while it waits for its next attempt.
EndPending ==
    /\ row.state = "pending"
    /\ row' = [row EXCEPT !.state = "terminal"]
    /\ UNCHANGED <<sinkVars, opened, older, followVars>>

-----------------------------------------------------------------------------
(* The follower. *)

\* selectLogSources, for the row r and the files that exist when it looks: with
\* no flag the row's attempt, then the file the row names, then attempt 1.
Selected(r) ==
    IF mode = "all" THEN [i \in 1..opened |-> i]
    ELSE IF r.attempt > 0 /\ r.attempt <= opened THEN <<r.attempt>>
    ELSE IF r.attempt > 0 /\ r.path > 0 THEN <<r.path>>
    ELSE IF opened > 0 THEN <<1>>
    ELSE << >>

\* GetRun, and then the directory, a moment later.
Begin ==
    /\ at = "off" /\ mode # "none"
    /\ snap' = row
    /\ at' = "select"
    /\ UNCHANGED <<sinkVars, stepVars, mode, sources, list, offset>>

\* With nothing to show yet the command says so and ends.
Select ==
    /\ at = "select"
    /\ sources' = IF mode = "step" THEN Selected(snap) ELSE << >>
    /\ snap' = [snap EXCEPT !.attempt = 0, !.path = 0]   \* used up
    /\ list' = Selected(snap)
    /\ at' = IF Selected(snap) = << >> THEN "off" ELSE "first"
    /\ UNCHANGED <<sinkVars, stepVars, mode, offset>>

\* ReadFrom hands on every complete record from the offset it resumes at.
Show == offset' = [offset EXCEPT ![Head(list)] = Size(Head(list))]

\* The first drain never counts as the last one.
DrainFirst ==
    /\ at = "first"
    /\ IF list = << >>
       THEN at' = "wait" /\ UNCHANGED <<list, offset>>
       ELSE Show /\ list' = Tail(list) /\ UNCHANGED at
    /\ UNCHANGED <<sinkVars, stepVars, mode, snap, sources>>

\* Mutant: the row is read once.
TickStale ==
    /\ at = "wait"
    /\ at' = "resolve"
    /\ UNCHANGED <<sinkVars, stepVars, mode, snap, sources, list, offset>>
Tick ==
    /\ at = "wait"
    /\ snap' = row
    /\ at' = "resolve"
    /\ UNCHANGED <<sinkVars, stepVars, mode, sources, list, offset>>

\* Attempts appear while following; with --step alone they are not looked for.
Resolve ==
    /\ at = "resolve"
    /\ list' = IF mode = "step" THEN sources ELSE Selected(snap)
    /\ snap' = [snap EXCEPT !.attempt = 0, !.path = 0]   \* used up
    /\ at' = "drain"
    /\ UNCHANGED <<sinkVars, stepVars, mode, sources, offset>>

\* Mutant: whether to stop is asked after the files were read.
DrainThenAsk ==
    /\ at = "drain"
    /\ IF list = << >>
       THEN /\ at' = IF row.state = "terminal" THEN "done" ELSE "wait"
            /\ UNCHANGED <<list, offset>>
       ELSE Show /\ list' = Tail(list) /\ UNCHANGED at
    /\ UNCHANGED <<sinkVars, stepVars, mode, snap, sources>>
\* Whether to stop is decided from the row read before the files.
Drain ==
    /\ at = "drain"
    /\ IF list = << >>
       THEN /\ at' = IF snap.state = "terminal" THEN "done" ELSE "wait"
            /\ UNCHANGED <<list, offset>>
       ELSE Show /\ list' = Tail(list) /\ UNCHANGED at
    /\ UNCHANGED <<sinkVars, stepVars, mode, snap, sources>>

\* The user ends it.
Interrupt ==
    /\ at = "wait"
    /\ at' = "interrupted"
    /\ UNCHANGED <<sinkVars, stepVars, mode, snap, sources, list, offset>>

Follow == Select \/ DrainFirst \/ Tick \/ Resolve \/ Drain

LFNext ==
    \/ StartStep \/ OpenLog \/ Produce \/ RecordOutcome \/ EndPending
    \/ Begin \/ Follow \/ Interrupt

LFSpec == LFInit /\ [][LFNext]_lfVars

\* The ticker of a follower that is not interrupted keeps firing.
FairLFSpec == LFSpec /\ WF_lfVars(Follow)

-----------------------------------------------------------------------------
(* Properties. *)

LFTypeOK ==
    /\ SinkTypeOK
    /\ row \in [state : {"pending", "running", "terminal"},
                attempt : 0..MaxAttempt, path : 0..MaxAttempt]
    /\ opened \in 0..MaxAttempt /\ opened <= row.attempt
    /\ older \in [Attempt -> Nat]
    /\ mode \in Mode
    /\ at \in {"off", "select", "first", "wait", "resolve", "drain", "done",
               "interrupted"}
    /\ offset \in [Attempt -> Nat]
    /\ \A a \in Attempt : offset[a] <= Size(a)

\* A follower that ends by itself has shown the whole log: of every attempt with
\* --all-attempts, of the newest one that was logged otherwise, and with --step
\* of the one it began with.  The row, the directory and the file are read at
\* different moments, and Finish adds most of a truncated log at the very end.
FollowerShowsItAll ==
    at = "done" =>
        /\ mode = "all" => \A a \in 1..opened : offset[a] = Size(a)
        /\ mode = "newest" /\ opened > 0 => offset[opened] = Size(opened)
        /\ mode = "step" => offset[sources[1]] = Size(sources[1])

\* A verdict stands over a log that is closed.
VerdictAfterLog ==
    row.state = "terminal" /\ opened > 0 => stage = "finished"

\* Leaving on the verdict is leaving after the last line: the verdict comes after
\* the log is closed, and the follower reads after it asked.
FollowerMissesNothing == LFTypeOK /\ VerdictAfterLog /\ FollowerShowsItAll

\* Following ends once the step has ended, unless the user ends it first.
FollowerEnds == (row.state = "terminal" /\ at \in {"wait", "resolve", "drain"})
                    ~> at \in {"done", "interrupted"}
=============================================================================
