---------------------------- MODULE Runner_proofs ----------------------------
(***************************************************************************)
(* Proofs about Runner, for any number of concurrent calls whose steps may *)
(* be delayed at will: the core limit always comes back, every verdict has *)
(* its evidence, the signals are ordered, and nothing is left behind.      *)
(*                                                                         *)
(* An action changes the row of one call.  The first lemmas are about such *)
(* rows; then each theorem has one step per action.                        *)
(***************************************************************************)
EXTENDS Runner, TLAPS

LEMMA AfterTermType ==
    ASSUME NEW row \in CallRow, NEW l \in BOOLEAN, NEW h \in BOOLEAN
    PROVE  AfterTerm(row, l, h) \in CallRow
<1> DEFINE leader == IF l /\ row.leader = "alive" THEN "signal" ELSE row.leader
           ours == row.ours \/ (l /\ row.leader = "alive")
           helper == IF h THEN "none" ELSE row.helper
<1>1. leader \in Leaders /\ helper \in Helpers
  BY DEF CallRow, Leaders, Ends, Helpers
<1>2. ours \in BOOLEAN
  OBVIOUS
<1>3. AfterTerm(row, l, h) = [row EXCEPT !.leader = leader, !.ours = ours, !.helper = helper]
  BY DEF AfterTerm, CallRow
<1> HIDE DEF leader, ours, helper
<1> QED BY <1>1, <1>2, <1>3, ZenonT(60) DEF CallRow

LEMMA SentType ==
    ASSUME NEW row \in CallRow, NEW sig \in {"TERM", "KILL"}, now \in Nat
    PROVE  Append(row.sent, [sig |-> sig, at |-> now]) \in Seq(Sends)
<1> row.sent \in Seq(Sends)
  BY DEF CallRow
<1> [sig |-> sig, at |-> now] \in Sends
  BY DEF Sends
<1> QED OBVIOUS

LEMMA FiresType ==
    ASSUME NEW row \in CallRow, NEW l \in BOOLEAN, NEW h \in BOOLEAN, now \in Nat
    PROVE  Fires(row, l, h) \in CallRow
<1>1. AfterTerm(row, l, h) \in CallRow
  BY AfterTermType
<1>2. now + Grace \in Nat
  BY RunnerAssumption
<1>3. Append(row.sent, [sig |-> "TERM", at |-> now])
        \in Seq(Sends)
  BY SentType
<1>4. CASE ~row.fired /\ row.group
  <2>1. \A r \in CallRow, k \in Nat \union {NULL}, s \in Seq(Sends) :
          [r EXCEPT !.fired = TRUE, !.killAt = k, !.sent = s] \in CallRow
    BY ZenonT(60) DEF CallRow
  <2> QED BY <1>1, <1>2, <1>3, <1>4, <2>1 DEF Fires
<1>5. CASE row.fired
  BY <1>5 DEF Fires
<1>6. CASE ~row.fired /\ ~row.group
  BY <1>6 DEF Fires, CallRow
<1> QED BY <1>4, <1>5, <1>6 DEF CallRow
LEMMA VerdictType ==
    ASSUME NEW row \in CallRow, row.leader \in Ends
    PROVE  Verdict(row) \in Verdicts
BY DEF CallRow, Ends, Verdict, Verdicts

\* An action that gives one call a well typed row leaves every row well typed.
LEMMA RowsTyped ==
    ASSUME RTypeOK, NEW c \in Call, NEW row \in CallRow, call' = [call EXCEPT ![c] = row]
    PROVE  call' \in [Call -> CallRow]
BY DEF RTypeOK

\* Program point against leader: none before Start, reaped after Wait.
Phased(row) ==
    /\ row.pc \in {"prepare", "lock", "start"} => row.leader = "none"
    /\ row.pc \in {"handover", "drain", "reaped", "stop", "watcher", "classify"}
         => row.leader \in Ends
    /\ row.verdict # NULL => row.pc \in {"defer", "returned"}

\* Verdict against leader.
Backed(row) ==
    /\ row.verdict # NULL =>
         /\ row.leader # "alive"
         /\ row.verdict = "SpawnFailed" <=> row.leader = "none"
         /\ row.verdict = "Succeeded" <=> row.leader = "exit 0"
         /\ row.verdict = "Failed" <=> row.leader = "exit N"
    /\ row.verdict = "TimedOut" => row.timedOut
    /\ row.verdict = "Cancelled" => row.ctxDone
    /\ row.verdict = "Signalled" => ~row.ours

\* A signal of the runner's own has a deadline or the context behind it.
Excused(row) ==
    /\ row.ours \/ row.killAt # NULL => row.timedOut \/ row.ctxDone
    /\ row.exec = "delay" => row.ctxDone

\* The deadline was set when the watcher was armed, and had passed when it fired.
Timed(row, t) ==
    /\ row.pc \in {"lock", "start", "group"} => row.deadline \in Nat
    /\ row.pc \in {"prepare", "lock", "start", "group"} => row.watcher = "none"
    /\ row.watcher # "none" => row.deadline \in Nat
    /\ row.timedOut => row.watcher # "none" /\ row.deadline <= t

RowInv(row, t) ==
    /\ Phased(row) /\ Backed(row) /\ Excused(row) /\ Timed(row, t)
    /\ row.old = OwnLimit

RunnerInv ==
    /\ RTypeOK
    /\ \A c \in Call : RowInv(call[c], now)
    /\ mutex = NULL => limit = OwnLimit

\* What a signal to the group may change, and under which condition.
LEMMA AfterTermFrame ==
    ASSUME NEW row \in CallRow, NEW l \in BOOLEAN, NEW h \in BOOLEAN,
           NEW out, out = AfterTerm(row, l, h)
    PROVE  /\ out.pc = row.pc /\ out.verdict = row.verdict /\ out.old = row.old
           /\ out.deadline = row.deadline /\ out.watcher = row.watcher
           /\ out.timedOut = row.timedOut /\ out.ctxDone = row.ctxDone
           /\ out.exec = row.exec /\ out.killAt = row.killAt
           /\ out.leader = row.leader \/ (row.leader = "alive" /\ out.leader = "signal")
           /\ out.ours => row.ours \/ row.leader = "alive"
BY DEF AfterTerm, CallRow

LEMMA FiresFrame ==
    ASSUME NEW row \in CallRow, NEW l \in BOOLEAN, NEW h \in BOOLEAN,
           NEW out, out = Fires(row, l, h)
    PROVE  /\ out.pc = row.pc /\ out.verdict = row.verdict /\ out.old = row.old
           /\ out.deadline = row.deadline /\ out.watcher = row.watcher
           /\ out.timedOut = row.timedOut /\ out.ctxDone = row.ctxDone
           /\ out.exec = row.exec
           /\ out.leader = row.leader \/ (row.leader = "alive" /\ out.leader = "signal")
           /\ out.ours => row.ours \/ row.leader = "alive"
<1>1. AfterTerm(row, l, h) \in CallRow
  BY AfterTermType
<1>2. CASE row.fired
  BY <1>2 DEF Fires, CallRow
<1>3. CASE ~row.fired /\ ~row.group
  BY <1>3 DEF Fires, CallRow
<1>4. CASE ~row.fired /\ row.group
  <2> DEFINE termed == AfterTerm(row, l, h)
  <2>1. out = [termed EXCEPT !.fired = TRUE, !.killAt = now + Grace,
                 !.sent = Append(row.sent, [sig |-> "TERM", at |-> now])]
    BY <1>4 DEF Fires
  <2>2. /\ termed.pc = row.pc /\ termed.verdict = row.verdict /\ termed.old = row.old
        /\ termed.deadline = row.deadline /\ termed.watcher = row.watcher
        /\ termed.timedOut = row.timedOut /\ termed.ctxDone = row.ctxDone
        /\ termed.exec = row.exec
        /\ termed.leader = row.leader \/ (row.leader = "alive" /\ termed.leader = "signal")
        /\ termed.ours => row.ours \/ row.leader = "alive"
    BY AfterTermFrame
  <2> HIDE DEF termed
  <2>3. termed \in CallRow
    BY <1>1 DEF termed
  <2> QED BY <2>1, <2>2, <2>3 DEF CallRow
<1> QED BY <1>2, <1>3, <1>4 DEF CallRow

\* The signals keep the invariant of the row, once the cause is in the row.
LEMMA SignalledRow ==
    ASSUME NEW row \in CallRow, NEW out \in CallRow, NEW t \in Nat, RowInv(row, t),
           out.pc = row.pc, out.verdict = row.verdict, out.old = row.old,
           out.deadline = row.deadline, row.timedOut => out.timedOut, out.ctxDone = row.ctxDone,
           out.pc \in {"prepare", "lock", "start", "group"} => out.watcher = "none",
           out.watcher # "none" => out.deadline \in Nat,
           out.timedOut => out.watcher # "none" /\ out.deadline <= t,
           out.timedOut \/ out.ctxDone,
           out.exec = "delay" => out.ctxDone,
           out.leader = row.leader \/ (row.leader = "alive" /\ out.leader = "signal"),
           out.ours => row.ours \/ row.leader = "alive"
    PROVE  RowInv(out, t)
<1>1. Phased(out)
  BY DEF RowInv, Phased, Ends
<1>2. Backed(out)
  BY RunnerAssumption DEF RowInv, Backed, Verdicts
<1>3. Excused(out) /\ Timed(out, t)
  BY DEF RowInv, Excused, Timed
<1> QED BY <1>1, <1>2, <1>3 DEF RowInv

\* What Run does keeps the invariant of the row: one step per action.
LEMMA WorksRow ==
    ASSUME RunnerInv, NEW c \in Call, Works(c)
    PROVE  \E row \in CallRow :
             /\ call' = [call EXCEPT ![c] = row] /\ RowInv(row, now) /\ now' = now
             /\ mutex' \in Call \union {NULL} /\ limit' \in {0, OwnLimit}
             /\ mutex' = NULL => limit' = OwnLimit
<1> DEFINE row == call[c]
<1>1. row \in CallRow /\ RowInv(row, now)
  BY DEF RunnerInv, RTypeOK
<1>2. now \in Nat /\ now + Timeout \in Nat /\ now + Grace \in Nat
  BY RunnerAssumption DEF RunnerInv, RTypeOK
<1>3. /\ mutex \in Call \union {NULL} /\ limit \in {0, OwnLimit}
      /\ mutex = NULL => limit = OwnLimit
  BY DEF RunnerInv, RTypeOK
<1>4. NULL \notin Verdicts /\ NULL \notin Call
  BY RunnerAssumption
<1> HIDE DEF row
<1>5. CASE PrepareFails(c)
  <2> DEFINE new == [row EXCEPT !.pc = "returned", !.verdict = "SpawnFailed"]
  <2>1. call' = [call EXCEPT ![c] = new] /\ now' = now
    BY <1>5 DEF PrepareFails, Moves, row
  <2>2. new \in CallRow
    BY <1>1 DEF CallRow, Verdicts
  <2>3. RowInv(new, now)
    <3>1. /\ new.pc = "returned" /\ new.verdict = "SpawnFailed" /\ new.old = row.old
          /\ new.deadline = row.deadline /\ new.watcher = row.watcher /\ new.timedOut = row.timedOut
          /\ new.ctxDone = row.ctxDone /\ new.exec = row.exec /\ new.leader = row.leader
          /\ new.ours = row.ours /\ new.killAt = row.killAt
      BY <1>1 DEF CallRow
    <3>2. row.pc = "prepare"
      BY <1>5 DEF PrepareFails, Moves, row
    <3> HIDE DEF new
    <3> QED BY <1>1, <1>3, <1>4, <3>1, <3>2
            DEF RowInv, Phased, Backed, Excused, Timed, Verdicts
  <2>4. mutex' \in Call \union {NULL} /\ limit' \in {0, OwnLimit} /\ (mutex' = NULL => limit' = OwnLimit)
    BY <1>1, <1>3, <1>4, <1>5 DEF PrepareFails
  <2> QED BY <2>1, <2>2, <2>3, <2>4
<1>6. CASE Arm(c)
  <2> DEFINE new == [row EXCEPT !.pc = "lock", !.deadline = now + Timeout]
  <2>1. call' = [call EXCEPT ![c] = new] /\ now' = now
    BY <1>6 DEF Arm, Moves, row
  <2>2. new \in CallRow
    <3>1. \A t \in Nat \union {NULL} : [row EXCEPT !.pc = "lock", !.deadline = t] \in CallRow
      BY <1>1 DEF CallRow
    <3> QED BY <1>2, <3>1
  <2>3. RowInv(new, now)
    <3>1. new.pc = "lock" /\ new.deadline \in Nat
      BY <1>1, <1>2 DEF CallRow
    <3>2. new.watcher = row.watcher /\ ~row.timedOut => RowInv(new, now)
      BY <1>1, <1>4, <1>6, <3>1 DEF Arm, Moves, row, CallRow, RowInv, Phased, Backed, Excused, Timed
    <3>3. ~row.timedOut
      BY <1>1, <1>6 DEF Arm, Moves, row, CallRow, RowInv, Timed
    <3> QED BY <1>1, <3>2, <3>3 DEF CallRow
  <2>4. mutex' \in Call \union {NULL} /\ limit' \in {0, OwnLimit} /\ (mutex' = NULL => limit' = OwnLimit)
    BY <1>1, <1>3, <1>4, <1>6 DEF Arm
  <2> QED BY <2>1, <2>2, <2>3, <2>4
<1>7. CASE ZeroCoreLimit(c)
  <2> DEFINE new == [row EXCEPT !.pc = "start", !.old = limit]
  <2>1. call' = [call EXCEPT ![c] = new] /\ now' = now
    BY <1>7 DEF ZeroCoreLimit, Moves, row
  <2>2. new \in CallRow
    BY <1>1, <1>3 DEF CallRow
  <2>3. RowInv(new, now)
    <3>1. /\ new.pc = "start" /\ new.verdict = row.verdict /\ new.old = limit
          /\ new.deadline = row.deadline /\ new.watcher = row.watcher /\ new.timedOut = row.timedOut
          /\ new.ctxDone = row.ctxDone /\ new.exec = row.exec /\ new.leader = row.leader
          /\ new.ours = row.ours /\ new.killAt = row.killAt
      BY <1>1 DEF CallRow
    <3>2. row.pc = "lock" /\ mutex = NULL
      BY <1>7 DEF ZeroCoreLimit, Moves, row
    <3> HIDE DEF new
    <3> QED BY <1>1, <1>3, <1>4, <3>1, <3>2
            DEF RowInv, Phased, Backed, Excused, Timed
  <2>4. mutex' \in Call \union {NULL} /\ limit' \in {0, OwnLimit} /\ (mutex' = NULL => limit' = OwnLimit)
    BY <1>1, <1>3, <1>4, <1>7 DEF ZeroCoreLimit
  <2> QED BY <2>1, <2>2, <2>3, <2>4
<1>8. CASE CoreLimitRefused(c)
  <2> DEFINE new == [row EXCEPT !.pc = "start"]
  <2>1. call' = [call EXCEPT ![c] = new] /\ now' = now
    BY <1>8 DEF CoreLimitRefused, Moves, row
  <2>2. new \in CallRow
    BY <1>1 DEF CallRow
  <2>3. RowInv(new, now)
    <3>1. /\ new.pc = "start" /\ new.verdict = row.verdict /\ new.old = row.old
          /\ new.deadline = row.deadline /\ new.watcher = row.watcher /\ new.timedOut = row.timedOut
          /\ new.ctxDone = row.ctxDone /\ new.exec = row.exec /\ new.leader = row.leader
          /\ new.ours = row.ours /\ new.killAt = row.killAt
      BY <1>1 DEF CallRow
    <3>2. row.pc = "lock"
      BY <1>8 DEF CoreLimitRefused, Moves, row
    <3> HIDE DEF new
    <3> QED BY <1>1, <1>3, <1>4, <3>1, <3>2
            DEF RowInv, Phased, Backed, Excused, Timed
  <2>4. mutex' \in Call \union {NULL} /\ limit' \in {0, OwnLimit} /\ (mutex' = NULL => limit' = OwnLimit)
    BY <1>1, <1>3, <1>4, <1>8 DEF CoreLimitRefused
  <2> QED BY <2>1, <2>2, <2>3, <2>4
<1>9. CASE StartFails(c)
  <2> DEFINE new == [row EXCEPT !.pc = "defer", !.verdict = "SpawnFailed",
                 !.done = TRUE]
  <2>1. call' = [call EXCEPT ![c] = new] /\ now' = now
    BY <1>9 DEF StartFails, Moves, row
  <2>2. new \in CallRow
    BY <1>1 DEF CallRow, Verdicts
  <2>3. RowInv(new, now)
    <3>1. /\ new.pc = "defer" /\ new.verdict = "SpawnFailed" /\ new.old = row.old
          /\ new.deadline = row.deadline /\ new.watcher = row.watcher /\ new.timedOut = row.timedOut
          /\ new.ctxDone = row.ctxDone /\ new.exec = row.exec /\ new.leader = row.leader
          /\ new.ours = row.ours /\ new.killAt = row.killAt
      BY <1>1 DEF CallRow
    <3>2. row.pc = "start"
      BY <1>9 DEF StartFails, Moves, row
    <3> HIDE DEF new
    <3> QED BY <1>1, <1>3, <1>4, <3>1, <3>2
            DEF RowInv, Phased, Backed, Excused, Timed, Verdicts
  <2>4. mutex' \in Call \union {NULL} /\ limit' \in {0, OwnLimit} /\ (mutex' = NULL => limit' = OwnLimit)
    BY <1>1, <1>3, <1>4, <1>9 DEF StartFails, ReleaseCoreLimit, RowInv, row
  <2> QED BY <2>1, <2>2, <2>3, <2>4
<1>10. CASE StartProcess(c)
  <2> DEFINE new == [row EXCEPT !.pc = "group", !.leader = "alive", !.exec = "armed"]
  <2>1. call' = [call EXCEPT ![c] = new] /\ now' = now
    BY <1>10 DEF StartProcess, Moves, row
  <2>2. new \in CallRow
    BY <1>1 DEF CallRow, Leaders
  <2>3. RowInv(new, now)
    <3>1. /\ new.pc = "group" /\ new.verdict = row.verdict /\ new.old = row.old
          /\ new.deadline = row.deadline /\ new.watcher = row.watcher /\ new.timedOut = row.timedOut
          /\ new.ctxDone = row.ctxDone /\ new.exec = "armed" /\ new.leader = "alive"
          /\ new.ours = row.ours /\ new.killAt = row.killAt
      BY <1>1 DEF CallRow
    <3>2. row.pc = "start"
      BY <1>10 DEF StartProcess, Moves, row
    <3> HIDE DEF new
    <3> QED BY <1>1, <1>3, <1>4, <3>1, <3>2
            DEF RowInv, Phased, Backed, Excused, Timed
  <2>4. mutex' \in Call \union {NULL} /\ limit' \in {0, OwnLimit} /\ (mutex' = NULL => limit' = OwnLimit)
    BY <1>1, <1>3, <1>4, <1>10 DEF StartProcess
  <2> QED BY <2>1, <2>2, <2>3, <2>4
<1>11. CASE SetGroup(c)
  <2> DEFINE new == [row EXCEPT !.pc = "wait", !.group = TRUE, !.watcher = "armed"]
  <2>1. call' = [call EXCEPT ![c] = new] /\ now' = now
    BY <1>11 DEF SetGroup, Moves, row
  <2>2. new \in CallRow
    BY <1>1 DEF CallRow
  <2>3. RowInv(new, now)
    <3>1. /\ new.pc = "wait" /\ new.verdict = row.verdict /\ new.old = row.old
          /\ new.deadline = row.deadline /\ new.watcher = "armed" /\ new.timedOut = row.timedOut
          /\ new.ctxDone = row.ctxDone /\ new.exec = row.exec /\ new.leader = row.leader
          /\ new.ours = row.ours /\ new.killAt = row.killAt
      BY <1>1 DEF CallRow
    <3>2. row.pc = "group"
      BY <1>11 DEF SetGroup, Moves, row
    <3> HIDE DEF new
    <3> QED BY <1>1, <1>3, <1>4, <3>1, <3>2
            DEF RowInv, Phased, Backed, Excused, Timed
  <2>4. mutex' \in Call \union {NULL} /\ limit' \in {0, OwnLimit} /\ (mutex' = NULL => limit' = OwnLimit)
    BY <1>1, <1>3, <1>4, <1>11 DEF SetGroup
  <2> QED BY <2>1, <2>2, <2>3, <2>4
<1>12. CASE Reap(c)
  <2> DEFINE new == [row EXCEPT !.pc = "handover"]
  <2>1. call' = [call EXCEPT ![c] = new] /\ now' = now
    BY <1>12 DEF Reap, Moves, row
  <2>2. new \in CallRow
    BY <1>1 DEF CallRow
  <2>3. RowInv(new, now)
    <3>1. /\ new.pc = "handover" /\ new.verdict = row.verdict /\ new.old = row.old
          /\ new.deadline = row.deadline /\ new.watcher = row.watcher /\ new.timedOut = row.timedOut
          /\ new.ctxDone = row.ctxDone /\ new.exec = row.exec /\ new.leader = row.leader
          /\ new.ours = row.ours /\ new.killAt = row.killAt
      BY <1>1 DEF CallRow
    <3>2. row.pc = "wait" /\ row.leader \in Ends
      BY <1>12 DEF Reap, Moves, row
    <3> HIDE DEF new
    <3> QED BY <1>1, <1>3, <1>4, <3>1, <3>2
            DEF RowInv, Phased, Backed, Excused, Timed, Ends
  <2>4. mutex' \in Call \union {NULL} /\ limit' \in {0, OwnLimit} /\ (mutex' = NULL => limit' = OwnLimit)
    BY <1>1, <1>3, <1>4, <1>12 DEF Reap
  <2> QED BY <2>1, <2>2, <2>3, <2>4
<1>13. CASE HandOver(c)
  <2> DEFINE new == [row EXCEPT !.pc = "drain", !.exec = "gone",
                 !.delayEnd = IF @ = NULL THEN now + Grace ELSE @]
  <2>1. call' = [call EXCEPT ![c] = new] /\ now' = now
    BY <1>13 DEF HandOver, Moves, row
  <2>2. new \in CallRow
    <3>1. \A t \in Nat \union {NULL} :
            [row EXCEPT !.pc = "drain", !.exec = "gone", !.delayEnd = t] \in CallRow
      BY <1>1 DEF CallRow
    <3>2. row.delayEnd \in Nat \union {NULL}
      BY <1>1 DEF CallRow
    <3> QED BY <1>2, <3>1, <3>2
  <2>3. RowInv(new, now)
    <3>1. /\ new.pc = "drain" /\ new.verdict = row.verdict /\ new.old = row.old
          /\ new.deadline = row.deadline /\ new.watcher = row.watcher /\ new.timedOut = row.timedOut
          /\ new.ctxDone = row.ctxDone /\ new.exec = "gone" /\ new.leader = row.leader
          /\ new.ours = row.ours /\ new.killAt = row.killAt
      BY <1>1 DEF CallRow
    <3>2. row.pc = "handover"
      BY <1>13 DEF HandOver, Moves, row
    <3> HIDE DEF new
    <3> QED BY <1>1, <1>3, <1>4, <3>1, <3>2
            DEF RowInv, Phased, Backed, Excused, Timed
  <2>4. mutex' \in Call \union {NULL} /\ limit' \in {0, OwnLimit} /\ (mutex' = NULL => limit' = OwnLimit)
    BY <1>1, <1>3, <1>4, <1>13 DEF HandOver
  <2> QED BY <2>1, <2>2, <2>3, <2>4
<1>14. CASE Drain(c)
  <2> DEFINE new == [row EXCEPT !.pc = "reaped"]
  <2>1. call' = [call EXCEPT ![c] = new] /\ now' = now
    BY <1>14 DEF Drain, Moves, row
  <2>2. new \in CallRow
    BY <1>1 DEF CallRow
  <2>3. RowInv(new, now)
    <3>1. /\ new.pc = "reaped" /\ new.verdict = row.verdict /\ new.old = row.old
          /\ new.deadline = row.deadline /\ new.watcher = row.watcher /\ new.timedOut = row.timedOut
          /\ new.ctxDone = row.ctxDone /\ new.exec = row.exec /\ new.leader = row.leader
          /\ new.ours = row.ours /\ new.killAt = row.killAt
      BY <1>1 DEF CallRow
    <3>2. row.pc = "drain"
      BY <1>14 DEF Drain, Moves, row
    <3> HIDE DEF new
    <3> QED BY <1>1, <1>3, <1>4, <3>1, <3>2
            DEF RowInv, Phased, Backed, Excused, Timed
  <2>4. mutex' \in Call \union {NULL} /\ limit' \in {0, OwnLimit} /\ (mutex' = NULL => limit' = OwnLimit)
    BY <1>1, <1>3, <1>4, <1>14 DEF Drain
  <2> QED BY <2>1, <2>2, <2>3, <2>4
<1>15. CASE Disarm(c)
  <2> DEFINE new == [row EXCEPT !.pc = "stop", !.done = TRUE]
  <2>1. call' = [call EXCEPT ![c] = new] /\ now' = now
    BY <1>15 DEF Disarm, Moves, row
  <2>2. new \in CallRow
    BY <1>1 DEF CallRow
  <2>3. RowInv(new, now)
    <3>1. /\ new.pc = "stop" /\ new.verdict = row.verdict /\ new.old = row.old
          /\ new.deadline = row.deadline /\ new.watcher = row.watcher /\ new.timedOut = row.timedOut
          /\ new.ctxDone = row.ctxDone /\ new.exec = row.exec /\ new.leader = row.leader
          /\ new.ours = row.ours /\ new.killAt = row.killAt
      BY <1>1 DEF CallRow
    <3>2. row.pc = "reaped"
      BY <1>15 DEF Disarm, Moves, row
    <3> HIDE DEF new
    <3> QED BY <1>1, <1>3, <1>4, <3>1, <3>2
            DEF RowInv, Phased, Backed, Excused, Timed
  <2>4. mutex' \in Call \union {NULL} /\ limit' \in {0, OwnLimit} /\ (mutex' = NULL => limit' = OwnLimit)
    BY <1>1, <1>3, <1>4, <1>15 DEF Disarm, ReleaseCoreLimit, RowInv, row
  <2> QED BY <2>1, <2>2, <2>3, <2>4
<1>16. CASE Stop(c)
  <2> DEFINE new == [row EXCEPT !.pc = "watcher"]
  <2>1. call' = [call EXCEPT ![c] = new] /\ now' = now
    BY <1>16 DEF Stop, Moves, row
  <2>2. new \in CallRow
    BY <1>1 DEF CallRow
  <2>3. RowInv(new, now)
    <3>1. /\ new.pc = "watcher" /\ new.verdict = row.verdict /\ new.old = row.old
          /\ new.deadline = row.deadline /\ new.watcher = row.watcher /\ new.timedOut = row.timedOut
          /\ new.ctxDone = row.ctxDone /\ new.exec = row.exec /\ new.leader = row.leader
          /\ new.ours = row.ours /\ new.killAt = row.killAt
      BY <1>1 DEF CallRow
    <3>2. row.pc = "stop"
      BY <1>16 DEF Stop, Moves, row
    <3> HIDE DEF new
    <3> QED BY <1>1, <1>3, <1>4, <3>1, <3>2
            DEF RowInv, Phased, Backed, Excused, Timed
  <2>4. mutex' \in Call \union {NULL} /\ limit' \in {0, OwnLimit} /\ (mutex' = NULL => limit' = OwnLimit)
    BY <1>1, <1>3, <1>4, <1>16 DEF Stop
  <2> QED BY <2>1, <2>2, <2>3, <2>4
<1>17. CASE JoinWatcher(c)
  <2> DEFINE new == [row EXCEPT !.pc = "classify"]
  <2>1. call' = [call EXCEPT ![c] = new] /\ now' = now
    BY <1>17 DEF JoinWatcher, Moves, row
  <2>2. new \in CallRow
    BY <1>1 DEF CallRow
  <2>3. RowInv(new, now)
    <3>1. /\ new.pc = "classify" /\ new.verdict = row.verdict /\ new.old = row.old
          /\ new.deadline = row.deadline /\ new.watcher = row.watcher /\ new.timedOut = row.timedOut
          /\ new.ctxDone = row.ctxDone /\ new.exec = row.exec /\ new.leader = row.leader
          /\ new.ours = row.ours /\ new.killAt = row.killAt
      BY <1>1 DEF CallRow
    <3>2. row.pc = "watcher"
      BY <1>17 DEF JoinWatcher, Moves, row
    <3> HIDE DEF new
    <3> QED BY <1>1, <1>3, <1>4, <3>1, <3>2
            DEF RowInv, Phased, Backed, Excused, Timed
  <2>4. mutex' \in Call \union {NULL} /\ limit' \in {0, OwnLimit} /\ (mutex' = NULL => limit' = OwnLimit)
    BY <1>1, <1>3, <1>4, <1>17 DEF JoinWatcher
  <2> QED BY <2>1, <2>2, <2>3, <2>4
<1>18. CASE Classify(c)
  <2> DEFINE new == [row EXCEPT !.pc = "defer", !.verdict = Verdict(row)]
  <2>1. call' = [call EXCEPT ![c] = new] /\ now' = now
    BY <1>18 DEF Classify, Moves, row
  <2>2. new \in CallRow
    <3>1. row.leader \in Ends
      BY <1>1, <1>18 DEF Classify, Moves, row, RowInv, Phased
    <3>2. Verdict(row) \in Verdicts
      BY <1>1, <3>1, VerdictType
    <3>3. \A v \in Verdicts : [row EXCEPT !.pc = "defer", !.verdict = v] \in CallRow
      BY <1>1 DEF CallRow
    <3> QED BY <3>2, <3>3
  <2>3. RowInv(new, now)
    <3>1. /\ new.pc = "defer" /\ new.verdict = Verdict(row) /\ new.old = row.old
          /\ new.deadline = row.deadline /\ new.watcher = row.watcher /\ new.timedOut = row.timedOut
          /\ new.ctxDone = row.ctxDone /\ new.exec = row.exec /\ new.leader = row.leader
          /\ new.ours = row.ours /\ new.killAt = row.killAt
      BY <1>1 DEF CallRow
    <3>2. row.pc = "classify"
      BY <1>18 DEF Classify, Moves, row
    <3> HIDE DEF new
    <3> QED BY <1>1, <1>3, <1>4, <3>1, <3>2
            DEF RowInv, Phased, Backed, Excused, Timed, Verdicts, Verdict, Ends
  <2>4. mutex' \in Call \union {NULL} /\ limit' \in {0, OwnLimit} /\ (mutex' = NULL => limit' = OwnLimit)
    BY <1>1, <1>3, <1>4, <1>18 DEF Classify
  <2> QED BY <2>1, <2>2, <2>3, <2>4
<1>19. CASE Return(c)
  <2> DEFINE new == [row EXCEPT !.pc = "returned"]
  <2>1. call' = [call EXCEPT ![c] = new] /\ now' = now
    BY <1>19 DEF Return, Moves, row
  <2>2. new \in CallRow
    BY <1>1 DEF CallRow
  <2>3. RowInv(new, now)
    <3>1. /\ new.pc = "returned" /\ new.verdict = row.verdict /\ new.old = row.old
          /\ new.deadline = row.deadline /\ new.watcher = row.watcher /\ new.timedOut = row.timedOut
          /\ new.ctxDone = row.ctxDone /\ new.exec = row.exec /\ new.leader = row.leader
          /\ new.ours = row.ours /\ new.killAt = row.killAt
      BY <1>1 DEF CallRow
    <3>2. row.pc = "defer"
      BY <1>19 DEF Return, Moves, row
    <3> HIDE DEF new
    <3> QED BY <1>1, <1>3, <1>4, <3>1, <3>2
            DEF RowInv, Phased, Backed, Excused, Timed
  <2>4. mutex' \in Call \union {NULL} /\ limit' \in {0, OwnLimit} /\ (mutex' = NULL => limit' = OwnLimit)
    BY <1>1, <1>3, <1>4, <1>19 DEF Return
  <2> QED BY <2>1, <2>2, <2>3, <2>4
<1> QED BY <1>5, <1>6, <1>7, <1>8, <1>9, <1>10, <1>11, <1>12, <1>13, <1>14, <1>15, <1>16, <1>17, <1>18, <1>19 DEF Works

\* What the watcher does keeps the invariant of the row.
LEMMA WatchesRow ==
    ASSUME RunnerInv, NEW c \in Call, Watches(c)
    PROVE  \E row \in CallRow :
             call' = [call EXCEPT ![c] = row] /\ RowInv(row, now) /\ now' = now
<1> DEFINE row == call[c]
<1>1. row \in CallRow /\ RowInv(row, now) /\ now \in Nat
  BY DEF RunnerInv, RTypeOK
<1>2. ASSUME NEW l \in BOOLEAN, NEW h \in BOOLEAN, DeadlineFires(c, l, h)
      PROVE  \E new \in CallRow :
               call' = [call EXCEPT ![c] = new] /\ RowInv(new, now) /\ now' = now
  <2> DEFINE fires == Fires(row, l, h)
             new == [fires EXCEPT !.timedOut = TRUE, !.watcher = "done"]
  <2>1. call' = [call EXCEPT ![c] = new] /\ now' = now
    BY <1>2 DEF DeadlineFires
  <2>2. row.watcher = "armed" /\ row.deadline <= now
    BY <1>2 DEF DeadlineFires
  <2>3. fires \in CallRow
    BY <1>1, FiresType
  <2>4. /\ fires.pc = row.pc /\ fires.verdict = row.verdict /\ fires.old = row.old
        /\ fires.deadline = row.deadline /\ fires.watcher = row.watcher
        /\ fires.timedOut = row.timedOut /\ fires.ctxDone = row.ctxDone
        /\ fires.exec = row.exec
        /\ fires.leader = row.leader \/ (row.leader = "alive" /\ fires.leader = "signal")
        /\ fires.ours => row.ours \/ row.leader = "alive"
    BY <1>1, FiresFrame
  <2> HIDE DEF fires, row
  <2>5. new \in CallRow
    BY <2>3 DEF CallRow
  <2>6. /\ new.pc = row.pc /\ new.verdict = row.verdict /\ new.old = row.old
        /\ new.deadline = row.deadline /\ new.ctxDone = row.ctxDone
        /\ new.timedOut /\ new.watcher = "done" /\ new.exec = row.exec
        /\ new.leader = row.leader \/ (row.leader = "alive" /\ new.leader = "signal")
        /\ new.ours => row.ours \/ row.leader = "alive"
    BY <2>3, <2>4 DEF CallRow
  <2>7. /\ row.deadline \in Nat
        /\ row.pc \notin {"prepare", "lock", "start", "group"}
        /\ row.exec = "delay" => row.ctxDone
    BY <1>1, <2>2 DEF RowInv, Timed, Excused
  <2> HIDE DEF new
  <2>8. RowInv(new, now)
    BY <1>1, <2>2, <2>5, <2>6, <2>7, SignalledRow
  <2> QED BY <2>1, <2>5, <2>8
<1>3. CASE WatcherLeaves(c)
  <2> DEFINE new == [row EXCEPT !.watcher = "done"]
  <2>1. call' = [call EXCEPT ![c] = new] /\ now' = now /\ row.watcher = "armed"
    BY <1>1, <1>3 DEF WatcherLeaves, RunnerInv, RTypeOK
  <2> HIDE DEF row
  <2>2. new \in CallRow
    BY <1>1 DEF CallRow
  <2>3. RowInv(new, now)
    <3>1. /\ new.pc = row.pc /\ new.verdict = row.verdict /\ new.old = row.old
          /\ new.deadline = row.deadline /\ new.ctxDone = row.ctxDone
          /\ new.timedOut = row.timedOut /\ new.watcher = "done" /\ new.exec = row.exec
          /\ new.leader = row.leader /\ new.ours = row.ours /\ new.killAt = row.killAt
      BY <1>1 DEF CallRow
    <3> HIDE DEF new
    <3> QED BY <1>1, <2>1, <3>1 DEF RowInv, Phased, Backed, Excused, Timed
  <2> QED BY <2>1, <2>2, <2>3
<1> QED BY <1>2, <1>3 DEF Watches

\* What the escalation does keeps the invariant of the row.
LEMMA EscalatesRow ==
    ASSUME RunnerInv, NEW c \in Call, Escalates(c)
    PROVE  \E row \in CallRow :
             call' = [call EXCEPT ![c] = row] /\ RowInv(row, now) /\ now' = now
<1> DEFINE row == call[c]
<1>1. row \in CallRow /\ RowInv(row, now) /\ now \in Nat
  BY DEF RunnerInv, RTypeOK
<1>2. CASE Escalate(c)
  <2> DEFINE killed == AfterTerm(row, TRUE, TRUE)
             sent == Append(row.sent, [sig |-> "KILL", at |-> now])
             new == [killed EXCEPT !.killAt = NULL, !.sent = sent]
  <2>1. call' = [call EXCEPT ![c] = new] /\ now' = now /\ row.killAt # NULL
    BY <1>2 DEF Escalate, AfterKill
  <2>2. killed \in CallRow /\ sent \in Seq(Sends)
    BY <1>1, AfterTermType, SentType
  <2>3. /\ killed.pc = row.pc /\ killed.verdict = row.verdict /\ killed.old = row.old
        /\ killed.deadline = row.deadline /\ killed.watcher = row.watcher
        /\ killed.timedOut = row.timedOut /\ killed.ctxDone = row.ctxDone
        /\ killed.exec = row.exec
        /\ killed.leader = row.leader \/ (row.leader = "alive" /\ killed.leader = "signal")
        /\ killed.ours => row.ours \/ row.leader = "alive"
    <3>1. \A l, h \in BOOLEAN : \A out : out = AfterTerm(row, l, h) =>
            /\ out.pc = row.pc /\ out.verdict = row.verdict /\ out.old = row.old
            /\ out.deadline = row.deadline /\ out.watcher = row.watcher
            /\ out.timedOut = row.timedOut /\ out.ctxDone = row.ctxDone
            /\ out.exec = row.exec
            /\ out.leader = row.leader \/ (row.leader = "alive" /\ out.leader = "signal")
            /\ out.ours => row.ours \/ row.leader = "alive"
      BY <1>1, AfterTermFrame
    <3>2. TRUE \in BOOLEAN /\ killed = AfterTerm(row, TRUE, TRUE)
      OBVIOUS
    <3> HIDE DEF killed
    <3> QED BY <3>1, <3>2
  <2> HIDE DEF killed, sent, row
  <2>4. new \in CallRow
    BY <2>2 DEF CallRow
  <2>5. /\ new.pc = row.pc /\ new.verdict = row.verdict /\ new.old = row.old
        /\ new.deadline = row.deadline /\ new.ctxDone = row.ctxDone
        /\ new.timedOut = row.timedOut /\ new.watcher = row.watcher /\ new.exec = row.exec
        /\ new.leader = row.leader \/ (row.leader = "alive" /\ new.leader = "signal")
        /\ new.ours => row.ours \/ row.leader = "alive"
    BY <2>2, <2>3 DEF CallRow
  <2> HIDE DEF new
  <2>6. /\ row.timedOut \/ row.ctxDone
        /\ row.exec = "delay" => row.ctxDone
        /\ row.watcher # "none" => row.deadline \in Nat
        /\ row.timedOut => row.watcher # "none" /\ row.deadline <= now
        /\ row.pc \in {"prepare", "lock", "start", "group"} => row.watcher = "none"
    BY <1>1, <2>1 DEF RowInv, Timed, Excused
  <2>7. RowInv(new, now)
    BY <1>1, <2>4, <2>5, <2>6, SignalledRow
  <2> QED BY <2>1, <2>4, <2>7
<1>3. CASE EscalationLeaves(c)
  <2> DEFINE new == [row EXCEPT !.killAt = NULL]
  <2>1. call' = [call EXCEPT ![c] = new] /\ now' = now
    BY <1>1, <1>3 DEF EscalationLeaves, RunnerInv, RTypeOK
  <2> HIDE DEF row
  <2>2. new \in CallRow
    BY <1>1 DEF CallRow
  <2>3. RowInv(new, now)
    <3>1. /\ new.pc = row.pc /\ new.verdict = row.verdict /\ new.old = row.old
          /\ new.deadline = row.deadline /\ new.ctxDone = row.ctxDone
          /\ new.timedOut = row.timedOut /\ new.watcher = row.watcher /\ new.exec = row.exec
          /\ new.leader = row.leader /\ new.ours = row.ours /\ new.killAt = NULL
      BY <1>1 DEF CallRow
    <3> HIDE DEF new
    <3> QED BY <1>1, <3>1 DEF RowInv, Phased, Backed, Excused, Timed
  <2> QED BY <2>1, <2>2, <2>3
<1> QED BY <1>2, <1>3 DEF Escalates

\* What os/exec does keeps the invariant of the row.
LEMMA ExecsRow ==
    ASSUME RunnerInv, NEW c \in Call, Execs(c)
    PROVE  \E row \in CallRow :
             call' = [call EXCEPT ![c] = row] /\ RowInv(row, now) /\ now' = now
<1> DEFINE row == call[c]
<1>1. row \in CallRow /\ RowInv(row, now) /\ now \in Nat
  BY DEF RunnerInv, RTypeOK
<1>2. ASSUME NEW l \in BOOLEAN, NEW h \in BOOLEAN, ExecCancel(c, l, h)
      PROVE  \E new \in CallRow :
               call' = [call EXCEPT ![c] = new] /\ RowInv(new, now) /\ now' = now
  <2> DEFINE fires == Fires(row, l, h)
             new == [fires EXCEPT !.exec = "delay", !.delayEnd = now + Grace]
  <2>1. call' = [call EXCEPT ![c] = new] /\ now' = now /\ row.ctxDone
    BY <1>2 DEF ExecCancel
  <2>3. fires \in CallRow
    BY <1>1, FiresType
  <2>4. /\ fires.pc = row.pc /\ fires.verdict = row.verdict /\ fires.old = row.old
        /\ fires.deadline = row.deadline /\ fires.watcher = row.watcher
        /\ fires.timedOut = row.timedOut /\ fires.ctxDone = row.ctxDone
        /\ fires.leader = row.leader \/ (row.leader = "alive" /\ fires.leader = "signal")
        /\ fires.ours => row.ours \/ row.leader = "alive"
    BY <1>1, FiresFrame
  <2> HIDE DEF fires, row
  <2>5. new \in CallRow
    <3>1. \A t \in Nat \union {NULL} :
            [fires EXCEPT !.exec = "delay", !.delayEnd = t] \in CallRow
      BY <2>3 DEF CallRow
    <3>2. now + Grace \in Nat
      BY <1>1, RunnerAssumption
    <3> QED BY <3>1, <3>2
  <2>6. /\ new.pc = row.pc /\ new.verdict = row.verdict /\ new.old = row.old
        /\ new.deadline = row.deadline /\ new.watcher = row.watcher
        /\ new.timedOut = row.timedOut /\ new.ctxDone = row.ctxDone
        /\ new.leader = row.leader \/ (row.leader = "alive" /\ new.leader = "signal")
        /\ new.ours => row.ours \/ row.leader = "alive"
    BY <2>3, <2>4 DEF CallRow
  <2>7. /\ row.ctxDone
        /\ row.watcher # "none" => row.deadline \in Nat
        /\ row.timedOut => row.watcher # "none" /\ row.deadline <= now
        /\ row.pc \in {"prepare", "lock", "start", "group"} => row.watcher = "none"
    BY <1>1, <2>1 DEF RowInv, Timed, Excused
  <2> HIDE DEF new
  <2>8. RowInv(new, now)
    BY <1>1, <2>5, <2>6, <2>7, SignalledRow
  <2> QED BY <2>1, <2>5, <2>8
<1>3. CASE ExecKill(c)
  <2> DEFINE killed == AfterTerm(row, TRUE, FALSE)
             new == [killed EXCEPT !.exec = "gone"]
  <2>1. call' = [call EXCEPT ![c] = new] /\ now' = now /\ row.exec = "delay"
    BY <1>3 DEF ExecKill
  <2>3. killed \in CallRow
    BY <1>1, AfterTermType
  <2>4. /\ killed.pc = row.pc /\ killed.verdict = row.verdict /\ killed.old = row.old
        /\ killed.deadline = row.deadline /\ killed.watcher = row.watcher
        /\ killed.timedOut = row.timedOut /\ killed.ctxDone = row.ctxDone
        /\ killed.leader = row.leader \/ (row.leader = "alive" /\ killed.leader = "signal")
        /\ killed.ours => row.ours \/ row.leader = "alive"
    <3>1. \A l, h \in BOOLEAN : \A out : out = AfterTerm(row, l, h) =>
            /\ out.pc = row.pc /\ out.verdict = row.verdict /\ out.old = row.old
            /\ out.deadline = row.deadline /\ out.watcher = row.watcher
            /\ out.timedOut = row.timedOut /\ out.ctxDone = row.ctxDone
            /\ out.leader = row.leader \/ (row.leader = "alive" /\ out.leader = "signal")
            /\ out.ours => row.ours \/ row.leader = "alive"
      BY <1>1, AfterTermFrame
    <3>2. TRUE \in BOOLEAN /\ FALSE \in BOOLEAN /\ killed = AfterTerm(row, TRUE, FALSE)
      OBVIOUS
    <3> HIDE DEF killed
    <3> QED BY <3>1, <3>2
  <2> HIDE DEF killed, row
  <2>5. new \in CallRow
    BY <2>3 DEF CallRow
  <2>6. /\ new.pc = row.pc /\ new.verdict = row.verdict /\ new.old = row.old
        /\ new.deadline = row.deadline /\ new.watcher = row.watcher
        /\ new.timedOut = row.timedOut /\ new.ctxDone = row.ctxDone
        /\ new.leader = row.leader \/ (row.leader = "alive" /\ new.leader = "signal")
        /\ new.ours => row.ours \/ row.leader = "alive"
        /\ new.exec = "gone"
    BY <2>3, <2>4 DEF CallRow
  <2>7. /\ row.ctxDone
        /\ row.watcher # "none" => row.deadline \in Nat
        /\ row.timedOut => row.watcher # "none" /\ row.deadline <= now
        /\ row.pc \in {"prepare", "lock", "start", "group"} => row.watcher = "none"
    BY <1>1, <2>1 DEF RowInv, Timed, Excused
  <2> HIDE DEF new
  <2>8. RowInv(new, now)
    BY <1>1, <2>5, <2>6, <2>7, SignalledRow
  <2> QED BY <2>1, <2>5, <2>8
<1> QED BY <1>2, <1>3 DEF Execs

\* What the caller, the job and the rest of the world do keeps it too.
LEMMA WorldRow ==
    ASSUME RunnerInv, NEW c \in Call, World(c)
    PROVE  \E row \in CallRow :
             call' = [call EXCEPT ![c] = row] /\ RowInv(row, now) /\ now' = now
<1> DEFINE row == call[c]
<1>1. row \in CallRow /\ RowInv(row, now) /\ now \in Nat /\ call \in [Call -> CallRow]
  BY DEF RunnerInv, RTypeOK
<1>2. CASE Cancel(c)
  <2> DEFINE new == [row EXCEPT !.ctxDone = TRUE]
  <2>1. call' = [call EXCEPT ![c] = new] /\ now' = now
    BY <1>1, <1>2 DEF Cancel
  <2> HIDE DEF row
  <2>2. new \in CallRow
    BY <1>1 DEF CallRow
  <2>3. RowInv(new, now)
    <3>1. /\ new.pc = row.pc /\ new.verdict = row.verdict /\ new.old = row.old
          /\ new.deadline = row.deadline /\ new.watcher = row.watcher
          /\ new.timedOut = row.timedOut /\ new.ctxDone = TRUE /\ new.exec = row.exec
          /\ new.leader = row.leader /\ new.ours = row.ours /\ new.killAt = row.killAt
      BY <1>1 DEF CallRow
    <3> HIDE DEF new
    <3> QED BY <1>1, <3>1 DEF RowInv, Phased, Backed, Excused, Timed
  <2> QED BY <2>1, <2>2, <2>3
<1>3. ASSUME NEW kind \in Helpers, LeaveHelper(c, kind)
      PROVE  \E new \in CallRow :
               call' = [call EXCEPT ![c] = new] /\ RowInv(new, now) /\ now' = now
  <2> DEFINE new == [row EXCEPT !.helper = kind]
  <2>1. call' = [call EXCEPT ![c] = new] /\ now' = now
    BY <1>1, <1>3 DEF LeaveHelper
  <2> HIDE DEF row
  <2>2. new \in CallRow
    BY <1>1 DEF CallRow
  <2>3. RowInv(new, now)
    <3>1. /\ new.pc = row.pc /\ new.verdict = row.verdict /\ new.old = row.old
          /\ new.deadline = row.deadline /\ new.watcher = row.watcher
          /\ new.timedOut = row.timedOut /\ new.ctxDone = row.ctxDone /\ new.exec = row.exec
          /\ new.leader = row.leader /\ new.ours = row.ours /\ new.killAt = row.killAt
      BY <1>1 DEF CallRow
    <3> HIDE DEF new
    <3> QED BY <1>1, <3>1 DEF RowInv, Phased, Backed, Excused, Timed
  <2> QED BY <2>1, <2>2, <2>3
<1>4. ASSUME NEW end \in Ends, LeaderEnds(c, end)
      PROVE  \E new \in CallRow :
               call' = [call EXCEPT ![c] = new] /\ RowInv(new, now) /\ now' = now
  <2> DEFINE new == [row EXCEPT !.leader = end]
  <2>1. call' = [call EXCEPT ![c] = new] /\ now' = now /\ row.leader = "alive"
    BY <1>1, <1>4 DEF LeaderEnds
  <2> HIDE DEF row
  <2>2. new \in CallRow
    BY <1>1 DEF CallRow, Leaders
  <2>3. RowInv(new, now)
    <3>1. /\ new.pc = row.pc /\ new.verdict = row.verdict /\ new.old = row.old
          /\ new.deadline = row.deadline /\ new.watcher = row.watcher
          /\ new.timedOut = row.timedOut /\ new.ctxDone = row.ctxDone /\ new.exec = row.exec
          /\ new.leader = end /\ new.ours = row.ours /\ new.killAt = row.killAt
      BY <1>1 DEF CallRow
    <3>2. row.verdict = NULL /\ row.pc \notin {"prepare", "lock", "start"}
      BY <1>1, <2>1 DEF RowInv, Backed, Phased
    <3>3. NULL \notin {"TimedOut", "Cancelled", "Signalled"}
      BY RunnerAssumption DEF Verdicts
    <3> HIDE DEF new
    <3> QED BY <1>1, <1>4, <3>1, <3>2, <3>3 DEF RowInv, Phased, Backed, Excused, Timed
  <2> QED BY <2>1, <2>2, <2>3
<1> QED BY <1>2, <1>3, <1>4 DEF World

\* A row with the invariant, put in the place of another, leaves every row with it.
LEMMA RowsInv ==
    ASSUME RunnerInv, NEW c \in Call, NEW row \in CallRow, RowInv(row, now),
           call' = [call EXCEPT ![c] = row], now' = now,
           mutex' \in Call \union {NULL}, limit' \in {0, OwnLimit},
           mutex' = NULL => limit' = OwnLimit
    PROVE  RunnerInv'
<1>1. call' \in [Call -> CallRow]
  BY RowsTyped DEF RunnerInv
<1>2. RTypeOK'
  BY <1>1 DEF RTypeOK, RunnerInv
<1>3. \A d \in Call : RowInv(call'[d], now')
  BY DEF RunnerInv, RTypeOK
<1> QED BY <1>2, <1>3 DEF RunnerInv

LEMMA RunnerInvInit == RInit => RunnerInv
<1> SUFFICES ASSUME RInit PROVE RunnerInv
  OBVIOUS
<1> USE DEF RInit
<1>1. Fresh \in CallRow
  BY RunnerAssumption DEF Fresh, CallRow, Leaders, Helpers, Verdicts
<1>2. RowInv(Fresh, 0)
  BY RunnerAssumption DEF Fresh, RowInv, Phased, Backed, Excused, Timed, Verdicts
<1>3. RTypeOK
  BY <1>1 DEF RTypeOK, OwnLimit
<1> QED BY <1>2, <1>3 DEF RunnerInv

LEMMA RunnerInvNext == RunnerInv /\ [RNext]_rvars => RunnerInv'
<1> SUFFICES ASSUME RunnerInv, [RNext]_rvars PROVE RunnerInv'
  OBVIOUS
<1>0. /\ mutex \in Call \union {NULL} /\ limit \in {0, OwnLimit}
      /\ mutex = NULL => limit = OwnLimit
  BY DEF RunnerInv, RTypeOK
<1>1. CASE RTick
  <2>1. RTypeOK'
    BY <1>1 DEF RTick, RunnerInv, RTypeOK
  <2>2. ASSUME NEW c \in Call PROVE RowInv(call[c], now + 1)
    <3>1. call[c] \in CallRow /\ now \in Nat /\ RowInv(call[c], now)
      BY DEF RunnerInv, RTypeOK
    <3>2. Timed(call[c], now + 1)
      BY <3>1 DEF RowInv, Timed
    <3> QED BY <3>1, <3>2 DEF RowInv
  <2> QED BY <1>1, <2>1, <2>2 DEF RTick, RunnerInv
<1>2. ASSUME NEW c \in Call, Works(c) PROVE RunnerInv'
  BY <1>2, WorksRow, RowsInv
<1>3. ASSUME NEW c \in Call, Watches(c) \/ Escalates(c) \/ Execs(c) \/ World(c)
      PROVE  mutex' = mutex /\ limit' = limit
  BY <1>3 DEF Watches, DeadlineFires, WatcherLeaves, Escalates, Escalate, EscalationLeaves,
              Execs, ExecCancel, ExecKill, World, Cancel, LeaveHelper, LeaderEnds
<1>4. ASSUME NEW c \in Call, Watches(c) \/ Escalates(c) \/ Execs(c) \/ World(c)
      PROVE  RunnerInv'
  <2>1. \E row \in CallRow :
          call' = [call EXCEPT ![c] = row] /\ RowInv(row, now) /\ now' = now
    BY <1>4, WatchesRow, EscalatesRow, ExecsRow, WorldRow
  <2>2. mutex' = mutex /\ limit' = limit
    BY <1>3, <1>4
  <2> QED BY <1>0, <2>1, <2>2, RowsInv
<1>5. CASE UNCHANGED rvars
  BY <1>5 DEF rvars, RunnerInv, RTypeOK
<1> QED BY <1>1, <1>2, <1>4, <1>5 DEF RNext

THEOREM RunnerInvariant == RSpec => []RunnerInv
<1> QED BY RunnerInvInit, RunnerInvNext, PTL DEF RSpec

\* Type correctness: every reachable state of Runner is well typed.
THEOREM RTypeCorrect == RSpec => []RTypeOK
<1>1. RunnerInv => RTypeOK
  BY DEF RunnerInv
<1> QED BY <1>1, RunnerInvariant, PTL

\* However many calls run at once, and however they fail, the process' own core
\* limit is in place whenever no call is inside the window coreLimitMu guards.
THEOREM CoreLimitIsRestored == RSpec => []CoreLimitComesBack
<1>1. RunnerInv => CoreLimitComesBack
  BY DEF RunnerInv, CoreLimitComesBack
<1> QED BY <1>1, RunnerInvariant, PTL

\* Every verdict of Run has its evidence, whatever races with the exit: an exit
\* status wins, a timeout has a deadline that passed, a cancellation a context
\* that ended, and a signal that is reported as foreign is not the runner's own.
THEOREM VerdictsAreEvidenced == RSpec => []VerdictHasEvidence
<1>1. RunnerInv => VerdictHasEvidence
  <2> SUFFICES ASSUME RunnerInv, NEW c \in Call
               PROVE  LET row == call[c] IN
                 /\ row.verdict = "Succeeded" <=> (row.verdict # NULL /\ row.leader = "exit 0")
                 /\ row.verdict = "Failed" <=> (row.verdict # NULL /\ row.leader = "exit N")
                 /\ row.verdict = "SpawnFailed" <=> (row.verdict # NULL /\ row.leader = "none")
                 /\ row.verdict = "TimedOut" => row.deadline <= now
                 /\ row.verdict = "Cancelled" => row.ctxDone
                 /\ row.verdict = "Signalled" => ~row.ours
    BY DEF VerdictHasEvidence
  <2>1. NULL \notin Verdicts
    BY RunnerAssumption
  <2>2. RowInv(call[c], now)
    BY DEF RunnerInv
  <2> QED BY <2>1, <2>2 DEF RowInv, Backed, Timed, Verdicts
<1> QED BY <1>1, RunnerInvariant, PTL

-----------------------------------------------------------------------------
(* The signals, and what a call leaves behind. *)

\* What was sent, against the channels and the timer of the escalation.
Ordered(row) ==
    /\ ~row.fired => row.sent = << >> /\ row.killAt = NULL
    /\ row.killAt # NULL => Len(row.sent) = 1 /\ row.killAt = row.sent[1].at + Grace
    /\ Len(row.sent) <= 2
    /\ Len(row.sent) >= 1 => row.sent[1].sig = "TERM"
    /\ Len(row.sent) = 2 =>
          row.sent[2].sig = "KILL" /\ row.sent[2].at >= row.sent[1].at + Grace

\* Program point against the goroutines: none acts before Start, os/exec is gone
\* once Wait has returned, the watcher once it was joined.
Quits(row) ==
    /\ row.pc \in {"prepare", "lock", "start"} => row.exec = "none" /\ row.killAt = NULL
    /\ row.pc \in {"drain", "reaped", "stop", "watcher", "classify"} => row.exec = "gone"
    /\ row.pc = "classify" => row.watcher = "done"
    /\ row.pc \in {"defer", "returned"} =>
          row.exec \in {"none", "gone"} /\ row.watcher # "armed" /\ row.leader # "alive"
    /\ row.pc = "returned" => row.killAt = NULL

\* The core limit is held from the lock to the end of Wait.
Window(row) == row.pc \in {"start", "group", "wait", "handover", "drain", "reaped"}

EndInv == \A c \in Call :
    Ordered(call[c]) /\ Quits(call[c]) /\ (mutex = c => Window(call[c]))

LEMMA AfterTermKeeps ==
    ASSUME NEW row \in CallRow, NEW l \in BOOLEAN, NEW h \in BOOLEAN,
           NEW out, out = AfterTerm(row, l, h)
    PROVE  /\ out.fired = row.fired /\ out.sent = row.sent /\ out.killAt = row.killAt
           /\ out.pc = row.pc /\ out.exec = row.exec /\ out.watcher = row.watcher
           /\ out.leader = "alive" => row.leader = "alive"
BY DEF AfterTerm, CallRow

\* The first trigger sends the TERM and starts the grace period, a later one does
\* nothing.
LEMMA FiresKeeps ==
    ASSUME NEW row \in CallRow, NEW l \in BOOLEAN, NEW h \in BOOLEAN, now \in Nat,
           Ordered(row), NEW out, out = Fires(row, l, h)
    PROVE  /\ Ordered(out)
           /\ out.pc = row.pc /\ out.exec = row.exec /\ out.watcher = row.watcher
           /\ out.leader = "alive" => row.leader = "alive"
<1>1. CASE row.fired
  BY <1>1 DEF Fires
<1>2. CASE ~row.fired /\ ~row.group
  BY <1>2 DEF Fires, CallRow, Ordered
<1>3. CASE ~row.fired /\ row.group
  <2> DEFINE termed == AfterTerm(row, l, h)
             sent == Append(row.sent, [sig |-> "TERM", at |-> now])
  <2>1. out = [termed EXCEPT !.fired = TRUE, !.killAt = now + Grace, !.sent = sent]
    BY <1>3 DEF Fires
  <2>2. termed \in CallRow
    BY AfterTermType
  <2>3. /\ termed.pc = row.pc /\ termed.exec = row.exec /\ termed.watcher = row.watcher
        /\ termed.leader = "alive" => row.leader = "alive"
    BY AfterTermKeeps
  <2>4. Len(sent) = 1 /\ sent[1].sig = "TERM" /\ sent[1].at = now
    BY <1>3 DEF Ordered
  <2> HIDE DEF termed, sent
  <2>5. /\ out.fired /\ out.killAt = now + Grace /\ out.sent = sent
        /\ out.pc = termed.pc /\ out.exec = termed.exec /\ out.watcher = termed.watcher
        /\ out.leader = termed.leader
    BY <2>1, <2>2 DEF CallRow
  <2>6. Ordered(out)
    <3>1. Grace \in Nat /\ now + Grace = sent[1].at + Grace
      BY <2>4, RunnerAssumption
    <3>2. Len(out.sent) = 1 /\ out.sent[1].sig = "TERM" /\ out.killAt = out.sent[1].at + Grace
      BY <2>4, <2>5, <3>1
    <3> QED BY <2>5, <3>2 DEF Ordered
  <2> QED BY <2>3, <2>5, <2>6
<1> QED BY <1>1, <1>2, <1>3

\* One row was replaced by one that keeps its part; who holds the lock did not
\* change, unless call c took it or gave it back.
LEMMA EndRows ==
    ASSUME RunnerInv, EndInv, NEW c \in Call, NEW row, call' = [call EXCEPT ![c] = row],
           Ordered(row), Quits(row), mutex' = c => Window(row),
           mutex' \in {mutex, c, NULL}
    PROVE  EndInv'
<1>1. call \in [Call -> CallRow] /\ NULL \notin Call
  BY RunnerAssumption DEF RunnerInv, RTypeOK
<1>2. call'[c] = row /\ \A d \in Call \ {c} : call'[d] = call[d]
  BY <1>1
<1>3. ASSUME NEW d \in Call
      PROVE  Ordered(call'[d]) /\ Quits(call'[d]) /\ (mutex' = d => Window(call'[d]))
  BY <1>1, <1>2 DEF EndInv
<1> QED BY <1>3 DEF EndInv

\* What Run does: it sends nothing, so only its program point matters.
LEMMA WorksEnd ==
    ASSUME RunnerInv, EndInv, NEW c \in Call, Works(c)
    PROVE  EndInv'
<1> DEFINE row == call[c]
<1>1. row \in CallRow /\ RowInv(row, now) /\ Ordered(row) /\ Quits(row)
      /\ (mutex = c => Window(row))
  BY DEF RunnerInv, RTypeOK, EndInv
<1>2. NULL \notin Call
  BY RunnerAssumption
<1> HIDE DEF row
<1>3. CASE PrepareFails(c)
  <2> DEFINE new == [row EXCEPT !.pc = "returned", !.verdict = "SpawnFailed"]
  <2>1. /\ call' = [call EXCEPT ![c] = new] /\ row.pc = "prepare"
        /\ mutex' = mutex
    BY <1>2, <1>3 DEF PrepareFails, Moves, row
  <2>2. /\ new.pc = "returned" /\ new.exec = row.exec /\ new.watcher = row.watcher
        /\ new.leader = row.leader /\ new.fired = row.fired /\ new.killAt = row.killAt /\ new.sent = row.sent
    BY <1>1 DEF CallRow
  <2> HIDE DEF new
  <2>3. Ordered(new)
    BY <1>1, <2>2 DEF Ordered
  <2>4. Quits(new) /\ (mutex' = c => Window(new))
    BY <1>1, <1>2, <2>1, <2>2 DEF Quits, Ordered, Window, RowInv, Phased, Timed, Ends
  <2> QED BY <2>1, <2>3, <2>4, EndRows
<1>4. CASE Arm(c)
  <2> DEFINE new == [row EXCEPT !.pc = "lock", !.deadline = now + Timeout]
  <2>1. /\ call' = [call EXCEPT ![c] = new] /\ row.pc = "prepare"
        /\ mutex' = mutex
    BY <1>2, <1>4 DEF Arm, Moves, row
  <2>2. /\ new.pc = "lock" /\ new.exec = row.exec /\ new.watcher = row.watcher
        /\ new.leader = row.leader /\ new.fired = row.fired /\ new.killAt = row.killAt /\ new.sent = row.sent
    BY <1>1 DEF CallRow
  <2> HIDE DEF new
  <2>3. Ordered(new)
    BY <1>1, <2>2 DEF Ordered
  <2>4. Quits(new) /\ (mutex' = c => Window(new))
    BY <1>1, <1>2, <2>1, <2>2 DEF Quits, Ordered, Window, RowInv, Phased, Timed, Ends
  <2> QED BY <2>1, <2>3, <2>4, EndRows
<1>5. CASE ZeroCoreLimit(c)
  <2> DEFINE new == [row EXCEPT !.pc = "start", !.old = limit]
  <2>1. /\ call' = [call EXCEPT ![c] = new] /\ row.pc = "lock"
        /\ mutex' = c
    BY <1>2, <1>5 DEF ZeroCoreLimit, Moves, row
  <2>2. /\ new.pc = "start" /\ new.exec = row.exec /\ new.watcher = row.watcher
        /\ new.leader = row.leader /\ new.fired = row.fired /\ new.killAt = row.killAt /\ new.sent = row.sent
    BY <1>1 DEF CallRow
  <2> HIDE DEF new
  <2>3. Ordered(new)
    BY <1>1, <2>2 DEF Ordered
  <2>4. Quits(new) /\ (mutex' = c => Window(new))
    BY <1>1, <1>2, <2>1, <2>2 DEF Quits, Ordered, Window, RowInv, Phased, Timed, Ends
  <2> QED BY <2>1, <2>3, <2>4, EndRows
<1>6. CASE CoreLimitRefused(c)
  <2> DEFINE new == [row EXCEPT !.pc = "start"]
  <2>1. /\ call' = [call EXCEPT ![c] = new] /\ row.pc = "lock"
        /\ mutex' = mutex
    BY <1>2, <1>6 DEF CoreLimitRefused, Moves, row
  <2>2. /\ new.pc = "start" /\ new.exec = row.exec /\ new.watcher = row.watcher
        /\ new.leader = row.leader /\ new.fired = row.fired /\ new.killAt = row.killAt /\ new.sent = row.sent
    BY <1>1 DEF CallRow
  <2> HIDE DEF new
  <2>3. Ordered(new)
    BY <1>1, <2>2 DEF Ordered
  <2>4. Quits(new) /\ (mutex' = c => Window(new))
    BY <1>1, <1>2, <2>1, <2>2 DEF Quits, Ordered, Window, RowInv, Phased, Timed, Ends
  <2> QED BY <2>1, <2>3, <2>4, EndRows
<1>7. CASE StartFails(c)
  <2> DEFINE new == [row EXCEPT !.pc = "defer", !.verdict = "SpawnFailed", !.done = TRUE]
  <2>1. /\ call' = [call EXCEPT ![c] = new] /\ row.pc = "start"
        /\ mutex' \in {mutex, NULL} /\ mutex' # c
    BY <1>2, <1>7 DEF StartFails, Moves, row, ReleaseCoreLimit
  <2>2. /\ new.pc = "defer" /\ new.exec = row.exec /\ new.watcher = row.watcher
        /\ new.leader = row.leader /\ new.fired = row.fired /\ new.killAt = row.killAt /\ new.sent = row.sent
    BY <1>1 DEF CallRow
  <2> HIDE DEF new
  <2>3. Ordered(new)
    BY <1>1, <2>2 DEF Ordered
  <2>4. Quits(new) /\ (mutex' = c => Window(new))
    BY <1>1, <1>2, <2>1, <2>2 DEF Quits, Ordered, Window, RowInv, Phased, Timed, Ends
  <2> QED BY <2>1, <2>3, <2>4, EndRows
<1>8. CASE StartProcess(c)
  <2> DEFINE new == [row EXCEPT !.pc = "group", !.leader = "alive", !.exec = "armed"]
  <2>1. /\ call' = [call EXCEPT ![c] = new] /\ row.pc = "start"
        /\ mutex' = mutex
    BY <1>2, <1>8 DEF StartProcess, Moves, row
  <2>2. /\ new.pc = "group" /\ new.exec = "armed" /\ new.watcher = row.watcher
        /\ new.leader = "alive" /\ new.fired = row.fired /\ new.killAt = row.killAt /\ new.sent = row.sent
    BY <1>1 DEF CallRow
  <2> HIDE DEF new
  <2>3. Ordered(new)
    BY <1>1, <2>2 DEF Ordered
  <2>4. Quits(new) /\ (mutex' = c => Window(new))
    BY <1>1, <1>2, <2>1, <2>2 DEF Quits, Ordered, Window, RowInv, Phased, Timed, Ends
  <2> QED BY <2>1, <2>3, <2>4, EndRows
<1>9. CASE SetGroup(c)
  <2> DEFINE new == [row EXCEPT !.pc = "wait", !.group = TRUE, !.watcher = "armed"]
  <2>1. /\ call' = [call EXCEPT ![c] = new] /\ row.pc = "group"
        /\ mutex' = mutex
    BY <1>2, <1>9 DEF SetGroup, Moves, row
  <2>2. /\ new.pc = "wait" /\ new.exec = row.exec /\ new.watcher = "armed"
        /\ new.leader = row.leader /\ new.fired = row.fired /\ new.killAt = row.killAt /\ new.sent = row.sent
    BY <1>1 DEF CallRow
  <2> HIDE DEF new
  <2>3. Ordered(new)
    BY <1>1, <2>2 DEF Ordered
  <2>4. Quits(new) /\ (mutex' = c => Window(new))
    BY <1>1, <1>2, <2>1, <2>2 DEF Quits, Ordered, Window, RowInv, Phased, Timed, Ends
  <2> QED BY <2>1, <2>3, <2>4, EndRows
<1>10. CASE Reap(c)
  <2> DEFINE new == [row EXCEPT !.pc = "handover"]
  <2>1. /\ call' = [call EXCEPT ![c] = new] /\ row.pc = "wait"
        /\ mutex' = mutex
    BY <1>2, <1>10 DEF Reap, Moves, row
  <2>2. /\ new.pc = "handover" /\ new.exec = row.exec /\ new.watcher = row.watcher
        /\ new.leader = row.leader /\ new.fired = row.fired /\ new.killAt = row.killAt /\ new.sent = row.sent
    BY <1>1 DEF CallRow
  <2> HIDE DEF new
  <2>3. Ordered(new)
    BY <1>1, <2>2 DEF Ordered
  <2>4. Quits(new) /\ (mutex' = c => Window(new))
    BY <1>1, <1>2, <2>1, <2>2 DEF Quits, Ordered, Window, RowInv, Phased, Timed, Ends
  <2> QED BY <2>1, <2>3, <2>4, EndRows
<1>11. CASE HandOver(c)
  <2> DEFINE new == [row EXCEPT !.pc = "drain", !.exec = "gone",
                 !.delayEnd = IF @ = NULL THEN now + Grace ELSE @]
  <2>1. /\ call' = [call EXCEPT ![c] = new] /\ row.pc = "handover"
        /\ mutex' = mutex
    BY <1>2, <1>11 DEF HandOver, Moves, row
  <2>2. /\ new.pc = "drain" /\ new.exec = "gone" /\ new.watcher = row.watcher
        /\ new.leader = row.leader /\ new.fired = row.fired /\ new.killAt = row.killAt /\ new.sent = row.sent
    BY <1>1 DEF CallRow
  <2> HIDE DEF new
  <2>3. Ordered(new)
    BY <1>1, <2>2 DEF Ordered
  <2>4. Quits(new) /\ (mutex' = c => Window(new))
    BY <1>1, <1>2, <2>1, <2>2 DEF Quits, Ordered, Window, RowInv, Phased, Timed, Ends
  <2> QED BY <2>1, <2>3, <2>4, EndRows
<1>12. CASE Drain(c)
  <2> DEFINE new == [row EXCEPT !.pc = "reaped"]
  <2>1. /\ call' = [call EXCEPT ![c] = new] /\ row.pc = "drain"
        /\ mutex' = mutex
    BY <1>2, <1>12 DEF Drain, Moves, row
  <2>2. /\ new.pc = "reaped" /\ new.exec = row.exec /\ new.watcher = row.watcher
        /\ new.leader = row.leader /\ new.fired = row.fired /\ new.killAt = row.killAt /\ new.sent = row.sent
    BY <1>1 DEF CallRow
  <2> HIDE DEF new
  <2>3. Ordered(new)
    BY <1>1, <2>2 DEF Ordered
  <2>4. Quits(new) /\ (mutex' = c => Window(new))
    BY <1>1, <1>2, <2>1, <2>2 DEF Quits, Ordered, Window, RowInv, Phased, Timed, Ends
  <2> QED BY <2>1, <2>3, <2>4, EndRows
<1>13. CASE Disarm(c)
  <2> DEFINE new == [row EXCEPT !.pc = "stop", !.done = TRUE]
  <2>1. /\ call' = [call EXCEPT ![c] = new] /\ row.pc = "reaped"
        /\ mutex' \in {mutex, NULL} /\ mutex' # c
    BY <1>2, <1>13 DEF Disarm, Moves, row, ReleaseCoreLimit
  <2>2. /\ new.pc = "stop" /\ new.exec = row.exec /\ new.watcher = row.watcher
        /\ new.leader = row.leader /\ new.fired = row.fired /\ new.killAt = row.killAt /\ new.sent = row.sent
    BY <1>1 DEF CallRow
  <2> HIDE DEF new
  <2>3. Ordered(new)
    BY <1>1, <2>2 DEF Ordered
  <2>4. Quits(new) /\ (mutex' = c => Window(new))
    BY <1>1, <1>2, <2>1, <2>2 DEF Quits, Ordered, Window, RowInv, Phased, Timed, Ends
  <2> QED BY <2>1, <2>3, <2>4, EndRows
<1>14. CASE Stop(c)
  <2> DEFINE new == [row EXCEPT !.pc = "watcher"]
  <2>1. /\ call' = [call EXCEPT ![c] = new] /\ row.pc = "stop"
        /\ mutex' = mutex
    BY <1>2, <1>14 DEF Stop, Moves, row
  <2>2. /\ new.pc = "watcher" /\ new.exec = row.exec /\ new.watcher = row.watcher
        /\ new.leader = row.leader /\ new.fired = row.fired /\ new.killAt = row.killAt /\ new.sent = row.sent
    BY <1>1 DEF CallRow
  <2> HIDE DEF new
  <2>3. Ordered(new)
    BY <1>1, <2>2 DEF Ordered
  <2>4. Quits(new) /\ (mutex' = c => Window(new))
    BY <1>1, <1>2, <2>1, <2>2 DEF Quits, Ordered, Window, RowInv, Phased, Timed, Ends
  <2> QED BY <2>1, <2>3, <2>4, EndRows
<1>15. CASE JoinWatcher(c)
  <2> DEFINE new == [row EXCEPT !.pc = "classify"]
  <2>1. /\ call' = [call EXCEPT ![c] = new] /\ row.pc = "watcher" /\ row.watcher = "done"
        /\ mutex' = mutex
    BY <1>2, <1>15 DEF JoinWatcher, Moves, row
  <2>2. /\ new.pc = "classify" /\ new.exec = row.exec /\ new.watcher = row.watcher
        /\ new.leader = row.leader /\ new.fired = row.fired /\ new.killAt = row.killAt /\ new.sent = row.sent
    BY <1>1 DEF CallRow
  <2> HIDE DEF new
  <2>3. Ordered(new)
    BY <1>1, <2>2 DEF Ordered
  <2>4. Quits(new) /\ (mutex' = c => Window(new))
    BY <1>1, <1>2, <2>1, <2>2 DEF Quits, Ordered, Window, RowInv, Phased, Timed, Ends
  <2> QED BY <2>1, <2>3, <2>4, EndRows
<1>16. CASE Classify(c)
  <2> DEFINE new == [row EXCEPT !.pc = "defer", !.verdict = Verdict(row)]
  <2>1. /\ call' = [call EXCEPT ![c] = new] /\ row.pc = "classify"
        /\ mutex' = mutex
    BY <1>2, <1>16 DEF Classify, Moves, row
  <2>2. /\ new.pc = "defer" /\ new.exec = row.exec /\ new.watcher = row.watcher
        /\ new.leader = row.leader /\ new.fired = row.fired /\ new.killAt = row.killAt /\ new.sent = row.sent
    BY <1>1 DEF CallRow
  <2> HIDE DEF new
  <2>3. Ordered(new)
    BY <1>1, <2>2 DEF Ordered
  <2>4. Quits(new) /\ (mutex' = c => Window(new))
    BY <1>1, <1>2, <2>1, <2>2 DEF Quits, Ordered, Window, RowInv, Phased, Timed, Ends
  <2> QED BY <2>1, <2>3, <2>4, EndRows
<1>17. CASE Return(c)
  <2> DEFINE new == [row EXCEPT !.pc = "returned"]
  <2>1. /\ call' = [call EXCEPT ![c] = new] /\ row.pc = "defer" /\ (row.fired => row.killAt = NULL)
        /\ mutex' = mutex
    BY <1>2, <1>17 DEF Return, Moves, row, EscalationOver
  <2>2. /\ new.pc = "returned" /\ new.exec = row.exec /\ new.watcher = row.watcher
        /\ new.leader = row.leader /\ new.fired = row.fired /\ new.killAt = row.killAt /\ new.sent = row.sent
    BY <1>1 DEF CallRow
  <2> HIDE DEF new
  <2>3. Ordered(new)
    BY <1>1, <2>2 DEF Ordered
  <2>4. Quits(new) /\ (mutex' = c => Window(new))
    BY <1>1, <1>2, <2>1, <2>2 DEF Quits, Ordered, Window, RowInv, Phased, Timed, Ends
  <2> QED BY <2>1, <2>3, <2>4, EndRows
<1> QED BY <1>3, <1>4, <1>5, <1>6, <1>7, <1>8, <1>9, <1>10, <1>11, <1>12, <1>13, <1>14, <1>15, <1>16, <1>17 DEF Works

\* The deadline watcher signals at most as the first trigger, and then stops.
LEMMA WatchesEnd ==
    ASSUME RunnerInv, EndInv, NEW c \in Call, Watches(c)
    PROVE  EndInv'
<1> DEFINE row == call[c]
<1>1. row \in CallRow /\ RowInv(row, now) /\ Ordered(row) /\ Quits(row)
      /\ (mutex = c => Window(row)) /\ now \in Nat
  BY DEF RunnerInv, RTypeOK, EndInv
<1>2. ASSUME NEW l \in BOOLEAN, NEW h \in BOOLEAN, DeadlineFires(c, l, h)
      PROVE  EndInv'
  <2> DEFINE fires == Fires(row, l, h)
             new == [fires EXCEPT !.timedOut = TRUE, !.watcher = "done"]
  <2>1. call' = [call EXCEPT ![c] = new] /\ row.watcher = "armed" /\ mutex' = mutex
    BY <1>2 DEF DeadlineFires
  <2>2. fires \in CallRow
    BY <1>1, FiresType
  <2>3. /\ Ordered(fires)
        /\ fires.pc = row.pc /\ fires.exec = row.exec /\ fires.watcher = row.watcher
        /\ fires.leader = "alive" => row.leader = "alive"
    BY <1>1, FiresKeeps
  <2> HIDE DEF fires, row
  <2>4. /\ new \in CallRow /\ new.watcher = "done"
        /\ new.pc = fires.pc /\ new.exec = fires.exec /\ new.leader = fires.leader
        /\ new.fired = fires.fired /\ new.killAt = fires.killAt /\ new.sent = fires.sent
    BY <2>2 DEF CallRow
  <2> HIDE DEF new
  <2>5. Ordered(new)
    BY <2>3, <2>4 DEF Ordered
  <2>6. Quits(new) /\ (Window(row) => Window(new))
    BY <1>1, <2>1, <2>3, <2>4 DEF Quits, Window, RowInv, Phased, Timed
  <2> QED BY <1>1, <2>1, <2>5, <2>6, EndRows
<1>3. CASE WatcherLeaves(c)
  <2> DEFINE new == [row EXCEPT !.watcher = "done"]
  <2>1. call' = [call EXCEPT ![c] = new] /\ row.watcher = "armed" /\ mutex' = mutex
    BY <1>3 DEF WatcherLeaves, RunnerInv, RTypeOK
  <2> HIDE DEF row
  <2>2. /\ new \in CallRow /\ new.watcher = "done"
        /\ new.pc = row.pc /\ new.exec = row.exec /\ new.leader = row.leader
        /\ new.fired = row.fired /\ new.killAt = row.killAt /\ new.sent = row.sent
    BY <1>1 DEF CallRow
  <2> HIDE DEF new
  <2>3. Ordered(new)
    BY <1>1, <2>2 DEF Ordered
  <2>4. Quits(new) /\ (Window(row) => Window(new))
    BY <1>1, <2>1, <2>2 DEF Quits, Window, RowInv, Phased, Timed
  <2> QED BY <1>1, <2>1, <2>3, <2>4, EndRows
<1> QED BY <1>2, <1>3 DEF Watches

\* The escalation sends its KILL a grace period after the TERM, or nothing.
LEMMA EscalatesEnd ==
    ASSUME RunnerInv, EndInv, NEW c \in Call, Escalates(c)
    PROVE  EndInv'
<1> DEFINE row == call[c]
<1>1. row \in CallRow /\ RowInv(row, now) /\ Ordered(row) /\ Quits(row)
      /\ (mutex = c => Window(row)) /\ now \in Nat
  BY DEF RunnerInv, RTypeOK, EndInv
<1>2. CASE Escalate(c)
  <2> DEFINE killed == AfterTerm(row, TRUE, TRUE)
             sent == Append(row.sent, [sig |-> "KILL", at |-> now])
             new == [killed EXCEPT !.killAt = NULL, !.sent = sent]
  <2>1. /\ call' = [call EXCEPT ![c] = new] /\ mutex' = mutex
        /\ row.killAt # NULL /\ row.killAt <= now
    BY <1>2 DEF Escalate, AfterKill
  <2>2. killed \in CallRow /\ sent \in Seq(Sends)
    BY <1>1, AfterTermType, SentType
  <2>3. /\ killed.fired = row.fired /\ killed.pc = row.pc /\ killed.exec = row.exec
        /\ killed.watcher = row.watcher /\ (killed.leader = "alive" => row.leader = "alive")
    <3>1. \A l, h \in BOOLEAN : \A out : out = AfterTerm(row, l, h) =>
            /\ out.fired = row.fired /\ out.pc = row.pc /\ out.exec = row.exec
            /\ out.watcher = row.watcher /\ (out.leader = "alive" => row.leader = "alive")
      BY <1>1, AfterTermKeeps
    <3>2. TRUE \in BOOLEAN /\ killed = AfterTerm(row, TRUE, TRUE)
      OBVIOUS
    <3> HIDE DEF killed
    <3> QED BY <3>1, <3>2
  <2>4. /\ row.fired /\ Len(sent) = 2 /\ sent[1] = row.sent[1]
        /\ sent[2].sig = "KILL" /\ sent[2].at = now
        /\ row.sent[1].sig = "TERM" /\ row.sent[1].at + Grace <= now
    <3>1. /\ row.sent \in Seq(Sends) /\ Len(row.sent) = 1 /\ row.fired
          /\ row.sent[1].sig = "TERM" /\ row.sent[1].at + Grace <= now
      BY <1>1, <2>1 DEF Ordered, CallRow
    <3> DEFINE kill == [sig |-> "KILL", at |-> now]
    <3>2. kill.sig = "KILL" /\ kill.at = now /\ sent = Append(row.sent, kill)
      OBVIOUS
    <3> HIDE DEF kill, sent, row
    <3>3. Len(sent) = 2 /\ sent[1] = row.sent[1] /\ sent[2] = kill
      BY <3>1, <3>2
    <3> QED BY <3>1, <3>2, <3>3
  <2> HIDE DEF killed, sent, row
  <2>5. /\ new \in CallRow /\ new.killAt = NULL /\ new.sent = sent
        /\ new.pc = killed.pc /\ new.exec = killed.exec /\ new.watcher = killed.watcher
        /\ new.leader = killed.leader /\ new.fired = killed.fired
    BY <2>2 DEF CallRow
  <2> HIDE DEF new
  <2>6. Ordered(new)
    <3>1. sent[1] \in Sends /\ sent[2] \in Sends
      <4>1. 1 \in 1..Len(sent) /\ 2 \in 1..Len(sent)
        BY <2>4
      <4> QED BY <2>2, <4>1
    <3>2. sent[1].at \in Nat /\ Grace \in Nat
      BY <3>1, RunnerAssumption DEF Sends
    <3>3. sent[1].sig = "TERM" /\ sent[2].sig = "KILL" /\ sent[2].at >= sent[1].at + Grace
      BY <1>1, <2>4, <3>2
    <3>4. new.fired /\ new.killAt = NULL /\ Len(new.sent) = 2
      BY <2>3, <2>4, <2>5
    <3>5. new.sent[1].sig = "TERM" /\ new.sent[2].sig = "KILL"
          /\ new.sent[2].at >= new.sent[1].at + Grace
      BY <2>5, <3>3
    <3> QED BY <3>4, <3>5 DEF Ordered
  <2>7. Quits(new) /\ (Window(row) => Window(new))
    BY <1>1, <2>3, <2>5 DEF Quits, Window, RowInv, Phased, Timed
  <2> QED BY <1>1, <2>1, <2>6, <2>7, EndRows
<1>3. CASE EscalationLeaves(c)
  <2> DEFINE new == [row EXCEPT !.killAt = NULL]
  <2>1. call' = [call EXCEPT ![c] = new] /\ mutex' = mutex
    BY <1>3 DEF EscalationLeaves, RunnerInv, RTypeOK
  <2> HIDE DEF row
  <2>2. /\ new \in CallRow /\ new.killAt = NULL /\ new.watcher = row.watcher
        /\ new.pc = row.pc /\ new.exec = row.exec /\ new.leader = row.leader
        /\ new.fired = row.fired /\ new.sent = row.sent
    BY <1>1 DEF CallRow
  <2> HIDE DEF new
  <2>3. Ordered(new)
    BY <1>1, <2>2 DEF Ordered
  <2>4. Quits(new) /\ (Window(row) => Window(new))
    BY <1>1, <2>2 DEF Quits, Window, RowInv, Phased, Timed
  <2> QED BY <1>1, <2>1, <2>3, <2>4, EndRows
<1> QED BY <1>2, <1>3 DEF Escalates

\* os/exec: its Cancel is the trigger of the context, its kill is not a signal to
\* the group.
LEMMA ExecsEnd ==
    ASSUME RunnerInv, EndInv, NEW c \in Call, Execs(c)
    PROVE  EndInv'
<1> DEFINE row == call[c]
<1>1. row \in CallRow /\ RowInv(row, now) /\ Ordered(row) /\ Quits(row)
      /\ (mutex = c => Window(row)) /\ now \in Nat
  BY DEF RunnerInv, RTypeOK, EndInv
<1>2. ASSUME NEW l \in BOOLEAN, NEW h \in BOOLEAN, ExecCancel(c, l, h)
      PROVE  EndInv'
  <2> DEFINE fires == Fires(row, l, h)
             new == [fires EXCEPT !.exec = "delay", !.delayEnd = now + Grace]
  <2>1. call' = [call EXCEPT ![c] = new] /\ row.exec = "armed" /\ mutex' = mutex
    BY <1>2 DEF ExecCancel
  <2>2. fires \in CallRow
    BY <1>1, FiresType
  <2>3. /\ Ordered(fires)
        /\ fires.pc = row.pc /\ fires.exec = row.exec /\ fires.watcher = row.watcher
        /\ fires.leader = "alive" => row.leader = "alive"
    BY <1>1, FiresKeeps
  <2> HIDE DEF fires, row
  <2>4. new \in CallRow
    <3>1. \A t \in Nat \union {NULL} :
            [fires EXCEPT !.exec = "delay", !.delayEnd = t] \in CallRow
      BY <2>2 DEF CallRow
    <3>2. now + Grace \in Nat
      BY <1>1, RunnerAssumption
    <3> QED BY <3>1, <3>2
  <2>5. /\ new.exec = "delay" /\ new.watcher = fires.watcher
        /\ new.pc = fires.pc /\ new.leader = fires.leader
        /\ new.fired = fires.fired /\ new.killAt = fires.killAt /\ new.sent = fires.sent
    BY <2>2 DEF CallRow
  <2> HIDE DEF new
  <2>6. Ordered(new)
    BY <2>3, <2>5 DEF Ordered
  <2>7. Quits(new) /\ (Window(row) => Window(new))
    BY <1>1, <2>1, <2>3, <2>5 DEF Quits, Window, RowInv, Phased, Timed
  <2> QED BY <1>1, <2>1, <2>6, <2>7, EndRows
<1>3. CASE ExecKill(c)
  <2> DEFINE killed == AfterTerm(row, TRUE, FALSE)
             new == [killed EXCEPT !.exec = "gone"]
  <2>1. call' = [call EXCEPT ![c] = new] /\ row.exec = "delay" /\ mutex' = mutex
    BY <1>3 DEF ExecKill
  <2>2. killed \in CallRow
    BY <1>1, AfterTermType
  <2>3. /\ killed.fired = row.fired /\ killed.sent = row.sent /\ killed.killAt = row.killAt
        /\ killed.pc = row.pc /\ killed.watcher = row.watcher
        /\ killed.leader = "alive" => row.leader = "alive"
    <3>1. \A l, h \in BOOLEAN : \A out : out = AfterTerm(row, l, h) =>
            /\ out.fired = row.fired /\ out.sent = row.sent /\ out.killAt = row.killAt
            /\ out.pc = row.pc /\ out.watcher = row.watcher
            /\ out.leader = "alive" => row.leader = "alive"
      BY <1>1, AfterTermKeeps
    <3>2. TRUE \in BOOLEAN /\ FALSE \in BOOLEAN /\ killed = AfterTerm(row, TRUE, FALSE)
      OBVIOUS
    <3> HIDE DEF killed
    <3> QED BY <3>1, <3>2
  <2> HIDE DEF killed, row
  <2>4. /\ new \in CallRow /\ new.exec = "gone" /\ new.watcher = killed.watcher
        /\ new.pc = killed.pc /\ new.leader = killed.leader
        /\ new.fired = killed.fired /\ new.killAt = killed.killAt /\ new.sent = killed.sent
    BY <2>2 DEF CallRow
  <2> HIDE DEF new
  <2>5. Ordered(new)
    BY <1>1, <2>3, <2>4 DEF Ordered
  <2>6. Quits(new) /\ (Window(row) => Window(new))
    BY <1>1, <2>1, <2>3, <2>4 DEF Quits, Window, RowInv, Phased, Timed
  <2> QED BY <1>1, <2>1, <2>5, <2>6, EndRows
<1> QED BY <1>2, <1>3 DEF Execs

\* The world sends no signal to the group, and starts nothing.
LEMMA WorldEnd ==
    ASSUME RunnerInv, EndInv, NEW c \in Call, World(c)
    PROVE  EndInv'
<1> DEFINE row == call[c]
<1>1. row \in CallRow /\ RowInv(row, now) /\ Ordered(row) /\ Quits(row)
      /\ (mutex = c => Window(row)) /\ call \in [Call -> CallRow]
  BY DEF RunnerInv, RTypeOK, EndInv
<1> DEFINE Still(new) ==
        /\ call' = [call EXCEPT ![c] = new] /\ mutex' = mutex
        /\ new.pc = row.pc /\ new.exec = row.exec /\ new.watcher = row.watcher
        /\ new.fired = row.fired /\ new.killAt = row.killAt /\ new.sent = row.sent
        /\ new.leader = "alive" => row.leader = "alive"
<1>2. \E new : Still(new)
  <2>1. CASE Cancel(c)
    <3> DEFINE new == [row EXCEPT !.ctxDone = TRUE]
    <3>1. call' = [call EXCEPT ![c] = new] /\ mutex' = mutex
      BY <1>1, <2>1 DEF Cancel
    <3> HIDE DEF row
    <3>2. Still(new)
      BY <1>1, <3>1 DEF CallRow
    <3> QED BY <3>2
  <2>2. ASSUME NEW kind \in Helpers, LeaveHelper(c, kind)
        PROVE  \E new : Still(new)
    <3> DEFINE new == [row EXCEPT !.helper = kind]
    <3>1. call' = [call EXCEPT ![c] = new] /\ mutex' = mutex
      BY <1>1, <2>2 DEF LeaveHelper
    <3> HIDE DEF row
    <3>2. Still(new)
      BY <1>1, <3>1 DEF CallRow
    <3> QED BY <3>2
  <2>3. ASSUME NEW end \in Ends, LeaderEnds(c, end)
        PROVE  \E new : Still(new)
    <3> DEFINE new == [row EXCEPT !.leader = end]
    <3>1. call' = [call EXCEPT ![c] = new] /\ mutex' = mutex /\ row.leader = "alive"
      BY <1>1, <2>3 DEF LeaderEnds
    <3> HIDE DEF row
    <3>2. Still(new)
      BY <1>1, <3>1 DEF CallRow
    <3> QED BY <3>2
  <2> HIDE DEF Still
  <2> QED BY <2>1, <2>2, <2>3 DEF World
<1>3. PICK new : Still(new)
  BY <1>2
<1> HIDE DEF row
<1>4. Ordered(new)
  BY <1>1, <1>3 DEF Ordered
<1>5. Quits(new) /\ (Window(row) => Window(new))
  BY <1>1, <1>3 DEF Quits, Window, RowInv, Phased, Timed
<1> QED BY <1>1, <1>3, <1>4, <1>5, EndRows

LEMMA EndInvInit == RInit => EndInv
<1> SUFFICES ASSUME RInit, NEW c \in Call
             PROVE  Ordered(call[c]) /\ Quits(call[c]) /\ mutex # c
  BY DEF EndInv
<1>1. call[c] = Fresh /\ mutex # c
  BY RunnerAssumption DEF RInit
<1> QED BY <1>1 DEF Fresh, Ordered, Quits

LEMMA EndInvNext == RunnerInv /\ EndInv /\ [RNext]_rvars => EndInv'
<1> SUFFICES ASSUME RunnerInv, EndInv, [RNext]_rvars PROVE EndInv'
  OBVIOUS
<1>1. CASE RTick \/ UNCHANGED rvars
  BY <1>1 DEF RTick, rvars, EndInv
<1>2. ASSUME NEW c \in Call,
             Works(c) \/ Watches(c) \/ Escalates(c) \/ Execs(c) \/ World(c)
      PROVE  EndInv'
  BY <1>2, WorksEnd, WatchesEnd, EscalatesEnd, ExecsEnd, WorldEnd
<1> QED BY <1>1, <1>2 DEF RNext

LEMMA EndInvariant == RSpec => []EndInv
<1> QED BY RunnerInvariant, EndInvInit, EndInvNext, PTL DEF RSpec

\* However the deadline, the context and the exit race, and however long any
\* goroutine is delayed, the group gets one TERM and then at most one KILL, with
\* the whole grace period between them.
THEOREM SignalsAreOrdered == RSpec => []TermThenKill
<1>1. EndInv => TermThenKill
  BY DEF EndInv, Ordered, TermThenKill
<1> QED BY <1>1, EndInvariant, PTL

\* A call that returned has no goroutine left to signal a group whose id may be
\* another's by then, no process it did not reap, and not the core limit.
THEOREM CallsLeaveNothing == RSpec => []NothingLeftBehind
<1>1. EndInv => NothingLeftBehind
  BY DEF EndInv, Quits, Window, NothingLeftBehind
<1> QED BY <1>1, EndInvariant, PTL
=============================================================================
