--------------------------- MODULE Migrator_proofs ---------------------------
(***************************************************************************)
(* Proofs about Migrator, for any number of processes and builds, any      *)
(* lifetime of the lock and any recycling of process ids.                  *)
(***************************************************************************)
EXTENDS Migrator, TLAPS

-----------------------------------------------------------------------------
(* The builds and their files. *)

LEMMA BuildFacts ==
    ASSUME NEW b \in Build
    PROVE  /\ Known[b] \in 0..Top
           /\ Carries(b) \subseteq Version
           /\ \A v \in Version : Text[b][v] \in Sum /\ Text[b][v] # NULL
BY MigratorAssumption DEF Carries, Version, Sum

\* A ledger that has everything a build carries, and nothing else, ends at the
\* build's highest version.
LEMMA HighestOfComplete ==
    ASSUME NEW b \in Build, NEW l, Recognised(b, l), Pending(b, l) = {}
    PROVE  Applied(l) = Carries(b) /\ Highest(l) = Known[b]
<1>1. Known[b] \in Nat /\ Carries(b) \subseteq Version
  BY BuildFacts, MigratorAssumption
<1>2. Applied(l) = Carries(b)
  BY <1>1 DEF Applied, Recognised, Pending
<1> DEFINE k == Known[b]
           IsMax(m) == \A x \in 1..k : x <= m
<1>3. k \in (1..k) \union {0} /\ IsMax(k)
  BY <1>1
<1>4. \A m \in (1..k) \union {0} : IsMax(m) => m = k
  BY <1>1
<1>5. (CHOOSE m \in (1..k) \union {0} : IsMax(m)) = k
  BY <1>3, <1>4
<1> QED BY <1>2, <1>5 DEF Highest, MaxOf, Carries

-----------------------------------------------------------------------------
(* Types. *)

LEMMA MTypeInit == Init => MTypeOK
<1> SUFFICES ASSUME Init PROVE MTypeOK
  OBVIOUS
<1>0. PICK b \in Build : \E k \in 0..Known[b] :
        /\ ledger = [v \in Version |-> IF v <= k THEN Text[b][v] ELSE NULL]
        /\ ran = [v \in Version |-> IF v <= k THEN 1 ELSE 0]
        /\ fence \in 0..k
  BY DEF Init
<1>1. PICK k \in 0..Known[b] :
        /\ ledger = [v \in Version |-> IF v <= k THEN Text[b][v] ELSE NULL]
        /\ ran = [v \in Version |-> IF v <= k THEN 1 ELSE 0]
        /\ fence \in 0..k
  BY <1>0
<1>2. Known[b] \in 0..Top /\ Top \in Nat
  BY BuildFacts, MigratorAssumption
<1>3. ledger \in [Version -> Sum \union {NULL}] /\ ran \in [Version -> Nat]
  BY <1>1, BuildFacts
<1>4. fence \in 0..Top
  BY <1>1, <1>2
<1>5. cur \in [Proc -> 0..Top] /\ todo \in [Proc -> SUBSET Version]
  BY <1>2 DEF Init
<1>6. /\ pc \in [Proc -> Running \union Ended \union {"off"}]
      /\ build \in [Proc -> Build \union {NULL}] /\ pid \in [Proc -> Pid \union {NULL}]
      /\ waited \in [Proc -> Nat] /\ held \in [Proc -> Nat]
      /\ keysOff \in [Proc -> BOOLEAN] /\ verdict \in [Proc -> Ended]
  BY DEF Init, Ended
<1>7. /\ \A p \in Proc : (pc[p] = "off") = (pid[p] = NULL)
      /\ \A p \in Proc : (pc[p] = "off") = (build[p] = NULL)
      /\ overstayed \in BOOLEAN /\ boot \in Nat /\ lock = NULL
  BY DEF Init
<1> QED BY <1>3, <1>4, <1>5, <1>6, <1>7 DEF MTypeOK

LEMMA CommitType ==
    ASSUME MTypeOK, NEW p \in Proc, build[p] \in Build, NEW v \in Version, Commit(p, v)
    PROVE  /\ ledger' \in [Version -> Sum \union {NULL}]
           /\ ran' \in [Version -> Nat]
           /\ fence' \in 0..Top
           /\ overstayed' \in BOOLEAN
<1>1. Text[build[p]][v] \in Sum
  BY BuildFacts
<1>2. ran' \in [Version -> Nat]
  BY DEF MTypeOK, Commit
<1>3. ledger' \in [Version -> Sum \union {NULL}]
  BY <1>1 DEF MTypeOK, Commit
<1>4. fence' \in 0..Top
  BY MigratorAssumption DEF Version, MTypeOK, Commit
<1>5. overstayed' \in BOOLEAN
  BY DEF MTypeOK, Commit
<1> QED BY <1>2, <1>3, <1>4, <1>5

LEMMA MTypeStep == MTypeOK /\ [Next]_vars => MTypeOK'
<1> SUFFICES ASSUME MTypeOK, [Next]_vars PROVE MTypeOK'
  OBVIOUS
<1>0. Top \in Nat /\ TTL \in Nat /\ TTL \in 0..TTL /\ NULL \notin Pid /\ NULL \notin Build
  BY MigratorAssumption
<1> USE <1>0
<1>1. CASE UNCHANGED vars
  BY <1>1 DEF MTypeOK, vars, database, private
<1>2. CASE Reboot
  BY <1>2 DEF MTypeOK, Reboot, Reset, database, Ended
<1>3. CASE Tick
  <2>1. lock' = NULL \/ lock' \in LockRow
    <3>1. CASE lock # NULL /\ lock.left > 0
      <4>1. lock.left - 1 \in 0..TTL
        BY <1>3, <3>1 DEF MTypeOK, LockRow
      <4> QED BY <1>3, <3>1, <4>1 DEF MTypeOK, Tick, LockRow
    <3>2. CASE ~(lock # NULL /\ lock.left > 0)
      BY <1>3, <3>2 DEF MTypeOK, Tick
    <3> QED BY <3>1, <3>2
  <2>2. waited' \in [Proc -> Nat] /\ held' \in [Proc -> Nat]
    BY <1>3 DEF MTypeOK, Tick
  <2> QED BY <1>3, <2>1, <2>2 DEF MTypeOK, Tick, database
<1>4. ASSUME NEW p \in Proc, Start(p) PROVE MTypeOK'
  BY <1>4 DEF MTypeOK, Start, Goto, database, Running, Ended
<1>5. ASSUME NEW p \in Proc, Exit(p) PROVE MTypeOK'
  BY <1>5 DEF MTypeOK, Exit, Goto, database, Running, Ended
<1>6. ASSUME NEW p \in Proc, Cancel(p) PROVE MTypeOK'
  BY <1>6 DEF MTypeOK, Cancel, Goto, database, private, Running, Guarded, Ended
<1>7. ASSUME NEW p \in Proc, Step(p) PROVE MTypeOK'
  <2>0. pc[p] \in Running => build[p] \in Build /\ pid[p] \in Pid
    BY DEF MTypeOK, Running, Guarded
  <2>1. CASE ReadUserVersion(p)
    BY <2>1 DEF MTypeOK, ReadUserVersion, Goto, database, Running, Ended
  <2>2. CASE ReadLedger(p)
    <3>1. pc[p] = "ledger" /\ build[p] \in Build
      BY <2>2, <2>0 DEF ReadLedger, Running
    <3>2. cur' \in [Proc -> 0..Top]
      <4>1. CheckApplied(build[p], ledger) /\ Pending(build[p], ledger) = {}
              => Highest(ledger) \in 0..Top
        BY <3>1, BuildFacts, HighestOfComplete DEF CheckApplied
      <4> QED BY <2>2, <4>1 DEF MTypeOK, ReadLedger
    <3>3. /\ pc' \in [Proc -> Running \union Ended \union {"off"}]
          /\ \A q \in Proc : (pc'[q] = "off") = (pc[q] = "off")
      BY <2>2, <3>1 DEF MTypeOK, ReadLedger, Goto, Running, Ended
    <3> QED BY <2>2, <3>2, <3>3 DEF MTypeOK, ReadLedger, database
  <2>3. CASE RepairUserVersion(p)
    BY <2>3 DEF MTypeOK, RepairUserVersion, Goto, Running, Ended
  <2>4. CASE TryLockMigrations(p)
    <3>1. pid[p] \in Pid
      BY <2>4, <2>0 DEF TryLockMigrations, Running
    <3>2. lock' \in LockRow
      BY <2>4, <3>1 DEF MTypeOK, TryLockMigrations, Me, LockRow
    <3> QED BY <2>4, <3>2 DEF MTypeOK, TryLockMigrations, Goto, database, Running, Guarded, Ended
  <2>5. CASE GiveUp(p)
    BY <2>5 DEF MTypeOK, GiveUp, Goto, database, private, Running, Ended
  <2>6. CASE RereadLedger(p)
    <3>1. Pending(build[p], ledger) \subseteq Version
      BY <2>6, <2>0, BuildFacts DEF RereadLedger, Running, Guarded, Pending
    <3> QED BY <2>6, <3>1 DEF MTypeOK, RereadLedger, Returning, Goto, database, Running, Guarded,
                Ended
  <2>7. CASE ApplyOne(p)
    <3>1. pc[p] = "apply" /\ build[p] \in Build
      BY <2>7, <2>0 DEF ApplyOne, Running, Guarded
    <3>2. PICK v \in todo[p] : Commit(p, v) /\ todo' = [todo EXCEPT ![p] = @ \ {v}]
      BY <2>7 DEF ApplyOne
    <3>3. v \in Version
      BY DEF MTypeOK
    <3> QED BY <2>7, <3>1, <3>2, <3>3, CommitType DEF MTypeOK, ApplyOne
  <2>8. CASE ApplyFails(p)
    BY <2>8 DEF MTypeOK, ApplyFails, Returning, Goto, database, Running, Guarded, Ended
  <2>9. CASE DisableKeys(p)
    BY <2>9 DEF MTypeOK, DisableKeys, Goto, database, Running, Guarded, Ended
  <2>10. CASE RebuildInTx(p)
    <3>1. pc[p] = "rebuild" /\ build[p] \in Build
      BY <2>10, <2>0 DEF RebuildInTx, Running, Guarded
    <3>2. PICK v \in todo[p] : Commit(p, v) /\ todo' = [todo EXCEPT ![p] = @ \ {v}]
      BY <2>10 DEF RebuildInTx
    <3>3. v \in Version
      BY DEF MTypeOK
    <3> QED BY <2>10, <3>1, <3>2, <3>3, CommitType
            DEF MTypeOK, RebuildInTx, Goto, Running, Guarded, Ended
  <2>11. CASE RebuildFails(p)
    BY <2>11 DEF MTypeOK, RebuildFails, Goto, database, Running, Guarded, Ended
  <2>12. CASE RestoreKeys(p)
    BY <2>12 DEF MTypeOK, RestoreKeys, Goto, database, Running, Guarded, Ended
  <2>13. CASE AllApplied(p)
    BY <2>13 DEF MTypeOK, AllApplied, Returning, Goto, database, Running, Guarded, Ended
  <2>14. CASE UnlockMigrations(p)
    BY <2>14 DEF MTypeOK, UnlockMigrations, Goto, database, Running, Guarded, Ended
  <2> QED BY <1>7, <2>1, <2>2, <2>3, <2>4, <2>5, <2>6, <2>7, <2>8, <2>9, <2>10, <2>11, <2>12,
             <2>13, <2>14 DEF Step
<1> QED BY <1>1, <1>2, <1>3, <1>4, <1>5, <1>6, <1>7 DEF Next

-----------------------------------------------------------------------------
(* What a step leaves alone: the other processes, and every row of the     *)
(* ledger that is there already.                                           *)

Moves(p) == Start(p) \/ Exit(p) \/ Cancel(p) \/ Step(p)

Same(q) ==
    /\ pc'[q] = pc[q] /\ build'[q] = build[q] /\ pid'[q] = pid[q] /\ cur'[q] = cur[q]
    /\ todo'[q] = todo[q] /\ keysOff'[q] = keysOff[q] /\ verdict'[q] = verdict[q]

LEMMA OthersKeep ==
    ASSUME MTypeOK, NEW p \in Proc, Moves(p), NEW q \in Proc \ {p}
    PROVE  Same(q) /\ held'[q] = held[q]
<1>1. CASE Start(p)
  BY <1>1 DEF MTypeOK, Same, Start, Goto
<1>2. CASE Exit(p)
  BY <1>2 DEF MTypeOK, Same, Exit, Goto
<1>3. CASE Cancel(p)
  BY <1>3 DEF MTypeOK, Same, Cancel, Goto, private
<1>4. CASE ReadUserVersion(p) \/ ReadLedger(p) \/ RepairUserVersion(p) \/ TryLockMigrations(p)
  BY <1>4 DEF MTypeOK, Same, ReadUserVersion, ReadLedger, RepairUserVersion, TryLockMigrations, Goto
<1>5. CASE GiveUp(p) \/ RereadLedger(p) \/ ApplyOne(p) \/ ApplyFails(p) \/ DisableKeys(p)
  BY <1>5 DEF MTypeOK, Same, GiveUp, RereadLedger, ApplyOne, ApplyFails, DisableKeys, Returning,
              Goto, private
<1>6. CASE RebuildInTx(p) \/ RebuildFails(p) \/ RestoreKeys(p) \/ AllApplied(p)
  BY <1>6 DEF MTypeOK, Same, RebuildInTx, RebuildFails, RestoreKeys, AllApplied, Returning, Goto
<1>7. CASE UnlockMigrations(p)
  BY <1>7 DEF MTypeOK, Same, UnlockMigrations, Goto
<1> QED BY <1>1, <1>2, <1>3, <1>4, <1>5, <1>6, <1>7 DEF Moves, Step

\* Only the two transactions that apply a version touch the ledger.
LEMMA LedgerWriters ==
    ASSUME NEW p \in Proc, Moves(p), ~ApplyOne(p), ~RebuildInTx(p)
    PROVE  ledger' = ledger /\ ran' = ran /\ overstayed' = overstayed
BY DEF Moves, Start, Exit, Cancel, Step, ReadUserVersion, ReadLedger, RepairUserVersion,
       TryLockMigrations, GiveUp, RereadLedger, ApplyFails, DisableKeys, RebuildFails, RestoreKeys,
       AllApplied, UnlockMigrations, database

\* What such a transaction does, seen from the process that runs it.
LEMMA Applies ==
    ASSUME MTypeOK, NEW p \in Proc, ApplyOne(p) \/ RebuildInTx(p)
    PROVE  /\ build[p] \in Build /\ pc[p] \in {"apply", "rebuild"}
           /\ pc'[p] \in {"apply", "keys"} /\ build' = build /\ verdict' = verdict
           /\ lock' = lock /\ boot' = boot /\ pid' = pid
           /\ \E v \in todo[p] : /\ v \in Version /\ IsNext(p, v) /\ Commit(p, v)
                                 /\ todo' = [todo EXCEPT ![p] = todo[p] \ {v}]
<1>1. pc[p] \in {"apply", "rebuild"} /\ build[p] \in Build
  BY DEF MTypeOK, ApplyOne, RebuildInTx
<1>2. todo[p] \subseteq Version
  BY DEF MTypeOK
<1>3. CASE ApplyOne(p)
  BY <1>1, <1>2, <1>3 DEF ApplyOne
<1>4. CASE RebuildInTx(p)
  BY <1>1, <1>2, <1>4 DEF RebuildInTx, Goto, MTypeOK
<1> QED BY <1>3, <1>4

LEMMA CommitRows ==
    ASSUME MTypeOK, NEW p \in Proc, build[p] \in Build, NEW v \in Version, Commit(p, v)
    PROVE  /\ \A w \in Version : ledger'[w] = IF w = v /\ ledger[v] = NULL
                                              THEN Text[build[p]][v] ELSE ledger[w]
           /\ ledger'[v] # NULL
BY BuildFacts DEF MTypeOK, Commit

LEMMA LedgerGrows ==
    ASSUME MTypeOK, [Next]_vars, NEW w \in Version, ledger[w] # NULL
    PROVE  ledger'[w] = ledger[w]
<1>1. CASE UNCHANGED vars \/ Reboot \/ Tick
  BY <1>1 DEF vars, database, Reboot, Tick
<1>2. ASSUME NEW p \in Proc, Moves(p), ~ApplyOne(p), ~RebuildInTx(p) PROVE ledger'[w] = ledger[w]
  BY <1>2, LedgerWriters
<1>3. ASSUME NEW p \in Proc, ApplyOne(p) \/ RebuildInTx(p) PROVE ledger'[w] = ledger[w]
  BY <1>3, Applies, CommitRows
<1> QED BY <1>1, <1>2, <1>3 DEF Next, Moves

-----------------------------------------------------------------------------
(* The schema and its ledger. *)

Planning(p) == pc[p] \in {"apply", "rebuild"} \/ (pc[p] = "keys" /\ verdict[p] # "failed")
Succeeds(p) == pc[p] = "done" \/ (pc[p] = "unlock" /\ verdict[p] = "done")

\* What a process may rely on between two accesses: nothing outside its plan is
\* missing, so the lowest version of the plan is the next one of the ledger; a
\* fence about to be written is covered by rows; and a call that is going to
\* return success has its versions.
Rely(p) ==
    /\ pc[p] \in {"apply", "rebuild", "keys"} => todo[p] \subseteq Carries(build[p])
    /\ Planning(p) => \A v \in Carries(build[p]) \ todo[p] : ledger[v] # NULL
    /\ pc[p] = "repair" => /\ \A v \in Carries(build[p]) : ledger[v] # NULL
                           /\ \A v \in Version : v <= cur[p] => ledger[v] # NULL
    /\ Succeeds(p) => \A v \in Carries(build[p]) : ledger[v] # NULL

LedgerInv ==
    /\ LedgerIsPrefix /\ AppliedOnce /\ FenceNotAhead
    /\ \A p \in Proc : Rely(p)

LEMMA LedgerInit == Init => LedgerInv
<1> SUFFICES ASSUME Init PROVE LedgerInv
  OBVIOUS
<1>0. PICK b \in Build : \E k \in 0..Known[b] :
        /\ ledger = [v \in Version |-> IF v <= k THEN Text[b][v] ELSE NULL]
        /\ ran = [v \in Version |-> IF v <= k THEN 1 ELSE 0]
        /\ fence \in 0..k
  BY DEF Init
<1>1. PICK k \in 0..Known[b] :
        /\ ledger = [v \in Version |-> IF v <= k THEN Text[b][v] ELSE NULL]
        /\ ran = [v \in Version |-> IF v <= k THEN 1 ELSE 0]
        /\ fence \in 0..k
  BY <1>0
<1>2. k \in Nat /\ Version \subseteq Nat
  BY BuildFacts, MigratorAssumption DEF Version
<1>3. \A v \in Version : ledger[v] # NULL <=> v <= k
  BY <1>1, BuildFacts
<1>4. LedgerIsPrefix /\ AppliedOnce /\ FenceNotAhead
  BY <1>1, <1>2, <1>3 DEF LedgerIsPrefix, AppliedOnce, FenceNotAhead
<1>5. \A p \in Proc : pc[p] = "off"
  BY DEF Init
<1> QED BY <1>4, <1>5 DEF LedgerInv, Rely, Planning, Succeeds

\* A process that does not move keeps what it relies on, because rows stay.
LEMMA RelyStable ==
    ASSUME MTypeOK, [Next]_vars, NEW q \in Proc, Rely(q), Same(q)
    PROVE  Rely(q)'
<1>1. pc[q] # "off" => Carries(build[q]) \subseteq Version
  BY BuildFacts DEF MTypeOK
<1>2. \A v \in Version : ledger[v] # NULL => ledger'[v] # NULL
  BY LedgerGrows
<1>3. pc[q] # "off" => Carries(build[q])' = Carries(build[q])
  BY DEF Carries, Same
<1>4. CASE pc[q] = "off"
  BY <1>4 DEF Rely, Same, Planning, Succeeds
<1>5. CASE pc[q] # "off"
  <2> DEFINE C == Carries(build[q])
  <2>1. C \subseteq Version /\ Carries(build[q])' = C
    BY <1>1, <1>3, <1>5
  <2> HIDE DEF C
  <2>2. Rely(q) <=>
          /\ pc[q] \in {"apply", "rebuild", "keys"} => todo[q] \subseteq C
          /\ Planning(q) => \A v \in C \ todo[q] : ledger[v] # NULL
          /\ pc[q] = "repair" => /\ \A v \in C : ledger[v] # NULL
                                 /\ \A v \in Version : v <= cur[q] => ledger[v] # NULL
          /\ Succeeds(q) => \A v \in C : ledger[v] # NULL
    BY DEF Rely, C
  <2>3. Rely(q)' <=>
          /\ pc'[q] \in {"apply", "rebuild", "keys"} => todo'[q] \subseteq C
          /\ Planning(q)' => \A v \in C \ todo'[q] : ledger'[v] # NULL
          /\ pc'[q] = "repair" => /\ \A v \in C : ledger'[v] # NULL
                                  /\ \A v \in Version : v <= cur'[q] => ledger'[v] # NULL
          /\ Succeeds(q)' => \A v \in C : ledger'[v] # NULL
    BY <2>1 DEF Rely
  <2>4. Planning(q)' = Planning(q) /\ Succeeds(q)' = Succeeds(q)
    BY DEF Planning, Succeeds, Same
  <2> QED BY <1>2, <2>1, <2>2, <2>3, <2>4 DEF Same
<1> QED BY <1>4, <1>5

\* The transaction keeps the ledger gapless: everything below the version is
\* either outside the plan, and has a row, or would have been taken first.
LEMMA ApplyKeepsLedger ==
    ASSUME MTypeOK, LedgerInv, NEW p \in Proc, ApplyOne(p) \/ RebuildInTx(p)
    PROVE  LedgerInv'
<1>1. PICK v \in todo[p] : /\ v \in Version /\ IsNext(p, v) /\ Commit(p, v)
                           /\ todo' = [todo EXCEPT ![p] = todo[p] \ {v}]
  BY Applies
<1>2. /\ build[p] \in Build /\ pc[p] \in {"apply", "rebuild"} /\ pc'[p] \in {"apply", "keys"}
      /\ build' = build /\ verdict' = verdict
  BY Applies
<1>3. /\ \A w \in Version : ledger'[w] = IF w = v /\ ledger[v] = NULL
                                         THEN Text[build[p]][v] ELSE ledger[w]
      /\ ledger'[v] # NULL
  BY <1>1, <1>2, CommitRows
<1>4. Version \subseteq Nat /\ Known[build[p]] \in Nat /\ Carries(build[p]) \subseteq Version
  BY <1>2, BuildFacts, MigratorAssumption DEF Version
<1>5. /\ todo[p] \subseteq Carries(build[p])
      /\ \A w \in Carries(build[p]) \ todo[p] : ledger[w] # NULL
  BY <1>2 DEF LedgerInv, Rely, Planning
<1>6. \A w \in Version : w < v => ledger[w] # NULL
  <2> SUFFICES ASSUME NEW w \in Version, w < v PROVE ledger[w] # NULL
    OBVIOUS
  <2>1. w \in Carries(build[p])
    BY <1>1, <1>4, <1>5 DEF Carries, Version
  <2>2. w \notin todo[p]
    BY <1>1, <1>4 DEF IsNext
  <2> QED BY <1>5, <2>1, <2>2
<1>7. LedgerIsPrefix'
  BY <1>1, <1>3, <1>4, <1>6 DEF LedgerInv, LedgerIsPrefix
<1>8. AppliedOnce'
  BY <1>1, <1>3 DEF LedgerInv, AppliedOnce, Commit, MTypeOK
<1>9. FenceNotAhead'
  BY <1>1, <1>3, <1>4, <1>6 DEF LedgerInv, FenceNotAhead, Commit
<1>10. Rely(p)'
  <2>1. Carries(build[p])' = Carries(build[p])
    BY <1>2 DEF Carries
  <2>2. todo'[p] = todo[p] \ {v}
    BY <1>1 DEF MTypeOK
  <2>3. \A w \in Carries(build[p]) \ todo'[p] : ledger'[w] # NULL
    BY <1>1, <1>3, <1>4, <1>5, <2>2
  <2> QED BY <1>2, <1>5, <2>1, <2>2, <2>3 DEF Rely, Planning, Succeeds
<1>11. ASSUME NEW q \in Proc, q # p PROVE Rely(q)'
  <2>1. Moves(p) /\ [Next]_vars
    BY DEF Moves, Step, Next
  <2> QED BY <1>11, <2>1, OthersKeep, RelyStable DEF LedgerInv
<1> QED BY <1>7, <1>8, <1>9, <1>10, <1>11 DEF LedgerInv

LEMMA LedgerStep == MTypeOK /\ LedgerInv /\ [Next]_vars => LedgerInv'
<1> SUFFICES ASSUME MTypeOK, LedgerInv, [Next]_vars PROVE LedgerInv'
  OBVIOUS
<1>1. CASE UNCHANGED vars
  <2>1. \A q \in Proc : Same(q)
    BY <1>1 DEF Same, vars, private
  <2> QED BY <1>1, <2>1, RelyStable
          DEF LedgerInv, LedgerIsPrefix, AppliedOnce, FenceNotAhead, vars, database
<1>2. CASE Reboot
  BY <1>2 DEF LedgerInv, LedgerIsPrefix, AppliedOnce, FenceNotAhead, Reboot, database, Rely,
              Planning, Succeeds
<1>3. CASE Tick
  <2>1. \A q \in Proc : Same(q)
    BY <1>3 DEF Same, Tick
  <2> QED BY <1>3, <2>1, RelyStable
          DEF LedgerInv, LedgerIsPrefix, AppliedOnce, FenceNotAhead, Tick, database
<1>4. ASSUME NEW p \in Proc, ApplyOne(p) \/ RebuildInTx(p) PROVE LedgerInv'
  BY <1>4, ApplyKeepsLedger
<1>5. ASSUME NEW p \in Proc, Moves(p), ~ApplyOne(p), ~RebuildInTx(p) PROVE LedgerInv'
  <2>1. ledger' = ledger /\ ran' = ran
    BY <1>5, LedgerWriters
  <2>2. \A q \in Proc \ {p} : Rely(q)'
    BY <1>5, OthersKeep, RelyStable DEF LedgerInv
  <2>3. LedgerIsPrefix' /\ AppliedOnce'
    BY <2>1 DEF LedgerInv, LedgerIsPrefix, AppliedOnce
  <2>4. FenceNotAhead'
    <3>1. CASE RepairUserVersion(p)
      BY <2>1, <3>1 DEF LedgerInv, Rely, RepairUserVersion, FenceNotAhead
    <3>2. CASE ~RepairUserVersion(p)
      <4>1. fence' = fence
        BY <1>5, <3>2
           DEF Moves, Start, Exit, Cancel, Step, ReadUserVersion, ReadLedger, TryLockMigrations,
               GiveUp, RereadLedger, ApplyFails, DisableKeys, RebuildFails, RestoreKeys,
               AllApplied, UnlockMigrations, database
      <4> QED BY <2>1, <4>1 DEF LedgerInv, FenceNotAhead
    <3> QED BY <3>1, <3>2
  <2>5. Rely(p)'
    <3>0. Rely(p)
      BY DEF LedgerInv
    <3>1. CASE Start(p)
      BY <3>1 DEF Rely, Planning, Succeeds, Start, Goto, MTypeOK
    <3>2. CASE Exit(p)
      BY <3>2 DEF Rely, Planning, Succeeds, Exit, Goto, MTypeOK
    <3>3. CASE Cancel(p) \/ GiveUp(p)
      BY <3>3 DEF Rely, Planning, Succeeds, Cancel, GiveUp, Goto, MTypeOK
    <3>4. CASE ReadUserVersion(p)
      BY <3>4 DEF Rely, Planning, Succeeds, ReadUserVersion, Goto, MTypeOK
    <3>5. CASE ReadLedger(p)
      <4>1. pc[p] = "ledger" /\ build[p] \in Build /\ build' = build
        BY <3>5 DEF ReadLedger, MTypeOK
      <4>2. Carries(build[p])' = Carries(build[p]) /\ Carries(build[p]) \subseteq Version
        BY <4>1, BuildFacts DEF Carries
      <4>3. CASE pc'[p] \in {"refused", "lock"}
        BY <4>3 DEF Rely, Planning, Succeeds
      <4>4. CASE pc'[p] \in {"done", "repair"}
        <5>1. CheckApplied(build[p], ledger) /\ Pending(build[p], ledger) = {}
          BY <3>5, <4>4 DEF ReadLedger, Goto, MTypeOK
        <5>2. Applied(ledger) = Carries(build[p]) /\ Highest(ledger) = Known[build[p]]
          BY <4>1, <5>1, HighestOfComplete DEF CheckApplied
        <5>3. \A v \in Carries(build[p]) : ledger[v] # NULL
          BY <5>2 DEF Applied
        <5>4. pc'[p] = "repair" => cur'[p] = Known[build[p]]
          BY <3>5, <5>2 DEF ReadLedger, Goto, MTypeOK
        <5>5. \A v \in Version : v <= Known[build[p]] => v \in Carries(build[p])
          BY DEF Version, Carries
        <5> QED BY <2>1, <4>2, <4>4, <5>3, <5>4, <5>5 DEF Rely, Planning, Succeeds
      <4> QED BY <3>5, <4>3, <4>4 DEF ReadLedger, Goto, MTypeOK
    <3>6. CASE RepairUserVersion(p)
      <4>1. pc[p] = "repair" /\ pc'[p] = "done" /\ build' = build
        BY <3>6 DEF RepairUserVersion, Goto, MTypeOK
      <4>2. Carries(build[p])' = Carries(build[p])
        BY <4>1 DEF Carries
      <4> QED BY <2>1, <3>0, <4>1, <4>2 DEF Rely, Planning, Succeeds
    <3>7. CASE TryLockMigrations(p)
      BY <3>7 DEF Rely, Planning, Succeeds, TryLockMigrations, Goto, MTypeOK
    <3>8. CASE RereadLedger(p)
      <4>1. build[p] \in Build /\ build' = build
        BY <3>8 DEF RereadLedger, MTypeOK
      <4>2. Carries(build[p])' = Carries(build[p])
        BY <4>1 DEF Carries
      <4>3. CASE pc'[p] = "apply"
        <5>1. todo'[p] = Pending(build[p], ledger)
          BY <3>8, <4>3 DEF RereadLedger, Returning, Goto, MTypeOK
        <5> QED BY <2>1, <4>2, <4>3, <5>1 DEF Rely, Planning, Succeeds, Pending
      <4>4. CASE pc'[p] = "unlock" /\ verdict'[p] = "refused"
        BY <4>4 DEF Rely, Planning, Succeeds
      <4> QED BY <3>8, <4>3, <4>4 DEF RereadLedger, Returning, Goto, MTypeOK
    <3>9. CASE ApplyFails(p)
      BY <3>9 DEF Rely, Planning, Succeeds, ApplyFails, Returning, Goto, MTypeOK
    <3>10. CASE DisableKeys(p)
      <4>1. pc[p] = "apply" /\ pc'[p] = "rebuild" /\ build' = build /\ todo' = todo
        BY <3>10 DEF DisableKeys, Goto, MTypeOK
      <4>2. Carries(build[p])' = Carries(build[p])
        BY <4>1 DEF Carries
      <4> QED BY <2>1, <3>0, <4>1, <4>2 DEF Rely, Planning, Succeeds
    <3>11. CASE RebuildFails(p)
      BY <3>11 DEF Rely, Planning, Succeeds, RebuildFails, Goto, MTypeOK
    <3>12. CASE RestoreKeys(p)
      <4>1. /\ pc[p] = "keys" /\ build' = build /\ todo' = todo /\ verdict' = verdict
            /\ \/ pc'[p] = "unlock" /\ verdict[p] = "failed"
               \/ pc'[p] = "apply" /\ verdict[p] # "failed"
        BY <3>12 DEF RestoreKeys, Goto, MTypeOK
      <4>2. Carries(build[p])' = Carries(build[p])
        BY <4>1 DEF Carries
      <4> QED BY <2>1, <3>0, <4>1, <4>2 DEF Rely, Planning, Succeeds
    <3>13. CASE AllApplied(p)
      <4>1. pc[p] = "apply" /\ todo[p] = {} /\ pc'[p] = "unlock" /\ build' = build
        BY <3>13 DEF AllApplied, Returning, Goto, MTypeOK
      <4>2. Carries(build[p])' = Carries(build[p])
        BY <4>1 DEF Carries
      <4> QED BY <2>1, <3>0, <4>1, <4>2 DEF Rely, Planning, Succeeds
    <3>14. CASE UnlockMigrations(p)
      <4>1. /\ pc[p] = "unlock" /\ pc'[p] = verdict[p] /\ verdict[p] \in Ended /\ build' = build
        BY <3>14 DEF UnlockMigrations, Goto, MTypeOK
      <4>2. Carries(build[p])' = Carries(build[p])
        BY <4>1 DEF Carries
      <4> QED BY <2>1, <3>0, <4>1, <4>2 DEF Rely, Planning, Succeeds, Ended
    <3> QED BY <1>5, <3>1, <3>2, <3>3, <3>4, <3>5, <3>6, <3>7, <3>8, <3>9, <3>10, <3>11, <3>12,
               <3>13, <3>14 DEF Moves, Step
  <2> QED BY <2>2, <2>3, <2>4, <2>5 DEF LedgerInv
<1> QED BY <1>1, <1>2, <1>3, <1>4, <1>5 DEF Next, Moves

-----------------------------------------------------------------------------
(* The lock. *)

Owns(p) == lock # NULL /\ lock.holder = Me(p)

PidsDiffer == \A p \in Proc : \A q \in Proc : pid[p] = pid[q] /\ pid[p] # NULL => p = q

\* An owner's row expires no sooner than its owner has held it for TTL.
Countdown == \A p \in Proc : pc[p] \in Guarded /\ Owns(p) => held[p] + lock.left >= TTL

LockInv == PidsDiffer /\ LostOnlyByOverstaying /\ Countdown

\* Nobody but the process that takes the row becomes its owner.
LEMMA OwnerBefore ==
    ASSUME MTypeOK, PidsDiffer, NEW p \in Proc, Moves(p), NEW q \in Proc \ {p},
           pc[q] # "off"
    PROVE  /\ Owns(q)' => Owns(q) /\ lock' = lock
           /\ Owns(q) /\ ~TryLockMigrations(p) => Owns(q)'
<1>1. pid[q] # NULL /\ pid[p] # pid[q]
  BY DEF MTypeOK, PidsDiffer
<1>2. Me(p) # Me(q)
  BY <1>1 DEF Me
<1>3. Me(q)' = Me(q)
  <2>1. Same(q)
    BY OthersKeep
  <2>2. boot' = boot
    BY DEF Moves, Start, Exit, Cancel, Step, ReadUserVersion, ReadLedger, RepairUserVersion,
           TryLockMigrations, GiveUp, RereadLedger, ApplyOne, ApplyFails, DisableKeys, RebuildInTx,
           RebuildFails, RestoreKeys, AllApplied, UnlockMigrations
  <2> QED BY <2>1, <2>2 DEF Me, Same
<1>4. CASE TryLockMigrations(p)
  <2>1. lock'.holder = Me(p)
    BY <1>4 DEF TryLockMigrations
  <2> QED BY <1>2, <1>3, <1>4, <2>1 DEF Owns
<1>5. CASE UnlockMigrations(p)
  BY <1>2, <1>3, <1>5 DEF Owns, UnlockMigrations
<1>6. CASE ~TryLockMigrations(p) /\ ~UnlockMigrations(p)
  <2>1. lock' = lock
    BY <1>6 DEF Moves, Start, Exit, Cancel, Step, ReadUserVersion, ReadLedger, RepairUserVersion,
           GiveUp, RereadLedger, ApplyOne, ApplyFails, DisableKeys, RebuildInTx, RebuildFails,
           RestoreKeys, AllApplied
  <2> QED BY <1>3, <2>1 DEF Owns
<1> QED BY <1>4, <1>5, <1>6

\* What a process does to its own claim on the lock, once it is guarded.
LEMMA OwnerKeeps ==
    ASSUME MTypeOK, NEW p \in Proc, Moves(p), pc'[p] \in Guarded, ~TryLockMigrations(p)
    PROVE  /\ pc[p] \in Guarded /\ held'[p] = held[p] /\ lock' = lock
           /\ Owns(p)' <=> Owns(p)
<1>1. /\ pc[p] \in Guarded /\ held'[p] = held[p] /\ lock' = lock /\ boot' = boot
      /\ pid'[p] = pid[p]
  <2>1. CASE Start(p) \/ Exit(p) \/ Cancel(p)
    BY <2>1 DEF MTypeOK, Start, Exit, Cancel, Goto, Guarded
  <2>2. CASE ReadUserVersion(p) \/ ReadLedger(p) \/ RepairUserVersion(p) \/ GiveUp(p)
    BY <2>2 DEF MTypeOK, ReadUserVersion, ReadLedger, RepairUserVersion, GiveUp, Goto, Guarded
  <2>3. CASE RereadLedger(p) \/ ApplyFails(p) \/ AllApplied(p)
    BY <2>3 DEF MTypeOK, RereadLedger, ApplyFails, AllApplied, Guarded
  <2>4. CASE ApplyOne(p) \/ DisableKeys(p) \/ RebuildInTx(p) \/ RebuildFails(p) \/ RestoreKeys(p)
    BY <2>4 DEF MTypeOK, ApplyOne, DisableKeys, RebuildInTx, RebuildFails, RestoreKeys, Guarded
  <2>5. CASE UnlockMigrations(p)
    BY <2>5 DEF MTypeOK, UnlockMigrations, Goto, Guarded, Ended
  <2> QED BY <2>1, <2>2, <2>3, <2>4, <2>5 DEF Moves, Step
<1> QED BY <1>1 DEF Owns, Me

LEMMA LockInit == Init => LockInv
BY DEF Init, LockInv, PidsDiffer, LostOnlyByOverstaying, Countdown, Guarded

LEMMA PidsDifferStep == MTypeOK /\ PidsDiffer /\ [Next]_vars => PidsDiffer'
<1> SUFFICES ASSUME MTypeOK, PidsDiffer, [Next]_vars PROVE PidsDiffer'
  OBVIOUS
<1>1. CASE UNCHANGED vars \/ Reboot \/ Tick
  BY <1>1 DEF PidsDiffer, vars, private, Reboot, Reset, Tick
<1>2. ASSUME NEW p \in Proc, Start(p) PROVE PidsDiffer'
  BY <1>2 DEF MTypeOK, PidsDiffer, Start
<1>3. ASSUME NEW p \in Proc, Exit(p) PROVE PidsDiffer'
  BY <1>3 DEF MTypeOK, PidsDiffer, Exit
<1>4. ASSUME NEW p \in Proc, Cancel(p) \/ Step(p) PROVE PidsDiffer'
  <2>1. pid' = pid
    BY <1>4 DEF Cancel, Step, ReadUserVersion, ReadLedger, RepairUserVersion, TryLockMigrations,
           GiveUp, RereadLedger, ApplyOne, ApplyFails, DisableKeys, RebuildInTx, RebuildFails,
           RestoreKeys, AllApplied, UnlockMigrations, private
  <2> QED BY <2>1 DEF PidsDiffer
<1> QED BY <1>1, <1>2, <1>3, <1>4 DEF Next

LEMMA LockStep == MTypeOK /\ LockInv /\ [Next]_vars => LockInv'
<1> SUFFICES ASSUME MTypeOK, LockInv, [Next]_vars PROVE LockInv'
  OBVIOUS
<1>0. PidsDiffer' /\ PidsDiffer /\ TTL \in Nat
  BY PidsDifferStep, MigratorAssumption DEF LockInv
<1> SUFFICES ASSUME NEW q \in Proc, pc'[q] \in Guarded
             PROVE  /\ Owns(q)' \/ held'[q] >= TTL
                    /\ Owns(q)' => held'[q] + lock'.left >= TTL
  BY <1>0 DEF LockInv, LostOnlyByOverstaying, Countdown, Owns
<1>1. pc[q] \in Guarded => /\ Owns(q) \/ held[q] >= TTL
                           /\ Owns(q) => held[q] + lock.left >= TTL
  BY DEF LockInv, LostOnlyByOverstaying, Countdown, Owns
<1>2. CASE UNCHANGED vars
  BY <1>1, <1>2 DEF vars, private, Owns, Me
<1>3. CASE Reboot
  BY <1>3 DEF Reboot, Guarded
<1>4. CASE Tick
  <2>1. pc[q] \in Guarded /\ held[q] \in Nat
        /\ held'[q] = IF held[q] < TTL THEN held[q] + 1 ELSE held[q]
    BY <1>4 DEF Tick, MTypeOK
  <2>2. CASE lock = NULL
    BY <1>0, <1>1, <1>4, <2>1, <2>2 DEF Tick, Owns
  <2>3. CASE lock # NULL
    <3>1. lock \in LockRow /\ lock' \in LockRow /\ lock' # NULL /\ lock'.holder = lock.holder
          /\ lock'.left = IF lock.left > 0 THEN lock.left - 1 ELSE lock.left
      BY <1>4, <2>3, MigratorAssumption DEF Tick, MTypeOK, LockRow
    <3>2. Owns(q)' <=> Owns(q)
      BY <1>4, <2>3, <3>1 DEF Owns, Me, Tick
    <3>3. lock.left \in Nat
      BY <1>0, <3>1 DEF LockRow
    <3> QED BY <1>0, <1>1, <2>1, <3>1, <3>2, <3>3
  <2> QED BY <2>2, <2>3
<1>5. ASSUME NEW p \in Proc, Moves(p), p # q
      PROVE  /\ Owns(q)' \/ held'[q] >= TTL
             /\ Owns(q)' => held'[q] + lock'.left >= TTL
  <2>1. Same(q) /\ held'[q] = held[q] /\ pc[q] \in Guarded /\ pc[q] # "off"
    BY <1>5, OthersKeep DEF Same, Guarded
  <2>2. /\ Owns(q)' => Owns(q) /\ lock' = lock
        /\ Owns(q) /\ ~TryLockMigrations(p) => Owns(q)'
    BY <1>0, <1>5, <2>1, OwnerBefore
  <2>3. TryLockMigrations(p) /\ Owns(q) => held[q] >= TTL
    <3> SUFFICES ASSUME TryLockMigrations(p), Owns(q) PROVE held[q] >= TTL
      OBVIOUS
    <3>1. pid[q] # NULL /\ Me(p) # Me(q)
      BY <1>0, <1>5, <2>1 DEF MTypeOK, PidsDiffer, Me
    <3>2. HolderAlive(lock.holder)
      BY DEF Owns, Me, HolderAlive
    <3>3. lock.left = 0
      BY <3>1, <3>2 DEF TryLockMigrations, MayTake, Owns
    <3> QED BY <1>0, <1>1, <2>1, <3>3 DEF MTypeOK
  <2> QED BY <1>1, <2>1, <2>2, <2>3
<1>6. ASSUME Moves(q)
      PROVE  /\ Owns(q)' \/ held'[q] >= TTL
             /\ Owns(q)' => held'[q] + lock'.left >= TTL
  <2>1. CASE TryLockMigrations(q)
    <3>1. lock' = [holder |-> Me(q), left |-> TTL] /\ Me(q)' = Me(q) /\ held'[q] = held[q]
      BY <2>1 DEF TryLockMigrations, Me
    <3>2. lock' # NULL
      <4>1. Me(q) \in [boot : Nat, pid : Pid]
        BY <2>1 DEF Me, TryLockMigrations, MTypeOK
      <4>2. lock' \in LockRow
        BY <1>0, <3>1, <4>1 DEF LockRow
      <4> QED BY <4>2, MigratorAssumption
    <3>3. held[q] \in Nat
      BY DEF MTypeOK
    <3> QED BY <1>0, <3>1, <3>2, <3>3 DEF Owns
  <2>2. CASE ~TryLockMigrations(q)
    BY <1>1, <1>6, <2>2, OwnerKeeps
  <2> QED BY <2>1, <2>2
<1> QED BY <1>2, <1>3, <1>4, <1>5, <1>6 DEF Next, Moves

-----------------------------------------------------------------------------
(* Whose files the rows come from, as long as nobody overstays. *)

\* The rows a process counts on are its own, and while it owns the lock nobody
\* has taken a version of its plan.
OwnFiles(p) ==
    /\ Planning(p) => \A v \in Carries(build[p]) \ todo[p] : ledger[v] = Text[build[p]][v]
    /\ pc[p] = "repair" \/ Succeeds(p) =>
          \A v \in Carries(build[p]) : ledger[v] = Text[build[p]][v]
    /\ Planning(p) /\ Owns(p) => /\ Recognised(build[p], ledger)
                                 /\ \A v \in todo[p] : ledger[v] = NULL

BuildInv == overstayed \/ (LedgerOfOneBuild /\ \A p \in Proc : OwnFiles(p))

LEMMA OwnFilesStable ==
    ASSUME MTypeOK, [Next]_vars, LedgerInv, NEW q \in Proc, OwnFiles(q), Same(q),
           Owns(q)' => Owns(q) /\ ledger' = ledger
    PROVE  OwnFiles(q)'
<1>1. CASE pc[q] = "off"
  BY <1>1 DEF OwnFiles, Same, Planning, Succeeds
<1>2. CASE pc[q] # "off"
  <2> DEFINE C == Carries(build[q])
             T == Text[build[q]]
  <2>0. build[q] \in Build
    BY <1>2 DEF MTypeOK
  <2>1. /\ C \subseteq Version /\ Carries(build[q])' = C /\ Text[build[q]]' = T
        /\ \A v \in Version : T[v] # NULL
    BY <2>0, BuildFacts DEF Carries, Same
  <2>2. \A v \in Version : ledger[v] # NULL => ledger'[v] = ledger[v]
    BY LedgerGrows
  <2>3. Planning(q)' = Planning(q) /\ Succeeds(q)' = Succeeds(q)
    BY DEF Planning, Succeeds, Same
  <2>4. Planning(q)' => \A v \in C \ todo'[q] : ledger'[v] = T[v]
    BY <2>1, <2>2, <2>3 DEF OwnFiles, Same
  <2>5. pc'[q] = "repair" \/ Succeeds(q)' => \A v \in C : ledger'[v] = T[v]
    BY <2>1, <2>2, <2>3 DEF OwnFiles, Same
  <2>6. Planning(q)' /\ Owns(q)' => /\ Recognised(build[q], ledger)'
                                    /\ \A v \in todo'[q] : ledger'[v] = NULL
    BY <2>3 DEF OwnFiles, Same, Recognised, Carries
  <2> HIDE DEF C, T
  <2>7. OwnFiles(q)' <=>
          /\ Planning(q)' => \A v \in C \ todo'[q] : ledger'[v] = T[v]
          /\ pc'[q] = "repair" \/ Succeeds(q)' => \A v \in C : ledger'[v] = T[v]
          /\ Planning(q)' /\ Owns(q)' => /\ Recognised(build[q], ledger)'
                                         /\ \A v \in todo'[q] : ledger'[v] = NULL
    BY <2>1 DEF OwnFiles
  <2> QED BY <2>4, <2>5, <2>6, <2>7
<1> QED BY <1>1, <1>2

\* Who applies a version without overstaying owns the lock, so that the row it
\* adds continues a ledger of its own build.
LEMMA ApplyKeepsBuild ==
    ASSUME MTypeOK, LedgerInv, LockInv, BuildInv, NEW p \in Proc, ApplyOne(p) \/ RebuildInTx(p)
    PROVE  BuildInv'
<1>1. PICK v \in todo[p] : /\ v \in Version /\ IsNext(p, v) /\ Commit(p, v)
                           /\ todo' = [todo EXCEPT ![p] = todo[p] \ {v}]
  BY Applies
<1>2. /\ build[p] \in Build /\ pc[p] \in {"apply", "rebuild"} /\ pc'[p] \in {"apply", "keys"}
      /\ build' = build /\ verdict' = verdict /\ lock' = lock /\ boot' = boot /\ pid' = pid
  BY Applies
<1>3. \A w \in Version : ledger'[w] = IF w = v /\ ledger[v] = NULL
                                      THEN Text[build[p]][v] ELSE ledger[w]
  BY <1>1, <1>2, CommitRows
<1>4. SUFFICES ASSUME ~overstayed' PROVE LedgerOfOneBuild' /\ \A q \in Proc : OwnFiles(q)'
  BY DEF BuildInv
<1>5. ~overstayed /\ Owns(p) /\ Planning(p) /\ OwnFiles(p)
  BY <1>1, <1>2, <1>4 DEF Commit, Owns, Planning, BuildInv
<1>6. /\ v \in Carries(build[p]) /\ ledger[v] = NULL /\ Recognised(build[p], ledger)
      /\ \A w \in todo[p] : ledger[w] = NULL
      /\ \A w \in Carries(build[p]) \ todo[p] : ledger[w] = Text[build[p]][w]
  BY <1>1, <1>2, <1>5 DEF OwnFiles, LedgerInv, Rely
<1>7. Recognised(build[p], ledger')
  BY <1>1, <1>3, <1>6 DEF Recognised, Applied
<1>8. LedgerOfOneBuild'
  BY <1>2, <1>7 DEF LedgerOfOneBuild, Recognised, Applied, Carries
<1>9. OwnFiles(p)'
  <2>1. Carries(build[p])' = Carries(build[p]) /\ Text[build[p]]' = Text[build[p]]
        /\ Carries(build[p]) \subseteq Version
    BY <1>2, BuildFacts DEF Carries
  <2>2. todo'[p] = todo[p] \ {v} /\ todo[p] \subseteq Version
    BY <1>1 DEF MTypeOK
  <2>3. \A w \in Carries(build[p]) \ todo'[p] : ledger'[w] = Text[build[p]][w]
    BY <1>1, <1>3, <1>6, <2>1, <2>2
  <2>4. \A w \in todo'[p] : ledger'[w] = NULL
    BY <1>3, <1>6, <2>2
  <2>5. Recognised(build[p], ledger)'
    BY <1>7, <1>2, <2>1 DEF Recognised, Applied
  <2> QED BY <1>2, <2>1, <2>3, <2>4, <2>5 DEF OwnFiles, Planning, Succeeds
<1>10. ASSUME NEW q \in Proc, q # p PROVE OwnFiles(q)'
  <2>1. Moves(p) /\ [Next]_vars
    BY DEF Moves, Step, Next
  <2>2. Same(q)
    BY <1>10, <2>1, OthersKeep
  <2>3. CASE pc[q] = "off"
    BY <2>2, <2>3 DEF OwnFiles, Same, Planning, Succeeds
  <2>4. CASE pc[q] # "off"
    <3>1. ~Owns(q)
      BY <1>5, <1>10, <2>4 DEF Owns, Me, LockInv, PidsDiffer, MTypeOK
    <3>2. ~Owns(q)'
      BY <1>2, <3>1 DEF Owns, Me
    <3> QED BY <1>5, <2>1, <2>2, <3>2, OwnFilesStable DEF BuildInv
  <2> QED BY <2>3, <2>4
<1> QED BY <1>8, <1>9, <1>10

LEMMA BuildInit == Init => BuildInv
<1> SUFFICES ASSUME Init PROVE BuildInv
  OBVIOUS
<1>0. PICK b \in Build : \E k \in 0..Known[b] :
        ledger = [v \in Version |-> IF v <= k THEN Text[b][v] ELSE NULL]
  BY DEF Init
<1>1. PICK k \in 0..Known[b] :
        ledger = [v \in Version |-> IF v <= k THEN Text[b][v] ELSE NULL]
  BY <1>0
<1>2. Known[b] \in Nat /\ Version \subseteq Nat
  BY BuildFacts, MigratorAssumption DEF Version
<1>3. \A v \in Version : ledger[v] # NULL => v <= k /\ ledger[v] = Text[b][v]
  BY <1>1
<1>4. Recognised(b, ledger)
  BY <1>2, <1>3 DEF Recognised, Applied, Carries, Version
<1>5. \A p \in Proc : pc[p] = "off"
  BY DEF Init
<1> QED BY <1>4, <1>5 DEF BuildInv, LedgerOfOneBuild, OwnFiles, Planning, Succeeds

LEMMA BuildStep == MTypeOK /\ LedgerInv /\ LockInv /\ BuildInv /\ [Next]_vars => BuildInv'
<1> SUFFICES ASSUME MTypeOK, LedgerInv, LockInv, BuildInv, [Next]_vars PROVE BuildInv'
  OBVIOUS
<1>1. ASSUME NEW p \in Proc, ApplyOne(p) \/ RebuildInTx(p) PROVE BuildInv'
  BY <1>1, ApplyKeepsBuild
<1>2. CASE UNCHANGED vars \/ Tick
  <2>1. \A q \in Proc : Same(q)
    BY <1>2 DEF Same, vars, private, Tick
  <2>2. ledger' = ledger /\ overstayed' = overstayed
    BY <1>2 DEF vars, database, Tick
  <2>3. ASSUME NEW q \in Proc, Owns(q)' PROVE Owns(q)
    <3>1. CASE UNCHANGED vars
      BY <2>3, <3>1 DEF Owns, Me, vars, private
    <3>2. CASE Tick
      <4>1. lock # NULL /\ lock'.holder = lock.holder
        BY <2>3, <3>2 DEF Tick, Owns, MTypeOK, LockRow
      <4> QED BY <2>3, <3>2, <4>1 DEF Owns, Me, Tick
    <3> QED BY <1>2, <3>1, <3>2
  <2> QED BY <2>1, <2>2, <2>3, OwnFilesStable DEF BuildInv, LedgerOfOneBuild, Recognised, Applied
<1>3. CASE Reboot
  BY <1>3 DEF Reboot, database, BuildInv, LedgerOfOneBuild, Recognised, Applied, OwnFiles,
              Planning, Succeeds
<1>4. ASSUME NEW p \in Proc, Moves(p), ~ApplyOne(p), ~RebuildInTx(p) PROVE BuildInv'
  <2>1. ledger' = ledger /\ overstayed' = overstayed
    BY <1>4, LedgerWriters
  <2>2. SUFFICES ASSUME ~overstayed PROVE \A q \in Proc : OwnFiles(q)'
    BY <2>1 DEF BuildInv, LedgerOfOneBuild, Recognised, Applied
  <2>3. ASSUME NEW q \in Proc, q # p PROVE OwnFiles(q)'
    <3>1. Same(q) /\ OwnFiles(q)
      BY <1>4, <2>2, <2>3, OthersKeep DEF BuildInv
    <3>2. CASE pc[q] = "off"
      BY <3>1, <3>2 DEF OwnFiles, Same, Planning, Succeeds
    <3>3. CASE pc[q] # "off"
      BY <1>4, <2>1, <2>3, <3>1, <3>3, OwnerBefore, OwnFilesStable DEF LockInv
    <3> QED BY <3>2, <3>3
  <2>4. OwnFiles(p)'
    <3>0. OwnFiles(p) /\ pc[p] \in Running \union Ended \union {"off"}
      BY <2>2 DEF BuildInv, MTypeOK
    <3>1. CASE Start(p) \/ Exit(p) \/ Cancel(p) \/ GiveUp(p)
      BY <3>1 DEF OwnFiles, Planning, Succeeds, Start, Exit, Cancel, GiveUp, Goto, MTypeOK
    <3>2. CASE ReadUserVersion(p) \/ TryLockMigrations(p)
      BY <3>2 DEF OwnFiles, Planning, Succeeds, ReadUserVersion, TryLockMigrations, Goto, MTypeOK
    <3>3. CASE ReadLedger(p)
      <4>1. pc[p] = "ledger" /\ build[p] \in Build /\ build' = build
        BY <3>3 DEF ReadLedger, MTypeOK
      <4>2. /\ Carries(build[p])' = Carries(build[p]) /\ Text[build[p]]' = Text[build[p]]
        BY <4>1 DEF Carries
      <4>3. CASE pc'[p] \in {"refused", "lock"}
        BY <4>3 DEF OwnFiles, Planning, Succeeds
      <4>4. CASE pc'[p] \in {"done", "repair"}
        <5>1. Recognised(build[p], ledger) /\ Pending(build[p], ledger) = {}
          BY <3>3, <4>4 DEF ReadLedger, Goto, MTypeOK, CheckApplied
        <5>2. Applied(ledger) = Carries(build[p])
          BY <4>1, <5>1, HighestOfComplete
        <5>3. \A v \in Carries(build[p]) : ledger[v] = Text[build[p]][v]
          BY <5>1, <5>2 DEF Recognised
        <5> QED BY <2>1, <4>2, <4>4, <5>3 DEF OwnFiles, Planning
      <4> QED BY <3>3, <4>3, <4>4 DEF ReadLedger, Goto, MTypeOK
    <3>4. CASE RepairUserVersion(p)
      <4>1. pc[p] = "repair" /\ pc'[p] = "done" /\ build' = build
        BY <3>4 DEF RepairUserVersion, Goto, MTypeOK
      <4>2. /\ Carries(build[p])' = Carries(build[p]) /\ Text[build[p]]' = Text[build[p]]
        BY <4>1 DEF Carries
      <4> QED BY <2>1, <3>0, <4>1, <4>2 DEF OwnFiles, Planning
    <3>5. CASE RereadLedger(p)
      <4>1. build[p] \in Build /\ build' = build
        BY <3>5 DEF RereadLedger, MTypeOK
      <4>2. /\ Carries(build[p])' = Carries(build[p]) /\ Text[build[p]]' = Text[build[p]]
            /\ Carries(build[p]) \subseteq Version
        BY <4>1, BuildFacts DEF Carries
      <4>3. CASE pc'[p] = "apply"
        <5>1. todo'[p] = Pending(build[p], ledger) /\ Recognised(build[p], ledger)
          BY <3>5, <4>3 DEF RereadLedger, Returning, Goto, MTypeOK, CheckApplied
        <5>2. \A v \in Carries(build[p]) \ todo'[p] : ledger[v] = Text[build[p]][v]
          BY <4>2, <5>1 DEF Pending, Recognised, Applied
        <5>3. \A v \in todo'[p] : ledger[v] = NULL
          BY <5>1 DEF Pending
        <5>4. Recognised(build[p], ledger)'
          BY <2>1, <4>2, <5>1 DEF Recognised, Applied
        <5> QED BY <2>1, <4>2, <4>3, <5>2, <5>3, <5>4 DEF OwnFiles, Planning, Succeeds
      <4>4. CASE pc'[p] = "unlock" /\ verdict'[p] = "refused"
        BY <4>4 DEF OwnFiles, Planning, Succeeds
      <4> QED BY <3>5, <4>3, <4>4 DEF RereadLedger, Returning, Goto, MTypeOK
    <3>6. CASE ApplyFails(p) \/ RebuildFails(p)
      BY <3>6 DEF OwnFiles, Planning, Succeeds, ApplyFails, RebuildFails, Returning, Goto, MTypeOK
    <3>7. CASE DisableKeys(p) \/ RestoreKeys(p) \/ AllApplied(p)
      <4>1. /\ Planning(p)' \/ Succeeds(p)' => Planning(p)
            /\ Planning(p)' => todo'[p] = todo[p]
            /\ Succeeds(p)' => todo[p] = {}
            /\ pc'[p] # "repair" /\ build' = build /\ pc'[p] \in Guarded /\ ~TryLockMigrations(p)
        BY <3>7 DEF Planning, Succeeds, DisableKeys, RestoreKeys, AllApplied, Returning, Goto,
                    TryLockMigrations, Guarded, MTypeOK
      <4>2. /\ Carries(build[p])' = Carries(build[p]) /\ Text[build[p]]' = Text[build[p]]
        BY <4>1 DEF Carries
      <4>3. Owns(p)' <=> Owns(p)
        BY <1>4, <4>1, OwnerKeeps
      <4>4. Recognised(build[p], ledger)' = Recognised(build[p], ledger)
        BY <2>1, <4>2 DEF Recognised, Applied
      <4> QED BY <2>1, <3>0, <4>1, <4>2, <4>3, <4>4 DEF OwnFiles
    <3>8. CASE UnlockMigrations(p)
      <4>1. /\ pc[p] = "unlock" /\ pc'[p] = verdict[p] /\ verdict[p] \in Ended /\ build' = build
        BY <3>8 DEF UnlockMigrations, Goto, MTypeOK
      <4>2. /\ Carries(build[p])' = Carries(build[p]) /\ Text[build[p]]' = Text[build[p]]
        BY <4>1 DEF Carries
      <4> QED BY <2>1, <3>0, <4>1, <4>2 DEF OwnFiles, Planning, Succeeds, Ended
    <3> QED BY <1>4, <3>1, <3>2, <3>3, <3>4, <3>5, <3>6, <3>7, <3>8 DEF Moves, Step
  <2> QED BY <2>3, <2>4
<1> QED BY <1>1, <1>2, <1>3, <1>4 DEF Next, Moves

-----------------------------------------------------------------------------
(* Foreign keys. *)

KeysInv == \A p \in Proc : keysOff[p] => pc[p] \in {"rebuild", "keys", "cancelled"}

LEMMA KeysStep == MTypeOK /\ KeysInv /\ [Next]_vars => KeysInv'
<1> SUFFICES ASSUME MTypeOK, KeysInv, [Next]_vars PROVE KeysInv'
  OBVIOUS
<1>1. CASE UNCHANGED vars \/ Reboot \/ Tick
  BY <1>1 DEF KeysInv, vars, private, Reboot, Reset, Tick
<1>2. ASSUME NEW p \in Proc, Moves(p) PROVE KeysInv'
  <2>1. ASSUME NEW q \in Proc, q # p PROVE keysOff'[q] => pc'[q] \in {"rebuild", "keys", "cancelled"}
    BY <1>2, <2>1, OthersKeep DEF KeysInv, Same
  <2>2. keysOff'[p] => pc'[p] \in {"rebuild", "keys", "cancelled"}
    <3>1. CASE Start(p) \/ Exit(p) \/ Cancel(p) \/ GiveUp(p)
      BY <3>1 DEF KeysInv, Start, Exit, Cancel, GiveUp, Goto, private, MTypeOK
    <3>2. CASE \/ ReadUserVersion(p) \/ ReadLedger(p) \/ RepairUserVersion(p)
               \/ TryLockMigrations(p) \/ RereadLedger(p)
      BY <3>2 DEF KeysInv, ReadUserVersion, ReadLedger, RepairUserVersion, TryLockMigrations,
                  RereadLedger, Goto, MTypeOK
    <3>3. CASE ApplyOne(p) \/ ApplyFails(p) \/ AllApplied(p) \/ UnlockMigrations(p)
      BY <3>3 DEF KeysInv, ApplyOne, ApplyFails, AllApplied, UnlockMigrations, Goto, MTypeOK
    <3>4. CASE DisableKeys(p) \/ RebuildInTx(p) \/ RebuildFails(p) \/ RestoreKeys(p)
      BY <3>4 DEF KeysInv, DisableKeys, RebuildInTx, RebuildFails, RestoreKeys, Goto, MTypeOK
    <3> QED BY <1>2, <3>1, <3>2, <3>3, <3>4 DEF Moves, Step
  <2> QED BY <2>1, <2>2 DEF KeysInv
<1> QED BY <1>1, <1>2 DEF Next, Moves

-----------------------------------------------------------------------------
(* The theorems. *)

MInv == MTypeOK /\ LedgerInv /\ LockInv /\ BuildInv /\ KeysInv

\* What every reachable state satisfies, and what the theorems below read off.
THEOREM MigratorInvariant == Spec => []MInv
<1>1. Init => MInv
  <2>1. Init => KeysInv
    BY DEF Init, KeysInv
  <2> QED BY <2>1, MTypeInit, LedgerInit, LockInit, BuildInit DEF MInv
<1>2. MInv /\ [Next]_vars => MInv'
  BY MTypeStep, LedgerStep, LockStep, BuildStep, KeysStep DEF MInv
<1> QED BY <1>1, <1>2, PTL DEF Spec

\* The schema, the ledger and the fence tell one story at every moment: no
\* crash, race, overstaying or build leaves a version half applied, applied
\* twice, out of order, or announced and missing (migrate.go, applyOne).
THEOREM SchemaIsAlwaysItsLedger == Spec => []SchemaIsItsLedger
<1>1. MInv => SchemaIsItsLedger
  BY DEF MInv, LedgerInv, SchemaIsItsLedger
<1> QED BY <1>1, MigratorInvariant, PTL

\* A migrator loses the lock by outliving it and in no other way, for every
\* lifetime of the lock and every recycling of process ids (tryLockMigrations).
THEOREM LockIsLostByOverstaying == Spec => []LostOnlyByOverstaying
<1>1. MInv => LostOnlyByOverstaying
  BY DEF MInv, LockInv
<1> QED BY <1>1, MigratorInvariant, PTL

\* Success means a complete schema, from the caller's own files unless somebody
\* overstayed, and foreign keys enforced again (migrateFS, applyRebuild).
THEOREM SuccessIsMigrated == Spec => []SuccessMeansMigrated
<1>1. MInv => SuccessMeansMigrated
  <2> SUFFICES ASSUME MInv PROVE SuccessMeansMigrated
    OBVIOUS
  <2>1. DoneMeansMigrated
    BY DEF MInv, LedgerInv, Rely, BuildInv, OwnFiles, Succeeds, DoneMeansMigrated
  <2>2. LedgerOfOneBuild
    BY DEF MInv, BuildInv, LedgerOfOneBuild
  <2>3. KeysComeBack
    BY DEF MInv, KeysInv, KeysComeBack, Ended
  <2> QED BY <2>1, <2>2, <2>3 DEF SuccessMeansMigrated
<1> QED BY <1>1, MigratorInvariant, PTL

\* No build applies a migration to a database that has a version beyond it, also
\* when that version arrived after the build had looked (checkApplied, applyOne).
\* Rows and statements are covered, user_version is not.
THEOREM NewerIsNeverMigrated == Spec => NewerIsNotMigrated
<1>1. MInv /\ [Next]_vars =>
        [\A p \in Proc : todo'[p] # todo[p] /\ ledger' # ledger
           => \A v \in Version : ledger[v] # NULL => v \in Carries(build[p])]_vars
  <2> SUFFICES ASSUME MInv, [Next]_vars, NEW p \in Proc, todo'[p] # todo[p], ledger' # ledger,
                      NEW w \in Version, ledger[w] # NULL
               PROVE  w \in Carries(build[p])
    OBVIOUS
  <2>0. MTypeOK /\ LedgerInv
    BY DEF MInv
  <2>1. PICK q \in Proc : ApplyOne(q) \/ RebuildInTx(q)
    <3>1. ~UNCHANGED vars /\ ~Reboot /\ ~Tick
      BY DEF vars, database, Reboot, Tick
    <3> QED BY <3>1, LedgerWriters DEF Next, Moves
  <2>2. q = p
    BY <2>0, <2>1, OthersKeep DEF Same, Moves, Step
  <2>3. PICK v \in todo[p] : v \in Version /\ Commit(p, v)
    BY <2>0, <2>1, <2>2, Applies
  <2>4. ledger[v] = NULL /\ v \in Carries(build[p]) /\ build[p] \in Build
    <3>1. build[p] \in Build /\ pc[p] \in {"apply", "rebuild"}
      BY <2>0, <2>1, <2>2, Applies
    <3> QED BY <2>0, <2>3, <3>1 DEF LedgerInv, Rely, Commit, MTypeOK
  <2>5. Version \subseteq Nat /\ Known[build[p]] \in Nat
    BY <2>4, BuildFacts, MigratorAssumption DEF Version
  <2>6. ~(v < w)
    BY <2>0, <2>3, <2>4 DEF LedgerInv, LedgerIsPrefix
  <2> QED BY <2>3, <2>4, <2>5, <2>6 DEF Carries, Version
<1> QED BY <1>1, MigratorInvariant, PTL DEF Spec, NewerIsNotMigrated
=============================================================================
