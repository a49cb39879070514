------------------------------ MODULE Migrator ------------------------------
(***************************************************************************)
(* Store.Migrate (src/internal/store/migrate.go): several processes, each  *)
(* started from some build of the program, bring one database up to the    *)
(* highest schema version their build carries.  One action stands for one  *)
(* access to the database; between two of them other processes run, the    *)
(* clock advances, and a process may be killed or the machine restarted.   *)
(***************************************************************************)
EXTENDS Naturals, FiniteSets

CONSTANTS
    Proc,       \* processes that may call Migrate
    Build,      \* the builds a process may be started from
    Top,        \* the highest version any build carries
    Known,      \* Known[b]: maxVersion of build b; it carries 1..Known[b]
    Text,       \* Text[b][v]: the checksum of file v as build b carries it
    Rebuild,    \* the versions whose file opts into the table rebuild
    Pid,        \* process ids, recycled by the system
    MaxBoot,    \* how often the machine is up (bound)
    TTL,        \* migrationLockTTL, in ticks
    Patience,   \* migrationLockWait, in ticks
    NULL

Version == 1..Top
Sum     == UNION {{Text[b][v] : v \in Version} : b \in Build}

\* The row of schema_migration_lock: who took it, and how long it is good for.
LockRow == [holder : [boot : Nat, pid : Pid], left : 0..TTL]

ASSUME MigratorAssumption ==
    /\ Top \in Nat \ {0}
    /\ Known \in [Build -> 0..Top]
    /\ \A b \in Build : Text[b] \in [Version -> Sum]
    /\ NULL \notin Sum
    /\ MaxBoot \in Nat /\ TTL \in Nat /\ Patience \in Nat
    /\ NULL \notin Pid /\ NULL \notin Build /\ NULL \notin LockRow

VARIABLES
    ledger,     \* schema_migrations: checksum per version, NULL without a row
    ran,        \* how often the DDL of a version was committed
    fence,      \* PRAGMA user_version
    lock,       \* the row of schema_migration_lock, or NULL
    boot,       \* the boot id of the machine
    pc,         \* where each process is in Migrate
    build,      \* the build each process was started from
    pid,        \* its process id
    cur,        \* the version a process read and has not used yet
    todo,       \* what it still has to apply
    waited,     \* how long it has waited for the lock
    held,       \* how long ago it took the lock
    keysOff,    \* whether foreign_keys is off on its write connection
    verdict,    \* what Migrate returns once the lock is released
    overstayed  \* whether anybody applied a migration without owning the lock

database == <<ledger, ran, fence>>
private  == <<build, pid, cur, todo, waited, held, keysOff, verdict>>
vars == <<database, lock, boot, pc, private, overstayed>>

Ended    == {"done", "refused", "failed", "cancelled"}
Guarded  == {"reread", "apply", "rebuild", "keys", "unlock"}
Running  == {"fence", "ledger", "repair", "lock"} \union Guarded

Applied(l)  == {v \in Version : l[v] # NULL}
MaxOf(S)    == CHOOSE m \in S \union {0} : \A x \in S : x <= m
Highest(l)  == MaxOf(Applied(l))
\* loadMigrations: a directory that skips a number is refused, so a build
\* carries every version up to its highest.
Carries(b)  == 1..Known[b]
Pending(b, l) == {v \in Carries(b) : l[v] = NULL}

\* checkApplied: every row is a file of this build, unchanged, and nothing
\* pending is numbered below a row.
Recognised(b, l) ==
    \A v \in Applied(l) : v \in Carries(b) /\ l[v] = Text[b][v]
CheckApplied(b, l) ==
    /\ Recognised(b, l)
    /\ \A v \in Pending(b, l) : v >= Highest(l)

\* lockHolder and holderAlive, for holders of this host.  A process id says
\* something only within one boot.
Me(p) == [boot |-> boot, pid |-> pid[p]]
HolderAlive(h) ==
    h.boot = boot /\ \E q \in Proc : pid[q] = h.pid
MayTake(p) ==
    lock # NULL => \/ lock.holder = Me(p)
                   \/ lock.left = 0
                   \/ ~HolderAlive(lock.holder)

\* Databases the program can meet: empty, or migrated by some build up to some
\* version; a copy taken in the middle of an upgrade has a lower fence.
Init ==
    /\ \E b \in Build : \E k \in 0..Known[b] :
          /\ ledger = [v \in Version |-> IF v <= k THEN Text[b][v] ELSE NULL]
          /\ ran = [v \in Version |-> IF v <= k THEN 1 ELSE 0]
          /\ fence \in 0..k
    /\ lock = NULL
    /\ boot = 0
    /\ pc = [p \in Proc |-> "off"]
    /\ build = [p \in Proc |-> NULL]
    /\ pid = [p \in Proc |-> NULL]
    /\ cur = [p \in Proc |-> 0]
    /\ todo = [p \in Proc |-> {}]
    /\ waited = [p \in Proc |-> 0]
    /\ held = [p \in Proc |-> 0]
    /\ keysOff = [p \in Proc |-> FALSE]
    /\ verdict = [p \in Proc |-> "done"]
    /\ overstayed = FALSE

Reset ==
    /\ build' = [p \in Proc |-> NULL]
    /\ pid' = [p \in Proc |-> NULL]
    /\ cur' = [p \in Proc |-> 0]
    /\ todo' = [p \in Proc |-> {}]
    /\ waited' = [p \in Proc |-> 0]
    /\ held' = [p \in Proc |-> 0]
    /\ keysOff' = [p \in Proc |-> FALSE]
    /\ verdict' = [p \in Proc |-> "done"]

Goto(p, l) == pc' = [pc EXCEPT ![p] = l]
\* Leaving the lock's scope; what is left to apply is forgotten.
Returning(p, v) ==
    /\ Goto(p, "unlock")
    /\ verdict' = [verdict EXCEPT ![p] = v]
    /\ todo' = [todo EXCEPT ![p] = {}]

-----------------------------------------------------------------------------
(* The life of a process around the call. *)

Start(p) ==
    /\ pc[p] = "off"
    /\ \E b \in Build : build' = [build EXCEPT ![p] = b]
    /\ \E n \in Pid \ {pid[q] : q \in Proc} : pid' = [pid EXCEPT ![p] = n]
    /\ Goto(p, "fence")
    /\ UNCHANGED <<database, lock, boot, cur, todo, waited, held, keysOff,
                   verdict, overstayed>>

\* A process ends, after the call or killed at any point of it.
Exit(p) ==
    /\ pc[p] # "off"
    /\ Goto(p, "off")
    /\ build' = [build EXCEPT ![p] = NULL]
    /\ pid' = [pid EXCEPT ![p] = NULL]
    /\ cur' = [cur EXCEPT ![p] = 0]
    /\ todo' = [todo EXCEPT ![p] = {}]
    /\ waited' = [waited EXCEPT ![p] = 0]
    /\ held' = [held EXCEPT ![p] = 0]
    /\ keysOff' = [keysOff EXCEPT ![p] = FALSE]
    /\ verdict' = [verdict EXCEPT ![p] = "done"]
    /\ UNCHANGED <<database, lock, boot, overstayed>>

\* The caller's context ends: every access fails from here on, the release of
\* the lock and the restoring of foreign_keys included.
Cancel(p) ==
    /\ pc[p] \in Running
    /\ Goto(p, "cancelled")
    /\ UNCHANGED <<database, lock, boot, private, overstayed>>

Reboot ==
    /\ boot < MaxBoot
    /\ boot' = boot + 1
    /\ pc' = [p \in Proc |-> "off"]
    /\ Reset
    /\ UNCHANGED <<database, lock, overstayed>>

Tick ==
    /\ \/ lock # NULL /\ lock.left > 0
       \/ \E p \in Proc : pc[p] = "lock" /\ waited[p] < Patience
    /\ lock' = IF lock # NULL /\ lock.left > 0
               THEN [lock EXCEPT !.left = @ - 1] ELSE lock
    /\ waited' = [p \in Proc |->
                    IF pc[p] = "lock" /\ waited[p] < Patience
                    THEN waited[p] + 1 ELSE waited[p]]
    /\ held' = [p \in Proc |->
                    IF pc[p] \in Guarded /\ held[p] < TTL
                    THEN held[p] + 1 ELSE held[p]]
    /\ UNCHANGED <<database, boot, pc, build, pid, cur, todo, keysOff,
                   verdict, overstayed>>

-----------------------------------------------------------------------------
(* migrateFS. *)

ReadUserVersion(p) ==
    /\ pc[p] = "fence"
    /\ cur' = [cur EXCEPT ![p] = fence]
    /\ Goto(p, IF fence > Known[build[p]] THEN "refused" ELSE "ledger")
    /\ UNCHANGED <<database, lock, boot, build, pid, todo, waited, held,
                   keysOff, verdict, overstayed>>

\* The first look at the ledger (without the table it reads as empty) decides
\* between refusing, repairing the fence, returning at once, and migrating.
ReadLedger(p) ==
    /\ pc[p] = "ledger"
    /\ \/ /\ ~CheckApplied(build[p], ledger)
          /\ Goto(p, "refused") /\ cur' = [cur EXCEPT ![p] = 0]
       \/ /\ CheckApplied(build[p], ledger)
          /\ Pending(build[p], ledger) = {}
          /\ cur[p] >= Highest(ledger)
          /\ Goto(p, "done") /\ cur' = [cur EXCEPT ![p] = 0]
       \/ /\ CheckApplied(build[p], ledger)
          /\ Pending(build[p], ledger) = {}
          /\ cur[p] < Highest(ledger)
          /\ Goto(p, "repair") /\ cur' = [cur EXCEPT ![p] = Highest(ledger)]
       \/ /\ CheckApplied(build[p], ledger)
          /\ Pending(build[p], ledger) # {}
          /\ Goto(p, "lock") /\ cur' = [cur EXCEPT ![p] = 0]
    /\ UNCHANGED <<database, lock, boot, build, pid, todo, waited, held,
                   keysOff, verdict, overstayed>>

\* The version written is the one read with the ledger, one access earlier.
RepairUserVersion(p) ==
    /\ pc[p] = "repair"
    /\ fence' = cur[p]
    /\ cur' = [cur EXCEPT ![p] = 0]
    /\ Goto(p, "done")
    /\ UNCHANGED <<ledger, ran, lock, boot, build, pid, todo, waited,
                   held, keysOff, verdict, overstayed>>

\* lockMigrations: the row is tried again at every poll, which changes nothing
\* while somebody holds it, until the caller's patience ends.
TryLockMigrations(p) ==
    /\ pc[p] = "lock"
    /\ MayTake(p)
    /\ lock' = [holder |-> Me(p), left |-> TTL]
    /\ waited' = [waited EXCEPT ![p] = 0]
    /\ Goto(p, "reread")
    /\ UNCHANGED <<database, boot, build, pid, cur, todo, held, keysOff,
                   verdict, overstayed>>

\* Mutant: the deadline moves along with the polls.
GiveUpNever(p) == pc[p] = "off" /\ pc[p] # "off" /\ UNCHANGED vars
GiveUp(p) ==
    /\ pc[p] = "lock"
    /\ ~MayTake(p)
    /\ waited[p] >= Patience
    /\ Goto(p, "failed")
    /\ UNCHANGED <<database, lock, boot, private, overstayed>>

\* The set is read again under the lock.
RereadLedger(p) ==
    /\ pc[p] = "reread"
    /\ \/ /\ CheckApplied(build[p], ledger)
          /\ todo' = [todo EXCEPT ![p] = Pending(build[p], ledger)]
          /\ Goto(p, "apply") /\ UNCHANGED verdict
       \/ /\ ~CheckApplied(build[p], ledger)
          /\ Returning(p, "refused")
    /\ UNCHANGED <<database, lock, boot, build, pid, cur, waited, held,
                   keysOff, overstayed>>

IsNext(p, v) == v \in todo[p] /\ \A w \in todo[p] : v <= w

\* Mutant: no second look inside the transaction.
CommitUnchecked(p, v) ==
    /\ ledger' = [ledger EXCEPT ![v] = Text[build[p]][v]]
    /\ ran' = [ran EXCEPT ![v] = @ + 1]
    /\ fence' = v
    /\ overstayed' = (overstayed \/ lock = NULL \/ lock.holder # Me(p))

\* The body of both transactions that apply a version: the ledger is read
\* again inside, and DDL, row and fence commit together.
Commit(p, v) ==
    /\ ledger' = IF ledger[v] = NULL
                 THEN [ledger EXCEPT ![v] = Text[build[p]][v]] ELSE ledger
    /\ ran' = IF ledger[v] = NULL THEN [ran EXCEPT ![v] = @ + 1] ELSE ran
    /\ fence' = IF ledger[v] = NULL THEN v ELSE fence
    /\ overstayed' = (overstayed \/ lock = NULL \/ lock.holder # Me(p))

ApplyOne(p) ==
    /\ pc[p] = "apply"
    /\ \E v \in todo[p] \ Rebuild :
          /\ IsNext(p, v)
          /\ Commit(p, v)
          /\ todo' = [todo EXCEPT ![p] = @ \ {v}]
    /\ UNCHANGED <<lock, boot, pc, build, pid, cur, waited, held, keysOff,
                   verdict>>

\* A statement of the file fails, or the commit does: nothing of it stays.
ApplyFails(p) ==
    /\ pc[p] = "apply"
    /\ \E v \in todo[p] \ Rebuild : IsNext(p, v)
    /\ Returning(p, "failed")
    /\ UNCHANGED <<database, lock, boot, build, pid, cur, waited, held,
                   keysOff, overstayed>>

\* applyRebuild: the pragma sits outside the transaction, before and after.
DisableKeys(p) ==
    /\ pc[p] = "apply"
    /\ \E v \in todo[p] \intersect Rebuild : IsNext(p, v)
    /\ keysOff' = [keysOff EXCEPT ![p] = TRUE]
    /\ Goto(p, "rebuild")
    /\ UNCHANGED <<database, lock, boot, build, pid, cur, todo, waited, held,
                   verdict, overstayed>>

RebuildInTx(p) ==
    /\ pc[p] = "rebuild"
    /\ \E v \in todo[p] :
          /\ IsNext(p, v)
          /\ Commit(p, v)
          /\ todo' = [todo EXCEPT ![p] = @ \ {v}]
    /\ Goto(p, "keys")
    /\ UNCHANGED <<lock, boot, build, pid, cur, waited, held, keysOff, verdict>>

\* Mutant: the error returns past the restoring of the pragma.
RebuildFailsAtOnce(p) ==
    /\ pc[p] = "rebuild"
    /\ Goto(p, "unlock")
    /\ verdict' = [verdict EXCEPT ![p] = "failed"]
    /\ todo' = [todo EXCEPT ![p] = {}]
    /\ UNCHANGED <<database, lock, boot, build, pid, cur, waited, held,
                   keysOff, overstayed>>

\* foreign_key_check finds a row without its parent, or a statement fails.
RebuildFails(p) ==
    /\ pc[p] = "rebuild"
    /\ Goto(p, "keys")
    /\ verdict' = [verdict EXCEPT ![p] = "failed"]
    /\ todo' = [todo EXCEPT ![p] = {}]
    /\ UNCHANGED <<database, lock, boot, build, pid, cur, waited, held,
                   keysOff, overstayed>>

RestoreKeys(p) ==
    /\ pc[p] = "keys"
    /\ keysOff' = [keysOff EXCEPT ![p] = FALSE]
    /\ Goto(p, IF verdict[p] = "failed" THEN "unlock" ELSE "apply")
    /\ UNCHANGED <<database, lock, boot, build, pid, cur, todo, waited, held,
                   verdict, overstayed>>

AllApplied(p) ==
    /\ pc[p] = "apply" /\ todo[p] = {}
    /\ Returning(p, "done")
    /\ UNCHANGED <<database, lock, boot, build, pid, cur, waited, held,
                   keysOff, overstayed>>

\* Mutant: whoever holds it.
UnlockAnyones(p) ==
    /\ pc[p] = "unlock"
    /\ lock' = NULL
    /\ held' = [held EXCEPT ![p] = 0]
    /\ Goto(p, verdict[p])
    /\ UNCHANGED <<database, boot, build, pid, cur, todo, waited, keysOff,
                   verdict, overstayed>>

UnlockMigrations(p) ==
    /\ pc[p] = "unlock"
    /\ lock' = IF lock # NULL /\ lock.holder = Me(p) THEN NULL ELSE lock
    /\ held' = [held EXCEPT ![p] = 0]
    /\ Goto(p, verdict[p])
    /\ UNCHANGED <<database, boot, build, pid, cur, todo, waited, keysOff,
                   verdict, overstayed>>

Step(p) ==
    \/ ReadUserVersion(p) \/ ReadLedger(p) \/ RepairUserVersion(p)
    \/ TryLockMigrations(p) \/ GiveUp(p)
    \/ RereadLedger(p) \/ ApplyOne(p) \/ ApplyFails(p)
    \/ DisableKeys(p) \/ RebuildInTx(p) \/ RebuildFails(p) \/ RestoreKeys(p)
    \/ AllApplied(p) \/ UnlockMigrations(p)

Next ==
    \/ \E p \in Proc : Start(p) \/ Exit(p) \/ Cancel(p) \/ Step(p)
    \/ Reboot
    \/ Tick

Spec == Init /\ [][Next]_vars

\* A process that is not killed keeps executing, and time passes.
FairSpec == Spec /\ (\A p \in Proc : WF_vars(Step(p))) /\ WF_vars(Tick)

-----------------------------------------------------------------------------
(* Properties. *)

MTypeOK ==
    /\ ledger \in [Version -> Sum \union {NULL}]
    /\ ran \in [Version -> Nat]
    /\ fence \in 0..Top
    /\ overstayed \in BOOLEAN
    /\ boot \in Nat
    /\ lock = NULL \/ lock \in LockRow
    /\ pc \in [Proc -> Running \union Ended \union {"off"}]
    /\ build \in [Proc -> Build \union {NULL}]
    /\ pid \in [Proc -> Pid \union {NULL}]
    /\ \A p \in Proc : (pc[p] = "off") = (pid[p] = NULL)
    /\ \A p \in Proc : (pc[p] = "off") = (build[p] = NULL)
    /\ cur \in [Proc -> 0..Top]
    /\ todo \in [Proc -> SUBSET Version]
    /\ waited \in [Proc -> Nat] /\ held \in [Proc -> Nat]
    /\ keysOff \in [Proc -> BOOLEAN]
    /\ verdict \in [Proc -> Ended]

\* Versions are applied in order and without a gap, whoever applies them and
\* wherever anybody is killed (applyOne, checkApplied).
LedgerIsPrefix ==
    \A v \in Version : \A w \in Version :
        w < v /\ ledger[v] # NULL => ledger[w] # NULL

\* The schema is what the ledger says: the DDL of a version was committed once
\* if it has a row and never if it has none, "even with the lock ignored".
AppliedOnce ==
    \A v \in Version : ran[v] = IF ledger[v] = NULL THEN 0 ELSE 1

\* user_version never claims a schema the database does not have; a build that
\* could use the database would be refused.
FenceNotAhead == \A v \in Version : v <= fence => ledger[v] # NULL

\* A process that is migrating owns the lock, unless it has held it for longer
\* than its lifetime: no death, restart, recycled process id or release by
\* somebody else takes it away earlier.
LostOnlyByOverstaying ==
    \A p \in Proc : pc[p] \in Guarded =>
        \/ lock # NULL /\ lock.holder = Me(p)
        \/ held[p] >= TTL

\* As long as nobody outlives the lock, the rows of the ledger all come from
\* the files of one build, even when builds with edited files take turns.
LedgerOfOneBuild ==
    overstayed \/ \E b \in Build : Recognised(b, ledger)

\* Migrate returns success only over a database that has every version its
\* build carries, and with the build's own files unless somebody overstayed.
DoneMeansMigrated ==
    \A p \in Proc : pc[p] = "done" =>
        \A v \in Carries(build[p]) :
            /\ ledger[v] # NULL
            /\ overstayed \/ ledger[v] = Text[build[p]][v]

\* A call that returns has foreign_keys back on, unless its context ended.
KeysComeBack ==
    \A p \in Proc : pc[p] \in Ended \ {"cancelled"} => ~keysOff[p]

\* Nobody applies a migration to a database that has a version beyond his build,
\* also when it got there after he looked.  Ledger and statements go together
\* (AppliedOnce).  The fence is not covered: an older build that had nothing to
\* apply may still write back the version it computed before the newer build
\* committed (RepairUserVersion), and then the ledger alone refuses older builds.
NewerIsNotMigrated ==
    [][\A p \in Proc : todo'[p] # todo[p] /\ ledger' # ledger
            => \A v \in Version : ledger[v] # NULL => v \in Carries(build[p])]_vars

\* The schema, its ledger and its fence tell one story at every moment: no crash,
\* race or build leaves a version half applied, applied twice, out of order, or
\* announced and missing.
SchemaIsItsLedger == MTypeOK /\ LedgerIsPrefix /\ AppliedOnce /\ FenceNotAhead

\* What a call that returned success may rely on: its whole schema, from its own
\* files, with foreign keys enforced.
SuccessMeansMigrated == DoneMeansMigrated /\ LedgerOfOneBuild /\ KeysComeBack

\* Every call of Migrate returns: a dead holder, a live one and a row left by
\* a cancelled call are all outlived.  Processes are interchangeable, so it is
\* enough to follow one of them.
MigrateReturns ==
    LET p == CHOOSE q \in Proc : TRUE IN
        pc[p] \in Running ~> pc[p] \notin Running
=============================================================================
