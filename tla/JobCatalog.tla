----------------------------- MODULE JobCatalog -----------------------------
(***************************************************************************)
(* The job catalogue: `paceq apply` reads job files and records them in    *)
(* one transaction, `paceq run` materialises the current version of a job, *)
(* pausing flips a flag, and status reads what is committed.               *)
(*                                                                         *)
(* A call of the store runs one transaction on the single write            *)
(* connection: `db` is what is committed, `work` the open transaction's    *)
(* copy, `writer` the call that holds the write lock.  A call that fails   *)
(* or dies leaves nothing of its copy.  Files are read before the lock is  *)
(* taken and may be edited at any time.                                    *)
(***************************************************************************)
EXTENDS Backoff

CONSTANTS
    Call,             \* calls of the store, each made once
    Job,              \* the jobs callers name
    File,             \* job files, in the order Collect sorts them
    Written,          \* what an editor may leave in a file
    Initial,          \* what the files hold at first
    MaxEdits,         \* BOUND: edits made to the files
    MaxFaults,        \* BOUND: transactions that fail or whose process dies
    MaxWriteAttempts  \* maxWriteAttempts

\* What a file may ever hold.
Documents == (Written \union {Initial[f] : f \in File}) \ {NULL}

\* Job is every name an accepted file may give a job.
ASSUME JobCatalogAssumption ==
    /\ Call \subseteq Nat \ {0} /\ Job \subseteq Name
    /\ File \subseteq Nat /\ IsFiniteSet(File) /\ Initial = [f \in File |-> Initial[f]]
    /\ Documents \subseteq Docs
    /\ \A d \in Documents : Accepted(d) => d.name \in Job
    /\ MaxEdits \in Nat /\ MaxFaults \in Nat /\ MaxWriteAttempts \in Nat \ {0}

VARIABLES
    disk,    \* the document in each file, NULL if the file is gone
    edits,   \* edits made
    faults,  \* faults so far
    db,      \* the committed catalogue
    work,    \* the open transaction's catalogue, or NULL
    writer,  \* the call that holds the write lock, or NULL
    call     \* what each call is doing

vars == <<disk, edits, faults, db, work, writer, call>>

-----------------------------------------------------------------------------
(* The tables.                                                             *)

EmptyCatalog ==
    [jobs |-> [j \in Job |-> NULL], versions |-> {}, ticks |-> {}, triggers |-> {},
     runs |-> {}, steps |-> {}, deps |-> {}, events |-> {}]

VersionsOf(cat, j) == {v \in cat.versions : v.job = j}
VersionById(cat, id) == CHOOSE v \in cat.versions : v.id = id

\* The expression inside the INSERT: coalesce(max(version), 0) + 1.
NextVersion(cat, j) ==
    CHOOSE n \in 1..(Cardinality(VersionsOf(cat, j)) + 1) :
        /\ \A v \in VersionsOf(cat, j) : v.version < n
        /\ n = 1 \/ \E v \in VersionsOf(cat, j) : v.version = n - 1

\* Mutant: the row is replaced as a whole, pause flag included.
UpsertJobResumes(cat, in) ==
    LET known == cat.jobs[in.job] IN
    [cat EXCEPT !.jobs[in.job] =
        [current |-> IF known = NULL THEN NULL ELSE known.current, paused |-> FALSE,
         maxConcurrent |-> in.maxConcurrent, source |-> in.file]]

\* INSERT ... ON CONFLICT (name) DO UPDATE: a known job keeps its pause flag
\* and, for now, its version.
UpsertJob(cat, in) ==
    LET row == IF cat.jobs[in.job] = NULL
               THEN [current |-> NULL, paused |-> FALSE,
                     maxConcurrent |-> in.maxConcurrent, source |-> in.file]
               ELSE [cat.jobs[in.job] EXCEPT !.maxConcurrent = in.maxConcurrent,
                                             !.source = in.file]
    IN [cat EXCEPT !.jobs[in.job] = row]

\* INSERT ... ON CONFLICT (job_name, spec_hash) DO NOTHING.
Carries(cat, in) == {v \in VersionsOf(cat, in.job) : v.spec = in.spec}
InsertVersion(cat, id, in) ==
    IF Carries(cat, in) # {} THEN cat
    ELSE [cat EXCEPT !.versions = @ \union
            {[id |-> id, job |-> in.job, version |-> NextVersion(cat, in.job),
              spec |-> in.spec, source |-> in.file]}]

\* Mutant: only a job without a version is pointed at one.
PointJobOnce(cat, in) ==
    LET v == CHOOSE w \in Carries(cat, in) : TRUE
    IN IF cat.jobs[in.job].current # NULL THEN cat
       ELSE [cat EXCEPT !.jobs[in.job].current = v.id]

\* The row that carries the hash now becomes the job's current version.
PointJob(cat, in) ==
    LET v == CHOOSE w \in Carries(cat, in) : TRUE
    IN [cat EXCEPT !.jobs[in.job].current = v.id]

CurrentVersion(cat, j) == IF cat.jobs[j] = NULL THEN NULL ELSE cat.jobs[j].current

\* writeJobVersion.
WithJobVersion(cat, id, in) == PointJob(InsertVersion(UpsertJob(cat, in), id, in), in)

WriteResult(before, after, in) ==
    LET v == CHOOSE w \in Carries(after, in) : TRUE
    IN [job |-> in.job, id |-> v.id, version |-> v.version,
        created |-> Carries(before, in) = {}]

\* JobLastRuns: a job's newest run by id, with how many steps it has.
LastRun(cat, j) ==
    LET mine == {r \in cat.runs : r.job = j} IN
    IF mine = {} THEN NULL
    ELSE LET r == CHOOSE x \in mine : \A y \in mine : y.id <= x.id
         IN [id |-> r.id, stepsTotal |-> Cardinality({s \in cat.steps : s.run = r.id})]

-----------------------------------------------------------------------------
(* Calls.  pc: "new", then "load" (apply reads its files), "begin" (the    *)
(* ids are minted, the write lock is wanted), "tx", and "done".          *)

\* The ids a call mints before its transaction opens, in that order.  They
\* differ from those of every other call.
MaxIds == Cardinality(File) + 3
Id(c, i) == c * MaxIds + i
IdsOf(c) == {Id(c, i) : i \in 1..(MaxIds - 1)}

NewCall == [kind |-> NULL, pc |-> "new", files |-> <<>>, batch |-> <<>>, failed |-> 0,
            job |-> NULL, flag |-> FALSE, next |-> 1, attempt |-> 1,
            version |-> NULL, results |-> <<>>, out |-> NULL]

CatInit ==
    /\ disk = Initial
    /\ edits = 0 /\ faults = 0 /\ db = EmptyCatalog /\ work = NULL /\ writer = NULL
    /\ call = [c \in Call |-> NewCall]

\* Calls are alike, so they start in the order of their numbers.
Starts(c) == call[c].pc = "new" /\ \A d \in Call : d < c => call[d].pc # "new"

Set(c, rec) == call' = [call EXCEPT ![c] = rec]

Edit == /\ edits < MaxEdits /\ edits' = edits + 1
        /\ \E f \in File, d \in Written \union {NULL} :
              d # disk[f] /\ disk' = [disk EXCEPT ![f] = d]
        /\ UNCHANGED <<faults, db, work, writer, call>>

\* runApply: Collect sorts the files once; each is read when its turn comes.
Apply(c) ==
    /\ Starts(c)
    /\ \E n \in 1..Cardinality(File) : \E files \in [1..n -> File] :
          /\ \A i, j \in 1..n : i < j => files[i] < files[j]
          /\ Set(c, [call[c] EXCEPT !.kind = "apply", !.pc = "load", !.files = files])
    /\ UNCHANGED <<disk, edits, faults, db, work, writer>>

Input(f, job) == [file |-> f, job |-> job.name, maxConcurrent |-> job.maxConcurrent,
                  spec |-> Canonical(job)]

\* A file that cannot be read or is refused is counted and skipped.
LoadFile(c) ==
    /\ call[c].pc = "load" /\ call[c].files # <<>>
    /\ LET f == Head(call[c].files)
           doc == disk[f]
           rest == [call[c] EXCEPT !.files = Tail(@)]
       IN Set(c, IF doc = NULL \/ ~Accepted(doc)
                 THEN [rest EXCEPT !.failed = @ + 1]
                 ELSE [rest EXCEPT !.batch = Append(@, Input(f, Decode(doc)))])
    /\ UNCHANGED <<disk, edits, faults, db, work, writer>>

\* ApplyJobs, called only with something to record: nothing else opens the
\* store.
OpenBatch(c) ==
    /\ call[c].pc = "load" /\ call[c].files = <<>>
    /\ Set(c, IF call[c].batch = <<>> THEN [call[c] EXCEPT !.pc = "done", !.out = "refused"]
              ELSE [call[c] EXCEPT !.pc = "begin"])
    /\ UNCHANGED <<disk, edits, faults, db, work, writer>>

\* MaterializeManualTrigger: tick, trigger and run are minted outside too.
Run(c) ==
    /\ Starts(c)
    /\ \E j \in Job :
          Set(c, [call[c] EXCEPT !.kind = "run", !.pc = "begin", !.job = j])
    /\ UNCHANGED <<disk, edits, faults, db, work, writer>>

\* SetJobPaused: one statement, which SQLite commits by itself.
SetJobPaused(c) ==
    /\ Starts(c) /\ writer = NULL
    /\ \E j \in Job, flag \in BOOLEAN :
          LET rec == [call[c] EXCEPT !.kind = "pause", !.pc = "done", !.job = j,
                                     !.flag = flag]
          IN IF db.jobs[j] = NULL
             THEN Set(c, [rec EXCEPT !.out = "not found"]) /\ UNCHANGED db
             ELSE /\ Set(c, [rec EXCEPT !.out = "ok"])
                  /\ db' = [db EXCEPT !.jobs[j].paused = flag]
    /\ UNCHANGED <<disk, edits, faults, work, writer>>

-----------------------------------------------------------------------------
(* The transaction: withTx and withTxOnce.                                 *)

InTx(c, next) == call[c].pc = "tx" /\ call[c].next = next

\* Mutant: the results of an earlier attempt stay.
BeginKeepsResults(c) ==
    /\ call[c].pc = "begin" /\ writer = NULL
    /\ writer' = c /\ work' = db
    /\ Set(c, [call[c] EXCEPT !.pc = "tx"])
    /\ UNCHANGED <<disk, edits, faults, db>>

\* BEGIN IMMEDIATE.  The function starts from zero on every attempt.
Begin(c) ==
    /\ call[c].pc = "begin" /\ writer = NULL
    /\ writer' = c /\ work' = db
    /\ Set(c, [call[c] EXCEPT !.pc = "tx", !.results = <<>>])
    /\ UNCHANGED <<disk, edits, faults, db>>

\* What a call keeps when it ends, or when its transaction has to start over.
Ended(c, out) ==
    [call[c] EXCEPT !.pc = "done", !.out = out, !.next = 1, !.version = NULL, !.attempt = 1]
WithoutResult(c, out) == [Ended(c, out) EXCEPT !.results = <<>>]

\* Rollback: nothing of the copy is left.
Rollback(c, rec) ==
    /\ Set(c, rec) /\ work' = NULL /\ writer' = NULL
    /\ UNCHANGED <<disk, edits, db>>
Refuse(c, out) == Rollback(c, WithoutResult(c, out)) /\ UNCHANGED faults

\* A statement or the commit fails, or the process dies and whoever opens the
\* database next rolls its transaction back.  Only a snapshot conflict is
\* worth another attempt, and only so many times.
TxFails(c) ==
    /\ call[c].pc = "tx" /\ faults < MaxFaults /\ faults' = faults + 1
    /\ \/ Rollback(c, WithoutResult(c, "failed"))
       \/ /\ call[c].attempt < MaxWriteAttempts
          /\ Rollback(c, [call[c] EXCEPT !.pc = "begin", !.attempt = @ + 1,
                                         !.next = 1, !.version = NULL])

Step(c, cat, rec) ==
    /\ work' = cat /\ Set(c, rec)
    /\ UNCHANGED <<disk, edits, faults, db, writer>>

\* One turn of the loop in ApplyJobs.
WriteJobVersion(c) ==
    /\ call[c].kind = "apply" /\ call[c].pc = "tx"
    /\ call[c].next <= Len(call[c].batch)
    /\ LET i == call[c].next
           in == call[c].batch[i]
           after == WithJobVersion(work, Id(c, i), in)
       IN Step(c, after, [call[c] EXCEPT !.next = @ + 1,
                             !.results = Append(@, WriteResult(work, after, in))])

\* The version is chosen inside the transaction; its document must be
\* readable.  Then one tick, one trigger and one run.
ChooseVersion(c) ==
    /\ call[c].kind = "run" /\ InTx(c, 1)
    /\ LET j == call[c].job
           id == CurrentVersion(work, j)
       IN IF id = NULL
          THEN Refuse(c, "not found")
          ELSE IF ~Readable(VersionById(work, id).spec)
          THEN Refuse(c, "failed")
          ELSE Step(c, work, [call[c] EXCEPT !.next = 2, !.version = id])

InsertDecision(c) ==
    /\ call[c].kind = "run" /\ InTx(c, 2)
    /\ LET j == call[c].job
       IN Step(c, [work EXCEPT
                     !.ticks = @ \union {[id |-> Id(c, 1), job |-> j]},
                     !.triggers = @ \union {[id |-> Id(c, 2), tick |-> Id(c, 1), job |-> j]},
                     !.runs = @ \union {[id |-> Id(c, 3), job |-> j, trigger |-> Id(c, 2),
                                         version |-> call[c].version]}],
               [call[c] EXCEPT !.next = 3])

PlanOf(cat, id) == FromIR(VersionById(cat, id).spec).steps

\* Mutant: the edges stay behind.
InsertStepWithoutEdges(c) ==
    /\ call[c].kind = "run" /\ call[c].pc = "tx" /\ call[c].next >= 3
    /\ LET plan == PlanOf(work, call[c].version)
           i == call[c].next - 2
       IN /\ i <= Len(plan)
          /\ Step(c, [work EXCEPT
                     !.steps = @ \union {[run |-> Id(c, 3), row |-> StepRow(plan, i)]}],
                  [call[c] EXCEPT !.next = @ + 1])

\* insertSteps, one step at a time: the row and its edges.
InsertStep(c) ==
    /\ call[c].kind = "run" /\ call[c].pc = "tx" /\ call[c].next >= 3
    /\ LET plan == PlanOf(work, call[c].version)
           i == call[c].next - 2
           r == Id(c, 3)
       IN /\ i <= Len(plan)
          /\ IF EdgesConflict(plan[i])
             THEN Refuse(c, "failed")
             ELSE Step(c, [work EXCEPT
                     !.steps = @ \union {[run |-> r, row |-> StepRow(plan, i)]},
                     !.deps = @ \union {[run |-> r, step |-> plan[i].name, on |-> plan[i].needs[n]] :
                                           n \in DOMAIN plan[i].needs}],
                  [call[c] EXCEPT !.next = @ + 1])

AppendQueued(c) ==
    /\ call[c].kind = "run" /\ call[c].pc = "tx" /\ call[c].next >= 3
    /\ call[c].version # NULL
    /\ call[c].next - 2 = Len(PlanOf(work, call[c].version)) + 1
    /\ Step(c, [work EXCEPT !.events = @ \union
                   {[run |-> Id(c, 3), kind |-> "run.queued"]}],
            [call[c] EXCEPT !.next = @ + 1])

\* fn returned nil.
TxFinished(c) ==
    /\ call[c].pc = "tx"
    /\ \/ call[c].kind = "apply" /\ call[c].next = Len(call[c].batch) + 1
       \/ /\ call[c].kind = "run" /\ call[c].version # NULL
          /\ call[c].next - 2 = Len(PlanOf(work, call[c].version)) + 2

Commit(c) ==
    /\ TxFinished(c)
    /\ db' = work /\ work' = NULL /\ writer' = NULL
    /\ Set(c, Ended(c, "ok"))
    /\ UNCHANGED <<disk, edits, faults>>

\* Every call has ended and nobody edits any more.
AllDone == /\ \A c \in Call : call[c].pc = "done"
           /\ UNCHANGED vars

CallStep(c) ==
    \/ LoadFile(c) \/ OpenBatch(c) \/ Begin(c) \/ WriteJobVersion(c)
    \/ ChooseVersion(c) \/ InsertDecision(c) \/ InsertStep(c) \/ AppendQueued(c)
    \/ Commit(c)

CatNext ==
    \/ Edit \/ AllDone
    \/ \E c \in Call :
          Apply(c) \/ Run(c) \/ SetJobPaused(c) \/ CallStep(c) \/ TxFails(c)

CatSpec == CatInit /\ [][CatNext]_vars

-----------------------------------------------------------------------------
(* The report: writeApplyReport.                                           *)

\* byName keeps the last file that named a job, whichever result it is asked
\* about.
ReportedFile(c, i) ==
    LET batch == call[c].batch
        last == CHOOSE k \in DOMAIN batch :
                   /\ batch[k].job = call[c].results[i].job
                   /\ \A m \in DOMAIN batch : batch[m].job = batch[k].job => m <= k
    IN batch[last]

-----------------------------------------------------------------------------
(* Properties.                                                             *)

\* The canonical documents of everything a file may hold and Parse lets through.
Storable == {Canonical(Decode(d)) : d \in {x \in Documents : Accepted(x)}}

\* The columns of the tables.
JobRow     == [current : Nat, paused : BOOLEAN, maxConcurrent : 1..MaxSteps, source : File]
VersionRow == [id : Nat, job : Job, version : Nat, spec : Storable, source : File]
PlanRow    == [name : Name, idx : Nat, maxAttempts : Nat \ {0}]
Catalog ==
    [jobs : [Job -> JobRow \union {NULL}], versions : SUBSET VersionRow,
     ticks : SUBSET [id : Nat, job : Job],
     triggers : SUBSET [id : Nat, tick : Nat, job : Job],
     runs  : SUBSET [id : Nat, job : Job, trigger : Nat, version : Nat],
     steps : SUBSET [run : Nat, row : PlanRow],
     deps  : SUBSET [run : Nat, step : Name, on : Name],
     events : SUBSET [run : Nat, kind : {"run.queued"}]]

ASSUME NullAssumption ==
    /\ NULL \notin Nat /\ NULL \notin JobRow /\ NULL \notin Catalog
    /\ NULL \notin {"apply", "run", "pause", "ok"}

\* Types of the rows and of the calls' progress.
CTypeOK ==
    /\ disk \in [File -> Documents \union {NULL}]
    /\ edits \in 0..MaxEdits /\ faults \in 0..MaxFaults
    /\ db \in Catalog /\ work \in Catalog \union {NULL}
    /\ writer \in Call \union {NULL} /\ (writer = NULL) = (work = NULL)
    /\ \A c \in Call :
          /\ call[c].pc \in {"new", "load", "begin", "tx", "done"}
          /\ call[c].attempt \in 1..MaxWriteAttempts
          /\ (call[c].pc = "tx") = (writer = c)
    /\ \A v \in db.versions : v.id \in UNION {IdsOf(c) : c \in Call}

\* Per job the version numbers are 1..n without a gap, no number and no
\* document is used twice: the number is computed inside the INSERT and a
\* document that is known inserts nothing.
VersionsAreDense ==
    \A j \in Job : LET mine == VersionsOf(db, j) IN
        /\ {v.version : v \in mine} = 1..Cardinality(mine)
        /\ \A v, w \in mine : v.spec = w.spec => v = w
        /\ \A v, w \in db.versions : v.id = w.id => v = w

\* A job's row and the version it points at tell the same story: the columns
\* copied into jobs are those of the current document, also after an older
\* document is applied again.
RowAgreesWithVersion ==
    \A j \in Job : db.jobs[j] # NULL =>
        \E v \in VersionsOf(db, j) :
            /\ v.id = db.jobs[j].current
            /\ FromIR(v.spec).maxConcurrent = db.jobs[j].maxConcurrent
            /\ FromIR(v.spec).name = j

\* A committed run is whole: its trigger and tick, the step rows and edges of
\* exactly the version it was frozen with, and its first event.  Whatever is
\* applied, edited or crashes afterwards leaves it so.
RunIsWhole ==
    \A r \in db.runs :
        LET plan == PlanOf(db, r.version) IN
        /\ VersionById(db, r.version).job = r.job
        /\ \E t \in db.triggers : /\ t.id = r.trigger /\ t.job = r.job
                                  /\ \E k \in db.ticks : k.id = t.tick /\ k.job = r.job
        /\ {s.row : s \in {x \in db.steps : x.run = r.id}} = {StepRow(plan, i) : i \in DOMAIN plan}
        /\ {<<d.step, d.on>> : d \in {x \in db.deps : x.run = r.id}}
             = UNION {{<<plan[i].name, plan[i].needs[n]>> : n \in DOMAIN plan[i].needs} :
                        i \in DOMAIN plan}
        /\ [run |-> r.id, kind |-> "run.queued"] \in db.events

\* Status reads one moment: the newest run of a job has as many steps as the
\* version it was frozen with, and a trigger or tick never shows without its
\* run.
StatusCountsThePlan ==
    /\ \A j \in Job : LastRun(db, j) # NULL =>
          \E r \in db.runs : /\ r.id = LastRun(db, j).id
                             /\ LastRun(db, j).stepsTotal = Len(PlanOf(db, r.version))
    /\ \A t \in db.triggers : \E r \in db.runs : r.trigger = t.id
    /\ \A k \in db.ticks : \E t \in db.triggers : t.tick = k.id

\* A batch lands complete or not at all: once one version a call minted is
\* committed, every document of its batch is.
BatchLandsWhole ==
    \A c \in Call : call[c].kind = "apply" =>
        ((\E v \in db.versions : v.id \in IdsOf(c))
           => \A i \in DOMAIN call[c].batch : Carries(db, call[c].batch[i]) # {})

\* What apply reports is what is stored, one result per file, and a version
\* is reported as created by exactly the call that wrote it: also after a
\* conflict made the transaction run again.
ReportIsTrue ==
    \A c \in Call : call[c].kind = "apply" /\ call[c].out = "ok" =>
        /\ Len(call[c].results) = Len(call[c].batch)
        /\ \A i \in DOMAIN call[c].results :
              LET res == call[c].results[i] IN
              \E v \in Carries(db, call[c].batch[i]) :
                  /\ v.id = res.id /\ v.version = res.version
                  /\ res.created = (v.id = Id(c, i))

\* When two files name one job, the file the report shows is the one whose
\* document the batch left current: the loop over the inputs and the map of
\* the report both let the last one win.
ReportShowsTheWinner ==
    [][\A c \in Call : Commit(c) /\ call[c].kind = "apply" =>
          \A i \in DOMAIN call[c].results :
              LET j == call[c].results[i].job IN
              VersionById(db', db'.jobs[j].current).spec = ReportedFile(c, i).spec]_vars

\* A version row is never changed or removed, nor is a run's frozen record.
FrozenForGood ==
    [][/\ db.versions \subseteq db'.versions /\ db.runs \subseteq db'.runs
       /\ \A s \in db'.steps \ db.steps : \A r \in db.runs : s.run # r.id]_vars

\* Only an operator changes the pause flag: no reload of a file, new version
\* or old, resumes or pauses a job that exists.
ReloadKeepsPause ==
    [][\A j \in Job : db.jobs[j] # NULL /\ db'.jobs[j] # NULL
          /\ db'.jobs[j].paused # db.jobs[j].paused =>
              \E c \in Call : /\ call[c].pc = "new" /\ call'[c].kind = "pause"
                              /\ call'[c].job = j /\ call'[c].flag = db'.jobs[j].paused]_vars

\* What is stored and what is read back are one job: the laws of the two
\* functions hold on every document a file may hold, and every stored version
\* is the hashed form of a document that was accepted.
SpecSurvivesTheHash ==
    AcceptedMeansTheJob /\ \A v \in db.versions : v.spec \in Storable

\* No timeout in a stored version and no delay before a retry is one that nobody
\* wrote: the arithmetic on durations is exact up to its limit, growing and
\* capping a delay included, and what is stored lies within the limits.
DurationsAreExact ==
    /\ DurationArithmetic /\ DelaysGrowToTheCap /\ FrozenPolicyIsTheWrittenOne
    /\ \A v \in db.versions : v.spec["timeout_ms"] \in 1..MaxJobTimeout

\* The catalogue is consistent between any two transactions.
CatalogIsConsistent == CTypeOK /\ VersionsAreDense /\ RowAgreesWithVersion

\* What becomes of a manual trigger is all there or not there, for whoever reads.
TriggersAreWhole == RunIsWhole /\ StatusCountsThePlan

\* An apply is one fact: all of its files or none, and reported as it happened.
ApplyIsOneFact == BatchLandsWhole /\ ReportIsTrue

\* Nothing committed is taken back by a later call: versions and runs stay as
\* they were, a pause stays until it is lifted, and the last file wins.
CommittedStays == FrozenForGood /\ ReloadKeepsPause /\ ReportShowsTheWinner
=============================================================================
