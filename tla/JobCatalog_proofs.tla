------------------------- MODULE JobCatalog_proofs --------------------------
(***************************************************************************)
(* Theorems about JobCatalog, for any calls, jobs and files, any documents *)
(* in them, and any number of edits, faults and repeated transactions.     *)
(***************************************************************************)
EXTENDS JobCatalog, JobSpec_proofs

-----------------------------------------------------------------------------
(* What an accepted document is, and what is read back from its object. *)

AcceptedDocs == {d \in Documents : Accepted(d)}
SpecsOf(j)   == {Canonical(Decode(d)) : d \in {x \in AcceptedDocs : x.name = j}}

\* What no problem was found in.
LEMMA AcceptedDocument ==
    ASSUME NEW d \in AcceptedDocs
    PROVE  /\ d.name \in Job
           /\ IsList(d.steps) /\ DOMAIN Decode(d).steps = DOMAIN d.steps
           /\ Decode(d).maxConcurrent \in 1..MaxSteps
           /\ \A i \in DOMAIN d.steps :
                 /\ d.steps[i].name \in Name
                 /\ d.steps[i].needs = NULL \/ IsList(d.steps[i].needs)
                 /\ d.steps[i].retry # NULL => d.steps[i].retry.max \in 0..MaxSteps
                 /\ Decode(d).steps[i] = DecodeStep(d.steps[i])
           /\ CrossProblems(Decode(d).steps) = {}
<1>1. d \in Docs /\ d.name \in Job /\ Problems(d) = {}
  BY JobCatalogAssumption DEF AcceptedDocs, Accepted
<1>2. /\ IsList(d.steps) /\ Decode(d).maxConcurrent \in 1..MaxSteps
      /\ Decode(d).steps = [i \in DOMAIN d.steps |-> DecodeStep(d.steps[i])]
      /\ CrossProblems(Decode(d).steps) = {}
      /\ \A i \in DOMAIN d.steps : StepSaid(d.steps[i])
  BY <1>1, AcceptedSays DEF Accepted
<1> QED BY <1>1, <1>2 DEF StepSaid, RetrySaid

\* What a run that is born from an accepted document reads of its steps.
LEMMA PlanOfDocument ==
    ASSUME NEW d \in AcceptedDocs, NEW plan, plan = FromIR(Canonical(Decode(d))).steps
    PROVE  /\ Len(plan) \in Nat /\ DOMAIN plan = 1..Len(plan)
           /\ \A i \in DOMAIN plan :
                 /\ StepRow(plan, i) \in PlanRow /\ StepRow(plan, i).idx = i - 1
                 /\ plan[i].name \in Name
                 /\ \A n \in DOMAIN plan[i].needs : plan[i].needs[n] \in Name
<1> DEFINE job == Decode(d)
           o == Canonical(job)
<1>1. /\ "steps" \in DOMAIN o
      /\ o["steps"] = [i \in DOMAIN job.steps |-> CanonicalStep(job.steps[i])]
  BY ObjectMembers
<1>2. plan = [i \in DOMAIN job.steps |-> IrStep(CanonicalStep(job.steps[i]))]
  <2>1. Read(o, "steps", <<>>) = o["steps"]
    BY <1>1 DEF Read
  <2> QED BY <1>1, <2>1 DEF FromIR
<1>3. PICK n \in Nat : n = Len(d.steps) /\ DOMAIN job.steps = 1..n
  BY AcceptedDocument DEF IsList
<1>4. plan \in Seq({plan[i] : i \in 1..n}) /\ Len(plan) = n /\ DOMAIN plan = 1..n
  BY <1>2, <1>3
<1>5. ASSUME NEW i \in 1..n
      PROVE  /\ StepRow(plan, i) \in PlanRow /\ StepRow(plan, i).idx = i - 1
             /\ plan[i].name \in Name
             /\ \A m \in DOMAIN plan[i].needs : plan[i].needs[m] \in Name
  <2> DEFINE w == d.steps[i]
             s == DecodeStep(w)
  <2>1. job.steps[i] = s /\ i \in DOMAIN d.steps
    BY <1>3, AcceptedDocument
  <2>2. plan[i] = IrStep(CanonicalStep(s))
    BY <1>2, <1>3, <2>1
  <2>3. /\ w.name \in Name
        /\ w.needs = NULL \/ IsList(w.needs)
        /\ w.retry # NULL => w.retry.max \in 0..MaxSteps
    BY <2>1, AcceptedDocument
  <2>4. /\ plan[i].name = s.name
        /\ plan[i].retry = IF s.retry = NULL THEN NULL ELSE IrRetry(CanonicalRetry(s.retry))
        /\ plan[i].needs = IF Len(s.needs) > 0 THEN CanonicalSorted(s.needs) ELSE <<>>
    BY <2>2, StepMembers
  <2>5. s.name = w.name /\ s.retry = DecodeRetry(w.retry)
        /\ s.needs = IF w.needs = NULL THEN <<>> ELSE w.needs
    BY DEF DecodeStep
  <2>6. plan[i].retry # NULL => plan[i].retry.max \in Nat
    <3> SUFFICES ASSUME plan[i].retry # NULL PROVE plan[i].retry.max \in Nat
      OBVIOUS
    <3>1. s.retry # NULL /\ plan[i].retry = IrRetry(CanonicalRetry(s.retry))
      BY <2>4
    <3>2. w.retry # NULL /\ s.retry.max = IF w.retry.max = NULL THEN 0 ELSE w.retry.max
      BY <2>5, <3>1 DEF DecodeRetry
    <3>3. s.retry.max \in Nat
      BY <2>3, <3>2
    <3>4. CanonicalRetry(s.retry) =
            [max |-> s.retry.max, initial_ms |-> s.retry.initial, max_delay_ms |-> s.retry.maxDelay]
      BY <3>1 DEF CanonicalRetry
    <3>5. CanonicalRetry(s.retry) # NULL
      BY <3>1 DEF IrRetry
    <3>6. plan[i].retry.max = Read(CanonicalRetry(s.retry), "max", 0)
      BY <3>1, <3>5 DEF IrRetry
    <3>7. Read(CanonicalRetry(s.retry), "max", 0) = s.retry.max
      BY <3>4 DEF Read
    <3> QED BY <3>3, <3>6, <3>7
  <2>7. StepRow(plan, i) \in PlanRow /\ StepRow(plan, i).idx = i - 1
    <3>1. i - 1 \in Nat
      OBVIOUS
    <3>2. (IF plan[i].retry # NULL /\ plan[i].retry.max >= 0 THEN plan[i].retry.max + 1 ELSE 1)
            \in Nat \ {0}
      BY <2>6
    <3> QED BY <2>3, <2>4, <2>5, <3>1, <3>2 DEF StepRow, PlanRow
  <2>8. \A m \in DOMAIN s.needs : s.needs[m] \in Name
    <3>1. When(\E k \in DOMAIN job.steps : \E m \in DOMAIN job.steps[k].needs :
                  \A j \in DOMAIN job.steps : job.steps[j].name # job.steps[k].needs[m], "PQ2002") = {}
      BY AcceptedDocument DEF CrossProblems
    <3>2. \A m \in DOMAIN s.needs : \E j \in DOMAIN job.steps : job.steps[j].name = s.needs[m]
      BY <1>3, <2>1, <3>1 DEF When
    <3>3. \A j \in DOMAIN job.steps : job.steps[j].name \in Name
      <4> TAKE j \in DOMAIN job.steps
      <4>1. j \in DOMAIN d.steps /\ job.steps[j] = DecodeStep(d.steps[j]) /\ d.steps[j].name \in Name
        BY AcceptedDocument
      <4> QED BY <4>1 DEF DecodeStep
    <3> QED BY <3>2, <3>3
  <2>9. \A m \in DOMAIN plan[i].needs : plan[i].needs[m] \in Name
    <3>1. IsList(s.needs)
      <4>1. IsList(<<>>)
        BY DEF IsList
      <4> QED BY <2>3, <2>5, <4>1
    <3>2. Name \subseteq Nat
      BY JobSpecAssumption
    <3>3. /\ DOMAIN CanonicalSorted(s.needs) = DOMAIN s.needs
          /\ \A m \in DOMAIN s.needs : \E k \in DOMAIN s.needs : CanonicalSorted(s.needs)[m] = s.needs[k]
      BY <2>8, <3>1, <3>2, SortedMembers
    <3>4. CASE Len(s.needs) > 0
      BY <2>4, <2>8, <3>3, <3>4
    <3>5. CASE ~(Len(s.needs) > 0)
      BY <2>4, <3>5
    <3> QED BY <3>4, <3>5
  <2> QED BY <2>3, <2>4, <2>5, <2>7, <2>9
<1> QED BY <1>4, <1>5

-----------------------------------------------------------------------------
(* Ids. *)

LEMMA IdNumbers ==
    /\ Cardinality(File) \in Nat /\ MaxIds \in Nat /\ MaxIds = Cardinality(File) + 3
    /\ \A c \in Call, i \in 1..MaxIds - 1 : Id(c, i) \in Nat
<1>1. Cardinality(File) \in Nat
  BY JobCatalogAssumption, FS_CardinalityType
<1>2. MaxIds \in Nat /\ MaxIds = Cardinality(File) + 3
  BY <1>1 DEF MaxIds
<1>3. ASSUME NEW c \in Call, NEW i \in 1..MaxIds - 1 PROVE Id(c, i) \in Nat
  <2>1. c \in Nat
    BY JobCatalogAssumption
  <2>2. PICK m \in Nat : m = MaxIds
    BY <1>2
  <2>3. c * m \in Nat
    BY <2>1
  <2>4. i \in Nat
    BY <2>2
  <2> QED BY <2>2, <2>3, <2>4 DEF Id
<1> QED BY <1>1, <1>2, <1>3

\* No two calls mint one id, nor one call the same id twice.
LEMMA IdsDiffer ==
    ASSUME NEW c \in Call, NEW d \in Call, NEW i \in 1..MaxIds - 1, NEW j \in 1..MaxIds - 1,
           Id(c, i) = Id(d, j)
    PROVE  c = d /\ i = j
<1>1. PICK m \in Nat : m = MaxIds
  BY IdNumbers
<1>2. c \in Nat /\ d \in Nat /\ i \in 1..m - 1 /\ j \in 1..m - 1
  BY <1>1, JobCatalogAssumption
<1>3. c * m + i = d * m + j
  BY <1>1 DEF Id
<1>4. ASSUME NEW a \in Nat, NEW b \in Nat, a < b PROVE a * m + m <= b * m
  <2>1. PICK e \in Nat : b = a + 1 + e
    <3>1. b - a - 1 \in Nat /\ b = a + 1 + (b - a - 1)
      BY <1>4
    <3> QED BY <3>1
  <2>2. b * m = a * m + m + e * m
    BY <2>1
  <2>3. e * m \in Nat /\ a * m \in Nat
    OBVIOUS
  <2> QED BY <2>2, <2>3
<1>5. PICK x \in Nat, y \in Nat : x = c * m /\ y = d * m
  BY <1>2
<1>6. ~(c < d)
  BY <1>2, <1>3, <1>4, <1>5
<1>7. ~(d < c)
  BY <1>2, <1>3, <1>4, <1>5
<1>8. c = d
  BY <1>2, <1>6, <1>7
<1> QED BY <1>2, <1>3, <1>5, <1>8

-----------------------------------------------------------------------------
(* The book of versions. *)

\* What a call may record.
Inputs == {Input(f, Decode(d)) : f \in File, d \in AcceptedDocs}

\* A version is stored under the name its document gives.
Story(cat) == \A v \in cat.versions : v.spec \in SpecsOf(v.job)

Dense(cat) ==
    \A j \in Job :
        /\ {v.version : v \in VersionsOf(cat, j)} = 1..Cardinality(VersionsOf(cat, j))
        /\ \A v, w \in VersionsOf(cat, j) : v.spec = w.spec => v = w

OneRowPerId(cat) == \A v, w \in cat.versions : v.id = w.id => v = w

\* A job's row repeats what its current version says.
Pointed(cat) ==
    \A j \in Job : cat.jobs[j] # NULL =>
        \E v \in VersionsOf(cat, j) :
            /\ v.id = cat.jobs[j].current
            /\ v.spec["max_concurrent"] = cat.jobs[j].maxConcurrent

Book(cat) ==
    IsFiniteSet(cat.versions) /\ Story(cat) /\ Dense(cat) /\ OneRowPerId(cat) /\ Pointed(cat)

LEMMA InputFields ==
    ASSUME NEW in \in Inputs
    PROVE  /\ in.file \in File /\ in.job \in Job /\ in.maxConcurrent \in 1..MaxSteps
           /\ in.spec \in SpecsOf(in.job) /\ in.spec \in Storable
           /\ in.spec["max_concurrent"] = in.maxConcurrent
<1>1. PICK f \in File, d \in AcceptedDocs : in = Input(f, Decode(d))
  BY DEF Inputs
<1>2. /\ in.file = f /\ in.job = Decode(d).name /\ in.maxConcurrent = Decode(d).maxConcurrent
      /\ in.spec = Canonical(Decode(d))
  BY <1>1 DEF Input
<1>3. Decode(d).name = d.name
  BY DEF Decode
<1>4. in.spec \in SpecsOf(in.job) /\ in.spec \in Storable
  BY <1>2, <1>3 DEF SpecsOf, Storable, AcceptedDocs
<1>5. in.spec["max_concurrent"] = in.maxConcurrent
  BY <1>2, ObjectMembers
<1> QED BY <1>2, <1>3, <1>4, <1>5, AcceptedDocument

\* coalesce(max(version), 0) + 1 is the first number that is free.
LEMMA NextIsFree ==
    ASSUME NEW cat, IsFiniteSet(cat.versions), Dense(cat), NEW j \in Job
    PROVE  /\ Cardinality(VersionsOf(cat, j)) \in Nat
           /\ NextVersion(cat, j) = Cardinality(VersionsOf(cat, j)) + 1
<1> DEFINE mine == VersionsOf(cat, j)
<1>1. IsFiniteSet(mine)
  BY FS_Subset DEF VersionsOf
<1>2. PICK m \in Nat : m = Cardinality(mine)
  BY <1>1, FS_CardinalityType
<1>3. {v.version : v \in mine} = 1..m
  BY <1>2 DEF Dense
<1>4. \A v \in mine : v.version \in 1..m
  BY <1>3
<1> DEFINE Free(n) == /\ \A v \in mine : v.version < n
                      /\ n = 1 \/ \E v \in mine : v.version = n - 1
<1>5. m + 1 \in 1..m + 1 /\ Free(m + 1)
  <2>1. \A v \in mine : v.version < m + 1
    BY <1>4
  <2>2. m # 0 => \E v \in mine : v.version = m
    <3> SUFFICES ASSUME m # 0 PROVE m \in {v.version : v \in mine}
      OBVIOUS
    <3> QED BY <1>3
  <2> QED BY <2>1, <2>2
<1>6. \A n \in 1..m + 1 : Free(n) => n = m + 1
  <2> SUFFICES ASSUME NEW n \in 1..m + 1, Free(n), n # m + 1 PROVE FALSE
    OBVIOUS
  <2>1. m \in 1..m /\ n <= m
    OBVIOUS
  <2>2. PICK v \in mine : v.version = m
    BY <1>3, <2>1
  <2> QED BY <2>1, <2>2
<1>7. NextVersion(cat, j) = CHOOSE n \in 1..m + 1 : Free(n)
  BY <1>2 DEF NextVersion
<1> HIDE DEF Free
<1>8. NextVersion(cat, j) = m + 1
  BY <1>5, <1>6, <1>7
<1> QED BY <1>2, <1>8

\* What one turn of the loop in ApplyJobs leaves, column by column: the version
\* that carries the document, written now or before, and a row that points at it.
Turned(cat, id, in, after, v) ==
    /\ after.ticks = cat.ticks /\ after.triggers = cat.triggers /\ after.runs = cat.runs
    /\ after.steps = cat.steps /\ after.deps = cat.deps /\ after.events = cat.events
    /\ v \in VersionRow /\ v.job = in.job /\ v.spec = in.spec
    /\ after.versions = cat.versions \union {v}
    /\ Carries(after, in) = {v}
    /\ IF Carries(cat, in) = {}
       THEN v.id = id /\ v.version = Cardinality(VersionsOf(cat, in.job)) + 1
       ELSE v \in cat.versions
    /\ DOMAIN after.jobs = Job
    /\ \A j \in Job \ {in.job} : after.jobs[j] = cat.jobs[j]
    /\ after.jobs[in.job] =
          [current |-> v.id,
           paused |-> IF cat.jobs[in.job] = NULL THEN FALSE ELSE cat.jobs[in.job].paused,
           maxConcurrent |-> in.maxConcurrent, source |-> in.file]
    /\ after \in Catalog

LEMMA OneTurn ==
    ASSUME NEW cat \in Catalog, Book(cat), NEW in \in Inputs, NEW id \in Nat,
           \A v \in cat.versions : v.id # id
    PROVE  \E v : Turned(cat, id, in, WithJobVersion(cat, id, in), v)
<1> DEFINE up == UpsertJob(cat, in)
           ins == InsertVersion(up, id, in)
           after == WithJobVersion(cat, id, in)
           j == in.job
           n == Cardinality(VersionsOf(cat, j)) + 1
           new == [id |-> id, job |-> j, version |-> n, spec |-> in.spec, source |-> in.file]
           row == [current |-> IF cat.jobs[j] = NULL THEN NULL ELSE cat.jobs[j].current,
                   paused |-> IF cat.jobs[j] = NULL THEN FALSE ELSE cat.jobs[j].paused,
                   maxConcurrent |-> in.maxConcurrent, source |-> in.file]
<1>1. /\ j \in Job /\ in.file \in File /\ in.maxConcurrent \in 1..MaxSteps
      /\ in.spec \in SpecsOf(j) /\ in.spec \in Storable
  BY InputFields
<1>2. /\ cat.jobs \in [Job -> JobRow \union {NULL}] /\ cat.versions \subseteq VersionRow
      /\ cat = [jobs |-> cat.jobs, versions |-> cat.versions, ticks |-> cat.ticks,
                triggers |-> cat.triggers, runs |-> cat.runs, steps |-> cat.steps,
                deps |-> cat.deps, events |-> cat.events]
  BY DEF Catalog
<1>3. up = [cat EXCEPT !.jobs = [cat.jobs EXCEPT ![j] = row]]
  <2>1. CASE cat.jobs[j] = NULL
    BY <2>1 DEF UpsertJob
  <2>2. CASE cat.jobs[j] # NULL
    <3>1. cat.jobs[j] \in JobRow
      BY <1>1, <1>2, <2>2
    <3>2. PICK r \in JobRow : r = cat.jobs[j]
      BY <3>1
    <3>3. [r EXCEPT !.maxConcurrent = in.maxConcurrent, !.source = in.file] =
            [current |-> r.current, paused |-> r.paused,
             maxConcurrent |-> in.maxConcurrent, source |-> in.file]
      <4>1. r = [current |-> r.current, paused |-> r.paused,
                 maxConcurrent |-> r.maxConcurrent, source |-> r.source]
        BY DEF JobRow
      <4>2. PICK a, b, c, d : /\ a = r.current /\ b = r.paused /\ c = r.maxConcurrent
                              /\ d = r.source
                              /\ r = [current |-> a, paused |-> b, maxConcurrent |-> c, source |-> d]
        BY <4>1
      <4>3. PICK x, y : x = in.maxConcurrent /\ y = in.file
        OBVIOUS
      <4>4. [r EXCEPT !.maxConcurrent = x, !.source = y] =
               [current |-> a, paused |-> b, maxConcurrent |-> x, source |-> y]
        <5>1. PICK s : s = [r EXCEPT !.maxConcurrent = x]
          OBVIOUS
        <5>2. s = [current |-> a, paused |-> b, maxConcurrent |-> x, source |-> d]
          BY <4>2, <5>1
        <5>3. [r EXCEPT !.maxConcurrent = x, !.source = y] = [s EXCEPT !.source = y]
          BY <5>1
        <5> QED BY <5>2, <5>3
      <4> QED BY <4>2, <4>3, <4>4
    <3> QED BY <2>2, <3>2, <3>3 DEF UpsertJob
  <2> QED BY <2>1, <2>2
<1>4. /\ up.jobs = [cat.jobs EXCEPT ![j] = row] /\ up.versions = cat.versions
      /\ up.ticks = cat.ticks /\ up.triggers = cat.triggers /\ up.runs = cat.runs
      /\ up.steps = cat.steps /\ up.deps = cat.deps /\ up.events = cat.events
      /\ DOMAIN up = DOMAIN cat
  BY <1>2, <1>3
<1> HIDE DEF up
<1>5. /\ VersionsOf(up, j) = VersionsOf(cat, j) /\ Carries(up, in) = Carries(cat, in)
      /\ NextVersion(up, j) = NextVersion(cat, j)
  BY <1>4 DEF VersionsOf, Carries, NextVersion
<1>6. NextVersion(cat, j) = n /\ n \in Nat
  BY <1>1, NextIsFree DEF Book
<1>7. PICK v : /\ v \in VersionRow /\ v.job = j /\ v.spec = in.spec
               /\ ins.versions = cat.versions \union {v}
               /\ Carries(ins, in) = {v}
               /\ IF Carries(cat, in) = {} THEN v.id = id /\ v.version = n ELSE v \in cat.versions
               /\ ins.jobs = up.jobs
               /\ ins.ticks = cat.ticks /\ ins.triggers = cat.triggers /\ ins.runs = cat.runs
               /\ ins.steps = cat.steps /\ ins.deps = cat.deps /\ ins.events = cat.events
               /\ DOMAIN ins = DOMAIN cat
               /\ ins = [k \in DOMAIN cat |-> ins[k]]
  <2>1. CASE Carries(cat, in) = {}
    <3>1. ins = [up EXCEPT !.versions = cat.versions \union {new}]
      BY <1>4, <1>5, <1>6, <2>1 DEF InsertVersion
    <3>2. /\ ins.versions = cat.versions \union {new} /\ ins.jobs = up.jobs
          /\ ins.ticks = cat.ticks /\ ins.triggers = cat.triggers /\ ins.runs = cat.runs
          /\ ins.steps = cat.steps /\ ins.deps = cat.deps /\ ins.events = cat.events
          /\ DOMAIN ins = DOMAIN cat /\ ins = [k \in DOMAIN cat |-> ins[k]]
      BY <1>2, <1>4, <3>1
    <3>3. new \in VersionRow
      BY <1>1, <1>6 DEF VersionRow
    <3>4. Carries(ins, in) = {new}
      BY <2>1, <3>2 DEF Carries, VersionsOf
    <3> HIDE DEF ins
    <3>5. new.job = j /\ new.spec = in.spec /\ new.id = id /\ new.version = n
      OBVIOUS
    <3> HIDE DEF new
    <3> QED BY <2>1, <3>2, <3>3, <3>4, <3>5
  <2>2. CASE Carries(cat, in) # {}
    <3>1. ins = up
      BY <1>5, <2>2 DEF InsertVersion
    <3>2. PICK v : v \in Carries(cat, in)
      BY <2>2
    <3>3. v \in cat.versions /\ v.job = j /\ v.spec = in.spec /\ v \in VersionRow
      BY <1>2, <3>2 DEF Carries, VersionsOf
    <3>4. \A w \in Carries(cat, in) : w = v
      BY <1>1, <3>2 DEF Carries, Book, Dense
    <3>5. Carries(ins, in) = {v}
      BY <1>5, <3>1, <3>2, <3>4
    <3>6. ins.versions = cat.versions \union {v}
      BY <1>4, <3>1, <3>3
    <3>7. ins = [k \in DOMAIN cat |-> ins[k]]
      BY <1>2, <1>3, <3>1 DEF up
    <3> QED BY <1>4, <2>2, <3>1, <3>3, <3>5, <3>6, <3>7
  <2> QED BY <2>1, <2>2
<1> HIDE DEF ins
<1>8. after = [ins EXCEPT !.jobs = [ins.jobs EXCEPT ![j] = [ins.jobs[j] EXCEPT !.current = v.id]]]
  <2>1. v = CHOOSE w \in Carries(ins, in) : TRUE
    BY <1>7
  <2> QED BY <2>1 DEF WithJobVersion, PointJob, ins, up
<1> DEFINE last == [current |-> v.id,
                    paused |-> IF cat.jobs[j] = NULL THEN FALSE ELSE cat.jobs[j].paused,
                    maxConcurrent |-> in.maxConcurrent, source |-> in.file]
<1>9. [ins.jobs[j] EXCEPT !.current = v.id] = last
  <2>1. ins.jobs[j] = row
    BY ZenonT(30), <1>1, <1>2, <1>4, <1>7
  <2>2. PICK a, b, c, d, x : row = [current |-> a, paused |-> b, maxConcurrent |-> c, source |-> d]
                             /\ x = v.id
                             /\ last = [current |-> x, paused |-> b, maxConcurrent |-> c, source |-> d]
    OBVIOUS
  <2> HIDE DEF row, last
  <2>3. [row EXCEPT !.current = x] = [current |-> x, paused |-> b, maxConcurrent |-> c, source |-> d]
    BY <2>2
  <2> QED BY <2>1, <2>2, <2>3
<1>10. /\ after.jobs = [ins.jobs EXCEPT ![j] = last] /\ after.versions = ins.versions
       /\ after.ticks = ins.ticks /\ after.triggers = ins.triggers /\ after.runs = ins.runs
       /\ after.steps = ins.steps /\ after.deps = ins.deps /\ after.events = ins.events
       /\ DOMAIN after = DOMAIN cat /\ after = [k \in DOMAIN cat |-> after[k]]
  BY <1>2, <1>7, <1>8, <1>9
<1> HIDE DEF after
<1>11. /\ DOMAIN after.jobs = Job /\ after.jobs[j] = last
       /\ \A k \in Job \ {j} : after.jobs[k] = cat.jobs[k]
  BY <1>1, <1>2, <1>4, <1>7, <1>10
<1>12. last \in JobRow
  <2>1. v.id \in Nat
    BY <1>7 DEF VersionRow
  <2>2. (IF cat.jobs[j] = NULL THEN FALSE ELSE cat.jobs[j].paused) \in BOOLEAN
    BY <1>1, <1>2 DEF JobRow
  <2> QED BY <1>1, <2>1, <2>2 DEF JobRow
<1>13. after.jobs \in [Job -> JobRow \union {NULL}]
  <2>1. after.jobs = [k \in Job |-> after.jobs[k]]
    <3>1. PICK f \in [Job -> JobRow \union {NULL}] : f = cat.jobs
      BY <1>2
    <3>2. after.jobs = [[f EXCEPT ![j] = row] EXCEPT ![j] = last]
      BY SMTT(20), <1>4, <1>7, <1>10, <3>1
    <3> HIDE DEF row, last
    <3> QED BY <3>2
  <2>2. \A k \in Job : after.jobs[k] \in JobRow \union {NULL}
    BY <1>2, <1>11, <1>12
  <2> QED BY <2>1, <2>2
<1>14. after.versions \subseteq VersionRow
  BY <1>2, <1>7, <1>10
<1>15. Carries(after, in) = {v}
  BY <1>7, <1>10 DEF Carries, VersionsOf
<1>16. after \in Catalog
  <2>1. DOMAIN cat = {"jobs", "versions", "ticks", "triggers", "runs", "steps", "deps", "events"}
    BY <1>2
  <2>2. after = [jobs |-> after.jobs, versions |-> after.versions, ticks |-> after.ticks,
                 triggers |-> after.triggers, runs |-> after.runs, steps |-> after.steps,
                 deps |-> after.deps, events |-> after.events]
    BY <1>10, <2>1
  <2>3. /\ after.ticks = cat.ticks /\ after.triggers = cat.triggers /\ after.runs = cat.runs
        /\ after.steps = cat.steps /\ after.deps = cat.deps /\ after.events = cat.events
    BY <1>7, <1>10
  <2> QED BY <1>13, <1>14, <2>2, <2>3 DEF Catalog
<1>17. Turned(cat, id, in, after, v)
  BY <1>7, <1>10, <1>11, <1>15, <1>16 DEF Turned
<1> QED BY <1>17 DEF after

LEMMA BookGrows ==
    ASSUME NEW cat \in Catalog, Book(cat), NEW in \in Inputs, NEW id \in Nat,
           \A v \in cat.versions : v.id # id,
           NEW after, NEW v, Turned(cat, id, in, after, v)
    PROVE  Book(after)
<1> DEFINE j == in.job
           m == Cardinality(VersionsOf(cat, j))
<1>1. j \in Job /\ in.spec \in SpecsOf(j) /\ in.spec["max_concurrent"] = in.maxConcurrent
  BY InputFields
<1>2. /\ after.versions = cat.versions \union {v} /\ v.job = j /\ v.spec = in.spec
      /\ \/ v \in cat.versions
         \/ Carries(cat, in) = {} /\ v.id = id /\ v.version = m + 1
  <2>1. after.versions = cat.versions \union {v} /\ v.job = j /\ v.spec = in.spec
    BY DEF Turned
  <2>2. IF Carries(cat, in) = {} THEN v.id = id /\ v.version = m + 1 ELSE v \in cat.versions
    BY Zenon DEF Turned
  <2>3. CASE Carries(cat, in) = {}
    BY <2>1, <2>2, <2>3
  <2>4. CASE Carries(cat, in) # {}
    BY <2>1, <2>2, <2>4
  <2> QED BY <2>3, <2>4
<1>3. IsFiniteSet(after.versions)
  BY <1>2, FS_AddElement DEF Book
<1>4. Story(after)
  BY <1>1, <1>2 DEF Story, Book
<1>5. OneRowPerId(after)
  BY <1>2 DEF OneRowPerId, Book
<1>6. /\ \A k \in Job \ {j} : VersionsOf(after, k) = VersionsOf(cat, k)
      /\ VersionsOf(after, j) = VersionsOf(cat, j) \union {v}
  BY <1>2 DEF VersionsOf
<1>7. Dense(after)
  <2> SUFFICES ASSUME NEW k \in Job
      PROVE  /\ {w.version : w \in VersionsOf(after, k)} = 1..Cardinality(VersionsOf(after, k))
             /\ \A w, x \in VersionsOf(after, k) : w.spec = x.spec => w = x
    BY DEF Dense
  <2>1. /\ {w.version : w \in VersionsOf(cat, k)} = 1..Cardinality(VersionsOf(cat, k))
        /\ \A w, x \in VersionsOf(cat, k) : w.spec = x.spec => w = x
    BY DEF Book, Dense
  <2>2. CASE VersionsOf(after, k) = VersionsOf(cat, k)
    BY <2>1, <2>2
  <2>3. CASE k = j /\ v \notin cat.versions
    <3>1. v.version = m + 1 /\ Carries(cat, in) = {} /\ VersionsOf(after, k) = VersionsOf(cat, k) \union {v}
      BY <1>2, <1>6, <2>3
    <3>2. v \notin VersionsOf(cat, k) /\ IsFiniteSet(VersionsOf(cat, k))
      BY <2>3, FS_Subset DEF VersionsOf, Book
    <3>3. PICK n \in Nat : n = m /\ Cardinality(VersionsOf(after, k)) = n + 1
      BY <2>3, <3>1, <3>2, FS_AddElement, FS_CardinalityType
    <3>4. {w.version : w \in VersionsOf(cat, k)} = 1..n
      BY <2>1, <2>3, <3>3
    <3>5. {w.version : w \in VersionsOf(after, k)} = {w.version : w \in VersionsOf(cat, k)} \union {n + 1}
      BY <3>1, <3>3
    <3>6. (1..n) \union {n + 1} = 1..n + 1
      OBVIOUS
    <3>7. \A w \in VersionsOf(cat, k) : w.spec # v.spec
      BY <1>2, <2>3, <3>1 DEF Carries
    <3> QED BY <2>1, <3>1, <3>3, <3>4, <3>5, <3>6, <3>7
  <2>4. v \in cat.versions => VersionsOf(after, k) = VersionsOf(cat, k)
    BY <1>2 DEF VersionsOf
  <2> QED BY <1>6, <2>2, <2>3, <2>4
<1>8. Pointed(after)
  <2> SUFFICES ASSUME NEW k \in Job, after.jobs[k] # NULL
      PROVE  \E w \in VersionsOf(after, k) : /\ w.id = after.jobs[k].current
                                             /\ w.spec["max_concurrent"] = after.jobs[k].maxConcurrent
    BY DEF Pointed
  <2>1. CASE k = j
    <3>1. after.jobs[j].current = v.id /\ after.jobs[j].maxConcurrent = in.maxConcurrent
      BY DEF Turned
    <3>2. v \in VersionsOf(after, j)
      BY <1>6
    <3> QED BY <1>1, <1>2, <2>1, <3>1, <3>2
  <2>2. CASE k # j
    <3>1. after.jobs[k] = cat.jobs[k]
      BY <2>2 DEF Turned
    <3> QED BY <1>6, <2>2, <3>1 DEF Book, Pointed
  <2> QED BY <2>1, <2>2
<1> QED BY <1>3, <1>4, <1>5, <1>7, <1>8 DEF Book

\* A row that is there stays what its id names.
LEMMA NamedById ==
    ASSUME NEW cat, OneRowPerId(cat), NEW v \in cat.versions
    PROVE  VersionById(cat, v.id) = v
<1>1. \E w \in cat.versions : w.id = v.id
  OBVIOUS
<1> DEFINE w == CHOOSE x \in cat.versions : x.id = v.id
<1>2. w \in cat.versions /\ w.id = v.id
  BY <1>1
<1>3. w = v
  BY <1>2 DEF OneRowPerId
<1> QED BY <1>3 DEF VersionById

\* What a run's plan is.
LEMMA PlanShape ==
    ASSUME NEW cat, Story(cat), OneRowPerId(cat), NEW v \in cat.versions,
           NEW id, id = v.id, NEW plan, plan = PlanOf(cat, id)
    PROVE  /\ plan = FromIR(v.spec).steps
           /\ Len(plan) \in Nat /\ DOMAIN plan = 1..Len(plan)
           /\ \A i \in DOMAIN plan :
                 /\ StepRow(plan, i) \in PlanRow /\ StepRow(plan, i).idx = i - 1
                 /\ plan[i].name \in Name
                 /\ \A n \in DOMAIN plan[i].needs : plan[i].needs[n] \in Name
<1>1. plan = FromIR(v.spec).steps
  BY NamedById DEF PlanOf
<1>2. PICK d \in AcceptedDocs : v.spec = Canonical(Decode(d))
  BY DEF Story, SpecsOf
<1> QED BY <1>1, <1>2, PlanOfDocument

-----------------------------------------------------------------------------
(* The inductive invariant.  A call is described by its row, so that each    *)
(* part can be asked about the row before a step and about the one after.    *)

Fields == {"kind", "pc", "files", "batch", "failed", "job", "flag", "next", "attempt",
           "version", "results", "out"}

ResultRow == [job : Job, id : Nat, version : Nat, created : BOOLEAN]

\* What a call holds.
IsCall(r) ==
    /\ DOMAIN r = Fields
    /\ r.kind \in {NULL, "apply", "run", "pause"}
    /\ r.pc \in {"new", "load", "begin", "tx", "done"}
    /\ r.files \in Seq(File) /\ r.batch \in Seq(Inputs) /\ r.failed \in Nat
    /\ r.next \in Nat \ {0} /\ r.attempt \in 1..MaxWriteAttempts
    /\ r.results \in Seq(ResultRow)

\* How far a call has come says what it holds; the files it has still to read
\* and the documents it has read are no more than there are files, so its ids
\* last.
Going(r) ==
    /\ r.pc = "new" => r.kind = NULL /\ r.batch = <<>>
    /\ r.pc = "load" => r.kind = "apply"
    /\ r.pc \in {"begin", "tx"} => r.kind \in {"apply", "run"}
    /\ r.pc \in {"begin", "tx"} /\ r.kind = "run" => r.job \in Job
    /\ r.pc # "tx" => r.next = 1 /\ r.version = NULL
    /\ r.pc # "done" => r.out = NULL
    /\ Len(r.batch) + Len(r.files) <= Cardinality(File)

\* Every id a row of the catalogue goes by.
Used(cat) == {v.id : v \in cat.versions} \union {r.id : r \in cat.runs}
               \union {s.run : s \in cat.steps} \union {d.run : d \in cat.deps}

\* A call that has not succeeded has left nothing.
Fresh(c, cat) == \A i \in 1..MaxIds - 1 : Id(c, i) \notin Used(cat)

\* The result of file i says what the catalogue holds.
Recorded(r, c, cat, i) ==
    /\ r.results[i].job = r.batch[i].job
    /\ \E v \in Carries(cat, r.batch[i]) :
          /\ v.id = r.results[i].id /\ v.version = r.results[i].version
          /\ r.results[i].created = (v.id = Id(c, i))

Landed(r, c, cat) ==
    /\ Len(r.results) = Len(r.batch)
    /\ \A i \in 1..Len(r.batch) : Recorded(r, c, cat, i)

Settled(r, c, cat) ==
    /\ r.out # "ok" => Fresh(c, cat)
    /\ r.kind = "apply" /\ r.out = "ok" => Landed(r, c, cat)

Edges(plan, r, i) ==
    {[run |-> r, step |-> plan[i].name, on |-> plan[i].needs[n]] : n \in DOMAIN plan[i].needs}

\* Every run has all of its rows, and there is no decision without a run.
WholeRun(cat, r) ==
    /\ \E v \in cat.versions : v.id = r.version /\ v.job = r.job
    /\ \E t \in cat.triggers : /\ t.id = r.trigger /\ t.job = r.job
                               /\ \E k \in cat.ticks : k.id = t.tick /\ k.job = r.job
    /\ {s \in cat.steps : s.run = r.id} =
         {[run |-> r.id, row |-> StepRow(PlanOf(cat, r.version), i)] :
             i \in DOMAIN PlanOf(cat, r.version)}
    /\ {d \in cat.deps : d.run = r.id} =
         UNION {Edges(PlanOf(cat, r.version), r.id, i) : i \in DOMAIN PlanOf(cat, r.version)}
    /\ [run |-> r.id, kind |-> "run.queued"] \in cat.events

Whole(cat) ==
    /\ IsFiniteSet(cat.runs)
    /\ \A r \in cat.runs : WholeRun(cat, r)
    /\ \A t \in cat.triggers : \E r \in cat.runs : r.trigger = t.id
    /\ \A k \in cat.ticks : \E t \in cat.triggers : t.tick = k.id

\* The last turn that named a job left its document current.
Winner(batch, n, w) ==
    \A k \in 1..n :
        (\A m \in k + 1..n : batch[m].job # batch[k].job) =>
            /\ w.jobs[batch[k].job] # NULL
            /\ \E v \in Carries(w, batch[k]) : v.id = w.jobs[batch[k].job].current

\* After `next - 1` turns of the loop the copy is what was committed and the
\* versions these turns wrote.
ApplyTx(r, c, cat, w) ==
    /\ r.next <= Len(r.batch) + 1
    /\ Len(r.results) = r.next - 1
    /\ Book(w)
    /\ w.ticks = cat.ticks /\ w.triggers = cat.triggers /\ w.runs = cat.runs
    /\ w.steps = cat.steps /\ w.deps = cat.deps /\ w.events = cat.events
    /\ cat.versions \subseteq w.versions
    /\ \A v \in w.versions \ cat.versions : \E i \in 1..r.next - 1 : v.id = Id(c, i)
    /\ \A j \in Job : cat.jobs[j] # NULL =>
          w.jobs[j] # NULL /\ w.jobs[j].paused = cat.jobs[j].paused
    /\ \A i \in 1..r.next - 1 : Recorded(r, c, w, i)
    /\ Winner(r.batch, r.next - 1, w)

Smaller(a, b) == IF a <= b THEN a ELSE b

\* The copy is what was committed and as much of one run as has been inserted.
Inserted(r, c, cat, w, plan) ==
    /\ w.ticks = cat.ticks \union {[id |-> Id(c, 1), job |-> r.job]}
    /\ w.triggers = cat.triggers \union {[id |-> Id(c, 2), tick |-> Id(c, 1), job |-> r.job]}
    /\ w.runs = cat.runs \union {[id |-> Id(c, 3), job |-> r.job, trigger |-> Id(c, 2),
                                  version |-> r.version]}
    /\ w.steps = cat.steps \union
          {[run |-> Id(c, 3), row |-> StepRow(plan, i)] : i \in 1..Smaller(r.next - 3, Len(plan))}
    /\ w.deps = cat.deps \union
          UNION {Edges(plan, Id(c, 3), i) : i \in 1..Smaller(r.next - 3, Len(plan))}
    /\ w.events = cat.events \union
          (IF r.next = Len(plan) + 4 THEN {[run |-> Id(c, 3), kind |-> "run.queued"]} ELSE {})

RunTx(r, c, cat, w) ==
    /\ w.jobs = cat.jobs /\ w.versions = cat.versions
    /\ r.next = 1 => r.version = NULL
    /\ r.next > 1 => /\ r.next <= Len(PlanOf(cat, r.version)) + 4
                     /\ \E v \in cat.versions : v.id = r.version /\ v.job = r.job
    /\ r.next <= 2 => w = cat
    /\ r.next > 2 => Inserted(r, c, cat, w, PlanOf(cat, r.version))

Tx(r, c, cat, w) ==
    /\ r.kind = "apply" => ApplyTx(r, c, cat, w)
    /\ r.kind = "run" => RunTx(r, c, cat, w)

CatInv ==
    /\ CTypeOK
    /\ DOMAIN call = Call
    /\ \A c \in Call : IsCall(call[c]) /\ Going(call[c]) /\ Settled(call[c], c, db)
    /\ Book(db) /\ Whole(db)
    /\ \A c \in Call : writer = c => Tx(call[c], c, db, work)

-----------------------------------------------------------------------------
(* Steps that leave the committed catalogue alone. *)

\* What has to be shown of a step of one call.
LEMMA OneCallMoves ==
    ASSUME CatInv, NEW c \in Call, NEW rec, Set(c, rec), db' = db,
           UNCHANGED <<disk, edits>>, faults' \in 0..MaxFaults,
           work' \in Catalog \union {NULL}, writer' \in Call \union {NULL},
           (writer' = NULL) = (work' = NULL),
           (rec.pc = "tx") = (writer' = c),
           \A d \in Call \ {c} : (writer' = d) = (writer = d),
           \A d \in Call \ {c} : writer' = d => work' = work,
           IsCall(rec), Going(rec), Settled(rec, c, db),
           writer' = c => Tx(rec, c, db, work')
    PROVE  CatInv'
<1>1. /\ DOMAIN call' = Call /\ call'[c] = rec
      /\ \A d \in Call \ {c} : call'[d] = call[d]
  BY DEF CatInv, Set
<1>2. CTypeOK'
  <2>1. rec.pc \in {"new", "load", "begin", "tx", "done"} /\ rec.attempt \in 1..MaxWriteAttempts
    BY DEF IsCall
  <2>2. \A d \in Call : /\ call'[d].pc \in {"new", "load", "begin", "tx", "done"}
                        /\ call'[d].attempt \in 1..MaxWriteAttempts
                        /\ (call'[d].pc = "tx") = (writer' = d)
    <3> TAKE d \in Call
    <3>1. CASE d = c
      BY <1>1, <2>1, <3>1
    <3>2. CASE d # c
      BY <1>1, <3>2 DEF CatInv, CTypeOK
    <3> QED BY <3>1, <3>2
  <2> QED BY <2>2 DEF CatInv, CTypeOK
<1>3. \A d \in Call : IsCall(call'[d]) /\ Going(call'[d]) /\ Settled(call'[d], d, db)
  <2> TAKE d \in Call
  <2>1. CASE d = c
    BY <1>1, <2>1
  <2>2. CASE d # c
    BY <1>1, <2>2 DEF CatInv
  <2> QED BY <2>1, <2>2
<1>4. \A d \in Call : writer' = d => Tx(call'[d], d, db, work')
  <2> SUFFICES ASSUME NEW d \in Call, writer' = d PROVE Tx(call'[d], d, db, work')
    OBVIOUS
  <2>1. CASE d = c
    BY <1>1, <2>1
  <2>2. CASE d # c
    <3>1. writer = d /\ work' = work /\ call'[d] = call[d]
      BY <1>1, <2>2
    <3> QED BY <3>1 DEF CatInv
  <2> QED BY <2>1, <2>2
<1>5. Book(db) /\ Whole(db)
  BY DEF CatInv
<1> QED BY ZenonT(30), <1>1, <1>2, <1>3, <1>4, <1>5 DEF CatInv, IsCall, Going, Settled, Tx, Book, Whole

LEMMA NothingRecordedYet ==
    /\ EmptyCatalog \in Catalog /\ Book(EmptyCatalog) /\ Whole(EmptyCatalog)
    /\ Used(EmptyCatalog) = {}
<1>1. /\ EmptyCatalog.versions = {} /\ EmptyCatalog.runs = {} /\ EmptyCatalog.steps = {}
      /\ EmptyCatalog.deps = {} /\ EmptyCatalog.triggers = {} /\ EmptyCatalog.ticks = {}
      /\ \A j \in Job : EmptyCatalog.jobs[j] = NULL /\ VersionsOf(EmptyCatalog, j) = {}
  BY DEF EmptyCatalog, VersionsOf
<1>2. EmptyCatalog \in Catalog
  BY DEF EmptyCatalog, Catalog
<1>3. Dense(EmptyCatalog)
  <2>1. Cardinality({}) = 0 /\ 1..0 = {}
    BY FS_EmptySet
  <2>2. \A j \in Job : {v.version : v \in VersionsOf(EmptyCatalog, j)} = {}
    BY <1>1
  <2> QED BY <1>1, <2>1, <2>2 DEF Dense
<1>4. Book(EmptyCatalog)
  BY <1>1, <1>3, FS_EmptySet DEF Book, Story, OneRowPerId, Pointed
<1>5. Whole(EmptyCatalog)
  BY <1>1, FS_EmptySet DEF Whole
<1>6. Used(EmptyCatalog) = {}
  BY <1>1 DEF Used
<1> QED BY <1>2, <1>4, <1>5, <1>6

LEMMA InvHoldsAtFirst == CatInit => CatInv
<1> SUFFICES ASSUME CatInit PROVE CatInv
  OBVIOUS
<1>1. /\ disk = Initial /\ edits = 0 /\ faults = 0 /\ db = EmptyCatalog /\ work = NULL
      /\ writer = NULL /\ DOMAIN call = Call /\ \A c \in Call : call[c] = NewCall
  BY DEF CatInit
<1>2. \A c \in Call : c # NULL
  BY NullAssumption, JobCatalogAssumption
<1>3. IsCall(NewCall)
  <2>1. <<>> \in Seq(File) /\ <<>> \in Seq(Inputs) /\ <<>> \in Seq(ResultRow)
    OBVIOUS
  <2> QED BY <2>1, JobCatalogAssumption DEF IsCall, NewCall, Fields
<1>4. Going(NewCall)
  <2>1. Len(NewCall.batch) + Len(NewCall.files) <= Cardinality(File)
    BY IdNumbers DEF NewCall
  <2> QED BY <2>1, NullAssumption DEF Going, NewCall
<1>5. \A c \in Call : Settled(NewCall, c, db)
  BY <1>1, NothingRecordedYet, NullAssumption DEF Settled, NewCall, Fresh
<1>6. CTypeOK
  <2>1. disk \in [File -> Documents \union {NULL}]
    <3>1. disk = [f \in File |-> disk[f]]
      BY <1>1, JobCatalogAssumption, Zenon
    <3>2. \A f \in File : disk[f] \in Documents \union {NULL}
      BY <1>1 DEF Documents
    <3> QED BY <3>1, <3>2
  <2>2. edits \in 0..MaxEdits /\ faults \in 0..MaxFaults
    BY <1>1, JobCatalogAssumption
  <2>3. db.versions = {}
    BY <1>1 DEF EmptyCatalog
  <2>4. \A c \in Call : /\ call[c].pc = "new" /\ call[c].attempt = 1
    BY <1>1 DEF NewCall
  <2> QED BY <1>1, <1>2, <2>1, <2>2, <2>3, <2>4, NothingRecordedYet, JobCatalogAssumption DEF CTypeOK
<1> QED BY <1>1, <1>2, <1>3, <1>4, <1>5, <1>6, NothingRecordedYet DEF CatInv

LEMMA NobodyIsNull ==
    /\ \A c \in Call : c # NULL /\ c \in Nat
    /\ NULL # "apply" /\ NULL # "run" /\ NULL # "pause" /\ NULL # "ok"
  BY NullAssumption, JobCatalogAssumption

LEMMA EditKeeps == CatInv /\ Edit => CatInv'
<1> SUFFICES ASSUME CatInv, Edit PROVE CatInv'
  OBVIOUS
<1>1. /\ edits < MaxEdits /\ edits' = edits + 1
      /\ UNCHANGED <<faults, db, work, writer, call>>
  BY DEF Edit
<1>2. PICK f \in File, d \in Written \union {NULL} : disk' = [disk EXCEPT ![f] = d]
  BY DEF Edit
<1>3. d \in Documents \union {NULL}
  BY DEF Documents
<1>4. CTypeOK'
  <2>1. disk' \in [File -> Documents \union {NULL}]
    BY <1>2, <1>3 DEF CatInv, CTypeOK
  <2>2. edits' \in 0..MaxEdits
    BY <1>1, JobCatalogAssumption DEF CatInv, CTypeOK
  <2> QED BY <1>1, <2>1, <2>2 DEF CatInv, CTypeOK
<1> QED BY ZenonT(30), <1>1, <1>4 DEF CatInv, IsCall, Going, Settled, Tx

\* A call outside of a transaction moves on, and the catalogue does not.
LEMMA OutsideATransaction ==
    ASSUME CatInv, NEW c \in Call, NEW rec, Set(c, rec),
           UNCHANGED <<disk, edits, faults, db, work, writer>>,
           call[c].pc # "tx", rec.pc # "tx",
           IsCall(rec), Going(rec), Settled(rec, c, db)
    PROVE  CatInv'
<1>1. writer # c /\ writer' # c
  BY DEF CatInv, CTypeOK
<1>2. /\ faults' \in 0..MaxFaults /\ work' \in Catalog \union {NULL}
      /\ writer' \in Call \union {NULL} /\ (writer' = NULL) = (work' = NULL)
  BY DEF CatInv, CTypeOK
<1> QED BY <1>1, <1>2, OneCallMoves

LEMMA ApplyKeeps == ASSUME CatInv, NEW c \in Call, Apply(c) PROVE CatInv'
<1>1. call[c].pc = "new" /\ UNCHANGED <<disk, edits, faults, db, work, writer>>
  BY DEF Apply, Starts
<1>a. PICK n \in 1..Cardinality(File) : \E files \in [1..n -> File] :
         Set(c, [call[c] EXCEPT !.kind = "apply", !.pc = "load", !.files = files])
  BY DEF Apply
<1>2. PICK files \in [1..n -> File] :
         Set(c, [call[c] EXCEPT !.kind = "apply", !.pc = "load", !.files = files])
  BY <1>a
<1>3. PICK r : r = call[c]
  OBVIOUS
<1>4. PICK rec : rec = [r EXCEPT !.kind = "apply", !.pc = "load", !.files = files]
  OBVIOUS
<1>5. IsCall(r) /\ Going(r) /\ Settled(r, c, db)
  BY <1>3 DEF CatInv
<1>6. /\ DOMAIN rec = Fields /\ rec.kind = "apply" /\ rec.pc = "load" /\ rec.files = files
      /\ rec.batch = r.batch /\ rec.failed = r.failed /\ rec.next = r.next
      /\ rec.attempt = r.attempt /\ rec.version = r.version /\ rec.results = r.results
      /\ rec.out = r.out
  BY <1>4, <1>5 DEF IsCall, Fields
<1>7. files \in Seq(File) /\ Len(files) = n
  BY <1>2, IdNumbers
<1>8. r.batch = <<>> /\ r.next = 1 /\ r.version = NULL /\ r.out = NULL
  BY <1>1, <1>3, <1>5 DEF Going
<1>9. IsCall(rec)
  BY <1>5, <1>6, <1>7 DEF IsCall
<1>10. Going(rec)
  <2>1. Len(rec.batch) + Len(rec.files) <= Cardinality(File)
    BY <1>2, <1>6, <1>7, <1>8, IdNumbers
  <2> QED BY <1>6, <1>8, <2>1 DEF Going
<1>11. Settled(rec, c, db)
  BY <1>5, <1>6, <1>8, NobodyIsNull DEF Settled
<1> QED BY <1>1, <1>2, <1>3, <1>4, <1>6, <1>9, <1>10, <1>11, OutsideATransaction

LEMMA LoadFileKeeps == ASSUME CatInv, NEW c \in Call, LoadFile(c) PROVE CatInv'
<1>1. PICK r : r = call[c]
  OBVIOUS
<1>2. /\ r.pc = "load" /\ r.files # <<>> /\ UNCHANGED <<disk, edits, faults, db, work, writer>>
  BY <1>1 DEF LoadFile
<1>3. IsCall(r) /\ Going(r) /\ Settled(r, c, db)
  BY <1>1 DEF CatInv
<1>4. PICK f \in File, rest \in Seq(File), m \in Nat :
         /\ f = Head(r.files) /\ rest = Tail(r.files) /\ m = Len(rest) /\ Len(r.files) = m + 1
  <2>1. r.files \in Seq(File)
    BY <1>3 DEF IsCall
  <2>2. Head(r.files) \in File /\ Tail(r.files) \in Seq(File) /\ Len(r.files) \in Nat \ {0}
    BY <1>2, <2>1
  <2>3. Len(Tail(r.files)) \in Nat /\ Len(r.files) = Len(Tail(r.files)) + 1
    BY <1>2, <2>1
  <2> QED BY <2>2, <2>3
<1>5. PICK doc : doc = disk[f] /\ doc \in Documents \union {NULL}
  BY DEF CatInv, CTypeOK
<1>6. PICK k \in Nat : k = Len(r.batch) /\ r.batch \in Seq(Inputs)
  BY <1>3 DEF IsCall
<1>7. PICK l \in Nat : l = Cardinality(File) /\ k + m + 1 <= l
  <2>1. Len(r.batch) + Len(r.files) <= Cardinality(File)
    BY <1>3 DEF Going
  <2>2. Cardinality(File) \in Nat
    BY IdNumbers
  <2>3. k + (m + 1) <= Cardinality(File)
    BY <1>4, <1>6, <2>1
  <2> QED BY <2>2, <2>3
<1>8. CASE doc = NULL \/ ~Accepted(doc)
  <2>1. PICK rec : /\ rec = [[r EXCEPT !.files = rest] EXCEPT !.failed = r.failed + 1]
                   /\ Set(c, rec)
    <3>1. PICK q : q = [r EXCEPT !.files = rest]
      OBVIOUS
    <3>2. q.failed = r.failed
      BY <1>3, <3>1 DEF IsCall, Fields
    <3>3. q = [call[c] EXCEPT !.files = Tail(@)]
      BY <1>1, <1>4, <3>1
    <3>4. Set(c, [q EXCEPT !.failed = @ + 1])
      BY <1>1, <1>4, <1>5, <1>8, <3>3, Zenon DEF LoadFile
    <3> QED BY <3>1, <3>2, <3>4
  <2>2. /\ DOMAIN rec = Fields /\ rec.kind = r.kind /\ rec.pc = r.pc /\ rec.files = rest
        /\ rec.batch = r.batch /\ rec.failed = r.failed + 1 /\ rec.next = r.next
        /\ rec.attempt = r.attempt /\ rec.version = r.version /\ rec.results = r.results
        /\ rec.out = r.out
    BY <1>3, <2>1 DEF IsCall, Fields
  <2>3. IsCall(rec)
    BY <1>3, <2>2 DEF IsCall
  <2>a. Len(rec.batch) = k /\ Len(rec.files) = m
    BY <1>4, <1>6, <2>2
  <2>4. Len(rec.batch) + Len(rec.files) <= Cardinality(File)
    BY <1>7, <2>a
  <2>5. Going(rec)
    BY <1>2, <1>3, <2>2, <2>4 DEF Going
  <2>6. Settled(rec, c, db)
    BY <1>2, <1>3, <2>2, NobodyIsNull DEF Settled, Going
  <2> QED BY <1>1, <1>2, <2>1, <2>2, <2>3, <2>5, <2>6, OutsideATransaction
<1>9. CASE doc # NULL /\ Accepted(doc)
  <2>1. PICK in : in = Input(f, Decode(doc)) /\ in \in Inputs
    <3>1. doc \in AcceptedDocs
      BY <1>5, <1>9 DEF AcceptedDocs
    <3> QED BY <3>1 DEF Inputs
  <2>2. PICK rec : /\ rec = [[r EXCEPT !.files = rest] EXCEPT !.batch = Append(r.batch, in)]
                   /\ Set(c, rec)
    <3>1. PICK q : q = [r EXCEPT !.files = rest]
      OBVIOUS
    <3>2. q.batch = r.batch
      BY <1>3, <3>1 DEF IsCall, Fields
    <3>3. q = [call[c] EXCEPT !.files = Tail(@)]
      BY <1>1, <1>4, <3>1
    <3>4. Set(c, [q EXCEPT !.batch = Append(@, in)])
      BY <1>1, <1>4, <1>5, <1>9, <2>1, <3>3, Zenon DEF LoadFile
    <3> QED BY <3>1, <3>2, <3>4
  <2>3. /\ DOMAIN rec = Fields /\ rec.kind = r.kind /\ rec.pc = r.pc /\ rec.files = rest
        /\ rec.batch = Append(r.batch, in) /\ rec.failed = r.failed /\ rec.next = r.next
        /\ rec.attempt = r.attempt /\ rec.version = r.version /\ rec.results = r.results
        /\ rec.out = r.out
    BY <1>3, <2>2 DEF IsCall, Fields
  <2>4. rec.batch \in Seq(Inputs) /\ Len(rec.batch) = k + 1
    BY <1>6, <2>1, <2>3
  <2>5. IsCall(rec)
    BY <1>3, <2>3, <2>4 DEF IsCall
  <2>a. Len(rec.files) = m
    BY <1>4, <2>3
  <2>6. Len(rec.batch) + Len(rec.files) <= Cardinality(File)
    BY <1>7, <2>4, <2>a
  <2>7. Going(rec)
    BY <1>2, <1>3, <2>3, <2>6 DEF Going
  <2>8. Settled(rec, c, db)
    BY <1>2, <1>3, <2>3, NobodyIsNull DEF Settled, Going
  <2> QED BY <1>1, <1>2, <2>2, <2>3, <2>5, <2>7, <2>8, OutsideATransaction
<1> QED BY <1>8, <1>9

LEMMA OpenBatchKeeps == ASSUME CatInv, NEW c \in Call, OpenBatch(c) PROVE CatInv'
<1>1. PICK r : r = call[c]
  OBVIOUS
<1>2. IsCall(r) /\ Going(r) /\ Settled(r, c, db)
  BY <1>1 DEF CatInv
<1>3. r.pc = "load" /\ r.kind = "apply" /\ UNCHANGED <<disk, edits, faults, db, work, writer>>
  BY <1>1, <1>2 DEF OpenBatch, Going
<1>4. r.next = 1 /\ r.version = NULL /\ r.out = NULL
  BY <1>2, <1>3 DEF Going
<1>5. CASE r.batch = <<>>
  <2>1. PICK rec : rec = [r EXCEPT !.pc = "done", !.out = "refused"] /\ Set(c, rec)
    BY <1>1, <1>5 DEF OpenBatch
  <2>2. /\ DOMAIN rec = Fields /\ rec.kind = r.kind /\ rec.pc = "done" /\ rec.files = r.files
        /\ rec.batch = r.batch /\ rec.failed = r.failed /\ rec.next = r.next
        /\ rec.attempt = r.attempt /\ rec.version = r.version /\ rec.results = r.results
        /\ rec.out = "refused"
    BY <1>2, <2>1 DEF IsCall, Fields
  <2>3. IsCall(rec)
    BY <1>2, <2>2 DEF IsCall
  <2>4. Going(rec)
    BY <1>2, <1>4, <2>2 DEF Going
  <2>5. Settled(rec, c, db)
    BY <1>2, <1>4, <2>2, NobodyIsNull DEF Settled
  <2> QED BY <1>1, <1>3, <2>1, <2>2, <2>3, <2>4, <2>5, OutsideATransaction
<1>6. CASE r.batch # <<>>
  <2>1. PICK rec : rec = [r EXCEPT !.pc = "begin"] /\ Set(c, rec)
    BY <1>1, <1>6 DEF OpenBatch
  <2>2. /\ DOMAIN rec = Fields /\ rec.kind = r.kind /\ rec.pc = "begin" /\ rec.files = r.files
        /\ rec.batch = r.batch /\ rec.failed = r.failed /\ rec.next = r.next
        /\ rec.attempt = r.attempt /\ rec.version = r.version /\ rec.results = r.results
        /\ rec.out = r.out
    BY <1>2, <2>1 DEF IsCall, Fields
  <2>3. IsCall(rec)
    BY <1>2, <2>2 DEF IsCall
  <2>4. Going(rec)
    BY <1>2, <1>3, <1>4, <2>2 DEF Going
  <2>5. Settled(rec, c, db)
    BY <1>2, <1>4, <2>2, NobodyIsNull DEF Settled
  <2> QED BY <1>1, <1>3, <2>1, <2>2, <2>3, <2>4, <2>5, OutsideATransaction
<1> QED BY <1>5, <1>6

LEMMA RunKeeps == ASSUME CatInv, NEW c \in Call, Run(c) PROVE CatInv'
<1>1. PICK r : r = call[c]
  OBVIOUS
<1>2. IsCall(r) /\ Going(r) /\ Settled(r, c, db)
  BY <1>1 DEF CatInv
<1>3. r.pc = "new" /\ UNCHANGED <<disk, edits, faults, db, work, writer>>
  BY <1>1 DEF Run, Starts
<1>4. r.next = 1 /\ r.version = NULL /\ r.out = NULL /\ r.batch = <<>>
  BY <1>2, <1>3 DEF Going
<1>5. PICK j \in Job : Set(c, [r EXCEPT !.kind = "run", !.pc = "begin", !.job = j])
  BY <1>1 DEF Run
<1>6. PICK rec : rec = [r EXCEPT !.kind = "run", !.pc = "begin", !.job = j] /\ Set(c, rec)
  BY <1>5
<1>7. /\ DOMAIN rec = Fields /\ rec.kind = "run" /\ rec.pc = "begin" /\ rec.files = r.files
      /\ rec.batch = r.batch /\ rec.failed = r.failed /\ rec.next = r.next /\ rec.job = j
      /\ rec.attempt = r.attempt /\ rec.version = r.version /\ rec.results = r.results
      /\ rec.out = r.out
  BY <1>2, <1>6 DEF IsCall, Fields
<1>8. IsCall(rec)
  BY <1>2, <1>7 DEF IsCall
<1>9. Going(rec)
  BY <1>2, <1>4, <1>7 DEF Going
<1>10. Settled(rec, c, db)
  BY <1>2, <1>4, <1>7, NobodyIsNull DEF Settled
<1> QED BY <1>1, <1>3, <1>6, <1>7, <1>8, <1>9, <1>10, OutsideATransaction

-----------------------------------------------------------------------------
(* A transaction opens, and is rolled back. *)

LEMMA BeginKeeps == ASSUME CatInv, NEW c \in Call, Begin(c) PROVE CatInv'
<1>1. PICK r : r = call[c]
  OBVIOUS
<1>2. IsCall(r) /\ Going(r) /\ Settled(r, c, db)
  BY <1>1 DEF CatInv
<1>3. /\ r.pc = "begin" /\ writer = NULL /\ writer' = c /\ work' = db
      /\ UNCHANGED <<disk, edits, faults, db>>
  BY <1>1 DEF Begin
<1>4. r.next = 1 /\ r.version = NULL /\ r.out = NULL
  BY <1>2, <1>3 DEF Going
<1>5. PICK rec : rec = [r EXCEPT !.pc = "tx", !.results = <<>>] /\ Set(c, rec)
  BY <1>1 DEF Begin
<1>6. /\ DOMAIN rec = Fields /\ rec.kind = r.kind /\ rec.pc = "tx" /\ rec.files = r.files
      /\ rec.batch = r.batch /\ rec.failed = r.failed /\ rec.next = r.next /\ rec.job = r.job
      /\ rec.attempt = r.attempt /\ rec.version = r.version /\ rec.results = <<>>
      /\ rec.out = r.out
  BY <1>2, <1>5 DEF IsCall, Fields
<1>7. IsCall(rec)
  <2>1. <<>> \in Seq(ResultRow)
    OBVIOUS
  <2> QED BY <1>2, <1>6, <2>1 DEF IsCall
<1>8. Going(rec)
  BY <1>2, <1>3, <1>6 DEF Going
<1>9. Settled(rec, c, db)
  BY <1>2, <1>4, <1>6, NobodyIsNull DEF Settled
<1>10. Tx(rec, c, db, db)
  <2>1. PICK k \in Nat : k = Len(rec.batch)
    BY <1>7 DEF IsCall
  <2>2. rec.next = 1 /\ rec.next <= k + 1 /\ Len(rec.results) = rec.next - 1 /\ 1..rec.next - 1 = {}
    BY <1>4, <1>6
  <2>3. Book(db)
    BY DEF CatInv
  <2>4. ApplyTx(rec, c, db, db)
    BY <2>1, <2>2, <2>3 DEF ApplyTx, Winner
  <2>5. RunTx(rec, c, db, db)
    BY <1>4, <1>6, <2>2 DEF RunTx
  <2> QED BY <2>4, <2>5 DEF Tx
<1>11. /\ db \in Catalog /\ db # NULL /\ faults' \in 0..MaxFaults
  BY <1>3, NullAssumption DEF CatInv, CTypeOK
<1> QED BY <1>1, <1>3, <1>5, <1>6, <1>7, <1>8, <1>9, <1>10, <1>11, NobodyIsNull, OneCallMoves

\* Nothing of the copy is left, so what held before the transaction still does.
LEMMA RollbackKeeps ==
    ASSUME CatInv, NEW c \in Call, NEW rec, Rollback(c, rec), call[c].pc = "tx",
           faults' \in 0..MaxFaults, rec.pc # "tx", IsCall(rec), Going(rec), Settled(rec, c, db)
    PROVE  CatInv'
<1>1. writer = c
  BY DEF CatInv, CTypeOK
<1>2. /\ Set(c, rec) /\ work' = NULL /\ writer' = NULL /\ UNCHANGED <<disk, edits, db>>
  BY DEF Rollback
<1> QED BY <1>1, <1>2, NobodyIsNull, OneCallMoves

LEMMA WithoutResultFields ==
    ASSUME CatInv, NEW c \in Call, call[c].pc = "tx", NEW out, out # "ok",
           NEW rec, rec = WithoutResult(c, out)
    PROVE  rec.pc # "tx" /\ IsCall(rec) /\ Going(rec) /\ Settled(rec, c, db)
<1>1. PICK r : r = call[c]
  OBVIOUS
<1>2. IsCall(r) /\ Going(r) /\ Settled(r, c, db) /\ r.pc = "tx"
  BY <1>1 DEF CatInv
<1>3. rec = [[r EXCEPT !.pc = "done", !.out = out, !.next = 1, !.version = NULL,
                       !.attempt = 1] EXCEPT !.results = <<>>]
  BY <1>1 DEF WithoutResult, Ended
<1>4. /\ DOMAIN rec = Fields /\ rec.kind = r.kind /\ rec.pc = "done" /\ rec.files = r.files
      /\ rec.batch = r.batch /\ rec.failed = r.failed /\ rec.next = 1 /\ rec.job = r.job
      /\ rec.attempt = 1 /\ rec.version = NULL /\ rec.results = <<>> /\ rec.out = out
  BY <1>2, <1>3 DEF IsCall, Fields
<1>5. IsCall(rec)
  <2>1. <<>> \in Seq(ResultRow) /\ 1 \in 1..MaxWriteAttempts /\ 1 \in Nat \ {0}
    BY JobCatalogAssumption
  <2> QED BY <1>2, <1>4, <2>1 DEF IsCall
<1>6. Going(rec)
  BY <1>2, <1>4 DEF Going
<1>7. r.out # "ok"
  BY <1>2, NobodyIsNull DEF Going
<1>8. Settled(rec, c, db)
  BY <1>2, <1>4, <1>7 DEF Settled
<1> QED BY <1>4, <1>5, <1>6, <1>8

LEMMA RefuseKeeps ==
    ASSUME CatInv, NEW c \in Call, call[c].pc = "tx", NEW out, out # "ok", Refuse(c, out)
    PROVE  CatInv'
<1>1. PICK rec : rec = WithoutResult(c, out) /\ Rollback(c, rec) /\ faults' = faults
  BY DEF Refuse
<1>2. faults' \in 0..MaxFaults
  BY <1>1 DEF CatInv, CTypeOK
<1> QED BY <1>1, <1>2, WithoutResultFields, RollbackKeeps

LEMMA TxFailsKeeps == ASSUME CatInv, NEW c \in Call, TxFails(c) PROVE CatInv'
<1>1. call[c].pc = "tx" /\ faults < MaxFaults /\ faults' = faults + 1
  BY DEF TxFails
<1>2. faults' \in 0..MaxFaults
  BY <1>1, JobCatalogAssumption DEF CatInv, CTypeOK
<1>3. CASE Rollback(c, WithoutResult(c, "failed"))
  <2>1. PICK rec : rec = WithoutResult(c, "failed") /\ Rollback(c, rec)
    BY <1>3
  <2> QED BY <1>1, <1>2, <2>1, WithoutResultFields, RollbackKeeps
<1>4. CASE /\ call[c].attempt < MaxWriteAttempts
           /\ Rollback(c, [call[c] EXCEPT !.pc = "begin", !.attempt = @ + 1,
                                          !.next = 1, !.version = NULL])
  <2>1. PICK r : r = call[c]
    OBVIOUS
  <2>2. IsCall(r) /\ Going(r) /\ Settled(r, c, db) /\ r.pc = "tx"
    BY <1>1, <2>1 DEF CatInv
  <2>3. PICK rec : /\ rec = [r EXCEPT !.pc = "begin", !.attempt = @ + 1, !.next = 1, !.version = NULL]
                   /\ Rollback(c, rec)
    BY <1>4, <2>1
  <2>4. /\ DOMAIN rec = Fields /\ rec.kind = r.kind /\ rec.pc = "begin" /\ rec.files = r.files
        /\ rec.batch = r.batch /\ rec.failed = r.failed /\ rec.next = 1 /\ rec.job = r.job
        /\ rec.attempt = r.attempt + 1 /\ rec.version = NULL /\ rec.results = r.results
        /\ rec.out = r.out
    BY <2>2, <2>3 DEF IsCall, Fields
  <2>5. IsCall(rec)
    <3>1. r.attempt + 1 \in 1..MaxWriteAttempts
      <4>1. r.attempt \in 1..MaxWriteAttempts
        BY <2>2 DEF IsCall
      <4>2. MaxWriteAttempts \in Nat
        BY JobCatalogAssumption
      <4>3. r.attempt < MaxWriteAttempts
        BY <1>4, <2>1
      <4> QED BY <4>1, <4>2, <4>3
    <3> QED BY <2>2, <2>4, <3>1 DEF IsCall
  <2>6. Going(rec)
    BY <2>2, <2>4 DEF Going
  <2>7. Settled(rec, c, db)
    BY <2>2, <2>4, NobodyIsNull DEF Settled, Going
  <2> QED BY <1>1, <1>2, <2>3, <2>4, <2>5, <2>6, <2>7, RollbackKeeps
<1> QED BY <1>3, <1>4 DEF TxFails

-----------------------------------------------------------------------------
(* The statements of a transaction. *)

\* The writer's copy.
LEMMA TheWriter ==
    ASSUME CatInv, NEW c \in Call, call[c].pc = "tx"
    PROVE  /\ writer = c /\ work \in Catalog /\ db \in Catalog
           /\ IsCall(call[c]) /\ Going(call[c]) /\ Settled(call[c], c, db) /\ Fresh(c, db)
           /\ Tx(call[c], c, db, work)
<1>1. writer = c
  BY DEF CatInv, CTypeOK
<1>2. work \in Catalog /\ db \in Catalog
  BY <1>1, NobodyIsNull DEF CatInv, CTypeOK
<1>3. IsCall(call[c]) /\ Going(call[c]) /\ Settled(call[c], c, db)
  BY DEF CatInv
<1>4. call[c].out = NULL
  BY <1>3 DEF Going
<1>5. Fresh(c, db)
  BY <1>3, <1>4, NobodyIsNull DEF Settled
<1>6. Tx(call[c], c, db, work)
  BY <1>1 DEF CatInv
<1> QED BY <1>1, <1>2, <1>3, <1>5, <1>6

\* A statement that changes the copy and how far the call has come.
LEMMA StatementKeeps ==
    ASSUME CatInv, NEW c \in Call, call[c].pc = "tx", NEW cat \in Catalog, NEW rec,
           Step(c, cat, rec), IsCall(rec), rec.pc = "tx", rec.kind = call[c].kind,
           rec.job = call[c].job, rec.out = call[c].out, rec.batch = call[c].batch,
           rec.files = call[c].files, Tx(rec, c, db, cat)
    PROVE  CatInv'
<1>1. writer = c /\ Going(call[c]) /\ Settled(call[c], c, db)
  BY TheWriter
<1>2. /\ work' = cat /\ Set(c, rec) /\ UNCHANGED <<disk, edits, faults, db, writer>>
  BY DEF Step
<1>3. faults' \in 0..MaxFaults /\ cat # NULL
  BY <1>2, NullAssumption DEF CatInv, CTypeOK
<1>4. Going(rec)
  BY <1>1 DEF Going
<1>5. call[c].out = NULL
  BY <1>1 DEF Going
<1>6. Settled(rec, c, db)
  BY <1>1, <1>5, NobodyIsNull DEF Settled
<1> QED BY <1>1, <1>2, <1>3, <1>4, <1>6, NobodyIsNull, OneCallMoves

\* What was recorded of a file stays true as rows are added.
LEMMA RecordedGrows ==
    ASSUME NEW r, NEW q, NEW c, NEW cat, NEW more, NEW i, cat.versions \subseteq more.versions,
           Recorded(r, c, cat, i), q.results[i] = r.results[i], q.batch[i] = r.batch[i]
    PROVE  Recorded(q, c, more, i)
  BY DEF Recorded, Carries, VersionsOf

LEMMA WriteJobVersionKeeps == ASSUME CatInv, NEW c \in Call, WriteJobVersion(c) PROVE CatInv'
<1>1. PICK r : r = call[c]
  OBVIOUS
<1>2. r.kind = "apply" /\ r.pc = "tx" /\ r.next <= Len(r.batch)
  BY <1>1 DEF WriteJobVersion
<1>3. /\ IsCall(r) /\ Going(r) /\ Fresh(c, db) /\ ApplyTx(r, c, db, work)
      /\ work \in Catalog /\ db \in Catalog
  BY <1>1, <1>2, TheWriter DEF Tx
<1>4. PICK i \in Nat, l \in Nat, k \in Nat :
         /\ i = r.next /\ l = Len(r.batch) /\ k = Cardinality(File)
         /\ i >= 1 /\ i <= l /\ l <= k
  <2>1. r.next \in Nat \ {0} /\ Len(r.batch) \in Nat /\ Len(r.files) \in Nat
    BY <1>3 DEF IsCall
  <2>2. Len(r.batch) + Len(r.files) <= Cardinality(File)
    BY <1>3 DEF Going
  <2>3. PICK a \in Nat, b \in Nat, k \in Nat :
            a = Len(r.batch) /\ b = Len(r.files) /\ k = Cardinality(File)
    BY <2>1, IdNumbers
  <2>a. a + b <= k
    BY <2>2, <2>3
  <2>4. a <= k
    BY <2>a
  <2> QED BY <1>2, <2>1, <2>3, <2>4
<1>5. PICK in \in Inputs : in = r.batch[i]
  BY <1>3, <1>4 DEF IsCall
<1>6. PICK after : after = WithJobVersion(work, Id(c, i), in)
  OBVIOUS
<1>7. \A m \in 1..i : m \in 1..MaxIds - 1
  BY <1>4, IdNumbers
<1>8. PICK id \in Nat : id = Id(c, i)
  BY <1>4, <1>7, IdNumbers
<1>9. \A v \in work.versions : v.id # id
  <2> SUFFICES ASSUME NEW v \in work.versions, v.id = id PROVE FALSE
    OBVIOUS
  <2>1. CASE v \in db.versions
    <3>1. Id(c, i) \in Used(db)
      BY <1>8, <2>1 DEF Used
    <3>2. i \in 1..i
      BY <1>4
    <3> QED BY <1>3, <1>7, <3>1, <3>2 DEF Fresh
  <2>2. CASE v \notin db.versions
    <3>1. PICK m \in 1..i - 1 : v.id = Id(c, m)
      BY <1>3, <1>4, <2>2 DEF ApplyTx
    <3>2. m \in 1..i /\ i \in 1..i /\ m # i
      BY <1>4
    <3> QED BY <1>7, <1>8, <3>1, <3>2, IdsDiffer
  <2> QED BY <2>1, <2>2
<1>10. Book(work)
  BY <1>3 DEF ApplyTx
<1>11. PICK v : Turned(work, id, in, after, v)
  BY <1>3, <1>6, <1>8, <1>9, <1>10, OneTurn
<1>12. Book(after)
  BY <1>3, <1>9, <1>10, <1>11, BookGrows
<1>13. /\ after.ticks = work.ticks /\ after.triggers = work.triggers /\ after.runs = work.runs
       /\ after.steps = work.steps /\ after.deps = work.deps /\ after.events = work.events
       /\ v \in VersionRow /\ v.job = in.job /\ v.spec = in.spec
       /\ after.versions = work.versions \union {v} /\ Carries(after, in) = {v}
       /\ \A j \in Job \ {in.job} : after.jobs[j] = work.jobs[j]
       /\ after \in Catalog
  BY <1>11 DEF Turned
<1>14. v.id = id <=> Carries(work, in) = {}
  <2>1. IF Carries(work, in) = {}
        THEN v.id = id /\ v.version = Cardinality(VersionsOf(work, in.job)) + 1
        ELSE v \in work.versions
    BY <1>11, Zenon DEF Turned
  <2>2. CASE Carries(work, in) = {}
    BY <2>1, <2>2
  <2>3. CASE Carries(work, in) # {}
    BY <1>9, <2>1, <2>3
  <2> QED BY <2>2, <2>3
<1>15. PICK res : /\ res = WriteResult(work, after, in) /\ res.job = in.job /\ res.id = v.id
                  /\ res.version = v.version /\ res.created = (v.id = id) /\ res \in ResultRow
  <2> DEFINE w == CHOOSE x \in Carries(after, in) : TRUE
  <2>1. w = v
    BY <1>13
  <2>2. WriteResult(work, after, in) =
           [job |-> in.job, id |-> v.id, version |-> v.version, created |-> Carries(work, in) = {}]
    BY <2>1 DEF WriteResult
  <2>3. in.job \in Job /\ v.id \in Nat /\ v.version \in Nat
    BY <1>13, InputFields DEF VersionRow
  <2>4. PICK b \in BOOLEAN : b = (v.id = id) /\ b = (Carries(work, in) = {})
    BY <1>14
  <2>5. [job |-> in.job, id |-> v.id, version |-> v.version, created |-> b] \in ResultRow
    BY <2>3 DEF ResultRow
  <2> QED BY <2>2, <2>4, <2>5
<1>16. PICK rec : rec = [r EXCEPT !.next = @ + 1, !.results = Append(@, res)] /\ Step(c, after, rec)
  BY <1>1, <1>4, <1>5, <1>6, <1>15, Zenon DEF WriteJobVersion
<1>17. /\ DOMAIN rec = Fields /\ rec.kind = r.kind /\ rec.pc = r.pc /\ rec.files = r.files
       /\ rec.batch = r.batch /\ rec.failed = r.failed /\ rec.next = i + 1 /\ rec.job = r.job
       /\ rec.attempt = r.attempt /\ rec.version = r.version
       /\ rec.results = Append(r.results, res) /\ rec.out = r.out
  BY <1>3, <1>4, <1>16 DEF IsCall, Fields
<1>18. /\ r.results \in Seq(ResultRow) /\ Len(r.results) = i - 1
       /\ rec.results \in Seq(ResultRow) /\ Len(rec.results) = i
       /\ rec.results[i] = res /\ \A m \in 1..i - 1 : rec.results[m] = r.results[m]
  <2>1. r.results \in Seq(ResultRow) /\ Len(r.results) = i - 1
    BY <1>3, <1>4 DEF IsCall, ApplyTx
  <2> QED BY SMTT(20), <1>4, <1>15, <1>17, <2>1
<1>19. IsCall(rec)
  <2>1. i + 1 \in Nat \ {0}
    BY <1>4
  <2> QED BY <1>3, <1>17, <1>18, <2>1 DEF IsCall
<1>20. ApplyTx(rec, c, db, after)
  <2>1. rec.next <= Len(rec.batch) + 1 /\ Len(rec.results) = rec.next - 1 /\ rec.next - 1 = i
    BY <1>4, <1>17, <1>18
  <2>2. db.versions \subseteq after.versions
    BY <1>3, <1>13 DEF ApplyTx
  <2>3. \A w \in after.versions \ db.versions : \E m \in 1..i : w.id = Id(c, m)
    <3> SUFFICES ASSUME NEW w \in after.versions, w \notin db.versions
                 PROVE  \E m \in 1..i : w.id = Id(c, m)
      OBVIOUS
    <3>1. CASE w \in work.versions
      <4>1. PICK m \in 1..i - 1 : w.id = Id(c, m)
        BY <1>3, <1>4, <3>1 DEF ApplyTx
      <4>2. m \in 1..i
        BY <1>4
      <4> QED BY <4>1, <4>2
    <3>2. CASE w \notin work.versions
      <4>1. w = v /\ Carries(work, in) = {}
        <5>1. w = v
          BY <1>13, <3>2
        <5>2. Carries(work, in) \subseteq {v}
          BY <1>13 DEF Carries, VersionsOf
        <5>3. v \notin Carries(work, in)
          BY <3>2, <5>1 DEF Carries, VersionsOf
        <5> QED BY <5>1, <5>2, <5>3
      <4>2. i \in 1..i
        BY <1>4
      <4> QED BY <1>8, <1>14, <4>1, <4>2
    <3> QED BY <3>1, <3>2
  <2>4. \A j \in Job : db.jobs[j] # NULL => after.jobs[j] # NULL /\ after.jobs[j].paused = db.jobs[j].paused
    <3> SUFFICES ASSUME NEW j \in Job, db.jobs[j] # NULL
                 PROVE  after.jobs[j] # NULL /\ after.jobs[j].paused = db.jobs[j].paused
      OBVIOUS
    <3>1. work.jobs[j] # NULL /\ work.jobs[j].paused = db.jobs[j].paused
      BY <1>3 DEF ApplyTx
    <3>2. CASE j # in.job
      BY <1>13, <3>1, <3>2
    <3>3. CASE j = in.job
      <4>1. after.jobs[j] = [current |-> v.id, paused |-> work.jobs[j].paused,
                             maxConcurrent |-> in.maxConcurrent, source |-> in.file]
        BY <1>11, <3>1, <3>3 DEF Turned
      <4>2. after.jobs[j] \in JobRow \union {NULL}
        BY <1>13 DEF Catalog
      <4>3. after.jobs[j] \in JobRow
        <5>1. v.id \in Nat /\ in.maxConcurrent \in 1..MaxSteps /\ in.file \in File
          BY <1>13, InputFields DEF VersionRow
        <5>2. work.jobs[j] \in JobRow
          BY <1>3, <3>1 DEF Catalog
        <5>3. work.jobs[j].paused \in BOOLEAN
          BY <5>2 DEF JobRow
        <5> QED BY <4>1, <5>1, <5>3 DEF JobRow
      <4>4. after.jobs[j] # NULL
        BY <4>3, NullAssumption
      <4> QED BY <3>1, <4>1, <4>4
    <3> QED BY <3>2, <3>3
  <2>5. \A m \in 1..i : Recorded(rec, c, after, m)
    <3> TAKE m \in 1..i
    <3>1. CASE m = i
      BY <1>5, <1>8, <1>13, <1>15, <1>17, <1>18, <3>1 DEF Recorded
    <3>2. CASE m # i
      <4>1. m \in 1..i - 1
        BY <1>4, <3>2
      <4>2. Recorded(r, c, work, m)
        BY <1>3, <1>4, <4>1 DEF ApplyTx
      <4>3. work.versions \subseteq after.versions
        BY <1>13
      <4> QED BY <1>17, <1>18, <4>1, <4>2, <4>3, RecordedGrows
    <3> QED BY <3>1, <3>2
  <2>6. Winner(rec.batch, i, after)
    <3> SUFFICES ASSUME NEW k1 \in 1..i,
                        \A m \in k1 + 1..i : r.batch[m].job # r.batch[k1].job
                 PROVE  /\ after.jobs[r.batch[k1].job] # NULL
                        /\ \E w \in Carries(after, r.batch[k1]) : w.id = after.jobs[r.batch[k1].job].current
      BY <1>17 DEF Winner
    <3>0. \A j \in Job : after.jobs[j] = NULL \/ after.jobs[j] \in JobRow
      BY <1>13 DEF Catalog
    <3>1. CASE k1 = i
      <4>1. in.job \in Job /\ in.maxConcurrent \in 1..MaxSteps /\ in.file \in File
        BY InputFields
      <4>2. PICK p : after.jobs[in.job] = [current |-> v.id, paused |-> p,
                                           maxConcurrent |-> in.maxConcurrent, source |-> in.file]
                     /\ p \in BOOLEAN
        <5>1. after.jobs[in.job] =
                [current |-> v.id,
                 paused |-> IF work.jobs[in.job] = NULL THEN FALSE ELSE work.jobs[in.job].paused,
                 maxConcurrent |-> in.maxConcurrent, source |-> in.file]
          BY <1>11 DEF Turned
        <5>2. work.jobs[in.job] \in JobRow \union {NULL}
          BY <1>3, <4>1 DEF Catalog
        <5>3. (IF work.jobs[in.job] = NULL THEN FALSE ELSE work.jobs[in.job].paused) \in BOOLEAN
          BY <5>2 DEF JobRow
        <5> QED BY <5>1, <5>3
      <4>3. after.jobs[in.job] \in JobRow
        BY <1>13, <4>1, <4>2 DEF JobRow, VersionRow
      <4>4. after.jobs[in.job] # NULL /\ after.jobs[in.job].current = v.id
        BY <4>2, <4>3, NullAssumption
      <4> QED BY <1>5, <1>13, <3>1, <4>4
    <3>2. CASE k1 # i
      <4>1. k1 \in 1..i - 1 /\ i \in k1 + 1..i
        BY <1>4, <3>2
      <4>2. \A m \in k1 + 1..i - 1 : r.batch[m].job # r.batch[k1].job
        BY <1>4
      <4>3. /\ work.jobs[r.batch[k1].job] # NULL
            /\ \E w \in Carries(work, r.batch[k1]) : w.id = work.jobs[r.batch[k1].job].current
        BY <1>3, <1>4, <4>1, <4>2 DEF ApplyTx, Winner
      <4>4. r.batch[k1] \in Inputs
        BY <1>3, <1>4, <4>1 DEF IsCall
      <4>5. r.batch[k1].job \in Job /\ r.batch[k1].job # in.job
        BY <1>5, <4>1, <4>4, InputFields
      <4>6. after.jobs[r.batch[k1].job] = work.jobs[r.batch[k1].job]
        BY <1>13, <4>5
      <4>7. Carries(work, r.batch[k1]) \subseteq Carries(after, r.batch[k1])
        BY <1>13 DEF Carries, VersionsOf
      <4> QED BY <4>3, <4>6, <4>7
    <3> QED BY <3>1, <3>2
  <2>7. /\ work.ticks = db.ticks /\ work.triggers = db.triggers /\ work.runs = db.runs
        /\ work.steps = db.steps /\ work.deps = db.deps /\ work.events = db.events
    BY <1>3 DEF ApplyTx
  <2> QED BY <1>12, <1>13, <2>1, <2>2, <2>3, <2>4, <2>5, <2>6, <2>7 DEF ApplyTx
<1>21. Tx(rec, c, db, after)
  BY <1>2, <1>17, <1>20 DEF Tx
<1> QED BY ZenonT(30), <1>1, <1>2, <1>13, <1>16, <1>17, <1>19, <1>21, StatementKeeps

Columns == {"jobs", "versions", "ticks", "triggers", "runs", "steps", "deps", "events"}

LEMMA ColumnsOf ==
    ASSUME NEW cat \in Catalog
    PROVE  /\ DOMAIN cat = Columns /\ cat = [k \in DOMAIN cat |-> cat[k]]
           /\ cat.jobs \in [Job -> JobRow \union {NULL}] /\ cat.versions \subseteq VersionRow
           /\ cat.ticks \subseteq [id : Nat, job : Job]
           /\ cat.triggers \subseteq [id : Nat, tick : Nat, job : Job]
           /\ cat.runs \subseteq [id : Nat, job : Job, trigger : Nat, version : Nat]
           /\ cat.steps \subseteq [run : Nat, row : PlanRow]
           /\ cat.deps \subseteq [run : Nat, step : Name, on : Name]
           /\ cat.events \subseteq [run : Nat, kind : {"run.queued"}]
  BY DEF Catalog, Columns

LEMMA FromColumns ==
    ASSUME NEW cat, DOMAIN cat = Columns, cat = [k \in DOMAIN cat |-> cat[k]],
           cat.jobs \in [Job -> JobRow \union {NULL}], cat.versions \subseteq VersionRow,
           cat.ticks \subseteq [id : Nat, job : Job],
           cat.triggers \subseteq [id : Nat, tick : Nat, job : Job],
           cat.runs \subseteq [id : Nat, job : Job, trigger : Nat, version : Nat],
           cat.steps \subseteq [run : Nat, row : PlanRow],
           cat.deps \subseteq [run : Nat, step : Name, on : Name],
           cat.events \subseteq [run : Nat, kind : {"run.queued"}]
    PROVE  cat \in Catalog
<1>1. cat = [jobs |-> cat.jobs, versions |-> cat.versions, ticks |-> cat.ticks,
             triggers |-> cat.triggers, runs |-> cat.runs, steps |-> cat.steps,
             deps |-> cat.deps, events |-> cat.events]
  BY DEF Columns
<1> QED BY <1>1 DEF Catalog

\* A run's transaction once the version is chosen: the plan, and the ids it has.
LEMMA TheRun ==
    ASSUME CatInv, NEW c \in Call, call[c].pc = "tx", call[c].kind = "run"
    PROVE  /\ RunTx(call[c], c, db, work) /\ call[c].next \in Nat /\ call[c].job \in Job
           /\ call[c].next > 1 =>
                 /\ Len(PlanOf(db, call[c].version)) \in Nat
                 /\ DOMAIN PlanOf(db, call[c].version) = 1..Len(PlanOf(db, call[c].version))
                 /\ PlanOf(work, call[c].version) = PlanOf(db, call[c].version)
                 /\ call[c].version \in Nat
                 /\ \A i \in 1..3 : i \in 1..MaxIds - 1 /\ Id(c, i) \in Nat
                 /\ \A i \in DOMAIN PlanOf(db, call[c].version) :
                       /\ StepRow(PlanOf(db, call[c].version), i) \in PlanRow
                       /\ StepRow(PlanOf(db, call[c].version), i).idx = i - 1
                       /\ Edges(PlanOf(db, call[c].version), Id(c, 3), i)
                            \subseteq [run : Nat, step : Name, on : Name]
<1>1. PICK r : r = call[c]
  OBVIOUS
<1>2. RunTx(r, c, db, work) /\ r.next \in Nat /\ r.job \in Job
  BY <1>1, TheWriter DEF Tx, IsCall, Going
<1>3. ASSUME r.next > 1
      PROVE  /\ Len(PlanOf(db, r.version)) \in Nat
             /\ DOMAIN PlanOf(db, r.version) = 1..Len(PlanOf(db, r.version))
             /\ PlanOf(work, r.version) = PlanOf(db, r.version)
             /\ r.version \in Nat
             /\ \A i \in 1..3 : i \in 1..MaxIds - 1 /\ Id(c, i) \in Nat
             /\ \A i \in DOMAIN PlanOf(db, r.version) :
                   /\ StepRow(PlanOf(db, r.version), i) \in PlanRow
                   /\ StepRow(PlanOf(db, r.version), i).idx = i - 1
                   /\ Edges(PlanOf(db, r.version), Id(c, 3), i)
                        \subseteq [run : Nat, step : Name, on : Name]
  <2>1. PICK v \in db.versions : v.id = r.version
    BY <1>2, <1>3 DEF RunTx
  <2>2. v \in VersionRow
    BY <1>1, <2>1, TheWriter, ColumnsOf DEF CatInv, CTypeOK
  <2>3. Story(db) /\ OneRowPerId(db)
    BY DEF CatInv, Book
  <2>a. PICK id : id = r.version
    OBVIOUS
  <2>4. PICK plan : plan = PlanOf(db, id)
    OBVIOUS
  <2>5. /\ Len(plan) \in Nat /\ DOMAIN plan = 1..Len(plan)
        /\ \A i \in DOMAIN plan :
              /\ StepRow(plan, i) \in PlanRow /\ StepRow(plan, i).idx = i - 1
              /\ plan[i].name \in Name
              /\ \A n \in DOMAIN plan[i].needs : plan[i].needs[n] \in Name
    <3>1. id = v.id
      BY <2>a, <2>1
    <3>2. plan = FromIR(v.spec).steps
      BY <2>3, <2>4, <3>1, NamedById DEF PlanOf
    <3>3. PICK d \in AcceptedDocs : v.spec = Canonical(Decode(d))
      BY <2>3 DEF Story, SpecsOf
    <3>4. plan = FromIR(Canonical(Decode(d))).steps
      BY <3>2, <3>3
    <3> QED BY <3>4, PlanOfDocument
  <2>6. PlanOf(work, r.version) = plan
    <3>1. work.versions = db.versions
      BY <1>2 DEF RunTx
    <3> QED BY <2>a, <2>4, <3>1 DEF PlanOf, VersionById
  <2>7. \A i \in 1..3 : i \in 1..MaxIds - 1 /\ Id(c, i) \in Nat
    <3>1. v.source \in File
      BY <2>2 DEF VersionRow
    <3>2. Cardinality(File) # 0
      BY <3>1, JobCatalogAssumption, FS_EmptySet
    <3>3. PICK k \in Nat : k = Cardinality(File) /\ MaxIds = k + 3 /\ k # 0
      BY <3>2, IdNumbers
    <3>4. \A i \in 1..3 : i \in 1..MaxIds - 1
      BY <3>3
    <3> QED BY <3>4, IdNumbers
  <2>8. \A i \in DOMAIN plan :
           Edges(plan, Id(c, 3), i) \subseteq [run : Nat, step : Name, on : Name]
    <3>1. Id(c, 3) \in Nat
      BY <2>7
    <3> QED BY <2>5, <3>1 DEF Edges
  <2>9. r.version \in Nat
    BY <2>1, <2>2 DEF VersionRow
  <2> QED BY <2>a, <2>4, <2>5, <2>6, <2>7, <2>8, <2>9
<1> QED BY <1>1, <1>2, <1>3

LEMMA ChooseVersionKeeps == ASSUME CatInv, NEW c \in Call, ChooseVersion(c) PROVE CatInv'
<1>1. PICK r : r = call[c]
  OBVIOUS
<1>2. r.kind = "run" /\ r.pc = "tx" /\ r.next = 1
  BY <1>1 DEF ChooseVersion, InTx
<1>3. /\ IsCall(r) /\ r.job \in Job /\ work = db /\ work \in Catalog
  <2>1. RunTx(r, c, db, work) /\ r.job \in Job
    BY <1>1, <1>2, TheRun
  <2> QED BY <1>1, <1>2, <2>1, TheWriter DEF RunTx
<1>4. PICK id : id = CurrentVersion(work, r.job)
  OBVIOUS
<1>5. CASE id = NULL
  <2>1. Refuse(c, "not found")
    BY <1>1, <1>4, <1>5 DEF ChooseVersion
  <2> QED BY <1>1, <1>2, <2>1, RefuseKeeps
<1>6. CASE id # NULL /\ ~Readable(VersionById(work, id).spec)
  <2>1. Refuse(c, "failed")
    BY <1>1, <1>4, <1>6 DEF ChooseVersion
  <2> QED BY <1>1, <1>2, <2>1, RefuseKeeps
<1>7. CASE id # NULL /\ Readable(VersionById(work, id).spec)
  <2>1. PICK rec : rec = [r EXCEPT !.next = 2, !.version = id] /\ Step(c, work, rec)
    BY <1>1, <1>4, <1>7 DEF ChooseVersion
  <2>2. /\ DOMAIN rec = Fields /\ rec.kind = r.kind /\ rec.pc = r.pc /\ rec.files = r.files
        /\ rec.batch = r.batch /\ rec.failed = r.failed /\ rec.next = 2 /\ rec.job = r.job
        /\ rec.attempt = r.attempt /\ rec.version = id /\ rec.results = r.results
        /\ rec.out = r.out
    BY <1>3, <2>1 DEF IsCall, Fields
  <2>3. IsCall(rec)
    BY <1>3, <2>2 DEF IsCall
  <2>4. PICK v \in VersionsOf(db, r.job) : v.id = id
    BY <1>3, <1>4, <1>7 DEF CurrentVersion, CatInv, Book, Pointed
  <2>5. v \in db.versions /\ v.job = r.job
    BY <2>4 DEF VersionsOf
  <2>6. PICK n \in Nat : n = Len(PlanOf(db, id))
    <3>1. Story(db) /\ OneRowPerId(db)
      BY DEF CatInv, Book
    <3> QED BY <2>4, <2>5, <3>1, PlanShape
  <2>7. RunTx(rec, c, db, work)
    <3>1. rec.next <= Len(PlanOf(db, rec.version)) + 4
      BY <2>2, <2>6
    <3> QED BY <1>3, <2>2, <2>4, <2>5, <3>1 DEF RunTx
  <2>8. Tx(rec, c, db, work)
    BY <1>2, <2>2, <2>7 DEF Tx
  <2> QED BY <1>1, <1>2, <1>3, <2>1, <2>2, <2>3, <2>8, StatementKeeps
<1> QED BY <1>5, <1>6, <1>7

LEMMA InsertDecisionKeeps == ASSUME CatInv, NEW c \in Call, InsertDecision(c) PROVE CatInv'
<1>1. PICK r : r = call[c]
  OBVIOUS
<1>2. r.kind = "run" /\ r.pc = "tx" /\ r.next = 2
  BY <1>1 DEF InsertDecision, InTx
<1>3. IsCall(r) /\ work \in Catalog
  BY <1>1, <1>2, TheWriter
<1>4. RunTx(r, c, db, work) /\ r.job \in Job
  BY <1>1, <1>2, TheRun
<1>5. work = db
  BY <1>2, <1>4 DEF RunTx
<1>a. PICK plan : plan = PlanOf(db, r.version)
  OBVIOUS
<1>b. Len(plan) \in Nat /\ r.version \in Nat
  BY <1>1, <1>2, <1>a, TheRun
<1>6. PICK n \in Nat : plan = PlanOf(db, r.version) /\ n = Len(plan) /\ r.version \in Nat
  BY <1>a, <1>b
<1>7. Id(c, 1) \in Nat /\ Id(c, 2) \in Nat /\ Id(c, 3) \in Nat
  BY <1>1, <1>2, TheRun
<1>8. PICK after :
         after = [work EXCEPT
                     !.ticks = @ \union {[id |-> Id(c, 1), job |-> r.job]},
                     !.triggers = @ \union {[id |-> Id(c, 2), tick |-> Id(c, 1), job |-> r.job]},
                     !.runs = @ \union {[id |-> Id(c, 3), job |-> r.job, trigger |-> Id(c, 2),
                                         version |-> r.version]}]
  OBVIOUS
<1>9. PICK rec : rec = [r EXCEPT !.next = 3] /\ Step(c, after, rec)
  BY <1>1, <1>8 DEF InsertDecision
<1>10. /\ DOMAIN rec = Fields /\ rec.kind = r.kind /\ rec.pc = r.pc /\ rec.files = r.files
       /\ rec.batch = r.batch /\ rec.failed = r.failed /\ rec.next = 3 /\ rec.job = r.job
       /\ rec.attempt = r.attempt /\ rec.version = r.version /\ rec.results = r.results
       /\ rec.out = r.out
  BY <1>3, <1>9 DEF IsCall, Fields
<1>11. /\ DOMAIN after = Columns /\ after = [k \in DOMAIN after |-> after[k]]
       /\ after.jobs = work.jobs /\ after.versions = work.versions
       /\ after.ticks = work.ticks \union {[id |-> Id(c, 1), job |-> r.job]}
       /\ after.triggers = work.triggers \union {[id |-> Id(c, 2), tick |-> Id(c, 1), job |-> r.job]}
       /\ after.runs = work.runs \union {[id |-> Id(c, 3), job |-> r.job, trigger |-> Id(c, 2),
                                          version |-> r.version]}
       /\ after.steps = work.steps /\ after.deps = work.deps /\ after.events = work.events
  <2>1. DOMAIN work = Columns
    BY <1>3, ColumnsOf
  <2> QED BY <1>8, <2>1 DEF Columns
<1>12. after \in Catalog
  BY <1>3, <1>4, <1>6, <1>7, <1>11, ColumnsOf, FromColumns
<1>13. IsCall(rec)
  BY <1>3, <1>10 DEF IsCall
<1>14. RunTx(rec, c, db, after)
  <2>1. rec.next <= Len(PlanOf(db, rec.version)) + 4 /\ rec.next # Len(plan) + 4
    BY <1>6, <1>10
  <2>2. 1..Smaller(rec.next - 3, Len(plan)) = {}
    BY <1>6, <1>10 DEF Smaller
  <2>3. Inserted(rec, c, db, after, plan)
    BY <1>5, <1>10, <1>11, <2>1, <2>2 DEF Inserted
  <2>4. \E v \in db.versions : v.id = r.version /\ v.job = r.job
    BY <1>2, <1>4 DEF RunTx
  <2> QED BY <1>5, <1>6, <1>10, <1>11, <2>1, <2>3, <2>4 DEF RunTx
<1>15. Tx(rec, c, db, after)
  BY <1>2, <1>10, <1>14 DEF Tx
<1> QED BY <1>1, <1>2, <1>9, <1>10, <1>12, <1>13, <1>15, StatementKeeps

LEMMA InsertStepKeeps == ASSUME CatInv, NEW c \in Call, InsertStep(c) PROVE CatInv'
<1>1. PICK r : r = call[c]
  OBVIOUS
<1>2. r.kind = "run" /\ r.pc = "tx" /\ r.next >= 3
  BY <1>1 DEF InsertStep
<1>3. IsCall(r) /\ work \in Catalog /\ r.next \in Nat
  BY <1>1, <1>2, TheWriter, TheRun
<1>4. r.next > 1 /\ r.next > 2
  BY <1>2, <1>3
<1>5. RunTx(r, c, db, work) /\ r.job \in Job
  BY <1>1, <1>2, TheRun
<1>6. PICK plan : plan = PlanOf(db, r.version)
  OBVIOUS
<1>7. /\ Len(plan) \in Nat /\ DOMAIN plan = 1..Len(plan) /\ PlanOf(work, r.version) = plan
      /\ Id(c, 3) \in Nat
      /\ \A k \in DOMAIN plan : /\ StepRow(plan, k) \in PlanRow
                                /\ Edges(plan, Id(c, 3), k) \subseteq [run : Nat, step : Name, on : Name]
  <2>1. /\ Len(plan) \in Nat /\ DOMAIN plan = 1..Len(plan) /\ PlanOf(work, r.version) = plan
        /\ Id(c, 3) \in Nat
    BY <1>1, <1>2, <1>4, <1>6, TheRun
  <2>2. \A k \in DOMAIN plan : StepRow(plan, k) \in PlanRow
    BY <1>1, <1>2, <1>4, <1>6, TheRun
  <2>3. \A k \in DOMAIN plan :
           Edges(plan, Id(c, 3), k) \subseteq [run : Nat, step : Name, on : Name]
    BY <1>1, <1>2, <1>4, <1>6, TheRun
  <2> QED BY <2>1, <2>2, <2>3
<1>8. PICK i \in Nat, n \in Nat : r.next = i + 2 /\ i >= 1 /\ n = Len(plan)
  <2>1. r.next - 2 \in Nat /\ r.next = (r.next - 2) + 2 /\ r.next - 2 >= 1
    BY <1>2, <1>3
  <2> QED BY <1>7, <2>1
<1>9. i = r.next - 2
  BY <1>8
<1>10. i <= n
  BY <1>1, <1>6, <1>7, <1>8, <1>9 DEF InsertStep
<1>11. CASE EdgesConflict(plan[i])
  <2>1. Refuse(c, "failed")
    BY <1>1, <1>7, <1>9, <1>11 DEF InsertStep
  <2> QED BY <1>1, <1>2, <2>1, RefuseKeeps
<1>12. CASE ~EdgesConflict(plan[i])
  <2>1. PICK after :
           after = [work EXCEPT
                       !.steps = @ \union {[run |-> Id(c, 3), row |-> StepRow(plan, i)]},
                       !.deps = @ \union Edges(plan, Id(c, 3), i)]
    OBVIOUS
  <2>2. PICK rec : rec = [r EXCEPT !.next = @ + 1] /\ Step(c, after, rec)
    BY <1>1, <1>7, <1>9, <1>12, <2>1 DEF InsertStep, Edges
  <2>3. /\ DOMAIN rec = Fields /\ rec.kind = r.kind /\ rec.pc = r.pc /\ rec.files = r.files
        /\ rec.batch = r.batch /\ rec.failed = r.failed /\ rec.next = i + 3 /\ rec.job = r.job
        /\ rec.attempt = r.attempt /\ rec.version = r.version /\ rec.results = r.results
        /\ rec.out = r.out
    <3>1. rec.next = r.next + 1
      BY <1>3, <2>2 DEF IsCall, Fields
    <3>2. rec.next = i + 3
      BY <1>8, <3>1
    <3> QED BY <1>3, <2>2, <3>2 DEF IsCall, Fields
  <2>4. /\ DOMAIN after = Columns /\ after = [k \in DOMAIN after |-> after[k]]
        /\ after.jobs = work.jobs /\ after.versions = work.versions
        /\ after.ticks = work.ticks /\ after.triggers = work.triggers /\ after.runs = work.runs
        /\ after.steps = work.steps \union {[run |-> Id(c, 3), row |-> StepRow(plan, i)]}
        /\ after.deps = work.deps \union Edges(plan, Id(c, 3), i)
        /\ after.events = work.events
    <3>1. DOMAIN work = Columns
      BY <1>3, ColumnsOf
    <3> QED BY <2>1, <3>1 DEF Columns
  <2>5. i \in DOMAIN plan
    BY <1>7, <1>8, <1>10
  <2>6. after \in Catalog
    <3>1. [run |-> Id(c, 3), row |-> StepRow(plan, i)] \in [run : Nat, row : PlanRow]
      BY <1>7, <2>5
    <3>2. Edges(plan, Id(c, 3), i) \subseteq [run : Nat, step : Name, on : Name]
      BY <1>7, <2>5
    <3> QED BY <1>3, <2>4, <3>1, <3>2, ColumnsOf, FromColumns
  <2>7. IsCall(rec)
    <3>1. i + 3 \in Nat \ {0}
      BY <1>8
    <3> QED BY <1>3, <2>3, <3>1 DEF IsCall
  <2>8. Inserted(r, c, db, work, plan)
    BY <1>4, <1>5, <1>6 DEF RunTx
  <2>9. Inserted(rec, c, db, after, plan)
    <3>1. /\ Smaller(r.next - 3, Len(plan)) = i - 1 /\ Smaller(rec.next - 3, Len(plan)) = i
          /\ r.next # Len(plan) + 4 /\ rec.next # Len(plan) + 4
      BY <1>8, <1>10, <2>3 DEF Smaller
    <3>2. 1..i = (1..i - 1) \union {i}
      BY <1>8
    <3>3. after.steps = db.steps \union {[run |-> Id(c, 3), row |-> StepRow(plan, k)] : k \in 1..i}
      <4>1. work.steps = db.steps \union {[run |-> Id(c, 3), row |-> StepRow(plan, k)] : k \in 1..i - 1}
        BY <2>8, <3>1 DEF Inserted
      <4> QED BY <2>4, <3>2, <4>1
    <3>4. after.deps = db.deps \union UNION {Edges(plan, Id(c, 3), k) : k \in 1..i}
      <4>1. work.deps = db.deps \union UNION {Edges(plan, Id(c, 3), k) : k \in 1..i - 1}
        BY <2>8, <3>1 DEF Inserted
      <4>2. UNION {Edges(plan, Id(c, 3), k) : k \in 1..i} =
              (UNION {Edges(plan, Id(c, 3), k) : k \in 1..i - 1}) \union Edges(plan, Id(c, 3), i)
        BY <3>2
      <4> QED BY <2>4, <4>1, <4>2
    <3>5. /\ after.ticks = db.ticks \union {[id |-> Id(c, 1), job |-> rec.job]}
          /\ after.triggers = db.triggers \union {[id |-> Id(c, 2), tick |-> Id(c, 1), job |-> rec.job]}
          /\ after.runs = db.runs \union {[id |-> Id(c, 3), job |-> rec.job, trigger |-> Id(c, 2),
                                           version |-> rec.version]}
      BY <2>3, <2>4, <2>8 DEF Inserted
    <3>6. after.events = db.events \union {}
      BY <2>4, <2>8, <3>1 DEF Inserted
    <3> QED BY <3>1, <3>3, <3>4, <3>5, <3>6 DEF Inserted
  <2>10. RunTx(rec, c, db, after)
    <3>1. rec.next <= Len(PlanOf(db, rec.version)) + 4 /\ ~(rec.next <= 2) /\ rec.next # 1
      BY <1>6, <1>8, <1>10, <2>3
    <3>2. \E v \in db.versions : v.id = r.version /\ v.job = r.job
      BY <1>4, <1>5 DEF RunTx
    <3>3. after.jobs = db.jobs /\ after.versions = db.versions
      BY <1>5, <2>4 DEF RunTx
    <3> QED BY <1>6, <2>3, <2>9, <3>1, <3>2, <3>3 DEF RunTx
  <2>11. Tx(rec, c, db, after)
    BY <1>2, <2>3, <2>10 DEF Tx
  <2> QED BY <1>1, <1>2, <2>2, <2>3, <2>6, <2>7, <2>11, StatementKeeps
<1> QED BY <1>11, <1>12

LEMMA AppendQueuedKeeps == ASSUME CatInv, NEW c \in Call, AppendQueued(c) PROVE CatInv'
<1>1. PICK r : r = call[c]
  OBVIOUS
<1>2. r.kind = "run" /\ r.pc = "tx" /\ r.next >= 3
  BY <1>1 DEF AppendQueued
<1>3. IsCall(r) /\ work \in Catalog /\ r.next \in Nat
  BY <1>1, <1>2, TheWriter, TheRun
<1>4. r.next > 1 /\ r.next > 2
  BY <1>2, <1>3
<1>5. RunTx(r, c, db, work) /\ r.job \in Job
  BY <1>1, <1>2, TheRun
<1>6. PICK plan : plan = PlanOf(db, r.version)
  OBVIOUS
<1>7. Len(plan) \in Nat /\ PlanOf(work, r.version) = plan /\ Id(c, 3) \in Nat
  BY <1>1, <1>2, <1>4, <1>6, TheRun
<1>8. PICK n \in Nat : n = Len(plan) /\ r.next = n + 3
  <2>1. r.next - 2 = Len(plan) + 1
    BY <1>1, <1>7 DEF AppendQueued
  <2> QED BY <1>3, <1>7, <2>1
<1>9. PICK after : after = [work EXCEPT !.events = @ \union {[run |-> Id(c, 3), kind |-> "run.queued"]}]
  OBVIOUS
<1>10. PICK rec : rec = [r EXCEPT !.next = @ + 1] /\ Step(c, after, rec)
  BY <1>1, <1>9 DEF AppendQueued
<1>11. /\ DOMAIN rec = Fields /\ rec.kind = r.kind /\ rec.pc = r.pc /\ rec.files = r.files
       /\ rec.batch = r.batch /\ rec.failed = r.failed /\ rec.next = n + 4 /\ rec.job = r.job
       /\ rec.attempt = r.attempt /\ rec.version = r.version /\ rec.results = r.results
       /\ rec.out = r.out
  <2>1. rec.next = r.next + 1
    BY <1>3, <1>10 DEF IsCall, Fields
  <2>2. rec.next = n + 4
    BY <1>8, <2>1
  <2> QED BY <1>3, <1>10, <2>2 DEF IsCall, Fields
<1>12. /\ DOMAIN after = Columns /\ after = [k \in DOMAIN after |-> after[k]]
       /\ after.jobs = work.jobs /\ after.versions = work.versions
       /\ after.ticks = work.ticks /\ after.triggers = work.triggers /\ after.runs = work.runs
       /\ after.steps = work.steps /\ after.deps = work.deps
       /\ after.events = work.events \union {[run |-> Id(c, 3), kind |-> "run.queued"]}
  <2>1. DOMAIN work = Columns
    BY <1>3, ColumnsOf
  <2> QED BY <1>9, <2>1 DEF Columns
<1>13. after \in Catalog
  <2>1. [run |-> Id(c, 3), kind |-> "run.queued"] \in [run : Nat, kind : {"run.queued"}]
    BY <1>7
  <2> QED BY <1>3, <1>12, <2>1, ColumnsOf, FromColumns
<1>14. IsCall(rec)
  <2>1. n + 4 \in Nat \ {0}
    OBVIOUS
  <2> QED BY <1>3, <1>11, <2>1 DEF IsCall
<1>15. Inserted(r, c, db, work, plan)
  BY <1>4, <1>5, <1>6 DEF RunTx
<1>16. Inserted(rec, c, db, after, plan)
  <2>1. /\ Smaller(r.next - 3, Len(plan)) = n /\ Smaller(rec.next - 3, Len(plan)) = n
        /\ r.next # Len(plan) + 4 /\ rec.next = Len(plan) + 4
    BY <1>8, <1>11 DEF Smaller
  <2>2. work.events = db.events
    BY <1>15, <2>1 DEF Inserted
  <2> QED BY <1>11, <1>12, <1>15, <2>1, <2>2 DEF Inserted
<1>17. RunTx(rec, c, db, after)
  <2>1. rec.next <= Len(PlanOf(db, rec.version)) + 4 /\ ~(rec.next <= 2) /\ rec.next # 1
    BY <1>6, <1>8, <1>11
  <2>2. \E v \in db.versions : v.id = r.version /\ v.job = r.job
    BY <1>4, <1>5 DEF RunTx
  <2>3. after.jobs = db.jobs /\ after.versions = db.versions
    BY <1>5, <1>12 DEF RunTx
  <2> QED BY <1>6, <1>11, <1>16, <2>1, <2>2, <2>3 DEF RunTx
<1>18. Tx(rec, c, db, after)
  BY <1>2, <1>11, <1>17 DEF Tx
<1> QED BY <1>1, <1>2, <1>10, <1>11, <1>13, <1>14, <1>18, StatementKeeps

-----------------------------------------------------------------------------
(* What a transaction has made by the time it commits. *)

\* A version that is there names the same plan in a book that has grown.
LEMMA PlanStays ==
    ASSUME NEW cat, NEW more, OneRowPerId(cat), OneRowPerId(more),
           cat.versions \subseteq more.versions, NEW v \in cat.versions
    PROVE  PlanOf(more, v.id) = PlanOf(cat, v.id)
<1>1. VersionById(cat, v.id) = v /\ VersionById(more, v.id) = v
  BY NamedById
<1> QED BY <1>1 DEF PlanOf

LEMMA RunsStayWhole ==
    ASSUME NEW cat, NEW more, OneRowPerId(cat), OneRowPerId(more),
           cat.versions \subseteq more.versions, cat.triggers \subseteq more.triggers,
           cat.ticks \subseteq more.ticks, cat.events \subseteq more.events,
           NEW r \in cat.runs, WholeRun(cat, r),
           {s \in more.steps : s.run = r.id} = {s \in cat.steps : s.run = r.id},
           {d \in more.deps : d.run = r.id} = {d \in cat.deps : d.run = r.id}
    PROVE  WholeRun(more, r)
<1>1. PICK v \in cat.versions : v.id = r.version /\ v.job = r.job
  BY DEF WholeRun
<1>2. PlanOf(more, r.version) = PlanOf(cat, r.version)
  BY <1>1, PlanStays
<1>3. PICK t \in cat.triggers : /\ t.id = r.trigger /\ t.job = r.job
                                /\ \E k \in cat.ticks : k.id = t.tick /\ k.job = r.job
  BY DEF WholeRun
<1>4. \E u \in more.triggers : /\ u.id = r.trigger /\ u.job = r.job
                               /\ \E k \in more.ticks : k.id = u.tick /\ k.job = r.job
  BY <1>3
<1>5. \E w \in more.versions : w.id = r.version /\ w.job = r.job
  BY <1>1
<1>6. [run |-> r.id, kind |-> "run.queued"] \in more.events
  BY DEF WholeRun
<1>7. /\ {s \in more.steps : s.run = r.id} =
           {[run |-> r.id, row |-> StepRow(PlanOf(more, r.version), i)] :
              i \in DOMAIN PlanOf(more, r.version)}
      /\ {d \in more.deps : d.run = r.id} =
           UNION {Edges(PlanOf(more, r.version), r.id, i) : i \in DOMAIN PlanOf(more, r.version)}
  BY <1>2 DEF WholeRun
<1> QED BY <1>4, <1>5, <1>6, <1>7 DEF WholeRun

LEMMA ApplyFinished ==
    ASSUME CatInv, NEW c \in Call, TxFinished(c), call[c].kind = "apply"
    PROVE  /\ Book(work) /\ Whole(work) /\ db.versions \subseteq work.versions
           /\ \A x \in Used(work) : x \in Used(db) \/ \E i \in 1..MaxIds - 1 : x = Id(c, i)
           /\ \A v \in work.versions : v \in db.versions \/ v.id \in IdsOf(c)
           /\ Landed(call[c], c, work)
           /\ Winner(call[c].batch, Len(call[c].batch), work)
           /\ work.runs = db.runs /\ work.steps = db.steps
           /\ \A j \in Job : db.jobs[j] # NULL =>
                 work.jobs[j] # NULL /\ work.jobs[j].paused = db.jobs[j].paused
<1>1. PICK r : r = call[c]
  OBVIOUS
<1>2. r.pc = "tx" /\ r.kind = "apply" /\ r.next = Len(r.batch) + 1
  BY <1>1 DEF TxFinished
<1>3. IsCall(r) /\ Going(r) /\ ApplyTx(r, c, db, work)
  BY <1>1, <1>2, TheWriter DEF Tx
<1>4. PICK n \in Nat : n = Len(r.batch) /\ r.next = n + 1 /\ r.next - 1 = n
  BY <1>2, <1>3 DEF IsCall
<1>5. \A i \in 1..n : i \in 1..MaxIds - 1
  <2>a. Len(r.files) \in Nat
    BY <1>3 DEF IsCall
  <2>1. Len(r.files) \in Nat /\ Len(r.batch) + Len(r.files) <= Cardinality(File)
    BY <1>3, <2>a DEF Going
  <2>2. PICK b \in Nat, k \in Nat : b = Len(r.files) /\ k = Cardinality(File) /\ MaxIds = k + 3
    BY <2>1, IdNumbers
  <2>3. n + b <= k
    BY <1>4, <2>1, <2>2
  <2> QED BY <2>2, <2>3
<1>6. /\ Book(work) /\ db.versions \subseteq work.versions
      /\ work.ticks = db.ticks /\ work.triggers = db.triggers /\ work.runs = db.runs
      /\ work.steps = db.steps /\ work.deps = db.deps /\ work.events = db.events
      /\ \A v \in work.versions \ db.versions : \E i \in 1..n : v.id = Id(c, i)
      /\ \A i \in 1..n : Recorded(r, c, work, i)
      /\ Winner(r.batch, n, work) /\ Len(r.results) = n
      /\ \A j \in Job : db.jobs[j] # NULL =>
            work.jobs[j] # NULL /\ work.jobs[j].paused = db.jobs[j].paused
  BY <1>3, <1>4 DEF ApplyTx
<1>7. \A v \in work.versions : v \in db.versions \/ \E i \in 1..MaxIds - 1 : v.id = Id(c, i)
  BY <1>5, <1>6
<1>8. Whole(work)
  <2>1. Whole(db) /\ OneRowPerId(db) /\ OneRowPerId(work)
    BY <1>6 DEF CatInv, Book
  <2>2. \A x \in work.runs : WholeRun(work, x)
    BY <1>6, <2>1, RunsStayWhole DEF Whole
  <2> QED BY <1>6, <2>1, <2>2 DEF Whole
<1>9. \A x \in Used(work) : x \in Used(db) \/ \E i \in 1..MaxIds - 1 : x = Id(c, i)
  BY <1>6, <1>7 DEF Used
<1>10. \A v \in work.versions : v \in db.versions \/ v.id \in IdsOf(c)
  BY <1>7 DEF IdsOf
<1>11. Landed(r, c, work)
  BY <1>4, <1>6 DEF Landed
<1> QED BY <1>1, <1>4, <1>6, <1>8, <1>9, <1>10, <1>11

\* A book is one of versions and of what the jobs' rows repeat of them.
LEMMA SameBook ==
    ASSUME NEW cat, NEW more, Book(cat), more.versions = cat.versions,
           \A j \in Job : cat.jobs[j] = NULL => more.jobs[j] = NULL,
           \A j \in Job : cat.jobs[j] # NULL =>
              /\ more.jobs[j] # NULL /\ more.jobs[j].current = cat.jobs[j].current
              /\ more.jobs[j].maxConcurrent = cat.jobs[j].maxConcurrent
    PROVE  Book(more)
<1>1. \A j \in Job : VersionsOf(more, j) = VersionsOf(cat, j)
  BY DEF VersionsOf
<1>2. IsFiniteSet(more.versions) /\ Story(more) /\ OneRowPerId(more)
  BY DEF Book, Story, OneRowPerId
<1>3. Dense(more)
  BY <1>1 DEF Book, Dense
<1>4. Pointed(more)
  <2> SUFFICES ASSUME NEW j \in Job, more.jobs[j] # NULL
      PROVE  \E v \in VersionsOf(more, j) : /\ v.id = more.jobs[j].current
                                           /\ v.spec["max_concurrent"] = more.jobs[j].maxConcurrent
    BY DEF Pointed
  <2>1. cat.jobs[j] # NULL
    OBVIOUS
  <2>2. PICK v \in VersionsOf(cat, j) : /\ v.id = cat.jobs[j].current
                                        /\ v.spec["max_concurrent"] = cat.jobs[j].maxConcurrent
    BY <2>1 DEF Book, Pointed
  <2> QED BY <1>1, <2>1, <2>2
<1> QED BY <1>2, <1>3, <1>4 DEF Book

LEMMA RunFinished ==
    ASSUME CatInv, NEW c \in Call, TxFinished(c), call[c].kind = "run"
    PROVE  /\ Book(work) /\ Whole(work) /\ db.versions = work.versions /\ work.jobs = db.jobs
           /\ \A x \in Used(work) : x \in Used(db) \/ \E i \in 1..MaxIds - 1 : x = Id(c, i)
           /\ db.runs \subseteq work.runs
           /\ \A s \in work.steps \ db.steps : \A q \in db.runs : s.run # q.id
<1>1. PICK r : r = call[c]
  OBVIOUS
<1>2. r.pc = "tx" /\ r.kind = "run" /\ r.version # NULL
      /\ r.next - 2 = Len(PlanOf(work, r.version)) + 2
  BY <1>1, NobodyIsNull DEF TxFinished
<1>3. r.next \in Nat /\ RunTx(r, c, db, work) /\ Fresh(c, db)
  BY <1>1, <1>2, TheRun, TheWriter
<1>4. r.next > 1
  <2> SUFFICES ASSUME r.next <= 1 PROVE FALSE
    BY <1>3
  <2>1. r.next # 1
    BY <1>2, <1>3 DEF RunTx
  <2>2. r.next # 0
    BY <1>1, <1>2, TheWriter DEF IsCall
  <2> QED BY <1>3, <2>1, <2>2
<1>5. PICK plan : plan = PlanOf(db, r.version)
  OBVIOUS
<1>6. /\ Len(plan) \in Nat /\ DOMAIN plan = 1..Len(plan) /\ PlanOf(work, r.version) = plan
      /\ 3 \in 1..MaxIds - 1
  BY <1>1, <1>2, <1>4, <1>5, TheRun
<1>7. PICK n \in Nat : n = Len(plan) /\ r.next = n + 4
  BY <1>2, <1>3, <1>6
<1>8. /\ Smaller(r.next - 3, Len(plan)) = n /\ r.next = Len(plan) + 4 /\ r.next > 2
  BY <1>7 DEF Smaller
<1>9. PICK id : id = Id(c, 3)
  OBVIOUS
<1>10. PICK run : run = [id |-> id, job |-> r.job, trigger |-> Id(c, 2), version |-> r.version]
  OBVIOUS
<1>11. /\ work.ticks = db.ticks \union {[id |-> Id(c, 1), job |-> r.job]}
       /\ work.triggers = db.triggers \union {[id |-> Id(c, 2), tick |-> Id(c, 1), job |-> r.job]}
       /\ work.runs = db.runs \union {run}
       /\ work.steps = db.steps \union {[run |-> id, row |-> StepRow(plan, i)] : i \in 1..n}
       /\ work.deps = db.deps \union UNION {Edges(plan, id, i) : i \in 1..n}
       /\ work.events = db.events \union {[run |-> id, kind |-> "run.queued"]}
  <2>1. Inserted(r, c, db, work, plan)
    BY <1>3, <1>5, <1>8 DEF RunTx
  <2> QED BY <1>8, <1>9, <1>10, <2>1 DEF Inserted
<1>12. work.versions = db.versions /\ work.jobs = db.jobs
  BY <1>3 DEF RunTx
<1>13. Book(work)
  <2>1. Book(db)
    BY DEF CatInv
  <2>2. \A j \in Job : db.jobs[j] # NULL =>
           /\ work.jobs[j] # NULL /\ work.jobs[j].current = db.jobs[j].current
           /\ work.jobs[j].maxConcurrent = db.jobs[j].maxConcurrent
    BY <1>12
  <2>3. \A j \in Job : db.jobs[j] = NULL => work.jobs[j] = NULL
    BY <1>12
  <2> QED BY <1>12, <2>1, <2>2, <2>3, SameBook
<1>14. \A i \in 1..n : \A e \in Edges(plan, id, i) : e.run = id
  BY DEF Edges
<1>15. id \notin Used(db)
  BY <1>3, <1>6, <1>9 DEF Fresh
<1>16. /\ \A q \in db.runs : q.id # id
       /\ \A s \in db.steps : s.run # id
       /\ \A d \in db.deps : d.run # id
  BY <1>15 DEF Used
<1>17. \A x \in Used(work) : x \in Used(db) \/ x = id
  <2>1. \A s \in work.steps : s \in db.steps \/ s.run = id
    BY <1>11
  <2>2. \A d \in work.deps : d \in db.deps \/ d.run = id
    BY <1>11, <1>14
  <2>3. \A q \in work.runs : q \in db.runs \/ q.id = id
    BY <1>10, <1>11
  <2> QED BY <1>12, <2>1, <2>2, <2>3 DEF Used
<1>18. Whole(work)
  <2>1. Whole(db) /\ OneRowPerId(db) /\ OneRowPerId(work)
    BY <1>13 DEF CatInv, Book
  <2>2. ASSUME NEW q \in db.runs PROVE WholeRun(work, q)
    <3>1. {s \in work.steps : s.run = q.id} = {s \in db.steps : s.run = q.id}
      BY <1>11, <1>16
    <3>2. {d \in work.deps : d.run = q.id} = {d \in db.deps : d.run = q.id}
      BY <1>11, <1>14, <1>16
    <3>3. WholeRun(db, q)
      BY <2>1 DEF Whole
    <3> QED BY <1>11, <1>12, <2>1, <3>1, <3>2, <3>3, RunsStayWhole
  <2>3. WholeRun(work, run)
    <3>1. run.id = id /\ run.job = r.job /\ run.trigger = Id(c, 2) /\ run.version = r.version
      BY <1>10
    <3>2. \E v \in work.versions : v.id = run.version /\ v.job = run.job
      BY <1>3, <1>4, <1>12, <3>1 DEF RunTx
    <3>3. \E t \in work.triggers : /\ t.id = run.trigger /\ t.job = run.job
                                   /\ \E k \in work.ticks : k.id = t.tick /\ k.job = run.job
      <4>1. PICK t, k : /\ t = [id |-> Id(c, 2), tick |-> Id(c, 1), job |-> r.job]
                        /\ k = [id |-> Id(c, 1), job |-> r.job]
        OBVIOUS
      <4>2. t \in work.triggers /\ k \in work.ticks
        BY <1>11, <4>1
      <4>3. /\ t.id = run.trigger /\ t.job = run.job /\ k.id = t.tick /\ k.job = run.job
        BY <3>1, <4>1
      <4> QED BY <4>2, <4>3
    <3>4. {s \in work.steps : s.run = id} = {[run |-> id, row |-> StepRow(plan, i)] : i \in 1..n}
      BY <1>11, <1>16
    <3>5. {d \in work.deps : d.run = id} = UNION {Edges(plan, id, i) : i \in 1..n}
      BY <1>11, <1>14, <1>16
    <3>6. DOMAIN PlanOf(work, run.version) = 1..n /\ PlanOf(work, run.version) = plan
      BY <1>6, <1>7, <3>1
    <3> QED BY <1>11, <3>1, <3>2, <3>3, <3>4, <3>5, <3>6 DEF WholeRun
  <2>4. IsFiniteSet(work.runs)
    <3>1. IsFiniteSet(db.runs)
      BY <2>1, Zenon DEF Whole
    <3>2. IsFiniteSet(db.runs \union {run})
      BY <3>1, FS_AddElement
    <3> QED BY <1>11, <3>2
  <2>5. \A t \in work.triggers : \E q \in work.runs : q.trigger = t.id
    <3> SUFFICES ASSUME NEW t \in work.triggers PROVE \E q \in work.runs : q.trigger = t.id
      OBVIOUS
    <3>1. CASE t \in db.triggers
      BY <1>11, <2>1, <3>1 DEF Whole
    <3>2. CASE t \notin db.triggers
      <4>1. t.id = Id(c, 2)
        BY <1>11, <3>2
      <4>2. run.trigger = Id(c, 2) /\ run \in work.runs
        BY <1>10, <1>11
      <4> QED BY <4>1, <4>2
    <3> QED BY <3>1, <3>2
  <2>6. \A k \in work.ticks : \E t \in work.triggers : t.tick = k.id
    <3> SUFFICES ASSUME NEW k \in work.ticks PROVE \E t \in work.triggers : t.tick = k.id
      OBVIOUS
    <3>1. CASE k \in db.ticks
      BY <1>11, <2>1, <3>1 DEF Whole
    <3>2. CASE k \notin db.ticks
      <4>1. k.id = Id(c, 1)
        BY <1>11, <3>2
      <4>2. PICK t : t = [id |-> Id(c, 2), tick |-> Id(c, 1), job |-> r.job]
        OBVIOUS
      <4>3. t.tick = Id(c, 1) /\ t \in work.triggers
        BY <1>11, <4>2
      <4> QED BY <4>1, <4>3
    <3> QED BY <3>1, <3>2
  <2>7. \A q \in work.runs : WholeRun(work, q)
    BY <1>11, <2>2, <2>3
  <2> QED BY <2>4, <2>5, <2>6, <2>7 DEF Whole
<1>19. \A s \in work.steps \ db.steps : \A q \in db.runs : s.run # q.id
  BY <1>11, <1>16
<1> QED BY <1>6, <1>9, <1>11, <1>12, <1>13, <1>17, <1>18, <1>19

\* What the others were told stays true when a call commits.
LEMMA OthersStaySettled ==
    ASSUME NEW c \in Call, NEW d \in Call, d # c, NEW r, IsCall(r), NEW cat, NEW more,
           Settled(r, d, cat), cat.versions \subseteq more.versions,
           \A x \in Used(more) : x \in Used(cat) \/ \E i \in 1..MaxIds - 1 : x = Id(c, i)
    PROVE  Settled(r, d, more)
<1>1. ASSUME r.out # "ok" PROVE Fresh(d, more)
  <2> SUFFICES ASSUME NEW i \in 1..MaxIds - 1, Id(d, i) \in Used(more) PROVE FALSE
    BY DEF Fresh
  <2>1. Id(d, i) \notin Used(cat)
    BY <1>1 DEF Settled, Fresh
  <2>2. PICK k \in 1..MaxIds - 1 : Id(d, i) = Id(c, k)
    BY <2>1
  <2> QED BY <2>2, IdsDiffer
<1>2. ASSUME r.kind = "apply" /\ r.out = "ok" PROVE Landed(r, d, more)
  <2>1. Landed(r, d, cat)
    BY <1>2 DEF Settled
  <2>2. \A i \in 1..Len(r.batch) : Recorded(r, d, more, i)
    BY <2>1, RecordedGrows DEF Landed
  <2> QED BY <2>1, <2>2 DEF Landed
<1> QED BY <1>1, <1>2 DEF Settled

LEMMA CommittedKeeps ==
    ASSUME CatInv, NEW c \in Call, NEW rec, NEW cat \in Catalog, Set(c, rec), db' = cat,
           UNCHANGED <<disk, edits, faults>>, work' = NULL, writer' = NULL,
           writer = NULL \/ writer = c,
           Book(cat), Whole(cat), db.versions \subseteq cat.versions,
           \A x \in Used(cat) : x \in Used(db) \/ \E i \in 1..MaxIds - 1 : x = Id(c, i),
           \A v \in cat.versions : v \in db.versions \/ v.id \in IdsOf(c),
           rec.pc # "tx", IsCall(rec), Going(rec), Settled(rec, c, cat)
    PROVE  CatInv'
<1>1. /\ DOMAIN call' = Call /\ call'[c] = rec
      /\ \A d \in Call \ {c} : call'[d] = call[d]
  BY DEF CatInv, Set
<1>2. CTypeOK'
  <2>1. rec.pc \in {"new", "load", "begin", "tx", "done"} /\ rec.attempt \in 1..MaxWriteAttempts
    BY DEF IsCall
  <2>2. \A d \in Call : /\ call'[d].pc \in {"new", "load", "begin", "tx", "done"}
                        /\ call'[d].attempt \in 1..MaxWriteAttempts
                        /\ (call'[d].pc = "tx") = (writer' = d)
    <3> TAKE d \in Call
    <3>1. CASE d = c
      BY <1>1, <2>1, <3>1, NobodyIsNull
    <3>2. CASE d # c
      BY <1>1, <3>2, NobodyIsNull DEF CatInv, CTypeOK
    <3> QED BY <3>1, <3>2
  <2>3. \A v \in db'.versions : v.id \in UNION {IdsOf(d) : d \in Call}
    BY DEF CatInv, CTypeOK
  <2> QED BY <2>2, <2>3 DEF CatInv, CTypeOK
<1>3. \A d \in Call : IsCall(call'[d]) /\ Going(call'[d]) /\ Settled(call'[d], d, cat)
  <2> TAKE d \in Call
  <2>1. CASE d = c
    BY <1>1, <2>1
  <2>2. CASE d # c
    <3>1. IsCall(call[d]) /\ Going(call[d]) /\ Settled(call[d], d, db)
      BY DEF CatInv
    <3>2. Settled(call[d], d, cat)
      BY <2>2, <3>1, OthersStaySettled
    <3> QED BY <1>1, <2>2, <3>1, <3>2
  <2> QED BY <2>1, <2>2
<1>4. \A d \in Call : writer' # d
  BY NobodyIsNull
<1> QED BY ZenonT(30), <1>1, <1>2, <1>3, <1>4 DEF CatInv, IsCall, Going, Settled, Book, Whole

LEMMA CommitKeeps == ASSUME CatInv, NEW c \in Call, Commit(c) PROVE CatInv'
<1>1. PICK r : r = call[c]
  OBVIOUS
<1>2. /\ TxFinished(c) /\ r.pc = "tx" /\ db' = work /\ work' = NULL /\ writer' = NULL
      /\ Set(c, Ended(c, "ok")) /\ UNCHANGED <<disk, edits, faults>>
  BY <1>1 DEF Commit, TxFinished
<1>3. IsCall(r) /\ Going(r) /\ work \in Catalog /\ writer = c /\ r.kind \in {"apply", "run"}
  BY <1>1, <1>2, TheWriter DEF Going
<1>4. PICK rec : /\ rec = [r EXCEPT !.pc = "done", !.out = "ok", !.next = 1, !.version = NULL,
                                    !.attempt = 1]
                 /\ Set(c, rec)
  BY <1>1, <1>2 DEF Ended
<1>5. /\ DOMAIN rec = Fields /\ rec.kind = r.kind /\ rec.pc = "done" /\ rec.files = r.files
      /\ rec.batch = r.batch /\ rec.failed = r.failed /\ rec.next = 1 /\ rec.job = r.job
      /\ rec.attempt = 1 /\ rec.version = NULL /\ rec.results = r.results /\ rec.out = "ok"
  BY <1>3, <1>4 DEF IsCall, Fields
<1>6. IsCall(rec)
  <2>1. 1 \in 1..MaxWriteAttempts /\ 1 \in Nat \ {0}
    BY JobCatalogAssumption
  <2> QED BY <1>3, <1>5, <2>1 DEF IsCall
<1>7. Going(rec)
  BY <1>3, <1>5 DEF Going
<1>8. CASE r.kind = "apply"
  <2>1. /\ Book(work) /\ Whole(work) /\ db.versions \subseteq work.versions
        /\ \A x \in Used(work) : x \in Used(db) \/ \E i \in 1..MaxIds - 1 : x = Id(c, i)
        /\ \A v \in work.versions : v \in db.versions \/ v.id \in IdsOf(c)
        /\ Landed(r, c, work)
    BY <1>1, <1>2, <1>8, ApplyFinished
  <2>2. Landed(rec, c, work)
    BY <1>5, <2>1 DEF Landed, Recorded
  <2>3. Settled(rec, c, work)
    BY <1>5, <2>2 DEF Settled
  <2> QED BY <1>2, <1>3, <1>4, <1>5, <1>6, <1>7, <2>1, <2>3, CommittedKeeps
<1>9. CASE r.kind = "run"
  <2>1. /\ Book(work) /\ Whole(work) /\ db.versions = work.versions
        /\ \A x \in Used(work) : x \in Used(db) \/ \E i \in 1..MaxIds - 1 : x = Id(c, i)
    BY <1>1, <1>2, <1>9, RunFinished
  <2>2. Settled(rec, c, work)
    BY <1>5, <1>9 DEF Settled
  <2> QED BY <1>2, <1>3, <1>4, <1>5, <1>6, <1>7, <2>1, <2>2, CommittedKeeps
<1> QED BY <1>3, <1>8, <1>9

LEMMA SetJobPausedKeeps == ASSUME CatInv, NEW c \in Call, SetJobPaused(c) PROVE CatInv'
<1>1. PICK r : r = call[c]
  OBVIOUS
<1>2. r.pc = "new" /\ writer = NULL /\ UNCHANGED <<disk, edits, faults, work, writer>>
  BY <1>1 DEF SetJobPaused, Starts
<1>3. IsCall(r) /\ Going(r) /\ Settled(r, c, db)
  BY <1>1 DEF CatInv
<1>4. r.next = 1 /\ r.version = NULL /\ r.out = NULL /\ r.batch = <<>> /\ work = NULL /\ db \in Catalog
  BY <1>2, <1>3 DEF Going, CatInv, CTypeOK
<1>5. PICK j \in Job, flag \in BOOLEAN :
         LET rec == [r EXCEPT !.kind = "pause", !.pc = "done", !.job = j, !.flag = flag]
         IN IF db.jobs[j] = NULL
            THEN Set(c, [rec EXCEPT !.out = "not found"]) /\ UNCHANGED db
            ELSE /\ Set(c, [rec EXCEPT !.out = "ok"])
                 /\ db' = [db EXCEPT !.jobs[j].paused = flag]
  BY <1>1, Zenon DEF SetJobPaused
<1>6. PICK told : told = [r EXCEPT !.kind = "pause", !.pc = "done", !.job = j, !.flag = flag]
  OBVIOUS
<1>7. /\ DOMAIN told = Fields /\ told.kind = "pause" /\ told.pc = "done" /\ told.files = r.files
      /\ told.batch = r.batch /\ told.failed = r.failed /\ told.next = r.next
      /\ told.attempt = r.attempt /\ told.version = r.version /\ told.results = r.results
  BY <1>3, <1>6 DEF IsCall, Fields
<1>8. ASSUME NEW out, NEW rec, rec = [told EXCEPT !.out = out]
      PROVE  IsCall(rec) /\ Going(rec) /\ rec.pc = "done" /\ rec.kind = "pause"
  <2>1. /\ DOMAIN rec = Fields /\ rec.kind = "pause" /\ rec.pc = "done" /\ rec.files = r.files
        /\ rec.batch = r.batch /\ rec.failed = r.failed /\ rec.next = r.next
        /\ rec.attempt = r.attempt /\ rec.version = r.version /\ rec.results = r.results
    BY <1>7, <1>8 DEF Fields
  <2>2. IsCall(rec)
    BY <1>3, <2>1 DEF IsCall
  <2>3. Going(rec)
    BY <1>3, <1>4, <2>1 DEF Going
  <2> QED BY <2>1, <2>2, <2>3
<1>9. Fresh(c, db)
  BY <1>3, <1>4, NobodyIsNull DEF Settled
<1>10. CASE db.jobs[j] = NULL
  <2>1. PICK rec : rec = [told EXCEPT !.out = "not found"] /\ Set(c, rec) /\ db' = db
    BY <1>5, <1>6, <1>10
  <2>2. IsCall(rec) /\ Going(rec) /\ rec.pc = "done" /\ rec.kind = "pause"
    BY <1>8, <2>1
  <2>3. Settled(rec, c, db)
    BY <1>9, <2>2 DEF Settled
  <2> QED BY <1>1, <1>2, <2>1, <2>2, <2>3, OutsideATransaction
<1>11. CASE db.jobs[j] # NULL
  <2>1. PICK rec : /\ rec = [told EXCEPT !.out = "ok"] /\ Set(c, rec)
                   /\ db' = [db EXCEPT !.jobs[j].paused = flag]
    BY <1>5, <1>6, <1>11
  <2>2. IsCall(rec) /\ Going(rec) /\ rec.pc = "done" /\ rec.kind = "pause"
    BY <1>8, <2>1
  <2>3. PICK cat : cat = [db EXCEPT !.jobs[j].paused = flag]
    OBVIOUS
  <2>4. PICK row : row = [db.jobs[j] EXCEPT !.paused = flag]
    OBVIOUS
  <2>5. db.jobs[j] \in JobRow
    BY <1>4, <1>11, ColumnsOf
  <2>6. row \in JobRow /\ row.current = db.jobs[j].current /\ row.maxConcurrent = db.jobs[j].maxConcurrent
    BY <2>4, <2>5 DEF JobRow
  <2>7. /\ DOMAIN cat = Columns /\ cat = [k \in DOMAIN cat |-> cat[k]]
        /\ cat.jobs = [db.jobs EXCEPT ![j] = row] /\ cat.versions = db.versions
        /\ cat.ticks = db.ticks /\ cat.triggers = db.triggers /\ cat.runs = db.runs
        /\ cat.steps = db.steps /\ cat.deps = db.deps /\ cat.events = db.events
    <3>1. DOMAIN db = Columns
      BY <1>4, ColumnsOf
    <3> QED BY <2>3, <2>4, <3>1 DEF Columns
  <2>8. cat \in Catalog
    BY <1>4, <2>6, <2>7, ColumnsOf, FromColumns
  <2>9. Book(cat)
    <3>1. Book(db)
      BY DEF CatInv
    <3>2. /\ cat.jobs[j] = row /\ row # NULL
          /\ \A k \in Job \ {j} : cat.jobs[k] = db.jobs[k]
      BY <1>4, <2>6, <2>7, ColumnsOf, NullAssumption
    <3>3. \A k \in Job : db.jobs[k] = NULL => cat.jobs[k] = NULL
      BY <1>11, <3>2
    <3>4. \A k \in Job : db.jobs[k] # NULL =>
             /\ cat.jobs[k] # NULL /\ cat.jobs[k].current = db.jobs[k].current
             /\ cat.jobs[k].maxConcurrent = db.jobs[k].maxConcurrent
      BY <2>6, <3>2
    <3> QED BY <2>7, <3>1, <3>3, <3>4, SameBook
  <2>10. Whole(cat)
    <3>1. Whole(db) /\ OneRowPerId(db) /\ OneRowPerId(cat)
      BY <2>9 DEF CatInv, Book
    <3>2. \A q \in cat.runs : WholeRun(cat, q)
      BY <2>7, <3>1, RunsStayWhole DEF Whole
    <3> QED BY <2>7, <3>1, <3>2 DEF Whole
  <2>11. Used(cat) = Used(db)
    BY <2>7 DEF Used
  <2>12. Settled(rec, c, cat)
    BY <1>9, <2>2, <2>11 DEF Settled, Fresh
  <2> QED BY <1>2, <1>4, <2>1, <2>2, <2>3, <2>7, <2>8, <2>9, <2>10, <2>11, <2>12, CommittedKeeps
<1> QED BY <1>10, <1>11

LEMMA InvHolds == CatSpec => []CatInv
<1>1. CatInv /\ [CatNext]_vars => CatInv'
  <2> SUFFICES ASSUME CatInv, [CatNext]_vars PROVE CatInv'
    OBVIOUS
  <2>1. CASE UNCHANGED vars
    BY ZenonT(30), <2>1 DEF vars, CatInv, CTypeOK, IsCall, Going, Settled, Book, Whole, Tx
  <2>2. CASE Edit
    BY <2>2, EditKeeps
  <2>3. CASE AllDone
    BY <2>1, <2>3 DEF AllDone
  <2>4. ASSUME NEW c \in Call, Apply(c) \/ Run(c) \/ SetJobPaused(c) PROVE CatInv'
    BY <2>4, ApplyKeeps, RunKeeps, SetJobPausedKeeps
  <2>5. ASSUME NEW c \in Call, LoadFile(c) \/ OpenBatch(c) \/ Begin(c) \/ WriteJobVersion(c)
        PROVE  CatInv'
    BY <2>5, LoadFileKeeps, OpenBatchKeeps, BeginKeeps, WriteJobVersionKeeps
  <2>6. ASSUME NEW c \in Call, ChooseVersion(c) \/ InsertDecision(c) \/ InsertStep(c)
        PROVE  CatInv'
    BY <2>6, ChooseVersionKeeps, InsertDecisionKeeps, InsertStepKeeps
  <2>7. ASSUME NEW c \in Call, AppendQueued(c) \/ Commit(c) \/ TxFails(c) PROVE CatInv'
    BY <2>7, AppendQueuedKeeps, CommitKeeps, TxFailsKeeps
  <2> QED BY <2>1, <2>2, <2>3, <2>4, <2>5, <2>6, <2>7 DEF CatNext, CallStep
<1> QED BY <1>1, InvHoldsAtFirst, PTL DEF CatSpec

-----------------------------------------------------------------------------
(* Theorems. *)

\* Between any two transactions the catalogue is consistent, whatever was
\* edited, applied, paused, failed or tried again: the version numbers of a job
\* are 1..n without a gap, no document is stored twice under one job, and a
\* job's row repeats what the document it points at says (writeJobVersion).
THEOREM CatalogStaysConsistent == CatSpec => []CatalogIsConsistent
<1>1. CatInv => CatalogIsConsistent
  <2> SUFFICES ASSUME CatInv PROVE CatalogIsConsistent
    OBVIOUS
  <2>1. CTypeOK /\ Book(db)
    BY DEF CatInv
  <2>2. VersionsAreDense
    BY <2>1 DEF VersionsAreDense, Book, Dense, OneRowPerId
  <2>3. ASSUME NEW j \in Job, db.jobs[j] # NULL
        PROVE  \E v \in VersionsOf(db, j) : /\ v.id = db.jobs[j].current
                                            /\ FromIR(v.spec).maxConcurrent = db.jobs[j].maxConcurrent
                                            /\ FromIR(v.spec).name = j
    <3>1. PICK v \in VersionsOf(db, j) : /\ v.id = db.jobs[j].current
                                         /\ v.spec["max_concurrent"] = db.jobs[j].maxConcurrent
      BY <2>1, <2>3 DEF Book, Pointed
    <3>2. v \in db.versions /\ v.job = j
      BY <3>1 DEF VersionsOf
    <3>3. PICK d \in AcceptedDocs : d.name = j /\ v.spec = Canonical(Decode(d))
      BY <2>1, <3>2 DEF Book, Story, SpecsOf
    <3>4. /\ "max_concurrent" \in DOMAIN v.spec /\ v.spec["name"] = Decode(d).name
      BY <3>3, ObjectMembers
    <3>5. Decode(d).name = j
      BY <3>3 DEF Decode
    <3>6. FromIR(v.spec).maxConcurrent = v.spec["max_concurrent"] /\ FromIR(v.spec).name = v.spec["name"]
      BY <3>4 DEF FromIR, Read
    <3> QED BY <3>1, <3>4, <3>5, <3>6
  <2>4. RowAgreesWithVersion
    BY <2>3 DEF RowAgreesWithVersion
  <2> QED BY <2>1, <2>2, <2>4 DEF CatalogIsConsistent
<1> QED BY <1>1, InvHolds, PTL

\* A run has as many step rows as the plan it was frozen with has steps.
LEMMA StepsOfARun ==
    ASSUME CatInv, NEW r \in db.runs
    PROVE  Cardinality({s \in db.steps : s.run = r.id}) = Len(PlanOf(db, r.version))
<1>1. WholeRun(db, r) /\ Story(db) /\ OneRowPerId(db)
  BY DEF CatInv, Whole, Book
<1>2. PICK v \in db.versions : v.id = r.version
  BY <1>1 DEF WholeRun
<1>3. PICK plan : plan = PlanOf(db, r.version)
  OBVIOUS
<1>4. PICK id : id = r.version
  OBVIOUS
<1>5. /\ Len(plan) \in Nat /\ DOMAIN plan = 1..Len(plan)
      /\ \A i \in DOMAIN plan : StepRow(plan, i).idx = i - 1
  <2>1. plan = FromIR(v.spec).steps
    BY <1>1, <1>2, <1>3, NamedById DEF PlanOf
  <2>2. PICK d \in AcceptedDocs : v.spec = Canonical(Decode(d))
    BY <1>1 DEF Story, SpecsOf
  <2>3. plan = FromIR(Canonical(Decode(d))).steps
    BY <2>1, <2>2
  <2> QED BY <2>3, PlanOfDocument
<1>6. PICK n \in Nat : n = Len(plan)
  BY <1>5
<1> DEFINE row(i) == [run |-> r.id, row |-> StepRow(plan, i)]
           rows == {row(i) : i \in 1..n}
           f == [i \in 1..n |-> row(i)]
<1>7. {s \in db.steps : s.run = r.id} = rows
  BY <1>1, <1>3, <1>5, <1>6 DEF WholeRun
<1>8. \A i, j \in 1..n : f[i] = f[j] => i = j
  <2> SUFFICES ASSUME NEW i \in 1..n, NEW j \in 1..n, f[i] = f[j] PROVE i = j
    OBVIOUS
  <2>1. row(i).row = StepRow(plan, i) /\ row(j).row = StepRow(plan, j) /\ row(i) = row(j)
    OBVIOUS
  <2>2. i - 1 = j - 1
    BY <1>5, <1>6, <2>1
  <2> QED BY <2>2
<1>9. f \in Bijection(1..n, rows)
  <2>1. f \in [1..n -> rows]
    OBVIOUS
  <2>2. \A s \in rows : \E i \in 1..n : f[i] = s
    OBVIOUS
  <2> HIDE DEF f, rows
  <2> QED BY <1>8, <2>1, <2>2 DEF Bijection, Injection, Surjection, IsInjective
<1>10. ExistsBijection(1..n, rows)
  BY <1>9 DEF ExistsBijection
<1>11. IsFiniteSet(rows) /\ Cardinality(rows) = n
  <2> HIDE DEF rows
  <2> QED BY <1>10, FS_NatBijection, FS_CountingElements
<1> QED BY <1>3, <1>6, <1>7, <1>11

\* A committed run has its tick, its trigger, its first event and the step rows
\* and edges of exactly the version it was frozen with, and status, which reads
\* the newest run of a job and counts its steps, never sees less: the rows of a
\* manual trigger are there together or not at all (MaterializeManualTrigger).
THEOREM TriggersStayWhole == CatSpec => []TriggersAreWhole
<1>1. CatInv => TriggersAreWhole
  <2> SUFFICES ASSUME CatInv PROVE TriggersAreWhole
    OBVIOUS
  <2>1. Book(db) /\ Whole(db) /\ db \in Catalog
    BY DEF CatInv, CTypeOK
  <2>2. ASSUME NEW r \in db.runs
        PROVE  LET plan == PlanOf(db, r.version) IN
               /\ VersionById(db, r.version).job = r.job
               /\ \E t \in db.triggers : /\ t.id = r.trigger /\ t.job = r.job
                                         /\ \E k \in db.ticks : k.id = t.tick /\ k.job = r.job
               /\ {s.row : s \in {x \in db.steps : x.run = r.id}} = {StepRow(plan, i) : i \in DOMAIN plan}
               /\ {<<d.step, d.on>> : d \in {x \in db.deps : x.run = r.id}}
                    = UNION {{<<plan[i].name, plan[i].needs[n]>> : n \in DOMAIN plan[i].needs} :
                               i \in DOMAIN plan}
               /\ [run |-> r.id, kind |-> "run.queued"] \in db.events
    <3>1. WholeRun(db, r)
      BY <2>1 DEF Whole
    <3>2. VersionById(db, r.version).job = r.job
      BY <2>1, <3>1, NamedById DEF WholeRun, Book
    <3>3. PICK plan : plan = PlanOf(db, r.version)
      OBVIOUS
    <3>4. /\ {x \in db.steps : x.run = r.id} = {[run |-> r.id, row |-> StepRow(plan, i)] : i \in DOMAIN plan}
          /\ {x \in db.deps : x.run = r.id} = UNION {Edges(plan, r.id, i) : i \in DOMAIN plan}
      BY <3>1, <3>3 DEF WholeRun
    <3>5. {s.row : s \in {x \in db.steps : x.run = r.id}} = {StepRow(plan, i) : i \in DOMAIN plan}
      <4> DEFINE full(i) == [run |-> r.id, row |-> StepRow(plan, i)]
      <4>1. \A i : full(i).row = StepRow(plan, i)
        OBVIOUS
      <4>2. {x \in db.steps : x.run = r.id} = {full(i) : i \in DOMAIN plan}
        BY <3>4
      <4> HIDE DEF full
      <4>3. {s.row : s \in {full(i) : i \in DOMAIN plan}} = {StepRow(plan, i) : i \in DOMAIN plan}
        BY <4>1
      <4> QED BY <4>2, <4>3
    <3> DEFINE pair(i, n) == <<plan[i].name, plan[i].needs[n]>>
               edge(i, n) == [run |-> r.id, step |-> plan[i].name, on |-> plan[i].needs[n]]
    <3>6. \A i, n : <<edge(i, n).step, edge(i, n).on>> = pair(i, n)
      OBVIOUS
    <3>7. \A i : Edges(plan, r.id, i) = {edge(i, n) : n \in DOMAIN plan[i].needs}
      BY DEF Edges
    <3> HIDE DEF pair, edge
    <3>8. {<<d.step, d.on>> : d \in UNION {Edges(plan, r.id, i) : i \in DOMAIN plan}}
            = UNION {{pair(i, n) : n \in DOMAIN plan[i].needs} : i \in DOMAIN plan}
      BY <3>6, <3>7
    <3>9. {<<d.step, d.on>> : d \in {x \in db.deps : x.run = r.id}}
            = UNION {{<<plan[i].name, plan[i].needs[n]>> : n \in DOMAIN plan[i].needs} :
                       i \in DOMAIN plan}
      BY <3>4, <3>8 DEF pair
    <3> QED BY <3>1, <3>2, <3>3, <3>5, <3>9 DEF WholeRun
  <2>3. RunIsWhole
    BY <2>2 DEF RunIsWhole
  <2>4. ASSUME NEW j \in Job, LastRun(db, j) # NULL
        PROVE  \E r \in db.runs : /\ r.id = LastRun(db, j).id
                                  /\ LastRun(db, j).stepsTotal = Len(PlanOf(db, r.version))
    <3> DEFINE mine == {r \in db.runs : r.job = j}
               newest == CHOOSE x \in mine : \A y \in mine : y.id <= x.id
               ids == {r.id : r \in mine}
    <3>1. mine # {}
      BY <2>4 DEF LastRun
    <3>2. IsFiniteSet(ids)
      <4>1. IsFiniteSet(mine)
        BY <2>1, FS_Subset DEF Whole
      <4> DEFINE f == [x \in mine |-> x.id]
      <4>2. f \in Surjection(mine, ids)
        BY DEF Surjection
      <4> QED BY <4>1, <4>2, FS_Surjection
    <3>3. ids \subseteq Nat
      BY <2>1, ColumnsOf
    <3>4. \E x \in mine : \A y \in mine : y.id <= x.id
      <4>1. PICK m \in ids : \A k \in ids : k <= m
        BY <3>1, <3>2, <3>3, GreatestOfFinite
      <4> QED BY <4>1
    <3>5. newest \in mine
      BY <3>4
    <3>6. LastRun(db, j) = [id |-> newest.id,
                            stepsTotal |-> Cardinality({s \in db.steps : s.run = newest.id})]
      BY <3>1 DEF LastRun
    <3> HIDE DEF newest
    <3>7. newest \in db.runs
      BY <3>5
    <3>8. Cardinality({s \in db.steps : s.run = newest.id}) = Len(PlanOf(db, newest.version))
      BY <3>7, StepsOfARun
    <3>9. PICK a, b : /\ a = newest.id /\ b = Cardinality({s \in db.steps : s.run = newest.id})
                      /\ LastRun(db, j) = [id |-> a, stepsTotal |-> b]
      BY <3>6
    <3>10. LastRun(db, j).id = newest.id /\ LastRun(db, j).stepsTotal = Len(PlanOf(db, newest.version))
      BY <3>8, <3>9
    <3> QED BY <3>7, <3>10
  <2>5. StatusCountsThePlan
    BY <2>1, <2>4 DEF StatusCountsThePlan, Whole
  <2> QED BY <2>3, <2>5 DEF TriggersAreWhole
<1> QED BY <1>1, InvHolds, PTL

\* An apply is one fact: once one version a call minted is committed, every
\* document of its batch is; and a successful call reports one result per file
\* that says what is stored, "created" by exactly the call that wrote it, also
\* after a conflict made the transaction run again (ApplyJobs under withTx).
THEOREM ApplyStaysOneFact == CatSpec => []ApplyIsOneFact
<1>1. CatInv => ApplyIsOneFact
  <2> SUFFICES ASSUME CatInv PROVE ApplyIsOneFact
    OBVIOUS
  <2>1. ASSUME NEW c \in Call, call[c].kind = "apply",
               NEW v \in db.versions, v.id \in IdsOf(c), NEW i \in DOMAIN call[c].batch
        PROVE  Carries(db, call[c].batch[i]) # {}
    <3>1. PICK k \in 1..MaxIds - 1 : v.id = Id(c, k)
      BY <2>1 DEF IdsOf
    <3>2. ~Fresh(c, db)
      BY <3>1 DEF Fresh, Used
    <3>3. Settled(call[c], c, db) /\ IsCall(call[c])
      BY DEF CatInv
    <3>4. Landed(call[c], c, db)
      BY <2>1, <3>2, <3>3 DEF Settled
    <3>5. i \in 1..Len(call[c].batch)
      BY <3>3 DEF IsCall
    <3> QED BY <3>4, <3>5 DEF Landed, Recorded
  <2>2. BatchLandsWhole
    BY <2>1 DEF BatchLandsWhole
  <2>3. ASSUME NEW c \in Call, call[c].kind = "apply", call[c].out = "ok"
        PROVE  /\ Len(call[c].results) = Len(call[c].batch)
               /\ \A i \in DOMAIN call[c].results :
                     LET res == call[c].results[i] IN
                     \E v \in Carries(db, call[c].batch[i]) :
                         /\ v.id = res.id /\ v.version = res.version
                         /\ res.created = (v.id = Id(c, i))
    <3>1. Settled(call[c], c, db) /\ IsCall(call[c])
      BY DEF CatInv
    <3>2. Landed(call[c], c, db)
      BY <2>3, <3>1 DEF Settled
    <3>3. DOMAIN call[c].results = 1..Len(call[c].results)
      BY <3>1 DEF IsCall
    <3> QED BY <3>2, <3>3 DEF Landed, Recorded
  <2>4. ReportIsTrue
    BY <2>3 DEF ReportIsTrue
  <2> QED BY <2>2, <2>4 DEF ApplyIsOneFact
<1> QED BY <1>1, InvHolds, PTL

-----------------------------------------------------------------------------
(* What is stored is what was written. *)

LEMMA StoredIsAccepted ==
    ASSUME CTypeOK, NEW v \in db.versions
    PROVE  /\ v.spec \in Storable
           /\ \E d \in Docs : Accepted(d) /\ v.spec = Canonical(Decode(d))
<1>1. v \in VersionRow
  BY DEF CTypeOK, Catalog
<1>2. v.spec \in Storable
  BY <1>1 DEF VersionRow
<1>3. Documents \subseteq Docs
  BY JobCatalogAssumption
<1> QED BY <1>2, <1>3 DEF Storable

\* Every stored version is the hashed form of a document that was accepted, and
\* on all of them hashing and reading back keep the job: writeJobVersion stores
\* what Canonical made, and FromIR yields it again.
THEOREM SpecsSurviveTheHash == CatSpec => []SpecSurvivesTheHash
<1>1. CatInv => SpecSurvivesTheHash
  <2> SUFFICES ASSUME CatInv PROVE SpecSurvivesTheHash
    OBVIOUS
  <2>1. CTypeOK
    BY DEF CatInv
  <2>2. \A v \in db.versions : v.spec \in Storable
    BY <2>1, StoredIsAccepted
  <2> QED BY <2>2, AcceptedMeansTheJobHolds DEF SpecSurvivesTheHash
<1> QED BY <1>1, InvHolds, PTL

\* The durations in a stored version lie within the limit decoding enforces, and
\* the arithmetic that made them and that makes delays of them is exact.
THEOREM StoredDurationsAreExact == CatSpec => []DurationsAreExact
<1>1. CatInv => DurationsAreExact
  <2> SUFFICES ASSUME CatInv PROVE DurationsAreExact
    OBVIOUS
  <2>1. CTypeOK
    BY DEF CatInv
  <2>2. ASSUME NEW v \in db.versions PROVE v.spec["timeout_ms"] \in 1..MaxJobTimeout
    <3>1. PICK d \in Docs : Accepted(d) /\ v.spec = Canonical(Decode(d))
      BY <2>1, StoredIsAccepted
    <3>2. v.spec["timeout_ms"] = Decode(d).timeout
      BY <3>1, ObjectMembers
    <3>3. Decode(d).timeout \in 1..MaxJobTimeout
      BY <3>1, AcceptedSays
    <3> QED BY <3>2, <3>3
  <2> QED BY <2>2, DurationArithmeticHolds, DelaysGrowToTheCapHolds, FrozenPolicyHolds
          DEF DurationsAreExact
<1> QED BY <1>1, InvHolds, PTL

-----------------------------------------------------------------------------
(* What a step may never do to what is committed. *)

\* Only two steps touch the committed catalogue.
LEMMA WhoWrites ==
    ASSUME CatInv, [CatNext]_vars, db' # db
    PROVE  \E c \in Call : Commit(c) \/ SetJobPaused(c)
<1>1. CASE UNCHANGED vars
  BY <1>1 DEF vars
<1>2. CASE Edit \/ AllDone
  BY <1>2 DEF Edit, AllDone, vars
<1>3. ASSUME NEW c \in Call, Apply(c) \/ Run(c) \/ LoadFile(c) \/ OpenBatch(c) \/ Begin(c) \/ TxFails(c)
      PROVE  FALSE
  BY <1>3 DEF Apply, Run, LoadFile, OpenBatch, Begin, TxFails, Rollback
<1>4. ASSUME NEW c \in Call, WriteJobVersion(c) \/ ChooseVersion(c) \/ InsertDecision(c)
                              \/ InsertStep(c) \/ AppendQueued(c)
      PROVE  FALSE
  BY <1>4 DEF WriteJobVersion, ChooseVersion, InsertDecision, InsertStep, AppendQueued, Step,
              Refuse, Rollback
<1> QED BY <1>1, <1>2, <1>3, <1>4 DEF CatNext, CallStep

\* The flag is one statement on one row.
LEMMA PauseSets ==
    ASSUME CatInv, NEW c \in Call, SetJobPaused(c), db' # db
    PROVE  \E j \in Job, flag \in BOOLEAN :
              /\ call[c].pc = "new" /\ call'[c].kind = "pause" /\ call'[c].job = j
              /\ call'[c].flag = flag /\ db.jobs[j] # NULL
              /\ db'.versions = db.versions /\ db'.runs = db.runs /\ db'.steps = db.steps
              /\ \A k \in Job \ {j} : db'.jobs[k] = db.jobs[k]
              /\ db'.jobs[j].paused = flag
<1>1. PICK r : r = call[c]
  OBVIOUS
<1>2. IsCall(r) /\ db \in Catalog /\ c \in DOMAIN call /\ r.pc = "new"
  BY <1>1 DEF CatInv, CTypeOK, SetJobPaused, Starts
<1>3. PICK j \in Job, flag \in BOOLEAN :
         LET rec == [r EXCEPT !.kind = "pause", !.pc = "done", !.job = j, !.flag = flag]
         IN IF db.jobs[j] = NULL
            THEN Set(c, [rec EXCEPT !.out = "not found"]) /\ UNCHANGED db
            ELSE /\ Set(c, [rec EXCEPT !.out = "ok"])
                 /\ db' = [db EXCEPT !.jobs[j].paused = flag]
  BY <1>1, Zenon DEF SetJobPaused
<1>4. PICK told : told = [r EXCEPT !.kind = "pause", !.pc = "done", !.job = j, !.flag = flag]
  OBVIOUS
<1>5. db.jobs[j] # NULL
  BY <1>3
<1>6. PICK rec : /\ rec = [told EXCEPT !.out = "ok"] /\ Set(c, rec)
                 /\ db' = [db EXCEPT !.jobs[j].paused = flag]
  BY <1>3, <1>4, <1>5
<1>7. rec.kind = "pause" /\ rec.job = j /\ rec.flag = flag /\ call'[c] = rec
  <2>1. DOMAIN told = Fields /\ told.kind = "pause" /\ told.job = j /\ told.flag = flag
    BY <1>2, <1>4 DEF IsCall, Fields
  <2> QED BY <1>2, <1>6, <2>1 DEF Set, Fields
<1>8. db.jobs[j] \in JobRow /\ DOMAIN db.jobs = Job /\ DOMAIN db = Columns
  BY <1>2, <1>5, ColumnsOf
<1>9. PICK row : row = [db.jobs[j] EXCEPT !.paused = flag]
  OBVIOUS
<1>10. row.paused = flag
  BY <1>8, <1>9 DEF JobRow
<1>11. /\ db'.jobs = [db.jobs EXCEPT ![j] = row] /\ db'.versions = db.versions
       /\ db'.runs = db.runs /\ db'.steps = db.steps
  BY <1>6, <1>8, <1>9 DEF Columns
<1> QED BY <1>1, <1>2, <1>5, <1>7, <1>8, <1>10, <1>11

LEMMA FrozenStep ==
    ASSUME CatInv, [CatNext]_vars
    PROVE  /\ db.versions \subseteq db'.versions /\ db.runs \subseteq db'.runs
           /\ \A s \in db'.steps \ db.steps : \A r \in db.runs : s.run # r.id
<1>1. CASE db' = db
  BY <1>1
<1>2. CASE db' # db
  <2>1. PICK c \in Call : Commit(c) \/ SetJobPaused(c)
    BY <1>2, WhoWrites
  <2>2. CASE SetJobPaused(c)
    BY <1>2, <2>2, PauseSets
  <2>3. CASE Commit(c)
    <3>1. TxFinished(c) /\ db' = work /\ call[c].pc = "tx"
      BY <2>3 DEF Commit, TxFinished
    <3>2. call[c].kind \in {"apply", "run"}
      BY <3>1, TheWriter DEF Going
    <3>3. CASE call[c].kind = "apply"
      <4>1. db.versions \subseteq work.versions /\ work.runs = db.runs /\ work.steps = db.steps
        BY <3>1, <3>3, ApplyFinished
      <4> QED BY <3>1, <4>1
    <3>4. CASE call[c].kind = "run"
      <4>1. /\ db.versions = work.versions /\ db.runs \subseteq work.runs
            /\ \A s \in work.steps \ db.steps : \A q \in db.runs : s.run # q.id
        BY <3>1, <3>4, RunFinished
      <4> QED BY <3>1, <4>1
    <3> QED BY <3>2, <3>3, <3>4
  <2> QED BY <2>1, <2>2, <2>3
<1> QED BY <1>1, <1>2

LEMMA PauseStep ==
    ASSUME CatInv, [CatNext]_vars, NEW j \in Job, db.jobs[j] # NULL, db'.jobs[j] # NULL,
           db'.jobs[j].paused # db.jobs[j].paused
    PROVE  \E c \in Call : /\ call[c].pc = "new" /\ call'[c].kind = "pause"
                           /\ call'[c].job = j /\ call'[c].flag = db'.jobs[j].paused
<1>1. db' # db
  OBVIOUS
<1>2. PICK c \in Call : Commit(c) \/ SetJobPaused(c)
  BY <1>1, WhoWrites
<1>3. CASE SetJobPaused(c)
  <2>1. PICK k \in Job, flag \in BOOLEAN :
              /\ call[c].pc = "new" /\ call'[c].kind = "pause" /\ call'[c].job = k
              /\ call'[c].flag = flag /\ \A i \in Job \ {k} : db'.jobs[i] = db.jobs[i]
              /\ db'.jobs[k].paused = flag
    BY <1>1, <1>3, PauseSets
  <2>2. k = j
    BY <2>1
  <2> QED BY <2>1, <2>2
<1>4. CASE Commit(c)
  <2>1. TxFinished(c) /\ db' = work /\ call[c].pc = "tx"
    BY <1>4 DEF Commit, TxFinished
  <2>2. call[c].kind \in {"apply", "run"}
    BY <2>1, TheWriter DEF Going
  <2>3. CASE call[c].kind = "apply"
    <3>1. work.jobs[j].paused = db.jobs[j].paused
      BY <2>1, <2>3, ApplyFinished
    <3> QED BY <2>1, <3>1
  <2>4. CASE call[c].kind = "run"
    <3>1. work.jobs = db.jobs
      BY <2>1, <2>4, RunFinished
    <3> QED BY <2>1, <3>1
  <2> QED BY <2>2, <2>3, <2>4
<1> QED BY <1>2, <1>3, <1>4

LEMMA ReportStep ==
    ASSUME CatInv, NEW c \in Call, Commit(c), call[c].kind = "apply",
           NEW i \in DOMAIN call[c].results
    PROVE  VersionById(db', db'.jobs[call[c].results[i].job].current).spec = ReportedFile(c, i).spec
<1>1. PICK r : r = call[c]
  OBVIOUS
<1>2. TxFinished(c) /\ db' = work /\ r.pc = "tx" /\ r.kind = "apply"
  BY <1>1 DEF Commit, TxFinished
<1>3. Landed(r, c, work) /\ Winner(r.batch, Len(r.batch), work) /\ Book(work) /\ IsCall(r)
  BY <1>1, <1>2, ApplyFinished, TheWriter
<1>4. PICK n \in Nat : n = Len(r.batch) /\ DOMAIN r.batch = 1..n /\ DOMAIN r.results = 1..n
  BY <1>3 DEF IsCall, Landed
<1>5. PICK j : j = r.results[i].job
  OBVIOUS
<1>6. i \in 1..n /\ r.batch[i].job = j
  BY <1>1, <1>3, <1>4, <1>5 DEF Landed, Recorded
<1> DEFINE same == {k \in 1..n : r.batch[k].job = j}
           Last(k) == /\ r.batch[k].job = j
                      /\ \A m \in 1..n : r.batch[m].job = r.batch[k].job => m <= k
           last == CHOOSE k \in 1..n : Last(k)
<1>7. \E k \in 1..n : Last(k)
  <2>1. IsFiniteSet(1..n)
    <3>1. 1 \in Int /\ n \in Int
      OBVIOUS
    <3> QED BY <3>1, FS_Interval
  <2>2. IsFiniteSet(same) /\ same # {} /\ same \subseteq Nat
    BY <1>6, <2>1, FS_Subset
  <2>3. PICK k \in same : \A m \in same : m <= k
    BY <2>2, GreatestOfFinite
  <2> QED BY <2>3
<1>8. last \in 1..n /\ Last(last)
  BY <1>7
<1>9. ReportedFile(c, i) = r.batch[last]
  BY <1>1, <1>4, <1>5 DEF ReportedFile
<1> HIDE DEF last
<1>10. PICK k \in 1..n : /\ k = last /\ r.batch[k].job = j
                         /\ \A m \in k + 1..n : r.batch[m].job # r.batch[k].job
  <2>1. \A m \in last + 1..n : m \in 1..n /\ ~(m <= last)
    BY <1>8
  <2> QED BY <1>8, <2>1
<1>11. PICK v \in Carries(work, r.batch[k]) : v.id = work.jobs[j].current
  BY <1>3, <1>4, <1>10 DEF Winner
<1>12. v \in work.versions /\ v.spec = r.batch[k].spec
  BY <1>11 DEF Carries, VersionsOf
<1>13. VersionById(work, v.id) = v
  BY <1>3, <1>12, NamedById DEF Book
<1> QED BY <1>1, <1>2, <1>5, <1>9, <1>10, <1>11, <1>12, <1>13

\* Nothing committed is taken back by a later call, whatever fails or is tried
\* again: version rows, runs and their steps stay as they were, no apply changes
\* the pause flag of a job that exists, and when two files name one job the file
\* the report shows is the one whose document the batch left current.
THEOREM CommittedIsNeverTakenBack == CatSpec => CommittedStays
<1>1. CatInv /\ [CatNext]_vars =>
         /\ db.versions \subseteq db'.versions /\ db.runs \subseteq db'.runs
         /\ \A s \in db'.steps \ db.steps : \A r \in db.runs : s.run # r.id
  BY FrozenStep
<1>2. CatInv /\ [CatNext]_vars =>
         \A j \in Job : db.jobs[j] # NULL /\ db'.jobs[j] # NULL
          /\ db'.jobs[j].paused # db.jobs[j].paused =>
              \E c \in Call : /\ call[c].pc = "new" /\ call'[c].kind = "pause"
                              /\ call'[c].job = j /\ call'[c].flag = db'.jobs[j].paused
  BY PauseStep
<1>3. CatInv /\ [CatNext]_vars =>
         \A c \in Call : Commit(c) /\ call[c].kind = "apply" =>
          \A i \in DOMAIN call[c].results :
              LET j == call[c].results[i].job IN
              VersionById(db', db'.jobs[j].current).spec = ReportedFile(c, i).spec
  BY ReportStep
<1>4. CatSpec => FrozenForGood
  BY <1>1, InvHolds, PTL DEF CatSpec, FrozenForGood
<1>5. CatSpec => ReloadKeepsPause
  BY <1>2, InvHolds, PTL DEF CatSpec, ReloadKeepsPause
<1>6. CatSpec => ReportShowsTheWinner
  BY <1>3, InvHolds, PTL DEF CatSpec, ReportShowsTheWinner
<1> QED BY <1>4, <1>5, <1>6, PTL DEF CommittedStays
=============================================================================
