------------------------------- MODULE JobSpec ------------------------------
(***************************************************************************)
(* internal/spec: what a job file says, whether it is refused, the         *)
(* canonical document its hash is taken over, and what a run reads back    *)
(* from that document.                                                     *)
(*                                                                         *)
(* A document is a job file after the YAML parser: one record per mapping, *)
(* NULL for a field that is absent or empty.  Names are numbered in byte   *)
(* order, so sorting them is comparing numbers.  A duration is the         *)
(* sequence of number and unit pairs as written.  Left out: positions and  *)
(* wording of the diagnostics, warnings, unknown and duplicate keys,       *)
(* anchors and their budget, env, workdir, schedules and sensors, the      *)
(* names of the backoff and jitter policies.                               *)
(***************************************************************************)
EXTENDS Integers, Sequences, FiniteSets

CONSTANTS
    NULL, Text,       \* an absent field; a scalar where a list belongs
    Name,             \* the names namePattern accepts, in byte order
    Docs,             \* the documents the laws below quantify over
    MaxSteps,         \* MaxSteps
    DefaultTimeout, MaxJobTimeout, DefaultInitial, DefaultMaxDelay,
    Unit,             \* durationUnits: what a suffix is worth in milliseconds
    UnitOrder,        \* the suffixes, largest first
    MaxFraction,      \* maxFractionDigits
    Width,            \* the width of an int64
    NanosPerMilli     \* time.Millisecond

IsList(s) == Len(s) \in Nat /\ DOMAIN s = 1..Len(s)

\* A duration as written, or its absence.
Duration ==
    {NULL} \union
    Seq([digits : Seq(0..9), fraction : {NULL} \union Seq(0..9), unit : DOMAIN Unit])

\* What YAML calls a list is one: only its length and its members are looked at.
ASSUME DocumentsAssumption ==
    /\ NULL \notin Docs /\ NULL # <<>>
    /\ \A d \in Docs :
          /\ d.timeout \in Duration /\ d.inherit \in {NULL} \union Seq(Name)
          /\ d.steps # NULL =>
                /\ IsList(d.steps)
                /\ \A i \in DOMAIN d.steps :
                      /\ d.steps[i].needs = NULL \/ IsList(d.steps[i].needs)
                      /\ d.steps[i].timeout \in Duration
                      /\ d.steps[i].retry # NULL =>
                            {d.steps[i].retry.initial, d.steps[i].retry.maxDelay} \subseteq Duration
    /\ NULL \notin [max : Nat, initial : Nat, maxDelay : Nat]
    /\ NULL \notin [max : Nat, initial_ms : Nat, max_delay_ms : Nat]

-----------------------------------------------------------------------------
(* Durations: ParseDuration and FormatDuration.                            *)

\* What an unreadable duration parses to; no duration is negative.
Refused == -1

Power(base, n) ==
    LET p[i \in 0..n] == IF i = 0 THEN 1 ELSE base * p[i - 1] IN p[n]
Pow10(n) == Power(10, n)

\* A signed integer of Width bits, and the truncating division on them.
Limit == Power(2, Width - 1)
Wrap(x) == ((x + Limit) % (2 * Limit)) - Limit
Quotient(a, b) == IF a >= 0 THEN a \div b ELSE -((-a) \div b)

MaxDurationMillis == (Limit - 1) \div NanosPerMilli

\* The constants are of the size the code gives them: a digit, a unit and the
\* longest timeout are durations, and a millisecond is an even number of
\* nanoseconds.
ASSUME JobSpecAssumption ==
    /\ Name \subseteq Nat
    /\ MaxSteps \in Nat \ {0} /\ MaxFraction \in Nat /\ MaxJobTimeout \in 1..MaxDurationMillis
    /\ DefaultTimeout \in 1..MaxJobTimeout
    /\ DefaultMaxDelay \in 1..MaxJobTimeout /\ DefaultInitial \in 1..DefaultMaxDelay
    /\ Width \in Nat \ {0} /\ NanosPerMilli \in Nat \ {0} /\ NanosPerMilli % 2 = 0
    /\ 10 <= MaxDurationMillis
    /\ UnitOrder \in Seq(DOMAIN Unit) /\ DOMAIN Unit = {UnitOrder[i] : i \in DOMAIN UnitOrder}
    /\ \A u \in DOMAIN Unit : Unit[u] \in 1..MaxDurationMillis
    /\ UnitOrder # <<>> /\ Unit[UnitOrder[Len(UnitOrder)]] = 1

InRange(millis) == IF millis > MaxDurationMillis THEN Refused ELSE millis

\* Mutant: the product is compared with the limit after it has wrapped.
MulWrapped(a, b) == IF a = Refused THEN Refused ELSE InRange(Wrap(a * b))
\* A product that has wrapped does not divide back into its factors.
MulChecked(a, b) ==
    LET undone(product) == b = 0 \/ Quotient(product, b) = a IN
    IF a = Refused \/ ~undone(Wrap(a * b)) THEN Refused ELSE InRange(Wrap(a * b))

AddChecked(a, b) ==
    IF Refused \in {a, b} \/ Wrap(a + b) < a THEN Refused ELSE InRange(Wrap(a + b))

DigitsValue(digits) ==
    LET v[i \in 0..Len(digits)] ==
            IF i = 0 THEN 0 ELSE AddChecked(MulChecked(v[i - 1], 10), digits[i])
    IN v[Len(digits)]

Divided(product, scale) ==
    IF product = Refused \/ product % scale # 0 THEN Refused ELSE product \div scale

\* One number and unit pair.  `fraction` is NULL without a decimal point.
PartMillis(part) ==
    LET fraction == IF part.fraction = NULL THEN <<>> ELSE part.fraction
    IN IF \/ part.digits = <<>> \/ part.fraction = <<>>
          \/ Len(fraction) > MaxFraction
       THEN Refused
       ELSE Divided(MulChecked(DigitsValue(part.digits \o fraction), Unit[part.unit]),
                    Pow10(Len(fraction)))

NotZero(millis) == IF millis = 0 THEN Refused ELSE millis
ParseDuration(parts) ==
    LET total[i \in 0..Len(parts)] ==
            IF i = 0 THEN 0 ELSE AddChecked(total[i - 1], PartMillis(parts[i]))
    IN NotZero(total[Len(parts)])

\* The decimal digits of a count, as the %d verb writes them.
Decimal(n) ==
    LET width == CHOOSE w \in 1..(n + 1) : Pow10(w) > n /\ (w = 1 \/ Pow10(w - 1) <= n)
    IN [i \in 1..width |-> (n \div Pow10(width - i)) % 10]

\* As many of each unit as fit, largest first; a unit that fits no time is
\* not written.
FormatDuration(millis) ==
    LET left[i \in 0..Len(UnitOrder)] ==
            IF i = 0 THEN millis ELSE left[i - 1] % Unit[UnitOrder[i]]
        count(i) == left[i - 1] \div Unit[UnitOrder[i]]
        part(i)  == [digits |-> Decimal(count(i)), fraction |-> NULL, unit |-> UnitOrder[i]]
        parts[i \in 0..Len(UnitOrder)] ==
            IF i = 0 THEN <<>>
            ELSE parts[i - 1] \o (IF count(i) > 0 THEN <<part(i)>> ELSE <<>>)
    IN parts[Len(UnitOrder)]

-----------------------------------------------------------------------------
(* Decoding: what refuses a document, and the job it says otherwise.       *)

When(condition, code) == IF condition THEN {code} ELSE {}

NameProblems(name) == When(name \notin Name, "PQ1002")

\* decoder.timeout: an unreadable or too long value is reported and replaced
\* by the fallback.
MillisProblems(millis) ==
    When(millis = Refused, "PQ1020") \union When(millis > MaxJobTimeout, "PQ1021")
DurationProblems(written) ==
    IF written = NULL THEN {} ELSE MillisProblems(ParseDuration(written))

OrFallback(millis, fallback) ==
    IF MillisProblems(millis) = {} THEN millis ELSE fallback
DurationOf(written, fallback) ==
    IF written = NULL THEN fallback ELSE OrFallback(ParseDuration(written), fallback)

DecodeRetry(retry) ==
    IF retry = NULL THEN NULL
    ELSE [max |-> IF retry.max = NULL THEN 0 ELSE retry.max,
          initial  |-> DurationOf(retry.initial, DefaultInitial),
          maxDelay |-> DurationOf(retry.maxDelay, DefaultMaxDelay)]

RetryProblems(retry) ==
    IF retry = NULL THEN {}
    ELSE When(retry.max = NULL, "PQ1003")
           \union When(retry.max # NULL /\ retry.max \notin 0..MaxSteps, "PQ1004")
           \union DurationProblems(retry.initial) \union DurationProblems(retry.maxDelay)
           \union When(DurationOf(retry.initial, DefaultInitial)
                         > DurationOf(retry.maxDelay, DefaultMaxDelay), "PQ1004")

\* An argument is an absolute path or not; only the first one is asked.
RunProblems(run, shell) ==
    IF run = NULL THEN {"PQ1003"}
    ELSE IF run = Text THEN {"PQ1010"}
    ELSE IF run = <<>> THEN {"PQ1011"}
    ELSE When(run[1] # "absolute" /\ ~shell, "PQ1012")

StepProblems(step) ==
    NameProblems(step.name) \union RunProblems(step.run, step.shell)
      \union DurationProblems(step.timeout) \union RetryProblems(step.retry)

DecodeStep(step) ==
    [name |-> step.name, run |-> step.run, shell |-> step.shell,
     timeout |-> DurationOf(step.timeout, 0), retry |-> DecodeRetry(step.retry),
     needs |-> IF step.needs = NULL THEN <<>> ELSE step.needs]

StepsProblems(steps) ==
    IF steps \in {NULL, <<>>} THEN {"PQ1003"}
    ELSE IF Len(steps) > MaxSteps THEN {"PQ1009"}
    ELSE UNION {StepProblems(steps[i]) : i \in DOMAIN steps}

\* decoder.job: the defaults stand where the document is silent.
FieldProblems(doc) ==
    NameProblems(doc.name) \union StepsProblems(doc.steps)
      \union DurationProblems(doc.timeout)
      \union When(doc.maxConcurrent # NULL /\ doc.maxConcurrent \notin 1..MaxSteps, "PQ1030")

Decode(doc) ==
    [name |-> doc.name, timeout |-> DurationOf(doc.timeout, DefaultTimeout),
     maxConcurrent |-> IF doc.maxConcurrent = NULL THEN 1 ELSE doc.maxConcurrent,
     inherit |-> IF doc.inherit = NULL THEN <<>> ELSE doc.inherit,
     steps |-> [i \in DOMAIN doc.steps |-> DecodeStep(doc.steps[i])]]

\* decoder.crossCheck: a name taken twice, a need that names no step.
CrossProblems(steps) ==
    When(\E i, j \in DOMAIN steps : i # j /\ steps[i].name = steps[j].name, "PQ2001")
      \union When(\E i \in DOMAIN steps : \E n \in DOMAIN steps[i].needs :
                      \A j \in DOMAIN steps : steps[j].name # steps[i].needs[n], "PQ2002")

\* Parse: the checks that need the whole job run on a document that decoded.
Problems(doc) ==
    IF FieldProblems(doc) # {} THEN FieldProblems(doc)
    ELSE CrossProblems(Decode(doc).steps)

Accepted(doc) == Problems(doc) = {}

-----------------------------------------------------------------------------
(* The canonical document and the way back.  An object is the function     *)
(* from its keys to their values; its hash is taken to be the object       *)
(* itself.                                                                 *)

SchemaName == "paceq.job.v1"

\* The writer leaves empty members out.
Without(object, keys) == [k \in DOMAIN object \ keys |-> object[k]]
Unless(present, key) == IF present THEN {} ELSE {key}

\* In order, place by place: the name with fewer than i below it and at least i
\* up to it.
CanonicalSorted(names) ==
    LET below(n) == {k \in DOMAIN names : names[k] < n}
        upTo(n)  == {k \in DOMAIN names : names[k] <= n}
    IN [i \in DOMAIN names |->
           CHOOSE n \in {names[k] : k \in DOMAIN names} :
               Cardinality(below(n)) < i /\ i <= Cardinality(upTo(n))]

CanonicalRetry(r) ==
    IF r = NULL THEN NULL
    ELSE [max |-> r.max, initial_ms |-> r.initial, max_delay_ms |-> r.maxDelay]

CanonicalStep(s) ==
    Without([name |-> s.name, run |-> s.run, shell |-> s.shell, timeout_ms |-> s.timeout,
             retry |-> CanonicalRetry(s.retry), needs |-> CanonicalSorted(s.needs)],
            Unless(s.timeout > 0, "timeout_ms") \union Unless(s.retry # NULL, "retry")
              \union Unless(Len(s.needs) > 0, "needs"))

Canonical(job) ==
    Without([schema |-> SchemaName, name |-> job.name, timeout_ms |-> job.timeout,
             max_concurrent |-> job.maxConcurrent,
             steps |-> [i \in DOMAIN job.steps |-> CanonicalStep(job.steps[i])],
             inherit_env |-> CanonicalSorted(job.inherit)],
            Unless(Len(job.inherit) > 0, "inherit_env"))

\* A member the writer left out reads as the zero value.
Read(object, key, zero) == IF key \in DOMAIN object THEN object[key] ELSE zero

IrRetry(r) ==
    IF r = NULL THEN NULL
    ELSE [max |-> Read(r, "max", 0), initial |-> Read(r, "initial_ms", 0),
          maxDelay |-> Read(r, "max_delay_ms", 0)]

\* Mutant: the reader forgets a member the writer emits.
IrStepForgetsTimeout(s) ==
    [name |-> Read(s, "name", NULL), run |-> Read(s, "run", <<>>),
     shell |-> Read(s, "shell", FALSE), timeout |-> 0,
     retry |-> IrRetry(Read(s, "retry", NULL)), needs |-> Read(s, "needs", <<>>)]

IrStep(s) ==
    [name |-> Read(s, "name", NULL), run |-> Read(s, "run", <<>>),
     shell |-> Read(s, "shell", FALSE), timeout |-> Read(s, "timeout_ms", 0),
     retry |-> IrRetry(Read(s, "retry", NULL)), needs |-> Read(s, "needs", <<>>)]

JobKeys  == {"schema", "name", "timeout_ms", "max_concurrent", "steps", "inherit_env"}
StepKeys == {"name", "run", "shell", "timeout_ms", "retry", "needs"}

\* Strict about shape: a key the writer never emits, another schema or no
\* name, and the document is refused.
Readable(object) ==
    /\ {"schema", "name"} \subseteq DOMAIN object /\ DOMAIN object \subseteq JobKeys
    /\ object["schema"] = SchemaName
    /\ \A i \in DOMAIN Read(object, "steps", <<>>) :
          DOMAIN object["steps"][i] \subseteq StepKeys

FromIR(object) ==
    [name |-> object["name"], timeout |-> Read(object, "timeout_ms", 0),
     maxConcurrent |-> Read(object, "max_concurrent", 0),
     inherit |-> Read(object, "inherit_env", <<>>),
     steps |-> [i \in DOMAIN Read(object, "steps", <<>>) |-> IrStep(object["steps"][i])]]

-----------------------------------------------------------------------------
(* The rows a run is born with: insertSteps.                               *)

StepRow(steps, i) ==
    [name |-> steps[i].name, idx |-> i - 1,
     maxAttempts |-> IF steps[i].retry # NULL /\ steps[i].retry.max >= 0
                     THEN steps[i].retry.max + 1 ELSE 1]

\* PRIMARY KEY (run_id, step_name, depends_on): an edge written twice is
\* refused and takes the transaction with it.
EdgesConflict(step) ==
    \E i, j \in DOMAIN step.needs : i # j /\ step.needs[i] = step.needs[j]

-----------------------------------------------------------------------------
(* Laws.  Each is a constant formula over the bounded documents.           *)

Sorted(job) ==
    LET inOrder(step) == [step EXCEPT !.needs = CanonicalSorted(@)]
    IN [job EXCEPT !.inherit = CanonicalSorted(@),
                   !.steps = [i \in DOMAIN job.steps |-> inOrder(job.steps[i])]]

\* What the accepted documents say, and the object each is hashed as.
Said == {[doc |-> d, job |-> Decode(d), object |-> Canonical(Decode(d))] :
            d \in {x \in Docs : Accepted(x)}}

\* Reading back the document that was hashed yields the job that was written:
\* same steps, timeouts, retries and edges, whatever was left out of it.
ReadBackIsTheJob(s) == Readable(s.object) /\ FromIR(s.object) = Sorted(s.job)

Count(s, x) == Cardinality({i \in DOMAIN s : s[i] = x})
Permuted(s, t) == \A x \in Name : Count(s, x) = Count(t, x)

\* A reference for "the same job": equal once every default is written out,
\* the lists that are sets compared without their order.
SameJob(a, b) ==
    /\ a.name = b.name /\ Len(a.steps) = Len(b.steps) /\ Permuted(a.inherit, b.inherit)
    /\ a.timeout = b.timeout /\ a.maxConcurrent = b.maxConcurrent
    /\ \A i \in DOMAIN a.steps :
          /\ [a.steps[i] EXCEPT !.needs = <<>>] = [b.steps[i] EXCEPT !.needs = <<>>]
          /\ Permuted(a.steps[i].needs, b.steps[i].needs)

\* Two files are one version exactly when they say the same job: a default
\* written out or left out and a list in another order do not make a new
\* version, and anything else does.
HashIsMeaning(s, t) == s.object = t.object <=> SameJob(s.job, t.job)

\* The rows of an accepted job satisfy the constraints of the tables they are
\* inserted into, unless a step repeats a need: crossCheck lets that through.
Materialises(steps) ==
    /\ \A i, j \in DOMAIN steps :
          StepRow(steps, i).name = StepRow(steps, j).name => i = j
    /\ \A i \in DOMAIN steps : /\ StepRow(steps, i).maxAttempts >= 1
                               /\ steps[i].run # <<>>
AcceptedJobMaterialises(s) ==
    \A steps \in {FromIR(s.object).steps} :
        (\E i \in DOMAIN steps : EdgesConflict(steps[i])) \/ Materialises(steps)

MeanTheirJobs(said) ==
    \A s \in said : /\ ReadBackIsTheJob(s) /\ AcceptedJobMaterialises(s)
                    /\ \A t \in said : HashIsMeaning(s, t)
AcceptedMeansTheJob == MeanTheirJobs(Said)

Digits(n) == UNION {[1..i -> {0, 1, 9}] : i \in 1..n}
Parts == [digits : Digits(2), fraction : {NULL, <<>>} \union Digits(2),
          unit : DOMAIN Unit]

\* The value of a part in hundredths of a millisecond, without any bound.
Hundredths(part) ==
    LET fraction == IF part.fraction = NULL THEN <<>> ELSE part.fraction
        all == part.digits \o fraction
        v[i \in 0..Len(all)] == IF i = 0 THEN 0 ELSE 10 * v[i - 1] + all[i]
    IN v[Len(all)] * Unit[part.unit] * Pow10(2 - Len(fraction))

\* A duration that is read is read exactly: no rounding and no wrapped
\* product or sum, and what FormatDuration writes reads back as itself.
DurationArithmetic ==
    /\ \A p \in Parts, q \in {x \in Parts : Len(x.digits) = 1 /\ x.fraction = NULL} :
          LET millis == ParseDuration(<<p, q>>) IN
          millis # Refused => /\ 100 * millis = Hundredths(p) + Hundredths(q)
                              /\ millis * NanosPerMilli < Limit
    /\ \A millis \in 1..MaxDurationMillis : ParseDuration(FormatDuration(millis)) = millis
=============================================================================
