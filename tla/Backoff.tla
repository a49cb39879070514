------------------------------- MODULE Backoff -------------------------------
(***************************************************************************)
(* How long a step waits for its next attempt: the policy the engine makes *)
(* of the retry block frozen in a run (engine/retry.go), and the delay     *)
(* that policy grows to (internal/retry).  A duration is a count of        *)
(* nanoseconds in a signed integer of Width bits.                          *)
(***************************************************************************)
EXTENDS JobSpec

Kind   == {"exponential", "fixed"}
Jitter == {"full", "none"}

\* retryPolicyOf: a member that is missing reads as zero and means its default.
RetryPolicyOf(r, kind, jitter) ==
    LET orDefault(millis, default) ==
            Wrap((IF millis > 0 THEN millis ELSE default) * NanosPerMilli)
    IN [kind |-> kind, jitter |-> jitter,
        initial  |-> orDefault(IF r = NULL THEN 0 ELSE r.initial, DefaultInitial),
        maxDelay |-> orDefault(IF r = NULL THEN 0 ELSE r.maxDelay, DefaultMaxDelay)]

\* Doubling stops at the cap, before the product of a large attempt can wrap.
Doubled(base, cap) ==
    LET next == Wrap(base * 2) IN
    IF next < base \/ next >= cap THEN cap ELSE next

Grown(p, attempt) ==
    LET base[i \in 1..attempt] ==
            IF i = 1 \/ p.kind = "fixed" THEN p.initial
            ELSE Doubled(base[i - 1], p.maxDelay)
    IN base[attempt]

Longest(p, attempt) ==
    LET base   == Grown(p, IF attempt < 1 THEN 1 ELSE attempt)
        capped == IF p.maxDelay > 0 /\ base > p.maxDelay THEN p.maxDelay ELSE base
    IN IF capped < 0 THEN 0 ELSE capped

\* What Delay may return.  Int64N is asked for a number below Longest + 1.
Draws(p, attempt) ==
    IF p.jitter = "none" THEN {Longest(p, attempt)}
    ELSE 0..(Wrap(Longest(p, attempt) + 1) - 1)

-----------------------------------------------------------------------------
(* Laws. *)

\* Whole milliseconds around the places where doubling meets the cap and where
\* it leaves the integer.
Millis == {1, 2, 3, MaxDurationMillis \div 2, MaxDurationMillis \div 2 + 1,
           MaxDurationMillis - 1, MaxDurationMillis}
Policies == {RetryPolicyOf([initial |-> i, maxDelay |-> m], k, j) :
                i \in Millis, m \in Millis, k \in Kind, j \in Jitter}
Attempts == 0..(Width + 2)

\* The delay without bounds on the integers.
Reference(p, attempt) ==
    LET doublings == IF p.kind = "fixed" \/ attempt < 1 THEN 0 ELSE attempt - 1
        grown == p.initial * Power(2, doublings)
    IN IF grown > p.maxDelay THEN p.maxDelay ELSE grown

\* The longest delay is the initial one doubled per attempt and capped, for any
\* attempt number; what is drawn lies between zero and it, and something can be
\* drawn.
DelaysGrowToTheCap ==
    \A p \in Policies, n \in Attempts :
        /\ Longest(p, n) = Reference(p, n)
        /\ Draws(p, n) # {}
        /\ \A d \in Draws(p, n) : 0 <= d /\ d <= p.maxDelay

\* The retry block of an accepted file reaches the engine with the numbers the
\* file says, or with the defaults it leaves unsaid, through decoding, hashing
\* and reading back.
FrozenPolicyIsTheWrittenOne ==
    \A s \in Said : \A frozen \in {FromIR(s.object).steps} :
        \A i \in DOMAIN frozen : \A written \in {s.doc.steps[i].retry} \ {NULL} :
            RetryPolicyOf(frozen[i].retry, "fixed", "none") =
                [kind |-> "fixed", jitter |-> "none",
                 initial  |-> NanosPerMilli *
                    (IF written.initial = NULL THEN DefaultInitial
                     ELSE ParseDuration(written.initial)),
                 maxDelay |-> NanosPerMilli *
                    (IF written.maxDelay = NULL THEN DefaultMaxDelay
                     ELSE ParseDuration(written.maxDelay))]
=============================================================================
