--------------------------- MODULE JobSpec_proofs ----------------------------
(***************************************************************************)
(* The laws of JobSpec and Backoff, for any documents, any units and any   *)
(* width of the integers: what is accepted means its job, and durations    *)
(* and delays are exact.                                                   *)
(***************************************************************************)
EXTENDS Backoff, FiniteSetTheorems, WellFoundedInduction, TLAPS

-----------------------------------------------------------------------------
(* Numbers and lists. *)

\* A set of numbers that is not empty has a least one.
LEMMA LeastNatural ==
    ASSUME NEW T, T \subseteq Nat, T # {}
    PROVE  \E x \in T : \A y \in T : x <= y
<1> DEFINE R == OpToRel(<, Nat)
<1>1. IsWellFoundedOn(R, Nat)
  BY NatLessThanWellFounded
<1>2. \A x, y \in Nat : x < y => <<x, y>> \in R
  BY DEF OpToRel
<1> HIDE DEF R
<1>3. PICK x \in T : \A y \in T : ~(<<y, x>> \in R)
  BY <1>1, WFMin
<1>4. \A y \in T : ~(y < x)
  BY <1>2, <1>3, Zenon
<1>5. \A y \in T : x <= y
  BY <1>4
<1> QED BY <1>5

\* A set that holds 0 and, with a number below n, the next one, holds 0..n.
LEMMA Induction ==
    ASSUME NEW n \in Nat, NEW T, 0 \in T,
           \A i \in 1..n : i - 1 \in T => i \in T
    PROVE  \A i \in 0..n : i \in T
<1> DEFINE U == (0..n) \ T
<1>1. SUFFICES ASSUME U # {} PROVE FALSE
  OBVIOUS
<1>2. U \subseteq Nat
  OBVIOUS
<1>3. PICK x \in U : \A y \in U : x <= y
  BY <1>1, <1>2, LeastNatural
<1>4. x \in 1..n
  OBVIOUS
<1>5. x - 1 \in 0..n /\ ~(x - 1 \in U)
  BY <1>3, <1>4
<1> QED BY <1>4, <1>5

\* A set of numbers that has finitely many and is not empty has a greatest one.
LEMMA GreatestOfFinite ==
    ASSUME NEW S, S \subseteq Nat, S # {}, IsFiniteSet(S)
    PROVE  \E x \in S : \A y \in S : y <= x
<1>1. Cardinality(S) \in Nat /\ ExistsBijection(1..Cardinality(S), S)
  BY FS_CardinalityType
<1>2. PICK n \in Nat : n = Cardinality(S)
  BY <1>1
<1>3. PICK f \in [1..n -> S] : \A y \in S : \E i \in 1..n : f[i] = y
  BY <1>1, <1>2 DEF ExistsBijection, Bijection, Surjection
<1> DEFINE T == {k \in 0..n : \E b \in Nat : \A i \in 1..k : f[i] <= b}
           U == {b \in Nat : \A y \in S : y <= b}
<1>4. 0 \in T
  OBVIOUS
<1>5. \A k \in 1..n : k - 1 \in T => k \in T
  <2> TAKE k \in 1..n
  <2> SUFFICES ASSUME k - 1 \in T PROVE k \in T
    OBVIOUS
  <2>1. PICK b \in Nat : \A i \in 1..k - 1 : f[i] <= b
    OBVIOUS
  <2>2. PICK x \in Nat : x = f[k]
    OBVIOUS
  <2>3. \A i \in 1..k : f[i] <= b + x
    <3> TAKE i \in 1..k
    <3>0. i \in 1..n /\ k \in 1..n
      BY <1>2
    <3>1. f[i] \in Nat
      BY <3>0
    <3>2. CASE i = k
      BY <2>1, <2>2, <3>2
    <3>3. CASE i # k
      <4>1. i \in 1..k - 1
        BY <3>3
      <4> QED BY <2>1, <2>2, <3>1, <4>1
    <3> QED BY <3>2, <3>3
  <2>4. b + x \in Nat
    OBVIOUS
  <2> QED BY <2>3, <2>4
<1> HIDE DEF T
<1>6. n \in T
  BY <1>4, <1>5, Induction
<1>7. U # {}
  <2>1. PICK b \in Nat : \A i \in 1..n : f[i] <= b
    BY <1>6 DEF T
  <2> QED BY <1>3, <2>1
<1>8. PICK u \in U : \A y \in U : u <= y
  BY <1>7, LeastNatural
<1>9. u \in S
  <2> SUFFICES ASSUME u \notin S PROVE FALSE
    OBVIOUS
  <2>1. PICK y \in S : TRUE
    OBVIOUS
  <2>2. \A x \in S : x < u
    OBVIOUS
  <2>3. u - 1 \in U
    BY <2>1, <2>2
  <2> QED BY <1>8, <2>3
<1> QED BY <1>9

\* A sorted list has a member at each place: of the list, with fewer members
\* below it than the place and as many up to it.
Below(names, n) == {k \in DOMAIN names : names[k] < n}
UpTo(names, n)  == {k \in DOMAIN names : names[k] <= n}

LEMMA SortedMembers ==
    ASSUME NEW names, IsList(names), \A k \in DOMAIN names : names[k] \in Nat
    PROVE  /\ CanonicalSorted(names) = [i \in DOMAIN names |-> CanonicalSorted(names)[i]]
           /\ DOMAIN CanonicalSorted(names) = DOMAIN names
           /\ \A i \in DOMAIN names :
                 /\ \E k \in DOMAIN names : CanonicalSorted(names)[i] = names[k]
                 /\ Cardinality(Below(names, CanonicalSorted(names)[i])) < i
                 /\ i <= Cardinality(UpTo(names, CanonicalSorted(names)[i]))
<1> DEFINE below(n) == {k \in DOMAIN names : names[k] < n}
           upTo(n) == {k \in DOMAIN names : names[k] <= n}
           R == {names[k] : k \in DOMAIN names}
<1>1. \A S \in SUBSET (DOMAIN names) : IsFiniteSet(S) /\ Cardinality(S) \in Nat
  <2>1. Len(names) \in Nat /\ DOMAIN names = 1..Len(names)
    BY DEF IsList
  <2>2. IsFiniteSet(1..Len(names))
    BY <2>1, FS_Interval
  <2> QED BY <2>1, <2>2, FS_Subset, FS_CardinalityType
<1>2. ASSUME NEW i \in DOMAIN names
      PROVE  \E n \in R : Cardinality(below(n)) < i /\ i <= Cardinality(upTo(n))
  <2> DEFINE T == {n \in Nat : i <= Cardinality(upTo(n))}
  <2>0. i \in Nat /\ i >= 1 /\ R \subseteq Nat /\ Len(names) \in Nat
        /\ DOMAIN names = 1..Len(names) /\ i <= Len(names)
    BY DEF IsList
  <2>1. T # {}
    <3>1. IsFiniteSet(R)
      <4> DEFINE f == [k \in DOMAIN names |-> names[k]]
      <4>1. f \in Surjection(DOMAIN names, R)
        BY DEF Surjection
      <4>2. IsFiniteSet(DOMAIN names)
        BY <1>1
      <4> QED BY <4>1, <4>2, FS_Surjection
    <3>2. PICK m \in R : \A x \in R : x <= m
      BY <2>0, <3>1, GreatestOfFinite
    <3>3. upTo(m) = 1..Len(names)
      BY <2>0, <3>2
    <3>4. PICK l \in Nat : l = Len(names)
      BY <2>0
    <3>5. Cardinality(1..l) = l
      <4>1. 1 \in Int /\ l \in Int
        OBVIOUS
      <4>2. Cardinality(1..l) = IF 1 > l THEN 0 ELSE l - 1 + 1
        BY <4>1, FS_Interval
      <4> QED BY <4>2
    <3>6. m \in Nat /\ i <= Cardinality(upTo(m))
      BY <2>0, <3>3, <3>4, <3>5
    <3> QED BY <3>6
  <2>2. PICK n \in T : \A y \in T : n <= y
    BY <2>1, LeastNatural
  <2>3. n \in Nat /\ i <= Cardinality(upTo(n))
    OBVIOUS
  <2>4. n # 0 => below(n) = upTo(n - 1)
    BY <2>0, <2>3
  <2>5. Cardinality(below(n)) < i
    <3>1. CASE n = 0
      <4>1. below(n) = {}
        BY <2>0, <3>1
      <4>2. Cardinality(below(n)) = 0
        BY <4>1, FS_EmptySet
      <4>3. i \in Nat /\ i >= 1
        BY <2>0
      <4> QED BY <4>2, <4>3
    <3>2. CASE n # 0
      <4>1. n - 1 \in Nat /\ ~(n <= n - 1)
        BY <2>3, <3>2
      <4>2. ~(i <= Cardinality(upTo(n - 1)))
        BY <2>2, <4>1
      <4>3. Cardinality(upTo(n - 1)) \in Nat
        BY <1>1
      <4>4. i \in Nat
        BY <2>0
      <4>5. Cardinality(below(n)) = Cardinality(upTo(n - 1))
        BY <2>4, <3>2
      <4> HIDE DEF below, upTo
      <4> QED BY <4>2, <4>3, <4>4, <4>5
    <3> QED BY <3>1, <3>2
  <2>6. n \in R
    <3> SUFFICES ASSUME n \notin R PROVE FALSE
      OBVIOUS
    <3>1. upTo(n) = below(n)
      BY <2>0, <2>3
    <3>2. Cardinality(below(n)) \in Nat /\ i \in Nat
      BY <1>1, <2>0
    <3>3. Cardinality(below(n)) < i /\ i <= Cardinality(below(n))
      BY <2>3, <2>5, <3>1
    <3> HIDE DEF below, upTo
    <3> QED BY <3>2, <3>3
  <2> QED BY <2>3, <2>5, <2>6
<1> DEFINE place(i) == CHOOSE n \in R : Cardinality(below(n)) < i /\ i <= Cardinality(upTo(n))
<1>3. CanonicalSorted(names) = [i \in DOMAIN names |-> place(i)]
  BY DEF CanonicalSorted
<1>4. \A i \in DOMAIN names : /\ place(i) \in R
                              /\ Cardinality(Below(names, place(i))) < i
                              /\ i <= Cardinality(UpTo(names, place(i)))
  BY <1>2 DEF Below, UpTo
<1> HIDE DEF place
<1>5. \A i \in DOMAIN names : CanonicalSorted(names)[i] = place(i)
  BY <1>3
<1>6. \A i \in DOMAIN names : \E k \in DOMAIN names : CanonicalSorted(names)[i] = names[k]
  BY <1>4, <1>5
<1> QED BY <1>3, <1>4, <1>5, <1>6

-----------------------------------------------------------------------------
(* Recursion along 0..n.                                                     *)

\* G says what each step makes of the value before it; f starts at z and takes
\* every step.
Steps(S, n) == [1..n -> [S -> S]]
Takes(z, n, G, f) ==
    /\ DOMAIN f = 0..n /\ f[0] = z
    /\ \A i \in 1..n : f[i] = G[i][f[i - 1]]
    /\ f = [i \in 0..n |-> f[i]]

LEMMA Recursion ==
    ASSUME NEW S, NEW z \in S, NEW n \in Nat, NEW G \in Steps(S, n)
    PROVE  \E f : Takes(z, n, G, f) /\ \A i \in 0..n : f[i] \in S
<1>0. G \in [1..n -> [S -> S]]
  BY DEF Steps
<1> DEFINE Good(k, f) == f[0] = z /\ \A i \in 1..k : f[i] = G[i][f[i - 1]]
           T == {k \in 0..n : \E f \in [0..k -> S] : Good(k, f)}
<1>1. 0 \in T
  <2>1. [i \in 0..0 |-> z] \in [0..0 -> S] /\ Good(0, [i \in 0..0 |-> z])
    OBVIOUS
  <2> HIDE DEF Good
  <2>2. \E f \in [0..0 -> S] : Good(0, f)
    BY <2>1, Zenon
  <2> QED BY <2>2
<1>2. ASSUME NEW k \in 1..n, k - 1 \in T PROVE k \in T
  <2>1. PICK f \in [0..k - 1 -> S] : Good(k - 1, f)
    BY <1>2
  <2> DEFINE g == [i \in 0..k |-> IF i = k THEN G[k][f[k - 1]] ELSE f[i]]
  <2>2. G[k][f[k - 1]] \in S
    BY <1>0
  <2>3. g \in [0..k -> S]
    <3>1. ASSUME NEW i \in 0..k PROVE (IF i = k THEN G[k][f[k - 1]] ELSE f[i]) \in S
      <4>1. i # k => i \in 0..k - 1
        OBVIOUS
      <4> QED BY <2>2, <4>1
    <3> QED BY <3>1
  <2>4. Good(k, g)
    <3>1. g[0] = z
      BY <2>1
    <3>2. ASSUME NEW i \in 1..k PROVE g[i] = G[i][g[i - 1]]
      <4>1. i - 1 \in 0..k /\ i - 1 # k /\ i \in 0..k
        OBVIOUS
      <4>2. g[i - 1] = f[i - 1]
        BY <4>1
      <4>3. CASE i = k
        BY <4>2, <4>3
      <4>4. CASE i # k
        BY <2>1, <4>1, <4>2, <4>4
      <4> QED BY <4>3, <4>4
    <3> QED BY <3>1, <3>2
  <2> HIDE DEF g, Good
  <2>5. \E h \in [0..k -> S] : Good(k, h)
    BY <2>3, <2>4, Zenon
  <2> QED BY <2>5
<1>3. n \in T
  <2> HIDE DEF T
  <2>1. \A i \in 0..n : i \in T
    BY <1>1, <1>2, Induction
  <2> QED BY <2>1
<1>4. PICK f \in [0..n -> S] : Good(n, f)
  BY <1>3
<1> QED BY <1>4 DEF Takes

-----------------------------------------------------------------------------
(* Powers and the integers of the machine.                                   *)

PowersOf(base, n, p) == p = [i \in 0..n |-> IF i = 0 THEN 1 ELSE base * p[i - 1]]
Powers(base, n) == CHOOSE p : PowersOf(base, n, p)

LEMMA PowersStep ==
    ASSUME NEW base \in Nat \ {0}, NEW n \in Nat
    PROVE  /\ Power(base, n) = Powers(base, n)[n]
           /\ Powers(base, n) \in [0..n -> Nat \ {0}] /\ Powers(base, n)[0] = 1
           /\ \A i \in 1..n : Powers(base, n)[i] = base * Powers(base, n)[i - 1]
<1> DEFINE S == Nat \ {0}
           G == [i \in 1..n |-> [x \in S |-> base * x]]
<1>1. G \in Steps(S, n)
  <2>1. \A x \in S : base * x \in S
    OBVIOUS
  <2> QED BY <2>1 DEF Steps
<1>2. PICK f : Takes(1, n, G, f) /\ \A i \in 0..n : f[i] \in S
  <2> HIDE DEF G, S
  <2>1. 1 \in S
    BY DEF S
  <2> QED BY <1>1, <2>1, Recursion
<1>3. \A i \in 1..n : G[i][f[i - 1]] = base * f[i - 1]
  <2> TAKE i \in 1..n
  <2>1. i - 1 \in 0..n
    OBVIOUS
  <2> QED BY <1>2, <2>1
<1>4. \A i \in 0..n : f[i] = IF i = 0 THEN 1 ELSE base * f[i - 1]
  <2> TAKE i \in 0..n
  <2> HIDE DEF G, S
  <2>1. i # 0 => i \in 1..n
    OBVIOUS
  <2> QED BY <1>2, <1>3, <2>1 DEF Takes
<1>5. PowersOf(base, n, f)
  <2> HIDE DEF G, S
  <2>1. f = [i \in 0..n |-> f[i]]
    BY <1>2 DEF Takes
  <2> QED BY <1>4, <2>1 DEF PowersOf
<1>6. PowersOf(base, n, Powers(base, n))
  BY <1>5 DEF Powers
<1>7. Powers(base, n)[0] = 1 /\ \A i \in 1..n : Powers(base, n)[i] = base * Powers(base, n)[i - 1]
  BY <1>6 DEF PowersOf
<1>8. Power(base, n) = Powers(base, n)[n]
  BY DEF Power, Powers, PowersOf
<1>9. Powers(base, n) \in [0..n -> S]
  <2> DEFINE T == {i \in 0..n : Powers(base, n)[i] \in S}
  <2>1. 0 \in T
    BY <1>7
  <2>2. ASSUME NEW i \in 1..n, i - 1 \in T PROVE i \in T
    <3>1. PICK x \in S : x = Powers(base, n)[i - 1]
      BY <2>2
    <3>2. base * x \in S
      OBVIOUS
    <3> QED BY <1>7, <3>1, <3>2
  <2>3. \A i \in 0..n : i \in T
    <3> HIDE DEF T
    <3> QED BY <2>1, <2>2, Induction
  <2> QED BY <1>6, <2>3 DEF PowersOf
<1> QED BY <1>7, <1>8, <1>9

\* What a power is, one exponent up from another.
LEMMA PowerStep ==
    ASSUME NEW base \in Nat \ {0}, NEW n \in Nat
    PROVE  /\ Power(base, 0) = 1 /\ Power(base, n) \in Nat \ {0}
           /\ Power(base, n + 1) = base * Power(base, n)
<1> DEFINE p == Powers(base, n)
           q == Powers(base, n + 1)
           T == {i \in 0..n : p[i] = q[i]}
<1>1. p[0] = 1 /\ \A i \in 1..n : p[i] = base * p[i - 1]
  BY PowersStep
<1>2. q[0] = 1 /\ \A i \in 1..n + 1 : q[i] = base * q[i - 1]
  BY PowersStep
<1> HIDE DEF p, q
<1>3. 0 \in T
  BY <1>1, <1>2
<1>4. \A i \in 1..n : i - 1 \in T => i \in T
  BY <1>1, <1>2
<1>5. n \in T
  <2> HIDE DEF T
  <2>1. \A i \in 0..n : i \in T
    BY <1>3, <1>4, Induction
  <2> QED BY <2>1
<1>6. q[n + 1] = base * p[n]
  BY <1>2, <1>5
<1>7. Power(base, n) = p[n] /\ Power(base, n) \in Nat \ {0}
  <2>1. Power(base, n) = p[n] /\ p \in [0..n -> Nat \ {0}]
    BY PowersStep DEF p
  <2> QED BY <2>1
<1>9. Power(base, n + 1) = q[n + 1]
  <2>1. n + 1 \in Nat
    OBVIOUS
  <2> QED BY <2>1, PowersStep DEF q
<1>8. Power(base, 0) = 1
  BY PowersStep
<1> QED BY <1>6, <1>7, <1>8, <1>9

\* The longest duration in nanoseconds leaves one more: a millisecond is even,
\* and the greatest integer is odd.
LEMMA LimitFacts ==
    /\ Limit \in Nat \ {0} /\ MaxDurationMillis \in Nat \ 0..9
    /\ MaxDurationMillis < Limit /\ MaxDurationMillis * NanosPerMilli < Limit - 1
    /\ \A u \in DOMAIN Unit : Unit[u] \in 1..MaxDurationMillis
<1>1. PICK w \in Nat : Width = w + 1
  <2>1. Width - 1 \in Nat /\ Width = (Width - 1) + 1
    BY JobSpecAssumption
  <2> QED BY <2>1
<1>2. Limit \in Nat \ {0}
  <2>1. Limit = Power(2, w)
    <3>1. (w + 1) - 1 = w
      OBVIOUS
    <3> QED BY <1>1, <3>1 DEF Limit
  <2>2. 2 \in Nat \ {0}
    OBVIOUS
  <2> QED BY <2>1, <2>2, PowerStep
<1>3. PICK k \in Nat \ {0} : NanosPerMilli = 2 * k
  <2>1. NanosPerMilli \in Nat \ {0} /\ NanosPerMilli % 2 = 0
    BY JobSpecAssumption
  <2>2. NanosPerMilli \div 2 \in Nat \ {0} /\ NanosPerMilli = 2 * (NanosPerMilli \div 2)
    BY <2>1
  <2> QED BY <2>2
<1>4. PICK l \in Nat \ {0} : l = Limit
  BY <1>2
<1>5. PICK m \in Nat, n \in Nat \ {0} :
         m = (l - 1) \div n /\ n = NanosPerMilli /\ m = MaxDurationMillis /\ m * n <= l - 1
  <2>1. PICK n \in Nat \ {0} : n = NanosPerMilli
    BY <1>3
  <2>2. (l - 1) \div n \in Nat /\ ((l - 1) \div n) * n <= l - 1
    OBVIOUS
  <2>3. MaxDurationMillis = (l - 1) \div n
    BY <1>4, <2>1 DEF MaxDurationMillis
  <2> QED BY <2>1, <2>2, <2>3
<1>6. m >= 10
  BY <1>5, JobSpecAssumption
<1>7. PICK h \in Nat : l = 2 * h
  <2>1. w # 0
    <3> SUFFICES ASSUME w = 0 PROVE FALSE
      OBVIOUS
    <3>1. Limit = Power(2, 0)
      BY <1>1 DEF Limit
    <3>2. Limit = 1
      <4>1. 2 \in Nat \ {0} /\ 0 \in Nat
        OBVIOUS
      <4> QED BY <3>1, <4>1, PowerStep
    <3> QED BY <1>4, <1>5, <1>6, <3>2
  <2>2. PICK v \in Nat : w = v + 1
    <3>1. w - 1 \in Nat /\ w = (w - 1) + 1
      BY <2>1
    <3> QED BY <3>1
  <2>3. Limit = Power(2, v + 1)
    <3>1. ((v + 1) + 1) - 1 = v + 1
      OBVIOUS
    <3> QED BY <1>1, <2>2, <3>1 DEF Limit
  <2>4. Power(2, v) \in Nat /\ Power(2, v + 1) = 2 * Power(2, v)
    <3>1. 2 \in Nat \ {0}
      OBVIOUS
    <3> QED BY <3>1, PowerStep
  <2> QED BY <1>4, <2>3, <2>4
<1>8. m * n # l - 1
  <2>1. PICK p \in Nat : p = m * k
    OBVIOUS
  <2>2. m * n = 2 * p
    BY <1>3, <1>5, <2>1
  <2> QED BY <1>7, <2>2
<1>9. m <= m * n
  <2>1. PICK j \in Nat : n = j + 1
    <3>1. n - 1 \in Nat /\ n = (n - 1) + 1
      OBVIOUS
    <3> QED BY <3>1
  <2>2. m * n = m * j + m /\ m * j \in Nat
    BY <2>1
  <2> QED BY <2>2
<1>10. PICK q \in Nat : q = m * n
  OBVIOUS
<1>11. m < l /\ q < l - 1
  BY <1>5, <1>8, <1>9, <1>10
<1>12. \A u \in DOMAIN Unit : Unit[u] \in 1..MaxDurationMillis
  BY JobSpecAssumption
<1> QED BY <1>4, <1>5, <1>6, <1>10, <1>11, <1>12

\* A number that fits is itself; one up to twice too large wraps to a negative
\* one, and every other leaves a multiple of the whole range behind.
LEMMA WrapFits ==
    ASSUME NEW x \in Nat
    PROVE  /\ x < Limit => Wrap(x) = x
           /\ x >= Limit /\ x < 2 * Limit => Wrap(x) = x - 2 * Limit
           /\ \E k \in Nat : Wrap(x) = x - k * (2 * Limit)
           /\ Wrap(x) \in Int
<1>1. PICK l \in Nat \ {0} : l = Limit
  BY LimitFacts
<1>2. PICK m \in Nat \ {0} : m = 2 * l
  OBVIOUS
<1>3. Wrap(x) = ((x + l) % m) - l
  BY <1>1, <1>2 DEF Wrap
<1>4. PICK k \in Nat, r \in Nat : x + l = k * m + r /\ r < m /\ r = (x + l) % m
  <2>1. PICK y \in Nat : y = x + l
    OBVIOUS
  <2>2. y \div m \in Nat /\ y % m \in Nat /\ y % m < m /\ y = (y \div m) * m + (y % m)
    OBVIOUS
  <2> QED BY <2>1, <2>2
<1>5. Wrap(x) = r - l
  BY <1>3, <1>4
<1>6. ASSUME x < l PROVE Wrap(x) = x
  <2>1. (x + l) % m = x + l
    BY <1>2, <1>6
  <2> QED BY <1>3, <2>1
<1>7. ASSUME x >= l, x < m PROVE Wrap(x) = x - m
  <2>1. PICK y \in Nat : y = x + l - m
    <3>1. x + l - m \in Nat
      BY <1>2, <1>7
    <3> QED BY <3>1
  <2>2. y < m /\ x + l = m + y
    BY <1>2, <1>7, <2>1
  <2>3. (x + l) % m = y
    BY <2>2
  <2> QED BY <1>3, <2>1, <2>3
<1>8. Wrap(x) = x - k * m
  <2>1. PICK p \in Nat : p = k * m
    OBVIOUS
  <2>2. x + l = p + r
    BY <1>4, <2>1
  <2> QED BY <1>5, <2>1, <2>2
<1>9. m = 2 * Limit
  BY <1>1, <1>2
<1>10. \E i \in Nat : Wrap(x) = x - i * (2 * Limit)
  BY <1>8, <1>9
<1>11. Wrap(x) \in Int
  BY <1>5
<1> QED BY <1>1, <1>6, <1>7, <1>9, <1>10, <1>11

\* What a count of milliseconds may be.
Counts == {Refused} \union 0..MaxDurationMillis

LEMMA InRangeCounts ==
    ASSUME NEW x \in Nat
    PROVE  InRange(x) = (IF x > MaxDurationMillis THEN Refused ELSE x) /\ InRange(x) \in Counts
<1>1. MaxDurationMillis \in Nat
  BY LimitFacts
<1> QED BY <1>1 DEF InRange, Counts

\* A sum is refused exactly when it is too long.
LEMMA AddExact ==
    ASSUME NEW a \in Counts, NEW b \in Counts
    PROVE  /\ AddChecked(a, b) \in Counts
           /\ AddChecked(a, b) = IF a = Refused \/ b = Refused \/ a + b > MaxDurationMillis
                                 THEN Refused ELSE a + b
<1>1. PICK l \in Nat, m \in Nat : l = Limit /\ m = MaxDurationMillis /\ m < l
  BY LimitFacts
<1>2. CASE a = Refused \/ b = Refused
  BY <1>2 DEF AddChecked, Counts
<1>3. CASE a # Refused /\ b # Refused
  <2>1. a \in 0..m /\ b \in 0..m
    BY <1>1, <1>3 DEF Counts
  <2>2. PICK s \in Nat : s = a + b
    BY <2>1
  <2>3. CASE s < l
    <3>1. Wrap(s) = s
      BY <1>1, <2>3, WrapFits
    <3>2. ~(s < a)
      BY <2>1, <2>2
    <3>3. AddChecked(a, b) = InRange(s)
      BY <1>3, <2>2, <3>1, <3>2 DEF AddChecked
    <3> QED BY <1>1, <1>3, <2>2, <3>3, InRangeCounts
  <2>4. CASE ~(s < l)
    <3>1. s >= l /\ s < 2 * l
      BY <1>1, <2>1, <2>2, <2>4
    <3>2. Wrap(s) = s - 2 * l
      BY <1>1, <3>1, WrapFits
    <3>3. Wrap(s) < a
      BY <1>1, <2>1, <2>2, <3>2
    <3>4. AddChecked(a, b) = Refused
      BY <2>2, <3>3 DEF AddChecked
    <3>5. s > m
      BY <1>1, <2>4
    <3> QED BY <1>1, <2>2, <3>4, <3>5 DEF Counts
  <2> QED BY <2>3, <2>4
<1> QED BY <1>2, <1>3

\* A product is refused exactly when it is too long: one that wrapped does not
\* divide back into its factors.
LEMMA MulExact ==
    ASSUME NEW a \in Counts, NEW b \in 1..MaxDurationMillis
    PROVE  /\ MulChecked(a, b) \in Counts
           /\ MulChecked(a, b) = IF a = Refused \/ a * b > MaxDurationMillis
                                 THEN Refused ELSE a * b
<1>1. PICK l \in Nat, m \in Nat : l = Limit /\ m = MaxDurationMillis /\ m < l
  BY LimitFacts
<1>2. b \in 1..m /\ b # 0
  BY <1>1
<1>3. CASE a = Refused
  BY <1>3 DEF MulChecked, Counts
<1>4. CASE a # Refused
  <2>1. a \in 0..m /\ a \in Nat /\ b \in Nat
    BY <1>1, <1>4 DEF Counts
  <2>2. PICK p \in Nat : p = a * b
    BY <2>1
  <2>3. MulChecked(a, b) = IF Quotient(Wrap(p), b) = a THEN InRange(Wrap(p)) ELSE Refused
    BY <1>2, <1>4, <2>2 DEF MulChecked
  <2>4. CASE p < l
    <3>1. Wrap(p) = p
      BY <1>1, <2>4, WrapFits
    <3>2. (a * b) \div b = a
      BY <1>2, <2>1
    <3>3. Quotient(p, b) = a
      BY <2>2, <3>2 DEF Quotient
    <3> QED BY <1>1, <1>4, <2>2, <2>3, <3>1, <3>3, InRangeCounts
  <2>5. CASE ~(p < l)
    <3>1. PICK k \in Nat : Wrap(p) = p - k * (2 * l)
      BY <1>1, WrapFits
    <3>2. PICK w \in Int : w = Wrap(p)
      BY WrapFits
    <3>3. w # p
      <4>1. w < l
        BY <1>1, <3>2 DEF Wrap
      <4> QED BY <2>5, <4>1
    <3>4. Quotient(w, b) # a
      <4> SUFFICES ASSUME Quotient(w, b) = a PROVE FALSE
        OBVIOUS
      <4>1. CASE w >= 0
        <5>1. w \div b = a
          BY <4>1 DEF Quotient
        <5>2. PICK r \in Nat : w = a * b + r /\ r < b
          <6>1. w = (w \div b) * b + (w % b) /\ w % b \in Nat /\ w % b < b
            BY <1>2, <4>1
          <6> QED BY <5>1, <6>1
        <5>3. w >= p
          BY <2>2, <5>2
        <5> QED BY <1>1, <3>1, <3>2, <3>3, <5>3
      <4>2. CASE w < 0
        <5>1. -((-w) \div b) = a
          BY <4>2 DEF Quotient
        <5>2. (-w) \div b \in Nat
          BY <1>2, <4>2
        <5>3. a = 0
          BY <2>1, <5>1, <5>2
        <5> QED BY <1>1, <2>1, <2>2, <2>5, <5>3
      <4> QED BY <4>1, <4>2
    <3>5. MulChecked(a, b) = Refused
      BY <2>3, <3>2, <3>4
    <3> QED BY <1>1, <2>2, <2>5, <3>5 DEF Counts
  <2> QED BY <2>4, <2>5
<1> QED BY <1>3, <1>4

-----------------------------------------------------------------------------
(* Digits.                                                                   *)

Digit == 0..9
ReadsDigits(w, v) ==
    v = [i \in 0..Len(w) |-> IF i = 0 THEN 0 ELSE AddChecked(MulChecked(v[i - 1], 10), w[i])]
Reading(w) == CHOOSE v : ReadsDigits(w, v)

WorthOf(w, v) == v = [i \in 0..Len(w) |-> IF i = 0 THEN 0 ELSE 10 * v[i - 1] + w[i]]
Worth(w) == CHOOSE v : WorthOf(w, v)

\* A digit more is ten times the count and the digit, or too long.
LEMMA OneDigit ==
    ASSUME NEW x \in Counts, NEW d \in Digit
    PROVE  /\ AddChecked(MulChecked(x, 10), d) \in Counts
           /\ AddChecked(MulChecked(x, 10), d) =
                IF x = Refused \/ 10 * x + d > MaxDurationMillis THEN Refused ELSE 10 * x + d
<1>1. PICK m \in Nat : m = MaxDurationMillis /\ m >= 10
  BY LimitFacts
<1>2. 10 \in 1..MaxDurationMillis /\ d \in Counts /\ d # Refused /\ d \in Nat
  BY <1>1 DEF Digit, Counts, Refused
<1>3. PICK y \in Counts : y = MulChecked(x, 10)
  BY <1>2, MulExact
<1>4. y = IF x = Refused \/ x * 10 > m THEN Refused ELSE x * 10
  BY <1>1, <1>2, <1>3, MulExact
<1>5. /\ AddChecked(y, d) \in Counts
      /\ AddChecked(y, d) = IF y = Refused \/ d = Refused \/ y + d > m THEN Refused ELSE y + d
  BY <1>1, <1>2, AddExact
<1>6. CASE x = Refused
  BY <1>3, <1>4, <1>5, <1>6
<1>7. CASE x # Refused
  <2>1. x \in Nat
    BY <1>1, <1>7 DEF Counts
  <2>2. x * 10 \in Nat /\ x * 10 # Refused /\ x * 10 = 10 * x
    BY <2>1 DEF Refused
  <2>3. CASE x * 10 > m
    <3>1. y = Refused /\ 10 * x + d > m
      BY <1>1, <1>2, <1>4, <2>2, <2>3
    <3> QED BY <1>1, <1>3, <1>5, <3>1
  <2>4. CASE ~(x * 10 > m)
    <3>1. y = 10 * x /\ y # Refused
      BY <1>4, <1>7, <2>2, <2>4
    <3> QED BY <1>1, <1>2, <1>3, <1>5, <1>7, <3>1
  <2> QED BY <2>3, <2>4
<1> QED BY <1>6, <1>7

LEMMA ReadingStep ==
    ASSUME NEW w \in Seq(Digit)
    PROVE  /\ DigitsValue(w) = Reading(w)[Len(w)] /\ Reading(w)[0] = 0
           /\ \A i \in 1..Len(w) :
                 Reading(w)[i] = AddChecked(MulChecked(Reading(w)[i - 1], 10), w[i])
           /\ \A i \in 0..Len(w) : Reading(w)[i] \in Counts
<1> DEFINE n == Len(w)
           G == [i \in 1..n |-> [x \in Counts |-> AddChecked(MulChecked(x, 10), w[i])]]
<1>0. n \in Nat /\ \A i \in 1..n : w[i] \in Digit
  OBVIOUS
<1>1. G \in Steps(Counts, n)
  <2>1. \A i \in 1..n : \A x \in Counts : AddChecked(MulChecked(x, 10), w[i]) \in Counts
    BY <1>0, OneDigit
  <2> QED BY <2>1 DEF Steps
<1>2. PICK f : Takes(0, n, G, f) /\ \A i \in 0..n : f[i] \in Counts
  <2> HIDE DEF G, n
  <2>1. 0 \in Counts
    BY LimitFacts DEF Counts
  <2> QED BY <1>0, <1>1, <2>1, Recursion
<1>3. \A i \in 1..n : G[i][f[i - 1]] = AddChecked(MulChecked(f[i - 1], 10), w[i])
  <2> TAKE i \in 1..n
  <2>1. i - 1 \in 0..n
    BY <1>0
  <2> QED BY <1>2, <2>1
<1> HIDE DEF G
<1>4. \A i \in 0..n : f[i] = IF i = 0 THEN 0 ELSE AddChecked(MulChecked(f[i - 1], 10), w[i])
  <2> TAKE i \in 0..n
  <2>1. i # 0 => i \in 1..n
    BY <1>0
  <2> QED BY <1>2, <1>3, <2>1 DEF Takes
<1>5. ReadsDigits(w, f)
  <2>1. f = [i \in 0..n |-> f[i]]
    BY <1>2 DEF Takes
  <2> QED BY <1>4, <2>1 DEF ReadsDigits
<1>6. ReadsDigits(w, Reading(w))
  BY <1>5 DEF Reading
<1>7. /\ Reading(w)[0] = 0
      /\ \A i \in 1..n : Reading(w)[i] = AddChecked(MulChecked(Reading(w)[i - 1], 10), w[i])
  BY <1>0, <1>6 DEF ReadsDigits
<1>8. DigitsValue(w) = Reading(w)[n]
  BY DEF DigitsValue, Reading, ReadsDigits
<1>9. \A i \in 0..n : Reading(w)[i] \in Counts
  <2> DEFINE T == {i \in 0..n : Reading(w)[i] \in Counts}
  <2>1. 0 \in T
    BY <1>0, <1>7, LimitFacts DEF Counts
  <2>2. ASSUME NEW i \in 1..n, i - 1 \in T PROVE i \in T
    <3>1. Reading(w)[i] \in Counts
      BY <1>0, <1>7, <2>2, OneDigit
    <3> QED BY <1>0, <3>1
  <2> HIDE DEF T
  <2>3. \A i \in 0..n : i \in T
    BY <1>0, <2>1, <2>2, Induction
  <2> QED BY <2>3 DEF T
<1> QED BY <1>7, <1>8, <1>9

LEMMA WorthStep ==
    ASSUME NEW w \in Seq(Nat)
    PROVE  /\ Worth(w)[0] = 0
           /\ \A i \in 1..Len(w) : Worth(w)[i] = 10 * Worth(w)[i - 1] + w[i]
           /\ \A i \in 0..Len(w) : Worth(w)[i] \in Nat
<1> DEFINE n == Len(w)
           G == [i \in 1..n |-> [x \in Nat |-> 10 * x + w[i]]]
<1>0. n \in Nat /\ \A i \in 1..n : w[i] \in Nat
  OBVIOUS
<1>1. G \in Steps(Nat, n)
  <2>1. \A i \in 1..n : \A x \in Nat : 10 * x + w[i] \in Nat
    BY <1>0
  <2> QED BY <2>1 DEF Steps
<1>2. PICK f : Takes(0, n, G, f) /\ \A i \in 0..n : f[i] \in Nat
  <2> HIDE DEF G, n
  <2>1. 0 \in Nat
    OBVIOUS
  <2> QED BY <1>0, <1>1, <2>1, Recursion
<1>3. \A i \in 1..n : G[i][f[i - 1]] = 10 * f[i - 1] + w[i]
  <2> TAKE i \in 1..n
  <2>1. i - 1 \in 0..n
    BY <1>0
  <2> QED BY <1>2, <2>1
<1> HIDE DEF G
<1>4. \A i \in 0..n : f[i] = IF i = 0 THEN 0 ELSE 10 * f[i - 1] + w[i]
  <2> TAKE i \in 0..n
  <2>1. i # 0 => i \in 1..n
    BY <1>0
  <2> QED BY <1>2, <1>3, <2>1 DEF Takes
<1>5. WorthOf(w, f)
  <2>1. f = [i \in 0..n |-> f[i]]
    BY <1>2 DEF Takes
  <2> QED BY <1>4, <2>1 DEF WorthOf
<1>6. WorthOf(w, Worth(w))
  BY <1>5 DEF Worth
<1>7. Worth(w)[0] = 0 /\ \A i \in 1..n : Worth(w)[i] = 10 * Worth(w)[i - 1] + w[i]
  <2> DEFINE h == Worth(w)
  <2>1. h = [i \in 0..n |-> IF i = 0 THEN 0 ELSE 10 * h[i - 1] + w[i]]
    BY <1>6 DEF WorthOf
  <2> HIDE DEF h
  <2>2. h[0] = 0
    BY <1>0, <2>1
  <2>3. ASSUME NEW i \in 1..n PROVE h[i] = 10 * h[i - 1] + w[i]
    <3>1. i \in 0..n /\ i # 0
      BY <1>0
    <3> QED BY <2>1, <3>1
  <2> QED BY <2>2, <2>3 DEF h
<1> DEFINE T == {i \in 0..n : Worth(w)[i] \in Nat}
<1>8. 0 \in T
  BY <1>0, <1>7
<1>9. ASSUME NEW i \in 1..n, i - 1 \in T PROVE i \in T
  <2>0. PICK x \in Nat : x = Worth(w)[i - 1]
    BY <1>9
  <2>1. Worth(w)[i] = 10 * x + w[i]
    BY <1>7, <2>0
  <2>2. w[i] \in Nat
    BY <1>0
  <2>3. Worth(w)[i] \in Nat
    BY <2>1, <2>2
  <2> QED BY <1>0, <2>3
<1>10. \A i \in 0..n : Worth(w)[i] \in Nat
  <2> HIDE DEF T
  <2>1. \A i \in 0..n : i \in T
    BY <1>0, <1>8, <1>9, Induction
  <2> QED BY <2>1 DEF T
<1> QED BY <1>7, <1>10

\* Digits that are not refused are read as what they are worth.
LEMMA DigitsAreExact ==
    ASSUME NEW w \in Seq(Digit)
    PROVE  /\ DigitsValue(w) \in Counts
           /\ DigitsValue(w) # Refused => DigitsValue(w) = Worth(w)[Len(w)]
<1> DEFINE n == Len(w)
           T == {i \in 0..n : Reading(w)[i] # Refused => Reading(w)[i] = Worth(w)[i]}
<1>0. n \in Nat /\ w \in Seq(Nat) /\ \A i \in 1..n : w[i] \in Digit
  BY DEF Digit
<1>1. 0 \in T
  BY <1>0, ReadingStep, WorthStep
<1>2. ASSUME NEW i \in 1..n, i - 1 \in T PROVE i \in T
  <2>1. i - 1 \in 0..n /\ i \in 0..n
    BY <1>0
  <2>2. PICK x \in Counts : x = Reading(w)[i - 1]
    BY <2>1, ReadingStep
  <2>3. Reading(w)[i] = IF x = Refused \/ 10 * x + w[i] > MaxDurationMillis
                        THEN Refused ELSE 10 * x + w[i]
    BY <1>0, <2>2, ReadingStep, OneDigit
  <2>4. Worth(w)[i] = 10 * Worth(w)[i - 1] + w[i]
    BY <1>0, WorthStep
  <2>5. x # Refused => x = Worth(w)[i - 1]
    BY <1>2, <2>2
  <2> QED BY <2>1, <2>3, <2>4, <2>5
<1>3. n \in T
  <2> HIDE DEF T
  <2>1. \A i \in 0..n : i \in T
    BY <1>0, <1>1, <1>2, Induction
  <2> QED BY <1>0, <2>1
<1>4. DigitsValue(w) = Reading(w)[n] /\ Reading(w)[n] \in Counts
  <2>1. n \in 0..n
    BY <1>0
  <2> QED BY <2>1, ReadingStep
<1> QED BY <1>3, <1>4

-----------------------------------------------------------------------------
(* Durations.                                                                *)

Part == [digits : Seq(Digit), fraction : {NULL} \union Seq(Digit), unit : DOMAIN Unit]
Fraction(part) == IF part.fraction = NULL THEN <<>> ELSE part.fraction
AllDigits(part) == part.digits \o Fraction(part)

\* A pair that is read is what was written: the digits, without their point, are
\* so many units of the last place.
LEMMA PartIsExact ==
    ASSUME NEW part \in Part
    PROVE  /\ PartMillis(part) \in Counts
           /\ PartMillis(part) # Refused =>
                PartMillis(part) * Pow10(Len(Fraction(part)))
                  = Worth(AllDigits(part))[Len(AllDigits(part))] * Unit[part.unit]
<1>1. /\ part.digits \in Seq(Digit) /\ Fraction(part) \in Seq(Digit)
      /\ part.unit \in DOMAIN Unit
  BY DEF Part, Fraction
<1>2. AllDigits(part) \in Seq(Digit) /\ Len(Fraction(part)) \in Nat
  BY <1>1 DEF AllDigits
<1>3. PICK v \in Counts : v = DigitsValue(AllDigits(part))
  BY <1>2, DigitsAreExact
<1>4. v # Refused => v = Worth(AllDigits(part))[Len(AllDigits(part))]
  BY <1>2, <1>3, DigitsAreExact
<1>5. PICK u \in 1..MaxDurationMillis : u = Unit[part.unit]
  BY <1>1, LimitFacts
<1>6. PICK p \in Counts : /\ p = MulChecked(v, u)
                          /\ p # Refused => v # Refused /\ p = v * u
  BY MulExact
<1>7. PICK s \in Nat \ {0} : s = Pow10(Len(Fraction(part)))
  <2>1. 10 \in Nat \ {0}
    OBVIOUS
  <2> QED BY <1>2, <2>1, PowerStep DEF Pow10
<1>8. Divided(p, s) \in Counts /\ (Divided(p, s) # Refused => Divided(p, s) * s = p)
  <2>1. CASE p = Refused \/ p % s # 0
    BY <2>1 DEF Divided, Counts
  <2>2. CASE p # Refused /\ p % s = 0
    <3>1. PICK m \in Nat : m = MaxDurationMillis
      BY LimitFacts
    <3>2. p \in 0..m
      BY <2>2, <3>1 DEF Counts
    <3>3. PICK d \in Nat : d = p \div s /\ p = d * s
      <4>1. p \div s \in Nat /\ p = (p \div s) * s + (p % s)
        BY <3>2
      <4>2. p = (p \div s) * s
        BY <2>2, <3>2, <4>1
      <4> QED BY <4>1, <4>2
    <3>4. d <= p
      <4>1. PICK t \in Nat : s = t + 1
        <5>1. s - 1 \in Nat /\ s = (s - 1) + 1
          OBVIOUS
        <5> QED BY <5>1
      <4>2. d * s = d * t + d /\ d * t \in Nat
        BY <4>1
      <4> QED BY <3>2, <3>3, <4>2
    <3>5. Divided(p, s) = d
      BY <2>2, <3>3 DEF Divided
    <3>6. d \in 0..m
      BY <3>2, <3>4
    <3>7. Divided(p, s) \in Counts
      BY <3>1, <3>5, <3>6 DEF Counts
    <3> QED BY <3>3, <3>5, <3>7
  <2> QED BY <2>1, <2>2
<1>9. PartMillis(part) = Refused \/ PartMillis(part) = Divided(p, s)
  BY <1>3, <1>5, <1>6, <1>7 DEF PartMillis, Fraction, AllDigits
<1>10. Refused \in Counts
  BY DEF Counts
<1>11. p = v * u => p = Worth(AllDigits(part))[Len(AllDigits(part))] * Unit[part.unit] \/ v = Refused
  BY <1>4, <1>5
<1>12. Divided(p, s) # Refused => p # Refused
  BY DEF Divided
<1> QED BY <1>6, <1>7, <1>8, <1>9, <1>10, <1>11, <1>12

Totals(w, t) ==
    t = [i \in 0..Len(w) |-> IF i = 0 THEN 0 ELSE AddChecked(t[i - 1], PartMillis(w[i]))]
Parsing(w) == CHOOSE t : Totals(w, t)

LEMMA ParsingStep ==
    ASSUME NEW w \in Seq(Part)
    PROVE  /\ ParseDuration(w) = NotZero(Parsing(w)[Len(w)]) /\ Parsing(w)[0] = 0
           /\ \A i \in 1..Len(w) : Parsing(w)[i] = AddChecked(Parsing(w)[i - 1], PartMillis(w[i]))
           /\ \A i \in 0..Len(w) : Parsing(w)[i] \in Counts
<1> DEFINE n == Len(w)
           G == [i \in 1..n |-> [x \in Counts |-> AddChecked(x, PartMillis(w[i]))]]
<1>0. n \in Nat /\ \A i \in 1..n : w[i] \in Part
  OBVIOUS
<1>a. \A i \in 1..n : \A x \in Counts : AddChecked(x, PartMillis(w[i])) \in Counts
  BY <1>0, PartIsExact, AddExact
<1>1. G \in Steps(Counts, n)
  BY <1>a DEF Steps
<1>2. PICK f : Takes(0, n, G, f) /\ \A i \in 0..n : f[i] \in Counts
  <2> HIDE DEF G, n
  <2>1. 0 \in Counts
    BY LimitFacts DEF Counts
  <2> QED BY <1>0, <1>1, <2>1, Recursion
<1>3. \A i \in 1..n : G[i][f[i - 1]] = AddChecked(f[i - 1], PartMillis(w[i]))
  <2> TAKE i \in 1..n
  <2>1. i - 1 \in 0..n
    BY <1>0
  <2> QED BY <1>2, <2>1
<1> HIDE DEF G
<1>4. \A i \in 0..n : f[i] = IF i = 0 THEN 0 ELSE AddChecked(f[i - 1], PartMillis(w[i]))
  <2> TAKE i \in 0..n
  <2>1. i # 0 => i \in 1..n
    BY <1>0
  <2> QED BY <1>2, <1>3, <2>1 DEF Takes
<1>5. Totals(w, f)
  <2>1. f = [i \in 0..n |-> f[i]]
    BY <1>2 DEF Takes
  <2> QED BY <1>4, <2>1 DEF Totals
<1>6. Totals(w, Parsing(w))
  BY <1>5 DEF Parsing
<1>7. /\ Parsing(w)[0] = 0
      /\ \A i \in 1..n : Parsing(w)[i] = AddChecked(Parsing(w)[i - 1], PartMillis(w[i]))
  BY <1>0, <1>6 DEF Totals
<1>8. ParseDuration(w) = NotZero(Parsing(w)[n])
  BY DEF ParseDuration, Parsing, Totals
<1>9. \A i \in 0..n : Parsing(w)[i] \in Counts
  <2> DEFINE T == {i \in 0..n : Parsing(w)[i] \in Counts}
  <2>1. 0 \in T
    BY <1>0, <1>7, LimitFacts DEF Counts
  <2>2. ASSUME NEW i \in 1..n, i - 1 \in T PROVE i \in T
    <3>1. Parsing(w)[i] \in Counts
      BY <1>a, <1>7, <2>2
    <3> QED BY <1>0, <3>1
  <2> HIDE DEF T
  <2>3. \A i \in 0..n : i \in T
    BY <1>0, <2>1, <2>2, Induction
  <2> QED BY <2>3 DEF T
<1> QED BY <1>7, <1>8, <1>9

\* A duration is refused, or some milliseconds that a machine can count in
\* nanoseconds.
LEMMA ParsedIsPositive ==
    ASSUME NEW w \in Seq(Part)
    PROVE  ParseDuration(w) \in {Refused} \union 1..MaxDurationMillis
<1>1. PICK m \in Nat : m = MaxDurationMillis
  BY LimitFacts
<1>2. Len(w) \in 0..Len(w)
  OBVIOUS
<1>3. PICK x \in Counts : ParseDuration(w) = NotZero(x)
  BY <1>2, ParsingStep
<1> QED BY <1>1, <1>3 DEF NotZero, Counts

LEMMA TenHundred == Pow10(0) = 1 /\ Pow10(1) = 10 /\ Pow10(2) = 100
<1>1. 10 \in Nat \ {0} /\ 0 \in Nat /\ 1 \in Nat /\ 0 + 1 = 1 /\ 1 + 1 = 2
  OBVIOUS
<1>2. Power(10, 0) = 1
  BY <1>1, PowerStep
<1>3. Power(10, 0 + 1) = 10 * Power(10, 0)
  BY <1>1, PowerStep
<1>4. Power(10, 1 + 1) = 10 * Power(10, 1)
  BY <1>1, PowerStep
<1> QED BY <1>1, <1>2, <1>3, <1>4 DEF Pow10

LEMMA ShortParts ==
    ASSUME NEW part \in Parts
    PROVE  part \in Part /\ Len(Fraction(part)) \in 0..2
<1>1. \A w \in Digits(2) : w \in Seq(Digit) /\ Len(w) \in 0..2
  <2> TAKE w \in Digits(2)
  <2>1. PICK i \in 1..2 : w \in [1..i -> {0, 1, 9}]
    BY DEF Digits
  <2>2. i \in Nat /\ DOMAIN w = 1..i /\ \A k \in 1..i : w[k] \in Digit
    BY <2>1 DEF Digit
  <2>3. w \in [1..i -> Digit]
    BY <2>1, <2>2
  <2>4. w \in Seq(Digit) /\ Len(w) = i
    BY <2>2, <2>3
  <2> QED BY <2>1, <2>4
<1>2. <<>> \in Seq(Digit) /\ Len(<<>>) = 0
  OBVIOUS
<1>3. /\ part.digits \in Digits(2) /\ part.fraction \in {NULL, <<>>} \union Digits(2)
      /\ part.unit \in DOMAIN Unit
      /\ part = [digits |-> part.digits, fraction |-> part.fraction, unit |-> part.unit]
  BY DEF Parts
<1>4. part.digits \in Seq(Digit) /\ part.fraction \in {NULL} \union Seq(Digit)
  BY <1>1, <1>2, <1>3
<1>5. part \in Part
  BY <1>3, <1>4 DEF Part
<1>6. Len(Fraction(part)) \in 0..2
  BY <1>1, <1>2, <1>3 DEF Fraction
<1> QED BY <1>5, <1>6

LEMMA HundredthsAreExact ==
    ASSUME NEW part \in Parts, PartMillis(part) # Refused
    PROVE  100 * PartMillis(part) = Hundredths(part)
<1>1. part \in Part /\ Len(Fraction(part)) \in 0..2
  BY ShortParts
<1>2. PICK l \in 0..2 : l = Len(Fraction(part))
  BY <1>1
<1>3. PICK x \in Nat : x = PartMillis(part)
  <2>1. PartMillis(part) \in 0..MaxDurationMillis /\ MaxDurationMillis \in Nat
    BY <1>1, PartIsExact, LimitFacts DEF Counts
  <2> QED BY <2>1
<1>4. PICK v \in Nat, u \in Nat :
         /\ v = Worth(AllDigits(part))[Len(AllDigits(part))] /\ u = Unit[part.unit]
         /\ x * Pow10(l) = v * u
  <2>1. part.digits \in Seq(Digit) /\ Fraction(part) \in Seq(Digit) /\ part.unit \in DOMAIN Unit
    BY <1>1 DEF Part, Fraction
  <2>2. AllDigits(part) \in Seq(Nat) /\ Len(AllDigits(part)) \in 0..Len(AllDigits(part))
    BY <2>1 DEF AllDigits, Digit
  <2>3. Worth(AllDigits(part))[Len(AllDigits(part))] \in Nat
    BY <2>2, WorthStep
  <2>4. Unit[part.unit] \in Nat
    <3>1. Unit[part.unit] \in 1..MaxDurationMillis /\ MaxDurationMillis \in Nat
      BY <2>1, LimitFacts
    <3> QED BY <3>1
  <2> QED BY <1>1, <1>2, <1>3, <2>3, <2>4, PartIsExact
<1>5. Hundredths(part) = v * u * Pow10(2 - l)
  <2>1. Hundredths(part) = Worth(AllDigits(part))[Len(AllDigits(part))] * Unit[part.unit]
                             * Pow10(2 - Len(Fraction(part)))
    BY DEF Hundredths, AllDigits, Fraction, Worth, WorthOf
  <2> QED BY <1>2, <1>4, <2>1
<1>6. PICK w \in Nat : w = v * u
  OBVIOUS
<1>7. CASE l = 0
  <2>1. x * 1 = w /\ Hundredths(part) = w * 100
    BY <1>4, <1>5, <1>6, <1>7, TenHundred
  <2> QED BY <1>3, <2>1
<1>8. CASE l = 1
  <2>1. x * 10 = w /\ Hundredths(part) = w * 10
    BY <1>4, <1>5, <1>6, <1>8, TenHundred
  <2> QED BY <1>3, <2>1
<1>9. CASE l = 2
  <2>1. x * 100 = w /\ Hundredths(part) = w * 1
    BY <1>4, <1>5, <1>6, <1>9, TenHundred
  <2> QED BY <1>3, <2>1
<1> QED BY <1>7, <1>8, <1>9

\* Milliseconds that are counted are nanoseconds that are.
LEMMA MillisInNanos ==
    ASSUME NEW s \in 0..MaxDurationMillis
    PROVE  s * NanosPerMilli < Limit
<1>1. PICK m \in Nat, n \in Nat, l \in Nat :
         m = MaxDurationMillis /\ n = NanosPerMilli /\ l = Limit /\ m * n < l - 1
  BY LimitFacts, JobSpecAssumption
<1>2. PICK d \in Nat : m = s + d
  <2>1. m - s \in Nat /\ m = s + (m - s)
    BY <1>1
  <2> QED BY <2>1
<1>3. m * n = s * n + d * n /\ d * n \in Nat /\ s * n \in Nat
  BY <1>1, <1>2
<1> QED BY <1>1, <1>3

LEMMA PairsAreExact ==
    ASSUME NEW p \in Parts, NEW q \in Parts, ParseDuration(<<p, q>>) # Refused
    PROVE  /\ 100 * ParseDuration(<<p, q>>) = Hundredths(p) + Hundredths(q)
           /\ ParseDuration(<<p, q>>) * NanosPerMilli < Limit
<1> DEFINE w == <<p, q>>
<1>1. p \in Part /\ q \in Part
  BY ShortParts
<1>2. w \in Seq(Part) /\ Len(w) = 2 /\ w[1] = p /\ w[2] = q
  BY <1>1
<1> HIDE DEF w
<1>3. /\ ParseDuration(w) = NotZero(Parsing(w)[2]) /\ Parsing(w)[0] = 0
      /\ \A i \in 1..2 : Parsing(w)[i] = AddChecked(Parsing(w)[i - 1], PartMillis(w[i]))
      /\ \A i \in 0..2 : Parsing(w)[i] \in Counts
  BY <1>2, ParsingStep
<1>4. PICK t \in Counts, s \in Counts, x \in Counts, y \in Counts, z \in Counts :
         /\ z = 0 /\ t = AddChecked(z, x) /\ s = AddChecked(t, y)
         /\ x = PartMillis(p) /\ y = PartMillis(q) /\ s = Parsing(w)[2]
  <2>1. Parsing(w)[1] = AddChecked(Parsing(w)[0], PartMillis(p))
    <3>1. 1 \in 1..2 /\ 1 - 1 = 0
      OBVIOUS
    <3> QED BY <1>2, <1>3, <3>1
  <2>2. Parsing(w)[2] = AddChecked(Parsing(w)[1], PartMillis(q))
    <3>1. 2 \in 1..2 /\ 2 - 1 = 1
      OBVIOUS
    <3> QED BY <1>2, <1>3, <3>1
  <2>3. 0 \in Counts
    BY LimitFacts DEF Counts
  <2>4. PartMillis(p) \in Counts /\ PartMillis(q) \in Counts
    BY <1>1, PartIsExact
  <2> QED BY <1>3, <2>1, <2>2, <2>3, <2>4
<1>5. s # Refused /\ s # 0 /\ ParseDuration(w) = s
  <2>1. NotZero(s) # Refused /\ NotZero(s) = ParseDuration(w)
    BY <1>3, <1>4 DEF w
  <2> QED BY <2>1 DEF NotZero
<1>6. PICK m \in Nat : m = MaxDurationMillis
  BY LimitFacts
<1>7. t = (IF z = Refused \/ x = Refused \/ z + x > m THEN Refused ELSE z + x)
      /\ s = (IF t = Refused \/ y = Refused \/ t + y > m THEN Refused ELSE t + y)
  BY <1>4, <1>6, AddExact
<1>8. t # Refused /\ y # Refused /\ s = t + y
  BY <1>5, <1>7
<1>9. x # Refused /\ t = z + x
  BY <1>7, <1>8
<1>10. x \in Nat /\ y \in Nat /\ s = x + y /\ s <= m
  BY <1>4, <1>5, <1>6, <1>8, <1>9 DEF Counts
<1>11. 100 * x = Hundredths(p) /\ 100 * y = Hundredths(q)
  BY <1>4, <1>8, <1>9, HundredthsAreExact
<1>12. 100 * s = Hundredths(p) + Hundredths(q)
  BY <1>10, <1>11
<1>13. s * NanosPerMilli < Limit
  <2>1. s \in 0..MaxDurationMillis
    BY <1>6, <1>10
  <2> QED BY <2>1, MillisInNanos
<1> QED BY <1>5, <1>12, <1>13 DEF w
-----------------------------------------------------------------------------
(* What is written reads back.                                               *)

\* Dividing by ten times a number is dividing by it, then by ten.
LEMMA DivideTwice ==
    ASSUME NEW n \in Nat, NEW b \in Nat \ {0}
    PROVE  n \div (10 * b) = (n \div b) \div 10
<1>1. PICK y \in Nat, r \in Nat : y = n \div b /\ n = b * y + r /\ r < b
  <2>1. n \div b \in Nat /\ n % b \in Nat /\ n = b * (n \div b) + (n % b) /\ n % b < b
    OBVIOUS
  <2> QED BY <2>1
<1>2. PICK q \in Nat, s \in 0..9 : q = y \div 10 /\ y = 10 * q + s
  <2>1. y \div 10 \in Nat /\ y % 10 \in 0..9 /\ y = 10 * (y \div 10) + (y % 10)
    OBVIOUS
  <2> QED BY <2>1
<1>3. b * y = (10 * b) * q + b * s
  BY <1>2
<1>4. PICK t \in Nat : t = b * s + r /\ t < 10 * b
  <2>1. b * s \in Nat /\ b * s <= 9 * b
    BY <1>2
  <2> QED BY <1>1, <2>1
<1>5. PICK d \in Nat \ {0} : d = 10 * b
  OBVIOUS
<1>6. n = d * q + t /\ t < d
  <2>1. b * y \in Nat /\ b * s \in Nat
    BY <1>1, <1>2
  <2> QED BY <1>1, <1>3, <1>4, <1>5, <2>1
<1>7. n \div d = q
  BY <1>6
<1> QED BY <1>1, <1>2, <1>5, <1>7

\* As many digits as a count has, and no more.
DigitCount(n) == CHOOSE w \in 1..(n + 1) : Pow10(w) > n /\ (w = 1 \/ Pow10(w - 1) <= n)

LEMMA DigitCountExists ==
    ASSUME NEW n \in Nat
    PROVE  DigitCount(n) \in 1..(n + 1) /\ Pow10(DigitCount(n)) > n
<1>0. 10 \in Nat \ {0}
  OBVIOUS
<1>1. \A k \in Nat : Pow10(k) \in Nat \ {0} /\ Pow10(k + 1) = 10 * Pow10(k)
  BY <1>0, PowerStep DEF Pow10
<1>2. Pow10(n + 1) > n
  <2> DEFINE T == {k \in 0..n + 1 : Pow10(k) > k}
  <2>1. 0 \in T
    BY TenHundred
  <2>2. ASSUME NEW k \in 1..n + 1, k - 1 \in T PROVE k \in T
    <3>1. PICK j \in Nat : j = k - 1 /\ j + 1 = k
      OBVIOUS
    <3>2. PICK a \in Nat, b \in Nat : a = Pow10(j) /\ b = Pow10(k) /\ b = 10 * a
      BY <1>1, <3>1
    <3>3. a > j
      BY <2>2, <3>1, <3>2
    <3>4. b > k
      BY <3>1, <3>2, <3>3
    <3>5. k \in 0..n + 1
      OBVIOUS
    <3> QED BY <3>2, <3>4, <3>5
  <2>3. \A k \in 0..n + 1 : k \in T
    <3> HIDE DEF T
    <3>1. n + 1 \in Nat
      OBVIOUS
    <3> QED BY <2>1, <2>2, <3>1, Induction
  <2>4. n + 1 \in 0..n + 1
    OBVIOUS
  <2>5. n + 1 \in T
    BY <2>3, <2>4
  <2>6. PICK a \in Nat : a = Pow10(n + 1)
    <3>1. n + 1 \in Nat
      OBVIOUS
    <3> QED BY <1>1, <3>1
  <2>7. a > n + 1
    BY <2>5, <2>6
  <2>8. a > n
    BY <2>7
  <2> QED BY <2>6, <2>8
<1>3. PICK w \in 1..(n + 1) : Pow10(w) > n /\ \A v \in 1..(n + 1) : Pow10(v) > n => w <= v
  <2> DEFINE T == {k \in 1..(n + 1) : Pow10(k) > n}
  <2>1. T \subseteq Nat /\ T # {}
    BY <1>2
  <2> HIDE DEF T
  <2>2. PICK w \in T : \A v \in T : w <= v
    BY <2>1, LeastNatural
  <2> QED BY <2>2 DEF T
<1>4. w = 1 \/ Pow10(w - 1) <= n
  <2> SUFFICES ASSUME w # 1, ~(Pow10(w - 1) <= n) PROVE FALSE
    OBVIOUS
  <2>1. PICK v \in 1..(n + 1) : v = w - 1
    OBVIOUS
  <2>2. Pow10(v) \in Nat
    BY <1>1
  <2>3. Pow10(v) > n
    BY <2>1, <2>2
  <2> QED BY <1>3, <2>1, <2>3
<1> QED BY <1>3, <1>4 DEF DigitCount

\* A count is written so that it reads back.
LEMMA DecimalReads ==
    ASSUME NEW n \in 0..MaxDurationMillis
    PROVE  Decimal(n) \in Seq(Digit) /\ Decimal(n) # <<>> /\ DigitsValue(Decimal(n)) = n
<1>0. PICK m \in Nat : m = MaxDurationMillis /\ n \in Nat /\ n <= m
  BY LimitFacts
<1>1. PICK w \in 1..(n + 1) : w = DigitCount(n) /\ Pow10(w) > n
  BY <1>0, DigitCountExists
<1>2. w \in Nat \ {0}
  BY <1>0, <1>1
<1> DEFINE D == [i \in 1..w |-> (n \div Pow10(w - i)) % 10]
           R == Reading(D)
           T == {i \in 0..w : R[i] = n \div Pow10(w - i)}
<1>3. Decimal(n) = D
  BY <1>1 DEF Decimal, DigitCount
<1>4. \A k \in Nat : Pow10(k) \in Nat \ {0} /\ Pow10(k + 1) = 10 * Pow10(k)
  <2>1. 10 \in Nat \ {0}
    OBVIOUS
  <2> QED BY <2>1, PowerStep DEF Pow10
<1>5. \A i \in 0..w : /\ w - i \in Nat /\ Pow10(w - i) \in Nat \ {0}
                      /\ n \div Pow10(w - i) \in Nat
  <2> TAKE i \in 0..w
  <2>1. w - i \in Nat
    BY <1>2
  <2>2. PICK p \in Nat \ {0} : p = Pow10(w - i)
    BY <1>4, <2>1
  <2>3. n \div p \in Nat
    BY <1>0
  <2> QED BY <2>1, <2>2, <2>3
<1>6. \A i \in 1..w : (n \div Pow10(w - i)) % 10 \in Digit
  <2> TAKE i \in 1..w
  <2>1. PICK y \in Nat : y = n \div Pow10(w - i)
    BY <1>2, <1>5
  <2>2. y % 10 \in 0..9
    OBVIOUS
  <2> QED BY <2>1, <2>2 DEF Digit
<1>7. D \in Seq(Digit) /\ Len(D) = w /\ \A i \in 1..w : D[i] = (n \div Pow10(w - i)) % 10
  <2>1. D \in [1..w -> Digit]
    BY <1>6
  <2> QED BY <1>2, <2>1
<1> HIDE DEF D
<1>8. /\ DigitsValue(D) = R[w] /\ R[0] = 0
      /\ \A i \in 1..w : R[i] = AddChecked(MulChecked(R[i - 1], 10), D[i])
  BY <1>7, ReadingStep
<1>9. 0 \in T
  <2>1. PICK p \in Nat \ {0} : p = Pow10(w) /\ n < p
    BY <1>1, <1>2, <1>4
  <2>2. n \div p = 0
    BY <1>0, <2>1
  <2> QED BY <1>2, <1>8, <2>1, <2>2
<1>10. ASSUME NEW i \in 1..w, i - 1 \in T PROVE i \in T
  <2>1. PICK b \in Nat \ {0} : b = Pow10(w - i) /\ 10 * b = Pow10(w - (i - 1))
    <3>1. PICK k \in Nat : k = w - i /\ k + 1 = w - (i - 1)
      BY <1>2
    <3> QED BY <1>4, <3>1
  <2>2. PICK y \in Nat : y = n \div b /\ y <= n
    <3>1. n \div b \in Nat /\ n \div b <= n
      <4>1. n \div b \in Nat /\ n % b \in Nat /\ n = b * (n \div b) + (n % b)
        BY <1>0
      <4>2. PICK c \in Nat : b = c + 1
        <5>1. b - 1 \in Nat /\ b = (b - 1) + 1
          OBVIOUS
        <5> QED BY <5>1
      <4>3. PICK z \in Nat : z = n \div b
        BY <4>1
      <4>4. b * z = c * z + z /\ c * z \in Nat
        BY <4>2
      <4> QED BY <1>0, <4>1, <4>3, <4>4
    <3> QED BY <3>1
  <2>3. PICK q \in Nat, s \in Digit : q = y \div 10 /\ s = y % 10 /\ y = 10 * q + s
    <3>1. y \div 10 \in Nat /\ y % 10 \in 0..9 /\ y = 10 * (y \div 10) + (y % 10)
      OBVIOUS
    <3> QED BY <3>1 DEF Digit
  <2>4. R[i - 1] = q
    <3>1. R[i - 1] = n \div (10 * b)
      BY <1>10, <2>1
    <3> QED BY <1>0, <2>2, <2>3, <3>1, DivideTwice
  <2>5. D[i] = s
    BY <1>7, <2>1, <2>2, <2>3
  <2>6. q \in Counts /\ 10 * q + s <= m /\ q # Refused
    <3>1. q \in 0..m
      BY <1>0, <2>2, <2>3 DEF Digit
    <3> QED BY <1>0, <2>2, <2>3, <3>1 DEF Counts, Refused
  <2>7. AddChecked(MulChecked(q, 10), s) = y
    <3>1. s \in Nat
      BY DEF Digit
    <3>2. ~(10 * q + s > m)
      BY <2>6, <3>1
    <3> QED BY <1>0, <2>3, <2>6, <3>2, OneDigit
  <2>8. R[i] = y
    BY <1>8, <2>4, <2>5, <2>7
  <2>9. i \in 0..w
    BY <1>2
  <2> QED BY <2>1, <2>2, <2>8, <2>9
<1>11. R[w] = n
  <2> HIDE DEF T
  <2>1. \A i \in 0..w : i \in T
    BY <1>2, <1>9, <1>10, Induction
  <2>2. w \in 0..w /\ w - w = 0
    BY <1>2
  <2>3. R[w] = n \div Pow10(0)
    BY <2>1, <2>2 DEF T
  <2>4. n \div 1 = n
    BY <1>0
  <2> QED BY <2>3, <2>4, TenHundred
<1>12. D # <<>>
  BY <1>2, <1>7
<1> QED BY <1>3, <1>7, <1>8, <1>11, <1>12
\* A part more adds its milliseconds, or is too long.
LEMMA OnePartMore ==
    ASSUME NEW w \in Seq(Part), NEW p \in Part
    PROVE  Parsing(w \o <<p>>)[Len(w) + 1] = AddChecked(Parsing(w)[Len(w)], PartMillis(p))
<1> DEFINE n == Len(w)
           x == w \o <<p>>
           T == {i \in 0..n : Parsing(x)[i] = Parsing(w)[i]}
<1>1. n \in Nat /\ x \in Seq(Part) /\ Len(x) = n + 1 /\ x[n + 1] = p
  OBVIOUS
<1>2. \A i \in 1..n : x[i] = w[i]
  OBVIOUS
<1> HIDE DEF x
<1>3. 0 \in T
  BY <1>1, ParsingStep
<1>4. ASSUME NEW i \in 1..n, i - 1 \in T PROVE i \in T
  <2>1. Parsing(x)[i] = AddChecked(Parsing(x)[i - 1], PartMillis(x[i]))
    <3>1. i \in 1..Len(x)
      BY <1>1
    <3> QED BY <1>1, <3>1, ParsingStep
  <2>2. Parsing(w)[i] = AddChecked(Parsing(w)[i - 1], PartMillis(w[i]))
    BY ParsingStep
  <2>3. i \in 0..n
    BY <1>1
  <2> QED BY <1>2, <1>4, <2>1, <2>2, <2>3
<1>5. n \in T
  <2> HIDE DEF T
  <2>1. \A i \in 0..n : i \in T
    BY <1>1, <1>3, <1>4, Induction
  <2> QED BY <1>1, <2>1
<1>6. Parsing(x)[n + 1] = AddChecked(Parsing(x)[n + 1 - 1], PartMillis(p))
  <2>1. n + 1 \in 1..Len(x)
    BY <1>1
  <2> QED BY <1>1, <2>1, ParsingStep
<1>7. n + 1 - 1 = n
  BY <1>1
<1> QED BY <1>5, <1>6, <1>7 DEF x

\* A whole number of a unit is read as so many times the unit.
WholePart(n, u) == [digits |-> Decimal(n), fraction |-> NULL, unit |-> u]

LEMMA WholePartReads ==
    ASSUME NEW n \in 0..MaxDurationMillis, NEW u \in DOMAIN Unit,
           n * Unit[u] <= MaxDurationMillis
    PROVE  WholePart(n, u) \in Part /\ PartMillis(WholePart(n, u)) = n * Unit[u]
<1>0. PICK m \in Nat : m = MaxDurationMillis /\ n \in Nat /\ n <= m
  BY LimitFacts
<1>1. Decimal(n) \in Seq(Digit) /\ Decimal(n) # <<>> /\ DigitsValue(Decimal(n)) = n
  BY DecimalReads
<1>2. WholePart(n, u) \in Part
  BY <1>1 DEF WholePart, Part
<1>3. PICK d \in Seq(Digit) : d = Decimal(n)
  BY <1>1
<1>4. d \o <<>> = d /\ Len(<<>>) = 0
  OBVIOUS
<1>5. ~(Len(<<>>) > MaxFraction)
  BY <1>4, JobSpecAssumption
<1>6. PICK v \in 1..MaxDurationMillis : v = Unit[u]
  BY LimitFacts
<1>7. v \in Nat
  BY <1>0
<1>8. PICK x \in Nat : x = n * v /\ x <= m
  BY <1>0, <1>6, <1>7
<1>9. MulChecked(n, v) = x
  <2>1. n \in Counts /\ n # Refused
    BY <1>0 DEF Counts, Refused
  <2> QED BY <1>0, <1>8, <2>1, MulExact
<1>10. Divided(x, Pow10(Len(<<>>))) = x
  <2>1. x # Refused /\ x % 1 = 0 /\ x \div 1 = x
    BY DEF Refused
  <2> QED BY <1>4, <2>1, TenHundred DEF Divided
<1>11. PartMillis(WholePart(n, u)) = Divided(MulChecked(DigitsValue(d \o <<>>), Unit[u]), Pow10(Len(<<>>)))
  <2>1. /\ WholePart(n, u).digits = d /\ WholePart(n, u).fraction = NULL
        /\ WholePart(n, u).unit = u
    BY <1>3 DEF WholePart
  <2>2. d # <<>>
    BY <1>1, <1>3
  <2>3. NULL # <<>>
    BY DocumentsAssumption
  <2> QED BY <1>5, <2>1, <2>2, <2>3 DEF PartMillis
<1> QED BY <1>1, <1>2, <1>3, <1>4, <1>6, <1>8, <1>9, <1>10, <1>11
\* What FormatDuration has left after each unit, and what it has written.
Remains(m, f) ==
    f = [i \in 0..Len(UnitOrder) |-> IF i = 0 THEN m ELSE f[i - 1] % Unit[UnitOrder[i]]]
Left(m) == CHOOSE f : Remains(m, f)
Times(m, i) == Left(m)[i - 1] \div Unit[UnitOrder[i]]
NextPart(m, i) ==
    IF Times(m, i) > 0 THEN <<WholePart(Times(m, i), UnitOrder[i])>> ELSE <<>>
Writes(m, f) ==
    f = [i \in 0..Len(UnitOrder) |-> IF i = 0 THEN <<>> ELSE f[i - 1] \o NextPart(m, i)]
Listed(m) == CHOOSE f : Writes(m, f)

LEMMA OrderFacts ==
    /\ Len(UnitOrder) \in Nat \ {0} /\ MaxDurationMillis \in Nat
    /\ \A i \in 1..Len(UnitOrder) :
          /\ UnitOrder[i] \in DOMAIN Unit
          /\ Unit[UnitOrder[i]] \in Nat \ {0} /\ Unit[UnitOrder[i]] \in 1..MaxDurationMillis
    /\ Unit[UnitOrder[Len(UnitOrder)]] = 1
<1>1. /\ UnitOrder \in Seq(DOMAIN Unit) /\ UnitOrder # <<>>
      /\ \A u \in DOMAIN Unit : Unit[u] \in 1..MaxDurationMillis
      /\ Unit[UnitOrder[Len(UnitOrder)]] = 1
  BY JobSpecAssumption
<1>2. PICK m \in Nat : m = MaxDurationMillis
  BY LimitFacts
<1>3. Len(UnitOrder) \in Nat \ {0} /\ \A i \in 1..Len(UnitOrder) : UnitOrder[i] \in DOMAIN Unit
  BY <1>1
<1>4. \A u \in DOMAIN Unit : Unit[u] \in Nat \ {0} /\ Unit[u] \in 1..m
  BY <1>1, <1>2
<1> QED BY <1>1, <1>2, <1>3, <1>4

LEMMA LeftStep ==
    ASSUME NEW m \in Nat
    PROVE  /\ Left(m)[0] = m
           /\ \A i \in 1..Len(UnitOrder) : Left(m)[i] = Left(m)[i - 1] % Unit[UnitOrder[i]]
           /\ \A i \in 0..Len(UnitOrder) : Left(m)[i] \in 0..m
<1> DEFINE n == Len(UnitOrder)
           G == [i \in 1..n |-> [x \in 0..m |-> x % Unit[UnitOrder[i]]]]
<1>0. n \in Nat /\ \A i \in 1..n : Unit[UnitOrder[i]] \in Nat \ {0}
  BY OrderFacts
<1>a. \A i \in 1..n : \A x \in 0..m : x % Unit[UnitOrder[i]] \in 0..m
  <2> TAKE i \in 1..n
  <2> TAKE x \in 0..m
  <2>1. PICK u \in Nat \ {0} : u = Unit[UnitOrder[i]]
    BY <1>0
  <2>2. x % u \in Nat /\ x % u <= x
    <3>1. PICK q \in Nat, r \in Nat : r = x % u /\ q = x \div u /\ x = u * q + r
      <4>1. x % u \in Nat /\ x \div u \in Nat /\ x = u * (x \div u) + (x % u)
        OBVIOUS
      <4> QED BY <4>1
    <3>2. u * q \in Nat
      OBVIOUS
    <3> QED BY <3>1, <3>2
  <2> QED BY <2>1, <2>2
<1>1. G \in Steps(0..m, n)
  BY <1>a DEF Steps
<1>2. PICK f : Takes(m, n, G, f) /\ \A i \in 0..n : f[i] \in 0..m
  <2> HIDE DEF G, n
  <2>1. m \in 0..m
    OBVIOUS
  <2> QED BY <1>0, <1>1, <2>1, Recursion
<1>3. \A i \in 1..n : G[i][f[i - 1]] = f[i - 1] % Unit[UnitOrder[i]]
  <2> TAKE i \in 1..n
  <2>1. i - 1 \in 0..n
    BY <1>0
  <2> QED BY <1>2, <2>1
<1> HIDE DEF G
<1>4. \A i \in 0..n : f[i] = IF i = 0 THEN m ELSE f[i - 1] % Unit[UnitOrder[i]]
  <2> TAKE i \in 0..n
  <2>1. i # 0 => i \in 1..n
    BY <1>0
  <2> QED BY <1>2, <1>3, <2>1 DEF Takes
<1>5. Remains(m, f)
  <2>1. f = [i \in 0..n |-> f[i]]
    BY <1>2 DEF Takes
  <2> QED BY <1>4, <2>1 DEF Remains
<1>6. Remains(m, Left(m))
  BY <1>5 DEF Left
<1>7. /\ Left(m)[0] = m
      /\ \A i \in 1..n : Left(m)[i] = Left(m)[i - 1] % Unit[UnitOrder[i]]
  BY <1>0, <1>6 DEF Remains
<1>8. \A i \in 0..n : Left(m)[i] \in 0..m
  <2> DEFINE T == {i \in 0..n : Left(m)[i] \in 0..m}
  <2>1. 0 \in T
    BY <1>0, <1>7
  <2>2. ASSUME NEW i \in 1..n, i - 1 \in T PROVE i \in T
    <3>1. Left(m)[i] \in 0..m
      BY <1>a, <1>7, <2>2
    <3> QED BY <1>0, <3>1
  <2> HIDE DEF T
  <2>3. \A i \in 0..n : i \in T
    BY <1>0, <2>1, <2>2, Induction
  <2> QED BY <2>3 DEF T
<1> QED BY <1>7, <1>8

\* The times a unit fits, and what they leave.
LEMMA TimesFit ==
    ASSUME NEW m \in 0..MaxDurationMillis, NEW i \in 1..Len(UnitOrder)
    PROVE  /\ Times(m, i) \in 0..MaxDurationMillis
           /\ Left(m)[i - 1] = Times(m, i) * Unit[UnitOrder[i]] + Left(m)[i]
           /\ Times(m, i) * Unit[UnitOrder[i]] \in 0..MaxDurationMillis
<1>0. PICK M \in Nat : M = MaxDurationMillis /\ m \in Nat /\ m <= M
  BY OrderFacts
<1>1. PICK u \in Nat \ {0} : u = Unit[UnitOrder[i]]
  BY OrderFacts
<1>2. PICK x \in 0..m, y \in 0..m : x = Left(m)[i - 1] /\ y = Left(m)[i] /\ y = x % u
  <2>1. i - 1 \in 0..Len(UnitOrder) /\ i \in 0..Len(UnitOrder)
    BY OrderFacts
  <2>2. Left(m)[i - 1] \in 0..m /\ Left(m)[i] \in 0..m
    BY <1>0, <2>1, LeftStep
  <2>3. Left(m)[i] = Left(m)[i - 1] % u
    BY <1>0, <1>1, LeftStep
  <2> QED BY <2>2, <2>3
<1>3. PICK c \in Nat : c = x \div u /\ x = c * u + y
  <2>1. x \div u \in Nat /\ x = (x \div u) * u + (x % u)
    BY <1>0
  <2> QED BY <1>2, <2>1
<1>4. Times(m, i) = c
  BY <1>1, <1>2, <1>3 DEF Times
<1>5. PICK d \in Nat : d = c * u
  BY <1>1
<1>6. c <= d
  <2>1. PICK v \in Nat : u = v + 1
    <3>1. u - 1 \in Nat /\ u = (u - 1) + 1
      BY <1>1
    <3> QED BY <3>1
  <2>2. d = c * v + c /\ c * v \in Nat
    BY <1>5, <2>1
  <2> QED BY <1>3, <2>2
<1>7. d <= M /\ c <= M
  <2>1. x = d + y
    BY <1>3, <1>5
  <2>2. d <= x /\ x <= m
    BY <1>2, <2>1
  <2> QED BY <1>0, <1>2, <1>6, <2>2
<1>8. c \in 0..M /\ d \in 0..M
  BY <1>7
<1> QED BY <1>0, <1>1, <1>2, <1>3, <1>4, <1>5, <1>8
LEMMA NextPartIsParts ==
    ASSUME NEW m \in 0..MaxDurationMillis, NEW i \in 1..Len(UnitOrder)
    PROVE  NextPart(m, i) \in Seq(Part)
<1>1. WholePart(Times(m, i), UnitOrder[i]) \in Part
  <2>1. /\ Times(m, i) \in 0..MaxDurationMillis /\ UnitOrder[i] \in DOMAIN Unit
        /\ Times(m, i) * Unit[UnitOrder[i]] \in 0..MaxDurationMillis
        /\ MaxDurationMillis \in Nat
    BY TimesFit, OrderFacts
  <2>2. Times(m, i) * Unit[UnitOrder[i]] <= MaxDurationMillis
    BY <2>1
  <2> QED BY <2>1, <2>2, WholePartReads
<1> QED BY <1>1 DEF NextPart

LEMMA ListedStep ==
    ASSUME NEW m \in 0..MaxDurationMillis
    PROVE  /\ FormatDuration(m) = Listed(m)[Len(UnitOrder)] /\ Listed(m)[0] = <<>>
           /\ \A i \in 1..Len(UnitOrder) : Listed(m)[i] = Listed(m)[i - 1] \o NextPart(m, i)
           /\ \A i \in 0..Len(UnitOrder) : Listed(m)[i] \in Seq(Part)
<1> DEFINE n == Len(UnitOrder)
           G == [i \in 1..n |-> [x \in Seq(Part) |-> x \o NextPart(m, i)]]
<1>0. n \in Nat
  BY OrderFacts
<1>a. \A i \in 1..n : \A x \in Seq(Part) : x \o NextPart(m, i) \in Seq(Part)
  BY NextPartIsParts
<1>1. G \in Steps(Seq(Part), n)
  BY <1>a DEF Steps
<1>2. PICK f : Takes(<<>>, n, G, f) /\ \A i \in 0..n : f[i] \in Seq(Part)
  <2> HIDE DEF G, n
  <2>1. <<>> \in Seq(Part)
    OBVIOUS
  <2> QED BY <1>0, <1>1, <2>1, Recursion
<1>3. \A i \in 1..n : G[i][f[i - 1]] = f[i - 1] \o NextPart(m, i)
  <2> TAKE i \in 1..n
  <2>1. i - 1 \in 0..n
    BY <1>0
  <2> QED BY <1>2, <2>1
<1> HIDE DEF G
<1>4. \A i \in 0..n : f[i] = IF i = 0 THEN <<>> ELSE f[i - 1] \o NextPart(m, i)
  <2> TAKE i \in 0..n
  <2>1. i # 0 => i \in 1..n
    BY <1>0
  <2> QED BY <1>2, <1>3, <2>1 DEF Takes
<1>5. Writes(m, f)
  <2>1. f = [i \in 0..n |-> f[i]]
    BY <1>2 DEF Takes
  <2> QED BY <1>4, <2>1 DEF Writes
<1>6. Writes(m, Listed(m))
  BY <1>5 DEF Listed
<1>7. /\ Listed(m)[0] = <<>>
      /\ \A i \in 1..n : Listed(m)[i] = Listed(m)[i - 1] \o NextPart(m, i)
  <2> DEFINE F == Listed(m)
  <2>1. F = [i \in 0..n |-> IF i = 0 THEN <<>> ELSE F[i - 1] \o NextPart(m, i)]
    BY <1>6, Zenon DEF Writes
  <2> HIDE DEF F
  <2>2. 0 \in 0..n /\ \A i \in 1..n : i \in 0..n /\ i # 0
    BY <1>0
  <2>3. F[0] = <<>>
    BY <2>1, <2>2, Zenon
  <2>4. ASSUME NEW i \in 1..n PROVE F[i] = F[i - 1] \o NextPart(m, i)
    BY <2>1, <2>2, Zenon
  <2> QED BY <2>3, <2>4 DEF F
<1>8. FormatDuration(m) = Listed(m)[n]
  BY DEF FormatDuration, Listed, Writes, NextPart, WholePart, Times, Left, Remains
<1>9. \A i \in 0..n : Listed(m)[i] \in Seq(Part)
  <2> DEFINE T == {i \in 0..n : Listed(m)[i] \in Seq(Part)}
  <2>1. 0 \in T
    <3>1. <<>> \in Seq(Part) /\ 0 \in 0..n
      BY <1>0
    <3> QED BY <1>7, <3>1
  <2>2. ASSUME NEW i \in 1..n, i - 1 \in T PROVE i \in T
    <3>1. Listed(m)[i] \in Seq(Part)
      BY <1>a, <1>7, <2>2
    <3> QED BY <1>0, <3>1
  <2> HIDE DEF T
  <2>3. \A i \in 0..n : i \in T
    BY <1>0, <2>1, <2>2, Induction
  <2> QED BY <2>3 DEF T
<1> QED BY <1>7, <1>8, <1>9

\* What a list of parts adds up to.
Total(w) == Parsing(w)[Len(w)]

\* What has been written and what is left make the duration.
LEMMA WrittenAndLeft ==
    ASSUME NEW m \in 0..MaxDurationMillis, NEW i \in 0..Len(UnitOrder)
    PROVE  /\ Total(Listed(m)[i]) \in 0..m /\ Left(m)[i] \in 0..m
           /\ Total(Listed(m)[i]) + Left(m)[i] = m
<1> DEFINE n == Len(UnitOrder)
           T == {k \in 0..n : /\ Total(Listed(m)[k]) \in 0..m
                              /\ Total(Listed(m)[k]) + Left(m)[k] = m}
<1>0. PICK M \in Nat : M = MaxDurationMillis /\ m \in Nat /\ m <= M
  BY OrderFacts
<1>1. n \in Nat
  BY OrderFacts
<1>2. \A k \in 0..n : Left(m)[k] \in 0..m
  BY <1>0, LeftStep
<1>3. 0 \in T
  <2>1. <<>> \in Seq(Part) /\ Len(<<>>) = 0
    OBVIOUS
  <2>2. Parsing(<<>>)[0] = 0
    BY <2>1, ParsingStep
  <2>3. Total(Listed(m)[0]) = 0
    BY <2>1, <2>2, ListedStep DEF Total
  <2> QED BY <1>0, <1>1, <2>3, LeftStep
<1>4. ASSUME NEW k \in 1..n, k - 1 \in T PROVE k \in T
  <2>1. k - 1 \in 0..n /\ k \in 0..n
    BY <1>1
  <2>2. PICK t \in 0..m, x \in 0..m, y \in 0..m :
           /\ t = Total(Listed(m)[k - 1]) /\ x = Left(m)[k - 1] /\ y = Left(m)[k] /\ t + x = m
    BY <1>2, <1>4, <2>1
  <2>3. PICK w \in Seq(Part) : w = Listed(m)[k - 1] /\ Listed(m)[k] = w \o NextPart(m, k)
    BY <2>1, ListedStep
  <2>4. PICK c \in 0..M, u \in DOMAIN Unit, d \in 0..M :
           /\ c = Times(m, k) /\ u = UnitOrder[k] /\ d = c * Unit[u] /\ x = d + y
           /\ Unit[u] \in Nat \ {0}
    <3>1. Times(m, k) \in 0..M /\ Times(m, k) * Unit[UnitOrder[k]] \in 0..M
      BY <1>0, TimesFit
    <3>2. x = Times(m, k) * Unit[UnitOrder[k]] + y
      BY <2>2, TimesFit
    <3>3. UnitOrder[k] \in DOMAIN Unit /\ Unit[UnitOrder[k]] \in Nat \ {0}
      BY OrderFacts
    <3> QED BY <3>1, <3>2, <3>3
  <2>a. /\ t \in Nat /\ x \in Nat /\ y \in Nat /\ c \in Nat /\ d \in Nat
        /\ t <= m /\ d <= M /\ y <= m /\ t + (d + y) = m
    <3>1. t \in Nat /\ x \in Nat /\ y \in Nat /\ t <= m /\ y <= m /\ t + x = m
      BY <1>0, <2>2
    <3>2. c \in Nat /\ d \in Nat /\ d <= M
      BY <1>0
    <3>3. x = d + y
      BY <2>4, Zenon
    <3> QED BY <3>1, <3>2, <3>3
  <2>5. CASE c > 0
    <3>1. NextPart(m, k) = <<WholePart(c, u)>>
      BY <2>4, <2>5 DEF NextPart
    <3>2. WholePart(c, u) \in Part /\ PartMillis(WholePart(c, u)) = d
      <4>1. c \in 0..MaxDurationMillis /\ c * Unit[u] <= MaxDurationMillis
        BY <1>0, <2>4
      <4> QED BY <2>4, <4>1, WholePartReads
    <3>3. Total(w \o <<WholePart(c, u)>>) = AddChecked(t, d)
      <4>1. Len(w \o <<WholePart(c, u)>>) = Len(w) + 1
        OBVIOUS
      <4> QED BY <2>2, <2>3, <3>2, <4>1, OnePartMore DEF Total
    <3>4. AddChecked(t, d) = t + d
      <4>1. t \in Counts /\ d \in Counts /\ t # Refused /\ d # Refused
        <5>1. t \in 0..M
          BY <1>0, <2>a
        <5>2. t # -1 /\ d # -1
          BY <2>a
        <5> QED BY <1>0, <5>1, <5>2 DEF Counts, Refused
      <4>2. ~(t + d > M)
        BY <1>0, <2>a
      <4> QED BY <1>0, <4>1, <4>2, AddExact
    <3>5. t + d \in 0..m /\ (t + d) + y = m
      BY <1>0, <2>a
    <3>6. Total(Listed(m)[k]) = t + d
      BY <2>3, <3>1, <3>3, <3>4
    <3> QED BY <2>1, <2>2, <3>5, <3>6
  <2>6. CASE ~(c > 0)
    <3>1. NextPart(m, k) = <<>>
      BY <2>4, <2>6 DEF NextPart
    <3>2. Listed(m)[k] = w
      <4>1. w \o <<>> = w
        OBVIOUS
      <4> QED BY <2>3, <3>1, <4>1
    <3>3. c = 0 /\ d = 0 /\ x = y
      <4>1. c = 0
        BY <2>6, <1>0
      <4>2. PICK v \in Nat : v = Unit[u]
        BY <2>4
      <4>3. d = 0
        BY <2>4, <4>1, <4>2
      <4> QED BY <2>a, <2>4, <4>1, <4>3
    <3>4. Total(Listed(m)[k]) = t
      BY <2>2, <2>3, <3>2
    <3> QED BY <2>1, <2>2, <3>3, <3>4
  <2> QED BY <2>5, <2>6
<1>5. i \in T
  <2> HIDE DEF T
  <2>1. \A k \in 0..n : k \in T
    BY <1>1, <1>3, <1>4, Induction
  <2> QED BY <2>1
<1> QED BY <1>2, <1>5

\* What FormatDuration writes reads back as itself.
LEMMA FormattedReadsBack ==
    ASSUME NEW m \in 1..MaxDurationMillis
    PROVE  ParseDuration(FormatDuration(m)) = m
<1>0. PICK n \in Nat \ {0} : n = Len(UnitOrder) /\ Unit[UnitOrder[n]] = 1
  BY OrderFacts
<1>1. m \in Nat \ {0} /\ m \in 0..MaxDurationMillis
  BY OrderFacts
<1>2. n \in 0..n /\ n \in 1..n /\ n - 1 \in 0..n
  OBVIOUS
<1>3. Left(m)[n] = 0
  <2>1. PICK x \in Nat : x = Left(m)[n - 1]
    <3>1. Left(m)[n - 1] \in 0..m
      BY <1>0, <1>1, <1>2, LeftStep
    <3> QED BY <1>1, <3>1
  <2>2. Left(m)[n] = x % 1
    BY <1>0, <1>1, <1>2, <2>1, LeftStep
  <2> QED BY <2>2
<1>4. Total(Listed(m)[n]) = m
  <2>1. PICK t \in 0..m : t = Total(Listed(m)[n]) /\ t + 0 = m
    BY <1>0, <1>1, <1>2, <1>3, WrittenAndLeft
  <2> QED BY <1>1, <2>1
<1>5. FormatDuration(m) = Listed(m)[n] /\ Listed(m)[n] \in Seq(Part)
  BY <1>0, <1>1, <1>2, ListedStep
<1>6. ParseDuration(FormatDuration(m)) = NotZero(m)
  BY <1>4, <1>5, ParsingStep DEF Total
<1> QED BY <1>1, <1>6 DEF NotZero

\* What has been read after i parts: each adds the digits it shows, as many
\* places behind the point as it says, times its unit.
AddsUp(w, t) ==
    /\ t \in [0..Len(w) -> Nat] /\ t[0] = 0
    /\ \A i \in 1..Len(w) :
          LET all == AllDigits(w[i]) IN
          /\ t[i - 1] <= t[i]
          /\ (t[i] - t[i - 1]) * Pow10(Len(Fraction(w[i])))
                = Worth(all)[Len(all)] * Unit[w[i].unit]

\* Every duration that is read is read exactly: ParseDuration adds up its parts,
\* however many digits, places and parts they have, without rounding one or
\* wrapping a product or a sum, and the result fits a time.Duration.
THEOREM EveryDurationIsExact ==
    \A w \in Seq(Part) : ParseDuration(w) # Refused =>
        \E t : /\ AddsUp(w, t) /\ ParseDuration(w) = t[Len(w)]
               /\ ParseDuration(w) * NanosPerMilli < Limit
<1> TAKE w \in Seq(Part)
<1> HAVE ParseDuration(w) # Refused
<1> DEFINE t == [i \in 0..Len(w) |-> Parsing(w)[i]]
<1>1. PICK n \in Nat : n = Len(w)
  OBVIOUS
<1>2. /\ ParseDuration(w) = NotZero(t[n]) /\ t[0] = 0
      /\ \A i \in 1..n : t[i] = AddChecked(t[i - 1], PartMillis(w[i]))
      /\ \A i \in 0..n : t[i] \in Counts
  <2>1. \A i \in 1..n : i \in 0..n /\ i - 1 \in 0..n
    OBVIOUS
  <2>2. 0 \in 0..n /\ n \in 0..n
    OBVIOUS
  <2> QED BY <1>1, <2>1, <2>2, ParsingStep
<1>3. t[n] # Refused /\ ParseDuration(w) = t[n]
  BY <1>2 DEF NotZero, Refused
<1>4. t = [i \in 0..n |-> t[i]]
  BY <1>1
<1> HIDE DEF t
<1>5. ASSUME NEW i \in 1..n, t[i] # Refused
      PROVE  /\ t[i - 1] # Refused /\ PartMillis(w[i]) # Refused
             /\ t[i] = t[i - 1] + PartMillis(w[i])
  <2>1. i - 1 \in 0..n /\ w[i] \in Part
    BY <1>1
  <2>2. PICK x \in Counts, y \in Counts : x = t[i - 1] /\ y = PartMillis(w[i])
    BY <1>2, <2>1, PartIsExact
  <2>3. AddChecked(x, y) # Refused
    BY <1>2, <1>5, <2>2
  <2>4. x # Refused /\ y # Refused /\ AddChecked(x, y) = x + y
    BY <2>3, AddExact
  <2> QED BY <1>2, <2>2, <2>4
<1>6. \A i \in 0..n : t[i] # Refused
  <2> DEFINE T == {k \in 0..n : t[n - k] # Refused}
  <2>1. 0 \in T
    <3>1. 0 \in 0..n /\ n - 0 = n
      OBVIOUS
    <3> QED BY <1>3, <3>1
  <2>2. ASSUME NEW k \in 1..n, k - 1 \in T PROVE k \in T
    <3>1. n - (k - 1) \in 1..n /\ (n - (k - 1)) - 1 = n - k /\ k \in 0..n
      OBVIOUS
    <3>2. t[n - (k - 1)] # Refused
      BY <2>2
    <3> QED BY <1>5, <3>1, <3>2
  <2> HIDE DEF T
  <2>3. \A k \in 0..n : k \in T
    BY <2>1, <2>2, Induction
  <2> TAKE i \in 0..n
  <2>4. n - i \in 0..n /\ n - (n - i) = i
    OBVIOUS
  <2> QED BY <2>3, <2>4 DEF T
<1>7. \A i \in 0..n : t[i] \in 0..MaxDurationMillis /\ t[i] \in Nat
  <2>1. PICK m \in Nat : m = MaxDurationMillis
    BY LimitFacts
  <2> QED BY <1>2, <1>6, <2>1 DEF Counts
<1>8. ASSUME NEW i \in 1..n
      PROVE  LET all == AllDigits(w[i]) IN
             /\ t[i - 1] <= t[i]
             /\ (t[i] - t[i - 1]) * Pow10(Len(Fraction(w[i])))
                   = Worth(all)[Len(all)] * Unit[w[i].unit]
  <2>1. i \in 0..n /\ i - 1 \in 0..n /\ w[i] \in Part
    BY <1>1
  <2>2. PICK x \in Nat, y \in Nat, z \in Nat :
           x = t[i - 1] /\ y = PartMillis(w[i]) /\ z = t[i] /\ z = x + y
    <3>1. PartMillis(w[i]) \in Counts /\ PartMillis(w[i]) # Refused
      BY <1>5, <1>6, <2>1, PartIsExact
    <3>2. PartMillis(w[i]) \in Nat
      <4>1. PICK m \in Nat : m = MaxDurationMillis
        BY LimitFacts
      <4> QED BY <3>1, <4>1 DEF Counts
    <3> QED BY <1>5, <1>6, <1>7, <2>1, <3>2
  <2>3. x <= z /\ z - x = y
    BY <2>2
  <2>4. PartMillis(w[i]) * Pow10(Len(Fraction(w[i])))
          = Worth(AllDigits(w[i]))[Len(AllDigits(w[i]))] * Unit[w[i].unit]
    BY <1>5, <1>6, <2>1, PartIsExact
  <2> QED BY <2>2, <2>3, <2>4
<1>9. AddsUp(w, t)
  <2>1. t \in [0..n -> Nat]
    BY <1>4, <1>7
  <2> QED BY <1>1, <1>2, <1>8, <2>1 DEF AddsUp
<1>10. t[n] * NanosPerMilli < Limit
  <2>1. n \in 0..n
    OBVIOUS
  <2> QED BY <1>7, <2>1, MillisInNanos
<1> QED BY <1>1, <1>3, <1>9, <1>10

\* A duration that is read is read exactly, and what FormatDuration writes reads
\* back as itself: the arithmetic of ParseDuration neither rounds nor wraps, for
\* any units, any width of the integers and any bound on the digits.
THEOREM DurationArithmeticHolds == DurationArithmetic
<1>1. ASSUME NEW p \in Parts,
             NEW q \in {x \in Parts : Len(x.digits) = 1 /\ x.fraction = NULL}
      PROVE  LET millis == ParseDuration(<<p, q>>) IN
             millis # Refused => /\ 100 * millis = Hundredths(p) + Hundredths(q)
                                 /\ millis * NanosPerMilli < Limit
  BY PairsAreExact
<1>2. ASSUME NEW millis \in 1..MaxDurationMillis
      PROVE  ParseDuration(FormatDuration(millis)) = millis
  BY FormattedReadsBack
<1> QED BY <1>1, <1>2 DEF DurationArithmetic
-----------------------------------------------------------------------------
(* Delays.                                                                   *)

\* Milliseconds become nanoseconds without leaving the integer.
LEMMA NanosFit ==
    ASSUME NEW a \in 1..MaxDurationMillis
    PROVE  /\ Wrap(a * NanosPerMilli) = a * NanosPerMilli
           /\ a * NanosPerMilli \in Nat \ {0} /\ a * NanosPerMilli < Limit - 1
<1>1. PICK m \in Nat, l \in Nat, n \in Nat \ {0} :
         /\ m = MaxDurationMillis /\ l = Limit /\ n = NanosPerMilli /\ m * n < l - 1
  BY LimitFacts, JobSpecAssumption
<1>2. PICK c \in Nat : m = a + c /\ a \in Nat \ {0}
  <2>1. a \in Nat \ {0} /\ m - a \in Nat /\ m = a + (m - a)
    BY <1>1
  <2> QED BY <2>1
<1>3. PICK x \in Nat : x = a * n
  BY <1>2
<1>4. m * n = a * n + c * n /\ c * n \in Nat
  BY <1>2
<1>5. x < l - 1
  BY <1>1, <1>3, <1>4
<1>6. x # 0
  BY <1>1, <1>2, <1>3
<1>7. x < l
  BY <1>5
<1>8. Wrap(x) = x
  BY <1>1, <1>7, WrapFits
<1> QED BY <1>1, <1>3, <1>5, <1>6, <1>8

\* The delays of a policy are positive and leave room for one more.
Delay == {x \in Nat \ {0} : x < Limit - 1}
Fits(p) == p.initial \in Delay /\ p.maxDelay \in Delay /\ p.jitter \in Jitter /\ p.kind \in Kind

\* The policies of all delays a file can name; those of the law are some of them.
WholePolicies == {RetryPolicyOf([initial |-> i, maxDelay |-> m], k, j) :
                     i \in 1..MaxDurationMillis, m \in 1..MaxDurationMillis,
                     k \in Kind, j \in Jitter}

LEMMA PoliciesAreWhole == Policies \subseteq WholePolicies
<1>1. PICK M \in Nat : M = MaxDurationMillis /\ M >= 10
  BY LimitFacts, JobSpecAssumption
<1>2. Millis \subseteq 1..MaxDurationMillis
  <2>1. PICK h \in Nat : h = M \div 2 /\ 1 <= h /\ h + 1 <= M
    <3>1. M \div 2 \in Nat /\ M % 2 \in 0..1 /\ M = 2 * (M \div 2) + (M % 2)
      BY <1>1
    <3> QED BY <1>1, <3>1
  <2> QED BY <1>1, <2>1 DEF Millis
<1> QED BY <1>2 DEF Policies, WholePolicies

LEMMA PoliciesFit ==
    ASSUME NEW p \in WholePolicies
    PROVE  Fits(p)
<1>1. PICK i \in 1..MaxDurationMillis, m \in 1..MaxDurationMillis,
           k \in Kind, j \in Jitter :
         p = RetryPolicyOf([initial |-> i, maxDelay |-> m], k, j)
  BY DEF WholePolicies
<1>2. PICK M \in Nat : M = MaxDurationMillis /\ M >= 10
  BY LimitFacts, JobSpecAssumption
<1>4. PICK a \in 1..M, b \in 1..M :
         p.initial = Wrap(a * NanosPerMilli) /\ p.maxDelay = Wrap(b * NanosPerMilli)
  <2>1. DefaultInitial \in 1..M /\ DefaultMaxDelay \in 1..M
    <3>1. PICK t \in 1..M : t = MaxJobTimeout
      BY <1>2, JobSpecAssumption
    <3>2. DefaultMaxDelay \in 1..t /\ DefaultInitial \in 1..DefaultMaxDelay
      BY <3>1, JobSpecAssumption
    <3> QED BY <1>2, <3>1, <3>2
  <2>2. i \in 1..M /\ m \in 1..M /\ i > 0 /\ m > 0
    BY <1>1, <1>2
  <2>3. ~(0 > 0)
    OBVIOUS
  <2> DEFINE r == [initial |-> i, maxDelay |-> m]
             a0 == IF r = NULL THEN DefaultInitial ELSE i
             b0 == IF r = NULL THEN DefaultMaxDelay ELSE m
  <2>4. p.initial = Wrap(a0 * NanosPerMilli) /\ p.maxDelay = Wrap(b0 * NanosPerMilli)
    <3>1. CASE r = NULL
      BY <1>1, <2>3, <3>1 DEF RetryPolicyOf
    <3>2. CASE r # NULL
      <4>1. /\ (IF r = NULL THEN 0 ELSE r.initial) = i
            /\ (IF r = NULL THEN 0 ELSE r.maxDelay) = m
        BY <3>2
      <4> HIDE DEF r
      <4>2. p = RetryPolicyOf(r, k, j)
        BY <1>1 DEF r
      <4>3. a0 = i /\ b0 = m
        BY <3>2
      <4>4. /\ p.initial = Wrap((IF i > 0 THEN i ELSE DefaultInitial) * NanosPerMilli)
            /\ p.maxDelay = Wrap((IF m > 0 THEN m ELSE DefaultMaxDelay) * NanosPerMilli)
        BY <4>1, <4>2 DEF RetryPolicyOf
      <4> QED BY <2>2, <4>3, <4>4
    <3> QED BY <3>1, <3>2
  <2>5. a0 \in 1..M /\ b0 \in 1..M
    BY <2>1, <2>2
  <2> QED BY <2>4, <2>5
<1>5. p.initial \in Delay /\ p.maxDelay \in Delay
  BY <1>2, <1>4, NanosFit DEF Delay
<1>6. p.kind = k /\ p.jitter = j
  BY <1>1 DEF RetryPolicyOf
<1> QED BY <1>5, <1>6 DEF Fits

\* Doubling stops at the cap.
LEMMA DoubledExact ==
    ASSUME NEW x \in Delay, NEW cap \in Delay
    PROVE  Doubled(x, cap) = (IF x + x >= cap THEN cap ELSE x + x) /\ Doubled(x, cap) \in Delay
<1>1. PICK l \in Nat : l = Limit
  BY LimitFacts
<1>2. /\ x \in Nat \ {0} /\ x < l - 1 /\ cap \in Nat \ {0} /\ cap < l - 1 /\ x * 2 = x + x
  BY <1>1 DEF Delay
<1>3. PICK y \in Nat : y = x * 2 /\ y = x + x
  BY <1>2
<1>4. CASE y < l
  <2>1. Wrap(y) = y
    BY <1>1, <1>4, WrapFits
  <2>2. Doubled(x, cap) = IF y >= cap THEN cap ELSE y
    <3>1. ~(y < x)
      BY <1>2, <1>3
    <3> QED BY <1>3, <2>1, <3>1 DEF Doubled
  <2>3. ~(y >= cap) => y \in Delay
    <3>1. ~(y >= cap) => y < l - 1 /\ y # 0
      BY <1>2, <1>3
    <3> QED BY <1>1, <3>1 DEF Delay
  <2> QED BY <1>3, <2>2, <2>3
<1>5. CASE ~(y < l)
  <2>1. Wrap(y) = y - 2 * l
    <3>1. y >= l /\ y < 2 * l
      BY <1>2, <1>3, <1>5
    <3> QED BY <1>1, <3>1, WrapFits
  <2>2. y - 2 * l < x /\ y >= cap
    BY <1>2, <1>3, <1>5
  <2>3. Doubled(x, cap) = cap
    BY <1>3, <2>1, <2>2 DEF Doubled
  <2> QED BY <1>3, <2>2, <2>3
<1> QED BY <1>4, <1>5
\* The delays before each attempt.
GrowsTo(p, n, f) ==
    f = [i \in 1..n |-> IF i = 1 \/ p.kind = "fixed" THEN p.initial
                        ELSE Doubled(f[i - 1], p.maxDelay)]
Growing(p, n) == CHOOSE f : GrowsTo(p, n, f)

LEMMA GrownStep ==
    ASSUME NEW p, Fits(p), NEW n \in Nat \ {0}
    PROVE  /\ Grown(p, n) = Growing(p, n)[n] /\ Growing(p, n)[1] = p.initial
           /\ p.kind = "fixed" => Grown(p, n) = p.initial
           /\ p.kind # "fixed" =>
                 \A i \in 2..n : Growing(p, n)[i] = Doubled(Growing(p, n)[i - 1], p.maxDelay)
<1>0. p.initial \in Delay /\ p.maxDelay \in Delay
  BY DEF Fits
<1>1. PICK m \in Nat : n = m + 1
  <2>1. n - 1 \in Nat /\ n = (n - 1) + 1
    OBVIOUS
  <2> QED BY <2>1
<1> DEFINE S == Delay
           H(x) == IF p.kind = "fixed" THEN p.initial ELSE Doubled(x, p.maxDelay)
           G == [i \in 1..m |-> [x \in S |-> H(x)]]
<1>2. G \in Steps(S, m)
  <2>1. \A x \in S : H(x) \in S
    BY <1>0, DoubledExact
  <2> HIDE DEF H, S
  <2> QED BY <2>1 DEF Steps
<1>3. PICK g : Takes(p.initial, m, G, g) /\ \A i \in 0..m : g[i] \in S
  <2> HIDE DEF G
  <2> QED BY <1>0, <1>2, Recursion
<1>4. g[0] = p.initial /\ \A i \in 1..m : g[i] = H(g[i - 1])
  <2>1. g[0] = p.initial /\ \A i \in 1..m : g[i] = G[i][g[i - 1]]
    BY <1>3 DEF Takes
  <2>2. ASSUME NEW i \in 1..m PROVE G[i][g[i - 1]] = H(g[i - 1])
    <3>1. i - 1 \in 0..m
      OBVIOUS
    <3>2. g[i - 1] \in S
      BY <1>3, <3>1
    <3> HIDE DEF H, S
    <3> QED BY <3>2
  <2> HIDE DEF G, H
  <2> QED BY <2>1, <2>2
<1> DEFINE f == [i \in 1..n |-> g[i - 1]]
<1>5. GrowsTo(p, n, f)
  <2>1. ASSUME NEW i \in 1..n
        PROVE  g[i - 1] = IF i = 1 \/ p.kind = "fixed" THEN p.initial
                          ELSE Doubled(f[i - 1], p.maxDelay)
    <3>1. CASE i = 1
      <4>1. i - 1 = 0
        BY <3>1
      <4> QED BY <1>4, <3>1, <4>1
    <3>2. CASE i # 1
      <4>1. PICK j \in 1..m : i = j + 1 /\ i - 1 = j /\ j \in 1..n
        <5>1. i - 1 \in 1..m /\ i = (i - 1) + 1 /\ i - 1 \in 1..n
          BY <1>1, <3>2
        <5> QED BY <5>1
      <4>2. f[j] = g[j - 1]
        BY <4>1
      <4>3. g[j] = H(g[j - 1])
        BY <1>4, <4>1
      <4> HIDE DEF f
      <4>4. g[i - 1] = IF p.kind = "fixed" THEN p.initial ELSE Doubled(f[i - 1], p.maxDelay)
        BY <4>1, <4>2, <4>3
      <4> QED BY <3>2, <4>4
    <3> QED BY <3>1, <3>2
  <2> QED BY <2>1 DEF GrowsTo
<1> HIDE DEF f
<1>6. GrowsTo(p, n, Growing(p, n))
  BY <1>5 DEF Growing
<1> DEFINE F == Growing(p, n)
<1>7. \A i \in 1..n : F[i] = IF i = 1 \/ p.kind = "fixed" THEN p.initial
                             ELSE Doubled(F[i - 1], p.maxDelay)
  BY <1>6, Zenon DEF GrowsTo
<1>8. Grown(p, n) = F[n]
  BY DEF Grown, Growing, GrowsTo
<1>9. 1 \in 1..n /\ n \in 1..n /\ \A i \in 2..n : i \in 1..n /\ i # 1
  OBVIOUS
<1> HIDE DEF F
<1>10. F[1] = p.initial /\ (p.kind = "fixed" => F[n] = p.initial)
  BY <1>7, <1>9, Zenon
<1>11. p.kind # "fixed" => \A i \in 2..n : F[i] = Doubled(F[i - 1], p.maxDelay)
  BY <1>7, <1>9, Zenon
<1> QED BY <1>8, <1>10, <1>11 DEF F

\* Doubled as often as there were attempts, until the cap.
LEMMA GrownExact ==
    ASSUME NEW p, Fits(p), p.kind # "fixed", NEW n \in Nat \ {0}
    PROVE  \/ Grown(p, n) = p.initial * Power(2, n - 1)
           \/ Grown(p, n) = p.maxDelay /\ p.initial * Power(2, n - 1) >= p.maxDelay
<1> DEFINE F == Growing(p, n)
           R(i) == p.initial * Power(2, i - 1)
           T == {k \in 0..n - 1 : /\ F[k + 1] \in Delay
                                  /\ \/ F[k + 1] = R(k + 1)
                                     \/ F[k + 1] = p.maxDelay /\ R(k + 1) >= p.maxDelay}
<1>1. PICK a \in Nat \ {0}, c \in Nat \ {0} :
         a = p.initial /\ c = p.maxDelay /\ a \in Delay /\ c \in Delay
  BY DEF Fits, Delay
<1>2. /\ Grown(p, n) = F[n] /\ F[1] = a
      /\ \A i \in 2..n : F[i] = Doubled(F[i - 1], c)
  BY <1>1, GrownStep
<1> HIDE DEF F
<1>3. \A k \in Nat : Power(2, k) \in Nat \ {0} /\ Power(2, k + 1) = 2 * Power(2, k)
  <2>1. 2 \in Nat \ {0}
    OBVIOUS
  <2> QED BY <2>1, PowerStep
<1>4. Power(2, 0) = 1
  BY PowerStep
<1>5. 0 \in T
  <2>1. R(0 + 1) = a
    <3>1. 0 + 1 - 1 = 0 /\ a * 1 = a
      OBVIOUS
    <3> QED BY <1>1, <1>4, <3>1
  <2>2. 0 \in 0..n - 1 /\ 0 + 1 = 1
    OBVIOUS
  <2> QED BY <1>1, <1>2, <2>1, <2>2
<1>6. ASSUME NEW k \in 1..n - 1, k - 1 \in T PROVE k \in T
  <2>1. PICK j \in Nat : /\ j = k - 1 /\ k = j + 1 /\ k + 1 \in 2..n /\ k \in 0..n - 1
                         /\ (k + 1) - 1 = k /\ (j + 1) - 1 = j
    <3>1. k - 1 \in Nat /\ k = (k - 1) + 1 /\ k + 1 \in 2..n /\ k \in 0..n - 1
      OBVIOUS
    <3>2. (k + 1) - 1 = k /\ ((k - 1) + 1) - 1 = k - 1
      OBVIOUS
    <3> QED BY <3>1, <3>2
  <2>2. PICK r \in Nat \ {0} : r = R(k) /\ R(k + 1) = r + r
    <3>1. PICK q \in Nat \ {0} : q = Power(2, j) /\ Power(2, k) = 2 * q
      BY <1>3, <2>1
    <3>2. PICK r \in Nat \ {0} : r = a * q
      <4>1. a * q \in Nat \ {0}
        OBVIOUS
      <4> QED BY <4>1
    <3>3. a * (2 * q) = r + r
      BY <3>2
    <3>4. R(k) = r /\ R(k + 1) = a * (2 * q)
      BY <1>1, <2>1, <3>1, <3>2
    <3> QED BY <3>3, <3>4
  <2>3. F[k] \in Delay /\ (F[k] = r \/ (F[k] = c /\ r >= c))
    BY <1>1, <1>6, <2>1, <2>2
  <2>4. F[k + 1] = (IF F[k] + F[k] >= c THEN c ELSE F[k] + F[k]) /\ F[k + 1] \in Delay
    BY <1>1, <1>2, <2>1, <2>3, DoubledExact
  <2> HIDE DEF R
  <2>7. CASE r >= c
    <3>1. F[k + 1] = c
      <4>1. r + r >= c /\ c + c >= c
        BY <2>7
      <4> QED BY <2>3, <2>4, <4>1
    <3>2. r + r >= c
      BY <2>7
    <3> QED BY <1>1, <2>1, <2>2, <2>4, <3>1, <3>2
  <2>8. CASE ~(r >= c)
    <3>1. F[k] = r
      BY <2>3, <2>8
    <3> QED BY <1>1, <2>1, <2>2, <2>4, <3>1
  <2> QED BY <2>7, <2>8
<1>7. n - 1 \in T
  <2> HIDE DEF T
  <2>1. n - 1 \in Nat /\ n - 1 \in 0..n - 1
    OBVIOUS
  <2>2. \A k \in 0..n - 1 : k \in T
    BY <1>5, <1>6, <2>1, Induction
  <2> QED BY <2>1, <2>2
<1>8. (n - 1) + 1 = n
  OBVIOUS
<1> QED BY <1>1, <1>2, <1>7, <1>8
LEMMA LongestIsTheReference ==
    ASSUME NEW p, Fits(p), NEW n \in Nat
    PROVE  /\ Longest(p, n) = Reference(p, n)
           /\ Longest(p, n) \in Nat /\ Longest(p, n) <= p.maxDelay
<1>1. PICK a \in Nat \ {0}, c \in Nat \ {0} : a = p.initial /\ c = p.maxDelay
  BY DEF Fits, Delay
<1>2. PICK k \in Nat \ {0} : k = IF n < 1 THEN 1 ELSE n
  <2>1. (IF n < 1 THEN 1 ELSE n) \in Nat \ {0}
    OBVIOUS
  <2> QED BY <2>1
<1>3. PICK d \in Nat : d = IF p.kind = "fixed" \/ n < 1 THEN 0 ELSE n - 1
  <2>1. (IF p.kind = "fixed" \/ n < 1 THEN 0 ELSE n - 1) \in Nat
    OBVIOUS
  <2> QED BY <2>1
<1>4. PICK r \in Nat \ {0} : r = a * Power(2, d)
  <2>1. 2 \in Nat \ {0}
    OBVIOUS
  <2>2. PICK q \in Nat \ {0} : q = Power(2, d)
    BY <2>1, PowerStep
  <2>3. a * q \in Nat \ {0}
    OBVIOUS
  <2> QED BY <2>2, <2>3
<1>5. Reference(p, n) = IF r > c THEN c ELSE r
  BY <1>1, <1>3, <1>4 DEF Reference
<1>6. Grown(p, k) = r \/ (Grown(p, k) = c /\ r >= c)
  <2>1. CASE p.kind = "fixed"
    <3>1. Grown(p, k) = a
      BY <1>1, <2>1, GrownStep
    <3>2. a * 1 = a /\ Power(2, 0) = 1 /\ d = 0
      BY <1>3, <2>1, PowerStep
    <3>3. r = a
      BY <1>4, <3>2
    <3> QED BY <3>1, <3>3
  <2>2. CASE p.kind # "fixed"
    <3>1. d = k - 1
      <4>1. d = IF n < 1 THEN 0 ELSE n - 1
        BY <1>3, <2>2
      <4> QED BY <1>2, <4>1
    <3>2. \/ Grown(p, k) = p.initial * Power(2, k - 1)
          \/ Grown(p, k) = p.maxDelay /\ p.initial * Power(2, k - 1) >= p.maxDelay
      BY <2>2, GrownExact
    <3> QED BY <1>1, <1>4, <3>1, <3>2
  <2> QED BY <2>1, <2>2
<1>7. PICK b \in Nat \ {0} : b = Grown(p, k)
  BY <1>6
<1>8. Longest(p, n) = IF b > c THEN c ELSE b
  <2>1. c > 0 /\ (b > c => ~(c < 0)) /\ ~(b < 0)
    OBVIOUS
  <2> QED BY <1>1, <1>2, <1>7, <2>1 DEF Longest
<1>9. (IF b > c THEN c ELSE b) = (IF r > c THEN c ELSE r)
  BY <1>6, <1>7
<1>10. (IF b > c THEN c ELSE b) \in Nat /\ (IF b > c THEN c ELSE b) <= c
  OBVIOUS
<1> QED BY <1>1, <1>5, <1>8, <1>9, <1>10

\* The delay of every attempt is the initial one doubled per attempt and capped,
\* for any delays of whole milliseconds and any attempt number, whatever the
\* width of the integers; what is drawn lies below it: no doubling of
\* RetryPolicy.Delay wraps and no bound asked of the generator is empty.
THEOREM EveryDelayGrowsToTheCap ==
    \A p \in WholePolicies, n \in Nat :
        /\ Longest(p, n) = Reference(p, n)
        /\ Draws(p, n) # {}
        /\ \A d \in Draws(p, n) : 0 <= d /\ d <= p.maxDelay
<1> TAKE p \in WholePolicies, n \in Nat
<1>1. Fits(p)
  BY PoliciesFit
<1>2. n \in Nat
  OBVIOUS
<1>3. PICK g \in Nat, c \in Nat, l \in Nat :
         /\ g = Longest(p, n) /\ c = p.maxDelay /\ l = Limit /\ g <= c /\ c < l - 1
  BY <1>1, <1>2, LongestIsTheReference, LimitFacts DEF Fits, Delay
<1>4. PICK h \in Nat : h = g + 1 /\ h < l
  <2>1. g + 1 \in Nat /\ g + 1 < l
    BY <1>3
  <2> QED BY <2>1
<1>5. Wrap(h) = h
  BY <1>3, <1>4, WrapFits
<1>6. h - 1 = g
  BY <1>4
<1>7. Draws(p, n) = {g} \/ Draws(p, n) = 0..g
  BY <1>3, <1>4, <1>5, <1>6 DEF Draws
<1>8. Draws(p, n) # {} /\ \A d \in Draws(p, n) : 0 <= d /\ d <= c
  <2>1. CASE Draws(p, n) = {g}
    <3>1. 0 <= g /\ g <= c
      BY <1>3
    <3> QED BY <2>1, <3>1
  <2>2. CASE Draws(p, n) = 0..g
    <3>1. 0 \in 0..g /\ \A d \in 0..g : 0 <= d /\ d <= c
      BY <1>3
    <3> QED BY <2>2, <3>1, Zenon
  <2> QED BY <1>7, <2>1, <2>2
<1> QED BY <1>1, <1>2, <1>3, <1>8, LongestIsTheReference

\* The law of the runs is about some of those policies and attempts.
THEOREM DelaysGrowToTheCapHolds == DelaysGrowToTheCap
<1>1. Attempts \subseteq Nat
  <2>1. Width \in Nat
    BY JobSpecAssumption
  <2> QED BY <2>1 DEF Attempts
<1>2. Policies \subseteq WholePolicies
  BY PoliciesAreWhole
<1>3. ASSUME NEW p \in Policies, NEW n \in Attempts
      PROVE  /\ Longest(p, n) = Reference(p, n)
             /\ Draws(p, n) # {}
             /\ \A d \in Draws(p, n) : 0 <= d /\ d <= p.maxDelay
  <2>1. p \in WholePolicies /\ n \in Nat
    BY <1>1, <1>2
  <2> QED BY <2>1, EveryDelayGrowsToTheCap, Zenon
<1> QED BY <1>3, Zenon DEF DelaysGrowToTheCap
-----------------------------------------------------------------------------
(* Sorted lists.                                                             *)

LEMMA PlacesCounted ==
    ASSUME NEW x, IsList(x), NEW n \in Nat, \A k \in DOMAIN x : x[k] \in Nat
    PROVE  /\ IsFiniteSet(Below(x, n)) /\ Cardinality(Below(x, n)) \in Nat
           /\ IsFiniteSet(UpTo(x, n)) /\ Cardinality(UpTo(x, n)) \in Nat
           /\ Count(x, n) \in Nat
           /\ Cardinality(UpTo(x, n)) = Cardinality(Below(x, n)) + Count(x, n)
           /\ Cardinality(Below(x, n + 1)) = Cardinality(UpTo(x, n))
           /\ Cardinality(Below(x, 0)) = 0
           /\ Cardinality(UpTo(x, n)) <= Len(x)
<1>1. Len(x) \in Nat /\ DOMAIN x = 1..Len(x)
  BY DEF IsList
<1>2. IsFiniteSet(1..Len(x)) /\ Cardinality(1..Len(x)) = Len(x)
  <2>1. PICK l \in Nat : l = Len(x)
    BY <1>1
  <2>2. 1 \in Int /\ l \in Int
    OBVIOUS
  <2>3. IsFiniteSet(1..l) /\ Cardinality(1..l) = IF 1 > l THEN 0 ELSE l - 1 + 1
    BY <2>2, FS_Interval
  <2>4. (IF 1 > l THEN 0 ELSE l - 1 + 1) = l
    OBVIOUS
  <2> QED BY <2>1, <2>3, <2>4
<1>3. \A S \in SUBSET (DOMAIN x) :
         IsFiniteSet(S) /\ Cardinality(S) \in Nat /\ Cardinality(S) <= Len(x)
  BY <1>1, <1>2, FS_Subset, FS_CardinalityType
<1> DEFINE At == {k \in DOMAIN x : x[k] = n}
<1>4. Below(x, n) \subseteq DOMAIN x /\ UpTo(x, n) \subseteq DOMAIN x /\ At \subseteq DOMAIN x
  BY DEF Below, UpTo
<1>5. UpTo(x, n) = Below(x, n) \union At /\ Below(x, n) \intersect At = {}
  BY DEF Below, UpTo
<1>6. Count(x, n) = Cardinality(At)
  BY DEF Count
<1>7. Below(x, n + 1) = UpTo(x, n)
  BY DEF Below, UpTo
<1>8. Below(x, 0) = {}
  BY DEF Below
<1> HIDE DEF At
<1>9. Cardinality(UpTo(x, n)) = Cardinality(Below(x, n)) + Cardinality(At)
  <2>1. IsFiniteSet(Below(x, n)) /\ IsFiniteSet(At)
    BY <1>3, <1>4
  <2>2. /\ Cardinality(Below(x, n) \union At)
             = Cardinality(Below(x, n)) + Cardinality(At) - Cardinality(Below(x, n) \intersect At)
    BY <2>1, FS_Union
  <2>3. PICK b \in Nat, a \in Nat : b = Cardinality(Below(x, n)) /\ a = Cardinality(At)
    BY <1>3, <1>4
  <2>4. Cardinality(Below(x, n) \intersect At) = 0
    BY <1>5, FS_EmptySet
  <2> QED BY <1>5, <2>2, <2>3, <2>4
<1> QED BY <1>3, <1>4, <1>6, <1>7, <1>8, <1>9, FS_EmptySet

\* No two members have one place.
LEMMA PlaceIsUnique ==
    ASSUME NEW x, IsList(x), \A k \in DOMAIN x : x[k] \in Nat, NEW i \in Nat,
           NEW v \in Nat, Cardinality(Below(x, v)) < i, i <= Cardinality(UpTo(x, v)),
           NEW w \in Nat, Cardinality(Below(x, w)) < i, i <= Cardinality(UpTo(x, w))
    PROVE  v = w
<1>1. ASSUME NEW a \in Nat, NEW b \in Nat, a < b,
             Cardinality(Below(x, b)) < i, i <= Cardinality(UpTo(x, a))
      PROVE  FALSE
  <2>1. UpTo(x, a) \subseteq Below(x, b)
    <3>1. \A y \in Nat : y <= a => y < b
      BY <1>1
    <3> QED BY <3>1 DEF UpTo, Below
  <2>2. Cardinality(UpTo(x, a)) <= Cardinality(Below(x, b))
    BY <2>1, PlacesCounted, FS_Subset
  <2>3. PICK p \in Nat, q \in Nat : p = Cardinality(UpTo(x, a)) /\ q = Cardinality(Below(x, b))
    BY PlacesCounted
  <2> QED BY <1>1, <2>2, <2>3
<1>2. v < w \/ w < v \/ v = w
  OBVIOUS
<1> QED BY <1>1, <1>2

\* Sorting keeps how often a name is in the list.
LEMMA SortedCounts ==
    ASSUME NEW x, IsList(x), \A k \in DOMAIN x : x[k] \in Nat, NEW v \in Nat
    PROVE  Count(CanonicalSorted(x), v) = Count(x, v)
<1> DEFINE c == CanonicalSorted(x)
<1>1. Len(x) \in Nat /\ DOMAIN x = 1..Len(x) /\ DOMAIN c = DOMAIN x
  BY SortedMembers DEF IsList
<1>2. PICK b \in Nat, u \in Nat, t \in Nat, l \in Nat :
         /\ b = Cardinality(Below(x, v)) /\ u = Cardinality(UpTo(x, v)) /\ t = Count(x, v)
         /\ l = Len(x) /\ u = b + t /\ u <= l
  <2>1. /\ Cardinality(Below(x, v)) \in Nat /\ Cardinality(UpTo(x, v)) \in Nat
        /\ Count(x, v) \in Nat
        /\ Cardinality(UpTo(x, v)) = Cardinality(Below(x, v)) + Count(x, v)
        /\ Cardinality(UpTo(x, v)) <= Len(x)
    BY PlacesCounted
  <2> QED BY <1>1, <2>1
<1>3. ASSUME NEW i \in 1..l
      PROVE  /\ c[i] \in Nat /\ Cardinality(Below(x, c[i])) < i
             /\ i <= Cardinality(UpTo(x, c[i]))
             /\ c[i] = v => b < i /\ i <= u
  <2>1. i \in DOMAIN x
    BY <1>1, <1>2
  <2>2. PICK k \in DOMAIN x : c[i] = x[k]
    BY <2>1, SortedMembers
  <2>3. Cardinality(Below(x, c[i])) < i /\ i <= Cardinality(UpTo(x, c[i]))
    BY <2>1, SortedMembers
  <2>4. c[i] \in Nat
    BY <2>2
  <2> HIDE DEF c
  <2>5. c[i] = v => b < i /\ i <= u
    BY <1>2, <2>3
  <2> QED BY <2>3, <2>4, <2>5
<1>4. \A i \in 1..l : b < i /\ i <= u => c[i] = v
  <2> TAKE i \in 1..l
  <2> HAVE b < i /\ i <= u
  <2>1. /\ c[i] \in Nat /\ i \in Nat
        /\ Cardinality(Below(x, c[i])) < i /\ i <= Cardinality(UpTo(x, c[i]))
    BY <1>3
  <2> HIDE DEF c
  <2>2. Cardinality(Below(x, v)) < i /\ i <= Cardinality(UpTo(x, v))
    BY <1>2
  <2> QED BY <2>1, <2>2, PlaceIsUnique
<1> DEFINE At == {i \in DOMAIN c : c[i] = v}
<1>5. At = (b + 1)..u
  <2>1. ASSUME NEW i \in At PROVE i \in (b + 1)..u
    <3>1. i \in 1..l /\ c[i] = v
      BY <1>1, <1>2
    <3>2. b < i /\ i <= u
      BY <1>3, <3>1
    <3> QED BY <3>1, <3>2
  <2>2. ASSUME NEW i \in (b + 1)..u PROVE i \in At
    <3>1. i \in 1..l /\ b < i /\ i <= u
      BY <1>2
    <3> QED BY <1>1, <1>2, <1>4, <3>1
  <2> QED BY <2>1, <2>2
<1>6. Cardinality((b + 1)..u) = t
  <2>1. b + 1 \in Int /\ u \in Int
    OBVIOUS
  <2>2. Cardinality((b + 1)..u) = IF b + 1 > u THEN 0 ELSE u - (b + 1) + 1
    BY <2>1, FS_Interval
  <2>3. (IF b + 1 > u THEN 0 ELSE u - (b + 1) + 1) = t
    <3>1. u = b + t
      BY <1>2
    <3> QED BY <3>1
  <2> QED BY <2>2, <2>3
<1>7. Count(c, v) = Cardinality(At)
  BY DEF Count
<1> QED BY <1>2, <1>5, <1>6, <1>7
\* No list is longer than the members it has up to some number.
LEMMA AllBelow ==
    ASSUME NEW x, IsList(x), \A k \in DOMAIN x : x[k] \in Nat
    PROVE  \E m \in Nat : \A n \in Nat : m <= n => Cardinality(UpTo(x, n)) = Len(x)
<1>1. PICK l \in Nat : l = Len(x) /\ DOMAIN x = 1..l
  BY DEF IsList
<1>2. IsFiniteSet(1..l) /\ Cardinality(1..l) = l
  <2>1. 1 \in Int /\ l \in Int
    OBVIOUS
  <2>2. IsFiniteSet(1..l) /\ Cardinality(1..l) = IF 1 > l THEN 0 ELSE l - 1 + 1
    BY <2>1, FS_Interval
  <2>3. (IF 1 > l THEN 0 ELSE l - 1 + 1) = l
    OBVIOUS
  <2> QED BY <2>2, <2>3
<1> DEFINE R == {x[k] : k \in DOMAIN x}
<1>3. CASE l = 0
  <2>1. \A n \in Nat : UpTo(x, n) = 1..l
    BY <1>1, <1>3 DEF UpTo
  <2> QED BY <1>1, <1>2, <2>1
<1>4. CASE l # 0
  <2>1. R \subseteq Nat /\ R # {}
    <3>1. 1 \in DOMAIN x
      BY <1>1, <1>4
    <3> QED BY <3>1
  <2>2. IsFiniteSet(R)
    <3> DEFINE f == [k \in DOMAIN x |-> x[k]]
    <3>1. f \in Surjection(DOMAIN x, R)
      BY DEF Surjection
    <3> QED BY <1>1, <1>2, <3>1, FS_Surjection
  <2>3. PICK m \in R : \A y \in R : y <= m
    BY <2>1, <2>2, GreatestOfFinite
  <2>4. m \in Nat
    BY <2>1
  <2>5. \A n \in Nat : m <= n => UpTo(x, n) = 1..l
    <3> TAKE n \in Nat
    <3> HAVE m <= n
    <3>1. ASSUME NEW k \in 1..l PROVE x[k] \in Nat /\ x[k] <= n
      <4>1. PICK a \in Nat : a = x[k] /\ a \in R
        BY <1>1
      <4>2. a <= m
        BY <2>3, <4>1
      <4>3. a <= n
        BY <2>4, <4>2
      <4> QED BY <4>1, <4>3
    <3> QED BY <1>1, <3>1 DEF UpTo
  <2> QED BY <1>1, <1>2, <2>4, <2>5
<1> QED BY <1>3, <1>4

\* Lists with the same names as often are sorted to the same list.
LEMMA PermutedSortAlike ==
    ASSUME NEW x, NEW y, IsList(x), IsList(y), Permuted(x, y),
           \A k \in DOMAIN x : x[k] \in Name, \A k \in DOMAIN y : y[k] \in Name
    PROVE  CanonicalSorted(x) = CanonicalSorted(y) /\ Len(x) = Len(y)
<1>0. Name \subseteq Nat
  BY JobSpecAssumption
<1>1. (\A k \in DOMAIN x : x[k] \in Nat) /\ (\A k \in DOMAIN y : y[k] \in Nat)
  BY <1>0
<1>2. \A v \in Nat : Count(x, v) = Count(y, v)
  <2> TAKE v \in Nat
  <2>1. CASE v \in Name
    BY <2>1 DEF Permuted
  <2>2. CASE v \notin Name
    <3>1. {k \in DOMAIN x : x[k] = v} = {} /\ {k \in DOMAIN y : y[k] = v} = {}
      BY <2>2
    <3> QED BY <3>1 DEF Count
  <2> QED BY <2>1, <2>2
<1>3. ASSUME NEW n \in Nat
      PROVE  /\ Cardinality(Below(x, n)) = Cardinality(Below(y, n))
             /\ Cardinality(UpTo(x, n)) = Cardinality(UpTo(y, n))
  <2> DEFINE T == {k \in 0..n : Cardinality(Below(x, k)) = Cardinality(Below(y, k))}
  <2>1. 0 \in T
    BY <1>1, PlacesCounted
  <2>2. ASSUME NEW k \in 1..n, k - 1 \in T PROVE k \in T
    <3>1. PICK j \in Nat : j = k - 1 /\ k = j + 1
      <4>1. k - 1 \in Nat /\ k = (k - 1) + 1
        OBVIOUS
      <4> QED BY <4>1
    <3>2. Cardinality(Below(x, j)) = Cardinality(Below(y, j))
      BY <2>2, <3>1
    <3>3. /\ Cardinality(Below(x, k)) = Cardinality(Below(x, j)) + Count(x, j)
          /\ Cardinality(Below(y, k)) = Cardinality(Below(y, j)) + Count(y, j)
      <4>1. /\ Cardinality(Below(x, j + 1)) = Cardinality(UpTo(x, j))
            /\ Cardinality(UpTo(x, j)) = Cardinality(Below(x, j)) + Count(x, j)
        BY <1>1, PlacesCounted
      <4>2. /\ Cardinality(Below(y, j + 1)) = Cardinality(UpTo(y, j))
            /\ Cardinality(UpTo(y, j)) = Cardinality(Below(y, j)) + Count(y, j)
        BY <1>1, PlacesCounted
      <4> QED BY <3>1, <4>1, <4>2
    <3>4. Count(x, j) = Count(y, j)
      BY <1>2
    <3>5. k \in 0..n
      OBVIOUS
    <3> QED BY <3>2, <3>3, <3>4, <3>5
  <2>3. Cardinality(Below(x, n)) = Cardinality(Below(y, n))
    <3>1. \A k \in 0..n : k \in T
      <4> HIDE DEF T
      <4> QED BY <2>1, <2>2, Induction
    <3>2. n \in 0..n
      OBVIOUS
    <3> QED BY <3>1, <3>2
  <2>4. Count(x, n) = Count(y, n)
    BY <1>2
  <2>5. /\ Cardinality(UpTo(x, n)) = Cardinality(Below(x, n)) + Count(x, n)
        /\ Cardinality(UpTo(y, n)) = Cardinality(Below(y, n)) + Count(y, n)
    BY <1>1, PlacesCounted
  <2> QED BY <2>3, <2>4, <2>5
<1>4. Len(x) = Len(y)
  <2>1. PICK m \in Nat : \A n \in Nat : m <= n => Cardinality(UpTo(x, n)) = Len(x)
    BY <1>1, AllBelow
  <2>2. PICK p \in Nat : \A n \in Nat : p <= n => Cardinality(UpTo(y, n)) = Len(y)
    BY <1>1, AllBelow
  <2>3. PICK n \in Nat : m <= n /\ p <= n
    <3>1. m + p \in Nat /\ m <= m + p /\ p <= m + p
      OBVIOUS
    <3> QED BY <3>1
  <2> QED BY <1>3, <2>1, <2>2, <2>3
<1>5. DOMAIN x = DOMAIN y /\ \A i \in DOMAIN x : i \in Nat
  BY <1>4 DEF IsList
<1>6. ASSUME NEW i \in DOMAIN x PROVE CanonicalSorted(x)[i] = CanonicalSorted(y)[i]
  <2>1. PICK v \in Nat : /\ v = CanonicalSorted(x)[i]
                         /\ Cardinality(Below(x, v)) < i /\ i <= Cardinality(UpTo(x, v))
    BY <1>1, SortedMembers
  <2>2. PICK w \in Nat : /\ w = CanonicalSorted(y)[i]
                         /\ Cardinality(Below(y, w)) < i /\ i <= Cardinality(UpTo(y, w))
    BY <1>1, <1>5, SortedMembers
  <2>3. Cardinality(Below(x, w)) < i /\ i <= Cardinality(UpTo(x, w))
    BY <1>3, <2>2
  <2> QED BY <1>1, <1>5, <2>1, <2>2, <2>3, PlaceIsUnique
<1>7. /\ CanonicalSorted(x) = [i \in DOMAIN x |-> CanonicalSorted(x)[i]]
      /\ CanonicalSorted(y) = [i \in DOMAIN y |-> CanonicalSorted(y)[i]]
  BY <1>1, SortedMembers
<1> QED BY <1>4, <1>5, <1>6, <1>7
-----------------------------------------------------------------------------
(* What an accepted document is, and what is read back from its object.     *)

LEMMA DurationSet == Duration = {NULL} \union Seq(Part)
BY DEF Duration, Part, Digit

\* A duration in which no problem was found is what was written or left out.
LEMMA DurationSaid ==
    ASSUME NEW w \in Duration, NEW fallback \in Nat
    PROVE  /\ DurationOf(w, fallback) \in Nat
           /\ DurationProblems(w) = {} =>
                /\ w = NULL => DurationOf(w, fallback) = fallback
                /\ w # NULL => /\ DurationOf(w, fallback) = ParseDuration(w)
                               /\ ParseDuration(w) \in 1..MaxJobTimeout
<1>1. CASE w = NULL
  BY <1>1 DEF DurationOf
<1>2. CASE w # NULL
  <2>1. w \in Seq(Part)
    BY <1>2, DurationSet
  <2>2. PICK m \in Nat, t \in Nat : m = MaxDurationMillis /\ t = MaxJobTimeout /\ t <= m
    BY LimitFacts, JobSpecAssumption
  <2>3. PICK x \in {Refused} \union 1..m : x = ParseDuration(w)
    BY <2>1, <2>2, ParsedIsPositive
  <2>4. MillisProblems(x) = {} => x \in 1..t
    <3>1. MillisProblems(x) = {} => x # Refused /\ ~(x > t)
      BY <2>2 DEF MillisProblems, When
    <3> QED BY <2>2, <3>1
  <2>5. DurationOf(w, fallback) = IF MillisProblems(x) = {} THEN x ELSE fallback
    BY <1>2, <2>3 DEF DurationOf, OrFallback
  <2>6. DurationProblems(w) = MillisProblems(x)
    BY <1>2, <2>3 DEF DurationProblems
  <2>7. x \in 1..t => x \in Nat
    BY <2>2
  <2> QED BY <1>2, <2>2, <2>3, <2>4, <2>5, <2>6, <2>7
<1> QED BY <1>1, <1>2

RetrySaid(r) ==
    /\ r.max \in 0..MaxSteps /\ r.max # NULL
    /\ r.initial \in Duration /\ DurationProblems(r.initial) = {}
    /\ r.maxDelay \in Duration /\ DurationProblems(r.maxDelay) = {}
StepSaid(w) ==
    /\ w.name \in Name /\ w.run # <<>> /\ w.timeout \in Duration
    /\ w.needs = NULL \/ IsList(w.needs)
    /\ w.retry # NULL => RetrySaid(w.retry)

\* What no problem was found in.
LEMMA StepAccepted ==
    ASSUME NEW d \in Docs, d.steps # NULL, NEW i \in DOMAIN d.steps,
           StepProblems(d.steps[i]) = {}
    PROVE  StepSaid(d.steps[i])
<1> DEFINE w == d.steps[i]
<1>1. /\ NameProblems(w.name) = {} /\ RunProblems(w.run, w.shell) = {}
      /\ RetryProblems(w.retry) = {}
  BY DEF StepProblems
<1>2. w.name \in Name
  BY <1>1 DEF NameProblems, When
<1>3. w.run # <<>>
  BY <1>1 DEF RunProblems
<1>4. /\ w.timeout \in Duration /\ (w.needs = NULL \/ IsList(w.needs))
      /\ w.retry # NULL => w.retry.initial \in Duration /\ w.retry.maxDelay \in Duration
  BY DocumentsAssumption
<1>5. ASSUME w.retry # NULL PROVE RetrySaid(w.retry)
  <2>1. /\ When(w.retry.max = NULL, "PQ1003") = {}
        /\ When(w.retry.max # NULL /\ w.retry.max \notin 0..MaxSteps, "PQ1004") = {}
        /\ DurationProblems(w.retry.initial) = {} /\ DurationProblems(w.retry.maxDelay) = {}
    BY <1>1, <1>5 DEF RetryProblems
  <2>2. w.retry.max \in 0..MaxSteps /\ w.retry.max # NULL
    BY <2>1 DEF When
  <2> QED BY <1>4, <1>5, <2>1, <2>2 DEF RetrySaid
<1> QED BY <1>2, <1>3, <1>4, <1>5 DEF StepSaid

LEMMA AcceptedSays ==
    ASSUME NEW d \in Docs, Accepted(d)
    PROVE  /\ d.name \in Name /\ IsList(d.steps)
           /\ Decode(d).name = d.name
           /\ Decode(d).timeout \in 1..MaxJobTimeout
           /\ Decode(d).maxConcurrent \in 1..MaxSteps
           /\ Decode(d).inherit \in Seq(Name)
           /\ Decode(d).steps = [i \in DOMAIN d.steps |-> DecodeStep(d.steps[i])]
           /\ CrossProblems(Decode(d).steps) = {}
           /\ \A i \in DOMAIN d.steps : StepSaid(d.steps[i])
<1>1. Problems(d) = {}
  BY DEF Accepted
<1>2. FieldProblems(d) = {} /\ CrossProblems(Decode(d).steps) = {}
  BY <1>1 DEF Problems
<1>3. /\ NameProblems(d.name) = {} /\ StepsProblems(d.steps) = {} /\ DurationProblems(d.timeout) = {}
      /\ When(d.maxConcurrent # NULL /\ d.maxConcurrent \notin 1..MaxSteps, "PQ1030") = {}
  BY <1>2 DEF FieldProblems
<1>4. d.name \in Name
  BY <1>3 DEF NameProblems, When
<1>5. d.steps # NULL /\ UNION {StepProblems(d.steps[i]) : i \in DOMAIN d.steps} = {}
  BY <1>3 DEF StepsProblems
<1>6. /\ IsList(d.steps) /\ d.timeout \in Duration /\ d.inherit \in {NULL} \union Seq(Name)
  BY <1>5, DocumentsAssumption
<1>7. \A i \in DOMAIN d.steps : StepSaid(d.steps[i])
  <2>1. \A i \in DOMAIN d.steps : StepProblems(d.steps[i]) = {}
    BY <1>5
  <2> QED BY <1>5, <2>1, StepAccepted
<1>8. Decode(d).maxConcurrent \in 1..MaxSteps
  <2>1. d.maxConcurrent = NULL \/ d.maxConcurrent \in 1..MaxSteps
    BY <1>3 DEF When
  <2>2. 1 \in 1..MaxSteps
    BY JobSpecAssumption
  <2> QED BY <2>1, <2>2 DEF Decode
<1>9. Decode(d).timeout \in 1..MaxJobTimeout
  <2>1. PICK t \in Nat, f \in Nat : t = MaxJobTimeout /\ f = DefaultTimeout /\ f \in 1..t
    <3>1. PICK m \in Nat : m = MaxDurationMillis
      BY LimitFacts
    <3>2. MaxJobTimeout \in Nat
      BY <3>1, JobSpecAssumption
    <3> QED BY <3>2, JobSpecAssumption
  <2>2. DurationOf(d.timeout, f) \in 1..t
    BY <1>3, <1>6, <2>1, DurationSaid
  <2> QED BY <2>1, <2>2 DEF Decode
<1>10. Decode(d).inherit \in Seq(Name)
  <2>1. <<>> \in Seq(Name)
    OBVIOUS
  <2> QED BY <1>6, <2>1 DEF Decode
<1>11. /\ Decode(d).steps = [i \in DOMAIN d.steps |-> DecodeStep(d.steps[i])]
       /\ Decode(d).name = d.name
  BY DEF Decode
<1> QED BY <1>2, <1>4, <1>6, <1>7, <1>8, <1>9, <1>10, <1>11
\* The object's members, as FromIR reads them.
LEMMA ObjectMembers ==
    ASSUME NEW job
    PROVE  LET o == Canonical(job) IN
           /\ o["schema"] = SchemaName
           /\ o["name"] = job.name /\ o["max_concurrent"] = job.maxConcurrent
           /\ o["timeout_ms"] = job.timeout
           /\ o["steps"] = [i \in DOMAIN job.steps |-> CanonicalStep(job.steps[i])]
           /\ {"schema", "name", "timeout_ms", "max_concurrent", "steps"} \subseteq DOMAIN o
           /\ DOMAIN o \subseteq JobKeys
           /\ Read(o, "inherit_env", <<>>) =
                IF Len(job.inherit) > 0 THEN CanonicalSorted(job.inherit) ELSE <<>>
<1> DEFINE all == [schema |-> SchemaName, name |-> job.name, timeout_ms |-> job.timeout,
                   max_concurrent |-> job.maxConcurrent,
                   steps |-> [i \in DOMAIN job.steps |-> CanonicalStep(job.steps[i])],
                   inherit_env |-> CanonicalSorted(job.inherit)]
           out == Unless(Len(job.inherit) > 0, "inherit_env")
<1>1. Canonical(job) = [k \in DOMAIN all \ out |-> all[k]]
  BY DEF Canonical, Without
<1>2. out \subseteq {"inherit_env"}
  BY DEF Unless
<1>3. DOMAIN all = JobKeys
  BY DEF JobKeys
<1>4. \A k \in {"schema", "name", "timeout_ms", "max_concurrent", "steps"} :
          k \in DOMAIN all \ out /\ Canonical(job)[k] = all[k]
  BY <1>1, <1>2, <1>3 DEF JobKeys
<1>5. /\ "inherit_env" \in JobKeys
      /\ "inherit_env" \in out <=> ~(Len(job.inherit) > 0)
  BY DEF JobKeys, Unless
<1>6. DOMAIN Canonical(job) = JobKeys \ out
  BY <1>1, <1>3
<1>7. "inherit_env" \in DOMAIN Canonical(job) =>
         Canonical(job)["inherit_env"] = CanonicalSorted(job.inherit)
  BY <1>1, <1>3, <1>6
<1> HIDE DEF out, all
<1>8. Read(Canonical(job), "inherit_env", <<>>) =
        IF Len(job.inherit) > 0 THEN CanonicalSorted(job.inherit) ELSE <<>>
  BY <1>5, <1>6, <1>7 DEF Read
<1>9. DOMAIN Canonical(job) \subseteq JobKeys
  BY <1>6
<1>10. /\ Canonical(job)["schema"] = SchemaName
       /\ Canonical(job)["name"] = job.name
       /\ Canonical(job)["max_concurrent"] = job.maxConcurrent
       /\ Canonical(job)["timeout_ms"] = job.timeout
       /\ Canonical(job)["steps"] = [i \in DOMAIN job.steps |-> CanonicalStep(job.steps[i])]
  BY <1>4 DEF all
<1>11. {"schema", "name", "timeout_ms", "max_concurrent", "steps"} \subseteq DOMAIN Canonical(job)
  <2>1. DOMAIN all \ out = DOMAIN Canonical(job)
    BY <1>1, Zenon
  <2> QED BY <1>4, <2>1
<1> QED BY <1>8, <1>9, <1>10, <1>11

LEMMA StepMembers ==
    ASSUME NEW s
    PROVE  LET o == CanonicalStep(s) IN
           /\ IrStep(o).name = s.name
           /\ IrStep(o).run = s.run /\ IrStep(o).shell = s.shell
           /\ IrStep(o).retry = IF s.retry = NULL THEN NULL ELSE IrRetry(CanonicalRetry(s.retry))
           /\ IrStep(o).needs = IF Len(s.needs) > 0 THEN CanonicalSorted(s.needs) ELSE <<>>
           /\ IrStep(o).timeout = IF s.timeout > 0 THEN s.timeout ELSE 0
           /\ DOMAIN o \subseteq StepKeys
<1> DEFINE all == [name |-> s.name, run |-> s.run, shell |-> s.shell, timeout_ms |-> s.timeout,
                   retry |-> CanonicalRetry(s.retry), needs |-> CanonicalSorted(s.needs)]
           out == Unless(s.timeout > 0, "timeout_ms") \union Unless(s.retry # NULL, "retry")
                    \union Unless(Len(s.needs) > 0, "needs")
           o == CanonicalStep(s)
<1>1. o = [k \in DOMAIN all \ out |-> all[k]]
  BY DEF CanonicalStep, Without
<1>2. DOMAIN all = StepKeys
  BY DEF StepKeys
<1>3. DOMAIN o = StepKeys \ out
  BY <1>1, <1>2
<1>4. \A z : \A k \in StepKeys : Read(o, k, z) = IF k \in out THEN z ELSE all[k]
  BY <1>1, <1>3, <1>2 DEF Read
<1>5. /\ "timeout_ms" \in out <=> ~(s.timeout > 0)
      /\ "retry" \in out <=> s.retry = NULL
      /\ "needs" \in out <=> ~(Len(s.needs) > 0)
      /\ "name" \notin out /\ "run" \notin out /\ "shell" \notin out
  BY DEF Unless
<1> HIDE DEF o, out
<1>6. /\ Read(o, "name", NULL) = s.name
      /\ Read(o, "run", <<>>) = s.run /\ Read(o, "shell", FALSE) = s.shell
      /\ Read(o, "retry", NULL) = IF s.retry = NULL THEN NULL ELSE CanonicalRetry(s.retry)
      /\ Read(o, "needs", <<>>) = IF Len(s.needs) > 0 THEN CanonicalSorted(s.needs) ELSE <<>>
      /\ Read(o, "timeout_ms", 0) = IF s.timeout > 0 THEN s.timeout ELSE 0
  BY <1>4, <1>5 DEF StepKeys
<1>7. IrRetry(NULL) = NULL
  BY DEF IrRetry
<1>8. DOMAIN o \subseteq StepKeys
  BY <1>3
<1> QED BY <1>6, <1>7, <1>8 DEF IrStep, o
LEMMA EmptySorts ==
    ASSUME NEW names, IsList(names), ~(Len(names) > 0)
    PROVE  CanonicalSorted(names) = <<>>
<1>1. DOMAIN names = {}
  BY DEF IsList
<1> DEFINE place(i) == CHOOSE n \in {names[k] : k \in DOMAIN names} :
               /\ Cardinality({k \in DOMAIN names : names[k] < n}) < i
               /\ i <= Cardinality({k \in DOMAIN names : names[k] <= n})
<1>2. CanonicalSorted(names) = [i \in DOMAIN names |-> place(i)]
  BY DEF CanonicalSorted
<1> HIDE DEF place
<1>3. [i \in {} |-> place(i)] = <<>>
  OBVIOUS
<1> QED BY <1>1, <1>2, <1>3

LEMMA RetryReadsBack ==
    ASSUME NEW r, r # NULL, RetrySaid(r)
    PROVE  /\ DecodeRetry(r) \in [max : Nat, initial : Nat, maxDelay : Nat]
           /\ DecodeRetry(r) # NULL
           /\ DecodeRetry(r).max = r.max
           /\ DecodeRetry(r).initial = DurationOf(r.initial, DefaultInitial)
           /\ DecodeRetry(r).maxDelay = DurationOf(r.maxDelay, DefaultMaxDelay)
           /\ IrRetry(CanonicalRetry(DecodeRetry(r))) = DecodeRetry(r)
<1>1. PICK i \in Nat, m \in Nat, x \in Nat :
         /\ i = DurationOf(r.initial, DefaultInitial) /\ m = DurationOf(r.maxDelay, DefaultMaxDelay)
         /\ x = r.max
  <2>1. DefaultInitial \in Nat /\ DefaultMaxDelay \in Nat
    <3>1. PICK M \in Nat : M = MaxDurationMillis
      BY LimitFacts
    <3>2. PICK t \in Nat : t = MaxJobTimeout
      BY <3>1, JobSpecAssumption
    <3>3. PICK d \in Nat : d = DefaultMaxDelay
      BY <3>2, JobSpecAssumption
    <3>4. DefaultInitial \in 1..d
      BY <3>3, JobSpecAssumption
    <3> QED BY <3>3, <3>4
  <2>2. MaxSteps \in Nat
    BY JobSpecAssumption
  <2>3. r.max \in Nat /\ r.initial \in Duration /\ r.maxDelay \in Duration
    BY <2>2 DEF RetrySaid
  <2>4. /\ DurationOf(r.initial, DefaultInitial) \in Nat
        /\ DurationOf(r.maxDelay, DefaultMaxDelay) \in Nat
    BY <2>1, <2>3, DurationSaid
  <2> QED BY <2>3, <2>4
<1>2. DecodeRetry(r) = [max |-> x, initial |-> i, maxDelay |-> m]
  BY <1>1 DEF DecodeRetry, RetrySaid
<1> DEFINE s == [max |-> x, initial |-> i, maxDelay |-> m]
<1>3. s \in [max : Nat, initial : Nat, maxDelay : Nat]
  OBVIOUS
<1>4. s # NULL
  BY <1>3, DocumentsAssumption
<1>5. CanonicalRetry(s) = [max |-> x, initial_ms |-> i, max_delay_ms |-> m]
  <2>1. s.max = x /\ s.initial = i /\ s.maxDelay = m
    OBVIOUS
  <2> HIDE DEF s
  <2> QED BY <1>4, <2>1 DEF CanonicalRetry
<1> DEFINE c == [max |-> x, initial_ms |-> i, max_delay_ms |-> m]
<1>6. c # NULL
  <2>1. c \in [max : Nat, initial_ms : Nat, max_delay_ms : Nat]
    OBVIOUS
  <2> QED BY <2>1, DocumentsAssumption
<1>7. Read(c, "max", 0) = x /\ Read(c, "initial_ms", 0) = i /\ Read(c, "max_delay_ms", 0) = m
  BY DEF Read
<1>8. IrRetry(c) = s
  <2> HIDE DEF c
  <2> QED BY <1>6, <1>7 DEF IrRetry
<1>9. s.max = x /\ s.initial = i /\ s.maxDelay = m
  OBVIOUS
<1> HIDE DEF s, c
<1>10. DecodeRetry(r) = s
  BY <1>2 DEF s
<1>11. IrRetry(CanonicalRetry(s)) = s
  BY <1>5, <1>8 DEF c
<1> QED BY <1>1, <1>3, <1>4, <1>9, <1>10, <1>11

\* A step, read back, is the step with its needs in order.
LEMMA StepReadsBack ==
    ASSUME NEW w, StepSaid(w), NEW s, s = DecodeStep(w)
    PROVE  /\ IsList(s.needs) /\ DOMAIN CanonicalStep(s) \subseteq StepKeys
           /\ IrStep(CanonicalStep(s)) = [s EXCEPT !.needs = CanonicalSorted(s.needs)]
<1> DEFINE o == CanonicalStep(s)
<1>1. /\ IrStep(o).name = s.name
      /\ IrStep(o).run = s.run /\ IrStep(o).shell = s.shell
      /\ IrStep(o).retry = IF s.retry = NULL THEN NULL ELSE IrRetry(CanonicalRetry(s.retry))
      /\ IrStep(o).needs = IF Len(s.needs) > 0 THEN CanonicalSorted(s.needs) ELSE <<>>
      /\ IrStep(o).timeout = IF s.timeout > 0 THEN s.timeout ELSE 0
      /\ DOMAIN o \subseteq StepKeys
  BY StepMembers
<1>2. s = [name |-> w.name, run |-> w.run, shell |-> w.shell,
           timeout |-> DurationOf(w.timeout, 0), retry |-> DecodeRetry(w.retry),
           needs |-> IF w.needs = NULL THEN <<>> ELSE w.needs]
  BY DEF DecodeStep
<1>3. IsList(s.needs)
  <2>1. IsList(<<>>)
    BY DEF IsList
  <2> QED BY <1>2, <2>1 DEF StepSaid
<1>4. IrStep(o).needs = CanonicalSorted(s.needs)
  BY <1>1, <1>3, EmptySorts
<1>5. IrStep(o).timeout = s.timeout
  <2>1. 0 \in Nat /\ w.timeout \in Duration
    BY DEF StepSaid
  <2>2. PICK t \in Nat : t = s.timeout
    BY <1>2, <2>1, DurationSaid
  <2> QED BY <1>1, <2>2
<1>6. IrStep(o).retry = s.retry
  <2>1. CASE w.retry = NULL
    <3>1. s.retry = NULL
      BY <1>2, <2>1 DEF DecodeRetry
    <3> QED BY <1>1, <3>1
  <2>2. CASE w.retry # NULL
    <3>1. s.retry # NULL /\ IrRetry(CanonicalRetry(s.retry)) = s.retry
      <4>1. s.retry = DecodeRetry(w.retry)
        BY <1>2
      <4> QED BY <2>2, <4>1, RetryReadsBack DEF StepSaid
    <3> QED BY <1>1, <3>1
  <2> QED BY <2>1, <2>2
<1>7. DOMAIN IrStep(o) = {"name", "run", "shell", "timeout", "retry", "needs"}
      /\ IrStep(o) = [name |-> IrStep(o).name, run |-> IrStep(o).run, shell |-> IrStep(o).shell,
                      timeout |-> IrStep(o).timeout, retry |-> IrStep(o).retry,
                      needs |-> IrStep(o).needs]
  BY DEF IrStep
<1>8. [s EXCEPT !.needs = CanonicalSorted(s.needs)] =
        [name |-> s.name, run |-> s.run, shell |-> s.shell, timeout |-> s.timeout,
         retry |-> s.retry, needs |-> CanonicalSorted(s.needs)]
  BY <1>2
<1> QED BY <1>1, <1>3, <1>4, <1>5, <1>6, <1>7, <1>8
\* What the laws are about.
LEMMA SaidOf ==
    ASSUME NEW s \in Said
    PROVE  /\ s.doc \in Docs /\ Accepted(s.doc)
           /\ s.job = Decode(s.doc) /\ s.object = Canonical(s.job)
BY DEF Said

\* The steps of an accepted document name steps, and are read back in order.
LEMMA JobSays ==
    ASSUME NEW d \in Docs, Accepted(d)
    PROVE  LET job == Decode(d) IN
           /\ IsList(job.steps) /\ IsList(job.inherit)
           /\ DOMAIN job.steps = DOMAIN d.steps /\ Len(job.steps) = Len(d.steps)
           /\ job.steps = [i \in DOMAIN job.steps |-> job.steps[i]]
           /\ \A k \in DOMAIN job.inherit : job.inherit[k] \in Name
           /\ \A i, j \in DOMAIN job.steps : job.steps[i].name = job.steps[j].name => i = j
           /\ \A i \in DOMAIN job.steps :
                 /\ StepSaid(d.steps[i]) /\ job.steps[i] = DecodeStep(d.steps[i])
                 /\ IsList(job.steps[i].needs)
                 /\ \A n \in DOMAIN job.steps[i].needs : job.steps[i].needs[n] \in Name
<1> DEFINE job == Decode(d)
<1>1. /\ IsList(d.steps) /\ job.inherit \in Seq(Name)
      /\ job.steps = [i \in DOMAIN d.steps |-> DecodeStep(d.steps[i])]
      /\ CrossProblems(job.steps) = {}
      /\ \A i \in DOMAIN d.steps : StepSaid(d.steps[i])
  BY AcceptedSays
<1> HIDE DEF job
<1>2. DOMAIN job.steps = DOMAIN d.steps
      /\ \A i \in DOMAIN d.steps : job.steps[i] = DecodeStep(d.steps[i])
  BY <1>1
<1>3. PICK l \in Nat : l = Len(d.steps) /\ DOMAIN d.steps = 1..l
  BY <1>1 DEF IsList
<1>4. Len(job.steps) = l
  <2>1. job.steps = [i \in 1..l |-> job.steps[i]]
    BY <1>1, <1>3
  <2>2. job.steps \in Seq({job.steps[i] : i \in 1..l})
    BY <2>1
  <2> QED BY <2>1, <2>2
<1>5. /\ IsList(job.inherit) /\ \A k \in DOMAIN job.inherit : job.inherit[k] \in Name
  BY <1>1 DEF IsList
<1>6. /\ \A i, j \in DOMAIN job.steps : ~(i # j /\ job.steps[i].name = job.steps[j].name)
      /\ \A i \in DOMAIN job.steps : \A n \in DOMAIN job.steps[i].needs :
            \E j \in DOMAIN job.steps : job.steps[j].name = job.steps[i].needs[n]
  <2>1. /\ When(\E i, j \in DOMAIN job.steps : i # j /\ job.steps[i].name = job.steps[j].name, "PQ2001") = {}
        /\ When(\E i \in DOMAIN job.steps : \E n \in DOMAIN job.steps[i].needs :
                   \A j \in DOMAIN job.steps : job.steps[j].name # job.steps[i].needs[n], "PQ2002") = {}
    BY <1>1 DEF CrossProblems
  <2>2. ~(\E i, j \in DOMAIN job.steps : i # j /\ job.steps[i].name = job.steps[j].name)
    BY <2>1 DEF When
  <2>3. ~(\E i \in DOMAIN job.steps : \E n \in DOMAIN job.steps[i].needs :
                   \A j \in DOMAIN job.steps : job.steps[j].name # job.steps[i].needs[n])
    BY <2>1 DEF When
  <2> QED BY <2>2, <2>3
<1>7. ASSUME NEW i \in DOMAIN job.steps
      PROVE  /\ job.steps[i].name \in Name /\ IsList(job.steps[i].needs)
  <2>1. StepSaid(d.steps[i]) /\ job.steps[i] = DecodeStep(d.steps[i])
    BY <1>1, <1>2
  <2>2. IsList(job.steps[i].needs)
    BY <2>1, StepReadsBack
  <2>3. job.steps[i].name = d.steps[i].name
    BY <2>1 DEF DecodeStep
  <2> QED BY <2>1, <2>2, <2>3 DEF StepSaid
<1>8. \A i \in DOMAIN job.steps : \A n \in DOMAIN job.steps[i].needs :
          job.steps[i].needs[n] \in Name
  BY <1>6, <1>7
<1>9. IsList(job.steps) /\ job.steps = [i \in DOMAIN job.steps |-> job.steps[i]]
  BY <1>1, <1>2, <1>3, <1>4 DEF IsList
<1>10. \A i, j \in DOMAIN job.steps : job.steps[i].name = job.steps[j].name => i = j
  BY <1>6
<1>11. \A i \in DOMAIN job.steps :
          StepSaid(d.steps[i]) /\ job.steps[i] = DecodeStep(d.steps[i])
  BY <1>1, <1>2
<1>12. DOMAIN job.steps = DOMAIN d.steps /\ Len(job.steps) = Len(d.steps)
  BY <1>2, <1>3, <1>4
<1> QED BY <1>5, <1>7, <1>8, <1>9, <1>10, <1>11, <1>12 DEF job

\* Reading back the document that was hashed.
LEMMA ReadsBack ==
    ASSUME NEW s \in Said
    PROVE  ReadBackIsTheJob(s)
<1> DEFINE d == s.doc
           job == s.job
           o == s.object
<1>1. /\ d \in Docs /\ Accepted(d) /\ job = Decode(d) /\ o = Canonical(job)
  BY SaidOf
<1> HIDE DEF d, job, o
<1>2. /\ o["schema"] = SchemaName
      /\ o["name"] = job.name /\ o["max_concurrent"] = job.maxConcurrent
      /\ o["timeout_ms"] = job.timeout
      /\ o["steps"] = [i \in DOMAIN job.steps |-> CanonicalStep(job.steps[i])]
      /\ {"schema", "name", "timeout_ms", "max_concurrent", "steps"} \subseteq DOMAIN o
      /\ DOMAIN o \subseteq JobKeys
      /\ Read(o, "inherit_env", <<>>) =
           IF Len(job.inherit) > 0 THEN CanonicalSorted(job.inherit) ELSE <<>>
  BY <1>1, ObjectMembers
<1>3. Read(o, "steps", <<>>) = o["steps"] /\ DOMAIN o["steps"] = DOMAIN job.steps
      /\ Read(o, "timeout_ms", 0) = job.timeout /\ Read(o, "max_concurrent", 0) = job.maxConcurrent
  BY <1>2 DEF Read
<1>a. \A i \in DOMAIN job.steps :
         StepSaid(d.steps[i]) /\ job.steps[i] = DecodeStep(d.steps[i])
  BY <1>1, JobSays
<1>4. \A i \in DOMAIN job.steps :
         /\ o["steps"][i] = CanonicalStep(job.steps[i])
         /\ DOMAIN CanonicalStep(job.steps[i]) \subseteq StepKeys
         /\ IrStep(o["steps"][i]) =
              [job.steps[i] EXCEPT !.needs = CanonicalSorted(job.steps[i].needs)]
  <2> TAKE i \in DOMAIN job.steps
  <2>1. StepSaid(d.steps[i]) /\ job.steps[i] = DecodeStep(d.steps[i])
    BY <1>a
  <2>2. /\ DOMAIN CanonicalStep(job.steps[i]) \subseteq StepKeys
        /\ IrStep(CanonicalStep(job.steps[i])) =
             [job.steps[i] EXCEPT !.needs = CanonicalSorted(job.steps[i].needs)]
    BY <2>1, StepReadsBack
  <2>3. o["steps"][i] = CanonicalStep(job.steps[i])
    BY <1>2
  <2> QED BY <2>2, <2>3
<1>5. Readable(o)
  BY <1>2, <1>3, <1>4 DEF Readable
<1>6. Read(o, "inherit_env", <<>>) = CanonicalSorted(job.inherit)
  <2>1. IsList(job.inherit)
    BY <1>1, JobSays
  <2> QED BY <1>2, <2>1, EmptySorts
<1>7. FromIR(o) = [name |-> job.name, timeout |-> job.timeout,
                   maxConcurrent |-> job.maxConcurrent, inherit |-> CanonicalSorted(job.inherit),
                   steps |-> [i \in DOMAIN job.steps |->
                       [job.steps[i] EXCEPT !.needs = CanonicalSorted(job.steps[i].needs)]]]
  BY <1>2, <1>3, <1>4, <1>6 DEF FromIR
<1>8. job = [name |-> job.name, timeout |-> job.timeout, maxConcurrent |-> job.maxConcurrent,
             inherit |-> job.inherit, steps |-> job.steps]
  BY <1>1 DEF Decode
<1> DEFINE sorted == [i \in DOMAIN job.steps |->
                        [job.steps[i] EXCEPT !.needs = CanonicalSorted(job.steps[i].needs)]]
<1>9. Sorted(job) = [job EXCEPT !.inherit = CanonicalSorted(job.inherit), !.steps = sorted]
  <2>1. Sorted(job) =
          [job EXCEPT !.inherit = CanonicalSorted(job.inherit),
                      !.steps = [i \in DOMAIN job.steps |->
                         [job.steps[i] EXCEPT !.needs = CanonicalSorted(job.steps[i].needs)]]]
    BY DEF Sorted
  <2> QED BY <2>1
<1>10. FromIR(o) = [name |-> job.name, timeout |-> job.timeout,
                    maxConcurrent |-> job.maxConcurrent, inherit |-> CanonicalSorted(job.inherit),
                    steps |-> sorted]
  BY <1>7
<1> HIDE DEF sorted
<1>11. FromIR(o) = Sorted(job)
  BY <1>8, <1>9, <1>10
<1> QED BY <1>5, <1>11 DEF ReadBackIsTheJob, o, job
\* The steps read back, one by one.
LEMMA FrozenSteps ==
    ASSUME NEW s \in Said, NEW frozen, frozen = FromIR(s.object).steps
    PROVE  /\ DOMAIN frozen = DOMAIN s.job.steps /\ DOMAIN frozen = DOMAIN s.doc.steps
           /\ \A i \in DOMAIN frozen :
                 /\ StepSaid(s.doc.steps[i])
                 /\ s.job.steps[i] = DecodeStep(s.doc.steps[i])
                 /\ frozen[i].name = s.job.steps[i].name
                 /\ frozen[i].run = s.job.steps[i].run
                 /\ frozen[i].retry = s.job.steps[i].retry
<1> DEFINE job == Decode(s.doc)
<1>1. s.doc \in Docs /\ Accepted(s.doc) /\ s.job = job
  BY SaidOf
<1>2. FromIR(s.object) = Sorted(job)
  BY <1>1, ReadsBack DEF ReadBackIsTheJob
<1>3. /\ DOMAIN job.steps = DOMAIN s.doc.steps
      /\ \A i \in DOMAIN job.steps :
            StepSaid(s.doc.steps[i]) /\ job.steps[i] = DecodeStep(s.doc.steps[i])
  BY <1>1, JobSays
<1>4. Sorted(job).steps =
        [i \in DOMAIN job.steps |->
            [job.steps[i] EXCEPT !.needs = CanonicalSorted(job.steps[i].needs)]]
  BY DEF Sorted, Decode
<1> HIDE DEF job
<1>5. DOMAIN frozen = DOMAIN job.steps
  BY <1>2, <1>4
<1>6. ASSUME NEW i \in DOMAIN frozen
      PROVE  /\ StepSaid(s.doc.steps[i])
             /\ job.steps[i] = DecodeStep(s.doc.steps[i])
             /\ frozen[i].name = job.steps[i].name
             /\ frozen[i].run = job.steps[i].run
             /\ frozen[i].retry = job.steps[i].retry
  <2>1. frozen[i] = [job.steps[i] EXCEPT !.needs = CanonicalSorted(job.steps[i].needs)]
    BY <1>2, <1>4, <1>5
  <2>2. StepSaid(s.doc.steps[i]) /\ job.steps[i] = DecodeStep(s.doc.steps[i])
    BY <1>3, <1>5
  <2>3. DOMAIN job.steps[i] = {"name", "run", "shell", "timeout", "retry", "needs"}
    BY <2>2 DEF DecodeStep
  <2> QED BY <2>1, <2>2, <2>3
<1> QED BY <1>1, <1>3, <1>5, <1>6

LEMMA Materialising ==
    ASSUME NEW s \in Said
    PROVE  AcceptedJobMaterialises(s)
<1> SUFFICES ASSUME NEW steps, steps = FromIR(s.object).steps PROVE Materialises(steps)
  BY DEF AcceptedJobMaterialises
<1> DEFINE job == Decode(s.doc)
<1>1. s.doc \in Docs /\ Accepted(s.doc) /\ s.job = job
  BY SaidOf
<1>2. \A i, j \in DOMAIN job.steps : job.steps[i].name = job.steps[j].name => i = j
  BY <1>1, JobSays
<1> HIDE DEF job
<1>3. /\ DOMAIN steps = DOMAIN job.steps /\ DOMAIN steps = DOMAIN s.doc.steps
      /\ \A i \in DOMAIN steps :
            /\ StepSaid(s.doc.steps[i])
            /\ job.steps[i] = DecodeStep(s.doc.steps[i])
            /\ steps[i].name = job.steps[i].name
            /\ steps[i].run = job.steps[i].run
            /\ steps[i].retry = job.steps[i].retry
  BY <1>1, FrozenSteps
<1>4. \A i \in DOMAIN steps : StepRow(steps, i).name = steps[i].name
  BY DEF StepRow
<1>5. \A i, j \in DOMAIN steps : StepRow(steps, i).name = StepRow(steps, j).name => i = j
  BY <1>2, <1>3, <1>4
<1>6. ASSUME NEW i \in DOMAIN steps
      PROVE  StepRow(steps, i).maxAttempts >= 1 /\ steps[i].run # <<>>
  <2> DEFINE w == s.doc.steps[i]
  <2>1. StepSaid(w) /\ steps[i].run = w.run /\ steps[i].retry = DecodeRetry(w.retry)
    <3>1. StepSaid(w) /\ job.steps[i] = DecodeStep(w)
      BY <1>3
    <3>2. steps[i].run = job.steps[i].run /\ steps[i].retry = job.steps[i].retry
      BY <1>3
    <3>3. DecodeStep(w).run = w.run /\ DecodeStep(w).retry = DecodeRetry(w.retry)
      BY DEF DecodeStep
    <3> QED BY <3>1, <3>2, <3>3
  <2>2. steps[i].run # <<>>
    BY <2>1 DEF StepSaid
  <2>3. steps[i].retry # NULL => steps[i].retry.max \in Nat
    <3>1. CASE w.retry = NULL
      BY <2>1, <3>1 DEF DecodeRetry
    <3>2. CASE w.retry # NULL
      <4>1. DecodeRetry(w.retry) \in [max : Nat, initial : Nat, maxDelay : Nat]
        BY <2>1, <3>2, RetryReadsBack DEF StepSaid
      <4> QED BY <2>1, <4>1
    <3> QED BY <3>1, <3>2
  <2>4. StepRow(steps, i).maxAttempts =
          IF steps[i].retry # NULL /\ steps[i].retry.max >= 0 THEN steps[i].retry.max + 1 ELSE 1
    BY DEF StepRow
  <2> QED BY <2>2, <2>3, <2>4
<1> QED BY <1>5, <1>6 DEF Materialises

\* What a job says is what its object says.
LEMMA SortedAlike ==
    ASSUME NEW x, NEW y, IsList(x), IsList(y),
           \A k \in DOMAIN x : x[k] \in Name, \A k \in DOMAIN y : y[k] \in Name
    PROVE  CanonicalSorted(x) = CanonicalSorted(y) <=> Permuted(x, y)
<1>0. Name \subseteq Nat
  BY JobSpecAssumption
<1>1. /\ \A k \in DOMAIN x : x[k] \in Nat
      /\ \A k \in DOMAIN y : y[k] \in Nat
  BY <1>0
<1>2. ASSUME CanonicalSorted(x) = CanonicalSorted(y) PROVE Permuted(x, y)
  <2>1. \A v \in Nat : Count(x, v) = Count(y, v)
    <3> TAKE v \in Nat
    <3>1. Count(CanonicalSorted(x), v) = Count(x, v)
      BY <1>1, SortedCounts
    <3>2. Count(CanonicalSorted(y), v) = Count(y, v)
      BY <1>1, SortedCounts
    <3> QED BY <1>2, <3>1, <3>2
  <2> QED BY <1>0, <2>1 DEF Permuted
<1> QED BY <1>2, PermutedSortAlike

LEMMA SameObjectSameJob ==
    ASSUME NEW s \in Said, NEW t \in Said, s.object = t.object
    PROVE  SameJob(s.job, t.job)
<1> DEFINE a == Decode(s.doc)
           b == Decode(t.doc)
<1>1. /\ s.doc \in Docs /\ Accepted(s.doc) /\ s.job = a
      /\ t.doc \in Docs /\ Accepted(t.doc) /\ t.job = b
  BY SaidOf
<1>2. Sorted(a) = Sorted(b)
  <2>1. FromIR(s.object) = Sorted(a) /\ FromIR(t.object) = Sorted(b)
    BY <1>1, ReadsBack DEF ReadBackIsTheJob
  <2> QED BY <2>1
<1>3. ASSUME NEW d
      PROVE  LET j == Decode(d) IN
             /\ Sorted(j).name = j.name /\ Sorted(j).timeout = j.timeout
             /\ Sorted(j).maxConcurrent = j.maxConcurrent
             /\ Sorted(j).inherit = CanonicalSorted(j.inherit)
             /\ Sorted(j).steps = [i \in DOMAIN j.steps |->
                    [j.steps[i] EXCEPT !.needs = CanonicalSorted(j.steps[i].needs)]]
  BY DEF Sorted, Decode
<1>4. /\ a.name = b.name /\ a.timeout = b.timeout /\ a.maxConcurrent = b.maxConcurrent
      /\ CanonicalSorted(a.inherit) = CanonicalSorted(b.inherit)
      /\ [i \in DOMAIN a.steps |-> [a.steps[i] EXCEPT !.needs = CanonicalSorted(a.steps[i].needs)]]
           = [i \in DOMAIN b.steps |-> [b.steps[i] EXCEPT !.needs = CanonicalSorted(b.steps[i].needs)]]
  <2>1. /\ Sorted(a).name = a.name /\ Sorted(a).timeout = a.timeout
        /\ Sorted(a).maxConcurrent = a.maxConcurrent
        /\ Sorted(a).inherit = CanonicalSorted(a.inherit)
        /\ Sorted(a).steps = [i \in DOMAIN a.steps |->
               [a.steps[i] EXCEPT !.needs = CanonicalSorted(a.steps[i].needs)]]
    BY <1>3
  <2>2. /\ Sorted(b).name = b.name /\ Sorted(b).timeout = b.timeout
        /\ Sorted(b).maxConcurrent = b.maxConcurrent
        /\ Sorted(b).inherit = CanonicalSorted(b.inherit)
        /\ Sorted(b).steps = [i \in DOMAIN b.steps |->
               [b.steps[i] EXCEPT !.needs = CanonicalSorted(b.steps[i].needs)]]
    BY <1>3
  <2> HIDE DEF a, b
  <2> QED BY <1>2, <2>1, <2>2
<1>5. /\ IsList(a.steps) /\ IsList(a.inherit) /\ \A k \in DOMAIN a.inherit : a.inherit[k] \in Name
      /\ \A i \in DOMAIN a.steps :
            /\ a.steps[i] = DecodeStep(s.doc.steps[i]) /\ IsList(a.steps[i].needs)
            /\ \A n \in DOMAIN a.steps[i].needs : a.steps[i].needs[n] \in Name
  BY <1>1, JobSays
<1>6. /\ IsList(b.steps) /\ IsList(b.inherit) /\ \A k \in DOMAIN b.inherit : b.inherit[k] \in Name
      /\ \A i \in DOMAIN b.steps :
            /\ b.steps[i] = DecodeStep(t.doc.steps[i]) /\ IsList(b.steps[i].needs)
            /\ \A n \in DOMAIN b.steps[i].needs : b.steps[i].needs[n] \in Name
  BY <1>1, JobSays
<1> HIDE DEF a, b
<1>7. Permuted(a.inherit, b.inherit)
  BY <1>4, <1>5, <1>6, SortedAlike
<1>8. DOMAIN a.steps = DOMAIN b.steps
  BY <1>4
<1>9. Len(a.steps) = Len(b.steps)
  <2>1. PICK m \in Nat, n \in Nat :
           /\ m = Len(a.steps) /\ n = Len(b.steps) /\ DOMAIN a.steps = 1..m /\ DOMAIN b.steps = 1..n
    BY <1>5, <1>6 DEF IsList
  <2>2. 1..m = 1..n
    BY <1>8, <2>1
  <2>3. m = n
    BY <2>2
  <2> QED BY <2>1, <2>3
<1>10. ASSUME NEW i \in DOMAIN a.steps
       PROVE  /\ [a.steps[i] EXCEPT !.needs = <<>>] = [b.steps[i] EXCEPT !.needs = <<>>]
              /\ Permuted(a.steps[i].needs, b.steps[i].needs)
  <2> DEFINE x == a.steps[i]
             y == b.steps[i]
  <2>1. [x EXCEPT !.needs = CanonicalSorted(x.needs)] = [y EXCEPT !.needs = CanonicalSorted(y.needs)]
    BY <1>4, <1>8
  <2>2. /\ x = [name |-> x.name, run |-> x.run, shell |-> x.shell, timeout |-> x.timeout,
                retry |-> x.retry, needs |-> x.needs]
        /\ y = [name |-> y.name, run |-> y.run, shell |-> y.shell, timeout |-> y.timeout,
                retry |-> y.retry, needs |-> y.needs]
    <3>1. x = DecodeStep(s.doc.steps[i]) /\ y = DecodeStep(t.doc.steps[i])
      BY <1>5, <1>6, <1>8
    <3>2. \A w : LET z == DecodeStep(w) IN
             z = [name |-> z.name, run |-> z.run, shell |-> z.shell, timeout |-> z.timeout,
                  retry |-> z.retry, needs |-> z.needs]
      BY DEF DecodeStep
    <3> HIDE DEF x, y
    <3> QED BY <3>1, <3>2
  <2> HIDE DEF x, y
  <2>3. CanonicalSorted(x.needs) = CanonicalSorted(y.needs)
        /\ [x EXCEPT !.needs = <<>>] = [y EXCEPT !.needs = <<>>]
    BY <2>1, <2>2
  <2>4. Permuted(x.needs, y.needs)
    BY <1>5, <1>6, <1>8, <2>3, SortedAlike DEF x, y
  <2> QED BY <2>3, <2>4 DEF x, y
<1> QED BY <1>1, <1>4, <1>7, <1>9, <1>10 DEF SameJob
LEMMA SameJobSameObject ==
    ASSUME NEW s \in Said, NEW t \in Said, SameJob(s.job, t.job)
    PROVE  s.object = t.object
<1> DEFINE a == Decode(s.doc)
           b == Decode(t.doc)
<1>1. /\ s.doc \in Docs /\ Accepted(s.doc) /\ s.job = a /\ s.object = Canonical(a)
      /\ t.doc \in Docs /\ Accepted(t.doc) /\ t.job = b /\ t.object = Canonical(b)
  BY SaidOf
<1>2. /\ IsList(a.steps) /\ IsList(a.inherit) /\ \A k \in DOMAIN a.inherit : a.inherit[k] \in Name
      /\ \A i \in DOMAIN a.steps :
            /\ a.steps[i] = DecodeStep(s.doc.steps[i]) /\ IsList(a.steps[i].needs)
            /\ \A n \in DOMAIN a.steps[i].needs : a.steps[i].needs[n] \in Name
  BY <1>1, JobSays
<1>3. /\ IsList(b.steps) /\ IsList(b.inherit) /\ \A k \in DOMAIN b.inherit : b.inherit[k] \in Name
      /\ \A i \in DOMAIN b.steps :
            /\ b.steps[i] = DecodeStep(t.doc.steps[i]) /\ IsList(b.steps[i].needs)
            /\ \A n \in DOMAIN b.steps[i].needs : b.steps[i].needs[n] \in Name
  BY <1>1, JobSays
<1> HIDE DEF a, b
<1>4. /\ a.name = b.name /\ Len(a.steps) = Len(b.steps) /\ Permuted(a.inherit, b.inherit)
      /\ a.timeout = b.timeout /\ a.maxConcurrent = b.maxConcurrent
      /\ \A i \in DOMAIN a.steps :
            /\ [a.steps[i] EXCEPT !.needs = <<>>] = [b.steps[i] EXCEPT !.needs = <<>>]
            /\ Permuted(a.steps[i].needs, b.steps[i].needs)
  BY <1>1 DEF SameJob
<1>5. CanonicalSorted(a.inherit) = CanonicalSorted(b.inherit) /\ Len(a.inherit) = Len(b.inherit)
  BY <1>2, <1>3, <1>4, PermutedSortAlike
<1>6. DOMAIN a.steps = DOMAIN b.steps
  BY <1>2, <1>3, <1>4 DEF IsList
<1>7. ASSUME NEW i \in DOMAIN a.steps
      PROVE  CanonicalStep(a.steps[i]) = CanonicalStep(b.steps[i])
  <2> DEFINE x == a.steps[i]
             y == b.steps[i]
  <2>1. CanonicalSorted(x.needs) = CanonicalSorted(y.needs) /\ Len(x.needs) = Len(y.needs)
    <3>1. IsList(x.needs) /\ \A n \in DOMAIN x.needs : x.needs[n] \in Name
      BY <1>2
    <3>2. IsList(y.needs) /\ \A n \in DOMAIN y.needs : y.needs[n] \in Name
      BY <1>3, <1>6
    <3>3. Permuted(x.needs, y.needs)
      BY <1>4
    <3> HIDE DEF x, y
    <3> QED BY <3>1, <3>2, <3>3, PermutedSortAlike
  <2>2. [x EXCEPT !.needs = <<>>] = [y EXCEPT !.needs = <<>>]
    BY <1>4
  <2>3. \A w : LET z == DecodeStep(w) IN
           z = [name |-> z.name, run |-> z.run, shell |-> z.shell, timeout |-> z.timeout,
                retry |-> z.retry, needs |-> z.needs]
    BY DEF DecodeStep
  <2>4. /\ x = [name |-> x.name, run |-> x.run, shell |-> x.shell, timeout |-> x.timeout,
                retry |-> x.retry, needs |-> x.needs]
        /\ y = [name |-> y.name, run |-> y.run, shell |-> y.shell, timeout |-> y.timeout,
                retry |-> y.retry, needs |-> y.needs]
    <3>1. x = DecodeStep(s.doc.steps[i]) /\ y = DecodeStep(t.doc.steps[i])
      BY <1>2, <1>3, <1>6
    <3> HIDE DEF x, y
    <3> QED BY <2>3, <3>1
  <2> HIDE DEF x, y
  <2>5. /\ x.name = y.name /\ x.run = y.run /\ x.shell = y.shell /\ x.timeout = y.timeout
        /\ x.retry = y.retry
    <3> DEFINE u == [x EXCEPT !.needs = <<>>]
               v == [y EXCEPT !.needs = <<>>]
    <3>1. /\ u.name = x.name /\ u.run = x.run /\ u.shell = x.shell /\ u.timeout = x.timeout
          /\ u.retry = x.retry
      BY <2>4
    <3>2. /\ v.name = y.name /\ v.run = y.run /\ v.shell = y.shell /\ v.timeout = y.timeout
          /\ v.retry = y.retry
      BY <2>4
    <3>3. u = v
      BY <2>2
    <3> HIDE DEF u, v
    <3> QED BY <3>1, <3>2, <3>3
  <2>6. CanonicalStep(x) = CanonicalStep(y)
    BY <2>1, <2>5, Zenon DEF CanonicalStep
  <2> QED BY <2>6 DEF x, y
<1>8. [i \in DOMAIN a.steps |-> CanonicalStep(a.steps[i])]
        = [i \in DOMAIN b.steps |-> CanonicalStep(b.steps[i])]
  BY <1>6, <1>7
<1>9. Canonical(a) = Canonical(b)
  BY <1>4, <1>5, <1>8, Zenon DEF Canonical
<1> QED BY <1>1, <1>9

\* Reading back the hashed document of an accepted file yields the file's job, its
\* rows can be written, and two files have one hash exactly when they say the same
\* job: Decode, Canonical and FromIR lose nothing and add nothing, for any
\* documents and any names.
THEOREM AcceptedMeansTheJobHolds == AcceptedMeansTheJob
<1>1. ASSUME NEW s \in Said
      PROVE  /\ ReadBackIsTheJob(s) /\ AcceptedJobMaterialises(s)
             /\ \A t \in Said : HashIsMeaning(s, t)
  <2>1. \A t \in Said : HashIsMeaning(s, t)
    BY SameObjectSameJob, SameJobSameObject DEF HashIsMeaning
  <2> QED BY <2>1, ReadsBack, Materialising
<1> QED BY <1>1 DEF AcceptedMeansTheJob, MeanTheirJobs

\* The retry numbers of an accepted file reach the engine as written, whatever
\* decoding, hashing and reading back did with them in between.
THEOREM FrozenPolicyHolds == FrozenPolicyIsTheWrittenOne
<1> SUFFICES ASSUME NEW s \in Said, NEW frozen, frozen = FromIR(s.object).steps,
                    NEW i \in DOMAIN frozen, NEW w, w = s.doc.steps[i].retry, w # NULL
             PROVE  RetryPolicyOf(frozen[i].retry, "fixed", "none") =
                        [kind |-> "fixed", jitter |-> "none",
                         initial  |-> NanosPerMilli *
                            (IF w.initial = NULL THEN DefaultInitial
                             ELSE ParseDuration(w.initial)),
                         maxDelay |-> NanosPerMilli *
                            (IF w.maxDelay = NULL THEN DefaultMaxDelay
                             ELSE ParseDuration(w.maxDelay))]
  BY DEF FrozenPolicyIsTheWrittenOne
<1>1. /\ StepSaid(s.doc.steps[i])
      /\ frozen[i].retry = s.job.steps[i].retry
      /\ s.job.steps[i] = DecodeStep(s.doc.steps[i])
  BY FrozenSteps
<1>2. RetrySaid(w) /\ frozen[i].retry = DecodeRetry(w)
  BY <1>1 DEF StepSaid, DecodeStep
<1> DEFINE r == DecodeRetry(w)
<1>3. /\ r # NULL /\ r.initial = DurationOf(w.initial, DefaultInitial)
      /\ r.maxDelay = DurationOf(w.maxDelay, DefaultMaxDelay)
  BY <1>2, RetryReadsBack
<1> HIDE DEF r
<1>4. PICK M \in Nat, t \in Nat, d \in Nat, e \in Nat :
         /\ M = MaxDurationMillis /\ t = MaxJobTimeout /\ t <= M
         /\ d = DefaultMaxDelay /\ e = DefaultInitial /\ d \in 1..t /\ e \in 1..t
  <2>1. PICK M \in Nat : M = MaxDurationMillis
    BY LimitFacts
  <2>2. PICK t \in 1..M : t = MaxJobTimeout
    BY <2>1, JobSpecAssumption
  <2>3. PICK d \in 1..t : d = DefaultMaxDelay
    BY <2>2, JobSpecAssumption
  <2>4. PICK e \in 1..d : e = DefaultInitial
    BY <2>3, JobSpecAssumption
  <2> QED BY <2>1, <2>2, <2>3, <2>4
<1>5. ASSUME NEW v \in Duration, DurationProblems(v) = {}, NEW f \in 1..t
      PROVE  /\ DurationOf(v, f) = (IF v = NULL THEN f ELSE ParseDuration(v))
             /\ DurationOf(v, f) > 0
             /\ Wrap(DurationOf(v, f) * NanosPerMilli)
                  = NanosPerMilli * (IF v = NULL THEN f ELSE ParseDuration(v))
  <2>1. f \in Nat
    OBVIOUS
  <2>2. DurationOf(v, f) = (IF v = NULL THEN f ELSE ParseDuration(v))
        /\ (v # NULL => ParseDuration(v) \in 1..t)
    BY <1>4, <1>5, <2>1, DurationSaid
  <2>3. PICK n \in 1..t : n = DurationOf(v, f)
    BY <2>2
  <2>4. n \in 1..MaxDurationMillis /\ n > 0 /\ n \in Nat
    BY <1>4
  <2>5. Wrap(n * NanosPerMilli) = n * NanosPerMilli
    BY <2>4, NanosFit
  <2>6. n * NanosPerMilli = NanosPerMilli * n
    BY <2>4, JobSpecAssumption
  <2> QED BY <2>2, <2>3, <2>4, <2>5, <2>6
<1>6. /\ r.initial > 0 /\ r.maxDelay > 0
      /\ Wrap(r.initial * NanosPerMilli) = NanosPerMilli *
            (IF w.initial = NULL THEN DefaultInitial ELSE ParseDuration(w.initial))
      /\ Wrap(r.maxDelay * NanosPerMilli) = NanosPerMilli *
            (IF w.maxDelay = NULL THEN DefaultMaxDelay ELSE ParseDuration(w.maxDelay))
  BY <1>2, <1>3, <1>4, <1>5 DEF RetrySaid
<1>7. RetryPolicyOf(r, "fixed", "none") =
         [kind |-> "fixed", jitter |-> "none", initial |-> Wrap(r.initial * NanosPerMilli),
          maxDelay |-> Wrap(r.maxDelay * NanosPerMilli)]
  BY <1>3, <1>6 DEF RetryPolicyOf
<1> QED BY <1>2, <1>6, <1>7 DEF r
=============================================================================
