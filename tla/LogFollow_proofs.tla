-------------------------- MODULE LogFollow_proofs ---------------------------
EXTENDS LogFollow, SequenceTheorems, WellFoundedInduction, TLAPS

-----------------------------------------------------------------------------
(* Counting.  What a sum along a sequence is, by induction on its length.    *)

\* A set of numbers that is not empty has a least one.
LEMMA LeastNatural ==
    ASSUME NEW T, T \subseteq Nat, T # {}
    PROVE  \E x \in T : \A y \in T : x <= y
<1> DEFINE R == OpToRel(<, Nat)
<1>1. IsWellFoundedOn(R, Nat)
  BY NatLessThanWellFounded
<1>2. \A x, y \in Nat : x < y => <<x, y>> \in R
  BY DEF OpToRel
<1> HIDE DEF R
<1>3. PICK x \in T : \A y \in T : ~(<<y, x>> \in R)
  BY <1>1, WFMin
<1>4. \A y \in T : ~(y < x)
  BY <1>2, <1>3, Zenon
<1>5. \A y \in T : x <= y
  BY <1>4
<1> QED BY <1>5

\* A set that holds 0 and, with a number below n, the next one, holds 0..n.
LEMMA Induction ==
    ASSUME NEW n \in Nat, NEW T, 0 \in T,
           \A i \in 1..n : i - 1 \in T => i \in T
    PROVE  \A i \in 0..n : i \in T
<1> DEFINE U == (0..n) \ T
<1>1. SUFFICES ASSUME U # {} PROVE FALSE
  OBVIOUS
<1>2. U \subseteq Nat
  OBVIOUS
<1>3. PICK x \in U : \A y \in U : x <= y
  BY <1>1, <1>2, LeastNatural
<1>4. x \in 1..n
  OBVIOUS
<1>5. x - 1 \in 0..n /\ ~(x - 1 \in U)
  BY <1>3, <1>4
<1> QED BY <1>4, <1>5

\* The running sums of w.
Upto(w, f) ==
    f = [i \in 0..Len(w) |-> IF i = 0 THEN 0 ELSE f[i - 1] + w[i]]
Sums(w) == CHOOSE f : Upto(w, f)

\* There is a function of running sums, so CHOOSE finds one.
LEMMA SumsExist ==
    ASSUME NEW w \in Seq(Nat)
    PROVE  Upto(w, Sums(w))
<1> DEFINE n == Len(w)
           Good(k, f) == f[0] = 0 /\ \A i \in 1..k : f[i] = f[i - 1] + w[i]
           T == {k \in 0..n : \E f \in [0..k -> Nat] : Good(k, f)}
<1>0. n \in Nat /\ \A i \in 1..n : w[i] \in Nat
  OBVIOUS
<1>1. 0 \in T
  <2>1. [i \in 0..0 |-> 0] \in [0..0 -> Nat] /\ Good(0, [i \in 0..0 |-> 0])
    OBVIOUS
  <2> HIDE DEF Good
  <2>2. \E f \in [0..0 -> Nat] : Good(0, f)
    BY <2>1, Zenon
  <2>3. 0 \in 0..n
    BY <1>0
  <2> QED BY <2>2, <2>3
<1>2. ASSUME NEW k \in 1..n, k - 1 \in T PROVE k \in T
  <2>1. PICK f \in [0..k - 1 -> Nat] : Good(k - 1, f)
    BY <1>2
  <2> DEFINE g == [i \in 0..k |-> IF i = k THEN f[k - 1] + w[k] ELSE f[i]]
  <2>2. g \in [0..k -> Nat]
    BY <1>0
  <2>3. Good(k, g)
    BY SMTT(20), <2>1, <1>0
  <2> HIDE DEF g, Good
  <2>4. \E h \in [0..k -> Nat] : Good(k, h)
    BY <2>2, <2>3, Zenon
  <2>5. k \in 0..n
    BY <1>0
  <2> QED BY <2>4, <2>5
<1>3. n \in T
  <2> HIDE DEF T, n
  <2>1. \A i \in 0..n : i \in T
    BY <1>0, <1>1, <1>2, Induction
  <2> QED BY <2>1, <1>0
<1>4. PICK f \in [0..n -> Nat] : Good(n, f)
  BY <1>3
<1>5. f = [i \in 0..n |-> IF i = 0 THEN 0 ELSE f[i - 1] + w[i]]
  BY <1>4, <1>0
<1>6. Upto(w, f)
  BY <1>5 DEF Upto
<1> QED BY <1>6 DEF Sums

LEMMA SumsStep ==
    ASSUME NEW w \in Seq(Nat)
    PROVE  /\ Sums(w)[0] = 0
           /\ \A i \in 1..Len(w) : Sums(w)[i] = Sums(w)[i - 1] + w[i]
           /\ \A i \in 0..Len(w) : Sums(w)[i] \in Nat
           /\ Total(w) = Sums(w)[Len(w)]
<1> DEFINE f == Sums(w)
<1>0. Len(w) \in Nat /\ \A i \in 1..Len(w) : w[i] \in Nat
  OBVIOUS
<1>1. f = [i \in 0..Len(w) |-> IF i = 0 THEN 0 ELSE f[i - 1] + w[i]]
  BY SumsExist DEF Upto
<1>2. Total(w) = f[Len(w)]
  BY DEF Total, Sums, Upto
<1> HIDE DEF f
<1>3. f[0] = 0 /\ \A i \in 1..Len(w) : f[i] = f[i - 1] + w[i]
  BY <1>0, <1>1
<1> DEFINE T == {i \in 0..Len(w) : f[i] \in Nat}
<1>4. \A i \in 0..Len(w) : i \in T
  <2>1. 0 \in T
    BY <1>0, <1>3
  <2>2. \A i \in 1..Len(w) : i - 1 \in T => i \in T
    BY SMTT(20), <1>0, <1>3
  <2> HIDE DEF T
  <2> QED BY <1>0, <2>1, <2>2, Induction
<1>5. \A i \in 0..Len(w) : f[i] \in Nat
  BY <1>4
<1> QED BY <1>2, <1>3, <1>5 DEF f

LEMMA TotalConcat ==
    ASSUME NEW v \in Seq(Nat), NEW w \in Seq(Nat)
    PROVE  Total(v \o w) = Total(v) + Total(w)
<1> DEFINE u == v \o w
           m == Len(v)
           n == Len(w)
<1>1. /\ u \in Seq(Nat) /\ Len(u) = m + n /\ m \in Nat /\ n \in Nat
      /\ \A i \in 1..m : u[i] = v[i]
      /\ \A i \in 1..n : u[m + i] = w[i] /\ w[i] \in Nat
  OBVIOUS
<1> HIDE DEF u, m, n
<1>2. /\ Sums(u)[0] = 0 /\ Total(u) = Sums(u)[m + n]
      /\ \A i \in 1..m + n : Sums(u)[i] = Sums(u)[i - 1] + u[i]
  BY <1>1, SumsStep
<1>3. /\ Sums(v)[0] = 0 /\ Total(v) = Sums(v)[m]
      /\ \A i \in 1..m : Sums(v)[i] = Sums(v)[i - 1] + v[i]
      /\ \A i \in 0..m : Sums(v)[i] \in Nat
  BY SumsStep DEF m
<1>4. /\ Sums(w)[0] = 0 /\ Total(w) = Sums(w)[n]
      /\ \A i \in 1..n : Sums(w)[i] = Sums(w)[i - 1] + w[i]
      /\ \A i \in 0..n : Sums(w)[i] \in Nat
  BY SumsStep DEF n
<1>5. Sums(u)[m] = Total(v)
  <2> DEFINE T == {i \in 0..m : Sums(u)[i] = Sums(v)[i]}
  <2>1. 0 \in T
    BY <1>1, <1>2, <1>3
  <2>2. \A i \in 1..m : i - 1 \in T => i \in T
    BY <1>1, <1>2, <1>3
  <2> HIDE DEF T
  <2>3. \A i \in 0..m : i \in T
    BY <1>1, <2>1, <2>2, Induction
  <2>4. m \in T
    BY <2>3, <1>1
  <2> QED BY <2>4, <1>3 DEF T
<1>6. Sums(u)[m + n] = Total(v) + Sums(w)[n]
  <2> DEFINE T == {i \in 0..n : Sums(u)[m + i] = Total(v) + Sums(w)[i]}
  <2>1. 0 \in T
    BY <1>1, <1>3, <1>4, <1>5
  <2>2. ASSUME NEW i \in 1..n, i - 1 \in T PROVE i \in T
    <3>1. m + i \in 1..m + n /\ (m + i) - 1 = m + (i - 1) /\ i - 1 \in 0..n
      BY <1>1
    <3>2. Sums(u)[m + i] = Sums(u)[m + (i - 1)] + w[i]
      BY <3>1, <1>1, <1>2
    <3>3. w[i] \in Nat /\ Total(v) \in Nat
      BY <1>3, <1>1
    <3> QED BY SMTT(20), <3>1, <3>2, <3>3, <2>2, <1>4
  <2> HIDE DEF T
  <2>3. \A i \in 0..n : i \in T
    BY <1>1, <2>1, <2>2, Induction
  <2>4. n \in T
    BY <2>3, <1>1
  <2> QED BY <2>4 DEF T
<1> QED BY <1>2, <1>4, <1>6 DEF u

LEMMA TotalSmall ==
    /\ Total(<< >>) = 0
    /\ \A x \in Nat : Total(<<x>>) = x
<1>1. Total(<< >>) = 0
  <2>1. << >> \in Seq(Nat) /\ Len(<< >>) = 0
    OBVIOUS
  <2> QED BY <2>1, SumsStep
<1>2. ASSUME NEW x \in Nat PROVE Total(<<x>>) = x
  <2>1. <<x>> \in Seq(Nat) /\ Len(<<x>>) = 1 /\ <<x>>[1] = x
    OBVIOUS
  <2> QED BY <2>1, SumsStep
<1> QED BY <1>1, <1>2

\* One number of a sequence changes, and the sum by as much.
LEMMA TotalChange ==
    ASSUME NEW v \in Seq(Nat), NEW w \in Seq(Nat), Len(v) = Len(w),
           NEW k \in 1..Len(v), \A i \in 1..Len(v) : i # k => v[i] = w[i]
    PROVE  Total(v) + w[k] = Total(w) + v[k]
<1> DEFINE n == Len(v)
           T == {i \in 0..n : IF i < k THEN Sums(v)[i] = Sums(w)[i]
                              ELSE Sums(v)[i] + w[k] = Sums(w)[i] + v[k]}
<1>1. n \in Nat /\ k \in 1..n /\ \A i \in 1..n : v[i] \in Nat /\ w[i] \in Nat
  BY ElementOfSeq
<1>2. /\ Sums(v)[0] = 0 /\ Total(v) = Sums(v)[n]
      /\ \A i \in 1..n : Sums(v)[i] = Sums(v)[i - 1] + v[i]
      /\ \A i \in 0..n : Sums(v)[i] \in Nat
  BY SumsStep
<1>3. /\ Sums(w)[0] = 0 /\ Total(w) = Sums(w)[n]
      /\ \A i \in 1..n : Sums(w)[i] = Sums(w)[i - 1] + w[i]
      /\ \A i \in 0..n : Sums(w)[i] \in Nat
  BY SumsStep
<1>4. 0 \in T
  BY <1>1, <1>2, <1>3
<1>5. ASSUME NEW i \in 1..n, i - 1 \in T PROVE i \in T
  <2>1. /\ Sums(v)[i] = Sums(v)[i - 1] + v[i] /\ Sums(w)[i] = Sums(w)[i - 1] + w[i]
        /\ v[i] \in Nat /\ w[i] \in Nat /\ i - 1 \in 0..n /\ i \in 0..n
        /\ Sums(v)[i - 1] \in Nat /\ Sums(w)[i - 1] \in Nat
    <3> HIDE DEF T, n
    <3>1. i \in 1..n /\ i - 1 \in 0..n /\ i \in 0..n
      BY <1>1
    <3> QED BY <3>1, <1>1, <1>2, <1>3
  <2>2. CASE i < k
    BY <2>1, <2>2, <1>5
  <2>3. CASE i = k
    BY <2>1, <2>3, <1>5
  <2>4. CASE i > k
    <3>1. Sums(v)[i - 1] + w[k] = Sums(w)[i - 1] + v[k]
      BY <2>4, <1>5, <1>1
    <3>2. v[i] = w[i]
      BY <2>4, <1>1
    <3>3. Sums(v)[i] + w[k] = Sums(w)[i] + v[k]
      <4>1. PICK a \in Nat : a = Sums(v)[i - 1]
        BY <2>1
      <4>2. PICK b \in Nat : b = Sums(w)[i - 1]
        BY <2>1
      <4>3. PICK x \in Nat : x = v[k]
        BY <1>1
      <4>4. PICK y \in Nat : y = w[k]
        BY <1>1
      <4>5. PICK c \in Nat : c = v[i]
        BY <2>1
      <4>6. a + y = b + x
        BY <3>1, <4>1, <4>2, <4>3, <4>4
      <4>7. (a + c) + y = (b + c) + x
        BY <4>6
      <4>8. Sums(v)[i] = a + c /\ Sums(w)[i] = b + c
        BY <2>1, <3>2, <4>1, <4>2, <4>5
      <4> QED BY <4>3, <4>4, <4>7, <4>8
    <3> QED BY <3>3, <2>4, <1>1
  <2> QED BY <2>2, <2>3, <2>4
<1>6. n \in T
  <2> HIDE DEF T
  <2>1. \A i \in 0..n : i \in T
    BY <1>1, <1>4, <1>5, Induction
  <2> QED BY <2>1, <1>1
<1> QED BY <1>6, <1>2, <1>3

LEMMA TotalZero ==
    ASSUME NEW w \in Seq(Nat), \A i \in 1..Len(w) : w[i] = 0
    PROVE  Total(w) = 0
<1> DEFINE n == Len(w)
           T == {i \in 0..n : Sums(w)[i] = 0}
<1>1. /\ n \in Nat /\ Sums(w)[0] = 0 /\ Total(w) = Sums(w)[n]
      /\ \A i \in 1..n : Sums(w)[i] = Sums(w)[i - 1] + w[i]
  BY SumsStep
<1>2. 0 \in T
  BY <1>1
<1>3. \A i \in 1..n : i - 1 \in T => i \in T
  BY SMTT(20), <1>1
<1>4. n \in T
  <2> HIDE DEF T
  <2>1. \A i \in 0..n : i \in T
    BY <1>1, <1>2, <1>3, Induction
  <2> QED BY <2>1, <1>1
<1> QED BY <1>4, <1>1

\* What records weigh, the bytes of the job and the bytes on disk.
LEMMA Weights ==
    /\ Raw(<< >>) = 0 /\ Bytes(<< >>) = 0
    /\ \A s \in Seq(Rec) : Raw(s) \in Nat /\ Bytes(s) \in Nat
    /\ \A r \in Rec : Raw(<<r>>) = r.raw /\ Bytes(<<r>>) = r.size
    /\ \A s, t \in Seq(Rec) : /\ Raw(s \o t) = Raw(s) + Raw(t)
                              /\ Bytes(s \o t) = Bytes(s) + Bytes(t)
<1> DEFINE R(s) == [i \in DOMAIN s |-> s[i].raw]
           B(s) == [i \in DOMAIN s |-> s[i].size]
<1>1. ASSUME NEW s \in Seq(Rec)
      PROVE  R(s) \in Seq(Nat) /\ B(s) \in Seq(Nat) /\ Len(R(s)) = Len(s) /\ Len(B(s)) = Len(s)
  <2>1. \A i \in DOMAIN s : s[i] \in Rec
    BY ElementOfSeq
  <2>2. \A i \in DOMAIN s : s[i].raw \in Nat /\ s[i].size \in Nat
    BY <2>1 DEF Rec
  <2> QED BY <2>2
<1>2. R(<< >>) = << >> /\ B(<< >>) = << >>
  OBVIOUS
<1>3. \A r \in Rec : R(<<r>>) = <<r.raw>> /\ B(<<r>>) = <<r.size>> /\ r.raw \in Nat /\ r.size \in Nat
  BY DEF Rec
<1>4. ASSUME NEW s \in Seq(Rec), NEW t \in Seq(Rec)
      PROVE  R(s \o t) = R(s) \o R(t) /\ B(s \o t) = B(s) \o B(t)
  <2>1. s \o t \in Seq(Rec) /\ Len(s \o t) = Len(s) + Len(t)
    OBVIOUS
  <2>2. \A i \in 1..Len(s \o t) : /\ R(s \o t)[i] = (R(s) \o R(t))[i]
                                  /\ B(s \o t)[i] = (B(s) \o B(t))[i]
    BY <1>1, <2>1
  <2>3. R(s) \o R(t) \in Seq(Nat) /\ B(s) \o B(t) \in Seq(Nat)
        /\ Len(R(s) \o R(t)) = Len(s \o t) /\ Len(B(s) \o B(t)) = Len(s \o t)
    <3>1. R(s) \in Seq(Nat) /\ R(t) \in Seq(Nat) /\ B(s) \in Seq(Nat) /\ B(t) \in Seq(Nat)
          /\ Len(R(s)) = Len(s) /\ Len(B(s)) = Len(s)
          /\ Len(R(t)) = Len(t) /\ Len(B(t)) = Len(t)
      BY <1>1
    <3> HIDE DEF R, B
    <3>2. R(s) \o R(t) \in Seq(Nat) /\ Len(R(s) \o R(t)) = Len(R(s)) + Len(R(t))
      BY <3>1, ConcatProperties
    <3>3. B(s) \o B(t) \in Seq(Nat) /\ Len(B(s) \o B(t)) = Len(B(s)) + Len(B(t))
      BY <3>1, ConcatProperties
    <3> QED BY <3>1, <3>2, <3>3, <2>1
  <2>4. R(s \o t) \in Seq(Nat) /\ B(s \o t) \in Seq(Nat)
        /\ Len(R(s \o t)) = Len(s \o t) /\ Len(B(s \o t)) = Len(s \o t)
    BY <1>1, <2>1
  <2> HIDE DEF R, B
  <2> QED BY <2>2, <2>3, <2>4, SeqEqual
<1> QED
  <2>1. \A s : Raw(s) = Total(R(s)) /\ Bytes(s) = Total(B(s))
    BY DEF Raw, Bytes
  <2>2. \A w \in Seq(Nat) : Total(w) \in Nat
    BY SumsStep
  <2> HIDE DEF R, B
  <2>3. \A s, t \in Seq(Rec) : /\ Total(R(s \o t)) = Total(R(s)) + Total(R(t))
                               /\ Total(B(s \o t)) = Total(B(s)) + Total(B(t))
    BY <1>1, <1>4, TotalConcat
  <2> QED BY <1>1, <1>2, <1>3, <2>1, <2>2, <2>3, TotalSmall

-----------------------------------------------------------------------------
(* What waits in the windows. *)

HeldOf(p) == Total([i \in DOMAIN Stream |-> p[Stream[i]]])

LEMMA HeldType ==
    ASSUME NEW p \in [Streams -> 0..MaxFragment]
    PROVE  /\ [i \in DOMAIN Stream |-> p[Stream[i]]] \in Seq(Nat)
           /\ Len([i \in DOMAIN Stream |-> p[Stream[i]]]) = Len(Stream)
           /\ HeldOf(p) \in Nat
           /\ \A st \in Streams : p[st] \in Nat
<1>1. Stream \in Seq(Streams) /\ MaxFragment \in Nat
  BY LogSinkAssumption
<1>2. \A i \in DOMAIN Stream : Stream[i] \in Streams
  BY DEF Streams
<1>3. \A st \in Streams : p[st] \in 0..MaxFragment
  OBVIOUS
<1>4. \A st \in Streams : p[st] \in Nat
  BY <1>1, <1>3
<1>5. \A i \in DOMAIN Stream : p[Stream[i]] \in Nat
  BY <1>2, <1>4
<1>6. DOMAIN Stream = 1..Len(Stream) /\ Len(Stream) \in Nat
  BY <1>1
<1> DEFINE w == [i \in DOMAIN Stream |-> p[Stream[i]]]
<1>7. w \in Seq(Nat) /\ Len(w) = Len(Stream)
  BY <1>5, <1>6
<1>8. Total(w) \in Nat
  <2> HIDE DEF w
  <2>1. Len(w) \in 0..Len(w)
    BY <1>7
  <2> QED BY <1>7, <2>1, SumsStep
<1> QED BY <1>4, <1>7, <1>8 DEF HeldOf

\* One window changes.
LEMMA HeldChange ==
    ASSUME NEW p \in [Streams -> 0..MaxFragment], NEW q \in [Streams -> 0..MaxFragment],
           NEW st \in Streams, \A s \in Streams : s # st => q[s] = p[s]
    PROVE  HeldOf(q) + p[st] = HeldOf(p) + q[st]
<1> DEFINE v == [i \in DOMAIN Stream |-> p[Stream[i]]]
           w == [i \in DOMAIN Stream |-> q[Stream[i]]]
<1>2. PICK k \in DOMAIN Stream : Stream[k] = st
  BY DEF Streams
<1>3. \A i \in DOMAIN Stream : Stream[i] \in Streams /\ (i # k => Stream[i] # st)
  BY <1>2, LogSinkAssumption DEF Streams
<1>4. DOMAIN Stream = 1..Len(Stream)
  BY LogSinkAssumption
<1>5. /\ v \in Seq(Nat) /\ Len(v) = Len(Stream)
      /\ w \in Seq(Nat) /\ Len(w) = Len(Stream)
  BY HeldType
<1>6. /\ v[k] = p[st] /\ w[k] = q[st]
      /\ \A i \in 1..Len(v) : i # k => v[i] = w[i]
      /\ k \in 1..Len(v)
  BY <1>2, <1>3, <1>4, <1>5
<1> HIDE DEF v, w
<1>7. Total(v) + w[k] = Total(w) + v[k]
  BY <1>5, <1>6, TotalChange
<1> QED BY <1>6, <1>7 DEF v, w, HeldOf

LEMMA HeldZero ==
    ASSUME NEW p \in [Streams -> 0..MaxFragment], \A st \in Streams : p[st] = 0
    PROVE  HeldOf(p) = 0
<1> DEFINE w == [i \in DOMAIN Stream |-> p[Stream[i]]]
<1>1. w \in Seq(Nat) /\ Len(w) = Len(Stream) /\ DOMAIN Stream = 1..Len(Stream)
  <2>1. DOMAIN Stream = 1..Len(Stream)
    BY LogSinkAssumption
  <2> QED BY <2>1, HeldType
<1>2. \A i \in 1..Len(w) : w[i] = 0
  BY <1>1 DEF Streams
<1> HIDE DEF w
<1>3. Total(w) = 0
  BY <1>1, <1>2, TotalZero
<1> QED BY <1>3 DEF w, HeldOf

-----------------------------------------------------------------------------
(* What becomes of a line. *)

\* How many of the oldest records the ring gives up.
LEMMA EvictedFits ==
    ASSUME SinkTypeOK, NEW r \in Rec
    PROVE  /\ Evicted(r) \in 0..Len(ring)
           /\ Evicted(r) = Len(ring) \/ Fits(Evicted(r), r)
<1>0. Len(ring) \in Nat
  BY DEF SinkTypeOK
<1> DEFINE OK(k) == k = Len(ring) \/ Fits(k, r)
           T == {k \in 0..Len(ring) : OK(k)}
<1>1. T \subseteq Nat /\ T # {}
  BY <1>0
<1>2. PICK k \in T : \A j \in T : k <= j
  <2> HIDE DEF T
  <2> QED BY <1>1, LeastNatural
<1>3. k \in 0..Len(ring) /\ OK(k) /\ \A j \in 0..(k - 1) : ~Fits(j, r)
  BY <1>2, <1>0
<1> HIDE DEF T
<1> QED BY <1>3 DEF Evicted

\* The line goes into the file, or into the ring, or is dropped, and so does
\* what the ring gives up for it: no byte goes anywhere else.
LEMMA PutKeepsBytes ==
    ASSUME SinkTypeOK, NEW r \in Rec, Put(r)
    PROVE  /\ file' \in Seq(Rec) /\ ring' \in Seq(Rec)
           /\ written' \in Nat /\ dropped' \in Nat
           /\ phase' \in {"head", "tail"} /\ truncated' \in BOOLEAN
           /\ Raw(file') + Raw(ring') + dropped' = Raw(file) + Raw(ring) + dropped + r.raw
           /\ Bytes(ring) <= RingLimit => Bytes(ring') <= RingLimit
           /\ phase = "head" => /\ file' = file \o <<r>> /\ ring' = ring
                                /\ Bytes(file') = Bytes(file) + r.size
                                /\ written' = written + r.size
           /\ phase = "tail" => file' = file /\ written' = written
<1>0. /\ file \in Seq(Rec) /\ ring \in Seq(Rec) /\ written \in Nat /\ dropped \in Nat
      /\ phase \in {"head", "tail"} /\ truncated \in BOOLEAN
      /\ r.raw \in Nat /\ r.size \in Nat /\ <<r>> \in Seq(Rec)
      /\ RingLimit \in Nat
  BY LogSinkAssumption DEF SinkTypeOK, Rec
<1>1. CASE phase = "head"
  <2>1. /\ file' = Append(file, r) /\ written' = written + r.size
        /\ phase' = IF written' >= HeadLimit THEN "tail" ELSE "head"
        /\ ring' = ring /\ dropped' = dropped /\ truncated' = truncated
    BY <1>1 DEF Put
  <2>2. file' = file \o <<r>>
    BY <2>1, <1>0, AppendIsConcat
  <2>3. /\ Raw(file') = Raw(file) + r.raw /\ Bytes(file') = Bytes(file) + r.size
        /\ Raw(file) \in Nat /\ Raw(ring) \in Nat
    BY <2>2, <1>0, Weights
  <2>4. file' \in Seq(Rec)
    BY <2>1, <1>0
  <2>5. Raw(file') + Raw(ring') + dropped' = Raw(file) + Raw(ring) + dropped + r.raw
    BY SMTT(20), <1>0, <2>1, <2>3
  <2>6. phase' \in {"head", "tail"} /\ written' \in Nat
    BY <1>0, <2>1
  <2> QED BY <1>0, <1>1, <2>1, <2>2, <2>3, <2>4, <2>5, <2>6
<1>2. CASE phase = "tail"
  <2> DEFINE k == Evicted(r)
             old == SubSeq(ring, 1, k)
             kept == SubSeq(ring, k + 1, Len(ring))
             new == IF r.size <= RingLimit THEN <<r>> ELSE << >>
  <2>1. /\ truncated' = TRUE /\ file' = file /\ written' = written /\ phase' = phase
        /\ ring' = kept \o new
        /\ dropped' = dropped + Raw(old) + (IF r.size <= RingLimit THEN 0 ELSE r.raw)
    BY <1>2 DEF Put, Push
  <2>2. k \in 0..Len(ring) /\ (k = Len(ring) \/ Bytes(kept) + r.size <= RingLimit)
    BY EvictedFits DEF Fits
  <2> HIDE DEF k
  <2>3. old \in Seq(Rec) /\ kept \in Seq(Rec) /\ ring = old \o kept
    <3>1. 1 \in 1..Len(ring) + 1 /\ k \in 0..Len(ring) /\ Len(ring) \in Nat
      BY <1>0, <2>2
    <3>2. SubSeq(ring, 1, Len(ring)) = ring
      BY <1>0
    <3>3. k \in 1 - 1..Len(ring) /\ Len(ring) \in k..Len(ring)
      BY <3>1
    <3>4. SubSeq(ring, 1, k) \o SubSeq(ring, k + 1, Len(ring)) = SubSeq(ring, 1, Len(ring))
      BY <1>0, <3>1, <3>3, ConcatAdjacentSubSeq
    <3>5. SubSeq(ring, 1, k) \in Seq(Rec) /\ SubSeq(ring, k + 1, Len(ring)) \in Seq(Rec)
      BY <1>0, <3>1
    <3> QED BY <3>2, <3>4, <3>5
  <2>4. k = Len(ring) => kept = << >>
    BY <1>0, <2>2
  <2> HIDE DEF old, kept
  <2>5. /\ Raw(ring) = Raw(old) + Raw(kept)
        /\ Raw(old) \in Nat /\ Raw(kept) \in Nat /\ Raw(file) \in Nat /\ Bytes(kept) \in Nat
        /\ Bytes(<< >>) = 0
    BY <1>0, <2>3, Weights
  <2>6. CASE r.size <= RingLimit
    <3>1. ring' = kept \o <<r>> /\ dropped' = dropped + Raw(old)
      BY SMTT(20), <2>1, <2>6, <2>5, <1>0
    <3>2. Raw(ring') = Raw(kept) + r.raw /\ Bytes(ring') = Bytes(kept) + r.size
      <4>1. Raw(kept \o <<r>>) = Raw(kept) + Raw(<<r>>) /\ Bytes(kept \o <<r>>) = Bytes(kept) + Bytes(<<r>>)
        BY <1>0, <2>3, Weights
      <4>2. Raw(<<r>>) = r.raw /\ Bytes(<<r>>) = r.size
        BY Weights
      <4> QED BY <3>1, <4>1, <4>2
    <3>3. Bytes(ring') <= RingLimit
      BY <3>2, <2>2, <2>4, <2>5, <2>6, <1>0
    <3>4. ring' \in Seq(Rec)
      BY <3>1, <1>0, <2>3
    <3>5. Raw(file') + Raw(ring') + dropped' = Raw(file) + Raw(ring) + dropped + r.raw
      <4>1. /\ Raw(file') = Raw(file)
            /\ Raw(ring') = Raw(kept) + r.raw
            /\ dropped' = dropped + Raw(old)
            /\ Raw(ring) = Raw(old) + Raw(kept)
        BY <2>1, <2>5, <3>1, <3>2
      <4> HIDE DEF old, kept
      <4> QED BY SMTT(20), <4>1, <1>0, <2>5
    <3>6. dropped' \in Nat
      BY <1>0, <2>5, <3>1
    <3> QED BY <1>0, <1>2, <2>1, <3>3, <3>4, <3>5, <3>6
  <2>7. CASE ~(r.size <= RingLimit)
    <3>1. kept = << >>
      BY <2>2, <2>4, <2>5, <2>7, <1>0
    <3>2. ring' = << >> /\ dropped' = dropped + Raw(old) + r.raw
      BY <2>1, <2>7, <3>1
    <3>3. Raw(<< >>) = 0 /\ Bytes(<< >>) = 0 /\ << >> \in Seq(Rec)
      BY Weights
    <3> QED BY SMTT(20), <1>0, <1>2, <2>1, <2>5, <3>1, <3>2, <3>3
  <2> QED BY <2>6, <2>7
<1> QED BY <1>0, <1>1, <1>2

-----------------------------------------------------------------------------
(* The inductive invariant of the log. *)

\* What is on disk and what is to follow it, in the order of the finished file.
Whole == file \o ring

\* Before the marker: a head in order, and in the ring the last lines, each with
\* the number after the one before it, all of them younger than the head.
Unmarked ==
    /\ \A i \in DOMAIN file : file[i].kind # "truncated" /\ file[i].seq \in 1..seq
    /\ \A i, j \in DOMAIN file : i < j => file[i].seq < file[j].seq
    /\ Bytes(file) = written
    /\ \A i \in DOMAIN ring : /\ ring[i].kind # "truncated"
                              /\ ring[i].seq = seq - (Len(ring) - i)
                              /\ \A j \in DOMAIN file : file[j].seq < ring[i].seq
    /\ truncated => seq > 0 /\ \A i \in DOMAIN file : file[i].seq < seq
    /\ phase = "tail" /\ ~truncated => file # << >> /\ file[Len(file)].seq = seq

\* With the marker at m: the same of what stands before and behind it.
MarkedAt(m) ==
    /\ phase = "tail"
    /\ m \in 1..Len(file)
    /\ Whole[m].kind = "truncated" /\ Whole[m].seq = seq
    /\ \A i \in 1..m - 1 : Whole[i].kind # "truncated" /\ Whole[i].seq \in 1..seq - 1
    /\ \A i, j \in 1..m - 1 : i < j => Whole[i].seq < Whole[j].seq
    /\ \A i \in m + 1..Len(Whole) :
          /\ Whole[i].kind # "truncated"
          /\ Whole[i].seq = seq - 1 - (Len(Whole) - i)
          /\ \A j \in 1..m - 1 : Whole[j].seq < Whole[i].seq
    /\ Bytes(Whole) <= written + Wrap + RingLimit
    /\ truncated => seq > 1 /\ \A i \in 1..m - 1 : Whole[i].seq < seq - 1
    /\ ~truncated => m > 1 /\ Whole[m - 1].seq = seq - 1
Marked == \E m \in 1..Len(file) : MarkedAt(m)

Order ==
    /\ stage \in {"none", "open", "partials", "marker"} => Unmarked
    /\ stage = "ring" => Marked
    /\ stage \in {"sync", "finished"} => (phase = "head" /\ Unmarked) \/ Marked
    /\ stage = "stuck" => Unmarked \/ Marked

\* Only a truncated log used its ring, and another lacks no line unless a write
\* failed.
Kept ==
    /\ truncated => phase = "tail"
    /\ ~truncated => ring = << >> /\ dropped = 0
    /\ ~truncated /\ broken = {} /\ stage # "stuck" =>
          Len(file) = seq /\ \A i \in DOMAIN file : file[i].seq = i

\* What a stage of Finish has behind it.
Stages ==
    /\ stage \in {"sync", "finished"} => ring = << >>
    /\ stage \in {"marker", "ring"} => phase = "tail"
    /\ stage \in {"marker", "ring", "sync", "finished"} => \A st \in Streams : partial[st] = 0
    /\ broken = {} /\ stage # "stuck" => lost = 0
    /\ \A st \in Streams \ broken : partial[st] < MaxFragment

\* The largest line, if quoting is bounded by x.
Largest(x) == MaxFragment - 1 + MaxPiece + Wrap + x
Bounds(x)  == \A y \in Escape : y <= x

Quota ==
    /\ Bytes(ring) <= RingLimit
    /\ phase = "head" => written < HeadLimit \/ written = 0
    /\ \A x \in Escape : Bounds(x) => written <= HeadLimit + Largest(x)

SinkInv == SinkTypeOK /\ EveryByteIsAccountedFor /\ Order /\ Kept /\ Stages /\ Quota

\* The inductive invariant says what the run's properties say.
LEMMA TypesOfSink ==
    ASSUME SinkTypeOK
    PROVE  /\ file \in Seq(Rec) /\ ring \in Seq(Rec) /\ Whole \in Seq(Rec)
           /\ Len(file) \in Nat /\ Len(ring) \in Nat /\ Len(Whole) = Len(file) + Len(ring)
           /\ DOMAIN file = 1..Len(file) /\ DOMAIN ring = 1..Len(ring)
           /\ \A i \in 1..Len(file) : Whole[i] = file[i] /\ file[i] \in Rec /\ file[i].seq \in Nat
           /\ \A i \in 1..Len(ring) : /\ Whole[Len(file) + i] = ring[i]
                                      /\ ring[i] \in Rec /\ ring[i].seq \in Nat
           /\ seq \in Nat /\ written \in Nat /\ dropped \in Nat /\ lost \in Nat /\ handed \in Nat
           /\ phase \in {"head", "tail"} /\ truncated \in BOOLEAN
           /\ Bytes(file) \in Nat /\ Bytes(ring) \in Nat /\ Bytes(Whole) = Bytes(file) + Bytes(ring)
           /\ Raw(file) \in Nat /\ Raw(ring) \in Nat
           /\ MaxFragment \in Nat \ {0} /\ MaxPiece \in Nat \ {0} /\ Wrap \in Nat \ {0}
           /\ HeadLimit \in Nat /\ RingLimit \in Nat /\ Escape \subseteq Nat
<1>1. file \in Seq(Rec) /\ ring \in Seq(Rec)
  BY DEF SinkTypeOK
<1>2. Whole \in Seq(Rec) /\ Len(Whole) = Len(file) + Len(ring)
      /\ Len(file) \in Nat /\ Len(ring) \in Nat
      /\ DOMAIN file = 1..Len(file) /\ DOMAIN ring = 1..Len(ring)
  BY <1>1 DEF Whole
<1>3. \A i \in 1..Len(file) : Whole[i] = file[i] /\ file[i] \in Rec
  BY <1>1 DEF Whole
<1>4. \A i \in 1..Len(ring) : Whole[Len(file) + i] = ring[i] /\ ring[i] \in Rec
  BY <1>1 DEF Whole
<1>5. \A r \in Rec : r.seq \in Nat
  BY DEF Rec
<1>6. /\ Bytes(file) \in Nat /\ Bytes(ring) \in Nat /\ Bytes(Whole) = Bytes(file) + Bytes(ring)
      /\ Raw(file) \in Nat /\ Raw(ring) \in Nat
  BY <1>1, Weights DEF Whole
<1>7. /\ seq \in Nat /\ written \in Nat /\ dropped \in Nat /\ lost \in Nat /\ handed \in Nat
      /\ phase \in {"head", "tail"} /\ truncated \in BOOLEAN
  BY DEF SinkTypeOK
<1> QED BY <1>1, <1>2, <1>3, <1>4, <1>5, <1>6, <1>7, LogSinkAssumption

LEMMA InitSink ==
    ASSUME NEW st, st \in {"none", "open"}, NoSink(st)
    PROVE  SinkInv
<1>1. /\ stage = st /\ seq = 0 /\ file = << >> /\ written = 0 /\ phase = "head"
      /\ ring = << >> /\ dropped = 0 /\ truncated = FALSE /\ handed = 0 /\ lost = 0
      /\ partial = [s \in Streams |-> 0] /\ broken = {}
  BY DEF NoSink
<1>2. SinkTypeOK
  <2>1. << >> \in Seq(Rec) /\ partial \in [Streams -> 0..MaxFragment]
    BY <1>1, LogSinkAssumption
  <2> QED BY <1>1, <2>1 DEF SinkTypeOK
<1>3. Raw(<< >>) = 0 /\ Bytes(<< >>) = 0
  BY Weights
<1>4. Held = 0
  <2>1. partial \in [Streams -> 0..MaxFragment] /\ \A s \in Streams : partial[s] = 0
    BY <1>1, LogSinkAssumption
  <2> QED BY <2>1, HeldZero DEF Held, HeldOf
<1>5. EveryByteIsAccountedFor
  BY <1>1, <1>3, <1>4 DEF EveryByteIsAccountedFor
<1>6. Unmarked
  BY <1>1, <1>3 DEF Unmarked
<1>7. Order
  BY <1>1, <1>6 DEF Order
<1>8. Kept /\ Stages
  BY <1>1, LogSinkAssumption DEF Kept, Stages
<1>9. Quota
  <2>1. \A x \in Escape : 0 <= HeadLimit + Largest(x)
    BY LogSinkAssumption DEF Largest
  <2> QED BY <1>1, <1>3, <2>1, LogSinkAssumption DEF Quota
<1> QED BY <1>2, <1>5, <1>7, <1>8, <1>9 DEF SinkInv

-----------------------------------------------------------------------------
(* A line is handed in. *)

Fresh(r) ==
    /\ r \in Rec /\ r.seq = seq + 1 /\ r.kind # "truncated"
    /\ \A x \in Escape : Bounds(x) => r.size <= Largest(x)

LEMMA LineIsFresh ==
    ASSUME SinkTypeOK, NEW raw \in 0..MaxFragment - 1 + MaxPiece, Line(raw)
    PROVE  seq' = seq + 1 /\ \E r \in Rec : Fresh(r) /\ r.raw = raw /\ Put(r)
<1>1. seq' = seq + 1
  BY DEF Line
<1>2. PICK x \in (IF raw = 0 THEN {0} ELSE Escape) :
          Put([seq |-> seq + 1, raw |-> raw, size |-> raw + Wrap + x, kind |-> "line"])
  BY DEF Line
<1> DEFINE r == [seq |-> seq + 1, raw |-> raw, size |-> raw + Wrap + x, kind |-> "line"]
<1>3. /\ seq \in Nat /\ Wrap \in Nat /\ Escape \subseteq Nat
      /\ MaxFragment \in Nat \ {0} /\ MaxPiece \in Nat \ {0} /\ raw \in Nat
  BY LogSinkAssumption DEF SinkTypeOK
<1>4. x \in Nat /\ (x = 0 \/ x \in Escape)
  BY <1>3
<1>5. r \in Rec
  BY <1>3, <1>4 DEF Rec
<1>6. \A y \in Escape : Bounds(y) => r.size <= Largest(y)
  BY <1>3, <1>4 DEF Bounds, Largest
<1>7. r.seq = seq + 1 /\ r.kind # "truncated" /\ r.raw = raw /\ Put(r)
  BY <1>2
<1> HIDE DEF r
<1> QED BY <1>1, <1>5, <1>6, <1>7 DEF Fresh

\* The ring after a line was pushed: what it kept, and the line, if that fits.
LEMMA PushShape ==
    ASSUME SinkTypeOK, NEW r \in Rec, phase = "tail", Put(r)
    PROVE  \/ ring' = << >>
           \/ \E k \in 0..Len(ring) :
                 /\ Len(ring') = Len(ring) - k + 1
                 /\ \A i \in 1..Len(ring) - k : ring'[i] = ring[k + i]
                 /\ ring'[Len(ring) - k + 1] = r
<1> DEFINE k == Evicted(r)
           kept == SubSeq(ring, k + 1, Len(ring))
           n == Len(ring) - k
<1>1. ring' = kept \o (IF r.size <= RingLimit THEN <<r>> ELSE << >>)
  BY DEF Put, Push
<1>2. /\ ring \in Seq(Rec) /\ Len(ring) \in Nat /\ r.size \in Nat /\ RingLimit \in Nat
      /\ <<r>> \in Seq(Rec)
  BY LogSinkAssumption DEF SinkTypeOK, Rec
<1>3. k \in 0..Len(ring) /\ (k = Len(ring) \/ Bytes(kept) + r.size <= RingLimit)
  BY EvictedFits DEF Fits
<1> HIDE DEF k
<1>4. /\ kept \in Seq(Rec) /\ Len(kept) = n /\ n \in Nat
      /\ \A i \in 1..n : kept[i] = ring[k + i]
  BY <1>2, <1>3
<1>5. CASE r.size <= RingLimit
  <2>1. ring' = kept \o <<r>>
    BY <1>1, <1>5
  <2> HIDE DEF kept, n
  <2>2. /\ Len(kept \o <<r>>) = n + 1 /\ (kept \o <<r>>)[n + 1] = r
        /\ \A i \in 1..n : (kept \o <<r>>)[i] = kept[i]
    BY <1>2, <1>4
  <2>3. Len(ring') = n + 1 /\ ring'[n + 1] = r /\ \A i \in 1..n : ring'[i] = ring[k + i]
    BY <1>4, <2>1, <2>2
  <2> QED BY <1>3, <2>3 DEF n
<1>6. CASE ~(r.size <= RingLimit)
  <2>1. Bytes(kept) \in Nat
    BY <1>4, Weights
  <2>2. k = Len(ring)
    BY <1>2, <1>3, <1>6, <2>1
  <2>3. kept = << >>
    BY <1>2, <2>2
  <2> QED BY <1>1, <1>6, <2>3
<1> QED BY <1>5, <1>6

LEMMA PutUnmarked ==
    ASSUME SinkTypeOK, SinkTypeOK', Unmarked, Kept, NEW r \in Rec, Fresh(r), Put(r),
           seq' = seq + 1
    PROVE  Unmarked'
<1> USE DEF Fresh
<1>0. /\ DOMAIN file = 1..Len(file) /\ DOMAIN ring = 1..Len(ring)
      /\ Len(file) \in Nat /\ Len(ring) \in Nat /\ seq \in Nat /\ file \in Seq(Rec) /\ ring \in Seq(Rec)
      /\ \A i \in 1..Len(file) : file[i].seq \in Nat
      /\ phase \in {"head", "tail"}
  BY TypesOfSink
<1>1. CASE phase = "head"
  <2>1. /\ file' = file \o <<r>> /\ ring' = ring
        /\ Bytes(file') = Bytes(file) + r.size /\ written' = written + r.size
    BY <1>1, PutKeepsBytes
  <2>2. truncated' = truncated /\ ~truncated /\ ring = << >>
    BY <1>1 DEF Put, Kept
  <2>3. /\ Len(file') = Len(file) + 1 /\ DOMAIN file' = 1..Len(file) + 1
        /\ \A i \in 1..Len(file) : file'[i] = file[i]
        /\ file'[Len(file) + 1] = r
    BY <1>0, <2>1
  <2>4. file' # << >>
    BY <1>0, <2>3
  <2>5. /\ \A i \in DOMAIN file' : file'[i].kind # "truncated" /\ file'[i].seq \in 1..seq'
        /\ \A i, j \in DOMAIN file' : i < j => file'[i].seq < file'[j].seq
    <3>1. /\ \A i \in 1..Len(file) : /\ file'[i].kind # "truncated" /\ file'[i].seq \in 1..seq'
                                      /\ file'[i].seq < seq'
          /\ \A i, j \in 1..Len(file) : i < j => file'[i].seq < file'[j].seq
      <4>1. /\ \A i \in 1..Len(file) : file[i].kind # "truncated" /\ file[i].seq \in 1..seq
            /\ \A i, j \in 1..Len(file) : i < j => file[i].seq < file[j].seq
        BY <1>0 DEF Unmarked
      <4>2. \A n \in 1..seq : n \in 1..seq' /\ n < seq'
        BY <1>0
      <4> QED BY <2>3, <4>1, <4>2
    <3>2. file'[Len(file) + 1].kind # "truncated" /\ file'[Len(file) + 1].seq = seq'
      BY <2>3
    <3>3. seq' \in 1..seq'
      BY <1>0
    <3>4. \A i \in DOMAIN file' : i \in 1..Len(file) \/ i = Len(file) + 1
      BY <1>0, <2>3
    <3>5. \A i, j \in DOMAIN file' : i < j => i \in 1..Len(file)
      BY <1>0, <2>3
    <3> QED BY <3>1, <3>2, <3>3, <3>4, <3>5
  <2>6. Bytes(file') = written'
    BY <2>1 DEF Unmarked
  <2>7. file'[Len(file')].seq = seq'
    BY <2>3
  <2>8. DOMAIN ring' = {}
    BY <2>1, <2>2
  <2> QED BY <2>2, <2>4, <2>5, <2>6, <2>7, <2>8 DEF Unmarked
<1>2. CASE phase = "tail"
  <2>1. file' = file /\ written' = written /\ truncated' = TRUE
    BY <1>2 DEF Put
  <2>2. \A i \in DOMAIN file : file[i].seq \in 1..seq /\ file[i].seq < seq' /\ file[i].seq \in 1..seq'
    BY <1>0 DEF Unmarked
  <2>3. ASSUME NEW i \in DOMAIN ring'
        PROVE  /\ ring'[i].kind # "truncated"
               /\ ring'[i].seq = seq' - (Len(ring') - i)
               /\ \A j \in DOMAIN file : file[j].seq < ring'[i].seq
    <3>1. ring' # << >>
      OBVIOUS
    <3>2. PICK k \in 0..Len(ring) :
              /\ Len(ring') = Len(ring) - k + 1
              /\ \A n \in 1..Len(ring) - k : ring'[n] = ring[k + n]
              /\ ring'[Len(ring) - k + 1] = r
      BY <1>2, <3>1, PushShape
    <3>3. i \in 1..Len(ring) - k + 1
      <4>1. ring' \in Seq(Rec)
        BY DEF SinkTypeOK
      <4> QED BY <4>1, <3>2
    <3>4. CASE i = Len(ring) - k + 1
      BY <1>0, <2>2, <3>2, <3>4
    <3>5. CASE i \in 1..Len(ring) - k
      <4>1. ring'[i] = ring[k + i] /\ k + i \in DOMAIN ring
        BY <1>0, <3>2, <3>5
      <4>2. /\ ring[k + i].kind # "truncated"
            /\ ring[k + i].seq = seq - (Len(ring) - (k + i))
            /\ \A j \in DOMAIN file : file[j].seq < ring[k + i].seq
        BY <4>1 DEF Unmarked
      <4>3. seq' - (Len(ring') - i) = seq - (Len(ring) - (k + i))
        BY SMTT(20), <1>0, <3>2, <3>5
      <4> QED BY <4>1, <4>2, <4>3
    <3> QED BY <1>0, <3>3, <3>4, <3>5
  <2> QED BY <1>0, <2>1, <2>2, <2>3 DEF Unmarked
<1> QED BY <1>0, <1>1, <1>2

LEMMA PutKept ==
    ASSUME SinkTypeOK, Unmarked, Kept, NEW r \in Rec, Fresh(r), Put(r),
           seq' = seq + 1, broken' = broken, stage' = stage
    PROVE  Kept'
<1>0. /\ DOMAIN file = 1..Len(file) /\ Len(file) \in Nat /\ seq \in Nat /\ file \in Seq(Rec)
      /\ phase \in {"head", "tail"}
  BY TypesOfSink
<1>1. CASE phase = "head"
  <2>1. file' = file \o <<r>> /\ ring' = ring /\ dropped' = dropped
        /\ truncated' = truncated /\ ~truncated
    BY <1>1, PutKeepsBytes DEF Put, Kept
  <2>2. /\ Len(file') = Len(file) + 1 /\ DOMAIN file' = 1..Len(file) + 1
        /\ \A i \in 1..Len(file) : file'[i] = file[i]
        /\ file'[Len(file) + 1] = r
    BY <1>0, <2>1
  <2>3. ASSUME broken = {}, stage # "stuck"
        PROVE  Len(file') = seq' /\ \A i \in DOMAIN file' : file'[i].seq = i
    <3>1. Len(file) = seq /\ \A i \in DOMAIN file : file[i].seq = i
      BY <2>1, <2>3 DEF Kept
    <3>2. \A i \in DOMAIN file' : i \in 1..Len(file) \/ i = Len(file) + 1
      BY <1>0, <2>2
    <3> QED BY <1>0, <2>2, <3>1, <3>2 DEF Fresh
  <2> QED BY <2>1, <2>3 DEF Kept
<1>2. CASE phase = "tail"
  <2>1. truncated' = TRUE /\ phase' = "tail"
    BY <1>2 DEF Put
  <2> QED BY <2>1 DEF Kept
<1> QED BY <1>0, <1>1, <1>2

LEMMA PutQuota ==
    ASSUME SinkTypeOK, Quota, NEW r \in Rec, Fresh(r), Put(r)
    PROVE  Quota'
<1>0. /\ written \in Nat /\ r.size \in Nat /\ HeadLimit \in Nat /\ RingLimit \in Nat
      /\ phase \in {"head", "tail"} /\ Escape \subseteq Nat
      /\ MaxFragment \in Nat \ {0} /\ MaxPiece \in Nat \ {0} /\ Wrap \in Nat \ {0}
  BY TypesOfSink DEF Rec
<1>1. Bytes(ring') <= RingLimit
  BY PutKeepsBytes DEF Quota
<1>2. CASE phase = "head"
  <2>1. /\ written' = written + r.size
        /\ phase' = IF written' >= HeadLimit THEN "tail" ELSE "head"
    BY <1>2 DEF Put
  <2>2. phase' = "head" => written' < HeadLimit
    BY <1>0, <2>1
  <2>3. ASSUME NEW x \in Escape, Bounds(x) PROVE written' <= HeadLimit + Largest(x)
    <3>1. r.size <= Largest(x) /\ written <= HeadLimit
      BY <1>0, <1>2, <2>3 DEF Quota, Fresh
    <3>2. Largest(x) \in Nat
      BY <1>0 DEF Largest
    <3> QED BY <1>0, <2>1, <3>1, <3>2
  <2> QED BY <1>1, <2>2, <2>3 DEF Quota
<1>3. CASE phase = "tail"
  <2>1. written' = written /\ phase' = "tail"
    BY <1>3 DEF Put
  <2> QED BY <1>1, <2>1 DEF Quota
<1> QED BY <1>0, <1>2, <1>3

\* All that a line does to the log, whoever hands it in.
LEMMA PutStep ==
    ASSUME SinkInv, stage \in {"open", "partials"}, stage' = stage,
           broken' = broken, lost' = lost, handed' \in Nat,
           partial' \in [Streams -> 0..MaxFragment],
           \A st \in Streams \ broken : partial'[st] < MaxFragment,
           NEW r \in Rec, Fresh(r), Put(r), seq' = seq + 1,
           handed' + Held = handed + HeldOf(partial') + r.raw
    PROVE  SinkInv'
<1>0. SinkTypeOK /\ EveryByteIsAccountedFor /\ Order /\ Kept /\ Stages /\ Quota
  BY DEF SinkInv
<1>1. /\ seq \in Nat /\ handed \in Nat /\ lost \in Nat /\ dropped \in Nat /\ r.raw \in Nat
      /\ Raw(file) \in Nat /\ Raw(ring) \in Nat
  BY <1>0, TypesOfSink DEF Rec
<1>2. /\ file' \in Seq(Rec) /\ ring' \in Seq(Rec)
      /\ written' \in Nat /\ dropped' \in Nat
      /\ phase' \in {"head", "tail"} /\ truncated' \in BOOLEAN
      /\ Raw(file') + Raw(ring') + dropped' = Raw(file) + Raw(ring) + dropped + r.raw
  BY <1>0, PutKeepsBytes
<1>3. SinkTypeOK'
  <2>1. seq' \in Nat
    BY <1>1
  <2> QED BY <1>0, <1>2, <2>1 DEF SinkTypeOK
<1>4. EveryByteIsAccountedFor'
  <2>1. Held \in Nat /\ HeldOf(partial') \in Nat /\ Held' = HeldOf(partial')
    BY <1>0, HeldType DEF Held, HeldOf, SinkTypeOK
  <2>2. Raw(file') \in Nat /\ Raw(ring') \in Nat
    BY <1>2, Weights
  <2>3. handed = Raw(file) + Raw(ring) + Held + dropped + lost
    BY <1>0 DEF EveryByteIsAccountedFor
  <2>4. handed' = Raw(file') + Raw(ring') + HeldOf(partial') + dropped' + lost
    <3>1. PICK a \in Nat : a = Raw(file) + Raw(ring) + dropped
      BY <1>1
    <3>2. handed = a + Held + lost
      BY <1>1, <2>1, <2>3, <3>1
    <3>3. handed' = a + r.raw + HeldOf(partial') + lost
      BY <1>1, <2>1, <3>2
    <3>4. Raw(file') + Raw(ring') + dropped' = a + r.raw
      BY <1>2, <3>1
    <3>5. PICK b \in Nat : b = Raw(file')
      BY <2>2
    <3>6. PICK c \in Nat : c = Raw(ring')
      BY <2>2
    <3>7. PICK d \in Nat : d = dropped'
      BY <1>2
    <3>8. PICK h \in Nat : h = HeldOf(partial')
      BY <2>1
    <3>9. PICK x \in Nat : x = a + r.raw
      BY <1>1
    <3>10. b + c + d = x /\ handed' = x + h + lost
      BY <3>3, <3>4, <3>5, <3>6, <3>7, <3>8, <3>9
    <3>11. x + h + lost = b + c + h + d + lost
      BY <1>1, <3>10
    <3> QED BY <3>5, <3>6, <3>7, <3>8, <3>10, <3>11
  <2> QED BY <2>1, <2>4 DEF EveryByteIsAccountedFor
<1>5. Unmarked
  BY <1>0 DEF Order
<1>6. Unmarked'
  BY <1>0, <1>3, <1>5, PutUnmarked
<1>7. Order'
  BY <1>6 DEF Order
<1>8. Kept'
  BY <1>0, <1>5, PutKept
<1>9. Stages'
  BY <1>0 DEF Stages
<1>10. Quota'
  BY <1>0, PutQuota
<1> QED BY <1>3, <1>4, <1>7, <1>8, <1>9, <1>10 DEF SinkInv

LEMMA LogFrame ==
    ASSUME UNCHANGED <<seq, file, written, phase, ring, truncated>>
    PROVE  (Unmarked' <=> Unmarked) /\ (Marked' <=> Marked) /\ (Quota' <=> Quota)
<1>1. Unmarked' <=> Unmarked
  BY DEF Unmarked
<1>2. Whole' = Whole
  BY DEF Whole
<1>3. ASSUME NEW m PROVE MarkedAt(m)' <=> MarkedAt(m)
  BY <1>2 DEF MarkedAt
<1>4. Marked' <=> Marked
  BY <1>3 DEF Marked
<1> QED BY <1>1, <1>4 DEF Quota

LEMMA FillStep ==
    ASSUME SinkInv, NEW st \in Streams, Fill(st)
    PROVE  SinkInv'
<1>0. SinkTypeOK /\ EveryByteIsAccountedFor /\ Order /\ Kept /\ Stages /\ Quota
  BY DEF SinkInv
<1>1. PICK n \in 1..(MaxFragment - partial[st] - 1) :
          partial' = [partial EXCEPT ![st] = @ + n] /\ handed' = handed + n
  BY DEF Fill
<1>2. /\ UNCHANGED <<stage, seq, file, written, phase, ring, dropped, truncated, broken, lost>>
      /\ stage = "open"
  BY DEF Fill, Copying
<1>3. /\ partial \in [Streams -> 0..MaxFragment] /\ partial[st] \in 0..MaxFragment
      /\ MaxFragment \in Nat /\ handed \in Nat
  BY <1>0, LogSinkAssumption DEF SinkTypeOK
<1>4. n \in Nat /\ partial[st] + n \in 0..MaxFragment /\ partial[st] + n < MaxFragment
  BY <1>1, <1>3
<1>5. partial' \in [Streams -> 0..MaxFragment] /\ HeldOf(partial') + partial[st] = HeldOf(partial) + (partial[st] + n)
  <2>1. /\ partial' \in [Streams -> 0..MaxFragment] /\ partial'[st] = partial[st] + n
        /\ \A s \in Streams : s # st => partial'[s] = partial[s]
    BY <1>1, <1>3, <1>4
  <2>2. HeldOf(partial') + partial[st] = HeldOf(partial) + partial'[st]
    BY <1>3, <2>1, HeldChange
  <2> QED BY <2>1, <2>2
<1>6. SinkTypeOK'
  <2>1. handed' \in Nat
    BY <1>1, <1>3, <1>4
  <2> QED BY <1>0, <1>2, <1>5, <2>1 DEF SinkTypeOK
<1>7. EveryByteIsAccountedFor'
  <2>1. HeldOf(partial) \in Nat /\ HeldOf(partial') \in Nat
    BY <1>3, <1>5, HeldType
  <2>2. HeldOf(partial') = HeldOf(partial) + n
    BY <1>3, <1>4, <1>5, <2>1
  <2>3. handed = Raw(file) + Raw(ring) + HeldOf(partial) + dropped + lost
    BY <1>0 DEF EveryByteIsAccountedFor, Held, HeldOf
  <2>4. Raw(file) \in Nat /\ Raw(ring) \in Nat /\ dropped \in Nat /\ lost \in Nat
    BY <1>0, TypesOfSink
  <2>5. handed' = Raw(file) + Raw(ring) + HeldOf(partial') + dropped + lost
    BY <1>1, <1>4, <2>1, <2>2, <2>3, <2>4
  <2> QED BY <1>2, <2>5 DEF EveryByteIsAccountedFor, Held, HeldOf
<1>8. Order' /\ Quota'
  BY <1>0, <1>2, LogFrame DEF Order
<1>9. Kept'
  BY <1>0, <1>2 DEF Kept
<1>10. Stages'
  <2>1. \A s \in Streams \ broken : partial'[s] < MaxFragment
    BY <1>0, <1>1, <1>3, <1>4 DEF Stages
  <2> QED BY <1>0, <1>2, <2>1 DEF Stages
<1> QED BY <1>6, <1>7, <1>8, <1>9, <1>10 DEF SinkInv

\* The three ways a job's line is handed in, and the window emptied after it.
LEMMA LineStep ==
    ASSUME SinkInv, NEW st \in Streams, stage \in {"open", "partials"},
           NEW raw \in 0..MaxFragment - 1 + MaxPiece, Line(raw),
           UNCHANGED <<stage, broken, lost>>, handed' \in Nat,
           handed' + partial[st] = handed + raw,
           partial' = [partial EXCEPT ![st] = 0]
    PROVE  SinkInv'
<1>0. SinkTypeOK /\ Stages
  BY DEF SinkInv
<1>1. /\ partial \in [Streams -> 0..MaxFragment] /\ MaxFragment \in Nat \ {0}
      /\ handed \in Nat /\ 0 \in 0..MaxFragment
  BY <1>0, LogSinkAssumption DEF SinkTypeOK
<1>2. PICK r \in Rec : Fresh(r) /\ r.raw = raw /\ Put(r)
  BY <1>0, LineIsFresh
<1>3. seq' = seq + 1
  BY <1>0, LineIsFresh
<1>4. /\ partial' \in [Streams -> 0..MaxFragment]
      /\ HeldOf(partial') + partial[st] = HeldOf(partial) + 0
  <2>1. /\ partial' \in [Streams -> 0..MaxFragment] /\ partial'[st] = 0
        /\ \A s \in Streams : s # st => partial'[s] = partial[s]
    BY <1>1
  <2>2. HeldOf(partial') + partial[st] = HeldOf(partial) + partial'[st]
    BY <1>1, <2>1, HeldChange
  <2> QED BY <2>1, <2>2
<1>5. /\ HeldOf(partial) \in Nat /\ HeldOf(partial') \in Nat /\ partial[st] \in Nat
      /\ Held = HeldOf(partial) /\ raw \in Nat
  <2>1. HeldOf(partial) \in Nat /\ partial[st] \in Nat
    BY <1>1, HeldType
  <2>2. HeldOf(partial') \in Nat
    BY <1>4, HeldType
  <2>3. raw \in Nat
    BY LogSinkAssumption
  <2> QED BY <2>1, <2>2, <2>3 DEF Held, HeldOf
<1>6. handed' + Held = handed + HeldOf(partial') + r.raw
  <2>1. PICK h \in Nat : h = HeldOf(partial)
    BY <1>5
  <2>2. PICK g \in Nat : g = HeldOf(partial')
    BY <1>5
  <2>3. PICK p \in Nat : p = partial[st]
    BY <1>5
  <2>4. g + p = h /\ handed' + p = handed + raw
    BY <1>4, <2>1, <2>2, <2>3
  <2>5. PICK k \in Nat : k = handed'
    OBVIOUS
  <2>6. k + h = handed + g + raw
    <3>1. k + p = handed + raw /\ g + p = h
      BY <2>4, <2>5
    <3>2. raw \in Nat /\ handed \in Nat
      BY <1>1, <1>5
    <3> QED BY <3>1, <3>2
  <2> QED BY <1>2, <1>5, <2>1, <2>2, <2>5, <2>6
<1>7. \A s \in Streams \ broken : partial'[s] < MaxFragment
  BY <1>0, <1>1 DEF Stages
<1> QED BY <1>2, <1>3, <1>4, <1>6, <1>7, PutStep

LEMMA CutStep ==
    ASSUME SinkInv, NEW st \in Streams, Cut(st)
    PROVE  SinkInv'
<1>1. /\ stage = "open" /\ Line(MaxFragment) /\ UNCHANGED <<stage, broken, lost>>
      /\ handed' = handed + MaxFragment - partial[st]
      /\ partial' = [partial EXCEPT ![st] = 0]
  BY DEF Cut, Copying
<1>2. /\ partial[st] \in 0..MaxFragment /\ handed \in Nat
      /\ MaxFragment \in Nat \ {0} /\ MaxPiece \in Nat \ {0}
  BY LogSinkAssumption DEF SinkInv, SinkTypeOK
<1>3. /\ MaxFragment \in 0..MaxFragment - 1 + MaxPiece
      /\ handed' \in Nat /\ handed' + partial[st] = handed + MaxFragment
  BY <1>1, <1>2
<1> QED BY <1>1, <1>3, LineStep

LEMMA NewlineStep ==
    ASSUME SinkInv, NEW st \in Streams, Newline(st)
    PROVE  SinkInv'
<1>1. /\ stage = "open" /\ st \notin broken /\ UNCHANGED <<stage, broken, lost>>
      /\ partial' = [partial EXCEPT ![st] = 0]
  BY DEF Newline, Copying
<1>2. PICK n \in 0..MaxPiece : Line(partial[st] + n) /\ handed' = handed + n
  BY DEF Newline
<1>3. /\ partial[st] \in 0..MaxFragment /\ partial[st] < MaxFragment /\ handed \in Nat
      /\ MaxFragment \in Nat \ {0} /\ MaxPiece \in Nat \ {0}
  BY <1>1, LogSinkAssumption DEF SinkInv, SinkTypeOK, Stages
<1>4. /\ partial[st] + n \in 0..MaxFragment - 1 + MaxPiece
      /\ handed' \in Nat /\ handed' + partial[st] = handed + (partial[st] + n)
  BY <1>2, <1>3
<1> QED BY <1>1, <1>2, <1>4, LineStep

LEMMA FlushPartialStep ==
    ASSUME SinkInv, NEW st \in Streams, FlushPartial(st)
    PROVE  SinkInv'
<1>1. /\ stage = "partials" /\ Line(partial[st]) /\ UNCHANGED <<stage, broken, lost>>
      /\ handed' = handed /\ partial' = [partial EXCEPT ![st] = 0]
  BY DEF FlushPartial, counters
<1>2. /\ partial[st] \in 0..MaxFragment /\ handed \in Nat
      /\ MaxFragment \in Nat \ {0} /\ MaxPiece \in Nat \ {0}
  BY LogSinkAssumption DEF SinkInv, SinkTypeOK
<1>3. /\ partial[st] \in 0..MaxFragment - 1 + MaxPiece
      /\ handed' \in Nat /\ handed' + partial[st] = handed + partial[st]
  BY <1>1, <1>2
<1> QED BY <1>1, <1>3, LineStep

LEMMA EmitStep ==
    ASSUME SinkInv, Emit
    PROVE  SinkInv'
<1> DEFINE r == [seq |-> seq + 1, raw |-> 0, size |-> Wrap, kind |-> "event"]
<1>0. SinkTypeOK /\ Stages
  BY DEF SinkInv
<1>1. /\ stage = "open" /\ seq' = seq + 1 /\ Put(r)
      /\ UNCHANGED <<stage, partial, broken, handed, lost>>
  BY DEF Emit, counters
<1>2. /\ seq \in Nat /\ handed \in Nat /\ Wrap \in Nat /\ Escape \subseteq Nat
      /\ MaxFragment \in Nat \ {0} /\ MaxPiece \in Nat \ {0}
      /\ partial \in [Streams -> 0..MaxFragment]
  BY <1>0, LogSinkAssumption DEF SinkTypeOK
<1>3. r \in Rec /\ r.raw = 0
  BY <1>2 DEF Rec
<1>4. Fresh(r)
  BY <1>2, <1>3 DEF Fresh, Largest
<1> HIDE DEF r
<1>5. Held \in Nat /\ Held = HeldOf(partial')
  BY <1>1, <1>2, HeldType DEF Held, HeldOf
<1>6. handed' + Held = handed + HeldOf(partial') + r.raw
  BY <1>1, <1>2, <1>3, <1>5
<1>7. \A st \in Streams \ broken : partial'[st] < MaxFragment
  BY <1>0, <1>1 DEF Stages
<1> QED BY <1>1, <1>2, <1>3, <1>4, <1>6, <1>7, PutStep

-----------------------------------------------------------------------------
(* A write fails, and Finish. *)

\* A number is used up by a write that fails while the head is written.
LEMMA NumberLost ==
    ASSUME SinkTypeOK, Unmarked, Kept, phase = "head", seq' = seq + 1,
           UNCHANGED <<file, written, phase, ring, truncated>>
    PROVE  Unmarked'
<1>1. ~truncated /\ ring = << >> /\ seq \in Nat
  BY DEF Kept, SinkTypeOK
<1>2. \A n \in 1..seq : n \in 1..seq'
  BY <1>1
<1>3. DOMAIN ring = {}
  BY <1>1
<1>4. \A i \in DOMAIN file' : file'[i].kind # "truncated" /\ file'[i].seq \in 1..seq'
  BY <1>2 DEF Unmarked
<1>5. /\ \A i, j \in DOMAIN file' : i < j => file'[i].seq < file'[j].seq
      /\ Bytes(file') = written'
  BY DEF Unmarked
<1> QED BY <1>1, <1>3, <1>4, <1>5 DEF Unmarked

LEMMA WriteFailsStep ==
    ASSUME SinkInv, NEW st \in Streams, WriteFails(st)
    PROVE  SinkInv'
<1>0. SinkTypeOK /\ EveryByteIsAccountedFor /\ Order /\ Kept /\ Stages /\ Quota
  BY DEF SinkInv
<1>1. /\ stage = "open" /\ phase = "head" /\ st \notin broken
      /\ seq' = seq + 1 /\ broken' = broken \union {st}
      /\ UNCHANGED <<stage, file, written, phase, ring, dropped, truncated>>
  BY DEF WriteFails, Copying
<1>2. /\ partial \in [Streams -> 0..MaxFragment] /\ partial[st] \in 0..MaxFragment
      /\ MaxFragment \in Nat \ {0} /\ handed \in Nat /\ lost \in Nat /\ seq \in Nat
      /\ Raw(file) \in Nat /\ Raw(ring) \in Nat /\ dropped \in Nat /\ MaxPiece \in Nat
      /\ HeldOf(partial) \in Nat
  BY <1>0, TypesOfSink, HeldType DEF SinkTypeOK
<1>3. handed = Raw(file) + Raw(ring) + HeldOf(partial) + dropped + lost
  BY <1>0 DEF EveryByteIsAccountedFor, Held, HeldOf
<1>4. /\ partial' \in [Streams -> 0..MaxFragment] /\ handed' \in Nat /\ lost' \in Nat
      /\ \A s \in Streams : s # st => partial'[s] = partial[s]
      /\ handed' = Raw(file) + Raw(ring) + HeldOf(partial') + dropped + lost'
  <2>1. CASE \E n \in 0..MaxPiece : handed' = handed + n /\ lost' = lost + n /\ UNCHANGED partial
    <3>1. PICK n \in 0..MaxPiece : handed' = handed + n /\ lost' = lost + n /\ partial' = partial
      BY <2>1
    <3> QED BY <1>2, <1>3, <3>1
  <2>2. CASE /\ handed' = handed + MaxFragment - partial[st]
             /\ partial' = [partial EXCEPT ![st] = MaxFragment]
             /\ UNCHANGED lost
    <3>1. /\ partial' \in [Streams -> 0..MaxFragment] /\ partial'[st] = MaxFragment
          /\ \A s \in Streams : s # st => partial'[s] = partial[s]
      BY <1>2, <2>2
    <3>2. HeldOf(partial') + partial[st] = HeldOf(partial) + partial'[st] /\ HeldOf(partial') \in Nat
      BY <1>2, <3>1, HeldChange, HeldType
    <3>3. PICK g \in Nat : g = HeldOf(partial')
      BY <3>2
    <3>4. PICK h \in Nat : h = HeldOf(partial)
      BY <1>2
    <3>5. g + partial[st] = h + MaxFragment /\ handed = Raw(file) + Raw(ring) + h + dropped + lost
      BY <1>3, <3>1, <3>2, <3>3, <3>4
    <3>6. handed + MaxFragment - partial[st] = Raw(file) + Raw(ring) + g + dropped + lost
      BY <1>2, <3>5
    <3> QED BY <1>2, <2>2, <3>1, <3>3, <3>6
  <2> QED BY <2>1, <2>2 DEF WriteFails
<1>5. SinkTypeOK'
  <2>1. seq' \in Nat
    BY <1>1, <1>2
  <2> QED BY <1>0, <1>1, <1>4, <2>1 DEF SinkTypeOK
<1>6. EveryByteIsAccountedFor'
  BY <1>1, <1>4 DEF EveryByteIsAccountedFor, Held, HeldOf
<1>7. Order'
  BY <1>0, <1>1, NumberLost DEF Order
<1>8. Kept' /\ Stages' /\ Quota'
  BY <1>0, <1>1, <1>4 DEF Kept, Stages, Quota
<1> QED BY <1>5, <1>6, <1>7, <1>8 DEF SinkInv

\* Finish goes on to its next stage.
LEMMA StageStep ==
    ASSUME SinkInv,
           UNCHANGED <<seq, file, written, phase, ring, dropped, truncated, partial, broken,
                       handed, lost>>,
           \/ BeginFinish \/ PartialsFlushed \/ RingFlushed \/ SyncAndClose
           \/ stage' = "stuck" /\ stage \in {"marker", "ring", "sync"}
    PROVE  SinkInv'
<1>0. SinkTypeOK /\ EveryByteIsAccountedFor /\ Order /\ Kept /\ Stages /\ Quota
  BY DEF SinkInv
<1>1. EveryByteIsAccountedFor' /\ Quota' /\ (Unmarked' <=> Unmarked) /\ (Marked' <=> Marked)
  BY <1>0, LogFrame DEF EveryByteIsAccountedFor, Held
<1>2. CASE BeginFinish
  <2>1. stage = "open" /\ stage' = "partials"
    BY <1>2 DEF BeginFinish
  <2> QED BY <1>0, <1>1, <2>1 DEF SinkInv, SinkTypeOK, Order, Kept, Stages
<1>3. CASE PartialsFlushed
  <2>1. /\ stage = "partials" /\ \A st \in Streams : partial[st] = 0
        /\ stage' = IF phase = "tail" THEN "marker" ELSE "sync"
    BY <1>3 DEF PartialsFlushed
  <2>2. phase = "head" => ring = << >>
    BY <1>0 DEF Kept
  <2>3. phase \in {"head", "tail"}
    BY <1>0 DEF SinkTypeOK
  <2> QED BY <1>0, <1>1, <2>1, <2>2, <2>3 DEF SinkInv, SinkTypeOK, Order, Kept, Stages
<1>4. CASE RingFlushed
  <2>1. stage = "ring" /\ ring = << >> /\ stage' = "sync"
    BY <1>4 DEF RingFlushed
  <2> QED BY <1>0, <1>1, <2>1 DEF SinkInv, SinkTypeOK, Order, Kept, Stages
<1>5. CASE SyncAndClose
  <2>1. stage = "sync" /\ stage' = "finished"
    BY <1>5 DEF SyncAndClose
  <2> QED BY <1>0, <1>1, <2>1 DEF SinkInv, SinkTypeOK, Order, Kept, Stages
<1>6. CASE stage' = "stuck" /\ stage \in {"marker", "ring", "sync"}
  BY <1>0, <1>1, <1>6 DEF SinkInv, SinkTypeOK, Order, Kept, Stages
<1> QED BY <1>2, <1>3, <1>4, <1>5, <1>6

\* A remainder is lost with the write that failed.
LEMMA RemainderLost ==
    ASSUME SinkInv, NEW st \in Streams, stage = "partials", phase = "head",
           seq' = seq + 1, lost' = lost + partial[st],
           partial' = [partial EXCEPT ![st] = 0], stage' = "stuck",
           UNCHANGED <<file, written, phase, ring, dropped, truncated, broken, handed>>
    PROVE  SinkInv'
<1>0. SinkTypeOK /\ EveryByteIsAccountedFor /\ Order /\ Kept /\ Stages /\ Quota
  BY DEF SinkInv
<1>1. /\ partial \in [Streams -> 0..MaxFragment] /\ partial[st] \in 0..MaxFragment
      /\ MaxFragment \in Nat \ {0} /\ handed \in Nat /\ lost \in Nat /\ seq \in Nat
      /\ Raw(file) \in Nat /\ Raw(ring) \in Nat /\ dropped \in Nat
      /\ HeldOf(partial) \in Nat
  BY <1>0, TypesOfSink, HeldType DEF SinkTypeOK
<1>2. /\ partial' \in [Streams -> 0..MaxFragment] /\ partial'[st] = 0
      /\ \A s \in Streams : s # st => partial'[s] = partial[s]
  BY <1>1
<1>3. HeldOf(partial') + partial[st] = HeldOf(partial) + partial'[st] /\ HeldOf(partial') \in Nat
  BY <1>1, <1>2, HeldChange, HeldType
<1>4. SinkTypeOK'
  <2>1. seq' \in Nat /\ lost' \in Nat
    BY <1>1
  <2> QED BY <1>0, <1>2, <2>1 DEF SinkTypeOK
<1>5. EveryByteIsAccountedFor'
  <2>1. handed = Raw(file) + Raw(ring) + HeldOf(partial) + dropped + lost
    BY <1>0 DEF EveryByteIsAccountedFor, Held, HeldOf
  <2>2. PICK g \in Nat : g = HeldOf(partial')
    BY <1>3
  <2>3. PICK h \in Nat : h = HeldOf(partial)
    BY <1>1
  <2>4. g + partial[st] = h
    BY <1>2, <1>3, <2>2, <2>3
  <2>5. handed = Raw(file) + Raw(ring) + g + dropped + (lost + partial[st])
    BY <1>1, <2>1, <2>3, <2>4
  <2> QED BY <2>2, <2>5 DEF EveryByteIsAccountedFor, Held, HeldOf
<1>6. Order'
  BY <1>0, NumberLost DEF Order
<1>7. Kept' /\ Quota'
  BY <1>0 DEF Kept, Quota
<1>8. Stages'
  <2>1. \A s \in Streams \ broken : partial'[s] < MaxFragment
    BY <1>0, <1>1, <1>2 DEF Stages
  <2> QED BY <1>0, <2>1 DEF Stages
<1> QED BY <1>4, <1>5, <1>6, <1>7, <1>8 DEF SinkInv

LEMMA FinishFailsStep ==
    ASSUME SinkInv, FinishFails
    PROVE  SinkInv'
<1>1. /\ stage' = "stuck"
      /\ UNCHANGED <<file, written, phase, ring, dropped, truncated, broken, handed>>
  BY DEF FinishFails
<1>2. CASE /\ stage = "partials" /\ phase = "head"
           /\ \E st \in Streams : /\ IsNextPartial(st) /\ seq' = seq + 1
                                  /\ lost' = lost + partial[st]
                                  /\ partial' = [partial EXCEPT ![st] = 0]
  BY <1>1, <1>2, RemainderLost
<1>3. CASE /\ stage \in {"marker", "sync"} \/ (stage = "ring" /\ ring # << >>)
           /\ UNCHANGED <<seq, lost, partial>>
  BY <1>1, <1>3, StageStep
<1> QED BY <1>2, <1>3 DEF FinishFails

LEMMA WriteMarkerStep ==
    ASSUME SinkInv, WriteMarker
    PROVE  SinkInv'
<1> DEFINE r == [seq |-> seq + 1, raw |-> 0, size |-> Wrap, kind |-> "truncated"]
<1>0. SinkTypeOK /\ EveryByteIsAccountedFor /\ Order /\ Kept /\ Stages /\ Quota
  BY DEF SinkInv
<1>1. /\ stage = "marker" /\ stage' = "ring" /\ seq' = seq + 1 /\ file' = Append(file, r)
      /\ UNCHANGED <<written, phase, ring, dropped, truncated, partial, broken, handed, lost>>
  BY DEF WriteMarker, counters
<1>2. /\ file \in Seq(Rec) /\ ring \in Seq(Rec) /\ Whole \in Seq(Rec)
      /\ Len(file) \in Nat /\ Len(ring) \in Nat /\ seq \in Nat /\ Wrap \in Nat
      /\ DOMAIN file = 1..Len(file) /\ DOMAIN ring = 1..Len(ring)
      /\ \A i \in 1..Len(file) : file[i].seq \in Nat
      /\ written \in Nat /\ RingLimit \in Nat /\ Bytes(file) \in Nat /\ Bytes(ring) \in Nat
      /\ Raw(file) \in Nat /\ Raw(ring) \in Nat
      /\ phase = "tail" /\ Unmarked
  BY <1>0, <1>1, TypesOfSink DEF Stages, Order
<1>m. PICK m \in Nat : m = Len(file) + 1
  BY <1>2
<1>3. r \in Rec /\ r.seq = seq + 1 /\ r.raw = 0 /\ r.size = Wrap /\ r.kind = "truncated"
  BY <1>2 DEF Rec
<1> HIDE DEF r
<1>4. <<r>> \in Seq(Rec) /\ file' = file \o <<r>> /\ file' \in Seq(Rec)
  BY <1>1, <1>2, <1>3, AppendIsConcat
<1>5. /\ Len(file') = m /\ DOMAIN file' = 1..m
      /\ \A i \in 1..Len(file) : file'[i] = file[i]
      /\ file'[m] = r
  BY <1>2, <1>3, <1>4, <1>m
<1>6. Raw(file') = Raw(file) /\ Bytes(file') = Bytes(file) + Wrap
  <2>1. Raw(file') = Raw(file) + Raw(<<r>>) /\ Bytes(file') = Bytes(file) + Bytes(<<r>>)
    BY <1>2, <1>4, Weights
  <2>2. Raw(<<r>>) = 0 /\ Bytes(<<r>>) = Wrap
    BY <1>3, Weights
  <2> QED BY <1>2, <2>1, <2>2
<1>7. SinkTypeOK'
  <2>1. seq' \in Nat
    BY <1>1, <1>2
  <2> QED BY <1>0, <1>1, <1>4, <2>1 DEF SinkTypeOK
<1>8. EveryByteIsAccountedFor'
  BY <1>0, <1>1, <1>6 DEF EveryByteIsAccountedFor, Held
<1>9. Kept'
  <2>1. ASSUME ~truncated, broken = {}
        PROVE  Len(file') = seq' /\ \A i \in DOMAIN file' : file'[i].seq = i
    <3>1. Len(file) = seq /\ \A i \in DOMAIN file : file[i].seq = i
      BY <1>0, <1>1, <2>1 DEF Kept
    <3>2. \A i \in DOMAIN file' : i \in 1..Len(file) \/ i = m
      BY <1>2, <1>5, <1>m
    <3> QED BY <1>1, <1>2, <1>3, <1>5, <1>m, <3>1, <3>2
  <2> QED BY <1>0, <1>1, <2>1 DEF Kept
<1>10. Stages' /\ Quota'
  BY <1>0, <1>1 DEF Stages, Quota
<1>11. MarkedAt(m)'
  <2>1. /\ Whole' \in Seq(Rec) /\ Len(Whole') = m + Len(ring)
        /\ \A i \in 1..Len(file) : Whole'[i] = file[i]
        /\ Whole'[m] = r
        /\ \A i \in m + 1..m + Len(ring) : i - m \in 1..Len(ring) /\ Whole'[i] = ring[i - m]
    BY <1>1, <1>2, <1>4, <1>5, <1>m DEF Whole
  <2>2. m - 1 = Len(file) /\ seq' - 1 = seq
    BY <1>1, <1>2, <1>m
  <2>3. Bytes(Whole') <= written' + Wrap + RingLimit
    <3>1. Bytes(Whole') = Bytes(file') + Bytes(ring')
      BY <1>7, TypesOfSink, <1>1, <1>2, <1>4, Weights DEF Whole
    <3>2. Bytes(file) = written /\ Bytes(ring) <= RingLimit
      BY <1>0, <1>2 DEF Unmarked, Quota
    <3> QED BY <1>1, <1>2, <1>6, <3>1, <3>2
  <2>4. /\ \A i \in 1..Len(file) : Whole'[i].kind # "truncated" /\ Whole'[i].seq \in 1..seq
        /\ \A i, j \in 1..Len(file) : i < j => Whole'[i].seq < Whole'[j].seq
    BY <1>2, <2>1 DEF Unmarked
  <2>5. ASSUME NEW i \in m + 1..Len(Whole')
        PROVE  /\ Whole'[i].kind # "truncated"
               /\ Whole'[i].seq = seq' - 1 - (Len(Whole') - i)
               /\ \A j \in 1..Len(file) : Whole'[j].seq < Whole'[i].seq
    <3>1. i - m \in 1..Len(ring) /\ Whole'[i] = ring[i - m]
      BY <1>2, <2>1, <2>5
    <3>2. /\ ring[i - m].kind # "truncated"
          /\ ring[i - m].seq = seq - (Len(ring) - (i - m))
          /\ \A j \in 1..Len(file) : file[j].seq < ring[i - m].seq
      BY <1>2, <3>1 DEF Unmarked
    <3>3. seq - (Len(ring) - (i - m)) = seq' - 1 - (Len(Whole') - i)
      BY <1>1, <1>2, <2>1, <2>5
    <3> QED BY <2>1, <3>1, <3>2, <3>3
  <2>6. truncated => seq' > 1 /\ \A i \in 1..Len(file) : Whole'[i].seq < seq
    <3>1. truncated => seq > 0 /\ \A i \in 1..Len(file) : file[i].seq < seq
      BY <1>2 DEF Unmarked
    <3>2. seq > 0 => seq' > 1
      BY <1>1, <1>2
    <3> QED BY <2>1, <3>1, <3>2
  <2>7. ~truncated => m > 1 /\ Whole'[Len(file)].seq = seq
    <3>1. SUFFICES ASSUME ~truncated PROVE m > 1 /\ Whole'[Len(file)].seq = seq
      OBVIOUS
    <3>2. file # << >> /\ file[Len(file)].seq = seq
      BY <1>2, <3>1 DEF Unmarked
    <3>3. Len(file) \in 1..Len(file)
      BY <1>2, <3>2
    <3>4. Whole'[Len(file)] = file[Len(file)]
      BY <2>1, <3>3
    <3>5. m > 1
      BY <1>2, <1>m, <3>3
    <3> QED BY <3>2, <3>4, <3>5
  <2> QED BY <1>1, <1>2, <1>3, <1>5, <1>m, <2>1, <2>2, <2>3, <2>4, <2>5, <2>6, <2>7 DEF MarkedAt
<1>12. Order'
  <2>1. m \in 1..Len(file')
    BY <1>2, <1>5, <1>m
  <2> QED BY <1>1, <1>11, <2>1 DEF Order, Marked
<1> QED BY <1>7, <1>8, <1>9, <1>10, <1>12 DEF SinkInv

LEMMA FlushRingStep ==
    ASSUME SinkInv, FlushRing
    PROVE  SinkInv'
<1>0. SinkTypeOK /\ EveryByteIsAccountedFor /\ Order /\ Kept /\ Stages /\ Quota
  BY DEF SinkInv
<1>1. /\ stage = "ring" /\ stage' = "ring" /\ ring # << >>
      /\ file' = Append(file, Head(ring)) /\ ring' = Tail(ring)
      /\ UNCHANGED <<seq, written, phase, dropped, truncated, partial, broken, handed, lost>>
  BY DEF FlushRing, counters
<1>2. file \in Seq(Rec) /\ ring \in Seq(Rec)
  BY <1>0 DEF SinkTypeOK
<1>3. Head(ring) \in Rec /\ <<Head(ring)>> \in Seq(Rec) /\ Tail(ring) \in Seq(Rec)
      /\ ring = <<Head(ring)>> \o Tail(ring)
  BY <1>1, <1>2
<1> DEFINE h == <<Head(ring)>>
           t == Tail(ring)
<1>4. h \in Seq(Rec) /\ t \in Seq(Rec) /\ ring = h \o t /\ file' = file \o h /\ ring' = t
      /\ file' \in Seq(Rec) /\ Len(file') = Len(file) + 1
  BY <1>1, <1>2, <1>3, AppendIsConcat
<1> HIDE DEF h, t
<1>5. Whole' = Whole
  BY <1>2, <1>4, ConcatAssociative DEF Whole
<1>6. /\ Raw(file') = Raw(file) + Raw(h) /\ Raw(ring) = Raw(h) + Raw(t)
      /\ Bytes(ring) = Bytes(h) + Bytes(t)
      /\ Raw(file) \in Nat /\ Raw(h) \in Nat /\ Raw(t) \in Nat
      /\ Bytes(h) \in Nat /\ Bytes(t) \in Nat
  BY <1>2, <1>4, Weights
<1>7. SinkTypeOK'
  BY <1>0, <1>1, <1>4 DEF SinkTypeOK
<1>8. EveryByteIsAccountedFor'
  <2>1. Raw(file') + Raw(ring') = Raw(file) + Raw(ring)
    BY <1>4, <1>6
  <2> QED BY <1>0, <1>1, <2>1 DEF EveryByteIsAccountedFor, Held
<1>9. Kept'
  BY <1>0, <1>1 DEF Kept
<1>10. Stages'
  BY <1>0, <1>1 DEF Stages
<1>11. Quota'
  <2>1. Bytes(ring') <= RingLimit
    BY SMTT(20), <1>0, <1>4, <1>6, LogSinkAssumption DEF Quota
  <2> QED BY <1>0, <1>1, <2>1 DEF Quota
<1>12. Order'
  <2>1. PICK m \in 1..Len(file) : MarkedAt(m)
    BY <1>0, <1>1 DEF Order, Marked
  <2>2. m \in 1..Len(file')
    BY <1>2, <1>4
  <2>3. MarkedAt(m)'
    BY <1>1, <1>5, <2>1, <2>2 DEF MarkedAt
  <2> QED BY <1>1, <2>2, <2>3 DEF Order, Marked
<1> QED BY <1>7, <1>8, <1>9, <1>10, <1>11, <1>12 DEF SinkInv

\* One step of the job or of Finish.
LEMMA SinkStep ==
    ASSUME SinkInv, Write \/ Finish \/ FinishFails
    PROVE  SinkInv'
<1>1. CASE Write
  BY <1>1, FillStep, CutStep, NewlineStep, WriteFailsStep, EmitStep DEF Write
<1>2. CASE BeginFinish \/ PartialsFlushed \/ RingFlushed \/ SyncAndClose
  <2>1. UNCHANGED <<seq, file, written, phase, ring, dropped, truncated, partial, broken,
                    handed, lost>>
    BY <1>2 DEF BeginFinish, PartialsFlushed, RingFlushed, SyncAndClose, counters
  <2> QED BY <1>2, <2>1, StageStep
<1>3. CASE (\E st \in Streams : FlushPartial(st)) \/ WriteMarker \/ FlushRing
  BY <1>3, FlushPartialStep, WriteMarkerStep, FlushRingStep
<1>4. CASE FinishFails
  BY <1>4, FinishFailsStep
<1> QED BY <1>1, <1>2, <1>3, <1>4 DEF Finish

-----------------------------------------------------------------------------
(* What the invariant says of a closed log. *)

LEMMA SinkCases ==
    ASSUME SinkInv
    PROVE  /\ Unmarked \/ Marked
           /\ stage = "finished" => ring = << >> /\ Whole = file
           /\ stage = "finished" /\ phase = "tail" => Marked
           /\ stage = "finished" /\ phase = "head" => Unmarked
<1>1. SinkTypeOK /\ Order /\ Stages
  BY DEF SinkInv
<1>2. Unmarked \/ Marked
  BY <1>1 DEF Order, SinkTypeOK
<1>3. stage = "finished" => ring = << >>
  BY <1>1 DEF Stages
<1>4. file \o << >> = file
  BY <1>1 DEF SinkTypeOK
<1>5. stage = "finished" /\ phase = "tail" => Marked
  BY <1>1 DEF Order
<1>6. stage = "finished" /\ phase = "head" => Unmarked
  BY <1>1 DEF Order, Marked, MarkedAt
<1> QED BY <1>2, <1>3, <1>4, <1>5, <1>6 DEF Whole

\* With the marker at m, the file is the head, the marker and the tail.
LEMMA MarkedFile ==
    ASSUME SinkInv, NEW m \in 1..Len(file), MarkedAt(m)
    PROVE  /\ file[m].kind = "truncated" /\ file[m].seq = seq
           /\ \A i \in 1..m - 1 : file[i].kind # "truncated" /\ file[i].seq \in 1..seq - 1
           /\ \A i, j \in 1..m - 1 : i < j => file[i].seq < file[j].seq
           /\ \A i \in m + 1..Len(file) :
                 /\ file[i].kind # "truncated"
                 /\ \A j \in 1..m - 1 : file[j].seq < file[i].seq
           /\ truncated => seq > 1 /\ \A i \in 1..m - 1 : file[i].seq < seq - 1
           /\ ~truncated => m > 1 /\ file[m - 1].seq = seq - 1
<1>1. SinkTypeOK
  BY DEF SinkInv
<1>2. /\ Len(file) \in Nat /\ Len(Whole) = Len(file) + Len(ring) /\ Len(ring) \in Nat
      /\ \A i \in 1..Len(file) : Whole[i] = file[i]
  BY <1>1, TypesOfSink
<1>3. \A i \in 1..m - 1 : i \in 1..Len(file)
  BY <1>2
<1>4. \A i \in m + 1..Len(file) : i \in 1..Len(file) /\ i \in m + 1..Len(Whole)
  BY <1>2
<1>5. ~truncated => m > 1 /\ m - 1 \in 1..Len(file)
  BY <1>2 DEF MarkedAt
<1> QED BY <1>2, <1>3, <1>4, <1>5 DEF MarkedAt

LEMMA CompleteLog == SinkInv => UntruncatedIsComplete
<1> SUFFICES ASSUME SinkInv, stage = "finished", ~truncated, broken = {}
             PROVE  /\ Raw(file) = handed
                    /\ \A n \in 1..seq : Written(n)
                    /\ \A i \in DOMAIN file : file[i].seq = i
  BY DEF UntruncatedIsComplete
<1>0. SinkTypeOK /\ EveryByteIsAccountedFor /\ Kept /\ Stages
  BY DEF SinkInv
<1>1. Len(file) = seq /\ \A i \in DOMAIN file : file[i].seq = i
  BY <1>0 DEF Kept
<1>2. ring = << >> /\ dropped = 0 /\ lost = 0
  BY <1>0 DEF Kept, Stages
<1>3. Held = 0
  BY <1>0, HeldZero DEF Stages, SinkTypeOK, Held, HeldOf
<1>4. Raw(ring) = 0 /\ Raw(file) \in Nat /\ DOMAIN file = 1..Len(file)
  BY <1>0, <1>2, Weights, TypesOfSink
<1>5. Raw(file) = handed
  BY <1>0, <1>2, <1>3, <1>4 DEF EveryByteIsAccountedFor
<1>6. \A n \in 1..seq : Written(n)
  BY <1>1, <1>4 DEF Written
<1> QED BY <1>1, <1>5, <1>6

LEMMA TruncationLoses == SinkInv => TruncatedMeansSomething
<1> SUFFICES ASSUME SinkInv, truncated
             PROVE  \E n \in 1..seq : \A i \in DOMAIN file :
                        file[i].seq = n => \E j \in 1..(i - 1) : file[j].kind = "truncated"
  BY DEF TruncatedMeansSomething
<1>0. SinkTypeOK /\ seq \in Nat /\ Len(file) \in Nat /\ DOMAIN file = 1..Len(file)
      /\ \A i \in 1..Len(file) : file[i].seq \in Nat
  BY TypesOfSink DEF SinkInv
<1>1. CASE Unmarked
  <2>1. seq \in 1..seq /\ \A i \in DOMAIN file : file[i].seq < seq
    BY <1>0, <1>1 DEF Unmarked
  <2>2. \A i \in DOMAIN file : file[i].seq # seq
    BY <1>0, <2>1
  <2> QED BY <2>1, <2>2
<1>2. CASE Marked
  <2>1. PICK m \in 1..Len(file) : MarkedAt(m)
    BY <1>2 DEF Marked
  <2>2. /\ file[m].kind = "truncated" /\ file[m].seq = seq
        /\ seq > 1 /\ \A i \in 1..m - 1 : file[i].seq < seq - 1
    BY <2>1, MarkedFile
  <2>3. ASSUME NEW i \in DOMAIN file, file[i].seq = seq - 1
        PROVE  m \in 1..(i - 1)
    <3>1. i # m /\ i \notin 1..m - 1
      BY <1>0, <2>2, <2>3
    <3> QED BY <1>0, <3>1
  <2>4. seq - 1 \in 1..seq
    BY <1>0, <2>2
  <2> QED BY <2>2, <2>3, <2>4
<1> QED BY <1>1, <1>2, SinkCases

LEMMA LogWithinQuota == SinkInv => QuotaHolds
<1> SUFFICES ASSUME SinkInv PROVE QuotaHolds
  OBVIOUS
<1>0. SinkTypeOK /\ Quota
  BY DEF SinkInv
<1>1. /\ written \in Nat /\ Bytes(file) \in Nat /\ Bytes(ring) \in Nat /\ Wrap \in Nat
      /\ Bytes(Whole) = Bytes(file) + Bytes(ring)
      /\ HeadLimit \in Nat /\ RingLimit \in Nat /\ Escape \subseteq Nat
      /\ MaxFragment \in Nat \ {0} /\ MaxPiece \in Nat \ {0}
  BY <1>0, TypesOfSink
<1>2. Bytes(file) <= written + Wrap + RingLimit
  <2>1. CASE Unmarked
    BY <1>1, <2>1 DEF Unmarked
  <2>2. CASE Marked
    <3>1. Bytes(Whole) <= written + Wrap + RingLimit
      BY <2>2 DEF Marked, MarkedAt
    <3> QED BY <1>1, <3>1
  <2> QED BY <2>1, <2>2, SinkCases
<1>3. ASSUME NEW x \in Escape, \A y \in Escape : y <= x
      PROVE  Bytes(file) <= HeadLimit + (MaxFragment - 1 + MaxPiece + Wrap + x) + Wrap + RingLimit
  <2>1. written <= HeadLimit + (MaxFragment - 1 + MaxPiece + Wrap + x)
    BY <1>0, <1>3 DEF Quota, Bounds, Largest
  <2> QED BY <1>1, <1>2, <2>1
<1> QED BY <1>0, <1>3 DEF QuotaHolds, Quota

LEMMA NewestAtTheEnd == SinkInv => TailIsNewest
<1> SUFFICES ASSUME SinkInv, stage = "finished", truncated
             PROVE  \E m \in DOMAIN file :
                      /\ file[m].kind = "truncated"
                      /\ file[m].seq = seq
                      /\ \A i \in 1..m - 1 : \A j \in i + 1..m - 1 : file[i].seq < file[j].seq
                      /\ \A i \in m + 1..Len(file) - 1 : file[i + 1].seq = file[i].seq + 1
                      /\ Len(file) > m => file[Len(file)].seq = seq - 1
  BY DEF TailIsNewest
<1>0. SinkTypeOK /\ Kept /\ seq \in Nat /\ Len(file) \in Nat /\ DOMAIN file = 1..Len(file)
  BY TypesOfSink DEF SinkInv
<1>1. phase = "tail" /\ Marked /\ Whole = file
  BY <1>0, SinkCases DEF Kept
<1>2. PICK m \in 1..Len(file) : MarkedAt(m)
  BY <1>1 DEF Marked
<1>3. /\ file[m].kind = "truncated" /\ file[m].seq = seq
      /\ \A i, j \in 1..m - 1 : i < j => file[i].seq < file[j].seq
  BY <1>2, MarkedFile
<1>4. \A i \in m + 1..Len(file) : file[i].seq = seq - 1 - (Len(file) - i)
  BY <1>1, <1>2 DEF MarkedAt
<1>5. \A i \in m + 1..Len(file) - 1 : file[i + 1].seq = file[i].seq + 1
  <2> SUFFICES ASSUME NEW i \in m + 1..Len(file) - 1
               PROVE  file[i + 1].seq = file[i].seq + 1
    OBVIOUS
  <2>1. i \in m + 1..Len(file) /\ i + 1 \in m + 1..Len(file)
    BY <1>0
  <2>2. file[i].seq = seq - 1 - (Len(file) - i) /\ file[i + 1].seq = seq - 1 - (Len(file) - (i + 1))
    BY <1>4, <2>1
  <2> QED BY <1>0, <2>2
<1>6. Len(file) > m => file[Len(file)].seq = seq - 1
  BY <1>0, <1>4
<1>7. \A i \in 1..m - 1 : \A j \in i + 1..m - 1 : file[i].seq < file[j].seq
  <2> SUFFICES ASSUME NEW i \in 1..m - 1, NEW j \in i + 1..m - 1
               PROVE  file[i].seq < file[j].seq
    OBVIOUS
  <2>1. j \in 1..m - 1 /\ i < j
    BY <1>0
  <2> QED BY <1>3, <2>1
<1> QED BY <1>0, <1>3, <1>5, <1>6, <1>7

\* One marker in a closed log that filled its head, none in another.  Without the
\* flag nothing can stand behind it: a line there would be younger than the last
\* line of the head, which has the number before the marker's.
LEMMA MarkersCount == SinkInv => MarkerMeansHeadFull
<1> DEFINE markers == {m \in DOMAIN file : file[m].kind = "truncated"}
<1> SUFFICES ASSUME SinkInv, stage = "finished"
             PROVE  /\ phase = "head" => markers = {}
                    /\ phase = "tail" => \E m \in DOMAIN file :
                          markers = {m} /\ (~truncated => m = Len(file) /\ dropped = 0)
  BY DEF MarkerMeansHeadFull
<1>0. Kept /\ seq \in Nat /\ Len(file) \in Nat /\ DOMAIN file = 1..Len(file)
  BY TypesOfSink DEF SinkInv
<1>1. ASSUME phase = "head" PROVE markers = {}
  BY <1>1, SinkCases DEF Unmarked
<1>2. ASSUME phase = "tail"
      PROVE  \E m \in DOMAIN file :
                markers = {m} /\ (~truncated => m = Len(file) /\ dropped = 0)
  <2>1. Marked /\ Whole = file
    BY <1>2, SinkCases
  <2>2. PICK m \in 1..Len(file) : MarkedAt(m)
    BY <2>1 DEF Marked
  <2>3. file[m].kind = "truncated" /\ \A i \in 1..Len(file) : i # m => file[i].kind # "truncated"
    <3>1. /\ file[m].kind = "truncated"
          /\ \A i \in 1..m - 1 : file[i].kind # "truncated"
          /\ \A i \in m + 1..Len(file) : file[i].kind # "truncated"
      BY <2>2, MarkedFile
    <3>2. \A i \in 1..Len(file) : i # m => i \in 1..m - 1 \/ i \in m + 1..Len(file)
      BY <1>0
    <3> QED BY <3>1, <3>2
  <2>4. markers = {m}
    BY <1>0, <2>3
  <2>5. ASSUME ~truncated PROVE m = Len(file) /\ dropped = 0
    <3>1. dropped = 0
      BY <1>0, <2>5 DEF Kept
    <3>2. /\ m > 1 /\ file[m - 1].seq = seq - 1
          /\ \A i \in m + 1..Len(file) : \A j \in 1..m - 1 : file[j].seq < file[i].seq
      BY <2>2, <2>5, MarkedFile
    <3>3. \A i \in m + 1..Len(file) : file[i].seq = seq - 1 - (Len(file) - i)
      BY <2>1, <2>2 DEF MarkedAt
    <3>4. ASSUME m # Len(file) PROVE FALSE
      <4>0. \A l \in Nat : \A k \in 1..l : k # l /\ k > 1 => l \in k + 1..l /\ k - 1 \in 1..k - 1
        OBVIOUS
      <4>1. Len(file) \in m + 1..Len(file) /\ m - 1 \in 1..m - 1
        BY <1>0, <3>2, <3>4, <4>0, Zenon
      <4>2. seq - 1 < file[Len(file)].seq /\ file[Len(file)].seq = seq - 1 - (Len(file) - Len(file))
        BY <3>2, <3>3, <4>1
      <4> QED BY <1>0, <4>2
    <3> QED BY <3>1, <3>4
  <2> QED BY <1>0, <2>4, <2>5
<1> QED BY <1>1, <1>2

LEMMA NoticesAreLosses == SinkInv => NoticeMeansLoss
<1> SUFFICES ASSUME SinkInv, stage = "finished", NEW i \in Notices(file),
                    NEW n \in file[i - 1].seq + 1..file[i].seq - 1,
                    NEW k \in DOMAIN file, file[k].seq = n
             PROVE  FALSE
  BY DEF NoticeMeansLoss, Written
<1>0. SinkTypeOK /\ seq \in Nat /\ Len(file) \in Nat /\ DOMAIN file = 1..Len(file)
      /\ \A j \in 1..Len(file) : file[j].seq \in Nat
      /\ phase \in {"head", "tail"}
  BY TypesOfSink DEF SinkInv
<1>1. /\ i \in 2..Len(file) /\ i - 1 \in 1..Len(file) /\ k \in 1..Len(file)
      /\ file[i].kind # "truncated" /\ file[i].seq > file[i - 1].seq + 1
  BY <1>0 DEF Notices
<1>2. file[i - 1].seq < file[k].seq /\ file[k].seq < file[i].seq
  BY <1>0, <1>1
<1>3. CASE phase = "head"
  <2>1. \A a, b \in DOMAIN file : a < b => file[a].seq < file[b].seq
    BY <1>3, SinkCases DEF Unmarked
  <2>2. CASE k < i - 1
    BY <1>0, <1>1, <1>2, <2>1, <2>2
  <2>3. CASE k > i
    BY SMTT(20), <1>0, <1>1, <1>2, <2>1, <2>3
  <2>4. k = i - 1 \/ k = i \/ k < i - 1 \/ k > i
    BY <1>0, <1>1
  <2> QED BY <1>0, <1>1, <1>2, <2>2, <2>3, <2>4
<1>4. CASE phase = "tail"
  <2>1. Marked /\ Whole = file
    BY <1>4, SinkCases
  <2>2. PICK m \in 1..Len(file) : MarkedAt(m)
    BY <2>1 DEF Marked
  <2>3. /\ file[m].kind = "truncated" /\ file[m].seq = seq
        /\ \A a \in 1..m - 1 : file[a].seq \in 1..seq - 1
        /\ \A a, b \in 1..m - 1 : a < b => file[a].seq < file[b].seq
        /\ \A a \in m + 1..Len(file) : \A b \in 1..m - 1 : file[b].seq < file[a].seq
    BY <2>2, MarkedFile
  <2>4. \A a \in m + 1..Len(file) : file[a].seq = seq - 1 - (Len(file) - a)
    BY <2>1, <2>2 DEF MarkedAt
  <2>5. i < m
    <3>1. i # m
      BY <1>1, <2>3
    <3>2. CASE i = m + 1
      <4>1. file[i - 1].seq = seq /\ file[i].seq <= seq
        BY <1>0, <1>1, <2>3, <2>4, <3>2
      <4> QED BY <1>0, <1>1, <4>1
    <3>3. CASE i > m + 1
      <4>1. i \in m + 1..Len(file) /\ i - 1 \in m + 1..Len(file)
        BY <1>0, <1>1, <3>3
      <4>2. file[i].seq = seq - 1 - (Len(file) - i) /\ file[i - 1].seq = seq - 1 - (Len(file) - (i - 1))
        BY <2>4, <4>1
      <4>3. file[i].seq = file[i - 1].seq + 1
        BY <1>0, <1>1, <4>2
      <4> QED BY <1>0, <1>1, <4>3
    <3> QED BY <1>0, <1>1, <3>1, <3>2, <3>3
  <2>6. i \in 1..m - 1 /\ i - 1 \in 1..m - 1
    BY <1>0, <1>1, <2>5
  <2>7. CASE k < m
    <3>1. k \in 1..m - 1
      BY <1>0, <1>1, <2>7
    <3>2. k = i - 1 \/ k = i \/ k < i - 1 \/ k > i
      BY <1>0, <1>1
    <3>3. k < i - 1 => file[k].seq < file[i - 1].seq
      BY <2>3, <2>6, <3>1
    <3>4. k > i => file[i].seq < file[k].seq
      BY <2>3, <2>6, <3>1
    <3> QED BY <1>0, <1>1, <1>2, <3>2, <3>3, <3>4
  <2>8. CASE k = m
    <3>1. file[k].seq = seq /\ file[i].seq \in 1..seq - 1
      BY <2>3, <2>6, <2>8
    <3> QED BY <1>0, <1>2, <3>1
  <2>9. CASE k > m
    <3>1. k \in m + 1..Len(file)
      BY <1>0, <1>1, <2>9
    <3>2. file[i].seq < file[k].seq
      BY <2>3, <2>6, <3>1
    <3> QED BY <1>0, <1>1, <1>2, <3>2
  <2> QED BY <1>0, <1>1, <2>7, <2>8, <2>9
<1> QED BY <1>0, <1>3, <1>4

\* Without truncation the numbers of a closed file ascend to the end, and the
\* marker, if there is one, follows its predecessor without a jump.
LEMMA UntruncatedAscends ==
    ASSUME SinkInv, stage = "finished", ~truncated
    PROVE  /\ \A i, j \in 1..Len(file) : i < j => file[i].seq < file[j].seq
           /\ \A i \in 2..Len(file) : file[i].kind = "truncated" => file[i].seq = file[i - 1].seq + 1
<1>0. SinkTypeOK /\ seq \in Nat /\ Len(file) \in Nat /\ DOMAIN file = 1..Len(file)
      /\ \A j \in 1..Len(file) : file[j].seq \in Nat
      /\ phase \in {"head", "tail"}
  BY TypesOfSink DEF SinkInv
<1>1. CASE phase = "head"
  <2>1. /\ \A i \in 1..Len(file) : file[i].kind # "truncated"
        /\ \A i, j \in 1..Len(file) : i < j => file[i].seq < file[j].seq
    BY <1>0, <1>1, SinkCases DEF Unmarked
  <2>2. \A i \in 2..Len(file) : i \in 1..Len(file)
    BY <1>0
  <2> QED BY <2>1, <2>2
<1>2. CASE phase = "tail"
  <2>1. Marked /\ Whole = file
    BY <1>2, SinkCases
  <2>2. PICK m \in 1..Len(file) : MarkedAt(m)
    BY <2>1 DEF Marked
  <2>3. /\ file[m].seq = seq /\ m > 1 /\ file[m - 1].seq = seq - 1
        /\ \A a \in 1..m - 1 : file[a].kind # "truncated" /\ file[a].seq \in 1..seq - 1
        /\ \A a, b \in 1..m - 1 : a < b => file[a].seq < file[b].seq
        /\ \A a \in m + 1..Len(file) : \A b \in 1..m - 1 : file[b].seq < file[a].seq
    BY <2>2, MarkedFile
  <2>n. Len(file) \in Nat /\ seq \in Nat
    BY <1>0
  <2>m. m \in Nat /\ m <= Len(file)
    BY <2>n
  <2>4. m = Len(file)
    <3> SUFFICES ASSUME m # Len(file) PROVE FALSE
      OBVIOUS
    <3>1. Len(file) \in m + 1..Len(file) /\ m - 1 \in 1..m - 1
      BY <2>n, <2>m, <2>3
    <3>2. Whole[Len(file)].seq = seq - 1 - (Len(Whole) - Len(file))
      BY <2>1, <2>2, <3>1 DEF MarkedAt
    <3>3. file[Len(file)].seq = seq - 1
      BY <2>1, <2>n, <3>2
    <3>4. file[m - 1].seq < file[Len(file)].seq
      BY <2>3, <3>1
    <3>5. ~(seq - 1 < seq - 1)
      BY <2>n
    <3> QED BY <2>3, <3>3, <3>4, <3>5
  <2>5. ASSUME NEW i \in 1..Len(file), NEW j \in 1..Len(file), i < j
        PROVE  file[i].seq < file[j].seq
    <3>1. i \in 1..m - 1
      BY <1>0, <2>4, <2>5
    <3>2. CASE j = m
      BY <1>0, <2>3, <3>1, <3>2
    <3>3. CASE j \in 1..m - 1
      BY <2>3, <2>5, <3>1, <3>3
    <3>4. j \in 1..m
      BY <2>4
    <3>5. j = m \/ j \in 1..m - 1
      BY <2>m, <3>4
    <3> QED BY <3>2, <3>3, <3>5, Zenon
  <2>6. ASSUME NEW i \in 2..Len(file), file[i].kind = "truncated"
        PROVE  file[i].seq = file[i - 1].seq + 1
    <3>1. i \in 1..m - 1 \/ i = m
      BY <2>n, <2>4
    <3>2. i = m
      BY <2>3, <2>6, <3>1
    <3> QED BY <1>0, <2>3, <3>2
  <2> QED BY <2>5, <2>6
<1> QED BY <1>0, <1>1, <1>2

LEMMA LossesAreNoticed == SinkInv => LossShows
<1> SUFFICES ASSUME SinkInv, stage = "finished", NEW n \in 1..seq, ~Written(n), ~truncated
             PROVE  \/ \E i \in Notices(file) : file[i - 1].seq < n /\ n < file[i].seq
                    \/ broken # {} /\ \A i \in DOMAIN file : file[i].seq < n
                    \/ broken # {} /\ \A i \in DOMAIN file : file[i].seq > n
  BY DEF LossShows
<1>0. SinkTypeOK /\ seq \in Nat /\ Len(file) \in Nat /\ DOMAIN file = 1..Len(file)
      /\ \A j \in 1..Len(file) : file[j].seq \in Nat
  BY TypesOfSink DEF SinkInv
<1>1. broken # {}
  BY CompleteLog DEF UntruncatedIsComplete
<1>2. \A i \in 1..Len(file) : file[i].seq # n
  BY <1>0 DEF Written
<1>3. /\ \A i, j \in 1..Len(file) : i < j => file[i].seq < file[j].seq
      /\ \A i \in 2..Len(file) : file[i].kind = "truncated" => file[i].seq = file[i - 1].seq + 1
  BY UntruncatedAscends
<1> DEFINE T == {i \in 1..Len(file) : file[i].seq > n}
<1>4. CASE T = {}
  <2>1. \A i \in 1..Len(file) : file[i].seq < n
    BY <1>0, <1>2, <1>4
  <2> QED BY <1>0, <1>1, <2>1
<1>5. CASE T # {}
  <2>1. PICK i \in T : \A j \in T : i <= j
    <3>1. T \subseteq Nat
      BY <1>0
    <3> HIDE DEF T
    <3> QED BY <1>5, <3>1, LeastNatural
  <2>2. i \in 1..Len(file) /\ file[i].seq > n
    OBVIOUS
  <2>3. CASE i = 1
    <3>1. \A j \in 1..Len(file) : file[j].seq > n
      BY <1>0, <1>3, <2>2, <2>3
    <3> QED BY <1>0, <1>1, <3>1
  <2>4. CASE i # 1
    <3>1. i \in 2..Len(file) /\ i - 1 \in 1..Len(file) /\ i - 1 < i
      BY <1>0, <2>2, <2>4
    <3>2. i - 1 \notin T
      BY <2>1, <3>1
    <3>3. file[i - 1].seq < n
      BY <1>0, <1>2, <3>1, <3>2
    <3>4. file[i].seq > file[i - 1].seq + 1
      BY <1>0, <2>2, <3>1, <3>3
    <3>5. file[i].kind # "truncated"
      BY <1>0, <1>3, <3>1, <3>4
    <3>6. i \in Notices(file)
      BY <1>0, <3>1, <3>4, <3>5 DEF Notices
    <3> QED BY <2>2, <3>3, <3>6
  <2> QED BY <2>3, <2>4
<1> QED BY <1>4, <1>5

-----------------------------------------------------------------------------
(* The step's row and its logs. *)

Row == [state : {"pending", "running", "terminal"}, attempt : 0..MaxAttempt, path : 0..MaxAttempt]

\* Only a running attempt has a log that is not closed, and no attempt but the
\* row's newest is without one.
RowInv ==
    /\ row \in Row
    /\ opened \in 0..MaxAttempt
    /\ opened = 0 <=> stage = "none"
    /\ row.state # "running" => opened = row.attempt /\ stage \in {"none", "finished"}
    /\ row.state = "running" => row.attempt > 0 /\ row.attempt \in {opened, opened + 1}
    /\ opened < row.attempt => stage \in {"none", "finished"}
    /\ row.path <= opened
    /\ older \in [Attempt -> Nat]

Covered(a) == offset[a] = Size(a) \/ \E i \in 1..Len(list) : list[i] = a

\* What a last round owes its reader.
Owed ==
    /\ mode = "all" => \A a \in 1..opened : Covered(a)
    /\ mode = "newest" /\ opened > 0 => Covered(opened)
    /\ mode = "step" => Covered(sources[1])

\* A follower that has seen the verdict sees nothing move any more, and in its
\* last round every file it owes is shown or on its list.
FollowInv ==
    /\ mode \in Mode
    /\ at \in {"off", "select", "first", "wait", "resolve", "drain", "done", "interrupted"}
    /\ snap \in Row /\ snap.path <= opened
    /\ sources \in Seq(1..opened) /\ list \in Seq(1..opened)
    /\ offset \in [Attempt -> Nat]
    /\ \A a \in Attempt : offset[a] <= Size(a) /\ (a > opened => older[a] = 0)
    /\ mode = "step" /\ at \notin {"off", "select"} => Len(sources) = 1
    /\ snap.state = "terminal" =>
          /\ row.state = "terminal"
          /\ at = "resolve" => snap = row
          /\ at \in {"drain", "done"} => Owed
    /\ at = "done" => list = << >> /\ snap.state = "terminal"

LFInv == SinkInv /\ RowInv /\ FollowInv

LEMMA FileGrows ==
    ASSUME SinkTypeOK, Write \/ Finish \/ FinishFails
    PROVE  /\ Len(file') \in Nat /\ Len(file) <= Len(file')
           /\ stage' # "none" /\ (stage = "none" => FALSE)
<1>0. file \in Seq(Rec) /\ Len(file) \in Nat
  BY DEF SinkTypeOK
<1>1. ASSUME NEW r, Put(r) PROVE file' = file \/ file' = Append(file, r)
  BY <1>1 DEF Put
<1>2. \A r : Len(Append(file, r)) = Len(file) + 1
  BY <1>0
<1>3. file' = file \/ \E r : file' = Append(file, r)
  <2>1. ASSUME NEW raw, Line(raw) PROVE file' = file \/ \E r : file' = Append(file, r)
    BY <2>1, <1>1 DEF Line
  <2>2. CASE Write
    BY <2>1, <2>2, <1>1 DEF Write, Fill, Cut, Newline, WriteFails, Emit
  <2>3. CASE Finish
    BY <2>1, <2>3, <1>1
       DEF Finish, BeginFinish, FlushPartial, PartialsFlushed, WriteMarker, FlushRing, RingFlushed,
           SyncAndClose
  <2>4. CASE FinishFails
    BY <2>4 DEF FinishFails
  <2> QED BY <2>2, <2>3, <2>4
<1>4. stage' # "none" /\ stage # "none"
  BY DEF Write, Fill, Cut, Newline, WriteFails, Emit, Copying,
         Finish, BeginFinish, FlushPartial, PartialsFlushed, WriteMarker, FlushRing, RingFlushed,
         SyncAndClose, FinishFails
<1>5. Len(file') \in Nat /\ Len(file) <= Len(file')
  BY <1>0, <1>2, <1>3
<1> QED BY <1>4, <1>5

LEMMA OpenSink == NoSink("open") => SinkInv
  BY InitSink

LEMMA OpenSinkNext == NoSink("open")' => SinkInv'
  BY OpenSink, PTL

\* Selected names logs that exist.
LEMMA SelectedExist ==
    ASSUME NEW r \in Row, r.path <= opened, opened \in 0..MaxAttempt
    PROVE  /\ Selected(r) \in Seq(1..opened)
           /\ mode # "all" /\ Selected(r) # << >> => Len(Selected(r)) = 1
           /\ mode = "all" => Len(Selected(r)) = opened /\ \A a \in 1..opened : Selected(r)[a] = a
           /\ mode # "all" /\ r.attempt = opened /\ opened > 0 => Selected(r) = <<opened>>
<1>1. r.attempt \in Nat /\ r.path \in Nat /\ opened \in Nat
  BY LogFollowAssumption DEF Row
<1>2. CASE mode = "all"
  <2>1. Selected(r) = [i \in 1..opened |-> i]
    BY <1>2 DEF Selected
  <2>2. /\ [i \in 1..opened |-> i] \in Seq(1..opened) /\ Len([i \in 1..opened |-> i]) = opened
        /\ \A a \in 1..opened : [i \in 1..opened |-> i][a] = a
    BY <1>1
  <2> QED BY <1>2, <2>1, <2>2
<1>3. CASE mode # "all"
  <2>1. \A a \in 1..opened : <<a>> \in Seq(1..opened) /\ Len(<<a>>) = 1
    OBVIOUS
  <2>2. << >> \in Seq(1..opened)
    OBVIOUS
  <2>3. \/ Selected(r) = << >>
        \/ \E a \in 1..opened : Selected(r) = <<a>>
    BY <1>1, <1>3 DEF Selected
  <2>4. r.attempt = opened /\ opened > 0 => Selected(r) = <<opened>>
    BY <1>1, <1>3 DEF Selected
  <2> QED BY <1>3, <2>1, <2>2, <2>3, <2>4
<1> QED BY <1>2, <1>3

-----------------------------------------------------------------------------
(* Steps of the row. *)

LEMMA LFInitially == LFInit => LFInv
<1> SUFFICES ASSUME LFInit PROVE LFInv
  OBVIOUS
<1>1. SinkInv /\ stage = "none" /\ Len(file) = 0
  BY InitSink DEF LFInit, SinkInit, NoSink
<1>2. /\ row = [state |-> "pending", attempt |-> 0, path |-> 0] /\ snap = row
      /\ opened = 0 /\ older = [a \in Attempt |-> 0] /\ offset = [a \in Attempt |-> 0]
      /\ mode \in Mode /\ at = "off" /\ sources = << >> /\ list = << >>
  BY DEF LFInit
<1>3. MaxAttempt \in Nat /\ 0 \in 0..MaxAttempt
  BY LogFollowAssumption
<1>4. row \in Row /\ snap \in Row
  BY <1>2, <1>3 DEF Row
<1>5. RowInv
  BY <1>1, <1>2, <1>3, <1>4 DEF RowInv
<1>6. \A a \in Attempt : a \in Nat /\ a > 0
  BY <1>3 DEF Attempt
<1>7. FollowInv
  <2>1. sources \in Seq(1..opened) /\ list \in Seq(1..opened)
    BY <1>2
  <2>2. \A a \in Attempt : offset[a] <= Size(a) /\ (a > opened => older[a] = 0)
    BY <1>2, <1>6 DEF Size
  <2> QED BY <1>2, <1>4, <2>1, <2>2 DEF FollowInv
<1> QED BY <1>1, <1>5, <1>7 DEF LFInv

\* A step that leaves the files and the follower alone.
LEMMA RowStep ==
    ASSUME LFInv, row.state # "terminal", UNCHANGED <<sinkVars, opened, older, followVars>>,
           RowInv'
    PROVE  LFInv'
<1>1. SinkInv'
  <2>1. UNCHANGED <<seq, file, written, phase, ring, truncated>>
        /\ UNCHANGED <<stage, dropped, partial, broken, handed, lost>>
    BY DEF sinkVars
  <2> QED BY <2>1, LogFrame
          DEF LFInv, SinkInv, SinkTypeOK, EveryByteIsAccountedFor, Held, Order, Kept, Stages
<1>2. /\ UNCHANGED <<mode, at, snap, sources, list, offset, opened, older>> /\ file' = file
  BY DEF followVars, sinkVars
<1>3. snap.state # "terminal"
  BY DEF LFInv, FollowInv
<1>4. \A a : Size(a)' = Size(a)
  BY <1>2 DEF Size
<1>5. FollowInv'
  BY <1>2, <1>3, <1>4 DEF LFInv, FollowInv
<1> QED BY <1>1, <1>5 DEF LFInv

LEMMA StartStepKeeps ==
    ASSUME LFInv, StartStep
    PROVE  LFInv'
<1>1. /\ row.state = "pending" /\ row.attempt < MaxAttempt
      /\ row' = [row EXCEPT !.state = "running", !.attempt = row.attempt + 1]
      /\ UNCHANGED <<sinkVars, opened, older, followVars>>
  BY DEF StartStep
<1>2. row \in Row /\ MaxAttempt \in Nat /\ row.attempt \in 0..MaxAttempt /\ row.attempt + 1 \in 0..MaxAttempt
  BY <1>1, LogFollowAssumption DEF LFInv, RowInv, Row
<1>3. row' \in Row /\ row'.state = "running" /\ row'.attempt = row.attempt + 1 /\ row'.path = row.path
  BY <1>1, <1>2 DEF Row
<1>4. RowInv'
  <2>1. opened' = opened /\ older' = older /\ stage' = stage
    BY <1>1 DEF sinkVars
  <2> QED BY <1>1, <1>2, <1>3, <2>1 DEF LFInv, RowInv
<1> QED BY <1>1, <1>4, RowStep

LEMMA OutcomeKeeps ==
    ASSUME LFInv, RecordOutcome
    PROVE  LFInv'
<1>1. PICK s \in {"pending", "terminal"} :
          row' = [row EXCEPT !.state = s, !.path = row.attempt]
  BY DEF RecordOutcome, Outcome
<1>2. /\ stage = "finished" /\ row.state = "running" /\ opened = row.attempt
      /\ UNCHANGED <<sinkVars, opened, older, followVars>>
  BY DEF RecordOutcome, Outcome
<1>3. row \in Row /\ row.attempt \in 0..MaxAttempt /\ opened \in 0..MaxAttempt /\ MaxAttempt \in Nat
  BY LogFollowAssumption DEF LFInv, RowInv, Row
<1>4. row' \in Row /\ row'.state = s /\ row'.attempt = row.attempt /\ row'.path = opened
  BY <1>1, <1>2, <1>3 DEF Row
<1>5. RowInv'
  <2>1. opened' = opened /\ older' = older /\ stage' = stage
    BY <1>2 DEF sinkVars
  <2> QED BY <1>2, <1>3, <1>4, <2>1 DEF LFInv, RowInv
<1> QED BY <1>2, <1>5, RowStep

LEMMA EndPendingKeeps ==
    ASSUME LFInv, EndPending
    PROVE  LFInv'
<1>1. /\ row.state = "pending" /\ row' = [row EXCEPT !.state = "terminal"]
      /\ UNCHANGED <<sinkVars, opened, older, followVars>>
  BY DEF EndPending
<1>2. /\ row \in Row /\ row' \in Row /\ row'.state = "terminal"
      /\ row'.attempt = row.attempt /\ row'.path = row.path
  BY <1>1 DEF LFInv, RowInv, Row
<1>3. RowInv'
  <2>1. opened' = opened /\ older' = older /\ stage' = stage
    BY <1>1 DEF sinkVars
  <2> QED BY <1>1, <1>2, <2>1 DEF LFInv, RowInv
<1> QED BY <1>1, <1>3, RowStep

LEMMA OpenLogKeeps ==
    ASSUME LFInv, OpenLog
    PROVE  LFInv'
<1>1. /\ row.state = "running" /\ opened < row.attempt /\ stage \in {"none", "finished"}
      /\ older' = [a \in Attempt |-> IF a = opened THEN Len(file) ELSE older[a]]
      /\ opened' = row.attempt /\ row' = row
      /\ UNCHANGED <<mode, at, snap, sources, list, offset>>
  BY DEF OpenLog, Open, followVars
<1>2. NoSink("open")'
  BY DEF OpenLog, Open, NoSink
<1>3. SinkInv'
  BY <1>2, OpenSinkNext
<1>4. stage' = "open" /\ Len(file') = 0
  BY <1>2 DEF NoSink
<1>5. /\ opened \in Nat /\ row.attempt = opened + 1 /\ row.attempt \in 1..MaxAttempt
      /\ MaxAttempt \in Nat /\ row \in Row /\ row.path \in Nat
      /\ opened' = opened + 1 /\ opened' \in 0..MaxAttempt
  BY <1>1, LogFollowAssumption DEF LFInv, RowInv, Row
<1>6. Len(file) \in Nat /\ older \in [Attempt -> Nat]
  BY TypesOfSink DEF LFInv, SinkInv, RowInv
<1>7. older' \in [Attempt -> Nat] /\ \A a \in Attempt : older'[a] = Size(a)
  BY <1>1, <1>6 DEF Size
<1>8. RowInv'
  BY <1>1, <1>4, <1>5, <1>7 DEF LFInv, RowInv
<1>9. snap.state # "terminal" /\ at # "done"
  BY <1>1 DEF LFInv, FollowInv
<1>10. \A a \in Attempt : offset'[a] <= Size(a)' /\ (a > opened' => older'[a] = 0)
  <2> SUFFICES ASSUME NEW a \in Attempt
               PROVE  offset'[a] <= Size(a)' /\ (a > opened' => older'[a] = 0)
    OBVIOUS
  <2>0. a \in Nat /\ offset'[a] = offset[a] /\ offset[a] \in Nat /\ offset[a] <= Size(a)
        /\ older[a] \in Nat /\ (a > opened => older[a] = 0)
    BY <1>1, <1>5, <1>6 DEF LFInv, FollowInv, Attempt
  <2>1. CASE a = opened'
    <3>1. Size(a) = older[a] /\ older[a] = 0 /\ Size(a)' = 0
      BY <1>4, <1>5, <2>0, <2>1 DEF Size
    <3> QED BY <1>5, <2>0, <2>1, <3>1
  <2>2. CASE a # opened'
    <3>1. Size(a)' = older'[a] /\ older'[a] = Size(a)
      BY <1>7, <2>2 DEF Size
    <3>2. a > opened' => Size(a) = older[a] /\ a > opened
      BY <1>5, <2>0 DEF Size
    <3> QED BY <2>0, <3>1, <3>2
  <2> QED BY <2>1, <2>2
<1>11. sources' \in Seq(1..opened') /\ list' \in Seq(1..opened')
  <2>1. sources \in Seq(1..opened) /\ list \in Seq(1..opened)
    BY DEF LFInv, FollowInv
  <2>2. 1..opened \subseteq 1..opened'
    BY <1>5
  <2>3. \A S, T : S \subseteq T => \A s \in Seq(S) : s \in Seq(T)
    OBVIOUS
  <2> QED BY <1>1, <2>1, <2>2, <2>3
<1>12. snap'.path <= opened'
  <2>1. snap.path \in Nat /\ snap.path <= opened
    BY <1>5 DEF LFInv, FollowInv, Row
  <2> QED BY <1>1, <1>5, <2>1
<1>13. FollowInv'
  BY <1>1, <1>9, <1>10, <1>11, <1>12 DEF LFInv, FollowInv
<1> QED BY <1>3, <1>8, <1>13 DEF LFInv

LEMMA ProduceKeeps ==
    ASSUME LFInv, Produce
    PROVE  LFInv'
<1>1. /\ row.state = "running" /\ opened = row.attempt
      /\ Write \/ Finish \/ FinishFails
      /\ UNCHANGED <<row, opened, older, mode, at, snap, sources, list, offset>>
  BY DEF Produce, stepVars, followVars
<1>2. SinkInv'
  BY <1>1, SinkStep DEF LFInv
<1>3. Len(file) \in Nat /\ Len(file') \in Nat /\ Len(file) <= Len(file') /\ stage' # "none"
  BY <1>1, FileGrows, TypesOfSink DEF LFInv, SinkInv
<1>4. opened \in 1..MaxAttempt /\ MaxAttempt \in Nat /\ older \in [Attempt -> Nat]
  BY <1>1, LogFollowAssumption DEF LFInv, RowInv
<1>5. RowInv'
  BY <1>1, <1>3, <1>4 DEF LFInv, RowInv
<1>6. snap.state # "terminal" /\ at # "done"
  BY <1>1 DEF LFInv, FollowInv
<1>7. \A a \in Attempt : offset'[a] <= Size(a)' /\ (a > opened' => older'[a] = 0)
  <2> SUFFICES ASSUME NEW a \in Attempt
               PROVE  offset'[a] <= Size(a)' /\ (a > opened' => older'[a] = 0)
    OBVIOUS
  <2>1. offset[a] \in Nat /\ offset[a] <= Size(a) /\ (a > opened => older[a] = 0) /\ older[a] \in Nat
    BY <1>4 DEF LFInv, FollowInv
  <2>2. a = opened => Size(a) = Len(file) /\ Size(a)' = Len(file')
    BY <1>1 DEF Size
  <2>3. a # opened => Size(a)' = Size(a)
    BY <1>1 DEF Size
  <2> QED BY <1>1, <1>3, <2>1, <2>2, <2>3
<1>8. FollowInv'
  BY <1>1, <1>6, <1>7 DEF LFInv, FollowInv
<1> QED BY <1>2, <1>5, <1>8 DEF LFInv

-----------------------------------------------------------------------------
(* Steps of the follower. *)

\* A step that only the follower takes.
LEMMA FollowerStep ==
    ASSUME LFInv, UNCHANGED <<sinkVars, stepVars>>, FollowInv'
    PROVE  LFInv'
<1>1. UNCHANGED <<seq, file, written, phase, ring, truncated>>
      /\ UNCHANGED <<stage, dropped, partial, broken, handed, lost>>
      /\ UNCHANGED <<row, opened, older>>
  BY DEF sinkVars, stepVars
<1>2. SinkInv'
  BY <1>1, LogFrame
     DEF LFInv, SinkInv, SinkTypeOK, EveryByteIsAccountedFor, Held, Order, Kept, Stages
<1>3. RowInv'
  BY <1>1 DEF LFInv, RowInv
<1> QED BY <1>2, <1>3 DEF LFInv

LEMMA SizesStay ==
    ASSUME UNCHANGED <<sinkVars, stepVars>>
    PROVE  /\ file' = file /\ opened' = opened /\ older' = older /\ row' = row
           /\ \A a : Size(a)' = Size(a)
  BY DEF Size, sinkVars, stepVars

LEMMA BeginKeeps ==
    ASSUME LFInv, Begin
    PROVE  LFInv'
<1>1. /\ at = "off" /\ mode # "none" /\ snap' = row /\ at' = "select"
      /\ UNCHANGED <<sinkVars, stepVars>> /\ UNCHANGED <<mode, sources, list, offset>>
  BY DEF Begin
<1>2. row \in Row /\ row.path <= opened
  BY DEF LFInv, RowInv
<1>3. FollowInv'
  BY <1>1, <1>2, SizesStay DEF LFInv, FollowInv
<1> QED BY <1>1, <1>3, FollowerStep

LEMMA TickKeeps ==
    ASSUME LFInv, Tick
    PROVE  LFInv'
<1>1. /\ at = "wait" /\ snap' = row /\ at' = "resolve"
      /\ UNCHANGED <<sinkVars, stepVars>> /\ UNCHANGED <<mode, sources, list, offset>>
  BY DEF Tick
<1>2. row \in Row /\ row.path <= opened
  BY DEF LFInv, RowInv
<1>3. FollowInv'
  BY <1>1, <1>2, SizesStay DEF LFInv, FollowInv
<1> QED BY <1>1, <1>3, FollowerStep

LEMMA InterruptKeeps ==
    ASSUME LFInv, Interrupt
    PROVE  LFInv'
<1>1. /\ at = "wait" /\ at' = "interrupted"
      /\ UNCHANGED <<sinkVars, stepVars>> /\ UNCHANGED <<mode, snap, sources, list, offset>>
  BY DEF Interrupt
<1>2. FollowInv'
  BY <1>1, SizesStay DEF LFInv, FollowInv
<1> QED BY <1>1, <1>2, FollowerStep

\* The row that was read is used up.
LEMMA UsedUp ==
    ASSUME LFInv, snap' = [snap EXCEPT !.attempt = 0, !.path = 0]
    PROVE  snap' \in Row /\ snap'.path <= opened /\ snap'.state = snap.state
<1>1. snap \in Row /\ opened \in Nat /\ 0 \in 0..MaxAttempt
  BY LogFollowAssumption DEF LFInv, FollowInv, RowInv
<1>2. snap.state \in {"pending", "running", "terminal"} /\ snap' = [state |-> snap.state, attempt |-> 0, path |-> 0]
  BY <1>1 DEF Row
<1>3. snap' \in Row
  BY <1>1, <1>2 DEF Row
<1>4. snap'.path = 0 /\ snap'.state = snap.state
  BY <1>2
<1>5. 0 <= opened
  BY <1>1
<1> QED BY <1>3, <1>4, <1>5

LEMMA SelectKeeps ==
    ASSUME LFInv, Select
    PROVE  LFInv'
<1>1. /\ at = "select"
      /\ sources' = IF mode = "step" THEN Selected(snap) ELSE << >>
      /\ snap' = [snap EXCEPT !.attempt = 0, !.path = 0]
      /\ list' = Selected(snap)
      /\ at' = IF Selected(snap) = << >> THEN "off" ELSE "first"
      /\ UNCHANGED <<sinkVars, stepVars>> /\ UNCHANGED <<mode, offset>>
  BY DEF Select
<1>2. snap \in Row /\ snap.path <= opened /\ opened \in 0..MaxAttempt
  BY DEF LFInv, FollowInv, RowInv
<1>3. /\ Selected(snap) \in Seq(1..opened)
      /\ mode # "all" /\ Selected(snap) # << >> => Len(Selected(snap)) = 1
  BY <1>2, SelectedExist
<1>4. list' \in Seq(1..opened) /\ sources' \in Seq(1..opened)
  <2>1. << >> \in Seq(1..opened)
    OBVIOUS
  <2> QED BY <1>1, <1>3, <2>1
<1>5. mode' = "step" /\ at' \notin {"off", "select"} => Len(sources') = 1
  BY <1>1, <1>3
<1>6. snap' \in Row /\ snap'.path <= opened /\ snap'.state = snap.state
  BY <1>1, UsedUp
<1>7. FollowInv'
  BY <1>1, <1>4, <1>5, <1>6, SizesStay DEF LFInv, FollowInv
<1> QED BY <1>1, <1>7, FollowerStep

LEMMA ResolveKeeps ==
    ASSUME LFInv, Resolve
    PROVE  LFInv'
<1>1. /\ at = "resolve" /\ at' = "drain"
      /\ list' = IF mode = "step" THEN sources ELSE Selected(snap)
      /\ snap' = [snap EXCEPT !.attempt = 0, !.path = 0]
      /\ UNCHANGED <<sinkVars, stepVars>> /\ UNCHANGED <<mode, sources, offset>>
  BY DEF Resolve
<1>2. snap \in Row /\ snap.path <= opened /\ opened \in 0..MaxAttempt /\ opened \in Nat
  BY LogFollowAssumption DEF LFInv, FollowInv, RowInv
<1>3. list' \in Seq(1..opened)
  BY <1>1, <1>2, SelectedExist DEF LFInv, FollowInv
<1>4. snap' \in Row /\ snap'.path <= opened /\ snap'.state = snap.state
  BY <1>1, UsedUp
<1>5. ASSUME snap.state = "terminal" PROVE Owed'
  <2>1. snap = row /\ row.state = "terminal" /\ row.attempt = opened
    BY <1>1, <1>5 DEF LFInv, FollowInv, RowInv
  <2>2. CASE mode = "all"
    <3>1. Len(list') = opened /\ \A a \in 1..opened : list'[a] = a
      BY <1>1, <1>2, <2>2, SelectedExist
    <3>2. \A a \in 1..opened : Covered(a)'
      BY <3>1 DEF Covered
    <3> QED BY <1>1, <2>2, <3>2, SizesStay DEF Owed
  <2>3. CASE mode = "newest"
    <3>1. opened > 0 => list' = <<opened>>
      BY <1>1, <1>2, <2>1, <2>3, SelectedExist
    <3>2. opened > 0 => Len(list') = 1 /\ list'[1] = opened
      BY <3>1
    <3>3. opened > 0 => \E i \in 1..Len(list') : list'[i] = opened
      BY <3>2
    <3>4. opened' = opened
      BY <1>1, SizesStay
    <3>5. opened' > 0 => Covered(opened)'
      BY <3>3, <3>4 DEF Covered
    <3> QED BY <1>1, <2>3, <3>5 DEF Owed
  <2>4. CASE mode = "step"
    <3>1. list' = sources /\ sources' = sources /\ Len(sources) = 1
      BY <1>1, <2>4 DEF LFInv, FollowInv
    <3>2. Covered(sources[1])'
      BY <3>1 DEF Covered
    <3> QED BY <1>1, <2>4, <3>2 DEF Owed
  <2> QED BY <1>1, <2>2, <2>3, <2>4 DEF Owed
<1>6. FollowInv'
  BY <1>1, <1>3, <1>4, <1>5, SizesStay DEF LFInv, FollowInv
<1> QED BY <1>1, <1>6, FollowerStep

\* One file is shown to its end and leaves the list: nothing that was covered
\* loses its cover.
LEMMA ShowKeeps ==
    ASSUME LFInv, list # << >>, Show, list' = Tail(list),
           UNCHANGED <<sinkVars, stepVars>>, UNCHANGED <<mode, snap, sources, at>>
    PROVE  /\ list' \in Seq(1..opened) /\ offset' \in [Attempt -> Nat]
           /\ \A a \in Attempt : offset'[a] <= Size(a)
           /\ Owed => Owed'
<1>0. /\ list \in Seq(1..opened) /\ opened \in 0..MaxAttempt /\ MaxAttempt \in Nat
      /\ offset \in [Attempt -> Nat] /\ older \in [Attempt -> Nat]
      /\ \A a \in Attempt : offset[a] <= Size(a)
      /\ Len(file) \in Nat
  BY LogFollowAssumption, TypesOfSink DEF LFInv, FollowInv, RowInv, SinkInv
<1>1. /\ Head(list) \in 1..opened /\ Tail(list) \in Seq(1..opened)
      /\ Len(Tail(list)) = Len(list) - 1 /\ Head(list) = list[1]
      /\ \A i \in 1..Len(list) - 1 : Tail(list)[i] = list[i + 1]
  BY <1>0, HeadTailProperties
<1>2. PICK h \in 1..opened : h = Head(list)
  BY <1>1
<1>3. h \in Attempt /\ \A a \in Attempt : Size(a) \in Nat
  BY <1>0 DEF Attempt, Size
<1>4. offset' = [offset EXCEPT ![h] = Size(h)]
  BY <1>2 DEF Show
<1>5. offset' \in [Attempt -> Nat] /\ \A a \in Attempt : offset'[a] <= Size(a)
  BY <1>0, <1>3, <1>4
<1>6. ASSUME NEW a, Covered(a) PROVE Covered(a)'
  <2>1. Size(a)' = Size(a)
    BY SizesStay
  <2>2. CASE a = h
    BY <1>0, <1>3, <1>4, <2>1, <2>2 DEF Covered
  <2>3. CASE a # h /\ offset[a] = Size(a)
    BY <1>0, <1>3, <1>4, <2>1, <2>3 DEF Covered
  <2>4. CASE a # h /\ \E i \in 1..Len(list) : list[i] = a
    <3>1. PICK i \in 1..Len(list) : list[i] = a
      BY <2>4
    <3>2. i # 1
      BY <1>1, <1>2, <2>4, <3>1
    <3>3. i - 1 \in 1..Len(list) - 1 /\ Tail(list)[i - 1] = list[(i - 1) + 1]
      BY <1>0, <1>1, <3>1, <3>2
    <3>4. i - 1 \in 1..Len(list') /\ list'[i - 1] = a
      BY <1>0, <1>1, <3>1, <3>3
    <3> QED BY <3>4 DEF Covered
  <2> QED BY <2>2, <2>3, <2>4, <1>6 DEF Covered
<1>7. Owed => Owed'
  <2>1. mode' = mode /\ sources' = sources /\ opened' = opened
    BY SizesStay
  <2>2. \A a : Covered(a) => Covered(a)'
    BY <1>6
  <2> QED BY <2>1, <2>2 DEF Owed
<1> QED BY <1>1, <1>5, <1>7

LEMMA DrainFirstKeeps ==
    ASSUME LFInv, DrainFirst
    PROVE  LFInv'
<1>1. /\ at = "first" /\ UNCHANGED <<sinkVars, stepVars>> /\ UNCHANGED <<mode, snap, sources>>
  BY DEF DrainFirst
<1>2. CASE list = << >>
  <2>1. at' = "wait" /\ UNCHANGED <<list, offset>>
    BY <1>2 DEF DrainFirst
  <2>2. FollowInv'
    BY <1>1, <2>1, SizesStay DEF LFInv, FollowInv
  <2> QED BY <1>1, <2>2, FollowerStep
<1>3. CASE list # << >>
  <2>1. Show /\ list' = Tail(list) /\ at' = at
    BY <1>3 DEF DrainFirst
  <2>2. /\ list' \in Seq(1..opened) /\ offset' \in [Attempt -> Nat]
        /\ \A a \in Attempt : offset'[a] <= Size(a)
    BY <1>1, <1>3, <2>1, ShowKeeps
  <2>3. FollowInv'
    BY <1>1, <2>1, <2>2, SizesStay DEF LFInv, FollowInv
  <2> QED BY <1>1, <2>3, FollowerStep
<1> QED BY <1>2, <1>3

LEMMA DrainKeeps ==
    ASSUME LFInv, Drain
    PROVE  LFInv'
<1>1. /\ at = "drain" /\ UNCHANGED <<sinkVars, stepVars>> /\ UNCHANGED <<mode, snap, sources>>
  BY DEF Drain
<1>2. CASE list = << >>
  <2>1. at' = (IF snap.state = "terminal" THEN "done" ELSE "wait") /\ UNCHANGED <<list, offset>>
    BY <1>2 DEF Drain
  <2>2. Owed' <=> Owed
    BY <1>1, <2>1, SizesStay DEF Owed, Covered
  <2>3. FollowInv'
    BY <1>1, <1>2, <2>1, <2>2, SizesStay DEF LFInv, FollowInv
  <2> QED BY <1>1, <2>3, FollowerStep
<1>3. CASE list # << >>
  <2>1. Show /\ list' = Tail(list) /\ at' = at
    BY <1>3 DEF Drain
  <2>2. /\ list' \in Seq(1..opened) /\ offset' \in [Attempt -> Nat]
        /\ \A a \in Attempt : offset'[a] <= Size(a)
        /\ Owed => Owed'
    BY <1>1, <1>3, <2>1, ShowKeeps
  <2>3. FollowInv'
    BY <1>1, <2>1, <2>2, SizesStay DEF LFInv, FollowInv
  <2> QED BY <1>1, <2>3, FollowerStep
<1> QED BY <1>2, <1>3

LEMMA LFStep == LFInv /\ [LFNext]_lfVars => LFInv'
<1> SUFFICES ASSUME LFInv, [LFNext]_lfVars PROVE LFInv'
  OBVIOUS
<1>1. CASE StartStep \/ OpenLog \/ Produce \/ RecordOutcome \/ EndPending
  BY <1>1, StartStepKeeps, OpenLogKeeps, ProduceKeeps, OutcomeKeeps, EndPendingKeeps
<1>2. CASE Begin \/ Follow \/ Interrupt
  BY <1>2, BeginKeeps, SelectKeeps, DrainFirstKeeps, TickKeeps, ResolveKeeps, DrainKeeps,
     InterruptKeeps DEF Follow
<1>3. CASE UNCHANGED lfVars
  <2>1. UNCHANGED <<sinkVars, stepVars>> /\ UNCHANGED <<mode, at, snap, sources, list, offset>>
    BY <1>3 DEF lfVars, followVars
  <2>2. Owed' <=> Owed
    BY <2>1, SizesStay DEF Owed, Covered
  <2>3. FollowInv'
    BY <2>1, <2>2, SizesStay DEF LFInv, FollowInv
  <2> QED BY <2>1, <2>3, FollowerStep
<1> QED BY <1>1, <1>2, <1>3 DEF LFNext

LEMMA LFInvariant == LFSpec => []LFInv
<1>1. LFInit => LFInv
  BY LFInitially
<1>2. LFInv /\ [LFNext]_lfVars => LFInv'
  BY LFStep
<1> QED BY <1>1, <1>2, PTL DEF LFSpec

-----------------------------------------------------------------------------
(* What every run of attempts, logs and followers keeps. *)

\* The inductive invariant makes a follower that is done one that has shown
\* everything: its list is empty, so what it owes is shown.
LEMMA NothingOwedNothingMissed == LFInv => FollowerShowsItAll
<1> SUFFICES ASSUME LFInv, at = "done" PROVE
        /\ mode = "all" => \A a \in 1..opened : offset[a] = Size(a)
        /\ mode = "newest" /\ opened > 0 => offset[opened] = Size(opened)
        /\ mode = "step" => offset[sources[1]] = Size(sources[1])
  BY DEF FollowerShowsItAll
<1>1. list = << >> /\ snap.state = "terminal" /\ Owed
  BY DEF LFInv, FollowInv
<1>2. ASSUME NEW a, Covered(a) PROVE offset[a] = Size(a)
  <2>1. 1..Len(list) = {}
    BY <1>1
  <2> QED BY <1>2, <2>1 DEF Covered
<1> QED BY <1>1, <1>2 DEF Owed

LEMMA LogBeforeVerdict == LFInv => LFTypeOK /\ VerdictAfterLog
<1> SUFFICES ASSUME LFInv PROVE LFTypeOK /\ VerdictAfterLog
  OBVIOUS
<1>1. opened \in Nat /\ row.attempt \in Nat /\ opened <= row.attempt
  <2>1. opened \in Nat /\ row.attempt \in Nat
    BY LogFollowAssumption DEF LFInv, RowInv, Row
  <2> QED BY <2>1 DEF LFInv, RowInv
<1>2. LFTypeOK
  BY <1>1 DEF LFTypeOK, LFInv, SinkInv, RowInv, FollowInv, Row
<1>3. VerdictAfterLog
  <2> SUFFICES ASSUME row.state = "terminal", opened > 0 PROVE stage = "finished"
    BY DEF VerdictAfterLog
  <2>1. stage \in {"none", "finished"} /\ (opened = 0 <=> stage = "none")
    BY DEF LFInv, RowInv
  <2> QED BY <1>1, <2>1
<1> QED BY <1>2, <1>3

\* Whatever the job writes, however the quota cuts it and whichever write fails:
\* each byte it produced is in the file, the ring or a window, or counted as
\* dropped or lost (writer.go, ring.push, Finish).
THEOREM BytesAreAccountedFor == LFSpec => []EveryByteIsAccountedFor
<1>1. LFInv => EveryByteIsAccountedFor
  BY DEF LFInv, SinkInv
<1> QED BY <1>1, LFInvariant, PTL

\* What a closed log says of itself is true: complete unless it is flagged,
\* flagged only if a line is missing at its place, marked if and only if its head
\* was filled, within its quota, and ending with the newest lines behind the marker
\* (write, Finish, writeMarkerLocked).
THEOREM LogsTellTruncation == LFSpec => []TruncationIsTold
<1>1. LFInv => TruncationIsTold
  BY CompleteLog, TruncationLoses, MarkersCount, LogWithinQuota, NewestAtTheEnd
     DEF LFInv, TruncationIsTold
<1> QED BY <1>1, LFInvariant, PTL

\* A reader that counts along the numbers of a closed log reports a gap only where
\* lines are missing, the marker's jump excepted, and misses none between two lines
\* of a log that is not flagged (SeqCheck, logRenderer).
THEOREM ReadersSeeEveryGap == LFSpec => []GapsAreLosses
<1>1. LFInv => GapsAreLosses
  BY NoticesAreLosses, LossesAreNoticed DEF LFInv, GapsAreLosses
<1> QED BY <1>1, LFInvariant, PTL

\* A step's verdict stands over closed logs only, and `logs -f` that ends on the
\* verdict has shown every record of the logs it follows, although it reads row,
\* directory and file at different moments (followLogs, RecordStepOutcome).
THEOREM FollowersMissNothing == LFSpec => []FollowerMissesNothing
<1>1. LFInv => FollowerMissesNothing
  BY NothingOwedNothingMissed, LogBeforeVerdict DEF FollowerMissesNothing
<1> QED BY <1>1, LFInvariant, PTL
=============================================================================
