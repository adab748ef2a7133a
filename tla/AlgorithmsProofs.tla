-------------------------- MODULE AlgorithmsProofs --------------------------
(***************************************************************************)
(* Proofs about the sequential algorithms, for inputs of any size: lists   *)
(* and messages of any length, any history of edges.                       *)
(***************************************************************************)
EXTENDS Algorithms, FiniteSetTheorems, SequenceTheorems, WellFoundedInduction, TLAPS

-----------------------------------------------------------------------------
(***************************************************************************)
(* Induction and recursion.                                                *)
(***************************************************************************)

\* A set of naturals that is not empty has a least element.
LEMMA NatMin ==
    ASSUME NEW T \in SUBSET Nat, T # {}
    PROVE  \E x \in T : \A y \in T : x <= y
<1> DEFINE R == StrictSubsetOrdering(Nat)
           U == {0..(n - 1) : n \in T}
<1>1. IsWellFoundedOn(R, FiniteSubsetsOf(Nat))
  BY FS_StrictSubsetOrderingWellFounded
<1>2. U \subseteq FiniteSubsetsOf(Nat) /\ U # {}
  <2>1. \A n \in T : 0..(n - 1) \in SUBSET Nat /\ IsFiniteSet(0..(n - 1))
    BY FS_Interval
  <2>2. QED
    BY <2>1 DEF FiniteSubsetsOf
<1>3. PICK u \in U : \A v \in U : ~ (<<v, u>> \in R)
  <2> HIDE DEF R, U
  <2> QED BY <1>1, <1>2, WFMin
<1>4. PICK x \in T : u = 0..(x - 1)
  OBVIOUS
<1>5. ASSUME NEW y \in T, y < x PROVE FALSE
  <2>1. <<0..(y - 1), u>> \notin R
    BY <1>3
  <2>2. 0..(y - 1) \subseteq u /\ y \in u /\ y \notin 0..(y - 1) /\ u \subseteq Nat
    BY <1>4, <1>5
  <2>3. QED
    BY <2>1, <2>2 DEF StrictSubsetOrdering
<1>6. QED
  BY <1>5

\* Induction: a set that has 0 and, with a natural, the next one has them all.
LEMMA Induction ==
    ASSUME NEW T \in SUBSET Nat, 0 \in T, \A n \in T : n + 1 \in T
    PROVE  T = Nat
<1> SUFFICES ASSUME Nat \ T # {} PROVE FALSE
  OBVIOUS
<1>1. PICK x \in Nat \ T : \A y \in Nat \ T : x <= y
  BY NatMin
<1>2. x - 1 \in Nat /\ x - 1 \in T
  BY <1>1
<1>3. QED
  BY <1>2

\* h starts with x, and g makes each value from the one before.
Follows(h, n, x, g) == h[0] = x /\ \A k \in 1..n : h[k] = g[<<k, h[k - 1]>>]

\* A function on 0..n that is given by its first value and by how each value
\* follows from the one before exists.
LEMMA RecursionExists ==
    ASSUME NEW n \in Nat, NEW S, NEW x \in S, NEW g \in [(1..n) \X S -> S]
    PROVE  \E h \in [0..n -> S] : Follows(h, n, x, g)
<1> DEFINE Good(h, m) == h[0] = x /\ \A k \in 1..m : h[k] = g[<<k, h[k - 1]>>]
           T == {m \in Nat : m <= n => \E h \in [0..m -> S] : Good(h, m)}
<1>1. 0 \in T
  <2>1. [k \in 0..0 |-> x] \in [0..0 -> S] /\ Good([k \in 0..0 |-> x], 0)
    OBVIOUS
  <2>2. QED
    BY <2>1
<1>2. ASSUME NEW m \in T PROVE m + 1 \in T
  <2> SUFFICES ASSUME m + 1 <= n PROVE \E h \in [0..(m + 1) -> S] : Good(h, m + 1)
    OBVIOUS
  <2>1. PICK h \in [0..m -> S] : Good(h, m)
    OBVIOUS
  <2> DEFINE e == [k \in 0..(m + 1) |-> IF k <= m THEN h[k] ELSE g[<<m + 1, h[m]>>]]
  <2>2. g[<<m + 1, h[m]>>] \in S
    OBVIOUS
  <2>3. e \in [0..(m + 1) -> S] /\ e[m + 1] = g[<<m + 1, h[m]>>]
        /\ \A k \in 0..m : e[k] = h[k]
    BY <2>2
  <2> HIDE DEF e
  <2>4. ASSUME NEW k \in 1..(m + 1) PROVE e[k] = g[<<k, e[k - 1]>>]
    <3>1. e[k - 1] = h[k - 1]
      BY <2>3
    <3>2. CASE k <= m
      BY <2>1, <2>3, <3>1, <3>2
    <3>3. CASE k = m + 1
      <4>1. k - 1 = m
        BY <3>3
      <4>2. QED
        BY <2>3, <3>1, <3>3, <4>1
    <3>4. QED
      BY <3>2, <3>3
  <2>5. Good(e, m + 1)
    BY <2>1, <2>3, <2>4
  <2>6. QED
    BY <2>3, <2>5
<1>3. T = Nat
  <2> HIDE DEF T
  <2>1. T \in SUBSET Nat
    BY DEF T
  <2>2. QED
    BY <1>1, <1>2, <2>1, Induction
<1>4. n \in T
  BY <1>3
<1>5. QED
  BY <1>4 DEF Follows

-----------------------------------------------------------------------------
(***************************************************************************)
(* The debounce test.                                                      *)
(***************************************************************************)

\* The remainder is the only one in its range.
LEMMA Remainder ==
    ASSUME NEW t \in Nat \ {0}, NEW q \in Int, NEW r \in 0..(t - 1)
    PROVE  (t * q + r) % t = r
<1> DEFINE x == t * q + r
           p == x \div t
           s == x % t
<1>1. x \in Int /\ t \in Int /\ t > 0 /\ r \in Int /\ 0 <= r /\ r < t
  OBVIOUS
<1>2. p \in Int /\ s \in Int /\ 0 <= s /\ s < t /\ x = t * p + s
  BY <1>1
<1> HIDE DEF p, s
<1>3. t * q + r = t * p + s
  BY <1>2
<1>4. CASE p < q
  <2>1. q >= p + 1
    BY <1>2, <1>4
  <2>2. t * q >= t * p + t
    BY <1>1, <1>2, <2>1
  <2>3. QED
    BY <1>1, <1>2, <1>3, <2>2
<1>5. CASE p > q
  <2>1. p >= q + 1
    BY <1>2, <1>5
  <2>2. t * p >= t * q + t
    BY <1>1, <1>2, <2>1
  <2>3. QED
    BY <1>1, <1>2, <1>3, <2>2
<1>6. CASE p = q
  BY <1>1, <1>2, <1>3, <1>6 DEF s
<1>7. QED
  BY <1>2, <1>4, <1>5, <1>6

\* A number is made of its quotient and its remainder.
LEMMA Quotient ==
    ASSUME NEW t \in Nat \ {0}, NEW a \in Int
    PROVE  \E q \in Int : a = t * q + (a % t) /\ a % t \in 0..(t - 1)
<1>1. a \div t \in Int /\ a % t \in 0..(t - 1) /\ a = t * (a \div t) + (a % t)
  OBVIOUS
<1>2. QED
  BY <1>1

\* The difference of two remainders has the remainder of the difference.
LEMMA Difference ==
    ASSUME NEW t \in Nat \ {0}, NEW a \in Nat, NEW b \in Nat
    PROVE  ((a % t) - (b % t)) % t = (a - b) % t
<1>0. a \in Int /\ b \in Int
  OBVIOUS
<1>1. PICK q \in Int : a = t * q + (a % t) /\ a % t \in 0..(t - 1)
  BY <1>0, Quotient
<1>2. PICK p \in Int : b = t * p + (b % t) /\ b % t \in 0..(t - 1)
  BY <1>0, Quotient
<1> DEFINE c == (a % t) - (b % t)
<1>3. c \in Int
  BY <1>1, <1>2
<1>4. PICK r \in Int : c = t * r + (c % t) /\ c % t \in 0..(t - 1)
  BY <1>3, Quotient
<1> DEFINE s == c % t
<1>5. a - b = t * (q - p) + c
  <2> DEFINE u == a % t
             v == b % t
  <2>1. a = t * q + u /\ b = t * p + v /\ u \in Int /\ v \in Int
    BY <1>1, <1>2
  <2>2. c = u - v
    OBVIOUS
  <2> HIDE DEF c, u, v
  <2>3. t * (q - p) = t * q - t * p
    OBVIOUS
  <2>4. QED
    BY <2>1, <2>2, <2>3
<1> HIDE DEF c
<1>6. c = t * r + s /\ s \in 0..(t - 1)
  BY <1>4
<1> HIDE DEF s
<1>7. q - p + r \in Int
  OBVIOUS
<1>8. a - b = t * (q - p + r) + s
  BY <1>3, <1>5, <1>6
<1>9. (a - b) % t = s
  BY <1>6, <1>7, <1>8, Remainder
<1>10. QED
  BY <1>9 DEF c, s

\* A number below the range is its own remainder, and none is below its remainder.
LEMMA Small ==
    ASSUME NEW t \in Nat \ {0}, NEW a \in Nat
    PROVE  a % t <= a /\ (a < t => a % t = a)
<1>0. a \in Int
  OBVIOUS
<1>1. PICK q \in Int : a = t * q + (a % t) /\ a % t \in 0..(t - 1)
  BY <1>0, Quotient
<1> DEFINE r == a % t
<1>2. a = t * q + r /\ r \in 0..(t - 1)
  BY <1>1
<1> HIDE DEF r
<1>3. q >= 0
  <2> SUFFICES ASSUME q <= -1 PROVE FALSE
    OBVIOUS
  <2>1. t * q <= -t
    OBVIOUS
  <2>2. QED
    BY <1>2, <2>1
<1>4. t * q >= 0
  BY <1>3
<1>5. ASSUME a < t PROVE q = 0
  <2> SUFFICES ASSUME q >= 1 PROVE FALSE
    BY <1>3
  <2>1. t * q >= t
    OBVIOUS
  <2>2. QED
    BY <1>2, <1>5, <2>1
<1>6. QED
  BY <1>2, <1>4, <1>5 DEF r

\* What is known after k edges: xLastTrigger is the tick at which the last press was
\* handled, or boot; a press takes some ticks, so it came before; and an edge
\* that did not count came soon after.
Remembers(edges, last, k) ==
    \E done \in Nat :
        /\ last[k] = done % TickRange
        /\ done <= Since(edges, k)
        /\ \A j \in Presses(edges, last) : j <= k => Since(edges, j) <= done
        /\ done = 0 \/ \E j \in Presses(edges, last) : j <= k /\ done = Since(edges, j)
        /\ Frequent(edges) =>
              done = Since(edges, k) \/ (k > 0 /\ edges[k].at - done <= DEBOUNCE_THRESHOLD)

\* The test at an edge: what passes came late enough, and what fails came early
\* unless a whole turn of the tick count has passed.
LEMMA TestIs ==
    ASSUME NEW done \in Nat, NEW edge, edge.at \in Nat, done <= edge.at
    PROVE  /\ IsPress(done % TickRange, edge) => edge.at - done > DEBOUNCE_THRESHOLD
           /\ ~IsPress(done % TickRange, edge) /\ edge.at - done < TickRange =>
                 edge.at - done <= DEBOUNCE_THRESHOLD
<1> DEFINE t == edge.at
           d == t - done
<1>1. d \in Nat /\ t \in Nat /\ TickRange \in Nat \ {0}
  BY TickAssumption
<1>2. ((t % TickRange) - (done % TickRange)) % TickRange = d % TickRange
  BY <1>1, Difference
<1>3. IsPress(done % TickRange, edge) <=> d % TickRange > DEBOUNCE_THRESHOLD
  BY <1>2 DEF IsPress
<1> HIDE DEF d
<1>4. d % TickRange <= d /\ (d < TickRange => d % TickRange = d) /\ d % TickRange \in Int
  BY <1>1, Small
<1>5. QED
  BY <1>1, <1>3, <1>4 DEF d, DEBOUNCE_THRESHOLD

\* gpio_isr_handler debounces the button: for any number of edges at any times, any
\* range of the tick count, and however often it wraps.
THEOREM ButtonDebounced ==
    ASSUME NEW E, NEW edges \in Seq(E), NEW last, OneByOne(edges), Handled(edges, last)
    PROVE  Debounced(edges, last)
<1> DEFINE n == Len(edges)
           presses == Presses(edges, last)
           T == {k \in Nat : k <= n => Remembers(edges, last, k)}
<1>1. n \in Nat /\ TickRange \in Nat \ {0}
  BY TickAssumption
<1>2. \A k \in 1..n : /\ edges[k].at \in Nat /\ edges[k].later \in Nat
                      /\ Since(edges, k) = edges[k].at + edges[k].later
                      /\ Since(edges, k - 1) <= edges[k].at
  BY <1>1 DEF OneByOne, Since
<1>3. \A k \in 0..n : Since(edges, k) \in Nat
  BY <1>1, <1>2 DEF Since
<1>4. \A j \in presses : j \in 1..n /\ IsPress(last[j - 1], edges[j])
  BY DEF Presses
<1>5. 0 \in T
  <2>1. 0 % TickRange = 0
    BY <1>1, Small
  <2>2. last[0] = 0 /\ Since(edges, 0) = 0
    BY DEF Handled, Since
  <2>3. \A j \in presses : ~(j <= 0)
    BY <1>4
  <2> HIDE DEF presses
  <2>4. Remembers(edges, last, 0)
    BY <2>1, <2>2, <2>3 DEF Remembers, presses
  <2>5. QED
    BY <2>4
<1>6. ASSUME NEW k \in 1..n, NEW done \in Nat, last[k - 1] = done % TickRange,
             done <= Since(edges, k - 1)
      PROVE  /\ k \in presses => edges[k].at - done > DEBOUNCE_THRESHOLD
             /\ k \notin presses /\ edges[k].at - done < TickRange =>
                   edges[k].at - done <= DEBOUNCE_THRESHOLD
             /\ done <= edges[k].at
  <2>1. edges[k].at \in Nat /\ done <= edges[k].at
    <3>1. Since(edges, k - 1) \in Nat /\ Since(edges, k - 1) <= edges[k].at /\ edges[k].at \in Nat
      BY <1>1, <1>2, <1>3
    <3>2. QED
      BY <1>6, <3>1
  <2>2. k \in presses <=> IsPress(done % TickRange, edges[k])
    BY <1>6 DEF Presses
  <2> HIDE DEF presses
  <2>3. QED
    BY <2>1, <2>2, TestIs
<1>7. ASSUME NEW k \in 1..n, NEW done \in Nat, last[k - 1] = done % TickRange,
             done <= Since(edges, k - 1), Frequent(edges),
             done = Since(edges, k - 1)
             \/ (k - 1 > 0 /\ edges[k - 1].at - done <= DEBOUNCE_THRESHOLD)
      PROVE  edges[k].at - done < TickRange
  <2> DEFINE before == IF k = 1 THEN 0 ELSE edges[k - 1].at
  <2>1. edges[k].at - before < TickRange - DEBOUNCE_THRESHOLD
    BY <1>7 DEF Frequent
  <2>2. /\ edges[k].at \in Nat /\ Since(edges, k - 1) \in Nat /\ before \in Nat
        /\ before <= Since(edges, k - 1) /\ (k - 1 > 0 => before = edges[k - 1].at)
    <3>1. CASE k = 1
      BY <1>1, <1>2, <3>1 DEF Since
    <3>2. CASE k # 1
      <4>1. k - 1 \in 1..n
        BY <1>1, <3>2
      <4>2. QED
        BY <1>2, <3>2, <4>1
    <3>3. QED
      BY <3>1, <3>2
  <2> HIDE DEF before
  <2>3. CASE done = Since(edges, k - 1)
    BY <1>1, <2>1, <2>2, <2>3 DEF DEBOUNCE_THRESHOLD
  <2>4. CASE k - 1 > 0 /\ edges[k - 1].at - done <= DEBOUNCE_THRESHOLD
    BY <1>1, <2>1, <2>2, <2>4 DEF DEBOUNCE_THRESHOLD
  <2>5. QED
    BY <1>7, <2>3, <2>4
<1>8. ASSUME NEW k \in T PROVE k + 1 \in T
  <2> SUFFICES ASSUME k + 1 <= n PROVE Remembers(edges, last, k + 1)
    BY DEF T
  <2>1. k \in 0..n /\ k + 1 \in 1..n /\ (k + 1) - 1 = k /\ k \in Nat
    BY <1>1 DEF T
  <2>2. PICK done \in Nat :
           /\ last[k] = done % TickRange
           /\ done <= Since(edges, k)
           /\ \A j \in presses : j <= k => Since(edges, j) <= done
           /\ done = 0 \/ \E j \in presses : j <= k /\ done = Since(edges, j)
           /\ Frequent(edges) =>
                 done = Since(edges, k) \/ (k > 0 /\ edges[k].at - done <= DEBOUNCE_THRESHOLD)
    <3>1. Remembers(edges, last, k)
      BY <2>1 DEF T
    <3>2. QED
      BY <3>1 DEF Remembers
  <2>3. /\ k + 1 \in presses => edges[k + 1].at - done > DEBOUNCE_THRESHOLD
        /\ k + 1 \notin presses /\ edges[k + 1].at - done < TickRange =>
              edges[k + 1].at - done <= DEBOUNCE_THRESHOLD
        /\ done <= edges[k + 1].at
    BY <1>6, <2>1, <2>2
  <2>4. Frequent(edges) => edges[k + 1].at - done < TickRange
    BY <1>7, <2>1, <2>2
  <2>5. /\ edges[k + 1].at \in Nat /\ edges[k + 1].later \in Nat
        /\ Since(edges, k + 1) = edges[k + 1].at + edges[k + 1].later
        /\ Since(edges, k + 1) \in Nat
    BY <1>2, <1>3, <2>1
  <2>6. last[k + 1] = IF k + 1 \in presses THEN Since(edges, k + 1) % TickRange ELSE last[k]
    BY <2>1, <2>5 DEF Handled, Handle, Presses
  <2>7. \A j \in presses : j \in Nat /\ (j <= k + 1 => j <= k \/ j = k + 1)
    BY <1>4, <2>1
  <2> HIDE DEF presses, T
  <2>8. CASE k + 1 \in presses
    <3> DEFINE now == Since(edges, k + 1)
    <3>1. last[k + 1] = now % TickRange /\ now \in Nat /\ done <= now
      BY <2>2, <2>3, <2>5, <2>6, <2>8
    <3>2. \A j \in presses : j <= k + 1 => Since(edges, j) <= now
      <4> SUFFICES ASSUME NEW j \in presses, j <= k + 1 PROVE Since(edges, j) <= now
        OBVIOUS
      <4>1. CASE j <= k
        <5>1. Since(edges, j) <= done /\ Since(edges, j) \in Nat
          BY <1>3, <1>4, <2>2, <4>1
        <5>2. QED
          BY <3>1, <5>1
      <4>2. CASE j = k + 1
        BY <3>1, <4>2
      <4>3. QED
        BY <2>7, <4>1, <4>2
    <3>3. k + 1 <= k + 1
      BY <2>1
    <3>4. QED
      BY <2>8, <3>1, <3>2, <3>3 DEF Remembers, presses
  <2>9. CASE k + 1 \notin presses
    <3>1. last[k + 1] = done % TickRange /\ done <= Since(edges, k + 1)
      BY <2>2, <2>3, <2>5, <2>6, <2>9
    <3>2. \A j \in presses : j <= k + 1 => Since(edges, j) <= done
      BY <2>2, <2>7, <2>9
    <3>3. done = 0 \/ \E j \in presses : j <= k + 1 /\ done = Since(edges, j)
      <4>1. \A j \in presses : j <= k => j <= k + 1
        BY <2>1, <2>7
      <4>2. QED
        BY <2>2, <4>1
    <3>4. Frequent(edges) => k + 1 > 0 /\ edges[k + 1].at - done <= DEBOUNCE_THRESHOLD
      BY <2>1, <2>3, <2>4, <2>9
    <3>5. QED
      BY <3>1, <3>2, <3>3, <3>4 DEF Remembers, presses
  <2>10. QED
    BY <2>8, <2>9
<1>9. T = Nat
  <2> HIDE DEF T
  <2>1. T \in SUBSET Nat
    BY DEF T
  <2>2. QED
    BY <1>5, <1>8, <2>1, Induction
<1>10. ASSUME NEW k \in 1..n
       PROVE  \E done \in Nat :
                 /\ last[k - 1] = done % TickRange /\ done <= Since(edges, k - 1)
                 /\ \A j \in presses : j < k => Since(edges, j) <= done
                 /\ done = 0 \/ \E j \in presses : j < k /\ done = Since(edges, j)
                 /\ Frequent(edges) =>
                       done = Since(edges, k - 1)
                       \/ (k - 1 > 0 /\ edges[k - 1].at - done <= DEBOUNCE_THRESHOLD)
  <2>1. k - 1 \in Nat /\ k - 1 <= n /\ \A j \in presses : j <= k - 1 <=> j < k
    BY <1>1, <1>4
  <2>2. Remembers(edges, last, k - 1)
    BY <1>9, <2>1
  <2> HIDE DEF presses
  <2>3. QED
    BY <2>1, <2>2 DEF Remembers, presses
<1>11. ASSUME NEW j \in presses, NEW k \in presses, j < k
       PROVE  edges[k].at - edges[j].at > DEBOUNCE_THRESHOLD
  <2>1. j \in 1..n /\ k \in 1..n
    BY <1>4
  <2>2. PICK done \in Nat : /\ last[k - 1] = done % TickRange /\ done <= Since(edges, k - 1)
                            /\ Since(edges, j) <= done
    BY <1>10, <1>11, <2>1
  <2>3. edges[k].at - done > DEBOUNCE_THRESHOLD
    BY <1>6, <2>1, <2>2
  <2>4. edges[j].at \in Nat /\ edges[j].later \in Nat /\ edges[k].at \in Nat
        /\ Since(edges, j) = edges[j].at + edges[j].later
    BY <1>2, <2>1
  <2>5. edges[j].at <= done
    <3> DEFINE s == Since(edges, j)
               u == edges[j].at
               v == edges[j].later
    <3>1. u \in Nat /\ v \in Nat /\ s = u + v /\ s <= done
      BY <2>2, <2>4
    <3> HIDE DEF s, u, v
    <3>2. u <= done
      BY <3>1
    <3>3. QED
      BY <3>2 DEF u
  <2>6. QED
    <3> DEFINE u == edges[j].at
               w == edges[k].at
    <3>1. u \in Nat /\ w \in Nat /\ u <= done /\ w - done > 70
      BY <2>3, <2>4, <2>5 DEF DEBOUNCE_THRESHOLD
    <3> HIDE DEF u, w
    <3>2. w - u > 70
      BY <3>1
    <3>3. QED
      BY <3>2 DEF u, w, DEBOUNCE_THRESHOLD
<1>12. ASSUME Frequent(edges), NEW k \in (1..n) \ presses
       PROVE  \/ edges[k].at <= DEBOUNCE_THRESHOLD
              \/ \E j \in presses : j < k /\ edges[k].at - Since(edges, j) <= DEBOUNCE_THRESHOLD
  <2>1. k \in 1..n /\ k \notin presses
    OBVIOUS
  <2>2. PICK done \in Nat :
           /\ last[k - 1] = done % TickRange /\ done <= Since(edges, k - 1)
           /\ done = 0 \/ \E j \in presses : j < k /\ done = Since(edges, j)
           /\ done = Since(edges, k - 1)
              \/ (k - 1 > 0 /\ edges[k - 1].at - done <= DEBOUNCE_THRESHOLD)
    BY <1>10, <1>12, <2>1
  <2>3. edges[k].at - done < TickRange
    BY <1>7, <1>12, <2>1, <2>2
  <2>4. edges[k].at - done <= DEBOUNCE_THRESHOLD
    BY <1>6, <2>1, <2>2, <2>3
  <2>5. edges[k].at \in Nat
    BY <1>2, <2>1
  <2>6. QED
    BY <2>2, <2>4, <2>5
<1>13. QED
  BY <1>11, <1>12 DEF Debounced

-----------------------------------------------------------------------------
(***************************************************************************)
(* The outbox.                                                             *)
(***************************************************************************)

\* No two items of an outbox have the same tick.
Stamped(box) == \A i, j \in DOMAIN box : box[i].tick = box[j].tick => i = j

\* The lists that removals can make of a list.
Thinned(box) == {rest \in Seq(ToSet(box)) : Stamped(box) => Stamped(rest)}

\* What RemoveAt returns: the items before the place, then those after it.
LEMMA RemoveAtIs ==
    ASSUME NEW I, NEW s \in Seq(I), NEW i \in DOMAIN s
    PROVE  /\ RemoveAt(s, i) \in Seq(I)
           /\ Len(RemoveAt(s, i)) = Len(s) - 1
           /\ \A k \in 1..(Len(s) - 1) : RemoveAt(s, i)[k] = IF k < i THEN s[k] ELSE s[k + 1]
<1> DEFINE a == SubSeq(s, 1, i - 1)
           b == SubSeq(s, i + 1, Len(s))
<1>1. i \in 1..Len(s) /\ Len(s) \in Nat
  OBVIOUS
<1>2. a \in Seq(I) /\ Len(a) = i - 1 /\ \A k \in 1..(i - 1) : a[k] = s[k]
  BY <1>1, SubSeqProperties
<1>3. b \in Seq(I) /\ Len(b) = Len(s) - i /\ \A k \in 1..(Len(s) - i) : b[k] = s[i + k]
  BY <1>1, SubSeqProperties
<1> HIDE DEF a, b
<1>4. RemoveAt(s, i) = a \o b
  BY DEF RemoveAt, a, b
<1>5. a \o b \in Seq(I) /\ Len(a \o b) = Len(s) - 1
  BY <1>1, <1>2, <1>3, ConcatProperties
<1>6. ASSUME NEW k \in 1..(Len(s) - 1) PROVE (a \o b)[k] = IF k < i THEN s[k] ELSE s[k + 1]
  <2>1. (a \o b)[k] = IF k <= Len(a) THEN a[k] ELSE b[k - Len(a)]
    BY <1>1, <1>2, <1>3, ConcatProperties
  <2>2. CASE k < i
    BY <1>1, <1>2, <2>1, <2>2
  <2>3. CASE k >= i
    <3>1. b[k - (i - 1)] = s[k + 1]
      BY <1>1, <1>3, <2>3
    <3>2. QED
      BY <1>1, <1>2, <2>1, <2>3, <3>1
  <2>4. k < i \/ k >= i
    BY <1>1
  <2>5. QED
    BY <2>2, <2>3, <2>4
<1>7. QED
  BY <1>4, <1>5, <1>6

\* A loop that returns at its first match returns a match, if there is one.
LEMMA FirstIsIn ==
    ASSUME NEW P \in SUBSET Nat, P # {}
    PROVE  First(P) \in P
BY NatMin DEF First

\* One item less is still a thinned list.
LEMMA RemoveAtThins ==
    ASSUME NEW box, NEW rest \in Thinned(box), NEW i \in DOMAIN rest
    PROVE  RemoveAt(rest, i) \in Thinned(box)
<1>1. rest \in Seq(ToSet(box))
  BY DEF Thinned
<1> DEFINE r == RemoveAt(rest, i)
<1>2. /\ r \in Seq(ToSet(box)) /\ Len(r) = Len(rest) - 1
      /\ \A k \in 1..(Len(rest) - 1) : r[k] = IF k < i THEN rest[k] ELSE rest[k + 1]
  BY <1>1, RemoveAtIs
<1>3. ASSUME Stamped(rest) PROVE Stamped(r)
  <2> HIDE DEF r
  <2> SUFFICES ASSUME NEW j \in DOMAIN r, NEW k \in DOMAIN r, r[j].tick = r[k].tick PROVE j = k
    BY DEF Stamped
  <2> DEFINE at(x) == IF x < i THEN x ELSE x + 1
  <2>1. \A x \in DOMAIN r : at(x) \in DOMAIN rest /\ r[x] = rest[at(x)]
    BY <1>1, <1>2
  <2>2. at(j) = at(k)
    BY <1>3, <2>1 DEF Stamped
  <2>3. QED
    BY <1>1, <1>2, <2>2
<1>4. QED
  BY <1>2, <1>3 DEF Thinned

\* One round of the loop of outbox_cleanup.
CleanupRound(b, max_size) ==
    IF GetSize(b) > max_size /\ Dequeue(b) # 0 THEN RemoveAt(b, Dequeue(b)) ELSE b

\* What outbox_dequeue finds is not pending and the first such item.
LEMMA DequeueIs ==
    ASSUME NEW I, NEW b \in Seq(I)
    PROVE  IF \A i \in DOMAIN b : b[i].pending THEN Dequeue(b) = 0
           ELSE /\ Dequeue(b) \in DOMAIN b /\ Dequeue(b) # 0 /\ ~b[Dequeue(b)].pending
                /\ \A i \in DOMAIN b : i < Dequeue(b) => b[i].pending
<1> DEFINE P == {i \in DOMAIN b : ~b[i].pending}
<1>1. P \in SUBSET Nat /\ DOMAIN b = 1..Len(b) /\ Len(b) \in Nat
  OBVIOUS
<1>2. Dequeue(b) = First(P)
  BY DEF Dequeue
<1>3. CASE \A i \in DOMAIN b : b[i].pending
  <2>1. P = {}
    BY <1>3
  <2>2. QED
    BY <1>2, <1>3, <2>1 DEF First
<1>4. CASE ~(\A i \in DOMAIN b : b[i].pending)
  <2>1. P # {}
    BY <1>4
  <2>2. \E i \in P : \A j \in P : i <= j
    BY <1>1, <2>1, NatMin
  <2>3. First(P) \in P /\ \A j \in P : First(P) <= j
    BY <2>1, <2>2 DEF First
  <2>4. ASSUME NEW i \in DOMAIN b, i < First(P), ~b[i].pending PROVE FALSE
    <3>1. i \in P
      BY <2>4
    <3> HIDE DEF P
    <3>2. First(P) <= i /\ First(P) \in Nat /\ i \in Nat
      BY <1>1, <2>3, <3>1
    <3>3. QED
      BY <2>4, <3>2
  <2>5. First(P) # 0
    BY <1>1, <2>3
  <2>6. QED
    BY <1>2, <1>4, <2>3, <2>4, <2>5
<1>5. QED
  BY <1>3, <1>4

\* A round of the loop takes out the item that outbox_dequeue finds, or nothing.
LEMMA RoundTyped ==
    ASSUME NEW I, NEW b \in Seq(I), NEW max_size
    PROVE  CleanupRound(b, max_size) \in Seq(I)
BY DequeueIs, RemoveAtIs DEF CleanupRound

\* outbox_cleanup is as many rounds as the list had items.
LEMMA CleanupRounds ==
    ASSUME NEW I, NEW box \in Seq(I), NEW max_size
    PROVE  \E h : /\ h[0] = box /\ Cleanup(box, max_size) = h[Len(box)]
                  /\ \A k \in 1..Len(box) : h[k] = CleanupRound(h[k - 1], max_size)
<1> DEFINE n == Len(box)
           D == Seq(I)
           Rounds(h) == [k \in 0..n |-> IF k = 0 THEN box ELSE CleanupRound(h[k - 1], max_size)]
           g == [p \in (1..n) \X D |-> CleanupRound(p[2], max_size)]
           rest == CHOOSE f : f = Rounds(f)
<1>1. n \in Nat /\ box \in D
  OBVIOUS
<1>2. ASSUME NEW b \in D PROVE CleanupRound(b, max_size) \in D
  BY RoundTyped
<1> HIDE DEF n, D
<1>3. g \in [(1..n) \X D -> D]
  BY <1>2
<1> HIDE DEF g
<1>4. PICK h \in [0..n -> D] : Follows(h, n, box, g)
  <2>1. n \in Nat
    BY <1>1
  <2>2. box \in D
    BY <1>1
  <2>3. QED
    BY <1>3, <2>1, <2>2, RecursionExists
<1>5. h = Rounds(h)
  <2>1. ASSUME NEW k \in 1..n PROVE h[k] = CleanupRound(h[k - 1], max_size)
    <3>1. h[k - 1] \in D
      BY <1>1
    <3>2. g[<<k, h[k - 1]>>] = CleanupRound(h[k - 1], max_size)
      BY <3>1 DEF g
    <3>3. QED
      BY <1>4, <3>2 DEF Follows
  <2>2. QED
    BY <1>1, <1>4, <2>1 DEF Follows
<1>6. rest = Rounds(rest)
  <2> HIDE DEF Rounds
  <2>1. QED
    BY <1>5
<1>7. Cleanup(box, max_size) = rest[n]
  BY DEF Cleanup, n, CleanupRound
<1> HIDE DEF rest
<1>8. rest[0] = box /\ \A k \in 1..n : rest[k] = CleanupRound(rest[k - 1], max_size)
  BY <1>1, <1>6
<1>9. QED
  BY <1>7, <1>8 DEF n

\* outbox_cleanup only removes: each round of its loop removes one item or none.
LEMMA CleanupThins ==
    ASSUME NEW I, NEW box \in Seq(I), NEW max_size
    PROVE  Cleanup(box, max_size) \in Thinned(box)
<1> DEFINE n == Len(box)
           D == Thinned(box)
<1>1. n \in Nat /\ box \in D
  BY DEF Thinned, ToSet
<1>2. ASSUME NEW b \in D PROVE CleanupRound(b, max_size) \in D
  <2>1. b \in Seq(ToSet(box))
    BY DEF Thinned
  <2>2. Dequeue(b) # 0 => Dequeue(b) \in DOMAIN b
    BY <2>1, DequeueIs
  <2>3. QED
    BY <2>2, RemoveAtThins DEF CleanupRound
<1>3. PICK h : /\ h[0] = box /\ Cleanup(box, max_size) = h[n]
               /\ \A k \in 1..n : h[k] = CleanupRound(h[k - 1], max_size)
  BY CleanupRounds
<1> HIDE DEF n, D
<1> DEFINE T == {k \in Nat : k <= n => h[k] \in D}
<1>4. 0 \in T
  BY <1>1, <1>3
<1>5. ASSUME NEW k \in T PROVE k + 1 \in T
  <2> SUFFICES ASSUME k + 1 <= n PROVE h[k + 1] \in D
    OBVIOUS
  <2>1. h[k] \in D
    BY <1>1
  <2>2. h[k + 1] = CleanupRound(h[(k + 1) - 1], max_size)
    BY <1>1, <1>3
  <2>3. (k + 1) - 1 = k
    OBVIOUS
  <2>4. QED
    BY <1>2, <2>1, <2>2, <2>3
<1>6. n \in T
  <2>1. T \in SUBSET Nat
    OBVIOUS
  <2> HIDE DEF T
  <2>2. QED
    BY <1>1, <1>4, <1>5, <2>1, Induction
<1>7. QED
  BY <1>3, <1>6 DEF D

\* outbox_delete_expired only removes: it keeps items of the list, each once.
LEMMA DeleteExpiredThins ==
    ASSUME NEW I, NEW box \in Seq(I), NEW current_tick, NEW timeout
    PROVE  DeleteExpired(box, current_tick, timeout) \in Thinned(box)
<1> DEFINE n == Len(box)
           B == Seq(ToSet(box))
           Round(k, b) == IF current_tick - box[k].tick > timeout THEN b
                          ELSE Append(b, box[k])
           Rounds(h) == [k \in 0..n |-> IF k = 0 THEN <<>> ELSE Round(k, h[k - 1])]
           g == [p \in (1..n) \X B |-> Round(p[1], p[2])]
           kept == CHOOSE f : f = Rounds(f)
           Upto(k) == {r \in Seq({box[i] : i \in 1..k}) : Stamped(box) => Stamped(r)}
<1>1. n \in Nat /\ <<>> \in B /\ box \in [1..n -> ToSet(box)]
  BY DEF ToSet
<1>2. ASSUME NEW k \in 1..n, NEW b \in B PROVE Round(k, b) \in B
  <2>1. box[k] \in ToSet(box)
    BY <1>1
  <2> HIDE DEF n
  <2>2. QED
    BY <2>1
<1>3. ASSUME NEW k \in 1..n, NEW b \in Upto(k - 1) PROVE Round(k, b) \in Upto(k)
  <2> DEFINE a == Append(b, box[k])
  <2>1. b \in Seq({box[i] : i \in 1..k})
    <3>1. {box[i] : i \in 1..(k - 1)} \subseteq {box[i] : i \in 1..k}
      OBVIOUS
    <3>2. b \in Seq({box[i] : i \in 1..(k - 1)})
      OBVIOUS
    <3>3. QED
      BY <3>1, <3>2
  <2>2. a \in Seq({box[i] : i \in 1..k})
    BY <2>1
  <2>3. ASSUME Stamped(box) PROVE Stamped(a)
    <3>1. Len(b) \in Nat /\ b \in Seq({box[i] : i \in 1..(k - 1)}) /\ Stamped(b)
      BY <2>3
    <3>2. \A i \in 1..Len(b) : \E j \in 1..(k - 1) : b[i] = box[j]
      BY <3>1
    <3>3. \A i \in 1..Len(b) : b[i].tick # box[k].tick
      <4> SUFFICES ASSUME NEW i \in 1..Len(b) PROVE b[i].tick # box[k].tick
        OBVIOUS
      <4>1. PICK j \in 1..(k - 1) : b[i] = box[j]
        BY <3>2
      <4>2. j \in DOMAIN box /\ k \in DOMAIN box /\ j # k
        BY <1>1
      <4>3. QED
        BY <2>3, <4>1, <4>2 DEF Stamped
    <3>4. DOMAIN a = 1..(Len(b) + 1) /\ a[Len(b) + 1] = box[k]
          /\ \A i \in 1..Len(b) : a[i] = b[i]
      BY <3>1
    <3> HIDE DEF a
    <3>5. ASSUME NEW i \in DOMAIN a, NEW j \in DOMAIN a, a[i].tick = a[j].tick, i <= j
          PROVE  i = j
      <4>1. CASE j = Len(b) + 1
        BY <3>1, <3>3, <3>4, <3>5, <4>1
      <4>2. CASE j \in 1..Len(b)
        <5>1. i \in DOMAIN b /\ j \in DOMAIN b /\ a[i] = b[i] /\ a[j] = b[j]
          BY <3>1, <3>4, <3>5, <4>2
        <5>2. QED
          BY <3>1, <3>5, <5>1 DEF Stamped
      <4>3. QED
        BY <3>1, <3>4, <4>1, <4>2
    <3>6. DOMAIN a \subseteq Nat
      BY <3>1, <3>4
    <3>7. ASSUME NEW i \in DOMAIN a, NEW j \in DOMAIN a, a[i].tick = a[j].tick PROVE i = j
      <4>1. i <= j \/ j <= i
        BY <3>6
      <4>2. QED
        BY <3>5, <3>7, <4>1
    <3>8. QED
      BY <3>7 DEF Stamped
  <2>4. QED
    BY <2>1, <2>2, <2>3
<1>4. <<>> \in Upto(0)
  BY DEF Stamped
<1>5. Upto(n) \subseteq Thinned(box)
  <2>1. {box[i] : i \in 1..n} = ToSet(box)
    BY <1>1 DEF ToSet
  <2> HIDE DEF n
  <2>2. QED
    BY <2>1 DEF Thinned
<1> HIDE DEF n, B, Round, Upto
<1>6. g \in [(1..n) \X B -> B]
  BY <1>2
<1> HIDE DEF g
<1>7. PICK h \in [0..n -> B] : Follows(h, n, <<>>, g)
  <2>1. n \in Nat
    BY <1>1
  <2>2. <<>> \in B
    BY <1>1
  <2>3. QED
    BY <1>6, <2>1, <2>2, RecursionExists
<1>8. h = Rounds(h)
  <2>1. ASSUME NEW k \in 1..n PROVE h[k] = Round(k, h[k - 1])
    <3>1. h[k - 1] \in B
      BY <1>1
    <3>2. g[<<k, h[k - 1]>>] = Round(k, h[k - 1])
      BY <3>1 DEF g
    <3>3. QED
      BY <1>7, <3>2 DEF Follows
  <2>2. QED
    BY <1>1, <1>7, <2>1 DEF Follows
<1>9. kept = Rounds(kept)
  <2> HIDE DEF Rounds
  <2>1. QED
    BY <1>8
<1>10. DeleteExpired(box, current_tick, timeout) = kept[n]
  BY DEF DeleteExpired, n, Round
<1> HIDE DEF kept
<1> DEFINE T == {k \in Nat : k <= n => kept[k] \in Upto(k)}
<1>11. 0 \in T
  BY <1>1, <1>4, <1>9
<1>12. ASSUME NEW k \in T PROVE k + 1 \in T
  <2> SUFFICES ASSUME k + 1 <= n PROVE kept[k + 1] \in Upto(k + 1)
    OBVIOUS
  <2>1. kept[k] \in Upto(k)
    BY <1>1
  <2>2. kept[k + 1] = Round(k + 1, kept[(k + 1) - 1])
    BY <1>1, <1>9
  <2>3. (k + 1) - 1 = k
    OBVIOUS
  <2>4. QED
    BY <1>1, <1>3, <2>1, <2>2, <2>3
<1>13. n \in T
  <2>1. T \in SUBSET Nat
    OBVIOUS
  <2> HIDE DEF T
  <2>2. QED
    BY <1>1, <1>11, <1>12, <2>1, Induction
<1>14. QED
  BY <1>1, <1>5, <1>10, <1>13

\* What is left of a list after a removal is what is left of the whole list at one
\* place fewer.
LEMMA LeftRemoved ==
    ASSUME NEW I, NEW box \in Seq(I), NEW places \in SUBSET DOMAIN box,
           NEW n \in 0..Len(box), NEW at \in Walks(n, places), NEW i \in 1..n
    PROVE  /\ n - 1 \in 0..Len(box)
           /\ \E to \in Walks(n - 1, places \ {at[i]}) :
                  RemoveAt(Along(box, n, at), i) = Along(box, n - 1, to)
<1> DEFINE b == Along(box, n, at)
           to == [k \in 1..(n - 1) |-> IF k < i THEN at[k] ELSE at[k + 1]]
           m == n - 1
<1>1. /\ n \in Nat /\ m \in Nat /\ m \in 0..Len(box) /\ n = m + 1 /\ i \in 1..(m + 1)
      /\ DOMAIN box \subseteq Nat
  OBVIOUS
<1>2. /\ at \in [1..n -> places] /\ \A j, k \in 1..n : j < k => at[j] < at[k]
      /\ \A p \in places : \E k \in 1..n : at[k] = p
  BY DEF Walks
<1>3. \A k \in 1..m : to[k] = IF k < i THEN at[k] ELSE at[k + 1]
  OBVIOUS
<1>4. to \in [1..m -> places \ {at[i]}]
  <2>1. ASSUME NEW k \in 1..m PROVE to[k] \in places /\ to[k] # at[i]
    <3>1. CASE k < i
      <4>1. k \in 1..n /\ at[k] < at[i] /\ at[k] \in Nat /\ at[i] \in Nat /\ at[k] \in places
        BY <1>1, <1>2, <3>1
      <4>2. QED
        BY <1>3, <3>1, <4>1
    <3>2. CASE ~(k < i)
      <4>1. /\ k + 1 \in 1..n /\ i < k + 1
        BY <1>1, <3>2
      <4>2. at[i] < at[k + 1] /\ at[i] \in Nat /\ at[k + 1] \in Nat /\ at[k + 1] \in places
        BY <1>1, <1>2, <4>1
      <4>3. QED
        BY <1>3, <3>2, <4>2
    <3>3. QED
      BY <3>1, <3>2
  <2>2. QED
    BY <2>1
<1>5. ASSUME NEW j \in 1..m, NEW k \in 1..m, j < k PROVE to[j] < to[k]
  <2>1. j + 1 \in 1..n /\ k + 1 \in 1..n /\ j \in 1..n /\ k \in 1..n
    BY <1>1
  <2>2. at[j] < at[k] /\ at[j] < at[k + 1] /\ at[j + 1] < at[k + 1]
    BY <1>1, <1>2, <1>5, <2>1
  <2>3. ~(k < i /\ ~(j < i))
    BY <1>1, <1>5
  <2>4. QED
    BY <1>3, <2>2, <2>3
<1>6. ASSUME NEW p \in places \ {at[i]} PROVE \E k \in 1..m : to[k] = p
  <2>1. PICK k \in 1..n : at[k] = p
    BY <1>2
  <2>2. CASE k < i
    BY <1>1, <1>3, <2>1, <2>2
  <2>3. CASE k > i
    <3>1. k - 1 \in 1..m /\ ~(k - 1 < i) /\ (k - 1) + 1 = k
      BY <1>1, <2>3
    <3>2. to[k - 1] = p
      BY <1>3, <2>1, <3>1
    <3>3. QED
      BY <3>1, <3>2
  <2>4. QED
    BY <1>1, <2>1, <2>2, <2>3
<1>7. to \in Walks(m, places \ {at[i]})
  <2> HIDE DEF to, m
  <2>1. QED
    BY <1>4, <1>5, <1>6 DEF Walks
<1>8. b \in Seq(I) /\ Len(b) = n /\ i \in DOMAIN b /\ \A k \in 1..n : b[k] = box[at[k]]
  BY <1>2 DEF Along
<1>9. RemoveAt(b, i) = Along(box, m, to)
  <2> HIDE DEF b
  <2>1. /\ RemoveAt(b, i) \in Seq(I) /\ Len(RemoveAt(b, i)) = m
        /\ \A k \in 1..m : RemoveAt(b, i)[k] = IF k < i THEN b[k] ELSE b[k + 1]
    BY <1>8, RemoveAtIs
  <2>2. ASSUME NEW k \in 1..m PROVE RemoveAt(b, i)[k] = box[to[k]]
    <3>1. k \in 1..n /\ k + 1 \in 1..n
      BY <1>1
    <3>2. b[k] = box[at[k]] /\ b[k + 1] = box[at[k + 1]]
      BY <1>8, <3>1
    <3>3. QED
      BY <1>3, <2>1, <3>2
  <2> HIDE DEF to, m
  <2>3. QED
    BY <1>1, <2>1, <2>2 DEF Along
<1>10. QED
  BY <1>1, <1>7, <1>9

\* All of a list is left of it at first.
LEMMA LeftWhole ==
    ASSUME NEW I, NEW box \in Seq(I)
    PROVE  /\ [k \in 1..Len(box) |-> k] \in Walks(Len(box), DOMAIN box)
           /\ box = Along(box, Len(box), [k \in 1..Len(box) |-> k])
<1> DEFINE n == Len(box)
           all == [k \in 1..n |-> k]
<1>1. /\ n \in Nat /\ DOMAIN box = 1..n /\ all \in [1..n -> 1..n]
      /\ \A k \in 1..n : all[k] = k
  OBVIOUS
<1>2. box = [k \in 1..n |-> box[k]]
  OBVIOUS
<1> HIDE DEF n, all
<1>3. all \in Walks(n, DOMAIN box)
  BY <1>1 DEF Walks
<1>4. box = Along(box, n, all)
  BY <1>1, <1>2 DEF Along
<1>5. QED
  BY <1>3, <1>4 DEF n, all

\* outbox_delete takes out the first message with the id and the type that the
\* acknowledgement names, and leaves the others as they were, for every list.
THEOREM DeleteTakesFirst ==
    ASSUME NEW I, NEW box \in Seq(I), NEW id, NEW type
    PROVE  TakesFirst(box, id, type, Delete(box, id, type))
<1> DEFINE P == {i \in DOMAIN box : box[i].msg_id = id /\ box[i].msg_type = type}
           n == Len(box)
           all == [k \in 1..n |-> k]
<1>1. P \in SUBSET Nat /\ 0 \notin P /\ P \subseteq 1..n /\ n \in 0..n /\ DOMAIN box = 1..n
  OBVIOUS
<1>2. Matching(box, id, type) = First(P)
  BY DEF Matching
<1>3. CASE P = {}
  <2>1. Delete(box, id, type) = box
    BY <1>2, <1>3 DEF Delete, First
  <2>2. QED
    BY <1>3, <2>1 DEF TakesFirst
<1>4. CASE P # {}
  <2>1. First(P) \in P /\ \A j \in P : First(P) <= j
    <3> HIDE DEF P
    <3>1. \E i \in P : \A j \in P : i <= j
      BY <1>1, <1>4, NatMin
    <3>2. QED
      BY <1>4, <3>1 DEF First
  <2> DEFINE i == First(P)
             places == DOMAIN box
  <2>2. Delete(box, id, type) = RemoveAt(box, i)
    BY <1>1, <1>2, <2>1 DEF Delete
  <2>3. all \in Walks(n, places) /\ box = Along(box, n, all) /\ all[i] = i
    BY <1>1, <2>1, LeftWhole
  <2>4. i \in 1..n /\ places \in SUBSET DOMAIN box
    BY <1>1, <2>1
  <2> HIDE DEF P, i, all, places, n
  <2>5. /\ n - 1 \in 0..n
        /\ \E to \in Walks(n - 1, places \ {all[i]}) :
               RemoveAt(Along(box, n, all), i) = Along(box, n - 1, to)
    <3>1. n \in 0..Len(box)
      BY <1>1 DEF n
    <3>2. places \in SUBSET DOMAIN box
      BY <2>4
    <3>3. all \in Walks(n, places)
      BY <2>3
    <3>4. i \in 1..n
      BY <2>4
    <3>5. /\ n - 1 \in 0..Len(box)
          /\ \E to \in Walks(n - 1, places \ {all[i]}) :
                 RemoveAt(Along(box, n, all), i) = Along(box, n - 1, to)
      BY <3>1, <3>2, <3>3, <3>4, LeftRemoved
    <3>6. QED
      BY <3>5 DEF n
  <2>6. RemoveAt(box, i) \in Left(box, places \ {i})
    BY <2>3, <2>5 DEF Left, n
  <2>7. QED
    BY <1>4, <2>1, <2>2, <2>6 DEF TakesFirst, P, i, places
<1>5. QED
  BY <1>3, <1>4

\* The invariant of the loop of outbox_cleanup: after k rounds it has dropped the
\* oldest messages that are not pending, the last of them for the limit's sake, and
\* one in every round unless it has nothing more to do.
Dropping(box, max_size, b, k) ==
    \E dropped \in SUBSET NotPending(box), n \in 0..Len(box) :
        /\ \E at \in Walks(n, DOMAIN box \ dropped) : b = Along(box, n, at)
        /\ \A i \in dropped, j \in NotPending(box) : j < i => j \in dropped
        /\ \A i \in dropped : (\A j \in dropped : j <= i) =>
               \E before \in Left(box, DOMAIN box \ (dropped \ {i})) : GetSize(before) > max_size
        /\ n = Len(box) - k \/ ~(GetSize(b) > max_size) \/ dropped = NotPending(box)

\* A round keeps the loop's invariant.
LEMMA RoundDrops ==
    ASSUME NEW I, NEW box \in Seq(I), NEW max_size, NEW b, NEW k \in Nat,
           Dropping(box, max_size, b, k)
    PROVE  Dropping(box, max_size, CleanupRound(b, max_size), k + 1)
<1>1. PICK dropped \in SUBSET NotPending(box), n \in 0..Len(box) :
          /\ \E at \in Walks(n, DOMAIN box \ dropped) : b = Along(box, n, at)
          /\ \A i \in dropped, j \in NotPending(box) : j < i => j \in dropped
          /\ \A i \in dropped : (\A j \in dropped : j <= i) =>
                 \E before \in Left(box, DOMAIN box \ (dropped \ {i})) : GetSize(before) > max_size
          /\ n = Len(box) - k \/ ~(GetSize(b) > max_size) \/ dropped = NotPending(box)
  BY DEF Dropping
<1>2. PICK at \in Walks(n, DOMAIN box \ dropped) : b = Along(box, n, at)
  BY <1>1
<1> DEFINE places == DOMAIN box \ dropped
<1>3. /\ at \in [1..n -> places] /\ \A i, j \in 1..n : i < j => at[i] < at[j]
      /\ \A p \in places : \E i \in 1..n : at[i] = p
  BY <1>2 DEF Walks
<1>4. /\ DOMAIN box = 1..Len(box) /\ Len(box) \in Nat /\ n \in Nat
      /\ \A i \in DOMAIN box : box[i] \in I
  OBVIOUS
<1>5. b \in Seq(I) /\ Len(b) = n /\ DOMAIN b = 1..n /\ \A i \in 1..n : b[i] = box[at[i]]
  BY <1>2, <1>3, <1>4 DEF Along
<1>6. ASSUME \A i \in DOMAIN b : b[i].pending PROVE dropped = NotPending(box)
  <2>1. ASSUME NEW p \in NotPending(box), p \notin dropped PROVE FALSE
    <3>1. p \in places /\ ~box[p].pending
      BY <2>1 DEF NotPending
    <3>2. PICK i \in 1..n : at[i] = p
      BY <1>3, <3>1
    <3>3. i \in DOMAIN b /\ b[i] = box[p]
      BY <1>5, <3>2
    <3>4. QED
      BY <1>6, <3>1, <3>3
  <2>2. QED
    BY <2>1
<1>7. CASE GetSize(b) > max_size /\ Dequeue(b) # 0
  <2> DEFINE i == Dequeue(b)
             more == dropped \cup {at[i]}
  <2>1. /\ i \in 1..n /\ ~b[i].pending /\ \A j \in 1..n : j < i => b[j].pending
    BY <1>5, <1>7, DequeueIs
  <2>2. CleanupRound(b, max_size) = RemoveAt(b, i)
    BY <1>7 DEF CleanupRound
  <2> HIDE DEF i
  <2>3. at[i] \in places /\ at[i] \in NotPending(box) /\ at[i] \notin dropped
    BY <1>3, <1>5, <2>1 DEF NotPending
  <2>4. more \in SUBSET NotPending(box) /\ DOMAIN box \ more = places \ {at[i]}
    BY <2>3
  <2>5. PICK to \in Walks(n - 1, places \ {at[i]}) : RemoveAt(b, i) = Along(box, n - 1, to)
    <3>1. places \in SUBSET DOMAIN box
      OBVIOUS
    <3>2. at \in Walks(n, places)
      BY <1>2
    <3> HIDE DEF places
    <3>3. \E to \in Walks(n - 1, places \ {at[i]}) :
              RemoveAt(Along(box, n, at), i) = Along(box, n - 1, to)
      BY <2>1, <3>1, <3>2, LeftRemoved
    <3>4. QED
      BY <1>2, <3>3
  <2>6. n - 1 \in 0..Len(box)
    BY <1>4, <2>1
  <2>7. NotPending(box) \subseteq Nat /\ NotPending(box) \subseteq DOMAIN box
    BY <1>4 DEF NotPending
  <2>8. ASSUME NEW j \in NotPending(box), j < at[i] PROVE j \in dropped
    <3> SUFFICES ASSUME j \in places PROVE FALSE
      BY <2>7
    <3>1. PICK c \in 1..n : at[c] = j
      BY <1>3
    <3>2. ~b[c].pending
      BY <1>5, <3>1 DEF NotPending
    <3>3. ~(c < i) /\ c # i
      BY <2>1, <2>3, <2>7, <2>8, <3>1, <3>2
    <3>4. i < c
      BY <2>1, <3>3
    <3>5. at[i] < j
      BY <1>3, <2>1, <3>1, <3>4
    <3>6. QED
      BY <2>3, <2>7, <2>8, <3>5
  <2>9. \A p \in more, j \in NotPending(box) : j < p => j \in more
    BY <1>1, <2>8
  <2>10. \A p \in dropped : p < at[i]
    <3>1. ASSUME NEW p \in dropped PROVE p < at[i]
      <4>1. p \in Nat /\ at[i] \in Nat /\ p # at[i]
        BY <2>3, <2>7
      <4>2. ~(at[i] < p)
        BY <1>1, <2>3
      <4>3. QED
        BY <4>1, <4>2
    <3>2. QED
      BY <3>1
  <2>11. ASSUME NEW p \in more, \A j \in more : j <= p
         PROVE  \E before \in Left(box, DOMAIN box \ (more \ {p})) : GetSize(before) > max_size
    <3>1. p = at[i]
      <4>1. p \in Nat /\ at[i] \in Nat /\ at[i] <= p
        BY <2>3, <2>7, <2>11
      <4>2. p \notin dropped
        BY <2>10, <4>1
      <4>3. QED
        BY <4>2
    <3>2. more \ {p} = dropped
      BY <2>3, <3>1
    <3>3. b \in Left(box, DOMAIN box \ dropped)
      BY <1>2 DEF Left
    <3>4. QED
      BY <1>7, <3>2, <3>3
  <2>12. n - 1 = Len(box) - (k + 1)
    <3>1. dropped # NotPending(box)
      BY <2>3
    <3>2. n = Len(box) - k
      BY <1>1, <1>7, <3>1
    <3>3. QED
      BY <1>4, <3>2
  <2>13. \E way \in Walks(n - 1, DOMAIN box \ more) : RemoveAt(b, i) = Along(box, n - 1, way)
    BY <2>4, <2>5
  <2> HIDE DEF more, places
  <2>14. Dropping(box, max_size, RemoveAt(b, i), k + 1)
    <3> DEFINE m == n - 1
    <3>1. m \in 0..Len(box) /\ m = Len(box) - (k + 1)
          /\ \E way \in Walks(m, DOMAIN box \ more) : RemoveAt(b, i) = Along(box, m, way)
      BY <2>6, <2>12, <2>13
    <3> HIDE DEF m
    <3>2. QED
      BY <2>4, <2>9, <2>11, <3>1 DEF Dropping
  <2>15. QED
    BY <2>2, <2>14
<1>8. CASE ~(GetSize(b) > max_size /\ Dequeue(b) # 0)
  <2>1. CleanupRound(b, max_size) = b
    BY <1>8 DEF CleanupRound
  <2>2. ~(GetSize(b) > max_size) \/ dropped = NotPending(box)
    BY <1>5, <1>6, <1>8, DequeueIs
  <2>3. Dropping(box, max_size, b, k + 1)
    BY <1>1, <2>2 DEF Dropping
  <2>4. QED
    BY <2>1, <2>3
<1>9. QED
  BY <1>7, <1>8

\* outbox_cleanup gives up messages that are not pending, the oldest first, until
\* the rest fits the limit or all of them are gone, and none too many, for every
\* list and every limit: its loop runs often enough.
THEOREM CleanupDropsOldest ==
    ASSUME NEW I, NEW box \in Seq(I), NEW max_size
    PROVE  DropsOldest(box, max_size, Cleanup(box, max_size))
<1> DEFINE n == Len(box)
           all == [k \in 1..n |-> k]
<1>1. PICK h : /\ h[0] = box /\ Cleanup(box, max_size) = h[n]
               /\ \A k \in 1..n : h[k] = CleanupRound(h[k - 1], max_size)
  BY CleanupRounds
<1> DEFINE T == {k \in Nat : k <= n => Dropping(box, max_size, h[k], k)}
<1>2. n \in Nat /\ n = Len(box) - 0
  OBVIOUS
<1>3. Dropping(box, max_size, box, 0)
  <2>1. all \in Walks(n, DOMAIN box) /\ box = Along(box, n, all)
    BY LeftWhole
  <2> HIDE DEF all
  <2>2. {} \in SUBSET NotPending(box) /\ n \in 0..Len(box) /\ DOMAIN box \ {} = DOMAIN box
    BY <1>2
  <2>3. \E at \in Walks(n, DOMAIN box \ {}) : box = Along(box, n, at)
    BY <2>1, <2>2
  <2>4. QED
    BY <1>2, <2>2, <2>3 DEF Dropping
<1>4. 0 \in T
  BY <1>1, <1>3
<1>5. ASSUME NEW k \in T PROVE k + 1 \in T
  <2> SUFFICES ASSUME k + 1 <= n PROVE Dropping(box, max_size, h[k + 1], k + 1)
    OBVIOUS
  <2>1. k \in Nat /\ Dropping(box, max_size, h[k], k)
    BY <1>2
  <2>2. h[k + 1] = CleanupRound(h[k], max_size)
    <3>1. k + 1 \in 1..n /\ (k + 1) - 1 = k
      BY <1>2, <2>1
    <3>2. QED
      BY <1>1, <3>1
  <2>3. QED
    BY <2>1, <2>2, RoundDrops
<1>6. n \in T
  <2>1. T \in SUBSET Nat
    OBVIOUS
  <2> HIDE DEF T
  <2>2. QED
    BY <1>2, <1>4, <1>5, <2>1, Induction
<1>7. Dropping(box, max_size, h[n], n)
  BY <1>6
<1> DEFINE rest == Cleanup(box, max_size)
<1>8. PICK dropped \in SUBSET NotPending(box), m \in 0..n :
          /\ \E at \in Walks(m, DOMAIN box \ dropped) : rest = Along(box, m, at)
          /\ \A i \in dropped, j \in NotPending(box) : j < i => j \in dropped
          /\ \A i \in dropped : (\A j \in dropped : j <= i) =>
                 \E before \in Left(box, DOMAIN box \ (dropped \ {i})) : GetSize(before) > max_size
          /\ m = n - n \/ ~(GetSize(rest) > max_size) \/ dropped = NotPending(box)
  BY <1>1, <1>7 DEF Dropping
<1>9. rest \in Left(box, DOMAIN box \ dropped)
  BY <1>8 DEF Left
<1>10. ~(GetSize(rest) > max_size) \/ dropped = NotPending(box)
  <2> SUFFICES ASSUME m = 0 PROVE dropped = NotPending(box)
    BY <1>2, <1>8
  <2>1. DOMAIN box \ dropped = {}
    BY <1>8 DEF Walks
  <2>2. QED
    BY <2>1 DEF NotPending
<1>11. QED
  BY <1>8, <1>9, <1>10 DEF DropsOldest

-----------------------------------------------------------------------------
(***************************************************************************)
(* The properties of the run, for every set of valid inputs.               *)
(***************************************************************************)

\* The input at hand is none or one of those that are given.
InputInv == input = None \/ input \in Inputs

\* That stays so.
LEMMA InputsOnly == InputSpec => []InputInv
<1>1. InputInit => InputInv
  BY DEF InputInit, InputInv
<1>2. InputInv /\ [InputNext]_input => InputInv'
  BY DEF InputInv, InputNext, Take, Done
<1> QED
  BY <1>1, <1>2, PTL DEF InputSpec

\* An input of a kind is valid for it.
LEMMA InputIsValid ==
    ASSUME InputInv, input.kind # "none"
    PROVE  Valid(input)
BY InputsAssumption DEF InputInv, None

\* OutboxKeepsRest: a cleanup drops the oldest messages that may go and only those it
\* must, and an acknowledgement takes out its own, for lists of any length.
THEOREM OutboxRight == InputSpec => []OutboxKeepsRest
<1>1. InputInv => OutboxKeepsRest
  <2> SUFFICES ASSUME InputInv, Is("outbox") PROVE OutboxKeepsRest
    BY DEF OutboxKeepsRest
  <2>1. input.box \in Seq(OutboxItems)
    BY InputIsValid DEF Is, Valid, ValidOutbox
  <2>2. DropsOldest(input.box, input.max_size, Cleanup(input.box, input.max_size))
    BY <2>1, CleanupDropsOldest
  <2>3. TakesFirst(input.box, input.msg_id, input.msg_type,
                   Delete(input.box, input.msg_id, input.msg_type))
    BY <2>1, DeleteTakesFirst
  <2>4. QED
    BY <2>2, <2>3 DEF OutboxKeepsRest
<1> QED
  BY <1>1, InputsOnly, PTL

\* The history of edges that DebounceSpacing makes of the gaps between them.
LEMMA HistoryExists ==
    ASSUME NEW n \in Nat, NEW gaps \in [1..n -> Nat]
    PROVE  LET time[k \in 0..n] == IF k = 0 THEN 0 ELSE time[k - 1] + gaps[k]
           IN  /\ time \in [0..n -> Nat] /\ time[0] = 0
               /\ \A k \in 1..n : time[k] = time[k - 1] + gaps[k]
<1> DEFINE F(f) == [k \in 0..n |-> IF k = 0 THEN 0 ELSE f[k - 1] + gaps[k]]
           time == CHOOSE f : f = F(f)
           g == [p \in (1..n) \X Nat |-> p[2] + gaps[p[1]]]
<1>1. g \in [(1..n) \X Nat -> Nat]
  OBVIOUS
<1> HIDE DEF g
<1>2. PICK h \in [0..n -> Nat] : Follows(h, n, 0, g)
  <2>1. 0 \in Nat
    OBVIOUS
  <2>2. QED
    BY <1>1, <2>1, RecursionExists
<1>3. ASSUME NEW k \in 1..n PROVE h[k] = h[k - 1] + gaps[k]
  <2>1. h[k - 1] \in Nat
    OBVIOUS
  <2>2. g[<<k, h[k - 1]>>] = h[k - 1] + gaps[k]
    BY <2>1 DEF g
  <2>3. QED
    BY <1>2, <2>2 DEF Follows
<1>4. h = F(h)
  BY <1>2, <1>3 DEF Follows
<1>5. time = F(time)
  <2> HIDE DEF F
  <2>1. QED
    BY <1>4
<1> HIDE DEF time
<1>6. time[0] = 0 /\ \A k \in 1..n : time[k] = time[k - 1] + gaps[k]
  BY <1>5
<1> DEFINE T == {k \in Nat : k <= n => time[k] \in Nat}
<1>7. 0 \in T
  BY <1>6
<1>8. ASSUME NEW k \in T PROVE k + 1 \in T
  <2> SUFFICES ASSUME k + 1 <= n PROVE time[k + 1] \in Nat
    OBVIOUS
  <2>1. k + 1 \in 1..n /\ (k + 1) - 1 = k /\ time[k] \in Nat
    OBVIOUS
  <2>2. time[k + 1] = time[k] + gaps[k + 1] /\ gaps[k + 1] \in Nat
    BY <1>6, <2>1
  <2>3. QED
    BY <2>1, <2>2
<1>9. T = Nat
  <2>1. T \in SUBSET Nat
    OBVIOUS
  <2> HIDE DEF T
  <2>2. QED
    BY <1>7, <1>8, <2>1, Induction
<1>10. time \in [0..n -> Nat]
  <2>1. \A k \in 0..n : time[k] \in Nat
    BY <1>9
  <2>2. time = [k \in 0..n |-> time[k]]
    BY <1>5
  <2>3. QED
    BY <2>1, <2>2
<1>11. QED
  BY <1>6, <1>10 DEF time

\* The values of xLastTrigger in such a history.
LEMMA TriggersExist ==
    ASSUME NEW n \in Nat, NEW edges \in [1..n -> [at : Nat, later : Nat]]
    PROVE  LET last[k \in 0..n] == IF k = 0 THEN 0 ELSE Handle(last[k - 1], edges[k])
           IN  last[0] = 0 /\ \A k \in 1..n : last[k] = Handle(last[k - 1], edges[k])
<1> DEFINE F(f) == [k \in 0..n |-> IF k = 0 THEN 0 ELSE Handle(f[k - 1], edges[k])]
           last == CHOOSE f : f = F(f)
           g == [p \in (1..n) \X Nat |-> Handle(p[2], edges[p[1]])]
<1>1. g \in [(1..n) \X Nat -> Nat]
  <2>1. ASSUME NEW k \in 1..n, NEW x \in Nat PROVE Handle(x, edges[k]) \in Nat
    <3>1. edges[k].at + edges[k].later \in Nat
      OBVIOUS
    <3>2. (edges[k].at + edges[k].later) % TickRange \in Nat
      BY <3>1, TickAssumption
    <3>3. QED
      BY <3>2 DEF Handle
  <2>2. QED
    BY <2>1
<1> HIDE DEF g
<1>2. PICK h \in [0..n -> Nat] : Follows(h, n, 0, g)
  <2>1. 0 \in Nat
    OBVIOUS
  <2>2. QED
    BY <1>1, <2>1, RecursionExists
<1>3. ASSUME NEW k \in 1..n PROVE h[k] = Handle(h[k - 1], edges[k])
  <2>1. h[k - 1] \in Nat
    OBVIOUS
  <2>2. g[<<k, h[k - 1]>>] = Handle(h[k - 1], edges[k])
    BY <2>1 DEF g
  <2>3. QED
    BY <1>2, <2>2 DEF Follows
<1>4. h = F(h)
  BY <1>2, <1>3 DEF Follows
<1>5. last = F(last)
  <2> HIDE DEF F
  <2>1. QED
    BY <1>4
<1> HIDE DEF last
<1>6. last[0] = 0 /\ \A k \in 1..n : last[k] = Handle(last[k - 1], edges[k])
  BY <1>5
<1>7. QED
  BY <1>6 DEF last

\* DebounceSpacing: presses that count are more than 70 ticks apart, and no edge is
\* dropped for long, for any number of edges and any gaps between them.
THEOREM DebounceRight == InputSpec => []DebounceSpacing
<1>1. InputInv => DebounceSpacing
  <2> SUFFICES ASSUME InputInv, Is("edges") PROVE DebounceSpacing
    BY DEF DebounceSpacing
  <2> DEFINE n == Len(input.gaps)
             time[k \in 0..n] == IF k = 0 THEN 0 ELSE time[k - 1] + input.gaps[k]
             edges == [k \in 1..n |-> [at |-> time[k], later |-> input.later]]
             last[k \in 0..n] == IF k = 0 THEN 0 ELSE Handle(last[k - 1], edges[k])
  <2>1. ValidEdges(input)
    BY InputIsValid DEF Is, Valid
  <2>2. n \in Nat /\ input.gaps \in [1..n -> Nat] /\ input.later \in Nat
        /\ \A k \in 1..n : input.later <= input.gaps[k]
    BY <2>1 DEF ValidEdges
  <2>3. /\ time \in [0..n -> Nat] /\ time[0] = 0
        /\ \A k \in 1..n : time[k] = time[k - 1] + input.gaps[k]
    <3> HIDE DEF n
    <3>1. QED
      BY <2>2, HistoryExists
  <2> HIDE DEF n, time
  <2>4. edges \in [1..n -> [at : Nat, later : Nat]] /\ edges \in Seq([at : Nat, later : Nat])
        /\ Len(edges) = n /\ \A k \in 1..n : edges[k].at = time[k] /\ edges[k].later = input.later
    BY <2>2, <2>3
  <2> HIDE DEF edges
  <2>5. last[0] = 0 /\ \A k \in 1..n : last[k] = Handle(last[k - 1], edges[k])
    BY <2>2, <2>4, TriggersExist
  <2> HIDE DEF last
  <2>6. Handled(edges, last)
    BY <2>4, <2>5 DEF Handled
  <2>7. OneByOne(edges)
    <3> SUFFICES ASSUME NEW k \in 1..n
                 PROVE  /\ edges[k].at \in Nat /\ edges[k].later \in Nat
                        /\ Since(edges, k - 1) <= edges[k].at
      BY <2>4 DEF OneByOne
    <3>5. k - 1 \in 0..n
      BY <2>2
    <3>6. time[k - 1] \in Nat /\ input.gaps[k] \in Nat /\ input.later <= input.gaps[k]
      BY <2>2, <2>3, <3>5
    <3>7. edges[k].at = time[k] /\ edges[k].later = input.later
      BY <2>4
    <3>1. edges[k].at = time[k - 1] + input.gaps[k]
      BY <2>3, <3>7
    <3>2. CASE k = 1
      BY <2>2, <3>1, <3>2, <3>6, <3>7 DEF Since
    <3>3. CASE k # 1
      <4>1. k - 1 \in 1..n
        BY <2>2, <3>3
      <4>4. edges[k - 1].at = time[k - 1] /\ edges[k - 1].later = input.later
        BY <2>4, <4>1
      <4>2. Since(edges, k - 1) = time[k - 1] + input.later
        BY <2>2, <3>3, <4>4 DEF Since
      <4>3. QED
        BY <2>2, <3>1, <3>6, <3>7, <4>2
    <3>4. QED
      BY <3>2, <3>3
  <2>8. Debounced(edges, last)
    <3>1. edges \in Seq([at : Nat, later : Nat])
      BY <2>4
    <3>2. QED
      BY <2>6, <2>7, <3>1, ButtonDebounced
  <2>9. QED
    BY <2>6, <2>7, <2>8 DEF DebounceSpacing, n, time, edges, last
<1> QED
  BY <1>1, InputsOnly, PTL

-----------------------------------------------------------------------------
(***************************************************************************)
(* Websocket frames.                                                       *)
(***************************************************************************)

\* A byte is the sum of its bits.
LEMMA BitsOf ==
    ASSUME NEW a \in Byte
    PROVE  a = (a % 2) + 2 * ((a \div 2) % 2) + 4 * ((a \div 4) % 2) + 8 * ((a \div 8) % 2)
               + 16 * ((a \div 16) % 2) + 32 * ((a \div 32) % 2) + 64 * ((a \div 64) % 2)
               + 128 * ((a \div 128) % 2)
BY SMT DEF Byte

\* Masking with the same byte twice leaves a byte as it was.
LEMMA XorTwice ==
    ASSUME NEW a \in Byte, NEW m \in Byte
    PROVE  Xor(a, m) \in Byte /\ Xor(Xor(a, m), m) = a
<1> DEFINE x == Xor(a, m)
<1>1. /\ a \in Nat /\ m \in Nat /\ Differ(a, m) \in 0..1
      /\ a \div 2 \in Nat /\ m \div 2 \in Nat /\ Differ(a \div 2, m \div 2) \in 0..1
      /\ a \div 4 \in Nat /\ m \div 4 \in Nat /\ Differ(a \div 4, m \div 4) \in 0..1
      /\ a \div 8 \in Nat /\ m \div 8 \in Nat /\ Differ(a \div 8, m \div 8) \in 0..1
      /\ a \div 16 \in Nat /\ m \div 16 \in Nat /\ Differ(a \div 16, m \div 16) \in 0..1
      /\ a \div 32 \in Nat /\ m \div 32 \in Nat /\ Differ(a \div 32, m \div 32) \in 0..1
      /\ a \div 64 \in Nat /\ m \div 64 \in Nat /\ Differ(a \div 64, m \div 64) \in 0..1
      /\ a \div 128 \in Nat /\ m \div 128 \in Nat /\ Differ(a \div 128, m \div 128) \in 0..1
  BY SMT DEF Byte, Differ
<1>2. x = Differ(a, m) + 2 * Differ(a \div 2, m \div 2) + 4 * Differ(a \div 4, m \div 4)
          + 8 * Differ(a \div 8, m \div 8) + 16 * Differ(a \div 16, m \div 16)
          + 32 * Differ(a \div 32, m \div 32) + 64 * Differ(a \div 64, m \div 64)
          + 128 * Differ(a \div 128, m \div 128)
  BY Zenon DEF Xor
<1> HIDE DEF x
<1>3. /\ x \in Byte
      /\ x % 2 = Differ(a, m) /\ (x \div 2) % 2 = Differ(a \div 2, m \div 2)
      /\ (x \div 4) % 2 = Differ(a \div 4, m \div 4) /\ (x \div 8) % 2 = Differ(a \div 8, m \div 8)
      /\ (x \div 16) % 2 = Differ(a \div 16, m \div 16)
      /\ (x \div 32) % 2 = Differ(a \div 32, m \div 32)
      /\ (x \div 64) % 2 = Differ(a \div 64, m \div 64)
      /\ (x \div 128) % 2 = Differ(a \div 128, m \div 128)
  <2> DEFINE b0 == Differ(a, m)
             b1 == Differ(a \div 2, m \div 2)
             b2 == Differ(a \div 4, m \div 4)
             b3 == Differ(a \div 8, m \div 8)
             b4 == Differ(a \div 16, m \div 16)
             b5 == Differ(a \div 32, m \div 32)
             b6 == Differ(a \div 64, m \div 64)
             b7 == Differ(a \div 128, m \div 128)
  <2>1. /\ b0 \in 0..1 /\ b1 \in 0..1
        /\ b2 \in 0..1 /\ b3 \in 0..1
        /\ b4 \in 0..1 /\ b5 \in 0..1
        /\ b6 \in 0..1 /\ b7 \in 0..1
        /\ x = b0 + 2 * b1 + 4 * b2 + 8 * b3 + 16 * b4 + 32 * b5 + 64 * b6 + 128 * b7
    BY <1>1, <1>2, Zenon
  <2> HIDE DEF b0, b1, b2, b3, b4, b5, b6, b7
  <2>2. /\ x \in Byte
        /\ x % 2 = b0 /\ (x \div 2) % 2 = b1 /\ (x \div 4) % 2 = b2 /\ (x \div 8) % 2 = b3
        /\ (x \div 16) % 2 = b4 /\ (x \div 32) % 2 = b5 /\ (x \div 64) % 2 = b6
        /\ (x \div 128) % 2 = b7
    BY <2>1, SMT DEF Byte
  <2>3. QED
    BY <2>2, Zenon DEF b0, b1, b2, b3, b4, b5, b6, b7
<1>4. /\ x \in Nat /\ x \div 2 \in Nat /\ x \div 4 \in Nat /\ x \div 8 \in Nat /\ x \div 16 \in Nat
      /\ x \div 32 \in Nat /\ x \div 64 \in Nat /\ x \div 128 \in Nat
  BY <1>3, SMT DEF Byte
<1>5. /\ Differ(x, m) = a % 2 /\ Differ(x \div 2, m \div 2) = (a \div 2) % 2
      /\ Differ(x \div 4, m \div 4) = (a \div 4) % 2 /\ Differ(x \div 8, m \div 8) = (a \div 8) % 2
      /\ Differ(x \div 16, m \div 16) = (a \div 16) % 2
      /\ Differ(x \div 32, m \div 32) = (a \div 32) % 2
      /\ Differ(x \div 64, m \div 64) = (a \div 64) % 2
      /\ Differ(x \div 128, m \div 128) = (a \div 128) % 2
  <2>1. Differ(x, m) = a % 2
    BY <1>1, <1>3, <1>4, SMT DEF Differ
  <2>2. Differ(x \div 2, m \div 2) = (a \div 2) % 2
    BY <1>1, <1>3, <1>4, SMT DEF Differ
  <2>3. Differ(x \div 4, m \div 4) = (a \div 4) % 2
    BY <1>1, <1>3, <1>4, SMT DEF Differ
  <2>4. Differ(x \div 8, m \div 8) = (a \div 8) % 2
    BY <1>1, <1>3, <1>4, SMT DEF Differ
  <2>5. Differ(x \div 16, m \div 16) = (a \div 16) % 2
    BY <1>1, <1>3, <1>4, SMT DEF Differ
  <2>6. Differ(x \div 32, m \div 32) = (a \div 32) % 2
    BY <1>1, <1>3, <1>4, SMT DEF Differ
  <2>7. Differ(x \div 64, m \div 64) = (a \div 64) % 2
    BY <1>1, <1>3, <1>4, SMT DEF Differ
  <2>8. Differ(x \div 128, m \div 128) = (a \div 128) % 2
    BY <1>1, <1>3, <1>4, SMT DEF Differ
  <2>9. QED
    BY <2>1, <2>2, <2>3, <2>4, <2>5, <2>6, <2>7, <2>8, Zenon
<1>6. Xor(x, m) = (a % 2) + 2 * ((a \div 2) % 2) + 4 * ((a \div 4) % 2) + 8 * ((a \div 8) % 2)
                  + 16 * ((a \div 16) % 2) + 32 * ((a \div 32) % 2) + 64 * ((a \div 64) % 2)
                  + 128 * ((a \div 128) % 2)
  BY <1>5, Zenon DEF Xor
<1>7. QED
  BY <1>3, <1>6, BitsOf, Zenon DEF x

\* What a text is.
LEMMA TextIs ==
    ASSUME NEW s \in Text
    PROVE  /\ Len(s) \in Nat /\ DOMAIN s = 1..Len(s) /\ s = [i \in 1..Len(s) |-> s[i]]
           /\ \A i \in 1..Len(s) : s[i] \in Byte
<1>1. Len(s) \in Nat /\ DOMAIN s = 1..Len(s) /\ s = [i \in 1..Len(s) |-> s[i]]
  BY DEF Text
<1>2. \A i \in 1..Len(s) : s[i] \in Byte
  <2> HIDE DEF Byte
  <2>1. QED
    BY ElementOfSeq DEF Text
<1>3. QED
  BY <1>1, <1>2

\* A text behind another.
LEMMA TextConcat ==
    ASSUME NEW s \in Text, NEW t \in Text
    PROVE  /\ s \o t \in Text /\ Len(s \o t) = Len(s) + Len(t)
           /\ \A i \in 1..Len(s) : (s \o t)[i] = s[i]
           /\ \A i \in 1..Len(t) : (s \o t)[Len(s) + i] = t[i]
<1> DEFINE st == s \o t
<1>1. s \in Seq(Byte) /\ t \in Seq(Byte)
  BY DEF Text
<1>2. st \in Seq(Byte) /\ Len(st) = Len(s) + Len(t)
      /\ \A i \in 1..Len(s) + Len(t) : st[i] = IF i <= Len(s) THEN s[i] ELSE t[i - Len(s)]
  BY <1>1, ConcatProperties
<1>3. st \in Text
  BY <1>2 DEF Text
<1> HIDE DEF st
<1>4. Len(s) \in Nat /\ Len(t) \in Nat
  BY TextIs
<1>5. ASSUME NEW i \in 1..Len(s) PROVE st[i] = s[i]
  <2>1. i \in 1..Len(s) + Len(t) /\ i <= Len(s)
    BY <1>4
  <2>2. QED
    BY <1>2, <2>1
<1>6. ASSUME NEW i \in 1..Len(t) PROVE st[Len(s) + i] = t[i]
  <2>1. Len(s) + i \in 1..Len(s) + Len(t) /\ ~ (Len(s) + i <= Len(s)) /\ Len(s) + i - Len(s) = i
    BY <1>4
  <2>2. QED
    BY <1>2, <2>1
<1>7. QED
  BY <1>2, <1>3, <1>5, <1>6 DEF st

\* all is h, k, b and some more behind each other.
Parts(all, h, k, b) ==
    /\ all \in Text /\ Len(all) >= Len(h) + Len(k) + Len(b)
    /\ \A i \in 1..Len(h) : all[i] = h[i]
    /\ \A i \in 1..Len(k) : all[Len(h) + i] = k[i]
    /\ \A i \in 1..Len(b) : all[Len(h) + Len(k) + i] = b[i]

\* The elements of the parts of a text.
LEMMA PartsOf ==
    ASSUME NEW h \in Text, NEW k \in Text, NEW b \in Text, NEW r \in Text
    PROVE  Parts(((h \o k) \o b) \o r, h, k, b)
<1> DEFINE hk == h \o k
           hkb == hk \o b
           all == hkb \o r
<1>1. /\ hk \in Text /\ Len(hk) = Len(h) + Len(k)
      /\ \A i \in 1..Len(h) : hk[i] = h[i]
      /\ \A i \in 1..Len(k) : hk[Len(h) + i] = k[i]
  BY TextConcat
<1> HIDE DEF hk
<1>2. /\ hkb \in Text /\ Len(hkb) = Len(hk) + Len(b)
      /\ \A i \in 1..Len(hk) : hkb[i] = hk[i]
      /\ \A i \in 1..Len(b) : hkb[Len(hk) + i] = b[i]
  BY <1>1, TextConcat
<1> HIDE DEF hkb
<1>4. /\ all \in Text /\ Len(all) = Len(hkb) + Len(r)
      /\ \A i \in 1..Len(hkb) : all[i] = hkb[i]
  <2>1. hkb \in Text
    BY <1>2
  <2>2. QED
    BY <2>1, TextConcat
<1> HIDE DEF all
<1>5. Len(h) \in Nat /\ Len(k) \in Nat /\ Len(b) \in Nat /\ Len(r) \in Nat
  BY TextIs
<1>6. ASSUME NEW i \in 1..Len(h) PROVE all[i] = h[i]
  <2>1. i \in 1..Len(hk) /\ i \in 1..Len(hkb)
    BY <1>1, <1>2, <1>5
  <2>2. QED
    BY <1>1, <1>2, <1>4, <2>1
<1>7. ASSUME NEW i \in 1..Len(k) PROVE all[Len(h) + i] = k[i]
  <2>1. Len(h) + i \in 1..Len(hk) /\ Len(h) + i \in 1..Len(hkb)
    BY <1>1, <1>2, <1>5
  <2>2. QED
    BY <1>1, <1>2, <1>4, <2>1
<1>8. ASSUME NEW i \in 1..Len(b) PROVE all[Len(h) + Len(k) + i] = b[i]
  <2>1. Len(hk) + i \in 1..Len(hkb) /\ Len(hk) + i = Len(h) + Len(k) + i
    BY <1>1, <1>2, <1>5
  <2>2. QED
    BY <1>2, <1>4, <2>1
<1>9. QED
  BY <1>1, <1>2, <1>4, <1>5, <1>6, <1>7, <1>8 DEF Parts, all, hkb, hk

\* The bytes of a buffer, from behind a frame's header.
LEMMA ByteAtIs ==
    ASSUME NEW buffer \in Text, NEW i \in Nat
    PROVE  /\ ByteAt(buffer, i) \in Byte
           /\ i < Len(buffer) => ByteAt(buffer, i) = buffer[i + 1]
<1>1. CASE i < Len(buffer)
  <2>1. i + 1 \in 1..Len(buffer)
    BY <1>1, TextIs
  <2>2. buffer[i + 1] \in Byte
    BY <2>1, TextIs
  <2>3. QED
    BY <1>1, <2>2 DEF ByteAt
<1>2. CASE ~ (i < Len(buffer))
  BY <1>2 DEF ByteAt, Unread, Byte
<1>3. QED
  BY <1>1, <1>2

\* The two or four bytes in front of the mask, or of the payload of a server's frame.
WireHeader(n, bit) == <<WS_FIN_BINARY>> \o (IF n > 125 THEN <<bit + 126, n \div 256, n % 256>>
                                       ELSE <<bit + n>>)

\* Those bytes.
LEMMA WireHeaderIs ==
    ASSUME NEW n \in Nat, n \div 256 \in Byte, NEW bit \in {0, 128}
    PROVE  /\ WireHeader(n, bit) \in Text
           /\ n <= 125 => Len(WireHeader(n, bit)) = 2 /\ WireHeader(n, bit)[2] = bit + n
           /\ n > 125 => /\ Len(WireHeader(n, bit)) = 4 /\ WireHeader(n, bit)[2] = bit + 126
                         /\ WireHeader(n, bit)[3] * 256 + WireHeader(n, bit)[4] = n
<1>1. n \div 256 \in Byte /\ n % 256 \in Byte /\ (n \div 256) * 256 + (n % 256) = n
  BY SMT DEF Byte
<1> DEFINE f == <<WS_FIN_BINARY>>
           g == IF n > 125 THEN <<bit + 126, n \div 256, n % 256>> ELSE <<bit + n>>
<1>2. WireHeader(n, bit) = f \o g
  BY Zenon DEF WireHeader
<1>3. f \in Text /\ Len(f) = 1
  BY DEF WS_FIN_BINARY, Byte, Text
<1>4. n <= 125 => g \in Text /\ Len(g) = 1 /\ g[1] = bit + n
  <2> SUFFICES ASSUME n <= 125 PROVE g \in Text /\ Len(g) = 1 /\ g[1] = bit + n
    OBVIOUS
  <2>1. g = <<bit + n>> /\ bit + n \in Byte
    BY DEF Byte
  <2>2. QED
    BY <2>1 DEF Text
<1>5. n > 125 => g \in Text /\ Len(g) = 3 /\ g[1] = bit + 126 /\ g[2] * 256 + g[3] = n
  <2> SUFFICES ASSUME n > 125
               PROVE  g \in Text /\ Len(g) = 3 /\ g[1] = bit + 126 /\ g[2] * 256 + g[3] = n
    OBVIOUS
  <2>1. g = <<bit + 126, n \div 256, n % 256>> /\ bit + 126 \in Byte
    BY DEF Byte
  <2>2. g \in Text /\ Len(g) = 3 /\ g[1] = bit + 126 /\ g[2] = n \div 256 /\ g[3] = n % 256
    BY <1>1, <2>1 DEF Text
  <2>3. QED
    BY <1>1, <2>2
<1> HIDE DEF f, g
<1>6. g \in Text /\ Len(g) \in {1, 3}
  BY <1>4, <1>5
<1> DEFINE fg == f \o g
<1> HIDE DEF fg
<1>7. WireHeader(n, bit) = fg
  BY <1>2 DEF fg
<1>8. fg \in Text /\ Len(fg) = 1 + Len(g) /\ \A i \in 1..Len(g) : fg[1 + i] = g[i]
  <2>1. f \in Text /\ g \in Text
    BY <1>3, <1>6
  <2>2. /\ fg \in Text /\ Len(fg) = Len(f) + Len(g)
        /\ \A i \in 1..Len(g) : fg[Len(f) + i] = g[i]
    BY <2>1, TextConcat DEF fg
  <2>3. QED
    BY <1>3, <2>2
<1>9. n <= 125 => Len(fg) = 2 /\ fg[2] = bit + n
  <2> SUFFICES ASSUME n <= 125 PROVE Len(fg) = 2 /\ fg[2] = bit + n
    OBVIOUS
  <2>1. Len(g) = 1 /\ g[1] = bit + n
    BY <1>4
  <2>2. fg[1 + 1] = g[1] /\ Len(fg) = 2
    BY <1>8, <2>1
  <2>3. QED
    BY <2>1, <2>2
<1>10. n > 125 => Len(fg) = 4 /\ fg[2] = bit + 126 /\ fg[3] * 256 + fg[4] = n
  <2> SUFFICES ASSUME n > 125 PROVE Len(fg) = 4 /\ fg[2] = bit + 126 /\ fg[3] * 256 + fg[4] = n
    OBVIOUS
  <2>1. fg[1 + 1] = g[1] /\ fg[1 + 2] = g[2] /\ fg[1 + 3] = g[3]
    <3>1. Len(g) = 3 /\ 1 \in 1..3 /\ 2 \in 1..3 /\ 3 \in 1..3
      BY <1>5
    <3>2. \A i \in 1..3 : fg[1 + i] = g[i]
      BY <1>8, <3>1
    <3>3. QED
      BY <3>1, <3>2
  <2>2. fg[2] = g[1] /\ fg[3] = g[2] /\ fg[4] = g[3]
    BY <2>1
  <2>3. QED
    <3>1. Len(g) = 3 /\ g[1] = bit + 126 /\ g[2] * 256 + g[3] = n
      BY <1>5
    <3>2. Len(fg) = 4
      BY <1>8, <3>1
    <3>3. QED
      BY <2>2, <3>1, <3>2
<1>11. QED
  BY <1>7, <1>8, <1>9, <1>10

\* The mask of a byte, and the masked bytes.
LEMMA MaskedIs ==
    ASSUME NEW payload \in Text, NEW mask \in Text, Len(mask) = 4
    PROVE  /\ Masked(payload, mask) \in Text
           /\ Len(Masked(payload, mask)) = Len(payload)
           /\ \A i \in 1..Len(payload) :
                  /\ (i - 1) % 4 \in 0..3 /\ mask[((i - 1) % 4) + 1] \in Byte /\ payload[i] \in Byte
                  /\ Masked(payload, mask)[i] = Xor(payload[i], mask[((i - 1) % 4) + 1])
<1>1. Len(payload) \in Nat /\ DOMAIN payload = 1..Len(payload)
  BY TextIs
<1>2. ASSUME NEW i \in 1..Len(payload)
      PROVE  /\ (i - 1) % 4 \in 0..3 /\ mask[((i - 1) % 4) + 1] \in Byte /\ payload[i] \in Byte
             /\ Xor(payload[i], mask[((i - 1) % 4) + 1]) \in Byte
  <2>1. (i - 1) % 4 \in 0..3
    BY <1>1
  <2>2. ((i - 1) % 4) + 1 \in 1..Len(mask)
    BY <2>1
  <2>3. mask[((i - 1) % 4) + 1] \in Byte /\ payload[i] \in Byte
    BY <2>2, TextIs
  <2>4. QED
    BY <2>1, <2>3, XorTwice
<1>3. Masked(payload, mask) \in [1..Len(payload) -> Byte]
  BY <1>1, <1>2 DEF Masked
<1>4. Masked(payload, mask) \in Text /\ Len(Masked(payload, mask)) = Len(payload)
  <2> DEFINE m == Masked(payload, mask)
  <2> HIDE DEF m
  <2>1. m \in [1..Len(payload) -> Byte]
    BY <1>3 DEF m
  <2>2. m \in Seq(Byte) /\ Len(m) = Len(payload)
    BY <1>1, <2>1
  <2>3. QED
    BY <2>2 DEF m, Text
<1>5. QED
  BY <1>1, <1>2, <1>4 DEF Masked

\* The parts of a frame of the client.
LEMMA FrameIs ==
    ASSUME NEW payload \in Text, NEW mask \in Text, Len(payload) \div 256 \in Byte
    PROVE  Frame(payload, mask)
               = (WireHeader(Len(payload), 128) \o mask) \o Masked(payload, mask)
<1> DEFINE n == Len(payload)
<1>1. n \in Nat /\ (n \div 256) % 256 = n \div 256
  <2>1. n \in Nat
    BY TextIs
  <2>2. n \div 256 \in 0..255
    BY DEF Byte
  <2> HIDE DEF n
  <2>3. QED
    BY <2>1, <2>2, SMT
<1>2. Header(n, mask) = WireHeader(n, 128) \o mask
  BY <1>1 DEF Header, WireHeader, WS_MASK
<1>3. QED
  BY <1>2 DEF Frame

\* The parts of a frame of the server.
LEMMA ServerFrameIs ==
    ASSUME NEW payload \in Text
    PROVE  ServerFrame(payload) = WireHeader(Len(payload), 0) \o payload
<1>1. Len(payload) \in Nat
  BY TextIs
<1>2. 0 + 126 = 126 /\ 0 + Len(payload) = Len(payload)
  BY <1>1
<1>3. QED
  BY <1>2 DEF ServerFrame, WireHeader

\* buffer begins with the bytes of h.
Begins(buffer, h) == Len(h) <= Len(buffer) /\ \A i \in 1..Len(h) : buffer[i] = h[i]

\* The length that buffer gives, in front of which there are h bytes.
GivesLength(buffer, n, bit, h) ==
    /\ PayloadLength(buffer) = n /\ LengthEnd(buffer) = h
    /\ (IsMasked(buffer) <=> (bit = 128))
    /\ n <= 125 => buffer[2] = bit + n /\ h = 2
    /\ n > 125 => buffer[2] = bit + 126 /\ h = 4 /\ buffer[3] * 256 + buffer[4] = n

\* What follows from the bytes of the length, with or without the bit of the mask.
LEMMA LengthIs ==
    ASSUME NEW buffer \in Text, NEW n \in Nat, n \div 256 \in Byte, NEW bit \in {0, 128},
           Begins(buffer, WireHeader(n, bit))
    PROVE  GivesLength(buffer, n, bit, Len(WireHeader(n, bit)))
<1> DEFINE h == WireHeader(n, bit)
<1>1. /\ h \in Text
      /\ n <= 125 => Len(h) = 2 /\ h[2] = bit + n
      /\ n > 125 => Len(h) = 4 /\ h[2] = bit + 126 /\ h[3] * 256 + h[4] = n
  BY WireHeaderIs
<1>2. Len(h) <= Len(buffer) /\ \A i \in 1..Len(h) : buffer[i] = h[i]
  BY DEF Begins
<1> HIDE DEF h
<1>3. CASE n <= 125
  <2>1. Len(h) = 2 /\ 1 < Len(buffer) /\ buffer[2] = bit + n
    <3>1. Len(h) = 2 /\ h[2] = bit + n
      BY <1>1, <1>3
    <3>2. buffer[2] = h[2] /\ 2 <= Len(buffer) /\ Len(buffer) \in Nat
      BY <1>2, <3>1, TextIs
    <3>3. QED
      BY <3>1, <3>2
  <2>2. ByteAt(buffer, 1) = bit + n
    BY <2>1 DEF ByteAt
  <2>3. ShortLength(buffer) = n /\ (IsMasked(buffer) <=> (bit = 128))
    BY <1>3, <2>2 DEF ShortLength, IsMasked
  <2>4. PayloadLength(buffer) = n /\ LengthEnd(buffer) = 2
    BY <1>3, <2>3 DEF PayloadLength, LengthEnd
  <2>5. QED
    BY <1>3, <2>1, <2>3, <2>4 DEF h, GivesLength
<1>4. CASE n > 125
  <2>1. Len(h) = 4 /\ 3 < Len(buffer) /\ buffer[2] = bit + 126 /\ buffer[3] * 256 + buffer[4] = n
    <3>1. Len(h) = 4 /\ h[2] = bit + 126 /\ h[3] * 256 + h[4] = n
      BY <1>1, <1>4
    <3>2. buffer[2] = h[2] /\ buffer[3] = h[3] /\ buffer[4] = h[4]
      BY <1>2, <3>1
    <3>3. 4 <= Len(buffer) /\ Len(buffer) \in Nat
      BY <1>2, <3>1, TextIs
    <3>4. QED
      BY <3>1, <3>2, <3>3
  <2>2. ByteAt(buffer, 1) = bit + 126 /\ ByteAt(buffer, 2) * 256 + ByteAt(buffer, 3) = n
    BY <2>1 DEF ByteAt
  <2>3. ShortLength(buffer) = 126 /\ (IsMasked(buffer) <=> (bit = 128))
    BY <2>2 DEF ShortLength, IsMasked
  <2>4. PayloadLength(buffer) = n /\ LengthEnd(buffer) = 4
    BY <2>2, <2>3 DEF PayloadLength, LengthEnd
  <2>5. QED
    BY <1>4, <2>1, <2>3, <2>4 DEF h, GivesLength
<1>5. QED
  BY <1>3, <1>4


\* The first four bytes that unmasking writes are those that were masked.
LEMMA UnmaskedStart ==
    ASSUME NEW buffer \in Text, PayloadLength(buffer) \in Nat, LengthEnd(buffer) \in Nat,
           LengthEnd(buffer) > 0
    PROVE  \A i \in 1..4 :
               i <= PayloadLength(buffer) =>
                   Unmasked(buffer)[i] = Xor(ByteAt(buffer, LengthEnd(buffer) + 3 + i),
                                             ByteAt(buffer, LengthEnd(buffer) + ((i - 1) % 4)))
<1> DEFINE n == PayloadLength(buffer)
           key == LengthEnd(buffer)
           S == [0..n - 1 -> Byte]
           Val(i, f) == LET k == key + (i % 4)
                        IN  Xor(ByteAt(buffer, key + 4 + i),
                                IF k < i THEN f[k] ELSE ByteAt(buffer, k))
           F(f) == [i \in 0..n - 1 |-> Val(i, f)]
           out == CHOOSE f : f = F(f)
           g == [p \in (1..n) \X S |-> [p[2] EXCEPT ![p[1] - 1] = Val(p[1] - 1, p[2])]]
           start == [i \in 0..n - 1 |-> 0]
<1>1. n \in Nat /\ key \in Nat /\ key > 0
  OBVIOUS
<1> HIDE DEF n, key
<1>2. \A i \in 0..n - 1 : i % 4 \in 0..3 /\ key + (i % 4) \in Nat /\ key + 4 + i \in Nat
  BY <1>1
<1>3. ASSUME NEW i \in 0..n - 1, NEW f \in S PROVE Val(i, f) \in Byte
  <2> DEFINE k == key + (i % 4)
  <2>1. ByteAt(buffer, key + 4 + i) \in Byte /\ ByteAt(buffer, k) \in Byte
    BY <1>2, ByteAtIs
  <2>2. k \in Nat /\ (k < i => k \in 0..n - 1)
    BY <1>1, <1>2
  <2>3. (IF k < i THEN f[k] ELSE ByteAt(buffer, k)) \in Byte
    BY <2>1, <2>2
  <2>4. QED
    BY <2>1, <2>3, XorTwice
<1>4. ASSUME NEW i \in 0..n - 1, NEW e \in S, NEW f \in S, \A j \in 0..i - 1 : e[j] = f[j]
      PROVE  Val(i, e) = Val(i, f)
  <2> DEFINE k == key + (i % 4)
  <2>1. k \in Nat /\ (k < i => k \in 0..i - 1)
    BY <1>1, <1>2
  <2>2. k < i => e[k] = f[k]
    BY <1>4, <2>1
  <2>3. QED
    BY <2>2
<1>5. g \in [(1..n) \X S -> S]
  <2>1. ASSUME NEW m \in 1..n, NEW f \in S PROVE [f EXCEPT ![m - 1] = Val(m - 1, f)] \in S
    <3>1. m - 1 \in 0..n - 1
      BY <1>1
    <3>2. Val(m - 1, f) \in Byte
      BY <1>3, <3>1
    <3> HIDE DEF Val
    <3>3. QED
      BY <3>2
  <2> HIDE DEF S, Val
  <2>2. QED
    BY <2>1
<1>6. start \in S
  BY DEF Byte
<1> HIDE DEF g, start
<1>7. PICK h \in [0..n -> S] : Follows(h, n, start, g)
  <2> HIDE DEF S
  <2>1. QED
    BY <1>1, <1>5, <1>6, RecursionExists
<1>8. ASSUME NEW m \in 0..n - 1
      PROVE  /\ h[m] \in S /\ h[m + 1] \in S /\ h[m + 1][m] = Val(m, h[m])
             /\ \A i \in 0..m - 1 : h[m + 1][i] = h[m][i]
  <2>1. m \in 0..n /\ m + 1 \in 1..n /\ m + 1 \in 0..n /\ (m + 1) - 1 = m
    BY <1>1
  <2>2. h[m] \in S /\ h[m + 1] \in S
    BY <2>1
  <2>3. h[m + 1] = g[<<m + 1, h[m]>>]
    BY <1>7, <2>1 DEF Follows
  <2>4. g[<<m + 1, h[m]>>] = [h[m] EXCEPT ![m] = Val(m, h[m])]
    <3> HIDE DEF Val, S
    <3>1. QED
      BY <2>1, <2>2 DEF g
  <2> HIDE DEF Val
  <2>5. QED
    BY <2>1, <2>2, <2>3, <2>4
<1> DEFINE T == {m \in Nat : m <= n => \A i \in 0..m - 1 : h[m][i] = Val(i, h[m])}
<1>9. 0 \in T
  OBVIOUS
<1>10. ASSUME NEW m \in T PROVE m + 1 \in T
  <2> SUFFICES ASSUME m + 1 <= n, NEW i \in 0..m PROVE h[m + 1][i] = Val(i, h[m + 1])
    <3>1. m \in Nat /\ m + 1 \in Nat /\ (m + 1) - 1 = m
      OBVIOUS
    <3> HIDE DEF Val
    <3>2. QED
      BY <3>1
  <2>1. m \in Nat /\ m \in 0..n - 1 /\ i \in 0..n - 1
    BY <1>1
  <2>5. m <= n => \A j \in 0..m - 1 : h[m][j] = Val(j, h[m])
    <3> HIDE DEF Val
    <3>1. QED
      OBVIOUS
  <2> HIDE DEF S
  <2>2. Val(i, h[m + 1]) = Val(i, h[m])
    <3>1. \A j \in 0..i - 1 : j \in 0..m - 1
      BY <2>1
    <3>2. \A j \in 0..i - 1 : h[m + 1][j] = h[m][j]
      BY <1>8, <2>1, <3>1
    <3>3. h[m + 1] \in S /\ h[m] \in S
      BY <1>8, <2>1
    <3> HIDE DEF Val
    <3>4. QED
      BY <1>4, <2>1, <3>2, <3>3
  <2>3. h[m + 1][i] = Val(i, h[m])
    <3> HIDE DEF Val
    <3>1. CASE i = m
      BY <1>8, <2>1, <3>1
    <3>2. CASE i # m
      <4>1. i \in 0..m - 1
        BY <2>1, <3>2
      <4>2. h[m + 1][i] = h[m][i]
        BY <1>8, <2>1, <4>1
      <4>3. h[m][i] = Val(i, h[m])
        BY <1>1, <2>1, <2>5, <4>1
      <4>4. QED
        BY <4>2, <4>3
    <3>3. QED
      BY <3>1, <3>2
  <2>4. QED
    BY <2>2, <2>3, Zenon
<1>11. T = Nat
  <2>1. T \in SUBSET Nat
    OBVIOUS
  <2> HIDE DEF T
  <2>2. QED
    BY <1>9, <1>10, <2>1, Induction
<1>12. h[n] \in S /\ \A i \in 0..n - 1 : h[n][i] = Val(i, h[n])
  <2> HIDE DEF Val, S
  <2>1. n \in T /\ n \in 0..n
    BY <1>1, <1>11
  <2>2. QED
    BY <2>1
<1>13. h[n] = F(h[n])
  <2> DEFINE e == h[n]
  <2>1. e = [i \in 0..n - 1 |-> e[i]]
    BY <1>12
  <2> HIDE DEF e, Val
  <2>2. [i \in 0..n - 1 |-> e[i]] = [i \in 0..n - 1 |-> Val(i, e)]
    BY <1>12 DEF e
  <2>3. QED
    BY <2>1, <2>2 DEF e
<1>14. out = F(out)
  <2> HIDE DEF F
  <2>1. QED
    BY <1>13
<1>15. Unmasked(buffer) = [i \in 1..n |-> out[i - 1]]
  BY DEF Unmasked, n, key
<1> HIDE DEF out
<1>16. ASSUME NEW i \in 1..4, i <= n
       PROVE  Unmasked(buffer)[i] = Xor(ByteAt(buffer, key + 3 + i), ByteAt(buffer, key + ((i - 1) % 4)))
  <2>1. i - 1 \in 0..n - 1 /\ i \in 1..n /\ (i - 1) % 4 = i - 1 /\ key + 4 + (i - 1) = key + 3 + i
        /\ ~ (key + ((i - 1) % 4) < i - 1)
    <3>1. i \in {1, 2, 3, 4}
      OBVIOUS
    <3>2. (i - 1) % 4 = i - 1
      BY <3>1
    <3>3. QED
      BY <1>1, <1>16, <3>2
  <2>2. Unmasked(buffer)[i] = out[i - 1]
    BY <1>15, <2>1
  <2>3. out[i - 1] = Val(i - 1, out)
    <3> HIDE DEF Val
    <3>1. QED
      BY <1>14, <2>1
  <2>4. Val(i - 1, out) = Xor(ByteAt(buffer, key + 4 + (i - 1)), ByteAt(buffer, key + ((i - 1) % 4)))
    BY <2>1
  <2>5. QED
    BY <2>1, <2>2, <2>3, <2>4
<1>17. QED
  BY <1>16 DEF n, key

\* A server reads back what ws_write has written.
LEMMA ServerReadsBack ==
    ASSUME NEW payload \in Text, NEW mask \in Text, NEW behind \in Text,
           Len(payload) \div 256 \in Byte, Len(mask) = 4
    PROVE  /\ ServerReads(Frame(payload, mask) \o behind)
                  = [payload |-> payload, next |-> Len(Frame(payload, mask)) + 1]
           /\ LET masked == Read(Frame(payload, mask) \o behind)
              IN  /\ masked.length = Len(payload)
                  /\ \A i \in 1..4 : i <= masked.length => masked.data[i] = payload[i]
<1> DEFINE n == Len(payload)
           h == WireHeader(n, 128)
           coded == Masked(payload, mask)
           bytes == Frame(payload, mask) \o behind
<1>1. n \in Nat
  BY TextIs
<1>2. h \in Text /\ Len(h) \in {2, 4}
  <2>1. n \in Nat /\ n \div 256 \in Byte /\ 128 \in {0, 128}
    BY <1>1
  <2>2. WireHeader(n, 128) \in Text /\ (n <= 125 => Len(WireHeader(n, 128)) = 2)
        /\ (n > 125 => Len(WireHeader(n, 128)) = 4)
    BY <2>1, WireHeaderIs
  <2>3. QED
    BY <1>1, <2>2
<1>3. coded \in Text /\ Len(coded) = n
      /\ \A i \in 1..n : /\ (i - 1) % 4 \in 0..3 /\ mask[((i - 1) % 4) + 1] \in Byte
                         /\ payload[i] \in Byte
                         /\ coded[i] = Xor(payload[i], mask[((i - 1) % 4) + 1])
  BY MaskedIs
<1>4. bytes = ((h \o mask) \o coded) \o behind
  BY FrameIs
<1>5. Len(Frame(payload, mask)) = Len(h) + 4 + n
  <2>1. Frame(payload, mask) = (h \o mask) \o coded
    BY FrameIs
  <2> DEFINE hm == h \o mask
  <2>2. h \in Text /\ coded \in Text /\ Len(coded) = n
    BY <1>2, <1>3
  <2> HIDE DEF h, coded, n
  <2>3. hm \in Text /\ Len(hm) = Len(h) + Len(mask)
    <3>1. h \in Text
      BY <2>2
    <3>2. QED
      BY <3>1, TextConcat
  <2> HIDE DEF hm
  <2>4. Len(hm \o coded) = Len(hm) + n
    BY <2>2, <2>3, TextConcat
  <2>5. QED
    BY <2>1, <2>3, <2>4 DEF hm
<1> HIDE DEF h, coded, bytes
<1>6. /\ bytes \in Text /\ Len(bytes) >= Len(h) + Len(mask) + Len(coded)
      /\ \A i \in 1..Len(h) : bytes[i] = h[i]
      /\ \A i \in 1..Len(mask) : bytes[Len(h) + i] = mask[i]
      /\ \A i \in 1..Len(coded) : bytes[Len(h) + Len(mask) + i] = coded[i]
  <2>1. h \in Text /\ coded \in Text
    BY <1>2, <1>3
  <2>2. Parts(((h \o mask) \o coded) \o behind, h, mask, coded)
    BY <2>1, PartsOf, Zenon
  <2>3. Parts(bytes, h, mask, coded)
    BY <1>4, <2>2
  <2>4. QED
    BY <2>3, Zenon DEF Parts
<1>7. Len(behind) \in Nat
  BY TextIs
<1>8. /\ PayloadLength(bytes) = n /\ LengthEnd(bytes) = Len(h) /\ IsMasked(bytes)
      /\ n <= 125 => bytes[2] = 128 + n /\ Len(h) = 2
      /\ n > 125 => bytes[2] = 128 + 126 /\ Len(h) = 4 /\ bytes[3] * 256 + bytes[4] = n
  <2>1. Len(h) <= Len(bytes)
    BY <1>1, <1>2, <1>3, <1>6, <1>7
  <2> DEFINE bit == 128
             w == WireHeader(n, bit)
  <2>2. bit \in {0, 128} /\ n \div 256 \in Byte
    OBVIOUS
  <2> HIDE DEF n, bit
  <2>3. h = w
    BY DEF h, bit
  <2>4. bytes \in Text /\ Begins(bytes, w)
    BY <1>6, <2>1, <2>3 DEF Begins
  <2>5. GivesLength(bytes, n, bit, Len(w))
    BY <1>1, <2>2, <2>4, LengthIs
  <2>6. GivesLength(bytes, n, 128, Len(h))
    BY <2>3, <2>5 DEF bit
  <2>7. QED
    BY <2>6 DEF GivesLength
<1>9. ASSUME NEW j \in 0..3 PROVE ByteAt(bytes, Len(h) + j) = mask[j + 1]
  <2>1. Len(h) + j < Len(bytes) /\ j + 1 \in 1..Len(mask) /\ Len(h) + j + 1 = Len(h) + (j + 1)
    BY <1>1, <1>2, <1>3, <1>6, <1>7
  <2>2. bytes[Len(h) + (j + 1)] = mask[j + 1]
    BY <1>6, <2>1
  <2>3. QED
    BY <2>1, <2>2 DEF ByteAt
<1>10. ASSUME NEW i \in 1..n PROVE ByteAt(bytes, Len(h) + 3 + i) = coded[i]
  <2>1. Len(h) + 3 + i < Len(bytes) /\ i \in 1..Len(coded)
        /\ Len(h) + 3 + i + 1 = Len(h) + Len(mask) + i
    BY <1>1, <1>2, <1>3, <1>6, <1>7
  <2>2. bytes[Len(h) + Len(mask) + i] = coded[i]
    BY <1>6, <2>1
  <2>3. QED
    BY <2>1, <2>2 DEF ByteAt
<1>11. ASSUME NEW i \in 1..n, NEW k, k = Len(h) + ((i - 1) % 4)
       PROVE  Xor(ByteAt(bytes, Len(h) + 3 + i), ByteAt(bytes, k)) = payload[i]
  <2>1. ByteAt(bytes, k) = mask[((i - 1) % 4) + 1]
    BY <1>3, <1>9, <1>11
  <2>2. ByteAt(bytes, Len(h) + 3 + i) = Xor(payload[i], mask[((i - 1) % 4) + 1])
    BY <1>3, <1>10
  <2>3. payload[i] \in Byte /\ mask[((i - 1) % 4) + 1] \in Byte
    BY <1>3
  <2>4. QED
    BY <2>1, <2>2, <2>3, XorTwice
<1>12. payload = [i \in 1..n |-> payload[i]]
  BY TextIs
<1>13. ServerReads(bytes) = [payload |-> payload, next |-> Len(Frame(payload, mask)) + 1]
  <2> DEFINE m == bytes[2] - 128
             long == m = 126
             length == IF long THEN bytes[3] * 256 + bytes[4] ELSE m
             key == IF long THEN 5 ELSE 3
             served == [i \in 1..length |-> Xor(ByteAt(bytes, key + 2 + i),
                                                ByteAt(bytes, key - 1 + ((i - 1) % 4)))]
  <2>1. length = n /\ key = Len(h) + 1
    <3>1. CASE n <= 125
      <4>1. bytes[2] = 128 + n /\ Len(h) = 2
        BY <1>8, <3>1
      <4>2. m = n /\ ~ long
        <5> HIDE DEF n
        <5>1. QED
          BY <1>1, <3>1, <4>1
      <4>3. QED
        BY <1>1, <4>1, <4>2
    <3>2. CASE n > 125
      <4>1. bytes[2] = 128 + 126 /\ Len(h) = 4 /\ bytes[3] * 256 + bytes[4] = n
        BY <1>8, <3>2
      <4>2. QED
        BY <1>1, <3>2, <4>1
    <3>3. QED
      BY <1>1, <3>1, <3>2
  <2> HIDE DEF length, key
  <2>2. ASSUME NEW i \in 1..n PROVE served[i] = payload[i]
    <3>1. key + 2 + i = Len(h) + 3 + i /\ key - 1 + ((i - 1) % 4) = Len(h) + ((i - 1) % 4)
      BY <1>1, <1>2, <1>3, <2>1
    <3>2. served[i] = Xor(ByteAt(bytes, Len(h) + 3 + i), ByteAt(bytes, Len(h) + ((i - 1) % 4)))
      BY <2>1, <3>1
    <3>3. QED
      BY <1>11, <3>2
  <2>3. served = payload
    <3>1. served = [i \in 1..n |-> served[i]]
      BY <2>1
    <3> HIDE DEF served
    <3>2. [i \in 1..n |-> served[i]] = [i \in 1..n |-> payload[i]]
      BY <2>2
    <3>3. QED
      BY <1>12, <3>1, <3>2
  <2>4. key + 4 + length = Len(Frame(payload, mask)) + 1
    BY <1>1, <1>2, <1>5, <2>1
  <2>5. ServerReads(bytes) = [payload |-> served, next |-> key + 4 + length]
    BY DEF ServerReads, length, key, served
  <2> HIDE DEF served
  <2>6. QED
    BY <2>3, <2>4, <2>5
<1>14. Read(bytes).length = n /\ Read(bytes).data = Unmasked(bytes)
  BY <1>8 DEF Read
<1>15. ASSUME NEW i \in 1..4, i <= n PROVE Unmasked(bytes)[i] = payload[i]
  <2>1. PayloadLength(bytes) \in Nat /\ LengthEnd(bytes) \in Nat /\ LengthEnd(bytes) > 0
        /\ bytes \in Text /\ i <= PayloadLength(bytes) /\ LengthEnd(bytes) = Len(h)
    BY <1>1, <1>2, <1>6, <1>8, <1>15
  <2>2. Unmasked(bytes)[i] = Xor(ByteAt(bytes, Len(h) + 3 + i), ByteAt(bytes, Len(h) + ((i - 1) % 4)))
    BY <2>1, UnmaskedStart
  <2>3. i \in 1..n
    BY <1>1, <1>15
  <2>4. QED
    BY <1>11, <2>2, <2>3
<1>16. QED
  BY <1>13, <1>14, <1>15 DEF bytes

\* The frame of a server is read back.
LEMMA ClientReadsBack ==
    ASSUME NEW payload \in Text, NEW behind \in Text, Len(payload) \div 256 \in Byte
    PROVE  Read(ServerFrame(payload) \o behind)
               = [length |-> Len(payload), data |-> payload]
<1> DEFINE n == Len(payload)
           bit == 0
           h == WireHeader(n, bit)
           bytes == ServerFrame(payload) \o behind
<1>1. n \in Nat /\ n \div 256 \in Byte /\ bit \in {0, 128}
  BY TextIs
<1>3. bytes = (h \o payload) \o behind
  BY ServerFrameIs
<1> HIDE DEF n, bytes, bit
<1>4. h \in Text /\ Len(h) \in {2, 4}
  <2>1. h \in Text /\ (n <= 125 => Len(h) = 2) /\ (n > 125 => Len(h) = 4)
    BY <1>1, WireHeaderIs
  <2>2. QED
    BY <1>1, <2>1
<1>5. LET hp == h \o payload
      IN  /\ hp \in Text /\ Len(hp) = Len(h) + n
          /\ \A i \in 1..Len(h) : hp[i] = h[i]
          /\ \A i \in 1..n : hp[Len(h) + i] = payload[i]
  <2> HIDE DEF h
  <2>1. QED
    BY <1>4, TextConcat DEF n
<1> DEFINE hp == h \o payload
<1>6. /\ hp \in Text /\ Len(hp) = Len(h) + n
      /\ \A i \in 1..Len(h) : hp[i] = h[i]
      /\ \A i \in 1..n : hp[Len(h) + i] = payload[i]
  BY <1>5, Zenon
<1> HIDE DEF hp
<1>7. /\ bytes \in Text /\ Len(bytes) = Len(hp) + Len(behind)
      /\ \A i \in 1..Len(hp) : bytes[i] = hp[i]
  <2>1. bytes = hp \o behind
    BY <1>3 DEF hp
  <2>2. hp \in Text
    BY <1>6
  <2>3. QED
    BY <2>1, <2>2, TextConcat
<1>8. Len(behind) \in Nat
  BY TextIs
<1>9. Begins(bytes, h)
  <2> HIDE DEF h
  <2>1. Len(h) <= Len(bytes)
    BY <1>1, <1>4, <1>6, <1>7, <1>8
  <2>2. ASSUME NEW i \in 1..Len(h) PROVE bytes[i] = h[i]
    <3>1. i \in 1..Len(hp)
      BY <1>1, <1>4, <1>6
    <3>2. QED
      BY <1>6, <1>7, <3>1
  <2>3. QED
    BY <2>1, <2>2 DEF Begins
<1>10. GivesLength(bytes, n, bit, Len(h))
  BY <1>1, <1>7, <1>9, LengthIs
<1> HIDE DEF h
<1>11. PayloadLength(bytes) = n /\ LengthEnd(bytes) = Len(h) /\ ~ IsMasked(bytes)
  BY <1>10 DEF GivesLength, bit
<1>12. ASSUME NEW i \in 1..n PROVE ByteAt(bytes, Len(h) + i - 1) = payload[i]
  <2>1. Len(h) + i - 1 < Len(bytes) /\ Len(h) + i \in 1..Len(hp) /\ Len(h) + i - 1 + 1 = Len(h) + i
    BY <1>1, <1>4, <1>6, <1>7, <1>8
  <2>2. bytes[Len(h) + i] = payload[i]
    BY <1>6, <1>7, <2>1
  <2>3. QED
    BY <2>1, <2>2 DEF ByteAt
<1>13. payload = [i \in 1..n |-> payload[i]]
  BY TextIs DEF n
<1>14. [i \in 1..n |-> ByteAt(bytes, Len(h) + i - 1)] = [i \in 1..n |-> payload[i]]
  BY <1>12
<1>15. Read(bytes) = [length |-> n, data |-> [i \in 1..n |-> ByteAt(bytes, Len(h) + i - 1)]]
  BY <1>11 DEF Read
<1>16. QED
  BY <1>13, <1>14, <1>15 DEF bytes, n

\* FramesReadBack: a frame keeps its payload in either direction, for every payload of up
\* to 65535 bytes, every mask and whatever comes behind the frame.
THEOREM FramesRight == InputSpec => []FramesReadBack
<1>1. InputInv => FramesReadBack
  <2> SUFFICES ASSUME InputInv, Is("frame") PROVE FramesReadBack
    BY DEF FramesReadBack, ServerReadsFrame, FrameReadBack
  <2>1. input.payload \in Text /\ Len(input.payload) <= 65535 /\ input.behind \in Text
        /\ input.mask \in Text /\ Len(input.mask) = 4
    BY InputIsValid, SMT DEF Is, Valid, ValidFrame
  <2>2. Len(input.payload) \div 256 \in Byte
    <3> DEFINE n == Len(input.payload)
    <3>1. n \in Nat /\ n <= 65535
      BY <2>1, TextIs, SMT
    <3> HIDE DEF n
    <3>2. n \div 256 \in 0..255
      BY <3>1, SMT
    <3>3. QED
      BY <3>2 DEF n, Byte
  <2>3. /\ input.payload \in Text /\ input.behind \in Text
        /\ input.mask \in Text /\ Len(input.mask) = 4
    BY <2>1, SMT
  <2>4. ServerReadsFrame
    BY <2>2, <2>3, ServerReadsBack DEF ServerReadsFrame
  <2>5. FrameReadBack
    <3> DEFINE masked == Read(Frame(input.payload, input.mask) \o input.behind)
    <3>1. /\ masked.length = Len(input.payload)
          /\ \A i \in 1..4 : i <= masked.length => masked.data[i] = input.payload[i]
      BY <2>2, <2>3, ServerReadsBack
    <3>2. Read(ServerFrame(input.payload) \o input.behind)
              = [length |-> Len(input.payload), data |-> input.payload]
      BY <2>2, <2>3, ClientReadsBack
    <3>3. QED
      BY <3>1, <3>2 DEF FrameReadBack
  <2>6. QED
    BY <2>4, <2>5 DEF FramesReadBack
<1> QED
  BY <1>1, InputsOnly, PTL

-----------------------------------------------------------------------------
(***************************************************************************)
(* The fixed header of a message.                                          *)
(***************************************************************************)

\* The loops stop behind the first byte without the continuation bit.
LEMMA HeaderEndIs ==
    ASSUME NEW buffer, NEW length \in Nat, NEW i \in 1..length - 1, At(buffer, i) < 128,
           \A j \in 1..i - 1 : ~ (At(buffer, j) < 128)
    PROVE  HeaderEnd(buffer, length) = i + 1
<1> DEFINE last == {j \in 1..length - 1 : At(buffer, j) < 128}
           first == CHOOSE j \in last : \A k \in last : j <= k
<1>1. i \in last
  OBVIOUS
<1>2. ASSUME NEW j \in last PROVE i <= j
  <2>1. ~ (j \in 1..i - 1) /\ j \in Nat /\ i \in Nat /\ j >= 1
    OBVIOUS
  <2>2. QED
    BY <2>1
<1>3. last \subseteq Nat
  OBVIOUS
<1>4. HeaderEnd(buffer, length) = first + 1
  <2>1. last # {}
    BY <1>1
  <2>2. QED
    BY <2>1, Zenon DEF HeaderEnd
<1> HIDE DEF last
<1>5. first \in last /\ \A k \in last : first <= k
  BY <1>1, <1>2
<1>6. first <= i /\ i <= first /\ first \in Nat /\ i \in Nat
  BY <1>1, <1>2, <1>3, <1>5
<1> HIDE DEF first
<1>7. QED
  BY <1>4, <1>6

\* The value of a length field of one, two or three bytes.
LEMMA TotalIs ==
    ASSUME NEW buffer, NEW length, HeaderEnd(buffer, length) \in {2, 3, 4},
           \A k \in 1..HeaderEnd(buffer, length) - 1 : At(buffer, k) \in Byte
    PROVE  LET i == HeaderEnd(buffer, length)
           IN  GetTotalLength(buffer, length)
               = i + (At(buffer, 1) % 128) + (IF i > 2 THEN 128 * (At(buffer, 2) % 128) ELSE 0)
                 + (IF i > 3 THEN 16384 * (At(buffer, 3) % 128) ELSE 0)
<1> DEFINE i == HeaderEnd(buffer, length)
           b(k) == At(buffer, k) % 128
           F(f) == [k \in 1..i |-> IF k = i THEN 0 ELSE b(k) + 128 * f[k + 1]]
           value == CHOOSE f : f = F(f)
           c == IF i > 3 THEN b(3) ELSE 0
           d == IF i > 2 THEN b(2) + 128 * c ELSE 0
           w == [k \in 1..i |-> IF k = 1 THEN b(1) + 128 * d
                                ELSE IF k = 2 THEN d ELSE IF k = 3 THEN c ELSE 0]
<1>11. GetTotalLength(buffer, length) = value[1] + i
  BY DEF GetTotalLength
<1>12. i \in {2, 3, 4} /\ \A k \in 1..i - 1 : At(buffer, k) \in Byte
  OBVIOUS
<1> HIDE DEF i
<1>1. \A k \in 1..i - 1 : b(k) \in Nat
  <2>1. ASSUME NEW k \in 1..i - 1 PROVE b(k) \in Nat
    <3>1. At(buffer, k) \in 0..255
      BY <1>12 DEF Byte
    <3>2. QED
      BY <3>1
  <2>2. QED
    BY <2>1
<1>2. b(1) \in Nat /\ (i > 2 => b(2) \in Nat) /\ (i > 3 => b(3) \in Nat)
  BY <1>1, <1>12
<1> HIDE DEF b
<1>3. w = F(w)
  <2>1. ASSUME NEW k \in 1..i PROVE w[k] = IF k = i THEN 0 ELSE b(k) + 128 * w[k + 1]
    <3>1. CASE i = 2
      BY <1>2, <3>1
    <3>2. CASE i = 3
      BY <1>2, <3>2
    <3>3. CASE i = 4
      BY <1>2, <3>3
    <3>4. QED
      BY <1>12, <3>1, <3>2, <3>3
  <2>2. w = [k \in 1..i |-> w[k]]
    OBVIOUS
  <2> HIDE DEF w
  <2>3. [k \in 1..i |-> w[k]] = [k \in 1..i |-> IF k = i THEN 0 ELSE b(k) + 128 * w[k + 1]]
    BY <2>1
  <2>4. QED
    BY <2>2, <2>3
<1> HIDE DEF w
<1>4. value = F(value)
  <2> HIDE DEF F
  <2>1. QED
    BY <1>3
<1> HIDE DEF value
<1>6. \A k \in 1..i : value[k] = IF k = i THEN 0 ELSE b(k) + 128 * value[k + 1]
  BY <1>4
<1>7. value[1] = b(1) + 128 * d
  <2>1. CASE i = 2
    <3>1. value[1] = b(1) + 128 * value[2] /\ value[2] = 0
      BY <1>6, <2>1
    <3>2. QED
      BY <2>1, <3>1
  <2>2. CASE i = 3
    <3>1. value[1] = b(1) + 128 * value[2] /\ value[2] = b(2) + 128 * value[3] /\ value[3] = 0
      BY <1>6, <2>2
    <3>2. QED
      BY <2>2, <3>1
  <2>3. CASE i = 4
    <3>1. /\ value[1] = b(1) + 128 * value[2] /\ value[2] = b(2) + 128 * value[3]
          /\ value[3] = b(3) + 128 * value[4] /\ value[4] = 0
      BY <1>6, <2>3
    <3>2. value[3] = b(3)
      BY <1>2, <2>3, <3>1
    <3>3. QED
      BY <2>3, <3>1, <3>2
  <2>4. QED
    BY <1>12, <2>1, <2>2, <2>3
<1> DEFINE t == GetTotalLength(buffer, length)
<1>8. t = b(1) + 128 * d + i
  BY <1>7, <1>11
<1> HIDE DEF t
<1>9. t = i + b(1) + (IF i > 2 THEN 128 * b(2) ELSE 0) + (IF i > 3 THEN 16384 * b(3) ELSE 0)
  BY <1>2, <1>8, <1>12, SMT
<1>10. QED
  BY <1>9 DEF t, b, i

\* The length field of a body that it can express.
LEMMA RemainingLengthIs ==
    ASSUME NEW n \in Nat, n \div 128 \in 0..127
    PROVE  /\ RemainingLength(n) \in Text
           /\ n <= 127 => Len(RemainingLength(n)) = 1 /\ RemainingLength(n)[1] = n
           /\ n > 127 => /\ Len(RemainingLength(n)) = 2
                         /\ RemainingLength(n)[1] = 128 + (n % 128)
                         /\ RemainingLength(n)[2] = n \div 128
<1>1. CASE n <= 127
  <2>1. RemainingLength(n) = <<n>> /\ n \in Byte
    BY <1>1 DEF RemainingLength, Byte
  <2>2. QED
    BY <1>1, <2>1 DEF Text
<1>2. CASE n > 127
  <2>1. (n \div 128) % 256 = n \div 128 /\ n \div 128 \in 0..255 /\ 128 + (n % 128) \in 0..255
    BY SMT
  <2> DEFINE a == 128 + (n % 128)
             b == n \div 128
  <2>2. RemainingLength(n) = <<a, b>> /\ a \in Byte /\ b \in Byte
    BY <1>2, <2>1 DEF RemainingLength, Byte
  <2> HIDE DEF a, b
  <2>3. RemainingLength(n) \in Text /\ Len(RemainingLength(n)) = 2
        /\ RemainingLength(n)[1] = a /\ RemainingLength(n)[2] = b
    BY <2>2 DEF Text
  <2>4. QED
    BY <1>2, <2>3 DEF a, b
<1>3. QED
  BY <1>1, <1>2

\* m is a message of a first byte, the length in its own h - 1 bytes, and the body.
Coded(m, first, body, h) ==
    /\ m \in Text /\ h \in {2, 3} /\ Len(m) = h + Len(body) /\ At(m, 0) = first
    /\ \A i \in 1..Len(body) : m[h + i] = body[i]
    /\ HeaderEnd(m, Len(m)) = h /\ GetTotalLength(m, Len(m)) = Len(m)

\* What the readers make of a message.
LEMMA MessageIs ==
    ASSUME NEW first \in Byte, NEW body \in Text, Len(body) \div 128 \in 0..127
    PROVE  Coded(<<first>> \o RemainingLength(Len(body)) \o body, first, body,
                 1 + Len(RemainingLength(Len(body))))
<1> DEFINE n == Len(body)
           f == <<first>>
           r == RemainingLength(n)
           fr == f \o r
           m == fr \o body
           h == 1 + Len(r)
<1>1. n \in Nat /\ n \div 128 \in 0..127
  BY TextIs
<1>2. f \in Text /\ Len(f) = 1 /\ f[1] = first
  BY DEF Text
<1>3. /\ r \in Text
      /\ n <= 127 => Len(r) = 1 /\ r[1] = n
      /\ n > 127 => Len(r) = 2 /\ r[1] = 128 + (n % 128) /\ r[2] = n \div 128
  <2> HIDE DEF n
  <2>1. QED
    BY <1>1, RemainingLengthIs
<1> HIDE DEF f, r
<1>4. /\ fr \in Text /\ Len(fr) = Len(f) + Len(r)
      /\ \A i \in 1..Len(f) : fr[i] = f[i]
      /\ \A i \in 1..Len(r) : fr[Len(f) + i] = r[i]
  BY <1>2, <1>3, TextConcat
<1> HIDE DEF fr
<1>5. /\ m \in Text /\ Len(m) = Len(fr) + Len(body)
      /\ \A i \in 1..Len(fr) : m[i] = fr[i]
      /\ \A i \in 1..Len(body) : m[Len(fr) + i] = body[i]
  BY <1>4, TextConcat
<1> HIDE DEF n, m
<1>6. Len(r) \in {1, 2} /\ h \in {2, 3} /\ Len(fr) = h /\ Len(m) = h + n /\ h - 1 = Len(r)
  <2>1. Len(r) \in {1, 2}
    BY <1>1, <1>3
  <2>2. Len(fr) = 1 + Len(r) /\ Len(m) = Len(fr) + n
    BY <1>2, <1>4, <1>5 DEF n
  <2>3. CASE Len(r) = 1
    BY <1>1, <2>2, <2>3
  <2>4. CASE Len(r) = 2
    BY <1>1, <2>2, <2>4
  <2>5. QED
    BY <2>1, <2>3, <2>4
<1>7. m[1] = first /\ \A k \in 1..Len(r) : At(m, k) = r[k]
  <2>1. ASSUME NEW k \in 1..Len(r) PROVE At(m, k) = r[k]
    <3>1. 1 + k \in 1..Len(fr) /\ k + 1 = 1 + k
      BY <1>6
    <3>2. fr[1 + k] = r[k]
      BY <1>2, <1>4
    <3>3. QED
      BY <1>5, <3>1, <3>2 DEF At
  <2>2. 1 \in 1..Len(f) /\ 1 \in 1..Len(fr)
    BY <1>2, <1>6
  <2>3. QED
    BY <1>2, <1>4, <1>5, <2>1, <2>2
<1> HIDE DEF h
<1>8. HeaderEnd(m, Len(m)) = h
  <2>1. CASE n <= 127
    <3>1. Len(r) = 1 /\ h = 2 /\ At(m, 1) < 128 /\ Len(m) \in Nat /\ 1 \in 1..Len(m) - 1
      <4>1. Len(r) = 1 /\ r[1] = n
        BY <1>3, <2>1
      <4>2. At(m, 1) = n
        BY <1>7, <4>1
      <4>3. QED
        BY <1>1, <1>6, <2>1, <4>1, <4>2
    <3>2. \A j \in 1..1 - 1 : ~ (At(m, j) < 128)
      OBVIOUS
    <3>3. HeaderEnd(m, Len(m)) = 1 + 1
      BY <3>1, <3>2, HeaderEndIs
    <3>4. QED
      BY <3>1, <3>3
  <2>2. CASE n > 127
    <3>1. Len(r) = 2 /\ r[1] = 128 + (n % 128) /\ r[2] = n \div 128
      BY <1>3, <2>2
    <3>2. At(m, 1) = 128 + (n % 128) /\ At(m, 2) = n \div 128
      BY <1>7, <3>1
    <3>3. h = 3 /\ At(m, 2) < 128 /\ ~ (At(m, 1) < 128) /\ Len(m) \in Nat /\ 2 \in 1..Len(m) - 1
      BY <1>1, <1>6, <2>2, <3>1, <3>2
    <3>4. \A j \in 1..2 - 1 : ~ (At(m, j) < 128)
      BY <3>3
    <3>5. HeaderEnd(m, Len(m)) = 2 + 1
      BY <3>3, <3>4, HeaderEndIs
    <3>6. QED
      BY <3>3, <3>5
  <2>3. QED
    BY <1>1, <2>1, <2>2
<1>9. GetTotalLength(m, Len(m)) = Len(m)
  <2> DEFINE e == HeaderEnd(m, Len(m))
             t == GetTotalLength(m, Len(m))
  <2>1. e \in {2, 3, 4} /\ \A k \in 1..e - 1 : At(m, k) \in Byte
    BY <1>3, <1>6, <1>7, <1>8, TextIs DEF h
  <2>2. t = e + (At(m, 1) % 128) + (IF e > 2 THEN 128 * (At(m, 2) % 128) ELSE 0)
            + (IF e > 3 THEN 16384 * (At(m, 3) % 128) ELSE 0)
    BY <2>1, TotalIs
  <2> HIDE DEF e, t
  <2>3. CASE n <= 127
    <3>1. Len(r) = 1 /\ r[1] = n
      BY <1>3, <2>3
    <3>2. At(m, 1) = n /\ e = 2
      BY <1>6, <1>7, <1>8, <3>1 DEF e, h
    <3>3. QED
      BY <1>1, <1>6, <2>2, <2>3, <3>1, <3>2, SMT DEF t, h
  <2>4. CASE n > 127
    <3>1. Len(r) = 2 /\ r[1] = 128 + (n % 128) /\ r[2] = n \div 128
      BY <1>3, <2>4
    <3>2. At(m, 1) = 128 + (n % 128) /\ At(m, 2) = n \div 128 /\ e = 3
      BY <1>6, <1>7, <1>8, <3>1 DEF e, h
    <3>3. t = 3 + (n % 128) + 128 * (n \div 128)
      BY <1>1, <2>2, <3>2, SMT
    <3>4. t = 3 + n
      BY <1>1, <3>3, SMT
    <3>5. QED
      BY <1>6, <3>1, <3>4 DEF t, h
  <2>5. QED
    BY <1>1, <2>3, <2>4
<1>10. m[0 + 1] = first /\ \A i \in 1..Len(body) : m[h + i] = body[i]
  BY <1>5, <1>6, <1>7
<1>11. Coded(m, first, body, h)
  BY <1>5, <1>6, <1>8, <1>9, <1>10 DEF Coded, At, n
<1>12. QED
  BY <1>11 DEF m, fr, f, r, h, n

\* LengthReadBack: the two bytes of the length field are right up to 16383 and wrong for
\* every longer body.
LEMMA LengthRight ==
    ASSUME InputInv
    PROVE  LengthReadBack
<1> SUFFICES ASSUME Is("length") PROVE LengthReadBack
  BY DEF LengthReadBack
<1> DEFINE n == input.n
           r == RemainingLength(n)
           f == <<MsgType.PUBLISH * 16>>
           z == <<0, 0, 0>>
           fr == f \o r
           m == fr \o z
           t == GetTotalLength(m, Len(m))
           e == HeaderEnd(m, Len(m))
           a == 128 + (n % 128)
           b == (n \div 128) % 256
<1>1. n \in Nat /\ n <= 65535
  <2>1. n \in Short
    BY InputIsValid DEF Is, Valid, ValidLength
  <2>2. QED
    BY <2>1, SMT DEF Short
<1> HIDE DEF n
<1>2. a \in Byte /\ b \in Byte /\ (n <= 127 => n \in Byte)
  BY <1>1, SMT DEF Byte
<1>3. /\ n <= 127 => r = <<n>>
      /\ n > 127 => r = <<a, b>>
  BY <1>1, SMT DEF RemainingLength
<1> HIDE DEF a, b, r
<1>4. /\ r \in Text /\ Len(r) \in {1, 2}
      /\ n <= 127 => Len(r) = 1 /\ r[1] = n
      /\ n > 127 => Len(r) = 2 /\ r[1] = a /\ r[2] = b
  <2>1. CASE n <= 127
    <3>1. r = <<n>> /\ n \in Byte
      BY <1>2, <1>3, <2>1
    <3>2. QED
      BY <1>1, <2>1, <3>1, SMT DEF Text
  <2>2. CASE n > 127
    <3>1. r = <<a, b>> /\ a \in Byte /\ b \in Byte
      BY <1>2, <1>3, <2>2
    <3>2. QED
      BY <1>1, <2>2, <3>1, SMT DEF Text
  <2>3. QED
    BY <1>1, <2>1, <2>2, SMT
<1>5. f \in Text /\ Len(f) = 1
  <2>1. MsgType.PUBLISH * 16 \in Byte
    BY SMT DEF MsgType, Byte
  <2>2. QED
    BY <2>1 DEF Text
<1>6. z \in Text /\ Len(z) = 3 /\ z[1] = 0
  BY DEF Text, Byte
<1> HIDE DEF f, z
<1>7. /\ fr \in Text /\ Len(fr) = Len(f) + Len(r)
      /\ \A i \in 1..Len(r) : fr[Len(f) + i] = r[i]
  <2>1. r \in Text
    BY <1>4, SMT
  <2>2. f \in Text
    BY <1>5
  <2>3. QED
    BY <2>1, <2>2, TextConcat
<1> HIDE DEF fr
<1>8. /\ m \in Text /\ Len(m) = Len(fr) + Len(z)
      /\ \A i \in 1..Len(fr) : m[i] = fr[i]
      /\ \A i \in 1..Len(z) : m[Len(fr) + i] = z[i]
  <2>1. fr \in Text /\ z \in Text
    BY <1>6, <1>7
  <2>2. QED
    BY <2>1, TextConcat
<1> HIDE DEF m
<1>9. Len(m) = Len(r) + 4 /\ Len(m) \in Nat /\ Len(fr) = Len(r) + 1
  <2>1. CASE Len(r) = 1
    BY <1>5, <1>6, <1>7, <1>8, <2>1, SMT
  <2>2. CASE Len(r) = 2
    BY <1>5, <1>6, <1>7, <1>8, <2>2, SMT
  <2>3. QED
    BY <1>4, <2>1, <2>2, SMT
<1>10. At(m, Len(r) + 1) = 0
  <2>1. 1 \in 1..Len(z) /\ Len(fr) + 1 = Len(r) + 1 + 1
    BY <1>4, <1>6, <1>9, SMT
  <2>2. m[Len(fr) + 1] = 0
    BY <1>6, <1>8, <2>1
  <2>3. QED
    BY <2>1, <2>2 DEF At
<1>11. \A k \in 1..Len(r) : At(m, k) = r[k]
  <2>1. ASSUME NEW k \in 1..Len(r) PROVE At(m, k) = r[k]
    <3>1. Len(f) + k = k + 1 /\ k + 1 \in 1..Len(fr)
      BY <1>4, <1>5, <1>9, SMT
    <3>2. fr[k + 1] = r[k]
      BY <1>7, <3>1
    <3>3. QED
      BY <1>8, <3>1, <3>2 DEF At
  <2>2. QED
    BY <2>1
<1> HIDE DEF t, e
<1>12. ASSUME e \in {2, 3, 4}, \A k \in 1..e - 1 : At(m, k) \in Byte
       PROVE  t = e + (At(m, 1) % 128) + (IF e > 2 THEN 128 * (At(m, 2) % 128) ELSE 0)
                  + (IF e > 3 THEN 16384 * (At(m, 3) % 128) ELSE 0)
  <2>1. HeaderEnd(m, Len(m)) \in {2, 3, 4} /\ \A k \in 1..HeaderEnd(m, Len(m)) - 1 : At(m, k) \in Byte
    BY <1>12 DEF e
  <2>2. QED
    BY <2>1, TotalIs DEF t, e
<1>13. CASE n <= 127
  <2>1. Len(r) = 1 /\ At(m, 1) = n /\ At(m, 1) < 128 /\ n \in Byte
    <3>1. Len(r) = 1 /\ r[1] = n /\ n \in Byte
      BY <1>1, <1>2, <1>4, <1>13, SMT
    <3>2. At(m, 1) = n
      BY <1>11, <3>1, SMT
    <3>3. QED
      BY <1>1, <1>13, <3>1, <3>2, SMT
  <2>2. 1 \in 1..Len(m) - 1 /\ \A j \in 1..1 - 1 : ~ (At(m, j) < 128)
    BY <1>9, <2>1, SMT
  <2>3. e = 2
    BY <1>9, <2>1, <2>2, HeaderEndIs DEF e
  <2>4. t = 2 + n
    BY <1>1, <1>12, <1>13, <2>1, <2>3, SMT
  <2>5. (t = 1 + Len(r) + n) <=> (n <= 16383)
    BY <1>1, <1>13, <2>1, <2>4, SMT
  <2>6. QED
    BY <2>5, SMT DEF LengthReadBack, t, m, fr, f, z, r, n
<1>14. CASE n > 127 /\ b < 128
  <2>1. Len(r) = 2 /\ At(m, 1) = a /\ At(m, 2) = b /\ a \in Byte /\ b \in Byte
    <3>1. Len(r) = 2 /\ r[1] = a /\ r[2] = b
      BY <1>1, <1>4, <1>14, SMT
    <3>2. At(m, 1) = a /\ At(m, 2) = b
      BY <1>11, <3>1, SMT
    <3>3. QED
      BY <1>2, <3>1, <3>2, SMT
  <2>2. 2 \in 1..Len(m) - 1 /\ \A j \in 1..2 - 1 : ~ (At(m, j) < 128)
    <3>1. ~ (At(m, 1) < 128)
      BY <1>1, <2>1, SMT DEF a
    <3>2. QED
      BY <1>9, <2>1, <3>1, SMT
  <2>3. e = 3
    BY <1>9, <1>14, <2>1, <2>2, HeaderEndIs, SMT DEF e
  <2>4. t = 3 + (a % 128) + 128 * b
    <3>1. \A k \in 1..e - 1 : At(m, k) \in Byte
      BY <2>1, <2>3, SMT
    <3>2. b \in Nat
      BY <2>1, SMT DEF Byte
    <3>3. t = 3 + (a % 128) + 128 * (b % 128)
      BY <1>1, <1>12, <2>1, <2>3, <3>1, SMT DEF Byte
    <3>4. QED
      BY <1>14, <3>2, <3>3, SMT
  <2>5. (3 + (a % 128) + 128 * b = 3 + n) <=> (n <= 16383)
    BY <1>1, <1>14, SMT DEF a, b
  <2>6. (t = 1 + Len(r) + n) <=> (n <= 16383)
    <3>1. 1 + Len(r) + n = 3 + n
      BY <1>1, <2>1, SMT
    <3>2. QED
      BY <2>4, <2>5, <3>1, SMT
  <2>7. QED
    BY <2>6, SMT DEF LengthReadBack, t, m, fr, f, z, r, n
<1>15. CASE n > 127 /\ ~ (b < 128)
  <2>1. Len(r) = 2 /\ At(m, 1) = a /\ At(m, 2) = b /\ At(m, 3) = 0 /\ a \in Byte /\ b \in Byte
    <3>1. Len(r) = 2 /\ r[1] = a /\ r[2] = b
      BY <1>1, <1>4, <1>15, SMT
    <3>2. At(m, 1) = a /\ At(m, 2) = b
      BY <1>11, <3>1, SMT
    <3>3. QED
      BY <1>2, <1>10, <3>1, <3>2, SMT
  <2>2. 3 \in 1..Len(m) - 1 /\ \A j \in 1..3 - 1 : ~ (At(m, j) < 128)
    <3>1. ~ (At(m, 1) < 128) /\ ~ (At(m, 2) < 128)
      BY <1>1, <1>15, <2>1, SMT DEF a
    <3>2. QED
      BY <1>9, <2>1, <3>1, SMT
  <2>3. e = 4
    BY <1>9, <2>1, <2>2, HeaderEndIs, SMT DEF e
  <2>4. t = 4 + (a % 128) + 128 * (b % 128)
    <3>1. \A k \in 1..e - 1 : At(m, k) \in Byte
      BY <2>1, <2>3, SMT DEF Byte
    <3>2. t = e + (At(m, 1) % 128) + (IF e > 2 THEN 128 * (At(m, 2) % 128) ELSE 0)
              + (IF e > 3 THEN 16384 * (At(m, 3) % 128) ELSE 0)
      BY <1>12, <2>3, <3>1, SMT
    <3>3. t = 4 + (a % 128) + 128 * (b % 128) + 16384 * (0 % 128)
      BY <2>1, <2>3, <3>2, SMT
    <3>4. QED
      BY <2>1, <3>3, SMT DEF Byte
  <2>5. 4 + (a % 128) + 128 * (b % 128) # 3 + n /\ ~ (n <= 16383)
    BY <1>1, <1>15, SMT DEF a, b
  <2>6. (t = 1 + Len(r) + n) <=> (n <= 16383)
    <3>1. 1 + Len(r) + n = 3 + n
      BY <1>1, <2>1, SMT
    <3>2. QED
      BY <2>4, <2>5, <3>1, SMT
  <2>7. QED
    BY <2>6, SMT DEF LengthReadBack, t, m, fr, f, z, r, n
<1>16. b \in Nat
  BY <1>2, SMT DEF Byte
<1>17. QED
  BY <1>1, <1>13, <1>14, <1>15, <1>16, SMT

-----------------------------------------------------------------------------
(***************************************************************************)
(* Building messages.                                                      *)
(***************************************************************************)

\* Two bytes hold a number of 16 bits.
LEMMA TwoBytesIs ==
    ASSUME NEW n \in Nat
    PROVE  /\ TwoBytes(n) \in Text /\ Len(TwoBytes(n)) = 2
           /\ n \in Short => TwoBytes(n)[1] * 256 + TwoBytes(n)[2] = n
<1> DEFINE a == (n \div 256) % 256
           b == n % 256
<1>1. a \in Byte /\ b \in Byte
  BY SMT DEF Byte
<1>2. n \in Short => a * 256 + b = n
  BY SMT DEF Short
<1>3. TwoBytes(n) = <<a, b>>
  BY DEF TwoBytes
<1> HIDE DEF a, b
<1>4. TwoBytes(n) \in Text /\ Len(TwoBytes(n)) = 2 /\ TwoBytes(n)[1] = a /\ TwoBytes(n)[2] = b
  BY <1>1, <1>3 DEF Text
<1>5. QED
  BY <1>2, <1>4

\* No text looks like a failed message.
LEMMA TextNotFailed ==
    ASSUME NEW s \in Text
    PROVE  s # Failed
<1> SUFFICES ASSUME s = Failed PROVE FALSE
  OBVIOUS
<1>1. Len(s) = 1 /\ s[1] = -1
  BY DEF Failed
<1>2. s[1] \in Byte
  BY <1>1, TextIs
<1>3. QED
  BY <1>1, <1>2 DEF Byte

\* The empty text.
LEMMA EmptyText ==
    <<>> \in Text /\ Len(<<>>) = 0 /\ \A s \in Text : s \o <<>> = s /\ (s = <<>> <=> Len(s) = 0)
<1>1. <<>> \in Text /\ Len(<<>>) = 0
  BY DEF Text
<1>2. ASSUME NEW s \in Text PROVE s \o <<>> = s /\ (s = <<>> <=> Len(s) = 0)
  <2>1. s \in Seq(Byte)
    BY DEF Text
  <2>2. s \o <<>> = s
    BY <2>1, ConcatEmptySeq
  <2>3. s = <<>> <=> Len(s) = 0
    BY <2>1
  <2>4. QED
    BY <2>2, <2>3
<1>3. QED
  BY <1>1, <1>2

\* A body that is given up when the buffer cannot hold it.
Fit(body, cap) == IF 3 + Len(body) > cap THEN Failed ELSE body

\* The first bytes of a body fit or not.
LEMMA StartFits ==
    ASSUME NEW bytes \in Text, NEW cap \in Nat
    PROVE  Appended(<<>>, bytes, cap) = Fit(bytes, cap)
<1>1. <<>> # Failed /\ Len(<<>>) = 0 /\ Len(bytes) \in Nat
  BY EmptyText, TextNotFailed, TextIs
<1>2. <<>> \o bytes = bytes
  <2>1. bytes \in Seq(Byte)
    BY DEF Text
  <2>2. QED
    BY <2>1, ConcatEmptySeq
<1>3. MQTT_MAX_FIXED_HEADER_SIZE + 0 + Len(bytes) = 3 + Len(bytes)
  BY <1>1 DEF MQTT_MAX_FIXED_HEADER_SIZE
<1>4. QED
  BY <1>1, <1>2, <1>3 DEF Appended, Fit

\* More bytes fit only if all of them do.
LEMMA AppendedFits ==
    ASSUME NEW body \in Text, NEW bytes \in Text, NEW cap \in Nat
    PROVE  Appended(Fit(body, cap), bytes, cap) = Fit(body \o bytes, cap)
<1>1. Len(body) \in Nat /\ Len(bytes) \in Nat /\ Len(body \o bytes) = Len(body) + Len(bytes)
      /\ body # Failed
  BY TextIs, TextConcat, TextNotFailed
<1>2. CASE 3 + Len(body) > cap
  <2>1. Fit(body, cap) = Failed /\ 3 + Len(body \o bytes) > cap
    BY <1>1, <1>2 DEF Fit
  <2>2. QED
    BY <2>1 DEF Appended, Fit
<1>3. CASE ~ (3 + Len(body) > cap)
  <2>1. Fit(body, cap) = body /\ body # Failed
    BY <1>1, <1>3 DEF Fit
  <2>2. MQTT_MAX_FIXED_HEADER_SIZE + Len(body) + Len(bytes) = 3 + Len(body \o bytes)
    BY <1>1 DEF MQTT_MAX_FIXED_HEADER_SIZE
  <2>3. QED
    BY <2>1, <2>2 DEF Appended, Fit
<1>4. QED
  BY <1>2, <1>3

\* A failed message stays so.
LEMMA FailedStays ==
    ASSUME NEW bytes, NEW cap
    PROVE  Appended(Failed, bytes, cap) = Failed
BY DEF Appended

\* The first byte of a message of these types.
LEMMA FirstIs ==
    ASSUME NEW type \in 1..14, NEW qos \in 0..2, NEW retain \in 0..1,
           NEW first, first = type * 16 + (qos % 4) * 2 + (retain % 2)
    PROVE  first \in Byte /\ first \div 16 = type /\ (first % 8) \div 2 = qos
<1>1. qos % 4 = qos /\ retain % 2 = retain
  OBVIOUS
<1>2. first = type * 16 + qos * 2 + retain
  BY <1>1
<1>3. QED
  BY <1>2, SMT DEF Byte

\* m is a finished message that the readers understand.
Sent(m, body, type, qos, h) ==
    /\ m \in Text /\ h \in {2, 3} /\ Len(m) = h + Len(body)
    /\ \A i \in 1..Len(body) : m[h + i] = body[i]
    /\ HeaderEnd(m, Len(m)) = h /\ GetTotalLength(m, Len(m)) = Len(m)
    /\ GetType(m) = type /\ GetQos(m) = qos

\* A message is refused or finished.
LEMMA FinishedIs ==
    ASSUME NEW body \in Text, NEW cap \in Buffers, NEW type \in 1..14, NEW qos \in 0..2,
           NEW retain \in 0..1
    PROVE  /\ 3 + Len(body) > cap => Finished(Fit(body, cap), type, qos, retain) = <<>>
           /\ ~ (3 + Len(body) > cap) =>
                  Sent(Finished(Fit(body, cap), type, qos, retain), body, type, qos,
                       1 + Len(RemainingLength(Len(body))))
<1> DEFINE first == type * 16 + (qos % 4) * 2 + (retain % 2)
           m == Finished(Fit(body, cap), type, qos, retain)
           h == 1 + Len(RemainingLength(Len(body)))
<1>1. CASE 3 + Len(body) > cap
  BY <1>1 DEF Fit, Finished
<1>2. CASE ~ (3 + Len(body) > cap)
  <2>1. Fit(body, cap) = body /\ body # Failed
    BY <1>2, TextNotFailed DEF Fit
  <2>2. m = <<first>> \o RemainingLength(Len(body)) \o body
    BY <2>1, Zenon DEF Finished
  <2>3. first \in Byte /\ first \div 16 = type /\ (first % 8) \div 2 = qos
    BY FirstIs
  <2>4. Len(body) \div 128 \in 0..127
    <3> DEFINE n == Len(body)
    <3>1. n \in Nat /\ cap \in Nat /\ cap <= 16386 /\ ~ (3 + n > cap)
      BY <1>2, TextIs, SMT DEF Buffers, MQTT_MAX_FIXED_HEADER_SIZE
    <3> HIDE DEF n
    <3>2. n \div 128 \in 0..127
      BY <3>1, SMT
    <3>3. QED
      BY <3>2 DEF n
  <2> HIDE DEF first, m
  <2>5. Coded(m, first, body, h)
    BY <2>2, <2>3, <2>4, MessageIs
  <2> HIDE DEF h
  <2>6. GetType(m) = type /\ GetQos(m) = qos
    BY <2>3, <2>5 DEF Coded, GetType, GetQos
  <2>7. Sent(m, body, type, qos, h)
    BY <2>5, <2>6 DEF Coded, Sent
  <2>8. QED
    BY <1>2, <2>7 DEF m, h
<1>3. QED
  BY <1>1, <1>2

\* A text within another.
LEMMA SliceIs ==
    ASSUME NEW m \in Text, NEW t \in Text, NEW s \in Nat, s + Len(t) <= Len(m),
           \A i \in 1..Len(t) : m[s + i] = t[i]
    PROVE  SubSeq(m, s + 1, s + Len(t)) = t
<1> DEFINE sub == SubSeq(m, s + 1, s + Len(t))
           a == s + 1
           b == s + Len(t)
<1>1. Len(t) \in Nat /\ Len(m) \in Nat /\ \A i \in 1..Len(m) : m[i] \in Byte
  BY TextIs
<1>2. a \in Int /\ b \in Int /\ \A i \in a..b : m[i] \in Byte
  BY <1>1
<1> DEFINE sab == SubSeq(m, a, b)
<1> HIDE DEF a, b
<1>3. sab \in Seq(Byte) /\ Len(sab) = (IF a <= b THEN b - a + 1 ELSE 0)
      /\ \A i \in 1..b - a + 1 : sab[i] = m[a + i - 1]
  BY <1>2, SubSeqProperties
<1> HIDE DEF sab
<1>4. Len(sab) = Len(t)
  BY <1>1, <1>3 DEF a, b
<1>5. ASSUME NEW i \in 1..Len(sab) PROVE sab[i] = t[i]
  <2>1. i \in 1..b - a + 1 /\ a + i - 1 = s + i /\ i \in 1..Len(t)
    BY <1>1, <1>4 DEF a, b
  <2>2. QED
    BY <1>3, <2>1
<1>6. t \in Seq(Byte)
  BY DEF Text
<1>7. sab = t
  BY <1>3, <1>4, <1>5, <1>6, SeqEqual
<1>8. QED
  BY <1>7 DEF sab, a, b

\* The body of a publish message: the topic, k bytes of an id, the data.
PublishBody(body, topic, ident, data) ==
    /\ body \in Text /\ Len(body) = 2 + Len(topic) + Len(ident) + Len(data)
    /\ body[1] * 256 + body[2] = Len(topic)
    /\ \A i \in 1..Len(topic) : body[2 + i] = topic[i]
    /\ \A i \in 1..Len(ident) : body[2 + Len(topic) + i] = ident[i]
    /\ \A i \in 1..Len(data) : body[2 + Len(topic) + Len(ident) + i] = data[i]

\* What stands where in it.
LEMMA PublishBodyIs ==
    ASSUME NEW topic \in Text, NEW ident \in Text, NEW data \in Text, Len(topic) \in Short
    PROVE  PublishBody(((TwoBytes(Len(topic)) \o topic) \o ident) \o data, topic, ident, data)
<1> DEFINE w == TwoBytes(Len(topic))
           wt == w \o topic
           wti == wt \o ident
           body == wti \o data
<1>1. Len(topic) \in Nat /\ Len(ident) \in Nat /\ Len(data) \in Nat
  BY TextIs
<1>2. w \in Text /\ Len(w) = 2 /\ w[1] * 256 + w[2] = Len(topic)
  BY <1>1, TwoBytesIs
<1> HIDE DEF w
<1>3. /\ wt \in Text /\ Len(wt) = Len(w) + Len(topic)
      /\ \A i \in 1..Len(w) : wt[i] = w[i]
      /\ \A i \in 1..Len(topic) : wt[Len(w) + i] = topic[i]
  BY <1>2, TextConcat
<1> HIDE DEF wt
<1>4. /\ wti \in Text /\ Len(wti) = Len(wt) + Len(ident)
      /\ \A i \in 1..Len(wt) : wti[i] = wt[i]
      /\ \A i \in 1..Len(ident) : wti[Len(wt) + i] = ident[i]
  BY <1>3, TextConcat
<1> HIDE DEF wti
<1>5. /\ body \in Text /\ Len(body) = Len(wti) + Len(data)
      /\ \A i \in 1..Len(wti) : body[i] = wti[i]
      /\ \A i \in 1..Len(data) : body[Len(wti) + i] = data[i]
  BY <1>4, TextConcat
<1> HIDE DEF body
<1> DEFINE a == Len(topic)
           k == Len(ident)
           d == Len(data)
<1>6. Len(wt) = 2 + a /\ Len(wti) = 2 + a + k /\ Len(body) = 2 + a + k + d
  <2>1. Len(wt) = 2 + a
    BY <1>2, <1>3
  <2>2. Len(wti) = 2 + a + k
    BY <1>4, <2>1
  <2>3. QED
    BY <1>5, <2>1, <2>2
<1>7. ASSUME NEW i \in 1..2 + a PROVE body[i] = wt[i]
  <2>1. i \in 1..Len(wt) /\ i \in 1..Len(wti)
    BY <1>1, <1>6
  <2>2. QED
    BY <1>4, <1>5, <2>1
<1>8. body[1] * 256 + body[2] = a
  <2>1. 1 \in 1..2 + a /\ 2 \in 1..2 + a /\ 1 \in 1..Len(w) /\ 2 \in 1..Len(w)
    BY <1>1, <1>2
  <2>2. body[1] = w[1] /\ body[2] = w[2]
    BY <1>3, <1>7, <2>1
  <2>3. QED
    BY <1>2, <2>2
<1>9. ASSUME NEW i \in 1..a PROVE body[2 + i] = topic[i]
  <2>1. 2 + i \in 1..2 + a
    BY <1>1
  <2>2. QED
    BY <1>2, <1>3, <1>7, <2>1
<1>10. ASSUME NEW i \in 1..k PROVE body[2 + a + i] = ident[i]
  <2>1. 2 + a + i \in 1..Len(wti)
    BY <1>1, <1>6
  <2>2. wti[2 + a + i] = ident[i]
    BY <1>4, <1>6
  <2>3. QED
    BY <1>5, <2>1, <2>2
<1>11. ASSUME NEW i \in 1..d PROVE body[2 + a + k + i] = data[i]
  BY <1>5, <1>6
<1>12. QED
  BY <1>5, <1>6, <1>8, <1>9, <1>10, <1>11, Zenon DEF PublishBody, body, wti, wt, w

\* How the readers see such a message.
LEMMA PublishRead ==
    ASSUME NEW topic \in Text, NEW ident \in Text, NEW data \in Text, NEW body, NEW m,
           NEW qos \in 0..2, NEW h, Len(topic) > 0,
           PublishBody(body, topic, ident, data), Sent(m, body, MsgType.PUBLISH, qos, h),
           Len(ident) = IF qos > 0 THEN 2 ELSE 0
    PROVE  /\ Slice(m, GetPublishTopic(m, Len(m))) = topic
           /\ Slice(m, GetPublishData(m, Len(m))) = data
           /\ GetId(m, Len(m)) = IF qos = 0 \/ data = <<>> THEN 0 ELSE ident[1] * 256 + ident[2]
<1> DEFINE a == Len(topic)
           k == Len(ident)
           d == Len(data)
           len == Len(m)
           field == [start |-> h + 2, length |-> a]
<1>1. a \in Nat /\ k \in Nat /\ d \in Nat /\ (d = 0 <=> data = <<>>)
  BY TextIs, EmptyText
<1>2. /\ a > 0 /\ k = IF qos > 0 THEN 2 ELSE 0
      /\ h \in {2, 3} /\ len = h + (2 + a + k + d) /\ m \in Text
  BY DEF Sent, PublishBody
<1>3. ASSUME NEW i \in 1..2 + a + k + d PROVE m[h + i] = body[i]
  BY <1>3 DEF Sent, PublishBody
<1>4. /\ HeaderEnd(m, Len(m)) = h /\ GetTotalLength(m, Len(m)) = Len(m)
      /\ GetType(m) = MsgType.PUBLISH /\ GetQos(m) = qos
  BY DEF Sent
<1>5. /\ At(m, h) * 256 + At(m, h + 1) = a
      /\ \A i \in 1..a : m[h + 2 + i] = topic[i]
      /\ \A i \in 1..k : m[h + 2 + a + i] = ident[i]
      /\ \A i \in 1..d : m[h + 2 + a + k + i] = data[i]
  <2> HIDE DEF a, k, d
  <2>1. At(m, h) * 256 + At(m, h + 1) = a
    <3>1. 1 \in 1..2 + a + k + d /\ 2 \in 1..2 + a + k + d /\ h + 1 + 1 = h + 2
      BY <1>1, <1>2
    <3>2. m[h + 1] = body[1] /\ m[h + 2] = body[2]
      BY <1>3, <3>1
    <3>3. body[1] * 256 + body[2] = a
      BY DEF PublishBody, a
    <3>4. QED
      BY <3>1, <3>2, <3>3 DEF At
  <2>2. ASSUME NEW i \in 1..a PROVE m[h + 2 + i] = topic[i]
    <3>1. 2 + i \in 1..2 + a + k + d /\ h + (2 + i) = h + 2 + i
      BY <1>1, <1>2
    <3>2. body[2 + i] = topic[i]
      BY DEF PublishBody, a
    <3>3. QED
      BY <1>3, <3>1, <3>2
  <2>3. ASSUME NEW i \in 1..k PROVE m[h + 2 + a + i] = ident[i]
    <3>1. 2 + a + i \in 1..2 + a + k + d /\ h + (2 + a + i) = h + 2 + a + i
      BY <1>1, <1>2
    <3>2. body[2 + a + i] = ident[i]
      BY DEF PublishBody, a, k
    <3>3. QED
      BY <1>3, <3>1, <3>2
  <2>4. ASSUME NEW i \in 1..d PROVE m[h + 2 + a + k + i] = data[i]
    <3>1. 2 + a + k + i \in 1..2 + a + k + d /\ h + (2 + a + k + i) = h + 2 + a + k + i
      BY <1>1, <1>2
    <3>2. body[2 + a + k + i] = data[i]
      BY DEF PublishBody, a, k, d
    <3>3. QED
      BY <1>3, <3>1, <3>2
  <2>5. QED
    BY <2>1, <2>2, <2>3, <2>4
<1>6. /\ \A i \in 1..Len(topic) : m[h + 2 + i] = topic[i]
      /\ \A i \in 1..Len(data) : m[h + 2 + a + k + i] = data[i]
  BY <1>5
<1> HIDE DEF a, k, d, len
<1>7. TopicField(m, len) = field /\ field # NoSlice
  <2>1. ~ (h + 2 >= len)
    BY <1>1, <1>2
  <2>2. TopicField(m, len) = field
    BY <1>4, <1>5, <2>1 DEF TopicField, len
  <2>3. field.start # NoSlice.start
    BY <1>2 DEF NoSlice
  <2>4. QED
    BY <2>2, <2>3
<1>8. field.start = h + 2 /\ field.length = a
  OBVIOUS
<1> HIDE DEF field
<1>9. Slice(m, GetPublishTopic(m, len)) = topic
  <2>1. ~ (field.start + field.length > len)
    BY <1>1, <1>2, <1>8
  <2>2. GetPublishTopic(m, len) = field
    BY <1>7, <2>1 DEF GetPublishTopic
  <2>3. SubSeq(m, (h + 2) + 1, (h + 2) + Len(topic)) = topic
    <3>1. h + 2 \in Nat /\ (h + 2) + Len(topic) <= Len(m)
      BY <1>1, <1>2 DEF a, len
    <3>2. QED
      BY <1>2, <1>6, <3>1, SliceIs
  <2>4. QED
    BY <1>8, <2>2, <2>3 DEF Slice, a
<1>10. Slice(m, GetPublishData(m, len)) = data
  <2> DEFINE behind == field.start + field.length
             i == IF GetQos(m) > 0 THEN behind + 2 ELSE behind
             total == GetTotalLength(m, len)
             none == \/ field = NoSlice \/ behind >= len
                     \/ GetQos(m) > 0 /\ i >= len
                     \/ total < i
  <2>1. behind = h + 2 + a /\ i = h + 2 + a + k /\ total = len
    BY <1>1, <1>2, <1>4, <1>8 DEF len
  <2>2. GetPublishData(m, len) =
            IF none THEN NoSlice
            ELSE [start |-> i, length |-> (IF total <= len THEN total ELSE len) - i]
    BY <1>7 DEF GetPublishData
  <2> HIDE DEF behind, i, total
  <2>3. none <=> d = 0
    BY <1>1, <1>2, <1>4, <1>7, <2>1
  <2> HIDE DEF none
  <2>4. CASE d = 0
    <3>1. GetPublishData(m, len) = NoSlice
      BY <2>2, <2>3, <2>4
    <3>2. Slice(m, NoSlice) = SubSeq(m, 0 + 1, 0 + 0)
      BY DEF Slice, NoSlice
    <3>3. SubSeq(m, 0 + 1, 0 + 0) = <<>>
      BY SubSeqEmpty
    <3>4. QED
      BY <1>1, <2>4, <3>1, <3>2, <3>3
  <2>5. CASE d # 0
    <3>1. GetPublishData(m, len) = [start |-> i, length |-> d]
      <4>1. (IF total <= len THEN total ELSE len) - i = d
        BY <1>1, <1>2, <2>1
      <4>2. QED
        BY <2>2, <2>3, <2>5, <4>1
    <3>2. i \in Nat /\ i + Len(data) <= Len(m) /\ \A j \in 1..Len(data) : m[i + j] = data[j]
      BY <1>1, <1>2, <1>6, <2>1 DEF d, len
    <3>3. SubSeq(m, i + 1, i + Len(data)) = data
      BY <1>2, <3>2, SliceIs
    <3>4. QED
      BY <3>1, <3>3 DEF Slice, d
  <2>6. QED
    BY <2>4, <2>5
<1>11. GetId(m, len) = IF qos = 0 \/ data = <<>> THEN 0 ELSE ident[1] * 256 + ident[2]
  <2> DEFINE i == field.start + field.length
             at == At(m, i) * 256 + At(m, i + 1)
  <2>1. i = h + 2 + a
    BY <1>1, <1>2, <1>8
  <2>2. GetId(m, len) = IF field = NoSlice \/ GetQos(m) = 0 \/ i + 2 >= len THEN 0 ELSE at
    <3>1. GetType(m) = MsgType.PUBLISH
          /\ ~ (GetType(m) \in {MsgType.PUBACK, MsgType.PUBREC, MsgType.PUBREL, MsgType.PUBCOMP,
                                MsgType.SUBACK, MsgType.UNSUBACK, MsgType.SUBSCRIBE})
      BY <1>4 DEF MsgType
    <3>2. QED
      BY <1>7, <3>1 DEF GetId
  <2> HIDE DEF i
  <2>3. CASE qos = 0
    BY <1>4, <2>2, <2>3
  <2>4. CASE qos # 0
    <3>1. k = 2 /\ (i + 2 >= len <=> d = 0)
      BY <1>1, <1>2, <2>1, <2>4
    <3>2. at = ident[1] * 256 + ident[2]
      <4>1. i + 1 = h + 2 + a + 1 /\ i + 1 + 1 = h + 2 + a + 2 /\ 1 \in 1..k /\ 2 \in 1..k
        BY <1>1, <1>2, <2>1, <3>1
      <4>2. m[i + 1] = ident[1] /\ m[i + 1 + 1] = ident[2]
        BY <1>5, <4>1
      <4>3. QED
        BY <4>2 DEF At
    <3> HIDE DEF at
    <3>3. QED
      BY <1>1, <1>4, <1>7, <2>2, <2>4, <3>1, <3>2
  <2>5. QED
    BY <2>3, <2>4
<1>12. QED
  BY <1>9, <1>10, <1>11 DEF len

\* PublishReadBack: a publish message is refused exactly when it has no topic or does not
\* fit, and read back otherwise.
LEMMA PublishRight ==
    ASSUME InputInv
    PROVE  PublishReadBack
<1> SUFFICES ASSUME Is("publish") PROVE PublishReadBack
  BY DEF PublishReadBack
<1> DEFINE topic == input.topic
           data == input.data
           qos == input.qos
           cap == input.cap
           ident == IF qos > 0 THEN TwoBytes(input.id) ELSE <<>>
           body == ((TwoBytes(Len(topic)) \o topic) \o ident) \o data
           m == MsgPublish(topic, data, qos, input.retain, input.id, cap)
           needed == MQTT_MAX_FIXED_HEADER_SIZE + 2 + Len(topic)
                     + (IF qos > 0 THEN 2 ELSE 0) + Len(data)
           h == 1 + Len(RemainingLength(Len(body)))
<1>1. /\ topic \in Text /\ data \in Text /\ qos \in 0..2 /\ input.retain \in 0..1
      /\ input.id \in RandomIds /\ cap \in Buffers
  BY InputIsValid DEF Is, Valid, ValidPublish
<1>2. cap \in Nat /\ cap <= 16386
  BY <1>1, SMT DEF Buffers, MQTT_MAX_FIXED_HEADER_SIZE
<1>3. input.id \in Nat /\ input.id \in Short
  BY <1>1, SMT DEF RandomIds, Short
<1>4. /\ ident \in Text /\ Len(ident) = IF qos > 0 THEN 2 ELSE 0
      /\ qos > 0 => ident[1] * 256 + ident[2] = input.id
  <2>1. CASE qos > 0
    BY <1>3, <2>1, TwoBytesIs
  <2>2. CASE ~ (qos > 0)
    BY <2>2, EmptyText
  <2>3. QED
    BY <2>1, <2>2
<1>5. Len(topic) \in Nat /\ Len(data) \in Nat
  BY <1>1, TextIs
<1>6. TwoBytes(Len(topic)) \in Text /\ Len(TwoBytes(Len(topic))) = 2
  BY <1>5, TwoBytesIs
<1>7. TwoBytes(Len(topic)) \o topic \in Text
      /\ Len(TwoBytes(Len(topic)) \o topic) = 2 + Len(topic)
  <2> DEFINE w == TwoBytes(Len(topic))
  <2> HIDE DEF w
  <2>1. w \in Text /\ Len(w) = 2 /\ topic \in Text
    BY <1>1, <1>6 DEF w
  <2>2. w \o topic \in Text /\ Len(w \o topic) = Len(w) + Len(topic)
    BY <2>1, TextConcat
  <2>3. QED
    BY <2>1, <2>2 DEF w
<1> DEFINE named == TwoBytes(Len(topic)) \o topic
<1>8. topic # <<>> => m = Finished(Fit(body, cap), MsgType.PUBLISH, qos, input.retain)
  <2> SUFFICES ASSUME topic # <<>>
               PROVE  m = Finished(Fit(body, cap), MsgType.PUBLISH, qos, input.retain)
    OBVIOUS
  <2> HIDE DEF topic, data, qos, cap, ident
  <2>1. AppendString(Required(<<>>, topic), topic, cap) = Fit(named, cap)
    BY <1>2, <1>7, StartFits DEF AppendString, Required
  <2>2. (IF qos > 0 THEN AppendMessageId(Fit(named, cap), input.id, cap) ELSE Fit(named, cap))
            = Fit(named \o ident, cap)
    <3>1. CASE qos > 0
      <4>1. ident = TwoBytes(input.id)
        BY <3>1 DEF ident
      <4>2. Appended(Fit(named, cap), ident, cap) = Fit(named \o ident, cap)
        BY <1>2, <1>4, <1>7, AppendedFits
      <4>3. QED
        BY <3>1, <4>1, <4>2 DEF AppendMessageId
    <3>2. CASE ~ (qos > 0)
      <4>1. ident = <<>>
        BY <3>2 DEF ident
      <4>2. named \o ident = named
        BY <1>7, <4>1, EmptyText
      <4>3. QED
        BY <3>2, <4>2
    <3>3. QED
      BY <3>1, <3>2
  <2>3. named \o ident \in Text
    BY <1>4, <1>7, TextConcat
  <2>4. Appended(Fit(named \o ident, cap), data, cap) = Fit(body, cap)
    BY <1>1, <1>2, <2>3, AppendedFits
  <2> DEFINE n == AppendString(Required(<<>>, topic), topic, cap)
             i == IF qos > 0 THEN AppendMessageId(n, input.id, cap) ELSE n
  <2>5. m = Finished(Appended(i, data, cap), MsgType.PUBLISH, qos, input.retain)
    BY DEF MsgPublish
  <2> HIDE DEF m, named, body
  <2>6. i = Fit(named \o ident, cap)
    BY <2>1, <2>2
  <2> HIDE DEF i
  <2>7. QED
    BY <2>4, <2>5, <2>6
<1>9. topic = <<>> => m = <<>>
  <2> SUFFICES ASSUME topic = <<>> PROVE m = <<>>
    OBVIOUS
  <2>1. AppendString(Required(<<>>, topic), topic, cap) = Failed
    BY FailedStays DEF AppendString, Required
  <2>2. AppendMessageId(Failed, input.id, cap) = Failed /\ Appended(Failed, data, cap) = Failed
    BY FailedStays DEF AppendMessageId
  <2>3. Finished(Failed, MsgType.PUBLISH, qos, input.retain) = <<>>
    BY DEF Finished
  <2> DEFINE n == AppendString(Required(<<>>, topic), topic, cap)
             i == IF qos > 0 THEN AppendMessageId(n, input.id, cap) ELSE n
  <2>4. m = Finished(Appended(i, data, cap), MsgType.PUBLISH, qos, input.retain)
    BY DEF MsgPublish
  <2>5. i = Failed
    BY <2>1, <2>2
  <2> HIDE DEF i, m
  <2>6. QED
    BY <2>2, <2>3, <2>4, <2>5
<1>10. body \in Text /\ 3 + Len(body) = needed
  <2> HIDE DEF ident, topic, data
  <2>1. named \o ident \in Text /\ Len(named \o ident) = Len(named) + Len(ident)
    BY <1>4, <1>7, TextConcat
  <2>2. body \in Text /\ Len(body) = Len(named \o ident) + Len(data)
    BY <1>1, <2>1, TextConcat
  <2> HIDE DEF body
  <2>3. Len(body) = 2 + Len(topic) + Len(ident) + Len(data)
    BY <1>7, <2>1, <2>2
  <2>4. QED
    BY <1>4, <1>5, <2>2, <2>3 DEF MQTT_MAX_FIXED_HEADER_SIZE
<1>11. MsgType.PUBLISH = 3
  BY DEF MsgType
<1>12. CASE topic = <<>> \/ needed > cap
  <2>1. m = <<>>
    <3>1. CASE topic = <<>>
      BY <1>9, <3>1
    <3>2. CASE topic # <<>> /\ needed > cap
      <4>1. 3 + Len(body) > cap
        BY <1>10, <3>2
      <4> HIDE DEF topic, data, qos, cap, body, needed, m
      <4>2. MsgType.PUBLISH \in 1..14
        BY <1>11
      <4>3. Finished(Fit(body, cap), MsgType.PUBLISH, qos, input.retain) = <<>>
        BY <1>1, <1>10, <4>1, <4>2, FinishedIs
      <4>4. QED
        BY <1>8, <3>2, <4>3
    <3>3. QED
      BY <1>12, <3>1, <3>2
  <2>2. QED
    BY <1>12, <2>1, Zenon DEF PublishReadBack
<1>13. CASE ~ (topic = <<>> \/ needed > cap)
  <2>1. Sent(m, body, MsgType.PUBLISH, qos, h)
    <3>1. ~ (3 + Len(body) > cap)
      BY <1>10, <1>13
    <3> HIDE DEF topic, data, qos, cap, body, needed, m
    <3>2. MsgType.PUBLISH \in 1..14
      BY <1>11
    <3>3. Sent(Finished(Fit(body, cap), MsgType.PUBLISH, qos, input.retain), body,
               MsgType.PUBLISH, qos, h)
      BY <1>1, <1>10, <3>1, <3>2, FinishedIs
    <3>4. QED
      BY <1>8, <1>13, <3>3
  <2>2. PublishBody(body, topic, ident, data)
    <3> HIDE DEF data, qos, cap, m, ident, topic
    <3>1. Len(topic) \in Short
      <4> DEFINE l == Len(topic)
                 r == (IF qos > 0 THEN 2 ELSE 0) + Len(data)
      <4>1. r \in Nat /\ l \in Nat /\ ~ (5 + l + r > cap)
        <5>1. l \in Nat /\ Len(data) \in Nat
          BY <1>5
        <5>2. needed = 5 + l + r
          <6> HIDE DEF l
          <6>1. CASE qos > 0
            BY <5>1, <6>1 DEF MQTT_MAX_FIXED_HEADER_SIZE, l
          <6>2. CASE ~ (qos > 0)
            BY <5>1, <6>2 DEF MQTT_MAX_FIXED_HEADER_SIZE, l
          <6>3. QED
            BY <6>1, <6>2
        <5>3. r \in Nat
          BY <5>1
        <5> HIDE DEF needed, l, r
        <5>4. QED
          BY <1>13, <5>1, <5>2, <5>3
      <4> HIDE DEF l, r
      <4>2. l <= 65535
        BY <1>2, <4>1, SMT
      <4>3. QED
        BY <1>5, <4>2, SMT DEF Short, l
    <3>2. QED
      BY <1>1, <1>4, <3>1, PublishBodyIs
  <2> HIDE DEF body, m, h
  <2>3. Len(topic) > 0
    BY <1>1, <1>5, <1>13, EmptyText
  <2> HIDE DEF topic, data, qos, cap, ident
  <2>4. /\ Slice(m, GetPublishTopic(m, Len(m))) = topic
        /\ Slice(m, GetPublishData(m, Len(m))) = data
        /\ GetId(m, Len(m)) = IF qos = 0 \/ data = <<>> THEN 0 ELSE ident[1] * 256 + ident[2]
    BY <1>1, <1>4, <2>1, <2>2, <2>3, PublishRead
  <2>5. GetId(m, Len(m)) = IF qos = 0 \/ data = <<>> THEN 0 ELSE input.id
    BY <1>1, <1>4, <2>4
  <2>6. /\ Len(m) \in {needed - 1, needed} /\ GetTotalLength(m, Len(m)) = Len(m)
        /\ GetType(m) = MsgType.PUBLISH /\ GetQos(m) = qos
    <3>1. h \in {2, 3} /\ Len(m) = h + Len(body) /\ Len(body) \in Nat
      BY <1>10, <2>1, TextIs DEF Sent
    <3>2. Len(m) \in {needed - 1, needed}
      <4> HIDE DEF needed
      <4>1. CASE h = 2
        BY <1>10, <3>1, <4>1
      <4>2. CASE h = 3
        BY <1>10, <3>1, <4>2
      <4>3. QED
        BY <3>1, <4>1, <4>2
    <3>3. QED
      BY <2>1, <3>2 DEF Sent
  <2>7. QED
    BY <1>13, <2>4, <2>5, <2>6, Zenon DEF PublishReadBack, m, topic, data, qos, cap
<1>14. QED
  BY <1>12, <1>13

-----------------------------------------------------------------------------
(***************************************************************************)
(* Subscribing and unsubscribing.                                          *)
(***************************************************************************)

\* The body of a subscribing message: the id, the topic and what follows it.
SubscribeBody(body, id, topic, behind) ==
    /\ body \in Text /\ Len(body) = 4 + Len(topic) + Len(behind)
    /\ body[1] * 256 + body[2] = id
    /\ body[3] * 256 + body[4] = Len(topic)
    /\ \A i \in 1..Len(topic) : body[4 + i] = topic[i]
    /\ \A i \in 1..Len(behind) : body[4 + Len(topic) + i] = behind[i]

\* What stands where in it.
LEMMA SubscribeBodyIs ==
    ASSUME NEW id \in Short, NEW topic \in Text, NEW behind \in Text, Len(topic) \in Short
    PROVE  SubscribeBody((TwoBytes(id) \o (TwoBytes(Len(topic)) \o topic)) \o behind,
                         id, topic, behind)
<1> DEFINE ident == TwoBytes(id)
           w == TwoBytes(Len(topic))
           wt == w \o topic
           iwt == ident \o wt
           body == iwt \o behind
           a == Len(topic)
           d == Len(behind)
<1>1. a \in Nat /\ d \in Nat /\ id \in Nat
  BY TextIs DEF Short
<1>2. ident \in Text /\ Len(ident) = 2 /\ ident[1] * 256 + ident[2] = id
  BY <1>1, TwoBytesIs
<1>3. w \in Text /\ Len(w) = 2 /\ w[1] * 256 + w[2] = a
  BY <1>1, TwoBytesIs
<1> HIDE DEF w, ident
<1>4. /\ wt \in Text /\ Len(wt) = Len(w) + a
      /\ \A i \in 1..Len(w) : wt[i] = w[i]
      /\ \A i \in 1..a : wt[Len(w) + i] = topic[i]
  BY <1>3, TextConcat
<1> HIDE DEF wt
<1>5. /\ iwt \in Text /\ Len(iwt) = Len(ident) + Len(wt)
      /\ \A i \in 1..Len(ident) : iwt[i] = ident[i]
      /\ \A i \in 1..Len(wt) : iwt[Len(ident) + i] = wt[i]
  BY <1>2, <1>4, TextConcat
<1> HIDE DEF iwt
<1>6. /\ body \in Text /\ Len(body) = Len(iwt) + d
      /\ \A i \in 1..Len(iwt) : body[i] = iwt[i]
      /\ \A i \in 1..d : body[Len(iwt) + i] = behind[i]
  BY <1>5, TextConcat
<1> HIDE DEF body, a, d
<1>7. Len(wt) = 2 + a /\ Len(iwt) = 4 + a /\ Len(body) = 4 + a + d
  <2>1. Len(wt) = 2 + a
    BY <1>3, <1>4
  <2>2. Len(iwt) = 4 + a
    BY <1>1, <1>2, <1>5, <2>1
  <2>3. QED
    BY <1>6, <2>1, <2>2
<1>8. ASSUME NEW i \in 1..2 + a PROVE body[2 + i] = wt[i]
  <2>1. 2 + i \in 1..Len(iwt) /\ i \in 1..Len(wt)
    BY <1>1, <1>7
  <2>2. iwt[2 + i] = wt[i]
    BY <1>2, <1>5, <2>1
  <2>3. QED
    BY <1>6, <2>1, <2>2
<1>9. body[1] * 256 + body[2] = id
  <2>1. 1 \in 1..Len(iwt) /\ 2 \in 1..Len(iwt) /\ 1 \in 1..Len(ident) /\ 2 \in 1..Len(ident)
    BY <1>1, <1>2, <1>7
  <2>2. body[1] = ident[1] /\ body[2] = ident[2]
    BY <1>5, <1>6, <2>1
  <2>3. QED
    BY <1>2, <2>2
<1>10. body[3] * 256 + body[4] = a
  <2>1. /\ 1 \in 1..2 + a /\ 2 \in 1..2 + a /\ 1 \in 1..Len(w) /\ 2 \in 1..Len(w)
        /\ 2 + 1 = 3 /\ 2 + 2 = 4
    BY <1>1, <1>3
  <2>2. body[2 + 1] = wt[1] /\ body[2 + 2] = wt[2]
    BY <1>8, <2>1
  <2>3. wt[1] = w[1] /\ wt[2] = w[2]
    BY <1>4, <2>1
  <2>4. QED
    BY <1>3, <2>1, <2>2, <2>3
<1>11. ASSUME NEW i \in 1..a PROVE body[4 + i] = topic[i]
  <2>1. 2 + i \in 1..2 + a /\ 2 + (2 + i) = 4 + i
    BY <1>1
  <2>2. body[2 + (2 + i)] = wt[2 + i]
    BY <1>8, <2>1
  <2>3. QED
    BY <1>3, <1>4, <2>1, <2>2
<1>12. ASSUME NEW i \in 1..d PROVE body[4 + a + i] = behind[i]
  BY <1>6, <1>7
<1>13. QED
  BY <1>6, <1>7, <1>9, <1>10, <1>11, <1>12, Zenon DEF SubscribeBody, body, iwt, wt, w, ident, a, d

\* The id, the topic and what follows it, behind a header of h bytes.
Subscribed(m, h, id, topic, behind) ==
    /\ At(m, h) * 256 + At(m, h + 1) = id
    /\ At(m, h + 2) * 256 + At(m, h + 3) = Len(topic)
    /\ SubSeq(m, h + 5, Len(m)) = topic \o behind

\* How such a message is read.
LEMMA SubscribeRead ==
    ASSUME NEW id, NEW topic \in Text, NEW behind \in Text, NEW body, NEW m, NEW type, NEW h,
           SubscribeBody(body, id, topic, behind), Sent(m, body, type, 1, h)
    PROVE  Subscribed(m, h, id, topic, behind)
<1> DEFINE a == Len(topic)
           d == Len(behind)
           rest == topic \o behind
<1>1. a \in Nat /\ d \in Nat
  BY TextIs
<1>2. h \in {2, 3} /\ Len(m) = h + (4 + a + d) /\ m \in Text
  BY DEF Sent, SubscribeBody
<1>3. ASSUME NEW i \in 1..4 + a + d PROVE m[h + i] = body[i]
  BY <1>3 DEF Sent, SubscribeBody
<1>4. /\ rest \in Text /\ Len(rest) = a + d
      /\ \A i \in 1..a : rest[i] = topic[i]
      /\ \A i \in 1..d : rest[a + i] = behind[i]
  BY TextConcat
<1> HIDE DEF rest, a, d
<1>5. /\ 1 \in 1..4 + a + d /\ 2 \in 1..4 + a + d /\ 3 \in 1..4 + a + d /\ 4 \in 1..4 + a + d
      /\ h + 1 + 1 = h + 2 /\ h + 2 + 1 = h + 3 /\ h + 3 + 1 = h + 4
  BY <1>1, <1>2
<1>6. m[h + 1] = body[1] /\ m[h + 2] = body[2] /\ m[h + 3] = body[3] /\ m[h + 4] = body[4]
  BY <1>3, <1>5
<1>7. At(m, h) * 256 + At(m, h + 1) = id
  <2>1. body[1] * 256 + body[2] = id
    BY DEF SubscribeBody
  <2>2. QED
    BY <1>5, <1>6, <2>1 DEF At
<1>8. At(m, h + 2) * 256 + At(m, h + 3) = Len(topic)
  <2>1. body[3] * 256 + body[4] = Len(topic)
    BY DEF SubscribeBody
  <2>2. QED
    BY <1>5, <1>6, <2>1 DEF At
<1>9. ASSUME NEW i \in 1..Len(rest) PROVE m[(h + 4) + i] = rest[i]
  <2>1. 4 + i \in 1..4 + a + d /\ h + (4 + i) = (h + 4) + i
    BY <1>1, <1>2, <1>4
  <2>2. m[(h + 4) + i] = body[4 + i]
    BY <1>3, <2>1
  <2>3. CASE i <= a
    <3>1. i \in 1..a
      BY <1>1, <1>4, <2>3
    <3>2. body[4 + i] = topic[i]
      BY <3>1 DEF SubscribeBody, a
    <3>3. QED
      BY <1>4, <2>2, <3>1, <3>2
  <2>4. CASE ~ (i <= a)
    <3> DEFINE j == i - a
    <3>1. j \in 1..d /\ i = a + j /\ 4 + a + j = 4 + i
      BY <1>1, <1>4, <2>4
    <3> HIDE DEF j
    <3>2. body[4 + a + j] = behind[j]
      BY <3>1 DEF SubscribeBody, a, d
    <3>3. QED
      BY <1>4, <2>2, <3>1, <3>2
  <2>5. QED
    BY <2>3, <2>4
<1>10. SubSeq(m, h + 5, Len(m)) = rest
  <2>1. /\ h + 4 \in Nat /\ (h + 4) + Len(rest) = Len(m) /\ (h + 4) + 1 = h + 5
        /\ (h + 4) + Len(rest) <= Len(m)
    BY <1>1, <1>2, <1>4
  <2>2. SubSeq(m, (h + 4) + 1, (h + 4) + Len(rest)) = rest
    BY <1>2, <1>4, <1>9, <2>1, SliceIs
  <2>3. QED
    BY <2>1, <2>2
<1>11. QED
  BY <1>7, <1>8, <1>10 DEF rest, Subscribed

\* A subscribing message is refused exactly when it has no topic or does not fit, and
\* carries what SubscribeReadBack says otherwise.
Carried(m, type, id, topic, behind, cap) ==
    LET i == HeaderEnd(m, Len(m))
        needed == MQTT_MAX_FIXED_HEADER_SIZE + 4 + Len(topic) + Len(behind)
    IN  IF topic = <<>> \/ needed > cap THEN m = <<>>
        ELSE /\ GetTotalLength(m, Len(m)) = Len(m) /\ GetType(m) = type /\ GetQos(m) = 1
             /\ At(m, i) * 256 + At(m, i + 1) = id
             /\ At(m, i + 2) * 256 + At(m, i + 3) = Len(topic)
             /\ SubSeq(m, i + 5, Len(m)) = topic \o behind

\* Finishing the body of such a message.
LEMMA CarriedIs ==
    ASSUME NEW id \in RandomIds, NEW topic \in Text, NEW behind \in Text, NEW cap \in Buffers,
           NEW type \in 1..14, NEW body,
           topic = <<>> => body = Failed,
           topic # <<>> => body = Fit((TwoBytes(id) \o (TwoBytes(Len(topic)) \o topic)) \o behind,
                                      cap)
    PROVE  Carried(Finished(body, type, 1, 0), type, id, topic, behind, cap)
<1> DEFINE whole == (TwoBytes(id) \o (TwoBytes(Len(topic)) \o topic)) \o behind
           m == Finished(body, type, 1, 0)
           needed == MQTT_MAX_FIXED_HEADER_SIZE + 4 + Len(topic) + Len(behind)
           h == 1 + Len(RemainingLength(Len(whole)))
<1>1. cap \in Nat /\ cap <= 16386 /\ id \in Short /\ id \in Nat
  BY SMT DEF Buffers, MQTT_MAX_FIXED_HEADER_SIZE, RandomIds, Short
<1>2. Len(topic) \in Nat /\ Len(behind) \in Nat
  BY TextIs
<1>3. topic = <<>> => m = <<>>
  BY DEF Finished
<1>4. whole \in Text /\ 3 + Len(whole) = needed
  <2> DEFINE ident == TwoBytes(id)
             w == TwoBytes(Len(topic))
  <2>1. ident \in Text /\ Len(ident) = 2 /\ w \in Text /\ Len(w) = 2
    BY <1>1, <1>2, TwoBytesIs
  <2> HIDE DEF ident, w
  <2> DEFINE wt == w \o topic
  <2>2. wt \in Text /\ Len(wt) = Len(w) + Len(topic)
    BY <2>1, TextConcat
  <2> HIDE DEF wt
  <2> DEFINE iwt == ident \o wt
  <2>3. iwt \in Text /\ Len(iwt) = Len(ident) + Len(wt)
    BY <2>1, <2>2, TextConcat
  <2> HIDE DEF iwt
  <2> DEFINE all == iwt \o behind
  <2>4. all \in Text /\ Len(all) = Len(iwt) + Len(behind)
    BY <2>3, TextConcat
  <2>5. all = whole
    BY DEF all, iwt, wt, w, ident
  <2> HIDE DEF all, whole
  <2>6. 3 + Len(all) = needed
    BY <1>2, <2>1, <2>2, <2>3, <2>4 DEF MQTT_MAX_FIXED_HEADER_SIZE
  <2>7. QED
    BY <2>4, <2>5, <2>6
<1> HIDE DEF needed
<1>5. topic # <<>> => m = Finished(Fit(whole, cap), type, 1, 0)
  OBVIOUS
<1> HIDE DEF m, whole, h
<1>6. CASE topic = <<>> \/ needed > cap
  <2>1. m = <<>>
    <3>1. CASE topic = <<>>
      BY <1>3, <3>1
    <3>2. CASE topic # <<>> /\ needed > cap
      <4>1. 3 + Len(whole) > cap /\ 1 \in 0..2 /\ 0 \in 0..1
        BY <1>4, <3>2
      <4>2. Finished(Fit(whole, cap), type, 1, 0) = <<>>
        BY <1>4, <4>1, FinishedIs
      <4>3. QED
        BY <1>5, <3>2, <4>2
    <3>3. QED
      BY <1>6, <3>1, <3>2
  <2>2. QED
    BY <1>6, <2>1, Zenon DEF Carried, m, needed
<1>7. CASE ~ (topic = <<>> \/ needed > cap)
  <2>1. Sent(m, whole, type, 1, h)
    <3>1. ~ (3 + Len(whole) > cap) /\ 1 \in 0..2 /\ 0 \in 0..1
      BY <1>4, <1>7
    <3>2. Sent(Finished(Fit(whole, cap), type, 1, 0), whole, type, 1,
               1 + Len(RemainingLength(Len(whole))))
      BY <1>4, <3>1, FinishedIs
    <3>3. QED
      BY <1>5, <1>7, <3>2 DEF h
  <2>2. Len(topic) \in Short
    <3> DEFINE l == Len(topic)
               r == Len(behind)
    <3>1. l \in Nat /\ r \in Nat /\ needed = 7 + l + r
      BY <1>2 DEF needed, MQTT_MAX_FIXED_HEADER_SIZE
    <3> HIDE DEF l, r
    <3>2. l <= 65535
      BY <1>1, <1>7, <3>1, SMT
    <3>3. QED
      BY <1>2, <3>2, SMT DEF Short, l
  <2>3. SubscribeBody(whole, id, topic, behind)
    BY <1>1, <2>2, SubscribeBodyIs DEF whole
  <2>4. Subscribed(m, h, id, topic, behind)
    BY <2>1, <2>3, SubscribeRead
  <2>5. /\ HeaderEnd(m, Len(m)) = h /\ GetTotalLength(m, Len(m)) = Len(m)
        /\ GetType(m) = type /\ GetQos(m) = 1
    BY <2>1 DEF Sent
  <2>6. QED
    BY <1>7, <2>4, <2>5, Zenon DEF Carried, Subscribed, m, needed
<1>8. QED
  BY <1>6, <1>7

\* SubscribeReadBack: a subscribing or unsubscribing message is refused exactly when it has
\* no topic or does not fit, and carries its id and topic otherwise.
LEMMA SubscribeRight ==
    ASSUME InputInv
    PROVE  SubscribeReadBack
<1> SUFFICES ASSUME Is("subscribe") PROVE SubscribeReadBack
  BY DEF SubscribeReadBack
<1> DEFINE topic == input.topic
           qos == input.qos
           id == input.id
           cap == input.cap
           ident == TwoBytes(id)
           named == TwoBytes(Len(topic)) \o topic
           start == AppendString(AppendMessageId(Required(<<>>, topic), id, cap), topic, cap)
<1>1. topic \in Text /\ qos \in 0..2 /\ id \in RandomIds /\ cap \in Buffers
  BY InputIsValid DEF Is, Valid, ValidSubscribe
<1>2. cap \in Nat /\ id \in Nat
  BY <1>1, SMT DEF Buffers, RandomIds
<1>3. <<qos>> \in Text /\ <<>> \in Text
  BY <1>1, EmptyText DEF Text, Byte
<1>4. ident \in Text
  BY <1>2, TwoBytesIs
<1>5. named \in Text
  <2> DEFINE w == TwoBytes(Len(topic))
  <2>1. Len(topic) \in Nat
    BY <1>1, TextIs
  <2>2. w \in Text
    BY <2>1, TwoBytesIs
  <2> HIDE DEF w
  <2>3. w \o topic \in Text
    BY <1>1, <2>2, TextConcat
  <2>4. QED
    BY <2>3 DEF w
<1>6. MsgType.SUBSCRIBE = 8 /\ MsgType.UNSUBSCRIBE = 10
  BY DEF MsgType
<1>7. ident \o named \in Text
  <2> HIDE DEF ident, named
  <2>1. QED
    BY <1>4, <1>5, TextConcat
<1>8. topic = <<>> => start = Failed
  BY FailedStays, Zenon DEF AppendString, AppendMessageId, Required
<1>9. topic # <<>> => start = Fit(ident \o named, cap)
  <2> SUFFICES ASSUME topic # <<>> PROVE start = Fit(ident \o named, cap)
    OBVIOUS
  <2> HIDE DEF topic, cap, id
  <2>1. AppendMessageId(Required(<<>>, topic), id, cap) = Fit(ident, cap)
    BY <1>2, <1>4, StartFits DEF AppendMessageId, Required
  <2>2. Appended(Fit(ident, cap), named, cap) = Fit(ident \o named, cap)
    <3> HIDE DEF ident, named
    <3>1. QED
      BY <1>2, <1>4, <1>5, AppendedFits
  <2>3. start = Appended(AppendMessageId(Required(<<>>, topic), id, cap), named, cap)
    BY DEF AppendString
  <2> HIDE DEF start, ident, named
  <2>4. QED
    BY <2>1, <2>2, <2>3
<1>10. Carried(MsgSubscribe(topic, qos, id, cap), MsgType.SUBSCRIBE, id, topic, <<qos>>, cap)
  <2> DEFINE b == Appended(start, <<qos>>, cap)
             q == <<qos>>
  <2>1. MsgSubscribe(topic, qos, id, cap) = Finished(b, MsgType.SUBSCRIBE, 1, 0)
    BY DEF MsgSubscribe
  <2>2. topic = <<>> => b = Failed
    BY <1>8, FailedStays
  <2>3. topic # <<>> => b = Fit((ident \o named) \o q, cap)
    <3> HIDE DEF start, ident, named, topic, cap
    <3>1. q \in Text
      BY <1>3
    <3> HIDE DEF q
    <3>2. Appended(Fit(ident \o named, cap), q, cap) = Fit((ident \o named) \o q, cap)
      BY <1>2, <1>7, <3>1, AppendedFits
    <3>3. QED
      BY <1>9, <3>2 DEF q
  <2>4. q \in Text
    BY <1>3
  <2> HIDE DEF b, q, topic, cap, id
  <2>5. MsgType.SUBSCRIBE \in 1..14
    BY <1>6
  <2>6. Carried(Finished(b, MsgType.SUBSCRIBE, 1, 0), MsgType.SUBSCRIBE, id, topic, q, cap)
    BY <1>1, <2>2, <2>3, <2>4, <2>5, CarriedIs
  <2>7. QED
    BY <2>1, <2>6 DEF q
<1>11. Carried(MsgUnsubscribe(topic, id, cap), MsgType.UNSUBSCRIBE, id, topic, <<>>, cap)
  <2>1. MsgUnsubscribe(topic, id, cap) = Finished(start, MsgType.UNSUBSCRIBE, 1, 0)
    BY DEF MsgUnsubscribe
  <2>2. (ident \o named) \o <<>> = ident \o named
    <3> HIDE DEF ident, named
    <3>1. QED
      BY <1>7, EmptyText
  <2>3. topic # <<>> => start = Fit((ident \o named) \o <<>>, cap)
    BY <1>9, <2>2
  <2> HIDE DEF start, topic, cap, id
  <2>4. MsgType.UNSUBSCRIBE \in 1..14
    BY <1>6
  <2>5. Carried(Finished(start, MsgType.UNSUBSCRIBE, 1, 0), MsgType.UNSUBSCRIBE, id, topic, <<>>,
                cap)
    BY <1>1, <1>3, <1>8, <2>3, <2>4, CarriedIs
  <2>6. QED
    BY <2>1, <2>5
<1>12. QED
  BY <1>10, <1>11, Zenon DEF SubscribeReadBack, Carried

\* AckReadBack: an acknowledgement fits a buffer of five bytes, and carries the id it was
\* given, or a drawn one for the id 0.
LEMMA AckRight ==
    ASSUME InputInv
    PROVE  AckReadBack
<1> SUFFICES ASSUME Is("ack") PROVE AckReadBack
  BY DEF AckReadBack
<1> DEFINE type == input.type
           id == IF input.id = 0 THEN input.random ELSE input.id
           cap == input.cap
           qos == IF type = MsgType.PUBREL THEN 1 ELSE 0
           a == (id \div 256) % 256
           b == id % 256
           first == type * 16 + (qos % 4) * 2 + (0 % 2)
           two == TwoBytes(id)
           m == MsgAck(type, input.id, input.random, cap)
<1>1. type \in 4..7 /\ cap \in Nat /\ id \in Nat /\ id \in Short
  <2>1. type \in Acknowledgements /\ input.id \in Short /\ input.random \in RandomIds /\ cap \in Nat
    BY InputIsValid DEF Is, Valid, ValidAck
  <2>2. type \in 4..7
    BY <2>1 DEF Acknowledgements, MsgType
  <2>3. id \in Nat /\ id \in Short
    BY <2>1, SMT DEF Short, RandomIds
  <2>4. QED
    BY <2>1, <2>2, <2>3
<1>2. two = <<a, b>> /\ two \in Text /\ Len(two) = 2
  BY <1>1, TwoBytesIs DEF TwoBytes
<1>3. a \in Byte /\ b \in Byte /\ a * 256 + b = id
  <2>1. two[1] * 256 + two[2] = id
    BY <1>1, TwoBytesIs
  <2>2. two[1] \in Byte /\ two[2] \in Byte
    BY <1>2, TextIs
  <2> HIDE DEF a, b, two
  <2>3. QED
    BY <1>2, <2>1, <2>2
<1>4. m = Finished(Fit(two, cap), type, qos, 0)
  <2>1. m = Finished(Appended(<<>>, two, cap), type, qos, 0)
    BY DEF MsgAck, AppendMessageId, Identified
  <2>2. Appended(<<>>, two, cap) = Fit(two, cap)
    BY <1>1, <1>2, StartFits
  <2> HIDE DEF m, id, cap
  <2>3. QED
    BY <2>1, <2>2
<1> HIDE DEF two
<1>5. CASE cap < 5
  <2>1. Fit(two, cap) = Failed
    BY <1>1, <1>2, <1>5 DEF Fit
  <2>2. m = <<>>
    BY <1>4, <2>1 DEF Finished
  <2> HIDE DEF m
  <2>3. QED
    BY <1>5, <2>2, Zenon DEF AckReadBack, m, cap, type
<1>6. CASE ~ (cap < 5)
  <2>1. Fit(two, cap) = two /\ two # Failed
    BY <1>1, <1>2, <1>6, TextNotFailed DEF Fit
  <2>2. RemainingLength(2) = <<2>>
    BY DEF RemainingLength
  <2>3. m = <<first>> \o RemainingLength(Len(two)) \o two
    <3> HIDE DEF m, id
    <3>1. m = Finished(two, type, qos, 0)
      BY <1>4, <2>1
    <3>2. QED
      BY <2>1, <3>1, Zenon DEF Finished
  <2>4. first \in Byte /\ first \div 16 = type
    <3>1. type \in 1..14 /\ qos \in 0..2 /\ 0 \in 0..1
      BY <1>1
    <3> HIDE DEF type, qos
    <3>2. QED
      BY <3>1, FirstIs
  <2> HIDE DEF first, a, b, m
  <2> DEFINE f == <<first>>
             r == <<2>>
             fr == f \o r
  <2>5. f \in Text /\ Len(f) = 1 /\ f[1] = first /\ r \in Text /\ Len(r) = 1 /\ r[1] = 2
    BY <2>4 DEF Text, Byte
  <2>6. Len(m) = 4 /\ At(m, 0) = first /\ At(m, 1) = 2 /\ At(m, 2) = a /\ At(m, 3) = b
    <3>1. m = fr \o two
      BY <1>2, <2>2, <2>3
    <3> HIDE DEF f, r
    <3>2. fr \in Text /\ Len(fr) = 2 /\ fr[1] = first /\ fr[1 + 1] = 2
      <4>1. /\ fr \in Text /\ Len(fr) = Len(f) + Len(r)
            /\ \A i \in 1..Len(f) : fr[i] = f[i]
            /\ \A i \in 1..Len(r) : fr[Len(f) + i] = r[i]
        BY <2>5, TextConcat
      <4> HIDE DEF fr
      <4>2. QED
        BY <2>5, <4>1
    <3> HIDE DEF fr
    <3>3. two[1] = a /\ two[2] = b
      BY <1>2
    <3>4. /\ m \in Text /\ Len(m) = Len(fr) + Len(two)
          /\ \A i \in 1..Len(fr) : m[i] = fr[i]
          /\ \A i \in 1..Len(two) : m[Len(fr) + i] = two[i]
      BY <1>2, <3>1, <3>2, TextConcat
    <3>5. Len(m) = 4 /\ m[1] = first /\ m[2] = 2 /\ m[2 + 1] = a /\ m[2 + 2] = b
      BY <1>2, <3>2, <3>3, <3>4
    <3>6. QED
      BY <3>5 DEF At
  <2>7. HeaderEnd(m, 4) = 2
    <3>1. 1 \in 1..4 - 1 /\ At(m, 1) < 128
      BY <2>6
    <3>2. \A j \in 1..1 - 1 : ~ (At(m, j) < 128)
      OBVIOUS
    <3>3. HeaderEnd(m, 4) = 1 + 1
      BY <3>1, <3>2, HeaderEndIs
    <3>4. QED
      BY <3>3
  <2>8. GetTotalLength(m, 4) = 4
    <3>1. \A k \in 1..HeaderEnd(m, 4) - 1 : At(m, k) \in Byte
      BY <2>6, <2>7 DEF Byte
    <3>2. GetTotalLength(m, 4) = 2 + (At(m, 1) % 128) + 0 + 0
      BY <2>7, <3>1, TotalIs
    <3>3. QED
      BY <2>6, <3>2
  <2>9. GetType(m) = type
    BY <2>4, <2>6 DEF GetType
  <2>10. GetId(m, 4) = id
    <3>1. /\ GetType(m) # MsgType.PUBLISH
          /\ GetType(m) \in {MsgType.PUBACK, MsgType.PUBREC, MsgType.PUBREL, MsgType.PUBCOMP,
                             MsgType.SUBACK, MsgType.UNSUBACK, MsgType.SUBSCRIBE}
      BY <1>1, <2>9 DEF MsgType
    <3>2. GetId(m, 4) = At(m, 2) * 256 + At(m, 3)
      BY <2>6, <3>1 DEF GetId
    <3> HIDE DEF id
    <3>3. QED
      BY <1>3, <2>6, <3>2
  <2> HIDE DEF cap
  <2>11. QED
    BY <1>6, <2>6, <2>8, <2>9, <2>10, Zenon DEF AckReadBack, m, cap, type, id
<1>7. QED
  BY <1>5, <1>6

-----------------------------------------------------------------------------
(***************************************************************************)
(* Delivering.                                                             *)
(***************************************************************************)

Chunk == [offset : Nat, length : Int, total : Nat]

Chunks == {s \in Seq(Chunk) : Len(s) > 0}

\* The chunks after the k-th read, when got[k - 1] bytes had come before it.
Served(before, k, got, length, reads, total) ==
    LET last == before[Len(before)]
    IN  IF Len(before) < k \/ got[k - 1] >= length \/ reads[k] <= 0
        THEN before
        ELSE Append(before, [offset |-> UInt16(last.offset + last.length), length |-> reads[k],
                             total |-> total])

\* What a delivery has done after each read.
Delivery(events, got, length, read, data, reads, total) ==
    /\ got[0] = read /\ \A k \in 1..Len(reads) : got[k] = UInt16(got[k - 1] + reads[k])
    /\ events[0] = <<[offset |-> 0, length |-> data, total |-> total]>>
    /\ \A k \in 1..Len(reads) :
           events[k] = Served(events[k - 1], k, got, length, reads, total)

\* Another chunk makes chunks of chunks.
LEMMA ServedIs ==
    ASSUME NEW before \in Chunks, NEW k, NEW got, NEW length, NEW reads, reads[k] \in Int,
           NEW total \in Nat
    PROVE  Served(before, k, got, length, reads, total) \in Chunks
<1> DEFINE last == before[Len(before)]
           chunk == [offset |-> UInt16(last.offset + last.length), length |-> reads[k],
                     total |-> total]
<1>1. before \in Seq(Chunk) /\ Len(before) \in Nat /\ Len(before) > 0
  BY DEF Chunks
<1>2. last \in Chunk
  BY <1>1
<1> HIDE DEF last
<1>3. UInt16(last.offset + last.length) \in Nat
  BY <1>2 DEF Chunk, UInt16
<1>4. chunk \in Chunk
  BY <1>3 DEF Chunk
<1> HIDE DEF chunk
<1>5. Append(before, chunk) \in Seq(Chunk) /\ Len(Append(before, chunk)) = Len(before) + 1
  BY <1>1, <1>4
<1>6. Append(before, chunk) \in Chunks
  BY <1>1, <1>5 DEF Chunks
<1>7. QED
  BY <1>6 DEF Served, chunk, last

\* Deliver is such a delivery.
LEMMA DeliverIs ==
    ASSUME NEW length \in Nat, NEW read \in Nat, NEW data \in Nat, NEW reads \in Seq(Int)
    PROVE  \E events \in [0..Len(reads) -> Chunks], got \in [0..Len(reads) -> Int] :
               /\ Delivery(events, got, length, read, data, reads, UInt16(length - read + data))
               /\ Deliver(length, read, data, reads) = events[Len(reads)]
<1> DEFINE n == Len(reads)
           total == UInt16(length - read + data)
           first == <<[offset |-> 0, length |-> data, total |-> total]>>
           G(f) == [k \in 0..n |-> IF k = 0 THEN read ELSE UInt16(f[k - 1] + reads[k])]
           got == CHOOSE f : f = G(f)
           E(f) == [k \in 0..n |->
                       IF k = 0 THEN first ELSE Served(f[k - 1], k, got, length, reads, total)]
           events == CHOOSE f : f = E(f)
           g == [p \in (1..n) \X Int |-> UInt16(p[2] + reads[p[1]])]
<1>1. n \in Nat /\ (\A k \in 1..n : reads[k] \in Int) /\ total \in Nat
  BY DEF UInt16
<1>2. Deliver(length, read, data, reads) = events[n]
  BY Zenon DEF Deliver, Served
<1> HIDE DEF n, total
<1>3. g \in [(1..n) \X Int -> Int]
  BY <1>1 DEF UInt16
<1>4. PICK h \in [0..n -> Int] : Follows(h, n, read, g)
  <2> HIDE DEF g
  <2>1. read \in Int
    OBVIOUS
  <2>2. QED
    BY <1>1, <1>3, <2>1, RecursionExists
<1>5. ASSUME NEW k \in 1..n PROVE h[k] = UInt16(h[k - 1] + reads[k])
  <2>1. h[k - 1] \in Int
    BY <1>1
  <2>2. g[<<k, h[k - 1]>>] = UInt16(h[k - 1] + reads[k])
    BY <2>1
  <2> HIDE DEF g
  <2>3. QED
    BY <1>4, <2>2 DEF Follows
<1>6. got = G(got)
  <2>1. h = G(h)
    BY <1>1, <1>4, <1>5 DEF Follows
  <2> HIDE DEF G
  <2>2. QED
    BY <2>1
<1> HIDE DEF got
<1>7. /\ got[0] = read /\ \A k \in 1..n : got[k] = UInt16(got[k - 1] + reads[k])
      /\ got \in [0..n -> Int]
  <2>1. got[0] = read /\ \A k \in 1..n : got[k] = UInt16(got[k - 1] + reads[k])
    BY <1>1, <1>6
  <2> DEFINE T == {k \in Nat : k <= n => got[k] \in Int}
  <2>2. 0 \in T
    BY <2>1
  <2>3. ASSUME NEW k \in T PROVE k + 1 \in T
    <3> SUFFICES ASSUME k + 1 <= n PROVE got[k + 1] \in Int
      OBVIOUS
    <3>1. k + 1 \in 1..n /\ (k + 1) - 1 = k /\ got[k] \in Int
      BY <1>1
    <3>2. got[k + 1] = UInt16(got[k] + reads[k + 1]) /\ reads[k + 1] \in Int
      BY <1>1, <2>1, <3>1
    <3>3. QED
      BY <3>1, <3>2 DEF UInt16
  <2>4. T = Nat
    <3>1. T \in SUBSET Nat
      OBVIOUS
    <3> HIDE DEF T
    <3>2. QED
      BY <2>2, <2>3, <3>1, Induction
  <2>5. ASSUME NEW k \in 0..n PROVE got[k] \in Int
    <3>1. k \in Nat /\ k <= n
      BY <1>1
    <3>2. k \in T
      BY <2>4, <3>1
    <3>3. QED
      BY <3>1, <3>2
  <2>6. got = [k \in 0..n |-> got[k]]
    BY <1>6
  <2>7. QED
    BY <2>1, <2>5, <2>6
<1> DEFINE s == [p \in (1..n) \X Chunks |-> Served(p[2], p[1], got, length, reads, total)]
<1>8. s \in [(1..n) \X Chunks -> Chunks]
  <2>1. ASSUME NEW p \in (1..n) \X Chunks
        PROVE  Served(p[2], p[1], got, length, reads, total) \in Chunks
    <3>1. p[2] \in Chunks /\ reads[p[1]] \in Int
      BY <1>1
    <3>2. QED
      BY <1>1, <3>1, ServedIs
  <2>2. QED
    BY <2>1
<1>9. first \in Chunks
  <2>1. [offset |-> 0, length |-> data, total |-> total] \in Chunk
    BY <1>1 DEF Chunk
  <2>2. QED
    BY <2>1 DEF Chunks
<1> HIDE DEF first
<1>10. PICK e \in [0..n -> Chunks] : Follows(e, n, first, s)
  <2> HIDE DEF s
  <2>1. QED
    BY <1>1, <1>8, <1>9, RecursionExists
<1>11. ASSUME NEW k \in 1..n PROVE e[k] = Served(e[k - 1], k, got, length, reads, total)
  <2>1. e[k - 1] \in Chunks
    BY <1>1
  <2>2. s[<<k, e[k - 1]>>] = Served(e[k - 1], k, got, length, reads, total)
    BY <2>1
  <2> HIDE DEF s
  <2>3. QED
    BY <1>10, <2>2 DEF Follows
<1>12. events = E(events)
  <2>1. e = E(e)
    BY <1>1, <1>10, <1>11 DEF Follows
  <2> HIDE DEF E
  <2>2. QED
    BY <2>1
<1> HIDE DEF events
<1>13. /\ events[0] = first
       /\ \A k \in 1..n : events[k] = Served(events[k - 1], k, got, length, reads, total)
  BY <1>1, <1>12
<1>14. events \in [0..n -> Chunks]
  <2> DEFINE T == {k \in Nat : k <= n => events[k] \in Chunks}
  <2>1. 0 \in T
    BY <1>9, <1>13
  <2>2. ASSUME NEW k \in T PROVE k + 1 \in T
    <3> SUFFICES ASSUME k + 1 <= n PROVE events[k + 1] \in Chunks
      OBVIOUS
    <3>1. k + 1 \in 1..n /\ (k + 1) - 1 = k /\ events[k] \in Chunks
      BY <1>1
    <3>2. reads[k + 1] \in Int /\ events[k + 1] = Served(events[k], k + 1, got, length, reads, total)
      BY <1>1, <1>13, <3>1
    <3>3. QED
      BY <1>1, <3>1, <3>2, ServedIs
  <2>3. T = Nat
    <3>1. T \in SUBSET Nat
      OBVIOUS
    <3> HIDE DEF T
    <3>2. QED
      BY <2>1, <2>2, <3>1, Induction
  <2>4. ASSUME NEW k \in 0..n PROVE events[k] \in Chunks
    <3>1. k \in Nat /\ k <= n
      BY <1>1
    <3>2. k \in T
      BY <2>3, <3>1
    <3>3. QED
      BY <3>1, <3>2
  <2>5. events = [k \in 0..n |-> events[k]]
    BY <1>12
  <2>6. QED
    BY <2>4, <2>5
<1>15. Delivery(events, got, length, read, data, reads, total)
  BY <1>7, <1>13 DEF Delivery, first, n
<1>16. QED
  BY <1>2, <1>7, <1>14, <1>15 DEF n, total

\* The chunks after k reads: they follow each other, and either all reads were served and
\* the chunks make up what came, or a read failed or the message was complete.
Ordered(e, k, got, header, reads, total) ==
    LET n == Len(e)
        end == e[n].offset + e[n].length
    IN  /\ e \in Chunks /\ n <= k + 1 /\ e[1].offset = 0
        /\ \A i \in 2..n : e[i].offset = e[i - 1].offset + e[i - 1].length
        /\ \A i \in 1..n : e[i].total = total /\ e[i].length >= 0
        /\ \A i \in 1..n - 1 : e[i].offset + e[i].length < total
        /\ n = k + 1 => end = got[k] - header
        /\ n < k + 1 => end >= total \/ reads[n] <= 0

\* One more read keeps that.
LEMMA ServedOrdered ==
    ASSUME NEW before, NEW k \in Nat, NEW got, NEW reads, NEW length \in Nat,
           NEW header \in 0..length, NEW total \in Nat, total \in Short, total = length - header,
           got[k] \in Int, reads[k + 1] \in Int, got[k + 1] = UInt16(got[k] + reads[k + 1]),
           length \in Short, reads[k + 1] <= Room(length),
           Ordered(before, k, got, header, reads, total)
    PROVE  Ordered(Served(before, k + 1, got, length, reads, total), k + 1, got, header, reads,
                   total)
<1> DEFINE n == Len(before)
           end == before[n].offset + before[n].length
           chunk == [offset |-> UInt16(end), length |-> reads[k + 1], total |-> total]
           after == Served(before, k + 1, got, length, reads, total)
           stop == n < k + 1 \/ got[k] >= length \/ reads[k + 1] <= 0
<1>1. before \in Seq(Chunk) /\ n \in Nat /\ n > 0 /\ n <= k + 1
  BY DEF Ordered, Chunks
<1>2. /\ before[1].offset = 0
      /\ \A i \in 2..n : before[i].offset = before[i - 1].offset + before[i - 1].length
      /\ \A i \in 1..n : before[i].total = total /\ before[i].length >= 0
      /\ \A i \in 1..n - 1 : before[i].offset + before[i].length < total
      /\ n = k + 1 => end = got[k] - header
      /\ n < k + 1 => end >= total \/ reads[n] <= 0
  BY Zenon DEF Ordered, n, end
<1>3. before[n] \in Chunk /\ end \in Int /\ before[n].offset \in Nat
  <2>1. before[n] \in Chunk
    BY <1>1
  <2>2. QED
    BY <2>1 DEF Chunk
<1>4. after = IF stop THEN before ELSE Append(before, chunk)
  <2>1. (k + 1) - 1 = k
    OBVIOUS
  <2>2. QED
    BY <2>1, Zenon DEF Served, n, end, chunk, stop
<1>5. after \in Chunks
  <2>1. before \in Chunks
    BY DEF Ordered
  <2>2. QED
    BY <2>1, ServedIs
<1> HIDE DEF after
<1>6. CASE stop
  <2>1. after = before
    BY <1>4, <1>6
  <2>2. n <= k + 1 + 1
    BY <1>1
  <2>3. ~ (n = k + 1 + 1)
    BY <1>1
  <2>4. n < k + 1 + 1 => end >= total \/ reads[n] <= 0
    <3>1. CASE n < k + 1
      BY <1>2, <3>1
    <3>2. CASE n = k + 1
      <4>1. CASE got[k] >= length
        <5>1. end >= total
          BY <1>2, <3>2, <4>1
        <5>2. QED
          BY <5>1
      <4>2. CASE reads[k + 1] <= 0
        BY <3>2, <4>2
      <4>3. QED
        BY <1>6, <3>2, <4>1, <4>2
    <3>3. QED
      BY <1>1, <3>1, <3>2
  <2>5. QED
    BY <1>2, <1>5, <2>1, <2>2, <2>3, <2>4, Zenon DEF Ordered, n, end, after
<1>7. CASE ~ stop
  <2>1. n = k + 1 /\ got[k] < length /\ reads[k + 1] > 0
    BY <1>1, <1>7
  <2>2. end = got[k] - header /\ end < total
    BY <1>2, <2>1
  <2>3. UInt16(end) = end /\ end >= 0
    <3>1. before[n].length >= 0 /\ before[n].length \in Int
      <4>1. n \in 1..n
        BY <1>1
      <4>2. before[n].length >= 0
        BY <1>2, <4>1
      <4>3. QED
        BY <1>3, <4>2 DEF Chunk
    <3>2. end >= 0
      BY <1>3, <3>1
    <3> HIDE DEF end
    <3>3. end \in Nat /\ end <= total
      BY <1>3, <2>2, <3>2
    <3>4. UInt16(end) = end
      BY <3>3, SMT DEF UInt16, Short
    <3>5. QED
      BY <3>2, <3>4
  <2>0. got[k + 1] = got[k] + reads[k + 1]
    <3> DEFINE sum == got[k] + reads[k + 1]
    <3>1. sum \in Short
      <4>1. got[k] = end + header /\ end >= 0 /\ end \in Int /\ header \in Nat
        BY <1>3, <2>2, <2>3
      <4> HIDE DEF end
      <4>2. got[k] \in Nat /\ got[k] < length
        BY <2>1, <4>1
      <4>3. QED
        BY <2>1, <4>2, SMT DEF Room, Short
    <3> HIDE DEF sum
    <3>2. UInt16(sum) = sum
      BY <3>1, SMT DEF UInt16, Short
    <3>3. QED
      BY <3>2 DEF sum
  <2> HIDE DEF stop, n
  <2>4. after = Append(before, chunk)
    BY <1>4, <1>7
  <2>5. Len(after) = n + 1 /\ after[n + 1] = chunk /\ \A i \in 1..n : after[i] = before[i]
    <3> HIDE DEF chunk
    <3>1. QED
      BY <1>1, <2>4 DEF n
  <2>6. chunk.offset = end /\ chunk.length = reads[k + 1] /\ chunk.total = total
    BY <2>3
  <2> HIDE DEF chunk
  <2>7. end = before[n].offset + before[n].length
    BY DEF n
  <2> HIDE DEF end
  <2>8. after[1].offset = 0 /\ Len(after) <= k + 1 + 1
    <3>1. 1 \in 1..n /\ n + 1 <= k + 1 + 1
      BY <1>1
    <3>2. after[1] = before[1]
      BY <2>5, <3>1
    <3>3. QED
      BY <1>2, <2>5, <3>1, <3>2
  <2>9. ASSUME NEW i \in 2..n + 1
        PROVE  after[i].offset = after[i - 1].offset + after[i - 1].length
    <3>1. CASE i = n + 1
      <4>1. i - 1 = n /\ n \in 1..n
        BY <1>1, <3>1
      <4>2. QED
        BY <2>5, <2>6, <2>7, <3>1, <4>1
    <3>2. CASE i # n + 1
      <4>1. i \in 2..n /\ i \in 1..n /\ i - 1 \in 1..n
        BY <1>1, <3>2
      <4>2. after[i] = before[i] /\ after[i - 1] = before[i - 1]
        BY <2>5, <4>1
      <4>3. QED
        BY <1>2, <4>1, <4>2
    <3>3. QED
      BY <3>1, <3>2
  <2>10. ASSUME NEW i \in 1..n + 1 PROVE after[i].total = total /\ after[i].length >= 0
    <3>1. CASE i = n + 1
      BY <2>1, <2>5, <2>6, <3>1
    <3>2. CASE i # n + 1
      <4>1. i \in 1..n
        BY <1>1, <3>2
      <4>2. QED
        BY <1>2, <2>5, <4>1
    <3>3. QED
      BY <3>1, <3>2
  <2>11. ASSUME NEW i \in 1..n PROVE after[i].offset + after[i].length < total
    <3>1. CASE i = n
      <4>1. n \in 1..n
        BY <1>1
      <4>2. QED
        BY <2>2, <2>5, <2>7, <3>1, <4>1
    <3>2. CASE i # n
      <4>1. i \in 1..n - 1
        BY <1>1, <3>2
      <4>2. QED
        BY <1>2, <2>5, <4>1
    <3>3. QED
      BY <3>1, <3>2
  <2>12. after[n + 1].offset + after[n + 1].length = got[k + 1] - header
    BY <2>0, <2>1, <2>2, <2>5, <2>6
  <2>13. Len(after) = k + 1 + 1 /\ (n + 1) - 1 = n
    BY <1>1, <2>1, <2>5
  <2>14. ~ (Len(after) < k + 1 + 1)
    BY <2>13
  <2>15. QED
    BY <1>5, <2>5, <2>8, <2>9, <2>10, <2>11, <2>12, <2>13, <2>14, Zenon DEF Ordered, after
<1>8. QED
  BY <1>6, <1>7

\* What DeliveredInOrder says of the events of each kind of first read.
Turns(events, size, reads) ==
    LET last == events[Len(events)]
        served == Len(events) - 1
    IN  /\ events[1].offset = 0
        /\ \A i \in 2..Len(events) :
              events[i].offset = events[i - 1].offset + events[i - 1].length
        /\ \A i \in DOMAIN events : events[i].total = size
        /\ \A i \in 1..served : events[i].offset + events[i].length < size
        /\ (last.offset + last.length < size) =>
               served = Len(reads) \/ reads[served + 1] <= 0

Lone(events, size) ==
    LET last == events[Len(events)]
    IN  Len(events) = 1 /\ last.offset = 0 /\ last.length = size /\ last.total # size

\* A first read that holds more than the message: one event, with a wrong total.
LEMMA DeliveryLone ==
    ASSUME NEW length \in Short, NEW read \in Short, NEW header \in 0..length,
           NEW reads \in Seq(Int), read > length
    PROVE  Lone(Deliver(length, read, length - header, reads), length - header)
<1> DEFINE size == length - header
           total == UInt16(length - read + size)
           n == Len(reads)
           only == [offset |-> 0, length |-> size, total |-> total]
<1>1. length \in Nat /\ read \in Nat /\ size \in Nat /\ size \in Short /\ n \in Nat
  BY SMT DEF Short
<1>2. total # size
  <2> DEFINE beyond == read - length
  <2>1. beyond \in Short /\ beyond # 0 /\ length - read + size = size - beyond
    BY <1>1, SMT DEF Short
  <2> HIDE DEF beyond, size
  <2>2. QED
    BY <1>1, <2>1, SMT DEF UInt16, Short
<1> HIDE DEF size, n
<1>3. PICK events \in [0..n -> Chunks], got \in [0..n -> Int] :
          /\ Delivery(events, got, length, read, size, reads, total)
          /\ Deliver(length, read, size, reads) = events[n]
  <2> HIDE DEF total
  <2>1. total = UInt16(length - read + size) /\ n = Len(reads)
    BY DEF total, n
  <2>2. length \in Nat /\ read \in Nat /\ size \in Nat
    BY <1>1
  <2>3. \E events \in [0..Len(reads) -> Chunks], got \in [0..Len(reads) -> Int] :
            /\ Delivery(events, got, length, read, size, reads, UInt16(length - read + size))
            /\ Deliver(length, read, size, reads) = events[Len(reads)]
    BY <2>2, Zenon, DeliverIs
  <2>4. QED
    BY <2>1, <2>3, Zenon
<1>4. /\ got[0] = read /\ events[0] = <<only>>
      /\ \A k \in 1..n : events[k] = Served(events[k - 1], k, got, length, reads, total)
  BY <1>3, Zenon DEF Delivery, n
<1> DEFINE T == {k \in Nat : k <= n => events[k] = <<only>>}
<1>5. 0 \in T
  BY <1>4
<1> HIDE DEF only, total
<1>6. ASSUME NEW k \in T PROVE k + 1 \in T
  <2> SUFFICES ASSUME k + 1 <= n PROVE events[k + 1] = <<only>>
    OBVIOUS
  <2>1. k \in Nat /\ k + 1 \in 1..n /\ (k + 1) - 1 = k /\ events[k] = <<only>>
    BY <1>1
  <2>2. events[k + 1] = Served(<<only>>, k + 1, got, length, reads, total)
    BY <1>4, <2>1
  <2>3. Len(<<only>>) < k + 1 \/ got[(k + 1) - 1] >= length
    <3>1. CASE k = 0
      BY <1>1, <1>4, <3>1
    <3>2. CASE k # 0
      <4>1. Len(<<only>>) = 1
        OBVIOUS
      <4>2. QED
        BY <2>1, <3>2, <4>1
    <3>3. QED
      BY <3>1, <3>2
  <2>4. QED
    BY <2>2, <2>3, Zenon DEF Served
<1>7. events[n] = <<only>>
  <2>1. T \in SUBSET Nat
    OBVIOUS
  <2> HIDE DEF T
  <2>2. n \in T
    BY <1>1, <1>5, <1>6, <2>1, Induction
  <2>3. n <= n
    BY <1>1
  <2>4. QED
    BY <2>2, <2>3 DEF T
<1>8. Lone(<<only>>, size)
  <2>1. Len(<<only>>) = 1 /\ <<only>>[1] = only
    OBVIOUS
  <2>2. only.offset = 0 /\ only.length = size /\ only.total = total
    BY DEF only
  <2>3. QED
    BY <1>2, <2>1, <2>2 DEF Lone, total
<1>9. QED
  BY <1>3, <1>7, <1>8 DEF size

\* Any other first read, and reads too small to wrap the count.
LEMMA DeliveryTurns ==
    ASSUME NEW length \in Short, NEW read \in Short, NEW header \in 0..read,
           NEW reads \in Seq(Int), read <= length,
           \A k \in DOMAIN reads : reads[k] <= Room(length)
    PROVE  Turns(Deliver(length, read, read - header, reads), length - header, reads)
<1> DEFINE data == read - header
           total == UInt16(length - read + data)
           n == Len(reads)
           all == Deliver(length, read, data, reads)
<1>1. length \in Nat /\ read \in Nat /\ header \in 0..read
  BY DEF Short
<1>2. /\ data \in Nat /\ header \in 0..length /\ n \in Nat
      /\ \A k \in 1..n : reads[k] \in Int /\ reads[k] <= Room(length)
  BY <1>1
<1>3. total \in Nat /\ total \in Short /\ total = length - header
  <2>1. length - read + data = length - header /\ length - header \in Nat
        /\ length - header <= length
    BY <1>1
  <2> DEFINE l == length - header
  <2>2. l \in Short
    <3> HIDE DEF l
    <3>1. QED
      BY <1>1, <2>1, SMT DEF Short, l
  <2>3. UInt16(l) = l
    <3> HIDE DEF l
    <3>1. QED
      BY <2>2, SMT DEF Short, UInt16
  <2>4. QED
    BY <2>1, <2>2, <2>3
<1> HIDE DEF data, total
<1>4. PICK events \in [0..n -> Chunks], got \in [0..n -> Int] :
          Delivery(events, got, length, read, data, reads, total) /\ all = events[n]
  <2> HIDE DEF n, all
  <2>1. total = UInt16(length - read + data) /\ n = Len(reads)
    BY DEF total, n
  <2>2. all = Deliver(length, read, data, reads)
    BY DEF all
  <2>3. length \in Nat /\ read \in Nat /\ data \in Nat
    BY <1>1, <1>2
  <2>4. \E events \in [0..Len(reads) -> Chunks], got \in [0..Len(reads) -> Int] :
            /\ Delivery(events, got, length, read, data, reads, UInt16(length - read + data))
            /\ Deliver(length, read, data, reads) = events[Len(reads)]
    BY <2>3, Zenon, DeliverIs
  <2>5. QED
    BY <2>1, <2>2, <2>4, Zenon
<1> HIDE DEF all
<1>5. /\ got[0] = read /\ \A k \in 1..n : got[k] = UInt16(got[k - 1] + reads[k])
      /\ events[0] = <<[offset |-> 0, length |-> data, total |-> total]>>
      /\ \A k \in 1..n : events[k] = Served(events[k - 1], k, got, length, reads, total)
  BY <1>4, Zenon DEF Delivery, n
<1> HIDE DEF n
<1> DEFINE T == {k \in Nat : k <= n => Ordered(events[k], k, got, header, reads, total)}
<1>6. 0 \in T
  <2> DEFINE e == events[0]
  <2>1. e \in Chunks /\ Len(e) = 1 /\ e[1] = [offset |-> 0, length |-> data, total |-> total]
    <3> DEFINE c == [offset |-> 0, length |-> data, total |-> total]
    <3>1. 0 \in 0..n /\ e = <<c>>
      BY <1>2, <1>5
    <3>2. e \in Chunks
      BY <3>1
    <3> HIDE DEF c, e
    <3>3. Len(e) = 1 /\ e[1] = c
      BY <3>1
    <3>4. QED
      BY <3>2, <3>3 DEF c
  <2>2. /\ e[1].offset = 0 /\ e[1].length = data /\ e[1].total = total
        /\ e[1].offset + e[1].length = got[0] - header
    BY <1>1, <1>2, <1>5, <2>1 DEF data
  <2> HIDE DEF e
  <2>3. Ordered(e, 0, got, header, reads, total)
    BY <1>2, <2>1, <2>2 DEF Ordered
  <2>4. QED
    BY <2>3 DEF e
<1>7. ASSUME NEW k \in T PROVE k + 1 \in T
  <2> SUFFICES ASSUME k + 1 <= n PROVE Ordered(events[k + 1], k + 1, got, header, reads, total)
    OBVIOUS
  <2>1. k \in Nat /\ k + 1 \in 1..n /\ k \in 0..n /\ k + 1 \in 0..n /\ (k + 1) - 1 = k
        /\ Ordered(events[k], k, got, header, reads, total)
    BY <1>2
  <2>2. /\ got[k] \in Int /\ got[k + 1] = UInt16(got[k] + reads[k + 1])
        /\ reads[k + 1] \in Int /\ reads[k + 1] <= Room(length)
    BY <1>2, <1>5, <2>1
  <2>3. events[k + 1] = Served(events[k], k + 1, got, length, reads, total)
    BY <1>5, <2>1
  <2>4. Ordered(Served(events[k], k + 1, got, length, reads, total), k + 1, got, header, reads,
                total)
    BY <1>1, <1>2, <1>3, <2>1, <2>2, ServedOrdered
  <2>5. QED
    BY <2>3, <2>4
<1>8. Ordered(all, n, got, header, reads, total)
  <2>1. T \in SUBSET Nat
    OBVIOUS
  <2> HIDE DEF T
  <2>2. T = Nat
    BY <1>6, <1>7, <2>1, Induction
  <2>3. n \in T
    BY <1>2, <2>2
  <2>4. n <= n
    BY <1>2
  <2>5. QED
    BY <1>4, <2>3, <2>4 DEF T
<1> DEFINE m == Len(all)
           last == all[m]
<1>9. m \in Nat /\ m > 0 /\ m <= n + 1 /\ DOMAIN all = 1..m
  <2>1. all \in Chunks
    BY <1>8 DEF Ordered
  <2>2. all \in Seq(Chunk) /\ m \in Nat /\ m > 0
    BY <2>1 DEF Chunks
  <2>3. m <= n + 1
    BY <1>8 DEF Ordered
  <2>4. QED
    BY <2>2, <2>3
<1>10. /\ all[1].offset = 0
       /\ \A i \in 2..m : all[i].offset = all[i - 1].offset + all[i - 1].length
       /\ \A i \in 1..m : all[i].total = total
       /\ \A i \in 1..m - 1 : all[i].offset + all[i].length < total
       /\ m < n + 1 => last.offset + last.length >= total \/ reads[m] <= 0
  BY <1>8, Zenon DEF Ordered
<1>11. last.total = total /\ last.offset + last.length \in Int
  <2>1. m \in 1..m
    BY <1>9
  <2>2. all \in Seq(Chunk)
    BY <1>8 DEF Ordered, Chunks
  <2>3. last \in Chunk
    BY <2>1, <2>2
  <2>4. QED
    BY <1>10, <2>1, <2>3 DEF Chunk
<1>12. last.offset + last.length < total => m - 1 = n \/ reads[(m - 1) + 1] <= 0
  <2>1. (m - 1) + 1 = m /\ (m < n + 1 \/ m - 1 = n)
    <3> HIDE DEF m
    <3>1. QED
      BY <1>2, <1>9
  <2>2. ~ (last.offset + last.length < total /\ last.offset + last.length >= total)
    BY <1>3, <1>11
  <2>3. QED
    BY <1>10, <1>11, <2>1, <2>2
<1> HIDE DEF m
<1>13. total = length - header
  BY <1>3
<1>14. Turns(all, total, reads)
  BY <1>9, <1>10, <1>12, Zenon DEF Turns, m, n
<1>15. QED
  BY <1>13, <1>14 DEF all, data

\* DeliveredInOrder: the chunks of a message follow each other and make up the message
\* unless a read fails, however many small reads it takes; a first read that holds more
\* than the message gives one event with a wrong total.
LEMMA DeliveryRight ==
    ASSUME InputInv
    PROVE  DeliveredInOrder
<1> SUFFICES ASSUME Is("delivery") PROVE DeliveredInOrder
  BY DEF DeliveredInOrder
<1>1. /\ input.message_length \in Short /\ input.read \in Short
      /\ input.header \in 0..input.read /\ input.header <= input.message_length
      /\ input.reads \in Seq(Int)
  BY InputIsValid DEF Is, Valid, ValidDelivery
<1>2. input.header \in 0..input.message_length
  BY <1>1 DEF Short
<1>3. CASE input.read > input.message_length
  <2>1. Lone(Deliver(input.message_length, input.read, input.message_length - input.header,
                     input.reads), input.message_length - input.header)
    BY <1>1, <1>2, <1>3, DeliveryLone
  <2>2. ~ (input.read <= input.message_length)
    BY <1>1, <1>3 DEF Short
  <2>3. QED
    BY <1>3, <2>1, <2>2, Zenon DEF DeliveredInOrder, Lone
<1>4. CASE ~ (input.read > input.message_length)
  <2>1. input.read <= input.message_length
    BY <1>1, <1>4 DEF Short
  <2>2. (\A k \in DOMAIN input.reads : input.reads[k] <= Room(input.message_length))
           => Turns(Deliver(input.message_length, input.read, input.read - input.header,
                            input.reads), input.message_length - input.header, input.reads)
    BY <1>1, <2>1, DeliveryTurns
  <2>3. QED
    BY <1>4, <2>2, Zenon DEF DeliveredInOrder, Turns
<1>5. QED
  BY <1>3, <1>4

-----------------------------------------------------------------------------
(***************************************************************************)
(* Connecting.                                                             *)
(***************************************************************************)

\* e says where each of the strings ends.
AreEnds(e, strings) ==
    /\ e \in [0..Len(strings) -> Nat] /\ e[0] = 0
    /\ \A k \in 1..Len(strings) : e[k] = e[k - 1] + 2 + Len(strings[k])

\* So does EndsOf.
LEMMA EndsOfIs ==
    ASSUME NEW strings \in Seq(Text)
    PROVE  AreEnds(EndsOf(strings), strings)
<1> DEFINE n == Len(strings)
           F(f) == [k \in 0..n |-> IF k = 0 THEN 0 ELSE f[k - 1] + 2 + Len(strings[k])]
           end == CHOOSE f : f = F(f)
           g == [p \in (1..n) \X Nat |-> p[2] + 2 + Len(strings[p[1]])]
<1>1. n \in Nat /\ \A k \in 1..n : Len(strings[k]) \in Nat
  BY TextIs
<1>2. EndsOf(strings) = end
  BY DEF EndsOf
<1> HIDE DEF n
<1>3. g \in [(1..n) \X Nat -> Nat]
  BY <1>1
<1>4. PICK h \in [0..n -> Nat] : Follows(h, n, 0, g)
  <2> HIDE DEF g
  <2>1. 0 \in Nat
    OBVIOUS
  <2>2. QED
    BY <1>1, <1>3, <2>1, RecursionExists
<1>5. ASSUME NEW k \in 1..n PROVE h[k] = h[k - 1] + 2 + Len(strings[k])
  <2>1. h[k - 1] \in Nat
    BY <1>1
  <2>2. g[<<k, h[k - 1]>>] = h[k - 1] + 2 + Len(strings[k])
    BY <2>1
  <2> HIDE DEF g
  <2>3. QED
    BY <1>4, <2>2 DEF Follows
<1>6. end = F(end)
  <2>1. h = F(h)
    BY <1>1, <1>4, <1>5 DEF Follows
  <2> HIDE DEF F
  <2>2. QED
    BY <2>1
<1> HIDE DEF end
<1>7. end[0] = 0 /\ \A k \in 1..n : end[k] = end[k - 1] + 2 + Len(strings[k])
  BY <1>1, <1>6
<1> DEFINE T == {k \in Nat : k <= n => end[k] \in Nat}
<1>8. 0 \in T
  BY <1>7
<1>9. ASSUME NEW k \in T PROVE k + 1 \in T
  <2> SUFFICES ASSUME k + 1 <= n PROVE end[k + 1] \in Nat
    OBVIOUS
  <2>1. k + 1 \in 1..n /\ (k + 1) - 1 = k /\ end[k] \in Nat
    BY <1>1
  <2>2. end[k + 1] = end[k] + 2 + Len(strings[k + 1]) /\ Len(strings[k + 1]) \in Nat
    BY <1>1, <1>7, <2>1
  <2>3. QED
    BY <2>1, <2>2
<1>10. T = Nat
  <2>1. T \in SUBSET Nat
    OBVIOUS
  <2> HIDE DEF T
  <2>2. QED
    BY <1>8, <1>9, <2>1, Induction
<1>11. end \in [0..n -> Nat]
  <2>1. ASSUME NEW k \in 0..n PROVE end[k] \in Nat
    <3>1. k \in Nat /\ k <= n
      BY <1>1
    <3>2. k \in T
      BY <1>10, <3>1
    <3>3. QED
      BY <3>1, <3>2
  <2>2. end = [k \in 0..n |-> end[k]]
    BY <1>6
  <2>3. QED
    BY <2>1, <2>2
<1>12. QED
  BY <1>2, <1>7, <1>11 DEF AreEnds, n

\* The ends of the first k strings do not depend on the others.
LEMMA EndsAgree ==
    ASSUME NEW strings \in Seq(Text), NEW more \in Seq(Text), Len(strings) <= Len(more),
           \A k \in 1..Len(strings) : more[k] = strings[k]
    PROVE  \A k \in 0..Len(strings) : EndsOf(more)[k] = EndsOf(strings)[k]
<1> DEFINE n == Len(strings)
           e == EndsOf(strings)
           f == EndsOf(more)
           T == {k \in Nat : k <= n => f[k] = e[k]}
<1>1. n \in Nat /\ Len(more) \in Nat
  OBVIOUS
<1>2. AreEnds(e, strings) /\ AreEnds(f, more)
  BY EndsOfIs
<1>3. e[0] = 0 /\ f[0] = 0
  BY <1>2 DEF AreEnds
<1>4. \A k \in 1..n : e[k] = e[k - 1] + 2 + Len(strings[k])
  BY <1>2 DEF AreEnds
<1>5. ASSUME NEW k \in 1..n PROVE f[k] = f[k - 1] + 2 + Len(strings[k])
  <2>1. k \in 1..Len(more) /\ more[k] = strings[k]
    BY <1>1
  <2>2. f[k] = f[k - 1] + 2 + Len(more[k])
    BY <1>2, <2>1 DEF AreEnds
  <2>3. QED
    BY <2>1, <2>2
<1> HIDE DEF e, f, n
<1>6. 0 \in T
  BY <1>3
<1>7. ASSUME NEW k \in T PROVE k + 1 \in T
  <2> SUFFICES ASSUME k + 1 <= n PROVE f[k + 1] = e[k + 1]
    OBVIOUS
  <2>1. k + 1 \in 1..n /\ (k + 1) - 1 = k /\ f[k] = e[k]
    BY <1>1
  <2>2. QED
    BY <1>4, <1>5, <2>1
<1>8. T = Nat
  <2>1. T \in SUBSET Nat
    OBVIOUS
  <2> HIDE DEF T
  <2>2. QED
    BY <1>6, <1>7, <2>1, Induction
<1>9. ASSUME NEW k \in 0..n PROVE f[k] = e[k]
  <2>1. k \in Nat /\ k <= n
    BY <1>1
  <2>2. k \in T
    BY <1>8, <2>1
  <2>3. QED
    BY <2>1, <2>2
<1>10. QED
  BY <1>9 DEF e, f, n

\* No string ends behind the last one.
LEMMA EndsRise ==
    ASSUME NEW strings \in Seq(Text), NEW k \in 0..Len(strings)
    PROVE  EndsOf(strings)[k] <= EndsOf(strings)[Len(strings)]
<1> DEFINE n == Len(strings)
           e == EndsOf(strings)
           T == {j \in Nat : j <= n => \A i \in 0..j : e[i] <= e[j]}
<1>1. n \in Nat /\ \A i \in 1..n : Len(strings[i]) \in Nat
  BY TextIs
<1>2. e \in [0..n -> Nat] /\ \A i \in 1..n : e[i] = e[i - 1] + 2 + Len(strings[i])
  BY EndsOfIs DEF AreEnds
<1> HIDE DEF e, n
<1>3. 0 \in T
  <2>1. \A i \in 0..0 : i = 0 /\ e[i] \in Nat
    BY <1>1, <1>2
  <2>2. QED
    BY <2>1
<1>4. ASSUME NEW j \in T PROVE j + 1 \in T
  <2> SUFFICES ASSUME j + 1 <= n, NEW i \in 0..j + 1 PROVE e[i] <= e[j + 1]
    OBVIOUS
  <2>1. /\ j + 1 \in 1..n /\ (j + 1) - 1 = j /\ j \in 0..n /\ i \in 0..n
        /\ \A l \in 0..j : e[l] <= e[j]
    BY <1>1
  <2>2. e[j + 1] = e[j] + 2 + Len(strings[j + 1]) /\ Len(strings[j + 1]) \in Nat
    BY <1>1, <1>2, <2>1
  <2>3. e[i] \in Nat /\ e[j] \in Nat /\ e[j + 1] \in Nat
    <3>1. j + 1 \in 0..n
      BY <1>1, <2>1
    <3>2. QED
      BY <1>2, <2>1, <3>1, Zenon
  <2>4. CASE i \in 0..j
    BY <2>1, <2>2, <2>3, <2>4
  <2>5. CASE i = j + 1
    BY <2>3, <2>5
  <2>6. QED
    BY <2>4, <2>5
<1>5. T = Nat
  <2>1. T \in SUBSET Nat
    OBVIOUS
  <2> HIDE DEF T
  <2>2. QED
    BY <1>3, <1>4, <2>1, Induction
<1>6. n \in T /\ n <= n
  BY <1>1, <1>5
<1>7. \A i \in 0..n : e[i] <= e[n]
  BY <1>6
<1>8. QED
  BY <1>7 DEF e, n

\* The k-th of these strings and its length stand in the body behind i bytes.
Stands(body, i, string) ==
    /\ body[i + 1] = TwoBytes(Len(string))[1] /\ body[i + 2] = TwoBytes(Len(string))[2]
    /\ \A j \in 1..Len(string) : body[i + 2 + j] = string[j]

\* The body is a start of ten bytes and the strings.
Written(body, start, strings) ==
    /\ body \in Text /\ Len(body) = 10 + EndsOf(strings)[Len(strings)]
    /\ \A i \in 1..10 : body[i] = start[i]
    /\ \A k \in 1..Len(strings) : Stands(body, 10 + EndsOf(strings)[k - 1], strings[k])

\* A message is that far, or given up.
Built(b, start, strings, cap) ==
    /\ strings \in Seq(Text)
    /\ \E body \in Text : b = Fit(body, cap) /\ Written(body, start, strings)

\* It begins without a string.
LEMMA BuiltStart ==
    ASSUME NEW start \in Text, Len(start) = 10, NEW cap
    PROVE  Built(Fit(start, cap), start, <<>>, cap)
<1>1. <<>> \in Seq(Text) /\ Len(<<>>) = 0
  OBVIOUS
<1>2. EndsOf(<<>>)[0] = 0
  BY <1>1, EndsOfIs DEF AreEnds
<1>3. Written(start, start, <<>>)
  BY <1>1, <1>2 DEF Written
<1>4. QED
  BY <1>1, <1>3 DEF Built

\* What stands in a body stands in a longer one.
LEMMA StandsStill ==
    ASSUME NEW body \in Text, NEW longer, NEW i \in Nat, NEW string \in Text,
           \A j \in 1..Len(body) : longer[j] = body[j],
           i + 2 + Len(string) <= Len(body), Stands(body, i, string)
    PROVE  Stands(longer, i, string)
<1>1. Len(body) \in Nat /\ Len(string) \in Nat
  BY TextIs
<1>2. i + 1 \in 1..Len(body) /\ i + 2 \in 1..Len(body)
  BY <1>1
<1>3. ASSUME NEW j \in 1..Len(string) PROVE longer[i + 2 + j] = string[j]
  <2>1. i + 2 + j \in 1..Len(body)
    BY <1>1
  <2>2. QED
    BY <2>1 DEF Stands
<1>4. QED
  BY <1>2, <1>3 DEF Stands

\* One more string.
LEMMA WrittenMore ==
    ASSUME NEW body, NEW start, NEW strings \in Seq(Text), NEW t \in Text,
           Written(body, start, strings)
    PROVE  /\ strings \o <<t>> \in Seq(Text)
           /\ Written(body \o (TwoBytes(Len(t)) \o t), start, strings \o <<t>>)
<1> DEFINE n == Len(strings)
           e == EndsOf(strings)
           w == TwoBytes(Len(t))
           wt == w \o t
           longer == body \o wt
           more == strings \o <<t>>
           f == EndsOf(more)
<1>1. /\ body \in Text /\ Len(body) = 10 + e[n] /\ \A i \in 1..10 : body[i] = start[i]
      /\ \A k \in 1..n : Stands(body, 10 + e[k - 1], strings[k])
  BY Zenon DEF Written
<1>2. n \in Nat /\ (\A k \in 1..n : strings[k] \in Text) /\ Len(t) \in Nat
  BY TextIs
<1>3. w \in Text /\ Len(w) = 2
  BY <1>2, TwoBytesIs
<1> HIDE DEF w
<1>4. /\ wt \in Text /\ Len(wt) = 2 + Len(t)
      /\ \A j \in 1..2 : wt[j] = w[j]
      /\ \A j \in 1..Len(t) : wt[2 + j] = t[j]
  <2>1. /\ wt \in Text /\ Len(wt) = Len(w) + Len(t)
        /\ \A j \in 1..Len(w) : wt[j] = w[j]
        /\ \A j \in 1..Len(t) : wt[Len(w) + j] = t[j]
    BY <1>3, TextConcat
  <2> HIDE DEF wt
  <2>2. QED
    BY <1>3, <2>1
<1> HIDE DEF wt
<1>5. /\ longer \in Text /\ Len(longer) = Len(body) + Len(wt)
      /\ \A j \in 1..Len(body) : longer[j] = body[j]
      /\ \A j \in 1..Len(wt) : longer[Len(body) + j] = wt[j]
  BY <1>1, <1>4, TextConcat
<1> HIDE DEF longer
<1>6. /\ more \in Seq(Text) /\ Len(more) = n + 1 /\ more[n + 1] = t
      /\ \A k \in 1..n : more[k] = strings[k]
  BY <1>2
<1> HIDE DEF more, n, e, f
<1>7. \A k \in 0..n : f[k] = e[k]
  BY <1>2, <1>6, EndsAgree DEF n, e, f
<1>8. e \in [0..n -> Nat] /\ \A k \in 1..n : e[k] = e[k - 1] + 2 + Len(strings[k]) /\ e[k] <= e[n]
  <2>1. AreEnds(e, strings)
    BY EndsOfIs DEF e
  <2>2. \A k \in 0..n : e[k] <= e[n]
    BY EndsRise DEF e, n
  <2>3. 1..n \subseteq 0..n
    BY <1>2
  <2>4. QED
    BY <2>1, <2>2, <2>3 DEF AreEnds, n
<1>9. f[n + 1] = e[n] + 2 + Len(t)
  <2>1. AreEnds(f, more)
    BY <1>6, EndsOfIs DEF f
  <2>2. n + 1 \in 1..n + 1 /\ (n + 1) - 1 = n /\ n \in 0..n
    BY <1>2
  <2>3. f[n + 1] = f[n] + 2 + Len(more[n + 1])
    BY <1>6, <2>1, <2>2 DEF AreEnds
  <2>4. QED
    BY <1>6, <1>7, <2>2, <2>3
<1>10. e[n] \in Nat /\ Len(body) = 10 + e[n]
  BY <1>1, <1>2, <1>8
<1>11. Len(longer) = 10 + f[n + 1]
  <2> DEFINE a == Len(longer)
             b == Len(body)
             c == Len(wt)
             d == Len(t)
             g == f[n + 1]
             h == e[n]
  <2>1. /\ a = b + c /\ c = 2 + d /\ g = h + 2 + d /\ b = 10 + h /\ d \in Nat /\ h \in Nat
    BY <1>2, <1>4, <1>5, <1>9, <1>10
  <2> HIDE DEF a, b, c, d, g, h
  <2>2. a = 10 + g
    BY <2>1
  <2>3. QED
    BY <2>2 DEF a, g
<1>12. ASSUME NEW i \in 1..10 PROVE longer[i] = start[i]
  <2>1. i \in 1..Len(body)
    BY <1>10
  <2>2. QED
    BY <1>1, <1>5, <2>1
<1>13. ASSUME NEW k \in 1..n + 1 PROVE Stands(longer, 10 + f[k - 1], more[k])
  <2>1. CASE k \in 1..n
    <3>1. /\ k - 1 \in 0..n /\ e[k - 1] \in Nat /\ e[k] = e[k - 1] + 2 + Len(strings[k])
          /\ e[k] <= e[n] /\ strings[k] \in Text
      BY <1>2, <1>8, <2>1
    <3>2. Len(strings[k]) \in Nat
      BY <3>1, TextIs
    <3>3. 10 + e[k - 1] \in Nat /\ (10 + e[k - 1]) + 2 + Len(strings[k]) <= Len(body)
      <4> DEFINE a == Len(body)
                 b == e[n]
                 c == e[k - 1]
                 d == e[k]
                 l == Len(strings[k])
      <4>1. b \in Nat /\ a = 10 + b /\ c \in Nat /\ d = c + 2 + l /\ d <= b /\ l \in Nat
        BY <1>10, <3>1, <3>2
      <4> HIDE DEF a, b, c, d, l
      <4>2. 10 + c \in Nat /\ (10 + c) + 2 + l <= a
        BY <4>1
      <4>3. QED
        BY <4>2 DEF a, c, l
    <3>4. Stands(longer, 10 + e[k - 1], strings[k])
      BY <1>1, <1>5, <2>1, <3>1, <3>3, StandsStill
    <3>5. QED
      BY <1>6, <1>7, <2>1, <3>1, <3>4
  <2>2. CASE k = n + 1
    <3>1. k - 1 = n /\ n \in 0..n
      BY <1>2, <2>2
    <3>2. 10 + f[k - 1] = Len(body) /\ more[k] = t
      BY <1>6, <1>7, <1>10, <2>2, <3>1
    <3> DEFINE b == Len(body)
    <3>3. b \in Nat /\ 1 \in 1..Len(wt) /\ 2 \in 1..Len(wt) /\ 1 \in 1..2 /\ 2 \in 1..2
      BY <1>2, <1>4, <1>10
    <3> HIDE DEF b
    <3>4. longer[b + 1] = w[1] /\ longer[b + 2] = w[2]
      BY <1>4, <1>5, <3>3 DEF b
    <3>5. ASSUME NEW j \in 1..Len(t) PROVE longer[b + 2 + j] = t[j]
      <4>1. 2 + j \in 1..Len(wt) /\ b + (2 + j) = b + 2 + j
        BY <1>2, <1>4, <3>3
      <4>2. longer[b + (2 + j)] = wt[2 + j]
        BY <1>5, <4>1 DEF b
      <4>3. QED
        BY <1>4, <4>1, <4>2
    <3>6. Stands(longer, b, t)
      BY <3>4, <3>5, Zenon DEF Stands, w
    <3>7. QED
      BY <3>2, <3>6 DEF b
  <2>3. QED
    BY <1>2, <2>1, <2>2
<1>14. Written(longer, start, more)
  BY <1>5, <1>6, <1>11, <1>12, <1>13, Zenon DEF Written, f
<1>15. QED
  BY <1>6, <1>14 DEF longer, wt, w, more

\* AppendString goes on with a string.
LEMMA BuiltMore ==
    ASSUME NEW b, NEW start, NEW strings, NEW t \in Text, NEW cap \in Nat,
           Built(b, start, strings, cap)
    PROVE  Built(AppendString(b, t, cap), start, strings \o <<t>>, cap)
<1>1. strings \in Seq(Text)
  BY DEF Built
<1>2. PICK body \in Text : b = Fit(body, cap) /\ Written(body, start, strings)
  BY DEF Built
<1> DEFINE w == TwoBytes(Len(t))
           wt == w \o t
<1>3. wt \in Text
  <2>1. Len(t) \in Nat
    BY TextIs
  <2>2. w \in Text
    BY <2>1, TwoBytesIs
  <2> HIDE DEF w
  <2>3. QED
    BY <2>2, TextConcat
<1>4. AppendString(b, t, cap) = Appended(b, wt, cap)
  BY DEF AppendString
<1>5. strings \o <<t>> \in Seq(Text) /\ Written(body \o wt, start, strings \o <<t>>)
  BY <1>1, <1>2, WrittenMore
<1> HIDE DEF wt
<1>6. AppendString(b, t, cap) = Fit(body \o wt, cap)
  BY <1>2, <1>3, <1>4, AppendedFits
<1>7. body \o wt \in Text
  BY <1>3, TextConcat
<1>8. QED
  BY <1>5, <1>6, <1>7 DEF Built

\* Optional goes on with a string that is given.
LEMMA BuiltOptional ==
    ASSUME NEW b, NEW start, NEW strings, NEW t \in Text, NEW cap \in Nat,
           Built(b, start, strings, cap)
    PROVE  Built(Optional(b, t, cap), start, strings \o Given(t), cap)
<1>1. CASE t = <<>>
  <2>1. strings \in Seq(Text)
    BY DEF Built
  <2>2. strings \o <<>> = strings
    BY <2>1, ConcatEmptySeq
  <2>3. QED
    BY <1>1, <2>2 DEF Optional, Given
<1>2. CASE t # <<>>
  BY <1>2, BuiltMore DEF Optional, Given
<1>3. QED
  BY <1>1, <1>2

\* What a finished message holds.
LEMMA SentHolds ==
    ASSUME NEW body, NEW start, NEW strings \in Seq(Text), NEW m, NEW type, NEW qos, NEW h,
           NEW cap \in Buffers, Written(body, start, strings), Sent(m, body, type, qos, h),
           ~ (3 + Len(body) > cap)
    PROVE  Holds(m, h + 10, strings) /\ \A i \in 1..10 : m[h + i] = start[i]
<1> DEFINE n == Len(strings)
           e == EndsOf(strings)
           s == h + 10
           size == Len(body)
<1>1. /\ m \in Text /\ h \in {2, 3} /\ Len(m) = h + size
      /\ \A i \in 1..size : m[h + i] = body[i]
  BY DEF Sent
<1>2. /\ body \in Text /\ size = 10 + e[n]
      /\ \A i \in 1..10 : body[i] = start[i]
      /\ \A k \in 1..n : Stands(body, 10 + e[k - 1], strings[k])
  BY Zenon DEF Written
<1>3. n \in Nat /\ \A k \in 1..n : strings[k] \in Text
  OBVIOUS
<1>4. e \in [0..n -> Nat] /\ \A k \in 1..n : e[k] = e[k - 1] + 2 + Len(strings[k])
  BY EndsOfIs DEF AreEnds
<1>5. \A k \in 0..n : e[k] <= e[n]
  BY EndsRise
<1>6. ~ (3 + size > cap)
  OBVIOUS
<1> HIDE DEF e, n, size
<1>7. e[n] \in Nat
  BY <1>3, <1>4
<1>8. ASSUME NEW i \in 1..10 PROVE m[h + i] = start[i]
  <2>1. i \in 1..size
    BY <1>2, <1>7
  <2>2. QED
    BY <1>1, <1>2, <2>1
<1>9. Len(m) = s + e[n]
  <2> DEFINE a == Len(m)
             b == e[n]
  <2>1. a = h + size /\ size = 10 + b /\ b \in Nat
    BY <1>1, <1>2, <1>7
  <2> HIDE DEF a, b
  <2>2. a = s + b
    BY <1>1, <2>1
  <2>3. QED
    BY <2>2 DEF a, b
<1>10. ASSUME NEW k \in 1..n
       PROVE  /\ At(m, s + e[k - 1]) * 256 + At(m, s + e[k - 1] + 1) = Len(strings[k])
              /\ SubSeq(m, s + e[k - 1] + 3, s + e[k - 1] + 2 + Len(strings[k])) = strings[k]
  <2> DEFINE c == e[k - 1]
             l == Len(strings[k])
             b == e[n]
             t == strings[k]
             w == TwoBytes(l)
  <2>1. /\ c \in Nat /\ l \in Nat /\ b \in Nat /\ c + 2 + l <= b /\ t \in Text /\ Len(t) = l
        /\ size = 10 + b
    <3>1. k - 1 \in 0..n /\ k \in 0..n /\ t \in Text
      BY <1>3
    <3>2. l \in Nat
      BY <3>1, TextIs
    <3>3. c \in Nat /\ e[k] = c + 2 + l /\ e[k] <= b
      BY <1>4, <1>5, <3>1
    <3> HIDE DEF c, l, b, t
    <3>4. QED
      BY <1>2, <1>7, <3>1, <3>2, <3>3 DEF b, l, t
  <2>2. Stands(body, 10 + c, t)
    BY <1>2
  <2> HIDE DEF c, b, t
  <2>3. /\ body[10 + c + 1] = w[1] /\ body[10 + c + 2] = w[2]
        /\ \A j \in 1..l : body[10 + c + 2 + j] = t[j]
    BY <2>2 DEF Stands, t
  <2> HIDE DEF l
  <2>4. l \in Short
    <3>1. cap \in Nat /\ cap <= 16386
      BY SMT DEF Buffers, MQTT_MAX_FIXED_HEADER_SIZE
    <3>2. QED
      BY <1>6, <2>1, <3>1, SMT DEF Short
  <2>5. w[1] * 256 + w[2] = l
    BY <2>1, <2>4, TwoBytesIs
  <2> HIDE DEF w
  <2>6. ASSUME NEW j \in 1..2 + l PROVE m[s + c + j] = body[10 + c + j]
    <3>1. 10 + c + j \in 1..size /\ h + (10 + c + j) = s + c + j
      BY <1>1, <2>1
    <3>2. QED
      BY <1>1, <3>1
  <2>7. At(m, s + c) * 256 + At(m, s + c + 1) = l
    <3>1. 1 \in 1..2 + l /\ 2 \in 1..2 + l /\ s + c + 1 + 1 = s + c + 2
      BY <1>1, <2>1
    <3>2. m[s + c + 1] = w[1] /\ m[s + c + 2] = w[2]
      BY <2>3, <2>6, <3>1
    <3>3. QED
      BY <2>5, <3>1, <3>2 DEF At
  <2>8. SubSeq(m, s + c + 3, s + c + 2 + l) = t
    <3> DEFINE f == s + c + 2
    <3>1. f \in Nat /\ f + Len(t) <= Len(m) /\ f + 1 = s + c + 3
      BY <1>1, <2>1
    <3>2. ASSUME NEW j \in 1..Len(t) PROVE m[f + j] = t[j]
      <4>1. 2 + j \in 1..2 + l /\ s + c + (2 + j) = f + j /\ 10 + c + (2 + j) = 10 + c + 2 + j
            /\ j \in 1..l
        BY <1>1, <2>1
      <4>2. m[s + c + (2 + j)] = body[10 + c + (2 + j)]
        BY <2>6, <4>1
      <4>3. QED
        BY <2>3, <4>1, <4>2
    <3> HIDE DEF f
    <3>3. SubSeq(m, f + 1, f + Len(t)) = t
      BY <1>1, <2>1, <3>1, <3>2, SliceIs
    <3>4. QED
      BY <2>1, <3>1, <3>3 DEF f
  <2>9. QED
    BY <2>7, <2>8 DEF c, l, t
<1>11. QED
  BY <1>8, <1>9, <1>10, Zenon DEF Holds, e, n, s

\* The flags of a connecting message.
LEMMA FlagsAre ==
    ASSUME NEW u \in 0..1, NEW p \in 0..1, NEW w \in 0..1, NEW r \in 0..1, NEW q \in 0..3,
           NEW c \in 0..1, NEW flags,
           flags = (IF u = 1 THEN 128 ELSE 0) + (IF p = 1 THEN 64 ELSE 0)
                   + (IF w = 1 THEN 4 + 32 * r + 8 * q ELSE 0) + 2 * c
    PROVE  /\ flags \in Byte /\ (flags \div 128 = 1 <=> u = 1) /\ ((flags \div 64) % 2 = 1 <=> p = 1)
           /\ ((flags \div 4) % 2 = 1 <=> w = 1) /\ (flags \div 2) % 2 = c
BY SMT DEF Byte

\* The first ten bytes of a connecting message.
LEMMA ConnectStartIs ==
    ASSUME NEW flags \in Byte, NEW keepalive \in Short
    PROVE  LET start == <<0, 4, 77, 81, 84, 84, 4, flags>> \o TwoBytes(keepalive)
           IN  /\ start \in Text /\ Len(start) = 10 /\ start[8] = flags
               /\ start[9] * 256 + start[10] = keepalive
<1> DEFINE s == <<0, 4, 77, 81, 84, 84, 4, flags>>
           w == TwoBytes(keepalive)
           start == s \o w
<1>1. s \in Text /\ Len(s) = 8 /\ s[8] = flags
  <2>1. 0 \in Byte /\ 4 \in Byte /\ 77 \in Byte /\ 81 \in Byte /\ 84 \in Byte
    BY DEF Byte
  <2>2. QED
    BY <2>1 DEF Text
<1>2. w \in Text /\ Len(w) = 2 /\ w[1] * 256 + w[2] = keepalive
  <2>1. keepalive \in Nat
    BY DEF Short
  <2>2. QED
    BY <2>1, TwoBytesIs
<1> HIDE DEF s, w
<1>3. /\ start \in Text /\ Len(start) = Len(s) + Len(w)
      /\ \A i \in 1..Len(s) : start[i] = s[i]
      /\ \A i \in 1..Len(w) : start[Len(s) + i] = w[i]
  BY <1>1, <1>2, TextConcat
<1> HIDE DEF start
<1>4. Len(start) = 10 /\ start[8] = flags /\ start[8 + 1] = w[1] /\ start[8 + 2] = w[2]
  BY <1>1, <1>2, <1>3
<1>5. start[9] * 256 + start[10] = keepalive
  BY <1>2, <1>4
<1>6. QED
  BY <1>3, <1>4, <1>5 DEF start, s, w

\* Two strings one behind the other.
LEMMA PairIs ==
    ASSUME NEW s \in Text, NEW t \in Text
    PROVE  <<s>> \o <<t>> = <<s, t>>
<1> DEFINE a == <<s>>
           b == <<t>>
           p == <<s, t>>
<1>1. a \in Seq(Text) /\ Len(a) = 1 /\ a[1] = s /\ b \in Seq(Text) /\ Len(b) = 1 /\ b[1] = t
  OBVIOUS
<1>2. p \in Seq(Text) /\ Len(p) = 2 /\ p[1] = s /\ p[2] = t
  OBVIOUS
<1> HIDE DEF a, b, p
<1> DEFINE c == a \o b
<1>3. c \in Seq(Text) /\ Len(c) = 2 /\ c[1] = s /\ c[2] = t
  <2>1. /\ c \in Seq(Text) /\ Len(c) = 1 + 1
        /\ \A i \in 1..1 + 1 : c[i] = IF i <= 1 THEN a[i] ELSE b[i - 1]
    <3> HIDE DEF c
    <3>1. /\ c \in Seq(Text) /\ Len(c) = Len(a) + Len(b)
          /\ \A i \in 1..Len(a) + Len(b) : c[i] = IF i <= Len(a) THEN a[i] ELSE b[i - Len(a)]
      BY <1>1, ConcatProperties DEF c
    <3>2. QED
      BY <1>1, <3>1
  <2> HIDE DEF c
  <2>2. QED
    BY <1>1, <2>1
<1> HIDE DEF c
<1>4. ASSUME NEW i \in 1..Len(c) PROVE c[i] = p[i]
  <2>1. i = 1 \/ i = 2
    BY <1>3
  <2>2. QED
    BY <1>2, <1>3, <2>1
<1>5. c = p
  BY <1>2, <1>3, <1>4, SeqEqual
<1>6. QED
  BY <1>5 DEF a, b, c, p

\* ConnectReadBack: a connecting message is refused exactly when it has no client id or does
\* not fit; any other one has the strings its flags announce.
LEMMA ConnectRight ==
    ASSUME InputInv
    PROVE  ConnectReadBack
<1> SUFFICES ASSUME Is("connect") PROVE ConnectReadBack
  BY DEF ConnectReadBack
<1> DEFINE id == input.client_id
           topic == input.will_topic
           message == input.will_message
           username == input.username
           password == input.password
           cap == input.cap
           m == MsgConnect(input, cap)
           will == IF topic = <<>> THEN <<>> ELSE <<topic, message>>
           strings == <<id>> \o will \o Given(username) \o Given(password)
           size == 10 + EndsOf(strings)[Len(strings)]
           flags == (IF username # <<>> THEN 128 ELSE 0)
                    + (IF password # <<>> THEN 64 ELSE 0)
                    + (IF topic # <<>>
                       THEN 4 + 32 * input.will_retain + 8 * (input.will_qos % 4) ELSE 0)
                    + 2 * input.clean_session
           start == <<0, 4, 77, 81, 84, 84, 4, flags>> \o TwoBytes(input.keepalive)
           header == Appended(<<>>, start, cap)
           named == AppendString(Required(header, id), id, cap)
           willed == IF topic = <<>> THEN named
                     ELSE AppendString(AppendString(named, topic, cap), message, cap)
           used == Optional(willed, username, cap)
           passed == Optional(used, password, cap)
<1>1. /\ id \in Text /\ topic \in Text /\ message \in Text /\ username \in Text
      /\ password \in Text /\ cap \in Buffers /\ cap \in Nat
      /\ input.will_qos \in Nat /\ input.will_retain \in 0..1 /\ input.clean_session \in 0..1
      /\ input.keepalive \in Short
  <2>1. ValidConnect(input)
    BY InputIsValid DEF Is, Valid
  <2>2. cap \in Buffers
    BY <2>1 DEF ValidConnect
  <2>3. cap \in Nat
    BY <2>2, SMT DEF Buffers
  <2>4. QED
    BY <2>1, <2>3, Zenon DEF ValidConnect
<1>2. m = Finished(passed, MsgType.CONNECT, 0, 0)
  BY Zenon DEF MsgConnect
<1>3. /\ flags \in Byte /\ (flags \div 128 = 1 <=> username # <<>>)
      /\ ((flags \div 64) % 2 = 1 <=> password # <<>>)
      /\ ((flags \div 4) % 2 = 1 <=> topic # <<>>)
      /\ (flags \div 2) % 2 = input.clean_session
  <2> DEFINE u == IF username # <<>> THEN 1 ELSE 0
             p == IF password # <<>> THEN 1 ELSE 0
             w == IF topic # <<>> THEN 1 ELSE 0
             r == input.will_retain
             q == input.will_qos % 4
             c == input.clean_session
  <2>1. /\ u \in 0..1 /\ p \in 0..1 /\ w \in 0..1 /\ r \in 0..1 /\ q \in 0..3 /\ c \in 0..1
    BY <1>1
  <2>2. (u = 1 <=> username # <<>>) /\ (p = 1 <=> password # <<>>) /\ (w = 1 <=> topic # <<>>)
    OBVIOUS
  <2> HIDE DEF u, p, w
  <2>3. flags = (IF u = 1 THEN 128 ELSE 0) + (IF p = 1 THEN 64 ELSE 0)
                + (IF w = 1 THEN 4 + 32 * r + 8 * q ELSE 0) + 2 * c
    BY <2>2
  <2> HIDE DEF flags, r, q, c
  <2>4. /\ flags \in Byte /\ (flags \div 128 = 1 <=> u = 1) /\ ((flags \div 64) % 2 = 1 <=> p = 1)
        /\ ((flags \div 4) % 2 = 1 <=> w = 1) /\ (flags \div 2) % 2 = c
    BY <2>1, <2>3, FlagsAre
  <2>5. QED
    BY <2>2, <2>4 DEF c
<1> HIDE DEF flags
<1>4. start \in Text /\ Len(start) = 10 /\ start[8] = flags
      /\ start[9] * 256 + start[10] = input.keepalive
  BY <1>1, <1>3, ConnectStartIs
<1> HIDE DEF start
<1>5. header = Fit(start, cap)
  BY <1>1, <1>4, StartFits
<1> HIDE DEF header
<1>6. id = <<>> => m = <<>>
  <2> SUFFICES ASSUME id = <<>> PROVE m = <<>>
    OBVIOUS
  <2>1. \A string : AppendString(Failed, string, cap) = Failed
    BY FailedStays DEF AppendString
  <2>2. \A string : Optional(Failed, string, cap) = Failed
    BY <2>1 DEF Optional
  <2>3. named = Failed
    BY <2>1 DEF Required
  <2> HIDE DEF named, cap, topic, message, username, password, m
  <2>4. willed = Failed
    BY <2>1, <2>3
  <2> HIDE DEF willed
  <2>5. passed = Failed
    BY <2>2, <2>4
  <2> HIDE DEF passed
  <2>6. QED
    BY <1>2, <2>5 DEF Finished
<1>7. id # <<>> => Built(passed, start, strings, cap)
  <2> SUFFICES ASSUME id # <<>> PROVE Built(passed, start, strings, cap)
    OBVIOUS
  <2> HIDE DEF cap, topic, message, username, password, m, id
  <2>1. Built(header, start, <<>>, cap)
    BY <1>4, <1>5, BuiltStart
  <2>2. Built(named, start, <<id>>, cap)
    <3>1. Built(AppendString(header, id, cap), start, <<>> \o <<id>>, cap)
      BY <1>1, <2>1, BuiltMore
    <3>2. <<>> \o <<id>> = <<id>>
      <4>1. <<id>> \in Seq(Text)
        BY <1>1
      <4>2. QED
        BY <4>1, ConcatEmptySeq
    <3>3. named = AppendString(header, id, cap)
      BY DEF Required
    <3>4. QED
      BY <3>1, <3>2, <3>3
  <2> HIDE DEF named
  <2>3. Built(willed, start, <<id>> \o will, cap)
    <3>1. CASE topic = <<>>
      <4>1. <<id>> \o <<>> = <<id>>
        <5>1. <<id>> \in Seq(Text)
          BY <1>1
        <5>2. QED
          BY <5>1, ConcatEmptySeq
      <4>2. QED
        BY <2>2, <3>1, <4>1
    <3>2. CASE topic # <<>>
      <4> DEFINE b == AppendString(named, topic, cap)
      <4>1. Built(b, start, <<id>> \o <<topic>>, cap)
        BY <1>1, <2>2, BuiltMore
      <4> HIDE DEF b
      <4>2. Built(AppendString(b, message, cap), start, (<<id>> \o <<topic>>) \o <<message>>, cap)
        BY <1>1, <4>1, BuiltMore
      <4>3. (<<id>> \o <<topic>>) \o <<message>> = <<id>> \o <<topic, message>>
        <5>1. <<id>> \in Seq(Text) /\ <<topic>> \in Seq(Text) /\ <<message>> \in Seq(Text)
          BY <1>1
        <5>2. (<<id>> \o <<topic>>) \o <<message>> = <<id>> \o (<<topic>> \o <<message>>)
          BY <5>1, ConcatAssociative
        <5>3. <<topic>> \o <<message>> = <<topic, message>>
          BY <1>1, PairIs
        <5>4. QED
          BY <5>2, <5>3
      <4>4. QED
        BY <3>2, <4>2, <4>3 DEF b
    <3>3. QED
      BY <3>1, <3>2
  <2> HIDE DEF willed, will
  <2>4. Built(used, start, (<<id>> \o will) \o Given(username), cap)
    BY <1>1, <2>3, BuiltOptional
  <2> HIDE DEF used
  <2>5. Built(passed, start, ((<<id>> \o will) \o Given(username)) \o Given(password), cap)
    BY <1>1, <2>4, BuiltOptional
  <2>6. QED
    BY <2>5
<1> HIDE DEF strings, passed, m
<1>8. CASE id = <<>> \/ MQTT_MAX_FIXED_HEADER_SIZE + size > cap
  <2>1. m = <<>>
    <3>1. CASE id = <<>>
      BY <1>6, <3>1
    <3>2. CASE id # <<>> /\ MQTT_MAX_FIXED_HEADER_SIZE + size > cap
      <4>1. PICK body \in Text : passed = Fit(body, cap) /\ Written(body, start, strings)
        BY <1>7, <3>2 DEF Built
      <4>2. Len(body) = size
        BY <4>1 DEF Written
      <4>3. passed = Failed
        BY <3>2, <4>1, <4>2 DEF Fit, MQTT_MAX_FIXED_HEADER_SIZE
      <4>4. QED
        BY <1>2, <4>3 DEF Finished
    <3>3. QED
      BY <1>8, <3>1, <3>2
  <2>2. QED
    BY <1>8, <2>1, Zenon DEF ConnectReadBack, m, strings
<1>9. CASE ~ (id = <<>> \/ MQTT_MAX_FIXED_HEADER_SIZE + size > cap)
  <2>1. strings \in Seq(Text)
    BY <1>7, <1>9 DEF Built
  <2>2. PICK body \in Text : passed = Fit(body, cap) /\ Written(body, start, strings)
    BY <1>7, <1>9 DEF Built
  <2> DEFINE h == 1 + Len(RemainingLength(Len(body)))
  <2>3. ~ (3 + Len(body) > cap)
    <3>1. Len(body) = size
      BY <2>2 DEF Written
    <3>2. QED
      BY <1>9, <3>1 DEF MQTT_MAX_FIXED_HEADER_SIZE
  <2>4. MsgType.CONNECT = 1
    BY DEF MsgType
  <2> HIDE DEF cap, size
  <2>5. Sent(Finished(Fit(body, cap), MsgType.CONNECT, 0, 0), body, MsgType.CONNECT, 0, h)
    <3>1. MsgType.CONNECT \in 1..14 /\ 0 \in 0..2 /\ 0 \in 0..1
      BY <2>4
    <3>2. QED
      BY <1>1, <2>3, <3>1, FinishedIs
  <2> HIDE DEF h
  <2>6. Sent(m, body, MsgType.CONNECT, 0, h)
    BY <1>2, <2>2, <2>5
  <2>7. Holds(m, h + 10, strings) /\ \A i \in 1..10 : m[h + i] = start[i]
    BY <1>1, <2>1, <2>2, <2>3, <2>6, SentHolds
  <2>8. /\ HeaderEnd(m, Len(m)) = h /\ GetTotalLength(m, Len(m)) = Len(m)
        /\ GetType(m) = MsgType.CONNECT /\ h \in {2, 3}
    BY <2>6 DEF Sent
  <2>9. At(m, h + 7) = flags
    <3>1. h + 7 + 1 = h + 8 /\ 8 \in 1..10
      BY <2>8
    <3>2. QED
      BY <1>4, <2>7, <3>1 DEF At
  <2>10. At(m, h + 8) * 256 + At(m, h + 9) = input.keepalive
    <3>1. h + 8 + 1 = h + 9 /\ h + 9 + 1 = h + 10 /\ 9 \in 1..10 /\ 10 \in 1..10
      BY <2>8
    <3>2. m[h + 9] = start[9] /\ m[h + 10] = start[10]
      BY <2>7, <3>1
    <3>3. QED
      BY <1>4, <3>1, <3>2 DEF At
  <2> DEFINE i == HeaderEnd(m, Len(m))
  <2>11. /\ i = h /\ Holds(m, i + 10, strings) /\ At(m, i + 7) = flags
         /\ At(m, i + 8) * 256 + At(m, i + 9) = input.keepalive
    BY <2>7, <2>8, <2>9, <2>10
  <2>12. /\ (At(m, i + 7) \div 128 = 1) = (username # <<>>)
         /\ ((At(m, i + 7) \div 64) % 2 = 1) = (password # <<>>)
         /\ ((At(m, i + 7) \div 4) % 2 = 1) = (topic # <<>>)
         /\ (At(m, i + 7) \div 2) % 2 = input.clean_session
    BY <1>3, <2>11
  <2>13. QED
    BY <1>9, <2>8, <2>11, <2>12, Zenon DEF ConnectReadBack, m, strings, cap, size
<1>10. QED
  BY <1>8, <1>9

-----------------------------------------------------------------------------
\* MessagesReadBack: whatever the client builds that fits the buffer is read back as it was
\* built, at any length; what does not fit is refused; and a message that comes in
\* pieces is handed over without a gap.
THEOREM MessagesRight == InputSpec => []MessagesReadBack
<1>1. InputInv => MessagesReadBack
  BY PublishRight, SubscribeRight, ConnectRight, AckRight, LengthRight, DeliveryRight
  DEF MessagesReadBack
<1> QED
  BY <1>1, InputsOnly, PTL

=============================================================================
