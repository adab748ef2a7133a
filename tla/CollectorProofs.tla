-------------------------- MODULE CollectorProofs --------------------------
(***************************************************************************)
(* Proofs for Collector: the list holds each packet once and in order, and *)
(* an undisturbed export is complete, for any messages, files and presses  *)
(* of buttons.                                                             *)
(***************************************************************************)
EXTENDS Collector, FiniteSetTheorems, SequenceTheorems, TLAPS

\* A part of a finite set is finite and no larger, and smaller when it lacks
\* an element.
LEMMA Smaller ==
    ASSUME NEW B, IsFiniteSet(B), NEW A \in SUBSET B
    PROVE  /\ IsFiniteSet(A) /\ Cardinality(A) \in Nat /\ Cardinality(B) \in Nat
           /\ Cardinality(A) <= Cardinality(B)
           /\ \A x \in B : x \notin A => Cardinality(A) < Cardinality(B)
<1>1. IsFiniteSet(A) /\ Cardinality(A) <= Cardinality(B)
  BY FS_Subset
<1>2. Cardinality(A) \in Nat /\ Cardinality(B) \in Nat
  BY <1>1, FS_CardinalityType
<1>3. ASSUME NEW x \in B, x \notin A PROVE Cardinality(A) < Cardinality(B)
  <2>1. Cardinality(A) # Cardinality(B)
    BY <1>3, FS_Subset
  <2>2. QED
    BY <1>1, <1>2, <2>1
<1>4. QED
  BY <1>1, <1>2, <1>3

\* before puts the elements of S one after the other.
TotalOn(S, before) ==
    /\ \A x \in S : <<x, x>> \notin before
    /\ \A x, y \in S : x # y => <<x, y>> \in before \/ <<y, x>> \in before
    /\ \A x, y, z \in S : <<x, y>> \in before /\ <<y, z>> \in before => <<x, z>> \in before

\* InOrder lists every element once, each before those that it is to be before.
LEMMA InOrderIs ==
    ASSUME NEW S, IsFiniteSet(S), NEW before, TotalOn(S, before)
    PROVE  /\ Cardinality(S) \in Nat
           /\ InOrder(S, before) \in Bijection(1..Cardinality(S), S)
           /\ \A k, l \in 1..Cardinality(S) :
                 k < l => <<InOrder(S, before)[k], InOrder(S, before)[l]>> \in before
           /\ \A k \in 1..Cardinality(S) :
                 Cardinality({y \in S : <<y, InOrder(S, before)[k]>> \in before}) = k - 1
<1> DEFINE n == Cardinality(S)
           below(x) == {y \in S : <<y, x>> \in before}
           f == [x \in S |-> Cardinality(below(x)) + 1]
           r == InOrder(S, before)
           choice(k) == CHOOSE x \in S : Cardinality({y \in S : <<y, x>> \in before}) = k - 1
<1>1. n \in Nat
  BY FS_CardinalityType
<1>2. ASSUME NEW x \in S PROVE f[x] \in 1..n
  <2>1. below(x) \in SUBSET S /\ x \notin below(x)
    BY DEF TotalOn
  <2>2. Cardinality(below(x)) \in Nat /\ Cardinality(below(x)) < n
    BY <2>1, Smaller
  <2>3. QED
    BY <1>1, <2>2
<1>3. ASSUME NEW x \in S, NEW y \in S, <<x, y>> \in before PROVE f[x] < f[y]
  <2>1. below(x) \in SUBSET below(y) /\ x \in below(y) /\ x \notin below(x)
    BY <1>3 DEF TotalOn
  <2>2. IsFiniteSet(below(y))
    BY FS_Subset
  <2>3. Cardinality(below(x)) \in Nat /\ Cardinality(below(y)) \in Nat
        /\ Cardinality(below(x)) < Cardinality(below(y))
    BY <2>1, <2>2, Smaller
  <2>4. QED
    BY <2>3
<1>4. f \in Injection(S, 1..n)
  <2>1. f \in [S -> 1..n]
    BY <1>2
  <2>2. ASSUME NEW x \in S, NEW y \in S, f[x] = f[y] PROVE x = y
    <3> HIDE DEF f
    <3>1. f[x] \in Nat /\ f[y] \in Nat
      BY <1>1, <1>2
    <3>2. ~(f[x] < f[y]) /\ ~(f[y] < f[x])
      BY <2>2, <3>1
    <3>3. QED
      BY <1>3, <3>2 DEF TotalOn
  <2> HIDE DEF f
  <2>3. QED
    BY <2>1, <2>2 DEF Injection, IsInjective
<1>5. f \in Surjection(S, 1..n)
  <2>1. IsFiniteSet(1..n) /\ Cardinality(1..n) = n
    BY <1>1, FS_Interval
  <2> HIDE DEF f
  <2>2. QED
    BY <1>4, <2>1, FS_Injection
<1>6. ASSUME NEW k \in 1..n PROVE r[k] \in S /\ f[r[k]] = k
  <2>1. PICK x \in S : f[x] = k
    BY <1>5 DEF Surjection
  <2>2. Cardinality(below(x)) \in Int
    <3>1. below(x) \in SUBSET S
      OBVIOUS
    <3>2. Cardinality(below(x)) \in Nat
      BY <3>1, FS_Subset, FS_CardinalityType
    <3> HIDE DEF below
    <3>3. QED
      BY <3>2
  <2>3. Cardinality(below(x)) = k - 1
    BY <2>1, <2>2
  <2>4. r[k] = CHOOSE y \in S : Cardinality(below(y)) = k - 1
    BY DEF InOrder
  <2>5. r[k] \in S /\ Cardinality(below(r[k])) = k - 1
    BY <2>3, <2>4
  <2>6. QED
    BY <2>5
<1>7. \A k \in 1..n : Cardinality(below(r[k])) = k - 1
  <2> SUFFICES ASSUME NEW k \in 1..n PROVE Cardinality(below(r[k])) = k - 1
    OBVIOUS
  <2>1. r[k] \in S /\ f[r[k]] = k
    BY <1>6
  <2>2. below(r[k]) \in SUBSET S
    OBVIOUS
  <2> HIDE DEF r, below
  <2>3. Cardinality(below(r[k])) \in Nat
    BY <2>2, Smaller
  <2>4. QED
    BY <2>1, <2>3
<1>8. r = [k \in 1..n |-> choice(k)]
  BY DEF InOrder
<1> HIDE DEF r, f, n, choice
<1>9. r \in Bijection(1..n, S)
  <2>1. r \in [1..n -> S]
    BY <1>6, <1>8
  <2>2. \A k, l \in 1..n : r[k] = r[l] => k = l
    BY <1>6
  <2>3. ASSUME NEW x \in S PROVE \E k \in 1..n : r[k] = x
    <3>1. f[x] \in 1..n
      BY <1>2
    <3>2. r[f[x]] \in S /\ f[r[f[x]]] = f[x]
      BY <1>6, <3>1
    <3>3. r[f[x]] = x
      BY <1>4, <3>2 DEF Injection, IsInjective
    <3>4. QED
      BY <3>1, <3>3
  <2>4. QED
    BY <2>1, <2>2, <2>3 DEF Bijection, Injection, Surjection, IsInjective
<1>10. ASSUME NEW k \in 1..n, NEW l \in 1..n, k < l PROVE <<r[k], r[l]>> \in before
  <2>1. r[k] \in S /\ r[l] \in S /\ r[k] # r[l]
    BY <1>6, <1>10
  <2>2. <<r[l], r[k]>> \notin before
    BY <1>3, <1>6, <1>10
  <2>3. QED
    BY <2>1, <2>2 DEF TotalOn
<1>11. QED
  BY <1>1, <1>7, <1>9, <1>10 DEF n, r

-----------------------------------------------------------------------------

\* No packet stands twice in a list.
Distinct(s) == \A j, k \in DOMAIN s : s[j] = s[k] => j = k

\* Packets with equal numbers stand in order of arrival.
Stable(s, ps) ==
    \A j, k \in DOMAIN s : j < k /\ ps[s[j]].num = ps[s[k]].num => s[j] < s[k]

\* Packets stand in order of their numbers, and those with equal numbers in
\* order of arrival.
Ordered(s, ps) ==
    \A j, k \in DOMAIN s : j < k =>
        ps[s[j]].num < ps[s[k]].num \/ (ps[s[j]].num = ps[s[k]].num /\ s[j] < s[k])

\* list.sort: the same packets, each once, in order, if those with equal numbers
\* were in order before.
LEMMA SortedIs ==
    ASSUME NEW P \in SUBSET Nat, NEW s \in Seq(P), NEW ps, \A p \in P : ps[p].num \in Nat
    PROVE  /\ Sorted(s, ps) \in Seq(P)
           /\ ToSet(Sorted(s, ps)) = ToSet(s)
           /\ Distinct(s) => Distinct(Sorted(s, ps))
           /\ Stable(s, ps) => Ordered(Sorted(s, ps), ps)
<1> DEFINE D == DOMAIN s
           n == Len(s)
           before == {p \in D \X D : \/ ps[s[p[1]]].num < ps[s[p[2]]].num
                                     \/ ps[s[p[1]]].num = ps[s[p[2]]].num /\ p[1] < p[2]}
           order == InOrder(D, before)
           r == Sorted(s, ps)
<1>1. D = 1..n /\ n \in Nat /\ \A j \in D : s[j] \in P /\ j \in Nat /\ ps[s[j]].num \in Nat
  <2>1. D = 1..n /\ n \in Nat /\ \A j \in D : s[j] \in P
    OBVIOUS
  <2>2. \A j \in D : j \in Nat
    BY <2>1
  <2>3. ASSUME NEW j \in D PROVE ps[s[j]].num \in Nat
    <3>1. s[j] \in P
      BY <2>1
    <3>2. QED
      BY <3>1
  <2>4. QED
    BY <2>1, <2>2, <2>3
<1>2. IsFiniteSet(D) /\ Cardinality(D) = n
  BY <1>1, FS_Interval
<1>3. ASSUME NEW j \in D, NEW k \in D
      PROVE  <<j, k>> \in before <=> \/ ps[s[j]].num < ps[s[k]].num
                                     \/ ps[s[j]].num = ps[s[k]].num /\ j < k
  OBVIOUS
<1>4. r = [k \in D |-> s[order[k]]]
  BY DEF Sorted
<1> HIDE DEF D, before, r, order, n
<1>5. TotalOn(D, before)
  <2>1. \A x \in D : <<x, x>> \notin before
    BY <1>1, <1>3
  <2>2. \A x, y \in D : x # y => <<x, y>> \in before \/ <<y, x>> \in before
    BY <1>1, <1>3
  <2>3. ASSUME NEW x \in D, NEW y \in D, NEW z \in D, <<x, y>> \in before, <<y, z>> \in before
        PROVE  <<x, z>> \in before
    BY <1>1, <1>3, <2>3
  <2>4. QED
    BY <2>1, <2>2, <2>3 DEF TotalOn
<1>6. order \in Bijection(1..n, D) /\ \A k, l \in 1..n : k < l => <<order[k], order[l]>> \in before
  BY <1>2, <1>5, InOrderIs DEF order
<1>7. /\ \A k \in D : order[k] \in D
      /\ \A k, l \in D : order[k] = order[l] => k = l
      /\ \A j \in D : \E k \in D : order[k] = j
  BY <1>1, <1>6 DEF Bijection, Injection, Surjection, IsInjective
<1>8. r \in Seq(P) /\ DOMAIN r = D /\ \A k \in D : r[k] = s[order[k]]
  <2>1. r \in [1..n -> P]
    BY <1>1, <1>4, <1>7
  <2>2. QED
    BY <1>1, <1>4, <2>1
<1>9. ToSet(r) = ToSet(s)
  <2>1. ToSet(r) = {r[k] : k \in D} /\ ToSet(s) = {s[j] : j \in D}
    BY <1>8 DEF ToSet, D
  <2>2. \A k \in D : \E j \in D : r[k] = s[j]
    BY <1>7, <1>8
  <2>3. \A j \in D : \E k \in D : r[k] = s[j]
    BY <1>7, <1>8
  <2>4. QED
    BY <2>1, <2>2, <2>3
<1>10. ASSUME Distinct(s) PROVE Distinct(r)
  <2> SUFFICES ASSUME NEW j \in D, NEW k \in D, r[j] = r[k] PROVE j = k
    BY <1>8 DEF Distinct
  <2>1. order[j] \in D /\ order[k] \in D /\ s[order[j]] = s[order[k]]
    BY <1>7, <1>8
  <2>2. order[j] = order[k]
    BY <1>10, <2>1 DEF Distinct, D
  <2>3. QED
    BY <1>7, <2>2
<1>11. ASSUME Stable(s, ps) PROVE Ordered(r, ps)
  <2> SUFFICES ASSUME NEW j \in D, NEW k \in D, j < k
               PROVE  \/ ps[r[j]].num < ps[r[k]].num
                      \/ ps[r[j]].num = ps[r[k]].num /\ r[j] < r[k]
    BY <1>8 DEF Ordered
  <2>1. <<order[j], order[k]>> \in before /\ order[j] \in D /\ order[k] \in D
    BY <1>1, <1>6, <1>7
  <2>2. \/ ps[s[order[j]]].num < ps[s[order[k]]].num
        \/ ps[s[order[j]]].num = ps[s[order[k]]].num /\ order[j] < order[k]
    BY <1>3, <2>1
  <2>3. ps[s[order[j]]].num = ps[s[order[k]]].num /\ order[j] < order[k]
        => s[order[j]] < s[order[k]]
    BY <1>11, <2>1 DEF Stable, D
  <2>4. QED
    BY <1>8, <2>2, <2>3
<1>12. QED
  BY <1>8, <1>9, <1>10, <1>11 DEF r

\* Picked lists the elements at the places, in their order.
LEMMA PickedIs ==
    ASSUME NEW I, NEW s \in Seq(I), NEW places \in SUBSET DOMAIN s
    PROVE  /\ Cardinality(places) \in Nat
           /\ Picked(s, places) \in Seq({s[j] : j \in places})
           /\ Len(Picked(s, places)) = Cardinality(places)
<1> DEFINE before == {p \in places \X places : p[1] < p[2]}
           order == InOrder(places, before)
           n == Cardinality(places)
<1>1. IsFiniteSet(places) /\ \A j \in places : j \in Nat
  <2>1. DOMAIN s = 1..Len(s) /\ Len(s) \in Nat
    OBVIOUS
  <2>2. IsFiniteSet(DOMAIN s)
    BY <2>1, FS_Interval
  <2>3. QED
    BY <2>1, <2>2, FS_Subset
<1>2. TotalOn(places, before)
  BY <1>1 DEF TotalOn
<1>3. n \in Nat /\ order \in [1..n -> places]
  <2> HIDE DEF before
  <2>1. QED
    BY <1>1, <1>2, InOrderIs DEF Bijection, Injection
<1>4. Picked(s, places) = [k \in DOMAIN order |-> s[order[k]]]
  BY DEF Picked
<1> HIDE DEF order, n
<1>5. Picked(s, places) \in [1..n -> {s[j] : j \in places}]
  BY <1>3, <1>4
<1>6. QED
  BY <1>3, <1>5 DEF n

-----------------------------------------------------------------------------

\* The packets that addData makes of the messages that may arrive.
Packets == {Packet(m, n) : m \in {x \in Feed : x.kind \in {"OK", "SKIP"}}, n \in Nat}

CollectorFlags == isConnect \in BOOLEAN /\ isCollect \in BOOLEAN /\ calm \in BOOLEAN

CollectorTypes ==
    /\ packets \in Seq(Packets) /\ Len(packets) <= MaxPackets
    /\ dataList \in Seq(1..Len(packets)) /\ aside \in Seq(1..Len(packets))
    /\ want \in Seq(1..Len(packets)) /\ rows \in Seq(1..Len(packets))
    /\ kml \in Seq((1..Len(packets)) \X Nat)
    /\ mq \in {"none", "idle", "append", "sort", "sorting", "drawing", "dead"}
    /\ gui \in {"mainloop", "joining", "counting", "points", "csv"}
    /\ cleared \in 0..Len(packets) /\ (mq = "append" => cleared < Len(packets))
    /\ i \in Nat \ {0}
    /\ ssids \subseteq {m.net : m \in Feed}
    /\ saves \in 0..MaxSaves /\ outcome \in {"none", "saved", "failed"}

\* The list that is being filled, as the MQTT thread sees it.
Current == IF mq = "sorting" THEN aside ELSE dataList

\* The packets taken in since the list was started.
Due == {p \in (cleared + 1)..Len(packets) : ~(mq = "append" /\ p = Len(packets))}

Once ==
    /\ mq = "sorting" => dataList = <<>>
    /\ mq # "sorting" => aside = <<>>
    /\ ToSet(Current) = Due
    /\ Distinct(Current)
    /\ IF mq \in {"sort", "sorting"} THEN Stable(Current, packets) ELSE Ordered(dataList, packets)

\* Only a user who is connected, or is waiting for the thread to end, has one.
Quiet == gui # "joining" /\ ~isConnect => mq = "none"

\* A packet is counted as skipped at most once for each place of the list that
\* an export has gone through.
SkipBound ==
    IF gui = "counting" THEN MaxPackets * (saves - 1) + (i - 1) ELSE MaxPackets * saves

Exporting == gui \in {"counting", "points", "csv"}

Skips ==
    /\ i <= MaxPackets + 1
    /\ Exporting => saves > 0
    /\ \A p \in 1..Len(packets) : packets[p].skip <= SkipBound

\* A finite set of numbers has a least and a greatest element.
LEMMA Extremes ==
    ASSUME NEW S \in SUBSET Nat, IsFiniteSet(S), S # {}
    PROVE  /\ \E x \in S : \A y \in S : x <= y
           /\ \E x \in S : \A y \in S : x >= y
<1> DEFINE before == {p \in S \X S : p[1] < p[2]}
           n == Cardinality(S)
           order == InOrder(S, before)
<1>0. \A x \in S : x \in Int
  OBVIOUS
<1>1. TotalOn(S, before)
  BY DEF TotalOn
<1>2. ASSUME NEW x \in S, NEW y \in S, <<x, y>> \in before PROVE x < y
  BY <1>2
<1> HIDE DEF before
<1>3. /\ n \in Nat /\ order \in Bijection(1..n, S)
      /\ \A k, l \in 1..n : k < l => <<order[k], order[l]>> \in before
  BY <1>1, InOrderIs
<1>4. n # 0
  BY FS_EmptySet
<1> HIDE DEF n, order
<1>5. \A x \in S : \E k \in 1..n : order[k] = x
  BY <1>3 DEF Bijection, Surjection
<1>6. \A k \in 1..n : order[k] \in S
  BY <1>3 DEF Bijection, Injection
<1>7. 1 \in 1..n /\ n \in 1..n /\ \A k \in 1..n : (1 = k \/ 1 < k) /\ (k = n \/ k < n)
  BY <1>3, <1>4
<1>8. ASSUME NEW y \in S PROVE order[1] <= y /\ order[n] >= y
  <2>1. PICK k \in 1..n : order[k] = y
    BY <1>5
  <2>2. order[1] \in S /\ order[n] \in S
    BY <1>6, <1>7
  <2> DEFINE a == order[1]
             b == order[n]
  <2>3. a = y \/ a < y
    BY <1>2, <1>3, <1>7, <2>1, <2>2
  <2>4. b = y \/ y < b
    BY <1>2, <1>3, <1>7, <2>1, <2>2
  <2> HIDE DEF a, b
  <2>5. a \in Int /\ b \in Int /\ y \in Int
    BY <1>0, <2>2 DEF a, b
  <2>6. a <= y /\ b >= y
    BY <2>3, <2>4, <2>5
  <2>7. QED
    BY <2>6 DEF a, b
<1>9. order[1] \in S /\ order[n] \in S
  BY <1>6, <1>7
<1>10. QED
  BY <1>8, <1>9

\* So Min and Max are in it.
LEMMA MinMax ==
    ASSUME NEW S \in SUBSET Nat, IsFiniteSet(S), S # {}
    PROVE  /\ Min(S) \in S /\ \A y \in S : Min(S) <= y
           /\ Max(S) \in S /\ \A y \in S : Max(S) >= y
BY Extremes DEF Min, Max

\* The loop of genKML looks back from the first packet like this one, at its
\* place or before, to measurements.
LEMMA SkipperIs ==
    ASSUME NEW P \in SUBSET Nat, dataList \in Seq(P), NEW j \in DOMAIN dataList
    PROVE  Skipper(j) # 0 => Skipper(j) \in DOMAIN dataList /\ IsOK(dataList[Skipper(j)])
<1> DEFINE n == Len(dataList)
           alike == {k \in 1..n : packets[dataList[k]].kind = "SKIP"
                                  /\ packets[dataList[k]].num = packets[dataList[j]].num}
           like == IF alike # {} THEN Min(alike) ELSE 0
           good == {k \in 1..(like - 1) : IsOK(dataList[k])}
<1>1. Skipper(j) = IF good # {} THEN Max(good) ELSE 0
  BY DEF Skipper, SelectInSeq, SelectLastInSubSeq
<1>2. n \in Nat /\ DOMAIN dataList = 1..n
  OBVIOUS
<1>3. like \in 0..n
  <2>1. alike \in SUBSET (1..n) /\ alike \in SUBSET Nat
    OBVIOUS
  <2>2. IsFiniteSet(alike)
    BY <1>2, <2>1, FS_Interval, FS_Subset
  <2>3. alike # {} => Min(alike) \in alike
    <3> HIDE DEF alike
    <3>1. QED
      BY <2>1, <2>2, Extremes DEF Min
  <2>4. QED
    BY <1>2, <2>1, <2>3
<1> HIDE DEF like, n
<1>4. good \in SUBSET (1..n) /\ good \in SUBSET Nat
  BY <1>2, <1>3
<1>5. IsFiniteSet(good)
  <2>1. IsFiniteSet(1..n)
    BY <1>2, FS_Interval
  <2> HIDE DEF good
  <2>2. QED
    BY <1>4, <2>1, FS_Subset
<1>6. good # {} => Max(good) \in good
  <2> HIDE DEF good
  <2>1. QED
    BY <1>4, <1>5, Extremes DEF Max
<1>7. QED
  BY <1>1, <1>2, <1>4, <1>6

\* What a packet is made of.
LEMMA PacketIs ==
    ASSUME NEW q \in Packets
    PROVE  /\ \E m \in Feed : q = Packet(m, q.skip)
           /\ q.kind \in {"OK", "SKIP"} /\ q.num \in Nat /\ q.skip \in Nat
           /\ q.net \in {m.net : m \in Feed}
<1>1. PICK m \in {x \in Feed : x.kind \in {"OK", "SKIP"}}, n \in Nat : q = Packet(m, n)
  BY DEF Packets
<1>2. q.kind = m.kind /\ q.num = m.num /\ q.net = m.net /\ q.skip = n
  BY <1>1 DEF Packet
<1>3. m.num \in Nat
  BY FeedAssumption
<1>4. QED
  BY <1>1, <1>2, <1>3

\* A place in packets holds a packet with a number.
LEMMA PacketsAre ==
    ASSUME CollectorTypes, NEW p \in DOMAIN packets
    PROVE  packets[p] \in Packets /\ packets[p].num \in Nat /\ p \in 1..Len(packets)
<1>1. packets[p] \in Packets /\ p \in 1..Len(packets)
  BY DEF CollectorTypes
<1>2. QED
  BY <1>1, PacketIs

\* The place of a loop of the export that is not at its end.
LEMMA PlaceIs ==
    ASSUME CollectorTypes, ~AtEnd
    PROVE  /\ i \in DOMAIN dataList /\ dataList[i] \in 1..Len(packets)
           /\ packets[dataList[i]] \in Packets
<1>1. i \in DOMAIN dataList /\ dataList \in Seq(1..Len(packets))
  BY DEF AtEnd, CollectorTypes
<1>2. dataList[i] \in 1..Len(packets)
  BY <1>1
<1>3. QED
  BY <1>1, <1>2 DEF CollectorTypes

\* A new packet.
LEMMA FreshIs ==
    ASSUME NEW m \in Feed, m.kind \in {"OK", "SKIP"}
    PROVE  Fresh(m) \in Packets
BY DEF Fresh, Packets

\* A list stays a list of packets when more packets come.
LEMMA StillSeq ==
    ASSUME NEW A, NEW B, A \subseteq B, NEW s \in Seq(A)
    PROVE  s \in Seq(B)
OBVIOUS

\* addData takes the rows of a file that are packets.
LEMMA RowsAre ==
    ASSUME NEW f \in Files
    PROVE  Rows(f) \in Seq({x \in Feed : x.kind \in {"OK", "SKIP"}})
<1> DEFINE places == {k \in DOMAIN f : /\ f[k].kind \in {"OK", "SKIP"}
                                       /\ \A j \in 1..k : f[j].kind # "RAISES"}
<1>1. f \in Seq(Feed)
  BY FilesAssumption
<1>2. Picked(f, places) \in Seq({f[j] : j \in places})
  BY <1>1, PickedIs
<1>3. {f[j] : j \in places} \subseteq {x \in Feed : x.kind \in {"OK", "SKIP"}}
  BY <1>1
<1>4. Picked(f, places) \in Seq({x \in Feed : x.kind \in {"OK", "SKIP"}})
  <2> HIDE DEF places
  <2>1. QED
    BY <1>2, <1>3, StillSeq
<1>5. QED
  BY <1>4 DEF Rows

\* What importFile makes of the rows.
LEMMA ImportIs ==
    ASSUME CollectorTypes, NEW f \in Files, Import(f)
    PROVE  /\ packets' \in Seq(Packets)
           /\ Len(packets') = Len(packets) + Len(Rows(f)) /\ Len(Rows(f)) \in Nat
           /\ \A p \in 1..Len(packets) : packets'[p] = packets[p]
           /\ \A p \in 1..Len(packets') : p > Len(packets) => packets'[p].skip = 0
           /\ \E s \in Seq((Len(packets) + 1)..Len(packets')) :
                 /\ dataList' = Sorted(s, packets')
                 /\ Len(s) = Len(Rows(f))
                 /\ \A k \in 1..Len(s) : s[k] = Len(packets) + k
<1> DEFINE R == Rows(f)
           M == {x \in Feed : x.kind \in {"OK", "SKIP"}}
           new == [k \in DOMAIN R |-> Fresh(R[k])]
           s == [k \in DOMAIN R |-> Len(packets) + k]
<1>1. R \in Seq(M) /\ packets \in Seq(Packets) /\ Len(R) \in Nat /\ Len(packets) \in Nat
      /\ DOMAIN R = 1..Len(R)
  <2>1. R \in Seq(M)
    BY RowsAre
  <2> HIDE DEF R
  <2>2. QED
    BY <2>1 DEF CollectorTypes
<1>2. packets' = packets \o new /\ dataList' = Sorted(s, packets')
  BY DEF Import
<1> HIDE DEF R, M
<1>3. \A m \in M : Fresh(m) \in Packets
  BY FreshIs DEF M
<1>4. new \in Seq(Packets) /\ Len(new) = Len(R)
  <2>1. new \in [1..Len(R) -> Packets]
    BY <1>1, <1>3
  <2>2. QED
    BY <1>1, <2>1
<1>5. ASSUME NEW k \in 1..Len(R) PROVE new[k].skip = 0
  <2>1. new[k] = Fresh(R[k])
    BY <1>1
  <2>2. QED
    BY <2>1 DEF Fresh, Packet
<1> HIDE DEF new
<1>6. /\ packets' \in Seq(Packets) /\ Len(packets') = Len(packets) + Len(R)
      /\ \A p \in 1..Len(packets) : packets'[p] = packets[p]
      /\ \A p \in 1..Len(packets') : p > Len(packets) => packets'[p].skip = 0
  <2>1. packets \in Seq(Packets) /\ new \in Seq(Packets)
    BY <1>1, <1>4
  <2>2. packets \o new \in Seq(Packets) /\ Len(packets \o new) = Len(packets) + Len(new)
        /\ \A p \in 1..(Len(packets) + Len(new)) :
              (packets \o new)[p] = IF p <= Len(packets) THEN packets[p] ELSE new[p - Len(packets)]
    BY <2>1, ConcatProperties
  <2>3. packets' \in Seq(Packets) /\ Len(packets') = Len(packets) + Len(R)
    BY <1>2, <1>4, <2>2
  <2>4. \A p \in 1..Len(packets) : packets'[p] = packets[p]
    BY <1>1, <1>2, <1>4, <2>2
  <2>5. ASSUME NEW p \in 1..Len(packets'), p > Len(packets) PROVE packets'[p].skip = 0
    <3>1. p - Len(packets) \in 1..Len(R) /\ packets'[p] = new[p - Len(packets)]
      BY <1>1, <1>2, <1>4, <2>2, <2>3, <2>5
    <3>2. QED
      BY <1>5, <3>1
  <2>6. QED
    BY <2>3, <2>4, <2>5
<1>7. s \in Seq((Len(packets) + 1)..Len(packets')) /\ Len(s) = Len(R)
      /\ \A k \in 1..Len(s) : s[k] = Len(packets) + k
  <2>1. s \in [1..Len(R) -> (Len(packets) + 1)..Len(packets')]
    BY <1>1, <1>6
  <2>2. QED
    BY <1>1, <2>1
<1> HIDE DEF s
<1>8. QED
  BY <1>1, <1>2, <1>6, <1>7 DEF R

\* The three flags are Boolean.
LEMMA CollectorFlagsOK == Spec => []CollectorFlags
<1>1. Init => CollectorFlags
  BY DEF Init, CollectorFlags
<1>2. CollectorFlags /\ [Next]_vars => CollectorFlags'
  <2> SUFFICES ASSUME CollectorFlags, [Next]_vars PROVE CollectorFlags'
    OBVIOUS
  <2> USE DEF CollectorFlags
  <2>1. ASSUME NEW m \in Feed, Receive(m) \/ Garbled(m) PROVE CollectorFlags'
    BY <2>1 DEF Receive, Garbled
  <2>2. CASE Adding \/ Draw \/ LoopEnd
    BY <2>2 DEF Adding, AppendData, SortBegin, SortEnd, Draw, LoopEnd
  <2>3. CASE Connect \/ Disconnect \/ Disconnected \/ Start \/ Pause
    BY <2>3 DEF Connect, Disconnect, Disconnected, Start, Pause
  <2>4. ASSUME NEW f \in Files, Import(f) PROVE CollectorFlags'
    BY <2>4 DEF Import
  <2>5. CASE Save \/ Saving
    BY <2>5 DEF Save, Saving, CountOne, Counted, PointOne, KmlSaved, RowOne, CsvSaved
  <2>6. CASE UNCHANGED vars
    BY <2>6 DEF vars
  <2>7. QED
    BY <2>1, <2>2, <2>3, <2>4, <2>5, <2>6 DEF Next
<1>3. QED
  BY <1>1, <1>2, PTL DEF Spec

\* The types hold when the program starts.
LEMMA CollectorTypesInit == Init => CollectorTypes
<1> SUFFICES ASSUME Init PROVE CollectorTypes
  OBVIOUS
<1>1. packets = <<>> /\ Len(packets) = 0
  BY DEF Init
<1>2. \A S : <<>> \in Seq(S)
  OBVIOUS
<1>3. QED
  BY <1>1, <1>2, BoundsAssumption DEF Init, CollectorTypes

\* The MQTT thread keeps the types.
LEMMA MqttThreadTypes ==
    ASSUME CollectorTypes,
           (\E m \in Feed : Receive(m) \/ Garbled(m)) \/ Adding \/ Draw \/ LoopEnd
    PROVE  CollectorTypes'
<1> USE DEF export
<1>1. ASSUME NEW m \in Feed, Receive(m) PROVE CollectorTypes'
  <2>1. Fresh(m) \in Packets
    BY <1>1, FreshIs DEF Receive
  <2>2. packets' = Append(packets, Fresh(m)) /\ Len(packets) < MaxPackets
    BY <1>1 DEF Receive
  <2>3. packets' \in Seq(Packets) /\ Len(packets') = Len(packets) + 1 /\ Len(packets) \in Nat
    BY <2>1, <2>2 DEF CollectorTypes
  <2>4. Len(packets') <= MaxPackets
    BY <2>2, <2>3, BoundsAssumption
  <2>5. 1..Len(packets) \subseteq 1..Len(packets') /\ 0..Len(packets) \subseteq 0..Len(packets')
    BY <2>3
  <2>6. (1..Len(packets)) \X Nat \subseteq (1..Len(packets')) \X Nat
    BY <2>5
  <2>7. /\ dataList \in Seq(1..Len(packets')) /\ aside \in Seq(1..Len(packets'))
        /\ want \in Seq(1..Len(packets')) /\ rows \in Seq(1..Len(packets'))
        /\ kml \in Seq((1..Len(packets')) \X Nat)
    BY <2>5, <2>6, StillSeq DEF CollectorTypes
  <2>8. cleared \in 0..Len(packets') /\ cleared < Len(packets')
    BY <2>3 DEF CollectorTypes
  <2>9. QED
    BY <1>1, <2>3, <2>4, <2>7, <2>8 DEF Receive, CollectorTypes
<1>2. ASSUME NEW m \in Feed, Garbled(m) PROVE CollectorTypes'
  BY <1>2 DEF Garbled, list, CollectorTypes
<1>3. CASE AppendData
  <2>1. Len(packets) \in 1..Len(packets)
    BY <1>3 DEF AppendData, CollectorTypes
  <2>2. dataList' \in Seq(1..Len(packets))
    BY <1>3, <2>1 DEF AppendData, CollectorTypes
  <2>3. QED
    BY <1>3, <2>2 DEF AppendData, CollectorTypes
<1>4. CASE SortBegin
  <2>1. dataList' \in Seq(1..Len(packets))
    BY <1>4 DEF SortBegin
  <2>2. QED
    BY <1>4, <2>1 DEF SortBegin, CollectorTypes
<1>5. CASE SortEnd
  <2>1. \A p \in 1..Len(packets) : packets[p].num \in Nat
    BY PacketsAre DEF CollectorTypes
  <2>2. Sorted(aside, packets) \in Seq(1..Len(packets))
    <3>1. 1..Len(packets) \in SUBSET Nat /\ aside \in Seq(1..Len(packets))
      BY DEF CollectorTypes
    <3>2. QED
      BY <2>1, <3>1, SortedIs
  <2>3. aside' \in Seq(1..Len(packets))
    BY <1>5 DEF SortEnd
  <2>4. QED
    BY <1>5, <2>2, <2>3 DEF SortEnd, CollectorTypes
<1>6. CASE Draw \/ LoopEnd
  BY <1>6 DEF Draw, LoopEnd, list, CollectorTypes
<1>7. QED
  BY <1>1, <1>2, <1>3, <1>4, <1>5, <1>6 DEF Adding

\* The GUI thread keeps the types.
LEMMA GuiThreadTypes ==
    ASSUME CollectorTypes,
           Connect \/ Disconnect \/ Disconnected \/ Start \/ Pause \/ Save \/ Saving
             \/ \E f \in Files : Import(f)
    PROVE  CollectorTypes'
<1> USE DEF export
<1>1. CASE Connect \/ Disconnect \/ Disconnected \/ Pause
  BY <1>1 DEF Connect, Disconnect, Disconnected, Pause, list, CollectorTypes
<1>2. CASE Start
  <2>1. dataList' \in Seq(1..Len(packets)) /\ aside' \in Seq(1..Len(packets))
    BY <1>2 DEF Start, NewList
  <2>2. Len(packets) \in Nat /\ cleared' \in 0..Len(packets)
        /\ (mq = "append" => cleared' < Len(packets))
    BY <1>2 DEF Start, NewList, CollectorTypes
  <2>3. QED
    BY <1>2, <2>1, <2>2 DEF Start, CollectorTypes
<1>3. ASSUME NEW f \in Files, Import(f) PROVE CollectorTypes'
  <2>1. /\ packets' \in Seq(Packets) /\ Len(packets) \in Nat
        /\ Len(packets') = Len(packets) + Len(Rows(f)) /\ Len(Rows(f)) \in Nat
    BY <1>3, ImportIs DEF CollectorTypes
  <2>2. Len(packets') <= MaxPackets
    BY <1>3, <2>1 DEF Import
  <2>3. 1..Len(packets) \subseteq 1..Len(packets')
        /\ (Len(packets) + 1)..Len(packets') \subseteq 1..Len(packets')
    BY <2>1
  <2>4. (1..Len(packets)) \X Nat \subseteq (1..Len(packets')) \X Nat
    BY <2>3
  <2>5. /\ aside \in Seq(1..Len(packets'))
        /\ want \in Seq(1..Len(packets')) /\ rows \in Seq(1..Len(packets'))
        /\ kml \in Seq((1..Len(packets')) \X Nat)
    BY <2>3, <2>4, StillSeq DEF CollectorTypes
  <2>6. dataList' \in Seq(1..Len(packets'))
    <3>1. PICK s \in Seq((Len(packets) + 1)..Len(packets')) : dataList' = Sorted(s, packets')
      BY <1>3, ImportIs
    <3>2. s \in Seq(1..Len(packets'))
      BY <2>3, StillSeq
    <3>3. \A p \in 1..Len(packets') : packets'[p].num \in Nat
      <4>1. \A p \in 1..Len(packets') : packets'[p] \in Packets
        BY <2>1
      <4>2. QED
        BY <4>1, PacketIs
    <3>4. 1..Len(packets') \in SUBSET Nat
      OBVIOUS
    <3>5. QED
      BY <3>1, <3>2, <3>3, <3>4, SortedIs
  <2>7. cleared' \in 0..Len(packets') /\ mq # "append" /\ mq' = mq
    BY <1>3, <2>1 DEF Import
  <2>8. QED
    BY <1>3, <2>1, <2>2, <2>5, <2>6, <2>7 DEF Import, CollectorTypes
<1>4. CASE Save
  <2>1. kml' \in Seq((1..Len(packets)) \X Nat) /\ rows' \in Seq(1..Len(packets))
        /\ ssids' = {} /\ i' = 1
    BY <1>4 DEF Save
  <2>2. saves' \in 0..MaxSaves
    BY <1>4, BoundsAssumption DEF Save, CollectorTypes
  <2>3. gui' \in {gui, "counting"} /\ outcome' \in {"none", "failed"}
    BY <1>4 DEF Save
  <2>4. QED
    BY <1>4, <2>1, <2>2, <2>3 DEF Save, list, CollectorTypes
<1>5. CASE CountOne
  <2>1. i \in DOMAIN dataList /\ dataList \in Seq(1..Len(packets))
    BY <1>5 DEF CountOne, AtEnd, CollectorTypes
  <2>2. packets' \in Seq(Packets) /\ Len(packets') = Len(packets)
    <3>1. CASE packets' = packets
      BY <3>1 DEF CollectorTypes
    <3>2. CASE Skipper(i) # 0 /\ packets' = [packets EXCEPT ![dataList[Skipper(i)]].skip = @ + 1]
      <4> DEFINE p == dataList[Skipper(i)]
      <4>1. p \in 1..Len(packets)
        <5>1. 1..Len(packets) \in SUBSET Nat
          OBVIOUS
        <5>2. Skipper(i) \in DOMAIN dataList
          BY <2>1, <3>2, <5>1, SkipperIs
        <5>3. QED
          BY <2>1, <5>2
      <4> HIDE DEF p
      <4>2. packets[p] \in Packets
        BY <4>1 DEF CollectorTypes
      <4>3. [packets[p] EXCEPT !.skip = @ + 1] \in Packets
        <5>1. PICK m \in {x \in Feed : x.kind \in {"OK", "SKIP"}}, n \in Nat : packets[p] = Packet(m, n)
          BY <4>2 DEF Packets
        <5>2. [packets[p] EXCEPT !.skip = @ + 1] = Packet(m, n + 1)
          BY <5>1 DEF Packet
        <5>3. QED
          BY <5>2 DEF Packets
      <4>4. packets' = [packets EXCEPT ![p] = [packets[p] EXCEPT !.skip = @ + 1]]
        BY <3>2 DEF p
      <4>5. QED
        BY <4>1, <4>3, <4>4 DEF CollectorTypes
    <3>3. QED
      BY <1>5, <3>1, <3>2 DEF CountOne
  <2>3. ssids' \subseteq {m.net : m \in Feed}
    <3>1. packets[dataList[i]] \in Packets
      BY <2>1 DEF CollectorTypes
    <3>2. QED
      BY <1>5, <3>1, PacketIs DEF CountOne, CollectorTypes
  <2>4. i' \in Nat \ {0}
    BY <1>5 DEF CountOne, CollectorTypes
  <2>5. QED
    BY <1>5, <2>2, <2>3, <2>4 DEF CountOne, CollectorTypes
<1>6. CASE PointOne
  <2>1. dataList[i] \in 1..Len(packets) /\ packets[dataList[i]].skip \in Nat
    BY <1>6, PlaceIs, PacketIs DEF PointOne
  <2> DEFINE point == <<dataList[i], packets[dataList[i]].skip>>
             Points == (1..Len(packets)) \X Nat
  <2>2. kml' = kml \/ kml' = Append(kml, point)
    BY <1>6 DEF PointOne
  <2>3. kml' \in Seq(Points)
    <3>1. point \in Points
      BY <2>1
    <3>2. kml \in Seq(Points)
      BY DEF CollectorTypes
    <3> HIDE DEF point, Points
    <3>3. QED
      BY <2>2, <3>1, <3>2
  <2>4. /\ gui' \in {gui, "mainloop"} /\ outcome' \in {outcome, "failed"} /\ i' = i + 1
        /\ UNCHANGED <<packets, dataList, aside, cleared, mq, ssids, rows, saves, want>>
    BY <1>6 DEF PointOne, list
  <2> HIDE <1>6
  <2>5. QED
    BY <2>3, <2>4 DEF CollectorTypes
<1>7. CASE RowOne
  <2>1. rows' \in Seq(1..Len(packets))
    BY <1>7 DEF RowOne, AtEnd, CollectorTypes
  <2>2. QED
    BY <1>7, <2>1 DEF RowOne, list, CollectorTypes
<1>8. CASE Counted \/ KmlSaved \/ CsvSaved
  BY <1>8 DEF Counted, KmlSaved, CsvSaved, list, CollectorTypes
<1>9. QED
  BY <1>1, <1>2, <1>3, <1>4, <1>5, <1>6, <1>7, <1>8 DEF Saving

\* Every step keeps the types.
LEMMA CollectorTypesNext == CollectorTypes /\ [Next]_vars => CollectorTypes'
<1>1. ASSUME CollectorTypes, UNCHANGED vars PROVE CollectorTypes'
  BY <1>1 DEF vars, list, export, CollectorTypes
<1>2. QED
  BY <1>1, MqttThreadTypes, GuiThreadTypes DEF Next

-----------------------------------------------------------------------------

\* The loop that counts skipped packets changes a count, if anything.
LEMMA CountOneIs ==
    ASSUME CollectorTypes, CountOne
    PROVE  /\ Len(packets') = Len(packets)
           /\ \A p \in 1..Len(packets) :
                 /\ packets'[p].kind = packets[p].kind /\ packets'[p].num = packets[p].num
                 /\ packets'[p].net = packets[p].net
                 /\ packets'[p].skip =
                       IF ~IsOK(dataList[i]) /\ Skipper(i) # 0 /\ p = dataList[Skipper(i)]
                       THEN packets[p].skip + 1 ELSE packets[p].skip
<1>1. packets \in Seq(Packets) /\ \A p \in 1..Len(packets) : packets[p] \in Packets
  BY DEF CollectorTypes
<1> DEFINE x == dataList[Skipper(i)]
           hit == ~IsOK(dataList[i]) /\ Skipper(i) # 0
<1>2. packets' = IF hit THEN [packets EXCEPT ![x].skip = @ + 1] ELSE packets
  BY DEF CountOne
<1> HIDE DEF x, hit
<1>3. Len(packets') = Len(packets)
  BY <1>1, <1>2
<1>4. ASSUME NEW p \in 1..Len(packets)
      PROVE  /\ packets'[p].kind = packets[p].kind /\ packets'[p].num = packets[p].num
             /\ packets'[p].net = packets[p].net
             /\ packets'[p].skip = IF hit /\ p = x THEN packets[p].skip + 1 ELSE packets[p].skip
  <2>1. packets'[p] = IF hit /\ p = x THEN [packets[p] EXCEPT !.skip = @ + 1] ELSE packets[p]
    BY <1>1, <1>2
  <2>2. PICK m, k : packets[p] = Packet(m, k)
    BY <1>1 DEF Packets
  <2>3. [packets[p] EXCEPT !.skip = @ + 1] = Packet(m, k + 1)
    BY <2>2 DEF Packet
  <2>4. QED
    BY <2>1, <2>2, <2>3 DEF Packet
<1>5. QED
  BY <1>3, <1>4 DEF x, hit

\* Packets that come are not counted as skipped yet, and those that are there stay.
LEMMA PacketsStay ==
    ASSUME CollectorTypes, [Next]_vars, ~CountOne
    PROVE  /\ Len(packets') >= Len(packets) /\ Len(packets) \in Nat /\ Len(packets') \in Nat
           /\ \A p \in 1..Len(packets) : packets'[p] = packets[p]
           /\ \A p \in 1..Len(packets') : p > Len(packets) => packets'[p].skip = 0
<1> DEFINE Stay == /\ Len(packets') >= Len(packets) /\ Len(packets') \in Nat
                   /\ \A p \in 1..Len(packets) : packets'[p] = packets[p]
                   /\ \A p \in 1..Len(packets') : p > Len(packets) => packets'[p].skip = 0
<1>0. packets \in Seq(Packets) /\ Len(packets) \in Nat
  BY DEF CollectorTypes
<1>1. ASSUME NEW m \in Feed, Receive(m) PROVE Stay
  <2>1. packets' = Append(packets, Fresh(m))
    BY <1>1 DEF Receive
  <2>2. Len(packets') = Len(packets) + 1 /\ packets'[Len(packets) + 1] = Fresh(m)
        /\ \A p \in 1..Len(packets) : packets'[p] = packets[p]
    BY <1>0, <2>1
  <2>3. Fresh(m).skip = 0
    BY DEF Fresh, Packet
  <2>4. QED
    BY <1>0, <2>2, <2>3
<1>2. ASSUME NEW f \in Files, Import(f) PROVE Stay
  <2>1. /\ Len(packets') = Len(packets) + Len(Rows(f)) /\ Len(Rows(f)) \in Nat
        /\ \A p \in 1..Len(packets) : packets'[p] = packets[p]
        /\ \A p \in 1..Len(packets') : p > Len(packets) => packets'[p].skip = 0
    BY <1>2, ImportIs
  <2>2. QED
    BY <1>0, <2>1
<1>3. ASSUME UNCHANGED packets PROVE Stay
  BY <1>0, <1>3
<1>4. CASE \/ \E m \in Feed : Garbled(m)
           \/ Adding \/ Draw \/ LoopEnd \/ Connect \/ Disconnect \/ Disconnected \/ Start \/ Pause
           \/ Save \/ (Saving /\ ~CountOne) \/ UNCHANGED vars
  BY <1>3, <1>4 DEF Garbled, Adding, AppendData, SortBegin, SortEnd, Draw, LoopEnd, Connect,
                    Disconnect, Disconnected, Start, Pause, Save, Saving, Counted, PointOne,
                    KmlSaved, RowOne, CsvSaved, list, vars
<1>5. QED
  BY <1>0, <1>1, <1>2, <1>4 DEF Next, Saving

\* The order of a list depends on the numbers of its packets alone.
LEMMA SameNumbers ==
    ASSUME NEW P, NEW s \in Seq(P), NEW ps, NEW qs, \A p \in P : ps[p].num = qs[p].num
    PROVE  (Stable(s, ps) => Stable(s, qs)) /\ (Ordered(s, ps) => Ordered(s, qs))
<1>1. \A j \in DOMAIN s : s[j] \in P
  OBVIOUS
<1>2. \A j \in DOMAIN s : ps[s[j]].num = qs[s[j]].num
  BY <1>1
<1>3. Stable(s, ps) => Stable(s, qs)
  BY <1>2 DEF Stable
<1>4. Ordered(s, ps) => Ordered(s, qs)
  BY <1>2 DEF Ordered
<1>5. QED
  BY <1>3, <1>4

\* Steps that neither move packets nor take one in.
LEMMA OnceKept ==
    ASSUME CollectorTypes, Once, UNCHANGED <<dataList, aside, cleared>>,
           Len(packets') = Len(packets),
           \A p \in 1..Len(packets) : packets[p].num = packets'[p].num,
           mq' = mq \/ (mq \notin {"append", "sort", "sorting"}
                        /\ mq' \notin {"append", "sort", "sorting"})
    PROVE  Once'
<1>1. Current' = Current /\ Due' = Due
  BY DEF Once, Current, Due
<1>2. Current \in Seq(1..Len(packets)) /\ dataList \in Seq(1..Len(packets))
  BY DEF Current, CollectorTypes
<1>3. /\ Stable(Current, packets) => Stable(Current, packets')
      /\ Ordered(dataList, packets) => Ordered(dataList, packets')
  BY <1>2, SameNumbers
<1>4. QED
  BY <1>1, <1>3 DEF Once

\* A list without packets.
LEMMA EmptyList ==
    ToSet(<<>>) = {} /\ Distinct(<<>>)
      /\ \A ps : Stable(<<>>, ps) /\ Ordered(<<>>, ps)
BY DEF ToSet, Distinct, Stable, Ordered

\* The list is empty when the program starts.
LEMMA OnceInit == Init => Once
<1> SUFFICES ASSUME Init PROVE Once
  OBVIOUS
<1>1. Current = <<>> /\ Len(packets) = 0
  BY DEF Init, Current
<1>2. Due = {}
  BY <1>1 DEF Init, Due
<1>3. QED
  BY <1>1, <1>2, EmptyList DEF Init, Once

\* The MQTT thread adds a packet once: it is on its way, then at the end of the
\* list, then in its place.
LEMMA MqttThreadOnce ==
    ASSUME CollectorTypes, CollectorTypes', Once,
           (\E m \in Feed : Receive(m) \/ Garbled(m)) \/ Adding \/ Draw \/ LoopEnd
    PROVE  Once'
<1>0. /\ Len(packets) \in Nat /\ cleared \in 0..Len(packets)
      /\ dataList \in Seq(1..Len(packets)) /\ aside \in Seq(1..Len(packets))
      /\ \A p \in 1..Len(packets) : packets[p].num \in Nat
  <2>1. /\ Len(packets) \in Nat /\ DOMAIN packets = 1..Len(packets)
        /\ cleared \in 0..Len(packets)
        /\ dataList \in Seq(1..Len(packets)) /\ aside \in Seq(1..Len(packets))
    BY DEF CollectorTypes
  <2>2. \A p \in DOMAIN packets : packets[p].num \in Nat
    BY PacketsAre
  <2>3. QED
    BY <2>1, <2>2
<1>1. ASSUME NEW m \in Feed, Receive(m) PROVE Once'
  <2>1. /\ packets' = Append(packets, Fresh(m)) /\ UNCHANGED <<dataList, aside, cleared>>
        /\ mq = "idle" /\ mq' = "append"
    BY <1>1 DEF Receive, MqIdle
  <2>2. Len(packets') = Len(packets) + 1
        /\ \A p \in 1..Len(packets) : packets'[p] = packets[p]
    BY <2>1 DEF CollectorTypes
  <2>3. Current' = Current /\ Current = dataList
    BY <2>1 DEF Current
  <2>4. Due' = Due
    BY <1>0, <2>1, <2>2 DEF Due
  <2>5. Ordered(dataList, packets')
    <3>1. Ordered(dataList, packets)
      BY <2>1 DEF Once
    <3>2. \A p \in 1..Len(packets) : packets[p].num = packets'[p].num
      BY <2>2
    <3>3. QED
      BY <1>0, <3>1, <3>2, SameNumbers
  <2>6. QED
    BY <2>1, <2>3, <2>4, <2>5 DEF Once
<1>2. CASE (\E m \in Feed : Garbled(m)) \/ Draw \/ LoopEnd
  <2>1. UNCHANGED <<packets, dataList, aside, cleared>>
        /\ mq \notin {"append", "sort", "sorting"} /\ mq' \notin {"append", "sort", "sorting"}
    BY <1>2 DEF Garbled, Draw, LoopEnd, MqIdle, list
  <2>2. QED
    BY <2>1, OnceKept
<1>3. CASE AppendData
  <2> DEFINE n == Len(packets)
  <2>1. /\ dataList' = Append(dataList, n) /\ UNCHANGED <<packets, aside, cleared>>
        /\ mq = "append" /\ mq' = "sort"
    BY <1>3 DEF AppendData
  <2>2. /\ Len(dataList) \in Nat /\ DOMAIN dataList = 1..Len(dataList)
        /\ DOMAIN dataList' = 1..(Len(dataList) + 1)
        /\ dataList'[Len(dataList) + 1] = n
        /\ \A j \in 1..Len(dataList) : dataList'[j] = dataList[j]
    BY <1>0, <2>1
  <2>3. /\ ToSet(dataList) = (cleared + 1)..(n - 1)
        /\ Distinct(dataList) /\ Ordered(dataList, packets)
    <3>1. Current = dataList /\ mq # "sort" /\ mq # "sorting"
      BY <2>1 DEF Current
    <3>2. Due = (cleared + 1)..(n - 1)
      BY <1>0, <2>1 DEF Due
    <3>3. QED
      BY <3>1, <3>2 DEF Once
  <2>4. \A j \in 1..Len(dataList) : dataList[j] \in (cleared + 1)..(n - 1)
    BY <2>2, <2>3 DEF ToSet
  <2>5. ToSet(dataList') = Due'
    <3>1. ToSet(dataList') = ToSet(dataList) \cup {n}
      BY <2>2 DEF ToSet
    <3>2. cleared < n
      BY <2>1 DEF CollectorTypes
    <3>3. Due' = (cleared + 1)..n
      BY <2>1 DEF Due
    <3>4. QED
      BY <1>0, <2>3, <3>1, <3>2, <3>3
  <2>6. Distinct(dataList')
    <3> SUFFICES ASSUME NEW j \in DOMAIN dataList', NEW k \in DOMAIN dataList',
                        dataList'[j] = dataList'[k]
                 PROVE  j = k
      BY DEF Distinct
    <3>1. CASE j \in 1..Len(dataList) /\ k \in 1..Len(dataList)
      BY <2>2, <2>3, <3>1 DEF Distinct
    <3>2. CASE ~(j \in 1..Len(dataList) /\ k \in 1..Len(dataList))
      BY <1>0, <2>2, <2>4, <3>2
    <3>3. QED
      BY <3>1, <3>2
  <2>7. Stable(dataList', packets)
    <3> SUFFICES ASSUME NEW j \in DOMAIN dataList', NEW k \in DOMAIN dataList', j < k,
                        packets[dataList'[j]].num = packets[dataList'[k]].num
                 PROVE  dataList'[j] < dataList'[k]
      BY DEF Stable
    <3>1. j \in 1..Len(dataList)
      BY <2>2
    <3>2. CASE k = Len(dataList) + 1
      BY <1>0, <2>2, <2>4, <3>1, <3>2
    <3>3. CASE k \in 1..Len(dataList)
      <4>1. dataList[j] \in 1..Len(packets) /\ packets[dataList[j]].num \in Nat
        BY <1>0, <3>1
      <4>2. packets[dataList[j]].num = packets[dataList[k]].num
        BY <2>2, <3>1, <3>3
      <4>3. \/ packets[dataList[j]].num < packets[dataList[k]].num
            \/ dataList[j] < dataList[k]
        BY <2>2, <2>3, <3>1, <3>3 DEF Ordered
      <4>4. QED
        BY <2>2, <3>1, <3>3, <4>1, <4>2, <4>3
    <3>4. QED
      BY <2>2, <3>2, <3>3
  <2>8. QED
    BY <2>1, <2>5, <2>6, <2>7 DEF Once, Current
<1>4. CASE SortBegin
  <2>1. /\ aside' = dataList /\ dataList' = <<>> /\ UNCHANGED <<packets, cleared>>
        /\ mq = "sort" /\ mq' = "sorting"
    BY <1>4 DEF SortBegin
  <2>2. Current' = Current /\ Due' = Due
    BY <2>1 DEF Current, Due
  <2>3. QED
    BY <2>1, <2>2 DEF Once
<1>5. CASE SortEnd
  <2>1. /\ dataList' = Sorted(aside, packets) /\ aside' = <<>> /\ UNCHANGED <<packets, cleared>>
        /\ mq = "sorting" /\ mq' = "drawing"
    BY <1>5 DEF SortEnd
  <2>2. 1..Len(packets) \in SUBSET Nat
    OBVIOUS
  <2>3. ToSet(aside) = Due /\ Distinct(aside) /\ Stable(aside, packets)
    BY <2>1 DEF Once, Current
  <2>4. ToSet(dataList') = Due /\ Distinct(dataList') /\ Ordered(dataList', packets)
    BY <1>0, <2>1, <2>2, <2>3, SortedIs
  <2>5. Current' = dataList' /\ Due' = Due
    BY <2>1 DEF Current, Due
  <2>6. QED
    BY <2>1, <2>4, <2>5 DEF Once
<1>6. QED
  BY <1>1, <1>2, <1>3, <1>4, <1>5 DEF Adding

\* No button makes the list lose a packet or take it twice.
LEMMA GuiThreadOnce ==
    ASSUME CollectorTypes, CollectorTypes', Once,
           Connect \/ Disconnect \/ Disconnected \/ Start \/ Pause \/ Save \/ Saving
             \/ \E f \in Files : Import(f)
    PROVE  Once'
<1>1. CASE Connect \/ Disconnect \/ Disconnected \/ Pause
  <2>1. UNCHANGED <<packets, dataList, aside, cleared>>
        /\ (mq' = mq \/ (mq \in {"none", "dead"} /\ mq' \in {"none", "idle"}))
    BY <1>1 DEF Connect, Disconnect, Disconnected, Pause, list
  <2>2. QED
    BY <2>1, OnceKept
<1>2. CASE Start
  <2>1. dataList' = <<>> /\ aside' = <<>> /\ packets' = packets /\ mq' = mq
        /\ cleared' = IF mq = "append" THEN Len(packets) - 1 ELSE Len(packets)
    BY <1>2 DEF Start, NewList
  <2>2. Current' = <<>>
    BY <2>1 DEF Current
  <2>3. Due' = {}
    <3>1. Len(packets) \in Nat
      BY DEF CollectorTypes
    <3>2. QED
      BY <2>1, <3>1 DEF Due
  <2>4. QED
    BY <2>1, <2>2, <2>3, EmptyList DEF Once
<1>3. ASSUME NEW f \in Files, Import(f) PROVE Once'
  <2> DEFINE n == Len(packets)
             n2 == Len(packets')
  <2>1. PICK s \in Seq((n + 1)..n2) : /\ dataList' = Sorted(s, packets')
                                     /\ Len(s) = Len(Rows(f))
                                     /\ \A k \in 1..Len(s) : s[k] = n + k
    BY <1>3, ImportIs
  <2>2. n \in Nat /\ n2 \in Nat /\ Len(s) \in Nat /\ n2 = n + Len(s) /\ DOMAIN s = 1..Len(s)
    <3>1. n2 = n + Len(Rows(f)) /\ Len(Rows(f)) \in Nat
      BY <1>3, ImportIs
    <3>2. n \in Nat
      BY DEF CollectorTypes
    <3>3. Len(s) \in Nat /\ DOMAIN s = 1..Len(s)
      BY <2>1
    <3> HIDE DEF n, n2
    <3>4. QED
      BY <2>1, <3>1, <3>2, <3>3
  <2> HIDE DEF n, n2
  <2>3. ToSet(s) = (n + 1)..n2
    <3>1. \A k \in 1..Len(s) : s[k] \in (n + 1)..n2
      BY <2>1, <2>2
    <3>2. \A x \in (n + 1)..n2 : x - n \in 1..Len(s) /\ s[x - n] = x
      BY <2>1, <2>2
    <3>3. QED
      BY <2>2, <3>1, <3>2 DEF ToSet
  <2>4. Distinct(s) /\ Stable(s, packets')
    <3>1. \A j, k \in DOMAIN s : (s[j] = s[k] => j = k) /\ (j < k => s[j] < s[k])
      BY <2>1, <2>2
    <3>2. QED
      BY <3>1 DEF Distinct, Stable
  <2>5. \A p \in (n + 1)..n2 : packets'[p].num \in Nat
    <3>1. \A p \in (n + 1)..n2 : p \in DOMAIN packets' /\ packets'[p] \in Packets
      BY <2>2 DEF n2, CollectorTypes
    <3>2. QED
      BY <3>1, PacketIs
  <2>6. (n + 1)..n2 \in SUBSET Nat
    BY <2>2
  <2>7. ToSet(dataList') = (n + 1)..n2 /\ Distinct(dataList') /\ Ordered(dataList', packets')
    BY <2>1, <2>3, <2>4, <2>5, <2>6, SortedIs
  <2>8. mq \in {"none", "dead"} /\ mq' = mq /\ aside' = aside /\ cleared' = n
    BY <1>3 DEF Import, n
  <2>9. Current' = dataList' /\ Due' = (n + 1)..n2
    BY <2>8 DEF Current, Due, n2
  <2>10. QED
    BY <2>7, <2>8, <2>9 DEF Once
<1>4. CASE CountOne
  <2>1. UNCHANGED <<dataList, aside, cleared, mq>>
    BY <1>4 DEF CountOne
  <2>2. Len(packets') = Len(packets)
        /\ \A p \in 1..Len(packets) : packets[p].num = packets'[p].num
    BY <1>4, CountOneIs
  <2>3. QED
    BY <2>1, <2>2, OnceKept
<1>5. CASE Save \/ Counted \/ PointOne \/ KmlSaved \/ RowOne \/ CsvSaved
  <2>1. UNCHANGED <<packets, dataList, aside, cleared, mq>>
    BY <1>5 DEF Save, Counted, PointOne, KmlSaved, RowOne, CsvSaved, list
  <2>2. QED
    BY <2>1, OnceKept
<1>6. QED
  BY <1>1, <1>2, <1>3, <1>4, <1>5 DEF Saving

\* Every step keeps each packet in the list once.
LEMMA OnceNext == CollectorTypes /\ CollectorTypes' /\ Once /\ [Next]_vars => Once'
<1>1. ASSUME CollectorTypes, Once, UNCHANGED vars PROVE Once'
  <2>1. UNCHANGED <<packets, dataList, aside, cleared, mq>>
    BY <1>1 DEF vars, list
  <2>2. QED
    BY <1>1, <2>1, OnceKept
<1>2. QED
  BY <1>1, MqttThreadOnce, GuiThreadOnce DEF Next

\* The program starts without an MQTT thread.
LEMMA QuietInit == Init => Quiet
BY DEF Init, Quiet

\* A thread is left running by connections and ended by disconnections only.
LEMMA QuietNext == CollectorFlags /\ Quiet /\ [Next]_vars => Quiet'
<1> SUFFICES ASSUME CollectorFlags, Quiet, [Next]_vars PROVE Quiet'
  OBVIOUS
<1>1. CASE \E m \in Feed : Receive(m) \/ Garbled(m)
  BY <1>1 DEF Receive, Garbled, MqIdle, Quiet
<1>2. CASE Adding \/ Draw \/ LoopEnd
  BY <1>2 DEF Adding, AppendData, SortBegin, SortEnd, Draw, LoopEnd, MqIdle, Quiet
<1>3. CASE Connect
  BY <1>3 DEF Connect, Quiet
<1>4. CASE Disconnect \/ Disconnected
  BY <1>4 DEF Disconnect, Disconnected, Quiet
<1>5. CASE Start \/ Pause \/ Save \/ \E f \in Files : Import(f)
  BY <1>5 DEF Start, Pause, Save, Import, MainLoop, Quiet
<1>6. CASE Saving
  BY <1>6 DEF Saving, CountOne, Counted, PointOne, KmlSaved, RowOne, CsvSaved, Quiet
<1>7. CASE UNCHANGED vars
  BY <1>7 DEF vars, Quiet
<1>8. QED
  BY <1>1, <1>2, <1>3, <1>4, <1>5, <1>6, <1>7 DEF Next

\* The numbers up to n.
LEMMA UpTo ==
    ASSUME NEW n \in Nat PROVE IsFiniteSet(1..n) /\ Cardinality(1..n) = n
<1>1. 1 \in Int /\ n \in Int
  OBVIOUS
<1>2. IsFiniteSet(1..n) /\ Cardinality(1..n) = IF 1 > n THEN 0 ELSE n - 1 + 1
  BY <1>1, FS_Interval
<1>3. QED
  BY <1>2

\* A list that holds no packet twice is no longer than the packets are many.
LEMMA DistinctLength ==
    ASSUME NEW S, IsFiniteSet(S), NEW s \in Seq(S), Distinct(s)
    PROVE  /\ ToSet(s) \in SUBSET S
           /\ Len(s) = Cardinality(ToSet(s)) /\ Len(s) <= Cardinality(S)
           /\ Len(s) \in Nat /\ Cardinality(S) \in Nat
<1>1. DOMAIN s = 1..Len(s) /\ Len(s) \in Nat /\ \A k \in 1..Len(s) : s[k] \in S
  OBVIOUS
<1>2. ToSet(s) \in SUBSET S
  BY <1>1 DEF ToSet
<1>3. s \in Bijection(1..Len(s), ToSet(s))
  <2>1. s \in [1..Len(s) -> ToSet(s)]
    BY <1>1 DEF ToSet
  <2>2. \A j, k \in 1..Len(s) : s[j] = s[k] => j = k
    BY <1>1 DEF Distinct
  <2>3. \A x \in ToSet(s) : \E k \in 1..Len(s) : s[k] = x
    BY <1>1 DEF ToSet
  <2>4. QED
    BY <2>1, <2>2, <2>3 DEF Bijection, Injection, Surjection, IsInjective
<1>4. IsFiniteSet(1..Len(s)) /\ Cardinality(1..Len(s)) = Len(s)
  BY <1>1, UpTo
<1>5. Cardinality(ToSet(s)) = Len(s)
  <2>1. ExistsBijection(1..Len(s), ToSet(s))
    BY <1>3 DEF ExistsBijection
  <2>2. QED
    BY <1>4, <2>1, FS_Bijection
<1>6. Cardinality(ToSet(s)) <= Cardinality(S) /\ Cardinality(S) \in Nat
  BY <1>2, Smaller
<1>7. QED
  BY <1>1, <1>2, <1>5, <1>6

\* The list is no longer than packets may be added.
LEMMA ListLength ==
    ASSUME CollectorTypes, Once
    PROVE  Len(dataList) \in Nat /\ Len(dataList) <= MaxPackets
<1> DEFINE S == 1..Len(packets)
<1>1. /\ Len(packets) \in Nat /\ Len(packets) <= MaxPackets
      /\ dataList \in Seq(S)
  BY DEF CollectorTypes
<1>2. IsFiniteSet(S) /\ Cardinality(S) = Len(packets)
  BY <1>1, UpTo
<1>3. Distinct(dataList)
  BY EmptyList DEF Once, Current
<1> HIDE DEF S
<1>4. Len(dataList) <= Cardinality(S) /\ Len(dataList) \in Nat
  BY <1>1, <1>2, <1>3, DistinctLength
<1>5. QED
  BY <1>1, <1>2, <1>4, BoundsAssumption

\* Multiplication, one step of it.
LEMMA OneMore ==
    ASSUME NEW a \in Nat, NEW n \in Nat
    PROVE  a * n \in Nat /\ a * (n + 1) = a * n + a
OBVIOUS

\* What a step may do to the counts.
LEMMA SkipsKept ==
    ASSUME CollectorTypes, CollectorTypes', Skips,
           i' <= MaxPackets + 1, Exporting' => saves' > 0,
           SkipBound \in Nat, SkipBound' \in Nat, SkipBound' >= SkipBound,
           Len(packets') >= Len(packets),
           \A p \in 1..Len(packets') :
              \/ p <= Len(packets) /\ packets'[p].skip = packets[p].skip
              \/ p <= Len(packets) /\ SkipBound' > SkipBound
                 /\ packets'[p].skip = packets[p].skip + 1
              \/ packets'[p].skip = 0
    PROVE  Skips'
<1> SUFFICES ASSUME NEW p \in 1..Len(packets') PROVE packets'[p].skip <= SkipBound'
  BY DEF Skips
<1>0. packets \in Seq(Packets) /\ Len(packets) \in Nat /\ p \in Nat \ {0}
  <2>1. packets \in Seq(Packets) /\ packets' \in Seq(Packets)
    BY DEF CollectorTypes
  <2>2. Len(packets') \in Nat
    BY <2>1
  <2>3. QED
    BY <2>1, <2>2
<1>1. CASE packets'[p].skip = 0
  BY <1>1
<1>2. CASE packets'[p].skip # 0
  <2>1. p \in 1..Len(packets)
    BY <1>0, <1>2
  <2>2. packets[p].skip <= SkipBound
    BY <2>1 DEF Skips
  <2>3. packets[p].skip \in Nat
    <3>1. packets[p] \in Packets
      BY <1>0, <2>1
    <3>2. QED
      BY <3>1, PacketIs
  <2>4. QED
    BY <1>2, <2>2, <2>3
<1>3. QED
  BY <1>1, <1>2

\* Nothing is counted when the program starts.
LEMMA SkipsInit == Init => Skips
<1>1. Init => i = 1 /\ gui = "mainloop" /\ Len(packets) = 0
  BY DEF Init
<1>2. QED
  BY <1>1, BoundsAssumption DEF Skips, Exporting

\* Every step keeps the counts within their bound.
LEMMA SkipsNext ==
    ASSUME CollectorTypes, CollectorTypes', Once, Skips, [Next]_vars PROVE Skips'
<1> DEFINE M == MaxPackets
<1>0. /\ M \in Nat /\ saves \in Nat /\ i \in Nat \ {0} /\ saves' \in Nat /\ i' \in Nat \ {0}
      /\ Len(packets) \in Nat /\ Len(packets') \in Nat
  BY BoundsAssumption DEF CollectorTypes
<1>1. /\ M * saves \in Nat /\ M * (saves + 1) = M * saves + M
      /\ saves > 0 => M * (saves - 1) \in Nat /\ M * saves = M * (saves - 1) + M
  <2>1. M * saves \in Nat /\ M * (saves + 1) = M * saves + M
    BY <1>0, OneMore
  <2>2. ASSUME saves > 0 PROVE M * (saves - 1) \in Nat /\ M * saves = M * (saves - 1) + M
    <3>1. saves - 1 \in Nat /\ (saves - 1) + 1 = saves
      BY <1>0, <2>2
    <3> HIDE DEF M
    <3>2. M * (saves - 1) \in Nat /\ M * ((saves - 1) + 1) = M * (saves - 1) + M
      BY <1>0, <3>1, OneMore
    <3>3. QED
      BY <3>1, <3>2
  <2>3. QED
    BY <2>1, <2>2
<1>2. SkipBound \in Nat
  BY <1>0, <1>1 DEF SkipBound, Skips, Exporting
<1>3. ASSUME UNCHANGED <<gui, saves, i>>,
             Len(packets') >= Len(packets),
             \A p \in 1..Len(packets') :
                \/ p <= Len(packets) /\ packets'[p].skip = packets[p].skip
                \/ packets'[p].skip = 0
      PROVE  Skips'
  <2>1. SkipBound' = SkipBound
    BY <1>3 DEF SkipBound
  <2>2. i' <= M + 1 /\ (Exporting' => saves' > 0)
    BY <1>3 DEF Skips, Exporting
  <2>3. QED
    BY <1>2, <1>3, <2>1, <2>2, SkipsKept
<1>4. ASSUME UNCHANGED <<packets, gui, saves, i>> PROVE Skips'
  BY <1>3, <1>4, <1>0
<1>5. CASE (\E m \in Feed : Receive(m)) \/ \E f \in Files : Import(f)
  <2>1. UNCHANGED <<gui, saves, i>> /\ ~CountOne
    <3>1. ASSUME NEW m \in Feed, Receive(m) PROVE UNCHANGED <<gui, saves, i>> /\ mq' # mq
      BY <3>1 DEF Receive, MqIdle, export
    <3>2. ASSUME NEW f \in Files, Import(f) PROVE UNCHANGED <<gui, saves, i>> /\ gui = "mainloop"
      BY <3>2 DEF Import, MainLoop, export
    <3>3. CountOne => mq' = mq /\ gui = "counting"
      BY DEF CountOne
    <3>4. QED
      BY <1>5, <3>1, <3>2, <3>3
  <2>2. QED
    BY <1>0, <1>3, <2>1, PacketsStay
<1>7. ASSUME UNCHANGED packets, i' <= M + 1, Exporting' => saves' > 0,
             SkipBound' \in Nat, SkipBound' >= SkipBound
      PROVE  Skips'
  BY <1>0, <1>2, <1>7, SkipsKept
<1>8. CASE Save
  <2>1. saves' = saves + 1 /\ i' = 1 /\ packets' = packets /\ gui = "mainloop"
        /\ gui' \in {"mainloop", "counting"}
    BY <1>8 DEF Save, MainLoop, list
  <2>2. SkipBound = M * saves
    BY <2>1 DEF SkipBound
  <2>3. SkipBound' = IF gui' = "counting" THEN M * ((saves + 1) - 1) + (1 - 1) ELSE M * (saves + 1)
    BY <2>1 DEF SkipBound
  <2>4. (saves + 1) - 1 = saves
    BY <1>0
  <2>5. SkipBound' = IF gui' = "counting" THEN M * saves ELSE M * saves + M
    BY <1>1, <2>3, <2>4
  <2>6. SkipBound' \in Nat /\ SkipBound' >= SkipBound
    BY <1>0, <1>1, <2>2, <2>5
  <2>7. saves' > 0 /\ i' <= M + 1
    BY <1>0, <2>1
  <2>8. QED
    BY <1>7, <2>1, <2>6, <2>7
<1>9. CASE CountOne
  <2>1. gui = "counting" /\ i' = i + 1 /\ UNCHANGED <<gui, saves>> /\ i <= Len(dataList)
    BY <1>0, <1>9, ListLength DEF CountOne, AtEnd
  <2>2. i' <= M + 1 /\ saves > 0
    BY <1>0, <2>1, ListLength DEF Skips, Exporting
  <2>3. SkipBound' = SkipBound + 1
    BY <1>0, <1>1, <2>1, <2>2 DEF SkipBound
  <2>4. Len(packets') = Len(packets)
        /\ \A p \in 1..Len(packets) : \/ packets'[p].skip = packets[p].skip
                                      \/ packets'[p].skip = packets[p].skip + 1
    BY <1>9, CountOneIs
  <2>5. QED
    BY <1>0, <1>2, <2>1, <2>2, <2>3, <2>4, SkipsKept
<1>10. CASE Counted
  <2>1. gui = "counting" /\ gui' = "points" /\ i' = 1 /\ UNCHANGED <<packets, saves>>
    BY <1>10 DEF Counted, list
  <2>2. SkipBound = M * (saves - 1) + (i - 1) /\ SkipBound' = M * saves /\ i <= M + 1 /\ saves > 0
    BY <2>1 DEF SkipBound, Skips, Exporting
  <2>3. SkipBound' \in Nat /\ SkipBound' >= SkipBound
    BY <1>0, <1>1, <2>2
  <2>4. i' <= M + 1 /\ saves' > 0
    BY <1>0, <2>1, <2>2
  <2>5. QED
    BY <1>7, <2>1, <2>3, <2>4
<1>11. CASE PointOne \/ KmlSaved \/ RowOne \/ CsvSaved
  <2>1. UNCHANGED <<packets, saves>> /\ gui \in {"points", "csv"} /\ gui' # "counting"
        /\ i' \in {i, i + 1, 1} /\ (i' = i + 1 => i <= Len(dataList))
    BY <1>0, <1>11, ListLength DEF PointOne, KmlSaved, RowOne, CsvSaved, AtEnd, list
  <2>2. i' <= M + 1 /\ saves' > 0
    BY <1>0, <2>1, ListLength DEF Skips, Exporting
  <2>3. SkipBound' = SkipBound
    BY <2>1 DEF SkipBound
  <2>4. QED
    BY <1>2, <1>7, <2>1, <2>2, <2>3
<1>12. CASE Disconnect \/ Disconnected
  <2>1. UNCHANGED <<packets, saves, i>> /\ gui # "counting" /\ ~Exporting'
    BY <1>12 DEF Disconnect, Disconnected, MainLoop, list, export, Exporting
  <2>2. SkipBound' = SkipBound
    BY <2>1 DEF SkipBound, Exporting
  <2>3. QED
    BY <1>2, <1>7, <2>1, <2>2 DEF Skips
<1>13. CASE (\E m \in Feed : Garbled(m)) \/ Adding \/ Draw \/ LoopEnd \/ Connect \/ Start \/ Pause
              \/ UNCHANGED vars
  BY <1>4, <1>13 DEF Garbled, Adding, AppendData, SortBegin, SortEnd, Draw, LoopEnd, Connect,
                     Start, Pause, list, export, vars
<1>14. QED
  BY <1>5, <1>8, <1>9, <1>10, <1>11, <1>12, <1>13 DEF Next, Saving

\* The bound after the last export.
LEMMA SkipBoundIs ==
    ASSUME CollectorTypes, Skips
    PROVE  /\ SkipBound <= MaxPackets * MaxSaves
           /\ SkipBound \in Int /\ MaxPackets * MaxSaves \in Int
<1> DEFINE M == MaxPackets
<1>1. M \in Nat /\ MaxSaves \in Nat /\ saves \in Nat /\ saves <= MaxSaves /\ i \in Nat \ {0}
  BY BoundsAssumption DEF CollectorTypes
<1>2. /\ M * saves \in Nat /\ M * MaxSaves \in Nat /\ M * (MaxSaves - saves) \in Nat
      /\ M * MaxSaves = M * saves + M * (MaxSaves - saves)
  <2>1. MaxSaves - saves \in Nat
    BY <1>1
  <2> HIDE DEF M
  <2>2. M * saves \in Nat /\ M * MaxSaves \in Nat /\ M * (MaxSaves - saves) \in Nat
    BY <1>1, <2>1, OneMore
  <2>3. M * MaxSaves = M * saves + M * (MaxSaves - saves)
    BY <1>1
  <2>4. QED
    BY <2>2, <2>3
<1>3. CASE gui = "counting"
  <2>1. saves - 1 \in Nat /\ i <= M + 1 /\ (saves - 1) + 1 = saves
    BY <1>1, <1>3 DEF Skips, Exporting
  <2>2. SkipBound = M * (saves - 1) + (i - 1)
    BY <1>3 DEF SkipBound
  <2> HIDE DEF M
  <2>3. M * (saves - 1) \in Nat /\ M * ((saves - 1) + 1) = M * (saves - 1) + M
    BY <1>1, <2>1, OneMore
  <2>4. M * saves = M * (saves - 1) + M
    BY <2>1, <2>3
  <2>5. SkipBound <= M * MaxSaves /\ SkipBound \in Int
    BY <1>1, <1>2, <2>1, <2>2, <2>3, <2>4
  <2>6. QED
    BY <1>2, <2>5 DEF M
<1>4. CASE gui # "counting"
  BY <1>1, <1>2, <1>4 DEF SkipBound
<1>5. QED
  BY <1>3, <1>4

CollectorInvariant == CollectorFlags /\ CollectorTypes /\ Once /\ Quiet /\ Skips

\* The inductive invariant, of which the theorems below are parts.
LEMMA CollectorInvariantOK == Spec => []CollectorInvariant
<1>1. Init => CollectorTypes /\ Once /\ Quiet /\ Skips
  BY CollectorTypesInit, OnceInit, QuietInit, SkipsInit
<1>2. CollectorInvariant /\ [Next]_vars => (CollectorTypes /\ Once /\ Quiet /\ Skips)'
  <2>1. CollectorInvariant /\ [Next]_vars => CollectorTypes'
    BY CollectorTypesNext DEF CollectorInvariant
  <2>2. QED
    BY <2>1, OnceNext, QuietNext, SkipsNext DEF CollectorInvariant
<1>3. QED
  BY <1>1, <1>2, CollectorFlagsOK, PTL DEF Spec, CollectorInvariant

\* Each variable keeps its type: in particular, the lists and the files hold
\* packets that were added, the iterations stay within the list, and no packet
\* is counted as skipped more often than there are packets, in each export.
THEOREM TypeCorrect == Spec => []TypeOK
<1>1. CollectorInvariant => TypeOK
  <2> SUFFICES ASSUME CollectorInvariant PROVE TypeOK
    OBVIOUS
  <2>1. CollectorTypes /\ Skips /\ isConnect \in BOOLEAN /\ isCollect \in BOOLEAN /\ calm \in BOOLEAN
    BY DEF CollectorInvariant, CollectorFlags
  <2>2. packets \in Seq(Packets) /\ DOMAIN packets = 1..Len(packets)
    BY <2>1 DEF CollectorTypes
  <2>3. i \in 1..(MaxPackets + 1)
    BY <2>1, BoundsAssumption DEF CollectorTypes, Skips
  <2>4. ASSUME NEW p \in DOMAIN packets
        PROVE  /\ \E m \in Feed : packets[p] = Packet(m, packets[p].skip)
               /\ packets[p].kind \in {"OK", "SKIP"}
               /\ packets[p].skip \in 0..(MaxPackets * MaxSaves)
    <3>1. packets[p] \in Packets /\ p \in 1..Len(packets)
      BY <2>2
    <3>2. /\ \E m \in Feed : packets[p] = Packet(m, packets[p].skip)
          /\ packets[p].kind \in {"OK", "SKIP"} /\ packets[p].skip \in Nat
      BY <3>1, PacketIs
    <3>3. packets[p].skip <= SkipBound
      BY <2>1, <3>1 DEF Skips
    <3>4. SkipBound <= MaxPackets * MaxSaves /\ SkipBound \in Int
           /\ MaxPackets * MaxSaves \in Int
      BY <2>1, SkipBoundIs
    <3>5. QED
      BY <3>2, <3>3, <3>4
  <2>5. QED
    BY <2>1, <2>2, <2>3, <2>4 DEF CollectorTypes, TypeOK
<1>2. QED
  BY <1>1, CollectorInvariantOK, PTL

\* addData: whatever the buttons do meanwhile, the current list holds each
\* packet taken in since it was started, once and in order of the packet
\* numbers, and none from before.
THEOREM CollectsOnce == Spec => []CollectsEachOnce
<1>1. CollectorInvariant => CollectsEachOnce
  <2> SUFFICES ASSUME CollectorInvariant PROVE CollectsEachOnce
    OBVIOUS
  <2> DEFINE held == dataList \o aside
             due  == {p \in (cleared + 1)..Len(packets) : ~(mq = "append" /\ p = Len(packets))}
  <2>1. Once /\ CollectorTypes
    BY DEF CollectorInvariant
  <2>2. /\ Len(packets) \in Nat
        /\ dataList \in Seq(1..Len(packets)) /\ aside \in Seq(1..Len(packets))
    BY <2>1 DEF CollectorTypes
  <2>3. held = Current
    BY <2>1, <2>2 DEF Once, Current
  <2>4. Current \in Seq(1..Len(packets)) /\ Distinct(Current) /\ ToSet(Current) = due
    BY <2>1, <2>2 DEF Once, Current, Due
  <2> HIDE DEF held, due
  <2>5. Len(Current) = Cardinality(due)
    <3>1. IsFiniteSet(1..Len(packets))
      BY <2>2, UpTo
    <3>2. QED
      BY <2>4, <3>1, DistinctLength
  <2>6. SortedBetweenPackets
    <3> SUFFICES ASSUME mq \notin {"sort", "sorting"}
                 PROVE  IsSorted(dataList, LAMBDA p, q :
                           packets[p].num < packets[q].num
                             \/ (packets[p].num = packets[q].num /\ p < q))
      BY DEF SortedBetweenPackets
    <3>1. Ordered(dataList, packets)
      BY <2>1 DEF Once
    <3>2. DOMAIN dataList = 1..Len(dataList)
      BY <2>2
    <3>3. QED
      BY <3>1, <3>2 DEF IsSorted, Ordered
  <2>7. QED
    BY <2>3, <2>4, <2>5, <2>6 DEF CollectsEachOnce, held, due
<1>2. QED
  BY <1>1, CollectorInvariantOK, PTL

\* Once disconnectMQTT has returned, no thread of the client is left that could
\* change the list.
THEOREM QuietAfterDisconnect == Spec => []QuietWhenDisconnected
<1>1. CollectorInvariant => QuietWhenDisconnected
  BY DEF CollectorInvariant, Quiet, QuietWhenDisconnected, MainLoop
<1>2. QED
  BY <1>1, CollectorInvariantOK, PTL

-----------------------------------------------------------------------------
(* The export *)

\* The element that comes after exactly k - 1 others is the kth.
LEMMA InOrderAt ==
    ASSUME NEW S, IsFiniteSet(S), NEW before, TotalOn(S, before),
           NEW k \in 1..Cardinality(S), NEW x \in S,
           Cardinality({y \in S : <<y, x>> \in before}) = k - 1
    PROVE  InOrder(S, before)[k] = x
<1> DEFINE below(z) == {y \in S : <<y, z>> \in before}
           c == CHOOSE z \in S : Cardinality({y \in S : <<y, z>> \in before}) = k - 1
<1>1. InOrder(S, before)[k] = c
  BY DEF InOrder
<1>2. c \in S /\ Cardinality(below(c)) = Cardinality(below(x))
  OBVIOUS
<1>3. ASSUME NEW z \in S, NEW y \in S, <<z, y>> \in before
      PROVE  Cardinality(below(z)) # Cardinality(below(y))
  <2>1. below(z) \in SUBSET below(y) /\ z \in below(y) /\ z \notin below(z)
    BY <1>3 DEF TotalOn
  <2>2. IsFiniteSet(below(y))
    BY FS_Subset
  <2>3. Cardinality(below(z)) \in Nat /\ Cardinality(below(y)) \in Nat
        /\ Cardinality(below(z)) < Cardinality(below(y))
    BY <2>1, <2>2, Smaller
  <2>4. QED
    BY <2>3
<1> HIDE DEF c, below
<1>4. c = x
  BY <1>2, <1>3 DEF TotalOn
<1>5. QED
  BY <1>1, <1>4

\* One more place, after the others, adds its element at the end.
LEMMA PickedMore ==
    ASSUME NEW I, NEW s \in Seq(I), NEW k \in DOMAIN s, NEW places \in SUBSET (1..(k - 1))
    PROVE  Picked(s, places \cup {k}) = Append(Picked(s, places), s[k])
<1> DEFINE more == places \cup {k}
           before(P) == {p \in P \X P : p[1] < p[2]}
           n == Cardinality(places)
           a == InOrder(places, before(places))
           b == InOrder(more, before(more))
<1>1. /\ k \in Nat \ {0} /\ \A j \in places : j \in Nat /\ j < k
      /\ \A j \in more : j \in Nat
  OBVIOUS
<1>2. IsFiniteSet(places) /\ IsFiniteSet(more) /\ n \in Nat /\ Cardinality(more) = n + 1
  <2>0. k - 1 \in Nat /\ k \notin places
    BY <1>1
  <2>1. IsFiniteSet(1..(k - 1))
    BY <2>0, UpTo
  <2>2. IsFiniteSet(places)
    BY <2>1, FS_Subset
  <2>3. QED
    BY <2>0, <2>2, FS_AddElement, FS_CardinalityType
<1>3. TotalOn(places, before(places)) /\ TotalOn(more, before(more))
  BY <1>1 DEF TotalOn
<1>4. /\ \A x, y \in places : <<x, y>> \in before(places) <=> x < y
      /\ \A x, y \in more : <<x, y>> \in before(more) <=> x < y
  OBVIOUS
<1>5. Picked(s, places) = [j \in DOMAIN a |-> s[a[j]]] /\ Picked(s, more) = [j \in DOMAIN b |-> s[b[j]]]
  BY DEF Picked
<1> HIDE DEF before, n
<1>6. /\ a \in Bijection(1..n, places) /\ b \in Bijection(1..(n + 1), more)
      /\ \A j \in 1..n : Cardinality({y \in places : <<y, a[j]>> \in before(places)}) = j - 1
  BY <1>2, <1>3, InOrderIs DEF n
<1>7. ASSUME NEW j \in 1..n PROVE b[j] = a[j]
  <2> DEFINE x == a[j]
  <2>1. x \in places
    BY <1>6 DEF Bijection, Injection
  <2>2. Cardinality({y \in places : <<y, x>> \in before(places)}) = j - 1
    BY <1>6
  <2> HIDE DEF x, a
  <2>3. {y \in more : <<y, x>> \in before(more)} = {y \in places : <<y, x>> \in before(places)}
    <3>1. x \in more /\ ~(k < x) /\ places \subseteq more
      BY <1>1, <2>1
    <3>2. \A y \in more : <<y, x>> \in before(more) => y \in places
      BY <1>1, <1>4, <3>1
    <3>3. \A y \in places : <<y, x>> \in before(more) <=> <<y, x>> \in before(places)
      BY <1>4, <2>1, <3>1
    <3> HIDE DEF more
    <3>4. QED
      BY <3>1, <3>2, <3>3
  <2>4. j \in 1..Cardinality(more) /\ x \in more
    BY <1>2, <2>1
  <2> HIDE DEF more
  <2>5. b[j] = x
    BY <1>2, <1>3, <2>2, <2>3, <2>4, InOrderAt
  <2>6. QED
    BY <2>5 DEF x
<1>8. b[n + 1] = k
  <2>1. {y \in more : <<y, k>> \in before(more)} = places
    <3>1. k \in more /\ ~(k < k) /\ places \subseteq more /\ \A y \in places : y < k
      BY <1>1
    <3>2. \A y \in more : y \in places \/ y = k
      OBVIOUS
    <3>3. \A y \in more : <<y, k>> \in before(more) <=> y < k
      BY <1>4, <3>1
    <3> HIDE DEF more
    <3>4. QED
      BY <3>1, <3>2, <3>3
  <2>2. n + 1 \in 1..Cardinality(more) /\ k \in more /\ (n + 1) - 1 = n
    BY <1>2
  <2>3. Cardinality({y \in more : <<y, k>> \in before(more)}) = (n + 1) - 1
    BY <2>1, <2>2 DEF n
  <2> HIDE DEF more
  <2>4. QED
    BY <1>2, <1>3, <2>2, <2>3, InOrderAt
<1> HIDE DEF a, b, more
<1>9. /\ DOMAIN a = 1..n /\ DOMAIN b = 1..(n + 1)
      /\ \A j \in 1..n : a[j] \in places
  BY <1>6 DEF Bijection, Injection
<1>10. Picked(s, places) \in Seq(I) /\ Len(Picked(s, places)) = n
  <2>1. \A j \in 1..n : s[a[j]] \in I
    <3>1. places \subseteq DOMAIN s /\ \A j \in DOMAIN s : s[j] \in I
      OBVIOUS
    <3>2. QED
      BY <1>9, <3>1
  <2>2. Picked(s, places) \in [1..n -> I]
    BY <1>5, <1>9, <2>1
  <2>3. QED
    BY <1>2, <2>2
<1>11. Picked(s, more) = Append(Picked(s, places), s[k])
  <2> DEFINE picked == Picked(s, places)
             c == Append(picked, s[k])
  <2>1. /\ c \in Seq(I) /\ Len(c) = n + 1 /\ c[n + 1] = s[k]
        /\ \A j \in 1..n : c[j] = picked[j]
    <3>1. s[k] \in I /\ picked \in Seq(I) /\ Len(picked) = n
      BY <1>10
    <3> HIDE DEF picked
    <3>2. QED
      BY <1>2, <3>1
  <2>2. \A j \in 1..n : picked[j] = s[a[j]]
    BY <1>5, <1>9
  <2>3. \A j \in 1..(n + 1) : s[b[j]] = c[j]
    <3> SUFFICES ASSUME NEW j \in 1..(n + 1) PROVE s[b[j]] = c[j]
      OBVIOUS
    <3> HIDE DEF c
    <3>1. CASE j \in 1..n
      BY <1>7, <2>1, <2>2, <3>1
    <3>2. CASE j = n + 1
      BY <1>8, <2>1, <3>2
    <3>3. QED
      BY <1>2, <3>1, <3>2
  <2>4. c = [j \in 1..(n + 1) |-> c[j]]
    <3> HIDE DEF c
    <3>1. DOMAIN c = 1..(n + 1)
      BY <2>1
    <3>2. QED
      BY <2>1, <3>1
  <2> HIDE DEF c
  <2>5. c = [j \in 1..(n + 1) |-> s[b[j]]]
    BY <2>3, <2>4
  <2>6. QED
    BY <1>5, <1>9, <2>5 DEF c
<1>12. QED
  BY <1>11 DEF more

\* No place, no element.
LEMMA PickedNone == ASSUME NEW s PROVE Picked(s, {}) = <<>>
<1> DEFINE before == {p \in {} \X {} : p[1] < p[2]}
           order == InOrder({}, before)
<1>1. Cardinality({}) = 0
  BY FS_EmptySet
<1>2. DOMAIN order = 1..0
  BY <1>1 DEF InOrder
<1>3. Picked(s, {}) = [k \in DOMAIN order |-> s[order[k]]]
  BY DEF Picked
<1> HIDE DEF order
<1>4. QED
  BY <1>2, <1>3

\* A device gives each packet a number of its own, as long as it is not
\* restarted: a packet without data has another number than one with data.
NumbersTell == \A m, n \in Feed : m.kind = "OK" /\ n.kind = "SKIP" => m.num # n.num

\* So equal numbers mean packets of the same kind.
LEMMA KindsTold ==
    ASSUME CollectorTypes, NumbersTell, NEW p \in 1..Len(packets), NEW q \in 1..Len(packets),
           packets[p].num = packets[q].num
    PROVE  IsOK(p) <=> IsOK(q)
<1>1. packets[p] \in Packets /\ packets[q] \in Packets
  BY DEF CollectorTypes
<1>2. PICK m \in Feed : packets[p] = Packet(m, packets[p].skip)
  BY <1>1, PacketIs
<1>3. PICK n \in Feed : packets[q] = Packet(n, packets[q].skip)
  BY <1>1, PacketIs
<1>4. packets[p].kind = m.kind /\ packets[p].num = m.num
      /\ packets[q].kind = n.kind /\ packets[q].num = n.num
  BY <1>2, <1>3 DEF Packet
<1>5. m.kind \in {"OK", "SKIP"} /\ n.kind \in {"OK", "SKIP"}
  BY <1>1, <1>4, PacketIs
<1>6. QED
  BY <1>4, <1>5 DEF IsOK, NumbersTell

\* From place a of the list s to place j are skipped packets only.
Follows(s, ps, a, j) == a < j /\ \A k \in (a + 1)..j : ps[s[k]].kind # "OK"

\* A skipped packet is counted at the measurements it follows.
LEMMA SkipperFollows ==
    ASSUME CollectorTypes, NumbersTell, Ordered(dataList, packets),
           NEW j \in DOMAIN dataList, ~IsOK(dataList[j]),
           NEW a \in DOMAIN dataList, IsOK(dataList[a])
    PROVE  Skipper(j) = a <=> Follows(dataList, packets, a, j)
<1> DEFINE n == Len(dataList)
           alike == {k \in 1..n : packets[dataList[k]].kind = "SKIP"
                                  /\ packets[dataList[k]].num = packets[dataList[j]].num}
           like == Min(alike)
           good == {k \in 1..(like - 1) : IsOK(dataList[k])}
<1>1. /\ n \in Nat /\ DOMAIN dataList = 1..n /\ j \in 1..n /\ a \in 1..n
      /\ \A k \in 1..n : dataList[k] \in 1..Len(packets)
  <2> DEFINE P == 1..Len(packets)
  <2>1. dataList \in Seq(P)
    BY DEF CollectorTypes
  <2> HIDE DEF P
  <2>2. n \in Nat /\ DOMAIN dataList = 1..n /\ \A k \in 1..n : dataList[k] \in P
    BY <2>1
  <2> HIDE DEF n
  <2>3. j \in 1..n /\ a \in 1..n
    BY <2>2
  <2>4. QED
    BY <2>2, <2>3 DEF P
<1>2. \A k \in 1..n : /\ packets[dataList[k]].kind \in {"OK", "SKIP"}
                      /\ packets[dataList[k]].num \in Nat
  <2> SUFFICES ASSUME NEW k \in 1..n
               PROVE  /\ packets[dataList[k]].kind \in {"OK", "SKIP"}
                      /\ packets[dataList[k]].num \in Nat
    OBVIOUS
  <2>1. packets[dataList[k]] \in Packets
    BY <1>1 DEF CollectorTypes
  <2>2. QED
    BY <2>1, PacketIs
<1>3. j \in alike
  BY <1>1, <1>2 DEF IsOK
<1>4. like \in alike /\ \A k \in alike : like <= k
  <2>1. alike \in SUBSET (1..n) /\ alike \in SUBSET Nat
    OBVIOUS
  <2>2. IsFiniteSet(alike)
    BY <1>1, <2>1, UpTo, FS_Subset
  <2> HIDE DEF alike
  <2>3. QED
    BY <1>3, <2>1, <2>2, MinMax
<1>5. like \in 1..n /\ like <= j /\ packets[dataList[like]].num = packets[dataList[j]].num
  BY <1>3, <1>4
<1> HIDE DEF like, n
<1>6. ASSUME NEW k \in like..j PROVE ~IsOK(dataList[k])
  <2>1. k \in 1..n
    BY <1>1, <1>5
  <2>2. like = k \/ packets[dataList[like]].num <= packets[dataList[k]].num
    <3>1. like = k \/ like < k
      BY <1>5
    <3>2. ASSUME like < k PROVE packets[dataList[like]].num <= packets[dataList[k]].num
      <4>1. \/ packets[dataList[like]].num < packets[dataList[k]].num
            \/ packets[dataList[like]].num = packets[dataList[k]].num
        BY <1>1, <1>5, <2>1, <3>2 DEF Ordered
      <4>2. QED
        BY <1>2, <1>5, <2>1, <4>1
    <3>3. QED
      BY <3>1, <3>2
  <2>3. k = j \/ packets[dataList[k]].num <= packets[dataList[j]].num
    <3>1. k = j \/ k < j
      BY <1>1, <2>1
    <3>2. ASSUME k < j PROVE packets[dataList[k]].num <= packets[dataList[j]].num
      <4>1. \/ packets[dataList[k]].num < packets[dataList[j]].num
            \/ packets[dataList[k]].num = packets[dataList[j]].num
        BY <1>1, <2>1, <3>2 DEF Ordered
      <4>2. QED
        BY <1>1, <1>2, <2>1, <4>1
    <3>3. QED
      BY <3>1, <3>2
  <2>4. packets[dataList[k]].num = packets[dataList[j]].num
    BY <1>1, <1>2, <1>5, <2>1, <2>2, <2>3
  <2>5. dataList[k] \in 1..Len(packets) /\ dataList[j] \in 1..Len(packets)
    BY <1>1, <2>1
  <2>6. QED
    BY <2>4, <2>5, KindsTold
<1>7. Skipper(j) = IF good # {} THEN Max(good) ELSE 0
  <2>1. SelectInSeq(dataList, LAMBDA p : packets[p].kind = "SKIP"
                                 /\ packets[p].num = packets[dataList[j]].num)
          = IF alike # {} THEN Min(alike) ELSE 0
    BY DEF SelectInSeq, n
  <2>2. QED
    BY <1>3, <2>1 DEF Skipper, SelectLastInSubSeq, like
<1> HIDE DEF alike
<1>8. good # {} => Max(good) \in good /\ \A k \in good : Max(good) >= k
  <2>1. good \in SUBSET (1..n) /\ good \in SUBSET Nat
    BY <1>1, <1>5
  <2>2. IsFiniteSet(good)
    BY <1>1, <2>1, UpTo, FS_Subset
  <2> HIDE DEF good
  <2>3. QED
    BY <2>1, <2>2, MinMax
<1>9. ASSUME Skipper(j) = a PROVE Follows(dataList, packets, a, j)
  <2>1. a \in good /\ \A k \in good : a >= k
    BY <1>1, <1>7, <1>8, <1>9
  <2>2. a < like /\ a < j
    BY <1>1, <1>5, <2>1
  <2>3. ASSUME NEW k \in (a + 1)..j PROVE ~IsOK(dataList[k])
    <3>1. CASE k >= like
      BY <1>1, <1>5, <1>6, <3>1
    <3>2. CASE k < like
      <4>1. k \in 1..(like - 1) /\ ~(a >= k)
        BY <1>1, <1>5, <2>1, <3>2
      <4>2. k \notin good
        BY <2>1, <4>1
      <4>3. QED
        BY <4>1, <4>2
    <3>3. QED
      BY <1>1, <1>5, <3>1, <3>2
  <2>4. QED
    BY <2>2, <2>3 DEF Follows, IsOK
<1>10. ASSUME Follows(dataList, packets, a, j) PROVE Skipper(j) = a
  <2>1. a < j /\ \A k \in (a + 1)..j : ~IsOK(dataList[k])
    BY <1>10 DEF Follows, IsOK
  <2>2. a < like
    <3>1. ~(a < like) => a \in like..j
      BY <1>1, <1>5, <2>1
    <3>2. QED
      BY <1>6, <3>1
  <2>3. a \in good
    BY <1>1, <1>5, <2>2
  <2>4. ASSUME NEW k \in good PROVE k <= a
    <3>1. IsOK(dataList[k]) /\ k \in 1..(like - 1)
      OBVIOUS
    <3>2. ~(k <= a) => k \in (a + 1)..j
      BY <1>1, <1>5, <3>1
    <3>3. QED
      BY <2>1, <3>1, <3>2
  <2>5. Max(good) = a
    <3>1. Max(good) \in good /\ Max(good) >= a
      BY <1>8, <2>3
    <3>2. Max(good) <= a /\ Max(good) \in Nat
      BY <1>5, <2>4, <3>1
    <3>3. QED
      BY <1>1, <3>1, <3>2
  <2>6. QED
    BY <1>7, <2>3, <2>5
<1>11. QED
  BY <1>9, <1>10

\* How many skipped packets follow place a of the list s, up to place k.
Following(s, ps, a, k) == Cardinality({j \in 1..k : Follows(s, ps, a, j)})

\* The loop of genKML counts what SkippedAfter says.
LEMMA SkippedAfterIs ==
    ASSUME CollectorTypes, Distinct(want), NEW a \in 1..Len(want)
    PROVE  SkippedAfter(want[a], want) = Following(want, packets, a, Len(want))
<1> DEFINE n == Len(want)
           same == {k \in 1..n : want[k] = want[a]}
           later == {k \in (a + 1)..n : IsOK(want[k])}
           follow == {j \in 1..n : Follows(want, packets, a, j)}
           next == IF later # {} THEN Min(later) ELSE 0
           end == IF next = 0 THEN n + 1 ELSE next
<1>1. n \in Nat /\ DOMAIN want = 1..n /\ a \in 1..n
  BY DEF CollectorTypes
<1>2. same = {a}
  BY <1>1 DEF Distinct
<1>3. Min(same) = a
  BY <1>1, <1>2 DEF Min
<1>4. SkippedAfter(want[a], want) = end - a - 1
  <2>1. SelectInSeq(want, LAMBDA q : q = want[a]) = a
    BY <1>2, <1>3 DEF SelectInSeq
  <2>2. SelectInSubSeq(want, a + 1, n, IsOK) = next
    BY DEF SelectInSubSeq
  <2>3. QED
    BY <2>1, <2>2 DEF SkippedAfter
<1>5. later # {} => Min(later) \in later /\ \A k \in later : Min(later) <= k
  <2>1. later \in SUBSET (1..n) /\ later \in SUBSET Nat
    BY <1>1
  <2>2. IsFiniteSet(later)
    BY <1>1, <2>1, UpTo, FS_Subset
  <2> HIDE DEF later
  <2>3. QED
    BY <2>1, <2>2, MinMax
<1>6. end \in (a + 1)..(n + 1) /\ (end <= n => IsOK(want[end]))
      /\ \A k \in (a + 1)..(end - 1) : ~IsOK(want[k])
  <2>1. CASE later = {}
    BY <1>1, <2>1
  <2>2. CASE later # {}
    <3> DEFINE m == Min(later)
    <3>1. m \in later /\ \A k \in later : m <= k
      BY <1>5, <2>2
    <3> HIDE DEF m
    <3>2. m \in (a + 1)..n /\ IsOK(want[m])
      BY <3>1
    <3>3. end = m
      BY <1>1, <2>2, <3>2 DEF m
    <3>4. ASSUME NEW k \in (a + 1)..(m - 1) PROVE ~IsOK(want[k])
      BY <1>1, <3>1, <3>2
    <3> HIDE DEF end, later
    <3>5. QED
      BY <1>1, <3>2, <3>3, <3>4
  <2>3. QED
    BY <2>1, <2>2
<1> HIDE DEF end, next, later
<1>7. follow = (a + 1)..(end - 1)
  <2>1. ASSUME NEW j \in follow PROVE j \in (a + 1)..(end - 1)
    <3>1. j \in 1..n /\ a < j /\ \A k \in (a + 1)..j : ~IsOK(want[k])
      BY DEF Follows, IsOK
    <3>2. ~(end <= j)
      BY <1>1, <1>6, <3>1
    <3>3. QED
      BY <1>1, <1>6, <3>1, <3>2
  <2>2. ASSUME NEW j \in (a + 1)..(end - 1) PROVE j \in follow
    <3>1. j \in 1..n /\ a < j
      BY <1>1, <1>6
    <3>2. \A k \in (a + 1)..j : ~IsOK(want[k])
      BY <1>1, <1>6
    <3>3. QED
      BY <3>1, <3>2 DEF Follows, IsOK
  <2> HIDE DEF follow
  <2>3. QED
    BY <2>1, <2>2
<1>8. Cardinality(follow) = end - a - 1
  <2>1. a + 1 \in Int /\ end - 1 \in Int /\ end \in Int /\ a \in Int /\ end - 1 >= a
    BY <1>1, <1>6
  <2>2. Cardinality((a + 1)..(end - 1)) = IF a + 1 > end - 1 THEN 0 ELSE (end - 1) - (a + 1) + 1
    BY <2>1, FS_Interval
  <2> HIDE DEF follow
  <2>3. QED
    BY <1>7, <2>1, <2>2
<1>9. QED
  BY <1>4, <1>8 DEF Following

-----------------------------------------------------------------------------

\* The places of measurements among the first k of the list s.
Good(s, ps, k) == {j \in 1..k : ps[s[j]].kind = "OK"}

\* The KML file has the measurements among the first k packets.
Points(k) == [j \in DOMAIN kml |-> kml[j][1]] = Picked(want, Good(want, packets, k))

\* The networks of the first k packets are known.
Networks(k) == \A j \in Good(want, packets, k) : packets[want[j]].net \in ssids

\* How far an export of an undisturbed list is.
Progress ==
    /\ dataList = want /\ mq \notin {"sort", "sorting"}
    /\ gui \in {"counting", "points", "csv"} => i <= Len(want) + 1
    /\ gui = "counting" => outcome = "none" /\ kml = <<>> /\ rows = <<>> /\ Networks(i - 1)
    /\ gui = "points" =>
          outcome = "none" /\ Points(i - 1) /\ rows = <<>> /\ Networks(Len(want))
    /\ gui = "csv" => Points(Len(want)) /\ rows = SubSeq(want, 1, i - 1)
    /\ gui \in {"mainloop", "joining"} /\ packets[want[1]].kind = "OK" =>
          outcome = "saved" /\ Points(Len(want)) /\ rows = want

Undisturbed == saves > 0 => want # <<>> /\ (calm => Progress)

\* Measurements stay measurements.
LEMMA GoodStays ==
    ASSUME NEW P, NEW s \in Seq(P), NEW ps, NEW qs, NEW k \in Nat, k <= Len(s),
           \A p \in P : qs[p].kind = ps[p].kind
    PROVE  Good(s, qs, k) = Good(s, ps, k)
<1>1. \A j \in 1..k : s[j] \in P
  OBVIOUS
<1>2. QED
  BY <1>1 DEF Good

\* One packet more is a measurement or not.
LEMMA GoodMore ==
    ASSUME NEW s, NEW ps, NEW k \in Nat \ {0}
    PROVE  /\ Good(s, ps, k - 1) \in SUBSET (1..(k - 1))
           /\ Good(s, ps, k) = IF ps[s[k]].kind = "OK" THEN Good(s, ps, k - 1) \cup {k}
                               ELSE Good(s, ps, k - 1)
BY DEF Good

\* Steps that leave the export alone, or disturb it.
LEMMA UndisturbedKept ==
    ASSUME CollectorTypes, Undisturbed,
           UNCHANGED <<i, ssids, kml, rows, saves, outcome, want>>,
           calm' => calm /\ dataList' = dataList /\ mq' \notin {"sort", "sorting"},
           gui' = gui \/ (gui \in {"mainloop", "joining"} /\ gui' \in {"mainloop", "joining"}),
           \A p \in 1..Len(packets) : packets'[p] = packets[p]
    PROVE  Undisturbed'
<1> SUFFICES ASSUME saves > 0, calm' PROVE Progress'
  BY DEF Undisturbed
<1>1. Progress /\ want # <<>>
  BY DEF Undisturbed
<1>2. want \in Seq(1..Len(packets)) /\ Len(want) \in Nat /\ Len(want) # 0 /\ i \in Nat \ {0}
  <2>1. want \in Seq(1..Len(packets)) /\ i \in Nat \ {0}
    BY DEF CollectorTypes
  <2>2. QED
    BY <1>1, <2>1
<1>3. \A j \in 1..Len(want) : packets'[want[j]] = packets[want[j]]
  <2>1. \A j \in 1..Len(want) : want[j] \in 1..Len(packets)
    BY <1>2
  <2>2. QED
    BY <2>1
<1>4. ASSUME NEW k \in Nat, k <= Len(want)
      PROVE  /\ Good(want, packets', k) = Good(want, packets, k)
             /\ \A j \in Good(want, packets, k) : packets'[want[j]] = packets[want[j]]
  <2>1. Good(want, packets', k) = Good(want, packets, k)
    BY <1>2, <1>4, GoodStays
  <2>2. Good(want, packets, k) \subseteq 1..Len(want)
    BY <1>2, <1>4 DEF Good
  <2>3. QED
    BY <1>3, <2>1, <2>2
<1>5. dataList' = want /\ mq' \notin {"sort", "sorting"}
  BY <1>1 DEF Progress
<1>6. CASE gui' = "counting"
  <2>1. gui = "counting" /\ i - 1 \in Nat /\ i - 1 <= Len(want)
    BY <1>1, <1>2, <1>6 DEF Progress
  <2>2. Networks(i - 1)'
    BY <1>1, <1>4, <2>1 DEF Progress, Networks
  <2>3. QED
    BY <1>1, <1>5, <1>6, <2>1, <2>2 DEF Progress
<1>7. CASE gui' = "points"
  <2>1. gui = "points" /\ i - 1 \in Nat /\ i - 1 <= Len(want)
    BY <1>1, <1>2, <1>7 DEF Progress
  <2>2. Networks(Len(want))'
    BY <1>1, <1>2, <1>4, <2>1 DEF Progress, Networks
  <2>3. Points(i - 1)'
    BY <1>1, <1>4, <2>1 DEF Progress, Points
  <2>4. QED
    BY <1>1, <1>5, <1>7, <2>1, <2>2, <2>3 DEF Progress
<1>8. CASE gui' = "csv"
  <2>1. gui = "csv"
    BY <1>8
  <2>2. Points(Len(want))'
    BY <1>1, <1>2, <1>4, <2>1 DEF Progress, Points
  <2>3. QED
    BY <1>1, <1>5, <1>8, <2>1, <2>2 DEF Progress
<1>9. CASE gui' \in {"mainloop", "joining"}
  <2>1. gui \in {"mainloop", "joining"}
    BY <1>9
  <2>2. packets'[want[1]] = packets[want[1]]
    BY <1>2, <1>3
  <2>3. Points(Len(want)) => Points(Len(want))'
    BY <1>2, <1>4 DEF Points
  <2>4. QED
    BY <1>1, <1>5, <1>9, <2>1, <2>2, <2>3 DEF Progress
<1>10. CASE gui' \notin {"counting", "points", "csv", "mainloop", "joining"}
  BY <1>5, <1>10 DEF Progress
<1>11. QED
  BY <1>6, <1>7, <1>8, <1>9, <1>10

\* No export has begun when the program starts.
LEMMA UndisturbedInit == Init => Undisturbed
BY DEF Init, Undisturbed

\* The MQTT thread and the buttons that are not about the export.
LEMMA UndisturbedElsewhere ==
    ASSUME CollectorTypes, Undisturbed, [Next]_vars, ~Save, ~Saving
    PROVE  Undisturbed'
<1>1. ~CountOne
  BY DEF Saving
<1>2. \A p \in 1..Len(packets) : packets'[p] = packets[p]
  BY <1>1, PacketsStay
<1>3. ASSUME UNCHANGED <<export, gui, calm, dataList>>, mq' = mq \/ mq' \notin {"sort", "sorting"}
      PROVE  Undisturbed'
  <2>1. saves > 0 /\ calm => mq' \notin {"sort", "sorting"}
    BY <1>3 DEF Undisturbed, Progress
  <2>2. CASE saves > 0
    BY <1>2, <1>3, <2>1, <2>2, UndisturbedKept DEF export
  <2>3. CASE ~(saves > 0)
    BY <1>3, <2>3 DEF Undisturbed, export
  <2>4. QED
    BY <2>2, <2>3
<1>4. ASSUME UNCHANGED <<export, gui>>, calm' = FALSE PROVE Undisturbed'
  BY <1>4 DEF Undisturbed, export
<1>5. ASSUME NEW m \in Feed, Receive(m) \/ Garbled(m) PROVE Undisturbed'
  BY <1>3, <1>5 DEF Receive, Garbled, list
<1>6. CASE Adding
  BY <1>4, <1>6 DEF Adding, AppendData, SortBegin, SortEnd
<1>7. CASE Draw \/ LoopEnd
  BY <1>3, <1>7 DEF Draw, LoopEnd, list
<1>8. CASE Connect \/ Pause
  BY <1>3, <1>8 DEF Connect, Pause, list
<1>9. CASE Disconnect \/ Disconnected
  <2>1. UNCHANGED <<export, calm, dataList>> /\ (mq' = mq \/ mq' = "none")
        /\ gui \in {"mainloop", "joining"} /\ gui' \in {"mainloop", "joining"}
    BY <1>9 DEF Disconnect, Disconnected, MainLoop, list
  <2>2. saves > 0 /\ calm => mq' \notin {"sort", "sorting"}
    BY <2>1 DEF Undisturbed, Progress
  <2>3. CASE saves > 0
    BY <1>2, <2>1, <2>2, <2>3, UndisturbedKept DEF export
  <2>4. CASE ~(saves > 0)
    BY <2>1, <2>4 DEF Undisturbed, export
  <2>5. QED
    BY <2>3, <2>4
<1>10. CASE Start
  BY <1>4, <1>10 DEF Start
<1>11. ASSUME NEW f \in Files, Import(f) PROVE Undisturbed'
  BY <1>4, <1>11 DEF Import
<1>12. CASE UNCHANGED vars
  BY <1>3, <1>12 DEF vars, list
<1>13. QED
  BY <1>5, <1>6, <1>7, <1>8, <1>9, <1>10, <1>11, <1>12 DEF Next

\* A point more.
LEMMA PointsAppend ==
    ASSUME NEW S, NEW U, NEW s \in Seq(S \X U), NEW x \in S, NEW y \in U
    PROVE  [j \in DOMAIN Append(s, <<x, y>>) |-> Append(s, <<x, y>>)[j][1]]
             = Append([j \in DOMAIN s |-> s[j][1]], x)
<1> DEFINE q == <<x, y>>
           Q == S \X U
           f == [j \in DOMAIN s |-> s[j][1]]
           n == Len(s)
           e == Append(s, q)
<1>1. q \in Q /\ q[1] = x /\ s \in Seq(Q)
  OBVIOUS
<1>2. \A z \in Q : z[1] \in S
  OBVIOUS
<1> HIDE DEF q, Q
<1>3. n \in Nat /\ DOMAIN s = 1..n /\ \A j \in 1..n : s[j] \in Q
  BY <1>1
<1>4. DOMAIN e = 1..(n + 1) /\ e[n + 1] = q /\ \A j \in 1..n : e[j] = s[j]
  BY <1>1
<1>5. f \in Seq(S) /\ Len(f) = n /\ \A j \in 1..n : f[j] = s[j][1]
  <2>1. f \in [1..n -> S]
    BY <1>2, <1>3
  <2>2. QED
    BY <1>3, <2>1
<1> HIDE DEF e, f, n
<1>6. Append(f, x) \in Seq(S) /\ DOMAIN Append(f, x) = 1..(n + 1)
      /\ \A j \in 1..(n + 1) : Append(f, x)[j] = e[j][1]
  <2>1. DOMAIN Append(f, x) = 1..(n + 1) /\ Append(f, x)[n + 1] = x
        /\ \A j \in 1..n : Append(f, x)[j] = f[j]
    BY <1>3, <1>5
  <2>2. Append(f, x) \in Seq(S)
    BY <1>5
  <2>3. \A j \in 1..(n + 1) : j \in 1..n \/ j = n + 1
    BY <1>3
  <2>4. QED
    BY <1>1, <1>4, <1>5, <2>1, <2>2, <2>3
<1>7. Append(f, x) = [j \in 1..(n + 1) |-> e[j][1]]
  <2> DEFINE g == Append(f, x)
  <2>1. g \in Seq(S) /\ DOMAIN g = 1..(n + 1) /\ \A j \in 1..(n + 1) : g[j] = e[j][1]
    BY <1>6
  <2> HIDE DEF g
  <2>2. g = [j \in 1..(n + 1) |-> g[j]]
    BY <2>1
  <2>3. g = [j \in 1..(n + 1) |-> e[j][1]]
    BY <2>1, <2>2
  <2>4. QED
    BY <2>3 DEF g
<1>8. QED
  BY <1>4, <1>7 DEF e, f, q

\* A row more, and the last one.
LEMMA RowsAppend ==
    ASSUME NEW S, NEW s \in Seq(S), NEW k \in DOMAIN s
    PROVE  Append(SubSeq(s, 1, k - 1), s[k]) = SubSeq(s, 1, k)
OBVIOUS

\* No row and all the rows.
LEMMA RowsAll ==
    ASSUME NEW S, NEW s \in Seq(S)
    PROVE  SubSeq(s, 1, 0) = <<>> /\ SubSeq(s, 1, Len(s)) = s
OBVIOUS

\* The export itself: each loop goes through the list that was there when it
\* began, and no network is unknown.
LEMMA UndisturbedExport ==
    ASSUME CollectorTypes, Undisturbed, Save \/ Saving, Saving => saves > 0
    PROVE  Undisturbed'
<1>1. CASE Save
  <2>1. /\ want' = dataList /\ dataList' = dataList /\ dataList # <<>> /\ packets' = packets
        /\ kml' = <<>> /\ rows' = <<>> /\ i' = 1 /\ mq' = mq
        /\ calm' => mq \notin {"sort", "sorting"}
        /\ IF IsOK(dataList[1]) THEN gui' = "counting" /\ outcome' = "none" ELSE gui' = "mainloop"
    BY <1>1 DEF Save, MainLoop, list
  <2>2. Len(dataList) \in Nat
    BY DEF CollectorTypes
  <2>3. Good(want', packets', 1 - 1) = {}
    BY DEF Good
  <2>4. CASE IsOK(dataList[1])
    <3>1. Networks(i - 1)'
      BY <2>1, <2>3 DEF Networks
    <3>2. calm' => Progress'
      BY <2>1, <2>2, <2>4, <3>1 DEF Progress
    <3>3. QED
      BY <2>1, <3>2 DEF Undisturbed
  <2>5. CASE ~IsOK(dataList[1])
    BY <2>1, <2>5 DEF Undisturbed, Progress, IsOK
  <2>6. QED
    BY <2>4, <2>5
<1>2. CASE Saving
  <2>1. UNCHANGED <<want, saves, calm, dataList, mq>>
    BY <1>2 DEF Saving, CountOne, Counted, PointOne, KmlSaved, RowOne, CsvSaved, list
  <2> SUFFICES ASSUME calm PROVE Progress'
    BY <1>2, <2>1 DEF Undisturbed
  <2>2. Progress /\ want # <<>> /\ gui \in {"counting", "points", "csv"}
    BY <1>2 DEF Saving, CountOne, Counted, PointOne, KmlSaved, RowOne, CsvSaved, Undisturbed
  <2>3. /\ want \in Seq(1..Len(packets)) /\ Len(want) \in Nat /\ i \in Nat \ {0}
        /\ DOMAIN want = 1..Len(want) /\ dataList = want /\ i <= Len(want) + 1
        /\ mq \notin {"sort", "sorting"}
    BY <2>2 DEF Progress, CollectorTypes
  <2>4. AtEnd <=> i = Len(want) + 1
    BY <2>3 DEF AtEnd
  <2>5. CASE CountOne
    <3>1. i <= Len(want) /\ gui = "counting" /\ i' = i + 1 /\ i \in 1..Len(want)
          /\ UNCHANGED <<gui, outcome, kml, rows>>
      BY <2>3, <2>4, <2>5 DEF CountOne
    <3>2. ssids \subseteq ssids'
          /\ (packets[want[i]].kind = "OK" => packets[want[i]].net \in ssids')
      BY <2>3, <2>5 DEF CountOne, IsOK
    <3>3. \A p \in 1..Len(packets) : packets'[p].kind = packets[p].kind /\ packets'[p].net = packets[p].net
      BY <2>5, CountOneIs
    <3>4. Good(want, packets', i) = Good(want, packets, i)
      BY <2>3, <3>1, <3>3, GoodStays
    <3>5. Good(want, packets, i) \subseteq Good(want, packets, i - 1) \cup {i}
          /\ Good(want, packets, i) \subseteq 1..Len(want)
          /\ (i \in Good(want, packets, i) => packets[want[i]].kind = "OK")
      BY <2>3, <3>1 DEF Good
    <3>6. ASSUME NEW j \in Good(want, packets, i) PROVE packets'[want[j]].net \in ssids'
      <4>1. packets'[want[j]].net = packets[want[j]].net
        BY <2>3, <3>3, <3>5
      <4>2. packets[want[j]].net \in ssids'
        BY <2>2, <3>1, <3>2, <3>5 DEF Progress, Networks
      <4>3. QED
        BY <4>1, <4>2
    <3>7. i' - 1 = i /\ i' <= Len(want) + 1
      BY <2>3, <3>1
    <3>8. Networks(i - 1)'
      BY <2>1, <3>4, <3>6, <3>7 DEF Networks
    <3>9. QED
      BY <2>1, <2>2, <2>3, <3>1, <3>7, <3>8 DEF Progress
  <2>6. CASE Counted
    <3>1. gui = "counting" /\ i - 1 = Len(want) /\ gui' = "points" /\ i' = 1
          /\ UNCHANGED <<outcome, kml, rows, ssids, packets>>
      BY <2>3, <2>4, <2>6 DEF Counted, list
    <3>2. Networks(Len(want))'
      BY <2>1, <2>2, <3>1 DEF Progress, Networks
    <3>3. Points(0)'
      <4>1. Good(want', packets', 0) = {}
        BY DEF Good
      <4>2. kml' = <<>> /\ DOMAIN kml' = {}
        BY <2>2, <3>1 DEF Progress
      <4>3. [j \in DOMAIN kml' |-> kml'[j][1]] = <<>>
        BY <4>2
      <4>4. QED
        BY <4>1, <4>3, PickedNone DEF Points
    <3>4. Points(i - 1)'
      BY <3>1, <3>3 DEF Points
    <3>5. QED
      BY <2>1, <2>2, <2>3, <3>1, <3>2, <3>4 DEF Progress
  <2>7. CASE PointOne
    <3>1. i \in 1..Len(want) /\ gui = "points" /\ i' = i + 1 /\ UNCHANGED <<packets, ssids, rows>>
      BY <2>3, <2>4, <2>7 DEF PointOne, list
    <3>2. Points(i - 1) /\ Networks(Len(want)) /\ outcome = "none" /\ rows = <<>>
      BY <2>2, <3>1 DEF Progress
    <3>3. ~(IsOK(want[i]) /\ packets[want[i]].net \notin ssids)
      BY <3>1, <3>2 DEF Networks, Good, IsOK
    <3>4. UNCHANGED <<gui, outcome>>
      BY <2>3, <2>7, <3>3 DEF PointOne
    <3>5. [j \in DOMAIN kml' |-> kml'[j][1]] = Picked(want, Good(want, packets, i))
      <4>1. Good(want, packets, i - 1) \in SUBSET (1..(i - 1))
            /\ Good(want, packets, i) = IF IsOK(want[i]) THEN Good(want, packets, i - 1) \cup {i}
                                       ELSE Good(want, packets, i - 1)
        BY <2>3, GoodMore DEF IsOK
      <4>2. CASE ~IsOK(want[i])
        <5>1. kml' = kml
          BY <2>3, <2>7, <4>2 DEF PointOne
        <5>2. QED
          BY <3>2, <4>1, <4>2, <5>1 DEF Points
      <4>3. CASE IsOK(want[i])
        <5>1. kml' = Append(kml, <<want[i], packets[want[i]].skip>>)
          BY <2>3, <2>7, <3>3, <4>3 DEF PointOne
        <5>2. want[i] \in 1..Len(packets) /\ packets[want[i]].skip \in Nat
          <6>1. want[i] \in 1..Len(packets)
            BY <2>3, <3>1
          <6>2. packets[want[i]] \in Packets
            BY <6>1 DEF CollectorTypes
          <6>3. QED
            BY <6>1, <6>2, PacketIs
        <5>3. kml \in Seq((1..Len(packets)) \X Nat)
          BY DEF CollectorTypes
        <5>4. [j \in DOMAIN kml' |-> kml'[j][1]] = Append([j \in DOMAIN kml |-> kml[j][1]], want[i])
          BY <5>1, <5>2, <5>3, PointsAppend
        <5>5. Picked(want, Good(want, packets, i))
                = Append(Picked(want, Good(want, packets, i - 1)), want[i])
          BY <2>3, <3>1, <4>1, <4>3, PickedMore
        <5>6. QED
          BY <3>2, <5>4, <5>5 DEF Points
      <4>4. QED
        BY <4>2, <4>3
    <3>6. i' - 1 = i /\ i' <= Len(want) + 1
      BY <2>3, <3>1
    <3>7. Points(i - 1)'
      BY <2>1, <3>1, <3>5, <3>6 DEF Points
    <3>8. Networks(Len(want))'
      BY <2>1, <3>1, <3>2 DEF Networks
    <3>9. QED
      BY <2>1, <2>2, <2>3, <3>1, <3>2, <3>4, <3>6, <3>7, <3>8 DEF Progress
  <2>8. CASE KmlSaved
    <3>1. i - 1 = Len(want) /\ gui = "points" /\ gui' = "csv" /\ i' = 1
          /\ UNCHANGED <<packets, kml, rows>>
      BY <2>3, <2>4, <2>8 DEF KmlSaved, list
    <3>2. Points(Len(want))' /\ rows = <<>>
      BY <2>1, <2>2, <3>1 DEF Progress, Points
    <3>3. rows' = SubSeq(want', 1, i' - 1)
      BY <2>1, <2>3, <3>1, <3>2, RowsAll
    <3>4. QED
      BY <2>1, <2>2, <2>3, <3>1, <3>2, <3>3 DEF Progress
  <2>9. CASE RowOne
    <3>1. i \in DOMAIN want /\ gui = "csv" /\ i' = i + 1 /\ rows' = Append(rows, want[i])
          /\ UNCHANGED <<gui, packets, kml>>
      BY <2>3, <2>4, <2>9 DEF RowOne, list
    <3>2. Points(Len(want))' /\ rows = SubSeq(want, 1, i - 1)
      BY <2>1, <2>2, <3>1 DEF Progress, Points
    <3>3. rows' = SubSeq(want, 1, i)
      BY <2>3, <3>1, <3>2, RowsAppend
    <3>4. i' - 1 = i /\ i' <= Len(want) + 1
      BY <2>3, <3>1
    <3>5. rows' = SubSeq(want', 1, i' - 1)
      BY <2>1, <3>3, <3>4
    <3>6. QED
      BY <2>1, <2>2, <2>3, <3>1, <3>2, <3>4, <3>5 DEF Progress
  <2>10. CASE CsvSaved
    <3>1. i - 1 = Len(want) /\ gui = "csv" /\ gui' = "mainloop" /\ outcome' = "saved"
          /\ UNCHANGED <<packets, kml, rows>>
      BY <2>3, <2>4, <2>10 DEF CsvSaved, list
    <3>2. Points(Len(want))' /\ rows = want
      BY <2>1, <2>2, <2>3, <3>1, RowsAll DEF Progress, Points
    <3>3. QED
      BY <2>1, <2>2, <2>3, <3>1, <3>2 DEF Progress
  <2>11. QED
    BY <1>2, <2>5, <2>6, <2>7, <2>8, <2>9, <2>10 DEF Saving
<1>3. QED
  BY <1>1, <1>2

-----------------------------------------------------------------------------

\* The counts of the first export.
FirstCounts ==
    /\ saves = 0 => \A p \in 1..Len(packets) : packets[p].skip = 0
    /\ saves = 1 /\ calm =>
        \A a \in Good(want, packets, Len(want)) :
            /\ gui = "counting" => packets[want[a]].skip = Following(want, packets, a, i - 1)
            /\ gui = "points" => packets[want[a]].skip = Following(want, packets, a, Len(want))
    /\ saves = 1 /\ calm /\ gui # "counting" =>
        \A k \in 1..Len(kml) : \E a \in Good(want, packets, Len(want)) :
            kml[k] = <<want[a], Following(want, packets, a, Len(want))>>

\* What follows stays the same.
LEMMA FollowingStays ==
    ASSUME NEW P, NEW s \in Seq(P), NEW ps, NEW qs, NEW k \in Nat, k <= Len(s),
           NEW a \in 1..Len(s), \A p \in P : qs[p].kind = ps[p].kind
    PROVE  Following(s, qs, a, k) = Following(s, ps, a, k)
<1>1. \A j \in 1..Len(s) : s[j] \in P
  OBVIOUS
<1>2. \A j \in 1..Len(s) : qs[s[j]].kind = ps[s[j]].kind
  BY <1>1
<1>3. \A j \in 1..k : Follows(s, qs, a, j) <=> Follows(s, ps, a, j)
  BY <1>2 DEF Follows
<1>4. {j \in 1..k : Follows(s, qs, a, j)} = {j \in 1..k : Follows(s, ps, a, j)}
  BY <1>3
<1>5. QED
  BY <1>4 DEF Following

\* One packet more follows or does not.
LEMMA FollowingMore ==
    ASSUME NEW s, NEW ps, NEW a, NEW k \in Nat \ {0}
    PROVE  /\ Following(s, ps, a, k - 1) \in Nat
           /\ Following(s, ps, a, k) = IF Follows(s, ps, a, k) THEN Following(s, ps, a, k - 1) + 1
                                       ELSE Following(s, ps, a, k - 1)
<1> DEFINE before == {j \in 1..(k - 1) : Follows(s, ps, a, j)}
           now == {j \in 1..k : Follows(s, ps, a, j)}
<1>1. IsFiniteSet(before) /\ Cardinality(before) \in Nat
  <2>1. k - 1 \in Nat /\ before \in SUBSET (1..(k - 1))
    OBVIOUS
  <2>2. IsFiniteSet(1..(k - 1))
    BY <2>1, UpTo
  <2> HIDE DEF before
  <2>3. QED
    BY <2>1, <2>2, Smaller
<1>2. k \notin before /\ now = IF Follows(s, ps, a, k) THEN before \cup {k} ELSE before
  OBVIOUS
<1> HIDE DEF before, now
<1>3. Cardinality(before \cup {k}) = Cardinality(before) + 1
  BY <1>1, <1>2, FS_AddElement
<1>4. QED
  BY <1>1, <1>2, <1>3 DEF Following, before, now

\* Nothing is counted of a packet before the first export.
LEMMA FirstCountsInit == Init => FirstCounts
<1>1. Init => saves = 0 /\ Len(packets) = 0
  BY DEF Init
<1>2. QED
  BY <1>1 DEF FirstCounts

\* Steps that change no packet.
LEMMA FirstCountsKept ==
    ASSUME CollectorTypes, Undisturbed, FirstCounts, [Next]_vars, ~CountOne, saves' = saves,
           saves = 1 /\ calm' => calm /\ want' = want /\ kml' = kml,
           saves = 1 /\ calm' /\ gui' = "counting" => gui = "counting" /\ i' = i,
           saves = 1 /\ calm' /\ gui' = "points" => gui = "points",
           saves = 1 /\ calm' /\ gui' # "counting" => gui # "counting"
    PROVE  FirstCounts'
<1>1. /\ Len(packets) \in Nat /\ Len(packets') \in Nat
      /\ \A p \in 1..Len(packets) : packets'[p] = packets[p]
      /\ \A p \in 1..Len(packets') : p > Len(packets) => packets'[p].skip = 0
  BY PacketsStay
<1>2. CASE saves = 0
  <2>1. \A p \in 1..Len(packets') : packets'[p].skip = 0
    BY <1>1, <1>2 DEF FirstCounts
  <2>2. QED
    BY <1>2, <2>1 DEF FirstCounts
<1>3. CASE saves = 1 /\ calm'
  <2>1. calm /\ want' = want /\ kml' = kml /\ want \in Seq(1..Len(packets)) /\ Len(want) \in Nat
    BY <1>3 DEF CollectorTypes
  <2>2. Good(want, packets', Len(want)) = Good(want, packets, Len(want))
    BY <1>1, <2>1, GoodStays
  <2>3. ASSUME NEW a \in Good(want, packets, Len(want)), NEW k \in Nat, k <= Len(want)
        PROVE  /\ Following(want, packets', a, k) = Following(want, packets, a, k)
               /\ packets'[want[a]] = packets[want[a]]
    <3>1. a \in 1..Len(want) /\ want[a] \in 1..Len(packets)
      BY <2>1 DEF Good
    <3>2. \A p \in 1..Len(packets) : packets'[p].kind = packets[p].kind
      BY <1>1
    <3>3. Following(want, packets', a, k) = Following(want, packets, a, k)
      <4> DEFINE P == 1..Len(packets)
      <4>1. want \in Seq(P) /\ k \in Nat /\ k <= Len(want) /\ a \in 1..Len(want)
            /\ \A p \in P : packets'[p].kind = packets[p].kind
        BY <2>1, <2>3, <3>1, <3>2
      <4> HIDE DEF P
      <4>2. QED
        BY <4>1, FollowingStays
    <3>4. QED
      BY <1>1, <3>1, <3>3
  <2>4. ASSUME gui' = "counting", NEW a \in Good(want, packets, Len(want))
        PROVE  packets'[want[a]].skip = Following(want, packets', a, i' - 1)
    <3>1. gui = "counting" /\ i' = i
      BY <1>3, <2>4
    <3>2. packets[want[a]].skip = Following(want, packets, a, i - 1)
      BY <1>3, <2>1, <3>1 DEF FirstCounts
    <3>3. i - 1 \in Nat /\ i - 1 <= Len(want)
      BY <1>3, <2>1, <3>1 DEF Undisturbed, Progress, CollectorTypes
    <3>4. QED
      BY <2>3, <3>1, <3>2, <3>3
  <2>5. ASSUME gui' = "points", NEW a \in Good(want, packets, Len(want))
        PROVE  packets'[want[a]].skip = Following(want, packets', a, Len(want))
    <3>1. packets[want[a]].skip = Following(want, packets, a, Len(want))
      BY <1>3, <2>1, <2>5 DEF FirstCounts
    <3>2. QED
      BY <2>1, <2>3, <3>1
  <2>6. ASSUME gui' # "counting", NEW k \in 1..Len(kml)
        PROVE  \E a \in Good(want, packets, Len(want)) :
                  kml[k] = <<want[a], Following(want, packets', a, Len(want))>>
    <3>1. gui # "counting"
      BY <1>3, <2>6
    <3>2. PICK a \in Good(want, packets, Len(want)) :
                  kml[k] = <<want[a], Following(want, packets, a, Len(want))>>
      BY <1>3, <2>1, <2>6, <3>1 DEF FirstCounts
    <3>3. QED
      BY <2>1, <2>3, <3>2
  <2>7. \A a \in Good(want', packets', Len(want')) :
           /\ gui' = "counting" => packets'[want'[a]].skip = Following(want', packets', a, i' - 1)
           /\ gui' = "points" => packets'[want'[a]].skip = Following(want', packets', a, Len(want'))
    BY <2>1, <2>2, <2>4, <2>5
  <2>8. gui' # "counting" =>
           \A k \in 1..Len(kml') : \E a \in Good(want', packets', Len(want')) :
              kml'[k] = <<want'[a], Following(want', packets', a, Len(want'))>>
    BY <2>1, <2>2, <2>6
  <2>9. saves' # 0
    BY <1>3
  <2>10. QED
    BY <2>7, <2>8, <2>9 DEF FirstCounts
<1>4. CASE saves # 0 /\ ~(saves = 1 /\ calm')
  BY <1>4 DEF FirstCounts
<1>5. QED
  BY <1>2, <1>3, <1>4

\* The first export counts the skipped packets that follow each measurement.
LEMMA FirstCountsNext ==
    ASSUME CollectorTypes, Once, Skips, Undisturbed, FirstCounts, NumbersTell, [Next]_vars
    PROVE  FirstCounts'
<1>0. saves \in Nat /\ i \in Nat \ {0} /\ want \in Seq(1..Len(packets)) /\ Len(want) \in Nat
  BY DEF CollectorTypes
<1>1. CASE Save
  <2>1. saves' = saves + 1 /\ packets' = packets /\ kml' = <<>> /\ i' = 1
        /\ want' = dataList
    BY <1>1 DEF Save, list
  <2>2. CASE saves = 0
    <3>1. ASSUME NEW a \in Good(want', packets', Len(want'))
          PROVE  packets'[want'[a]].skip = Following(want', packets', a, i' - 1)
      <4>1. a \in 1..Len(dataList) /\ dataList \in Seq(1..Len(packets))
        BY <2>1 DEF Good, CollectorTypes
      <4>2. dataList[a] \in 1..Len(packets)
        BY <4>1
      <4>3. packets[dataList[a]].skip = 0
        BY <2>2, <4>2 DEF FirstCounts
      <4>4. {j \in 1..(1 - 1) : Follows(want', packets', a, j)} = {}
        OBVIOUS
      <4>5. Following(want', packets', a, i' - 1) = 0
        BY <2>1, <4>4, FS_EmptySet DEF Following
      <4>6. QED
        BY <2>1, <4>3, <4>5
    <3>2. Len(kml') = 0 /\ saves' = 1 /\ gui' # "points"
      BY <1>1, <2>1, <2>2 DEF Save, MainLoop
    <3>3. QED
      BY <3>1, <3>2 DEF FirstCounts
  <2>3. CASE saves # 0
    BY <1>0, <2>1, <2>3 DEF FirstCounts
  <2>4. QED
    BY <2>2, <2>3
<1>2. CASE CountOne
  <2>1. /\ gui = "counting" /\ i' = i + 1 /\ UNCHANGED <<gui, want, kml, saves, calm, dataList>>
        /\ saves > 0
    BY <1>2 DEF CountOne, Skips, Exporting
  <2> SUFFICES ASSUME saves = 1, calm, NEW a \in Good(want, packets', Len(want))
               PROVE  packets'[want[a]].skip = Following(want, packets', a, i)
    <3>1. (i + 1) - 1 = i
      BY <1>0
    <3>2. QED
      BY <2>1, <3>1 DEF FirstCounts
  <2>2. /\ dataList = want /\ mq \notin {"sort", "sorting"} /\ i \in DOMAIN dataList
        /\ i <= Len(want) /\ DOMAIN want = 1..Len(want) /\ i \in 1..Len(want)
    BY <1>0, <1>2, <2>1 DEF Undisturbed, Progress, CountOne, AtEnd
  <2>3. Ordered(dataList, packets) /\ Distinct(want)
    BY <2>2 DEF Once, Current
  <2>4. \A p \in 1..Len(packets) :
           /\ packets'[p].kind = packets[p].kind
           /\ packets'[p].skip =
                 IF ~IsOK(dataList[i]) /\ Skipper(i) # 0 /\ p = dataList[Skipper(i)]
                 THEN packets[p].skip + 1 ELSE packets[p].skip
    BY <1>2, CountOneIs
  <2> DEFINE P == 1..Len(packets)
  <2>13. want \in Seq(P) /\ \A p \in P : packets'[p].kind = packets[p].kind
    BY <1>0, <2>4
  <2>14. Len(want) <= Len(want) /\ i \in Nat /\ Len(want) \in Nat
    BY <1>0
  <2> HIDE DEF P
  <2>5. Good(want, packets', Len(want)) = Good(want, packets, Len(want))
    BY <2>13, <2>14, GoodStays
  <2>6. a \in 1..Len(want) /\ want[a] \in 1..Len(packets) /\ IsOK(want[a])
    BY <1>0, <2>5 DEF Good, IsOK
  <2>7. Following(want, packets', a, i) = Following(want, packets, a, i)
    BY <2>2, <2>6, <2>13, <2>14, FollowingStays
  <2>8. packets[want[a]].skip = Following(want, packets, a, i - 1)
    BY <2>1, <2>5 DEF FirstCounts
  <2>9. Following(want, packets, a, i) =
          IF Follows(want, packets, a, i) THEN Following(want, packets, a, i - 1) + 1
          ELSE Following(want, packets, a, i - 1)
    BY <1>0, FollowingMore
  <2>10. CASE IsOK(want[i])
    <3>1. ~Follows(want, packets, a, i)
      BY <2>2, <2>6, <2>10 DEF Follows, IsOK
    <3>2. packets'[want[a]].skip = packets[want[a]].skip
      BY <2>2, <2>4, <2>6, <2>10
    <3>3. QED
      BY <2>7, <2>8, <2>9, <3>1, <3>2
  <2>11. CASE ~IsOK(want[i])
    <3>1. Skipper(i) = a <=> Follows(want, packets, a, i)
      BY <2>2, <2>3, <2>6, <2>11, SkipperFollows
    <3>2. Skipper(i) # 0 /\ want[a] = want[Skipper(i)] <=> Skipper(i) = a
      <4>1. Skipper(i) # 0 => Skipper(i) \in DOMAIN dataList
        <5>1. 1..Len(packets) \in SUBSET Nat /\ dataList \in Seq(1..Len(packets))
          BY <1>0, <2>2
        <5>2. QED
          BY <2>2, <5>1, SkipperIs
      <4>2. a # 0 /\ a \in DOMAIN want
        BY <2>2, <2>6
      <4>3. QED
        BY <2>2, <2>3, <4>1, <4>2 DEF Distinct
    <3>3. packets'[want[a]].skip = IF Skipper(i) = a THEN packets[want[a]].skip + 1
                                   ELSE packets[want[a]].skip
      BY <2>2, <2>4, <2>6, <2>11, <3>2
    <3>4. QED
      BY <2>7, <2>8, <2>9, <3>1, <3>3
  <2>12. QED
    BY <2>10, <2>11
<1>3. CASE Counted
  <2>1. /\ gui = "counting" /\ gui' = "points" /\ i > Len(dataList)
        /\ UNCHANGED <<packets, want, kml, saves, calm>> /\ saves > 0
    BY <1>3 DEF Counted, AtEnd, Skips, Exporting, list
  <2> SUFFICES ASSUME saves = 1, calm
               PROVE  /\ \A a \in Good(want, packets, Len(want)) :
                            packets[want[a]].skip = Following(want, packets, a, Len(want))
                      /\ Len(kml) = 0
    BY <2>1 DEF FirstCounts
  <2>2. i - 1 = Len(want) /\ kml = <<>>
    BY <1>0, <2>1 DEF Undisturbed, Progress
  <2>3. QED
    BY <2>1, <2>2 DEF FirstCounts
<1>4. CASE PointOne
  <2>1. /\ gui = "points" /\ gui' \in {"points", "mainloop"} /\ i <= Len(dataList)
        /\ UNCHANGED <<packets, want, saves, calm, dataList>>
        /\ \/ kml' = kml
           \/ IsOK(dataList[i]) /\ kml' = Append(kml, <<dataList[i], packets[dataList[i]].skip>>)
    <3>1. Len(dataList) \in Nat
      BY DEF CollectorTypes
    <3>2. QED
      BY <1>0, <1>4, <3>1 DEF PointOne, AtEnd, list
  <2>2. CASE saves = 1 /\ calm
    <3>1. (dataList = want /\ i \in Good(want, packets, Len(want))) \/ kml' = kml
      BY <1>0, <2>1, <2>2 DEF Undisturbed, Progress, Good, IsOK
    <3>2. \A k \in 1..Len(kml) : \E a \in Good(want, packets, Len(want)) :
             kml[k] = <<want[a], Following(want, packets, a, Len(want))>>
      BY <2>1, <2>2 DEF FirstCounts
    <3>3. \A a \in Good(want, packets, Len(want)) :
             packets[want[a]].skip = Following(want, packets, a, Len(want))
      BY <2>1, <2>2 DEF FirstCounts
    <3>4. \A k \in 1..Len(kml') : \E a \in Good(want, packets, Len(want)) :
             kml'[k] = <<want[a], Following(want, packets, a, Len(want))>>
      <4>1. CASE kml' = kml
        BY <3>2, <4>1
      <4>2. CASE kml' # kml
        <5> DEFINE point == <<want[i], packets[want[i]].skip>>
                   Pts == (1..Len(packets)) \X Nat
        <5>1. kml' = Append(kml, point) /\ i \in Good(want, packets, Len(want))
          BY <2>1, <3>1, <4>2
        <5>2. kml \in Seq(Pts)
          BY DEF CollectorTypes
        <5>3. point = <<want[i], Following(want, packets, i, Len(want))>>
          BY <3>3, <5>1
        <5> HIDE DEF point, Pts
        <5>4. /\ Len(kml') = Len(kml) + 1 /\ kml'[Len(kml) + 1] = point /\ Len(kml) \in Nat
              /\ \A k \in 1..Len(kml) : kml'[k] = kml[k]
          BY <5>1, <5>2
        <5>5. \A k \in 1..Len(kml') : k \in 1..Len(kml) \/ k = Len(kml) + 1
          BY <5>4
        <5>6. QED
          BY <3>2, <5>1, <5>3, <5>4, <5>5
      <4>3. QED
        BY <4>1, <4>2
    <3>5. QED
      BY <2>1, <2>2, <3>3, <3>4 DEF FirstCounts
  <2>3. CASE saves = 0
    BY <2>1, <2>3 DEF FirstCounts
  <2>4. CASE saves # 0 /\ ~(saves = 1 /\ calm)
    BY <2>1, <2>4 DEF FirstCounts
  <2>5. QED
    BY <2>2, <2>3, <2>4
<1>5. CASE KmlSaved \/ RowOne \/ CsvSaved
  <2>1. /\ UNCHANGED <<want, kml, saves, calm>>
        /\ gui \in {"points", "csv"} /\ gui' \in {"csv", "mainloop"} /\ ~CountOne
    BY <1>5 DEF KmlSaved, RowOne, CsvSaved, CountOne
  <2>2. QED
    BY <2>1, FirstCountsKept
<1>6. CASE ~Save /\ ~Saving
  <2>1. ~CountOne /\ saves' = saves /\ want' = want /\ kml' = kml /\ i' = i /\ (calm' => calm)
        /\ (gui' = gui \/ (gui \in {"mainloop", "joining"} /\ gui' \in {"mainloop", "joining"}))
    <3>1. ASSUME NEW m \in Feed, Receive(m) \/ Garbled(m)
          PROVE  UNCHANGED <<export, calm, gui>>
      BY <3>1 DEF Receive, Garbled
    <3>2. CASE Adding
      BY <1>6, <3>2 DEF Adding, AppendData, SortBegin, SortEnd, export, Saving
    <3>3. CASE Draw \/ LoopEnd \/ Connect \/ Pause \/ UNCHANGED vars
      BY <1>6, <3>3 DEF Draw, LoopEnd, Connect, Pause, vars, export, Saving
    <3>4. CASE Disconnect \/ Disconnected
      BY <1>6, <3>4 DEF Disconnect, Disconnected, MainLoop, export, Saving
    <3>5. CASE Start
      BY <1>6, <3>5 DEF Start, export, Saving
    <3>6. ASSUME NEW f \in Files, Import(f) PROVE UNCHANGED <<export, gui>> /\ calm' = FALSE
      BY <3>6 DEF Import
    <3>7. QED
      BY <1>6, <3>1, <3>2, <3>3, <3>4, <3>5, <3>6 DEF Next, export, Saving
  <2>2. QED
    BY <2>1, FirstCountsKept
<1>7. QED
  BY <1>1, <1>2, <1>3, <1>4, <1>5, <1>6 DEF Saving

-----------------------------------------------------------------------------

\* Only an export that has begun is under way.
LEMMA SavingCounts == ASSUME Skips, Saving, CollectorTypes PROVE saves > 0
<1>1. gui \in {"counting", "points", "csv"}
  BY DEF Saving, CountOne, Counted, PointOne, KmlSaved, RowOne, CsvSaved
<1>2. QED
  BY <1>1 DEF Skips, Exporting

\* How far the export is, whatever the packet numbers are.
LEMMA UndisturbedOK == Spec => [](CollectorInvariant /\ Undisturbed)
<1>1. CollectorInvariant /\ Undisturbed /\ [Next]_vars => Undisturbed'
  <2> SUFFICES ASSUME CollectorInvariant, Undisturbed, [Next]_vars PROVE Undisturbed'
    OBVIOUS
  <2>1. CollectorTypes /\ Skips
    BY DEF CollectorInvariant
  <2>2. CASE Save \/ Saving
    BY <2>1, <2>2, SavingCounts, UndisturbedExport
  <2>3. CASE ~Save /\ ~Saving
    BY <2>1, <2>3, UndisturbedElsewhere
  <2>4. QED
    BY <2>2, <2>3
<1>2. QED
  BY <1>1, UndisturbedInit, CollectorInvariantOK, PTL DEF Spec

\* The files are complete.
Complete ==
    /\ outcome = "saved"
    /\ [k \in DOMAIN kml |-> kml[k][1]] = Picked(want, {j \in DOMAIN want : IsOK(want[j])})
    /\ rows = want

\* genKML and genCSV: an export that no packet disturbs, of a list that begins
\* with measurements, succeeds, with a point for each measurement and a row for
\* each packet, in order, whatever the packet numbers are.
THEOREM UndisturbedSaveSucceeds ==
    Spec => [](MainLoop /\ saves > 0 /\ calm /\ IsOK(want[1]) => Complete)
<1>1. CollectorInvariant /\ Undisturbed
        => (MainLoop /\ saves > 0 /\ calm /\ IsOK(want[1]) => Complete)
  <2> SUFFICES ASSUME CollectorInvariant, Undisturbed, MainLoop, saves > 0, calm, IsOK(want[1])
               PROVE  Complete
    OBVIOUS
  <2>1. {j \in DOMAIN want : IsOK(want[j])} = Good(want, packets, Len(want))
    <3>1. DOMAIN want = 1..Len(want)
      BY DEF CollectorInvariant, CollectorTypes
    <3>2. QED
      BY <3>1 DEF Good, IsOK
  <2>2. QED
    BY <2>1 DEF Undisturbed, Progress, Points, MainLoop, IsOK, Complete
<1>2. QED
  BY <1>1, UndisturbedOK, PTL

\* The first counts are right while the export goes on.
LEMMA FirstCountsOK == ASSUME NumbersTell PROVE Spec => []FirstCounts
<1>1. CollectorInvariant /\ Undisturbed /\ FirstCounts /\ [Next]_vars => FirstCounts'
  BY FirstCountsNext DEF CollectorInvariant
<1>2. QED
  BY <1>1, FirstCountsInit, UndisturbedOK, PTL DEF Spec

\* genKML, besides: each point of the first export tells how many packets were
\* skipped after it, if a packet without data has a number of its own.
THEOREM UndisturbedSave == ASSUME NumbersTell PROVE Spec => []UndisturbedSaveIsComplete
<1>1. CollectorInvariant /\ Undisturbed /\ FirstCounts
        => (saves = 1 /\ outcome = "saved" /\ calm => SkipsCounted)
  <2> SUFFICES ASSUME CollectorInvariant, Undisturbed, FirstCounts,
                      saves = 1, outcome = "saved", calm
               PROVE  SkipsCounted
    OBVIOUS
  <2>1. CollectorTypes /\ Once /\ Len(want) \in Nat
    BY DEF CollectorInvariant, CollectorTypes
  <2>2. Progress /\ gui # "counting"
    BY DEF Undisturbed, Progress
  <2>3. Distinct(want)
    BY <2>1, <2>2 DEF Progress, Once, Current
  <2>4. \A k \in 1..Len(kml) : \E a \in Good(want, packets, Len(want)) :
           kml[k] = <<want[a], Following(want, packets, a, Len(want))>>
    BY <2>2 DEF FirstCounts
  <2>5. \A a \in 1..Len(want) :
           SkippedAfter(want[a], want) = Following(want, packets, a, Len(want))
    BY <2>1, <2>3, SkippedAfterIs
  <2>6. Good(want, packets, Len(want)) \in SUBSET (1..Len(want))
    BY DEF Good
  <2>7. DOMAIN kml = 1..Len(kml)
    BY <2>1 DEF CollectorTypes
  <2>8. ASSUME NEW k \in 1..Len(kml) PROVE kml[k][2] = SkippedAfter(kml[k][1], want)
    <3>1. PICK a \in Good(want, packets, Len(want)) :
             kml[k] = <<want[a], Following(want, packets, a, Len(want))>>
      BY <2>4
    <3>2. kml[k][1] = want[a] /\ kml[k][2] = Following(want, packets, a, Len(want))
      BY <3>1
    <3>3. QED
      BY <2>5, <2>6, <3>2
  <2>9. QED
    BY <2>7, <2>8 DEF SkipsCounted
<1>2. (MainLoop /\ saves > 0 /\ calm /\ IsOK(want[1]) => Complete)
      /\ (saves = 1 /\ outcome = "saved" /\ calm => SkipsCounted) => UndisturbedSaveIsComplete
  BY DEF UndisturbedSaveIsComplete, Complete
<1>3. QED
  BY <1>1, <1>2, FirstCountsOK, UndisturbedOK, UndisturbedSaveSucceeds, PTL

=============================================================================
