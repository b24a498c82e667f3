-------------------------- MODULE IgmpTimersProofs --------------------------
(***************************************************************************)
(* The callout queue of the multicast proxy implements independent timers  *)
(* (Timers), for any delays, any number of pending timers and any jump of  *)
(* the clock.                                                              *)
(*                                                                         *)
(* The mapping counts nodes, so the steps are about cardinalities: a node  *)
(* set adds one to the counts from its delay on, ageing cuts the counts in *)
(* two, and running an event takes one away.                               *)
(***************************************************************************)
EXTENDS IgmpProxyProofs, FiniteSetTheorems

-----------------------------------------------------------------------------
(* Counting positions.                                                     *)

LEMMA PositionsFinite ==
    ASSUME NEW n \in Nat, NEW S, S \subseteq 1 .. n
    PROVE  IsFiniteSet(S) /\ Cardinality(S) \in Nat
<1>1. IsFiniteSet(1 .. n)
    BY FS_Interval
<1>2. IsFiniteSet(S)
    BY <1>1, FS_Subset
<1> QED
    BY <1>2, FS_CardinalityType

LEMMA SameSize ==
    ASSUME NEW S, IsFiniteSet(S), NEW R, NEW f \in [S -> R],
           \A x, y \in S : f[x] = f[y] => x = y, \A y \in R : \E x \in S : f[x] = y
    PROVE  Cardinality(R) = Cardinality(S)
<1>1. f \in Bijection(S, R)
    BY DEF Bijection, Injection, Surjection, IsInjective
<1>2. ExistsBijection(S, R)
    BY <1>1 DEF ExistsBijection
<1> QED
    BY <1>2, FS_Bijection

(* R are the positions S after room was made at position k + 1 ...         *)
Skips(n, k, S, R) ==
    /\ k <= n /\ S \subseteq 1 .. n /\ R \subseteq 1 .. n + 1 /\ k + 1 \notin R
    /\ \A i \in 1 .. n : i <= k => (i \in S <=> i \in R)
    /\ \A i \in 1 .. n : i > k => (i \in S <=> i + 1 \in R)

(* ... and as many.                                                        *)
LEMMA SkipOne ==
    ASSUME NEW n \in Nat, NEW k \in Nat, NEW S, NEW R, Skips(n, k, S, R)
    PROVE  Cardinality(R) = Cardinality(S)
<1> USE DEF Skips
<1> DEFINE f == [i \in S |-> IF i <= k THEN i ELSE i + 1]
<1>1. f \in [S -> R]
    OBVIOUS
<1>2. \A x, y \in S : f[x] = f[y] => x = y
    OBVIOUS
<1>3. ASSUME NEW y \in R PROVE \E x \in S : f[x] = y
    <2>1. CASE y <= k
        <3>1. y \in S
            BY <2>1
        <3> QED
            BY <2>1, <3>1
    <2>2. CASE y > k
        <3>1. PICK x \in 1 .. n : x + 1 = y /\ x > k
            <4>1. y - 1 \in 1 .. n /\ (y - 1) + 1 = y /\ y - 1 > k
                BY <2>2
            <4> QED
                BY <4>1
        <3>2. x \in S
            BY <3>1
        <3> QED
            BY <3>1, <3>2
    <2> QED
        BY <2>1, <2>2
<1>4. IsFiniteSet(S)
    BY PositionsFinite
<1> HIDE DEF f
<1> QED
    BY <1>1, <1>2, <1>3, <1>4, SameSize

(* R are the positions S, all moved by k, and as many.                     *)
Moves(m, k, S, R) ==
    /\ S \subseteq 1 .. m /\ R \subseteq k + 1 .. k + m
    /\ \A i \in 1 .. m : i \in S <=> k + i \in R

LEMMA MoveAll ==
    ASSUME NEW m \in Nat, NEW k \in Nat, NEW S, NEW R, Moves(m, k, S, R)
    PROVE  Cardinality(R) = Cardinality(S)
<1> USE DEF Moves
<1> DEFINE f == [i \in S |-> k + i]
<1>1. f \in [S -> R] /\ \A x, y \in S : f[x] = f[y] => x = y
    OBVIOUS
<1>2. ASSUME NEW y \in R PROVE \E x \in S : f[x] = y
    <2>1. PICK x \in 1 .. m : k + x = y
        <3>1. y - k \in 1 .. m /\ k + (y - k) = y
            OBVIOUS
        <3> QED
            BY <3>1
    <2> QED
        BY <2>1
<1>3. IsFiniteSet(S)
    BY PositionsFinite
<1> HIDE DEF f
<1> QED
    BY <1>1, <1>2, <1>3, SameSize

LEMMA OnePlace ==
    ASSUME NEW n \in Nat, NEW S, S \subseteq 1 .. n, NEW p
    PROVE  /\ Cardinality(S \ {p}) \in Nat
           /\ Cardinality(S) = Cardinality(S \ {p}) + IF p \in S THEN 1 ELSE 0
<1> DEFINE R == S \ {p}
<1>1. IsFiniteSet(R) /\ Cardinality(R) \in Nat
    BY PositionsFinite
<1>2. CASE p \in S
    <2>1. S = R \cup {p} /\ p \notin R
        BY <1>2
    <2> HIDE DEF R
    <2>2. Cardinality(S) = Cardinality(R) + 1
        BY <1>1, <2>1, FS_AddElement
    <2> QED
        BY <1>1, <1>2, <2>2 DEF R
<1>3. CASE p \notin S
    <2>1. S = R
        BY <1>3
    <2> HIDE DEF R
    <2>2. Cardinality(S) = Cardinality(R) + 0
        BY <1>1, <2>1
    <2> QED
        BY <1>1, <1>3, <2>2 DEF R
<1> QED
    BY <1>2, <1>3

-----------------------------------------------------------------------------
(* What the operations of the queue do to the counts.                      *)

Count(q, x, s) == Cardinality(Soon(q, x, s))

LEMMA CountType ==
    ASSUME NEW E, NEW q \in Queues(E), NEW x, NEW s \in Nat
    PROVE  Soon(q, x, s) \subseteq 1 .. Len(q) /\ Count(q, x, s) \in Nat
<1>1. Len(q) \in Nat /\ Soon(q, x, s) \subseteq 1 .. Len(q)
    BY NodeTypes DEF Soon
<1> QED
    BY <1>1, PositionsFinite DEF Count

(* timer_setTimer adds one timer to the counts from its delay on.          *)
LEMMA SetTimerCounts ==
    ASSUME NEW E, NEW q \in Queues(E), NEW d \in Nat, NEW e \in E, NEW x, NEW s \in Nat
    PROVE  Count(timer_setTimer(q, d, e), x, s)
               = Count(q, x, s) + IF x = e /\ d <= s THEN 1 ELSE 0
<1> SUFFICES ASSUME NEW k \in Nat, k = NodesWithin(q, d), NEW r, r = timer_setTimer(q, d, e)
             PROVE  Count(r, x, s) = Count(q, x, s) + IF x = e /\ d <= s THEN 1 ELSE 0
    <2>1. NodesWithin(q, d) \in Nat
        BY WithinFacts, NodeTypes
    <2> QED
        BY <2>1
<1> DEFINE n == Len(q)
           S == Soon(q, x, s)
           R == Soon(r, x, s)
<1>1. /\ r \in Queues(E) /\ Len(r) = n + 1 /\ k <= n /\ n \in Nat
      /\ r[k + 1].ev = e /\ Offsets(r)[k + 1] = d
      /\ \A i \in 1 .. k : r[i].ev = q[i].ev /\ Offsets(r)[i] = Offsets(q)[i]
      /\ \A i \in k + 1 .. n : r[i + 1].ev = q[i].ev /\ Offsets(r)[i + 1] = Offsets(q)[i]
    BY SetTimerKeepsTimes, NodeTypes
<1>2. S \subseteq 1 .. n /\ R \subseteq 1 .. n + 1
    BY <1>1 DEF Soon
<1>3. k + 1 \in R <=> x = e /\ d <= s
    BY <1>1 DEF Soon
<1>4. \A i \in 1 .. n : i <= k => (i \in S <=> i \in R)
    BY <1>1 DEF Soon
<1>5. \A i \in 1 .. n : i > k => (i \in S <=> i + 1 \in R)
    <2> SUFFICES ASSUME NEW i \in 1 .. n, i > k PROVE i \in S <=> i + 1 \in R
        OBVIOUS
    <2>1. i \in k + 1 .. n /\ i + 1 \in 1 .. Len(r)
        BY <1>1
    <2>2. r[i + 1].ev = q[i].ev /\ Offsets(r)[i + 1] = Offsets(q)[i]
        BY <1>1, <2>1
    <2> QED
        BY <2>1, <2>2 DEF Soon
<1> HIDE DEF n, S, R
<1>6. Cardinality(R \ {k + 1}) = Cardinality(S)
    <2> DEFINE P == R \ {k + 1}
    <2>1. P \subseteq 1 .. n + 1 /\ k + 1 \notin P
        BY <1>2
    <2>2. \A i \in 1 .. n : i <= k => (i \in S <=> i \in P)
        BY <1>1, <1>4
    <2>3. \A i \in 1 .. n : i > k => (i \in S <=> i + 1 \in P)
        BY <1>1, <1>5
    <2> HIDE DEF P
    <2>4. Skips(n, k, S, P)
        BY <1>1, <1>2, <2>1, <2>2, <2>3 DEF Skips
    <2>5. Cardinality(P) = Cardinality(S)
        BY <1>1, <2>4, SkipOne
    <2> QED
        BY <2>5 DEF P
<1>7. Cardinality(R) = Cardinality(R \ {k + 1}) + IF k + 1 \in R THEN 1 ELSE 0
    <2>1. n + 1 \in Nat
        BY <1>1
    <2> QED
        BY <1>2, <2>1, OnePlace
<1> QED
    BY <1>3, <1>6, <1>7 DEF Count, S, R

(* age_callout_queue cuts the counts at the elapsed seconds.               *)
LEMMA AgeingCounts ==
    ASSUME NEW E, NEW q \in Queues(E), NEW t \in Nat, NEW x
    PROVE  /\ Cardinality(Occurs(Expired(q, t), x)) = Count(q, x, t)
           /\ \A s \in Nat : Count(Remaining(q, t), x, s) = Count(q, x, s + t) - Count(q, x, t)
<1> SUFFICES ASSUME NEW k \in Nat, k = NodesWithin(q, t), NEW r, r = Remaining(q, t),
                    NEW z, z = Expired(q, t), NEW s \in Nat
             PROVE  /\ Cardinality(Occurs(z, x)) = Count(q, x, t)
                    /\ Count(r, x, s) = Count(q, x, s + t) - Count(q, x, t)
    <2>1. NodesWithin(q, t) \in Nat /\ 0 \in Nat
        BY WithinFacts, NodeTypes
    <2> QED
        BY <2>1
<1> DEFINE n == Len(q)
           A == Soon(q, x, s + t)
           B == Soon(q, x, t)
           C == Soon(r, x, s)
           D == A \ B
<1>1. /\ k <= n /\ n \in Nat
      /\ \A i \in 1 .. n : i <= k <=> Offsets(q)[i] <= t
      /\ Len(z) = k /\ \A i \in 1 .. k : z[i] = q[i].ev
      /\ r \in Queues(E) /\ Len(r) = n - k
      /\ \A i \in 1 .. n - k : r[i].ev = q[k + i].ev /\ Offsets(r)[i] = Offsets(q)[k + i] - t
    <2>1. Ages(E, q, t, k)
        BY AgeingFacts
    <2> QED
        BY <2>1, NodeTypes DEF Ages
<1>2. \A i \in 1 .. n : Offsets(q)[i] \in Nat
    BY <1>1, OffsetsFacts
<1>3. Occurs(z, x) = B
    BY <1>1 DEF Occurs, Soon
<1>4. A \subseteq 1 .. n /\ B \subseteq A
    BY <1>1, <1>2 DEF Soon
<1>5. D \subseteq k + 1 .. k + (n - k)
    BY <1>1, <1>2 DEF Soon
<1>6. ASSUME NEW i \in 1 .. n - k PROVE i \in C <=> k + i \in D
    <2>1. k + i \in 1 .. n /\ ~(k + i <= k)
        BY <1>1
    <2>2. Offsets(q)[k + i] \in Nat /\ Offsets(q)[k + i] > t
        BY <1>1, <1>2, <2>1
    <2>3. r[i].ev = q[k + i].ev /\ Offsets(r)[i] = Offsets(q)[k + i] - t
        BY <1>1
    <2>4. Offsets(r)[i] <= s <=> Offsets(q)[k + i] <= s + t
        BY <2>2, <2>3
    <2> QED
        BY <1>1, <2>1, <2>2, <2>3, <2>4 DEF Soon
<1>7. C \subseteq 1 .. n - k /\ n - k \in Nat
    BY <1>1 DEF Soon
<1> HIDE DEF n, A, B, C
<1>8. Cardinality(D) = Cardinality(C)
    <2> HIDE DEF D
    <2>1. Moves(n - k, k, C, D)
        BY <1>5, <1>6, <1>7 DEF Moves
    <2> QED
        BY <1>7, <2>1, MoveAll
<1>9. Cardinality(A) = Cardinality(D) + Cardinality(B)
    <2>1. /\ IsFiniteSet(D) /\ IsFiniteSet(B)
          /\ Cardinality(D) \in Nat /\ Cardinality(B) \in Nat
        <3>1. D \subseteq 1 .. n /\ B \subseteq 1 .. n /\ n \in Nat
            BY <1>1, <1>4
        <3> HIDE DEF D
        <3> QED
            BY <3>1, PositionsFinite
    <2>2. A = D \cup B /\ D \cap B = {}
        BY <1>4
    <2> HIDE DEF D
    <2>3. Cardinality(A) = Cardinality(D) + Cardinality(B) - Cardinality({})
        BY <2>1, <2>2, FS_Union
    <2> QED
        BY <2>1, <2>3, FS_EmptySet
<1>10. Cardinality(B) \in Nat /\ Cardinality(C) \in Nat
    <2>1. B \subseteq 1 .. n /\ n \in Nat
        BY <1>1, <1>4
    <2> QED
        BY <1>7, <2>1, PositionsFinite
<1> HIDE DEF D
<1>11. Cardinality(C) = Cardinality(A) - Cardinality(B)
    BY <1>8, <1>9, <1>10
<1> QED
    BY <1>3, <1>11 DEF Count, A, B, C

(* Running the first event takes one occurrence of it.                     *)
LEMMA TailCounts ==
    ASSUME NEW E, NEW d \in Seq(E), d # <<>>, NEW x
    PROVE  /\ Cardinality(Occurs(Tail(d), x)) \in Nat
           /\ Cardinality(Occurs(d, x))
                 = Cardinality(Occurs(Tail(d), x)) + IF x = Head(d) THEN 1 ELSE 0
<1> DEFINE m == Len(Tail(d))
           S == Occurs(Tail(d), x)
           R == Occurs(d, x)
           P == R \ {1}
<1>1. /\ m \in Nat /\ Len(d) = m + 1 /\ d[1] = Head(d)
      /\ \A i \in 1 .. m : Tail(d)[i] = d[i + 1]
    BY EmptySeq, HeadTailProperties
<1>2. S \subseteq 1 .. m /\ R \subseteq 1 .. m + 1 /\ P \subseteq 1 .. m + 1 /\ 0 + 1 \notin P
    BY <1>1 DEF Occurs
<1>3. 1 \in R <=> x = Head(d)
    BY <1>1 DEF Occurs
<1>4. \A i \in 1 .. m : i > 0 => (i \in S <=> i + 1 \in P)
    BY <1>1 DEF Occurs
<1> HIDE DEF m, S, R
<1>5. Cardinality(P) = Cardinality(S)
    <2>1. \A i \in 1 .. m : i <= 0 => (i \in S <=> i \in P)
        BY <1>1
    <2>2. 0 \in Nat /\ 0 <= m
        BY <1>1
    <2> HIDE DEF P
    <2>3. Skips(m, 0, S, P)
        BY <1>2, <1>4, <2>1, <2>2 DEF Skips
    <2> QED
        BY <1>1, <2>2, <2>3, SkipOne
<1>6. Cardinality(R) = Cardinality(P) + IF 1 \in R THEN 1 ELSE 0
    <2>1. m + 1 \in Nat
        BY <1>1
    <2> QED
        BY <1>2, <2>1, OnePlace
<1>7. Cardinality(S) \in Nat
    BY <1>1, <1>2, PositionsFinite
<1> HIDE DEF P
<1> QED
    BY <1>3, <1>5, <1>6, <1>7 DEF S, R

-----------------------------------------------------------------------------
(* Queues whose timers have at most QueryInterval seconds to go.           *)

Bounded(q) == \A i \in 1 .. Len(q) : Offsets(q)[i] <= QueryInterval

LEMMA SetTimerBounded ==
    ASSUME NEW E, NEW q \in Queues(E), NEW d \in 0 .. QueryInterval, NEW e \in E, Bounded(q)
    PROVE  Bounded(timer_setTimer(q, d, e))
<1> SUFFICES ASSUME NEW k \in Nat, k = NodesWithin(q, d), NEW r, r = timer_setTimer(q, d, e)
             PROVE  Bounded(r)
    <2>1. NodesWithin(q, d) \in Nat
        BY ProxyAssumption, WithinFacts, NodeTypes
    <2> QED
        BY <2>1
<1>1. /\ Len(r) = Len(q) + 1 /\ k <= Len(q) /\ Len(q) \in Nat
      /\ Offsets(r)[k + 1] = d
      /\ \A i \in 1 .. k : Offsets(r)[i] = Offsets(q)[i]
      /\ \A i \in k + 1 .. Len(q) : Offsets(r)[i + 1] = Offsets(q)[i]
    <2>1. d \in Nat
        BY ProxyAssumption
    <2> QED
        BY <2>1, SetTimerKeepsTimes, NodeTypes
<1>2. ASSUME NEW j \in 1 .. Len(q) + 1 PROVE Offsets(r)[j] <= QueryInterval
    <2>1. CASE j <= k
        BY <1>1, <2>1 DEF Bounded
    <2>2. CASE j = k + 1
        BY <1>1, <2>2, ProxyAssumption
    <2>3. CASE j > k + 1
        <3>1. PICK i \in k + 1 .. Len(q) : i + 1 = j
            <4>1. j - 1 \in k + 1 .. Len(q) /\ (j - 1) + 1 = j
                <5>1. Len(q) \in Nat
                    BY <1>1
                <5> QED
                    BY ONLY <2>3, <5>1, k \in Nat, j \in 1 .. Len(q) + 1
            <4> QED
                BY <4>1
        <3>2. i \in 1 .. Len(q)
            <4>1. Len(q) \in Nat
                BY <1>1
            <4> QED
                BY ONLY <4>1, k \in Nat, i \in k + 1 .. Len(q)
        <3>3. Offsets(r)[i + 1] = Offsets(q)[i]
            BY <1>1
        <3>4. Offsets(q)[i] <= QueryInterval
            BY <3>2 DEF Bounded
        <3> QED
            BY <3>1, <3>3, <3>4
    <2> QED
        BY <1>1, <2>1, <2>2, <2>3
<1> QED
    BY <1>1, <1>2 DEF Bounded

LEMMA AgeingBounded ==
    ASSUME NEW E, NEW q \in Queues(E), NEW t \in Nat, Bounded(q)
    PROVE  Bounded(Remaining(q, t))
<1> SUFFICES ASSUME NEW k \in Nat, k = NodesWithin(q, t), NEW r, r = Remaining(q, t)
             PROVE  Bounded(r)
    <2>1. NodesWithin(q, t) \in Nat
        BY WithinFacts, NodeTypes
    <2> QED
        BY <2>1
<1>1. /\ k <= Len(q) /\ Len(q) \in Nat /\ Len(r) = Len(q) - k
      /\ \A i \in 1 .. Len(q) - k : Offsets(r)[i] = Offsets(q)[k + i] - t
    <2>1. Ages(E, q, t, k)
        BY AgeingFacts
    <2> QED
        BY <2>1, NodeTypes DEF Ages
<1>2. ASSUME NEW i \in 1 .. Len(q) - k PROVE Offsets(r)[i] <= QueryInterval
    <2>1. k + i \in 1 .. Len(q) /\ k + i \in 0 .. Len(q)
        BY <1>1
    <2>2. Offsets(q)[k + i] \in Nat /\ Offsets(q)[k + i] <= QueryInterval
        BY <2>1, OffsetsFacts DEF Bounded
    <2> QED
        BY <1>1, <2>2, ProxyAssumption
<1> QED
    BY <1>1, <1>2 DEF Bounded

(* No count grows beyond the longest delay.                                *)
LEMMA Capped ==
    ASSUME NEW E, NEW q \in Queues(E), Bounded(q), NEW x, NEW s \in Nat, s > QueryInterval
    PROVE  Count(q, x, s) = Count(q, x, QueryInterval)
<1>1. \A i \in 1 .. Len(q) : Offsets(q)[i] \in Nat /\ Offsets(q)[i] <= QueryInterval
    BY OffsetsFacts, NodeTypes DEF Bounded
<1>2. Soon(q, x, s) = Soon(q, x, QueryInterval)
    BY <1>1, ProxyAssumption DEF Soon
<1> QED
    BY <1>2 DEF Count

(* From q to r timers were added, and none of q's changed.                 *)
Gains(q, r) ==
    /\ q \in Queues(Events) /\ r \in Queues(Events)
    /\ Bounded(q) => Bounded(r)
    /\ \A x \in Events, s, t \in Nat :
           s <= t => /\ Count(r, x, s) - Count(q, x, s) >= 0
                     /\ Count(r, x, s) - Count(q, x, s) <= Count(r, x, t) - Count(q, x, t)

LEMMA GainsNothing == ASSUME NEW q \in Queues(Events) PROVE Gains(q, q)
    BY CountType DEF Gains

LEMMA GainsMore ==
    ASSUME NEW p, NEW q, NEW r, Gains(p, q), Gains(q, r)
    PROVE  Gains(p, r)
<1>1. p \in Queues(Events) /\ q \in Queues(Events) /\ r \in Queues(Events)
    BY DEF Gains
<1>2. ASSUME NEW x \in Events, NEW s \in Nat, NEW t \in Nat, s <= t
      PROVE  /\ Count(r, x, s) - Count(p, x, s) >= 0
             /\ Count(r, x, s) - Count(p, x, s) <= Count(r, x, t) - Count(p, x, t)
    <2>1. /\ Count(p, x, s) \in Nat /\ Count(q, x, s) \in Nat /\ Count(r, x, s) \in Nat
          /\ Count(p, x, t) \in Nat /\ Count(q, x, t) \in Nat /\ Count(r, x, t) \in Nat
        BY <1>1, CountType
    <2>2. /\ Count(q, x, s) - Count(p, x, s) >= 0
          /\ Count(q, x, s) - Count(p, x, s) <= Count(q, x, t) - Count(p, x, t)
        BY <1>2 DEF Gains
    <2>3. /\ Count(r, x, s) - Count(q, x, s) >= 0
          /\ Count(r, x, s) - Count(q, x, s) <= Count(r, x, t) - Count(q, x, t)
        BY <1>2 DEF Gains
    <2> QED
        BY <2>1, <2>2, <2>3
<1> QED
    BY <1>1, <1>2 DEF Gains

LEMMA GainsOne ==
    ASSUME NEW q \in Queues(Events), NEW d \in 0 .. QueryInterval, NEW e \in Events
    PROVE  Gains(q, timer_setTimer(q, d, e))
<1> DEFINE r == timer_setTimer(q, d, e)
<1>1. r \in Queues(Events) /\ d \in Nat
    BY TimerAdds, ProxyAssumption
<1>2. Bounded(q) => Bounded(r)
    BY SetTimerBounded
<1>3. \A x \in Events, s \in Nat : /\ Count(q, x, s) \in Nat
                                   /\ Count(r, x, s) = Count(q, x, s) + IF x = e /\ d <= s THEN 1 ELSE 0
    BY <1>1, CountType, SetTimerCounts
<1> HIDE DEF r
<1>4. ASSUME NEW x \in Events, NEW s \in Nat, NEW t \in Nat, s <= t
      PROVE  /\ Count(r, x, s) - Count(q, x, s) >= 0
             /\ Count(r, x, s) - Count(q, x, s) <= Count(r, x, t) - Count(q, x, t)
    <2> DEFINE a == Count(q, x, s)
               b == Count(q, x, t)
    <2>1. a \in Nat /\ b \in Nat
        BY <1>3
    <2>2. /\ Count(r, x, s) = a + IF x = e /\ d <= s THEN 1 ELSE 0
          /\ Count(r, x, t) = b + IF x = e /\ d <= t THEN 1 ELSE 0
        BY <1>3
    <2> HIDE DEF a, b
    <2>3. d <= s => d <= t
        BY <1>1, <1>4
    <2>4. /\ Count(r, x, s) - a >= 0
          /\ Count(r, x, s) - a <= Count(r, x, t) - b
        BY <2>1, <2>2, <2>3
    <2> QED
        BY <2>4 DEF a, b
<1> QED
    BY <1>1, <1>2, <1>4 DEF Gains, r

LEMMA QueryTimersGain ==
    ASSUME NEW q \in Queues(Events), NEW c
    PROVE  Gains(q, QueryTimers(q, c))
<1> DEFINE a == timer_setTimer(q, AgeDelay, Event("age", 0))
           b == timer_setTimer(a, StartupInterval, Event("general", 0))
           d == timer_setTimer(a, QueryInterval, Event("general", 0))
           e == timer_setTimer(d, ProbeDelay, Event("probe", 0))
<1>0. /\ AgeDelay \in 0 .. QueryInterval /\ StartupInterval \in 0 .. QueryInterval
      /\ QueryInterval \in 0 .. QueryInterval /\ ProbeDelay \in 0 .. QueryInterval
    BY ProxyAssumption, DelayOrder
<1>1. Gains(q, a)
    BY <1>0, GainsOne, EventTypes
<1>2. a \in Queues(Events)
    BY <1>1 DEF Gains
<1>3. QueryTimers(q, c) = IF c > 0 THEN b ELSE e
    BY DEF QueryTimers
<1> HIDE DEF a
<1>4. Gains(a, b) /\ Gains(a, d)
    BY <1>0, <1>2, GainsOne, EventTypes
<1>5. d \in Queues(Events)
    BY <1>4 DEF Gains
<1> HIDE DEF b, d
<1>6. Gains(d, e)
    BY <1>0, <1>5, GainsOne, EventTypes
<1> HIDE DEF e
<1>7. Gains(q, b)
    BY <1>1, <1>4, GainsMore
<1>8. Gains(a, e)
    BY <1>4, <1>6, GainsMore
<1>9. Gains(q, e)
    BY <1>1, <1>8, GainsMore
<1> QED
    BY <1>3, <1>7, <1>9

-----------------------------------------------------------------------------
(* What a step of the daemon does to its timers.                           *)

BoundInv == Bounded(queue) /\ (Ended => queue = <<>>)

Sets == Gains(queue, queue') /\ due' = due

Runs1 == Gains(queue, queue') /\ due # <<>> /\ due' = Tail(due)

Ageing(n) == due = <<>> /\ queue' = Remaining(queue, n) /\ due' = Expired(queue, n)

Drops == queue' = <<>> /\ due' = <<>>

TimerStep == Sets \/ Runs1 \/ Drops \/ \E n \in 0 .. MaxPassed : Ageing(n)

LEMMA FirstTimer ==
    ASSUME NEW q \in Queues(Events), q # <<>>, Bounded(q)
    PROVE  timer_nextTimer(q) \in 0 .. QueryInterval
<1>1. Len(q) \in Nat /\ Len(q) # 0
    BY DEF Queues
<1>2. 1 \in 1 .. Len(q) /\ 1 - 1 = 0
    BY <1>1
<1>3. q[1].time \in Nat /\ Offsets(q)[1] = q[1].time
    BY <1>2, NodeTypes, OffsetsFacts
<1> QED
    BY <1>2, <1>3, ProxyAssumption DEF Bounded, timer_nextTimer

LEMMA StepTimers ==
    ASSUME QueueInv, BoundInv, [Next]_vars
    PROVE  TimerStep /\ (Ended' => queue' = <<>>)
<1>0. queue \in Queues(Events) /\ Gains(queue, queue)
    BY GainsNothing DEF QueueInv
<1>1. ASSUME UNCHANGED <<queue, due>>, Ended' => Ended
      PROVE  TimerStep /\ (Ended' => queue' = <<>>)
    BY <1>0, <1>1 DEF TimerStep, Sets, BoundInv
<1>2. CASE UNCHANGED vars
    BY <1>1, <1>2 DEF vars, loop, timers, Ended
<1>3. ASSUME NEW n \in 0 .. MaxPassed, AgeBy(n), pc \in {"select", "age"}
      PROVE  TimerStep /\ (Ended' => queue' = <<>>)
    BY <1>3 DEF AgeBy, TimerStep, Ageing, QueueInv, Ended
<1>4. CASE TimedOut
    <2>1. timer_nextTimer(queue) \in 0 .. QueryInterval
        BY <1>0, <1>4, FirstTimer DEF TimedOut, BoundInv
    <2>2. timer_nextTimer(queue) \in 0 .. MaxPassed
        BY <2>1, ProxyAssumption DEF MaxPassed
    <2> QED
        BY <1>3, <1>4, <2>2 DEF TimedOut
<1>5. CASE \E n \in 0 .. MaxJump : Age(n)
    <2>1. \A n \in 0 .. MaxJump : n \in 0 .. MaxPassed
        BY ProxyAssumption DEF MaxPassed
    <2> QED
        BY <1>3, <1>5, <2>1 DEF Age
<1>6. \A g \in Groups : Gains(queue, Timer("last", g, LastMemberInterval))
    <2>1. LastMemberInterval \in 0 .. QueryInterval
        BY ProxyAssumption, DelayOrder
    <2> QED
        BY <1>0, <2>1, GainsOne, EventTypes DEF Timer
<1>7. CASE \E h \in Hosts, g \in Groups : acceptLeaveMessage(h, g)
    <2>1. due' = due /\ pc' = "age" /\ Gains(queue, queue')
        BY <1>0, <1>6, <1>7 DEF acceptLeaveMessage, StartQueries
    <2> QED
        BY <2>1 DEF TimerStep, Sets, Ended
<1>8. ASSUME Gains(queue, queue'), due # <<>>, due' = Tail(due), ~Ended'
      PROVE  TimerStep /\ (Ended' => queue' = <<>>)
    BY <1>8 DEF TimerStep, Runs1
<1>9. CASE sendGeneralMembershipQuery
    <2>1. Gains(queue, queue')
        BY <1>0, <1>9, QueryTimersGain DEF sendGeneralMembershipQuery
    <2>2. due # <<>> /\ due' = Tail(due) /\ ~Ended'
        BY <1>9 DEF sendGeneralMembershipQuery, Runs, loop, Ended
    <2> QED
        BY <1>8, <2>1, <2>2
<1>10. CASE \E g \in Groups : sendGroupSpecificMemberQuery(g)
    <2>1. Gains(queue, queue')
        BY <1>0, <1>6, <1>10 DEF sendGroupSpecificMemberQuery
    <2>2. due # <<>> /\ due' = Tail(due) /\ ~Ended'
        BY <1>10 DEF sendGroupSpecificMemberQuery, Runs, loop, Ended
    <2> QED
        BY <1>8, <2>1, <2>2
<1>11. CASE RunProbe
    <2>1. queue' = queue /\ due # <<>> /\ due' = Tail(due) /\ ~Ended'
        BY <1>11 DEF RunProbe, Runs, loop, Ended
    <2> QED
        BY <1>0, <1>8, <2>1
<1>12. CASE AgingEnds
    <2>1. queue' = queue /\ due # <<>> /\ due' = Tail(due) /\ ~Ended'
        BY <1>12 DEF AgingEnds, QueueInv, Ended
    <2> QED
        BY <1>0, <1>8, <2>1
<1>13. CASE WriteThroughNull \/ igmpProxyCleanUp
    <2>1. queue' = <<>> /\ due' = <<>>
        BY <1>13 DEF WriteThroughNull, igmpProxyCleanUp, ProcessEnds, QueueInv
    <2> QED
        BY <2>1 DEF TimerStep, Drops
<1>14. CASE Start
    <2>1. queue = <<>> /\ pc' = "loop" /\ due' = due
        BY <1>14 DEF Start, BoundInv, Ended
    <2>2. Gains(<<>>, QueryTimers(<<>>, StartupCount)) /\ Gains(<<>>, <<>>)
        BY EmptyQueue, QueryTimersGain, GainsNothing
    <2>3. Gains(queue, queue')
        BY <1>14, <2>1, <2>2 DEF Start
    <2> QED
        BY <2>1, <2>3 DEF TimerStep, Sets, Ended
<1>15. CASE ageActiveRoutes \/ SweepEnds \/ Done \/ Loop \/ OtherPacket \/ LinkChange
    BY <1>1, <1>15 DEF ageActiveRoutes, SweepEnds, Done, Loop, OtherPacket, LinkChange,
                       loop, timers, Ended
<1>16. CASE \/ \E g \in Groups : SweepRoute(g) \/ AgeRoute(g) \/ KernelCache(g)
            \/ \E h \in Hosts, g \in Groups : acceptGroupReport(h, g)
    BY <1>1, <1>16 DEF SweepRoute, AgeRoute, KernelCache, acceptGroupReport, loop, timers, Ended
<1> QED
    BY <1>2, <1>4, <1>5, <1>7, <1>9, <1>10, <1>11, <1>12, <1>13, <1>14, <1>15, <1>16
    DEF Next, Daemon, RunEvent, Packet

LEMMA BoundStep ==
    ASSUME QueueInv, BoundInv, TimerStep, Ended' => queue' = <<>>
    PROVE  BoundInv'
<1>1. CASE Sets \/ Runs1
    BY <1>1 DEF Sets, Runs1, Gains, BoundInv
<1>2. CASE Drops
    <2>1. Bounded(<<>>)
        BY DEF Bounded
    <2> QED
        BY <1>2, <2>1 DEF Drops, BoundInv
<1>3. ASSUME NEW n \in 0 .. MaxPassed, Ageing(n) PROVE BoundInv'
    <2>1. n \in Nat
        BY ProxyAssumption DEF MaxPassed
    <2> QED
        BY <1>3, <2>1, AgeingBounded DEF Ageing, QueueInv, BoundInv
<1> QED
    BY <1>1, <1>2, <1>3 DEF TimerStep

-----------------------------------------------------------------------------
(* The same step, seen through the mapping.                                *)

LEMMA PendingNow ==
    ASSUME NEW x \in Events, NEW s \in 0 .. QueryInterval
    PROVE  Pending[x][s] = Count(queue, x, s)
    BY DEF Pending, Count

LEMMA PendingNext ==
    ASSUME NEW x \in Events, NEW s \in 0 .. QueryInterval
    PROVE  Pending'[x][s] = Count(queue', x, s)
    BY DEF Pending, Count

LEMMA PendingType ==
    ASSUME queue' \in Queues(Events)
    PROVE  Pending' \in [Events -> [0 .. QueryInterval -> Nat]]
<1>1. \A x \in Events, s \in 0 .. QueryInterval : Count(queue', x, s) \in Nat
    BY ProxyAssumption, CountType
<1>2. Pending' = [x \in Events |-> [s \in 0 .. QueryInterval |-> Count(queue', x, s)]]
    BY DEF Pending, Count
<1> QED
    BY <1>1, <1>2

LEMMA GainsAreAdded ==
    ASSUME Gains(queue, queue')
    PROVE  T!Added
<1>1. queue \in Queues(Events) /\ queue' \in Queues(Events)
    BY DEF Gains
<1>2. \A x \in Events, s \in 0 .. QueryInterval : T!New(x, s) = Count(queue', x, s) - Count(queue, x, s)
    BY PendingNow, PendingNext DEF T!New
<1>3. ASSUME NEW x \in Events PROVE T!New(x, 0) >= 0
    <2>1. 0 \in 0 .. QueryInterval /\ 0 \in Nat
        BY ProxyAssumption
    <2> QED
        BY <1>2, <2>1 DEF Gains
<1>4. ASSUME NEW x \in Events, NEW s \in 1 .. QueryInterval PROVE T!New(x, s - 1) <= T!New(x, s)
    <2>1. /\ s - 1 \in 0 .. QueryInterval /\ s \in 0 .. QueryInterval
          /\ s - 1 \in Nat /\ s \in Nat /\ s - 1 <= s
        BY ProxyAssumption
    <2> QED
        BY <1>2, <2>1 DEF Gains
<1>5. Pending' \in [Events -> [0 .. QueryInterval -> Nat]]
    BY <1>1, PendingType
<1> QED
    BY <1>3, <1>4, <1>5 DEF T!Added, T!Seconds

LEMMA NoneFires ==
    ASSUME NEW d, d = <<>>, NEW x
    PROVE  Cardinality(Occurs(d, x)) = 0
<1>1. Occurs(d, x) = {}
    BY DEF Occurs
<1> QED
    BY <1>1, FS_EmptySet

LEMMA RunIsHandled ==
    ASSUME QueueInv, Runs1
    PROVE  \E e \in Events : T!Handled(e)
<1>1. due \in Seq(Events) /\ due # <<>> /\ due' = Tail(due)
    BY DEF QueueInv, Runs1
<1>2. Head(due) \in Events
    BY <1>1, HeadTailProperties
<1>3. ASSUME NEW x \in Events
      PROVE  /\ Firing'[x] \in Nat
             /\ Firing[x] = Firing'[x] + IF x = Head(due) THEN 1 ELSE 0
    BY <1>1, TailCounts DEF Firing
<1> SUFFICES ASSUME NEW h \in Events, h = Head(due) PROVE T!Handled(h)
    BY <1>2
<1>4. Firing[h] > 0 /\ Firing'[h] = Firing[h] - 1
    BY <1>3
<1>5. \A x \in Events : x # h => Firing'[x] = Firing[x]
    BY <1>3
<1>6. DOMAIN Firing = Events /\ DOMAIN Firing' = Events
    BY DEF Firing
<1>7. Firing' = [Firing EXCEPT ![h] = @ - 1]
    <2>1. Firing = [x \in Events |-> Firing[x]] /\ Firing' = [x \in Events |-> Firing'[x]]
        BY DEF Firing
    <2> QED
        BY <1>4, <1>5, <1>6, <2>1
<1> QED
    BY <1>4, <1>7, GainsAreAdded DEF T!Handled, Runs1

LEMMA AgeingIsPassed ==
    ASSUME QueueInv, BoundInv, NEW n \in Nat, Ageing(n)
    PROVE  T!Passed(n)
<1>1. queue \in Queues(Events) /\ Bounded(queue)
    BY DEF QueueInv, BoundInv
<1>2. Firing = [x \in Events |-> 0]
    BY NoneFires DEF Firing, Ageing
<1>3. ASSUME NEW x \in Events, NEW s \in Nat PROVE T!Within(x, s) = Count(queue, x, s)
    <2>1. CASE s > QueryInterval
        <3>1. QueryInterval \in 0 .. QueryInterval
            BY ProxyAssumption
        <3>2. Pending[x][QueryInterval] = Count(queue, x, QueryInterval)
            BY <3>1, PendingNow
        <3> QED
            BY <1>1, <2>1, <3>2, Capped DEF T!Within
    <2>2. CASE ~(s > QueryInterval)
        <3>1. s \in 0 .. QueryInterval
            BY <2>2, ProxyAssumption
        <3> QED
            BY <2>2, <3>1, PendingNow DEF T!Within
    <2> QED
        BY <2>1, <2>2
<1>4. ASSUME NEW x \in Events, NEW s \in 0 .. QueryInterval
      PROVE  Pending'[x][s] = T!Within(x, s + n) - T!Within(x, n)
    <2>1. s \in Nat /\ s + n \in Nat
        BY ProxyAssumption
    <2>2. Count(queue', x, s) = Count(queue, x, s + n) - Count(queue, x, n)
        BY <1>1, <2>1, AgeingCounts DEF Ageing
    <2> QED
        BY <1>3, <2>1, <2>2, PendingNext
<1>5. Pending' = [x \in Events |-> [s \in 0 .. QueryInterval |->
                                       T!Within(x, s + n) - T!Within(x, n)]]
    <2>1. Pending' = [x \in Events |-> [s \in 0 .. QueryInterval |-> Pending'[x][s]]]
        BY DEF Pending
    <2> QED
        BY <1>4, <2>1
<1>6. ASSUME NEW x \in Events PROVE Cardinality(Occurs(due', x)) = T!Within(x, n)
    BY <1>1, <1>3, AgeingCounts DEF Ageing
<1>7. Firing' = [x \in Events |-> T!Within(x, n)]
    BY <1>6 DEF Firing
<1> QED
    BY <1>2, <1>5, <1>7 DEF T!Passed, T!None, T!Seconds

LEMMA EmptyIsInit ==
    ASSUME NEW q, q = <<>>
    PROVE  \A x, s : Count(q, x, s) = 0
<1>1. \A x, s : Soon(q, x, s) = {}
    BY DEF Soon
<1> QED
    BY <1>1, FS_EmptySet DEF Count

LEMMA DropIsDropped ==
    ASSUME Drops
    PROVE  T!Dropped
<1>1. Pending' = [x \in Events |-> [s \in 0 .. QueryInterval |-> 0]]
    BY EmptyIsInit DEF Drops, Pending, Count
<1>2. Firing' = [x \in Events |-> 0]
    BY NoneFires DEF Drops, Firing
<1> QED
    BY <1>1, <1>2 DEF T!Dropped, T!TimersInit, T!None, T!Seconds

LEMMA StepIsTimersStep ==
    ASSUME QueueInv, BoundInv, TimerStep
    PROVE  [T!TimersNext]_<<Pending, Firing>>
<1>1. CASE Sets
    <2>1. Firing' = Firing
        BY <1>1 DEF Sets, Firing
    <2> QED
        BY <1>1, <2>1, GainsAreAdded DEF Sets, T!Set, T!TimersNext
<1>2. CASE Runs1
    BY <1>2, RunIsHandled DEF T!TimersNext
<1>3. CASE Drops
    BY <1>3, DropIsDropped DEF T!TimersNext
<1>4. ASSUME NEW n \in 0 .. MaxPassed, Ageing(n) PROVE [T!TimersNext]_<<Pending, Firing>>
    <2>1. n \in Nat
        BY ProxyAssumption DEF MaxPassed
    <2> QED
        BY <1>4, <2>1, AgeingIsPassed DEF T!TimersNext
<1> QED
    BY <1>1, <1>2, <1>3, <1>4 DEF TimerStep

(* The callout queue of the daemon implements independent timers: a timer  *)
(* that is set leaves every other its own seconds, and each ageing runs    *)
(* exactly the timers that are due, each once, whatever handlers set more  *)
(* timers in between.                                                      *)
THEOREM ProxyTimers == Spec => TimersSpec
<1>1. Init => T!TimersInit
    <2> SUFFICES ASSUME Init PROVE T!TimersInit
        OBVIOUS
    <2>0. queue = <<>> /\ due = <<>>
        BY DEF Init
    <2>1. Pending = [x \in Events |-> [s \in 0 .. QueryInterval |-> 0]]
        BY <2>0, EmptyIsInit DEF Pending, Count
    <2>2. Firing = [x \in Events |-> 0]
        BY <2>0, NoneFires DEF Firing
    <2> QED
        BY <2>1, <2>2 DEF T!TimersInit, T!None, T!Seconds
<1>2. Init => BoundInv
    BY DEF Init, BoundInv, Bounded
<1>3. ProxyInv /\ BoundInv /\ [Next]_vars => BoundInv' /\ [T!TimersNext]_<<Pending, Firing>>
    BY StepTimers, BoundStep, StepIsTimersStep DEF ProxyInv
<1> QED
    BY <1>1, <1>2, <1>3, ProxyInvariant, PTL DEF Spec, TimersSpec, T!TimersSpec

=============================================================================
