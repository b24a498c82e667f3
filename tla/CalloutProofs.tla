---------------------------- MODULE CalloutProofs ----------------------------
(***************************************************************************)
(* What the delta queue computes, for every queue: a node's seconds to go  *)
(* are the sum of the nodes up to it, inserting a node leaves every other  *)
(* node's seconds as they were, and ageing takes the same number from each *)
(* that stays.                                                             *)
(*                                                                         *)
(* Induction on the length of the queue is by minimal counterexample:      *)
(* every set of naturals has a least element (NatMin).                     *)
(***************************************************************************)
EXTENDS Callout, SequenceTheorems, WellFoundedInduction, TLAPS

Nodes(E) == [ev : E, time : Nat]

Queues(E) == Seq(Nodes(E))

LEMMA NodeTypes ==
    ASSUME NEW E, NEW q \in Queues(E)
    PROVE  /\ Len(q) \in Nat
           /\ \A i \in 1 .. Len(q) : q[i] \in Nodes(E) /\ q[i].time \in Nat /\ q[i].ev \in E
<1>1. Len(q) \in Nat /\ \A i \in 1 .. Len(q) : q[i] \in Nodes(E)
    BY DEF Queues
<1> QED
    BY <1>1 DEF Nodes

LEMMA NatMin ==
    ASSUME NEW S, S \subseteq Nat, S # {} PROVE \E n \in S : \A m \in S : n <= m
<1>1. PICK n \in S : \A m \in S : <<m, n>> \notin OpToRel(<, Nat)
    BY NatLessThanWellFounded, WFMin
<1>2. \A m \in S : ~(m < n)
    BY <1>1 DEF OpToRel
<1> QED
    BY <1>2

-----------------------------------------------------------------------------
(* The sums exist, so the recursive definition has the values it states.   *)

IsSum(q, n, f) ==
    f = [i \in 0 .. n |-> IF i = 0 THEN 0 ELSE f[i - 1] + q[i].time]

LEMMA SumsExist ==
    ASSUME NEW E, NEW q \in Queues(E), NEW n \in 0 .. Len(q)
    PROVE  \E f \in [0 .. n -> Nat] : IsSum(q, n, f)
<1> DEFINE Bad == {k \in 0 .. Len(q) : ~ \E f \in [0 .. k -> Nat] : IsSum(q, k, f)}
<1>1. Len(q) \in Nat
    BY DEF Queues
<1>2. ASSUME Bad # {} PROVE FALSE
    <2>1. PICK k \in Bad : \A m \in Bad : k <= m
        <3>1. Bad \subseteq Nat
            BY <1>1
        <3> QED
            BY <1>2, <3>1, NatMin
    <2>2. k # 0
        <3>1. IsSum(q, 0, [i \in 0 .. 0 |-> 0])
            BY DEF IsSum
        <3>2. [i \in 0 .. 0 |-> 0] \in [0 .. 0 -> Nat]
            OBVIOUS
        <3>3. 0 \notin Bad
            BY <3>1, <3>2
        <3> QED
            BY <2>1, <3>3
    <2>3. k - 1 \in 0 .. Len(q) /\ k - 1 \notin Bad
        <3>1. k \in 0 .. Len(q)
            OBVIOUS
        <3> HIDE DEF Bad
        <3> QED
            BY <1>1, <2>1, <2>2, <3>1
    <2>4. PICK f \in [0 .. k - 1 -> Nat] : IsSum(q, k - 1, f)
        BY <2>3
    <2>5. q[k].time \in Nat
        <3>1. k \in 0 .. Len(q)
            OBVIOUS
        <3> HIDE DEF Bad
        <3>2. k \in 1 .. Len(q)
            BY <1>1, <2>2, <3>1
        <3> QED
            BY <3>2, NodeTypes
    <2> DEFINE g == [i \in 0 .. k |-> IF i = k THEN f[k - 1] + q[k].time ELSE f[i]]
    <2>6. g \in [0 .. k -> Nat]
        BY <1>1, <2>2, <2>4, <2>5
    <2>7. ASSUME NEW i \in 0 .. k PROVE g[i] = IF i = 0 THEN 0 ELSE g[i - 1] + q[i].time
        <3>1. CASE i = k
            BY <1>1, <2>2, <3>1
        <3>2. CASE i # k
            <4>1. f[i] = IF i = 0 THEN 0 ELSE f[i - 1] + q[i].time
                BY <1>1, <2>4, <3>2 DEF IsSum
            <4> QED
                BY <1>1, <3>2, <4>1
        <3> QED
            BY <3>1, <3>2
    <2>8. g = [i \in 0 .. k |-> IF i = 0 THEN 0 ELSE g[i - 1] + q[i].time]
        BY <2>7
    <2> QED
        BY <2>1, <2>6, <2>8 DEF IsSum
<1> QED
    BY <1>2

LEMMA OffsetsSum ==
    ASSUME NEW E, NEW q \in Queues(E)
    PROVE  IsSum(q, Len(q), Offsets(q))
<1>1. Len(q) \in 0 .. Len(q)
    BY DEF Queues
<1>2. \E f : IsSum(q, Len(q), f)
    BY <1>1, SumsExist
<1>3. Offsets(q) = CHOOSE f : IsSum(q, Len(q), f)
    BY DEF Offsets, IsSum
<1> QED
    BY <1>2, <1>3

(* The seconds to go of the nodes: naturals, each the sum of its           *)
(* predecessor's and its own time.                                         *)
LEMMA OffsetsFacts ==
    ASSUME NEW E, NEW q \in Queues(E)
    PROVE  /\ Offsets(q) \in [0 .. Len(q) -> Nat]
           /\ Offsets(q)[0] = 0
           /\ \A i \in 1 .. Len(q) : Offsets(q)[i] = Offsets(q)[i - 1] + q[i].time
<1> DEFINE f == Offsets(q)
           n == Len(q)
           Bad == {i \in 0 .. n : f[i] \notin Nat}
<1>1. n \in Nat
    BY NodeTypes
<1>2. f = [i \in 0 .. n |-> IF i = 0 THEN 0 ELSE f[i - 1] + q[i].time]
    BY OffsetsSum DEF IsSum
<1> HIDE DEF f, n
<1>3. f[0] = 0
    BY <1>1, <1>2
<1>4. ASSUME NEW i \in 1 .. n PROVE f[i] = f[i - 1] + q[i].time
    <2>1. i \in 0 .. n /\ i # 0
        BY <1>1
    <2> QED
        BY <1>2, <2>1
<1>5. ASSUME Bad # {} PROVE FALSE
    <2>1. Bad \subseteq Nat
        BY <1>1
    <2>2. PICK k \in Bad : \A m \in Bad : k <= m
        BY <1>5, <2>1, NatMin
    <2>3. k \in 1 .. n
        BY <1>1, <1>3
    <2>4. k - 1 \notin Bad /\ k - 1 \in 0 .. n
        BY <1>1, <2>2, <2>3
    <2>5. f[k - 1] \in Nat /\ q[k].time \in Nat
        BY <2>3, <2>4, NodeTypes DEF n
    <2> QED
        BY <1>4, <2>3, <2>5
<1>6. \A i \in 0 .. n : f[i] \in Nat
    BY <1>5
<1>7. f \in [0 .. n -> Nat]
    BY <1>2, <1>6
<1> QED
    BY <1>3, <1>4, <1>7 DEF f, n

(* Whatever adds up like the seconds to go is the seconds to go.           *)
LEMMA OffsetsUnique ==
    ASSUME NEW E, NEW q \in Queues(E), NEW f \in [0 .. Len(q) -> Int],
           f[0] = 0, \A i \in 1 .. Len(q) : f[i] = f[i - 1] + q[i].time
    PROVE  Offsets(q) = f
<1> DEFINE g == Offsets(q)
           n == Len(q)
           Bad == {i \in 0 .. n : g[i] # f[i]}
<1>1. n \in Nat /\ g \in [0 .. n -> Nat] /\ g[0] = 0
    BY NodeTypes, OffsetsFacts
<1>2. \A i \in 1 .. n : g[i] = g[i - 1] + q[i].time
    BY OffsetsFacts
<1>3. f \in [0 .. n -> Int] /\ \A i \in 1 .. n : f[i] = f[i - 1] + q[i].time
    OBVIOUS
<1> HIDE DEF g, n
<1>4. ASSUME Bad # {} PROVE FALSE
    <2>1. Bad \subseteq Nat
        BY <1>1
    <2>2. PICK k \in Bad : \A m \in Bad : k <= m
        BY <1>4, <2>1, NatMin
    <2>3. k \in 1 .. n
        BY <1>1
    <2>4. k - 1 \notin Bad /\ k - 1 \in 0 .. n
        BY <1>1, <2>2, <2>3
    <2>5. g[k - 1] = f[k - 1]
        BY <2>4
    <2> QED
        BY <1>2, <1>3, <2>3, <2>5
<1>5. \A i \in 0 .. n : g[i] = f[i]
    BY <1>4
<1>6. g = f
    BY <1>1, <1>3, <1>5
<1> QED
    BY <1>6 DEF g

(* The search always finds its place.                                      *)
LEMMA WithinFacts ==
    ASSUME NEW E, NEW q \in Queues(E), NEW d \in Nat
    PROVE  /\ NodesWithin(q, d) \in 0 .. Len(q)
           /\ Offsets(q)[NodesWithin(q, d)] <= d
           /\ NodesWithin(q, d) < Len(q) => d < Offsets(q)[NodesWithin(q, d) + 1]
<1> DEFINE f == Offsets(q)
           n == Len(q)
           Ends == {i \in 0 .. n : i < n => d < f[i + 1]}
<1>1. n \in Nat /\ f \in [0 .. n -> Nat] /\ f[0] = 0
    BY NodeTypes, OffsetsFacts
<1>2. \E k \in 0 .. n : f[k] <= d /\ (k < n => d < f[k + 1])
    <2> HIDE DEF f, n
    <2>1. n \in Ends /\ Ends \subseteq Nat
        BY <1>1
    <2>2. PICK k \in Ends : \A m \in Ends : k <= m
        BY <2>1, NatMin
    <2>3. k \in 0 .. n /\ (k < n => d < f[k + 1])
        OBVIOUS
    <2>4. CASE k = 0
        BY <1>1, <2>3, <2>4
    <2>5. CASE k # 0
        <3>1. k - 1 \notin Ends /\ k - 1 \in 0 .. n
            <4> HIDE DEF Ends
            <4> QED
                BY <1>1, <2>2, <2>3, <2>5
        <3>2. ~(d < f[(k - 1) + 1])
            BY <3>1
        <3>3. (k - 1) + 1 = k
            BY <1>1, <2>3
        <3> QED
            BY <1>1, <2>3, <3>2, <3>3
    <2> QED
        BY <2>4, <2>5
<1>3. NodesWithin(q, d) = CHOOSE k \in 0 .. n : f[k] <= d /\ (k < n => d < f[k + 1])
    BY DEF NodesWithin
<1> HIDE DEF f, n
<1>4. /\ NodesWithin(q, d) \in 0 .. n
      /\ f[NodesWithin(q, d)] <= d
      /\ NodesWithin(q, d) < n => d < f[NodesWithin(q, d) + 1]
    BY <1>2, <1>3
<1> QED
    BY <1>4 DEF f, n

-----------------------------------------------------------------------------
(* Insertion.                                                              *)

LEMMA FunctionIsSeq ==
    ASSUME NEW S, NEW n \in Nat, NEW f \in [1 .. n -> S] PROVE f \in Seq(S) /\ Len(f) = n
OBVIOUS

LEMMA InsertedSeq ==
    ASSUME NEW S, NEW a \in Seq(S), NEW b \in S, NEW c \in Seq(S),
           NEW r, r = (a \o <<b>>) \o c
    PROVE  /\ r \in Seq(S) /\ Len(r) = Len(a) + 1 + Len(c)
           /\ \A i \in 1 .. Len(a) : r[i] = a[i]
           /\ r[Len(a) + 1] = b
           /\ \A i \in 1 .. Len(c) : r[Len(a) + 1 + i] = c[i]
OBVIOUS

(* Each node of the new queue r: its event, and its time in terms of the   *)
(* seconds to go.                                                          *)
Inserted(q, d, e, k, r) ==
    /\ Len(r) = Len(q) + 1
    /\ \A i \in 1 .. k : r[i] = q[i]
    /\ r[k + 1] = Node(e, d - Offsets(q)[k])
    /\ k < Len(q) => /\ r[k + 2].ev = q[k + 1].ev
                     /\ r[k + 2].time = Offsets(q)[k + 1] - d
    /\ \A i \in 2 .. Len(q) - k : r[k + 1 + i] = q[k + i]

LEMMA SetTimerNodes ==
    ASSUME NEW E, NEW q \in Queues(E), NEW d \in Nat, NEW e \in E,
           NEW k \in Nat, k = NodesWithin(q, d), NEW r, r = timer_setTimer(q, d, e)
    PROVE  r \in Queues(E) /\ Inserted(q, d, e, k, r)
<1> DEFINE f    == Offsets(q)
           n    == Len(q)
           rest == d - f[k]
           a    == SubSeq(q, 1, k)
           next == [q[k + 1] EXCEPT !.time = @ - rest]
           c    == [i \in 1 .. n - k |-> IF i = 1 THEN next ELSE q[k + i]]
<1>1. n \in Nat /\ k <= n /\ f[k] \in Nat /\ f[k] <= d
    <2>1. n \in Nat /\ f \in [0 .. n -> Nat]
        BY NodeTypes, OffsetsFacts
    <2>2. k \in 0 .. n /\ f[k] <= d
        BY WithinFacts
    <2> QED
        BY <2>1, <2>2
<1>2. \A i \in 1 .. n : q[i] \in Nodes(E)
    BY NodeTypes
<1>3. r = (a \o <<Node(e, rest)>>) \o c
    BY DEF timer_setTimer
<1>4. k < n => /\ f[k + 1] \in Nat /\ d < f[k + 1] /\ f[k + 1] = f[k] + q[k + 1].time
               /\ q[k + 1] \in Nodes(E)
    <2> SUFFICES ASSUME k < n
                 PROVE  /\ f[k + 1] \in Nat /\ d < f[k + 1] /\ f[k + 1] = f[k] + q[k + 1].time
                        /\ q[k + 1] \in Nodes(E)
        OBVIOUS
    <2>1. k + 1 \in 1 .. n /\ (k + 1) - 1 = k /\ k + 1 \in 0 .. n
        BY <1>1
    <2> QED
        BY <2>1, NodeTypes, OffsetsFacts, WithinFacts
<1> HIDE DEF f, n
<1>5. rest \in Nat /\ Node(e, rest) \in Nodes(E)
    BY <1>1 DEF Node, Nodes
<1>6. k < n => /\ next \in Nodes(E) /\ next.ev = q[k + 1].ev
               /\ next.time = f[k + 1] - d
    <2> SUFFICES ASSUME k < n
                 PROVE  /\ next \in Nodes(E) /\ next.ev = q[k + 1].ev
                        /\ next.time = f[k + 1] - d
        OBVIOUS
    <2>1. q[k + 1].time \in Nat /\ q[k + 1].time - rest = f[k + 1] - d
        BY <1>1, <1>4 DEF Nodes
    <2>2. q[k + 1].time - rest \in Nat
        BY <1>1, <1>4, <2>1
    <2> HIDE DEF rest
    <2> QED
        BY <1>4, <2>1, <2>2 DEF Nodes
<1> HIDE DEF next, rest
<1>7. a \in Seq(Nodes(E)) /\ Len(a) = k /\ \A i \in 1 .. k : a[i] = q[i]
    <2>1. \A i \in 1 .. k : q[i] \in Nodes(E)
        BY <1>1, <1>2
    <2> QED
        BY <1>1, <2>1, SubSeqProperties
<1>8. c \in Seq(Nodes(E)) /\ Len(c) = n - k
    <2>1. n - k \in Nat
        BY <1>1
    <2>2. ASSUME NEW i \in 1 .. n - k PROVE c[i] \in Nodes(E)
        <3>1. k < n /\ k + i \in 1 .. n
            BY <1>1
        <3> QED
            BY <1>2, <1>6, <3>1
    <2>3. c \in [1 .. n - k -> Nodes(E)]
        BY <2>2
    <2> HIDE DEF c
    <2> QED
        BY <2>1, <2>3, FunctionIsSeq
<1>9. /\ k < n => c[1] = next
      /\ \A i \in 2 .. n - k : c[i] = q[k + i]
    BY <1>1
<1> HIDE DEF a, c
<1>10. /\ r \in Seq(Nodes(E)) /\ Len(r) = k + 1 + (n - k)
       /\ \A i \in 1 .. k : r[i] = a[i]
       /\ r[k + 1] = Node(e, rest)
       /\ \A i \in 1 .. n - k : r[k + 1 + i] = c[i]
    <2> DEFINE b == Node(e, rest)
    <2>1. b \in Nodes(E) /\ r = (a \o <<b>>) \o c
        BY <1>3, <1>5
    <2> HIDE DEF b
    <2>2. /\ r \in Seq(Nodes(E)) /\ Len(r) = Len(a) + 1 + Len(c)
          /\ \A i \in 1 .. Len(a) : r[i] = a[i]
          /\ r[Len(a) + 1] = b
          /\ \A i \in 1 .. Len(c) : r[Len(a) + 1 + i] = c[i]
        <3>1. a \in Seq(Nodes(E)) /\ c \in Seq(Nodes(E))
            BY <1>7, <1>8
        <3> QED
            BY ONLY <2>1, <3>1, InsertedSeq
    <2> QED
        BY <1>7, <1>8, <2>2 DEF b
<1>11. k < n => r[k + 2] = next
    <2>1. k < n => 1 \in 1 .. n - k /\ k + 1 + 1 = k + 2
        BY <1>1
    <2> QED
        BY <1>9, <1>10, <2>1
<1>12. \A i \in 2 .. n - k : r[k + 1 + i] = q[k + i]
    BY <1>1, <1>9, <1>10
<1>13. Len(r) = n + 1 /\ r \in Queues(E)
    BY <1>1, <1>10 DEF Queues
<1>14. \A i \in 1 .. k : r[i] = q[i]
    BY <1>7, <1>10
<1> QED
    BY <1>6, <1>10, <1>11, <1>12, <1>13, <1>14 DEF f, n, rest, Inserted

(* timer_setTimer, for every queue: the new timer has its delay to go,     *)
(* every other timer has what it had, and none is lost.                    *)
THEOREM SetTimerKeepsTimes ==
    ASSUME NEW E, NEW q \in Queues(E), NEW d \in Nat, NEW e \in E,
           NEW k \in Nat, k = NodesWithin(q, d), NEW r, r = timer_setTimer(q, d, e)
    PROVE  /\ r \in Queues(E) /\ Len(r) = Len(q) + 1 /\ k <= Len(q)
           /\ r[k + 1].ev = e /\ Offsets(r)[k + 1] = d
           /\ \A i \in 1 .. k : r[i].ev = q[i].ev /\ Offsets(r)[i] = Offsets(q)[i]
           /\ \A i \in k + 1 .. Len(q) :
                  r[i + 1].ev = q[i].ev /\ Offsets(r)[i + 1] = Offsets(q)[i]
<1> DEFINE f == Offsets(q)
           n == Len(q)
           g == [i \in 0 .. n + 1 |-> IF i <= k THEN f[i] ELSE IF i = k + 1 THEN d ELSE f[i - 1]]
<1>1. n \in Nat /\ k <= n /\ f \in [0 .. n -> Nat] /\ f[0] = 0
    BY NodeTypes, OffsetsFacts, WithinFacts
<1>2. \A i \in 1 .. n : f[i] = f[i - 1] + q[i].time
    BY OffsetsFacts
<1>3. /\ r \in Queues(E) /\ Len(r) = n + 1
      /\ \A i \in 1 .. k : r[i] = q[i]
      /\ r[k + 1] = Node(e, d - f[k])
      /\ k < n => r[k + 2].ev = q[k + 1].ev /\ r[k + 2].time = f[k + 1] - d
      /\ \A i \in 2 .. n - k : r[k + 1 + i] = q[k + i]
    <2>1. r \in Queues(E) /\ Inserted(q, d, e, k, r)
        BY SetTimerNodes
    <2> QED
        BY <2>1 DEF Inserted
<1> HIDE DEF f, n
<1>4. \A i \in k + 2 .. n : r[i + 1] = q[i]
    <2> SUFFICES ASSUME NEW i \in k + 2 .. n PROVE r[i + 1] = q[i]
        OBVIOUS
    <2>1. i - k \in 2 .. n - k /\ k + 1 + (i - k) = i + 1 /\ k + (i - k) = i
        <3>1. n \in Nat
            BY <1>1
        <3> QED
            BY ONLY <3>1, k \in Nat, i \in k + 2 .. n
    <2> QED
        BY <1>3, <2>1
<1>5. g \in [0 .. n + 1 -> Int] /\ g[0] = 0
    BY <1>1
<1>6. ASSUME NEW i \in 1 .. n + 1 PROVE g[i] = g[i - 1] + r[i].time
    <2>1. CASE i <= k
        <3>1. g[i] = f[i] /\ g[i - 1] = f[i - 1] /\ r[i] = q[i] /\ i \in 1 .. n
            BY <1>1, <1>3, <2>1
        <3> QED
            BY <1>2, <3>1
    <2>2. CASE i = k + 1
        <3>1. g[i] = d /\ g[i - 1] = f[k] /\ f[k] \in Nat
            BY <1>1, <2>2
        <3>2. r[i].time = d - f[k]
            BY <1>3, <2>2 DEF Node
        <3> QED
            BY <3>1, <3>2
    <2>3. CASE i = k + 2
        <3>1. k < n /\ g[i] = f[k + 1] /\ g[i - 1] = d /\ f[k + 1] \in Nat
            BY <1>1, <2>3
        <3> QED
            BY <1>3, <2>3, <3>1
    <2>4. CASE i > k + 2
        <3>1. i - 1 \in k + 2 .. n /\ (i - 1) + 1 = i /\ i - 1 \in 1 .. n
            BY <1>1, <2>4
        <3>2. r[i] = q[i - 1]
            BY <1>4, <3>1
        <3>3. /\ i \in 0 .. n + 1 /\ ~(i <= k) /\ i # k + 1
              /\ i - 1 \in 0 .. n + 1 /\ ~(i - 1 <= k) /\ i - 1 # k + 1
            <4> HIDE DEF g
            <4> QED
                BY <1>1, <2>4
        <3>4. g[i] = f[i - 1] /\ g[i - 1] = f[(i - 1) - 1]
            BY <3>3
        <3> QED
            BY <1>2, <3>1, <3>2, <3>4
    <2> QED
        BY <1>1, <2>1, <2>2, <2>3, <2>4
<1>7. Offsets(r) = g
    <2> HIDE DEF g
    <2>1. g \in [0 .. Len(r) -> Int] /\ \A i \in 1 .. Len(r) : g[i] = g[i - 1] + r[i].time
        BY <1>3, <1>5, <1>6
    <2> QED
        BY <1>3, <1>5, <2>1, OffsetsUnique
<1>8. r[k + 1].ev = e /\ g[k + 1] = d
    BY <1>1, <1>3 DEF Node
<1>9. \A i \in 1 .. k : r[i].ev = q[i].ev /\ g[i] = f[i]
    BY <1>1, <1>3
<1>10. ASSUME NEW i \in k + 1 .. n PROVE r[i + 1].ev = q[i].ev /\ g[i + 1] = f[i]
    <2>1. g[i + 1] = f[i]
        BY <1>1
    <2>2. CASE i = k + 1
        <3>1. k < n /\ i + 1 = k + 2
            BY <1>1, <2>2
        <3> QED
            BY <1>3, <2>1, <2>2, <3>1
    <2>3. CASE i # k + 1
        <3>1. i \in k + 2 .. n
            BY <1>1, <2>3
        <3> QED
            BY <1>4, <2>1, <3>1
    <2> QED
        BY <2>2, <2>3
<1> HIDE DEF g
<1> QED
    BY <1>1, <1>3, <1>7, <1>8, <1>9, <1>10 DEF f, n

-----------------------------------------------------------------------------
(* Ageing.                                                                 *)

LEMMA OffsetsMonotone ==
    ASSUME NEW E, NEW q \in Queues(E), NEW i \in 0 .. Len(q), NEW j \in 0 .. Len(q), i <= j
    PROVE  Offsets(q)[i] <= Offsets(q)[j]
<1> DEFINE f == Offsets(q)
           n == Len(q)
           Bad == {m \in 0 .. n : i <= m /\ ~(f[i] <= f[m])}
<1>1. n \in Nat /\ f \in [0 .. n -> Nat]
    BY NodeTypes, OffsetsFacts
<1>2. \A m \in 1 .. n : f[m] = f[m - 1] + q[m].time /\ q[m].time \in Nat
    BY NodeTypes, OffsetsFacts
<1>3. i \in 0 .. n /\ j \in 0 .. n
    OBVIOUS
<1> HIDE DEF f, n
<1>4. ASSUME Bad # {} PROVE FALSE
    <2>1. Bad \subseteq Nat
        BY <1>1
    <2>2. PICK m \in Bad : \A l \in Bad : m <= l
        BY <1>4, <2>1, NatMin
    <2>3. m \in 0 .. n /\ i <= m /\ ~(f[i] <= f[m])
        OBVIOUS
    <2>4. i # m
        BY <1>1, <1>3, <2>3
    <2>5. m - 1 \in 0 .. n /\ i <= m - 1 /\ m \in 1 .. n
        BY <1>1, <1>3, <2>3, <2>4
    <2>6. m - 1 \notin Bad
        <3> HIDE DEF Bad
        <3> QED
            BY <1>1, <2>2, <2>3
    <2>7. f[i] <= f[m - 1]
        BY <2>5, <2>6
    <2>8. f[m] = f[m - 1] + q[m].time /\ q[m].time \in Nat
        BY <1>2, <2>5
    <2>9. f[i] \in Nat /\ f[m - 1] \in Nat
        BY <1>1, <1>3, <2>5
    <2> QED
        BY <2>3, <2>7, <2>8, <2>9
<1>5. f[i] <= f[j]
    BY <1>3, <1>4
<1> QED
    BY <1>5 DEF f

LEMMA Shift ==
    ASSUME NEW n \in Nat, NEW k \in Nat, k <= n, NEW i \in 1 .. n - k
    PROVE  /\ k < n /\ k + i \in 1 .. n /\ k + i \in 0 .. n /\ (k + i) - 1 = k + (i - 1)
           /\ i \in 0 .. n - k /\ i # 0 /\ i - 1 \in 0 .. n - k
           /\ i # 1 => i \in 2 .. n - k /\ i - 1 # 0 /\ k + (i - 1) \in 0 .. n
OBVIOUS

(* What is left of the wait w of the first node that stays: the nodes      *)
(* before it wait a seconds in all, it expires at b, and t have passed.    *)
LEMMA WaitLeft ==
    ASSUME NEW a \in Nat, NEW w \in Nat, NEW t \in Nat, NEW b \in Nat,
           b = a + w, a <= t, t < b
    PROVE  w - (t - a) \in Nat /\ w - (t - a) = b - t
OBVIOUS

(* What the theorem below states, as one predicate.                       *)
Ages(E, q, t, k) ==
    /\ k <= Len(q)
    /\ \A i \in 1 .. Len(q) : i <= k <=> Offsets(q)[i] <= t
    /\ Expired(q, t) \in Seq(E) /\ Len(Expired(q, t)) = k
    /\ \A i \in 1 .. k : Expired(q, t)[i] = q[i].ev
    /\ Remaining(q, t) \in Queues(E) /\ Len(Remaining(q, t)) = Len(q) - k
    /\ \A i \in 1 .. Len(q) - k :
           /\ Remaining(q, t)[i].ev = q[k + i].ev
           /\ Offsets(Remaining(q, t))[i] = Offsets(q)[k + i] - t

LEMMA AgeingFacts ==
    ASSUME NEW E, NEW q \in Queues(E), NEW t \in Nat,
           NEW k \in Nat, k = NodesWithin(q, t)
    PROVE  Ages(E, q, t, k)
<1> DEFINE f == Offsets(q)
           n == Len(q)
           next == [q[k + 1] EXCEPT !.time = @ - (t - f[k])]
           s == [i \in 1 .. n - k |-> IF i = 1 THEN next ELSE q[k + i]]
           x == [i \in 1 .. k |-> q[i].ev]
           g == [i \in 0 .. n - k |-> IF i = 0 THEN 0 ELSE f[k + i] - t]
<1>1. /\ n \in Nat /\ k <= n /\ f \in [0 .. n -> Nat] /\ f[k] <= t
      /\ k < n => t < f[k + 1]
    <2>1. n \in Nat /\ f \in [0 .. n -> Nat]
        BY NodeTypes, OffsetsFacts
    <2>2. k \in 0 .. n /\ f[k] <= t /\ (k < n => t < f[k + 1])
        BY WithinFacts
    <2> QED
        BY <2>1, <2>2
<1>2. \A i \in 1 .. n : /\ f[i] = f[i - 1] + q[i].time
                        /\ q[i] \in Nodes(E) /\ q[i].time \in Nat /\ q[i].ev \in E
    BY NodeTypes, OffsetsFacts
<1>3. Remaining(q, t) = s /\ Expired(q, t) = x
    BY DEF Remaining, Expired
<1>4. \A i, j \in 0 .. n : i <= j => f[i] <= f[j]
    BY OffsetsMonotone
<1> HIDE DEF f, n
<1>5. ASSUME NEW i \in 1 .. n PROVE i <= k <=> f[i] <= t
    <2>1. CASE i <= k
        <3>1. i \in 0 .. n /\ k \in 0 .. n /\ f[i] \in Nat /\ f[k] \in Nat
            BY <1>1
        <3>2. f[i] <= f[k]
            BY <1>4, <2>1, <3>1
        <3> QED
            BY <1>1, <2>1, <3>1, <3>2
    <2>2. CASE ~(i <= k)
        <3>1. /\ i \in 0 .. n /\ k + 1 \in 0 .. n /\ k < n /\ k + 1 <= i
              /\ f[i] \in Nat /\ f[k + 1] \in Nat
            BY <1>1, <2>2
        <3>2. f[k + 1] <= f[i]
            BY <1>4, <3>1
        <3> QED
            BY <1>1, <2>2, <3>1, <3>2
    <2> QED
        BY <2>1, <2>2
<1>6. x \in Seq(E) /\ Len(x) = k /\ \A i \in 1 .. k : x[i] = q[i].ev
    <2>1. \A i \in 1 .. k : q[i].ev \in E
        BY <1>1, <1>2
    <2>2. x \in [1 .. k -> E] /\ \A i \in 1 .. k : x[i] = q[i].ev
        BY <2>1
    <2> HIDE DEF x
    <2> QED
        BY <2>2, FunctionIsSeq
<1>7. k < n => /\ next \in Nodes(E) /\ next.ev = q[k + 1].ev /\ next.time = f[k + 1] - t
    <2> SUFFICES ASSUME k < n
                 PROVE  /\ next \in Nodes(E) /\ next.ev = q[k + 1].ev /\ next.time = f[k + 1] - t
        OBVIOUS
    <2>1. k + 1 \in 1 .. n /\ (k + 1) - 1 = k /\ f[k] \in Nat /\ f[k + 1] \in Nat
        BY <1>1
    <2>2. f[k + 1] = f[k] + q[k + 1].time /\ q[k + 1] \in Nodes(E) /\ q[k + 1].time \in Nat
        BY <1>2, <2>1
    <2> DEFINE m == q[k + 1].time - (t - f[k])
    <2>3. m \in Nat /\ m = f[k + 1] - t
        <3>1. f[k] <= t /\ t < f[k + 1]
            BY <1>1
        <3> QED
            BY ONLY <2>1, <2>2, <3>1, t \in Nat, WaitLeft
    <2>4. next = [q[k + 1] EXCEPT !.time = m]
        OBVIOUS
    <2> HIDE DEF m, next
    <2> QED
        BY <2>2, <2>3, <2>4 DEF Nodes
<1> HIDE DEF next
<1>8. /\ k < n => s[1] = next
      /\ \A i \in 2 .. n - k : s[i] = q[k + i]
    BY <1>1
<1>9. s \in Seq(Nodes(E)) /\ Len(s) = n - k
    <2>1. n - k \in Nat
        BY <1>1
    <2>2. ASSUME NEW i \in 1 .. n - k PROVE s[i] \in Nodes(E)
        <3>1. k < n /\ k + i \in 1 .. n
            BY <1>1
        <3> QED
            BY <1>2, <1>7, <3>1
    <2>3. s \in [1 .. n - k -> Nodes(E)]
        BY <2>2
    <2> HIDE DEF s
    <2> QED
        BY <2>1, <2>3, FunctionIsSeq
<1> HIDE DEF s
<1>10. s \in Queues(E)
    BY <1>9 DEF Queues
<1>11. g \in [0 .. n - k -> Int] /\ g[0] = 0
    BY <1>1
<1>12. ASSUME NEW i \in 1 .. n - k PROVE g[i] = g[i - 1] + s[i].time /\ s[i].ev = q[k + i].ev
    <2>4. /\ k < n /\ k + i \in 1 .. n /\ k + i \in 0 .. n /\ (k + i) - 1 = k + (i - 1)
          /\ i \in 0 .. n - k /\ i # 0 /\ i - 1 \in 0 .. n - k
          /\ i # 1 => i \in 2 .. n - k /\ i - 1 # 0 /\ k + (i - 1) \in 0 .. n
        <3>1. n \in Nat /\ k <= n
            BY <1>1
        <3> HIDE DEF g, x
        <3> QED
            BY ONLY <3>1, k \in Nat, i \in 1 .. n - k, Shift
    <2>1. k < n /\ k + i \in 1 .. n /\ g[i] = f[k + i] - t /\ f[k + i] \in Nat
        BY <1>1, <2>4
    <2>2. CASE i = 1
        <3>1. g[i - 1] = 0
            BY <2>2, <2>4
        <3> QED
            BY <1>1, <1>7, <1>8, <2>1, <2>2, <3>1
    <2>3. CASE i # 1
        <3>1. i \in 2 .. n - k
            BY <1>1, <2>3
        <3>2. g[i - 1] = f[k + (i - 1)] - t /\ f[k + (i - 1)] \in Nat
            BY <1>1, <2>3, <2>4
        <3>3. f[k + i] = f[k + (i - 1)] + q[k + i].time /\ q[k + i].time \in Nat
            BY <1>2, <2>4
        <3>4. s[i] = q[k + i]
            BY <1>8, <3>1
        <3> HIDE DEF g
        <3> QED
            BY <2>1, <3>2, <3>3, <3>4
    <2> QED
        BY <2>2, <2>3
<1>13. Offsets(s) = g
    <2> HIDE DEF g
    <2>1. \A i \in 1 .. Len(s) : g[i] = g[i - 1] + s[i].time
        BY <1>9, <1>12
    <2> QED
        BY <1>9, <1>10, <1>11, <2>1, OffsetsUnique
<1>14. \A i \in 1 .. n - k : s[i].ev = q[k + i].ev /\ Offsets(s)[i] = f[k + i] - t
    <2>1. \A i \in 1 .. n - k : g[i] = f[k + i] - t
        BY <1>1
    <2> HIDE DEF g
    <2> QED
        BY <1>12, <1>13, <2>1
<1> HIDE DEF x
<1> QED
    BY <1>1, <1>3, <1>5, <1>6, <1>9, <1>10, <1>14 DEF f, n, Ages

(* age_callout_queue, for every queue: exactly the timers with at most t   *)
(* seconds to go run, in their order, and each that stays has t less.      *)
THEOREM AgeingIsExact ==
    ASSUME NEW E, NEW q \in Queues(E), NEW t \in Nat,
           NEW k \in Nat, k = NodesWithin(q, t)
    PROVE  /\ k <= Len(q)
           /\ \A i \in 1 .. Len(q) : i <= k <=> Offsets(q)[i] <= t
           /\ Expired(q, t) \in Seq(E) /\ Len(Expired(q, t)) = k
           /\ \A i \in 1 .. k : Expired(q, t)[i] = q[i].ev
           /\ Remaining(q, t) \in Queues(E) /\ Len(Remaining(q, t)) = Len(q) - k
           /\ \A i \in 1 .. Len(q) - k :
                  /\ Remaining(q, t)[i].ev = q[k + i].ev
                  /\ Offsets(Remaining(q, t))[i] = Offsets(q)[k + i] - t
<1>1. Ages(E, q, t, k)
    BY AgeingFacts
<1> QED
    BY <1>1 DEF Ages

=============================================================================
