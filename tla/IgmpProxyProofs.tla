--------------------------- MODULE IgmpProxyProofs ---------------------------
(***************************************************************************)
(* Proofs about the multicast proxy, for any number of groups and hosts,   *)
(* any delays and counts and any queue of timers: its types, that routes,  *)
(* kernel, WAN memberships, firewall and switch stay in step, and that a   *)
(* route in the last-member check always has its next query pending.       *)
(***************************************************************************)
EXTENDS IgmpProxy, CalloutProofs

USE ProxyAssumption

-----------------------------------------------------------------------------
(* The queue.                                                              *)

HasEvent(q, e) == \E i \in 1 .. Len(q) : q[i].ev = e

HasDue(s, e) == \E i \in 1 .. Len(s) : s[i] = e

LEMMA TimerAdds ==
    ASSUME NEW E, NEW q \in Queues(E), NEW d \in Nat, NEW e \in E
    PROVE  /\ timer_setTimer(q, d, e) \in Queues(E)
           /\ HasEvent(timer_setTimer(q, d, e), e)
           /\ \A x : HasEvent(q, x) => HasEvent(timer_setTimer(q, d, e), x)
<1> DEFINE k == NodesWithin(q, d)
           r == timer_setTimer(q, d, e)
           n == Len(q)
<1>1. k \in Nat /\ n \in Nat
    BY WithinFacts, NodeTypes
<1>2. /\ r \in Queues(E) /\ Len(r) = n + 1 /\ k <= n
      /\ r[k + 1].ev = e
      /\ \A i \in 1 .. k : r[i].ev = q[i].ev
      /\ \A i \in k + 1 .. n : r[i + 1].ev = q[i].ev
    BY <1>1, SetTimerKeepsTimes
<1> HIDE DEF k, r, n
<1>3. HasEvent(r, e)
    BY <1>1, <1>2 DEF HasEvent
<1>4. ASSUME NEW x, NEW i \in 1 .. n, q[i].ev = x PROVE HasEvent(r, x)
    <2>1. CASE i <= k
        BY <1>1, <1>2, <1>4, <2>1 DEF HasEvent
    <2>2. CASE ~(i <= k)
        <3>1. i \in k + 1 .. n /\ i + 1 \in 1 .. n + 1
            BY <1>1, <1>2, <2>2
        <3> QED
            BY <1>2, <1>4, <3>1 DEF HasEvent
    <2> QED
        BY <2>1, <2>2
<1>5. \A x : HasEvent(q, x) => HasEvent(r, x)
    BY <1>4 DEF HasEvent, n
<1> QED
    BY <1>2, <1>3, <1>5 DEF r

(* What ageing does to the events, without their times.                    *)
Split(q, r, s, k) ==
    /\ k <= Len(q) /\ Len(s) = k /\ Len(r) = Len(q) - k
    /\ \A i \in 1 .. k : s[i] = q[i].ev
    /\ \A i \in 1 .. Len(q) - k : r[i].ev = q[k + i].ev

LEMMA SplitKeeps ==
    ASSUME NEW q, NEW r, NEW s, NEW k \in Nat, Len(q) \in Nat, Split(q, r, s, k)
    PROVE  \A x : HasEvent(q, x) => HasEvent(r, x) \/ HasDue(s, x)
<1>1. ASSUME NEW x, NEW i \in 1 .. Len(q), q[i].ev = x
      PROVE  HasEvent(r, x) \/ HasDue(s, x)
    <2>1. CASE i <= k
        BY <1>1, <2>1 DEF HasDue, Split
    <2>2. CASE ~(i <= k)
        <3>1. PICK j \in 1 .. Len(q) - k : k + j = i
            <4>1. i - k \in 1 .. Len(q) - k /\ k + (i - k) = i
                BY <2>2
            <4> QED
                BY <4>1
        <3>2. r[j].ev = x /\ j \in 1 .. Len(r)
            BY <1>1, <3>1 DEF Split
        <3> QED
            BY <3>2 DEF HasEvent
    <2> QED
        BY <2>1, <2>2
<1> QED
    BY <1>1 DEF HasEvent

LEMMA AgeingSplits ==
    ASSUME NEW E, NEW q \in Queues(E), NEW t \in Nat
    PROVE  /\ Remaining(q, t) \in Queues(E) /\ Expired(q, t) \in Seq(E)
           /\ \A x : HasEvent(q, x) => HasEvent(Remaining(q, t), x) \/ HasDue(Expired(q, t), x)
<1>1. NodesWithin(q, t) \in Nat /\ Len(q) \in Nat
    BY WithinFacts, NodeTypes
<1>2. ASSUME NEW k \in Nat, k = NodesWithin(q, t)
      PROVE  /\ Remaining(q, t) \in Queues(E) /\ Expired(q, t) \in Seq(E)
             /\ Split(q, Remaining(q, t), Expired(q, t), k)
    <2>1. Ages(E, q, t, k)
        BY <1>2, AgeingFacts
    <2> QED
        BY <2>1 DEF Split, Ages
<1> QED
    BY <1>1, <1>2, SplitKeeps

-----------------------------------------------------------------------------
(* The routing table: a route has a positive age, and the loops of         *)
(* ageActiveRoutes have only routes before them.                           *)

RouteRecords == [upstr : {"ABSENT", "JOINED", "CHECK"}, age : Nat, heard : {0, 1}]

RouteInv ==
    /\ routes \in [Groups -> RouteRecords] /\ cursor \subseteq Groups
    /\ \A g \in Groups : routes[g].upstr # "ABSENT" => routes[g].age # 0
    /\ pc \in {"sweep", "aging"} => \A g \in cursor : routes[g].upstr # "ABSENT"

(* An assignment to one route.                                             *)
LEMMA RouteSet ==
    ASSUME RouteInv, NEW g \in Groups, NEW r \in RouteRecords,
           r.upstr # "ABSENT" => r.age # 0,
           routes' = [routes EXCEPT ![g] = r],
           cursor' = cursor \/ cursor' = cursor \ {g}, pc' = pc \/ pc' = "age",
           pc \in {"sweep", "aging"} /\ cursor' = cursor => r.upstr # "ABSENT" \/ g \notin cursor
    PROVE  RouteInv'
<1>1. /\ routes' \in [Groups -> RouteRecords] /\ cursor' \subseteq cursor
      /\ routes'[g] = r /\ \A k \in Groups : k # g => routes'[k] = routes[k]
    BY DEF RouteInv
<1>2. \A k \in Groups : routes'[k].upstr # "ABSENT" => routes'[k].age # 0
    BY <1>1 DEF RouteInv
<1>3. pc' \in {"sweep", "aging"} => \A k \in cursor' : routes'[k].upstr # "ABSENT"
    BY <1>1 DEF RouteInv
<1> QED
    BY <1>1, <1>2, <1>3 DEF RouteInv

LEMMA AgedRecord ==
    ASSUME NEW r \in RouteRecords, r.age # 0
    PROVE  Aged(r) \in RouteRecords /\ Aged(r).upstr = r.upstr
<1> DEFINE n == IF r.heard = 1 THEN Robustness ELSE r.age - 1
<1>1. n \in Nat
    BY DEF RouteRecords
<1>2. Aged(r) = [r EXCEPT !.age = n, !.heard = 0]
    BY DEF Aged
<1> HIDE DEF n
<1> QED
    BY <1>1, <1>2 DEF RouteRecords

LEMMA CheckRecord ==
    ASSUME NEW r \in RouteRecords, NEW n \in Nat
    PROVE  LET c == [r EXCEPT !.upstr = "CHECK", !.age = n]
           IN  c \in RouteRecords /\ c.upstr = "CHECK" /\ c.age = n
    BY DEF RouteRecords

LEMMA RouteStep ==
    ASSUME RouteInv, [Next]_vars
    PROVE  RouteInv'
<1>1. CASE UNCHANGED vars
    BY <1>1 DEF RouteInv, vars, loop, timers
<1>2. ASSUME NEW h \in Hosts, NEW g \in Groups, acceptGroupReport(h, g) PROVE RouteInv'
    <2> DEFINE r == [upstr |-> "JOINED", heard |-> 1,
                     age |-> IF g \in Routed THEN routes[g].age ELSE Robustness]
    <2>1. r \in RouteRecords /\ r.upstr # "ABSENT" /\ r.age # 0
        BY DEF RouteInv, RouteRecords, Routed
    <2>2. pc' = "age" /\ cursor' = cursor
        BY <1>2 DEF acceptGroupReport, timers
    <2>3. CASE link = "up"
        <3>1. routes' = [routes EXCEPT ![g] = r]
            BY <1>2, <2>3 DEF acceptGroupReport, insertRoute
        <3> HIDE DEF r
        <3> QED
            BY <2>1, <2>2, <3>1, RouteSet
    <2>4. CASE link # "up"
        BY <1>2, <2>2, <2>4 DEF acceptGroupReport, RouteInv
    <2> QED
        BY <2>3, <2>4
<1>3. ASSUME NEW h \in Hosts, NEW g \in Groups, acceptLeaveMessage(h, g) PROVE RouteInv'
    <2> DEFINE r == [routes[g] EXCEPT !.upstr = "CHECK", !.age = LastMemberCount]
    <2>1. r \in RouteRecords /\ r.upstr # "ABSENT" /\ r.age # 0
        <3>1. routes[g] \in RouteRecords
            BY DEF RouteInv
        <3> QED
            BY <3>1, CheckRecord
    <2>2. pc' = "age" /\ cursor' = cursor
        BY <1>3 DEF acceptLeaveMessage
    <2>3. CASE g \in Routed
        <3>1. routes' = [routes EXCEPT ![g] = r]
            BY <1>3, <2>3 DEF acceptLeaveMessage, setRouteLastMemberMode, RouteInv
        <3> HIDE DEF r
        <3> QED
            BY <2>1, <2>2, <3>1, RouteSet
    <2>4. CASE g \notin Routed
        BY <1>3, <2>2, <2>4 DEF acceptLeaveMessage, setRouteLastMemberMode, RouteInv
    <2> QED
        BY <2>3, <2>4
<1>4. ASSUME NEW g \in Groups, routes[g].upstr # "ABSENT", internAgeRoute(g),
             pc' = pc, cursor' = cursor \/ cursor' = cursor \ {g},
             pc \in {"sweep", "aging"} => cursor' = cursor \ {g}
      PROVE  RouteInv'
    <2>1. routes[g] \in RouteRecords /\ routes[g].age # 0
        BY <1>4 DEF RouteInv
    <2>2. Aged(routes[g]) \in RouteRecords /\ Aged(routes[g]).upstr # "ABSENT"
        BY <1>4, <2>1, AgedRecord
    <2>3. NoRoute \in RouteRecords /\ NoRoute.upstr = "ABSENT"
        BY DEF NoRoute, RouteRecords
    <2>4. CASE Aged(routes[g]).age = 0
        <3>1. routes' = [routes EXCEPT ![g] = NoRoute]
            BY <1>4, <2>4 DEF internAgeRoute, removeRoute
        <3> QED
            BY <1>4, <2>3, <3>1, RouteSet
    <2>5. CASE Aged(routes[g]).age # 0
        <3>1. routes' = [routes EXCEPT ![g] = Aged(routes[g])]
            BY <1>4, <2>5 DEF internAgeRoute
        <3> QED
            BY <1>4, <2>2, <2>5, <3>1, RouteSet
    <2> QED
        BY <2>4, <2>5
<1>5. ASSUME NEW g \in Groups, sendGroupSpecificMemberQuery(g) PROVE RouteInv'
    <2>1. pc = "run" /\ pc' = pc /\ cursor' = cursor
        BY <1>5 DEF sendGroupSpecificMemberQuery, Runs, loop
    <2>2. CASE link = "up" /\ running = 1 /\ routes[g].upstr = "CHECK"
        BY <1>4, <1>5, <2>1, <2>2 DEF sendGroupSpecificMemberQuery
    <2>3. CASE ~(link = "up" /\ running = 1 /\ routes[g].upstr = "CHECK")
        BY <1>5, <2>1, <2>3 DEF sendGroupSpecificMemberQuery, RouteInv
    <2> QED
        BY <2>2, <2>3
<1>6. ASSUME NEW g \in Groups, AgeRoute(g) PROVE RouteInv'
    <2>1. pc = "aging" /\ pc' = pc /\ cursor' = cursor \ {g} /\ routes[g].upstr # "ABSENT"
        BY <1>6 DEF AgeRoute, loop, IsFirst, RouteInv
    <2>2. CASE routes[g].upstr # "CHECK"
        BY <1>4, <1>6, <2>1, <2>2 DEF AgeRoute
    <2>3. CASE routes[g].upstr = "CHECK"
        BY <1>6, <2>1, <2>3 DEF AgeRoute, RouteInv
    <2> QED
        BY <2>2, <2>3
<1>7. ASSUME NEW g \in Groups, SweepRoute(g) PROVE RouteInv'
    <2>1. pc' = pc /\ cursor' = cursor \ {g}
        BY <1>7 DEF SweepRoute, loop
    <2>2. CASE Swept(g)
        <3>1. routes' = [routes EXCEPT ![g] = NoRoute]
            BY <1>7, <2>2 DEF SweepRoute, removeRoute
        <3>2. NoRoute \in RouteRecords /\ NoRoute.upstr = "ABSENT"
            BY DEF NoRoute, RouteRecords
        <3> QED
            BY <2>1, <3>1, <3>2, RouteSet
    <2>3. CASE ~Swept(g)
        BY <1>7, <2>1, <2>3 DEF SweepRoute, RouteInv
    <2> QED
        BY <2>2, <2>3
<1>8. CASE WriteThroughNull \/ igmpProxyCleanUp
    <2>1. /\ routes' = [g \in Groups |-> NoRoute] /\ cursor' = cursor
          /\ pc' \notin {"sweep", "aging"}
        BY <1>8 DEF WriteThroughNull, igmpProxyCleanUp, ProcessEnds
    <2>2. NoRoute \in RouteRecords /\ NoRoute.upstr = "ABSENT"
        BY DEF NoRoute, RouteRecords
    <2> QED
        BY <2>1, <2>2 DEF RouteInv
<1>9. CASE ageActiveRoutes \/ SweepEnds
    BY <1>9 DEF ageActiveRoutes, SweepEnds, RouteInv, Routed
<1>10. ASSUME UNCHANGED <<routes, cursor>>, pc' = pc \/ pc' \notin {"sweep", "aging"}
       PROVE  RouteInv'
    BY <1>10 DEF RouteInv
<1>11. CASE \/ Loop \/ OtherPacket \/ Done \/ TimedOut \/ \E n \in 0 .. MaxJump : Age(n)
    BY <1>10, <1>11 DEF Loop, OtherPacket, Done, TimedOut, Age, AgeBy, timers
<1>12. CASE sendGeneralMembershipQuery \/ RunProbe \/ AgingEnds
    BY <1>10, <1>12 DEF sendGeneralMembershipQuery, RunProbe, AgingEnds, loop
<1>13. CASE Start \/ LinkChange \/ \E g \in Groups : KernelCache(g)
    BY <1>10, <1>13 DEF Start, LinkChange, KernelCache, loop, timers
<1> QED
    BY <1>1, <1>2, <1>3, <1>5, <1>6, <1>7, <1>8, <1>9, <1>11, <1>12, <1>13
    DEF Next, Daemon, RunEvent, Packet

-----------------------------------------------------------------------------
(* The WAN side: one route at a time.                                      *)

InStep(g) ==
    /\ routes[g].upstr # "ABSENT" => g \in cache
    /\ upstream = 1 /\ routes[g].upstr = "JOINED" => g \in joined \cup missed /\ rules[g] # 0
    /\ fast = 0 /\ upstream = 1 => (g \in joined <=> routes[g].upstr # "ABSENT" /\ g \notin missed)

Ended == pc \in {"stopped", "crashed"}

UpInv ==
    /\ joined \subseteq Groups /\ missed \subseteq Groups /\ rules \in [Groups -> Nat] /\ cache \subseteq Groups
    /\ \A g \in Groups : InStep(g)
    /\ Ended => \A g \in Groups : g \notin joined /\ routes[g].upstr = "ABSENT"

(* A step about one group.                                                 *)
OnlyGroup(g) ==
    /\ joined' \subseteq Groups /\ missed' \subseteq Groups /\ rules' \in [Groups -> Nat] /\ cache' \subseteq Groups
    /\ \A k \in Groups : k # g =>
          /\ routes'[k] = routes[k] /\ rules'[k] = rules[k]
          /\ k \in joined' <=> k \in joined
          /\ k \in missed' <=> k \in missed
          /\ k \in cache' <=> k \in cache
    /\ fast' = fast /\ upstream' = upstream /\ ~Ended'

LEMMA OneGroup ==
    ASSUME UpInv, NEW g \in Groups, OnlyGroup(g), InStep(g)'
    PROVE  UpInv'
<1>1. ASSUME NEW k \in Groups, k # g PROVE InStep(k)'
    BY <1>1 DEF UpInv, OnlyGroup, InStep
<1>2. \A k \in Groups : InStep(k)'
    BY <1>1
<1> QED
    BY <1>2 DEF UpInv, OnlyGroup

(* A step about no group.                                                  *)
LEMMA NoGroup ==
    ASSUME UpInv, ~Ended', UNCHANGED <<routes, cache, joined, missed, rules, fast, upstream>>
    PROVE  UpInv'
<1>1. \A g \in Groups : InStep(g)'
    BY DEF UpInv, InStep
<1> QED
    BY <1>1 DEF UpInv

LEMMA JoinFacts ==
    ASSUME UpInv, NEW g \in Groups, JoinUpstream(g)
    PROVE  /\ joined' \subseteq Groups /\ missed' \subseteq Groups /\ rules' \in [Groups -> Nat]
           /\ g \in joined' <=> g \notin missed'
           /\ upstream = 1 => rules'[g] # 0
           /\ \A k \in Groups : k # g => /\ rules'[k] = rules[k]
                                         /\ k \in joined' <=> k \in joined
                                         /\ k \in missed' <=> k \in missed
<1>1. joined' \in {joined, joined \cup {g}}
    BY DEF JoinUpstream
<1>2. missed' = IF g \in joined' THEN missed \ {g} ELSE missed \cup {g}
    BY DEF JoinUpstream
<1>3. /\ rules' \in [Groups -> Nat] /\ (upstream = 1 => rules'[g] # 0)
      /\ \A k \in Groups : k # g => rules'[k] = rules[k]
    BY DEF JoinUpstream, UpInv
<1> QED
    BY <1>1, <1>2, <1>3 DEF UpInv

LEMMA LeaveFacts ==
    ASSUME UpInv, NEW G, LeaveUpstream(G)
    PROVE  /\ joined' \subseteq Groups /\ missed' \subseteq Groups /\ rules' \in [Groups -> Nat]
           /\ \A k \in Groups : k \notin G => /\ rules'[k] = rules[k]
                                              /\ k \in joined' <=> k \in joined
                                              /\ k \in missed' <=> k \in missed
           /\ \A k \in Groups : k \in G => k \notin missed' /\ (upstream = 1 => k \notin joined')
<1>1. rules \in [Groups -> Nat] /\ joined \subseteq Groups /\ missed \subseteq Groups
    BY DEF UpInv
<1>2. missed' = missed \ G
    BY DEF LeaveUpstream
<1>3. CASE upstream = 1
    <2>1. /\ joined' = joined \ G
          /\ rules' = [g \in Groups |-> IF g \in G /\ rules[g] > 0 THEN rules[g] - 1 ELSE rules[g]]
        BY <1>3 DEF LeaveUpstream
    <2>2. rules' \in [Groups -> Nat] /\ \A k \in Groups : k \notin G => rules'[k] = rules[k]
        BY ONLY <1>1, <2>1
    <2> QED
        BY <1>1, <1>2, <2>1, <2>2
<1>4. CASE upstream # 1
    <2>1. rules' = rules
        BY <1>4 DEF LeaveUpstream
    <2>2. PICK S \in SUBSET G : joined' = joined \ S
        BY <1>4 DEF LeaveUpstream
    <2> QED
        BY <1>1, <1>2, <1>4, <2>1, <2>2
<1> QED
    BY <1>3, <1>4

LEMMA RemoveKeeps ==
    ASSUME RouteInv, UpInv, NEW g \in Groups, removeRoute(g), fast' = fast, upstream' = upstream, ~Ended'
    PROVE  UpInv'
<1>1. /\ routes' \in [Groups -> RouteRecords] /\ routes'[g].upstr = "ABSENT"
      /\ \A k \in Groups : k # g => routes'[k] = routes[k]
    <2>1. NoRoute \in RouteRecords /\ NoRoute.upstr = "ABSENT"
        BY DEF NoRoute, RouteRecords
    <2>2. routes' = [routes EXCEPT ![g] = NoRoute]
        BY DEF removeRoute
    <2> QED
        BY <2>1, <2>2 DEF RouteInv
<1>2. cache' = cache \ {g}
    BY DEF removeRoute
<1>3. CASE LeaveUpstream({g})
    <2>1. OnlyGroup(g)
        BY <1>1, <1>2, <1>3, LeaveFacts DEF UpInv, OnlyGroup
    <2>2. InStep(g)'
        BY <1>1, <1>3, LeaveFacts DEF InStep
    <2> QED
        BY <2>1, <2>2, OneGroup
<1>4. CASE ~LeaveUpstream({g})
    <2>1. UNCHANGED upstrm /\ (fast = 0 => routes[g].upstr = "ABSENT")
        BY <1>4 DEF removeRoute, RouteInv, RouteRecords
    <2>2. OnlyGroup(g)
        BY <1>1, <1>2, <2>1 DEF UpInv, OnlyGroup, upstrm
    <2>3. InStep(g)'
        BY <1>1, <2>1 DEF InStep, UpInv, upstrm
    <2> QED
        BY <2>2, <2>3, OneGroup
<1> QED
    BY <1>3, <1>4

LEMMA AgeingKeeps ==
    ASSUME RouteInv, UpInv, NEW g \in Groups, routes[g].upstr # "ABSENT",
           internAgeRoute(g), fast' = fast, upstream' = upstream, ~Ended'
    PROVE  UpInv'
<1>1. CASE Aged(routes[g]).age = 0
    BY <1>1, RemoveKeeps DEF internAgeRoute
<1>2. CASE Aged(routes[g]).age # 0
    <2>1. routes' = [routes EXCEPT ![g] = Aged(routes[g])] /\ UNCHANGED <<upstrm, cache>>
        BY <1>2 DEF internAgeRoute
    <2>2. Aged(routes[g]).upstr = routes[g].upstr
        BY AgedRecord DEF RouteInv
    <2>3. routes'[g].upstr = routes[g].upstr /\ \A k \in Groups : k # g => routes'[k] = routes[k]
        BY <2>1, <2>2 DEF RouteInv
    <2>4. OnlyGroup(g)
        BY <2>1, <2>3 DEF UpInv, OnlyGroup, upstrm
    <2>5. InStep(g)'
        BY <2>1, <2>3 DEF InStep, UpInv, upstrm
    <2> QED
        BY <2>4, <2>5, OneGroup
<1> QED
    BY <1>1, <1>2

LEMMA UpStep ==
    ASSUME RouteInv, UpInv, [Next]_vars
    PROVE  UpInv'
<1>1. CASE UNCHANGED vars
    BY <1>1 DEF UpInv, InStep, Ended, vars, loop, wan, upstrm
<1>2. ASSUME NEW h \in Hosts, NEW g \in Groups, acceptGroupReport(h, g) PROVE UpInv'
    <2>1. fast' = fast /\ upstream' = upstream /\ ~Ended'
        BY <1>2 DEF acceptGroupReport, wan, Ended
    <2>2. CASE link # "up"
        <3>1. UNCHANGED <<routes, cache, joined, missed, rules>>
            BY <1>2, <2>2 DEF acceptGroupReport, upstrm
        <3> QED
            BY <2>1, <3>1, NoGroup
    <2>3. CASE link = "up"
        <3>1. /\ routes'[g].upstr = "JOINED" /\ \A k \in Groups : k # g => routes'[k] = routes[k]
            BY <1>2, <2>3 DEF acceptGroupReport, insertRoute, RouteInv
        <3>2. cache' = cache \cup {g}
            BY <1>2, <2>3 DEF acceptGroupReport, insertRoute, UpInv, InStep, Routed
        <3>3. /\ joined' \subseteq Groups /\ missed' \subseteq Groups /\ rules' \in [Groups -> Nat]
              /\ upstream = 1 => g \in joined' \cup missed' /\ rules'[g] # 0
              /\ fast = 0 /\ upstream = 1 => (g \in joined' <=> g \notin missed')
              /\ \A k \in Groups : k # g => /\ rules'[k] = rules[k]
                                            /\ k \in joined' <=> k \in joined
                                            /\ k \in missed' <=> k \in missed
            <4>1. CASE routes[g].upstr = "JOINED"
                <5>1. UNCHANGED upstrm
                    BY <1>2, <2>3, <4>1 DEF acceptGroupReport, insertRoute
                <5> QED
                    BY <4>1, <5>1 DEF UpInv, InStep, upstrm
            <4>2. CASE routes[g].upstr # "JOINED"
                <5>1. JoinUpstream(g)
                    BY <1>2, <2>3, <4>2 DEF acceptGroupReport, insertRoute
                <5> QED
                    BY <5>1, JoinFacts
            <4> QED
                BY <4>1, <4>2
        <3>4. OnlyGroup(g)
            BY <2>1, <3>1, <3>2, <3>3 DEF OnlyGroup, UpInv
        <3>5. InStep(g)'
            BY <2>1, <3>1, <3>2, <3>3 DEF InStep
        <3> QED
            BY <3>4, <3>5, OneGroup
    <2> QED
        BY <2>2, <2>3
<1>3. ASSUME NEW h \in Hosts, NEW g \in Groups, acceptLeaveMessage(h, g) PROVE UpInv'
    <2>1. fast' = fast /\ upstream' = upstream /\ ~Ended' /\ cache' = cache
        BY <1>3 DEF acceptLeaveMessage, wan, Ended
    <2>2. CASE g \notin Routed
        <3>1. UNCHANGED <<routes, joined, missed, rules>>
            BY <1>3, <2>2 DEF acceptLeaveMessage, setRouteLastMemberMode, upstrm
        <3> QED
            BY <2>1, <3>1, NoGroup
    <2>3. CASE g \in Routed
        <3>1. /\ routes'[g].upstr = "CHECK" /\ \A k \in Groups : k # g => routes'[k] = routes[k]
            <4>1. routes' = [routes EXCEPT ![g] =
                                 [routes[g] EXCEPT !.upstr = "CHECK", !.age = LastMemberCount]]
                BY <1>3, <2>3 DEF acceptLeaveMessage, setRouteLastMemberMode, RouteInv
            <4>2. routes[g] \in RouteRecords /\ LastMemberCount \in Nat
                BY DEF RouteInv
            <4>3. [routes[g] EXCEPT !.upstr = "CHECK", !.age = LastMemberCount].upstr = "CHECK"
                BY <4>2, CheckRecord
            <4> HIDE DEF RouteRecords
            <4> QED
                BY <4>1, <4>3 DEF RouteInv
        <3>2. g \in cache
            BY <2>3 DEF UpInv, InStep, Routed
        <3>3. CASE UNCHANGED upstrm
            <4>1. OnlyGroup(g)
                BY <2>1, <3>1, <3>3 DEF OnlyGroup, UpInv, upstrm
            <4>2. InStep(g)'
                BY <2>1, <2>3, <3>1, <3>2, <3>3 DEF InStep, UpInv, Routed, upstrm
            <4> QED
                BY <4>1, <4>2, OneGroup
        <3>4. CASE ~UNCHANGED upstrm
            <4>1. LeaveUpstream({g}) /\ fast # 0
                BY <1>3, <2>3, <3>4 DEF acceptLeaveMessage, setRouteLastMemberMode
            <4>2. OnlyGroup(g)
                BY <2>1, <3>1, <4>1, LeaveFacts DEF OnlyGroup, UpInv
            <4>3. InStep(g)'
                BY <2>1, <3>1, <3>2, <4>1 DEF InStep
            <4> QED
                BY <4>2, <4>3, OneGroup
        <3> QED
            BY <3>3, <3>4
    <2> QED
        BY <2>2, <2>3
<1>4. ASSUME UNCHANGED <<routes, upstrm, cache>>, fast' = fast, upstream' = upstream, ~Ended'
      PROVE  UpInv'
    BY <1>4 DEF UpInv, InStep, upstrm
<1>5. ASSUME NEW g \in Groups, sendGroupSpecificMemberQuery(g) PROVE UpInv'
    <2>1. fast' = fast /\ upstream' = upstream /\ ~Ended'
        BY <1>5 DEF sendGroupSpecificMemberQuery, Runs, Ended, loop, wan
    <2>2. CASE link = "up" /\ running = 1 /\ routes[g].upstr = "CHECK"
        BY <1>5, <2>1, <2>2, AgeingKeeps DEF sendGroupSpecificMemberQuery
    <2>3. CASE ~(link = "up" /\ running = 1 /\ routes[g].upstr = "CHECK")
        BY <1>4, <1>5, <2>1, <2>3 DEF sendGroupSpecificMemberQuery
    <2> QED
        BY <2>2, <2>3
<1>6. ASSUME NEW g \in Groups, AgeRoute(g) PROVE UpInv'
    <2>1. fast' = fast /\ upstream' = upstream /\ ~Ended' /\ routes[g].upstr # "ABSENT"
        BY <1>6 DEF AgeRoute, loop, wan, Ended, IsFirst, RouteInv
    <2>2. CASE routes[g].upstr # "CHECK"
        BY <1>6, <2>1, <2>2, AgeingKeeps DEF AgeRoute
    <2>3. CASE routes[g].upstr = "CHECK"
        BY <1>4, <1>6, <2>1, <2>3 DEF AgeRoute
    <2> QED
        BY <2>2, <2>3
<1>7. ASSUME NEW g \in Groups, SweepRoute(g) PROVE UpInv'
    <2>1. fast' = fast /\ upstream' = upstream /\ ~Ended'
        BY <1>7 DEF SweepRoute, loop, wan, Ended
    <2>2. CASE Swept(g)
        BY <1>7, <2>1, <2>2, RemoveKeeps DEF SweepRoute
    <2>3. CASE ~Swept(g)
        BY <1>4, <1>7, <2>1, <2>3 DEF SweepRoute
    <2> QED
        BY <2>2, <2>3
<1>8. CASE WriteThroughNull \/ igmpProxyCleanUp
    <2>1. /\ routes' = [g \in Groups |-> NoRoute] /\ joined' = {} /\ missed' = {} /\ cache' = {}
        BY <1>8 DEF WriteThroughNull, igmpProxyCleanUp, ProcessEnds
    <2>2. rules' \in [Groups -> Nat]
        BY <1>8 DEF WriteThroughNull, igmpProxyCleanUp, UpInv
    <2>3. NoRoute.upstr = "ABSENT"
        BY DEF NoRoute
    <2> QED
        BY <2>1, <2>2, <2>3 DEF UpInv, InStep
<1>9. CASE AgingEnds
    <2>1. /\ LeaveUpstream(cache \ Routed) /\ cache \cap Routed \subseteq cache' /\ cache' \subseteq cache
          /\ routes' = routes /\ fast' = fast /\ upstream' = upstream /\ ~Ended'
        BY <1>9 DEF AgingEnds, ipmrcache_gc, wan, Ended
    <2>2. ASSUME NEW k \in Groups PROVE InStep(k)'
        <3>1. k \in Routed => k \notin cache \ Routed
            OBVIOUS
        <3>2. /\ k \notin cache \ Routed => /\ rules'[k] = rules[k]
                                            /\ k \in joined' <=> k \in joined
                                            /\ k \in missed' <=> k \in missed
              /\ k \in cache \ Routed => k \notin missed' /\ (upstream = 1 => k \notin joined')
            BY <2>1, LeaveFacts
        <3>3. k \in Routed <=> routes[k].upstr # "ABSENT"
            BY DEF Routed
        <3>4. InStep(k)
            BY DEF UpInv
        <3> QED
            BY <2>1, <3>1, <3>2, <3>3, <3>4 DEF InStep
    <2> QED
        BY <2>1, <2>2, LeaveFacts DEF UpInv
<1>10. CASE Start
    <2>1. UNCHANGED <<routes, upstrm, cache>> /\ Ended /\ ~Ended'
        BY <1>10 DEF Start, Ended
    <2> QED
        BY <2>1 DEF UpInv, InStep, upstrm
<1>11. CASE LinkChange
    BY <1>11 DEF LinkChange, UpInv, InStep, Ended, loop, upstrm
<1>12. ASSUME NEW g \in Groups, KernelCache(g) PROVE UpInv'
    <2>1. OnlyGroup(g)
        BY <1>12 DEF KernelCache, OnlyGroup, UpInv, Ended, loop, wan, upstrm
    <2>2. InStep(g)'
        BY <1>12 DEF KernelCache, InStep, UpInv, Routed, wan, upstrm
    <2> QED
        BY <2>1, <2>2, OneGroup
<1>13. CASE Loop \/ OtherPacket \/ Done \/ TimedOut \/ \E n \in 0 .. MaxJump : Age(n)
    BY <1>4, <1>13 DEF Loop, OtherPacket, Done, TimedOut, Age, AgeBy, wan, Ended
<1>14. CASE sendGeneralMembershipQuery \/ RunProbe \/ ageActiveRoutes \/ SweepEnds
    BY <1>4, <1>14 DEF sendGeneralMembershipQuery, RunProbe, ageActiveRoutes, SweepEnds, Runs,
                       Ended, loop, wan
<1> QED
    BY <1>1, <1>2, <1>3, <1>5, <1>6, <1>7, <1>8, <1>9, <1>10, <1>11, <1>12, <1>13, <1>14
    DEF Next, Daemon, RunEvent, Packet

-----------------------------------------------------------------------------
(* The switch.                                                             *)

Listed == Hosts \X Groups

SlotTypes ==
    /\ mgroup \in [1 .. Slots -> Macs \cup {0}] /\ address \in [Macs -> 0 .. Slots]
    /\ register \in [1 .. Slots -> SUBSET (PortNums \cup AllPorts)] /\ orphans \subseteq Macs

SwitchInv ==
    /\ owner \in [Macs -> Groups \cup {0}]
    /\ report \in [Listed -> -1 .. CharMod - 1]
    /\ port \in [Listed -> PortNums \cup {-1}]
    /\ SlotTypes /\ SwitchInStep

LEMMA MacNumbers == Macs \subseteq Nat \ {0}
    BY DEF Macs

(* The listed members of the other Ethernet addresses stay, and their      *)
(* ports with them.                                                        *)
OnlyMac(m) == \A n \in Macs : n # m => PortMap(n)' = PortMap(n)

LEMMA MacTableKeeps ==
    ASSUME SlotTypes, SwitchInStep, NEW m \in Macs, OnlyMac(m),
           NEW P, P \subseteq PortNums \cup AllPorts, P = PortMap(m)', updateMacTable(m, P)
    PROVE  SlotTypes' /\ SwitchInStep'
<1>1. m # 0 /\ \A n \in Macs : n # 0
    BY MacNumbers
<1>2. CASE get_mgroup_index(m) = {}
    <2>1. UNCHANGED slots
        BY <1>2 DEF updateMacTable
    <2>2. \A i \in 1 .. Slots : mgroup[i] # m
        BY <1>2 DEF get_mgroup_index
    <2>3. ASSUME NEW n \in Macs, NEW i \in 1 .. Slots, mgroup'[i] = n
          PROVE  address'[n] = i /\ register'[i] = PortMap(n)' /\ register'[i] # {}
        <3>1. mgroup[i] = n /\ n # m
            BY <2>1, <2>2, <2>3 DEF slots
        <3>2. address[n] = i /\ register[i] = PortMap(n) /\ register[i] # {}
            BY <3>1 DEF SwitchInStep
        <3>3. PortMap(n)' = PortMap(n)
            BY <3>1 DEF OnlyMac
        <3> QED
            BY <2>1, <3>2, <3>3 DEF slots
    <2>4. \A n \in Macs \ orphans' : address'[n] # 0 => mgroup'[address'[n]] = n
        BY <2>1 DEF SwitchInStep, slots
    <2> QED
        BY <2>1, <2>3, <2>4 DEF SlotTypes, SwitchInStep, slots
<1>3. CASE get_mgroup_index(m) # {}
    <2>1. PICK i \in get_mgroup_index(m) :
              /\ mgroup' = [mgroup EXCEPT ![i] = IF P = {} THEN 0 ELSE m]
              /\ address' = [address EXCEPT ![m] = IF P = {} THEN 0 ELSE i]
              /\ register' = [register EXCEPT ![i] = P]
              /\ orphans' = orphans \ {m}
        BY <1>3 DEF updateMacTable
    <2>2. /\ i \in 1 .. Slots /\ mgroup[i] \in {m, 0}
          /\ mgroup[i] = 0 => \A j \in 1 .. Slots : mgroup[j] # m
        BY <1>1 DEF get_mgroup_index
    <2>3. /\ mgroup'[i] = (IF P = {} THEN 0 ELSE m) /\ address'[m] = (IF P = {} THEN 0 ELSE i)
          /\ register'[i] = P
          /\ \A j \in 1 .. Slots : j # i => mgroup'[j] = mgroup[j] /\ register'[j] = register[j]
          /\ \A n \in Macs : n # m => address'[n] = address[n]
        BY <2>1, <2>2 DEF SlotTypes
    <2>4. SlotTypes'
        BY <2>1, <2>2 DEF SlotTypes
    <2>5. \A j \in 1 .. Slots : j # i => mgroup[j] # m
        BY <1>1, <2>2 DEF SwitchInStep
    <2>6. ASSUME NEW n \in Macs, NEW j \in 1 .. Slots, mgroup'[j] = n
          PROVE  address'[n] = j /\ register'[j] = PortMap(n)' /\ register'[j] # {}
        <3>1. CASE j = i
            BY <1>1, <2>3, <2>6, <3>1
        <3>2. CASE j # i
            <4>1. mgroup[j] = n /\ n # m /\ register'[j] = register[j] /\ address'[n] = address[n]
                BY <2>3, <2>5, <2>6, <3>2
            <4>2. address[n] = j /\ register[j] = PortMap(n) /\ register[j] # {}
                BY <4>1 DEF SwitchInStep
            <4>3. PortMap(n)' = PortMap(n)
                BY <4>1 DEF OnlyMac
            <4> QED
                BY <4>1, <4>2, <4>3
        <3> QED
            BY <3>1, <3>2
    <2>7. ASSUME NEW n \in Macs \ orphans', address'[n] # 0 PROVE mgroup'[address'[n]] = n
        <3>1. CASE n = m
            BY <2>3, <2>7, <3>1
        <3>2. CASE n # m
            <4>1. n \notin orphans /\ address'[n] = address[n]
                BY <2>1, <2>3, <2>7, <3>2
            <4>2. mgroup[address[n]] = n /\ address[n] \in 1 .. Slots
                BY <2>7, <4>1 DEF SwitchInStep, SlotTypes
            <4>3. address[n] # i
                BY <1>1, <2>2, <3>2, <4>2
            <4> QED
                BY <2>3, <4>1, <4>2, <4>3
        <3> QED
            BY <3>1, <3>2
    <2> QED
        BY <2>4, <2>6, <2>7 DEF SwitchInStep
<1> QED
    BY <1>2, <1>3

LEMMA PortMapKeeps ==
    ASSUME SlotTypes, SwitchInStep, NEW m \in Macs, OnlyMac(m),
           (port \in [Listed -> PortNums \cup {-1}])', update_group_port_map(m)
    PROVE  SlotTypes' /\ SwitchInStep'
<1>1. CASE PortMap(m)' = PortMap(m)
    <2>1. UNCHANGED slots
        BY <1>1 DEF update_group_port_map
    <2>2. \A n \in Macs : PortMap(n)' = PortMap(n)
        BY <1>1 DEF OnlyMac
    <2> QED
        BY <2>1, <2>2 DEF SlotTypes, SwitchInStep, slots
<1>2. CASE PortMap(m)' # PortMap(m)
    <2>1. updateMacTable(m, PortMap(m)')
        BY <1>2 DEF update_group_port_map
    <2>2. PortMap(m)' \subseteq PortNums \cup AllPorts
        BY DEF PortMap, Members, Listed
    <2> QED
        BY <2>1, <2>2, MacTableKeeps
<1> QED
    BY <1>1, <1>2

LEMMA SamePorts ==
    ASSUME NEW n \in Macs, Members(n)' = Members(n), \A x \in Members(n) : port'[x] = port[x]
    PROVE  PortMap(n)' = PortMap(n)
<1>1. {port'[x] : x \in Members(n)'} = {port[x] : x \in Members(n)}
    OBVIOUS
<1>2. (\E x \in Members(n)' : port'[x] = -1) <=> (\E x \in Members(n) : port[x] = -1)
    OBVIOUS
<1> QED
    BY <1>1, <1>2 DEF PortMap

(* Members of one Ethernet address are set.                                *)
LEMMA OtherMacs ==
    ASSUME NEW m,
           \A x \in Listed : Mac[x[2]] # m => (report'[x] = -1 <=> report[x] = -1) /\ port'[x] = port[x]
    PROVE  OnlyMac(m)
<1> SUFFICES ASSUME NEW n \in Macs, n # m PROVE PortMap(n)' = PortMap(n)
    BY DEF OnlyMac
<1>1. Members(n)' = Members(n) /\ \A x \in Members(n) : port'[x] = port[x]
    BY DEF Members, Listed
<1> QED
    BY <1>1, SamePorts

LEMMA MemberSet ==
    ASSUME SwitchInv, NEW h \in Hosts, NEW g \in Groups,
           NEW v \in -1 .. CharMod - 1, NEW p \in PortNums \cup {-1},
           report' = [report EXCEPT ![<<h, g>>] = v], port' = [port EXCEPT ![<<h, g>>] = p]
    PROVE  /\ report' \in [Listed -> -1 .. CharMod - 1]
           /\ port' \in [Listed -> PortNums \cup {-1}]
           /\ OnlyMac(Mac[g]) /\ Mac[g] \in Macs
<1>1. <<h, g>> \in Listed /\ <<h, g>>[2] = g /\ Mac[g] \in Macs
    BY DEF Macs, Listed
<1>2. report' \in [Listed -> -1 .. CharMod - 1] /\ port' \in [Listed -> PortNums \cup {-1}]
    BY <1>1 DEF SwitchInv
<1>3. \A x \in Listed : x # <<h, g>> => report'[x] = report[x] /\ port'[x] = port[x]
    BY <1>1 DEF SwitchInv
<1>4. \A x \in Listed : Mac[x[2]] # Mac[g] => report'[x] = report[x] /\ port'[x] = port[x]
    BY <1>1, <1>3
<1> QED
    BY <1>1, <1>2, <1>4, OtherMacs

LEMMA MembersGone ==
    ASSUME SwitchInv, NEW g \in Groups, NEW S, \A x \in S : Mac[x[2]] = Mac[g], Unlisted(S)
    PROVE  /\ report' \in [Listed -> -1 .. CharMod - 1]
           /\ port' \in [Listed -> PortNums \cup {-1}]
           /\ \A x \in Listed : x \in S => report'[x] = -1
           /\ OnlyMac(Mac[g]) /\ Mac[g] \in Macs
<1>1. /\ report' = [x \in Listed |-> IF x \in S THEN -1 ELSE report[x]]
      /\ port' = [x \in Listed |-> IF x \in S THEN -1 ELSE port[x]]
    BY DEF Unlisted, SwitchInv
<1>2. report' \in [Listed -> -1 .. CharMod - 1]
    BY <1>1 DEF SwitchInv
<1>3. port' \in [Listed -> PortNums \cup {-1}]
    BY <1>1 DEF SwitchInv
<1>4. \A x \in Listed : Mac[x[2]] # Mac[g] => report'[x] = report[x] /\ port'[x] = port[x]
    BY <1>1
<1> QED
    BY <1>1, <1>2, <1>3, <1>4, OtherMacs DEF Macs

LEMMA Wraps ==
    ASSUME NEW r \in 0 .. CharMod - 1
    PROVE  (r - 1) % CharMod \in 0 .. CharMod - 1
    OBVIOUS

LEMMA RemovesKeep ==
    ASSUME SwitchInv, NEW g \in Groups, remove_multicast_ip(g)
    PROVE  SwitchInv'
<1>1. CASE owner[Mac[g]] = 0
    BY <1>1 DEF remove_multicast_ip, switch, members, slots, SwitchInv, SlotTypes, SwitchInStep, PortMap, Members
<1>2. CASE owner[Mac[g]] # 0
    <2>1. /\ Unlisted(Members(Mac[g])) /\ updateMacTable(Mac[g], {})
          /\ owner' = [owner EXCEPT ![Mac[g]] = 0]
        BY <1>2 DEF remove_multicast_ip
    <2>2. /\ report' \in [Listed -> -1 .. CharMod - 1] /\ port' \in [Listed -> PortNums \cup {-1}]
          /\ \A x \in Listed : x \in Members(Mac[g]) => report'[x] = -1
          /\ OnlyMac(Mac[g]) /\ Mac[g] \in Macs
        <3>1. \A x \in Members(Mac[g]) : Mac[x[2]] = Mac[g]
            BY DEF Members
        <3> QED
            BY <2>1, <3>1, MembersGone
    <2>3. owner' \in [Macs -> Groups \cup {0}]
        BY <2>1, <2>2 DEF SwitchInv
    <2>4. Members(Mac[g])' = {}
        <3>1. ASSUME NEW x \in Listed, Mac[x[2]] = Mac[g], report'[x] # -1 PROVE FALSE
            <4>1. x \in Members(Mac[g]) \/ report[x] = -1
                BY <3>1 DEF Members, Listed
            <4>2. report'[x] = IF x \in Members(Mac[g]) THEN -1 ELSE report[x]
                BY <2>1 DEF Unlisted, SwitchInv
            <4> QED
                BY <3>1, <4>1, <4>2
        <3> QED
            BY <3>1 DEF Members, Listed
    <2>5. PortMap(Mac[g])' = {}
        BY <2>4 DEF PortMap
    <2>6. SlotTypes' /\ SwitchInStep'
        BY <2>1, <2>2, <2>5, MacTableKeeps DEF SwitchInv
    <2> QED
        BY <2>2, <2>3, <2>6 DEF SwitchInv
<1> QED
    BY <1>1, <1>2

(* The end of the process, with the switch left as it is or emptied.       *)
LEMMA EndKeeps ==
    ASSUME SwitchInv, ProcessEnds, remove_all_groups \/ (orphans' = {m \in Macs : address[m] # 0} /\ UNCHANGED <<address, register>>)
    PROVE  SwitchInv'
<1>1. /\ owner' \in [Macs -> Groups \cup {0}] /\ report' \in [Listed -> -1 .. CharMod - 1]
      /\ port' \in [Listed -> PortNums \cup {-1}]
    BY DEF ProcessEnds, Unlisted, SwitchInv
<1>2. mgroup' = [i \in 1 .. Slots |-> 0]
    BY DEF ProcessEnds
<1>3. \A i \in 1 .. Slots, m \in Macs : mgroup'[i] # m
    BY <1>2, MacNumbers
<1>4. CASE remove_all_groups
    <2> DEFINE held == {m \in Macs : \E i \in 1 .. Slots : mgroup[i] = m}
               free == {i \in 1 .. Slots : mgroup[i] = 0}
    <2>1. PICK S \in SUBSET {m \in Macs \ held : owner[m] # 0}, F \in SUBSET free :
              /\ S = {} => F = {}
              /\ address' = [m \in Macs |-> IF m \in held \cup S THEN 0 ELSE address[m]]
              /\ register' = [i \in 1 .. Slots |-> IF i \in free \ F THEN register[i] ELSE {}]
              /\ orphans' = orphans \ (held \cup S)
        BY <1>4 DEF remove_all_groups
    <2>2. SlotTypes'
        BY <1>2, <2>1 DEF SlotTypes, SwitchInv
    <2>3. ASSUME NEW n \in Macs \ orphans' PROVE address'[n] = 0
        <3>1. CASE n \in held \cup S
            BY <2>1, <3>1
        <3>2. CASE n \notin held \cup S
            <4>1. n \notin orphans /\ address'[n] = address[n]
                BY <2>1, <2>3, <3>2
            <4>2. address[n] # 0 => mgroup[address[n]] = n /\ address[n] \in 1 .. Slots
                BY <4>1 DEF SwitchInv, SwitchInStep, SlotTypes
            <4> QED
                BY <3>2, <4>1, <4>2
        <3> QED
            BY <3>1, <3>2
    <2> QED
        BY <1>1, <1>3, <2>2, <2>3 DEF SwitchInv, SwitchInStep
<1>5. CASE orphans' = {m \in Macs : address[m] # 0} /\ UNCHANGED <<address, register>>
    BY <1>1, <1>2, <1>3, <1>5 DEF SwitchInv, SwitchInStep, SlotTypes
<1> QED
    BY <1>4, <1>5

LEMMA SwitchStep ==
    ASSUME SwitchInv, [Next]_vars
    PROVE  SwitchInv'
<1>1. ASSUME UNCHANGED switch PROVE SwitchInv'
    BY <1>1 DEF switch, members, slots, SwitchInv, SlotTypes, SwitchInStep, PortMap, Members
<1>2. ASSUME NEW h \in Hosts, NEW g \in Groups, acceptGroupReport(h, g) PROVE SwitchInv'
    <2>1. /\ owner' = [owner EXCEPT ![Mac[g]] = IF owner[Mac[g]] = 0 THEN g ELSE owner[Mac[g]]]
          /\ report' = [report EXCEPT ![<<h, g>>] = ReportLife]
          /\ update_group_port_map(Mac[g])
        BY <1>2 DEF acceptGroupReport, insert_multicast_ip
    <2>2. PICK p \in PortNums : port' = [port EXCEPT ![<<h, g>>] = p]
        BY <1>2 DEF acceptGroupReport, insert_multicast_ip
    <2>3. ReportLife \in -1 .. CharMod - 1
        OBVIOUS
    <2>4. /\ report' \in [Listed -> -1 .. CharMod - 1] /\ port' \in [Listed -> PortNums \cup {-1}]
          /\ OnlyMac(Mac[g]) /\ Mac[g] \in Macs
        BY <2>1, <2>2, <2>3, MemberSet
    <2>5. owner' \in [Macs -> Groups \cup {0}]
        BY <2>1, <2>4 DEF SwitchInv
    <2>6. SlotTypes' /\ SwitchInStep'
        BY <2>1, <2>4, PortMapKeeps DEF SwitchInv
    <2> QED
        BY <2>4, <2>5, <2>6 DEF SwitchInv
<1>3. ASSUME NEW g \in Groups, NEW S, \A x \in S : Mac[x[2]] = Mac[g], Unlisted(S), owner' = owner,
             update_group_port_map(Mac[g]) \/ updateMacTable(Mac[g], PortMap(Mac[g])')
      PROVE  SwitchInv'
    <2>1. /\ report' \in [Listed -> -1 .. CharMod - 1] /\ port' \in [Listed -> PortNums \cup {-1}]
          /\ OnlyMac(Mac[g]) /\ Mac[g] \in Macs
        BY <1>3, MembersGone
    <2>2. PortMap(Mac[g])' \subseteq PortNums \cup AllPorts
        BY <2>1 DEF PortMap, Members, Listed
    <2>3. SlotTypes' /\ SwitchInStep'
        BY <1>3, <2>1, <2>2, PortMapKeeps, MacTableKeeps DEF SwitchInv
    <2> QED
        BY <1>3, <2>1, <2>3 DEF SwitchInv
<1>4. ASSUME NEW h \in Hosts, NEW g \in Groups, acceptLeaveMessage(h, g) PROVE SwitchInv'
    <2>1. Unlisted({<<h, g>>}) /\ owner' = owner /\ update_group_port_map(Mac[g])
        BY <1>4 DEF acceptLeaveMessage, remove_member
    <2> QED
        BY <1>3, <2>1
<1>5. ASSUME NEW g \in Groups, SweepRoute(g) PROVE SwitchInv'
    <2>1. /\ Unlisted(Silent(g)) /\ owner' = owner
          /\ update_group_port_map(Mac[g]) \/ updateMacTable(Mac[g], PortMap(Mac[g])')
        BY <1>5 DEF SweepRoute, sweap_no_report_members
    <2>2. \A x \in Silent(g) : Mac[x[2]] = Mac[g]
        BY DEF Silent, Members
    <2> QED
        BY <1>3, <2>1, <2>2
<1>6. ASSUME NEW g \in Groups, internAgeRoute(g) PROVE SwitchInv'
    BY <1>1, <1>6, RemovesKeep DEF internAgeRoute
<1>7. ASSUME NEW g \in Groups, sendGroupSpecificMemberQuery(g) \/ AgeRoute(g) PROVE SwitchInv'
    BY <1>1, <1>6, <1>7 DEF sendGroupSpecificMemberQuery, AgeRoute
<1>8. CASE WriteThroughNull \/ igmpProxyCleanUp
    BY <1>8, EndKeeps DEF WriteThroughNull, igmpProxyCleanUp
<1>9. CASE RunProbe
    <2>1. /\ UNCHANGED <<owner, port, slots>>
          /\ report' = [x \in Listed |->
                           IF report[x] = -1 THEN -1 ELSE (report[x] - 1) % CharMod]
        BY <1>9 DEF RunProbe, query_specific_members, SwitchInv
    <2>2. \A x \in Listed : report[x] # -1 =>
              (report[x] - 1) % CharMod \in 0 .. CharMod - 1
        BY Wraps DEF SwitchInv
    <2>3. /\ report' \in [Listed -> -1 .. CharMod - 1]
          /\ \A x \in Listed : report'[x] = -1 <=> report[x] = -1
        BY <2>1, <2>2
    <2>4. \A m \in Macs : Members(m)' = Members(m)
        BY <2>3 DEF Members, Listed
    <2>5. \A m \in Macs : PortMap(m)' = PortMap(m)
        BY <2>1, <2>4, SamePorts
    <2> QED
        BY <2>1, <2>3, <2>5 DEF SwitchInv, SlotTypes, SwitchInStep, slots
<1>10. CASE Loop \/ OtherPacket \/ Done \/ TimedOut \/ \E n \in 0 .. MaxJump : Age(n)
    BY <1>1, <1>10 DEF Loop, OtherPacket, Done, TimedOut, Age, AgeBy
<1>11. CASE sendGeneralMembershipQuery \/ ageActiveRoutes \/ SweepEnds \/ AgingEnds
    BY <1>1, <1>11 DEF sendGeneralMembershipQuery, ageActiveRoutes, SweepEnds, AgingEnds
<1>12. CASE Start \/ LinkChange \/ \E g \in Groups : KernelCache(g)
    BY <1>1, <1>12 DEF Start, LinkChange, KernelCache
<1>13. CASE UNCHANGED vars
    BY <1>1, <1>13 DEF vars
<1> QED
    BY <1>2, <1>4, <1>5, <1>7, <1>8, <1>9, <1>10, <1>11, <1>12, <1>13
    DEF Next, Daemon, RunEvent, Packet

-----------------------------------------------------------------------------
(* The timers, and where the loop is with them.                            *)

QueueInv ==
    /\ queue \in Queues(Events) /\ due \in Seq(Events)
    /\ pc \in {"sweep", "aging"} => due # <<>> /\ Head(due) = Event("age", 0)
    /\ pc \notin {"run", "sweep", "aging"} => due = <<>>

LEMMA EventTypes ==
    /\ Event("general", 0) \in Events /\ Event("age", 0) \in Events
    /\ Event("probe", 0) \in Events /\ \A g \in Groups : Event("last", g) \in Events
    BY DEF Event, Events

LEMMA EmptyQueue == ASSUME NEW E PROVE <<>> \in Queues(E)
    BY DEF Queues

(* Timers are only added.                                                  *)
Grows(q, r) == r \in Queues(Events) /\ \A x : HasEvent(q, x) => HasEvent(r, x)

LEMMA OneMore ==
    ASSUME NEW q \in Queues(Events), NEW d \in Nat, NEW e \in Events
    PROVE  Grows(q, timer_setTimer(q, d, e)) /\ HasEvent(timer_setTimer(q, d, e), e)
    BY TimerAdds DEF Grows

LEMMA QueryTimersAdd ==
    ASSUME NEW q \in Queues(Events), NEW c
    PROVE  Grows(q, QueryTimers(q, c))
<1> DEFINE a == timer_setTimer(q, AgeDelay, Event("age", 0))
           b == timer_setTimer(a, StartupInterval, Event("general", 0))
           d == timer_setTimer(a, QueryInterval, Event("general", 0))
           e == timer_setTimer(d, ProbeDelay, Event("probe", 0))
<1>1. Grows(q, a)
    BY OneMore, EventTypes
<1>2. a \in Queues(Events)
    BY <1>1 DEF Grows
<1>3. QueryTimers(q, c) = IF c > 0 THEN b ELSE e
    BY DEF QueryTimers
<1> HIDE DEF a
<1>4. Grows(a, b) /\ Grows(a, d)
    BY <1>2, OneMore, EventTypes
<1>5. d \in Queues(Events)
    BY <1>4 DEF Grows
<1> HIDE DEF b, d
<1>6. Grows(d, e)
    BY <1>5, OneMore, EventTypes
<1> HIDE DEF e
<1> QED
    BY <1>1, <1>3, <1>4, <1>6 DEF Grows

LEMMA NextTimer ==
    ASSUME NEW q \in Queues(Events), q # <<>>
    PROVE  timer_nextTimer(q) \in Nat
<1>1. Len(q) \in Nat /\ Len(q) # 0
    BY DEF Queues
<1>2. 1 \in 1 .. Len(q)
    BY <1>1
<1> QED
    BY <1>2, NodeTypes DEF timer_nextTimer

LEMMA QueueStep ==
    ASSUME QueueInv, [Next]_vars
    PROVE  QueueInv'
<1> USE EventTypes
<1>1. CASE UNCHANGED vars
    BY <1>1 DEF QueueInv, vars, loop, timers
<1>2. ASSUME NEW n \in Nat, AgeBy(n) PROVE QueueInv'
    <2>1. Remaining(queue, n) \in Queues(Events) /\ Expired(queue, n) \in Seq(Events)
        BY AgeingSplits DEF QueueInv
    <2> QED
        BY <1>2, <2>1 DEF AgeBy, QueueInv
<1>3. CASE TimedOut
    BY <1>2, <1>3, NextTimer DEF TimedOut, QueueInv
<1>4. ASSUME NEW n \in 0 .. MaxJump, Age(n) PROVE QueueInv'
    BY <1>2, <1>4 DEF Age
<1>5. ASSUME NEW h \in Hosts, NEW g \in Groups, acceptLeaveMessage(h, g) PROVE QueueInv'
    <2>1. queue' \in Queues(Events)
        <3>1. queue' = queue \/ queue' = timer_setTimer(queue, LastMemberInterval, Event("last", g))
            BY <1>5 DEF acceptLeaveMessage, StartQueries, Timer
        <3>2. queue \in Queues(Events) /\ Event("last", g) \in Events /\ LastMemberInterval \in Nat
            BY EventTypes DEF QueueInv
        <3>3. timer_setTimer(queue, LastMemberInterval, Event("last", g)) \in Queues(Events)
            BY <3>2, OneMore DEF Grows
        <3> QED
            BY <3>1, <3>2, <3>3
    <2> QED
        BY <1>5, <2>1 DEF acceptLeaveMessage, QueueInv
<1>6. CASE sendGeneralMembershipQuery
    <2>1. queue' \in Queues(Events)
        BY <1>6, QueryTimersAdd DEF sendGeneralMembershipQuery, Grows, QueueInv
    <2>2. pc = "run" /\ pc' = pc /\ due # <<>> /\ due' = Tail(due)
        BY <1>6 DEF sendGeneralMembershipQuery, Runs, loop
    <2> QED
        BY <2>1, <2>2 DEF QueueInv
<1>7. ASSUME NEW g \in Groups, sendGroupSpecificMemberQuery(g) PROVE QueueInv'
    <2>1. queue' \in Queues(Events)
        BY <1>7, OneMore DEF sendGroupSpecificMemberQuery, Timer, Grows, QueueInv
    <2>2. pc = "run" /\ pc' = pc /\ due # <<>> /\ due' = Tail(due)
        BY <1>7 DEF sendGroupSpecificMemberQuery, Runs, loop
    <2> QED
        BY <2>1, <2>2 DEF QueueInv
<1>8. CASE RunProbe
    <2>1. pc = "run" /\ pc' = pc /\ due # <<>> /\ due' = Tail(due) /\ queue' = queue
        BY <1>8 DEF RunProbe, Runs, loop
    <2> QED
        BY <2>1 DEF QueueInv
<1>9. CASE ageActiveRoutes \/ SweepEnds \/ Done
    BY <1>9 DEF ageActiveRoutes, SweepEnds, Done, Runs, QueueInv, timers
<1>10. CASE AgingEnds
    BY <1>10 DEF AgingEnds, QueueInv
<1>11. CASE \E g \in Groups : SweepRoute(g) \/ AgeRoute(g)
    BY <1>11 DEF SweepRoute, AgeRoute, QueueInv, loop
<1>12. CASE Loop \/ OtherPacket \/ \E h \in Hosts, g \in Groups : acceptGroupReport(h, g)
    BY <1>12 DEF Loop, OtherPacket, acceptGroupReport, QueueInv, timers
<1>13. CASE WriteThroughNull \/ igmpProxyCleanUp
    <2>1. queue' = <<>> /\ due' = due /\ pc \in {"loop", "select"} /\ pc' \in {"stopped", "crashed"}
        BY <1>13 DEF WriteThroughNull, igmpProxyCleanUp, ProcessEnds
    <2> QED
        BY <2>1, EmptyQueue DEF QueueInv
<1>14. CASE Start
    <2>1. queue' \in Queues(Events)
        BY <1>14, EmptyQueue, QueryTimersAdd DEF Start, Grows
    <2> QED
        BY <1>14, <2>1 DEF Start, QueueInv
<1>15. CASE LinkChange \/ \E g \in Groups : KernelCache(g)
    BY <1>15 DEF LinkChange, KernelCache, QueueInv, loop, timers
<1> QED
    BY <1>1, <1>3, <1>4, <1>5, <1>6, <1>7, <1>8, <1>9, <1>10, <1>11, <1>12, <1>13, <1>14, <1>15
    DEF Next, Daemon, RunEvent, Packet

-----------------------------------------------------------------------------
(* The scalars.                                                            *)

ScalarInv ==
    /\ pc \in {"loop", "select", "age", "run", "sweep", "aging", "stopped", "crashed"}
    /\ timeout \in {"tv", "NULL"} /\ startup \in 0 .. StartupCount
    /\ link \in {"up", "down"} /\ running \in {0, 1} /\ fast \in FastLeaves
    /\ flapped \in {0, 1} /\ upstream \in {0, 1}
    /\ flapped = 0 => link = "up"

LEMMA ScalarStep ==
    ASSUME ScalarInv, [Next]_vars
    PROVE  ScalarInv'
<1>1. ASSUME UNCHANGED <<timeout, startup, wan, fast>>,
             pc' \in {"loop", "select", "age", "run", "sweep", "aging", "stopped", "crashed"}
      PROVE  ScalarInv'
    BY <1>1 DEF ScalarInv, wan
<1>2. CASE UNCHANGED vars
    BY <1>2 DEF ScalarInv, vars, loop, timers, wan
<1>3. CASE Packet
    <2>1. UNCHANGED <<timeout, startup, wan, fast>> /\ pc' = "age"
        BY <1>3 DEF Packet, acceptGroupReport, acceptLeaveMessage, OtherPacket, timers
    <2> QED
        BY <1>1, <2>1
<1>4. CASE Loop
    BY <1>4 DEF Loop, ScalarInv, timers, wan
<1>5. CASE WriteThroughNull \/ igmpProxyCleanUp
    BY <1>1, <1>5 DEF WriteThroughNull, igmpProxyCleanUp
<1>6. CASE TimedOut \/ \E n \in 0 .. MaxJump : Age(n)
    BY <1>1, <1>6 DEF TimedOut, Age, AgeBy
<1>7. CASE sendGeneralMembershipQuery
    <2>1. UNCHANGED <<pc, timeout, wan, fast>>
        BY <1>7 DEF sendGeneralMembershipQuery, loop
    <2>2. startup' \in 0 .. StartupCount
        BY <1>7 DEF sendGeneralMembershipQuery, ScalarInv
    <2> QED
        BY <2>1, <2>2 DEF ScalarInv, wan
<1>8. CASE RunProbe \/ \E g \in Groups : sendGroupSpecificMemberQuery(g) \/ SweepRoute(g) \/ AgeRoute(g)
    <2>1. UNCHANGED <<loop, startup, wan, fast>>
        BY <1>8 DEF RunProbe, sendGroupSpecificMemberQuery, SweepRoute, AgeRoute
    <2> QED
        BY <2>1 DEF ScalarInv, loop, wan
<1>9. CASE ageActiveRoutes \/ SweepEnds \/ AgingEnds \/ Done
    BY <1>1, <1>9 DEF ageActiveRoutes, SweepEnds, AgingEnds, Done, timers
<1>10. CASE Start
    BY <1>10 DEF Start, ScalarInv
<1>11. CASE LinkChange
    BY <1>11 DEF LinkChange, ScalarInv, loop, timers
<1>12. CASE \E g \in Groups : KernelCache(g)
    BY <1>12 DEF KernelCache, ScalarInv, loop, timers, wan
<1> QED
    BY <1>2, <1>3, <1>4, <1>5, <1>6, <1>7, <1>8, <1>9, <1>10, <1>11, <1>12
    DEF Next, Daemon, RunEvent

-----------------------------------------------------------------------------
(* The pending query of a route in its last-member check.                  *)

Queried(g) == HasEvent(queue, Event("last", g)) \/ HasDue(due, Event("last", g))

ProbeInv ==
    running = 1 /\ flapped = 0 => \A g \in Groups : routes[g].upstr = "CHECK" => Queried(g)

LEMMA TailKeeps ==
    ASSUME NEW E, NEW s \in Seq(E), s # <<>>, NEW x, HasDue(s, x), Head(s) # x
    PROVE  HasDue(Tail(s), x)
<1>1. PICK i \in 1 .. Len(s) : s[i] = x
    BY DEF HasDue
<1>2. i # 1
    BY <1>1
<1>3. i - 1 \in 1 .. Len(Tail(s)) /\ Tail(s)[i - 1] = x
    BY <1>1, <1>2
<1> QED
    BY <1>3 DEF HasDue

LEMMA EventsDiffer ==
    /\ \A g, k : g # k => Event("last", g) # Event("last", k)
    /\ \A g : Event("last", g) # Event("age", 0)
    /\ \A g : Event("last", g) # Event("general", 0)
    /\ \A g : Event("last", g) # Event("probe", 0)
    BY DEF Event

LEMMA ProbeStep ==
    ASSUME RouteInv, UpInv, QueueInv, ScalarInv, ProbeInv, [Next]_vars
    PROVE  ProbeInv'
<1>1. ASSUME UNCHANGED wan,
             \A g \in Groups : routes'[g].upstr = "CHECK" => routes[g].upstr = "CHECK",
             \A g \in Groups : Queried(g) => Queried(g)'
      PROVE  ProbeInv'
    BY <1>1 DEF ProbeInv, wan
<1>2. ASSUME UNCHANGED <<wan, queue, due>>,
             \A g \in Groups : routes'[g].upstr = "CHECK" => routes[g].upstr = "CHECK"
      PROVE  ProbeInv'
    BY <1>2 DEF ProbeInv, wan, Queried
<1>3. ASSUME due # <<>>, due' = Tail(due), queue' = queue \/ Grows(queue, queue'),
             NEW e, Head(due) = e
      PROVE  \A g \in Groups : Event("last", g) # e => (Queried(g) => Queried(g)')
    <2>1. ASSUME NEW g \in Groups, Event("last", g) # e, HasEvent(queue, Event("last", g))
          PROVE  Queried(g)'
        BY <1>3, <2>1 DEF Grows, Queried
    <2>2. ASSUME NEW g \in Groups, Event("last", g) # e, HasDue(due, Event("last", g))
          PROVE  Queried(g)'
        <3>1. HasDue(Tail(due), Event("last", g))
            BY <1>3, <2>2, TailKeeps DEF QueueInv
        <3> QED
            BY <1>3, <3>1 DEF Queried
    <2> QED
        BY <2>1, <2>2 DEF Queried
<1>4. CASE UNCHANGED vars
    BY <1>2, <1>4 DEF vars, timers
<1>5. ASSUME NEW h \in Hosts, NEW g \in Groups, acceptGroupReport(h, g) PROVE ProbeInv'
    <2>1. UNCHANGED <<wan, queue, due>>
        BY <1>5 DEF acceptGroupReport, timers
    <2>2. \A k \in Groups : routes'[k].upstr = "CHECK" => routes[k].upstr = "CHECK"
        BY <1>5 DEF acceptGroupReport, insertRoute, RouteInv
    <2> QED
        BY <1>2, <2>1, <2>2
<1>6. ASSUME NEW h \in Hosts, NEW g \in Groups, acceptLeaveMessage(h, g) PROVE ProbeInv'
    <2>1. UNCHANGED wan /\ due' = due
        BY <1>6 DEF acceptLeaveMessage
    <2>2. \A k \in Groups : k # g => routes'[k] = routes[k]
        BY <1>6 DEF acceptLeaveMessage, setRouteLastMemberMode, RouteInv
    <2>3. queue' = queue \/ Grows(queue, queue')
        BY <1>6, OneMore, EventTypes DEF acceptLeaveMessage, StartQueries, Timer, QueueInv
    <2>4. link = "up" /\ running = 1 => HasEvent(queue', Event("last", g))
        BY <1>6, OneMore, EventTypes DEF acceptLeaveMessage, StartQueries, Timer, QueueInv
    <2>5. \A k \in Groups : Queried(k) => Queried(k)'
        BY <2>1, <2>3 DEF Queried, Grows
    <2>6. running = 1 /\ flapped = 0 => Queried(g)'
        BY <2>4 DEF Queried, ScalarInv
    <2> QED
        BY <2>1, <2>2, <2>5, <2>6 DEF ProbeInv, wan
<1>7. ASSUME NEW n \in Nat, AgeBy(n), due = <<>> PROVE ProbeInv'
    <2>1. /\ queue' = Remaining(queue, n) /\ due' = Expired(queue, n)
          /\ UNCHANGED wan /\ routes' = routes
        BY <1>7 DEF AgeBy
    <2>2. \A x : HasEvent(queue, x) => HasEvent(queue', x) \/ HasDue(due', x)
        BY <2>1, AgeingSplits DEF QueueInv
    <2>3. \A x : ~HasDue(due, x)
        BY <1>7 DEF HasDue
    <2>4. \A g \in Groups : Queried(g) => Queried(g)'
        BY <2>2, <2>3 DEF Queried
    <2> QED
        BY <1>1, <2>1, <2>4
<1>8. CASE TimedOut
    BY <1>7, <1>8, NextTimer DEF TimedOut, QueueInv
<1>9. ASSUME NEW n \in 0 .. MaxJump, Age(n) PROVE ProbeInv'
    BY <1>7, <1>9 DEF Age, QueueInv
<1>10. CASE sendGeneralMembershipQuery
    <2>1. due # <<>> /\ due' = Tail(due) /\ Head(due) = Event("general", 0)
        BY <1>10 DEF sendGeneralMembershipQuery, Runs
    <2>2. queue' = queue \/ Grows(queue, queue')
        BY <1>10, QueryTimersAdd DEF sendGeneralMembershipQuery, QueueInv
    <2>3. UNCHANGED wan /\ routes' = routes
        BY <1>10 DEF sendGeneralMembershipQuery
    <2> QED
        BY <1>1, <1>3, <2>1, <2>2, <2>3, EventsDiffer
<1>11. CASE RunProbe
    <2>1. due # <<>> /\ due' = Tail(due) /\ Head(due) = Event("probe", 0)
        BY <1>11 DEF RunProbe, Runs
    <2>2. UNCHANGED wan /\ routes' = routes /\ queue' = queue
        BY <1>11 DEF RunProbe
    <2> QED
        BY <1>1, <1>3, <2>1, <2>2, EventsDiffer
<1>12. CASE AgingEnds
    <2>1. due # <<>> /\ due' = Tail(due) /\ Head(due) = Event("age", 0)
        BY <1>12 DEF AgingEnds, QueueInv
    <2>2. UNCHANGED wan /\ routes' = routes /\ queue' = queue
        BY <1>12 DEF AgingEnds
    <2> QED
        BY <1>1, <1>3, <2>1, <2>2, EventsDiffer
<1>13. ASSUME NEW g \in Groups, removeRoute(g) \/ internAgeRoute(g)
       PROVE  \A k \in Groups : /\ k # g => routes'[k] = routes[k]
                                /\ routes'[k].upstr = "CHECK" => routes[k].upstr = "CHECK"
    <2>1. NoRoute.upstr = "ABSENT" /\ Aged(routes[g]).upstr = routes[g].upstr
        <3>1. routes[g] \in RouteRecords
            BY DEF RouteInv
        <3> QED
            BY <3>1 DEF NoRoute, Aged, RouteRecords
    <2>2. \/ routes' = [routes EXCEPT ![g] = NoRoute]
          \/ routes' = [routes EXCEPT ![g] = Aged(routes[g])]
        BY <1>13 DEF removeRoute, internAgeRoute
    <2> QED
        BY <2>1, <2>2 DEF RouteInv
<1>14. ASSUME NEW g \in Groups, sendGroupSpecificMemberQuery(g) PROVE ProbeInv'
    <2>1. due # <<>> /\ due' = Tail(due) /\ Head(due) = Event("last", g) /\ UNCHANGED wan
        BY <1>14 DEF sendGroupSpecificMemberQuery, Runs
    <2>2. queue' = queue \/ Grows(queue, queue')
        BY <1>14, OneMore, EventTypes DEF sendGroupSpecificMemberQuery, Timer, QueueInv
    <2>3. \A k \in Groups : k # g => routes'[k] = routes[k]
        BY <1>13, <1>14 DEF sendGroupSpecificMemberQuery
    <2>4. running = 1 /\ flapped = 0 /\ routes'[g].upstr = "CHECK" => Queried(g)'
        <3> SUFFICES ASSUME running = 1, flapped = 0, routes'[g].upstr = "CHECK"
                     PROVE  Queried(g)'
            OBVIOUS
        <3>1. link = "up"
            BY DEF ScalarInv
        <3>2. routes[g].upstr = "CHECK"
            BY <1>13, <1>14 DEF sendGroupSpecificMemberQuery
        <3>3. g \in Routed'
            BY DEF Routed
        <3>4. queue' = timer_setTimer(queue, LastMemberInterval, Event("last", g))
            BY <1>14, <3>1, <3>2, <3>3 DEF sendGroupSpecificMemberQuery, Timer
        <3>5. HasEvent(timer_setTimer(queue, LastMemberInterval, Event("last", g)), Event("last", g))
            BY OneMore, EventTypes DEF QueueInv
        <3> QED
            BY <3>4, <3>5 DEF Queried
    <2>5. \A k \in Groups : k # g => (Queried(k) => Queried(k)')
        BY <1>3, <2>1, <2>2, EventsDiffer
    <2> QED
        BY <2>1, <2>3, <2>4, <2>5 DEF ProbeInv, wan
<1>15. ASSUME NEW g \in Groups, SweepRoute(g) \/ AgeRoute(g) PROVE ProbeInv'
    <2>1. UNCHANGED <<wan, queue, due>>
        BY <1>15 DEF SweepRoute, AgeRoute
    <2>2. \A k \in Groups : routes'[k].upstr = "CHECK" => routes[k].upstr = "CHECK"
        BY <1>13, <1>15 DEF SweepRoute, AgeRoute
    <2> QED
        BY <1>2, <2>1, <2>2
<1>16. CASE Loop \/ OtherPacket \/ Done \/ \E g \in Groups : KernelCache(g)
    BY <1>2, <1>16 DEF Loop, OtherPacket, Done, KernelCache, timers
<1>17. CASE ageActiveRoutes \/ SweepEnds
    BY <1>2, <1>17 DEF ageActiveRoutes, SweepEnds
<1>18. CASE WriteThroughNull \/ igmpProxyCleanUp
    <2>1. routes' = [g \in Groups |-> NoRoute]
        BY <1>18 DEF WriteThroughNull, igmpProxyCleanUp, ProcessEnds
    <2> QED
        BY <2>1 DEF NoRoute, ProbeInv
<1>19. CASE Start
    <2>1. routes' = routes /\ Ended
        BY <1>19 DEF Start, Ended
    <2> QED
        BY <2>1 DEF ProbeInv, UpInv
<1>20. CASE LinkChange
    BY <1>20 DEF LinkChange, ProbeInv
<1> QED
    BY <1>4, <1>5, <1>6, <1>8, <1>9, <1>10, <1>11, <1>12, <1>14, <1>15, <1>16, <1>17, <1>18,
       <1>19, <1>20
    DEF Next, Daemon, RunEvent, Packet

-----------------------------------------------------------------------------
(* The results.                                                            *)

ProxyInv == RouteInv /\ UpInv /\ SwitchInv /\ QueueInv /\ ScalarInv /\ ProbeInv

LEMMA ProxyInit == Init => ProxyInv
<1> SUFFICES ASSUME Init PROVE ProxyInv
    OBVIOUS
<1>1. NoRoute \in RouteRecords /\ NoRoute.upstr = "ABSENT"
    BY DEF NoRoute, RouteRecords
<1>2. routes = [g \in Groups |-> NoRoute] /\ pc = "stopped" /\ cursor = {}
    BY DEF Init
<1>3. RouteInv
    BY <1>1, <1>2 DEF RouteInv
<1>4. UpInv
    BY <1>1, <1>2 DEF Init, UpInv, InStep
<1>5. SwitchInv
    BY MacNumbers DEF Init, SwitchInv, SlotTypes, SwitchInStep, Listed
<1>6. QueueInv
    BY EmptyQueue DEF Init, QueueInv
<1>7. ScalarInv
    BY DEF Init, ScalarInv
<1>8. ProbeInv
    BY DEF Init, ProbeInv
<1> QED
    BY <1>3, <1>4, <1>5, <1>6, <1>7, <1>8 DEF ProxyInv

LEMMA ProxyInvariant == Spec => []ProxyInv
<1>1. ProxyInv /\ [Next]_vars => ProxyInv'
    BY RouteStep, UpStep, SwitchStep, QueueStep, ScalarStep, ProbeStep DEF ProxyInv
<1> QED
    BY ProxyInit, <1>1, PTL DEF Spec

(* The types, for every value of the constants; an age never passes below  *)
(* zero, since what is aged is a route and a route has a positive age.     *)
THEOREM ProxyTypes == Spec => []TypeOK
<1>1. ProxyInv => TypeOK
    <2> SUFFICES ASSUME ProxyInv PROVE TypeOK
        OBVIOUS
    <2>1. queue \in Seq([ev : Events, time : Nat]) /\ due \in Seq(Events)
        BY DEF ProxyInv, QueueInv, Queues, Nodes
    <2>2. /\ cursor \subseteq Groups
          /\ routes \in [Groups -> [upstr : {"ABSENT", "JOINED", "CHECK"}, age : Nat, heard : {0, 1}]]
        BY DEF ProxyInv, RouteInv, RouteRecords
    <2> QED
        BY <2>1, <2>2, Zenon DEF ProxyInv, UpInv, SwitchInv, SlotTypes, Listed, ScalarInv, TypeOK
<1> QED
    BY <1>1, ProxyInvariant, PTL

(* Every route of the table is in the kernel's cache.                      *)
THEOREM ProxyKernel == Spec => []KernelInStep
<1>1. ProxyInv => KernelInStep
    BY DEF ProxyInv, UpInv, InStep, KernelInStep, Routed
<1> QED
    BY <1>1, ProxyInvariant, PTL

(* With an upstream interface, a joined route has its membership, unless   *)
(* the last join was refused, and its firewall rule.                       *)
THEOREM ProxyReceives == Spec => []JoinedReceives
<1>1. ProxyInv => JoinedReceives
    <2> SUFFICES ASSUME ProxyInv, upstream = 1, NEW g \in Groups, routes[g].upstr = "JOINED"
                 PROVE  g \in joined \cup missed /\ rules[g] >= 1
        BY DEF JoinedReceives
    <2>1. InStep(g) /\ rules[g] \in Nat
        BY DEF ProxyInv, UpInv
    <2> QED
        BY <2>1 DEF InStep
<1> QED
    BY <1>1, ProxyInvariant, PTL

(* Without quickleave, and with an upstream interface, the memberships are *)
(* the routes whose last join was not refused.                             *)
THEOREM ProxyUpstream == Spec => []UpstreamInStep
<1>1. ProxyInv => UpstreamInStep
    BY DEF ProxyInv, UpInv, InStep, UpstreamInStep, Routed
<1> QED
    BY <1>1, ProxyInvariant, PTL

(* Every slot of the switch holds the ports of its address's members, and  *)
(* only a daemon that died leaves an address registered without a slot.    *)
THEOREM ProxyPorts == Spec => []SwitchInStep
<1>1. ProxyInv => SwitchInStep
    BY DEF ProxyInv, SwitchInv
<1> QED
    BY <1>1, ProxyInvariant, PTL

(* While the WAN link holds, a route in the last-member check has its next *)
(* query in the callout queue or among the events that are running.        *)
THEOREM ProxyProbes == Spec => []CheckIsProbed
<1>1. ProxyInv => CheckIsProbed
    BY DEF ProxyInv, ProbeInv, Queried, HasEvent, HasDue, CheckIsProbed
<1> QED
    BY <1>1, ProxyInvariant, PTL

=============================================================================
