------------------------------ MODULE IgmpProxy ------------------------------
(***************************************************************************)
(* The multicast proxy igmpproxy: hosts on the LAN report and leave        *)
(* groups, the daemon keeps a route per group, joins the group on the WAN  *)
(* interface, opens the firewall for it, installs it in the kernel and     *)
(* lists the members for the Ethernet switch.  Timers of the callout queue *)
(* send the queries and age the routes.                                    *)
(*                                                                         *)
(* The product has one downstream interface (config.c gives every          *)
(* `downstream' the name of the LAN bridge), so vifBits is that one bit    *)
(* from the insertion on, ageVifBits is a bit, and ageActivity stays 0.    *)
(* Routes carry no origin (IGMP_PROXY_REALTEK_METHOD).                     *)
(***************************************************************************)
EXTENDS Callout, FiniteSets

CONSTANTS
    Groups,             \* group addresses, numbered in the order of the table
    Hosts, PortNums,    \* hosts of the LAN; what portLookUpByIP finds (-1: no port)
    AllPorts,           \* opened for a member without a port
    Mac,                \* the Ethernet address of a group: 5 bits are lost
    FastLeaves,         \* values of fastUpstreamLeave (`quickleave')
    Upstreams,          \* whether a start finds the WAN interface's address
    JoinResults,        \* of IP_ADD_MEMBERSHIP: 0, or -1 when it is refused
    Robustness,         \* 5
    LastMemberCount,    \* 5
    LastMemberInterval, \* 5 s
    AgeDelay,           \* 25 s
    StartupInterval,    \* 30 s
    StartupCount,       \* 5
    ProbeDelay,         \* 15 s
    QueryInterval,      \* 120 s
    ReportLife,         \* 10: has_report after a report
    CharMod,            \* 256: has_report is an unsigned char
    Slots,              \* 63: groups the switch can hold
    MaxJump,            \* bound on the seconds one ageing sees pass
    MaxTimers,          \* bound on the queue for a leave message
    MaxRules            \* bound on the firewall rules of one group

ASSUME ProxyAssumption ==
    /\ Groups \subseteq Nat \ {0} /\ IsFiniteSet(Groups)
    /\ PortNums \subseteq Int /\ AllPorts \subseteq Nat /\ AllPorts # {}
    /\ Mac \in [Groups -> Nat \ {0}]
    /\ FastLeaves \subseteq {0, 1} /\ Upstreams \subseteq {0, 1}
    /\ JoinResults \subseteq {0, -1}
    /\ Robustness \in Nat \ {0} /\ LastMemberCount \in Nat \ {0}
    /\ LastMemberInterval \in Nat \ {0} /\ AgeDelay \in Nat \ {0}
    /\ StartupInterval \in Nat \ {0} /\ ProbeDelay \in Nat \ {0}
    /\ QueryInterval \in Nat \ {0} /\ StartupCount \in Nat
    /\ CharMod \in Nat \ {0} /\ ReportLife \in 1 .. CharMod - 1
    /\ Slots \in Nat /\ MaxRules \in Nat \ {0}
    /\ MaxJump \in Nat /\ MaxTimers \in Nat

(* No delay is longer than the wait for the next general query.            *)
ASSUME DelayOrder ==
    /\ ProbeDelay < AgeDelay /\ AgeDelay < StartupInterval
    /\ StartupInterval <= QueryInterval /\ LastMemberInterval <= QueryInterval

VARIABLES
    pc,         \* "loop", "select", "age", "run", "sweep", "aging", "stopped", "crashed"
    timeout,    \* the main loop's pointer: "tv" or "NULL"
    queue, due, \* the callout queue, and the events age_callout_queue still runs
    cursor,     \* the routes the loops of ageActiveRoutes have still to visit
    link,       \* get_wan_link
    running,    \* igmp_proxy_running
    upstream,   \* whether upStreamVif is an interface (0: it is -1)
    fast, startup,
    routes,     \* the routing table
    joined,     \* memberships of the socket on the WAN interface
    missed,     \* history: groups whose last join was refused
    rules,      \* ACCEPT rules of each group in the FORWARD chain
    cache,      \* groups listed in /proc/net/ip_mr_cache
    owner,      \* the group a switch entry was made for (0: no entry)
    report,     \* has_report of each listed member (-1: not listed)
    port,       \* port_num of each listed member
    mgroup,     \* mgroup_table: the Ethernet address in each slot (0: free)
    address,    \* in the switch: the slot an address is registered with (0: none)
    register,   \* in the switch: the ports of each slot
    orphans,    \* history: addresses a daemon that died has left in the switch
    flapped     \* history: the link has been down since the start

Macs    == {Mac[g] : g \in Groups}
NoRoute == [upstr |-> "ABSENT", age |-> 0, heard |-> 0]
Routed  == {g \in Groups : routes[g].upstr # "ABSENT"}

loop    == <<pc, timeout>>
timers  == <<queue, due, cursor, startup>>
wan     == <<link, running, upstream, flapped>>
upstrm  == <<joined, missed, rules>>
members == <<owner, report, port>>
slots   == <<mgroup, address, register, orphans>>
switch  == <<members, slots>>
vars    == <<loop, timers, wan, fast, routes, upstrm, cache, switch>>

Event(f, g) == [func |-> f, group |-> g]

Timer(f, g, delay) == timer_setTimer(queue, delay, Event(f, g))

-----------------------------------------------------------------------------
(* The member lists (mc_switch.c) and the switch (salsa2.c).               *)

Members(m) == {x \in Hosts \X Groups : Mac[x[2]] = m /\ report[x] # -1}

(* The port_map of an entry: one member without a port opens them all.     *)
PortMap(m) ==
    IF \E x \in Members(m) : port[x] = -1 THEN AllPorts ELSE {port[x] : x \in Members(m)}

(* get_mgroup_index: the address's slot, else the first free one, if any.  *)
get_mgroup_index(m) ==
    LET own  == {i \in 1 .. Slots : mgroup[i] = m}
        free == {i \in 1 .. Slots : mgroup[i] = 0}
    IN  IF own # {} THEN own ELSE {i \in free : \A j \in free : i <= j}

(* Mutant: a group without ports keeps its slot. *)
MutKeepPorts(m, ports) ==
    IF get_mgroup_index(m) = {} \/ ports = {}
    THEN UNCHANGED slots
    ELSE \E i \in get_mgroup_index(m) :
            /\ mgroup' = [mgroup EXCEPT ![i] = m]
            /\ address' = [address EXCEPT ![m] = i]
            /\ register' = [register EXCEPT ![i] = ports]
            /\ orphans' = orphans \ {m}

(* updateMacTable: without a slot nothing happens.  Without ports the slot *)
(* is given back and the address leaves the switch.                        *)
updateMacTable(m, ports) ==
    IF get_mgroup_index(m) = {}
    THEN UNCHANGED slots
    ELSE \E i \in get_mgroup_index(m) :
            /\ mgroup' = [mgroup EXCEPT ![i] = IF ports = {} THEN 0 ELSE m]
            /\ address' = [address EXCEPT ![m] = IF ports = {} THEN 0 ELSE i]
            /\ register' = [register EXCEPT ![i] = ports]
            /\ orphans' = orphans \ {m}

(* update_group_port_map, after the members' report' and port' are set.    *)
update_group_port_map(m) ==
    IF PortMap(m)' = PortMap(m) THEN UNCHANGED slots ELSE updateMacTable(m, PortMap(m)')

(* The port is looked up at every report, and may change.                  *)
insert_multicast_ip(h, g) ==
    /\ owner' = [owner EXCEPT ![Mac[g]] = IF @ = 0 THEN g ELSE @]
    /\ report' = [report EXCEPT ![<<h, g>>] = ReportLife]
    /\ \E p \in PortNums : port' = [port EXCEPT ![<<h, g>>] = p]
    /\ update_group_port_map(Mac[g])

(* The members in S are taken off their list.                              *)
Unlisted(S) ==
    /\ report' = [x \in DOMAIN report |-> IF x \in S THEN -1 ELSE report[x]]
    /\ port' = [x \in DOMAIN port |-> IF x \in S THEN -1 ELSE port[x]]

remove_member(h, g) ==
    /\ Unlisted({<<h, g>>})
    /\ update_group_port_map(Mac[g])
    /\ UNCHANGED owner

all_member_leaved(g) == Members(Mac[g])' = {}

(* The entry of the Ethernet address goes, with the members of every group *)
(* that shares it.                                                         *)
remove_multicast_ip(g) ==
    IF owner[Mac[g]] = 0
    THEN UNCHANGED switch
    ELSE /\ owner' = [owner EXCEPT ![Mac[g]] = 0]
         /\ Unlisted(Members(Mac[g]))
         /\ updateMacTable(Mac[g], {})

query_specific_members ==
    report' = [x \in DOMAIN report |-> IF report[x] = -1 THEN -1 ELSE (report[x] - 1) % CharMod]

(* Members without reports are deleted under the address of the group the  *)
(* entry was made for.                                                     *)
Silent(g) ==
    IF owner[Mac[g]] # g THEN {}
    ELSE {x \in Members(Mac[g]) : x[2] = g /\ \E y \in Members(Mac[g]) : y[1] = x[1] /\ report[y] = 0}

(* Each removal updates the port map.  When several go it may change and   *)
(* change back in between, which gives a group without a slot a free one.  *)
sweap_no_report_members(g) ==
    /\ Unlisted(Silent(g))
    /\ \/ update_group_port_map(Mac[g])
       \/ Cardinality(Silent(g)) > 1 /\ updateMacTable(Mac[g], PortMap(Mac[g])')
    /\ UNCHANGED owner

Swept(g) == owner[Mac[g]] = g /\ Members(Mac[g])' = {}

-----------------------------------------------------------------------------
(* The routing table (rttable.c).                                          *)

(* sendJoinLeaveUpstream: whatever comes of IP_ADD_MEMBERSHIP, the caller  *)
(* marks the route joined, and a rule is added.  Without an upstream       *)
(* interface the address and the name are read from in front of the array  *)
(* of interfaces: no rule names the WAN, and any membership may be asked   *)
(* for.                                                                    *)
JoinUpstream(g) ==
    /\ IF upstream = 1
       THEN /\ rules[g] < MaxRules
            /\ rules' = [rules EXCEPT ![g] = @ + 1]
            /\ \E res \in JoinResults : joined' = IF res = 0 THEN joined \cup {g} ELSE joined
       ELSE joined' \in {joined, joined \cup {g}} /\ UNCHANGED rules
    /\ missed' = IF g \in joined' THEN missed \ {g} ELSE missed \cup {g}

LeaveUpstream(G) ==
    /\ IF upstream = 1
       THEN /\ joined' = joined \ G
            /\ rules' = [g \in Groups |-> IF g \in G /\ rules[g] > 0 THEN rules[g] - 1 ELSE rules[g]]
       ELSE (\E S \in SUBSET G : joined' = joined \ S) /\ UNCHANGED rules
    /\ missed' = missed \ G

(* Mutant: a route that is being checked is taken for joined. *)
MutNoRejoin(g) ==
    /\ routes' = [routes EXCEPT ![g] = [upstr |-> "JOINED", heard |-> 1,
                                        age |-> IF g \in Routed THEN @.age ELSE Robustness]]
    /\ cache' = cache \cup {g}
    /\ IF g \in Routed THEN UNCHANGED upstrm ELSE JoinUpstream(g)

(* Mutant: the route waits for traffic before it goes to the kernel. *)
MutLazyKernel(g) ==
    /\ routes' = [routes EXCEPT ![g] = [upstr |-> "JOINED", heard |-> 1,
                                        age |-> IF g \in Routed THEN @.age ELSE Robustness]]
    /\ IF routes[g].upstr = "JOINED" THEN UNCHANGED upstrm ELSE JoinUpstream(g)
    /\ UNCHANGED cache

insertRoute(g) ==
    /\ routes' = [routes EXCEPT ![g] = [upstr |-> "JOINED", heard |-> 1,
                                        age |-> IF g \in Routed THEN @.age ELSE Robustness]]
    /\ cache' = IF g \in Routed THEN cache ELSE cache \cup {g}
    /\ IF routes[g].upstr = "JOINED" THEN UNCHANGED upstrm ELSE JoinUpstream(g)

(* Mutant: the upstream group is left for joined routes only. *)
MutLeaveJoinedOnly(g) ==
    /\ routes' = [routes EXCEPT ![g] = NoRoute]
    /\ cache' = cache \ {g}
    /\ IF routes[g].upstr = "JOINED" THEN LeaveUpstream({g}) ELSE UNCHANGED upstrm

removeRoute(g) ==
    /\ routes' = [routes EXCEPT ![g] = NoRoute]
    /\ cache' = cache \ {g}
    /\ IF routes[g].upstr = "JOINED" \/ (routes[g].upstr = "CHECK" /\ fast = 0)
       THEN LeaveUpstream({g})
       ELSE UNCHANGED upstrm

Aged(r) == [r EXCEPT !.age = IF r.heard = 1 THEN Robustness ELSE r.age - 1, !.heard = 0]

internAgeRoute(g) ==
    IF Aged(routes[g]).age = 0
    THEN remove_multicast_ip(g) /\ removeRoute(g)
    ELSE routes' = [routes EXCEPT ![g] = Aged(@)] /\ UNCHANGED <<switch, upstrm, cache>>

setRouteLastMemberMode(g) ==
    IF g \notin Routed
    THEN UNCHANGED <<routes, upstrm>>
    ELSE /\ routes' = [routes EXCEPT ![g].upstr = "CHECK", ![g].age = LastMemberCount]
         /\ IF routes[g].upstr = "JOINED" /\ fast = 1 /\ all_member_leaved(g)
            THEN LeaveUpstream({g})
            ELSE UNCHANGED upstrm

(* ipmrcache_gc: what the kernel lists without a route is deleted and left. *)
(* A WAN interface that was not there at the start is not found.           *)
ipmrcache_gc ==
    /\ cache' \in {cache \cap Routed} \cup (IF upstream = 1 THEN {} ELSE {cache})
    /\ LeaveUpstream(cache \ Routed)

-----------------------------------------------------------------------------
(* The handlers of packets (request.c), called from select().              *)

acceptGroupReport(h, g) ==
    /\ pc = "select" /\ pc' = "age"
    /\ insert_multicast_ip(h, g)
    /\ IF link = "up" THEN insertRoute(g) ELSE UNCHANGED <<routes, cache, upstrm>>
    /\ UNCHANGED <<timeout, timers, wan, fast>>

(* sendGroupSpecificMemberQuery, the first time.                           *)
StartQueries(g) ==
    IF link = "up" /\ running = 1
    THEN queue' = Timer("last", g, LastMemberInterval)
    ELSE UNCHANGED queue

acceptLeaveMessage(h, g) ==
    /\ pc = "select" /\ pc' = "age"
    /\ Len(queue) < MaxTimers
    /\ remove_member(h, g)
    /\ setRouteLastMemberMode(g)
    /\ StartQueries(g)
    /\ UNCHANGED <<timeout, due, cursor, startup, wan, fast, cache>>

(* Any other packet: a query, a report from the WAN, a kernel message.     *)
OtherPacket ==
    /\ pc = "select" /\ pc' = "age"
    /\ UNCHANGED <<timeout, timers, wan, fast, routes, upstrm, cache, switch>>

-----------------------------------------------------------------------------
(* The main loop (igmpproxy.c) and its timers.                             *)

(* The process ends: its memory, the memberships of its socket and the     *)
(* kernel's routes go with it; the firewall and the switch stay as they are. *)
ProcessEnds ==
    /\ queue' = <<>> /\ joined' = {} /\ missed' = {} /\ cache' = {}
    /\ routes' = [g \in Groups |-> NoRoute]
    /\ owner' = [m \in Macs |-> 0]
    /\ Unlisted(DOMAIN report)
    /\ mgroup' = [i \in 1 .. Slots |-> 0]

(* The top of the loop.  The pointer is set to NULL when there is no timer *)
(* and never set back ...                                                  *)
Loop ==
    /\ pc = "loop" /\ (queue = <<>> \/ timeout = "tv")
    /\ pc' = "select"
    /\ timeout' = (IF queue = <<>> THEN "NULL" ELSE timeout)
    /\ UNCHANGED <<timers, wan, fast, routes, upstrm, cache, switch>>

(* ... and the next timer is written through it.                           *)
WriteThroughNull ==
    /\ pc = "loop" /\ queue # <<>> /\ timeout = "NULL"
    /\ pc' = "crashed"
    /\ ProcessEnds
    /\ orphans' = {m \in Macs : address[m] # 0}
    /\ UNCHANGED <<timeout, due, cursor, startup, wan, fast, rules, address, register>>

AgeBy(n) ==
    /\ queue' = Remaining(queue, n)
    /\ due' = Expired(queue, n)
    /\ pc' = "run"
    /\ UNCHANGED <<timeout, cursor, startup, wan, fast, routes, upstrm, cache, switch>>

(* select() timed out: exactly the seconds asked for have passed.          *)
TimedOut == pc = "select" /\ queue # <<>> /\ AgeBy(timer_nextTimer(queue))

(* A packet was handled.  The seconds are read off the wall clock, which   *)
(* the router also sets: there may be any number of them.  A timer the     *)
(* packet's handler has just set is aged by all of them.                   *)
Age(n) == pc = "age" /\ AgeBy(n)

Runs(f, g) == pc = "run" /\ due # <<>> /\ Head(due) = Event(f, g)

(* The events have run: back to the top of the loop.                       *)
Done ==
    /\ pc = "run" /\ due = <<>>
    /\ pc' = "loop"
    /\ UNCHANGED <<timeout, timers, wan, fast, routes, upstrm, cache, switch>>

(* Mutant: the last startup query is the last query. *)
MutStartupOnly(q, count) ==
    LET aging == timer_setTimer(q, AgeDelay, Event("age", 0))
    IN  IF count > 0
        THEN timer_setTimer(aging, StartupInterval, Event("general", 0))
        ELSE timer_setTimer(aging, ProbeDelay, Event("probe", 0))

(* The timers sendGeneralMembershipQuery sets: with the link down, none.   *)
QueryTimers(q, count) ==
    LET aging == timer_setTimer(q, AgeDelay, Event("age", 0))
    IN  IF count > 0
        THEN timer_setTimer(aging, StartupInterval, Event("general", 0))
        ELSE timer_setTimer(timer_setTimer(aging, QueryInterval, Event("general", 0)),
                            ProbeDelay, Event("probe", 0))

(* Mutant: the startup counter is decreased without looking at it. *)
MutCountOn ==
    /\ Runs("general", 0)
    /\ due' = Tail(due)
    /\ IF link = "up"
       THEN queue' = QueryTimers(queue, startup) /\ startup' = startup - 1
       ELSE UNCHANGED <<queue, startup>>
    /\ UNCHANGED <<loop, cursor, wan, fast, routes, upstrm, cache, switch>>

sendGeneralMembershipQuery ==
    /\ Runs("general", 0)
    /\ due' = Tail(due)
    /\ IF link = "up"
       THEN /\ queue' = QueryTimers(queue, startup)
            /\ startup' = IF startup > 0 THEN startup - 1 ELSE 0
       ELSE UNCHANGED <<queue, startup>>
    /\ UNCHANGED <<loop, cursor, wan, fast, routes, upstrm, cache, switch>>

RunProbe ==
    /\ Runs("probe", 0)
    /\ due' = Tail(due)
    /\ query_specific_members
    /\ UNCHANGED <<loop, queue, cursor, startup, wan, fast, routes, upstrm, cache, owner, port, slots>>

(* Mutant: the queries end when the group is not gone after one. *)
MutOneQuery(g) ==
    /\ Runs("last", g)
    /\ due' = Tail(due)
    /\ IF link = "up" /\ running = 1 /\ routes[g].upstr = "CHECK"
       THEN internAgeRoute(g)
       ELSE UNCHANGED <<routes, upstrm, cache, switch>>
    /\ UNCHANGED <<loop, queue, cursor, startup, wan, fast>>

(* sendGroupSpecificMemberQuery and lastMemberGroupAge: until the route is *)
(* gone, or joined again, the next query follows.                          *)
sendGroupSpecificMemberQuery(g) ==
    /\ Runs("last", g)
    /\ due' = Tail(due)
    /\ IF link = "up" /\ running = 1 /\ routes[g].upstr = "CHECK"
       THEN /\ internAgeRoute(g)
            /\ queue' = IF g \in Routed' THEN Timer("last", g, LastMemberInterval) ELSE queue
       ELSE UNCHANGED <<queue, routes, upstrm, cache, switch>>
    /\ UNCHANGED <<loop, cursor, startup, wan, fast>>

(* ageActiveRoutes: the first loop sweeps the members of every route ...   *)
ageActiveRoutes ==
    /\ Runs("age", 0)
    /\ pc' = "sweep" /\ cursor' = Routed
    /\ UNCHANGED <<timeout, queue, due, startup, wan, fast, routes, upstrm, cache, switch>>

IsFirst(g) == g \in cursor /\ \A k \in cursor : g <= k

SweepRoute(g) ==
    /\ pc = "sweep" /\ IsFirst(g)
    /\ sweap_no_report_members(g)
    /\ IF Swept(g) THEN removeRoute(g) ELSE UNCHANGED <<routes, upstrm, cache>>
    /\ cursor' = cursor \ {g}
    /\ UNCHANGED <<loop, queue, due, startup, wan, fast>>

SweepEnds ==
    /\ pc = "sweep" /\ cursor = {}
    /\ pc' = "aging" /\ cursor' = Routed
    /\ UNCHANGED <<timeout, queue, due, startup, wan, fast, routes, upstrm, cache, switch>>

(* ... the second ages those that are not being checked ...                *)
AgeRoute(g) ==
    /\ pc = "aging" /\ IsFirst(g)
    /\ IF routes[g].upstr # "CHECK"
       THEN internAgeRoute(g)
       ELSE UNCHANGED <<routes, upstrm, cache, switch>>
    /\ cursor' = cursor \ {g}
    /\ UNCHANGED <<loop, queue, due, startup, wan, fast>>

(* ... and the kernel's leftovers go.                                      *)
AgingEnds ==
    /\ pc = "aging" /\ cursor = {}
    /\ pc' = "run" /\ due' = Tail(due)
    /\ ipmrcache_gc
    /\ UNCHANGED <<timeout, queue, cursor, startup, wan, fast, routes, switch>>

-----------------------------------------------------------------------------
(* Start and stop, and what happens outside the daemon.                    *)

(* remove_all_groups: the slots of the entries are emptied.  An entry that *)
(* has none is given a slot that is free by then to be deleted from.       *)
remove_all_groups ==
    LET held == {m \in Macs : \E i \in 1 .. Slots : mgroup[i] = m}
        free == {i \in 1 .. Slots : mgroup[i] = 0}
    IN  \E S \in SUBSET {m \in Macs \ held : owner[m] # 0}, F \in SUBSET free :
            /\ S = {} => F = {}
            /\ address' = [m \in Macs |-> IF m \in held \cup S THEN 0 ELSE address[m]]
            /\ register' = [i \in 1 .. Slots |-> IF i \in free \ F THEN register[i] ELSE {}]
            /\ orphans' = orphans \ (held \cup S)

(* A signal ends the loop: igmpProxyCleanUp deletes one rule of each route *)
(* and the groups of the switch.                                           *)
igmpProxyCleanUp ==
    /\ pc \in {"loop", "select"} /\ pc' = "stopped"
    /\ rules' = [g \in Groups |-> IF upstream = 1 /\ g \in Routed /\ rules[g] > 0
                                  THEN rules[g] - 1 ELSE rules[g]]
    /\ ProcessEnds
    /\ remove_all_groups
    /\ UNCHANGED <<timeout, due, cursor, startup, wan, fast>>

(* The WAN interface may have no address yet: then there is no upstream    *)
(* interface for as long as the daemon runs.  main asks for link and       *)
(* address on its own, a moment earlier.  The first general query is sent  *)
(* before the loop.  switch_init clears the table in memory.               *)
Start ==
    /\ pc \in {"stopped", "crashed"} /\ pc' = "loop"
    /\ timeout' = "tv"
    /\ fast' \in FastLeaves
    /\ running' \in (IF link = "up" THEN {0, 1} ELSE {0})
    /\ upstream' \in Upstreams
    /\ flapped' = (IF link = "up" THEN 0 ELSE 1)
    /\ IF link = "up"
       THEN queue' = QueryTimers(<<>>, StartupCount)
            /\ startup' = (IF StartupCount > 0 THEN StartupCount - 1 ELSE 0)
       ELSE queue' = <<>> /\ startup' = StartupCount
    /\ UNCHANGED <<due, cursor, link, routes, upstrm, cache, switch>>

LinkChange ==
    /\ pc \in {"select", "stopped", "crashed"}
    /\ link' = (IF link = "up" THEN "down" ELSE "up")
    /\ flapped' = 1
    /\ UNCHANGED <<loop, timers, running, upstream, fast, routes, upstrm, cache, switch>>

(* A stream nobody asked for makes an entry in the kernel, for a time.     *)
KernelCache(g) ==
    /\ pc = "select" /\ g \notin Routed
    /\ cache' = (IF g \in cache THEN cache \ {g} ELSE cache \cup {g})
    /\ UNCHANGED <<loop, timers, wan, fast, routes, upstrm, switch>>

Init ==
    /\ pc = "stopped" /\ timeout = "tv" /\ fast \in FastLeaves
    /\ queue = <<>> /\ due = <<>> /\ cursor = {} /\ startup = StartupCount
    /\ link \in {"up", "down"} /\ running = 0 /\ upstream = 0 /\ flapped = 1
    /\ routes = [g \in Groups |-> NoRoute]
    /\ joined = {} /\ missed = {} /\ rules = [g \in Groups |-> 0] /\ cache = {}
    /\ owner = [m \in Macs |-> 0]
    /\ report = [x \in Hosts \X Groups |-> -1]
    /\ port = [x \in Hosts \X Groups |-> -1]
    /\ mgroup = [i \in 1 .. Slots |-> 0] /\ address = [m \in Macs |-> 0]
    /\ register = [i \in 1 .. Slots |-> {}] /\ orphans = {}

RunEvent ==
    \/ sendGeneralMembershipQuery \/ RunProbe
    \/ ageActiveRoutes \/ SweepEnds \/ AgingEnds \/ Done
    \/ \E g \in Groups : sendGroupSpecificMemberQuery(g) \/ SweepRoute(g) \/ AgeRoute(g)

Packet ==
    \/ \E h \in Hosts, g \in Groups : acceptGroupReport(h, g) \/ acceptLeaveMessage(h, g)
    \/ OtherPacket

(* The daemon's own steps.                                                 *)
Daemon ==
    \/ Loop \/ WriteThroughNull \/ RunEvent
    \/ \E n \in 0 .. MaxJump : Age(n)

(* Time that the queue sees.                                               *)
TimePasses == TimedOut \/ \E n \in 1 .. MaxJump : Age(n)

Next ==
    \/ Daemon \/ TimedOut \/ Packet
    \/ igmpProxyCleanUp \/ Start \/ LinkChange
    \/ \E g \in Groups : KernelCache(g)

(* The daemon goes on with what it is doing, and packets do not keep time  *)
(* from passing.                                                           *)
Spec == Init /\ [][Next]_vars /\ WF_vars(Daemon) /\ SF_vars(TimePasses)

-----------------------------------------------------------------------------
(* Properties.                                                             *)

Events == {Event(f, 0) : f \in {"general", "age", "probe"}} \cup {Event("last", g) : g \in Groups}

(* The types; the counter of startup queries stops at zero.                *)
TypeOK ==
    /\ pc \in {"loop", "select", "age", "run", "sweep", "aging", "stopped", "crashed"}
    /\ timeout \in {"tv", "NULL"}
    /\ queue \in Seq([ev : Events, time : Nat]) /\ due \in Seq(Events)
    /\ cursor \subseteq Groups /\ startup \in 0 .. StartupCount
    /\ link \in {"up", "down"} /\ running \in {0, 1} /\ fast \in FastLeaves
    /\ flapped \in {0, 1} /\ upstream \in {0, 1}
    /\ routes \in [Groups -> [upstr : {"ABSENT", "JOINED", "CHECK"}, age : Nat, heard : {0, 1}]]
    /\ joined \subseteq Groups /\ missed \subseteq Groups /\ rules \in [Groups -> Nat] /\ cache \subseteq Groups
    /\ owner \in [Macs -> Groups \cup {0}]
    /\ report \in [Hosts \X Groups -> -1 .. CharMod - 1]
    /\ port \in [Hosts \X Groups -> PortNums \cup {-1}]
    /\ mgroup \in [1 .. Slots -> Macs \cup {0}] /\ address \in [Macs -> 0 .. Slots]
    /\ register \in [1 .. Slots -> SUBSET (PortNums \cup AllPorts)] /\ orphans \subseteq Macs

(* Every route of the table is in the kernel: neither ageing, nor a leave, *)
(* nor the clearing of the kernel's leftovers takes it away.               *)
KernelInStep == Routed \subseteq cache

(* Whoever reported a group gets it: while a route is marked joined, and   *)
(* the daemon has an upstream interface, the group is a membership of its  *)
(* socket, unless the last join was refused, and the firewall has a rule   *)
(* for it, whatever leaves, queries and reports came before.               *)
JoinedReceives ==
    upstream = 1 => \A g \in Groups : routes[g].upstr = "JOINED" => g \in joined \cup missed /\ rules[g] >= 1

(* Without quickleave, and with an upstream interface, the memberships are *)
(* exactly the routes but for those whose last join was refused: nothing   *)
(* is received upstream for nobody, and no route loses its stream.         *)
UpstreamInStep == fast = 0 /\ upstream = 1 => joined = Routed \ missed

(* The switch and the member lists agree: an address that has a slot is    *)
(* registered with it, and the slot's ports are those of the listed        *)
(* members, all of them if one member's port is not known; and no other    *)
(* address is registered, but for what a daemon that died has left.        *)
SwitchInStep ==
    /\ \A m \in Macs, i \in 1 .. Slots : mgroup[i] = m =>
          address[m] = i /\ register[i] = PortMap(m) /\ register[i] # {}
    /\ \A m \in Macs \ orphans : address[m] # 0 => mgroup[address[m]] = m

(* As long as the WAN link has not failed, a route whose last members are  *)
(* being looked for has the timer of its next query pending: the periodic  *)
(* ageing skips it as long as it has members.                              *)
CheckIsProbed ==
    running = 1 /\ flapped = 0 =>
        \A g \in Groups : routes[g].upstr = "CHECK" =>
            \/ \E i \in 1 .. Len(queue) : queue[i].ev = Event("last", g)
            \/ \E i \in 1 .. Len(due) : due[i] = Event("last", g)

(* The daemon runs with the link up since its start.                       *)
Steady == flapped = 0 /\ running = 1 /\ pc \notin {"stopped", "crashed"}

Reports(g) == \E h \in Hosts : acceptGroupReport(h, g)

(* A group nobody reports any more is given up, however its last members   *)
(* went and whatever other packets arrive.                                 *)
GroupsExpire ==
    \A g \in Groups :
        <>[]Steady /\ <>[][~Reports(g)]_vars => <>[](g \notin Routed)

(* The nodes of event e that are due within s seconds, and the places of e *)
(* among the events that are running.                                      *)
Soon(q, e, s) == {i \in 1 .. Len(q) : q[i].ev = e /\ Offsets(q)[i] <= s}

Occurs(d, e) == {i \in 1 .. Len(d) : d[i] = e}

Pending == [e \in Events |-> [s \in 0 .. QueryInterval |-> Cardinality(Soon(queue, e, s))]]

Firing == [e \in Events |-> Cardinality(Occurs(due, e))]

(* The most seconds an ageing may see: select() waits for the first timer. *)
MaxPassed == IF MaxJump < QueryInterval THEN QueryInterval ELSE MaxJump

T == INSTANCE Timers WITH Longest <- QueryInterval, Horizon <- MaxPassed,
                          pending <- Pending, firing <- Firing

(* The delta queue implements independent timers: a timer set in between,  *)
(* in front or behind leaves every other its own seconds, and an ageing by *)
(* any number of seconds runs exactly those that are due, each once.       *)
TimersSpec == T!TimersSpec

=============================================================================
