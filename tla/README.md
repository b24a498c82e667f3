# TLA+ models of the router's user-space programs

The repository holds the user-space programs of a home router: vendored
packages (busybox, iptables, iproute2, pppd, a kernel tree ...), a few programs
that are present as binaries only, and a core of code that was written or
rewritten for the router. This project models that core: the DHCP server on
the LAN side, the DHCP client on the WAN side, the configuration files through
which all programs of the router share their settings and their status, the
port forwarding rules that live in such a file and in iptables at once, and the
multicast proxy with its timer queue. Nearly all of the 11.4 million lines of the repository are
the kernel tree, busybox and other vendored packages built as they are, so the
part of all lines that these models stand for is necessarily small.

Everything is in this directory. `tlc -config X.cfg M` checks a run (table
below), `tlapm M.tla` checks the proofs of a `...Proofs` module. `PROJECT.json`
maps every definition to the lines it translates and lists runs, mutants,
hazards, findings and theorems.

## 1. Inventory

| Part | Source | State it keeps | Operations | Interacts with |
|---|---|---|---|---|
| DHCP server | `udhcp-0.9.8/dhcpd.c`, `leases.c`, `serverpacket.c`, `files.c` | lease table (fixed size), static leases, lease file | DISCOVER, REQUEST (selecting, init-reboot, renewing), DECLINE, RELEASE, timer and SIGUSR1 (write file), start, SIGTERM, kill | clients by UDP; ARP probes; its file; `system_api.c` which stops it |
| DHCP client | `udhcp-0.9.8/dhcpc.c`, `clientpacket.c`, `script.c` | protocol state, packet count, socket mode, xid, timeout, T1, T2, lease; the address of the WAN interface | timeout in each state, OFFER, ACK, NAK, SIGUSR1, SIGUSR2, SIGTERM, start | a server by UDP; the interface; `istatus` files |
| Configuration, status and pid files | `lib/ul_lib/genconfig_api.c`, `cconfig_api.c` | one text file of `tag=value` per kind, an flock file each | set, get, remove, remove by prefix, indexed items | every program of the router |
| Port forwarding | `lib/ul_lib/pforward.c` | one rule file per chain, chains in iptables | add, remove, list, replace list, start, stop | genconfig, iptables |
| System log | `lib/ul_lib/syslog.c` | log files | append with rotation, clear, flags | every program |
| Multicast proxy | `igmpproxy/src/` | route table with age and last-member states, callout queue, member lists, port table of the switch | report, leave, query and ageing timers, start, stop | kernel multicast cache, WAN membership, firewall, switch registers |
| UPnP gateway | `miniupnpd-20090605/` | redirections, event subscribers | add, delete, list, expire, notify | iptables, LAN clients |
| PPTP server | `poptop-1.1.4/` | slots of calls, control connection | accept, control messages, reap | pppd |
| Sessions, upgrade, network, password, wizard helpers | rest of `lib/ul_lib/` | files, or none | formatting of commands, one-pass file work | CGI programs (binary) |
| Vendored: busybox, iptables, iproute2, bridge-utils, pppd, boa, miniupnpc, linux | | | | |
| Binary only: rc, init, ddns_client, fakedns, fwsched, hostscan, rp-pppoe, mv6281_app | | | | |

What is hard in these parts:

* the server answers one packet at a time, but looking for an address takes up
  to two seconds of ARP per candidate while time runs on and records expire; it
  may be stopped or killed at any point and comes back with what its file says;
  the table may be full; addresses are compared in two byte orders;
* the client's timers, packets and signals arrive in any order; replies may be
  late or repeated; a handler may overrun the timeout it has set; T1 and T2
  are computed by halving in integers until a cut-off;
* the files are read as a whole, changed and written back by many processes at
  once; the write starts by emptying the file, and any process can be killed;
* a forwarding is a line in a file and two entries in the kernel, one of them
  shared by all forwardings to the same server: the file is changed under a
  lock, the entries before and after it, by any CGI program;
* the proxy keeps four copies of who receives a group (its routes, the kernel,
  the WAN membership with its firewall rule, the switch) and changes them from
  packets, from three kinds of timers and from a link that comes and goes; a
  join may be refused, a port not be found, a table be full, and the switch
  keeps its registers when the daemon dies; its timers are stored as differences, and a lost one is not set again.

What makes them correct: no address is promised to two clients, and a promise
outlives a restart (server); the address on the interface, the socket and the
protocol state agree, and an address is not used past its lease (client);
updates of different processes behave as if they happened one after another
(files); a listed rule is in effect and the chain lives as long as its file
(forwarding); the copies agree, and a group that nobody reports is given up
(proxy).

## 2. Modules

| Module | What it is |
|---|---|
| `LeaseBook` | abstract: a book of grants; an address is granted only while nobody else's grant of it runs |
| `Dhcpd` | the DHCP server, with its properties and the refinement mapping to `LeaseBook` |
| `MCDhcpd` | instances for TLC, and the claim of a comment that the code does not keep |
| `DhcpdProofs` | proofs about `Dhcpd`: types, records, promises, refinement |
| `DhcpdTableProofs` | more proofs about `Dhcpd`: the size of the table, addresses in conflict, the end of a handler |
| `Dhcpc` | the DHCP client and its properties (TLC runs it directly) |
| `DhcpcProofs` | proofs about `Dhcpc` |
| `ConfigStore` | abstract: a store of tags whose operations take effect at one moment |
| `GenConfig` | the configuration files, with the refinement mapping to `ConfigStore` |
| `MCGenConfig` | instance for TLC |
| `GenConfigProofs` | proofs about `GenConfig` |
| `PForward`, `MCPForward` | port forwarding: the file of a chain, the chain, the DNAT and SNAT entries; the instance |
| `PForwardProofs` | proofs about `PForward` |
| `Timers` | abstract: independent timers, each with its own seconds to go, counted by how soon they are due |
| `Callout` | the delta queue of `callout.c` as operators on sequences |
| `CalloutProofs` | proofs about `Callout`, for every queue |
| `IgmpProxy` | the multicast proxy around `Callout`, with the refinement mapping to `Timers` |
| `MCIgmpProxy` | instances, and the claim of a comment that quickleave does not keep |
| `IgmpProxyProofs` | proofs about `IgmpProxy`: its invariants |
| `IgmpTimersProofs` | proof that `IgmpProxy` implements `Timers` |

Definitions named `Mut...` are deliberately wrong variants of the definition
that follows them. They are used by no specification; each shows that a
property notices the mistake.

### 2.1 The DHCP server (`Dhcpd`)

`leases` is the set of used slots of the table, `file` the lease file with the
time left of each record, `static` the static leases that were read at start,
`job` the program counter of the handler that runs. A DISCOVER is the one
handler with several steps: `Discover` chooses a branch of `sendOffer`, `Scan` moves
to the next candidate of `find_address`, `ArpAnswered` and `ArpSilent` are the two
outcomes of `arpping`, and time may pass between any two of them (`Tick`). The
other handlers are one step. All but DECLINE are followed by `write_leases`, as in
the loop. `Restart` is SIGTERM, taken between packets, and a start from the file;
`Kill` is the SIGKILL that `kill_process` sends ten milliseconds later, anywhere,
with any part of the file written; `WriteFails` is a file that cannot be opened.

Addresses are numbers in host order, `Base` stands for 256, and `NetOrder` is what
`read_leases` compares. Expiry times are kept modulo `TimeMod`. The order of the
table's slots is left open: when several records are equally old, any of them
may be replaced.

Two history variables state what the table is for. `promise[c]` is what the last
ACK told client c; a DISCOVER, RELEASE or DECLINE of c ends it, because a client
that follows the protocol has stopped using its address by then. `held[a]` is the
time until which a running server has put a aside after a conflict.

### 2.2 The DHCP client (`Dhcpc`)

`pc` is where the loop is: at its head, in select(), in the timeout branch, or
exited. Time is relative: `left` is `timeout - time(0)`, `age` is the time since the
lease started. A timeout that is past is -1 however far past it is, because
the code only tests the sign; 0 (`killed`) and 0x7fffffff (`never`) are kept apart
from times as the code treats them differently. `asked` holds what was sent under
the current xid, so a packet is either an answer to one of those or one that the
loop ignores (`Ignored`, which also stands for the other reasons to go round the
loop: EINTR, the remaining bytes of a signal's number, a refused offer).
`Tick` is a second that select() sees. `Slip` is one that it does not see: a handler
that takes time, or a clock that is set forward. The history variable `slips` says
whether there has been one: what holds only for handlers that are quick is
stated under `slips = 0`. `stray` records an address that a release left on the
interface.

### 2.3 The files (`GenConfig`)

One file and its lock. Every operation is lock, read, work in memory, and, when
something has to be written, empty the file (`Truncate`), write full buffers
(`WritePart`, any number of times), close (`CloseFile`), and unlock. The list of items
is a function from tags to values. A partial write leaves each item as it was
to be written or missing, except one that may be cut off (`PartOf`). `Crash` kills a
process anywhere; the kernel then drops its lock. In the mapping to
`ConfigStore` an operation takes effect at `Truncate`: from then on the store is
the copy in the writer's memory, since nobody else can look at the file before
`unlock_file`. A get, or a remove that finds nothing, takes effect when it looks.

### 2.4 Port forwarding (`PForward`)

One chain. `present` and `file` are its file, `chain` and `jumps` whether the chain exists
and how often it is jumped to, `copies` how often each entry is in the NAT table. A
rule stands for two entries: its DNAT entry in the chain, named by the rule, and
the SNAT entry in `app_postroute`, named by the server, since that command has
neither the external port nor the chain in it. Rules to one server share it. A
call is a sequence of steps between which other processes run: the lookup (`Check`,
`Look`), the locked change of the file (`SetLine`, with the chain made for a new
file), the two iptables commands outside the lock (`AppendDnat`, `AppendSnat`;
`DeleteDnat`, `DeleteSnat`), `genconfig_remove_item` (`Unlist`) and the removal of an
empty file with its chain (`Tidy`). What is done under the lock is one step, which is
what `GenConfig` shows of locked operations. iptables appends copies, deletes one
copy, and does not delete a chain that has rules. `Reboot` may come anywhere; it
empties the NAT table and rebuilds it from the file, or passes the file over when
the uninitialised result of a failing `lstat` looks like a directory (`skipped`).

Three more history variables say what the properties leave out, so that it can be
counted. `raced`: two calls have overlapped since the boot. `replaced`: how often the
lines of an entry were written over by `set_pforward`, which never deletes the
entries of the rule it replaces. `spoilt`: entries of a rule that two overlapping
removals of one name have both looked up (the second takes a copy that is another
name's), and a DNAT entry whose append found no chain while a removal of it was
on its way.

### 2.5 The multicast proxy (`IgmpProxy`, `Callout`, `Timers`)

`pc` walks through `igmpProxyRun`: the top of the loop, select(), the ageing of the
queue, the events that are due one by one, and inside `ageActiveRoutes` its two
loops over the routes. `queue` is the callout queue, a sequence of nodes that hold
the seconds to their predecessor. A route has its state (`JOINED`, `CHECK` for the
last-member check), its age and whether it was heard of since the last ageing.
`joined` and `rules` are the WAN memberships and firewall rules, `cache` is what
/proc/net/ip_mr_cache lists. Several groups may share an Ethernet address (`Mac`), and
then share an entry of the member lists (`owner`, `report`, `port`). `mgroup` is the
daemon's table of the switch's slots, `address` and `register` are the switch itself:
the slot an address is registered with and the ports of a slot. A member whose
port is not found (-1) opens all ports, and a port is looked up anew at every
report. When the queue is empty the timeout pointer becomes NULL and stays so;
`WriteThroughNull` is the crash at the next timer. A daemon that ends loses its
memory, `mgroup` included, its memberships and the kernel's routes; the firewall and
the registers stay (`igmpProxyCleanUp` empties the slots first, a crash does not).
After a packet any number of seconds may be read off the wall clock (`Age`).

`upstream` is whether the start found an address on the WAN interface. If not,
`upStreamVif` stays -1 for as long as the daemon runs, the code reads an interface
in front of the array, and `JoinUpstream` and `LeaveUpstream` may do to the memberships
whatever such a read leads to. With an interface a join may still be refused; the
caller marks the route joined all the same. History variables: `missed`, the groups
whose last join was refused; `orphans`, the addresses a daemon that died has left in
the switch; `flapped`, that the link has been down since the start, after which the
code has lost timers.

The mapping to `Timers` gives every node its own seconds to go (the sum of the
differences up to it), forgets the order and counts, for each event and each
number of seconds, the nodes due within it.

## 3. Runs

| Run | Specification | What it checks |
|---|---|---|
| `dhcpd_core` | `Spec` | two clients, a pool of two, every packet, ARP outcome, flush and restart, static leases that change between restarts, one of them a twin IP outside the LAN, dhcpd_get_op answering both ways: `OneLeaseEach`, `NoDoublePromise`, `PromiseInv` (the inductive invariant), `HeldForNobody`, `PromiseKept`, refinement `BookSpec` |
| `dhcpd_faulty` | `SpecFaulty` | kills inside handlers, cut files, failed writes, a table smaller than the pool: `OneLeaseEach`, `TableFits`, `HandlerShrinks`, `HandlerEnds` |
| `dhcpd_reserved` | `SpecUp` | violation of `ReservedForOwner` (finding 1) |
| `dhcpd_byte_order` | `Spec` | violation of `PromiseKept` (finding 2) |
| `dhcpc` | `Spec` | all packets, losses, signals, exits, missed timeouts, leases of 0, 1 and 16 seconds: `Listening`, `AddressFitsState`, `LeaseInv`, `LeaseSettled`, `KeepsTrying` |
| `dhcpc_busy` | `SpecBusy` | violation of `FallsThrough` (finding 3) |
| `dhcpc_release` | `Spec` | violation of `ReleaseTakesAddress` (finding 4) |
| `config_store` | `SpecCrash` | two processes, killed anywhere: `ConfigInv`, refinement `StoreSpecLossy`, `LockReturned` |
| `port_forward` | `Spec` | two processes, two names, two rules to one server, reboots anywhere: `ChainInStep` and `FileInEffect` for every overlap, `OnlyReplacedLeft` for calls one after another |
| `igmp_proxy` | `Spec` | timers: two hosts, a failing link, clock jumps, restarts, quickleave on and off: `CheckIsProbed`, refinement `TimersSpec`, `GroupsExpire` |
| `igmp_tables` | `Spec` | tables: two hosts, ports found or not, refused joins, starts with and without a WAN address, crashes: `KernelInStep`, `JoinedReceives`, `UpstreamInStep`, `SwitchInStep` |
| `igmp_quickleave` | `Spec` | violation of `LeftWithRoute` (finding 5) |

Findings, each with its quotation in `PROJECT.json`:

1. `sendOffer` takes a requested address when it is somebody's static lease: the
   lookup is a reason for the offer instead of one against it.
2. `read_leases` compares addresses in network byte order; on a little-endian CPU
   a restart drops running leases when the pool spans a higher byte.
3. The client does not fall through when it has already timed out: it waits a
   second, and every packet starts the second over.
4. SIGUSR2 while the renewal of a SIGUSR1 is under way leaves the address on the
   interface and tells the server nothing.
5. With quickleave, when a first leave starts the last-member check and a second
   one empties the group before it ends, no function leaves the group upstream:
   membership and firewall rule outlive the route.

### Bounds, and why they are enough

* Server: two clients and two addresses are what a conflict needs (a third
  address, or fewer slots than addresses, only where the table must overflow).
  The clock stops at 3 (`MaxTime`): a lease of 2 granted at 0, or of 1 granted at 0
  or 1, runs out, and a second one is granted and survives a restart. Lease and offer times differ,
  so that an offer's record and an ACK's can be told apart. `Base` 8 keeps the last
  byte of the pool away from 0 and `Base`-1; `dhcpd_byte_order` uses 4, so that the
  pool crosses a byte. The proofs cover every other size.
* Client: retries of 1, 2, 2 and 3 seconds keep the order of the code's 2, 4, 10
  and 20. A lease of 16 is halved several times before the cut-off
  (`lease / 14400 + 1` is 1), 0 and 1 are the edge where T1 = T2 = 0 or T1 = 0.
  `AgeCap` (22) is more than any lease and a renewal's timeouts. `WordMod` 256 holds
  seven times every lease.
* Files: two processes, two tags that share a prefix, two values: a lost update
  needs two of each. All initial contents are tried.
* Forwarding: two processes are what an overlap needs. Two names, and two rules
  with one server, make the shared SNAT entry and a rule set over another happen;
  `MaxCopies` 2 is one copy for each name, or one left behind and one appended
  again. The proofs cover any number of processes, names, rules and servers.
* Proxy: one group with two hosts is what a last-member check with a second
  member needs. The delays keep the order of the code's (query 5, probe 15, ageing
  25, startup 30, general query 120 seconds); counts of 2 instead of 5 leave room
  for a report between two queries. In `igmp_proxy`, `MaxJump` 4 is the longest delay,
  so that one turn can find every timer due; `MaxTimers` bounds the leaves whose
  chains run at once. `igmp_tables` adds the port that is not found, the refused join
  and the start without a WAN address and leaves out the startup queries.
  What needs two groups, a full table of the switch (two groups, one slot) and
  a shared Ethernet address (`Shared` = {1, 2}), was checked with one host and counts
  of 1 (1.0 and 0.5 million states) and is covered by the proof of `ProxyPorts`,
  which holds for any number of groups, hosts, ports and slots.

### Fairness

* Server (`WF(ServerStep)`): a probe ends after its timeout, a write ends; nothing is
  assumed of packets. Used by `HandlerEnds` only.
* Client (`Quiet`): the loop and the clock run on (`SF(Tick)`, since the loop leaves
  and enters select() on every packet), and the timeout branch is taken if
  again and again it could be (`SF(TimedOut)`): some second passes without a packet.
  `SpecBusy` asks for less, `WF(TimedOut)`, and the difference is finding 3. Nothing
  is assumed of packets, servers, signals or exits.
* Files (`WF(Work(p))`): a process that holds the lock goes on or is killed. Nothing
  says that a process waiting for the lock gets it, as flock() does not
  promise it.

* Proxy (`WF(Daemon)`, `SF(TimePasses)`): the daemon goes on with what it is doing, and
  packets, however many, do not keep seconds from passing: select() times out or
  the clock read after a packet shows them. Nothing is assumed of packets, the
  link, stops or starts; `GroupsExpire` asks for a daemon that stays up with its link.
* Forwarding: no liveness is claimed.

Deadlock is checked in every run.

## 4. Proofs

All theorems hold for every value of the constants that satisfies the `ASSUME`s.

`DhcpdProofs`. `FaultyTypes` and `FaultyOneLeaseEach` need no assumption on sizes and
include kills and failed writes. For `ServerNoDoublePromise`, `ServerKeepsPromises` and
`ServerImplementsBook` the server is stopped between packets, the table has a slot
for every address (`TableHoldsPool`: with fewer, `add_lease` can fail after the ACK
was sent) and the pool keeps its order in network byte order
(`PoolKeepsByteOrder`: without it finding 2 is a counterexample). `PromiseKept` is not
inductive. `PromiseInv` adds what it depends on: the file covers every promise when
the server is idle (so a restart finds it), every record lies in the pool or is
reserved, expiry times do not wrap, and the address under probe is nobody's
while its client holds no promise. `FilePromise` is why a handler must write before
the next packet. That no two clients hold one address follows from
`PromiseKept` and `OneLeaseEach`; the lease book's guard is `NoDoublePromise` one step
earlier. `UpKeepsPromises` is the same for a server that is not restarted, and does
without `PoolKeepsByteOrder`: finding 2 is a mistake of `read_leases` alone.

`DhcpdTableProofs`. All three theorems include kills and failed writes.
`FaultyTableFits` has no assumption on sizes. Its invariant `FitsInv` bounds the file
together with the table, since the table is read back from the file, and each
operation is a bound on cardinalities: `add_lease` fills a free slot or takes over
an expired one, and what rewrites or saves records makes no more of them
(`ImageCard`). `FaultyHeldForNobody` assumes `TableHoldsPool`, because `add_lease` may fail to
record a conflict in a full table. `HeldForNobody` says where an address in conflict
is not. `HeldInv` says where it is: its blank record is in the table and lasts as long
as the reservation (`HeldKept`), and an address under probe has no record that has
not expired, or it is a static lease (`ProbeFree`). An address is
given to a client only over an expired record or his own, and so only when it is
not held (`Grantable`). `FaultyHandlerShrinks` is the half of `HandlerEnds` that needs no
fairness. `Work` bounds the steps left: the searches `sendOffer` has still to finish,
weighted by a full pass over the pool, then the addresses left in this one. Each
address of a search costs two steps, and a search is only ever followed by a
later one (requested, retry or free, expired).

`DhcpcProofs`. `ClientTypes`, `ClientListens` and `ClientAddress` hold whatever the clock
does. The lease bound holds as long as no second has passed unseen (`slips = 0`).
`LeaseInv` joins `TimersOrdered` (T1 <= T2 <= lease through every halving; this is
where `ShortLeases` is used, since 7 * lease must not overflow) with `TimerExact` (the
timer stands at T1 or T2 exactly, and what a requested renewal has spent is
what its packet count says). `LeaseRespected` follows: age <= lease, or
lease + 14 seconds (2 + 2 + 10) while a renewal that the user asked for is
running.

`GenConfigProofs`. `StoreInvariant`: exactly the holder of the lock is between read
and unlock, its copy is the file with its own change, and a file being written
is a part of the copy. From it, step by step, `FilesImplementStore` (`Spec`) and
`FilesImplementLossyStore` (`SpecCrash`): call = ask, `Truncate` or a look = perform,
unlock = finish, kill = die, everything else leaves the abstract store alone.

`PForwardProofs`. `ForwardTypes` carries what each step knows about the rule it runs for.
`ForwardChain` is inductive together with "no file, no lines". For an entry that rules
share, "it is there or somebody is about to append it" is not inductive: one line's
removal takes a copy that the other line needs. `ForwardEffect` therefore counts.
`BalanceInv` says of each entry that is not `spoilt`: the copies there are, plus the
calls about to append one, suffice for the removals about to delete one and for
every line with the entry that no removal has looked up. `ForwardClean` needs the exact count:
`ExactInv` says that while no two calls have overlapped at most one process is at
work, what it holds is still the line of the file, and each entry is there as
often as the file, that process and the lines written over say. That is what fails
when two calls overlap.

`CalloutProofs`. `SetTimerKeepsTimes` and `AgeingIsExact` are about `timer_setTimer` and
`age_callout_queue` on every queue, delay and elapsed time. A node stores only the
difference to its predecessor, so both are statements about prefix sums: the new
sums are given in closed form, and `OffsetsUnique` says that a function with the right
first value and differences is the sum. That, and that the sums do not decrease,
are inductions along the queue, carried out as a least counterexample
(`NatMin`, from well-foundedness of `<` on the naturals). Ties are decided by the code's
`delay < ptr->time`: a new timer goes behind the ones due at the same second.

`IgmpProxyProofs`. One inductive invariant, `ProxyInv`, of six parts that are proved in
turn. `RouteInv`: a route's age is positive and the two loops of `ageActiveRoutes` have
only routes before them; without it an age could pass zero and never be removed
(`ProxyTypes`). `UpInv`: each group is in step on its own (`InStep`), and a daemon that
has ended has no route and no membership, which is why a restart that changes
quickleave, or finds a WAN address at last, keeps `UpstreamInStep`. `SwitchInv`:
`SwitchInStep` with its types is inductive, because every change of the member
lists concerns one Ethernet address (`OnlyMac`) and `get_mgroup_index` gives that address
its own slot or a free one, never another's (`MacTableKeeps`); a crash only moves
what is registered to `orphans` (`EndKeeps`). `QueueInv`: all
timers are well formed, nothing is due outside the events' loop, and while routes
are swept the event at the head is the ageing. `ScalarInv`: a link that has not failed
since the start is up. `ProbeInv` is `CheckIsProbed`; it uses all but the switch, and
of the queue only that adding a timer keeps the others and that ageing moves each
into one of its two results. The theorems are `ProxyTypes`, `ProxyKernel`, `ProxyReceives`,
`ProxyUpstream`, `ProxyPorts` and `ProxyProbes`.

`IgmpTimersProofs`. `ProxyTimers` is the refinement of `Timers`. First the counts:
`SetTimerCounts` (a timer that is set adds one to the counts from its delay on),
`AgeingCounts` (ageing by t splits the counts at t) and `TailCounts` (running an event
takes one occurrence of it) follow from the theorems of `CalloutProofs` by bijections between
positions (`SkipOne`, `MoveAll`). Then the daemon: `StepTimers` sorts its actions by
what they do to the timers, that is set some (`Gains`), run one, age, or drop them all,
and the lemmas behind it map each kind to its step of `Timers`. The mapping looks no
further than QueryInterval, so the invariant `BoundInv` says that no timer has longer
to go (`DelayOrder` orders the delays of the code) and that a daemon that has ended has
no timer, which makes the start a setting of timers. Of `ProxyInv` it uses `QueueInv`:
nothing is due when an ageing begins.

Only model-checked: the liveness properties (`HandlerEnds`, `LeaseSettled`,
`KeepsTrying`, `LockReturned`, `GroupsExpire`), which need fairness and ENABLED. Every
other property of a passing run is the statement of a theorem.

## 5. What is not modelled, and the plan

Left out on purpose: packet layout, options other than the lease time, host
names, script environment, log texts; a failing lock file and a failing
`fopen` of an existing file (hazards with a note); leases above 613566756 seconds
in the client; everything vendored or binary.

Of the port forwarding code, `set_pforward_list` is left out: it empties the file
before it takes the lock, and two descriptors then write at offsets of their
own, which a model of lines cannot express. Of the proxy: the router port,
the all-hosts rule and the copy of the member lists in a file, the groups it
ignores, more than one downstream interface (the product configures one), failing
system calls other than the join, a WAN interface that goes away and takes its
memberships with it, and the memory that `internAgeRoute` and `sweap_no_report_members` read after freeing it.
The login sessions (`session_api.c`) are set under the same lock and in the same
way as the files of `GenConfig`; there is nothing new to show of them.

Next, in this order:

1. Theorems: the safety halves of the other liveness properties, as `HandlerShrinks` is
   one of `HandlerEnds` (the age of a route nobody reports, the wait of a client).
2. `GenConfig`: the indexed items (`tag+...`), whose places shift when one is removed.
3. `DhcpLan`: the client's view of a lease against the server's, over a network
   that loses, repeats and delays packets. Properties: a client in BOUND has a
   record; a late DISCOVER does not cost a bound client its address.
