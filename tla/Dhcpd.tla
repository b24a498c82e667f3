------------------------------- MODULE Dhcpd -------------------------------
(***************************************************************************)
(* The DHCP server udhcpd (udhcp-0.9.8: dhcpd.c, leases.c, serverpacket.c, *)
(* files.c) as built for this router: a single-threaded loop that handles  *)
(* one packet at a time, a table of leases in memory, and a lease file     *)
(* that a restarted server reads back.                                     *)
(*                                                                         *)
(* The handler of a DISCOVER takes several steps because every candidate   *)
(* address is probed with ARP for up to two seconds, during which the      *)
(* clock runs on; `job' is the handler's program counter.  Every other     *)
(* handler is one step, followed by the step that writes the lease file.   *)
(*                                                                         *)
(* Addresses are natural numbers in host byte order; Base stands for 256,  *)
(* so a % Base is an address's last byte.  0 stands for "no address" and   *)
(* for an absent option, as it does in the code.                           *)
(***************************************************************************)
EXTENDS Integers, FiniteSets

CONSTANTS
    Clients,        \* hardware addresses of the clients
    Blank,          \* blank_chaddr: the owner of a reserved address
    Addr,           \* the IP addresses that occur
    Start, End,     \* server_config.start, server_config.end (host order)
    Base,           \* the values of one address byte
    LocalIP,        \* the address of the LAN interface
    Subnet,         \* the addresses of the LAN (sys_netmask)
    StaticConfigs,  \* the contents the static lease file may have
    TwinIP,         \* the clients check_ipclone_ipaddr() accepts
    OpReads,        \* what dhcpd_get_op() may return
    MaxLeases,      \* server_config.max_leases
    Lease, MinLease, OfferTime, ConflictTime, DeclineTime, TwinLease,
    LeaseOpts,      \* values of the DHCP_LEASE_TIME option (0: absent)
    TimeMod,        \* the expiry field holds times modulo TimeMod (2^32)
    MaxTime         \* bound on the clock

Pool == Start .. End

ASSUME AddressAssumption ==
    /\ IsFiniteSet(Addr) /\ Addr \subseteq Nat \ {0}
    /\ Start \in Nat /\ End \in Nat /\ Pool \subseteq Addr
    /\ Base \in Nat \ {0}
    /\ Blank \notin Clients
    /\ StaticConfigs \subseteq [Clients -> Addr \cup {0}] 
    /\ StaticConfigs # {}

ASSUME TimeAssumption ==
    /\ MaxTime \in Nat \ {0} /\ TimeMod \in Nat /\ MaxLeases \in Nat
    /\ Lease \in Nat /\ MinLease \in Nat /\ OfferTime \in Nat
    /\ ConflictTime \in Nat /\ DeclineTime \in Nat /\ TwinLease \in Nat
    /\ LeaseOpts \subseteq Nat
    /\ \A t \in {Lease, OfferTime, ConflictTime, DeclineTime, TwinLease} :
           MaxTime + t < TimeMod

ASSUME OpAssumption == OpReads \subseteq BOOLEAN

VARIABLES
    now,        \* time(0)
    leases,     \* the used slots of the leases table
    file,       \* the lease file
    static,     \* static_leases: the address reserved for each client, or 0
    job,        \* what the server is doing
    reply,      \* the packet the last step sent, if any
    promise,    \* history: what the last ACK promised each client
    held        \* history: until when the running server reserved an
                \* address for nobody

vars == <<now, leases, file, static, job, reply, promise, held>>

Leases == [chaddr : Clients \cup {Blank}, yiaddr : Addr, expires : Nat]
Stored == [chaddr : Clients \cup {Blank}, yiaddr : Addr, left : Nat]

Replies == [type : {"none", "OFFER", "ACK", "NAK"}, to : Clients \cup {Blank},
            yiaddr : Addr \cup {0}, time : Nat]
Promises == [addr : Addr \cup {0}, until : Nat]
Jobs == [pc : {"idle", "scan", "arp", "write"},
         chaddr : Clients \cup {Blank}, addr : Nat,
         phase : {"none", "requested", "free", "expired", "retry"}]

NoReply == [type |-> "none", to |-> Blank, yiaddr |-> 0, time |-> 0]
NoPromise == [addr |-> 0, until |-> 0]

Idle == [pc |-> "idle", chaddr |-> Blank, addr |-> 0, phase |-> "none"]
Writing == [Idle EXCEPT !.pc = "write"]

-----------------------------------------------------------------------------
(* The lease table.                                                        *)

(* Mutant: a lease is over in its last second. *)
MutExpiredEarly(r) == r.expires <= now

lease_expired(r) == r.expires < now

find_lease_by_chaddr(c) == {r \in leases : r.chaddr = c}

find_lease_by_yiaddr(a) == {r \in leases : r.yiaddr = a}

(* Mutant: the old owner of the address keeps its record. *)
MutClearByClient(T, c, a) == {r \in T : r.chaddr = c => c = Blank}

clear_lease(T, c, a) == {r \in T : (r.chaddr = c => c = Blank) /\ r.yiaddr # a}

oldest_expired_lease(T) ==
    {r \in T : lease_expired(r) /\ \A q \in T : r.expires <= q.expires}

(* The tables add_lease may leave: an unused slot is always the oldest; of *)
(* several equally old leases the one in the first slot goes, and the      *)
(* model leaves open which that is.  When the result lacks the new record, *)
(* add_lease returned NULL (the old records are cleared all the same).     *)
NewLease(c, a, t) ==
    [chaddr |-> c, yiaddr |-> a, expires |-> (now + t) % TimeMod]

(* Mutant: the size of the table is not looked at. *)
MutAddUnbounded(T, c, a, t) == {clear_lease(T, c, a) \cup {NewLease(c, a, t)}}

add_lease(T, c, a, t) ==
    LET kept == clear_lease(T, c, a)
    IN  IF Cardinality(kept) < MaxLeases
        THEN {kept \cup {NewLease(c, a, t)}}
        ELSE IF oldest_expired_lease(kept) # {}
        THEN {(kept \ {old}) \cup {NewLease(c, a, t)} :
                 old \in oldest_expired_lease(kept)}
        ELSE {kept}

find_static_lease_by_yiaddr(a) == \E c \in Clients : static[c] = a

Local(a) == a \in Subnet

(* Mutant: the time left of an expired lease is computed all the same. *)
MutSnapshotNegative ==
    {[chaddr |-> r.chaddr, yiaddr |-> r.yiaddr, left |-> r.expires - now] : r \in leases}

(* What write_leases stores: the time left of each lease.                  *)
Snapshot ==
    {[chaddr |-> r.chaddr, yiaddr |-> r.yiaddr,
      left |-> IF lease_expired(r) THEN 0 ELSE r.expires - now] : r \in leases}

(* What read_leases makes of a stored record.  It compares addresses in    *)
(* network byte order on a little-endian CPU, where the last byte of an    *)
(* address is the most significant one.                                    *)
NetOrder(a) == (a % Base) * Base + (a \div Base)

InStoredRange(a) == NetOrder(a) >= NetOrder(Start) /\ NetOrder(a) <= NetOrder(End)

(* Mutant: the time left is taken for the time of expiry. *)
MutReadAbsolute(f) ==
    {[chaddr |-> s.chaddr, yiaddr |-> s.yiaddr, expires |-> s.left] :
        s \in {x \in f : InStoredRange(x.yiaddr)}}

read_leases(f) ==
    {NewLease(s.chaddr, s.yiaddr, s.left) : s \in {x \in f : InStoredRange(x.yiaddr)}}

-----------------------------------------------------------------------------
(* DISCOVER: sendOffer.                                                    *)

(* The end of sendOffer, once an address is chosen.  The lease is recorded *)
(* before dhcpd_get_op() is asked whether LAN addresses are given out, and *)
(* the packet may fail to be sent.                                         *)
Offer(c, a) ==
    /\ leases' \in add_lease(leases, c, a, OfferTime)
    /\ \/ /\ NewLease(c, a, OfferTime) \in leases'
          /\ Local(a) => TRUE \in OpReads
          /\ reply' = [type |-> "OFFER", to |-> c, yiaddr |-> a, time |-> 0]
       \/ reply' = NoReply
    /\ job' = Writing

(* find_address skips these addresses whatever the table says.             *)
Assignable(a) ==
    /\ a # LocalIP
    /\ a % Base \notin {0, Base - 1}
    /\ ~find_static_lease_by_yiaddr(a)

(* The addresses find_address would probe from position n on.              *)
Candidates(n, check_expired) ==
    {a \in Pool : /\ a >= n
                  /\ Assignable(a)
                  /\ \A r \in find_lease_by_yiaddr(a) :
                         check_expired /\ lease_expired(r)}

ScanFrom(c, n, phase) ==
    job' = [pc |-> "scan", chaddr |-> c, addr |-> n, phase |-> phase]

Probe(c, a, phase) ==
    job' = [pc |-> "arp", chaddr |-> c, addr |-> a, phase |-> phase]

(* The branches of sendOffer that end in find_address or in a probe of the *)
(* requested address; neither touches the table yet.                       *)
SearchAddress(c, req) ==
    /\ \/ \E r \in find_lease_by_chaddr(c) :
              /\ find_static_lease_by_yiaddr(r.yiaddr)
              /\ ScanFrom(c, Start, "free")
       \/ /\ find_lease_by_chaddr(c) = {}
          /\ LET available ==
                   /\ req \in Pool
                   /\ \/ find_static_lease_by_yiaddr(req)
                      \/ \A r \in find_lease_by_yiaddr(req) : lease_expired(r)
             IN  \/ available  /\ Probe(c, req, "requested")
                 \/ ~available /\ ScanFrom(c, Start, "free")
    /\ UNCHANGED <<leases, reply>>

Discover(c, req) ==
    /\ job.pc = "idle"
    /\ \/ static[c] # 0 /\ Offer(c, static[c])
       \/ /\ static[c] = 0
          /\ \E r \in find_lease_by_chaddr(c) :
                 /\ ~find_static_lease_by_yiaddr(r.yiaddr)
                 /\ Offer(c, r.yiaddr)
       \/ static[c] = 0 /\ SearchAddress(c, req)
    /\ promise' = [promise EXCEPT ![c] = NoPromise]
    /\ UNCHANGED <<now, file, static, held>>

(* Mutant: an exhausted pool is searched again. *)
MutScanAgain ==
    /\ job.pc = "scan"
    /\ LET found == Candidates(job.addr, job.phase = "expired")
       IN  \/ \E a \in found : /\ \A b \in found : a <= b
                               /\ Probe(job.chaddr, a, job.phase)
           \/ found = {} /\ ScanFrom(job.chaddr, Start, "expired")
    /\ reply' = NoReply
    /\ UNCHANGED <<now, leases, file, static, promise, held>>

(* One turn of the loop in find_address: on to the next candidate, or the  *)
(* end of the pool.  sendOffer then looks for an expired lease - except    *)
(* after a conflict on the requested address (phase "retry"), where it     *)
(* gives up.                                                               *)
Scan ==
    /\ job.pc = "scan"
    /\ LET found == Candidates(job.addr, job.phase = "expired")
       IN  \/ \E a \in found :
                  /\ \A b \in found : a <= b
                  /\ Probe(job.chaddr, a, job.phase)
           \/ /\ found = {}
              /\ IF job.phase = "free"
                 THEN ScanFrom(job.chaddr, Start, "expired")
                 ELSE job' = Writing
    /\ reply' = NoReply
    /\ UNCHANGED <<now, leases, file, static, promise, held>>

(* check_ip: somebody answered, so the address is reserved.                *)
ArpAnswered ==
    /\ job.pc = "arp"
    /\ leases' \in add_lease(leases, Blank, job.addr, ConflictTime)
    /\ held' = [held EXCEPT ![job.addr] = now + ConflictTime]
    /\ IF job.phase = "requested"
       THEN ScanFrom(job.chaddr, Start, "retry")
       ELSE ScanFrom(job.chaddr, job.addr + 1, job.phase)
    /\ reply' = NoReply
    /\ UNCHANGED <<now, file, static, promise>>

(* Nobody answered.  After a conflict on the requested address, a free     *)
(* address that is found is dropped in favour of a second search.          *)
ArpSilent ==
    /\ job.pc = "arp"
    /\ IF job.phase = "retry"
       THEN /\ ScanFrom(job.chaddr, Start, "expired")
            /\ reply' = NoReply
            /\ UNCHANGED leases
       ELSE Offer(job.chaddr, job.addr)
    /\ UNCHANGED <<now, file, static, promise, held>>

-----------------------------------------------------------------------------
(* REQUEST, DECLINE, RELEASE.                                              *)

NAK(c) ==
    /\ reply' = [type |-> "NAK", to |-> c, yiaddr |-> 0, time |-> 0]
    /\ UNCHANGED <<leases, promise>>

Silence == reply' = NoReply /\ UNCHANGED <<leases, promise>>

LeaseTime(c, a, opt) ==
    IF ~Local(a) /\ c \in TwinIP THEN TwinLease
    ELSE IF opt # 0 /\ opt <= Lease /\ opt >= MinLease THEN opt
    ELSE Lease

(* sendACK: the packet goes first; only when it went is the lease          *)
(* recorded, and whether add_lease found room is not looked at.            *)
ACK(c, a, opt) ==
    LET t == LeaseTime(c, a, opt)
    IN  \/ Silence
        \/ /\ reply' = [type |-> "ACK", to |-> c, yiaddr |-> a, time |-> t]
           /\ leases' \in add_lease(leases, c, a, t)
           /\ promise' = [promise EXCEPT ![c] = [addr |-> a, until |-> now + t]]

(* sid: the server identifier is absent, ours or another server's.         *)
Sids == {"absent", "ours", "other"}

RequestOfKnown(r, c, sid, req, ciaddr, opt) ==
    IF req # 0 /\ (c \in TwinIP <=> Local(req))
    THEN NAK(c)
    ELSE IF sid # "absent"
    THEN IF sid = "ours" /\ req = r.yiaddr THEN ACK(c, r.yiaddr, opt) ELSE Silence
    ELSE IF r.yiaddr = (IF req # 0 THEN req ELSE ciaddr)
    THEN ACK(c, r.yiaddr, opt)
    ELSE NAK(c)

(* Mutant: INIT-REBOOT does not look for the address in the table. *)
MutInitRebootBlind(c, req, opt) ==
    IF static[c] \notin {0, req} THEN Silence
    ELSE IF req \notin Pool \/ find_static_lease_by_yiaddr(req) THEN NAK(c)
    ELSE ACK(c, req, opt)

(* A client without a lease that asks for an address it remembers.         *)
InitReboot(c, req, opt) ==
    IF static[c] \notin {0, req} THEN Silence
    ELSE IF find_lease_by_yiaddr(req) # {}
    THEN \E r \in find_lease_by_yiaddr(req) :
            IF lease_expired(r)
            THEN /\ leases' = (leases \ {r}) \cup {[r EXCEPT !.chaddr = Blank]}
                 /\ reply' = NoReply
                 /\ UNCHANGED promise
            ELSE NAK(c)
    ELSE IF req \notin Pool \/ find_static_lease_by_yiaddr(req) THEN NAK(c)
    ELSE ACK(c, req, opt)

RequestOfUnknown(c, sid, req, opt) ==
    IF sid # "absent" THEN Silence
    ELSE IF req # 0 THEN InitReboot(c, req, opt)
    ELSE NAK(c)

(* Mutant: the handler of a REQUEST does not write the file. *)
MutRequestUnwritten(c, sid, req, ciaddr, opt) ==
    /\ job.pc = "idle"
    /\ \/ \E r \in find_lease_by_chaddr(c) :
              RequestOfKnown(r, c, sid, req, ciaddr, opt)
       \/ /\ find_lease_by_chaddr(c) = {}
          /\ RequestOfUnknown(c, sid, req, opt)
    /\ UNCHANGED <<now, file, static, job, held>>

Request(c, sid, req, ciaddr, opt) ==
    /\ job.pc = "idle"
    /\ \/ \E r \in find_lease_by_chaddr(c) :
              RequestOfKnown(r, c, sid, req, ciaddr, opt)
       \/ /\ find_lease_by_chaddr(c) = {}
          /\ RequestOfUnknown(c, sid, req, opt)
    /\ job' = Writing
    /\ UNCHANGED <<now, file, static, held>>

(* Mutant: DECLINE leaves the client's name on the record. *)
MutDeclineKeepsOwner(c) ==
    /\ job.pc = "idle"
    /\ LET mine == find_lease_by_chaddr(c)
       IN  /\ leases' = (leases \ mine) \cup
                {NewLease(c, r.yiaddr, DeclineTime) : r \in mine}
           /\ held' = [a \in Addr |-> IF \E r \in mine : r.yiaddr = a
                                      THEN now + DeclineTime ELSE held[a]]
    /\ promise' = [promise EXCEPT ![c] = NoPromise]
    /\ reply' = NoReply
    /\ UNCHANGED <<now, file, static, job>>

(* DECLINE reserves the address; it is the one handler that changes the    *)
(* table without writing the file.                                         *)
Decline(c) ==
    /\ job.pc = "idle"
    /\ LET mine == find_lease_by_chaddr(c)
       IN  /\ leases' = (leases \ mine) \cup
                {NewLease(Blank, r.yiaddr, DeclineTime) : r \in mine}
           /\ held' = [a \in Addr |-> IF \E r \in mine : r.yiaddr = a
                                      THEN now + DeclineTime ELSE held[a]]
    /\ promise' = [promise EXCEPT ![c] = NoPromise]
    /\ reply' = NoReply
    /\ UNCHANGED <<now, file, static, job>>

Release(c) ==
    /\ job.pc = "idle"
    /\ LET mine == find_lease_by_chaddr(c)
       IN  leases' = (leases \ mine) \cup {[r EXCEPT !.expires = now] : r \in mine}
    /\ promise' = [promise EXCEPT ![c] = NoPromise]
    /\ reply' = NoReply
    /\ job' = Writing
    /\ UNCHANGED <<now, file, static, held>>

-----------------------------------------------------------------------------
(* The lease file, signals and time.                                       *)

write_leases ==
    /\ job.pc = "write"
    /\ file' = Snapshot
    /\ job' = Idle
    /\ reply' = NoReply
    /\ UNCHANGED <<now, leases, static, promise, held>>

(* The auto_time timeout, or SIGUSR1.                                      *)
Flush ==
    /\ job.pc = "idle"
    /\ job' = Writing
    /\ reply' = NoReply
    /\ UNCHANGED <<now, leases, file, static, promise, held>>

StartFrom(f) ==
    /\ leases' = read_leases(f)
    /\ static' \in StaticConfigs
    /\ job' = Idle
    /\ reply' = NoReply
    /\ held' = [a \in Addr |-> 0]
    /\ UNCHANGED <<now, promise>>

(* SIGTERM is taken between packets; nothing is written on the way out.    *)
Restart ==
    /\ job.pc = "idle"
    /\ StartFrom(file)
    /\ UNCHANGED file

Tick ==
    /\ now < MaxTime
    /\ now' = now + 1
    /\ reply' = NoReply
    /\ UNCHANGED <<leases, file, static, job, promise, held>>

Init ==
    /\ now = 1
    /\ leases = {}
    /\ file = {}
    /\ static \in StaticConfigs
    /\ job = Idle
    /\ reply = NoReply
    /\ promise = [c \in Clients |-> NoPromise]
    /\ held = [a \in Addr |-> 0]

ServerStep == Scan \/ ArpAnswered \/ ArpSilent \/ write_leases

NextUp ==
    \/ \E c \in Clients, req \in Addr \cup {0} : Discover(c, req)
    \/ \E c \in Clients, sid \in Sids, req, ciaddr \in Addr \cup {0},
          opt \in LeaseOpts : Request(c, sid, req, ciaddr, opt)
    \/ \E c \in Clients : Decline(c) \/ Release(c)
    \/ ServerStep
    \/ Flush
    \/ Tick

Next == NextUp \/ Restart

(* dhcpd_stop sends SIGKILL ten milliseconds after SIGTERM, so a busy      *)
(* server dies inside its handler, and one that is writing leaves any part *)
(* of the file.                                                            *)
Kill ==
    /\ job.pc # "idle"
    /\ \E f \in {file} \cup (IF job.pc = "write" THEN SUBSET Snapshot ELSE {}) :
           /\ file' = f
           /\ StartFrom(f)

(* write_leases returns when the file cannot be opened.                    *)
WriteFails ==
    /\ job.pc = "write"
    /\ job' = Idle
    /\ reply' = NoReply
    /\ UNCHANGED <<now, leases, file, static, promise, held>>

NextFaulty == Next \/ Kill \/ WriteFails

SpecUp     == Init /\ [][NextUp]_vars /\ WF_vars(ServerStep)
Spec       == Init /\ [][Next]_vars /\ WF_vars(ServerStep)
SpecFaulty == Init /\ [][NextFaulty]_vars /\ WF_vars(ServerStep)

-----------------------------------------------------------------------------
(* Properties.                                                             *)

(* Every variable has its type.                                            *)
TypeOK ==
    /\ now \in 1 .. MaxTime
    /\ leases \subseteq Leases
    /\ file \subseteq Stored
    /\ static \in StaticConfigs
    /\ job \in Jobs
    /\ job.pc \in {"scan", "arp"} => job.chaddr \in Clients
    /\ job.pc = "arp" => job.addr \in Pool
    /\ reply \in Replies
    /\ promise \in [Clients -> Promises]
    /\ held \in [Addr -> Nat]

Distinct(T) ==
    \A r, q \in T :
        \/ r = q
        \/ r.yiaddr # q.yiaddr /\ (r.chaddr = q.chaddr => r.chaddr = Blank)

(* add_lease never leaves two records for one address or for one client,   *)
(* in the table or in the file, however offers, conflicts, declines and    *)
(* restarts follow each other.                                             *)
OneLeaseEach == Distinct(leases) /\ Distinct(file)

(* The table never holds more records than it has slots.                   *)
TableFits == Cardinality(leases) <= MaxLeases

(* An address some static lease file reserves for a client.                *)
Reserved == {a \in Addr : \E s \in StaticConfigs, c \in Clients : s[c] = a}

(* The client may still use the address its last ACK gave it.              *)
Active(c) == promise[c].addr # 0 /\ now <= promise[c].until

(* Two clients never hold an unexpired ACK for the same dynamic address:   *)
(* what a DHCP server is for.                                              *)
NoDoublePromise ==
    \A c, d \in Clients :
        Active(c) /\ Active(d) /\ promise[c].addr = promise[d].addr
            => c = d \/ promise[c].addr \in Reserved

(* While a client may use a dynamic address, the table holds that address  *)
(* for it and for no shorter time - after a restart too, so its renewals   *)
(* are acknowledged.                                                       *)
PromiseKept ==
    \A c \in Clients :
        Active(c) /\ promise[c].addr \notin Reserved
            => \E r \in leases : /\ r.chaddr = c
                                 /\ r.yiaddr = promise[c].addr
                                 /\ r.expires >= promise[c].until

(* What PromiseKept needs of the configuration: a slot for every address,  *)
(* and a pool whose order read_leases does not mistake (one that does not  *)
(* span values of a higher address byte).                                  *)
TableHoldsPool == Cardinality(Addr) <= MaxLeases
PoolKeepsByteOrder == \A a \in Pool : InStoredRange(a)

(* The inductive strengthening of PromiseKept.  The file covers the        *)
(* promises whenever the server may be stopped; addresses outside the pool *)
(* are reserved ones; expiry times do not wrap; an address under probe is  *)
(* nobody's, and the client it is probed for holds no promise.             *)
FilePromise ==
    job.pc = "idle" =>
        \A c \in Clients :
            Active(c) /\ promise[c].addr \notin Reserved
                => \E s \in file : /\ s.chaddr = c
                                   /\ s.yiaddr = promise[c].addr
                                   /\ now + s.left >= promise[c].until

InPool ==
    /\ \A r \in leases : r.yiaddr \in Pool \cup Reserved
    /\ \A s \in file : s.yiaddr \in Pool \cup Reserved

NoWrap ==
    /\ \A r \in leases : MaxTime + r.expires < TimeMod + now
    /\ \A s \in file : MaxTime + s.left < TimeMod

ProbeSafe ==
    /\ job.pc \in {"scan", "arp"} => promise[job.chaddr] = NoPromise
    /\ job.pc = "arp" /\ job.addr \notin Reserved
           => \A r \in leases : r.yiaddr = job.addr => lease_expired(r)

PromiseInv == PromiseKept /\ FilePromise /\ InPool /\ NoWrap /\ ProbeSafe

(* An address that answered ARP or was declined is in no client's record   *)
(* until its conflict_time or decline_time is over (as long as the server  *)
(* stays up).                                                              *)
HeldForNobody ==
    \A r \in leases : \/ r.chaddr = Blank
                      \/ r.yiaddr \in Reserved
                      \/ held[r.yiaddr] < now

(* The handler of a packet comes to an end: the ARP scan of a DISCOVER     *)
(* never cycles through the pool, whatever answers it gets.                *)
HandlerEnds == (job.pc # "idle") ~> (job.pc = "idle")

(* An upper bound on the steps left to the handler.  Laps are the searches *)
(* of the pool sendOffer has still to begin or to finish, in each of which *)
(* an address is looked at and probed at most once.                        *)
Left(n) == IF n <= End THEN End + 1 - n ELSE 0

Lap == 2 * Left(Start) + 2

Laps == CASE job.phase = "requested"         -> 3
          [] job.phase \in {"free", "retry"} -> 2
          [] OTHER                           -> 1

Work == CASE job.pc = "scan"  -> Laps * Lap + 2 * Left(job.addr) + 1
          [] job.pc = "arp"   -> Laps * Lap + 2 * Left(job.addr)
          [] job.pc = "write" -> 1
          [] OTHER            -> 0

(* Why the handler ends: every step of a busy server but the passing of a  *)
(* second brings the bound down: a search probes an address at most once,  *)
(* and no more searches begin, whatever answers and expiries come between. *)
HandlerShrinks ==
    [][job.pc # "idle" => IF now' = now THEN Work' < Work ELSE Work' = Work]_vars

(* The dynamic part of the promises is a lease book: LeaseBook!Spec.       *)
DynamicPromise ==
    [c \in Clients |-> IF promise[c].addr \in Reserved THEN NoPromise ELSE promise[c]]

Book == INSTANCE LeaseBook WITH grant <- DynamicPromise

(* The server implements the lease book: an address is granted only when   *)
(* nobody else's grant of it is still running.                             *)
BookSpec == Book!Spec

=============================================================================
