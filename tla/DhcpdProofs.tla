---------------------------- MODULE DhcpdProofs ----------------------------
(***************************************************************************)
(* Theorems about the DHCP server, for every set of clients, pool, static  *)
(* lease file, table size and lease time.                                  *)
(***************************************************************************)
EXTENDS Dhcpd, FiniteSetTheorems, TLAPS

-----------------------------------------------------------------------------
(* The lease table.                                                        *)

(* The expiry time of a new record does not wrap for the lease times the   *)
(* configuration allows, and is always a number.                           *)
LEMMA NewLeaseType ==
    ASSUME now \in 1 .. MaxTime, NEW c \in Clients \cup {Blank},
           NEW a \in Addr, NEW t \in Nat
    PROVE  /\ NewLease(c, a, t) \in Leases
           /\ MaxTime + t < TimeMod => NewLease(c, a, t).expires = now + t
BY TimeAssumption DEF NewLease, Leases

(* add_lease keeps nothing but what clear_lease left and the new record,   *)
(* and loses only an expired record.                                       *)
LEMMA AddLeaseKeeps ==
    ASSUME NEW c, NEW a, NEW t, NEW T \in add_lease(leases, c, a, t)
    PROVE  /\ T \subseteq clear_lease(leases, c, a) \cup {NewLease(c, a, t)}
           /\ \A r \in clear_lease(leases, c, a) : r \in T \/ lease_expired(r)
<1> DEFINE kept == clear_lease(leases, c, a)
<1> DEFINE new == NewLease(c, a, t)
<1>1. CASE T = kept \cup {new}
  BY <1>1
<1>2. CASE \E old \in oldest_expired_lease(kept) : T = (kept \ {old}) \cup {new}
  BY <1>2 DEF oldest_expired_lease
<1>3. CASE T = kept
  BY <1>3
<1>4. QED
  BY <1>1, <1>2, <1>3 DEF add_lease

(* clear_lease leaves neither the client's nor the address's old record.   *)
LEMMA AddLeaseType ==
    ASSUME leases \subseteq Leases, now \in 1 .. MaxTime,
           NEW c \in Clients \cup {Blank}, NEW a \in Addr, NEW t \in Nat,
           NEW T \in add_lease(leases, c, a, t)
    PROVE  T \subseteq Leases
BY NewLeaseType, AddLeaseKeeps DEF clear_lease

LEMMA AddLeaseDistinct ==
    ASSUME leases \subseteq Leases, Distinct(leases),
           NEW c, NEW a, NEW t, NEW T \in add_lease(leases, c, a, t)
    PROVE  Distinct(T)
<1>1. T \subseteq clear_lease(leases, c, a) \cup {NewLease(c, a, t)}
  BY AddLeaseKeeps
<1>2. NewLease(c, a, t).chaddr = c /\ NewLease(c, a, t).yiaddr = a
  BY DEF NewLease
<1>3. \A r \in clear_lease(leases, c, a) :
         r \in leases /\ r.yiaddr # a /\ (r.chaddr = c => c = Blank)
  BY DEF clear_lease
<1>4. QED
  BY <1>1, <1>2, <1>3 DEF Distinct

(* A table of distinct records with one slot per address always has room.  *)
LEMMA AddLeaseRoom ==
    ASSUME leases \subseteq Leases, Distinct(leases),
           Cardinality(Addr) <= MaxLeases,
           NEW c, NEW a \in Addr, NEW t, NEW T \in add_lease(leases, c, a, t)
    PROVE  NewLease(c, a, t) \in T
<1> DEFINE kept == clear_lease(leases, c, a)
<1> DEFINE f == [r \in kept |-> r.yiaddr]
<1>1. IsFiniteSet(Addr) /\ IsFiniteSet(Addr \ {a})
      /\ Cardinality(Addr \ {a}) = Cardinality(Addr) - 1
      /\ Cardinality(Addr) \in Nat
  BY AddressAssumption, FS_RemoveElement, FS_CardinalityType
<1>2. f \in Injection(kept, Addr \ {a})
  <2>1. f \in [kept -> Addr \ {a}]
    BY DEF clear_lease, Leases
  <2>2. \A r, q \in kept : f[r] = f[q] => r = q
    BY DEF clear_lease, Distinct
  <2>3. QED
    BY <2>1, <2>2 DEF Injection, IsInjective
<1>3. IsFiniteSet(kept) /\ Cardinality(kept) <= Cardinality(Addr \ {a})
  <2> HIDE DEF f, kept
  <2>1. QED
    BY <1>1, <1>2, FS_Injection
<1>4. Cardinality(kept) < MaxLeases
  <2>1. Cardinality(kept) \in Nat
    BY <1>3, FS_CardinalityType
  <2>2. QED
    BY <1>1, <1>3, <2>1, TimeAssumption
<1>5. QED
  BY <1>4 DEF add_lease

-----------------------------------------------------------------------------
(* Types.                                                                  *)

USE DEF lease_expired, find_lease_by_chaddr, find_lease_by_yiaddr,
        find_static_lease_by_yiaddr

LEMMA JobTypes ==
    /\ Idle \in Jobs /\ Writing \in Jobs
    /\ Idle.pc = "idle" /\ Writing.pc = "write"
    /\ NoReply \in Replies
    /\ NoPromise \in Promises
BY DEF Idle, Writing, Jobs, NoReply, NoPromise, Replies, Promises

(* sendACK's lease time is a number within the configured bounds.          *)
LEMMA LeaseTimeType ==
    ASSUME NEW c, NEW a, NEW opt \in LeaseOpts
    PROVE  LeaseTime(c, a, opt) \in Nat /\ MaxTime + LeaseTime(c, a, opt) < TimeMod
BY TimeAssumption DEF LeaseTime

(* A start from a well-typed file gives a well-typed table.                *)
LEMMA StartType ==
    ASSUME TypeOK, NEW f \in SUBSET Stored, StartFrom(f), file' = f
    PROVE  TypeOK'
<1>1. leases' \subseteq Leases
  BY NewLeaseType DEF StartFrom, read_leases, TypeOK, Stored
<1>2. QED
  BY <1>1, JobTypes DEF StartFrom, TypeOK, Jobs

LEMMA SnapshotType ==
    ASSUME TypeOK
    PROVE  Snapshot \subseteq Stored
BY DEF Snapshot, TypeOK, Leases, Stored

LEMMA OfferType ==
    ASSUME TypeOK, NEW c \in Clients, NEW a \in Addr, Offer(c, a)
    PROVE  /\ leases' \subseteq Leases
           /\ job' = Writing
           /\ reply' \in Replies
<1>1. leases' \subseteq Leases
  BY AddLeaseType, TimeAssumption DEF Offer, TypeOK
<1>2. \/ reply' = [type |-> "OFFER", to |-> c, yiaddr |-> a, time |-> 0]
      \/ reply' = NoReply
  BY DEF Offer
<1>3. QED
  BY <1>1, <1>2, JobTypes DEF Offer, Replies

LEMMA StaticType ==
    ASSUME TypeOK, NEW c \in Clients
    PROVE  static[c] \in Addr \cup {0}
BY AddressAssumption DEF TypeOK

(* TypeOK is preserved by the handler of each packet.                      *)
LEMMA DiscoverType ==
    ASSUME TypeOK, NEW c \in Clients, NEW req \in Addr \cup {0}, Discover(c, req)
    PROVE  TypeOK'
<1>1. promise' \in [Clients -> Promises]
  BY JobTypes DEF Discover, TypeOK
<1>2. CASE static[c] # 0 /\ Offer(c, static[c])
  BY <1>1, <1>2, OfferType, StaticType, JobTypes DEF Discover, TypeOK, Jobs
<1>3. CASE \E r \in leases : r.chaddr = c /\ Offer(c, r.yiaddr)
  <2>1. PICK r \in leases : Offer(c, r.yiaddr)
    BY <1>3
  <2>2. r.yiaddr \in Addr
    BY DEF TypeOK, Leases
  <2>3. QED
    BY <1>1, <2>1, <2>2, OfferType, JobTypes DEF Discover, TypeOK, Jobs
<1>4. CASE SearchAddress(c, req)
  <2>1. \/ job' = [pc |-> "scan", chaddr |-> c, addr |-> Start, phase |-> "free"]
        \/ /\ job' = [pc |-> "arp", chaddr |-> c, addr |-> req, phase |-> "requested"]
           /\ req \in Pool
    BY <1>4 DEF SearchAddress, ScanFrom, Probe
  <2>2. job' \in Jobs /\ job'.chaddr \in Clients
        /\ (job'.pc = "arp" => job'.addr \in Pool)
    BY <2>1, AddressAssumption DEF Jobs
  <2>3. QED
    BY <1>1, <1>4, <2>2 DEF Discover, SearchAddress, TypeOK, Jobs
<1>5. QED
  BY <1>2, <1>3, <1>4 DEF Discover

LEMMA ScanType ==
    ASSUME TypeOK, Scan
    PROVE  TypeOK'
<1>1. \/ job' = Writing
      \/ job' = [pc |-> "scan", chaddr |-> job.chaddr, addr |-> Start, phase |-> "expired"]
      \/ \E a \in Pool :
            job' = [pc |-> "arp", chaddr |-> job.chaddr, addr |-> a, phase |-> job.phase]
  BY DEF Scan, ScanFrom, Probe, Candidates
<1>2. job' \in Jobs /\ (job'.pc \in {"scan", "arp"} => job'.chaddr \in Clients)
      /\ (job'.pc = "arp" => job'.addr \in Pool)
  BY <1>1, JobTypes, AddressAssumption DEF TypeOK, Jobs, Scan
<1>3. QED
  BY <1>2, JobTypes DEF Scan, TypeOK, Jobs

LEMMA ArpType ==
    ASSUME TypeOK, ArpAnswered \/ ArpSilent
    PROVE  TypeOK'
<1>1. job.addr \in Addr /\ job.chaddr \in Clients
  BY AddressAssumption DEF ArpAnswered, ArpSilent, TypeOK
<1>2. CASE ArpAnswered
  <2>1. leases' \subseteq Leases
    BY <1>1, <1>2, AddLeaseType, TimeAssumption DEF ArpAnswered, TypeOK
  <2>2. held' \in [Addr -> Nat]
    BY <1>1, <1>2, TimeAssumption DEF ArpAnswered, TypeOK
  <2>3. job' \in Jobs /\ job'.chaddr \in Clients /\ job'.pc = "scan"
    BY <1>1, <1>2, AddressAssumption DEF ArpAnswered, TypeOK, Jobs, ScanFrom
  <2>4. QED
    BY <1>2, <2>1, <2>2, <2>3, JobTypes DEF ArpAnswered, TypeOK, Jobs
<1>3. CASE ArpSilent /\ job.phase = "retry"
  <2>1. job' \in Jobs /\ job'.chaddr \in Clients /\ job'.pc = "scan"
    BY <1>1, <1>3, AddressAssumption DEF ArpSilent, TypeOK, Jobs, ScanFrom
  <2>2. QED
    BY <1>3, <2>1, JobTypes DEF ArpSilent, TypeOK, Jobs
<1>4. CASE ArpSilent /\ job.phase # "retry"
  BY <1>1, <1>4, OfferType, JobTypes DEF ArpSilent, TypeOK, Jobs
<1>5. QED
  BY <1>2, <1>3, <1>4

LEMMA ACKType ==
    ASSUME TypeOK, NEW c \in Clients, NEW a \in Addr, NEW opt \in LeaseOpts,
           ACK(c, a, opt)
    PROVE  /\ leases' \subseteq Leases
           /\ reply' \in Replies
           /\ promise' \in [Clients -> Promises]
<1> DEFINE t == LeaseTime(c, a, opt)
<1>1. t \in Nat /\ now + t \in Nat
  BY LeaseTimeType DEF TypeOK
<1> HIDE DEF t
<1>2. CASE Silence
  BY <1>2, JobTypes DEF Silence, TypeOK
<1>3. CASE /\ reply' = [type |-> "ACK", to |-> c, yiaddr |-> a, time |-> t]
           /\ leases' \in add_lease(leases, c, a, t)
           /\ promise' = [promise EXCEPT ![c] = [addr |-> a, until |-> now + t]]
  <2>1. leases' \subseteq Leases
    BY <1>1, <1>3, AddLeaseType DEF TypeOK
  <2>2. QED
    BY <1>1, <1>3, <2>1 DEF TypeOK, Replies, Promises
<1>4. QED
  BY <1>2, <1>3 DEF ACK, t

LEMMA RequestType ==
    ASSUME TypeOK, NEW c \in Clients, NEW sid \in Sids,
           NEW req \in Addr \cup {0}, NEW ciaddr \in Addr \cup {0},
           NEW opt \in LeaseOpts, Request(c, sid, req, ciaddr, opt)
    PROVE  TypeOK'
<1> DEFINE Goal == /\ leases' \subseteq Leases
                   /\ reply' \in Replies
                   /\ promise' \in [Clients -> Promises]
<1>1. CASE NAK(c)
  <2>1. Goal
    BY <1>1 DEF NAK, TypeOK, Replies
  <2>2. QED
    BY <2>1, JobTypes DEF Request, TypeOK
<1>2. CASE Silence
  <2>1. Goal
    BY <1>2, JobTypes DEF Silence, TypeOK
  <2>2. QED
    BY <2>1, JobTypes DEF Request, TypeOK
<1>3. CASE \E a \in Addr : ACK(c, a, opt)
  <2>1. Goal
    BY <1>3, ACKType
  <2>2. QED
    BY <2>1, JobTypes DEF Request, TypeOK
<1>4. CASE \E r \in leases : /\ leases' = (leases \ {r}) \cup {[r EXCEPT !.chaddr = Blank]}
                             /\ reply' = NoReply
                             /\ UNCHANGED promise
  <2>1. Goal
    BY <1>4, JobTypes DEF TypeOK, Leases
  <2>2. QED
    BY <2>1, JobTypes DEF Request, TypeOK
<1>5. CASE \E r \in leases : RequestOfKnown(r, c, sid, req, ciaddr, opt)
  <2>1. \A r \in leases : r.yiaddr \in Addr
    BY DEF TypeOK, Leases
  <2>2. QED
    BY <1>1, <1>2, <1>3, <1>5, <2>1 DEF RequestOfKnown
<1>6. CASE RequestOfUnknown(c, sid, req, opt)
  BY <1>1, <1>2, <1>3, <1>4, <1>6, AddressAssumption DEF RequestOfUnknown, InitReboot
<1>7. QED
  BY <1>5, <1>6 DEF Request

LEMMA DeclineReleaseType ==
    ASSUME TypeOK, NEW c \in Clients, Decline(c) \/ Release(c)
    PROVE  TypeOK'
<1>1. promise' \in [Clients -> Promises]
  BY JobTypes DEF Decline, Release, TypeOK
<1>2. CASE Decline(c)
  <2>1. leases' \subseteq Leases
    <3>1. \A r \in leases : NewLease(Blank, r.yiaddr, DeclineTime) \in Leases
      BY NewLeaseType, TimeAssumption DEF TypeOK, Leases
    <3>2. QED
      BY <1>2, <3>1 DEF Decline, TypeOK
  <2>2. held' \in [Addr -> Nat]
    BY <1>2, TimeAssumption DEF Decline, TypeOK
  <2>3. QED
    BY <1>1, <1>2, <2>1, <2>2, JobTypes DEF Decline, TypeOK
<1>3. CASE Release(c)
  <2>1. leases' \subseteq Leases
    BY <1>3 DEF Release, TypeOK, Leases
  <2>2. QED
    BY <1>1, <1>3, <2>1, JobTypes DEF Release, TypeOK
<1>4. QED
  BY <1>2, <1>3

LEMMA TypeStep ==
    ASSUME TypeOK, [NextFaulty]_vars
    PROVE  TypeOK'
<1>1. CASE \E c \in Clients, req \in Addr \cup {0} : Discover(c, req)
  BY <1>1, DiscoverType
<1>2. CASE \E c \in Clients, sid \in Sids, req, ciaddr \in Addr \cup {0},
              opt \in LeaseOpts : Request(c, sid, req, ciaddr, opt)
  BY <1>2, RequestType
<1>3. CASE \E c \in Clients : Decline(c) \/ Release(c)
  BY <1>3, DeclineReleaseType
<1>4. CASE Scan
  BY <1>4, ScanType
<1>5. CASE ArpAnswered \/ ArpSilent
  BY <1>5, ArpType
<1>6. CASE write_leases
  BY <1>6, SnapshotType, JobTypes DEF write_leases, TypeOK
<1>7. CASE Flush
  BY <1>7, JobTypes DEF Flush, TypeOK
<1>8. CASE Tick
  BY <1>8, JobTypes, TimeAssumption DEF Tick, TypeOK
<1>9. CASE Restart
  <2>1. file \in SUBSET Stored /\ file' = file
    BY <1>9 DEF Restart, TypeOK
  <2>2. QED
    BY <1>9, <2>1, StartType DEF Restart
<1>10. CASE Kill
  <2>1. PICK f \in {file} \cup SUBSET Snapshot : file' = f /\ StartFrom(f)
    BY <1>10 DEF Kill
  <2>2. f \in SUBSET Stored
    BY <2>1, SnapshotType DEF TypeOK
  <2>3. QED
    BY <2>1, <2>2, StartType
<1>11. CASE WriteFails
  BY <1>11, JobTypes DEF WriteFails, TypeOK
<1>12. CASE UNCHANGED vars
  BY <1>12 DEF vars, TypeOK
<1>13. QED
  BY <1>1, <1>2, <1>3, <1>4, <1>5, <1>6, <1>7, <1>8, <1>9, <1>10, <1>11, <1>12
     DEF NextFaulty, Next, NextUp, ServerStep

LEMMA TypeInit == Init => TypeOK
BY JobTypes, TimeAssumption, AddressAssumption DEF Init, TypeOK

(* The variables keep their types, crashes and failed writes included.     *)
THEOREM FaultyTypes == SpecFaulty => []TypeOK
BY TypeInit, TypeStep, PTL DEF SpecFaulty

-----------------------------------------------------------------------------
(* One record per address and per client.                                  *)

LEMMA SnapshotDistinct ==
    ASSUME Distinct(leases)
    PROVE  Distinct(Snapshot)
BY DEF Distinct, Snapshot

LEMMA ReadDistinct ==
    ASSUME NEW f, Distinct(f)
    PROVE  Distinct(read_leases(f))
BY DEF Distinct, read_leases, NewLease

LEMMA SubsetDistinct ==
    ASSUME NEW T, Distinct(T), NEW S \in SUBSET T
    PROVE  Distinct(S)
BY DEF Distinct

(* What a handler of a REQUEST can do to the table and to the promises.    *)
LEMMA RequestCases ==
    ASSUME NEW c, NEW sid, NEW req, NEW ciaddr, NEW opt,
           Request(c, sid, req, ciaddr, opt)
    PROVE  \/ UNCHANGED <<leases, promise>>
           \/ \E r \in leases : r.chaddr = c /\ ACK(c, r.yiaddr, opt)
           \/ /\ find_lease_by_yiaddr(req) = {} /\ req \in Pool
              /\ ACK(c, req, opt)
           \/ \E r \in leases :
                 /\ lease_expired(r)
                 /\ leases' = (leases \ {r}) \cup {[r EXCEPT !.chaddr = Blank]}
                 /\ UNCHANGED promise
<1>1. CASE \E r \in find_lease_by_chaddr(c) :
              RequestOfKnown(r, c, sid, req, ciaddr, opt)
  BY <1>1 DEF RequestOfKnown, NAK, Silence
<1>2. CASE RequestOfUnknown(c, sid, req, opt)
  BY <1>2 DEF RequestOfUnknown, InitReboot, NAK, Silence
<1>3. QED
  BY <1>1, <1>2 DEF Request

LEMMA ACKCases ==
    ASSUME NEW c, NEW a, NEW opt, ACK(c, a, opt)
    PROVE  \/ UNCHANGED <<leases, promise>>
           \/ /\ leases' \in add_lease(leases, c, a, LeaseTime(c, a, opt))
              /\ promise' = [promise EXCEPT ![c] =
                     [addr |-> a, until |-> now + LeaseTime(c, a, opt)]]
BY DEF ACK, Silence

LEMMA DistinctStep ==
    ASSUME TypeOK, OneLeaseEach, [NextFaulty]_vars
    PROVE  OneLeaseEach'
<1> USE DEF OneLeaseEach
<1>0. leases \subseteq Leases
  BY DEF TypeOK
<1>1. ASSUME NEW c, NEW a, Offer(c, a)
      PROVE  Distinct(leases')
  BY <1>0, <1>1, AddLeaseDistinct DEF Offer
<1>2. ASSUME NEW c \in Clients, NEW req \in Addr \cup {0}, Discover(c, req)
      PROVE  OneLeaseEach'
  BY <1>1, <1>2 DEF Discover, SearchAddress
<1>3. ASSUME NEW c \in Clients, NEW sid \in Sids, NEW req \in Addr \cup {0},
             NEW ciaddr \in Addr \cup {0}, NEW opt \in LeaseOpts,
             Request(c, sid, req, ciaddr, opt)
      PROVE  OneLeaseEach'
  <2>1. ASSUME NEW a, ACK(c, a, opt)
        PROVE  Distinct(leases')
    BY <1>0, <2>1, ACKCases, AddLeaseDistinct
  <2>2. ASSUME NEW r \in leases,
               leases' = (leases \ {r}) \cup {[r EXCEPT !.chaddr = Blank]}
        PROVE  Distinct(leases')
    BY <1>0, <2>2 DEF Distinct, Leases
  <2>3. Distinct(leases')
    BY <1>3, <2>1, <2>2, RequestCases
  <2>4. QED
    BY <1>3, <2>3 DEF Request
<1>4. ASSUME NEW c \in Clients, Decline(c)
      PROVE  OneLeaseEach'
  <2>1. \A r \in leases : /\ NewLease(Blank, r.yiaddr, DeclineTime).yiaddr = r.yiaddr
                          /\ NewLease(Blank, r.yiaddr, DeclineTime).chaddr = Blank
    BY DEF NewLease
  <2>2. Distinct(leases')
    BY <1>0, <1>4, <2>1 DEF Decline, Distinct
  <2>3. QED
    BY <1>4, <2>2 DEF Decline
<1>5. ASSUME NEW c \in Clients, Release(c)
      PROVE  OneLeaseEach'
  <2> DEFINE g(r) == IF r.chaddr = c THEN [r EXCEPT !.expires = now] ELSE r
  <2>1. \A r \in leases : g(r).yiaddr = r.yiaddr /\ g(r).chaddr = r.chaddr
    BY <1>0 DEF Leases
  <2>2. \A q \in leases' : \E r \in leases : q = g(r)
    BY <1>5 DEF Release
  <2> HIDE DEF g
  <2>3. Distinct(leases')
    BY <2>1, <2>2 DEF Distinct
  <2>4. QED
    BY <1>5, <2>3 DEF Release
<1>6. CASE Scan \/ Flush \/ Tick \/ WriteFails \/ UNCHANGED vars
  BY <1>6 DEF Scan, Flush, Tick, WriteFails, vars
<1>7. CASE ArpAnswered
  BY <1>0, <1>7, AddLeaseDistinct DEF ArpAnswered
<1>8. CASE ArpSilent
  BY <1>1, <1>8 DEF ArpSilent
<1>9. CASE write_leases
  BY <1>9, SnapshotDistinct DEF write_leases
<1>10. CASE Restart
  BY <1>10, ReadDistinct DEF Restart, StartFrom
<1>11. CASE Kill
  <2>1. PICK f \in {file} \cup SUBSET Snapshot : file' = f /\ StartFrom(f)
    BY <1>11 DEF Kill
  <2>2. Distinct(f)
    BY <2>1, SnapshotDistinct, SubsetDistinct
  <2>3. QED
    BY <2>1, <2>2, ReadDistinct DEF StartFrom
<1>12. QED
  BY <1>2, <1>3, <1>4, <1>5, <1>6, <1>7, <1>8, <1>9, <1>10, <1>11
     DEF NextFaulty, Next, NextUp, ServerStep

(* Neither the table nor the file ever holds two records for one address   *)
(* or for one client, crashes and failed writes included.                  *)
THEOREM FaultyOneLeaseEach == SpecFaulty => []OneLeaseEach
<1>1. Init => OneLeaseEach
  BY DEF Init, OneLeaseEach, Distinct
<1>2. QED
  BY <1>1, DistinctStep, FaultyTypes, PTL DEF SpecFaulty

-----------------------------------------------------------------------------
(* Promises.                                                               *)

(* The table T holds d's promised address for d.                           *)
Covered(T, d) ==
    \E r \in T : /\ r.chaddr = d
                 /\ r.yiaddr = promise[d].addr
                 /\ r.expires >= promise[d].until

(* Adding a lease of an address that is nobody else's leaves every other   *)
(* client's promise covered.                                               *)
Safe(c, a) ==
    a \in Reserved \/ \A r \in leases : r.yiaddr = a => lease_expired(r) \/ r.chaddr = c

LEMMA AddLeaseCovers ==
    ASSUME TypeOK, PromiseKept, NEW c \in Clients \cup {Blank}, NEW a, NEW t,
           Safe(c, a), NEW T \in add_lease(leases, c, a, t),
           NEW d \in Clients, d # c, Active(d), promise[d].addr \notin Reserved
    PROVE  Covered(T, d)
<1>1. PICK r \in leases : /\ r.chaddr = d
                          /\ r.yiaddr = promise[d].addr
                          /\ r.expires >= promise[d].until
  BY DEF PromiseKept
<1>2. ~lease_expired(r)
  BY <1>1 DEF Active, TypeOK, Leases, Promises
<1>3. r \in clear_lease(leases, c, a)
  BY <1>1, <1>2 DEF Safe, clear_lease
<1>4. r \in T
  BY <1>2, <1>3, AddLeaseKeeps
<1>5. QED
  BY <1>1, <1>4 DEF Covered

(* The parts of the invariant that only speak of the table and the file.   *)
LEMMA AddLeaseBounds ==
    ASSUME TypeOK, InPool, NoWrap, NEW c \in Clients \cup {Blank},
           NEW a \in Addr, a \in Pool \cup Reserved, NEW t \in Nat,
           MaxTime + t < TimeMod,
           leases' \in add_lease(leases, c, a, t), UNCHANGED <<now, file>>
    PROVE  InPool' /\ NoWrap'
<1>1. leases' \subseteq leases \cup {NewLease(c, a, t)}
  BY AddLeaseKeeps DEF clear_lease
<1>2. NewLease(c, a, t).yiaddr = a /\ NewLease(c, a, t).expires = now + t
  BY NewLeaseType DEF NewLease, TypeOK
<1>3. MaxTime + (now + t) < TimeMod + now
  BY TimeAssumption DEF TypeOK
<1>4. InPool'
  BY <1>1, <1>2 DEF InPool, Reserved, Pool
<1>5. NoWrap'
  BY <1>1, <1>2, <1>3 DEF NoWrap
<1>6. QED
  BY <1>4, <1>5

LEMMA OfferInv ==
    ASSUME TypeOK, PromiseInv, NEW c \in Clients, NEW a \in Addr,
           a \in Pool \cup Reserved, Safe(c, a), Offer(c, a),
           promise' = [promise EXCEPT ![c] = NoPromise], UNCHANGED <<now, file>>
    PROVE  PromiseInv'
<1>1. InPool' /\ NoWrap'
  BY AddLeaseBounds, TimeAssumption DEF Offer, PromiseInv
<1>2. FilePromise' /\ ProbeSafe'
  BY JobTypes DEF Offer, FilePromise, ProbeSafe
<1>3. PromiseKept'
  <2> SUFFICES ASSUME NEW d \in Clients, Active(d)', (promise[d].addr \notin Reserved)'
               PROVE  Covered(leases, d)'
    BY DEF PromiseKept, Covered
  <2>1. d # c /\ promise'[d] = promise[d]
    BY DEF Active, NoPromise, TypeOK
  <2>2. Active(d) /\ promise[d].addr \notin Reserved
    BY <2>1 DEF Active, Reserved
  <2>3. Covered(leases', d)
    BY <2>1, <2>2, AddLeaseCovers DEF Offer, PromiseInv
  <2>4. QED
    BY <2>1, <2>3 DEF Covered
<1>4. QED
  BY <1>1, <1>2, <1>3 DEF PromiseInv

LEMMA ACKInv ==
    ASSUME TypeOK, OneLeaseEach, PromiseInv, TableHoldsPool,
           NEW c \in Clients, NEW a \in Addr, a \in Pool \cup Reserved,
           Safe(c, a), NEW opt \in LeaseOpts, ACK(c, a, opt),
           job' = Writing, UNCHANGED <<now, file>>
    PROVE  PromiseInv'
<1> DEFINE t == LeaseTime(c, a, opt)
<1>1. t \in Nat /\ MaxTime + t < TimeMod
  BY LeaseTimeType
<1> HIDE DEF t
<1>2. FilePromise' /\ ProbeSafe'
  BY JobTypes DEF FilePromise, ProbeSafe
<1>3. CASE UNCHANGED <<leases, promise>>
  BY <1>2, <1>3 DEF PromiseInv, PromiseKept, InPool, NoWrap, Active, Reserved
<1>4. CASE /\ leases' \in add_lease(leases, c, a, t)
           /\ promise' = [promise EXCEPT ![c] = [addr |-> a, until |-> now + t]]
  <2>1. InPool' /\ NoWrap'
    BY <1>1, <1>4, AddLeaseBounds DEF PromiseInv
  <2>2. NewLease(c, a, t) \in leases'
    BY <1>4, AddLeaseRoom DEF TypeOK, OneLeaseEach, TableHoldsPool
  <2>3. NewLease(c, a, t).chaddr = c /\ NewLease(c, a, t).yiaddr = a
        /\ NewLease(c, a, t).expires = now + t
    BY <1>1, NewLeaseType DEF NewLease, TypeOK
  <2>4. PromiseKept'
    <3> SUFFICES ASSUME NEW d \in Clients, Active(d)', (promise[d].addr \notin Reserved)'
                 PROVE  Covered(leases, d)'
      BY DEF PromiseKept, Covered
    <3>1. CASE d = c
      <4>1. promise'[c].addr = a /\ promise'[c].until = now + t
        BY <1>4 DEF TypeOK
      <4>2. QED
        BY <1>1, <2>2, <2>3, <3>1, <4>1 DEF Covered, TypeOK
    <3>2. CASE d # c
      <4>1. promise'[d] = promise[d]
        BY <1>4, <3>2 DEF TypeOK
      <4>2. Active(d) /\ promise[d].addr \notin Reserved
        BY <4>1 DEF Active, Reserved
      <4>3. Covered(leases', d)
        BY <1>4, <3>2, <4>2, AddLeaseCovers DEF PromiseInv
      <4>4. QED
        BY <4>1, <4>3 DEF Covered
    <3>3. QED
      BY <3>1, <3>2
  <2>5. QED
    BY <1>2, <2>1, <2>4 DEF PromiseInv
<1>5. QED
  BY <1>3, <1>4, ACKCases DEF t

(* A step that leaves table, file, promises and clock alone keeps the      *)
(* parts of the invariant that do not look at the handler.                 *)
LEMMA SameTable ==
    ASSUME PromiseInv, UNCHANGED <<now, leases, file, promise>>
    PROVE  PromiseKept' /\ InPool' /\ NoWrap'
BY DEF PromiseInv, PromiseKept, InPool, NoWrap, Active, Reserved

LEMMA DiscoverInv ==
    ASSUME TypeOK, OneLeaseEach, PromiseInv,
           NEW c \in Clients, NEW req \in Addr \cup {0}, Discover(c, req)
    PROVE  PromiseInv'
<1>0. promise' = [promise EXCEPT ![c] = NoPromise] /\ UNCHANGED <<now, file>>
  BY DEF Discover
<1>1. CASE static[c] # 0 /\ Offer(c, static[c])
  <2>1. static[c] \in Addr /\ static[c] \in Reserved
    BY <1>1, StaticType DEF Reserved, TypeOK
  <2>2. QED
    BY <1>0, <1>1, <2>1, OfferInv DEF Safe
<1>2. CASE \E r \in leases : r.chaddr = c /\ Offer(c, r.yiaddr)
  <2>1. PICK r \in leases : r.chaddr = c /\ Offer(c, r.yiaddr)
    BY <1>2
  <2>2. r.yiaddr \in Addr /\ r.yiaddr \in Pool \cup Reserved
    BY DEF TypeOK, Leases, PromiseInv, InPool
  <2>3. Safe(c, r.yiaddr)
    BY <2>1 DEF Safe, OneLeaseEach, Distinct
  <2>4. QED
    BY <1>0, <2>1, <2>2, <2>3, OfferInv
<1>3. CASE SearchAddress(c, req)
  <2>1. \/ job' = [pc |-> "scan", chaddr |-> c, addr |-> Start, phase |-> "free"]
        \/ /\ job' = [pc |-> "arp", chaddr |-> c, addr |-> req, phase |-> "requested"]
           /\ \/ find_static_lease_by_yiaddr(req)
              \/ \A r \in leases : r.yiaddr = req => lease_expired(r)
           /\ req \in Pool
    BY <1>3 DEF SearchAddress, ScanFrom, Probe
  <2>2. find_static_lease_by_yiaddr(req) /\ req \in Pool => req \in Reserved
    BY AddressAssumption DEF Reserved, TypeOK
  <2>3. promise'[c] = NoPromise
    BY <1>0 DEF TypeOK
  <2>4. UNCHANGED <<leases>>
    BY <1>3 DEF SearchAddress
  <2>5. ProbeSafe'
    BY <1>0, <2>1, <2>2, <2>3, <2>4 DEF ProbeSafe, Reserved
  <2>6. FilePromise'
    BY <2>1 DEF FilePromise
  <2>7. PromiseKept' /\ InPool' /\ NoWrap'
    <3>1. \A d \in Clients : Active(d)' => promise'[d] = promise[d] /\ Active(d)
      BY <1>0 DEF Active, NoPromise, TypeOK
    <3>2. QED
      BY <1>0, <2>4, <3>1 DEF PromiseInv, PromiseKept, InPool, NoWrap, Reserved
  <2>8. QED
    BY <2>5, <2>6, <2>7 DEF PromiseInv
<1>4. QED
  BY <1>1, <1>2, <1>3 DEF Discover

LEMMA ScanInv ==
    ASSUME TypeOK, PromiseInv, Scan
    PROVE  PromiseInv'
<1>1. UNCHANGED <<now, leases, file, promise>>
  BY DEF Scan
<1>2. \/ job' = Writing
      \/ job' = [pc |-> "scan", chaddr |-> job.chaddr, addr |-> Start, phase |-> "expired"]
      \/ \E a \in Pool :
            /\ job' = [pc |-> "arp", chaddr |-> job.chaddr, addr |-> a, phase |-> job.phase]
            /\ \A r \in leases : r.yiaddr = a => lease_expired(r)
  BY DEF Scan, ScanFrom, Probe, Candidates
<1>3. ProbeSafe'
  BY <1>1, <1>2, JobTypes DEF ProbeSafe, PromiseInv, Scan, Reserved
<1>4. FilePromise'
  BY <1>2, JobTypes DEF FilePromise
<1>5. QED
  BY <1>1, <1>3, <1>4, SameTable DEF PromiseInv

LEMMA ArpInv ==
    ASSUME TypeOK, PromiseInv, ArpAnswered \/ ArpSilent
    PROVE  PromiseInv'
<1>0. job.pc = "arp" /\ job.addr \in Pool /\ job.addr \in Addr /\ job.chaddr \in Clients
  BY AddressAssumption DEF ArpAnswered, ArpSilent, TypeOK
<1>1. \A c : Safe(c, job.addr)
  BY <1>0 DEF Safe, PromiseInv, ProbeSafe
<1>2. promise[job.chaddr] = NoPromise
  BY <1>0 DEF PromiseInv, ProbeSafe
<1>3. CASE ArpAnswered
  <2>1. InPool' /\ NoWrap'
    BY <1>0, <1>3, AddLeaseBounds, TimeAssumption DEF ArpAnswered, PromiseInv
  <2>2. PromiseKept'
    <3> SUFFICES ASSUME NEW d \in Clients, Active(d)', (promise[d].addr \notin Reserved)'
                 PROVE  Covered(leases, d)'
      BY DEF PromiseKept, Covered
    <3>1. UNCHANGED <<promise, now>> /\ d # Blank
      BY <1>3, AddressAssumption DEF ArpAnswered
    <3>2. Active(d) /\ promise[d].addr \notin Reserved
      BY <3>1 DEF Active, Reserved
    <3>3. Covered(leases', d)
      BY <1>1, <1>3, <3>1, <3>2, AddLeaseCovers DEF ArpAnswered, PromiseInv
    <3>4. QED
      BY <3>1, <3>3 DEF Covered
  <2>3. job'.pc = "scan" /\ job'.chaddr = job.chaddr /\ UNCHANGED promise
    BY <1>3 DEF ArpAnswered, ScanFrom
  <2>4. FilePromise' /\ ProbeSafe'
    BY <1>2, <2>3 DEF FilePromise, ProbeSafe
  <2>5. QED
    BY <2>1, <2>2, <2>4 DEF PromiseInv
<1>4. CASE ArpSilent /\ job.phase = "retry"
  <2>1. UNCHANGED <<now, leases, file, promise>>
        /\ job'.pc = "scan" /\ job'.chaddr = job.chaddr
    BY <1>4 DEF ArpSilent, ScanFrom
  <2>2. FilePromise' /\ ProbeSafe'
    BY <1>2, <2>1 DEF FilePromise, ProbeSafe
  <2>3. QED
    BY <2>1, <2>2, SameTable DEF PromiseInv
<1>5. CASE ArpSilent /\ job.phase # "retry"
  <2>1. promise' = [promise EXCEPT ![job.chaddr] = NoPromise]
    BY <1>0, <1>2, <1>5 DEF ArpSilent, TypeOK
  <2>2. QED
    BY <1>0, <1>1, <1>5, <2>1, OfferInv DEF ArpSilent
<1>6. QED
  BY <1>3, <1>4, <1>5

LEMMA RequestInv ==
    ASSUME TypeOK, OneLeaseEach, PromiseInv, TableHoldsPool,
           NEW c \in Clients, NEW sid \in Sids, NEW req \in Addr \cup {0},
           NEW ciaddr \in Addr \cup {0}, NEW opt \in LeaseOpts,
           Request(c, sid, req, ciaddr, opt)
    PROVE  PromiseInv'
<1>0. job' = Writing /\ UNCHANGED <<now, file>>
  BY DEF Request
<1>1. FilePromise' /\ ProbeSafe'
  BY <1>0, JobTypes DEF FilePromise, ProbeSafe
<1>2. CASE UNCHANGED <<leases, promise>>
  BY <1>0, <1>1, <1>2, SameTable DEF PromiseInv
<1>3. CASE \E r \in leases : r.chaddr = c /\ ACK(c, r.yiaddr, opt)
  <2>1. PICK r \in leases : r.chaddr = c /\ ACK(c, r.yiaddr, opt)
    BY <1>3
  <2>2. r.yiaddr \in Addr /\ r.yiaddr \in Pool \cup Reserved
    BY DEF TypeOK, Leases, PromiseInv, InPool
  <2>3. Safe(c, r.yiaddr)
    BY <2>1 DEF Safe, OneLeaseEach, Distinct
  <2>4. QED
    BY <1>0, <2>1, <2>2, <2>3, ACKInv
<1>4. CASE find_lease_by_yiaddr(req) = {} /\ req \in Pool /\ ACK(c, req, opt)
  BY <1>0, <1>4, ACKInv, AddressAssumption DEF Safe
<1>5. CASE \E r \in leases :
              /\ lease_expired(r)
              /\ leases' = (leases \ {r}) \cup {[r EXCEPT !.chaddr = Blank]}
              /\ UNCHANGED promise
  <2>1. PICK r \in leases :
              /\ lease_expired(r)
              /\ leases' = (leases \ {r}) \cup {[r EXCEPT !.chaddr = Blank]}
              /\ UNCHANGED promise
    BY <1>5
  <2>2. /\ [r EXCEPT !.chaddr = Blank].yiaddr = r.yiaddr
        /\ [r EXCEPT !.chaddr = Blank].expires = r.expires
    BY DEF TypeOK, Leases
  <2>3. InPool' /\ NoWrap'
    BY <1>0, <2>1, <2>2 DEF PromiseInv, InPool, NoWrap, Reserved
  <2>4. PromiseKept'
    <3> SUFFICES ASSUME NEW d \in Clients, Active(d)', (promise[d].addr \notin Reserved)'
                 PROVE  Covered(leases, d)'
      BY DEF PromiseKept, Covered
    <3>1. Active(d) /\ promise[d].addr \notin Reserved
      BY <1>0, <2>1 DEF Active, Reserved
    <3>2. PICK q \in leases : /\ q.chaddr = d
                              /\ q.yiaddr = promise[d].addr
                              /\ q.expires >= promise[d].until
      BY <3>1 DEF PromiseInv, PromiseKept
    <3>3. q # r
      BY <2>1, <3>1, <3>2 DEF Active, TypeOK, Leases, Promises
    <3>4. QED
      BY <1>0, <2>1, <3>2, <3>3 DEF Covered
  <2>5. QED
    BY <1>1, <2>3, <2>4 DEF PromiseInv
<1>6. QED
  BY <1>2, <1>3, <1>4, <1>5, RequestCases

(* DECLINE and RELEASE touch no record but their client's.                 *)
LEMMA GiveUpInv ==
    ASSUME TypeOK, PromiseInv, NEW c \in Clients, Decline(c) \/ Release(c)
    PROVE  PromiseInv'
<1>0. /\ promise' = [promise EXCEPT ![c] = NoPromise]
      /\ UNCHANGED <<now, file>>
      /\ job' \in {job, Writing} /\ job.pc = "idle"
  BY DEF Decline, Release
<1>1. \A d \in Clients : Active(d)' => d # c /\ promise'[d] = promise[d] /\ Active(d)
  BY <1>0 DEF Active, NoPromise, TypeOK
<1>2. \A r \in leases : r.chaddr # c => r \in leases'
  BY DEF Decline, Release
<1>3. PromiseKept'
  BY <1>0, <1>1, <1>2 DEF PromiseInv, PromiseKept, Reserved
<1>4. FilePromise'
  <2>1. CASE job' = Writing
    BY <2>1, JobTypes DEF FilePromise
  <2>2. CASE job' = job
    BY <1>0, <1>1, <2>2 DEF PromiseInv, FilePromise, Reserved
  <2>3. QED
    BY <1>0, <2>1, <2>2
<1>5. ProbeSafe'
  BY <1>0, JobTypes DEF ProbeSafe
<1>6. \A q \in leases' : \E r \in leases :
         /\ q.yiaddr = r.yiaddr
         /\ q.expires = r.expires \/ q.expires = now \/ q.expires = now + DeclineTime
  <2>1. \A r \in leases :
           /\ NewLease(Blank, r.yiaddr, DeclineTime).yiaddr = r.yiaddr
           /\ NewLease(Blank, r.yiaddr, DeclineTime).expires = now + DeclineTime
           /\ [r EXCEPT !.expires = now].yiaddr = r.yiaddr
           /\ [r EXCEPT !.expires = now].expires = now
    BY NewLeaseType, TimeAssumption DEF NewLease, TypeOK, Leases
  <2>2. CASE Decline(c)
    <3>1. \A q \in leases' : \E r \in leases : q = r \/ q = NewLease(Blank, r.yiaddr, DeclineTime)
      BY <2>2 DEF Decline
    <3>2. QED
      BY <2>1, <3>1
  <2>3. CASE Release(c)
    <3>1. \A q \in leases' : \E r \in leases : q = r \/ q = [r EXCEPT !.expires = now]
      BY <2>3 DEF Release
    <3>2. QED
      BY <2>1, <3>1
  <2>4. QED
    BY <2>2, <2>3
<1>7. InPool'
  BY <1>0, <1>6 DEF PromiseInv, InPool, Reserved
<1>8. NoWrap'
  <2>1. MaxTime + now < TimeMod + now /\ MaxTime + (now + DeclineTime) < TimeMod + now
    BY TimeAssumption DEF TypeOK
  <2>2. QED
    BY <1>0, <1>6, <2>1 DEF PromiseInv, NoWrap
<1>9. QED
  BY <1>3, <1>4, <1>5, <1>7, <1>8 DEF PromiseInv

(* Once written, the file covers every promise the table covers.           *)
LEMMA WriteInv ==
    ASSUME TypeOK, PromiseInv, write_leases
    PROVE  PromiseInv'
<1>0. file' = Snapshot /\ UNCHANGED <<now, leases, promise>> /\ job' = Idle
  BY DEF write_leases
<1>1. \A r \in leases : r.expires >= now =>
         [chaddr |-> r.chaddr, yiaddr |-> r.yiaddr, left |-> r.expires - now] \in Snapshot
  BY DEF Snapshot, TypeOK, Leases
<1>2. FilePromise'
  <2> SUFFICES ASSUME NEW d \in Clients, Active(d)', (promise[d].addr \notin Reserved)'
               PROVE  \E s \in Snapshot : /\ s.chaddr = d
                                          /\ s.yiaddr = promise[d].addr
                                          /\ now + s.left >= promise[d].until
    BY <1>0 DEF FilePromise
  <2>1. Active(d) /\ promise[d].addr \notin Reserved
    BY <1>0 DEF Active, Reserved
  <2>2. PICK r \in leases : /\ r.chaddr = d
                            /\ r.yiaddr = promise[d].addr
                            /\ r.expires >= promise[d].until
    BY <2>1 DEF PromiseInv, PromiseKept
  <2>3. /\ now \in Int /\ r.expires \in Int /\ r.expires >= now
        /\ promise[d].until \in Int
    BY <2>1, <2>2 DEF Active, TypeOK, Leases, Promises
  <2>4. now + (r.expires - now) >= promise[d].until
    BY <2>2, <2>3
  <2>5. QED
    BY <1>1, <2>2, <2>3, <2>4
<1>3. \A s \in Snapshot : \E r \in leases :
         s.yiaddr = r.yiaddr /\ (s.left = 0 \/ s.left = r.expires - now)
  BY DEF Snapshot
<1>4. InPool'
  BY <1>0, <1>3 DEF PromiseInv, InPool, Reserved
<1>5. NoWrap'
  <2>1. \A s \in Snapshot : MaxTime + s.left < TimeMod
    BY <1>3, TimeAssumption DEF PromiseInv, NoWrap, TypeOK, Leases
  <2>2. QED
    BY <1>0, <2>1 DEF PromiseInv, NoWrap
<1>6. ProbeSafe' /\ PromiseKept'
  BY <1>0, JobTypes DEF PromiseInv, ProbeSafe, PromiseKept, Active, Reserved
<1>7. QED
  BY <1>2, <1>4, <1>5, <1>6 DEF PromiseInv

(* A server that starts finds every promise in the file.                   *)
LEMMA RestartInv ==
    ASSUME TypeOK, PromiseInv, PoolKeepsByteOrder, Restart
    PROVE  PromiseInv'
<1>0. /\ leases' = read_leases(file) /\ job' = Idle /\ job.pc = "idle"
      /\ UNCHANGED <<now, file, promise>>
  BY DEF Restart, StartFrom
<1>1. \A s \in file :
         /\ NewLease(s.chaddr, s.yiaddr, s.left).chaddr = s.chaddr
         /\ NewLease(s.chaddr, s.yiaddr, s.left).yiaddr = s.yiaddr
         /\ NewLease(s.chaddr, s.yiaddr, s.left).expires = now + s.left
  BY NewLeaseType DEF NewLease, TypeOK, Stored, PromiseInv, NoWrap
<1>2. PromiseKept'
  <2> SUFFICES ASSUME NEW d \in Clients, Active(d)', (promise[d].addr \notin Reserved)'
               PROVE  Covered(leases, d)'
    BY DEF PromiseKept, Covered
  <2>1. PICK s \in file : /\ s.chaddr = d
                          /\ s.yiaddr = promise[d].addr
                          /\ now + s.left >= promise[d].until
    BY <1>0 DEF PromiseInv, FilePromise, Active, Reserved
  <2>2. s.yiaddr \in Pool
    BY <1>0, <2>1 DEF PromiseInv, InPool, Reserved
  <2>3. NewLease(s.chaddr, s.yiaddr, s.left) \in leases'
    BY <1>0, <2>2 DEF read_leases, PoolKeepsByteOrder
  <2>4. QED
    BY <1>0, <1>1, <2>1, <2>3 DEF Covered
<1>3. \A r \in leases' : \E s \in file : r.yiaddr = s.yiaddr /\ r.expires = now + s.left
  BY <1>0, <1>1 DEF read_leases
<1>4. InPool'
  BY <1>0, <1>3 DEF PromiseInv, InPool, Reserved
<1>5. NoWrap'
  <2>1. \A s \in file : MaxTime + (now + s.left) < TimeMod + now
    BY TimeAssumption DEF PromiseInv, NoWrap, TypeOK, Stored
  <2>2. QED
    BY <1>0, <1>3, <2>1 DEF PromiseInv, NoWrap
<1>6. FilePromise' /\ ProbeSafe'
  BY <1>0, JobTypes DEF PromiseInv, FilePromise, ProbeSafe, Active, Reserved
<1>7. QED
  BY <1>2, <1>4, <1>5, <1>6 DEF PromiseInv

LEMMA TickInv ==
    ASSUME TypeOK, PromiseInv, Tick
    PROVE  PromiseInv'
<1>0. now' = now + 1 /\ UNCHANGED <<leases, file, job, promise>>
  BY DEF Tick
<1>1. \A d \in Clients : Active(d)' => Active(d)
  BY <1>0 DEF Active, TypeOK, Promises
<1>2. PromiseKept'
  BY <1>0, <1>1 DEF PromiseInv, PromiseKept, Reserved
<1>3. FilePromise'
  <2>1. \A s \in file, d \in Clients :
           now + s.left >= promise[d].until => now' + s.left >= promise[d].until
    BY <1>0 DEF TypeOK, Stored, Promises
  <2>2. QED
    BY <1>0, <1>1, <2>1 DEF PromiseInv, FilePromise, Reserved
<1>4. InPool' /\ NoWrap'
  BY <1>0, TimeAssumption DEF PromiseInv, InPool, NoWrap, Reserved, TypeOK, Leases
<1>5. ProbeSafe'
  BY <1>0 DEF PromiseInv, ProbeSafe, Reserved, TypeOK, Leases
<1>6. QED
  BY <1>2, <1>3, <1>4, <1>5 DEF PromiseInv

LEMMA PromiseStepUp ==
    ASSUME TableHoldsPool, TypeOK, OneLeaseEach, PromiseInv, [NextUp]_vars
    PROVE  PromiseInv'
<1>1. CASE Flush
  <2>1. UNCHANGED <<now, leases, file, promise>> /\ job' = Writing
    BY <1>1 DEF Flush
  <2>2. FilePromise' /\ ProbeSafe'
    BY <2>1, JobTypes DEF FilePromise, ProbeSafe
  <2>3. QED
    BY <2>1, <2>2, SameTable DEF PromiseInv
<1>2. CASE UNCHANGED vars
  <2>1. FilePromise' /\ ProbeSafe'
    BY <1>2 DEF vars, PromiseInv, FilePromise, ProbeSafe, Active, Reserved
  <2>2. QED
    BY <1>2, <2>1, SameTable DEF PromiseInv, vars
<1>3. QED
  BY <1>1, <1>2, DiscoverInv, RequestInv, GiveUpInv, ScanInv, ArpInv, WriteInv,
     TickInv DEF NextUp, ServerStep

LEMMA PromiseStep ==
    ASSUME TableHoldsPool, PoolKeepsByteOrder,
           TypeOK, OneLeaseEach, PromiseInv, [Next]_vars
    PROVE  PromiseInv'
BY PromiseStepUp, RestartInv DEF Next

LEMMA NextIsFaulty == [Next]_vars => [NextFaulty]_vars
BY DEF NextFaulty

LEMMA KeptIsUnique ==
    ASSUME TypeOK, OneLeaseEach, PromiseKept
    PROVE  NoDoublePromise
<1> SUFFICES ASSUME NEW c \in Clients, NEW d \in Clients, Active(c), Active(d),
                    promise[c].addr = promise[d].addr, promise[c].addr \notin Reserved
             PROVE  c = d
  BY DEF NoDoublePromise
<1>1. PICK r \in leases : r.chaddr = c /\ r.yiaddr = promise[c].addr
  BY DEF PromiseKept
<1>2. PICK q \in leases : q.chaddr = d /\ q.yiaddr = promise[d].addr
  BY DEF PromiseKept
<1>3. QED
  BY <1>1, <1>2 DEF OneLeaseEach, Distinct

LEMMA ServerInit == Init => TypeOK /\ OneLeaseEach /\ PromiseInv
<1>1. Init => OneLeaseEach
  BY DEF Init, OneLeaseEach, Distinct
<1>2. Init => PromiseInv
  BY JobTypes DEF Init, PromiseInv, PromiseKept, FilePromise, InPool, NoWrap,
     ProbeSafe, Active, NoPromise
<1>3. QED
  BY <1>1, <1>2, TypeInit

(* The inductive invariant holds of a server that is stopped and started   *)
(* between packets, when the table has a slot per address and the pool     *)
(* keeps its order in network byte order.                                  *)
THEOREM ServerInvariant ==
    ASSUME TableHoldsPool, PoolKeepsByteOrder
    PROVE  Spec => [](TypeOK /\ OneLeaseEach /\ PromiseInv)
<1>1. TypeOK /\ OneLeaseEach /\ PromiseInv /\ [Next]_vars
         => (TypeOK /\ OneLeaseEach /\ PromiseInv)'
  BY TypeStep, DistinctStep, PromiseStep, NextIsFaulty
<1>2. QED
  BY <1>1, ServerInit, PTL DEF Spec

(* As long as the server is not restarted the byte order of the pool does  *)
(* not matter: whatever the pool, every running promise is in the table,   *)
(* and no two clients hold one dynamic address.  It is read_leases alone   *)
(* that loses leases.                                                      *)
THEOREM UpKeepsPromises ==
    ASSUME TableHoldsPool
    PROVE  SpecUp => [](PromiseKept /\ NoDoublePromise)
<1>1. [NextUp]_vars => [NextFaulty]_vars
  BY DEF NextFaulty, Next
<1>2. TypeOK /\ OneLeaseEach /\ PromiseInv /\ [NextUp]_vars
         => (TypeOK /\ OneLeaseEach /\ PromiseInv)'
  BY <1>1, TypeStep, DistinctStep, PromiseStepUp
<1>3. TypeOK /\ OneLeaseEach /\ PromiseInv => PromiseKept /\ NoDoublePromise
  BY KeptIsUnique DEF PromiseInv
<1>4. QED
  BY <1>2, <1>3, ServerInit, PTL DEF SpecUp

(* Two clients never hold an unexpired ACK for the same dynamic address.   *)
THEOREM ServerNoDoublePromise ==
    ASSUME TableHoldsPool, PoolKeepsByteOrder
    PROVE  Spec => []NoDoublePromise
<1>1. TypeOK /\ OneLeaseEach /\ PromiseInv => NoDoublePromise
  BY KeptIsUnique DEF PromiseInv
<1>2. QED
  BY <1>1, ServerInvariant, PTL

(* While a client may use a dynamic address, the table holds it for that   *)
(* client.                                                                 *)
THEOREM ServerKeepsPromises ==
    ASSUME TableHoldsPool, PoolKeepsByteOrder
    PROVE  Spec => []PromiseKept
<1>1. PromiseInv => PromiseKept
  BY DEF PromiseInv
<1>2. QED
  BY <1>1, ServerInvariant, PTL

-----------------------------------------------------------------------------
(* The server implements the lease book.                                   *)

LEMMA DropIsGiveUp ==
    ASSUME TypeOK, NEW c \in Clients, UNCHANGED now,
           promise' = [promise EXCEPT ![c] = NoPromise]
    PROVE  Book!GiveUp(c)
<1>1. DynamicPromise' = [DynamicPromise EXCEPT ![c] = NoPromise]
  BY DEF DynamicPromise, TypeOK, Reserved, NoPromise
<1>2. QED
  BY <1>1 DEF Book!GiveUp, Book!NoGrant, NoPromise

LEMMA ACKIsGive ==
    ASSUME TypeOK, PromiseKept, NEW c \in Clients, NEW a \in Addr,
           Safe(c, a), NEW opt \in LeaseOpts, ACK(c, a, opt), UNCHANGED now
    PROVE  UNCHANGED promise \/ Book!Next
<1> DEFINE t == LeaseTime(c, a, opt)
<1>1. t \in Nat
  BY LeaseTimeType
<1> HIDE DEF t
<1> SUFFICES ASSUME promise' = [promise EXCEPT ![c] = [addr |-> a, until |-> now + t]]
             PROVE  Book!Next
  BY ACKCases DEF t
<1>2. CASE a \in Reserved
  <2>1. DynamicPromise' = [DynamicPromise EXCEPT ![c] = NoPromise]
    BY <1>2 DEF DynamicPromise, TypeOK, Reserved, NoPromise
  <2>2. Book!GiveUp(c)
    BY <2>1 DEF Book!GiveUp, Book!NoGrant, NoPromise
  <2>3. QED
    BY <2>2 DEF Book!Next
<1>3. CASE a \notin Reserved
  <2>1. DynamicPromise' = [DynamicPromise EXCEPT ![c] = [addr |-> a, until |-> now + t]]
    BY <1>3 DEF DynamicPromise, TypeOK, Reserved
  <2>2. DynamicPromise'[c].until = now + t /\ now + t >= now
    BY <1>1, <2>1 DEF DynamicPromise, TypeOK
  <2>3. ASSUME NEW d \in Clients \ {c}, Book!Running(d)
        PROVE  DynamicPromise[d].addr # a
    <3> SUFFICES ASSUME DynamicPromise[d].addr = a
                 PROVE  FALSE
      OBVIOUS
    <3>1. promise[d].addr = a /\ Active(d)
      BY <1>3, <2>3, AddressAssumption
         DEF Book!Running, Active, DynamicPromise, NoPromise
    <3>2. PICK r \in leases : /\ r.chaddr = d /\ r.yiaddr = a
                              /\ r.expires >= promise[d].until
      BY <1>3, <3>1 DEF PromiseKept
    <3>3. ~lease_expired(r)
      BY <3>1, <3>2 DEF Active, TypeOK, Leases, Promises
    <3>4. QED
      BY <1>3, <3>2, <3>3 DEF Safe
  <2>4. Book!Give(c, a, DynamicPromise'[c].until)
    BY <2>1, <2>2, <2>3 DEF Book!Give
  <2>5. QED
    BY <2>4 DEF Book!Next
<1>4. QED
  BY <1>2, <1>3

LEMMA StepIsBookStep ==
    ASSUME TypeOK, OneLeaseEach, PromiseInv, [Next]_vars
    PROVE  [Book!Next]_<<now, DynamicPromise>>
<1>1. UNCHANGED promise => UNCHANGED DynamicPromise
  BY DEF DynamicPromise, Reserved
<1>2. ASSUME NEW c \in Clients, NEW req \in Addr \cup {0}, Discover(c, req)
      PROVE  Book!Next
  BY <1>2, DropIsGiveUp DEF Discover, Book!Next
<1>3. ASSUME NEW c \in Clients, Decline(c) \/ Release(c)
      PROVE  Book!Next
  BY <1>3, DropIsGiveUp DEF Decline, Release, Book!Next
<1>4. ASSUME NEW c \in Clients, NEW sid \in Sids, NEW req \in Addr \cup {0},
             NEW ciaddr \in Addr \cup {0}, NEW opt \in LeaseOpts,
             Request(c, sid, req, ciaddr, opt)
      PROVE  UNCHANGED promise \/ Book!Next
  <2>1. UNCHANGED now /\ PromiseKept
    BY <1>4 DEF Request, PromiseInv
  <2>2. ASSUME NEW r \in leases, r.chaddr = c, ACK(c, r.yiaddr, opt)
        PROVE  UNCHANGED promise \/ Book!Next
    <3>1. r.yiaddr \in Addr /\ Safe(c, r.yiaddr)
      BY <2>2 DEF TypeOK, Leases, Safe, OneLeaseEach, Distinct
    <3>2. QED
      BY <2>1, <2>2, <3>1, ACKIsGive
  <2>3. CASE find_lease_by_yiaddr(req) = {} /\ req \in Pool /\ ACK(c, req, opt)
    BY <2>1, <2>3, ACKIsGive, AddressAssumption DEF Safe
  <2>4. QED
    BY <1>4, <2>2, <2>3, RequestCases
<1>5. CASE Tick
  BY <1>1, <1>5 DEF Tick, Book!Next, Book!Tick
<1>6. CASE Scan \/ ArpAnswered \/ ArpSilent \/ write_leases \/ Flush \/ Restart
           \/ UNCHANGED vars
  BY <1>1, <1>6 DEF Scan, ArpAnswered, ArpSilent, write_leases, Flush, Restart,
                    StartFrom, vars
<1>7. QED
  <2>1. ASSUME NEW c \in Clients, NEW sid \in Sids, NEW req \in Addr \cup {0},
               NEW ciaddr \in Addr \cup {0}, NEW opt \in LeaseOpts,
               Request(c, sid, req, ciaddr, opt)
        PROVE  UNCHANGED now
    BY <2>1 DEF Request
  <2>2. QED
    BY <1>1, <1>2, <1>3, <1>4, <1>5, <1>6, <2>1 DEF Next, NextUp, ServerStep

(* Restricted to dynamic addresses, the server's ACKs form a lease book:   *)
(* none is sent for an address somebody else still holds.                  *)
THEOREM ServerImplementsBook ==
    ASSUME TableHoldsPool, PoolKeepsByteOrder
    PROVE  Spec => BookSpec
<1>1. Init => Book!Init
  BY DEF Init, Book!Init, Book!NoGrant, DynamicPromise, NoPromise
<1>2. QED
  BY <1>1, StepIsBookStep, ServerInvariant, PTL DEF Spec, BookSpec, Book!Spec

=============================================================================
