-------------------------- MODULE DhcpdTableProofs --------------------------
(***************************************************************************)
(* More theorems about the DHCP server: the table never outgrows its       *)
(* slots, an address in conflict is given to nobody, and the handler of a  *)
(* packet has only so much left to do.                                     *)
(***************************************************************************)
EXTENDS DhcpdProofs

-----------------------------------------------------------------------------
(* The size of the table and of the file.                                  *)

Fits(T) == IsFiniteSet(T) /\ Cardinality(T) <= MaxLeases

FitsInv == Fits(leases) /\ Fits(file)

(* What a function makes of a finite set is no larger.                     *)
LEMMA ImageCard ==
    ASSUME NEW S, IsFiniteSet(S), NEW T, NEW f \in [S -> T],
           \A y \in T : \E x \in S : f[x] = y
    PROVE  /\ IsFiniteSet(T) /\ Cardinality(T) <= Cardinality(S)
           /\ Cardinality(T) \in Nat /\ Cardinality(S) \in Nat
<1>1. f \in Surjection(S, T)
  BY DEF Surjection
<1>2. IsFiniteSet(T) /\ Cardinality(T) <= Cardinality(S)
  BY <1>1, FS_Surjection
<1>3. QED
  BY <1>2, FS_CardinalityType

LEMMA SmallerFits ==
    ASSUME NEW S, Fits(S), NEW T, IsFiniteSet(T), Cardinality(T) <= Cardinality(S)
    PROVE  Fits(T)
<1>1. Cardinality(S) \in Nat /\ Cardinality(T) \in Nat /\ MaxLeases \in Nat
  BY FS_CardinalityType, TimeAssumption DEF Fits
<1>2. QED
  BY <1>1 DEF Fits

LEMMA SubsetFits ==
    ASSUME NEW S, Fits(S), NEW T \in SUBSET S
    PROVE  Fits(T)
BY FS_Subset, SmallerFits DEF Fits

LEMMA SnapshotFits ==
    ASSUME Fits(leases)
    PROVE  Fits(Snapshot)
<1> DEFINE g(r) == [chaddr |-> r.chaddr, yiaddr |-> r.yiaddr,
                    left |-> IF lease_expired(r) THEN 0 ELSE r.expires - now]
           f == [r \in leases |-> g(r)]
<1>1. Snapshot = {g(r) : r \in leases}
  BY DEF Snapshot
<1> HIDE DEF g
<1>2. f \in [leases -> Snapshot] /\ \A y \in Snapshot : \E x \in leases : f[x] = y
  BY <1>1
<1> HIDE DEF f
<1>3. QED
  BY <1>2, ImageCard, SmallerFits DEF Fits

LEMMA ReadFits ==
    ASSUME NEW F, Fits(F)
    PROVE  Fits(read_leases(F))
<1> DEFINE S == {x \in F : InStoredRange(x.yiaddr)}
           g(s) == NewLease(s.chaddr, s.yiaddr, s.left)
           f == [s \in S |-> g(s)]
           T == read_leases(F)
<1>1. T = {g(s) : s \in S}
  BY DEF read_leases
<1>2. Fits(S)
  BY SubsetFits
<1> HIDE DEF g, S, T
<1>3. f \in [S -> T] /\ \A y \in T : \E x \in S : f[x] = y
  BY <1>1
<1> HIDE DEF f
<1>4. Fits(T)
  BY <1>2, <1>3, ImageCard, SmallerFits DEF Fits
<1>5. QED
  BY <1>4 DEF T

(* add_lease takes a free slot or that of the record it removes.           *)
LEMMA AddLeaseFits ==
    ASSUME Fits(leases), NEW c, NEW a, NEW t, NEW T \in add_lease(leases, c, a, t)
    PROVE  Fits(T)
<1> DEFINE kept == clear_lease(leases, c, a)
           new == NewLease(c, a, t)
<1>1. Fits(kept)
  BY SubsetFits DEF clear_lease
<1>2. IsFiniteSet(kept) /\ Cardinality(kept) \in Nat /\ MaxLeases \in Nat
  BY <1>1, FS_CardinalityType, TimeAssumption DEF Fits
<1>3. \/ Cardinality(kept) < MaxLeases /\ T = kept \cup {new}
      \/ \E old \in kept : T = (kept \ {old}) \cup {new}
      \/ T = kept
  BY DEF add_lease, oldest_expired_lease
<1> HIDE DEF kept, new
<1>4. CASE Cardinality(kept) < MaxLeases /\ T = kept \cup {new}
  <2>1. IsFiniteSet(kept \cup {new}) /\ Cardinality(kept \cup {new}) \in Nat
    BY <1>2, FS_AddElement, FS_CardinalityType
  <2>2. Cardinality(kept \cup {new}) = IF new \in kept THEN Cardinality(kept) ELSE Cardinality(kept) + 1
    BY <1>2, FS_AddElement
  <2>3. QED
    BY <1>2, <1>4, <2>1, <2>2 DEF Fits
<1>5. ASSUME NEW old \in kept, T = (kept \ {old}) \cup {new} PROVE Fits(T)
  <2>1. IsFiniteSet(kept \ {old}) /\ Cardinality(kept \ {old}) = Cardinality(kept) - 1
    BY <1>2, FS_RemoveElement
  <2>2. IsFiniteSet(T) /\ Cardinality(T) <= Cardinality(kept)
    BY <1>2, <1>5, <2>1, FS_AddElement
  <2>3. QED
    BY <1>1, <2>2, SmallerFits
<1>6. QED
  BY <1>1, <1>3, <1>4, <1>5

(* Records that are changed in place take the slots they had.              *)
LEMMA ChangedFits ==
    ASSUME Fits(leases), NEW M \in SUBSET leases, NEW N, NEW f \in [M -> N],
           \A y \in N : \E x \in M : f[x] = y, NEW T, T = (leases \ M) \cup N
    PROVE  Fits(T)
<1> DEFINE h == [r \in leases |-> IF r \in M THEN f[r] ELSE r]
<1>1. h \in [leases -> T] /\ \A y \in T : \E x \in leases : h[x] = y
  <2>1. h \in [leases -> T]
    OBVIOUS
  <2>2. ASSUME NEW y \in N PROVE \E x \in leases : h[x] = y
    <3>1. PICK x \in M : f[x] = y
      OBVIOUS
    <3>2. x \in leases /\ h[x] = y
      BY <3>1
    <3>3. QED
      BY <3>2
  <2>3. QED
    BY <2>1, <2>2
<1> HIDE DEF h
<1>2. QED
  BY <1>1, ImageCard, SmallerFits DEF Fits

LEMMA FitsStep ==
    ASSUME FitsInv, [NextFaulty]_vars
    PROVE  FitsInv'
<1> USE DEF FitsInv
<1>1. ASSUME NEW c, NEW a, Offer(c, a) PROVE Fits(leases')
  BY <1>1, AddLeaseFits DEF Offer
<1>2. ASSUME NEW c \in Clients, NEW req \in Addr \cup {0}, Discover(c, req)
      PROVE  FitsInv'
  BY <1>1, <1>2 DEF Discover, SearchAddress
<1>3. ASSUME NEW c \in Clients, NEW sid \in Sids, NEW req \in Addr \cup {0},
             NEW ciaddr \in Addr \cup {0}, NEW opt \in LeaseOpts,
             Request(c, sid, req, ciaddr, opt)
      PROVE  FitsInv'
  <2>1. ASSUME NEW a, ACK(c, a, opt) PROVE Fits(leases')
    BY <2>1, ACKCases, AddLeaseFits
  <2>2. ASSUME NEW r \in leases,
               leases' = (leases \ {r}) \cup {[r EXCEPT !.chaddr = Blank]}
        PROVE  Fits(leases')
    <3> DEFINE q == [r EXCEPT !.chaddr = Blank]
               f == [x \in {r} |-> q]
    <3> HIDE DEF q
    <3>1. f \in [{r} -> {q}] /\ \A y \in {q} : \E x \in {r} : f[x] = y
      OBVIOUS
    <3>2. leases' = (leases \ {r}) \cup {q}
      BY <2>2 DEF q
    <3> HIDE DEF f
    <3>3. QED
      BY <3>1, <3>2, ChangedFits
  <2>3. Fits(leases')
    BY <1>3, <2>1, <2>2, RequestCases
  <2>4. QED
    BY <1>3, <2>3 DEF Request
<1>4. ASSUME NEW c \in Clients, Decline(c) PROVE FitsInv'
  <2> DEFINE M == find_lease_by_chaddr(c)
             g(r) == NewLease(Blank, r.yiaddr, DeclineTime)
             N == {g(r) : r \in M}
             f == [r \in M |-> g(r)]
  <2>1. leases' = (leases \ M) \cup N /\ file' = file
    BY <1>4, Zenon DEF Decline
  <2>2. M \in SUBSET leases
    BY DEF find_lease_by_chaddr
  <2> HIDE DEF g, M
  <2>3. f \in [M -> N] /\ \A y \in N : \E x \in M : f[x] = y
    OBVIOUS
  <2> HIDE DEF f, N
  <2>4. QED
    BY <2>1, <2>2, <2>3, ChangedFits
<1>5. ASSUME NEW c \in Clients, Release(c) PROVE FitsInv'
  <2> DEFINE M == find_lease_by_chaddr(c)
             g(r) == [r EXCEPT !.expires = now]
             N == {g(r) : r \in M}
             f == [r \in M |-> g(r)]
  <2>1. leases' = (leases \ M) \cup N /\ file' = file
    BY <1>5, Zenon DEF Release
  <2>2. M \in SUBSET leases
    BY DEF find_lease_by_chaddr
  <2> HIDE DEF g, M
  <2>3. f \in [M -> N] /\ \A y \in N : \E x \in M : f[x] = y
    OBVIOUS
  <2> HIDE DEF f, N
  <2>4. QED
    BY <2>1, <2>2, <2>3, ChangedFits
<1>6. CASE Scan \/ Flush \/ Tick \/ WriteFails \/ UNCHANGED vars
  BY <1>6 DEF Scan, Flush, Tick, WriteFails, vars
<1>7. CASE ArpAnswered
  BY <1>7, AddLeaseFits DEF ArpAnswered
<1>8. CASE ArpSilent
  BY <1>1, <1>8 DEF ArpSilent
<1>9. CASE write_leases
  BY <1>9, SnapshotFits DEF write_leases
<1>10. CASE Restart
  BY <1>10, ReadFits DEF Restart, StartFrom
<1>11. CASE Kill
  <2>1. PICK f \in {file} \cup SUBSET Snapshot : file' = f /\ StartFrom(f)
    BY <1>11 DEF Kill
  <2>2. Fits(f)
    BY <2>1, SnapshotFits, SubsetFits
  <2>3. QED
    BY <2>1, <2>2, ReadFits DEF StartFrom
<1>12. QED
  BY <1>2, <1>3, <1>4, <1>5, <1>6, <1>7, <1>8, <1>9, <1>10, <1>11
     DEF NextFaulty, Next, NextUp, ServerStep

(* The table never holds more records than it has slots, whatever is       *)
(* offered, declined, read back after a kill or left half written: the     *)
(* file is never longer than the table either.                             *)
THEOREM FaultyTableFits == SpecFaulty => []TableFits
<1>1. Init => FitsInv
  BY FS_EmptySet, TimeAssumption DEF Init, FitsInv, Fits
<1>2. FitsInv => TableFits
  BY DEF FitsInv, Fits, TableFits
<1>3. QED
  BY <1>1, <1>2, FitsStep, PTL DEF SpecFaulty

-----------------------------------------------------------------------------
(* An address in conflict.                                                 *)

USE DEF lease_expired, find_lease_by_chaddr, find_lease_by_yiaddr,
        find_static_lease_by_yiaddr

Kept(T, a) == \E r \in T : r.yiaddr = a /\ r.chaddr = Blank /\ r.expires >= held[a]

(* A dynamic address that is held has its record without an owner, which   *)
(* lives as long; and an address under probe has no live record.           *)
HeldKept == \A a \in Addr : held[a] >= now /\ a \notin Reserved => Kept(leases, a)

ProbeFree ==
    job.pc = "arp" /\ job.addr \notin Reserved
        => \A r \in leases : r.yiaddr = job.addr => lease_expired(r)

HeldInv == HeldKept /\ ProbeFree

(* Nothing that add_lease does for another address disturbs the record.    *)
LEMMA KeptElsewhere ==
    ASSUME TypeOK, HeldKept, NEW c, NEW a, NEW t,
           NEW T \in add_lease(leases, c, a, t),
           NEW b \in Addr, b # a, held[b] >= now, b \notin Reserved
    PROVE  Kept(T, b)
<1>1. PICK r \in leases : r.yiaddr = b /\ r.chaddr = Blank /\ r.expires >= held[b]
  BY DEF HeldKept, Kept
<1>2. r \in clear_lease(leases, c, a)
  BY <1>1 DEF clear_lease
<1>3. ~lease_expired(r)
  <2>1. r.expires \in Nat /\ held[b] \in Nat /\ now \in Nat
    BY DEF TypeOK, Leases
  <2>2. QED
    BY <1>1, <2>1
<1>4. r \in T
  BY <1>2, <1>3, AddLeaseKeeps
<1>5. QED
  BY <1>1, <1>4 DEF Kept

(* The address is reserved for a client or not held.                       *)
Grantable(a) == a \in Reserved \/ ~(held[a] >= now)

LEMMA GrantKeeps ==
    ASSUME TypeOK, HeldKept, NEW c, NEW a \in Addr, NEW t, Grantable(a),
           leases' \in add_lease(leases, c, a, t), UNCHANGED <<now, held>>
    PROVE  HeldKept'
<1> SUFFICES ASSUME NEW b \in Addr, held[b] >= now, b \notin Reserved
             PROVE  Kept(leases', b)
  BY DEF HeldKept, Kept
<1>1. b # a
  BY DEF Grantable
<1>2. QED
  BY <1>1, KeptElsewhere

LEMMA OwnedIsGrantable ==
    ASSUME TypeOK, OneLeaseEach, HeldKept, NEW r \in leases, r.chaddr \in Clients
    PROVE  Grantable(r.yiaddr) /\ r.yiaddr \in Addr
<1>1. r.yiaddr \in Addr
  BY DEF TypeOK, Leases
<1>2. Grantable(r.yiaddr)
  <2> SUFFICES ASSUME held[r.yiaddr] >= now, r.yiaddr \notin Reserved
               PROVE  FALSE
    BY DEF Grantable
  <2>1. PICK q \in leases : q.yiaddr = r.yiaddr /\ q.chaddr = Blank
    BY <1>1 DEF HeldKept, Kept
  <2>2. q = r
    BY <2>1 DEF OneLeaseEach, Distinct
  <2>3. QED
    BY <2>1, <2>2, AddressAssumption
<1>3. QED
  BY <1>1, <1>2

LEMMA ExpiredIsGrantable ==
    ASSUME TypeOK, HeldKept, NEW a \in Addr, \A r \in leases : r.yiaddr = a => lease_expired(r)
    PROVE  Grantable(a)
<1> SUFFICES ASSUME held[a] >= now, a \notin Reserved
             PROVE  FALSE
  BY DEF Grantable
<1>1. PICK q \in leases : q.yiaddr = a /\ q.expires >= held[a]
  BY DEF HeldKept, Kept
<1>2. q.expires \in Nat /\ held[a] \in Nat /\ now \in Nat
  BY DEF TypeOK, Leases
<1>3. QED
  BY <1>1, <1>2

LEMMA StaticReserved ==
    ASSUME TypeOK, NEW a \in Addr, find_static_lease_by_yiaddr(a)
    PROVE  a \in Reserved
BY DEF TypeOK, Reserved

LEMMA SameHeld ==
    ASSUME HeldKept, UNCHANGED <<now, leases, held>>
    PROVE  HeldKept'
BY DEF HeldKept, Kept

LEMMA NoProbe ==
    ASSUME job'.pc # "arp"
    PROVE  ProbeFree'
BY DEF ProbeFree

LEMMA HeldDiscover ==
    ASSUME TypeOK, OneLeaseEach, HeldInv, NEW c \in Clients, NEW req \in Addr \cup {0},
           Discover(c, req)
    PROVE  HeldInv'
<1>1. ASSUME NEW a \in Addr, Grantable(a), Offer(c, a) PROVE HeldInv'
  <2>1. leases' \in add_lease(leases, c, a, OfferTime) /\ UNCHANGED <<now, held>> /\ job' = Writing
    BY <1>1 DEF Offer, Discover
  <2>2. HeldKept'
    BY <1>1, <2>1, GrantKeeps DEF HeldInv
  <2>3. QED
    BY <2>1, <2>2, NoProbe, JobTypes DEF HeldInv
<1>2. CASE static[c] # 0 /\ Offer(c, static[c])
  <2>1. static[c] \in Addr
    BY <1>2, StaticType
  <2>2. Grantable(static[c])
    BY <2>1, StaticReserved DEF Grantable
  <2>3. QED
    BY <1>1, <1>2, <2>1, <2>2
<1>3. CASE \E r \in find_lease_by_chaddr(c) : Offer(c, r.yiaddr)
  BY <1>1, <1>3, OwnedIsGrantable DEF HeldInv
<1>4. CASE SearchAddress(c, req)
  <2>1. UNCHANGED <<now, leases, held, static>>
    BY <1>4 DEF SearchAddress, Discover
  <2>2. HeldKept'
    BY <2>1, SameHeld DEF HeldInv
  <2>3. \/ job'.pc = "scan"
        \/ /\ job' = [pc |-> "arp", chaddr |-> c, addr |-> req, phase |-> "requested"]
           /\ req \in Pool
           /\ \/ find_static_lease_by_yiaddr(req)
              \/ \A r \in find_lease_by_yiaddr(req) : lease_expired(r)
    BY <1>4 DEF SearchAddress, ScanFrom, Probe
  <2>4. ProbeFree'
    <3>1. CASE job'.pc = "scan"
      BY <3>1, NoProbe
    <3>2. CASE job'.pc # "scan"
      <4>1. req \in Addr /\ job'.addr = req
        BY <2>3, <3>2, AddressAssumption
      <4>2. find_static_lease_by_yiaddr(req) => req \in Reserved
        BY <4>1, StaticReserved
      <4>3. QED
        BY <2>1, <2>3, <3>2, <4>1, <4>2 DEF ProbeFree
    <3>3. QED
      BY <3>1, <3>2
  <2>5. QED
    BY <2>2, <2>4 DEF HeldInv
<1>5. QED
  BY <1>2, <1>3, <1>4 DEF Discover

LEMMA HeldScan ==
    ASSUME TypeOK, HeldInv, Scan
    PROVE  HeldInv'
<1>1. UNCHANGED <<now, leases, held>>
  BY DEF Scan
<1>2. HeldKept'
  BY <1>1, SameHeld DEF HeldInv
<1>3. \/ job'.pc # "arp"
      \/ \E a \in Candidates(job.addr, job.phase = "expired") : job'.addr = a
  BY JobTypes DEF Scan, ScanFrom, Probe
<1>4. ProbeFree'
  BY <1>1, <1>3 DEF ProbeFree, Candidates
<1>5. QED
  BY <1>2, <1>4 DEF HeldInv

LEMMA HeldArp ==
    ASSUME TableHoldsPool, TypeOK, OneLeaseEach, HeldInv, ArpAnswered \/ ArpSilent
    PROVE  HeldInv'
<1>0. job.pc = "arp" /\ job.addr \in Addr /\ leases \subseteq Leases
  BY AddressAssumption DEF ArpAnswered, ArpSilent, TypeOK
<1>1. CASE ArpAnswered
  <2> SUFFICES ASSUME NEW a \in Addr, a = job.addr PROVE HeldInv'
    BY <1>0
  <2>1. /\ leases' \in add_lease(leases, Blank, a, ConflictTime)
        /\ held' = [held EXCEPT ![a] = now + ConflictTime]
        /\ now' = now /\ job'.pc = "scan"
    BY <1>1 DEF ArpAnswered, ScanFrom
  <2>2. NewLease(Blank, a, ConflictTime) \in leases'
    BY <1>0, <2>1, AddLeaseRoom DEF TableHoldsPool, OneLeaseEach
  <2>3. /\ NewLease(Blank, a, ConflictTime).expires = now + ConflictTime
        /\ NewLease(Blank, a, ConflictTime).yiaddr = a
        /\ NewLease(Blank, a, ConflictTime).chaddr = Blank
    <3>1. MaxTime + ConflictTime < TimeMod /\ ConflictTime \in Nat
      BY TimeAssumption
    <3>2. NewLease(Blank, a, ConflictTime).expires = now + ConflictTime
      BY <1>0, <3>1, NewLeaseType DEF TypeOK
    <3>3. QED
      BY <3>2 DEF NewLease
  <2>4. held'[a] = now + ConflictTime /\ \A b \in Addr : b # a => held'[b] = held[b]
    BY <1>0, <2>1 DEF TypeOK
  <2>5. Kept(leases, a)'
    <3>1. now + ConflictTime \in Nat
      BY TimeAssumption DEF TypeOK
    <3>2. QED
      BY <2>2, <2>3, <2>4, <3>1 DEF Kept
  <2>6. ASSUME NEW b \in Addr, b # a, held'[b] >= now', b \notin Reserved
        PROVE  Kept(leases, b)'
    <3>1. Kept(leases', b)
      BY <2>1, <2>4, <2>6, KeptElsewhere DEF HeldInv
    <3>2. QED
      BY <2>4, <2>6, <3>1 DEF Kept
  <2>7. HeldKept'
    BY <2>5, <2>6 DEF HeldKept
  <2>8. QED
    BY <2>1, <2>7, NoProbe DEF HeldInv
<1>2. CASE ArpSilent /\ job.phase = "retry"
  <2>1. UNCHANGED <<now, leases, held>> /\ job'.pc = "scan"
    BY <1>2 DEF ArpSilent, ScanFrom
  <2>2. QED
    BY <2>1, SameHeld, NoProbe DEF HeldInv
<1>3. CASE ArpSilent /\ job.phase # "retry"
  <2>1. /\ leases' \in add_lease(leases, job.chaddr, job.addr, OfferTime)
        /\ UNCHANGED <<now, held>> /\ job' = Writing
    BY <1>3 DEF ArpSilent, Offer
  <2>2. Grantable(job.addr)
    <3>1. CASE job.addr \in Reserved
      BY <3>1 DEF Grantable
    <3>2. CASE job.addr \notin Reserved
      BY <1>0, <3>2, ExpiredIsGrantable DEF HeldInv, ProbeFree
    <3>3. QED
      BY <3>1, <3>2
  <2>3. HeldKept'
    BY <1>0, <2>1, <2>2, GrantKeeps DEF HeldInv
  <2>4. QED
    BY <2>1, <2>3, NoProbe, JobTypes DEF HeldInv
<1>4. QED
  BY <1>1, <1>2, <1>3

LEMMA HeldRequest ==
    ASSUME TypeOK, OneLeaseEach, HeldInv, NEW c \in Clients, NEW sid \in Sids,
           NEW req \in Addr \cup {0}, NEW ciaddr \in Addr \cup {0},
           NEW opt \in LeaseOpts, Request(c, sid, req, ciaddr, opt)
    PROVE  HeldInv'
<1>0. UNCHANGED <<now, held>> /\ job' = Writing
  BY DEF Request
<1>1. ASSUME NEW a \in Addr, Grantable(a), ACK(c, a, opt) PROVE HeldKept'
  <2>1. CASE leases' = leases
    BY <1>0, <2>1, SameHeld DEF HeldInv
  <2>2. CASE leases' \in add_lease(leases, c, a, LeaseTime(c, a, opt))
    BY <1>0, <1>1, <2>2, GrantKeeps DEF HeldInv
  <2>3. QED
    BY <1>1, <2>1, <2>2, ACKCases
<1>2. ASSUME NEW r \in leases, r.chaddr = c, ACK(c, r.yiaddr, opt) PROVE HeldKept'
  BY <1>1, <1>2, OwnedIsGrantable DEF HeldInv
<1>3. ASSUME find_lease_by_yiaddr(req) = {}, req \in Pool, ACK(c, req, opt) PROVE HeldKept'
  <2>1. req \in Addr
    BY <1>3, AddressAssumption
  <2>2. Grantable(req)
    BY <1>3, <2>1, ExpiredIsGrantable DEF HeldInv
  <2>3. QED
    BY <1>1, <1>3, <2>1, <2>2
<1>4. ASSUME NEW r \in leases, lease_expired(r),
             leases' = (leases \ {r}) \cup {[r EXCEPT !.chaddr = Blank]}
      PROVE  HeldKept'
  <2> SUFFICES ASSUME NEW a \in Addr, held[a] >= now, a \notin Reserved
               PROVE  Kept(leases', a)
    BY <1>0 DEF HeldKept, Kept
  <2>1. PICK q \in leases : q.yiaddr = a /\ q.chaddr = Blank /\ q.expires >= held[a]
    BY DEF HeldInv, HeldKept, Kept
  <2>2. q # r
    <3>1. q.expires \in Nat /\ held[a] \in Nat /\ now \in Nat
      BY DEF TypeOK, Leases
    <3>2. QED
      BY <1>4, <2>1, <3>1
  <2>3. q \in leases'
    BY <1>4, <2>2
  <2>4. QED
    BY <2>1, <2>3 DEF Kept
<1>5. ASSUME leases' = leases PROVE HeldKept'
  BY <1>0, <1>5, SameHeld DEF HeldInv
<1>6. HeldKept'
  BY <1>2, <1>3, <1>4, <1>5, RequestCases
<1>7. QED
  BY <1>0, <1>6, NoProbe, JobTypes DEF HeldInv

LEMMA HeldGiveUp ==
    ASSUME TypeOK, HeldInv, NEW c \in Clients, Decline(c) \/ Release(c)
    PROVE  HeldInv'
<1>0. job.pc = "idle" /\ now' = now /\ job'.pc # "arp"
  BY JobTypes DEF Decline, Release
<1>1. ASSUME NEW a \in Addr, held[a] >= now, a \notin Reserved
      PROVE  \E q \in leases' : q.yiaddr = a /\ q.chaddr = Blank /\ q.expires >= held[a]
  <2>1. PICK q \in leases : q.yiaddr = a /\ q.chaddr = Blank /\ q.expires >= held[a]
    BY <1>1 DEF HeldInv, HeldKept, Kept
  <2>2. q.chaddr # c
    BY <2>1, AddressAssumption
  <2>3. q \in leases'
    BY <2>2 DEF Decline, Release
  <2>4. QED
    BY <2>1, <2>3
<1>2. CASE Release(c)
  <2>1. held' = held
    BY <1>2 DEF Release
  <2>2. HeldKept'
    BY <1>0, <1>1, <2>1 DEF HeldKept, Kept
  <2>3. QED
    BY <1>0, <2>2, NoProbe DEF HeldInv
<1>3. CASE Decline(c)
  <2> DEFINE Mine(a) == \E r \in leases : r.chaddr = c /\ r.yiaddr = a
  <2>1. \A a \in Addr : held'[a] = IF Mine(a) THEN now + DeclineTime ELSE held[a]
    BY <1>3 DEF Decline
  <2>2. ASSUME NEW a \in Addr, Mine(a) PROVE Kept(leases, a)'
    <3> DEFINE n == NewLease(Blank, a, DeclineTime)
    <3>1. n \in leases'
      BY <1>3, <2>2 DEF Decline
    <3>2. MaxTime + DeclineTime < TimeMod /\ DeclineTime \in Nat /\ now \in Nat
      BY TimeAssumption DEF TypeOK
    <3>3. n.expires = now + DeclineTime
      BY <3>2, NewLeaseType DEF TypeOK
    <3>4. n.yiaddr = a /\ n.chaddr = Blank
      BY DEF NewLease
    <3> HIDE DEF n
    <3>5. held'[a] = now + DeclineTime /\ now + DeclineTime \in Nat
      BY <2>1, <2>2, <3>2
    <3>6. QED
      BY <3>1, <3>3, <3>4, <3>5 DEF Kept
  <2>3. ASSUME NEW a \in Addr, ~Mine(a), held'[a] >= now', a \notin Reserved
        PROVE  Kept(leases, a)'
    <3>1. held'[a] = held[a]
      BY <2>1, <2>3
    <3>2. QED
      BY <1>0, <1>1, <2>3, <3>1 DEF Kept
  <2> HIDE DEF Mine
  <2>4. HeldKept'
    BY <2>2, <2>3 DEF HeldKept
  <2>5. QED
    BY <1>0, <2>4, NoProbe DEF HeldInv
<1>4. QED
  BY <1>2, <1>3

LEMMA HeldStart ==
    ASSUME TypeOK, NEW f, StartFrom(f)
    PROVE  HeldInv'
<1>1. held' = [a \in Addr |-> 0] /\ now' = now /\ job' = Idle
  BY DEF StartFrom
<1>2. now \in Nat /\ now # 0
  BY DEF TypeOK
<1>3. HeldKept'
  BY <1>1, <1>2 DEF HeldKept
<1>4. QED
  BY <1>1, <1>3, NoProbe, JobTypes DEF HeldInv

LEMMA HeldTick ==
    ASSUME TypeOK, HeldInv, Tick
    PROVE  HeldInv'
<1>1. now' = now + 1 /\ UNCHANGED <<leases, job, held>> /\ now \in Nat
  BY DEF Tick, TypeOK
<1>2. \A r \in leases : r.expires \in Nat
  BY DEF TypeOK, Leases
<1>3. HeldKept'
  <2>1. ASSUME NEW a \in Addr, held[a] >= now + 1 PROVE held[a] >= now
    <3>1. held[a] \in Nat
      BY DEF TypeOK
    <3>2. QED
      BY <1>1, <2>1, <3>1
  <2>2. QED
    BY <1>1, <2>1 DEF HeldInv, HeldKept, Kept
<1>4. ProbeFree'
  BY <1>1, <1>2 DEF HeldInv, ProbeFree
<1>5. QED
  BY <1>3, <1>4 DEF HeldInv

LEMMA HeldStep ==
    ASSUME TableHoldsPool, TypeOK, OneLeaseEach, HeldInv, [NextFaulty]_vars
    PROVE  HeldInv'
<1>1. CASE Flush \/ write_leases \/ WriteFails
  <2>1. UNCHANGED <<now, leases, held>> /\ job'.pc # "arp"
    BY <1>1, JobTypes DEF Flush, write_leases, WriteFails
  <2>2. QED
    BY <2>1, SameHeld, NoProbe DEF HeldInv
<1>2. CASE UNCHANGED vars
  BY <1>2 DEF vars, HeldInv, HeldKept, Kept, ProbeFree
<1>3. CASE Restart \/ Kill
  BY <1>3, HeldStart DEF Restart, Kill
<1>4. QED
  BY <1>1, <1>2, <1>3, HeldDiscover, HeldRequest, HeldGiveUp, HeldScan, HeldArp, HeldTick
     DEF NextFaulty, Next, NextUp, ServerStep

(* An address that answered ARP or was declined is in no client's record   *)
(* until its time is over, as long as the server stays up: also while it   *)
(* is searched for, requested by a client that remembers it, or freed by   *)
(* its old owner.  The table needs a slot for every address, or add_lease  *)
(* may fail to record the conflict.                                        *)
THEOREM FaultyHeldForNobody ==
    ASSUME TableHoldsPool
    PROVE  SpecFaulty => []HeldForNobody
<1>1. Init => HeldInv
  <2>1. Init => HeldKept
    BY DEF Init, HeldKept
  <2>2. Init => ProbeFree
    BY JobTypes DEF Init, ProbeFree
  <2>3. QED
    BY <2>1, <2>2 DEF HeldInv
<1>2. TypeOK /\ OneLeaseEach /\ HeldInv => HeldForNobody
  <2> SUFFICES ASSUME TypeOK, OneLeaseEach, HeldInv, NEW r \in leases,
                      r.chaddr # Blank, r.yiaddr \notin Reserved
               PROVE  held[r.yiaddr] < now
    BY DEF HeldForNobody
  <2>1. r.yiaddr \in Addr /\ r.chaddr \in Clients
    BY DEF TypeOK, Leases
  <2>2. held[r.yiaddr] \in Nat /\ now \in Nat
    BY <2>1 DEF TypeOK
  <2>3. QED
    BY <2>1, <2>2, OwnedIsGrantable DEF HeldInv, Grantable
<1>3. TypeOK /\ OneLeaseEach /\ HeldInv /\ [NextFaulty]_vars => HeldInv'
  BY HeldStep
<1>4. QED
  BY <1>1, <1>2, <1>3, FaultyTypes, FaultyOneLeaseEach, PTL DEF SpecFaulty

-----------------------------------------------------------------------------
(* The work left to a handler.                                             *)

LEMMA LeftFacts ==
    /\ \A n \in Nat : Left(n) \in Nat
    /\ \A n, m \in Nat : n <= m => Left(m) <= Left(n)
    /\ \A n \in Pool : n + 1 \in Nat /\ Left(n) = Left(n + 1) + 1
<1>1. Start \in Nat /\ End \in Nat
  BY AddressAssumption
<1>2. QED
  BY <1>1 DEF Left, Pool

(* The bound in each state of a handler, as a number.                      *)
LEMMA WorkCases ==
    /\ Lap \in Nat /\ 2 * Left(Start) + 1 < Lap
    /\ Laps \in {1, 2, 3}
    /\ job.phase = "requested" => Laps = 3
    /\ job.phase \in {"free", "retry"} => Laps = 2
    /\ job.phase = "expired" => Laps = 1
    /\ job.pc = "scan" => Work = Laps * Lap + 2 * Left(job.addr) + 1
    /\ job.pc = "arp" => Work = Laps * Lap + 2 * Left(job.addr)
    /\ job.pc = "write" => Work = 1
    /\ job.pc = "idle" => Work = 0
<1>1. Left(Start) \in Nat
  BY LeftFacts, AddressAssumption
<1>2. QED
  BY <1>1 DEF Lap, Laps, Work

LEMMA NextWork ==
    /\ Laps' \in {1, 2, 3}
    /\ job'.phase \in {"free", "retry"} => Laps' = 2
    /\ job'.phase = "expired" => Laps' = 1
    /\ job'.pc = "scan" => Work' = Laps' * Lap + 2 * Left(job'.addr) + 1
    /\ job'.pc = "arp" => Work' = Laps' * Lap + 2 * Left(job'.addr)
    /\ job'.pc = "write" => Work' = 1
    /\ job'.pc = "idle" => Work' = 0
BY DEF Lap, Laps, Work

LEMMA BusyWork ==
    ASSUME TypeOK, job.pc # "idle"
    PROVE  /\ Work \in Nat /\ Work > 0 /\ job.addr \in Nat
           /\ job.pc \in {"scan", "arp"} => Work > 1 /\ Work >= Laps * Lap + 2 * Left(job.addr)
<1>1. job.pc \in {"scan", "arp", "write"} /\ job.addr \in Nat
  BY AddressAssumption DEF TypeOK, Jobs
<1>2. Left(job.addr) \in Nat /\ Left(Start) \in Nat
  BY <1>1, LeftFacts, AddressAssumption
<1>3. QED
  BY <1>1, <1>2, WorkCases

Shrinks == job.pc # "idle" => IF now' = now THEN Work' < Work ELSE Work' = Work

LEMMA EndShrinks ==
    ASSUME TypeOK, job.pc # "idle", job' = Idle \/ (job' = Writing /\ job.pc # "write"),
           now' = now
    PROVE  Shrinks
<1>1. job.pc \in {"scan", "arp", "write"}
  BY DEF TypeOK, Jobs
<1>2. job'.pc = "idle" \/ (job'.pc = "write" /\ job.pc \in {"scan", "arp"})
  BY <1>1, JobTypes
<1>3. QED
  BY <1>2, BusyWork, NextWork DEF Shrinks

(* A new search, of which fewer are left.                                  *)
LEMMA SearchShrinks ==
    ASSUME TypeOK, job.pc \in {"scan", "arp"}, now' = now,
           job'.pc = "scan", job'.addr = Start, Laps' < Laps
    PROVE  Shrinks
<1>1. Left(Start) \in Nat /\ Left(job.addr) \in Nat
  BY BusyWork, LeftFacts, AddressAssumption
<1>2. Work' = Laps' * Lap + 2 * Left(Start) + 1
  BY NextWork
<1>3. Work >= Laps * Lap
  BY <1>1, BusyWork, WorkCases
<1>4. Laps' * Lap + Lap <= Laps * Lap
  <2>1. Lap \in Nat /\ 1 * Lap = Lap /\ 2 * Lap = Lap + Lap /\ 3 * Lap = Lap + Lap + Lap
    BY WorkCases
  <2>2. \/ Laps' = 1 /\ Laps = 2
        \/ Laps' = 1 /\ Laps = 3
        \/ Laps' = 2 /\ Laps = 3
    BY WorkCases, NextWork
  <2>3. QED
    BY <2>1, <2>2
<1>5. QED
  BY <1>1, <1>2, <1>3, <1>4, BusyWork, WorkCases, NextWork DEF Shrinks

LEMMA ScanShrinks ==
    ASSUME TypeOK, Scan
    PROVE  Shrinks
<1>1. job.pc = "scan" /\ now' = now /\ job.addr \in Nat
  BY BusyWork DEF Scan
<1>2. CASE job' = Writing
  BY <1>1, <1>2, EndShrinks
<1>3. CASE job.phase = "free" /\ ScanFrom(job.chaddr, Start, "expired")
  <2>1. job'.pc = "scan" /\ job'.addr = Start /\ job'.phase = "expired"
    BY <1>3 DEF ScanFrom
  <2>2. Laps' < Laps
    BY <1>3, <2>1, WorkCases, NextWork
  <2>3. QED
    BY <1>1, <2>1, <2>2, SearchShrinks
<1>4. ASSUME NEW a \in Candidates(job.addr, job.phase = "expired"),
             Probe(job.chaddr, a, job.phase)
      PROVE  Shrinks
  <2>1. a \in Nat /\ job.addr <= a
    BY AddressAssumption DEF Candidates
  <2>2. job'.pc = "arp" /\ job'.addr = a /\ job'.phase = job.phase
    BY <1>4 DEF Probe
  <2>3. Laps' = Laps
    BY <2>2 DEF Laps
  <2>4. Left(a) \in Nat /\ Left(job.addr) \in Nat /\ Left(a) <= Left(job.addr)
    BY <1>1, <2>1, LeftFacts
  <2>5. Work = Laps * Lap + 2 * Left(job.addr) + 1 /\ Work' = Laps * Lap + 2 * Left(a)
    BY <1>1, <2>2, <2>3, WorkCases, NextWork
  <2>6. QED
    BY <1>1, <2>4, <2>5, WorkCases DEF Shrinks
<1>5. QED
  BY <1>2, <1>3, <1>4 DEF Scan

LEMMA ArpShrinks ==
    ASSUME TypeOK, ArpAnswered \/ ArpSilent
    PROVE  Shrinks
<1>1. job.pc = "arp" /\ now' = now /\ job.addr \in Pool /\ job.addr \in Nat
  BY BusyWork DEF ArpAnswered, ArpSilent, TypeOK
<1>2. CASE ArpSilent /\ job.phase # "retry"
  <2>1. job' = Writing
    BY <1>2 DEF ArpSilent, Offer
  <2>2. QED
    BY <1>1, <2>1, EndShrinks
<1>3. CASE \/ ArpSilent /\ job.phase = "retry"
           \/ ArpAnswered /\ job.phase = "requested"
  <2>1. /\ job'.pc = "scan" /\ job'.addr = Start
        /\ job'.phase = IF job.phase = "retry" THEN "expired" ELSE "retry"
    BY <1>3 DEF ArpSilent, ArpAnswered, ScanFrom
  <2>2. Laps' < Laps
    BY <1>3, <2>1, WorkCases, NextWork
  <2>3. QED
    BY <1>1, <2>1, <2>2, SearchShrinks
<1>4. CASE ArpAnswered /\ job.phase # "requested"
  <2>1. job'.pc = "scan" /\ job'.addr = job.addr + 1 /\ job'.phase = job.phase
    BY <1>4 DEF ArpAnswered, ScanFrom
  <2>2. Laps' = Laps
    BY <2>1 DEF Laps
  <2>3. Left(job.addr + 1) \in Nat /\ Left(job.addr) = Left(job.addr + 1) + 1
    BY <1>1, LeftFacts
  <2>4. /\ Work = Laps * Lap + 2 * Left(job.addr)
        /\ Work' = Laps * Lap + 2 * Left(job.addr + 1) + 1
    BY <1>1, <2>1, <2>2, WorkCases, NextWork
  <2>5. QED
    BY <1>1, <2>3, <2>4, WorkCases DEF Shrinks
<1>5. QED
  BY <1>2, <1>3, <1>4

LEMMA ShrinkStep ==
    ASSUME TypeOK, NextFaulty
    PROVE  Shrinks
<1>1. CASE write_leases \/ WriteFails \/ Kill
  <2>1. job.pc # "idle" /\ job' = Idle /\ now' = now
    BY <1>1 DEF write_leases, WriteFails, Kill, StartFrom
  <2>2. QED
    BY <2>1, EndShrinks
<1>2. CASE Tick
  <2>1. now' # now /\ job' = job
    BY <1>2 DEF Tick, TypeOK
  <2>2. QED
    BY <2>1 DEF Shrinks, Work, Laps
<1>3. CASE job.pc = "idle"
  BY <1>3 DEF Shrinks
<1>4. QED
  BY <1>1, <1>2, <1>3, ScanShrinks, ArpShrinks
     DEF NextFaulty, Next, NextUp, ServerStep, Discover, Request, Decline, Release, Flush, Restart

(* The handler of a packet runs out of work, for a pool of any size and    *)
(* whatever ARP answers, expiries and kills come: every step of a busy     *)
(* server but the passing of a second makes a natural number smaller.      *)
THEOREM FaultyHandlerShrinks == SpecFaulty => HandlerShrinks
<1>1. TypeOK /\ [NextFaulty]_vars =>
         [job.pc # "idle" => IF now' = now THEN Work' < Work ELSE Work' = Work]_vars
  BY ShrinkStep DEF Shrinks
<1>2. QED
  BY <1>1, FaultyTypes, PTL DEF SpecFaulty, HandlerShrinks

=============================================================================
