--------------------------- MODULE PForwardProofs ---------------------------
(* Proofs about port forwarding, for any number of processes, names, rules *)
(* and servers: what holds however calls overlap, and what calls that do   *)
(* not overlap leave behind.                                               *)
EXTENDS PForward, FiniteSetTheorems, TLAPS

USE ForwardAssumption

LEMMA TypeInit == Init => TypeOK
BY DEF Init, TypeOK, Entries

(* What a process is called for is known at each of its steps.             *)
LEMMA StepFacts ==
    ASSUME TypeOK, NEW p \in Procs, pc[p] \notin {"idle", "look", "tidy"}
    PROVE  /\ name[p] \in Names /\ rule[p] \in Rules /\ Server[rule[p]] \in Servers
           /\ rule[p] \in Entries /\ Server[rule[p]] \in Entries /\ rule[p] # Server[rule[p]]
BY DEF TypeOK, Entries

LEMMA TypeNext == TypeOK /\ [Next]_vars => TypeOK'
<1> SUFFICES ASSUME TypeOK, [Next]_vars PROVE TypeOK'
    OBVIOUS
<1> USE DEF TypeOK, At, Return, disk, kernel, args, ghosts
<1>0. \A e \in Entries : copies[e] \in Nat /\ replaced[e] \in Nat
    OBVIOUS
<1>1. ASSUME NEW p \in Procs, Step(p) PROVE TypeOK'
    <2>1. ASSUME NEW n \in Names, remove_pforward(p, n) PROVE TypeOK'
        BY <2>1 DEF remove_pforward, Call
    <2>2. ASSUME NEW n \in Names, NEW r \in Rules,
                 create_pforward(p, n, r) \/ set_pforward(p, n, r)
          PROVE  TypeOK'
        BY <2>2 DEF create_pforward, set_pforward, Call
    <2>3. CASE Check(p)
        BY <2>3 DEF Check
    <2>4. CASE SetLine(p)
        <3>1. name[p] \in Names /\ rule[p] \in Rules
            BY <2>4 DEF SetLine
        <3>2. replaced' \in [Entries -> Nat]
            BY <1>0, <2>4 DEF SetLine, WriteLine
        <3> QED
            BY <2>4, <3>1, <3>2 DEF SetLine, WriteLine
    <2>5. CASE AppendDnat(p)
        <3>1. rule[p] \in Entries
            BY <2>5, StepFacts DEF AppendDnat
        <3>2. copies' \in [Entries -> Nat]
            BY <2>5, <3>1 DEF AppendDnat, Append
        <3> QED
            BY <2>5, <3>1, <3>2 DEF AppendDnat
    <2>6. CASE AppendSnat(p)
        <3>1. Server[rule[p]] \in Entries
            BY <2>6, StepFacts DEF AppendSnat
        <3>2. copies' \in [Entries -> Nat]
            BY <2>6, <3>1 DEF AppendSnat, Append
        <3> QED
            BY <2>6, <3>2 DEF AppendSnat
    <2>7. CASE Look(p)
        <3>1. name[p] \in Names /\ file[name[p]] \in Rules \cup {None}
            BY <2>7 DEF Look
        <3>2. spoilt' \subseteq Entries
            BY <2>7, <3>1 DEF Look, EntriesOf, Entries
        <3> QED
            BY <2>7, <3>1, <3>2 DEF Look
    <2>8. CASE DeleteDnat(p)
        <3>1. copies' \in [Entries -> Nat]
            BY <2>8, StepFacts DEF DeleteDnat, Delete
        <3> QED
            BY <2>8, <3>1 DEF DeleteDnat
    <2>9. CASE DeleteSnat(p)
        <3>1. copies' \in [Entries -> Nat]
            BY <2>9, StepFacts DEF DeleteSnat, Delete
        <3> QED
            BY <2>9, <3>1 DEF DeleteSnat
    <2>10. CASE Unlist(p)
        BY <2>10 DEF Unlist
    <2>11. CASE Tidy(p)
        BY <2>11 DEF Tidy
    <2> QED
        BY <1>1, <2>1, <2>2, <2>3, <2>4, <2>5, <2>6, <2>7, <2>8, <2>9, <2>10, <2>11 DEF Step
<1>2. ASSUME NEW skip \in {0, 1}, Reboot(skip) PROVE TypeOK'
    <2>1. \A e : Cardinality(Listing(e)) \in Nat
        BY FS_Subset, FS_CardinalityType DEF Listing, Lines
    <2>2. copies' \in [Entries -> Nat]
        BY <1>2, <2>1 DEF Reboot
    <2> QED
        BY <1>2, <2>2 DEF Reboot
<1>3. CASE UNCHANGED vars
    BY <1>3 DEF vars
<1> QED
    BY <1>1, <1>2, <1>3 DEF Next

(* No command runs without a rule to run it for.                           *)
THEOREM ForwardTypes == Spec => []TypeOK
BY TypeInit, TypeNext, PTL DEF Spec

-----------------------------------------------------------------------------
(* The chain.  ChainInStep says nothing after a boot that passed the file  *)
(* over, so that a missing file has no lines is kept on its own.           *)

NoFileNoLines == present = 0 => Lines = {}

ChainInv == NoFileNoLines /\ ChainInStep

LEMMA ChainNext == TypeOK /\ ChainInv /\ [Next]_vars => ChainInv'
<1> SUFFICES ASSUME TypeOK, ChainInv, [Next]_vars PROVE ChainInv'
    OBVIOUS
<1> USE DEF ChainInv, NoFileNoLines, ChainInStep, Lines, disk, kernel, args, ghosts
<1>1. ASSUME NEW p \in Procs, Step(p) PROVE ChainInv'
    <2>1. CASE SetLine(p)
        BY <2>1 DEF SetLine, WriteLine, TypeOK
    <2>2. CASE Unlist(p)
        BY <2>2 DEF Unlist, TypeOK
    <2>3. CASE Tidy(p)
        BY <2>3 DEF Tidy, TypeOK
    <2>4. CASE AppendDnat(p) \/ AppendSnat(p) \/ DeleteDnat(p) \/ DeleteSnat(p) \/ Check(p) \/ Look(p)
        BY <2>4 DEF AppendDnat, AppendSnat, DeleteDnat, DeleteSnat, Check, Look
    <2>5. ASSUME UNCHANGED <<disk, kernel, skipped>> PROVE ChainInv'
        BY <2>5
    <2>6. ASSUME NEW n, NEW r, NEW there, Call(p, there, n, r) PROVE ChainInv'
        BY <2>6, <2>5 DEF Call
    <2> QED
        BY <1>1, <2>1, <2>2, <2>3, <2>4, <2>6 DEF Step, remove_pforward, create_pforward, set_pforward
<1>2. ASSUME NEW skip \in {0, 1}, Reboot(skip) PROVE ChainInv'
    BY <1>2 DEF Reboot, TypeOK
<1>3. CASE UNCHANGED vars
    BY <1>3 DEF vars
<1> QED
    BY <1>1, <1>2, <1>3 DEF Next

(* However calls overlap, the chain exists and is jumped to once as long   *)
(* as the file of its rules exists.                                        *)
THEOREM ForwardChain == Spec => []ChainInStep
<1>1. Init => ChainInv
    BY DEF Init, ChainInv, NoFileNoLines, ChainInStep, Lines
<1>2. ChainInv => ChainInStep
    BY DEF ChainInv
<1> QED
    BY <1>1, <1>2, TypeInit, TypeNext, ChainNext, PTL DEF Spec

-----------------------------------------------------------------------------
(* Counting.  A step changes each of the sets that are counted at one      *)
(* place, its process or the name the process works on.                    *)

One(b) == IF b THEN 1 ELSE 0

LEMMA CountOne ==
    ASSUME NEW S, IsFiniteSet(S), NEW T, NEW x, T \ {x} = S \ {x}
    PROVE  /\ IsFiniteSet(T) /\ Cardinality(S) \in Nat /\ Cardinality(T) \in Nat
           /\ Cardinality(T) + One(x \in S) = Cardinality(S) + One(x \in T)
<1>1. IsFiniteSet(S \ {x}) /\ Cardinality(S \ {x}) = IF x \in S THEN Cardinality(S) - 1 ELSE Cardinality(S)
    BY FS_RemoveElement
<1>2. T = IF x \in T THEN (S \ {x}) \cup {x} ELSE S \ {x}
    OBVIOUS
<1>3. /\ IsFiniteSet((S \ {x}) \cup {x})
      /\ Cardinality((S \ {x}) \cup {x}) = Cardinality(S \ {x}) + 1
    BY <1>1, FS_AddElement
<1>4. IsFiniteSet(T) /\ Cardinality(T) = Cardinality(S \ {x}) + One(x \in T)
    <2>1. Cardinality(S \ {x}) \in Nat
        BY <1>1, FS_CardinalityType
    <2>2. CASE x \in T
        BY <1>2, <1>3, <2>2 DEF One
    <2>3. CASE x \notin T
        <3>1. T = S \ {x}
            BY <1>2, <2>3
        <3>2. Cardinality(T) = Cardinality(S \ {x}) /\ IsFiniteSet(T)
            BY <1>1, <3>1
        <3>3. One(x \in T) = 0
            BY <2>3 DEF One
        <3> QED
            BY <2>1, <3>2, <3>3
    <2> QED
        BY <2>2, <2>3
<1>5. Cardinality(S) \in Nat /\ Cardinality(T) \in Nat
    BY <1>4, FS_CardinalityType
<1> QED
    BY <1>1, <1>4, <1>5 DEF One

(* The processes that are about to append entry e, and to delete it; the   *)
(* lines with e that no removal has looked up.                             *)
Appenders(e) == {p \in Procs : Appends(p, e)}
Deleters(e)  == {p \in Procs : Deletes(p, e)}
Safe(e)      == {n \in Listing(e) : ~\E q \in Procs : Removing(q, n, file[n])}

LEMMA FiniteCounts ==
    \A e : IsFiniteSet(Appenders(e)) /\ IsFiniteSet(Deleters(e)) /\ IsFiniteSet(Safe(e)) /\ IsFiniteSet(Listing(e))
BY FS_Subset DEF Appenders, Deleters, Safe, Listing, Lines

(* The other processes stay where they are.                                *)
OthersStay(p) == \A q \in Procs \ {p} : pc'[q] = pc[q] /\ name'[q] = name[q] /\ rule'[q] = rule[q]

LEMMA StepOthers ==
    ASSUME TypeOK, NEW p \in Procs, Step(p) PROVE OthersStay(p)
<1> USE DEF OthersStay, TypeOK, At, Return, args
<1>1. ASSUME NEW there, NEW n, NEW r, Call(p, there, n, r) PROVE OthersStay(p)
    BY <1>1 DEF Call
<1>2. CASE Check(p) \/ Look(p) \/ Tidy(p) \/ AppendSnat(p)
    BY <1>2 DEF Check, Look, Tidy, AppendSnat
<1>3. CASE SetLine(p) \/ AppendDnat(p) \/ DeleteDnat(p) \/ DeleteSnat(p) \/ Unlist(p)
    BY <1>3 DEF SetLine, WriteLine, AppendDnat, DeleteDnat, DeleteSnat, Unlist
<1> QED
    BY <1>1, <1>2, <1>3 DEF Step, remove_pforward, create_pforward, set_pforward

LEMMA ProcCounts ==
    ASSUME NEW p \in Procs, OthersStay(p), NEW e
    PROVE  /\ Cardinality(Appenders(e)) \in Nat /\ Cardinality(Appenders(e)') \in Nat
           /\ Cardinality(Deleters(e)) \in Nat /\ Cardinality(Deleters(e)') \in Nat
           /\ Cardinality(Appenders(e)') + One(Appends(p, e)) = Cardinality(Appenders(e)) + One(Appends(p, e)')
           /\ Cardinality(Deleters(e)') + One(Deletes(p, e)) = Cardinality(Deleters(e)) + One(Deletes(p, e)')
<1>1. /\ Appenders(e)' \ {p} = Appenders(e) \ {p}
      /\ Deleters(e)' \ {p} = Deleters(e) \ {p}
    BY DEF Appenders, Deleters, Appends, Deletes, OthersStay
<1>2. /\ p \in Appenders(e) <=> Appends(p, e)
      /\ p \in Appenders(e)' <=> Appends(p, e)'
      /\ p \in Deleters(e) <=> Deletes(p, e)
      /\ p \in Deleters(e)' <=> Deletes(p, e)'
    BY DEF Appenders, Deleters
<1>3. /\ Cardinality(Appenders(e)) \in Nat /\ Cardinality(Appenders(e)') \in Nat
      /\ Cardinality(Appenders(e)') + One(p \in Appenders(e)) = Cardinality(Appenders(e)) + One(p \in Appenders(e)')
    BY <1>1, FiniteCounts, CountOne
<1>4. /\ Cardinality(Deleters(e)) \in Nat /\ Cardinality(Deleters(e)') \in Nat
      /\ Cardinality(Deleters(e)') + One(p \in Deleters(e)) = Cardinality(Deleters(e)) + One(p \in Deleters(e)')
    BY <1>1, FiniteCounts, CountOne
<1> QED
    BY <1>2, <1>3, <1>4 DEF One

(* Only the line of name m changes, and the process works on no other.     *)
LEMMA LineCounts ==
    ASSUME NEW p \in Procs, OthersStay(p), NEW m, NEW e,
           \A n \in Names \ {m} : file'[n] = file[n],
           \A n \in Names \ {m} : \A r : Removing(p, n, r)' <=> Removing(p, n, r)
    PROVE  /\ Cardinality(Listing(e)) \in Nat /\ Cardinality(Listing(e)') \in Nat
           /\ Cardinality(Safe(e)) \in Nat /\ Cardinality(Safe(e)') \in Nat
           /\ Cardinality(Listing(e)') + One(m \in Listing(e)) = Cardinality(Listing(e)) + One(m \in Listing(e)')
           /\ Cardinality(Safe(e)') + One(m \in Safe(e)) = Cardinality(Safe(e)) + One(m \in Safe(e)')
<1>1. Listing(e)' \ {m} = Listing(e) \ {m}
    BY DEF Listing, Lines
<1>2. \A n \in Names \ {m} : \A q \in Procs : Removing(q, n, file[n])' <=> Removing(q, n, file[n])
    BY DEF Removing, OthersStay
<1>3. Safe(e)' \ {m} = Safe(e) \ {m}
    BY <1>1, <1>2 DEF Safe, Listing, Lines
<1> QED
    BY <1>1, <1>3, FiniteCounts, CountOne

-----------------------------------------------------------------------------
(* What is listed is in effect.  FileInEffect asks for one copy of an      *)
(* entry that is listed any number of times and deleted by any number of   *)
(* removals; what keeps it true is a balance: the copies there are and     *)
(* those to come suffice for the deletions to come and for every line that *)
(* no removal has looked up.                                               *)

Balance(e) == Cardinality(Appenders(e)) + copies[e] >= Cardinality(Deleters(e)) + Cardinality(Safe(e))

BalanceInv == skipped = 0 => \A e \in Entries \ spoilt : Balance(e)

LEMMA BalanceNext == TypeOK /\ ChainInv /\ BalanceInv /\ [Next]_vars => BalanceInv'
<1> SUFFICES ASSUME TypeOK, ChainInv, BalanceInv, [Next]_vars, skipped' = 0, NEW e \in Entries \ spoilt'
             PROVE  Balance(e)'
    BY DEF BalanceInv
<1> USE DEF disk, kernel, args, ghosts
<1>1. ASSUME NEW p \in Procs, Step(p) PROVE Balance(e)'
    <2>0. OthersStay(p)
        BY <1>1, StepOthers
    <2>00. /\ Cardinality(Appenders(e)) \in Nat /\ Cardinality(Appenders(e)') \in Nat
           /\ Cardinality(Deleters(e)) \in Nat /\ Cardinality(Deleters(e)') \in Nat
           /\ Cardinality(Safe(e)) \in Nat
           /\ Cardinality(Appenders(e)') + (IF Appends(p, e) THEN 1 ELSE 0)
                = Cardinality(Appenders(e)) + (IF Appends(p, e)' THEN 1 ELSE 0)
           /\ Cardinality(Deleters(e)') + (IF Deletes(p, e) THEN 1 ELSE 0)
                = Cardinality(Deleters(e)) + (IF Deletes(p, e)' THEN 1 ELSE 0)
        BY <2>0, ProcCounts, FiniteCounts, FS_CardinalityType DEF One
    <2> DEFINE m == name[p]
    <2>1. ASSUME skipped' = skipped, spoilt \subseteq spoilt' PROVE Balance(e)
        BY <2>1 DEF BalanceInv
    <2>2. ASSUME \A n \in Names \ {m} : file'[n] = file[n], name'[p] = m
          PROVE  /\ Cardinality(Safe(e)) \in Nat /\ Cardinality(Safe(e)') \in Nat
                 /\ Cardinality(Safe(e)') + (IF m \in Safe(e) THEN 1 ELSE 0)
                      = Cardinality(Safe(e)) + (IF m \in Safe(e)' THEN 1 ELSE 0)
        <3>1. \A n \in Names \ {m} : \A r : Removing(p, n, r)' <=> Removing(p, n, r)
            BY <2>2 DEF Removing
        <3> HIDE DEF m
        <3> QED
            BY <2>0, <2>2, <3>1, LineCounts DEF One
    <2>3. copies[e] \in Nat /\ copies'[e] \in Nat
        BY TypeNext DEF TypeOK
    <2>4. ASSUME copies' = copies, file' = file, skipped' = skipped, spoilt' = spoilt,
                 \A q \in Procs : /\ Appends(q, e)' <=> Appends(q, e)
                                  /\ Deletes(q, e)' <=> Deletes(q, e)
                                  /\ \A n, r : Removing(q, n, r)' <=> Removing(q, n, r)
          PROVE  Balance(e)'
        <3>1. Appenders(e)' = Appenders(e) /\ Deleters(e)' = Deleters(e) /\ Safe(e)' = Safe(e)
            BY <2>4 DEF Appenders, Deleters, Safe, Listing, Lines
        <3> QED
            BY <2>1, <2>4, <3>1 DEF Balance
    <2> HIDE DEF m
    <2>5. CASE \E n, r : remove_pforward(p, n) \/ create_pforward(p, n, r) \/ set_pforward(p, n, r)
        <3>1. PICK there, n, r : there \in {"look", "check", "set"} /\ Call(p, there, n, r)
            BY <2>5 DEF remove_pforward, create_pforward, set_pforward
        <3> QED
            BY <2>0, <2>4, <3>1 DEF Call, At, Appends, Deletes, Removing, OthersStay, TypeOK
    <2>6. CASE Check(p) \/ Tidy(p)
        BY <2>0, <2>4, <2>6 DEF Check, Tidy, Return, At, Appends, Deletes, Removing, OthersStay, TypeOK
    <2>7. CASE SetLine(p)
        <3>1. /\ pc[p] = "set" /\ pc'[p] = "dnat" /\ name' = name /\ rule' = rule /\ copies' = copies
              /\ skipped' = skipped /\ spoilt' = spoilt /\ file' = [file EXCEPT ![m] = rule[p]]
              /\ m \in Names
            BY <2>7 DEF SetLine, WriteLine, At, TypeOK, m
        <3>2. file'[m] = rule[p] /\ \A n \in Names \ {m} : file'[n] = file[n]
            BY <3>1 DEF TypeOK
        <3>3. m \in Safe(e)' => Appends(p, e)'
            BY <3>1, <3>2 DEF Safe, Listing, Appends
        <3>4. ~Appends(p, e) /\ ~Deletes(p, e) /\ ~Deletes(p, e)'
            BY <3>1 DEF Appends, Deletes
        <3>5. name'[p] = m
            BY <3>1 DEF m
        <3>6. Balance(e)
            BY <2>1, <3>1
        <3>7. /\ Cardinality(Safe(e)') \in Nat
             /\ Cardinality(Safe(e)') + (IF m \in Safe(e) THEN 1 ELSE 0)
                  = Cardinality(Safe(e)) + (IF m \in Safe(e)' THEN 1 ELSE 0)
            BY <2>2, <3>2, <3>5
        <3> QED
            BY <2>00, <2>3, <3>1, <3>3, <3>4, <3>6, <3>7 DEF Balance
    <2>8. CASE AppendDnat(p)
        <3>1. /\ pc[p] = "dnat" /\ pc'[p] = "snat" /\ name' = name /\ rule' = rule /\ file' = file
              /\ skipped' = skipped /\ spoilt \subseteq spoilt'
              /\ rule[p] \in Rules /\ Server[rule[p]] \in Servers /\ rule[p] # Server[rule[p]]
              /\ m \in Names
            BY <2>8, StepFacts DEF AppendDnat, At, TypeOK, m
        <3>2. ~Deletes(p, e) /\ ~Deletes(p, e)'
            BY <3>1 DEF Deletes
        <3>3. Safe(e)' = Safe(e)
            BY <2>0, <3>1 DEF Safe, Listing, Lines, Removing, OthersStay
        <3>4. /\ Appends(p, e) <=> e \in {rule[p], Server[rule[p]]}
              /\ Appends(p, e)' <=> e = Server[rule[p]]
            BY <3>1 DEF Appends, EntriesOf
        <3>5. CASE chain = 1
            <4>1. copies'[e] = IF e = rule[p] THEN copies[e] + 1 ELSE copies[e]
                BY <2>8, <3>5 DEF AppendDnat, Append, TypeOK
            <4> QED
                BY <2>00, <2>1, <2>3, <3>1, <3>2, <3>3, <3>4, <4>1 DEF Balance
        <3>6. CASE chain = 0
            <4>1. copies' = copies /\ (Wanted(rule[p]) => rule[p] \in spoilt')
                BY <2>8, <3>6 DEF AppendDnat
            <4>2. CASE e # rule[p]
                BY <2>00, <2>1, <2>3, <3>1, <3>2, <3>3, <3>4, <4>1, <4>2 DEF Balance
            <4>3. CASE e = rule[p]
                <5>1. Lines = {}
                    BY <3>1, <3>6 DEF ChainInv, ChainInStep, TypeOK
                <5>2. Safe(e)' = {}
                    BY <3>3, <5>1 DEF Safe, Listing
                <5>3. \A q \in Procs : ~Deletes(q, e)
                    BY <3>1, <4>1, <4>3, StepFacts DEF Wanted, Deletes, EntriesOf
                <5>4. Deleters(e)' = {}
                    BY <2>0, <3>2, <5>3 DEF Deleters, Deletes, OthersStay
                <5> QED
                    BY <2>00, <2>3, <5>2, <5>4, FS_EmptySet DEF Balance
            <4> QED
                BY <4>2, <4>3
        <3> QED
            BY <3>5, <3>6 DEF TypeOK
    <2>9. CASE AppendSnat(p)
        <3>1. /\ pc[p] = "snat" /\ pc'[p] = "idle" /\ file' = file
              /\ skipped' = skipped /\ spoilt' = spoilt
              /\ Server[rule[p]] \in Entries
            BY <2>9, StepFacts DEF AppendSnat, Return, At, TypeOK
        <3>2. ~Deletes(p, e) /\ ~Deletes(p, e)' /\ ~Appends(p, e)' /\ (Appends(p, e) <=> e = Server[rule[p]])
            BY <3>1 DEF Deletes, Appends
        <3>3. Safe(e)' = Safe(e)
            BY <2>0, <3>1 DEF Safe, Listing, Lines, Removing, OthersStay
        <3>4. copies'[e] = IF e = Server[rule[p]] THEN copies[e] + 1 ELSE copies[e]
            BY <2>9, <3>1 DEF AppendSnat, Append, TypeOK
        <3> QED
            BY <2>00, <2>1, <2>3, <3>1, <3>2, <3>3, <3>4 DEF Balance
    <2>10. CASE Look(p)
        <3>1. /\ pc[p] = "look" /\ copies' = copies /\ file' = file
              /\ skipped' = skipped /\ spoilt \subseteq spoilt' /\ m \in Names
            BY <2>10 DEF Look, TypeOK, m
        <3>2. CASE file[m] = None
            BY <2>0, <2>4, <2>10, <3>2 DEF Look, Return, At, Appends, Deletes, Removing, OthersStay, TypeOK, m
        <3>3. CASE file[m] # None
            <4>1. /\ pc'[p] = "undnat" /\ rule'[p] = file[m] /\ name'[p] = m
                  /\ (\E q \in Procs : Removing(q, m, file[m])) => EntriesOf(file[m]) \subseteq spoilt'
                BY <2>10, <3>3 DEF Look, At, TypeOK, m
            <4>2. ~Deletes(p, e) /\ ~Appends(p, e) /\ ~Appends(p, e)' /\ (Deletes(p, e)' <=> e \in EntriesOf(file[m]))
                BY <3>1, <4>1 DEF Deletes, Appends, EntriesOf
            <4>3. m \notin Safe(e)'
                BY <3>1, <4>1 DEF Safe, Removing
            <4>4. m \in Safe(e) <=> e \in EntriesOf(file[m])
                BY <3>1, <3>3, <4>1 DEF Safe, Listing, Lines
            <4>5. Balance(e)
                BY <2>1, <3>1
            <4>6. /\ Cardinality(Safe(e)') \in Nat
                 /\ Cardinality(Safe(e)') + (IF m \in Safe(e) THEN 1 ELSE 0)
                      = Cardinality(Safe(e)) + (IF m \in Safe(e)' THEN 1 ELSE 0)
                BY <2>2, <3>1, <4>1
            <4> QED
                BY <2>00, <2>3, <3>1, <4>2, <4>3, <4>4, <4>5, <4>6 DEF Balance
        <3> QED
            BY <3>2, <3>3
    <2>11. CASE DeleteDnat(p) \/ DeleteSnat(p)
        <3>1. PICK x \in Entries : /\ Delete(x) /\ (Deletes(p, e) <=> Deletes(p, e)' \/ e = x)
                                   /\ ~(Deletes(p, e)' /\ e = x)
            <4>1. CASE DeleteDnat(p)
                <5>1. pc[p] = "undnat" /\ pc'[p] = "unsnat" /\ rule' = rule /\ Delete(rule[p]) /\ rule[p] \in Entries /\ rule[p] # Server[rule[p]]
                    BY <4>1, StepFacts DEF DeleteDnat, At, TypeOK
                <5> QED
                    BY <5>1 DEF Deletes, EntriesOf
            <4>2. CASE DeleteSnat(p)
                <5>1. pc[p] = "unsnat" /\ pc'[p] = "unlist" /\ rule' = rule /\ Delete(Server[rule[p]]) /\ Server[rule[p]] \in Entries
                    BY <4>2, StepFacts DEF DeleteSnat, At, TypeOK
                <5> QED
                    BY <5>1 DEF Deletes, EntriesOf
            <4> QED
                BY <2>11, <4>1, <4>2
        <3>2. /\ pc[p] \in {"undnat", "unsnat"} /\ pc'[p] \in {"unsnat", "unlist"} /\ name' = name /\ rule' = rule
              /\ file' = file /\ skipped' = skipped /\ spoilt' = spoilt
            BY <2>11 DEF DeleteDnat, DeleteSnat, At, TypeOK
        <3>3. ~Appends(p, e) /\ ~Appends(p, e)'
            BY <3>2 DEF Appends
        <3>4. Safe(e)' = Safe(e)
            BY <2>0, <3>2 DEF Safe, Listing, Lines, Removing, OthersStay
        <3>5. IF e = x /\ copies[e] > 0 THEN copies'[e] = copies[e] - 1 ELSE copies'[e] = copies[e]
            BY <2>3, <3>1 DEF Delete, TypeOK
        <3> QED
            BY <2>00, <2>1, <2>3, <3>1, <3>2, <3>3, <3>4, <3>5 DEF Balance
    <2>12. CASE Unlist(p)
        <3>1. /\ pc[p] = "unlist" /\ pc'[p] = "tidy" /\ name'[p] = m /\ copies' = copies
              /\ skipped' = skipped /\ spoilt' = spoilt /\ m \in Names
              /\ file'[m] = None /\ \A n \in Names \ {m} : file'[n] = file[n]
            BY <2>12 DEF Unlist, At, TypeOK, m
        <3>2. \A n \in Names \ {m} : \A r : Removing(p, n, r)' <=> Removing(p, n, r)
            BY <3>1 DEF Removing, m
        <3>3. m \notin Safe(e)'
            BY <3>1 DEF Safe, Listing, Lines
        <3>4. ~Appends(p, e) /\ ~Appends(p, e)' /\ ~Deletes(p, e) /\ ~Deletes(p, e)'
            BY <3>1 DEF Appends, Deletes
        <3>5. Balance(e)
            BY <2>1, <3>1
        <3>6. /\ Cardinality(Safe(e)') \in Nat
             /\ Cardinality(Safe(e)') + (IF m \in Safe(e) THEN 1 ELSE 0)
                  = Cardinality(Safe(e)) + (IF m \in Safe(e)' THEN 1 ELSE 0)
            BY <2>2, <3>1
        <3> QED
            BY <2>00, <2>3, <3>1, <3>3, <3>4, <3>5, <3>6 DEF Balance
    <2> QED
        BY <1>1, <2>5, <2>6, <2>7, <2>8, <2>9, <2>10, <2>11, <2>12 DEF Step
<1>2. ASSUME NEW skip \in {0, 1}, Reboot(skip) PROVE Balance(e)'
    <2>1. skip = 0 /\ file' = file
        BY <1>2 DEF Reboot
    <2>2. Appenders(e)' = {} /\ Deleters(e)' = {}
        BY <1>2 DEF Reboot, Appenders, Deleters, Appends, Deletes
    <2>3. Safe(e)' \subseteq Listing(e) /\ IsFiniteSet(Listing(e))
        BY <2>1, FiniteCounts DEF Safe, Listing, Lines
    <2>4. Cardinality(Safe(e)') \in Nat /\ Cardinality(Listing(e)) \in Nat /\ Cardinality(Safe(e)') <= Cardinality(Listing(e))
        BY <2>3, FS_Subset, FS_CardinalityType
    <2>5. CASE present = 1
        <3>1. copies'[e] = Cardinality(Listing(e))
            BY <1>2, <2>1, <2>5 DEF Reboot
        <3> QED
            BY <2>2, <2>4, <3>1, FS_EmptySet DEF Balance
    <2>6. CASE present = 0
        <3>1. Listing(e) = {} /\ copies'[e] = 0
            BY <1>2, <2>6 DEF Reboot, ChainInv, NoFileNoLines, Listing
        <3> QED
            BY <2>2, <2>3, <3>1, FS_EmptySet DEF Balance
    <2> QED
        BY <2>5, <2>6 DEF TypeOK
<1>3. CASE UNCHANGED vars
    <2>1. Appenders(e)' = Appenders(e) /\ Deleters(e)' = Deleters(e) /\ Safe(e)' = Safe(e)
        BY <1>3 DEF vars, Appenders, Deleters, Safe, Listing, Lines, Appends, Deletes, Removing
    <2> QED
        BY <1>3, <2>1 DEF vars, Balance, BalanceInv
<1> QED
    BY <1>1, <1>2, <1>3 DEF Next

LEMMA BalanceEffect == TypeOK /\ BalanceInv => FileInEffect
<1> SUFFICES ASSUME TypeOK, BalanceInv, skipped = 0, NEW n \in Lines, NEW e \in EntriesOf(file[n]) \ spoilt,
                    copies[e] = 0, \A p \in Procs : ~Appends(p, e)
             PROVE  \E p \in Procs : Removing(p, n, file[n]) /\ ~Deletes(p, e)
    BY DEF FileInEffect, TypeOK, EntriesOf, Entries, Lines
<1>1. e \in Entries /\ n \in Listing(e)
    BY DEF EntriesOf, Entries, Listing, Lines, TypeOK
<1>2. Appenders(e) = {}
    BY DEF Appenders
<1>3. Cardinality(Deleters(e)) \in Nat /\ Cardinality(Safe(e)) \in Nat
    BY FiniteCounts, FS_CardinalityType
<1>4. Cardinality(Deleters(e)) = 0 /\ Cardinality(Safe(e)) = 0
    <2>1. Cardinality(Appenders(e)) = 0
        BY <1>2, FS_EmptySet
    <2>2. Balance(e)
        BY <1>1 DEF BalanceInv
    <2> QED
        BY <1>3, <2>1, <2>2 DEF Balance
<1>5. Deleters(e) = {} /\ Safe(e) = {}
    BY <1>4, FiniteCounts, FS_EmptySet
<1>6. PICK p \in Procs : Removing(p, n, file[n])
    BY <1>1, <1>5 DEF Safe
<1>7. ~Deletes(p, e)
    BY <1>5 DEF Deleters
<1> QED
    BY <1>6, <1>7

(* However calls overlap, and whatever entries their rules share, both     *)
(* entries of a listed rule are in the NAT table, about to be appended, or *)
(* deleted by a removal of that line; excepted are the entries that        *)
(* two removals of one name, or a chain removed under an addition,   *)
(* have spoilt.                                                            *)
THEOREM ForwardEffect == Spec => []FileInEffect
<1>1. Init => ChainInv /\ BalanceInv
    <2>1. ASSUME Init PROVE \A e : Appenders(e) = {} /\ Deleters(e) = {} /\ Safe(e) = {}
        BY <2>1 DEF Init, Appenders, Deleters, Safe, Listing, Lines, Appends, Deletes
    <2> QED
        BY <2>1, FS_EmptySet DEF Init, ChainInv, NoFileNoLines, ChainInStep, Lines, BalanceInv, Balance
<1> QED
    BY <1>1, TypeInit, TypeNext, ChainNext, BalanceNext, BalanceEffect, PTL DEF Spec

-----------------------------------------------------------------------------
(* Calls that do not overlap.  As long as none did, one process is in a    *)
(* call, the line it works on is its rule's, and the table is exact once   *)
(* the commands the process has yet to run, and those it ran ahead of the  *)
(* change of the file, are taken into account.                             *)

(* A removal has deleted entry e and not yet the line.                     *)
Ahead(p, e) == pc[p] \in {"undnat", "unsnat", "unlist"} /\ e \in EntriesOf(rule[p]) /\ ~Deletes(p, e)

Gone(e) == {p \in Procs : Ahead(p, e)}

Alone == \A p, q \in Procs : pc[p] # "idle" /\ pc[q] # "idle" => p = q

Knows == \A p \in Procs :
    pc[p] \in {"dnat", "snat", "undnat", "unsnat", "unlist"} => file[name[p]] = rule[p]

Exact(e) == copies[e] + Cardinality(Appenders(e)) + Cardinality(Gone(e))
                = Cardinality(Listing(e)) + replaced[e]

ExactInv == raced = 0 => /\ Alone /\ Knows
                         /\ skipped = 0 => \A e \in Entries : Exact(e)

LEMMA GoneCounts ==
    ASSUME NEW p \in Procs, OthersStay(p), NEW e
    PROVE  /\ Cardinality(Gone(e)) \in Nat /\ Cardinality(Gone(e)') \in Nat
           /\ Cardinality(Gone(e)') + One(Ahead(p, e)) = Cardinality(Gone(e)) + One(Ahead(p, e)')
<1>1. Gone(e)' \ {p} = Gone(e) \ {p}
    BY DEF Gone, Ahead, Deletes, OthersStay
<1>2. (p \in Gone(e) <=> Ahead(p, e)) /\ (p \in Gone(e)' <=> Ahead(p, e)')
    BY DEF Gone
<1>3. IsFiniteSet(Gone(e))
    BY FS_Subset DEF Gone
<1>4. /\ Cardinality(Gone(e)) \in Nat /\ Cardinality(Gone(e)') \in Nat
      /\ Cardinality(Gone(e)') + One(p \in Gone(e)) = Cardinality(Gone(e)) + One(p \in Gone(e)')
    BY <1>1, <1>3, CountOne
<1> QED
    BY <1>2, <1>4 DEF One

(* Who is alone, and on which line.                                        *)
LEMMA AloneNext ==
    ASSUME TypeOK, raced = 0, Alone, Knows, NEW p \in Procs, Step(p), raced' = 0
    PROVE  Alone' /\ Knows'
<1> USE DEF At, Return, disk, kernel, args, ghosts
<1>0. OthersStay(p)
    BY StepOthers
<1>1. \A q \in Procs \ {p} : pc[q] = "idle"
    <2>1. CASE \E there, n, r : Call(p, there, n, r)
        BY <2>1 DEF Call
    <2>2. CASE pc[p] # "idle"
        BY <2>2 DEF Alone
    <2> QED
        BY <2>1, <2>2 DEF Step, remove_pforward, create_pforward, set_pforward, Check, SetLine, AppendDnat,
                          AppendSnat, Look, DeleteDnat, DeleteSnat, Unlist, Tidy
<1>2. Alone'
    BY <1>0, <1>1 DEF Alone, OthersStay
<1>3. \A q \in Procs \ {p} : pc'[q] = "idle"
    BY <1>0, <1>1 DEF OthersStay
<1>4. pc'[p] \in {"dnat", "snat", "undnat", "unsnat", "unlist"} => file'[name'[p]] = rule'[p]
    <2>1. ASSUME NEW there \in {"look", "check", "set"}, NEW n, NEW r, Call(p, there, n, r)
          PROVE  pc'[p] \notin {"dnat", "snat", "undnat", "unsnat", "unlist"}
        BY <2>1 DEF Call, TypeOK
    <2>2. CASE Check(p) \/ AppendSnat(p) \/ Unlist(p) \/ Tidy(p)
        BY <2>2 DEF Check, AppendSnat, Unlist, Tidy, TypeOK
    <2>3. CASE SetLine(p)
        BY <2>3 DEF SetLine, WriteLine, TypeOK
    <2>4. CASE AppendDnat(p) \/ DeleteDnat(p) \/ DeleteSnat(p)
        BY <2>4 DEF AppendDnat, DeleteDnat, DeleteSnat, Knows, TypeOK
    <2>5. CASE Look(p)
        BY <2>5 DEF Look, TypeOK
    <2> QED
        BY <2>1, <2>2, <2>3, <2>4, <2>5 DEF Step, remove_pforward, create_pforward, set_pforward
<1> QED
    BY <1>2, <1>3, <1>4 DEF Knows

LEMMA ExactNext ==
    ASSUME TypeOK, ChainInv, skipped = 0, raced = 0, Alone, Knows, NEW e \in Entries, Exact(e),
           NEW p \in Procs, Step(p), raced' = 0
    PROVE  Exact(e)'
<1> DEFINE m == name[p]
<1> USE DEF disk, kernel, args, ghosts
<1>0. OthersStay(p)
    BY StepOthers
<1>1. /\ Cardinality(Appenders(e)) \in Nat /\ Cardinality(Appenders(e)') \in Nat
      /\ Cardinality(Gone(e)) \in Nat /\ Cardinality(Gone(e)') \in Nat
      /\ Cardinality(Appenders(e)') + (IF Appends(p, e) THEN 1 ELSE 0)
           = Cardinality(Appenders(e)) + (IF Appends(p, e)' THEN 1 ELSE 0)
      /\ Cardinality(Gone(e)') + (IF Ahead(p, e) THEN 1 ELSE 0)
           = Cardinality(Gone(e)) + (IF Ahead(p, e)' THEN 1 ELSE 0)
    BY <1>0, ProcCounts, GoneCounts DEF One
<1>2. ASSUME \A n \in Names \ {m} : file'[n] = file[n]
      PROVE  /\ Cardinality(Listing(e)') \in Nat
             /\ Cardinality(Listing(e)') + (IF m \in Listing(e) THEN 1 ELSE 0)
                  = Cardinality(Listing(e)) + (IF m \in Listing(e)' THEN 1 ELSE 0)
    <2> HIDE DEF m
    <2>1. Listing(e)' \ {m} = Listing(e) \ {m}
        BY <1>2 DEF Listing, Lines
    <2> QED
        BY <2>1, FiniteCounts, CountOne DEF One
<1>3. Cardinality(Listing(e)) \in Nat
    BY FiniteCounts, FS_CardinalityType
<1>4. copies[e] \in Nat /\ copies'[e] \in Nat /\ replaced[e] \in Nat /\ replaced'[e] \in Nat
    <2>1. TypeOK'
        BY TypeNext DEF Next
    <2> QED
        BY <2>1 DEF TypeOK
<1>5. ASSUME file' = file PROVE Listing(e)' = Listing(e)
    BY <1>5 DEF Listing, Lines
<1>6. ASSUME copies'[e] = copies[e], replaced' = replaced, file' = file,
             Appends(p, e)' <=> Appends(p, e), Ahead(p, e)' <=> Ahead(p, e)
      PROVE  Exact(e)'
    <2>1. /\ Cardinality(Appenders(e)') = Cardinality(Appenders(e))
          /\ Cardinality(Gone(e)') = Cardinality(Gone(e))
        BY <1>1, <1>6
    <2>2. Listing(e)' = Listing(e)
        BY <1>5, <1>6
    <2> QED
        BY <1>6, <2>1, <2>2 DEF Exact
<1> HIDE DEF m
<1>7. CASE \E n, r : remove_pforward(p, n) \/ create_pforward(p, n, r) \/ set_pforward(p, n, r)
    <2>1. PICK there, n, r : there \in {"look", "check", "set"} /\ Call(p, there, n, r)
        BY <1>7 DEF remove_pforward, create_pforward, set_pforward
    <2>2. pc[p] = "idle" /\ pc'[p] = there /\ copies' = copies /\ file' = file /\ replaced' = replaced
        BY <2>1 DEF Call, At, TypeOK
    <2> QED
        BY <1>6, <2>1, <2>2 DEF Appends, Ahead
<1>8. CASE Check(p) \/ Tidy(p)
    <2>1. /\ pc[p] \in {"check", "tidy"} /\ pc'[p] \in {"idle", "set"}
          /\ copies' = copies /\ file' = file /\ replaced' = replaced
        BY <1>8 DEF Check, Tidy, Return, At, TypeOK
    <2> QED
        BY <1>6, <2>1 DEF Appends, Ahead
<1>9. CASE SetLine(p)
    <2>1. /\ pc[p] = "set" /\ pc'[p] = "dnat" /\ rule' = rule /\ copies' = copies /\ rule[p] \in Rules
          /\ file'[m] = rule[p] /\ m \in Names /\ \A n \in Names \ {m} : file'[n] = file[n]
          /\ replaced'[e] = IF m \in Listing(e) THEN replaced[e] + 1 ELSE replaced[e]
        BY <1>9 DEF SetLine, WriteLine, At, TypeOK, m
    <2>2. m \in Listing(e)' <=> Appends(p, e)'
        BY <2>1 DEF Listing, Lines, Appends, EntriesOf
    <2>3. ~Appends(p, e) /\ ~Ahead(p, e) /\ ~Ahead(p, e)'
        BY <2>1 DEF Appends, Ahead
    <2>4. /\ Cardinality(Listing(e)') \in Nat
          /\ Cardinality(Listing(e)') + (IF m \in Listing(e) THEN 1 ELSE 0)
               = Cardinality(Listing(e)) + (IF m \in Listing(e)' THEN 1 ELSE 0)
        BY <1>2, <2>1
    <2> QED
        BY <1>1, <1>3, <1>4, <2>1, <2>2, <2>3, <2>4 DEF Exact
<1>10. CASE AppendDnat(p) \/ AppendSnat(p)
    <2>1. /\ pc[p] \in {"dnat", "snat"} /\ pc'[p] \in {"snat", "idle"} /\ file' = file /\ replaced' = replaced
          /\ rule[p] \in Rules /\ m \in Names /\ file[m] = rule[p]
        BY <1>10 DEF AppendDnat, AppendSnat, Return, At, TypeOK, Knows, m
    <2>2. chain = 1
        BY <2>1 DEF ChainInv, ChainInStep, Lines, TypeOK
    <2>3. ~Ahead(p, e) /\ ~Ahead(p, e)'
        BY <2>1 DEF Ahead
    <2>4. PICK x \in Entries : Append(x) /\ (Appends(p, e) <=> Appends(p, e)' \/ e = x) /\ ~(Appends(p, e)' /\ e = x)
        <3>1. CASE AppendDnat(p)
            <4>1. /\ pc[p] = "dnat" /\ pc'[p] = "snat" /\ rule' = rule /\ Append(rule[p])
                  /\ rule[p] \in Entries /\ rule[p] # Server[rule[p]]
                BY <2>2, <3>1, StepFacts DEF AppendDnat, At, TypeOK
            <4> QED
                BY <4>1 DEF Appends, EntriesOf
        <3>2. CASE AppendSnat(p)
            <4>1. pc[p] = "snat" /\ pc'[p] = "idle" /\ Append(Server[rule[p]]) /\ Server[rule[p]] \in Entries
                BY <3>2, StepFacts DEF AppendSnat, Return, At, TypeOK
            <4> QED
                BY <4>1 DEF Appends
        <3> QED
            BY <1>10, <3>1, <3>2
    <2>5. copies'[e] = IF e = x THEN copies[e] + 1 ELSE copies[e]
        BY <2>4 DEF Append, TypeOK
    <2> QED
        BY <1>1, <1>3, <1>4, <1>5, <2>1, <2>3, <2>4, <2>5 DEF Exact
<1>11. CASE Look(p)
    <2>1. pc[p] = "look" /\ pc'[p] \in {"idle", "undnat"} /\ copies' = copies /\ file' = file /\ replaced' = replaced
        BY <1>11 DEF Look, Return, At, TypeOK
    <2>2. ~Appends(p, e) /\ ~Appends(p, e)' /\ ~Ahead(p, e) /\ ~Ahead(p, e)'
        BY <2>1 DEF Appends, Ahead, Deletes
    <2> QED
        BY <1>6, <2>1, <2>2
<1>12. CASE DeleteDnat(p) \/ DeleteSnat(p)
    <2>1. /\ pc[p] \in {"undnat", "unsnat"} /\ pc'[p] \in {"unsnat", "unlist"} /\ rule' = rule
          /\ file' = file /\ replaced' = replaced
          /\ rule[p] \in Rules /\ m \in Names /\ file[m] = rule[p]
        BY <1>12 DEF DeleteDnat, DeleteSnat, At, TypeOK, Knows, m
    <2>2. ~Appends(p, e) /\ ~Appends(p, e)'
        BY <2>1 DEF Appends
    <2>3. PICK x \in EntriesOf(rule[p]) : /\ Delete(x) /\ x \in Entries
                                          /\ Ahead(p, e)' <=> Ahead(p, e) \/ e = x
                                          /\ ~(Ahead(p, e) /\ e = x)
        <3>1. CASE DeleteDnat(p)
            <4>1. /\ pc[p] = "undnat" /\ pc'[p] = "unsnat" /\ Delete(rule[p])
                  /\ rule[p] \in Entries /\ rule[p] # Server[rule[p]]
                BY <3>1, StepFacts DEF DeleteDnat, At, TypeOK
            <4> QED
                BY <2>1, <4>1 DEF Ahead, Deletes, EntriesOf
        <3>2. CASE DeleteSnat(p)
            <4>1. /\ pc[p] = "unsnat" /\ pc'[p] = "unlist" /\ Delete(Server[rule[p]])
                  /\ Server[rule[p]] \in Entries /\ rule[p] # Server[rule[p]]
                BY <3>2, StepFacts DEF DeleteSnat, At, TypeOK
            <4> QED
                BY <2>1, <4>1 DEF Ahead, Deletes, EntriesOf
        <3> QED
            BY <1>12, <3>1, <3>2
    <2>4. CASE e = x
        <3>1. m \in Listing(e)
            BY <2>1, <2>3, <2>4 DEF Listing, Lines
        <3>2. Cardinality(Listing(e)) # 0
            BY <3>1, FiniteCounts, FS_EmptySet
        <3>3. Appenders(e) = {} /\ Gone(e) = {}
            <4>1. \A q \in Procs \ {p} : pc[q] = "idle"
                BY <2>1 DEF Alone
            <4> QED
                BY <2>2, <2>3, <2>4, <4>1 DEF Appenders, Gone, Appends, Ahead
        <3>4. Cardinality(Appenders(e)) = 0 /\ Cardinality(Gone(e)) = 0
            BY <3>3, FS_EmptySet
        <3>5. copies[e] > 0
            BY <1>3, <1>4, <3>2, <3>4 DEF Exact
        <3>6. copies'[e] = copies[e] - 1
            BY <1>4, <2>3, <2>4, <3>5 DEF Delete, TypeOK
        <3> QED
            BY <1>1, <1>3, <1>4, <1>5, <2>1, <2>2, <2>3, <2>4, <3>6 DEF Exact
    <2>5. CASE e # x
        <3>1. copies'[e] = copies[e]
            BY <2>3, <2>5 DEF Delete, TypeOK
        <3> QED
            BY <1>6, <2>1, <2>2, <2>3, <2>5, <3>1
    <2> QED
        BY <2>4, <2>5
<1>13. CASE Unlist(p)
    <2>1. /\ pc[p] = "unlist" /\ pc'[p] = "tidy" /\ copies' = copies /\ replaced' = replaced
          /\ rule[p] \in Rules /\ m \in Names /\ file[m] = rule[p]
          /\ file'[m] = None /\ \A n \in Names \ {m} : file'[n] = file[n]
        BY <1>13 DEF Unlist, At, TypeOK, Knows, m
    <2>2. m \notin Listing(e)' /\ (m \in Listing(e) <=> e \in EntriesOf(rule[p]))
        BY <2>1 DEF Listing, Lines
    <2>3. ~Appends(p, e) /\ ~Appends(p, e)' /\ ~Ahead(p, e)' /\ (Ahead(p, e) <=> e \in EntriesOf(rule[p]))
        BY <2>1 DEF Appends, Ahead, Deletes
    <2>4. /\ Cardinality(Listing(e)') \in Nat
          /\ Cardinality(Listing(e)') + (IF m \in Listing(e) THEN 1 ELSE 0)
               = Cardinality(Listing(e)) + (IF m \in Listing(e)' THEN 1 ELSE 0)
        BY <1>2, <2>1
    <2> QED
        BY <1>1, <1>3, <1>4, <2>1, <2>2, <2>3, <2>4 DEF Exact
<1> QED
    BY <1>7, <1>8, <1>9, <1>10, <1>11, <1>12, <1>13 DEF Step

LEMMA ExactInvNext == TypeOK /\ ChainInv /\ ExactInv /\ [Next]_vars => ExactInv'
<1> SUFFICES ASSUME TypeOK, ChainInv, ExactInv, [Next]_vars, raced' = 0
             PROVE  Alone' /\ Knows' /\ (skipped' = 0 => \A e \in Entries : Exact(e)')
    BY DEF ExactInv
<1>1. ASSUME NEW p \in Procs, Step(p)
      PROVE  Alone' /\ Knows' /\ (skipped' = 0 => \A e \in Entries : Exact(e)')
    <2>1. skipped' = skipped /\ (raced = 0 \/ raced' # 0)
        BY <1>1 DEF Step, remove_pforward, create_pforward, set_pforward, Call, Check, SetLine, WriteLine, AppendDnat,
                    AppendSnat, Look, DeleteDnat, DeleteSnat, Unlist, Tidy, ghosts, TypeOK
    <2> QED
        BY <1>1, <2>1, AloneNext, ExactNext DEF ExactInv
<1>2. ASSUME NEW skip \in {0, 1}, Reboot(skip)
      PROVE  Alone' /\ Knows' /\ (skipped' = 0 => \A e \in Entries : Exact(e)')
    <2>1. Alone' /\ Knows'
        BY <1>2 DEF Reboot, Alone, Knows
    <2>2. ASSUME skipped' = 0, NEW e \in Entries PROVE Exact(e)'
        <3>1. skip = 0 /\ file' = file /\ replaced'[e] = 0
            BY <1>2, <2>2 DEF Reboot, disk
        <3>2. Appenders(e)' = {} /\ Gone(e)' = {}
            BY <1>2 DEF Reboot, Appenders, Gone, Appends, Ahead
        <3>3. Listing(e)' = Listing(e) /\ Cardinality(Listing(e)) \in Nat
            BY <3>1, FiniteCounts, FS_CardinalityType DEF Listing, Lines
        <3>4. copies'[e] = Cardinality(Listing(e))
            <4>1. CASE present = 1
                BY <1>2, <3>1, <4>1 DEF Reboot
            <4>2. CASE present = 0
                <5>1. Listing(e) = {} /\ copies'[e] = 0
                    BY <1>2, <4>2 DEF Reboot, ChainInv, NoFileNoLines, Listing
                <5> QED
                    BY <5>1, FS_EmptySet
            <4> QED
                BY <4>1, <4>2 DEF TypeOK
        <3>5. Cardinality(Appenders(e)') = 0 /\ Cardinality(Gone(e)') = 0
            BY <3>2, FS_EmptySet
        <3> QED
            BY <3>1, <3>3, <3>4, <3>5 DEF Exact
    <2> QED
        BY <2>1, <2>2
<1>3. CASE UNCHANGED vars
    <2>1. \A e : Appenders(e)' = Appenders(e) /\ Gone(e)' = Gone(e) /\ Listing(e)' = Listing(e)
        BY <1>3 DEF vars, disk, args, Appenders, Gone, Listing, Lines, Appends, Ahead, Deletes
    <2> QED
        BY <1>3, <2>1 DEF vars, disk, kernel, args, ghosts, ExactInv, Exact, Alone, Knows
<1> QED
    BY <1>1, <1>2, <1>3 DEF Next

LEMMA ExactLeaves == TypeOK /\ ExactInv => OnlyReplacedLeft
<1> SUFFICES ASSUME TypeOK, ExactInv, skipped = 0, raced = 0, \A p \in Procs : pc[p] = "idle", NEW e \in Entries
             PROVE  copies[e] = Cardinality(Listing(e)) + replaced[e]
    BY DEF OnlyReplacedLeft
<1>1. Appenders(e) = {} /\ Gone(e) = {}
    BY DEF Appenders, Gone, Appends, Ahead
<1>2. Cardinality(Appenders(e)) = 0 /\ Cardinality(Gone(e)) = 0
    BY <1>1, FS_EmptySet
<1> QED
    BY <1>2 DEF ExactInv, Exact, TypeOK

(* Calls that do not overlap leave every entry in the NAT table once for   *)
(* each line that has it, and once more for each line that had it and that *)
(* set_pforward has written over since the boot.                           *)
THEOREM ForwardClean == Spec => []OnlyReplacedLeft
<1>1. Init => ChainInv /\ ExactInv
    <2>1. ASSUME Init PROVE \A e : Appenders(e) = {} /\ Gone(e) = {} /\ Listing(e) = {}
        BY <2>1 DEF Init, Appenders, Gone, Listing, Lines, Appends, Ahead
    <2> QED
        BY <2>1, FS_EmptySet DEF Init, ChainInv, NoFileNoLines, ChainInStep, Lines, ExactInv, Exact, Alone, Knows
<1> QED
    BY <1>1, TypeInit, TypeNext, ChainNext, ExactInvNext, ExactLeaves, PTL DEF Spec

=============================================================================
