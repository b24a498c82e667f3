-------------------------- MODULE GenConfigProofs --------------------------
(* Proofs about the configuration files, for any number of processes, tags *)
(* and values, with processes being killed at any step.                    *)
EXTENDS GenConfig, TLAPS

USE StoreAssumption

LEMMA TypeInit == Init => TypeOK
BY DEF Init, TypeOK, Lists, Empty, Locked, NoOp

LEMMA TypeNext == TypeOK /\ [NextCrash]_vars => TypeOK'
<1> SUFFICES ASSUME TypeOK, [NextCrash]_vars PROVE TypeOK'
    OBVIOUS
<1> USE DEF TypeOK, Lists, Locked, At
<1>1. CASE UNCHANGED vars
    BY <1>1 DEF vars
<1>2. ASSUME NEW p \in Procs, NEW o \in Ops, Call(p, o) PROVE TypeOK'
    BY <1>2 DEF Call
<1>3. ASSUME NEW p \in Procs, lock_file(p) \/ genconfig_read_file(p) PROVE TypeOK'
    <2>1. CASE lock_file(p)
        BY <2>1 DEF lock_file
    <2>2. CASE genconfig_read_file(p)
        BY <2>2 DEF genconfig_read_file
    <2> QED
        BY <1>3, <2>1, <2>2
<1>4. ASSUME NEW p \in Procs, SetValue(p) PROVE TypeOK'
    <2>1. op[p] \in Ops /\ op[p].value \in Values /\ op[p].tags \subseteq Tags
        BY <1>4 DEF SetValue, Ops
    <2> QED
        BY <1>4, <2>1 DEF SetValue, genconfig_set_value
<1>5. ASSUME NEW p \in Procs, GetValue(p) PROVE TypeOK'
    <2>1. op[p] \in Ops /\ op[p].tags \subseteq Tags
        BY <1>5 DEF GetValue, Ops
    <2> QED
        BY <1>5, <2>1 DEF GetValue, genconfig_get_value
<1>6. ASSUME NEW p \in Procs, NothingToRemove(p) \/ RemoveItem(p) PROVE TypeOK'
    BY <1>6 DEF NothingToRemove, RemoveItem, RemoveTags
<1>7. ASSUME NEW p \in Procs, Truncate(p) \/ WritePart(p) \/ CloseFile(p) PROVE TypeOK'
    <2>1. CASE Truncate(p)
        BY <2>1 DEF Truncate, Empty
    <2>2. CASE WritePart(p)
        BY <2>2 DEF WritePart
    <2>3. CASE CloseFile(p)
        BY <2>3 DEF CloseFile
    <2> QED
        BY <1>7, <2>1, <2>2, <2>3
<1>8. ASSUME NEW p \in Procs, unlock_file(p) \/ Crash(p) PROVE TypeOK'
    <2>1. Empty \in Lists
        BY DEF Empty
    <2>2. lock' \in Procs \cup {NoProc} /\ pc' \in [Procs -> Locked \cup {"idle", "lock"}]
        BY <1>8 DEF unlock_file, Crash
    <2>3. pc'[p] = "idle" /\ \A q \in Procs \ {p} : pc'[q] = pc[q]
        BY <1>8 DEF unlock_file, Crash
    <2>4. Forget(p)
        BY <1>8 DEF unlock_file, Crash
    <2> QED
        BY <2>1, <2>2, <2>3, <2>4 DEF Forget
<1> QED
    BY <1>1, <1>2, <1>3, <1>4, <1>5, <1>6, <1>7, <1>8 DEF NextCrash, Step, Work

-----------------------------------------------------------------------------

LEMMA LockNext == TypeOK /\ HoldsLock /\ [NextCrash]_vars => HoldsLock'
<1> SUFFICES ASSUME TypeOK, HoldsLock, [NextCrash]_vars PROVE HoldsLock'
    OBVIOUS
<1> USE DEF TypeOK, HoldsLock, Locked, At
<1>1. CASE UNCHANGED vars
    BY <1>1 DEF vars
<1>2. ASSUME NEW p \in Procs, NEW o \in Ops, Call(p, o) PROVE HoldsLock'
    BY <1>2 DEF Call
<1>3. ASSUME NEW p \in Procs, lock_file(p) \/ genconfig_read_file(p) PROVE HoldsLock'
    BY <1>3 DEF lock_file, genconfig_read_file
<1>4. ASSUME NEW p \in Procs,
             SetValue(p) \/ GetValue(p) \/ NothingToRemove(p) \/ RemoveItem(p)
      PROVE  HoldsLock'
    BY <1>4 DEF SetValue, GetValue, NothingToRemove, RemoveItem
<1>5. ASSUME NEW p \in Procs, Truncate(p) \/ WritePart(p) \/ CloseFile(p)
      PROVE  HoldsLock'
    BY <1>5 DEF Truncate, WritePart, CloseFile
<1>6. ASSUME NEW p \in Procs, unlock_file(p) \/ Crash(p) PROVE HoldsLock'
    BY <1>6 DEF unlock_file, Crash
<1> QED
    BY <1>1, <1>2, <1>3, <1>4, <1>5, <1>6 DEF NextCrash, Step, Work

LEMMA CopyNext ==
    TypeOK /\ HoldsLock /\ CopyFresh /\ [NextCrash]_vars => CopyFresh'
<1> SUFFICES ASSUME TypeOK, HoldsLock, CopyFresh, [NextCrash]_vars PROVE CopyFresh'
    OBVIOUS
<1> USE DEF TypeOK, HoldsLock, CopyFresh, Locked, At, Changed, RemoveTags, PartOf
<1>1. CASE UNCHANGED vars
    BY <1>1 DEF vars
<1>2. ASSUME NEW p \in Procs, NEW o \in Ops, Call(p, o) PROVE CopyFresh'
    BY <1>2 DEF Call
<1>3. ASSUME NEW p \in Procs, lock_file(p) PROVE CopyFresh'
    BY <1>3 DEF lock_file
<1>4. ASSUME NEW p \in Procs, genconfig_read_file(p) PROVE CopyFresh'
    BY <1>4 DEF genconfig_read_file
<1>5. ASSUME NEW p \in Procs, SetValue(p) PROVE CopyFresh'
    <2>1. op[p] \in Ops /\ op[p].kind = "set"
        BY <1>5 DEF SetValue
    <2>2. PICK t \in op[p].tags :
              gen_ll' = [gen_ll EXCEPT ![p] = genconfig_set_value(gen_ll[p], t, op[p].value)]
        BY <1>5 DEF SetValue
    <2>3. op[p].tags = {t} /\ t \in Tags
        BY <2>1, <2>2 DEF Ops
    <2>4. gen_ll[p] = file /\ file \in Lists
        BY <1>5 DEF SetValue
    <2>5. gen_ll'[p] = [u \in Tags |-> IF u \in op[p].tags THEN op[p].value ELSE file[u]]
        BY <2>2, <2>3, <2>4 DEF genconfig_set_value, Lists
    <2>6. pc'[p] = "open" /\ UNCHANGED <<file, op>>
        BY <1>5 DEF SetValue
    <2>7. \A q \in Procs \ {p} : pc'[q] = pc[q] /\ gen_ll'[q] = gen_ll[q]
        BY <1>5, <2>2 DEF SetValue
    <2> QED
        BY <2>1, <2>5, <2>6, <2>7
<1>6. ASSUME NEW p \in Procs, GetValue(p) PROVE CopyFresh'
    BY <1>6 DEF GetValue
<1>7. ASSUME NEW p \in Procs, NothingToRemove(p) PROVE CopyFresh'
    BY <1>7 DEF NothingToRemove
<1>8. ASSUME NEW p \in Procs, RemoveItem(p) PROVE CopyFresh'
    <2>1. op[p].kind \notin {"get", "set"} /\ gen_ll[p] = file
        BY <1>8 DEF RemoveItem
    <2>2. gen_ll'[p] = RemoveTags(file, op[p].tags) /\ pc'[p] = "open" /\ UNCHANGED <<file, op>>
        BY <1>8, <2>1 DEF RemoveItem
    <2>3. \A q \in Procs \ {p} : pc'[q] = pc[q] /\ gen_ll'[q] = gen_ll[q]
        BY <1>8 DEF RemoveItem
    <2> QED
        BY <2>1, <2>2, <2>3
<1>9. ASSUME NEW p \in Procs, Truncate(p) \/ WritePart(p) \/ CloseFile(p)
      PROVE  CopyFresh'
    <2>1. \A q \in Procs \ {p} : pc[q] \notin Locked /\ pc'[q] = pc[q]
        BY <1>9 DEF Truncate, WritePart, CloseFile
    <2>2. CASE Truncate(p)
        <3>1. pc'[p] = "write" /\ PartOf(file', gen_ll'[p])
            BY <2>2 DEF Truncate, Empty
        <3> QED
            BY <2>1, <3>1
    <2>3. CASE WritePart(p)
        <3>1. pc'[p] = "write" /\ PartOf(file', gen_ll'[p])
            BY <2>3 DEF WritePart
        <3> QED
            BY <2>1, <3>1
    <2>4. CASE CloseFile(p)
        BY <2>1, <2>4 DEF CloseFile
    <2> QED
        BY <1>9, <2>2, <2>3, <2>4
<1>10. ASSUME NEW p \in Procs, unlock_file(p) \/ Crash(p) PROVE CopyFresh'
    <2>1. pc'[p] = "idle" /\ UNCHANGED file
        BY <1>10 DEF unlock_file, Crash, Forget
    <2>2. \A q \in Procs \ {p} : pc'[q] = pc[q] /\ op'[q] = op[q] /\ gen_ll'[q] = gen_ll[q]
        BY <1>10 DEF unlock_file, Crash, Forget
    <2> QED
        BY <2>1, <2>2
<1> QED
    BY <1>1, <1>2, <1>3, <1>4, <1>5, <1>6, <1>7, <1>8, <1>9, <1>10
    DEF NextCrash, Step, Work

IInv == TypeOK /\ ConfigInv

LEMMA InvInit == Init => IInv
<1>1. Init => HoldsLock /\ CopyFresh
    BY DEF Init, HoldsLock, CopyFresh, Locked
<1> QED
    BY <1>1, TypeInit DEF IInv, ConfigInv

LEMMA InvNext == IInv /\ [NextCrash]_vars => IInv'
BY TypeNext, LockNext, CopyNext DEF IInv, ConfigInv

(* No process changes the file without the lock, and none works on a copy  *)
(* that another has made stale - whenever processes are killed.            *)
THEOREM StoreInvariant == SpecCrash => [](TypeOK /\ ConfigInv)
BY InvInit, InvNext, PTL DEF SpecCrash, IInv

(* The types alone, kills included.                                        *)
THEOREM StoreTypes == SpecCrash => []TypeOK
BY StoreInvariant, PTL

-----------------------------------------------------------------------------
(* The refinement: the store is the file, or the copy that is replacing it. *)

LEMMA StoreOfWriter ==
    ASSUME IInv, NEW p \in Procs, pc[p] = "write"
    PROVE  Store = gen_ll[p]
<1>1. \A q \in Procs : pc[q] = "write" => q = p
    BY DEF IInv, ConfigInv, HoldsLock, Locked
<1> QED
    BY <1>1 DEF Store

LEMMA StoreOfNobody ==
    ASSUME \A p \in Procs : pc[p] # "write"
    PROVE  Store = file
BY DEF Store

(* Whoever holds the lock and does not write knows that nobody does.       *)
LEMMA StoreOfReader ==
    ASSUME IInv, NEW p \in Procs, pc[p] \in Locked \ {"write"}
    PROVE  Store = file /\ \A q \in Procs : pc[q] # "write"
<1>1. \A q \in Procs : pc[q] # "write"
    BY DEF IInv, ConfigInv, HoldsLock, Locked
<1> QED
    BY <1>1, StoreOfNobody

LEMMA RemovalOfNoOp == Removal(NoOp) = NoOp /\ NoOp = Abstract!NoOp
BY DEF Removal, NoOp, Abstract!NoOp

LEMMA RemovalType == ASSUME NEW o \in Ops PROVE Removal(o) \in Abstract!Ops
<1>1. o.kind \in {"set", "get", "remove", "remove_prefix"} /\ o.tags \in SUBSET Tags
      /\ o.value \in Values \cup {NoValue}
    BY DEF Ops
<1> QED
    BY <1>1 DEF Removal, Abstract!Ops

(* A step that the abstract store does not see.                            *)
Unseen == UNCHANGED <<Store, Status, Asked, answer>>

LEMMA CallRefines ==
    ASSUME IInv, NEW p \in Procs, NEW o \in Ops, Call(p, o)
    PROVE  Abstract!Ask(p, Removal(o))
<1> USE DEF IInv, TypeOK
<1>1. pc[p] = "idle" /\ pc' = [pc EXCEPT ![p] = "lock"] /\ op' = [op EXCEPT ![p] = o]
      /\ UNCHANGED <<file, gen_ll, answer>>
    BY DEF Call, At
<1>2. Store' = Store
    <2>1. \A q \in Procs : pc'[q] = "write" <=> pc[q] = "write"
        BY <1>1
    <2> QED
        BY <1>1, <2>1 DEF Store
<1>3. Status[p] = "idle" /\ Status' = [Status EXCEPT ![p] = "asked"]
    BY <1>1 DEF Status
<1>4. Asked' = [Asked EXCEPT ![p] = Removal(o)]
    BY <1>1 DEF Asked
<1> QED
    BY <1>1, <1>2, <1>3, <1>4 DEF Abstract!Ask

LEMMA UnseenSteps ==
    ASSUME IInv, IInv', NEW p \in Procs,
           \/ lock_file(p) \/ genconfig_read_file(p) \/ SetValue(p) \/ RemoveItem(p)
           \/ WritePart(p) \/ CloseFile(p)
    PROVE  Unseen
<1> USE DEF IInv, TypeOK
<1>1. CASE lock_file(p)
    <2>1. pc[p] = "lock" /\ pc' = [pc EXCEPT ![p] = "read"] /\ UNCHANGED <<file, op, gen_ll, answer>>
        BY <1>1 DEF lock_file, At
    <2>2. Status' = Status /\ Asked' = Asked
        BY <2>1 DEF Status, Asked
    <2>3. \A q \in Procs : pc'[q] = "write" <=> pc[q] = "write"
        BY <2>1
    <2> QED
        BY <2>1, <2>2, <2>3 DEF Unseen, Store
<1>2. CASE genconfig_read_file(p) \/ SetValue(p) \/ RemoveItem(p)
    <2>1. /\ pc[p] \in {"read", "work"}
          /\ pc' = [pc EXCEPT ![p] = "work"] \/ pc' = [pc EXCEPT ![p] = "open"]
          /\ UNCHANGED <<file, op, answer>>
        BY <1>2 DEF genconfig_read_file, SetValue, RemoveItem, At
    <2>2. Status' = Status /\ Asked' = Asked
        BY <2>1 DEF Status, Asked
    <2>3. Store = file /\ \A q \in Procs : pc[q] # "write"
        BY <2>1, StoreOfReader DEF Locked
    <2>4. \A q \in Procs : pc'[q] # "write"
        BY <2>1, <2>3
    <2>5. Store' = file'
        BY <2>4 DEF Store
    <2> QED
        BY <2>1, <2>2, <2>3, <2>5 DEF Unseen
<1>3. CASE WritePart(p)
    <2>1. pc[p] = "write" /\ UNCHANGED <<pc, op, gen_ll, answer>>
        BY <1>3 DEF WritePart
    <2> QED
        BY <2>1 DEF Unseen, Store, Status, Asked
<1>4. CASE CloseFile(p)
    <2>1. /\ pc[p] = "write" /\ pc' = [pc EXCEPT ![p] = "unlock"]
          /\ file' = gen_ll[p] /\ UNCHANGED <<op, gen_ll, answer>>
        BY <1>4 DEF CloseFile, At
    <2>2. Status' = Status /\ Asked' = Asked
        BY <2>1 DEF Status, Asked
    <2>3. Store = gen_ll[p]
        BY <2>1, StoreOfWriter
    <2>4. \A q \in Procs : pc'[q] # "write"
        BY <2>1 DEF ConfigInv, HoldsLock, Locked
    <2>5. Store' = file'
        BY <2>4 DEF Store
    <2> QED
        BY <2>1, <2>2, <2>3, <2>5 DEF Unseen
<1> QED
    BY <1>1, <1>2, <1>3, <1>4

LEMMA PerformRefines ==
    ASSUME IInv, IInv', NEW p \in Procs,
           GetValue(p) \/ NothingToRemove(p) \/ Truncate(p)
    PROVE  Abstract!Perform(p)
<1> USE DEF IInv, TypeOK
<1>1. /\ pc[p] \in {"work", "open"} /\ op[p] \in Ops
      /\ pc' = [pc EXCEPT ![p] = "unlock"] \/ pc' = [pc EXCEPT ![p] = "write"]
      /\ UNCHANGED <<op, gen_ll>>
    BY DEF GetValue, NothingToRemove, Truncate, At
<1>2. Store = file /\ file \in Lists /\ \A q \in Procs : pc[q] # "write"
    BY <1>1, StoreOfReader DEF Locked
<1>3. Status[p] = "asked" /\ Status' = [Status EXCEPT ![p] = "done"]
    BY <1>1 DEF Status
<1>4. Asked' = Asked /\ Asked[p] = Removal(op[p])
    BY <1>1 DEF Asked
<1>5. /\ Asked[p].tags = op[p].tags /\ Asked[p].value = op[p].value
      /\ Asked[p].kind = IF op[p].kind = "remove_prefix" THEN "remove" ELSE op[p].kind
    BY <1>4 DEF Removal
<1>6. CASE GetValue(p)
    <2>1. /\ op[p].kind = "get" /\ pc' = [pc EXCEPT ![p] = "unlock"] /\ file' = file
          /\ \E t \in op[p].tags : answer' = [answer EXCEPT ![p] = gen_ll[p][t]]
        BY <1>6 DEF GetValue, At, genconfig_get_value
    <2>2. gen_ll[p] = file
        BY <1>6 DEF GetValue, At, ConfigInv, CopyFresh
    <2>3. \A q \in Procs : pc'[q] # "write"
        BY <1>2, <2>1
    <2>4. Store' = file
        BY <2>1, <2>3 DEF Store
    <2>5. Abstract!Effect(Asked[p], Store) = file
        BY <1>2, <1>5, <2>1 DEF Abstract!Effect, Lists
    <2> QED
        BY <1>2, <1>3, <1>4, <1>5, <2>1, <2>2, <2>4, <2>5 DEF Abstract!Perform
<1>7. CASE NothingToRemove(p)
    <2>1. /\ op[p].kind = "remove" /\ pc' = [pc EXCEPT ![p] = "unlock"]
          /\ \A t \in op[p].tags : gen_ll[p][t] = NoValue
          /\ UNCHANGED <<file, answer>>
        BY <1>7 DEF NothingToRemove, At
    <2>2. gen_ll[p] = file
        BY <1>7 DEF NothingToRemove, At, ConfigInv, CopyFresh
    <2>3. \A q \in Procs : pc'[q] # "write"
        BY <1>2, <2>1
    <2>4. Store' = file
        BY <2>1, <2>3 DEF Store
    <2>5. Abstract!Effect(Asked[p], Store) = file
        BY <1>2, <1>5, <2>1, <2>2 DEF Abstract!Effect, Lists
    <2> QED
        BY <1>2, <1>3, <1>4, <1>5, <2>1, <2>4, <2>5 DEF Abstract!Perform
<1>8. CASE Truncate(p)
    <2>1. pc[p] = "open" /\ pc' = [pc EXCEPT ![p] = "write"] /\ UNCHANGED answer
        BY <1>8 DEF Truncate, At
    <2>2. op[p].kind \in {"set", "remove", "remove_prefix"} /\ gen_ll[p] = Changed(p)
        BY <1>1, <2>1 DEF ConfigInv, CopyFresh, Ops
    <2>3. \A q \in Procs : pc'[q] = "write" => q = p
        BY <1>2, <2>1
    <2>4. Store' = gen_ll[p]
        BY <1>1, <2>1, <2>3 DEF Store
    <2>5. Abstract!Effect(Asked[p], Store) = Changed(p)
        BY <1>2, <1>5, <2>2 DEF Abstract!Effect, Changed, RemoveTags, Lists
    <2>6. Asked[p].kind # "get"
        BY <1>5, <2>2
    <2> QED
        BY <1>3, <1>4, <2>1, <2>2, <2>4, <2>5, <2>6 DEF Abstract!Perform
<1> QED
    BY <1>6, <1>7, <1>8

LEMMA ForgetRefines ==
    ASSUME IInv, NEW p \in Procs, Forget(p)
    PROVE  Asked' = [Asked EXCEPT ![p] = Abstract!NoOp]
BY RemovalOfNoOp DEF Forget, Asked, IInv, TypeOK

LEMMA FinishRefines ==
    ASSUME IInv, IInv', NEW p \in Procs, unlock_file(p)
    PROVE  Abstract!Finish(p)
<1> USE DEF IInv, TypeOK
<1>1. pc[p] = "unlock" /\ pc' = [pc EXCEPT ![p] = "idle"] /\ Forget(p)
    BY DEF unlock_file, At
<1>2. Store = file /\ \A q \in Procs : pc[q] # "write"
    BY <1>1, StoreOfReader DEF Locked
<1>3. \A q \in Procs : pc'[q] # "write"
    BY <1>1, <1>2
<1>4. Store' = Store /\ UNCHANGED answer
    BY <1>1, <1>2, <1>3 DEF Store, Forget
<1>5. Status[p] = "done" /\ Status' = [Status EXCEPT ![p] = "idle"]
    BY <1>1 DEF Status
<1> QED
    BY <1>1, <1>4, <1>5, ForgetRefines DEF Abstract!Finish

LEMMA CrashRefines ==
    ASSUME IInv, IInv', NEW p \in Procs, Crash(p)
    PROVE  Abstract!Die(p)
<1> USE DEF IInv, TypeOK
<1>1. /\ pc[p] # "idle" /\ pc' = [pc EXCEPT ![p] = "idle"] /\ Forget(p)
      /\ gen_ll' = [gen_ll EXCEPT ![p] = Empty] /\ UNCHANGED <<file, answer>>
    BY DEF Crash, Forget
<1>2. Status[p] # "idle" /\ Status' = [Status EXCEPT ![p] = "idle"]
    BY <1>1 DEF Status, Locked
<1>3. CASE pc[p] = "write"
    <2>1. Store = gen_ll[p] /\ PartOf(file, gen_ll[p])
        BY <1>3, StoreOfWriter DEF ConfigInv, CopyFresh
    <2>2. \A q \in Procs : pc'[q] # "write"
        BY <1>1, <1>3 DEF ConfigInv, HoldsLock, Locked
    <2>3. Store' = file /\ file \in [Tags -> Values \cup {NoValue}]
        BY <1>1, <2>2 DEF Store, Lists
    <2>4. Status[p] = "done"
        BY <1>3 DEF Status
    <2>5. \E cut \in Tags : \A t \in Tags \ {cut} : Store'[t] \in {Store[t], NoValue}
        BY <2>1, <2>3 DEF PartOf
    <2> QED
        BY <1>1, <1>2, <2>3, <2>4, <2>5, ForgetRefines DEF Abstract!Die
<1>4. CASE pc[p] # "write"
    <2>1. \A q \in Procs : /\ pc'[q] = "write" <=> pc[q] = "write"
                           /\ pc[q] = "write" => gen_ll'[q] = gen_ll[q]
        BY <1>1, <1>4
    <2>2. Store' = Store
        <3>1. CASE \E q \in Procs : pc[q] = "write"
            <4> DEFINE w == CHOOSE q \in Procs : pc[q] = "write"
            <4>1. w \in Procs /\ pc[w] = "write"
                BY <3>1
            <4>2. Store = gen_ll[w]
                BY <3>1 DEF Store
            <4>3. \A q \in Procs : pc'[q] = "write" <=> q = w
                BY <2>1, <4>1 DEF ConfigInv, HoldsLock, Locked
            <4>4. Store' = gen_ll'[w]
                BY <4>1, <4>3 DEF Store
            <4> QED
                BY <2>1, <4>1, <4>2, <4>4
        <3>2. CASE \A q \in Procs : pc[q] # "write"
            BY <1>1, <2>1, <3>2 DEF Store
        <3> QED
            BY <3>1, <3>2
    <2> QED
        BY <1>1, <1>2, <2>2, ForgetRefines DEF Abstract!Die
<1> QED
    BY <1>3, <1>4

LEMMA StepRefines ==
    ASSUME IInv, IInv', NEW p \in Procs, Step(p)
    PROVE  Abstract!Next \/ Unseen
<1>1. CASE \E o \in Ops : Call(p, o)
    BY <1>1, CallRefines, RemovalType DEF Abstract!Next
<1>2. CASE lock_file(p) \/ genconfig_read_file(p) \/ SetValue(p) \/ RemoveItem(p)
           \/ WritePart(p) \/ CloseFile(p)
    BY <1>2, UnseenSteps
<1>3. CASE GetValue(p) \/ NothingToRemove(p) \/ Truncate(p)
    BY <1>3, PerformRefines DEF Abstract!Next
<1>4. CASE unlock_file(p)
    BY <1>4, FinishRefines DEF Abstract!Next
<1> QED
    BY <1>1, <1>2, <1>3, <1>4 DEF Step, Work

LEMMA RefinesInit == Init => Abstract!Init
<1> SUFFICES ASSUME Init PROVE Abstract!Init
    OBVIOUS
<1>1. Store = file
    BY DEF Init, Store
<1>2. Status = [p \in Procs |-> "idle"] /\ Asked = [p \in Procs |-> Abstract!NoOp]
    BY RemovalOfNoOp DEF Init, Status, Asked
<1> QED
    BY <1>1, <1>2 DEF Init, Lists, Abstract!Init

LEMMA RefinesStutter == UNCHANGED vars => Unseen
BY DEF vars, Unseen, Store, Status, Asked

(* Operations of any number of processes on a configuration file take      *)
(* effect one at a time, exactly once, and every get sees the last one.    *)
THEOREM FilesImplementStore == Spec => StoreSpec
<1>1. IInv /\ IInv' /\ [Next]_vars => [Abstract!Next]_<<Store, Status, Asked, answer>>
    BY StepRefines, RefinesStutter DEF Next, Unseen
<1>2. [Next]_vars => [NextCrash]_vars
    BY DEF Next, NextCrash
<1> QED
    BY <1>1, <1>2, InvInit, InvNext, RefinesInit, PTL DEF Spec, StoreSpec, Abstract!Spec

(* With processes killed at any step: one that dies before its write has   *)
(* changed nothing, one that dies over it may lose tags and cut one value, *)
(* and the others go on with a store that behaves as before.               *)
THEOREM FilesImplementLossyStore == SpecCrash => StoreSpecLossy
<1>1. IInv /\ IInv' /\ [NextCrash]_vars
          => [Abstract!NextLossy]_<<Store, Status, Asked, answer>>
    BY StepRefines, CrashRefines, RefinesStutter DEF NextCrash, Unseen, Abstract!NextLossy
<1> QED
    BY <1>1, InvInit, InvNext, RefinesInit, PTL DEF SpecCrash, StoreSpecLossy, Abstract!SpecLossy

=============================================================================
