----------------------------- MODULE GenConfig -----------------------------
(***************************************************************************)
(* The router's configuration and status files (lib/ul_lib/genconfig_api.c, *)
(* cconfig_api.c): lines "tag=value", read as a whole, changed in memory   *)
(* and written back by whichever process wants to, under an flock() on a   *)
(* file of its own.  One file is modelled; each has its own lock.          *)
(*                                                                         *)
(* The list of items is a function from tags to values; NoValue stands for *)
(* a tag without a line.  A missing file reads as an empty list.           *)
(***************************************************************************)
EXTENDS FiniteSets

CONSTANTS Procs, NoProc, Tags, Values, NoValue,
          Prefixes      \* the sets of tags that share a prefix

ASSUME StoreAssumption ==
    /\ NoProc \notin Procs /\ NoValue \notin Values
    /\ Prefixes \subseteq SUBSET Tags /\ Tags # {}

VARIABLES
    file,       \* the contents of the file
    lock,       \* the process that holds the flock, or NoProc
    pc,         \* where each process is in its operation
    op,         \* the operation, as called
    gen_ll,     \* each process's copy of the file
    answer      \* what the last get returned to each process

vars == <<file, lock, pc, op, gen_ll, answer>>

Lists == [Tags -> Values \cup {NoValue}]
Empty == [t \in Tags |-> NoValue]

Ops == [kind : {"set"}, tags : {{t} : t \in Tags}, value : Values]
  \cup [kind : {"get", "remove"}, tags : {{t} : t \in Tags}, value : {NoValue}]
  \cup [kind : {"remove_prefix"}, tags : Prefixes, value : {NoValue}]

NoOp == [kind |-> "none", tags |-> {}, value |-> NoValue]

-----------------------------------------------------------------------------

(* Mutant: a tag that is not in the list yet is not added. *)
MutSetOnlyKnown(l, t, v) == [l EXCEPT ![t] = IF @ = NoValue THEN @ ELSE v]

genconfig_set_value(l, t, v) == [l EXCEPT ![t] = v]

(* Mutant: the tag is copied instead of the value. *)
MutGetTag(l, t) == t

genconfig_get_value(l, t) == l[t]

RemoveTags(l, S) == [t \in Tags |-> IF t \in S THEN NoValue ELSE l[t]]

(* genconfig_free_ll, and the end of the call.                             *)
Forget(p) ==
    /\ op' = [op EXCEPT ![p] = NoOp]
    /\ gen_ll' = [gen_ll EXCEPT ![p] = Empty]
    /\ UNCHANGED <<file, answer>>

At(p, here, there) == pc[p] = here /\ pc' = [pc EXCEPT ![p] = there]

Call(p, o) ==
    /\ At(p, "idle", "lock")
    /\ op' = [op EXCEPT ![p] = o]
    /\ UNCHANGED <<file, lock, gen_ll, answer>>

(* Mutant: the file is opened but not locked. *)
MutLockFree(p) ==
    /\ At(p, "lock", "read")
    /\ lock' = p
    /\ UNCHANGED <<file, op, gen_ll, answer>>

lock_file(p) ==
    /\ At(p, "lock", "read")
    /\ lock = NoProc
    /\ lock' = p
    /\ UNCHANGED <<file, op, gen_ll, answer>>

genconfig_read_file(p) ==
    /\ At(p, "read", "work")
    /\ gen_ll' = [gen_ll EXCEPT ![p] = file]
    /\ UNCHANGED <<file, lock, op, answer>>

(* What the operation does with the list.  A get, and a remove that does   *)
(* not find its tag, write nothing.                                        *)
SetValue(p) ==
    /\ op[p].kind = "set"
    /\ At(p, "work", "open")
    /\ \E t \in op[p].tags :
           gen_ll' = [gen_ll EXCEPT ![p] = genconfig_set_value(gen_ll[p], t, op[p].value)]
    /\ UNCHANGED <<file, lock, op, answer>>

GetValue(p) ==
    /\ op[p].kind = "get"
    /\ At(p, "work", "unlock")
    /\ \E t \in op[p].tags :
           answer' = [answer EXCEPT ![p] = genconfig_get_value(gen_ll[p], t)]
    /\ UNCHANGED <<file, lock, op, gen_ll>>

NothingToRemove(p) ==
    /\ op[p].kind = "remove"
    /\ \A t \in op[p].tags : gen_ll[p][t] = NoValue
    /\ At(p, "work", "unlock")
    /\ UNCHANGED <<file, lock, op, gen_ll, answer>>

RemoveItem(p) ==
    /\ \/ op[p].kind = "remove" /\ \E t \in op[p].tags : gen_ll[p][t] # NoValue
       \/ op[p].kind = "remove_prefix"
    /\ At(p, "work", "open")
    /\ gen_ll' = [gen_ll EXCEPT ![p] = RemoveTags(gen_ll[p], op[p].tags)]
    /\ UNCHANGED <<file, lock, op, answer>>

(* genconfig_write_file: fopen("w+") empties the file; stdio writes full   *)
(* buffers as they come, the last of which may cut a line; fclose writes   *)
(* the rest.                                                               *)
PartOf(f, l) == \E cut \in Tags : \A t \in Tags \ {cut} : f[t] \in {l[t], NoValue}

Truncate(p) ==
    /\ At(p, "open", "write")
    /\ file' = Empty
    /\ UNCHANGED <<lock, op, gen_ll, answer>>

WritePart(p) ==
    /\ pc[p] = "write"
    /\ file' \in {f \in Lists : PartOf(f, gen_ll[p])}
    /\ UNCHANGED <<lock, pc, op, gen_ll, answer>>

CloseFile(p) ==
    /\ At(p, "write", "unlock")
    /\ file' = gen_ll[p]
    /\ UNCHANGED <<lock, op, gen_ll, answer>>

(* Mutant: the lock survives the operation. *)
MutUnlockForgets(p) ==
    /\ At(p, "unlock", "idle")
    /\ Forget(p)
    /\ UNCHANGED lock

unlock_file(p) ==
    /\ At(p, "unlock", "idle")
    /\ lock' = IF lock = p THEN NoProc ELSE lock
    /\ Forget(p)

(* A killed process leaves the file as it is; the kernel drops its lock.   *)
Crash(p) ==
    /\ pc[p] # "idle"
    /\ pc' = [pc EXCEPT ![p] = "idle"]
    /\ lock' = IF lock = p THEN NoProc ELSE lock
    /\ Forget(p)

Init ==
    /\ file \in Lists
    /\ lock = NoProc
    /\ pc = [p \in Procs |-> "idle"]
    /\ op = [p \in Procs |-> NoOp]
    /\ gen_ll = [p \in Procs |-> Empty]
    /\ answer = [p \in Procs |-> NoValue]

(* The steps of an operation that holds the lock.                          *)
Work(p) ==
    \/ genconfig_read_file(p)
    \/ SetValue(p) \/ GetValue(p) \/ NothingToRemove(p) \/ RemoveItem(p)
    \/ Truncate(p) \/ CloseFile(p) \/ unlock_file(p)

Step(p) == (\E o \in Ops : Call(p, o)) \/ lock_file(p) \/ Work(p) \/ WritePart(p)

Next      == \E p \in Procs : Step(p)
NextCrash == \E p \in Procs : Step(p) \/ Crash(p)

Fair == \A p \in Procs : WF_vars(Work(p))

Spec      == Init /\ [][Next]_vars /\ Fair
SpecCrash == Init /\ [][NextCrash]_vars /\ Fair

-----------------------------------------------------------------------------
(* Properties.                                                             *)

Locked == {"read", "work", "open", "write", "unlock"}

(* Every variable has its type.                                            *)
TypeOK ==
    /\ file \in Lists
    /\ lock \in Procs \cup {NoProc}
    /\ pc \in [Procs -> Locked \cup {"idle", "lock"}]
    /\ op \in [Procs -> Ops \cup {NoOp}]
    /\ \A p \in Procs : pc[p] # "idle" => op[p] \in Ops
    /\ gen_ll \in [Procs -> Lists]
    /\ answer \in [Procs -> Values \cup {NoValue}]

(* Between its read and its unlock a process holds the lock.               *)
HoldsLock == \A p \in Procs : pc[p] \in Locked <=> lock = p

(* The copy a process works on is the file, but for its own change: no     *)
(* other process's update is overwritten by a stale copy.                  *)
Changed(p) ==
    CASE op[p].kind = "set" -> [t \in Tags |-> IF t \in op[p].tags THEN op[p].value ELSE file[t]]
      [] OTHER              -> RemoveTags(file, op[p].tags)

CopyFresh ==
    \A p \in Procs :
        /\ pc[p] = "work" => gen_ll[p] = file
        /\ pc[p] = "open" => op[p].kind # "get" /\ gen_ll[p] = Changed(p)
        /\ pc[p] = "write" => PartOf(file, gen_ll[p])

ConfigInv == HoldsLock /\ CopyFresh

(* A process that has the lock gives it back, killed processes included.   *)
LockReturned == \A p \in Procs : (lock = p) ~> (lock # p)

(* The file as the processes see it: while one of them writes it, what it  *)
(* is going to contain.                                                    *)
Store == IF \E p \in Procs : pc[p] = "write"
         THEN gen_ll[CHOOSE p \in Procs : pc[p] = "write"]
         ELSE file

(* The operation has taken effect when the file is emptied for writing, or *)
(* when it turns out that nothing has to be written.                       *)
Status == [p \in Procs |-> CASE pc[p] = "idle" -> "idle"
                             [] pc[p] \in {"lock", "read", "work", "open"} -> "asked"
                             [] OTHER -> "done"]

Removal(o) ==
    [kind |-> IF o.kind = "remove_prefix" THEN "remove" ELSE o.kind,
     tags |-> o.tags, value |-> o.value]

Asked == [p \in Procs |-> Removal(op[p])]

Abstract == INSTANCE ConfigStore WITH store <- Store, status <- Status, op <- Asked

(* The files implement the store: operations of different processes take   *)
(* effect one at a time and exactly once; nobody reads a half-written      *)
(* file unless a process was killed over it.                               *)
StoreSpec      == Abstract!Spec
StoreSpecLossy == Abstract!SpecLossy

=============================================================================
