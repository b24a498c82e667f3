------------------------------ MODULE PForward ------------------------------
(***************************************************************************)
(* Port forwarding (lib/ul_lib/pforward.c).  The rules of a chain are kept *)
(* in a file of their own and in the kernel's NAT table.  A rule stands    *)
(* for two entries there: the DNAT entry in the rule's chain, reached by   *)
(* jumps, and a SNAT entry in app_postroute for local clients.  The SNAT   *)
(* command names the server and its port, not the external port: rules to  *)
(* one server share the entry.  The file is changed under its lock; the    *)
(* iptables commands for a rule run outside it, one after the other.       *)
(*                                                                         *)
(* What is done under the lock is one step: GenConfig shows that locked    *)
(* operations on a file take effect at once.  One chain is modelled.       *)
(***************************************************************************)
EXTENDS Integers, FiniteSets

CONSTANTS
    Procs,
    Names, Rules,
    Servers, Server,    \* protocol, address and port each rule forwards to
    None,               \* no line, no rule, no name
    MaxCopies           \* bound on the copies of one entry

ASSUME ForwardAssumption ==
    /\ IsFiniteSet(Procs) /\ IsFiniteSet(Names)
    /\ None \notin Rules \cup Names
    /\ Server \in [Rules -> Servers] /\ Rules \cap Servers = {}
    /\ MaxCopies \in Nat \ {0}

VARIABLES
    present, file,      \* whether the file is there, and its lines
    chain, jumps,       \* whether the chain exists, and the jumps to it
    copies,             \* how often each entry is in the NAT table
    pc, name, rule,     \* each process: its step, what it was called for
    skipped,            \* history: the last boot passed the file over
    raced,              \* history: since the last boot two calls overlapped
    replaced,           \* history: while none did, how often each entry lost
                        \* its line to a rule set over it
    spoilt              \* history: entries that a removal deletes, or is about
                        \* to delete, without a copy of its own

disk   == <<present, file>>
kernel == <<chain, jumps, copies>>
args   == <<name, rule>>
ghosts == <<skipped, raced, replaced, spoilt>>
vars   == <<disk, kernel, pc, args, ghosts>>

(* A DNAT entry is named by its rule, a SNAT entry by its server.          *)
Entries    == Rules \cup Servers
EntriesOf(r) == {r, Server[r]}

At(p, here, there) == pc[p] = here /\ pc' = [pc EXCEPT ![p] = there]

(* The call returns, and its variables with it.                            *)
Return(p, here) ==
    /\ At(p, here, "idle")
    /\ name' = [name EXCEPT ![p] = None]
    /\ rule' = [rule EXCEPT ![p] = None]

Lines == {n \in Names : file[n] # None}

(* The lines whose rule has entry e.                                       *)
Listing(e) == {n \in Lines : e \in EntriesOf(file[n])}

(* A call of a public function.                                            *)
Call(p, there, n, r) ==
    /\ At(p, "idle", there)
    /\ name' = [name EXCEPT ![p] = n]
    /\ rule' = [rule EXCEPT ![p] = r]
    /\ IF \E q \in Procs : pc[q] # "idle"
       THEN raced' = 1 /\ replaced' = [e \in Entries |-> 0]
       ELSE UNCHANGED <<raced, replaced>>
    /\ UNCHANGED <<disk, kernel, skipped, spoilt>>

create_pforward(p, n, r) == Call(p, "check", n, r)

(* get_pforward in create_pforward: a name that is taken ends the call.    *)
Check(p) ==
    /\ pc[p] = "check"
    /\ IF file[name[p]] # None
       THEN Return(p, "check")
       ELSE At(p, "check", "set") /\ UNCHANGED args
    /\ UNCHANGED <<disk, kernel, ghosts>>

set_pforward(p, n, r) == Call(p, "set", n, r)

(* The line is written.  Of a rule it replaces nothing is deleted.         *)
WriteLine(p) ==
    /\ present' = 1
    /\ file' = [file EXCEPT ![name[p]] = rule[p]]
    /\ replaced' = [e \in Entries |->
                        IF raced = 0 /\ name[p] \in Listing(e) THEN replaced[e] + 1 ELSE replaced[e]]
    /\ UNCHANGED <<copies, args, skipped, raced, spoilt>>

(* Mutant: the chain is made when the first rule is, not when the file is. *)
MutChainWithRule(p) ==
    /\ At(p, "set", "dnat")
    /\ IF Lines = {} THEN chain' = 1 /\ jumps' = jumps + 1 ELSE UNCHANGED <<chain, jumps>>
    /\ WriteLine(p)

(* set_pforward under the lock.                                            *)
SetLine(p) ==
    /\ At(p, "set", "dnat")
    /\ IF present = 0 THEN chain' = 1 /\ jumps' = jumps + 1 ELSE UNCHANGED <<chain, jumps>>
    /\ WriteLine(p)

(* iptables -A and -D.                                                     *)
Append(e) ==
    /\ copies[e] < MaxCopies
    /\ copies' = [copies EXCEPT ![e] = @ + 1]

Delete(e) == copies' = [copies EXCEPT ![e] = IF @ > 0 THEN @ - 1 ELSE 0]

(* A removal has looked up this rule and not deleted its DNAT entry.       *)
Wanted(r) == \E q \in Procs : pc[q] = "undnat" /\ rule[q] = r

(* run_pforward('A'), the first command: without the chain it fails.       *)
AppendDnat(p) ==
    /\ At(p, "dnat", "snat")
    /\ IF chain = 1 THEN Append(rule[p]) ELSE UNCHANGED copies
    /\ spoilt' = (IF chain = 0 /\ Wanted(rule[p]) THEN spoilt \cup {rule[p]} ELSE spoilt)
    /\ UNCHANGED <<disk, chain, jumps, args, skipped, raced, replaced>>

(* The second.                                                             *)
AppendSnat(p) ==
    /\ Return(p, "snat")
    /\ Append(Server[rule[p]])
    /\ UNCHANGED <<disk, chain, jumps, ghosts>>

remove_pforward(p, n) == Call(p, "look", n, None)

(* Mutant: a name without a line is removed all the same. *)
MutLookBlind(p) ==
    /\ At(p, "look", "undnat")
    /\ rule' = [rule EXCEPT ![p] = file[name[p]]]
    /\ UNCHANGED <<disk, kernel, name, ghosts>>

(* A removal of name n that has looked up the rule r and not removed the   *)
(* line.                                                                   *)
Removing(q, n, r) == name[q] = n /\ rule[q] = r /\ pc[q] \in {"undnat", "unsnat", "unlist"}

(* get_pforward in remove_pforward.  Two removals that have looked up one  *)
(* line both delete its entries.                                           *)
Look(p) ==
    /\ pc[p] = "look"
    /\ IF file[name[p]] = None
       THEN Return(p, "look") /\ UNCHANGED spoilt
       ELSE /\ At(p, "look", "undnat")
            /\ rule' = [rule EXCEPT ![p] = file[name[p]]]
            /\ spoilt' = (IF \E q \in Procs : Removing(q, name[p], file[name[p]])
                          THEN spoilt \cup EntriesOf(file[name[p]]) ELSE spoilt)
            /\ UNCHANGED name
    /\ UNCHANGED <<disk, kernel, skipped, raced, replaced>>

(* run_pforward('D'), the first command: an entry that is not there is no  *)
(* error anybody sees.                                                     *)
DeleteDnat(p) ==
    /\ At(p, "undnat", "unsnat")
    /\ Delete(rule[p])
    /\ UNCHANGED <<disk, chain, jumps, args, ghosts>>

(* Mutant: the entry of the local clients is forgotten. *)
MutKeepSnat(p) ==
    /\ At(p, "unsnat", "unlist")
    /\ UNCHANGED <<disk, kernel, args, ghosts>>

(* The second.                                                             *)
DeleteSnat(p) ==
    /\ At(p, "unsnat", "unlist")
    /\ Delete(Server[rule[p]])
    /\ UNCHANGED <<disk, chain, jumps, args, ghosts>>

(* Mutant: the line is left for the last step to remove. *)
MutKeepLine(p) ==
    /\ At(p, "unlist", "tidy")
    /\ UNCHANGED <<disk, kernel, args, ghosts>>

(* genconfig_remove_item.                                                  *)
Unlist(p) ==
    /\ At(p, "unlist", "tidy")
    /\ file' = [file EXCEPT ![name[p]] = None]
    /\ UNCHANGED <<present, kernel, args, ghosts>>

(* With the last line the jumps, the chain and the file go; a chain that   *)
(* still has rules cannot be deleted.  The list is read into a head that   *)
(* is not initialised: with lines in the file the process may die here,    *)
(* which leaves the same state.                                            *)
Tidy(p) ==
    /\ Return(p, "tidy")
    /\ IF present = 1 /\ Lines = {}
       THEN /\ jumps' = (IF jumps > 0 THEN jumps - 1 ELSE 0)
            /\ chain' = (IF \A r \in Rules : copies[r] = 0 THEN 0 ELSE chain)
            /\ present' = 0
       ELSE UNCHANGED <<jumps, chain, present>>
    /\ UNCHANGED <<file, copies, ghosts>>

(* A restart: the NAT table is new, and init_pforward_config fills it from *)
(* the file, unless what lstat() left uninitialised looks like a directory. *)
Reboot(skip) ==
    /\ pc' = [p \in Procs |-> "idle"]
    /\ name' = [p \in Procs |-> None] /\ rule' = [p \in Procs |-> None]
    /\ LET made == IF present = 1 /\ skip = 0 THEN 1 ELSE 0
       IN  /\ chain' = made /\ jumps' = made
           /\ copies' = [e \in Entries |-> IF made = 1 THEN Cardinality(Listing(e)) ELSE 0]
    /\ skipped' = skip /\ raced' = 0 /\ spoilt' = {}
    /\ replaced' = [e \in Entries |-> 0]
    /\ UNCHANGED disk

Init ==
    /\ present = 0 /\ file = [n \in Names |-> None]
    /\ chain = 0 /\ jumps = 0
    /\ copies = [e \in Entries |-> 0]
    /\ pc = [p \in Procs |-> "idle"]
    /\ name = [p \in Procs |-> None] /\ rule = [p \in Procs |-> None]
    /\ skipped = 0 /\ raced = 0 /\ spoilt = {}
    /\ replaced = [e \in Entries |-> 0]

Step(p) ==
    \/ \E n \in Names : remove_pforward(p, n)
    \/ \E n \in Names, r \in Rules : create_pforward(p, n, r) \/ set_pforward(p, n, r)
    \/ Check(p) \/ SetLine(p) \/ AppendDnat(p) \/ AppendSnat(p)
    \/ Look(p) \/ DeleteDnat(p) \/ DeleteSnat(p) \/ Unlist(p) \/ Tidy(p)

Next == (\E p \in Procs : Step(p)) \/ \E skip \in {0, 1} : Reboot(skip)

Spec == Init /\ [][Next]_vars

-----------------------------------------------------------------------------
(* Properties.                                                             *)

(* The types; no command runs without a rule to run it for.                *)
TypeOK ==
    /\ present \in {0, 1} /\ file \in [Names -> Rules \cup {None}]
    /\ chain \in {0, 1} /\ jumps \in Nat
    /\ copies \in [Entries -> Nat]
    /\ pc \in [Procs -> {"idle", "check", "set", "dnat", "snat",
                         "look", "undnat", "unsnat", "unlist", "tidy"}]
    /\ name \in [Procs -> Names \cup {None}] /\ rule \in [Procs -> Rules \cup {None}]
    /\ \A p \in Procs : pc[p] # "idle" => name[p] \in Names
    /\ \A p \in Procs : pc[p] \notin {"idle", "look", "tidy"} => rule[p] \in Rules
    /\ skipped \in {0, 1} /\ raced \in {0, 1}
    /\ replaced \in [Entries -> Nat] /\ spoilt \subseteq Entries

(* However calls overlap, the chain exists and is jumped to once as long   *)
(* as the file exists, and is not jumped to otherwise.                     *)
ChainInStep ==
    skipped = 0 =>
        /\ jumps = present
        /\ present = 1 => chain = 1
        /\ present = 0 => Lines = {}

(* A process is about to append entry e; a process is about to delete it.  *)
Appends(p, e) ==
    \/ pc[p] = "dnat" /\ e \in EntriesOf(rule[p])
    \/ pc[p] = "snat" /\ e = Server[rule[p]]

Deletes(p, e) ==
    \/ pc[p] = "undnat" /\ e \in EntriesOf(rule[p])
    \/ pc[p] = "unsnat" /\ e = Server[rule[p]]

(* However calls overlap, and also for rules that share an entry: both     *)
(* entries of a listed rule are in the NAT table, or a process is about to *)
(* append the missing one, or a removal of the line has deleted it.        *)
(* Excepted are, until the next boot, the entries of a rule that two       *)
(* removals of one name had looked up at once, and a DNAT entry whose      *)
(* append failed, its chain gone, while a removal of it was under way.     *)
FileInEffect ==
    skipped = 0 =>
        \A n \in Lines : \A e \in EntriesOf(file[n]) \ spoilt :
            \/ copies[e] > 0
            \/ \E p \in Procs : Appends(p, e)
            \/ \E p \in Procs : Removing(p, n, file[n]) /\ ~Deletes(p, e)

(* Calls that do not overlap leave behind what set_pforward leaves of the  *)
(* rules it replaces, and nothing else: when none is running, an entry is  *)
(* in the NAT table once for each line that has it and once more for each  *)
(* line that had it and was written over since the boot.                   *)
OnlyReplacedLeft ==
    skipped = 0 /\ raced = 0 /\ (\A p \in Procs : pc[p] = "idle") =>
        \A e \in Entries : copies[e] = Cardinality(Listing(e)) + replaced[e]

=============================================================================
