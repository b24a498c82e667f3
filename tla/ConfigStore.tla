---------------------------- MODULE ConfigStore ----------------------------
(***************************************************************************)
(* What the configuration files promise to the processes of the router: a  *)
(* store of tags.  A process asks for an operation; the operation takes    *)
(* effect at one moment, exactly once; then the process goes on.  A        *)
(* process that dies before that moment has changed nothing; one that dies *)
(* after it may cost the store some tags and the end of one value.         *)
(***************************************************************************)
CONSTANTS Procs, Tags, Values, NoValue

VARIABLES store, status, op, answer

Ops == [kind : {"set", "get", "remove"}, tags : SUBSET Tags, value : Values \cup {NoValue}]

NoOp == [kind |-> "none", tags |-> {}, value |-> NoValue]

Effect(o, s) ==
    [t \in Tags |-> CASE t \in o.tags /\ o.kind = "set"    -> o.value
                      [] t \in o.tags /\ o.kind = "remove" -> NoValue
                      [] OTHER                             -> s[t]]

Ask(p, o) ==
    /\ status[p] = "idle"
    /\ status' = [status EXCEPT ![p] = "asked"]
    /\ op' = [op EXCEPT ![p] = o]
    /\ UNCHANGED <<store, answer>>

Perform(p) ==
    /\ status[p] = "asked"
    /\ status' = [status EXCEPT ![p] = "done"]
    /\ store' = Effect(op[p], store)
    /\ IF op[p].kind = "get"
       THEN \E t \in op[p].tags : answer' = [answer EXCEPT ![p] = store[t]]
       ELSE UNCHANGED answer
    /\ UNCHANGED op

Finish(p) ==
    /\ status[p] = "done"
    /\ status' = [status EXCEPT ![p] = "idle"]
    /\ op' = [op EXCEPT ![p] = NoOp]
    /\ UNCHANGED <<store, answer>>

Die(p) ==
    /\ status[p] # "idle"
    /\ status' = [status EXCEPT ![p] = "idle"]
    /\ \/ UNCHANGED store
       \/ /\ status[p] = "done"
          /\ store' \in [Tags -> Values \cup {NoValue}]
          /\ \E cut \in Tags : \A t \in Tags \ {cut} : store'[t] \in {store[t], NoValue}
    /\ op' = [op EXCEPT ![p] = NoOp]
    /\ UNCHANGED answer

Init ==
    /\ store \in [Tags -> Values \cup {NoValue}]
    /\ status = [p \in Procs |-> "idle"]
    /\ op = [p \in Procs |-> NoOp]
    /\ answer = [p \in Procs |-> NoValue]

Next == \E p \in Procs : (\E o \in Ops : Ask(p, o)) \/ Perform(p) \/ Finish(p)

NextLossy == Next \/ \E p \in Procs : Die(p)

Spec      == Init /\ [][Next]_<<store, status, op, answer>>
SpecLossy == Init /\ [][NextLossy]_<<store, status, op, answer>>

=============================================================================
