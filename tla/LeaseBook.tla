----------------------------- MODULE LeaseBook -----------------------------
(***************************************************************************)
(* What a DHCP server promises, without saying how: a book of grants.  A   *)
(* grant names an address and the last second the client may use it; an    *)
(* address is granted only while nobody else holds a running grant of it,  *)
(* and a grant ends early only when its client gives it up.                *)
(***************************************************************************)
EXTENDS Integers

CONSTANTS Clients, Addr

VARIABLES now, grant

NoGrant == [addr |-> 0, until |-> 0]

Running(c) == grant[c].addr # 0 /\ now <= grant[c].until

Give(c, a, until) ==
    /\ \A d \in Clients \ {c} : Running(d) => grant[d].addr # a
    /\ until >= now
    /\ grant' = [grant EXCEPT ![c] = [addr |-> a, until |-> until]]
    /\ UNCHANGED now

GiveUp(c) ==
    /\ grant' = [grant EXCEPT ![c] = NoGrant]
    /\ UNCHANGED now

Tick == now' = now + 1 /\ UNCHANGED grant

Init == now = 1 /\ grant = [c \in Clients |-> NoGrant]

Next ==
    \/ \E c \in Clients : \E a \in Addr : Give(c, a, grant'[c].until)
    \/ \E c \in Clients : GiveUp(c)
    \/ Tick

Spec == Init /\ [][Next]_<<now, grant>>

=============================================================================
