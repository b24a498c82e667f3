----------------------------- MODULE MCIgmpProxy -----------------------------
(***************************************************************************)
(* Small instances of IgmpProxy.  The groups of Shared have one Ethernet   *)
(* address, every other has its own.                                       *)
(***************************************************************************)
EXTENDS IgmpProxy

CONSTANTS Shared

MCMac == [g \in Groups |-> IF g \in Shared THEN 9 ELSE g]

(* The port is found, or not; the join succeeds, or is refused.            *)
MCPortNums == {1, -1}
MCJoinResults == {0, -1}

(* ``Send Leave request upstream if group is joined'' (rttable.c:594, on   *)
(* the removal of a route): no membership outlives its route, when the     *)
(* daemon has run with a WAN link and address since its start.             *)
LeftWithRoute == Steady /\ upstream = 1 => joined \subseteq Routed

=============================================================================
