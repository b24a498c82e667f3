------------------------------ MODULE MCDhcpd ------------------------------
(* Instances of the DHCP server for TLC, and what a comment of its code    *)
(* claims where the code does otherwise.                                   *)
EXTENDS Dhcpd

CONSTANTS c1, c2

MCNoStatic == {[c \in Clients |-> 0]}

(* One address of the pool is reserved for c1.                             *)
MCStaticC1 == {[c \in Clients |-> IF c = c1 THEN 10 ELSE 0]}

(* From one start to the next c1 has no reserved address, one of the pool, *)
(* or a twin IP: the address of the WAN, outside the LAN.                  *)
MCStaticTwin == {[c \in Clients |-> IF c = c1 THEN a ELSE 0] : a \in {0, 10, 20}}

(* "and its not already taken/offered" (serverpacket.c:251): an address in *)
(* the static lease file is given to its owner only.                       *)
ReservedForOwner ==
    reply.type \in {"OFFER", "ACK"} /\ find_static_lease_by_yiaddr(reply.yiaddr)
        => static[reply.to] = reply.yiaddr

=============================================================================
