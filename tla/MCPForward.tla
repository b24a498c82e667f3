----------------------------- MODULE MCPForward -----------------------------
(* An instance of PForward: the first two rules forward to one server.     *)
EXTENDS PForward, TLC

MCServers == {11, 12}
MCServer  == [r \in Rules |-> IF r < 3 THEN 11 ELSE 12]

(* Processes are told apart by nothing but their steps.                    *)
MCSymmetry == Permutations(Procs)
=============================================================================
