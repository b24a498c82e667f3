---------------------------- MODULE MCGenConfig ----------------------------
(* An instance of the configuration files for TLC.                         *)
EXTENDS GenConfig

CONSTANTS p1, p2, wan, dns, v1, v2

(* Two tags that start alike, and a prefix nobody uses.                    *)
MCPrefixes == {{wan, dns}, {}}

=============================================================================
