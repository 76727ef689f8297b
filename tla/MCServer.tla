------------------------------ MODULE MCServer ------------------------------
(* Values for the constants of Server. *)
EXTENDS Server

CONSTANTS r1, r2, d1

MCPair   == {r1, r2}
MCSingle == {r1}
MCOne    == {d1}
=============================================================================
