--------------------------- MODULE MCSessionFiles ---------------------------
(* Values for the constants of SessionFiles. *)
EXTENDS SessionFiles, TLC

CONSTANTS w1, w2, w3, p1, p2, p3, p4

MCWriters  == {w1, w2, w3}
MCPair     == {w1, w2}
MCPaths    == {p1, p2, p3, p4}
MCSymmetry == Permutations(MCWriters) \cup Permutations(MCPaths)
=============================================================================
