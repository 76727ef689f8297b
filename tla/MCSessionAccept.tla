--------------------------- MODULE MCSessionAccept ---------------------------
(* Values for the constants of SessionAccept. *)
EXTENDS SessionAccept, TLC

CONSTANTS c1, c2, c3, d1, d2

MCCalls      == {c1, c2, c3}
MCPair       == {c1, c2}
MCOne        == {d1}
MCTwo        == {d1, d2}
MCSymmetry   == Permutations(MCCalls) \cup Permutations(MCTwo)
=============================================================================
