---------------------------- MODULE MCToolTrace ----------------------------
(* Two call ids, so that lead and subagent may use the same one. *)
EXTENDS ToolTrace

CONSTANTS i1, i2

MCIds == {i1, i2}
=============================================================================
