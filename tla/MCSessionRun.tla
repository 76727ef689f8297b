---------------------------- MODULE MCSessionRun ----------------------------
(* Values for the constants of SessionRun; a code is a model value. *)
EXTENDS SessionRun

CONSTANTS modelError

MCCodes == {modelError}
=============================================================================
