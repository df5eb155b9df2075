---------------------------- MODULE TuxModbus_MC ----------------------------
(***************************************************************************)
(* TuxModbus for TLC: a line with two tags and one whose tags have gone.   *)
(***************************************************************************)
EXTENDS TuxModbus

CONSTANTS t1, t2

TwoLines == <<<<t1, t2>>, <<>>>>
=============================================================================
