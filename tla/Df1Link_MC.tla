----------------------------- MODULE Df1Link_MC -----------------------------
(***************************************************************************)
(* Df1Link for TLC: the bounds are numbers, given in Df1Link_line.cfg.     *)
(***************************************************************************)
EXTENDS Df1Link
=============================================================================
