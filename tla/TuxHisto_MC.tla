---------------------------- MODULE TuxHisto_MC -----------------------------
(***************************************************************************)
(* TuxHisto for TLC: the bounds are numbers, given in TuxHisto_rows.cfg.   *)
(***************************************************************************)
EXTENDS TuxHisto
=============================================================================
