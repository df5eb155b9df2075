----------------------------- MODULE EipLink_MC -----------------------------
(***************************************************************************)
(* EipLink with one or two connections on the session.                     *)
(***************************************************************************)
EXTENDS EipLink, TLC

CONSTANTS c1, c2

Symmetry == Permutations({c1, c2})
=============================================================================
