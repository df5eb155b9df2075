---------------------------- MODULE ChainList_MC ----------------------------
(***************************************************************************)
(* Lists of up to four elements over three items, two of them equal in the *)
(* order of compare.                                                       *)
(***************************************************************************)
EXTENDS ChainList

CONSTANTS e1, e2, e3, e4, x, y, z

Ranks == [i \in {x, y, z} |-> IF i = x THEN 1 ELSE 2]
=============================================================================
