----------------------------- MODULE TuxTag_MC -----------------------------
(***************************************************************************)
(* An alias file for TuxTag: two DH+ nodes behind one bridge, so that they *)
(* share their links.                                                      *)
(***************************************************************************)
EXTENDS TuxTag

CONSTANTS s1, c1

Nodes_Ip == <<"gw1", "gw1">>
Nodes_Path == <<"slot7", "slot7">>
Nodes_NetWork == <<1, 1>>
Nodes_Node == <<1, 2>>
All == Plc \X Plc

SameNames == {<<p, p>> : p \in Plc}
=============================================================================
