---------------------------- MODULE PlcLinks_MC ----------------------------
(***************************************************************************)
(* An alias file for PlcLinks.  "Shared": two DH+ nodes behind one bridge  *)
(* (same path, so one connection), a Logix in the same chassis (same       *)
(* session), and a PLC at another gateway.                                 *)
(***************************************************************************)
EXTENDS PlcLinks, TLC

CONSTANTS s1, s2, c1, c2, c3

Shared_Ip == <<"gw1", "gw1", "gw1", "gw2">>
Shared_Path == <<"slot7", "slot7", "slot8", "slot0">>
Shared_NetWork == <<1, 1, 0, 0>>

SameIp(ip) == {<<q, p>> \in (DOMAIN ip) \X (DOMAIN ip) : ip[q] = ip[p]}
SamePath(ip, path) == {<<q, p>> \in SameIp(ip) : path[q] = path[p]}
Shared_IpStarts == SameIp(Shared_Ip)
Shared_PathStarts == SamePath(Shared_Ip, Shared_Path)

Symmetry == Permutations({s1, s2}) \union Permutations({c1, c2, c3})
=============================================================================
