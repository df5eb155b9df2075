---------------------------- MODULE TuxReader_MC ----------------------------
(***************************************************************************)
(* Alias files and requests for TuxReader.  "Pair": a DH+ node and a Logix *)
(* behind one gateway, clients asking for one tag name of each.  "One":    *)
(* one PLC, two tags.                                                      *)
(***************************************************************************)
EXTENDS TuxReader, TLC

CONSTANTS s1, c1, c2, cl1

SameIp(ip) == {<<q, p>> \in (DOMAIN ip) \X (DOMAIN ip) : ip[q] = ip[p]}
SamePath(ip, path) == {<<q, p>> \in SameIp(ip) : path[q] = path[p]}
Equal(S) == {<<x, x>> : x \in S}

Pair_Ip == <<"gw1", "gw1">>
Pair_Path == <<"slot7", "slot8">>
Pair_NetWork == <<1, 0>>
Pair_IpStarts == SameIp(Pair_Ip)
Pair_PathStarts == SamePath(Pair_Ip, Pair_Path)

One_Ip == <<"gw1">>
One_Path == <<"slot8">>
One_NetWork == <<0>>
One_Starts == {<<1, 1>>}

SameNames == Equal(Plc)
SameTags == Equal(TagName)

Symmetry == Permutations({c1, c2})
=============================================================================
