----------------------------- MODULE TuxMdb_MC ------------------------------
(***************************************************************************)
(* TuxMdb for TLC: two devices, with tags alone and packets of one kind or *)
(* of several, in a window of two addresses.                               *)
(***************************************************************************)
EXTENDS TuxMdb

Tag(prefix, number, sample) == [prefix |-> prefix, number |-> number, sample |-> sample]

Floats == <<Tag("F", 400003, 2), Tag("F", 400001, 1), Tag("none", 400006, 1)>>
Coils  == <<Tag("none", 3, 2), Tag("none", 1, 2), Tag("none", 300001, 1)>>
Mixed  == <<Tag("none", 400001, 1), Tag("D", 400002, 2), Tag("F", 400003, 2)>>
Border == <<Tag("none", 99999, 1), Tag("none", 100001, 1)>>
Alone  == <<Tag("none", 400002, 2)>>

TestRows == UNION {ToSet(plc) : plc \in {Floats, Coils, Mixed, Border, Alone}}
TestPlants == {<<Floats, Alone>>, <<Coils>>, <<Mixed, Alone>>, <<Border>>}
=============================================================================
