------------------------------ MODULE TuxAB_MC ------------------------------
(***************************************************************************)
(* TuxAB for TLC: two PLCs behind one gateway or two whose names begin     *)
(* alike, two rows of one PLC, tags alone and in packets, elements whose   *)
(* number is long, and packets as slow as a suspension.                    *)
(***************************************************************************)
EXTENDS TuxAB

Row(file, element, sample) == [file |-> file, element |-> element, bit |-> 0, sub |-> 0, sample |-> sample]
Line(type, ip, route, tags) == [type |-> type, ip |-> ip, route |-> route, tags |-> tags]

Pair   == <<Row(7, 3, 1), Row(7, 1, 1)>>
Single == <<Row(7, 1, 1)>>

Slow   == <<Row(7, 2, 2), Row(7, 1, 2)>>
Several == <<Row(8, 0, 1), Row(7, 5, 1), Row(7, 2, 2), Row(7, 4, 2)>>

TestPlants ==
    {[plcs |-> <<Line("SLC500", <<1>>, <<0>>, Pair), Line("SLC500", <<1>>, <<1>>, Single)>>, faults |-> 1, slow |-> 1],
     [plcs |-> <<Line("PLC5", <<1>>, <<0>>, Single), Line("PLC5", <<1>>, <<0>>, Slow)>>, faults |-> 1, slow |-> 0],
     [plcs |-> <<Line("PLC5", <<1, 0>>, <<0>>, Single), Line("PLC5", <<1>>, <<0>>, Single)>>, faults |-> 1, slow |-> 0],
     [plcs |-> <<Line("LGX", <<1>>, <<0>>, Pair)>>, faults |-> 2, slow |-> 0],
     [plcs |-> <<Line("PLC5", <<1>>, <<0>>, Several)>>, faults |-> 1, slow |-> 0]}
=============================================================================
