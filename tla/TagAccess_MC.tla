---------------------------- MODULE TagAccess_MC ----------------------------
(***************************************************************************)
(* A device of each kind, with the addresses and values at the edges of    *)
(* what a byte, a word and a float hold.                                   *)
(***************************************************************************)
EXTENDS TagAccess, TLC

CONSTANTS n

\* Of a PLC-5 or SLC, with None for a part that is not written.
Addr(letter, file, element, sub, bit) ==
    [letter |-> letter, file |-> file, element |-> element, sub |-> sub, bit |-> bit]
Commands(A, V) == [address : A, value : V \union {n}]

Words5 == (<<3, 0, 0>> :> 5) @@ (<<7, 0, 0>> :> 65534) @@ (<<7, 1, 0>> :> 300)
          @@ (<<7, 255, 0>> :> 21) @@ (<<7, 257, 0>> :> 22)
          @@ (<<8, 0, 0>> :> 3)
          @@ (<<4, 0, 0>> :> 2^15 + 2^13) @@ (<<4, 0, 1>> :> 1000) @@ (<<4, 0, 2>> :> 40)
          @@ (<<6, 0, 0>> :> 2^14) @@ (<<6, 0, 1>> :> 8) @@ (<<6, 0, 2>> :> 7)
Types5 == (3 :> 4) @@ (4 :> 5) @@ (6 :> 7) @@ (7 :> 4) @@ (8 :> 8)
Addresses5 == {Addr("N", 7, e, n, n) : e \in {0, 1, 2, 255, 257}}
              \union {Addr("B", 3, 0, n, b) : b \in {0, 1}} \union {Addr("F", 8, 0, n, n)}
              \union {Addr("N", 7, 0, n, 2), Addr("N", 7, 1, n, 15)}
              \union {Addr("T", 4, 0, s, n) : s \in {"PRE", "ACC", "DN", "EN", "TT", n}}
              \union {Addr("R", 6, 0, s, n) : s \in {"LEN", "POS", "EN"}}
              \union {Addr("T", 4, 0, "ACC", 3), Addr("T", 4, 0, n, 2)}

Name(s) == [name |-> s, index |-> 0]
Index(i) == [name |-> "[]", index |-> i]
TagsL == (<<Name("flag")>> :> 1) @@ (<<Name("byte")>> :> -3) @@ (<<Name("word")>> :> 700)
         @@ (<<Name("big")>> :> 2^24 + 1) @@ (<<Name("speed")>> :> 12) @@ (<<Name("bits")>> :> 9)
         @@ [t \in {<<Name("row"), Index(i)>> : i \in {0, 44, 255, 300, 4464}} |-> t[2].index + 1]
         @@ (<<Name("timer")>> :> 0) @@ (<<Name("row"), Index(70000)>> :> 6) @@ (<<Name("grid"), Index(1), Index(2)>> :> 33)
TypesL == ("flag" :> "BOOL") @@ ("byte" :> "SINT") @@ ("word" :> "INT") @@ ("big" :> "DINT")
          @@ ("speed" :> "REAL") @@ ("bits" :> "BITARRAY") @@ ("row" :> "DINT") @@ ("grid" :> "INT")
          @@ ("gone" :> "INT") @@ ("timer" :> "TIMER")

AddrMB(prefix, number) == [prefix |-> prefix, number |-> number]
CommandMB(a, v, num, as, keep, set) ==
    [address |-> a, value |-> v, number |-> num, as |-> as, keep |-> keep, set |-> set]
TableMB == (<<"coil", 0>> :> 1) @@ (<<"coil", 1>> :> 0) @@ (<<"coil", 2>> :> 1) @@ (<<"input", 0>> :> 1)
           @@ (<<"input_register", 0>> :> 65000)
           @@ (<<"register", 0>> :> 0) @@ (<<"register", 1>> :> 65535) @@ (<<"register", 2>> :> 0)
           @@ (<<"register", 3>> :> 16448) @@ (<<"register", 4>> :> 1) @@ (<<"register", 5>> :> 512)
AddressesMB == {AddrMB("none", i) : i \in {1, 2, 100001, 300001, 400001, 400002, 400006}}
               \union {AddrMB(p, i) : p \in {"D", "F"}, i \in {400001, 400003}}
\* A number of TLC has 31 bits: the negative D400001 is read as an integer only.
CommandsMB == {CommandMB(a, n, num, "integer", n, n) : a \in AddressesMB, num \in 1 .. 2}
              \union {CommandMB(a, n, num, "real", n, n) : a \in AddressesMB \ {AddrMB("D", 400001)}, num \in 1 .. 2}
              \union {CommandMB(AddrMB("D", 400003), <<65539>>, 1, "real", n, n)}
              \union {CommandMB(a, v, 1, "real", n, n) : a \in AddressesMB, v \in {<<3>>, <<0, 3>>, <<3, 0, 3>>}}
              \union {CommandMB(AddrMB("none", 400001), <<-1>>, 1, "real", n, n)}
              \union {CommandMB(a, n, 1, "real", {0, 3}, {1, 3}) : a \in {AddrMB("none", 1), AddrMB("none", 400006)}}

DevicesMC ==
    [PLC |-> [cells |-> Words5, types |-> Types5, commands |-> Commands(Addresses5, {-2, 3})],
     DF1 |-> [cells |-> Words5, types |-> Types5,
              commands |-> Commands(Addresses5, {-2, 3}) \union Commands({Addr("O", 0, 0, n, 1)}, {1})],
     LGX |-> [cells |-> TagsL, types |-> TypesL,
              commands |-> Commands(DOMAIN TagsL \union {<<Name("gone")>>}, {-2, 300})],
     MB  |-> [cells |-> TableMB, types |-> n, commands |-> CommandsMB]]

RealBitsMC == (0 :> <<0, 0>>) @@ (3 :> <<0, 16448>>)
=============================================================================
