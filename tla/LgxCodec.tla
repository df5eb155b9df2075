------------------------------ MODULE LgxCodec ------------------------------
(***************************************************************************)
(* Reads and writes of Logix tags: the path of a tag (CIP_IOI.c), the      *)
(* request and the reply (LGX.c).                                          *)
(*                                                                         *)
(* An address is a sequence of names and of index lists; the tags of the   *)
(* device are its table, from such sequences to values, and have types.    *)
(***************************************************************************)
EXTENDS Words

CONSTANT None

-----------------------------------------------------------------------------
Symbol(s) == [name |-> s, bytes |-> <<>>]

\* _AddSegmentValue; of an index that has more, two bytes are written.
AddSegmentValue(value) ==
    [name |-> "[]", bytes |-> IF value > 65535 THEN <<42, 0>> \o Bytes(value) \o <<0, 0>>
                            ELSE IF value > 255 THEN <<41, 0>> \o Bytes(value)
                            ELSE <<40, value>>]

Index(value) == [name |-> "[]", index |-> value]
Member(s) == [name |-> s, index |-> 0]

\* _BuildIOI
IOI(a) == [i \in DOMAIN a |-> IF a[i].name = "[]" THEN AddSegmentValue(a[i].index) ELSE Symbol(a[i].name)]

Segment(s) == IF s.name # "[]" THEN Member(s.name)
              ELSE Index(CASE s.bytes[1] = 40 -> s.bytes[2]
                           [] s.bytes[1] \in {41, 42} -> OfBytes(s.bytes[3], s.bytes[4]))

\* The tag that a path leads to in the device.
Tag(path) == [i \in DOMAIN path |-> Segment(path[i])]

-----------------------------------------------------------------------------
\* _GetLGXDataSize
LGXDataSize(type) == CASE type \in {"BOOL", "SINT"} -> 1
                       [] type = "INT" -> 2
                       [] type \in {"BITARRAY", "DINT", "REAL"} -> 4
                       [] OTHER -> -1

\* A BOOL that is set is read as 1 or 255.
Sent(type, value) == IF type = "BOOL" /\ value = 1 THEN {1, 255} ELSE {value}

\* _DecodeLGX: nothing is made of a structure.
DecodeLGX(type, value) == IF LGXDataSize(type) <= 0 THEN None ELSE [type |-> type, value |-> value]

\* _GetService_Reply and _GetService_ReplyNumber: how many services a reply
\* is to, if it is to one of these.
ReplyNumber(service) == IF service \in {"CIP_DATA_READ", "CIP_DATA_WRITE", "EXECUTE_PCCC"} THEN 1 ELSE -1

\* _ReadLgxData: the device may refuse, or its reply be lost.
ReadLgxData(table, types, a) ==
    LET tag == Tag(IOI(a)) IN
    {None} \union (IF tag \in DOMAIN table
                   THEN {DecodeLGX(types[a[1].name], v) : v \in Sent(types[a[1].name], table[tag])} ELSE {})

\* What a number that is written is as an element of the type: the low bytes
\* of an integer, or a float.
Cut(type, v) == CASE type = "SINT" -> LET b == v % 256 IN IF b >= 128 THEN b - 256 ELSE b
                  [] type = "INT" -> Signed(Word(v))
                  [] type = "DINT" -> Double(Word(v \div 2^16), Word(v))
                  [] type = "REAL" -> Float(v)
                  [] OTHER -> v

\* _WriteLgxData: a write whose reply is lost may have been done.
WriteLgxData(table, types, a, type, v) ==
    LET tag == Tag(IOI(a))
        takes == tag \in DOMAIN table /\ types[a[1].name] = type
        done == IF takes THEN [table EXCEPT ![tag] = Cut(type, v)] ELSE table IN
    {[table |-> table, res |-> -1], [table |-> done, res |-> -1]}
        \union (IF takes THEN {[table |-> done, res |-> ReplyNumber("CIP_DATA_WRITE")]} ELSE {})

\* _GetLGXValueAsFloat, which _GetLGXValueAsInteger calls.
LGXValueAsFloat(r) == Float(r.value)
=============================================================================
