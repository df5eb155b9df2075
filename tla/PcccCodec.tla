----------------------------- MODULE PcccCodec ------------------------------
(***************************************************************************)
(* Typed reads and writes of PLC-5s and SLCs: the address, the description *)
(* of the data and the reply, as PLC.c makes and reads them.               *)
(*                                                                         *)
(* An address is [letter, file, element, sub, bit]; the code sees its      *)
(* text, numbers and names one behind the other.                           *)
(***************************************************************************)
EXTENDS Words

CONSTANT None

PLC_INTEGER  == 4
PLC_TIMER    == 5
PLC_CONTROL  == 7
PLC_FLOATING == 8
PLC_ARRAY    == 9

-----------------------------------------------------------------------------
(***************************************************************************)
(* _BuildLogicalBinaryAddress.                                             *)
(***************************************************************************)

Level(n) == [level |-> n, mask |-> None]
Flag(n, bit) == [level |-> n, mask |-> bit]

\* What a name stands for.  In LEN only the last two letters are one.
Mnemonic ==
    [PRE |-> Level(1), ACC |-> Level(2), CTL |-> Level(0),
     SP |-> Level(2), KP |-> Level(4), KI |-> Level(6), KD |-> Level(8), PV |-> Level(26),
     DN |-> Flag(0, 13), EN |-> Flag(0, 15), LEN |-> Flag(0, 15), TT |-> Flag(0, 14),
     OV |-> Flag(0, 12), CU |-> Flag(0, 15), SWM |-> Flag(0, 4), MO |-> Flag(0, 1),
     OLL |-> Flag(1, 10), OLH |-> Flag(1, 9)]

\* Mutant: every level is sent as a byte.
LevelBytes_Byte(n) == <<n % 256>>

LevelBytes(n) == IF n < 255 THEN <<n>> ELSE <<255>> \o Bytes(n)

\* The bytes of the levels so far, the bit of the mask, and encoding_bit.
Start == [bytes |-> <<>>, mask |-> None, encoding_bit |-> 0]

Number(lba, n) == IF lba.encoding_bit = 1 THEN [lba EXCEPT !.mask = n]
                  ELSE [lba EXCEPT !.bytes = @ \o LevelBytes(Word(n))]

Name(lba, s) ==
    IF s = "/" THEN [lba EXCEPT !.encoding_bit = 1]
    ELSE IF s \notin DOMAIN Mnemonic THEN lba
    ELSE LET level == [lba EXCEPT !.bytes = @ \o LevelBytes(Mnemonic[s].level)] IN
         IF Mnemonic[s].mask = None THEN level ELSE [level EXCEPT !.mask = Mnemonic[s].mask]

LogicalBinaryAddress(a) ==
    LET file == Number(Name(Start, a.letter), a.file)
        element == Number(Name(file, ":"), a.element)
        sub == IF a.sub = None THEN element ELSE Name(Name(element, "."), a.sub) IN
    IF a.bit = None THEN sub ELSE Number(Name(sub, "/"), a.bit)

-----------------------------------------------------------------------------
(***************************************************************************)
(* The description of the data: a flag with the type and the size, which   *)
(* follow it when they are larger than 7.                                  *)
(***************************************************************************)

\* _GetPLCDataSize
PLCDataSize(type) == CASE type = PLC_INTEGER -> 2
                       [] type \in PLC_TIMER .. PLC_CONTROL -> 6
                       [] type = PLC_FLOATING -> 4

Extra(n) == IF n > 7 THEN 1 ELSE 0
Half(n) == IF n > 7 THEN 9 ELSE n

\* _EncodePLCDataType; the size of the whole is a byte.
EncodePLCDataType(type, number) ==
    LET size == PLCDataSize(type) IN
    <<16 * 9 + 9, PLC_ARRAY, (number * size + Extra(type) + Extra(size) + 1) % 256,
      16 * Half(type) + Half(size)>>
    \o (IF type > 7 THEN <<type>> ELSE <<>>) \o (IF size > 7 THEN <<size>> ELSE <<>>)

\* Two fields after their flag; only lengths 1 and 2 occur.
Field(half, b) == CASE half < 8 -> [v |-> half, long |-> 0, rest |-> b]
                    [] half = 9 -> [v |-> b[1], long |-> 1, rest |-> Tail(b)]
                    [] half = 10 -> [v |-> OfBytes(b[1], b[2]), long |-> 2, rest |-> Tail(Tail(b))]

Described(b) ==
    LET type == Field(b[1] \div 16, Tail(b))
        size == Field(b[1] % 16, type.rest) IN
    [type |-> type.v, size |-> size.v, long |-> type.long + size.long, rest |-> size.rest]

\* _DecodePCCC: only an array has elements.
DecodePCCC(b) ==
    LET array == Described(b)
        element == Described(array.rest)
        total == array.size - element.long - 1 IN
    IF array.type # PLC_ARRAY THEN None
    ELSE [type |-> element.type, elementsize |-> element.size, Varcount |-> total \div element.size]

-----------------------------------------------------------------------------
(***************************************************************************)
(* The device: words of files, [file, element, sub] of a table.            *)
(***************************************************************************)

\* The first level of an address, and what is behind it.
Wide(b) == b[1] = 255 /\ Len(b) > 2
First(b) == IF Wide(b) THEN OfBytes(b[2], b[3]) ELSE b[1]
Behind(b) == IF Wide(b) THEN SubSeq(b, 4, Len(b)) ELSE Tail(b)

\* Of more than three levels nothing is found.
Levels(b) ==
    LET second == Behind(b)
        third == Behind(second) IN
    IF b = <<>> THEN <<>> ELSE IF second = <<>> THEN <<First(b)>>
    ELSE IF third = <<>> THEN <<First(b), First(second)>>
    ELSE <<First(b), First(second), First(third)>> \o Behind(third)

\* What the levels stand for, with the type it is read as.
Target(types, l) == [cell |-> <<l[1], l[2], IF Len(l) > 2 THEN l[3] ELSE 0>>,
                     type |-> IF Len(l) > 2 THEN PLC_INTEGER ELSE types[l[1]]]

Found(table, l) == Len(l) \in {2, 3} /\ <<l[1], l[2], IF Len(l) > 2 THEN l[3] ELSE 0>> \in DOMAIN table

\* A device describes what it sends as an array or, some of them, as it is.
Descriptions(type) == {EncodePLCDataType(type, 1), <<16 * Half(type) + Half(PLCDataSize(type))>> \o
                                                      (IF type > 7 THEN <<type>> ELSE <<>>)}

-----------------------------------------------------------------------------
(***************************************************************************)
(* _ReadPLCData and _WritePLCData.                                         *)
(***************************************************************************)

\* What comes of a request: its reply, a reply with a status, one of the
\* message router that refuses it, one to another service, or none.
Ways(transport) == {"reply", "status", "lost"} \union (IF transport = "DHP" THEN {} ELSE {"refused", "other"})

\* The reply of the message router.
MRReply(way) == IF way = "lost" THEN None
                ELSE [own |-> way # "other", General_Status |-> IF way = "refused" THEN 8 ELSE 0]

\* _UnconnectedSend: a reply to another service is E_UnsolicitedMsg.
UnconnectedSend(way) == IF MRReply(way) = None THEN None
                        ELSE IF ~MRReply(way).own THEN None ELSE MRReply(way)

\* _SendUnConnectedPCCCRequest looks at the status of the router.
UnConnectedReply(way) == LET r == UnconnectedSend(way) IN
                         IF r = None THEN {"none"} ELSE IF r.General_Status # 0 THEN {"none"} ELSE {way}

\* _SendConnectedPCCCRequest does not: what is behind the message is taken
\* for the length, and for the status of the reply.
ConnectedReply(way) == IF way \in {"lost", "other"} THEN {"none"}
                       ELSE IF way = "refused" THEN {"none", "garbage"} ELSE {way}

Received(way, transport) == IF transport = "unconnected" THEN UnConnectedReply(way) ELSE ConnectedReply(way)

\* The reply to a read: type and word, or None, or of garbage anything.
ReadPLCData(table, types, transport, lba) ==
    LET l == Levels(lba.bytes) IN
    UNION {CASE r = "reply" /\ Found(table, l) ->
                   {LET d == DecodePCCC(b) IN
                    IF d = None THEN None
                    ELSE [type |-> d.type, value |-> table[Target(types, l).cell], mask |-> lba.mask] :
                       b \in Descriptions(Target(types, l).type)}
             [] r = "garbage" -> {None, [type |-> PLC_INTEGER, value |-> None, mask |-> None]}
             [] OTHER -> {None} :
             r \in UNION {Received(way, transport) : way \in Ways(transport)}}

\* A write that is lost may have been done.  The result is the status of the
\* reply, 16 of a device that does not take the data, or E_Error; refused
\* tells whether the device or the router did not take it.
WritePLCData(table, types, transport, lba, type, value) ==
    LET l == Levels(lba.bytes)
        d == DecodePCCC(EncodePLCDataType(type, 1))
        takes == Found(table, l) /\ Target(types, l).type = d.type /\ d.Varcount = 1
        done == IF takes THEN [table EXCEPT ![Target(types, l).cell] = value] ELSE table IN
    UNION {CASE way = "reply" -> {[table |-> done, res |-> IF takes THEN 0 ELSE 16, refused |-> ~takes]}
             [] way = "status" -> {[table |-> table, res |-> 16, refused |-> TRUE]}
             [] way \in {"lost", "other"} -> {[table |-> t, res |-> -1, refused |-> FALSE] : t \in {table, done}}
             [] way = "refused" ->
                   {[table |-> table, res |-> res, refused |-> TRUE] :
                       res \in {-1} \union (IF "garbage" \in Received(way, transport) THEN {0, 16} ELSE {})} :
             way \in Ways(transport)}

\* _PCCC_GetValueAsBoolean: the bit of the mask, of the value as a float made
\* an unsigned integer, or without a mask the value; and the same without
\* the mask.
ValueAsBoolean(r) ==
    CASE r.value = None -> {None}
      [] r.type = PLC_INTEGER /\ r.value # None ->
            IF r.mask = None THEN {Signed(r.value)}
            ELSE {Bit(v, r.mask) : v \in Unsigned(Signed(r.value), 2^16)}
      [] r.type = PLC_FLOATING /\ r.value # None ->
            IF r.mask = None THEN {r.value} ELSE {Bit(v, r.mask) : v \in Unsigned(r.value, 2^16)}
ValueAsFloat(r) == IF r.type = PLC_INTEGER /\ r.value # None THEN Signed(r.value) ELSE r.value
=============================================================================
