------------------------------ MODULE MBWrites ------------------------------
(***************************************************************************)
(* Values through the Modbus/TCP client: what a write puts into the coils  *)
(* and registers of a device, and what a reply is as a float or an integer *)
(* (MBClient.c).  Which reply a call takes is in MBClient.                 *)
(***************************************************************************)
EXTENDS Words, SequencesExt

CONSTANTS MaxWriteCoils,     \* 1968
          MaxWriteRegisters, \* 120
          RealBits,          \* the two words of the floats that are used, the low one first
          None

Client == INSTANCE MBClient WITH IdRange <- 2^16, WordRange <- 2^16, Registers <- 2^16,
                                 Transaction_Id <- 0, requests <- <<>>, replies <- <<>>, call <- None

-----------------------------------------------------------------------------
Entry(a) == Client!FTable[Client!C_F_Index(a)]
Coils(a) == Entry(a).read = "READ_COILS"

\* The write functions of the table; what can only be read has none.
WriteFunction(a, number) ==
    CASE Entry(a).read \in {"READ_INPUTS", "READ_INPUT_REGISTER"} -> None
      [] Coils(a) -> IF number > 1 THEN "WRITE_MULTIPLE_COILS" ELSE "WRITE_SINGLE_COILS"
      [] OTHER -> IF number > 1 \/ Entry(a).prefix # "none" THEN "WRITE_MULTIPLE_REGISTER"
                  ELSE "WRITE_SINGLE_REGISTER"

\* A request for more than fits is cut.
Clamped(function, type, number) ==
    CASE function = "WRITE_MULTIPLE_COILS" -> Client!Smaller(number, MaxWriteCoils)
      [] function = "WRITE_MULTIPLE_REGISTER" ->
            Client!Smaller(number, MaxWriteRegisters \div (Client!DataSize(type) \div 2))
      [] OTHER -> 1

-----------------------------------------------------------------------------
(***************************************************************************)
(* The device: coils and registers, [kind, address] of a table.            *)
(***************************************************************************)

Kind(read) == CASE read = "READ_COILS" -> "coil" [] read = "READ_INPUTS" -> "input"
                [] read = "READ_INPUT_REGISTER" -> "input_register" [] OTHER -> "register"

Address(a) == (a.number + Entry(a).offset) % 2^16
Cells(a, first, n) == {<<Kind(Entry(a).read), first + i>> : i \in 0 .. n - 1}

\* The words a value may be sent as, the low one in the first register, as
\* _mbswap_32 leaves them.
Sent(type, v) ==
    CASE type = "REAL" -> {RealBits[v]}
      [] type = "DINT" -> {<<Word(v), Word(v \div 2^16)>>} \union (IF v < 0 THEN {<<0, 0>>} ELSE {})
      [] OTHER -> {<<w>> : w \in Unsigned(v, 2^16)}

\* The words of values that have n each.
OneByOne(s, n) == [k \in 1 .. Len(s) * n |-> s[1 + (k - 1) \div n][1 + ((k - 1) % n)]]

\* _MBBuild_Write_Request: the words or coils of the first values.
Request(a, values) ==
    LET function == WriteFunction(a, Len(values))
        number == Clamped(function, Entry(a).type, Len(values)) IN
    IF function = "WRITE_MULTIPLE_COILS"
    THEN {[i \in 1 .. number |-> IF values[i] # 0 THEN 1 ELSE 0]}
    ELSE LET each == {[i \in 1 .. number |-> f[values[i]]] :
                         f \in [ToSet(values) -> UNION {Sent(Entry(a).type, v) : v \in ToSet(values)}]}
             right == {s \in each : \A i \in 1 .. number : s[i] \in Sent(Entry(a).type, values[i])} IN
         IF Coils(a) THEN {<<IF s[1][1] # 0 THEN 1 ELSE 0>> : s \in right}
         ELSE {OneByOne(s, Client!DataSize(Entry(a).type) \div 2) : s \in right}

Stored(table, a, words) ==
    LET kind == Kind(Entry(a).read) IN
    [c \in DOMAIN table |-> IF c[1] = kind /\ c[2] - Address(a) \in 0 .. Len(words) - 1
                            THEN words[c[2] - Address(a) + 1] ELSE table[c]]

Failed(table) == [table |-> table, res |-> -1]

\* Number in the reply of the device: of a single write the value.
Number(function, words) ==
    CASE function = "WRITE_SINGLE_COILS" -> IF words[1] # 0 THEN 65280 ELSE 0
      [] function = "WRITE_SINGLE_REGISTER" -> words[1]
      [] OTHER -> Len(words)

\* _MBWrite_Ext.  A write that is not answered may have been done.
Write_Ext(table, a, values) ==
    {Failed(table)} \union
    (IF WriteFunction(a, Len(values)) = None THEN {}
     ELSE UNION {IF Cells(a, Address(a), Len(words)) \subseteq DOMAIN table
                 THEN {Failed(Stored(table, a, words)),
                       [table |-> Stored(table, a, words),
                        res |-> Number(WriteFunction(a, Len(values)), words)]}
                 ELSE {} : words \in Request(a, values)})

\* _MBMask_Write, of any address.
Mask_Write(table, a, and, or) ==
    LET cell == <<"register", Address(a)>>
        w == OfBits((BitsOf(table[cell]) \cap and) \union (or \ and))
        done == [table EXCEPT ![cell] = w] IN
    {Failed(table)} \union
    IF cell \in DOMAIN table THEN {Failed(done), [table |-> done, res |-> 1]} ELSE {}

-----------------------------------------------------------------------------
\* The float of two words.
Real(hi, lo) == LET of == {v \in DOMAIN RealBits : RealBits[v] = <<lo, hi>>} IN
                IF of = {} THEN None ELSE CHOOSE v \in of : TRUE

\* _MBGetValueAsReal.  What _mbswap_16 and _mbswap_32 give is not negative,
\* of an IEC_INT and an IEC_DINT too.
AsReal(table, req, index) ==
    LET at == Client!ValueAt(req, index)
        w(i) == table[<<Kind(req.read), at.address + i>>] IN
    CASE at.type = "BIT" -> w(0)
      [] at.type \in {"INT", "UINT"} -> w(0)
      [] at.type = "DINT" -> Float(w(1) * 2^16 + w(0))
      [] at.type = "REAL" -> Real(w(1), w(0))

\* _MBGetValueAsInteger.  The float of a register is not converted, and the
\* index of a raw reply counts bytes.
AsInteger(table, req, index) ==
    LET at == Client!ValueAt(req, index)
        w(i) == table[<<Kind(req.read), at.address + i>>]
        byte(k) == LET b == Bytes(table[<<Kind(req.read), req.address + (k \div 2)>>]) IN b[2 - (k % 2)] IN
    CASE at.type = "BIT" -> w(0)
      [] req.type = "UNK" /\ at.type # "BIT" -> OfBytes(byte(index + 1), byte(index))
      [] at.type \in {"INT", "UINT"} -> w(0)
      [] req.type # "UNK" /\ at.type \in {"DINT", "REAL"} -> Double(w(1), w(0))

\* _MBRead_Ext, and the values of its reply.
Read_Ext(table, a, number, As(_, _, _)) ==
    LET req == Client!Ext(a, number) IN
    {None} \union
    (IF req.asked > 0 /\ Cells(a, req.address, req.asked) \subseteq DOMAIN table
     THEN {[i \in 1 .. number |-> As(table, req, i - 1)]} ELSE {})
=============================================================================
