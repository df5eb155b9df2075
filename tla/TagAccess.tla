------------------------------ MODULE TagAccess ------------------------------
(***************************************************************************)
(* Single reads and writes of a tag, from the text of its address to the   *)
(* cells of the device and back: readtag on PLC-5s, SLCs and Logix, and    *)
(* the DF1 and Modbus clients.                                             *)
(*                                                                         *)
(* A device is a table of cells, of a kind per client.  A command is an    *)
(* address with a value or None, and for Modbus a number of elements, how  *)
(* a reply is converted, and the bits a mask keeps and sets.  readtag      *)
(* reads the tag for its type, and with a value writes it and reads it     *)
(* again.                                                                  *)
(***************************************************************************)
EXTENDS Words

CONSTANTS Devices,     \* of every client: [cells, types, commands]
          Transports,  \* of readtag and of the tests of tuxeip
          MaxCommands, \* bound on the commands of a behaviour
          MaxWriteCoils, MaxWriteRegisters, RealBits, None

P == INSTANCE PcccCodec
L == INSTANCE LgxCodec
D == INSTANCE Df1Codec
M == INSTANCE MBWrites

VARIABLES client, transport,
          table,    \* the cells of the device
          before,   \* what they were when the command began
          cmd,
          todo,     \* the calls of the command still to be made
          type,     \* DataType, what ReadTag has found
          response, \* responseValue; None when nothing, or noise, is printed
          exit,     \* how the last command ended
          refused,  \* a write has been refused, whatever readtag makes of it
          commands
tagVars == <<client, transport, table, before, cmd, todo, type, response, exit, refused, commands>>

types == Devices[client].types

TagInit ==
    /\ client \in DOMAIN Devices
    /\ transport \in IF client \in {"PLC", "LGX"} THEN Transports ELSE {"line"}
    /\ table = Devices[client].cells /\ before = table
    /\ cmd = None /\ todo = <<>> /\ type = None /\ response = None /\ exit = "none"
    /\ refused = FALSE /\ commands = 0

-----------------------------------------------------------------------------
\* main: what Connect does, and for the other clients the call itself.
Calls(c) == IF client \in {"PLC", "LGX"}
            THEN IF c.value = None THEN <<"connect", "read">> ELSE <<"connect", "read", "write", "read">>
            ELSE IF client = "MB" /\ c.keep # None THEN <<"mask">>
            ELSE IF c.value = None THEN <<"read">> ELSE <<"write">>

BeginCommand ==
    /\ todo = <<>> /\ commands < MaxCommands
    /\ \E c \in Devices[client].commands : cmd' = c /\ todo' = Calls(c)
    /\ before' = table /\ type' = None /\ response' = None /\ exit' = "none" /\ refused' = FALSE
    /\ commands' = commands + 1
    /\ UNCHANGED <<client, transport, table>>

Does(call) == todo # <<>> /\ Head(todo) = call /\ UNCHANGED <<client, transport, before, cmd, commands>>

Ends(how) == todo' = <<>> /\ exit' = how
Goes == /\ todo' = Tail(todo)
        /\ exit' = IF Tail(todo) = <<>> THEN "ok" ELSE exit

Fails == Ends("error") /\ UNCHANGED <<table, type, response, refused>>
Prints(v) == response' = v /\ Goes /\ UNCHANGED <<table, refused>>

\* Connect.  A path without a comma leaves readtag without session: the
\* first request is a SIGSEGV, whose handler exits with 1.
Connect == Does("connect") /\ (Fails \/ (transport # "no_route" /\ Goes /\ UNCHANGED <<table, type, response, refused>>))

\* ReadTag of a PLC-5 or SLC.  An integer is read as a boolean, a structure
\* is an error.
ReadPLC ==
    /\ client = "PLC" /\ Does("read")
    /\ \E r \in P!ReadPLCData(table, types, transport, P!LogicalBinaryAddress(cmd.address)) :
          IF r = None \/ (r # None /\ r.type \notin {P!PLC_INTEGER, P!PLC_FLOATING}) THEN Fails
          ELSE /\ type' = r.type
               /\ \E v \in IF r.type = P!PLC_INTEGER THEN P!ValueAsBoolean(r) ELSE {P!ValueAsFloat(r)} : Prints(v)

\* WriteTag of a PLC-5 or SLC: any status is a success, and a bit is written
\* as its word.
WritePLC ==
    /\ client = "PLC" /\ Does("write")
    /\ \E w \in P!WritePLCData(table, types, transport, P!LogicalBinaryAddress(cmd.address), type,
                               IF type = P!PLC_INTEGER THEN Word(cmd.value) ELSE cmd.value) :
          /\ table' = w.table /\ refused' = w.refused
          /\ IF w.res > -1 THEN Goes ELSE Ends("error")
    /\ UNCHANGED <<type, response>>

\* ReadTag of a Logix.  A BOOL is 0 or 1; of an array of bits nothing is
\* printed.
ReadLGX ==
    /\ client = "LGX" /\ Does("read")
    /\ \E r \in L!ReadLgxData(table, types, cmd.address) :
          IF r = None THEN Fails
          ELSE /\ type' = r.type
               /\ CASE r.type = "BOOL" -> Prints(IF L!LGXValueAsFloat(r) # 0 THEN 1 ELSE 0)
                    [] r.type = "BITARRAY" -> Goes /\ UNCHANGED <<table, response, refused>>
                    [] OTHER -> Prints(L!LGXValueAsFloat(r))

\* WriteTag of a Logix; of an array of bits nothing is written.
WriteLGX ==
    /\ client = "LGX" /\ Does("write")
    /\ IF type = "BITARRAY" THEN Goes /\ refused' = TRUE /\ UNCHANGED table
       ELSE \E w \in L!WriteLgxData(table, types, cmd.address, type,
                                    IF type = "BOOL" /\ cmd.value # 0 THEN 1 ELSE cmd.value) :
               /\ table' = w.table /\ refused' = FALSE
               /\ IF w.res > 0 THEN Goes ELSE Ends("error")
    /\ UNCHANGED <<type, response>>

ReadDF1 ==
    /\ client = "DF1" /\ Does("read")
    /\ \E v \in D!ReadTag(table, cmd.address) :
          IF v = None THEN Fails ELSE Prints(v) /\ UNCHANGED type

WriteDF1 ==
    /\ client = "DF1" /\ Does("write")
    /\ \E w \in D!WriteTag(table, cmd.address, cmd.value) :
          table' = w.table /\ IF w.res = 0 THEN Goes ELSE Ends("error")
    /\ UNCHANGED <<type, response, refused>>

\* The values of a reply, all converted in the same way.
As(t, req, index) == IF cmd.as = "real" THEN M!AsReal(t, req, index) ELSE M!AsInteger(t, req, index)
ReadMB ==
    /\ client = "MB" /\ Does("read")
    /\ \E v \in M!Read_Ext(table, cmd.address, cmd.number, As) :
          IF v = None THEN Fails ELSE Prints(v) /\ UNCHANGED type

\* The Number of the reply is the response.
WriteMB ==
    /\ client = "MB" /\ Does("write")
    /\ \E w \in M!Write_Ext(table, cmd.address, cmd.value) :
          /\ table' = w.table /\ response' = w.res
          /\ IF w.res >= 0 THEN Goes ELSE Ends("error")
    /\ UNCHANGED <<type, refused>>

MaskMB ==
    /\ client = "MB" /\ Does("mask")
    /\ \E w \in M!Mask_Write(table, cmd.address, cmd.keep, cmd.set) :
          table' = w.table /\ IF w.res >= 0 THEN Goes ELSE Ends("error")
    /\ UNCHANGED <<type, response, refused>>

TagNext == BeginCommand \/ Connect \/ ReadPLC \/ WritePLC \/ ReadLGX \/ WriteLGX
              \/ ReadDF1 \/ WriteDF1 \/ ReadMB \/ WriteMB \/ MaskMB

TagSpec == TagInit /\ [][TagNext]_tagVars

-----------------------------------------------------------------------------
(***************************************************************************)
(* What an address stands for, from what it says and not how it is coded.  *)
(***************************************************************************)

\* The word of an address of a PLC-5 or SLC, and its bit or None.
Place(a) == <<a.file, a.element, CASE a.sub \in {"PRE", "LEN"} -> 1 [] a.sub \in {"ACC", "POS"} -> 2
                                   [] OTHER -> 0>>
BitMeant(a) == CASE a.sub = "EN" -> 15 [] a.sub = "TT" -> 14 [] a.sub = "DN" -> 13 [] OTHER -> a.bit

\* The first cell of a Modbus address, and how many an element has.  Of a
\* number of two registers the low word is in the first.
Area(n) == IF n < 100000 THEN <<"coil", n - 1>>
           ELSE IF n < 200000 THEN <<"input", n - 100001>>
           ELSE IF n < 400000 THEN <<"input_register", n - 300001>>
           ELSE <<"register", n - 400001>>
Width(a) == IF a.prefix = "none" THEN 1 ELSE 2
CellOf(a, k) == <<Area(a.number)[1], Area(a.number)[2] + k>>
ElementOf(t, a, i) ==
    LET w(j) == t[CellOf(a, Width(a) * (i - 1) + j)] IN
    CASE a.prefix = "D" -> Double(w(1), w(0))
      [] a.prefix = "F" -> M!Real(w(1), w(0))
      [] OTHER -> IF Area(a.number)[1] = "register" THEN Signed(w(0)) ELSE w(0)

-----------------------------------------------------------------------------
(***************************************************************************)
(* The devices and commands.                                               *)
(***************************************************************************)
WordRange == 0 .. 2^16 - 1
ValueOK(v) == v = None \/ v \in Int

\* The files of a PLC-5 or SLC: words, floats and structures of words.
FilesOK(d) ==
    /\ d.types \in [DOMAIN d.types -> P!PLC_INTEGER .. P!PLC_FLOATING]
    /\ DOMAIN d.cells \subseteq (DOMAIN d.types) \X WordRange \X WordRange
    /\ \A c \in DOMAIN d.cells :
          d.cells[c] \in IF d.types[c[1]] = P!PLC_FLOATING THEN Int ELSE WordRange

\* Its addresses: of a word or a bit of it, or a field or a flag of a
\* structure, with the letter that belongs to the file.
FileAddressOK(d, a) ==
    /\ a.letter \in {"B", "C", "F", "I", "N", "O", "R", "S", "T"}
    /\ {a.file, a.element} \subseteq WordRange
    /\ a.sub \in {None} \union D!Words3 \union D!Flags
    /\ a.bit \in {None} \union 0 .. 15
    /\ a.sub \in D!Flags => a.bit = None
    /\ a.letter = "F" => a.sub = None /\ a.bit = None
    /\ (a.letter = "O" => a.file = 0) /\ (a.letter = "I" => a.file = 1)
    /\ \A f \in {a.file, a.file % 256} \intersect (DOMAIN d.types) :
          /\ d.types[f] = P!PLC_FLOATING <=> a.letter = "F"
          /\ a.sub # None => d.types[f] \in P!PLC_TIMER .. P!PLC_CONTROL

\* The address of a tag of a Logix: names, and numbers as indices.
TagAddressOK(a) ==
    /\ a \in Seq([name : STRING, index : Nat]) /\ a # <<>>
    /\ \A i \in DOMAIN a : a[i].name = "[]" \/ a[i].index = 0
TagsOK(d) ==
    \A a \in DOMAIN d.cells :
        /\ TagAddressOK(a)
        /\ d.cells[a] \in IF d.types[a[1].name] = "BOOL" THEN {0, 1} ELSE Int
        /\ d.types[a[1].name] = "REAL" => Float(d.cells[a]) = d.cells[a]

\* An address of Modbus; only registers have a prefix.
ModbusAddressOK(a) ==
    /\ a.number \in Nat
    /\ \E base \in {0, 100000, 300000, 400000} : base < a.number /\ a.number <= base + 2^16
    /\ a.prefix \in IF a.number > 400000 THEN {"none", "D", "F"} ELSE {"none"}

\* A command for Modbus is for no more than a request may ask for, and its
\* values are floats that a C int holds.
ModbusOK(c) ==
    LET a == c.address IN
    /\ ModbusAddressOK(a)
    /\ c.number \in 1 .. (IF a.number < 300000 THEN 2000 ELSE 125 \div Width(a))
    /\ c.value # None =>
          /\ c.value \in Seq(Int) /\ c.value # <<>>
          /\ \A i \in DOMAIN c.value : /\ c.value[i] \div 2^16 \in -(2^15) .. 2^15 - 1
                                       /\ Float(c.value[i]) = c.value[i]
                                       /\ a.prefix = "F" => c.value[i] \in DOMAIN RealBits
    /\ c.keep # None => c.value = None

ASSUME TagAssumption ==
    /\ None \notin Int
    /\ \A w \in D!Words3 \union D!Flags : None # w
    /\ DOMAIN Devices \subseteq {"PLC", "DF1", "LGX", "MB"}
    /\ \A k \in (DOMAIN Devices) \intersect {"PLC", "DF1"} :
          /\ FilesOK(Devices[k])
          /\ \A c \in Devices[k].commands : FileAddressOK(Devices[k], c.address) /\ ValueOK(c.value)
    /\ "LGX" \in DOMAIN Devices =>
          /\ TagsOK(Devices["LGX"])
          /\ \A c \in Devices["LGX"].commands : TagAddressOK(c.address) /\ ValueOK(c.value)
    /\ "MB" \in DOMAIN Devices =>
          /\ DOMAIN Devices["MB"].cells
                 \subseteq {"coil", "input", "input_register", "register"} \X WordRange
          /\ \A c \in Devices["MB"].commands : ModbusOK(c)
    /\ MaxWriteCoils \in Nat \ {0} /\ MaxWriteRegisters \in Nat \ {0, 1}
    /\ RealBits \in [DOMAIN RealBits -> WordRange \X WordRange]

-----------------------------------------------------------------------------
\* What a command should print.
Meant(t, c) ==
    LET a == c.address IN
    CASE client \in {"PLC", "DF1"} -> IF BitMeant(a) # None THEN Bit(t[Place(a)], BitMeant(a))
                                      ELSE IF a.letter = "F" THEN t[Place(a)] ELSE Signed(t[Place(a)])
      [] client = "LGX" -> t[a]
      [] client = "MB" -> [i \in 1 .. c.number |-> ElementOf(t, a, i)]

Exists(t, a, n) == CASE client \in {"PLC", "DF1"} -> Place(a) \in DOMAIN t
                     [] client = "LGX" -> a \in DOMAIN t
                     [] client = "MB" -> \A k \in 0 .. n * Width(a) - 1 : CellOf(a, k) \in DOMAIN t

\* What the code is known to get wrong: in PLC.c the EN in LEN, and the bits
\* of a negative word; in df1.c fields of more than a byte, the flags EN and
\* DN and the word LEN; and in MBClient.c a negative number, but of two
\* registers and as an integer: else the number in the registers is taken
\* without sign.
HighWord(t, a, i) == t[CellOf(a, Width(a) * (i - 1) + (Width(a) - 1))]
Positive(t, c) ==
    \/ Area(c.address.number)[1] # "register" \/ c.address.prefix = "F"
    \/ c.address.prefix = "D" /\ c.as = "integer"
    \/ \A i \in 1 .. c.number : ~ HighWord(t, c.address, i) >= 2^15

Plain(t, c) ==
    LET a == c.address IN
    CASE client = "PLC" -> a.sub # "LEN" /\ (BitMeant(a) # None => t[Place(a)] < 2^15)
      [] client = "DF1" -> {a.file, a.element} \subseteq 0 .. 254 /\ a.sub \notin {"EN", "DN", "LEN"}
                           /\ (a.sub = None \/ a.bit = None)
      [] client = "LGX" -> \A i \in DOMAIN a : a[i].index < 2^16
      [] client = "MB" -> c.as = "real" \/ a.prefix # "F"

\* A number that is printed from a float.
Rounded(c, v) == CASE client = "LGX" -> Float(v)
                   [] client = "MB" /\ c.as = "real" /\ c.address.prefix = "D" -> [i \in DOMAIN v |-> Float(v[i])]
                   [] OTHER -> v

\* A command that ends well prints the value its address stands for: of the
\* word, the bit, the member or the registers that are meant, through the
\* coding of the address, the description of the data and the conversion of
\* the reply, and after a write the value of then.
ReadsAreMeant ==
    (/\ exit = "ok" /\ response # None /\ Plain(table, cmd)
     /\ client = "MB" => cmd.value = None /\ cmd.keep = None /\ Positive(table, cmd))
        => /\ Exists(table, cmd.address, IF client = "MB" THEN cmd.number ELSE 1)
           /\ response = Rounded(cmd, Meant(table, cmd))

-----------------------------------------------------------------------------
\* Values that are written as they are: bits of a PLC-5 or SLC through
\* readtag, negative values of registers, and values of a coil that do not
\* fit a word, are not.
Writable(c) ==
    LET a == c.address IN
    CASE client = "PLC" -> BitMeant(a) = None /\ (a.letter = "F" \/ c.value \in -(2^15) .. 2^15 - 1)
      [] client = "DF1" -> a.letter = "F" \/ c.value \in -(2^15) .. 2^15 - 1
      [] client = "LGX" -> c.value = L!Cut(types[a[1].name], c.value)
      [] client = "MB" -> \A i \in DOMAIN c.value :
                             c.value[i] >= 0 /\ (Area(a.number)[1] = "coil" => c.value[i] < 2^16)

\* The table when n values of the command are written.
MeantTable(c, n) ==
    LET a == c.address
        w == before[Place(a)] IN
    CASE n = 0 -> before
      [] n > 0 /\ client \in {"PLC", "DF1"} ->
            [before EXCEPT ![Place(a)] =
                IF BitMeant(a) # None
                THEN w + ((IF c.value # 0 THEN 1 ELSE 0) - Bit(w, BitMeant(a))) * 2^BitMeant(a)
                ELSE IF a.letter = "F" THEN c.value ELSE Word(c.value)]
      [] n > 0 /\ client = "LGX" ->
            [before EXCEPT ![a] = IF types[a[1].name] = "BOOL" /\ c.value # 0 THEN 1 ELSE c.value]
      [] n > 0 /\ client = "MB" ->
            [cell \in DOMAIN before |->
                LET i == 1 + (cell[2] - Area(a.number)[2]) \div Width(a)
                    low == (cell[2] - Area(a.number)[2]) % Width(a) = 0 IN
                IF cell[1] # Area(a.number)[1] \/ i \notin 1 .. n THEN before[cell]
                ELSE CASE cell[1] = "coil" -> IF c.value[i] # 0 THEN 1 ELSE 0
                       [] a.prefix = "D" -> IF low THEN Word(c.value[i]) ELSE c.value[i] \div 2^16
                       [] a.prefix = "F" -> RealBits[c.value[i]][IF low THEN 1 ELSE 2]
                       [] OTHER -> Word(c.value[i])]

\* A write, answered or not, changes the cells its address stands for to the
\* value, and no other, or nothing; and when it ends well, and was not
\* refused, it has been done, of as many values as the reply to a Modbus
\* write of several words tells.  A mask changes the bits that are not kept,
\* of one register.
WritesAreMeant ==
    /\ cmd # None => ((cmd.value # None /\ Plain(before, cmd) /\ Writable(cmd)) =>
          \E n \in 0 .. (IF client = "MB" THEN Len(cmd.value) ELSE 1) :
             /\ n > 0 => Exists(before, cmd.address, n)
             /\ table = MeantTable(cmd, n)
             /\ (exit = "ok" /\ ~refused) =>
                    /\ n > 0
                    /\ (client = "MB" /\ (Len(cmd.value) > 1 \/ Width(cmd.address) > 1)) =>
                           response = n * Width(cmd.address))
    /\ (client = "MB" /\ cmd # None) => ((cmd.keep # None /\ cmd.address.number > 400000) =>
          LET w == before[CellOf(cmd.address, 0)]
              masked == [before EXCEPT ![CellOf(cmd.address, 0)] =
                            OfBits((BitsOf(w) \cap cmd.keep) \union (cmd.set \ cmd.keep))] IN
          table = masked \/ (table = before /\ exit # "ok"))
=============================================================================
