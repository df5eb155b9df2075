------------------------------ MODULE MBClient ------------------------------
(***************************************************************************)
(* The Modbus/TCP client of src/modbus/src: what an address asks for, what *)
(* a value of a reply is the value of, and which reply a call takes.       *)
(*                                                                         *)
(* A value is modelled by its place in the device: the table, the address  *)
(* and the type it is read as, in a build whose long has 32 bits, as       *)
(* MBCommon.h says of MB_DINT.                                             *)
(***************************************************************************)
EXTENDS Integers, Sequences, SequencesExt

CONSTANTS IdRange,   \* a transaction id is a word: 2^16
          WordRange, \* so is an address: 2^16
          Registers, \* the device answers for the addresses 0 .. Registers - 1 of each table
          None

Reads    == {"READ_COILS", "READ_INPUTS", "READ_INPUT_REGISTER", "READ_HOLDING_REGISTER"}
Types    == {"BYTE", "UINT", "INT", "DINT", "REAL"}
Requests == [read : Reads, address : Nat, asked : Nat, number : Nat, type : Types \union {"UNK"}]
Places   == [read : Reads, address : Nat, type : Types \union {"BIT"}]

ASSUME MBAssumption ==
    /\ {IdRange, WordRange} \subseteq Nat \ {0} /\ Registers \in Nat
    /\ None \notin [id : Nat, req : Requests] \union Places

VARIABLES Transaction_Id,
          requests,  \* per connection, on the way to the device: what it has not answered
          replies,   \* per connection: in the receive buffer of the socket
          call       \* the request whose reply is awaited, or None

line == <<Transaction_Id, requests, replies, call>>

-----------------------------------------------------------------------------
(***************************************************************************)
(* Addresses.  An address is a number and a prefix, "none" if it has none. *)
(***************************************************************************)

Entry(low, high, prefix, read, offset, type) ==
    [low |-> low, high |-> high, prefix |-> prefix, read |-> read, offset |-> offset, type |-> type]

FTable == << Entry(1,      99999,  "none", "READ_COILS",            -1,      "BYTE"),
             Entry(100001, 199999, "none", "READ_INPUTS",           -100001, "BYTE"),
             Entry(300001, 399999, "none", "READ_INPUT_REGISTER",   -300001, "UINT"),
             Entry(400001, 499999, "none", "READ_HOLDING_REGISTER", -400001, "INT"),
             Entry(400001, 499999, "D",    "READ_HOLDING_REGISTER", -400001, "DINT"),
             Entry(400001, 499999, "F",    "READ_HOLDING_REGISTER", -400001, "REAL") >>

Serves(e, a) == e.low <= a.number /\ a.number <= e.high /\ e.prefix = a.prefix

\* _MBGetC_F_Index; an address that nothing serves is MBBadParameter.
C_F_Index(a) == IF \E i \in DOMAIN FTable : Serves(FTable[i], a)
                THEN CHOOSE i \in DOMAIN FTable :
                        Serves(FTable[i], a) /\ \A j \in 1 .. i - 1 : ~Serves(FTable[j], a)
                ELSE 0

DataSize(type) == IF type = "BYTE" THEN 1
                  ELSE IF type \in {"INT", "UINT"} THEN 2
                  ELSE IF type \in {"DINT", "UDINT", "REAL"} THEN 4 ELSE 0

Bits == {"READ_COILS", "READ_INPUTS"}
MaxNumber(read) == IF read \in Bits THEN 2000 ELSE 125

Smaller(m, n) == IF m < n THEN m ELSE n

\* _MBBuild_Read_Request: the number is cut to what a request may ask for,
\* the address to a word.
ReadRequest(a, number, type) ==
    LET e == FTable[C_F_Index(a)] IN
    [read |-> e.read, address |-> (a.number + e.offset) % WordRange,
     asked |-> Smaller(number, MaxNumber(e.read)), number |-> number, type |-> type]

\* _MBRead_Raw, which makes nothing of the type, and _MBRead_Ext.
Raw(a, number) == ReadRequest(a, number, "UNK")
Ext(a, number) ==
    LET type == FTable[C_F_Index(a)].type IN
    ReadRequest(a, IF DataSize(type) > 2 THEN 2 * number ELSE number, type)

\* Mutant: a raw register is counted in elements of four bytes.
ValueAt_Wide(req, index) ==
    IF index >= req.number THEN None
    ELSE [read |-> req.read, address |-> req.address + 2 * index,
          type |-> IF req.read \in Bits THEN "BIT" ELSE IF req.type = "UNK" THEN "REAL" ELSE req.type]

\* _MBGetValueAsReal: whose value the value with this index in the reply is.
\* Of a raw reply it is the float in two registers, whatever the tag is.
ValueAt(req, index) ==
    IF index >= req.number THEN None
    ELSE [read |-> req.read,
          address |-> req.address + (IF req.type \in {"DINT", "UDINT", "REAL"} THEN 2 * index ELSE index),
          type |-> IF req.read \in Bits THEN "BIT" ELSE IF req.type = "UNK" THEN "REAL" ELSE req.type]

-----------------------------------------------------------------------------
(***************************************************************************)
(* Calls.                                                                  *)
(***************************************************************************)

Quiet(connections) ==
    /\ Transaction_Id = 0 /\ call = None
    /\ requests = [c \in connections |-> <<>>] /\ replies = [c \in connections |-> <<>>]

\* Mutant: every request has the same transaction id.
NewId_Same == Transaction_Id

NewId == (Transaction_Id + 1) % IdRange

\* _MBSendData_WaitReply up to the wait: what has come too late for an
\* earlier call is thrown away.  The id is one more for every request, to
\* whatever connection.
Send(c, req) ==
    /\ Transaction_Id' = NewId
    /\ call' = [id |-> NewId, req |-> req]
    /\ requests' = [requests EXCEPT ![c] = Append(@, call')]
    /\ replies' = [replies EXCEPT ![c] = <<>>]

Fits(req) == req.asked > 0 /\ req.address + req.asked <= Registers

Reply(r) == [id |-> r.id, req |-> r.req, exception |-> ~Fits(r.req)]

\* The device answers the requests in their order, and a request for what it
\* does not have with an exception.
Answer(c) ==
    /\ requests[c] # <<>>
    /\ requests' = [requests EXCEPT ![c] = Tail(@)]
    /\ replies' = [replies EXCEPT ![c] = Append(@, Reply(Head(requests[c])))]
    /\ UNCHANGED <<Transaction_Id, call>>

\* The first reply that comes is taken, or refused when it is not to this
\* call.  Outcome is what ReadTag and ReadPacket see of it in mb_errno.
Outcome(r) == IF r.id # call.id THEN "negative"        \* MBUnsolicitedMsg
              ELSE IF r.exception THEN "positive" ELSE "data"

Receive(c) == /\ call # None /\ replies[c] # <<>>
              /\ replies' = [replies EXCEPT ![c] = Tail(@)] /\ call' = None
              /\ UNCHANGED <<Transaction_Id, requests>>

\* MBTimeOut, or an error of the socket.
GiveUp == /\ call # None /\ call' = None
          /\ UNCHANGED <<Transaction_Id, requests, replies>>

\* close: both directions are gone.
Close(c) == /\ requests' = [requests EXCEPT ![c] = <<>>]
            /\ replies' = [replies EXCEPT ![c] = <<>>]
=============================================================================
