------------------------------ MODULE EipLink ------------------------------
(***************************************************************************)
(* The requests tuxeip sends on one session, and which replies it takes    *)
(* for theirs.  A session is one TCP socket shared by every connection and *)
(* every unconnected request behind a gateway; a call sends one request    *)
(* and waits for one reply, at most session->timeout.  A reply that comes  *)
(* after its call has timed out stays on the socket: _CIPEmptyBuffer takes *)
(* away what is there before the next request is sent, and the next call   *)
(* must recognise what arrives later.                                      *)
(***************************************************************************)
EXTENDS Integers, Sequences, SequencesExt

CONSTANTS
    Conn,           \* addresses malloc may return for an Eip_Connection
    PacketRange,    \* the values of the CIP_INT connection->packet
    FlushCap,       \* replies that one recv of _CIPEmptyBuffer can hold
    MaxLate,        \* a gateway answers a request within that many calls
    MaxCalls        \* bound: the calls of a behaviour

ASSUME EipAssumption ==
    /\ PacketRange \in Nat /\ MaxLate \in Nat /\ MaxLate < PacketRange
    /\ FlushCap \in Nat /\ MaxLate <= FlushCap
    /\ MaxCalls \in Nat

VARIABLES
    pc,             \* "idle", "flushed" once, "emptied" twice, "waiting"
    call,           \* the call in progress, or the last one
    taken,          \* the reply the last call took for its own, or NoReply
    blocks,         \* the Eip_Connection blocks
    inflight,       \* the requests the gateway has not answered
    line,           \* the replies that have arrived and have not been read
    granted         \* the connections the PLC knows

vars == <<pc, call, taken, blocks, inflight, line, granted>>

(***************************************************************************)
(* A call is known by its number.  "unit" is ConnectedSend, "open" and     *)
(* "close" are Forward_Open and Forward_Close, "ucmm" UnconnectedSend.  A  *)
(* connection is known by the number of the Forward_Open that it comes     *)
(* from (OT_ConnID); Bad is what a reply gives that holds no OT_ConnID.    *)
(***************************************************************************)
Bad == 0
Free == [cid |-> -1, packet |-> 0]
NoConn == "none"
Id == 1 .. MaxCalls
Packet == 0 .. PacketRange - 1
Block == [cid : Id \union {Bad, -1}, packet : Packet]
Call == [id : Id \union {0}, kind : {"unit", "open", "close", "ucmm"},
         conn : Conn \union {NoConn}, cid : Id \union {Bad}, packet : Packet]
NoCall == [id |-> 0, kind |-> "ucmm", conn |-> NoConn, cid |-> Bad, packet |-> 0]

(* status: "ok", "error" of the PLC, "eip" of the gateway, without data.   *)
(* during: the call that had emptied the socket for the last time when the *)
(* reply arrived (ghost).                                                  *)
Reply == [to : Call, status : {"ok", "error", "eip"}, during : Id \union {0}]
NoReply == [to |-> NoCall, status |-> "eip", during |-> 0]

Command(kind) == IF kind = "unit" THEN "SENDUNITDATA" ELSE "SENDRRDATA"
Service(kind) == IF kind \in {"unit", "ucmm"} THEN "EXECUTE_PCCC" ELSE kind

NextPacket(n) == (n + 1) % PacketRange

Unresolved == inflight \union {r.to : r \in ToSet(line)}

-----------------------------------------------------------------------------
Init ==
    /\ pc = "idle"
    /\ call = NoCall
    /\ taken = NoReply
    /\ blocks = [c \in Conn |-> Free]
    /\ inflight = {} /\ line = <<>> /\ granted = {}

(* One select and one recv: what does not fit stays. *)
Flush(l) == SubSeq(l, FlushCap + 1, Len(l))

(* A call begins: the request is built and the socket is emptied once. *)
Begin(kind, c) ==
    /\ pc = "idle" /\ call.id < MaxCalls
    /\ \A r \in Unresolved : call.id + 1 - r.id <= MaxLate
    /\ call' = [id |-> call.id + 1, kind |-> kind, conn |-> c,
                cid |-> IF kind \in {"unit", "close"} THEN blocks[c].cid ELSE Bad,
                packet |-> IF kind = "unit" THEN NextPacket(blocks[c].packet)
                                            ELSE 0]
    /\ blocks' = IF kind = "unit"
                 THEN [blocks EXCEPT ![c].packet = NextPacket(@)]
                 ELSE blocks
    /\ pc' = "flushed"
    /\ line' = Flush(line)
    /\ taken' = NoReply
    /\ UNCHANGED <<inflight, granted>>

ConnectedSend(c) == blocks[c] # Free /\ Begin("unit", c)
ForwardOpen(c) == blocks[c] = Free /\ Begin("open", c)
ForwardClose(c) == blocks[c] # Free /\ Begin("close", c)
UnconnectedSend == Begin("ucmm", NoConn)

EmptyBuffer_Once ==
    /\ pc = "flushed"
    /\ pc' = "emptied"
    /\ UNCHANGED <<line, call, taken, blocks, inflight, granted>>

(* _CipSendData empties the socket a second time ...                       *)
EmptyBuffer ==
    /\ pc = "flushed"
    /\ pc' = "emptied"
    /\ line' = Flush(line)
    /\ UNCHANGED <<call, taken, blocks, inflight, granted>>

(* ... and sends the request: what comes in between stays on the socket.   *)
SendData ==
    /\ pc = "emptied"
    /\ pc' = "waiting"
    /\ inflight' = inflight \union {call}
    /\ UNCHANGED <<line, call, taken, blocks, granted>>

Accepts_AnyPacket(r) ==
    /\ r.status # "eip"
    /\ call.kind = "unit" => Command(r.to.kind) = "SENDUNITDATA"
    /\ call.kind = "ucmm" => Service(r.to.kind) = Service(call.kind)

(* ConnectedSend looks at the command and at the packet number;            *)
(* UnconnectedSend at the service, wherever the reply comes from;          *)
(* Forward_Open and Forward_Close at nothing.                              *)
Accepts(r) ==
    /\ r.status # "eip"
    /\ call.kind = "unit" => /\ Command(r.to.kind) = "SENDUNITDATA"
                             /\ r.to.packet = blocks[call.conn].packet
    /\ call.kind = "ucmm" => Service(r.to.kind) = Service(call.kind)

(* Forward_Open makes a connection of any MR reply, its status included,   *)
(* and of the id at the place of OT_ConnID; Forward_Close frees the block. *)
Built(accepted, r) ==
    CASE call.kind = "open" /\ accepted ->
            [blocks EXCEPT ![call.conn] =
                [cid |-> IF r.to.kind = "open" /\ r.status = "ok" THEN r.to.id
                                                                  ELSE Bad,
                 packet |-> 0]]
      [] call.kind = "close" -> [blocks EXCEPT ![call.conn] = Free]
      [] OTHER -> blocks

RecvData ==
    /\ pc = "waiting" /\ line # <<>>
    /\ pc' = "idle"
    /\ line' = Tail(line)
    /\ taken' = IF Accepts(Head(line)) THEN Head(line) ELSE NoReply
    /\ blocks' = Built(Accepts(Head(line)), Head(line))
    /\ UNCHANGED <<call, inflight, granted>>

TimesOut ==
    /\ pc = "waiting" /\ line = <<>>
    /\ pc' = "idle"
    /\ blocks' = Built(FALSE, NoReply)
    /\ UNCHANGED <<call, taken, inflight, line, granted>>

-----------------------------------------------------------------------------
(* The gateway and the PLCs behind it: requests for different PLCs are     *)
(* answered in any order, or never.                                        *)
Answers(r, status) ==
    /\ r \in inflight
    /\ r.kind = "unit" => (status # "eip" <=> r.cid \in granted)
    /\ granted' = CASE r.kind = "open" /\ status = "ok" -> granted \union {r.id}
                    [] r.kind = "close" /\ status = "ok" -> granted \ {r.cid}
                    [] OTHER -> granted
    /\ inflight' = inflight \ {r}
    /\ line' = Append(line, [to |-> r, status |-> status,
                             during |-> IF pc \in {"emptied", "waiting"}
                                        THEN call.id ELSE 0])
    /\ UNCHANGED <<pc, call, taken, blocks>>

NeverAnswers(r) ==
    /\ r \in inflight
    /\ inflight' = inflight \ {r}
    /\ UNCHANGED <<pc, call, taken, blocks, line, granted>>

PlcForgets(cid) ==
    /\ cid \in granted
    /\ granted' = granted \ {cid}
    /\ UNCHANGED <<pc, call, taken, blocks, inflight, line>>

Next == \/ \E c \in Conn : ConnectedSend(c) \/ ForwardOpen(c) \/ ForwardClose(c)
        \/ UnconnectedSend
        \/ EmptyBuffer \/ SendData \/ RecvData \/ TimesOut
        \/ \E r \in inflight :
              \/ \E status \in {"ok", "error", "eip"} : Answers(r, status)
              \/ NeverAnswers(r)
        \/ \E cid \in granted : PlcForgets(cid)

Spec == Init /\ [][Next]_vars

-----------------------------------------------------------------------------
(* The types of the variables: in C those of the packet number and of the blocks. *)
TypeOK ==
    /\ pc \in {"idle", "flushed", "emptied", "waiting"}
    /\ call \in Call
    /\ taken \in Reply
    /\ blocks \in [Conn -> Block]
    /\ inflight \subseteq Call
    /\ line \in Seq(Reply)
    /\ granted \subseteq Id

(* A reply that was on the socket when a call emptied it for the last time *)
(* is never taken for its answer, were all the late replies to arrive at   *)
(* once just before.  One that comes between this and the send may be.     *)
FlushedIsNotTaken == TypeOK /\ (taken # NoReply => taken.during = call.id)

(* A connected request never takes the reply to an earlier request of the  *)
(* same connection, however late and across the wrap of the packet number. *)
NoCrossTalk ==
    taken # NoReply /\ call.kind = "unit" /\ taken.to.kind = "unit"
       /\ taken.to.conn = call.conn /\ taken.to.cid = call.cid => taken.to = call
=============================================================================
