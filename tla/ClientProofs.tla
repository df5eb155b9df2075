---------------------------- MODULE ClientProofs ----------------------------
(***************************************************************************)
(* Proofs about the client libraries and readtag: first the session of     *)
(* tuxeip, that a call takes its own reply and what a connection then      *)
(* knows (EipLink), then single reads and writes of a tag by readtag and   *)
(* the DF1 and Modbus clients, that an address is coded and decoded to the *)
(* cells it stands for and a value to what is printed or written           *)
(* (TagAccess).                                                            *)
(***************************************************************************)
EXTENDS EipLink, TagAccess, FiniteSetTheorems, SequenceTheorems, WellFoundedInduction, TLAPS

USE EipAssumption

Kinds == {"unit", "open", "close", "ucmm"}

\* The requests that may still meet a reply, the one about to be sent included.
Pending == inflight \cup {line[i].to : i \in 1 .. Len(line)} \cup {m \in {call} : pc \in {"flushed", "emptied"}}

Types ==
    /\ TypeOK
    /\ \A c \in Conn : blocks[c] = Free \/ blocks[c].cid \in Id \cup {Bad}
    /\ \A m \in inflight : m.id \in Id
    /\ pc # "idle" => /\ call.id \in Id
                      /\ call.kind # "ucmm" => call.conn \in Conn
                      /\ call.kind = "unit" => /\ call.cid = blocks[call.conn].cid
                                               /\ call.packet = blocks[call.conn].packet

-----------------------------------------------------------------------------
(* The socket: what is read goes from its front.                           *)
Shift(d) == /\ line' \in Seq(Reply) /\ Len(line') \in Nat
            /\ \A i \in 1 .. Len(line') : i + d \in 1 .. Len(line) /\ line'[i] = line[i + d]

LEMMA LineTyped ==
    ASSUME Types
    PROVE  /\ line \in Seq(Reply) /\ Len(line) \in Nat
           /\ \A i \in 1 .. Len(line) : line[i] \in Reply
<1>1. line \in Seq(Reply)
  BY DEF Types, TypeOK
<1> QED
  BY <1>1, LenProperties, ElementOfSeq

LEMMA FlushShifts == ASSUME Types, line' = Flush(line) PROVE Shift(FlushCap)
<1>1. FlushCap + 1 \in Int /\ Len(line) \in Int /\ \A i \in FlushCap + 1 .. Len(line) : line[i] \in Reply
  BY LineTyped
<1>2. /\ line' \in Seq(Reply)
      /\ Len(line') = IF FlushCap + 1 <= Len(line) THEN Len(line) - (FlushCap + 1) + 1 ELSE 0
      /\ \A i \in 1 .. Len(line) - (FlushCap + 1) + 1 : line'[i] = line[(FlushCap + 1) + i - 1]
  BY <1>1, SubSeqProperties DEF Flush
<1>3. Len(line') \in Nat /\ \A i \in 1 .. Len(line') : i + FlushCap \in 1 .. Len(line)
  BY <1>1, <1>2
<1>4. \A i \in 1 .. Len(line') : line'[i] = line[i + FlushCap]
  <2>1. ASSUME NEW i \in 1 .. Len(line') PROVE line'[i] = line[i + FlushCap]
    <3>1. i \in 1 .. Len(line) - (FlushCap + 1) + 1 /\ (FlushCap + 1) + i - 1 = i + FlushCap
      BY <1>1, <1>2
    <3> QED
      BY <1>2, <3>1
  <2> QED
    BY <2>1
<1> QED
  BY <1>2, <1>3, <1>4 DEF Shift

LEMMA TailShifts == ASSUME Types, line # <<>>, line' = Tail(line)
                    PROVE  Shift(1) /\ Len(line) >= 1 /\ Head(line) = line[1] /\ Head(line) \in Reply
<1>1. /\ line' \in Seq(Reply) /\ Head(line) \in Reply /\ Len(line') = Len(line) - 1
      /\ \A i \in 1 .. Len(line') : line'[i] = line[i + 1]
  BY LineTyped, HeadTailProperties
<1>2. Len(line) \in Nat /\ Len(line) >= 1 /\ Head(line) = line[1]
  BY LineTyped, EmptySeq
<1> QED
  BY <1>1, <1>2 DEF Shift

LEMMA SameShifts == ASSUME Types, UNCHANGED line PROVE Shift(0)
BY LineTyped DEF Shift

\* A reply comes to the end of what is there.
LEMMA AnswerComes ==
    ASSUME Types, NEW r \in inflight, NEW status \in {"ok", "error", "eip"}, Answers(r, status)
    PROVE  /\ line' \in Seq(Reply) /\ Len(line') = Len(line) + 1 /\ Len(line) \in Nat
           /\ \A i \in 1 .. Len(line) : line'[i] = line[i]
           /\ line'[Len(line) + 1].to = r /\ line'[Len(line) + 1].status = status
           /\ pc \in {"emptied", "waiting"} => line'[Len(line) + 1].during = call.id
<1> DEFINE e == [to |-> r, status |-> status, during |-> IF pc \in {"emptied", "waiting"} THEN call.id ELSE 0]
<1>1. e \in Reply
  BY DEF Types, TypeOK, Reply, Call
<1>2. line' = Append(line, e)
  BY DEF Answers
<1> HIDE DEF e
<1>3. /\ line' \in Seq(Reply) /\ Len(line') = Len(line) + 1 /\ Len(line) \in Nat
      /\ \A i \in 1 .. Len(line) : line'[i] = line[i]
      /\ line'[Len(line) + 1] = e
  BY <1>1, <1>2, LineTyped, AppendProperties
<1> QED
  BY <1>3 DEF e

-----------------------------------------------------------------------------
(* The steps.                                                              *)
Begun(kind, c) == /\ Begin(kind, c)
                  /\ kind # "ucmm" => c \in Conn
                  /\ kind \in {"unit", "close"} => blocks[c] # Free

LEMMA Steps ==
    ASSUME Types, [Next]_vars
    PROVE  \/ \E kind \in Kinds, c \in Conn \cup {NoConn} : Begun(kind, c)
           \/ EmptyBuffer \/ SendData \/ RecvData \/ TimesOut
           \/ \E r \in inflight, status \in {"ok", "error", "eip"} : Answers(r, status)
           \/ \E r \in inflight : NeverAnswers(r)
           \/ \E cid \in granted : PlcForgets(cid)
           \/ UNCHANGED vars
<1>1. ASSUME NEW c \in Conn, ConnectedSend(c) \/ ForwardOpen(c) \/ ForwardClose(c)
      PROVE  \E kind \in Kinds : Begun(kind, c)
  <2>1. CASE ConnectedSend(c)
    <3>1. Begun("unit", c)
      BY <2>1 DEF ConnectedSend, Begun
    <3> QED
      BY <3>1 DEF Kinds
  <2>2. CASE ForwardOpen(c)
    <3>1. Begun("open", c)
      BY <2>2 DEF ForwardOpen, Begun
    <3> QED
      BY <3>1 DEF Kinds
  <2>3. CASE ForwardClose(c)
    <3>1. Begun("close", c)
      BY <2>3 DEF ForwardClose, Begun
    <3> QED
      BY <3>1 DEF Kinds
  <2> QED
    BY <1>1, <2>1, <2>2, <2>3
<1>2. CASE UnconnectedSend
  <2>1. Begun("ucmm", NoConn)
    BY <1>2 DEF UnconnectedSend, Begun
  <2> QED
    BY <2>1 DEF Kinds
<1> QED
  BY <1>1, <1>2 DEF Next

LEMMA Packets == ASSUME NEW p \in Packet
                 PROVE  NextPacket(p) \in Packet /\ NextPacket(p) \in {p + 1, p + 1 - PacketRange}
<1>1. CASE p + 1 < PacketRange
  BY <1>1 DEF Packet, NextPacket
<1>2. CASE p + 1 = PacketRange
  BY <1>2 DEF Packet, NextPacket
<1> QED
  BY <1>1, <1>2 DEF Packet

LEMMA ZeroPacket == 0 \in Packet
BY DEF Packet

\* What the steps do, in the terms of the proofs.
LEMMA Beginning ==
    ASSUME Types, NEW kind \in Kinds, NEW c \in Conn \cup {NoConn}, Begun(kind, c)
    PROVE  /\ pc = "idle" /\ pc' = "flushed" /\ taken' = NoReply
           /\ UNCHANGED <<inflight, granted>>
           /\ call.id \in Nat /\ call'.id = call.id + 1 /\ call'.id \in Id
           /\ call' \in Call /\ call'.kind = kind /\ call'.conn = c
           /\ kind \in {"unit", "close"} => c \in Conn /\ call'.cid = blocks[c].cid
           /\ kind \notin {"unit", "close"} => call'.cid = Bad
           /\ kind = "unit" => /\ call'.packet = NextPacket(blocks[c].packet)
                               /\ blocks' = [blocks EXCEPT ![c].packet = NextPacket(@)]
           /\ kind # "unit" => blocks' = blocks
           /\ Shift(FlushCap)
<1>1. /\ pc = "idle" /\ pc' = "flushed" /\ taken' = NoReply /\ UNCHANGED <<inflight, granted>>
      /\ call.id < MaxCalls /\ line' = Flush(line)
      /\ call' = [id |-> call.id + 1, kind |-> kind, conn |-> c,
                  cid |-> IF kind \in {"unit", "close"} THEN blocks[c].cid ELSE Bad,
                  packet |-> IF kind = "unit" THEN NextPacket(blocks[c].packet) ELSE 0]
      /\ blocks' = IF kind = "unit" THEN [blocks EXCEPT ![c].packet = NextPacket(@)] ELSE blocks
  BY DEF Begun, Begin
<1>2. call.id \in Nat /\ call.id + 1 \in Id
  BY <1>1 DEF Types, TypeOK, Call, Id
<1>3. kind \in {"unit", "close"} => c \in Conn /\ blocks[c].cid \in Id \cup {Bad}
  BY DEF Begun, Types
<1>4. kind = "unit" => NextPacket(blocks[c].packet) \in Packet
  <2> SUFFICES ASSUME kind = "unit" PROVE NextPacket(blocks[c].packet) \in Packet
    OBVIOUS
  <2>1. blocks[c].packet \in Packet
    BY <1>3 DEF Types, TypeOK, Block
  <2> QED
    BY <2>1, Packets
<1>5. call' \in Call
  BY <1>1, <1>2, <1>3, <1>4, ZeroPacket DEF Call, Kinds
<1>6. Shift(FlushCap)
  BY <1>1, FlushShifts
<1> QED
  BY <1>1, <1>2, <1>3, <1>5, <1>6

LEMMA Building ==
    ASSUME Types, pc # "idle", NEW a \in BOOLEAN, NEW r \in Reply, blocks' = Built(a, r)
    PROVE  \/ /\ call.kind = "open" /\ a /\ call.conn \in Conn
              /\ \/ /\ r.to.kind = "open" /\ r.to.id \in Id \cup {0}
                    /\ blocks' = [blocks EXCEPT ![call.conn] = [cid |-> r.to.id, packet |-> 0]]
                 \/ blocks' = [blocks EXCEPT ![call.conn] = [cid |-> Bad, packet |-> 0]]
           \/ /\ call.kind = "close" /\ call.conn \in Conn
              /\ blocks' = [blocks EXCEPT ![call.conn] = Free]
           \/ call.kind # "close" /\ blocks' = blocks
<1>1. r.to.id \in Id \cup {0}
  BY DEF Reply, Call
<1>2. call.kind # "ucmm" => call.conn \in Conn
  BY DEF Types
<1> QED
  BY <1>1, <1>2 DEF Built

LEMMA Received ==
    ASSUME Types, RecvData
    PROVE  /\ pc = "waiting" /\ pc' = "idle" /\ UNCHANGED <<call, inflight, granted>>
           /\ Shift(1) /\ Len(line) >= 1 /\ line[1] \in Reply
           /\ taken' = (IF Accepts(line[1]) THEN line[1] ELSE NoReply)
           /\ blocks' = Built(Accepts(line[1]), line[1])
           /\ Accepts(line[1]) \in BOOLEAN
<1>1. line # <<>> /\ line' = Tail(line)
  BY DEF RecvData
<1>2. Shift(1) /\ Len(line) >= 1 /\ Head(line) = line[1] /\ line[1] \in Reply
  BY <1>1, TailShifts
<1>3. Accepts(line[1]) \in BOOLEAN
  BY DEF Accepts
<1> QED
  BY <1>2, <1>3 DEF RecvData

-----------------------------------------------------------------------------
(* Types.                                                                  *)
LEMMA InitTypes == Init => Types
<1> SUFFICES ASSUME Init PROVE Types
  OBVIOUS
<1>1. NoCall \in Call /\ Free \in Block
  BY ZeroPacket DEF NoCall, Call, Free, Block
<1>2. NoReply \in Reply
  BY <1>1 DEF NoReply, Reply
<1>3. line \in Seq(Reply)
  BY EmptySeq DEF Init
<1> QED
  BY <1>1, <1>2, <1>3 DEF Init, Types, TypeOK

LEMMA NextTypes == Types /\ [Next]_vars => Types'
<1> SUFFICES ASSUME Types, [Next]_vars PROVE Types'
  OBVIOUS
<1>0. NoReply \in Reply /\ Free \in Block
  BY ZeroPacket DEF NoReply, NoCall, Call, Reply, Free, Block
<1>1. ASSUME NEW kind \in Kinds, NEW c \in Conn \cup {NoConn}, Begun(kind, c) PROVE Types'
  <2>1. line' \in Seq(Reply)
    BY <1>1, Beginning DEF Shift
  <2>2. CASE kind = "unit"
    <3>1. c \in Conn /\ blocks' = [blocks EXCEPT ![c].packet = NextPacket(@)]
          /\ blocks[c].cid \in Id \cup {Bad} /\ blocks[c] \in Block
      BY <1>1, <2>2, Beginning DEF Begun, Types, TypeOK
    <3>2. NextPacket(blocks[c].packet) \in Packet
      BY <3>1, Packets DEF Block
    <3>3. /\ blocks' \in [Conn -> Block]
          /\ blocks'[c].cid = blocks[c].cid /\ blocks'[c].packet = NextPacket(blocks[c].packet)
          /\ \A d \in Conn : d # c => blocks'[d] = blocks[d]
      BY <3>1, <3>2 DEF Types, TypeOK, Block
    <3>4. \A d \in Conn : blocks'[d] = Free \/ blocks'[d].cid \in Id \cup {Bad}
      BY <3>1, <3>3 DEF Types
    <3> QED
      BY <1>0, <1>1, <2>1, <2>2, <3>1, <3>3, <3>4, Beginning DEF Types, TypeOK
  <2>3. CASE kind # "unit"
    BY <1>0, <1>1, <2>1, <2>3, Beginning DEF Types, TypeOK, Kinds, Begun
  <2> QED
    BY <2>2, <2>3
<1>2. CASE EmptyBuffer
  <2>1. line' \in Seq(Reply)
    BY <1>2, FlushShifts DEF EmptyBuffer, Shift
  <2> QED
    BY <1>2, <2>1 DEF EmptyBuffer, Types, TypeOK
<1>c. CASE SendData
  BY <1>c DEF SendData, Types, TypeOK
<1>b. ASSUME pc # "idle", pc' = "idle", NEW a \in BOOLEAN, NEW r \in Reply, blocks' = Built(a, r)
      PROVE  /\ blocks' \in [Conn -> Block]
             /\ \A c \in Conn : blocks'[c] = Free \/ blocks'[c].cid \in Id \cup {Bad}
  <2>1. \A n \in Id \cup {0} : /\ [cid |-> n, packet |-> 0] \in Block
                              /\ [cid |-> n, packet |-> 0].cid \in Id \cup {Bad}
    BY ZeroPacket DEF Block, Bad
  <2>3. blocks \in [Conn -> Block] /\ \A c \in Conn : blocks[c] = Free \/ blocks[c].cid \in Id \cup {Bad}
    BY DEF Types, TypeOK
  <2>2. \A n \in Id \cup {0} :
            call.conn \in Conn /\ blocks' = [blocks EXCEPT ![call.conn] = [cid |-> n, packet |-> 0]] =>
            /\ blocks' \in [Conn -> Block]
            /\ \A c \in Conn : blocks'[c] = Free \/ blocks'[c].cid \in Id \cup {Bad}
    BY <2>1, <2>3
  <2>4. call.conn \in Conn /\ blocks' = [blocks EXCEPT ![call.conn] = Free] =>
            /\ blocks' \in [Conn -> Block]
            /\ \A c \in Conn : blocks'[c] = Free \/ blocks'[c].cid \in Id \cup {Bad}
    BY <1>0, <2>3
  <2>5. Bad \in Id \cup {0}
    BY DEF Bad
  <2> QED
    BY <1>b, <2>2, <2>3, <2>4, <2>5, Building
<1>3. CASE RecvData
  <2>1. line' \in Seq(Reply)
    BY <1>3, Received DEF Shift
  <2>2. taken' \in Reply
    BY <1>0, <1>3, Received
  <2>3. /\ blocks' \in [Conn -> Block]
        /\ \A c \in Conn : blocks'[c] = Free \/ blocks'[c].cid \in Id \cup {Bad}
    BY <1>3, <1>b, Received
  <2> QED
    BY <1>3, <2>1, <2>2, <2>3, Received DEF Types, TypeOK
<1>4. CASE TimesOut
  <2>1. /\ blocks' \in [Conn -> Block]
        /\ \A c \in Conn : blocks'[c] = Free \/ blocks'[c].cid \in Id \cup {Bad}
    BY <1>0, <1>4, <1>b DEF TimesOut
  <2> QED
    BY <1>4, <2>1 DEF TimesOut, Types, TypeOK
<1>5. ASSUME NEW r \in inflight, NEW status \in {"ok", "error", "eip"}, Answers(r, status) PROVE Types'
  <2>1. line' \in Seq(Reply)
    BY <1>5, AnswerComes
  <2>2. inflight' \subseteq Call /\ \A m \in inflight' : m.id \in Id
    BY <1>5 DEF Answers, Types, TypeOK
  <2>3. UNCHANGED <<pc, call, taken, blocks>>
    BY <1>5 DEF Answers
  <2>4. granted' \subseteq Id
    BY <1>5 DEF Answers, Types, TypeOK
  <2> QED
    BY <2>1, <2>2, <2>3, <2>4 DEF Types, TypeOK
<1>6. ASSUME NEW r \in inflight, NeverAnswers(r) PROVE Types'
  BY <1>6 DEF NeverAnswers, Types, TypeOK
<1>7. ASSUME NEW cid \in granted, PlcForgets(cid) PROVE Types'
  BY <1>7 DEF PlcForgets, Types, TypeOK
<1>8. CASE UNCHANGED vars
  BY <1>8 DEF vars, Types, TypeOK
<1> QED
  BY <1>1, <1>2, <1>c, <1>3, <1>4, <1>5, <1>6, <1>7, <1>8, Steps

-----------------------------------------------------------------------------
(* The requests that are pending.                                          *)
LEMMA InPending ==
    ASSUME NEW m
    PROVE  m \in Pending <=> \/ m \in inflight
                             \/ \E i \in 1 .. Len(line) : m = line[i].to
                             \/ pc \in {"flushed", "emptied"} /\ m = call
BY DEF Pending

LEMMA PendingTyped == Types => Pending \subseteq Call
BY LineTyped DEF Pending, Types, TypeOK, Reply

LEMMA StillPending ==
    ASSUME Types, NEW d, Shift(d), NEW m, NEW i \in 1 .. Len(line'), m = line'[i].to
    PROVE  m \in Pending
<1>1. i + d \in 1 .. Len(line) /\ m = line[i + d].to
  BY DEF Shift
<1> QED
  BY <1>1 DEF Pending

LEMMA PendingOfBegin ==
    ASSUME Types, NEW kind \in Kinds, NEW c \in Conn \cup {NoConn}, Begun(kind, c)
    PROVE  \A m \in Pending' : m \in Pending \/ m = call'
<1> SUFFICES ASSUME NEW m \in Pending', m # call' PROVE m \in Pending
  OBVIOUS
<1>1. m \in inflight \/ \E i \in 1 .. Len(line') : m = line'[i].to
  BY Beginning DEF Pending
<1>2. Shift(FlushCap)
  BY Beginning
<1> QED
  BY StillPending, <1>1, <1>2 DEF Pending

LEMMA NoBegin ==
    ASSUME Types, UNCHANGED call, NEW kind \in Kinds, NEW c \in Conn \cup {NoConn}
    PROVE  ~ Begun(kind, c)
<1> SUFFICES ASSUME Begun(kind, c) PROVE FALSE
  OBVIOUS
<1>1. call.id \in Nat /\ call'.id = call.id + 1
  BY Beginning
<1> QED
  BY <1>1

LEMMA PendingChange ==
    ASSUME Types, [Next]_vars
    PROVE  \/ \E kind \in Kinds, c \in Conn \cup {NoConn} :
                 Begun(kind, c) /\ \A m \in Pending' : m \in Pending \/ m = call'
           \/ UNCHANGED call /\ (pc' # "idle" => pc # "idle") /\ Pending' \subseteq Pending
<1>1. ASSUME NEW kind \in Kinds, NEW c \in Conn \cup {NoConn}, Begun(kind, c)
      PROVE  \A m \in Pending' : m \in Pending \/ m = call'
  BY <1>1, PendingOfBegin
<1>2. CASE EmptyBuffer
  <2>1. Shift(FlushCap)
    BY <1>2, FlushShifts DEF EmptyBuffer
  <2>2. ASSUME NEW m \in Pending' PROVE m \in Pending
    <3>1. m \in inflight \/ m = call \/ \E i \in 1 .. Len(line') : m = line'[i].to
      BY <1>2 DEF Pending, EmptyBuffer
    <3>2. pc = "flushed"
      BY <1>2 DEF EmptyBuffer
    <3> QED
      BY StillPending, <2>1, <3>1, <3>2 DEF Pending
  <2> QED
    BY <1>2, <2>2 DEF EmptyBuffer
<1>c. CASE SendData
  BY <1>c DEF SendData, Pending
<1>3. CASE RecvData
  <2>1. ASSUME NEW m \in Pending' PROVE m \in Pending
    <3>1. m \in inflight \/ \E i \in 1 .. Len(line') : m = line'[i].to
      BY <1>3, Received DEF Pending
    <3>2. Shift(1)
      BY <1>3, Received
    <3> QED
      BY StillPending, <3>1, <3>2 DEF Pending
  <2> QED
    BY <1>3, <2>1, Received
<1>4. CASE TimesOut
  BY <1>4 DEF TimesOut, Pending
<1>5. ASSUME NEW r \in inflight, NEW status \in {"ok", "error", "eip"}, Answers(r, status)
      PROVE  UNCHANGED <<call, pc>> /\ Pending' \subseteq Pending
  <2>1. UNCHANGED <<call, pc>> /\ inflight' \subseteq inflight
    BY <1>5 DEF Answers
  <2>2. ASSUME NEW i \in 1 .. Len(line') PROVE line'[i].to \in Pending
    <3>0. /\ Len(line') = Len(line) + 1 /\ Len(line) \in Nat
          /\ \A j \in 1 .. Len(line) : line'[j] = line[j]
          /\ line'[Len(line) + 1].to = r
      BY <1>5, AnswerComes
    <3>1. CASE i \in 1 .. Len(line)
      BY <3>0, <3>1 DEF Pending
    <3>2. CASE i = Len(line) + 1
      BY <3>0, <3>2 DEF Pending
    <3> QED
      BY <3>0, <3>1, <3>2
  <2> QED
    BY <2>1, <2>2 DEF Pending
<1>6. ASSUME NEW r \in inflight, NeverAnswers(r)
      PROVE  UNCHANGED <<call, pc>> /\ Pending' \subseteq Pending
  BY <1>6 DEF NeverAnswers, Pending
<1>7. ASSUME NEW cid \in granted, PlcForgets(cid)
      PROVE  UNCHANGED <<call, pc>> /\ Pending' \subseteq Pending
  BY <1>7 DEF PlcForgets, Pending
<1>8. CASE UNCHANGED vars
  BY <1>8 DEF vars, Pending
<1> QED
  BY <1>1, <1>2, <1>c, <1>3, <1>4, <1>5, <1>6, <1>7, <1>8, Steps

\* The blocks change when a call begins and when Forward_Open or
\* Forward_Close ends.
LEMMA BlocksChange ==
    ASSUME Types, [Next]_vars
    PROVE  \/ \E kind \in Kinds, c \in Conn \cup {NoConn} : Begun(kind, c)
           \/ UNCHANGED <<call, blocks>>
           \/ /\ call.conn \in Conn /\ UNCHANGED call /\ pc' = "idle"
              /\ \/ blocks' = [blocks EXCEPT ![call.conn] = Free]
                 \/ blocks' = [blocks EXCEPT ![call.conn] = [cid |-> Bad, packet |-> 0]]
                 \/ /\ RecvData /\ line[1].to.kind = "open" /\ line[1].to \in Pending
                    /\ blocks' = [blocks EXCEPT ![call.conn] = [cid |-> line[1].to.id, packet |-> 0]]
<1>1. CASE RecvData
  <2>1. line[1].to \in Pending /\ pc # "idle"
    BY <1>1, Received DEF Pending
  <2> QED
    BY <1>1, <2>1, Received, Building
<1>2. CASE TimesOut
  <2>1. pc # "idle" /\ blocks' = Built(FALSE, NoReply) /\ UNCHANGED call /\ pc' = "idle" /\ NoReply \in Reply
    BY <1>2, ZeroPacket DEF TimesOut, NoReply, NoCall, Reply, Call
  <2> QED
    BY <2>1, Building
<1> QED
  BY <1>1, <1>2, Steps DEF EmptyBuffer, SendData, Answers, NeverAnswers, PlcForgets, vars

-----------------------------------------------------------------------------
(* Numbers: what is pending is recent, and no two requests have the same.  *)
Window ==
    /\ \A c \in Conn : blocks[c].cid <= call.id
    /\ \A m \in Pending : /\ m.id \in Id /\ m.id <= call.id /\ call.id - m.id <= MaxLate
                          /\ m.cid <= call.id

Distinct ==
    /\ \A i, j \in 1 .. Len(line) : line[i].to.id = line[j].to.id => i = j
    /\ \A i \in 1 .. Len(line), m \in inflight : line[i].to.id # m.id
    /\ \A m, n \in inflight : m.id = n.id => m = n
    /\ pc \in {"flushed", "emptied"} => /\ \A m \in inflight : m.id # call.id
                                        /\ \A i \in 1 .. Len(line) : line[i].to.id # call.id
    /\ \A m \in Pending : m.id = call.id => m = call

LEMMA Numbers ==
    ASSUME Types
    PROVE  /\ call.id \in Nat /\ Id \subseteq Nat /\ Bad = 0 /\ MaxLate \in Nat
           /\ \A m \in Pending : m.id \in Int /\ m.cid \in Int
           /\ \A c \in Conn : blocks[c] \in Block /\ blocks[c].cid \in Int
<1>1. call.id \in Nat /\ Id \subseteq Nat /\ Bad = 0
  BY DEF Types, TypeOK, Call, Id, Bad
<1>2. \A m \in Call : m.id \in Int /\ m.cid \in Int
  BY DEF Call, Id, Bad
<1>3. \A c \in Conn : blocks[c] \in Block /\ blocks[c].cid \in Int
  BY DEF Types, TypeOK, Block, Id, Bad
<1> QED
  BY <1>1, <1>2, <1>3, PendingTyped

LEMMA NextWindow == Types /\ Types' /\ Window /\ [Next]_vars => Window'
<1> SUFFICES ASSUME Types, Types', Window, [Next]_vars PROVE Window'
  OBVIOUS
<1>1. ASSUME NEW kind \in Kinds, NEW c \in Conn \cup {NoConn}, Begun(kind, c) PROVE Window'
  <2>1. call'.id = call.id + 1 /\ call.id \in Nat
    BY <1>1, Beginning
  <2>2. \A d \in Conn : blocks'[d].cid = blocks[d].cid
    <3>1. blocks \in [Conn -> Block]
      BY DEF Types, TypeOK
    <3> QED
      BY <1>1, <3>1, Beginning DEF Block
  <2>3. call'.cid <= call.id
    BY <1>1, <2>1, Beginning DEF Window, Bad
  <2>4. ASSUME NEW m \in Pending'
        PROVE  m.id \in Id /\ m.id <= call'.id /\ call'.id - m.id <= MaxLate /\ m.cid <= call'.id
    <3>1. CASE m = call'
      <4>1. call'.cid \in Int /\ call'.id \in Id
        BY <1>1, Beginning DEF Call, Id, Bad
      <4> QED
        BY <2>1, <2>3, <3>1, <4>1
    <3>2. CASE m \in Pending
      <4>1. call.id + 1 - m.id <= MaxLate
        <5>1. m \in Unresolved
          <6>1. m \in inflight \/ \E i \in 1 .. Len(line) : m = line[i].to
            BY <1>1, <3>2, Beginning DEF Pending
          <6>2. \A i \in 1 .. Len(line) : line[i] \in ToSet(line)
            BY LineTyped DEF ToSet
          <6> QED
            BY <6>1, <6>2 DEF Unresolved
        <5> QED
          BY <1>1, <5>1 DEF Begun, Begin
      <4>2. m.id \in Id /\ m.id \in Int /\ m.cid \in Int /\ m.id <= call.id /\ m.cid <= call.id
        BY <3>2, Numbers DEF Window
      <4> QED
        BY <2>1, <4>1, <4>2
    <3> QED
      BY <1>1, <3>1, <3>2, PendingOfBegin
  <2>5. \A d \in Conn : blocks'[d].cid <= call'.id
    BY <2>1, <2>2, Numbers DEF Window
  <2> QED
    BY <2>4, <2>5 DEF Window
<1>2. CASE UNCHANGED call /\ Pending' \subseteq Pending
  <2>1. ASSUME NEW c \in Conn PROVE blocks'[c].cid <= call.id
    <3>1. CASE blocks' = blocks
      BY <3>1 DEF Window
    <3>2. CASE /\ call.conn \in Conn
               /\ \E b \in Block : blocks' = [blocks EXCEPT ![call.conn] = b] /\ b.cid <= call.id
      BY <3>2 DEF Window, Types, TypeOK
    <3>3. Free \in Block /\ Free.cid <= call.id
      BY ZeroPacket, Numbers DEF Free, Block
    <3>4. [cid |-> Bad, packet |-> 0] \in Block /\ Bad <= call.id
      BY ZeroPacket, Numbers DEF Block
    <3>5. ASSUME NEW m \in Pending PROVE [cid |-> m.id, packet |-> 0] \in Block /\ m.id <= call.id
      <4>1. m.id \in Id \cup {0}
        BY <3>5, PendingTyped DEF Call
      <4> QED
        BY <3>5, <4>1, ZeroPacket DEF Window, Block, Bad
    <3> QED
      BY <1>2, <3>1, <3>2, <3>3, <3>4, <3>5, BlocksChange, NoBegin
  <2> QED
    BY <1>2, <2>1 DEF Window
<1> QED
  BY <1>1, <1>2, PendingChange

LEMMA ShiftDistinct ==
    ASSUME Types, Distinct, NEW d \in Int, Shift(d)
    PROVE  /\ \A i, j \in 1 .. Len(line') : line'[i].to.id = line'[j].to.id => i = j
           /\ \A i \in 1 .. Len(line'), m \in inflight : line'[i].to.id # m.id
<1>1. ASSUME NEW i \in 1 .. Len(line'), NEW j \in 1 .. Len(line'), line'[i].to.id = line'[j].to.id
      PROVE  i = j
  <2>1. /\ i + d \in 1 .. Len(line) /\ line'[i] = line[i + d]
        /\ j + d \in 1 .. Len(line) /\ line'[j] = line[j + d]
    BY DEF Shift
  <2>2. i + d = j + d
    BY <1>1, <2>1 DEF Distinct
  <2>3. i \in Int /\ j \in Int
    OBVIOUS
  <2> QED
    BY <2>2, <2>3
<1>2. ASSUME NEW i \in 1 .. Len(line'), NEW m \in inflight PROVE line'[i].to.id # m.id
  <2>1. i + d \in 1 .. Len(line) /\ line'[i] = line[i + d]
    BY DEF Shift
  <2> QED
    BY <2>1 DEF Distinct
<1> QED
  BY <1>1, <1>2

LEMMA NextDistinct == Types /\ Types' /\ Window /\ Distinct /\ [Next]_vars => Distinct'
<1> SUFFICES ASSUME Types, Types', Window, Distinct, [Next]_vars PROVE Distinct'
  OBVIOUS
<1>n. FlushCap \in Int /\ 1 \in Int
  OBVIOUS
\* The last part of Distinct.
<1>p. ASSUME UNCHANGED call, Pending' \subseteq Pending
      PROVE  \A m \in Pending' : m.id = call'.id => m = call'
  BY <1>p DEF Distinct
<1>1. ASSUME NEW kind \in Kinds, NEW c \in Conn \cup {NoConn}, Begun(kind, c) PROVE Distinct'
  <2>1. /\ call'.id = call.id + 1 /\ call.id \in Nat /\ UNCHANGED inflight /\ Shift(FlushCap)
        /\ pc' = "flushed"
    BY <1>1, Beginning
  <2>2. \A m \in Pending : m.id # call'.id
    BY <2>1, Numbers DEF Window
  <2>3. \A m \in Pending' : m.id = call'.id => m = call'
    BY <1>1, <2>2, PendingOfBegin
  <2>4. \A m \in inflight : m.id # call'.id
    BY <2>2 DEF Pending
  <2>5. ASSUME NEW i \in 1 .. Len(line') PROVE line'[i].to.id # call'.id
    <3>1. line'[i].to \in Pending
      BY <2>1, StillPending
    <3> QED
      BY <2>2, <3>1
  <2>6. /\ \A i, j \in 1 .. Len(line') : line'[i].to.id = line'[j].to.id => i = j
        /\ \A i \in 1 .. Len(line'), m \in inflight : line'[i].to.id # m.id
    BY <1>n, <2>1, ShiftDistinct
  <2> QED
    BY <2>1, <2>3, <2>4, <2>5, <2>6 DEF Distinct
<1>2. CASE EmptyBuffer
  <2>1. pc = "flushed" /\ pc' = "emptied" /\ UNCHANGED <<call, inflight>> /\ Shift(FlushCap)
    BY <1>2, FlushShifts DEF EmptyBuffer
  <2>2. Pending' \subseteq Pending
    BY <1>2, <2>1, PendingChange, NoBegin
  <2>3. /\ \A i, j \in 1 .. Len(line') : line'[i].to.id = line'[j].to.id => i = j
        /\ \A i \in 1 .. Len(line'), m \in inflight : line'[i].to.id # m.id
    BY <1>n, <2>1, ShiftDistinct
  <2>4. ASSUME NEW i \in 1 .. Len(line') PROVE line'[i].to.id # call.id
    <3>1. i + FlushCap \in 1 .. Len(line) /\ line'[i] = line[i + FlushCap]
      BY <2>1 DEF Shift
    <3> QED
      BY <2>1, <3>1 DEF Distinct
  <2> QED
    BY <1>p, <2>1, <2>2, <2>3, <2>4 DEF Distinct
<1>c. CASE SendData
  <2>1. /\ pc = "emptied" /\ pc' = "waiting" /\ UNCHANGED <<line, call>>
        /\ inflight' = inflight \cup {call}
    BY <1>c DEF SendData
  <2>2. Pending' \subseteq Pending
    BY <2>1, PendingChange, NoBegin
  <2>3. \A i \in 1 .. Len(line'), m \in inflight' : line'[i].to.id # m.id
    BY <2>1 DEF Distinct
  <2>4. \A m, n \in inflight' : m.id = n.id => m = n
    BY <2>1 DEF Distinct
  <2> QED
    BY <1>p, <2>1, <2>2, <2>3, <2>4 DEF Distinct
<1>3. CASE RecvData
  <2>1. pc' = "idle" /\ UNCHANGED <<call, inflight>> /\ Shift(1)
    BY <1>3, Received
  <2>2. Pending' \subseteq Pending
    BY <2>1, PendingChange, NoBegin
  <2>3. /\ \A i, j \in 1 .. Len(line') : line'[i].to.id = line'[j].to.id => i = j
        /\ \A i \in 1 .. Len(line'), m \in inflight : line'[i].to.id # m.id
    BY <1>n, <2>1, ShiftDistinct
  <2> QED
    BY <1>p, <2>1, <2>2, <2>3 DEF Distinct
<1>5. ASSUME NEW r \in inflight, NEW status \in {"ok", "error", "eip"}, Answers(r, status) PROVE Distinct'
  <2>1. /\ Len(line') = Len(line) + 1 /\ Len(line) \in Nat
        /\ \A j \in 1 .. Len(line) : line'[j] = line[j]
        /\ line'[Len(line) + 1].to = r
    BY <1>5, AnswerComes
  <2>2. UNCHANGED <<pc, call>> /\ inflight' = inflight \ {r}
    BY <1>5 DEF Answers
  <2>3. Pending' \subseteq Pending
    BY <2>2, PendingChange, NoBegin
  <2>4. \A i \in 1 .. Len(line') : i \in 1 .. Len(line) \/ i = Len(line) + 1
    BY <2>1
  <2>5. \A i \in 1 .. Len(line) : line'[i].to.id # r.id
    BY <2>1 DEF Distinct
  <2>6. \A i, j \in 1 .. Len(line') : line'[i].to.id = line'[j].to.id => i = j
    BY <2>1, <2>4, <2>5 DEF Distinct
  <2>7. \A i \in 1 .. Len(line'), m \in inflight' : line'[i].to.id # m.id
    BY <2>1, <2>2, <2>4 DEF Distinct
  <2>8. pc' \in {"flushed", "emptied"} =>
                          /\ \A m \in inflight' : m.id # call'.id
                          /\ \A i \in 1 .. Len(line') : line'[i].to.id # call'.id
    BY <2>1, <2>2, <2>4 DEF Distinct
  <2>9. \A m, n \in inflight' : m.id = n.id => m = n
    BY <2>2 DEF Distinct
  <2> QED
    BY <1>p, <2>2, <2>3, <2>6, <2>7, <2>8, <2>9 DEF Distinct
<1>6. CASE UNCHANGED <<line, call>> /\ inflight' \subseteq inflight /\ pc' \in {pc, "idle"}
  <2>1. Pending' \subseteq Pending
    BY <1>6, PendingChange, NoBegin
  <2> QED
    BY <1>6, <1>p, <2>1 DEF Distinct
<1> QED
  BY <1>1, <1>2, <1>c, <1>3, <1>5, <1>6, Steps DEF TimesOut, NeverAnswers, PlcForgets, vars

-----------------------------------------------------------------------------
(* Before a request there are at most MaxLate replies: one recv            *)
(* takes them all.                                                         *)
LEMMA FewReplies ==
    ASSUME Types, Window, Distinct, pc = "flushed"
    PROVE  Len(line) <= MaxLate
<1> DEFINE S == 1 .. Len(line)
           T == (call.id - MaxLate) .. (call.id - 1)
           f == [i \in S |-> line[i].to.id]
<1>0. call.id \in Nat /\ MaxLate \in Nat /\ Len(line) \in Nat
  BY Numbers, LineTyped
<1>1. ASSUME NEW i \in S PROVE f[i] \in T
  <2>1. line[i].to \in Pending
    BY DEF Pending
  <2>2. line[i].to.id \in Int /\ line[i].to.id <= call.id /\ call.id - line[i].to.id <= MaxLate
    BY <2>1, Numbers DEF Window
  <2>3. line[i].to.id # call.id
    BY DEF Distinct
  <2> QED
    BY <1>0, <2>2, <2>3
<1>2. \A i, j \in S : f[i] = f[j] => i = j
  BY DEF Distinct
<1>3. f \in Injection(S, T)
  <2> HIDE DEF S, T
  <2>1. f \in [S -> T]
    BY <1>1
  <2> HIDE DEF f
  <2> QED
    BY <1>2, <2>1 DEF Injection, IsInjective
<1>4. /\ IsFiniteSet(T) /\ Cardinality(T) = IF call.id - MaxLate > call.id - 1 THEN 0
                                                ELSE (call.id - 1) - (call.id - MaxLate) + 1
  <2>1. call.id - MaxLate \in Int /\ call.id - 1 \in Int
    BY <1>0
  <2> QED
    BY <2>1, FS_Interval
<1>5. Cardinality(S) = IF 1 > Len(line) THEN 0 ELSE Len(line) - 1 + 1
  <2>1. 1 \in Int /\ Len(line) \in Int
    BY <1>0
  <2> QED
    BY <2>1, FS_Interval
<1>6. Cardinality(S) <= Cardinality(T)
  <2> HIDE DEF S, T, f
  <2> QED
    BY <1>3, <1>4, FS_Injection
<1> HIDE DEF S, T, f
<1>7. Cardinality(T) = MaxLate
  BY <1>0, <1>4
<1>8. Cardinality(S) = Len(line)
  BY <1>0, <1>5
<1> QED
  BY <1>6, <1>7, <1>8

Drained == /\ pc \in {"emptied", "waiting"} => \A i \in 1 .. Len(line) : line[i].during = call.id
           /\ taken # NoReply => taken.during = call.id

LEMMA NextDrained == Types /\ Types' /\ Window /\ Distinct /\ Drained /\ [Next]_vars => Drained'
<1> SUFFICES ASSUME Types, Types', Window, Distinct, Drained, [Next]_vars PROVE Drained'
  OBVIOUS
<1>1. ASSUME NEW kind \in Kinds, NEW c \in Conn \cup {NoConn}, Begun(kind, c) PROVE Drained'
  BY <1>1, Beginning DEF Drained
<1>2. CASE EmptyBuffer
  <2>1. Len(line) <= FlushCap /\ Len(line) \in Nat
    BY <1>2, FewReplies, LineTyped DEF EmptyBuffer
  <2>2. Shift(FlushCap)
    BY <1>2, FlushShifts DEF EmptyBuffer
  <2>3. \A i \in 1 .. Len(line') : FALSE
    BY <2>1, <2>2 DEF Shift
  <2> QED
    BY <1>2, <2>3 DEF EmptyBuffer, Drained
<1>c. CASE SendData
  BY <1>c DEF SendData, Drained
<1>3. CASE RecvData
  <2>1. taken' # NoReply => taken' = line[1] /\ 1 \in 1 .. Len(line) /\ pc = "waiting"
    BY <1>3, Received, LineTyped
  <2> QED
    BY <1>3, <2>1, Received DEF Drained
<1>5. ASSUME NEW r \in inflight, NEW status \in {"ok", "error", "eip"}, Answers(r, status) PROVE Drained'
  <2>1. /\ Len(line') = Len(line) + 1 /\ Len(line) \in Nat
        /\ \A j \in 1 .. Len(line) : line'[j] = line[j]
        /\ pc \in {"emptied", "waiting"} => line'[Len(line) + 1].during = call.id
    BY <1>5, AnswerComes
  <2>2. \A i \in 1 .. Len(line') : i \in 1 .. Len(line) \/ i = Len(line) + 1
    BY <2>1
  <2>3. UNCHANGED <<pc, call, taken>>
    BY <1>5 DEF Answers
  <2> QED
    BY <2>1, <2>2, <2>3 DEF Drained
<1>6. CASE UNCHANGED <<line, call, taken>> /\ pc' \in {pc, "idle"}
  BY <1>6 DEF Drained
<1> QED
  BY <1>1, <1>2, <1>c, <1>3, <1>5, <1>6, Steps DEF TimesOut, NeverAnswers, PlcForgets, vars

(* A reply that was on the socket when it was emptied for the last time is *)
(* not taken, for any number of calls and however many replies are late.   *)
THEOREM EarlierRepliesAreNotTaken == Spec => []FlushedIsNotTaken
<1> DEFINE IInv == Types /\ Window /\ Distinct /\ Drained
<1>1. Init => IInv
  <2> SUFFICES ASSUME Init PROVE Window /\ Distinct /\ Drained
    BY InitTypes
  <2>1. Len(line) = 0
    BY EmptySeq DEF Init
  <2>2. Pending = {}
    BY <2>1 DEF Init, Pending
  <2> QED
    BY <2>1, <2>2 DEF Init, Window, Distinct, Drained, Free, NoCall
<1>2. IInv /\ [Next]_vars => IInv'
  BY NextTypes, NextWindow, NextDistinct, NextDrained
<1>3. IInv => FlushedIsNotTaken
  BY DEF Types, Drained, FlushedIsNotTaken
<1> HIDE DEF IInv
<1> QED
  BY <1>1, <1>2, <1>3, PTL DEF Spec

-----------------------------------------------------------------------------
(* Connections and packet numbers.  A Forward_Open without its reply has   *)
(* made no connection yet; a request of the connection a block holds is    *)
(* behind its packet number by the requests that followed, which are fewer *)
(* than the range.                                                         *)
Fresh == \A o \in Pending : o.kind = "open" =>
            /\ \A c \in Conn : blocks[c].cid # o.id
            /\ \A m \in Pending : m.kind = "unit" => m.cid # o.id

Behind(m, k) == \/ m.packet + k = blocks[m.conn].packet
                \/ m.packet + k = blocks[m.conn].packet + PacketRange

Followed(m, k) == pc # "idle" /\ call.kind = "unit" /\ call.conn = m.conn /\ m # call => k > 0

Lag == \A m \in Pending : m.kind = "unit" =>
          /\ m.conn \in Conn
          /\ m.cid # Bad /\ m.cid = blocks[m.conn].cid =>
                \E k \in 0 .. call.id - m.id : Behind(m, k) /\ Followed(m, k)

Known == \A i \in 1 .. Len(line) : line[i].to.kind = "unit" /\ line[i].status # "eip" => line[i].to.cid # Bad

LEMMA ReceivedIsGone ==
    ASSUME Types, Distinct, RecvData, NEW m \in Pending'
    PROVE  m.id # line[1].to.id
<1>1. pc' = "idle" /\ UNCHANGED inflight /\ Shift(1) /\ 1 \in 1 .. Len(line)
  BY Received, LineTyped
<1>2. CASE m \in inflight
  BY <1>1, <1>2 DEF Distinct
<1>3. ASSUME NEW i \in 1 .. Len(line'), m = line'[i].to PROVE m.id # line[1].to.id
  <2>1. i + 1 \in 1 .. Len(line) /\ m = line[i + 1].to /\ i + 1 # 1
    BY <1>1, <1>3 DEF Shift
  <2> QED
    BY <1>1, <2>1 DEF Distinct
<1> QED
  BY <1>1, <1>2, <1>3 DEF Pending

LEMMA SameConnections ==
    ASSUME Types, NEW kind \in Kinds, NEW c \in Conn \cup {NoConn}, Begun(kind, c)
    PROVE  /\ \A d \in Conn : blocks'[d].cid = blocks[d].cid
           /\ \A d \in Conn : kind # "unit" \/ c # d => blocks'[d] = blocks[d]
           /\ kind = "unit" => c \in Conn /\ blocks'[c].packet = NextPacket(blocks[c].packet)
<1>1. blocks \in [Conn -> Block]
  BY DEF Types, TypeOK
<1> QED
  BY <1>1, Beginning DEF Block

LEMMA NextFresh ==
    Types /\ Types' /\ Window /\ Window' /\ Distinct /\ Fresh /\ [Next]_vars => Fresh'
<1> SUFFICES ASSUME Types, Types', Window, Window', Distinct, Fresh, [Next]_vars PROVE Fresh'
  OBVIOUS
<1>1. ASSUME NEW kind \in Kinds, NEW c \in Conn \cup {NoConn}, Begun(kind, c) PROVE Fresh'
  <2> SUFFICES ASSUME NEW o \in Pending', o.kind = "open"
               PROVE  /\ \A d \in Conn : blocks'[d].cid # o.id
                      /\ \A m \in Pending' : m.kind = "unit" => m.cid # o.id
    BY DEF Fresh
  <2>1. call'.id = call.id + 1 /\ call.id \in Nat /\ call'.kind = kind
    BY <1>1, Beginning
  <2>2. CASE o = call'
    <3>1. \A d \in Conn : blocks'[d].cid # o.id
      BY <1>1, <2>1, <2>2, SameConnections, Numbers DEF Window
    <3>2. \A m \in Pending : m.cid # o.id
      BY <2>1, <2>2, Numbers DEF Window
    <3> QED
      BY <1>1, <2>2, <3>1, <3>2, PendingOfBegin
  <2>3. CASE o \in Pending
    <3>1. \A d \in Conn : blocks'[d].cid # o.id
      BY <1>1, <2>3, SameConnections DEF Fresh
    <3>2. \A m \in Pending : m.kind = "unit" => m.cid # o.id
      BY <2>3 DEF Fresh
    <3>3. call'.kind = "unit" => call'.cid # o.id
      BY <1>1, <2>3, Beginning DEF Fresh
    <3> QED
      BY <1>1, <3>1, <3>2, <3>3, PendingOfBegin
  <2> QED
    BY <1>1, <2>2, <2>3, PendingOfBegin
<1>2. CASE UNCHANGED call /\ Pending' \subseteq Pending
  <2> SUFFICES ASSUME NEW o \in Pending', o.kind = "open", NEW c \in Conn
               PROVE  blocks'[c].cid # o.id
    BY <1>2 DEF Fresh
  <2>1. blocks[c].cid # o.id /\ o.id \in Id /\ o.id >= 1
    BY <1>2 DEF Fresh, Window, Id
  <2>2. CASE blocks' = blocks
    BY <2>1, <2>2
  <2>3. ASSUME NEW b, blocks' = [blocks EXCEPT ![call.conn] = b], b.cid # o.id
        PROVE  blocks'[c].cid # o.id
    BY <2>1, <2>3 DEF Types, TypeOK
  <2>4. ASSUME \/ blocks' = [blocks EXCEPT ![call.conn] = Free]
               \/ blocks' = [blocks EXCEPT ![call.conn] = [cid |-> Bad, packet |-> 0]]
        PROVE  blocks'[c].cid # o.id
    <3>1. Free.cid # o.id /\ [cid |-> Bad, packet |-> 0].cid # o.id
      BY <2>1 DEF Free, Bad
    <3> QED
      BY <2>3, <2>4, <3>1
  <2>5. CASE RecvData /\ blocks' = [blocks EXCEPT ![call.conn] = [cid |-> line[1].to.id, packet |-> 0]]
    <3>1. o.id # line[1].to.id
      BY <2>5, ReceivedIsGone
    <3>2. [cid |-> line[1].to.id, packet |-> 0].cid # o.id
      BY <3>1
    <3> QED
      BY <2>3, <2>5, <3>2
  <2> QED
    <3>1. ASSUME NEW kind \in Kinds, NEW d \in Conn \cup {NoConn} PROVE ~ Begun(kind, d)
      BY <1>2, NoBegin
    <3>2. \/ blocks' = blocks
          \/ blocks' = [blocks EXCEPT ![call.conn] = Free]
          \/ blocks' = [blocks EXCEPT ![call.conn] = [cid |-> Bad, packet |-> 0]]
          \/ RecvData /\ blocks' = [blocks EXCEPT ![call.conn] = [cid |-> line[1].to.id, packet |-> 0]]
      BY <3>1, BlocksChange
    <3> QED
      BY <2>2, <2>4, <2>5, <3>2
<1> QED
  BY <1>1, <1>2, PendingChange

LEMMA NextLag ==
    Types /\ Types' /\ Window /\ Window' /\ Fresh /\ Lag /\ [Next]_vars => Lag'
<1> SUFFICES ASSUME Types, Types', Window, Window', Fresh, Lag, [Next]_vars PROVE Lag'
  OBVIOUS
<1>1. ASSUME NEW kind \in Kinds, NEW c \in Conn \cup {NoConn}, Begun(kind, c) PROVE Lag'
  <2> SUFFICES ASSUME NEW m \in Pending', m.kind = "unit"
               PROVE  /\ m.conn \in Conn
                      /\ m.cid # Bad /\ m.cid = blocks'[m.conn].cid =>
                            \E k \in 0 .. call'.id - m.id : Behind(m, k)' /\ Followed(m, k)'
    BY DEF Lag
  <2>1. call'.id = call.id + 1 /\ call.id \in Nat /\ call'.kind = kind /\ call'.conn = c
    BY <1>1, Beginning
  <2>2. CASE m = call'
    <3>1. c \in Conn /\ m.packet = NextPacket(blocks[c].packet) /\ blocks[c].packet \in Packet
      BY <1>1, <2>1, <2>2, Beginning DEF Types, TypeOK, Block
    <3>2. m.packet + 0 = blocks'[c].packet
      BY <1>1, <2>1, <2>2, <3>1, SameConnections, Packets DEF Packet
    <3>3. Behind(m, 0)' /\ Followed(m, 0)'
      BY <2>1, <2>2, <3>2 DEF Behind, Followed
    <3>4. 0 \in 0 .. call'.id - m.id
      BY <2>1, <2>2
    <3> QED
      BY <2>1, <2>2, <3>1, <3>3, <3>4
  <2>3. CASE m \in Pending
    <3>1. m.conn \in Conn
      BY <2>3 DEF Lag
    <3> SUFFICES ASSUME m.cid # Bad, m.cid = blocks'[m.conn].cid
                 PROVE  \E k \in 0 .. call'.id - m.id : Behind(m, k)' /\ Followed(m, k)'
      BY <3>1
    <3>2. m.cid = blocks[m.conn].cid
      BY <1>1, <3>1, SameConnections
    <3>3. PICK k \in 0 .. call.id - m.id : Behind(m, k)
      BY <2>3, <3>2 DEF Lag
    <3>4. m.id \in Nat /\ call'.id - m.id <= MaxLate /\ MaxLate \in Nat
      BY Numbers DEF Window
    <3>5. CASE kind = "unit" /\ c = m.conn
      <4> DEFINE p == blocks[c].packet
                 q == blocks'[c].packet
      <4>1. p \in 0 .. PacketRange - 1 /\ q \in {p + 1, p + 1 - PacketRange} /\ q \in 0 .. PacketRange - 1
        <5>1. p \in Packet
          BY <3>1, <3>5 DEF Types, TypeOK, Block
        <5>2. q = NextPacket(p)
          BY <1>1, <3>5, SameConnections
        <5> QED
          BY <5>1, <5>2, Packets DEF Packet
      <4>2. m.packet \in 0 .. PacketRange - 1
        BY <2>3, PendingTyped DEF Call, Packet
      <4>3. m.packet + k = p \/ m.packet + k = p + PacketRange
        BY <3>3, <3>5 DEF Behind
      <4>4. k + 1 \in 0 .. call'.id - m.id /\ k + 1 > 0 /\ k + 1 < PacketRange
        BY <2>1, <3>4
      <4> HIDE DEF p, q
      <4>5. m.packet + (k + 1) = q \/ m.packet + (k + 1) = q + PacketRange
        <5>1. CASE q = p + 1
          BY <3>4, <4>1, <4>2, <4>3, <5>1
        <5>2. CASE q = p + 1 - PacketRange
          BY <3>4, <4>1, <4>2, <4>3, <4>4, <5>2
        <5> QED
          BY <4>1, <5>1, <5>2
      <4>6. Behind(m, k + 1)' /\ Followed(m, k + 1)'
        BY <3>5, <4>4, <4>5 DEF Behind, Followed, q
      <4> QED
        BY <4>4, <4>6
    <3>6. CASE ~(kind = "unit" /\ c = m.conn)
      <4>1. blocks'[m.conn] = blocks[m.conn]
        BY <1>1, <3>1, <3>6, SameConnections
      <4>2. Behind(m, k)' /\ Followed(m, k)'
        BY <2>1, <3>3, <3>6, <4>1 DEF Behind, Followed
      <4>3. k \in 0 .. call'.id - m.id
        BY <2>1, <3>4
      <4> QED
        BY <4>2, <4>3
    <3> QED
      BY <3>5, <3>6
  <2> QED
    BY <1>1, <2>2, <2>3, PendingOfBegin
<1>2. CASE UNCHANGED call /\ (pc' # "idle" => pc # "idle") /\ Pending' \subseteq Pending
  <2> SUFFICES ASSUME NEW m \in Pending', m.kind = "unit", m.cid # Bad, m.cid = blocks'[m.conn].cid
               PROVE  \E k \in 0 .. call.id - m.id : Behind(m, k)' /\ Followed(m, k)'
    BY <1>2 DEF Lag
  <2>0. m \in Pending /\ m.conn \in Conn
    BY <1>2 DEF Lag
  <2>1. CASE blocks'[m.conn] = blocks[m.conn]
    <3>1. PICK k \in 0 .. call.id - m.id : Behind(m, k) /\ Followed(m, k)
      BY <2>0, <2>1 DEF Lag
    <3>2. Behind(m, k)' /\ Followed(m, k)'
      BY <1>2, <2>1, <3>1 DEF Behind, Followed
    <3> QED
      BY <3>2
  <2>2. CASE blocks'[m.conn] # blocks[m.conn]
    <3>1. m.cid \in Id \cup {Bad}
      BY <2>0, PendingTyped DEF Call
    <3>2. m.cid # Free.cid
      BY <3>1 DEF Free, Id, Bad
    <3>3. blocks \in [Conn -> Block]
      BY DEF Types, TypeOK
    <3>4. \A b : blocks' = [blocks EXCEPT ![call.conn] = b] => blocks'[m.conn] = b
      BY <2>0, <2>2, <3>3
    <3>5. CASE /\ line[1].to.kind = "open" /\ line[1].to \in Pending
               /\ blocks' = [blocks EXCEPT ![call.conn] = [cid |-> line[1].to.id, packet |-> 0]]
      <4>0. blocks'[m.conn] = [cid |-> line[1].to.id, packet |-> 0]
        BY <3>4, <3>5
      <4>1. m.cid = line[1].to.id
        BY <4>0
      <4> QED
        BY <2>0, <3>5, <4>1 DEF Fresh
    <3> QED
      BY <1>2, <2>2, <3>2, <3>4, <3>5, BlocksChange, NoBegin
  <2> QED
    BY <2>1, <2>2
<1> QED
  BY <1>1, <1>2, PendingChange

LEMMA NextKnown == Types /\ Known /\ [Next]_vars => Known'
<1> SUFFICES ASSUME Types, Known, [Next]_vars PROVE Known'
  OBVIOUS
<1>s. ASSUME NEW d, Shift(d) PROVE Known'
  BY <1>s DEF Shift, Known
<1>1. ASSUME NEW kind \in Kinds, NEW c \in Conn \cup {NoConn}, Begun(kind, c) PROVE Known'
  BY <1>1, <1>s, Beginning
<1>2. CASE EmptyBuffer
  BY <1>2, <1>s, FlushShifts DEF EmptyBuffer
<1>c. CASE SendData
  BY <1>c, <1>s, SameShifts DEF SendData
<1>3. CASE RecvData
  BY <1>3, <1>s, Received
<1>5. ASSUME NEW r \in inflight, NEW status \in {"ok", "error", "eip"}, Answers(r, status) PROVE Known'
  <2>1. /\ Len(line') = Len(line) + 1 /\ Len(line) \in Nat
        /\ \A j \in 1 .. Len(line) : line'[j] = line[j]
        /\ line'[Len(line) + 1].to = r /\ line'[Len(line) + 1].status = status
    BY <1>5, AnswerComes
  <2>2. \A i \in 1 .. Len(line') : i \in 1 .. Len(line) \/ i = Len(line) + 1
    BY <2>1
  <2>3. r.kind = "unit" /\ status # "eip" => r.cid # Bad
    BY <1>5 DEF Answers, Types, TypeOK, Id, Bad
  <2> QED
    BY <2>1, <2>2, <2>3 DEF Known
<1>6. CASE UNCHANGED line
  BY <1>6 DEF Known
<1> QED
  BY <1>1, <1>2, <1>c, <1>3, <1>5, <1>6, Steps DEF TimesOut, NeverAnswers, PlcForgets, vars

LEMMA NextNoCrossTalk ==
    Types /\ Types' /\ Window /\ Lag /\ Known /\ NoCrossTalk /\ [Next]_vars => NoCrossTalk'
<1> SUFFICES ASSUME Types, Types', Window, Lag, Known, NoCrossTalk, [Next]_vars PROVE NoCrossTalk'
  OBVIOUS
<1>1. ASSUME NEW kind \in Kinds, NEW c \in Conn \cup {NoConn}, Begun(kind, c) PROVE NoCrossTalk'
  BY <1>1, Beginning DEF NoCrossTalk
<1>2. CASE RecvData
  <2> DEFINE m == line[1].to
  <2>1. /\ pc = "waiting" /\ 1 \in 1 .. Len(line) /\ UNCHANGED call
        /\ taken' = (IF Accepts(line[1]) THEN line[1] ELSE NoReply)
    BY <1>2, Received, LineTyped
  <2> SUFFICES ASSUME Accepts(line[1]), call.kind = "unit", m.kind = "unit",
                      m.conn = call.conn, m.cid = call.cid, m # call
               PROVE  FALSE
    BY <2>1 DEF NoCrossTalk
  <2>2. m \in Pending
    BY <2>1 DEF Pending
  <2>3. m.cid # Bad /\ m.packet = blocks[m.conn].packet /\ m.cid = blocks[m.conn].cid
    BY <2>1 DEF Accepts, Known, Types
  <2>4. PICK k \in 0 .. call.id - m.id : Behind(m, k) /\ Followed(m, k)
    BY <2>2, <2>3 DEF Lag
  <2>5. k > 0
    BY <2>1, <2>4 DEF Followed
  <2>6. m.packet \in Int /\ m.id \in Int /\ call.id \in Int /\ call.id - m.id <= MaxLate
    BY <2>2, Numbers, PendingTyped DEF Window, Call, Packet
  <2> HIDE DEF m
  <2> QED
    BY <2>3, <2>4, <2>5, <2>6 DEF Behind
<1>3. CASE UNCHANGED <<taken, call>>
  BY <1>3 DEF NoCrossTalk
<1> QED
  BY <1>1, <1>2, <1>3, Steps DEF EmptyBuffer, SendData, TimesOut, Answers, NeverAnswers, PlcForgets, vars

(* A connected request does not take the reply to an earlier request of    *)
(* the same connection, across the wrap of the packet number, as long as   *)
(* fewer calls can be late than there are packet numbers.                  *)
THEOREM RepliesDoNotCross == Spec => []NoCrossTalk
<1> DEFINE IInv == Types /\ Window /\ Distinct /\ Fresh /\ Lag /\ Known /\ NoCrossTalk
<1>1. Init => IInv
  <2> SUFFICES ASSUME Init PROVE Window /\ Distinct /\ Fresh /\ Lag /\ Known /\ NoCrossTalk
    BY InitTypes
  <2>1. Len(line) = 0
    BY EmptySeq DEF Init
  <2>2. Pending = {}
    BY <2>1 DEF Init, Pending
  <2> QED
    BY <2>1, <2>2 DEF Init, Window, Distinct, Fresh, Lag, Known, NoCrossTalk, Free, NoCall
<1>2. IInv /\ [Next]_vars => IInv'
  BY NextTypes, NextWindow, NextDistinct, NextFresh, NextLag, NextKnown, NextNoCrossTalk
<1> HIDE DEF IInv
<1>3. IInv => NoCrossTalk
  BY DEF IInv
<1> QED
  BY <1>1, <1>2, <1>3, PTL DEF Spec

(* Division by numbers that are known. *)
LEMMA Divides ==
    ASSUME NEW v \in Int
    PROVE  /\ v \div 256 \in Int /\ v % 256 \in Int /\ 0 <= v % 256 /\ v % 256 < 256
           /\ v = (v \div 256) * 256 + (v % 256)
           /\ 0 <= v /\ v < 256 => v % 256 = v
           /\ 0 <= v => 0 <= v \div 256
           /\ v % 65536 \in Int /\ 0 <= v % 65536 /\ v % 65536 < 65536
           /\ 0 <= v /\ v < 65536 => v % 65536 = v
<1>1. v \div 256 \in Int /\ v % 256 \in Int /\ 0 <= v % 256 /\ v % 256 < 256
  OBVIOUS
<1>2. v = (v \div 256) * 256 + (v % 256)
  OBVIOUS
<1>3. 0 <= v => 0 <= v \div 256
  OBVIOUS
<1>4. ASSUME 0 <= v, v < 256 PROVE v % 256 = v
  BY <1>4
<1>5. v % 65536 \in Int /\ 0 <= v % 65536 /\ v % 65536 < 65536
  OBVIOUS
<1>6. ASSUME 0 <= v, v < 65536 PROVE v % 65536 = v
  BY <1>6
<1> QED
  BY <1>1, <1>2, <1>3, <1>4, <1>5, <1>6

(* A word is an integer of sixteen bits. *)
LEMMA InRange ==
    ASSUME NEW w \in WordRange
    PROVE  w \in Int /\ 0 <= w /\ w < 65536
BY DEF WordRange

(* A word is a number below 65536, and the word of itself. *)
LEMMA WordIs ==
    ASSUME NEW v \in Int
    PROVE  Word(v) \in WordRange /\ Word(v) = v % 65536 /\ (v \in WordRange => Word(v) = v)
<1>1. 2^16 = 65536
  OBVIOUS
<1>2. Word(v) = v % 65536
  BY <1>1 DEF Word
<1>3. v % 65536 \in Int /\ 0 <= v % 65536 /\ v % 65536 < 65536
  BY Divides
<1>4. 0 <= v /\ v < 65536 => v % 65536 = v
  BY Divides
<1> QED
  BY <1>2, <1>3, <1>4 DEF WordRange

(* What the sign of a word is. *)
LEMMA SignedIs ==
    ASSUME NEW w \in WordRange
    PROVE  Signed(w) \in Int /\ (w < 2^15 => Signed(w) = w /\ w < 32768) /\ (Signed(w) = IF w >= 32768 THEN w - 65536 ELSE w)
BY DEF Signed, WordRange

(* The two bytes of a word make it again. *)
LEMMA BytesBack ==
    ASSUME NEW w \in WordRange
    PROVE  /\ Len(Bytes(w)) = 2 /\ Bytes(w)[1] \in 0 .. 255 /\ Bytes(w)[2] \in 0 .. 255
           /\ OfBytes(Bytes(w)[1], Bytes(w)[2]) = w
<1>1. w \in Int /\ 0 <= w /\ w < 65536
  BY InRange
<1> DEFINE h == w \div 256
           l == w % 256
<1>2. h \in Int /\ l \in Int /\ 0 <= l /\ l < 256 /\ w = 256 * h + l /\ 0 <= h
  BY <1>1, Divides
<1>3. Bytes(w) = <<l, h % 256>>
  BY DEF Bytes
<1> HIDE DEF h, l
<1>4. h < 256
  BY <1>1, <1>2
<1>5. h % 256 = h
  BY <1>2, <1>4, Divides
<1> QED
  BY <1>2, <1>3, <1>4, <1>5 DEF OfBytes

(* An integer is its half, twice, and its last bit. *)
LEMMA Parity ==
    ASSUME NEW q \in Int
    PROVE  q \div 2 \in Int /\ q = 2 * (q \div 2) + (q % 2) /\ (q % 2 = 0 \/ q % 2 = 1)
<1>1. q \div 2 \in Int /\ q % 2 \in Int
  OBVIOUS
<1>2. q = 2 * (q \div 2) + (q % 2)
  OBVIOUS
<1>3. q % 2 = 0 \/ q % 2 = 1
  OBVIOUS
<1> QED
  BY <1>1, <1>2, <1>3

(* A word is the sum of its bits. *)
LEMMA Binary ==
    ASSUME NEW w \in WordRange
    PROVE  /\ w = (Bit(w, 0) + 2 * Bit(w, 1) + 4 * Bit(w, 2) + 8 * Bit(w, 3))
                   + (16 * Bit(w, 4) + 32 * Bit(w, 5) + 64 * Bit(w, 6) + 128 * Bit(w, 7))
                   + (256 * Bit(w, 8) + 512 * Bit(w, 9) + 1024 * Bit(w, 10) + 2048 * Bit(w, 11))
                   + (4096 * Bit(w, 12) + 8192 * Bit(w, 13) + 16384 * Bit(w, 14) + 32768 * Bit(w, 15))
           /\ \A n \in 0 .. 15 : Bit(w, n) = 0 \/ Bit(w, n) = 1
<1> DEFINE q0 == w \div 1
           q1 == w \div 2
           q2 == w \div 4
           q3 == w \div 8
           q4 == w \div 16
           q5 == w \div 32
           q6 == w \div 64
           q7 == w \div 128
           q8 == w \div 256
           q9 == w \div 512
           q10 == w \div 1024
           q11 == w \div 2048
           q12 == w \div 4096
           q13 == w \div 8192
           q14 == w \div 16384
           q15 == w \div 32768
<1>1. Word(w) = w /\ w \in Int /\ 0 <= w /\ w < 65536
  BY WordIs, InRange
<1>b0. Bit(w, 0) = q0 % 2
  BY <1>1 DEF Bit
<1>b1. Bit(w, 1) = q1 % 2
  BY <1>1 DEF Bit
<1>b2. Bit(w, 2) = q2 % 2
  BY <1>1 DEF Bit
<1>b3. Bit(w, 3) = q3 % 2
  BY <1>1 DEF Bit
<1>b4. Bit(w, 4) = q4 % 2
  BY <1>1 DEF Bit
<1>b5. Bit(w, 5) = q5 % 2
  BY <1>1 DEF Bit
<1>b6. Bit(w, 6) = q6 % 2
  BY <1>1 DEF Bit
<1>b7. Bit(w, 7) = q7 % 2
  BY <1>1 DEF Bit
<1>b8. Bit(w, 8) = q8 % 2
  BY <1>1 DEF Bit
<1>b9. Bit(w, 9) = q9 % 2
  BY <1>1 DEF Bit
<1>b10. Bit(w, 10) = q10 % 2
  BY <1>1 DEF Bit
<1>b11. Bit(w, 11) = q11 % 2
  BY <1>1 DEF Bit
<1>b12. Bit(w, 12) = q12 % 2
  BY <1>1 DEF Bit
<1>b13. Bit(w, 13) = q13 % 2
  BY <1>1 DEF Bit
<1>b14. Bit(w, 14) = q14 % 2
  BY <1>1 DEF Bit
<1>b15. Bit(w, 15) = q15 % 2
  BY <1>1 DEF Bit
<1>q0. q0 = w
  BY <1>1
<1>q1. q1 = q0 \div 2
  BY <1>1
<1>q2. q2 = q1 \div 2
  BY <1>1
<1>q3. q3 = q2 \div 2
  BY <1>1
<1>q4. q4 = q3 \div 2
  BY <1>1
<1>q5. q5 = q4 \div 2
  BY <1>1
<1>q6. q6 = q5 \div 2
  BY <1>1
<1>q7. q7 = q6 \div 2
  BY <1>1
<1>q8. q8 = q7 \div 2
  BY <1>1
<1>q9. q9 = q8 \div 2
  BY <1>1
<1>q10. q10 = q9 \div 2
  BY <1>1
<1>q11. q11 = q10 \div 2
  BY <1>1
<1>q12. q12 = q11 \div 2
  BY <1>1
<1>q13. q13 = q12 \div 2
  BY <1>1
<1>q14. q14 = q13 \div 2
  BY <1>1
<1>q15. q15 = q14 \div 2
  BY <1>1
<1>q16. q15 \div 2 = 0
  BY <1>1
<1> HIDE DEF q0, q1, q2, q3, q4, q5, q6, q7, q8, q9, q10, q11, q12, q13, q14, q15
<1>i0. q0 \in Int
  BY <1>1, <1>q0
<1>i1. q1 \in Int /\ q0 = 2 * q1 + (q0 % 2) /\ (q0 % 2 = 0 \/ q0 % 2 = 1)
  BY <1>i0, <1>q1, Parity
<1>i2. q2 \in Int /\ q1 = 2 * q2 + (q1 % 2) /\ (q1 % 2 = 0 \/ q1 % 2 = 1)
  BY <1>i1, <1>q2, Parity
<1>i3. q3 \in Int /\ q2 = 2 * q3 + (q2 % 2) /\ (q2 % 2 = 0 \/ q2 % 2 = 1)
  BY <1>i2, <1>q3, Parity
<1>i4. q4 \in Int /\ q3 = 2 * q4 + (q3 % 2) /\ (q3 % 2 = 0 \/ q3 % 2 = 1)
  BY <1>i3, <1>q4, Parity
<1>i5. q5 \in Int /\ q4 = 2 * q5 + (q4 % 2) /\ (q4 % 2 = 0 \/ q4 % 2 = 1)
  BY <1>i4, <1>q5, Parity
<1>i6. q6 \in Int /\ q5 = 2 * q6 + (q5 % 2) /\ (q5 % 2 = 0 \/ q5 % 2 = 1)
  BY <1>i5, <1>q6, Parity
<1>i7. q7 \in Int /\ q6 = 2 * q7 + (q6 % 2) /\ (q6 % 2 = 0 \/ q6 % 2 = 1)
  BY <1>i6, <1>q7, Parity
<1>i8. q8 \in Int /\ q7 = 2 * q8 + (q7 % 2) /\ (q7 % 2 = 0 \/ q7 % 2 = 1)
  BY <1>i7, <1>q8, Parity
<1>i9. q9 \in Int /\ q8 = 2 * q9 + (q8 % 2) /\ (q8 % 2 = 0 \/ q8 % 2 = 1)
  BY <1>i8, <1>q9, Parity
<1>i10. q10 \in Int /\ q9 = 2 * q10 + (q9 % 2) /\ (q9 % 2 = 0 \/ q9 % 2 = 1)
  BY <1>i9, <1>q10, Parity
<1>i11. q11 \in Int /\ q10 = 2 * q11 + (q10 % 2) /\ (q10 % 2 = 0 \/ q10 % 2 = 1)
  BY <1>i10, <1>q11, Parity
<1>i12. q12 \in Int /\ q11 = 2 * q12 + (q11 % 2) /\ (q11 % 2 = 0 \/ q11 % 2 = 1)
  BY <1>i11, <1>q12, Parity
<1>i13. q13 \in Int /\ q12 = 2 * q13 + (q12 % 2) /\ (q12 % 2 = 0 \/ q12 % 2 = 1)
  BY <1>i12, <1>q13, Parity
<1>i14. q14 \in Int /\ q13 = 2 * q14 + (q13 % 2) /\ (q13 % 2 = 0 \/ q13 % 2 = 1)
  BY <1>i13, <1>q14, Parity
<1>i15. q15 \in Int /\ q14 = 2 * q15 + (q14 % 2) /\ (q14 % 2 = 0 \/ q14 % 2 = 1)
  BY <1>i14, <1>q15, Parity
<1>i16. q15 = (q15 % 2) /\ (q15 % 2 = 0 \/ q15 % 2 = 1)
  BY <1>i15, <1>q16, Parity
<1> DEFINE b0 == q0 % 2
           b1 == q1 % 2
           b2 == q2 % 2
           b3 == q3 % 2
           b4 == q4 % 2
           b5 == q5 % 2
           b6 == q6 % 2
           b7 == q7 % 2
           b8 == q8 % 2
           b9 == q9 % 2
           b10 == q10 % 2
           b11 == q11 % 2
           b12 == q12 % 2
           b13 == q13 % 2
           b14 == q14 % 2
           b15 == q15 % 2
<1>2. /\ q0 = 2 * q1 + b0 /\ b0 \in Int
      /\ q1 = 2 * q2 + b1 /\ b1 \in Int
      /\ q2 = 2 * q3 + b2 /\ b2 \in Int
      /\ q3 = 2 * q4 + b3 /\ b3 \in Int
      /\ q4 = 2 * q5 + b4 /\ b4 \in Int
      /\ q5 = 2 * q6 + b5 /\ b5 \in Int
      /\ q6 = 2 * q7 + b6 /\ b6 \in Int
      /\ q7 = 2 * q8 + b7 /\ b7 \in Int
      /\ q8 = 2 * q9 + b8 /\ b8 \in Int
      /\ q9 = 2 * q10 + b9 /\ b9 \in Int
      /\ q10 = 2 * q11 + b10 /\ b10 \in Int
      /\ q11 = 2 * q12 + b11 /\ b11 \in Int
      /\ q12 = 2 * q13 + b12 /\ b12 \in Int
      /\ q13 = 2 * q14 + b13 /\ b13 \in Int
      /\ q14 = 2 * q15 + b14 /\ b14 \in Int
      /\ q15 = b15 /\ b15 \in Int
  BY <1>i1, <1>i2, <1>i3, <1>i4, <1>i5, <1>i6, <1>i7, <1>i8, <1>i9, <1>i10, <1>i11, <1>i12, <1>i13, <1>i14, <1>i15, <1>i16
<1> HIDE DEF b0, b1, b2, b3, b4, b5, b6, b7, b8, b9, b10, b11, b12, b13, b14, b15
<1>3. w = (b0 + 2 * b1 + 4 * b2 + 8 * b3)
           + (16 * b4 + 32 * b5 + 64 * b6 + 128 * b7)
           + (256 * b8 + 512 * b9 + 1024 * b10 + 2048 * b11)
           + (4096 * b12 + 8192 * b13 + 16384 * b14 + 32768 * b15)
  BY <1>2, <1>q0, <1>i0, <1>i15
<1>4. /\ Bit(w, 0) = b0 /\ (b0 = 0 \/ b0 = 1)
      /\ Bit(w, 1) = b1 /\ (b1 = 0 \/ b1 = 1)
      /\ Bit(w, 2) = b2 /\ (b2 = 0 \/ b2 = 1)
      /\ Bit(w, 3) = b3 /\ (b3 = 0 \/ b3 = 1)
      /\ Bit(w, 4) = b4 /\ (b4 = 0 \/ b4 = 1)
      /\ Bit(w, 5) = b5 /\ (b5 = 0 \/ b5 = 1)
      /\ Bit(w, 6) = b6 /\ (b6 = 0 \/ b6 = 1)
      /\ Bit(w, 7) = b7 /\ (b7 = 0 \/ b7 = 1)
      /\ Bit(w, 8) = b8 /\ (b8 = 0 \/ b8 = 1)
      /\ Bit(w, 9) = b9 /\ (b9 = 0 \/ b9 = 1)
      /\ Bit(w, 10) = b10 /\ (b10 = 0 \/ b10 = 1)
      /\ Bit(w, 11) = b11 /\ (b11 = 0 \/ b11 = 1)
      /\ Bit(w, 12) = b12 /\ (b12 = 0 \/ b12 = 1)
      /\ Bit(w, 13) = b13 /\ (b13 = 0 \/ b13 = 1)
      /\ Bit(w, 14) = b14 /\ (b14 = 0 \/ b14 = 1)
      /\ Bit(w, 15) = b15 /\ (b15 = 0 \/ b15 = 1)
  BY <1>b0, <1>b1, <1>b2, <1>b3, <1>b4, <1>b5, <1>b6, <1>b7, <1>b8, <1>b9, <1>b10, <1>b11, <1>b12, <1>b13, <1>b14, <1>b15, <1>i1, <1>i2, <1>i3, <1>i4, <1>i5, <1>i6, <1>i7, <1>i8, <1>i9, <1>i10, <1>i11, <1>i12, <1>i13, <1>i14, <1>i15, <1>i16, Zenon DEF b0, b1, b2, b3, b4, b5, b6, b7, b8, b9, b10, b11, b12, b13, b14, b15
<1>5. ASSUME NEW n \in 0 .. 15 PROVE Bit(w, n) = 0 \/ Bit(w, n) = 1
  <2>1. n = 0 \/ n = 1 \/ n = 2 \/ n = 3 \/ n = 4 \/ n = 5 \/ n = 6 \/ n = 7 \/ n = 8 \/ n = 9 \/ n = 10 \/ n = 11 \/ n = 12 \/ n = 13 \/ n = 14 \/ n = 15
    OBVIOUS
  <2> QED
    BY <1>4, <2>1
<1> QED
  BY <1>3, <1>4, <1>5

(* Changing one bit of a word. *)
LEMMA OneBit ==
    ASSUME NEW w \in WordRange, NEW k \in 0 .. 15, NEW S, NEW T,
           S = (BitsOf(w) \ {k}) \union T, T = {} \/ T = {k}
    PROVE  OfBits(S) = w + ((IF T = {} THEN 0 ELSE 1) - Bit(w, k)) * 2^k
<1> DEFINE v == IF T = {} THEN 0 ELSE 1
           p(n) == IF n \in S THEN 1 ELSE 0
           d == (v - Bit(w, k)) * 2^k
           old0 == Bit(w, 0) + 2 * Bit(w, 1) + 4 * Bit(w, 2) + 8 * Bit(w, 3)
           new0 == p(0) + 2 * p(1) + 4 * p(2) + 8 * p(3)
           old1 == 16 * Bit(w, 4) + 32 * Bit(w, 5) + 64 * Bit(w, 6) + 128 * Bit(w, 7)
           new1 == 16 * p(4) + 32 * p(5) + 64 * p(6) + 128 * p(7)
           old2 == 256 * Bit(w, 8) + 512 * Bit(w, 9) + 1024 * Bit(w, 10) + 2048 * Bit(w, 11)
           new2 == 256 * p(8) + 512 * p(9) + 1024 * p(10) + 2048 * p(11)
           old3 == 4096 * Bit(w, 12) + 8192 * Bit(w, 13) + 16384 * Bit(w, 14) + 32768 * Bit(w, 15)
           new3 == 4096 * p(12) + 8192 * p(13) + 16384 * p(14) + 32768 * p(15)
<1>1. \A n \in 0 .. 15 : p(n) = IF n = k THEN v ELSE Bit(w, n)
  <2>1. \A n \in 0 .. 15 : n \in BitsOf(w) <=> Bit(w, n) = 1
    BY Zenon DEF BitsOf
  <2>2. \A n \in 0 .. 15 : Bit(w, n) = 0 \/ Bit(w, n) = 1
    BY Binary
  <2> QED
    BY <2>1, <2>2
<1>2. OfBits(S) = new0 + new1 + new2 + new3
  BY DEF OfBits
<1>3. \A n \in 0 .. 15 : Bit(w, n) \in Int
  BY Binary
<1>4. w \in Int /\ v \in Int
  BY InRange
<1> HIDE DEF v, p
<1>5. w = old0 + old1 + old2 + old3
  BY <1>3, Binary
<1>d0. k = 0 => d = (v - Bit(w, 0)) * 1
  OBVIOUS
<1>d1. k = 1 => d = (v - Bit(w, 1)) * 2
  OBVIOUS
<1>d2. k = 2 => d = (v - Bit(w, 2)) * 4
  OBVIOUS
<1>d3. k = 3 => d = (v - Bit(w, 3)) * 8
  OBVIOUS
<1>d4. k = 4 => d = (v - Bit(w, 4)) * 16
  OBVIOUS
<1>d5. k = 5 => d = (v - Bit(w, 5)) * 32
  OBVIOUS
<1>d6. k = 6 => d = (v - Bit(w, 6)) * 64
  OBVIOUS
<1>d7. k = 7 => d = (v - Bit(w, 7)) * 128
  OBVIOUS
<1>d8. k = 8 => d = (v - Bit(w, 8)) * 256
  OBVIOUS
<1>d9. k = 9 => d = (v - Bit(w, 9)) * 512
  OBVIOUS
<1>d10. k = 10 => d = (v - Bit(w, 10)) * 1024
  OBVIOUS
<1>d11. k = 11 => d = (v - Bit(w, 11)) * 2048
  OBVIOUS
<1>d12. k = 12 => d = (v - Bit(w, 12)) * 4096
  OBVIOUS
<1>d13. k = 13 => d = (v - Bit(w, 13)) * 8192
  OBVIOUS
<1>d14. k = 14 => d = (v - Bit(w, 14)) * 16384
  OBVIOUS
<1>d15. k = 15 => d = (v - Bit(w, 15)) * 32768
  OBVIOUS
<1> HIDE DEF d
<1>g0. IF k \in 0 .. 3 THEN new0 = old0 + d ELSE new0 = old0
  BY <1>1, <1>3, <1>4, <1>d0, <1>d1, <1>d2, <1>d3
<1>g1. IF k \in 4 .. 7 THEN new1 = old1 + d ELSE new1 = old1
  BY <1>1, <1>3, <1>4, <1>d4, <1>d5, <1>d6, <1>d7
<1>g2. IF k \in 8 .. 11 THEN new2 = old2 + d ELSE new2 = old2
  BY <1>1, <1>3, <1>4, <1>d8, <1>d9, <1>d10, <1>d11
<1>g3. IF k \in 12 .. 15 THEN new3 = old3 + d ELSE new3 = old3
  BY <1>1, <1>3, <1>4, <1>d12, <1>d13, <1>d14, <1>d15
<1>6. /\ old0 \in Int /\ old1 \in Int /\ old2 \in Int /\ old3 \in Int /\ d \in Int
  BY <1>3, <1>4 DEF d
<1> HIDE DEF old0, new0, old1, new1, old2, new2, old3, new3
<1>7. OfBits(S) = w + d
  BY <1>2, <1>5, <1>6, <1>g0, <1>g1, <1>g2, <1>g3
<1> QED
  BY <1>7 DEF d, v
(* A set of bits is a word. *)
LEMMA OfBitsIs ==
    ASSUME NEW S
    PROVE  OfBits(S) \in WordRange
<1> DEFINE p(n) == IF n \in S THEN 1 ELSE 0
           g0 == p(0) + 2 * p(1) + 4 * p(2) + 8 * p(3)
           g1 == p(4) + 2 * p(5) + 4 * p(6) + 8 * p(7)
           g2 == p(8) + 2 * p(9) + 4 * p(10) + 8 * p(11)
           g3 == p(12) + 2 * p(13) + 4 * p(14) + 8 * p(15)
<1>1. OfBits(S) = g0 + 16 * g1 + 256 * g2 + 4096 * g3
  BY DEF OfBits
<1>2. g0 \in 0 .. 15 /\ g1 \in 0 .. 15 /\ g2 \in 0 .. 15 /\ g3 \in 0 .. 15
  OBVIOUS
<1> HIDE DEF g0, g1, g2, g3
<1> QED
  BY <1>1, <1>2 DEF WordRange

(* One sequence of numbers behind another. *)
LEMMA Joined ==
    ASSUME NEW s \in Seq(Int), NEW t \in Seq(Int)
    PROVE  /\ s \o t \in Seq(Int) /\ Len(s \o t) = Len(s) + Len(t)
           /\ \A i \in 1 .. Len(s) : (s \o t)[i] = s[i]
           /\ \A i \in 1 .. Len(t) : (s \o t)[Len(s) + i] = t[i]
<1>1. /\ s \o t \in Seq(Int) /\ Len(s \o t) = Len(s) + Len(t)
      /\ \A i \in 1 .. Len(s) + Len(t) : (s \o t)[i] = IF i <= Len(s) THEN s[i] ELSE t[i - Len(s)]
  BY ConcatProperties
<1>2. \A i \in 1 .. Len(s) : i \in 1 .. Len(s) + Len(t) /\ i <= Len(s)
  OBVIOUS
<1>3. \A i \in 1 .. Len(t) : Len(s) + i \in 1 .. Len(s) + Len(t) /\ ~ Len(s) + i <= Len(s)
                             /\ (Len(s) + i) - Len(s) = i
  OBVIOUS
<1> QED
  BY <1>1, <1>2, <1>3

(* A sequence of one integer, and of two. *)
LEMMA One ==
    ASSUME NEW a \in Int
    PROVE  <<a>> \in Seq(Int) /\ Len(<<a>>) = 1 /\ <<a>>[1] = a
OBVIOUS

(* A sequence of two integers, and what is in it. *)
LEMMA Two ==
    ASSUME NEW a \in Int, NEW b \in Int
    PROVE  <<a, b>> \in Seq(Int) /\ Len(<<a, b>>) = 2 /\ <<a, b>>[1] = a /\ <<a, b>>[2] = b
OBVIOUS

(* The two bytes of a word, and the word back from them. *)
LEMMA BytesAre ==
    ASSUME NEW w \in WordRange
    PROVE  /\ Bytes(w) \in Seq(Int) /\ Len(Bytes(w)) = 2
           /\ Bytes(w)[1] \in Int /\ Bytes(w)[2] \in Int
           /\ OfBytes(Bytes(w)[1], Bytes(w)[2]) = w
<1>1. w % 256 \in Int /\ (w \div 256) % 256 \in Int
  BY InRange, Divides
<1> QED
  BY <1>1, Two, BytesBack DEF Bytes

-----------------------------------------------------------------------------
(***************************************************************************)
(* The codec of LGX.c.                                                     *)
(***************************************************************************)

(* What the controller makes of a segment. *)
LEMMA SegmentIs ==
    ASSUME NEW s
    PROVE  /\ s.name # "[]" => L!Segment(s) = [name |-> s.name, index |-> 0]
           /\ s.name = "[]" /\ s.bytes[1] = 40 => L!Segment(s) = [name |-> "[]", index |-> s.bytes[2]]
           /\ s.name = "[]" /\ s.bytes[1] = 41 =>
                 L!Segment(s) = [name |-> "[]", index |-> OfBytes(s.bytes[3], s.bytes[4])]
<1>1. ASSUME s.name # "[]" PROVE L!Segment(s) = [name |-> s.name, index |-> 0]
  BY <1>1, Zenon DEF L!Segment, L!Member
<1>2. ASSUME s.name = "[]", s.bytes[1] = 40 PROVE L!Segment(s) = [name |-> "[]", index |-> s.bytes[2]]
  <2>1. ~ s.bytes[1] \in {41, 42}
    <3> DEFINE k == s.bytes[1]
    <3> HIDE DEF k
    <3>1. k = 40
      BY <1>2 DEF k
    <3> QED
      BY <3>1 DEF k
  <2> QED
    BY <1>2, <2>1, Zenon DEF L!Segment, L!Index
<1>3. ASSUME s.name = "[]", s.bytes[1] = 41
      PROVE  L!Segment(s) = [name |-> "[]", index |-> OfBytes(s.bytes[3], s.bytes[4])]
  <2>1. ~ s.bytes[1] = 40 /\ s.bytes[1] \in {41, 42}
    <3> DEFINE k == s.bytes[1]
    <3> HIDE DEF k
    <3>1. k = 41
      BY <1>3 DEF k
    <3> QED
      BY <3>1 DEF k
  <2> QED
    BY <1>3, <2>1, Zenon DEF L!Segment, L!Index, L!OfBytes, OfBytes
<1> QED
  BY <1>1, <1>2, <1>3, Zenon

(* Two bytes behind two bytes. *)
LEMMA TwoAndTwo ==
    ASSUME NEW s \in Seq(Int), Len(s) = 2, NEW t \in Seq(Int), Len(t) = 2
    PROVE  /\ s \o t \in Seq(Int) /\ Len(s \o t) = 4
           /\ (s \o t)[1] = s[1] /\ (s \o t)[2] = s[2] /\ (s \o t)[3] = t[1] /\ (s \o t)[4] = t[2]
<1> DEFINE c == s \o t
<1>1. /\ c \in Seq(Int) /\ Len(c) = Len(s) + Len(t)
      /\ \A i \in 1 .. Len(s) : c[i] = s[i]
      /\ \A i \in 1 .. Len(t) : c[Len(s) + i] = t[i]
  BY Joined
<1> HIDE DEF c
<1>2. c[1] = s[1] /\ c[2] = s[2] /\ c[2 + 1] = t[1] /\ c[2 + 2] = t[2]
  BY <1>1
<1> QED
  BY <1>1, <1>2 DEF c

(* The segment of an index of a Logix tells that index. *)
LEMMA SegmentOfIndex ==
    ASSUME NEW v \in WordRange
    PROVE  L!Segment(L!AddSegmentValue(v)) = [name |-> "[]", index |-> v]
<1> DEFINE s == L!AddSegmentValue(v)
           t == <<41, 0>>
           y == Bytes(v)
           b == t \o y
           c == <<40, v>>
<1>1. v \in Int /\ ~ v > 65535
  BY InRange
<1>2. t \in Seq(Int) /\ Len(t) = 2 /\ t[1] = 41
  BY Two
<1>3. c[1] = 40 /\ c[2] = v
  OBVIOUS
<1>4. y \in Seq(Int) /\ Len(y) = 2 /\ y[1] \in Int /\ y[2] \in Int /\ OfBytes(y[1], y[2]) = v
  BY BytesAre
<1>5. L!Bytes(v) = y
  BY Zenon DEF L!Bytes, Bytes
<1>6. s = [name |-> "[]", bytes |-> IF v > 65535 THEN <<42, 0>> \o y \o <<0, 0>>
                                    ELSE IF v > 255 THEN b ELSE c]
  BY <1>5 DEF L!AddSegmentValue
<1> HIDE DEF s, t, c, y
<1>7. b[1] = 41 /\ b[3] = y[1] /\ b[4] = y[2]
  BY <1>2, <1>4, TwoAndTwo
<1> HIDE DEF b
<1>8. s.name = "[]" /\ s.bytes = IF v > 255 THEN b ELSE c
  BY <1>1, <1>6
<1>9. CASE v > 255
  <2>1. s.name = "[]" /\ s.bytes = b
    BY <1>8, <1>9
  <2>2. L!Segment(s) = [name |-> "[]", index |-> OfBytes(y[1], y[2])]
    BY <2>1, <1>7, SegmentIs, Zenon
  <2> QED
    BY <2>2, <1>4 DEF s
<1>10. CASE ~ v > 255
  <2>1. s.name = "[]" /\ s.bytes = c
    BY <1>8, <1>10
  <2>2. L!Segment(s) = [name |-> "[]", index |-> v]
    BY <2>1, <1>3, SegmentIs, Zenon
  <2> QED
    BY <2>2 DEF s
<1> QED
  BY <1>9, <1>10

(* What is in a sequence. *)
LEMMA InSequence ==
    ASSUME NEW S, NEW s \in Seq(S), NEW i \in DOMAIN s
    PROVE  s[i] \in S
BY ElementOfSeq

(* A path leads the controller to the tag of which it is made. *)
THEOREM PathLeadsBack ==
    ASSUME NEW a, TagAddressOK(a), \A i \in DOMAIN a : a[i].index < 2^16
    PROVE  L!Tag(L!IOI(a)) = a
<1>1. a \in Seq([name : STRING, index : Nat])
  BY DEF TagAddressOK
<1> DEFINE segment(i) == IF a[i].name = "[]" THEN L!AddSegmentValue(a[i].index) ELSE L!Symbol(a[i].name)
<1>2. L!IOI(a) = [i \in DOMAIN a |-> segment(i)]
  BY DEF L!IOI
<1>3. ASSUME NEW i \in DOMAIN a PROVE L!Segment(segment(i)) = a[i]
  <2>1. a[i] \in [name : STRING, index : Nat]
    BY <1>1, InSequence
  <2>2. CASE a[i].name # "[]"
    <3>1. a[i] = [name |-> a[i].name, index |-> 0]
      <4>1. a[i].index = 0
        BY <2>2, Zenon DEF TagAddressOK
      <4> QED
        BY <2>1, <4>1
    <3>2. L!Symbol(a[i].name).name = a[i].name
      BY DEF L!Symbol
    <3> QED
      BY <2>2, <3>1, <3>2, SegmentIs
  <2>3. CASE a[i].name = "[]"
    <3>1. a[i] = [name |-> "[]", index |-> a[i].index] /\ a[i].index \in WordRange
      BY <2>1, <2>3 DEF WordRange
    <3> QED
      BY <2>3, <3>1, SegmentOfIndex
  <2> QED
    BY <2>2, <2>3
<1> HIDE DEF segment
<1>4. DOMAIN L!IOI(a) = DOMAIN a /\ \A i \in DOMAIN a : L!IOI(a)[i] = segment(i)
  BY <1>2
<1>5. L!Tag(L!IOI(a)) = [i \in DOMAIN a |-> a[i]]
  BY <1>3, <1>4 DEF L!Tag
<1> QED
  BY <1>1, <1>5

-----------------------------------------------------------------------------
(***************************************************************************)
(* The codec of PLC.c.                                                     *)
(***************************************************************************)

(* A level is one byte or three. *)
LEMMA LevelBytesAre ==
    ASSUME NEW n \in WordRange
    PROVE  /\ P!LevelBytes(n) \in Seq(Int)
           /\ n < 255 => P!LevelBytes(n) = <<n>>
           /\ ~ n < 255 => /\ Len(P!LevelBytes(n)) = 3 /\ P!LevelBytes(n)[1] = 255
                           /\ OfBytes(P!LevelBytes(n)[2], P!LevelBytes(n)[3]) = n
<1> DEFINE y == Bytes(n)
           t == <<255>>
           b == t \o y
<1>1. y \in Seq(Int) /\ Len(y) = 2 /\ OfBytes(y[1], y[2]) = n
  BY BytesAre
<1>2. t \in Seq(Int) /\ Len(t) = 1 /\ t[1] = 255
  BY One
<1>3. P!LevelBytes(n) = IF n < 255 THEN <<n>> ELSE b
  BY Zenon DEF P!LevelBytes, P!Bytes, Bytes
<1> HIDE DEF y, t
<1>4. b \in Seq(Int) /\ Len(b) = 3 /\ b[1] = 255 /\ b[2] = y[1] /\ b[3] = y[2]
  <2>1. /\ b \in Seq(Int) /\ Len(b) = Len(t) + Len(y)
        /\ \A i \in 1 .. Len(t) : b[i] = t[i]
        /\ \A i \in 1 .. Len(y) : b[Len(t) + i] = y[i]
    <3>1. y \in Seq(Int) /\ t \in Seq(Int)
      BY <1>1, <1>2
    <3> QED
      BY <3>1, Joined
  <2> HIDE DEF b
  <2>2. b[1] = t[1] /\ b[1 + 1] = y[1] /\ b[1 + 2] = y[2]
    BY <1>1, <1>2, <2>1
  <2> QED
    BY <1>1, <1>2, <2>1, <2>2
<1> HIDE DEF b
<1>5. n \in Int
  BY InRange
<1>6. <<n>> \in Seq(Int)
  BY <1>5
<1> QED
  BY <1>1, <1>3, <1>4, <1>6

(* The device finds a level in front of what is behind it. *)
LEMMA LevelIsFirst ==
    ASSUME NEW n \in WordRange, NEW y \in Seq(Int)
    PROVE  LET b == P!LevelBytes(n) \o y IN
           b \in Seq(Int) /\ b # <<>> /\ P!First(b) = n /\ P!Behind(b) = y
<1> DEFINE t == P!LevelBytes(n)
           b == t \o y
<1>1. n \in Int
  BY InRange
<1>2. t \in Seq(Int) /\ Len(t) \in {1, 3} /\ t[1] \in Int
  <2>1. CASE n < 255
    BY <2>1, <1>1, LevelBytesAre
  <2>2. CASE ~ n < 255
    BY <2>2, LevelBytesAre
  <2> QED
    BY <2>1, <2>2
<1> HIDE DEF t
<1>3. /\ b \in Seq(Int) /\ Len(b) = Len(t) + Len(y)
      /\ \A i \in 1 .. Len(t) : b[i] = t[i]
      /\ \A i \in 1 .. Len(y) : b[Len(t) + i] = y[i]
  BY <1>2, Joined
<1> HIDE DEF b
<1>4. Len(y) \in Nat
  OBVIOUS
<1>5. b # <<>>
  BY <1>2, <1>3, <1>4
<1>6. CASE n < 255
  <2>0. Len(t) = 1 /\ t[1] = n
    BY <1>6, LevelBytesAre DEF t
  <2>1. Len(t) = 1 /\ b[1] = n
    <3>1. 1 \in 1 .. Len(t)
      BY <2>0
    <3> QED
      BY <1>3, <2>0, <3>1, Zenon
  <2>2. ~ P!Wide(b)
    BY <1>6, <2>1 DEF P!Wide
  <2>3. Tail(b) = y
    <3>1. Tail(b) \in Seq(Int) /\ Len(Tail(b)) = Len(b) - 1 /\ \A i \in 1 .. Len(Tail(b)) : Tail(b)[i] = b[i + 1]
      BY <1>3, <1>5, HeadTailProperties
    <3>2. \A i \in 1 .. Len(y) : b[1 + i] = y[i] /\ 1 + i = i + 1
      BY <1>3, <2>1
    <3>3. Len(Tail(b)) = Len(y)
      BY <3>1, <1>3, <2>1, <1>4
    <3>4. \A i \in 1 .. Len(Tail(b)) : Tail(b)[i] = y[i]
      BY <3>1, <3>2, <3>3
    <3> QED
      BY <3>1, <3>3, <3>4, SeqEqual
  <2> QED
    BY <1>3, <1>5, <2>1, <2>2, <2>3 DEF P!First, P!Behind, b, t
<1>7. CASE ~ n < 255
  <2>1. Len(t) = 3 /\ t[1] = 255 /\ OfBytes(t[2], t[3]) = n
    BY <1>7, LevelBytesAre DEF t
  <2>2. b[1] = 255 /\ b[2] = t[2] /\ b[3] = t[3] /\ Len(b) > 2
    BY <1>3, <1>4, <2>1
  <2>3. P!Wide(b)
    BY <2>2 DEF P!Wide
  <2>4. SubSeq(b, 4, Len(b)) = y
    <3> DEFINE r == SubSeq(b, 4, Len(b))
    <3>1. ASSUME NEW i \in 4 .. Len(b) PROVE b[i] \in Int
      <4>1. i \in 1 .. Len(b)
        BY <1>3, <1>4
      <4> QED
        BY <1>3, <4>1, ElementOfSeq
    <3>2. /\ r \in Seq(Int) /\ Len(r) = (IF 4 <= Len(b) THEN Len(b) - 4 + 1 ELSE 0)
          /\ \A i \in 1 .. Len(b) - 4 + 1 : r[i] = b[4 + i - 1]
      BY <3>1, <1>3, <1>4, <2>1, SubSeqProperties
    <3> HIDE DEF r
    <3>3. Len(r) = Len(y)
      BY <3>2, <1>3, <1>4, <2>1
    <3>4. \A i \in 1 .. Len(r) : r[i] = y[i]
      BY <3>2, <3>3, <1>3, <1>4, <2>1
    <3>5. r = y
      BY <3>2, <3>3, <3>4, SeqEqual
    <3> QED
      BY <3>5 DEF r
  <2>5. P!First(b) = OfBytes(t[2], t[3])
    BY <2>2, <2>3, Zenon DEF P!First, P!OfBytes, OfBytes
  <2> QED
    BY <1>3, <1>5, <2>1, <2>3, <2>4, <2>5 DEF P!Behind, b, t
<1> QED
  BY <1>6, <1>7

(* The device reads the levels of an address as they were coded.           *)
THEOREM LevelsAre ==
    ASSUME NEW f \in WordRange, NEW e \in WordRange, NEW n \in WordRange
    PROVE  /\ P!Levels(P!LevelBytes(f) \o P!LevelBytes(e)) = <<f, e>>
           /\ P!Levels((P!LevelBytes(f) \o P!LevelBytes(e)) \o P!LevelBytes(n)) = <<f, e, n>>
<1> DEFINE F == P!LevelBytes(f)
           E == P!LevelBytes(e)
           N == P!LevelBytes(n)
<1>1. F \in Seq(Int) /\ E \in Seq(Int) /\ N \in Seq(Int) /\ <<>> \in Seq(Int) /\ E \o N \in Seq(Int)
  <2>1. F \in Seq(Int) /\ E \in Seq(Int) /\ N \in Seq(Int) /\ <<>> \in Seq(Int)
    BY LevelBytesAre
  <2> HIDE DEF E, N
  <2> QED
    BY <2>1, ConcatProperties
<1>2. E \o <<>> = E /\ N \o <<>> = N /\ (F \o E) \o N = F \o (E \o N)
  BY <1>1, ConcatEmptySeq, ConcatAssociative
<1>3. F \o E # <<>> /\ P!First(F \o E) = f /\ P!Behind(F \o E) = E
  BY <1>1, LevelIsFirst
<1>4. F \o (E \o N) # <<>> /\ P!First(F \o (E \o N)) = f /\ P!Behind(F \o (E \o N)) = E \o N
  BY <1>1, LevelIsFirst
<1>5. E \o N # <<>> /\ P!First(E \o N) = e /\ P!Behind(E \o N) = N
  BY <1>1, LevelIsFirst
<1>6. E # <<>> /\ P!First(E) = e /\ P!Behind(E) = <<>>
  <2>1. E \o <<>> # <<>> /\ P!First(E \o <<>>) = e /\ P!Behind(E \o <<>>) = <<>>
    BY <1>1, LevelIsFirst
  <2> QED
    BY <2>1, <1>2
<1>7. N # <<>> /\ P!First(N) = n /\ P!Behind(N) = <<>>
  <2>1. N \o <<>> # <<>> /\ P!First(N \o <<>>) = n /\ P!Behind(N \o <<>>) = <<>>
    BY <1>1, LevelIsFirst
  <2> QED
    BY <2>1, <1>2
<1> HIDE DEF F, E, N
<1>8. P!Levels(F \o E) = <<f, e>>
  BY <1>3, <1>6, Zenon DEF P!Levels
<1>9. P!Levels(F \o (E \o N)) = <<f, e, n>>
  <2>1. P!Levels(F \o (E \o N)) = <<f, e, n>> \o <<>>
    BY <1>4, <1>5, <1>7, Zenon DEF P!Levels
  <2>2. <<f, e, n>> \in Seq(Int)
    BY InRange
  <2> QED
    BY <2>1, <2>2, ConcatEmptySeq
<1> QED
  BY <1>2, <1>8, <1>9 DEF F, E, N

(* Adding bytes to an address changes nothing else of it. *)
LEMMA WithBytes ==
    ASSUME NEW b, NEW m, NEW y
    PROVE  [[bytes |-> b, mask |-> m, encoding_bit |-> 0] EXCEPT !.bytes = @ \o y]
               = [bytes |-> b \o y, mask |-> m, encoding_bit |-> 0]
<1> DEFINE l == [bytes |-> b, mask |-> m, encoding_bit |-> 0]
           z == b \o y
<1>1. l.bytes = b
  OBVIOUS
<1>2. [l EXCEPT !.bytes = @ \o y] = [l EXCEPT !.bytes = l.bytes \o y]
  <2> HIDE DEF l
  <2> QED
    OBVIOUS
<1>3. [l EXCEPT !.bytes = z] = [bytes |-> z, mask |-> m, encoding_bit |-> 0]
  <2> HIDE DEF z
  <2> QED
    OBVIOUS
<1> HIDE DEF l
<1>4. [l EXCEPT !.bytes = @ \o y] = [bytes |-> z, mask |-> m, encoding_bit |-> 0]
  BY <1>1, <1>2, <1>3, Zenon
<1> QED
  BY <1>4 DEF l

(* What _BuildLogicalBinaryAddress makes of a number or a name. *)
LEMMA NumberIs ==
    ASSUME NEW b, NEW m, NEW n \in WordRange
    PROVE  /\ P!Number([bytes |-> b, mask |-> m, encoding_bit |-> 0], n)
               = [bytes |-> b \o P!LevelBytes(n), mask |-> m, encoding_bit |-> 0]
           /\ P!Number([bytes |-> b, mask |-> m, encoding_bit |-> 1], n)
               = [bytes |-> b, mask |-> n, encoding_bit |-> 1]
<1>1. P!Word(n) = n
  <2>1. 2^16 = 65536
    OBVIOUS
  <2>2. P!Word(n) = n % 65536
    BY <2>1 DEF P!Word
  <2> QED
    BY <2>2, InRange, Divides
<1> DEFINE l == [bytes |-> b, mask |-> m, encoding_bit |-> 0]
           r == [bytes |-> b, mask |-> m, encoding_bit |-> 1]
           y == P!LevelBytes(n)
<1>2. l.encoding_bit = 0 /\ r.encoding_bit = 1 /\ 0 # 1
  OBVIOUS
<1>3. P!Number(l, n) = [l EXCEPT !.bytes = @ \o y] /\ P!Number(r, n) = [r EXCEPT !.mask = n]
  <2> HIDE DEF l, r
  <2> QED
    BY <1>1, <1>2, Zenon DEF P!Number
<1>4. [r EXCEPT !.mask = n] = [bytes |-> b, mask |-> n, encoding_bit |-> 1]
  OBVIOUS
<1> QED
  BY <1>3, <1>4, WithBytes, Zenon

(* Names that LogicalBinaryAddress passes over. *)
LEMMA NameIsNone ==
    ASSUME NEW l, NEW s \in {"B", "C", "F", "I", "N", "O", "R", "S", "T", ":", ".", "POS"}
    PROVE  P!Name(l, s) = l
<1>1. s \notin DOMAIN P!Mnemonic /\ s # "/"
  BY DEF P!Mnemonic
<1> QED
  BY <1>1, Zenon DEF P!Name

(* A slash makes the next number a bit. *)
LEMMA SlashIs ==
    ASSUME NEW b, NEW m
    PROVE  P!Name([bytes |-> b, mask |-> m, encoding_bit |-> 0], "/")
               = [bytes |-> b, mask |-> m, encoding_bit |-> 1]
<1> DEFINE l == [bytes |-> b, mask |-> m, encoding_bit |-> 0]
<1>1. P!Name(l, "/") = [l EXCEPT !.encoding_bit = 1]
  <2> HIDE DEF l
  <2> QED
    BY Zenon DEF P!Name
<1>2. [l EXCEPT !.encoding_bit = 1] = [bytes |-> b, mask |-> m, encoding_bit |-> 1]
  OBVIOUS
<1> QED
  BY <1>1, <1>2

(* The word and the bit that a name of PLC.c stands for. *)
Sub(s) == IF s = "PRE" THEN 1 ELSE IF s = "ACC" THEN 2 ELSE 0
SubBit(s) == IF s \in {"EN", "LEN"} THEN 15 ELSE IF s = "TT" THEN 14 ELSE IF s = "DN" THEN 13 ELSE None

(* A name adds a level, and may set the bit. *)
LEMMA NameIs ==
    ASSUME NEW b, NEW m, NEW s \in {"PRE", "ACC", "LEN", "EN", "TT", "DN"}
    PROVE  P!Name([bytes |-> b, mask |-> m, encoding_bit |-> 0], s)
               = [bytes |-> b \o P!LevelBytes(Sub(s)), mask |-> IF SubBit(s) = None THEN m ELSE SubBit(s), encoding_bit |-> 0]
<1>1. None \notin Int
  BY TagAssumption
<1>2. s \in DOMAIN P!Mnemonic /\ s # "/"
  BY DEF P!Mnemonic
<1>3. P!Mnemonic[s].level = Sub(s) /\ P!Mnemonic[s].mask = SubBit(s)
  <2>1. /\ P!Mnemonic["PRE"] = P!Level(1) /\ P!Mnemonic["ACC"] = P!Level(2)
        /\ P!Mnemonic["LEN"] = P!Flag(0, 15) /\ P!Mnemonic["EN"] = P!Flag(0, 15)
        /\ P!Mnemonic["TT"] = P!Flag(0, 14) /\ P!Mnemonic["DN"] = P!Flag(0, 13)
    BY DEF P!Mnemonic
  <2>2. \A n : P!Level(n).level = n /\ P!Level(n).mask = None
    BY DEF P!Level
  <2>3. \A n, k : P!Flag(n, k).level = n /\ P!Flag(n, k).mask = k
    BY DEF P!Flag
  <2>4. s = "PRE" \/ s = "ACC" \/ s = "LEN" \/ s = "EN" \/ s = "TT" \/ s = "DN"
    OBVIOUS
  <2> QED
    BY <2>1, <2>2, <2>3, <2>4 DEF Sub, SubBit
<1> DEFINE l == [bytes |-> b, mask |-> m, encoding_bit |-> 0]
           n == P!LevelBytes(Sub(s))
           o == [bytes |-> b \o n, mask |-> m, encoding_bit |-> 0]
<1>4. P!Name(l, s) = LET level == [l EXCEPT !.bytes = @ \o n] IN
                     IF SubBit(s) = None THEN level ELSE [level EXCEPT !.mask = SubBit(s)]
  <2> HIDE DEF l
  <2> QED
    BY <1>2, <1>3, Zenon DEF P!Name
<1>5. [l EXCEPT !.bytes = @ \o n] = o
  <2>1. \A y : [l EXCEPT !.bytes = @ \o y] = [bytes |-> b \o y, mask |-> m, encoding_bit |-> 0]
    BY WithBytes, Zenon
  <2> QED
    BY <2>1, Zenon
<1> DEFINE z == b \o n
           k == SubBit(s)
<1>6. [[bytes |-> z, mask |-> m, encoding_bit |-> 0] EXCEPT !.mask = k]
          = [bytes |-> z, mask |-> k, encoding_bit |-> 0]
  <2> HIDE DEF z, k
  <2> QED
    OBVIOUS
<1> QED
  BY <1>4, <1>5, <1>6, Zenon

(* What an address of a file, with its letter, may be. *)
Lettered(a) ==
    /\ a.letter \in {"B", "C", "F", "I", "N", "O", "R", "S", "T"}
    /\ a.file \in WordRange /\ a.element \in WordRange
    /\ a.sub = None \/ a.sub = "POS" \/ a.sub \in {"PRE", "ACC", "LEN", "EN", "TT", "DN"}
    /\ a.bit = None \/ a.bit \in 0 .. 15

(* The levels and the bit that _BuildLogicalBinaryAddress makes of an      *)
(* address are found again by the device.                                  *)
LEMMA AddressIs ==
    ASSUME NEW a, Lettered(a)
    PROVE  LET lba == P!LogicalBinaryAddress(a) IN
           /\ P!Levels(lba.bytes) = IF a.sub = None \/ a.sub = "POS" THEN <<a.file, a.element>>
                                     ELSE <<a.file, a.element, Sub(a.sub)>>
           /\ lba.mask = IF a.bit # None THEN a.bit ELSE IF a.sub = None THEN None ELSE SubBit(a.sub)
<1> DEFINE F == P!LevelBytes(a.file)
           E == P!LevelBytes(a.element)
           N == P!LevelBytes(Sub(a.sub))
           file == P!Number(P!Name(P!Start, a.letter), a.file)
           element == P!Number(P!Name(file, ":"), a.element)
           sub == IF a.sub = None THEN element ELSE P!Name(P!Name(element, "."), a.sub)
           b == IF a.sub = None \/ a.sub = "POS" THEN F \o E ELSE (F \o E) \o N
           m == IF a.sub = None THEN None ELSE SubBit(a.sub)
           lba == P!LogicalBinaryAddress(a)
<1>1. /\ a.letter \in {"B", "C", "F", "I", "N", "O", "R", "S", "T", ":", ".", "POS"}
      /\ a.file \in WordRange /\ a.element \in WordRange
      /\ a.sub = None \/ a.sub = "POS" \/ a.sub \in {"PRE", "ACC", "LEN", "EN", "TT", "DN"}
      /\ a.bit = None \/ a.bit \in WordRange
  BY DEF Lettered, WordRange
<1>2. ":" \in {"B", "C", "F", "I", "N", "O", "R", "S", "T", ":", ".", "POS"}
      /\ "." \in {"B", "C", "F", "I", "N", "O", "R", "S", "T", ":", ".", "POS"}
      /\ "POS" \in {"B", "C", "F", "I", "N", "O", "R", "S", "T", ":", ".", "POS"}
  OBVIOUS
<1>3. None # "POS" /\ None \notin {"PRE", "ACC", "LEN", "EN", "TT", "DN"}
  BY TagAssumption DEF D!Words3, D!Flags
<1>4. F \in Seq(Int) /\ <<>> \o F = F
  BY <1>1, LevelBytesAre, ConcatEmptySeq
<1>5. file = [bytes |-> F, mask |-> None, encoding_bit |-> 0]
  <2>1. P!Name(P!Start, a.letter) = P!Start
    BY <1>1, NameIsNone
  <2>2. P!Start = [bytes |-> <<>>, mask |-> None, encoding_bit |-> 0]
    BY DEF P!Start
  <2>3. P!Number([bytes |-> <<>>, mask |-> None, encoding_bit |-> 0], a.file)
            = [bytes |-> <<>> \o F, mask |-> None, encoding_bit |-> 0]
    BY <1>1, NumberIs
  <2> HIDE DEF F
  <2> QED
    BY <1>4, <2>1, <2>2, <2>3, Zenon
<1>6. element = [bytes |-> F \o E, mask |-> None, encoding_bit |-> 0]
  <2>1. P!Name(file, ":") = file
    BY <1>2, NameIsNone
  <2>2. P!Number([bytes |-> F, mask |-> None, encoding_bit |-> 0], a.element)
            = [bytes |-> F \o E, mask |-> None, encoding_bit |-> 0]
    BY <1>1, NumberIs
  <2> HIDE DEF F, E, file
  <2> QED
    BY <1>5, <2>1, <2>2, Zenon
<1>7. sub = [bytes |-> b, mask |-> m, encoding_bit |-> 0]
  <2>1. P!Name(element, ".") = element
    BY <1>2, NameIsNone
  <2>2. CASE a.sub = None
    <3> HIDE DEF F, E, element
    <3> QED
      BY <1>6, <2>2, Zenon
  <2>3. CASE a.sub = "POS"
    <3>1. P!Name(element, "POS") = element
      BY <1>2, NameIsNone
    <3>2. SubBit("POS") = None
      BY DEF SubBit
    <3> HIDE DEF F, E, N, element
    <3> QED
      BY <1>3, <1>6, <2>1, <2>3, <3>1, <3>2, Zenon
  <2>4. CASE a.sub \in {"PRE", "ACC", "LEN", "EN", "TT", "DN"}
    <3> HIDE DEF F, E, element
    <3>1. P!Name([bytes |-> F \o E, mask |-> None, encoding_bit |-> 0], a.sub)
              = [bytes |-> (F \o E) \o N, mask |-> IF SubBit(a.sub) = None THEN None ELSE SubBit(a.sub), encoding_bit |-> 0]
      BY <2>4, NameIs
    <3>2. a.sub # None /\ a.sub # "POS"
      BY <1>3, <2>4
    <3> HIDE DEF N
    <3> QED
      BY <1>6, <2>1, <3>1, <3>2, Zenon
  <2> QED
    BY <1>1, <2>2, <2>3, <2>4
<1>8. lba = IF a.bit = None THEN sub ELSE P!Number(P!Name(sub, "/"), a.bit)
  BY Zenon DEF P!LogicalBinaryAddress
<1> HIDE DEF sub, b, m
<1>9. lba.bytes = b /\ lba.mask = IF a.bit # None THEN a.bit ELSE m
  <2>1. CASE a.bit = None
    BY <1>7, <1>8, <2>1
  <2>2. CASE a.bit # None
    <3>1. lba = [bytes |-> b, mask |-> a.bit, encoding_bit |-> 1]
      <4>1. P!Name(sub, "/") = [bytes |-> b, mask |-> m, encoding_bit |-> 1]
        BY <1>7, SlashIs, Zenon
      <4>2. P!Number([bytes |-> b, mask |-> m, encoding_bit |-> 1], a.bit)
                = [bytes |-> b, mask |-> a.bit, encoding_bit |-> 1]
        BY <1>1, <2>2, NumberIs
      <4> QED
        BY <1>8, <2>2, <4>1, <4>2, Zenon
    <3> QED
      BY <2>2, <3>1
  <2> QED
    BY <2>1, <2>2
<1>10. Sub(a.sub) \in WordRange
  BY DEF Sub, WordRange
<1>11. P!Levels(b) = IF a.sub = None \/ a.sub = "POS" THEN <<a.file, a.element>> ELSE <<a.file, a.element, Sub(a.sub)>>
  BY <1>1, <1>10, LevelsAre DEF b
<1> QED
  BY <1>9, <1>11, Zenon DEF m

-----------------------------------------------------------------------------
(* A field is in its half of the flag, or a byte behind it. *)
LEMMA FieldIs ==
    ASSUME NEW half \in Int, NEW b, half < 8
    PROVE  /\ P!Field(half, b) = [v |-> half, long |-> 0, rest |-> b]
           /\ P!Field(half, b).v = half /\ P!Field(half, b).long = 0 /\ P!Field(half, b).rest = b
<1>1. half # 9 /\ half # 10
  OBVIOUS
<1>2. P!Field(half, b) = [v |-> half, long |-> 0, rest |-> b]
  BY <1>1, Zenon DEF P!Field
<1> QED
  BY <1>2

(* A field of the description that is a byte of its own. *)
LEMMA LongFieldIs ==
    ASSUME NEW b
    PROVE  P!Field(9, b).v = b[1] /\ P!Field(9, b).long = 1 /\ P!Field(9, b).rest = Tail(b)
<1>1. ~ 9 < 8 /\ 9 # 10 /\ 9 = 9
  OBVIOUS
<1>2. P!Field(9, b) = [v |-> b[1], long |-> 1, rest |-> Tail(b)]
  BY <1>1, Zenon DEF P!Field
<1> QED
  BY <1>2

(* The parts of a description. *)
LEMMA FieldsAre ==
    ASSUME NEW t, NEW s, NEW l, NEW r, NEW d, d = [type |-> t, size |-> s, long |-> l, rest |-> r]
    PROVE  d.type = t /\ d.size = s /\ d.long = l /\ d.rest = r
OBVIOUS

(* A description in one byte. *)
LEMMA ShortIs ==
    ASSUME NEW b, NEW t \in Int, NEW s \in Int, 0 <= t, t < 8, 0 <= s, s < 8, b[1] = 16 * t + s
    PROVE  /\ P!Described(b).type = t /\ P!Described(b).size = s
           /\ P!Described(b).long = 0 /\ P!Described(b).rest = Tail(b)
<1>1. b[1] \div 16 = t /\ b[1] % 16 = s
  OBVIOUS
<1> DEFINE f == P!Field(t, Tail(b))
           g == P!Field(s, f.rest)
<1>2. f = [v |-> t, long |-> 0, rest |-> Tail(b)]
  BY FieldIs
<1>3. f.v = t /\ f.long = 0 /\ f.rest = Tail(b)
  BY <1>2
<1> HIDE DEF f
<1>4. g = [v |-> s, long |-> 0, rest |-> f.rest]
  BY FieldIs
<1>5. g.v = s /\ g.long = 0 /\ g.rest = f.rest
  BY <1>4
<1>6. P!Described(b) = [type |-> f.v, size |-> g.v, long |-> f.long + g.long, rest |-> g.rest]
  BY <1>1, Zenon DEF P!Described, f
<1> HIDE DEF g
<1>7. f.long + g.long = 0
  BY <1>3, <1>5
<1>8. /\ P!Described(b).type = f.v /\ P!Described(b).size = g.v
      /\ P!Described(b).long = f.long + g.long /\ P!Described(b).rest = g.rest
  BY <1>6
<1> QED
  BY <1>3, <1>5, <1>7, <1>8

(* The description of a float, with its type in a byte. *)
LEMMA FloatIs ==
    ASSUME NEW b, b[1] = 148
    PROVE  /\ P!Described(b).type = Tail(b)[1] /\ P!Described(b).size = 4
           /\ P!Described(b).long = 1 /\ P!Described(b).rest = Tail(Tail(b))
<1>1. b[1] \div 16 = 9 /\ b[1] % 16 = 4
  OBVIOUS
<1> DEFINE f == P!Field(9, Tail(b))
           g == P!Field(4, f.rest)
<1>2. f.v = Tail(b)[1] /\ f.long = 1 /\ f.rest = Tail(Tail(b))
  BY LongFieldIs, Zenon
<1> HIDE DEF f
<1>3. g.v = 4 /\ g.long = 0 /\ g.rest = f.rest
  BY FieldIs
<1>4. P!Described(b) = [type |-> f.v, size |-> g.v, long |-> f.long + g.long, rest |-> g.rest]
  BY <1>1, Zenon DEF P!Described, f
<1> HIDE DEF g
<1>5. f.long + g.long = 1
  BY <1>2, <1>3
<1>6. /\ P!Described(b).type = f.v /\ P!Described(b).size = g.v
      /\ P!Described(b).long = f.long + g.long /\ P!Described(b).rest = g.rest
  BY <1>4
<1> QED
  BY <1>2, <1>3, <1>5, <1>6

(* The description of an array, with its size in a byte. *)
LEMMA ArrayIs ==
    ASSUME NEW b, b[1] = 153, Tail(b)[1] = 9
    PROVE  /\ P!Described(b).type = 9 /\ P!Described(b).size = Tail(Tail(b))[1]
           /\ P!Described(b).long = 2 /\ P!Described(b).rest = Tail(Tail(Tail(b)))
<1>1. b[1] \div 16 = 9 /\ b[1] % 16 = 9
  OBVIOUS
<1> DEFINE f == P!Field(9, Tail(b))
           g == P!Field(9, f.rest)
<1>2. f.v = 9 /\ f.long = 1 /\ f.rest = Tail(Tail(b))
  <2>1. f.v = Tail(b)[1] /\ f.long = 1 /\ f.rest = Tail(Tail(b))
    BY LongFieldIs, Zenon
  <2> QED
    BY <2>1
<1> HIDE DEF f
<1>3. g.v = f.rest[1] /\ g.long = 1 /\ g.rest = Tail(f.rest)
  BY LongFieldIs, Zenon
<1>4. P!Described(b) = [type |-> f.v, size |-> g.v, long |-> f.long + g.long, rest |-> g.rest]
  BY <1>1, Zenon DEF P!Described, f
<1> HIDE DEF g
<1>5. f.long + g.long = 2
  BY <1>2, <1>3
<1>6. /\ P!Described(b).type = f.v /\ P!Described(b).size = g.v
      /\ P!Described(b).long = f.long + g.long /\ P!Described(b).rest = g.rest
  BY <1>4
<1> QED
  BY <1>2, <1>3, <1>5, <1>6

(* A sequence of four integers. *)
LEMMA FourAre ==
    ASSUME NEW x \in Int, NEW y \in Int, NEW z \in Int, NEW w \in Int
    PROVE  LET b == <<x, y, z, w>> IN
           /\ b \in Seq(Int) /\ b[1] = x /\ Tail(b)[1] = y /\ Tail(Tail(b))[1] = z
           /\ Tail(Tail(Tail(b))) = <<w>>
OBVIOUS

(* The types that are no longer than three bits. *)
LEMMA DecodedShort ==
    ASSUME NEW n \in Int, NEW t \in {4, 5, 6, 7}, NEW s \in {2, 6}
    PROVE  P!DecodePCCC(<<153, 9, n, 16 * t + s>>)
               = [type |-> t, elementsize |-> s, Varcount |-> (n - 1) \div s]
<1> DEFINE b == <<153, 9, n, 16 * t + s>>
           array == P!Described(b)
           c == <<16 * t + s>>
           element == P!Described(c)
<1>1. b[1] = 153 /\ Tail(b)[1] = 9 /\ Tail(Tail(b))[1] = n /\ Tail(Tail(Tail(b))) = c
  <2> DEFINE w == 16 * t + s
  <2>1. w \in Int
    OBVIOUS
  <2> HIDE DEF w
  <2> QED
    BY <2>1, FourAre
<1> HIDE DEF b
<1>2. array.type = 9 /\ array.size = n /\ array.rest = c
  BY <1>1, ArrayIs
<1>3. element.type = t /\ element.size = s /\ element.long = 0
  <2>1. c[1] = 16 * t + s
    OBVIOUS
  <2> HIDE DEF c
  <2>2. t \in Int /\ s \in Int /\ 0 <= t /\ t < 8 /\ 0 <= s /\ s < 8
    OBVIOUS
  <2>3. /\ P!Described(c).type = t /\ P!Described(c).size = s
        /\ P!Described(c).long = 0 /\ P!Described(c).rest = Tail(c)
    BY <2>1, <2>2, ShortIs
  <2> QED
    BY <2>3
<1> HIDE DEF c
<1>4. P!DecodePCCC(b) = [type |-> element.type, elementsize |-> element.size,
                         Varcount |-> (array.size - element.long - 1) \div element.size]
  <2>1. P!Described(array.rest) = element
    <3> HIDE DEF array
    <3> QED
      BY <1>2
  <2>2. array.type = P!PLC_ARRAY
    BY <1>2, Zenon DEF P!PLC_ARRAY
  <2> HIDE DEF element
  <2>3. P!DecodePCCC(b) = LET e == P!Described(array.rest) IN
                          [type |-> e.type, elementsize |-> e.size,
                           Varcount |-> (array.size - e.long - 1) \div e.size]
    BY <2>2, Zenon DEF P!DecodePCCC
  <2> QED
    BY <2>1, <2>3, Zenon
<1> HIDE DEF element, array
<1>5. n - 0 - 1 = n - 1
  OBVIOUS
<1> QED
  BY <1>2, <1>3, <1>4, <1>5, Zenon DEF b

(* The descriptions of an array of floats and of a float. *)
LEMMA LiteralsAre ==
    (<<153, 9, 6, 148>> \o <<8>>) \o <<>> = <<153, 9, 6, 148, 8>> /\ <<148>> \o <<8>> = <<148, 8>>
<1> DEFINE s == <<153, 9, 6, 148>>
           t == <<8>>
           u == <<148>>
<1>1. /\ s \in Seq(Int) /\ Len(s) = 4 /\ s[1] = 153 /\ s[2] = 9 /\ s[3] = 6 /\ s[4] = 148
      /\ t \in Seq(Int) /\ Len(t) = 1 /\ t[1] = 8 /\ u \in Seq(Int) /\ Len(u) = 1 /\ u[1] = 148
  OBVIOUS
<1> HIDE DEF s, t, u
<1> DEFINE c == s \o t
           d == u \o t
<1> s \in Seq(Int) /\ t \in Seq(Int) /\ u \in Seq(Int)
  BY <1>1
<1>2. /\ c \in Seq(Int) /\ Len(c) = Len(s) + Len(t)
      /\ \A i \in 1 .. Len(s) : c[i] = s[i]
      /\ \A i \in 1 .. Len(t) : c[Len(s) + i] = t[i]
  BY Joined
<1>3. /\ d \in Seq(Int) /\ Len(d) = Len(u) + Len(t)
      /\ \A i \in 1 .. Len(u) : d[i] = u[i]
      /\ \A i \in 1 .. Len(t) : d[Len(u) + i] = t[i]
  BY Joined
<1>4. c \o <<>> = c
  BY <1>2, ConcatEmptySeq
<1> HIDE DEF c, d
<1>5. c[1] = 153 /\ c[2] = 9 /\ c[3] = 6 /\ c[4] = 148 /\ c[4 + 1] = 8 /\ d[1] = 148 /\ d[1 + 1] = 8
  BY <1>1, <1>2, <1>3
<1>6. c = <<153, 9, 6, 148, 8>>
  BY <1>1, <1>2, <1>5
<1>7. d = <<148, 8>>
  BY <1>1, <1>3, <1>5
<1> QED
  BY <1>4, <1>6, <1>7 DEF c, d, s, t, u

(* The type that is longer, that of a float. *)
LEMMA DecodedLong ==
    ASSUME NEW n \in Int
    PROVE  P!DecodePCCC(<<153, 9, n, 148, 8>>)
               = [type |-> 8, elementsize |-> 4, Varcount |-> (n - 2) \div 4]
<1> DEFINE b == <<153, 9, n, 148, 8>>
           array == P!Described(b)
           c == <<148, 8>>
           element == P!Described(c)
<1>1. b[1] = 153 /\ Tail(b)[1] = 9 /\ Tail(Tail(b))[1] = n /\ Tail(Tail(Tail(b))) = c
  OBVIOUS
<1>2. c[1] = 148 /\ Tail(c)[1] = 8
  OBVIOUS
<1> HIDE DEF b, c
<1>3. array.type = 9 /\ array.size = n /\ array.rest = c
  BY <1>1, ArrayIs
<1>4. element.type = 8 /\ element.size = 4 /\ element.long = 1
  <2>1. /\ P!Described(c).type = Tail(c)[1] /\ P!Described(c).size = 4
        /\ P!Described(c).long = 1 /\ P!Described(c).rest = Tail(Tail(c))
    BY <1>2, FloatIs
  <2> QED
    BY <1>2, <2>1
<1>5. P!DecodePCCC(b) = [type |-> element.type, elementsize |-> element.size,
                         Varcount |-> (array.size - element.long - 1) \div element.size]
  <2>1. P!Described(array.rest) = element
    <3> HIDE DEF array
    <3> QED
      BY <1>3
  <2>2. array.type = P!PLC_ARRAY
    BY <1>3, Zenon DEF P!PLC_ARRAY
  <2> HIDE DEF element
  <2>3. P!DecodePCCC(b) = LET e == P!Described(array.rest) IN
                          [type |-> e.type, elementsize |-> e.size,
                           Varcount |-> (array.size - e.long - 1) \div e.size]
    BY <2>2, Zenon DEF P!DecodePCCC
  <2> QED
    BY <2>1, <2>3, Zenon
<1> HIDE DEF element, array
<1>6. n - 1 - 1 = n - 2
  OBVIOUS
<1> QED
  BY <1>3, <1>4, <1>5, <1>6, Zenon DEF b

(* What is described as it is, is not taken for an array. *)
LEMMA NotAnArray ==
    ASSUME NEW b, P!Described(b).type # 9
    PROVE  P!DecodePCCC(b) = None
BY Zenon DEF P!DecodePCCC, P!PLC_ARRAY

(* A description of the data of a type is decoded to the type, or not at   *)
(* all.                                                                    *)
THEOREM DecodedIs ==
    ASSUME NEW tp \in 4 .. 8
    PROVE  /\ P!DecodePCCC(P!EncodePLCDataType(tp, 1)).type = tp
           /\ P!DecodePCCC(P!EncodePLCDataType(tp, 1)).Varcount = 1
           /\ \A b \in P!Descriptions(tp) : P!DecodePCCC(b) = None \/ P!DecodePCCC(b).type = tp
<1> DEFINE b == P!EncodePLCDataType(tp, 1)
           size == P!PLCDataSize(tp)
           c == <<16 * P!Half(tp) + P!Half(size)>> \o (IF tp > 7 THEN <<tp>> ELSE <<>>)
<1>1. P!DecodePCCC(b).type = tp /\ P!DecodePCCC(b).Varcount = 1 /\ P!Described(c).type # 9
  <2>1. CASE tp # 8
    <3>1. tp \in {4, 5, 6, 7} /\ tp \in Int /\ 0 <= tp /\ tp < 8
      BY <2>1
    <3>2. size \in {2, 6} /\ size \in Int /\ 0 <= size /\ size < 8
      <4>1. CASE tp = 4
        <5>1. tp \notin 5 .. 7 /\ tp # 8
          BY <4>1
        <5>2. size = 2
          BY <4>1, <5>1, Zenon DEF P!PLCDataSize, P!PLC_INTEGER, P!PLC_TIMER, P!PLC_CONTROL, P!PLC_FLOATING
        <5> QED
          BY <5>2
      <4>2. CASE tp # 4
        <5>1. tp \in 5 .. 7 /\ tp # 8
          BY <3>1, <4>2
        <5>2. size = 6
          BY <4>2, <5>1, Zenon DEF P!PLCDataSize, P!PLC_INTEGER, P!PLC_TIMER, P!PLC_CONTROL, P!PLC_FLOATING
        <5> QED
          BY <5>2
      <4> QED
        BY <4>1, <4>2
    <3> DEFINE e == 16 * tp + size
    <3> HIDE DEF size
    <3>3. /\ ~ tp > 7 /\ ~ size > 7 /\ 16 * 9 + 9 = 153 /\ (1 * size + 0 + 0 + 1) % 256 = size + 1
          /\ size + 1 \in Int /\ e \in Int
      BY <3>1, <3>2
    <3>4. P!Extra(tp) = 0 /\ P!Extra(size) = 0 /\ P!Half(tp) = tp /\ P!Half(size) = size
      BY <3>3, Zenon DEF P!Extra, P!Half
    <3>5. b = <<153, 9, size + 1, e>> /\ c = <<e>>
      <4>1. b = (<<153, 9, size + 1, e>> \o <<>>) \o <<>> /\ c = <<e>> \o <<>>
        BY <3>3, <3>4, Zenon DEF P!EncodePLCDataType, P!PLC_ARRAY, size
      <4> HIDE DEF e
      <4>2. <<153, 9, size + 1, e>> \in Seq(Int) /\ <<e>> \in Seq(Int)
        BY <3>3
      <4> QED
        BY <4>1, <4>2, ConcatEmptySeq, Zenon
    <3> HIDE DEF b, c
    <3>6. P!DecodePCCC(b) = [type |-> tp, elementsize |-> size, Varcount |-> ((size + 1) - 1) \div size]
      <4> DEFINE n == size + 1
      <4> HIDE DEF n
      <4>1. P!DecodePCCC(<<153, 9, n, 16 * tp + size>>)
                = [type |-> tp, elementsize |-> size, Varcount |-> (n - 1) \div size]
        <5>1. n \in Int
          BY <3>2 DEF n
        <5>2. tp \in {4, 5, 6, 7} /\ size \in {2, 6}
          BY <3>1, <3>2
        <5> QED
          BY <5>1, <5>2, DecodedShort
      <4> QED
        BY <3>5, <4>1, Zenon DEF n
    <3>7. ((size + 1) - 1) \div size = 1
      BY <3>2
    <3>8. P!Described(c).type = tp
      <4>1. c[1] = 16 * tp + size
        BY <3>5
      <4> QED
        BY <3>1, <3>2, <4>1, ShortIs
    <3> HIDE DEF e
    <3> QED
      BY <3>1, <3>6, <3>7, <3>8
  <2>2. CASE tp = 8
    <3>1. size = 4
      <4>1. 8 # 4 /\ 8 \notin 5 .. 7
        OBVIOUS
      <4> QED
        BY <2>2, <4>1, Zenon DEF P!PLCDataSize, P!PLC_INTEGER, P!PLC_TIMER, P!PLC_CONTROL, P!PLC_FLOATING
    <3> HIDE DEF size
    <3>2. /\ 8 > 7 /\ ~ 4 > 7 /\ 16 * 9 + 9 = 153 /\ (1 * 4 + 1 + 0 + 1) % 256 = 6 /\ 16 * 9 + 4 = 148
      OBVIOUS
    <3>3. P!Extra(8) = 1 /\ P!Extra(4) = 0 /\ P!Half(8) = 9 /\ P!Half(4) = 4
      BY <3>2, Zenon DEF P!Extra, P!Half
    <3>4. b = <<153, 9, 6, 148, 8>> /\ c = <<148, 8>>
      <4>1. b = (<<16 * 9 + 9, 9, (1 * size + P!Extra(tp) + P!Extra(size) + 1) % 256, 16 * P!Half(tp) + P!Half(size)>>
                     \o (IF tp > 7 THEN <<tp>> ELSE <<>>)) \o (IF size > 7 THEN <<size>> ELSE <<>>)
        BY Zenon DEF P!EncodePLCDataType, P!PLC_ARRAY, size
      <4>2. /\ (1 * size + P!Extra(tp) + P!Extra(size) + 1) % 256 = 6 /\ 16 * P!Half(tp) + P!Half(size) = 148
            /\ tp > 7 /\ ~ size > 7
        BY <2>2, <3>1, <3>3
      <4>3. b = (<<153, 9, 6, 148>> \o <<8>>) \o <<>>
        <5> HIDE DEF b
        <5> QED
          BY <2>2, <3>2, <4>1, <4>2, Zenon
      <4>4. c = <<148>> \o <<8>>
        BY <2>2, <3>1, <3>2, <3>3, Zenon
      <4> HIDE DEF b, c
      <4> QED
        BY <4>3, <4>4, LiteralsAre
    <3> HIDE DEF b, c
    <3>5. P!DecodePCCC(b) = [type |-> 8, elementsize |-> 4, Varcount |-> (6 - 2) \div 4]
      BY <3>4, DecodedLong
    <3>6. P!Described(c).type = 8
      <4>1. c[1] = 148 /\ Tail(c)[1] = 8
        BY <3>4
      <4> QED
        BY <4>1, FloatIs
    <3> QED
      BY <2>2, <3>5, <3>6
  <2> QED
    BY <2>1, <2>2
<1>2. P!Descriptions(tp) = {b, c}
  BY Zenon DEF P!Descriptions
<1> HIDE DEF b, c
<1>3. P!DecodePCCC(c) = None
  BY <1>1, NotAnArray
<1> QED
  BY <1>1, <1>2, <1>3 DEF b

-----------------------------------------------------------------------------
(***************************************************************************)
(* Reads and writes of files.                                              *)
(***************************************************************************)

(* What the cells of a device with files may hold. *)
FilesHeld(d, t) ==
    /\ DOMAIN t = DOMAIN d.cells
    /\ \A c \in DOMAIN t : t[c] \in IF d.types[c[1]] = P!PLC_FLOATING THEN Int ELSE WordRange

(* The word and the type that readtag asks a PLC for. *)
NoLevel(a) == a.sub = None \/ a.sub = "POS"
PlcCell(a) == <<a.file, a.element, IF NoLevel(a) THEN 0 ELSE Sub(a.sub)>>
PlcType(d, a) == IF NoLevel(a) THEN d.types[a.file] ELSE P!PLC_INTEGER

(* The cases of a name of an address. *)
LEMMA SubsAre ==
    ASSUME NEW d, NEW a, FileAddressOK(d, a)
    PROVE  /\ Lettered(a)
           /\ a.sub = None \/ a.sub = "POS" \/ a.sub = "PRE" \/ a.sub = "ACC" \/ a.sub = "LEN"
              \/ a.sub = "EN" \/ a.sub = "TT" \/ a.sub = "DN"
           /\ None \notin {"POS", "PRE", "ACC", "LEN", "EN", "TT", "DN"}
           /\ None \notin Int
<1>1. None \notin {"POS", "PRE", "ACC", "LEN", "EN", "TT", "DN"} /\ None \notin Int
  BY TagAssumption DEF D!Words3, D!Flags
<1>2. a.sub \in {None} \union {"ACC", "PRE", "LEN", "POS"} \union {"EN", "TT", "DN"}
  BY Zenon DEF FileAddressOK, D!Words3, D!Flags
<1>3. /\ a.letter \in {"B", "C", "F", "I", "N", "O", "R", "S", "T"}
      /\ a.file \in WordRange /\ a.element \in WordRange
      /\ a.bit = None \/ a.bit \in 0 .. 15
  BY DEF FileAddressOK
<1> QED
  BY <1>1, <1>2, <1>3 DEF Lettered

(* What a cell of a device with files is. *)
LEMMA CellsAre ==
    ASSUME NEW d, FilesOK(d), NEW t, FilesHeld(d, t), NEW x, NEW y, NEW z, <<x, y, z>> \in DOMAIN t
    PROVE  /\ x \in DOMAIN d.types /\ d.types[x] \in 4 .. 8
           /\ t[<<x, y, z>>] \in IF d.types[x] = 8 THEN Int ELSE WordRange
<1>1. <<x, y, z>> \in (DOMAIN d.types) \X WordRange \X WordRange
  BY DEF FilesOK, FilesHeld
<1>2. x \in DOMAIN d.types
  BY <1>1
<1>3. d.types \in [DOMAIN d.types -> 4 .. 8]
  BY DEF FilesOK, P!PLC_INTEGER, P!PLC_FLOATING
<1>4. <<x, y, z>>[1] = x
  OBVIOUS
<1>5. t[<<x, y, z>>] \in IF d.types[x] = 8 THEN Int ELSE WordRange
  BY <1>4, Zenon DEF FilesHeld, P!PLC_FLOATING
<1> QED
  BY <1>2, <1>3, <1>5

(* The device finds the cell of an address, and its type. *)
LEMMA TargetIs ==
    ASSUME NEW d, NEW a, FileAddressOK(d, a), NEW t
    PROVE  LET l == P!Levels(P!LogicalBinaryAddress(a).bytes) IN
           /\ P!Found(t, l) <=> PlcCell(a) \in DOMAIN t
           /\ P!Target(d.types, l).cell = PlcCell(a)
           /\ P!Target(d.types, l).type = PlcType(d, a)
<1> DEFINE l == P!Levels(P!LogicalBinaryAddress(a).bytes)
<1>1. l = IF NoLevel(a) THEN <<a.file, a.element>> ELSE <<a.file, a.element, Sub(a.sub)>>
  BY SubsAre, AddressIs DEF NoLevel
<1> HIDE DEF l
<1>2. CASE NoLevel(a)
  <2>1. Len(l) = 2 /\ l[1] = a.file /\ l[2] = a.element /\ ~ Len(l) > 2 /\ Len(l) \in {2, 3}
    BY <1>1, <1>2
  <2>2. P!Found(t, l) <=> PlcCell(a) \in DOMAIN t
    BY <1>2, <2>1, Zenon DEF P!Found, PlcCell
  <2>3. P!Target(d.types, l) = [cell |-> PlcCell(a), type |-> PlcType(d, a)]
    BY <1>2, <2>1, Zenon DEF P!Target, PlcCell, PlcType
  <2>4. P!Target(d.types, l).cell = PlcCell(a) /\ P!Target(d.types, l).type = PlcType(d, a)
    BY <2>3
  <2> QED
    BY <2>2, <2>4, Zenon DEF l
<1>3. CASE ~ NoLevel(a)
  <2>1. Len(l) = 3 /\ l[1] = a.file /\ l[2] = a.element /\ l[3] = Sub(a.sub) /\ Len(l) > 2 /\ Len(l) \in {2, 3}
    BY <1>1, <1>3
  <2>2. P!Found(t, l) <=> PlcCell(a) \in DOMAIN t
    BY <1>3, <2>1, Zenon DEF P!Found, PlcCell
  <2>3. P!Target(d.types, l) = [cell |-> PlcCell(a), type |-> PlcType(d, a)]
    BY <1>3, <2>1, Zenon DEF P!Target, PlcCell, PlcType
  <2>4. P!Target(d.types, l).cell = PlcCell(a) /\ P!Target(d.types, l).type = PlcType(d, a)
    BY <2>3
  <2> QED
    BY <2>2, <2>4, Zenon DEF l
<1> QED
  BY <1>2, <1>3, Zenon

(* Of a read with a value, it is the one of the cell, with its type. *)
LEMMA PlcReadIs ==
    ASSUME NEW d, FilesOK(d), NEW t, FilesHeld(d, t), NEW a, FileAddressOK(d, a), NEW trans,
           NEW r \in P!ReadPLCData(t, d.types, trans, P!LogicalBinaryAddress(a)), r # None, r.value # None
    PROVE  /\ PlcCell(a) \in DOMAIN t
           /\ r.type = PlcType(d, a) /\ r.value = t[PlcCell(a)] /\ r.mask = P!LogicalBinaryAddress(a).mask
<1> DEFINE lba == P!LogicalBinaryAddress(a)
           l == P!Levels(lba.bytes)
           target == P!Target(d.types, l)
           told(b) == LET e == P!DecodePCCC(b) IN
                      IF e = None THEN None
                      ELSE [type |-> e.type, value |-> t[target.cell], mask |-> lba.mask]
           replies == {told(b) : b \in P!Descriptions(target.type)}
           garbage == {None, [type |-> P!PLC_INTEGER, value |-> None, mask |-> None]}
           S == UNION {P!Received(way, trans) : way \in P!Ways(trans)}
           of(s) == CASE s = "reply" /\ P!Found(t, l) -> replies
                      [] s = "garbage" -> garbage
                      [] OTHER -> {None}
<1>1. P!ReadPLCData(t, d.types, trans, lba) = UNION {of(s) : s \in S}
  BY Zenon DEF P!ReadPLCData
<1> HIDE DEF replies, garbage, S, l, lba
<1>2. PICK s \in S : r \in of(s)
  BY <1>1 DEF lba
<1>3. s = "reply" /\ P!Found(t, l)
  <2>1. CASE s = "garbage"
    <3>1. "garbage" # "reply"
      OBVIOUS
    <3>2. of(s) = garbage
      BY <2>1, <3>1, Zenon
    <3>3. garbage = {None, [type |-> P!PLC_INTEGER, value |-> None, mask |-> None]}
      BY DEF garbage
    <3> QED
      BY <1>2, <3>2, <3>3
  <2>2. CASE s # "garbage" /\ ~ (s = "reply" /\ P!Found(t, l))
    <3>1. of(s) = {None}
      BY <2>2, Zenon
    <3> QED
      BY <1>2, <3>1
  <2> QED
    BY <2>1, <2>2
<1>4. of(s) = replies
  <2>1. "garbage" # "reply"
    OBVIOUS
  <2> QED
    BY <1>3, <2>1, Zenon
<1>5. PICK b \in P!Descriptions(target.type) : r = told(b)
  BY <1>2, <1>4 DEF replies
<1>6. P!DecodePCCC(b) # None /\ r = [type |-> P!DecodePCCC(b).type, value |-> t[target.cell], mask |-> lba.mask]
  BY <1>5, Zenon
<1>7. PlcCell(a) \in DOMAIN t /\ target.cell = PlcCell(a) /\ target.type = PlcType(d, a)
  BY <1>3, TargetIs DEF l, lba
<1>8. PlcType(d, a) \in 4 .. 8
  <2>1. CASE NoLevel(a)
    BY <1>7, <2>1, CellsAre DEF PlcCell, PlcType
  <2>2. CASE ~ NoLevel(a)
    BY <2>2 DEF PlcType, P!PLC_INTEGER
  <2> QED
    BY <2>1, <2>2
<1> HIDE DEF target
<1>9. P!DecodePCCC(b).type = PlcType(d, a)
  BY <1>5, <1>6, <1>7, <1>8, DecodedIs
<1> QED
  BY <1>6, <1>7, <1>9 DEF lba

(* What readtag makes of the data of a reply. *)
PlcValue(r) == IF r.type = P!PLC_INTEGER THEN P!ValueAsBoolean(r) ELSE {P!ValueAsFloat(r)}

(* The modules of the codings have the same numbers. *)
LEMMA SameNumbers ==
    /\ \A w : P!Signed(w) = Signed(w) /\ D!Signed(w) = Signed(w)
    /\ \A w : P!Word(w) = Word(w) /\ D!Word(w) = Word(w)
    /\ \A w, k : P!Bit(w, k) = Bit(w, k) /\ D!Bit(w, k) = Bit(w, k)
    /\ \A w : D!BitsOf(w) = BitsOf(w)
    /\ \A S : D!OfBits(S) = OfBits(S)
<1>1. \A w : P!Word(w) = Word(w) /\ D!Word(w) = Word(w)
  BY Zenon DEF P!Word, D!Word, Word
<1>2. \A w : P!Signed(w) = Signed(w) /\ D!Signed(w) = Signed(w)
  BY Zenon DEF P!Signed, D!Signed, Signed
<1>3. \A w, k : P!Bit(w, k) = Bit(w, k) /\ D!Bit(w, k) = Bit(w, k)
  BY <1>1, Zenon DEF P!Bit, D!Bit, Bit
<1>4. \A w : D!BitsOf(w) = BitsOf(w)
  BY <1>3, Zenon DEF D!BitsOf, BitsOf
<1>5. \A S : D!OfBits(S) = OfBits(S)
  BY Zenon DEF D!OfBits, OfBits
<1> QED
  BY <1>1, <1>2, <1>3, <1>4, <1>5

(* The bits of a word are those of the word that is cut out of it. *)
LEMMA BitOfWord ==
    ASSUME NEW w \in WordRange, NEW k
    PROVE  Bit(w % 2^16, k) = Bit(w, k)
<1>1. Word(w) = w
  BY WordIs, InRange
<1>2. Word(w) = w % 2^16
  BY Zenon DEF Word
<1> QED
  BY <1>1, <1>2, Zenon

(* The value that readtag makes of a reply of a PLC-5 or SLC. *)
LEMMA PlcValueIs ==
    ASSUME NEW r, NEW v \in PlcValue(r), v # None, r.type = 4 \/ r.type = 8
    PROVE  /\ r.value # None
           /\ r.type = 4 /\ r.mask = None => v = Signed(r.value)
           /\ r.type = 4 /\ r.mask # None /\ r.value \in WordRange /\ r.value < 2^15 => v = Bit(r.value, r.mask)
           /\ r.type = 8 => v = r.value
<1> P!PLC_INTEGER = 4 /\ P!PLC_FLOATING = 8 /\ 4 # 8
  BY DEF P!PLC_INTEGER, P!PLC_FLOATING
<1>1. r.value # None
  <2>1. ASSUME r.value = None PROVE P!ValueAsBoolean(r) = {None} /\ P!ValueAsFloat(r) = None
    BY <2>1, Zenon DEF P!ValueAsBoolean, P!ValueAsFloat
  <2> QED
    BY <2>1, Zenon DEF PlcValue
<1>2. CASE r.type = 4
  <2>1. v \in IF r.mask = None THEN {Signed(r.value)}
              ELSE {Bit(x, r.mask) : x \in P!Unsigned(Signed(r.value), 2^16)}
    <3>1. PlcValue(r) = IF r.mask = None THEN {P!Signed(r.value)}
                        ELSE {P!Bit(x, r.mask) : x \in P!Unsigned(P!Signed(r.value), 2^16)}
      BY <1>1, <1>2, Zenon DEF PlcValue, P!ValueAsBoolean
    <3> QED
      BY <3>1, SameNumbers, Zenon
  <2>2. ASSUME r.value \in WordRange, r.value < 2^15, r.mask # None PROVE v = Bit(r.value, r.mask)
    <3>1. Signed(r.value) = r.value /\ r.value >= 0
      BY <2>2, SignedIs, InRange
    <3>2. P!Unsigned(Signed(r.value), 2^16) = {r.value % 2^16}
      BY <3>1, Zenon DEF P!Unsigned
    <3>3. v = Bit(r.value % 2^16, r.mask)
      BY <2>1, <2>2, <3>2, Zenon
    <3> QED
      BY <2>2, <3>3, BitOfWord, Zenon
  <2> QED
    BY <1>1, <1>2, <2>1, <2>2, Zenon
<1>3. CASE r.type = 8
  <2>1. PlcValue(r) = {r.value}
    BY <1>1, <1>3, Zenon DEF PlcValue, P!ValueAsFloat
  <2> QED
    BY <1>1, <1>3, <2>1, Zenon
<1> QED
  BY <1>2, <1>3

(* The cell and the bit of an address, as the PLC is asked and as they are *)
(* meant.                                                                  *)
LEMMA PlcMeans ==
    ASSUME NEW d, NEW a, FileAddressOK(d, a), a.sub # "LEN"
    PROVE  /\ BitMeant(a) = P!LogicalBinaryAddress(a).mask
           /\ a.sub # "POS" => Place(a) = PlcCell(a)
           /\ BitMeant(a) # None => BitMeant(a) \in 0 .. 15
<1>1. P!LogicalBinaryAddress(a).mask =
          IF a.bit # None THEN a.bit ELSE IF a.sub = None THEN None ELSE SubBit(a.sub)
  BY SubsAre, AddressIs
<1>2. a.sub \in {"EN", "TT", "DN"} => a.bit = None
  BY Zenon DEF FileAddressOK, D!Flags
<1>3. a.bit # None => a.bit \in 0 .. 15
  BY SubsAre DEF Lettered
<1>4. CASE a.sub \in {"EN", "TT", "DN"}
  <2>1. a.sub # "POS" /\ a.sub # "PRE" /\ a.sub # "ACC" /\ a.sub \notin {"PRE", "LEN"} /\ a.sub \notin {"ACC", "POS"}
    BY <1>4
  <2>2. a.sub # None
    BY <1>4, SubsAre
  <2>3. Place(a) = <<a.file, a.element, 0>> /\ PlcCell(a) = <<a.file, a.element, 0>>
    BY <2>1, <2>2, Zenon DEF Place, PlcCell, NoLevel, Sub
  <2>4. BitMeant(a) = SubBit(a.sub) /\ SubBit(a.sub) \in {15, 14, 13}
    <3>1. CASE a.sub = "EN"
      <4>1. a.sub # "TT" /\ a.sub # "DN" /\ a.sub \in {"EN", "LEN"}
        BY <3>1
      <4> QED
        BY <3>1, <4>1, Zenon DEF BitMeant, SubBit
    <3>2. CASE a.sub = "TT"
      <4>1. a.sub # "EN" /\ a.sub # "DN" /\ a.sub \notin {"EN", "LEN"}
        BY <3>2
      <4> QED
        BY <3>2, <4>1, Zenon DEF BitMeant, SubBit
    <3>3. CASE a.sub = "DN"
      <4>1. a.sub # "EN" /\ a.sub # "TT" /\ a.sub \notin {"EN", "LEN"}
        BY <3>3
      <4> QED
        BY <3>3, <4>1, Zenon DEF BitMeant, SubBit
    <3> QED
      BY <1>4, <3>1, <3>2, <3>3
  <2>5. SubBit(a.sub) \in 0 .. 15
    BY <2>4
  <2> QED
    BY <1>1, <1>2, <1>4, <2>2, <2>3, <2>4, <2>5
<1>5. CASE a.sub \notin {"EN", "TT", "DN"}
  <2>1. a.sub # "EN" /\ a.sub # "TT" /\ a.sub # "DN" /\ a.sub \notin {"EN", "LEN"}
    BY <1>5
  <2>2. BitMeant(a) = a.bit /\ SubBit(a.sub) = None
    BY <2>1, Zenon DEF BitMeant, SubBit
  <2>3. a.sub # "POS" => Place(a) = PlcCell(a)
    <3>1. CASE a.sub = "PRE"
      <4>1. a.sub # None /\ a.sub # "POS" /\ a.sub \in {"PRE", "LEN"} /\ a.sub \notin {"ACC", "POS"}
        BY <3>1, SubsAre
      <4> QED
        BY <3>1, <4>1, Zenon DEF Place, PlcCell, NoLevel, Sub
    <3>2. CASE a.sub = "ACC"
      <4>1. a.sub # None /\ a.sub # "POS" /\ a.sub # "PRE" /\ a.sub \notin {"PRE", "LEN"} /\ a.sub \in {"ACC", "POS"}
        BY <3>2, SubsAre
      <4> QED
        BY <3>2, <4>1, Zenon DEF Place, PlcCell, NoLevel, Sub
    <3>3. CASE a.sub = None
      <4>1. a.sub \notin {"PRE", "LEN"} /\ a.sub \notin {"ACC", "POS"}
        BY <3>3, SubsAre
      <4> QED
        BY <3>3, <4>1, Zenon DEF Place, PlcCell, NoLevel
    <3> QED
      BY <1>5, <3>1, <3>2, <3>3, SubsAre
  <2> QED
    BY <1>1, <1>3, <2>2, <2>3
<1> QED
  BY <1>4, <1>5

(* What a cell of a file stands for at an address. *)
FileMeaning(t, a) == IF BitMeant(a) # None THEN Bit(t[Place(a)], BitMeant(a))
                     ELSE IF a.letter = "F" THEN t[Place(a)] ELSE Signed(t[Place(a)])

(* The type of the file of an address that a device has. *)
LEMMA LetterIs ==
    ASSUME NEW d, NEW a, FileAddressOK(d, a), NEW f \in {a.file, a.file % 256}, f \in DOMAIN d.types
    PROVE  /\ d.types[f] = 8 <=> a.letter = "F"
           /\ a.sub # None => d.types[f] \in 5 .. 7
<1>1. f \in {a.file, a.file % 256} \intersect (DOMAIN d.types)
  OBVIOUS
<1>2. \A x \in {a.file, a.file % 256} \intersect (DOMAIN d.types) :
          /\ d.types[x] = P!PLC_FLOATING <=> a.letter = "F"
          /\ a.sub # None => d.types[x] \in P!PLC_TIMER .. P!PLC_CONTROL
  BY Zenon DEF FileAddressOK
<1>3. P!PLC_FLOATING = 8 /\ P!PLC_TIMER = 5 /\ P!PLC_CONTROL = 7
  BY DEF P!PLC_FLOATING, P!PLC_TIMER, P!PLC_CONTROL
<1> QED
  BY <1>1, <1>2, <1>3, Zenon

(* A value that readtag prints of a PLC is the one that is meant. *)
LEMMA PlcReadMeans ==
    ASSUME NEW d, FilesOK(d), NEW t, FilesHeld(d, t), NEW a, FileAddressOK(d, a), NEW trans,
           NEW r \in P!ReadPLCData(t, d.types, trans, P!LogicalBinaryAddress(a)), r # None,
           r.type = 4 \/ r.type = 8, NEW v \in PlcValue(r), v # None,
           a.sub # "LEN", BitMeant(a) # None => t[Place(a)] < 2^15
    PROVE  Place(a) \in DOMAIN t /\ v = FileMeaning(t, a)
<1>1. /\ r.value # None
      /\ r.type = 4 /\ r.mask = None => v = Signed(r.value)
      /\ r.type = 4 /\ r.mask # None /\ r.value \in WordRange /\ r.value < 2^15 => v = Bit(r.value, r.mask)
      /\ r.type = 8 => v = r.value
  BY PlcValueIs
<1>2. PlcCell(a) \in DOMAIN t /\ r.type = PlcType(d, a) /\ r.value = t[PlcCell(a)] /\ r.mask = BitMeant(a)
  <2>1. P!LogicalBinaryAddress(a).mask = BitMeant(a)
    BY PlcMeans
  <2> QED
    BY <1>1, <2>1, PlcReadIs
<1>3. /\ a.file \in DOMAIN d.types
      /\ t[PlcCell(a)] \in IF d.types[a.file] = 8 THEN Int ELSE WordRange
      /\ d.types[a.file] = 8 <=> a.letter = "F"
      /\ a.sub # None => d.types[a.file] \in 5 .. 7
  BY <1>2, CellsAre, LetterIs DEF PlcCell
<1>4. a.sub # "POS"
  <2>1. ASSUME a.sub = "POS" PROVE FALSE
    <3>1. a.sub # None /\ PlcType(d, a) = d.types[a.file]
      BY <2>1, SubsAre DEF PlcType, NoLevel
    <3> QED
      BY <1>2, <1>3, <3>1
  <2> QED
    BY <2>1
<1>5. Place(a) = PlcCell(a)
  BY <1>4, PlcMeans
<1>6. r.type = 8 <=> a.letter = "F"
  <2>1. CASE a.sub = None
    BY <1>2, <1>3, <2>1 DEF PlcType, NoLevel
  <2>2. CASE a.sub # None
    <3>1. r.type = 4
      BY <1>2, <1>4, <2>2 DEF PlcType, NoLevel, P!PLC_INTEGER
    <3> QED
      BY <1>3, <2>2, <3>1
  <2> QED
    BY <2>1, <2>2
<1>7. a.letter = "F" => BitMeant(a) = None
  <2>1. a.letter = "F" => a.sub = None /\ a.bit = None
    BY Zenon DEF FileAddressOK
  <2>2. None # "EN" /\ None # "TT" /\ None # "DN"
    BY SubsAre
  <2> QED
    BY <2>1, <2>2, Zenon DEF BitMeant
<1>8. CASE a.letter = "F"
  BY <1>1, <1>2, <1>5, <1>6, <1>7, <1>8, Zenon DEF FileMeaning
<1>9. CASE a.letter # "F" /\ BitMeant(a) = None
  <2>1. r.type = 4
    BY <1>6, <1>9
  <2> QED
    BY <1>1, <1>2, <1>5, <1>9, <2>1, Zenon DEF FileMeaning
<1>10. CASE a.letter # "F" /\ BitMeant(a) # None
  <2>1. r.type = 4 /\ r.value \in WordRange
    BY <1>2, <1>3, <1>6, <1>10
  <2> QED
    BY <1>1, <1>2, <1>5, <1>10, <2>1, Zenon DEF FileMeaning
<1> QED
  BY <1>8, <1>9, <1>10

(* What readtag writes to a PLC with. *)
Writes(found) == found \in {4, 8}

(* A write of a PLC, with the type that was read, is done in the cell or   *)
(* not at all, and is done if it is answered and not refused.              *)
LEMMA PlcWriteIs ==
    ASSUME NEW d, NEW a, FileAddressOK(d, a), NEW t, NEW trans, NEW found, Writes(found), NEW value,
           NEW w \in P!WritePLCData(t, d.types, trans, P!LogicalBinaryAddress(a), found, value)
    PROVE  /\ \/ w.table = t /\ (w.res > -1 => w.refused)
              \/ /\ PlcCell(a) \in DOMAIN t /\ PlcType(d, a) = found
                 /\ w.table = [t EXCEPT ![PlcCell(a)] = value]
           /\ w.refused \in BOOLEAN
<1>0. found \in {4, 8}
  BY DEF Writes
<1> DEFINE lba == P!LogicalBinaryAddress(a)
           l == P!Levels(lba.bytes)
           e == P!DecodePCCC(P!EncodePLCDataType(found, 1))
           takes == P!Found(t, l) /\ P!Target(d.types, l).type = e.type /\ e.Varcount = 1
           cell == P!Target(d.types, l).cell
           done == IF takes THEN [t EXCEPT ![cell] = value] ELSE t
           others(way) == {-1} \union (IF "garbage" \in P!Received(way, trans) THEN {0, 16} ELSE {})
           replied == {[table |-> done, res |-> IF takes THEN 0 ELSE 16, refused |-> ~takes]}
           status == {[table |-> t, res |-> 16, refused |-> TRUE]}
           lost == {[table |-> u, res |-> -1, refused |-> FALSE] : u \in {t, done}}
           refusal(way) == {[table |-> t, res |-> x, refused |-> TRUE] : x \in others(way)}
           of(way) == CASE way = "reply" -> replied
                        [] way = "status" -> status
                        [] way \in {"lost", "other"} -> lost
                        [] way = "refused" -> refusal(way)
<1>1. P!WritePLCData(t, d.types, trans, lba, found, value) = UNION {of(way) : way \in P!Ways(trans)}
  BY Zenon DEF P!WritePLCData
<1>2. takes \in BOOLEAN
  OBVIOUS
<1>3. takes => PlcCell(a) \in DOMAIN t /\ PlcType(d, a) = found /\ cell = PlcCell(a)
  <2>1. e.type = found
    BY <1>0, DecodedIs
  <2>2. /\ P!Found(t, l) <=> PlcCell(a) \in DOMAIN t
        /\ P!Target(d.types, l).cell = PlcCell(a)
        /\ P!Target(d.types, l).type = PlcType(d, a)
    BY TargetIs
  <2> HIDE DEF l, e
  <2> QED
    BY <2>1, <2>2, Zenon
<1> HIDE DEF takes, cell
<1>4. PICK way \in P!Ways(trans) : w \in of(way)
  BY <1>1 DEF of
<1>5. way \in {"reply", "status", "lost", "other", "refused"}
  <2>1. P!Ways(trans) = {"reply", "status", "lost"} \union (IF trans = "DHP" THEN {} ELSE {"refused", "other"})
    BY Zenon DEF P!Ways
  <2> QED
    BY <2>1
<1>6. CASE way = "reply"
  <2>1. of(way) = replied
    <3>1. way # "status" /\ way \notin {"lost", "other"} /\ way # "refused"
      BY <1>6
    <3> QED
      BY <1>6, <3>1, Zenon
  <2> DEFINE n == IF takes THEN 0 ELSE 16
             no == ~takes
  <2> HIDE DEF done, n, no
  <2>2. w.table = done /\ w.refused = no
    <3>1. w = [table |-> done, res |-> n, refused |-> no]
      BY <1>4, <2>1, Zenon DEF n, no
    <3> QED
      BY <3>1
  <2>3. CASE takes
    <3>1. done = [t EXCEPT ![PlcCell(a)] = value]
      BY <1>3, <2>3, Zenon DEF done
    <3> QED
      BY <1>3, <2>2, <2>3, <3>1, Zenon DEF no
  <2>4. CASE ~takes
    <3>1. done = t
      BY <2>4, Zenon DEF done
    <3>2. no = TRUE
      BY <2>4 DEF no
    <3> QED
      BY <2>2, <3>1, <3>2, Zenon
  <2> QED
    BY <2>3, <2>4
<1>7. CASE way = "status"
  <2>1. of(way) = status
    <3>1. way # "reply" /\ way \notin {"lost", "other"} /\ way # "refused"
      BY <1>7
    <3> QED
      BY <1>7, <3>1, Zenon
  <2> HIDE DEF of
  <2>2. w.table = t /\ w.refused = TRUE
    BY <1>4, <2>1
  <2> QED
    BY <2>2
<1>8. CASE way \in {"lost", "other"}
  <2>1. of(way) = lost
    <3>1. way # "reply" /\ way # "status" /\ way # "refused"
      BY <1>8
    <3> QED
      BY <1>8, <3>1, Zenon
  <2> HIDE DEF done
  <2>2. PICK u \in {t, done} : w = [table |-> u, res |-> -1, refused |-> FALSE]
    BY <1>4, <2>1
  <2>3. w.table = u /\ w.res = -1 /\ w.refused = FALSE
    BY <2>2
  <2>4. ~ w.res > -1
    BY <2>3
  <2>5. CASE u = t
    BY <2>3, <2>4, <2>5
  <2>6. CASE u = done /\ takes
    <3>1. done = [t EXCEPT ![PlcCell(a)] = value]
      BY <1>3, <2>6, Zenon DEF done
    <3> QED
      BY <1>3, <2>3, <2>6, <3>1, Zenon
  <2>7. CASE u = done /\ ~takes
    <3>1. done = t
      BY <2>7, Zenon DEF done
    <3> QED
      BY <2>3, <2>4, <2>7, <3>1, Zenon
  <2> QED
    BY <2>2, <2>5, <2>6, <2>7
<1>9. CASE way = "refused"
  <2>1. of(way) = refusal(way)
    <3>1. way # "reply" /\ way # "status" /\ way \notin {"lost", "other"}
      BY <1>9
    <3> QED
      BY <1>9, <3>1, Zenon
  <2> HIDE DEF others
  <2>2. PICK x \in others(way) : w = [table |-> t, res |-> x, refused |-> TRUE]
    BY <1>4, <2>1
  <2>3. w.table = t /\ w.refused = TRUE
    BY <2>2
  <2> QED
    BY <2>3
<1> QED
  BY <1>5, <1>6, <1>7, <1>8, <1>9

-----------------------------------------------------------------------------
(***************************************************************************)
(* Files over DF1.                                                         *)
(***************************************************************************)

(* The function that an address calls for. *)
LEMMA FunctionIs ==
    ASSUME NEW d, NEW a, FileAddressOK(d, a)
    PROVE  /\ D!Function(a) \in {"boolean", "integer", "float"}
           /\ D!Function(a) = "float" <=> a.letter = "F"
           /\ a.sub \notin {"EN", "DN", "LEN"} /\ (a.sub = None \/ a.bit = None) =>
                 (D!Function(a) = "boolean" <=> BitMeant(a) # None)
<1>1. a.letter = "F" => a.sub = None /\ a.bit = None
  BY Zenon DEF FileAddressOK
<1>2. a.sub \in {"EN", "TT", "DN"} => a.bit = None
  BY Zenon DEF FileAddressOK, D!Flags
<1>3. None \notin {"POS", "PRE", "ACC", "LEN", "EN", "TT", "DN"} /\ None \notin Int /\ 14 \in Int
  BY SubsAre
<1>4. CASE a.sub = None
  <2>1. a.sub \notin D!Flags \union {"LEN"} /\ a.sub \notin D!Words3
    BY <1>3, <1>4 DEF D!Flags, D!Words3
  <2>2. D!Function(a) = IF a.bit # None THEN "boolean" ELSE IF a.letter = "F" THEN "float" ELSE "integer"
    BY <2>1, Zenon DEF D!Function
  <2>3. a.sub # "EN" /\ a.sub # "TT" /\ a.sub # "DN"
    BY <1>3, <1>4
  <2>4. BitMeant(a) = a.bit
    BY <2>3, Zenon DEF BitMeant
  <2> QED
    BY <1>1, <2>2, <2>4
<1>5. CASE a.sub \in {"EN", "TT", "DN", "LEN"}
  <2>1. a.sub \in D!Flags \union {"LEN"}
    BY <1>5 DEF D!Flags
  <2>2. D!Function(a) = "boolean"
    BY <2>1, Zenon DEF D!Function
  <2>3. a.sub \notin {"EN", "DN", "LEN"} => BitMeant(a) = 14
    <3>1. ASSUME a.sub = "TT" PROVE BitMeant(a) = 14
      <4>1. a.sub # "EN" /\ a.sub # "DN"
        BY <3>1
      <4> QED
        BY <3>1, <4>1, Zenon DEF BitMeant
    <3> QED
      BY <1>5, <3>1
  <2>4. a.letter # "F"
    BY <1>1, <1>3, <1>5
  <2> QED
    BY <1>3, <2>2, <2>3, <2>4
<1>6. CASE a.sub \in {"PRE", "ACC", "POS"}
  <2>1. a.sub \notin D!Flags \union {"LEN"} /\ a.sub \in D!Words3
    BY <1>6 DEF D!Flags, D!Words3
  <2>2. D!Function(a) = "integer"
    BY <2>1, Zenon DEF D!Function
  <2>3. a.sub # "EN" /\ a.sub # "TT" /\ a.sub # "DN" /\ a.sub # None
    BY <1>3, <1>6
  <2>4. BitMeant(a) = a.bit
    BY <2>3, Zenon DEF BitMeant
  <2>5. a.letter # "F"
    BY <1>1, <2>3
  <2> QED
    BY <2>2, <2>3, <2>4, <2>5
<1> QED
  BY <1>4, <1>5, <1>6, SubsAre

(* The file that is asked for is the one of the address, or of its low     *)
(* byte.                                                                   *)
LEMMA FileIs ==
    ASSUME NEW d, NEW a, FileAddressOK(d, a)
    PROVE  /\ D!CalcAddress(a).file \in {a.file, a.file % 256}
           /\ D!CalcAddress(a).element = a.element % 256
           /\ D!CalcAddress(a).sub = IF a.sub # None THEN IF a.bit = None THEN D!SubNumber[a.sub] ELSE 0
                                     ELSE IF a.bit # None THEN a.bit % 256 ELSE 0
<1> DEFINE f == CASE a.letter = "O" -> 0 [] a.letter = "I" -> 1 [] OTHER -> a.file % 256
           e == a.element % 256
           s == IF a.sub # None THEN IF a.bit = None THEN D!SubNumber[a.sub] ELSE 0
                ELSE IF a.bit # None THEN a.bit % 256 ELSE 0
<1>1. (a.letter = "O" => a.file = 0) /\ (a.letter = "I" => a.file = 1)
  BY Zenon DEF FileAddressOK
<1>2. f \in {a.file, a.file % 256}
  <2>1. CASE a.letter = "O"
    <3>1. a.letter # "I"
      BY <2>1
    <3>2. f = 0
      BY <2>1, <3>1, Zenon
    <3> QED
      BY <1>1, <2>1, <3>2
  <2>2. CASE a.letter = "I"
    <3>1. a.letter # "O"
      BY <2>2
    <3>2. f = 1
      BY <2>2, <3>1, Zenon
    <3> QED
      BY <1>1, <2>2, <3>2
  <2>3. CASE a.letter # "O" /\ a.letter # "I"
    <3>1. f = a.file % 256
      BY <2>3, Zenon
    <3> HIDE DEF f
    <3> QED
      BY <3>1
  <2> QED
    BY <2>1, <2>2, <2>3
<1>3. D!CalcAddress(a) = [file |-> f, element |-> e, sub |-> s]
  BY Zenon DEF D!CalcAddress
<1> HIDE DEF f, e, s
<1>4. D!CalcAddress(a).file = f /\ D!CalcAddress(a).element = e /\ D!CalcAddress(a).sub = s
  BY <1>3
<1> QED
  BY <1>2, <1>4, Zenon DEF e, s

(* The word that is asked for holds a float if the function is one. *)
LEMMA Df1CellIs ==
    ASSUME NEW d, FilesOK(d), NEW t, FilesHeld(d, t), NEW a, FileAddressOK(d, a), D!WordOf(a) \in DOMAIN t
    PROVE  /\ t[D!WordOf(a)] \in IF D!Function(a) = "float" THEN Int ELSE WordRange
           /\ d.types[D!WordOf(a)[1]] = 8 <=> D!Function(a) = "float"
<1> DEFINE f == D!CalcAddress(a).file
           e == D!CalcAddress(a).element
           n == IF D!Function(a) = "boolean" THEN 0 ELSE D!CalcAddress(a).sub
<1>1. D!WordOf(a) = <<f, e, n>>
  BY Zenon DEF D!WordOf
<1>2. f \in {a.file, a.file % 256}
  BY FileIs
<1> HIDE DEF f, e, n
<1>3. f \in DOMAIN d.types /\ t[<<f, e, n>>] \in IF d.types[f] = 8 THEN Int ELSE WordRange
  BY <1>1, CellsAre
<1>4. d.types[f] = 8 <=> a.letter = "F"
  BY <1>2, <1>3, LetterIs
<1>5. D!Function(a) = "float" <=> a.letter = "F"
  BY FunctionIs
<1>6. <<f, e, n>>[1] = f
  OBVIOUS
<1> QED
  BY <1>1, <1>3, <1>4, <1>5, <1>6

(* The addresses that df1.c gets right. *)
Df1Plain(a) == /\ a.file \in 0 .. 254 /\ a.element \in 0 .. 254
               /\ a.sub \notin {"EN", "DN", "LEN"}
               /\ a.sub = None \/ a.bit = None

(* Their word and bit are those that are meant. *)
LEMMA Df1Means ==
    ASSUME NEW d, NEW a, FileAddressOK(d, a), Df1Plain(a)
    PROVE  /\ D!WordOf(a) = Place(a)
           /\ D!CalcAddress(a).element < 255
           /\ D!Function(a) = "boolean" <=> BitMeant(a) # None
           /\ D!Function(a) = "float" <=> a.letter = "F"
           /\ D!Function(a) \in {"boolean", "integer", "float"}
           /\ D!Function(a) = "boolean" => /\ D!CalcAddress(a).sub = BitMeant(a)
                                           /\ BitMeant(a) \in 0 .. 15
<1> DEFINE f == D!CalcAddress(a).file
           e == D!CalcAddress(a).element
           s == D!CalcAddress(a).sub
           k == IF D!Function(a) = "boolean" THEN 0 ELSE s
<1>1. D!WordOf(a) = <<f, e, k>>
  BY Zenon DEF D!WordOf
<1>2. /\ f \in {a.file, a.file % 256} /\ e = a.element % 256
      /\ s = IF a.sub # None THEN IF a.bit = None THEN D!SubNumber[a.sub] ELSE 0
             ELSE IF a.bit # None THEN a.bit % 256 ELSE 0
  BY FileIs
<1>3. f = a.file /\ e = a.element /\ e < 255
  <2>1. /\ a.file \in Int /\ a.element \in Int /\ 0 <= a.file /\ a.file < 256 /\ 0 <= a.element /\ a.element < 255
    BY DEF Df1Plain
  <2>2. a.file % 256 = a.file /\ a.element % 256 = a.element
    BY <2>1, Divides
  <2> QED
    BY <1>2, <2>1, <2>2
<1>4. /\ D!Function(a) = "boolean" <=> BitMeant(a) # None
      /\ D!Function(a) = "float" <=> a.letter = "F"
      /\ D!Function(a) \in {"boolean", "integer", "float"}
  BY FunctionIs DEF Df1Plain
<1>5. None \notin {"POS", "PRE", "ACC", "LEN", "EN", "TT", "DN"} /\ None \notin Int
  BY SubsAre
<1>6. a.bit = None \/ a.bit \in 0 .. 15
  BY SubsAre DEF Lettered
<1>7. a.sub = None \/ a.bit = None
  BY DEF Df1Plain
<1>8. a.sub \in {None, "TT", "PRE", "ACC", "POS"}
  BY SubsAre DEF Df1Plain
<1>9. D!SubNumber["TT"] = 14 /\ D!SubNumber["PRE"] = 1 /\ D!SubNumber["ACC"] = 2 /\ D!SubNumber["POS"] = 2
  BY DEF D!SubNumber
<1> HIDE DEF s, f, e
<1>10. CASE a.sub = None
  <2>1. a.sub # "EN" /\ a.sub # "TT" /\ a.sub # "DN" /\ a.sub \notin {"PRE", "LEN"} /\ a.sub \notin {"ACC", "POS"}
    BY <1>5, <1>10
  <2>2. BitMeant(a) = a.bit /\ Place(a) = <<a.file, a.element, 0>>
    BY <2>1, Zenon DEF BitMeant, Place
  <2>3. s = IF a.bit # None THEN a.bit ELSE 0
    <3>1. a.bit \in 0 .. 15 => a.bit % 256 = a.bit
      OBVIOUS
    <3> QED
      BY <1>2, <1>6, <1>10, <3>1
  <2>4. k = 0
    BY <1>4, <2>2, <2>3
  <2>5. D!Function(a) = "boolean" => s = BitMeant(a) /\ BitMeant(a) \in 0 .. 15
    BY <1>4, <1>6, <2>2, <2>3
  <2> HIDE DEF k
  <2> QED
    BY <1>1, <1>3, <1>4, <2>2, <2>4, <2>5 DEF e, s
<1>11. CASE a.sub = "TT"
  <2>1. a.sub # "EN" /\ a.sub # "DN" /\ a.sub \notin {"PRE", "LEN"} /\ a.sub \notin {"ACC", "POS"} /\ a.sub # None
    BY <1>5, <1>11
  <2>2. BitMeant(a) = 14 /\ Place(a) = <<a.file, a.element, 0>>
    BY <1>11, <2>1, Zenon DEF BitMeant, Place
  <2>3. s = 14
    BY <1>2, <1>7, <1>9, <1>11, <2>1
  <2>4. D!Function(a) = "boolean"
    <3>1. 14 # None
      BY <1>5
    <3> QED
      BY <1>4, <2>2, <3>1, Zenon
  <2>5. k = 0
    BY <2>4
  <2> HIDE DEF k
  <2> QED
    BY <1>1, <1>3, <1>4, <2>2, <2>3, <2>5 DEF e, s
<1>12. CASE a.sub \in {"PRE", "ACC", "POS"}
  <2>1. a.sub # "EN" /\ a.sub # "DN" /\ a.sub # "TT" /\ a.sub # None
    BY <1>5, <1>12
  <2>2. BitMeant(a) = a.bit /\ a.bit = None
    BY <1>7, <2>1, Zenon DEF BitMeant
  <2>3. D!Function(a) # "boolean" /\ k = s
    BY <1>4, <2>2
  <2>4. Place(a) = <<a.file, a.element, s>>
    <3>1. CASE a.sub = "PRE"
      <4>1. a.sub \in {"PRE", "LEN"} /\ a.sub \notin {"ACC", "POS"}
        BY <3>1
      <4>2. s = 1
        BY <1>2, <1>9, <2>1, <2>2, <3>1
      <4> QED
        BY <4>1, <4>2, Zenon DEF Place
    <3>2. CASE a.sub \in {"ACC", "POS"}
      <4>1. a.sub \notin {"PRE", "LEN"}
        BY <3>2
      <4>2. s = 2
        BY <1>2, <1>9, <2>1, <2>2, <3>2
      <4> QED
        BY <3>2, <4>1, <4>2, Zenon DEF Place
    <3> QED
      BY <1>12, <3>1, <3>2
  <2> HIDE DEF k
  <2> QED
    BY <1>1, <1>3, <1>4, <2>3, <2>4 DEF e
<1> QED
  BY <1>8, <1>10, <1>11, <1>12

(* A value that is read over DF1 is the one that is meant. *)
LEMMA Df1ReadMeans ==
    ASSUME NEW d, NEW t, NEW a, FileAddressOK(d, a), Df1Plain(a),
           NEW v \in D!ReadTag(t, a), v # None
    PROVE  Place(a) \in DOMAIN t /\ v = FileMeaning(t, a)
<1> DEFINE w == t[D!WordOf(a)]
           s == D!CalcAddress(a).sub
           of == CASE D!Function(a) = "boolean" -> IF s > 15 THEN 0 ELSE D!Bit(w, s)
                   [] D!Function(a) = "integer" -> D!Signed(w)
                   [] D!Function(a) = "float" -> w
<1>1. D!ReadTag(t, a) = {None} \union (IF ~ D!Known(t, a) THEN {} ELSE {of})
  BY Zenon DEF D!ReadTag
<1> HIDE DEF of, s
<1>2. D!Known(t, a) /\ v = of
  BY <1>1
<1>3. D!WordOf(a) \in DOMAIN t
  BY <1>2, Zenon DEF D!Known
<1>4. /\ D!WordOf(a) = Place(a)
      /\ D!Function(a) = "boolean" <=> BitMeant(a) # None
      /\ D!Function(a) = "float" <=> a.letter = "F"
      /\ D!Function(a) \in {"boolean", "integer", "float"}
      /\ D!Function(a) = "boolean" => s = BitMeant(a) /\ BitMeant(a) \in 0 .. 15
  BY Df1Means DEF s
<1>5. "boolean" # "integer" /\ "boolean" # "float" /\ "integer" # "float"
  OBVIOUS
<1>6. CASE D!Function(a) = "boolean"
  <2>1. ~ s > 15
    BY <1>4, <1>6
  <2>2. of = Bit(w, s)
    BY <1>5, <1>6, <2>1, SameNumbers, Zenon DEF of
  <2> HIDE DEF w
  <2> QED
    BY <1>2, <1>3, <1>4, <1>6, <2>2, Zenon DEF FileMeaning, w
<1>7. CASE D!Function(a) = "integer"
  <2>1. of = Signed(w)
    BY <1>5, <1>7, SameNumbers, Zenon DEF of
  <2> QED
    BY <1>2, <1>3, <1>4, <1>5, <1>7, <2>1, Zenon DEF FileMeaning
<1>8. CASE D!Function(a) = "float"
  <2>1. of = w
    BY <1>5, <1>8, Zenon DEF of
  <2> QED
    BY <1>2, <1>3, <1>4, <1>5, <1>8, <2>1, Zenon DEF FileMeaning
<1> QED
  BY <1>4, <1>6, <1>7, <1>8

(* What a write over DF1 does to a table. *)
Df1Wrote(t, a, v, w) ==
    \/ w.table = t /\ w.res # 0
    \/ /\ D!WordOf(a) \in DOMAIN t
       /\ w.table = [t EXCEPT ![D!WordOf(a)] = D!Written(t[D!WordOf(a)], a, v)]

(* A write over DF1 is done in the word that is asked for, or not at all,  *)
(* and is done if it is answered.                                          *)
LEMMA Df1WriteIs ==
    ASSUME NEW t, NEW a, NEW v, NEW w \in D!WriteTag(t, a, v)
    PROVE  Df1Wrote(t, a, v, w)
<1> DEFINE new == [t EXCEPT ![D!WordOf(a)] = D!Written(t[D!WordOf(a)], a, v)]
           done == IF D!Known(t, a) THEN new ELSE t
           sure == IF D!Known(t, a) THEN {[table |-> done, res |-> 0]} ELSE {}
<1>1. D!WriteTag(t, a, v) = {[table |-> t, res |-> -1], [table |-> done, res |-> -1]} \union sure
  BY Zenon DEF D!WriteTag
<1> HIDE DEF new
<1>2. D!Known(t, a) => D!WordOf(a) \in DOMAIN t
  BY Zenon DEF D!Known
<1>3. CASE D!Known(t, a)
  <2>1. done = new
    BY <1>3
  <2> HIDE DEF done
  <2>2. sure = {[table |-> done, res |-> 0]}
    BY <1>3, Zenon
  <2> HIDE DEF sure
  <2>3. w = [table |-> t, res |-> -1] \/ w = [table |-> done, res |-> -1] \/ w = [table |-> done, res |-> 0]
    BY <1>1, <2>2, Zenon
  <2>4. (w.table = t /\ w.res = -1) \/ w.table = done
    BY <2>3
  <2> QED
    BY <1>2, <1>3, <2>1, <2>4 DEF new, Df1Wrote
<1>4. CASE ~ D!Known(t, a)
  <2>1. done = t /\ sure = {}
    BY <1>4, Zenon
  <2> HIDE DEF done, sure
  <2>2. w = [table |-> t, res |-> -1]
    BY <1>1, <2>1, Zenon
  <2> QED
    BY <2>2 DEF Df1Wrote
<1> QED
  BY <1>3, <1>4

(* What is written into the word. *)
LEMMA WrittenIs ==
    ASSUME NEW d, NEW a, FileAddressOK(d, a), NEW w, NEW v \in Int
    PROVE  /\ D!Written(w, a, v) \in IF D!Function(a) = "float" THEN Int ELSE WordRange
           /\ D!Function(a) = "integer" => D!Written(w, a, v) = Word(v)
           /\ D!Function(a) = "float" => D!Written(w, a, v) = v
           /\ D!Function(a) = "boolean" /\ w \in WordRange /\ D!CalcAddress(a).sub \in 0 .. 15 =>
                 LET k == D!CalcAddress(a).sub IN
                 D!Written(w, a, v) = w + ((IF v # 0 THEN 1 ELSE 0) - Bit(w, k)) * 2^k
<1>1. D!Function(a) \in {"boolean", "integer", "float"} /\ "boolean" # "integer" /\ "boolean" # "float" /\ "integer" # "float"
  BY FunctionIs
<1> DEFINE k == D!CalcAddress(a).sub
           mask == {k} \intersect 0 .. 15
           value == IF v # 0 THEN {k} ELSE {}
           S == (BitsOf(w) \ mask) \union (value \intersect mask)
<1>2. CASE D!Function(a) = "boolean"
  <2>1. D!Written(w, a, v) = OfBits(S)
    <3>1. D!Written(w, a, v) = D!Masked(w, mask, value)
      BY <1>1, <1>2, Zenon DEF D!Written
    <3>2. D!Masked(w, mask, value) = D!OfBits((D!BitsOf(w) \ mask) \union (value \intersect mask))
      BY Zenon DEF D!Masked
    <3> HIDE DEF mask, value
    <3> QED
      BY <3>1, <3>2, SameNumbers, Zenon
  <2>2. ASSUME w \in WordRange, k \in 0 .. 15 PROVE OfBits(S) = w + ((IF v # 0 THEN 1 ELSE 0) - Bit(w, k)) * 2^k
    <3>1. mask = {k}
      BY <2>2
    <3>2. S = (BitsOf(w) \ {k}) \union value
      BY <3>1
    <3>3. value = {} \/ value = {k}
      OBVIOUS
    <3>4. (IF value = {} THEN 0 ELSE 1) = IF v # 0 THEN 1 ELSE 0
      OBVIOUS
    <3> HIDE DEF S, value, k
    <3>5. OfBits(S) = w + ((IF value = {} THEN 0 ELSE 1) - Bit(w, k)) * 2^k
      BY <2>2, <3>2, <3>3, OneBit
    <3> QED
      BY <3>4, <3>5, Zenon
  <2>3. OfBits(S) \in WordRange
    BY OfBitsIs
  <2> HIDE DEF S
  <2> QED
    BY <1>1, <1>2, <2>1, <2>2, <2>3, Zenon
<1>3. CASE D!Function(a) = "integer"
  <2>1. D!Written(w, a, v) = Word(v)
    BY <1>1, <1>3, SameNumbers, Zenon DEF D!Written
  <2>2. Word(v) \in WordRange
    BY WordIs
  <2> QED
    BY <1>1, <1>3, <2>1, <2>2, Zenon
<1>4. CASE D!Function(a) = "float"
  <2>1. D!Written(w, a, v) = v
    BY <1>1, <1>4, Zenon DEF D!Written
  <2> QED
    BY <1>1, <1>4, <2>1, Zenon
<1> QED
  BY <1>1, <1>2, <1>3, <1>4

-----------------------------------------------------------------------------
(***************************************************************************)
(* Addresses of Modbus.                                                    *)
(***************************************************************************)

(* What the table of functions says of an address. *)
Entered(a, read, prefix, offset, kind) ==
    /\ M!Entry(a).read = read /\ M!Entry(a).prefix = prefix
    /\ M!Entry(a).offset = offset /\ M!Entry(a).type = kind

(* The address is found in the table if one entry serves it. *)
LEMMA EntryOf ==
    ASSUME NEW a, NEW i \in 1 .. 6, \A j \in 1 .. 6 : M!Client!Serves(M!Client!FTable[j], a) <=> j = i
    PROVE  M!Entry(a) = M!Client!FTable[i]
<1> DEFINE T == M!Client!FTable
           S(e) == M!Client!Serves(e, a)
<1>1. DOMAIN T = 1 .. 6
  BY SMT DEF M!Client!FTable
<1> HIDE DEF T, S
<1>2. \A j \in 1 .. 6 : S(T[j]) <=> j = i
  BY SMT DEF S, T
<1> DEFINE k == CHOOSE k \in DOMAIN T : S(T[k]) /\ \A j \in 1 .. k - 1 : ~ S(T[j])
<1>3. i \in DOMAIN T /\ S(T[i]) /\ \A j \in 1 .. i - 1 : ~ S(T[j])
  BY <1>1, <1>2, SMT
<1>4. k \in DOMAIN T /\ S(T[k])
  BY <1>3, Zenon
<1>5. k = i
  BY <1>1, <1>2, <1>4, SMT
<1>6. M!Client!C_F_Index(a) = k
  BY <1>3, Zenon DEF M!Client!C_F_Index, S, T
<1> QED
  BY <1>5, <1>6, Zenon DEF M!Entry, T

(* The six rows of the table of the Modbus client. *)
LEMMA TableIs ==
    /\ M!Client!FTable[1] = M!Client!Entry(1, 99999, "none", "READ_COILS", -1, "BYTE")
    /\ M!Client!FTable[2] = M!Client!Entry(100001, 199999, "none", "READ_INPUTS", -100001, "BYTE")
    /\ M!Client!FTable[3] = M!Client!Entry(300001, 399999, "none", "READ_INPUT_REGISTER", -300001, "UINT")
    /\ M!Client!FTable[4] = M!Client!Entry(400001, 499999, "none", "READ_HOLDING_REGISTER", -400001, "INT")
    /\ M!Client!FTable[5] = M!Client!Entry(400001, 499999, "D", "READ_HOLDING_REGISTER", -400001, "DINT")
    /\ M!Client!FTable[6] = M!Client!Entry(400001, 499999, "F", "READ_HOLDING_REGISTER", -400001, "REAL")
BY SMT DEF M!Client!FTable

(* Which addresses an entry serves, and what it says of them. *)
LEMMA ServesIs ==
    ASSUME NEW low, NEW high, NEW prefix, NEW read, NEW offset, NEW kind, NEW a
    PROVE  LET e == M!Client!Entry(low, high, prefix, read, offset, kind) IN
           /\ (M!Client!Serves(e, a) <=> low <= a.number /\ a.number <= high /\ prefix = a.prefix)
           /\ e.read = read /\ e.prefix = prefix /\ e.offset = offset /\ e.type = kind
<1> DEFINE e == M!Client!Entry(low, high, prefix, read, offset, kind)
<1>1. /\ e.low = low /\ e.high = high /\ e.prefix = prefix
      /\ e.read = read /\ e.offset = offset /\ e.type = kind
  BY SMT DEF M!Client!Entry
<1> HIDE DEF e
<1>2. M!Client!Serves(e, a) <=> e.low <= a.number /\ a.number <= e.high /\ e.prefix = a.prefix
  BY Zenon DEF M!Client!Serves
<1> QED
  BY <1>1, <1>2, Zenon DEF e

(* What the entries of the table say. *)
LEMMA RowsAre ==
    /\ M!Client!FTable[1].read = "READ_COILS" /\ M!Client!FTable[1].prefix = "none"
    /\ M!Client!FTable[1].offset = -1 /\ M!Client!FTable[1].type = "BYTE"
    /\ M!Client!FTable[2].read = "READ_INPUTS" /\ M!Client!FTable[2].prefix = "none"
    /\ M!Client!FTable[2].offset = -100001 /\ M!Client!FTable[2].type = "BYTE"
    /\ M!Client!FTable[3].read = "READ_INPUT_REGISTER" /\ M!Client!FTable[3].prefix = "none"
    /\ M!Client!FTable[3].offset = -300001 /\ M!Client!FTable[3].type = "UINT"
    /\ M!Client!FTable[4].read = "READ_HOLDING_REGISTER" /\ M!Client!FTable[4].prefix = "none"
    /\ M!Client!FTable[4].offset = -400001 /\ M!Client!FTable[4].type = "INT"
    /\ M!Client!FTable[5].read = "READ_HOLDING_REGISTER" /\ M!Client!FTable[5].prefix = "D"
    /\ M!Client!FTable[5].offset = -400001 /\ M!Client!FTable[5].type = "DINT"
    /\ M!Client!FTable[6].read = "READ_HOLDING_REGISTER" /\ M!Client!FTable[6].prefix = "F"
    /\ M!Client!FTable[6].offset = -400001 /\ M!Client!FTable[6].type = "REAL"
<1>1. LET e == M!Client!FTable[1] IN e.read = "READ_COILS" /\ e.prefix = "none" /\ e.offset = -1 /\ e.type = "BYTE"
  BY TableIs, SMT DEF M!Client!Entry
<1>2. LET e == M!Client!FTable[2] IN e.read = "READ_INPUTS" /\ e.prefix = "none" /\ e.offset = -100001 /\ e.type = "BYTE"
  BY TableIs, SMT DEF M!Client!Entry
<1>3. LET e == M!Client!FTable[3] IN e.read = "READ_INPUT_REGISTER" /\ e.prefix = "none" /\ e.offset = -300001 /\ e.type = "UINT"
  BY TableIs, SMT DEF M!Client!Entry
<1>4. LET e == M!Client!FTable[4] IN e.read = "READ_HOLDING_REGISTER" /\ e.prefix = "none" /\ e.offset = -400001 /\ e.type = "INT"
  BY TableIs, SMT DEF M!Client!Entry
<1>5. LET e == M!Client!FTable[5] IN e.read = "READ_HOLDING_REGISTER" /\ e.prefix = "D" /\ e.offset = -400001 /\ e.type = "DINT"
  BY TableIs, SMT DEF M!Client!Entry
<1>6. LET e == M!Client!FTable[6] IN e.read = "READ_HOLDING_REGISTER" /\ e.prefix = "F" /\ e.offset = -400001 /\ e.type = "REAL"
  BY TableIs, SMT DEF M!Client!Entry
<1> QED
  BY <1>1, <1>2, <1>3, <1>4, <1>5, <1>6, SMT

(* The six classes of addresses. *)
Coil(a)    == 0 < a.number /\ a.number <= 65536 /\ a.prefix = "none"
Input(a)   == 100000 < a.number /\ a.number <= 165536 /\ a.prefix = "none"
InputReg(a) == 300000 < a.number /\ a.number <= 365536 /\ a.prefix = "none"
Holding(a) == 400000 < a.number /\ a.number <= 465536

(* The kinds of addresses of Modbus. *)
LEMMA ClassesAre ==
    ASSUME NEW a, ModbusAddressOK(a)
    PROVE  /\ a.number \in Int
           /\ \/ Coil(a) \/ Input(a) \/ InputReg(a)
              \/ Holding(a) /\ (a.prefix = "none" \/ a.prefix = "D" \/ a.prefix = "F")
<1> DEFINE n == a.number
           p == a.prefix
<1>1. /\ n \in Nat /\ \E base \in {0, 100000, 300000, 400000} : base < n /\ n <= base + 2^16
      /\ p \in IF n > 400000 THEN {"none", "D", "F"} ELSE {"none"}
  BY SMT DEF ModbusAddressOK
<1> HIDE DEF n, p
<1>2. 2^16 = 65536
  BY SMT
<1>3. PICK base \in {0, 100000, 300000, 400000} : base < n /\ n <= base + 65536
  BY <1>1, <1>2, SMT
<1>4. base = 0 \/ base = 100000 \/ base = 300000 \/ base = 400000
  BY SMT
<1>5. n \in Int
  BY <1>1, SMT
<1>6. CASE base = 400000
  <2>1. n > 400000 /\ 400000 < n /\ n <= 465536
    BY <1>3, <1>5, <1>6, SMT
  <2> QED
    BY <1>1, <1>5, <2>1, SMT DEF Holding, n, p
<1>7. CASE base = 300000
  <2>1. ~ n > 400000 /\ 300000 < n /\ n <= 365536
    BY <1>3, <1>5, <1>7, SMT
  <2> QED
    BY <1>1, <1>5, <2>1, SMT DEF InputReg, n, p
<1>8. CASE base = 100000
  <2>1. ~ n > 400000 /\ 100000 < n /\ n <= 165536
    BY <1>3, <1>5, <1>8, SMT
  <2> QED
    BY <1>1, <1>5, <2>1, SMT DEF Input, n, p
<1>9. CASE base = 0
  <2>1. ~ n > 400000 /\ 0 < n /\ n <= 65536
    BY <1>3, <1>5, <1>9, SMT
  <2> QED
    BY <1>1, <1>5, <2>1, SMT DEF Coil, n, p
<1> QED
  BY <1>4, <1>6, <1>7, <1>8, <1>9, SMT

(* What the table of functions says of each class.                         *)
LEMMA EntriesAre ==
    ASSUME NEW a, ModbusAddressOK(a)
    PROVE  \/ Coil(a) /\ Entered(a, "READ_COILS", "none", -1, "BYTE")
           \/ Input(a) /\ Entered(a, "READ_INPUTS", "none", -100001, "BYTE")
           \/ InputReg(a) /\ Entered(a, "READ_INPUT_REGISTER", "none", -300001, "UINT")
           \/ Holding(a) /\ a.prefix = "none" /\ Entered(a, "READ_HOLDING_REGISTER", "none", -400001, "INT")
           \/ Holding(a) /\ a.prefix = "D" /\ Entered(a, "READ_HOLDING_REGISTER", "D", -400001, "DINT")
           \/ Holding(a) /\ a.prefix = "F" /\ Entered(a, "READ_HOLDING_REGISTER", "F", -400001, "REAL")
<1> DEFINE n == a.number
           p == a.prefix
           T == M!Client!FTable
           S(j) == M!Client!Serves(T[j], a)
           ok(i) == \A j \in 1 .. 6 : S(j) <=> j = i
<1>1. n \in Int /\ (Coil(a) \/ Input(a) \/ InputReg(a) \/ (Holding(a) /\ (p = "none" \/ p = "D" \/ p = "F")))
  BY ClassesAre, SMT
<1> HIDE DEF T
<1>2. /\ S(1) <=> 1 <= n /\ n <= 99999 /\ "none" = p
      /\ S(2) <=> 100001 <= n /\ n <= 199999 /\ "none" = p
      /\ S(3) <=> 300001 <= n /\ n <= 399999 /\ "none" = p
      /\ S(4) <=> 400001 <= n /\ n <= 499999 /\ "none" = p
      /\ S(5) <=> 400001 <= n /\ n <= 499999 /\ "D" = p
      /\ S(6) <=> 400001 <= n /\ n <= 499999 /\ "F" = p
  BY TableIs, ServesIs, SMT DEF T
<1>3. ASSUME NEW j \in 1 .. 6 PROVE j = 1 \/ j = 2 \/ j = 3 \/ j = 4 \/ j = 5 \/ j = 6
  BY SMT
<1> HIDE DEF S
<1>4. CASE Coil(a)
  <2>1. 0 < n /\ n <= 65536 /\ p = "none"
    BY <1>4, SMT DEF Coil, n, p
  <2>2. S(1) /\ ~ S(2) /\ ~ S(3) /\ ~ S(4) /\ ~ S(5) /\ ~ S(6)
    BY <1>1, <1>2, <2>1, SMT
  <2>3. ok(1)
    BY <1>3, <2>2, SMT
  <2>4. M!Entry(a) = T[1]
    <3>1. 1 \in 1 .. 6
      BY SMT
    <3>2. \A j \in 1 .. 6 : M!Client!Serves(M!Client!FTable[j], a) <=> j = 1
      BY <2>3, Zenon DEF S, T
    <3> QED
      BY <3>1, <3>2, EntryOf, Zenon DEF T
  <2>5. Entered(a, "READ_COILS", "none", -1, "BYTE")
    BY <2>4, RowsAre, SMT DEF Entered, T
  <2> QED
    BY <1>4, <2>5, SMT
<1>5. CASE Input(a)
  <2>1. 100000 < n /\ n <= 165536 /\ p = "none"
    BY <1>5, SMT DEF Input, n, p
  <2>2. ~ S(1) /\ S(2) /\ ~ S(3) /\ ~ S(4) /\ ~ S(5) /\ ~ S(6)
    BY <1>1, <1>2, <2>1, SMT
  <2>3. ok(2)
    BY <1>3, <2>2, SMT
  <2>4. M!Entry(a) = T[2]
    <3>1. 2 \in 1 .. 6
      BY SMT
    <3>2. \A j \in 1 .. 6 : M!Client!Serves(M!Client!FTable[j], a) <=> j = 2
      BY <2>3, Zenon DEF S, T
    <3> QED
      BY <3>1, <3>2, EntryOf, Zenon DEF T
  <2>5. Entered(a, "READ_INPUTS", "none", -100001, "BYTE")
    BY <2>4, RowsAre, SMT DEF Entered, T
  <2> QED
    BY <1>5, <2>5, SMT
<1>6. CASE InputReg(a)
  <2>1. 300000 < n /\ n <= 365536 /\ p = "none"
    BY <1>6, SMT DEF InputReg, n, p
  <2>2. ~ S(1) /\ ~ S(2) /\ S(3) /\ ~ S(4) /\ ~ S(5) /\ ~ S(6)
    BY <1>1, <1>2, <2>1, SMT
  <2>3. ok(3)
    BY <1>3, <2>2, SMT
  <2>4. M!Entry(a) = T[3]
    <3>1. 3 \in 1 .. 6
      BY SMT
    <3>2. \A j \in 1 .. 6 : M!Client!Serves(M!Client!FTable[j], a) <=> j = 3
      BY <2>3, Zenon DEF S, T
    <3> QED
      BY <3>1, <3>2, EntryOf, Zenon DEF T
  <2>5. Entered(a, "READ_INPUT_REGISTER", "none", -300001, "UINT")
    BY <2>4, RowsAre, SMT DEF Entered, T
  <2> QED
    BY <1>6, <2>5, SMT
<1>7. CASE Holding(a) /\ a.prefix = "none"
  <2>1. 400000 < n /\ n <= 465536 /\ p = "none"
    BY <1>7, SMT DEF Holding, n, p
  <2>2. ~ S(1) /\ ~ S(2) /\ ~ S(3) /\ S(4) /\ ~ S(5) /\ ~ S(6)
    BY <1>1, <1>2, <2>1, SMT
  <2>3. ok(4)
    BY <1>3, <2>2, SMT
  <2>4. M!Entry(a) = T[4]
    <3>1. 4 \in 1 .. 6
      BY SMT
    <3>2. \A j \in 1 .. 6 : M!Client!Serves(M!Client!FTable[j], a) <=> j = 4
      BY <2>3, Zenon DEF S, T
    <3> QED
      BY <3>1, <3>2, EntryOf, Zenon DEF T
  <2>5. Entered(a, "READ_HOLDING_REGISTER", "none", -400001, "INT")
    BY <2>4, RowsAre, SMT DEF Entered, T
  <2> QED
    BY <1>7, <2>5, SMT
<1>8. CASE Holding(a) /\ a.prefix = "D"
  <2>1. 400000 < n /\ n <= 465536 /\ p = "D"
    BY <1>8, SMT DEF Holding, n, p
  <2>2. ~ S(1) /\ ~ S(2) /\ ~ S(3) /\ ~ S(4) /\ S(5) /\ ~ S(6)
    BY <1>1, <1>2, <2>1, SMT
  <2>3. ok(5)
    BY <1>3, <2>2, SMT
  <2>4. M!Entry(a) = T[5]
    <3>1. 5 \in 1 .. 6
      BY SMT
    <3>2. \A j \in 1 .. 6 : M!Client!Serves(M!Client!FTable[j], a) <=> j = 5
      BY <2>3, Zenon DEF S, T
    <3> QED
      BY <3>1, <3>2, EntryOf, Zenon DEF T
  <2>5. Entered(a, "READ_HOLDING_REGISTER", "D", -400001, "DINT")
    BY <2>4, RowsAre, SMT DEF Entered, T
  <2> QED
    BY <1>8, <2>5, SMT
<1>9. CASE Holding(a) /\ a.prefix = "F"
  <2>1. 400000 < n /\ n <= 465536 /\ p = "F"
    BY <1>9, SMT DEF Holding, n, p
  <2>2. ~ S(1) /\ ~ S(2) /\ ~ S(3) /\ ~ S(4) /\ ~ S(5) /\ S(6)
    BY <1>1, <1>2, <2>1, SMT
  <2>3. ok(6)
    BY <1>3, <2>2, SMT
  <2>4. M!Entry(a) = T[6]
    <3>1. 6 \in 1 .. 6
      BY SMT
    <3>2. \A j \in 1 .. 6 : M!Client!Serves(M!Client!FTable[j], a) <=> j = 6
      BY <2>3, Zenon DEF S, T
    <3> QED
      BY <3>1, <3>2, EntryOf, Zenon DEF T
  <2>5. Entered(a, "READ_HOLDING_REGISTER", "F", -400001, "REAL")
    BY <2>4, RowsAre, SMT DEF Entered, T
  <2> QED
    BY <1>9, <2>5, SMT
<1> QED
  BY <1>1, <1>4, <1>5, <1>6, <1>7, <1>8, <1>9, SMT DEF p

(* The area, the place in it and the width of an address, as the client    *)
(* sends them and as they are meant.                                       *)
Served(a, kind, read, tp, prefix) ==
    /\ Area(a.number)[1] = kind /\ M!Entry(a).read = read /\ M!Entry(a).type = tp
    /\ a.prefix = prefix /\ M!Entry(a).prefix = prefix

(* An address of Modbus is served by the row of its kind, at its offset.   *)
LEMMA AreaIs ==
    ASSUME NEW a, ModbusAddressOK(a)
    PROVE  /\ Area(a.number)[2] \in Int /\ 0 <= Area(a.number)[2] /\ Area(a.number)[2] < 65536
           /\ M!Address(a) = Area(a.number)[2]
           /\ M!Kind(M!Entry(a).read) = Area(a.number)[1]
           /\ \/ Served(a, "coil", "READ_COILS", "BYTE", "none")
              \/ Served(a, "input", "READ_INPUTS", "BYTE", "none")
              \/ Served(a, "input_register", "READ_INPUT_REGISTER", "UINT", "none")
              \/ Served(a, "register", "READ_HOLDING_REGISTER", "INT", "none")
              \/ Served(a, "register", "READ_HOLDING_REGISTER", "DINT", "D")
              \/ Served(a, "register", "READ_HOLDING_REGISTER", "REAL", "F")
<1> DEFINE n == a.number
           e == M!Entry(a)
           k == Area(n)[1]
           x == Area(n)[2]
           goal == x \in Int /\ 0 <= x /\ x < 65536 /\ M!Address(a) = x /\ M!Kind(e.read) = k
<1>1. n \in Int
  BY ClassesAre, SMT
<1>2. 2^16 = 65536
  BY SMT
<1>3. M!Address(a) = (n + e.offset) % 65536
  BY <1>2, SMT DEF M!Address
<1>4. /\ M!Kind("READ_COILS") = "coil" /\ M!Kind("READ_INPUTS") = "input"
      /\ M!Kind("READ_INPUT_REGISTER") = "input_register" /\ M!Kind("READ_HOLDING_REGISTER") = "register"
  <2>1. /\ "READ_COILS" # "READ_INPUTS" /\ "READ_COILS" # "READ_INPUT_REGISTER"
        /\ "READ_INPUTS" # "READ_INPUT_REGISTER" /\ "READ_HOLDING_REGISTER" # "READ_COILS"
        /\ "READ_HOLDING_REGISTER" # "READ_INPUTS" /\ "READ_HOLDING_REGISTER" # "READ_INPUT_REGISTER"
    BY SMT
  <2> QED
    BY <2>1, Zenon DEF M!Kind
<1>5. ASSUME NEW y \in Int, 0 <= y, y < 65536 PROVE y % 65536 = y
  BY <1>5, Divides, SMT
<1>6. CASE Coil(a) /\ Entered(a, "READ_COILS", "none", -1, "BYTE")
  <2>1. 0 < n /\ n <= 65536 /\ a.prefix = "none"
    BY <1>6, SMT DEF Coil
  <2>2. e.read = "READ_COILS" /\ e.offset = -1 /\ e.type = "BYTE" /\ e.prefix = "none"
    BY <1>6, SMT DEF Entered
  <2>3. k = "coil" /\ x = n - 1
    BY <1>1, <2>1, SMT DEF Area
  <2>4. x \in Int /\ 0 <= x /\ x < 65536 /\ n + e.offset = x
    BY <1>1, <2>1, <2>2, <2>3, SMT
  <2> HIDE DEF e, k, x, n
  <2>5. goal
    BY <1>3, <1>4, <1>5, <2>2, <2>3, <2>4, SMT
  <2> QED
    BY <2>1, <2>2, <2>3, <2>5, SMT DEF Served, e, k, x, n
<1>7. CASE Input(a) /\ Entered(a, "READ_INPUTS", "none", -100001, "BYTE")
  <2>1. 100000 < n /\ n <= 165536 /\ a.prefix = "none"
    BY <1>7, SMT DEF Input
  <2>2. e.read = "READ_INPUTS" /\ e.offset = -100001 /\ e.type = "BYTE" /\ e.prefix = "none"
    BY <1>7, SMT DEF Entered
  <2>3. k = "input" /\ x = n - 100001
    BY <1>1, <2>1, SMT DEF Area
  <2>4. x \in Int /\ 0 <= x /\ x < 65536 /\ n + e.offset = x
    BY <1>1, <2>1, <2>2, <2>3, SMT
  <2> HIDE DEF e, k, x, n
  <2>5. goal
    BY <1>3, <1>4, <1>5, <2>2, <2>3, <2>4, SMT
  <2> QED
    BY <2>1, <2>2, <2>3, <2>5, SMT DEF Served, e, k, x, n
<1>8. CASE InputReg(a) /\ Entered(a, "READ_INPUT_REGISTER", "none", -300001, "UINT")
  <2>1. 300000 < n /\ n <= 365536 /\ a.prefix = "none"
    BY <1>8, SMT DEF InputReg
  <2>2. e.read = "READ_INPUT_REGISTER" /\ e.offset = -300001 /\ e.type = "UINT" /\ e.prefix = "none"
    BY <1>8, SMT DEF Entered
  <2>3. k = "input_register" /\ x = n - 300001
    BY <1>1, <2>1, SMT DEF Area
  <2>4. x \in Int /\ 0 <= x /\ x < 65536 /\ n + e.offset = x
    BY <1>1, <2>1, <2>2, <2>3, SMT
  <2> HIDE DEF e, k, x, n
  <2>5. goal
    BY <1>3, <1>4, <1>5, <2>2, <2>3, <2>4, SMT
  <2> QED
    BY <2>1, <2>2, <2>3, <2>5, SMT DEF Served, e, k, x, n
<1>9. CASE Holding(a) /\ a.prefix = "none" /\ Entered(a, "READ_HOLDING_REGISTER", "none", -400001, "INT")
  <2>1. 400000 < n /\ n <= 465536 /\ a.prefix = "none"
    BY <1>9, SMT DEF Holding
  <2>2. e.read = "READ_HOLDING_REGISTER" /\ e.offset = -400001 /\ e.type = "INT" /\ e.prefix = "none"
    BY <1>9, SMT DEF Entered
  <2>3. k = "register" /\ x = n - 400001
    BY <1>1, <2>1, SMT DEF Area
  <2>4. x \in Int /\ 0 <= x /\ x < 65536 /\ n + e.offset = x
    BY <1>1, <2>1, <2>2, <2>3, SMT
  <2> HIDE DEF e, k, x, n
  <2>5. goal
    BY <1>3, <1>4, <1>5, <2>2, <2>3, <2>4, SMT
  <2> QED
    BY <2>1, <2>2, <2>3, <2>5, SMT DEF Served, e, k, x, n
<1>10. CASE Holding(a) /\ a.prefix = "D" /\ Entered(a, "READ_HOLDING_REGISTER", "D", -400001, "DINT")
  <2>1. 400000 < n /\ n <= 465536 /\ a.prefix = "D"
    BY <1>10, SMT DEF Holding
  <2>2. e.read = "READ_HOLDING_REGISTER" /\ e.offset = -400001 /\ e.type = "DINT" /\ e.prefix = "D"
    BY <1>10, SMT DEF Entered
  <2>3. k = "register" /\ x = n - 400001
    BY <1>1, <2>1, SMT DEF Area
  <2>4. x \in Int /\ 0 <= x /\ x < 65536 /\ n + e.offset = x
    BY <1>1, <2>1, <2>2, <2>3, SMT
  <2> HIDE DEF e, k, x, n
  <2>5. goal
    BY <1>3, <1>4, <1>5, <2>2, <2>3, <2>4, SMT
  <2> QED
    BY <2>1, <2>2, <2>3, <2>5, SMT DEF Served, e, k, x, n
<1>11. CASE Holding(a) /\ a.prefix = "F" /\ Entered(a, "READ_HOLDING_REGISTER", "F", -400001, "REAL")
  <2>1. 400000 < n /\ n <= 465536 /\ a.prefix = "F"
    BY <1>11, SMT DEF Holding
  <2>2. e.read = "READ_HOLDING_REGISTER" /\ e.offset = -400001 /\ e.type = "REAL" /\ e.prefix = "F"
    BY <1>11, SMT DEF Entered
  <2>3. k = "register" /\ x = n - 400001
    BY <1>1, <2>1, SMT DEF Area
  <2>4. x \in Int /\ 0 <= x /\ x < 65536 /\ n + e.offset = x
    BY <1>1, <2>1, <2>2, <2>3, SMT
  <2> HIDE DEF e, k, x, n
  <2>5. goal
    BY <1>3, <1>4, <1>5, <2>2, <2>3, <2>4, SMT
  <2> QED
    BY <2>1, <2>2, <2>3, <2>5, SMT DEF Served, e, k, x, n
<1> QED
  BY EntriesAre, <1>6, <1>7, <1>8, <1>9, <1>10, <1>11, SMT

-----------------------------------------------------------------------------
(***************************************************************************)
(* Reads of Modbus.                                                        *)
(***************************************************************************)

(* The kinds of addresses, without their numbers. *)
LEMMA ServedIs ==
    ASSUME NEW a, ModbusAddressOK(a)
    PROVE  /\ M!Address(a) = Area(a.number)[2]
           /\ M!Kind(M!Entry(a).read) = Area(a.number)[1]
           /\ \/ Served(a, "coil", "READ_COILS", "BYTE", "none")
              \/ Served(a, "input", "READ_INPUTS", "BYTE", "none")
              \/ Served(a, "input_register", "READ_INPUT_REGISTER", "UINT", "none")
              \/ Served(a, "register", "READ_HOLDING_REGISTER", "INT", "none")
              \/ Served(a, "register", "READ_HOLDING_REGISTER", "DINT", "D")
              \/ Served(a, "register", "READ_HOLDING_REGISTER", "REAL", "F")
BY AreaIs, SMT

(* How many registers an element has. *)
LEMMA WidthIs ==
    ASSUME NEW a
    PROVE  /\ a.prefix = "none" => Width(a) = 1
           /\ a.prefix # "none" => Width(a) = 2
BY Zenon DEF Width

(* The number of elements of a command is one that a request may ask for.  *)
LEMMA NumbersAre ==
    ASSUME NEW c, ModbusOK(c)
    PROVE  /\ ModbusAddressOK(c.address)
           /\ c.number \in Int /\ 1 <= c.number
           /\ c.address.number < 300000 => c.number <= 2000
           /\ ~ c.address.number < 300000 => c.number * Width(c.address) <= 125
<1> DEFINE a == c.address
           x == a.number
           n == c.number
           w == Width(a)
<1>1. ModbusAddressOK(a) /\ n \in 1 .. (IF x < 300000 THEN 2000 ELSE 125 \div w)
  BY SMT DEF ModbusOK
<1>2. w = 1 \/ w = 2
  BY WidthIs, Zenon
<1> HIDE DEF w, n, x
<1>3. CASE x < 300000
  BY <1>1, <1>3, SMT DEF n, x
<1>4. CASE ~ x < 300000
  <2>1. n \in 1 .. (125 \div w)
    BY <1>1, <1>4, SMT
  <2>2. CASE w = 1
    BY <1>1, <1>4, <2>1, <2>2, SMT DEF n, x, w
  <2>3. CASE w = 2
    <3>1. 125 \div 2 = 62
      BY SMT
    <3>2. n \in 1 .. 62
      BY <2>1, <2>3, <3>1, SMT
    <3>3. n \in Int /\ 1 <= n /\ n * w <= 125
      BY <2>3, <3>2, SMT
    <3> QED
      BY <1>1, <1>4, <3>3, SMT DEF n, x, w
  <2> QED
    BY <1>2, <2>2, <2>3, SMT
<1> QED
  BY <1>3, <1>4, SMT

(* The request asks for the words of all elements. *)
LEMMA RequestIs ==
    ASSUME NEW c, ModbusOK(c)
    PROVE  LET a == c.address
               req == M!Client!Ext(a, c.number) IN
           /\ req.read = M!Entry(a).read /\ req.type = M!Entry(a).type
           /\ req.address = Area(a.number)[2]
           /\ req.number = c.number * Width(a) /\ req.asked = req.number
<1> DEFINE a == c.address
           n == c.number
           e == M!Entry(a)
           size == M!Client!DataSize(e.type)
           N == IF size > 2 THEN 2 * n ELSE n
           req == M!Client!Ext(a, n)
           w == Width(a)
<1>1. req = M!Client!ReadRequest(a, N, e.type)
  BY Zenon DEF M!Client!Ext, M!Entry
<1>2. M!Client!ReadRequest(a, N, e.type) =
          [read |-> e.read, address |-> (a.number + e.offset) % 2^16,
           asked |-> M!Client!Smaller(N, M!Client!MaxNumber(e.read)), number |-> N, type |-> e.type]
  BY SMT DEF M!Client!ReadRequest, M!Entry
<1>3. M!Address(a) = (a.number + e.offset) % 2^16
  BY SMT DEF M!Address
<1> DEFINE max == M!Client!MaxNumber(e.read)
           at == (a.number + e.offset) % 2^16
<1>4. /\ req.read = e.read /\ req.type = e.type /\ req.address = at
      /\ req.number = N /\ req.asked = M!Client!Smaller(N, max)
  <2> HIDE DEF req, N, e, max, at
  <2> QED
    BY <1>1, <1>2, SMT DEF e, max, at
<1>10. ModbusAddressOK(a)
  BY NumbersAre, SMT
<1>5. at = Area(a.number)[2]
  BY <1>3, <1>10, ServedIs, Zenon
<1>6. n \in Int /\ 1 <= n
  BY NumbersAre, SMT
<1> HIDE DEF req, max, at, e, N
<1>7. ASSUME N = n * w, N <= max, max \in Int PROVE M!Client!Smaller(N, max) = N
  <2>1. w = 1 \/ w = 2
    BY WidthIs, Zenon
  <2> HIDE DEF w
  <2>2. N \in Int
    BY <1>6, <1>7, <2>1, SMT
  <2> QED
    BY <1>7, <2>2, SMT DEF M!Client!Smaller
<1>8. N = n * w /\ N <= max /\ max \in Int
  <2>1. /\ M!Client!DataSize("BYTE") = 1 /\ M!Client!DataSize("UINT") = 2 /\ M!Client!DataSize("INT") = 2
        /\ M!Client!DataSize("DINT") = 4 /\ M!Client!DataSize("REAL") = 4
    BY SMT DEF M!Client!DataSize
  <2>2. /\ M!Client!MaxNumber("READ_COILS") = 2000 /\ M!Client!MaxNumber("READ_INPUTS") = 2000
        /\ M!Client!MaxNumber("READ_INPUT_REGISTER") = 125 /\ M!Client!MaxNumber("READ_HOLDING_REGISTER") = 125
    BY SMT DEF M!Client!MaxNumber, M!Client!Bits
  <2>3. a.number < 300000 => n <= 2000
    BY NumbersAre, SMT
  <2>4. ~ a.number < 300000 => n * w <= 125
    BY NumbersAre, SMT
  <2>5. N = IF size > 2 THEN 2 * n ELSE n
    BY SMT DEF N
  <2>6. ModbusAddressOK(a)
    BY <1>10
  <2>7. CASE (e.read = "READ_COILS" \/ e.read = "READ_INPUTS") /\ e.type = "BYTE" /\ a.prefix = "none"
    <3>0. w = 1
      BY <2>7, WidthIs, Zenon
    <3>1. size = 1 /\ max = 2000 /\ w = 1
      BY <2>1, <2>2, <2>7, <3>0, SMT DEF max, e
    <3> HIDE DEF w, size
    <3>2. n <= 125 \/ n <= 2000
      <4>1. w = 1 /\ n \in Int
        BY <1>6, <3>1, SMT
      <4>2. n * w = n
        BY <4>1, SMT
      <4> QED
        BY <2>3, <2>4, <4>2, SMT
    <3> QED
      BY <1>6, <2>5, <3>1, <3>2, SMT
  <2>8. ASSUME Area(a.number)[1] = "input_register" \/ Area(a.number)[1] = "register"
        PROVE  ~ a.number < 300000
    <3>1. a.number \in Int
      BY <2>6, ClassesAre, SMT
    <3>2. CASE a.number < 100000
      <4>1. Area(a.number)[1] = "coil"
        BY <3>2, SMT DEF Area
      <4> QED
        BY <2>8, <4>1, SMT
    <3>3. CASE ~ a.number < 100000 /\ a.number < 200000
      <4>1. Area(a.number)[1] = "input"
        BY <3>3, SMT DEF Area
      <4> QED
        BY <2>8, <4>1, SMT
    <3>4. CASE ~ a.number < 200000 /\ a.number < 300000
      <4>1. Coil(a) \/ Input(a) \/ InputReg(a) \/ Holding(a)
        BY <2>6, ClassesAre, SMT
      <4> QED
        BY <3>1, <3>4, <4>1, SMT DEF Coil, Input, InputReg, Holding
    <3> QED
      BY <3>1, <3>2, <3>3, <3>4, SMT
  <2>9. CASE /\ Area(a.number)[1] = "input_register" \/ Area(a.number)[1] = "register"
             /\ e.read = "READ_INPUT_REGISTER" \/ e.read = "READ_HOLDING_REGISTER"
             /\ \/ size = 2 /\ w = 1
                \/ size = 4 /\ w = 2
    <3>1. max = 125
      BY <2>2, <2>9, SMT DEF max
    <3>2. n * w <= 125
      BY <2>4, <2>8, <2>9, SMT
    <3> HIDE DEF w, size
    <3> QED
      BY <1>6, <2>5, <2>9, <3>1, <3>2, SMT
  <2>10. CASE Served(a, "coil", "READ_COILS", "BYTE", "none")
    BY <2>7, <2>10, Zenon DEF Served, e
  <2>11. CASE Served(a, "input", "READ_INPUTS", "BYTE", "none")
    BY <2>7, <2>11, Zenon DEF Served, e
  <2>12. CASE Served(a, "input_register", "READ_INPUT_REGISTER", "UINT", "none")
    BY <2>1, <2>9, <2>12, WidthIs, Zenon DEF Served, e
  <2>13. CASE Served(a, "register", "READ_HOLDING_REGISTER", "INT", "none")
    BY <2>1, <2>9, <2>13, WidthIs, Zenon DEF Served, e
  <2>14. CASE Served(a, "register", "READ_HOLDING_REGISTER", "DINT", "D")
    <3>1. "D" # "none"
      BY SMT
    <3> QED
      BY <2>1, <2>9, <2>14, <3>1, WidthIs, Zenon DEF Served, e
  <2>15. CASE Served(a, "register", "READ_HOLDING_REGISTER", "REAL", "F")
    <3>1. "F" # "none"
      BY SMT
    <3> QED
      BY <2>1, <2>9, <2>15, <3>1, WidthIs, Zenon DEF Served, e
  <2> QED
    BY <2>6, <2>10, <2>11, <2>12, <2>13, <2>14, <2>15, ServedIs, Zenon
<1>9. M!Client!Smaller(N, max) = N
  BY <1>7, <1>8, Zenon
<1> QED
  BY <1>4, <1>5, <1>8, <1>9, Zenon DEF e, req

(* The Modbus client has the same numbers. *)
LEMMA SameOfModbus ==
    /\ \A w : M!Signed(w) = Signed(w)
    /\ \A w : M!Word(w) = Word(w)
    /\ \A v : M!Float(v) = Float(v)
    /\ \A h, w : M!Double(h, w) = Double(h, w)
<1>1. ASSUME NEW w PROVE M!Signed(w) = Signed(w)
  BY Zenon DEF M!Signed, Signed
<1>2. ASSUME NEW w PROVE M!Word(w) = Word(w)
  BY Zenon DEF M!Word, Word
<1>3. ASSUME NEW v PROVE M!Float(v) = Float(v)
  BY Zenon DEF M!Float, Float, M!Nearest, Nearest, M!Step, Step
<1>4. ASSUME NEW h, NEW w PROVE M!Double(h, w) = Double(h, w)
  BY <1>1, Zenon DEF M!Double, Double
<1> QED
  BY <1>1, <1>2, <1>3, <1>4, Zenon

(* Whose value an element of the reply is. *)
LEMMA ElementIs ==
    ASSUME NEW c, ModbusOK(c), NEW i \in 1 .. c.number
    PROVE  LET a == c.address
               at == M!Client!ValueAt(M!Client!Ext(a, c.number), i - 1) IN
           /\ at.type = IF M!Entry(a).type = "BYTE" THEN "BIT" ELSE M!Entry(a).type
           /\ <<M!Kind(M!Entry(a).read), at.address + 0>> = CellOf(a, Width(a) * (i - 1) + 0)
           /\ <<M!Kind(M!Entry(a).read), at.address + 1>> = CellOf(a, Width(a) * (i - 1) + 1)
<1> DEFINE a == c.address
           n == c.number
           req == M!Client!Ext(a, n)
           at == M!Client!ValueAt(req, i - 1)
           e == M!Entry(a)
           w == Width(a)
           x == Area(a.number)[2]
           far == IF req.type \in {"DINT", "UDINT", "REAL"} THEN 2 * (i - 1) ELSE i - 1
           kind == IF req.read \in M!Client!Bits THEN "BIT" ELSE IF req.type = "UNK" THEN "REAL" ELSE req.type
<1>1. /\ req.read = e.read /\ req.type = e.type /\ req.address = x
      /\ req.number = n * w
  BY RequestIs, Zenon
<1>2. n \in Int /\ 1 <= n /\ ModbusAddressOK(a)
  BY NumbersAre, SMT
<1>3. w = 1 \/ w = 2
  BY WidthIs, Zenon
<1>4. i \in Int /\ 1 <= i /\ i <= n
  BY <1>2, SMT
<1>5. x \in Int
  BY <1>2, AreaIs, SMT
<1>6. M!Kind(e.read) = Area(a.number)[1]
  BY <1>2, ServedIs, Zenon
<1>7. ~ i - 1 >= req.number
  <2> HIDE DEF w, req, n
  <2> QED
    BY <1>1, <1>2, <1>3, <1>4, SMT
<1>8. at = [read |-> req.read, address |-> req.address + far, type |-> kind]
  BY <1>7, Zenon DEF M!Client!ValueAt
<1> HIDE DEF at
<1>9. at.address = req.address + far /\ at.type = kind
  <2> HIDE DEF far, kind, req
  <2> QED
    BY <1>8
<1>10. /\ "BYTE" # "UNK" /\ "UINT" # "UNK" /\ "INT" # "UNK" /\ "DINT" # "UNK" /\ "REAL" # "UNK"
       /\ "BYTE" \notin {"DINT", "UDINT", "REAL"} /\ "UINT" \notin {"DINT", "UDINT", "REAL"}
       /\ "INT" \notin {"DINT", "UDINT", "REAL"}
       /\ "D" # "none" /\ "F" # "none" /\ "UINT" # "BYTE" /\ "INT" # "BYTE" /\ "DINT" # "BYTE" /\ "REAL" # "BYTE"
       /\ "DINT" \in {"DINT", "UDINT", "REAL"} /\ "REAL" \in {"DINT", "UDINT", "REAL"}
       /\ "READ_COILS" \in M!Client!Bits /\ "READ_INPUTS" \in M!Client!Bits
       /\ "READ_INPUT_REGISTER" \notin M!Client!Bits /\ "READ_HOLDING_REGISTER" \notin M!Client!Bits
  BY SMT DEF M!Client!Bits
<1> HIDE DEF req
<1>11. /\ kind = IF e.type = "BYTE" THEN "BIT" ELSE e.type
       /\ w = 1 => far = i - 1
       /\ w = 2 => far = 2 * (i - 1)
  <2>1. CASE Served(a, "coil", "READ_COILS", "BYTE", "none")
    <3>1. req.read = "READ_COILS" /\ req.type = "BYTE" /\ e.type = "BYTE" /\ w = 1
      BY <1>1, <2>1, WidthIs, Zenon DEF Served
    <3> QED
      BY <1>10, <3>1
  <2>2. CASE Served(a, "input", "READ_INPUTS", "BYTE", "none")
    <3>1. req.read = "READ_INPUTS" /\ req.type = "BYTE" /\ e.type = "BYTE" /\ w = 1
      BY <1>1, <2>2, WidthIs, Zenon DEF Served
    <3> QED
      BY <1>10, <3>1
  <2>3. CASE Served(a, "input_register", "READ_INPUT_REGISTER", "UINT", "none")
    <3>1. req.read = "READ_INPUT_REGISTER" /\ req.type = "UINT" /\ e.type = "UINT" /\ w = 1
      BY <1>1, <2>3, WidthIs, Zenon DEF Served
    <3> QED
      BY <1>10, <3>1
  <2>4. CASE Served(a, "register", "READ_HOLDING_REGISTER", "INT", "none")
    <3>1. req.read = "READ_HOLDING_REGISTER" /\ req.type = "INT" /\ e.type = "INT" /\ w = 1
      BY <1>1, <2>4, WidthIs, Zenon DEF Served
    <3> QED
      BY <1>10, <3>1
  <2>5. CASE Served(a, "register", "READ_HOLDING_REGISTER", "DINT", "D")
    <3>1. req.read = "READ_HOLDING_REGISTER" /\ req.type = "DINT" /\ e.type = "DINT" /\ w = 2
      BY <1>1, <1>10, <2>5, WidthIs, Zenon DEF Served
    <3> QED
      BY <1>10, <3>1
  <2>6. CASE Served(a, "register", "READ_HOLDING_REGISTER", "REAL", "F")
    <3>1. req.read = "READ_HOLDING_REGISTER" /\ req.type = "REAL" /\ e.type = "REAL" /\ w = 2
      BY <1>1, <1>10, <2>6, WidthIs, Zenon DEF Served
    <3> QED
      BY <1>10, <3>1
  <2> QED
    BY <1>2, <2>1, <2>2, <2>3, <2>4, <2>5, <2>6, ServedIs, Zenon
<1>12. far = w * (i - 1)
  <2> HIDE DEF far, w, kind
  <2> QED
    BY <1>3, <1>4, <1>11
<1>13. at.address + 0 = x + (w * (i - 1) + 0) /\ at.address + 1 = x + (w * (i - 1) + 1)
  <2> DEFINE f == w * (i - 1)
  <2>1. f \in Int /\ at.address = x + f
    <3> HIDE DEF far, w, kind, x
    <3> QED
      BY <1>1, <1>3, <1>4, <1>9, <1>12
  <2> HIDE DEF f, x
  <2>2. at.address + 0 = x + (f + 0) /\ at.address + 1 = x + (f + 1)
    BY <1>5, <2>1
  <2> QED
    BY <2>2, Zenon DEF f, x
<1> HIDE DEF kind, far, w
<1> QED
  BY <1>6, <1>9, <1>11, <1>13, Zenon DEF CellOf, x, w, at, req

(* A value of a reply, and what it should be. *)
Converted(c, t, req, index) == IF c.as = "real" THEN M!AsReal(t, req, index) ELSE M!AsInteger(t, req, index)
RoundedElement(c, v) == IF c.as = "real" /\ c.address.prefix = "D" THEN Float(v) ELSE v

(* A conversion of a reply gives the element that is meant. *)
LEMMA ConvertedIs ==
    ASSUME NEW c, ModbusOK(c), NEW i \in 1 .. c.number, NEW t, c.as = "real" \/ c.address.prefix # "F",
           Positive(t, c)
    PROVE  Converted(c, t, M!Client!Ext(c.address, c.number), i - 1)
               = RoundedElement(c, ElementOf(t, c.address, i))
<1> DEFINE a == c.address
           req == M!Client!Ext(a, c.number)
           at == M!Client!ValueAt(req, i - 1)
           e == M!Entry(a)
           w0 == t[CellOf(a, Width(a) * (i - 1) + 0)]
           w1 == t[CellOf(a, Width(a) * (i - 1) + 1)]
           x == Converted(c, t, req, i - 1)
           y == ElementOf(t, a, i)
<1>1. ModbusAddressOK(a)
  BY NumbersAre, SMT
<1>2. req.read = e.read /\ req.type = e.type
  BY RequestIs, Zenon
<1>3. at.type = IF e.type = "BYTE" THEN "BIT" ELSE e.type
  BY ElementIs, Zenon
<1>4. /\ t[<<M!Kind(req.read), at.address + 0>>] = w0
      /\ t[<<M!Kind(req.read), at.address + 1>>] = w1
  BY <1>2, ElementIs, Zenon
<1> DEFINE r0 == t[<<M!Kind(req.read), at.address + 0>>]
           r1 == t[<<M!Kind(req.read), at.address + 1>>]
           real == CASE at.type = "BIT" -> r0
                     [] at.type \in {"INT", "UINT"} -> r0
                     [] at.type = "DINT" -> M!Float(r1 * 2^16 + r0)
                     [] at.type = "REAL" -> M!Real(r1, r0)
<1>5. M!AsReal(t, req, i - 1) = real
  BY Zenon DEF M!AsReal
<1>6. /\ at.type = "BIT" => M!AsInteger(t, req, i - 1) = r0
      /\ at.type = "INT" /\ req.type # "UNK" => M!AsInteger(t, req, i - 1) = r0
      /\ at.type = "UINT" /\ req.type # "UNK" => M!AsInteger(t, req, i - 1) = r0
      /\ at.type = "DINT" /\ req.type # "UNK" => M!AsInteger(t, req, i - 1) = M!Double(r1, r0)
  <2>1. /\ "BIT" # "INT" /\ "BIT" # "UINT" /\ "BIT" # "DINT" /\ "INT" # "UINT" /\ "INT" # "DINT" /\ "UINT" # "DINT"
        /\ "DINT" \in {"DINT", "REAL"} /\ "BIT" \notin {"DINT", "REAL"} /\ "INT" \notin {"DINT", "REAL"}
        /\ "UINT" \notin {"DINT", "REAL"} /\ "BIT" \notin {"INT", "UINT"} /\ "DINT" \notin {"INT", "UINT"}
        /\ "INT" \in {"INT", "UINT"} /\ "UINT" \in {"INT", "UINT"}
    OBVIOUS
  <2>2. ASSUME at.type = "BIT" PROVE M!AsInteger(t, req, i - 1) = r0
    BY <2>1, <2>2, Zenon DEF M!AsInteger
  <2>3. ASSUME at.type = "INT", req.type # "UNK" PROVE M!AsInteger(t, req, i - 1) = r0
    BY <2>1, <2>3, Zenon DEF M!AsInteger
  <2>4. ASSUME at.type = "UINT", req.type # "UNK" PROVE M!AsInteger(t, req, i - 1) = r0
    BY <2>1, <2>4, Zenon DEF M!AsInteger
  <2>5. ASSUME at.type = "DINT", req.type # "UNK" PROVE M!AsInteger(t, req, i - 1) = M!Double(r1, r0)
    BY <2>1, <2>5, Zenon DEF M!AsInteger
  <2> QED
    BY <2>2, <2>3, <2>4, <2>5
<1> DEFINE kind == Area(a.number)[1]
           meant == CASE a.prefix = "D" -> Double(w1, w0)
                      [] a.prefix = "F" -> M!Real(w1, w0)
                      [] OTHER -> IF kind = "register" THEN Signed(w0) ELSE w0
<1>7. y = meant
  BY Zenon DEF ElementOf
<1>8. /\ "BIT" # "INT" /\ "BIT" # "UINT" /\ "BIT" # "DINT" /\ "BIT" # "REAL" /\ "INT" # "UINT"
      /\ "INT" # "DINT" /\ "INT" # "REAL" /\ "UINT" # "DINT" /\ "UINT" # "REAL" /\ "DINT" # "REAL"
      /\ "BYTE" # "UNK" /\ "UINT" # "UNK" /\ "INT" # "UNK" /\ "DINT" # "UNK" /\ "REAL" # "UNK"
      /\ "none" # "D" /\ "none" # "F" /\ "D" # "F"
      /\ "BYTE" # "INT" /\ "BYTE" # "UINT" /\ "BYTE" # "DINT" /\ "BYTE" # "REAL"
      /\ "coil" # "register" /\ "input" # "register" /\ "input_register" # "register"
      /\ "REAL" \notin {"INT", "UINT"} /\ "DINT" \notin {"INT", "UINT"} /\ "BIT" \notin {"INT", "UINT"}
      /\ "INT" \in {"INT", "UINT"} /\ "UINT" \in {"INT", "UINT"}
  OBVIOUS
<1>14. Signed(w0) = w0 \/ kind # "register" \/ a.prefix # "none"
  <2>1. SUFFICES ASSUME kind = "register", a.prefix = "none" PROVE Signed(w0) = w0
    BY Zenon
  <2>2. Width(a) * (i - 1) + (Width(a) - 1) = Width(a) * (i - 1) + 0
    <3>1. Width(a) = 1
      BY <2>1, Zenon DEF Width
    <3> QED
      BY <3>1
  <2>3. ~ w0 >= 2^15
    BY <1>8, <2>1, <2>2, Zenon DEF Positive, HighWord
  <2> HIDE DEF w0
  <2> QED
    BY <2>3, Zenon DEF Signed
<1>15. Signed(w1) = w1 \/ a.prefix # "D" \/ c.as = "integer" \/ kind # "register"
  <2>1. SUFFICES ASSUME kind = "register", a.prefix = "D", c.as # "integer" PROVE Signed(w1) = w1
    BY Zenon
  <2>2. Width(a) * (i - 1) + (Width(a) - 1) = Width(a) * (i - 1) + 1
    <3>1. Width(a) = 2
      BY <1>8, <2>1, Zenon DEF Width
    <3> QED
      BY <3>1
  <2>3. ~ w1 >= 2^15
    BY <1>8, <2>1, <2>2, Zenon DEF Positive, HighWord
  <2> HIDE DEF w1
  <2> QED
    BY <2>3, Zenon DEF Signed
<1> HIDE DEF at, e, req, w0, w1
<1>9. CASE kind # "register" /\ a.prefix = "none" /\ (e.type = "BYTE" \/ e.type = "UINT")
  <2>1. y = w0
    BY <1>7, <1>8, <1>9, Zenon
  <2>2. at.type = "BIT" \/ at.type = "UINT"
    BY <1>3, <1>8, <1>9, Zenon
  <2>3. req.type # "UNK"
    BY <1>2, <1>8, <1>9, Zenon
  <2>4. real = r0
    BY <1>8, <2>2, Zenon
  <2> HIDE DEF real, y, r0, r1
  <2>5. x = r0
    BY <1>5, <1>6, <2>2, <2>3, <2>4, Zenon DEF Converted
  <2> QED
    BY <1>4, <1>8, <1>9, <2>1, <2>5, Zenon DEF RoundedElement, r0, x, y, req
<1>10. CASE kind = "register" /\ a.prefix = "none" /\ e.type = "INT"
  <2>1. y = Signed(w0)
    BY <1>7, <1>8, <1>10, Zenon
  <2>2. at.type = "INT"
    BY <1>3, <1>8, <1>10, Zenon
  <2>3. req.type # "UNK"
    BY <1>2, <1>8, <1>10, Zenon
  <2>4. real = r0
    BY <1>8, <2>2, Zenon
  <2> HIDE DEF real, y, r0, r1
  <2>5. x = r0
    BY <1>5, <1>6, <2>2, <2>3, <2>4, Zenon DEF Converted
  <2> QED
    BY <1>4, <1>8, <1>10, <1>14, <2>1, <2>5, Zenon DEF RoundedElement, r0, x, y, req
<1>11. CASE a.prefix = "D" /\ e.type = "DINT"
  <2>1. y = Double(w1, w0)
    BY <1>7, <1>8, <1>11, Zenon
  <2>2. at.type = "DINT"
    BY <1>3, <1>8, <1>11, Zenon
  <2>3. req.type # "UNK"
    BY <1>2, <1>8, <1>11, Zenon
  <2>4. real = M!Float(r1 * 2^16 + r0)
    BY <1>8, <2>2, Zenon
  <2> HIDE DEF real, y, r0, r1
  <2>5. x = IF c.as = "real" THEN Float(r1 * 2^16 + r0) ELSE Double(r1, r0)
    BY <1>5, <1>6, <2>2, <2>3, <2>4, SameOfModbus, Zenon DEF Converted
  <2>6. kind = "register"
    BY <1>1, <1>8, <1>11, ServedIs, Zenon DEF Served, e
  <2>7. "real" # "integer"
    OBVIOUS
  <2>8. c.as = "real" => Double(w1, w0) = w1 * 2^16 + w0
    BY <1>11, <1>15, <2>6, <2>7, Zenon DEF Double
  <2> QED
    BY <1>4, <1>8, <1>11, <2>1, <2>5, <2>8, Zenon DEF RoundedElement, r0, r1, x, y, req
<1>12. CASE a.prefix = "F" /\ e.type = "REAL"
  <2>1. y = M!Real(w1, w0)
    BY <1>7, <1>8, <1>12, Zenon
  <2>2. at.type = "REAL"
    BY <1>3, <1>8, <1>12, Zenon
  <2>3. c.as = "real"
    BY <1>12
  <2>4. real = M!Real(r1, r0)
    BY <1>8, <2>2, Zenon
  <2> HIDE DEF real, y, r0, r1
  <2>5. x = M!Real(r1, r0)
    BY <1>5, <2>3, <2>4, Zenon DEF Converted
  <2> QED
    BY <1>4, <1>8, <1>12, <2>1, <2>5, Zenon DEF RoundedElement, r0, r1, x, y, req
<1>13. \/ kind # "register" /\ a.prefix = "none" /\ (e.type = "BYTE" \/ e.type = "UINT")
       \/ kind = "register" /\ a.prefix = "none" /\ e.type = "INT"
       \/ a.prefix = "D" /\ e.type = "DINT"
       \/ a.prefix = "F" /\ e.type = "REAL"
  BY <1>1, <1>8, ServedIs, Zenon DEF Served, e
<1> QED
  BY <1>9, <1>10, <1>11, <1>12, <1>13, Zenon

(* The cells that a request asks for are those of its elements. *)
LEMMA RequestedIs ==
    ASSUME NEW c, ModbusOK(c), NEW t,
           M!Cells(c.address, M!Client!Ext(c.address, c.number).address, M!Client!Ext(c.address, c.number).asked)
               \subseteq DOMAIN t
    PROVE  \A k \in 0 .. c.number * Width(c.address) - 1 : CellOf(c.address, k) \in DOMAIN t
<1> DEFINE a == c.address
           req == M!Client!Ext(a, c.number)
           N == c.number * Width(a)
<1>1. req.address = Area(a.number)[2] /\ req.asked = N
  BY RequestIs, Zenon
<1>2. M!Kind(M!Entry(a).read) = Area(a.number)[1]
  <2>1. ModbusAddressOK(a)
    BY NumbersAre, SMT
  <2> QED
    BY <2>1, ServedIs, Zenon
<1>3. M!Cells(a, req.address, req.asked) = {<<Area(a.number)[1], Area(a.number)[2] + k>> : k \in 0 .. N - 1}
  <2> HIDE DEF N, req
  <2> QED
    BY <1>1, <1>2, Zenon DEF M!Cells
<1> HIDE DEF req, N
<1>4. ASSUME NEW k \in 0 .. N - 1 PROVE CellOf(a, k) \in DOMAIN t
  BY <1>3, Zenon DEF CellOf, req
<1> QED
  BY <1>4, Zenon DEF N

(* The values of a reply of Modbus are those that are meant. *)
ModbusMeaning(t, c) == [i \in 1 .. c.number |-> ElementOf(t, c.address, i)]
ModbusRounded(c, v) == IF c.as = "real" /\ c.address.prefix = "D" THEN [i \in DOMAIN v |-> Float(v[i])] ELSE v

(* A read of the Modbus client gives the elements its address stands for.  *)
LEMMA ModbusReadMeans ==
    ASSUME ModbusOK(cmd), NEW t, NEW v \in M!Read_Ext(t, cmd.address, cmd.number, As), v # None,
           cmd.as = "real" \/ cmd.address.prefix # "F", Positive(t, cmd)
    PROVE  /\ \A k \in 0 .. cmd.number * Width(cmd.address) - 1 : CellOf(cmd.address, k) \in DOMAIN t
           /\ v = ModbusRounded(cmd, ModbusMeaning(t, cmd))
<1> DEFINE a == cmd.address
           n == cmd.number
           req == M!Client!Ext(a, n)
           ok == req.asked > 0 /\ M!Cells(a, req.address, req.asked) \subseteq DOMAIN t
           f == [i \in 1 .. n |-> As(t, req, i - 1)]
<1>1. M!Read_Ext(t, a, n, As) = {None} \union (IF ok THEN {f} ELSE {})
  BY Zenon DEF M!Read_Ext
<1> HIDE DEF f, ok
<1>2. ok /\ v = f
  BY <1>1
<1>3. \A k \in 0 .. n * Width(a) - 1 : CellOf(a, k) \in DOMAIN t
  BY <1>2, RequestedIs, Zenon DEF ok
<1>4. ASSUME NEW i \in 1 .. n PROVE As(t, req, i - 1) = RoundedElement(cmd, ElementOf(t, a, i))
  <2>1. As(t, req, i - 1) = Converted(cmd, t, req, i - 1)
    BY Zenon DEF As, Converted
  <2>2. Converted(cmd, t, req, i - 1) = RoundedElement(cmd, ElementOf(t, a, i))
    BY ConvertedIs, Zenon
  <2> QED
    BY <2>1, <2>2, Zenon
<1>5. f = [i \in 1 .. n |-> RoundedElement(cmd, ElementOf(t, a, i))]
  BY <1>4, Zenon DEF f
<1> DEFINE m == [i \in 1 .. n |-> ElementOf(t, a, i)]
<1>6. CASE cmd.as = "real" /\ a.prefix = "D"
  <2>1. f = [i \in 1 .. n |-> Float(m[i])]
    <3>1. ASSUME NEW i \in 1 .. n PROVE RoundedElement(cmd, ElementOf(t, a, i)) = Float(m[i])
      BY <1>6, Zenon DEF RoundedElement
    <3> HIDE DEF m
    <3> QED
      BY <1>5, <3>1, Zenon
  <2>2. DOMAIN m = 1 .. n
    BY Zenon
  <2> HIDE DEF m
  <2>3. f = [i \in DOMAIN m |-> Float(m[i])]
    BY <2>1, <2>2, Zenon
  <2> QED
    BY <1>2, <1>3, <1>6, <2>3, Zenon DEF ModbusRounded, ModbusMeaning, m
<1>7. CASE ~ (cmd.as = "real" /\ a.prefix = "D")
  <2>1. f = m
    <3>1. ASSUME NEW i \in 1 .. n PROVE RoundedElement(cmd, ElementOf(t, a, i)) = ElementOf(t, a, i)
      BY <1>7, Zenon DEF RoundedElement
    <3> QED
      BY <1>5, <3>1, Zenon
  <2> QED
    BY <1>2, <1>3, <1>7, <2>1, Zenon DEF ModbusRounded, ModbusMeaning
<1> QED
  BY <1>6, <1>7, Zenon

-----------------------------------------------------------------------------
(***************************************************************************)
(* Writes of Modbus.                                                       *)
(***************************************************************************)

(* The length of a sequence given as a function. *)
LEMMA LengthIs ==
    ASSUME NEW N \in Nat, NEW f, f = [k \in 1 .. N |-> f[k]]
    PROVE  Len(f) = N
OBVIOUS

(* The values of a command for Modbus. *)
LEMMA ValuesAre ==
    ASSUME NEW c, ModbusOK(c), c.value # None
    PROVE  /\ c.value \in Seq(Int) /\ Len(c.value) \in Nat /\ Len(c.value) >= 1
           /\ DOMAIN c.value = 1 .. Len(c.value)
           /\ \A i \in 1 .. Len(c.value) : /\ c.value[i] \in Int
                                           /\ c.value[i] \div 2^16 < 2^15
                                           /\ c.address.prefix = "F" => c.value[i] \in DOMAIN RealBits
<1> DEFINE s == c.value
           p == c.address.prefix
<1>1. /\ s \in Seq(Int) /\ s # <<>>
      /\ \A i \in DOMAIN s : s[i] \div 2^16 \in -(2^15) .. 2^15 - 1 /\ (p = "F" => s[i] \in DOMAIN RealBits)
  BY SMT DEF ModbusOK
<1> HIDE DEF s, p
<1>2. Len(s) \in Nat /\ DOMAIN s = 1 .. Len(s) /\ Len(s) >= 1
  BY <1>1, SMT
<1>3. ASSUME NEW i \in 1 .. Len(s)
      PROVE  s[i] \in Int /\ s[i] \div 2^16 < 2^15 /\ (p = "F" => s[i] \in DOMAIN RealBits)
  <2>1. i \in DOMAIN s
    BY <1>2
  <2>2. s[i] \in Int
    BY <1>1, <2>1, InSequence
  <2>3. s[i] \div 2^16 \in -(2^15) .. 2^15 - 1
    BY <1>1, <2>1, Zenon
  <2> DEFINE h == s[i] \div 2^16
  <2> HIDE DEF h
  <2>4. h < 2^15
    BY <2>3, SMT DEF h
  <2> QED
    BY <1>1, <2>1, <2>2, <2>4, Zenon DEF h
<1> QED
  BY <1>1, <1>2, <1>3, Zenon DEF s, p

(* The words that a value is sent as. *)
LEMMA SentIs ==
    ASSUME NEW v \in Int, v >= 0, v \div 2^16 < 2^15, NEW tp, NEW s \in M!Sent(tp, v)
    PROVE  /\ tp = "DINT" => s = <<Word(v), v \div 2^16>>
           /\ tp = "REAL" => s = RealBits[v]
           /\ tp # "DINT" /\ tp # "REAL" => s = <<Word(v)>>
<1>1. "DINT" # "REAL"
  OBVIOUS
<1>2. CASE tp = "DINT"
  <2>1. 2^16 = 65536 /\ 2^15 = 32768
    BY SMT
  <2> DEFINE h == v \div 2^16
  <2>2. h \in Int /\ 0 <= h /\ h < 65536
    BY <2>1, SMT
  <2> HIDE DEF h
  <2>3. M!Word(h) = h
    BY <2>1, <2>2, Divides, SMT DEF M!Word
  <2>4. ~ v < 0
    BY SMT
  <2>5. M!Sent(tp, v) = {<<M!Word(v), M!Word(h)>>} \union (IF v < 0 THEN {<<0, 0>>} ELSE {})
    BY <1>1, <1>2, Zenon DEF M!Sent, h
  <2>6. M!Sent(tp, v) = {<<M!Word(v), h>>}
    BY <2>3, <2>4, <2>5, Zenon
  <2> QED
    BY <1>1, <1>2, <2>6, SameOfModbus, Zenon DEF h
<1>3. CASE tp = "REAL"
  BY <1>1, <1>3, Zenon DEF M!Sent
<1>4. CASE tp # "DINT" /\ tp # "REAL"
  <2>1. M!Sent(tp, v) = {<<w>> : w \in M!Unsigned(v, 2^16)}
    BY <1>4, Zenon DEF M!Sent
  <2>2. M!Unsigned(v, 2^16) = {v % 2^16}
    BY Zenon DEF M!Unsigned
  <2>3. Word(v) = v % 2^16
    BY Zenon DEF Word
  <2> HIDE DEF Word
  <2>4. s = <<Word(v)>>
    BY <2>1, <2>2, <2>3, Zenon
  <2> QED
    BY <1>4, <2>4, Zenon
<1> QED
  BY <1>2, <1>3, <1>4

(* What is written into the word k of the values, from 0, and what is      *)
(* meant to be.                                                            *)
WordMeant(a, values, k) ==
    LET i == 1 + k \div Width(a)
        low == k % Width(a) = 0 IN
    CASE Area(a.number)[1] = "coil" -> IF values[i] # 0 THEN 1 ELSE 0
      [] a.prefix = "D" -> IF low THEN Word(values[i]) ELSE values[i] \div 2^16
      [] a.prefix = "F" -> RealBits[values[i]][IF low THEN 1 ELSE 2]
      [] OTHER -> Word(values[i])

(* The words of values, one behind the other. *)
LEMMA OneByOneIs ==
    ASSUME NEW N \in Nat, NEW s, s = [i \in 1 .. N |-> s[i]], NEW n \in 1 .. 2
    PROVE  /\ Len(M!OneByOne(s, n)) = N * n
           /\ \A k \in 0 .. N * n - 1 : M!OneByOne(s, n)[k + 1] = s[1 + k \div n][1 + (k % n)]
<1>1. Len(s) = N
  BY LengthIs, Zenon
<1> DEFINE f == M!OneByOne(s, n)
<1>2. f = [k \in 1 .. N * n |-> s[1 + (k - 1) \div n][1 + ((k - 1) % n)]]
  BY <1>1, Zenon DEF M!OneByOne
<1>3. n \in Int /\ (n = 1 \/ n = 2)
  OBVIOUS
<1>4. N * n \in Nat
  BY <1>3
<1>5. Len(f) = N * n
  <2>1. f = [k \in 1 .. N * n |-> f[k]]
    BY <1>2, Zenon
  <2> HIDE DEF f
  <2> QED
    BY <1>4, <2>1, LengthIs
<1>6. ASSUME NEW k \in 0 .. N * n - 1 PROVE f[k + 1] = s[1 + k \div n][1 + (k % n)]
  <2>1. k + 1 \in 1 .. N * n /\ (k + 1) - 1 = k
    BY <1>4
  <2> HIDE DEF f
  <2> QED
    BY <1>2, <2>1, Zenon
<1> QED
  BY <1>5, <1>6, Zenon

(* The write functions, and how many values go into a request. *)
LEMMA WriteFunctionIs ==
    ASSUME NEW a, ModbusAddressOK(a), NEW count \in Nat, count >= 1
    PROVE  LET fn == M!WriteFunction(a, count)
               number == M!Clamped(fn, M!Entry(a).type, count) IN
           \/ fn = None
           \/ /\ Served(a, "coil", "READ_COILS", "BYTE", "none") /\ M!Coils(a)
              /\ fn = (IF count > 1 THEN "WRITE_MULTIPLE_COILS" ELSE "WRITE_SINGLE_COILS")
              /\ number \in 1 .. count
           \/ /\ \/ Served(a, "register", "READ_HOLDING_REGISTER", "INT", "none")
                 \/ Served(a, "register", "READ_HOLDING_REGISTER", "DINT", "D")
                 \/ Served(a, "register", "READ_HOLDING_REGISTER", "REAL", "F")
              /\ ~ M!Coils(a) /\ fn # "WRITE_MULTIPLE_COILS"
              /\ (count > 1 \/ Width(a) > 1) => fn = "WRITE_MULTIPLE_REGISTER"
              /\ number \in 1 .. count
              /\ M!Client!DataSize(M!Entry(a).type) \div 2 = Width(a)
<1> DEFINE e == M!Entry(a)
           fn == M!WriteFunction(a, count)
           number == M!Clamped(fn, e.type, count)
           w == Width(a)
<1>1. /\ "READ_COILS" # "READ_INPUTS" /\ "READ_COILS" # "READ_INPUT_REGISTER"
      /\ "READ_HOLDING_REGISTER" # "READ_COILS"
      /\ "READ_HOLDING_REGISTER" # "READ_INPUTS" /\ "READ_HOLDING_REGISTER" # "READ_INPUT_REGISTER"
      /\ "D" # "none" /\ "F" # "none"
      /\ "WRITE_MULTIPLE_COILS" # "WRITE_SINGLE_COILS" /\ "WRITE_MULTIPLE_COILS" # "WRITE_MULTIPLE_REGISTER"
      /\ "WRITE_MULTIPLE_COILS" # "WRITE_SINGLE_REGISTER" /\ "WRITE_MULTIPLE_REGISTER" # "WRITE_SINGLE_REGISTER"
      /\ "WRITE_MULTIPLE_REGISTER" # "WRITE_SINGLE_COILS"
  OBVIOUS
<1>2. ASSUME NEW m \in Nat, m >= 1 PROVE M!Client!Smaller(count, m) \in 1 .. count
  BY <1>2, SMT DEF M!Client!Smaller
<1>3. 1 \in 1 .. count
  BY SMT
<1>4. CASE Served(a, "input", "READ_INPUTS", "BYTE", "none") \/ Served(a, "input_register", "READ_INPUT_REGISTER", "UINT", "none")
  <2>1. e.read = "READ_INPUTS" \/ e.read = "READ_INPUT_REGISTER"
    BY <1>4, Zenon DEF Served
  <2>3. ~ M!Coils(a)
    BY <1>1, <2>1, Zenon DEF M!Coils
  <2> HIDE DEF e
  <2>2. fn = None
    BY <2>1, <2>3, Zenon DEF M!WriteFunction, e
  <2> QED
    BY <2>2, Zenon
<1>5. CASE Served(a, "coil", "READ_COILS", "BYTE", "none")
  <2>1. e.read = "READ_COILS"
    BY <1>5, Zenon DEF Served
  <2>2. M!Coils(a)
    BY <2>1, Zenon DEF M!Coils
  <2> HIDE DEF e
  <2>3. fn = IF count > 1 THEN "WRITE_MULTIPLE_COILS" ELSE "WRITE_SINGLE_COILS"
    BY <1>1, <2>1, <2>2, Zenon DEF M!WriteFunction, e
  <2> HIDE DEF fn
  <2>4. number \in 1 .. count
    <3>1. CASE count > 1
      <4>1. fn = "WRITE_MULTIPLE_COILS"
        BY <2>3, <3>1
      <4>2. number = M!Client!Smaller(count, MaxWriteCoils)
        BY <4>1, Zenon DEF M!Clamped
      <4>3. MaxWriteCoils \in Nat /\ MaxWriteCoils >= 1
        BY TagAssumption
      <4> QED
        BY <1>2, <4>2, <4>3
    <3>2. CASE ~ count > 1
      <4>1. fn = "WRITE_SINGLE_COILS"
        BY <2>3, <3>2
      <4>2. number = 1
        BY <1>1, <4>1, Zenon DEF M!Clamped
      <4> QED
        BY <1>3, <4>2
    <3> QED
      BY <3>1, <3>2
  <2> QED
    BY <1>5, <2>2, <2>3, <2>4, Zenon DEF e, fn
<1>6. CASE \/ Served(a, "register", "READ_HOLDING_REGISTER", "INT", "none")
           \/ Served(a, "register", "READ_HOLDING_REGISTER", "DINT", "D")
           \/ Served(a, "register", "READ_HOLDING_REGISTER", "REAL", "F")
  <2> DEFINE size == M!Client!DataSize(e.type)
  <2>1. e.read = "READ_HOLDING_REGISTER"
    BY <1>6, Zenon DEF Served
  <2>2. ~ M!Coils(a)
    BY <1>1, <2>1, Zenon DEF M!Coils
  <2>3. e.prefix = "none" <=> a.prefix = "none"
    BY <1>1, <1>6, Zenon DEF Served
  <2>4. size \div 2 = w
    <3>1. /\ M!Client!DataSize("INT") = 2 /\ M!Client!DataSize("DINT") = 4 /\ M!Client!DataSize("REAL") = 4
      BY SMT DEF M!Client!DataSize
    <3>2. (size = 2 /\ w = 1) \/ (size = 4 /\ w = 2)
      BY <1>1, <1>6, <3>1, WidthIs, Zenon DEF Served
    <3> HIDE DEF size, w
    <3> QED
      BY <3>2, SMT
  <2>5. w = 1 \/ w = 2
    BY WidthIs, Zenon
  <2>6. w > 1 => a.prefix # "none"
    <3>1. a.prefix = "none" => w = 1
      BY WidthIs, Zenon
    <3> HIDE DEF w
    <3> QED
      BY <3>1
  <2> HIDE DEF e, w
  <2>7. fn = IF count > 1 \/ e.prefix # "none" THEN "WRITE_MULTIPLE_REGISTER" ELSE "WRITE_SINGLE_REGISTER"
    BY <1>1, <2>1, <2>2, Zenon DEF M!WriteFunction, e
  <2> HIDE DEF fn, size
  <2>8. fn # "WRITE_MULTIPLE_COILS" /\ (count > 1 \/ w > 1 => fn = "WRITE_MULTIPLE_REGISTER")
    BY <1>1, <2>3, <2>6, <2>7
  <2>9. number \in 1 .. count
    <3>1. CASE fn = "WRITE_MULTIPLE_REGISTER"
      <4>1. number = M!Client!Smaller(count, MaxWriteRegisters \div w)
        BY <1>1, <2>4, <3>1, Zenon DEF M!Clamped, size
      <4>2. MaxWriteRegisters \in Nat /\ MaxWriteRegisters >= 2
        BY TagAssumption
      <4>3. MaxWriteRegisters \div w \in Nat /\ MaxWriteRegisters \div w >= 1
        <5>1. CASE w = 1
          BY <4>2, <5>1, SMT
        <5>2. CASE w = 2
          BY <4>2, <5>2, SMT
        <5> QED
          BY <2>5, <5>1, <5>2
      <4> QED
        BY <1>2, <4>1, <4>3
    <3>2. CASE fn = "WRITE_SINGLE_REGISTER"
      <4>1. number = 1
        BY <1>1, <3>2, Zenon DEF M!Clamped
      <4> QED
        BY <1>3, <4>1
    <3> QED
      BY <2>7, <3>1, <3>2
  <2> QED
    BY <1>6, <2>2, <2>4, <2>8, <2>9, Zenon DEF e, fn, w, size
<1> QED
  BY <1>4, <1>5, <1>6, ServedIs, Zenon

(* The word of a register in a request. *)
LEMMA RegisterWordIs ==
    ASSUME NEW c, ModbusOK(c), c.value # None, NEW k \in Nat,
           NEW i \in 1 .. Len(c.value), i = 1 + k \div Width(c.address), c.value[i] >= 0,
           \/ Served(c.address, "register", "READ_HOLDING_REGISTER", "INT", "none")
           \/ Served(c.address, "register", "READ_HOLDING_REGISTER", "DINT", "D")
           \/ Served(c.address, "register", "READ_HOLDING_REGISTER", "REAL", "F"),
           NEW s \in M!Sent(M!Entry(c.address).type, c.value[i])
    PROVE  s[1 + (k % Width(c.address))] = WordMeant(c.address, c.value, k)
<1> DEFINE a == c.address
           v == c.value[i]
           w == Width(a)
           low == k % w = 0
           tp == M!Entry(a).type
<1>1. v \in Int /\ v \div 2^16 < 2^15
  BY ValuesAre, SMT
<1>2. /\ tp = "DINT" => s = <<Word(v), v \div 2^16>>
      /\ tp = "REAL" => s = RealBits[v]
      /\ tp # "DINT" /\ tp # "REAL" => s = <<Word(v)>>
  BY <1>1, SentIs, Zenon
<1>3. /\ "INT" # "DINT" /\ "INT" # "REAL" /\ "DINT" # "REAL" /\ "register" # "coil"
      /\ "none" # "D" /\ "none" # "F" /\ "D" # "F"
  OBVIOUS
<1> DEFINE word == CASE Area(a.number)[1] = "coil" -> IF v # 0 THEN 1 ELSE 0
                     [] a.prefix = "D" -> IF low THEN Word(v) ELSE v \div 2^16
                     [] a.prefix = "F" -> RealBits[v][IF low THEN 1 ELSE 2]
                     [] OTHER -> Word(v)
<1>4. WordMeant(a, c.value, k) = word
  BY Zenon DEF WordMeant
<1> HIDE DEF v, tp
<1>5. CASE Served(a, "register", "READ_HOLDING_REGISTER", "INT", "none")
  <2>1. w = 1
    BY <1>5, WidthIs, Zenon DEF Served
  <2> HIDE DEF w
  <2>2. k % w = 0
    BY <2>1
  <2>3. s = <<Word(v)>>
    BY <1>2, <1>3, <1>5, Zenon DEF Served, tp
  <2>4. word = Word(v)
    BY <1>3, <1>5, Zenon DEF Served
  <2> HIDE DEF word
  <2>5. s[1 + (k % w)] = Word(v)
    BY <2>2, <2>3
  <2> QED
    BY <1>4, <2>4, <2>5, Zenon DEF w
<1>6. CASE Served(a, "register", "READ_HOLDING_REGISTER", "DINT", "D")
  <2>1. w = 2
    BY <1>3, <1>6, WidthIs, Zenon DEF Served
  <2>2. s = <<Word(v), v \div 2^16>>
    BY <1>2, <1>3, <1>6, Zenon DEF Served, tp
  <2>3. word = IF low THEN Word(v) ELSE v \div 2^16
    BY <1>3, <1>6, Zenon DEF Served
  <2> HIDE DEF w, word
  <2>4. low \/ k % w = 1
    BY <2>1
  <2> DEFINE h == v \div 2^16
             l == Word(v)
  <2>5. s = <<l, h>> /\ word = IF low THEN l ELSE h
    BY <2>2, <2>3, Zenon
  <2> HIDE DEF h, l
  <2>6. s[1 + (k % w)] = word
    BY <2>4, <2>5
  <2> QED
    BY <1>4, <2>6, Zenon DEF w
<1>7. CASE Served(a, "register", "READ_HOLDING_REGISTER", "REAL", "F")
  <2>1. w = 2
    BY <1>3, <1>7, WidthIs, Zenon DEF Served
  <2>2. s = RealBits[v]
    BY <1>2, <1>3, <1>7, Zenon DEF Served, tp
  <2>3. word = RealBits[v][IF low THEN 1 ELSE 2]
    BY <1>3, <1>7, Zenon DEF Served
  <2> HIDE DEF w, word
  <2>4. low \/ k % w = 1
    BY <2>1
  <2>5. 1 + (k % w) = IF low THEN 1 ELSE 2
    BY <2>4
  <2>6. s[1 + (k % w)] = word
    BY <2>2, <2>3, <2>5, Zenon
  <2> QED
    BY <1>4, <2>6, Zenon DEF w
<1> QED
  BY <1>5, <1>6, <1>7

(* Values for Modbus that are written as they are. *)
ModbusWritable(c) == \A i \in DOMAIN c.value :
                        c.value[i] >= 0 /\ (Area(c.address.number)[1] = "coil" => c.value[i] < 2^16)

(* The Number of a reply to a write of several words. *)
LEMMA NumberInReply ==
    ASSUME NEW fn, NEW words, fn # "WRITE_SINGLE_COILS", fn # "WRITE_SINGLE_REGISTER"
    PROVE  M!Number(fn, words) = Len(words)
BY SMT DEF M!Number

(* The words of a request are those that are meant, of the first n values. *)
LEMMA RequestWordsAre ==
    ASSUME NEW c, ModbusOK(c), c.value # None, ModbusWritable(c),
           M!WriteFunction(c.address, Len(c.value)) # None,
           NEW words \in M!Request(c.address, c.value)
    PROVE  \E n \in 1 .. Len(c.value) :
              /\ Len(words) = n * Width(c.address)
              /\ \A k \in 0 .. n * Width(c.address) - 1 : words[k + 1] = WordMeant(c.address, c.value, k)
              /\ Len(c.value) > 1 \/ Width(c.address) > 1 =>
                    M!Number(M!WriteFunction(c.address, Len(c.value)), words) = n * Width(c.address)
<1> DEFINE a == c.address
           values == c.value
           count == Len(values)
           e == M!Entry(a)
           w == Width(a)
           fn == M!WriteFunction(a, count)
           n == M!Clamped(fn, e.type, count)
           meant(k) == WordMeant(a, values, k)
           goal == /\ n \in 1 .. count
                   /\ Len(words) = n * w
                   /\ \A k \in 0 .. n * w - 1 : words[k + 1] = meant(k)
                   /\ (count > 1 \/ w > 1) => M!Number(fn, words) = n * w
<1>1. ModbusAddressOK(a)
  BY NumbersAre, SMT
<1>2. count \in Nat /\ count >= 1 /\ DOMAIN values = 1 .. count
  BY ValuesAre, SMT
<1>3. ASSUME NEW i \in 1 .. count
      PROVE  /\ values[i] \in Int /\ values[i] \div 2^16 < 2^15 /\ values[i] >= 0
             /\ Area(a.number)[1] = "coil" => values[i] < 2^16
  <2>1. values[i] \in Int /\ values[i] \div 2^16 < 2^15
    BY ValuesAre, SMT
  <2>2. values[i] >= 0 /\ (Area(a.number)[1] = "coil" => values[i] < 2^16)
    BY <1>2, Zenon DEF ModbusWritable
  <2> QED
    BY <2>1, <2>2, Zenon
<1> DEFINE each == {[i \in 1 .. n |-> f[values[i]]] :
                       f \in [M!ToSet(values) -> UNION {M!Sent(e.type, v) : v \in M!ToSet(values)}]}
           right == {s \in each : \A i \in 1 .. n : s[i] \in M!Sent(e.type, values[i])}
           size == M!Client!DataSize(e.type) \div 2
<1>4. M!Request(a, values) =
          IF fn = "WRITE_MULTIPLE_COILS"
          THEN {[i \in 1 .. n |-> IF values[i] # 0 THEN 1 ELSE 0]}
          ELSE IF M!Coils(a) THEN {<<IF s[1][1] # 0 THEN 1 ELSE 0>> : s \in right}
               ELSE {M!OneByOne(s, size) : s \in right}
  BY Zenon DEF M!Request
<1>5. ASSUME NEW s \in right
      PROVE  s = [i \in 1 .. n |-> s[i]] /\ \A i \in 1 .. n : s[i] \in M!Sent(e.type, values[i])
  <2>1. s \in each /\ \A i \in 1 .. n : s[i] \in M!Sent(e.type, values[i])
    BY Zenon
  <2>2. PICK f \in [M!ToSet(values) -> UNION {M!Sent(e.type, v) : v \in M!ToSet(values)}] :
            s = [i \in 1 .. n |-> f[values[i]]]
    BY <2>1, Zenon
  <2> HIDE DEF n, right, each
  <2>3. s = [i \in 1 .. n |-> s[i]]
    BY <2>2, Zenon
  <2> QED
    BY <2>1, <2>3, Zenon
<1> HIDE DEF right, size
<1>6. ASSUME /\ Served(a, "coil", "READ_COILS", "BYTE", "none") /\ M!Coils(a)
             /\ fn = (IF count > 1 THEN "WRITE_MULTIPLE_COILS" ELSE "WRITE_SINGLE_COILS")
             /\ n \in 1 .. count
      PROVE  goal
  <2>1. w = 1 /\ Area(a.number)[1] = "coil" /\ e.type = "BYTE"
    BY <1>6, WidthIs, Zenon DEF Served
  <2>2. ASSUME NEW k \in 0 .. n - 1 PROVE meant(k) = IF values[k + 1] # 0 THEN 1 ELSE 0
    <3>1. meant(k) = IF values[1 + k \div w] # 0 THEN 1 ELSE 0
      <4>1. a.prefix # "D" /\ a.prefix # "F"
        <5>1. a.prefix = "none" /\ "none" # "D" /\ "none" # "F"
          BY <1>6, SMT DEF Served
        <5> QED
          BY <5>1, Zenon
      <4> QED
        BY <2>1, <4>1, Zenon DEF WordMeant
    <3>2. 1 + k \div w = k + 1
      <4>1. k \in Int
        BY <1>6
      <4> HIDE DEF w, n
      <4> QED
        BY <2>1, <4>1, SMT
    <3> QED
      BY <3>1, <3>2, Zenon
  <2>3. CASE count > 1
    <3>1. fn = "WRITE_MULTIPLE_COILS"
      BY <1>6, <2>3, Zenon
    <3>2. words = [i \in 1 .. n |-> IF values[i] # 0 THEN 1 ELSE 0]
      <4> HIDE DEF fn, n
      <4> QED
        BY <1>4, <3>1, Zenon DEF fn, n
    <3>3. M!Number(fn, words) = Len(words)
      <4>1. "WRITE_MULTIPLE_COILS" # "WRITE_SINGLE_COILS" /\ "WRITE_MULTIPLE_COILS" # "WRITE_SINGLE_REGISTER"
        OBVIOUS
      <4> QED
        BY <3>1, <4>1, NumberInReply, Zenon
    <3> HIDE DEF n, w, fn, meant
    <3>4. n \in Nat
      BY <1>2, <1>6
    <3>5. Len(words) = n
      <4>1. words = [i \in 1 .. n |-> words[i]]
        BY <3>2, Zenon
      <4> QED
        BY <3>4, <4>1, LengthIs
    <3>6. ASSUME NEW k \in 0 .. n - 1 PROVE words[k + 1] = meant(k)
      <4>1. k + 1 \in 1 .. n
        BY <3>4
      <4> QED
        BY <2>2, <3>2, <4>1, Zenon
    <3>7. n * w = n
      BY <2>1, <3>4
    <3> QED
      BY <1>6, <3>3, <3>5, <3>6, <3>7, Zenon DEF fn, n, w, meant
  <2>4. CASE ~ count > 1
    <3>1. fn = "WRITE_SINGLE_COILS" /\ fn # "WRITE_MULTIPLE_COILS"
      BY <1>6, <2>4
    <3>2. count = 1 /\ n = 1
      <4> HIDE DEF n, count
      <4> QED
        BY <1>2, <1>6, <2>4
    <3> HIDE DEF fn, n
    <3>3. PICK s \in right : words = <<IF s[1][1] # 0 THEN 1 ELSE 0>>
      BY <1>4, <1>6, <3>1, Zenon DEF n
    <3>4. 1 \in 1 .. n /\ 1 \in 1 .. count
      BY <3>2
    <3>5. s[1] \in M!Sent(e.type, values[1])
      BY <1>5, <3>4, Zenon DEF n
    <3> DEFINE v == values[1]
    <3>6. v \in Int /\ v >= 0 /\ v \div 2^16 < 2^15 /\ v < 2^16
      BY <1>3, <2>1, <3>4, Zenon
    <3> HIDE DEF v
    <3>7. s[1] = <<Word(v)>>
      <4>1. "BYTE" # "DINT" /\ "BYTE" # "REAL"
        OBVIOUS
      <4> QED
        BY <2>1, <3>5, <3>6, <4>1, SentIs, Zenon DEF v
    <3>8. Word(v) = v
      <4>1. v \in WordRange
        BY <3>6, SMT DEF WordRange
      <4> QED
        BY <3>6, <4>1, WordIs
    <3>9. words = <<IF v # 0 THEN 1 ELSE 0>>
      <4>1. s[1][1] = v
        BY <3>7, <3>8
      <4> QED
        BY <3>3, <4>1, Zenon
    <3>10. Len(words) = 1 /\ words[1] = IF v # 0 THEN 1 ELSE 0
      BY <3>9
    <3>11. meant(0) = IF v # 0 THEN 1 ELSE 0
      <4>1. 0 \in 0 .. n - 1 /\ 0 + 1 = 1
        BY <3>2
      <4> QED
        BY <2>2, <4>1, Zenon DEF v, n
    <3> HIDE DEF meant, w, count
    <3>12. ASSUME NEW k \in 0 .. n * w - 1 PROVE words[k + 1] = meant(k)
      <4>1. k = 0 /\ k + 1 = 1
        BY <2>1, <3>2
      <4> QED
        BY <3>10, <3>11, <4>1, Zenon
    <3>14. n * w = 1 /\ Len(words) = n * w /\ n \in 1 .. count
      BY <1>6, <2>1, <3>2, <3>10 DEF n, fn, count
    <3>13. n * w = 1 /\ ~ (count > 1 \/ w > 1)
      BY <2>1, <3>2
    <3> QED
      BY <3>12, <3>13, <3>14, Zenon DEF fn, n, w, meant, count
  <2> QED
    BY <2>3, <2>4
<1>7. ASSUME /\ \/ Served(a, "register", "READ_HOLDING_REGISTER", "INT", "none")
                \/ Served(a, "register", "READ_HOLDING_REGISTER", "DINT", "D")
                \/ Served(a, "register", "READ_HOLDING_REGISTER", "REAL", "F")
             /\ ~ M!Coils(a) /\ fn # "WRITE_MULTIPLE_COILS"
             /\ (count > 1 \/ w > 1) => fn = "WRITE_MULTIPLE_REGISTER"
             /\ n \in 1 .. count
             /\ size = w
      PROVE  goal
  <2>1. PICK s \in right : words = M!OneByOne(s, w)
    BY <1>4, <1>7, Zenon DEF n
  <2>2. s = [i \in 1 .. n |-> s[i]] /\ \A i \in 1 .. n : s[i] \in M!Sent(e.type, values[i])
    BY <1>5, Zenon
  <2>3. w \in 1 .. 2 /\ (w = 1 \/ w = 2)
    <3>1. w = 1 \/ w = 2
      BY WidthIs, Zenon
    <3> HIDE DEF w
    <3> QED
      BY <3>1
  <2> HIDE DEF n, w, fn, count
  <2>4. n \in Nat
    BY <1>2, <1>7
  <2>5. Len(words) = n * w /\ \A k \in 0 .. n * w - 1 : words[k + 1] = s[1 + k \div w][1 + (k % w)]
    BY <2>1, <2>2, <2>3, <2>4, OneByOneIs, Zenon
  <2>6. ASSUME NEW k \in 0 .. n * w - 1 PROVE words[k + 1] = meant(k)
    <3>1. n * w \in Nat /\ k \in Nat /\ k < n * w
      BY <2>3, <2>4
    <3>2. 1 + k \div w \in 1 .. n
      <4>1. CASE w = 1
        BY <2>4, <3>1, <4>1, SMT
      <4>2. CASE w = 2
        BY <2>4, <3>1, <4>2, SMT
      <4> QED
        BY <2>3, <4>1, <4>2
    <3> DEFINE i == 1 + k \div w
    <3>3. i \in 1 .. n /\ i \in 1 .. count
      BY <1>2, <1>7, <3>2
    <3>4. s[i] \in M!Sent(e.type, values[i]) /\ values[i] >= 0 /\ i = 1 + k \div Width(a)
      BY <1>3, <2>2, <3>3, Zenon DEF count, n, w
    <3> HIDE DEF i
    <3>5. s[i][1 + (k % w)] = meant(k)
      BY <1>7, <3>1, <3>3, <3>4, RegisterWordIs, Zenon DEF count, w
    <3> QED
      BY <2>5, <3>5, Zenon DEF i
  <2>7. ASSUME count > 1 \/ w > 1 PROVE M!Number(fn, words) = n * w
    <3>1. fn = "WRITE_MULTIPLE_REGISTER"
      BY <1>7, <2>7, Zenon
    <3>2. "WRITE_MULTIPLE_REGISTER" # "WRITE_SINGLE_COILS" /\ "WRITE_MULTIPLE_REGISTER" # "WRITE_SINGLE_REGISTER"
      OBVIOUS
    <3>3. M!Number(fn, words) = Len(words)
      BY <3>1, <3>2, NumberInReply, Zenon
    <3> QED
      BY <2>5, <3>3, Zenon
  <2> QED
    BY <1>7, <2>5, <2>6, <2>7, Zenon DEF count, w, fn, n
<1> HIDE DEF goal
<1>8. goal
  BY <1>1, <1>2, <1>6, <1>7, WriteFunctionIs, Zenon DEF size, w
<1> QED
  BY <1>8, Zenon DEF goal

(* The table when the first n values of a command are written to it. *)
ModbusWritten(t, c, n) ==
    LET a == c.address IN
    [cell \in DOMAIN t |->
        LET i == 1 + (cell[2] - Area(a.number)[2]) \div Width(a)
            low == (cell[2] - Area(a.number)[2]) % Width(a) = 0 IN
        IF cell[1] # Area(a.number)[1] \/ i \notin 1 .. n THEN t[cell]
        ELSE CASE cell[1] = "coil" -> IF c.value[i] # 0 THEN 1 ELSE 0
               [] a.prefix = "D" -> IF low THEN Word(c.value[i]) ELSE c.value[i] \div 2^16
               [] a.prefix = "F" -> RealBits[c.value[i]][IF low THEN 1 ELSE 2]
               [] OTHER -> Word(c.value[i])]

(* The cells of a device for Modbus have numbers. *)
Numbered(t) == \A cell \in DOMAIN t : cell[2] \in Int

(* The words of n values are stored in the cells of these values.          *)
LEMMA StoredIs ==
    ASSUME NEW c, ModbusOK(c), NEW t, Numbered(t), NEW n \in Nat, NEW words,
           Len(words) = n * Width(c.address),
           \A k \in 0 .. n * Width(c.address) - 1 : words[k + 1] = WordMeant(c.address, c.value, k)
    PROVE  M!Stored(t, c.address, words) = ModbusWritten(t, c, n)
<1> DEFINE a == c.address
           x == Area(a.number)[2]
           kind == Area(a.number)[1]
           w == Width(a)
           new(cell) == LET i == 1 + (cell[2] - x) \div w
                            low == (cell[2] - x) % w = 0 IN
                        IF cell[1] # kind \/ i \notin 1 .. n THEN t[cell]
                        ELSE CASE cell[1] = "coil" -> IF c.value[i] # 0 THEN 1 ELSE 0
                               [] a.prefix = "D" -> IF low THEN Word(c.value[i]) ELSE c.value[i] \div 2^16
                               [] a.prefix = "F" -> RealBits[c.value[i]][IF low THEN 1 ELSE 2]
                               [] OTHER -> Word(c.value[i])
           sent(cell) == IF cell[1] = kind /\ cell[2] - x \in 0 .. Len(words) - 1
                         THEN words[cell[2] - x + 1] ELSE t[cell]
<1>1. ModbusAddressOK(a)
  BY NumbersAre, SMT
<1>2. M!Address(a) = x /\ M!Kind(M!Entry(a).read) = kind
  BY <1>1, ServedIs, Zenon
<1>3. x \in Int
  BY <1>1, AreaIs, SMT
<1>4. w = 1 \/ w = 2
  BY WidthIs, Zenon
<1>5. M!Stored(t, a, words) = [cell \in DOMAIN t |-> sent(cell)]
  BY <1>2, Zenon DEF M!Stored
<1>6. ModbusWritten(t, c, n) = [cell \in DOMAIN t |-> new(cell)]
  BY Zenon DEF ModbusWritten
<1>7. ASSUME NEW cell \in DOMAIN t PROVE sent(cell) = new(cell)
  <2> DEFINE d == cell[2] - x
             i == 1 + d \div w
  <2>1. cell[2] \in Int
    BY Zenon DEF Numbered
  <2>2. d \in Int
    <3> DEFINE y == cell[2]
    <3> HIDE DEF x, y
    <3> QED
      BY <1>3, <2>1, SMT DEF y
  <2>3. d \in 0 .. n * w - 1 <=> i \in 1 .. n
    <3> HIDE DEF d, w
    <3>1. CASE w = 1
      BY <2>2, <3>1, SMT
    <3>2. CASE w = 2
      BY <2>2, <3>2, SMT
    <3> QED
      BY <1>4, <3>1, <3>2
  <2>4. CASE cell[1] = kind /\ d \in 0 .. n * w - 1
    <3>1. sent(cell) = words[d + 1]
      BY <2>4, Zenon
    <3>2. words[d + 1] = WordMeant(a, c.value, d)
      BY <2>4, Zenon
    <3>3. ~ (cell[1] # kind \/ i \notin 1 .. n)
      BY <2>3, <2>4, Zenon
    <3>4. new(cell) = WordMeant(a, c.value, d)
      BY <2>4, <3>3, Zenon DEF WordMeant
    <3> HIDE DEF new, sent
    <3> QED
      BY <3>1, <3>2, <3>4, Zenon
  <2>5. CASE ~ (cell[1] = kind /\ d \in 0 .. n * w - 1)
    <3>1. sent(cell) = t[cell]
      BY <2>5, Zenon
    <3>2. cell[1] # kind \/ i \notin 1 .. n
      BY <2>3, <2>5, Zenon
    <3>3. new(cell) = t[cell]
      BY <3>2, Zenon
    <3> HIDE DEF new, sent
    <3> QED
      BY <3>1, <3>3, Zenon
  <2> QED
    BY <2>4, <2>5, Zenon
<1> HIDE DEF new, sent
<1> QED
  BY <1>5, <1>6, <1>7, Zenon

(* A write of Modbus changes no more than what cells hold. *)
LEMMA ModbusWriteKeeps ==
    ASSUME NEW t, NEW a, NEW values, NEW w \in M!Write_Ext(t, a, values)
    PROVE  DOMAIN w.table = DOMAIN t
<1> DEFINE stored(words) == M!Stored(t, a, words)
<1>1. \/ w = M!Failed(t)
      \/ \E words \in M!Request(a, values) :
            \/ w = M!Failed(stored(words))
            \/ w = [table |-> stored(words), res |-> M!Number(M!WriteFunction(a, Len(values)), words)]
  BY Zenon DEF M!Write_Ext
<1>2. ASSUME NEW words PROVE DOMAIN stored(words) = DOMAIN t
  BY Zenon DEF M!Stored
<1>3. ASSUME NEW x PROVE M!Failed(x).table = x
  BY SMT DEF M!Failed
<1>4. ASSUME NEW x, NEW y PROVE [table |-> x, res |-> y].table = x
  OBVIOUS
<1> DEFINE number(words) == M!Number(M!WriteFunction(a, Len(values)), words)
<1> HIDE DEF stored, number
<1>5. w.table = t \/ \E words : w.table = stored(words)
  BY <1>1, <1>3, SMT DEF number
<1> QED
  BY <1>2, <1>5, Zenon

(* A write of Modbus is done of the first n values, or not at all, and is  *)
(* done if it is answered with a number that is not negative.              *)
LEMMA ModbusWriteIs ==
    ASSUME NEW c, ModbusOK(c), c.value # None, ModbusWritable(c), NEW t, Numbered(t),
           NEW w \in M!Write_Ext(t, c.address, c.value)
    PROVE  \/ w.table = t /\ ~ w.res >= 0
           \/ \E n \in 1 .. Len(c.value) :
                 /\ \A k \in 0 .. n * Width(c.address) - 1 : CellOf(c.address, k) \in DOMAIN t
                 /\ w.table = ModbusWritten(t, c, n)
                 /\ w.res >= 0 /\ (Len(c.value) > 1 \/ Width(c.address) > 1) =>
                        w.res = n * Width(c.address)
<1> DEFINE a == c.address
           values == c.value
           fn == M!WriteFunction(a, Len(values))
           stored(words) == M!Stored(t, a, words)
           held(words) == M!Cells(a, M!Address(a), Len(words)) \subseteq DOMAIN t
<1>1. \/ w = M!Failed(t)
      \/ fn # None /\ \E words \in M!Request(a, values) :
            /\ held(words)
            /\ \/ w = M!Failed(stored(words))
               \/ w = [table |-> stored(words), res |-> M!Number(fn, words)]
  BY Zenon DEF M!Write_Ext
<1>2. ASSUME NEW x PROVE M!Failed(x).table = x /\ M!Failed(x).res = -1
  BY SMT DEF M!Failed
<1>3. ASSUME NEW x, NEW y PROVE [table |-> x, res |-> y].table = x /\ [table |-> x, res |-> y].res = y
  OBVIOUS
<1>4. ~ -1 >= 0
  OBVIOUS
<1>5. CASE w = M!Failed(t)
  BY <1>2, <1>4, <1>5, Zenon
<1>6. ASSUME fn # None, NEW words \in M!Request(a, values), held(words),
             \/ w = M!Failed(stored(words))
             \/ w = [table |-> stored(words), res |-> M!Number(fn, words)]
      PROVE  \E n \in 1 .. Len(values) :
                 /\ \A k \in 0 .. n * Width(a) - 1 : CellOf(a, k) \in DOMAIN t
                 /\ w.table = ModbusWritten(t, c, n)
                 /\ w.res >= 0 /\ (Len(values) > 1 \/ Width(a) > 1) => w.res = n * Width(a)
  <2>1. PICK n \in 1 .. Len(values) :
              /\ Len(words) = n * Width(a)
              /\ \A k \in 0 .. n * Width(a) - 1 : words[k + 1] = WordMeant(a, values, k)
              /\ Len(values) > 1 \/ Width(a) > 1 => M!Number(fn, words) = n * Width(a)
    BY <1>6, RequestWordsAre, Zenon
  <2>2. n \in Nat
    <3>1. Len(values) \in Nat
      BY ValuesAre, SMT
    <3> QED
      BY <3>1
  <2>3. stored(words) = ModbusWritten(t, c, n)
    BY <2>1, <2>2, StoredIs, Zenon
  <2>4. ASSUME NEW k \in 0 .. n * Width(a) - 1 PROVE CellOf(a, k) \in DOMAIN t
    <3>1. M!Address(a) = Area(a.number)[2] /\ M!Kind(M!Entry(a).read) = Area(a.number)[1]
      <4>1. ModbusAddressOK(a)
        BY NumbersAre, SMT
      <4> QED
        BY <4>1, ServedIs, Zenon
    <3>2. M!Cells(a, M!Address(a), Len(words)) =
              {<<Area(a.number)[1], Area(a.number)[2] + i>> : i \in 0 .. n * Width(a) - 1}
      BY <2>1, <3>1, Zenon DEF M!Cells
    <3> QED
      BY <1>6, <3>2, Zenon DEF CellOf
  <2> HIDE DEF stored, fn
  <2>5. w.table = stored(words) /\ (w.res = -1 \/ w.res = M!Number(fn, words))
    BY <1>2, <1>6, SMT
  <2>6. w.res >= 0 => w.res = M!Number(fn, words)
    BY <1>4, <2>5, Zenon
  <2> QED
    BY <2>1, <2>3, <2>4, <2>5, <2>6, Zenon
<1> QED
  BY <1>1, <1>5, <1>6, Zenon

(* What a mask does to a table. *)
MaskDone(t, cell, keep, set) == [t EXCEPT ![cell] = OfBits((BitsOf(t[cell]) \cap keep) \union (set \ keep))]
MaskAnswer(t, cell, keep, set, w) ==
    /\ DOMAIN w.table = DOMAIN t
    /\ \/ w.table = t /\ ~ w.res >= 0
       \/ w.table = MaskDone(t, cell, keep, set)

(* A mask changes the bits that are not kept, of one register, or nothing. *)
LEMMA ModbusMaskIs ==
    ASSUME NEW t, NEW a, NEW keep, NEW set, NEW w \in M!Mask_Write(t, a, keep, set)
    PROVE  MaskAnswer(t, <<"register", M!Address(a)>>, keep, set, w)
<1> DEFINE cell == <<"register", M!Address(a)>>
           masked == [t EXCEPT ![cell] = OfBits((BitsOf(t[cell]) \cap keep) \union (set \ keep))]
<1>1. ASSUME NEW x PROVE M!Failed(x).table = x /\ M!Failed(x).res = -1
  BY SMT DEF M!Failed
<1>2. ASSUME NEW x, NEW y PROVE [table |-> x, res |-> y].table = x
  OBVIOUS
<1>3. M!OfBits((M!BitsOf(t[cell]) \cap keep) \union (set \ keep))
          = OfBits((BitsOf(t[cell]) \cap keep) \union (set \ keep))
  <2>1. \A y, k : M!Bit(y, k) = Bit(y, k)
    BY SameOfModbus, Zenon DEF M!Bit, Bit
  <2>2. \A y : M!BitsOf(y) = BitsOf(y)
    BY <2>1, Zenon DEF M!BitsOf, BitsOf
  <2>3. \A S : M!OfBits(S) = OfBits(S)
    BY Zenon DEF M!OfBits, OfBits
  <2> QED
    BY <2>2, <2>3, Zenon
<1>4. w = M!Failed(t) \/ w = M!Failed(masked) \/ w = [table |-> masked, res |-> 1]
  BY <1>3, Zenon DEF M!Mask_Write
<1>5. DOMAIN masked = DOMAIN t
  BY Zenon
<1>6. ~ -1 >= 0
  OBVIOUS
<1> HIDE DEF masked
<1>7. w.table = masked \/ (w.table = t /\ ~ w.res >= 0)
  BY <1>1, <1>4, <1>6, SMT
<1> QED
  BY <1>5, <1>7, Zenon DEF masked, MaskAnswer, MaskDone

-----------------------------------------------------------------------------
(***************************************************************************)
(* Tags of a Logix.                                                        *)
(***************************************************************************)

(* What the tags of a Logix may hold. *)
TagsHeld(d, t) ==
    /\ DOMAIN t = DOMAIN d.cells
    /\ \A a \in DOMAIN t : d.types[a[1].name] = "BOOL" => t[a] \in {0, 1}

(* The coding of Logix has the same numbers. *)
LEMMA SameOfLogix ==
    /\ \A v : L!Float(v) = Float(v)
    /\ \A v : L!Signed(v) = Signed(v) /\ L!Word(v) = Word(v)
<1>1. ASSUME NEW v PROVE L!Float(v) = Float(v)
  BY Zenon DEF L!Float, Float, L!Nearest, Nearest, L!Step, Step
<1>2. ASSUME NEW v PROVE L!Signed(v) = Signed(v) /\ L!Word(v) = Word(v)
  BY Zenon DEF L!Signed, Signed, L!Word, Word
<1> QED
  BY <1>1, <1>2, Zenon

(* The tag that a path leads to begins with the name of the address, even  *)
(* where an index is too big.                                              *)
LEMMA TagBegins ==
    ASSUME NEW a, TagAddressOK(a)
    PROVE  L!Tag(L!IOI(a))[1].name = a[1].name
<1> DEFINE p == L!IOI(a)
<1>1. 1 \in DOMAIN a
  BY DEF TagAddressOK
<1>2. DOMAIN p = DOMAIN a /\ p[1] = IF a[1].name = "[]" THEN L!AddSegmentValue(a[1].index) ELSE L!Symbol(a[1].name)
  BY <1>1, Zenon DEF L!IOI
<1> HIDE DEF p
<1>3. L!Tag(p)[1] = L!Segment(p[1])
  BY <1>1, <1>2, Zenon DEF L!Tag
<1>4. CASE a[1].name = "[]"
  <2>1. p[1].name = "[]"
    BY <1>2, <1>4, SMT DEF L!AddSegmentValue
  <2>2. L!Segment(p[1]).name = "[]"
    <3> DEFINE i == CASE p[1].bytes[1] = 40 -> p[1].bytes[2]
                      [] p[1].bytes[1] \in {41, 42} -> L!OfBytes(p[1].bytes[3], p[1].bytes[4])
    <3>1. L!Segment(p[1]) = L!Index(i)
      BY <2>1, Zenon DEF L!Segment
    <3> HIDE DEF i
    <3>2. L!Index(i).name = "[]"
      BY SMT DEF L!Index
    <3> QED
      BY <3>1, <3>2, Zenon
  <2> QED
    BY <1>3, <1>4, <2>2, Zenon DEF p
<1>5. CASE a[1].name # "[]"
  <2>1. p[1].name = a[1].name
    BY <1>2, <1>5, SMT DEF L!Symbol
  <2>2. L!Segment(p[1]) = L!Member(a[1].name)
    BY <1>5, <2>1, Zenon DEF L!Segment
  <2>3. L!Member(a[1].name).name = a[1].name
    BY SMT DEF L!Member
  <2> QED
    BY <1>3, <2>2, <2>3, Zenon DEF p
<1> QED
  BY <1>4, <1>5

(* Of a read, the type is the one of the tag, and the value what is sent.  *)
LEMMA LgxReadIs ==
    ASSUME NEW t, NEW ty, NEW a, NEW r \in L!ReadLgxData(t, ty, a), r # None
    PROVE  /\ r.type = ty[a[1].name]
           /\ L!Tag(L!IOI(a)) \in DOMAIN t
           /\ r.value \in L!Sent(r.type, t[L!Tag(L!IOI(a))])
<1> DEFINE tag == L!Tag(L!IOI(a))
           type1 == ty[a[1].name]
<1>1. L!ReadLgxData(t, ty, a) =
          {None} \union (IF tag \in DOMAIN t THEN {L!DecodeLGX(type1, v) : v \in L!Sent(type1, t[tag])} ELSE {})
  BY Zenon DEF L!ReadLgxData
<1> HIDE DEF tag, type1
<1>2. tag \in DOMAIN t /\ \E v \in L!Sent(type1, t[tag]) : r = L!DecodeLGX(type1, v)
  BY <1>1, Zenon
<1>3. PICK v \in L!Sent(type1, t[tag]) : r = L!DecodeLGX(type1, v)
  BY <1>2
<1>4. L!DecodeLGX(type1, v) = None \/ L!DecodeLGX(type1, v) = [type |-> type1, value |-> v]
  BY Zenon DEF L!DecodeLGX
<1>5. r = [type |-> type1, value |-> v]
  BY <1>3, <1>4, Zenon
<1>6. r.type = type1 /\ r.value = v
  BY <1>5
<1> QED
  BY <1>2, <1>6, Zenon DEF tag, type1

(* What readtag prints of a tag that is no array of bits. *)
LgxValue(r) == IF r.type = "BOOL" THEN IF L!LGXValueAsFloat(r) # 0 THEN 1 ELSE 0 ELSE L!LGXValueAsFloat(r)

(* Floats of small integers. *)
LEMMA SmallFloats == Float(0) = 0 /\ Float(1) = 1 /\ Float(255) # 0
BY SMT DEF Float

(* A read of a Logix gives the tag its address stands for. *)
LEMMA LgxReadMeans ==
    ASSUME NEW d, NEW t, TagsHeld(d, t), NEW a, TagAddressOK(a), \A i \in DOMAIN a : a[i].index < 2^16,
           NEW r \in L!ReadLgxData(t, d.types, a), r # None
    PROVE  a \in DOMAIN t /\ LgxValue(r) = Float(t[a])
<1>1. L!Tag(L!IOI(a)) = a
  BY PathLeadsBack, Zenon
<1>2. /\ r.type = d.types[a[1].name] /\ a \in DOMAIN t /\ r.value \in L!Sent(r.type, t[a])
  <2> DEFINE tag == L!Tag(L!IOI(a))
  <2>1. r.type = d.types[a[1].name] /\ tag \in DOMAIN t /\ r.value \in L!Sent(r.type, t[tag])
    BY LgxReadIs, SMT
  <2> HIDE DEF tag
  <2> QED
    BY <1>1, <2>1, Zenon DEF tag
<1>3. L!LGXValueAsFloat(r) = Float(r.value)
  BY SameOfLogix, Zenon DEF L!LGXValueAsFloat
<1>4. CASE r.type = "BOOL"
  <2>1. t[a] = 0 \/ t[a] = 1
    BY <1>2, <1>4, Zenon DEF TagsHeld
  <2>2. CASE t[a] = 0
    <3>1. L!Sent(r.type, t[a]) = {t[a]}
      BY <2>2 DEF L!Sent
    <3>2. r.value = 0
      BY <1>2, <2>2, <3>1, Zenon
    <3> QED
      BY <1>2, <1>3, <1>4, <2>2, <3>2, SmallFloats, Zenon DEF LgxValue
  <2>3. CASE t[a] = 1
    <3>1. L!Sent(r.type, t[a]) = {1, 255}
      BY <1>4, <2>3, Zenon DEF L!Sent
    <3>2. r.value = 1 \/ r.value = 255
      BY <1>2, <3>1, Zenon
    <3>3. Float(r.value) # 0
      BY <3>2, SmallFloats, SMT
    <3> QED
      BY <1>2, <1>3, <1>4, <2>3, <3>3, SmallFloats, Zenon DEF LgxValue
  <2> QED
    BY <2>1, <2>2, <2>3
<1>5. CASE r.type # "BOOL"
  <2>1. L!Sent(r.type, t[a]) = {t[a]}
    BY <1>5, Zenon DEF L!Sent
  <2>2. r.value = t[a]
    BY <1>2, <2>1, Zenon
  <2> QED
    BY <1>2, <1>3, <1>5, <2>2, Zenon DEF LgxValue
<1> QED
  BY <1>4, <1>5

(* What readtag sends to a tag. *)
LgxSent(ty, v) == IF ty = "BOOL" /\ v # 0 THEN 1 ELSE v

LgxWrote(t, ty, tag, name, found, v, w) ==
    \/ w.table = t /\ ~ w.res > 0
    \/ tag \in DOMAIN t /\ ty[name] = found /\ w.table = [t EXCEPT ![tag] = L!Cut(found, v)]

(* A write to a Logix is done in the tag that the path leads to, cut to    *)
(* its type, or not at all, and is done if it is answered.                 *)
LEMMA LgxWriteIs ==
    ASSUME NEW t, NEW ty, NEW a, NEW found, NEW v, NEW w \in L!WriteLgxData(t, ty, a, found, v)
    PROVE  LgxWrote(t, ty, L!Tag(L!IOI(a)), a[1].name, found, v, w)
<1> DEFINE tag == L!Tag(L!IOI(a))
           takes == tag \in DOMAIN t /\ ty[a[1].name] = found
           new == [t EXCEPT ![tag] = L!Cut(found, v)]
           done == IF takes THEN new ELSE t
           reply == L!ReplyNumber("CIP_DATA_WRITE")
           sure == IF takes THEN {[table |-> done, res |-> reply]} ELSE {}
<1>1. L!WriteLgxData(t, ty, a, found, v) = {[table |-> t, res |-> -1], [table |-> done, res |-> -1]} \union sure
  BY Zenon DEF L!WriteLgxData
<1> HIDE DEF new
<1>2. CASE takes
  <2>1. done = new
    BY <1>2
  <2> HIDE DEF done, reply
  <2>2. sure = {[table |-> done, res |-> reply]}
    BY <1>2, Zenon
  <2> HIDE DEF sure
  <2>3. w = [table |-> t, res |-> -1] \/ w = [table |-> done, res |-> -1] \/ w = [table |-> done, res |-> reply]
    BY <1>1, <2>2, Zenon DEF done
  <2>4. (w.table = t /\ w.res = -1) \/ w.table = done
    BY <2>3
  <2>5. ~ -1 > 0
    OBVIOUS
  <2> QED
    BY <1>2, <2>1, <2>4, <2>5, Zenon DEF new, LgxWrote
<1>3. CASE ~ takes
  <2>1. done = t /\ sure = {}
    BY <1>3, Zenon
  <2> HIDE DEF done, sure
  <2>2. w = [table |-> t, res |-> -1]
    BY <1>1, <2>1, Zenon
  <2>3. w.table = t /\ ~ w.res > 0
    BY <2>2
  <2> QED
    BY <2>3, Zenon DEF LgxWrote
<1> QED
  BY <1>2, <1>3

(* A write to a Logix leaves in its tags what they may hold. *)
LEMMA LgxWriteKeeps ==
    ASSUME NEW d, NEW t, TagsHeld(d, t), NEW a, TagAddressOK(a), NEW found, NEW v,
           NEW w \in L!WriteLgxData(t, d.types, a, found, LgxSent(found, v))
    PROVE  TagsHeld(d, w.table)
<1> DEFINE tag == L!Tag(L!IOI(a))
           x == L!Cut(found, LgxSent(found, v))
           new == [t EXCEPT ![tag] = x]
<1>1. CASE w.table = t
  BY <1>1, Zenon
<1>2. CASE tag \in DOMAIN t /\ d.types[a[1].name] = found /\ w.table = new
  <2>1. tag[1].name = a[1].name
    BY TagBegins, Zenon
  <2>2. found = "BOOL" => x \in {0, 1}
    <3>1. found = "BOOL" => x = LgxSent(found, v)
      <4>1. "BOOL" # "SINT" /\ "BOOL" # "INT" /\ "BOOL" # "DINT" /\ "BOOL" # "REAL"
        OBVIOUS
      <4> QED
        BY <4>1, Zenon DEF L!Cut
    <3> QED
      BY <3>1, Zenon DEF LgxSent
  <2>3. DOMAIN new = DOMAIN d.cells
    BY Zenon DEF TagsHeld
  <2> HIDE DEF x, tag
  <2>4. ASSUME NEW b \in DOMAIN t, d.types[b[1].name] = "BOOL" PROVE new[b] \in {0, 1}
    <3>1. CASE b = tag
      <4>1. new[b] = x
        BY <1>2, <3>1, Zenon
      <4> QED
        BY <1>2, <2>1, <2>2, <2>4, <3>1, <4>1, Zenon
    <3>2. CASE b # tag
      <4>1. new[b] = t[b]
        BY <3>2, Zenon
      <4> QED
        BY <2>4, <4>1, Zenon DEF TagsHeld
    <3> QED
      BY <3>1, <3>2
  <2>5. DOMAIN new = DOMAIN t
    BY Zenon
  <2> HIDE DEF new
  <2>6. TagsHeld(d, new)
    BY <2>3, <2>4, <2>5, Zenon DEF TagsHeld
  <2> QED
    BY <1>2, <2>6, Zenon
<1>3. \/ w.table = t
      \/ tag \in DOMAIN t /\ d.types[a[1].name] = found /\ w.table = new
  <2>1. LgxWrote(t, d.types, L!Tag(L!IOI(a)), a[1].name, found, LgxSent(found, v), w)
    BY LgxWriteIs, Zenon
  <2> QED
    BY <2>1, Zenon DEF LgxWrote
<1> HIDE DEF new, x, tag
<1> QED
  BY <1>1, <1>2, <1>3, Zenon

(* A value that its tag can hold is written as it is, where it is meant,   *)
(* What a write over Logix does to a table. *)
LgxStored(t, a, v, w) ==
    \/ w.table = t /\ ~ w.res > 0
    \/ a \in DOMAIN t /\ w.table = [t EXCEPT ![a] = v]

(* or not at all, and is written if it is answered.                        *)
LEMMA LgxWriteMeans ==
    ASSUME NEW t, NEW ty, NEW a, TagAddressOK(a), \A i \in DOMAIN a : a[i].index < 2^16,
           NEW found, NEW v, v = L!Cut(ty[a[1].name], v),
           NEW w \in L!WriteLgxData(t, ty, a, found, LgxSent(found, v))
    PROVE  LgxStored(t, a, LgxSent(ty[a[1].name], v), w)
<1>1. L!Tag(L!IOI(a)) = a
  BY PathLeadsBack, Zenon
<1>2. \/ w.table = t /\ ~ w.res > 0
      \/ a \in DOMAIN t /\ ty[a[1].name] = found /\ w.table = [t EXCEPT ![a] = L!Cut(found, LgxSent(found, v))]
  <2>1. LgxWrote(t, ty, a, a[1].name, found, LgxSent(found, v), w)
    BY <1>1, LgxWriteIs, Zenon
  <2> QED
    BY <2>1, Zenon DEF LgxWrote
<1>3. ASSUME ty[a[1].name] = found PROVE L!Cut(found, LgxSent(found, v)) = LgxSent(found, v)
  <2>1. CASE found = "BOOL"
    <3>1. "BOOL" # "SINT" /\ "BOOL" # "INT" /\ "BOOL" # "DINT" /\ "BOOL" # "REAL"
      OBVIOUS
    <3> QED
      BY <2>1, <3>1, Zenon DEF L!Cut
  <2>2. CASE found # "BOOL"
    <3>1. LgxSent(found, v) = v
      BY <2>2, Zenon DEF LgxSent
    <3> QED
      BY <1>3, <3>1, Zenon
  <2> QED
    BY <2>1, <2>2
<1> QED
  BY <1>2, <1>3, Zenon DEF LgxStored

-----------------------------------------------------------------------------
(***************************************************************************)
(* The calls of a command.                                                 *)
(***************************************************************************)
S0 == <<>>
S1 == <<"read">>
S2 == <<"connect", "read">>
S3 == <<"write", "read">>
S4 == <<"read", "write", "read">>
S5 == <<"connect", "read", "write", "read">>
S6 == <<"write">>
S7 == <<"mask">>

(* Before the write or the mask of a command. *)
Undone == {S3, S4, S5, S6, S7}

(* The first call of each, and what is left after it. *)
LEMMA EndsAre ==
    /\ Head(S1) = "read" /\ Tail(S1) = S0
    /\ Head(S2) = "connect" /\ Tail(S2) = S1
    /\ Head(S3) = "write" /\ Tail(S3) = S1
    /\ Head(S4) = "read" /\ Tail(S4) = S3
    /\ Head(S5) = "connect" /\ Tail(S5) = S4
    /\ Head(S6) = "write" /\ Tail(S6) = S0
    /\ Head(S7) = "mask" /\ Tail(S7) = S0
BY SMT DEF S0, S1, S2, S3, S4, S5, S6, S7

(* How many calls each has. *)
LEMMA LengthsAre ==
    /\ Len(S0) = 0 /\ Len(S1) = 1 /\ Len(S2) = 2 /\ Len(S3) = 2
    /\ Len(S4) = 3 /\ Len(S5) = 4 /\ Len(S6) = 1 /\ Len(S7) = 1
BY SMT DEF S0, S1, S2, S3, S4, S5, S6, S7

(* Which calls come before a write, and which do not. *)
LEMMA UndoneIs ==
    /\ S0 # S1 /\ S0 # S2 /\ S0 # S3 /\ S0 # S4 /\ S0 # S5 /\ S0 # S6 /\ S0 # S7
    /\ S0 \notin Undone /\ S1 \notin Undone /\ S2 \notin Undone
    /\ S3 \in Undone /\ S4 \in Undone /\ S5 \in Undone /\ S6 \in Undone /\ S7 \in Undone
    /\ S1 # S3 /\ S4 # S3
<1>1. /\ 0 # 1 /\ 0 # 2 /\ 0 # 3 /\ 0 # 4 /\ 1 # 2 /\ 1 # 3 /\ 1 # 4 /\ 2 # 3 /\ 2 # 4 /\ 3 # 4
      /\ "read" # "write" /\ "read" # "mask" /\ "connect" # "write"
  OBVIOUS
<1>2. S0 # S1 /\ S0 # S2 /\ S0 # S3 /\ S0 # S4 /\ S0 # S5 /\ S0 # S6 /\ S0 # S7
  BY <1>1, LengthsAre, Zenon
<1>3. S1 # S3 /\ S1 # S4 /\ S1 # S5 /\ S2 # S4 /\ S2 # S5 /\ S2 # S6 /\ S2 # S7 /\ S4 # S3
  BY <1>1, LengthsAre, Zenon
<1>4. S1 # S6 /\ S1 # S7 /\ S2 # S3
  BY <1>1, EndsAre, Zenon
<1> QED
  BY <1>2, <1>3, <1>4, Zenon DEF Undone

ByReadtag == client \in {"PLC", "LGX"}

(* What may be left of the calls of a command. *)
Rest(c) == IF ByReadtag THEN IF c.value = None THEN {S0, S1, S2} ELSE {S0, S1, S3, S4, S5}
           ELSE {S0, Calls(c)}

(* The calls of a command, by client. *)
LEMMA CallsAre ==
    ASSUME NEW c
    PROVE  /\ ByReadtag /\ c.value = None => Calls(c) = S2
           /\ ByReadtag /\ c.value # None => Calls(c) = S5
           /\ ~ ByReadtag /\ client = "MB" /\ c.keep # None => Calls(c) = S7
           /\ ~ ByReadtag /\ ~ (client = "MB" /\ c.keep # None) /\ c.value = None => Calls(c) = S1
           /\ ~ ByReadtag /\ ~ (client = "MB" /\ c.keep # None) /\ c.value # None => Calls(c) = S6
BY Zenon DEF ByReadtag, Calls, S1, S2, S5, S6, S7

-----------------------------------------------------------------------------
(***************************************************************************)
(* The inductive invariant, in parts.                                      *)
(***************************************************************************)

Commanded == cmd \in Devices[client].commands

ControlInv ==
    /\ client \in DOMAIN Devices
    /\ \/ cmd = None /\ todo = S0 /\ exit = "none"
       \/ Commanded /\ todo \in Rest(cmd)
    /\ todo # S0 => exit = "none"
    /\ todo \in Undone => table = before
    /\ client \in {"DF1", "MB"} /\ todo # S0 => response = None

(* A write by readtag or the clients has not begun, or been done, or not   *)
(* at all: and then the command does not end well unless it is refused.    *)
FileWritten(t, a, v) ==
    LET w == t[Place(a)] IN
    [t EXCEPT ![Place(a)] = IF BitMeant(a) # None
                            THEN w + ((IF v # 0 THEN 1 ELSE 0) - Bit(w, BitMeant(a))) * 2^BitMeant(a)
                            ELSE IF a.letter = "F" THEN v ELSE Word(v)]
NotDone == table = before /\ (exit # "error" => refused)
WordSized(v) == v \in -(2^15) .. 2^15 - 1

PlcReads ==
    LET a == cmd.address IN
    exit = "ok" /\ response # None /\ a.sub # "LEN" /\ (BitMeant(a) # None => table[Place(a)] < 2^15) =>
        Place(a) \in DOMAIN table /\ response = FileMeaning(table, a)
PlcWrites ==
    LET a == cmd.address IN
    (/\ cmd # None /\ cmd.value # None /\ todo \notin Undone
     /\ a.sub # "LEN" /\ BitMeant(a) = None /\ (a.letter = "F" \/ WordSized(cmd.value))) =>
        \/ NotDone
        \/ Place(a) \in DOMAIN before /\ table = FileWritten(before, a, cmd.value)
PlcInv ==
    /\ FilesHeld(Devices["PLC"], table)
    /\ todo = S3 => type \in {4, 8}
    /\ PlcReads /\ PlcWrites

Df1Reads ==
    LET a == cmd.address IN
    exit = "ok" /\ response # None /\ Df1Plain(a) =>
        Place(a) \in DOMAIN table /\ response = FileMeaning(table, a)
Df1Writes ==
    LET a == cmd.address IN
    (/\ cmd # None /\ cmd.value # None /\ todo \notin Undone
     /\ Df1Plain(a) /\ (a.letter = "F" \/ WordSized(cmd.value))) =>
        \/ NotDone
        \/ Place(a) \in DOMAIN before /\ table = FileWritten(before, a, cmd.value)
Df1Inv == FilesHeld(Devices["DF1"], table) /\ Df1Reads /\ Df1Writes

Small(a) == \A i \in DOMAIN a : a[i].index < 2^16
LgxTypes == Devices["LGX"].types
LgxReads ==
    LET a == cmd.address IN
    exit = "ok" /\ response # None /\ Small(a) => a \in DOMAIN table /\ response = Float(table[a])
LgxWrites ==
    LET a == cmd.address IN
    (/\ cmd # None /\ cmd.value # None /\ todo \notin Undone
     /\ Small(a) /\ cmd.value = L!Cut(LgxTypes[a[1].name], cmd.value)) =>
        \/ NotDone
        \/ a \in DOMAIN before /\ table = [before EXCEPT ![a] = LgxSent(LgxTypes[a[1].name], cmd.value)]
LgxInv ==
    /\ TagsHeld(Devices["LGX"], table)
    /\ response # None => LgxTypes[cmd.address[1].name] # "BITARRAY"
    /\ LgxReads /\ LgxWrites

Several(c) == Len(c.value) > 1 \/ Width(c.address) > 1
MbReads ==
    exit = "ok" /\ response # None /\ cmd.value = None /\ cmd.keep = None
      /\ (cmd.as = "real" \/ cmd.address.prefix # "F") /\ Positive(table, cmd) =>
        /\ \A k \in 0 .. cmd.number * Width(cmd.address) - 1 : CellOf(cmd.address, k) \in DOMAIN table
        /\ response = ModbusRounded(cmd, ModbusMeaning(table, cmd))
MbWrites ==
    cmd # None /\ cmd.value # None /\ todo \notin Undone /\ ModbusWritable(cmd) =>
        \/ NotDone
        \/ \E n \in 1 .. Len(cmd.value) :
              /\ \A k \in 0 .. n * Width(cmd.address) - 1 : CellOf(cmd.address, k) \in DOMAIN before
              /\ table = ModbusWritten(before, cmd, n)
              /\ exit # "error" /\ Several(cmd) => response = n * Width(cmd.address)
Masked == MaskDone(before, CellOf(cmd.address, 0), cmd.keep, cmd.set)
OfRegister(a) == a.number > 400000
MbMasks ==
    cmd # None /\ cmd.keep # None /\ todo \notin Undone /\ OfRegister(cmd.address) =>
        table = Masked \/ (table = before /\ exit # "ok")
MbInv == Numbered(table) /\ MbReads /\ MbWrites /\ MbMasks

TagInv ==
    /\ ControlInv
    /\ client = "PLC" => PlcInv
    /\ client = "DF1" => Df1Inv
    /\ client = "LGX" => LgxInv
    /\ client = "MB" => MbInv

-----------------------------------------------------------------------------
(***************************************************************************)
(* The devices and commands, and the calls of a command.                   *)
(***************************************************************************)

(* What the assumption says of the client and the command of a state.      *)
LEMMA DevicesAre ==
    ASSUME client \in DOMAIN Devices
    PROVE  /\ client \in {"PLC", "DF1", "LGX", "MB"}
           /\ client = "PLC" =>
                 /\ FilesOK(Devices["PLC"])
                 /\ \A c \in Devices["PLC"].commands : FileAddressOK(Devices["PLC"], c.address) /\ ValueOK(c.value)
           /\ client = "DF1" =>
                 /\ FilesOK(Devices["DF1"])
                 /\ \A c \in Devices["DF1"].commands : FileAddressOK(Devices["DF1"], c.address) /\ ValueOK(c.value)
           /\ client = "LGX" =>
                 /\ TagsOK(Devices["LGX"])
                 /\ \A c \in Devices["LGX"].commands : TagAddressOK(c.address) /\ ValueOK(c.value)
           /\ client = "MB" =>
                 /\ DOMAIN Devices["MB"].cells
                       \subseteq {"coil", "input", "input_register", "register"} \X WordRange
                 /\ \A c \in Devices["MB"].commands : ModbusOK(c)
<1>1. client \in {"PLC", "DF1", "LGX", "MB"}
  BY TagAssumption
<1>2. /\ client = "PLC" => client \in (DOMAIN Devices) \intersect {"PLC", "DF1"}
      /\ client = "DF1" => client \in (DOMAIN Devices) \intersect {"PLC", "DF1"}
  OBVIOUS
<1> QED
  BY <1>1, <1>2, TagAssumption, Zenon

(* What is left of the calls tells the first of them, and the command.     *)
LEMMA TodoIs ==
    ASSUME ControlInv, todo # <<>>
    PROVE  /\ Commanded /\ exit = "none"
           /\ Tail(todo) \in Rest(cmd)
           /\ Head(todo) = "connect" => (todo = S2 \/ todo = S5) /\ ByReadtag
           /\ Head(todo) = "read" =>
                 \/ todo = S1
                 \/ todo = S4 /\ ByReadtag
           /\ Head(todo) = "read" /\ ~ ByReadtag => todo = S1 /\ cmd.value = None /\ (client = "MB" => cmd.keep = None)
           /\ Head(todo) = "write" =>
                 \/ todo = S3 /\ ByReadtag
                 \/ todo = S6 /\ ~ ByReadtag /\ (client = "MB" => cmd.keep = None)
           /\ Head(todo) = "write" => cmd.value # None
           /\ Head(todo) = "mask" => todo = S7 /\ client = "MB" /\ cmd.keep # None
<1>1. Commanded /\ exit = "none" /\ todo \in Rest(cmd) /\ todo # S0
  BY Zenon DEF ControlInv, S0
<1>2. /\ "connect" # "read" /\ "connect" # "write" /\ "connect" # "mask"
      /\ "read" # "write" /\ "read" # "mask" /\ "write" # "mask"
  OBVIOUS
<1>3. CASE ByReadtag /\ cmd.value = None
  <2>1. todo = S1 \/ todo = S2
    BY <1>1, <1>3, Zenon DEF Rest
  <2>2. Rest(cmd) = {S0, S1, S2}
    BY <1>3, Zenon DEF Rest
  <2> QED
    BY <1>1, <1>2, <1>3, <2>1, <2>2, EndsAre, Zenon
<1>4. CASE ByReadtag /\ cmd.value # None
  <2>1. todo = S1 \/ todo = S3 \/ todo = S4 \/ todo = S5
    BY <1>1, <1>4, Zenon DEF Rest
  <2>2. Rest(cmd) = {S0, S1, S3, S4, S5}
    BY <1>4, Zenon DEF Rest
  <2> QED
    BY <1>1, <1>2, <1>4, <2>1, <2>2, EndsAre, Zenon
<1>5. CASE ~ ByReadtag
  <2>1. todo = Calls(cmd) /\ Rest(cmd) = {S0, Calls(cmd)}
    BY <1>1, <1>5, Zenon DEF Rest
  <2>2. \/ todo = S7 /\ client = "MB" /\ cmd.keep # None
        \/ todo = S1 /\ ~ (client = "MB" /\ cmd.keep # None) /\ cmd.value = None
        \/ todo = S6 /\ ~ (client = "MB" /\ cmd.keep # None) /\ cmd.value # None
    BY <1>5, <2>1, CallsAre, Zenon
  <2> QED
    BY <1>1, <1>2, <1>5, <2>1, <2>2, EndsAre, Zenon
<1> QED
  BY <1>3, <1>4, <1>5, Zenon

(* A call that goes on or ends the command keeps the control, if the table *)
(* is kept before the write.                                               *)
LEMMA GoingOn ==
    ASSUME ControlInv, todo # <<>>,
           client' = client, before' = before, cmd' = cmd,
           \/ todo' = Tail(todo) /\ exit' = (IF Tail(todo) = <<>> THEN "ok" ELSE exit)
           \/ todo' = <<>> /\ exit' = "error",
           Head(todo) \notin {"write", "mask"} => table' = table
    PROVE  ControlInv'
<1>1. /\ Commanded /\ exit = "none" /\ Tail(todo) \in Rest(cmd)
      /\ client \in DOMAIN Devices /\ todo \in Rest(cmd) /\ todo # S0
  BY TodoIs, Zenon DEF ControlInv, S0
<1>2. S0 \in Rest(cmd)
  BY Zenon DEF Rest
<1>3. todo' \in Rest(cmd)
  BY <1>1, <1>2, Zenon DEF S0
<1>4. (client \in DOMAIN Devices)' /\ Commanded' /\ (todo \in Rest(cmd))'
  <2>1. Rest(cmd)' = Rest(cmd)
    BY Zenon DEF Rest, Calls, ByReadtag
  <2> QED
    BY <1>1, <1>3, <2>1, Zenon DEF Commanded
<1>5. (todo # S0 => exit = "none")'
  BY <1>1, Zenon DEF S0
<1>6. (todo \in Undone => table = before)'
  <2>1. SUFFICES ASSUME todo' \in Undone PROVE table' = before'
    BY Zenon
  <2>2. todo' = Tail(todo)
    BY <2>1, UndoneIs, Zenon DEF S0
  <2>3. Tail(S1) \notin Undone /\ Tail(S2) \notin Undone /\ Tail(S3) \notin Undone
        /\ Tail(S6) \notin Undone /\ Tail(S7) \notin Undone
    BY EndsAre, UndoneIs, Zenon
  <2>4. todo = S4 \/ todo = S5
    <3>1. todo \in {S1, S2, S3, S4, S5, S6, S7}
      BY <1>1, CallsAre, Zenon DEF Rest
    <3> QED
      BY <2>1, <2>2, <2>3, <3>1, Zenon
  <2>5. Head(todo) \notin {"write", "mask"}
    BY <2>4, EndsAre
  <2>6. todo \in Undone
    BY <2>4, UndoneIs, Zenon
  <2> QED
    BY <2>5, <2>6, Zenon DEF ControlInv
<1>7. (client \in {"DF1", "MB"} /\ todo # S0 => response = None)'
  <2>1. SUFFICES ASSUME client \in {"DF1", "MB"} PROVE todo' = S0
    BY Zenon
  <2>2. ~ ByReadtag
    BY <2>1 DEF ByReadtag
  <2>3. todo = Calls(cmd)
    BY <1>1, <2>2, Zenon DEF Rest
  <2>4. todo \in {S1, S6, S7}
    BY <2>2, <2>3, CallsAre, Zenon
  <2>5. Tail(todo) = S0
    BY <2>4, EndsAre, Zenon
  <2> QED
    BY <2>5, Zenon DEF S0
<1> QED
  BY <1>4, <1>5, <1>6, <1>7, Zenon DEF ControlInv

-----------------------------------------------------------------------------
(***************************************************************************)
(* readtag on a PLC-5 or SLC.                                              *)
(***************************************************************************)

(* A call that fails without having been made leaves everything.           *)
LEMMA FailsKeeps ==
    ASSUME NEW what, what \in {"connect", "read"}, Does(what), ControlInv
    PROVE  /\ Fails => ControlInv'
           /\ \A v : Prints(v) => ControlInv'
           /\ (Goes /\ table' = table) => ControlInv'
<1>1. /\ todo # <<>> /\ client' = client /\ before' = before /\ cmd' = cmd
      /\ Head(todo) = what
  BY Zenon DEF Does
<1>2. Head(todo) \notin {"write", "mask"}
  BY <1>1
<1>3. Fails => todo' = <<>> /\ exit' = "error"
  BY Zenon DEF Fails, Ends
<1>4. Goes => todo' = Tail(todo) /\ exit' = (IF Tail(todo) = <<>> THEN "ok" ELSE exit)
  BY Zenon DEF Goes
<1>5. (Fails => table' = table) /\ (\A v : Prints(v) => Goes /\ table' = table)
  BY Zenon DEF Fails, Prints
<1> QED
  BY <1>1, <1>2, <1>3, <1>4, <1>5, GoingOn, Zenon

(* A write or a mask, done or not, keeps the control. *)
LEMMA WritesGoOn ==
    ASSUME NEW what, Does(what), ControlInv, Goes \/ Ends("error"), what \in {"write", "mask"}
    PROVE  ControlInv'
<1>1. /\ todo # <<>> /\ client' = client /\ before' = before /\ cmd' = cmd
      /\ Head(todo) = what
  BY Zenon DEF Does
<1>2. Goes => todo' = Tail(todo) /\ exit' = (IF Tail(todo) = <<>> THEN "ok" ELSE exit)
  BY Zenon DEF Goes
<1>3. Ends("error") => todo' = <<>> /\ exit' = "error"
  BY Zenon DEF Ends
<1> QED
  BY <1>1, <1>2, <1>3, GoingOn, Zenon

(* The strings of exit. *)
LEMMA ExitsAre == "ok" # "error" /\ "ok" # "none" /\ "none" # "error"
OBVIOUS

(* A call that changes no cell and does not end well keeps the invariant.  *)
LEMMA PlcStays ==
    ASSUME PlcInv, cmd' = cmd, table' = table, before' = before,
           todo' = S3 => type' \in {4, 8},
           exit' # "ok",
           todo' \in Undone \/ NotDone' \/ (todo \notin Undone /\ exit = "none" /\ refused' = refused)
    PROVE  PlcInv'
<1>1. FilesHeld(Devices["PLC"], table)'
  BY Zenon DEF PlcInv
<1>2. PlcReads'
  BY Zenon DEF PlcReads
<1>3. PlcWrites'
  <2> DEFINE a == cmd.address
  <2>1. SUFFICES ASSUME cmd # None, cmd.value # None, todo' \notin Undone,
                        a.sub # "LEN", BitMeant(a) = None, (a.letter = "F" \/ WordSized(cmd.value))
                 PROVE  NotDone' \/ (Place(a) \in DOMAIN before /\ table = FileWritten(before, a, cmd.value))
    BY Zenon DEF PlcWrites
  <2>2. CASE NotDone'
    BY <2>2, Zenon
  <2>3. CASE todo \notin Undone /\ exit = "none" /\ refused' = refused
    <3>1. NotDone \/ (Place(a) \in DOMAIN before /\ table = FileWritten(before, a, cmd.value))
      BY <2>1, <2>3, Zenon DEF PlcInv, PlcWrites
    <3>2. NotDone => NotDone'
      BY <2>3, ExitsAre, Zenon DEF NotDone
    <3> QED
      BY <3>1, <3>2, Zenon
  <2> QED
    BY <2>1, <2>2, <2>3, Zenon
<1> QED
  BY <1>1, <1>2, <1>3, Zenon DEF PlcInv

(* Connect for a PLC-5 or SLC keeps the invariant. *)
LEMMA PlcConnect ==
    ASSUME ControlInv, PlcInv, client = "PLC", Connect
    PROVE  ControlInv' /\ PlcInv'
<1>1. /\ Does("connect") /\ todo # <<>> /\ Head(todo) = "connect"
      /\ cmd' = cmd /\ before' = before
  BY Zenon DEF Connect, Does
<1>2. Fails \/ (Goes /\ UNCHANGED <<table, type, response, refused>>)
  BY Zenon DEF Connect
<1>3. ControlInv'
  <2>1. UNCHANGED <<table, type, response, refused>> => table' = table
    OBVIOUS
  <2> QED
    BY <1>1, <1>2, <2>1, FailsKeeps, Zenon
<1>4. exit = "none" /\ (todo = S2 \/ todo = S5)
  BY <1>1, TodoIs, Zenon
<1>5. PlcInv'
  <2>1. table' = table /\ refused' = refused
    BY <1>2 DEF Fails
  <2>2. CASE Fails
    <3>1. todo' = S0 /\ exit' = "error"
      BY <2>2, Zenon DEF Fails, Ends, S0
    <3>2. todo \in Undone => table = before
      BY Zenon DEF ControlInv
    <3>3. todo \in Undone => NotDone'
      BY <1>1, <2>1, <3>1, <3>2, Zenon DEF NotDone
    <3> QED
      BY <1>1, <1>4, <2>1, <3>1, <3>3, PlcStays, ExitsAre, UndoneIs, Zenon
  <2>3. CASE Goes
    <3>1. todo' = S1 \/ todo' = S4
      BY <1>4, <2>3, EndsAre, Zenon DEF Goes
    <3>2. Tail(todo) # <<>>
      BY <1>4, EndsAre, UndoneIs, Zenon DEF S0
    <3>3. exit' = "none"
      BY <1>4, <2>3, <3>2, Zenon DEF Goes
    <3>4. todo' \in Undone \/ todo \notin Undone
      BY <1>4, <2>3, EndsAre, UndoneIs, Zenon DEF Goes
    <3> QED
      BY <1>1, <1>4, <2>1, <3>1, <3>3, <3>4, PlcStays, ExitsAre, UndoneIs, Zenon
  <2> QED
    BY <1>2, <2>2, <2>3, Zenon
<1> QED
  BY <1>3, <1>5, Zenon

(* ReadPLC keeps the invariant. *)
LEMMA PlcReadStep ==
    ASSUME ControlInv, PlcInv, ReadPLC
    PROVE  ControlInv' /\ PlcInv'
<1>1. /\ client = "PLC" /\ Does("read") /\ todo # <<>> /\ Head(todo) = "read"
      /\ cmd' = cmd /\ before' = before
  BY Zenon DEF ReadPLC, Does
<1> DEFINE a == cmd.address
           d == Devices["PLC"]
<1>2. /\ exit = "none" /\ Commanded
      /\ todo = S1 \/ todo = S4
  BY <1>1, TodoIs, Zenon
<1>3. FilesOK(d) /\ FileAddressOK(d, a)
  BY <1>1, <1>2, DevicesAre, Zenon DEF ControlInv, Commanded
<1>4. FilesHeld(d, table) /\ types = d.types
  BY <1>1, Zenon DEF PlcInv, types
<1>5. PICK r \in P!ReadPLCData(table, types, transport, P!LogicalBinaryAddress(a)) :
         IF r = None \/ (r # None /\ r.type \notin {P!PLC_INTEGER, P!PLC_FLOATING}) THEN Fails
         ELSE /\ type' = r.type
              /\ \E v \in IF r.type = P!PLC_INTEGER THEN P!ValueAsBoolean(r) ELSE {P!ValueAsFloat(r)} : Prints(v)
  BY Zenon DEF ReadPLC
<1>6. CASE Fails
  <2>1. todo' = S0 /\ exit' = "error" /\ table' = table /\ refused' = refused
    BY <1>6 DEF Fails, Ends, S0
  <2>2. todo \in Undone => table = before
    BY Zenon DEF ControlInv
  <2>3. todo \in Undone => NotDone'
    BY <1>1, <2>1, <2>2, Zenon DEF NotDone
  <2>4. PlcInv'
    BY <1>1, <1>2, <2>1, <2>3, PlcStays, ExitsAre, UndoneIs, Zenon
  <2> QED
    BY <1>1, <1>6, <2>4, FailsKeeps, Zenon
<1>7. CASE ~ Fails
  <2>1. r # None /\ r.type \in {P!PLC_INTEGER, P!PLC_FLOATING}
    BY <1>5, <1>7, Zenon
  <2>2. r.type = 4 \/ r.type = 8
    BY <2>1 DEF P!PLC_INTEGER, P!PLC_FLOATING
  <2>3. type' = r.type /\ \E v \in PlcValue(r) : Prints(v)
    BY <1>5, <1>7, Zenon DEF PlcValue
  <2>4. PICK v \in PlcValue(r) : Prints(v)
    BY <2>3, Zenon
  <2>5. response' = v /\ table' = table /\ refused' = refused /\ todo' = Tail(todo)
    BY <2>4 DEF Prints, Goes
  <2>6. FilesHeld(d, table)'
    BY <1>4, <2>5, Zenon
  <2>7. PlcReads'
    <3>1. SUFFICES ASSUME response' # None, a.sub # "LEN", BitMeant(a) # None => table[Place(a)] < 2^15
                   PROVE  (Place(a) \in DOMAIN table /\ response' = FileMeaning(table, a))
      BY <1>1, <2>5, Zenon DEF PlcReads
    <3>2. r \in P!ReadPLCData(table, d.types, transport, P!LogicalBinaryAddress(a))
      BY <1>4, Zenon
    <3>3. r # None /\ v # None /\ response' = v
      BY <2>1, <2>5, <3>1, Zenon
    <3> HIDE DEF a, d
    <3>4. Place(a) \in DOMAIN table /\ v = FileMeaning(table, a)
      BY <1>3, <1>4, <2>2, <3>1, <3>2, <3>3, PlcReadMeans, Zenon
    <3> QED
      BY <3>3, <3>4, Zenon
  <2>8. PlcWrites'
    <3>1. CASE todo = S4
      <4>1. todo' \in Undone
        BY <2>5, <3>1, EndsAre, UndoneIs, Zenon
      <4> QED
        BY <4>1, Zenon DEF PlcWrites
    <3>2. CASE todo = S1
      <4>1. SUFFICES ASSUME cmd # None, cmd.value # None,
                            a.sub # "LEN", BitMeant(a) = None, (a.letter = "F" \/ WordSized(cmd.value))
                     PROVE  NotDone' \/ (Place(a) \in DOMAIN before /\ table = FileWritten(before, a, cmd.value))
        BY <1>1, <2>5, Zenon DEF PlcWrites
      <4>2. NotDone \/ (Place(a) \in DOMAIN before /\ table = FileWritten(before, a, cmd.value))
        BY <3>2, <4>1, UndoneIs, Zenon DEF PlcInv, PlcWrites
      <4>3. NotDone => NotDone'
        BY <1>1, <1>2, <2>5, ExitsAre, Zenon DEF NotDone
      <4> QED
        BY <4>2, <4>3, Zenon
    <3> QED
      BY <1>2, <3>1, <3>2, Zenon
  <2>9. (todo = S3 => type \in {4, 8})'
    BY <2>2, <2>3
  <2>10. ControlInv'
    BY <1>1, <2>4, FailsKeeps, Zenon
  <2> QED
    BY <2>6, <2>7, <2>8, <2>9, <2>10, Zenon DEF PlcInv
<1> QED
  BY <1>6, <1>7, Zenon

(* The cell that a PLC writes is of the type that is asked for, and the one *)
(* the address stands for, unless its name is LEN.                          *)
LEMMA PlcCellWritten ==
    ASSUME NEW d, FilesOK(d), NEW a, FileAddressOK(d, a), NEW t, FilesHeld(d, t),
           PlcCell(a) \in DOMAIN t, NEW found \in {4, 8}, PlcType(d, a) = found
    PROVE  /\ d.types[a.file] = 8 <=> found = 8
           /\ a.letter = "F" <=> found = 8
           /\ a.sub # "LEN" => PlcCell(a) = Place(a)
<1> DEFINE z == IF NoLevel(a) THEN 0 ELSE Sub(a.sub)
<1>1. PlcCell(a) = <<a.file, a.element, z>>
  BY Zenon DEF PlcCell
<1>2. a.file \in DOMAIN d.types
  <2>1. <<a.file, a.element, z>> \in DOMAIN t
    BY <1>1, Zenon
  <2> HIDE DEF z
  <2> QED
    BY <2>1, CellsAre, Zenon
<1>3. /\ d.types[a.file] = 8 <=> a.letter = "F"
      /\ a.sub # None => d.types[a.file] \in 5 .. 7
  BY <1>2, LetterIs
<1>4. CASE NoLevel(a)
  <2>1. d.types[a.file] = found
    BY <1>4, Zenon DEF PlcType
  <2>2. a.sub = None
    BY <1>3, <2>1
  <2>3. a.sub # "POS"
    BY <2>2, SubsAre
  <2>4. a.sub # "LEN" => Place(a) = PlcCell(a)
    BY <2>3, PlcMeans, Zenon
  <2> QED
    BY <1>3, <2>1, <2>4
<1>5. CASE ~ NoLevel(a)
  <2>1. found = 4
    BY <1>5 DEF PlcType, P!PLC_INTEGER
  <2>2. a.sub # None /\ a.sub # "POS"
    BY <1>5, Zenon DEF NoLevel
  <2>3. d.types[a.file] # 8
    BY <1>3, <2>2
  <2>4. a.sub # "LEN" => Place(a) = PlcCell(a)
    BY <2>2, PlcMeans, Zenon
  <2> QED
    BY <1>3, <2>1, <2>3, <2>4
<1> QED
  BY <1>4, <1>5, Zenon

(* The table keeps what it may hold. *)
LEMMA HeldAfter ==
    ASSUME NEW d, NEW t, FilesHeld(d, t), NEW c \in DOMAIN t, NEW v,
           v \in IF d.types[c[1]] = P!PLC_FLOATING THEN Int ELSE WordRange
    PROVE  FilesHeld(d, [t EXCEPT ![c] = v])
<1> DEFINE u == [t EXCEPT ![c] = v]
<1>1. DOMAIN u = DOMAIN t
  BY Zenon
<1>2. ASSUME NEW x \in DOMAIN t PROVE u[x] = IF x = c THEN v ELSE t[x]
  BY Zenon
<1> HIDE DEF u
<1>3. ASSUME NEW x \in DOMAIN t PROVE u[x] \in IF d.types[x[1]] = P!PLC_FLOATING THEN Int ELSE WordRange
  BY <1>2, Zenon DEF FilesHeld
<1> QED
  BY <1>1, <1>3, Zenon DEF FilesHeld, u

(* WritePLC keeps the invariant. *)
LEMMA PlcWriteStep ==
    ASSUME ControlInv, PlcInv, WritePLC
    PROVE  ControlInv' /\ PlcInv'
<1>1. /\ client = "PLC" /\ Does("write") /\ todo # <<>> /\ Head(todo) = "write"
      /\ cmd' = cmd /\ before' = before /\ type' = type /\ response' = response
  BY DEF WritePLC, Does
<1> DEFINE a == cmd.address
           d == Devices["PLC"]
           value == IF type = P!PLC_INTEGER THEN Word(cmd.value) ELSE cmd.value
<1>2. exit = "none" /\ Commanded /\ todo = S3 /\ cmd.value # None
  <2>1. ByReadtag
    BY <1>1 DEF ByReadtag
  <2> QED
    BY <1>1, <2>1, TodoIs, Zenon
<1>3. FilesOK(d) /\ FileAddressOK(d, a) /\ cmd.value \in Int
  <2>1. FilesOK(d) /\ FileAddressOK(d, a) /\ ValueOK(cmd.value)
    BY <1>1, <1>2, DevicesAre, Zenon DEF ControlInv, Commanded
  <2> QED
    BY <1>2, <2>1, Zenon DEF ValueOK
<1>4. FilesHeld(d, table) /\ types = d.types /\ type \in {4, 8} /\ table = before
  <2>1. table = before
    BY <1>2, UndoneIs, Zenon DEF ControlInv
  <2> QED
    BY <1>1, <1>2, <2>1, Zenon DEF PlcInv, types
<1>5. PICK w \in P!WritePLCData(table, types, transport, P!LogicalBinaryAddress(cmd.address), type, value) :
          /\ table' = w.table /\ refused' = w.refused
          /\ IF w.res > -1 THEN Goes ELSE Ends("error")
  BY Zenon DEF WritePLC
<1>6. w \in P!WritePLCData(table, d.types, transport, P!LogicalBinaryAddress(a), type, value)
  BY <1>4, <1>5, Zenon
<1> HIDE DEF value
<1>7. /\ \/ w.table = table /\ (w.res > -1 => w.refused)
         \/ /\ PlcCell(a) \in DOMAIN table /\ PlcType(d, a) = type
            /\ w.table = [table EXCEPT ![PlcCell(a)] = value]
      /\ w.refused \in BOOLEAN
  <2>1. FileAddressOK(d, a)
    BY <1>3, Zenon
  <2>2. type \in {4, 8}
    BY <1>4, Zenon
  <2>3. Writes(type)
    BY <2>2, Zenon DEF Writes
  <2> HIDE DEF a, d
  <2> QED
    BY <2>1, <2>3, <1>6, PlcWriteIs, Zenon
<1>8. /\ exit' = "none" \/ exit' = "error"
      /\ exit' # "error" => w.res > -1
      /\ todo' = S1 \/ todo' = S0
  <2>1. Tail(todo) = S1 /\ Tail(todo) # <<>>
    BY <1>2, EndsAre, UndoneIs, Zenon DEF S0
  <2>2. Goes => todo' = S1 /\ exit' = "none"
    BY <1>2, <2>1, Zenon DEF Goes
  <2>3. Ends("error") => todo' = S0 /\ exit' = "error"
    BY Zenon DEF Ends, S0
  <2> QED
    BY <1>5, <2>2, <2>3, ExitsAre, Zenon
<1>9. ControlInv'
  BY <1>1, <1>5, WritesGoOn, Zenon
<1>10. PlcReads'
  BY <1>8, ExitsAre, Zenon DEF PlcReads
<1>11. (todo = S3 => type \in {4, 8})'
  BY <1>1, <1>4, Zenon
<1>12. CASE w.table = table /\ (w.res > -1 => w.refused)
  <2>1. table' = table /\ table' = before' /\ (exit' # "error" => refused')
    BY <1>1, <1>4, <1>5, <1>8, <1>12, Zenon
  <2>2. NotDone'
    BY <2>1, Zenon DEF NotDone
  <2>3. PlcWrites'
    BY <2>2, Zenon DEF PlcWrites
  <2>4. FilesHeld(d, table)'
    BY <1>4, <2>1, Zenon
  <2> QED
    BY <1>9, <1>10, <1>11, <2>3, <2>4, Zenon DEF PlcInv
<1>13. CASE /\ PlcCell(a) \in DOMAIN table /\ PlcType(d, a) = type
            /\ w.table = [table EXCEPT ![PlcCell(a)] = value]
  <2>1. /\ d.types[a.file] = 8 <=> type = 8
        /\ a.letter = "F" <=> type = 8
        /\ a.sub # "LEN" => PlcCell(a) = Place(a)
    <3> HIDE DEF a, d
    <3> QED
      BY <1>3, <1>4, <1>13, PlcCellWritten
  <2>2. value = IF a.letter = "F" THEN cmd.value ELSE Word(cmd.value)
    <3>1. 4 # 8
      OBVIOUS
    <3> QED
      BY <1>4, <2>1, <3>1, Zenon DEF value, P!PLC_INTEGER
  <2>3. PlcCell(a)[1] = a.file
    BY DEF PlcCell
  <2>4. value \in IF d.types[PlcCell(a)[1]] = P!PLC_FLOATING THEN Int ELSE WordRange
    <3>1. Word(cmd.value) \in WordRange
      BY <1>3, WordIs
    <3>2. P!PLC_FLOATING = 8
      BY DEF P!PLC_FLOATING
    <3> QED
      BY <1>3, <2>1, <2>2, <2>3, <3>1, <3>2, Zenon
  <2>5. FilesHeld(d, [table EXCEPT ![PlcCell(a)] = value])
    BY <1>4, <1>13, <2>4, HeldAfter, Zenon
  <2>6. table' = [table EXCEPT ![PlcCell(a)] = value]
    BY <1>5, <1>13, Zenon
  <2>7. FilesHeld(d, table)'
    BY <2>5, <2>6, Zenon
  <2>8. PlcWrites'
    <3>1. SUFFICES ASSUME a.sub # "LEN", BitMeant(a) = None
                   PROVE  Place(a) \in DOMAIN before /\ table' = FileWritten(before, a, cmd.value)
      BY <1>1, Zenon DEF PlcWrites
    <3>2. table' = [before EXCEPT ![Place(a)] = IF a.letter = "F" THEN cmd.value ELSE Word(cmd.value)]
      BY <1>4, <2>1, <2>2, <2>6, <3>1, Zenon
    <3>3. FileWritten(before, a, cmd.value)
             = [before EXCEPT ![Place(a)] = IF a.letter = "F" THEN cmd.value ELSE Word(cmd.value)]
      BY <3>1, Zenon DEF FileWritten
    <3> QED
      BY <1>4, <1>13, <2>1, <3>1, <3>2, <3>3, Zenon
  <2> QED
    BY <1>9, <1>10, <1>11, <2>7, <2>8, Zenon DEF PlcInv
<1> QED
  BY <1>7, <1>12, <1>13, Zenon

-----------------------------------------------------------------------------
(***************************************************************************)
(* The DF1 client.                                                         *)
(***************************************************************************)

(* ReadDF1 keeps the invariant. *)
LEMMA Df1ReadStep ==
    ASSUME ControlInv, Df1Inv, ReadDF1
    PROVE  ControlInv' /\ Df1Inv'
<1>1. /\ client = "DF1" /\ Does("read") /\ todo # <<>> /\ Head(todo) = "read"
      /\ cmd' = cmd /\ before' = before
  BY Zenon DEF ReadDF1, Does
<1> DEFINE a == cmd.address
           d == Devices["DF1"]
<1>2. exit = "none" /\ Commanded /\ todo = S1 /\ cmd.value = None
  <2>1. ~ ByReadtag
    BY <1>1 DEF ByReadtag
  <2> QED
    BY <1>1, <2>1, TodoIs, Zenon
<1>3. FilesOK(d) /\ FileAddressOK(d, a)
  BY <1>1, <1>2, DevicesAre, Zenon DEF ControlInv, Commanded
<1>4. FilesHeld(d, table)
  BY Zenon DEF Df1Inv
<1>5. PICK v \in D!ReadTag(table, a) : IF v = None THEN Fails ELSE Prints(v) /\ UNCHANGED type
  BY Zenon DEF ReadDF1
<1>6. table' = table
  BY <1>5, Zenon DEF Fails, Prints
<1>7. Df1Writes'
  BY <1>1, <1>2, Zenon DEF Df1Writes
<1>8. FilesHeld(d, table)'
  BY <1>4, <1>6, Zenon
<1>9. ControlInv'
  BY <1>1, <1>5, FailsKeeps, Zenon
<1>10. Df1Reads'
  <2>1. CASE Fails
    <3>1. exit' # "ok"
      BY <2>1, ExitsAre, Zenon DEF Fails, Ends
    <3> QED
      BY <3>1, Zenon DEF Df1Reads
  <2>2. CASE ~ Fails
    <3>1. v # None /\ Prints(v)
      BY <1>5, <2>2, Zenon
    <3>2. response' = v
      BY <3>1, Zenon DEF Prints
    <3>3. SUFFICES ASSUME Df1Plain(a)
                   PROVE  (Place(a) \in DOMAIN table /\ response' = FileMeaning(table, a))
      BY <1>1, <1>6, Zenon DEF Df1Reads
    <3> HIDE DEF a, d
    <3>4. Place(a) \in DOMAIN table /\ v = FileMeaning(table, a)
      BY <1>3, <1>5, <3>1, <3>3, Df1ReadMeans, Zenon
    <3> QED
      BY <3>2, <3>4, Zenon
  <2> QED
    BY <2>1, <2>2, Zenon
<1> QED
  BY <1>7, <1>8, <1>9, <1>10, Zenon DEF Df1Inv

(* WriteDF1 keeps the invariant. *)
LEMMA Df1WriteStep ==
    ASSUME ControlInv, Df1Inv, WriteDF1
    PROVE  ControlInv' /\ Df1Inv'
<1>1. /\ client = "DF1" /\ Does("write") /\ todo # <<>> /\ Head(todo) = "write"
      /\ cmd' = cmd /\ before' = before /\ response' = response /\ refused' = refused
  BY DEF WriteDF1, Does
<1> DEFINE a == cmd.address
           d == Devices["DF1"]
<1>2. exit = "none" /\ Commanded /\ todo = S6 /\ cmd.value # None
  <2>1. ~ ByReadtag
    BY <1>1 DEF ByReadtag
  <2> QED
    BY <1>1, <2>1, TodoIs, Zenon
<1>3. FilesOK(d) /\ FileAddressOK(d, a) /\ cmd.value \in Int
  <2>1. FilesOK(d) /\ FileAddressOK(d, a) /\ ValueOK(cmd.value)
    BY <1>1, <1>2, DevicesAre, Zenon DEF ControlInv, Commanded
  <2> QED
    BY <1>2, <2>1, Zenon DEF ValueOK
<1>4. FilesHeld(d, table) /\ table = before /\ response = None
  <2>1. table = before
    BY <1>2, UndoneIs, Zenon DEF ControlInv
  <2>2. client \in {"DF1", "MB"} /\ todo # S0
    BY <1>1, <1>2, UndoneIs, Zenon
  <2> QED
    BY <2>1, <2>2, Zenon DEF Df1Inv, ControlInv
<1>5. PICK w \in D!WriteTag(table, a, cmd.value) : table' = w.table /\ IF w.res = 0 THEN Goes ELSE Ends("error")
  BY Zenon DEF WriteDF1
<1>6. \/ w.table = table /\ w.res # 0
      \/ /\ D!WordOf(a) \in DOMAIN table
         /\ w.table = [table EXCEPT ![D!WordOf(a)] = D!Written(table[D!WordOf(a)], a, cmd.value)]
  <2>1. w \in D!WriteTag(table, a, cmd.value)
    BY <1>5
  <2>2. Df1Wrote(table, a, cmd.value, w)
    BY <2>1, Df1WriteIs
  <2> QED
    BY <2>2, Zenon DEF Df1Wrote
<1>7. ControlInv'
  BY <1>1, <1>5, WritesGoOn, Zenon
<1>8. Df1Reads'
  BY <1>1, <1>4, Zenon DEF Df1Reads
<1>9. CASE w.table = table /\ w.res # 0
  <2>1. exit' = "error" /\ table' = table
    BY <1>5, <1>9, Zenon DEF Ends
  <2>2. NotDone'
    BY <1>1, <1>4, <2>1, Zenon DEF NotDone
  <2>3. Df1Writes'
    BY <2>2, Zenon DEF Df1Writes
  <2>4. FilesHeld(d, table)'
    BY <1>4, <2>1, Zenon
  <2> QED
    BY <1>7, <1>8, <2>3, <2>4, Zenon DEF Df1Inv
<1>10. CASE /\ D!WordOf(a) \in DOMAIN table
            /\ w.table = [table EXCEPT ![D!WordOf(a)] = D!Written(table[D!WordOf(a)], a, cmd.value)]
  <2> DEFINE cell == D!WordOf(a)
             new == D!Written(table[cell], a, cmd.value)
  <2>1. table' = [table EXCEPT ![cell] = new]
    BY <1>5, <1>10, Zenon
  <2>2. /\ table[cell] \in IF D!Function(a) = "float" THEN Int ELSE WordRange
        /\ d.types[cell[1]] = 8 <=> D!Function(a) = "float"
    <3>1. FilesOK(d) /\ FilesHeld(d, table) /\ FileAddressOK(d, a) /\ D!WordOf(a) \in DOMAIN table
      BY <1>3, <1>4, <1>10, Zenon
    <3> HIDE DEF a, d
    <3> QED
      BY <3>1, Df1CellIs
  <2>3. /\ new \in IF D!Function(a) = "float" THEN Int ELSE WordRange
        /\ D!Function(a) = "integer" => new = Word(cmd.value)
        /\ D!Function(a) = "float" => new = cmd.value
        /\ D!Function(a) = "boolean" /\ table[cell] \in WordRange /\ D!CalcAddress(a).sub \in 0 .. 15 =>
              LET k == D!CalcAddress(a).sub IN
              new = table[cell] + ((IF cmd.value # 0 THEN 1 ELSE 0) - Bit(table[cell], k)) * 2^k
    <3> HIDE DEF a, d
    <3> QED
      BY <1>3, WrittenIs, Zenon
  <2> HIDE DEF new, cell
  <2>4. FilesHeld(d, table)'
    <3>1. new \in IF d.types[cell[1]] = P!PLC_FLOATING THEN Int ELSE WordRange
      BY <2>2, <2>3, Zenon DEF P!PLC_FLOATING
    <3>2. cell \in DOMAIN table
      BY <1>10, Zenon DEF cell
    <3>3. FilesHeld(d, [table EXCEPT ![cell] = new])
      BY <1>4, <3>1, <3>2, HeldAfter, Zenon
    <3> QED
      BY <2>1, <3>3, Zenon
  <2>5. Df1Writes'
    <3>1. SUFFICES ASSUME Df1Plain(a), a.letter = "F" \/ WordSized(cmd.value)
                   PROVE  Place(a) \in DOMAIN before /\ table' = FileWritten(before, a, cmd.value)
      BY <1>1, Zenon DEF Df1Writes
    <3>2. /\ D!WordOf(a) = Place(a)
          /\ D!Function(a) = "boolean" <=> BitMeant(a) # None
          /\ D!Function(a) = "float" <=> a.letter = "F"
          /\ D!Function(a) \in {"boolean", "integer", "float"}
          /\ D!Function(a) = "boolean" => /\ D!CalcAddress(a).sub = BitMeant(a)
                                          /\ BitMeant(a) \in 0 .. 15
      <4> HIDE DEF a, d
      <4> QED
        BY <1>3, <3>1, Df1Means, Zenon
    <3>3. cell = Place(a)
      BY <3>2, Zenon DEF cell
    <3>4. "boolean" # "float" /\ "integer" # "float" /\ "integer" # "boolean"
      OBVIOUS
    <3> DEFINE w0 == before[Place(a)]
               meant == IF BitMeant(a) # None
                        THEN w0 + ((IF cmd.value # 0 THEN 1 ELSE 0) - Bit(w0, BitMeant(a))) * 2^BitMeant(a)
                        ELSE IF a.letter = "F" THEN cmd.value ELSE Word(cmd.value)
    <3>5. new = meant
      <4>1. table[cell] = w0
        BY <1>4, <3>3, Zenon
      <4>2. CASE BitMeant(a) # None
        <5>1. table[cell] \in WordRange /\ D!CalcAddress(a).sub \in 0 .. 15 /\ D!CalcAddress(a).sub = BitMeant(a)
          BY <2>2, <3>2, <3>4, <4>2, Zenon
        <5>2. new = table[cell] + ((IF cmd.value # 0 THEN 1 ELSE 0) - Bit(table[cell], BitMeant(a))) * 2^BitMeant(a)
          BY <2>3, <3>2, <4>2, <5>1, Zenon
        <5> QED
          BY <4>1, <4>2, <5>2, Zenon
      <4>3. CASE BitMeant(a) = None
        BY <2>3, <3>2, <3>4, <4>3, Zenon
      <4> QED
        BY <4>2, <4>3, Zenon
    <3>6. FileWritten(before, a, cmd.value) = [before EXCEPT ![Place(a)] = meant]
      BY Zenon DEF FileWritten
    <3> HIDE DEF meant
    <3>7. table' = [before EXCEPT ![Place(a)] = meant]
      BY <1>4, <2>1, <3>3, <3>5, Zenon
    <3>8. Place(a) \in DOMAIN before
      BY <1>4, <1>10, <3>2, Zenon
    <3> QED
      BY <3>6, <3>7, <3>8, Zenon
  <2> QED
    BY <1>7, <1>8, <2>4, <2>5, Zenon DEF Df1Inv
<1> QED
  BY <1>6, <1>9, <1>10, Zenon

-----------------------------------------------------------------------------
(***************************************************************************)
(* readtag on a Logix.                                                     *)
(***************************************************************************)

(* What was written stays so, when nothing is written and the end is not   *)
(* told yet, or is not good.                                               *)
LEMMA LgxWritesStay ==
    ASSUME LgxInv, cmd' = cmd, table' = table, before' = before,
           todo' \in Undone \/ NotDone' \/ (todo \notin Undone /\ exit = "none" /\ refused' = refused)
    PROVE  LgxWrites'
<1> DEFINE a == cmd.address
           ty == LgxTypes[a[1].name]
           done == a \in DOMAIN before /\ table = [before EXCEPT ![a] = LgxSent(ty, cmd.value)]
<1>1. SUFFICES ASSUME cmd # None, cmd.value # None, todo' \notin Undone,
                      Small(a), cmd.value = L!Cut(ty, cmd.value)
               PROVE  NotDone' \/ done
  BY Zenon DEF LgxWrites, LgxTypes
<1>2. CASE NotDone'
  BY <1>2, Zenon
<1>3. CASE todo \notin Undone /\ exit = "none" /\ refused' = refused
  <2>1. NotDone \/ done
    BY <1>1, <1>3, Zenon DEF LgxInv, LgxWrites
  <2>2. NotDone => NotDone'
    BY <1>3, ExitsAre, Zenon DEF NotDone
  <2> QED
    BY <2>1, <2>2, Zenon
<1> QED
  BY <1>1, <1>2, <1>3, Zenon

(* A call that changes no cell and does not end well keeps the invariant.  *)
LEMMA LgxStays ==
    ASSUME LgxInv, cmd' = cmd, table' = table, before' = before, response' = response, exit' # "ok",
           todo' \in Undone \/ NotDone' \/ (todo \notin Undone /\ exit = "none" /\ refused' = refused)
    PROVE  LgxInv'
<1>1. TagsHeld(Devices["LGX"], table)'
  BY Zenon DEF LgxInv
<1>2. LgxReads'
  BY Zenon DEF LgxReads
<1>3. (response # None => LgxTypes[cmd.address[1].name] # "BITARRAY")'
  BY Zenon DEF LgxInv, LgxTypes
<1> QED
  BY <1>1, <1>2, <1>3, LgxWritesStay, Zenon DEF LgxInv

(* Connect for a Logix keeps the invariant. *)
LEMMA LgxConnect ==
    ASSUME ControlInv, LgxInv, client = "LGX", Connect
    PROVE  ControlInv' /\ LgxInv'
<1>1. /\ Does("connect") /\ todo # <<>> /\ Head(todo) = "connect"
      /\ cmd' = cmd /\ before' = before
  BY Zenon DEF Connect, Does
<1>2. Fails \/ (Goes /\ UNCHANGED <<table, type, response, refused>>)
  BY Zenon DEF Connect
<1>3. table' = table /\ refused' = refused /\ response' = response
  BY <1>2 DEF Fails
<1>4. ControlInv'
  BY <1>1, <1>2, <1>3, FailsKeeps, Zenon
<1>5. exit = "none" /\ (todo = S2 \/ todo = S5)
  BY <1>1, TodoIs, Zenon
<1>6. LgxInv'
  <2>1. CASE Fails
    <3>1. todo' = S0 /\ exit' = "error"
      BY <2>1, Zenon DEF Fails, Ends, S0
    <3>2. todo \in Undone => table = before
      BY Zenon DEF ControlInv
    <3>3. todo \in Undone => NotDone'
      BY <1>1, <1>3, <3>1, <3>2, Zenon DEF NotDone
    <3> QED
      BY <1>1, <1>3, <1>5, <3>1, <3>3, LgxStays, ExitsAre, Zenon
  <2>2. CASE Goes
    <3>1. Tail(todo) # <<>>
      BY <1>5, EndsAre, UndoneIs, Zenon DEF S0
    <3>2. exit' = "none"
      BY <1>5, <2>2, <3>1, Zenon DEF Goes
    <3>3. todo' \in Undone \/ todo \notin Undone
      BY <1>5, <2>2, EndsAre, UndoneIs, Zenon DEF Goes
    <3> QED
      BY <1>1, <1>3, <1>5, <3>2, <3>3, LgxStays, ExitsAre, Zenon
  <2> QED
    BY <1>2, <2>1, <2>2, Zenon
<1> QED
  BY <1>4, <1>6, Zenon

(* ReadLGX keeps the invariant. *)
LEMMA LgxReadStep ==
    ASSUME ControlInv, LgxInv, ReadLGX
    PROVE  ControlInv' /\ LgxInv'
<1>1. /\ client = "LGX" /\ Does("read") /\ todo # <<>> /\ Head(todo) = "read"
      /\ cmd' = cmd /\ before' = before
  BY Zenon DEF ReadLGX, Does
<1> DEFINE a == cmd.address
           d == Devices["LGX"]
           ty == LgxTypes[a[1].name]
<1>2. /\ exit = "none" /\ Commanded
      /\ todo = S1 \/ todo = S4
  BY <1>1, TodoIs, Zenon
<1>3. TagsOK(d) /\ TagAddressOK(a)
  BY <1>1, <1>2, DevicesAre, Zenon DEF ControlInv, Commanded
<1>4. TagsHeld(d, table) /\ types = d.types /\ d.types = LgxTypes
  BY <1>1, Zenon DEF LgxInv, types, LgxTypes
<1>5. PICK r \in L!ReadLgxData(table, types, a) :
          IF r = None THEN Fails
          ELSE /\ type' = r.type
               /\ CASE r.type = "BOOL" -> Prints(IF L!LGXValueAsFloat(r) # 0 THEN 1 ELSE 0)
                    [] r.type = "BITARRAY" -> Goes /\ UNCHANGED <<table, response, refused>>
                    [] OTHER -> Prints(L!LGXValueAsFloat(r))
  BY Zenon DEF ReadLGX
<1>6. CASE Fails
  <2>1. todo' = S0 /\ exit' = "error" /\ table' = table /\ refused' = refused /\ response' = response
    BY <1>6 DEF Fails, Ends, S0
  <2>2. todo \in Undone => table = before
    BY Zenon DEF ControlInv
  <2>3. todo \in Undone => NotDone'
    BY <1>1, <2>1, <2>2, Zenon DEF NotDone
  <2>4. LgxInv'
    BY <1>1, <1>2, <2>1, <2>3, LgxStays, ExitsAre, Zenon
  <2> QED
    BY <1>1, <1>6, <2>4, FailsKeeps, Zenon
<1>7. CASE ~ Fails
  <2>1. r # None /\ r \in L!ReadLgxData(table, d.types, a)
    BY <1>4, <1>5, <1>7, Zenon
  <2>2. r.type = ty
    <3>1. r.type = (d.types)[a[1].name]
      BY <2>1, LgxReadIs
    <3> QED
      BY <1>4, <3>1, Zenon
  <2>3. \/ ty # "BITARRAY" /\ Prints(LgxValue(r))
        \/ ty = "BITARRAY" /\ Goes /\ table' = table /\ response' = response /\ refused' = refused
    <3>1. "BOOL" # "BITARRAY"
      OBVIOUS
    <3>2. CASE r.type = "BOOL"
      BY <1>5, <1>7, <2>1, <2>2, <3>1, <3>2, Zenon DEF LgxValue
    <3>3. CASE r.type # "BOOL" /\ r.type = "BITARRAY"
      <4>1. Goes /\ UNCHANGED <<table, response, refused>>
        BY <1>5, <1>7, <2>1, <3>3, Zenon
      <4> QED
        BY <2>2, <3>3, <4>1
    <3>4. CASE r.type # "BOOL" /\ r.type # "BITARRAY"
      BY <1>5, <1>7, <2>1, <2>2, <3>4, Zenon DEF LgxValue
    <3> QED
      BY <3>2, <3>3, <3>4, Zenon
  <2>4. Goes /\ table' = table /\ refused' = refused /\ todo' = Tail(todo)
    BY <2>3 DEF Prints, Goes
  <2>5. response' # None => ty # "BITARRAY" /\ response' = LgxValue(r)
    <3>1. CASE ty = "BITARRAY"
      BY <2>3, <3>1, Zenon DEF LgxInv
    <3>2. CASE ty # "BITARRAY"
      BY <2>3, <3>2, Zenon DEF Prints
    <3> QED
      BY <3>1, <3>2, Zenon
  <2>6. TagsHeld(d, table)'
    BY <1>4, <2>4, Zenon
  <2>7. (response # None => LgxTypes[cmd.address[1].name] # "BITARRAY")'
    BY <1>1, <2>5, Zenon DEF LgxTypes
  <2>8. LgxReads'
    <3>1. SUFFICES ASSUME response' # None, Small(a)
                   PROVE  (a \in DOMAIN table /\ response' = Float(table[a]))
      BY <1>1, <2>4, Zenon DEF LgxReads
    <3>2. \A i \in DOMAIN a : a[i].index < 2^16
      BY <3>1, Zenon DEF Small
    <3> HIDE DEF a, d
    <3>3. a \in DOMAIN table /\ LgxValue(r) = Float(table[a])
      BY <1>3, <1>4, <2>1, <3>2, LgxReadMeans, Zenon
    <3> QED
      BY <2>5, <3>1, <3>3, Zenon
  <2>9. LgxWrites'
    <3>1. CASE todo = S4
      BY <1>1, <2>4, <3>1, LgxWritesStay, EndsAre, UndoneIs, Zenon
    <3>2. CASE todo = S1
      BY <1>1, <1>2, <2>4, <3>2, LgxWritesStay, UndoneIs, Zenon
    <3> QED
      BY <1>2, <3>1, <3>2, Zenon
  <2>10. ControlInv'
    BY <1>1, <2>4, FailsKeeps, Zenon
  <2> QED
    BY <2>6, <2>7, <2>8, <2>9, <2>10, Zenon DEF LgxInv
<1> QED
  BY <1>6, <1>7, Zenon

(* WriteLGX keeps the invariant. *)
LEMMA LgxWriteStep ==
    ASSUME ControlInv, LgxInv, WriteLGX
    PROVE  ControlInv' /\ LgxInv'
<1>1. /\ client = "LGX" /\ Does("write") /\ todo # <<>> /\ Head(todo) = "write"
      /\ cmd' = cmd /\ before' = before /\ response' = response
  BY DEF WriteLGX, Does
<1> DEFINE a == cmd.address
           d == Devices["LGX"]
           ty == LgxTypes[a[1].name]
<1>2. exit = "none" /\ Commanded /\ todo = S3 /\ cmd.value # None
  <2>1. ByReadtag
    BY <1>1 DEF ByReadtag
  <2> QED
    BY <1>1, <2>1, TodoIs, Zenon
<1>3. TagsOK(d) /\ TagAddressOK(a)
  BY <1>1, <1>2, DevicesAre, Zenon DEF ControlInv, Commanded
<1>4. TagsHeld(d, table) /\ types = d.types /\ d.types = LgxTypes /\ table = before
  <2>1. table = before
    BY <1>2, UndoneIs, Zenon DEF ControlInv
  <2> QED
    BY <1>1, <2>1, Zenon DEF LgxInv, types, LgxTypes
<1>5. (response # None => LgxTypes[cmd.address[1].name] # "BITARRAY")'
  BY <1>1, Zenon DEF LgxInv, LgxTypes
<1>6. Tail(todo) = S1 /\ Tail(todo) # <<>>
  BY <1>2, EndsAre, UndoneIs, Zenon DEF S0
<1>7. (Goes => exit' = "none") /\ (Ends("error") => exit' = "error")
  BY <1>2, <1>6, Zenon DEF Goes, Ends
<1>8. CASE type = "BITARRAY"
  <2>1. Goes /\ refused' = TRUE /\ table' = table
    BY <1>8, Zenon DEF WriteLGX
  <2>2. NotDone'
    BY <1>1, <1>4, <2>1, Zenon DEF NotDone
  <2>3. exit' # "ok"
    BY <1>7, <2>1, ExitsAre, Zenon
  <2> QED
    BY <1>1, <2>1, <2>2, <2>3, WritesGoOn, LgxStays, Zenon
<1>9. CASE type # "BITARRAY"
  <2>1. PICK w \in L!WriteLgxData(table, types, a, type, IF type = "BOOL" /\ cmd.value # 0 THEN 1 ELSE cmd.value) :
               /\ table' = w.table /\ refused' = FALSE
               /\ IF w.res > 0 THEN Goes ELSE Ends("error")
    BY <1>9, Zenon DEF WriteLGX
  <2>2. w \in L!WriteLgxData(table, d.types, a, type, LgxSent(type, cmd.value))
    BY <1>4, <2>1, Zenon DEF LgxSent
  <2>3. ControlInv'
    BY <1>1, <2>1, WritesGoOn, Zenon
  <2>4. exit' # "ok" /\ (exit' # "error" => w.res > 0)
    BY <1>7, <2>1, ExitsAre, Zenon
  <2>5. TagsHeld(d, table)'
    <3>1. TagsHeld(d, w.table)
      <4> HIDE DEF a, d
      <4> QED
        BY <1>3, <1>4, <2>2, LgxWriteKeeps, Zenon
    <3> QED
      BY <2>1, <3>1, Zenon
  <2>6. LgxReads'
    BY <2>4, Zenon DEF LgxReads
  <2>7. LgxWrites'
    <3>1. SUFFICES ASSUME Small(a), cmd.value = L!Cut(ty, cmd.value)
                   PROVE  NotDone' \/ (a \in DOMAIN before /\ table' = [before EXCEPT ![a] = LgxSent(ty, cmd.value)])
      BY <1>1, Zenon DEF LgxWrites, LgxTypes
    <3>2. \A i \in DOMAIN a : a[i].index < 2^16
      BY <3>1, Zenon DEF Small
    <3>3. cmd.value = L!Cut((d.types)[a[1].name], cmd.value) /\ ty = (d.types)[a[1].name]
      BY <1>4, <3>1, Zenon
    <3>4. \/ w.table = table /\ ~ w.res > 0
          \/ a \in DOMAIN table /\ w.table = [table EXCEPT ![a] = LgxSent(ty, cmd.value)]
      <4>1. TagAddressOK(a) /\ cmd.value = L!Cut((d.types)[a[1].name], cmd.value)
        BY <1>3, <3>3, Zenon
      <4>2. LgxStored(table, a, LgxSent((d.types)[a[1].name], cmd.value), w)
        <5> HIDE DEF a, d
        <5> QED
          BY <2>2, <3>2, <4>1, LgxWriteMeans, Zenon
      <4> QED
        BY <3>3, <4>2, Zenon DEF LgxStored
    <3>5. CASE w.table = table /\ ~ w.res > 0
      BY <1>1, <1>4, <2>1, <2>4, <3>5, Zenon DEF NotDone
    <3>6. CASE a \in DOMAIN table /\ w.table = [table EXCEPT ![a] = LgxSent(ty, cmd.value)]
      BY <1>4, <2>1, <3>6, Zenon
    <3> QED
      BY <3>4, <3>5, <3>6, Zenon
  <2> QED
    BY <1>5, <2>3, <2>5, <2>6, <2>7, Zenon DEF LgxInv
<1> QED
  BY <1>8, <1>9, Zenon

-----------------------------------------------------------------------------
(***************************************************************************)
(* The Modbus client.                                                      *)
(***************************************************************************)

(* ReadMB keeps the invariant. *)
LEMMA MbReadStep ==
    ASSUME ControlInv, MbInv, ReadMB
    PROVE  ControlInv' /\ MbInv'
<1>1. /\ client = "MB" /\ Does("read") /\ todo # <<>> /\ Head(todo) = "read"
      /\ cmd' = cmd /\ before' = before
  BY Zenon DEF ReadMB, Does
<1>2. exit = "none" /\ Commanded /\ todo = S1 /\ cmd.value = None /\ cmd.keep = None
  <2>1. ~ ByReadtag
    BY <1>1 DEF ByReadtag
  <2> QED
    BY <1>1, <2>1, TodoIs, Zenon
<1>3. ModbusOK(cmd)
  BY <1>1, <1>2, DevicesAre, Zenon DEF ControlInv, Commanded
<1>4. Numbered(table)
  BY Zenon DEF MbInv
<1>5. PICK v \in M!Read_Ext(table, cmd.address, cmd.number, As) : IF v = None THEN Fails ELSE Prints(v) /\ UNCHANGED type
  BY Zenon DEF ReadMB
<1>6. table' = table
  BY <1>5, Zenon DEF Fails, Prints
<1>7. MbWrites'
  BY <1>1, <1>2, Zenon DEF MbWrites
<1>8. MbMasks'
  BY <1>1, <1>2, Zenon DEF MbMasks
<1>9. Numbered(table)'
  BY <1>4, <1>6, Zenon
<1>10. ControlInv'
  BY <1>1, <1>5, FailsKeeps, Zenon
<1>11. MbReads'
  <2>1. CASE Fails
    <3>1. exit' # "ok"
      BY <2>1, ExitsAre, Zenon DEF Fails, Ends
    <3> QED
      BY <3>1, Zenon DEF MbReads
  <2>2. CASE ~ Fails
    <3>1. v # None /\ Prints(v)
      BY <1>5, <2>2, Zenon
    <3>2. response' = v
      BY <3>1, Zenon DEF Prints
    <3>3. SUFFICES ASSUME cmd.as = "real" \/ cmd.address.prefix # "F", Positive(table, cmd)
                   PROVE  /\ \A k \in 0 .. cmd.number * Width(cmd.address) - 1 : CellOf(cmd.address, k) \in DOMAIN table
                          /\ response' = ModbusRounded(cmd, ModbusMeaning(table, cmd))
      BY <1>1, <1>6, Zenon DEF MbReads
    <3>4. /\ \A k \in 0 .. cmd.number * Width(cmd.address) - 1 : CellOf(cmd.address, k) \in DOMAIN table
          /\ v = ModbusRounded(cmd, ModbusMeaning(table, cmd))
      BY <1>3, <1>5, <3>1, <3>3, ModbusReadMeans, Zenon
    <3> QED
      BY <3>2, <3>4, Zenon
  <2> QED
    BY <2>1, <2>2, Zenon
<1> QED
  BY <1>7, <1>8, <1>9, <1>10, <1>11, Zenon DEF MbInv

(* WriteMB keeps the invariant. *)
LEMMA MbWriteStep ==
    ASSUME ControlInv, MbInv, WriteMB
    PROVE  ControlInv' /\ MbInv'
<1>1. /\ client = "MB" /\ Does("write") /\ todo # <<>> /\ Head(todo) = "write"
      /\ cmd' = cmd /\ before' = before /\ refused' = refused
  BY DEF WriteMB, Does
<1>2. exit = "none" /\ Commanded /\ todo = S6 /\ cmd.value # None /\ cmd.keep = None
  <2>1. ~ ByReadtag
    BY <1>1 DEF ByReadtag
  <2> QED
    BY <1>1, <2>1, TodoIs, Zenon
<1>3. ModbusOK(cmd)
  BY <1>1, <1>2, DevicesAre, Zenon DEF ControlInv, Commanded
<1>4. Numbered(table) /\ table = before
  BY <1>2, UndoneIs, Zenon DEF MbInv, ControlInv
<1>5. PICK w \in M!Write_Ext(table, cmd.address, cmd.value) :
          /\ table' = w.table /\ response' = w.res
          /\ IF w.res >= 0 THEN Goes ELSE Ends("error")
  BY Zenon DEF WriteMB
<1>6. MbReads'
  BY <1>1, <1>2, Zenon DEF MbReads
<1>7. MbMasks'
  BY <1>1, <1>2, Zenon DEF MbMasks
<1>8. ControlInv'
  BY <1>1, <1>5, WritesGoOn, Zenon
<1>9. Numbered(table)'
  <2>1. DOMAIN w.table = DOMAIN table
    BY <1>5, ModbusWriteKeeps, Zenon
  <2> QED
    BY <1>4, <1>5, <2>1, Zenon DEF Numbered
<1>10. exit' = "error" \/ w.res >= 0
  BY <1>5, Zenon DEF Ends
<1>11. ~ w.res >= 0 => exit' = "error"
  BY <1>5, Zenon DEF Ends
<1>12. MbWrites'
  <2> DEFINE done(t, n, res) ==
                 /\ \A k \in 0 .. n * Width(cmd.address) - 1 : CellOf(cmd.address, k) \in DOMAIN before
                 /\ t = ModbusWritten(before, cmd, n)
                 /\ res >= 0 /\ Several(cmd) => res = n * Width(cmd.address)
  <2>1. SUFFICES ASSUME ModbusWritable(cmd)
                 PROVE  NotDone' \/ \E n \in 1 .. Len(cmd.value) :
                           /\ \A k \in 0 .. n * Width(cmd.address) - 1 : CellOf(cmd.address, k) \in DOMAIN before
                           /\ table' = ModbusWritten(before, cmd, n)
                           /\ exit' # "error" /\ Several(cmd) => response' = n * Width(cmd.address)
    BY <1>1, Zenon DEF MbWrites
  <2>2. \/ w.table = before /\ ~ w.res >= 0
        \/ \E n \in 1 .. Len(cmd.value) :
                 /\ \A k \in 0 .. n * Width(cmd.address) - 1 : CellOf(cmd.address, k) \in DOMAIN before
                 /\ w.table = ModbusWritten(before, cmd, n)
                 /\ w.res >= 0 /\ (Len(cmd.value) > 1 \/ Width(cmd.address) > 1) =>
                        w.res = n * Width(cmd.address)
    <3>1. w \in M!Write_Ext(before, cmd.address, cmd.value) /\ Numbered(before)
      BY <1>4, <1>5, Zenon
    <3> QED
      BY <1>2, <1>3, <2>1, <3>1, ModbusWriteIs, Zenon
  <2>3. CASE w.table = before /\ ~ w.res >= 0
    BY <1>1, <1>5, <1>11, <2>3, Zenon DEF NotDone
  <2>4. CASE \E n \in 1 .. Len(cmd.value) :
                 /\ \A k \in 0 .. n * Width(cmd.address) - 1 : CellOf(cmd.address, k) \in DOMAIN before
                 /\ w.table = ModbusWritten(before, cmd, n)
                 /\ w.res >= 0 /\ (Len(cmd.value) > 1 \/ Width(cmd.address) > 1) =>
                        w.res = n * Width(cmd.address)
    BY <1>5, <1>10, <2>4, Zenon DEF Several
  <2> QED
    BY <2>2, <2>3, <2>4, Zenon
<1> QED
  BY <1>6, <1>7, <1>8, <1>9, <1>12, Zenon DEF MbInv

(* The register of a mask. *)
LEMMA MaskedCell ==
    ASSUME NEW c, ModbusOK(c), OfRegister(c.address)
    PROVE  CellOf(c.address, 0) = <<"register", M!Address(c.address)>>
<1> DEFINE a == c.address
<1>1. ModbusAddressOK(a)
  BY SMT DEF ModbusOK
<1>2. a.number \in Int /\ a.number > 400000
  BY <1>1, SMT DEF ModbusAddressOK, OfRegister
<1>3. Area(a.number) = <<"register", a.number - 400001>>
  <2>1. ~ a.number < 100000 /\ ~ a.number < 200000 /\ ~ a.number < 400000
    BY <1>2, SMT
  <2> QED
    BY <2>1, SMT DEF Area
<1>4. Area(a.number)[1] = "register"
  BY <1>3, SMT
<1>5. Area(a.number)[2] \in Int /\ M!Address(a) = Area(a.number)[2]
  BY <1>1, AreaIs, SMT
<1>6. Area(a.number)[2] + 0 = M!Address(a)
  BY <1>5, SMT
<1> QED
  BY <1>4, <1>6, Zenon DEF CellOf

(* MaskMB keeps the invariant. *)
LEMMA MbMaskStep ==
    ASSUME ControlInv, MbInv, MaskMB
    PROVE  ControlInv' /\ MbInv'
<1>1. /\ client = "MB" /\ Does("mask") /\ todo # <<>> /\ Head(todo) = "mask"
      /\ cmd' = cmd /\ before' = before /\ response' = response
  BY DEF MaskMB, Does
<1>2. exit = "none" /\ Commanded /\ todo = S7 /\ cmd.keep # None
  BY <1>1, TodoIs, Zenon
<1>3. ModbusOK(cmd)
  BY <1>1, <1>2, DevicesAre, Zenon DEF ControlInv, Commanded
<1>4. cmd.value = None
  BY <1>2, <1>3, SMT DEF ModbusOK
<1>5. Numbered(table) /\ table = before
  BY <1>2, UndoneIs, Zenon DEF MbInv, ControlInv
<1>6. PICK w \in M!Mask_Write(table, cmd.address, cmd.keep, cmd.set) :
          table' = w.table /\ IF w.res >= 0 THEN Goes ELSE Ends("error")
  BY Zenon DEF MaskMB
<1>7. MbReads'
  BY <1>1, <1>2, Zenon DEF MbReads
<1>8. MbWrites'
  BY <1>1, <1>4, Zenon DEF MbWrites
<1>9. ControlInv'
  BY <1>1, <1>6, WritesGoOn, Zenon
<1> DEFINE cell == <<"register", M!Address(cmd.address)>>
           masked == MaskDone(before, cell, cmd.keep, cmd.set)
<1>10. /\ DOMAIN w.table = DOMAIN table
       /\ \/ w.table = before /\ ~ w.res >= 0
          \/ w.table = masked
  <2>1. w \in M!Mask_Write(table, cmd.address, cmd.keep, cmd.set)
    BY <1>6, Zenon
  <2>2. MaskAnswer(table, cell, cmd.keep, cmd.set, w)
    BY <2>1, ModbusMaskIs, Zenon
  <2> QED
    BY <1>5, <2>2, Zenon DEF MaskAnswer
<1>11. Numbered(table)'
  BY <1>5, <1>6, <1>10, Zenon DEF Numbered
<1>12. MbMasks'
  <2>1. SUFFICES ASSUME OfRegister(cmd.address)
                 PROVE  table' = Masked \/ (table' = before /\ exit' # "ok")
    <3>1. Masked' = Masked
      BY <1>1, Zenon DEF Masked
    <3> QED
      BY <1>1, <3>1, Zenon DEF MbMasks
  <2>2. CellOf(cmd.address, 0) = cell
    BY <1>3, <2>1, MaskedCell, Zenon
  <2>3. Masked = masked
    BY <2>2, Zenon DEF Masked
  <2>4. ~ w.res >= 0 => exit' # "ok"
    BY <1>6, ExitsAre, Zenon DEF Ends
  <2> HIDE DEF masked
  <2>5. table' = masked \/ (table' = before /\ exit' # "ok")
    BY <1>6, <1>10, <2>4, Zenon
  <2> QED
    BY <2>3, <2>5, SMT
<1> QED
  BY <1>7, <1>8, <1>9, <1>11, <1>12, Zenon DEF MbInv

-----------------------------------------------------------------------------
(***************************************************************************)
(* The invariant.                                                          *)
(***************************************************************************)

(* The first states have the invariant. *)
LEMMA TagInitially == TagInit => TagInv
<1> SUFFICES ASSUME TagInit PROVE TagInv
  OBVIOUS
<1>1. /\ client \in DOMAIN Devices /\ table = Devices[client].cells /\ before = table
      /\ cmd = None /\ todo = S0 /\ type = None /\ response = None /\ exit = "none"
  BY Zenon DEF TagInit, S0
<1>2. ControlInv
  BY <1>1, UndoneIs, Zenon DEF ControlInv
<1>3. S0 # S3 /\ exit # "ok"
  BY <1>1, ExitsAre, UndoneIs, Zenon
<1>4. client = "PLC" => PlcInv
  <2>1. SUFFICES ASSUME client = "PLC" PROVE PlcInv
    BY Zenon
  <2>2. FilesHeld(Devices["PLC"], table)
    BY <1>1, <2>1, DevicesAre, Zenon DEF FilesOK, FilesHeld
  <2> QED
    BY <1>1, <1>3, <2>2, Zenon DEF PlcInv, PlcReads, PlcWrites
<1>5. client = "DF1" => Df1Inv
  <2>1. SUFFICES ASSUME client = "DF1" PROVE Df1Inv
    BY Zenon
  <2>2. FilesHeld(Devices["DF1"], table)
    BY <1>1, <2>1, DevicesAre, Zenon DEF FilesOK, FilesHeld
  <2> QED
    BY <1>1, <1>3, <2>2, Zenon DEF Df1Inv, Df1Reads, Df1Writes
<1>6. client = "LGX" => LgxInv
  <2>1. SUFFICES ASSUME client = "LGX" PROVE LgxInv
    BY Zenon
  <2>2. TagsHeld(Devices["LGX"], table)
    BY <1>1, <2>1, DevicesAre, Zenon DEF TagsOK, TagsHeld
  <2> QED
    BY <1>1, <1>3, <2>2, Zenon DEF LgxInv, LgxReads, LgxWrites
<1>7. client = "MB" => MbInv
  <2>1. SUFFICES ASSUME client = "MB" PROVE MbInv
    BY Zenon
  <2>2. DOMAIN table \subseteq {"coil", "input", "input_register", "register"} \X WordRange
    BY <1>1, <2>1, DevicesAre, Zenon
  <2>3. ASSUME NEW cell \in DOMAIN table PROVE cell[2] \in Int
    <3>1. cell[2] \in WordRange
      BY <2>2
    <3>2. WordRange \subseteq Int
      BY SMT DEF WordRange
    <3> QED
      BY <3>1, <3>2, Zenon
  <2>4. Numbered(table)
    BY <2>3, Zenon DEF Numbered
  <2> QED
    BY <1>1, <1>3, <2>4, Zenon DEF MbInv, MbReads, MbWrites, MbMasks
<1> QED
  BY <1>2, <1>4, <1>5, <1>6, <1>7, Zenon DEF TagInv

(* The calls of a new command come before its write. *)
LEMMA CallsBegin ==
    ASSUME NEW c
    PROVE  /\ Calls(c) \in Rest(c)
           /\ Calls(c) # S3
           /\ (c.value # None \/ (client = "MB" /\ c.keep # None)) => Calls(c) \in Undone
<1>1. /\ 4 # 2 /\ 1 # 2 /\ "connect" # "write"
      /\ "MB" \notin {"PLC", "LGX"}
  OBVIOUS
<1>2. S2 # S3 /\ S5 # S3 /\ S7 # S3 /\ S1 # S3 /\ S6 # S3
  BY <1>1, LengthsAre, EndsAre, Zenon
<1>3. client = "MB" => ~ ByReadtag
  BY <1>1, Zenon DEF ByReadtag
<1>4. CASE ByReadtag
  BY <1>2, <1>3, <1>4, CallsAre, UndoneIs, Zenon DEF Rest
<1>5. CASE ~ ByReadtag
  BY <1>2, <1>5, CallsAre, UndoneIs, Zenon DEF Rest
<1> QED
  BY <1>4, <1>5, Zenon

(* The beginning of a command keeps the invariant. *)
LEMMA TagBegin ==
    ASSUME TagInv, BeginCommand
    PROVE  TagInv'
<1>1. PICK c \in Devices[client].commands : cmd' = c /\ todo' = Calls(c)
  BY Zenon DEF BeginCommand
<1>2. /\ client' = client /\ table' = table /\ before' = table
      /\ response' = None /\ exit' = "none"
  BY DEF BeginCommand
<1>3. /\ Calls(c) \in Rest(c)
      /\ Calls(c) # S3
      /\ (c.value # None \/ (client = "MB" /\ c.keep # None)) => Calls(c) \in Undone
  BY CallsBegin
<1>4. ControlInv'
  <2>1. Rest(c)' = Rest(c)
    BY <1>2, Zenon DEF Rest, ByReadtag, Calls
  <2>2. Rest(cmd)' = Rest(c)
    BY <1>1, <1>2, Zenon DEF Rest, ByReadtag, Calls
  <2>3. Commanded' /\ (todo \in Rest(cmd))'
    BY <1>1, <1>2, <1>3, <2>2, Zenon DEF Commanded
  <2>4. client \in DOMAIN Devices
    BY Zenon DEF TagInv, ControlInv
  <2> QED
    BY <1>2, <2>3, <2>4, Zenon DEF ControlInv
<1>5. exit' # "ok"
  BY <1>2, ExitsAre, Zenon
<1>6. client = "PLC" => PlcInv'
  BY <1>1, <1>2, <1>3, <1>5, Zenon DEF TagInv, PlcInv, PlcReads, PlcWrites
<1>7. client = "DF1" => Df1Inv'
  BY <1>1, <1>2, <1>3, <1>5, Zenon DEF TagInv, Df1Inv, Df1Reads, Df1Writes
<1>8. client = "LGX" => LgxInv'
  BY <1>1, <1>2, <1>3, <1>5, Zenon DEF TagInv, LgxInv, LgxReads, LgxWrites
<1>9. client = "MB" => MbInv'
  BY <1>1, <1>2, <1>3, <1>5, Zenon DEF TagInv, MbInv, MbReads, MbWrites, MbMasks
<1> QED
  BY <1>2, <1>4, <1>6, <1>7, <1>8, <1>9, Zenon DEF TagInv

(* A stuttering step keeps the invariant. *)
LEMMA TagStutters ==
    ASSUME TagInv, UNCHANGED tagVars
    PROVE  TagInv'
<1>1. /\ client' = client /\ table' = table /\ before' = before /\ cmd' = cmd /\ todo' = todo
      /\ type' = type /\ response' = response /\ exit' = exit /\ refused' = refused
  BY DEF tagVars
<1>2. ControlInv'
  <2>1. Rest(cmd)' = Rest(cmd)
    BY <1>1, Zenon DEF Rest, ByReadtag, Calls
  <2>2. Commanded' <=> Commanded
    BY <1>1, Zenon DEF Commanded
  <2> QED
    BY <1>1, <2>1, <2>2, Zenon DEF TagInv, ControlInv
<1>3. NotDone' <=> NotDone
  BY <1>1, Zenon DEF NotDone
<1>4. client = "PLC" => PlcInv'
  BY <1>1, <1>3, Zenon DEF TagInv, PlcInv, PlcReads, PlcWrites
<1>5. client = "DF1" => Df1Inv'
  BY <1>1, <1>3, Zenon DEF TagInv, Df1Inv, Df1Reads, Df1Writes
<1>6. client = "LGX" => LgxInv'
  BY <1>1, <1>3, Zenon DEF TagInv, LgxInv, LgxReads, LgxWrites, LgxTypes
<1>7. client = "MB" => MbInv'
  <2>1. Masked' = Masked
    BY <1>1, Zenon DEF Masked
  <2> QED
    BY <1>1, <1>3, <2>1, Zenon DEF TagInv, MbInv, MbReads, MbWrites, MbMasks
<1> QED
  BY <1>1, <1>2, <1>4, <1>5, <1>6, <1>7, Zenon DEF TagInv

(* The clients are four. *)
LEMMA ClientsDiffer ==
    /\ "PLC" # "DF1" /\ "PLC" # "LGX" /\ "PLC" # "MB"
    /\ "DF1" # "LGX" /\ "DF1" # "MB" /\ "LGX" # "MB"
OBVIOUS

(* Every step keeps the invariant. *)
LEMMA TagSteps ==
    ASSUME TagInv, TagNext
    PROVE  TagInv'
<1>1. ControlInv
  BY Zenon DEF TagInv
<1>2. CASE BeginCommand
  BY <1>2, TagBegin, Zenon
<1>3. CASE Connect
  <2>1. client' = client /\ todo # <<>> /\ Head(todo) = "connect"
    BY <1>3, Zenon DEF Connect, Does
  <2>2. client = "PLC" \/ client = "LGX"
    <3>1. ByReadtag
      BY <1>1, <2>1, TodoIs, Zenon
    <3> QED
      BY <3>1, Zenon DEF ByReadtag
  <2> QED
    BY <1>1, <1>3, <2>1, <2>2, PlcConnect, LgxConnect, ClientsDiffer, Zenon DEF TagInv
<1>4. CASE ReadPLC \/ WritePLC
  <2>1. client' = client /\ client = "PLC"
    BY <1>4, Zenon DEF ReadPLC, WritePLC, Does
  <2> QED
    BY <1>1, <1>4, <2>1, PlcReadStep, PlcWriteStep, ClientsDiffer, Zenon DEF TagInv
<1>5. CASE ReadLGX \/ WriteLGX
  <2>1. client' = client /\ client = "LGX"
    BY <1>5, Zenon DEF ReadLGX, WriteLGX, Does
  <2> QED
    BY <1>1, <1>5, <2>1, LgxReadStep, LgxWriteStep, ClientsDiffer, Zenon DEF TagInv
<1>6. CASE ReadDF1 \/ WriteDF1
  <2>1. client' = client /\ client = "DF1"
    BY <1>6, Zenon DEF ReadDF1, WriteDF1, Does
  <2> QED
    BY <1>1, <1>6, <2>1, Df1ReadStep, Df1WriteStep, ClientsDiffer, Zenon DEF TagInv
<1>7. CASE ReadMB \/ WriteMB \/ MaskMB
  <2>1. client' = client /\ client = "MB"
    BY <1>7, Zenon DEF ReadMB, WriteMB, MaskMB, Does
  <2> QED
    BY <1>1, <1>7, <2>1, MbReadStep, MbWriteStep, MbMaskStep, ClientsDiffer, Zenon DEF TagInv
<1> QED
  BY <1>2, <1>3, <1>4, <1>5, <1>6, <1>7, Zenon DEF TagNext

(* The invariant holds in every state that readtag and the clients reach.  *)
THEOREM TagInvariant == TagSpec => []TagInv
<1>1. TagInv /\ [TagNext]_tagVars => TagInv'
  BY TagSteps, TagStutters, Zenon
<1> QED
  BY <1>1, TagInitially, PTL DEF TagSpec

-----------------------------------------------------------------------------
(***************************************************************************)
(* What is read and written, by client.                                    *)
(***************************************************************************)

(* The invariant says of each client that what is printed is meant.        *)
LEMMA ReadsOfInv == TagInv => ReadsAreMeant
<1> DEFINE a == cmd.address
<1>1. SUFFICES ASSUME TagInv, exit = "ok", response # None,
                      client = "MB" => cmd.value = None /\ cmd.keep = None /\ Positive(table, cmd),
                      Plain(table, cmd)
               PROVE  /\ Exists(table, a, IF client = "MB" THEN cmd.number ELSE 1)
                      /\ response = Rounded(cmd, Meant(table, cmd))
  BY Zenon DEF ReadsAreMeant
<1>2. client \in {"PLC", "DF1", "LGX", "MB"}
  BY <1>1, DevicesAre, Zenon DEF TagInv, ControlInv
<1>3. CASE client = "PLC"
  <2>1. client \in {"PLC", "DF1"} /\ client # "LGX" /\ client # "MB" /\ client # "DF1"
    BY <1>3, ClientsDiffer
  <2>2. a.sub # "LEN" /\ (BitMeant(a) # None => table[Place(a)] < 2^15)
    BY <1>1, <1>3, <2>1, Zenon DEF Plain
  <2>3. Place(a) \in DOMAIN table /\ response = FileMeaning(table, a)
    BY <1>1, <1>3, <2>2, Zenon DEF TagInv, PlcInv, PlcReads
  <2>4. Exists(table, a, 1)
    BY <2>1, <2>3, Zenon DEF Exists
  <2>5. Meant(table, cmd) = FileMeaning(table, a)
    BY <2>1, Zenon DEF Meant, FileMeaning
  <2>6. Rounded(cmd, Meant(table, cmd)) = Meant(table, cmd)
    BY <2>1, Zenon DEF Rounded
  <2> QED
    BY <2>1, <2>3, <2>4, <2>5, <2>6, Zenon
<1>4. CASE client = "DF1"
  <2>1. client \in {"PLC", "DF1"} /\ client # "LGX" /\ client # "MB" /\ client # "PLC"
    BY <1>4, ClientsDiffer
  <2>2. /\ {a.file, a.element} \subseteq 0 .. 254 /\ a.sub \notin {"EN", "DN", "LEN"}
        /\ (a.sub = None \/ a.bit = None)
    BY <1>1, <1>4, <2>1, Zenon DEF Plain
  <2>3. Df1Plain(a)
    BY <2>2 DEF Df1Plain
  <2>4. Place(a) \in DOMAIN table /\ response = FileMeaning(table, a)
    BY <1>1, <1>4, <2>3, Zenon DEF TagInv, Df1Inv, Df1Reads
  <2>5. Exists(table, a, 1)
    BY <2>1, <2>4, Zenon DEF Exists
  <2>6. Meant(table, cmd) = FileMeaning(table, a)
    BY <2>1, Zenon DEF Meant, FileMeaning
  <2>7. Rounded(cmd, Meant(table, cmd)) = Meant(table, cmd)
    BY <2>1, Zenon DEF Rounded
  <2> QED
    BY <2>1, <2>4, <2>5, <2>6, <2>7, Zenon
<1>5. CASE client = "LGX"
  <2>1. client \notin {"PLC", "DF1"} /\ client # "PLC" /\ client # "DF1" /\ client # "MB"
    BY <1>5, ClientsDiffer
  <2>2. Small(a)
    BY <1>1, <1>5, <2>1, Zenon DEF Plain, Small
  <2>3. a \in DOMAIN table /\ response = Float(table[a])
    BY <1>1, <1>5, <2>2, Zenon DEF TagInv, LgxInv, LgxReads
  <2>4. Exists(table, a, 1)
    BY <1>5, <2>1, <2>3, Zenon DEF Exists
  <2>5. Rounded(cmd, Meant(table, cmd)) = Float(Meant(table, cmd))
    BY <1>5, <2>1, Zenon DEF Rounded
  <2>6. Meant(table, cmd) = table[a]
    BY <1>5, <2>1, Zenon DEF Meant
  <2> QED
    BY <2>1, <2>3, <2>4, <2>5, <2>6, Zenon
<1>6. CASE client = "MB"
  <2>1. client \notin {"PLC", "DF1"} /\ client # "PLC" /\ client # "DF1" /\ client # "LGX"
    BY <1>6, ClientsDiffer
  <2>2. (cmd.as = "real" \/ a.prefix # "F") /\ Positive(table, cmd)
    BY <1>1, <1>6, <2>1, Zenon DEF Plain
  <2>3. /\ \A k \in 0 .. cmd.number * Width(a) - 1 : CellOf(a, k) \in DOMAIN table
        /\ response = ModbusRounded(cmd, ModbusMeaning(table, cmd))
    BY <1>1, <1>6, <2>2, Zenon DEF TagInv, MbInv, MbReads
  <2>4. Exists(table, a, cmd.number)
    BY <1>6, <2>1, <2>3, Zenon DEF Exists
  <2>5. Meant(table, cmd) = ModbusMeaning(table, cmd)
    BY <1>6, <2>1, Zenon DEF Meant, ModbusMeaning
  <2>6. Rounded(cmd, Meant(table, cmd)) = ModbusRounded(cmd, Meant(table, cmd))
    BY <1>6, <2>1, Zenon DEF Rounded, ModbusRounded
  <2> QED
    BY <1>6, <2>3, <2>4, <2>5, <2>6, Zenon
<1> QED
  BY <1>2, <1>3, <1>4, <1>5, <1>6

(* One value of a client, when it is not for Modbus. *)
LEMMA OneValue ==
    /\ 0 \in 0 .. 1 /\ 1 \in 0 .. 1 /\ 1 > 0 /\ ~ 0 > 0 /\ 1 # 0
OBVIOUS

(* What the first part of WritesAreMeant says of a command. *)
WriteMeant ==
    \E n \in 0 .. (IF client = "MB" THEN Len(cmd.value) ELSE 1) :
       /\ n > 0 => Exists(before, cmd.address, n)
       /\ table = MeantTable(cmd, n)
       /\ (exit = "ok" /\ ~refused) =>
              /\ n > 0
              /\ (client = "MB" /\ (Len(cmd.value) > 1 \/ Width(cmd.address) > 1)) =>
                     response = n * Width(cmd.address)

(* A write that has not been done is one of no value. *)
LEMMA NothingWritten ==
    ASSUME table = before, exit = "ok" => refused, client = "MB" => Len(cmd.value) \in Nat
    PROVE  WriteMeant
<1>1. MeantTable(cmd, 0) = before
  BY OneValue, Zenon DEF MeantTable
<1>2. 0 \in 0 .. (IF client = "MB" THEN Len(cmd.value) ELSE 1)
  OBVIOUS
<1> QED
  BY <1>1, <1>2, OneValue, Zenon DEF WriteMeant

(* A write that is not for Modbus is of one value. *)
LEMMA OneWritten ==
    ASSUME client # "MB", Exists(before, cmd.address, 1), table = MeantTable(cmd, 1)
    PROVE  WriteMeant
<1>1. 1 \in 0 .. (IF client = "MB" THEN Len(cmd.value) ELSE 1)
  OBVIOUS
<1> QED
  BY <1>1, OneValue, Zenon DEF WriteMeant

(* The table with the value of a file is the one that is meant. *)
LEMMA FileTableIs ==
    ASSUME client \in {"PLC", "DF1"}
    PROVE  MeantTable(cmd, 1) = FileWritten(before, cmd.address, cmd.value)
BY OneValue, Zenon DEF MeantTable, FileWritten

(* The invariant says of each client that what is written is meant.        *)
LEMMA WritesOfInv ==
    ASSUME TagInv, cmd # None, cmd.value # None, Plain(before, cmd), Writable(cmd)
    PROVE  WriteMeant
<1> DEFINE a == cmd.address
<1>1. client \in {"PLC", "DF1", "LGX", "MB"} /\ ControlInv
  BY DevicesAre, Zenon DEF TagInv, ControlInv
<1>2. client = "MB" => ModbusOK(cmd) /\ Len(cmd.value) \in Nat
  <2>1. SUFFICES ASSUME client = "MB" PROVE ModbusOK(cmd) /\ Len(cmd.value) \in Nat
    BY Zenon
  <2>2. ModbusOK(cmd)
    BY <1>1, <2>1, DevicesAre, Zenon DEF ControlInv, Commanded
  <2> QED
    BY <2>2, ValuesAre, Zenon
<1>3. CASE todo \in Undone
  <2>1. table = before /\ exit # "ok"
    BY <1>1, <1>3, UndoneIs, ExitsAre, Zenon DEF ControlInv
  <2> QED
    BY <1>2, <2>1, NothingWritten, Zenon
<1>4. NotDone => WriteMeant
  BY <1>2, NothingWritten, ExitsAre, Zenon DEF NotDone
<1>5. CASE todo \notin Undone /\ client = "PLC"
  <2>1. client \in {"PLC", "DF1"} /\ client # "LGX" /\ client # "MB" /\ client # "DF1"
    BY <1>5, ClientsDiffer
  <2>2. a.sub # "LEN"
    BY <1>5, <2>1, Zenon DEF Plain
  <2>3. BitMeant(a) = None /\ (a.letter = "F" \/ WordSized(cmd.value))
    BY <1>5, <2>1, Zenon DEF Writable, WordSized
  <2>4. NotDone \/ (Place(a) \in DOMAIN before /\ table = FileWritten(before, a, cmd.value))
    BY <1>5, <2>2, <2>3, Zenon DEF TagInv, PlcInv, PlcWrites
  <2>5. Place(a) \in DOMAIN before => Exists(before, a, 1)
    BY <2>1, Zenon DEF Exists
  <2> QED
    BY <1>4, <2>1, <2>4, <2>5, OneWritten, FileTableIs, Zenon
<1>6. CASE todo \notin Undone /\ client = "DF1"
  <2>1. client \in {"PLC", "DF1"} /\ client # "LGX" /\ client # "MB" /\ client # "PLC"
    BY <1>6, ClientsDiffer
  <2>2. /\ {a.file, a.element} \subseteq 0 .. 254 /\ a.sub \notin {"EN", "DN", "LEN"}
        /\ (a.sub = None \/ a.bit = None)
    BY <1>6, <2>1, Zenon DEF Plain
  <2>3. Df1Plain(a)
    BY <2>2 DEF Df1Plain
  <2>4. a.letter = "F" \/ WordSized(cmd.value)
    BY <1>6, <2>1, Zenon DEF Writable, WordSized
  <2>5. NotDone \/ (Place(a) \in DOMAIN before /\ table = FileWritten(before, a, cmd.value))
    BY <1>6, <2>3, <2>4, Zenon DEF TagInv, Df1Inv, Df1Writes
  <2>6. Place(a) \in DOMAIN before => Exists(before, a, 1)
    BY <2>1, Zenon DEF Exists
  <2> QED
    BY <1>4, <2>1, <2>5, <2>6, OneWritten, FileTableIs, Zenon
<1>7. CASE todo \notin Undone /\ client = "LGX"
  <2>1. client \notin {"PLC", "DF1"} /\ client # "PLC" /\ client # "DF1" /\ client # "MB"
    BY <1>7, ClientsDiffer
  <2>2. Small(a)
    BY <1>7, <2>1, Zenon DEF Plain, Small
  <2>3. types = LgxTypes
    BY <1>7, Zenon DEF types, LgxTypes
  <2>4. cmd.value = L!Cut(LgxTypes[a[1].name], cmd.value)
    BY <1>7, <2>1, <2>3, Zenon DEF Writable
  <2>5. NotDone \/ (a \in DOMAIN before
                    /\ table = [before EXCEPT ![a] = LgxSent(LgxTypes[a[1].name], cmd.value)])
    BY <1>7, <2>2, <2>4, Zenon DEF TagInv, LgxInv, LgxWrites
  <2>6. a \in DOMAIN before => Exists(before, a, 1)
    BY <1>7, <2>1, Zenon DEF Exists
  <2>7. MeantTable(cmd, 1) = [before EXCEPT ![a] = LgxSent(LgxTypes[a[1].name], cmd.value)]
    BY <1>7, <2>1, <2>3, OneValue, Zenon DEF MeantTable, LgxSent
  <2> QED
    BY <1>4, <2>1, <2>5, <2>6, <2>7, OneWritten, Zenon
<1>8. CASE todo \notin Undone /\ client = "MB"
  <2>1. client \notin {"PLC", "DF1"} /\ client # "PLC" /\ client # "DF1" /\ client # "LGX"
    BY <1>8, ClientsDiffer
  <2>2. ModbusWritable(cmd)
    BY <1>8, <2>1, Zenon DEF Writable, ModbusWritable
  <2>3. \/ NotDone
        \/ \E n \in 1 .. Len(cmd.value) :
              /\ \A k \in 0 .. n * Width(a) - 1 : CellOf(a, k) \in DOMAIN before
              /\ table = ModbusWritten(before, cmd, n)
              /\ exit # "error" /\ Several(cmd) => response = n * Width(a)
    BY <1>8, <2>2, Zenon DEF TagInv, MbInv, MbWrites
  <2>4. CASE \E n \in 1 .. Len(cmd.value) :
              /\ \A k \in 0 .. n * Width(a) - 1 : CellOf(a, k) \in DOMAIN before
              /\ table = ModbusWritten(before, cmd, n)
              /\ exit # "error" /\ Several(cmd) => response = n * Width(a)
    <3>1. PICK n \in 1 .. Len(cmd.value) :
              /\ \A k \in 0 .. n * Width(a) - 1 : CellOf(a, k) \in DOMAIN before
              /\ table = ModbusWritten(before, cmd, n)
              /\ exit # "error" /\ Several(cmd) => response = n * Width(a)
      BY <2>4
    <3>2. n \in 0 .. Len(cmd.value) /\ n > 0 /\ n # 0
      BY <1>2, <1>8
    <3>3. Exists(before, a, n)
      BY <1>8, <2>1, <3>1, Zenon DEF Exists
    <3>4. MeantTable(cmd, n) = ModbusWritten(before, cmd, n)
      BY <1>8, <2>1, <3>2, Zenon DEF MeantTable, ModbusWritten
    <3>5. (exit = "ok" /\ (Len(cmd.value) > 1 \/ Width(a) > 1)) => response = n * Width(a)
      BY <3>1, ExitsAre, Zenon DEF Several
    <3>6. n \in 0 .. (IF client = "MB" THEN Len(cmd.value) ELSE 1)
      BY <1>8, <3>2, Zenon
    <3> QED
      BY <3>1, <3>2, <3>3, <3>4, <3>5, <3>6, Zenon DEF WriteMeant
  <2> QED
    BY <1>4, <2>3, <2>4, Zenon
<1> QED
  BY <1>1, <1>3, <1>5, <1>6, <1>7, <1>8, Zenon

(* And what the second part says of a mask. *)
LEMMA MasksOfInv ==
    ASSUME TagInv, client = "MB", cmd # None, cmd.keep # None, OfRegister(cmd.address)
    PROVE  table = Masked \/ (table = before /\ exit # "ok")
<1>1. ControlInv
  BY Zenon DEF TagInv
<1>2. CASE todo \in Undone
  BY <1>1, <1>2, UndoneIs, ExitsAre, Zenon DEF ControlInv
<1>3. CASE todo \notin Undone
  BY <1>3, Zenon DEF TagInv, MbInv, MbMasks
<1> QED
  BY <1>2, <1>3, Zenon

(* The invariant gives the whole of WritesAreMeant. *)
LEMMA WritesAreOfInv == TagInv => WritesAreMeant
<1> SUFFICES ASSUME TagInv PROVE WritesAreMeant
  OBVIOUS
<1>1. cmd # None => ((cmd.value # None /\ Plain(before, cmd) /\ Writable(cmd)) => WriteMeant)
  BY WritesOfInv, Zenon
<1>2. cmd # None => ((cmd.value # None /\ Plain(before, cmd) /\ Writable(cmd)) =>
          \E n \in 0 .. (IF client = "MB" THEN Len(cmd.value) ELSE 1) :
             /\ n > 0 => Exists(before, cmd.address, n)
             /\ table = MeantTable(cmd, n)
             /\ (exit = "ok" /\ ~refused) =>
                    /\ n > 0
                    /\ (client = "MB" /\ (Len(cmd.value) > 1 \/ Width(cmd.address) > 1)) =>
                           response = n * Width(cmd.address))
  BY <1>1, Zenon DEF WriteMeant
<1>3. (client = "MB" /\ cmd # None) => ((cmd.keep # None /\ cmd.address.number > 400000) =>
          table = Masked \/ (table = before /\ exit # "ok"))
  <2>1. cmd.address.number > 400000 => OfRegister(cmd.address)
    BY SMT DEF OfRegister
  <2> QED
    BY <2>1, MasksOfInv, SMT
<1>4. Masked = [before EXCEPT ![CellOf(cmd.address, 0)] =
                   OfBits((BitsOf(before[CellOf(cmd.address, 0)]) \cap cmd.keep) \union (cmd.set \ cmd.keep))]
  BY Zenon DEF Masked, MaskDone
<1> QED
  BY <1>2, <1>3, <1>4, SMT DEF WritesAreMeant

(* A read that ends well gives what its address stands for, of every       *)
(* client.                                                                 *)
THEOREM TagReadsAreMeant == TagSpec => []ReadsAreMeant
BY TagInvariant, ReadsOfInv, PTL

(* A write or a mask changes what its address stands for, or nothing, of   *)
(* every client.                                                           *)
THEOREM TagWritesAreMeant == TagSpec => []WritesAreMeant
BY TagInvariant, WritesAreOfInv, PTL
=============================================================================
