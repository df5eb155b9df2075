--------------------------- MODULE SerialProofs -----------------------------
(***************************************************************************)
(* The loggers with a write mailbox, TuxDf1 and TuxModbus, and the DF1     *)
(* line of the first.  The two models share no name and no state: an       *)
(* exchange of MailLogger is what RemoteCall promises, and the last        *)
(* theorem says that the line keeps that promise.                          *)
(*                                                                         *)
(* The mailbox, for any lines, tags, stores and faults: what is written is *)
(* written once, only late stores are lost, and snapshots advance.         *)
(*                                                                         *)
(* The line, for any number of commands, repetitions and disturbances: a   *)
(* call takes the reply to its own command, a command is executed at most  *)
(* once, and SUCCESS means that it was.                                    *)
(***************************************************************************)
EXTENDS TuxModbus, Df1Link, SequenceTheorems, TLAPS

USE MailAssumption

LEMMA Sizes == MaxStores \in Nat /\ MaxFaults \in Nat /\ Wait \in Nat
OBVIOUS

LEMMA StoreNumbers == Stores \subseteq Nat /\ None \notin Nat /\ None \notin Stores
<1>1. \A v \in Stores : v \in Nat
  BY Sizes DEF Stores
<1>2. None \notin Nat
  OBVIOUS
<1> QED
  BY ONLY <1>1, <1>2, Zenon

(* Least is the smaller of two numbers. *)
LEMMA LeastNat ==
    ASSUME NEW m \in Nat, NEW n \in Nat
    PROVE  Least(m, n) \in Nat /\ Least(m, n) <= m /\ Least(m, n) <= n
BY DEF Least

-----------------------------------------------------------------------------
(* The place in the loop. *)
Place ==
    /\ pc \in {"start", "round", "plc", "select", "call", "update", "ended"}
    /\ loaded \subseteq PLCs /\ elt \in PLCs \cup {1} /\ elt2 \in Nat
    /\ pc \notin {"start", "ended"} => elt \in PLCs
    /\ pc \in {"select", "call", "update"} => elt2 \in DOMAIN PlcTags[elt] /\ socket[elt]
    /\ socket \in [PLCs -> BOOLEAN] /\ next \in [PLCs -> 0 .. Wait] /\ start \in 0 .. Wait

(* Writes are counted up to this number. *)
Cap == MaxFaults + 2

(* The values in the logger, the database and the device. *)
Values ==
    /\ program \in {"TuxDf1", "TuxModbus"} /\ Comm_OK \in BOOLEAN
    /\ WriteExist \in [Tags -> BOOLEAN] /\ WriteValue \in [Tags -> Stores \cup {None}]
    /\ \A t \in Tags : WriteExist[t] => WriteValue[t] # None
    /\ row \in [Tags -> BOOLEAN] /\ mailbox \in [Tags -> Stores \cup {None}]
    /\ snapshot \in [Tags -> Numbers] /\ memory \in [Tags -> Nat] /\ got \in Numbers \cup {None}
    /\ input \in [PLCs -> Seq(Numbers)] /\ disturbed \subseteq PLCs
    /\ unanswered \in [plc : PLCs, tag : Tags] \cup {None}
    /\ late \in [tag : Tags, value : Stores] \cup {None}
    /\ stores \in 0 .. MaxStores /\ selected \in 0 .. stores /\ faults \in 0 .. MaxFaults
    /\ written \in [Stores -> 0 .. Cap] /\ failed \in [Stores -> Nat]

LEMMA Typed == Place /\ Values => TypeOK
BY DEF Place, Values, TypeOK

LEMMA TagsOfPlace ==
    ASSUME Place, pc \in {"select", "call", "update"}
    PROVE  tag \in Tags
<1>1. elt \in PLCs /\ elt2 \in DOMAIN PlcTags[elt]
  BY DEF Place
<1> QED
  BY <1>1 DEF tag, Tags, PLCs

LEMMA PlaceGoOn ==
    ASSUME Place, pc \notin {"start", "ended"}, GoOn
    PROVE  pc' \in {"round", "plc"} /\ elt' \in PLCs
<1>1. elt \in 1 .. Len(PlcTags) /\ Len(PlcTags) \in Nat
  BY DEF Place, PLCs
<1> QED
  BY <1>1 DEF GoOn, PLCs

LEMMA PlaceNextTag ==
    ASSUME Place, pc \in {"select", "call", "update"}, NextTag, UNCHANGED <<loaded, socket, start>>
    PROVE  Place'
<1>1. Wait - start \in 0 .. Wait
  BY DEF Place
<1>2. CASE LastTag
  <2>1. next' \in [PLCs -> 0 .. Wait]
    BY <1>1, <1>2 DEF NextTag, Suspended, Place
  <2>2. pc' \in {"round", "plc"} /\ elt' \in PLCs /\ elt2' \in Nat
    BY <1>2, PlaceGoOn DEF NextTag
  <2> QED
    BY <2>1, <2>2 DEF Place
<1>3. CASE ~LastTag
  <2>1. PlcTags[elt] \in Seq(Tags)
    BY DEF Place, PLCs
  <2>2. elt2' \in DOMAIN PlcTags[elt] /\ elt2' \in Nat
    BY <1>3, <2>1 DEF NextTag, LastTag, Place
  <2> QED
    BY <1>3, <2>2 DEF NextTag, Place
<1> QED
  BY <1>2, <1>3

LEMMA PlaceNext == Place /\ [Next]_vars => Place'
<1> SUFFICES ASSUME Place, [Next]_vars PROVE Place'
  OBVIOUS
<1>1. CASE UNCHANGED vars
  BY <1>1 DEF vars, logger, Place
<1>2. CASE Load
  <2>1. loaded' \subseteq PLCs
    BY <1>2 DEF Load, GetTag
  <2>2. loaded' # {} => 1 \in PLCs
    BY <2>1 DEF PLCs
  <2> QED
    BY <1>2, <2>1, <2>2 DEF Load, Place, PLCs
<1>3. CASE Round
  <2>1. elt \in 1 .. Len(PlcTags) /\ Len(PlcTags) \in Nat
    BY <1>3 DEF Round, Place, PLCs
  <2>2. 1 \in PLCs
    BY <2>1 DEF PLCs
  <2> QED
    BY <1>3, <2>2 DEF Round, KillAll, FreeAll, Place
<1>4. CASE Skip
  BY <1>4, PlaceGoOn DEF Skip, Place
<1>5. CASE OpenFails
  <2>1. Wait - start \in 0 .. Wait
    BY DEF Place
  <2> QED
    BY <1>5, <2>1, PlaceGoOn DEF OpenFails, Suspended, Place
<1>6. CASE Enter
  <2>1. elt \in PLCs
    BY <1>6 DEF Enter, Place
  <2>2. socket' \in [PLCs -> BOOLEAN] /\ socket'[elt] /\ start' = 0 /\ loaded' = loaded
    BY <1>6, <2>1 DEF Enter, BuildSocket, Place
  <2>3. CASE elt \in loaded /\ PlcTags[elt] # <<>>
    <3>1. PlcTags[elt] \in Seq(Tags)
      BY <2>1 DEF PLCs
    <3>2. 1 \in DOMAIN PlcTags[elt]
      BY <2>3, <3>1
    <3> QED
      BY <1>6, <2>1, <2>2, <2>3, <3>2 DEF Enter, Place
  <2>4. CASE ~(elt \in loaded /\ PlcTags[elt] # <<>>)
    <3>1. GoOn /\ next' = [next EXCEPT ![elt] = Wait] /\ elt2' = elt2 /\ pc = "plc"
      BY <1>6, <2>4 DEF Enter
    <3>2. next' \in [PLCs -> 0 .. Wait]
      BY <3>1 DEF Place
    <3>3. pc' \in {"round", "plc"} /\ elt' \in PLCs
      BY <3>1, PlaceGoOn
    <3> QED
      BY <2>2, <3>1, <3>2, <3>3 DEF Place
  <2> QED
    BY <2>3, <2>4
<1>7. CASE Select
  <2>1. CASE NextTag
    BY <1>7, <2>1, PlaceNextTag DEF Select
  <2>2. CASE ~NextTag
    BY <1>7, <2>2 DEF Select, MayCrash, Place
  <2> QED
    BY <2>1, <2>2
<1>8. CASE Read \/ ModbusRead
  <2>1. CASE NextTag
    BY <1>8, <2>1, PlaceNextTag DEF Read, ModbusRead
  <2>2. CASE ~NextTag
    BY <1>8, <2>2 DEF Read, ModbusRead, CallFails, MayCrash, Place
  <2> QED
    BY <2>1, <2>2
<1>9. CASE Write
  <2>1. CASE NextTag
    BY <1>9, <2>1, PlaceNextTag DEF Write
  <2>2. CASE ~NextTag
    BY <1>9, <2>2 DEF Write, CallFails, MayCrash, Place
  <2> QED
    BY <2>1, <2>2
<1>10. CASE WriteNothing
  BY <1>10, PlaceNextTag DEF WriteNothing
<1>11. CASE Update
  BY <1>11, PlaceNextTag DEF Update
<1>12. CASE Late \/ Store \/ RowGoes \/ Change \/ Signal \/ LateReply
  BY <1>12 DEF Late, Store, RowGoes, Change, Signal, LateReply, logger, Place
<1>13. CASE Tick
  <2>1. start' \in 0 .. Wait
    BY <1>13 DEF Tick, Least, Place
  <2>2. next' \in [PLCs -> 0 .. Wait]
    BY <1>13 DEF Tick, Place
  <2> QED
    BY <1>13, <2>1, <2>2 DEF Tick, Place
<1> QED
  BY <1>1, <1>2, <1>3, <1>4, <1>5, <1>6, <1>7, <1>8, <1>9, <1>10, <1>11, <1>12, <1>13
     DEF Next, Logger, World, Df1Logger, ModbusLogger, ModbusMain, ModbusRound, ModbusOpenFails,
         ModbusEnter, ModbusSelect, ModbusUpdate

-----------------------------------------------------------------------------
(* The PLC takes a value: a variable goes on, and the value is counted. *)
LEMMA TookValue ==
    ASSUME Values, NEW v \in Stores, NEW t \in Tags, Took(v, t)
    PROVE  /\ memory' \in [Tags -> Nat] /\ written' \in [Stores -> 0 .. Cap]
           /\ \A u \in Tags : memory[u] <= memory'[u]
           /\ written'[v] > 0 /\ written'[v] = Least(written[v] + 1, Cap)
           /\ \A w \in Stores : w # v => written'[w] = written[w]
<1>1. memory' \in [Tags -> Nat] /\ \A u \in Tags : memory[u] <= memory'[u]
  <2>1. CASE memory' = memory
    BY <2>1 DEF Values
  <2>2. CASE memory' = [memory EXCEPT ![t] = @ + 1]
    BY <2>2 DEF Values
  <2> QED
    BY <2>1, <2>2 DEF Took
<1>2. Least(written[v] + 1, Cap) \in 1 .. Cap
  BY Sizes DEF Values, Least, Cap
<1>3. written' = [written EXCEPT ![v] = Least(written[v] + 1, Cap)]
  BY DEF Took, Cap
<1> QED
  BY <1>1, <1>2, <1>3 DEF Values

(* What a select finds. *)
LEMMA SelectValue ==
    ASSUME Values, tag \in Tags, ReadWriteValue
    PROVE  /\ WriteExist' \in [Tags -> BOOLEAN] /\ WriteValue' \in [Tags -> Stores \cup {None}]
           /\ \A t \in Tags : WriteExist'[t] => WriteValue'[t] # None
BY DEF ReadWriteValue, Values

Gotten == pc = "update" => got \in Numbers

(* Numbers of the tags, and noise. *)
LEMMA ShownNumber ==
    ASSUME NEW t \in Tags, NEW n \in Nat
    PROVE  Shown(t, n) \in Numbers /\ Sent(t, n) \in Numbers
BY DEF Shown, Sent, Number, Numbers

LEMMA GarbledNumber == Garbled \in Numbers
BY DEF Garbled, Number, Numbers

(* A read takes the first reply of the line, the own one if there is none, *)
(* or noise, and leaves some of the others.                                *)
LEMMA ReadOfLine ==
    ASSUME Place, Values, ModbusRead
    PROVE  /\ got' \in Numbers \cup {None} /\ input' \in [PLCs -> Seq(Numbers)]
           /\ \A p \in PLCs : p # elt => input'[p] = input[p]
           /\ \/ pc' # "update" /\ input'[elt] \in {input[elt], <<>>} /\ disturbed' = disturbed \cup {elt}
              \/ /\ pc' = "update" /\ got' = Garbled /\ input'[elt] = <<>>
                 /\ disturbed' = disturbed \cup {elt} /\ unanswered' = unanswered
              \/ /\ pc' = "update" /\ UNCHANGED <<disturbed, unanswered>>
                 /\ \/ input[elt] = <<>> /\ got' = Shown(tag, memory[tag]) /\ input'[elt] = <<>>
                    \/ /\ input[elt] # <<>> /\ got' = Head(input[elt])
                       /\ input'[elt] = Append(Tail(input[elt]), Shown(tag, memory[tag]))
<1> DEFINE own == Shown(tag, memory[tag])
           replies == Append(input[elt], own)
<1>1. elt \in PLCs /\ tag \in Tags /\ memory[tag] \in Nat /\ own \in Numbers
  BY TagsOfPlace, ShownNumber DEF ModbusRead, Place, Values
<1>2. input \in [PLCs -> Seq(Numbers)] /\ input[elt] \in Seq(Numbers) /\ got \in Numbers \cup {None}
  BY <1>1 DEF Values
<1> HIDE DEF own
<1>3. CASE Fine /\ pc' = "update" /\ got' = Head(replies) /\ input' = [input EXCEPT ![elt] = Tail(replies)]
                /\ UNCHANGED <<unanswered, disturbed>>
  <2>1. CASE input[elt] = <<>>
    <3>1. Head(replies) = own /\ Tail(replies) = <<>>
      BY <1>1, <2>1
    <3> QED
      BY <1>1, <1>2, <1>3, <2>1, <3>1 DEF own
  <2>2. CASE input[elt] # <<>>
    <3>1. Head(replies) = Head(input[elt]) /\ Tail(replies) = Append(Tail(input[elt]), own)
      BY <1>1, <1>2, <2>2
    <3>2. Head(input[elt]) \in Numbers /\ Append(Tail(input[elt]), own) \in Seq(Numbers)
      BY <1>1, <1>2, <2>2
    <3> QED
      BY <1>1, <1>2, <1>3, <2>2, <3>1, <3>2 DEF own
  <2> QED
    BY <2>1, <2>2
<1>4. CASE Fault /\ pc' = "update" /\ got' = Garbled /\ input' = Flushed /\ disturbed' = disturbed \cup {elt}
                 /\ UNCHANGED unanswered
  BY <1>1, <1>2, <1>4, GarbledNumber DEF Flushed
<1>5. CASE CallFails /\ input' \in {input, Flushed} /\ disturbed' = disturbed \cup {elt}
  <2>1. pc' # "update" /\ got' = got
    BY <1>5 DEF CallFails, NextTag, GoOn, MayCrash
  <2>2. input' \in [PLCs -> Seq(Numbers)] /\ input'[elt] \in {input[elt], <<>>}
        /\ \A p \in PLCs : p # elt => input'[p] = input[p]
    <3>1. CASE input' = input
      BY <1>1, <1>2, <3>1
    <3>2. CASE input' = Flushed
      BY <1>1, <1>2, <3>2 DEF Flushed
    <3> QED
      BY <1>5, <3>1, <3>2
  <2> QED
    BY <1>2, <1>5, <2>1, <2>2
<1> QED
  BY <1>3, <1>4, <1>5 DEF ModbusRead, own

(* It takes a number. *)
LEMMA ReadOfNumbers ==
    ASSUME Place, Values, ModbusRead, pc' = "update"
    PROVE  got' \in Numbers
<1>1. tag \in Tags /\ memory[tag] \in Nat /\ elt \in PLCs /\ input[elt] \in Seq(Numbers)
  BY TagsOfPlace DEF ModbusRead, Place, Values
<1>2. Shown(tag, memory[tag]) \in Numbers /\ Garbled \in Numbers
  BY <1>1, ShownNumber, GarbledNumber
<1>3. input[elt] # <<>> => Head(input[elt]) \in Numbers
  BY <1>1
<1> QED
  BY <1>2, <1>3, ReadOfLine

(* A late reply is put behind the others of its line. *)
LEMMA LateOfLine ==
    ASSUME Values, LateReply
    PROVE  \E r \in Numbers :
              /\ r \in {Shown(unanswered.tag, memory[unanswered.tag]), Garbled}
              /\ unanswered.plc \in PLCs /\ unanswered.tag \in Tags
              /\ input' = [input EXCEPT ![unanswered.plc] = Append(input[unanswered.plc], r)]
              /\ input' \in [PLCs -> Seq(Numbers)]
<1>1. unanswered.plc \in PLCs /\ unanswered.tag \in Tags /\ memory[unanswered.tag] \in Nat
  BY DEF LateReply, Values
<1>2. PICK r \in {Shown(unanswered.tag, memory[unanswered.tag]), Garbled} :
           input' = [input EXCEPT ![unanswered.plc] = Append(input[unanswered.plc], r)]
  BY DEF LateReply
<1>3. r \in Numbers
  BY <1>1, <1>2, ShownNumber, GarbledNumber
<1>4. Append(input[unanswered.plc], r) \in Seq(Numbers) /\ input \in [PLCs -> Seq(Numbers)]
  BY <1>1, <1>3 DEF Values
<1>5. input' \in [PLCs -> Seq(Numbers)]
  BY <1>1, <1>2, <1>4
<1> QED
  BY <1>1, <1>2, <1>3, <1>5

LEMMA ValuesNext == Place /\ Values /\ Gotten /\ [Next]_vars => Values'
<1> SUFFICES ASSUME Place, Values, Gotten, [Next]_vars PROVE Values'
  OBVIOUS
<1> USE DEF logger, database, device, rtu, ghosts
<1>1. CASE UNCHANGED vars
  BY <1>1 DEF vars, Values
<1>2. CASE Load \/ Round \/ Skip \/ OpenFails \/ Enter
  <2>1. faults' \in 0 .. MaxFaults
    BY <1>2, Sizes DEF Load, GetTag, Round, Skip, OpenFails, Enter, Fault, Fine, Values
  <2>2. Comm_OK' \in BOOLEAN
    BY <1>2 DEF Load, Round, Skip, OpenFails, Enter, Values
  <2> QED
    BY <1>2, <2>1, <2>2 DEF Load, Round, Skip, OpenFails, Enter, Values
<1>3. CASE Select
  <2>1. faults' \in 0 .. MaxFaults /\ Comm_OK' \in BOOLEAN /\ selected' \in 0 .. stores
    BY <1>3, Sizes DEF Select, Fault, Fine, Values
  <2>2. tag \in Tags
    BY <1>3, TagsOfPlace DEF Select
  <2>3. /\ WriteExist' \in [Tags -> BOOLEAN] /\ WriteValue' \in [Tags -> Stores \cup {None}]
        /\ \A t \in Tags : WriteExist'[t] => WriteValue'[t] # None
    <3>1. CASE ReadWriteValue
      BY <2>2, <3>1, SelectValue
    <3>2. CASE ~ReadWriteValue
      BY <1>3, <3>2 DEF Select, Values
    <3> QED
      BY <3>1, <3>2
  <2> QED
    BY <1>3, <2>1, <2>3 DEF Select, Values
<1>4. CASE Read
  <2>1. faults' \in 0 .. MaxFaults /\ Comm_OK' \in BOOLEAN
    BY <1>4, Sizes DEF Read, CallFails, Fault, Fine, Values
  <2>2. got' \in Numbers \cup {None}
    BY <1>4, TagsOfPlace, ShownNumber DEF Read, CallFails, Values
  <2> QED
    BY <1>4, <2>1, <2>2 DEF Read, Values
<1>5. CASE Write
  <2> DEFINE v == WriteValue[tag]
  <2>1. tag \in Tags /\ v \in Stores
    BY <1>5, TagsOfPlace DEF Write, Values
  <2>2. faults' \in 0 .. MaxFaults /\ Comm_OK' \in BOOLEAN
    BY <1>5, Sizes DEF Write, CallFails, Fault, Fine, Values
  <2>3. failed' \in [Stores -> Nat]
    <3>1. failed' = failed \/ failed' = [failed EXCEPT ![v] = @ + 1]
      BY <1>5 DEF Write
    <3>2. CASE failed' = [failed EXCEPT ![v] = @ + 1]
      BY <2>1, <3>2 DEF Values
    <3> QED
      BY <3>1, <3>2 DEF Values
  <2>4. memory' \in [Tags -> Nat] /\ written' \in [Stores -> 0 .. Cap]
    <3>1. CASE Took(v, tag)
      BY <2>1, <3>1, TookValue
    <3>2. CASE ~Took(v, tag)
      BY <1>5, <3>2 DEF Write, Values
    <3> QED
      BY <3>1, <3>2
  <2>5. late' \in [tag : Tags, value : Stores] \cup {None}
    BY <1>5, <2>1 DEF Write, Values
  <2>6. got' \in Numbers \cup {None}
    BY <1>5, <2>1, <2>4, ShownNumber DEF Write, CallFails, Values
  <2> QED
    BY <1>5, <2>2, <2>3, <2>4, <2>5, <2>6 DEF Write, Values
<1>6. CASE WriteNothing
  BY <1>6 DEF WriteNothing, Values
<1>7. CASE Update
  <2>1. tag \in Tags /\ (WriteExist[tag] => WriteValue[tag] \in Stores)
    BY <1>7, TagsOfPlace DEF Update, Values
  <2>2. faults' \in 0 .. MaxFaults
    BY <1>7, Sizes DEF Update, Fault, Fine, Values
  <2>3. snapshot' \in [Tags -> Numbers] /\ mailbox' \in [Tags -> Stores \cup {None}]
    <3>1. got \in Numbers
      BY <1>7 DEF Update, Gotten
    <3>2. snapshot' = snapshot \/ snapshot' = [snapshot EXCEPT ![tag] = got]
      BY <1>7 DEF Update, Snapshot
    <3>3. mailbox' = mailbox \/ mailbox' = [mailbox EXCEPT ![tag] = None]
      BY <1>7 DEF Update, Cleared
    <3>4. snapshot \in [Tags -> Numbers] /\ mailbox \in [Tags -> Stores \cup {None}]
      BY DEF Values
    <3> QED
      BY ONLY <2>1, <3>1, <3>2, <3>3, <3>4
  <2>4. failed' \in [Stores -> Nat]
    <3>1. \A n \in Nat : Least(n + 1, MaxFaults + 2) \in Nat
      BY Sizes DEF Least
    <3>2. \/ failed' = failed
          \/ WriteExist[tag] /\ failed' = [failed EXCEPT ![WriteValue[tag]] = Least(@ + 1, MaxFaults + 2)]
      BY <1>7 DEF Update
    <3> DEFINE v == WriteValue[tag]
    <3>3. CASE WriteExist[tag] /\ failed' = [failed EXCEPT ![v] = Least(@ + 1, MaxFaults + 2)]
      <4>1. v \in Stores /\ failed[v] \in Nat /\ failed \in [Stores -> Nat]
        BY <2>1, <3>3 DEF Values
      <4>2. Least(failed[v] + 1, MaxFaults + 2) \in Nat
        BY <3>1, <4>1
      <4> QED
        BY <3>3, <4>1, <4>2
    <3> QED
      BY <3>2, <3>3 DEF Values
  <2>5. /\ UNCHANGED <<program, WriteExist, WriteValue, row, memory, late, input, unanswered, stores,
                        written, disturbed>>
        /\ Comm_OK' = TRUE /\ got' = None /\ selected' = 0
    BY <1>7 DEF Update
  <2> QED
    BY <2>2, <2>3, <2>4, <2>5 DEF Values
<1>8. CASE Late
  <2>1. late.value \in Stores /\ late.tag \in Tags
    BY <1>8 DEF Late, Values
  <2>2. memory' \in [Tags -> Nat] /\ written' \in [Stores -> 0 .. Cap]
    BY <1>8, <2>1, TookValue DEF Late
  <2> QED
    BY <1>8, <2>2 DEF Late, Values
<1>9. CASE Store
  <2>1. stores' \in Stores /\ stores' \in 0 .. MaxStores /\ selected' \in 0 .. stores'
    BY <1>9, Sizes DEF Store, Stores, Values
  <2>2. mailbox' \in [Tags -> Stores \cup {None}]
    BY <1>9, <2>1 DEF Store, Values
  <2> QED
    BY <1>9, <2>1, <2>2 DEF Store, Values
<1>10. CASE RowGoes
  <2>1. faults' \in 0 .. MaxFaults
    BY <1>10, Sizes DEF RowGoes, Fault, Values
  <2>2. row' \in [Tags -> BOOLEAN] /\ mailbox' \in [Tags -> Stores \cup {None}]
    BY <1>10 DEF RowGoes, Values
  <2> QED
    BY <1>10, <2>1, <2>2 DEF RowGoes, Values
<1>11. CASE Change
  BY <1>11 DEF Change, Values
<1>12. CASE Signal
  BY <1>12, Sizes DEF Signal, Fault, Values
<1>13. CASE Tick
  BY <1>13 DEF Tick, Values
<1>14. CASE ModbusRead
  <2>1. faults' \in 0 .. MaxFaults /\ Comm_OK' \in BOOLEAN /\ elt \in PLCs /\ tag \in Tags
    BY <1>14, Sizes, TagsOfPlace DEF ModbusRead, CallFails, Fault, Fine, Values, Place
  <2>2. disturbed' \subseteq PLCs /\ unanswered' \in [plc : PLCs, tag : Tags] \cup {None}
    BY <1>14, <2>1 DEF ModbusRead, Values
  <2>3. got' \in Numbers \cup {None} /\ input' \in [PLCs -> Seq(Numbers)]
    BY <1>14, ReadOfLine
  <2> QED
    BY <1>14, <2>1, <2>2, <2>3 DEF ModbusRead, Values
<1>15. CASE LateReply
  <2>1. input' \in [PLCs -> Seq(Numbers)]
    BY <1>15, LateOfLine
  <2> QED
    BY <1>15, <2>1 DEF LateReply, Values
<1> QED
  BY <1>1, <1>2, <1>3, <1>4, <1>5, <1>6, <1>7, <1>8, <1>9, <1>10, <1>11, <1>12, <1>13, <1>14, <1>15
     DEF Next, Logger, World, Df1Logger, ModbusLogger, ModbusMain, ModbusRound, ModbusOpenFails,
         ModbusEnter, ModbusSelect, ModbusUpdate

(* A number on its way into the database is one of a tag, or noise. *)
LEMMA GottenNext == Place /\ Values /\ Gotten /\ [Next]_vars => Gotten'
<1> SUFFICES ASSUME Place, Values, Gotten, [Next]_vars, pc' = "update" PROVE got' \in Numbers
  BY DEF Gotten
<1> USE DEF logger
<1>1. CASE got' = got /\ pc = "update"
  BY <1>1 DEF Gotten
<1>2. CASE Load \/ Round \/ Skip \/ OpenFails \/ Enter
  BY <1>2 DEF Load, Round, Skip, OpenFails, Enter, GoOn
<1>3. CASE Select \/ Update \/ WriteNothing
  BY <1>3 DEF Select, Update, WriteNothing, NextTag, GoOn, MayCrash
<1>4. CASE Read
  <2>1. got' = Shown(tag, memory[tag]) /\ pc = "call"
    BY <1>4 DEF Read, CallFails, NextTag, GoOn, MayCrash
  <2>2. tag \in Tags /\ memory[tag] \in Nat
    BY <2>1, TagsOfPlace DEF Values
  <2> QED
    BY <2>1, <2>2, ShownNumber
<1>5. CASE Write
  <2>1. got' = Sent(tag, memory'[tag]) /\ pc = "call" /\ Took(WriteValue[tag], tag) /\ WriteExist[tag]
    BY <1>5 DEF Write, CallFails, NextTag, GoOn, MayCrash
  <2>2. tag \in Tags /\ WriteValue[tag] \in Stores
    BY <2>1, TagsOfPlace DEF Values
  <2>3. memory'[tag] \in Nat
    BY <2>1, <2>2, TookValue
  <2> QED
    BY <2>1, <2>2, <2>3, ShownNumber
<1>6. CASE ModbusRead
  BY <1>6, ReadOfNumbers
<1>7. CASE Late \/ Store \/ RowGoes \/ Change \/ Signal \/ Tick \/ LateReply \/ UNCHANGED vars
  BY <1>1, <1>7 DEF Late, Store, RowGoes, Change, Signal, Tick, LateReply, vars
<1> QED
  BY <1>1, <1>2, <1>3, <1>4, <1>5, <1>6, <1>7
     DEF Next, Logger, World, Df1Logger, ModbusLogger, ModbusMain, ModbusRound, ModbusOpenFails,
         ModbusEnter, ModbusSelect, ModbusUpdate

Inv == Place /\ Values /\ Gotten

LEMMA InvInit == Init => Inv
<1> SUFFICES ASSUME Init PROVE Inv
  OBVIOUS
<1>1. Place
  BY Sizes DEF Init, Place
<1>2. Values
  <2>1. 0 \in 0 .. MaxFaults /\ MaxFaults \in 0 .. MaxFaults /\ 0 \in 0 .. MaxStores /\ 0 \in 0 .. Cap
    BY Sizes DEF Cap
  <2>2. /\ WriteExist \in [Tags -> BOOLEAN] /\ WriteValue \in [Tags -> Stores \cup {None}]
        /\ \A t \in Tags : WriteExist[t] => WriteValue[t] # None
        /\ row \in [Tags -> BOOLEAN] /\ mailbox \in [Tags -> Stores \cup {None}]
    BY DEF Init
  <2>3. written \in [Stores -> 0 .. Cap] /\ failed \in [Stores -> Nat]
    BY <2>1 DEF Init
  <2>4. stores \in 0 .. MaxStores /\ selected \in 0 .. stores /\ faults \in 0 .. MaxFaults
    BY <2>1 DEF Init
  <2>5. snapshot \in [Tags -> Numbers] /\ memory \in [Tags -> Nat] /\ got \in Numbers \cup {None}
    <3>1. \A t \in Tags : Shown(t, 0) \in Numbers
      BY ShownNumber
    <3> QED
      BY <3>1 DEF Init
  <2>6. /\ input \in [PLCs -> Seq(Numbers)] /\ disturbed \subseteq PLCs
        /\ unanswered \in [plc : PLCs, tag : Tags] \cup {None}
        /\ late \in [tag : Tags, value : Stores] \cup {None}
    <3>1. <<>> \in Seq(Numbers)
      OBVIOUS
    <3> QED
      BY <3>1 DEF Init
  <2>7. program \in {"TuxDf1", "TuxModbus"} /\ Comm_OK \in BOOLEAN
    BY DEF Init
  <2> QED
    BY <2>2, <2>3, <2>4, <2>5, <2>6, <2>7 DEF Values
<1>3. Gotten
  BY DEF Init, Gotten
<1> QED
  BY <1>1, <1>2, <1>3 DEF Inv

LEMMA InvNext == Inv /\ [Next]_vars => Inv'
BY PlaceNext, ValuesNext, GottenNext DEF Inv

LEMMA InvTyped == Inv => TypeOK
BY Typed DEF Inv

-----------------------------------------------------------------------------
(* The steps that change what the logger found, what it stores, or what    *)
(* the variables and columns are; every other step leaves them alone.      *)
Quiet == /\ UNCHANGED <<WriteExist, WriteValue, got, row, mailbox, snapshot, memory, late, stores,
                        selected, written, failed, input, unanswered, disturbed>>
         /\ pc' \in {"call", "update"} \/ pc = "update" => pc' = pc /\ tag' = tag /\ elt' = elt

LEMMA Steps ==
    ASSUME Inv, [Next]_vars
    PROVE  \/ Quiet \/ Select \/ Read \/ ModbusRead \/ Write \/ Update
           \/ Late \/ LateReply \/ Store \/ RowGoes \/ Change
<1> USE DEF logger, database, device, rtu, ghosts
<1>1. CASE UNCHANGED vars
  BY <1>1 DEF vars, Quiet, tag
<1>2. CASE Load \/ Round \/ Skip \/ OpenFails \/ Enter
  BY <1>2 DEF Load, Round, Skip, OpenFails, Enter, GoOn, Quiet
<1>3. CASE WriteNothing
  BY <1>3 DEF WriteNothing, NextTag, GoOn, Quiet
<1>4. CASE Signal \/ Tick
  BY <1>4 DEF Signal, Tick, Quiet, tag
<1> QED
  BY <1>1, <1>2, <1>3, <1>4
     DEF Next, Logger, World, Df1Logger, ModbusLogger, ModbusMain, ModbusRound, ModbusOpenFails,
         ModbusEnter, ModbusSelect, ModbusUpdate

-----------------------------------------------------------------------------
(* Snapshots.  On a line that nothing has disturbed, the number on its way *)
(* into the database is of its tag, and not older than the snapshot nor    *)
(* newer than the variable.  On any line, all that is read or waits in the *)
(* input is of a tag of the line, or noise.                                *)
Clean(t) == \A p \in disturbed : t \notin TagsOf(p)

OfLine(p, v) == v = Garbled \/ (v.tag \in TagsOf(p) /\ v.change <= memory[v.tag])

Stored == \A t \in Tags : Clean(t) => snapshot[t].tag = t /\ snapshot[t].change <= memory[t]

OnTheWay == pc = "update" =>
    /\ OfLine(elt, got)
    /\ Clean(tag) => got.tag = tag /\ snapshot[tag].change <= got.change /\ got.change <= memory[tag]

Waiting == /\ \A p \in PLCs : \A i \in DOMAIN input[p] : OfLine(p, input[p][i])
           /\ \A p \in PLCs : p \notin disturbed => input[p] = <<>>
           /\ unanswered # None => /\ unanswered.plc \in disturbed
                                   /\ unanswered.tag \in TagsOf(unanswered.plc)

Fresh == Stored /\ OnTheWay /\ Waiting

OfTheLine(t, v) ==
    \/ v = Garbled
    \/ \E p \in PLCs : {t, v.tag} \subseteq TagsOf(p) /\ v.change <= memory[v.tag]

Advance == \A t \in Tags : snapshot'[t] # snapshot[t] =>
    LET now == snapshot'[t] IN
    /\ Clean(t) =>
          /\ now.tag = t /\ snapshot[t].change <= now.change /\ now.change <= memory[t]
    /\ OfTheLine(t, now)

LEMMA TagsOfTags == \A p \in PLCs : TagsOf(p) \subseteq Tags
BY DEF Tags

LEMMA FreshTypes ==
    ASSUME Inv
    PROVE  /\ snapshot \in [Tags -> Numbers] /\ memory \in [Tags -> Nat]
           /\ pc = "update" => got \in Numbers
           /\ pc \in {"select", "call", "update"} => tag \in Tags /\ elt \in PLCs /\ tag \in TagsOf(elt)
           /\ input \in [PLCs -> Seq(Numbers)] /\ disturbed \subseteq PLCs
           /\ unanswered \in [plc : PLCs, tag : Tags] \cup {None}
<1>1. pc \in {"select", "call", "update"} => elt \in PLCs /\ elt2 \in DOMAIN PlcTags[elt]
  BY DEF Inv, Place
<1>2. pc \in {"select", "call", "update"} => tag \in TagsOf(elt)
  BY <1>1 DEF TagsOf, tag
<1>3. pc \in {"select", "call", "update"} => tag \in Tags
  BY <1>1, <1>2, TagsOfTags
<1> QED
  BY <1>1, <1>2, <1>3 DEF Inv, Values, Gotten

(* A number of a line is older than its variable, whatever comes later.    *)
LEMMA NumberAges ==
    ASSUME NEW p \in PLCs, NEW v \in Numbers, OfLine(p, v),
           memory \in [Tags -> Nat], memory' \in [Tags -> Nat], \A u \in Tags : memory[u] <= memory'[u]
    PROVE  v = Garbled \/ (v.tag \in TagsOf(p) /\ v.change <= memory'[v.tag])
<1>1. v.change \in Nat /\ (v.tag \in TagsOf(p) => v.tag \in Tags)
  BY TagsOfTags DEF Numbers
<1> QED
  BY <1>1 DEF OfLine

(* What the program or a client does to the variables disturbs nothing.    *)
LEMMA StoredAges ==
    ASSUME Inv, Fresh, memory' \in [Tags -> Nat], \A u \in Tags : memory[u] <= memory'[u],
           UNCHANGED <<snapshot, disturbed>>
    PROVE  Stored'
<1>1. \A t \in Tags : snapshot[t].change \in Nat
  BY FreshTypes DEF Numbers
<1> QED
  BY <1>1, FreshTypes DEF Fresh, Stored, Clean

LEMMA WaitingAges ==
    ASSUME Inv, Fresh, memory' \in [Tags -> Nat], \A u \in Tags : memory[u] <= memory'[u],
           UNCHANGED <<input, unanswered, disturbed>>
    PROVE  Waiting'
<1>1. ASSUME NEW p \in PLCs, NEW i \in DOMAIN input[p] PROVE OfLine(p, input[p][i])'
  <2>1. input[p][i] \in Numbers /\ OfLine(p, input[p][i])
    BY FreshTypes DEF Fresh, Waiting
  <2>2. input[p][i] = Garbled \/ (input[p][i].tag \in TagsOf(p) /\ input[p][i].change <= memory'[input[p][i].tag])
    BY <2>1, FreshTypes, NumberAges
  <2> QED
    BY <2>2 DEF OfLine
<1> QED
  BY <1>1 DEF Fresh, Waiting

LEMMA OnTheWayAges ==
    ASSUME Inv, Fresh, memory' \in [Tags -> Nat], \A u \in Tags : memory[u] <= memory'[u],
           UNCHANGED <<pc, elt, tag, got, snapshot, disturbed>>
    PROVE  OnTheWay'
<1> SUFFICES ASSUME pc = "update" PROVE OnTheWay'
  BY DEF OnTheWay
<1>1. got \in Numbers /\ got.change \in Nat /\ elt \in PLCs /\ tag \in Tags
  BY FreshTypes DEF Numbers
<1>2. got = Garbled \/ (got.tag \in TagsOf(elt) /\ got.change <= memory'[got.tag])
  BY <1>1, FreshTypes, NumberAges DEF Fresh, OnTheWay
<1>3. Clean(tag) => got.tag = tag /\ snapshot[tag].change <= got.change /\ got.change <= memory'[tag]
  BY <1>1, FreshTypes DEF Fresh, OnTheWay
<1>4. Clean(tag)' = Clean(tag)
  BY DEF Clean
<1> QED
  BY <1>2, <1>3, <1>4 DEF OnTheWay, OfLine

(* A number as it is now: its own tag's, and the newest. *)
LEMMA NewestOfLine ==
    ASSUME Inv, Fresh, pc = "call", NEW v \in Numbers, v.tag = tag,
           memory' \in [Tags -> Nat], v.change = memory'[tag], \A u \in Tags : memory[u] <= memory'[u],
           snapshot' = snapshot, disturbed' = disturbed,
           got' = v, tag' = tag, elt' = elt
    PROVE  OnTheWay'
<1>1. tag \in Tags /\ elt \in PLCs /\ tag \in TagsOf(elt) /\ snapshot[tag].change \in Nat
  BY FreshTypes DEF Numbers
<1>2. Clean(tag) => snapshot[tag].change <= memory'[tag]
  BY <1>1, FreshTypes DEF Fresh, Stored
<1>3. Clean(tag)' => Clean(tag)
  BY DEF Clean
<1>4. memory'[tag] <= memory'[tag]
  BY <1>1
<1> QED
  BY <1>1, <1>2, <1>3, <1>4 DEF OnTheWay, OfLine

(* Replies of ModbusRead. *)
LEMMA FreshRead ==
    ASSUME Inv, Fresh, ModbusRead
    PROVE  Fresh' /\ Advance
<1> USE DEF rtu, database
<1>1. /\ UNCHANGED <<snapshot, memory>> /\ pc = "call"
      /\ disturbed' = disturbed \/ disturbed' = disturbed \cup {elt}
      /\ unanswered' \in {unanswered, None, [plc |-> elt, tag |-> tag]}
      /\ unanswered' \in {unanswered, None} \/ disturbed' = disturbed \cup {elt}
      /\ pc' = "update" => tag' = tag /\ elt' = elt
  BY DEF ModbusRead, CallFails, NextTag, GoOn, MayCrash, tag
<1>2. tag \in Tags /\ elt \in PLCs /\ tag \in TagsOf(elt) /\ input \in [PLCs -> Seq(Numbers)]
  BY <1>1, FreshTypes
<1> DEFINE own == Shown(tag, memory[tag])
<1>3. own \in Numbers /\ own.tag = tag /\ own.change = memory[tag] /\ memory[tag] \in Nat
  BY <1>2, FreshTypes, ShownNumber DEF Shown, Number
<1>4. OfLine(elt, own)
  BY <1>2, <1>3 DEF OfLine
<1> HIDE DEF own
<1>5. Stored' /\ Advance
  BY <1>1 DEF Fresh, Stored, Clean, Advance
<1>6. /\ \A p \in PLCs : p # elt => input'[p] = input[p]
      /\ \/ pc' # "update" /\ input'[elt] \in {input[elt], <<>>} /\ disturbed' = disturbed \cup {elt}
         \/ /\ pc' = "update" /\ got' = Garbled /\ input'[elt] = <<>>
            /\ disturbed' = disturbed \cup {elt} /\ unanswered' = unanswered
         \/ /\ pc' = "update" /\ UNCHANGED <<disturbed, unanswered>>
            /\ \/ input[elt] = <<>> /\ got' = own /\ input'[elt] = <<>>
               \/ /\ input[elt] # <<>> /\ got' = Head(input[elt])
                  /\ input'[elt] = Append(Tail(input[elt]), own)
  BY ReadOfLine DEF Inv, own
<1>7. unanswered' # None => unanswered'.plc \in disturbed' /\ unanswered'.tag \in TagsOf(unanswered'.plc)
  BY <1>1, <1>2 DEF Fresh, Waiting
<1>8. \A p \in PLCs : p # elt => \A i \in DOMAIN input'[p] : OfLine(p, input[p][i])'
  BY <1>1, <1>6 DEF Fresh, Waiting, OfLine
<1>9. \A i \in DOMAIN input[elt] : OfLine(elt, input[elt][i])
  BY <1>2 DEF Fresh, Waiting
<1>10. \A i \in DOMAIN input'[elt] : OfLine(elt, input'[elt][i])
  <2>1. CASE input'[elt] \in {input[elt], <<>>}
    BY <1>9, <2>1
  <2>2. CASE input[elt] # <<>> /\ input'[elt] = Append(Tail(input[elt]), own)
    <3> DEFINE rest == Tail(input[elt])
    <3>1. rest \in Seq(Numbers) /\ Len(rest) = Len(input[elt]) - 1
          /\ \A i \in 1 .. Len(rest) : rest[i] = input[elt][i + 1] /\ i + 1 \in DOMAIN input[elt]
      BY <1>2, <2>2
    <3> HIDE DEF rest
    <3>2. DOMAIN input'[elt] = 1 .. Len(rest) + 1
          /\ \A i \in 1 .. Len(rest) + 1 : input'[elt][i] = IF i = Len(rest) + 1 THEN own ELSE rest[i]
      BY <1>3, <2>2, <3>1 DEF rest
    <3> SUFFICES ASSUME NEW i \in 1 .. Len(rest) + 1 PROVE OfLine(elt, input'[elt][i])
      BY <3>2
    <3>3. CASE i = Len(rest) + 1
      BY <1>4, <3>2, <3>3
    <3>4. CASE i # Len(rest) + 1
      <4>1. i \in 1 .. Len(rest)
        BY <3>1, <3>4
      <4> QED
        BY <1>9, <3>1, <3>2, <3>4, <4>1
    <3> QED
      BY <3>3, <3>4
  <2> QED
    BY <1>6, <2>1, <2>2
<1>11. \A p \in PLCs : p \notin disturbed' => input'[p] = <<>>
  <2>1. \A p \in PLCs : p \notin disturbed => input[p] = <<>>
    BY DEF Fresh, Waiting
  <2> QED
    BY <1>1, <1>2, <1>6, <2>1
<1>12. Waiting'
  <2>1. \A p \in PLCs : \A i \in DOMAIN input'[p] : OfLine(p, input[p][i])'
    BY <1>1, <1>6, <1>8, <1>10 DEF OfLine
  <2> QED
    BY <1>7, <1>11, <2>1 DEF Waiting
<1>13. OnTheWay'
  <2> SUFFICES ASSUME pc' = "update" PROVE OnTheWay'
    BY DEF OnTheWay
  <2>1. tag' = tag /\ elt' = elt /\ (Clean(tag)' => Clean(tag))
    BY <1>1 DEF Clean
  <2>2. CASE got' = Garbled /\ disturbed' = disturbed \cup {elt}
    BY <1>2, <2>1, <2>2 DEF OnTheWay, OfLine, Clean
  <2>3. CASE got' = own /\ disturbed' = disturbed
    <3>1. \A u \in Tags : memory[u] <= memory'[u]
      BY <1>1, FreshTypes
    <3> QED
      BY <1>1, <1>2, <1>3, <2>1, <2>3, <3>1, FreshTypes, NewestOfLine
  <2>4. CASE input[elt] # <<>> /\ got' = Head(input[elt]) /\ disturbed' = disturbed
    <3>1. OfLine(elt, got')
      BY <1>2, <1>9, <2>4
    <3>2. ~Clean(tag)
      BY <1>2, <2>4 DEF Clean, Fresh, Waiting
    <3> QED
      BY <1>1, <2>1, <3>1, <3>2 DEF OnTheWay, OfLine
  <2> QED
    BY <1>6, <2>2, <2>3, <2>4
<1> QED
  BY <1>5, <1>12, <1>13 DEF Fresh

LEMMA FreshLate ==
    ASSUME Inv, Fresh, LateReply
    PROVE  Fresh' /\ Advance
<1> USE DEF logger, database, rtu, ghosts
<1>1. /\ UNCHANGED <<snapshot, memory, pc, elt, tag, got, disturbed>>
      /\ unanswered # None /\ unanswered' = None
  BY DEF LateReply, tag
<1> DEFINE p == unanswered.plc
           t == unanswered.tag
<1>2. p \in disturbed /\ t \in TagsOf(p)
  BY <1>1 DEF Fresh, Waiting
<1>3. PICK r \in Numbers :
           /\ r \in {Shown(t, memory[t]), Garbled} /\ p \in PLCs /\ t \in Tags
           /\ input' = [input EXCEPT ![p] = Append(input[p], r)]
  BY LateOfLine DEF Inv
<1>4. OfLine(p, r)
  BY <1>2, <1>3, FreshTypes DEF OfLine, Shown, Number
<1>5. input \in [PLCs -> Seq(Numbers)]
  BY FreshTypes
<1> HIDE DEF p, t
<1>6. \A q \in PLCs : \A i \in DOMAIN input'[q] : OfLine(q, input'[q][i])
  <2> SUFFICES ASSUME NEW q \in PLCs, NEW i \in DOMAIN input'[q] PROVE OfLine(q, input'[q][i])
    OBVIOUS
  <2>1. CASE q # p
    BY <1>3, <1>5, <2>1 DEF Fresh, Waiting
  <2>2. CASE q = p
    <3>1. input'[p] = Append(input[p], r) /\ input[p] \in Seq(Numbers)
      BY <1>3, <1>5
    <3>2. (i \in DOMAIN input[p] /\ input'[p][i] = input[p][i]) \/ input'[p][i] = r
      BY <1>3, <2>2, <3>1
    <3> QED
      BY <1>3, <1>4, <2>2, <3>2 DEF Fresh, Waiting
  <2> QED
    BY <2>1, <2>2
<1>7. Waiting'
  <2>1. \A q \in PLCs : q \notin disturbed => input'[q] = <<>>
    BY <1>2, <1>3, <1>5 DEF Fresh, Waiting
  <2> QED
    BY <1>1, <1>6, <2>1 DEF Waiting, OfLine
<1> QED
  BY <1>1, <1>7 DEF Fresh, Stored, OnTheWay, OfLine, Clean, Advance

LEMMA FreshNext == Inv /\ Fresh /\ [Next]_vars => Fresh' /\ Advance
<1> SUFFICES ASSUME Inv, Fresh, [Next]_vars PROVE Fresh' /\ Advance
  OBVIOUS
<1> USE DEF logger, database, device, rtu, ghosts
<1>0. /\ snapshot \in [Tags -> Numbers] /\ memory \in [Tags -> Nat]
      /\ pc \in {"select", "call", "update"} => tag \in Tags /\ elt \in PLCs /\ tag \in TagsOf(elt)
      /\ \A u \in Tags : memory[u] <= memory[u]
  BY FreshTypes
<1>1. CASE Quiet
  BY <1>1 DEF Quiet, Fresh, Stored, OnTheWay, Waiting, OfLine, Clean, Advance
<1>2. CASE Select
  <2>1. pc' # "update" /\ UNCHANGED <<snapshot, memory, input, unanswered, disturbed>>
    BY <1>2 DEF Select, NextTag, GoOn, MayCrash
  <2> QED
    BY <2>1 DEF Fresh, Stored, OnTheWay, Waiting, OfLine, Clean, Advance
<1>3. CASE Read
  <2>1. /\ UNCHANGED <<snapshot, memory, input, unanswered, disturbed>> /\ pc = "call"
        /\ pc' = "update" => got' = Shown(tag, memory[tag]) /\ tag' = tag /\ elt' = elt
    BY <1>3 DEF Read, CallFails, NextTag, GoOn, MayCrash, tag
  <2>2. Stored' /\ Waiting' /\ Advance
    BY <2>1 DEF Fresh, Stored, Waiting, OfLine, Clean, Advance
  <2>3. OnTheWay'
    <3> SUFFICES ASSUME pc' = "update" PROVE OnTheWay'
      BY DEF OnTheWay
    <3> DEFINE v == Shown(tag, memory[tag])
    <3>1. v \in Numbers /\ v.tag = tag /\ v.change = memory'[tag] /\ got' = v
      BY <1>0, <2>1, ShownNumber DEF Shown, Number
    <3> HIDE DEF v
    <3> QED
      BY <1>0, <2>1, <3>1, NewestOfLine
  <2> QED
    BY <2>2, <2>3 DEF Fresh
<1>4. CASE Write
  <2> DEFINE v == WriteValue[tag]
  <2>1. tag \in Tags /\ v \in Stores
    BY <1>0, <1>4 DEF Write, Inv, Values
  <2>2. /\ UNCHANGED <<snapshot, input, unanswered, disturbed>> /\ pc = "call"
        /\ memory' = memory \/ Took(v, tag)
        /\ pc' = "update" => got' = Sent(tag, memory'[tag]) /\ tag' = tag /\ elt' = elt
    BY <1>4 DEF Write, CallFails, NextTag, GoOn, MayCrash, tag
  <2>3. memory' \in [Tags -> Nat] /\ \A u \in Tags : memory[u] <= memory'[u]
    BY <1>0, <2>1, <2>2, TookValue DEF Inv
  <2>4. Stored' /\ Waiting' /\ Advance
    BY <2>2, <2>3, StoredAges, WaitingAges DEF Advance
  <2>5. OnTheWay'
    <3> SUFFICES ASSUME pc' = "update" PROVE OnTheWay'
      BY DEF OnTheWay
    <3> DEFINE n == Sent(tag, memory'[tag])
    <3>1. n \in Numbers /\ n.tag = tag /\ n.change = memory'[tag] /\ got' = n
      BY <2>1, <2>2, <2>3, ShownNumber DEF Sent, Number
    <3> HIDE DEF n
    <3> QED
      BY <2>2, <2>3, <3>1, NewestOfLine
  <2> QED
    BY <2>4, <2>5 DEF Fresh
<1>5. CASE Update
  <2>1. /\ tag \in Tags /\ elt \in PLCs /\ tag \in TagsOf(elt) /\ pc = "update" /\ pc' # "update"
        /\ UNCHANGED <<memory, input, unanswered, disturbed>>
        /\ snapshot' = snapshot \/ snapshot' = [snapshot EXCEPT ![tag] = got]
    BY <1>0, <1>5 DEF Update, Snapshot, NextTag, GoOn
  <2>2. /\ OfLine(elt, got)
        /\ Clean(tag) => got.tag = tag /\ snapshot[tag].change <= got.change /\ got.change <= memory[tag]
    BY <2>1 DEF Fresh, OnTheWay
  <2>3. Waiting' /\ OnTheWay'
    BY <2>1 DEF Fresh, Waiting, OnTheWay, OfLine
  <2>4. Stored' /\ Advance
    <3>1. CASE snapshot' = snapshot
      BY <2>1, <3>1 DEF Fresh, Stored, Clean, Advance
    <3>2. CASE snapshot' = [snapshot EXCEPT ![tag] = got]
      <4>1. snapshot'[tag] = got /\ \A t \in Tags : t # tag => snapshot'[t] = snapshot[t]
        BY <1>0, <2>1, <3>2
      <4>2. OfTheLine(tag, got)
        BY <2>1, <2>2 DEF OfLine, OfTheLine
      <4>3. Stored'
        BY <2>1, <2>2, <4>1 DEF Fresh, Stored, Clean
      <4>4. Advance
        BY <2>1, <2>2, <4>1, <4>2 DEF Advance
      <4> QED
        BY <4>3, <4>4
    <3> QED
      BY <2>1, <3>1, <3>2
  <2> QED
    BY <2>3, <2>4 DEF Fresh
<1>6. CASE Late
  <2>1. /\ late.value \in Stores /\ late.tag \in Tags /\ Took(late.value, late.tag)
        /\ UNCHANGED <<snapshot, pc, elt, got, tag, input, unanswered, disturbed>>
    BY <1>6 DEF Late, Inv, Values, tag
  <2>2. memory' \in [Tags -> Nat] /\ \A u \in Tags : memory[u] <= memory'[u]
    BY <2>1, TookValue DEF Inv
  <2> QED
    BY <2>1, <2>2, StoredAges, WaitingAges, OnTheWayAges DEF Fresh, Advance
<1>7. CASE Store \/ RowGoes
  BY <1>7 DEF Store, RowGoes, Fresh, Stored, OnTheWay, Waiting, OfLine, Clean, Advance, tag
<1>8. CASE Change
  <2>1. /\ UNCHANGED <<snapshot, pc, elt, got, tag, input, unanswered, disturbed>>
        /\ \E t \in Tags : memory' = [memory EXCEPT ![t] = @ + 1]
    BY <1>8 DEF Change, tag
  <2>2. memory' \in [Tags -> Nat] /\ \A u \in Tags : memory[u] <= memory'[u]
    BY <1>0, <2>1
  <2> QED
    BY <2>1, <2>2, StoredAges, WaitingAges, OnTheWayAges DEF Fresh, Advance
<1>9. CASE ModbusRead
  BY <1>9, FreshRead
<1>10. CASE LateReply
  BY <1>10, FreshLate
<1> QED
  BY <1>1, <1>2, <1>3, <1>4, <1>5, <1>6, <1>7, <1>8, <1>9, <1>10, Steps

(* A snapshot never goes back, and is never the value of another tag, as   *)
(* long as no exchange of its line in TuxModbus was disturbed; and never   *)
(* the value of a tag of another line.                                     *)
THEOREM SnapshotsDoAdvance == Spec => SnapshotsAdvance
<1>1. Init => Inv /\ Fresh
  <2> SUFFICES ASSUME Init PROVE Fresh
    BY InvInit
  <2> QED
    BY DEF Init, Fresh, Stored, OnTheWay, Waiting, Shown, Number
<1>2. Inv /\ Fresh /\ [Next]_vars => Inv' /\ Fresh' /\ [Advance]_vars
  BY InvNext, FreshNext
<1>3. [][Advance]_vars => SnapshotsAdvance
  BY DEF SnapshotsAdvance, Advance, Clean, OfTheLine
<1> QED
  BY <1>1, <1>2, <1>3, PTL DEF Spec

-----------------------------------------------------------------------------
(* The mailbox.  From the select to the update, the mailbox of the tag is  *)
(* empty, holds what the select found, or holds a later store; and at the  *)
(* update the PLC has taken what the select found.                         *)
Gone == \A t \in Tags : ~row[t] => mailbox[t] = None

Found == \/ mailbox[tag] = None
         \/ mailbox[tag] = WriteValue[tag]
         \/ mailbox[tag] > selected

Held == pc \in {"call", "update"} /\ WriteExist[tag] =>
            /\ Found
            /\ pc = "update" => written[WriteValue[tag]] > 0

Lost == \A t \in Tags : mailbox[t] # None /\ mailbox'[t] = None /\ row'[t] =>
            \/ mailbox[t] = WriteValue[t] /\ written[mailbox[t]] > 0
            \/ mailbox[t] > selected /\ t = tag

LEMMA GoneNext == Inv /\ Gone /\ [Next]_vars => Gone'
<1> SUFFICES ASSUME Inv, Gone, [Next]_vars PROVE Gone'
  OBVIOUS
<1> USE DEF logger, database, device, rtu, ghosts
<1>0. row \in [Tags -> BOOLEAN] /\ mailbox \in [Tags -> Stores \cup {None}]
  BY DEF Inv, Values
<1>1. CASE Quiet \/ Select \/ Read \/ ModbusRead \/ Write \/ Late \/ LateReply \/ Change
  BY <1>1 DEF Quiet, Select, Read, ModbusRead, Write, Late, LateReply, Change, Gone
<1>2. CASE Update
  <2>1. row' = row /\ (mailbox' = mailbox \/ mailbox' = [mailbox EXCEPT ![tag] = None])
    BY <1>2 DEF Update, Cleared
  <2> QED
    BY <1>0, <2>1 DEF Gone
<1>3. CASE Store
  <2>1. row' = row /\ \E t \in Tags : row[t] /\ mailbox' = [mailbox EXCEPT ![t] = stores']
    BY <1>3 DEF Store
  <2> QED
    BY <1>0, <2>1 DEF Gone
<1>4. CASE RowGoes
  <2>1. \E t \in Tags : row' = [row EXCEPT ![t] = FALSE] /\ mailbox' = [mailbox EXCEPT ![t] = None]
    BY <1>4 DEF RowGoes
  <2> QED
    BY <1>0, <2>1 DEF Gone
<1> QED
  BY <1>1, <1>2, <1>3, <1>4, Steps

LEMMA HeldNext == Inv /\ Gone /\ Held /\ [Next]_vars => Held' /\ Lost
<1> SUFFICES ASSUME Inv, Gone, Held, [Next]_vars PROVE Held' /\ Lost
  OBVIOUS
<1> USE DEF logger, database, device, rtu, ghosts
<1>0. /\ row \in [Tags -> BOOLEAN] /\ mailbox \in [Tags -> Stores \cup {None}]
      /\ WriteExist \in [Tags -> BOOLEAN] /\ WriteValue \in [Tags -> Stores \cup {None}]
      /\ \A t \in Tags : WriteExist[t] => WriteValue[t] \in Stores
      /\ written \in [Stores -> 0 .. Cap] /\ stores \in Nat /\ selected \in 0 .. stores
      /\ pc \in {"select", "call", "update"} => tag \in Tags
  BY TagsOfPlace, Sizes DEF Inv, Values
<1>1. CASE Quiet \/ Change \/ LateReply
  BY <1>0, <1>1 DEF Quiet, Change, LateReply, Held, Found, Lost, tag
<1>2. CASE Select
  <2>1. mailbox' = mailbox
    BY <1>2 DEF Select
  <2>2. CASE pc' = "call"
    <3>1. tag \in Tags /\ ReadWriteValue /\ tag' = tag
      BY <1>0, <1>2, <2>2 DEF Select, NextTag, GoOn, MayCrash, tag
    <3>2. CASE row[tag]
      BY <1>0, <2>1, <2>2, <3>1, <3>2 DEF ReadWriteValue, Held, Found, Lost
    <3>3. CASE ~row[tag]
      BY <1>0, <2>1, <2>2, <3>1, <3>3 DEF ReadWriteValue, Held, Found, Lost, Gone
    <3> QED
      BY <3>2, <3>3
  <2>3. CASE pc' # "call"
    <3>1. pc' # "update"
      BY <1>2, <2>3 DEF Select, NextTag, GoOn, MayCrash
    <3> QED
      BY <2>1, <2>3, <3>1 DEF Held, Lost
  <2> QED
    BY <2>2, <2>3
<1>3. CASE Read \/ ModbusRead
  <2>1. /\ UNCHANGED <<mailbox, WriteExist>> /\ ~WriteExist[tag] /\ pc' # "call"
        /\ pc' = "update" => tag' = tag
    BY <1>3 DEF Read, ModbusRead, CallFails, NextTag, GoOn, MayCrash, tag
  <2> QED
    BY <2>1 DEF Held, Lost
<1>4. CASE Write
  <2>1. tag \in Tags /\ WriteValue[tag] \in Stores
    BY <1>0, <1>4 DEF Write
  <2>2. /\ UNCHANGED <<mailbox, WriteExist, WriteValue, selected>> /\ pc' # "call"
        /\ pc = "call" /\ WriteExist[tag]
        /\ pc' = "update" => tag' = tag /\ Took(WriteValue[tag], tag)
    BY <1>4 DEF Write, CallFails, NextTag, GoOn, MayCrash, tag
  <2>3. pc' = "update" => written'[WriteValue[tag]] > 0
    BY <2>1, <2>2, TookValue DEF Inv
  <2> QED
    BY <1>0, <2>1, <2>2, <2>3 DEF Held, Found, Lost
<1>5. CASE Update
  <2>1. /\ tag \in Tags /\ pc = "update" /\ pc' \notin {"call", "update"}
        /\ mailbox' = mailbox \/ (WriteExist[tag] /\ mailbox' = [mailbox EXCEPT ![tag] = None])
    BY <1>0, <1>5 DEF Update, Cleared, NextTag, GoOn
  <2> QED
    BY <1>0, <2>1 DEF Held, Found, Lost
<1>6. CASE Late
  <2>1. late.value \in Stores /\ late.tag \in Tags /\ Took(late.value, late.tag)
    BY <1>6 DEF Late, Inv, Values
  <2>2. written' \in [Stores -> 0 .. Cap] /\ \A w \in Stores : written[w] > 0 => written'[w] > 0
    BY <2>1, TookValue DEF Inv
  <2>3. UNCHANGED <<mailbox, WriteExist, WriteValue, selected, pc, tag>>
    BY <1>6 DEF Late, tag
  <2> QED
    BY <1>0, <2>2, <2>3 DEF Held, Found, Lost
<1>7. CASE Store
  <2>1. PICK t \in Tags : mailbox' = [mailbox EXCEPT ![t] = stores + 1]
    BY <1>7 DEF Store
  <2>2. UNCHANGED <<WriteExist, WriteValue, selected, pc, tag, written>>
    BY <1>7 DEF Store, tag
  <2>3. stores + 1 # None /\ stores + 1 > selected
    BY <1>0
  <2> QED
    BY <1>0, <2>1, <2>2, <2>3 DEF Held, Found, Lost
<1>8. CASE RowGoes
  <2>1. PICK t \in Tags : row' = [row EXCEPT ![t] = FALSE] /\ mailbox' = [mailbox EXCEPT ![t] = None]
    BY <1>8 DEF RowGoes
  <2>2. UNCHANGED <<WriteExist, WriteValue, selected, pc, tag, written>>
    BY <1>8 DEF RowGoes, tag
  <2> QED
    BY <1>0, <2>1, <2>2 DEF Held, Found, Lost
<1> QED
  BY <1>1, <1>2, <1>3, <1>4, <1>5, <1>6, <1>7, <1>8, Steps

(* A value that is lost came after the select of the pass that lost it.    *)
THEOREM OnlyLateStoresGetLost == Spec => OnlyLateStoresAreLost
<1>1. Init => Inv /\ Gone /\ Held
  BY InvInit DEF Init, Gone, Held
<1>2. Inv /\ Gone /\ Held /\ [Next]_vars => Inv' /\ Gone' /\ Held' /\ [Lost]_vars
  BY InvNext, GoneNext, HeldNext
<1>3. [][Lost]_vars => OnlyLateStoresAreLost
  BY DEF OnlyLateStoresAreLost, Lost
<1> QED
  BY <1>1, <1>2, <1>3, PTL DEF Spec

-----------------------------------------------------------------------------
(* Writes.  Stores are numbered as they come, and a number is in one       *)
(* mailbox at most, or found in one by the last select.                    *)
Numbered == /\ \A t \in Tags : /\ mailbox[t] # None => mailbox[t] <= stores
                               /\ WriteValue[t] # None => WriteValue[t] <= stores
            /\ late # None => late.value <= stores
            /\ \A v \in Stores : written[v] > 0 => v <= stores

Unique == \A t, u \in Tags : mailbox[t] # None /\ mailbox[t] \in {mailbox[u], WriteValue[u]} => t = u

LEMMA NumberedNext == Inv /\ Numbered /\ Unique /\ [Next]_vars => Numbered' /\ Unique'
<1> SUFFICES ASSUME Inv, Numbered, Unique, [Next]_vars PROVE Numbered' /\ Unique'
  OBVIOUS
<1> USE DEF logger, database, device, rtu, ghosts
<1>0. /\ row \in [Tags -> BOOLEAN] /\ mailbox \in [Tags -> Stores \cup {None}]
      /\ WriteExist \in [Tags -> BOOLEAN] /\ WriteValue \in [Tags -> Stores \cup {None}]
      /\ \A t \in Tags : WriteExist[t] => WriteValue[t] \in Stores
      /\ written \in [Stores -> 0 .. Cap] /\ stores \in Nat
      /\ pc \in {"select", "call", "update"} => tag \in Tags
  BY TagsOfPlace, Sizes DEF Inv, Values
<1>1. CASE Quiet \/ Read \/ ModbusRead \/ Change \/ LateReply
  BY <1>1 DEF Quiet, Read, ModbusRead, Change, LateReply, Numbered, Unique
<1>2. CASE Select
  <2>1. UNCHANGED <<mailbox, late, written, stores>> /\ tag \in Tags
    BY <1>0, <1>2 DEF Select
  <2>2. \/ WriteValue' = WriteValue
        \/ mailbox[tag] # None /\ WriteValue' = [WriteValue EXCEPT ![tag] = mailbox[tag]]
    BY <1>2 DEF Select, ReadWriteValue
  <2>3. CASE WriteValue' = WriteValue
    BY <2>1, <2>3 DEF Numbered, Unique
  <2>4. CASE mailbox[tag] # None /\ WriteValue' = [WriteValue EXCEPT ![tag] = mailbox[tag]]
    <3>1. WriteValue'[tag] = mailbox[tag] /\ \A u \in Tags : u # tag => WriteValue'[u] = WriteValue[u]
      BY <1>0, <2>1, <2>4
    <3>2. Numbered'
      BY <2>1, <2>4, <3>1 DEF Numbered
    <3>3. Unique'
      BY <2>1, <2>4, <3>1 DEF Unique
    <3> QED
      BY <3>2, <3>3
  <2> QED
    BY <2>2, <2>3, <2>4
<1>3. CASE Write
  <2> DEFINE v == WriteValue[tag]
  <2>1. tag \in Tags /\ v \in Stores /\ v <= stores
    BY <1>0, <1>3, StoreNumbers DEF Write, Numbered
  <2>2. /\ UNCHANGED <<mailbox, WriteValue, stores>>
        /\ written' = written \/ Took(v, tag)
        /\ late' \in {late, None, [tag |-> tag, value |-> v]}
    BY <1>3 DEF Write
  <2>3. \A w \in Stores : written'[w] > 0 => written[w] > 0 \/ w = v
    BY <1>0, <2>1, <2>2, TookValue DEF Inv
  <2>4. late' # None => late'.value <= stores
    BY <2>1, <2>2 DEF Numbered
  <2> QED
    BY <2>1, <2>2, <2>3, <2>4 DEF Numbered, Unique
<1>4. CASE Update
  <2>1. UNCHANGED <<WriteValue, late, written, stores>> /\ tag \in Tags
    BY <1>0, <1>4 DEF Update
  <2>2. mailbox' = mailbox \/ mailbox' = [mailbox EXCEPT ![tag] = None]
    BY <1>4 DEF Update, Cleared
  <2>3. \A t \in Tags : mailbox'[t] \in {mailbox[t], None}
    BY <1>0, <2>1, <2>2
  <2> QED
    BY <2>1, <2>3 DEF Numbered, Unique
<1>5. CASE Late
  <2>1. /\ late.value \in Stores /\ late.tag \in Tags /\ Took(late.value, late.tag)
        /\ late' = None /\ late.value <= stores /\ UNCHANGED <<WriteValue, mailbox, stores>>
    BY <1>5 DEF Late, Inv, Values, Numbered
  <2>2. \A w \in Stores : written'[w] > 0 => written[w] > 0 \/ w = late.value
    BY <2>1, TookValue DEF Inv
  <2> QED
    BY <2>1, <2>2 DEF Numbered, Unique
<1>6. CASE Store
  <2>1. PICK t \in Tags : mailbox' = [mailbox EXCEPT ![t] = stores + 1]
    BY <1>6 DEF Store
  <2>2. UNCHANGED <<WriteValue, late, written>> /\ stores' = stores + 1
    BY <1>6 DEF Store
  <2>3. mailbox'[t] = stores + 1 /\ \A u \in Tags : u # t => mailbox'[u] = mailbox[u]
    BY <1>0, <2>1
  <2>4. \A u \in Tags : mailbox[u] # stores + 1 /\ WriteValue[u] # stores + 1
    <3> SUFFICES ASSUME NEW u \in Tags PROVE mailbox[u] # stores + 1 /\ WriteValue[u] # stores + 1
      OBVIOUS
    <3>1. stores + 1 # None /\ ~(stores + 1 <= stores)
      BY <1>0, StoreNumbers
    <3>2. mailbox[u] # stores + 1
      BY <3>1 DEF Numbered
    <3>3. WriteValue[u] # stores + 1
      BY <3>1 DEF Numbered
    <3> QED
      BY <3>2, <3>3
  <2>5. Unique'
    <3> SUFFICES ASSUME NEW u \in Tags, NEW w \in Tags,
                        mailbox'[u] # None, mailbox'[u] \in {mailbox'[w], WriteValue[w]}
                 PROVE  u = w
      BY <2>2 DEF Unique
    <3>1. CASE u = t
      BY <2>3, <2>4, <3>1
    <3>2. CASE u # t /\ w # t
      BY <2>3, <3>2 DEF Unique
    <3>3. CASE u # t /\ w = t
      BY <2>3, <2>4, <3>3 DEF Unique
    <3> QED
      BY <3>1, <3>2, <3>3
  <2>6. \A u \in Tags : mailbox'[u] # None => mailbox'[u] <= stores + 1
    BY <1>0, <2>3 DEF Numbered, Stores
  <2>7. \A u \in Tags : WriteValue[u] # None => WriteValue[u] <= stores + 1
    BY <1>0 DEF Numbered, Stores
  <2>8. late # None => late.value <= stores + 1
    BY <1>0 DEF Numbered, Inv, Values, Stores
  <2>9. \A w \in Stores : written[w] > 0 => w <= stores + 1
    <3>1. \A w \in Stores : w \in Nat /\ (written[w] > 0 => w <= stores)
      BY StoreNumbers DEF Numbered
    <3> QED
      BY <1>0, <3>1
  <2> QED
    BY <2>2, <2>5, <2>6, <2>7, <2>8, <2>9 DEF Numbered
<1>7. CASE RowGoes
  <2>1. PICK t \in Tags : mailbox' = [mailbox EXCEPT ![t] = None]
    BY <1>7 DEF RowGoes
  <2>2. UNCHANGED <<WriteValue, late, written, stores>>
    BY <1>7 DEF RowGoes
  <2>3. \A u \in Tags : mailbox'[u] \in {mailbox[u], None}
    BY <1>0, <2>1
  <2> QED
    BY <2>2, <2>3 DEF Numbered, Unique
<1> QED
  BY <1>1, <1>2, <1>3, <1>4, <1>5, <1>6, <1>7, Steps

(* What a value has cost: its writes, and the one the PLC may still come   *)
(* to.  Each but one is paid for by a failure; and as long as the value    *)
(* will be sent once more, all are.                                        *)
Due(v)   == IF late # None /\ late.value = v THEN 1 ELSE 0
Spent(v) == Least(written[v] + Due(v), Cap)

Sends(v)   == WriteExist[tag] /\ WriteValue[tag] = v
At(v)      == pc = "update" /\ Sends(v)
Active(v)  == (\E t \in Tags : mailbox[t] = v) \/ (pc = "call" /\ Sends(v))
Excused(v) == \E t \in Tags : ~row[t] /\ WriteValue[t] = v

Within(v) == /\ Spent(v) <= failed[v] + 1
             /\ Active(v) /\ ~At(v) => Spent(v) <= failed[v]

Budget == \A v \in Stores : Excused(v) \/ Within(v)

LEMMA TypesOf ==
    ASSUME Inv
    PROVE  /\ row \in [Tags -> BOOLEAN] /\ mailbox \in [Tags -> Stores \cup {None}]
           /\ WriteExist \in [Tags -> BOOLEAN] /\ WriteValue \in [Tags -> Stores \cup {None}]
           /\ \A t \in Tags : WriteExist[t] => WriteValue[t] \in Stores
           /\ written \in [Stores -> 0 .. Cap] /\ failed \in [Stores -> Nat]
           /\ pc \in {"select", "call", "update"} => tag \in Tags
           /\ Cap \in Nat /\ Stores \subseteq Nat /\ None \notin Stores
<1>1. Cap \in Nat /\ Stores \subseteq Nat /\ None \notin Stores
  BY Sizes, StoreNumbers DEF Cap
<1>2. pc \in {"select", "call", "update"} => tag \in Tags
  BY TagsOfPlace DEF Inv
<1>3. \A t \in Tags : WriteExist[t] => WriteValue[t] \in Stores
  <2>1. WriteValue \in [Tags -> Stores \cup {None}] /\ \A t \in Tags : WriteExist[t] => WriteValue[t] # None
    BY DEF Inv, Values
  <2> QED
    BY <2>1
<1> QED
  BY <1>1, <1>2, <1>3 DEF Inv, Values

LEMMA SpentNat ==
    ASSUME Inv, NEW v \in Stores
    PROVE  Spent(v) \in Nat /\ Spent(v) <= Cap /\ written[v] <= Spent(v)
BY TypesOf DEF Spent, Due, Least

LEMMA SpentNext ==
    ASSUME Inv', NEW v \in Stores
    PROVE  Spent(v)' \in Nat
<1>1. written'[v] \in Nat /\ Cap \in Nat
  BY Sizes DEF Inv, Values, Cap
<1> QED
  BY <1>1 DEF Spent, Due, Least

(* A row that is gone does not come back, and its WriteValue stays.        *)
LEMMA ExcusedStays ==
    ASSUME Inv, [Next]_vars, NEW v \in Stores, Excused(v)
    PROVE  Excused(v)'
<1> USE DEF logger, database, device, rtu, ghosts
<1>0. row \in [Tags -> BOOLEAN] /\ WriteValue \in [Tags -> Stores \cup {None}]
  BY TypesOf
<1>1. PICK t \in Tags : ~row[t] /\ WriteValue[t] = v
  BY DEF Excused
<1>2. CASE Quiet \/ Read \/ ModbusRead \/ Write \/ Update \/ Late \/ LateReply \/ Store \/ Change
  <2>1. UNCHANGED <<row, WriteValue>>
    BY <1>2 DEF Quiet, Read, ModbusRead, Write, Update, Late, LateReply, Store, Change
  <2> QED
    BY <1>1, <2>1 DEF Excused
<1>3. CASE Select
  <2>1. row' = row
    BY <1>3 DEF Select
  <2>2. WriteValue' = WriteValue \/ (row[tag] /\ WriteValue' = [WriteValue EXCEPT ![tag] = mailbox[tag]])
    BY <1>3 DEF Select, ReadWriteValue
  <2>3. WriteValue'[t] = WriteValue[t]
    BY <1>0, <1>1, <2>2
  <2> QED
    BY <1>1, <2>1, <2>3 DEF Excused
<1>4. CASE RowGoes
  <2>1. PICK u \in Tags : row' = [row EXCEPT ![u] = FALSE]
    BY <1>4 DEF RowGoes
  <2>2. ~row'[t] /\ WriteValue' = WriteValue
    BY <1>0, <1>1, <1>4, <2>1 DEF RowGoes
  <2> QED
    BY <1>1, <2>2 DEF Excused
<1> QED
  BY <1>2, <1>3, <1>4, Steps

(* A step that charges nothing and makes no value active keeps the budget. *)
LEMMA FreeStep ==
    ASSUME NEW v \in Stores, Within(v),
           Spent(v)' \in Nat, Spent(v) \in Nat, failed[v] \in Nat,
           Spent(v)' <= Spent(v), failed'[v] = failed[v],
           Active(v)' /\ ~At(v)' => Active(v) /\ ~At(v)
    PROVE  Within(v)'
BY DEF Within

LEMMA WriteWithin ==
    ASSUME Inv, Write, Inv', NEW w \in Stores, Within(w)
    PROVE  Within(w)'
<1> USE DEF logger, database, device, rtu, ghosts
<1> DEFINE v == WriteValue[tag]
<1>1. tag \in Tags /\ v \in Stores /\ pc = "call" /\ Sends(v)
  BY TypesOf DEF Write, Sends
<1>2. UNCHANGED <<mailbox, WriteExist, WriteValue>>
  BY DEF Write
<1>3. Spent(w) \in Nat /\ Spent(w)' \in Nat /\ failed[w] \in Nat
  BY SpentNat, SpentNext, TypesOf
<1>4. ~At(w) /\ (Active(w)' /\ ~At(w)' => Active(w))
  <2>1. pc' # "call" /\ (pc' = "update" => tag' = tag)
    BY DEF Write, CallFails, NextTag, GoOn, MayCrash, tag
  <2> QED
    BY <1>1, <1>2, <2>1 DEF Active, At, Sends
<1>5. \/ Took(v, tag) /\ late' \in {late, None}
      \/ written' = written /\ late' \in {late, [tag |-> tag, value |-> v]}
  BY DEF Write
<1>6. CASE w = v
  <2>1. Spent(w) <= failed[w]
    BY <1>1, <1>4, <1>6 DEF Within, Active
  <2>2. Spent(w)' <= Spent(w) + 1
    <3>1. written'[w] \in Nat /\ written[w] \in Nat /\ written'[w] <= written[w] + 1 /\ Cap \in Nat
      BY <1>1, <1>5, <1>6, TookValue, TypesOf DEF Inv, Least
    <3>2. Due(w) \in {0, 1} /\ Due(w)' \in {0, 1}
      BY DEF Due
    <3>3. written'[w] = written[w] \/ Due(w)' <= Due(w)
      BY <1>5, <3>2 DEF Due
    <3> QED
      BY <3>1, <3>2, <3>3 DEF Spent, Least
  <2>3. \/ failed'[w] = failed[w] + 1
        \/ failed'[w] = failed[w] /\ At(w)'
    <3>1. \/ failed' = [failed EXCEPT ![v] = @ + 1]
          \/ failed' = failed /\ pc' = "update" /\ tag' = tag
      BY DEF Write, tag
    <3> QED
      BY <1>1, <1>2, <1>6, <3>1, TypesOf DEF At, Sends
  <2> QED
    BY <1>3, <2>1, <2>2, <2>3 DEF Within
<1>7. CASE w # v
  <2>1. written'[w] = written[w] /\ failed'[w] = failed[w]
    <3>1. failed' = [failed EXCEPT ![v] = @ + 1] \/ failed' = failed
      BY DEF Write
    <3> QED
      BY <1>1, <1>5, <1>7, <3>1, TookValue, TypesOf DEF Inv
  <2>2. Due(w)' <= Due(w)
    BY <1>5, <1>7 DEF Due
  <2>3. Spent(w)' <= Spent(w)
    <3>1. written[w] \in Nat /\ Cap \in Nat /\ Due(w) \in {0, 1} /\ Due(w)' \in {0, 1}
      BY TypesOf DEF Due
    <3> QED
      BY <2>1, <2>2, <3>1 DEF Spent, Least
  <2> QED
    BY <1>3, <1>4, <2>1, <2>3, FreeStep
<1> QED
  BY <1>6, <1>7

LEMMA UpdateWithin ==
    ASSUME Inv, Unique, Update, Inv', NEW w \in Stores, Within(w)
    PROVE  Within(w)'
<1> USE DEF logger, database, device, rtu, ghosts
<1> DEFINE v == WriteValue[tag]
<1>1. /\ tag \in Tags /\ pc = "update" /\ UNCHANGED <<WriteExist, WriteValue, written, late>>
      /\ pc' \notin {"call", "update"}
  BY TypesOf DEF Update, NextTag, GoOn
<1>2. /\ Spent(w) \in Nat /\ Spent(w)' \in Nat /\ Spent(w) <= Cap /\ Spent(w)' = Spent(w)
      /\ failed[w] \in Nat /\ Cap \in Nat
  BY <1>1, SpentNat, TypesOf DEF Spent, Due
<1>3. Active(w)' => \E t \in Tags : mailbox'[t] = w
  BY <1>1 DEF Active
<1>4. CASE row[tag] /\ failed' = failed /\ mailbox' = IF WriteExist[tag] THEN Cleared(tag) ELSE mailbox
  <2>1. CASE At(w)
    <3>1. WriteExist[tag] /\ v = w /\ mailbox' = [mailbox EXCEPT ![tag] = None]
      BY <1>4, <2>1 DEF At, Sends, Cleared
    <3>2. \A t \in Tags : mailbox'[t] # w
      <4> SUFFICES ASSUME NEW t \in Tags, mailbox'[t] = w PROVE FALSE
        OBVIOUS
      <4>1. t # tag /\ mailbox[t] = w
        BY <1>1, <3>1, TypesOf
      <4> QED
        BY <1>1, <3>1, <4>1, TypesOf DEF Unique
    <3> QED
      BY <1>2, <1>3, <1>4, <3>2 DEF Within
  <2>2. CASE ~At(w)
    <3>1. \A t \in Tags : mailbox'[t] \in {mailbox[t], None}
      BY <1>1, <1>4, TypesOf DEF Cleared
    <3>2. Active(w)' => Active(w)
      BY <1>3, <3>1, TypesOf DEF Active
    <3> QED
      BY <1>2, <1>4, <2>2, <3>2, FreeStep
  <2> QED
    BY <2>1, <2>2
<1>5. CASE /\ mailbox' = mailbox
           /\ failed' = IF WriteExist[tag]
                        THEN [failed EXCEPT ![WriteValue[tag]] = Least(@ + 1, MaxFaults + 2)] ELSE failed
  <2>1. CASE At(w)
    <3>1. failed'[w] = Least(failed[w] + 1, Cap)
      BY <1>5, <2>1, TypesOf DEF At, Sends, Cap
    <3> QED
      BY <1>2, <3>1 DEF Within, Least
  <2>2. CASE ~At(w)
    <3>1. failed'[w] = failed[w]
      BY <1>1, <1>5, <2>2, TypesOf DEF At, Sends
    <3>2. Active(w)' => Active(w)
      BY <1>3, <1>5 DEF Active
    <3> QED
      BY <1>2, <2>2, <3>1, <3>2, FreeStep
  <2> QED
    BY <2>1, <2>2
<1> QED
  BY <1>4, <1>5 DEF Update

LEMMA BudgetNext == Inv /\ Numbered /\ Unique /\ Budget /\ [Next]_vars => Budget'
<1> SUFFICES ASSUME Inv, Numbered, Unique, Budget, [Next]_vars,
                    NEW w \in Stores, ~Excused(w)'
             PROVE  Within(w)'
  BY DEF Budget
<1> USE DEF logger, database, device, rtu, ghosts
<1>0. ~Excused(w) /\ Within(w) /\ Inv'
  BY ExcusedStays, InvNext DEF Budget
<1>n. Spent(w) \in Nat /\ Spent(w)' \in Nat /\ failed[w] \in Nat
  BY <1>0, SpentNat, SpentNext, TypesOf
<1>1. CASE Quiet \/ Change \/ LateReply
  <2>1. UNCHANGED <<WriteExist, WriteValue, mailbox, late, written, failed>>
    BY <1>1 DEF Quiet, Change, LateReply
  <2>2. pc' \in {"call", "update"} \/ pc = "update" => pc' = pc /\ tag' = tag
    BY <1>1 DEF Quiet, Change, LateReply, tag
  <2>3. Spent(w)' = Spent(w)
    BY <2>1 DEF Spent, Due
  <2>4. Active(w)' /\ ~At(w)' => Active(w) /\ ~At(w)
    BY <2>1, <2>2 DEF Active, At, Sends
  <2> QED
    BY <1>0, <1>n, <2>1, <2>3, <2>4, FreeStep
<1>2. CASE Select
  <2>1. UNCHANGED <<mailbox, row, late, written, failed>> /\ pc = "select" /\ tag \in Tags
    BY <1>2, TypesOf DEF Select
  <2>2. Spent(w)' = Spent(w)
    BY <2>1 DEF Spent, Due
  <2>3. Active(w)' => Active(w)
    <3> SUFFICES ASSUME pc' = "call", Sends(w)' PROVE \E t \in Tags : mailbox[t] = w
      BY <2>1 DEF Active
    <3>1. ReadWriteValue /\ tag' = tag
      BY <1>2 DEF Select, NextTag, GoOn, MayCrash, tag
    <3>2. row[tag]
      BY <1>0, <2>1, <3>1 DEF ReadWriteValue, Sends, Excused
    <3> QED
      BY <2>1, <3>1, <3>2, TypesOf DEF ReadWriteValue, Sends
  <2> QED
    BY <1>0, <1>n, <2>1, <2>2, <2>3, FreeStep DEF At
<1>3. CASE Read \/ ModbusRead
  <2>1. /\ UNCHANGED <<mailbox, late, written, failed>> /\ pc = "call" /\ pc' # "call"
    BY <1>3 DEF Read, ModbusRead, CallFails, NextTag, GoOn, MayCrash
  <2>2. Spent(w)' = Spent(w)
    BY <2>1 DEF Spent, Due
  <2>3. Active(w)' => Active(w) /\ ~At(w)
    BY <2>1 DEF Active, At
  <2> QED
    BY <1>0, <1>n, <2>1, <2>2, <2>3, FreeStep
<1>4. CASE Write
  BY <1>0, <1>4, WriteWithin
<1>5. CASE Update
  BY <1>0, <1>5, UpdateWithin
<1>6. CASE Late
  <2>1. /\ late # None /\ late' = None /\ late.value \in Stores /\ late.tag \in Tags
        /\ Took(late.value, late.tag)
        /\ UNCHANGED <<WriteExist, WriteValue, mailbox, failed, pc, tag>>
    BY <1>6 DEF Late, Inv, Values, tag
  <2>2. Spent(w)' = Spent(w)
    <3>1. written[w] \in 0 .. Cap /\ Cap \in Nat
      BY TypesOf
    <3>2. Due(w)' = 0
      BY <2>1 DEF Due
    <3>3. CASE w = late.value
      BY <2>1, <3>1, <3>2, <3>3, TookValue DEF Spent, Due, Least, Inv
    <3>4. CASE w # late.value
      BY <2>1, <3>1, <3>2, <3>4, TookValue DEF Spent, Due, Inv
    <3> QED
      BY <3>3, <3>4
  <2>3. Active(w)' /\ ~At(w)' => Active(w) /\ ~At(w)
    BY <2>1 DEF Active, At, Sends
  <2> QED
    BY <1>0, <1>n, <2>1, <2>2, <2>3, FreeStep
<1>7. CASE Store
  <2>1. PICK t \in Tags : mailbox' = [mailbox EXCEPT ![t] = stores + 1]
    BY <1>7 DEF Store
  <2>2. UNCHANGED <<WriteExist, WriteValue, late, written, failed, pc, tag>>
    BY <1>7 DEF Store, tag
  <2>3. Spent(w)' = Spent(w)
    BY <2>2 DEF Spent, Due
  <2>4. CASE w = stores + 1
    <3>1. stores \in Nat
      BY Sizes DEF Inv, Values
    <3>2. Spent(w) = 0
      BY <2>4, <3>1, TypesOf DEF Numbered, Spent, Due, Least
    <3> QED
      BY <1>n, <2>2, <2>3, <3>2 DEF Within
  <2>5. CASE w # stores + 1
    <3>1. \A u \in Tags : mailbox'[u] = w => mailbox[u] = w
      BY <2>1, <2>5, TypesOf
    <3>2. Active(w)' /\ ~At(w)' => Active(w) /\ ~At(w)
      BY <2>2, <3>1 DEF Active, At, Sends
    <3> QED
      BY <1>0, <1>n, <2>2, <2>3, <3>2, FreeStep
  <2> QED
    BY <2>4, <2>5
<1>8. CASE RowGoes
  <2>1. PICK t \in Tags : mailbox' = [mailbox EXCEPT ![t] = None]
    BY <1>8 DEF RowGoes
  <2>2. UNCHANGED <<WriteExist, WriteValue, late, written, failed, pc, tag>>
    BY <1>8 DEF RowGoes, tag
  <2>3. Spent(w)' = Spent(w)
    BY <2>2 DEF Spent, Due
  <2>4. \A u \in Tags : mailbox'[u] = w => mailbox[u] = w
    BY <2>1, TypesOf
  <2>5. Active(w)' /\ ~At(w)' => Active(w) /\ ~At(w)
    BY <2>2, <2>4 DEF Active, At, Sends
  <2> QED
    BY <1>0, <1>n, <2>2, <2>3, <2>5, FreeStep
<1> QED
  BY <1>1, <1>2, <1>3, <1>4, <1>5, <1>6, <1>7, <1>8, Steps

(* A value is written once, and once more for each failure, unless the row *)
(* of its tag is gone.                                                     *)
THEOREM ValuesAreWrittenOnce == Spec => []WrittenOnce
<1> DEFINE IInv == Inv /\ Numbered /\ Unique /\ Budget
<1>1. Init => IInv
  <2> SUFFICES ASSUME Init PROVE IInv
    OBVIOUS
  <2>1. Inv
    BY InvInit
  <2>2. Numbered /\ Unique
    BY DEF Init, Numbered, Unique
  <2>3. Budget
    BY TypesOf, <2>1 DEF Init, Budget, Within, Spent, Due, Active, At, Least
  <2> QED
    BY <2>1, <2>2, <2>3
<1>2. IInv /\ [Next]_vars => IInv'
  BY InvNext, NumberedNext, BudgetNext
<1>3. IInv => WrittenOnce
  <2> SUFFICES ASSUME IInv, NEW v \in Stores, written[v] > 1 + failed[v]
               PROVE  Excused(v)
    BY InvTyped DEF WrittenOnce, Excused
  <2>1. written[v] \in Nat /\ failed[v] \in Nat /\ Spent(v) \in Nat /\ written[v] <= Spent(v)
    BY SpentNat, TypesOf
  <2> QED
    BY <2>1 DEF Budget, Within
<1> HIDE DEF IInv
<1> QED
  BY <1>1, <1>2, <1>3, PTL DEF Spec

-----------------------------------------------------------------------------
(***************************************************************************)
(* The line.                                                               *)
(***************************************************************************)
HIDE MailAssumption
USE Df1Assumption, Df1NoReply

LEMMA Bounds ==
    /\ MaxCalls \in Nat /\ MaxNAK \in Nat /\ MaxENQ \in Nat /\ MaxTries \in Nat
    /\ MaxJobs \in Nat /\ MaxNoise \in Nat /\ TnsRange \in Nat /\ MaxCalls < TnsRange
OBVIOUS

Crc == {"good", "bad", "missing"}
ToSymbol   == [sym : {"ACK", "NAK", "ENQ"}, crc : {"none"}]
              \cup [sym : {"frame"}, call : Calls, tns : Tns, crc : Crc]
FromSymbol == [sym : {"ACK", "NAK", "ENQ", "STX"}, crc : {"none"}]
              \cup [sym : {"ETX"}, reply : Replies, crc : Crc]

LEMMA ToSymbols ==
    /\ \A c \in {"ACK", "NAK", "ENQ"} : Control(c) \in ToSymbol
    /\ call' \in Calls /\ tns' \in Tns => Command \in ToSymbol
BY DEF Control, Command, ToSymbol, Crc

LEMMA FromSymbols ==
    /\ \A c \in {"ACK", "NAK", "ENQ", "STX"} : Control(c) \in FromSymbol
    /\ \A r \in Replies : ReplyEnd(r) \in FromSymbol
BY DEF Control, ReplyEnd, FromSymbol, Crc

-----------------------------------------------------------------------------
(* What reading and disturbing leave of a line: symbols of what was there, *)
(* in their order.                                                         *)
Same(a, b) == /\ a.sym = b.sym
              /\ b.sym = "frame" => a.call = b.call /\ a.tns = b.tns
              /\ b.sym = "ETX" => a.reply = b.reply

Remains(r, q) == \E m \in [1 .. Len(r) -> 1 .. Len(q)] :
                    /\ \A i, j \in 1 .. Len(r) : i < j => m[i] < m[j]
                    /\ \A i \in 1 .. Len(r) : Same(r[i], q[m[i]])

LEMMA RemainsAll == ASSUME NEW q PROVE Remains(q, q)
<1> DEFINE m == [i \in 1 .. Len(q) |-> i]
<1>1. m \in [1 .. Len(q) -> 1 .. Len(q)]
  OBVIOUS
<1>2. \A i \in 1 .. Len(q) : Same(q[i], q[m[i]])
  BY DEF Same
<1>3. \A i, j \in 1 .. Len(q) : i < j => m[i] < m[j]
  OBVIOUS
<1> QED
  BY <1>1, <1>2, <1>3 DEF Remains

LEMMA RemainsTail ==
    ASSUME NEW S, NEW q \in Seq(S), q # <<>>
    PROVE  Tail(q) \in Seq(S) /\ Head(q) \in S /\ Head(q) = q[1] /\ Len(q) >= 1 /\ Remains(Tail(q), q)
<1>1. /\ Tail(q) \in Seq(S) /\ Head(q) \in S /\ Len(Tail(q)) = Len(q) - 1
      /\ \A i \in 1 .. Len(Tail(q)) : Tail(q)[i] = q[i + 1]
  BY HeadTailProperties
<1>2. Len(q) \in Nat /\ Len(q) >= 1 /\ Head(q) = q[1]
  BY EmptySeq, LenProperties
<1> DEFINE m == [i \in 1 .. Len(Tail(q)) |-> i + 1]
<1>3. m \in [1 .. Len(Tail(q)) -> 1 .. Len(q)]
  BY <1>1, <1>2
<1>4. \A i \in 1 .. Len(Tail(q)) : Same(Tail(q)[i], q[m[i]])
  BY <1>1 DEF Same
<1>5. \A i, j \in 1 .. Len(Tail(q)) : i < j => m[i] < m[j]
  BY <1>1, <1>2
<1> HIDE DEF m
<1> QED
  BY <1>1, <1>2, <1>3, <1>4, <1>5 DEF Remains

LEMMA RemainsWithout ==
    ASSUME NEW S, NEW q \in Seq(S), NEW k \in 1 .. Len(q)
    PROVE  RemoveAt(q, k) \in Seq(S) /\ Remains(RemoveAt(q, k), q)
<1> DEFINE a == SubSeq(q, 1, k - 1)
           b == SubSeq(q, k + 1, Len(q))
           r == RemoveAt(q, k)
<1>0. Len(q) \in Nat /\ \A i \in 1 .. Len(q) : q[i] \in S
  BY LenProperties, ElementOfSeq
<1>1. a \in Seq(S) /\ Len(a) = k - 1 /\ \A i \in 1 .. k - 1 : a[i] = q[i]
  <2>1. \A i \in 1 .. k - 1 : q[i] \in S
    BY <1>0
  <2>2. 1 \in Int /\ k - 1 \in Int
    BY <1>0
  <2>3. /\ a \in Seq(S)
        /\ Len(a) = IF 1 <= k - 1 THEN (k - 1) - 1 + 1 ELSE 0
        /\ \A i \in 1 .. (k - 1) - 1 + 1 : a[i] = q[1 + i - 1]
    BY <2>1, <2>2, SubSeqProperties
  <2> QED
    BY <1>0, <2>3
<1>2. b \in Seq(S) /\ Len(b) = Len(q) - k /\ \A i \in 1 .. Len(q) - k : b[i] = q[k + i]
  <2>1. \A i \in k + 1 .. Len(q) : q[i] \in S
    BY <1>0
  <2>2. k + 1 \in Int /\ Len(q) \in Int
    BY <1>0
  <2>3. /\ b \in Seq(S)
        /\ Len(b) = IF k + 1 <= Len(q) THEN Len(q) - (k + 1) + 1 ELSE 0
        /\ \A i \in 1 .. Len(q) - (k + 1) + 1 : b[i] = q[(k + 1) + i - 1]
    BY <2>1, <2>2, SubSeqProperties
  <2> QED
    BY <1>0, <2>3
<1>3. r = a \o b
  BY DEF RemoveAt
<1> HIDE DEF a, b, r
<1>4. /\ r \in Seq(S) /\ Len(r) = Len(a) + Len(b)
      /\ \A i \in 1 .. Len(a) + Len(b) : r[i] = IF i <= Len(a) THEN a[i] ELSE b[i - Len(a)]
  BY <1>1, <1>2, <1>3, ConcatProperties
<1>5. Len(r) = Len(q) - 1 /\ \A i \in 1 .. Len(r) : r[i] = q[IF i < k THEN i ELSE i + 1]
  <2>1. Len(r) = Len(q) - 1
    <3>1. Len(a) = k - 1 /\ Len(b) = Len(q) - k /\ Len(r) = Len(a) + Len(b)
      BY <1>1, <1>2, <1>4
    <3> QED
      BY <1>0, <3>1
  <2>2. ASSUME NEW i \in 1 .. Len(r) PROVE r[i] = q[IF i < k THEN i ELSE i + 1]
    <3>1. CASE i < k
      BY <1>0, <1>1, <1>2, <1>4, <2>1, <3>1
    <3>2. CASE ~(i < k)
      <4>1. i - Len(a) \in 1 .. Len(q) - k /\ k + (i - Len(a)) = i + 1
        BY <1>0, <1>1, <2>1, <3>2
      <4>2. r[i] = b[i - Len(a)]
        <5>1. i \in 1 .. Len(a) + Len(b) /\ ~(i <= Len(a))
          BY <1>0, <1>1, <1>4, <3>2
        <5> QED
          BY <1>4, <5>1
      <4> QED
        BY <1>2, <3>2, <4>1, <4>2
    <3> QED
      BY <3>1, <3>2
  <2> QED
    BY <2>1, <2>2
<1> DEFINE m == [i \in 1 .. Len(r) |-> IF i < k THEN i ELSE i + 1]
<1>6. m \in [1 .. Len(r) -> 1 .. Len(q)]
  BY <1>0, <1>5
<1>7. \A i \in 1 .. Len(r) : Same(r[i], q[m[i]])
  BY <1>5 DEF Same
<1>8. \A i, j \in 1 .. Len(r) : i < j => m[i] < m[j]
  BY <1>0, <1>5
<1> HIDE DEF m
<1>9. Remains(r, q)
  BY <1>6, <1>7, <1>8 DEF Remains
<1> QED
  BY <1>4, <1>9 DEF r

LEMMA RemainsDamaged ==
    ASSUME NEW S, NEW q \in Seq(S), NEW k \in 1 .. Len(q), NEW crc \in {"bad", "missing"},
           \A s \in S : Damage(s, crc) \in S /\ Same(Damage(s, crc), s)
    PROVE  /\ [q EXCEPT ![k] = Damage(q[k], crc)] \in Seq(S)
           /\ Remains([q EXCEPT ![k] = Damage(q[k], crc)], q)
<1> DEFINE e == Damage(q[k], crc)
           r == [q EXCEPT ![k] = e]
<1>1. q[k] \in S /\ e \in S /\ Same(e, q[k])
  BY ElementOfSeq
<1> HIDE DEF e
<1>2. /\ r \in Seq(S) /\ Len(r) = Len(q)
      /\ \A j \in 1 .. Len(q) : r[j] = IF j = k THEN e ELSE q[j]
  BY <1>1, ExceptSeq
<1> HIDE DEF r
<1> DEFINE m == [i \in 1 .. Len(q) |-> i]
<1>3. m \in [1 .. Len(r) -> 1 .. Len(q)]
  BY <1>2
<1>4. \A i \in 1 .. Len(r) : Same(r[i], q[m[i]])
  BY <1>1, <1>2 DEF Same
<1>5. \A i, j \in 1 .. Len(r) : i < j => m[i] < m[j]
  BY <1>2
<1> HIDE DEF m
<1>6. Remains(r, q)
  BY <1>3, <1>4, <1>5 DEF Remains
<1> QED
  BY <1>2, <1>6 DEF r, e

LEMMA RemainsDisturbed ==
    ASSUME NEW S \in {ToSymbol, FromSymbol}, NEW q \in Seq(S), NEW r \in Disturbed(q)
    PROVE  r \in Seq(S) /\ Remains(r, q)
<1>1. DOMAIN q = 1 .. Len(q)
  BY LenProperties
<1>2. \A crc \in {"bad", "missing"}, s \in S : Damage(s, crc) \in S /\ Same(Damage(s, crc), s)
  <2>1. CASE S = ToSymbol
    BY <2>1 DEF ToSymbol, Crc, Damage, Same
  <2>2. CASE S = FromSymbol
    <3> SUFFICES ASSUME NEW crc \in {"bad", "missing"}, NEW s \in FromSymbol
                 PROVE  Damage(s, crc) \in FromSymbol /\ Same(Damage(s, crc), s)
      BY <2>2
    <3>1. CASE s.crc = "none"
      BY <3>1 DEF Damage, Same
    <3>2. CASE s.crc # "none"
      <4>1. s \in [sym : {"ETX"}, reply : Replies, crc : Crc]
        BY <3>2 DEF FromSymbol
      <4> QED
        BY <3>2, <4>1 DEF FromSymbol, Crc, Damage, Same
    <3> QED
      BY <3>1, <3>2
  <2> QED
    BY <2>1, <2>2
<1>3. CASE \E k \in DOMAIN q : r = RemoveAt(q, k)
  BY <1>1, <1>3, RemainsWithout
<1>4. CASE \E k \in DOMAIN q, crc \in {"bad", "missing"} : r = [q EXCEPT ![k] = Damage(@, crc)]
  <2>1. PICK k \in 1 .. Len(q), crc \in {"bad", "missing"} : r = [q EXCEPT ![k] = Damage(q[k], crc)]
    BY <1>1, <1>4
  <2>2. \A s \in S : Damage(s, crc) \in S /\ Same(Damage(s, crc), s)
    BY <1>2
  <2> QED
    BY <2>1, <2>2, RemainsDamaged
<1> QED
  BY <1>3, <1>4 DEF Disturbed

-----------------------------------------------------------------------------
(* Types. *)
DaemonOK ==
    /\ doing \in {"idle", "await", "reply", "frame"}
    /\ call \in 0 .. MaxCalls /\ tns \in Tns
    /\ nbr_NAK \in 0 .. MaxNAK + 1 /\ nbr_ENQ \in 0 .. MaxENQ + 1
    /\ result \in [Calls -> {"unborn", "pending", "success", "failure"}]
    /\ taken \in [Calls -> 0 .. MaxCalls]
    /\ doing = "await" => nbr_NAK <= MaxNAK /\ nbr_ENQ <= MaxENQ
    /\ doing # "idle" => call \in Calls

PlcOK ==
    /\ plcTns \in Tns \cup {Nothing} /\ plcRsp \in {"ACK", "NAK"}
    /\ plcJobs \in Seq([call : Calls, tns : Tns]) /\ Len(plcJobs) <= MaxJobs
    /\ plcOut \in Replies \cup {Nothing} /\ plcTries \in 0 .. MaxTries
    /\ executions \in [Calls -> Nat]

LinesOK == /\ toPlc \in Seq(ToSymbol) /\ fromPlc \in Seq(FromSymbol)
           /\ noise \in 0 .. MaxNoise

Types == DaemonOK /\ PlcOK /\ LinesOK

LEMMA LineTyped == Types => LineTypeOK
BY DEF Types, DaemonOK, PlcOK, LinesOK, LineTypeOK

LEMMA NextTnsIn == tns \in Tns => NextTns \in Tns
BY Bounds DEF NextTns, Tns

LEMMA InitTypes == LineInit => Types
<1> SUFFICES ASSUME LineInit PROVE Types
  OBVIOUS
<1>1. DaemonOK
  BY Bounds DEF LineInit, DaemonOK
<1>2. PlcOK
  BY Bounds, EmptySeq DEF LineInit, PlcOK
<1>3. LinesOK
  BY Bounds, EmptySeq DEF LineInit, LinesOK
<1> QED
  BY <1>1, <1>2, <1>3 DEF Types

(* A call of the daemon, with a frame it writes and what it returns. *)
LEMMA WriteFrameTypes ==
    ASSUME Types, WriteFrame, call' \in Calls, tns' \in Tns
    PROVE  /\ doing' \in {"await", "idle"} /\ toPlc' \in Seq(ToSymbol)
           /\ result' \in [Calls -> {"unborn", "pending", "success", "failure"}]
<1>1. CASE doing' = "await" /\ toPlc' = Append(toPlc, Command) /\ result' = [result EXCEPT ![call'] = "pending"]
  <2>1. toPlc' \in Seq(ToSymbol)
    BY <1>1, ToSymbols, AppendProperties DEF Types, LinesOK
  <2> QED
    BY <1>1, <2>1 DEF Types, DaemonOK
<1>2. CASE Return("failure") /\ UNCHANGED toPlc
  BY <1>2 DEF Return, Types, DaemonOK, LinesOK
<1> QED
  BY <1>1, <1>2 DEF WriteFrame

LEMMA SayTypes ==
    ASSUME Types, NEW c \in {"ACK", "NAK", "ENQ"}, Say(c)
    PROVE  toPlc' \in Seq(ToSymbol)
BY ToSymbols, AppendProperties DEF Types, LinesOK, Say

LEMMA DaemonTypes == Types /\ Daemon => Types'
<1> SUFFICES ASSUME Types, Daemon PROVE Types'
  OBVIOUS
<1> USE DEF plc
<1>0. UNCHANGED plc /\ UNCHANGED noise /\ PlcOK'
  BY DEF Daemon, Begin, Answered, Unanswered, ReplyBegins, NoReply, FrameEnds, Types, PlcOK
<1>1. CASE Begin
  <2>1. call' \in Calls /\ tns' \in Tns
    BY <1>1, Bounds, NextTnsIn DEF Begin, Types, DaemonOK, Calls
  <2>2. /\ doing' \in {"await", "idle"} /\ toPlc' \in Seq(ToSymbol)
        /\ result' \in [Calls -> {"unborn", "pending", "success", "failure"}]
    BY <1>1, <2>1, WriteFrameTypes DEF Begin
  <2>3. DaemonOK'
    BY <1>1, <2>1, <2>2, Bounds DEF Begin, Types, DaemonOK, Calls
  <2>4. LinesOK'
    BY <1>0, <1>1, <2>2 DEF Begin, Types, LinesOK
  <2> QED
    BY <1>0, <2>3, <2>4 DEF Types
<1>2. CASE Answered
  <2> DEFINE c == Head(fromPlc).sym
  <2>1. call' = call /\ call \in Calls /\ doing = "await" /\ fromPlc' \in Seq(FromSymbol)
    BY <1>2, RemainsTail DEF Answered, Types, DaemonOK, LinesOK
  <2>2. tns' = tns /\ (AckOrResend(c) => nbr_NAK' \in 0 .. MaxNAK + 1)
    BY <1>2, Bounds DEF Answered, AckOrResend, Resend, Types, DaemonOK
  <2>3. \/ doing' = "reply" /\ UNCHANGED <<result, toPlc>>
        \/ nbr_NAK' <= MaxNAK /\ WriteFrame
        \/ Return("failure") /\ UNCHANGED toPlc
    BY <1>2 DEF Answered, AckOrResend, Resend
  <2>4. /\ doing' \in {"await", "idle", "reply"} /\ toPlc' \in Seq(ToSymbol)
        /\ result' \in [Calls -> {"unborn", "pending", "success", "failure"}]
        /\ doing' = "await" => nbr_NAK' <= MaxNAK
    <3>1. CASE doing' = "reply" /\ UNCHANGED <<result, toPlc>>
      BY <3>1 DEF Types, DaemonOK, LinesOK
    <3>2. CASE nbr_NAK' <= MaxNAK /\ WriteFrame
      <4>1. call' \in Calls /\ tns' \in Tns
        BY <2>1, <2>2 DEF Types, DaemonOK
      <4> QED
        BY <3>2, <4>1, WriteFrameTypes
    <3>3. CASE Return("failure") /\ UNCHANGED toPlc
      BY <3>3 DEF Return, Types, DaemonOK, LinesOK
    <3> QED
      BY <2>3, <3>1, <3>2, <3>3
  <2>5. DaemonOK'
    BY <1>2, <2>1, <2>2, <2>4 DEF Answered, Types, DaemonOK
  <2> QED
    BY <1>0, <2>1, <2>4, <2>5 DEF Types, LinesOK
<1>3. CASE Unanswered
  <2>1. call' = call /\ call \in Calls /\ tns' = tns /\ UNCHANGED <<nbr_NAK, fromPlc, taken>>
    BY <1>3 DEF Unanswered, Types, DaemonOK
  <2>2. nbr_ENQ' \in 0 .. MaxENQ + 1
    BY <1>3, Bounds DEF Unanswered, Types, DaemonOK
  <2>3. CASE Return("failure") /\ UNCHANGED toPlc
    BY <1>0, <2>1, <2>2, <2>3 DEF Return, Types, DaemonOK, LinesOK
  <2>4. CASE nbr_ENQ' <= MaxENQ /\ Say("ENQ") /\ UNCHANGED <<doing, result>>
    <3>1. toPlc' \in Seq(ToSymbol)
      BY <2>4, SayTypes
    <3> QED
      BY <1>0, <2>1, <2>2, <2>4, <3>1 DEF Types, DaemonOK, LinesOK
  <2> QED
    BY <1>3, <2>3, <2>4 DEF Unanswered
<1>4. CASE ReplyBegins
  <2>1. fromPlc' \in Seq(FromSymbol) /\ call \in Calls
    BY <1>4, RemainsTail DEF ReplyBegins, Types, LinesOK, DaemonOK
  <2>2. toPlc' \in Seq(ToSymbol)
    <3>1. toPlc' = toPlc \/ Say("NAK")
      BY <1>4 DEF ReplyBegins
    <3> QED
      BY <3>1, SayTypes DEF Types, LinesOK
  <2>3. DaemonOK'
    BY <1>4, <2>1 DEF ReplyBegins, Types, DaemonOK
  <2> QED
    BY <1>0, <2>1, <2>2, <2>3 DEF Types, LinesOK
<1>5. CASE NoReply
  BY <1>0, <1>5 DEF NoReply, Return, Types, DaemonOK, LinesOK
<1>6. CASE FrameEnds
  <2> DEFINE s == Head(fromPlc)
  <2>1. fromPlc' \in Seq(FromSymbol) /\ s \in FromSymbol /\ call \in Calls /\ call' = call
    BY <1>6, RemainsTail DEF FrameEnds, Types, LinesOK, DaemonOK
  <2>2. toPlc' \in Seq(ToSymbol)
    <3>1. toPlc' = toPlc \/ Say("NAK") \/ Say("ACK")
      BY <1>6 DEF FrameEnds
    <3> QED
      BY <3>1, SayTypes DEF Types, LinesOK
  <2>3. /\ doing' \in {"idle", "reply"} /\ taken' \in [Calls -> 0 .. MaxCalls]
        /\ result' \in [Calls -> {"unborn", "pending", "success", "failure"}]
    <3>1. CASE s.sym = "ETX" /\ Finish(s.reply)
      <4>1. s.reply.call \in 0 .. MaxCalls
        BY <2>1, <3>1, Bounds DEF FromSymbol, Replies, Calls
      <4> QED
        BY <2>1, <3>1, <4>1 DEF Finish, Return, Types, DaemonOK
    <3>2. CASE doing' = "reply" /\ UNCHANGED <<result, taken>>
      BY <3>2 DEF Types, DaemonOK
    <3>3. CASE Return("failure") /\ UNCHANGED <<toPlc, taken>>
      BY <2>1, <3>3 DEF Return, Types, DaemonOK
    <3> QED
      BY <1>6, <3>1, <3>2, <3>3 DEF FrameEnds
  <2>4. DaemonOK'
    BY <1>6, <2>1, <2>3 DEF FrameEnds, Types, DaemonOK
  <2> QED
    BY <1>0, <2>1, <2>2, <2>4 DEF Types, LinesOK
<1> QED
  BY <1>1, <1>2, <1>3, <1>4, <1>5, <1>6 DEF Daemon

LEMMA PlcTypes == Types /\ Plc => Types'
<1> SUFFICES ASSUME Types, Plc PROVE Types'
  OBVIOUS
<1>0. UNCHANGED daemon /\ UNCHANGED noise /\ DaemonOK'
  BY DEF Plc, PlcGetsFrame, PlcReplies, PlcGetsAck, PlcGetsNak, PlcGetsEnq, PlcAsks, Hears,
         daemon, Types, DaemonOK
<1>h. ASSUME NEW c, Hears(c) PROVE toPlc' \in Seq(ToSymbol) /\ Head(toPlc) \in ToSymbol
  BY <1>h, RemainsTail DEF Hears, Types, LinesOK
<1>r. ASSUME NEW c \in {"ACK", "NAK"}, Respond(c)
      PROVE  plcRsp' \in {"ACK", "NAK"} /\ fromPlc' \in Seq(FromSymbol)
  BY <1>r, FromSymbols, AppendProperties DEF Respond, Types, LinesOK
<1>f. ASSUME NEW q \in Replies PROVE fromPlc \o ReplyFrame(q) \in Seq(FromSymbol)
  <2>1. Control("STX") \in FromSymbol /\ ReplyEnd(q) \in FromSymbol
    BY FromSymbols
  <2>2. ReplyFrame(q) \in Seq(FromSymbol)
    BY <2>1 DEF ReplyFrame
  <2> QED
    BY <2>2, ConcatProperties DEF Types, LinesOK
<1>1. CASE PlcGetsFrame
  <2> DEFINE f == Head(toPlc)
  <2>1. /\ toPlc' \in Seq(ToSymbol) /\ f \in ToSymbol /\ f.sym = "frame"
        /\ UNCHANGED <<plcOut, plcTries, executions>>
    BY <1>1, <1>h DEF PlcGetsFrame, Hears
  <2>2. f.call \in Calls /\ f.tns \in Tns
    BY <2>1 DEF ToSymbol
  <2>3. plcRsp' \in {"ACK", "NAK"} /\ fromPlc' \in Seq(FromSymbol)
    BY <1>1, <1>r DEF PlcGetsFrame
  <2>4. plcTns' \in Tns \cup {Nothing}
    BY <1>1, <2>2 DEF PlcGetsFrame, Types, PlcOK
  <2>5. plcJobs' \in Seq([call : Calls, tns : Tns]) /\ Len(plcJobs') <= MaxJobs
    <3>1. CASE plcJobs' = plcJobs
      BY <3>1 DEF Types, PlcOK
    <3>2. CASE Len(plcJobs) < MaxJobs /\ plcJobs' = Append(plcJobs, [call |-> f.call, tns |-> f.tns])
      <4>1. /\ plcJobs \in Seq([call : Calls, tns : Tns])
            /\ [call |-> f.call, tns |-> f.tns] \in [call : Calls, tns : Tns]
        BY <2>2 DEF Types, PlcOK
      <4> HIDE DEF f
      <4>2. plcJobs' \in Seq([call : Calls, tns : Tns]) /\ Len(plcJobs') = Len(plcJobs) + 1
        BY <3>2, <4>1, AppendProperties
      <4> QED
        BY <3>2, <4>1, <4>2, Bounds, LenProperties
    <3>3. CASE f.tns = plcTns
      BY <1>1, <3>1, <3>3 DEF PlcGetsFrame
    <3>4. CASE f.tns # plcTns
      BY <1>1, <3>1, <3>2, <3>4 DEF PlcGetsFrame
    <3> QED
      BY <3>3, <3>4
  <2> QED
    BY <1>0, <2>1, <2>3, <2>4, <2>5 DEF Types, PlcOK, LinesOK
<1>2. CASE PlcReplies
  <2> DEFINE j == Head(plcJobs)
  <2>1. /\ plcJobs \in Seq([call : Calls, tns : Tns]) /\ plcJobs # <<>>
        /\ UNCHANGED <<toPlc, plcTns, plcRsp>> /\ plcJobs' = Tail(plcJobs) /\ plcTries' = 0
    BY <1>2 DEF PlcReplies, Types, PlcOK
  <2>2. /\ j \in [call : Calls, tns : Tns] /\ plcJobs' \in Seq([call : Calls, tns : Tns])
        /\ Len(plcJobs') = Len(plcJobs) - 1
    BY <2>1, HeadTailProperties
  <2>3. Len(plcJobs') <= MaxJobs
    BY <2>1, <2>2, Bounds, LenProperties DEF Types, PlcOK
  <2>4. PICK sts \in {0, 1} :
           /\ executions' = [executions EXCEPT ![j.call] = @ + 1 - sts]
           /\ plcOut' = [call |-> j.call, tns |-> j.tns, sts |-> sts]
           /\ fromPlc' = fromPlc \o ReplyFrame(plcOut')
    BY <1>2 DEF PlcReplies
  <2>5. plcOut' \in Replies
    BY <2>2, <2>4 DEF Replies
  <2>6. executions' \in [Calls -> Nat]
    <3>1. j.call \in Calls /\ executions \in [Calls -> Nat]
      BY <2>2 DEF Types, PlcOK
    <3>2. executions[j.call] + 1 - sts \in Nat
      BY <3>1
    <3> HIDE DEF j
    <3> QED
      BY <2>4, <3>1, <3>2
  <2>7. fromPlc' \in Seq(FromSymbol)
    BY <1>f, <2>4, <2>5
  <2> QED
    BY <1>0, <2>1, <2>2, <2>3, <2>5, <2>6, <2>7, Bounds DEF Types, PlcOK, LinesOK
<1>3. CASE PlcGetsAck
  <2>1. toPlc' \in Seq(ToSymbol)
    BY <1>3, <1>h DEF PlcGetsAck
  <2> QED
    BY <1>0, <1>3, <2>1 DEF PlcGetsAck, Types, PlcOK, LinesOK
<1>4. CASE PlcGetsNak \/ PlcAsks
  <2>1. toPlc' \in Seq(ToSymbol)
    BY <1>4, <1>h DEF PlcGetsNak, PlcAsks, Types, LinesOK
  <2>2. plcOut' \in Replies \cup {Nothing} /\ plcTries' \in 0 .. MaxTries
    BY <1>4, Bounds DEF PlcGetsNak, PlcAsks, Types, PlcOK
  <2>3. \/ fromPlc' = fromPlc
        \/ plcOut \in Replies /\ fromPlc' = fromPlc \o ReplyFrame(plcOut)
        \/ fromPlc' = Append(fromPlc, Control("ENQ"))
    BY <1>4 DEF PlcGetsNak, PlcAsks, Types, PlcOK
  <2>4. fromPlc' \in Seq(FromSymbol)
    <3>1. Append(fromPlc, Control("ENQ")) \in Seq(FromSymbol)
      BY FromSymbols, AppendProperties DEF Types, LinesOK
    <3> QED
      BY <1>f, <2>3, <3>1 DEF Types, LinesOK
  <2> QED
    BY <1>0, <1>4, <2>1, <2>2, <2>4 DEF PlcGetsNak, PlcAsks, Types, PlcOK, LinesOK
<1>5. CASE PlcGetsEnq
  <2>1. toPlc' \in Seq(ToSymbol) /\ plcRsp' \in {"ACK", "NAK"} /\ fromPlc' \in Seq(FromSymbol)
    BY <1>5, <1>h, <1>r DEF PlcGetsEnq, Types, PlcOK
  <2> QED
    BY <1>0, <1>5, <2>1 DEF PlcGetsEnq, Types, PlcOK, LinesOK
<1> QED
  BY <1>1, <1>2, <1>3, <1>4, <1>5 DEF Plc

LEMMA NextTypes == Types /\ [LineNext]_lineVars => Types'
<1> SUFFICES ASSUME Types, [LineNext]_lineVars PROVE Types'
  OBVIOUS
<1>1. CASE Noise
  <2>1. DaemonOK' /\ PlcOK'
    BY <1>1 DEF Noise, daemon, plc, Types, DaemonOK, PlcOK
  <2>2. toPlc' \in Seq(ToSymbol) /\ fromPlc' \in Seq(FromSymbol)
    BY <1>1, RemainsDisturbed DEF Noise, Types, LinesOK
  <2>3. noise' \in 0 .. MaxNoise
    BY <1>1, Bounds DEF Noise, Types, LinesOK
  <2> QED
    BY <2>1, <2>2, <2>3 DEF Types, LinesOK
<1>2. CASE UNCHANGED lineVars
  BY <1>2 DEF lineVars, daemon, plc, Types, DaemonOK, PlcOK, LinesOK
<1> QED
  BY <1>1, <1>2, DaemonTypes, PlcTypes DEF LineNext

-----------------------------------------------------------------------------
(* What a step does to the lines.                                          *)
LEMMA ToChange ==
    ASSUME Types, [LineNext]_lineVars
    PROVE  \/ Remains(toPlc', toPlc)
           \/ \E c \in {"ACK", "NAK", "ENQ"} : toPlc' = Append(toPlc, Control(c))
           \/ toPlc' = Append(toPlc, Command) /\ call' \in Calls /\ Daemon
<1>1. CASE UNCHANGED toPlc
  BY <1>1, RemainsAll
<1>2. CASE Daemon
  <2>1. CASE Begin \/ Answered
    <3>1. toPlc' = toPlc \/ toPlc' = Append(toPlc, Command)
      BY <2>1 DEF Begin, Answered, AckOrResend, Resend, WriteFrame
    <3>2. call' \in Calls
      BY <2>1, Bounds DEF Begin, Answered, Types, DaemonOK, Calls
    <3> QED
      BY <1>1, <1>2, <3>1, <3>2
  <2>2. CASE Unanswered \/ ReplyBegins \/ NoReply \/ FrameEnds
    <3>1. toPlc' = toPlc \/ Say("ACK") \/ Say("NAK") \/ Say("ENQ")
      BY <2>2 DEF Unanswered, ReplyBegins, NoReply, FrameEnds
    <3> QED
      BY <1>1, <3>1 DEF Say
  <2> QED
    BY <1>2, <2>1, <2>2 DEF Daemon
<1>3. ASSUME NEW c, Hears(c) PROVE Remains(toPlc', toPlc)
  BY <1>3, RemainsTail DEF Hears, Types, LinesOK
<1>4. CASE Plc
  BY <1>1, <1>3, <1>4 DEF Plc, PlcGetsFrame, PlcReplies, PlcGetsAck, PlcGetsNak, PlcGetsEnq, PlcAsks
<1>5. CASE Noise
  <2>1. CASE toPlc' \in Disturbed(toPlc)
    BY <2>1, RemainsDisturbed DEF Types, LinesOK
  <2> QED
    BY <1>1, <1>5, <2>1 DEF Noise
<1> QED
  BY <1>1, <1>2, <1>4, <1>5 DEF LineNext, lineVars

LEMMA FromChange ==
    ASSUME Types, [LineNext]_lineVars
    PROVE  \/ Remains(fromPlc', fromPlc)
           \/ \E c \in {"ACK", "NAK", "ENQ"} : fromPlc' = Append(fromPlc, Control(c))
           \/ fromPlc' = fromPlc \o ReplyFrame(plcOut') /\ plcOut' \in Replies
<1>1. CASE UNCHANGED fromPlc
  BY <1>1, RemainsAll
<1>2. CASE Daemon
  <2>1. CASE Answered \/ ReplyBegins \/ FrameEnds
    <3>1. fromPlc # <<>> /\ fromPlc' = Tail(fromPlc)
      BY <2>1 DEF Answered, ReplyBegins, FrameEnds
    <3> QED
      BY <3>1, RemainsTail DEF Types, LinesOK
  <2>2. CASE Begin \/ Unanswered \/ NoReply
    BY <1>1, <2>2 DEF Begin, Unanswered, NoReply
  <2> QED
    BY <1>2, <2>1, <2>2 DEF Daemon
<1>3. CASE PlcGetsFrame \/ PlcGetsEnq
  <2>1. plcRsp \in {"ACK", "NAK"}
    BY DEF Types, PlcOK
  <2>2. \E c \in {"ACK", "NAK"} : fromPlc' = Append(fromPlc, Control(c))
    BY <1>3, <2>1 DEF PlcGetsFrame, PlcGetsEnq, Respond
  <2> QED
    BY <2>2
<1>4. CASE PlcReplies
  <2>1. fromPlc' = fromPlc \o ReplyFrame(plcOut')
    BY <1>4 DEF PlcReplies
  <2>2. plcJobs \in Seq([call : Calls, tns : Tns]) /\ plcJobs # <<>>
    BY <1>4 DEF PlcReplies, Types, PlcOK
  <2>3. Head(plcJobs) \in [call : Calls, tns : Tns]
    BY <2>2, HeadTailProperties
  <2>4. plcOut' \in Replies
    BY <1>4, <2>3 DEF PlcReplies, Replies
  <2> QED
    BY <2>1, <2>4
<1>5. CASE PlcGetsAck \/ PlcGetsNak \/ PlcAsks
  <2>1. \/ fromPlc' = fromPlc
        \/ fromPlc' = Append(fromPlc, Control("ENQ"))
        \/ fromPlc' = fromPlc \o ReplyFrame(plcOut') /\ plcOut' \in Replies
    BY <1>5 DEF PlcGetsAck, PlcGetsNak, PlcAsks, Types, PlcOK
  <2> QED
    BY <1>1, <2>1
<1>6. CASE Noise
  <2>1. CASE fromPlc' \in Disturbed(fromPlc)
    BY <2>1, RemainsDisturbed DEF Types, LinesOK
  <2> QED
    BY <1>1, <1>6, <2>1 DEF Noise
<1> QED
  BY <1>1, <1>2, <1>3, <1>4, <1>5, <1>6 DEF LineNext, Plc, lineVars

-----------------------------------------------------------------------------
(* Transaction numbers.  Everything that bears the number of a call bears  *)
(* the one the call was given; counted from there to the present call, it  *)
(* comes to the present number, at most once around.  Two calls have       *)
(* different numbers then, because there are fewer calls than numbers.     *)
OwnAt(c, n, k, t) == c \in 1 .. k /\ n \in Tns /\ n + (k - c) \in {t, t + TnsRange}
Own(c, n) == OwnAt(c, n, call, tns)

LEMMA OwnItself == ASSUME NEW k \in Nat, k >= 1, NEW t \in Tns PROVE OwnAt(k, t, k, t)
<1>1. t \in Int /\ k - k = 0 /\ t + 0 = t
  BY Bounds DEF Tns
<1> QED
  BY <1>1 DEF OwnAt

LEMMA OwnNow ==
    ASSUME Types, NEW c, NEW n, Own(c, n)
    PROVE  c \in Calls /\ (n = tns => c = call)
BY Bounds DEF Types, DaemonOK, Own, OwnAt, Calls, Tns

LEMMA OwnUnique ==
    ASSUME Types, NEW c, NEW d, NEW n, Own(c, n), Own(d, n)
    PROVE  c = d
BY Bounds DEF Types, DaemonOK, Own, OwnAt, Calls, Tns

LEMMA CallChange ==
    ASSUME Types, [LineNext]_lineVars
    PROVE  \/ UNCHANGED <<call, tns>>
           \/ call' = call + 1 /\ call' <= MaxCalls /\ tns' = NextTns
<1>1. CASE Begin
  BY <1>1, Bounds DEF Begin, Types, DaemonOK
<1>2. CASE Answered
  BY <1>2 DEF Answered, AckOrResend, Resend
<1>3. CASE Unanswered \/ ReplyBegins \/ NoReply \/ FrameEnds
  BY <1>3 DEF Unanswered, ReplyBegins, NoReply, FrameEnds
<1>4. CASE Plc
  BY <1>4 DEF Plc, PlcGetsFrame, PlcReplies, PlcGetsAck, PlcGetsNak, PlcGetsEnq, PlcAsks, Hears, daemon
<1>5. CASE Noise \/ UNCHANGED lineVars
  BY <1>5 DEF Noise, lineVars, daemon
<1> QED
  BY <1>1, <1>2, <1>3, <1>4, <1>5 DEF LineNext, Daemon

LEMMA OwnLater ==
    ASSUME Types, [LineNext]_lineVars, NEW c, NEW n, Own(c, n)
    PROVE  OwnAt(c, n, call', tns')
<1>1. CASE UNCHANGED <<call, tns>>
  BY <1>1 DEF Own, OwnAt
<1>2. CASE call' = call + 1 /\ call' <= MaxCalls /\ tns' = NextTns
  <2>1. tns \in 0 .. TnsRange - 1 /\ call \in Nat /\ c \in 1 .. call /\ n \in 0 .. TnsRange - 1
    BY <1>2 DEF Types, DaemonOK, Own, OwnAt, Tns
  <2>2. n + (call + 1 - c) < TnsRange + TnsRange
    BY <1>2, <2>1, Bounds
  <2>3. n \in Tns /\ n + (call - c) \in {tns, tns + TnsRange}
    BY DEF Own, OwnAt
  <2>4. CASE tns + 1 = TnsRange
    <3>1. tns' = 0
      BY <1>2, <2>1, <2>4, Bounds DEF NextTns
    <3> QED
      BY <1>2, <2>1, <2>2, <2>3, <2>4, <3>1, Bounds DEF OwnAt
  <2>5. CASE tns + 1 < TnsRange
    <3>1. tns' = tns + 1
      BY <1>2, <2>1, <2>5, Bounds DEF NextTns
    <3> QED
      BY <1>2, <2>1, <2>2, <2>3, <3>1, Bounds DEF OwnAt
  <2> QED
    BY <2>1, <2>4, <2>5, Bounds
<1> QED
  BY <1>1, <1>2, CallChange

FramesOwn == \A i \in 1 .. Len(toPlc) : toPlc[i].sym = "frame" => Own(toPlc[i].call, toPlc[i].tns)
JobsOwn   == \A i \in 1 .. Len(plcJobs) : Own(plcJobs[i].call, plcJobs[i].tns)
OutOwn    == plcOut # Nothing => Own(plcOut.call, plcOut.tns)
EndsOwn   == \A i \in 1 .. Len(fromPlc) : fromPlc[i].sym = "ETX" =>
                 Own(fromPlc[i].reply.call, fromPlc[i].reply.tns)
OwnNumbers == FramesOwn /\ JobsOwn /\ OutOwn /\ EndsOwn

LEMMA NextFramesOwn == Types /\ Types' /\ FramesOwn /\ [LineNext]_lineVars => FramesOwn'
<1> SUFFICES ASSUME Types, Types', FramesOwn, [LineNext]_lineVars,
                    NEW i \in 1 .. Len(toPlc'), toPlc'[i].sym = "frame"
             PROVE  OwnAt(toPlc'[i].call, toPlc'[i].tns, call', tns')
  BY DEF FramesOwn, Own
<1>0. toPlc \in Seq(ToSymbol) /\ Len(toPlc) \in Nat
  BY LenProperties DEF Types, LinesOK
<1>1. CASE \E j \in 1 .. Len(toPlc) : Same(toPlc'[i], toPlc[j])
  <2>1. PICK j \in 1 .. Len(toPlc) : Same(toPlc'[i], toPlc[j])
    BY <1>1
  <2>2. Own(toPlc[j].call, toPlc[j].tns) /\ toPlc'[i].call = toPlc[j].call /\ toPlc'[i].tns = toPlc[j].tns
    BY <2>1 DEF Same, FramesOwn
  <2> QED
    BY <2>2, OwnLater
<1>2. CASE Remains(toPlc', toPlc)
  BY <1>1, <1>2 DEF Remains
<1>3. CASE \E c \in {"ACK", "NAK", "ENQ"} : toPlc' = Append(toPlc, Control(c))
  <2>1. PICK c \in {"ACK", "NAK", "ENQ"} : toPlc' = Append(toPlc, Control(c))
    BY <1>3
  <2>2. /\ Len(toPlc') = Len(toPlc) + 1 /\ toPlc'[Len(toPlc) + 1] = Control(c)
        /\ \A j \in 1 .. Len(toPlc) : toPlc'[j] = toPlc[j]
    BY <1>0, <2>1, ToSymbols, AppendProperties
  <2>3. i \in 1 .. Len(toPlc)
    BY <1>0, <2>2 DEF Control
  <2> QED
    BY <1>1, <2>2, <2>3 DEF Same
<1>4. CASE toPlc' = Append(toPlc, Command) /\ call' \in Calls
  <2>1. tns' \in Tns /\ call' \in Nat /\ call' >= 1
    BY <1>4 DEF Types, DaemonOK, Calls
  <2>2. /\ Len(toPlc') = Len(toPlc) + 1 /\ toPlc'[Len(toPlc) + 1] = Command
        /\ \A j \in 1 .. Len(toPlc) : toPlc'[j] = toPlc[j]
    BY <1>0, <1>4, <2>1, ToSymbols, AppendProperties
  <2>3. CASE i \in 1 .. Len(toPlc)
    BY <1>1, <2>2, <2>3 DEF Same
  <2>4. CASE i = Len(toPlc) + 1
    <3>1. toPlc'[i].call = call' /\ toPlc'[i].tns = tns'
      BY <2>2, <2>4 DEF Command
    <3>2. OwnAt(call', tns', call', tns')
      BY <2>1, OwnItself
    <3> QED
      BY <3>1, <3>2
  <2>5. i \in 1 .. Len(toPlc) + 1 /\ Len(toPlc) \in Nat
    BY <1>0, <2>2
  <2>6. i \in 1 .. Len(toPlc) \/ i = Len(toPlc) + 1
    BY <2>5
  <2> QED
    BY <2>3, <2>4, <2>6
<1> QED
  BY <1>2, <1>3, <1>4, ToChange

(* What a step does to the commands the processor holds and to its reply. *)
LEMMA JobsChange ==
    ASSUME Types, [LineNext]_lineVars
    PROVE  \/ UNCHANGED <<plcJobs, plcTns, executions>> /\ plcOut' \in {plcOut, Nothing}
           \/ PlcReplies
           \/ PlcGetsFrame /\ UNCHANGED <<plcOut, executions>>
<1>1. CASE Daemon \/ Noise \/ UNCHANGED lineVars
  BY <1>1 DEF Daemon, Begin, Answered, Unanswered, ReplyBegins, NoReply, FrameEnds, Noise, lineVars, plc
<1>2. CASE PlcGetsAck \/ PlcGetsNak \/ PlcGetsEnq \/ PlcAsks
  BY <1>2 DEF PlcGetsAck, PlcGetsNak, PlcGetsEnq, PlcAsks
<1>3. CASE PlcGetsFrame
  BY <1>3 DEF PlcGetsFrame
<1> QED
  BY <1>1, <1>2, <1>3 DEF LineNext, Plc

(* The first command leaves, and its reply is on the way. *)
LEMMA Replying ==
    ASSUME Types, PlcReplies
    PROVE  /\ Len(plcJobs) \in Nat /\ Len(plcJobs) >= 1 /\ Len(plcJobs') = Len(plcJobs) - 1
           /\ \A i \in 1 .. Len(plcJobs') : plcJobs'[i] = plcJobs[i + 1]
           /\ plcJobs[1].call \in Calls /\ plcOut' \in Replies
           /\ plcOut'.call = plcJobs[1].call /\ plcOut'.tns = plcJobs[1].tns
           /\ executions' = [executions EXCEPT ![plcJobs[1].call] = @ + 1 - plcOut'.sts]
           /\ UNCHANGED <<toPlc, plcTns, call, tns>>
<1>1. /\ plcJobs \in Seq([call : Calls, tns : Tns]) /\ plcJobs # <<>> /\ plcJobs' = Tail(plcJobs)
      /\ UNCHANGED <<toPlc, plcTns, call, tns>>
  BY DEF PlcReplies, Types, PlcOK, daemon
<1>2. /\ Head(plcJobs) = plcJobs[1] /\ Head(plcJobs) \in [call : Calls, tns : Tns]
      /\ Len(plcJobs) \in Nat /\ Len(plcJobs) >= 1
  BY <1>1, RemainsTail, LenProperties
<1>3. /\ Len(plcJobs') = Len(plcJobs) - 1
      /\ \A i \in 1 .. Len(plcJobs') : plcJobs'[i] = plcJobs[i + 1]
  BY <1>1, HeadTailProperties
<1>4. PICK sts \in {0, 1} :
         /\ executions' = [executions EXCEPT ![Head(plcJobs).call] = @ + 1 - sts]
         /\ plcOut' = [call |-> Head(plcJobs).call, tns |-> Head(plcJobs).tns, sts |-> sts]
  BY DEF PlcReplies
<1>5. plcOut' \in Replies /\ plcOut'.sts = sts
  BY <1>2, <1>4 DEF Replies
<1> QED
  BY <1>1, <1>2, <1>3, <1>4, <1>5

(* A frame is dropped, or its command is the last one now. *)
LEMMA Accepting ==
    ASSUME Types, PlcGetsFrame
    PROVE  /\ Len(toPlc) >= 1 /\ toPlc[1].sym = "frame" /\ UNCHANGED <<call, tns>>
           /\ toPlc[1].call \in Calls /\ toPlc[1].tns \in Tns
           /\ Len(toPlc) \in Nat /\ Len(toPlc') = Len(toPlc) - 1
           /\ \A i \in 1 .. Len(toPlc') : toPlc'[i] = toPlc[i + 1]
           /\ \/ UNCHANGED <<plcTns, plcJobs>>
              \/ plcTns' = toPlc[1].tns /\ plcJobs' = plcJobs
              \/ /\ plcTns' = toPlc[1].tns /\ toPlc[1].tns # plcTns
                 /\ plcJobs' = Append(plcJobs, [call |-> toPlc[1].call, tns |-> toPlc[1].tns])
<1>1. /\ toPlc \in Seq(ToSymbol) /\ toPlc # <<>> /\ toPlc' = Tail(toPlc) /\ Head(toPlc).sym = "frame"
      /\ UNCHANGED <<call, tns>>
  BY DEF PlcGetsFrame, Hears, Types, LinesOK, daemon
<1>2. /\ Head(toPlc) = toPlc[1] /\ Head(toPlc) \in ToSymbol /\ Len(toPlc) \in Nat /\ Len(toPlc) >= 1
      /\ Len(toPlc') = Len(toPlc) - 1 /\ \A i \in 1 .. Len(toPlc') : toPlc'[i] = toPlc[i + 1]
  BY <1>1, RemainsTail, HeadTailProperties, LenProperties
<1>3. toPlc[1].call \in Calls /\ toPlc[1].tns \in Tns
  BY <1>1, <1>2 DEF ToSymbol
<1>4. CASE toPlc[1].tns = plcTns
  BY <1>1, <1>2, <1>3, <1>4 DEF PlcGetsFrame
<1>5. CASE toPlc[1].tns # plcTns
  BY <1>1, <1>2, <1>3, <1>5 DEF PlcGetsFrame
<1> QED
  BY <1>4, <1>5

LEMMA NextJobsOwn == Types /\ FramesOwn /\ JobsOwn /\ OutOwn /\ [LineNext]_lineVars => JobsOwn' /\ OutOwn'
<1> SUFFICES ASSUME Types, FramesOwn, JobsOwn, OutOwn, [LineNext]_lineVars PROVE JobsOwn' /\ OutOwn'
  OBVIOUS
<1>0. plcJobs \in Seq([call : Calls, tns : Tns]) /\ Len(plcJobs) \in Nat
  BY LenProperties DEF Types, PlcOK
<1>j. \A i \in 1 .. Len(plcJobs) : OwnAt(plcJobs[i].call, plcJobs[i].tns, call', tns')
  BY OwnLater DEF JobsOwn
<1>o. plcOut # Nothing => OwnAt(plcOut.call, plcOut.tns, call', tns')
  BY OwnLater DEF OutOwn
<1>1. CASE UNCHANGED plcJobs /\ plcOut' \in {plcOut, Nothing}
  BY <1>1, <1>j, <1>o DEF JobsOwn, OutOwn, Own
<1>2. CASE PlcReplies
  <2>1. \A i \in 1 .. Len(plcJobs') : i + 1 \in 1 .. Len(plcJobs)
    BY <1>2, Replying
  <2>2. JobsOwn'
    BY <1>2, <1>j, <2>1, Replying DEF JobsOwn, Own
  <2>3. OutOwn'
    BY <1>2, <1>j, Replying DEF OutOwn, Own
  <2> QED
    BY <2>2, <2>3
<1>3. CASE PlcGetsFrame /\ UNCHANGED plcOut
  <2>1. OutOwn'
    BY <1>3, <1>o DEF OutOwn, Own
  <2>2. CASE plcJobs' = plcJobs
    BY <2>1, <2>2, <1>j DEF JobsOwn, Own
  <2>3. CASE plcJobs' = Append(plcJobs, [call |-> toPlc[1].call, tns |-> toPlc[1].tns])
    <3> DEFINE e == [call |-> toPlc[1].call, tns |-> toPlc[1].tns]
    <3>1. OwnAt(e.call, e.tns, call', tns')
      BY <1>3, Accepting, OwnLater DEF FramesOwn
    <3>2. e \in [call : Calls, tns : Tns]
      BY <1>3, Accepting
    <3> HIDE DEF e
    <3>3. /\ Len(plcJobs') = Len(plcJobs) + 1 /\ plcJobs'[Len(plcJobs) + 1] = e
          /\ \A i \in 1 .. Len(plcJobs) : plcJobs'[i] = plcJobs[i]
      BY <1>0, <2>3, <3>2, AppendProperties DEF e
    <3>4. \A i \in 1 .. Len(plcJobs') : OwnAt(plcJobs'[i].call, plcJobs'[i].tns, call', tns')
      BY <1>0, <1>j, <3>1, <3>3
    <3> QED
      BY <2>1, <3>4 DEF JobsOwn, Own
  <2> QED
    BY <1>3, <2>2, <2>3, Accepting
<1> QED
  BY <1>1, <1>2, <1>3, JobsChange

(* What a step adds to the replies on the line is the reply the processor  *)
(* has just given or gives again.                                          *)
LEMMA EndsChange ==
    ASSUME Types, [LineNext]_lineVars, NEW i \in 1 .. Len(fromPlc'), fromPlc'[i].sym = "ETX"
    PROVE  \/ \E j \in 1 .. Len(fromPlc) : fromPlc[j].sym = "ETX" /\ fromPlc'[i].reply = fromPlc[j].reply
           \/ plcOut' \in Replies /\ fromPlc'[i].reply = plcOut'
<1>0. fromPlc \in Seq(FromSymbol) /\ Len(fromPlc) \in Nat
  BY LenProperties DEF Types, LinesOK
<1>1. CASE \E j \in 1 .. Len(fromPlc) : Same(fromPlc'[i], fromPlc[j])
  BY <1>1 DEF Same
<1>2. CASE Remains(fromPlc', fromPlc)
  BY <1>1, <1>2 DEF Remains
<1>3. CASE \E c \in {"ACK", "NAK", "ENQ"} : fromPlc' = Append(fromPlc, Control(c))
  <2>1. PICK c \in {"ACK", "NAK", "ENQ"} : fromPlc' = Append(fromPlc, Control(c))
    BY <1>3
  <2>2. /\ Len(fromPlc') = Len(fromPlc) + 1 /\ fromPlc'[Len(fromPlc) + 1] = Control(c)
        /\ \A j \in 1 .. Len(fromPlc) : fromPlc'[j] = fromPlc[j]
    BY <1>0, <2>1, FromSymbols, AppendProperties
  <2>3. i \in 1 .. Len(fromPlc)
    BY <1>0, <2>2 DEF Control
  <2> QED
    BY <1>1, <2>2, <2>3 DEF Same
<1>4. CASE fromPlc' = fromPlc \o ReplyFrame(plcOut') /\ plcOut' \in Replies
  <2>1. /\ ReplyFrame(plcOut') \in Seq(FromSymbol) /\ Len(ReplyFrame(plcOut')) = 2
        /\ ReplyFrame(plcOut')[1].sym = "STX" /\ ReplyFrame(plcOut')[2].reply = plcOut'
    BY <1>4, FromSymbols DEF ReplyFrame, Control, ReplyEnd
  <2>2. /\ Len(fromPlc') = Len(fromPlc) + 2
        /\ \A j \in 1 .. Len(fromPlc) + 2 :
              fromPlc'[j] = IF j <= Len(fromPlc) THEN fromPlc[j] ELSE ReplyFrame(plcOut')[j - Len(fromPlc)]
    <3> DEFINE f == ReplyFrame(plcOut')
    <3>1. f \in Seq(FromSymbol) /\ Len(f) = 2 /\ fromPlc' = fromPlc \o f
      BY <1>4, <2>1
    <3> HIDE DEF f
    <3>2. /\ Len(fromPlc \o f) = Len(fromPlc) + Len(f)
          /\ \A j \in 1 .. Len(fromPlc) + Len(f) :
                (fromPlc \o f)[j] = IF j <= Len(fromPlc) THEN fromPlc[j] ELSE f[j - Len(fromPlc)]
      BY <1>0, <3>1, ConcatProperties
    <3> QED
      BY <3>1, <3>2 DEF f
  <2>3. CASE i <= Len(fromPlc)
    BY <1>0, <1>1, <2>2, <2>3 DEF Same
  <2>4. CASE i = Len(fromPlc) + 1
    BY <1>0, <2>1, <2>2, <2>4
  <2>5. CASE i = Len(fromPlc) + 2
    BY <1>0, <1>4, <2>1, <2>2, <2>5
  <2>6. i \in 1 .. Len(fromPlc) + 2 /\ Len(fromPlc) \in Nat
    BY <1>0, <2>2
  <2>7. i <= Len(fromPlc) \/ i = Len(fromPlc) + 1 \/ i = Len(fromPlc) + 2
    BY <2>6
  <2> QED
    BY <2>3, <2>4, <2>5, <2>7
<1> QED
  BY <1>2, <1>3, <1>4, FromChange

LEMMA NextNumbered == Types /\ Types' /\ OwnNumbers /\ [LineNext]_lineVars => OwnNumbers'
<1> SUFFICES ASSUME Types, Types', OwnNumbers, [LineNext]_lineVars PROVE OwnNumbers'
  OBVIOUS
<1>1. FramesOwn' /\ JobsOwn' /\ OutOwn'
  BY NextFramesOwn, NextJobsOwn DEF OwnNumbers
<1>2. EndsOwn'
  <2> SUFFICES ASSUME NEW i \in 1 .. Len(fromPlc'), fromPlc'[i].sym = "ETX"
               PROVE  OwnAt(fromPlc'[i].reply.call, fromPlc'[i].reply.tns, call', tns')
    BY DEF EndsOwn, Own
  <2>1. CASE \E j \in 1 .. Len(fromPlc) : fromPlc[j].sym = "ETX" /\ fromPlc'[i].reply = fromPlc[j].reply
    BY <2>1, OwnLater DEF OwnNumbers, EndsOwn
  <2>2. CASE plcOut' \in Replies /\ fromPlc'[i].reply = plcOut'
    BY <1>1, <2>2 DEF OutOwn, Own
  <2> QED
    BY <2>1, <2>2, EndsChange
<1> QED
  BY <1>1, <1>2 DEF OwnNumbers

-----------------------------------------------------------------------------
(* Results.  The call in progress is pending, later ones are unborn.       *)
Given == \A c \in Calls : /\ result[c] = "unborn" <=> c > call
                          /\ result[c] = "pending" <=> c = call /\ doing # "idle"

Begun ==
    /\ doing = "idle" /\ call' = call + 1 /\ call' \in Calls
    /\ \/ result' = [result EXCEPT ![call'] = "pending"] /\ doing' # "idle"
       \/ result' = [result EXCEPT ![call'] = "failure"] /\ doing' = "idle"
    /\ UNCHANGED <<taken, executions>>

Ended(r) ==
    /\ doing # "idle" /\ doing' = "idle" /\ call' = call /\ call \in Calls
    /\ result' = [result EXCEPT ![call] = r]
    /\ UNCHANGED executions

Succeeded(r) ==
    /\ Ended("success")
    /\ r.tns = tns /\ r.sts = 0
    /\ \E i \in 1 .. Len(fromPlc) : fromPlc[i].sym = "ETX" /\ fromPlc[i].reply = r
    /\ taken' = [taken EXCEPT ![call] = r.call]

\* The frame is resent, or the call goes on in another way.
Continued ==
    /\ doing # "idle" /\ doing' # "idle" /\ call' = call /\ call \in Calls
    /\ result' = result \/ result' = [result EXCEPT ![call] = "pending"]
    /\ UNCHANGED <<taken, executions>>

LEMMA ResultChange ==
    ASSUME Types, [LineNext]_lineVars
    PROVE  \/ Begun \/ Continued
           \/ Ended("failure") /\ UNCHANGED taken
           \/ \E r \in Replies : Succeeded(r)
           \/ UNCHANGED <<doing, call, result, taken>>
<1> USE DEF plc
<1>0. doing # "idle" => call \in Calls
  BY DEF Types, DaemonOK
<1>1. CASE Begin
  <2>1. call' = call + 1 /\ call' \in Calls /\ doing = "idle" /\ UNCHANGED <<taken, executions>>
    BY <1>1, Bounds DEF Begin, Types, DaemonOK, Calls
  <2>2. \/ result' = [result EXCEPT ![call'] = "pending"] /\ doing' = "await"
        \/ result' = [result EXCEPT ![call'] = "failure"] /\ doing' = "idle"
    BY <1>1 DEF Begin, WriteFrame, Return
  <2> QED
    BY <2>1, <2>2 DEF Begun
<1>2. CASE Answered
  <2>1. doing = "await" /\ call' = call /\ UNCHANGED <<taken, executions>>
    BY <1>2 DEF Answered
  <2>2. \/ doing' = "reply" /\ result' = result
        \/ doing' = "await" /\ result' = [result EXCEPT ![call'] = "pending"]
        \/ doing' = "idle" /\ result' = [result EXCEPT ![call'] = "failure"]
    BY <1>2 DEF Answered, AckOrResend, Resend, WriteFrame, Return
  <2> QED
    BY <1>0, <2>1, <2>2 DEF Continued, Ended
<1>3. CASE Unanswered
  BY <1>0, <1>3 DEF Unanswered, Return, Continued, Ended
<1>4. CASE ReplyBegins \/ NoReply
  BY <1>0, <1>4 DEF ReplyBegins, NoReply, Return, Continued, Ended
<1>5. CASE FrameEnds
  <2> DEFINE s == Head(fromPlc)
  <2>1. /\ s \in FromSymbol /\ s = fromPlc[1] /\ 1 \in 1 .. Len(fromPlc)
        /\ call' = call /\ tns' = tns /\ doing = "frame" /\ UNCHANGED executions
    <3>1. fromPlc \in Seq(FromSymbol) /\ fromPlc # <<>> /\ Len(fromPlc) \in Nat
      BY <1>5, LenProperties DEF FrameEnds, Types, LinesOK
    <3>2. s \in FromSymbol /\ s = fromPlc[1] /\ Len(fromPlc) >= 1
      BY <3>1, RemainsTail
    <3> QED
      BY <1>5, <3>1, <3>2 DEF FrameEnds
  <2>2. CASE s.sym = "ETX" /\ Finish(s.reply)
    <3>1. s.reply \in Replies
      BY <2>1, <2>2 DEF FromSymbol
    <3>2. CASE s.reply.tns = tns /\ s.reply.sts = 0
      <4>1. Succeeded(s.reply)
        BY <1>0, <2>1, <2>2, <3>2 DEF Finish, Return, Succeeded, Ended
      <4> QED
        BY <3>1, <4>1
    <3>3. CASE ~(s.reply.tns = tns /\ s.reply.sts = 0)
      BY <1>0, <2>1, <2>2, <3>3 DEF Finish, Return, Ended
    <3> QED
      BY <3>2, <3>3
  <2>3. CASE doing' = "reply" /\ UNCHANGED <<result, taken>>
    BY <1>0, <2>1, <2>3 DEF Continued
  <2>4. CASE Return("failure") /\ UNCHANGED <<toPlc, taken>>
    BY <1>0, <2>1, <2>4 DEF Return, Ended
  <2> QED
    BY <1>5, <2>2, <2>3, <2>4 DEF FrameEnds
<1>6. CASE Plc \/ Noise \/ UNCHANGED lineVars
  BY <1>6 DEF Plc, PlcGetsFrame, PlcReplies, PlcGetsAck, PlcGetsNak, PlcGetsEnq, PlcAsks, Hears,
              Noise, lineVars, daemon
<1> QED
  BY <1>1, <1>2, <1>3, <1>4, <1>5, <1>6 DEF LineNext, Daemon

LEMMA NextGiven == Types /\ Given /\ [LineNext]_lineVars => Given'
<1> SUFFICES ASSUME Types, Given, [LineNext]_lineVars PROVE Given'
  OBVIOUS
<1>0. /\ result \in [Calls -> {"unborn", "pending", "success", "failure"}]
      /\ call \in Nat /\ Calls \subseteq Nat
  BY DEF Types, DaemonOK, Calls
<1>1. CASE Begun
  BY <1>0, <1>1 DEF Begun, Given
<1>2. CASE Continued
  BY <1>0, <1>2 DEF Continued, Given
<1>3. CASE \E r \in {"success", "failure"} : Ended(r)
  BY <1>0, <1>3 DEF Ended, Given
<1>4. CASE UNCHANGED <<doing, call, result>>
  BY <1>4 DEF Given
<1> QED
  BY <1>1, <1>2, <1>3, <1>4, ResultChange DEF Succeeded

OwnTaken == \A c \in Calls : result[c] = "success" => taken[c] = c

LEMMA NextOwnTaken == Types /\ OwnNumbers /\ OwnTaken /\ [LineNext]_lineVars => OwnTaken'
<1> SUFFICES ASSUME Types, OwnNumbers, OwnTaken, [LineNext]_lineVars PROVE OwnTaken'
  OBVIOUS
<1>0. /\ result \in [Calls -> {"unborn", "pending", "success", "failure"}]
      /\ taken \in [Calls -> 0 .. MaxCalls]
  BY DEF Types, DaemonOK
<1>1. CASE UNCHANGED taken /\ (Begun \/ Continued \/ Ended("failure"))
  BY <1>0, <1>1 DEF Begun, Continued, Ended, OwnTaken
<1>2. ASSUME NEW r \in Replies, Succeeded(r) PROVE OwnTaken'
  <2>1. Own(r.call, tns)
    BY <1>2 DEF Succeeded, OwnNumbers, EndsOwn
  <2>2. r.call = call
    BY <2>1, OwnNow
  <2> QED
    BY <1>0, <1>2, <2>2 DEF Succeeded, Ended, OwnTaken
<1>3. CASE UNCHANGED <<doing, call, result, taken>>
  BY <1>3 DEF OwnTaken
<1> QED
  BY <1>1, <1>2, <1>3, ResultChange DEF Begun, Continued

(* SUCCESS is for the reply to the command itself, for any number of       *)
(* commands, repetitions and disturbances.                                 *)
THEOREM RepliesAreTakenByTheirOwn == LineSpec => []TakenIsOwn
<1> DEFINE IInv == Types /\ OwnNumbers /\ OwnTaken
<1>1. LineInit => IInv
  <2> SUFFICES ASSUME LineInit PROVE OwnNumbers /\ OwnTaken
    BY InitTypes
  <2>1. Len(toPlc) = 0 /\ Len(plcJobs) = 0 /\ Len(fromPlc) = 0
    BY EmptySeq DEF LineInit
  <2> QED
    BY <2>1 DEF LineInit, OwnNumbers, FramesOwn, JobsOwn, OutOwn, EndsOwn, OwnTaken
<1>2. IInv /\ [LineNext]_lineVars => IInv'
  BY NextTypes, NextNumbered, NextOwnTaken
<1>3. IInv => TakenIsOwn
  BY LineTyped DEF TakenIsOwn, OwnTaken
<1> HIDE DEF IInv
<1> QED
  BY <1>1, <1>2, <1>3, PTL DEF LineSpec

-----------------------------------------------------------------------------
(* Executions.  Some command is the last one accepted: it is the one the   *)
(* processor remembers the number of, nothing later has been executed or   *)
(* is held, and nothing earlier is on the line.                            *)
Ordered(last) ==
    \A i \in 1 .. Len(toPlc) : toPlc[i].sym = "frame" =>
        /\ last <= toPlc[i].call
        /\ \A j \in 1 .. Len(toPlc) : j < i /\ toPlc[j].sym = "frame" => toPlc[j].call <= toPlc[i].call

Accepted(last) ==
    /\ last > 0 => Own(last, plcTns)
    /\ \A c \in Calls : executions[c] > 0 => c <= last
    /\ \A i \in 1 .. Len(plcJobs) :
          /\ plcJobs[i].call <= last /\ executions[plcJobs[i].call] = 0
          /\ \A j \in 1 .. Len(plcJobs) : j < i => plcJobs[j].call < plcJobs[i].call

Executed(r) == r.sts = 0 => executions[r.call] = 1

Once == /\ \E last \in 0 .. call : Ordered(last) /\ Accepted(last)
        /\ \A c \in Calls : executions[c] \in {0, 1}
        /\ plcOut # Nothing => Executed(plcOut)
        /\ \A i \in 1 .. Len(fromPlc) : fromPlc[i].sym = "ETX" => Executed(fromPlc[i].reply)

LEMMA OwnSame ==
    ASSUME Types, NEW c, NEW m, NEW n, Own(c, m), Own(c, n)
    PROVE  m = n
BY Bounds DEF Types, DaemonOK, Own, OwnAt, Calls, Tns

LEMMA NextOrdered ==
    ASSUME Types, Types', FramesOwn, [LineNext]_lineVars, NEW last \in 0 .. call, Ordered(last)
    PROVE  Ordered(last)'
<1>0. /\ toPlc \in Seq(ToSymbol) /\ Len(toPlc) \in Nat /\ call \in Nat
      /\ \A i \in 1 .. Len(toPlc) : toPlc[i].sym = "frame" => toPlc[i].call \in 1 .. call
  <2>1. toPlc \in Seq(ToSymbol) /\ call \in Nat
    BY DEF Types, LinesOK, DaemonOK
  <2>2. \A i \in 1 .. Len(toPlc) : toPlc[i].sym = "frame" => toPlc[i].call \in 1 .. call
    BY DEF FramesOwn, Own, OwnAt
  <2> QED
    BY <2>1, <2>2, LenProperties
<1>1. CASE Remains(toPlc', toPlc)
  <2>1. PICK m \in [1 .. Len(toPlc') -> 1 .. Len(toPlc)] :
            /\ \A i, j \in 1 .. Len(toPlc') : i < j => m[i] < m[j]
            /\ \A i \in 1 .. Len(toPlc') : Same(toPlc'[i], toPlc[m[i]])
    BY <1>1 DEF Remains
  <2>2. \A i \in 1 .. Len(toPlc') : toPlc'[i].sym = "frame" =>
            /\ m[i] \in 1 .. Len(toPlc) /\ toPlc[m[i]].sym = "frame" /\ toPlc'[i].call = toPlc[m[i]].call
    BY <2>1 DEF Same
  <2>3. \A i \in 1 .. Len(toPlc') : toPlc'[i].sym = "frame" => last <= toPlc'[i].call
    BY <2>2 DEF Ordered
  <2>4. ASSUME NEW i \in 1 .. Len(toPlc'), NEW j \in 1 .. Len(toPlc'),
               toPlc'[i].sym = "frame", toPlc'[j].sym = "frame", j < i
        PROVE  toPlc'[j].call <= toPlc'[i].call
    BY <2>1, <2>2, <2>4 DEF Ordered
  <2> QED
    BY <2>3, <2>4 DEF Ordered
<1>2. CASE \E c \in {"ACK", "NAK", "ENQ"} : toPlc' = Append(toPlc, Control(c))
  <2>1. PICK c \in {"ACK", "NAK", "ENQ"} : toPlc' = Append(toPlc, Control(c))
    BY <1>2
  <2>2. /\ Len(toPlc') = Len(toPlc) + 1 /\ toPlc'[Len(toPlc) + 1] = Control(c)
        /\ \A j \in 1 .. Len(toPlc) : toPlc'[j] = toPlc[j]
    BY <1>0, <2>1, ToSymbols, AppendProperties
  <2>3. \A i \in 1 .. Len(toPlc') : toPlc'[i].sym = "frame" => i \in 1 .. Len(toPlc)
    BY <1>0, <2>2 DEF Control
  <2> QED
    BY <2>2, <2>3 DEF Ordered
<1>3. CASE toPlc' = Append(toPlc, Command) /\ call' \in Calls
  <2>1. tns' \in Tns /\ call <= call' /\ call' \in Nat
    <3>1. tns' \in Tns /\ call' \in Nat
      BY <1>3, Bounds DEF Types, DaemonOK, Calls
    <3> QED
      BY <1>0, <3>1, CallChange
  <2>2. /\ Len(toPlc') = Len(toPlc) + 1 /\ toPlc'[Len(toPlc) + 1] = Command
        /\ \A j \in 1 .. Len(toPlc) : toPlc'[j] = toPlc[j]
    BY <1>0, <1>3, <2>1, ToSymbols, AppendProperties
  <2>3. toPlc'[Len(toPlc) + 1].call = call'
    BY <2>2 DEF Command
  <2>4. ASSUME NEW i \in 1 .. Len(toPlc'), toPlc'[i].sym = "frame"
        PROVE  /\ last <= toPlc'[i].call
               /\ \A j \in 1 .. Len(toPlc') :
                     j < i /\ toPlc'[j].sym = "frame" => toPlc'[j].call <= toPlc'[i].call
    <3>1. CASE i \in 1 .. Len(toPlc)
      <4>1. /\ toPlc'[i] = toPlc[i]
            /\ \A j \in 1 .. Len(toPlc') :
                  j < i => j \in 1 .. Len(toPlc) /\ toPlc'[j] = toPlc[j]
        BY <1>0, <2>2, <3>1
      <4> QED
        BY <2>4, <3>1, <4>1 DEF Ordered
    <3>2. CASE i = Len(toPlc) + 1
      <4>1. last <= call'
        BY <1>0, <2>1
      <4>2. ASSUME NEW j \in 1 .. Len(toPlc'), j < i, toPlc'[j].sym = "frame"
            PROVE  toPlc'[j].call <= call'
        <5>0. j \in 1 .. Len(toPlc)
          BY <1>0, <2>2, <3>2, <4>2
        <5>1. j \in 1 .. Len(toPlc) /\ toPlc'[j] = toPlc[j]
          BY <2>2, <5>0
        <5>2. toPlc[j].call \in 1 .. call
          BY <1>0, <4>2, <5>1
        <5>3. call \in Nat /\ call' \in Nat /\ call <= call'
          BY <1>0, <2>1
        <5>4. toPlc[j].call <= call'
          BY <5>2, <5>3
        <5> QED
          BY <5>1, <5>4
      <4>3. toPlc'[i].call = call'
        BY <2>3, <3>2
      <4>4. \A j \in 1 .. Len(toPlc') :
                j < i /\ toPlc'[j].sym = "frame" => toPlc'[j].call <= toPlc'[i].call
        BY <4>2, <4>3, Zenon
      <4> QED
        BY <4>1, <4>3, <4>4
    <3>3. i \in 1 .. Len(toPlc) \/ i = Len(toPlc) + 1
      BY <1>0, <2>2
    <3> QED
      BY <3>1, <3>2, <3>3
  <2> QED
    BY <2>4 DEF Ordered
<1> QED
  BY <1>1, <1>2, <1>3, ToChange

LEMMA JobsTyped ==
    ASSUME Types
    PROVE  /\ plcJobs \in Seq([call : Calls, tns : Tns]) /\ Len(plcJobs) \in Nat
           /\ \A i \in 1 .. Len(plcJobs) : plcJobs[i].call \in Calls
<1> DEFINE J == [call : Calls, tns : Tns]
<1>1. plcJobs \in Seq(J)
  BY DEF Types, PlcOK
<1>2. Len(plcJobs) \in Nat
  <2> HIDE DEF J
  <2> QED
    BY <1>1, LenProperties
<1>3. ASSUME NEW i \in 1 .. Len(plcJobs) PROVE plcJobs[i].call \in Calls
  <2>1. plcJobs[i] \in J
    <3> HIDE DEF J
    <3> QED
      BY <1>1, ElementOfSeq
  <2> QED
    BY <2>1
<1> QED
  BY <1>1, <1>2, <1>3

\* What Accepted says of two held commands.
LEMMA JobsOrdered ==
    ASSUME NEW last, Accepted(last),
           NEW i \in 1 .. Len(plcJobs), NEW j \in 1 .. Len(plcJobs), j < i
    PROVE  plcJobs[j].call < plcJobs[i].call
BY DEF Accepted

LEMMA JobsHeld ==
    ASSUME NEW last, Accepted(last), NEW i \in 1 .. Len(plcJobs)
    PROVE  plcJobs[i].call <= last /\ executions[plcJobs[i].call] = 0
BY DEF Accepted

LEMMA NextOnce == Types /\ Types' /\ OwnNumbers /\ Once /\ [LineNext]_lineVars => Once'
<1> SUFFICES ASSUME Types, Types', OwnNumbers, Once, [LineNext]_lineVars PROVE Once'
  OBVIOUS
<1>0. executions \in [Calls -> Nat] /\ Calls \subseteq Nat /\ call \in Nat
  <2>1. executions \in [Calls -> Nat]
    BY DEF Types, PlcOK
  <2>2. Calls \subseteq Nat /\ call \in Nat
    BY Bounds DEF Types, DaemonOK, Calls
  <2> QED
    BY <2>1, <2>2
<1>j. /\ plcJobs \in Seq([call : Calls, tns : Tns]) /\ Len(plcJobs) \in Nat
      /\ \A i \in 1 .. Len(plcJobs) : plcJobs[i].call \in Calls
  BY JobsTyped
<1>1. PICK last \in 0 .. call : Ordered(last) /\ Accepted(last)
  BY DEF Once
<1>2. last \in 0 .. call' /\ Ordered(last)' /\ (last > 0 => OwnAt(last, plcTns, call', tns'))
  <2>1. Ordered(last)'
    BY <1>1, NextOrdered DEF OwnNumbers
  <2>2. last \in 0 .. call'
    BY <1>0, CallChange
  <2> QED
    BY <1>1, <2>1, <2>2, OwnLater DEF Accepted
\* What is left to show is that commands are accepted in order, that no
\* execution is forgotten, and that the reply tells the truth.
<1>3. SUFFICES /\ \E k \in 0 .. call' : Ordered(k)' /\ Accepted(k)'
               /\ \A c \in Calls : executions'[c] \in {0, 1} /\ (executions[c] = 1 => executions'[c] = 1)
               /\ plcOut' # Nothing => plcOut' = plcOut \/ Executed(plcOut)'
  <2> SUFFICES ASSUME \E k \in 0 .. call' : Ordered(k)' /\ Accepted(k)',
                      \A c \in Calls : executions'[c] \in {0, 1} /\ (executions[c] = 1 => executions'[c] = 1),
                      plcOut' # Nothing => plcOut' = plcOut \/ Executed(plcOut)'
               PROVE  Once'
    OBVIOUS
  <2>1. plcOut' # Nothing => Executed(plcOut)'
    <3> SUFFICES ASSUME plcOut' # Nothing, plcOut' = plcOut PROVE Executed(plcOut)'
      OBVIOUS
    <3>1. plcOut.call \in Calls
      BY DEF Types, PlcOK, Replies
    <3> QED
      BY <3>1 DEF Once, Executed
  <2>2. ASSUME NEW i \in 1 .. Len(fromPlc'), fromPlc'[i].sym = "ETX"
        PROVE  fromPlc'[i].reply.sts = 0 => executions'[fromPlc'[i].reply.call] = 1
    <3>1. CASE plcOut' \in Replies /\ fromPlc'[i].reply = plcOut'
      BY <2>1, <3>1 DEF Executed
    <3>2. CASE \E j \in 1 .. Len(fromPlc) : fromPlc[j].sym = "ETX" /\ fromPlc'[i].reply = fromPlc[j].reply
      <4>1. PICK j \in 1 .. Len(fromPlc) : fromPlc[j].sym = "ETX" /\ fromPlc'[i].reply = fromPlc[j].reply
        BY <3>2
      <4>2. Own(fromPlc[j].reply.call, fromPlc[j].reply.tns) /\ Executed(fromPlc[j].reply)
        BY <4>1 DEF OwnNumbers, EndsOwn, Once
      <4>3. fromPlc[j].reply.call \in Calls
        BY <4>2, OwnNow
      <4> QED
        BY <4>1, <4>2, <4>3 DEF Executed
    <3> QED
      BY <2>2, <3>1, <3>2, EndsChange
  <2> QED
    BY <2>1, <2>2 DEF Once, Executed
<1>4. CASE UNCHANGED <<plcJobs, plcTns, executions>> /\ plcOut' \in {plcOut, Nothing}
  <2>1. Accepted(last)'
    BY <1>1, <1>2, <1>4 DEF Accepted, Own
  <2> QED
    BY <1>2, <1>4, <2>1 DEF Once
<1>5. CASE PlcReplies
  <2> DEFINE c == plcJobs[1].call
  <2>1. /\ c \in Calls /\ executions[c] = 0 /\ c <= last
        /\ \A i \in 1 .. Len(plcJobs') : c < plcJobs[i + 1].call /\ i + 1 \in 1 .. Len(plcJobs)
    BY <1>1, <1>5, Replying DEF Accepted
  <2>2. plcOut'.sts \in {0, 1} /\ executions' = [executions EXCEPT ![c] = 1 - plcOut'.sts]
    BY <1>0, <1>5, <2>1, Replying DEF Replies
  <2>3. executions'[c] = 1 - plcOut'.sts /\ \A d \in Calls : d # c => executions'[d] = executions[d]
    BY <1>0, <2>1, <2>2
  <2>4. \A d \in Calls : executions'[d] \in {0, 1} /\ (executions[d] = 1 => executions'[d] = 1)
    BY <2>1, <2>2, <2>3 DEF Once
  <2>5. Executed(plcOut)'
    BY <1>5, <2>3, Replying DEF Executed
  <2>6. Accepted(last)'
    <3>1. last > 0 => Own(last, plcTns)'
      BY <1>2, <1>5, Replying DEF Own
    <3>2. \A d \in Calls : executions'[d] > 0 => d <= last
      BY <1>1, <2>1, <2>3 DEF Accepted
    <3>3. ASSUME NEW i \in 1 .. Len(plcJobs')
          PROVE  /\ plcJobs'[i].call <= last /\ executions'[plcJobs'[i].call] = 0
                 /\ \A j \in 1 .. Len(plcJobs') : j < i => plcJobs'[j].call < plcJobs'[i].call
      <4>1. plcJobs'[i] = plcJobs[i + 1] /\ i + 1 \in 1 .. Len(plcJobs) /\ plcJobs[i + 1].call # c
        <5>1. i + 1 \in 1 .. Len(plcJobs) /\ c < plcJobs[i + 1].call
          BY <2>1
        <5>2. plcJobs'[i] = plcJobs[i + 1]
          BY <1>5, Replying
        <5>3. c \in Nat /\ plcJobs[i + 1].call \in Nat
          BY <1>0, <1>j, <2>1, <5>1
        <5> QED
          BY <5>1, <5>2, <5>3
      <4>2. plcJobs[i + 1].call \in Calls
        BY <1>j, <4>1
      <4>3. executions'[plcJobs'[i].call] = 0 /\ plcJobs'[i].call <= last
        <5>1. plcJobs[i + 1].call <= last /\ executions[plcJobs[i + 1].call] = 0
          BY <1>1, <4>1, JobsHeld
        <5>2. executions'[plcJobs[i + 1].call] = executions[plcJobs[i + 1].call]
          BY <2>3, <4>1, <4>2
        <5> QED
          BY <4>1, <5>1, <5>2
      <4>4. ASSUME NEW j \in 1 .. Len(plcJobs'), j < i PROVE plcJobs'[j].call < plcJobs'[i].call
        <5>1. plcJobs'[j] = plcJobs[j + 1] /\ j + 1 \in 1 .. Len(plcJobs) /\ j + 1 < i + 1
          BY <1>5, <2>1, <4>4, Replying
        <5>2. plcJobs[j + 1].call < plcJobs[i + 1].call
          BY <1>1, <4>1, <5>1, JobsOrdered
        <5> QED
          BY <4>1, <5>1, <5>2
      <4> QED
        BY <4>3, <4>4
    <3> QED
      BY <3>1, <3>2, <3>3 DEF Accepted
  <2> QED
    BY <1>2, <2>4, <2>5, <2>6
<1>6. CASE PlcGetsFrame /\ UNCHANGED <<plcOut, executions>>
  <2>1. \A c \in Calls : executions'[c] \in {0, 1} /\ (executions[c] = 1 => executions'[c] = 1)
    BY <1>6 DEF Once
  <2>2. \E k \in 0 .. call' : Ordered(k)' /\ Accepted(k)'
    <3>1. CASE UNCHANGED <<plcTns, plcJobs>>
      <4>1. Accepted(last)'
        BY <1>1, <1>2, <1>6, <3>1 DEF Accepted, Own
      <4> QED
        BY <1>2, <4>1
    <3>2. CASE plcTns' = toPlc[1].tns
      <4>1. PICK k \in Calls : k = toPlc[1].call
        BY <1>6, Accepting
      <4>2. Own(k, toPlc[1].tns) /\ UNCHANGED <<call, tns>> /\ last <= k
        BY <1>1, <1>6, <4>1, Accepting DEF OwnNumbers, FramesOwn, Ordered
      <4>3. k \in 0 .. call' /\ Own(k, plcTns)'
        BY <1>0, <3>2, <4>2 DEF Own, OwnAt
      <4>4. Ordered(k)'
        <5>1. ASSUME NEW i \in 1 .. Len(toPlc'), toPlc'[i].sym = "frame"
              PROVE  k <= toPlc'[i].call
          <6>1. toPlc'[i] = toPlc[i + 1] /\ i + 1 \in 1 .. Len(toPlc) /\ 1 \in 1 .. Len(toPlc) /\ 1 < i + 1
            BY <1>6, Accepting
          <6>2. toPlc[1].sym = "frame"
            BY <1>6, Accepting
          <6> QED
            BY <1>1, <4>1, <5>1, <6>1, <6>2 DEF Ordered
        <5> QED
          BY <1>2, <5>1 DEF Ordered
      <4>5. \A c \in Calls : executions'[c] > 0 => c <= k
        BY <1>0, <1>1, <1>6, <4>2 DEF Accepted
      <4>6. CASE plcJobs' = plcJobs
        <5>1. ASSUME NEW i \in 1 .. Len(plcJobs)
              PROVE  plcJobs[i].call <= k /\ executions[plcJobs[i].call] = 0
          <6>1. plcJobs[i].call \in Nat /\ k \in Nat /\ last \in Nat
            <7>1. last \in Nat
              BY <1>0
            <7>2. plcJobs[i].call \in Nat /\ k \in Nat
              BY <1>0, <1>j, <4>1
            <7> QED
              BY <7>1, <7>2
          <6> QED
            BY <1>1, <4>2, <6>1, JobsHeld
        <5>2. Accepted(k)'
          <6>1. \A i, j \in 1 .. Len(plcJobs) : j < i => plcJobs[j].call < plcJobs[i].call
            BY <1>1, JobsOrdered
          <6>2. k > 0 => Own(k, plcTns)'
            BY <4>3
          <6> QED
            BY <1>6, <4>5, <4>6, <5>1, <6>1, <6>2 DEF Accepted
        <5> QED
          BY <4>3, <4>4, <5>2
      <4>7. CASE /\ toPlc[1].tns # plcTns
                 /\ plcJobs' = Append(plcJobs, [call |-> toPlc[1].call, tns |-> toPlc[1].tns])
        <5> DEFINE e == [call |-> toPlc[1].call, tns |-> toPlc[1].tns]
        <5>1. last < k /\ executions[k] = 0
          <6>1. last # k
            BY <1>1, <4>1, <4>2, <4>7, OwnSame, <1>0 DEF Accepted, Calls
          <6> QED
            BY <1>0, <1>1, <4>2, <6>1 DEF Accepted
        <5>2. e \in [call : Calls, tns : Tns] /\ e.call = k
          BY <1>6, <4>1, Accepting
        <5> HIDE DEF e
        <5>3. /\ Len(plcJobs') = Len(plcJobs) + 1 /\ plcJobs'[Len(plcJobs) + 1] = e
              /\ \A i \in 1 .. Len(plcJobs) : plcJobs'[i] = plcJobs[i]
          BY <1>j, <4>7, <5>2, AppendProperties DEF e
        <5>4. ASSUME NEW i \in 1 .. Len(plcJobs)
              PROVE  /\ plcJobs[i].call \in Calls /\ plcJobs[i].call < k
                     /\ executions[plcJobs[i].call] = 0
          <6>1. plcJobs[i].call \in Nat /\ k \in Nat /\ last \in Nat
            <7>1. last \in Nat
              BY <1>0
            <7>2. plcJobs[i].call \in Nat /\ k \in Nat
              BY <1>0, <1>j, <4>1
            <7> QED
              BY <7>1, <7>2
          <6> QED
            BY <1>1, <1>j, <5>1, <6>1, JobsHeld
        <5>5. ASSUME NEW i \in 1 .. Len(plcJobs')
              PROVE  /\ plcJobs'[i].call <= k /\ executions'[plcJobs'[i].call] = 0
                     /\ \A j \in 1 .. Len(plcJobs') : j < i => plcJobs'[j].call < plcJobs'[i].call
          <6>1. CASE i \in 1 .. Len(plcJobs)
            <7>1. /\ plcJobs'[i] = plcJobs[i] /\ plcJobs[i].call < k /\ plcJobs[i].call \in Nat
                  /\ k \in Nat /\ executions[plcJobs[i].call] = 0
              BY <1>0, <4>1, <5>3, <5>4, <6>1
            <7>2. \A j \in 1 .. Len(plcJobs') : j < i => plcJobs'[j] = plcJobs[j] /\ j \in 1 .. Len(plcJobs)
              BY <1>j, <5>3, <6>1
            <7>3. \A j \in 1 .. Len(plcJobs) : j < i => plcJobs[j].call < plcJobs[i].call
              BY <1>1, <6>1, JobsOrdered
            <7>4. plcJobs'[i].call <= k /\ executions'[plcJobs'[i].call] = 0
              BY <1>6, <7>1
            <7> QED
              BY <7>1, <7>2, <7>3, <7>4
          <6>2. CASE i = Len(plcJobs) + 1
            <7>1. \A j \in 1 .. Len(plcJobs') : j < i => plcJobs'[j] = plcJobs[j] /\ j \in 1 .. Len(plcJobs)
              BY <1>j, <5>3, <6>2
            <7>2. plcJobs'[i].call = k /\ k \in Nat /\ executions'[k] = 0
              BY <1>0, <1>6, <4>1, <5>1, <5>2, <5>3, <6>2
            <7>3. plcJobs'[i].call <= k /\ executions'[plcJobs'[i].call] = 0
              BY <7>2
            <7>4. ASSUME NEW j \in 1 .. Len(plcJobs'), j < i
                  PROVE  plcJobs'[j].call < plcJobs'[i].call
              <8>1. plcJobs'[j] = plcJobs[j] /\ plcJobs[j].call < k
                BY <5>4, <7>1, <7>4
              <8> QED
                BY <7>2, <8>1
            <7> QED
              BY <7>3, <7>4
          <6>3. i \in 1 .. Len(plcJobs) \/ i = Len(plcJobs) + 1
            BY <1>j, <5>3
          <6> QED
            BY <6>1, <6>2, <6>3
        <5>6. Accepted(k)'
          <6>1. k > 0 => Own(k, plcTns)'
            BY <4>3
          <6> QED
            BY <4>5, <5>5, <6>1 DEF Accepted
        <5> QED
          BY <4>3, <4>4, <5>6
      <4> QED
        BY <1>6, <3>2, <4>6, <4>7, Accepting, <1>2, <3>1
    <3> QED
      BY <1>6, <3>1, <3>2, Accepting
  <2> QED
    BY <1>6, <2>1, <2>2
<1> QED
  BY <1>4, <1>5, <1>6, JobsChange

-----------------------------------------------------------------------------
(* The step simulation.                                                    *)
LEMMA RemoteStep ==
    Types /\ OwnNumbers /\ Given /\ Once /\ [LineNext]_lineVars => [Remote!Next]_(Remote!vars)
<1> SUFFICES ASSUME Types, OwnNumbers, Given, Once, [LineNext]_lineVars
             PROVE  Remote!Next \/ UNCHANGED <<result, executions>>
  BY DEF Remote!vars
<1>0. /\ result \in [Calls -> {"unborn", "pending", "success", "failure"}]
      /\ executions \in [Calls -> Nat] /\ Calls = Remote!Calls
      /\ Calls \subseteq Nat /\ call \in Nat
  BY DEF Types, DaemonOK, PlcOK, Calls, Remote!Calls
<1>1. CASE Begun
  <2>1. call' \in Calls /\ result[call'] = "unborn" /\ \A d \in Calls : result[d] # "pending"
    BY <1>0, <1>1 DEF Begun, Given
  <2>2. Remote!Begin(call') \/ Remote!Fail(call')
    BY <1>0, <1>1, <2>1 DEF Begun, Remote!Begin, Remote!Fail
  <2> QED
    BY <1>0, <2>1, <2>2 DEF Remote!Next
<1>2. CASE Continued
  BY <1>0, <1>2 DEF Continued, Given
<1>3. CASE Ended("failure")
  <2>1. call \in Calls /\ Remote!Fail(call)
    BY <1>3 DEF Ended, Given, Remote!Fail
  <2> QED
    BY <1>0, <2>1 DEF Remote!Next
<1>4. ASSUME NEW r \in Replies, Succeeded(r) PROVE Remote!Next
  <2>1. PICK i \in 1 .. Len(fromPlc) : fromPlc[i].sym = "ETX" /\ fromPlc[i].reply = r
    BY <1>4 DEF Succeeded
  <2>2. Own(r.call, r.tns) /\ Executed(r)
    BY <2>1 DEF OwnNumbers, EndsOwn, Once
  <2>3. r.call = call /\ executions[call] = 1
    BY <1>4, <2>2, OwnNow DEF Succeeded, Executed
  <2>4. call \in Calls /\ Remote!Succeed(call)
    BY <1>4, <2>3 DEF Succeeded, Ended, Given, Remote!Succeed
  <2> QED
    BY <1>0, <2>4 DEF Remote!Next
<1>5. CASE UNCHANGED <<doing, call, result, taken>>
  <2>1. CASE PlcReplies
    <3> DEFINE c == plcJobs[1].call
    <3>1. 1 \in 1 .. Len(plcJobs) /\ c \in Calls
      BY <2>1, Replying
    <3>2. executions[c] = 0 /\ Own(c, plcJobs[1].tns)
      BY <3>1 DEF Once, Accepted, OwnNumbers, JobsOwn
    <3>3. result[c] # "unborn"
      BY <1>0, <3>1, <3>2 DEF Given, Own, OwnAt
    <3>4. plcOut'.sts \in {0, 1} /\ executions' = [executions EXCEPT ![c] = 1 - plcOut'.sts]
      BY <1>0, <2>1, <3>1, <3>2, Replying DEF Replies
    <3>5. CASE plcOut'.sts = 0
      <4>1. executions' = [executions EXCEPT ![c] = 1] /\ result' = result
        BY <1>5, <3>4, <3>5
      <4>2. Remote!Execute(c)
        BY <3>2, <3>3, <4>1 DEF Remote!Execute
      <4> QED
        BY <1>0, <3>1, <4>2 DEF Remote!Next
    <3>6. CASE plcOut'.sts = 1
      BY <1>0, <1>5, <3>1, <3>2, <3>4, <3>6
    <3> QED
      BY <3>4, <3>5, <3>6
  <2> QED
    BY <1>5, <2>1, JobsChange
<1> QED
  BY <1>1, <1>2, <1>3, <1>4, <1>5, ResultChange

(* Whatever is lost, repeated or late, a command is executed at most once  *)
(* and SUCCESS means that it was.                                          *)
THEOREM LineImplementsRemoteCall == LineSpec => ImplementsRemoteCall
<1> DEFINE IInv == Types /\ OwnNumbers /\ Given /\ Once
<1>1. LineInit => IInv /\ Remote!Init
  <2> SUFFICES ASSUME LineInit PROVE IInv /\ Remote!Init
    OBVIOUS
  <2>1. Len(toPlc) = 0 /\ Len(plcJobs) = 0 /\ Len(fromPlc) = 0
    BY EmptySeq DEF LineInit
  <2>2. OwnNumbers
    BY <2>1 DEF LineInit, OwnNumbers, FramesOwn, JobsOwn, OutOwn, EndsOwn
  <2>3. Given
    BY DEF LineInit, Given, Calls
  <2>4. Once
    <3>1. 0 \in 0 .. call /\ Ordered(0) /\ Accepted(0)
      BY <2>1 DEF LineInit, Ordered, Accepted
    <3> QED
      BY <2>1, <3>1 DEF LineInit, Once
  <2>5. Remote!Init
    BY DEF LineInit, Remote!Init, Calls, Remote!Calls
  <2> QED
    BY <2>2, <2>3, <2>4, <2>5, InitTypes
<1>2. IInv /\ [LineNext]_lineVars => IInv' /\ [Remote!Next]_(Remote!vars)
  BY NextTypes, NextNumbered, NextGiven, NextOnce, RemoteStep
<1> HIDE DEF IInv
<1> QED
  BY <1>1, <1>2, PTL DEF LineSpec, ImplementsRemoteCall, Remote!Spec
=============================================================================
