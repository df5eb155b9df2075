------------------------------ MODULE TuxModbus ------------------------------
(***************************************************************************)
(* TuxModbus, the copy of TuxDf1 for Modbus/RTU, and the properties of the *)
(* two programs.  What the copy shares with its original has here a name   *)
(* of its own; a tag is the second of two holding registers, a reply has   *)
(* nothing that tells which request it is to, and a write was never filled *)
(* in.                                                                     *)
(***************************************************************************)
EXTENDS MailLogger

ModbusMain      == Load
ModbusRound     == Round
ModbusOpenFails == OpenFails
ModbusEnter     == Enter
ModbusSelect    == Select
ModbusUpdate    == Update

\* What is taken from a damaged reply, or from pieces of two.
Garbled == Number(None, 0, "read")

Flushed == [input EXCEPT ![elt] = <<>>]

\* ReadTag up to the reply: the first one in the input is taken, whatever
\* request it is to, and the own one stays behind it for the next read.  The
\* outcome of the check of its CRC is not looked at (receive_msg).  A timeout
\* and a bad CRC flush the line (error_treat), most exceptions do not, and
\* the reply may still come.
ModbusRead ==
    /\ pc = "call" /\ ~WriteExist[tag]
    /\ \/ /\ Fine /\ pc' = "update"
          /\ LET replies == Append(input[elt], Shown(tag, memory[tag])) IN
             got' = Head(replies) /\ input' = [input EXCEPT ![elt] = Tail(replies)]
          /\ UNCHANGED <<Comm_OK, next, elt, elt2, unanswered, disturbed>>
       \/ /\ Fault /\ pc' = "update"
          /\ got' = Garbled /\ input' = Flushed
          /\ disturbed' = disturbed \cup {elt}
          /\ UNCHANGED <<Comm_OK, next, elt, elt2, unanswered>>
       \/ /\ CallFails
          /\ input' \in {input, Flushed}
          /\ unanswered' \in {None, [plc |-> elt, tag |-> tag]}
          /\ disturbed' = disturbed \cup {elt}
    /\ UNCHANGED <<loaded, socket, start, WriteExist, WriteValue, program, terminated,
                   database, memory, late, stores, selected, written, failed>>

\* The reply comes after the timeout: it stays in the input, and if it is an
\* exception, which is shorter, the next read makes a number of pieces.
LateReply ==
    /\ unanswered # None /\ unanswered' = None
    /\ \E r \in {Shown(unanswered.tag, memory[unanswered.tag]), Garbled} :
          input' = [input EXCEPT ![unanswered.plc] = Append(@, r)]
    /\ UNCHANGED <<program, logger, terminated, database, memory, late, stores, ghosts, faults>>

\* WriteTag is a stub: it sends nothing and returns an int it never set.
WriteNothing ==
    /\ pc = "call" /\ WriteExist[tag]
    /\ Comm_OK' \in {Comm_OK, TRUE}
    /\ NextTag
    /\ UNCHANGED <<loaded, socket, start, WriteExist, WriteValue, got, program, terminated,
                   database, device, stores, ghosts, faults>>

ModbusLogger == \/ ModbusMain \/ ModbusRound \/ Skip \/ ModbusOpenFails \/ ModbusEnter
                \/ ModbusSelect \/ ModbusRead \/ WriteNothing \/ ModbusUpdate

Logger == \/ program = "TuxDf1" /\ Df1Logger
          \/ program = "TuxModbus" /\ ModbusLogger

Next == Logger \/ World \/ LateReply

\* Both are loops that wait for nothing but an exchange, which ends (Df1Link).
Spec == Init /\ [][Next]_vars /\ WF_vars(Logger) /\ WF_vars(Tick)

-----------------------------------------------------------------------------
Numbers == [tag : Tags \cup {None}, change : Nat, as : {"read", "sent"}]

TypeOK ==
    /\ program \in {"TuxDf1", "TuxModbus"}
    /\ pc \in {"start", "round", "plc", "select", "call", "update", "ended"}
    /\ loaded \subseteq PLCs /\ elt \in PLCs \cup {1} /\ elt2 \in Nat
    /\ pc \notin {"start", "ended"} => elt \in PLCs
    /\ pc \in {"select", "call", "update"} => elt2 \in DOMAIN PlcTags[elt] /\ socket[elt]
    /\ socket \in [PLCs -> BOOLEAN] /\ next \in [PLCs -> 0 .. Wait] /\ start \in 0 .. Wait
    /\ Comm_OK \in BOOLEAN /\ WriteExist \in [Tags -> BOOLEAN]
    /\ WriteValue \in [Tags -> Stores \cup {None}]
    /\ \A t \in Tags : WriteExist[t] => WriteValue[t] # None
    /\ row \in [Tags -> BOOLEAN] /\ mailbox \in [Tags -> Stores \cup {None}]
    /\ snapshot \in [Tags -> Numbers] /\ memory \in [Tags -> Nat] /\ got \in Numbers \cup {None}
    /\ input \in [PLCs -> Seq(Numbers)] /\ disturbed \subseteq PLCs
    /\ unanswered \in [plc : PLCs, tag : Tags] \cup {None}
    /\ stores \in 0 .. MaxStores /\ selected \in 0 .. stores
    /\ faults \in 0 .. MaxFaults

\* A value goes to the PLC once, and once more for each time that the write
\* or the update after it failed; only for a tag whose row was deleted it
\* goes again in every round, because WriteExist keeps its value (Logger,
\* _Read_WriteValue_Tag).
WrittenOnce ==
    TypeOK /\ \A v \in Stores : written[v] > 1 + failed[v] => \E t \in Tags : ~row[t] /\ WriteValue[t] = v

\* A stored value leaves its mailbox when the PLC has taken it, when a new
\* one replaces it, when its row goes, or, lost, when it came after the
\* select of the pass that clears the mailbox (_UpdateWriteTag).  What was
\* there to be selected is not lost.
OnlyLateStoresAreLost ==
    [][\A t \in Tags : mailbox[t] # None /\ mailbox'[t] = None /\ row'[t] =>
          \/ mailbox[t] = WriteValue[t] /\ written[mailbox[t]] > 0
          \/ mailbox[t] > selected /\ t = tag]_vars

\* A snapshot is a value that the variable has had since the one before it:
\* it never goes back, and never to the value of another tag (_UpdateTag,
\* _UpdateWriteTag).  In TuxModbus this ends for good with the first exchange
\* of the line that fails or is damaged: from then on a snapshot may be the
\* value of another tag, but of one on the same line, or be made of noise.
SnapshotsAdvance ==
    [][\A t \in Tags : snapshot'[t] # snapshot[t] =>
          LET now == snapshot'[t] IN
          /\ (\A p \in disturbed : t \notin TagsOf(p)) =>
                /\ now.tag = t /\ snapshot[t].change <= now.change /\ now.change <= memory[t]
          /\ \/ now = Garbled
             \/ \E p \in PLCs : {t, now.tag} \subseteq TagsOf(p) /\ now.change <= memory[now.tag]]_vars

\* Time and again a PLC is not suspended when its turn comes: its line is
\* opened again, and its tags are sampled (Next_Time in Logger).
PlcsAreTriedAgain ==
    \A p \in PLCs : []<>(pc = "ended" \/ (pc = "plc" /\ elt = p /\ next[p] = 0))

\* TuxDf1 comes to every value that is stored for one of its tags.
StoredIsTaken ==
    \A t \in Tags, v \in Stores :
        (program = "TuxDf1" /\ mailbox[t] = v)
        ~> (mailbox[t] # v \/ pc = "ended" \/ \E p \in PLCs \ loaded : t \in TagsOf(p))
=============================================================================
