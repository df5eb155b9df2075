----------------------------- MODULE MailLogger -----------------------------
(***************************************************************************)
(* The loggers TuxDf1 and TuxModbus: they sample the tags of their PLCs    *)
(* into the table DEFINITION of a database, and write to a PLC what other  *)
(* programs store in the column WRITE_VALUE of that table, a mailbox of    *)
(* one value per tag.  TuxModbus.c is a copy of TuxDf1.c; this module is   *)
(* the code they share, translated from TuxDf1.c, and module TuxModbus     *)
(* completes it with what each does in its own way.                        *)
(*                                                                         *)
(* Every query and every exchange with a PLC is a step, so that programs   *)
(* that store values and the PLC itself come in between.                   *)
(***************************************************************************)
EXTENDS Naturals, Sequences

CONSTANTS PlcTags,    \* the sequence of PLCs, each the sequence of its tags
          Wait,       \* WAIT_FOR_RECONNECT, 60 s in the code
          MaxStores, MaxChanges, MaxFaults,
          None

PLCs == DOMAIN PlcTags
TagsOf(p) == {PlcTags[p][i] : i \in DOMAIN PlcTags[p]}
Tags == UNION {TagsOf(p) : p \in PLCs}

ASSUME MailAssumption ==
    /\ PlcTags \in Seq(Seq(Tags))
    /\ {MaxStores, MaxChanges, MaxFaults} \subseteq Nat /\ Wait \in Nat \ {0}
    /\ None \notin Nat /\ None \notin Tags

VARIABLES
    program,    \* which of the two programs runs
    pc,         \* its place: start, round, plc, select, call, update, ended
    loaded,     \* the PLCs whose tags the program has found in the database
    elt,        \* the position in the list of PLCs
    elt2,       \* the position in the list of tags
    socket,     \* per PLC: is its line open
    next,       \* per PLC: seconds until Next_Time
    start,      \* seconds since startTime, Wait or more are the same
    Comm_OK,
    WriteExist, WriteValue,  \* per tag, as the last select found them
    got,        \* the value that is about to be stored in SNAPSHOT_VALUE
    terminated,
    row,        \* per tag: does its row exist
    mailbox,    \* per tag: WRITE_VALUE, the number of the store or None
    snapshot,   \* per tag: SNAPSHOT_VALUE, a number that was read or sent
    memory,     \* per tag: the variable in the PLC, counted by its changes
    late,       \* a write that failed and that the PLC may still execute
    input,      \* per PLC of TuxModbus: replies in the input queue of its line
    unanswered, \* a read that failed and that a PLC of TuxModbus may still answer
    stores,     \* how many values have been stored
    selected,   \* ghost: the number of stores at the last select
    written,    \* ghost, per store: how often the PLC took it
    failed,     \* ghost, per store: how often writing or clearing it failed
    disturbed,  \* ghost: the PLCs of TuxModbus of which an exchange failed or was damaged
    faults

logger   == <<pc, loaded, elt, elt2, socket, next, start, Comm_OK, WriteExist, WriteValue, got>>
database == <<row, mailbox, snapshot>>
rtu      == <<input, unanswered>>
device   == <<memory, late, rtu>>
ghosts   == <<selected, written, failed, disturbed>>
vars == <<program, logger, terminated, database, device, stores, ghosts, faults>>

Stores == 1 .. MaxStores

\* Numbers of a tag: as they are made of a reply (in TuxDf1 with the sign of
\* the word, in TuxModbus without), and as they are sent, which is what
\* write_Tag leaves in its argument: a word without sign, and for a bit the
\* number that was stored.
Number(t, n, as) == [tag |-> t, change |-> n, as |-> as]
Shown(t, n) == Number(t, n, "read")
Sent(t, n)  == Number(t, n, "sent")

Init ==
    /\ program \in {"TuxDf1", "TuxModbus"}
    /\ pc = "start" /\ loaded = {} /\ elt = 1 /\ elt2 = 1
    /\ socket = [p \in PLCs |-> FALSE] /\ next = [p \in PLCs |-> 0] /\ start = 0
    /\ Comm_OK = FALSE
    /\ WriteExist = [t \in Tags |-> FALSE] /\ WriteValue = [t \in Tags |-> None] /\ got = None
    /\ terminated = FALSE
    /\ row = [t \in Tags |-> TRUE]
    /\ mailbox = [t \in Tags |-> None] /\ snapshot = [t \in Tags |-> Shown(t, 0)]
    /\ memory = [t \in Tags |-> 0] /\ late = None
    /\ input = [p \in PLCs |-> <<>>] /\ unanswered = None /\ disturbed = {}
    /\ stores = 0 /\ selected = 0
    /\ written = [v \in Stores |-> 0] /\ failed = [v \in Stores |-> 0]
    /\ faults = MaxFaults

-----------------------------------------------------------------------------
Fault == faults > 0 /\ faults' = faults - 1
Fine  == UNCHANGED faults

tag == PlcTags[elt][elt2]
LastTag == elt2 = Len(PlcTags[elt])

\* _GetTag for each PLC; the tags of a PLC whose query fails are missing.
GetTag == \/ loaded' = PLCs /\ Fine
          \/ Fault /\ loaded' \in SUBSET PLCs

BuildSocket(p) == socket' = [socket EXCEPT ![p] = TRUE]
KillAll == socket' = [p \in PLCs |-> FALSE]
FreeAll == loaded' = {}

\* mainprog: the database is opened and asked for PLCs and, PLC by PLC, for
\* tags.  Without any tag the program ends.
Load ==
    /\ pc = "start"
    /\ GetTag
    /\ pc' = IF loaded' = {} THEN "ended" ELSE "round"
    /\ UNCHANGED <<elt, elt2, socket, next, start, Comm_OK, WriteExist, WriteValue, got,
                   program, terminated, database, device, stores, ghosts>>

\* while (!Terminated): a signal is looked at between two rounds only.
Round ==
    /\ pc = "round"
    /\ IF terminated
       THEN pc' = "ended" /\ KillAll /\ FreeAll /\ UNCHANGED elt
       ELSE pc' = "plc" /\ elt' = 1 /\ UNCHANGED <<socket, loaded>>
    /\ UNCHANGED <<elt2, next, start, Comm_OK, WriteExist, WriteValue, got,
                   program, terminated, database, device, stores, ghosts, faults>>

GoOn == IF elt = Len(PlcTags) THEN pc' = "round" /\ UNCHANGED elt
                              ELSE pc' = "plc" /\ elt' = elt + 1

\* Next_Time = startTime + WAIT_FOR_RECONNECT, where startTime is the begin of
\* the last pass over the tags of any PLC.
Suspended(p) == [next EXCEPT ![p] = Wait - start]

\* Mutant: a PLC is suspended again whenever its turn comes.
Skip_Again ==
    /\ pc = "plc" /\ next[elt] > 0
    /\ next' = [next EXCEPT ![elt] = Wait]
    /\ GoOn
    /\ UNCHANGED <<loaded, elt2, socket, start, Comm_OK, WriteExist, WriteValue, got,
                   program, terminated, database, device, stores, ghosts, faults>>

\* A PLC that is suspended is left alone.
Skip ==
    /\ pc = "plc" /\ next[elt] > 0
    /\ GoOn
    /\ UNCHANGED <<loaded, elt2, socket, next, start, Comm_OK, WriteExist, WriteValue, got,
                   program, terminated, database, device, stores, ghosts, faults>>

OpenFails ==
    /\ pc = "plc" /\ next[elt] = 0 /\ ~socket[elt]
    /\ Fault
    /\ next' = Suspended(elt)
    /\ GoOn
    /\ UNCHANGED <<loaded, elt2, socket, start, Comm_OK, WriteExist, WriteValue, got,
                   program, terminated, database, device, stores, ghosts>>

\* A PLC without tags counts as one whose tags are all in error.
Enter ==
    /\ pc = "plc" /\ next[elt] = 0
    /\ BuildSocket(elt)
    /\ start' = 0 /\ Comm_OK' = FALSE
    /\ IF elt \in loaded /\ PlcTags[elt] # <<>>
       THEN pc' = "select" /\ elt2' = 1 /\ UNCHANGED <<elt, next>>
       ELSE next' = [next EXCEPT ![elt] = Wait] /\ GoOn /\ UNCHANGED elt2
    /\ UNCHANGED <<loaded, WriteExist, WriteValue, got,
                   program, terminated, database, device, stores, ghosts, faults>>

\* To the next tag, and after the last one to the next PLC; when no tag was
\* read or written the PLC is suspended.
NextTag ==
    IF LastTag
    THEN /\ next' = IF Comm_OK' THEN next ELSE Suspended(elt)
         /\ GoOn /\ elt2' = 1
    ELSE pc' = "select" /\ elt2' = elt2 + 1 /\ UNCHANGED <<next, elt>>

\* The log of a failed select or call has three %s and two arguments: TuxDf1
\* may not survive it.
MayCrash == program = "TuxDf1" /\ pc' = "ended" /\ UNCHANGED <<next, elt, elt2>>

\* Mutant: WriteExist is set by a value and never reset.
ReadWriteValue_Sticky ==
    IF row[tag] /\ mailbox[tag] # None
    THEN /\ WriteExist' = [WriteExist EXCEPT ![tag] = TRUE]
         /\ WriteValue' = [WriteValue EXCEPT ![tag] = mailbox[tag]]
    ELSE UNCHANGED <<WriteExist, WriteValue>>

\* Mutant: WriteExist is left at 0 when there is a value.
ReadWriteValue_Never ==
    /\ WriteExist' = IF row[tag] THEN [WriteExist EXCEPT ![tag] = FALSE] ELSE WriteExist
    /\ WriteValue' = IF row[tag] /\ mailbox[tag] # None
                     THEN [WriteValue EXCEPT ![tag] = mailbox[tag]] ELSE WriteValue

\* _Read_WriteValue_Tag.  A row that is gone gives no result, and WriteExist
\* keeps what the last select said.
ReadWriteValue ==
    /\ WriteExist' = IF row[tag] THEN [WriteExist EXCEPT ![tag] = mailbox[tag] # None] ELSE WriteExist
    /\ WriteValue' = IF row[tag] /\ mailbox[tag] # None
                     THEN [WriteValue EXCEPT ![tag] = mailbox[tag]] ELSE WriteValue

Select ==
    /\ pc = "select"
    /\ \/ /\ Fine
          /\ ReadWriteValue
          /\ selected' = stores
          /\ pc' = "call"
          /\ UNCHANGED <<Comm_OK, next, elt, elt2>>
       \/ /\ Fault
          /\ Comm_OK' = Comm_OK /\ (NextTag \/ MayCrash)
          /\ UNCHANGED <<WriteExist, WriteValue, selected>>
    /\ UNCHANGED <<loaded, socket, start, got, program, terminated, database, device, stores,
                   written, failed, disturbed>>

-----------------------------------------------------------------------------
(***************************************************************************)
(* An exchange with the PLC keeps the promise of module RemoteCall: when   *)
(* it fails, the PLC has executed the command, will, or never does.        *)
(***************************************************************************)

Least(m, n) == IF m < n THEN m ELSE n

\* A value that is written over and over changes nothing after a while, and
\* its writes are counted up to MaxFaults + 2.
Took(v, t) == /\ memory' = IF written[v] = MaxFaults + 2 THEN memory ELSE [memory EXCEPT ![t] = @ + 1]
              /\ written' = [written EXCEPT ![v] = Least(@ + 1, MaxFaults + 2)]

CallFails ==
    /\ Fault
    /\ Comm_OK' = Comm_OK
    /\ NextTag \/ MayCrash
    /\ UNCHANGED got

\* ReadTag of TuxDf1 up to the reply.
Read ==
    /\ program = "TuxDf1"
    /\ pc = "call" /\ ~WriteExist[tag]
    /\ \/ /\ Fine /\ got' = Shown(tag, memory[tag]) /\ pc' = "update"
          /\ UNCHANGED <<Comm_OK, next, elt, elt2>>
       \/ CallFails
    /\ UNCHANGED <<loaded, socket, start, WriteExist, WriteValue, program, terminated,
                   database, device, stores, ghosts>>

\* WriteTag of TuxDf1 up to the reply.
Write ==
    /\ program = "TuxDf1"
    /\ pc = "call" /\ WriteExist[tag]
    /\ LET v == WriteValue[tag] IN
       \/ /\ Fine /\ Took(v, tag) /\ late' = None
          /\ got' = Sent(tag, memory'[tag]) /\ pc' = "update"
          /\ UNCHANGED <<Comm_OK, next, elt, elt2, failed>>
       \/ /\ CallFails
          /\ failed' = [failed EXCEPT ![v] = @ + 1]
          /\ \/ Took(v, tag) /\ UNCHANGED late
             \/ late' = [tag |-> tag, value |-> v] /\ UNCHANGED <<memory, written>>
             \/ UNCHANGED <<memory, late, written>>
    /\ UNCHANGED <<loaded, socket, start, WriteExist, WriteValue, program, terminated,
                   database, rtu, stores, selected, disturbed>>

\* The PLC comes to a command whose caller has given up.
Late ==
    /\ late # None
    /\ Took(late.value, late.tag)
    /\ late' = None
    /\ UNCHANGED <<program, logger, terminated, database, rtu, stores, selected, failed, disturbed,
                   faults>>

\* Mutant: the update has no where clause.
Cleared_All(t)  == [u \in Tags |-> None]

Cleared(t) == [mailbox EXCEPT ![t] = None]

\* Mutant: the value of the last exchange goes to the tag that comes next.
Snapshot_Next(t) == [snapshot EXCEPT ![IF LastTag THEN t ELSE PlcTags[elt][elt2 + 1]] = got]

Snapshot(t) == [snapshot EXCEPT ![t] = got]

\* _UpdateTag, or _UpdateWriteTag, which empties the mailbox whatever is in
\* it by now.  An error of the database leaves both columns alone and does
\* not count against the tag.
Update ==
    /\ pc = "update"
    /\ \/ /\ Fine /\ row[tag]
          /\ snapshot' = Snapshot(tag)
          /\ mailbox' = IF WriteExist[tag] THEN Cleared(tag) ELSE mailbox
          /\ UNCHANGED failed
       \/ /\ Fault \/ (~row[tag] /\ Fine)
          /\ failed' = IF WriteExist[tag]
                       THEN [failed EXCEPT ![WriteValue[tag]] = Least(@ + 1, MaxFaults + 2)] ELSE failed
          /\ UNCHANGED <<snapshot, mailbox>>
    /\ Comm_OK' = TRUE /\ NextTag
    /\ got' = None /\ selected' = 0
    /\ UNCHANGED <<loaded, socket, start, WriteExist, WriteValue, program, terminated, row,
                   device, stores, written, disturbed>>

-----------------------------------------------------------------------------
(***************************************************************************)
(* The rest of the world.                                                  *)
(***************************************************************************)

\* A client stores a value for a tag: update DEFINITION set WRITE_VALUE.
Store ==
    /\ stores < MaxStores /\ stores' = stores + 1
    /\ \E t \in Tags : row[t] /\ mailbox' = [mailbox EXCEPT ![t] = stores']
    /\ UNCHANGED <<program, logger, terminated, row, snapshot, device, ghosts, faults>>

\* The row of a tag is deleted; the logger keeps the tag.
RowGoes ==
    /\ Fault
    /\ \E t \in Tags :
         /\ row[t] /\ row' = [row EXCEPT ![t] = FALSE]
         /\ mailbox' = [mailbox EXCEPT ![t] = None]
    /\ UNCHANGED <<program, logger, terminated, snapshot, device, stores, ghosts>>

\* The program of the PLC changes a variable.
Change ==
    /\ \A t \in Tags : memory[t] < MaxChanges
    /\ \E t \in Tags : memory' = [memory EXCEPT ![t] = @ + 1]
    /\ UNCHANGED <<program, logger, terminated, database, late, rtu, stores, ghosts, faults>>

\* SigHand
Signal ==
    /\ Fault /\ terminated' = TRUE
    /\ UNCHANGED <<program, logger, database, device, stores, ghosts>>

Tick ==
    /\ pc # "ended"
    /\ start' = Least(start + 1, Wait)
    /\ next' = [p \in PLCs |-> IF next[p] = 0 THEN 0 ELSE next[p] - 1]
    /\ UNCHANGED <<pc, loaded, elt, elt2, socket, Comm_OK, WriteExist, WriteValue, got,
                   program, terminated, database, device, stores, ghosts, faults>>

World == Late \/ Store \/ RowGoes \/ Change \/ Signal \/ Tick

Df1Logger == Load \/ Round \/ Skip \/ OpenFails \/ Enter \/ Select \/ Read \/ Write \/ Update
=============================================================================
