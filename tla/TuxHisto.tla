------------------------------ MODULE TuxHisto -------------------------------
(***************************************************************************)
(* TuxHisto, the archiver: SQLTOLIST times in a row it selects all tags of *)
(* DEFINITION (CheckBySql) and inserts into HISTO the snapshots that are   *)
(* newer than the last one it has inserted; then it forgets the tags that  *)
(* no select has found (CheckList).  It keeps a TAG for each tag in an     *)
(* array of pointers, which CompactListe closes up after a removal.        *)
(*                                                                         *)
(* Every row of a result is a step, for its insert is a query.  Deleting   *)
(* old rows of HISTO changes nothing here: histo counts what was inserted. *)
(***************************************************************************)
EXTENDS Integers, Sequences, SequencesExt, FiniteSets

CONSTANTS Ids,           \* the tags' ids, a set of numbers
          Logged,        \* those a logger takes snapshots of
          FirstRows,     \* sets of ids: what DEFINITION may hold at the start
          Cap,           \* MAX_LISTE_SIZE, 500
          SQLTOLIST,     \* 10
          Time_Sample,   \* seconds between two samples of a tag in HISTO
          MaxTime,       \* snapshots are taken at times 1 .. MaxTime
          MaxFaults,     \* failed queries, rows that come and go, signals, restarts
          None

ASSUME HistoAssumption ==
    /\ Ids \subseteq Nat /\ IsFiniteSet(Ids) /\ FirstRows \subseteq SUBSET Ids
    /\ {Cap, SQLTOLIST, MaxTime} \subseteq Nat \ {0} /\ {Time_Sample, MaxFaults} \subseteq Nat
    /\ None \notin Nat

VARIABLES pc,        \* round, rows, crashed, ended
          rounds,    \* i, rounds since CheckList
          Data, Count,  \* the array of pointers and how many of it are in use
          tags,      \* per block of memory: the TAG in it
          freed,     \* the blocks that have been freed
          result,    \* the rows of the select not handled yet
          terminated,
          rows, snapshot, clock,   \* DEFINITION: the ids, the SNAPSHOT_TIMEs (0 is NULL)
          histo,     \* HISTO, per tag and snapshot: how often it was inserted
          failed,    \* ghost: snapshots whose insert failed
          selected,  \* ghost: has a select succeeded since CheckList
          excused,   \* ghost: tags that the program may have forgotten
          trouble,   \* ghost: CheckList has met what CompactListe cannot close up
          faults

list  == <<Data, Count, tags, freed>>
table == <<rows, snapshot, clock>>
vars  == <<pc, rounds, list, result, terminated, table, histo, failed, selected, excused, trouble, faults>>

Times  == 1 .. MaxTime
Blocks == 1 .. Cap + 1
Slots  == 1 .. Cap

Fault == faults > 0 /\ faults' = faults - 1
Fine  == UNCHANGED faults

NoData == [s \in Slots |-> None]
NoTags == [b \in Blocks |-> [id |-> None, exist |-> FALSE, inserted |-> 0]]

Init ==
    /\ pc = "round" /\ rounds = 0 /\ Data = NoData /\ Count = 0 /\ tags = NoTags /\ freed = {}
    /\ result = <<>> /\ terminated = FALSE
    /\ rows \in FirstRows /\ snapshot = [t \in Ids |-> 0] /\ clock = 0
    /\ histo = [t \in Ids |-> [x \in Times |-> 0]] /\ failed = {}
    /\ selected = FALSE /\ excused = {} /\ trouble = FALSE
    /\ faults = MaxFaults

-----------------------------------------------------------------------------
(***************************************************************************)
(* The list.                                                               *)
(***************************************************************************)

Listed == {Data[s] : s \in 1 .. Count}

\* The slot at which FindTag stops: the tag, or a NULL it dereferences.
StopsAt(t) == {s \in 1 .. Count : Data[s] = None \/ tags[Data[s]].id = t}

FindTag(t) == IF StopsAt(t) = {} THEN None
              ELSE Data[CHOOSE s \in StopsAt(t) : \A r \in StopsAt(t) : s <= r]

FindTagCrashes(t) == \/ StopsAt(t) # {} /\ FindTag(t) = None

Held(d) == {d[s] : s \in Slots} \ {None}

\* What malloc may return: memory that was freed, pointed at or not, or
\* memory that nobody has had, which is all alike.
Malloc == freed \cup {CHOOSE b \in Blocks \ Held(Data) : \A c \in Blocks \ Held(Data) : b <= c}

\* What is in a block that no pointer leads to does not matter.
Contents(f, d) == [b \in Blocks |-> IF b \in Held(d) THEN f[b] ELSE NoTags[b]]

AddListe(b) == IF Count >= Cap THEN UNCHANGED <<Data, Count>>
               ELSE Data' = [Data EXCEPT ![Count + 1] = b] /\ Count' = Count + 1

\* Mutant: nothing is closed up.
CloseUp_None(d) == d

\* If slot s is NULL, everything behind it moves up by one; of two NULLs in
\* a row the second moves into the place that the loop leaves.
MoveUp(d, s) == IF d[s] # None THEN d
                ELSE [r \in Slots |-> d[IF s <= r /\ r < Cap THEN r + 1 ELSE r]]

Closing(d) == LET after[s \in 0 .. Cap] == IF s = 0 THEN d ELSE MoveUp(after[s - 1], s)
              IN  after
CloseUp(d) == Closing(d)[Cap]

InUse(d) == Cardinality({s \in Slots : d[s] # None})

\* No select has found the tag; or CheckList has met its TAG already, in an
\* earlier slot, and has reset exist, as it does even after the free.
Gone(s) == /\ s <= Count /\ Data[s] # None
           /\ ~tags[Data[s]].exist \/ \E r \in 1 .. s - 1 : Data[r] = Data[s]

Removed == [s \in Slots |-> IF Gone(s) THEN None ELSE Data[s]]

Reset == [b \in Blocks |-> [tags[b] EXCEPT !.exist = @ /\ b \notin Listed]]

\* A tag to remove from a full list, or two in a row with one behind them.
Unclosable == \/ Count = Cap /\ \E s \in Slots : Gone(s)
              \/ \E s \in 2 .. Count : Gone(s - 1) /\ Gone(s) /\ \E r \in s + 1 .. Count : ~Gone(r)

-----------------------------------------------------------------------------
(***************************************************************************)
(* The program.                                                            *)
(***************************************************************************)

End ==
    /\ pc = "round" /\ terminated
    /\ pc' = "ended"
    /\ UNCHANGED <<rounds, list, result, terminated, table, histo, failed, selected, excused, trouble, faults>>

CheckList ==
    /\ pc = "round" /\ ~terminated /\ rounds >= SQLTOLIST
    /\ rounds' = 0
    /\ Data' = CloseUp(Removed) /\ Count' = InUse(Data')
    /\ tags' = Contents(Reset, Data')
    /\ freed' = (freed \cup {Data[s] : s \in {r \in Slots : Gone(r)}}) \cap Held(Data')
    /\ selected' = FALSE
    /\ excused' = IF selected THEN excused ELSE Ids
    /\ trouble' = (trouble \/ Unclosable)
    /\ UNCHANGED <<pc, result, terminated, table, histo, failed, faults>>

\* The select of CheckBySql, whose result is stored at once, in whatever
\* order the rows come.
CheckBySql ==
    /\ pc = "round" /\ ~terminated /\ rounds < SQLTOLIST
    /\ rounds' = rounds + 1
    /\ \/ Fine /\ selected' = TRUE
          /\ LET ids == SetToSeq(rows) IN
               result' = [n \in DOMAIN ids |-> [id |-> ids[n], time |-> snapshot[ids[n]]]]
          /\ pc' = IF result' = <<>> THEN "round" ELSE "rows"
       \/ Fault /\ UNCHANGED <<pc, result, selected>>
    /\ UNCHANGED <<list, terminated, table, histo, failed, excused, trouble>>

\* Mutant: a snapshot that is as old as the sample time is due.
Due_Early(tag, time) == time >= Time_Sample + tag.inserted

\* A tag that has never been sampled has the time 0 and is never due.
Due(tag, time) == time > Time_Sample + tag.inserted

\* Mutant: the rest of the result is dropped.
NextRow_Last == result' = <<>> /\ pc' = "round"

NextRow ==
    /\ result' = Tail(result)
    /\ pc' = IF result' = <<>> THEN "round" ELSE "rows"

\* InsertHisto; a failed insert is logged, and the snapshot counts as inserted.
InsertHisto(t, time) ==
    \/ Fine /\ histo' = [histo EXCEPT ![t][time] = IF @ < 2 THEN @ + 1 ELSE @] /\ UNCHANGED failed
    \/ Fault /\ failed' = failed \cup {<<t, time>>} /\ UNCHANGED histo

Exists(t, inserted) == [id |-> t, exist |-> TRUE, inserted |-> inserted]

\* A row whose tag is in the list, or gets a TAG, which is used for this row
\* only when the list is full.
Row ==
    /\ pc = "rows"
    /\ LET t == Head(result).id
           time == Head(result).time IN
         /\ ~FindTagCrashes(t)
         /\ \E b \in IF FindTag(t) = None THEN Malloc ELSE {FindTag(t)} :
              LET new == FindTag(t) = None
                  old == IF new THEN Exists(t, 0) ELSE tags[b]
                  due == Due(old, time) IN
              /\ IF new THEN AddListe(b) ELSE UNCHANGED <<Data, Count>>
              /\ freed' = IF new THEN freed \ {b} ELSE freed
              /\ excused' = IF new /\ Count = Cap THEN excused \cup {t} ELSE excused
              /\ tags' = Contents([tags EXCEPT ![b] = Exists(t, IF due THEN time ELSE old.inserted)], Data')
              /\ IF due THEN InsertHisto(t, time) ELSE Fine /\ UNCHANGED <<histo, failed>>
    /\ NextRow
    /\ UNCHANGED <<rounds, terminated, table, selected, trouble>>

\* SIGSEGV, for which no setjmp has prepared the longjmp of SigHand.  A
\* pointer to freed memory may do it too.
Crash ==
    /\ pc = "rows"
    /\ FindTagCrashes(Head(result).id) \/ Listed \cap freed # {}
    /\ pc' = "crashed"
    /\ UNCHANGED <<rounds, list, result, terminated, table, histo, failed, selected, excused, trouble, faults>>

Daemon == End \/ CheckList \/ CheckBySql \/ Row \/ Crash

-----------------------------------------------------------------------------
(***************************************************************************)
(* The rest of the world.                                                  *)
(***************************************************************************)

\* SigHand
Signal ==
    /\ ~terminated /\ Fault /\ terminated' = TRUE
    /\ UNCHANGED <<pc, rounds, list, result, table, histo, failed, selected, excused, trouble>>

\* The administrator starts the program again: it knows nothing.
Restart ==
    /\ pc \in {"ended", "crashed"} /\ Fault
    /\ pc' = "round" /\ rounds' = 0
    /\ Data' = NoData /\ Count' = 0 /\ tags' = NoTags /\ freed' = {}
    /\ result' = <<>> /\ terminated' = FALSE
    /\ selected' = FALSE /\ excused' = Ids /\ trouble' = FALSE
    /\ UNCHANGED <<table, histo, failed>>

\* A logger stores a snapshot.
Sample ==
    /\ clock < MaxTime /\ clock' = clock + 1
    /\ \E t \in rows \cap Logged : snapshot' = [snapshot EXCEPT ![t] = clock']
    /\ UNCHANGED <<pc, rounds, list, result, terminated, rows, histo, failed, selected, excused, trouble, faults>>

RowGoes ==
    /\ Fault
    /\ \E t \in rows : rows' = rows \ {t} /\ excused' = excused \cup {t}
    /\ UNCHANGED <<pc, rounds, list, result, terminated, snapshot, clock, histo, failed, selected, trouble>>

World == Signal \/ Restart \/ Sample \/ RowGoes

HistoNext == Daemon \/ World

\* A loop that waits for nothing but its queries.
Spec == Init /\ [][HistoNext]_vars /\ WF_vars(Daemon)

-----------------------------------------------------------------------------
TypeOK ==
    /\ pc \in {"round", "rows", "crashed", "ended"} /\ rounds \in 0 .. SQLTOLIST
    /\ Data \in [Slots -> Blocks \cup {None}] /\ Count \in 0 .. Cap
    /\ tags \in [Blocks -> [id : Ids \cup {None}, exist : BOOLEAN, inserted : 0 .. MaxTime]]
    /\ freed \subseteq Blocks
    /\ result \in Seq([id : Ids, time : 0 .. MaxTime])
    /\ pc = "rows" <=> result # <<>> /\ pc # "crashed"
    /\ rows \subseteq Ids /\ snapshot \in [Ids -> 0 .. MaxTime] /\ clock \in 0 .. MaxTime
    /\ histo \in [Ids -> [Times -> 0 .. 2]]
    /\ selected \in BOOLEAN /\ trouble \in BOOLEAN /\ excused \subseteq Ids
    /\ faults \in 0 .. MaxFaults

\* The first Count slots hold different tags, none of them freed, and there
\* is nothing behind them, so that FindTag finds every tag and touches no
\* other: until CheckList meets a list that CompactListe cannot close up.
ListIsSound ==
    /\ TypeOK
    /\ ~trouble => /\ pc # "crashed"
                   /\ \A s \in Slots : (Data[s] = None) <=> (s > Count)
                   /\ Listed \cap freed = {}
                   /\ \A r, s \in 1 .. Count : tags[Data[r]].id = tags[Data[s]].id => r = s

\* A snapshot gets into HISTO once, and the samples of a tag are more than
\* Time_Sample apart, unless the program had a reason to forget the tag: its
\* row was gone, the list was full, all selects between two checks failed, or
\* the program was started anew (CheckBySql, CheckList).
SamplesAreApart ==
    \A t \in Ids \ excused : trouble \/
       \A x, y \in Times : histo[t][x] > 0 /\ histo[t][y] > 0 =>
           IF x = y THEN histo[t][x] = 1 ELSE x > y + Time_Sample \/ y > x + Time_Sample

\* The snapshot of a tag is due, and neither it nor one that is too close to
\* it has been inserted, or has failed to be: Insert_Time_Value is set before
\* the insert, which is not repeated.
Waits(t) == /\ t \in rows /\ snapshot[t] > Time_Sample
            /\ \A y \in snapshot[t] - Time_Sample .. snapshot[t] :
                 y > 0 => histo[t][y] = 0 /\ <<t, y>> \notin failed

\* While the program runs, no snapshot waits for ever (CheckBySql).
SnapshotsAreArchived == \A t \in Ids : []<>(pc \in {"crashed", "ended"} \/ ~Waits(t))
=============================================================================
