------------------------------- MODULE TuxMdb -------------------------------
(***************************************************************************)
(* TuxMdb, the logger of Modbus/TCP devices: Optimise_Plc groups the tags  *)
(* of a PLC into packets, and Logger reads the tags and the packets that   *)
(* are due and stores their values in DEFINITION.                          *)
(*                                                                         *)
(* A tag that is read alone and a packet are both an item here.  Times are *)
(* kept relative to the present.                                           *)
(***************************************************************************)
EXTENDS MBClient, FiniteSets

CONSTANTS Rows,         \* the tags there may be
          Plants,       \* the PLCs there may be: sequences of sequences of tags
          MaxEltByPacket,  \* 50
          MAX_SAMPLE,   \* the longest Time_Sample of a tag
          Wait,         \* WAIT_FOR_RECONNECT, 60 s
          MaxFaults

\* What _GetPlc and _GetTag select: the tags have addresses of FTable, and
\* each is a row of its own.  Without a PLC the program ends at once.
ASSUME MdbAssumption ==
    /\ {MaxEltByPacket, MAX_SAMPLE, Wait, MaxFaults} \subseteq Nat
    /\ \A t \in Rows : t.number \in Nat /\ t.sample \in 1 .. MAX_SAMPLE /\ C_F_Index(t) # 0
    /\ Plants \subseteq Seq(Seq(Rows)) \ {<<>>}
    /\ \A test \in Plants : \A p, q \in DOMAIN test :
          \A i \in DOMAIN test[p], j \in DOMAIN test[q] : test[p][i] = test[q][j] => p = q /\ i = j

VARIABLES plant,    \* the PLCs, each the sequence of its tags
          items,    \* per PLC: its tags without a packet, and its packets
          pc,       \* start, round, plc, item, wait, check, sleep, ended
          elt, elt2,
          socket,   \* per PLC: is its socket open
          next,     \* per PLC: seconds until Next_Time
          age,      \* per PLC and item: seconds since Time_Value, or Never if it is 0
          now,      \* seconds since now was set
          Comm_err, Read_Something,
          terminated,
          stored,   \* per tag: the place its SNAPSHOT_VALUE is of, or None
          mistaken, \* ghost: a call has taken a reply to another
          faults

loop == <<pc, elt, elt2, socket, next, age, now, Comm_err, Read_Something>>
vars == <<plant, items, loop, terminated, line, stored, mistaken, faults>>

PLCs == DOMAIN plant
AllTags == UNION {{plant[p][i] : i \in DOMAIN plant[p]} : p \in PLCs}

Long  == Wait + MAX_SAMPLE   \* an age that no date of the loop tells from a greater one
Never == Long + 1

Init ==
    /\ plant \in Plants
    /\ items = [p \in PLCs |-> <<>>] /\ pc = "start" /\ elt = 1 /\ elt2 = 1
    /\ socket = [p \in PLCs |-> FALSE] /\ next = [p \in PLCs |-> 0]
    /\ age = [p \in PLCs |-> <<>>] /\ now = 0
    /\ Comm_err = FALSE /\ Read_Something = FALSE /\ terminated = FALSE
    /\ Quiet(PLCs)
    /\ stored = [t \in AllTags |-> None] /\ mistaken = FALSE
    /\ faults = MaxFaults

Fault == faults > 0 /\ faults' = faults - 1
Fine  == UNCHANGED faults

-----------------------------------------------------------------------------
(***************************************************************************)
(* Optimise_Plc.                                                           *)
(***************************************************************************)

\* The numbers of S in an order in which none comes behind one it is less than.
InOrder(S, less) ==
    CHOOSE f \in Bijection(1 .. Cardinality(S), S) :
        \A i, j \in 1 .. Cardinality(S) : i < j => <<f[j], f[i]>> \notin less

\* TrieChListe by compare_plc.
ByAddress(tags) == {e \in (DOMAIN tags) \X (DOMAIN tags) : tags[e[1]].number < tags[e[2]].number}
Sorted(tags) == LET f == InOrder(DOMAIN tags, ByAddress(tags)) IN [i \in DOMAIN tags |-> tags[f[i]]]

\* The functions of the two are not compared: both are taken from btag.
Near(btag, tag) == btag.number + MaxEltByPacket >= tag.number

\* The walk over the sorted tags: where btag is when the n-th is done.
Btag(tags) == LET at[n \in DOMAIN tags] ==
                      IF n > 1 /\ Near(tags[at[n - 1]], tags[n]) THEN at[n - 1] ELSE n
              IN  at

\* What stays alone or is made a packet with a btag.
Group(tags, b) == SubSeq(tags, b, Max({n \in DOMAIN tags : Btag(tags)[n] = b}))

Sample(tags) == CHOOSE s \in {tags[i].sample : i \in DOMAIN tags} :
                    \A i \in DOMAIN tags : s <= tags[i].sample

\* Mutant: the size of the last element is left out.
NumElt_Short(tags) == Last(tags).number - tags[1].number

\* Counted in addresses, plus the bytes of one element.
NumElt(tags) == Last(tags).number - tags[1].number + DataSize(FTable[C_F_Index(tags[1])].type)

Item(tags) ==
    [tags |-> tags, packet |-> Len(tags) > 1, sample |-> Sample(tags),
     req |-> IF Len(tags) > 1 THEN Raw(tags[1], NumElt(tags)) ELSE Ext(tags[1], 1)]

Btags(tags) == {b \in DOMAIN tags : Btag(tags)[b] = b}
IsPacket(tags, b) == Len(Group(tags, b)) > 1

\* The tags come before the packets, both as the walk finds them.
Before(tags) == {e \in Btags(tags) \X Btags(tags) :
                    IF IsPacket(tags, e[1]) = IsPacket(tags, e[2]) THEN e[1] < e[2]
                                                                   ELSE IsPacket(tags, e[2])}

Optimise(tags) ==
    LET s == Sorted(tags)
        btags == InOrder(Btags(s), Before(s)) IN
    [n \in DOMAIN btags |-> Item(Group(s, btags[n]))]

Optimised == [test \in Plants |-> [p \in DOMAIN test |-> Optimise(test[p])]]

Index(item, tag) == IF item.packet THEN tag.number - item.tags[1].number ELSE 0

-----------------------------------------------------------------------------
(***************************************************************************)
(* Logger.                                                                 *)
(***************************************************************************)

\* mainprog: a PLC whose tags cannot be selected has none.
GetTags == \/ Fine /\ items' = Optimised[plant]
           \/ Fault /\ \E q \in PLCs :
                items' = [Optimised[plant] EXCEPT ![q] = <<>>]

Load ==
    /\ pc = "start"
    /\ GetTags
    /\ IF \A p \in PLCs : items'[p] = <<>>
       THEN pc' = "ended" /\ UNCHANGED socket
       ELSE pc' = "round" /\ socket' = [p \in PLCs |-> TRUE]
    /\ age' = [p \in PLCs |-> [n \in DOMAIN items'[p] |-> Never]]
    /\ UNCHANGED <<plant, elt, elt2, next, now, Comm_err, Read_Something, terminated, line,
                   stored, mistaken>>

KillAll == /\ socket' = [p \in PLCs |-> FALSE]
           /\ requests' = [p \in PLCs |-> <<>>] /\ replies' = [p \in PLCs |-> <<>>]
FreeAll == items' = [p \in PLCs |-> <<>>] /\ age' = [p \in PLCs |-> <<>>]

Round ==
    /\ pc = "round"
    /\ IF terminated THEN pc' = "ended" /\ KillAll /\ FreeAll
                     ELSE pc' = "plc" /\ UNCHANGED <<socket, requests, replies, items, age>>
    /\ elt' = 1
    /\ UNCHANGED <<plant, elt2, next, now, Comm_err, Read_Something, terminated, Transaction_Id,
                   call, stored, mistaken, faults>>

GoOn == IF elt = Len(plant) THEN pc' = "sleep" /\ elt' = 1 ELSE pc' = "plc" /\ elt' = elt + 1

NotYet ==
    /\ pc = "plc" /\ next[elt] > 0
    /\ GoOn
    /\ UNCHANGED <<plant, items, elt2, socket, next, age, now, Comm_err, Read_Something,
                   terminated, line, stored, mistaken, faults>>

BuildSocket(p) == socket' = [socket EXCEPT ![p] = TRUE]

\* now is that of the pass before.
NoSocket ==
    /\ pc = "plc" /\ next[elt] = 0 /\ ~socket[elt] /\ Fault
    /\ next' = [next EXCEPT ![elt] = Wait - now]
    /\ GoOn
    /\ UNCHANGED <<plant, items, elt2, socket, age, now, Comm_err, Read_Something,
                   terminated, line, stored, mistaken>>

Enter ==
    /\ pc = "plc" /\ next[elt] = 0
    /\ BuildSocket(elt)
    /\ now' = 0 /\ Read_Something' = FALSE /\ Comm_err' = TRUE
    /\ next' = [next EXCEPT ![elt] = MAX_SAMPLE]
    /\ elt2' = 1
    /\ pc' = IF items[elt] = <<>> THEN "check" ELSE "item"
    /\ UNCHANGED <<plant, items, elt, age, terminated, line, stored, mistaken, faults>>

item == items[elt][elt2]

\* Mutant: a tag is due when it is older than its sample time.
Due_Never == age[elt][elt2] - now > Long

Due == age[elt][elt2] - now >= item.sample

\* Next_Time is at most Time_Value + Time_Sample of each item.
Sooner == LET left == IF age'[elt][elt2] < item.sample THEN item.sample - age'[elt][elt2] ELSE 0 IN
          next' = [next EXCEPT ![elt] = Smaller(@, left)]

NextItem == /\ Sooner
            /\ elt2' = IF elt2 = Len(items[elt]) THEN 1 ELSE elt2 + 1
            /\ pc' = IF elt2 = Len(items[elt]) THEN "check" ELSE "item"

NotDue ==
    /\ pc = "item" /\ ~Due
    /\ UNCHANGED age /\ NextItem
    /\ UNCHANGED <<plant, items, elt, socket, now, Comm_err, Read_Something, terminated, line,
                   stored, mistaken, faults>>

\* ReadTag and ReadPacket up to the reply.
Ask ==
    /\ pc = "item" /\ Due
    /\ Send(elt, item.req)
    /\ Read_Something' = TRUE
    /\ pc' = "wait"
    /\ UNCHANGED <<plant, items, elt, elt2, socket, next, age, now, Comm_err, terminated,
                   stored, mistaken, faults>>

\* _UpdateTag of the tags of a reply, some of which the database may refuse.
Update(updated) ==
    stored' = [t \in AllTags |->
                  IF t \in updated /\ ValueAt(item.req, Index(item, t)) # None
                  THEN ValueAt(item.req, Index(item, t)) ELSE stored[t]]

ItemTags == {item.tags[i] : i \in DOMAIN item.tags}

\* A packet has a Time_Value of its own; that of a tag read alone is set
\* with its value in the database.
TakeData ==
    /\ \/ Fine /\ Update(ItemTags)
          /\ age' = [age EXCEPT ![elt][elt2] = 0]
       \/ Fault /\ \E t \in ItemTags : Update(ItemTags \ {t})
          /\ age' = [age EXCEPT ![elt][elt2] = IF item.packet THEN 0 ELSE @]
    /\ Comm_err' = FALSE

\* The result of a packet is taken for an error when it is negative; an
\* exception of the device and an errno are positive.
TakeError(sign) ==
    /\ Comm_err' = (Comm_err /\ ~(item.packet /\ sign = "positive"))
    /\ UNCHANGED <<age, stored>>

Take ==
    /\ pc = "wait" /\ Receive(elt)
    /\ LET r == Head(replies[elt]) IN
         /\ mistaken' = (mistaken \/ (Outcome(r) = "data" /\ r.req # item.req))
         /\ IF Outcome(r) = "data" THEN TakeData ELSE TakeError(Outcome(r)) /\ Fine
    /\ NextItem
    /\ UNCHANGED <<plant, items, elt, socket, now, Read_Something, terminated>>

NoReply ==
    /\ pc = "wait" /\ GiveUp /\ Fault
    /\ \E sign \in {"negative", "positive"} : TakeError(sign)
    /\ NextItem
    /\ UNCHANGED <<plant, items, elt, socket, now, Read_Something, terminated, mistaken>>

\* A device that has closed the connection: SIGPIPE, before mb_errno could
\* be EPIPE.
Killed ==
    /\ pc = "item" /\ Due /\ Fault
    /\ pc' = "ended"
    /\ UNCHANGED <<plant, items, elt, elt2, socket, next, age, now, Comm_err, Read_Something,
                   terminated, line, stored, mistaken>>

Suspended == Comm_err /\ Read_Something

\* Next_Time, a date, is greater than 0.8 times a date, and the socket is
\* closed; but not if Next_Time is no date, as long as an item has
\* Time_Value = 0.
StaysOpen == ~Suspended /\ \E n \in DOMAIN items[elt] : age[elt][n] = Never

Check ==
    /\ pc = "check"
    /\ next' = IF Suspended THEN [next EXCEPT ![elt] = Wait - now] ELSE next
    /\ IF StaysOpen THEN UNCHANGED <<socket, requests, replies>>
                    ELSE socket' = [socket EXCEPT ![elt] = FALSE] /\ Close(elt)
    /\ GoOn
    /\ UNCHANGED <<plant, items, elt2, age, now, Comm_err, Read_Something, terminated,
                   Transaction_Id, call, stored, mistaken, faults>>

Older(a) == IF a = Never THEN Never ELSE Smaller(a + 1, Long)

Second ==
    /\ next' = [p \in PLCs |-> IF next[p] = 0 THEN 0 ELSE next[p] - 1]
    /\ age' = [p \in PLCs |-> [n \in DOMAIN age[p] |-> Older(age[p][n])]]
    /\ now' = Smaller(now + 1, Wait)

Sleep ==
    /\ pc = "sleep" /\ pc' = "round" /\ Second
    /\ UNCHANGED <<plant, items, elt, elt2, socket, Comm_err, Read_Something, terminated,
                   line, stored, mistaken, faults>>

Logger == \/ Load \/ Round \/ NotYet \/ NoSocket \/ Enter \/ NotDue \/ Ask \/ Take \/ NoReply
          \/ Killed \/ Check \/ Sleep

-----------------------------------------------------------------------------
Device ==
    /\ \E p \in PLCs : Answer(p)
    /\ UNCHANGED <<plant, items, loop, terminated, stored, mistaken, faults>>

\* SigHand
Signal ==
    /\ ~terminated /\ Fault /\ terminated' = TRUE
    /\ UNCHANGED <<plant, items, loop, line, stored, mistaken>>

\* The loop is slow only while it waits for a device.
Tick ==
    /\ pc = "wait" /\ Second
    /\ UNCHANGED <<plant, items, pc, elt, elt2, socket, Comm_err, Read_Something, terminated,
                   line, stored, mistaken, faults>>

Next == Logger \/ Device \/ Signal \/ Tick

\* A device that has got a request answers it, if the call that waits for it
\* does not give up before.
Spec == Init /\ [][Next]_vars /\ WF_vars(Logger) /\ WF_vars(Device)

-----------------------------------------------------------------------------
Own(t) == ValueAt(Ext(t, 1), 0)

TypeOK ==
    /\ pc \in {"start", "round", "plc", "item", "wait", "check", "sleep", "ended"}
    /\ elt \in PLCs
    /\ pc \in {"item", "wait"} => elt2 \in DOMAIN items[elt] /\ socket[elt]
    /\ socket \in [PLCs -> BOOLEAN] /\ next \in [PLCs -> 0 .. Wait + MAX_SAMPLE]
    /\ \A p \in PLCs : DOMAIN age[p] = DOMAIN items[p] /\ \A n \in DOMAIN age[p] : age[p][n] \in 0 .. Never
    /\ now \in 0 .. Wait /\ Comm_err \in BOOLEAN /\ Read_Something \in BOOLEAN
    /\ terminated \in BOOLEAN /\ mistaken \in BOOLEAN
    /\ (call # None) <=> (pc = "wait")
    /\ Transaction_Id \in 0 .. IdRange - 1
    /\ faults \in 0 .. MaxFaults

\* Optimise_Plc takes tags out of the list while it walks it: afterwards
\* each tag is in one item, once, and the request of its item asks for it.
TagsAreKept ==
    TypeOK /\ \A p \in PLCs : items[p] # <<>> =>
        \A i \in DOMAIN plant[p] :
            LET places == {e \in (DOMAIN items[p]) \X (1 .. Len(plant[p])) :
                              /\ e[2] <= Len(items[p][e[1]].tags)
                              /\ items[p][e[1]].tags[e[2]] = plant[p][i]} IN
            /\ Cardinality(places) = 1
            /\ \E e \in places :
                 ValueAt(items[p][e[1]].req, Index(items[p][e[1]], plant[p][i])) # None

\* Packets that read their tags as the tags are: all coils, all inputs or
\* all floats of the holding registers.
Alike(it) == \/ ~it.packet
             \/ /\ \A i \in DOMAIN it.tags : C_F_Index(it.tags[i]) = C_F_Index(it.tags[1])
                /\ FTable[C_F_Index(it.tags[1])].type \in {"BYTE", "REAL"}

\* What is stored for a tag is the value of the tag: that of its place in
\* the device, read as its type.  A packet reads every register as half of a
\* float, and its tags may be of several tables: this holds for packets
\* whose tags are alike (ReadPacket, _MBGetValueAsReal).
StoredIsOfTag ==
    \A p \in PLCs : \A n \in DOMAIN items[p] : Alike(items[p][n]) =>
        \A i \in DOMAIN items[p][n].tags :
            stored[items[p][n].tags[i]] \in {None, Own(items[p][n].tags[i])}

\* A call takes the reply to its request, however late those to earlier
\* ones come, also those that a socket that stays open brings in a later
\* pass: the buffer is emptied before a request and the transaction id
\* compared, and ids come again only after IdRange requests.
RepliesAreOwn == ~mistaken

\* An item whose request the device can answer is read time and again.  One
\* whose request goes too far, like a packet of floats at the end of the
\* registers (NumElt), never is.
ItemsAreRead ==
    \A p \in 1 .. 2, n \in 1 .. 3 :
        []<>(\/ pc = "ended" \/ p \notin PLCs
             \/ n \in DOMAIN items[p] => age[p][n] = 0 \/ ~Fits(items[p][n].req)
             \/ pc = "start")
=============================================================================
