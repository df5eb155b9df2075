------------------------------- MODULE TuxAB --------------------------------
(***************************************************************************)
(* TuxAB, the logger of Allen-Bradley PLCs: the sessions and connections   *)
(* that PLCs share, and when Logger reads, suspends, checks and reconnects *)
(* a PLC.                                                                  *)
(*                                                                         *)
(* The calls of tuxeip are atomic here (EipLink has their messages), and   *)
(* only a read that is not answered takes time, one second.  The reply to  *)
(* a request that was given up may come late, and the next call over the   *)
(* session take it for its own: of a reply to a read only the number of    *)
(* the packet is looked at, of another nothing.  What a call does to the   *)
(* links is an operator from a value of link to the set of values and      *)
(* results it may have, for calls made one after the other.                *)
(***************************************************************************)
EXTENDS Integers, Sequences, SequencesExt, FiniteSets

CONSTANTS Plants,        \* the PLCs there may be, a sequence of [type, ip, route, tags], how often
                         \* something may go wrong, and how many replies may come late
          Sessions,      \* addresses malloc may return for an Eip_Session
          SerialRange,   \* a ConnectionSerialNumber is a word: 2^16
          MaxEltByPacket,\* 50
          Base,          \* an element number from there on takes three bytes: 255
          NextSample,    \* 0.95 * MAX_SAMPLE, 19 s
          Wait,          \* WAIT_FOR_RECONNECT, 60 s
          Long,          \* as old as Time_Value = 0: every item is due
          MAX_ERR_BEFORE_CHECK,
          BadValue,      \* what a conversion that failed leaves
          CrossedValue,  \* the value of a reply to a read of another item
          None

Tag == [file : Nat, element : Nat, bit : Nat, sub : Nat, sample : Nat]
Plc == [type : {"PLC5", "SLC500", "LGX"}, ip : Seq(Nat), route : Seq(Nat), tags : Seq(Tag)]
Session == [ip : Seq(Nat), tcp : {"up", "cut", "reset", "broken", "freed"}]

\* What _GetPlc and _GetTag select, with memory for a session for each PLC.
\* Without a PLC the program ends at once.
ASSUME ABAssumption ==
    /\ {SerialRange, MaxEltByPacket, Base, NextSample, Wait, Long, MAX_ERR_BEFORE_CHECK} \subseteq Nat
    /\ SerialRange > 0 /\ Sessions \subseteq Nat /\ IsFiniteSet(Sessions)
    /\ Plants \subseteq [plcs : Seq(Plc) \ {<<>>}, faults : Nat, slow : Nat]
    /\ \A test \in Plants : Len(test.plcs) <= Cardinality(Sessions)
    /\ None \notin Nat /\ None \notin Session

VARIABLES plant, mute,  \* mute: the gateways that leave a message on an unknown connection unanswered
          items, pc,    \* start, build, round, plc, item, check, sleep, ended
          elt, elt2,
          link,         \* sess, session, connection, held, late, serial, faults, slow, mixed, killed
          next, age,    \* seconds until Next_Time, since Time_Value
          now, due,     \* seconds since now was set, and the items that were due then
          Errors, Comm_err, Read_Something, terminated,
          down, stopped,\* the gateways and the devices that are out of order
          stored,       \* per tag: what its SNAPSHOT_VALUE is the value of
          good          \* the PLC whose item was read last, if it was read

config == <<plant, mute>>
loop == <<pc, elt, elt2, next, age, now, due, Errors, Comm_err, Read_Something>>
world == <<down, stopped, stored, good>>
vars == <<config, items, loop, link, terminated, world>>

PLCs == DOMAIN plant
Device(ip, route) == <<ip, route>>
Of(p) == Device(plant[p].ip, plant[p].route)
Gateways == {plant[p].ip : p \in PLCs}
Devices == Gateways \X {plant[p].route : p \in PLCs}
Tags(p) == ToSet(plant[p].tags)
AllTags == UNION {{p} \X Tags(p) : p \in PLCs}
Smaller(m, n) == IF m < n THEN m ELSE n

Linked(test) ==
    link = [sess |-> [s \in Sessions |-> None], session |-> [p \in PLCs |-> None],
            connection |-> [p \in PLCs |-> None], held |-> [d \in Devices |-> {}],
            late |-> {}, serial |-> 0, faults |-> test.faults, slow |-> test.slow,
            mixed |-> {}, killed |-> FALSE]

\* A session is a TCP connection: up, cut, reset by the gateway, broken when
\* the reset is known, or freed, when its block has been given back.  Late
\* are the replies that have not come in time, mixed the gateways of those
\* that were taken for others.
Init ==
    /\ \E test \in Plants : plant = test.plcs /\ mute \in SUBSET Gateways /\ Linked(test)
    /\ items = [p \in PLCs |-> <<>>] /\ pc = "start" /\ elt = 1 /\ elt2 = 1
    /\ next = [p \in PLCs |-> 0] /\ age = [p \in PLCs |-> <<>>] /\ now = 0 /\ due = {}
    /\ Errors = [p \in PLCs |-> 0] /\ Comm_err = FALSE /\ Read_Something = FALSE
    /\ terminated = FALSE /\ down = {} /\ stopped = {} /\ stored = [t \in AllTags |-> None] /\ good = 0

-----------------------------------------------------------------------------
(***************************************************************************)
(* Optimise_Plc.                                                           *)
(***************************************************************************)

\* The third byte of the address: of a long element number, its mark.
Byte2(tag) == Smaller(tag.element, Base)

\* compare_plc: by file, element (a long number with its low byte first),
\* sub-element and bit.  Whether a tag with a sub-element or one without
\* comes first depends on which of them is asked.
Bytes(tag) == <<tag.file, Byte2(tag), tag.element % 256, tag.element \div 256, tag.sub, tag.bit>>
Before(s, t) ==
    \E i \in 1 .. 6 : /\ Bytes(s)[i] < Bytes(t)[i]
                      /\ \A j \in 1 .. i - 1 : Bytes(s)[j] = Bytes(t)[j]
                      /\ i > 4 => (s.sub = 0 <=> t.sub = 0)

Near(btag, tag) == /\ btag.sub = 0 /\ tag.sub = 0   \* two levels: address[0] = 6
                   /\ btag.file = tag.file
                   /\ Byte2(btag) + MaxEltByPacket >= Byte2(tag)

\* The orders of S in which none comes behind one it is less than.
Orders(S, less) == {f \in Bijection(1 .. Cardinality(S), S) :
                       \A i, j \in 1 .. Cardinality(S) : i < j => <<f[j], f[i]>> \notin less}

\* TrieChListe: of two tags that are not ordered either may come first.
ByAddress(tags) == {e \in (DOMAIN tags) \X (DOMAIN tags) : Before(tags[e[1]], tags[e[2]])}
Sortings(tags) == {[i \in DOMAIN tags |-> tags[f[i]]] : f \in Orders(DOMAIN tags, ByAddress(tags))}

\* The walk over the sorted tags: where btag is when the n-th is done.
Btag(tags) == LET at[n \in DOMAIN tags] ==
                      IF n > 1 /\ Near(tags[at[n - 1]], tags[n]) THEN at[n - 1] ELSE n
              IN  at
Btags(tags) == {b \in DOMAIN tags : Btag(tags)[b] = b}

\* What stays alone or is made a packet with a btag.
Group(tags, b) == SubSeq(tags, b, Max({n \in DOMAIN tags : Btag(tags)[n] = b}))

\* AddPacket
Sample(tags) == CHOOSE s \in {tags[i].sample : i \in DOMAIN tags} :
                    \A i \in DOMAIN tags : s <= tags[i].sample

Item(tags) == [tags |-> tags, packet |-> Len(tags) > 1, sample |-> Sample(tags)]
\* The tags come before the packets, both as the walk finds them.
IsPacket(tags, b) == Len(Group(tags, b)) > 1
Sooner(tags) == {e \in Btags(tags) \X Btags(tags) :
                    IF IsPacket(tags, e[1]) = IsPacket(tags, e[2]) THEN e[1] < e[2]
                                                                   ELSE IsPacket(tags, e[2])}
Packed(tags) == UNION {{[n \in DOMAIN f |-> Item(Group(s, f[n]))] : f \in Orders(Btags(s), Sooner(s))} :
                          s \in Sortings(tags)}

Optimise(p) ==
    LET tags == plant[p].tags IN
    IF plant[p].type = "LGX" THEN {[n \in DOMAIN tags |-> Item(<<tags[n]>>)]} ELSE Packed(tags)

\* The element whose value is stored for the i-th tag of an item.
Element(it, i) == it.tags[1].element + Byte2(it.tags[i]) - Byte2(it.tags[1])

-----------------------------------------------------------------------------
(***************************************************************************)
(* Sessions and connections.                                               *)
(***************************************************************************)

R(l, res) == [l |-> l, res |-> res]
Spent(l) == IF l.faults > 0 THEN {[l EXCEPT !.faults = @ - 1]} ELSE {}
Died(l) == R([l EXCEPT !.killed = TRUE], "garbage")

\* The reply to a read over a connection, or to a Forward_Open that made
\* the connection to of a device, or refused if that is None.
ToRead(s, c)  == [over |-> s, kind |-> "read", conn |-> c, to |-> None]
ToOpen(s, to) == [over |-> s, kind |-> "open", conn |-> None, to |-> to]

\* A request is given up; its reply, if there is one, may still come.
GivenUp(l, mine) ==
    {l} \union (IF mine # None /\ l.slow > 0
                THEN {[l EXCEPT !.late = @ \union {mine}, !.slow = @ - 1]} ELSE {})

\* A late reply comes after the buffer was emptied for a request; it is that
\* of the request that is late now.
Taken(l, s, mine) ==
    UNION {{[l |-> m, res |-> "late", of |-> r] : m \in GivenUp([l EXCEPT !.late = @ \ {r}], mine)} :
              r \in {x \in l.late : x.over = s}}

\* What comes of a request that has the reply mine.  Writing to a broken
\* socket is SIGPIPE; a header that recv has not filled is read as it is; a
\* freed block is as it may be.
Request(l, s, mine) ==
    LET tcp == l.sess[s].tcp IN
    CASE tcp = "up" /\ l.sess[s].ip \notin down ->
            {R(l, "reply")} \union Taken(l, s, mine)
            \union UNION {{R(m, "silence") : m \in GivenUp(f, mine)} : f \in Spent(l)}
      [] tcp = "up" /\ l.sess[s].ip \in down -> {R(m, "silence") : m \in GivenUp(l, mine)}
      [] tcp = "cut" -> {R(l, "silence")}
      [] tcp = "reset" -> {R([l EXCEPT !.sess[s].tcp = "broken"], "garbage"), Died(l)}
      [] tcp = "broken" -> {Died(l)}
      [] tcp = "freed" -> {R(l, "garbage"), Died(l)}

Mixed(l, s) == [l EXCEPT !.mixed = @ \union {l.sess[s].ip}]

Prefix(a, b) == Len(a) <= Len(b) /\ SubSeq(b, 1, Len(a)) = a

First(P) == CHOOSE p \in P : \A q \in P : p <= q

\* The session of the first PLC with this ip, whether it has one or not.
FindSession(l, ip) ==
    LET same == {q \in PLCs : Prefix(ip, plant[q].ip)} IN
    IF same = {} THEN None ELSE l.session[First(same)]

\* Mutant: a connection of the gateway is taken for one of the PLC.
FindConnection_Gateway(l, p) ==
    LET same == {q \in PLCs : l.connection[q] # None /\ plant[q].ip = plant[p].ip} IN
    IF same = {} THEN None ELSE l.connection[First(same)]

FindConnection(l, p) ==
    LET same == {q \in PLCs : l.connection[q] # None
                                 /\ Prefix(plant[p].ip \o plant[p].route, plant[q].ip \o plant[q].route)} IN
    IF same = {} THEN None ELSE l.connection[First(same)]

NewSession(l) == First({s \in Sessions : l.sess[s] = None})
Opened(l, p, tcp) == [l EXCEPT !.sess[NewSession(l)] = [ip |-> plant[p].ip, tcp |-> tcp],
                               !.session[p] = NewSession(l)]

\* A session that cannot be registered is freed and kept all the same.
BuildSession(l, p) ==
    IF l.session[p] # None THEN {R(l, FALSE)}
    ELSE IF FindSession(l, plant[p].ip) # None
    THEN {R([l EXCEPT !.session[p] = FindSession(l, plant[p].ip)], TRUE)}
    ELSE IF plant[p].ip \in down THEN {R(l, FALSE)}
    ELSE {R(Opened(l, p, "up"), TRUE)} \union {R(Opened(f, p, "freed"), TRUE) : f \in Spent(l)}

\* _Forward_Open makes a connection of any reply: of a refusal, of the late
\* reply to another, and of one to a read.  It is ok when cip_errno is 0.
Made(o, d, n, to) ==
    LET C(t) == [device |-> d, serial |-> n, to |-> t] IN
    CASE o.res = "reply" -> {[l |-> o.l, res |-> C(to), ok |-> to # None]}
      [] o.res = "late" ->
            {[l |-> Mixed(o.l, o.of.over), res |-> C(o.of.to), ok |-> ok] :
                ok \in IF o.of.kind = "open" THEN {o.of.to # None} ELSE BOOLEAN}
      [] o.res \in {"silence", "garbage"} -> {[l |-> o.l, res |-> None, ok |-> FALSE]}

\* What the device makes of the request, if it gets it: the links and the
\* connection in it.  A connection that is opened again has the router twice
\* in its path, which the device may accept.
Done(l, s, d, n, twice) ==
    LET free == d \notin stopped /\ \A h \in l.held[d] : h.serial # n IN
    (IF free THEN {[l |-> [l EXCEPT !.held[d] = @ \union {[serial |-> n, over |-> s]}],
                    to |-> [device |-> d, serial |-> n]]} ELSE {})
    \union (IF ~free \/ twice THEN {[l |-> l, to |-> None]} ELSE {})

ForwardOpen(l, s, route, n, twice) ==
    LET d == Device(l.sess[s].ip, route) IN
    (UNION {Made(o, d, n, None) : o \in {r \in Request(l, s, None) : r.res # "reply"}})
    \union (IF l.sess[s].tcp = "up"
            THEN UNION {UNION {Made(o, d, n, x.to) : o \in Request(x.l, s, ToOpen(s, x.to))} :
                           x \in Done(l, s, d, n, twice)}
            ELSE {})

BuildConnection(l, p) ==
    IF l.connection[p] # None THEN {R(l, FALSE)}
    ELSE IF FindConnection(l, p) # None
    THEN {R([l EXCEPT !.connection[p] = FindConnection(l, p)], TRUE)}
    ELSE {R([o.l EXCEPT !.connection[p] = o.res, !.serial = (@ + 1) % SerialRange], o.res # None) :
             o \in ForwardOpen(l, l.session[p], plant[p].route, l.serial, FALSE)}

\* The end of a session ends its connections if the gateway hears of it.
Released(l, S) ==
    LET told == {s \in S : l.sess[s] # None /\ l.sess[s].tcp = "up" /\ l.sess[s].ip \notin down} IN
    [d \in Devices |-> {IF h.over \in S THEN [h EXCEPT !.over = None] ELSE h :
                           h \in {g \in l.held[d] : g.over \notin told}}]

KillSession(l, s) ==
    [l EXCEPT !.sess[s] = None, !.held = Released(l, {s}), !.late = {r \in @ : r.over # s},
              !.killed = @ \/ l.sess[s].tcp = "broken"]

\* Mutant: only the PLC that is checked gives its session up.
Forget_Own(l, p, s) == [l EXCEPT !.session[p] = None]

Forget(l, p, s) == [l EXCEPT !.session = [q \in PLCs |-> IF @[q] = s THEN None ELSE @[q]]]

\* Mutant: a session is opened again whenever it is checked.
Answers_Never(r) == FALSE

Answers(r) == r.res = "reply"

\* The error _ListServices leaves after a timeout is E_TimeOut, never
\* E_RcvTimeOut: a session that does not answer is always given up, and so
\* is one whose first answer is a late reply.
CheckSession(l, p) ==
    IF l.session[p] = None THEN BuildSession(l, p)
    ELSE UNION {IF Answers(r) THEN {R(r.l, TRUE)}
                ELSE BuildSession(Forget(KillSession(r.l, l.session[p]), p, l.session[p]), p) :
                   r \in Request(l, l.session[p], None)}

\* Mutant: a connection that could not be opened again is kept.
Renewed_Kept(c, o) == IF o.ok THEN o.res ELSE c

\* A refusal, that of a duplicate included, comes with a connection, which
\* is freed.
Renewed(c, o) == IF o.ok THEN o.res ELSE None

\* The new connection counts its packets from 0.
CheckConnection(l, p) ==
    LET c == l.connection[p] IN
    IF l.session[p] = None THEN {R(l, FALSE)}
    ELSE IF c = None THEN BuildConnection(l, p)
    ELSE {R([o.l EXCEPT !.connection = [q \in PLCs |-> IF @[q] = c THEN Renewed(c, o) ELSE @[q]],
                        !.late = {IF r.conn = c THEN [r EXCEPT !.conn = None] ELSE r : r \in @}],
            o.res # None /\ o.ok) : o \in ForwardOpen(l, l.session[p], c.device[2], c.serial, TRUE)}

\* Unregistering and closing; a refused session is freed twice.
KillAll(l) == [l EXCEPT !.held = Released(l, Sessions), !.late = {}, !.sess = [s \in Sessions |-> None],
                        !.session = [p \in PLCs |-> None], !.connection = [p \in PLCs |-> None]]

-----------------------------------------------------------------------------
(***************************************************************************)
(* Logger.                                                                 *)
(***************************************************************************)

\* mainprog.  A PLC whose tags cannot be selected has none.
Load ==
    /\ pc = "start"
    /\ \E lists \in [PLCs -> UNION {Optimise(p) : p \in PLCs}] :
         /\ \A p \in PLCs : lists[p] \in Optimise(p)
         /\ \/ items' = lists /\ UNCHANGED link
            \/ \E q \in PLCs, f \in Spent(link) :
                  items' = [lists EXCEPT ![q] = <<>>] /\ link' = f
    /\ pc' = IF \A p \in PLCs : items'[p] = <<>> THEN "ended" ELSE "build"
    /\ age' = [p \in PLCs |-> [n \in DOMAIN items'[p] |-> Long]]
    /\ UNCHANGED <<config, elt, elt2, next, now, due, Errors, Comm_err, Read_Something, terminated,
                   world>>

\* What a step of the loop does to the links, and where it goes on unless
\* it has died.
Links(l, place) == link' = l /\ pc' = IF l.killed THEN "ended" ELSE place

LastPlc == elt = Len(plant)
NextPlc == elt' = IF LastPlc THEN 1 ELSE elt + 1

\* BuildConnections
Build ==
    /\ pc = "build"
    /\ \E b \in BuildSession(link, elt) :
         \E c \in IF b.res THEN BuildConnection(b.l, elt) ELSE {b} :
             Links(c.l, IF LastPlc THEN "round" ELSE "build")
    /\ NextPlc
    /\ UNCHANGED <<config, items, elt2, next, age, now, due, Errors, Comm_err, Read_Something, terminated,
                   world>>

Round ==
    /\ pc = "round"
    /\ IF terminated THEN pc' = "ended" /\ link' = KillAll(link)
                     ELSE pc' = "plc" /\ UNCHANGED link
    /\ UNCHANGED <<config, items, elt, elt2, next, age, now, due, Errors, Comm_err, Read_Something,
                   terminated, world>>

Onward == IF LastPlc THEN "sleep" ELSE "plc"

NotYet ==
    /\ pc = "plc" /\ next[elt] > 0
    /\ pc' = Onward /\ NextPlc
    /\ UNCHANGED <<config, items, elt2, link, next, age, now, due, Errors, Comm_err, Read_Something,
                   terminated, world>>

\* A session and a connection for a PLC that has none.
Restored(p) ==
    UNION {IF s.res /\ s.l.connection[p] = None THEN CheckConnection(s.l, p) ELSE {s} :
              s \in IF link.session[p] = None THEN CheckSession(link, p) ELSE {R(link, TRUE)}}

NoLink ==
    /\ pc = "plc" /\ next[elt] = 0
    /\ \E r \in Restored(elt) : ~r.res /\ Links(r.l, Onward)
    /\ next' = [next EXCEPT ![elt] = Wait]
    /\ NextPlc
    /\ UNCHANGED <<config, items, elt2, age, now, due, Errors, Comm_err, Read_Something, terminated,
                   world>>

Enter ==
    /\ pc = "plc" /\ next[elt] = 0
    /\ \E r \in Restored(elt) : r.res /\ Links(r.l, IF items[elt] = <<>> THEN "check" ELSE "item")
    /\ Read_Something' = FALSE /\ Comm_err' = TRUE
    /\ next' = [next EXCEPT ![elt] = NextSample]
    /\ now' = 0 /\ due' = {n \in DOMAIN items[elt] : age[elt][n] >= items[elt][n].sample}
    /\ elt2' = 1
    /\ UNCHANGED <<config, items, elt, age, Errors, terminated, world>>

item == items[elt][elt2]

\* What is due is compared with the now of the PLC, however long it takes.
Due == elt2 \in due

\* Next_Time is at most Time_Value + Time_Sample of each item.
Earliest(n, a) == [n EXCEPT ![elt] = Smaller(@, IF a[elt][elt2] < item.sample
                                              THEN item.sample - a[elt][elt2] ELSE 0)]

LastItem == elt2 = Len(items[elt])
NextItem == elt2' = IF LastItem THEN 1 ELSE elt2 + 1
AfterItem == IF LastItem THEN "check" ELSE "item"

NotDue ==
    /\ pc = "item" /\ ~Due
    /\ next' = Earliest(next, age) /\ NextItem /\ pc' = AfterItem
    /\ UNCHANGED <<config, items, elt, link, age, now, due, Errors, Comm_err, Read_Something, terminated,
                   world>>

Later(n) == [p \in PLCs |-> IF n[p] = 0 THEN 0 ELSE n[p] - 1]
Older(a) == [p \in PLCs |-> [n \in DOMAIN a[p] |-> Smaller(a[p][n] + 1, Long)]]

\* What a read over the session and the connection of a PLC comes to.  The
\* gateway does not know a connection that its device has not got over this
\* session, and a device may have a status instead of data.  A late reply to
\* a read is taken if it has the number of the packet: every connection
\* counts its own, and on this one it comes again after 2^16 requests only.
Answer(l, p) ==
    LET s == l.session[p]
        c == l.connection[p]
        known == c.to # None /\ [serial |-> c.to.serial, over |-> s] \in l.held[c.to.device] IN
    UNION {CASE r.res = "reply" /\ known -> {R(r.l, "data")} \union {R(f, "status") : f \in Spent(r.l)}
             [] r.res = "reply" /\ ~known ->
                   {R(r.l, IF r.l.sess[s].ip \in mute THEN "silence" ELSE "status")}
             [] r.res = "late" ->
                   {R(r.l, "unsolicited")} \union (IF r.of.kind = "read" /\ r.of.conn # c
                                                  THEN {R(Mixed(r.l, s), "crossed")} ELSE {})
             [] r.res = "silence" -> {r}
             [] r.res = "garbage" -> {R(r.l, "status"), R(r.l, "unsolicited")} :
                r \in Request(l, s, IF known THEN ToRead(s, c) ELSE None)}

ItemTags == ToSet(item.tags)

\* What a reply has for a tag of the item.
ValueOf(c, res, tag) ==
    IF res = "crossed" THEN CrossedValue
    ELSE LET i == CHOOSE i \in DOMAIN item.tags : item.tags[i] = tag IN
         [device |-> c.to.device, file |-> item.tags[1].file, element |-> Element(item, i)]

\* _UpdateTag of the tags of the item, but for those the database refuses.
\* The value of a conversion that has failed is stored like the others.
Update(c, res, bad, refused) ==
    stored' = [t \in AllTags |->
                  IF t[1] # elt \/ t[2] \notin ItemTags \ refused THEN stored[t]
                  ELSE IF t[2] \in bad THEN BadValue ELSE ValueOf(c, res, t[2])]

\* ReadTag and ReadPacket with a reply, whose conversion or whose update may
\* fail for some tags.  The error of the last conversion is the result.
TakeData(r) ==
    \E bad, refused \in SUBSET ItemTags :
        /\ \E f \in (IF refused = {} /\ (bad = {} \/ r.res = "crossed") THEN {r.l} ELSE Spent(r.l)) :
              Links(f, AfterItem)
        /\ Update(link.connection[elt], r.res, bad, refused)
        /\ good' = IF r.res = "data" THEN elt ELSE 0
        /\ Comm_err' = (Comm_err /\ Last(item.tags) \in bad)
        /\ age' = [age EXCEPT ![elt][elt2] = IF item.packet \/ refused = {} THEN 0 ELSE @]
        /\ next' = Earliest(next, age')
        /\ UNCHANGED now

\* And without one.  A packet has a new Time_Value all the same.  Errors of
\* the library are negative; a status of the gateway or of the device and an
\* errno are positive, and count as read.
TakeError(r) ==
    LET slow == r.res = "silence"
        old == IF slow THEN Older(age) ELSE age IN
    /\ Links(r.l, AfterItem)
    /\ Comm_err' = (Comm_err /\ r.res \in {"silence", "unsolicited"})
    /\ age' = [old EXCEPT ![elt][elt2] = IF item.packet THEN 0 ELSE @]
    /\ next' = Earliest(IF slow THEN Later(next) ELSE next, age')
    /\ now' = IF slow THEN now + 1 ELSE now
    /\ good' = 0 /\ UNCHANGED stored

Read ==
    /\ pc = "item" /\ Due
    /\ \E r \in Answer(link, elt) : IF r.res \in {"data", "crossed"} THEN TakeData(r) ELSE TakeError(r)
    /\ Read_Something' = TRUE
    /\ NextItem
    /\ UNCHANGED <<config, items, elt, due, Errors, terminated, down, stopped>>

\* All is well, or there was nothing to read.
Passed ==
    /\ pc = "check" /\ ~(Comm_err /\ Read_Something)
    /\ Errors' = [Errors EXCEPT ![elt] = 0]
    /\ pc' = Onward /\ NextPlc
    /\ now' = 0 /\ due' = {}
    /\ UNCHANGED <<config, items, elt2, link, next, age, Comm_err, Read_Something, terminated,
                   world>>

\* Seconds from now on: Next_Time counts from when now was set.
FromNow(seconds) == IF seconds > now THEN seconds - now ELSE 0

\* CheckSession(plc)&&CheckConnection(plc)
Checked(p) == UNION {IF s.res THEN CheckConnection(s.l, p) ELSE {s} : s \in CheckSession(link, p)}

Failed ==
    /\ pc = "check" /\ Comm_err /\ Read_Something
    /\ IF Errors[elt] + 1 < MAX_ERR_BEFORE_CHECK
       THEN /\ Errors' = [Errors EXCEPT ![elt] = @ + 1]
            /\ next' = [next EXCEPT ![elt] = FromNow(Wait)]
            /\ pc' = Onward /\ UNCHANGED link
       ELSE \E r \in Checked(elt) :
            /\ Errors' = [Errors EXCEPT ![elt] = IF r.res THEN 0 ELSE MAX_ERR_BEFORE_CHECK]
            /\ next' = [next EXCEPT ![elt] = IF r.res THEN 0 ELSE FromNow(3 * Wait)]
            /\ Links(r.l, Onward)
    /\ NextPlc
    /\ now' = 0 /\ due' = {}
    /\ UNCHANGED <<config, items, elt2, age, Comm_err, Read_Something, terminated, world>>

Sleep ==
    /\ pc = "sleep" /\ pc' = "round"
    /\ next' = Later(next) /\ age' = Older(age)
    /\ UNCHANGED <<config, items, elt, elt2, link, now, due, Errors, Comm_err, Read_Something, terminated,
                   world>>

Logger == \/ Load \/ Build \/ Round \/ NotYet \/ NoLink \/ Enter \/ NotDue \/ Read
          \/ Passed \/ Failed \/ Sleep

-----------------------------------------------------------------------------
(***************************************************************************)
(* Gateways and devices.                                                   *)
(***************************************************************************)

World(l) == link' = l /\ UNCHANGED <<config, items, loop, terminated, stored, good>>

Losing(l, ip, tcp) ==
    [l EXCEPT !.sess = [s \in Sessions |-> IF l.sess[s] # None /\ l.sess[s].ip = ip /\ l.sess[s].tcp = "up"
                                           THEN [l.sess[s] EXCEPT !.tcp = tcp] ELSE l.sess[s]]]

\* A gateway that cannot be reached; later it can, with its TCP connections
\* or without.
Cut(ip) ==
    /\ ip \notin down /\ down' = down \union {ip}
    /\ \E f \in Spent(link) : World(f)
    /\ UNCHANGED stopped

Repair(ip) ==
    /\ ip \in down /\ down' = down \ {ip}
    /\ World(link) \/ World(Losing(link, ip, "cut"))
    /\ UNCHANGED stopped

\* A gateway that starts again.
Restart(ip) ==
    /\ ip \notin down
    /\ \E f \in Spent(link), tcp \in {"cut", "reset"} :
          World([Losing(f, ip, tcp) EXCEPT !.held = [d \in Devices |-> IF d[1] = ip THEN {} ELSE @[d]]])
    /\ UNCHANGED <<down, stopped>>

DeviceStops(d) ==
    /\ d \notin stopped /\ stopped' = stopped \union {d}
    /\ \E f \in Spent(link) : World([f EXCEPT !.held[d] = {}])
    /\ UNCHANGED down

DeviceRuns(d) == d \in stopped /\ stopped' = stopped \ {d} /\ World(link) /\ UNCHANGED down

\* A connection times out in the device when its session is gone or no PLC
\* has it any longer.
Expires(d) ==
    /\ \E h \in link.held[d] :
        /\ ~(/\ h.over # None /\ link.sess[h.over].tcp = "up"
             /\ \E p \in PLCs : /\ link.connection[p] # None
                               /\ link.connection[p].to = [device |-> d, serial |-> h.serial])
        /\ World([link EXCEPT !.held[d] = @ \ {h}])
    /\ UNCHANGED <<down, stopped>>

\* SigHand
Signal ==
    /\ ~terminated /\ pc # "ended" /\ terminated' = TRUE
    /\ \E f \in Spent(link) : link' = f
    /\ UNCHANGED <<config, items, loop, world>>

Next == \/ Logger \/ Signal
        \/ \E ip \in Gateways : Cut(ip) \/ Repair(ip) \/ Restart(ip)
        \/ \E d \in Devices : DeviceStops(d) \/ DeviceRuns(d) \/ Expires(d)

\* What is out of order is repaired, and a device forgets a connection that
\* nobody uses (TimeOutMultiplier).
Spec ==
    /\ Init /\ [][Next]_vars /\ WF_vars(Logger)
    /\ WF_vars(\E ip \in Gateways : Repair(ip)) /\ WF_vars(\E d \in Devices : DeviceRuns(d))
    /\ WF_vars(\E d \in Devices : Expires(d))

-----------------------------------------------------------------------------
TypeOK ==
    /\ pc \in {"start", "build", "round", "plc", "item", "check", "sleep", "ended"}
    /\ elt \in PLCs
    /\ pc = "item" => elt2 \in DOMAIN items[elt] /\ None \notin {link.session[elt], link.connection[elt]}
    /\ \A s \in Sessions : link.sess[s] # None =>
          link.sess[s] \in Session /\ link.sess[s].ip \in Gateways
    /\ link.session \in [PLCs -> Sessions \union {None}]
    /\ link.serial \in 0 .. SerialRange - 1
    /\ next \in [PLCs -> 0 .. 3 * Wait + NextSample]
    /\ \A p \in PLCs : DOMAIN age[p] = DOMAIN items[p] /\ \A n \in DOMAIN age[p] : age[p][n] \in 0 .. Long
    /\ now \in Nat /\ Errors \in [PLCs -> 0 .. MAX_ERR_BEFORE_CHECK]
    /\ down \subseteq Gateways /\ stopped \subseteq Devices

\* A session that is open is that of a PLC, and that of a PLC is in use:
\* none is lost, and none is left to a PLC after it has been given up, when
\* PLCs with the same gateway find, check and give up sessions in turn
\* (FindSession, CheckSession).  A block that was freed because it could not
\* be registered counts as in use: the daemon does use it.
SessionsAreUsed ==
    TypeOK /\ {s \in Sessions : link.sess[s] # None} = {link.session[p] : p \in PLCs} \ {None}

\* Gateways whose texts do not begin with one another, and elements whose
\* number takes one byte.
Distinct == \A p, q \in PLCs : p # q =>
               /\ plant[p].ip # plant[q].ip => ~Prefix(plant[p].ip, plant[q].ip)
               /\ Of(p) # Of(q) => ~Prefix(plant[p].ip \o plant[p].route, plant[q].ip \o plant[q].route)
Plain(p) == \A t \in Tags(p) : t.element < Base

\* What is stored for a tag is the value of its element in its own device,
\* or what a conversion of it left that failed, whatever sessions and
\* connections the PLCs share (FindConnection, ReadPacket), as long as no
\* call has taken a late reply to another call over a session of the gateway.
\* Elements from 255 on are all taken for one.
StoredIsOfTag ==
    Distinct => \A t \in AllTags : Plain(t[1]) =>
        \/ stored[t] \in {None, BadValue}
        \/ stored[t] = [device |-> Of(t[1]), file |-> t[2].file, element |-> t[2].element]
        \/ plant[t[1]].ip \in link.mixed

\* A session over which the gateway answers is not given up because a
\* device behind it fails: only a request that is lost can do that, or the
\* reply to an earlier one that comes late.
UpSessionsStay ==
    [][\A s \in Sessions : link.sess[s] # None /\ link'.sess[s] = None
          => \/ link.sess[s].tcp # "up" \/ link.sess[s].ip \in down
             \/ \E r \in link.late : r.over = s
             \/ link'.faults # link.faults \/ pc' = "ended"]_vars

\* A PLC with a tag that is due again when a suspension is over: a pass in
\* which nothing is due sets Errors to 0, and a PLC of slow packets is never
\* checked.
Quick(p) == \E t \in Tags(p) : t.sample < Wait

\* A PLC with a session that is dead and without a connection: only the
\* connection is asked for, and its session is never checked.
\* What becomes of a freed session nobody can say.
Stranded(p) ==
    /\ link.session[p] # None
    /\ \/ link.connection[p] = None /\ link.sess[link.session[p]].tcp # "up"
       \/ link.sess[link.session[p]].tcp = "freed"

\* Two rows of one PLC that have a connection in common and a session each,
\* because the first had none when the second was connected: each finds the
\* connection of the other dead and closes it.
Crossed(p) == \E q \in PLCs : Of(q) = Of(p) /\ link.session[q] # link.session[p]

\* Whatever has been cut, restarted or lost, a PLC is read again once all is
\* in order, unless it is stranded, crossed or shares what is not its own, and if its
\* gateway says nothing of connections it does not know: a status would
\* count as read, and the connection stay as it is.
PlcsComeBack ==
    \A p \in 1 .. 2 :
        []<>(good = p \/ pc = "ended" \/ p \notin PLCs
             \/ (p \in PLCs => \/ Stranded(p) \/ plant[p].ip \notin mute
                               \/ Crossed(p) \/ ~Distinct \/ ~Quick(p) \/ items[p] = <<>>))
=============================================================================
