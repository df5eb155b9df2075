--------------------------- MODULE TuxReaderProofs ---------------------------
(***************************************************************************)
(* tuxreader, for every alias file, tag set and client set: it uses its    *)
(* links as PlcLinks says, holds them for its tags, and tells its clients  *)
(* what it read, as long as names, addresses and registrations are         *)
(* unambiguous.                                                            *)
(***************************************************************************)
EXTENDS TuxReader, PlcLinksProofs

LEMMA NoTagIsNone == NoTag \notin Tag
<1> SUFFICES ASSUME NoTag \in Tag PROVE FALSE
  OBVIOUS
<1>1. NoTag.plc \in Plc /\ NoTag.plc = 0
  BY DEF Tag, NoTag
<1> QED
  BY <1>1, ConfigAssumption DEF Plc

(* The place in the loop, and the request and the tag it works on. *)
Loop == /\ pc \in {"wait", "serve", "ReadTag", "scan", "ended"}
        /\ IF pc = "ReadTag" THEN req \in Tag /\ cur \in Tag ELSE req = NoTag /\ cur = NoTag
        /\ CLIENTs \subseteq Client /\ ready \subseteq CLIENTs
        /\ cursor \in Nat
        /\ TAGs \in Seq(Tag)
        /\ terminated \in BOOLEAN

(* The tag a request is served from is one of the list, or a new one for a *)
(* PLC of the alias file.                                                  *)
TagFor(p, t) == IF FoundAt(p, t) # {} THEN FindTag(p, t)
                ELSE [plc |-> FindPLC(p), name |-> t]

LEMMA FoundIn ==
    ASSUME TAGs \in Seq(Tag), NEW p \in Plc, NEW t \in TagName, FoundAt(p, t) # {}
    PROVE  \E i \in DOMAIN TAGs : /\ FindTag(p, t) = TAGs[i] /\ TAGs[i] \in Tag
                                  /\ <<t, TAGs[i].name>> \in TagStarts
                                  /\ <<p, TAGs[i].plc>> \in NameStarts
<1>1. DOMAIN TAGs = 1 .. Len(TAGs) /\ Len(TAGs) \in Nat /\ \A i \in 1 .. Len(TAGs) : TAGs[i] \in Tag
  BY Positions
<1>2. FoundAt(p, t) \in SUBSET Nat
  BY <1>1 DEF FoundAt
<1>3. First(FoundAt(p, t)) \in FoundAt(p, t)
  BY <1>2, FirstOfNat
<1> QED
  BY <1>1, <1>3 DEF FoundAt, FindTag

LEMMA NameIn ==
    ASSUME NEW p \in Plc
    PROVE  FindPLC(p) \in Plc /\ <<p, FindPLC(p)>> \in NameStarts
<1>1. p \in {q \in Plc : <<p, q>> \in NameStarts}
  BY ReaderAssumption
<1>2. FindPLC(p) \in {q \in Plc : <<p, q>> \in NameStarts}
  BY <1>1, FirstIn DEF FindPLC
<1> QED
  BY <1>2

LEMMA RequestTag ==
    ASSUME TAGs \in Seq(Tag), NEW p \in Plc, NEW t \in TagName
    PROVE  /\ TagFor(p, t) \in Tag
           /\ FoundAt(p, t) # {} => Among(TAGs, TagFor(p, t))
           /\ FoundAt(p, t) = {} => ~Among(TAGs, TagFor(p, t))
<1>1. CASE FoundAt(p, t) # {}
  <2>1. PICK i \in DOMAIN TAGs : FindTag(p, t) = TAGs[i] /\ TAGs[i] \in Tag
    BY <1>1, FoundIn
  <2>2. TagFor(p, t) \in Tag /\ Among(TAGs, TagFor(p, t))
    BY <1>1, <2>1 DEF Among, TagFor
  <2> QED
    BY <1>1, <2>2
<1>2. CASE FoundAt(p, t) = {}
  <2>1. TagFor(p, t) = [plc |-> FindPLC(p), name |-> t]
    BY <1>2 DEF TagFor
  <2>2. /\ TagFor(p, t) \in Tag /\ TagFor(p, t).name = t
        /\ <<p, TagFor(p, t).plc>> \in NameStarts
    BY <2>1, NameIn DEF Tag
  <2> QED
    BY <1>2, <2>2, ReaderAssumption DEF FoundAt, Among
<1> QED
  BY <1>1, <1>2

(* What Traite does with a request. *)
LEMMA Requested ==
    ASSUME NEW c \in Client, NEW p \in Plc, NEW t \in TagName, Traite(c, p, t)
    PROVE  /\ pc = "serve" /\ c \in ready /\ ready' = ready \ {c}
           /\ UNCHANGED <<linkVars, CLIENTs, cursor, age, value, terminated>>
           /\ IF FoundAt(p, t) # {} THEN TAGs' = TAGs /\ References' = References
              ELSE /\ TAGs' = Append(TAGs, TagFor(p, t))
                   /\ References' = [References EXCEPT ![TagFor(p, t).plc] = @ + 1]
           /\ \/ /\ age[TagFor(p, t)] < UPDATE_RATE
                 /\ reply' = ValueReply(p, t, value[TagFor(p, t)])
                 /\ UNCHANGED <<pc, req, cur>>
              \/ /\ ~(age[TagFor(p, t)] < UPDATE_RATE)
                 /\ pc' = "ReadTag" /\ req' = [plc |-> p, name |-> t]
                 /\ cur' = TagFor(p, t) /\ reply' = NoReply
BY DEF Traite, TagFor

LEMMA LoopInit == Init => Loop
<1> SUFFICES ASSUME Init PROVE Loop
  OBVIOUS
<1>1. pc = "wait" /\ TAGs = <<>> /\ cursor = 0 /\ terminated = FALSE
  BY DEF Init
<1>2. CLIENTs = {} /\ ready = {} /\ req = NoTag /\ cur = NoTag
  BY DEF Init
<1>3. TAGs \in Seq(Tag)
  BY <1>1
<1>4. CLIENTs \subseteq Client /\ ready \subseteq CLIENTs
  BY <1>2
<1>5. cursor \in Nat /\ terminated \in BOOLEAN
  BY <1>1
<1> QED
  BY <1>1, <1>2, <1>3, <1>4, <1>5 DEF Loop

(* After the end of the process, or its restart, there is no TAG. *)
LEMMA ReaderEnds == EndReader => Loop'
<1> SUFFICES ASSUME EndReader PROVE Loop'
  OBVIOUS
<1>1. TAGs' = <<>> /\ cursor' = 0 /\ terminated' = FALSE
  BY DEF EndReader
<1>2. /\ pc' \in {"wait", "ended"} /\ req' = NoTag /\ cur' = NoTag
      /\ CLIENTs' = {} /\ ready' = {}
  BY DEF EndReader
<1>3. TAGs' \in Seq(Tag)
  BY <1>1
<1>4. CLIENTs' \subseteq Client /\ ready' \subseteq CLIENTs'
  BY <1>2
<1>5. cursor' \in Nat /\ terminated' \in BOOLEAN
  BY <1>1
<1> QED
  BY <1>2, <1>3, <1>4, <1>5 DEF Loop

LEMMA LoopNext == Loop /\ [Next]_vars => Loop'
<1> SUFFICES ASSUME Loop, [Next]_vars PROVE Loop'
  OBVIOUS
<1>1. CASE UNCHANGED vars
  BY <1>1 DEF vars, readerVars, Loop
<1>2. CASE Select
  BY <1>2 DEF Select, Loop
<1>3. ASSUME NEW c \in Client, ClientLost(c) \/ TraiteOther(c) PROVE Loop'
  BY <1>3 DEF ClientLost, TraiteOther, Loop
<1>4. ASSUME NEW c \in Client, NEW p \in Plc, NEW t \in TagName, Traite(c, p, t)
      PROVE  Loop'
  <2>1. /\ pc = "serve" /\ ready' = ready \ {c} /\ UNCHANGED <<CLIENTs, cursor, terminated>>
        /\ TAGs' = TAGs \/ TAGs' = Append(TAGs, TagFor(p, t))
        /\ \/ UNCHANGED <<pc, req, cur>>
           \/ pc' = "ReadTag" /\ req' = [plc |-> p, name |-> t] /\ cur' = TagFor(p, t)
    BY <1>4, Requested
  <2>2. TAGs \in Seq(Tag) /\ TagFor(p, t) \in Tag /\ [plc |-> p, name |-> t] \in Tag
    BY RequestTag DEF Loop, Tag
  <2>3. TAGs' \in Seq(Tag)
    BY <2>1, <2>2, AppendProperties
  <2> QED
    BY <2>1, <2>2, <2>3 DEF Loop
<1>5. CASE ReadTagHasNoLink \/ ReadTagSucceeds \/ ReadTagFails
  BY <1>5 DEF ReadTagHasNoLink, ReadTagSucceeds, ReadTagFails, Answer, Loop
<1>6. CASE ReadTagBuilds
  BY <1>6 DEF ReadTagBuilds, readerVars, Loop
<1>7. CASE ReadTagKilled \/ ScanKilled \/ Shutdown \/ ClientResets \/ ReaderCrash
  BY <1>7, ReaderEnds DEF ReadTagKilled, ScanKilled, Shutdown, ClientResets, ReaderCrash
<1>8. CASE ScanDeletes
  <2>1. /\ TAGs' = RemoveAt(TAGs, cursor) /\ cursor \in DOMAIN TAGs /\ pc = "scan"
        /\ cursor' = cursor + 1
        /\ UNCHANGED <<pc, CLIENTs, ready, req, cur, reply, terminated>>
    BY <1>8 DEF ScanDeletes
  <2>2. TAGs' \in Seq(Tag)
    BY <2>1, Removed DEF Loop
  <2> QED
    BY <2>1, <2>2 DEF Loop
<1>9. CASE BeginScan \/ ScanKeeps \/ EndScan
  BY <1>9 DEF BeginScan, ScanKeeps, EndScan, Loop
<1>10. CASE Sigterm \/ Tick
  BY <1>10 DEF Sigterm, Tick, Loop
<1>11. CASE OtherSide /\ UNCHANGED readerVars
  BY <1>11 DEF readerVars, Loop
<1> QED
  BY <1>1, <1>2, <1>3, <1>4, <1>5, <1>6, <1>7, <1>8, <1>9, <1>10, <1>11
     DEF Next, MainLoop, Serve, ReadTag, Scan

-----------------------------------------------------------------------------
(* The step simulation. *)
LEMMA LinksStep == Loop /\ [Next]_vars => [LinksNext]_linkVars
<1> SUFFICES ASSUME Loop, [Next]_vars PROVE [LinksNext]_linkVars
  OBVIOUS
<1>1. CASE UNCHANGED vars
  BY <1>1 DEF vars
<1>2. CASE Select \/ BeginScan \/ ScanKeeps \/ EndScan \/ Sigterm \/ Tick
  BY <1>2 DEF Select, BeginScan, ScanKeeps, EndScan, Sigterm, Tick
<1>3. CASE Serve
  BY <1>3 DEF Serve, ClientLost, TraiteOther, Traite
<1>4. CASE ReadTag
  <2>1. cur.plc \in Plc
    BY <1>4 DEF ReadTag, ReadTagBuilds, ReadTagHasNoLink, ReadTagSucceeds,
                ReadTagFails, ReadTagKilled, Loop, Tag
  <2>2. \/ BuildSession(cur.plc) \/ BuildConnection(cur.plc)
        \/ BuildSessionFails(cur.plc) \/ BuildConnectionFails(cur.plc)
        \/ Exchange(cur.plc)
        \/ BuildConnectionKilled(cur.plc) \/ ExchangeKilled(cur.plc)
    BY <1>4 DEF ReadTag, ReadTagBuilds, ReadTagHasNoLink, ReadTagSucceeds,
                ReadTagFails, ReadTagKilled
  <2> QED
    BY <2>1, <2>2 DEF LinksNext
<1>5. CASE ScanDeletes \/ ScanKilled
  <2>1. TAGs[cursor].plc \in Plc
    <3>1. cursor \in DOMAIN TAGs /\ TAGs \in Seq(Tag)
      BY <1>5 DEF ScanDeletes, ScanKilled, Loop
    <3>2. TAGs[cursor] \in Tag
      BY <3>1
    <3> QED
      BY <3>2 DEF Tag
  <2>2. \/ DisconnectPlc(TAGs[cursor].plc) \/ DisconnectPlcKilled(TAGs[cursor].plc)
        \/ UNCHANGED linkVars
    BY <1>5 DEF ScanDeletes, ScanKilled
  <2> QED
    BY <2>1, <2>2 DEF LinksNext
<1>6. CASE Shutdown \/ ClientResets \/ ReaderCrash \/ OtherSide
  BY <1>6 DEF Shutdown, ClientResets, ReaderCrash, LinksNext
<1> QED
  BY <1>1, <1>2, <1>3, <1>4, <1>5, <1>6 DEF Next, MainLoop, Scan

(* Every behaviour of the daemon is, for its links, one of PlcLinks. *)
THEOREM ReaderUsesLinks == Spec => UsesLinks
<1>1. Init => LinksInit /\ Loop
  BY LoopInit DEF Init
<1>2. Loop /\ [Next]_vars => Loop' /\ [LinksNext]_linkVars
  BY LoopNext, LinksStep
<1> QED
  BY <1>1, <1>2, PTL DEF Spec, UsesLinks, LinksSpec

(* So the counters of a running tuxreader are right ...  *)
THEOREM ReaderCounted ==
    ASSUME ~RegisterMayFail
    PROVE  Spec => []RefCounts
BY ReaderUsesLinks, LinksCounted, PTL DEF UsesLinks

(* ... and none of its pointers dangles, for an alias file without prefix  *)
(* confusion, through any requests, failures, deletions and restarts.      *)
THEOREM ReaderDoesNotDangle ==
    ASSUME ~RegisterMayFail, ExactFile
    PROVE  Spec => []NothingDangles
BY ReaderUsesLinks, LinksDoNotDangle, PTL DEF UsesLinks

-----------------------------------------------------------------------------
(* Types: what is read comes from a device of the alias file, whatever     *)
(* block the link is made of.                                              *)
LEMMA ReaderPoints == Spec => []PointersOK
BY ReaderUsesLinks, LinksPoint, PTL DEF UsesLinks

LEMMA ReadFrom ==
    ASSUME PointersOK, NEW k \in Tag, HasLink(k.plc)
    PROVE  ValueOf(Reached(k.plc), k.name) \in Value
<1>1. k.plc \in Plc /\ k.name \in TagName
  BY DEF Tag
<1>2. PICK p \in Plc, q \in Plc : Reached(k.plc) = <<Ip[p], Path[q], NetWork[q]>>
  BY <1>1, ReachedIn
<1> QED
  BY <1>1, <1>2 DEF Value, Read

Values == /\ age \in [Tag -> 0 .. Old]
          /\ value \in [Tag -> Value]
          /\ reply \in Reply
          /\ late \subseteq Late

LEMMA Nones == /\ NoValue \in Value /\ BadValue \in Value /\ NoReply \in Reply
               /\ 0 \in 0 .. Old /\ Old \in 0 .. Old /\ Old \in Nat /\ UPDATE_RATE <= Old
               /\ UPDATE_RATE \in Nat
BY ReaderAssumption DEF Value, Reply, Old

LEMMA ReplyIn ==
    ASSUME NEW p \in Plc, NEW t \in TagName, NEW v \in Value
    PROVE  ValueReply(p, t, v) \in Reply /\ ErrorReply(p, t) \in Reply
<1>1. NoValue \in Value
  BY Nones
<1> QED
  BY <1>1 DEF ValueReply, ErrorReply, Reply

(* A successful read, and one that failed. *)
ReadNow == ValueOf(Reached(cur.plc), cur.name)

LEMMA ReadDone ==
    ASSUME Loop, PointersOK, ReadTagSucceeds, value \in [Tag -> Value], late \subseteq Late
    PROVE  /\ pc = "ReadTag" /\ pc' = "serve" /\ req \in Tag /\ cur \in Tag
           /\ \E v \in Value :
                 /\ \/ v = ReadNow /\ CanAnswer(cur.plc)
                    \/ v \in Crossed
                 /\ value' = [value EXCEPT ![cur] = v]
                 /\ reply' = ValueReply(req.plc, req.name, v)
           /\ age' = [age EXCEPT ![cur] = 0]
           /\ late' \subseteq Late
           /\ UNCHANGED <<TAGs, References>>
<1>1. pc = "ReadTag" /\ req \in Tag /\ cur \in Tag /\ cur.plc \in Plc
  BY DEF ReadTagSucceeds, Loop, Tag
<1>2. HasLink(cur.plc)
  BY DEF ReadTagSucceeds, Exchange
<1>3. ReadNow \in Value
  BY <1>1, <1>2, ReadFrom DEF ReadNow
<1>4. \E v \in Value : /\ \/ v = ReadNow /\ CanAnswer(cur.plc)
                          \/ v \in Crossed
                       /\ value' = [value EXCEPT ![cur] = v]
  <2>1. CASE CanAnswer(cur.plc) /\ value' = [value EXCEPT ![cur] = ReadNow]
    BY <1>3, <2>1
  <2>2. CASE TakesLate(cur.plc) /\ value' = [value EXCEPT ![cur] = CrossedValue]
    <3>1. MaxLate > 0
      BY <1>1, <1>2, <2>2, LateTaken
    <3>2. CrossedValue \in Crossed /\ CrossedValue \in Value
      BY <3>1 DEF Crossed, Value
    <3> QED
      BY <2>2, <3>2
  <2> QED
    BY <2>1, <2>2 DEF ReadTagSucceeds, ReadNow
<1>5. /\ age' = [age EXCEPT ![cur] = 0]
      /\ Answer(ValueReply(req.plc, req.name, value'[cur]))
  BY DEF ReadTagSucceeds
<1>6. late' \subseteq Late
  <2>1. UNCHANGED late \/ TakesLate(cur.plc)
    BY DEF ReadTagSucceeds
  <2> QED
    BY <1>1, <1>2, <2>1, LateTaken
<1>7. PICK v \in Value : /\ \/ v = ReadNow /\ CanAnswer(cur.plc)
                            \/ v \in Crossed
                         /\ value' = [value EXCEPT ![cur] = v]
  BY <1>4
<1>8. value'[cur] = v
  BY <1>1, <1>7
<1> QED
  BY <1>1, <1>5, <1>6, <1>7, <1>8 DEF Answer

LEMMA ReadFailed ==
    ASSUME Loop, PointersOK, late \subseteq Late, ReadTagHasNoLink \/ ReadTagFails
    PROVE  /\ pc = "ReadTag" /\ pc' = "serve" /\ req \in Tag /\ cur \in Tag
           /\ value' = value \/ value' = [value EXCEPT ![cur] = BadValue]
           /\ reply' = ErrorReply(req.plc, req.name)
           /\ late' \subseteq Late
           /\ UNCHANGED <<age, TAGs, References>>
<1>1. pc = "ReadTag" /\ req \in Tag /\ cur \in Tag /\ cur.plc \in Plc
  BY DEF ReadTagHasNoLink, ReadTagFails, Loop, Tag
<1>2. /\ value' = value \/ value' = [value EXCEPT ![cur] = BadValue]
      /\ Answer(ErrorReply(req.plc, req.name)) /\ UNCHANGED age
  BY DEF ReadTagHasNoLink, ReadTagFails
<1>3. late' \subseteq Late
  <2>1. CASE ReadTagFails
    <3>1. HasLink(cur.plc)
      BY <2>1 DEF ReadTagFails, Exchange
    <3>2. MayComeLate(late, cur.plc) \/ UNCHANGED late \/ TakesLate(cur.plc)
      BY <2>1 DEF ReadTagFails
    <3> QED
      BY <1>1, <3>1, <3>2, LateComes, LateTaken
  <2>2. CASE ReadTagHasNoLink
    BY <2>2 DEF ReadTagHasNoLink
  <2> QED
    BY <2>1, <2>2
<1> QED
  BY <1>1, <1>2, <1>3 DEF Answer

LEMMA ValuesEnd == EndReader => Values'
BY Nones DEF Values, EndReader

LEMMA ValuesNext == PointersOK /\ Loop /\ Values /\ [Next]_vars => Values'
<1> SUFFICES ASSUME PointersOK, Loop, Values, [Next]_vars PROVE Values'
  OBVIOUS
<1>1. CASE UNCHANGED vars
  BY <1>1 DEF vars, readerVars, Values
<1>2. CASE Select \/ BeginScan \/ ScanKeeps \/ EndScan \/ Sigterm
  BY <1>2, Nones DEF Select, BeginScan, ScanKeeps, EndScan, Sigterm, Values
<1>3. ASSUME NEW c \in Client, ClientLost(c) \/ TraiteOther(c) PROVE Values'
  BY <1>3, Nones DEF ClientLost, TraiteOther, Values
<1>4. ASSUME NEW c \in Client, NEW p \in Plc, NEW t \in TagName, Traite(c, p, t)
      PROVE  Values'
  <2>1. /\ UNCHANGED <<age, value>>
        /\ reply' = NoReply \/ reply' = ValueReply(p, t, value[TagFor(p, t)])
    BY <1>4, Requested
  <2>4. UNCHANGED late
    BY <1>4 DEF Traite
  <2>2. value[TagFor(p, t)] \in Value
    BY RequestTag DEF Loop, Values
  <2>3. reply' \in Reply
    BY <2>1, <2>2, ReplyIn, Nones
  <2> QED
    BY <2>1, <2>3, <2>4 DEF Values
<1>5. CASE ReadTagSucceeds
  <2>1. PICK v \in Value : /\ value' = [value EXCEPT ![cur] = v]
                           /\ reply' = ValueReply(req.plc, req.name, v)
    BY <1>5, ReadDone DEF Values
  <2>4. /\ req \in Tag /\ cur \in Tag /\ late' \subseteq Late
        /\ age' = [age EXCEPT ![cur] = 0]
    BY <1>5, ReadDone DEF Values
  <2>2. req.plc \in Plc /\ req.name \in TagName
    BY <2>4 DEF Tag
  <2>3. reply' \in Reply
    BY <2>1, <2>2, ReplyIn
  <2> QED
    BY <2>1, <2>3, <2>4, Nones DEF Values
<1>6. CASE ReadTagHasNoLink \/ ReadTagFails
  <2>1. /\ value' = value \/ value' = [value EXCEPT ![cur] = BadValue]
        /\ reply' = ErrorReply(req.plc, req.name) /\ UNCHANGED age
    BY <1>6, ReadFailed DEF Values
  <2>2. req \in Tag /\ late' \subseteq Late
    BY <1>6, ReadFailed DEF Values
  <2>3. req.plc \in Plc /\ req.name \in TagName
    BY <2>2 DEF Tag
  <2>4. reply' \in Reply
    BY <2>1, <2>3, ReplyIn, Nones
  <2>5. value' \in [Tag -> Value]
    BY <2>1, Nones DEF Values
  <2> QED
    BY <2>1, <2>2, <2>4, <2>5 DEF Values
<1>7. CASE ReadTagBuilds
  BY <1>7 DEF ReadTagBuilds, readerVars, Values
<1>8. CASE ReadTagKilled \/ ScanKilled \/ Shutdown \/ ClientResets \/ ReaderCrash
  BY <1>8, ValuesEnd DEF ReadTagKilled, ScanKilled, Shutdown, ClientResets, ReaderCrash
<1>9. CASE ScanDeletes
  <2>1. /\ value' = [value EXCEPT ![TAGs[cursor]] = NoValue]
        /\ age' = [age EXCEPT ![TAGs[cursor]] = Old] /\ reply' = reply
    BY <1>9 DEF ScanDeletes
  <2>2. ClosingLoses \/ UNCHANGED late
    BY <1>9 DEF ScanDeletes
  <2>3. late' \subseteq Late
    BY <2>2, LateLost DEF Values
  <2> QED
    BY <2>1, <2>3, Nones DEF Values
<1>10. CASE Tick
  <2>1. /\ age' = [k \in Tag |-> IF age[k] = Old THEN Old ELSE age[k] + 1]
        /\ UNCHANGED <<value, reply, late>>
    BY <1>10 DEF Tick
  <2>2. \A k \in Tag : age[k] \in 0 .. Old
    BY DEF Values
  <2>3. \A k \in Tag : (IF age[k] = Old THEN Old ELSE age[k] + 1) \in 0 .. Old
    BY <2>2, Nones
  <2>4. age' \in [Tag -> 0 .. Old]
    BY <2>1, <2>3
  <2> QED
    BY <2>1, <2>4 DEF Values
<1>11. CASE OtherSide /\ UNCHANGED readerVars
  BY <1>11 DEF readerVars, Values
<1> QED
  BY <1>1, <1>2, <1>3, <1>4, <1>5, <1>6, <1>7, <1>8, <1>9, <1>10, <1>11
     DEF Next, MainLoop, Serve, ReadTag, Scan

-----------------------------------------------------------------------------
(* References and the links.  Every session a PLC holds was built for a    *)
(* tag that is in the list, and went with the last one.                    *)
Held == /\ References \in [Plc -> Nat]
        /\ \A p \in Plc : /\ References[p] = Cardinality(Spots(TAGs, p))
                          /\ plcSession[p] # Null => References[p] > 0
        /\ IsInjective(TAGs)
        /\ pc = "ReadTag" => Among(TAGs, cur)

LEMMA HeldInit == Init => Held
<1> SUFFICES ASSUME Init PROVE Held
  OBVIOUS
<1>1. /\ References = [p \in Plc |-> 0] /\ TAGs = <<>> /\ pc = "wait"
      /\ plcSession = [p \in Plc |-> Null]
  BY DEF Init, LinksInit
<1>2. IsInjective(<<>>)
  BY DEF IsInjective
<1> QED
  BY <1>1, <1>2, NoSpots DEF Held

LEMMA HeldEnd ==
    ASSUME NEW how, EndProcess(how), EndReader
    PROVE  Held'
<1>1. References' = [p \in Plc |-> 0] /\ TAGs' = <<>> /\ pc' \in {"wait", "ended"}
  BY DEF EndReader
<1>2. \A p \in Plc : plcSession'[p] = Null
  BY NoneAfterEnd
<1>3. IsInjective(<<>>)
  BY DEF IsInjective
<1> QED
  BY <1>1, <1>2, <1>3, NoSpots DEF Held

(* The list stays; a session is built for the tag in work, or none is.     *)
LEMMA HeldSame ==
    ASSUME Loop, Held, UNCHANGED <<TAGs, References>>,
           pc' = "ReadTag" => pc = "ReadTag" /\ cur' = cur,
           \A p \in Plc : plcSession'[p] = plcSession[p] \/ (pc = "ReadTag" /\ p = cur.plc)
    PROVE  Held'
<1>1. \A p \in Plc : plcSession'[p] # Null => References[p] > 0
  <2> TAKE p \in Plc
  <2>1. CASE plcSession'[p] = plcSession[p]
    BY <2>1 DEF Held
  <2>2. CASE pc = "ReadTag" /\ p = cur.plc
    <3>1. Cardinality(Spots(TAGs, cur.plc)) > 0
      BY <2>2, Counts DEF Held, Loop
    <3> QED
      BY <2>2, <3>1 DEF Held
  <2> QED
    BY <2>1, <2>2
<1> QED
  BY <1>1 DEF Held

LEMMA HeldNext == PointersOK /\ Loop /\ Held /\ [Next]_vars => Held'
<1> SUFFICES ASSUME PointersOK, Loop, Held, [Next]_vars PROVE Held'
  OBVIOUS
<1>1. CASE UNCHANGED vars
  <2>1. UNCHANGED <<TAGs, References, pc, cur, plcSession>>
    BY <1>1 DEF vars, readerVars, linkVars, pointers
  <2> QED
    BY <2>1, HeldSame
<1>2. CASE Select \/ BeginScan \/ ScanKeeps \/ EndScan \/ Sigterm \/ Tick
  <2>1. /\ UNCHANGED <<TAGs, References, plcSession>>
        /\ pc' = "ReadTag" => pc = "ReadTag" /\ cur' = cur
    BY <1>2 DEF Select, BeginScan, ScanKeeps, EndScan, Sigterm, Tick, linkVars, pointers
  <2> QED
    BY <2>1, HeldSame
<1>3. ASSUME NEW c \in Client, ClientLost(c) \/ TraiteOther(c) PROVE Held'
  <2>1. UNCHANGED <<TAGs, References, pc, cur, plcSession>>
    BY <1>3 DEF ClientLost, TraiteOther, linkVars, pointers
  <2> QED
    BY <2>1, HeldSame
<1>4. ASSUME NEW c \in Client, NEW p \in Plc, NEW t \in TagName, Traite(c, p, t)
      PROVE  Held'
  <2> DEFINE k == TagFor(p, t)
  <2>1. /\ pc = "serve" /\ UNCHANGED plcSession
        /\ IF FoundAt(p, t) # {} THEN TAGs' = TAGs /\ References' = References
           ELSE /\ TAGs' = Append(TAGs, k)
                /\ References' = [References EXCEPT ![k.plc] = @ + 1]
        /\ pc' = "ReadTag" => cur' = k
    BY <1>4, Requested DEF linkVars, pointers
  <2>2. /\ TAGs \in Seq(Tag) /\ k \in Tag /\ k.plc \in Plc
        /\ FoundAt(p, t) # {} => Among(TAGs, k)
        /\ FoundAt(p, t) = {} => ~Among(TAGs, k)
    BY RequestTag DEF Loop, Tag
  <2> HIDE DEF k
  <2>3. CASE FoundAt(p, t) # {}
    <3>1. UNCHANGED <<TAGs, References, plcSession>> /\ Among(TAGs, k)
      BY <2>1, <2>2, <2>3
    <3> QED
      BY <2>1, <3>1 DEF Held
  <2>4. CASE FoundAt(p, t) = {}
    <3>1. TAGs' = Append(TAGs, k) /\ References' = [References EXCEPT ![k.plc] = @ + 1]
      BY <2>1, <2>4
    <3>2. /\ Among(TAGs', k) /\ IsInjective(TAGs')
          /\ Cardinality(Spots(TAGs', k.plc)) = Cardinality(Spots(TAGs, k.plc)) + 1
          /\ \A q : q # k.plc => Spots(TAGs', q) = Spots(TAGs, q)
      BY <2>2, <2>4, <3>1, Appended DEF Held
    <3>3. References' \in [Plc -> Nat]
      BY <2>2, <3>1 DEF Held
    <3>4. ASSUME NEW q \in Plc
          PROVE  /\ References'[q] = Cardinality(Spots(TAGs', q))
                 /\ plcSession'[q] # Null => References'[q] > 0
      BY <2>1, <2>2, <3>1, <3>2 DEF Held
    <3> QED
      BY <2>1, <3>2, <3>3, <3>4 DEF Held
  <2> QED
    BY <2>3, <2>4
<1>5. CASE ReadTagBuilds
  <2>1. /\ UNCHANGED <<TAGs, References, pc, cur>> /\ pc = "ReadTag" /\ cur.plc \in Plc
        /\ BuildSession(cur.plc) \/ BuildConnection(cur.plc)
    BY <1>5 DEF ReadTagBuilds, readerVars, Loop, Tag
  <2>2. \A p \in Plc : plcSession'[p] = plcSession[p] \/ p = cur.plc
    BY <2>1, SessionBuilt, ConnectionBuilt
  <2> QED
    BY <2>1, <2>2, HeldSame
<1>6. CASE ReadTagHasNoLink \/ ReadTagSucceeds \/ ReadTagFails
  <2>1. cur.plc \in Plc /\ \/ BuildSessionFails(cur.plc) \/ BuildConnectionFails(cur.plc)
                           \/ Exchange(cur.plc)
    BY <1>6 DEF ReadTagHasNoLink, ReadTagSucceeds, ReadTagFails, Loop, Tag
  <2>2. UNCHANGED plcSession
    BY <2>1, PointersSame
  <2>3. UNCHANGED <<TAGs, References>> /\ pc' = "serve"
    BY <1>6 DEF ReadTagHasNoLink, ReadTagSucceeds, ReadTagFails, Answer
  <2> QED
    BY <2>2, <2>3, HeldSame
<1>7. CASE ReadTagKilled \/ ScanKilled \/ Shutdown \/ ClientResets \/ ReaderCrash
  <2>1. PICK how : EndProcess(how)
    BY <1>7 DEF ReadTagKilled, ScanKilled, Shutdown, ClientResets, ReaderCrash, KillConnections,
                ReplyKills, Crash, BuildConnectionKilled, ExchangeKilled, DisconnectPlcKilled
  <2>2. EndReader
    BY <1>7 DEF ReadTagKilled, ScanKilled, Shutdown, ClientResets, ReaderCrash
  <2> QED
    BY <2>1, <2>2, HeldEnd
<1>8. CASE ScanDeletes
  <2> DEFINE k == TAGs[cursor]
  <2>1. /\ TAGs' = RemoveAt(TAGs, cursor) /\ cursor \in DOMAIN TAGs /\ pc' = "scan"
        /\ References' = [References EXCEPT ![k.plc] = @ - 1]
        /\ IF LastTag(k.plc) THEN DisconnectPlc(k.plc) ELSE UNCHANGED linkVars
    BY <1>8 DEF ScanDeletes
  <2>2. k \in Tag /\ k.plc \in Plc /\ Among(TAGs, k)
    <3>1. k \in Tag
      BY <2>1, Positions DEF Loop
    <3> QED
      BY <2>1, <3>1 DEF Tag, Among
  <2>3. /\ IsInjective(TAGs')
        /\ Cardinality(Spots(TAGs', k.plc)) = Cardinality(Spots(TAGs, k.plc)) - 1
        /\ \A p : p # k.plc => Cardinality(Spots(TAGs', p)) = Cardinality(Spots(TAGs, p))
    BY <2>1, Removed DEF Held, Loop
  <2>4. Cardinality(Spots(TAGs, k.plc)) > 0
    BY <2>2, Counts DEF Loop
  <2> HIDE DEF k
  <2>5. References' \in [Plc -> Nat]
    BY <2>1, <2>2, <2>4 DEF Held
  <2>6. ASSUME NEW p \in Plc
        PROVE  References'[p] = Cardinality(Spots(TAGs', p))
    BY <2>1, <2>2, <2>3 DEF Held
  <2>7. ASSUME NEW p \in Plc, plcSession'[p] # Null
        PROVE  References'[p] > 0
    <3>1. CASE LastTag(k.plc)
      <4>1. p # k.plc /\ plcSession[p] # Null
        BY <2>1, <2>2, <2>7, <3>1, Disconnected
      <4> QED
        BY <2>1, <2>2, <4>1 DEF Held
    <3>2. CASE ~LastTag(k.plc)
      <4>1. plcSession[p] # Null /\ References[k.plc] \in Nat /\ ~(References[k.plc] - 1 <= 0)
        BY <2>1, <2>2, <2>7, <3>2 DEF linkVars, pointers, LastTag, Held
      <4> QED
        BY <2>1, <2>2, <4>1 DEF Held
    <3> QED
      BY <3>1, <3>2
  <2> QED
    BY <2>1, <2>3, <2>5, <2>6, <2>7 DEF Held
<1>9. CASE OtherSide /\ UNCHANGED readerVars
  <2>1. UNCHANGED <<TAGs, References, pc, cur>>
    BY <1>9 DEF readerVars
  <2>2. UNCHANGED plcSession
    BY <1>9, PointersSame
  <2> QED
    BY <2>1, <2>2, HeldSame
<1> QED
  BY <1>1, <1>2, <1>3, <1>4, <1>5, <1>6, <1>7, <1>8, <1>9
     DEF Next, MainLoop, Serve, ReadTag, Scan

LEMMA HeldImplies == Loop /\ Values /\ PointersOK /\ Held => LinksHeldForTags
<1> SUFFICES ASSUME Loop, Values, PointersOK, Held PROVE LinksHeldForTags
  OBVIOUS
<1>1. (cur = NoTag) <=> (pc # "ReadTag")
  BY NoTagIsNone DEF Loop
<1>2. req \in Tag \union {NoTag} /\ cur \in Tag \union {NoTag}
  BY DEF Loop
<1>3. TypeOK
  BY <1>1, <1>2 DEF TypeOK, Loop, Values, Held
<1> QED
  BY <1>3 DEF LinksHeldForTags, PointersOK, Tied, Held, Spots

LEMMA ValuesInit == Init => Values
BY Nones DEF Init, Values

(* References counts the tags of each PLC, no tag is twice in the list,    *)
(* and only a PLC with tags holds links, whatever clients ask, reads fail  *)
(* and the inactivity check deletes, for every alias file and with failing *)
(* registrations too.                                                      *)
THEOREM ReaderHoldsLinks == Spec => []LinksHeldForTags
<1>1. Init => Loop /\ Values /\ Held
  BY LoopInit, ValuesInit, HeldInit
<1>2. PointersOK /\ Loop /\ Values /\ Held /\ [Next]_vars => Loop' /\ Values' /\ Held'
  BY LoopNext, ValuesNext, HeldNext
<1>3. Loop /\ Values /\ PointersOK /\ Held => LinksHeldForTags
  BY HeldImplies
<1> QED
  BY <1>1, <1>2, <1>3, ReaderPoints, PTL DEF Spec

-----------------------------------------------------------------------------
(* The values.  ReadTag is only entered for a tag that is due, and a value *)
(* it spoils on the way is still due when it gives up: time only makes it  *)
(* older.                                                                  *)
Buffered == \A k \in Tag :
               age[k] < UPDATE_RATE =>
                  value[k] \in {ValueOf(Address(k.plc), k.name)} \union Crossed
Due == pc = "ReadTag" => ~(age[cur] < UPDATE_RATE)

LEMMA BufferedInit == Init => Buffered /\ Due
<1> SUFFICES ASSUME Init PROVE Buffered /\ Due
  OBVIOUS
<1>1. age = [k \in Tag |-> Old] /\ pc = "wait"
  BY DEF Init
<1> QED
  BY <1>1, Nones DEF Buffered, Due

LEMMA BufferedEnd == EndReader => Buffered' /\ Due'
<1> SUFFICES ASSUME EndReader PROVE Buffered' /\ Due'
  OBVIOUS
<1>1. age' = [k \in Tag |-> Old] /\ pc' # "ReadTag"
  BY DEF EndReader
<1> QED
  BY <1>1, Nones DEF Buffered, Due

LEMMA BufferedNext ==
    ASSUME PointersOK, RightDevice, Loop, Values, Buffered, Due, [Next]_vars
    PROVE  Buffered' /\ Due'
<1>1. CASE UNCHANGED vars
  BY <1>1 DEF vars, readerVars, Buffered, Due
<1>2. CASE Select \/ BeginScan \/ ScanKeeps \/ EndScan \/ Sigterm
  BY <1>2 DEF Select, BeginScan, ScanKeeps, EndScan, Sigterm, Buffered, Due
<1>3. ASSUME NEW c \in Client, ClientLost(c) \/ TraiteOther(c) PROVE Buffered' /\ Due'
  BY <1>3 DEF ClientLost, TraiteOther, Buffered, Due
<1>4. ASSUME NEW c \in Client, NEW p \in Plc, NEW t \in TagName, Traite(c, p, t)
      PROVE  Buffered' /\ Due'
  <2>1. /\ UNCHANGED <<age, value>>
        /\ \/ UNCHANGED <<pc, cur>>
           \/ ~(age[TagFor(p, t)] < UPDATE_RATE) /\ cur' = TagFor(p, t)
    BY <1>4, Requested
  <2>2. Due'
    BY <2>1 DEF Due
  <2> QED
    BY <2>1, <2>2 DEF Buffered
<1>5. CASE ReadTagSucceeds
  <2>1. /\ pc' = "serve" /\ cur \in Tag
        /\ age' = [age EXCEPT ![cur] = 0]
    BY <1>5, ReadDone DEF Values
  <2>2. PICK v \in Value : /\ \/ v = ReadNow /\ CanAnswer(cur.plc)
                              \/ v \in Crossed
                           /\ value' = [value EXCEPT ![cur] = v]
    BY <1>5, ReadDone DEF Values
  <2>3. v \in {ValueOf(Address(cur.plc), cur.name)} \union Crossed
    BY <2>1, <2>2 DEF Tag, CanAnswer, RightDevice, ReadNow
  <2>4. \A k \in Tag : age'[k] < UPDATE_RATE =>
                          value'[k] \in {ValueOf(Address(k.plc), k.name)} \union Crossed
    <3> TAKE k \in Tag
    <3>1. CASE k = cur
      BY <2>1, <2>2, <2>3, <3>1 DEF Values
    <3>2. CASE k # cur
      BY <2>1, <2>2, <3>2 DEF Values, Buffered
    <3> QED
      BY <3>1, <3>2
  <2> QED
    BY <2>1, <2>4 DEF Buffered, Due
<1>6. CASE ReadTagHasNoLink \/ ReadTagFails
  <2>1. /\ pc = "ReadTag" /\ pc' = "serve" /\ UNCHANGED age
        /\ value' = value \/ value' = [value EXCEPT ![cur] = BadValue]
    BY <1>6, ReadFailed DEF Values
  <2>2. \A k \in Tag : age[k] < UPDATE_RATE => value'[k] = value[k]
    BY <2>1 DEF Due, Values
  <2> QED
    BY <2>1, <2>2 DEF Buffered, Due
<1>7. CASE ReadTagBuilds
  BY <1>7 DEF ReadTagBuilds, readerVars, Buffered, Due
<1>8. CASE ReadTagKilled \/ ScanKilled \/ Shutdown \/ ClientResets \/ ReaderCrash
  BY <1>8, BufferedEnd DEF ReadTagKilled, ScanKilled, Shutdown, ClientResets, ReaderCrash
<1>9. CASE ScanDeletes
  <2>1. /\ value' = [value EXCEPT ![TAGs[cursor]] = NoValue]
        /\ age' = [age EXCEPT ![TAGs[cursor]] = Old] /\ pc' = "scan"
    BY <1>9 DEF ScanDeletes
  <2>2. \A k \in Tag : age'[k] < UPDATE_RATE => age'[k] = age[k] /\ value'[k] = value[k]
    BY <2>1, Nones DEF Values
  <2> QED
    BY <2>1, <2>2 DEF Buffered, Due
<1>10. CASE Tick
  <2>1. /\ age' = [k \in Tag |-> IF age[k] = Old THEN Old ELSE age[k] + 1]
        /\ UNCHANGED <<value, pc, cur>>
    BY <1>10 DEF Tick
  <2>2. \A k \in Tag : age[k] \in 0 .. Old
    BY DEF Values
  <2>3. \A k \in Tag : age'[k] < UPDATE_RATE => age[k] < UPDATE_RATE
    BY <2>1, <2>2, Nones
  <2> QED
    BY <2>1, <2>3 DEF Buffered, Due, Loop
<1>11. CASE OtherSide /\ UNCHANGED readerVars
  BY <1>11 DEF readerVars, Buffered, Due
<1> QED
  BY <1>1, <1>2, <1>3, <1>4, <1>5, <1>6, <1>7, <1>8, <1>9, <1>10, <1>11
     DEF Next, MainLoop, Serve, ReadTag, Scan

LEMMA ReaderRightDevice ==
    ASSUME ~RegisterMayFail, ExactFile
    PROVE  Spec => []RightDevice
BY ReaderUsesLinks, LinksReachTheirDevice, PTL DEF UsesLinks

LEMMA BufferedAlways ==
    ASSUME ~RegisterMayFail, ExactFile
    PROVE  Spec => [](PointersOK /\ RightDevice /\ Loop /\ Values /\ Buffered /\ Due)
<1>1. Init => Loop /\ Values /\ Buffered /\ Due
  BY LoopInit, ValuesInit, BufferedInit
<1>2. PointersOK /\ RightDevice /\ Loop /\ Values /\ Buffered /\ Due /\ [Next]_vars
        => Loop' /\ Values' /\ Buffered' /\ Due'
  BY LoopNext, ValuesNext, BufferedNext
<1> QED
  BY <1>1, <1>2, ReaderRightDevice, ReaderPoints, PTL DEF Spec

(* A value that is served from the list was read from the device and tag   *)
(* it stands for.                                                          *)
THEOREM ReaderBuffersGoodValues ==
    ASSUME ~RegisterMayFail, ExactFile
    PROVE  Spec => []BufferedValueIsGood
<1>1. Loop /\ Buffered => BufferedValueIsGood
  <2> SUFFICES ASSUME Loop, Buffered PROVE BufferedValueIsGood
    OBVIOUS
  <2>1. \A i \in DOMAIN TAGs : TAGs[i] \in Tag
    BY Positions DEF Loop
  <2> QED
    BY <2>1 DEF Buffered, BufferedValueIsGood
<1> QED
  BY <1>1, BufferedAlways, PTL

-----------------------------------------------------------------------------
(* The replies.  The prefix comparisons of FindTag and FindPLC must be     *)
(* exact on the names in use.                                              *)
ExactNames == /\ \A p, q \in Plc : <<p, q>> \in NameStarts => q = p
              /\ \A t, u \in TagName : <<t, u>> \in TagStarts => u = t

LEMMA ServedFromNamed ==
    ASSUME ExactNames, TAGs \in Seq(Tag), NEW p \in Plc, NEW t \in TagName
    PROVE  TagFor(p, t) = [plc |-> p, name |-> t]
<1>1. ASSUME FoundAt(p, t) # {} PROVE FindTag(p, t) = [plc |-> p, name |-> t]
  <2>1. PICK i \in DOMAIN TAGs : /\ FindTag(p, t) = TAGs[i] /\ TAGs[i] \in Tag
                                 /\ <<t, TAGs[i].name>> \in TagStarts
                                 /\ <<p, TAGs[i].plc>> \in NameStarts
    BY <1>1, FoundIn
  <2>2. TAGs[i].plc = p /\ TAGs[i].name = t
    BY <2>1 DEF ExactNames, Tag
  <2> QED
    BY <2>1, <2>2 DEF Tag
<1>2. FindPLC(p) = p
  BY NameIn DEF ExactNames
<1> QED
  BY <1>1, <1>2 DEF TagFor

Told == /\ pc = "ReadTag" => cur = req
        /\ ReplyIsTruthful

LEMMA ToldNext ==
    ASSUME ExactNames, PointersOK, RightDevice, Loop, Values, Buffered, Told, [Next]_vars
    PROVE  Told'
<1>1. CASE UNCHANGED vars
  BY <1>1 DEF vars, readerVars, Told, ReplyIsTruthful
<1>2. CASE Select \/ BeginScan \/ ScanKeeps \/ EndScan \/ Sigterm \/ Tick
  BY <1>2 DEF Select, BeginScan, ScanKeeps, EndScan, Sigterm, Tick, Told, ReplyIsTruthful
<1>3. ASSUME NEW c \in Client, ClientLost(c) \/ TraiteOther(c) PROVE Told'
  BY <1>3 DEF ClientLost, TraiteOther, Told, ReplyIsTruthful
<1>4. ASSUME NEW c \in Client, NEW p \in Plc, NEW t \in TagName, Traite(c, p, t)
      PROVE  Told'
  <2>1. TagFor(p, t) = [plc |-> p, name |-> t] /\ TagFor(p, t) \in Tag
    BY ServedFromNamed, RequestTag DEF Loop
  <2>2. CASE /\ age[TagFor(p, t)] < UPDATE_RATE
             /\ reply' = ValueReply(p, t, value[TagFor(p, t)])
             /\ UNCHANGED <<pc, req, cur>>
    <3>1. value[TagFor(p, t)] \in {ValueOf(Address(p), t)} \union Crossed
      BY <2>1, <2>2 DEF Buffered
    <3>2. /\ reply'.plc = p /\ reply'.name = t
          /\ reply'.value \in {ValueOf(Address(p), t)} \union Crossed
      BY <2>2, <3>1 DEF ValueReply
    <3> QED
      BY <2>2, <3>2 DEF Told, ReplyIsTruthful
  <2>3. CASE req' = [plc |-> p, name |-> t] /\ cur' = TagFor(p, t) /\ reply' = NoReply
    <3>1. cur' = req' /\ reply' = NoReply
      BY <2>1, <2>3
    <3> QED
      BY <3>1 DEF Told, ReplyIsTruthful
  <2> QED
    BY <1>4, <2>2, <2>3, Requested
<1>5. CASE ReadTagSucceeds
  <2>1. pc = "ReadTag" /\ pc' = "serve" /\ cur \in Tag
    BY <1>5, ReadDone DEF Values
  <2>2. PICK v \in Value : /\ \/ v = ReadNow /\ CanAnswer(cur.plc)
                              \/ v \in Crossed
                           /\ reply' = ValueReply(req.plc, req.name, v)
    BY <1>5, ReadDone DEF Values
  <2>3. v \in {ValueOf(Address(cur.plc), cur.name)} \union Crossed /\ cur = req
    BY <2>1, <2>2 DEF Tag, CanAnswer, RightDevice, ReadNow, Told
  <2>4. /\ reply'.plc = req.plc /\ reply'.name = req.name
        /\ reply'.value \in {ValueOf(Address(req.plc), req.name)} \union Crossed
    BY <2>2, <2>3 DEF ValueReply
  <2> QED
    BY <2>1, <2>4 DEF Told, ReplyIsTruthful
<1>6. CASE ReadTagHasNoLink \/ ReadTagFails
  <2>1. pc' = "serve" /\ reply'.kind = "error"
    BY <1>6, ReadFailed DEF ErrorReply, Values
  <2> QED
    BY <2>1 DEF Told, ReplyIsTruthful
<1>7. CASE ReadTagBuilds
  BY <1>7 DEF ReadTagBuilds, readerVars, Told, ReplyIsTruthful
<1>8. CASE ReadTagKilled \/ ScanKilled \/ Shutdown \/ ClientResets \/ ReaderCrash
  <2>1. reply' = NoReply /\ pc' # "ReadTag"
    BY <1>8 DEF ReadTagKilled, ScanKilled, Shutdown, ClientResets, ReaderCrash, EndReader
  <2> QED
    BY <2>1 DEF Told, ReplyIsTruthful
<1>9. CASE ScanDeletes
  BY <1>9 DEF ScanDeletes, Told, ReplyIsTruthful
<1>10. CASE OtherSide /\ UNCHANGED readerVars
  BY <1>10 DEF readerVars, Told, ReplyIsTruthful
<1> QED
  BY <1>1, <1>2, <1>3, <1>4, <1>5, <1>6, <1>7, <1>8, <1>9, <1>10
     DEF Next, MainLoop, Serve, ReadTag, Scan

(* The value a client gets is the one of the tag and of the PLC it named,  *)
(* whether it was just read or comes from the list.                        *)
THEOREM ReaderTellsTheTruth ==
    ASSUME ~RegisterMayFail, ExactFile, ExactNames
    PROVE  Spec => []ReplyIsTruthful
<1>1. Init => Told
  BY DEF Init, Told, ReplyIsTruthful
<1>2. PointersOK /\ RightDevice /\ Loop /\ Values /\ Buffered /\ Told /\ [Next]_vars => Told'
  BY ToldNext
<1>3. Told => ReplyIsTruthful
  BY DEF Told
<1> QED
  BY <1>1, <1>2, <1>3, BufferedAlways, PTL DEF Spec

=============================================================================
