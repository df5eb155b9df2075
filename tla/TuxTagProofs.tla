---------------------------- MODULE TuxTagProofs -----------------------------
(***************************************************************************)
(* tuxtag, for every alias file, tag set and request: it uses its links as *)
(* PlcLinks says, holds them for its tags, and tells the truth in its      *)
(* replies, reads and writes alike, as long as names, addresses and        *)
(* registrations are unambiguous.                                          *)
(***************************************************************************)
EXTENDS TuxTag, PlcLinksProofs

LEMMA NoTagIsNone == NoTag \notin Tag
<1> SUFFICES ASSUME NoTag \in Tag PROVE FALSE
  OBVIOUS
<1>1. NoTag.plc \in Plc /\ NoTag.plc = 0
  BY DEF Tag, NoTag
<1> QED
  BY <1>1, ConfigAssumption DEF Plc

(* The place in the loop, and the request and the tag it works on. *)
Working == pc \in {"WriteTag", "ReadTag"}

Loop == /\ pc \in {"serve", "WriteTag", "ReadTag", "scan", "ended"}
        /\ IF Working THEN req \in Request /\ cur \in Tag ELSE req = NoTag /\ cur = NoTag
        /\ cursor \in Nat
        /\ TAGs \in Seq(Tag)
        /\ sent \in Fate

(* The tag a request works on is one of the list, or a new one for a PLC   *)
(* of the alias file.                                                      *)
TagFor(r) == IF FoundAt(r.plc, r.name) # {} THEN FindTag(r.plc, r.name)
             ELSE [plc |-> FindPLC(r.plc), name |-> r.name]

LEMMA FoundIn ==
    ASSUME TAGs \in Seq(Tag), NEW p \in Plc, NEW t \in TagName, FoundAt(p, t) # {}
    PROVE  \E i \in DOMAIN TAGs : /\ FindTag(p, t) = TAGs[i] /\ TAGs[i] \in Tag
                                  /\ TAGs[i].name = t /\ <<p, TAGs[i].plc>> \in NameStarts
<1>1. DOMAIN TAGs = 1 .. Len(TAGs) /\ Len(TAGs) \in Nat /\ \A i \in 1 .. Len(TAGs) : TAGs[i] \in Tag
  BY Positions
<1>2. FoundAt(p, t) \in SUBSET Nat
  BY <1>1 DEF FoundAt
<1>3. First(FoundAt(p, t)) \in FoundAt(p, t)
  BY <1>2, FirstOfNat
<1> QED
  BY <1>1, <1>3 DEF FoundAt, FindTag

LEMMA NameIn ==
    ASSUME NEW p \in Plc
    PROVE  FindPLC(p) \in Plc /\ <<p, FindPLC(p)>> \in NameStarts
<1>1. p \in {q \in Plc : <<p, q>> \in NameStarts}
  BY TagAssumption
<1>2. FindPLC(p) \in {q \in Plc : <<p, q>> \in NameStarts}
  BY <1>1, FirstIn DEF FindPLC
<1> QED
  BY <1>2

LEMMA RequestTag ==
    ASSUME TAGs \in Seq(Tag), NEW r \in Request
    PROVE  /\ TagFor(r) \in Tag
           /\ FoundAt(r.plc, r.name) # {} => Among(TAGs, TagFor(r))
           /\ FoundAt(r.plc, r.name) = {} => ~Among(TAGs, TagFor(r))
<1>1. r.plc \in Plc /\ r.name \in TagName
  BY DEF Request
<1>2. CASE FoundAt(r.plc, r.name) # {}
  <2>1. TagFor(r) = FindTag(r.plc, r.name)
    BY <1>2 DEF TagFor
  <2>2. \E i \in DOMAIN TAGs : FindTag(r.plc, r.name) = TAGs[i] /\ TAGs[i] \in Tag
    BY <1>1, <1>2, FoundIn
  <2>3. PICK i \in DOMAIN TAGs : TAGs[i] = TagFor(r) /\ TAGs[i] \in Tag
    BY <2>1, <2>2
  <2>4. TagFor(r) \in Tag /\ Among(TAGs, TagFor(r))
    BY <2>3 DEF Among
  <2> QED
    BY <1>2, <2>4
<1>3. CASE FoundAt(r.plc, r.name) = {}
  <2>1. TagFor(r) = [plc |-> FindPLC(r.plc), name |-> r.name]
    BY <1>3 DEF TagFor
  <2>2. TagFor(r) \in Tag /\ TagFor(r).name = r.name /\ <<r.plc, TagFor(r).plc>> \in NameStarts
    BY <1>1, <2>1, NameIn DEF Tag
  <2> QED
    BY <1>3, <2>2 DEF FoundAt, Among
<1> QED
  BY <1>2, <1>3

(* What Traite does with a request. *)
LEMMA Requested ==
    ASSUME NEW r \in Request, NEW refresh \in Refresh, Traite(r, refresh)
    PROVE  /\ pc = "serve" /\ sent' = "unsent"
           /\ UNCHANGED <<linkVars, cursor, age, value, memory, acked, late>>
           /\ IF FoundAt(r.plc, r.name) # {} THEN TAGs' = TAGs /\ References' = References
              ELSE /\ TAGs' = Append(TAGs, TagFor(r))
                   /\ References' = [References EXCEPT ![TagFor(r).plc] = @ + 1]
           /\ \/ /\ ~r.write /\ age[TagFor(r)] < refresh
                 /\ reply' = ReplyTo(r, "success", value[TagFor(r)])
                 /\ UNCHANGED <<pc, req, cur>>
              \/ /\ pc' = IF r.write THEN "WriteTag" ELSE "ReadTag"
                 /\ req' = r /\ cur' = TagFor(r) /\ reply' = NoReply
BY DEF Traite, TagFor

(* The end of the process, or its restart. *)
LEMMA TagEnds == EndTuxTag => Loop'
<1> SUFFICES ASSUME EndTuxTag PROVE Loop'
  OBVIOUS
<1>1. TAGs' \in Seq(Tag) /\ cursor' \in Nat /\ sent' \in Fate
  BY DEF EndTuxTag, Fate
<1>2. pc' \in {"serve", "ended"} /\ req' = NoTag /\ cur' = NoTag
  BY DEF EndTuxTag
<1> QED
  BY <1>1, <1>2 DEF Loop, Working

LEMMA LoopNext == Loop /\ [Next]_vars => Loop'
<1> SUFFICES ASSUME Loop, [Next]_vars PROVE Loop'
  OBVIOUS
<1>1. CASE UNCHANGED vars
  BY <1>1 DEF vars, tagVars, Loop, Working
<1>2. ASSUME NEW r \in Request, NEW refresh \in Refresh, Traite(r, refresh)
      PROVE  Loop'
  <2>1. /\ pc = "serve" /\ sent' = "unsent" /\ cursor' = cursor
        /\ TAGs' = TAGs \/ TAGs' = Append(TAGs, TagFor(r))
        /\ \/ UNCHANGED <<pc, req, cur>>
           \/ pc' \in {"WriteTag", "ReadTag"} /\ req' = r /\ cur' = TagFor(r)
    BY <1>2, Requested
  <2>2. TAGs \in Seq(Tag) /\ TagFor(r) \in Tag
    BY RequestTag DEF Loop
  <2>3. TAGs' \in Seq(Tag)
    BY <2>1, <2>2, AppendProperties
  <2> QED
    BY <2>1, <2>2, <2>3 DEF Loop, Working, Fate
<1>3. CASE WriteTagHasNoLink \/ ReadTag
  BY <1>3 DEF WriteTagHasNoLink, ReadTag, ReadTagHasNoLink, ReadTagSucceeds, ReadTagFails,
              Answer, Loop, Working
<1>4. CASE WriteTagFails \/ WriteTagCrosses \/ \E f \in Fate : WriteTagSends(f)
  BY <1>4 DEF WriteTagFails, WriteTagCrosses, WriteTagSends, Answer, Loop, Working, Fate
<1>5. CASE BuildLink
  BY <1>5 DEF BuildLink, tagVars, Loop, Working
<1>6. CASE Killed \/ ScanKilled \/ Shutdown \/ ClientResets \/ TuxTagCrash
  BY <1>6, TagEnds DEF Killed, ScanKilled, Shutdown, ClientResets, TuxTagCrash
<1>7. CASE ScanDeletes
  <2>1. /\ TAGs' = RemoveAt(TAGs, cursor) /\ cursor \in DOMAIN TAGs /\ pc = "scan"
        /\ cursor' = cursor + 1 /\ UNCHANGED <<pc, req, cur, sent>>
    BY <1>7 DEF ScanDeletes
  <2>2. TAGs' \in Seq(Tag)
    BY <2>1, Removed DEF Loop
  <2> QED
    BY <2>1, <2>2 DEF Loop, Working
<1>8. CASE BeginScan \/ ScanKeeps \/ EndScan
  BY <1>8 DEF BeginScan, ScanKeeps, EndScan, Loop, Working, Fate
<1>9. CASE Tick \/ LinkBreaks \/ \E v \in Variable : PlcChanges(v)
  BY <1>9 DEF Tick, LinkBreaks, PlcChanges, ReplyIsPast, Loop, Working, Fate
<1> QED
  BY <1>1, <1>2, <1>3, <1>4, <1>5, <1>6, <1>7, <1>8, <1>9 DEF Next, WriteTag, Scan

-----------------------------------------------------------------------------
(* The step simulation: a call of WriteTag or ReadTag is one of the PLC of *)
(* the tag, a deletion one of the PLC of the element.                      *)
LEMMA TagLinksStep == Loop /\ [Next]_vars => [LinksNext]_linkVars
<1> SUFFICES ASSUME Loop, [Next]_vars PROVE [LinksNext]_linkVars
  OBVIOUS
<1>1. CASE UNCHANGED vars
  BY <1>1 DEF vars
<1>2. CASE BeginScan \/ ScanKeeps \/ EndScan \/ Tick
  BY <1>2 DEF BeginScan, ScanKeeps, EndScan, Tick
<1>3. CASE \/ \E r \in Request, refresh \in Refresh : Traite(r, refresh)
           \/ \E v \in Variable : PlcChanges(v)
  BY <1>3 DEF Traite, PlcChanges
<1>4. CASE BuildLink \/ WriteTag \/ ReadTag \/ Killed
  <2>1. pc \in {"WriteTag", "ReadTag"}
    BY <1>4 DEF BuildLink, WriteTag, ReadTag, Killed, ReadTagHasNoLink, ReadTagSucceeds,
                ReadTagFails, WriteTagHasNoLink, WriteTagFails, WriteTagCrosses, WriteTagSends
  <2>2. cur.plc \in Plc
    BY <2>1 DEF Loop, Working, Tag
  <2>3. \/ BuildSession(cur.plc) \/ BuildConnection(cur.plc)
        \/ BuildSessionFails(cur.plc) \/ BuildConnectionFails(cur.plc)
        \/ Exchange(cur.plc)
        \/ BuildConnectionKilled(cur.plc) \/ ExchangeKilled(cur.plc)
    BY <1>4 DEF BuildLink, WriteTag, ReadTag, Killed, ReadTagHasNoLink, ReadTagSucceeds,
                ReadTagFails, WriteTagHasNoLink, WriteTagFails, WriteTagCrosses, WriteTagSends, HasNoLink
  <2> QED
    BY <2>2, <2>3 DEF LinksNext
<1>5. CASE ScanDeletes \/ ScanKilled
  <2>1. TAGs[cursor].plc \in Plc
    <3>1. cursor \in DOMAIN TAGs /\ TAGs \in Seq(Tag)
      BY <1>5 DEF ScanDeletes, ScanKilled, Loop
    <3>2. TAGs[cursor] \in Tag
      BY <3>1
    <3> QED
      BY <3>2 DEF Tag
  <2>2. \/ DisconnectPlc(TAGs[cursor].plc) \/ DisconnectPlcKilled(TAGs[cursor].plc)
        \/ UNCHANGED linkVars
    BY <1>5 DEF ScanDeletes, ScanKilled
  <2> QED
    BY <2>1, <2>2 DEF LinksNext
<1>6. CASE Shutdown \/ ClientResets \/ TuxTagCrash \/ LinkBreaks
  BY <1>6 DEF Shutdown, ClientResets, TuxTagCrash, LinkBreaks, LinksNext
<1> QED
  BY <1>1, <1>2, <1>3, <1>4, <1>5, <1>6 DEF Next, Scan

(* Every behaviour of tuxtag is, for its links, one of PlcLinks. *)
THEOREM TagUsesLinks == Spec => UsesLinks
<1>1. Init => LinksInit /\ Loop
  BY DEF Init, Loop, Working, Fate
<1>2. Loop /\ [Next]_vars => Loop' /\ [LinksNext]_linkVars
  BY LoopNext, TagLinksStep
<1> QED
  BY <1>1, <1>2, PTL DEF Spec, UsesLinks, LinksSpec

(* So the counters of a running tuxtag are right, whatever is written,     *)
(* read and deleted ...                                                    *)
THEOREM TagCounted ==
    ASSUME ~RegisterMayFail
    PROVE  Spec => []RefCounts
BY TagUsesLinks, LinksCounted, PTL DEF UsesLinks

(* ... and none of its pointers dangles.                                   *)
THEOREM TagDoesNotDangle ==
    ASSUME ~RegisterMayFail, ExactFile
    PROVE  Spec => []NothingDangles
BY TagUsesLinks, LinksDoNotDangle, PTL DEF UsesLinks

-----------------------------------------------------------------------------
(* Types: the variables of the PLCs that can be reached are those of the   *)
(* alias file, whatever block a link is made of.                           *)
LEMMA TagPoints == Spec => []PointersOK
BY TagUsesLinks, LinksPoint, PTL DEF UsesLinks

LEMMA FourOf ==
    ASSUME NEW a, NEW b, NEW c, NEW d
    PROVE  Append(<<a, b, c>>, d) = <<a, b, c, d>>
<1> DEFINE S == {a, b, c, d}
           s == <<a, b, c>>
           r == <<a, b, c, d>>
<1>1. s \in Seq(S) /\ r \in Seq(S) /\ d \in S /\ Len(s) = 3 /\ Len(r) = 4
  OBVIOUS
<1>2. /\ Append(s, d) \in Seq(S) /\ Len(Append(s, d)) = 4
      /\ \A i \in 1 .. 3 : Append(s, d)[i] = s[i]
      /\ Append(s, d)[4] = d
  BY <1>1, AppendProperties
<1>3. \A i \in 1 .. 4 : Append(s, d)[i] = r[i]
  BY <1>2
<1> HIDE DEF s, r, S
<1>4. Append(s, d) = r
  BY <1>1, <1>2, <1>3, SeqEqual
<1> QED
  BY <1>4 DEF s, r

LEMMA VariableIn ==
    ASSUME NEW k \in Tag
    PROVE  /\ VariableOf(k) \in Variable
           /\ PointersOK /\ HasLink(k.plc) => VariableReached(k) \in Variable
<1>1. k.plc \in Plc /\ k.name \in TagName
  BY DEF Tag
<1>2. Append(Address(k.plc), Node[k.plc])
        = <<Ip[k.plc], Path[k.plc], NetWork[k.plc], Node[k.plc]>>
  BY FourOf DEF Address
<1>3. VariableOf(k) \in Variable
  BY <1>1, <1>2 DEF VariableOf, Variable
<1>4. ASSUME PointersOK, HasLink(k.plc) PROVE VariableReached(k) \in Variable
  <2>1. PICK p \in Plc, q \in Plc : Reached(k.plc) = <<Ip[p], Path[q], NetWork[q]>>
    BY <1>1, <1>4, ReachedIn
  <2>2. Append(Reached(k.plc), Node[k.plc]) = <<Ip[p], Path[q], NetWork[q], Node[k.plc]>>
    BY <2>1, FourOf
  <2> QED
    BY <1>1, <2>2 DEF VariableReached, Variable
<1> QED
  BY <1>3, <1>4

Values == /\ age \in [Tag -> 0 .. Old]
          /\ value \in [Tag -> Value]
          /\ reply \in Reply
          /\ memory \in [Variable -> 0 .. MaxChanges]
          /\ acked \in [Tag -> 0 .. MaxChanges]
          /\ late \subseteq Late

LEMMA ReplyIn ==
    ASSUME NEW r \in Request, NEW kind \in {"success", "error"}, NEW v \in Value
    PROVE  ReplyTo(r, kind, v) \in Reply
BY DEF ReplyTo, Reply

LEMMA Nones == NoValue \in Value /\ BadValue \in Value /\ NoReply \in Reply /\ 0 \in 0 .. Old /\ Old \in 0 .. Old
                 /\ Old \in Nat /\ MaxChanges \in Nat
BY TagAssumption DEF Value, Reply, Old

(* A successful read, a read that failed, and a write that was sent. *)
LEMMA ReadDone ==
    ASSUME Loop, PointersOK, Values, ReadTagSucceeds
    PROVE  /\ pc = "ReadTag" /\ pc' = "serve" /\ req \in Request /\ cur \in Tag
           /\ VariableReached(cur) \in Variable
           /\ \E v \in Value :
                 /\ (v = ReadNow /\ CanAnswer(cur.plc)) \/ v \in Crossed
                 /\ value' = [value EXCEPT ![cur] = v]
                 /\ reply' = ReplyTo(req, "success", v)
           /\ age' = [age EXCEPT ![cur] = 0]
           /\ acked' = IF req.write THEN [acked EXCEPT ![cur] = memory[VariableOf(cur)]]
                                    ELSE acked
           /\ late' \subseteq Late
           /\ UNCHANGED <<sent, memory, TAGs, References>>
<1>1. pc = "ReadTag" /\ req \in Request /\ cur \in Tag /\ cur.plc \in Plc
  BY DEF ReadTagSucceeds, Loop, Working, Tag
<1>2. HasLink(cur.plc)
  BY DEF ReadTagSucceeds, Exchange
<1>3. VariableReached(cur) \in Variable
  BY <1>1, <1>2, VariableIn
<1>4. ReadNow \in Value
  <2>1. memory[VariableReached(cur)] \in 0 .. MaxChanges
    BY <1>3 DEF Values
  <2> QED
    BY <1>3, <2>1 DEF ReadNow, Value
<1>5. \E v \in Value : /\ (v = ReadNow /\ CanAnswer(cur.plc)) \/ v \in Crossed
                       /\ value' = [value EXCEPT ![cur] = v]
  <2>1. CASE CanAnswer(cur.plc) /\ value' = [value EXCEPT ![cur] = ReadNow]
    BY <1>4, <2>1
  <2>2. CASE TakesLate(cur.plc) /\ value' = [value EXCEPT ![cur] = CrossedValue]
    <3>1. MaxLate > 0
      BY <1>1, <1>2, <2>2, LateTaken DEF Values
    <3>2. CrossedValue \in Crossed /\ CrossedValue \in Value
      BY <3>1 DEF Crossed, Value
    <3> QED
      BY <2>2, <3>2
  <2> QED
    BY <2>1, <2>2 DEF ReadTagSucceeds
<1>6. late' \subseteq Late
  <2>1. UNCHANGED late \/ TakesLate(cur.plc)
    BY DEF ReadTagSucceeds
  <2> QED
    BY <1>1, <1>2, <2>1, LateTaken DEF Values
<1>7. /\ Answer(ReplyTo(req, "success", value'[cur]))
      /\ age' = [age EXCEPT ![cur] = 0]
      /\ Acknowledge
      /\ UNCHANGED <<sent, memory>>
  BY DEF ReadTagSucceeds
<1>8. PICK v \in Value : /\ (v = ReadNow /\ CanAnswer(cur.plc)) \/ v \in Crossed
                        /\ value' = [value EXCEPT ![cur] = v]
  BY <1>5
<1>9. value'[cur] = v
  BY <1>1, <1>8 DEF Values
<1> QED
  BY <1>1, <1>3, <1>6, <1>7, <1>8, <1>9 DEF Answer, Acknowledge

LEMMA RequestFailed ==
    ASSUME Loop, PointersOK, Values, ReadTagHasNoLink \/ ReadTagFails \/ WriteTagFails
    PROVE  /\ Working /\ pc' = "serve" /\ req \in Request /\ cur \in Tag
           /\ value' = value \/ value' = [value EXCEPT ![cur] = BadValue]
           /\ reply' = ReplyTo(req, "error", NoValue)
           /\ late' \subseteq Late
           /\ UNCHANGED <<age, memory, acked, TAGs, References>>
<1>1. Working /\ req \in Request /\ cur \in Tag /\ cur.plc \in Plc
  BY DEF ReadTagHasNoLink, ReadTagFails, WriteTagFails, Loop, Working, Tag
<1>2. /\ value' = value \/ value' = [value EXCEPT ![cur] = BadValue]
      /\ Answer(ReplyTo(req, "error", NoValue)) /\ UNCHANGED <<age, memory, acked>>
  BY DEF ReadTagHasNoLink, ReadTagFails, WriteTagFails
<1>3. late' \subseteq Late
  <2>1. CASE ReadTagFails \/ WriteTagFails
    <3>1. HasLink(cur.plc)
      BY <2>1 DEF ReadTagFails, WriteTagFails, Exchange
    <3>2. MayComeLate(late, cur.plc) \/ UNCHANGED late \/ TakesLate(cur.plc)
      BY <2>1 DEF ReadTagFails, WriteTagFails
    <3> QED
      BY <1>1, <3>1, <3>2, LateComes, LateTaken DEF Values
  <2>2. CASE ReadTagHasNoLink
    BY <2>2 DEF ReadTagHasNoLink, Values
  <2> QED
    BY <2>1, <2>2
<1> QED
  BY <1>1, <1>2, <1>3 DEF Answer

LEMMA WriteSent ==
    ASSUME Loop, PointersOK, Values, NEW f \in Fate,
           WriteTagSends(f) \/ (f = "crossed" /\ WriteTagCrosses)
    PROVE  /\ pc = "WriteTag" /\ req \in Request /\ cur \in Tag
           /\ VariableReached(cur) \in Variable
           /\ \/ UNCHANGED memory
              \/ /\ memory[VariableReached(cur)] < MaxChanges
                 /\ memory' = [memory EXCEPT ![VariableReached(cur)] = @ + 1]
           /\ \/ /\ f = "crossed" \/ ReportsSuccess(f)
                 /\ pc' = "ReadTag"
                 /\ UNCHANGED <<req, cur, reply>>
              \/ pc' = "serve" /\ reply' = ReplyTo(req, "error", NoValue)
           /\ sent' = f
           /\ late' \subseteq Late
           /\ UNCHANGED <<age, value, acked, TAGs, References>>
<1>1. pc = "WriteTag" /\ req \in Request /\ cur \in Tag /\ cur.plc \in Plc
  BY DEF WriteTagSends, WriteTagCrosses, Loop, Working, Tag
<1>2. HasLink(cur.plc)
  BY DEF WriteTagSends, WriteTagCrosses, Exchange
<1>3. VariableReached(cur) \in Variable
  BY <1>1, <1>2, VariableIn
<1>4. /\ \/ UNCHANGED memory
         \/ /\ memory[VariableReached(cur)] < MaxChanges
            /\ memory' = [memory EXCEPT ![VariableReached(cur)] = @ + 1]
      /\ sent' = f /\ UNCHANGED <<age, value, acked>>
  BY DEF WriteTagSends, WriteTagCrosses
<1>5. /\ \/ /\ f = "crossed" \/ ReportsSuccess(f)
            /\ pc' = "ReadTag"
            /\ UNCHANGED <<req, cur, reply>>
         \/ pc' = "serve" /\ reply' = ReplyTo(req, "error", NoValue)
      /\ UNCHANGED <<TAGs, References>>
  BY DEF WriteTagSends, WriteTagCrosses, Answer
<1>6. MayComeLate(late, cur.plc) \/ UNCHANGED late \/ TakesLate(cur.plc)
  BY DEF WriteTagSends, WriteTagCrosses
<1>7. late' \subseteq Late
  BY <1>1, <1>2, <1>6, LateComes, LateTaken DEF Values
<1> QED
  BY <1>1, <1>3, <1>4, <1>5, <1>7

LEMMA ValuesEnd == Values /\ EndTuxTag => Values'
BY Nones DEF Values, EndTuxTag

LEMMA ValuesNext == PointersOK /\ Loop /\ Values /\ [Next]_vars => Values'
<1> SUFFICES ASSUME PointersOK, Loop, Values, [Next]_vars PROVE Values'
  OBVIOUS
<1>1. CASE UNCHANGED vars
  BY <1>1 DEF vars, tagVars, Values
<1>2. ASSUME NEW r \in Request, NEW refresh \in Refresh, Traite(r, refresh)
      PROVE  Values'
  <2>1. /\ UNCHANGED <<age, value, memory, acked, late>>
        /\ reply' = NoReply \/ reply' = ReplyTo(r, "success", value[TagFor(r)])
    BY <1>2, Requested
  <2>2. value[TagFor(r)] \in Value
    BY RequestTag DEF Loop, Values
  <2>3. reply' \in Reply
    BY <2>1, <2>2, ReplyIn, Nones
  <2> QED
    BY <2>1, <2>3 DEF Values
<1>3. CASE ReadTagHasNoLink \/ ReadTagFails \/ WriteTagFails
  <2>1. /\ req \in Request /\ late' \subseteq Late
        /\ UNCHANGED <<age, memory, acked>>
        /\ value' = value \/ value' = [value EXCEPT ![cur] = BadValue]
        /\ reply' = ReplyTo(req, "error", NoValue)
    BY <1>3, RequestFailed
  <2>2. reply' \in Reply
    BY <2>1, ReplyIn, Nones
  <2>3. value' \in [Tag -> Value]
    BY <2>1, Nones DEF Values
  <2> QED
    BY <2>1, <2>2, <2>3 DEF Values
<1>4. CASE ReadTagSucceeds
  <2>1. /\ req \in Request /\ cur \in Tag /\ VariableReached(cur) \in Variable
        /\ age' = [age EXCEPT ![cur] = 0]
        /\ acked' = IF req.write THEN [acked EXCEPT ![cur] = memory[VariableOf(cur)]]
                                 ELSE acked
        /\ late' \subseteq Late
        /\ UNCHANGED memory
    BY <1>4, ReadDone
  <2>2. memory[VariableOf(cur)] \in 0 .. MaxChanges
    BY <2>1, VariableIn DEF Values
  <2>3. PICK v \in Value : /\ value' = [value EXCEPT ![cur] = v]
                          /\ reply' = ReplyTo(req, "success", v)
    BY <1>4, ReadDone
  <2>4. reply' \in Reply
    BY <2>1, <2>3, ReplyIn
  <2>5. age' \in [Tag -> 0 .. Old]
    BY <2>1, Nones DEF Values
  <2>6. value' \in [Tag -> Value]
    BY <2>1, <2>3 DEF Values
  <2>7. acked' \in [Tag -> 0 .. MaxChanges]
    BY <2>1, <2>2 DEF Values
  <2> QED
    BY <2>1, <2>4, <2>5, <2>6, <2>7 DEF Values
<1>5. ASSUME NEW f \in Fate, WriteTagSends(f) \/ (f = "crossed" /\ WriteTagCrosses)
      PROVE  Values'
  <2>1. /\ req \in Request /\ VariableReached(cur) \in Variable
        /\ \/ UNCHANGED memory
           \/ /\ memory[VariableReached(cur)] < MaxChanges
              /\ memory' = [memory EXCEPT ![VariableReached(cur)] = @ + 1]
        /\ reply' = reply \/ reply' = ReplyTo(req, "error", NoValue)
        /\ late' \subseteq Late
        /\ UNCHANGED <<age, value, acked>>
    BY <1>5, WriteSent
  <2>2. reply' \in Reply
    BY <2>1, ReplyIn, Nones DEF Values
  <2>3. memory' \in [Variable -> 0 .. MaxChanges]
    BY <2>1, Nones DEF Values
  <2> QED
    BY <2>1, <2>2, <2>3 DEF Values
<1>6. CASE BuildLink \/ WriteTagHasNoLink \/ ScanKeeps \/ EndScan
  <2>1. UNCHANGED <<age, value, reply, memory, acked, late>>
    BY <1>6 DEF BuildLink, WriteTagHasNoLink, ScanKeeps, EndScan, tagVars
  <2> QED
    BY <2>1 DEF Values
<1>7. CASE BeginScan
  BY <1>7, Nones DEF BeginScan, Values
<1>8. CASE Killed \/ ScanKilled \/ Shutdown \/ ClientResets \/ TuxTagCrash
  BY <1>8, ValuesEnd DEF Killed, ScanKilled, Shutdown, ClientResets, TuxTagCrash
<1>9. CASE ScanDeletes
  <2>1. /\ value' = [value EXCEPT ![TAGs[cursor]] = NoValue]
        /\ age' = [age EXCEPT ![TAGs[cursor]] = Old]
        /\ UNCHANGED <<reply, memory, acked>>
    BY <1>9 DEF ScanDeletes
  <2>2. ClosingLoses \/ UNCHANGED late
    BY <1>9 DEF ScanDeletes
  <2>3. late' \subseteq Late
    BY <2>2, LateLost DEF Values
  <2> QED
    BY <2>1, <2>3, Nones DEF Values
<1>10. CASE Tick
  <2>1. /\ age' = [k \in Tag |-> IF age[k] = Old THEN Old ELSE age[k] + 1]
        /\ reply' = NoReply /\ UNCHANGED <<value, memory, acked, late>>
    BY <1>10 DEF Tick, ReplyIsPast
  <2>2. \A k \in Tag : age[k] \in 0 .. Old
    BY DEF Values
  <2>3. \A k \in Tag : (IF age[k] = Old THEN Old ELSE age[k] + 1) \in 0 .. Old
    BY <2>2, Nones
  <2>4. age' \in [Tag -> 0 .. Old]
    BY <2>1, <2>3
  <2> QED
    BY <2>1, <2>4, Nones DEF Values
<1>11. ASSUME NEW v \in Variable, PlcChanges(v) PROVE Values'
  <2>1. /\ memory[v] < MaxChanges /\ memory' = [memory EXCEPT ![v] = @ + 1]
        /\ reply' = NoReply /\ UNCHANGED <<age, value, acked, late>>
    BY <1>11 DEF PlcChanges, ReplyIsPast
  <2>2. memory' \in [Variable -> 0 .. MaxChanges]
    BY <2>1, Nones DEF Values
  <2> QED
    BY <2>1, <2>2, Nones DEF Values
<1>12. CASE LinkBreaks
  BY <1>12, Nones DEF LinkBreaks, ReplyIsPast, Values
<1>13. ASSUME WriteTagCrosses PROVE Values'
  BY <1>5, <1>13 DEF Fate
<1> QED
  BY <1>1, <1>2, <1>3, <1>4, <1>5, <1>6, <1>7, <1>8, <1>9, <1>10, <1>11, <1>12, <1>13
     DEF Next, WriteTag, ReadTag, Scan

-----------------------------------------------------------------------------
(* References and the links.  Every session a PLC holds was built for a    *)
(* tag that is in the list, and went with the last one.                    *)
Held == /\ References \in [Plc -> Nat]
        /\ \A p \in Plc : /\ References[p] = Cardinality(Spots(TAGs, p))
                          /\ plcSession[p] # Null => References[p] > 0
        /\ IsInjective(TAGs)
        /\ Working => Among(TAGs, cur)

LEMMA HeldInit == Init => Held
<1> SUFFICES ASSUME Init PROVE Held
  OBVIOUS
<1>1. /\ References = [p \in Plc |-> 0] /\ TAGs = <<>> /\ pc = "serve"
      /\ plcSession = [p \in Plc |-> Null]
  BY DEF Init, LinksInit
<1>2. IsInjective(<<>>)
  BY DEF IsInjective
<1> QED
  BY <1>1, <1>2, NoSpots DEF Held, Working

LEMMA HeldEnd ==
    ASSUME NEW how, EndProcess(how), EndTuxTag
    PROVE  Held'
<1>1. /\ References' = [p \in Plc |-> 0] /\ TAGs' = <<>> /\ pc' \in {"serve", "ended"}
  BY DEF EndTuxTag
<1>2. \A p \in Plc : plcSession'[p] = Null
  BY NoneAfterEnd
<1>3. IsInjective(<<>>)
  BY DEF IsInjective
<1> QED
  BY <1>1, <1>2, <1>3, NoSpots DEF Held, Working

(* The list stays; a session is built for the tag in work, or none is.     *)
LEMMA HeldSame ==
    ASSUME Loop, Held, UNCHANGED <<TAGs, References>>,
           pc' \in {"WriteTag", "ReadTag"} => Working /\ cur' = cur,
           \A p \in Plc : \/ plcSession'[p] = plcSession[p]
                          \/ pc \in {"WriteTag", "ReadTag"} /\ p = cur.plc
    PROVE  Held'
<1>1. \A p \in Plc : plcSession'[p] # Null => References[p] > 0
  <2> TAKE p \in Plc
  <2>1. CASE plcSession'[p] = plcSession[p]
    BY <2>1 DEF Held
  <2>2. CASE Working /\ p = cur.plc
    <3>1. Cardinality(Spots(TAGs, cur.plc)) > 0
      BY <2>2, Counts DEF Held, Loop
    <3> QED
      BY <2>2, <3>1 DEF Held
  <2> QED
    BY <2>1, <2>2 DEF Working
<1> QED
  BY <1>1 DEF Held, Working

LEMMA HeldNext == PointersOK /\ Loop /\ Held /\ [Next]_vars => Held'
<1> SUFFICES ASSUME PointersOK, Loop, Held, [Next]_vars PROVE Held'
  OBVIOUS
<1>1. CASE UNCHANGED vars
  <2>1. UNCHANGED <<TAGs, References, pc, cur, plcSession>>
    BY <1>1 DEF vars, tagVars, linkVars, pointers
  <2> QED
    BY <2>1, HeldSame DEF Working
<1>2. ASSUME NEW r \in Request, NEW refresh \in Refresh, Traite(r, refresh)
      PROVE  Held'
  <2>0. /\ pc = "serve" /\ UNCHANGED plcSession
        /\ IF FoundAt(r.plc, r.name) # {} THEN TAGs' = TAGs /\ References' = References
           ELSE /\ TAGs' = Append(TAGs, TagFor(r))
                /\ References' = [References EXCEPT ![TagFor(r).plc] = @ + 1]
        /\ pc' \in {"WriteTag", "ReadTag"} => cur' = TagFor(r)
    BY <1>2, Requested DEF linkVars, pointers
  <2> DEFINE k == TagFor(r)
  <2>1. /\ TAGs \in Seq(Tag) /\ k \in Tag /\ k.plc \in Plc
        /\ FoundAt(r.plc, r.name) # {} => Among(TAGs, k)
        /\ FoundAt(r.plc, r.name) = {} => ~Among(TAGs, k)
    BY RequestTag DEF Loop, Tag
  <2> HIDE DEF k
  <2>2. CASE FoundAt(r.plc, r.name) # {}
    <3>1. UNCHANGED <<TAGs, References, plcSession>> /\ Among(TAGs, k)
      BY <2>0, <2>1, <2>2
    <3> QED
      BY <2>0, <3>1 DEF Held, Working, k
  <2>3. CASE FoundAt(r.plc, r.name) = {}
    <3>1. /\ TAGs' = Append(TAGs, k)
          /\ References' = [References EXCEPT ![k.plc] = @ + 1]
      BY <2>0, <2>3 DEF k
    <3>2. /\ Among(TAGs', k) /\ IsInjective(TAGs')
          /\ Cardinality(Spots(TAGs', k.plc)) = Cardinality(Spots(TAGs, k.plc)) + 1
          /\ \A p : p # k.plc => Spots(TAGs', p) = Spots(TAGs, p)
      BY <2>1, <2>3, <3>1, Appended DEF Held
    <3>3. References' \in [Plc -> Nat]
      BY <2>1, <3>1 DEF Held
    <3>4. ASSUME NEW p \in Plc
          PROVE  /\ References'[p] = Cardinality(Spots(TAGs', p))
                 /\ plcSession'[p] # Null => References'[p] > 0
      BY <2>0, <2>1, <3>1, <3>2 DEF Held
    <3> QED
      BY <2>0, <3>2, <3>3, <3>4 DEF Held, Working, k
  <2> QED
    BY <2>2, <2>3
<1>3. CASE BuildLink
  <2>1. /\ UNCHANGED <<TAGs, References, pc, cur>> /\ Working /\ cur.plc \in Plc
        /\ BuildSession(cur.plc) \/ BuildConnection(cur.plc)
    BY <1>3 DEF BuildLink, tagVars, Loop, Working, Tag
  <2>2. \A p \in Plc : plcSession'[p] = plcSession[p] \/ p = cur.plc
    BY <2>1, SessionBuilt, ConnectionBuilt
  <2> QED
    BY <2>1, <2>2, HeldSame DEF Working
<1>4. CASE WriteTagHasNoLink \/ ReadTagHasNoLink
  <2>1. cur.plc \in Plc /\ (BuildSessionFails(cur.plc) \/ BuildConnectionFails(cur.plc))
    BY <1>4 DEF WriteTagHasNoLink, ReadTagHasNoLink, HasNoLink, Loop, Working, Tag
  <2>2. UNCHANGED plcSession
    BY <2>1, PointersSame
  <2>3. /\ UNCHANGED <<TAGs, References>>
        /\ pc' \in {"WriteTag", "ReadTag"} => Working /\ cur' = cur
    BY <1>4 DEF WriteTagHasNoLink, ReadTagHasNoLink, Answer, Working
  <2> QED
    BY <2>2, <2>3, HeldSame
<1>5. CASE ReadTagSucceeds \/ ReadTagFails \/ WriteTagFails \/ WriteTagCrosses
           \/ \E f \in Fate : WriteTagSends(f)
  <2>1. cur.plc \in Plc /\ Exchange(cur.plc)
    BY <1>5 DEF ReadTagSucceeds, ReadTagFails, WriteTagFails, WriteTagCrosses, WriteTagSends, Loop,
                Working, Tag
  <2>2. UNCHANGED plcSession
    BY <2>1, PointersSame
  <2>3. /\ UNCHANGED <<TAGs, References>>
        /\ pc' \in {"WriteTag", "ReadTag"} => Working /\ cur' = cur
    BY <1>5 DEF ReadTagSucceeds, ReadTagFails, WriteTagFails, WriteTagCrosses, WriteTagSends, Answer,
                Working
  <2> QED
    BY <2>2, <2>3, HeldSame
<1>6. CASE Killed \/ ScanKilled \/ Shutdown \/ ClientResets \/ TuxTagCrash
  <2>1. PICK how : EndProcess(how)
    BY <1>6 DEF Killed, ScanKilled, Shutdown, ClientResets, TuxTagCrash, KillConnections,
                ReplyKills, Crash, BuildConnectionKilled, ExchangeKilled, DisconnectPlcKilled
  <2>2. EndTuxTag
    BY <1>6 DEF Killed, ScanKilled, Shutdown, ClientResets, TuxTagCrash
  <2> QED
    BY <2>1, <2>2, HeldEnd
<1>7. CASE ScanDeletes
  <2> DEFINE k == TAGs[cursor]
  <2>1. /\ TAGs' = RemoveAt(TAGs, cursor) /\ cursor \in DOMAIN TAGs /\ pc' = "scan"
        /\ References' = [References EXCEPT ![k.plc] = @ - 1]
        /\ IF LastTag(k.plc) THEN DisconnectPlc(k.plc) ELSE UNCHANGED linkVars
    BY <1>7 DEF ScanDeletes
  <2>2. k \in Tag /\ k.plc \in Plc /\ Among(TAGs, k)
    <3>1. k \in Tag
      BY <2>1, Positions DEF Loop
    <3> QED
      BY <2>1, <3>1 DEF Tag, Among
  <2>3. /\ IsInjective(TAGs')
        /\ Cardinality(Spots(TAGs', k.plc)) = Cardinality(Spots(TAGs, k.plc)) - 1
        /\ \A p : p # k.plc => Cardinality(Spots(TAGs', p)) = Cardinality(Spots(TAGs, p))
    BY <2>1, Removed DEF Held, Loop
  <2>4. Cardinality(Spots(TAGs, k.plc)) > 0
    BY <2>2, Counts DEF Loop
  <2> HIDE DEF k
  <2>5. References' \in [Plc -> Nat]
    BY <2>1, <2>2, <2>4 DEF Held
  <2>6. ASSUME NEW p \in Plc
        PROVE  References'[p] = Cardinality(Spots(TAGs', p))
    BY <2>1, <2>2, <2>3 DEF Held
  <2>7. ASSUME NEW p \in Plc, plcSession'[p] # Null
        PROVE  References'[p] > 0
    <3>1. CASE LastTag(k.plc)
      <4>1. p # k.plc /\ plcSession[p] # Null
        BY <2>1, <2>2, <2>7, <3>1, Disconnected
      <4> QED
        BY <2>1, <2>2, <4>1 DEF Held
    <3>2. CASE ~LastTag(k.plc)
      <4>1. plcSession[p] # Null /\ References[k.plc] \in Nat /\ ~(References[k.plc] - 1 <= 0)
        BY <2>1, <2>2, <2>7, <3>2 DEF linkVars, pointers, LastTag, Held
      <4> QED
        BY <2>1, <2>2, <4>1 DEF Held
    <3> QED
      BY <3>1, <3>2
  <2> QED
    BY <2>1, <2>3, <2>5, <2>6, <2>7 DEF Held, Working
<1>8. CASE BeginScan \/ ScanKeeps \/ EndScan \/ Tick \/ \E v \in Variable : PlcChanges(v)
  <2>1. /\ UNCHANGED <<TAGs, References, plcSession>>
        /\ pc' \in {"WriteTag", "ReadTag"} => Working /\ cur' = cur
    BY <1>8 DEF BeginScan, ScanKeeps, EndScan, Tick, PlcChanges, Working, linkVars, pointers
  <2> QED
    BY <2>1, HeldSame
<1>9. CASE LinkBreaks
  <2>1. UNCHANGED <<TAGs, References, pc, cur>>
    BY <1>9 DEF LinkBreaks
  <2>2. UNCHANGED plcSession
    BY <1>9, PointersSame DEF LinkBreaks
  <2> QED
    BY <2>1, <2>2, HeldSame DEF Working
<1> QED
  BY <1>1, <1>2, <1>3, <1>4, <1>5, <1>6, <1>7, <1>8, <1>9
     DEF Next, WriteTag, ReadTag, Scan

LEMMA HeldImplies == Loop /\ Values /\ PointersOK /\ Held => LinksHeldForTags
<1> SUFFICES ASSUME Loop, Values, PointersOK, Held PROVE LinksHeldForTags
  OBVIOUS
<1>1. (cur = NoTag) <=> (pc \notin {"WriteTag", "ReadTag"})
  BY NoTagIsNone DEF Loop, Working
<1>2. TypeOK
  BY <1>1 DEF TypeOK, Loop, Working, Values, Held
<1> QED
  BY <1>2 DEF LinksHeldForTags, PointersOK, Tied, Held, Spots

LEMMA InitTypes == Init => Loop /\ Values
<1>1. Init => Loop
  BY DEF Init, Loop, Working, Fate
<1>2. Init => Values
  BY Nones DEF Init, Values
<1> QED
  BY <1>1, <1>2

(* References counts the tags of each PLC, no tag is twice in the list,    *)
(* and only a PLC with tags holds links, whatever is read, written,        *)
(* refused and deleted, for every alias file and with failing              *)
(* registrations too.                                                      *)
THEOREM TagHoldsLinks == Spec => []LinksHeldForTags
<1>1. Init => Loop /\ Values /\ Held
  BY InitTypes, HeldInit
<1>2. PointersOK /\ Loop /\ Values /\ Held /\ [Next]_vars => Loop' /\ Values' /\ Held'
  BY LoopNext, ValuesNext, HeldNext
<1>3. Loop /\ Values /\ PointersOK /\ Held => LinksHeldForTags
  BY HeldImplies
<1> QED
  BY <1>1, <1>2, <1>3, TagPoints, PTL DEF Spec

-----------------------------------------------------------------------------
(* What clients are told.  The prefix comparison of FindTag and FindPLC    *)
(* must be exact on the names of the file.                                 *)
ExactNames == \A p, q \in Plc : <<p, q>> \in NameStarts => q = p

NamedBy(r) == [plc |-> r.plc, name |-> r.name]

LEMMA ServedFromNamed ==
    ASSUME ExactNames, TAGs \in Seq(Tag), NEW r \in Request
    PROVE  /\ TagFor(r) = NamedBy(r) /\ NamedBy(r) \in Tag
           /\ Among(TAGs, NamedBy(r)) => FindTag(r.plc, r.name) = NamedBy(r)
<1>1. r.plc \in Plc /\ r.name \in TagName /\ NamedBy(r) \in Tag
  BY DEF Request, NamedBy, Tag
<1>2. ASSUME FoundAt(r.plc, r.name) # {} PROVE FindTag(r.plc, r.name) = NamedBy(r)
  <2>1. PICK i \in DOMAIN TAGs : /\ FindTag(r.plc, r.name) = TAGs[i] /\ TAGs[i] \in Tag
                                 /\ TAGs[i].name = r.name /\ <<r.plc, TAGs[i].plc>> \in NameStarts
    BY <1>1, <1>2, FoundIn
  <2>2. TAGs[i].plc \in Plc
    BY <2>1 DEF Tag
  <2>3. TAGs[i].plc = r.plc
    BY <1>1, <2>1, <2>2 DEF ExactNames
  <2> QED
    BY <2>1, <2>3 DEF Tag, NamedBy
<1>3. FindPLC(r.plc) = r.plc
  BY <1>1, NameIn DEF ExactNames
<1>4. TagFor(r) = NamedBy(r)
  BY <1>2, <1>3 DEF TagFor, NamedBy
<1>5. ASSUME Among(TAGs, NamedBy(r)) PROVE FoundAt(r.plc, r.name) # {}
  <2>1. PICK i \in DOMAIN TAGs : TAGs[i] = NamedBy(r)
    BY <1>5 DEF Among
  <2>2. TAGs[i].name = r.name /\ TAGs[i].plc = r.plc
    BY <2>1 DEF NamedBy
  <2>3. i \in FoundAt(r.plc, r.name)
    BY <1>1, <2>2, TagAssumption DEF FoundAt
  <2> QED
    BY <2>3
<1> QED
  BY <1>1, <1>2, <1>4, <1>5

(* What is in the list while it may be served is of its own variable and   *)
(* not older than the last write that was answered, unless a late reply or *)
(* a failed conversion put it there ...                                    *)
Doubtful == Crossed \union {BadValue}
Fresh == \A k \in Tag :
            /\ acked[k] <= memory[VariableOf(k)]
            /\ age[k] < Old => \/ /\ value[k].var = VariableOf(k)
                                  /\ acked[k] <= value[k].change
                               \/ value[k] \in Doubtful

(* ... a request works on the tag it names, and reads after a write only   *)
(* if that write may be called a success ...                               *)
SentWell(r) == sent # "lost" /\ (sent = "refused" => r.plc \notin Logix)

Serving == /\ Working => cur = NamedBy(req)
           /\ pc # "serve" => reply = NoReply
           /\ pc = "WriteTag" => sent = "unsent"
           /\ pc = "ReadTag" => SentWell(req)

(* ... and this is what a success reply says. *)
Tells(r, v) == /\ r \in Request /\ Among(TAGs, NamedBy(r))
               /\ \/ v.var = VariableOf(NamedBy(r)) /\ acked[NamedBy(r)] <= v.change
                  \/ v \in Crossed
                  \/ v = BadValue /\ ~r.write
               /\ r.write => SentWell(r)
Told == reply.kind = "success" => Tells(reply.to, reply.value)

Truth == Fresh /\ Serving /\ Told

LEMMA NoneTold == NoReply.kind # "success"
BY DEF NoReply

LEMMA ReplyFields ==
    ASSUME NEW r, NEW kind, NEW v
    PROVE  /\ ReplyTo(r, kind, v).kind = kind /\ ReplyTo(r, kind, v).to = r
           /\ ReplyTo(r, kind, v).value = v
BY DEF ReplyTo

LEMMA ToldNext ==
    ASSUME reply'.to \in Request, Among(TAGs', NamedBy(reply'.to)),
           \/ /\ reply'.value.var = VariableOf(NamedBy(reply'.to))
              /\ acked'[NamedBy(reply'.to)] <= reply'.value.change
           \/ reply'.value \in Crossed
           \/ reply'.value = BadValue /\ ~reply'.to.write,
           reply'.to.write => sent' # "lost" /\ (sent' = "refused" => reply'.to.plc \notin Logix)
    PROVE  Told'
BY DEF Told, Tells, SentWell, NamedBy, Among

LEMMA TruthInit == Init => Truth
<1> SUFFICES ASSUME Init PROVE Truth
  OBVIOUS
<1>1. /\ memory = [v \in Variable |-> 0] /\ acked = [k \in Tag |-> 0]
      /\ age = [k \in Tag |-> Old] /\ reply = NoReply /\ pc = "serve"
  BY DEF Init
<1>2. Fresh
  BY <1>1, VariableIn, Nones DEF Fresh
<1> QED
  BY <1>1, <1>2, NoneTold DEF Truth, Serving, Told, Working

LEMMA TruthEnd == Truth /\ EndTuxTag => Truth'
<1> SUFFICES ASSUME Truth, EndTuxTag PROVE Truth'
  OBVIOUS
<1>1. /\ UNCHANGED <<memory, acked>> /\ age' = [k \in Tag |-> Old]
      /\ reply' = NoReply /\ pc' \in {"serve", "ended"}
  BY DEF EndTuxTag
<1>2. Fresh'
  BY <1>1, Nones DEF Truth, Fresh
<1> QED
  BY <1>1, <1>2, NoneTold DEF Truth, Serving, Told, Working

(* The values of the list stay, and memory only grows. *)
LEMMA FreshKept ==
    ASSUME Values, Fresh, UNCHANGED <<value, acked>>,
           \A k \in Tag : age'[k] < Old => age[k] < Old,
           \/ UNCHANGED memory
           \/ \E v \in Variable : memory' = [memory EXCEPT ![v] = @ + 1]
    PROVE  Fresh'
<1>1. ASSUME NEW k \in Tag PROVE memory[VariableOf(k)] <= memory'[VariableOf(k)]
  <2>1. VariableOf(k) \in Variable /\ memory[VariableOf(k)] \in Nat
    BY VariableIn, Nones DEF Values
  <2> QED
    BY <2>1 DEF Values
<1>2. ASSUME NEW k \in Tag
      PROVE  memory[VariableOf(k)] \in Nat /\ memory'[VariableOf(k)] \in Int /\ acked[k] \in Nat
  <2>1. VariableOf(k) \in Variable /\ memory[VariableOf(k)] \in Nat /\ acked[k] \in Nat
    BY VariableIn, Nones DEF Values
  <2> QED
    BY <2>1 DEF Values
<1>3. ASSUME NEW k \in Tag PROVE acked[k] <= memory'[VariableOf(k)]
  BY <1>1, <1>2 DEF Fresh
<1> QED
  BY <1>3 DEF Fresh

LEMMA TruthNext ==
    ASSUME ExactNames, PointersOK, RightDevice, Loop, Values, Held, Truth, [Next]_vars
    PROVE  Truth'
<1>1. CASE UNCHANGED vars
  BY <1>1 DEF vars, tagVars, Truth, Fresh, Serving, Told, Tells, SentWell, Working, Among
<1>2. ASSUME NEW r \in Request, NEW refresh \in Refresh, Traite(r, refresh)
      PROVE  Truth'
  <2> DEFINE k == TagFor(r)
  <2>1. /\ pc = "serve" /\ sent' = "unsent"
        /\ UNCHANGED <<age, value, memory, acked>>
        /\ \/ /\ ~r.write /\ age[k] < refresh
              /\ reply' = ReplyTo(r, "success", value[k])
              /\ UNCHANGED <<pc, req, cur>>
           \/ /\ pc' = IF r.write THEN "WriteTag" ELSE "ReadTag"
              /\ req' = r /\ cur' = k /\ reply' = NoReply
    BY <1>2, Requested
  <2>2. k = NamedBy(r) /\ k \in Tag /\ TAGs \in Seq(Tag)
    BY ServedFromNamed DEF Loop
  <2>3. Among(TAGs', k)
    <3>1. CASE FoundAt(r.plc, r.name) # {}
      <4>1. TAGs' = TAGs
        BY <1>2, <3>1, Requested
      <4> QED
        BY <2>2, <3>1, <4>1, RequestTag
    <3>2. CASE FoundAt(r.plc, r.name) = {}
      <4>1. TAGs' = Append(TAGs, k)
        BY <1>2, <3>2, Requested
      <4> QED
        BY <2>2, <4>1, Appended
    <3> QED
      BY <3>1, <3>2
  <2> HIDE DEF k
  <2>4. Fresh'
    BY <2>1, FreshKept DEF Truth
  <2>5. Serving'
    BY <2>1, <2>2 DEF Serving, Working, SentWell
  <2>6. Told'
    <3>1. CASE reply' = NoReply
      BY <3>1, NoneTold DEF Told
    <3>2. CASE reply' = ReplyTo(r, "success", value[k]) /\ ~r.write /\ age[k] < refresh
      <4>1. reply'.to = r /\ reply'.value = value[k]
        BY <3>2, ReplyFields
      <4>2. refresh <= Old /\ refresh \in Nat /\ age[k] \in Nat /\ Old \in Nat
        BY <2>2, TagAssumption, Nones DEF Values, Old
      <4>3. \/ value[k].var = VariableOf(k) /\ acked[k] <= value[k].change
            \/ value[k] \in Doubtful
        BY <2>2, <3>2, <4>2 DEF Truth, Fresh
      <4> QED
        BY <2>1, <2>2, <2>3, <3>2, <4>1, <4>3, ToldNext DEF Doubtful
    <3> QED
      BY <2>1, <3>1, <3>2
  <2> QED
    BY <2>4, <2>5, <2>6 DEF Truth
<1>3. CASE ReadTagHasNoLink \/ ReadTagFails \/ WriteTagFails
  <2>1. /\ UNCHANGED <<age, memory, acked>> /\ pc' = "serve" /\ cur \in Tag
        /\ value' = value \/ value' = [value EXCEPT ![cur] = BadValue]
        /\ reply' = ReplyTo(req, "error", NoValue)
    BY <1>3, RequestFailed
  <2>2. reply'.kind # "success"
    BY <2>1, ReplyFields
  <2>4. \A k \in Tag : value'[k] = value[k] \/ value'[k] = BadValue
    BY <2>1 DEF Values
  <2>3. Fresh'
    BY <2>1, <2>4 DEF Truth, Fresh, Doubtful
  <2> QED
    BY <2>1, <2>2, <2>3 DEF Truth, Serving, Told, Working
<1>4. CASE ReadTagSucceeds
  <2>1. /\ pc = "ReadTag" /\ pc' = "serve" /\ req \in Request /\ cur \in Tag
        /\ VariableReached(cur) \in Variable
        /\ age' = [age EXCEPT ![cur] = 0]
        /\ acked' = IF req.write THEN [acked EXCEPT ![cur] = memory[VariableOf(cur)]]
                                 ELSE acked
        /\ UNCHANGED <<sent, memory, TAGs>>
    BY <1>4, ReadDone
  <2>2. cur = NamedBy(req) /\ SentWell(req) /\ Among(TAGs, cur)
    BY <2>1 DEF Truth, Serving, Working, Held
  <2>10. PICK v \in Value : /\ (v = ReadNow /\ CanAnswer(cur.plc)) \/ v \in Crossed
                           /\ value' = [value EXCEPT ![cur] = v]
                           /\ reply' = ReplyTo(req, "success", v)
    BY <1>4, ReadDone
  <2>3. ASSUME CanAnswer(cur.plc)
        PROVE  ReadNow.var = VariableOf(cur) /\ ReadNow.change = memory[VariableOf(cur)]
    <3>1. cur.plc \in Plc /\ HasLink(cur.plc)
      BY <2>1, <2>3 DEF Tag, CanAnswer
    <3>2. Reached(cur.plc) = Address(cur.plc)
      BY <2>3, <3>1 DEF RightDevice
    <3>3. VariableReached(cur) = VariableOf(cur)
      BY <3>2 DEF VariableReached, VariableOf
    <3> QED
      BY <3>3 DEF ReadNow
  <2>4. /\ memory[VariableOf(cur)] \in Nat /\ acked[cur] \in Nat
        /\ acked[cur] <= memory[VariableOf(cur)]
    BY <2>1, VariableIn, Nones DEF Values, Truth, Fresh
  <2>5. /\ acked'[cur] <= memory[VariableOf(cur)]
        /\ \A k \in Tag \ {cur} : acked'[k] = acked[k]
    BY <2>1, <2>4 DEF Values
  <2>11. \/ v.var = VariableOf(cur) /\ acked'[cur] <= v.change
         \/ v \in Crossed
    BY <2>3, <2>4, <2>5, <2>10
  <2>6. /\ value'[cur] = v
        /\ \A k \in Tag \ {cur} : value'[k] = value[k] /\ age'[k] = age[k]
    BY <2>1, <2>10 DEF Values
  <2>7. Fresh'
    <3> SUFFICES ASSUME NEW k \in Tag
                 PROVE  /\ acked'[k] <= memory[VariableOf(k)]
                        /\ age'[k] < Old => \/ /\ value'[k].var = VariableOf(k)
                                               /\ acked'[k] <= value'[k].change
                                            \/ value'[k] \in Doubtful
      BY <2>1 DEF Fresh, Doubtful
    <3>1. CASE k = cur
      BY <2>4, <2>5, <2>6, <2>11, <3>1 DEF Doubtful
    <3>2. CASE k # cur
      BY <2>5, <2>6, <3>2 DEF Truth, Fresh
    <3> QED
      BY <3>1, <3>2
  <2>8. Told'
    <3>1. reply'.to = req /\ reply'.value = v
      BY <2>10, ReplyFields
    <3>2. /\ Among(TAGs', NamedBy(req))
          /\ sent' # "lost" /\ (sent' = "refused" => req.plc \notin Logix)
      BY <2>1, <2>2 DEF SentWell
    <3> QED
      BY <2>1, <2>2, <2>11, <3>1, <3>2, ToldNext
  <2>9. Serving'
    BY <2>1 DEF Serving, Working
  <2> QED
    BY <2>7, <2>8, <2>9 DEF Truth
<1>5. ASSUME NEW f \in Fate, WriteTagSends(f) \/ (f = "crossed" /\ WriteTagCrosses)
      PROVE  Truth'
  <2>1. /\ pc = "WriteTag" /\ req \in Request /\ cur \in Tag
        /\ VariableReached(cur) \in Variable
        /\ UNCHANGED memory
             \/ memory' = [memory EXCEPT ![VariableReached(cur)] = @ + 1]
        /\ \/ /\ f = "crossed" \/ ReportsSuccess(f)
              /\ pc' = "ReadTag"
              /\ UNCHANGED <<req, cur, reply>>
           \/ pc' = "serve" /\ reply' = ReplyTo(req, "error", NoValue)
        /\ sent' = f
        /\ UNCHANGED <<age, value, acked>>
    BY <1>5, WriteSent
  <2>2. Fresh'
    BY <2>1, FreshKept DEF Truth
  <2>3. CASE pc' = "serve" /\ reply' = ReplyTo(req, "error", NoValue)
    <3>1. reply'.kind # "success"
      BY <2>3, ReplyFields
    <3> QED
      BY <2>2, <2>3, <3>1 DEF Truth, Serving, Told, Working
  <2>4. CASE /\ f = "crossed" \/ ReportsSuccess(f)
             /\ pc' = "ReadTag" /\ UNCHANGED <<req, cur, reply>>
    <3>1. cur = NamedBy(req) /\ reply = NoReply
      BY <2>1 DEF Truth, Serving, Working
    <3>2. SentWell(req)'
      BY <2>1, <2>4, <3>1 DEF SentWell, ReportsSuccess, NamedBy
    <3>3. Serving'
      BY <2>4, <3>1, <3>2 DEF Serving, Working
    <3>4. Told'
      BY <2>4, <3>1, NoneTold DEF Told
    <3> QED
      BY <2>2, <3>3, <3>4 DEF Truth
  <2> QED
    BY <2>1, <2>3, <2>4
<1>6. CASE BuildLink
  BY <1>6 DEF BuildLink, tagVars, Truth, Fresh, Serving, Told, Tells, SentWell, Working, Among
<1>7. CASE WriteTagHasNoLink
  <2>1. /\ pc = "WriteTag" /\ pc' = "ReadTag"
        /\ UNCHANGED <<req, cur, age, value, reply, sent, memory, acked>>
    BY <1>7 DEF WriteTagHasNoLink
  <2>2. reply = NoReply /\ sent = "unsent" /\ cur = NamedBy(req)
    BY <2>1 DEF Truth, Serving, Working
  <2>3. Fresh'
    BY <2>1, FreshKept DEF Truth
  <2> QED
    BY <2>1, <2>2, <2>3, NoneTold DEF Truth, Serving, Told, Working, SentWell
<1>8. CASE Killed \/ ScanKilled \/ Shutdown \/ ClientResets \/ TuxTagCrash
  BY <1>8, TruthEnd DEF Killed, ScanKilled, Shutdown, ClientResets, TuxTagCrash
<1>9. CASE ScanDeletes
  <2>1. /\ pc = "scan" /\ pc' = "scan" /\ UNCHANGED <<reply, memory, acked>>
        /\ value' = [value EXCEPT ![TAGs[cursor]] = NoValue]
        /\ age' = [age EXCEPT ![TAGs[cursor]] = Old]
    BY <1>9 DEF ScanDeletes
  <2>2. reply = NoReply
    BY <2>1 DEF Truth, Serving
  <2>3. \A k \in Tag : age'[k] < Old => age'[k] = age[k] /\ value'[k] = value[k]
    BY <2>1, Nones DEF Values
  <2>4. Fresh'
    BY <2>1, <2>3 DEF Truth, Fresh
  <2> QED
    BY <2>1, <2>2, <2>4, NoneTold DEF Truth, Serving, Told, Working
<1>10. CASE BeginScan \/ ScanKeeps \/ EndScan
  <2>1. /\ UNCHANGED <<age, value, memory, acked>> /\ pc' \in {"scan", "serve"}
        /\ reply' = NoReply \/ (pc = "scan" /\ reply' = reply)
    BY <1>10 DEF BeginScan, ScanKeeps, EndScan
  <2>2. reply' = NoReply
    BY <2>1 DEF Truth, Serving
  <2>3. Fresh'
    BY <2>1, FreshKept DEF Truth
  <2> QED
    BY <2>1, <2>2, <2>3, NoneTold DEF Truth, Serving, Told, Working
<1>11. CASE Tick
  <2>1. /\ age' = [k \in Tag |-> IF age[k] = Old THEN Old ELSE age[k] + 1]
        /\ reply' = NoReply /\ UNCHANGED <<pc, req, cur, value, memory, acked>>
        /\ sent' = IF pc = "serve" THEN "unsent" ELSE sent
    BY <1>11 DEF Tick, ReplyIsPast
  <2>2. \A k \in Tag : age[k] \in 0 .. Old
    BY DEF Values
  <2>3. \A k \in Tag : age'[k] < Old => age[k] < Old
    BY <2>1, <2>2, Nones
  <2>4. Fresh'
    BY <2>1, <2>3, FreshKept DEF Truth
  <2> QED
    BY <2>1, <2>4, NoneTold DEF Truth, Serving, Told, Working, SentWell
<1>12. ASSUME NEW v \in Variable, PlcChanges(v) PROVE Truth'
  <2>1. /\ memory' = [memory EXCEPT ![v] = @ + 1]
        /\ UNCHANGED <<pc, req, cur, age, value, acked>>
        /\ reply' = NoReply /\ sent' = IF pc = "serve" THEN "unsent" ELSE sent
    BY <1>12 DEF PlcChanges, ReplyIsPast
  <2>2. Fresh'
    BY <2>1, FreshKept DEF Truth
  <2> QED
    BY <2>1, <2>2, NoneTold DEF Truth, Serving, Told, SentWell, Working
<1>13. CASE LinkBreaks
  <2>1. /\ UNCHANGED <<pc, req, cur, age, value, memory, acked>>
        /\ reply' = NoReply /\ sent' = IF pc = "serve" THEN "unsent" ELSE sent
    BY <1>13 DEF LinkBreaks, ReplyIsPast
  <2>2. Fresh'
    BY <2>1, FreshKept DEF Truth
  <2> QED
    BY <2>1, <2>2, NoneTold DEF Truth, Serving, Told, SentWell, Working
<1>14. ASSUME WriteTagCrosses PROVE Truth'
  BY <1>5, <1>14 DEF Fate
<1> QED
  BY <1>1, <1>2, <1>3, <1>4, <1>5, <1>6, <1>7, <1>8, <1>9, <1>10, <1>11, <1>12, <1>13, <1>14
     DEF Next, WriteTag, ReadTag, Scan

LEMMA TruthImplies ==
    ASSUME ExactNames, Loop, Values, Truth
    PROVE  ReplyIsTruthful /\ ReadsSeeWrites
<1> SUFFICES ASSUME reply # NoReply, reply.kind = "success"
             PROVE  /\ \/ /\ reply.value.var = VariableOf(NamedBy(reply.to))
                          /\ reply.value.change >= acked[FindTag(reply.to.plc, reply.to.name)]
                       \/ reply.value \in Crossed
                       \/ reply.value = BadValue /\ ~reply.to.write
                    /\ reply.to.write => SentWell(reply.to)
  BY DEF ReplyIsTruthful, ReadsSeeWrites, NamedBy, SentWell
<1>1. Tells(reply.to, reply.value)
  BY DEF Truth, Told
<1>2. FindTag(reply.to.plc, reply.to.name) = NamedBy(reply.to) /\ NamedBy(reply.to) \in Tag
  BY <1>1, ServedFromNamed DEF Tells, Loop
<1>3. acked[NamedBy(reply.to)] \in Int /\ reply.value.change \in Int
  <2>1. reply.value \in Value
    BY DEF Values, Reply
  <2>2. ASSUME NEW v \in Value PROVE v.change \in Int
    <3>1. \A what : NotRead(what).change = 0
      BY DEF NotRead
    <3>2. v \in {NoValue, BadValue, CrossedValue} \/ v \in [var : Variable, change : 0 .. MaxChanges]
      BY DEF Value, Crossed
    <3>3. v.change = 0 \/ v.change \in 0 .. MaxChanges
      BY <3>1, <3>2 DEF NoValue, BadValue, CrossedValue
    <3> QED
      BY <3>3, Nones
  <2>3. acked[NamedBy(reply.to)] \in Int
    BY <1>2, Nones DEF Values
  <2> QED
    BY <2>1, <2>2, <2>3
<1> QED
  BY <1>1, <1>2, <1>3 DEF Tells

LEMMA TruthAlways ==
    ASSUME ~RegisterMayFail, ExactFile, ExactNames
    PROVE  Spec => [](ReplyIsTruthful /\ ReadsSeeWrites)
<1>1. Init => Loop /\ Values /\ Held /\ Truth
  BY InitTypes, HeldInit, TruthInit
<1>2. PointersOK /\ RightDevice /\ Loop /\ Values /\ Held /\ Truth /\ [Next]_vars
        => Loop' /\ Values' /\ Held' /\ Truth'
  BY LoopNext, ValuesNext, HeldNext, TruthNext
<1>3. Loop /\ Values /\ Truth => ReplyIsTruthful /\ ReadsSeeWrites
  BY TruthImplies
<1>4. Spec => []RightDevice
  BY TagUsesLinks, LinksReachTheirDevice, PTL DEF UsesLinks
<1> QED
  BY <1>1, <1>2, <1>3, <1>4, TagPoints, PTL DEF Spec

(* A success reply carries the value of the variable the client named, or *)
(* what a late reply or a failed conversion left; one to a write never the *)
(* latter, and it never hides a write that was lost, nor one a Logix       *)
(* refused.                                                                *)
THEOREM TagTellsTheTruth ==
    ASSUME ~RegisterMayFail, ExactFile, ExactNames
    PROVE  Spec => []ReplyIsTruthful
BY TruthAlways, PTL

(* And after a write that was answered with success no read of the tag,    *)
(* buffered or not, gives a value from before it, whatever else the PLC,   *)
(* the other clients and the inactivity check do in between, with the same *)
(* two exceptions.                                                         *)
THEOREM ReadsDoSeeWrites ==
    ASSUME ~RegisterMayFail, ExactFile, ExactNames
    PROVE  Spec => []ReadsSeeWrites
BY TruthAlways, PTL

=============================================================================
