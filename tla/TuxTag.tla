------------------------------- MODULE TuxTag -------------------------------
(***************************************************************************)
(* The tuxtag daemon: tuxreader's loop with JSON requests that read a tag, *)
(* with the age of the value the client accepts (timerefresh), or write    *)
(* one.  A write reads the tag to learn its type, sends the value, and     *)
(* reads the tag again for the reply.                                      *)
(*                                                                         *)
(* The clients are abstracted: any number of requests is served between    *)
(* two inactivity checks.  A PLC's variable is the number of times it has  *)
(* changed, so that a value read from it tells how old it is.              *)
(***************************************************************************)
EXTENDS LateReplies, Sequences, SequencesExt

CONSTANTS
    NameStarts,     \* <<q, p>> : the PlcName of q starts with the one of p
    Node,           \* per PLC: plc->Node, sent with every DH+ request
    TagName,        \* the tag names, as strcasecmp tells them apart
    Integers,       \* those of integer variables
    Unwritable,     \* those of a type WriteTag has no case for
    Changing,       \* the PLCs that clients, and their programs, write to
    Refresh,        \* the timerefresh of the read requests
    INACTIVITY_TO,
    MaxChanges      \* bound: the changes of one variable that are followed

ASSUME TagAssumption ==
    /\ NameStarts \subseteq Plc \X Plc
    /\ \A p \in Plc : <<p, p>> \in NameStarts
    /\ Integers \subseteq TagName /\ Unwritable \subseteq TagName
    /\ Changing \subseteq Plc
    /\ Refresh \subseteq Nat /\ INACTIVITY_TO \in Nat /\ MaxChanges \in Nat
    /\ \A r \in Refresh : r <= INACTIVITY_TO + 1

VARIABLES
    pc,             \* "serve", "WriteTag", "ReadTag", "scan", "ended"
    req,            \* the request being served
    cur,            \* the TAG it is served from
    cursor,         \* position in TAGs of the inactivity check
    TAGs,           \* the list TAGs
    age,            \* now - tag->Time_Value, up to Old
    value,          \* tag->Value
    References,     \* plc->References
    reply,          \* the last reply
    sent,           \* what became of the last write, until time passes (ghost)
    memory,         \* the variables of the PLCs: their number of changes
    acked           \* per TAG, what the last successful write left there (ghost)

tagVars == <<pc, req, cur, cursor, TAGs, age, value, References, reply, sent,
             memory, acked, late>>
vars == <<linkVars, tagVars>>

Tag == [plc : Plc, name : TagName]
Old == INACTIVITY_TO + 1
NoTag == [plc |-> 0]

Variable == [at : {<<Ip[p], Path[q], NetWork[q], Node[r]>> : p, q, r \in Plc},
             name : TagName]
VariableOf(k) == [at |-> Append(Address(k.plc), Node[k.plc]), name |-> k.name]
VariableReached(k) == [at |-> Append(Reached(k.plc), Node[k.plc]), name |-> k.name]

(* A value is the variable and the change it was read after; NoValue the 0 *)
(* of a new TAG, BadValue what a failed conversion left, CrossedValue what *)
(* the late reply of another connection was taken for.                     *)
NotRead(what) == [var |-> [at |-> <<>>, name |-> what], change |-> 0]
NoValue == NotRead("no value")
BadValue == NotRead("bad value")
CrossedValue == NotRead("crossed value")
Crossed == IF MaxLate > 0 THEN {CrossedValue} ELSE {}
Value == {NoValue, BadValue} \union Crossed
           \union [var : Variable, change : 0 .. MaxChanges]

NoReply == [kind |-> "none"]
Request == [plc : Plc, name : TagName, write : BOOLEAN]
Reply == {NoReply} \union [kind : {"success", "error"}, to : Request, value : Value]

(* "unsent": no write request has left; "lost": it left and nothing tells  *)
(* what became of it; "refused": the PLC answered with an error status;    *)
(* "wrong": it stored something else; "done": it stored the value;         *)
(* "crossed": WriteTag took the late reply of another connection for one   *)
(* of its own, and the PLC stored the value, something else or nothing.    *)
Fate == {"unsent", "lost", "refused", "wrong", "done", "crossed"}
-----------------------------------------------------------------------------
Init ==
    /\ LinksInit
    /\ pc = "serve"
    /\ req = NoTag /\ cur = NoTag
    /\ cursor = 0
    /\ TAGs = <<>>
    /\ age = [k \in Tag |-> Old]
    /\ value = [k \in Tag |-> NoValue]
    /\ References = [p \in Plc |-> 0]
    /\ reply = NoReply
    /\ sent = "unsent"
    /\ memory = [v \in Variable |-> 0]
    /\ acked = [k \in Tag |-> 0]
    /\ late = {}

(* The end of the process, or its first state after execv; the PLCs stay.  *)
EndTuxTag ==
    /\ pc' = IF daemon' = "up" THEN "serve" ELSE "ended"
    /\ req' = NoTag /\ cur' = NoTag
    /\ cursor' = 0
    /\ TAGs' = <<>>
    /\ age' = [k \in Tag |-> Old]
    /\ value' = [k \in Tag |-> NoValue]
    /\ References' = [p \in Plc |-> 0]
    /\ reply' = NoReply
    /\ sent' = "unsent" /\ late' = {}
    /\ UNCHANGED <<memory, acked>>
-----------------------------------------------------------------------------
FindPLC(p) == First({q \in Plc : <<p, q>> \in NameStarts})

FoundAt_AnyPlc(p, t) == {i \in DOMAIN TAGs : TAGs[i].name = t}

(* The positions in TAGs where FindTag sees a match: the whole name here. *)
FoundAt(p, t) == {i \in DOMAIN TAGs : /\ TAGs[i].name = t
                                      /\ <<p, TAGs[i].plc>> \in NameStarts}
FindTag(p, t) == TAGs[First(FoundAt(p, t))]

ReplyTo(r, kind, v) == [kind |-> kind, to |-> r, value |-> v]

(* Traite, up to the reply or to the first call that may block; refresh is *)
(* the timerefresh of a read.                                              *)
Traite(r, refresh) ==
    /\ pc = "serve"
    /\ r.write => r.plc \in Changing
    /\ LET known == FoundAt(r.plc, r.name) # {}
           k == IF known THEN FindTag(r.plc, r.name)
                         ELSE [plc |-> FindPLC(r.plc), name |-> r.name]
       IN /\ TAGs' = IF known THEN TAGs ELSE Append(TAGs, k)
          /\ References' = IF known THEN References
                           ELSE [References EXCEPT ![k.plc] = @ + 1]
          /\ IF ~r.write /\ age[k] < refresh
             THEN /\ reply' = ReplyTo(r, "success", value[k])
                  /\ UNCHANGED <<pc, req, cur>>
             ELSE /\ pc' = IF r.write THEN "WriteTag" ELSE "ReadTag"
                  /\ req' = r /\ cur' = k
                  /\ reply' = NoReply
    /\ sent' = "unsent"
    /\ UNCHANGED <<linkVars, cursor, age, value, memory, acked, late>>

Answer(r) == /\ pc' = "serve" /\ reply' = r
             /\ req' = NoTag /\ cur' = NoTag
             /\ UNCHANGED <<cursor, TAGs, References>>

-----------------------------------------------------------------------------
(* The links, which ReadTag and WriteTag build alike. *)
BuildLink ==
    /\ pc \in {"WriteTag", "ReadTag"}
    /\ BuildSession(cur.plc) \/ BuildConnection(cur.plc)
    /\ UNCHANGED tagVars

HasNoLink == BuildSessionFails(cur.plc) \/ BuildConnectionFails(cur.plc)

ReadTagHasNoLink ==
    /\ pc = "ReadTag"
    /\ HasNoLink
    /\ Answer(ReplyTo(req, "error", NoValue))
    /\ UNCHANGED <<age, value, sent, memory, acked, late>>

(* WriteTag returns 0 when it has no link; 0 is also its SUCCESS, and      *)
(* Traite goes on to ReadTag.                                              *)
WriteTagHasNoLink ==
    /\ pc = "WriteTag"
    /\ HasNoLink
    /\ pc' = "ReadTag"
    /\ UNCHANGED <<req, cur, cursor, TAGs, age, value, References, reply,
                   sent, memory, acked, late>>

Killed ==
    /\ pc \in {"WriteTag", "ReadTag"}
    /\ BuildConnectionKilled(cur.plc) \/ ExchangeKilled(cur.plc)
    /\ EndTuxTag

-----------------------------------------------------------------------------
(* The success reply of a write tells the client what is there now. *)
Acknowledge == acked' = IF req.write
                        THEN [acked EXCEPT ![cur] = memory[VariableOf(cur)]]
                        ELSE acked

(* What the variable the request reaches holds. *)
ReadNow == [var |-> VariableReached(cur), change |-> memory[VariableReached(cur)]]

ReadTagSucceeds_KeepsValue ==
    /\ pc = "ReadTag"
    /\ Exchange(cur.plc) /\ CanAnswer(cur.plc)
    /\ value' = [value EXCEPT ![cur] = IF age[cur] < Old THEN @ ELSE ReadNow]
    /\ Answer(ReplyTo(req, "success", ReadNow))
    /\ age' = [age EXCEPT ![cur] = 0]
    /\ Acknowledge
    /\ UNCHANGED <<sent, memory, late>>

ReadTagSucceeds ==
    /\ pc = "ReadTag"
    /\ Exchange(cur.plc)
    /\ \/ /\ CanAnswer(cur.plc) /\ UNCHANGED late
          /\ value' = [value EXCEPT ![cur] = ReadNow]
       \/ /\ TakesLate(cur.plc)
          /\ value' = [value EXCEPT ![cur] = CrossedValue]
    /\ Answer(ReplyTo(req, "success", value'[cur]))
    /\ age' = [age EXCEPT ![cur] = 0]
    /\ Acknowledge
    /\ UNCHANGED <<sent, memory>>

(* No answer, or an error status; or an answer of a type without a         *)
(* conversion, which is stored in tag->Value all the same and stays there  *)
(* with the Time_Value of the value before.                                *)
ReadTagFails ==
    /\ pc = "ReadTag"
    /\ Exchange(cur.plc)
    /\ \/ MayComeLate(late, cur.plc) /\ UNCHANGED value
       \/ /\ (CanAnswer(cur.plc) /\ UNCHANGED late) \/ TakesLate(cur.plc)
          /\ value' = [value EXCEPT ![cur] = BadValue]
    /\ Answer(ReplyTo(req, "error", NoValue))
    /\ UNCHANGED <<age, sent, memory, acked>>

(* WriteTag has sent the value and has a result: fate is what became of    *)
(* the request.  WriteLgxData answers a positive number for a stored value *)
(* and E_Error otherwise; WritePLCData answers the status of the reply,    *)
(* which is positive for a refusal too, and E_Error only for no reply.     *)
ReportsSuccess(fate) == \/ fate \in {"done", "wrong"}
                        \/ fate = "refused" /\ cur.plc \notin Logix

(* A PLC5 or SLC integer receives the bytes of the float. *)
Stored == IF cur.plc \notin Logix /\ cur.name \in Integers THEN "wrong" ELSE "done"

WriteTagSends(fate) ==
    /\ pc = "WriteTag"
    /\ cur.plc \in Logix => cur.name \notin Unwritable
    /\ Exchange(cur.plc) /\ CanAnswer(cur.plc)
    /\ sent' = fate
    /\ LET v == VariableReached(cur)
           stores == [memory EXCEPT ![v] = @ + 1]
       IN \/ /\ fate = Stored /\ memory[v] < MaxChanges
             /\ memory' = stores
          \/ /\ fate = "lost" /\ memory[v] < MaxChanges
             /\ memory' = stores
          \/ fate \in {"refused", "lost"} /\ UNCHANGED memory
    /\ IF ReportsSuccess(fate)
       THEN /\ pc' = "ReadTag"
            /\ UNCHANGED <<req, cur, cursor, TAGs, References, reply>>
       ELSE Answer(ReplyTo(req, "error", NoValue))
    /\ IF fate = "lost" THEN MayComeLate(late, cur.plc) ELSE UNCHANGED late
    /\ UNCHANGED <<age, value, acked>>

(* The read that tells the type, or the write, is answered by a late reply *)
(* and goes on: with that reply's type, or as if the value were stored.    *)
WriteTagCrosses ==
    /\ pc = "WriteTag"
    /\ Exchange(cur.plc) /\ TakesLate(cur.plc)
    /\ sent' = "crossed"
    /\ LET v == VariableReached(cur) IN
         \/ UNCHANGED memory
         \/ CanAnswer(cur.plc) /\ memory[v] < MaxChanges
              /\ memory' = [memory EXCEPT ![v] = @ + 1]
    /\ \/ Answer(ReplyTo(req, "error", NoValue))
       \/ pc' = "ReadTag" /\ UNCHANGED <<req, cur, cursor, TAGs, References, reply>>
    /\ UNCHANGED <<age, value, acked>>

(* The first read of WriteTag fails, or has a type it has no case for. *)
WriteTagFails ==
    /\ pc = "WriteTag"
    /\ Exchange(cur.plc)
    /\ MayComeLate(late, cur.plc)
    /\ Answer(ReplyTo(req, "error", NoValue))
    /\ UNCHANGED <<age, value, sent, memory, acked>>

(* The last reply, and what became of its write, are kept for one step. *)
ReplyIsPast == /\ reply' = NoReply
               /\ sent' = IF pc = "serve" THEN "unsent" ELSE sent

(* The program of a PLC changes a variable. *)
PlcChanges(v) ==
    /\ memory[v] < MaxChanges
    /\ \E k \in Tag : k.plc \in Changing /\ v = VariableOf(k)
    /\ memory' = [memory EXCEPT ![v] = @ + 1]
    /\ ReplyIsPast
    /\ UNCHANGED <<linkVars, pc, req, cur, cursor, TAGs, age, value,
                   References, acked, late>>

(* A gateway or a PLC closes, resets or forgets a link. *)
LinkBreaks ==
    /\ OtherSide
    /\ ReplyIsPast
    /\ UNCHANGED <<pc, req, cur, cursor, TAGs, age, value, References, memory,
                   acked, late>>
-----------------------------------------------------------------------------
BeginScan ==
    /\ pc = "serve"
    /\ pc' = "scan" /\ cursor' = 1
    /\ reply' = NoReply /\ sent' = "unsent"
    /\ UNCHANGED <<linkVars, req, cur, TAGs, age, value, References, memory,
                   acked, late>>

Inactive(k) == age[k] > INACTIVITY_TO
LastTag_Never(p) == References[p] - 1 < 0
LastTag(p) == References[p] - 1 <= 0

ScanKeeps ==
    /\ pc = "scan" /\ cursor \in DOMAIN TAGs
    /\ ~Inactive(TAGs[cursor])
    /\ cursor' = cursor + 1
    /\ UNCHANGED <<linkVars, pc, req, cur, TAGs, age, value, References,
                   reply, sent, memory, acked, late>>

(* The element behind a deleted one is skipped, as in tuxreader. *)
ScanDeletes ==
    /\ pc = "scan" /\ cursor \in DOMAIN TAGs
    /\ Inactive(TAGs[cursor])
    /\ LET k == TAGs[cursor] IN
         /\ TAGs' = RemoveAt(TAGs, cursor)
         /\ cursor' = cursor + 1
         /\ value' = [value EXCEPT ![k] = NoValue]
         /\ age' = [age EXCEPT ![k] = Old]
         /\ References' = [References EXCEPT ![k.plc] = @ - 1]
         /\ IF LastTag(k.plc) THEN DisconnectPlc(k.plc) /\ ClosingLoses
                             ELSE UNCHANGED <<linkVars, late>>
    /\ UNCHANGED <<pc, req, cur, reply, sent, memory, acked>>

ScanKilled ==
    /\ pc = "scan" /\ cursor \in DOMAIN TAGs
    /\ LET k == TAGs[cursor] IN
         /\ Inactive(k) /\ LastTag(k.plc)
         /\ DisconnectPlcKilled(k.plc)
    /\ EndTuxTag

EndScan ==
    /\ pc = "scan" /\ cursor \notin DOMAIN TAGs
    /\ pc' = "serve" /\ cursor' = 0
    /\ UNCHANGED <<linkVars, req, cur, TAGs, age, value, References, reply,
                   sent, memory, acked, late>>

(* SigHand only sets Terminated, which is read at the top of the main loop *)
(* and by Gardian: a signal is the choice to stop there.                   *)
Shutdown_NoKillConnections ==
    /\ pc = "serve"
    /\ daemon' = "stopped"
    /\ UNCHANGED <<pointers, sessionVars, sState, connVars, cUp, corrupt,
                   orphans>>
    /\ EndTuxTag
Shutdown == pc = "serve" /\ KillConnections /\ EndTuxTag

(* A client that resets its socket before it is answered. *)
ClientResets == pc \in {"WriteTag", "ReadTag"} /\ ReplyKills /\ EndTuxTag

Tick ==
    /\ pc \in {"serve", "WriteTag", "ReadTag"}
    /\ age' = [k \in Tag |-> IF age[k] = Old THEN Old ELSE age[k] + 1]
    /\ age' # age
    /\ ReplyIsPast
    /\ UNCHANGED <<linkVars, pc, req, cur, cursor, TAGs, value, References,
                   memory, acked, late>>

TuxTagCrash == Crash /\ EndTuxTag

-----------------------------------------------------------------------------
WriteTag == \/ WriteTagHasNoLink \/ WriteTagFails \/ WriteTagCrosses
            \/ \E f \in Fate : WriteTagSends(f)
ReadTag == ReadTagHasNoLink \/ ReadTagSucceeds \/ ReadTagFails
Scan == BeginScan \/ ScanKeeps \/ ScanDeletes \/ ScanKilled \/ EndScan

Next == \/ \E r \in Request, refresh \in Refresh : Traite(r, refresh)
        \/ BuildLink \/ WriteTag \/ ReadTag \/ Killed
        \/ Scan \/ Shutdown \/ ClientResets \/ Tick \/ TuxTagCrash
        \/ \E v \in Variable : PlcChanges(v)
        \/ LinkBreaks

Spec == Init /\ [][Next]_vars

-----------------------------------------------------------------------------
(* The types of the daemon's own variables, and that a request and its TAG *)
(* are held exactly while they are served.                                 *)
TypeOK ==
    /\ pc \in {"serve", "WriteTag", "ReadTag", "scan", "ended"}
    /\ req \in Request \union {NoTag} /\ cur \in Tag \union {NoTag}
    /\ (cur = NoTag) <=> (pc \notin {"WriteTag", "ReadTag"})
    /\ cursor \in Nat
    /\ TAGs \in Seq(Tag)
    /\ age \in [Tag -> 0 .. Old]
    /\ value \in [Tag -> Value]
    /\ References \in [Plc -> Nat]
    /\ reply \in Reply
    /\ sent \in Fate
    /\ memory \in [Variable -> 0 .. MaxChanges]
    /\ acked \in [Tag -> 0 .. MaxChanges]
    /\ late \subseteq Late

(* plc->References is the number of TAGs of the PLC, no TAG is twice in    *)
(* the list, and a PLC without TAGs holds no link, whatever writes, reads  *)
(* and deletions failed before.                                            *)
LinksHeldForTags ==
    /\ TypeOK
    /\ \A p \in Plc :
          /\ References[p] = Cardinality({i \in DOMAIN TAGs : TAGs[i].plc = p})
          /\ plcSession[p] # Null => References[p] > 0
          /\ plcConn[p] # Null => plcSession[p] # Null
    /\ IsInjective(TAGs)

(* A value in a success reply is of the variable the client named, whether *)
(* it came from the PLC or from the list, unless a reply was late or the   *)
(* list held what a failed conversion had left there, which no reply to a  *)
(* write gives; and one to a write that was sent is not for a write        *)
(* without answer, nor for one a Logix refused.                            *)
ReplyIsTruthful ==
    reply # NoReply /\ reply.kind = "success" =>
       /\ \/ reply.value.var = VariableOf([plc |-> reply.to.plc, name |-> reply.to.name])
          \/ reply.value \in Crossed
          \/ reply.value = BadValue /\ ~reply.to.write
       /\ reply.to.write => sent # "lost" /\ (sent = "refused" => reply.to.plc \notin Logix)

(* Once a write of a TAG has been answered with success, no later read of  *)
(* that TAG, buffered or not, gives a client a value of it from before.    *)
ReadsSeeWrites ==
    reply # NoReply /\ reply.kind = "success" =>
       \/ reply.value.change >= acked[FindTag(reply.to.plc, reply.to.name)]
       \/ reply.value \in {BadValue} \union Crossed

(* The daemon uses its links as PlcLinks says. *)
UsesLinks == LinksSpec
=============================================================================
