----------------------------- MODULE TuxReader -----------------------------
(***************************************************************************)
(* The tuxreader daemon: one thread that waits in select for its clients,  *)
(* answers their read requests from its list of tags or from the PLC, and  *)
(* after every round deletes the tags nobody has refreshed for a while,    *)
(* with the links of a PLC whose last tag goes.  The links are the ones of *)
(* PlcLinks, the replies that come too late those of LateReplies.          *)
(*                                                                         *)
(* Time is the age of each value: now - Time_Value.  The code compares it  *)
(* with UPDATE_RATE and INACTIVITY_TO only, so the ages above both, the    *)
(* one of a tag never read (Time_Value = 0) included, are all "Old".       *)
(***************************************************************************)
EXTENDS LateReplies, Sequences, SequencesExt

CONSTANTS
    NameStarts,     \* <<q, p>> : the PlcName of q starts with the one of p
    TagName,        \* the tag names clients ask for
    TagStarts,      \* <<t, u>> : tag name t starts with tag name u
    Client,         \* the client sockets
    UPDATE_RATE, INACTIVITY_TO

ASSUME ReaderAssumption ==
    /\ NameStarts \subseteq Plc \X Plc
    /\ \A p \in Plc : <<p, p>> \in NameStarts
    /\ TagStarts \subseteq TagName \X TagName
    /\ \A t \in TagName : <<t, t>> \in TagStarts
    /\ UPDATE_RATE \in Nat /\ INACTIVITY_TO \in Nat

VARIABLES
    pc,             \* "wait" in select, "serve" its result, "ReadTag", "scan"
    CLIENTs,        \* the list CLIENTs
    ready,          \* the clients select reported and the round has not served
    req,            \* the request being served: a PLC name and a tag name
    cur,            \* the TAG it is served from
    cursor,         \* position in TAGs of the inactivity check
    TAGs,           \* the list TAGs
    age,            \* now - tag->Time_Value, up to Old
    value,          \* tag->Value
    References,     \* plc->References
    reply,          \* the last reply
    terminated      \* Terminated

readerVars == <<pc, CLIENTs, ready, req, cur, cursor, TAGs, age, value,
                References, reply, terminated, late>>
vars == <<linkVars, readerVars>>

Tag == [plc : Plc, name : TagName]
Old == IF UPDATE_RATE > INACTIVITY_TO THEN UPDATE_RATE ELSE INACTIVITY_TO + 1
NoTag == [plc |-> 0]            \* no request is being served

(* A value is named by where it was read: a device and a tag in it.        *)
(* NoValue is the 0 of a new TAG, BadValue what a failed conversion left,  *)
(* CrossedValue what the late reply of another connection was taken for.   *)
NoValue == <<"no value">>
BadValue == <<"bad value">>
CrossedValue == <<"crossed value">>
Crossed == IF MaxLate > 0 THEN {CrossedValue} ELSE {}
ValueOf(address, name) == <<address, name>>
Read == {ValueOf(<<Ip[p], Path[q], NetWork[q]>>, t) : p, q \in Plc, t \in TagName}
Value == Read \union {NoValue, BadValue} \union Crossed

NoReply == [kind |-> "none"]
Reply == {NoReply} \union [kind : {"value", "error"}, plc : Plc,
                           name : TagName, value : Value]
-----------------------------------------------------------------------------
Init ==
    /\ LinksInit
    /\ pc = "wait"
    /\ CLIENTs = {} /\ ready = {}
    /\ req = NoTag /\ cur = NoTag
    /\ cursor = 0
    /\ TAGs = <<>>
    /\ age = [k \in Tag |-> Old]
    /\ value = [k \in Tag |-> NoValue]
    /\ References = [p \in Plc |-> 0]
    /\ reply = NoReply
    /\ terminated = FALSE
    /\ late = {}

(* The end of the process, or its first state after execv. *)
EndReader ==
    /\ pc' = IF daemon' = "up" THEN "wait" ELSE "ended"
    /\ CLIENTs' = {} /\ ready' = {}
    /\ req' = NoTag /\ cur' = NoTag
    /\ cursor' = 0
    /\ TAGs' = <<>>
    /\ age' = [k \in Tag |-> Old]
    /\ value' = [k \in Tag |-> NoValue]
    /\ References' = [p \in Plc |-> 0]
    /\ reply' = NoReply
    /\ terminated' = FALSE
    /\ late' = {}

-----------------------------------------------------------------------------
(* select returns: a connecting client, clients to read, or a timeout. *)
Select ==
    /\ pc = "wait" /\ ~terminated
    /\ \E new \in {{}} \union {{c} : c \in Client \ CLIENTs} :
          CLIENTs' = CLIENTs \union new
    /\ \E some \in SUBSET CLIENTs : ready' = some
    /\ pc' = "serve"
    /\ reply' = NoReply
    /\ UNCHANGED <<linkVars, req, cur, cursor, TAGs, age, value, References,
                   terminated, late>>

(* lire_client reads nothing: the client has gone. *)
ClientLost(c) ==
    /\ pc = "serve" /\ c \in ready
    /\ ready' = ready \ {c}
    /\ CLIENTs' = CLIENTs \ {c}
    /\ reply' = NoReply
    /\ UNCHANGED <<linkVars, pc, req, cur, cursor, TAGs, age, value,
                   References, terminated, late>>

(* Traite, for a display request, one ParseRequest rejects, or one for a   *)
(* PLC that is not in the alias file.                                      *)
TraiteOther(c) ==
    /\ pc = "serve" /\ c \in ready
    /\ ready' = ready \ {c}
    /\ reply' = NoReply
    /\ UNCHANGED <<linkVars, pc, CLIENTs, req, cur, cursor, TAGs, age, value,
                   References, terminated, late>>

FindPLC(p) == First({q \in Plc : <<p, q>> \in NameStarts})

FoundAt_AnyPlc(p, t) ==
    {i \in DOMAIN TAGs : <<t, TAGs[i].name>> \in TagStarts}

(* The positions in TAGs where FindTag sees a match. *)
FoundAt(p, t) == {i \in DOMAIN TAGs : /\ <<t, TAGs[i].name>> \in TagStarts
                                      /\ <<p, TAGs[i].plc>> \in NameStarts}
FindTag(p, t) == TAGs[First(FoundAt(p, t))]

ValueReply(p, t, v) == [kind |-> "value", plc |-> p, name |-> t, value |-> v]
ErrorReply(p, t) == [kind |-> "error", plc |-> p, name |-> t, value |-> NoValue]

(* Traite, up to the reply or to ReadTag, for the request [p]t of client c. *)
Traite(c, p, t) ==
    /\ pc = "serve" /\ c \in ready
    /\ ready' = ready \ {c}
    /\ LET known == FoundAt(p, t) # {}
           k == IF known THEN FindTag(p, t)
                         ELSE [plc |-> FindPLC(p), name |-> t]
       IN /\ TAGs' = IF known THEN TAGs ELSE Append(TAGs, k)
          /\ References' = IF known THEN References
                           ELSE [References EXCEPT ![k.plc] = @ + 1]
          /\ IF age[k] < UPDATE_RATE
             THEN /\ reply' = ValueReply(p, t, value[k])
                  /\ UNCHANGED <<pc, req, cur>>
             ELSE /\ pc' = "ReadTag"
                  /\ req' = [plc |-> p, name |-> t]
                  /\ cur' = k
                  /\ reply' = NoReply
    /\ UNCHANGED <<linkVars, CLIENTs, cursor, age, value, terminated, late>>

-----------------------------------------------------------------------------
(* ReadTag(cur): a session and a connection if its PLC has none, then the  *)
(* read.  Each step is the call of one function that may block.            *)
Answer(r) == /\ pc' = "serve" /\ reply' = r
             /\ req' = NoTag /\ cur' = NoTag
             /\ UNCHANGED <<CLIENTs, ready, cursor, TAGs, References, terminated>>

ReadTagBuilds ==
    /\ pc = "ReadTag"
    /\ BuildSession(cur.plc) \/ BuildConnection(cur.plc)
    /\ UNCHANGED readerVars

ReadTagHasNoLink ==
    /\ pc = "ReadTag"
    /\ BuildSessionFails(cur.plc) \/ BuildConnectionFails(cur.plc)
    /\ Answer(ErrorReply(req.plc, req.name))
    /\ UNCHANGED <<age, value, late>>

ReadTagSucceeds ==
    /\ pc = "ReadTag"
    /\ Exchange(cur.plc)
    /\ \/ /\ CanAnswer(cur.plc) /\ UNCHANGED late
          /\ value' = [value EXCEPT ![cur] = ValueOf(Reached(cur.plc), cur.name)]
       \/ /\ TakesLate(cur.plc)
          /\ value' = [value EXCEPT ![cur] = CrossedValue]
    /\ age' = [age EXCEPT ![cur] = 0]
    /\ Answer(ValueReply(req.plc, req.name, value'[cur]))

ReadTagFails_Stamps ==
    /\ pc = "ReadTag"
    /\ Exchange(cur.plc)
    /\ \/ MayComeLate(late, cur.plc) /\ UNCHANGED value
       \/ /\ (CanAnswer(cur.plc) /\ UNCHANGED late) \/ TakesLate(cur.plc)
          /\ value' = [value EXCEPT ![cur] = BadValue]
    /\ age' = [age EXCEPT ![cur] = 0]
    /\ Answer(ErrorReply(req.plc, req.name))

(* No answer, or an error status; or an answer GetValueAsFloat rejects     *)
(* after it has been stored in tag->Value.                                 *)
ReadTagFails ==
    /\ pc = "ReadTag"
    /\ Exchange(cur.plc)
    /\ \/ MayComeLate(late, cur.plc) /\ UNCHANGED value
       \/ /\ (CanAnswer(cur.plc) /\ UNCHANGED late) \/ TakesLate(cur.plc)
          /\ value' = [value EXCEPT ![cur] = BadValue]
    /\ UNCHANGED age
    /\ Answer(ErrorReply(req.plc, req.name))

ReadTagKilled ==
    /\ pc = "ReadTag"
    /\ BuildConnectionKilled(cur.plc) \/ ExchangeKilled(cur.plc)
    /\ EndReader

-----------------------------------------------------------------------------
BeginScan ==
    /\ pc = "serve" /\ ready = {}
    /\ pc' = "scan" /\ cursor' = 1
    /\ reply' = NoReply
    /\ UNCHANGED <<linkVars, CLIENTs, ready, req, cur, TAGs, age, value,
                   References, terminated, late>>

Inactive(k) == age[k] > INACTIVITY_TO

LastTag_Never(p) == References[p] - 1 < 0
LastTag(p) == References[p] - 1 <= 0

ScanKeeps ==
    /\ pc = "scan" /\ cursor \in DOMAIN TAGs
    /\ ~Inactive(TAGs[cursor])
    /\ cursor' = cursor + 1
    /\ UNCHANGED <<linkVars, pc, CLIENTs, ready, req, cur, TAGs, age, value,
                   References, reply, terminated, late>>

(* The tag at the cursor is deleted.  The element after it is fetched      *)
(* before the removal, and "continue" fetches the one after that.          *)
ScanDeletes ==
    /\ pc = "scan" /\ cursor \in DOMAIN TAGs
    /\ Inactive(TAGs[cursor])
    /\ LET k == TAGs[cursor] IN
         /\ TAGs' = RemoveAt(TAGs, cursor)
         /\ cursor' = cursor + 1
         /\ value' = [value EXCEPT ![k] = NoValue]
         /\ age' = [age EXCEPT ![k] = Old]
         /\ References' = [References EXCEPT ![k.plc] = @ - 1]
         /\ IF LastTag(k.plc) THEN DisconnectPlc(k.plc) /\ ClosingLoses
                             ELSE UNCHANGED <<linkVars, late>>
    /\ UNCHANGED <<pc, CLIENTs, ready, req, cur, reply, terminated>>

ScanKilled ==
    /\ pc = "scan" /\ cursor \in DOMAIN TAGs
    /\ LET k == TAGs[cursor] IN
         /\ Inactive(k) /\ LastTag(k.plc)
         /\ DisconnectPlcKilled(k.plc)
    /\ EndReader

EndScan ==
    /\ pc = "scan" /\ cursor \notin DOMAIN TAGs
    /\ pc' = "wait" /\ cursor' = 0
    /\ UNCHANGED <<linkVars, CLIENTs, ready, req, cur, TAGs, age, value,
                   References, reply, terminated, late>>

-----------------------------------------------------------------------------
Sigterm ==
    /\ daemon = "up" /\ ~terminated
    /\ terminated' = TRUE
    /\ UNCHANGED <<linkVars, pc, CLIENTs, ready, req, cur, cursor, TAGs, age,
                   value, References, reply, late>>

Shutdown_NoKillConnections ==
    /\ pc = "wait" /\ terminated
    /\ daemon' = "stopped"
    /\ UNCHANGED <<pointers, sessionVars, sState, connVars, cUp, corrupt,
                   orphans>>
    /\ EndReader
Shutdown == pc = "wait" /\ terminated /\ KillConnections /\ EndReader

(* A client that sent a request resets its socket before it is answered.   *)
ClientResets ==
    /\ pc = "ReadTag" \/ (pc = "serve" /\ ready # {})
    /\ ReplyKills
    /\ EndReader

(* Time passes while the daemon waits in select or for an answer. *)
Tick ==
    /\ pc \in {"wait", "ReadTag"}
    /\ age' = [k \in Tag |-> IF age[k] = Old THEN Old ELSE age[k] + 1]
    /\ age' # age
    /\ UNCHANGED <<linkVars, pc, CLIENTs, ready, req, cur, cursor, TAGs,
                   value, References, reply, terminated, late>>

ReaderCrash == /\ Crash
               /\ terminated => daemon' # "up"
               /\ EndReader

-----------------------------------------------------------------------------
Serve == \E c \in Client :
            \/ ClientLost(c) \/ TraiteOther(c)
            \/ \E p \in Plc, t \in TagName : Traite(c, p, t)
ReadTag == \/ ReadTagBuilds \/ ReadTagHasNoLink \/ ReadTagSucceeds
           \/ ReadTagFails \/ ReadTagKilled
Scan == BeginScan \/ ScanKeeps \/ ScanDeletes \/ ScanKilled \/ EndScan
MainLoop == Select \/ Serve \/ ReadTag \/ Scan \/ Shutdown

Next == \/ MainLoop \/ ClientResets \/ Sigterm \/ Tick \/ ReaderCrash
        \/ OtherSide /\ UNCHANGED readerVars

Spec == Init /\ [][Next]_vars

(* The loop of mainprog never stops by itself, and the clock never stops. *)
FairSpec == Spec /\ WF_vars(MainLoop) /\ SF_vars(Tick)

-----------------------------------------------------------------------------
(* The types of the daemon's own variables, and that ReadTag always works *)
(* on a tag; those of the links are in LinksTypeOK.                        *)
TypeOK ==
    /\ pc \in {"wait", "serve", "ReadTag", "scan", "ended"}
    /\ CLIENTs \subseteq Client /\ ready \subseteq CLIENTs
    /\ req \in Tag \union {NoTag} /\ cur \in Tag \union {NoTag}
    /\ (cur = NoTag) <=> (pc # "ReadTag")
    /\ cursor \in Nat
    /\ TAGs \in Seq(Tag)
    /\ age \in [Tag -> 0 .. Old]
    /\ value \in [Tag -> Value]
    /\ References \in [Plc -> Nat]
    /\ reply \in Reply
    /\ terminated \in BOOLEAN
    /\ late \subseteq Late

(* plc->References, on which the inactivity check decides to disconnect,   *)
(* is the number of TAGs of the PLC; no TAG is twice in the list; and a    *)
(* PLC without TAGs holds no session and no connection, whatever the       *)
(* requests, failures and deletions before.                                *)
LinksHeldForTags ==
    /\ TypeOK
    /\ \A p \in Plc :
          /\ References[p] = Cardinality({i \in DOMAIN TAGs : TAGs[i].plc = p})
          /\ plcSession[p] # Null => References[p] > 0
          /\ plcConn[p] # Null => plcSession[p] # Null
    /\ IsInjective(TAGs)

(* A value that Traite still serves from the list was read from the device *)
(* and tag it stands for: neither the 0 of a new TAG nor what a failed     *)
(* conversion wrote into tag->Value is ever within UPDATE_RATE, nor        *)
(* anything else but the late reply of another connection, where PLCs do   *)
(* answer after the timeout.                                               *)
BufferedValueIsGood ==
    \A i \in DOMAIN TAGs :
       age[TAGs[i]] < UPDATE_RATE =>
          value[TAGs[i]] \in {ValueOf(Address(TAGs[i].plc), TAGs[i].name)} \union Crossed

(* The value a client gets is the one of the tag and of the PLC it named,  *)
(* or, where PLCs answer after the timeout, the one of a late reply.       *)
ReplyIsTruthful ==
    reply # NoReply /\ reply.kind = "value" =>
       reply.value \in {ValueOf(Address(reply.plc), reply.name)} \union Crossed

(* The daemon uses its links as PlcLinks says. *)
UsesLinks == LinksSpec

(* When the clients have gone for good, every session and connection the   *)
(* process holds is given back: the inactivity check, though it skips      *)
(* elements, gets to every tag of a list nobody refreshes.  What a restart *)
(* left open at the gateways (orphans) nobody holds, nor gives back.       *)
NoLinks == SESSIONs = {} /\ CONNECTIONs = {} /\ heapS = {}
QuietReleasesLinks == <>[](CLIENTs = {} /\ ~terminated) => <>[]NoLinks
=============================================================================
