------------------------------ MODULE PlcLinks ------------------------------
(***************************************************************************)
(* The EtherNet/IP sessions and CIP connections of the tuxreader and       *)
(* tuxtag daemons: BuildSession, BuildConnection, DisconnectPlc,           *)
(* KillConnections and the heap they work on, with PLCs that close,        *)
(* reset or forget the link at any time.                                   *)
(*                                                                         *)
(* The alias file gives the PLCs in a fixed order, which FindSession and   *)
(* FindConnection scan: a PLC is its position in that file.  The strncmp   *)
(* comparisons of the code match prefixes; the constants IpStarts and      *)
(* PathStarts say which strings of the file start with which others.       *)
(***************************************************************************)
EXTENDS Integers, FiniteSets

CONSTANTS
    NPlc,           \* number of PLCs in the alias file
    Parses,         \* the PLCs whose path ParsePath accepts (path_size > 0)
    Ip, Path,       \* per PLC: its gateway, and its route behind the gateway
    NetWork,        \* per PLC: 0 ControlNet, 1 DH+ channel A, 2 DH+ channel B
    IpStarts,       \* <<q, p>> : the ip of q starts with the ip of p
    PathStarts,     \* <<q, p>> : the PlcPath of q starts with the PlcPath of p
    SessionId,      \* addresses malloc may return for an Eip_Session
    ConnId,         \* addresses malloc may return for an Eip_Connection
    Null,           \* the null pointer
    RegisterMayFail \* TRUE: RegisterSession may get no answer (result < 0)

Plc == 1 .. NPlc

ASSUME ConfigAssumption ==
    /\ NPlc \in Nat \ {0}
    /\ Parses \subseteq Plc
    /\ IpStarts \subseteq Plc \X Plc
    /\ PathStarts \subseteq Plc \X Plc
    /\ \A p \in Plc : <<p, p>> \in IpStarts /\ <<p, p>> \in PathStarts
    /\ \A p, q \in Plc : /\ Ip[p] = Ip[q] => <<p, q>> \in IpStarts
                         /\ (Ip[p] = Ip[q] /\ Path[p] = Path[q])
                              => <<p, q>> \in PathStarts

ASSUME HeapAssumption ==
    /\ Null \notin SessionId \union ConnId
    /\ RegisterMayFail \in BOOLEAN

VARIABLES
    daemon,         \* "up", or how the process ended: "killed", "stopped"
    plcSession,     \* plc->Session
    plcConn,        \* plc->Connection
    SESSIONs,       \* the list SESSIONs
    heapS,          \* the Eip_Session blocks that are allocated
    sRefs,          \* session->References
    sOpener,        \* the PLC whose ip the session's socket was opened for
    sState,         \* what the gateway thinks of the socket, see SocketState
    CONNECTIONs,    \* the list CONNECTIONs; its blocks are the allocated ones
    cRefs,          \* connection->References
    cSession,       \* connection->Session
    cOpener,        \* the PLC whose path and network Forward_Open was sent for
    cUp,            \* the PLC still knows the connection
    corrupt,        \* a freed session has been dereferenced (ghost)
    orphans         \* a restart has left links open that nobody holds

sessionVars == <<SESSIONs, heapS, sRefs, sOpener>>
connVars == <<CONNECTIONs, cRefs, cSession, cOpener>>
pointers == <<plcSession, plcConn>>
linkVars == <<daemon, pointers, sessionVars, sState, connVars, cUp, corrupt,
              orphans>>

(***************************************************************************)
(* "open": registered.  "refused": the gateway answered RegisterSession    *)
(* with an error status, which is > 0 and passes for a success.  "fin":    *)
(* the gateway closed the socket; the next send goes out unanswered.       *)
(* "reset": the gateway has reset the socket; a send raises SIGPIPE, which *)
(* no TuxPLC program handles or ignores.                                   *)
(***************************************************************************)
SocketState == {"open", "refused", "fin", "reset"}

-----------------------------------------------------------------------------
SessionUsers(s) == {p \in Plc : plcSession[p] = s}
ConnUsers(c) == {p \in Plc : plcConn[p] = c}

First(S) == CHOOSE p \in S : \A q \in S : p <= q

(* FindSession: the PLCs with a session whose ip starts with the one of p. *)
SessionsFor(p) == {q \in Parses : /\ plcSession[q] # Null
                                  /\ <<q, p>> \in IpStarts}

ConnsFor_SameGateway(p) == {q \in Plc : /\ plcConn[q] # Null
                                         /\ <<q, p>> \in IpStarts}

(* FindConnection: the PLCs with a connection whose path starts with p's. *)
ConnsFor(p) == {q \in Plc : /\ plcConn[q] # Null
                            /\ <<q, p>> \in PathStarts}

Freed(s) == s \notin heapS
SendKills(s) == ~Freed(s) /\ sState[s] = "reset"    \* SIGPIPE

(* The heap and the lists of a process that has just started.  Unused      *)
(* blocks keep these values; OpenSession and Forward_Open set every field. *)
LinksInit ==
    /\ daemon = "up"
    /\ plcSession = [p \in Plc |-> Null]
    /\ plcConn = [p \in Plc |-> Null]
    /\ SESSIONs = {} /\ heapS = {}
    /\ sRefs = [s \in SessionId |-> 0]
    /\ sOpener = [s \in SessionId |-> 1]
    /\ sState = [s \in SessionId |-> "fin"]
    /\ CONNECTIONs = {}
    /\ cRefs = [c \in ConnId |-> 0]
    /\ cSession = [c \in ConnId |-> Null]
    /\ cOpener = [c \in ConnId |-> 1]
    /\ cUp = [c \in ConnId |-> FALSE]
    /\ corrupt = FALSE
    /\ orphans = FALSE

(* The gateways take the links of the process for open. *)
HeldOutside == \/ \E s \in heapS : sState[s] \in {"open", "refused"}
               \/ \E c \in CONNECTIONs : cUp[c]

(* The process is gone (how # "up"), and the kernel has closed its sockets *)
(* with it; or execv has started it again ("up").  Nothing is left of the  *)
(* heap then either, but the sockets of the sessions, which are not        *)
(* close-on-exec as those of the clients are, stay open with no holder.    *)
EndProcess(how) ==
    /\ daemon' = how
    /\ orphans' = (how = "up" /\ (orphans \/ HeldOutside))
    /\ plcSession' = [p \in Plc |-> Null]
    /\ plcConn' = [p \in Plc |-> Null]
    /\ SESSIONs' = {} /\ heapS' = {}
    /\ sRefs' = [s \in SessionId |-> 0]
    /\ sOpener' = [s \in SessionId |-> 1]
    /\ sState' = [s \in SessionId |-> "fin"]
    /\ CONNECTIONs' = {}
    /\ cRefs' = [c \in ConnId |-> 0]
    /\ cSession' = [c \in ConnId |-> Null]
    /\ cOpener' = [c \in ConnId |-> 1]
    /\ cUp' = [c \in ConnId |-> FALSE]
    /\ corrupt' = FALSE

-----------------------------------------------------------------------------
(* BuildSession, when FindSession returns the session of another PLC. *)
ShareSession(p) ==
    /\ plcSession[p] = Null /\ p \in Parses
    /\ SessionsFor(p) # {}
    /\ LET s == plcSession[First(SessionsFor(p))] IN
         /\ plcSession' = [plcSession EXCEPT ![p] = s]
         /\ sRefs' = [sRefs EXCEPT ![s] = @ + 1]
         /\ corrupt' = (corrupt \/ Freed(s))
    /\ UNCHANGED <<daemon, plcConn, SESSIONs, heapS, sOpener, sState,
                   connVars, cUp, orphans>>

(* BuildSession, when OpenSession succeeds: state is how RegisterSession   *)
(* was answered.  When it is not answered the block is freed and then used *)
(* as if it were not: it enters SESSIONs, its References is set, and the   *)
(* PLC points to it.                                                       *)
OpenSession(p, s, answered, state) ==
    /\ daemon = "up"
    /\ plcSession[p] = Null /\ p \in Parses
    /\ SessionsFor(p) = {}
    /\ Freed(s)
    /\ answered \/ RegisterMayFail
    /\ plcSession' = [plcSession EXCEPT ![p] = s]
    /\ SESSIONs' = SESSIONs \union {s}
    /\ heapS' = IF answered THEN heapS \union {s} ELSE heapS
    /\ sRefs' = [sRefs EXCEPT ![s] = 1]
    /\ sOpener' = [sOpener EXCEPT ![s] = p]
    /\ sState' = [sState EXCEPT ![s] = state]
    /\ corrupt' = (corrupt \/ ~answered)
    /\ UNCHANGED <<daemon, plcConn, connVars, cUp, orphans>>

BuildSession(p) ==
    \/ ShareSession(p)
    \/ \E s \in SessionId, state \in {"open", "refused"} :
          OpenSession(p, s, TRUE, state)
    \/ \E s \in SessionId : OpenSession(p, s, FALSE, "fin")

(* BuildSession returns 0: no path, or the gateway is unreachable. *)
BuildSessionFails(p) ==
    /\ plcSession[p] = Null
    /\ p \in Parses => SessionsFor(p) = {}
    /\ UNCHANGED linkVars

(* BuildConnection, when FindConnection returns one of another PLC. *)
ShareConnection(p) ==
    /\ plcSession[p] # Null /\ plcConn[p] = Null /\ p \in Parses
    /\ ConnsFor(p) # {}
    /\ LET c == plcConn[First(ConnsFor(p))] IN
         /\ plcConn' = [plcConn EXCEPT ![p] = c]
         /\ cRefs' = [cRefs EXCEPT ![c] = @ + 1]
    /\ UNCHANGED <<daemon, plcSession, sessionVars, sState, CONNECTIONs,
                   cSession, cOpener, cUp, corrupt, orphans>>

(* BuildConnection asks for a connection of its own: Forward_Open is sent  *)
(* on the session of p.                                                    *)
AsksForwardOpen(p) == /\ plcSession[p] # Null /\ plcConn[p] = Null
                      /\ p \in Parses
                      /\ ConnsFor(p) = {}

(* up: the PLC granted it; a refusal makes a connection all the same.      *)
OpenConnection(p, c, up) ==
    /\ up \in BOOLEAN
    /\ AsksForwardOpen(p)
    /\ ~Freed(plcSession[p]) /\ sState[plcSession[p]] = "open"
    /\ c \notin CONNECTIONs
    /\ plcConn' = [plcConn EXCEPT ![p] = c]
    /\ CONNECTIONs' = CONNECTIONs \union {c}
    /\ cRefs' = [cRefs EXCEPT ![c] = 1]
    /\ cSession' = [cSession EXCEPT ![c] = plcSession[p]]
    /\ cOpener' = [cOpener EXCEPT ![c] = p]
    /\ cUp' = [cUp EXCEPT ![c] = up]
    /\ UNCHANGED <<daemon, plcSession, sessionVars, sState, corrupt, orphans>>

BuildConnection(p) ==
    \/ ShareConnection(p)
    \/ \E c \in ConnId, up \in BOOLEAN : OpenConnection(p, c, up)

(* BuildConnection returns 0. *)
BuildConnectionFails(p) ==
    /\ plcSession[p] # Null /\ plcConn[p] = Null
    /\ p \in Parses => /\ ConnsFor(p) = {}
                       /\ ~SendKills(plcSession[p])
    /\ corrupt' = (corrupt \/ (p \in Parses /\ Freed(plcSession[p])))
    /\ UNCHANGED <<daemon, pointers, sessionVars, sState, connVars, cUp,
                   orphans>>

(* BuildConnection sends on a socket the gateway has reset. *)
BuildConnectionKilled(p) == /\ AsksForwardOpen(p) /\ SendKills(plcSession[p])
                            /\ EndProcess("killed")
-----------------------------------------------------------------------------
(* DisconnectPlc drops the references of p, and KillConnection and         *)
(* KillSession close a link whose counter has reached 0.                   *)
LastOnConn_Never(p) == plcConn[p] # Null /\ cRefs[plcConn[p]] - 1 < 0
LastOnSession_Early(p) == plcSession[p] # Null /\ sRefs[plcSession[p]] - 1 <= 1
LastOnConn(p) == plcConn[p] # Null /\ cRefs[plcConn[p]] - 1 <= 0
LastOnSession(p) == plcSession[p] # Null /\ sRefs[plcSession[p]] - 1 <= 0

DropConnection(p) ==
    LET c == plcConn[p] IN
    IF LastOnConn(p)
    THEN /\ CONNECTIONs' = CONNECTIONs \ {c}
         /\ cRefs' = [cRefs EXCEPT ![c] = 0]
         /\ cSession' = [cSession EXCEPT ![c] = Null]
         /\ cOpener' = [cOpener EXCEPT ![c] = 1]
         /\ cUp' = [cUp EXCEPT ![c] = FALSE]
    ELSE /\ cRefs' = IF c = Null THEN cRefs ELSE [cRefs EXCEPT ![c] = @ - 1]
         /\ UNCHANGED <<CONNECTIONs, cSession, cOpener, cUp>>

DropSession(p) ==
    LET s == plcSession[p] IN
    IF LastOnSession(p)
    THEN /\ SESSIONs' = SESSIONs \ {s}
         /\ heapS' = heapS \ {s}
         /\ sRefs' = [sRefs EXCEPT ![s] = 0]
         /\ sOpener' = [sOpener EXCEPT ![s] = 1]
         /\ sState' = [sState EXCEPT ![s] = "fin"]
    ELSE /\ sRefs' = IF s = Null THEN sRefs ELSE [sRefs EXCEPT ![s] = @ - 1]
         /\ UNCHANGED <<SESSIONs, heapS, sOpener, sState>>

(* Forward_Close is sent on the session the connection was opened on,      *)
(* UnRegisterSession on the one of p; both may be the same socket, and a   *)
(* socket the gateway has closed may be reset between the two sends.       *)
MustDieClosing(p) ==
    \/ LastOnConn(p) /\ SendKills(cSession[plcConn[p]])
    \/ LastOnSession(p) /\ SendKills(plcSession[p])
MayDieClosing(p) ==
    \/ MustDieClosing(p)
    \/ /\ LastOnConn(p) /\ LastOnSession(p)
       /\ cSession[plcConn[p]] = plcSession[p]
       /\ ~Freed(plcSession[p]) /\ sState[plcSession[p]] = "fin"

DisconnectPlc(p) ==
    /\ ~MustDieClosing(p)
    /\ DropConnection(p)
    /\ DropSession(p)
    /\ corrupt' = (\/ corrupt
                   \/ LastOnConn(p) /\ Freed(cSession[plcConn[p]])
                   \/ plcSession[p] # Null /\ Freed(plcSession[p]))
    /\ plcConn' = [plcConn EXCEPT ![p] = Null]
    /\ plcSession' = [plcSession EXCEPT ![p] = Null]
    /\ UNCHANGED <<daemon, orphans>>

DisconnectPlcKilled(p) == MayDieClosing(p) /\ EndProcess("killed")

(* KillConnections at the end of mainprog: every connection, then every    *)
(* session, is closed; a reset socket kills the process on the way.        *)
KillConnections ==
    /\ daemon = "up"
    /\ EndProcess(IF \E s \in heapS : sState[s] = "reset" THEN "killed"
                                                          ELSE "stopped")

-----------------------------------------------------------------------------
(* A request sent for p on its session, to the connection p points to. *)
HasLink(p) == plcSession[p] # Null /\ plcConn[p] # Null
CanAnswer(p) == /\ HasLink(p)
                /\ ~Freed(plcSession[p]) /\ sState[plcSession[p]] = "open"
                /\ cSession[plcConn[p]] = plcSession[p]
                /\ cUp[plcConn[p]]

Exchange(p) == /\ HasLink(p) /\ ~SendKills(plcSession[p])
               /\ corrupt' = (corrupt \/ Freed(plcSession[p]))
               /\ UNCHANGED <<daemon, pointers, sessionVars, sState,
                              connVars, cUp, orphans>>

ExchangeKilled(p) == /\ HasLink(p) /\ SendKills(plcSession[p])
                     /\ EndProcess("killed")

(* The device a request of p reaches, and the one p was configured for. *)
Address(p) == <<Ip[p], Path[p], NetWork[p]>>
Reached(p) == <<Ip[sOpener[plcSession[p]]],
                Path[cOpener[plcConn[p]]], NetWork[cOpener[plcConn[p]]]>>

-----------------------------------------------------------------------------
(* The other side. *)
GatewayCloses(s) ==
    /\ s \in heapS /\ sState[s] \in {"open", "refused"}
    /\ sState' = [sState EXCEPT ![s] = "fin"]
    /\ UNCHANGED <<daemon, pointers, sessionVars, connVars, cUp, corrupt,
                   orphans>>

GatewayResets(s) ==
    /\ s \in heapS /\ sState[s] # "reset"
    /\ sState' = [sState EXCEPT ![s] = "reset"]
    /\ UNCHANGED <<daemon, pointers, sessionVars, connVars, cUp, corrupt,
                   orphans>>

PlcForgets(c) ==
    /\ c \in CONNECTIONs /\ cUp[c]
    /\ cUp' = [cUp EXCEPT ![c] = FALSE]
    /\ UNCHANGED <<daemon, pointers, sessionVars, sState, connVars, corrupt,
                   orphans>>

(* The gateways give the links of an earlier process up. *)
OrphansDropped ==
    /\ orphans /\ orphans' = FALSE
    /\ UNCHANGED <<daemon, pointers, sessionVars, sState, connVars, cUp,
                   corrupt>>

OtherSide == \/ \E s \in SessionId : GatewayCloses(s) \/ GatewayResets(s)
             \/ \E c \in ConnId : PlcForgets(c)
             \/ OrphansDropped

(* A crash: a freed block in use, or the uninitialised header of a recv    *)
(* that returns 0.  SIGSEGV is answered by Gardian with execv; the abort   *)
(* of the allocator by nobody.                                             *)
Crash == daemon = "up" /\ \E how \in {"up", "killed"} : EndProcess(how)

(* A client that resets its socket before Reply writes to it: the same     *)
(* SIGPIPE ends the process, and the links with it.                        *)
ReplyKills == daemon = "up" /\ EndProcess("killed")

-----------------------------------------------------------------------------
LinksNext ==
    \/ \E p \in Plc :
          \/ BuildSession(p) \/ BuildSessionFails(p)
          \/ BuildConnection(p) \/ BuildConnectionFails(p)
          \/ BuildConnectionKilled(p)
          \/ Exchange(p) \/ ExchangeKilled(p)
          \/ DisconnectPlc(p) \/ DisconnectPlcKilled(p)
    \/ KillConnections
    \/ ReplyKills
    \/ OtherSide
    \/ Crash

LinksSpec == LinksInit /\ [][LinksNext]_linkVars

-----------------------------------------------------------------------------
(* Every pointer is null or the address of a block of its kind, and no     *)
(* References counter of BuildSession, BuildConnection and DisconnectPlc   *)
(* is negative or exceeds the number of PLCs.                              *)
LinksTypeOK ==
    /\ daemon \in {"up", "killed", "stopped"}
    /\ plcSession \in [Plc -> SessionId \union {Null}]
    /\ plcConn \in [Plc -> ConnId \union {Null}]
    /\ SESSIONs \subseteq SessionId
    /\ heapS \subseteq SessionId
    /\ sRefs \in [SessionId -> 0 .. NPlc]
    /\ sOpener \in [SessionId -> Plc]
    /\ sState \in [SessionId -> SocketState]
    /\ CONNECTIONs \subseteq ConnId
    /\ cRefs \in [ConnId -> 0 .. NPlc]
    /\ cSession \in [ConnId -> SessionId \union {Null}]
    /\ cOpener \in [ConnId -> Plc]
    /\ cUp \in [ConnId -> BOOLEAN]
    /\ corrupt \in BOOLEAN /\ orphans \in BOOLEAN

(* Whatever PLCs join and leave, and whoever opened the link: References,  *)
(* on which DisconnectPlc decides to close, is the number of PLCs that     *)
(* point to the link, and a link in a list has at least one.               *)
RefCounts ==
    /\ \A s \in SESSIONs : /\ sRefs[s] = Cardinality(SessionUsers(s))
                           /\ SessionUsers(s) # {}
    /\ \A c \in CONNECTIONs : /\ cRefs[c] = Cardinality(ConnUsers(c))
                              /\ ConnUsers(c) # {}

(* No PLC and no connection is left pointing to a session that KillSession *)
(* or CloseSession has freed, nor a PLC to a freed connection.             *)
NothingDangles ==
    /\ \A p \in Plc : /\ plcSession[p] # Null => plcSession[p] \in heapS
                      /\ plcConn[p] # Null => plcConn[p] \in CONNECTIONs
    /\ \A c \in CONNECTIONs : cSession[c] \in heapS
    /\ ~corrupt

(* A connection a PLC can use leads to the device its line of the alias    *)
(* file names, whichever PLC opened it: sharing in FindSession and         *)
(* FindConnection never hands out a link to something else.                *)
RightDevice == \A p \in Plc : HasLink(p) /\ CanAnswer(p) => Reached(p) = Address(p)

(* The counters implement "closed when nobody holds it", for sessions and  *)
(* for connections, through every order of joins, leaves and ends.         *)
Sessions == INSTANCE SharedLinks
              WITH Holder <- Plc, Link <- SessionId, None <- Null,
                   held <- plcSession, live <- heapS
Connections == INSTANCE SharedLinks
              WITH Holder <- Plc, Link <- ConnId, None <- Null,
                   held <- plcConn, live <- CONNECTIONs
SessionsShared == Sessions!Spec
ConnectionsShared == Connections!Spec
=============================================================================
