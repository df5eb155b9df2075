--------------------------- MODULE PlcLinksProofs ---------------------------
(***************************************************************************)
(* What PlcLinks promises, for every alias file and every heap, in three   *)
(* parts: the links are counted and shared; they lead where the alias file *)
(* says; and what the two daemons need for their lists of tags, whose      *)
(* proofs extend this module.                                              *)
(*                                                                         *)
(* Sessions and connections are counted the same way, so the counting is   *)
(* proved once, for a pointer function f, counters refs and a set live of  *)
(* links taken from L: the lemmas Open, Share, Leave and LeaveLast.        *)
(***************************************************************************)
EXTENDS LateReplies, Sequences, SequencesExt, FiniteSetTheorems, SequenceTheorems,
        WellFoundedInduction, TLAPS

Users(f, l) == {p \in Plc : f[p] = l}

Counted(f, refs, live, L) ==
    \A l \in L : /\ refs[l] = Cardinality(Users(f, l))
                 /\ l \in live <=> Users(f, l) # {}

Pointers(L) == [Plc -> L \union {Null}]

(* f with one value changed; an operator, so that the lemmas below apply   *)
(* to terms the provers can recognise.                                     *)
Point(f, x, v) == [f EXCEPT ![x] = v]

(* The users of a link are a finite set, as the alias file is. *)
LEMMA UsersFinite ==
    ASSUME NEW f, NEW l
    PROVE  /\ IsFiniteSet(Users(f, l))
           /\ Cardinality(Users(f, l)) \in 0 .. NPlc
<1>1. IsFiniteSet(Plc) /\ Cardinality(Plc) = NPlc
  BY ConfigAssumption, FS_Interval DEF Plc
<1>2. Users(f, l) \in SUBSET Plc
  BY DEF Users
<1>3. IsFiniteSet(Users(f, l)) /\ Cardinality(Users(f, l)) <= NPlc
  BY <1>1, <1>2, FS_Subset
<1>4. Cardinality(Users(f, l)) \in Nat
  BY <1>3, FS_CardinalityType
<1> QED
  BY <1>3, <1>4, ConfigAssumption

(* A PLC that starts to point to l is one more user of l. *)
LEMMA Join ==
    ASSUME NEW L, Null \notin L, NEW f \in Pointers(L),
           NEW p \in Plc, f[p] = Null, NEW l \in L
    PROVE  /\ Point(f, p, l) \in Pointers(L)
           /\ p \in Users(Point(f, p, l), l)
           /\ Cardinality(Users(Point(f, p, l), l)) = Cardinality(Users(f, l)) + 1
           /\ \A m \in L \ {l} : Users(Point(f, p, l), m) = Users(f, m)
<1> DEFINE g == Point(f, p, l)
<1>1. g \in Pointers(L)
  BY DEF Pointers, Point
<1>2. Users(g, l) = Users(f, l) \union {p} /\ p \notin Users(f, l)
  BY DEF Users, Pointers, Point
<1>3. \A m \in L \ {l} : Users(g, m) = Users(f, m)
  BY DEF Users, Pointers, Point
<1>4. Cardinality(Users(f, l) \union {p}) = Cardinality(Users(f, l)) + 1
  BY <1>2, UsersFinite, FS_AddElement
<1> QED
  BY <1>1, <1>2, <1>3, <1>4

(* A PLC that drops its pointer is one user less of the link it had. *)
LEMMA Leave ==
    ASSUME NEW L, Null \notin L, NEW f \in Pointers(L), NEW p \in Plc
    PROVE  /\ Point(f, p, Null) \in Pointers(L)
           /\ f[p] # Null =>
                 /\ p \in Users(f, f[p])
                 /\ Cardinality(Users(Point(f, p, Null), f[p]))
                      = Cardinality(Users(f, f[p])) - 1
           /\ \A m \in L \ {f[p]} : Users(Point(f, p, Null), m) = Users(f, m)
<1> DEFINE g == Point(f, p, Null)
<1>1. g \in Pointers(L)
  BY DEF Pointers, Point
<1>2. \A m \in L \ {f[p]} : Users(g, m) = Users(f, m)
  BY DEF Users, Pointers, Point
<1>3. ASSUME f[p] # Null
      PROVE  /\ p \in Users(f, f[p])
             /\ Users(g, f[p]) = Users(f, f[p]) \ {p}
  BY <1>3 DEF Users, Pointers, Point
<1>4. ASSUME f[p] # Null
      PROVE  Cardinality(Users(f, f[p]) \ {p}) = Cardinality(Users(f, f[p])) - 1
  BY <1>3, <1>4, UsersFinite, FS_RemoveElement
<1> QED
  BY <1>1, <1>2, <1>3, <1>4

(* OpenSession and Forward_Open: a fresh link starts with References 1. *)
LEMMA CountOpen ==
    ASSUME NEW L, Null \notin L, NEW f \in Pointers(L), NEW refs \in [L -> Int],
           NEW live \in SUBSET L, Counted(f, refs, live, L),
           NEW p \in Plc, f[p] = Null, NEW l \in L, l \notin live
    PROVE  Counted(Point(f, p, l), Point(refs, l, 1), live \union {l}, L)
<1> DEFINE g == Point(f, p, l)
           r == Point(refs, l, 1)
<1>1. Users(f, l) = {} /\ Cardinality(Users(f, l)) = 0
  BY FS_EmptySet DEF Counted
<1>2. /\ p \in Users(g, l)
      /\ Cardinality(Users(g, l)) = Cardinality(Users(f, l)) + 1
      /\ \A m \in L \ {l} : Users(g, m) = Users(f, m)
  BY Join
<1>3. r[l] = Cardinality(Users(g, l)) /\ Users(g, l) # {}
  <2>1. r[l] = 1
    BY DEF Point
  <2>2. Cardinality(Users(g, l)) = 1
    BY <1>1, <1>2
  <2>3. Users(g, l) # {}
    BY <1>2
  <2> QED
    BY <2>1, <2>2, <2>3
<1>4. ASSUME NEW m \in L, m # l
      PROVE  /\ r[m] = Cardinality(Users(g, m))
             /\ m \in live \union {l} <=> Users(g, m) # {}
  <2>1. Users(g, m) = Users(f, m) /\ r[m] = refs[m]
    BY <1>2, <1>4 DEF Point
  <2> QED
    BY <2>1, <1>4 DEF Counted
<1> QED
  BY <1>3, <1>4 DEF Counted

(* Sharing: one more reference to a live link. *)
LEMMA CountShare ==
    ASSUME NEW L, Null \notin L, NEW f \in Pointers(L), NEW refs \in [L -> Int],
           NEW live \in SUBSET L, Counted(f, refs, live, L),
           NEW p \in Plc, f[p] = Null, NEW l \in live
    PROVE  Counted(Point(f, p, l), Point(refs, l, refs[l] + 1), live, L)
<1> DEFINE g == Point(f, p, l)
           r == Point(refs, l, refs[l] + 1)
<1>1. refs[l] = Cardinality(Users(f, l))
  BY DEF Counted
<1>2. /\ p \in Users(g, l)
      /\ Cardinality(Users(g, l)) = Cardinality(Users(f, l)) + 1
      /\ \A m \in L \ {l} : Users(g, m) = Users(f, m)
  BY Join
<1>3. r[l] = Cardinality(Users(g, l)) /\ Users(g, l) # {}
  BY <1>1, <1>2 DEF Point
<1>4. ASSUME NEW m \in L, m # l
      PROVE  /\ r[m] = Cardinality(Users(g, m))
             /\ m \in live <=> Users(g, m) # {}
  <2>1. Users(g, m) = Users(f, m) /\ r[m] = refs[m]
    BY <1>2, <1>4 DEF Point
  <2> QED
    BY <2>1, <1>4 DEF Counted
<1> QED
  BY <1>3, <1>4 DEF Counted

(* Leaving: a link others still use keeps its other references ...  *)
LEMMA CountLeave ==
    ASSUME NEW L, Null \notin L, NEW f \in Pointers(L), NEW refs \in [L -> Int],
           NEW live \in SUBSET L, Counted(f, refs, live, L),
           NEW p \in Plc, f[p] # Null, ~(refs[f[p]] - 1 <= 0)
    PROVE  Counted(Point(f, p, Null), Point(refs, f[p], refs[f[p]] - 1), live, L)
<1> DEFINE g == Point(f, p, Null)
           r == Point(refs, f[p], refs[f[p]] - 1)
<1>1. f[p] \in L
  BY DEF Pointers
<1>2. refs[f[p]] = Cardinality(Users(f, f[p])) /\ (f[p] \in live <=> Users(f, f[p]) # {})
  BY <1>1 DEF Counted
<1>3. /\ p \in Users(f, f[p])
      /\ Cardinality(Users(g, f[p])) = Cardinality(Users(f, f[p])) - 1
      /\ \A m \in L \ {f[p]} : Users(g, m) = Users(f, m)
  BY Leave
<1>4. r[f[p]] = Cardinality(Users(g, f[p])) /\ f[p] \in live
  BY <1>1, <1>2, <1>3 DEF Point
<1>5. Users(g, f[p]) # {}
  <2>1. Cardinality(Users(g, f[p])) # 0
    BY <1>1, <1>2, <1>3
  <2> QED
    BY <2>1, FS_EmptySet
<1>6. ASSUME NEW m \in L, m # f[p]
      PROVE  /\ r[m] = Cardinality(Users(g, m))
             /\ m \in live <=> Users(g, m) # {}
  <2>1. Users(g, m) = Users(f, m) /\ r[m] = refs[m]
    BY <1>3, <1>6 DEF Point
  <2> QED
    BY <2>1, <1>6 DEF Counted
<1> QED
  BY <1>4, <1>5, <1>6 DEF Counted

(* ... and one nobody else uses is closed. *)
LEMMA CountLeaveLast ==
    ASSUME NEW L, Null \notin L, NEW f \in Pointers(L), NEW refs \in [L -> Int],
           NEW live \in SUBSET L, Counted(f, refs, live, L),
           NEW p \in Plc, f[p] # Null, refs[f[p]] - 1 <= 0
    PROVE  Counted(Point(f, p, Null), Point(refs, f[p], 0), live \ {f[p]}, L)
<1> DEFINE g == Point(f, p, Null)
           r == Point(refs, f[p], 0)
<1>1. f[p] \in L
  BY DEF Pointers
<1>2. refs[f[p]] = Cardinality(Users(f, f[p]))
  BY <1>1 DEF Counted
<1>3. /\ Cardinality(Users(g, f[p])) = Cardinality(Users(f, f[p])) - 1
      /\ \A m \in L \ {f[p]} : Users(g, m) = Users(f, m)
  BY Leave
<1>4. Cardinality(Users(g, f[p])) = 0
  <2>1. Cardinality(Users(g, f[p])) \in Nat
    BY UsersFinite, ConfigAssumption
  <2> QED
    BY <2>1, <1>1, <1>2, <1>3
<1>5. Users(g, f[p]) = {} /\ r[f[p]] = Cardinality(Users(g, f[p]))
  BY <1>1, <1>4, UsersFinite, FS_EmptySet DEF Point
<1>6. ASSUME NEW m \in L, m # f[p]
      PROVE  /\ r[m] = Cardinality(Users(g, m))
             /\ m \in live \ {f[p]} <=> Users(g, m) # {}
  <2>1. Users(g, m) = Users(f, m) /\ r[m] = refs[m]
    BY <1>3, <1>6 DEF Point
  <2> QED
    BY <2>1, <1>6 DEF Counted
<1> QED
  BY <1>5, <1>6 DEF Counted

(* A process without links. *)
LEMMA CountNone ==
    ASSUME NEW L, Null \notin L
    PROVE  Counted([p \in Plc |-> Null], [l \in L |-> 0], {}, L)
BY FS_EmptySet DEF Counted, Users

-----------------------------------------------------------------------------
(* First is the head of a scan: the least position in S. *)
LEMMA FirstOfNat ==
    ASSUME NEW S \in SUBSET Nat, S # {}
    PROVE  First(S) \in S
<1> DEFINE less == {ss \in Nat \X Nat : ss[1] < ss[2]}
<1>1. S \subseteq Nat
  OBVIOUS
<1>2. PICK x \in S : \A y \in S : ~(<<y, x>> \in less)
  <2>1. IsWellFoundedOn(less, Nat)
    BY NatLessThanWellFounded, Zenon DEF OpToRel
  <2> HIDE DEF less
  <2> QED
    BY <1>1, <2>1, WFMin
<1>3. ASSUME NEW y \in S PROVE x <= y
  <2>1. <<y, x>> \in Nat \X Nat
    BY <1>1
  <2>2. ~(y < x)
    BY <2>1, <1>2
  <2> QED
    BY <1>1, <2>2
<1> QED
  BY <1>3 DEF First

(* For FindSession and FindConnection it is a PLC of the alias file. *)
LEMMA FirstIn ==
    ASSUME NEW S \in SUBSET Plc, S # {}
    PROVE  First(S) \in S
<1>1. Plc \subseteq Nat
  BY ConfigAssumption DEF Plc
<1> QED
  BY <1>1, FirstOfNat

-----------------------------------------------------------------------------
(* The inductive invariant: RefCounts alone is not one, since the counter  *)
(* of a link that is not in a list says nothing, and because a block that  *)
(* malloc may hand out must be known to have no user left.                 *)
LinksTypes ==
    /\ daemon \in {"up", "killed", "stopped"}
    /\ plcSession \in Pointers(SessionId)
    /\ plcConn \in Pointers(ConnId)
    /\ SESSIONs \in SUBSET SessionId
    /\ sRefs \in [SessionId -> Int]
    /\ sOpener \in [SessionId -> Plc]
    /\ sState \in [SessionId -> SocketState]
    /\ CONNECTIONs \in SUBSET ConnId
    /\ cRefs \in [ConnId -> Int]
    /\ cSession \in [ConnId -> SessionId \union {Null}]
    /\ cOpener \in [ConnId -> Plc]
    /\ cUp \in [ConnId -> BOOLEAN]
    /\ corrupt \in BOOLEAN

SessionInv == /\ heapS = SESSIONs
              /\ Counted(plcSession, sRefs, SESSIONs, SessionId)
ConnInv == Counted(plcConn, cRefs, CONNECTIONs, ConnId)

LinksInv == LinksTypes /\ SessionInv /\ ConnInv

(* A link somebody points to is in its list. *)
LEMMA PointedIsLive ==
    ASSUME NEW L, NEW f \in Pointers(L), NEW refs, NEW live,
           Counted(f, refs, live, L), NEW p \in Plc, f[p] # Null
    PROVE  f[p] \in live /\ f[p] \in L
<1>1. f[p] \in L
  BY DEF Pointers
<1>2. p \in Users(f, f[p])
  BY DEF Users
<1> QED
  BY <1>1, <1>2 DEF Counted

LEMMA InvInit == LinksInit => LinksInv
<1> SUFFICES ASSUME LinksInit PROVE LinksInv
  OBVIOUS
<1>1. 1 \in Plc
  BY ConfigAssumption DEF Plc
<1>2. LinksTypes
  <2>1. (/\ daemon \in {"up", "killed", "stopped"}
         /\ plcSession \in Pointers(SessionId)
         /\ plcConn \in Pointers(ConnId)
         /\ SESSIONs \in SUBSET SessionId
         /\ CONNECTIONs \in SUBSET ConnId
         /\ corrupt \in BOOLEAN)
    BY DEF LinksInit, Pointers
  <2>2. (sRefs \in [SessionId -> Int] /\ cRefs \in [ConnId -> Int])
    BY DEF LinksInit
  <2>3. (sOpener \in [SessionId -> Plc] /\ cOpener \in [ConnId -> Plc])
    BY <1>1 DEF LinksInit
  <2>4. (/\ sState \in [SessionId -> SocketState]
         /\ cSession \in [ConnId -> SessionId \union {Null}]
         /\ cUp \in [ConnId -> BOOLEAN])
    BY DEF LinksInit, SocketState
  <2> QED
    BY <2>1, <2>2, <2>3, <2>4 DEF LinksTypes
<1>3. SessionInv /\ ConnInv
  BY CountNone, HeapAssumption DEF LinksInit, SessionInv, ConnInv
<1> QED
  BY <1>2, <1>3 DEF LinksInv

(* The end of the process, and a restart, leave no links. *)
LEMMA InvEnd ==
    ASSUME NEW how \in {"up", "killed", "stopped"}, EndProcess(how)
    PROVE  LinksInv'
<1>1. 1 \in Plc
  BY ConfigAssumption DEF Plc
<1>2. LinksTypes'
  <2>1. (/\ daemon \in {"up", "killed", "stopped"}
         /\ plcSession \in Pointers(SessionId)
         /\ plcConn \in Pointers(ConnId)
         /\ SESSIONs \in SUBSET SessionId
         /\ CONNECTIONs \in SUBSET ConnId
         /\ corrupt \in BOOLEAN)'
    BY DEF EndProcess, Pointers
  <2>2. (sRefs \in [SessionId -> Int] /\ cRefs \in [ConnId -> Int])'
    BY DEF EndProcess
  <2>3. (sOpener \in [SessionId -> Plc] /\ cOpener \in [ConnId -> Plc])'
    BY <1>1 DEF EndProcess
  <2>4. (/\ sState \in [SessionId -> SocketState]
         /\ cSession \in [ConnId -> SessionId \union {Null}]
         /\ cUp \in [ConnId -> BOOLEAN])'
    BY DEF EndProcess, SocketState
  <2> QED
    BY <2>1, <2>2, <2>3, <2>4 DEF LinksTypes
<1>3. SessionInv' /\ ConnInv'
  BY CountNone, HeapAssumption DEF EndProcess, SessionInv, ConnInv
<1> QED
  BY <1>2, <1>3 DEF LinksInv

(* BuildSession, by sharing. *)
LEMMA InvShareSession ==
    ASSUME LinksInv, NEW p \in Plc, ShareSession(p)
    PROVE  LinksInv'
<1> USE DEF LinksInv
<1> DEFINE q == First(SessionsFor(p))
           s == plcSession[q]
<1>1. q \in Plc /\ s # Null
  <2>1. SessionsFor(p) \in SUBSET Plc /\ SessionsFor(p) # {}
    BY ConfigAssumption DEF SessionsFor, ShareSession
  <2>2. q \in SessionsFor(p)
    BY <2>1, FirstIn
  <2> QED
    BY <2>1, <2>2 DEF SessionsFor
<1>2. s \in SESSIONs /\ s \in SessionId
  <2> HIDE DEF q
  <2> QED
    BY <1>1, PointedIsLive DEF LinksTypes, SessionInv
<1> HIDE DEF q
<1>3. /\ plcSession' = Point(plcSession, p, s)
      /\ sRefs' = Point(sRefs, s, sRefs[s] + 1)
      /\ SESSIONs' = SESSIONs /\ heapS' = heapS
      /\ plcSession[p] = Null
  BY <1>2 DEF ShareSession, Point, sessionVars, q, LinksTypes
<1> HIDE DEF s
<1>4. SessionInv'
  <2>1. Counted(Point(plcSession, p, s), Point(sRefs, s, sRefs[s] + 1),
                SESSIONs, SessionId)
    BY <1>2, <1>3, CountShare, HeapAssumption DEF LinksTypes, SessionInv
  <2> QED
    BY <1>3, <2>1 DEF SessionInv
<1>5. ConnInv'
  BY DEF ConnInv, ShareSession, connVars
<1>6. LinksTypes'
  BY <1>2, <1>3 DEF LinksTypes, ShareSession, connVars, Pointers, Point, Freed
<1> QED
  BY <1>4, <1>5, <1>6

(* BuildSession, when the gateway answers RegisterSession. *)
LEMMA InvOpenSession ==
    ASSUME LinksInv, NEW p \in Plc, NEW s \in SessionId,
           NEW state \in SocketState, OpenSession(p, s, TRUE, state)
    PROVE  LinksInv'
<1> USE DEF LinksInv
<1>1. /\ plcSession' = Point(plcSession, p, s)
      /\ sRefs' = Point(sRefs, s, 1)
      /\ SESSIONs' = SESSIONs \union {s} /\ heapS' = heapS \union {s}
      /\ plcSession[p] = Null /\ s \notin SESSIONs
  BY DEF OpenSession, Point, SessionInv, Freed
<1>2. SessionInv'
  <2>1. Counted(Point(plcSession, p, s), Point(sRefs, s, 1),
                SESSIONs \union {s}, SessionId)
    BY <1>1, CountOpen, HeapAssumption DEF LinksTypes, SessionInv
  <2> QED
    BY <1>1, <2>1 DEF SessionInv
<1>3. ConnInv'
  BY DEF ConnInv, OpenSession, connVars
<1>4. LinksTypes'
  BY DEF LinksTypes, OpenSession, connVars, Pointers
<1> QED
  BY <1>2, <1>3, <1>4

(* BuildConnection, by sharing. *)
LEMMA InvShareConnection ==
    ASSUME LinksInv, NEW p \in Plc, ShareConnection(p)
    PROVE  LinksInv'
<1> USE DEF LinksInv
<1> DEFINE q == First(ConnsFor(p))
           c == plcConn[q]
<1>1. q \in Plc /\ c # Null
  <2>1. ConnsFor(p) \in SUBSET Plc /\ ConnsFor(p) # {}
    BY DEF ConnsFor, ShareConnection
  <2>2. q \in ConnsFor(p)
    BY <2>1, FirstIn
  <2> QED
    BY <2>1, <2>2 DEF ConnsFor
<1>2. c \in CONNECTIONs /\ c \in ConnId
  <2> HIDE DEF q
  <2> QED
    BY <1>1, PointedIsLive DEF LinksTypes, ConnInv
<1> HIDE DEF q
<1>3. /\ plcConn' = Point(plcConn, p, c)
      /\ cRefs' = Point(cRefs, c, cRefs[c] + 1)
      /\ CONNECTIONs' = CONNECTIONs
      /\ plcConn[p] = Null
  BY <1>2 DEF ShareConnection, Point, q, LinksTypes
<1> HIDE DEF c
<1>4. ConnInv'
  <2>1. Counted(Point(plcConn, p, c), Point(cRefs, c, cRefs[c] + 1),
                CONNECTIONs, ConnId)
    BY <1>2, <1>3, CountShare, HeapAssumption DEF LinksTypes, ConnInv
  <2> QED
    BY <1>3, <2>1 DEF ConnInv
<1>5. SessionInv'
  BY DEF SessionInv, ShareConnection, sessionVars
<1>6. LinksTypes'
  BY <1>2, <1>3 DEF LinksTypes, ShareConnection, sessionVars, Pointers, Point
<1> QED
  BY <1>4, <1>5, <1>6

(* BuildConnection, when Forward_Open succeeds. *)
LEMMA InvOpenConnection ==
    ASSUME LinksInv, NEW p \in Plc, NEW c \in ConnId, NEW up, OpenConnection(p, c, up)
    PROVE  LinksInv'
<1> USE DEF LinksInv
<1>1. /\ plcConn' = Point(plcConn, p, c)
      /\ cRefs' = Point(cRefs, c, 1)
      /\ CONNECTIONs' = CONNECTIONs \union {c}
      /\ plcConn[p] = Null /\ c \notin CONNECTIONs
  BY DEF OpenConnection, AsksForwardOpen, Point
<1>2. ConnInv'
  <2>1. Counted(Point(plcConn, p, c), Point(cRefs, c, 1),
                CONNECTIONs \union {c}, ConnId)
    BY <1>1, CountOpen, HeapAssumption DEF LinksTypes, ConnInv
  <2> QED
    BY <1>1, <2>1 DEF ConnInv
<1>3. SessionInv'
  BY DEF SessionInv, OpenConnection, sessionVars
<1>4. LinksTypes'
  <2>1. plcSession[p] \in SessionId \union {Null}
    BY DEF LinksTypes, Pointers
  <2> QED
    BY <2>1 DEF LinksTypes, OpenConnection, sessionVars, Pointers
<1> QED
  BY <1>2, <1>3, <1>4

-----------------------------------------------------------------------------
(* DisconnectPlc: the session side ... *)
LEMMA InvDropSession ==
    ASSUME LinksInv, NEW p \in Plc, DropSession(p),
           plcSession' = [plcSession EXCEPT ![p] = Null]
    PROVE  /\ SessionInv'
           /\ plcSession' \in Pointers(SessionId)
           /\ SESSIONs' \in SUBSET SessionId
           /\ sRefs' \in [SessionId -> Int]
           /\ sOpener' \in [SessionId -> Plc]
           /\ sState' \in [SessionId -> SocketState]
<1> DEFINE s == plcSession[p]
<1>1. /\ plcSession \in Pointers(SessionId) /\ SESSIONs \in SUBSET SessionId
      /\ sRefs \in [SessionId -> Int] /\ sOpener \in [SessionId -> Plc]
      /\ sState \in [SessionId -> SocketState]
      /\ heapS = SESSIONs
      /\ Counted(plcSession, sRefs, SESSIONs, SessionId)
      /\ Null \notin SessionId
  BY HeapAssumption DEF LinksInv, LinksTypes, SessionInv
<1>2. plcSession' = Point(plcSession, p, Null) /\ plcSession' \in Pointers(SessionId)
  BY <1>1 DEF Point, Pointers
<1>3. 1 \in Plc /\ "fin" \in SocketState
  BY ConfigAssumption DEF Plc, SocketState
<1>4. CASE s = Null
  <2>1. plcSession' = plcSession
    BY <1>1, <1>4 DEF Pointers
  <2>2. UNCHANGED <<SESSIONs, heapS, sRefs, sOpener, sState>>
    BY <1>4 DEF DropSession, LastOnSession
  <2> QED
    BY <1>1, <2>1, <2>2 DEF SessionInv
<1>5. CASE s # Null /\ sRefs[s] - 1 <= 0
  <2>1. /\ SESSIONs' = SESSIONs \ {s} /\ heapS' = heapS \ {s}
        /\ sRefs' = Point(sRefs, s, 0)
        /\ sOpener' = [sOpener EXCEPT ![s] = 1]
        /\ sState' = [sState EXCEPT ![s] = "fin"]
    BY <1>5 DEF DropSession, LastOnSession, Point
  <2>2. Counted(Point(plcSession, p, Null), Point(sRefs, s, 0), SESSIONs \ {s}, SessionId)
    BY <1>1, <1>5, CountLeaveLast
  <2>3. sRefs' \in [SessionId -> Int]
    BY <1>1, <1>5, <2>1 DEF Point, Pointers
  <2> QED
    BY <1>1, <1>2, <1>3, <2>1, <2>2, <2>3 DEF SessionInv
<1>6. CASE s # Null /\ ~(sRefs[s] - 1 <= 0)
  <2>1. /\ sRefs' = Point(sRefs, s, sRefs[s] - 1)
        /\ UNCHANGED <<SESSIONs, heapS, sOpener, sState>>
    BY <1>6 DEF DropSession, LastOnSession, Point
  <2>2. Counted(Point(plcSession, p, Null), Point(sRefs, s, sRefs[s] - 1),
                SESSIONs, SessionId)
    BY <1>1, <1>6, CountLeave
  <2>3. sRefs' \in [SessionId -> Int]
    BY <1>1, <1>6, <2>1 DEF Point, Pointers
  <2> QED
    BY <1>1, <1>2, <2>1, <2>2, <2>3 DEF SessionInv
<1> QED
  BY <1>4, <1>5, <1>6

(* ... the connection side ... *)
LEMMA InvDropConnection ==
    ASSUME LinksInv, NEW p \in Plc, DropConnection(p),
           plcConn' = [plcConn EXCEPT ![p] = Null]
    PROVE  /\ ConnInv'
           /\ plcConn' \in Pointers(ConnId)
           /\ CONNECTIONs' \in SUBSET ConnId
           /\ cRefs' \in [ConnId -> Int]
           /\ cSession' \in [ConnId -> SessionId \union {Null}]
           /\ cOpener' \in [ConnId -> Plc]
           /\ cUp' \in [ConnId -> BOOLEAN]
<1> DEFINE c == plcConn[p]
<1>1. /\ plcConn \in Pointers(ConnId) /\ CONNECTIONs \in SUBSET ConnId
      /\ cRefs \in [ConnId -> Int] /\ cOpener \in [ConnId -> Plc]
      /\ cSession \in [ConnId -> SessionId \union {Null}]
      /\ cUp \in [ConnId -> BOOLEAN]
      /\ Counted(plcConn, cRefs, CONNECTIONs, ConnId)
      /\ Null \notin ConnId
  BY HeapAssumption DEF LinksInv, LinksTypes, ConnInv
<1>2. plcConn' = Point(plcConn, p, Null) /\ plcConn' \in Pointers(ConnId)
  BY <1>1 DEF Point, Pointers
<1>3. 1 \in Plc
  BY ConfigAssumption DEF Plc
<1>4. CASE c = Null
  <2>1. plcConn' = plcConn
    BY <1>1, <1>4 DEF Pointers
  <2>2. UNCHANGED <<CONNECTIONs, cRefs, cSession, cOpener, cUp>>
    BY <1>4 DEF DropConnection, LastOnConn
  <2> QED
    BY <1>1, <2>1, <2>2 DEF ConnInv
<1>5. CASE c # Null /\ cRefs[c] - 1 <= 0
  <2>1. /\ CONNECTIONs' = CONNECTIONs \ {c}
        /\ cRefs' = Point(cRefs, c, 0)
        /\ cSession' = [cSession EXCEPT ![c] = Null]
        /\ cOpener' = [cOpener EXCEPT ![c] = 1]
        /\ cUp' = [cUp EXCEPT ![c] = FALSE]
    BY <1>5 DEF DropConnection, LastOnConn, Point
  <2>2. Counted(Point(plcConn, p, Null), Point(cRefs, c, 0), CONNECTIONs \ {c}, ConnId)
    BY <1>1, <1>5, CountLeaveLast
  <2>3. cRefs' \in [ConnId -> Int]
    BY <1>1, <1>5, <2>1 DEF Point, Pointers
  <2> QED
    BY <1>1, <1>2, <1>3, <2>1, <2>2, <2>3 DEF ConnInv
<1>6. CASE c # Null /\ ~(cRefs[c] - 1 <= 0)
  <2>1. /\ cRefs' = Point(cRefs, c, cRefs[c] - 1)
        /\ UNCHANGED <<CONNECTIONs, cSession, cOpener, cUp>>
    BY <1>6 DEF DropConnection, LastOnConn, Point
  <2>2. Counted(Point(plcConn, p, Null), Point(cRefs, c, cRefs[c] - 1),
                CONNECTIONs, ConnId)
    BY <1>1, <1>6, CountLeave
  <2>3. cRefs' \in [ConnId -> Int]
    BY <1>1, <1>6, <2>1 DEF Point, Pointers
  <2> QED
    BY <1>1, <1>2, <2>1, <2>2, <2>3 DEF ConnInv
<1> QED
  BY <1>4, <1>5, <1>6

(* ... and both. *)
LEMMA InvDisconnectPlc ==
    ASSUME LinksInv, NEW p \in Plc, DisconnectPlc(p)
    PROVE  LinksInv'
<1>1. /\ DropSession(p) /\ plcSession' = [plcSession EXCEPT ![p] = Null]
      /\ DropConnection(p) /\ plcConn' = [plcConn EXCEPT ![p] = Null]
      /\ UNCHANGED daemon /\ corrupt' \in BOOLEAN
  BY DEF DisconnectPlc, LinksInv, LinksTypes
<1>2. daemon' \in {"up", "killed", "stopped"}
  BY <1>1 DEF LinksInv, LinksTypes
<1> QED
  BY <1>1, <1>2, InvDropSession, InvDropConnection DEF LinksInv, LinksTypes

(* Steps that neither join nor leave a link. *)
LEMMA InvUnchanged ==
    ASSUME LinksInv, UNCHANGED <<daemon, pointers, sessionVars, connVars>>,
           sState' \in [SessionId -> SocketState], cUp' \in [ConnId -> BOOLEAN],
           corrupt' \in BOOLEAN
    PROVE  LinksInv'
<1>1. SessionInv' /\ ConnInv'
  BY DEF LinksInv, SessionInv, ConnInv, pointers, sessionVars, connVars
<1>2. LinksTypes'
  BY DEF LinksInv, LinksTypes, pointers, sessionVars, connVars
<1> QED
  BY <1>1, <1>2 DEF LinksInv

LEMMA InvNext ==
    ASSUME ~RegisterMayFail, LinksInv, [LinksNext]_linkVars
    PROVE  LinksInv'
<1>1. /\ sState \in [SessionId -> SocketState] /\ cUp \in [ConnId -> BOOLEAN]
      /\ corrupt \in BOOLEAN
  BY DEF LinksInv, LinksTypes
<1>2. CASE UNCHANGED linkVars
  BY <1>1, <1>2, InvUnchanged DEF linkVars
<1>3. ASSUME NEW p \in Plc, BuildSession(p) PROVE LinksInv'
  <2>1. CASE ShareSession(p)
    BY <2>1, InvShareSession
  <2>2. ASSUME NEW s \in SessionId, NEW state \in {"open", "refused"},
               OpenSession(p, s, TRUE, state)
        PROVE  LinksInv'
    BY <2>2, InvOpenSession DEF SocketState
  <2>3. ASSUME NEW s \in SessionId, OpenSession(p, s, FALSE, "fin")
        PROVE  FALSE
    BY <2>3 DEF OpenSession
  <2> QED
    BY <1>3, <2>1, <2>2, <2>3 DEF BuildSession
<1>4. ASSUME NEW p \in Plc, BuildConnection(p) PROVE LinksInv'
  BY <1>4, InvShareConnection, InvOpenConnection DEF BuildConnection
<1>5. ASSUME NEW p \in Plc,
             BuildSessionFails(p) \/ BuildConnectionFails(p) \/ Exchange(p)
      PROVE  LinksInv'
  BY <1>1, <1>5, InvUnchanged
     DEF BuildSessionFails, BuildConnectionFails, Exchange, linkVars
<1>6. ASSUME NEW p \in Plc, \/ BuildConnectionKilled(p) \/ ExchangeKilled(p)
                            \/ DisconnectPlcKilled(p)
      PROVE  LinksInv'
  BY <1>6, InvEnd DEF BuildConnectionKilled, ExchangeKilled, DisconnectPlcKilled
<1>7. ASSUME NEW p \in Plc, DisconnectPlc(p) PROVE LinksInv'
  BY <1>7, InvDisconnectPlc
<1>8. CASE KillConnections \/ ReplyKills \/ Crash
  <2>1. PICK how \in {"up", "killed", "stopped"} : EndProcess(how)
    BY <1>8 DEF KillConnections, ReplyKills, Crash
  <2> QED
    BY <2>1, InvEnd
<1>9. CASE OtherSide
  <2>1. UNCHANGED <<daemon, pointers, sessionVars, connVars, corrupt>>
    BY <1>9 DEF OtherSide, GatewayCloses, GatewayResets, PlcForgets, OrphansDropped
  <2>2. sState' \in [SessionId -> SocketState] /\ cUp' \in [ConnId -> BOOLEAN]
    BY <1>1, <1>9 DEF OtherSide, GatewayCloses, GatewayResets, PlcForgets, OrphansDropped, SocketState
  <2> QED
    BY <1>1, <2>1, <2>2, InvUnchanged
<1> QED
  BY <1>2, <1>3, <1>4, <1>5, <1>6, <1>7, <1>8, <1>9 DEF LinksNext

-----------------------------------------------------------------------------
(* Links are left open, or they are not. *)
LEMMA OrphansNext ==
    ASSUME orphans \in BOOLEAN, [LinksNext]_linkVars
    PROVE  orphans' \in BOOLEAN
<1>1. CASE UNCHANGED linkVars
  BY <1>1 DEF linkVars
<1>2. ASSUME NEW how, EndProcess(how) PROVE orphans' \in BOOLEAN
  BY <1>2 DEF EndProcess
<1>3. ASSUME NEW p \in Plc, \/ BuildSession(p) \/ BuildSessionFails(p)
                            \/ BuildConnection(p) \/ BuildConnectionFails(p)
                            \/ Exchange(p) \/ DisconnectPlc(p)
      PROVE  UNCHANGED orphans
  BY <1>3 DEF BuildSession, ShareSession, OpenSession, BuildSessionFails,
              BuildConnection, ShareConnection, OpenConnection,
              BuildConnectionFails, Exchange, DisconnectPlc, linkVars
<1>4. CASE OtherSide
  BY <1>4 DEF OtherSide, GatewayCloses, GatewayResets, PlcForgets, OrphansDropped
<1>5. CASE \/ KillConnections \/ ReplyKills \/ Crash
           \/ \E p \in Plc : \/ BuildConnectionKilled(p) \/ ExchangeKilled(p)
                             \/ DisconnectPlcKilled(p)
  <2>1. \E how : EndProcess(how)
    BY <1>5 DEF KillConnections, ReplyKills, Crash, BuildConnectionKilled,
                ExchangeKilled, DisconnectPlcKilled
  <2> QED
    BY <2>1, <1>2
<1> QED
  BY <1>1, <1>3, <1>4, <1>5 DEF LinksNext

LEMMA InvImplies == LinksInv => RefCounts /\ (orphans \in BOOLEAN => LinksTypeOK)
<1> SUFFICES ASSUME LinksInv
             PROVE  RefCounts /\ (orphans \in BOOLEAN => LinksTypeOK)
  OBVIOUS
<1>1. \A s : SessionUsers(s) = Users(plcSession, s)
  BY DEF SessionUsers, Users
<1>2. \A c : ConnUsers(c) = Users(plcConn, c)
  BY DEF ConnUsers, Users
<1>3. RefCounts
  BY <1>1, <1>2 DEF RefCounts, LinksInv, LinksTypes, SessionInv, ConnInv, Counted
<1>4. sRefs \in [SessionId -> 0 .. NPlc]
  <2>1. \A s \in SessionId : sRefs[s] \in 0 .. NPlc
    BY UsersFinite DEF LinksInv, SessionInv, Counted
  <2> QED
    BY <2>1 DEF LinksInv, LinksTypes
<1>5. cRefs \in [ConnId -> 0 .. NPlc]
  <2>1. \A c \in ConnId : cRefs[c] \in 0 .. NPlc
    BY UsersFinite DEF LinksInv, ConnInv, Counted
  <2> QED
    BY <2>1 DEF LinksInv, LinksTypes
<1>6. orphans \in BOOLEAN => LinksTypeOK
  BY <1>4, <1>5 DEF LinksTypeOK, LinksInv, LinksTypes, SessionInv, Pointers
<1> QED
  BY <1>3, <1>6

(* When every RegisterSession is answered, no order of joins, failures,    *)
(* leaves, resets and restarts can take a pointer or a References counter  *)
(* of BuildSession, BuildConnection and DisconnectPlc out of its range.    *)
THEOREM LinksTyped ==
    ASSUME ~RegisterMayFail
    PROVE  LinksSpec => []LinksTypeOK
<1>1. LinksInit => LinksInv /\ orphans \in BOOLEAN
  BY InvInit DEF LinksInit
<1>2. LinksInv /\ orphans \in BOOLEAN /\ [LinksNext]_linkVars
        => LinksInv' /\ (orphans \in BOOLEAN)'
  <2>1. LinksInv /\ [LinksNext]_linkVars => LinksInv'
    BY InvNext
  <2>2. orphans \in BOOLEAN /\ [LinksNext]_linkVars => (orphans \in BOOLEAN)'
    BY OrphansNext
  <2> QED
    BY <2>1, <2>2
<1>3. LinksInv /\ orphans \in BOOLEAN => LinksTypeOK
  BY InvImplies
<1> QED
  BY <1>1, <1>2, <1>3, PTL DEF LinksSpec

(* And the References of a listed session or connection is the number of   *)
(* PLCs that point to it, which is what DisconnectPlc closes links on.     *)
THEOREM LinksCounted ==
    ASSUME ~RegisterMayFail
    PROVE  LinksSpec => []RefCounts
<1>1. LinksInit => LinksInv
  BY InvInit
<1>2. LinksInv /\ [LinksNext]_linkVars => LinksInv'
  BY InvNext
<1>3. LinksInv => RefCounts
  BY InvImplies
<1> QED
  BY <1>1, <1>2, <1>3, PTL DEF LinksSpec

-----------------------------------------------------------------------------
(* Every step of the counters is a step of SharedLinks. *)
LEMMA ReleaseKeepsUsed ==
    ASSUME NEW L, NEW f \in Pointers(L), NEW refs, NEW live \in SUBSET L,
           NEW before \in SUBSET L, live \subseteq before,
           Counted(f, refs, live, L)
    PROVE  live = {l \in before : \E p \in Plc : f[p] = l}
BY DEF Counted, Users

LEMMA DisconnectReleases ==
    ASSUME LinksInv, NEW p \in Plc, DisconnectPlc(p)
    PROVE  Sessions!Release(p) /\ Connections!Release(p)
<1>1. LinksInv'
  BY InvDisconnectPlc
<1>2. heapS' \subseteq heapS /\ CONNECTIONs' \subseteq CONNECTIONs
  BY DEF DisconnectPlc, DropSession, DropConnection
<1>3. heapS' = {l \in heapS : \E q \in Plc : plcSession'[q] = l}
  BY <1>1, <1>2, ReleaseKeepsUsed DEF LinksInv, LinksTypes, SessionInv
<1>4. CONNECTIONs' = {l \in CONNECTIONs : \E q \in Plc : plcConn'[q] = l}
  BY <1>1, <1>2, ReleaseKeepsUsed DEF LinksInv, LinksTypes, ConnInv
<1> QED
  BY <1>3, <1>4 DEF DisconnectPlc, Sessions!Release, Connections!Release

LEMMA ShareSessionShares ==
    ASSUME LinksInv, NEW p \in Plc, ShareSession(p)
    PROVE  Sessions!Next
<1> DEFINE q == First(SessionsFor(p))
           s == plcSession[q]
<1>1. q \in Plc /\ s # Null
  <2>1. SessionsFor(p) \in SUBSET Plc /\ SessionsFor(p) # {}
    BY ConfigAssumption DEF SessionsFor, ShareSession
  <2>2. q \in SessionsFor(p)
    BY <2>1, FirstIn
  <2> QED
    BY <2>1, <2>2 DEF SessionsFor
<1>2. /\ plcSession[p] = Null /\ plcSession' = [plcSession EXCEPT ![p] = s]
      /\ heapS' = heapS
  BY DEF ShareSession
<1> HIDE DEF q
<1>3. s \in heapS /\ s \in SessionId
  BY <1>1, PointedIsLive DEF LinksInv, LinksTypes, SessionInv
<1>4. Sessions!Share(p, s)
  BY <1>1, <1>2, <1>3 DEF Sessions!Share
<1> QED
  BY <1>3, <1>4 DEF Sessions!Next

LEMMA ShareConnectionShares ==
    ASSUME LinksInv, NEW p \in Plc, ShareConnection(p)
    PROVE  Connections!Next
<1> DEFINE q == First(ConnsFor(p))
           c == plcConn[q]
<1>1. q \in Plc /\ c # Null
  <2>1. ConnsFor(p) \in SUBSET Plc /\ ConnsFor(p) # {}
    BY DEF ConnsFor, ShareConnection
  <2>2. q \in ConnsFor(p)
    BY <2>1, FirstIn
  <2> QED
    BY <2>1, <2>2 DEF ConnsFor
<1>2. /\ plcConn[p] = Null /\ plcConn' = [plcConn EXCEPT ![p] = c]
      /\ CONNECTIONs' = CONNECTIONs
  BY DEF ShareConnection
<1> HIDE DEF q
<1>3. c \in CONNECTIONs /\ c \in ConnId
  BY <1>1, PointedIsLive DEF LinksInv, LinksTypes, ConnInv
<1>4. Connections!Share(p, c)
  BY <1>1, <1>2, <1>3 DEF Connections!Share
<1> QED
  BY <1>3, <1>4 DEF Connections!Next

LEMMA StepShares ==
    ASSUME ~RegisterMayFail, LinksInv, [LinksNext]_linkVars
    PROVE  [Sessions!Next]_(Sessions!vars) /\ [Connections!Next]_(Connections!vars)
<1> USE DEF Sessions!vars, Connections!vars
<1>1. CASE UNCHANGED linkVars
  BY <1>1 DEF linkVars, pointers, sessionVars, connVars
<1>2. ASSUME NEW p \in Plc, ShareSession(p)
      PROVE  Sessions!Next /\ UNCHANGED <<plcConn, CONNECTIONs>>
  BY <1>2, ShareSessionShares DEF ShareSession, connVars
<1>3. ASSUME NEW p \in Plc, NEW s \in SessionId, NEW answered \in BOOLEAN,
             NEW state, OpenSession(p, s, answered, state)
      PROVE  Sessions!Next /\ UNCHANGED <<plcConn, CONNECTIONs>>
  <2>1. Sessions!Open(p, s)
    BY <1>3 DEF OpenSession, Sessions!Open, Freed
  <2> QED
    BY <1>3, <2>1 DEF OpenSession, connVars, Sessions!Next
<1>4. ASSUME NEW p \in Plc, ShareConnection(p)
      PROVE  Connections!Next /\ UNCHANGED <<plcSession, heapS>>
  BY <1>4, ShareConnectionShares DEF ShareConnection, sessionVars
<1>5. ASSUME NEW p \in Plc, NEW c \in ConnId, NEW up, OpenConnection(p, c, up)
      PROVE  Connections!Next /\ UNCHANGED <<plcSession, heapS>>
  <2>1. Connections!Open(p, c)
    BY <1>5 DEF OpenConnection, AsksForwardOpen, Connections!Open
  <2> QED
    BY <1>5, <2>1 DEF OpenConnection, sessionVars, Connections!Next
<1>6. ASSUME NEW p \in Plc, DisconnectPlc(p)
      PROVE  Sessions!Next /\ Connections!Next
  BY <1>6, DisconnectReleases DEF Sessions!Next, Connections!Next
<1>7. ASSUME NEW how, EndProcess(how)
      PROVE  Sessions!Next /\ Connections!Next
  BY <1>7 DEF EndProcess, Sessions!Next, Connections!Next,
              Sessions!CloseAll, Connections!CloseAll
<1>8. ASSUME NEW p \in Plc,
             BuildSessionFails(p) \/ BuildConnectionFails(p) \/ Exchange(p)
      PROVE  UNCHANGED <<plcSession, heapS, plcConn, CONNECTIONs>>
  BY <1>8 DEF BuildSessionFails, BuildConnectionFails, Exchange,
              linkVars, pointers, sessionVars, connVars
<1>9. CASE OtherSide
  BY <1>9 DEF OtherSide, GatewayCloses, GatewayResets, PlcForgets,
              OrphansDropped, pointers, sessionVars, connVars
<1>10. ASSUME NEW p \in Plc, BuildSession(p)
       PROVE  Sessions!Next /\ UNCHANGED <<plcConn, CONNECTIONs>>
  BY <1>2, <1>3, <1>10 DEF BuildSession
<1>11. ASSUME NEW p \in Plc, BuildConnection(p)
       PROVE  Connections!Next /\ UNCHANGED <<plcSession, heapS>>
  BY <1>4, <1>5, <1>11 DEF BuildConnection
<1>12. CASE \/ KillConnections \/ ReplyKills \/ Crash
            \/ \E p \in Plc : \/ BuildConnectionKilled(p) \/ ExchangeKilled(p)
                              \/ DisconnectPlcKilled(p)
  <2>1. PICK how : EndProcess(how)
    BY <1>12 DEF KillConnections, ReplyKills, Crash, BuildConnectionKilled,
                 ExchangeKilled, DisconnectPlcKilled
  <2> QED
    BY <2>1, <1>7
<1> QED
  BY <1>1, <1>6, <1>8, <1>9, <1>10, <1>11, <1>12 DEF LinksNext

(* For every alias file: the References counters of tuxreader implement    *)
(* "open when the first PLC asks, shared while held, closed when the last  *)
(* holder leaves", for sessions and for connections.                       *)
THEOREM SessionsAreShared ==
    ASSUME ~RegisterMayFail
    PROVE  LinksSpec => SessionsShared
<1>1. LinksInit => LinksInv /\ Sessions!Init
  BY InvInit DEF LinksInit, Sessions!Init
<1>2. LinksInv /\ [LinksNext]_linkVars => LinksInv' /\ [Sessions!Next]_(Sessions!vars)
  BY InvNext, StepShares
<1> QED
  BY <1>1, <1>2, PTL DEF LinksSpec, SessionsShared, Sessions!Spec

THEOREM ConnectionsAreShared ==
    ASSUME ~RegisterMayFail
    PROVE  LinksSpec => ConnectionsShared
<1>1. LinksInit => LinksInv /\ Connections!Init
  BY InvInit DEF LinksInit, Connections!Init
<1>2. LinksInv /\ [LinksNext]_linkVars => LinksInv' /\ [Connections!Next]_(Connections!vars)
  BY InvNext, StepShares
<1> QED
  BY <1>1, <1>2, PTL DEF LinksSpec, ConnectionsShared, Connections!Spec

-----------------------------------------------------------------------------
(***************************************************************************)
(* Links lead where the alias file says and never dangle, whatever PLCs    *)
(* share them, provided that the prefix comparisons of FindSession and     *)
(* FindConnection are exact on the file in use (ExactFile).                *)
(***************************************************************************)

ExactFile ==
    \A p, q \in Plc :
       /\ <<q, p>> \in IpStarts => Ip[q] = Ip[p]
       /\ <<q, p>> \in PathStarts => Address(q) = Address(p)

(* The session of a PLC is at its gateway; a gateway has one session; and  *)
(* the connection of a PLC was opened on the session of that PLC, for its  *)
(* path and network.                                                       *)
OwnGateway == \A p \in Plc : plcSession[p] # Null =>
                 p \in Parses /\ Ip[sOpener[plcSession[p]]] = Ip[p]
OnePerGateway == \A p, q \in Plc :
                    (plcSession[p] # Null /\ plcSession[q] # Null /\ Ip[p] = Ip[q])
                      => plcSession[p] = plcSession[q]
OwnConnection == \A p \in Plc : plcConn[p] # Null =>
                    /\ plcSession[p] # Null
                    /\ cSession[plcConn[p]] = plcSession[p]
                    /\ Path[cOpener[plcConn[p]]] = Path[p]
                    /\ NetWork[cOpener[plcConn[p]]] = NetWork[p]

DeviceInv == OwnGateway /\ OnePerGateway /\ OwnConnection /\ corrupt = FALSE

(* What LinksInv gives for a single PLC. *)
LEMMA HeldLinks ==
    ASSUME LinksInv, NEW p \in Plc
    PROVE  /\ plcSession[p] \in SessionId \union {Null}
           /\ plcSession[p] # Null => plcSession[p] \in heapS
           /\ plcConn[p] \in ConnId \union {Null}
           /\ plcConn[p] # Null => plcConn[p] \in CONNECTIONs
<1>1. plcSession[p] \in SessionId \union {Null} /\ plcConn[p] \in ConnId \union {Null}
  BY DEF LinksInv, LinksTypes, Pointers
<1>2. plcSession[p] # Null => plcSession[p] \in heapS
  BY PointedIsLive DEF LinksInv, LinksTypes, SessionInv
<1>3. plcConn[p] # Null => plcConn[p] \in CONNECTIONs
  BY PointedIsLive DEF LinksInv, LinksTypes, ConnInv
<1> QED
  BY <1>1, <1>2, <1>3

LEMMA DeviceEnd ==
    ASSUME NEW how, EndProcess(how)
    PROVE  DeviceInv'
BY DEF EndProcess, DeviceInv, OwnGateway, OnePerGateway, OwnConnection

LEMMA DeviceInit == LinksInit => DeviceInv
BY DEF LinksInit, DeviceInv, OwnGateway, OnePerGateway, OwnConnection

LEMMA DeviceShareSession ==
    ASSUME ExactFile, LinksInv, DeviceInv, NEW p \in Plc, ShareSession(p)
    PROVE  DeviceInv'
<1> DEFINE q == First(SessionsFor(p))
           s == plcSession[q]
<1>1. q \in Plc /\ s # Null /\ <<q, p>> \in IpStarts
  <2>1. SessionsFor(p) \in SUBSET Plc /\ SessionsFor(p) # {}
    BY ConfigAssumption DEF SessionsFor, ShareSession
  <2>2. q \in SessionsFor(p)
    BY <2>1, FirstIn
  <2> QED
    BY <2>1, <2>2 DEF SessionsFor
<1>2. /\ plcSession[p] = Null /\ p \in Parses
      /\ plcSession' = [plcSession EXCEPT ![p] = s]
      /\ corrupt' = (corrupt \/ s \notin heapS)
      /\ UNCHANGED <<plcConn, sOpener, cSession, cOpener>>
  BY DEF ShareSession, Freed, connVars
<1> HIDE DEF q
<1>3. s \in heapS /\ Ip[q] = Ip[p]
  BY <1>1, HeldLinks DEF ExactFile
<1>4. \A r \in Plc : plcSession'[r] = IF r = p THEN s ELSE plcSession[r]
  BY <1>2 DEF LinksInv, LinksTypes, Pointers
<1> HIDE DEF s
<1>5. Ip[sOpener[s]] = Ip[p]
  BY <1>1, <1>3 DEF DeviceInv, OwnGateway, s
<1>6. \A r \in Plc : plcSession[r] # Null /\ Ip[r] = Ip[p] => plcSession[r] = s
  BY <1>1, <1>3 DEF DeviceInv, OnePerGateway, s
<1>7. OwnGateway'
  BY <1>2, <1>4, <1>5 DEF DeviceInv, OwnGateway
<1>8. OnePerGateway'
  BY <1>4, <1>6 DEF DeviceInv, OnePerGateway
<1>9. OwnConnection'
  BY <1>2, <1>4 DEF DeviceInv, OwnConnection
<1> QED
  BY <1>2, <1>3, <1>7, <1>8, <1>9 DEF DeviceInv

LEMMA DeviceOpenSession ==
    ASSUME LinksInv, DeviceInv, NEW p \in Plc, NEW s \in SessionId,
           NEW state, OpenSession(p, s, TRUE, state)
    PROVE  DeviceInv'
<1>1. /\ plcSession[p] = Null /\ p \in Parses /\ s \notin heapS
      /\ SessionsFor(p) = {}
      /\ plcSession' = [plcSession EXCEPT ![p] = s]
      /\ sOpener' = [sOpener EXCEPT ![s] = p]
      /\ corrupt' = corrupt
      /\ UNCHANGED <<plcConn, cSession, cOpener>>
  BY DEF OpenSession, Freed, connVars, DeviceInv
<1>2. \A r \in Plc : plcSession'[r] = IF r = p THEN s ELSE plcSession[r]
  BY <1>1 DEF LinksInv, LinksTypes, Pointers
<1>3. sOpener'[s] = p /\ \A r \in SessionId : r # s => sOpener'[r] = sOpener[r]
  BY <1>1 DEF LinksInv, LinksTypes
<1>4. \A r \in Plc : plcSession[r] # Null =>
                        plcSession[r] # s /\ plcSession[r] \in SessionId
  BY <1>1, HeldLinks
<1>5. \A r \in Plc : plcSession[r] # Null => Ip[r] # Ip[p]
  BY <1>1, ConfigAssumption DEF SessionsFor, DeviceInv, OwnGateway
<1>6. OwnGateway'
  BY <1>1, <1>2, <1>3, <1>4 DEF DeviceInv, OwnGateway
<1>7. OnePerGateway'
  BY <1>2, <1>5 DEF DeviceInv, OnePerGateway
<1>8. OwnConnection'
  BY <1>1, <1>2 DEF DeviceInv, OwnConnection
<1> QED
  BY <1>1, <1>6, <1>7, <1>8 DEF DeviceInv

LEMMA DeviceShareConnection ==
    ASSUME ExactFile, LinksInv, DeviceInv, NEW p \in Plc, ShareConnection(p)
    PROVE  DeviceInv'
<1> DEFINE q == First(ConnsFor(p))
           c == plcConn[q]
<1>1. q \in Plc /\ c # Null /\ <<q, p>> \in PathStarts
  <2>1. ConnsFor(p) \in SUBSET Plc /\ ConnsFor(p) # {}
    BY DEF ConnsFor, ShareConnection
  <2>2. q \in ConnsFor(p)
    BY <2>1, FirstIn
  <2> QED
    BY <2>1, <2>2 DEF ConnsFor
<1>2. /\ plcSession[p] # Null
      /\ plcConn' = [plcConn EXCEPT ![p] = c]
      /\ UNCHANGED <<plcSession, sOpener, cSession, cOpener, corrupt>>
  BY DEF ShareConnection, sessionVars
<1> HIDE DEF q
<1>3. Ip[q] = Ip[p] /\ Path[q] = Path[p] /\ NetWork[q] = NetWork[p]
  <2>1. Address(q) = Address(p)
    BY <1>1 DEF ExactFile
  <2> QED
    BY <2>1 DEF Address
<1>4. \A r \in Plc : plcConn'[r] = IF r = p THEN c ELSE plcConn[r]
  BY <1>2 DEF LinksInv, LinksTypes, Pointers
<1>5. /\ cSession[c] = plcSession[q] /\ plcSession[q] # Null
      /\ Path[cOpener[c]] = Path[q] /\ NetWork[cOpener[c]] = NetWork[q]
  BY <1>1 DEF DeviceInv, OwnConnection
<1>6. plcSession[q] = plcSession[p]
  BY <1>1, <1>2, <1>3, <1>5 DEF DeviceInv, OnePerGateway
<1> HIDE DEF c
<1>7. OwnConnection'
  BY <1>2, <1>3, <1>4, <1>5, <1>6 DEF DeviceInv, OwnConnection
<1> QED
  BY <1>2, <1>7 DEF DeviceInv, OwnGateway, OnePerGateway

LEMMA DeviceOpenConnection ==
    ASSUME LinksInv, DeviceInv, NEW p \in Plc, NEW c \in ConnId, NEW up,
           OpenConnection(p, c, up)
    PROVE  DeviceInv'
<1>1. /\ plcSession[p] # Null /\ c \notin CONNECTIONs
      /\ plcConn' = [plcConn EXCEPT ![p] = c]
      /\ cSession' = [cSession EXCEPT ![c] = plcSession[p]]
      /\ cOpener' = [cOpener EXCEPT ![c] = p]
      /\ UNCHANGED <<plcSession, sOpener, corrupt>>
  BY DEF OpenConnection, AsksForwardOpen, sessionVars
<1>2. \A r \in Plc : plcConn'[r] = IF r = p THEN c ELSE plcConn[r]
  BY <1>1 DEF LinksInv, LinksTypes, Pointers
<1>3. /\ cSession'[c] = plcSession[p] /\ cOpener'[c] = p
      /\ \A d \in ConnId : d # c => cSession'[d] = cSession[d] /\ cOpener'[d] = cOpener[d]
  BY <1>1 DEF LinksInv, LinksTypes
<1>4. \A r \in Plc : plcConn[r] # Null => plcConn[r] # c /\ plcConn[r] \in ConnId
  BY <1>1, HeldLinks
<1>5. OwnConnection'
  BY <1>1, <1>2, <1>3, <1>4 DEF DeviceInv, OwnConnection
<1> QED
  BY <1>1, <1>5 DEF DeviceInv, OwnGateway, OnePerGateway

(* DisconnectPlc closes nothing that another PLC still points to. *)
LEMMA OthersKeepTheirs ==
    ASSUME LinksInv, NEW p \in Plc, DisconnectPlc(p)
    PROVE  /\ \A r \in Plc : plcSession'[r] = IF r = p THEN Null ELSE plcSession[r]
           /\ \A r \in Plc : plcConn'[r] = IF r = p THEN Null ELSE plcConn[r]
           /\ \A r \in Plc \ {p} : plcSession[r] # Null =>
                 sOpener'[plcSession[r]] = sOpener[plcSession[r]]
           /\ \A r \in Plc \ {p} : plcConn[r] # Null =>
                 /\ cSession'[plcConn[r]] = cSession[plcConn[r]]
                 /\ cOpener'[plcConn[r]] = cOpener[plcConn[r]]
<1>1. LinksInv'
  BY InvDisconnectPlc
<1>2. /\ plcSession' = [plcSession EXCEPT ![p] = Null]
      /\ plcConn' = [plcConn EXCEPT ![p] = Null]
      /\ DropSession(p) /\ DropConnection(p)
  BY DEF DisconnectPlc
<1>3. /\ \A r \in Plc : plcSession'[r] = IF r = p THEN Null ELSE plcSession[r]
      /\ \A r \in Plc : plcConn'[r] = IF r = p THEN Null ELSE plcConn[r]
  BY <1>2 DEF LinksInv, LinksTypes, Pointers
<1>4. /\ \A r \in Plc : plcSession'[r] # Null => plcSession'[r] \in heapS'
      /\ \A r \in Plc : plcConn'[r] # Null => plcConn'[r] \in CONNECTIONs'
  <2>1. plcSession' \in Pointers(SessionId) /\ plcConn' \in Pointers(ConnId)
    BY <1>1 DEF LinksInv, LinksTypes
  <2>2. /\ Counted(plcSession', sRefs', heapS', SessionId)
        /\ Counted(plcConn', cRefs', CONNECTIONs', ConnId)
    BY <1>1 DEF LinksInv, SessionInv, ConnInv
  <2> QED
    BY <2>1, <2>2, PointedIsLive
<1>5. ASSUME NEW r \in Plc \ {p}, plcSession[r] # Null
      PROVE  sOpener'[plcSession[r]] = sOpener[plcSession[r]]
  <2>1. plcSession[r] \in heapS' /\ plcSession[r] \in SessionId
    BY <1>3, <1>4, <1>5, HeldLinks
  <2>2. \/ UNCHANGED sOpener
        \/ /\ heapS' = heapS \ {plcSession[p]}
           /\ sOpener' = [sOpener EXCEPT ![plcSession[p]] = 1]
    BY <1>2 DEF DropSession
  <2> QED
    BY <2>1, <2>2 DEF LinksInv, LinksTypes
<1>6. ASSUME NEW r \in Plc \ {p}, plcConn[r] # Null
      PROVE  /\ cSession'[plcConn[r]] = cSession[plcConn[r]]
             /\ cOpener'[plcConn[r]] = cOpener[plcConn[r]]
  <2>1. plcConn[r] \in CONNECTIONs' /\ plcConn[r] \in ConnId
    BY <1>3, <1>4, <1>6, HeldLinks
  <2>2. \/ UNCHANGED <<cSession, cOpener>>
        \/ /\ CONNECTIONs' = CONNECTIONs \ {plcConn[p]}
           /\ cSession' = [cSession EXCEPT ![plcConn[p]] = Null]
           /\ cOpener' = [cOpener EXCEPT ![plcConn[p]] = 1]
    BY <1>2 DEF DropConnection
  <2> QED
    BY <2>1, <2>2 DEF LinksInv, LinksTypes
<1> QED
  BY <1>3, <1>5, <1>6

LEMMA DeviceDisconnectPlc ==
    ASSUME LinksInv, DeviceInv, NEW p \in Plc, DisconnectPlc(p)
    PROVE  DeviceInv'
<1>1. /\ \A r \in Plc : plcSession'[r] = IF r = p THEN Null ELSE plcSession[r]
      /\ \A r \in Plc : plcConn'[r] = IF r = p THEN Null ELSE plcConn[r]
  BY OthersKeepTheirs
<1>2. \A r \in Plc \ {p} : plcSession[r] # Null =>
         sOpener'[plcSession[r]] = sOpener[plcSession[r]]
  BY OthersKeepTheirs
<1>3. \A r \in Plc \ {p} : plcConn[r] # Null =>
         /\ cSession'[plcConn[r]] = cSession[plcConn[r]]
         /\ cOpener'[plcConn[r]] = cOpener[plcConn[r]]
  BY OthersKeepTheirs
<1>4. OwnGateway' /\ OnePerGateway'
  BY <1>1, <1>2 DEF DeviceInv, OwnGateway, OnePerGateway
<1>5. OwnConnection'
  BY <1>1, <1>3 DEF DeviceInv, OwnConnection
<1>6. corrupt' = FALSE
  <2>1. plcSession[p] # Null => plcSession[p] \in heapS
    BY HeldLinks
  <2>2. plcConn[p] # Null => plcSession[p] # Null /\ cSession[plcConn[p]] = plcSession[p]
    BY DEF DeviceInv, OwnConnection
  <2> QED
    BY <2>1, <2>2 DEF DisconnectPlc, DeviceInv, Freed, LastOnConn
<1> QED
  BY <1>4, <1>5, <1>6 DEF DeviceInv

LEMMA DeviceUnchanged ==
    ASSUME DeviceInv, UNCHANGED <<pointers, sessionVars, connVars, corrupt>>
    PROVE  DeviceInv'
BY DEF DeviceInv, OwnGateway, OnePerGateway, OwnConnection,
       pointers, sessionVars, connVars

LEMMA DeviceNext ==
    ASSUME ~RegisterMayFail, ExactFile, LinksInv, DeviceInv, [LinksNext]_linkVars
    PROVE  DeviceInv'
<1>1. CASE UNCHANGED linkVars
  BY <1>1, DeviceUnchanged DEF linkVars
<1>2. ASSUME NEW p \in Plc, BuildSession(p) PROVE DeviceInv'
  <2>1. CASE ShareSession(p)
    BY <2>1, DeviceShareSession
  <2>2. ASSUME NEW s \in SessionId, NEW state, OpenSession(p, s, TRUE, state)
        PROVE  DeviceInv'
    BY <2>2, DeviceOpenSession
  <2>3. ASSUME NEW s \in SessionId, OpenSession(p, s, FALSE, "fin")
        PROVE  FALSE
    BY <2>3 DEF OpenSession
  <2> QED
    BY <1>2, <2>1, <2>2, <2>3 DEF BuildSession
<1>3. ASSUME NEW p \in Plc, BuildConnection(p) PROVE DeviceInv'
  BY <1>3, DeviceShareConnection, DeviceOpenConnection DEF BuildConnection
<1>4. ASSUME NEW p \in Plc,
             BuildSessionFails(p) \/ BuildConnectionFails(p) \/ Exchange(p)
      PROVE  DeviceInv'
  <2>1. plcSession[p] # Null => plcSession[p] \in heapS
    BY HeldLinks
  <2>2. UNCHANGED <<pointers, sessionVars, connVars>>
    BY <1>4 DEF BuildSessionFails, BuildConnectionFails, Exchange, linkVars
  <2>3. corrupt' = corrupt
    BY <1>4, <2>1 DEF BuildSessionFails, BuildConnectionFails, Exchange,
                      linkVars, Freed, HasLink, DeviceInv
  <2> QED
    BY <2>2, <2>3, DeviceUnchanged
<1>5. ASSUME NEW p \in Plc, DisconnectPlc(p) PROVE DeviceInv'
  BY <1>5, DeviceDisconnectPlc
<1>6. CASE OtherSide
  <2>1. UNCHANGED <<pointers, sessionVars, connVars, corrupt>>
    BY <1>6 DEF OtherSide, GatewayCloses, GatewayResets, PlcForgets, OrphansDropped
  <2> QED
    BY <2>1, DeviceUnchanged
<1>7. CASE \/ KillConnections \/ ReplyKills \/ Crash
           \/ \E p \in Plc : \/ BuildConnectionKilled(p) \/ ExchangeKilled(p)
                             \/ DisconnectPlcKilled(p)
  <2>1. PICK how : EndProcess(how)
    BY <1>7 DEF KillConnections, ReplyKills, Crash, BuildConnectionKilled,
                ExchangeKilled, DisconnectPlcKilled
  <2> QED
    BY <2>1, DeviceEnd
<1> QED
  BY <1>1, <1>2, <1>3, <1>4, <1>5, <1>6, <1>7 DEF LinksNext

-----------------------------------------------------------------------------
(* The two invariants together leave nothing dangling. *)
LEMMA DeviceImplies ==
    ASSUME LinksInv, DeviceInv
    PROVE  NothingDangles /\ RightDevice
<1>1. ASSUME NEW c \in CONNECTIONs
      PROVE  cSession[c] \in heapS
  <2>1. Users(plcConn, c) # {}
    BY <1>1 DEF LinksInv, LinksTypes, ConnInv, Counted
  <2>2. PICK p \in Plc : plcConn[p] = c
    BY <2>1 DEF Users
  <2>3. c # Null
    BY <1>1, HeapAssumption DEF LinksInv, LinksTypes
  <2> QED
    BY <2>2, <2>3, HeldLinks DEF DeviceInv, OwnConnection
<1>2. NothingDangles
  BY <1>1, HeldLinks DEF NothingDangles, DeviceInv
<1>3. RightDevice
  BY DEF RightDevice, HasLink, Reached, Address, DeviceInv, OwnGateway, OwnConnection
<1> QED
  BY <1>2, <1>3

LEMMA DeviceAlways ==
    ASSUME ~RegisterMayFail, ExactFile
    PROVE  LinksSpec => [](LinksInv /\ DeviceInv)
<1>1. LinksInit => LinksInv /\ DeviceInv
  BY InvInit, DeviceInit
<1>2. LinksInv /\ DeviceInv /\ [LinksNext]_linkVars => LinksInv' /\ DeviceInv'
  BY InvNext, DeviceNext
<1> QED
  BY <1>1, <1>2, PTL DEF LinksSpec

(* BuildSession and BuildConnection hand out only links to the device the  *)
(* PLC was configured for, when no two lines of the alias file are         *)
(* confused by the prefix comparisons.                                     *)
THEOREM LinksReachTheirDevice ==
    ASSUME ~RegisterMayFail, ExactFile
    PROVE  LinksSpec => []RightDevice
<1>1. LinksInv /\ DeviceInv => RightDevice
  BY DeviceImplies
<1> QED
  BY <1>1, DeviceAlways, PTL

(* And DisconnectPlc never closes a session under a connection, or frees   *)
(* a link that a PLC still points to: no freed session is ever used.       *)
THEOREM LinksDoNotDangle ==
    ASSUME ~RegisterMayFail, ExactFile
    PROVE  LinksSpec => []NothingDangles
<1>1. LinksInv /\ DeviceInv => NothingDangles
  BY DeviceImplies
<1> QED
  BY <1>1, DeviceAlways, PTL

-----------------------------------------------------------------------------
(***************************************************************************)
(* What tuxreader and tuxtag need for their lists of tags: how many tags   *)
(* of a PLC a list has after a tag was appended or removed, and which PLCs *)
(* hold a session after a step of the links.  References counts the tags   *)
(* of a PLC, and its links are held exactly as long as it has some.        *)
(***************************************************************************)

(* The positions of a PLC's tags, and the tags that are in a list. *)
Spots(s, p) == {i \in DOMAIN s : s[i].plc = p}
Among(s, k) == \E i \in DOMAIN s : s[i] = k

LEMMA Positions ==
    ASSUME NEW T, NEW s \in Seq(T)
    PROVE  Len(s) \in Nat /\ DOMAIN s = 1 .. Len(s) /\ \A i \in 1 .. Len(s) : s[i] \in T
BY LenProperties, ElementOfSeq

LEMMA SpotsFinite ==
    ASSUME NEW T, NEW s \in Seq(T), NEW p
    PROVE  IsFiniteSet(Spots(s, p)) /\ Cardinality(Spots(s, p)) \in Nat
<1>1. Len(s) \in Nat /\ Spots(s, p) \subseteq 1 .. Len(s)
  BY Positions DEF Spots
<1>2. IsFiniteSet(1 .. Len(s))
  BY <1>1, FS_Interval
<1>3. IsFiniteSet(Spots(s, p))
  BY <1>1, <1>2, FS_Subset
<1> QED
  BY <1>3, FS_CardinalityType

LEMMA NoSpots == \A p : Cardinality(Spots(<<>>, p)) = 0
<1> TAKE p
<1>1. Spots(<<>>, p) = {}
  BY DEF Spots
<1> QED
  BY <1>1, FS_EmptySet

(* A PLC with a tag in the list has a positive count. *)
LEMMA Counts ==
    ASSUME NEW T, NEW s \in Seq(T), NEW k, Among(s, k)
    PROVE  Cardinality(Spots(s, k.plc)) > 0
<1>1. Spots(s, k.plc) # {}
  BY DEF Spots, Among
<1>2. IsFiniteSet(Spots(s, k.plc)) /\ Cardinality(Spots(s, k.plc)) \in Nat
  BY SpotsFinite
<1>3. Cardinality(Spots(s, k.plc)) # 0
  BY <1>1, <1>2, FS_EmptySet
<1> QED
  BY <1>2, <1>3

-----------------------------------------------------------------------------
(* A new tag at the end. *)
LEMMA Appended ==
    ASSUME NEW T, NEW s \in Seq(T), NEW k \in T
    PROVE  /\ Append(s, k) \in Seq(T) /\ Among(Append(s, k), k)
           /\ Cardinality(Spots(Append(s, k), k.plc)) = Cardinality(Spots(s, k.plc)) + 1
           /\ \A p : p # k.plc => Spots(Append(s, k), p) = Spots(s, p)
           /\ IsInjective(s) /\ ~Among(s, k) => IsInjective(Append(s, k))
<1> DEFINE r == Append(s, k)
           n == Len(s) + 1
<1>1. Len(s) \in Nat /\ DOMAIN s = 1 .. Len(s)
  BY Positions
<1>2. r \in Seq(T) /\ Len(r) = n /\ r[n] = k /\ \A i \in 1 .. Len(s) : r[i] = s[i]
  BY AppendProperties
<1>3. DOMAIN r = 1 .. n
  BY <1>2, Positions
<1> HIDE DEF r
<1>4. Spots(r, k.plc) = Spots(s, k.plc) \cup {n} /\ n \notin Spots(s, k.plc)
  BY <1>1, <1>2, <1>3 DEF Spots
<1>5. \A p : p # k.plc => Spots(r, p) = Spots(s, p)
  BY <1>1, <1>2, <1>3 DEF Spots
<1>6. Cardinality(Spots(r, k.plc)) = Cardinality(Spots(s, k.plc)) + 1
  BY <1>4, SpotsFinite, FS_AddElement
<1>7. ASSUME IsInjective(s), ~Among(s, k) PROVE IsInjective(r)
  <2> SUFFICES ASSUME NEW a \in 1 .. n, NEW b \in 1 .. n, r[a] = r[b] PROVE a = b
    BY <1>3 DEF IsInjective
  <2>1. CASE a \in 1 .. Len(s) /\ b \in 1 .. Len(s)
    BY <1>1, <1>2, <1>7, <2>1 DEF IsInjective
  <2>2. CASE a = n /\ b = n
    BY <2>2
  <2>3. ~(a \in 1 .. Len(s) /\ b = n) /\ ~(a = n /\ b \in 1 .. Len(s))
    BY <1>1, <1>2, <1>7 DEF Among
  <2> QED
    BY <1>1, <2>1, <2>2, <2>3
<1>8. Among(r, k)
  BY <1>1, <1>2, <1>3 DEF Among
<1> QED
  BY <1>2, <1>5, <1>6, <1>7, <1>8 DEF r

(* What RemoveAt leaves, position by position. *)
After(k, i) == IF i < k THEN i ELSE i + 1

LEMMA Without ==
    ASSUME NEW S, NEW q \in Seq(S), NEW k \in 1 .. Len(q)
    PROVE  /\ RemoveAt(q, k) \in Seq(S)
           /\ Len(RemoveAt(q, k)) = Len(q) - 1
           /\ \A i \in 1 .. Len(q) - 1 : RemoveAt(q, k)[i] = q[After(k, i)]
<1> DEFINE a == SubSeq(q, 1, k - 1)
           b == SubSeq(q, k + 1, Len(q))
           r == RemoveAt(q, k)
<1>0. Len(q) \in Nat /\ \A i \in 1 .. Len(q) : q[i] \in S
  BY Positions
<1>1. a \in Seq(S) /\ Len(a) = k - 1 /\ \A i \in 1 .. k - 1 : a[i] = q[i]
  <2>1. \A i \in 1 .. k - 1 : q[i] \in S
    BY <1>0
  <2>2. 1 \in Int /\ k - 1 \in Int
    BY <1>0
  <2>3. /\ a \in Seq(S)
        /\ Len(a) = IF 1 <= k - 1 THEN (k - 1) - 1 + 1 ELSE 0
        /\ \A i \in 1 .. (k - 1) - 1 + 1 : a[i] = q[1 + i - 1]
    BY <2>1, <2>2, SubSeqProperties
  <2> QED
    BY <1>0, <2>3
<1>2. b \in Seq(S) /\ Len(b) = Len(q) - k /\ \A i \in 1 .. Len(q) - k : b[i] = q[k + i]
  <2>1. \A i \in k + 1 .. Len(q) : q[i] \in S
    BY <1>0
  <2>2. k + 1 \in Int /\ Len(q) \in Int
    BY <1>0
  <2>3. /\ b \in Seq(S)
        /\ Len(b) = IF k + 1 <= Len(q) THEN Len(q) - (k + 1) + 1 ELSE 0
        /\ \A i \in 1 .. Len(q) - (k + 1) + 1 : b[i] = q[(k + 1) + i - 1]
    BY <2>1, <2>2, SubSeqProperties
  <2> QED
    BY <1>0, <2>3
<1>3. r = a \o b
  BY DEF RemoveAt
<1> HIDE DEF a, b, r
<1>4. /\ r \in Seq(S) /\ Len(r) = Len(a) + Len(b)
      /\ \A i \in 1 .. Len(a) + Len(b) : r[i] = IF i <= Len(a) THEN a[i] ELSE b[i - Len(a)]
  BY <1>1, <1>2, <1>3, ConcatProperties
<1>5. Len(r) = Len(q) - 1
  BY <1>0, <1>1, <1>2, <1>4
<1>6. ASSUME NEW i \in 1 .. Len(q) - 1 PROVE r[i] = q[After(k, i)]
  <2>0. i \in 1 .. Len(a) + Len(b)
    BY <1>4, <1>5
  <2>1. CASE i < k
    BY <1>0, <1>1, <1>4, <2>0, <2>1 DEF After
  <2>2. CASE ~(i < k)
    <3>1. i - Len(a) \in 1 .. Len(q) - k /\ k + (i - Len(a)) = i + 1 /\ ~(i <= Len(a))
      BY <1>0, <1>1, <2>2
    <3>2. r[i] = b[i - Len(a)]
      BY <1>4, <2>0, <3>1
    <3> QED
      BY <1>2, <2>2, <3>1, <3>2 DEF After
  <2> QED
    BY <2>1, <2>2
<1> QED
  BY <1>4, <1>5, <1>6 DEF r

(* A tag less: the inactivity check. *)
LEMMA Removed ==
    ASSUME NEW T, NEW s \in Seq(T), NEW k \in DOMAIN s
    PROVE  /\ RemoveAt(s, k) \in Seq(T)
           /\ Cardinality(Spots(RemoveAt(s, k), s[k].plc)) = Cardinality(Spots(s, s[k].plc)) - 1
           /\ \A p : p # s[k].plc =>
                 Cardinality(Spots(RemoveAt(s, k), p)) = Cardinality(Spots(s, p))
           /\ IsInjective(s) => IsInjective(RemoveAt(s, k))
<1> DEFINE r == RemoveAt(s, k)
           n == Len(s) - 1
<1>1. Len(s) \in Nat /\ DOMAIN s = 1 .. Len(s) /\ k \in 1 .. Len(s) /\ n \in Nat
  BY Positions
<1>2. r \in Seq(T) /\ Len(r) = n /\ \A i \in 1 .. n : r[i] = s[After(k, i)]
  BY <1>1, Without
<1>3. DOMAIN r = 1 .. n
  BY <1>2, Positions
<1> HIDE DEF r
<1>4. /\ \A i \in 1 .. n : After(k, i) \in (1 .. Len(s)) \ {k}
      /\ \A i, j \in 1 .. n : After(k, i) = After(k, j) => i = j
  BY <1>1 DEF After
<1>5. \A j \in (1 .. Len(s)) \ {k} : \E i \in 1 .. n : After(k, i) = j
  <2> TAKE j \in (1 .. Len(s)) \ {k}
  <2> DEFINE i == IF j < k THEN j ELSE j - 1
  <2>1. i \in 1 .. n /\ After(k, i) = j
    BY <1>1 DEF After
  <2> QED
    BY <2>1
<1>6. ASSUME NEW p
      PROVE  Cardinality(Spots(r, p)) = Cardinality(Spots(s, p) \ {k})
  <2> DEFINE m == [i \in Spots(r, p) |-> After(k, i)]
             A == Spots(r, p)
             B == Spots(s, p) \ {k}
  <2>1. m \in [A -> B]
    BY <1>1, <1>2, <1>3, <1>4 DEF Spots
  <2>2. \A i, j \in A : m[i] = m[j] => i = j
    BY <1>3, <1>4 DEF Spots
  <2>3. \A j \in B : \E i \in A : m[i] = j
    <3> TAKE j \in B
    <3>1. PICK i \in 1 .. n : After(k, i) = j
      BY <1>1, <1>5 DEF Spots
    <3>2. i \in A
      BY <1>2, <1>3, <3>1 DEF Spots
    <3> QED
      BY <3>1, <3>2
  <2>4. IsFiniteSet(A)
    BY <1>2, SpotsFinite
  <2> HIDE DEF m, A, B
  <2>5. m \in Bijection(A, B)
    BY <2>1, <2>2, <2>3 DEF Bijection, Injection, Surjection, IsInjective
  <2>6. ExistsBijection(A, B)
    BY <2>5 DEF ExistsBijection
  <2>7. Cardinality(B) = Cardinality(A)
    BY <2>4, <2>6, FS_Bijection
  <2> QED
    BY <2>7 DEF A, B
<1>7. k \in Spots(s, s[k].plc) /\ \A p : p # s[k].plc => Spots(s, p) \ {k} = Spots(s, p)
  BY DEF Spots
<1>8. Cardinality(Spots(s, s[k].plc) \ {k}) = Cardinality(Spots(s, s[k].plc)) - 1
  BY <1>7, SpotsFinite, FS_RemoveElement
<1>9. ASSUME IsInjective(s) PROVE IsInjective(r)
  <2> SUFFICES ASSUME NEW a \in 1 .. n, NEW b \in 1 .. n, r[a] = r[b] PROVE a = b
    BY <1>3 DEF IsInjective
  <2>1. s[After(k, a)] = s[After(k, b)]
    BY <1>2
  <2>2. After(k, a) \in DOMAIN s /\ After(k, b) \in DOMAIN s
    BY <1>1, <1>4
  <2>3. After(k, a) = After(k, b)
    BY <1>9, <2>1, <2>2 DEF IsInjective
  <2> QED
    BY <1>4, <2>3
<1> QED
  BY <1>2, <1>6, <1>7, <1>8, <1>9 DEF r

-----------------------------------------------------------------------------
(* The pointers of the PLCs, with freed blocks or without. *)
LinkPointers ==
    /\ plcSession \in Pointers(SessionId) /\ plcConn \in Pointers(ConnId)
    /\ sOpener \in [SessionId -> Plc] /\ cOpener \in [ConnId -> Plc]

Tied == \A p \in Plc : plcConn[p] # Null => plcSession[p] # Null

PointersOK == LinkPointers /\ Tied

LEMMA PointersInit == LinksInit => PointersOK
<1>1. 1 \in Plc
  BY ConfigAssumption DEF Plc
<1> QED
  BY <1>1 DEF LinksInit, PointersOK, LinkPointers, Pointers, Tied

(* Nobody has a link after the end of the process. *)
LEMMA NoneAfterEnd ==
    ASSUME NEW how, EndProcess(how)
    PROVE  /\ PointersOK' /\ daemon' = how
           /\ \A p \in Plc : plcSession'[p] = Null /\ plcConn'[p] = Null
<1>1. 1 \in Plc
  BY ConfigAssumption DEF Plc
<1>2. LinkPointers'
  BY <1>1 DEF EndProcess, LinkPointers, Pointers
<1>3. Tied' /\ daemon' = how /\ \A p \in Plc : plcSession'[p] = Null /\ plcConn'[p] = Null
  BY DEF EndProcess, Tied
<1> QED
  BY <1>2, <1>3 DEF PointersOK

(* A session is built for one PLC. *)
LEMMA SessionBuilt ==
    ASSUME PointersOK, NEW p \in Plc, BuildSession(p)
    PROVE  PointersOK' /\ \A r \in Plc \ {p} : plcSession'[r] = plcSession[r]
<1>1. ASSUME NEW s \in SessionId, plcSession' = [plcSession EXCEPT ![p] = s]
      PROVE  /\ plcSession' \in Pointers(SessionId)
             /\ \A r \in Plc \ {p} : plcSession'[r] = plcSession[r]
             /\ \A r \in Plc : plcSession[r] # Null => plcSession'[r] # Null
  BY <1>1, HeapAssumption DEF PointersOK, LinkPointers, Pointers
<1>2. UNCHANGED <<plcConn, cOpener>>
  BY DEF BuildSession, ShareSession, OpenSession, connVars
<1>3. \E s \in SessionId : plcSession' = [plcSession EXCEPT ![p] = s]
  <2>1. CASE ShareSession(p)
    <3> DEFINE q == First(SessionsFor(p))
    <3>1. q \in SessionsFor(p)
      <4>1. SessionsFor(p) \in SUBSET Plc /\ SessionsFor(p) # {}
        BY <2>1, ConfigAssumption DEF SessionsFor, ShareSession
      <4> QED
        BY <4>1, FirstIn
    <3>2. plcSession' = [plcSession EXCEPT ![p] = plcSession[q]]
      BY <2>1 DEF ShareSession
    <3> HIDE DEF q
    <3>3. q \in Plc /\ plcSession[q] # Null
      BY <3>1, ConfigAssumption DEF SessionsFor
    <3>4. plcSession[q] \in SessionId
      BY <3>3 DEF PointersOK, LinkPointers, Pointers
    <3> QED
      BY <3>2, <3>4
  <2>2. CASE ~ShareSession(p)
    BY <2>2 DEF BuildSession, OpenSession
  <2> QED
    BY <2>1, <2>2
<1>4. sOpener' \in [SessionId -> Plc]
  <2>1. sOpener' = sOpener \/ \E s \in SessionId : sOpener' = [sOpener EXCEPT ![s] = p]
    BY DEF BuildSession, ShareSession, OpenSession
  <2> QED
    BY <2>1 DEF PointersOK, LinkPointers
<1> QED
  BY <1>1, <1>2, <1>3, <1>4 DEF PointersOK, LinkPointers, Tied

(* A connection is built for one PLC, which has a session. *)
LEMMA ConnectionBuilt ==
    ASSUME PointersOK, NEW p \in Plc, BuildConnection(p)
    PROVE  PointersOK' /\ UNCHANGED plcSession
<1>1. plcSession[p] # Null /\ UNCHANGED <<plcSession, sOpener>>
  BY DEF BuildConnection, ShareConnection, OpenConnection, AsksForwardOpen, sessionVars
<1>2. \E c \in ConnId : plcConn' = [plcConn EXCEPT ![p] = c]
  <2>1. CASE ShareConnection(p)
    <3> DEFINE q == First(ConnsFor(p))
    <3>1. q \in ConnsFor(p)
      <4>1. ConnsFor(p) \in SUBSET Plc /\ ConnsFor(p) # {}
        BY <2>1 DEF ConnsFor, ShareConnection
      <4> QED
        BY <4>1, FirstIn
    <3>2. plcConn' = [plcConn EXCEPT ![p] = plcConn[q]]
      BY <2>1 DEF ShareConnection
    <3> HIDE DEF q
    <3>3. q \in Plc /\ plcConn[q] # Null
      BY <3>1 DEF ConnsFor
    <3>4. plcConn[q] \in ConnId
      BY <3>3 DEF PointersOK, LinkPointers, Pointers
    <3> QED
      BY <3>2, <3>4
  <2>2. CASE ~ShareConnection(p)
    BY <2>2 DEF BuildConnection, OpenConnection
  <2> QED
    BY <2>1, <2>2
<1>3. plcConn' \in Pointers(ConnId) /\ \A r \in Plc \ {p} : plcConn'[r] = plcConn[r]
  BY <1>2 DEF PointersOK, LinkPointers, Pointers
<1>4. cOpener' \in [ConnId -> Plc]
  <2>1. cOpener' = cOpener \/ \E c \in ConnId : cOpener' = [cOpener EXCEPT ![c] = p]
    BY DEF BuildConnection, ShareConnection, OpenConnection
  <2> QED
    BY <2>1 DEF PointersOK, LinkPointers
<1>5. LinkPointers'
  BY <1>1, <1>3, <1>4 DEF PointersOK, LinkPointers
<1>6. Tied'
  BY <1>1, <1>3 DEF PointersOK, Tied
<1> QED
  BY <1>1, <1>5, <1>6 DEF PointersOK

(* DisconnectPlc takes both links from its PLC and none from another. *)
LEMMA Disconnected ==
    ASSUME PointersOK, NEW p \in Plc, DisconnectPlc(p)
    PROVE  /\ PointersOK' /\ plcSession'[p] = Null
           /\ \A r \in Plc \ {p} : plcSession'[r] = plcSession[r]
<1>1. /\ plcSession' = [plcSession EXCEPT ![p] = Null]
      /\ plcConn' = [plcConn EXCEPT ![p] = Null]
      /\ DropConnection(p) /\ DropSession(p)
  BY DEF DisconnectPlc
<1>2. /\ plcSession' \in Pointers(SessionId) /\ plcConn' \in Pointers(ConnId)
      /\ \A r \in Plc : plcSession'[r] = IF r = p THEN Null ELSE plcSession[r]
      /\ \A r \in Plc : plcConn'[r] = IF r = p THEN Null ELSE plcConn[r]
  BY <1>1 DEF PointersOK, LinkPointers, Pointers
<1>3. 1 \in Plc
  BY ConfigAssumption DEF Plc
<1>4. sOpener' \in [SessionId -> Plc]
  <2>1. sOpener' = sOpener \/ sOpener' = [sOpener EXCEPT ![plcSession[p]] = 1]
    BY <1>1 DEF DropSession
  <2> QED
    BY <1>3, <2>1 DEF PointersOK, LinkPointers
<1>5. cOpener' \in [ConnId -> Plc]
  <2>1. cOpener' = cOpener \/ cOpener' = [cOpener EXCEPT ![plcConn[p]] = 1]
    BY <1>1 DEF DropConnection
  <2> QED
    BY <1>3, <2>1 DEF PointersOK, LinkPointers
<1>6. Tied'
  BY <1>2 DEF PointersOK, Tied
<1> QED
  BY <1>2, <1>4, <1>5, <1>6 DEF PointersOK, LinkPointers

(* A call that fails, a request and the other side leave the pointers alone. *)
LEMMA PointersSame ==
    ASSUME PointersOK,
           UNCHANGED linkVars \/ OtherSide
             \/ \E p \in Plc : BuildSessionFails(p) \/ BuildConnectionFails(p) \/ Exchange(p)
    PROVE  PointersOK' /\ UNCHANGED plcSession
<1>1. UNCHANGED <<pointers, sOpener, cOpener>>
  BY DEF linkVars, OtherSide, GatewayCloses, GatewayResets, PlcForgets, OrphansDropped,
         BuildSessionFails, BuildConnectionFails, Exchange, sessionVars, connVars
<1> QED
  BY <1>1 DEF PointersOK, LinkPointers, Tied, pointers

(* An exchange that is answered comes from a device of the file. *)
LEMMA ReachedIn ==
    ASSUME PointersOK, NEW p \in Plc, HasLink(p)
    PROVE  \E q, r \in Plc : Reached(p) = <<Ip[q], Path[r], NetWork[r]>>
<1>1. plcSession[p] \in SessionId /\ plcConn[p] \in ConnId
  BY DEF HasLink, PointersOK, LinkPointers, Pointers
<1>2. sOpener[plcSession[p]] \in Plc /\ cOpener[plcConn[p]] \in Plc
  BY <1>1 DEF PointersOK, LinkPointers
<1> QED
  BY <1>2 DEF Reached

LEMMA PointersNext == PointersOK /\ [LinksNext]_linkVars => PointersOK'
<1> SUFFICES ASSUME PointersOK, [LinksNext]_linkVars PROVE PointersOK'
  OBVIOUS
<1>1. CASE UNCHANGED linkVars \/ OtherSide
             \/ \E p \in Plc : BuildSessionFails(p) \/ BuildConnectionFails(p) \/ Exchange(p)
  BY <1>1, PointersSame
<1>2. ASSUME NEW p \in Plc, BuildSession(p) \/ BuildConnection(p) \/ DisconnectPlc(p)
      PROVE  PointersOK'
  BY <1>2, SessionBuilt, ConnectionBuilt, Disconnected
<1>3. CASE \/ KillConnections \/ ReplyKills \/ Crash
           \/ \E p \in Plc : \/ BuildConnectionKilled(p) \/ ExchangeKilled(p)
                             \/ DisconnectPlcKilled(p)
  <2>1. PICK how : EndProcess(how)
    BY <1>3 DEF KillConnections, ReplyKills, Crash, BuildConnectionKilled,
                ExchangeKilled, DisconnectPlcKilled
  <2> QED
    BY <2>1, NoneAfterEnd
<1> QED
  BY <1>1, <1>2, <1>3 DEF LinksNext

LEMMA LinksPoint == LinksSpec => []PointersOK
<1>1. LinksInit => PointersOK
  BY PointersInit
<1>2. PointersOK /\ [LinksNext]_linkVars => PointersOK'
  BY PointersNext
<1> QED
  BY <1>1, <1>2, PTL DEF LinksSpec

(* The replies that come late are replies, whatever is given up, taken or  *)
(* lost; and none is taken in a plant where none comes.                    *)
LEMMA LateComes ==
    ASSUME PointersOK, NEW p \in Plc, HasLink(p), NEW before \in SUBSET Late,
           MayComeLate(before, p)
    PROVE  late' \subseteq Late
<1>1. CASE late' = before
  BY <1>1
<1>2. CASE MaxLate > 0 /\ late' = before \union {ReplyOf(p)}
  <2>1. plcSession[p] \in SessionId /\ plcConn[p] \in ConnId \union {Null}
    BY DEF PointersOK, LinkPointers, Pointers, HasLink
  <2>2. Form(p) \in Forms
    BY DEF Form, Forms
  <2>3. ReplyOf(p) \in Late
    BY <1>2, <2>1, <2>2 DEF ReplyOf, Late
  <2> QED
    BY <1>2, <2>3
<1> QED
  BY <1>1, <1>2 DEF MayComeLate

LEMMA LateTaken ==
    ASSUME PointersOK, NEW p \in Plc, HasLink(p), late \subseteq Late, TakesLate(p)
    PROVE  late' \subseteq Late /\ MaxLate > 0
<1>1. PICK r \in late : MayComeLate(late \ {r}, p)
  BY DEF TakesLate
<1>2. late \ {r} \in SUBSET Late
  OBVIOUS
<1>3. MaxLate > 0
  BY <1>1 DEF Late
<1> QED
  BY <1>1, <1>2, <1>3, LateComes

LEMMA LateLost ==
    ASSUME late \subseteq Late, ClosingLoses
    PROVE  late' \subseteq Late
<1> SUFFICES ASSUME NEW x \in late' PROVE x \in Late
  OBVIOUS
<1>1. PICK r \in late : x = [r EXCEPT !.conn = IF r.conn \in CONNECTIONs' THEN r.conn ELSE Null]
  BY DEF ClosingLoses
<1>2. MaxLate > 0 /\ Late = [session : SessionId, conn : ConnId \union {Null}, form : Forms]
  BY <1>1 DEF Late
<1>3. r \in [session : SessionId, conn : ConnId \union {Null}, form : Forms]
  BY <1>1, <1>2
<1>4. (IF r.conn \in CONNECTIONs' THEN r.conn ELSE Null) \in ConnId \union {Null}
  BY <1>3
<1> QED
  BY <1>1, <1>2, <1>3, <1>4

=============================================================================
