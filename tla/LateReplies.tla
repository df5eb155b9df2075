----------------------------- MODULE LateReplies -----------------------------
(***************************************************************************)
(* Replies that come after their request was given up.  A reply is taken   *)
(* for the one that is waited for when its packet number is the one last   *)
(* sent on the connection in use; every connection counts its own, from 0, *)
(* and nobody looks at the connection the reply belongs to.  On a session  *)
(* with several connections, or with a connection closed and one opened,   *)
(* a late reply may so answer a request of another connection.  On its own *)
(* connection it could after 2^16 requests only, which is left out.        *)
(***************************************************************************)
EXTENDS PlcLinks

CONSTANTS
    Logix,          \* the PLCs whose type is LGX; the others are PLC5 or SLC
    MaxLate         \* bound: the late replies under way at a time; with 0 a
                    \* PLC answers in time or not at all

ASSUME LateAssumption == Logix \subseteq Plc /\ MaxLate \in Nat

VARIABLE late       \* the replies under way to requests that were given up

(* What a reply looks like.  Over DH+ nothing of it is looked at, over the *)
(* other networks and for a Logix its service is.                          *)
Forms == {"Logix", "DH+", "PCCC"}
Form(p) == IF p \in Logix THEN "Logix" ELSE IF NetWork[p] # 0 THEN "DH+" ELSE "PCCC"
PassesFor(form, p) == Form(p) \in {form, "DH+"}

(* A reply: the session and the connection it belongs to, Null when that   *)
(* has been closed.                                                        *)
Late == IF MaxLate > 0
        THEN [session : SessionId, conn : ConnId \union {Null}, form : Forms]
        ELSE {}

ReplyOf(p) == [session |-> plcSession[p], conn |-> plcConn[p], form |-> Form(p)]

(* The request of p is given up; its reply may come, or not. *)
MayComeLate(before, p) ==
    \/ late' = before
    \/ /\ CanAnswer(p) /\ MaxLate > 0 /\ Cardinality(before) < MaxLate
       /\ late' = before \union {ReplyOf(p)}

(* A request of p is answered by a reply of another connection. *)
TakesLate(p) ==
    /\ ~Freed(plcSession[p]) /\ sState[plcSession[p]] = "open"
    /\ \E r \in late :
          /\ r.session = plcSession[p] /\ r.conn # plcConn[p]
          /\ PassesFor(r.form, p)
          /\ MayComeLate(late \ {r}, p)

(* What comes on a session that is closed is lost. *)
ClosingLoses ==
    late' = {[r EXCEPT !.conn = IF @ \in CONNECTIONs' THEN @ ELSE Null] :
                r \in {x \in late : x.session \in heapS'}}
=============================================================================
