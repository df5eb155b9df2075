---------------------------- MODULE SharedLinks ----------------------------
(***************************************************************************)
(* What the daemons of TuxPLC promise of the links (EtherNet/IP sessions,  *)
(* CIP connections) that several PLCs of the alias file may share: a link  *)
(* is live exactly as long as some PLC holds it.  The abstract view has no *)
(* reference counter, no list of links and no PLC on the other side: a     *)
(* release closes the links nobody holds any more.  The links are those of *)
(* one process: those that a restart leaves open at the gateways belong to *)
(* no holder any more and are not among them.                              *)
(***************************************************************************)
CONSTANTS Holder,   \* the PLCs of the alias file
          Link,     \* the links that can exist
          None      \* the value of a holder's pointer when it holds no link

VARIABLES held,     \* the link each holder points to, or None
          live      \* the links the process has open

TypeOK == /\ held \in [Holder -> Link \union {None}]
          /\ live \subseteq Link

Init == /\ held = [h \in Holder |-> None]
        /\ live = {}

Open(h, l) ==                       \* h opens a link of its own
    /\ held[h] = None
    /\ l \in Link \ live
    /\ held' = [held EXCEPT ![h] = l]
    /\ live' = live \union {l}

Share(h, l) ==                      \* h joins the holders of a live link
    /\ held[h] = None
    /\ \E other \in Holder : held[other] = l
    /\ l \in live
    /\ held' = [held EXCEPT ![h] = l]
    /\ UNCHANGED live

Release(h) ==                       \* the last holder of a link closes it
    /\ held' = [held EXCEPT ![h] = None]
    /\ live' = {l \in live : \E other \in Holder : held'[other] = l}

CloseAll ==                         \* the process ends, or starts again with none
    /\ held' = [h \in Holder |-> None]
    /\ live' = {}

Next == \/ \E h \in Holder, l \in Link : Open(h, l) \/ Share(h, l)
        \/ \E h \in Holder : Release(h)
        \/ CloseAll

vars == <<held, live>>

Spec == Init /\ [][Next]_vars
=============================================================================
