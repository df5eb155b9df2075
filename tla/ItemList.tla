------------------------------ MODULE ItemList ------------------------------
(***************************************************************************)
(* What the callers of ChainList rely on: a list is a sequence of items,   *)
(* with at most one walk in progress, at position cursor (0: none).  This  *)
(* is how TuxReader and TuxTag see their lists.                            *)
(***************************************************************************)
EXTENDS Naturals, Sequences, SequencesExt

CONSTANTS Item,     \* what a list can hold
          Rank      \* the order of the items in TrieChListe's compare

VARIABLES items, cursor

Init == items = <<>> /\ cursor = 0

(* Position i of a list of n items, or 0 behind its end. *)
At(i, n) == IF i <= n THEN i ELSE 0

Add(d) == /\ cursor = 0
          /\ items' = Append(items, d)
          /\ UNCHANGED cursor

Drop(i) == /\ cursor = 0 /\ i \in DOMAIN items
             /\ \A j \in 1 .. i - 1 : items[j] # items[i]
             /\ items' = RemoveAt(items, i)
             /\ UNCHANGED cursor

Begin == /\ cursor = 0
         /\ cursor' = At(1, Len(items))
         /\ UNCHANGED items

Keep == /\ cursor # 0
        /\ cursor' = At(cursor + 1, Len(items))
        /\ UNCHANGED items

(* The item behind the deleted one takes its place and is not looked at. *)
Delete == /\ cursor # 0
          /\ items' = RemoveAt(items, cursor)
          /\ cursor' = At(cursor + 1, Len(items'))

Swap(i, j) == /\ cursor = 0
              /\ i < j /\ Rank[items[i]] > Rank[items[j]]
              /\ items' = [items EXCEPT ![i] = items[j], ![j] = items[i]]
              /\ UNCHANGED cursor

Next == \/ \E d \in Item : Add(d)
        \/ \E i \in DOMAIN items : Drop(i) \/ \E j \in DOMAIN items : Swap(i, j)
        \/ Begin \/ Keep \/ Delete

Spec == Init /\ [][Next]_<<items, cursor>>
=============================================================================
