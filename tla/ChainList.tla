----------------------------- MODULE ChainList -----------------------------
(***************************************************************************)
(* The list of sutil that every daemon keeps its PLCs, tags, clients,      *)
(* sessions and connections in: a ring of ELEMENTs allocated one by one,   *)
(* with the number of them and a pointer to the first.  Two operations are *)
(* followed step by step: the walk of the inactivity check, which removes  *)
(* elements as it goes, and the sort of TrieChListe.                       *)
(***************************************************************************)
EXTENDS Integers, Sequences, SequencesExt, FiniteSets

CONSTANTS
    Elt,            \* addresses malloc may return for an ELEMENT
    Item,           \* the Data of elements
    Rank,           \* per item, its place in the order of compare
    Null

ASSUME ListAssumption == /\ IsFiniteSet(Elt) /\ Null \notin Elt \union Item
                         /\ Rank \in [Item -> Nat]

VARIABLES
    loop,           \* "idle", "walk", "sort"
    head, count,    \* liste->Data, liste->Count
    Next, Prev,     \* per element
    data,           \* elt->Data; Null in a block that is not allocated
    elt1, elt2      \* elt of the walk (elt1), elt1 and elt2 of TrieChListe

ring == <<head, count, Next, Prev, data>>
listVars == <<loop, ring, elt1, elt2>>

Pointer == Elt \union {Null}
Allocated == {e \in Elt : data[e] # Null}

ListInit ==
    /\ loop = "idle"
    /\ head = Null /\ count = 0
    /\ Next = [e \in Elt |-> Null]
    /\ Prev = [e \in Elt |-> Null]
    /\ data = [e \in Elt |-> Null]
    /\ elt1 = Null /\ elt2 = Null

(* liste->Data, the Next fields and Current; Null behind the last element. *)
GetNext(first, next, e) ==
    IF e = Null \/ first = Null \/ next[e] = e \/ next[e] = first
    THEN Null ELSE next[e]
After(e) == GetNext(head, Next, e)

-----------------------------------------------------------------------------
Linked_LastForgotten(e) ==
    IF count = 0 THEN /\ head' = e
                      /\ Next' = [Next EXCEPT ![e] = e]
                      /\ Prev' = [Prev EXCEPT ![e] = e]
    ELSE /\ Next' = [Next EXCEPT ![e] = head, ![head] = IF @ = head THEN e ELSE @]
         /\ Prev' = [Prev EXCEPT ![e] = Prev[head], ![head] = e]
         /\ UNCHANGED head

(* The new element is put behind the last one: first, third or second. *)
Linked(e) ==
    IF count = 0 THEN /\ head' = e
                      /\ Next' = [Next EXCEPT ![e] = e]
                      /\ Prev' = [Prev EXCEPT ![e] = e]
    ELSE IF Prev[head] # head
    THEN /\ Next' = [Next EXCEPT ![e] = head, ![Prev[head]] = e]
         /\ Prev' = [Prev EXCEPT ![e] = Prev[head], ![head] = e]
         /\ UNCHANGED head
    ELSE /\ Next' = [Next EXCEPT ![e] = head, ![head] = e]
         /\ Prev' = [Prev EXCEPT ![e] = head, ![head] = e]
         /\ UNCHANGED head

AddChListe(d, e) ==
    /\ loop = "idle" /\ e \notin Allocated
    /\ Linked(e)
    /\ count' = count + 1
    /\ data' = [data EXCEPT ![e] = d]
    /\ UNCHANGED <<loop, elt1, elt2>>

(* RemoveChListe_Ex, and the free(elt) that follows it at every call.      *)
Unlinked(e) ==
    /\ data' = [data EXCEPT ![e] = Null]
    /\ IF Prev[head] = head
       THEN /\ head' = Null /\ count' = 0
            /\ UNCHANGED <<Next, Prev>>
       ELSE /\ head' = IF e = head THEN Next[e] ELSE head
            /\ count' = count - 1
            /\ Next' = [Next EXCEPT ![Prev[e]] = Next[e], ![e] = Null]
            /\ Prev' = [Prev EXCEPT ![Next[e]] = Prev[e], ![e] = Null]

(* The elements met from first on, the list's i-th element, and the items  *)
(* it stands for.                                                          *)
Chained(first, next) ==
    LET at[i \in 1 .. Cardinality(Elt)] ==
            IF i = 1 THEN first
            ELSE IF at[i - 1] = Null THEN Null ELSE next[at[i - 1]]
    IN  at
Ith == Chained(head, Next)
Items == [i \in 1 .. count |-> IF Ith[i] = Null THEN Null ELSE data[Ith[i]]]

(* RemoveChListe: the first element that holds d. *)
Holding(d) == {i \in 1 .. count : Items[i] = d}
RemoveChListe(d) ==
    /\ loop = "idle"
    /\ Holding(d) # {}
    /\ Unlinked(Ith[CHOOSE i \in Holding(d) : \A j \in Holding(d) : i <= j])
    /\ UNCHANGED <<loop, elt1, elt2>>

-----------------------------------------------------------------------------
(* The walk: "elt=GetFirst; if (elt!=NULL) do ... while (elt=GetNext)".    *)
BeginWalk ==
    /\ loop = "idle" /\ head # Null
    /\ loop' = "walk" /\ elt1' = head
    /\ UNCHANGED <<ring, elt2>>

Goes(e) == /\ elt1' = e
           /\ loop' = IF e = Null THEN "idle" ELSE "walk"

WalkKeeps ==
    /\ loop = "walk"
    /\ Goes(After(elt1))
    /\ UNCHANGED <<ring, elt2>>

WalkRemoves_First ==
    /\ loop = "walk"
    /\ Unlinked(elt1)
    /\ Goes(GetNext(head', Next', Next'[elt1]))
    /\ UNCHANGED elt2

(* elt moves on, the old element is removed, "continue" moves on again.    *)
WalkRemoves ==
    /\ loop = "walk"
    /\ Unlinked(elt1)
    /\ Goes(GetNext(head', Next', After(elt1)))
    /\ UNCHANGED elt2

-----------------------------------------------------------------------------
BeginTrie ==
    /\ loop = "idle" /\ head # Null
    /\ loop' = "sort"
    /\ elt1' = head /\ elt2' = After(head)
    /\ UNCHANGED ring

TrieAdvances_FromFirst ==
    LET outer == IF After(elt2) # Null THEN elt1 ELSE After(elt1) IN
    /\ elt1' = outer
    /\ elt2' = IF After(elt2) # Null THEN After(elt2) ELSE After(After(outer))
    /\ loop' = IF outer = Null THEN "idle" ELSE "sort"
TrieAdvances ==
    LET outer == IF After(elt2) # Null THEN elt1 ELSE After(elt1) IN
    /\ elt1' = outer
    /\ elt2' = IF After(elt2) # Null THEN After(elt2) ELSE After(outer)
    /\ loop' = IF outer = Null THEN "idle" ELSE "sort"

(* One turn of the inner loop, with the exchange of the data. *)
TrieStep ==
    /\ loop = "sort"
    /\ data' = IF elt2 # Null /\ Rank[data[elt1]] > Rank[data[elt2]]
               THEN [data EXCEPT ![elt1] = data[elt2], ![elt2] = data[elt1]]
               ELSE data
    /\ TrieAdvances
    /\ UNCHANGED <<head, count, Next, Prev>>

-----------------------------------------------------------------------------
ListNext == \/ \E d \in Item, e \in Elt : AddChListe(d, e)
            \/ \E d \in Item : RemoveChListe(d)
            \/ BeginWalk \/ WalkKeeps \/ WalkRemoves
            \/ BeginTrie \/ TrieStep

ListSpec == ListInit /\ [][ListNext]_listVars
FairSpec == ListSpec /\ WF_listVars(WalkKeeps \/ WalkRemoves) /\ WF_listVars(TrieStep)

-----------------------------------------------------------------------------
(* The types of the variables: in C those of Count and of the pointers. *)
ListTypeOK ==
    /\ loop \in {"idle", "walk", "sort"}
    /\ head \in Pointer /\ count \in 0 .. Cardinality(Elt)
    /\ Next \in [Elt -> Pointer] /\ Prev \in [Elt -> Pointer]
    /\ data \in [Elt -> Item \union {Null}]
    /\ elt1 \in Pointer /\ elt2 \in Pointer

(* The allocated elements form one ring, of which count is the size: no    *)
(* element is lost, none is freed and still linked.  No walk and no sort   *)
(* stands on a freed element.                                              *)
IsRing ==
    /\ ListTypeOK
    /\ count = Cardinality(Allocated)
    /\ (head = Null) <=> (count = 0)
    /\ \A e \in Allocated : /\ Next[e] \in Allocated /\ Prev[Next[e]] = e
                            /\ \E i \in 1 .. count : Ith[i] = e
    /\ elt1 # Null => elt1 \in Allocated
    /\ elt2 # Null => elt2 \in Allocated

(* The ring is the sequence its callers take it for.                       *)
PositionOf(e) == IF e = Null THEN 0 ELSE CHOOSE i \in 1 .. count : Ith[i] = e
Sequence == INSTANCE ItemList
              WITH items <- Items,
                   cursor <- IF loop = "walk" THEN PositionOf(elt1) ELSE 0
ImplementsSequence == Sequence!Spec

Sorted == \A i, j \in 1 .. count : i < j => Rank[Items[i]] <= Rank[Items[j]]

(* TrieChListe ends with the items in order.                               *)
EndsSorted == [][loop = "sort" /\ loop' = "idle" => Sorted']_listVars

(* A walk and a sort come to an end, whatever is removed on the way, and   *)
(* TrieChListe with the items in order.                                    *)
TrieSorts == []<>(loop = "idle") /\ EndsSorted
=============================================================================
