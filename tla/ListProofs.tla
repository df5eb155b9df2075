----------------------------- MODULE ListProofs -----------------------------
(***************************************************************************)
(* The theorems of the two lists that are kept in memory piece by piece:   *)
(* the ring of ChainList and the array of TuxHisto.  The modules share no  *)
(* name and no state; what their proofs share is LeastExists, for both     *)
(* have a function that is defined by recursion over positions.            *)
(*                                                                         *)
(* The ring is described by the sequence q of its elements from the first  *)
(* on: Ringed says what q, the pointers and the allocated elements S have  *)
(* to do with one another, and every operation on the pointers is one on   *)
(* q.  That q is what the program meets when it follows Next (Walked) is   *)
(* the only place where a recursion is looked into.                        *)
(*                                                                         *)
(* The array is described by Listing: as long as CheckList has met nothing *)
(* that CompactListe cannot close up, its pointers in use come first and   *)
(* lead to different tags.  MovedUp and ClosedUp are about CompactListe.   *)
(***************************************************************************)
EXTENDS ChainList, TuxHisto, FiniteSetTheorems, SequenceTheorems, WellFoundedInduction, TLAPS

Ringed(q, n, first, next, prev, S) ==
    /\ n \in Nat /\ q \in [1 .. n -> S]
    /\ \A i, j \in 1 .. n : q[i] = q[j] => i = j
    /\ \A e \in S : \E i \in 1 .. n : q[i] = e
    /\ first = IF n = 0 THEN Null ELSE q[1]
    /\ \A i \in 1 .. n : /\ next[q[i]] = IF i = n THEN q[1] ELSE q[i + 1]
                         /\ prev[q[i]] = IF i = 1 THEN q[n] ELSE q[i - 1]

Pointers == [Elt -> Pointer]

(* q with e behind it, and q without its k-th element. *)
Added(q, n, e) == [i \in 1 .. n + 1 |-> IF i = n + 1 THEN e ELSE q[i]]
Without(q, n, k) == [i \in 1 .. n - 1 |-> IF i < k THEN q[i] ELSE q[i + 1]]

-----------------------------------------------------------------------------
(***************************************************************************)
(* Following the pointers.                                                 *)
(***************************************************************************)

(* A set of numbers that is not empty has a least one. *)
LEMMA LeastExists ==
    ASSUME NEW S \in SUBSET Nat, S # {}
    PROVE  \E n \in S : \A m \in S : n <= m
<1> DEFINE less == OpToRel(<, Nat)
<1>1. IsWellFoundedOn(less, Nat)
  BY NatLessThanWellFounded, Zenon DEF OpToRel
<1>2. \E n \in S : \A m \in S : ~ (<<m, n>> \in less)
  BY <1>1, WFMin
<1>3. PICK n \in S : \A m \in S : ~ (<<m, n>> \in less)
  BY <1>2
<1>4. \A m \in S : ~ m < n
  BY <1>3 DEF OpToRel
<1> QED
  BY <1>4

(* There are elements as Chained chooses them. *)
IsChain(at, n, first, next) ==
    at = [i \in 1 .. n |-> IF i = 1 THEN first
                          ELSE IF at[i - 1] = Null THEN Null ELSE next[at[i - 1]]]

LEMMA ChainExists ==
    ASSUME NEW n \in Nat, NEW first, NEW next
    PROVE  \E at : IsChain(at, n, first, next)
<1> DEFINE Good(m, f) == f = [i \in 1 .. m |-> IF i = 1 THEN first
                                ELSE IF f[i - 1] = Null THEN Null ELSE next[f[i - 1]]]
           Bad == {m \in Nat : ~ \E f : Good(m, f)}
<1>1. SUFFICES ASSUME Bad # {} PROVE FALSE
  BY DEF IsChain
<1>2. PICK m \in Bad : \A k \in Bad : m <= k
  <2> HIDE DEF Good
  <2>1. Bad \in SUBSET Nat
    OBVIOUS
  <2> HIDE DEF Bad
  <2> QED
    BY <1>1, <2>1, LeastExists
<1>3. m \in Nat /\ ~ \E f : Good(m, f)
  <2> HIDE DEF Good
  <2> QED
    OBVIOUS
<1>4. m # 0
  <2>1. Good(0, [i \in 1 .. 0 |-> 0])
    OBVIOUS
  <2> HIDE DEF Good, Bad
  <2> QED
    BY <2>1, <1>3
<1>5. m - 1 \in Nat /\ m - 1 < m
  <2> HIDE DEF Good, Bad
  <2> QED
    BY <1>3, <1>4
<1>6. PICK f : Good(m - 1, f)
  <2> HIDE DEF Good
  <2> QED
    BY <1>2, <1>3, <1>5
<1> HIDE DEF Bad
<1> DEFINE g == [i \in 1 .. m |-> IF i = 1 THEN first
                                  ELSE IF f[i - 1] = Null THEN Null ELSE next[f[i - 1]]]
<1>7. \A i \in 1 .. m - 1 : i \in 1 .. m /\ f[i] = g[i]
  BY <1>3, <1>5, <1>6
<1>8. \A i \in 1 .. m : i # 1 => f[i - 1] = g[i - 1]
  <2>1. \A i \in 1 .. m : i # 1 => i - 1 \in 1 .. m - 1
    BY <1>3
  <2> HIDE DEF g
  <2> QED
    BY <1>7, <2>1
<1>9. Good(m, g)
  BY <1>8
<1> HIDE DEF Good, g
<1> QED
  BY <1>9, <1>3

(* A ring has as many elements as are allocated. *)
LEMMA RingSize ==
    ASSUME NEW q, NEW n, NEW first, NEW next, NEW prev, NEW S \in SUBSET Elt,
           Ringed(q, n, first, next, prev, S)
    PROVE  n = Cardinality(S) /\ n \in 0 .. Cardinality(Elt) /\ Cardinality(Elt) \in Nat
<1>1. n \in Nat
  BY DEF Ringed
<1>2. IsFiniteSet(1 .. n) /\ Cardinality(1 .. n) = n
  BY <1>1, FS_Interval
<1>3. q \in Bijection(1 .. n, S)
  BY DEF Ringed, Bijection, Injection, Surjection, IsInjective
<1>4. ExistsBijection(1 .. n, S)
  BY <1>3 DEF ExistsBijection
<1>5. IsFiniteSet(S) /\ Cardinality(S) = n
  BY <1>2, <1>4, FS_Bijection
<1>6. Cardinality(S) <= Cardinality(Elt)
  BY ListAssumption, FS_Subset
<1>7. Cardinality(Elt) \in Nat
  BY ListAssumption, FS_CardinalityType
<1> QED
  BY <1>1, <1>5, <1>6, <1>7

(* Who follows Next from the first element on meets q. *)
LEMMA Walked ==
    ASSUME NEW q, NEW n, NEW first, NEW next, NEW prev, NEW S \in SUBSET Elt,
           Ringed(q, n, first, next, prev, S)
    PROVE  \A i \in 1 .. n : Chained(first, next)[i] = q[i]
<1> DEFINE c == Cardinality(Elt)
           at == Chained(first, next)
<1>1. c \in Nat /\ n \in 0 .. c
  BY RingSize
<1>2. at = [i \in 1 .. c |-> IF i = 1 THEN first
                             ELSE IF at[i - 1] = Null THEN Null ELSE next[at[i - 1]]]
  <2>1. \E f : IsChain(f, c, first, next)
    BY <1>1, ChainExists
  <2>2. at = CHOOSE f : IsChain(f, c, first, next)
    BY DEF Chained, IsChain
  <2>3. IsChain(at, c, first, next)
    <3> HIDE DEF at, c
    <3> QED
      BY <2>1, <2>2
  <2> QED
    BY <2>3 DEF IsChain
<1> HIDE DEF at, c
<1> DEFINE Bad == {i \in 1 .. n : at[i] # q[i]}
<1>3. SUFFICES ASSUME Bad # {} PROVE FALSE
  BY DEF at
<1>4. Bad \in SUBSET Nat
  OBVIOUS
<1>5. PICK m \in Bad : \A k \in Bad : m <= k
  <2> HIDE DEF Bad
  <2> QED
    BY <1>3, <1>4, LeastExists
<1>6. m \in 1 .. n /\ m \in 1 .. c /\ n # 0 /\ n \in Nat /\ m \in Nat
  BY <1>1
<1>7. m # 1
  BY <1>2, <1>6 DEF Ringed
<1>8. m - 1 \in 1 .. n /\ m - 1 # n /\ m - 1 \notin Bad /\ (m - 1) + 1 = m
  <2>1. m - 1 \in 1 .. n /\ m - 1 # n /\ m - 1 < m /\ (m - 1) + 1 = m
    BY <1>6, <1>7
  <2> HIDE DEF Bad
  <2>2. m - 1 \notin Bad
    BY <1>5, <1>6, <2>1
  <2> QED
    BY <2>1, <2>2
<1>9. at[m - 1] = q[m - 1]
  BY <1>8
<1>10. q[m - 1] # Null /\ next[q[m - 1]] = q[m]
  BY <1>8, ListAssumption DEF Ringed
<1>11. at[m] = IF m = 1 THEN first
               ELSE IF at[m - 1] = Null THEN Null ELSE next[at[m - 1]]
  BY <1>2, <1>6
<1> QED
  BY <1>7, <1>9, <1>10, <1>11

(* GetNext goes on to the next of q, and stops behind the last. *)
LEMMA Steps ==
    ASSUME NEW q, NEW n, NEW first, NEW next, NEW prev, NEW S \in SUBSET Elt,
           Ringed(q, n, first, next, prev, S), NEW i \in 1 .. n
    PROVE  GetNext(first, next, q[i]) = IF i = n THEN Null ELSE q[i + 1]
<1>1. n \in Nat /\ n # 0 /\ 1 \in 1 .. n /\ first = q[1] /\ first # Null /\ q[i] # Null
  BY ListAssumption DEF Ringed
<1>2. CASE i = n
  BY <1>1, <1>2 DEF Ringed, GetNext
<1>3. CASE i # n
  <2>1. i + 1 \in 1 .. n /\ i + 1 # i /\ i + 1 # 1
    BY <1>1, <1>3
  <2>2. next[q[i]] = q[i + 1]
    BY <1>3 DEF Ringed
  <2>3. q[i + 1] # q[i] /\ q[i + 1] # q[1]
    BY <1>1, <2>1 DEF Ringed
  <2> QED
    BY <1>1, <1>3, <2>2, <2>3 DEF GetNext
<1> QED
  BY <1>2, <1>3

-----------------------------------------------------------------------------
(***************************************************************************)
(* The operations on the pointers.                                         *)
(***************************************************************************)

(* The first element of a list. *)
LEMMA RingOfOne ==
    ASSUME NEW e \in Elt, NEW next \in Pointers, NEW prev \in Pointers
    PROVE  Ringed(Added(<<>>, 0, e), 1, e, [next EXCEPT ![e] = e], [prev EXCEPT ![e] = e], {e})
<1>1. 1 .. 0 + 1 = {1} /\ 1 .. 1 = {1}
  OBVIOUS
<1>2. Added(<<>>, 0, e) = [i \in 1 .. 1 |-> e]
  BY <1>1 DEF Added
<1> QED
  BY <1>1, <1>2 DEF Ringed, Pointers

(* An element is put between the last and the first. *)
LEMMA RingGrows ==
    ASSUME NEW q, NEW n, NEW first, NEW next \in Pointers, NEW prev \in Pointers,
           NEW S \in SUBSET Elt, Ringed(q, n, first, next, prev, S), n # 0,
           NEW e \in Elt \ S
    PROVE  Ringed(Added(q, n, e), n + 1, first,
                  [next EXCEPT ![e] = first, ![prev[first]] = e],
                  [prev EXCEPT ![e] = prev[first], ![first] = e], S \union {e})
<1> DEFINE r == Added(q, n, e)
           nx == [next EXCEPT ![e] = first, ![prev[first]] = e]
           pv == [prev EXCEPT ![e] = prev[first], ![first] = e]
<1>1. n \in Nat /\ 1 \in 1 .. n /\ n \in 1 .. n
  BY DEF Ringed
<1>2. first = q[1] /\ prev[first] = q[n]
  BY <1>1 DEF Ringed
<1>3. \A i \in 1 .. n : q[i] \in S /\ q[i] \in Elt /\ q[i] # e
  BY DEF Ringed
<1>4. \A i \in 1 .. n : r[i] = q[i] /\ i \in 1 .. n + 1
  BY <1>1 DEF Added
<1>5. r[n + 1] = e /\ n + 1 \in 1 .. n + 1 /\ n + 1 # 1
  BY <1>1 DEF Added
<1>6. \A i \in 1 .. n + 1 : i \in 1 .. n \/ i = n + 1
  BY <1>1
<1>7. r \in [1 .. n + 1 -> S \union {e}]
  BY <1>3, <1>6 DEF Added
<1>8. \A i, j \in 1 .. n + 1 : r[i] = r[j] => i = j
  BY <1>3, <1>4, <1>5, <1>6 DEF Ringed
<1>9. \A x \in S \union {e} : \E i \in 1 .. n + 1 : r[i] = x
  <2> TAKE x \in S \union {e}
  <2>1. CASE x = e
    BY <2>1, <1>5
  <2>2. CASE x \in S
    <3>1. PICK i \in 1 .. n : q[i] = x
      BY <2>2 DEF Ringed
    <3> QED
      BY <3>1, <1>4
  <2> QED
    BY <2>1, <2>2
<1>10. nx[e] = first /\ nx[q[n]] = e /\ pv[e] = q[n] /\ pv[first] = e
  BY <1>1, <1>2, <1>3 DEF Pointers
<1>11. \A x \in Elt : /\ x # e /\ x # q[n] => nx[x] = next[x]
                      /\ x # e /\ x # first => pv[x] = prev[x]
  BY <1>2 DEF Pointers
<1>12. ASSUME NEW i \in 1 .. n
       PROVE  /\ nx[r[i]] = r[i + 1]
              /\ pv[r[i]] = IF i = 1 THEN r[n + 1] ELSE r[i - 1]
  <2>1. ASSUME i = n PROVE nx[r[i]] = r[i + 1]
    BY <2>1, <1>4, <1>5, <1>10
  <2>2. ASSUME i # n PROVE nx[r[i]] = r[i + 1]
    <3>1. i + 1 \in 1 .. n
      BY <1>1, <2>2
    <3>2. q[i] # q[n]
      BY <1>1, <2>2 DEF Ringed
    <3>3. nx[q[i]] = q[i + 1]
      BY <1>3, <1>11, <2>2, <3>2 DEF Ringed
    <3> QED
      BY <3>1, <3>3, <1>4
  <2>3. ASSUME i # 1 PROVE pv[r[i]] = r[i - 1]
    <3>1. i - 1 \in 1 .. n
      BY <1>1, <2>3
    <3>2. q[i] # first
      BY <1>1, <1>2, <2>3 DEF Ringed
    <3>3. pv[q[i]] = q[i - 1]
      BY <1>3, <1>11, <2>3, <3>2 DEF Ringed
    <3> QED
      BY <3>1, <3>3, <1>4
  <2>4. i = 1 => pv[r[i]] = r[n + 1]
    BY <1>1, <1>2, <1>4, <1>5, <1>10
  <2>5. nx[r[i]] = r[i + 1]
    BY <2>1, <2>2, <1>4, <1>5, <1>10
  <2> QED
    BY <2>3, <2>4, <2>5
<1>13. nx[r[n + 1]] = r[1] /\ pv[r[n + 1]] = r[n]
  BY <1>1, <1>2, <1>4, <1>5, <1>10
<1>14. \A i \in 1 .. n + 1 : /\ nx[r[i]] = IF i = n + 1 THEN r[1] ELSE r[i + 1]
                             /\ pv[r[i]] = IF i = 1 THEN r[n + 1] ELSE r[i - 1]
  <2> TAKE i \in 1 .. n + 1
  <2>1. CASE i = n + 1
    <3>1. (n + 1) - 1 = n
      BY <1>1
    <3> HIDE DEF nx, pv, r
    <3> QED
      BY <2>1, <3>1, <1>5, <1>13
  <2>2. CASE i # n + 1
    <3>1. i \in 1 .. n
      BY <1>6, <2>2
    <3> HIDE DEF nx, pv, r
    <3> QED
      BY <2>2, <3>1, <1>12
  <2> QED
    BY <2>1, <2>2
<1>15. n + 1 \in Nat /\ n + 1 # 0 /\ first = r[1]
  BY <1>1, <1>2, <1>4
<1> HIDE DEF nx, pv, r
<1> QED
  BY <1>7, <1>8, <1>9, <1>14, <1>15 DEF Ringed, r, nx, pv

(* An element is taken out, be it the first, the last or one between. *)
LEMMA RingShrinks ==
    ASSUME NEW q, NEW n, NEW first, NEW next \in Pointers, NEW prev \in Pointers,
           NEW S \in SUBSET Elt, Ringed(q, n, first, next, prev, S),
           NEW k \in 1 .. n, n # 1, NEW e, e = q[k]
    PROVE  Ringed(Without(q, n, k), n - 1, IF e = first THEN next[e] ELSE first,
                  [next EXCEPT ![prev[e]] = next[e], ![e] = Null],
                  [prev EXCEPT ![next[e]] = prev[e], ![e] = Null], S \ {e})
<1> DEFINE r == Without(q, n, k)
           nx == [next EXCEPT ![prev[e]] = next[e], ![e] = Null]
           pv == [prev EXCEPT ![next[e]] = prev[e], ![e] = Null]
           f == IF e = first THEN next[e] ELSE first
           after == IF k = n THEN 1 ELSE k + 1
           before == IF k = 1 THEN n ELSE k - 1
<1>1. n \in Nat /\ n > 1 /\ n - 1 \in Nat /\ n - 1 # 0 /\ k \in Nat /\ 1 \in 1 .. n /\ n \in 1 .. n
  BY DEF Ringed
<1>2. \A i \in 1 .. n : q[i] \in S /\ q[i] \in Elt
  BY DEF Ringed
<1>3. \A i, j \in 1 .. n : q[i] = q[j] => i = j
  BY DEF Ringed
<1>4. after \in 1 .. n /\ after # k /\ before \in 1 .. n /\ before # k
  BY <1>1
<1>5. next[e] = q[after] /\ prev[e] = q[before]
  BY DEF Ringed
<1>6. e \in Elt /\ q[after] # e /\ q[before] # e
  BY <1>2, <1>3, <1>4
<1>7. nx[q[before]] = q[after] /\ pv[q[after]] = q[before]
  BY <1>2, <1>4, <1>5, <1>6 DEF Pointers
<1>8. \A i \in 1 .. n : /\ i # before /\ i # k => nx[q[i]] = next[q[i]]
                        /\ i # after /\ i # k => pv[q[i]] = prev[q[i]]
  <2> HIDE DEF after, before
  <2> QED
    BY <1>2, <1>3, <1>4, <1>5, <1>6 DEF Pointers
<1>9. \A i \in 1 .. n - 1 : /\ i < k => r[i] = q[i]
                            /\ i >= k => r[i] = q[i + 1]
                            /\ i \in 1 .. n /\ i + 1 \in 1 .. n
  BY <1>1 DEF Without
<1>10. r \in [1 .. n - 1 -> S \ {e}]
  <2>1. \A i \in 1 .. n - 1 : r[i] \in S /\ r[i] # e
    <3> TAKE i \in 1 .. n - 1
    <3>1. CASE i < k
      BY <3>1, <1>1, <1>2, <1>3, <1>9
    <3>2. CASE i >= k
      <4>1. r[i] = q[i + 1] /\ i + 1 \in 1 .. n /\ i + 1 # k
        BY <3>2, <1>1, <1>9
      <4> QED
        BY <4>1, <1>2, <1>3
    <3> QED
      BY <3>1, <3>2, <1>1
  <2> QED
    BY <2>1 DEF Without
<1>11. \A i, j \in 1 .. n - 1 : r[i] = r[j] => i = j
  <2> DEFINE old(i) == IF i < k THEN i ELSE i + 1
  <2>1. \A i \in 1 .. n - 1 : r[i] = q[old(i)] /\ old(i) \in 1 .. n
    BY <1>1, <1>9
  <2>2. \A i, j \in 1 .. n - 1 : old(i) = old(j) => i = j
    BY <1>1
  <2> HIDE DEF old, r
  <2> QED
    BY <2>1, <2>2, <1>3
<1>12. \A x \in S \ {e} : \E i \in 1 .. n - 1 : r[i] = x
  <2> TAKE x \in S \ {e}
  <2>1. PICK i \in 1 .. n : q[i] = x
    BY DEF Ringed
  <2>2. i # k
    BY <2>1
  <2>3. CASE i < k
    <3>1. i \in 1 .. n - 1
      BY <2>3, <1>1
    <3> QED
      BY <3>1, <2>1, <2>3, <1>9
  <2>4. CASE i > k
    <3>1. i - 1 \in 1 .. n - 1 /\ i - 1 >= k /\ (i - 1) + 1 = i
      BY <2>4, <1>1
    <3> QED
      BY <3>1, <2>1, <1>9
  <2> QED
    BY <2>2, <2>3, <2>4, <1>1
<1>13. f = r[1]
  <2>1. 1 \in 1 .. n - 1
    BY <1>1
  <2>2. first = q[1]
    BY <1>1 DEF Ringed
  <2>3. CASE k = 1
    <3>1. after = 2 /\ r[1] = q[2]
      BY <2>1, <2>3, <1>1, <1>9
    <3> QED
      BY <2>2, <2>3, <3>1, <1>5
  <2>4. CASE k # 1
    <3>1. r[1] = q[1]
      BY <2>1, <2>4, <1>1, <1>9
    <3>2. e # first
      BY <2>2, <2>4, <1>1, <1>3
    <3> QED
      BY <2>2, <3>1, <3>2
  <2> QED
    BY <2>3, <2>4
<1>14. ASSUME NEW i \in 1 .. n - 1
       PROVE  nx[r[i]] = IF i = n - 1 THEN r[1] ELSE r[i + 1]
  <2> DEFINE m == IF i < k THEN i ELSE i + 1
  <2>1. m \in 1 .. n /\ m # k /\ r[i] = q[m]
    BY <1>1, <1>9
  <2>2. CASE m = before
    <3>1. nx[r[i]] = q[after]
      BY <2>1, <2>2, <1>7
    <3>2. q[after] = IF i = n - 1 THEN r[1] ELSE r[i + 1]
      <4>1. CASE k = 1
        <5>1. i = n - 1 /\ after = 1 + 1 /\ r[1] = q[1 + 1]
          BY <4>1, <2>2, <1>1, <1>9
        <5> QED
          BY <5>1
      <4>2. CASE k # 1 /\ k = n
        <5>1. i = n - 1 /\ after = 1 /\ r[1] = q[1]
          BY <4>2, <2>2, <1>1, <1>9
        <5> QED
          BY <5>1
      <4>3. CASE k # 1 /\ k # n
        <5>1. i = k - 1 /\ after = k + 1 /\ i # n - 1 /\ i + 1 = k /\ k \in 1 .. n - 1
          BY <4>3, <2>2, <1>1
        <5>2. r[k] = q[k + 1]
          BY <5>1, <1>1, <1>9
        <5> QED
          BY <5>1, <5>2
      <4> QED
        BY <4>1, <4>2, <4>3
    <3> QED
      BY <3>1, <3>2
  <2>3. CASE m # before
    <3>1. nx[r[i]] = IF m = n THEN q[1] ELSE q[m + 1]
      <4> HIDE DEF before, after, m, nx, r
      <4> QED
        BY <2>1, <2>3, <1>8 DEF Ringed
    <3>2. CASE m = n
      <4>1. i = n - 1 /\ k # 1 /\ 1 \in 1 .. n - 1
        BY <2>1, <2>3, <3>2, <1>1
      <4>2. r[1] = q[1]
        BY <4>1, <1>1, <1>9
      <4> QED
        BY <3>1, <3>2, <4>1, <4>2
    <3>3. CASE m # n
      <4>1. i # n - 1 /\ i + 1 \in 1 .. n - 1
        BY <2>1, <2>3, <3>3, <1>1
      <4>2. r[i + 1] = q[m + 1]
        BY <2>1, <2>3, <4>1, <1>1, <1>9
      <4> QED
        BY <3>1, <3>3, <4>1, <4>2
    <3> QED
      BY <3>2, <3>3
  <2> QED
    BY <2>2, <2>3
<1>15. ASSUME NEW i \in 1 .. n - 1
       PROVE  pv[r[i]] = IF i = 1 THEN r[n - 1] ELSE r[i - 1]
  <2> DEFINE m == IF i < k THEN i ELSE i + 1
  <2>1. m \in 1 .. n /\ m # k /\ r[i] = q[m]
    BY <1>1, <1>9
  <2>2. n - 1 \in 1 .. n - 1 /\ r[n - 1] = IF k = n THEN q[n - 1] ELSE q[n]
    <3>1. n - 1 \in 1 .. n - 1 /\ (n - 1) + 1 = n
      BY <1>1
    <3> QED
      BY <3>1, <1>1, <1>9
  <2>3. CASE m = after
    <3>1. pv[r[i]] = q[before]
      BY <2>1, <2>3, <1>7
    <3>2. q[before] = IF i = 1 THEN r[n - 1] ELSE r[i - 1]
      <4>1. CASE k = 1
        <5>1. i = 1 /\ before = n /\ k # n
          BY <4>1, <2>3, <1>1
        <5> QED
          BY <5>1, <2>2
      <4>2. CASE k # 1 /\ k = n
        <5>1. i = 1 /\ before = n - 1
          BY <4>2, <2>3, <1>1
        <5> QED
          BY <5>1, <4>2, <2>2
      <4>3. CASE k # 1 /\ k # n
        <5>1. i = k /\ i # 1 /\ before = k - 1 /\ k - 1 \in 1 .. n - 1 /\ k - 1 < k
          BY <4>3, <2>3, <1>1
        <5>2. r[k - 1] = q[k - 1]
          BY <5>1, <1>9
        <5> QED
          BY <5>1, <5>2
      <4> QED
        BY <4>1, <4>2, <4>3
    <3> QED
      BY <3>1, <3>2
  <2>4. CASE m # after
    <3>1. pv[r[i]] = IF m = 1 THEN q[n] ELSE q[m - 1]
      <4> HIDE DEF before, after, m, pv, r
      <4> QED
        BY <2>1, <2>4, <1>8 DEF Ringed
    <3>2. CASE m = 1
      <4>1. i = 1 /\ k # n
        BY <2>1, <2>4, <3>2, <1>1
      <4> QED
        BY <3>1, <3>2, <4>1, <2>2
    <3>3. CASE m # 1
      <4>1. i # 1 /\ i - 1 \in 1 .. n - 1 /\ (i - 1) + 1 = i
        BY <2>1, <2>4, <3>3, <1>1
      <4>2. r[i - 1] = q[m - 1]
        BY <2>1, <2>4, <4>1, <1>1, <1>9
      <4> QED
        BY <3>1, <3>3, <4>1, <4>2
    <3> QED
      BY <3>2, <3>3
  <2> QED
    BY <2>3, <2>4
<1> HIDE DEF nx, pv, r, f
<1> QED
  BY <1>1, <1>10, <1>11, <1>12, <1>13, <1>14, <1>15 DEF Ringed, r, nx, pv, f

-----------------------------------------------------------------------------
(***************************************************************************)
(* The steps of the list.                                                  *)
(***************************************************************************)

(* Where a walk or a sort stands: elt2 of a sort is behind its elt1. *)
Standing(q) ==
    /\ loop = "idle" => elt1 = Null /\ elt2 = Null
    /\ loop = "walk" => elt2 = Null /\ \E k \in 1 .. count : elt1 = q[k]
    /\ loop = "sort" => \E k \in 1 .. count : /\ elt1 = q[k]
                                            /\ \/ elt2 = Null
                                               \/ \E l \in k + 1 .. count : elt2 = q[l]

Ring(q) == Ringed(q, count, head, Next, Prev, Allocated)
Shape(q) == Ring(q) /\ Standing(q)

(* The inductive invariant. *)
IInv == ListTypeOK /\ \E q \in [1 .. count -> Allocated] : Shape(q)

LEMMA AllocatedType == Allocated \in SUBSET Elt
BY DEF Allocated

LEMMA ShapeIsIInv ==
    ASSUME ListTypeOK, NEW q, Shape(q)
    PROVE  IInv
BY DEF IInv, Shape, Ring, Ringed

LEMMA InitIInv == ListInit => IInv
<1> SUFFICES ASSUME ListInit PROVE IInv
  OBVIOUS
<1>1. Cardinality(Elt) \in Nat
  BY ListAssumption, FS_CardinalityType
<1>2. ListTypeOK
  BY <1>1 DEF ListInit, ListTypeOK, Pointer
<1>3. Allocated = {} /\ 1 .. count = {}
  BY DEF ListInit, Allocated
<1> DEFINE q == [i \in 1 .. count |-> Null]
<1>4. q \in [1 .. count -> Allocated] /\ \A i \in 1 .. count : FALSE
  BY <1>3
<1>5. Ringed(q, count, head, Next, Prev, Allocated)
  BY <1>3, <1>4 DEF ListInit, Ringed
<1>6. Shape(q)
  BY <1>5 DEF ListInit, Shape, Ring, Standing
<1> HIDE DEF q
<1> QED
  BY <1>2, <1>4, <1>6 DEF IInv

(* AddChListe puts its element behind the others. *)
LEMMA AddStep ==
    ASSUME ListTypeOK, NEW q, Shape(q), NEW d \in Item, NEW e \in Elt, AddChListe(d, e)
    PROVE  \E r : /\ r = Added(q, count, e)
                  /\ ListTypeOK' /\ Shape(r)'
                  /\ count' = count + 1 /\ data' = [data EXCEPT ![e] = d]
<1>1. Ringed(q, count, head, Next, Prev, Allocated) /\ Allocated \in SUBSET Elt
  BY AllocatedType DEF Shape, Ring
<1>2. Next \in Pointers /\ Prev \in Pointers /\ data \in [Elt -> Item \union {Null}] /\ count \in Nat
  BY <1>1 DEF ListTypeOK, Pointers, Ringed
<1>3. e \in Elt \ Allocated /\ loop = "idle" /\ UNCHANGED <<loop, elt1, elt2>> /\ count' = count + 1
      /\ data' = [data EXCEPT ![e] = d]
  BY DEF AddChListe
<1>4. d # Null
  BY ListAssumption
<1>5. Allocated' = Allocated \union {e}
  BY <1>2, <1>3, <1>4 DEF Allocated
<1>6. PICK r : r = Added(q, count, e)
  OBVIOUS
<1>7. Ringed(r, count', head', Next', Prev', Allocated')
      /\ Next' \in Pointers /\ Prev' \in Pointers /\ head' \in Pointer
  <2>1. CASE count = 0
    <3>1. head' = e /\ Next' = [Next EXCEPT ![e] = e] /\ Prev' = [Prev EXCEPT ![e] = e]
      BY <2>1 DEF AddChListe, Linked
    <3>2. Allocated = {}
      BY <2>1, <1>1 DEF Ringed
    <3>3. r = Added(<<>>, 0, e)
      BY <2>1, <1>6 DEF Added
    <3>4. Ringed(r, 1, e, Next', Prev', {e})
      BY <3>1, <3>3, <1>2, RingOfOne
    <3>5. count' = 1 /\ Allocated' = {e}
      BY <2>1, <3>2, <1>3, <1>5
    <3> QED
      BY <3>1, <3>4, <3>5, <1>2 DEF Pointers, Pointer
  <2>2. CASE count # 0
    <3>1. /\ head' = head
          /\ Next' = [Next EXCEPT ![e] = head, ![Prev[head]] = e]
          /\ Prev' = [Prev EXCEPT ![e] = Prev[head], ![head] = e]
      BY <2>2 DEF AddChListe, Linked
    <3>2. Ringed(r, count + 1, head, Next', Prev', Allocated \union {e})
      BY <2>2, <3>1, <1>1, <1>2, <1>3, <1>6, RingGrows
    <3>3. Ringed(r, count', head', Next', Prev', Allocated')
      BY <3>1, <3>2, <1>3, <1>5
    <3>4. head \in Elt /\ Prev[head] \in Pointer
      BY <2>2, <1>1, <1>2 DEF Ringed, Pointers
    <3>5. Next' \in Pointers /\ Prev' \in Pointers
      BY <3>1, <3>4, <1>2 DEF Pointers, Pointer
    <3> QED
      BY <3>1, <3>3, <3>4, <3>5 DEF Pointer
  <2> QED
    BY <2>1, <2>2
<1>8. Shape(r)'
  BY <1>3, <1>7 DEF Shape, Ring, Standing, ListTypeOK
<1>9. ListTypeOK'
  <2>1. Allocated' \in SUBSET Elt
    BY <1>1, <1>5
  <2>2. count' \in 0 .. Cardinality(Elt)
    BY <1>7, <2>1, RingSize
  <2>3. data' \in [Elt -> Item \union {Null}]
    BY <1>2, <1>3
  <2> QED
    BY <2>2, <2>3, <1>3, <1>7 DEF ListTypeOK, Pointers
<1> QED
  BY <1>3, <1>6, <1>8, <1>9

(* RemoveChListe_Ex takes out the element it is given. *)
LEMMA UnlinkStep ==
    ASSUME ListTypeOK, NEW q, Ring(q), NEW k \in 1 .. count, Unlinked(q[k])
    PROVE  \E r : /\ r = Without(q, count, k)
                  /\ Ring(r)'
                  /\ head' \in Pointer /\ count' \in 0 .. Cardinality(Elt)
                  /\ Next' \in [Elt -> Pointer] /\ Prev' \in [Elt -> Pointer]
                  /\ data' \in [Elt -> Item \union {Null}]
                  /\ count' = count - 1 /\ data' = [data EXCEPT ![q[k]] = Null]
<1> DEFINE e == q[k]
<1>1. Ringed(q, count, head, Next, Prev, Allocated) /\ Allocated \in SUBSET Elt
  BY AllocatedType DEF Ring
<1>2. Next \in Pointers /\ Prev \in Pointers /\ data \in [Elt -> Item \union {Null}] /\ count \in Nat
  BY <1>1 DEF ListTypeOK, Pointers, Ringed
<1>3. e \in Allocated /\ e \in Elt /\ data' = [data EXCEPT ![e] = Null]
  BY <1>1 DEF Ringed, Unlinked
<1>4. Allocated' = Allocated \ {e}
  BY <1>2, <1>3 DEF Allocated
<1>5. data' \in [Elt -> Item \union {Null}]
  BY <1>2, <1>3
<1>6. PICK r : r = Without(q, count, k)
  OBVIOUS
<1>7. head = q[1] /\ Prev[head] = q[count] /\ head \in Elt /\ 1 \in 1 .. count /\ count \in 1 .. count
  BY <1>1, <1>2 DEF Ringed
<1>8. CASE count = 1
  <2>1. head' = Null /\ count' = 0 /\ Next' = Next /\ Prev' = Prev
    BY <1>7, <1>8 DEF Unlinked
  <2>2. Allocated' = {}
    BY <1>1, <1>4, <1>8 DEF Ringed
  <2>3. 1 .. count' = {} /\ r = [i \in 1 .. 0 |-> IF i < k THEN q[i] ELSE q[i + 1]] /\ count' = count - 1
    BY <2>1, <1>6, <1>8 DEF Without
  <2>4. Ringed(r, count', head', Next', Prev', Allocated')
    BY <2>1, <2>2, <2>3 DEF Ringed
  <2>5. Cardinality(Elt) \in Nat
    BY ListAssumption, FS_CardinalityType
  <2> HIDE DEF e
  <2> QED
    BY <2>1, <2>3, <2>4, <2>5, <1>2, <1>3, <1>5, <1>6 DEF Ring, Pointers, Pointer, e
<1>9. CASE count # 1
  <2>1. q[count] # q[1]
    BY <1>1, <1>7, <1>9 DEF Ringed
  <2>2. /\ head' = IF e = head THEN Next[e] ELSE head
        /\ count' = count - 1
        /\ Next' = [Next EXCEPT ![Prev[e]] = Next[e], ![e] = Null]
        /\ Prev' = [Prev EXCEPT ![Next[e]] = Prev[e], ![e] = Null]
    BY <2>1, <1>7 DEF Unlinked
  <2>3. Ringed(r, count - 1, IF e = head THEN Next[e] ELSE head,
               [Next EXCEPT ![Prev[e]] = Next[e], ![e] = Null],
               [Prev EXCEPT ![Next[e]] = Prev[e], ![e] = Null], Allocated \ {e})
    BY <1>1, <1>2, <1>6, <1>9, RingShrinks
  <2>4. Ringed(r, count', head', Next', Prev', Allocated')
    BY <2>2, <2>3, <1>4
  <2>5. Next[e] \in Pointer /\ Prev[e] \in Pointer /\ Null \in Pointer
    BY <1>2, <1>3 DEF Pointers, Pointer
  <2>6. Next' \in Pointers /\ Prev' \in Pointers /\ head' \in Pointer
    BY <2>2, <2>5, <1>2, <1>7 DEF Pointers, Pointer
  <2>7. Allocated' \in SUBSET Elt
    BY <1>1, <1>4
  <2>8. count' \in 0 .. Cardinality(Elt)
    BY <2>4, <2>7, RingSize
  <2> HIDE DEF e
  <2> QED
    BY <2>2, <2>4, <2>6, <2>8, <1>3, <1>5, <1>6 DEF Ring, Pointers, e
<1> QED
  BY <1>8, <1>9

(* The pointer to the next of the i-th element of the ring. *)
LEMMA AfterStep ==
    ASSUME NEW q, Ring(q), NEW i \in 1 .. count
    PROVE  After(q[i]) = IF i = count THEN Null ELSE q[i + 1]
BY AllocatedType, Steps DEF Ring, After

LEMMA AfterNull == After(Null) = Null
BY DEF After, GetNext

(* What the program sees of the ring: its elements in order, its items and *)
(* the places of its elements.                                             *)
LEMMA Seen ==
    ASSUME NEW q, NEW n, NEW first, NEW next, NEW prev, NEW S \in SUBSET Elt,
           Ringed(q, n, first, next, prev, S), NEW content
    PROVE  /\ [i \in 1 .. n |-> IF Chained(first, next)[i] = Null THEN Null
                                ELSE content[Chained(first, next)[i]]]
              = [i \in 1 .. n |-> content[q[i]]]
           /\ \A k \in 1 .. n : q[k] # Null
                                /\ (CHOOSE i \in 1 .. n : Chained(first, next)[i] = q[k]) = k
<1>1. \A i \in 1 .. n : Chained(first, next)[i] = q[i]
  BY Walked
<1>2. \A i \in 1 .. n : q[i] # Null
  BY ListAssumption DEF Ringed
<1>3. \A i, j \in 1 .. n : q[i] = q[j] => i = j
  BY DEF Ringed
<1> QED
  BY <1>1, <1>2, <1>3

LEMMA SeenNow ==
    ASSUME NEW q, Ring(q)
    PROVE  /\ Items = [i \in 1 .. count |-> data[q[i]]]
           /\ \A k \in 1 .. count : q[k] # Null /\ Ith[k] = q[k] /\ PositionOf(q[k]) = k
           /\ PositionOf(Null) = 0
<1>1. Ringed(q, count, head, Next, Prev, Allocated) /\ Allocated \in SUBSET Elt
  BY AllocatedType DEF Ring
<1>2. Items = [i \in 1 .. count |-> data[q[i]]]
  BY <1>1, Seen DEF Items, Ith
<1>3. \A k \in 1 .. count : q[k] # Null /\ (CHOOSE i \in 1 .. count : Ith[i] = q[k]) = k
  BY <1>1, Seen DEF Ith
<1>4. \A k \in 1 .. count : Ith[k] = q[k]
  BY <1>1, Walked DEF Ith
<1> QED
  BY <1>2, <1>3, <1>4 DEF PositionOf

LEMMA SeenNext ==
    ASSUME NEW q, Ring(q)'
    PROVE  /\ Items' = [i \in 1 .. count' |-> data'[q[i]]]
           /\ \A k \in 1 .. count' : elt1' = q[k] => PositionOf(elt1)' = k
           /\ elt1' = Null => PositionOf(elt1)' = 0
<1>1. Ringed(q, count', head', Next', Prev', Allocated') /\ Allocated' \in SUBSET Elt
  BY DEF Ring, Allocated
<1>2. Items' = [i \in 1 .. count' |-> data'[q[i]]]
  BY <1>1, Seen DEF Items, Ith
<1>3. \A k \in 1 .. count' : q[k] # Null /\ (CHOOSE i \in 1 .. count' : Ith'[i] = q[k]) = k
  BY <1>1, Seen DEF Ith
<1> QED
  BY <1>2, <1>3 DEF PositionOf

(* RemoveChListe takes out the first element that holds d. *)
LEMMA RemoveStep ==
    ASSUME ListTypeOK, NEW q, Shape(q), NEW d \in Item, RemoveChListe(d)
    PROVE  \E k \in 1 .. count : \E r :
              /\ data[q[k]] = d /\ \A j \in 1 .. k - 1 : data[q[j]] # d
              /\ r = Without(q, count, k)
              /\ ListTypeOK' /\ Shape(r)'
              /\ count' = count - 1 /\ data' = [data EXCEPT ![q[k]] = Null]
<1>1. Ring(q)
  BY DEF Shape
<1>2. count \in Nat
  BY <1>1 DEF Ring, Ringed
<1>3. Holding(d) \in SUBSET Nat /\ Holding(d) # {}
  BY DEF Holding, RemoveChListe
<1>4. \E k \in Holding(d) : \A j \in Holding(d) : k <= j
  BY <1>3, LeastExists
<1>5. PICK k \in Holding(d) : /\ \A j \in Holding(d) : k <= j
                              /\ Unlinked(Ith[k])
  BY <1>4 DEF RemoveChListe
<1>6. k \in 1 .. count /\ Items[k] = d
  BY DEF Holding
<1>7. Items = [i \in 1 .. count |-> data[q[i]]] /\ Ith[k] = q[k]
  BY <1>1, <1>6, SeenNow
<1>8. data[q[k]] = d /\ Unlinked(q[k])
  <2>1. Items[k] = data[q[k]]
    BY <1>7, <1>6
  <2> QED
    BY <2>1, <1>7, <1>5, <1>6
<1>9. \A j \in 1 .. k - 1 : data[q[j]] # d
  <2> SUFFICES ASSUME NEW j \in 1 .. k - 1, data[q[j]] = d PROVE FALSE
    OBVIOUS
  <2>1. j \in 1 .. count /\ j < k /\ j \in Nat /\ k \in Nat
    BY <1>2, <1>6
  <2>2. Items[j] = d
    BY <2>1, <1>7
  <2>3. j \in Holding(d)
    BY <2>1, <2>2 DEF Holding
  <2> QED
    BY <2>1, <2>3, <1>5
<1>10. loop = "idle" /\ UNCHANGED <<loop, elt1, elt2>>
  BY DEF RemoveChListe
<1>11. PICK r : /\ r = Without(q, count, k)
                /\ Ring(r)'
                /\ head' \in Pointer /\ count' \in 0 .. Cardinality(Elt)
                /\ Next' \in [Elt -> Pointer] /\ Prev' \in [Elt -> Pointer]
                /\ data' \in [Elt -> Item \union {Null}]
                /\ count' = count - 1 /\ data' = [data EXCEPT ![q[k]] = Null]
  BY <1>1, <1>6, <1>8, UnlinkStep
<1>12. ListTypeOK'
  BY <1>10, <1>11 DEF ListTypeOK
<1>13. Shape(r)'
  BY <1>10, <1>11 DEF Shape, Standing
<1> QED
  BY <1>6, <1>8, <1>9, <1>11, <1>12, <1>13

LEMMA RingUnchanged ==
    ASSUME NEW q, Ring(q), UNCHANGED ring
    PROVE  Ring(q)'
BY DEF Ring, ring, Allocated

LEMMA BeginWalkStep ==
    ASSUME ListTypeOK, NEW q, Shape(q), BeginWalk
    PROVE  ListTypeOK' /\ Shape(q)' /\ 1 \in 1 .. count /\ elt1' = q[1]
<1>1. Ringed(q, count, head, Next, Prev, Allocated)
  BY DEF Shape, Ring
<1>2. count \in Nat /\ 1 \in 1 .. count /\ head = q[1]
  BY <1>1 DEF Ringed, BeginWalk
<1>3. Ring(q)'
  BY RingUnchanged DEF Shape, BeginWalk
<1>4. Standing(q)'
  BY <1>2 DEF BeginWalk, Standing, Shape, ring
<1> QED
  BY <1>2, <1>3, <1>4 DEF Shape, BeginWalk, ListTypeOK, ring

LEMMA WalkKeepsStep ==
    ASSUME ListTypeOK, NEW q, Shape(q), WalkKeeps
    PROVE  /\ ListTypeOK' /\ Shape(q)'
           /\ \E k \in 1 .. count : /\ elt1 = q[k]
                                    /\ elt1' = IF k = count THEN Null ELSE q[k + 1]
                                    /\ loop' = IF k = count THEN "idle" ELSE "walk"
<1>1. Ring(q)
  BY DEF Shape
<1>2. count \in Nat /\ q \in [1 .. count -> Allocated] /\ Allocated \in SUBSET Elt
  BY <1>1, AllocatedType DEF Ring, Ringed
<1>3. loop = "walk" /\ elt2 = Null /\ UNCHANGED <<ring, elt2>>
  BY DEF WalkKeeps, Shape, Standing
<1>4. PICK k \in 1 .. count : elt1 = q[k]
  BY <1>3 DEF Shape, Standing
<1>5. elt1' = IF k = count THEN Null ELSE q[k + 1]
  BY <1>1, <1>4, AfterStep DEF WalkKeeps, Goes
<1>6. k # count => k + 1 \in 1 .. count /\ q[k + 1] \in Elt /\ q[k + 1] # Null
  BY <1>2, ListAssumption
<1>7. loop' = IF k = count THEN "idle" ELSE "walk"
  BY <1>5, <1>6 DEF WalkKeeps, Goes
<1>8. Ring(q)'
  BY <1>1, <1>3, RingUnchanged
<1>9. Standing(q)'
  BY <1>3, <1>5, <1>6, <1>7 DEF Standing, ring
<1>10. ListTypeOK'
  BY <1>3, <1>5, <1>6, <1>7 DEF ListTypeOK, ring, Pointer
<1> QED
  BY <1>4, <1>5, <1>7, <1>8, <1>9, <1>10 DEF Shape

(* The element behind the removed one is passed over. *)
LEMMA WalkRemovesStep ==
    ASSUME ListTypeOK, NEW q, Shape(q), WalkRemoves
    PROVE  \E k \in 1 .. count : \E r :
              /\ elt1 = q[k] /\ r = Without(q, count, k)
              /\ ListTypeOK' /\ Shape(r)'
              /\ count' = count - 1 /\ data' = [data EXCEPT ![q[k]] = Null]
              /\ elt1' = IF k + 1 <= count - 1 THEN r[k + 1] ELSE Null
              /\ loop' = IF k + 1 <= count - 1 THEN "walk" ELSE "idle"
<1>1. Ring(q)
  BY DEF Shape
<1>2. count \in Nat
  BY <1>1 DEF Ring, Ringed
<1>3. loop = "walk" /\ elt2 = Null /\ UNCHANGED elt2
  BY DEF WalkRemoves, Shape, Standing
<1>4. PICK k \in 1 .. count : elt1 = q[k]
  BY <1>3 DEF Shape, Standing
<1>5. Unlinked(q[k])
  BY <1>4 DEF WalkRemoves
<1>6. PICK r : /\ r = Without(q, count, k)
               /\ Ring(r)'
               /\ head' \in Pointer /\ count' \in 0 .. Cardinality(Elt)
               /\ Next' \in [Elt -> Pointer] /\ Prev' \in [Elt -> Pointer]
               /\ data' \in [Elt -> Item \union {Null}]
               /\ count' = count - 1 /\ data' = [data EXCEPT ![q[k]] = Null]
  BY <1>1, <1>5, UnlinkStep
<1>7. After(q[k]) = IF k = count THEN Null ELSE q[k + 1]
  BY <1>1, AfterStep
<1>8. \A i \in 1 .. count - 1 : i >= k => r[i] = q[i + 1]
  BY <1>2, <1>6 DEF Without
<1>9. Ringed(r, count', head', Next', Prev', Allocated') /\ Allocated' \in SUBSET Elt
  BY <1>6 DEF Ring, Allocated
<1>10. elt1' = IF k + 1 <= count - 1 THEN r[k + 1] ELSE Null
  <2>1. elt1' = GetNext(head', Next', After(q[k]))
    BY <1>4 DEF WalkRemoves, Goes
  <2>2. CASE k = count
    BY <2>1, <2>2, <1>2, <1>7 DEF GetNext
  <2>3. CASE k # count
    <3>1. k \in 1 .. count' /\ r[k] = q[k + 1]
      BY <2>3, <1>2, <1>6, <1>8
    <3>2. elt1' = GetNext(head', Next', r[k])
      BY <2>1, <2>3, <3>1, <1>7
    <3>3. GetNext(head', Next', r[k]) = IF k = count' THEN Null ELSE r[k + 1]
      BY <3>1, <1>9, Steps
    <3> QED
      BY <2>3, <3>2, <3>3, <1>2, <1>6
  <2> QED
    BY <2>2, <2>3
<1>11. k + 1 <= count - 1 => k + 1 \in 1 .. count' /\ r[k + 1] \in Elt /\ r[k + 1] # Null
  <2>1. k + 1 <= count - 1 => k + 1 \in 1 .. count'
    BY <1>2, <1>6
  <2>2. \A i \in 1 .. count' : r[i] \in Elt /\ r[i] # Null
    BY <1>9, ListAssumption DEF Ringed
  <2> QED
    BY <2>1, <2>2
<1>12. loop' = IF k + 1 <= count - 1 THEN "walk" ELSE "idle"
  BY <1>10, <1>11 DEF WalkRemoves, Goes
<1>13. Standing(r)'
  BY <1>3, <1>10, <1>11, <1>12 DEF Standing
<1>14. ListTypeOK'
  BY <1>3, <1>6, <1>10, <1>11, <1>12 DEF ListTypeOK, Pointer
<1> QED
  BY <1>4, <1>6, <1>10, <1>12, <1>13, <1>14 DEF Shape

LEMMA BeginTrieStep ==
    ASSUME ListTypeOK, NEW q, Shape(q), BeginTrie
    PROVE  ListTypeOK' /\ Shape(q)'
<1>1. Ring(q)
  BY DEF Shape
<1>2. count \in Nat /\ 1 \in 1 .. count /\ head = q[1] /\ q \in [1 .. count -> Allocated]
      /\ Allocated \in SUBSET Elt
  BY <1>1, AllocatedType DEF Ring, Ringed, BeginTrie
<1>3. elt2' = IF 1 = count THEN Null ELSE q[1 + 1]
  BY <1>1, <1>2, AfterStep DEF BeginTrie
<1>4. 1 # count => 1 + 1 \in 1 + 1 .. count /\ q[1 + 1] \in Elt
  BY <1>2
<1>5. Ring(q)'
  BY <1>1, RingUnchanged DEF BeginTrie
<1>6. Standing(q)'
  BY <1>2, <1>3, <1>4 DEF BeginTrie, Standing, ring
<1>7. ListTypeOK'
  BY <1>2, <1>3, <1>4 DEF BeginTrie, ListTypeOK, ring, Pointer
<1> QED
  BY <1>5, <1>6, <1>7 DEF Shape

(* A turn of TrieChListe exchanges two items at most, of which the greater *)
(* was the first.                                                          *)
LEMMA TrieStepStep ==
    ASSUME ListTypeOK, NEW q, Shape(q), TrieStep
    PROVE  /\ ListTypeOK' /\ Shape(q)' /\ count' = count
           /\ loop = "sort" /\ loop' \in {"idle", "sort"}
           /\ \/ data' = data
              \/ \E k, l \in 1 .. count :
                    /\ k < l /\ Rank[data[q[k]]] > Rank[data[q[l]]]
                    /\ data' = [data EXCEPT ![q[k]] = data[q[l]], ![q[l]] = data[q[k]]]
<1>1. Ring(q)
  BY DEF Shape
<1>2. count \in Nat /\ q \in [1 .. count -> Allocated] /\ Allocated \in SUBSET Elt
  BY <1>1, AllocatedType DEF Ring, Ringed
<1>3. loop = "sort" /\ UNCHANGED <<head, count, Next, Prev>>
  BY DEF TrieStep
<1>4. PICK k \in 1 .. count : /\ elt1 = q[k]
                              /\ elt2 = Null \/ \E l \in k + 1 .. count : elt2 = q[l]
  BY <1>3 DEF Shape, Standing
<1>5. \A i \in 1 .. count : q[i] \in Elt /\ q[i] # Null /\ data[q[i]] \in Item
  BY <1>2, ListAssumption DEF ListTypeOK, Allocated
<1>6. \/ data' = data
      \/ \E m, l \in 1 .. count :
            /\ m < l /\ Rank[data[q[m]]] > Rank[data[q[l]]]
            /\ data' = [data EXCEPT ![q[m]] = data[q[l]], ![q[l]] = data[q[m]]]
  <2>1. CASE elt2 # Null /\ Rank[data[elt1]] > Rank[data[elt2]]
    <3>1. PICK l \in k + 1 .. count : elt2 = q[l]
      BY <2>1, <1>4
    <3>2. l \in 1 .. count /\ k < l
      BY <1>2, <3>1
    <3>3. data' = [data EXCEPT ![q[k]] = data[q[l]], ![q[l]] = data[q[k]]]
      BY <2>1, <3>1, <1>4 DEF TrieStep
    <3> QED
      BY <2>1, <3>1, <3>2, <3>3, <1>4
  <2>2. CASE ~ (elt2 # Null /\ Rank[data[elt1]] > Rank[data[elt2]])
    BY <2>2 DEF TrieStep
  <2> QED
    BY <2>1, <2>2
<1>7. data' \in [Elt -> Item \union {Null}] /\ Allocated' = Allocated
  <2>1. CASE data' = data
    BY <2>1 DEF ListTypeOK, Allocated
  <2>2. CASE data' # data
    <3>1. PICK m, l \in 1 .. count :
               data' = [data EXCEPT ![q[m]] = data[q[l]], ![q[l]] = data[q[m]]]
      BY <2>2, <1>6
    <3>2. \A i \in 1 .. count : q[i] \in Allocated /\ data[q[i]] # Null
      BY <1>2, <1>5, ListAssumption
    <3>3. data' \in [Elt -> Item \union {Null}]
      BY <3>1, <1>5 DEF ListTypeOK
    <3>4. \A e \in Elt : (data'[e] # Null) <=> (data[e] # Null)
      BY <3>1, <3>2, <1>5 DEF ListTypeOK
    <3> QED
      BY <3>3, <3>4 DEF Allocated
  <2> QED
    BY <2>1, <2>2
<1>8. Ring(q)'
  BY <1>1, <1>3, <1>7 DEF Ring
<1> DEFINE outer == IF After(elt2) # Null THEN elt1 ELSE After(elt1)
<1>9. /\ elt1' = outer
      /\ elt2' = IF After(elt2) # Null THEN After(elt2) ELSE After(outer)
      /\ loop' = IF outer = Null THEN "idle" ELSE "sort"
  BY DEF TrieStep, TrieAdvances
<1>10. CASE After(elt2) # Null
  <2>1. PICK l \in k + 1 .. count : elt2 = q[l]
    BY <1>4, <1>10, AfterNull
  <2>2. l \in 1 .. count
    BY <1>2
  <2>3. After(elt2) = IF l = count THEN Null ELSE q[l + 1]
    BY <1>1, <2>1, <2>2, AfterStep
  <2>4. After(elt2) = q[l + 1] /\ l + 1 \in k + 1 .. count /\ l + 1 \in 1 .. count
    BY <2>1, <2>2, <2>3, <1>2, <1>10
  <2>5. elt1' = q[k] /\ elt2' = q[l + 1] /\ loop' = "sort"
    BY <2>4, <1>4, <1>5, <1>9, <1>10
  <2>6. Standing(q)'
    BY <2>4, <2>5, <1>3 DEF Standing
  <2>7. ListTypeOK'
    BY <2>4, <2>5, <1>3, <1>5, <1>7 DEF ListTypeOK, Pointer
  <2> QED
    BY <2>5, <2>6, <2>7, <1>3, <1>6, <1>8 DEF Shape
<1>11. CASE After(elt2) = Null
  <2>1. elt1' = After(elt1) /\ elt2' = After(After(elt1))
        /\ loop' = IF After(elt1) = Null THEN "idle" ELSE "sort"
    BY <1>9, <1>11
  <2>2. After(elt1) = IF k = count THEN Null ELSE q[k + 1]
    BY <1>1, <1>4, AfterStep
  <2>3. CASE k = count
    <3>1. elt1' = Null /\ elt2' = Null /\ loop' = "idle"
      BY <2>1, <2>2, <2>3, AfterNull
    <3>2. Standing(q)'
      BY <3>1 DEF Standing
    <3>3. ListTypeOK'
      BY <3>1, <1>3, <1>7 DEF ListTypeOK, Pointer
    <3> QED
      BY <3>1, <3>2, <3>3, <1>3, <1>6, <1>8 DEF Shape
  <2>4. CASE k # count
    <3>1. k + 1 \in 1 .. count
      BY <2>4, <1>2
    <3>2. After(q[k + 1]) = IF k + 1 = count THEN Null ELSE q[k + 1 + 1]
      BY <1>1, <3>1, AfterStep
    <3>3. k + 1 # count => k + 1 + 1 \in k + 1 + 1 .. count /\ k + 1 + 1 \in 1 .. count
      BY <3>1, <1>2
    <3>4. elt1' = q[k + 1] /\ loop' = "sort"
          /\ elt2' = IF k + 1 = count THEN Null ELSE q[k + 1 + 1]
      BY <2>1, <2>2, <2>4, <3>1, <3>2, <1>5
    <3>5. Standing(q)'
      BY <3>1, <3>3, <3>4, <1>3 DEF Standing
    <3>6. ListTypeOK'
      BY <3>1, <3>3, <3>4, <1>3, <1>5, <1>7 DEF ListTypeOK, Pointer
    <3> QED
      BY <3>4, <3>5, <3>6, <1>3, <1>6, <1>8 DEF Shape
  <2> QED
    BY <2>3, <2>4
<1> QED
  BY <1>10, <1>11

-----------------------------------------------------------------------------
(***************************************************************************)
(* The invariant.                                                          *)
(***************************************************************************)

LEMMA NextIInv == IInv /\ [ListNext]_listVars => IInv'
<1> SUFFICES ASSUME IInv, [ListNext]_listVars PROVE IInv'
  OBVIOUS
<1>1. ListTypeOK
  BY DEF IInv
<1>2. PICK q : Shape(q)
  BY DEF IInv
<1>3. SUFFICES ListTypeOK' /\ \E r : Shape(r)'
  BY DEF IInv, Shape, Ring, Ringed
<1>4. ASSUME NEW d \in Item, NEW e \in Elt, AddChListe(d, e)
      PROVE  ListTypeOK' /\ \E r : Shape(r)'
  BY <1>1, <1>2, <1>4, AddStep
<1>5. ASSUME NEW d \in Item, RemoveChListe(d)
      PROVE  ListTypeOK' /\ \E r : Shape(r)'
  BY <1>1, <1>2, <1>5, RemoveStep
<1>6. CASE BeginWalk
  BY <1>1, <1>2, <1>6, BeginWalkStep
<1>7. CASE WalkKeeps
  BY <1>1, <1>2, <1>7, WalkKeepsStep
<1>8. CASE WalkRemoves
  BY <1>1, <1>2, <1>8, WalkRemovesStep
<1>9. CASE BeginTrie
  BY <1>1, <1>2, <1>9, BeginTrieStep
<1>10. CASE TrieStep
  BY <1>1, <1>2, <1>10, TrieStepStep
<1>11. CASE UNCHANGED listVars
  <2>1. ListTypeOK'
    BY <1>1, <1>11 DEF ListTypeOK, listVars, ring
  <2>2. Shape(q)'
    BY <1>2, <1>11 DEF Shape, Ring, Standing, Allocated, listVars, ring
  <2> QED
    BY <2>1, <2>2
<1> QED
  BY <1>4, <1>5, <1>6, <1>7, <1>8, <1>9, <1>10, <1>11 DEF ListNext

LEMMA IInvIsRing == IInv => IsRing
<1> SUFFICES ASSUME IInv PROVE IsRing
  OBVIOUS
<1>1. PICK q : Shape(q)
  BY DEF IInv
<1>2. Ringed(q, count, head, Next, Prev, Allocated) /\ Allocated \in SUBSET Elt
  BY <1>1, AllocatedType DEF Shape, Ring
<1>3. ListTypeOK
  BY DEF IInv
<1>4. count = Cardinality(Allocated) /\ count \in Nat
  <2>1. count = Cardinality(Allocated)
    BY <1>2, RingSize
  <2> QED
    BY <2>1, <1>2 DEF Ringed
<1>5. (head = Null) <=> (count = 0)
  <2>1. count # 0 => 1 \in 1 .. count
    BY <1>4
  <2> QED
    BY <2>1, <1>2, ListAssumption DEF Ringed
<1>6. ASSUME NEW e \in Allocated
      PROVE  /\ Next[e] \in Allocated /\ Prev[Next[e]] = e
             /\ \E i \in 1 .. count : Ith[i] = e
  <2>1. PICK i \in 1 .. count : q[i] = e
    BY <1>2 DEF Ringed
  <2>2. Ith[i] = e
    BY <1>1, <2>1, SeenNow DEF Shape
  <2> DEFINE j == IF i = count THEN 1 ELSE i + 1
  <2>3. j \in 1 .. count /\ (IF j = 1 THEN count ELSE j - 1) = i
    BY <1>4
  <2>4. Next[e] = q[j]
    BY <1>2, <2>1 DEF Ringed
  <2>5. Prev[q[j]] = q[IF j = 1 THEN count ELSE j - 1] /\ q[j] \in Allocated
    <3> HIDE DEF j
    <3> QED
      BY <1>2, <2>3 DEF Ringed
  <2>6. Prev[q[j]] = e
    <3> HIDE DEF j
    <3> QED
      BY <2>1, <2>3, <2>5
  <2> QED
    BY <2>2, <2>4, <2>5, <2>6
<1>7. (elt1 # Null => elt1 \in Allocated) /\ (elt2 # Null => elt2 \in Allocated)
  <2>1. \A k \in 1 .. count : q[k] \in Allocated /\ \A l \in k + 1 .. count : q[l] \in Allocated
    BY <1>2, <1>4 DEF Ringed
  <2> QED
    BY <1>1, <1>3, <2>1 DEF Shape, Standing, ListTypeOK
<1> QED
  BY <1>3, <1>4, <1>5, <1>6, <1>7 DEF IsRing

(* RemoveChListe_Ex, AddChListe and the exchange of TrieChListe keep the   *)
(* elements in one ring, of which Count is the size: no element is lost or *)
(* freed while linked, and no walk or sort stands on a freed element.      *)
THEOREM RingIsKept == ListSpec => []IsRing
<1>1. ListInit => IInv
  BY InitIInv
<1>2. IInv /\ [ListNext]_listVars => IInv'
  BY NextIInv
<1>3. IInv => IsRing
  BY IInvIsRing
<1> QED
  BY <1>1, <1>2, <1>3, PTL DEF ListSpec

-----------------------------------------------------------------------------
(***************************************************************************)
(* The ring implements ItemList.                                           *)
(***************************************************************************)

(* The items of the elements in q. *)
ItemsOf(q, n, content) == [i \in 1 .. n |-> content[q[i]]]

LEMMA ContentsSeq ==
    ASSUME NEW q, NEW n \in Nat, NEW content, NEW T,
           \A i \in 1 .. n : content[q[i]] \in T
    PROVE  /\ ItemsOf(q, n, content) \in Seq(T)
           /\ Len(ItemsOf(q, n, content)) = n
           /\ DOMAIN ItemsOf(q, n, content) = 1 .. n
           /\ \A i \in 1 .. n : ItemsOf(q, n, content)[i] = content[q[i]]
BY DEF ItemsOf

LEMMA RemoveAtProperties ==
    ASSUME NEW T, NEW s \in Seq(T), NEW k \in 1 .. Len(s)
    PROVE  /\ RemoveAt(s, k) \in Seq(T)
           /\ Len(RemoveAt(s, k)) = Len(s) - 1
           /\ \A i \in 1 .. Len(s) - 1 : RemoveAt(s, k)[i] = IF i < k THEN s[i] ELSE s[i + 1]
<1>1. Len(s) \in Nat /\ \A i \in 1 .. Len(s) : s[i] \in T
  BY LenProperties, ElementOfSeq
<1> DEFINE a == SubSeq(s, 1, k - 1)
           b == SubSeq(s, k + 1, Len(s))
<1>2. a \in Seq(T) /\ Len(a) = k - 1 /\ \A i \in 1 .. k - 1 : a[i] = s[i]
  <2>1. 1 \in Int /\ k - 1 \in Int /\ \A i \in 1 .. k - 1 : s[i] \in T
    BY <1>1
  <2>2. /\ a \in Seq(T) /\ Len(a) = IF 1 <= k - 1 THEN (k - 1) - 1 + 1 ELSE 0
        /\ \A i \in 1 .. (k - 1) - 1 + 1 : a[i] = s[1 + i - 1]
    BY <2>1, SubSeqProperties
  <2> HIDE DEF a
  <2> QED
    BY <2>2, <1>1
<1>3. b \in Seq(T) /\ Len(b) = Len(s) - k /\ \A i \in 1 .. Len(s) - k : b[i] = s[k + i]
  <2>1. k + 1 \in Int /\ Len(s) \in Int /\ \A i \in k + 1 .. Len(s) : s[i] \in T
    BY <1>1
  <2>2. /\ b \in Seq(T) /\ Len(b) = IF k + 1 <= Len(s) THEN Len(s) - (k + 1) + 1 ELSE 0
        /\ \A i \in 1 .. Len(s) - (k + 1) + 1 : b[i] = s[k + 1 + i - 1]
    BY <2>1, SubSeqProperties
  <2> HIDE DEF b
  <2> QED
    BY <2>2, <1>1
<1> HIDE DEF a, b
<1>4. /\ a \o b \in Seq(T) /\ Len(a \o b) = Len(a) + Len(b)
      /\ \A i \in 1 .. Len(a) + Len(b) : (a \o b)[i] = IF i <= Len(a) THEN a[i] ELSE b[i - Len(a)]
  BY <1>2, <1>3, ConcatProperties
<1>5. RemoveAt(s, k) = a \o b
  BY DEF RemoveAt, a, b
<1>6. Len(a) + Len(b) = Len(s) - 1
  BY <1>1, <1>2, <1>3
<1>7. ASSUME NEW i \in 1 .. Len(s) - 1
      PROVE  (a \o b)[i] = IF i < k THEN s[i] ELSE s[i + 1]
  <2>1. CASE i < k
    <3>1. i <= Len(a) /\ i \in 1 .. k - 1
      BY <2>1, <1>1, <1>2
    <3> QED
      BY <2>1, <3>1, <1>2, <1>4, <1>6
  <2>2. CASE ~ i < k
    <3>1. ~ i <= Len(a) /\ i - Len(a) \in 1 .. Len(s) - k /\ k + (i - Len(a)) = i + 1
      BY <2>2, <1>1, <1>2
    <3>2. (a \o b)[i] = b[i - Len(a)]
      BY <3>1, <1>4, <1>6
    <3>3. b[i - Len(a)] = s[k + (i - Len(a))]
      BY <3>1, <1>3
    <3> QED
      BY <2>2, <3>1, <3>2, <3>3
  <2> QED
    BY <2>1, <2>2
<1> QED
  BY <1>4, <1>5, <1>6, <1>7

(* Items, now and after a step, as the contents of q. *)
LEMMA ItemsNow ==
    ASSUME ListTypeOK, NEW q, Ring(q)
    PROVE  /\ Items = ItemsOf(q, count, data) /\ count \in Nat
           /\ Items \in Seq(Item) /\ Len(Items) = count /\ DOMAIN Items = 1 .. count
           /\ \A i \in 1 .. count : Items[i] = data[q[i]] /\ q[i] \in Elt /\ Items[i] \in Item
           /\ \A i, j \in 1 .. count : q[i] = q[j] => i = j
<1>1. count \in Nat /\ q \in [1 .. count -> Allocated] /\ \A i, j \in 1 .. count : q[i] = q[j] => i = j
  BY DEF Ring, Ringed
<1>2. \A i \in 1 .. count : data[q[i]] \in Item
  BY <1>1 DEF Allocated, ListTypeOK
<1>3. \A i \in 1 .. count : q[i] \in Elt
  BY <1>1 DEF Allocated
<1>4. Items = ItemsOf(q, count, data)
  BY SeenNow DEF ItemsOf
<1>5. /\ ItemsOf(q, count, data) \in Seq(Item) /\ Len(ItemsOf(q, count, data)) = count
      /\ DOMAIN ItemsOf(q, count, data) = 1 .. count
      /\ \A i \in 1 .. count : ItemsOf(q, count, data)[i] = data[q[i]]
  <2>1. count \in Nat
    BY <1>1
  <2> QED
    BY <2>1, <1>2, ContentsSeq
<1> QED
  BY <1>1, <1>2, <1>4, <1>5, <1>3

LEMMA ItemsNext ==
    ASSUME ListTypeOK', NEW q, Ring(q)'
    PROVE  /\ Items' = ItemsOf(q, count', data')
           /\ Items' \in Seq(Item) /\ Len(Items') = count'
           /\ \A i \in 1 .. count' : Items'[i] = data'[q[i]] /\ data'[q[i]] \in Item
<1>1. count' \in Nat /\ q \in [1 .. count' -> Allocated']
  BY DEF Ring, Ringed
<1>2. \A i \in 1 .. count' : data'[q[i]] \in Item
  BY <1>1 DEF Allocated, ListTypeOK
<1>3. Items' = ItemsOf(q, count', data')
  BY SeenNext DEF ItemsOf
<1>4. /\ ItemsOf(q, count', data') \in Seq(Item) /\ Len(ItemsOf(q, count', data')) = count'
      /\ \A i \in 1 .. count' : ItemsOf(q, count', data')[i] = data'[q[i]]
  BY <1>1, <1>2, ContentsSeq
<1> QED
  BY <1>2, <1>3, <1>4

LEMMA AddRefines ==
    ASSUME ListTypeOK, NEW q, Shape(q), NEW d \in Item, NEW e \in Elt, AddChListe(d, e)
    PROVE  Sequence!Add(d)
<1>1. PICK r : /\ r = Added(q, count, e)
               /\ ListTypeOK' /\ Shape(r)'
               /\ count' = count + 1 /\ data' = [data EXCEPT ![e] = d]
  BY AddStep
<1>2. Ring(q) /\ Ring(r)' /\ loop = "idle" /\ loop' = "idle" /\ e \notin Allocated
  BY <1>1 DEF Shape, AddChListe
<1>3. Items' = Append(Items, d)
  <2>1. /\ Append(Items, d) \in Seq(Item) /\ Len(Append(Items, d)) = count + 1
        /\ \A i \in 1 .. count : Append(Items, d)[i] = Items[i]
        /\ Append(Items, d)[count + 1] = d
    BY <1>2, ItemsNow, AppendProperties
  <2>2. Items' \in Seq(Item) /\ Len(Items') = count + 1
        /\ \A i \in 1 .. count + 1 : Items'[i] = data'[r[i]]
    BY <1>1, <1>2, ItemsNext
  <2>3. \A i \in 1 .. count : data'[r[i]] = Items[i]
    <3> TAKE i \in 1 .. count
    <3>1. count \in Nat /\ q[i] \in Elt /\ Items[i] = data[q[i]]
      BY <1>2, ItemsNow
    <3>2. q[i] \in Allocated
      BY <1>2 DEF Ring, Ringed
    <3>3. count \in Nat /\ q[i] \in Elt /\ q[i] \in Allocated /\ Items[i] = data[q[i]]
      BY <3>1, <3>2
    <3>4. r[i] = q[i] /\ q[i] # e
      BY <3>3, <1>1, <1>2 DEF Added
    <3> QED
      BY <3>3, <3>4, <1>1 DEF ListTypeOK
  <2>4. data'[r[count + 1]] = d
    <3>1. count \in Nat
      BY <1>2, ItemsNow
    <3>2. r[count + 1] = e
      BY <3>1, <1>1 DEF Added
    <3> QED
      BY <3>2, <1>1 DEF ListTypeOK
  <2>5. count \in Nat /\ \A i \in 1 .. count + 1 : i \in 1 .. count \/ i = count + 1
    <3>1. count \in Nat
      BY <1>2, ItemsNow
    <3> QED
      BY <3>1
  <2>6. \A i \in 1 .. Len(Items') : Items'[i] = Append(Items, d)[i]
    BY <2>1, <2>2, <2>3, <2>4, <2>5
  <2> QED
    BY <2>1, <2>2, <2>6, SeqEqual
<1> QED
  BY <1>2, <1>3 DEF Sequence!Add

(* The contents without the k-th element are those with the k-th item      *)
(* removed.                                                                *)
LEMMA WithoutIsRemoved ==
    ASSUME ListTypeOK, NEW q, Ring(q), NEW k \in 1 .. count, NEW r, r = Without(q, count, k),
           ListTypeOK', Ring(r)', count' = count - 1, data' = [data EXCEPT ![q[k]] = Null]
    PROVE  Items' = RemoveAt(Items, k)
<1>1. /\ Items \in Seq(Item) /\ Len(Items) = count /\ count \in Nat
      /\ \A i \in 1 .. count : Items[i] = data[q[i]] /\ q[i] \in Elt
      /\ \A i, j \in 1 .. count : q[i] = q[j] => i = j
  BY ItemsNow
<1>2. /\ RemoveAt(Items, k) \in Seq(Item) /\ Len(RemoveAt(Items, k)) = count - 1
      /\ \A i \in 1 .. count - 1 : RemoveAt(Items, k)[i] = IF i < k THEN Items[i] ELSE Items[i + 1]
  <2>1. Items \in Seq(Item) /\ k \in 1 .. Len(Items)
    BY <1>1
  <2>2. /\ RemoveAt(Items, k) \in Seq(Item) /\ Len(RemoveAt(Items, k)) = Len(Items) - 1
        /\ \A i \in 1 .. Len(Items) - 1 :
              RemoveAt(Items, k)[i] = IF i < k THEN Items[i] ELSE Items[i + 1]
    BY <2>1, RemoveAtProperties
  <2> QED
    BY <1>1, <2>2
<1>3. Items' \in Seq(Item) /\ Len(Items') = count - 1
      /\ \A i \in 1 .. count - 1 : Items'[i] = data'[r[i]]
  BY ItemsNext
<1>4. \A j \in 1 .. count : j # k => data'[q[j]] = Items[j]
  BY <1>1 DEF ListTypeOK
<1>5. ASSUME NEW i \in 1 .. count - 1
      PROVE  data'[r[i]] = IF i < k THEN Items[i] ELSE Items[i + 1]
  <2>1. r[i] = IF i < k THEN q[i] ELSE q[i + 1]
    BY DEF Without
  <2>2. (IF i < k THEN i ELSE i + 1) \in 1 .. count /\ (IF i < k THEN i ELSE i + 1) # k
    BY <1>1
  <2> QED
    BY <2>1, <2>2, <1>4
<1>6. \A i \in 1 .. Len(Items') : Items'[i] = RemoveAt(Items, k)[i]
  BY <1>2, <1>3, <1>5
<1> QED
  BY <1>2, <1>3, <1>6, SeqEqual

LEMMA RemoveRefines ==
    ASSUME ListTypeOK, NEW q, Shape(q), NEW d \in Item, RemoveChListe(d)
    PROVE  \E i \in DOMAIN Items : Sequence!Drop(i)
<1>1. PICK k \in 1 .. count : \E r :
              /\ data[q[k]] = d /\ \A j \in 1 .. k - 1 : data[q[j]] # d
              /\ r = Without(q, count, k)
              /\ ListTypeOK' /\ Shape(r)'
              /\ count' = count - 1 /\ data' = [data EXCEPT ![q[k]] = Null]
  BY RemoveStep
<1>2. PICK r :
              /\ data[q[k]] = d /\ \A j \in 1 .. k - 1 : data[q[j]] # d
              /\ r = Without(q, count, k)
              /\ ListTypeOK' /\ Shape(r)'
              /\ count' = count - 1 /\ data' = [data EXCEPT ![q[k]] = Null]
  BY <1>1
<1>3. Ring(q) /\ Ring(r)' /\ loop = "idle" /\ loop' = "idle"
  BY <1>2 DEF Shape, RemoveChListe
<1>4. Items' = RemoveAt(Items, k)
  BY <1>2, <1>3, WithoutIsRemoved
<1>5. count \in Nat /\ DOMAIN Items = 1 .. count /\ \A i \in 1 .. count : Items[i] = data[q[i]]
  BY <1>3, ItemsNow
<1>6. \A j \in 1 .. k - 1 : Items[j] # Items[k]
  <2>1. \A j \in 1 .. k - 1 : j \in 1 .. count
    BY <1>5
  <2> QED
    BY <2>1, <1>2, <1>5
<1>7. Sequence!Drop(k)
  BY <1>3, <1>4, <1>5, <1>6 DEF Sequence!Drop, RemoveAt, Sequence!RemoveAt
<1> QED
  BY <1>5, <1>7

LEMMA RingItemsUnchanged ==
    ASSUME UNCHANGED ring
    PROVE  Items' = Items
BY DEF Items, Ith, ring

LEMMA BeginWalkRefines ==
    ASSUME ListTypeOK, NEW q, Shape(q), BeginWalk
    PROVE  Sequence!Begin
<1>1. ListTypeOK' /\ Shape(q)' /\ 1 \in 1 .. count /\ elt1' = q[1]
  BY BeginWalkStep
<1>2. Items' = Items /\ loop = "idle" /\ loop' = "walk" /\ count' = count
  BY RingItemsUnchanged DEF BeginWalk, ring
<1>3. PositionOf(elt1)' = 1
  BY <1>1, <1>2, SeenNext DEF Shape
<1>4. Len(Items) = count /\ count \in Nat /\ 1 <= count
  BY <1>1, ItemsNow DEF Shape
<1>5. Sequence!At(1, Len(Items)) = 1
  BY <1>4 DEF Sequence!At
<1> QED
  BY <1>2, <1>3, <1>5 DEF Sequence!Begin

LEMMA WalkKeepsRefines ==
    ASSUME ListTypeOK, NEW q, Shape(q), WalkKeeps
    PROVE  Sequence!Keep
<1>1. Shape(q)'
  BY WalkKeepsStep
<1>2. PICK k \in 1 .. count : /\ elt1 = q[k]
                              /\ elt1' = IF k = count THEN Null ELSE q[k + 1]
                              /\ loop' = IF k = count THEN "idle" ELSE "walk"
  BY WalkKeepsStep
<1>3. Items' = Items /\ count' = count /\ loop = "walk"
  BY RingItemsUnchanged DEF WalkKeeps, ring
<1>4. PositionOf(elt1) = k
  BY <1>2, SeenNow DEF Shape
<1>5. Len(Items) = count /\ count \in Nat
  BY ItemsNow DEF Shape
<1>6. k # count => PositionOf(elt1)' = k + 1
  <2>1. k # count => k + 1 \in 1 .. count'
    BY <1>3, <1>5
  <2> QED
    BY <2>1, <1>1, <1>2, SeenNext DEF Shape
<1>7. Sequence!At(k + 1, Len(Items)) = IF k = count THEN 0 ELSE k + 1
  BY <1>5 DEF Sequence!At
<1>8. (IF loop = "walk" THEN PositionOf(elt1) ELSE 0) = k /\ k # 0
  BY <1>3, <1>4
<1>9. (IF loop' = "walk" THEN PositionOf(elt1)' ELSE 0) = IF k = count THEN 0 ELSE k + 1
  BY <1>2, <1>6
<1> QED
  BY <1>3, <1>7, <1>8, <1>9 DEF Sequence!Keep

LEMMA WalkRemovesRefines ==
    ASSUME ListTypeOK, NEW q, Shape(q), WalkRemoves
    PROVE  Sequence!Delete
<1>1. PICK k \in 1 .. count : \E r :
              /\ elt1 = q[k] /\ r = Without(q, count, k)
              /\ ListTypeOK' /\ Shape(r)'
              /\ count' = count - 1 /\ data' = [data EXCEPT ![q[k]] = Null]
              /\ elt1' = IF k + 1 <= count - 1 THEN r[k + 1] ELSE Null
              /\ loop' = IF k + 1 <= count - 1 THEN "walk" ELSE "idle"
  BY WalkRemovesStep
<1>2. PICK r :
              /\ elt1 = q[k] /\ r = Without(q, count, k)
              /\ ListTypeOK' /\ Shape(r)'
              /\ count' = count - 1 /\ data' = [data EXCEPT ![q[k]] = Null]
              /\ elt1' = IF k + 1 <= count - 1 THEN r[k + 1] ELSE Null
              /\ loop' = IF k + 1 <= count - 1 THEN "walk" ELSE "idle"
  BY <1>1
<1>3. Ring(q) /\ Ring(r)' /\ loop = "walk"
  BY <1>2 DEF Shape, WalkRemoves
<1>4. Items' = RemoveAt(Items, k)
  BY <1>2, <1>3, WithoutIsRemoved
<1>5. PositionOf(elt1) = k
  BY <1>2, <1>3, SeenNow
<1>6. count \in Nat /\ Len(Items') = count - 1
  BY <1>2, <1>3, ItemsNow, ItemsNext
<1>7. k + 1 <= count - 1 => PositionOf(elt1)' = k + 1
  <2>1. k + 1 <= count - 1 => k + 1 \in 1 .. count'
    BY <1>2, <1>6
  <2> QED
    BY <2>1, <1>2, <1>3, SeenNext
<1>8. Sequence!At(k + 1, Len(Items')) = IF k + 1 <= count - 1 THEN k + 1 ELSE 0
  BY <1>6 DEF Sequence!At
<1>9. (IF loop = "walk" THEN PositionOf(elt1) ELSE 0) = k /\ k # 0
  BY <1>3, <1>5
<1>10. (IF loop' = "walk" THEN PositionOf(elt1)' ELSE 0) = IF k + 1 <= count - 1 THEN k + 1 ELSE 0
  BY <1>2, <1>7
<1> QED
  BY <1>4, <1>8, <1>9, <1>10 DEF Sequence!Delete, RemoveAt, Sequence!RemoveAt

LEMMA TrieStepRefines ==
    ASSUME ListTypeOK, NEW q, Shape(q), TrieStep
    PROVE  \/ \E i, j \in DOMAIN Items : Sequence!Swap(i, j)
           \/ Items' = Items /\ loop # "walk" /\ loop' # "walk"
<1>1. /\ ListTypeOK' /\ Shape(q)' /\ count' = count /\ loop # "walk" /\ loop' # "walk"
      /\ \/ data' = data
         \/ \E k, l \in 1 .. count :
               /\ k < l /\ Rank[data[q[k]]] > Rank[data[q[l]]]
               /\ data' = [data EXCEPT ![q[k]] = data[q[l]], ![q[l]] = data[q[k]]]
  BY TrieStepStep
<1>2. /\ Items = ItemsOf(q, count, data) /\ count \in Nat
      /\ Items \in Seq(Item) /\ Len(Items) = count /\ DOMAIN Items = 1 .. count
      /\ \A i \in 1 .. count : Items[i] = data[q[i]] /\ q[i] \in Elt /\ Items[i] \in Item
      /\ \A i, j \in 1 .. count : q[i] = q[j] => i = j
  BY ItemsNow DEF Shape
<1>3. Items' = ItemsOf(q, count, data')
  BY <1>1, ItemsNext DEF Shape
<1>4. CASE data' = data
  BY <1>1, <1>2, <1>3, <1>4
<1>5. CASE data' # data
  <2>1. PICK k, l \in 1 .. count :
               /\ k < l /\ Rank[data[q[k]]] > Rank[data[q[l]]]
               /\ data' = [data EXCEPT ![q[k]] = data[q[l]], ![q[l]] = data[q[k]]]
    BY <1>1, <1>5
  <2>2. \A i \in 1 .. count : data'[q[i]] = IF i = l THEN Items[k] ELSE IF i = k THEN Items[l] ELSE Items[i]
    BY <2>1, <1>2 DEF ListTypeOK
  <2>3. Items' = [Items EXCEPT ![k] = Items[l], ![l] = Items[k]]
    <3>1. Items' = [i \in 1 .. count |-> IF i = l THEN Items[k] ELSE IF i = k THEN Items[l] ELSE Items[i]]
      BY <2>2, <1>3 DEF ItemsOf
    <3>2. [Items EXCEPT ![k] = Items[l], ![l] = Items[k]]
          = [i \in 1 .. count |-> IF i = l THEN Items[k] ELSE IF i = k THEN Items[l] ELSE Items[i]]
      BY <1>2
    <3> QED
      BY <3>1, <3>2
  <2>4. Sequence!Swap(k, l)
    BY <2>1, <2>3, <1>1, <1>2 DEF Sequence!Swap
  <2> QED
    BY <2>4, <1>2
<1> QED
  BY <1>4, <1>5

LEMMA InitRefines == ListInit => Sequence!Init
<1> SUFFICES ASSUME ListInit PROVE Sequence!Init
  OBVIOUS
<1>1. count = 0 /\ loop # "walk"
  BY DEF ListInit
<1>2. 1 .. count = {}
  BY <1>1
<1>3. Items = <<>>
  BY <1>2 DEF Items
<1> QED
  BY <1>1, <1>3 DEF Sequence!Init

LEMMA NextRefines ==
    IInv /\ [ListNext]_listVars =>
        [Sequence!Next]_<<Items, IF loop = "walk" THEN PositionOf(elt1) ELSE 0>>
<1> SUFFICES ASSUME IInv, [ListNext]_listVars
             PROVE  [Sequence!Next]_<<Items, IF loop = "walk" THEN PositionOf(elt1) ELSE 0>>
  OBVIOUS
<1>1. ListTypeOK
  BY DEF IInv
<1>2. PICK q : Shape(q)
  BY DEF IInv
<1>3. ASSUME NEW d \in Item, NEW e \in Elt, AddChListe(d, e)
      PROVE  Sequence!Next
  BY <1>1, <1>2, <1>3, AddRefines DEF Sequence!Next
<1>4. ASSUME NEW d \in Item, RemoveChListe(d)
      PROVE  Sequence!Next
  BY <1>1, <1>2, <1>4, RemoveRefines DEF Sequence!Next
<1>5. CASE BeginWalk
  BY <1>1, <1>2, <1>5, BeginWalkRefines DEF Sequence!Next
<1>6. CASE WalkKeeps
  BY <1>1, <1>2, <1>6, WalkKeepsRefines DEF Sequence!Next
<1>7. CASE WalkRemoves
  BY <1>1, <1>2, <1>7, WalkRemovesRefines DEF Sequence!Next
<1>8. CASE BeginTrie
  <2>1. Items' = Items
    BY <1>8, RingItemsUnchanged DEF BeginTrie
  <2> QED
    BY <2>1, <1>8 DEF BeginTrie
<1>9. CASE TrieStep
  <2>1. CASE \E i, j \in DOMAIN Items : Sequence!Swap(i, j)
    BY <2>1 DEF Sequence!Next
  <2>2. CASE Items' = Items /\ loop # "walk" /\ loop' # "walk"
    BY <2>2
  <2> QED
    BY <2>1, <2>2, <1>1, <1>2, <1>9, TrieStepRefines
<1>10. CASE UNCHANGED listVars
  <2>1. Items' = Items
    BY <1>10, RingItemsUnchanged DEF listVars
  <2>2. PositionOf(elt1)' = PositionOf(elt1)
    BY <1>10 DEF PositionOf, Ith, listVars, ring
  <2> QED
    BY <2>1, <2>2, <1>10 DEF listVars
<1> QED
  BY <1>3, <1>4, <1>5, <1>6, <1>7, <1>8, <1>9, <1>10 DEF ListNext

(* To its callers the list is a sequence of items: AddChListe appends,     *)
(* RemoveChListe removes the first that is equal, a walk visits the items  *)
(* in order and passes over the one behind each that it removes, and       *)
(* TrieChListe exchanges two that are in the wrong order.                  *)
THEOREM ListIsSequence == ListSpec => ImplementsSequence
<1>1. ListInit => IInv
  BY InitIInv
<1>2. IInv /\ [ListNext]_listVars => IInv'
  BY NextIInv
<1>3. ListInit => Sequence!Init
  BY InitRefines
<1>4. IInv /\ [ListNext]_listVars =>
          [Sequence!Next]_<<Items, IF loop = "walk" THEN PositionOf(elt1) ELSE 0>>
  BY NextRefines
<1> QED
  BY <1>1, <1>2, <1>3, <1>4, PTL DEF ListSpec, ImplementsSequence, Sequence!Spec

-----------------------------------------------------------------------------
(***************************************************************************)
(* The sort of TrieChListe.                                                *)
(***************************************************************************)

(* With elt1 at k and elt2 at m, or m behind the last: the places before k *)
(* hold what belongs there, and k the least of those before m.             *)
SoFar(f, n, k, m) ==
    /\ \A i \in 1 .. k - 1, j \in 1 .. n : i < j => f[i] <= f[j]
    /\ \A j \in k + 1 .. m - 1 : f[k] <= f[j]

(* f with the values of k and m exchanged when they are in the wrong order. *)
Exchanged(f, n, k, m) ==
    [i \in 1 .. n |-> IF f[k] <= f[m] THEN f[i]
                      ELSE IF i = k THEN f[m] ELSE IF i = m THEN f[k] ELSE f[i]]

(* A turn of the inner loop brings the least so far to k. *)
LEMMA ExchangedSoFar ==
    ASSUME NEW n \in Nat, NEW f \in [1 .. n -> Nat], NEW k \in 1 .. n, NEW m \in k + 1 .. n,
           SoFar(f, n, k, m)
    PROVE  SoFar(Exchanged(f, n, k, m), n, k, m + 1)
<1> DEFINE g == Exchanged(f, n, k, m)
<1>1. m \in 1 .. n /\ k < m
  OBVIOUS
<1>2. \A i \in 1 .. n : g[i] = IF f[k] <= f[m] THEN f[i]
                               ELSE IF i = k THEN f[m] ELSE IF i = m THEN f[k] ELSE f[i]
  BY DEF Exchanged
<1>3. \A i \in 1 .. n : f[i] \in Nat
  OBVIOUS
<1> HIDE DEF g
<1>4. ASSUME NEW i \in 1 .. k - 1, NEW j \in 1 .. n, i < j PROVE g[i] <= g[j]
  <2>1. i \in 1 .. n /\ i # k /\ i # m
    BY <1>1
  <2>2. g[i] = f[i]
    BY <1>2, <2>1
  <2>3. f[i] <= f[j] /\ f[i] <= f[k] /\ f[i] <= f[m]
    BY <1>1, <1>4 DEF SoFar
  <2> QED
    BY <1>2, <2>2, <2>3
<1>5. ASSUME NEW j \in k + 1 .. (m + 1) - 1 PROVE g[k] <= g[j]
  <2>1. j \in 1 .. n /\ j # k /\ (j # m => j \in k + 1 .. m - 1)
    BY <1>1
  <2>2. j # m => f[k] <= f[j]
    BY <2>1 DEF SoFar
  <2> QED
    BY <1>1, <1>2, <1>3, <2>1, <2>2
<1> QED
  BY <1>4, <1>5 DEF SoFar, g

(* When the inner loop has ended, k holds what belongs there. *)
LEMMA SoFarNext ==
    ASSUME NEW n \in Nat, NEW f \in [1 .. n -> Nat], NEW k \in 1 .. n, SoFar(f, n, k, n + 1)
    PROVE  SoFar(f, n, k + 1, k + 2)
<1>1. ASSUME NEW i \in 1 .. (k + 1) - 1, NEW j \in 1 .. n, i < j PROVE f[i] <= f[j]
  <2>1. CASE i = k
    <3>1. j \in k + 1 .. (n + 1) - 1
      BY <1>1, <2>1
    <3> QED
      BY <2>1, <3>1 DEF SoFar
  <2>2. CASE i # k
    <3>1. i \in 1 .. k - 1
      BY <2>2
    <3> QED
      BY <1>1, <3>1 DEF SoFar
  <2> QED
    BY <2>1, <2>2
<1>2. (k + 1) + 1 .. (k + 2) - 1 = {}
  OBVIOUS
<1> QED
  BY <1>1, <1>2 DEF SoFar

(* The ranks of the items of the elements in q. *)
Ranks(q, n, content) == [i \in 1 .. n |-> Rank[content[q[i]]]]

(* elt2 is the m-th element, or Null when elt1 is the last. *)
Turn(q, k, m) ==
    /\ elt1 = q[k]
    /\ elt2 = IF m = count + 1 THEN Null ELSE q[m]
    /\ m = count + 1 => k = count
    /\ SoFar(Ranks(q, count, data), count, k, m)

(* The inductive invariant of the sort. *)
Sorting(q) == loop = "sort" => \E k \in 1 .. count : \E m \in k + 1 .. count + 1 : Turn(q, k, m)
SortInv == ListTypeOK /\ \E q \in [1 .. count -> Allocated] : Shape(q) /\ Sorting(q)

LEMMA SortInvType == SortInv => IInv
BY DEF SortInv, IInv

LEMMA BeginTrieSorting ==
    ASSUME ListTypeOK, NEW q, Shape(q), BeginTrie
    PROVE  Sorting(q)'
<1>1. Ring(q) /\ count' = count /\ data' = data
  BY DEF Shape, BeginTrie, ring
<1>2. count \in Nat /\ 1 \in 1 .. count /\ head = q[1]
  BY <1>1 DEF Ring, Ringed, BeginTrie
<1>3. elt1' = q[1] /\ elt2' = IF 1 = count THEN Null ELSE q[1 + 1]
  BY <1>1, <1>2, AfterStep DEF BeginTrie
<1>4. 2 \in 1 + 1 .. count + 1
  BY <1>2
<1>5. SoFar(Ranks(q, count', data'), count', 1, 2)
  BY DEF SoFar
<1>6. elt2' = (IF 2 = count + 1 THEN Null ELSE q[2]) /\ (2 = count + 1 => 1 = count)
  BY <1>2, <1>3
<1> QED
  BY <1>1, <1>2, <1>3, <1>4, <1>5, <1>6 DEF Sorting, Turn

(* The ranks after the exchange of a turn. *)
LEMMA TurnExchanges ==
    ASSUME ListTypeOK, NEW q, Shape(q), TrieStep, NEW k \in 1 .. count, NEW m \in k + 1 .. count,
           elt1 = q[k], elt2 = q[m]
    PROVE  /\ Ranks(q, count, data) \in [1 .. count -> Nat]
           /\ Ranks(q, count, data') = Exchanged(Ranks(q, count, data), count, k, m)
<1>1. /\ count \in Nat
      /\ \A i \in 1 .. count : q[i] \in Elt /\ data[q[i]] \in Item
      /\ \A i, j \in 1 .. count : q[i] = q[j] => i = j
  <2>1. /\ count \in Nat
        /\ \A i \in 1 .. count : Items[i] = data[q[i]] /\ q[i] \in Elt /\ Items[i] \in Item
        /\ \A i, j \in 1 .. count : q[i] = q[j] => i = j
    BY ItemsNow DEF Shape
  <2> QED
    BY <2>1
<1>2. m \in 1 .. count /\ k < m /\ q[m] # Null
  BY <1>1, ListAssumption
<1>3. \A i \in 1 .. count : Rank[data[q[i]]] \in Nat
  BY <1>1, ListAssumption
<1>4. data' = IF Rank[data[q[k]]] > Rank[data[q[m]]]
              THEN [data EXCEPT ![q[k]] = data[q[m]], ![q[m]] = data[q[k]]]
              ELSE data
  BY <1>2 DEF TrieStep
<1>5. ASSUME NEW i \in 1 .. count
      PROVE  Rank[data'[q[i]]] = IF Rank[data[q[k]]] <= Rank[data[q[m]]] THEN Rank[data[q[i]]]
                                 ELSE IF i = k THEN Rank[data[q[m]]]
                                 ELSE IF i = m THEN Rank[data[q[k]]] ELSE Rank[data[q[i]]]
  <2>1. CASE Rank[data[q[k]]] <= Rank[data[q[m]]]
    <3>1. ~ Rank[data[q[k]]] > Rank[data[q[m]]]
      BY <2>1, <1>2, <1>3
    <3> QED
      BY <2>1, <3>1, <1>4
  <2>2. CASE ~ Rank[data[q[k]]] <= Rank[data[q[m]]]
    <3>1. data' = [data EXCEPT ![q[k]] = data[q[m]], ![q[m]] = data[q[k]]]
      BY <2>2, <1>2, <1>3, <1>4
    <3>2. data'[q[i]] = IF i = m THEN data[q[k]] ELSE IF i = k THEN data[q[m]] ELSE data[q[i]]
      BY <3>1, <1>1, <1>2 DEF ListTypeOK
    <3> QED
      BY <2>2, <3>2, <1>2
  <2> QED
    BY <2>1, <2>2
<1> QED
  BY <1>2, <1>3, <1>5 DEF Ranks, Exchanged

LEMMA TrieStepSorting ==
    ASSUME ListTypeOK, NEW q, Shape(q), Sorting(q), TrieStep
    PROVE  Sorting(q)' /\ (loop' = "idle" => Sorted')
<1>1. Ring(q) /\ loop = "sort" /\ count' = count /\ count \in Nat
  BY DEF Shape, Ring, Ringed, TrieStep
<1>2. PICK k \in 1 .. count : \E m \in k + 1 .. count + 1 : Turn(q, k, m)
  BY <1>1 DEF Sorting
<1>3. PICK m \in k + 1 .. count + 1 : Turn(q, k, m)
  BY <1>2
<1>4. \A i \in 1 .. count : q[i] # Null /\ After(q[i]) = IF i = count THEN Null ELSE q[i + 1]
  BY <1>1, AfterStep, SeenNow
<1> DEFINE f == Ranks(q, count, data)
           g == Ranks(q, count, data')
           outer == IF After(elt2) # Null THEN elt1 ELSE After(elt1)
<1>5. /\ elt1' = outer
      /\ elt2' = IF After(elt2) # Null THEN After(elt2) ELSE After(outer)
      /\ loop' = IF outer = Null THEN "idle" ELSE "sort"
  BY DEF TrieStep, TrieAdvances
<1>6. elt1 = q[k] /\ SoFar(f, count, k, m)
  BY <1>3 DEF Turn
<1>7. CASE m = count + 1
  <2>1. k = count /\ elt2 = Null
    BY <1>3, <1>7 DEF Turn
  <2>2. loop' = "idle"
    BY <2>1, <1>4, <1>5, <1>6, AfterNull
  <2>3. data' = data
    BY <2>1 DEF TrieStep
  <2>4. Shape(q)' /\ ListTypeOK'
    BY TrieStepStep
  <2>5. \A i \in 1 .. count : Items'[i] = data[q[i]]
    BY <2>3, <2>4, <1>1, ItemsNext DEF Shape
  <2>6. ASSUME NEW i \in 1 .. count, NEW j \in 1 .. count, i < j
        PROVE  Rank[data[q[i]]] <= Rank[data[q[j]]]
    <3>1. i \in 1 .. k - 1
      BY <2>1, <2>6, <1>1
    <3>2. f[i] <= f[j]
      <4> HIDE DEF f
      <4> QED
        BY <3>1, <2>6, <1>6 DEF SoFar
    <3> QED
      BY <3>2 DEF Ranks
  <2> QED
    BY <2>2, <2>5, <2>6, <1>1 DEF Sorted, Sorting
<1>8. CASE m # count + 1
  <2>1. m \in k + 1 .. count /\ m \in 1 .. count /\ k < m /\ elt2 = q[m]
    BY <1>1, <1>3, <1>8 DEF Turn
  <2>2. f \in [1 .. count -> Nat] /\ g = Exchanged(f, count, k, m)
    BY <2>1, <1>6, TurnExchanges
  <2>3. SoFar(g, count, k, m + 1)
    <3> HIDE DEF f, g
    <3> QED
      BY <2>1, <2>2, <1>1, <1>6, ExchangedSoFar
  <2>4. g = Ranks(q, count, data)'
    BY <1>1 DEF Ranks
  <2>5. CASE m # count
    <3>1. After(elt2) = q[m + 1] /\ m + 1 \in 1 .. count /\ m + 1 \in k + 1 .. count + 1 /\ m + 1 # count + 1
      BY <2>1, <2>5, <1>1, <1>4
    <3>2. elt1' = q[k] /\ elt2' = q[m + 1] /\ loop' = "sort"
      BY <3>1, <1>4, <1>5, <1>6
    <3>3. Turn(q, k, m + 1)'
      BY <3>1, <3>2, <2>3, <2>4, <1>1 DEF Turn
    <3> HIDE DEF f, g, outer
    <3> QED
      BY <3>1, <3>2, <3>3, <1>1 DEF Sorting
  <2>6. CASE m = count
    <3>1. After(elt2) = Null /\ k # count /\ k + 1 \in 1 .. count
      BY <2>1, <2>6, <1>1, <1>4
    <3>2. After(elt1) = q[k + 1] /\ After(q[k + 1]) = IF k + 1 = count THEN Null ELSE q[(k + 1) + 1]
      BY <3>1, <1>4, <1>6
    <3>3. elt1' = q[k + 1] /\ elt2' = (IF k + 1 = count THEN Null ELSE q[(k + 1) + 1]) /\ loop' = "sort"
      BY <3>1, <3>2, <1>4, <1>5
    <3>4. g \in [1 .. count -> Nat]
      <4> HIDE DEF f, g
      <4>1. \A i \in 1 .. count : f[i] \in Nat
        BY <2>2
      <4> QED
        BY <4>1, <2>1, <2>2 DEF Exchanged
    <3>5. SoFar(g, count, k + 1, k + 2)
      <4> HIDE DEF f, g
      <4> QED
        BY <2>3, <2>6, <3>4, <1>1, SoFarNext
    <3>6. k + 2 \in (k + 1) + 1 .. count + 1 /\ (k + 2 = count + 1 <=> k + 1 = count) /\ (k + 1) + 1 = k + 2
      BY <3>1, <1>1
    <3>7. Turn(q, k + 1, k + 2)'
      BY <3>3, <3>5, <3>6, <2>4, <1>1 DEF Turn
    <3> HIDE DEF f, g, outer
    <3> QED
      BY <3>1, <3>3, <3>6, <3>7, <1>1 DEF Sorting
  <2> QED
    BY <2>5, <2>6
<1> QED
  BY <1>7, <1>8

LEMMA SortStep ==
    SortInv /\ [ListNext]_listVars => SortInv' /\ (loop = "sort" /\ loop' = "idle" => Sorted')
<1> SUFFICES ASSUME SortInv, [ListNext]_listVars
             PROVE  SortInv' /\ (loop = "sort" /\ loop' = "idle" => Sorted')
  OBVIOUS
<1>1. ListTypeOK
  BY DEF SortInv
<1>2. PICK q : Shape(q) /\ Sorting(q)
  BY DEF SortInv
<1>3. IInv'
  BY SortInvType, NextIInv
<1>4. ListTypeOK' /\ \E r \in [1 .. count' -> Allocated'] : Shape(r)'
  BY <1>3 DEF IInv
<1>5. ASSUME loop' # "sort" PROVE SortInv'
  <2>1. PICK r \in [1 .. count' -> Allocated'] : Shape(r)'
    BY <1>4
  <2>2. Sorting(r)'
    BY <1>5 DEF Sorting
  <2> QED
    BY <1>4, <2>1, <2>2 DEF SortInv
<1>6. ASSUME NEW d \in Item, NEW e \in Elt, AddChListe(d, e) PROVE loop' # "sort" /\ loop # "sort"
  BY <1>6 DEF AddChListe
<1>7. ASSUME NEW d \in Item, RemoveChListe(d) PROVE loop' # "sort" /\ loop # "sort"
  BY <1>7 DEF RemoveChListe
<1>8. BeginWalk \/ WalkKeeps \/ WalkRemoves => loop' # "sort" /\ loop # "sort"
  BY DEF BeginWalk, WalkKeeps, WalkRemoves, Goes
<1>9. CASE BeginTrie
  <2>1. ListTypeOK' /\ Shape(q)' /\ Sorting(q)'
    BY <1>1, <1>2, <1>9, BeginTrieStep, BeginTrieSorting
  <2>2. SortInv'
    BY <2>1 DEF SortInv, Shape, Ring, Ringed
  <2> QED
    BY <2>2, <1>9 DEF BeginTrie
<1>10. CASE TrieStep
  <2>1. ListTypeOK' /\ Shape(q)'
    BY <1>1, <1>2, <1>10, TrieStepStep
  <2>2. Sorting(q)' /\ (loop' = "idle" => Sorted')
    BY <1>1, <1>2, <1>10, TrieStepSorting
  <2>3. SortInv'
    BY <2>1, <2>2 DEF SortInv, Shape, Ring, Ringed
  <2> QED
    BY <2>2, <2>3
<1>11. CASE UNCHANGED listVars
  <2>1. ListTypeOK'
    BY <1>1, <1>11 DEF ListTypeOK, listVars, ring
  <2>2. Shape(q)'
    BY <1>2, <1>11 DEF Shape, Ring, Standing, Allocated, listVars, ring
  <2>3. Sorting(q)'
    BY <1>2, <1>11 DEF Sorting, Turn, listVars, ring
  <2>4. SortInv'
    BY <2>1, <2>2, <2>3 DEF SortInv, Shape, Ring, Ringed
  <2> QED
    BY <2>4, <1>11 DEF listVars
<1> QED
  BY <1>5, <1>6, <1>7, <1>8, <1>9, <1>10, <1>11 DEF ListNext

(* TrieChListe ends with the items in the order of compare: its inner loop *)
(* brings the least of the rest to where the outer one stands.             *)
THEOREM TrieEndsSorted == ListSpec => EndsSorted
<1>1. ListInit => SortInv
  <2> SUFFICES ASSUME ListInit PROVE SortInv
    OBVIOUS
  <2>1. IInv /\ loop = "idle"
    BY InitIInv DEF ListInit
  <2> QED
    BY <2>1 DEF IInv, SortInv, Sorting
<1>2. SortInv /\ [ListNext]_listVars => SortInv'
  BY SortStep
<1>3. SortInv /\ [ListNext]_listVars => [loop = "sort" /\ loop' = "idle" => Sorted']_listVars
  BY SortStep
<1> QED
  BY <1>1, <1>2, <1>3, PTL DEF ListSpec, EndsSorted

-----------------------------------------------------------------------------
(***************************************************************************)
(* The array of TuxHisto.                                                  *)
(***************************************************************************)
LEMMA Bounds ==
    /\ Cap \in Nat /\ Cap >= 1 /\ SQLTOLIST \in Nat /\ SQLTOLIST >= 1
    /\ MaxTime \in Nat /\ Time_Sample \in Nat /\ MaxFaults \in Nat
    /\ Ids \subseteq Nat /\ IsFiniteSet(Ids) /\ None \notin Nat
    /\ Blocks \subseteq Nat /\ None \notin Blocks /\ None \notin Ids
    /\ Slots = 1 .. Cap /\ Times = 1 .. MaxTime
<1>1. /\ Cap \in Nat \ {0} /\ SQLTOLIST \in Nat \ {0} /\ MaxTime \in Nat \ {0}
      /\ Time_Sample \in Nat /\ MaxFaults \in Nat
      /\ Ids \subseteq Nat /\ IsFiniteSet(Ids) /\ None \notin Nat
  BY HistoAssumption
<1>2. Blocks \subseteq Nat
  BY <1>1 DEF Blocks
<1>3. None \notin Blocks /\ None \notin Ids
  BY <1>1, <1>2
<1>4. Cap >= 1 /\ SQLTOLIST >= 1
  BY <1>1
<1>5. Slots = 1 .. Cap /\ Times = 1 .. MaxTime
  BY DEF Slots, Times
<1> QED
  BY <1>1, <1>2, <1>3, <1>4, <1>5

(* The loop of CompactListe, slot by slot. *)
IsClosing(after, n, d) == after = [s \in 0 .. n |-> IF s = 0 THEN d ELSE MoveUp(after[s - 1], s)]

(* There is a function with the equation of Closing; it goes slot by slot. *)
LEMMA ClosingExists ==
    ASSUME NEW n \in Nat, NEW d
    PROVE  \E after : IsClosing(after, n, d)
<1> DEFINE Good(m, f) == f = [s \in 0 .. m |-> IF s = 0 THEN d ELSE MoveUp(f[s - 1], s)]
           Bad == {m \in Nat : ~ \E f : Good(m, f)}
<1>1. SUFFICES ASSUME Bad # {} PROVE FALSE
  BY DEF IsClosing
<1>2. PICK m \in Bad : \A k \in Bad : m <= k
  <2> HIDE DEF Good
  <2>1. Bad \in SUBSET Nat
    OBVIOUS
  <2> HIDE DEF Bad
  <2> QED
    BY <1>1, <2>1, LeastExists
<1>3. m \in Nat /\ ~ \E f : Good(m, f)
  <2> HIDE DEF Good
  <2> QED
    OBVIOUS
<1>4. m # 0
  <2>1. Good(0, [s \in 0 .. 0 |-> d])
    OBVIOUS
  <2> HIDE DEF Good, Bad
  <2> QED
    BY <2>1, <1>3
<1>5. m - 1 \in Nat /\ m - 1 < m
  <2> HIDE DEF Good, Bad
  <2> QED
    BY <1>3, <1>4
<1>6. PICK f : Good(m - 1, f)
  <2> HIDE DEF Good
  <2> QED
    BY <1>2, <1>3, <1>5
<1> HIDE DEF Bad
<1> DEFINE g == [s \in 0 .. m |-> IF s = 0 THEN d ELSE MoveUp(f[s - 1], s)]
<1>7. \A s \in 0 .. m - 1 : s \in 0 .. m /\ f[s] = g[s]
  BY <1>3, <1>5, <1>6
<1>8. \A s \in 0 .. m : s # 0 => f[s - 1] = g[s - 1]
  <2>1. \A s \in 0 .. m : s # 0 => s - 1 \in 0 .. m - 1
    BY <1>3
  <2> HIDE DEF g
  <2> QED
    BY <1>7, <2>1
<1>9. Good(m, g)
  BY <1>8
<1> HIDE DEF Good, g
<1> QED
  BY <1>9, <1>3

LEMMA ClosingSteps ==
    ASSUME NEW d
    PROVE  Closing(d)[0] = d /\ \A s \in 1 .. Cap : Closing(d)[s] = MoveUp(Closing(d)[s - 1], s)
<1> DEFINE after == Closing(d)
<1>1. Cap \in Nat
  BY Bounds
<1>2. \E f : IsClosing(f, Cap, d)
  BY <1>1, ClosingExists
<1>3. after = CHOOSE f : IsClosing(f, Cap, d)
  BY DEF Closing, IsClosing
<1>4. IsClosing(after, Cap, d)
  <2> HIDE DEF after
  <2> QED
    BY <1>2, <1>3
<1> HIDE DEF after
<1>5. after[0] = d /\ \A s \in 1 .. Cap : after[s] = MoveUp(after[s - 1], s)
  BY <1>1, <1>4 DEF IsClosing
<1> QED
  BY <1>5 DEF after

Arrays == [Slots -> Blocks \union {None}]

LEMMA MoveUpType ==
    ASSUME NEW d \in Arrays, NEW s \in 1 .. Cap
    PROVE  MoveUp(d, s) \in Arrays
  BY Bounds DEF MoveUp, Arrays

(* No NULL, or only some that the loop can close up: the last slot is NULL *)
(* and two in a row are so only at the end.  Up to slot s it is done.      *)
Closable(d, s) ==
    /\ \A q, r \in 1 .. Cap : d[q] = d[r] /\ d[q] # None => q = r
    /\ \/ \A r \in 1 .. Cap : d[r] # None
       \/ /\ d[Cap] = None
          /\ \A r \in 1 .. Cap - 1 : d[r] = None /\ d[r + 1] = None => \A q \in r .. Cap : d[q] = None
          /\ \A r \in 1 .. s : d[r] = None => \A q \in r .. Cap : d[q] = None

(* One turn of the loop keeps Closable, one slot further, and all pointers. *)
LEMMA MovedUp ==
    ASSUME NEW d \in Arrays, NEW s \in 1 .. Cap, Closable(d, s - 1)
    PROVE  /\ Closable(MoveUp(d, s), s)
           /\ \A b \in Blocks : (\E r \in 1 .. Cap : MoveUp(d, s)[r] = b) <=> (\E r \in 1 .. Cap : d[r] = b)
<1>1. CASE d[s] # None
  <2>1. MoveUp(d, s) = d
    BY <1>1 DEF MoveUp
  <2>2. Closable(d, s)
    <3>1. \A r \in 1 .. s : r \in 1 .. s - 1 \/ r = s
      BY Bounds
    <3> QED
      BY <1>1, <3>1 DEF Closable
  <2> QED
    BY <2>1, <2>2
<1>2. CASE d[s] = None
  <2> DEFINE e == MoveUp(d, s)
  <2>1. Cap \in Nat /\ s \in 1 .. Cap
    BY Bounds
  <2>2. /\ d[Cap] = None
        /\ \A r \in 1 .. Cap - 1 : d[r] = None /\ d[r + 1] = None => \A q \in r .. Cap : d[q] = None
        /\ \A r \in 1 .. s - 1 : d[r] = None => \A q \in r .. Cap : d[q] = None
        /\ \A q, r \in 1 .. Cap : d[q] = d[r] /\ d[q] # None => q = r
    BY <1>2 DEF Closable
  <2>3. /\ \A r \in 1 .. s - 1 : e[r] = d[r]
        /\ \A r \in s .. Cap - 1 : e[r] = d[r + 1]
        /\ e[Cap] = None
    BY <1>2, <2>1, <2>2, Bounds DEF MoveUp
  <2> HIDE DEF e
  <2>4. \A r \in 1 .. Cap : r \in 1 .. s - 1 \/ r \in s .. Cap - 1 \/ r = Cap
    BY <2>1
  <2>5. ASSUME NEW q \in 1 .. Cap, NEW r \in 1 .. Cap, e[q] = e[r], e[q] # None
        PROVE  q = r
    <3>1. /\ q \in 1 .. s - 1 \/ q \in s .. Cap - 1
          /\ r \in 1 .. s - 1 \/ r \in s .. Cap - 1
      BY <2>3, <2>4, <2>5
    <3>2. CASE q \in 1 .. s - 1 /\ r \in 1 .. s - 1
      BY <2>1, <2>2, <2>3, <2>5, <3>2
    <3>3. CASE q \in s .. Cap - 1 /\ r \in s .. Cap - 1
      <4>1. d[q + 1] = d[r + 1] /\ d[q + 1] # None /\ q + 1 \in 1 .. Cap /\ r + 1 \in 1 .. Cap
        BY <2>1, <2>3, <2>5, <3>3
      <4>2. q + 1 = r + 1
        BY <2>2, <4>1
      <4> QED
        BY <4>2
    <3>4. CASE q \in 1 .. s - 1 /\ r \in s .. Cap - 1
      <4>1. d[q] = d[r + 1] /\ d[q] # None /\ r + 1 \in 1 .. Cap
        BY <2>1, <2>3, <2>5, <3>4
      <4>2. q = r + 1
        BY <2>2, <4>1
      <4> QED
        BY <2>1, <3>4, <4>2
    <3>5. CASE q \in s .. Cap - 1 /\ r \in 1 .. s - 1
      <4>1. d[q + 1] = d[r] /\ d[r] # None /\ q + 1 \in 1 .. Cap
        BY <2>1, <2>3, <2>5, <3>5
      <4>2. q + 1 = r
        BY <2>2, <4>1
      <4> QED
        BY <2>1, <3>5, <4>2
    <3> QED
      BY <3>1, <3>2, <3>3, <3>4, <3>5
  <2>6. ASSUME NEW r \in 1 .. s - 1, e[r] = None
        PROVE  \A q \in r .. Cap : e[q] = None
    <3>1. \A q \in r .. Cap : d[q] = None
      BY <2>2, <2>3, <2>6
    <3>2. TAKE q \in r .. Cap
    <3>3. q \in 1 .. s - 1 \/ q \in s .. Cap - 1 \/ q = Cap
      BY <2>1, <2>4
    <3>4. CASE q \in s .. Cap - 1
      <4>1. q + 1 \in r .. Cap
        BY <2>1, <3>4
      <4> QED
        BY <2>3, <3>1, <3>4, <4>1
    <3> QED
      BY <2>3, <3>1, <3>3, <3>4
  <2>7. ASSUME NEW r \in s .. Cap, e[r] = None, r = s \/ (r \in s .. Cap - 1 /\ e[r + 1] = None)
        PROVE  \A q \in r .. Cap : e[q] = None
    <3>1. TAKE q \in r .. Cap
    <3>2. CASE q = Cap
      BY <2>3, <3>2
    <3>3. CASE q # Cap
      <4>1. q \in s .. Cap - 1 /\ r \in s .. Cap - 1 /\ q + 1 \in r + 1 .. Cap /\ r + 1 \in 1 .. Cap
        BY <2>1, <3>3
      <4>2. e[q] = d[q + 1] /\ d[r + 1] = None
        BY <2>3, <2>7, <4>1
      <4>3. CASE r = s
        <5>1. d[r] = None /\ r \in 1 .. Cap - 1 /\ q + 1 \in r .. Cap
          BY <1>2, <2>1, <4>1, <4>3
        <5> QED
          BY <2>2, <4>2, <5>1
      <4>4. CASE r \in s .. Cap - 1 /\ e[r + 1] = None
        <5>1. CASE r + 1 = Cap
          BY <2>1, <3>3, <4>1, <5>1, <2>3, <4>2
        <5>2. CASE r + 1 # Cap
          <6>1. r + 1 \in s .. Cap - 1 /\ r + 1 \in 1 .. Cap - 1
            BY <2>1, <4>1, <5>2
          <6>2. d[(r + 1) + 1] = None
            BY <2>3, <4>4, <6>1
          <6> QED
            BY <2>2, <4>1, <4>2, <6>1, <6>2
        <5> QED
          BY <5>1, <5>2
      <4> QED
        BY <2>7, <4>3, <4>4
    <3> QED
      BY <3>2, <3>3
  <2>8. \A r \in 1 .. Cap - 1 : e[r] = None /\ e[r + 1] = None => \A q \in r .. Cap : e[q] = None
    <3>1. \A r \in 1 .. Cap - 1 : r \in 1 .. s - 1 \/ (r \in s .. Cap - 1 /\ r \in s .. Cap)
      BY <2>1
    <3> QED
      BY <2>6, <2>7, <3>1
  <2>9. \A r \in 1 .. s : e[r] = None => \A q \in r .. Cap : e[q] = None
    <3>1. \A r \in 1 .. s : r \in 1 .. s - 1 \/ (r = s /\ r \in s .. Cap)
      BY <2>1
    <3> QED
      BY <2>6, <2>7, <3>1
  <2>10. Closable(e, s)
    BY <2>3, <2>5, <2>8, <2>9 DEF Closable
  <2>11. ASSUME NEW b \in Blocks, NEW r \in 1 .. Cap, d[r] = b
         PROVE  \E q \in 1 .. Cap : e[q] = b
    <3>1. b # None
      BY Bounds
    <3>2. r # s /\ r # Cap
      BY <1>2, <2>2, <2>11, <3>1
    <3>3. CASE r \in 1 .. s - 1
      BY <2>1, <2>3, <2>11, <3>3
    <3>4. CASE r \in s + 1 .. Cap
      <4>1. r - 1 \in s .. Cap - 1 /\ (r - 1) + 1 = r /\ r - 1 \in 1 .. Cap
        BY <2>1, <3>4
      <4> QED
        BY <2>3, <2>11, <4>1
    <3> QED
      BY <2>1, <3>2, <3>3, <3>4
  <2>12. ASSUME NEW b \in Blocks, NEW r \in 1 .. Cap, e[r] = b
         PROVE  \E q \in 1 .. Cap : d[q] = b
    <3>1. b # None
      BY Bounds
    <3>2. r \in 1 .. s - 1 \/ r \in s .. Cap - 1
      BY <2>3, <2>4, <2>12, <3>1
    <3>3. CASE r \in s .. Cap - 1
      <4>1. r + 1 \in 1 .. Cap
        BY <2>1, <3>3
      <4> QED
        BY <2>3, <2>12, <3>3, <4>1
    <3> QED
      BY <2>3, <2>12, <3>2, <3>3
  <2> QED
    BY <2>10, <2>11, <2>12 DEF e
<1> QED
  BY <1>1, <1>2

LEMMA ClosingType ==
    ASSUME NEW d \in Arrays
    PROVE  \A s \in 0 .. Cap : Closing(d)[s] \in Arrays
<1> DEFINE Bad == {s \in 0 .. Cap : Closing(d)[s] \notin Arrays}
<1>1. SUFFICES ASSUME Bad # {} PROVE FALSE
  OBVIOUS
<1>2. Bad \in SUBSET Nat
  BY Bounds
<1>3. PICK m \in Bad : \A k \in Bad : m <= k
  <2> HIDE DEF Bad
  <2> QED
    BY <1>1, <1>2, LeastExists
<1>4. m \in 0 .. Cap /\ Closing(d)[m] \notin Arrays
  OBVIOUS
<1>5. m # 0
  BY <1>4, ClosingSteps
<1>6. m \in 1 .. Cap /\ m - 1 \in 0 .. Cap /\ ~ m <= m - 1
  BY <1>4, <1>5, Bounds
<1>7. Closing(d)[m - 1] \in Arrays
  BY <1>3, <1>6
<1> QED
  BY <1>4, <1>6, <1>7, ClosingSteps, MoveUpType

(* CompactListe closes up what is Closable, and loses no pointer. *)
LEMMA ClosedUp ==
    ASSUME NEW d \in Arrays, Closable(d, 0)
    PROVE  /\ CloseUp(d) \in Arrays /\ Closable(CloseUp(d), Cap)
           /\ \A b \in Blocks : (\E r \in 1 .. Cap : CloseUp(d)[r] = b) <=> (\E r \in 1 .. Cap : d[r] = b)
<1> DEFINE Same(e) == \A b \in Blocks : (\E r \in 1 .. Cap : e[r] = b) <=> (\E r \in 1 .. Cap : d[r] = b)
           Bad == {s \in 0 .. Cap : ~ (Closable(Closing(d)[s], s) /\ Same(Closing(d)[s]))}
<1> HIDE DEF Same
<1>1. CASE Bad = {}
  <2>1. Cap \in 0 .. Cap
    BY Bounds
  <2>2. Closable(Closing(d)[Cap], Cap) /\ Same(Closing(d)[Cap]) /\ Closing(d)[Cap] \in Arrays
    BY <1>1, <2>1, ClosingType
  <2> QED
    BY <2>2 DEF CloseUp, Same
<1>2. CASE Bad # {}
  <2>1. Bad \in SUBSET Nat
    BY Bounds
  <2>2. PICK m \in Bad : \A k \in Bad : m <= k
    <3> HIDE DEF Bad
    <3> QED
      BY <1>2, <2>1, LeastExists
  <2>3. m \in 0 .. Cap /\ ~ (Closable(Closing(d)[m], m) /\ Same(Closing(d)[m]))
    OBVIOUS
  <2>4. m # 0
    BY <2>3, ClosingSteps DEF Same
  <2>5. m \in 1 .. Cap /\ m - 1 \in 0 .. Cap /\ ~ m <= m - 1
    BY <2>3, <2>4, Bounds
  <2>6. Closable(Closing(d)[m - 1], m - 1) /\ Same(Closing(d)[m - 1]) /\ Closing(d)[m - 1] \in Arrays
    BY <2>2, <2>5, ClosingType
  <2>7. Closing(d)[m] = MoveUp(Closing(d)[m - 1], m)
    BY <2>5, ClosingSteps
  <2>8. Closable(Closing(d)[m], m) /\ Same(Closing(d)[m])
    BY <2>5, <2>6, <2>7, MovedUp DEF Same
  <2> QED
    BY <2>3, <2>8
<1> QED
  BY <1>1, <1>2

(* A list that is closed up is full up to some slot, which InUse counts.    *)
LEMMA InUseCounts ==
    ASSUME NEW d \in Arrays, Closable(d, Cap)
    PROVE  InUse(d) \in 0 .. Cap /\ \A s \in 1 .. Cap : d[s] = None <=> s > InUse(d)
<1>1. PICK k \in 0 .. Cap : \A s \in 1 .. Cap : d[s] = None <=> s > k
  <2>1. CASE \A s \in 1 .. Cap : d[s] # None
    <3>1. Cap \in 0 .. Cap /\ \A s \in 1 .. Cap : d[s] = None <=> s > Cap
      BY <2>1, Bounds
    <3> QED
      BY <3>1
  <2>2. CASE \E s \in 1 .. Cap : d[s] = None
    <3> DEFINE S == {s \in 1 .. Cap : d[s] = None}
    <3>1. S # {} /\ S \in SUBSET Nat
      BY <2>2, Bounds
    <3>2. PICK m \in S : \A r \in S : m <= r
      <4> HIDE DEF S
      <4> QED
        BY <3>1, LeastExists
    <3>3. m \in 1 .. Cap /\ \A q \in m .. Cap : d[q] = None
      BY <2>2 DEF Closable
    <3>4. m - 1 \in 0 .. Cap /\ \A s \in 1 .. Cap : s > m - 1 <=> s \in m .. Cap
      BY <3>3, Bounds
    <3>5. \A s \in 1 .. Cap : d[s] = None => s > m - 1
      BY <3>2, <3>3, Bounds
    <3> QED
      BY <3>3, <3>4, <3>5
  <2> QED
    BY <2>1, <2>2
<1>2. {s \in Slots : d[s] # None} = 1 .. k
  BY <1>1, Bounds
<1>3. Cardinality(1 .. k) = k
  BY <1>1, FS_Interval
<1> QED
  BY <1>1, <1>2, <1>3 DEF InUse

(* In any state, a number of slots. *)
LEMMA InUseType ==
    ASSUME NEW d
    PROVE  InUse(d) \in 0 .. Cap
<1>1. IsFiniteSet(Slots) /\ Cardinality(Slots) = Cap
  BY Bounds, FS_Interval
<1>2. {s \in Slots : d[s] # None} \subseteq Slots
  OBVIOUS
<1>3. /\ IsFiniteSet({s \in Slots : d[s] # None})
      /\ Cardinality({s \in Slots : d[s] # None}) <= Cap
  BY <1>1, <1>2, FS_Subset
<1>4. Cardinality({s \in Slots : d[s] # None}) \in Nat
  BY <1>3, FS_CardinalityType
<1> QED
  BY <1>3, <1>4, Bounds DEF InUse

(* malloc has a block to give, which no pointer leads to if none leads to   *)
(* freed memory.                                                            *)
LEMMA MallocGives ==
    ASSUME Data \in Arrays, freed \subseteq Blocks
    PROVE  Malloc \subseteq Blocks /\ \A b \in Malloc : b \in freed \/ b \notin Held(Data)
<1> DEFINE R == {Data[s] : s \in Slots}
           free == Blocks \ Held(Data)
<1>1. IsFiniteSet(Slots) /\ Cardinality(Slots) = Cap /\ Cap \in Nat
  BY Bounds, FS_Interval
<1>2. Cardinality(Blocks) = Cap + 1
  <2>1. 1 \in Int /\ Cap + 1 \in Int /\ (Cap + 1) - 1 + 1 = Cap + 1 /\ 1 <= Cap + 1
    BY <1>1
  <2> QED
    BY <2>1, FS_Interval DEF Blocks
<1>3. Data \in Surjection(Slots, R)
  BY DEF Arrays, Surjection
<1>4. IsFiniteSet(R) /\ Cardinality(R) <= Cap
  <2> HIDE DEF R
  <2> QED
    BY <1>1, <1>3, FS_Surjection
<1>5. free # {}
  <2>1. SUFFICES ASSUME Blocks \subseteq R PROVE FALSE
    BY DEF Held
  <2> HIDE DEF R
  <2>2. Cardinality(Blocks) <= Cardinality(R)
    BY <1>4, <2>1, FS_Subset
  <2>3. Cardinality(R) \in Nat
    BY <1>4, FS_CardinalityType
  <2> QED
    BY <1>1, <1>2, <1>4, <2>2, <2>3
<1>6. \E b \in free : \A c \in free : b <= c
  <2>1. free \in SUBSET Nat
    BY Bounds
  <2> HIDE DEF free
  <2> QED
    BY <1>5, <2>1, LeastExists
<1>7. Malloc = freed \union {CHOOSE b \in free : \A c \in free : b <= c}
  BY DEF Malloc
<1>8. (CHOOSE b \in free : \A c \in free : b <= c) \in free
  <2> HIDE DEF free
  <2> QED
    BY <1>6
<1> QED
  BY <1>7, <1>8

-----------------------------------------------------------------------------
(***************************************************************************)
(* The types.                                                              *)
(***************************************************************************)
TAG == [id : Ids \union {None}, exist : BOOLEAN, inserted : 0 .. MaxTime]
ResultRow == [id : Ids, time : 0 .. MaxTime]

LEMMA TagTypes ==
    /\ \A b \in Blocks : NoTags[b] \in TAG
    /\ \A t \in Ids, x \in 0 .. MaxTime :
          /\ Exists(t, x) \in TAG
          /\ Exists(t, x).id = t /\ Exists(t, x).exist = TRUE /\ Exists(t, x).inserted = x
<1>1. 0 \in 0 .. MaxTime
  BY Bounds
<1> QED
  BY <1>1 DEF NoTags, TAG, Exists

LEMMA ContentsType ==
    ASSUME NEW f \in [Blocks -> TAG], NEW d
    PROVE  /\ Contents(f, d) \in [Blocks -> TAG]
           /\ \A b \in Blocks : b \in Held(d) => Contents(f, d)[b] = f[b]
  BY TagTypes DEF Contents

LEMMA ListTypes ==
    ASSUME TypeOK
    PROVE  /\ Data \in Arrays /\ Count \in 0 .. Cap /\ tags \in [Blocks -> TAG]
           /\ \A s \in 1 .. Count : s \in 1 .. Cap /\ s \in Slots /\ Data[s] \in Blocks \union {None}
           /\ freed \subseteq Blocks
<1>1. Data \in [Slots -> Blocks \union {None}] /\ Count \in 0 .. Cap /\ freed \subseteq Blocks
      /\ tags \in [Blocks -> TAG]
  BY DEF TypeOK, TAG
<1>2. \A s \in 1 .. Count : s \in 1 .. Cap
  BY <1>1, Bounds
<1> QED
  BY <1>1, <1>2, Bounds DEF Arrays

LEMMA RowTypes ==
    ASSUME TypeOK, pc = "rows"
    PROVE  /\ result \in Seq(ResultRow) /\ result # <<>>
           /\ Head(result).id \in Ids /\ Head(result).time \in 0 .. MaxTime
           /\ Tail(result) \in Seq(ResultRow)
           /\ Len(result) \in Nat /\ Len(result) > 0 /\ Head(result) = result[1]
           /\ Len(Tail(result)) = Len(result) - 1
           /\ \A n \in 1 .. Len(result) - 1 : Tail(result)[n] = result[n + 1]
<1>1. result \in Seq(ResultRow)
  BY DEF TypeOK, ResultRow
<1>2. result # <<>>
  BY DEF TypeOK
<1>3. Head(result) \in ResultRow /\ Tail(result) \in Seq(ResultRow)
  BY <1>1, <1>2, HeadTailProperties
<1>4. Head(result).id \in Ids /\ Head(result).time \in 0 .. MaxTime
  BY <1>3 DEF ResultRow
<1>5. Len(result) \in Nat /\ Len(result) > 0 /\ Head(result) = result[1]
  BY <1>1, <1>2, HeadTailProperties, LenProperties, EmptySeq
<1>6. Len(Tail(result)) = Len(result) - 1
      /\ \A n \in 1 .. Len(result) - 1 : Tail(result)[n] = result[n + 1]
  BY <1>1, <1>2, HeadTailProperties, LenProperties
<1> QED
  BY <1>1, <1>2, <1>3, <1>4, <1>5, <1>6

(* FindTag gives the TAG of the tag, or finds none. *)
LEMMA Found ==
    ASSUME TypeOK, NEW t, ~ FindTagCrashes(t)
    PROVE  /\ FindTag(t) # None => \E s \in 1 .. Count : /\ Data[s] = FindTag(t) /\ FindTag(t) \in Blocks
                                                         /\ tags[Data[s]].id = t
           /\ FindTag(t) = None => \A s \in 1 .. Count : Data[s] # None /\ tags[Data[s]].id # t
<1>1. CASE StopsAt(t) = {}
  <2>1. FindTag(t) = None
    BY <1>1 DEF FindTag
  <2> QED
    BY <1>1, <2>1 DEF StopsAt
<1>2. CASE StopsAt(t) # {}
  <2>1. FindTag(t) # None
    BY <1>2 DEF FindTagCrashes
  <2>2. StopsAt(t) \in SUBSET Nat
    BY ListTypes DEF StopsAt
  <2>3. \E s \in StopsAt(t) : \A r \in StopsAt(t) : s <= r
    BY <1>2, <2>2, LeastExists
  <2>4. PICK s \in StopsAt(t) : FindTag(t) = Data[s]
    BY <1>2, <2>3 DEF FindTag
  <2>5. s \in 1 .. Count /\ Data[s] # None /\ tags[Data[s]].id = t
    BY <2>1, <2>4 DEF StopsAt
  <2>6. Data[s] \in Blocks
    BY <2>5, ListTypes
  <2> QED
    BY <2>1, <2>4, <2>5, <2>6
<1> QED
  BY <1>1, <1>2

(* Row, with the block and the TAG that it works on.                       *)
Handled(b, old) ==
    LET t == Head(result).id
        time == Head(result).time IN
    /\ FindTag(t) = None => /\ b \in Malloc /\ old = Exists(t, 0)
                            /\ AddListe(b) /\ freed' = freed \ {b}
                            /\ excused' = IF Count = Cap THEN excused \union {t} ELSE excused
    /\ FindTag(t) # None => /\ b = FindTag(t) /\ old = tags[b]
                            /\ UNCHANGED <<Data, Count, freed, excused>>
    /\ tags' = Contents([tags EXCEPT ![b] = Exists(t, IF Due(old, time) THEN time ELSE old.inserted)],
                        Data')
    /\ IF Due(old, time) THEN InsertHisto(t, time) ELSE Fine /\ UNCHANGED <<histo, failed>>

(* What a row does to the list, with b its TAG and old what it found there. *)
LEMMA RowHandles ==
    ASSUME TypeOK, Row
    PROVE  /\ ~ FindTagCrashes(Head(result).id)
           /\ \E b \in Blocks, old \in TAG : Handled(b, old)
<1> DEFINE t == Head(result).id
           time == Head(result).time
           new == FindTag(t) = None
           first(b) == IF new THEN Exists(t, 0) ELSE tags[b]
<1>1. pc = "rows" /\ ~ FindTagCrashes(t)
  BY DEF Row
<1>2. t \in Ids /\ time \in 0 .. MaxTime
  BY <1>1, RowTypes
<1>3. PICK b \in (IF new THEN Malloc ELSE {FindTag(t)}) :
              /\ IF new THEN AddListe(b) ELSE UNCHANGED <<Data, Count>>
              /\ freed' = IF new THEN freed \ {b} ELSE freed
              /\ excused' = IF new /\ Count = Cap THEN excused \cup {t} ELSE excused
              /\ tags' = Contents([tags EXCEPT ![b] = Exists(t, IF Due(first(b), time) THEN time
                                                                ELSE first(b).inserted)], Data')
              /\ IF Due(first(b), time) THEN InsertHisto(t, time) ELSE Fine /\ UNCHANGED <<histo, failed>>
  BY DEF Row
<1>4. b \in Blocks
  BY <1>1, <1>3, Found, MallocGives, ListTypes
<1>5. first(b) \in TAG
  BY <1>2, <1>4, TagTypes, ListTypes, Bounds
<1>6. Handled(b, first(b))
  <2> HIDE DEF t, time
  <2>1. CASE new
    BY <1>3, <2>1 DEF Handled, t, time
  <2>2. CASE ~ new
    BY <1>3, <2>2 DEF Handled, t, time
  <2> QED
    BY <2>1, <2>2
<1> HIDE DEF first
<1> QED
  BY <1>1, <1>4, <1>5, <1>6

LEMMA RemovedType ==
    ASSUME TypeOK
    PROVE  /\ Removed \in Arrays /\ CloseUp(Removed) \in Arrays
           /\ Reset \in [Blocks -> TAG]
           /\ \A b \in Blocks : /\ Reset[b].id = tags[b].id /\ Reset[b].inserted = tags[b].inserted
                                /\ Reset[b].exist = (tags[b].exist /\ b \notin Listed)
<1>1. Removed \in Arrays
  BY ListTypes DEF Removed, Arrays
<1>2. Cap \in 0 .. Cap
  BY Bounds
<1>3. CloseUp(Removed) \in Arrays
  BY <1>1, <1>2, ClosingType DEF CloseUp
<1>4. ASSUME NEW b \in Blocks
      PROVE  /\ Reset[b] \in TAG
             /\ Reset[b].id = tags[b].id /\ Reset[b].inserted = tags[b].inserted
             /\ Reset[b].exist = (tags[b].exist /\ b \notin Listed)
  <2>1. tags[b] \in TAG /\ Reset[b] = [tags[b] EXCEPT !.exist = @ /\ b \notin Listed]
    BY ListTypes DEF Reset
  <2>2. Reset[b] = [id |-> tags[b].id, exist |-> (tags[b].exist /\ b \notin Listed),
                    inserted |-> tags[b].inserted]
    BY <2>1 DEF TAG
  <2>3. (tags[b].exist /\ b \notin Listed) \in BOOLEAN
    OBVIOUS
  <2>4. tags[b].id \in Ids \union {None} /\ tags[b].inserted \in 0 .. MaxTime
    BY <2>1 DEF TAG
  <2> QED
    BY <2>2, <2>3, <2>4 DEF TAG
<1>5. Reset = [b \in Blocks |-> Reset[b]]
  BY DEF Reset
<1>6. Reset \in [Blocks -> TAG]
  BY <1>4, <1>5
<1> QED
  BY <1>1, <1>3, <1>4, <1>6

(* The rows of a select. *)
LEMMA SelectedRows ==
    ASSUME TypeOK
    PROVE  LET ids == SetToSeq(rows)
               found == [n \in DOMAIN ids |-> [id |-> ids[n], time |-> snapshot[ids[n]]]] IN
           /\ found \in Seq(ResultRow)
           /\ \A n \in 1 .. Len(found) : found[n].id \in rows
           /\ \A t \in rows : \E n \in 1 .. Len(found) : found[n].id = t
<1> DEFINE ids == SetToSeq(rows)
           found == [n \in DOMAIN ids |-> [id |-> ids[n], time |-> snapshot[ids[n]]]]
           N == Cardinality(rows)
<1>1. IsFiniteSet(rows) /\ rows \subseteq Ids
  BY Bounds, FS_Subset DEF TypeOK
<1>2. N \in Nat /\ ExistsBijection(1 .. N, rows)
  BY <1>1, FS_CardinalityType
<1>3. \E f \in [1 .. N -> rows] : IsInjective(f)
  BY <1>2 DEF ExistsBijection, Bijection, Injection, IsInjective
<1>4. ids \in [1 .. N -> rows] /\ IsInjective(ids)
  BY <1>3 DEF SetToSeq
<1> HIDE DEF ids
<1>5. ids \in Injection(1 .. N, rows)
  BY <1>4 DEF Injection, IsInjective
<1>6. IsFiniteSet(1 .. N) /\ Cardinality(1 .. N) = N
  BY <1>2, FS_Interval
<1>7. ids \in Surjection(1 .. N, rows)
  BY <1>1, <1>5, <1>6, FS_Injection
<1>8. \A t \in rows : \E n \in 1 .. N : ids[n] = t
  BY <1>7 DEF Surjection
<1>9. found = [n \in 1 .. N |-> [id |-> ids[n], time |-> snapshot[ids[n]]]]
  BY <1>4
<1>10. \A t \in Ids : snapshot[t] \in 0 .. MaxTime
  BY DEF TypeOK
<1>11. \A n \in 1 .. N : ids[n] \in rows /\ found[n] \in ResultRow /\ found[n].id = ids[n]
  BY <1>1, <1>4, <1>9, <1>10 DEF ResultRow
<1>12. found \in [1 .. N -> ResultRow]
  BY <1>9, <1>11
<1>13. found \in Seq(ResultRow) /\ Len(found) = N
  <2> HIDE DEF found, N
  <2> QED
    BY <1>2, <1>12, SeqDef, LenProperties
<1> HIDE DEF found
<1> QED
  BY <1>8, <1>11, <1>13 DEF found, ids

(* TypeOK holds at the start, and every step keeps it. *)
LEMMA InitTypes == Init => TypeOK
<1> SUFFICES ASSUME Init PROVE TypeOK
  OBVIOUS
<1> USE DEF Init
<1>1. tags \in [Blocks -> [id : Ids \union {None}, exist : BOOLEAN, inserted : 0 .. MaxTime]]
  BY TagTypes DEF NoTags, TAG
<1>2. Data \in [Slots -> Blocks \union {None}] /\ Count \in 0 .. Cap
  BY Bounds DEF NoData
<1>3. rows \subseteq Ids /\ snapshot \in [Ids -> 0 .. MaxTime] /\ clock \in 0 .. MaxTime
  BY Bounds, HistoAssumption
<1>4. histo \in [Ids -> [Times -> 0 .. 2]]
  OBVIOUS
<1>5. result \in Seq([id : Ids, time : 0 .. MaxTime])
  OBVIOUS
<1>6. faults \in 0 .. MaxFaults /\ rounds \in 0 .. SQLTOLIST
  BY Bounds
<1> QED
  BY <1>1, <1>2, <1>3, <1>4, <1>5, <1>6 DEF TypeOK

LEMMA InsertTypes ==
    ASSUME TypeOK, NEW t \in Ids, NEW x \in Times, InsertHisto(t, x)
    PROVE  /\ histo' \in [Ids -> [Times -> 0 .. 2]] /\ faults' \in 0 .. MaxFaults
<1>1. histo \in [Ids -> [Times -> 0 .. 2]] /\ faults \in 0 .. MaxFaults
  BY DEF TypeOK
<1>2. [histo EXCEPT ![t][x] = IF @ < 2 THEN @ + 1 ELSE @] \in [Ids -> [Times -> 0 .. 2]]
  <2>1. histo[t] \in [Times -> 0 .. 2] /\ histo[t][x] \in 0 .. 2
    BY <1>1
  <2>2. (IF histo[t][x] < 2 THEN histo[t][x] + 1 ELSE histo[t][x]) \in 0 .. 2
    BY <2>1
  <2>3. [histo[t] EXCEPT ![x] = IF histo[t][x] < 2 THEN histo[t][x] + 1 ELSE histo[t][x]]
           \in [Times -> 0 .. 2]
    BY <2>1, <2>2
  <2> QED
    BY <1>1, <2>3
<1> DEFINE more == [histo EXCEPT ![t][x] = IF @ < 2 THEN @ + 1 ELSE @]
<1>3. histo' \in {more, histo} /\ faults' \in {faults, faults - 1} /\ (faults' = faults - 1 => faults > 0)
  <2>1. histo' \in {more, histo}
    BY DEF InsertHisto
  <2>2. faults' = faults \/ (faults > 0 /\ faults' = faults - 1)
    BY DEF InsertHisto, Fine, Fault
  <2> HIDE DEF more
  <2> QED
    BY <1>1, <2>1, <2>2
<1> HIDE DEF more
<1>4. faults' \in 0 .. MaxFaults
  BY <1>1, <1>3, Bounds
<1> QED
  BY <1>1, <1>2, <1>3, <1>4 DEF more

LEMMA RowKeepsTypes == ASSUME TypeOK, Row PROVE TypeOK'
<1> DEFINE t == Head(result).id
           time == Head(result).time
<1>1. pc = "rows" /\ NextRow /\ UNCHANGED <<rounds, terminated, table, selected, trouble>>
  BY DEF Row
<1>2. t \in Ids /\ time \in 0 .. MaxTime
  BY <1>1, RowTypes
<1>3. PICK b \in Blocks, old \in TAG : Handled(b, old)
  BY RowHandles
<1>4. old.inserted \in 0 .. MaxTime
  BY <1>3 DEF TAG
<1>5. Data' \in [Slots -> Blocks \union {None}] /\ Count' \in 0 .. Cap /\ freed' \subseteq Blocks
      /\ excused' \subseteq Ids
  <2>1. Data \in Arrays /\ Count \in 0 .. Cap /\ freed \subseteq Blocks /\ excused \subseteq Ids
    BY ListTypes DEF TypeOK
  <2>2. CASE FindTag(t) # None
    BY <1>3, <2>1, <2>2 DEF Handled, Arrays
  <2>3. CASE FindTag(t) = None
    <3>1. AddListe(b) /\ freed' = freed \ {b}
          /\ excused' = IF Count = Cap THEN excused \union {t} ELSE excused
      BY <1>3, <2>3 DEF Handled
    <3>2. excused' \subseteq Ids
      BY <1>2, <2>1, <3>1
    <3> QED
      BY <2>1, <3>1, <3>2, Bounds DEF AddListe, Arrays
  <2> QED
    BY <2>2, <2>3
<1>6. tags' \in [Blocks -> TAG]
  <2> DEFINE new == Exists(t, IF Due(old, time) THEN time ELSE old.inserted)
  <2>1. new \in TAG
    BY <1>2, <1>4, TagTypes
  <2> HIDE DEF new
  <2>2. [tags EXCEPT ![b] = new] \in [Blocks -> TAG]
    BY <2>1, ListTypes
  <2>3. tags' = Contents([tags EXCEPT ![b] = new], Data')
    BY <1>3 DEF Handled, new
  <2> QED
    BY <2>2, <2>3, ContentsType
<1>7. histo' \in [Ids -> [Times -> 0 .. 2]] /\ faults' \in 0 .. MaxFaults
  <2>1. CASE Due(old, time)
    <3>1. time \in Times
      BY <1>2, <1>4, <2>1, Bounds DEF Due
    <3> QED
      BY <1>2, <1>3, <2>1, <3>1, InsertTypes DEF Handled
  <2>2. CASE ~ Due(old, time)
    BY <1>3, <2>2 DEF Handled, TypeOK, Fine
  <2> QED
    BY <2>1, <2>2
<1>8. result' \in Seq(ResultRow) /\ pc' \in {"rows", "round"} /\ (pc' = "rows" <=> result' # <<>>)
  BY <1>1, RowTypes DEF NextRow
<1> QED
  BY <1>1, <1>5, <1>6, <1>7, <1>8 DEF TypeOK, table, TAG, ResultRow

LEMMA TypesStep == TypeOK /\ [HistoNext]_vars => TypeOK'
<1> SUFFICES ASSUME TypeOK, [HistoNext]_vars PROVE TypeOK'
  OBVIOUS
<1> USE DEF list, table
<1>1. CASE End
  BY <1>1 DEF End, TypeOK
<1>2. CASE CheckList
  <2>1. Data' \in [Slots -> Blocks \union {None}] /\ Data' = CloseUp(Removed) /\ Data' \in Arrays
    BY <1>2, RemovedType DEF CheckList, Arrays
  <2>2. Count' \in 0 .. Cap
    BY <1>2, InUseType DEF CheckList
  <2>3. tags' \in [Blocks -> [id : Ids \union {None}, exist : BOOLEAN, inserted : 0 .. MaxTime]]
    BY <1>2, RemovedType, ContentsType DEF CheckList, TAG
  <2>4. freed' \subseteq Blocks
    <3>1. Held(Data') \subseteq Blocks
      BY <2>1 DEF Held
    <3> DEFINE S == freed \union {Data[s] : s \in {r \in Slots : Gone(r)}}
    <3>2. freed' = S \intersect Held(Data')
      BY <1>2 DEF CheckList
    <3> HIDE DEF S
    <3> QED
      BY <3>1, <3>2
  <2>5. rounds' \in 0 .. SQLTOLIST /\ selected' \in BOOLEAN /\ excused' \subseteq Ids
    <3>1. rounds' = 0 /\ selected' = FALSE /\ excused' = IF selected THEN excused ELSE Ids
      BY <1>2 DEF CheckList
    <3>2. 0 \in 0 .. SQLTOLIST
      BY Bounds
    <3> QED
      BY <3>1, <3>2 DEF TypeOK
  <2>6. trouble' \in BOOLEAN
    BY <1>2 DEF CheckList
  <2>7. UNCHANGED <<pc, result, terminated, table, histo, failed, faults>>
    BY <1>2 DEF CheckList
  <2> QED
    BY <2>1, <2>2, <2>3, <2>4, <2>5, <2>6, <2>7 DEF TypeOK
<1>3. CASE CheckBySql
  <2>1. /\ pc = "round" /\ rounds' = rounds + 1 /\ rounds < SQLTOLIST
        /\ UNCHANGED <<list, terminated, table, histo, failed, excused, trouble>>
    BY <1>3 DEF CheckBySql
  <2>2. rounds' \in 0 .. SQLTOLIST
    BY <2>1, Bounds DEF TypeOK
  <2>3. CASE Fine /\ selected' = TRUE
             /\ LET ids == SetToSeq(rows) IN
                  result' = [n \in DOMAIN ids |-> [id |-> ids[n], time |-> snapshot[ids[n]]]]
             /\ pc' = IF result' = <<>> THEN "round" ELSE "rows"
    <3>1. result' \in Seq([id : Ids, time : 0 .. MaxTime])
      BY <2>3, SelectedRows DEF ResultRow
    <3>2. pc' \in {"round", "rows"} /\ (pc' = "rows" <=> result' # <<>>) /\ selected' = TRUE
          /\ faults' = faults
      BY <2>3 DEF Fine
    <3> QED
      BY <2>1, <2>2, <3>1, <3>2 DEF TypeOK
  <2>4. CASE Fault /\ UNCHANGED <<pc, result, selected>>
    BY <2>1, <2>2, <2>4, Bounds DEF TypeOK, Fault
  <2> QED
    BY <1>3, <2>3, <2>4 DEF CheckBySql
<1>4. CASE Row
  BY <1>4, RowKeepsTypes
<1>5. CASE Crash
  BY <1>5 DEF Crash, TypeOK
<1>6. CASE Signal
  BY <1>6, Bounds DEF Signal, Fault, TypeOK
<1>7. CASE Restart
  <2>1. tags' \in [Blocks -> [id : Ids \union {None}, exist : BOOLEAN, inserted : 0 .. MaxTime]]
    BY <1>7, TagTypes DEF Restart, NoTags, TAG
  <2>2. Data' \in [Slots -> Blocks \union {None}] /\ Count' \in 0 .. Cap /\ faults' \in 0 .. MaxFaults
        /\ rounds' \in 0 .. SQLTOLIST
    BY <1>7, Bounds DEF Restart, NoData, Fault, TypeOK
  <2>3. result' = <<>> /\ result' \in Seq([id : Ids, time : 0 .. MaxTime]) /\ pc' = "round" /\ freed' = {}
        /\ excused' = Ids /\ selected' = FALSE /\ trouble' = FALSE /\ UNCHANGED <<table, histo, failed>>
    BY <1>7 DEF Restart
  <2> QED
    BY <2>1, <2>2, <2>3 DEF TypeOK
<1>8. CASE Sample
  <2>1. PICK t \in rows : snapshot' = [snapshot EXCEPT ![t] = clock']
    BY <1>8 DEF Sample
  <2>2. clock' \in 0 .. MaxTime
    BY <1>8, Bounds DEF Sample, TypeOK
  <2>3. snapshot' \in [Ids -> 0 .. MaxTime]
    BY <2>1, <2>2 DEF TypeOK
  <2> QED
    BY <1>8, <2>2, <2>3 DEF Sample, TypeOK
<1>9. CASE RowGoes
  BY <1>9, Bounds DEF RowGoes, Fault, TypeOK
<1>10. CASE UNCHANGED vars
  BY <1>10 DEF vars, TypeOK
<1> QED
  BY <1>1, <1>2, <1>3, <1>4, <1>5, <1>6, <1>7, <1>8, <1>9, <1>10 DEF HistoNext, Daemon, World

-----------------------------------------------------------------------------
(***************************************************************************)
(* The list.  What a step does to it is said of the sequence of TAGs that  *)
(* the first Count slots lead to.                                          *)
(***************************************************************************)
Listing == [s \in 1 .. Count |-> tags[Data[s]]]

Intact ==
    /\ pc # "crashed"
    /\ \A s \in Slots : (Data[s] = None) <=> (s > Count)
    /\ Listed \cap freed = {}
    /\ \A r, s \in 1 .. Count : tags[Data[r]].id = tags[Data[s]].id => r = s

Sound == TypeOK /\ (~ trouble => Intact)

(* Pointers in use and slots up to Count are the same. *)
LEMMA Slotted ==
    ASSUME TypeOK, Intact
    PROVE  /\ Count \in 0 .. Cap
           /\ \A s \in 1 .. Cap : Data[s] = None <=> s > Count
           /\ \A s \in 1 .. Count : /\ s \in 1 .. Cap /\ Data[s] \in Blocks /\ Data[s] \notin freed
                                    /\ Data[s] \in Held(Data) /\ Listing[s] = tags[Data[s]]
           /\ \A r, s \in 1 .. Count : Listing[r].id = Listing[s].id => r = s
           /\ \A r, s \in 1 .. Count : Data[r] = Data[s] => r = s
           /\ DOMAIN Listing = 1 .. Count
           /\ \A b \in Held(Data) : \E s \in 1 .. Count : Data[s] = b
<1>1. Count \in 0 .. Cap /\ Cap \in Nat /\ Slots = 1 .. Cap /\ Data \in Arrays
  BY ListTypes, Bounds
<1>2. \A s \in 1 .. Cap : Data[s] = None <=> s > Count
  BY <1>1 DEF Intact
<1>3. ASSUME NEW s \in 1 .. Count
      PROVE  /\ s \in 1 .. Cap /\ Data[s] \in Blocks /\ Data[s] \notin freed
             /\ Data[s] \in Held(Data) /\ Listing[s] = tags[Data[s]]
  <2>1. s \in 1 .. Cap /\ Data[s] \in Blocks /\ Data[s] # None
    BY <1>1, <1>2, ListTypes
  <2>2. Data[s] \in Listed
    BY DEF Listed
  <2> QED
    BY <1>1, <2>1, <2>2 DEF Intact, Held, Listing
<1>4. \A r, s \in 1 .. Count : Listing[r].id = Listing[s].id => r = s
  BY DEF Intact, Listing
<1>5. \A r, s \in 1 .. Count : Data[r] = Data[s] => r = s
  BY DEF Intact
<1>6. \A b \in Held(Data) : \E s \in 1 .. Count : Data[s] = b
  BY <1>1, <1>2 DEF Held
<1>7. DOMAIN Listing = 1 .. Count
  BY DEF Listing
<1> QED
  BY <1>1, <1>2, <1>3, <1>4, <1>5, <1>6, <1>7

(* FindTag does not crash, and Row changes the TAG of its tag, or adds it,  *)
(* or leaves a full list as it is.                                          *)
LEMMA IntactFinds ==
    ASSUME TypeOK, Intact, NEW t
    PROVE  ~ FindTagCrashes(t)
<1>1. ASSUME StopsAt(t) # {} PROVE FindTag(t) # None
  <2>1. StopsAt(t) \in SUBSET Nat
    BY ListTypes DEF StopsAt
  <2>2. \E s \in StopsAt(t) : \A r \in StopsAt(t) : s <= r
    BY <1>1, <2>1, LeastExists
  <2>3. PICK s \in StopsAt(t) : FindTag(t) = Data[s]
    BY <1>1, <2>2 DEF FindTag
  <2>4. s \in 1 .. Count
    BY <2>3 DEF StopsAt
  <2> QED
    BY <2>3, <2>4, Slotted, Bounds
<1> QED
  BY <1>1 DEF FindTagCrashes

(* A row finds its tag or adds it behind the others: no other TAG changes. *)
LEMMA RowListing ==
    ASSUME TypeOK, Intact, Row
    PROVE  LET t == Head(result).id
               time == Head(result).time IN
           \E old \in TAG :
               LET now == Exists(t, IF Due(old, time) THEN time ELSE old.inserted) IN
               /\ \/ \E s \in 1 .. Count :
                        /\ Listing[s] = old /\ old.id = t
                        /\ Listing' = [Listing EXCEPT ![s] = now]
                        /\ UNCHANGED <<Count, excused>>
                  \/ /\ \A s \in 1 .. Count : Listing[s].id # t
                     /\ old = Exists(t, 0)
                     /\ \/ /\ Count < Cap /\ Count' = Count + 1 /\ UNCHANGED excused
                           /\ Listing' = [s \in 1 .. Count + 1 |-> IF s = Count + 1 THEN now ELSE Listing[s]]
                        \/ Count = Cap /\ excused' = excused \union {t} /\ UNCHANGED <<Listing, Count>>
               /\ IF Due(old, time) THEN InsertHisto(t, time) ELSE Fine /\ UNCHANGED <<histo, failed>>
               /\ Intact'
<1> DEFINE t == Head(result).id
           time == Head(result).time
<1>1. ~ FindTagCrashes(t) /\ \E b \in Blocks, old \in TAG : Handled(b, old)
  BY RowHandles
<1>2. PICK b \in Blocks, old \in TAG : Handled(b, old)
  BY <1>1
<1> DEFINE now == Exists(t, IF Due(old, time) THEN time ELSE old.inserted)
           f == [tags EXCEPT ![b] = now]
<1>3. pc = "rows" /\ NextRow /\ t \in Ids /\ time \in 0 .. MaxTime
  BY RowTypes DEF Row
<1>4. IF Due(old, time) THEN InsertHisto(t, time) ELSE Fine /\ UNCHANGED <<histo, failed>>
  BY <1>2 DEF Handled
<1>5. now \in TAG /\ now.id = t
  BY <1>2, <1>3, TagTypes DEF TAG
<1>6. pc' # "crashed"
  BY <1>3 DEF NextRow
<1>7. tags' = Contents(f, Data') /\ f \in [Blocks -> TAG]
      /\ \A c \in Blocks : f[c] = IF c = b THEN now ELSE tags[c]
  BY <1>2, <1>5, ListTypes DEF Handled
<1> HIDE DEF now, f
<1>8. \A c \in Blocks : c \in Held(Data') => tags'[c] = f[c]
  BY <1>7, ContentsType
<1>9. CASE FindTag(t) # None
  <2>1. b = FindTag(t) /\ old = tags[b] /\ UNCHANGED <<Data, Count, freed, excused>>
    BY <1>2, <1>9 DEF Handled
  <2>2. PICK s \in 1 .. Count : Data[s] = b /\ tags[b].id = t
    BY <1>1, <1>9, <2>1, Found
  <2>3. \A r \in 1 .. Count : tags'[Data[r]] = IF r = s THEN now ELSE Listing[r]
    <3>1. \A r \in 1 .. Count : Data[r] \in Blocks /\ Data[r] \in Held(Data')
      BY <2>1, Slotted
    <3>2. \A r \in 1 .. Count : Data[r] = b <=> r = s
      BY <2>2, Slotted
    <3> QED
      BY <1>7, <1>8, <3>1, <3>2, Slotted
  <2>4. Listing' = [r \in 1 .. Count |-> IF r = s THEN now ELSE Listing[r]]
    BY <2>1, <2>3 DEF Listing
  <2>5. Listing' = [Listing EXCEPT ![s] = now]
    BY <2>2, <2>4, Slotted
  <2>6. \A r \in 1 .. Count : tags'[Data[r]].id = Listing[r].id
    BY <1>5, <2>2, <2>3, Slotted
  <2>7. Intact'
    <3>1. Data' = Data /\ Count' = Count /\ freed' = freed
      BY <2>1
    <3>2. \A q, r \in 1 .. Count : tags'[Data[q]].id = tags'[Data[r]].id => q = r
      BY <2>6, Slotted
    <3> QED
      BY <1>6, <3>1, <3>2 DEF Intact, Listed
  <2>8. Listing[s] = old /\ old.id = t
    BY <2>1, <2>2, Slotted
  <2> QED
    BY <1>2, <1>4, <2>1, <2>2, <2>5, <2>7, <2>8 DEF now
<1>10. CASE FindTag(t) = None
  <2>1. /\ b \in Malloc /\ old = Exists(t, 0) /\ AddListe(b) /\ freed' = freed \ {b}
        /\ excused' = IF Count = Cap THEN excused \union {t} ELSE excused
    BY <1>2, <1>10 DEF Handled
  <2>2. \A s \in 1 .. Count : Listing[s].id # t
    BY <1>1, <1>10, Found, Slotted
  <2>3. \A s \in 1 .. Count : Data[s] # b
    <3>1. b \in freed \/ b \notin Held(Data)
      BY <2>1, MallocGives, ListTypes
    <3> QED
      BY <3>1, Slotted
  <2>4. b # None /\ Count \in 0 .. Cap /\ Cap \in Nat /\ Slots = 1 .. Cap /\ Data \in Arrays
    BY ListTypes, Bounds
  <2>5. CASE Count = Cap
    <3>1. Data' = Data /\ Count' = Count /\ excused' = excused \union {t}
      BY <2>1, <2>4, <2>5 DEF AddListe
    <3>2. \A s \in 1 .. Count : tags'[Data[s]] = Listing[s]
      BY <1>7, <1>8, <2>3, <3>1, Slotted
    <3>3. Listing' = Listing
      BY <3>1, <3>2, Slotted DEF Listing
    <3>4. Intact'
      <4>1. \A q, r \in 1 .. Count : tags'[Data[q]].id = tags'[Data[r]].id => q = r
        BY <3>2, Slotted
      <4>2. Listed' \intersect freed' = {}
        BY <2>1, <3>1 DEF Intact, Listed
      <4> QED
        BY <1>6, <3>1, <4>1, <4>2 DEF Intact
    <3> QED
      BY <1>2, <1>4, <2>1, <2>2, <2>5, <3>1, <3>3, <3>4 DEF now
  <2>6. CASE Count # Cap
    <3>1. Data' = [Data EXCEPT ![Count + 1] = b] /\ Count' = Count + 1 /\ excused' = excused
          /\ Count < Cap /\ Count + 1 \in 1 .. Cap
      BY <2>1, <2>4, <2>6 DEF AddListe
    <3>2. /\ \A s \in 1 .. Cap : Data'[s] = IF s = Count + 1 THEN b ELSE Data[s]
          /\ Data' \in Arrays
      BY <2>4, <3>1 DEF Arrays
    <3>3. \A s \in 1 .. Count + 1 : s \in 1 .. Cap /\ (s # Count + 1 => s \in 1 .. Count)
      BY <2>4, <3>1
    <3>4. \A s \in 1 .. Count + 1 : /\ Data'[s] \in Blocks /\ Data'[s] \in Held(Data')
                                    /\ (Data'[s] = b <=> s = Count + 1)
      <4>1. \A s \in 1 .. Count + 1 : Data'[s] \in Blocks /\ (Data'[s] = b <=> s = Count + 1)
        BY <2>3, <3>2, <3>3, Slotted
      <4> QED
        BY <2>4, <3>3, <4>1, Bounds DEF Held
    <3>5. \A s \in 1 .. Count + 1 : tags'[Data'[s]] = IF s = Count + 1 THEN now ELSE Listing[s]
      <4>1. \A s \in 1 .. Count + 1 : tags'[Data'[s]] = IF s = Count + 1 THEN now ELSE tags[Data'[s]]
        BY <1>7, <1>8, <3>4
      <4> QED
        BY <3>2, <3>3, <4>1, Slotted
    <3>6. Listing' = [s \in 1 .. Count + 1 |-> IF s = Count + 1 THEN now ELSE Listing[s]]
      <4>1. Listing' = [s \in 1 .. Count' |-> tags'[Data'[s]]]
        BY DEF Listing
      <4>2. Listing' = [s \in 1 .. Count + 1 |-> tags'[Data'[s]]]
        BY <3>1, <4>1
      <4> QED
        BY <3>5, <4>2
    <3>7. Intact'
      <4>1. \A s \in Slots : (Data'[s] = None) <=> (s > Count')
        BY <2>4, <3>1, <3>2, Slotted
      <4>2. ASSUME NEW s \in 1 .. Count + 1 PROVE Data'[s] \notin freed'
        BY <2>1, <3>2, <3>3, <4>2, Slotted
      <4>3. Listed' \intersect freed' = {}
        BY <3>1, <4>2 DEF Listed
      <4>4. ASSUME NEW q \in 1 .. Count + 1, NEW r \in 1 .. Count + 1, tags'[Data'[q]].id = tags'[Data'[r]].id
            PROVE  q = r
        BY <1>5, <2>2, <3>3, <3>5, <4>4, Slotted
      <4> QED
        BY <1>6, <3>1, <4>1, <4>3, <4>4 DEF Intact
    <3>8. /\ old = Exists(t, 0)
          /\ Count < Cap /\ Count' = Count + 1 /\ excused' = excused
      BY <2>1, <3>1
    <3> QED
      BY <1>2, <1>4, <2>2, <3>6, <3>7, <3>8 DEF now
  <2> QED
    BY <2>5, <2>6
<1> QED
  BY <1>9, <1>10

(* CheckList, when it meets what CompactListe can close up: what exists     *)
(* stays, and nothing else comes.                                           *)
LEMMA GoneIs ==
    ASSUME TypeOK, Intact, NEW s \in 1 .. Cap
    PROVE  Gone(s) <=> s <= Count /\ ~ tags[Data[s]].exist
<1>1. ASSUME s <= Count
      PROVE  Data[s] # None /\ \A r \in 1 .. s - 1 : Data[r] # Data[s]
  <2>1. Count \in 0 .. Cap /\ Cap \in Nat
    BY ListTypes, Bounds
  <2>2. s \in 1 .. Count /\ \A r \in 1 .. s - 1 : r \in 1 .. Count /\ r # s
    BY <1>1, <2>1
  <2> QED
    BY <2>2, Slotted, Bounds
<1> QED
  BY <1>1 DEF Gone

(* What CheckList leaves can be closed up, unless it is Unclosable. *)
LEMMA CanCloseUp ==
    ASSUME TypeOK, Intact, ~ Unclosable
    PROVE  Closable(Removed, 0)
<1>1. Count \in 0 .. Cap /\ Cap \in Nat /\ Cap >= 1 /\ Slots = 1 .. Cap
  BY ListTypes, Bounds
<1>2. \A s \in 1 .. Cap : Removed[s] = IF Gone(s) THEN None ELSE Data[s]
  BY <1>1 DEF Removed
<1>3. \A s \in 1 .. Cap : Data[s] = None <=> s > Count
  BY Slotted
<1>4. \A q, r \in 1 .. Cap : Removed[q] = Removed[r] /\ Removed[q] # None => q = r
  <2> SUFFICES ASSUME NEW q \in 1 .. Cap, NEW r \in 1 .. Cap, Removed[q] = Removed[r], Removed[q] # None
               PROVE  q = r
    OBVIOUS
  <2>1. Data[q] = Data[r] /\ Data[q] # None /\ Data[r] # None
    BY <1>2
  <2>2. q \in 1 .. Count /\ r \in 1 .. Count
    BY <1>1, <1>3, <2>1
  <2> QED
    BY <2>1, <2>2, Slotted
<1>5. CASE Count = Cap
  <2>1. \A s \in 1 .. Cap : ~ Gone(s)
    BY <1>1, <1>5 DEF Unclosable
  <2>2. \A s \in 1 .. Cap : Removed[s] # None
    BY <1>1, <1>2, <1>3, <1>5, <2>1
  <2> QED
    BY <1>4, <2>2 DEF Closable
<1>6. CASE Count # Cap
  <2>1. Removed[Cap] = None
    BY <1>1, <1>2, <1>3, <1>6
  <2>2. ASSUME NEW r \in 1 .. Cap - 1, Removed[r] = None, Removed[r + 1] = None
        PROVE  \A q \in r .. Cap : Removed[q] = None
    <3>1. TAKE q \in r .. Cap
    <3>2. q \in 1 .. Cap /\ r \in 1 .. Cap /\ r + 1 \in 1 .. Cap
      BY <1>1
    <3>3. CASE q > Count
      BY <1>2, <1>3, <3>2, <3>3
    <3>4. CASE q <= Count
      <4>1. r <= Count /\ Gone(r)
        BY <1>1, <1>2, <1>3, <2>2, <3>2, <3>4
      <4>2. CASE q = r
        BY <1>2, <3>2, <4>1, <4>2
      <4>3. CASE q # r
        <5>1. r + 1 <= Count /\ Gone(r + 1)
          BY <1>1, <1>2, <1>3, <2>2, <3>2, <3>4, <4>3
        <5>2. r + 1 \in 2 .. Count /\ (r + 1) - 1 = r
          BY <1>1, <5>1
        <5>3. \A p \in (r + 1) + 1 .. Count : Gone(p)
          BY <4>1, <5>1, <5>2 DEF Unclosable
        <5>4. q = r + 1 \/ q \in (r + 1) + 1 .. Count
          BY <1>1, <3>4, <4>3
        <5> QED
          BY <1>2, <3>2, <5>1, <5>3, <5>4
      <4> QED
        BY <4>2, <4>3
    <3> QED
      BY <1>1, <3>2, <3>3, <3>4
  <2>3. \A r \in 1 .. 0 : FALSE
    OBVIOUS
  <2> QED
    BY <1>4, <2>1, <2>2, <2>3 DEF Closable
<1> QED
  BY <1>5, <1>6

(* CheckList leaves the tags that were found, and nothing freed. *)
LEMMA CheckListing ==
    ASSUME TypeOK, Intact, CheckList, ~ trouble'
    PROVE  /\ Intact'
           /\ \A s \in 1 .. Count : Listing[s].exist =>
                 \E q \in 1 .. Count' : /\ Listing'[q].id = Listing[s].id
                                        /\ Listing'[q].inserted = Listing[s].inserted
           /\ \A q \in 1 .. Count' : \E s \in 1 .. Count : /\ Listing'[q].id = Listing[s].id
                                                           /\ Listing'[q].inserted = Listing[s].inserted
<1>1. /\ Data' = CloseUp(Removed) /\ Count' = InUse(Data') /\ pc' = pc /\ pc = "round"
      /\ tags' = Contents(Reset, Data')
  BY DEF CheckList
<1>2. freed' = (freed \union {Data[s] : s \in {r \in Slots : Gone(r)}}) \intersect Held(Data')
  BY DEF CheckList
<1>3. ~ Unclosable
  BY DEF CheckList
<1>4. Count \in 0 .. Cap /\ Cap \in Nat /\ Slots = 1 .. Cap /\ None \notin Blocks
  BY ListTypes, Bounds
<1>5. Removed \in Arrays /\ Closable(Removed, 0)
  BY <1>3, RemovedType, CanCloseUp
<1>6. /\ Data' \in Arrays /\ Closable(Data', Cap)
      /\ \A b \in Blocks : (\E r \in 1 .. Cap : Data'[r] = b) <=> (\E r \in 1 .. Cap : Removed[r] = b)
  BY <1>1, <1>5, ClosedUp
<1>7. Count' \in 0 .. Cap /\ \A s \in 1 .. Cap : Data'[s] = None <=> s > Count'
  BY <1>1, <1>6, InUseCounts
<1>8. \A s \in 1 .. Cap : Removed[s] = IF Gone(s) THEN None ELSE Data[s]
  BY <1>4 DEF Removed
<1>9. ASSUME NEW q \in 1 .. Count'
      PROVE  /\ q \in 1 .. Cap /\ Data'[q] \in Blocks /\ Data'[q] \in Held(Data')
             /\ \E s \in 1 .. Count : ~ Gone(s) /\ Data[s] = Data'[q]
  <2>1. q \in 1 .. Cap /\ Data'[q] \in Blocks
    BY <1>4, <1>6, <1>7 DEF Arrays
  <2>2. PICK s \in 1 .. Cap : Removed[s] = Data'[q]
    BY <1>6, <2>1
  <2>3. ~ Gone(s) /\ Data[s] = Data'[q]
    BY <1>4, <1>8, <2>1, <2>2
  <2>4. s \in 1 .. Count
    BY <1>4, <2>1, <2>3, Slotted
  <2> QED
    BY <1>4, <2>1, <2>3, <2>4 DEF Held
<1>10. ASSUME NEW s \in 1 .. Count, ~ Gone(s)
       PROVE  \E q \in 1 .. Count' : Data'[q] = Data[s]
  <2>1. s \in 1 .. Cap /\ Data[s] \in Blocks
    BY Slotted
  <2>2. PICK q \in 1 .. Cap : Data'[q] = Data[s]
    BY <1>6, <1>8, <1>10, <2>1
  <2>3. q \in 1 .. Count'
    BY <1>4, <1>7, <2>1, <2>2
  <2> QED
    BY <2>2, <2>3
<1>11. ASSUME NEW q \in 1 .. Count'
       PROVE  /\ tags'[Data'[q]].id = tags[Data'[q]].id
              /\ tags'[Data'[q]].inserted = tags[Data'[q]].inserted
  BY <1>1, <1>9, RemovedType, ContentsType
<1>12. \A q \in 1 .. Count' : Listing'[q] = tags'[Data'[q]]
  <2>1. Listing' = [s \in 1 .. Count' |-> tags'[Data'[s]]]
    BY DEF Listing
  <2> QED
    BY <2>1
<1>13. Intact'
  <2>1. \A s \in Slots : (Data'[s] = None) <=> (s > Count')
    BY <1>4, <1>7
  <2>2. ASSUME NEW q \in 1 .. Count' PROVE Data'[q] \notin freed'
    <3>1. PICK s \in 1 .. Count : ~ Gone(s) /\ Data[s] = Data'[q]
      BY <1>9
    <3>2. SUFFICES ASSUME NEW r \in Slots, Gone(r), Data[r] = Data[s] PROVE FALSE
      BY <1>2, <3>1, Slotted
    <3>3. r \in 1 .. Count
      BY <1>4, <3>2, GoneIs
    <3> QED
      BY <3>1, <3>2, <3>3, Slotted
  <2>3. Listed' \intersect freed' = {}
    BY <2>2 DEF Listed
  <2>4. ASSUME NEW q \in 1 .. Count', NEW r \in 1 .. Count', tags'[Data'[q]].id = tags'[Data'[r]].id
        PROVE  q = r
    <3>1. PICK s \in 1 .. Count : Data[s] = Data'[q]
      BY <1>9
    <3>2. PICK p \in 1 .. Count : Data[p] = Data'[r]
      BY <1>9
    <3>3. Listing[s].id = Listing[p].id
      BY <1>11, <2>4, <3>1, <3>2, Slotted
    <3>4. Data'[q] = Data'[r]
      BY <3>1, <3>2, <3>3, Slotted
    <3> QED
      BY <1>4, <1>6, <1>9, <3>4 DEF Closable
  <2>5. pc' # "crashed"
    BY <1>1
  <2> QED
    BY <2>1, <2>3, <2>4, <2>5 DEF Intact
<1>14. ASSUME NEW s \in 1 .. Count, Listing[s].exist
       PROVE  \E q \in 1 .. Count' : /\ Listing'[q].id = Listing[s].id
                                     /\ Listing'[q].inserted = Listing[s].inserted
  <2>1. ~ Gone(s)
    BY <1>14, GoneIs, Slotted
  <2>2. PICK q \in 1 .. Count' : Data'[q] = Data[s]
    BY <1>10, <2>1
  <2>3. Listing'[q].id = Listing[s].id /\ Listing'[q].inserted = Listing[s].inserted
    BY <1>11, <1>12, <2>2, Slotted
  <2> QED
    BY <2>3
<1>15. ASSUME NEW q \in 1 .. Count'
       PROVE  \E s \in 1 .. Count : /\ Listing'[q].id = Listing[s].id
                                    /\ Listing'[q].inserted = Listing[s].inserted
  <2>1. PICK s \in 1 .. Count : Data[s] = Data'[q]
    BY <1>9
  <2>2. Listing'[q].id = Listing[s].id /\ Listing'[q].inserted = Listing[s].inserted
    BY <1>11, <1>12, <2>1, Slotted
  <2> QED
    BY <2>2
<1> QED
  BY <1>13, <1>14, <1>15

(* Every other step of a running program leaves the list alone. *)
LEMMA IntactStep ==
    ASSUME Sound, [HistoNext]_vars, ~ trouble'
    PROVE  Intact'
<1> USE DEF list
<1>1. CASE Restart
  <2>1. /\ pc' = "round" /\ Data' = NoData /\ Count' = 0 /\ freed' = {}
    BY <1>1 DEF Restart
  <2>2. \A s \in Slots : Data'[s] = None /\ s > Count'
    BY <2>1, Bounds DEF NoData
  <2>3. Listed' \intersect freed' = {} /\ \A r, s \in 1 .. Count' : r = s
    BY <2>1
  <2> QED
    BY <2>1, <2>2, <2>3 DEF Intact
<1>2. CASE ~ Restart
  <2>1. TypeOK /\ ~ trouble /\ Intact
    <3>1. trouble' = trouble \/ CheckList
      BY <1>2 DEF HistoNext, Daemon, World, End, CheckBySql, Row, Crash, Signal, Sample, RowGoes, vars
    <3>2. ~ trouble
      BY <3>1 DEF CheckList
    <3> QED
      BY <3>2 DEF Sound
  <2>2. CASE CheckList
    BY <2>1, <2>2, CheckListing
  <2>3. CASE Row
    BY <2>1, <2>3, RowListing
  <2>4. CASE Crash
    <3>1. ~ FindTagCrashes(Head(result).id) /\ Listed \intersect freed = {}
      BY <2>1, IntactFinds DEF Intact
    <3> QED
      BY <2>4, <3>1 DEF Crash
  <2>5. CASE ~ (CheckList \/ Row \/ Crash)
    <3>1. Data' = Data /\ Count' = Count /\ tags' = tags /\ freed' = freed
          /\ (pc' = pc \/ pc' \in {"ended", "round", "rows"})
      BY <1>2, <2>5 DEF HistoNext, Daemon, World, End, CheckBySql, Signal, Sample, RowGoes, vars
    <3>2. Listed' = Listed
      BY <3>1 DEF Listed
    <3> QED
      BY <2>1, <3>1, <3>2 DEF Intact
  <2> QED
    BY <2>2, <2>3, <2>4, <2>5
<1> QED
  BY <1>1, <1>2

(* The types, and the list until CheckList meets what it cannot close up.   *)
THEOREM SoundIsKept == Spec => []Sound
<1>1. Init => Sound
  <2> SUFFICES ASSUME Init PROVE Sound
    OBVIOUS
  <2>1. Intact
    <3>1. \A s \in Slots : Data[s] = None /\ s > Count
      BY Bounds DEF Init, NoData
    <3>2. Listed \intersect freed = {} /\ \A r, s \in 1 .. Count : r = s
      BY DEF Init
    <3> QED
      BY <3>1, <3>2 DEF Init, Intact
  <2> QED
    BY <2>1, InitTypes DEF Sound
<1>2. Sound /\ [HistoNext]_vars => Sound'
  BY TypesStep, IntactStep DEF Sound
<1> QED
  BY <1>1, <1>2, PTL DEF Spec

(* FindTag finds each tag and touches no freed memory, until CheckList      *)
(* meets a list that CompactListe cannot close up.                          *)
THEOREM ListIsKept == Spec => []ListIsSound
<1>1. Sound => ListIsSound
  BY DEF Sound, Intact, ListIsSound
<1> QED
  BY <1>1, SoundIsKept, PTL

-----------------------------------------------------------------------------
(***************************************************************************)
(* The samples.  A tag that nobody has excused has a row, and after a      *)
(* select its TAG is known to exist, or its row is still to be handled;    *)
(* and no sample of it is younger than its TAG says.                       *)
(***************************************************************************)
Waiting(t) == \E n \in 1 .. Len(result) : result[n].id = t

Known(t) ==
    /\ Waiting(t) => t \in rows
    /\ \A s \in 1 .. Count : Listing[s].id = t =>
          t \in rows /\ (selected => Listing[s].exist \/ Waiting(t))

Dated(t) == \A x \in Times : histo[t][x] > 0 =>
               histo[t][x] = 1 /\ \E s \in 1 .. Count : Listing[s].id = t /\ x <= Listing[s].inserted

Apart(h) == \A x, y \in Times : h[x] > 0 /\ h[y] > 0 => x = y \/ x > y + Time_Sample \/ y > x + Time_Sample

Samples == ~ trouble => \A t \in Ids \ excused : Known(t) /\ Dated(t) /\ Apart(histo[t])

(* An insert is of a sample that is younger than all before. *)
LEMMA InsertIsApart ==
    ASSUME TypeOK, NEW t \in Ids, NEW time \in 0 .. MaxTime, NEW old \in TAG,
           IF Due(old, time) THEN InsertHisto(t, time) ELSE Fine /\ UNCHANGED <<histo, failed>>,
           \A x \in Times : histo[t][x] > 0 => histo[t][x] = 1 /\ x <= old.inserted,
           Apart(histo[t])
    PROVE  /\ \A x \in Times : histo'[t][x] > 0 =>
                 histo'[t][x] = 1 /\ x <= IF Due(old, time) THEN time ELSE old.inserted
           /\ Apart(histo'[t])
<1>1. histo \in [Ids -> [Times -> 0 .. 2]] /\ old.inserted \in 0 .. MaxTime
  BY DEF TypeOK, TAG
<1>2. Time_Sample \in Nat /\ MaxTime \in Nat /\ Times = 1 .. MaxTime
  BY Bounds
<1>3. CASE ~ Due(old, time)
  <2>1. histo' = histo
    BY <1>3
  <2> QED
    BY <1>3, <2>1
<1>4. CASE Due(old, time)
  <2>1. time > Time_Sample + old.inserted /\ time \in Times
    BY <1>1, <1>2, <1>4 DEF Due
  <2>2. \A x \in Times : histo[t][x] > 0 => x <= time /\ x # time /\ time > x + Time_Sample
    BY <1>1, <1>2, <2>1
  <2>3. histo' = [histo EXCEPT ![t][time] = IF @ < 2 THEN @ + 1 ELSE @] \/ histo' = histo
    BY <1>4 DEF InsertHisto
  <2>4. CASE histo' = histo
    BY <1>4, <2>2, <2>4
  <2>5. CASE histo' = [histo EXCEPT ![t][time] = IF @ < 2 THEN @ + 1 ELSE @]
    <3> DEFINE h == histo'[t]
    <3>1. histo[t] \in [Times -> 0 .. 2] /\ histo[t][time] = 0
      BY <1>1, <2>1, <2>2
    <3>2. h = [histo[t] EXCEPT ![time] = IF histo[t][time] < 2 THEN histo[t][time] + 1 ELSE histo[t][time]]
      BY <1>1, <2>5
    <3>3. \A x \in Times : h[x] = IF x = time THEN 1 ELSE histo[t][x]
      BY <2>1, <3>1, <3>2
    <3> HIDE DEF h
    <3>4. \A x \in Times : h[x] > 0 => h[x] = 1 /\ x <= time
      BY <1>2, <2>1, <2>2, <3>3
    <3>5. ASSUME NEW x \in Times, NEW y \in Times, h[x] > 0, h[y] > 0
          PROVE  x = y \/ x > y + Time_Sample \/ y > x + Time_Sample
      BY <2>2, <3>3, <3>5 DEF Apart
    <3> QED
      BY <1>4, <3>4, <3>5 DEF Apart, h
  <2> QED
    BY <2>3, <2>4, <2>5
<1> QED
  BY <1>3, <1>4

LEMMA OtherHisto ==
    ASSUME TypeOK, NEW t, NEW time, InsertHisto(t, time) \/ histo' = histo
    PROVE  \A u \in Ids : u # t => histo'[u] = histo[u]
<1>1. histo' = [histo EXCEPT ![t][time] = IF @ < 2 THEN @ + 1 ELSE @] \/ histo' = histo
  BY DEF InsertHisto
<1> QED
  BY <1>1 DEF TypeOK

(* A row inserts a snapshot only if the last one of its tag is old enough. *)
LEMMA RowSamples ==
    ASSUME TypeOK, Intact, ~ trouble, Samples, Row, NEW t \in Ids \ excused'
    PROVE  Known(t)' /\ Dated(t)' /\ Apart(histo'[t])
<1> DEFINE u == Head(result).id
           time == Head(result).time
<1>1. pc = "rows" /\ result' = Tail(result) /\ UNCHANGED <<rows, selected>>
  BY DEF Row, NextRow, table
<1>2. /\ u \in Ids /\ time \in 0 .. MaxTime /\ u = result[1].id
      /\ Len(result) \in Nat /\ Len(result) > 0 /\ Len(result') = Len(result) - 1
      /\ \A n \in 1 .. Len(result) - 1 : result'[n] = result[n + 1]
  BY <1>1, RowTypes
<1>3. Waiting(u) /\ (Waiting(t)' => Waiting(t)) /\ (t # u /\ Waiting(t) => Waiting(t)')
  <2>1. ASSUME NEW n \in 1 .. Len(result'), result'[n].id = t PROVE Waiting(t)
    <3>1. n + 1 \in 1 .. Len(result) /\ n \in 1 .. Len(result) - 1
      BY <1>2
    <3> QED
      BY <1>2, <2>1, <3>1 DEF Waiting
  <2>2. ASSUME t # u, NEW n \in 1 .. Len(result), result[n].id = t PROVE Waiting(t)'
    <3>1. n - 1 \in 1 .. Len(result) - 1 /\ (n - 1) + 1 = n /\ n - 1 \in 1 .. Len(result')
      BY <1>2, <2>2
    <3>2. result'[n - 1].id = t
      BY <1>2, <2>2, <3>1
    <3> QED
      BY <3>1, <3>2 DEF Waiting
  <2>3. Waiting(u)
    BY <1>2 DEF Waiting
  <2> QED
    BY <2>1, <2>2, <2>3 DEF Waiting
<1> HIDE DEF u, time
<1>4. PICK old \in TAG :
          LET now == Exists(u, IF Due(old, time) THEN time ELSE old.inserted) IN
          /\ \/ \E s \in 1 .. Count :
                   /\ Listing[s] = old /\ old.id = u
                   /\ Listing' = [Listing EXCEPT ![s] = now]
                   /\ UNCHANGED <<Count, excused>>
             \/ /\ \A s \in 1 .. Count : Listing[s].id # u
                /\ old = Exists(u, 0)
                /\ \/ /\ Count < Cap /\ Count' = Count + 1 /\ UNCHANGED excused
                      /\ Listing' = [s \in 1 .. Count + 1 |-> IF s = Count + 1 THEN now ELSE Listing[s]]
                   \/ Count = Cap /\ excused' = excused \union {u} /\ UNCHANGED <<Listing, Count>>
          /\ IF Due(old, time) THEN InsertHisto(u, time) ELSE Fine /\ UNCHANGED <<histo, failed>>
  BY RowListing DEF u, time
<1> DEFINE now == Exists(u, IF Due(old, time) THEN time ELSE old.inserted)
<1>5. now.id = u /\ now.exist /\ now.inserted = IF Due(old, time) THEN time ELSE old.inserted
  BY <1>2, <1>4, TagTypes DEF TAG
<1>6. /\ \A x \in Ids : x # u => histo'[x] = histo[x]
      /\ IF Due(old, time) THEN InsertHisto(u, time) ELSE Fine /\ UNCHANGED <<histo, failed>>
  BY <1>4, OtherHisto
<1>7. t \notin excused /\ Known(t) /\ Dated(t) /\ Apart(histo[t]) /\ t \in Ids
  <2>1. t \notin excused
    BY <1>4
  <2> QED
    BY <2>1 DEF Samples
<1>8. Count \in Nat /\ DOMAIN Listing = 1 .. Count /\ \A r, s \in 1 .. Count : Listing[r].id = Listing[s].id => r = s
  BY Slotted
<1>9. CASE t # u
  <2>1. \A s \in 1 .. Count' : Listing'[s].id = t => s \in 1 .. Count /\ Listing'[s] = Listing[s]
    BY <1>4, <1>5, <1>8, <1>9 DEF now
  <2>2. \A s \in 1 .. Count : Listing[s].id = t => s \in 1 .. Count' /\ Listing'[s] = Listing[s]
    BY <1>4, <1>5, <1>8, <1>9 DEF now
  <2>3. histo'[t] = histo[t]
    BY <1>6, <1>7, <1>9
  <2>4. Known(t)'
    BY <1>1, <1>3, <1>7, <1>9, <2>1 DEF Known
  <2>5. Dated(t)'
    BY <1>7, <2>2, <2>3 DEF Dated
  <2> QED
    BY <1>7, <2>3, <2>4, <2>5
<1>10. CASE t = u
  <2>1. t \in rows
    BY <1>3, <1>7, <1>10 DEF Known
  <2>2. \E s \in 1 .. Count' : Listing'[s] = now
    <3>1. CASE \E s \in 1 .. Count : Listing' = [Listing EXCEPT ![s] = now] /\ Count' = Count
      BY <1>8, <3>1
    <3>2. CASE Count' = Count + 1 /\ Listing' = [s \in 1 .. Count + 1 |-> IF s = Count + 1 THEN now ELSE Listing[s]]
      <4>1. Count + 1 \in 1 .. Count'
        BY <1>8, <3>2
      <4> QED
        BY <3>2, <4>1
    <3> QED
      BY <1>4, <1>10, <3>1, <3>2 DEF now
  <2>3. \A s \in 1 .. Count' : Listing'[s].id = u => Listing'[s] = now
    BY <1>4, <1>5, <1>8, <1>10 DEF now
  <2>4. \A x \in Times : histo[t][x] > 0 => histo[t][x] = 1 /\ x <= old.inserted
    <3>1. \A s \in 1 .. Count : Listing[s].id = u => Listing[s] = old
      BY <1>4, <1>8
    <3> QED
      BY <1>7, <1>10, <3>1 DEF Dated
  <2>5. /\ \A x \in Times : histo'[t][x] > 0 => histo'[t][x] = 1 /\ x <= now.inserted
        /\ Apart(histo'[t])
    BY <1>2, <1>5, <1>6, <1>7, <1>10, <2>4, InsertIsApart
  <2>6. Known(t)'
    BY <1>1, <1>5, <1>10, <2>1, <2>3 DEF Known
  <2>7. Dated(t)'
    BY <1>5, <1>10, <2>2, <2>5 DEF Dated
  <2> QED
    BY <2>5, <2>6, <2>7
<1> QED
  BY <1>9, <1>10

(* Every step keeps the samples apart. *)
LEMMA SamplesStep == Sound /\ Samples /\ [HistoNext]_vars => Samples'
<1> SUFFICES ASSUME Sound, Samples, [HistoNext]_vars, ~ trouble', NEW t \in Ids \ excused'
             PROVE  Known(t)' /\ Dated(t)' /\ Apart(histo'[t])
  BY DEF Samples
<1> USE DEF list, table
<1>1. CASE Restart
  BY <1>1 DEF Restart
<1>2. CASE ~ Restart
  <2>1. TypeOK /\ ~ trouble /\ Intact
    <3>1. trouble' = trouble \/ CheckList
      BY <1>2 DEF HistoNext, Daemon, World, End, CheckBySql, Row, Crash, Signal, Sample, RowGoes, vars
    <3>2. ~ trouble
      BY <3>1 DEF CheckList
    <3> QED
      BY <3>2 DEF Sound
  <2>2. CASE Row
    BY <2>1, <2>2, RowSamples
  <2>3. CASE CheckList
    <3>1. /\ pc = "round" /\ UNCHANGED <<result, rows, histo>> /\ selected' = FALSE
          /\ excused' = IF selected THEN excused ELSE Ids
      BY <2>3 DEF CheckList
    <3>2. selected /\ t \notin excused
      BY <3>1
    <3>3. Known(t) /\ Dated(t) /\ Apart(histo[t])
      BY <2>1, <3>2 DEF Samples
    <3>4. result = <<>> /\ ~ Waiting(t)
      BY <2>1, <3>1 DEF TypeOK, Waiting
    <3>5. ~ Waiting(t)'
      BY <3>1, <3>4 DEF Waiting
    <3>6. /\ \A s \in 1 .. Count : Listing[s].exist =>
                \E q \in 1 .. Count' : /\ Listing'[q].id = Listing[s].id
                                       /\ Listing'[q].inserted = Listing[s].inserted
          /\ \A q \in 1 .. Count' : \E s \in 1 .. Count : /\ Listing'[q].id = Listing[s].id
                                                          /\ Listing'[q].inserted = Listing[s].inserted
      BY <2>1, <2>3, CheckListing
    <3>7. Known(t)'
      BY <3>1, <3>3, <3>5, <3>6 DEF Known
    <3>8. \A s \in 1 .. Count : Listing[s].id = t => Listing[s].exist
      BY <3>2, <3>3, <3>4 DEF Known
    <3>9. Dated(t)'
      <4> SUFFICES ASSUME NEW x \in Times, histo[t][x] > 0
                   PROVE  histo[t][x] = 1 /\ \E q \in 1 .. Count' : Listing'[q].id = t /\ x <= Listing'[q].inserted
        BY <3>1 DEF Dated
      <4>1. PICK s \in 1 .. Count : Listing[s].id = t /\ x <= Listing[s].inserted
        BY <3>3 DEF Dated
      <4>2. PICK q \in 1 .. Count' : /\ Listing'[q].id = Listing[s].id
                                     /\ Listing'[q].inserted = Listing[s].inserted
        BY <3>6, <3>8, <4>1
      <4> QED
        BY <3>3, <4>1, <4>2 DEF Dated
    <3> QED
      BY <3>1, <3>3, <3>7, <3>9
  <2>4. CASE CheckBySql
    <3>1. UNCHANGED <<Data, Count, tags, rows, histo, excused>>
      BY <2>4 DEF CheckBySql
    <3>2. Listing' = Listing
      BY <3>1 DEF Listing
    <3>3. t \notin excused /\ Known(t) /\ Dated(t) /\ Apart(histo[t])
      BY <2>1, <3>1 DEF Samples
    <3>4. Dated(t)'
      BY <3>1, <3>2, <3>3 DEF Dated
    <3>5. CASE result' = LET ids == SetToSeq(rows) IN
                            [n \in DOMAIN ids |-> [id |-> ids[n], time |-> snapshot[ids[n]]]]
      <4>1. /\ \A n \in 1 .. Len(result') : result'[n].id \in rows
            /\ \A r \in rows : \E n \in 1 .. Len(result') : result'[n].id = r
        BY <2>1, <3>5, SelectedRows
      <4>2. Waiting(t)' <=> t \in rows
        BY <4>1 DEF Waiting
      <4> QED
        BY <3>1, <3>2, <3>3, <3>4, <4>2 DEF Known
    <3>6. CASE UNCHANGED <<result, selected>>
      <4>1. Waiting(t)' = Waiting(t)
        BY <3>6 DEF Waiting
      <4> QED
        BY <3>1, <3>2, <3>3, <3>4, <3>6, <4>1 DEF Known
    <3> QED
      BY <2>4, <3>5, <3>6 DEF CheckBySql
  <2>5. CASE ~ (Row \/ CheckList \/ CheckBySql)
    <3>1. /\ UNCHANGED <<Data, Count, tags, result, histo, selected>>
          /\ excused \subseteq excused' /\ \A r \in rows : r \in rows' \/ r \in excused'
      BY <1>2, <2>5 DEF HistoNext, Daemon, World, End, Crash, Signal, Sample, RowGoes, vars
    <3>2. Listing' = Listing /\ Waiting(t)' = Waiting(t)
      BY <3>1 DEF Listing, Waiting
    <3>3. t \notin excused /\ Known(t) /\ Dated(t) /\ Apart(histo[t])
      BY <2>1, <3>1 DEF Samples
    <3>4. t \in rows => t \in rows'
      BY <3>1
    <3>5. Known(t)'
      BY <3>1, <3>2, <3>3, <3>4 DEF Known
    <3>6. Dated(t)'
      BY <3>1, <3>2, <3>3 DEF Dated
    <3> QED
      BY <3>1, <3>3, <3>5, <3>6
  <2> QED
    BY <2>2, <2>3, <2>4, <2>5
<1> QED
  BY <1>1, <1>2

(* What is in HISTO of a tag that the program had no reason to forget is    *)
(* there once and more than Time_Sample apart.                              *)
THEOREM SamplesStayApart == Spec => []SamplesAreApart
<1>1. Init => Samples
  <2> SUFFICES ASSUME Init, NEW t \in Ids PROVE Known(t) /\ Dated(t) /\ Apart(histo[t])
    BY DEF Samples
  <2>1. Count = 0 /\ result = <<>> /\ \A x \in Times : histo[t][x] = 0
    BY DEF Init
  <2> QED
    BY <2>1 DEF Known, Dated, Apart, Waiting
<1>2. Sound /\ Samples /\ [HistoNext]_vars => Samples'
  BY SamplesStep
<1>3. Samples => SamplesAreApart
  <2> SUFFICES ASSUME Samples, NEW t \in Ids \ excused, ~ trouble,
                      NEW x \in Times, NEW y \in Times, histo[t][x] > 0, histo[t][y] > 0
               PROVE  IF x = y THEN histo[t][x] = 1 ELSE x > y + Time_Sample \/ y > x + Time_Sample
    BY DEF SamplesAreApart
  <2>1. Dated(t) /\ Apart(histo[t])
    BY DEF Samples
  <2> QED
    BY <2>1 DEF Dated, Apart
<1>4. Spec => []Sound
  BY SoundIsKept
<1> QED
  BY <1>1, <1>2, <1>3, <1>4, PTL DEF Spec
=============================================================================
