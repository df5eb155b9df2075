---------------------------- MODULE TuxMdbProofs -----------------------------
(***************************************************************************)
(* What TuxMdb promises, for any rows of DEFINITION, sizes and times, in   *)
(* three parts: Optimise_Plc loses no tag; a call takes its own reply; and *)
(* what is stored for a tag is its value.                                  *)
(***************************************************************************)
EXTENDS TuxMdb, FiniteSetTheorems, SequenceTheorems, WellFoundedInduction, TLAPS

-----------------------------------------------------------------------------
(***************************************************************************)
(* Numbers and orders.                                                     *)
(***************************************************************************)

(* A set of numbers that is not empty has a least one, and with a bound a  *)
(* greatest.                                                               *)
LEMMA LeastExists ==
    ASSUME NEW S \in SUBSET Nat, S # {}
    PROVE  \E n \in S : \A m \in S : n <= m
<1> DEFINE less == OpToRel(<, Nat)
<1>1. IsWellFoundedOn(less, Nat)
  BY NatLessThanWellFounded, Zenon DEF OpToRel
<1>2. \E n \in S : \A m \in S : ~ (<<m, n>> \in less)
  BY <1>1, WFMin
<1>3. PICK n \in S : \A m \in S : ~ (<<m, n>> \in less)
  BY <1>2
<1>4. \A m \in S : ~ m < n
  BY <1>3 DEF OpToRel
<1> QED
  BY <1>4

LEMMA GreatestExists ==
    ASSUME NEW b \in Nat, NEW S \in SUBSET (0 .. b), S # {}
    PROVE  Max(S) \in S /\ \A n \in S : n <= Max(S)
<1> DEFINE bounds == {m \in Nat : \A n \in S : n <= m}
<1>1. b \in bounds /\ bounds \in SUBSET Nat
  OBVIOUS
<1>2. PICK m \in bounds : \A k \in bounds : m <= k
  <2> HIDE DEF bounds
  <2> QED
    BY <1>1, LeastExists
<1>3. m \in S
  <2>1. SUFFICES ASSUME m \notin S PROVE FALSE
    OBVIOUS
  <2>2. \A n \in S : n <= m - 1 /\ m - 1 \in Nat
    BY <2>1
  <2>3. m - 1 \in bounds
    BY <2>2
  <2> QED
    BY <2>3, <1>2
<1>4. \A n \in S : m >= n
  BY <1>2
<1>5. \E x \in S : \A y \in S : x >= y
  BY <1>3, <1>4
<1>6. Max(S) \in S /\ \A y \in S : Max(S) >= y
  BY <1>5 DEF Max
<1> QED
  BY <1>6

(* Remainders. *)
LEMMA Remainder ==
    ASSUME NEW w \in Nat \ {0}, NEW q \in Nat, NEW a \in 0 .. w - 1
    PROVE  (w * q + a) % w = a
BY SMTT(30)

LEMMA Division ==
    ASSUME NEW w \in Nat \ {0}, NEW n \in Nat
    PROVE  \E q \in Nat, a \in 0 .. w - 1 : n = w * q + a
<1> DEFINE Good(m) == \E q \in Nat, a \in 0 .. w - 1 : m = w * q + a
           Bad == {m \in Nat : ~ Good(m)}
<1>1. SUFFICES ASSUME Bad # {} PROVE FALSE
  OBVIOUS
<1>2. PICK m \in Bad : \A k \in Bad : m <= k
  <2>1. Bad \in SUBSET Nat
    OBVIOUS
  <2> HIDE DEF Bad
  <2> QED
    BY <1>1, <2>1, LeastExists
<1>3. m \in Nat /\ ~ Good(m)
  <2> HIDE DEF Good
  <2> QED
    OBVIOUS
<1>4. m # 0
  <2>1. 0 \in Nat /\ 0 \in 0 .. w - 1 /\ 0 = w * 0 + 0
    OBVIOUS
  <2>2. Good(0)
    BY <2>1
  <2> HIDE DEF Good, Bad
  <2> QED
    BY <1>3, <2>2
<1>5. m - 1 \in Nat /\ Good(m - 1)
  <2> HIDE DEF Good
  <2> QED
    BY <1>2, <1>3, <1>4
<1>6. PICK q \in Nat, a \in 0 .. w - 1 : m - 1 = w * q + a
  BY <1>5
<1> HIDE DEF Bad
<1>7. CASE a = w - 1
  <2>1. m = w * (q + 1) + 0 /\ q + 1 \in Nat /\ 0 \in 0 .. w - 1
    BY <1>3, <1>6, <1>7
  <2> QED
    BY <1>3, <2>1
<1>8. CASE a # w - 1
  <2>1. m = w * q + (a + 1) /\ a + 1 \in 0 .. w - 1
    BY <1>3, <1>6, <1>8
  <2> QED
    BY <1>3, <2>1
<1> QED
  BY <1>7, <1>8

LEMMA RemainderOfSum ==
    ASSUME NEW w \in Nat \ {0}, NEW n \in Nat, NEW x \in Nat, (n % w) + x < w
    PROVE  (n + x) % w = (n % w) + x
<1>1. PICK q \in Nat, a \in 0 .. w - 1 : n = w * q + a
  BY Division
<1>2. n % w = a
  BY <1>1, Remainder
<1>3. a + x \in 0 .. w - 1 /\ n + x = w * q + (a + x)
  BY <1>1, <1>2
<1> DEFINE b == a + x
<1>4. (w * q + b) % w = b
  <2> b \in 0 .. w - 1
    BY <1>3
  <2> HIDE DEF b
  <2> QED
    BY Remainder
<1> QED
  BY <1>2, <1>3, <1>4

LEMMA NextRemainder ==
    ASSUME NEW w \in Nat \ {0}, NEW n \in 0 .. w - 1
    PROVE  (n + 1) % w = IF n = w - 1 THEN 0 ELSE n + 1
<1>1. CASE n = w - 1
  <2>1. n + 1 = w * 1 + 0 /\ 0 \in 0 .. w - 1
    BY <1>1
  <2>2. (w * 1 + 0) % w = 0
    BY <2>1, Remainder
  <2> QED
    BY <1>1, <2>1, <2>2
<1>2. CASE n # w - 1
  <2> DEFINE b == n + 1
  <2>1. n + 1 = w * 0 + b /\ b \in 0 .. w - 1
    BY <1>2
  <2>2. (w * 0 + b) % w = b
    <3> HIDE DEF b
    <3> QED
      BY <2>1, Remainder
  <2> QED
    BY <1>2, <2>1, <2>2
<1> QED
  BY <1>1, <1>2

(* InOrder finds an order, if what it is to respect is part of a total one *)
(* on a finite set: the place of x is the number of those before it.       *)
TotalOrder(S, R) ==
    /\ \A x \in S : <<x, x>> \notin R
    /\ \A x, y, z \in S : <<x, y>> \in R /\ <<y, z>> \in R => <<x, z>> \in R
    /\ \A x, y \in S : x = y \/ <<x, y>> \in R \/ <<y, x>> \in R

LEMMA OrderExists ==
    ASSUME NEW S, IsFiniteSet(S), NEW less, NEW R, TotalOrder(S, R),
           \A x, y \in S : <<x, y>> \in less => <<x, y>> \in R
    PROVE  /\ InOrder(S, less) \in Bijection(1 .. Cardinality(S), S)
           /\ \A i, j \in 1 .. Cardinality(S) :
                i < j => <<InOrder(S, less)[j], InOrder(S, less)[i]>> \notin less
<1> DEFINE n == Cardinality(S)
           below(x) == {y \in S : <<y, x>> \in R}
           rank == [x \in S |-> Cardinality(below(x)) + 1]
           f == [i \in 1 .. n |-> CHOOSE x \in S : rank[x] = i]
<1>1. n \in Nat
  BY FS_CardinalityType
<1>2. \A x \in S : IsFiniteSet(below(x)) /\ Cardinality(below(x)) \in Nat
  BY FS_Subset, FS_CardinalityType
<1>3. ASSUME NEW x \in S PROVE rank[x] \in 1 .. n
  <2>1. below(x) \in SUBSET S /\ below(x) # S
    BY DEF TotalOrder
  <2>2. Cardinality(below(x)) <= n /\ Cardinality(below(x)) # n
    BY <2>1, FS_Subset
  <2> QED
    BY <2>2, <1>1, <1>2
<1>4. ASSUME NEW x \in S, NEW y \in S, <<x, y>> \in R PROVE rank[x] < rank[y]
  <2>1. below(x) \union {x} \in SUBSET below(y) /\ x \notin below(x)
    BY <1>4 DEF TotalOrder
  <2>2. Cardinality(below(x) \union {x}) = Cardinality(below(x)) + 1
    BY <2>1, <1>2, FS_AddElement
  <2>3. Cardinality(below(x) \union {x}) <= Cardinality(below(y))
    BY <2>1, <1>2, FS_Subset
  <2> QED
    BY <2>2, <2>3, <1>2
<1> HIDE DEF rank, n
<1>5. \A x, y \in S : rank[x] = rank[y] => x = y
  <2> SUFFICES ASSUME NEW x \in S, NEW y \in S, rank[x] = rank[y], x # y PROVE FALSE
    OBVIOUS
  <2>1. rank[x] \in 1 .. n /\ rank[y] \in 1 .. n
    BY <1>3
  <2>2. <<x, y>> \in R \/ <<y, x>> \in R
    BY DEF TotalOrder
  <2>3. rank[x] < rank[y] \/ rank[y] < rank[x]
    BY <2>2, <1>4
  <2> QED
    BY <2>1, <2>3, <1>1
<1>6. rank \in Surjection(S, 1 .. n)
  <2>1. rank \in Injection(S, 1 .. n)
    <3>1. rank \in [S -> 1 .. n]
      BY <1>3 DEF rank
    <3> QED
      BY <3>1, <1>5 DEF Injection, IsInjective
  <2>2. IsFiniteSet(1 .. n) /\ Cardinality(1 .. n) = n
    BY <1>1, FS_Interval
  <2> QED
    BY <2>1, <2>2, FS_Injection DEF n
<1>7. \A i \in 1 .. n : f[i] \in S /\ rank[f[i]] = i
  BY <1>6 DEF Surjection
<1>8. f \in Bijection(1 .. n, S)
  <2>1. f \in [1 .. n -> S]
    BY <1>7
  <2>2. \A i, j \in 1 .. n : f[i] = f[j] => i = j
    BY <1>7
  <2>3. \A x \in S : \E i \in 1 .. n : f[i] = x
    <3> TAKE x \in S
    <3>1. rank[x] \in 1 .. n
      BY <1>3
    <3> WITNESS rank[x] \in 1 .. n
    <3> QED
      BY <3>1, <1>5, <1>7
  <2> HIDE DEF f
  <2> QED
    BY <2>1, <2>2, <2>3 DEF Bijection, Injection, Surjection, IsInjective
<1>9. \A i, j \in 1 .. n : i < j => <<f[j], f[i]>> \notin less
  <2> SUFFICES ASSUME NEW i \in 1 .. n, NEW j \in 1 .. n, i < j, <<f[j], f[i]>> \in less PROVE FALSE
    OBVIOUS
  <2>1. f[i] \in S /\ f[j] \in S /\ rank[f[i]] = i /\ rank[f[j]] = j
    BY <1>7
  <2> HIDE DEF f
  <2>2. <<f[j], f[i]>> \in R
    BY <2>1
  <2>3. j < i
    BY <2>1, <2>2, <1>4
  <2> QED
    BY <2>3, <1>1
<1> HIDE DEF f
<1>10. \E g \in Bijection(1 .. n, S) :
          \A i, j \in 1 .. n : i < j => <<g[j], g[i]>> \notin less
  BY <1>8, <1>9
<1> QED
  BY <1>10 DEF InOrder, n

-----------------------------------------------------------------------------
(***************************************************************************)
(* Optimise_Plc.                                                           *)
(***************************************************************************)

LEMMA Elements ==
    ASSUME NEW T, NEW s \in Seq(T)
    PROVE  Len(s) \in Nat /\ DOMAIN s = 1 .. Len(s) /\ \A i \in 1 .. Len(s) : s[i] \in T
BY LenProperties, ElementOfSeq

LEMMA RowType ==
    ASSUME NEW t \in Rows
    PROVE  t.number \in Nat /\ t.sample \in Nat /\ t.sample \in 1 .. MAX_SAMPLE /\ C_F_Index(t) # 0
BY MdbAssumption

LEMMA Parameters ==
    /\ MaxEltByPacket \in Nat /\ MAX_SAMPLE \in Nat /\ Wait \in Nat /\ MaxFaults \in Nat
    /\ IdRange \in Nat \ {0} /\ WordRange \in Nat \ {0} /\ Registers \in Nat
BY MdbAssumption, MBAssumption

LEMMA SortedIsOrder ==
    ASSUME NEW tags \in Seq(Rows)
    PROVE  /\ Sorted(tags) \in Seq(Rows) /\ Len(Sorted(tags)) = Len(tags)
           /\ \A i, j \in 1 .. Len(tags) :
                i < j => Sorted(tags)[i].number <= Sorted(tags)[j].number
           /\ \E f \in Bijection(1 .. Len(tags), 1 .. Len(tags)) :
                \A i \in 1 .. Len(tags) : Sorted(tags)[i] = tags[f[i]]
<1> DEFINE n == Len(tags)
           S == 1 .. n
           R == {e \in S \X S : \/ tags[e[1]].number < tags[e[2]].number
                                \/ tags[e[1]].number = tags[e[2]].number /\ e[1] < e[2]}
           f == InOrder(S, ByAddress(tags))
<1>1. n \in Nat /\ DOMAIN tags = S /\ \A i \in S : tags[i] \in Rows /\ tags[i].number \in Nat
  BY Elements, RowType
<1> HIDE DEF n
<1>2. IsFiniteSet(S) /\ Cardinality(S) = n
  BY <1>1, FS_Interval
<1>3. TotalOrder(S, R)
  <2>1. \A x, y \in S :
           <<x, y>> \in R <=> (\/ tags[x].number < tags[y].number
                              \/ (tags[x].number = tags[y].number /\ x < y))
    OBVIOUS
  <2> HIDE DEF R
  <2>2. \A x \in S : <<x, x>> \notin R
    <3> TAKE x \in S
    <3>1. x \in Nat /\ tags[x].number \in Nat
      BY <1>1
    <3> QED
      BY <3>1, <2>1
  <2>3. \A x, y \in S : x = y \/ <<x, y>> \in R \/ <<y, x>> \in R
    <3> TAKE x \in S, y \in S
    <3>1. x \in Nat /\ y \in Nat /\ tags[x].number \in Nat /\ tags[y].number \in Nat
      BY <1>1
    <3>2. \/ tags[x].number < tags[y].number \/ tags[y].number < tags[x].number
          \/ tags[x].number = tags[y].number /\ (x < y \/ y < x \/ x = y)
      BY <3>1
    <3> QED
      BY <3>2, <2>1
  <2>4. \A x, y, z \in S : <<x, y>> \in R /\ <<y, z>> \in R => <<x, z>> \in R
    <3> SUFFICES ASSUME NEW x \in S, NEW y \in S, NEW z \in S, <<x, y>> \in R, <<y, z>> \in R
                 PROVE  <<x, z>> \in R
      OBVIOUS
    <3> QED
      BY <1>1, <2>1
  <2> QED
    BY <2>2, <2>3, <2>4 DEF TotalOrder
<1>4. \A x, y \in S : <<x, y>> \in ByAddress(tags) => <<x, y>> \in R
  BY <1>1 DEF ByAddress
<1> HIDE DEF R
<1>5. /\ InOrder(S, ByAddress(tags)) \in Bijection(1 .. Cardinality(S), S)
      /\ \A i, j \in 1 .. Cardinality(S) :
            i < j => <<InOrder(S, ByAddress(tags))[j], InOrder(S, ByAddress(tags))[i]>> \notin ByAddress(tags)
  BY <1>2, <1>3, <1>4, OrderExists
<1>6. f \in Bijection(S, S) /\ \A i, j \in S : i < j => <<f[j], f[i]>> \notin ByAddress(tags)
  BY <1>2, <1>5
<1>7. f \in [S -> S]
  BY <1>6 DEF Bijection, Injection
<1>8. Sorted(tags) = [i \in S |-> tags[f[i]]]
  BY <1>1 DEF Sorted
<1> HIDE DEF f
<1>9. \A i \in S : f[i] \in S /\ tags[f[i]] \in Rows
  BY <1>1, <1>7
<1>10. Sorted(tags) \in [1 .. n -> Rows]
  BY <1>8, <1>9
<1>11. Sorted(tags) \in Seq(Rows) /\ Len(Sorted(tags)) = n
  BY <1>1, <1>10, <1>8 DEF n
<1>12. ASSUME NEW i \in S, NEW j \in S, i < j
       PROVE  Sorted(tags)[i].number <= Sorted(tags)[j].number
  <2>1. <<f[j], f[i]>> \notin ByAddress(tags) /\ f[i] \in S /\ f[j] \in S
    BY <1>6, <1>9, <1>12
  <2>2. ~ tags[f[j]].number < tags[f[i]].number
    BY <2>1, <1>1 DEF ByAddress
  <2> QED
    BY <2>1, <2>2, <1>1, <1>8
<1> QED
  BY <1>6, <1>8, <1>11, <1>12 DEF n

(* There is a walk as Btag describes it. *)
IsWalk(at, n, tags) ==
    at = [i \in 1 .. n |-> IF i > 1 /\ Near(tags[at[i - 1]], tags[i]) THEN at[i - 1] ELSE i]

LEMMA WalkExists ==
    ASSUME NEW n \in Nat, NEW tags
    PROVE  \E at : IsWalk(at, n, tags)
<1> DEFINE Good(m, f) ==
               f = [i \in 1 .. m |-> IF i > 1 /\ Near(tags[f[i - 1]], tags[i]) THEN f[i - 1] ELSE i]
           Bad == {m \in Nat : ~ \E f : Good(m, f)}
<1>1. SUFFICES ASSUME Bad # {} PROVE FALSE
  BY DEF IsWalk
<1>2. PICK m \in Bad : \A k \in Bad : m <= k
  <2> HIDE DEF Good
  <2>1. Bad \in SUBSET Nat
    OBVIOUS
  <2> HIDE DEF Bad
  <2> QED
    BY <1>1, <2>1, LeastExists
<1>3. m \in Nat /\ ~ \E f : Good(m, f)
  <2> HIDE DEF Good
  <2> QED
    OBVIOUS
<1>4. m # 0
  <2>1. Good(0, [i \in 1 .. 0 |-> 0])
    OBVIOUS
  <2> HIDE DEF Good, Bad
  <2> QED
    BY <2>1, <1>3
<1>5. m - 1 \in Nat /\ m - 1 < m
  <2> HIDE DEF Good, Bad
  <2> QED
    BY <1>3, <1>4
<1>6. PICK f : Good(m - 1, f)
  <2> HIDE DEF Good
  <2> QED
    BY <1>2, <1>3, <1>5
<1> HIDE DEF Bad
<1> DEFINE g == [i \in 1 .. m |-> IF i > 1 /\ Near(tags[f[i - 1]], tags[i]) THEN f[i - 1] ELSE i]
<1>7. \A i \in 1 .. m - 1 : i \in 1 .. m /\ f[i] = g[i]
  BY <1>3, <1>5, <1>6
<1>8. \A i \in 1 .. m : i > 1 => f[i - 1] = g[i - 1]
  <2>1. \A i \in 1 .. m : i > 1 => i - 1 \in 1 .. m - 1
    BY <1>3
  <2> HIDE DEF g
  <2> QED
    BY <1>7, <2>1
<1>9. Good(m, g)
  BY <1>8
<1> HIDE DEF Good, g
<1> QED
  BY <1>9, <1>3

LEMMA BtagIsWalk ==
    ASSUME NEW s \in Seq(Rows)
    PROVE  \A n \in 1 .. Len(s) :
              Btag(s)[n] = IF n > 1 /\ Near(s[Btag(s)[n - 1]], s[n]) THEN Btag(s)[n - 1] ELSE n
<1> DEFINE at == Btag(s)
<1>1. Len(s) \in Nat /\ DOMAIN s = 1 .. Len(s)
  BY Elements
<1>2. \E f : IsWalk(f, Len(s), s)
  BY <1>1, WalkExists
<1>3. at = CHOOSE f : IsWalk(f, Len(s), s)
  BY <1>1 DEF Btag, IsWalk
<1>4. IsWalk(at, Len(s), s)
  <2> HIDE DEF at
  <2> QED
    BY <1>2, <1>3
<1> HIDE DEF at
<1> QED
  BY <1>4 DEF IsWalk, at

(* Who has btag as its btag, and all in between. *)
LEMMA BtagFacts ==
    ASSUME NEW s \in Seq(Rows), NEW n \in 1 .. Len(s)
    PROVE  /\ Btag(s)[n] \in 1 .. n
           /\ \A m \in Btag(s)[n] .. n : Btag(s)[m] = Btag(s)[n]
           /\ Btag(s)[n] = n \/ Near(s[Btag(s)[n]], s[n])
<1> DEFINE b == Btag(s)
           Good(k) == /\ b[k] \in 1 .. k
                      /\ \A m \in b[k] .. k : b[m] = b[k]
                      /\ b[k] = k \/ Near(s[b[k]], s[k])
           Bad == {k \in 1 .. Len(s) : ~ Good(k)}
<1>1. Len(s) \in Nat
  BY Elements
<1>2. \A k \in 1 .. Len(s) : b[k] = IF k > 1 /\ Near(s[b[k - 1]], s[k]) THEN b[k - 1] ELSE k
  BY BtagIsWalk
<1> HIDE DEF b
<1>3. Bad = {}
  <2>1. SUFFICES ASSUME Bad # {} PROVE FALSE
    OBVIOUS
  <2>2. PICK k \in Bad : \A j \in Bad : k <= j
    <3>1. Bad \in SUBSET Nat
      OBVIOUS
    <3> HIDE DEF Bad
    <3> QED
      BY <2>1, <3>1, LeastExists
  <2>3. k \in 1 .. Len(s) /\ ~ Good(k)
    <3> HIDE DEF Good
    <3> QED
      OBVIOUS
  <2>4. CASE k > 1 /\ Near(s[b[k - 1]], s[k])
    <3>1. k - 1 \in 1 .. Len(s) /\ k - 1 < k
      BY <2>3, <2>4, <1>1
    <3>2. Good(k - 1)
      <4> HIDE DEF Good
      <4> QED
        BY <2>2, <3>1
    <3>3. b[k] = b[k - 1]
      BY <1>2, <2>3, <2>4
    <3>4. \A m \in b[k] .. k : b[m] = b[k]
      BY <3>1, <3>2, <3>3
    <3> QED
      BY <2>3, <2>4, <3>1, <3>2, <3>3, <3>4
  <2>5. CASE ~ (k > 1 /\ Near(s[b[k - 1]], s[k]))
    <3>1. b[k] = k
      BY <1>2, <2>3, <2>5
    <3> QED
      BY <2>3, <3>1, <1>1
  <2> QED
    BY <2>4, <2>5
<1>4. Good(n)
  <2> HIDE DEF Good
  <2> QED
    BY <1>3
<1> QED
  BY <1>4 DEF b

LEMMA BtagIsOne ==
    ASSUME NEW s \in Seq(Rows), NEW n \in 1 .. Len(s)
    PROVE  Btag(s)[n] \in Btags(s)
<1>1. Len(s) \in Nat /\ DOMAIN s = 1 .. Len(s)
  BY Elements
<1>2. /\ Btag(s)[n] \in 1 .. n
      /\ \A m \in Btag(s)[n] .. n : Btag(s)[m] = Btag(s)[n]
  BY BtagFacts
<1>3. Btag(s)[n] \in 1 .. Len(s) /\ Btag(s)[n] \in Btag(s)[n] .. n
  BY <1>1, <1>2
<1> QED
  BY <1>1, <1>2, <1>3 DEF Btags

(* A group is the tags from its btag on whose btag it is. *)
LEMMA GroupFacts ==
    ASSUME NEW s \in Seq(Rows), NEW b \in Btags(s)
    PROVE  \E z \in b .. Len(s) :
              /\ Group(s, b) \in Seq(Rows) /\ Len(Group(s, b)) = z - b + 1
              /\ \A k \in 1 .. z - b + 1 : Group(s, b)[k] = s[b + k - 1]
              /\ \A n \in 1 .. Len(s) : Btag(s)[n] = b <=> n \in b .. z
<1> DEFINE S == {n \in DOMAIN s : Btag(s)[n] = b}
           z == Max(S)
<1>1. Len(s) \in Nat /\ DOMAIN s = 1 .. Len(s) /\ \A i \in 1 .. Len(s) : s[i] \in Rows
  BY Elements
<1>2. b \in 1 .. Len(s) /\ Btag(s)[b] = b
  BY <1>1 DEF Btags
<1>3. S \in SUBSET (0 .. Len(s)) /\ b \in S
  BY <1>1, <1>2
<1>4. z \in S /\ \A n \in S : n <= z
  <2> HIDE DEF S
  <2> QED
    BY <1>1, <1>3, GreatestExists
<1>5. z \in b .. Len(s)
  BY <1>1, <1>2, <1>3, <1>4
<1>6. \A i \in b .. z : i \in 1 .. Len(s) /\ s[i] \in Rows
  BY <1>1, <1>2, <1>5
<1>7. ASSUME NEW n \in 1 .. Len(s) PROVE Btag(s)[n] = b <=> n \in b .. z
  <2>1. Btag(s)[n] = b => n \in b .. z
    <3>1. Btag(s)[n] \in 1 .. n
      BY BtagFacts
    <3> QED
      BY <1>1, <1>2, <1>4, <1>5, <3>1
  <2>2. z \in 1 .. Len(s) /\ Btag(s)[z] = b
    BY <1>1, <1>4
  <2>3. \A m \in Btag(s)[z] .. z : Btag(s)[m] = Btag(s)[z]
    BY <2>2, BtagFacts
  <2> QED
    BY <2>1, <2>2, <2>3
<1>8. Group(s, b) = SubSeq(s, b, z)
  BY DEF Group
<1> HIDE DEF z, S
<1>9. b \in Int /\ z \in Int /\ b <= z
  BY <1>2, <1>5
<1>10. /\ SubSeq(s, b, z) \in Seq(Rows)
       /\ Len(SubSeq(s, b, z)) = IF b <= z THEN z - b + 1 ELSE 0
       /\ \A i \in 1 .. z - b + 1 : SubSeq(s, b, z)[i] = s[b + i - 1]
  BY <1>6, <1>9, SubSeqProperties
<1>11. Len(SubSeq(s, b, z)) = z - b + 1
  BY <1>9, <1>10
<1> WITNESS z \in b .. Len(s)
<1> QED
  BY <1>7, <1>8, <1>10, <1>11

LEMMA BeforeIsTotal ==
    ASSUME NEW s, Btags(s) \in SUBSET Nat
    PROVE  TotalOrder(Btags(s), Before(s))
<1> DEFINE B == Btags(s)
           P(b) == IsPacket(s, b)
<1>1. \A b, c \in B : <<b, c>> \in Before(s) <=> IF P(b) = P(c) THEN b < c ELSE P(c)
  BY DEF Before
<1>2. \A b \in B : P(b) \in BOOLEAN /\ b \in Nat
  BY DEF IsPacket
<1> HIDE DEF B, P
<1>3. \A x \in B : <<x, x>> \notin Before(s)
  <2> TAKE x \in B
  <2> QED
    BY <1>1, <1>2
<1>4. \A x, y, z \in B : <<x, y>> \in Before(s) /\ <<y, z>> \in Before(s) => <<x, z>> \in Before(s)
  <2> SUFFICES ASSUME NEW x \in B, NEW y \in B, NEW z \in B,
                      <<x, y>> \in Before(s), <<y, z>> \in Before(s)
               PROVE  <<x, z>> \in Before(s)
    OBVIOUS
  <2>1. x \in Nat /\ y \in Nat /\ z \in Nat
    BY <1>2
  <2>2. IF P(x) = P(z) THEN x < z ELSE P(z)
    BY <1>1, <1>2, <2>1
  <2> QED
    BY <1>1, <2>2
<1>5. \A x, y \in B : x = y \/ <<x, y>> \in Before(s) \/ <<y, x>> \in Before(s)
  <2> TAKE x \in B, y \in B
  <2>1. x \in Nat /\ y \in Nat /\ P(x) \in BOOLEAN /\ P(y) \in BOOLEAN
    BY <1>2
  <2> QED
    BY <1>1, <2>1
<1> QED
  BY <1>3, <1>4, <1>5 DEF TotalOrder, B

(* The items are the groups of the sorted tags, each once. *)
LEMMA ItemsAreGroups ==
    ASSUME NEW tags \in Seq(Rows)
    PROVE  \E m \in 0 .. Len(tags) : \E f \in Bijection(1 .. m, Btags(Sorted(tags))) :
              /\ Optimise(tags) \in Seq({Item(Group(Sorted(tags), b)) : b \in Btags(Sorted(tags))})
              /\ Len(Optimise(tags)) = m
              /\ \A n \in 1 .. m : Optimise(tags)[n] = Item(Group(Sorted(tags), f[n]))
<1> DEFINE s == Sorted(tags)
           B == Btags(s)
           m == Cardinality(B)
           f == InOrder(B, Before(s))
           T == {Item(Group(s, b)) : b \in B}
<1>1. s \in Seq(Rows) /\ Len(s) = Len(tags) /\ Len(tags) \in Nat /\ DOMAIN s = 1 .. Len(tags)
  BY SortedIsOrder, Elements
<1> HIDE DEF s
<1>2. B \in SUBSET (1 .. Len(tags)) /\ B \in SUBSET Nat
  <2>1. B \in SUBSET DOMAIN s
    BY DEF Btags
  <2>2. \A b \in 1 .. Len(tags) : b \in Nat
    BY <1>1
  <2> HIDE DEF B, T, m, f
  <2> QED
    BY <1>1, <2>1, <2>2
<1>3. IsFiniteSet(1 .. Len(tags)) /\ Cardinality(1 .. Len(tags)) = Len(tags)
  <2> DEFINE k == Len(tags)
  <2>1. k \in Nat
    BY <1>1
  <2> HIDE DEF k
  <2>2. IsFiniteSet(1 .. k) /\ Cardinality(1 .. k) = k
    BY <2>1, FS_Interval
  <2> QED
    BY <2>2 DEF k
<1>4. IsFiniteSet(B) /\ m \in Nat /\ m <= Len(tags)
  BY <1>2, <1>3, FS_Subset, FS_CardinalityType
<1>5. TotalOrder(B, Before(s))
  BY <1>2, BeforeIsTotal
<1>6. f \in Bijection(1 .. m, B)
  BY <1>4, <1>5, OrderExists
<1>7. f \in [1 .. m -> B] /\ DOMAIN f = 1 .. m
  BY <1>6 DEF Bijection, Injection
<1>8. Optimise(tags) = [n \in 1 .. m |-> Item(Group(s, f[n]))]
  BY <1>7 DEF Optimise, s
<1> HIDE DEF B, f, m
<1>9. \A n \in 1 .. m : f[n] \in B /\ Item(Group(s, f[n])) \in T
  BY <1>7
<1> HIDE DEF T
<1>10. Optimise(tags) \in [1 .. m -> T]
  BY <1>8, <1>9
<1>11. Optimise(tags) \in Seq(T) /\ Len(Optimise(tags)) = m
  BY <1>4, <1>10
<1>12. \A n \in 1 .. m : Optimise(tags)[n] = Item(Group(s, f[n]))
  BY <1>8
<1>13. m \in 0 .. Len(tags)
  BY <1>1, <1>4
<1> QED
  BY <1>6, <1>11, <1>12, <1>13 DEF s, T, B

-----------------------------------------------------------------------------
(***************************************************************************)
(* Addresses and requests.                                                 *)
(***************************************************************************)

Entries == 1 .. 6

(* What an entry of the table is. *)
Sound(e) ==
    /\ e.read \in Reads /\ e.offset \in Int /\ e.low \in Int /\ e.low + e.offset = 0
    /\ e.type \in Types
    /\ e.type = "BYTE" <=> e.read \in Bits

LEMMA EntryIsSound ==
    ASSUME NEW low \in Nat, NEW high, NEW prefix, NEW read \in Reads, NEW offset \in Int,
           NEW type \in Types, low + offset = 0, type = "BYTE" <=> read \in Bits
    PROVE  Sound(Entry(low, high, prefix, read, offset, type))
<1> DEFINE e == Entry(low, high, prefix, read, offset, type)
<1>1. e.low = low /\ e.read = read /\ e.offset = offset /\ e.type = type
  BY DEF Entry
<1> HIDE DEF e
<1>2. Sound(e)
  BY <1>1 DEF Sound
<1> QED
  BY <1>2 DEF e

LEMMA FTableFacts ==
    /\ DOMAIN FTable = Entries
    /\ \A i \in Entries :
         /\ Sound(FTable[i])
         /\ DataSize(FTable[i].type) \in {1, 2, 4}
         /\ MaxNumber(FTable[i].read) \in {125, 2000}
<1>1. DOMAIN FTable = Entries
  BY DEF FTable, Entries
<1>2. Sound(FTable[1])
  <2>1. FTable[1] = Entry(1, 99999, "none", "READ_COILS", -1, "BYTE")
    BY DEF FTable
  <2>2. 1 \in Nat /\ -1 \in Int /\ 1 + (-1) = 0
    OBVIOUS
  <2>3. "READ_COILS" \in Reads /\ "BYTE" \in Types
    BY DEF Types, Reads
  <2>4. "BYTE" = "BYTE" <=> "READ_COILS" \in Bits
    BY DEF Bits
  <2>5. Sound(Entry(1, 99999, "none", "READ_COILS", -1, "BYTE"))
    BY <2>2, <2>3, <2>4, EntryIsSound
  <2> QED
    BY <2>1, <2>5
<1>3. Sound(FTable[2])
  <2>1. FTable[2] = Entry(100001, 199999, "none", "READ_INPUTS", -100001, "BYTE")
    BY DEF FTable
  <2>2. 100001 \in Nat /\ -100001 \in Int /\ 100001 + (-100001) = 0
    OBVIOUS
  <2>3. "READ_INPUTS" \in Reads /\ "BYTE" \in Types
    BY DEF Types, Reads
  <2>4. "BYTE" = "BYTE" <=> "READ_INPUTS" \in Bits
    BY DEF Bits
  <2>5. Sound(Entry(100001, 199999, "none", "READ_INPUTS", -100001, "BYTE"))
    BY <2>2, <2>3, <2>4, EntryIsSound
  <2> QED
    BY <2>1, <2>5
<1>4. Sound(FTable[3])
  <2>1. FTable[3] = Entry(300001, 399999, "none", "READ_INPUT_REGISTER", -300001, "UINT")
    BY DEF FTable
  <2>2. 300001 \in Nat /\ -300001 \in Int /\ 300001 + (-300001) = 0
    OBVIOUS
  <2>3. "READ_INPUT_REGISTER" \in Reads /\ "UINT" \in Types
    BY DEF Types, Reads
  <2>4. "UINT" = "BYTE" <=> "READ_INPUT_REGISTER" \in Bits
    BY DEF Bits
  <2>5. Sound(Entry(300001, 399999, "none", "READ_INPUT_REGISTER", -300001, "UINT"))
    BY <2>2, <2>3, <2>4, EntryIsSound
  <2> QED
    BY <2>1, <2>5
<1>5. Sound(FTable[4])
  <2>1. FTable[4] = Entry(400001, 499999, "none", "READ_HOLDING_REGISTER", -400001, "INT")
    BY DEF FTable
  <2>2. 400001 \in Nat /\ -400001 \in Int /\ 400001 + (-400001) = 0
    OBVIOUS
  <2>3. "READ_HOLDING_REGISTER" \in Reads /\ "INT" \in Types
    BY DEF Types, Reads
  <2>4. "INT" = "BYTE" <=> "READ_HOLDING_REGISTER" \in Bits
    BY DEF Bits
  <2>5. Sound(Entry(400001, 499999, "none", "READ_HOLDING_REGISTER", -400001, "INT"))
    BY <2>2, <2>3, <2>4, EntryIsSound
  <2> QED
    BY <2>1, <2>5
<1>6. Sound(FTable[5])
  <2>1. FTable[5] = Entry(400001, 499999, "D", "READ_HOLDING_REGISTER", -400001, "DINT")
    BY DEF FTable
  <2>2. 400001 \in Nat /\ -400001 \in Int /\ 400001 + (-400001) = 0
    OBVIOUS
  <2>3. "READ_HOLDING_REGISTER" \in Reads /\ "DINT" \in Types
    BY DEF Types, Reads
  <2>4. "DINT" = "BYTE" <=> "READ_HOLDING_REGISTER" \in Bits
    BY DEF Bits
  <2>5. Sound(Entry(400001, 499999, "D", "READ_HOLDING_REGISTER", -400001, "DINT"))
    BY <2>2, <2>3, <2>4, EntryIsSound
  <2> QED
    BY <2>1, <2>5
<1>7. Sound(FTable[6])
  <2>1. FTable[6] = Entry(400001, 499999, "F", "READ_HOLDING_REGISTER", -400001, "REAL")
    BY DEF FTable
  <2>2. 400001 \in Nat /\ -400001 \in Int /\ 400001 + (-400001) = 0
    OBVIOUS
  <2>3. "READ_HOLDING_REGISTER" \in Reads /\ "REAL" \in Types
    BY DEF Types, Reads
  <2>4. "REAL" = "BYTE" <=> "READ_HOLDING_REGISTER" \in Bits
    BY DEF Bits
  <2>5. Sound(Entry(400001, 499999, "F", "READ_HOLDING_REGISTER", -400001, "REAL"))
    BY <2>2, <2>3, <2>4, EntryIsSound
  <2> QED
    BY <2>1, <2>5
<1>8. ASSUME NEW i \in Entries
      PROVE  /\ Sound(FTable[i])
             /\ DataSize(FTable[i].type) \in {1, 2, 4}
             /\ MaxNumber(FTable[i].read) \in {125, 2000}
  <2>1. i = 1 \/ i = 2 \/ i = 3 \/ i = 4 \/ i = 5 \/ i = 6
    BY DEF Entries
  <2>2. Sound(FTable[i])
    BY <2>1, <1>2, <1>3, <1>4, <1>5, <1>6, <1>7
  <2>3. DataSize(FTable[i].type) \in {1, 2, 4}
    BY <2>2 DEF Sound, Types, DataSize
  <2>4. MaxNumber(FTable[i].read) \in {125, 2000}
    BY DEF MaxNumber
  <2> QED
    BY <2>2, <2>3, <2>4
<1> QED
  BY <1>1, <1>8

(* A row has an entry of the table, and its address is in it. *)
LEMMA RowEntry ==
    ASSUME NEW t \in Rows
    PROVE  C_F_Index(t) \in Entries /\ Serves(FTable[C_F_Index(t)], t)
<1> DEFINE S == {i \in Entries : Serves(FTable[i], t)}
<1>1. DOMAIN FTable = Entries /\ S \in SUBSET Nat /\ \A i \in S : i \in Nat
  BY FTableFacts DEF Entries
<1>2. \E i \in DOMAIN FTable : Serves(FTable[i], t)
  BY RowType DEF C_F_Index
<1>3. PICK i \in S : \A j \in S : i <= j
  <2>1. S # {}
    BY <1>1, <1>2
  <2> HIDE DEF S
  <2> QED
    BY <1>1, <2>1, LeastExists
<1>4. \A j \in 1 .. i - 1 : j \in Entries /\ ~ j \in S
  <2>1. i \in Entries
    OBVIOUS
  <2> HIDE DEF S
  <2> QED
    BY <1>3, <2>1 DEF Entries
<1>5. \E k \in DOMAIN FTable : Serves(FTable[k], t) /\ \A j \in 1 .. k - 1 : ~ Serves(FTable[j], t)
  BY <1>1, <1>3, <1>4
<1> QED
  BY <1>1, <1>2, <1>5 DEF C_F_Index

LEMMA RowAddress ==
    ASSUME NEW t \in Rows
    PROVE  t.number + FTable[C_F_Index(t)].offset \in Nat
<1> DEFINE e == FTable[C_F_Index(t)]
<1>1. C_F_Index(t) \in Entries /\ e.low <= t.number
  BY RowEntry DEF Serves
<1>2. e.offset \in Int /\ e.low \in Int /\ e.low + e.offset = 0
  BY <1>1, FTableFacts DEF Sound
<1> HIDE DEF e
<1>3. t.number + e.offset \in Nat
  BY <1>1, <1>2, RowType
<1> QED
  BY <1>3 DEF e

LEMMA RequestType ==
    ASSUME NEW t \in Rows, NEW number \in Nat, NEW type \in Types \union {"UNK"}
    PROVE  /\ ReadRequest(t, number, type) \in Requests
           /\ ReadRequest(t, number, type).number = number
           /\ ReadRequest(t, number, type).type = type
           /\ ReadRequest(t, number, type).read = FTable[C_F_Index(t)].read
           /\ ReadRequest(t, number, type).address =
                 (t.number + FTable[C_F_Index(t)].offset) % WordRange
           /\ ReadRequest(t, number, type).asked =
                 Smaller(number, MaxNumber(FTable[C_F_Index(t)].read))
<1> DEFINE e == FTable[C_F_Index(t)]
<1>1. e.read \in Reads /\ MaxNumber(e.read) \in {125, 2000}
  BY RowEntry, FTableFacts DEF Sound
<1>2. t.number + e.offset \in Nat
  BY RowAddress
<1> HIDE DEF e
<1>3. (t.number + e.offset) % WordRange \in Nat
  BY <1>2, Parameters
<1>4. Smaller(number, MaxNumber(e.read)) \in Nat
  BY <1>1 DEF Smaller
<1> QED
  BY <1>1, <1>3, <1>4 DEF ReadRequest, Requests, e

LEMMA ValueType ==
    ASSUME NEW req \in Requests, NEW index \in Nat, index < req.number
    PROVE  ValueAt(req, index) \in Places
<1> DEFINE T == IF req.read \in Bits THEN "BIT" ELSE IF req.type = "UNK" THEN "REAL" ELSE req.type
           A == req.address + (IF req.type \in {"DINT", "UDINT", "REAL"} THEN 2 * index ELSE index)
<1>1. /\ req.read \in Reads /\ req.address \in Nat /\ req.number \in Nat
      /\ req.type \in Types \union {"UNK"}
  BY DEF Requests
<1>2. A \in Nat
  BY <1>1
<1>3. T \in Types \union {"BIT"}
  BY <1>1 DEF Types
<1>4. ValueAt(req, index) = [read |-> req.read, address |-> A, type |-> T]
  BY <1>1 DEF ValueAt
<1> HIDE DEF A, T
<1> QED
  BY <1>1, <1>2, <1>3, <1>4 DEF Places

LEMMA SampleType ==
    ASSUME NEW g \in Seq(Rows), Len(g) > 0
    PROVE  Sample(g) \in 1 .. MAX_SAMPLE
<1> DEFINE S == {g[i].sample : i \in DOMAIN g}
<1>1. Len(g) \in Nat /\ DOMAIN g = 1 .. Len(g) /\ \A i \in 1 .. Len(g) : g[i] \in Rows
  BY Elements
<1>2. S \in SUBSET Nat /\ S \in SUBSET (1 .. MAX_SAMPLE)
  BY <1>1, RowType
<1>3. S # {}
  <2>1. 1 \in DOMAIN g
    BY <1>1
  <2>2. g[1].sample \in S
    BY <2>1
  <2> QED
    BY <2>2
<1>4. \E s \in S : \A r \in S : s <= r
  <2> HIDE DEF S
  <2> QED
    BY <1>2, <1>3, LeastExists
<1>5. \E s \in S : \A i \in DOMAIN g : s <= g[i].sample
  BY <1>4
<1>6. Sample(g) \in S
  BY <1>5 DEF Sample
<1> QED
  BY <1>2, <1>6

(* The value of a tag is that of its place, whatever is asked with it. *)
LEMMA ExtFacts ==
    ASSUME NEW t \in Rows
    PROVE  /\ Ext(t, 1) \in Requests /\ Ext(t, 1).number > 0
           /\ Own(t).read = FTable[C_F_Index(t)].read
           /\ Own(t).address = (t.number + FTable[C_F_Index(t)].offset) % WordRange
           /\ Own(t).type = IF FTable[C_F_Index(t)].read \in Bits THEN "BIT"
                                                                  ELSE FTable[C_F_Index(t)].type
           /\ Own(t) = [read |-> Own(t).read, address |-> Own(t).address, type |-> Own(t).type]
<1> DEFINE e == FTable[C_F_Index(t)]
           number == IF DataSize(e.type) > 2 THEN 2 * 1 ELSE 1
           req == ReadRequest(t, number, e.type)
<1>1. e.type \in Types /\ DataSize(e.type) \in {1, 2, 4}
  BY RowEntry, FTableFacts DEF Sound
<1>2. number \in Nat /\ number > 0
  BY <1>1
<1>3. Ext(t, 1) = req
  BY DEF Ext
<1>4. e.type # "UNK" /\ e.type \in Types \union {"UNK"}
  BY <1>1 DEF Types
<1> HIDE DEF number, e
<1>5. /\ req \in Requests /\ req.number = number /\ req.type = e.type /\ req.read = e.read
      /\ req.address = (t.number + e.offset) % WordRange
  BY <1>2, <1>4, RequestType DEF e
<1> HIDE DEF req
<1>6. req.address \in Nat
  BY <1>5 DEF Requests
<1>7. ~ 0 >= req.number
  BY <1>2, <1>5
<1>8. ValueAt(req, 0) = [read |-> e.read, address |-> (t.number + e.offset) % WordRange,
                         type |-> IF e.read \in Bits THEN "BIT" ELSE e.type]
  <2>1. req.address + (IF req.type \in {"DINT", "UDINT", "REAL"} THEN 2 * 0 ELSE 0) = req.address
    BY <1>6
  <2> QED
    BY <2>1, <1>4, <1>5, <1>7 DEF ValueAt
<1>9. Own(t) = ValueAt(req, 0)
  BY <1>3 DEF Own
<1> QED
  BY <1>2, <1>3, <1>5, <1>8, <1>9 DEF e

(* The hypotheses about sizes: the addresses of the device fit in a word,  *)
(* and a packet in a request (50 addresses and the element behind them).   *)
Sizes == Registers <= WordRange /\ MaxEltByPacket + 4 <= 125

(* What the logger relies on of an item. *)
GoodItem(it) ==
    /\ it.tags \in Seq(Rows) /\ Len(it.tags) > 0
    /\ it.sample \in 1 .. MAX_SAMPLE
    /\ it.req \in Requests
    /\ \A k \in 1 .. Len(it.tags) : ValueAt(it.req, Index(it, it.tags[k])) \in Places
    /\ Sizes /\ Alike(it) /\ Fits(it.req) =>
         \A k \in 1 .. Len(it.tags) :
            ValueAt(it.req, Index(it, it.tags[k])) = Own(it.tags[k])

(* Tags in the order of their addresses, none too far from the first, are  *)
(* served by one item.                                                     *)
LEMMA ItemIsGood ==
    ASSUME NEW g \in Seq(Rows), Len(g) > 0,
           \A i, j \in 1 .. Len(g) : i < j => g[i].number <= g[j].number,
           \A i \in 1 .. Len(g) : g[i].number <= g[1].number + MaxEltByPacket
    PROVE  GoodItem(Item(g))
<1> DEFINE it == Item(g)
           t == g[1]
           e == FTable[C_F_Index(t)]
           z == g[Len(g)]
           ix(k) == g[k].number - t.number
<1>1. /\ Len(g) \in Nat /\ \A k \in 1 .. Len(g) : g[k] \in Rows /\ g[k].number \in Nat
      /\ 1 \in 1 .. Len(g) /\ Len(g) \in 1 .. Len(g)
  BY Elements, RowType
<1>2. it.tags = g /\ it.packet = (Len(g) > 1) /\ it.sample = Sample(g)
  BY DEF Item
<1>3. it.req = IF Len(g) > 1 THEN Raw(t, NumElt(g)) ELSE Ext(t, 1)
  BY DEF Item
<1>4. Sample(g) \in 1 .. MAX_SAMPLE
  BY SampleType
<1>5. t \in Rows /\ z \in Rows /\ t.number \in Nat /\ z.number \in Nat /\ C_F_Index(t) \in Entries
  BY <1>1, RowEntry
<1>6. /\ e.type \in Types /\ DataSize(e.type) \in {1, 2, 4} /\ MaxNumber(e.read) \in {125, 2000}
      /\ e.type = "BYTE" <=> e.read \in Bits
      /\ t.number + e.offset \in Nat /\ e.offset \in Int
  BY <1>5, FTableFacts, RowAddress DEF Sound
<1>7. NumElt(g) = z.number - t.number + DataSize(e.type)
  BY DEF NumElt, Last
<1>8. /\ t.number <= z.number /\ z.number <= t.number + MaxEltByPacket
      /\ \A k \in 1 .. Len(g) : t.number <= g[k].number /\ g[k].number <= z.number
  <2>1. \A k \in 1 .. Len(g) : t.number <= g[k].number /\ g[k].number <= z.number
    <3> TAKE k \in 1 .. Len(g)
    <3>1. k = 1 \/ 1 < k
      BY <1>1
    <3>2. k = Len(g) \/ k < Len(g)
      BY <1>1
    <3>3. t.number <= g[k].number
      BY <1>1, <3>1
    <3>4. g[k].number <= z.number
      BY <1>1, <3>2
    <3> QED
      BY <3>3, <3>4
  <2>2. z.number <= t.number + MaxEltByPacket
    BY <1>1
  <2>3. t.number <= z.number
    <3> HIDE DEF t
    <3> QED
      BY <1>1, <2>1
  <2> QED
    BY <2>1, <2>2, <2>3
<1>9. /\ z.number - t.number \in Nat /\ z.number - t.number <= MaxEltByPacket
      /\ \A k \in 1 .. Len(g) :
           ix(k) \in Nat /\ ix(k) <= z.number - t.number /\ g[k].number = t.number + ix(k)
  <2> HIDE DEF t, z
  <2> QED
    BY <1>1, <1>5, <1>8, Parameters
<1>10. \A k \in 1 .. Len(g) : Index(it, g[k]) = IF Len(g) > 1 THEN ix(k) ELSE 0
  BY <1>2 DEF Index
<1> HIDE DEF it, t, e, z, ix
<1>11. CASE Len(g) > 1
  <2> DEFINE req == Raw(t, NumElt(g))
  <2>1. NumElt(g) \in Nat /\ NumElt(g) > z.number - t.number /\ NumElt(g) <= MaxEltByPacket + 4
    BY <1>6, <1>7, <1>9, Parameters
  <2>2. /\ req \in Requests /\ req.number = NumElt(g) /\ req.type = "UNK" /\ req.read = e.read
        /\ req.address = (t.number + e.offset) % WordRange
        /\ req.asked = Smaller(NumElt(g), MaxNumber(e.read))
    BY <1>5, <2>1, RequestType DEF Raw, e
  <2> HIDE DEF req
  <2>3. it.req = req
    BY <1>3, <1>11 DEF req
  <2>4. \A k \in 1 .. Len(g) : Index(it, g[k]) = ix(k) /\ ix(k) \in Nat /\ ix(k) < req.number
    BY <1>9, <1>10, <1>11, <2>1, <2>2
  <2>5. \A k \in 1 .. Len(g) : ValueAt(req, ix(k)) \in Places
    BY <2>2, <2>4, ValueType
  <2>6. ASSUME Sizes, Alike(it), Fits(req), NEW k \in 1 .. Len(g)
        PROVE  ValueAt(req, ix(k)) = Own(g[k])
    <3>1. /\ C_F_Index(g[k]) = C_F_Index(t) /\ e.type \in {"BYTE", "REAL"}
      <4>1. it.packet /\ DOMAIN g = 1 .. Len(g)
        BY <1>2, <1>11, Elements
      <4> QED
        BY <1>2, <2>6, <4>1 DEF Alike, t, e
    <3>2. req.asked = NumElt(g)
      BY <1>6, <2>1, <2>2, <2>6, Parameters DEF Smaller, Sizes
    <3>3. req.address \in Nat /\ req.address + NumElt(g) <= WordRange
      BY <2>2, <2>6, <3>2, Parameters, <2>1 DEF Fits, Sizes, Requests
    <3>4. ix(k) \in Nat /\ ix(k) < NumElt(g) /\ g[k].number = t.number + ix(k)
      BY <1>9, <2>2, <2>4
    <3>5. (g[k].number + e.offset) % WordRange = req.address + ix(k)
      <4> DEFINE n == t.number + e.offset
                 x == ix(k)
      <4>1. n \in Nat /\ x \in Nat /\ WordRange \in Nat \ {0} /\ (n % WordRange) + x < WordRange
        BY <1>6, <2>1, <2>2, <3>3, <3>4, Parameters
      <4>2. g[k].number + e.offset = n + x
        BY <1>5, <1>6, <3>4
      <4> HIDE DEF n, x
      <4>3. (n + x) % WordRange = (n % WordRange) + x
        BY <4>1, RemainderOfSum
      <4> QED
        BY <2>2, <4>2, <4>3 DEF n, x
    <3>6. /\ Own(g[k]).read = e.read /\ Own(g[k]).address = req.address + ix(k)
          /\ Own(g[k]).type = IF e.read \in Bits THEN "BIT" ELSE e.type
          /\ Own(g[k]) = [read |-> Own(g[k]).read, address |-> Own(g[k]).address, type |-> Own(g[k]).type]
      BY <1>1, <3>1, <3>5, ExtFacts DEF e
    <3>7. e.read \in Bits \/ e.type = "REAL"
      BY <1>6, <3>1
    <3>8. ~ ix(k) >= req.number
      BY <2>1, <2>2, <3>4
    <3>9. ValueAt(req, ix(k)) = [read |-> e.read, address |-> req.address + ix(k),
                                 type |-> IF e.read \in Bits THEN "BIT" ELSE "REAL"]
      BY <2>2, <3>8 DEF ValueAt
    <3> QED
      BY <3>6, <3>7, <3>9
  <2>7. \A k \in 1 .. Len(g) : ValueAt(it.req, Index(it, g[k])) = ValueAt(req, ix(k))
    BY <2>3, <2>4
  <2>8. Sizes /\ Alike(it) /\ Fits(it.req) =>
          \A k \in 1 .. Len(g) : ValueAt(it.req, Index(it, g[k])) = Own(g[k])
    BY <2>3, <2>6, <2>7
  <2>9. \A k \in 1 .. Len(g) : ValueAt(it.req, Index(it, g[k])) \in Places
    BY <2>5, <2>7
  <2> QED
    BY <1>2, <1>4, <2>2, <2>3, <2>8, <2>9 DEF GoodItem, it
<1>12. CASE ~ Len(g) > 1
  <2>1. Len(g) = 1 /\ it.req = Ext(t, 1)
    <3>1. Len(g) = 1
      <4>1. \A n \in Nat : n > 0 /\ ~ n > 1 => n = 1
        OBVIOUS
      <4>2. Len(g) \in Nat
        BY <1>1
      <4> HIDE DEF t
      <4> QED
        BY <1>12, <4>1, <4>2
    <3> QED
      BY <1>12, <1>3, <3>1
  <2>2. Ext(t, 1) \in Requests /\ Ext(t, 1).number > 0
    BY <1>5, ExtFacts
  <2>3. ValueAt(Ext(t, 1), 0) \in Places
    <3>1. Ext(t, 1).number \in Nat /\ 0 < Ext(t, 1).number
      BY <2>2 DEF Requests
    <3> QED
      BY <2>2, <3>1, ValueType
  <2>4. \A k \in 1 .. Len(g) : Index(it, g[k]) = 0 /\ g[k] = t
    BY <1>10, <1>12, <2>1 DEF t
  <2>5. ValueAt(Ext(t, 1), 0) = Own(t)
    BY DEF Own
  <2> QED
    BY <1>2, <1>4, <2>1, <2>2, <2>3, <2>4, <2>5 DEF GoodItem, it
<1> QED
  BY <1>11, <1>12 DEF it

(* What Optimise_Plc makes of the tags of a PLC: good items, in which each *)
(* tag has one place.                                                      *)
Distinct(tags) == \A i, j \in 1 .. Len(tags) : tags[i] = tags[j] => i = j

At(its, n, k, t) == k \in 1 .. Len(its[n].tags) /\ its[n].tags[k] = t

GoodItems(tags, its) ==
    /\ Len(its) \in 0 .. Len(tags) /\ DOMAIN its = 1 .. Len(its)
    /\ its = <<>> \/ 1 \in DOMAIN its
    /\ \A n \in 1 .. Len(its) : GoodItem(its[n])
    /\ \A n \in 1 .. Len(its) : \A k \in 1 .. Len(its[n].tags) :
          k <= Len(tags) /\ \E i \in 1 .. Len(tags) : its[n].tags[k] = tags[i]
    /\ \A i \in 1 .. Len(tags) : \E n \in 1 .. Len(its), k \in 1 .. Len(tags) :
          /\ At(its, n, k, tags[i])
          /\ \A m \in 1 .. Len(its), l \in 1 .. Len(tags) :
                At(its, m, l, tags[i]) => m = n /\ l = k

LEMMA OptimiseIsGood ==
    ASSUME NEW tags \in Seq(Rows), Distinct(tags)
    PROVE  GoodItems(tags, Optimise(tags))
<1> DEFINE s == Sorted(tags)
           its == Optimise(tags)
           N == Len(tags)
<1>1. s \in Seq(Rows) /\ Len(s) = N /\ N \in Nat /\ DOMAIN s = 1 .. N /\ DOMAIN tags = 1 .. N
  BY SortedIsOrder, Elements
<1>2. \A i, j \in 1 .. N : i < j => s[i].number <= s[j].number
  BY SortedIsOrder
<1>3. \A j \in 1 .. N : s[j] \in Rows /\ s[j].number \in Nat
  BY <1>1, Elements, RowType
<1>4. PICK f \in Bijection(1 .. N, 1 .. N) : \A i \in 1 .. N : s[i] = tags[f[i]]
  BY SortedIsOrder
<1>5. /\ \A i \in 1 .. N : f[i] \in 1 .. N
      /\ \A i, j \in 1 .. N : f[i] = f[j] => i = j
      /\ \A i \in 1 .. N : \E j \in 1 .. N : f[j] = i
  BY <1>4 DEF Bijection, Injection, Surjection, IsInjective
<1>6. PICK M \in 0 .. N : \E h \in Bijection(1 .. M, Btags(s)) :
         /\ its \in Seq({Item(Group(s, b)) : b \in Btags(s)}) /\ Len(its) = M
         /\ \A n \in 1 .. M : its[n] = Item(Group(s, h[n]))
  BY ItemsAreGroups
<1>7. PICK h \in Bijection(1 .. M, Btags(s)) :
         /\ its \in Seq({Item(Group(s, b)) : b \in Btags(s)}) /\ Len(its) = M
         /\ \A n \in 1 .. M : its[n] = Item(Group(s, h[n]))
  BY <1>6
<1>8. DOMAIN its = 1 .. M
  BY <1>7, Elements
<1>9. /\ \A n \in 1 .. M : h[n] \in Btags(s)
      /\ \A n, m \in 1 .. M : h[n] = h[m] => n = m
      /\ \A b \in Btags(s) : \E n \in 1 .. M : h[n] = b
  BY <1>7 DEF Bijection, Injection, Surjection, IsInjective
<1>10. Btags(s) \in SUBSET (1 .. N)
  BY <1>1 DEF Btags
<1> HIDE DEF s, its, N
<1> DEFINE g(n) == Group(s, h[n])
<1>11. ASSUME NEW n \in 1 .. M
       PROVE  /\ h[n] \in 1 .. N /\ its[n].tags = g(n) /\ g(n) \in Seq(Rows)
              /\ its[n] = Item(g(n))
              /\ \E z \in h[n] .. N :
                   /\ Len(g(n)) = z - h[n] + 1
                   /\ \A k \in 1 .. z - h[n] + 1 : g(n)[k] = s[h[n] + k - 1]
                   /\ \A j \in 1 .. N : Btag(s)[j] = h[n] <=> j \in h[n] .. z
  <2>1. h[n] \in Btags(s) /\ h[n] \in 1 .. N
    BY <1>9, <1>10
  <2>2. its[n] = Item(g(n))
    BY <1>7
  <2>3. its[n].tags = g(n)
    BY <2>2 DEF Item
  <2>4. \E z \in h[n] .. Len(s) :
            /\ g(n) \in Seq(Rows) /\ Len(g(n)) = z - h[n] + 1
            /\ \A k \in 1 .. z - h[n] + 1 : g(n)[k] = s[h[n] + k - 1]
            /\ \A j \in 1 .. Len(s) : Btag(s)[j] = h[n] <=> j \in h[n] .. z
    BY <1>1, <2>1, GroupFacts
  <2> HIDE DEF g
  <2> QED
    BY <1>1, <2>1, <2>2, <2>3, <2>4
<1> HIDE DEF g
\* Where the k-th of the n-th item is in s.
<1>12. ASSUME NEW n \in 1 .. M, NEW k \in 1 .. Len(g(n))
       PROVE  /\ h[n] + k - 1 \in 1 .. N /\ g(n)[k] = s[h[n] + k - 1]
              /\ Btag(s)[h[n] + k - 1] = h[n] /\ k \in 1 .. N
  <2>1. PICK z \in h[n] .. N :
            /\ Len(g(n)) = z - h[n] + 1
            /\ \A i \in 1 .. z - h[n] + 1 : g(n)[i] = s[h[n] + i - 1]
            /\ \A j \in 1 .. N : Btag(s)[j] = h[n] <=> j \in h[n] .. z
    BY <1>11
  <2>2. h[n] \in 1 .. N /\ N \in Nat
    BY <1>1, <1>11
  <2>3. h[n] + k - 1 \in h[n] .. z /\ h[n] + k - 1 \in 1 .. N /\ k \in 1 .. N
    BY <2>1, <2>2
  <2> QED
    BY <2>1, <2>3
<1>13. ASSUME NEW n \in 1 .. M PROVE GoodItem(its[n])
  <2> DEFINE G == g(n)
  <2>1. PICK z \in h[n] .. N :
            /\ Len(G) = z - h[n] + 1
            /\ \A i \in 1 .. z - h[n] + 1 : G[i] = s[h[n] + i - 1]
            /\ \A j \in 1 .. N : Btag(s)[j] = h[n] <=> j \in h[n] .. z
    BY <1>11
  <2>2. h[n] \in 1 .. N /\ N \in Nat /\ G \in Seq(Rows)
    BY <1>1, <1>11
  <2>3. Len(G) > 0 /\ 1 \in 1 .. Len(G) /\ Len(G) \in Nat
    BY <2>1, <2>2
  <2>4. \A k \in 1 .. Len(G) : /\ h[n] + k - 1 \in 1 .. N /\ G[k] = s[h[n] + k - 1]
                              /\ Btag(s)[h[n] + k - 1] = h[n]
    BY <1>12
  <2> HIDE DEF G
  <2>5. ASSUME NEW i \in 1 .. Len(G), NEW j \in 1 .. Len(G), i < j
        PROVE  G[i].number <= G[j].number
    <3>1. h[n] + i - 1 < h[n] + j - 1
      BY <2>2, <2>3, <2>5
    <3> QED
      BY <1>2, <2>4, <3>1
  <2>6. ASSUME NEW i \in 1 .. Len(G) PROVE G[i].number <= G[1].number + MaxEltByPacket
    <3> DEFINE a == h[n] + i - 1
    <3>1. a \in 1 .. N /\ G[i] = s[a] /\ Btag(s)[a] = h[n]
      BY <2>4
    <3>2. G[1] = s[h[n]]
      <4>1. h[n] + 1 - 1 = h[n]
        BY <2>2
      <4> QED
        BY <2>3, <2>4, <4>1
    <3>3. a \in 1 .. Len(s)
      BY <1>1, <3>1
    <3> HIDE DEF a
    <3>4. h[n] = a \/ Near(s[h[n]], s[a])
      BY <1>1, <3>1, <3>3, BtagFacts
    <3>5. s[a].number \in Nat /\ s[h[n]].number \in Nat /\ MaxEltByPacket \in Nat
      BY <1>3, <2>2, <3>1, Parameters
    <3> QED
      BY <3>1, <3>2, <3>4, <3>5 DEF Near
  <2>7. GoodItem(Item(G))
    BY <2>2, <2>3, <2>5, <2>6, ItemIsGood
  <2> QED
    BY <1>11, <2>7 DEF G
<1>14. ASSUME NEW n \in 1 .. M, NEW k \in 1 .. Len(its[n].tags)
       PROVE  k <= N /\ \E i \in 1 .. N : its[n].tags[k] = tags[i]
  <2>1. k \in 1 .. Len(g(n)) /\ its[n].tags[k] = g(n)[k]
    BY <1>11
  <2>2. k \in 1 .. N /\ h[n] + k - 1 \in 1 .. N /\ g(n)[k] = s[h[n] + k - 1]
    BY <1>12, <2>1
  <2>3. s[h[n] + k - 1] = tags[f[h[n] + k - 1]] /\ f[h[n] + k - 1] \in 1 .. N
    BY <1>4, <1>5, <2>2
  <2>4. k <= N
    BY <1>1, <2>2
  <2> QED
    BY <2>1, <2>2, <2>3, <2>4
<1>15. ASSUME NEW i \in 1 .. N
       PROVE  \E n \in 1 .. M, k \in 1 .. N :
                 /\ At(its, n, k, tags[i])
                 /\ \A m \in 1 .. M, l \in 1 .. N : At(its, m, l, tags[i]) => m = n /\ l = k
  <2>1. PICK j \in 1 .. N : f[j] = i
    BY <1>5
  <2>2. s[j] = tags[i]
    BY <1>4, <2>1
  <2> DEFINE b == Btag(s)[j]
  <2>3. b \in Btags(s)
    BY <1>1, BtagIsOne
  <2>4. PICK n \in 1 .. M : h[n] = b
    BY <1>9, <2>3
  <2>5. PICK z \in h[n] .. N :
            /\ Len(g(n)) = z - h[n] + 1
            /\ \A k \in 1 .. z - h[n] + 1 : g(n)[k] = s[h[n] + k - 1]
            /\ \A x \in 1 .. N : Btag(s)[x] = h[n] <=> x \in h[n] .. z
    BY <1>11
  <2>6. j \in h[n] .. z
    BY <2>4, <2>5
  <2>7. h[n] \in 1 .. N /\ its[n].tags = g(n)
    BY <1>11
  <2> DEFINE k == j - h[n] + 1
  <2>8. k \in 1 .. N /\ k \in 1 .. Len(g(n)) /\ h[n] + k - 1 = j /\ k \in 1 .. z - h[n] + 1
    BY <1>1, <2>5, <2>6, <2>7
  <2>9. At(its, n, k, tags[i])
    <3> HIDE DEF k
    <3> QED
      BY <2>2, <2>5, <2>7, <2>8 DEF At
  <2>10. ASSUME NEW m \in 1 .. M, NEW l \in 1 .. N, At(its, m, l, tags[i])
         PROVE  m = n /\ l = k
    <3>1. l \in 1 .. Len(g(m)) /\ g(m)[l] = tags[i]
      BY <1>11, <2>10 DEF At
    <3> DEFINE a == h[m] + l - 1
    <3>2. a \in 1 .. N /\ g(m)[l] = s[a] /\ Btag(s)[a] = h[m]
      BY <1>12, <3>1
    <3>3. h[m] \in 1 .. N
      BY <1>11
    <3>4. a = h[m] + l - 1
      OBVIOUS
    <3> HIDE DEF a
    <3>5. tags[f[a]] = tags[f[j]] /\ f[a] \in 1 .. N /\ f[j] \in 1 .. N
      BY <1>4, <1>5, <2>1, <2>2, <3>1, <3>2
    <3>6. a = j
      BY <1>5, <3>2, <3>5 DEF Distinct, N
    <3>7. m = n
      BY <1>9, <2>4, <3>2, <3>6
    <3> QED
      BY <2>7, <3>3, <3>4, <3>6, <3>7
  <2> HIDE DEF k, b
  <2> QED
    BY <2>8, <2>9, <2>10
<1>16. M <= N /\ M \in Nat
  BY <1>1
<1>17. Len(its) = M
  BY <1>7
<1>18. its = <<>> \/ 1 \in DOMAIN its
  <2>1. Len(its) = 0 => its = <<>>
    BY <1>7, EmptySeq
  <2> QED
    BY <1>8, <1>16, <1>17, <2>1
<1> QED
  BY <1>8, <1>13, <1>14, <1>15, <1>16, <1>17, <1>18 DEF GoodItems, N, its

-----------------------------------------------------------------------------
(***************************************************************************)
(* The states.                                                             *)
(***************************************************************************)

\* When a request is made, none that has not been answered yet on the same
\* connection has its transaction id: an id comes back only after IdRange
\* further requests.
IdsAreFree == pc = "item" => \A i \in 1 .. Len(requests[elt]) : requests[elt][i].id # NewId

Held ==
    /\ plant \in Plants
    /\ DOMAIN items = PLCs /\ \A p \in PLCs : items[p] = <<>> \/ GoodItems(plant[p], items[p])
    /\ DOMAIN age = PLCs /\ \A p \in PLCs : age[p] \in [DOMAIN items[p] -> 0 .. Never]

Shape == Held /\ TypeOK

Ids == 0 .. IdRange - 1
Asked    == [id : Ids, req : Requests]
Answered == [id : Ids, req : Requests, exception : BOOLEAN]

\* What is on the way is known.
Calls ==
    /\ requests \in [PLCs -> Seq(Asked)] /\ replies \in [PLCs -> Seq(Answered)]
    /\ \A p \in PLCs : \A i \in 1 .. Len(replies[p]) :
          replies[p][i].exception <=> ~ Fits(replies[p][i].req)
    /\ pc = "wait" => call = [id |-> Transaction_Id, req |-> item.req]

UnderWay(p) == {requests[p][i] : i \in 1 .. Len(requests[p])}
               \union {replies[p][i] : i \in 1 .. Len(replies[p])}

\* What has the id of the call on the connection it waits at is of the call.
Recognised ==
    pc = "wait" => \A r \in UnderWay(elt) : r.id = call.id => r.req = call.req

Values ==
    /\ DOMAIN stored = AllTags
    /\ pc = "start" => \A t \in AllTags : stored[t] = None
    /\ StoredIsOfTag

LEMMA PlantFacts ==
    ASSUME NEW test \in Plants
    PROVE  /\ Len(test) \in Nat /\ DOMAIN test = 1 .. Len(test) /\ 1 \in DOMAIN test
           /\ \A p \in DOMAIN test : test[p] \in Seq(Rows) /\ Distinct(test[p])
           /\ DOMAIN Optimised[test] = DOMAIN test
           /\ \A p \in DOMAIN test : GoodItems(test[p], Optimised[test][p])
<1>1. test \in Seq(Seq(Rows)) /\ test # <<>>
  BY MdbAssumption
<1>2. Len(test) \in Nat /\ DOMAIN test = 1 .. Len(test) /\ \A p \in 1 .. Len(test) : test[p] \in Seq(Rows)
  BY <1>1, Elements
<1>3. 1 \in DOMAIN test
  BY <1>1, <1>2, EmptySeq
<1>4. ASSUME NEW p \in DOMAIN test PROVE Distinct(test[p])
  <2>1. test[p] \in Seq(Rows)
    BY <1>2
  <2>2. DOMAIN test[p] = 1 .. Len(test[p])
    BY <2>1, Elements
  <2>3. \A i \in DOMAIN test[p], j \in DOMAIN test[p] : test[p][i] = test[p][j] => i = j
    BY MdbAssumption
  <2> QED
    BY <2>2, <2>3 DEF Distinct
<1>5. ASSUME NEW p \in DOMAIN test PROVE GoodItems(test[p], Optimise(test[p]))
  BY <1>2, <1>4, OptimiseIsGood
<1> QED
  BY <1>2, <1>3, <1>4, <1>5 DEF Optimised

LEMMA ItemNow ==
    ASSUME Shape, pc \in {"item", "wait"}
    PROVE  /\ elt \in PLCs /\ socket[elt]
           /\ GoodItems(plant[elt], items[elt]) /\ GoodItem(item)
           /\ elt2 \in 1 .. Len(items[elt]) /\ elt2 \in DOMAIN items[elt] /\ Len(items[elt]) \in Nat
           /\ age[elt][elt2] \in 0 .. Never
           /\ item.sample \in 1 .. MAX_SAMPLE /\ item.req \in Requests
<1>1. elt \in PLCs /\ elt2 \in DOMAIN items[elt] /\ socket[elt]
  BY DEF Shape, TypeOK
<1>2. DOMAIN items[elt] # {}
  BY <1>1
<1>3. items[elt] # <<>>
  BY <1>2
<1>4. GoodItems(plant[elt], items[elt]) /\ age[elt] \in [DOMAIN items[elt] -> 0 .. Never]
  BY <1>1, <1>3 DEF Shape, Held
<1>5. elt2 \in 1 .. Len(items[elt]) /\ GoodItem(item)
  BY <1>1, <1>4 DEF GoodItems, item
<1>6. Len(items[elt]) \in Nat
  <2>1. Len(plant[elt]) \in Nat
    BY <1>1, PlantFacts, Elements DEF Shape, Held, PLCs
  <2> QED
    BY <1>4, <2>1 DEF GoodItems
<1> QED
  BY <1>1, <1>4, <1>5, <1>6 DEF GoodItem

LEMMA InitShape == Init => Shape
<1> SUFFICES ASSUME Init PROVE Shape
  OBVIOUS
<1> USE DEF Init, Quiet, PLCs
<1>1. 1 \in DOMAIN plant
  BY PlantFacts
<1>2. Held
  BY DEF Held
<1>3. TypeOK
  <2>1. socket \in [PLCs -> BOOLEAN]
    OBVIOUS
  <2>2. next \in [PLCs -> 0 .. Wait + MAX_SAMPLE]
    BY Parameters
  <2>3. DOMAIN age = PLCs /\ DOMAIN items = PLCs
    OBVIOUS
  <2>4. \A p \in PLCs : DOMAIN age[p] = DOMAIN items[p] /\ \A n \in DOMAIN age[p] : age[p][n] \in 0 .. Never
    OBVIOUS
  <2>5. now \in 0 .. Wait
    BY Parameters
  <2>6. Transaction_Id \in 0 .. IdRange - 1 /\ faults \in 0 .. MaxFaults
    BY Parameters
  <2> QED
    BY <1>1, <2>1, <2>2, <2>4, <2>5, <2>6 DEF TypeOK
<1> QED
  BY <1>2, <1>3 DEF Shape

\* Time passes.
LEMMA SecondType ==
    ASSUME Shape, Second, plant' = plant, items' = items
    PROVE  /\ next' \in [PLCs -> 0 .. Wait + MAX_SAMPLE] /\ now' \in 0 .. Wait
           /\ DOMAIN age' = PLCs /\ \A p \in PLCs : age'[p] \in [DOMAIN items[p] -> 0 .. Never]
<1>1. next \in [PLCs -> 0 .. Wait + MAX_SAMPLE] /\ now \in 0 .. Wait
  BY DEF Shape, TypeOK
<1>2. next' \in [PLCs -> 0 .. Wait + MAX_SAMPLE]
  <2>1. \A p \in PLCs : next[p] \in 0 .. Wait + MAX_SAMPLE
    BY <1>1
  <2>2. \A x \in 0 .. Wait + MAX_SAMPLE : (IF x = 0 THEN 0 ELSE x - 1) \in 0 .. Wait + MAX_SAMPLE
    BY Parameters
  <2>3. \A p \in PLCs : (IF next[p] = 0 THEN 0 ELSE next[p] - 1) \in 0 .. Wait + MAX_SAMPLE
    BY <2>1, <2>2
  <2> QED
    BY <2>3 DEF Second
<1>3. now' \in 0 .. Wait
  BY <1>1, Parameters DEF Second, Smaller
<1>4. ASSUME NEW p \in PLCs PROVE age'[p] \in [DOMAIN items[p] -> 0 .. Never]
  <2>1. age[p] \in [DOMAIN items[p] -> 0 .. Never]
    BY DEF Shape, Held
  <2>2. Long \in Nat
    BY Parameters DEF Long
  <2>3. \A x \in 0 .. Never : Older(x) \in 0 .. Never
    BY <2>2 DEF Older, Smaller, Never
  <2> QED
    BY <2>1, <2>3 DEF Second
<1>5. DOMAIN age' = PLCs
  BY DEF Second
<1> QED
  BY <1>2, <1>3, <1>4, <1>5

\* Where the next item leaves the loop.
LEMMA NextItemType ==
    ASSUME Shape, pc \in {"item", "wait"}, NextItem, plant' = plant, items' = items, elt' = elt,
           DOMAIN age' = PLCs, \A p \in PLCs : age'[p] \in [DOMAIN items[p] -> 0 .. Never]
    PROVE  /\ next' \in [PLCs -> 0 .. Wait + MAX_SAMPLE]
           /\ pc' \in {"item", "check"} /\ (pc' = "item" => elt2' \in DOMAIN items[elt] /\ elt2' = elt2 + 1)
<1>1. /\ elt \in PLCs /\ elt2 \in 1 .. Len(items[elt]) /\ elt2 \in DOMAIN items[elt]
      /\ Len(items[elt]) \in Nat /\ item.sample \in 1 .. MAX_SAMPLE
      /\ DOMAIN items[elt] = 1 .. Len(items[elt])
  BY ItemNow DEF GoodItems
<1>2. age'[elt][elt2] \in 0 .. Never
  BY <1>1
<1>3. next \in [PLCs -> 0 .. Wait + MAX_SAMPLE]
  BY DEF Shape, TypeOK
<1>4. next' \in [PLCs -> 0 .. Wait + MAX_SAMPLE]
  <2> DEFINE x == age'[elt][elt2]
             s == item.sample
             left == IF x < s THEN s - x ELSE 0
  <2>1. left \in Nat
    <3> x \in Nat /\ s \in Nat
      BY <1>1, <1>2, Parameters DEF Long, Never
    <3> HIDE DEF x, s
    <3> QED
      OBVIOUS
  <2>2. next' = [next EXCEPT ![elt] = Smaller(@, left)]
    BY DEF NextItem, Sooner
  <2> HIDE DEF left
  <2>3. Smaller(next[elt], left) \in 0 .. Wait + MAX_SAMPLE
    BY <1>1, <1>3, <2>1, Parameters DEF Smaller
  <2> QED
    BY <1>3, <2>2, <2>3
<1>5. /\ pc' \in {"item", "check"} /\ (pc' = "item" => elt2' \in DOMAIN items[elt] /\ elt2' = elt2 + 1)
  BY <1>1 DEF NextItem
<1> QED
  BY <1>4, <1>5

LEMMA ShapeStep == Shape /\ [Next]_vars => Shape'
<1> SUFFICES ASSUME Shape, [Next]_vars PROVE Shape'
  OBVIOUS
<1>1. Held /\ TypeOK
  BY DEF Shape
<1>2. /\ plant \in Plants /\ DOMAIN items = PLCs /\ DOMAIN age = PLCs
      /\ \A p \in PLCs : items[p] = <<>> \/ GoodItems(plant[p], items[p])
      /\ \A p \in PLCs : age[p] \in [DOMAIN items[p] -> 0 .. Never]
  BY <1>1 DEF Held
<1>3. /\ PLCs = 1 .. Len(plant) /\ Len(plant) \in Nat /\ 1 \in PLCs
      /\ Never \in Nat /\ Never \in 0 .. Never /\ 0 \in 0 .. Never
      /\ MAX_SAMPLE \in 0 .. Wait + MAX_SAMPLE /\ 0 \in 0 .. Wait
      /\ \A x \in 0 .. Wait : Wait - x \in 0 .. Wait + MAX_SAMPLE
  BY <1>2, PlantFacts, Parameters DEF PLCs, Long, Never
<1>4. /\ pc \in {"start", "round", "plc", "item", "wait", "check", "sleep", "ended"}
      /\ elt \in PLCs
      /\ pc \in {"item", "wait"} => elt2 \in DOMAIN items[elt] /\ socket[elt]
      /\ socket \in [PLCs -> BOOLEAN] /\ next \in [PLCs -> 0 .. Wait + MAX_SAMPLE]
      /\ now \in 0 .. Wait /\ Comm_err \in BOOLEAN /\ Read_Something \in BOOLEAN
      /\ terminated \in BOOLEAN /\ mistaken \in BOOLEAN
      /\ (call # None) <=> (pc = "wait")
      /\ Transaction_Id \in 0 .. IdRange - 1
      /\ faults \in 0 .. MaxFaults
  BY <1>1 DEF TypeOK
\* What a step has to keep.
<1>5. ASSUME Held',
             pc' \in {"start", "round", "plc", "item", "wait", "check", "sleep", "ended"},
             elt' \in PLCs',
             pc' \in {"item", "wait"} => elt2' \in DOMAIN items'[elt'] /\ socket'[elt'],
             socket' \in [PLCs' -> BOOLEAN], next' \in [PLCs' -> 0 .. Wait + MAX_SAMPLE],
             now' \in 0 .. Wait, Comm_err' \in BOOLEAN, Read_Something' \in BOOLEAN,
             terminated' \in BOOLEAN, mistaken' \in BOOLEAN,
             (call' # None) <=> (pc' = "wait"),
             Transaction_Id' \in 0 .. IdRange - 1, faults' \in 0 .. MaxFaults
      PROVE  Shape'
  <2>1. \A p \in PLCs' : DOMAIN age'[p] = DOMAIN items'[p]
                         /\ \A n \in DOMAIN age'[p] : age'[p][n] \in 0 .. Never
    BY <1>5 DEF Held
  <2>2. TypeOK'
    BY <1>5, <2>1 DEF TypeOK
  <2> QED
    BY <1>5, <2>2 DEF Shape
<1>6. plant' = plant => PLCs' = PLCs
  BY DEF PLCs
<1>7. plant' = plant /\ items' = items /\ age' = age => Held'
  BY <1>1 DEF Held, PLCs
<1>8. ASSUME Fault \/ Fine PROVE faults' \in 0 .. MaxFaults
  BY <1>4, <1>8, Parameters DEF Fault, Fine
<1>9. CASE Load
  <2>1. plant' = plant
    BY <1>9 DEF Load
  <2>2. DOMAIN items' = PLCs /\ \A p \in PLCs : items'[p] = <<>> \/ GoodItems(plant[p], items'[p])
    <3>1. DOMAIN Optimised[plant] = PLCs /\ \A p \in PLCs : GoodItems(plant[p], Optimised[plant][p])
      BY <1>2, PlantFacts DEF PLCs
    <3>2. \/ items' = Optimised[plant]
          \/ \E q \in PLCs : items' = [Optimised[plant] EXCEPT ![q] = <<>>]
      BY <1>9 DEF Load, GetTags
    <3> QED
      BY <3>1, <3>2
  <2>3. age' = [p \in PLCs |-> [n \in DOMAIN items'[p] |-> Never]]
    BY <1>9, <2>1 DEF Load, PLCs
  <2>4. DOMAIN age' = PLCs /\ \A p \in PLCs : age'[p] \in [DOMAIN items'[p] -> 0 .. Never]
    BY <1>3, <2>3
  <2>5. Held'
    BY <1>2, <1>6, <2>1, <2>2, <2>4 DEF Held
  <2>6. /\ pc' \in {"ended", "round"} /\ socket' \in [PLCs -> BOOLEAN] /\ elt' = elt /\ next' = next
        /\ now' = now /\ Comm_err' = Comm_err /\ Read_Something' = Read_Something
        /\ terminated' = terminated /\ mistaken' = mistaken /\ call' = call /\ pc = "start"
        /\ Transaction_Id' = Transaction_Id
    BY <1>4, <1>9 DEF Load, line
  <2>7. Fault \/ Fine
    BY <1>9 DEF Load, GetTags
  <2> QED
    BY <1>4, <1>5, <1>6, <1>8, <2>1, <2>5, <2>6, <2>7
<1>10. CASE Round
  <2>1. plant' = plant /\ pc = "round"
    BY <1>10 DEF Round
  <2>2. Held' /\ socket' \in [PLCs -> BOOLEAN]
    <3>1. CASE terminated
      <4>1. /\ items' = [p \in PLCs |-> <<>>] /\ age' = [p \in PLCs |-> <<>>]
            /\ socket' = [p \in PLCs |-> FALSE]
        BY <1>10, <3>1 DEF Round, FreeAll, KillAll
      <4> QED
        BY <1>2, <1>6, <2>1, <4>1 DEF Held
    <3>2. CASE ~ terminated
      BY <1>4, <1>7, <1>10, <2>1, <3>2 DEF Round
    <3> QED
      BY <3>1, <3>2
  <2>3. /\ pc' \in {"ended", "plc"} /\ elt' = 1 /\ next' = next
        /\ now' = now /\ Comm_err' = Comm_err /\ Read_Something' = Read_Something
        /\ terminated' = terminated /\ mistaken' = mistaken /\ call' = call
        /\ Transaction_Id' = Transaction_Id /\ faults' = faults
    BY <1>10 DEF Round, line
  <2> QED
    BY <1>3, <1>4, <1>5, <1>6, <2>1, <2>2, <2>3
<1>11. ASSUME pc = "plc" \/ pc = "check", GoOn
       PROVE  pc' \in {"sleep", "plc"} /\ elt' \in PLCs
  BY <1>3, <1>4, <1>11 DEF GoOn
<1>12. CASE NotYet
  <2>1. /\ plant' = plant /\ items' = items /\ age' = age /\ pc = "plc" /\ GoOn
        /\ socket' = socket /\ next' = next
        /\ now' = now /\ Comm_err' = Comm_err /\ Read_Something' = Read_Something
        /\ terminated' = terminated /\ mistaken' = mistaken /\ call' = call
        /\ Transaction_Id' = Transaction_Id /\ faults' = faults
    BY <1>12 DEF NotYet, line
  <2> QED
    BY <1>4, <1>5, <1>6, <1>7, <1>11, <2>1
<1>13. CASE NoSocket
  <2>1. /\ plant' = plant /\ items' = items /\ age' = age /\ pc = "plc" /\ GoOn
        /\ socket' = socket /\ next' = [next EXCEPT ![elt] = Wait - now]
        /\ now' = now /\ Comm_err' = Comm_err /\ Read_Something' = Read_Something
        /\ terminated' = terminated /\ mistaken' = mistaken /\ call' = call
        /\ Transaction_Id' = Transaction_Id /\ Fault
    BY <1>13 DEF NoSocket, line
  <2>2. next' \in [PLCs -> 0 .. Wait + MAX_SAMPLE]
    BY <1>3, <1>4, <2>1
  <2> QED
    BY <1>4, <1>5, <1>6, <1>7, <1>8, <1>11, <2>1, <2>2
<1>14. CASE Enter
  <2>1. /\ plant' = plant /\ items' = items /\ age' = age /\ pc = "plc" /\ elt' = elt
        /\ socket' = [socket EXCEPT ![elt] = TRUE] /\ next' = [next EXCEPT ![elt] = MAX_SAMPLE]
        /\ now' = 0 /\ Comm_err' \in BOOLEAN /\ Read_Something' \in BOOLEAN
        /\ terminated' = terminated /\ mistaken' = mistaken /\ call' = call
        /\ Transaction_Id' = Transaction_Id /\ faults' = faults /\ elt2' = 1
        /\ pc' = IF items[elt] = <<>> THEN "check" ELSE "item"
    BY <1>14 DEF Enter, BuildSocket, line
  <2>2. /\ next' \in [PLCs -> 0 .. Wait + MAX_SAMPLE] /\ socket' \in [PLCs -> BOOLEAN] /\ socket'[elt']
    BY <1>3, <1>4, <2>1
  <2>3. pc' = "item" => elt2' \in DOMAIN items'[elt']
    <3>1. SUFFICES ASSUME items[elt] # <<>> PROVE 1 \in DOMAIN items[elt]
      BY <2>1
    <3>2. GoodItems(plant[elt], items[elt])
      BY <1>2, <1>4, <3>1
    <3> QED
      BY <3>1, <3>2 DEF GoodItems
  <2>4. pc' \in {"check", "item"} /\ call' = None /\ now' \in 0 .. Wait /\ Held'
    BY <1>3, <1>4, <1>7, <2>1
  <2>5. /\ (pc' \in {"item", "wait"} => elt2' \in DOMAIN items'[elt'] /\ socket'[elt'])
        /\ ((call' # None) <=> (pc' = "wait"))
    BY <2>2, <2>3, <2>4
  <2>6. /\ elt' \in PLCs' /\ socket' \in [PLCs' -> BOOLEAN]
        /\ next' \in [PLCs' -> 0 .. Wait + MAX_SAMPLE]
    BY <1>4, <1>6, <2>1, <2>2
  <2>7. /\ terminated' \in BOOLEAN /\ mistaken' \in BOOLEAN
        /\ Transaction_Id' \in 0 .. IdRange - 1 /\ faults' \in 0 .. MaxFaults
    BY <1>4, <2>1
  <2>8. pc' \in {"start", "round", "plc", "item", "wait", "check", "sleep", "ended"}
    BY <2>4
  <2> QED
    BY <1>5, <2>1, <2>4, <2>5, <2>6, <2>7, <2>8
<1>15. CASE NotDue
  <2>1. /\ plant' = plant /\ items' = items /\ age' = age /\ pc = "item" /\ elt' = elt /\ NextItem
        /\ socket' = socket
        /\ now' = now /\ Comm_err' = Comm_err /\ Read_Something' = Read_Something
        /\ terminated' = terminated /\ mistaken' = mistaken /\ call' = call
        /\ Transaction_Id' = Transaction_Id /\ faults' = faults
    BY <1>15 DEF NotDue, line
  <2>2. /\ next' \in [PLCs -> 0 .. Wait + MAX_SAMPLE]
        /\ pc' \in {"item", "check"} /\ (pc' = "item" => elt2' \in DOMAIN items[elt])
    BY <1>2, <2>1, NextItemType
  <2>3. Held' /\ call' = None
    BY <1>4, <1>7, <2>1
  <2> QED
    BY <1>4, <1>5, <1>6, <2>1, <2>2, <2>3
<1>16. CASE Ask
  <2>1. /\ plant' = plant /\ items' = items /\ age' = age /\ pc = "item" /\ elt' = elt
        /\ elt2' = elt2 /\ socket' = socket /\ next' = next /\ pc' = "wait"
        /\ now' = now /\ Comm_err' = Comm_err /\ Read_Something' = TRUE
        /\ terminated' = terminated /\ mistaken' = mistaken
        /\ call' = [id |-> NewId, req |-> item.req]
        /\ Transaction_Id' = NewId /\ faults' = faults
    BY <1>16 DEF Ask, Send
  <2>2. NewId \in 0 .. IdRange - 1
    <3>1. IdRange \in Nat \ {0}
      BY Parameters
    <3>2. NewId = IF Transaction_Id = IdRange - 1 THEN 0 ELSE Transaction_Id + 1
      BY <1>4, <3>1, NextRemainder DEF NewId
    <3> QED
      BY <1>4, <3>1, <3>2
  <2>3. call' # None
    <3>1. NewId \in Nat /\ item.req \in Requests
      BY <2>1, <2>2, ItemNow
    <3>2. call' \in [id : Nat, req : Requests]
      BY <2>1, <3>1
    <3> QED
      BY <3>2, MBAssumption
  <2>4. Held'
    BY <1>7, <2>1
  <2> QED
    BY <1>4, <1>5, <1>6, <2>1, <2>2, <2>3, <2>4
\* The age of the item of a reply.
<1>17. ASSUME pc = "wait", plant' = plant, items' = items,
              age' = age \/ age' = [age EXCEPT ![elt][elt2] = 0]
                         \/ age' = [age EXCEPT ![elt][elt2] = IF item.packet THEN 0 ELSE @]
       PROVE  /\ DOMAIN age' = PLCs /\ \A p \in PLCs : age'[p] \in [DOMAIN items[p] -> 0 .. Never]
              /\ Held'
  <2>1. \A p \in PLCs : age[p] \in [DOMAIN items[p] -> 0 .. Never]
    BY <1>2
  <2>2. elt \in PLCs /\ elt2 \in DOMAIN items[elt] /\ age[elt][elt2] \in 0 .. Never
    BY <1>17, ItemNow
  <2>3. DOMAIN age' = PLCs /\ \A p \in PLCs : age'[p] \in [DOMAIN items[p] -> 0 .. Never]
    <3>1. CASE age' = age
      BY <1>2, <3>1
    <3>2. CASE age' # age
      <4>1. PICK x \in 0 .. Never : age' = [age EXCEPT ![elt][elt2] = x]
        <5>1. CASE age' = [age EXCEPT ![elt][elt2] = 0]
          BY <1>3, <5>1
        <5>2. CASE age' = [age EXCEPT ![elt][elt2] = IF item.packet THEN 0 ELSE @]
          <6>1. CASE item.packet
            BY <1>3, <5>2, <6>1
          <6>2. CASE ~ item.packet
            BY <2>2, <5>2, <6>2
          <6> QED
            BY <6>1, <6>2
        <5> QED
          BY <1>17, <3>2, <5>1, <5>2
      <4> QED
        BY <1>2, <2>1, <2>2, <4>1
    <3> QED
      BY <3>1, <3>2
  <2>4. Held'
    BY <1>2, <1>6, <1>17, <2>3 DEF Held
  <2> QED
    BY <2>3, <2>4
<1>18. CASE Take
  <2>1. /\ plant' = plant /\ items' = items /\ pc = "wait" /\ elt' = elt /\ NextItem
        /\ socket' = socket /\ now' = now /\ Read_Something' = Read_Something
        /\ terminated' = terminated /\ call' = None
        /\ Transaction_Id' = Transaction_Id
    BY <1>18 DEF Take, Receive
  <2> DEFINE r == Head(replies[elt])
             o == Outcome(r)
  <2>2. TakeData \/ (TakeError(o) /\ Fine)
    BY <1>18 DEF Take
  <2>3. mistaken' = (mistaken \/ (o = "data" /\ r.req # item.req))
    BY <1>18 DEF Take
  <2>4. mistaken' \in BOOLEAN
    BY <2>3
  <2> HIDE DEF o, r
  <2>5. /\ Comm_err' \in BOOLEAN /\ (Fault \/ Fine)
        /\ (age' = age \/ age' = [age EXCEPT ![elt][elt2] = 0]
                      \/ age' = [age EXCEPT ![elt][elt2] = IF item.packet THEN 0 ELSE @])
    <3>1. CASE TakeData
      BY <3>1 DEF TakeData
    <3>2. CASE TakeError(o) /\ Fine
      BY <3>2 DEF TakeError
    <3> QED
      BY <2>2, <3>1, <3>2
  <2>6. DOMAIN age' = PLCs /\ (\A p \in PLCs : age'[p] \in [DOMAIN items[p] -> 0 .. Never]) /\ Held'
    BY <1>17, <2>1, <2>5
  <2>7. /\ next' \in [PLCs -> 0 .. Wait + MAX_SAMPLE]
        /\ pc' \in {"item", "check"} /\ (pc' = "item" => elt2' \in DOMAIN items[elt])
    BY <2>1, <2>6, NextItemType
  <2> QED
    BY <1>4, <1>5, <1>6, <1>8, <2>1, <2>4, <2>5, <2>6, <2>7
<1>19. CASE NoReply
  <2>1. /\ plant' = plant /\ items' = items /\ pc = "wait" /\ elt' = elt /\ NextItem
        /\ socket' = socket /\ now' = now /\ Read_Something' = Read_Something
        /\ terminated' = terminated /\ call' = None /\ mistaken' = mistaken
        /\ Transaction_Id' = Transaction_Id /\ Fault
    BY <1>19 DEF NoReply, GiveUp
  <2>2. Comm_err' \in BOOLEAN /\ age' = age
    BY <1>19 DEF NoReply, TakeError
  <2>3. DOMAIN age' = PLCs /\ (\A p \in PLCs : age'[p] \in [DOMAIN items[p] -> 0 .. Never]) /\ Held'
    BY <1>2, <1>7, <2>1, <2>2
  <2>4. /\ next' \in [PLCs -> 0 .. Wait + MAX_SAMPLE]
        /\ pc' \in {"item", "check"} /\ (pc' = "item" => elt2' \in DOMAIN items[elt])
    BY <2>1, <2>3, NextItemType
  <2> QED
    BY <1>4, <1>5, <1>6, <1>8, <2>1, <2>2, <2>3, <2>4
<1>20. CASE Killed
  <2>1. /\ plant' = plant /\ items' = items /\ age' = age /\ pc = "item" /\ elt' = elt
        /\ socket' = socket /\ next' = next /\ pc' = "ended"
        /\ now' = now /\ Comm_err' = Comm_err /\ Read_Something' = Read_Something
        /\ terminated' = terminated /\ mistaken' = mistaken /\ call' = call
        /\ Transaction_Id' = Transaction_Id /\ Fault
    BY <1>20 DEF Killed, line
  <2> QED
    BY <1>4, <1>5, <1>6, <1>7, <1>8, <2>1
<1>21. CASE Check
  <2>1. /\ plant' = plant /\ items' = items /\ age' = age /\ pc = "check" /\ GoOn
        /\ (socket' = socket \/ socket' = [socket EXCEPT ![elt] = FALSE])
        /\ next' = IF Suspended THEN [next EXCEPT ![elt] = Wait - now] ELSE next
        /\ now' = now /\ Comm_err' = Comm_err /\ Read_Something' = Read_Something
        /\ terminated' = terminated /\ mistaken' = mistaken /\ call' = call
        /\ Transaction_Id' = Transaction_Id /\ faults' = faults
    BY <1>21 DEF Check
  <2>2. next' \in [PLCs -> 0 .. Wait + MAX_SAMPLE] /\ socket' \in [PLCs -> BOOLEAN]
    BY <1>3, <1>4, <2>1
  <2> QED
    BY <1>4, <1>5, <1>6, <1>7, <1>11, <2>1, <2>2
<1>22. ASSUME Second, plant' = plant, items' = items
       PROVE  /\ next' \in [PLCs -> 0 .. Wait + MAX_SAMPLE] /\ now' \in 0 .. Wait /\ Held'
  BY <1>2, <1>6, <1>22, SecondType DEF Held
<1>23. CASE Sleep
  <2>1. /\ plant' = plant /\ items' = items /\ pc = "sleep" /\ pc' = "round" /\ elt' = elt
        /\ socket' = socket /\ Comm_err' = Comm_err /\ Read_Something' = Read_Something
        /\ terminated' = terminated /\ mistaken' = mistaken /\ call' = call
        /\ Transaction_Id' = Transaction_Id /\ faults' = faults /\ Second
    BY <1>23 DEF Sleep, line
  <2> QED
    BY <1>4, <1>5, <1>6, <1>22, <2>1
<1>24. CASE Tick
  <2>1. /\ plant' = plant /\ items' = items /\ pc' = pc /\ elt' = elt /\ elt2' = elt2
        /\ socket' = socket /\ Comm_err' = Comm_err /\ Read_Something' = Read_Something
        /\ terminated' = terminated /\ mistaken' = mistaken /\ call' = call
        /\ Transaction_Id' = Transaction_Id /\ faults' = faults /\ Second
    BY <1>24 DEF Tick, line
  <2> QED
    BY <1>4, <1>5, <1>6, <1>22, <2>1
<1>25. CASE Device
  <2>1. /\ plant' = plant /\ items' = items /\ age' = age /\ pc' = pc /\ elt' = elt /\ elt2' = elt2
        /\ socket' = socket /\ next' = next /\ now' = now
        /\ Comm_err' = Comm_err /\ Read_Something' = Read_Something
        /\ terminated' = terminated /\ mistaken' = mistaken /\ call' = call
        /\ Transaction_Id' = Transaction_Id /\ faults' = faults
    BY <1>25 DEF Device, Answer, loop
  <2> QED
    BY <1>4, <1>5, <1>6, <1>7, <2>1
<1>26. CASE Signal
  <2>1. /\ plant' = plant /\ items' = items /\ age' = age /\ pc' = pc /\ elt' = elt /\ elt2' = elt2
        /\ socket' = socket /\ next' = next /\ now' = now
        /\ Comm_err' = Comm_err /\ Read_Something' = Read_Something
        /\ terminated' = TRUE /\ mistaken' = mistaken /\ call' = call
        /\ Transaction_Id' = Transaction_Id /\ Fault
    BY <1>26 DEF Signal, line, loop
  <2> QED
    BY <1>4, <1>5, <1>6, <1>7, <1>8, <2>1
<1>27. CASE UNCHANGED vars
  <2>1. /\ plant' = plant /\ items' = items /\ age' = age /\ pc' = pc /\ elt' = elt /\ elt2' = elt2
        /\ socket' = socket /\ next' = next /\ now' = now
        /\ Comm_err' = Comm_err /\ Read_Something' = Read_Something
        /\ terminated' = terminated /\ mistaken' = mistaken /\ call' = call
        /\ Transaction_Id' = Transaction_Id /\ faults' = faults
    BY <1>27 DEF vars, line, loop
  <2> QED
    BY <1>4, <1>5, <1>6, <1>7, <2>1
<1> QED
  BY <1>9, <1>10, <1>12, <1>13, <1>14, <1>15, <1>16, <1>18, <1>19, <1>20, <1>21, <1>23, <1>24,
     <1>25, <1>26, <1>27 DEF Next, Logger

(* Types, and the items of a PLC are those Optimise_Plc makes of its tags.   *)
THEOREM ShapeIsKept == Spec => []Shape
<1>1. Init => Shape
  BY InitShape
<1>2. Shape /\ [Next]_vars => Shape'
  BY ShapeStep
<1> QED
  BY <1>1, <1>2, PTL DEF Spec

-----------------------------------------------------------------------------
(***************************************************************************)
(* Optimise_Plc takes tags out of the list while it walks it, and still    *)
(* each tag of a PLC is in one item, once, and the request of its item     *)
(* asks for it: whatever the tags of the PLC are, and their order.         *)
(***************************************************************************)
LEMMA ShapeKeepsTags == Shape => TagsAreKept
<1> SUFFICES ASSUME Shape PROVE TagsAreKept
  OBVIOUS
<1>1. ASSUME NEW p \in PLCs, items[p] # <<>>, NEW i \in DOMAIN plant[p]
      PROVE  LET places == {e \in (DOMAIN items[p]) \X (1 .. Len(plant[p])) :
                              /\ e[2] <= Len(items[p][e[1]].tags)
                              /\ items[p][e[1]].tags[e[2]] = plant[p][i]} IN
             /\ Cardinality(places) = 1
             /\ \E e \in places :
                  ValueAt(items[p][e[1]].req, Index(items[p][e[1]], plant[p][i])) # None
  <2> DEFINE its == items[p]
             t == plant[p][i]
             N == Len(plant[p])
             places == {e \in (DOMAIN its) \X (1 .. N) :
                           e[2] <= Len(its[e[1]].tags) /\ its[e[1]].tags[e[2]] = t}
  <2>1. GoodItems(plant[p], its) /\ plant \in Plants
    BY <1>1 DEF Shape, Held
  <2>2. i \in 1 .. N /\ N \in Nat
    <3>1. plant[p] \in Seq(Rows)
      BY <2>1, PlantFacts DEF PLCs
    <3> QED
      BY <3>1, Elements
  <2> HIDE DEF its
  <2>3. /\ DOMAIN its = 1 .. Len(its) /\ Len(its) \in Nat
        /\ \A n \in 1 .. Len(its) : GoodItem(its[n])
    BY <2>1, <2>2 DEF GoodItems
  <2>4. PICK n \in 1 .. Len(its), k \in 1 .. N :
           /\ At(its, n, k, t)
           /\ \A m \in 1 .. Len(its), l \in 1 .. N : At(its, m, l, t) => m = n /\ l = k
    BY <2>1, <2>2 DEF GoodItems
  <2> HIDE DEF t, N
  <2>5. \A m \in 1 .. Len(its) : Len(its[m].tags) \in Nat
    <3> TAKE m \in 1 .. Len(its)
    <3>1. its[m].tags \in Seq(Rows)
      BY <2>3 DEF GoodItem
    <3> QED
      BY <3>1, Elements
  <2>6. <<n, k>> \in places
    <3>1. k \in 1 .. Len(its[n].tags) /\ its[n].tags[k] = t
      BY <2>4 DEF At
    <3>2. k <= Len(its[n].tags)
      BY <2>5, <3>1
    <3> QED
      BY <2>3, <3>1, <3>2
  <2>7. ASSUME NEW e \in places PROVE e = <<n, k>>
    <3>1. /\ e = <<e[1], e[2]>> /\ e[1] \in 1 .. Len(its) /\ e[2] \in 1 .. N
          /\ e[2] <= Len(its[e[1]].tags) /\ its[e[1]].tags[e[2]] = t
      BY <2>3
    <3>2. e[2] \in 1 .. Len(its[e[1]].tags)
      BY <2>2, <2>5, <3>1
    <3>3. At(its, e[1], e[2], t)
      BY <3>1, <3>2 DEF At
    <3> QED
      BY <2>4, <3>1, <3>3
  <2> HIDE DEF places
  <2>8. places = {<<n, k>>}
    BY <2>6, <2>7
  <2>9. Cardinality(places) = 1
    BY <2>8, FS_Singleton
  <2>10. ValueAt(its[n].req, Index(its[n], t)) # None
    <3>1. k \in 1 .. Len(its[n].tags) /\ its[n].tags[k] = t
      BY <2>4 DEF At
    <3>2. ValueAt(its[n].req, Index(its[n], t)) \in Places
      BY <2>3, <3>1 DEF GoodItem
    <3> QED
      BY <3>2, MBAssumption
  <2>11. \E e \in places : ValueAt(its[e[1]].req, Index(its[e[1]], t)) # None
    <3>1. <<n, k>>[1] = n
      OBVIOUS
    <3> QED
      BY <2>6, <2>10, <3>1
  <2> QED
    BY <2>9, <2>11 DEF places, its, t, N
<1>2. TypeOK
  BY DEF Shape
<1> QED
  BY <1>1, <1>2 DEF TagsAreKept

(* Optimise_Plc loses no tag and doubles none, and the request of its item  *)
(* asks for it, whatever the tags are.                                       *)
THEOREM TagsStayKept == Spec => []TagsAreKept
BY ShapeIsKept, ShapeKeepsTags, PTL

-----------------------------------------------------------------------------
(***************************************************************************)
(* What is on the way.                                                     *)
(***************************************************************************)

LEMMA AnswerFacts ==
    ASSUME Calls, NEW c \in PLCs, Answer(c)
    PROVE  /\ requests' \in [PLCs -> Seq(Asked)] /\ replies' \in [PLCs -> Seq(Answered)]
           /\ \A p \in PLCs : \A i \in 1 .. Len(replies'[p]) :
                 replies'[p][i].exception <=> ~ Fits(replies'[p][i].req)
           /\ \A p \in PLCs : \A r \in UnderWay(p)' :
                 \E q \in UnderWay(p) : r.id = q.id /\ r.req = q.req
<1> DEFINE asked == requests[c]
           had == replies[c]
           h == Head(asked)
           a == [id |-> h.id, req |-> h.req, exception |-> ~ Fits(h.req)]
<1>1. /\ requests \in [PLCs -> Seq(Asked)] /\ replies \in [PLCs -> Seq(Answered)]
      /\ asked \in Seq(Asked) /\ had \in Seq(Answered) /\ asked # <<>>
  BY DEF Calls, Answer
<1>2. requests' = [requests EXCEPT ![c] = Tail(asked)] /\ replies' = [replies EXCEPT ![c] = Append(had, a)]
  BY DEF Answer, Reply
<1> HIDE DEF asked, had
<1>3. Len(asked) \in Nat /\ Len(had) \in Nat /\ Len(asked) # 0
  BY <1>1, Elements, EmptySeq
<1>4. h \in Asked /\ h = asked[1] /\ 1 \in 1 .. Len(asked)
  BY <1>1, <1>3, HeadTailProperties, ElementOfSeq
<1>5. /\ Tail(asked) \in Seq(Asked) /\ Len(Tail(asked)) = Len(asked) - 1
      /\ \A i \in 1 .. Len(Tail(asked)) : Tail(asked)[i] = asked[i + 1]
  BY <1>1, HeadTailProperties
<1>6. a \in Answered
  BY <1>4 DEF Asked, Answered
<1> HIDE DEF a, h
<1>7. /\ Append(had, a) \in Seq(Answered) /\ Len(Append(had, a)) = Len(had) + 1
      /\ \A i \in 1 .. Len(had) : Append(had, a)[i] = had[i]
      /\ Append(had, a)[Len(had) + 1] = a
  BY <1>1, <1>6, AppendProperties
<1>8. a.id = h.id /\ a.req = h.req /\ (a.exception <=> ~ Fits(h.req))
  BY DEF a
<1>9. /\ requests'[c] = Tail(asked) /\ replies'[c] = Append(had, a)
      /\ \A p \in PLCs : p # c => requests'[p] = requests[p] /\ replies'[p] = replies[p]
  BY <1>1, <1>2
<1>10. ASSUME NEW i \in 1 .. Len(replies'[c])
       PROVE  (i \in 1 .. Len(had) /\ replies'[c][i] = had[i]) \/ replies'[c][i] = a
  BY <1>3, <1>7, <1>9
<1>11. ASSUME NEW p \in PLCs, NEW i \in 1 .. Len(replies'[p])
       PROVE  replies'[p][i].exception <=> ~ Fits(replies'[p][i].req)
  <2>1. CASE p # c
    BY <1>9, <2>1 DEF Calls
  <2>2. CASE p = c /\ i \in 1 .. Len(had) /\ replies'[c][i] = had[i]
    BY <2>2 DEF Calls, had
  <2>3. CASE p = c /\ replies'[c][i] = a
    BY <1>8, <2>3
  <2> QED
    BY <1>10, <2>1, <2>2, <2>3
<1>12. ASSUME NEW p \in PLCs, NEW r \in UnderWay(p)'
       PROVE  \E q \in UnderWay(p) : r.id = q.id /\ r.req = q.req
  <2>1. CASE p # c
    BY <1>9, <2>1 DEF UnderWay
  <2>2. CASE p = c /\ \E i \in 1 .. Len(requests'[c]) : r = requests'[c][i]
    <3>1. PICK i \in 1 .. Len(requests'[c]) : r = requests'[c][i]
      BY <2>2
    <3>2. i + 1 \in 1 .. Len(asked) /\ r = asked[i + 1]
      BY <1>3, <1>5, <1>9, <3>1
    <3> QED
      BY <2>2, <3>2 DEF UnderWay, asked
  <2>3. CASE p = c /\ \E i \in 1 .. Len(replies'[c]) : r = replies'[c][i]
    <3>1. PICK i \in 1 .. Len(replies'[c]) : r = replies'[c][i]
      BY <2>3
    <3>2. CASE i \in 1 .. Len(had) /\ replies'[c][i] = had[i]
      BY <2>3, <3>1, <3>2 DEF UnderWay, had
    <3>3. CASE replies'[c][i] = a
      <4>1. h \in UnderWay(p)
        BY <1>4, <2>3 DEF UnderWay, asked
      <4> QED
        BY <1>8, <3>1, <3>3, <4>1
    <3> QED
      BY <1>10, <3>2, <3>3
  <2> QED
    BY <2>1, <2>2, <2>3 DEF UnderWay
<1>13. requests' \in [PLCs -> Seq(Asked)] /\ replies' \in [PLCs -> Seq(Answered)]
  BY <1>1, <1>2, <1>5, <1>7
<1> QED
  BY <1>11, <1>12, <1>13

LEMMA ReceiveFacts ==
    ASSUME Calls, NEW c \in PLCs, Receive(c)
    PROVE  /\ requests' \in [PLCs -> Seq(Asked)] /\ replies' \in [PLCs -> Seq(Answered)]
           /\ \A p \in PLCs : \A i \in 1 .. Len(replies'[p]) :
                 replies'[p][i].exception <=> ~ Fits(replies'[p][i].req)
           /\ Head(replies[c]) \in UnderWay(c) /\ Head(replies[c]) \in Answered
           /\ Head(replies[c]).exception <=> ~ Fits(Head(replies[c]).req)
<1> DEFINE had == replies[c]
<1>1. /\ requests \in [PLCs -> Seq(Asked)] /\ replies \in [PLCs -> Seq(Answered)]
      /\ had \in Seq(Answered) /\ had # <<>>
  BY DEF Calls, Receive
<1>2. requests' = requests /\ replies' = [replies EXCEPT ![c] = Tail(had)]
  BY DEF Receive
<1> HIDE DEF had
<1>3. Len(had) \in Nat /\ Len(had) # 0
  BY <1>1, Elements, EmptySeq
<1>4. Head(had) \in Answered /\ Head(had) = had[1] /\ 1 \in 1 .. Len(had)
  BY <1>1, <1>3, HeadTailProperties, ElementOfSeq
<1>5. /\ Tail(had) \in Seq(Answered) /\ Len(Tail(had)) = Len(had) - 1
      /\ \A i \in 1 .. Len(Tail(had)) : Tail(had)[i] = had[i + 1]
  BY <1>1, HeadTailProperties
<1>6. replies'[c] = Tail(had) /\ \A p \in PLCs : p # c => replies'[p] = replies[p]
  BY <1>1, <1>2
<1>7. \A i \in 1 .. Len(replies'[c]) : i + 1 \in 1 .. Len(had) /\ replies'[c][i] = had[i + 1]
  BY <1>3, <1>5, <1>6
<1>8. ASSUME NEW p \in PLCs, NEW i \in 1 .. Len(replies'[p])
      PROVE  replies'[p][i].exception <=> ~ Fits(replies'[p][i].req)
  <2>1. CASE p # c
    BY <1>6, <2>1 DEF Calls
  <2>2. CASE p = c
    BY <1>7, <2>2 DEF Calls, had
  <2> QED
    BY <2>1, <2>2
<1>9. Head(had).exception <=> ~ Fits(Head(had).req)
  BY <1>4 DEF Calls, had
<1>10. Head(had) \in UnderWay(c)
  BY <1>4 DEF UnderWay, had
<1>11. requests' \in [PLCs -> Seq(Asked)] /\ replies' \in [PLCs -> Seq(Answered)]
  BY <1>1, <1>2, <1>5
<1> QED
  BY <1>4, <1>8, <1>9, <1>10, <1>11 DEF had

\* A request finds the receive buffer empty.
LEMMA SendFacts ==
    ASSUME Shape, Calls, pc = "item", Send(elt, item.req), elt' = elt
    PROVE  /\ requests' \in [PLCs -> Seq(Asked)] /\ replies' \in [PLCs -> Seq(Answered)]
           /\ \A p \in PLCs : \A i \in 1 .. Len(replies'[p]) :
                 replies'[p][i].exception <=> ~ Fits(replies'[p][i].req)
           /\ call'.id = NewId
           /\ \A r \in UnderWay(elt)' : r = call' \/ \E i \in 1 .. Len(requests[elt]) : r = requests[elt][i]
<1>1. /\ requests \in [PLCs -> Seq(Asked)] /\ replies \in [PLCs -> Seq(Answered)] /\ elt \in PLCs
      /\ requests[elt] \in Seq(Asked)
  BY ItemNow DEF Calls
<1>2. /\ call' = [id |-> NewId, req |-> item.req]
      /\ requests' = [requests EXCEPT ![elt] = Append(requests[elt], call')]
      /\ replies' = [replies EXCEPT ![elt] = <<>>]
  BY DEF Send
<1>3. Transaction_Id \in Ids /\ IdRange \in Nat \ {0}
  BY Parameters DEF Shape, TypeOK, Ids
<1>4. NewId = IF Transaction_Id = IdRange - 1 THEN 0 ELSE Transaction_Id + 1
  BY <1>3, NextRemainder DEF NewId, Ids
<1>5. NewId \in Ids
  BY <1>3, <1>4 DEF Ids
<1>6. call' \in Asked
  BY <1>2, <1>5, ItemNow DEF Asked
<1> DEFINE asked == requests[elt]
<1>7. /\ Append(asked, call') \in Seq(Asked) /\ Len(Append(asked, call')) = Len(asked) + 1
      /\ Len(asked) \in Nat
      /\ \A i \in 1 .. Len(asked) : Append(asked, call')[i] = asked[i]
      /\ Append(asked, call')[Len(asked) + 1] = call'
  BY <1>1, <1>6, AppendProperties, Elements
<1>8. requests'[elt] = Append(asked, call') /\ replies'[elt] = <<>> /\ Len(replies'[elt]) = 0
  BY <1>1, <1>2, EmptySeq
<1>9. ASSUME NEW r \in UnderWay(elt)'
      PROVE  r = call' \/ \E i \in 1 .. Len(asked) : r = asked[i]
  <2>1. UnderWay(elt)' = {requests'[elt][i] : i \in 1 .. Len(requests'[elt])}
                         \union {replies'[elt][i] : i \in 1 .. Len(replies'[elt])}
    BY DEF UnderWay
  <2> QED
    BY <1>7, <1>8, <2>1
<1>10. \A p \in PLCs : \A i \in 1 .. Len(replies'[p]) :
           replies'[p][i].exception <=> ~ Fits(replies'[p][i].req)
  <2> TAKE p \in PLCs
  <2>1. CASE p = elt
    BY <1>8, <2>1
  <2>2. CASE p # elt
    BY <1>1, <1>2, <2>2 DEF Calls
  <2> QED
    BY <2>1, <2>2
<1>11. requests' \in [PLCs -> Seq(Asked)] /\ replies' \in [PLCs -> Seq(Answered)]
  BY <1>1, <1>2, <1>7, EmptySeq
<1> QED
  BY <1>2, <1>9, <1>10, <1>11

LEMMA CallsStep == Shape /\ Calls /\ [Next]_vars => Calls'
<1> SUFFICES ASSUME Shape, Calls, [Next]_vars PROVE Calls'
  OBVIOUS
<1> DEFINE Known == /\ requests \in [PLCs -> Seq(Asked)] /\ replies \in [PLCs -> Seq(Answered)]
                    /\ \A p \in PLCs : \A i \in 1 .. Len(replies[p]) :
                          replies[p][i].exception <=> ~ Fits(replies[p][i].req)
<1>1. Known /\ (pc = "wait" => call = [id |-> Transaction_Id, req |-> item.req])
  BY DEF Calls
<1>2. plant' = plant
  BY DEF Next, Logger, Load, Round, NotYet, NoSocket, Enter, NotDue, Ask, Take, NoReply, Killed,
         Check, Sleep, Device, Signal, Tick, vars
<1>3. PLCs' = PLCs
  BY <1>2 DEF PLCs
<1>4. ASSUME Known', pc' # "wait" PROVE Calls'
  BY <1>4 DEF Calls
<1>5. ASSUME requests' = requests, replies' = replies PROVE Known'
  BY <1>1, <1>3, <1>5
<1>6. ASSUME requests' = [requests EXCEPT ![elt] = <<>>], replies' = [replies EXCEPT ![elt] = <<>>]
      PROVE  Known'
  <2>1. Len(<<>>) = 0 /\ <<>> \in Seq(Asked) /\ <<>> \in Seq(Answered)
    BY EmptySeq
  <2>2. requests' \in [PLCs -> Seq(Asked)] /\ replies' \in [PLCs -> Seq(Answered)]
    BY <1>1, <1>6, <2>1
  <2>3. ASSUME NEW p \in PLCs, NEW i \in 1 .. Len(replies'[p])
        PROVE  replies'[p][i].exception <=> ~ Fits(replies'[p][i].req)
    <3>1. CASE p = elt
      BY <1>1, <1>6, <2>1, <3>1
    <3>2. CASE p # elt
      BY <1>1, <1>6, <3>2
    <3> QED
      BY <3>1, <3>2
  <2> QED
    BY <1>3, <2>2, <2>3
<1> HIDE DEF Known
<1>7. CASE Load \/ NotYet \/ NoSocket \/ Enter \/ NotDue \/ Killed \/ Sleep \/ NoReply
  <2>1. requests' = requests /\ replies' = replies
    BY <1>7 DEF Load, NotYet, NoSocket, Enter, NotDue, Killed, Sleep, NoReply, GiveUp, line
  <2>2. pc' # "wait"
    <3>1. CASE Load \/ NotYet \/ NoSocket \/ Enter \/ Killed \/ Sleep
      BY <3>1 DEF Load, NotYet, NoSocket, Enter, Killed, Sleep, GoOn
    <3>2. CASE NotDue \/ NoReply
      BY <3>2 DEF NotDue, NoReply, NextItem
    <3> QED
      BY <1>7, <3>1, <3>2
  <2> QED
    BY <1>4, <1>5, <2>1, <2>2
<1>8. CASE Round
  <2>1. pc' # "wait"
    BY <1>8 DEF Round
  <2>2. CASE requests' = requests /\ replies' = replies
    BY <1>4, <1>5, <2>1, <2>2
  <2>3. CASE requests' = [p \in PLCs |-> <<>>] /\ replies' = [p \in PLCs |-> <<>>]
    <3>1. Len(<<>>) = 0 /\ <<>> \in Seq(Asked) /\ <<>> \in Seq(Answered)
      BY EmptySeq
    <3>2. Known'
      BY <1>3, <2>3, <3>1 DEF Known
    <3> QED
      BY <1>4, <2>1, <3>2
  <2> QED
    BY <1>8, <2>2, <2>3 DEF Round, KillAll
<1>9. CASE Ask
  <2>1. Send(elt, item.req) /\ pc = "item" /\ items' = items /\ elt' = elt /\ elt2' = elt2
    BY <1>9 DEF Ask
  <2>2. call' = [id |-> Transaction_Id', req |-> item'.req]
    BY <2>1 DEF Send, item
  <2>3. /\ requests' \in [PLCs -> Seq(Asked)] /\ replies' \in [PLCs -> Seq(Answered)]
        /\ \A p \in PLCs : \A i \in 1 .. Len(replies'[p]) :
              replies'[p][i].exception <=> ~ Fits(replies'[p][i].req)
    BY <2>1, SendFacts
  <2> QED
    BY <1>3, <2>2, <2>3 DEF Calls
<1>10. CASE Take
  <2>1. Receive(elt) /\ pc' # "wait" /\ elt \in PLCs
    BY <1>10, ItemNow DEF Take, NextItem
  <2>2. Known'
    BY <1>3, <2>1, ReceiveFacts DEF Known
  <2> QED
    BY <1>4, <2>1, <2>2
<1>11. CASE Check
  <2>1. pc' # "wait"
    BY <1>11 DEF Check, GoOn
  <2>2. Known'
    BY <1>5, <1>6, <1>11 DEF Check, Close
  <2> QED
    BY <1>4, <2>1, <2>2
<1>12. CASE Device
  <2>1. PICK c \in PLCs : Answer(c)
    BY <1>12 DEF Device
  <2>2. /\ pc' = pc /\ items' = items /\ elt' = elt /\ elt2' = elt2
        /\ call' = call /\ Transaction_Id' = Transaction_Id
    BY <1>12 DEF Device, Answer, loop
  <2>3. Known'
    BY <1>3, <2>1, AnswerFacts DEF Known
  <2>4. pc' = "wait" => call' = [id |-> Transaction_Id', req |-> item'.req]
    BY <1>1, <2>2 DEF item
  <2> QED
    BY <2>3, <2>4 DEF Calls, Known
<1>13. CASE Signal \/ Tick \/ UNCHANGED vars
  <2>1. line' = line /\ pc' = pc /\ items' = items /\ elt' = elt /\ elt2' = elt2
    BY <1>13 DEF Signal, Tick, vars, line, loop
  <2>2. Known'
    BY <1>5, <2>1 DEF line
  <2>3. pc' = "wait" => call' = [id |-> Transaction_Id', req |-> item'.req]
    BY <1>1, <2>1 DEF item, line
  <2> QED
    BY <2>2, <2>3 DEF Calls, Known
<1> QED
  BY <1>7, <1>8, <1>9, <1>10, <1>11, <1>12, <1>13 DEF Next, Logger

LEMMA InitCalls == Init => Calls
<1> SUFFICES ASSUME Init PROVE Calls
  OBVIOUS
<1>1. requests = [c \in PLCs |-> <<>>] /\ replies = [c \in PLCs |-> <<>>] /\ pc = "start"
  BY DEF Init, Quiet
<1>2. Len(<<>>) = 0 /\ <<>> \in Seq(Asked) /\ <<>> \in Seq(Answered)
  BY EmptySeq
<1> QED
  BY <1>1, <1>2 DEF Calls

(* What is in the sockets is known.                                          *)
THEOREM CallsAreKept == Spec => []Calls
<1>1. Init => Calls
  BY InitCalls
<1>2. Shape /\ Calls /\ [Next]_vars => Calls'
  BY CallsStep
<1> QED
  BY <1>1, <1>2, ShapeIsKept, PTL DEF Spec

(***************************************************************************)
(* A call is made with an empty receive buffer.  With an id that no        *)
(* request has which the device still has to answer, a reply with the id   *)
(* of the call is the reply to the call, however late the others come, and *)
(* in whatever pass of a socket that stays open.                           *)
(***************************************************************************)
LEMMA RecognisedStep == Shape /\ Calls /\ IdsAreFree /\ Recognised /\ [Next]_vars => Recognised'
<1> SUFFICES ASSUME Shape, Calls, IdsAreFree, Recognised, [Next]_vars PROVE Recognised'
  OBVIOUS
<1>1. ASSUME pc' # "wait" PROVE Recognised'
  BY <1>1 DEF Recognised
<1>2. CASE Load \/ Round \/ NotYet \/ NoSocket \/ Enter \/ Killed \/ Check \/ Sleep
  <2>1. pc' # "wait"
    BY <1>2 DEF Load, Round, NotYet, NoSocket, Enter, Killed, Check, Sleep, GoOn
  <2> QED
    BY <1>1, <2>1
<1>3. CASE NotDue \/ Take \/ NoReply
  <2>1. pc' # "wait"
    BY <1>3 DEF NotDue, Take, NoReply, NextItem
  <2> QED
    BY <1>1, <2>1
<1>4. CASE Ask
  <2>1. Send(elt, item.req) /\ pc = "item" /\ elt' = elt
    BY <1>4 DEF Ask
  <2>2. /\ call'.id = NewId
        /\ \A r \in UnderWay(elt)' : r = call' \/ \E i \in 1 .. Len(requests[elt]) : r = requests[elt][i]
    BY <2>1, SendFacts
  <2>3. \A i \in 1 .. Len(requests[elt]) : requests[elt][i].id # NewId
    BY <2>1 DEF IdsAreFree
  <2>4. \A r \in UnderWay(elt)' : r.id = call'.id => r.req = call'.req
    BY <2>2, <2>3
  <2> QED
    BY <2>1, <2>4 DEF Recognised
<1>5. CASE Device
  <2>1. PICK c \in PLCs : Answer(c)
    BY <1>5 DEF Device
  <2>2. pc' = pc /\ elt' = elt /\ call' = call /\ elt \in PLCs
    BY <1>5 DEF Device, Answer, loop, Shape, TypeOK
  <2>3. \A r \in UnderWay(elt)' : \E q \in UnderWay(elt) : r.id = q.id /\ r.req = q.req
    BY <2>1, <2>2, AnswerFacts
  <2>4. pc = "wait" => \A r \in UnderWay(elt)' : r.id = call.id => r.req = call.req
    BY <2>3 DEF Recognised
  <2> QED
    BY <2>2, <2>4 DEF Recognised
<1>6. CASE Signal \/ Tick \/ UNCHANGED vars
  <2>1. line' = line /\ pc' = pc /\ elt' = elt
    BY <1>6 DEF Signal, Tick, vars, line, loop
  <2> QED
    BY <2>1 DEF Recognised, UnderWay, line
<1> QED
  BY <1>2, <1>3, <1>4, <1>5, <1>6 DEF Next, Logger

(* What comes with the id of a call is of the call, while no id is used      *)
(* again for a connection whose device has not yet answered to it.           *)
THEOREM RepliesAreRecognised == Spec /\ []IdsAreFree => []Recognised
<1>1. Init => Recognised
  BY DEF Init, Recognised
<1>2. Shape /\ Calls /\ IdsAreFree /\ Recognised /\ [Next]_vars => Recognised'
  BY RecognisedStep
<1> QED
  BY <1>1, <1>2, ShapeIsKept, CallsAreKept, PTL DEF Spec

LEMMA TakesItsOwn ==
    ASSUME Shape, Calls, Recognised, Take, Outcome(Head(replies[elt])) = "data"
    PROVE  Head(replies[elt]).req = item.req /\ Fits(item.req)
<1> DEFINE r == Head(replies[elt])
<1>1. pc = "wait" /\ Receive(elt) /\ elt \in PLCs
  BY ItemNow DEF Take
<1>2. r \in UnderWay(elt) /\ (r.exception <=> ~ Fits(r.req))
  BY <1>1, ReceiveFacts
<1>3. r.id = call.id /\ ~ r.exception
  BY DEF Outcome
<1>4. call = [id |-> Transaction_Id, req |-> item.req]
  BY <1>1 DEF Calls
<1> HIDE DEF r
<1>5. r.req = item.req
  BY <1>1, <1>2, <1>3, <1>4 DEF Recognised
<1> QED
  BY <1>2, <1>3, <1>5 DEF r

(* ReadTag and ReadPacket take the reply to their own request, however late *)
(* earlier ones come, while no transaction id comes back before the device  *)
(* has answered the request that had it.                                    *)
THEOREM OwnReplies == Spec /\ []IdsAreFree => []RepliesAreOwn
<1>1. Init => RepliesAreOwn
  BY DEF Init, RepliesAreOwn
<1>2. Shape /\ Calls /\ Recognised /\ RepliesAreOwn /\ [Next]_vars => RepliesAreOwn'
  <2> SUFFICES ASSUME Shape, Calls, Recognised, RepliesAreOwn, [Next]_vars PROVE RepliesAreOwn'
    OBVIOUS
  <2>1. CASE Take
    <3>1. mistaken' = (mistaken \/ (Outcome(Head(replies[elt])) = "data"
                                    /\ Head(replies[elt]).req # item.req))
      BY <2>1 DEF Take
    <3>2. ~ (Outcome(Head(replies[elt])) = "data" /\ Head(replies[elt]).req # item.req)
      BY <2>1, TakesItsOwn
    <3>3. ~ mistaken
      BY DEF RepliesAreOwn
    <3> QED
      BY <3>1, <3>2, <3>3 DEF RepliesAreOwn
  <2>2. CASE ~ Take
    <3>1. mistaken' = mistaken
      BY <2>2 DEF Next, Logger, Load, Round, NotYet, NoSocket, Enter, NotDue, Ask, NoReply, Killed,
                  Check, Sleep, Device, Signal, Tick, vars
    <3> QED
      BY <3>1 DEF RepliesAreOwn
  <2> QED
    BY <2>1, <2>2
<1> QED
  BY <1>1, <1>2, ShapeIsKept, CallsAreKept, RepliesAreRecognised, PTL DEF Spec

-----------------------------------------------------------------------------
(***************************************************************************)
(* What is stored for a tag: a tag is in one item of one PLC, so that only *)
(* the reply to the request of its item can change its value; the reply is *)
(* the item's own, and the device has what the request asks for, so that   *)
(* no address has left its word.                                           *)
(***************************************************************************)
LEMMA ItemTag ==
    ASSUME Shape, NEW p \in PLCs, NEW n \in DOMAIN items[p], NEW k \in 1 .. Len(items[p][n].tags)
    PROVE  /\ GoodItems(plant[p], items[p]) /\ n \in 1 .. Len(items[p]) /\ GoodItem(items[p][n])
           /\ DOMAIN items[p][n].tags = 1 .. Len(items[p][n].tags)
           /\ Len(plant[p]) \in Nat /\ k \in 1 .. Len(plant[p])
           /\ \E i \in DOMAIN plant[p] : items[p][n].tags[k] = plant[p][i]
           /\ items[p][n].tags[k] \in AllTags
<1>1. items[p] # <<>>
  OBVIOUS
<1>2. GoodItems(plant[p], items[p]) /\ plant \in Plants
  BY <1>1 DEF Shape, Held
<1>3. plant[p] \in Seq(Rows)
  BY <1>2, PlantFacts DEF PLCs
<1>4. Len(plant[p]) \in Nat /\ DOMAIN plant[p] = 1 .. Len(plant[p])
  BY <1>3, Elements
<1>5. n \in 1 .. Len(items[p]) /\ GoodItem(items[p][n])
  BY <1>2 DEF GoodItems
<1>6. items[p][n].tags \in Seq(Rows)
  BY <1>5 DEF GoodItem
<1>7. DOMAIN items[p][n].tags = 1 .. Len(items[p][n].tags) /\ Len(items[p][n].tags) \in Nat
  BY <1>6, Elements
<1>8. k <= Len(plant[p]) /\ \E i \in 1 .. Len(plant[p]) : items[p][n].tags[k] = plant[p][i]
  BY <1>2, <1>5 DEF GoodItems
<1>9. items[p][n].tags[k] \in AllTags
  BY <1>4, <1>8 DEF AllTags, PLCs
<1> QED
  BY <1>2, <1>4, <1>5, <1>7, <1>8, <1>9

LEMMA OnePlace ==
    ASSUME NEW test \in Plants, NEW p \in DOMAIN test, NEW q \in DOMAIN test,
           NEW i \in DOMAIN test[p], NEW j \in DOMAIN test[q], test[p][i] = test[q][j]
    PROVE  p = q /\ i = j
BY MdbAssumption

LEMMA OneItem ==
    ASSUME Shape, NEW p \in PLCs, NEW n \in DOMAIN items[p], NEW k \in 1 .. Len(items[p][n].tags),
           NEW q \in PLCs, NEW m \in DOMAIN items[q], NEW l \in 1 .. Len(items[q][m].tags),
           items[p][n].tags[k] = items[q][m].tags[l]
    PROVE  p = q /\ n = m /\ k = l
<1> DEFINE t == items[p][n].tags[k]
<1>1. PICK i \in DOMAIN plant[p] : t = plant[p][i]
  BY ItemTag
<1>2. PICK j \in DOMAIN plant[q] : t = plant[q][j]
  BY ItemTag
<1> HIDE DEF t
<1>3. p = q /\ i = j
  <2>1. plant \in Plants /\ p \in DOMAIN plant /\ q \in DOMAIN plant
    BY DEF Shape, Held, PLCs
  <2>2. plant[p][i] = plant[q][j]
    BY <1>1, <1>2
  <2> QED
    BY <2>1, <2>2, OnePlace
<1>4. /\ GoodItems(plant[p], items[p]) /\ n \in 1 .. Len(items[p]) /\ m \in 1 .. Len(items[p])
      /\ k \in 1 .. Len(plant[p]) /\ l \in 1 .. Len(plant[p]) /\ Len(plant[p]) \in Nat
  BY <1>3, ItemTag
<1>5. i \in 1 .. Len(plant[p])
  <2>1. plant[p] \in Seq(Rows)
    BY PlantFacts DEF Shape, Held, PLCs
  <2> QED
    BY <2>1, Elements
<1>6. PICK a \in 1 .. Len(items[p]), b \in 1 .. Len(plant[p]) :
         \A c \in 1 .. Len(items[p]), d \in 1 .. Len(plant[p]) :
            At(items[p], c, d, t) => c = a /\ d = b
  <2>1. \E a \in 1 .. Len(items[p]), b \in 1 .. Len(plant[p]) :
           /\ At(items[p], a, b, plant[p][i])
           /\ \A c \in 1 .. Len(items[p]), d \in 1 .. Len(plant[p]) :
                 At(items[p], c, d, plant[p][i]) => c = a /\ d = b
    BY <1>4, <1>5 DEF GoodItems
  <2> QED
    BY <1>1, <2>1
<1>7. At(items[p], n, k, t) /\ At(items[p], m, l, t)
  BY <1>3 DEF At, t
<1> QED
  BY <1>3, <1>4, <1>6, <1>7

\* What an update leaves in the snapshots.
LEMMA UpdateFacts ==
    ASSUME Sizes, Shape, Values, pc = "wait", Fits(item.req),
           NEW updated \in SUBSET ItemTags, Update(updated),
           items' = items, plant' = plant
    PROVE  DOMAIN stored' = AllTags /\ StoredIsOfTag'
<1>1. /\ elt \in PLCs /\ elt2 \in DOMAIN items[elt] /\ GoodItem(item)
  BY ItemNow
<1>2. stored' = [t \in AllTags |->
                   IF t \in updated /\ ValueAt(item.req, Index(item, t)) # None
                   THEN ValueAt(item.req, Index(item, t)) ELSE stored[t]]
  BY DEF Update
<1>3. item.tags \in Seq(Rows)
  BY <1>1 DEF GoodItem
<1>4. DOMAIN item.tags = 1 .. Len(item.tags)
  BY <1>3, Elements
<1>5. ASSUME NEW p \in PLCs, NEW n \in DOMAIN items[p], Alike(items[p][n]),
             NEW i \in DOMAIN items[p][n].tags
      PROVE  stored'[items[p][n].tags[i]] \in {None, Own(items[p][n].tags[i])}
  <2> DEFINE t == items[p][n].tags[i]
  <2>1. i \in 1 .. Len(items[p][n].tags)
    <3>1. GoodItem(items[p][n])
      <4>1. items[p] # <<>>
        OBVIOUS
      <4>2. GoodItems(plant[p], items[p])
        BY <4>1 DEF Shape, Held
      <4> QED
        BY <4>2 DEF GoodItems
    <3>2. items[p][n].tags \in Seq(Rows)
      BY <3>1 DEF GoodItem
    <3> QED
      BY <3>2, Elements
  <2>2. t \in AllTags
    BY <2>1, ItemTag
  <2>3. stored[t] \in {None, Own(t)}
    BY <1>5 DEF Values, StoredIsOfTag
  <2>4. CASE t \in updated
    <3>1. PICK l \in 1 .. Len(item.tags) : t = item.tags[l]
      BY <1>4, <2>4 DEF ItemTags
    <3>2. p = elt /\ n = elt2
      BY <1>1, <2>1, <3>1, OneItem DEF item
    <3>3. Alike(item)
      BY <1>5, <3>2 DEF item
    <3>4. ValueAt(item.req, Index(item, item.tags[l])) = Own(item.tags[l])
      BY <1>1, <3>3 DEF GoodItem
    <3>5. stored'[t] = Own(t) \/ stored'[t] = stored[t]
      BY <1>2, <2>2, <3>1, <3>4
    <3> QED
      BY <2>3, <3>5
  <2>5. CASE t \notin updated
    BY <1>2, <2>2, <2>3, <2>5
  <2> QED
    BY <2>4, <2>5
<1>6. PLCs' = PLCs
  BY DEF PLCs
<1>7. StoredIsOfTag'
  BY <1>5, <1>6 DEF StoredIsOfTag
<1> QED
  BY <1>2, <1>7

LEMMA ValuesStep ==
    ASSUME Sizes
    PROVE  Shape /\ Shape' /\ Calls /\ Recognised /\ Values /\ [Next]_vars => Values'
<1> SUFFICES ASSUME Shape, Shape', Calls, Recognised, Values, [Next]_vars PROVE Values'
  OBVIOUS
<1>1. DOMAIN stored = AllTags /\ StoredIsOfTag /\ (pc = "start" => \A t \in AllTags : stored[t] = None)
  BY DEF Values
<1>2. ASSUME plant' = plant PROVE PLCs' = PLCs /\ AllTags' = AllTags
  BY <1>2 DEF PLCs, AllTags
<1>3. ASSUME plant' = plant, items' = items, stored' = stored, pc' = "start" => pc = "start"
      PROVE  Values'
  BY <1>1, <1>2, <1>3 DEF Values, StoredIsOfTag
<1>4. CASE Load
  <2>1. plant' = plant /\ stored' = stored /\ pc = "start" /\ pc' # "start"
    BY <1>4 DEF Load
  <2>2. \A t \in AllTags : stored'[t] = None
    BY <1>1, <2>1
  <2>3. StoredIsOfTag'
    <3>1. ASSUME NEW p \in PLCs', NEW n \in DOMAIN items'[p], NEW i \in DOMAIN items'[p][n].tags
          PROVE  items'[p][n].tags[i] \in AllTags
      <4>1. items'[p] # <<>>
        OBVIOUS
      <4>2. GoodItems(plant'[p], items'[p])
        BY <4>1 DEF Shape, Held
      <4>3. GoodItem(items'[p][n]) /\ n \in 1 .. Len(items'[p])
        BY <4>2 DEF GoodItems
      <4>4. items'[p][n].tags \in Seq(Rows)
        BY <4>3 DEF GoodItem
      <4>5. i \in 1 .. Len(items'[p][n].tags)
        BY <4>4, Elements
      <4>6. PICK j \in 1 .. Len(plant'[p]) : items'[p][n].tags[i] = plant'[p][j]
        BY <4>2, <4>3, <4>5 DEF GoodItems
      <4>7. plant'[p] \in Seq(Rows)
        BY <2>1, PlantFacts DEF Shape, Held, PLCs
      <4>8. j \in DOMAIN plant[p] /\ p \in PLCs
        BY <1>2, <2>1, <4>6, <4>7, Elements
      <4> QED
        BY <2>1, <4>6, <4>8 DEF AllTags
    <3> QED
      BY <2>2, <3>1 DEF StoredIsOfTag
  <2> QED
    BY <1>1, <1>2, <2>1, <2>3 DEF Values
<1>5. CASE Round
  <2>1. plant' = plant /\ stored' = stored /\ pc' \in {"ended", "plc"}
        /\ (items' = [p \in PLCs |-> <<>>] \/ items' = items)
    BY <1>5 DEF Round, FreeAll
  <2>2. CASE items' = items
    BY <1>3, <2>1, <2>2
  <2>3. CASE items' = [p \in PLCs |-> <<>>]
    <3>1. \A p \in PLCs : DOMAIN items'[p] = {}
      BY <2>3
    <3>2. StoredIsOfTag'
      BY <1>2, <2>1, <3>1 DEF StoredIsOfTag
    <3> QED
      BY <1>1, <1>2, <2>1, <3>2 DEF Values
  <2> QED
    BY <2>1, <2>2, <2>3
<1>6. CASE Take
  <2> DEFINE o == Outcome(Head(replies[elt]))
  <2>1. /\ plant' = plant /\ items' = items /\ pc = "wait" /\ pc' \in {"item", "check"}
    BY <1>6 DEF Take, NextItem
  <2>2. IF o = "data" THEN TakeData ELSE TakeError(o) /\ Fine
    BY <1>6 DEF Take
  <2>3. CASE o = "data"
    <3>1. Fits(item.req)
      BY <1>6, <2>3, TakesItsOwn
    <3>2. PICK updated \in SUBSET ItemTags : Update(updated)
      <4>1. Update(ItemTags) \/ \E t \in ItemTags : Update(ItemTags \ {t})
        BY <2>2, <2>3 DEF TakeData
      <4> QED
        BY <4>1
    <3>3. DOMAIN stored' = AllTags /\ StoredIsOfTag'
      BY <2>1, <3>1, <3>2, UpdateFacts
    <3> QED
      BY <1>2, <2>1, <3>3 DEF Values
  <2>4. CASE o # "data"
    <3>1. stored' = stored
      <4> HIDE DEF o
      <4> QED
        BY <2>2, <2>4 DEF TakeError
    <3> QED
      BY <1>3, <2>1, <3>1
  <2> QED
    BY <2>3, <2>4
<1>7. CASE NoReply
  <2>1. plant' = plant /\ items' = items /\ stored' = stored /\ pc' \in {"item", "check"}
    BY <1>7 DEF NoReply, TakeError, NextItem
  <2> QED
    BY <1>3, <2>1
<1>8. CASE NotYet \/ NoSocket \/ Enter \/ NotDue \/ Ask \/ Killed \/ Check \/ Sleep
  <2>1. plant' = plant /\ items' = items /\ stored' = stored
    BY <1>8 DEF NotYet, NoSocket, Enter, NotDue, Ask, Killed, Check, Sleep
  <2>2. pc' # "start"
    <3>1. CASE NotDue
      BY <3>1 DEF NotDue, NextItem
    <3>2. CASE NotYet \/ NoSocket \/ Enter \/ Ask \/ Killed \/ Check \/ Sleep
      BY <3>2 DEF NotYet, NoSocket, Enter, Ask, Killed, Check, Sleep, GoOn
    <3> QED
      BY <1>8, <3>1, <3>2
  <2> QED
    BY <1>3, <2>1, <2>2
<1>9. CASE Device \/ Signal \/ Tick \/ UNCHANGED vars
  <2>1. plant' = plant /\ items' = items /\ stored' = stored /\ pc' = pc
    BY <1>9 DEF Device, Signal, Tick, vars, loop
  <2> QED
    BY <1>3, <2>1
<1> QED
  BY <1>4, <1>5, <1>6, <1>7, <1>8, <1>9 DEF Next, Logger

(* _UpdateTag stores for a tag the value of the tag, when also the addresses *)
(* of the device fit a word and a packet fits a request.                     *)
THEOREM OwnValues ==
    ASSUME Sizes
    PROVE  Spec /\ []IdsAreFree => []StoredIsOfTag
<1>1. Init => Values
  <2> SUFFICES ASSUME Init PROVE Values
    OBVIOUS
  <2>1. DOMAIN stored = AllTags /\ \A t \in AllTags : stored[t] = None
    BY DEF Init
  <2>2. \A p \in PLCs : DOMAIN items[p] = {}
    BY DEF Init
  <2>3. StoredIsOfTag
    BY <2>2 DEF StoredIsOfTag
  <2> QED
    BY <2>1, <2>3 DEF Values
<1>2. Shape /\ Shape' /\ Calls /\ Recognised /\ Values /\ [Next]_vars => Values'
  BY ValuesStep
<1>3. Values => StoredIsOfTag
  BY DEF Values
<1> QED
  BY <1>1, <1>2, <1>3, ShapeIsKept, CallsAreKept, RepliesAreRecognised, PTL DEF Spec
=============================================================================
