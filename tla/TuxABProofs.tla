---------------------------- MODULE TuxABProofs -----------------------------
(***************************************************************************)
(* What TuxAB promises, for any plants, tags, times and faults: the open   *)
(* sessions are those of the PLCs, one over which the gateway answers is   *)
(* not given up, and what is stored for a tag is its value.                *)
(***************************************************************************)
EXTENDS TuxAB, FiniteSetTheorems, SequenceTheorems, WellFoundedInduction, TLAPS

-----------------------------------------------------------------------------
(***************************************************************************)
(* Numbers.                                                                *)
(***************************************************************************)

(* A set of numbers that is not empty has a least one, and with a bound a  *)
(* greatest one.                                                           *)
LEMMA LeastExists ==
    ASSUME NEW S \in SUBSET Nat, S # {}
    PROVE  \E n \in S : \A m \in S : n <= m
<1> DEFINE less == OpToRel(<, Nat)
<1>1. IsWellFoundedOn(less, Nat)
  BY NatLessThanWellFounded, Zenon DEF OpToRel
<1>2. \E n \in S : \A m \in S : ~ (<<m, n>> \in less)
  BY <1>1, WFMin
<1>3. PICK n \in S : \A m \in S : ~ (<<m, n>> \in less)
  BY <1>2
<1>4. \A m \in S : ~ m < n
  BY <1>3 DEF OpToRel
<1> QED
  BY <1>4

LEMMA GreatestExists ==
    ASSUME NEW b \in Nat, NEW S \in SUBSET (0 .. b), S # {}
    PROVE  Max(S) \in S /\ \A n \in S : n <= Max(S)
<1> DEFINE bounds == {m \in Nat : \A n \in S : n <= m}
<1>1. b \in bounds /\ bounds \in SUBSET Nat
  OBVIOUS
<1>2. PICK m \in bounds : \A k \in bounds : m <= k
  <2> HIDE DEF bounds
  <2> QED
    BY <1>1, LeastExists
<1>3. m \in S
  <2>1. SUFFICES ASSUME m \notin S PROVE FALSE
    OBVIOUS
  <2>2. \A n \in S : n <= m - 1 /\ m - 1 \in Nat
    BY <2>1
  <2>3. m - 1 \in bounds
    BY <2>2
  <2> QED
    BY <2>3, <1>2
<1>4. \A n \in S : m >= n
  BY <1>2
<1>5. \E x \in S : \A y \in S : x >= y
  BY <1>3, <1>4
<1>6. Max(S) \in S /\ \A y \in S : Max(S) >= y
  BY <1>5 DEF Max
<1> QED
  BY <1>6

LEMMA Remainder ==
    ASSUME NEW w \in Nat \ {0}, NEW q \in Nat, NEW a \in 0 .. w - 1
    PROVE  (w * q + a) % w = a
BY SMTT(30)

-----------------------------------------------------------------------------
(***************************************************************************)
(* Optimise_Plc.                                                           *)
(***************************************************************************)

LEMMA Elements ==
    ASSUME NEW T, NEW s \in Seq(T)
    PROVE  Len(s) \in Nat /\ DOMAIN s = 1 .. Len(s) /\ \A i \in 1 .. Len(s) : s[i] \in T
BY LenProperties, ElementOfSeq

(* There is a walk as Btag describes it. *)
IsWalk(at, n, tags) ==
    at = [i \in 1 .. n |-> IF i > 1 /\ Near(tags[at[i - 1]], tags[i]) THEN at[i - 1] ELSE i]

LEMMA WalkExists ==
    ASSUME NEW n \in Nat, NEW tags
    PROVE  \E at : IsWalk(at, n, tags)
<1> DEFINE Good(m, f) ==
               f = [i \in 1 .. m |-> IF i > 1 /\ Near(tags[f[i - 1]], tags[i]) THEN f[i - 1] ELSE i]
           Bad == {m \in Nat : ~ \E f : Good(m, f)}
<1>1. SUFFICES ASSUME Bad # {} PROVE FALSE
  BY DEF IsWalk
<1>2. PICK m \in Bad : \A k \in Bad : m <= k
  <2> HIDE DEF Good
  <2>1. Bad \in SUBSET Nat
    OBVIOUS
  <2> HIDE DEF Bad
  <2> QED
    BY <1>1, <2>1, LeastExists
<1>3. m \in Nat /\ ~ \E f : Good(m, f)
  <2> HIDE DEF Good
  <2> QED
    OBVIOUS
<1>4. m # 0
  <2>1. Good(0, [i \in 1 .. 0 |-> 0])
    OBVIOUS
  <2> HIDE DEF Good, Bad
  <2> QED
    BY <2>1, <1>3
<1>5. m - 1 \in Nat /\ m - 1 < m
  <2> HIDE DEF Good, Bad
  <2> QED
    BY <1>3, <1>4
<1>6. PICK f : Good(m - 1, f)
  <2> HIDE DEF Good
  <2> QED
    BY <1>2, <1>3, <1>5
<1> HIDE DEF Bad
<1> DEFINE g == [i \in 1 .. m |-> IF i > 1 /\ Near(tags[f[i - 1]], tags[i]) THEN f[i - 1] ELSE i]
<1>7. \A i \in 1 .. m - 1 : i \in 1 .. m /\ f[i] = g[i]
  BY <1>3, <1>5, <1>6
<1>8. \A i \in 1 .. m : i > 1 => f[i - 1] = g[i - 1]
  <2>1. \A i \in 1 .. m : i > 1 => i - 1 \in 1 .. m - 1
    BY <1>3
  <2> HIDE DEF g
  <2> QED
    BY <1>7, <2>1
<1>9. Good(m, g)
  BY <1>8
<1> HIDE DEF Good, g
<1> QED
  BY <1>9, <1>3

LEMMA BtagIsWalk ==
    ASSUME NEW s \in Seq(Tag)
    PROVE  \A n \in 1 .. Len(s) :
              Btag(s)[n] = IF n > 1 /\ Near(s[Btag(s)[n - 1]], s[n]) THEN Btag(s)[n - 1] ELSE n
<1> DEFINE at == Btag(s)
<1>1. Len(s) \in Nat /\ DOMAIN s = 1 .. Len(s)
  BY Elements
<1>2. \E f : IsWalk(f, Len(s), s)
  BY <1>1, WalkExists
<1>3. at = CHOOSE f : IsWalk(f, Len(s), s)
  BY <1>1 DEF Btag, IsWalk
<1>4. IsWalk(at, Len(s), s)
  <2> HIDE DEF at
  <2> QED
    BY <1>2, <1>3
<1> HIDE DEF at
<1> QED
  BY <1>4 DEF IsWalk, at

(* Who has btag as its btag, and all in between. *)
LEMMA BtagFacts ==
    ASSUME NEW s \in Seq(Tag), NEW n \in 1 .. Len(s)
    PROVE  /\ Btag(s)[n] \in 1 .. n
           /\ \A m \in Btag(s)[n] .. n : Btag(s)[m] = Btag(s)[n]
           /\ Btag(s)[n] = n \/ Near(s[Btag(s)[n]], s[n])
<1> DEFINE b == Btag(s)
           Good(k) == /\ b[k] \in 1 .. k
                      /\ \A m \in b[k] .. k : b[m] = b[k]
                      /\ b[k] = k \/ Near(s[b[k]], s[k])
           Bad == {k \in 1 .. Len(s) : ~ Good(k)}
<1>1. Len(s) \in Nat
  BY Elements
<1>2. \A k \in 1 .. Len(s) : b[k] = IF k > 1 /\ Near(s[b[k - 1]], s[k]) THEN b[k - 1] ELSE k
  BY BtagIsWalk
<1> HIDE DEF b
<1>3. Bad = {}
  <2>1. SUFFICES ASSUME Bad # {} PROVE FALSE
    OBVIOUS
  <2>2. PICK k \in Bad : \A j \in Bad : k <= j
    <3>1. Bad \in SUBSET Nat
      OBVIOUS
    <3> HIDE DEF Bad
    <3> QED
      BY <2>1, <3>1, LeastExists
  <2>3. k \in 1 .. Len(s) /\ ~ Good(k)
    <3> HIDE DEF Good
    <3> QED
      OBVIOUS
  <2>4. CASE k > 1 /\ Near(s[b[k - 1]], s[k])
    <3>1. k - 1 \in 1 .. Len(s) /\ k - 1 < k
      BY <2>3, <2>4, <1>1
    <3>2. Good(k - 1)
      <4> HIDE DEF Good
      <4> QED
        BY <2>2, <3>1
    <3>3. b[k] = b[k - 1]
      BY <1>2, <2>3, <2>4
    <3>4. \A m \in b[k] .. k : b[m] = b[k]
      BY <3>1, <3>2, <3>3
    <3> QED
      BY <2>3, <2>4, <3>1, <3>2, <3>3, <3>4
  <2>5. CASE ~ (k > 1 /\ Near(s[b[k - 1]], s[k]))
    <3>1. b[k] = k
      BY <1>2, <2>3, <2>5
    <3> QED
      BY <2>3, <3>1, <1>1
  <2> QED
    BY <2>4, <2>5
<1>4. Good(n)
  <2> HIDE DEF Good
  <2> QED
    BY <1>3
<1> QED
  BY <1>4 DEF b

(* A group is the tags from its btag on whose btag it is. *)
LEMMA GroupFacts ==
    ASSUME NEW s \in Seq(Tag), NEW b \in Btags(s)
    PROVE  \E z \in b .. Len(s) :
              /\ Group(s, b) \in Seq(Tag) /\ Len(Group(s, b)) = z - b + 1
              /\ \A k \in 1 .. z - b + 1 : Group(s, b)[k] = s[b + k - 1]
              /\ \A n \in 1 .. Len(s) : Btag(s)[n] = b <=> n \in b .. z
<1> DEFINE S == {n \in DOMAIN s : Btag(s)[n] = b}
           z == Max(S)
<1>1. Len(s) \in Nat /\ DOMAIN s = 1 .. Len(s) /\ \A i \in 1 .. Len(s) : s[i] \in Tag
  BY Elements
<1>2. b \in 1 .. Len(s) /\ Btag(s)[b] = b
  BY <1>1 DEF Btags
<1>3. S \in SUBSET (0 .. Len(s)) /\ b \in S
  BY <1>1, <1>2
<1>4. z \in S /\ \A n \in S : n <= z
  <2> HIDE DEF S
  <2> QED
    BY <1>1, <1>3, GreatestExists
<1>5. z \in b .. Len(s)
  BY <1>1, <1>2, <1>3, <1>4
<1>6. \A i \in b .. z : i \in 1 .. Len(s) /\ s[i] \in Tag
  BY <1>1, <1>2, <1>5
<1>7. ASSUME NEW n \in 1 .. Len(s) PROVE Btag(s)[n] = b <=> n \in b .. z
  <2>1. Btag(s)[n] = b => n \in b .. z
    <3>1. Btag(s)[n] \in 1 .. n
      BY BtagFacts
    <3> QED
      BY <1>1, <1>2, <1>4, <1>5, <3>1
  <2>2. z \in 1 .. Len(s) /\ Btag(s)[z] = b
    BY <1>1, <1>4
  <2>3. \A m \in Btag(s)[z] .. z : Btag(s)[m] = Btag(s)[z]
    BY <2>2, BtagFacts
  <2> QED
    BY <2>1, <2>2, <2>3
<1>8. Group(s, b) = SubSeq(s, b, z)
  BY DEF Group
<1> HIDE DEF z, S
<1>9. b \in Int /\ z \in Int /\ b <= z
  BY <1>2, <1>5
<1>10. /\ SubSeq(s, b, z) \in Seq(Tag)
       /\ Len(SubSeq(s, b, z)) = IF b <= z THEN z - b + 1 ELSE 0
       /\ \A i \in 1 .. z - b + 1 : SubSeq(s, b, z)[i] = s[b + i - 1]
  BY <1>6, <1>9, SubSeqProperties
<1>11. Len(SubSeq(s, b, z)) = z - b + 1
  BY <1>9, <1>10
<1> WITNESS z \in b .. Len(s)
<1> QED
  BY <1>7, <1>8, <1>10, <1>11

LEMMA SampleType ==
    ASSUME NEW g \in Seq(Tag), Len(g) > 0
    PROVE  Sample(g) \in Nat
<1> DEFINE S == {g[i].sample : i \in DOMAIN g}
<1>1. Len(g) \in Nat /\ DOMAIN g = 1 .. Len(g) /\ \A i \in 1 .. Len(g) : g[i] \in Tag
  BY Elements
<1>2. S \in SUBSET Nat
  BY <1>1 DEF Tag
<1>3. S # {}
  <2>1. 1 \in DOMAIN g
    BY <1>1
  <2>2. g[1].sample \in S
    BY <2>1
  <2> QED
    BY <2>2
<1>4. \E s \in S : \A r \in S : s <= r
  <2> HIDE DEF S
  <2> QED
    BY <1>2, <1>3, LeastExists
<1>5. \E s \in S : \A i \in DOMAIN g : s <= g[i].sample
  BY <1>4
<1>6. Sample(g) \in S
  BY <1>5 DEF Sample
<1> QED
  BY <1>2, <1>6

(* What an item of PLC p is made of: tags of p, all of one file.           *)
Packable(p) == {ts \in Seq(Tags(p)) : /\ Len(ts) > 0
                                      /\ \A i \in 1 .. Len(ts) : ts[i].file = ts[1].file}
ItemsOf(p) == {Item(ts) : ts \in Packable(p)}

PlantOK == plant \in Seq(Plc) /\ plant # <<>> /\ Len(plant) <= Cardinality(Sessions)

LEMMA PlcFacts ==
    ASSUME PlantOK
    PROVE  /\ Len(plant) \in Nat /\ Len(plant) >= 1 /\ PLCs = 1 .. Len(plant)
           /\ \A p \in PLCs : plant[p] \in Plc /\ plant[p].tags \in Seq(Tag)
<1>1. Len(plant) \in Nat /\ PLCs = 1 .. Len(plant) /\ \A p \in PLCs : plant[p] \in Plc
  BY Elements DEF PlantOK, PLCs
<1>2. Len(plant) # 0
  BY EmptySeq DEF PlantOK
<1> QED
  BY <1>1, <1>2 DEF Plc

LEMMA TagFacts ==
    ASSUME PlantOK, NEW p \in PLCs
    PROVE  /\ Tags(p) \in SUBSET Tag
           /\ \A i \in 1 .. Len(plant[p].tags) : plant[p].tags[i] \in Tags(p)
<1>1. plant[p].tags \in Seq(Tag)
  BY PlcFacts
<1>2. DOMAIN plant[p].tags = 1 .. Len(plant[p].tags) /\ \A i \in 1 .. Len(plant[p].tags) : plant[p].tags[i] \in Tag
  BY <1>1, Elements
<1> QED
  BY <1>2 DEF Tags, ToSet

LEMMA SortingIsOfTags ==
    ASSUME NEW T, NEW tags \in Seq(T), NEW s \in Sortings(tags)
    PROVE  s \in Seq(T) /\ Len(s) = Len(tags)
<1> DEFINE n == Len(tags)
<1>1. n \in Nat /\ DOMAIN tags = 1 .. n /\ \A i \in 1 .. n : tags[i] \in T
  BY Elements
<1>2. PICK f \in Orders(DOMAIN tags, ByAddress(tags)) : s = [i \in DOMAIN tags |-> tags[f[i]]]
  BY DEF Sortings
<1> HIDE DEF n
<1>3. Cardinality(1 .. n) = n
  BY <1>1, FS_Interval
<1>4. f \in Bijection(1 .. n, 1 .. n)
  BY <1>1, <1>2, <1>3 DEF Orders
<1>5. f \in [1 .. n -> 1 .. n]
  BY <1>4 DEF Bijection, Injection
<1>6. s = [i \in 1 .. n |-> tags[f[i]]] /\ \A i \in 1 .. n : tags[f[i]] \in T
  BY <1>1, <1>2, <1>5
<1>7. s \in [1 .. n -> T]
  BY <1>6
<1> QED
  BY <1>1, <1>6, <1>7 DEF n

(* The groups of the tags of p can be packed. *)
LEMMA GroupIsPackable ==
    ASSUME PlantOK, NEW p \in PLCs, NEW s \in Seq(Tags(p)), NEW b \in Btags(s)
    PROVE  Group(s, b) \in Packable(p)
<1> DEFINE g == Group(s, b)
<1>1. Tags(p) \in SUBSET Tag
  BY TagFacts
<1>2. s \in Seq(Tag)
  <2>1. Len(s) \in Nat /\ DOMAIN s = 1 .. Len(s) /\ \A i \in 1 .. Len(s) : s[i] \in Tags(p)
    BY Elements
  <2> QED
    BY <1>1, <2>1
<1>3. PICK z \in b .. Len(s) :
          /\ Len(g) = z - b + 1
          /\ \A k \in 1 .. z - b + 1 : g[k] = s[b + k - 1]
          /\ g \in Seq(Tag)
          /\ \A n \in 1 .. Len(s) : Btag(s)[n] = b <=> n \in b .. z
  BY <1>2, GroupFacts
<1>4. Len(s) \in Nat /\ DOMAIN s = 1 .. Len(s) /\ \A i \in 1 .. Len(s) : s[i] \in Tags(p)
  BY Elements
<1>5. b \in 1 .. Len(s) /\ z \in Int /\ b <= z /\ z <= Len(s)
  BY <1>4 DEF Btags
<1> HIDE DEF g
<1>6. ASSUME NEW k \in 1 .. Len(g)
      PROVE  g[k] \in Tags(p) /\ g[k].file = g[1].file
  <2>1. /\ b + k - 1 \in 1 .. Len(s) /\ b + k - 1 \in b .. z /\ 1 \in 1 .. z - b + 1
        /\ k \in 1 .. z - b + 1 /\ b + 1 - 1 = b
    BY <1>3, <1>4, <1>5
  <2>2. g[k] = s[b + k - 1] /\ g[1] = s[b]
    BY <1>3, <2>1
  <2>3. Btag(s)[b + k - 1] = b
    BY <1>3, <2>1
  <2>4. b = b + k - 1 \/ Near(s[b], s[b + k - 1])
    BY <1>2, <2>1, <2>3, BtagFacts
  <2>5. s[b].file = s[b + k - 1].file
    BY <2>4 DEF Near
  <2> QED
    BY <1>4, <2>1, <2>2, <2>5
<1>7. g \in Seq(Tags(p))
  <2>1. Len(g) \in Nat /\ DOMAIN g = 1 .. Len(g) /\ g = [k \in 1 .. Len(g) |-> g[k]]
    BY <1>3, Elements
  <2> QED
    BY <1>6, <2>1
<1>8. Len(g) > 0
  BY <1>3, <1>5
<1> QED
  BY <1>6, <1>7, <1>8 DEF Packable, g

(* The items of a PLC are made of its tags. *)
LEMMA OptimisedIsOfTags ==
    ASSUME PlantOK, NEW p \in PLCs, NEW list \in Optimise(p)
    PROVE  list \in Seq(ItemsOf(p))
<1> DEFINE tags == plant[p].tags
<1>1. tags \in Seq(Tags(p)) /\ Len(tags) \in Nat /\ DOMAIN tags = 1 .. Len(tags)
      /\ \A i \in 1 .. Len(tags) : tags[i] \in Tags(p)
  <2>1. tags \in Seq(Tag)
    BY PlcFacts
  <2>2. \A i \in 1 .. Len(tags) : tags[i] \in Tags(p)
    BY TagFacts
  <2>3. Len(tags) \in Nat /\ DOMAIN tags = 1 .. Len(tags) /\ tags = [i \in 1 .. Len(tags) |-> tags[i]]
    BY <2>1, Elements
  <2> HIDE DEF tags
  <2> QED
    BY <2>2, <2>3
<1>2. CASE list = [n \in DOMAIN tags |-> Item(<<tags[n]>>)]
  <2> HIDE DEF tags
  <2>1. ASSUME NEW n \in 1 .. Len(tags) PROVE Item(<<tags[n]>>) \in ItemsOf(p)
    <3>1. <<tags[n]>> \in Packable(p)
      BY <1>1 DEF Packable
    <3> QED
      BY <3>1 DEF ItemsOf
  <2>2. list \in [1 .. Len(tags) -> ItemsOf(p)]
    BY <1>1, <1>2, <2>1
  <2> QED
    BY <1>1, <2>2
<1>3. CASE list \in Packed(tags)
  <2> HIDE DEF tags
  <2>0. PICK s \in Sortings(tags) :
            list \in {[n \in DOMAIN f |-> Item(Group(s, f[n]))] : f \in Orders(Btags(s), Sooner(s))}
    BY <1>3 DEF Packed
  <2>1. PICK f \in Orders(Btags(s), Sooner(s)) : list = [n \in DOMAIN f |-> Item(Group(s, f[n]))]
    BY <2>0
  <2>2. s \in Seq(Tags(p)) /\ Len(s) = Len(tags)
    BY <1>1, SortingIsOfTags
  <2> DEFINE B == Btags(s)
             m == Cardinality(B)
  <2>3. B \in SUBSET (1 .. Len(tags))
    <3>1. DOMAIN s = 1 .. Len(tags)
      BY <2>2, Elements
    <3> QED
      BY <3>1 DEF Btags
  <2>4. m \in Nat
    <3>1. IsFiniteSet(1 .. Len(tags))
      BY <1>1, FS_Interval
    <3> HIDE DEF B
    <3> QED
      BY <2>3, <3>1, FS_Subset, FS_CardinalityType
  <2>5. f \in [1 .. m -> B] /\ DOMAIN f = 1 .. m
    BY DEF Orders, Bijection, Injection
  <2>6. ASSUME NEW n \in 1 .. m PROVE Item(Group(s, f[n])) \in ItemsOf(p)
    <3>1. Group(s, f[n]) \in Packable(p)
      BY <2>2, <2>5, GroupIsPackable
    <3> QED
      BY <3>1 DEF ItemsOf
  <2> HIDE DEF m
  <2>7. list \in [1 .. m -> ItemsOf(p)]
    BY <2>1, <2>5, <2>6
  <2> QED
    BY <2>4, <2>7
<1> QED
  BY <1>2, <1>3 DEF Optimise

(* An item and its tags. *)
LEMMA ItemFacts ==
    ASSUME PlantOK, NEW p \in PLCs, NEW it \in ItemsOf(p)
    PROVE  /\ it.sample \in Nat
           /\ it.tags \in Seq(Tags(p)) /\ Len(it.tags) > 0
           /\ \A i \in 1 .. Len(it.tags) : it.tags[i].file = it.tags[1].file
<1>1. PICK ts \in Packable(p) : it = Item(ts)
  BY DEF ItemsOf
<1>2. ts \in Seq(Tags(p)) /\ Len(ts) > 0 /\ \A i \in 1 .. Len(ts) : ts[i].file = ts[1].file
  BY DEF Packable
<1>3. ts \in Seq(Tag)
  <2>1. Len(ts) \in Nat /\ ts = [i \in 1 .. Len(ts) |-> ts[i]] /\ \A i \in 1 .. Len(ts) : ts[i] \in Tags(p)
    BY <1>2, Elements
  <2> QED
    BY <2>1, TagFacts
<1>4. it.sample = Sample(ts) /\ it.tags = ts
  BY <1>1 DEF Item
<1> QED
  BY <1>2, <1>3, <1>4, SampleType

-----------------------------------------------------------------------------
(***************************************************************************)
(* The links.  Good(l) holds of every value of link on the way: open       *)
(* sessions are those of the PLCs; a connection is to its device, unless a *)
(* late reply has been taken for another at its gateway; and when names    *)
(* are Distinct, a session is to the gateway, and a connection to the      *)
(* device, of each PLC that has it.                                        *)
(***************************************************************************)
LinkTyped(l) ==
    /\ DOMAIN l = {"sess", "session", "connection", "held", "late", "serial", "faults", "slow", "mixed", "killed"}
    /\ l.sess \in [Sessions -> Session \union {None}]
    /\ \A s \in Sessions : l.sess[s] # None => l.sess[s].ip \in Gateways
    /\ l.session \in [PLCs -> Sessions \union {None}]
    /\ DOMAIN l.connection = PLCs
    /\ l.serial \in 0 .. SerialRange - 1
    /\ l.faults \in Nat

Used(l) == /\ \A p \in PLCs : l.session[p] # None => l.sess[l.session[p]] # None
           /\ \A s \in Sessions : l.sess[s] # None => \E p \in PLCs : l.session[p] = s

Exact(l) == \A p \in PLCs : /\ l.session[p] # None => l.sess[l.session[p]].ip = plant[p].ip
                            /\ l.connection[p] # None => l.connection[p].device = Of(p)

(* The device of the connection to which the identifier in c leads.        *)
Leads(c, mixed) == c.to # None => c.to.device = c.device \/ c.device[1] \in mixed
Aimed(l) == \A p \in PLCs : l.connection[p] # None => Leads(l.connection[p], l.mixed)

Good(l) == LinkTyped(l) /\ Used(l) /\ Aimed(l) /\ (Distinct => Exact(l))

(* What may change without anybody noticing: the state of a connection     *)
(* that stays open, what devices know, and how much may still go wrong.    *)
Alike(l, m) ==
    /\ DOMAIN m = DOMAIN l
    /\ m.session = l.session /\ m.connection = l.connection /\ m.serial = l.serial
    /\ m.sess \in [Sessions -> Session \union {None}]
    /\ \A s \in Sessions : /\ m.sess[s] = None <=> l.sess[s] = None
                           /\ l.sess[s] # None => m.sess[s].ip = l.sess[s].ip
    /\ m.faults \in Nat /\ m.faults <= l.faults /\ l.mixed \subseteq m.mixed

(* No session is given up from l to m; or only one that does not answer.   *)
Keeps(l, m) == /\ m.faults <= l.faults /\ l.mixed \subseteq m.mixed
               /\ \A s \in Sessions : l.sess[s] # None => m.sess[s] # None
Silent(l, s, m) == \/ l.sess[s].tcp # "up" \/ l.sess[s].ip \in down
                   \/ m.faults < l.faults \/ \E r \in l.late : r.over = s
Drops(l, m) == /\ m.faults <= l.faults /\ l.mixed \subseteq m.mixed
               /\ \A s \in Sessions : l.sess[s] # None /\ m.sess[s] = None => Silent(l, s, m)

LEMMA Constants ==
    /\ SerialRange \in Nat /\ SerialRange > 0 /\ NextSample \in Nat /\ Wait \in Nat /\ Long \in Nat
    /\ MAX_ERR_BEFORE_CHECK \in Nat /\ Sessions \in SUBSET Nat /\ IsFiniteSet(Sessions)
    /\ None \notin Nat /\ None \notin Sessions /\ None \notin Session /\ Base \in Nat
BY ABAssumption

LEMMA AlikeIsGood ==
    ASSUME NEW l, Good(l), NEW m, Alike(l, m)
    PROVE  Good(m) /\ Keeps(l, m)
<1>1. LinkTyped(m)
  BY DEF Good, LinkTyped, Alike
<1>2. Used(m)
  BY DEF Good, LinkTyped, Used, Alike
<1>3. Distinct => Exact(m)
  <2> SUFFICES ASSUME Distinct PROVE Exact(m)
    OBVIOUS
  <2>1. Exact(l) /\ m.session = l.session /\ m.connection = l.connection
    BY DEF Good, Alike
  <2>2. ASSUME NEW p \in PLCs, l.session[p] # None PROVE m.sess[l.session[p]].ip = plant[p].ip
    <3>1. l.session[p] \in Sessions /\ l.sess[l.session[p]] # None /\ l.sess[l.session[p]].ip = plant[p].ip
      BY <2>1, <2>2 DEF Good, LinkTyped, Used, Exact
    <3> QED
      BY <3>1 DEF Alike
  <2> QED
    BY <2>1, <2>2 DEF Exact
<1>4. Keeps(l, m)
  BY DEF Alike, Keeps
<1>5. Aimed(m)
  BY DEF Good, Aimed, Leads, Alike
<1> QED
  BY <1>1, <1>2, <1>3, <1>4, <1>5 DEF Good

LEMMA AlikeItself ==
    ASSUME NEW l, LinkTyped(l) PROVE Alike(l, l)
BY DEF LinkTyped, Alike

LEMMA AlikeAgain ==
    ASSUME NEW l, LinkTyped(l), NEW m, Alike(l, m), NEW n, Alike(m, n)
    PROVE  Alike(l, n)
<1>1. n.faults <= l.faults
  BY DEF LinkTyped, Alike
<1> QED
  BY <1>1 DEF Alike

(* What devices know, and which replies are late, does not matter.         *)
Same(l, m) ==
    /\ DOMAIN m = DOMAIN l /\ m.faults = l.faults /\ m.sess = l.sess /\ m.session = l.session
    /\ m.connection = l.connection /\ m.serial = l.serial /\ l.mixed \subseteq m.mixed

LEMMA SameIsAlike ==
    ASSUME NEW l, LinkTyped(l), NEW m, Same(l, m) PROVE Alike(l, m) /\ LinkTyped(m)
BY DEF LinkTyped, Alike, Same

(* Something more that has gone wrong. *)
LEMMA SpentIsAlike ==
    ASSUME NEW l, LinkTyped(l), NEW f \in Spent(l)
    PROVE  /\ Alike(l, f) /\ LinkTyped(f) /\ f.faults < l.faults /\ f.sess = l.sess
           /\ f.late = l.late /\ f.mixed = l.mixed
<1>1. l.faults > 0 /\ f = [l EXCEPT !.faults = l.faults - 1]
  BY DEF Spent
<1>2. /\ DOMAIN f = DOMAIN l /\ f.faults = l.faults - 1 /\ f.sess = l.sess /\ f.late = l.late
      /\ f.session = l.session /\ f.connection = l.connection /\ f.serial = l.serial
      /\ f.mixed = l.mixed
  BY <1>1 DEF LinkTyped
<1>3. f.faults \in Nat /\ f.faults < l.faults
  BY <1>1, <1>2 DEF LinkTyped
<1> QED
  BY <1>2, <1>3 DEF LinkTyped, Alike

(* A reply that may come late. *)
LEMMA GivenUpIsSame ==
    ASSUME NEW l, LinkTyped(l), NEW mine, NEW g \in GivenUp(l, mine) PROVE Same(l, g)
<1>1. CASE g = l
  BY <1>1 DEF Same
<1>2. CASE g = [l EXCEPT !.late = l.late \union {mine}, !.slow = l.slow - 1]
  BY <1>2 DEF Same, LinkTyped
<1> QED
  BY <1>1, <1>2 DEF GivenUp

(* A late reply that is taken was late, and of this session. *)
LEMMA TakenFacts ==
    ASSUME NEW l, LinkTyped(l), NEW s, NEW mine, NEW q \in Taken(l, s, mine)
    PROVE  Same(l, q.l) /\ q.res = "late" /\ q.of \in l.late /\ q.of.over = s
<1>1. PICK r \in {x \in l.late : x.over = s} :
          q \in {[l |-> m, res |-> "late", of |-> r] : m \in GivenUp([l EXCEPT !.late = l.late \ {r}], mine)}
  BY DEF Taken
<1> DEFINE k == [l EXCEPT !.late = l.late \ {r}]
<1>2. PICK m \in GivenUp(k, mine) : q = [l |-> m, res |-> "late", of |-> r]
  BY <1>1
<1>3. Same(l, k) /\ DOMAIN k = DOMAIN l
  BY DEF Same, LinkTyped
<1> HIDE DEF k
<1>4. LinkTyped(k)
  BY <1>3, SameIsAlike
<1>5. Same(k, m)
  BY <1>2, <1>4, GivenUpIsSame
<1> QED
  BY <1>1, <1>2, <1>3, <1>5 DEF Same

LEMMA DiedIsAlike ==
    ASSUME NEW l, LinkTyped(l)
    PROVE  Alike(l, Died(l).l) /\ Died(l).res = "garbage"
<1> DEFINE m == [l EXCEPT !.killed = TRUE]
<1>1. Same(l, m)
  BY DEF LinkTyped, Same
<1>2. Died(l).l = m /\ Died(l).res = "garbage"
  BY DEF Died, R
<1> HIDE DEF m
<1> QED
  BY <1>1, <1>2, SameIsAlike

(* A session whose reset becomes known. *)
LEMMA BrokenIsAlike ==
    ASSUME NEW l, LinkTyped(l), NEW s \in Sessions, l.sess[s] # None
    PROVE  Alike(l, [l EXCEPT !.sess[s].tcp = "broken"])
<1> DEFINE m == [l EXCEPT !.sess[s].tcp = "broken"]
           t == [l.sess[s] EXCEPT !.tcp = "broken"]
<1>1. l.sess[s] \in Session /\ l.sess \in [Sessions -> Session \union {None}]
  BY DEF LinkTyped
<1>2. t \in Session /\ t.ip = l.sess[s].ip
  BY <1>1 DEF Session
<1>3. t # None
  BY <1>2, Constants
<1>4. /\ DOMAIN m = DOMAIN l /\ m.faults = l.faults /\ m.sess = [l.sess EXCEPT ![s] = t]
      /\ m.session = l.session /\ m.connection = l.connection /\ m.serial = l.serial
      /\ m.mixed = l.mixed
  BY DEF LinkTyped
<1> HIDE DEF m, t
<1>5. /\ m.sess \in [Sessions -> Session \union {None}]
      /\ \A x \in Sessions : m.sess[x] = IF x = s THEN t ELSE l.sess[x]
  BY <1>1, <1>2, <1>4
<1>6. \A x \in Sessions : /\ m.sess[x] = None <=> l.sess[x] = None
                          /\ l.sess[x] # None => m.sess[x].ip = l.sess[x].ip
  BY <1>2, <1>3, <1>5
<1>7. Alike(l, m)
  BY <1>4, <1>5, <1>6 DEF LinkTyped, Alike
<1> QED
  BY <1>7 DEF m

(* A request leaves everything as it is, and a gateway that is there       *)
(* answers unless something more goes wrong or a late reply comes first.   *)
LEMMA RequestIsAlike ==
    ASSUME NEW l, LinkTyped(l), NEW s \in Sessions, l.sess[s] # None, NEW mine, NEW r \in Request(l, s, mine)
    PROVE  /\ Alike(l, r.l) /\ LinkTyped(r.l)
           /\ r.res \in {"reply", "late", "silence", "garbage"}
           /\ r.res = "late" => r.of.over = s
           /\ r.res # "reply" => Silent(l, s, r.l)
<1> DEFINE tcp == l.sess[s].tcp
<1>1. tcp \in {"up", "cut", "reset", "broken", "freed"}
  BY DEF LinkTyped, Session
<1>2. Alike(l, l)
  BY AlikeItself
<1>a. ASSUME NEW m, Alike(l, m) PROVE LinkTyped(m)
  BY <1>a DEF LinkTyped, Alike
<1>3. CASE tcp = "up" /\ l.sess[s].ip \notin down
  <2>1. r \in {R(l, "reply")} \union Taken(l, s, mine)
             \union UNION {{R(m, "silence") : m \in GivenUp(f, mine)} : f \in Spent(l)}
    BY <1>3 DEF Request
  <2>2. CASE r = R(l, "reply")
    BY <1>2, <2>2 DEF R
  <2>3. CASE r \in Taken(l, s, mine)
    <3>1. Same(l, r.l) /\ r.res = "late" /\ r.of \in l.late /\ r.of.over = s
      BY <2>3, TakenFacts
    <3>2. Alike(l, r.l) /\ LinkTyped(r.l)
      BY <3>1, SameIsAlike
    <3> QED
      BY <3>1, <3>2 DEF Silent
  <2>4. CASE \E f \in Spent(l) : \E m \in GivenUp(f, mine) : r = R(m, "silence")
    <3>0. PICK f \in Spent(l) : \E m \in GivenUp(f, mine) : r = R(m, "silence")
      BY <2>4
    <3>1. PICK m \in GivenUp(f, mine) : r = R(m, "silence")
      BY <3>0
    <3>2. Alike(l, f) /\ f.faults < l.faults /\ LinkTyped(f)
      BY <3>1, SpentIsAlike
    <3>3. Same(f, m)
      BY <3>1, <3>2, GivenUpIsSame
    <3>4. Alike(f, m)
      BY <3>2, <3>3, SameIsAlike
    <3>5. Alike(l, m)
      BY <3>2, <3>4, AlikeAgain
    <3>6. r.l = m /\ r.res = "silence" /\ m.faults < l.faults
      BY <3>1, <3>2, <3>3 DEF R, Same
    <3> QED
      BY <1>a, <3>5, <3>6 DEF Silent
  <2> QED
    BY <2>1, <2>2, <2>3, <2>4
<1>4. CASE tcp = "cut" \/ (tcp = "up" /\ l.sess[s].ip \in down)
  <2>1. \E m : r = R(m, "silence") /\ (m = l \/ m \in GivenUp(l, mine))
    BY <1>4 DEF Request
  <2>2. PICK m : r = R(m, "silence") /\ (m = l \/ m \in GivenUp(l, mine))
    BY <2>1
  <2>3. Same(l, m)
    BY <2>2, GivenUpIsSame DEF Same
  <2>4. r.l = m /\ r.res = "silence"
    BY <2>2 DEF R
  <2>5. Alike(l, m) /\ LinkTyped(m)
    BY <2>3, SameIsAlike
  <2> QED
    BY <1>4, <2>4, <2>5 DEF Silent
<1>5. CASE tcp = "reset"
  <2>1. r \in {R([l EXCEPT !.sess[s].tcp = "broken"], "garbage"), Died(l)}
    BY <1>5 DEF Request
  <2>2. Silent(l, s, r.l)
    BY <1>5 DEF Silent
  <2>3. CASE r = R([l EXCEPT !.sess[s].tcp = "broken"], "garbage")
    <3>1. r.l = [l EXCEPT !.sess[s].tcp = "broken"] /\ r.res = "garbage"
      BY <2>3 DEF R
    <3>2. Alike(l, r.l)
      BY <3>1, BrokenIsAlike
    <3> QED
      BY <1>a, <2>2, <3>1, <3>2
  <2>4. CASE r = Died(l)
    <3>1. Alike(l, r.l) /\ r.res = "garbage"
      BY <2>4, DiedIsAlike
    <3> QED
      BY <1>a, <2>2, <3>1
  <2> QED
    BY <2>1, <2>3, <2>4
<1>6. CASE tcp = "broken"
  <2>1. r = Died(l)
    BY <1>6 DEF Request
  <2>2. Alike(l, r.l) /\ r.res = "garbage"
    BY <2>1, DiedIsAlike
  <2> QED
    BY <1>6, <1>a, <2>2 DEF Silent
<1>7. CASE tcp = "freed"
  <2>1. r \in {R(l, "garbage"), Died(l)}
    BY <1>7 DEF Request
  <2>2. Silent(l, s, r.l)
    BY <1>7 DEF Silent
  <2>3. Alike(l, r.l) /\ r.res = "garbage"
    BY <1>2, <2>1, DiedIsAlike DEF R
  <2> QED
    BY <1>a, <2>2, <2>3
<1> QED
  BY <1>1, <1>3, <1>4, <1>5, <1>6, <1>7

-----------------------------------------------------------------------------
(***************************************************************************)
(* Sessions.                                                               *)
(***************************************************************************)
LEMMA FirstIs ==
    ASSUME NEW P \in SUBSET Nat, P # {} PROVE First(P) \in P
BY LeastExists DEF First

(* There is memory for the session of a PLC that has none. *)
LEMMA NewSessionIsFree ==
    ASSUME PlantOK, NEW l, Good(l), NEW p \in PLCs, l.session[p] = None
    PROVE  NewSession(l) \in Sessions /\ l.sess[NewSession(l)] = None
<1> DEFINE free == {s \in Sessions : l.sess[s] = None}
           others == PLCs \ {p}
           used == {l.session[q] : q \in others}
<1>1. IsFiniteSet(PLCs) /\ Cardinality(PLCs) = Len(plant) /\ Len(plant) \in Nat
  <2>1. Len(plant) \in Nat /\ PLCs = 1 .. Len(plant) /\ Len(plant) >= 1
    BY PlcFacts
  <2> DEFINE n == Len(plant)
  <2>2. 1 \in Int /\ n \in Int
    BY <2>1
  <2> HIDE DEF n
  <2>3. IsFiniteSet(1 .. n) /\ Cardinality(1 .. n) = IF 1 > n THEN 0 ELSE n - 1 + 1
    BY <2>2, FS_Interval
  <2>4. n \in Nat /\ PLCs = 1 .. n /\ n >= 1
    BY <2>1 DEF n
  <2>5. Cardinality(PLCs) = n
    BY <2>3, <2>4
  <2> QED
    BY <2>3, <2>4, <2>5 DEF n
<1>2. IsFiniteSet(others) /\ Cardinality(others) = Len(plant) - 1
  BY <1>1, FS_RemoveElement
<1>3. IsFiniteSet(used) /\ Cardinality(used) <= Cardinality(others)
  <2> DEFINE f == [q \in others |-> l.session[q]]
  <2>1. f \in Surjection(others, used)
    BY DEF Surjection
  <2> HIDE DEF others, used, f
  <2> QED
    BY <1>2, <2>1, FS_Surjection
<1>4. free # {}
  <2> SUFFICES ASSUME free = {} PROVE FALSE
    OBVIOUS
  <2>1. ASSUME NEW s \in Sessions PROVE s \in used
    <3>1. l.sess[s] # None
      OBVIOUS
    <3>2. PICK q \in PLCs : l.session[q] = s
      BY <3>1 DEF Good, Used
    <3>3. q # p
      BY <3>2, Constants
    <3> QED
      BY <3>2, <3>3
  <2>2. Cardinality(Sessions) <= Cardinality(used)
    <3> HIDE DEF used
    <3> QED
      BY <1>3, <2>1, FS_Subset
  <2>3. Cardinality(used) \in Nat /\ Cardinality(Sessions) \in Nat /\ Len(plant) <= Cardinality(Sessions)
    <3> HIDE DEF used
    <3> QED
      BY <1>3, Constants, FS_CardinalityType DEF PlantOK
  <2> HIDE DEF used, others, free
  <2> QED
    BY <1>1, <1>2, <1>3, <2>2, <2>3
<1>5. free \in SUBSET Nat
  BY Constants
<1>6. First(free) \in free
  <2> HIDE DEF free
  <2> QED
    BY <1>4, <1>5, FirstIs
<1> QED
  BY <1>6 DEF NewSession

(* A PLC without a session gets one that is open. *)
Sharing(l, p, s) == [l EXCEPT !.session[p] = s]

LEMMA SharingIsGood ==
    ASSUME NEW l, Good(l), NEW p \in PLCs, l.session[p] = None,
           NEW s \in Sessions, l.sess[s] # None, Distinct => l.sess[s].ip = plant[p].ip,
           NEW m, m = Sharing(l, p, s)
    PROVE  Good(m) /\ Keeps(l, m) /\ m.connection = l.connection /\ m.session[p] = s
<1>1. /\ DOMAIN m = DOMAIN l /\ m.faults = l.faults /\ m.sess = l.sess /\ m.serial = l.serial
      /\ m.mixed = l.mixed
      /\ m.connection = l.connection /\ m.session = [l.session EXCEPT ![p] = s]
  BY DEF Good, LinkTyped, Sharing
<1>2. m.session \in [PLCs -> Sessions \union {None}] /\ \A q \in PLCs : m.session[q] = IF q = p THEN s ELSE l.session[q]
  BY <1>1 DEF Good, LinkTyped
<1>3. LinkTyped(m)
  BY <1>1, <1>2 DEF Good, LinkTyped
<1>4. Used(m)
  <2>1. ASSUME NEW x \in Sessions, m.sess[x] # None PROVE \E q \in PLCs : m.session[q] = x
    <3>1. PICK q \in PLCs : l.session[q] = x
      BY <1>1, <2>1 DEF Good, Used
    <3>2. q # p
      BY <3>1, Constants
    <3> QED
      BY <1>2, <3>1, <3>2
  <2> QED
    BY <1>1, <1>2, <2>1 DEF Good, Used
<1>5. Distinct => Exact(m)
  BY <1>1, <1>2 DEF Good, Exact
<1>6. Aimed(m)
  BY <1>1 DEF Good, Aimed
<1> QED
  BY <1>1, <1>2, <1>3, <1>4, <1>5, <1>6 DEF Good, Keeps, LinkTyped

LEMMA OpeningIsGood ==
    ASSUME PlantOK, NEW l, Good(l), NEW p \in PLCs, l.session[p] = None,
           NEW tcp \in {"up", "freed"}, NEW m, m = Opened(l, p, tcp)
    PROVE  Good(m) /\ Keeps(l, m) /\ m.connection = l.connection /\ m.session[p] # None
<1> DEFINE n == NewSession(l)
           new == [ip |-> plant[p].ip, tcp |-> tcp]
<1>1. n \in Sessions /\ l.sess[n] = None
  BY NewSessionIsFree
<1>2. plant[p].ip \in Seq(Nat) /\ plant[p].ip \in Gateways
  BY PlcFacts DEF Plc, Gateways
<1>3. new \in Session /\ new # None /\ new.ip = plant[p].ip
  BY <1>2, Constants DEF Session
<1>4. m = [l EXCEPT !.sess[n] = new, !.session[p] = n]
  BY DEF Opened
<1> HIDE DEF n, new
<1>5. /\ DOMAIN m = DOMAIN l /\ m.faults = l.faults /\ m.serial = l.serial /\ m.connection = l.connection
      /\ m.mixed = l.mixed
      /\ m.sess = [l.sess EXCEPT ![n] = new] /\ m.session = [l.session EXCEPT ![p] = n]
  BY <1>4 DEF Good, LinkTyped
<1>6. m.session \in [PLCs -> Sessions \union {None}] /\ \A q \in PLCs : m.session[q] = IF q = p THEN n ELSE l.session[q]
  BY <1>1, <1>5 DEF Good, LinkTyped
<1>7. m.sess \in [Sessions -> Session \union {None}] /\ \A s \in Sessions : m.sess[s] = IF s = n THEN new ELSE l.sess[s]
  BY <1>1, <1>3, <1>5 DEF Good, LinkTyped
<1>8. LinkTyped(m)
  BY <1>2, <1>3, <1>5, <1>6, <1>7 DEF Good, LinkTyped
<1>9. Used(m)
  <2>1. ASSUME NEW q \in PLCs, m.session[q] # None PROVE m.sess[m.session[q]] # None
    BY <1>1, <1>3, <1>6, <1>7, <2>1 DEF Good, LinkTyped, Used
  <2>2. ASSUME NEW x \in Sessions, m.sess[x] # None PROVE \E q \in PLCs : m.session[q] = x
    <3>1. CASE x = n
      BY <1>6, <3>1
    <3>2. CASE x # n
      <4>1. PICK q \in PLCs : l.session[q] = x
        BY <1>7, <2>2, <3>2 DEF Good, Used
      <4>2. q # p
        BY <4>1, Constants
      <4> QED
        BY <1>6, <4>1, <4>2
    <3> QED
      BY <3>1, <3>2
  <2> QED
    BY <2>1, <2>2 DEF Used
<1>10. Distinct => Exact(m)
  <2> SUFFICES ASSUME Distinct PROVE Exact(m)
    OBVIOUS
  <2>1. ASSUME NEW q \in PLCs, m.session[q] # None PROVE m.sess[m.session[q]].ip = plant[q].ip
    <3>1. CASE q = p
      BY <1>1, <1>3, <1>6, <1>7, <3>1
    <3>2. CASE q # p
      <4>1. l.session[q] \in Sessions /\ l.sess[l.session[q]] # None /\ l.sess[l.session[q]].ip = plant[q].ip
        BY <1>6, <2>1, <3>2 DEF Good, LinkTyped, Used, Exact
      <4> QED
        BY <1>1, <1>6, <1>7, <3>2, <4>1
    <3> QED
      BY <3>1, <3>2
  <2> QED
    BY <1>5, <2>1 DEF Good, Exact
<1>11. Keeps(l, m)
  BY <1>1, <1>3, <1>5, <1>7 DEF Keeps, Good, LinkTyped
<1>12. m.session[p] # None
  BY <1>1, <1>6, Constants
<1>13. Aimed(m)
  BY <1>5 DEF Good, Aimed
<1> QED
  BY <1>5, <1>8, <1>9, <1>10, <1>11, <1>12, <1>13 DEF Good

LEMMA BuiltSessionIsGood ==
    ASSUME PlantOK, NEW l, Good(l), NEW p \in PLCs, NEW r \in BuildSession(l, p)
    PROVE  /\ Good(r.l) /\ Keeps(l, r.l) /\ r.l.connection = l.connection
           /\ r.res \in BOOLEAN /\ (r.res => r.l.session[p] # None)
<1> DEFINE s == FindSession(l, plant[p].ip)
<1>0. Good(l) /\ Keeps(l, l) /\ R(l, FALSE).l = l /\ R(l, FALSE).res = FALSE
  BY DEF Keeps, R, Good, LinkTyped
<1>1. CASE l.session[p] # None
  BY <1>0, <1>1 DEF BuildSession
<1>2. CASE l.session[p] = None /\ s # None
  <2>1. r = R([l EXCEPT !.session[p] = s], TRUE)
    BY <1>2 DEF BuildSession
  <2> DEFINE same == {q \in PLCs : Prefix(plant[p].ip, plant[q].ip)}
  <2>2. same \in SUBSET Nat /\ same # {} /\ s = l.session[First(same)]
    <3>1. PLCs \in SUBSET Nat
      BY PlcFacts
    <3> QED
      BY <1>2, <3>1 DEF FindSession
  <2>3. First(same) \in same
    <3> HIDE DEF same
    <3> QED
      BY <2>2, FirstIs
  <2>4. PICK q \in PLCs : Prefix(plant[p].ip, plant[q].ip) /\ s = l.session[q]
    BY <2>2, <2>3
  <2> HIDE DEF s, same
  <2>5. s \in Sessions /\ l.sess[s] # None
    BY <1>2, <2>4 DEF Good, LinkTyped, Used
  <2>6. Distinct => l.sess[s].ip = plant[p].ip
    <3> SUFFICES ASSUME Distinct PROVE l.sess[s].ip = plant[p].ip
      OBVIOUS
    <3>1. l.sess[s].ip = plant[q].ip
      BY <1>2, <2>4 DEF Good, Exact
    <3>2. p # q
      BY <1>2, <2>4
    <3> QED
      BY <2>4, <3>1, <3>2 DEF Distinct
  <2>7. r.l = [l EXCEPT !.session[p] = s] /\ r.res = TRUE
    BY <2>1 DEF R
  <2>8. r.l = Sharing(l, p, s)
    BY <2>7 DEF Sharing
  <2>9. Good(r.l) /\ Keeps(l, r.l) /\ r.l.connection = l.connection /\ r.l.session[p] = s
    BY <1>2, <2>5, <2>6, <2>8, SharingIsGood
  <2> QED
    BY <1>2, <2>7, <2>9
<1>3. CASE l.session[p] = None /\ s = None /\ plant[p].ip \in down
  BY <1>0, <1>3 DEF BuildSession
<1>4. CASE l.session[p] = None /\ s = None /\ plant[p].ip \notin down
  <2>1. r \in {R(Opened(l, p, "up"), TRUE)} \union {R(Opened(f, p, "freed"), TRUE) : f \in Spent(l)}
    BY <1>4 DEF BuildSession
  <2>2. CASE r = R(Opened(l, p, "up"), TRUE)
    <3>1. r.l = Opened(l, p, "up") /\ r.res = TRUE
      BY <2>2 DEF R
    <3>2. Good(r.l) /\ Keeps(l, r.l) /\ r.l.connection = l.connection /\ r.l.session[p] # None
      BY <1>4, <3>1, OpeningIsGood
    <3> QED
      BY <3>1, <3>2
  <2>3. CASE \E f \in Spent(l) : r = R(Opened(f, p, "freed"), TRUE)
    <3>1. PICK f \in Spent(l) : r = R(Opened(f, p, "freed"), TRUE)
      BY <2>3
    <3>2. Good(f) /\ Keeps(l, f) /\ f.session = l.session /\ f.connection = l.connection
      <4>1. Alike(l, f)
        BY SpentIsAlike DEF Good
      <4> QED
        BY <4>1, AlikeIsGood DEF Alike
    <3>3. r.l = Opened(f, p, "freed") /\ r.res = TRUE
      BY <3>1 DEF R
    <3>4. Good(r.l) /\ Keeps(f, r.l) /\ r.l.connection = f.connection /\ r.l.session[p] # None
      BY <1>4, <3>2, <3>3, OpeningIsGood
    <3>5. Keeps(l, r.l)
      <4>1. l.faults \in Nat /\ f.faults \in Nat /\ r.l.faults \in Nat
        BY <3>2, <3>4 DEF Good, LinkTyped
      <4> QED
        BY <3>2, <3>4, <4>1 DEF Keeps
    <3> QED
      BY <3>2, <3>3, <3>4, <3>5
  <2> QED
    BY <2>1, <2>2, <2>3
<1> QED
  BY <1>1, <1>2, <1>3, <1>4

(* A session that is given up is that of no PLC any longer. *)
LEMMA GivenUpIsGood ==
    ASSUME NEW l, Good(l), NEW p, NEW s \in Sessions, NEW m, m = Forget(KillSession(l, s), p, s)
    PROVE  /\ Good(m) /\ m.connection = l.connection /\ m.faults = l.faults /\ m.mixed = l.mixed
           /\ \A x \in Sessions : x # s => m.sess[x] = l.sess[x]
<1> DEFINE k == KillSession(l, s)
<1>1. /\ DOMAIN k = DOMAIN l /\ k.faults = l.faults /\ k.serial = l.serial /\ k.connection = l.connection
      /\ k.sess = [l.sess EXCEPT ![s] = None] /\ k.session = l.session /\ k.mixed = l.mixed
  BY DEF KillSession, Good, LinkTyped
<1> HIDE DEF k
<1>2. /\ DOMAIN m = DOMAIN k /\ m.faults = k.faults /\ m.serial = k.serial /\ m.connection = k.connection
      /\ m.sess = k.sess /\ m.mixed = k.mixed
      /\ m.session = [q \in PLCs |-> IF k.session[q] = s THEN None ELSE k.session[q]]
  <2>1. m = Forget(k, p, s)
    BY DEF k
  <2> QED
    BY <1>1, <2>1 DEF Forget, Good, LinkTyped
<1>3. m.sess \in [Sessions -> Session \union {None}] /\ \A x \in Sessions : m.sess[x] = IF x = s THEN None ELSE l.sess[x]
  BY <1>1, <1>2 DEF Good, LinkTyped
<1>4. /\ m.session \in [PLCs -> Sessions \union {None}]
      /\ \A q \in PLCs : m.session[q] = IF l.session[q] = s THEN None ELSE l.session[q]
  BY <1>1, <1>2 DEF Good, LinkTyped
<1>5. LinkTyped(m)
  BY <1>1, <1>2, <1>3, <1>4 DEF Good, LinkTyped
<1>6. Used(m)
  <2>1. ASSUME NEW q \in PLCs, m.session[q] # None PROVE m.sess[m.session[q]] # None
    <3>1. l.session[q] # s /\ m.session[q] = l.session[q] /\ l.session[q] \in Sessions /\ l.sess[l.session[q]] # None
      BY <1>4, <2>1 DEF Good, LinkTyped, Used
    <3> QED
      BY <1>3, <3>1
  <2>2. ASSUME NEW x \in Sessions, m.sess[x] # None PROVE \E q \in PLCs : m.session[q] = x
    <3>1. x # s /\ l.sess[x] # None
      BY <1>3, <2>2
    <3>2. PICK q \in PLCs : l.session[q] = x
      BY <3>1 DEF Good, Used
    <3> QED
      BY <1>4, <3>1, <3>2
  <2> QED
    BY <2>1, <2>2 DEF Used
<1>7. Distinct => Exact(m)
  <2> SUFFICES ASSUME Distinct PROVE Exact(m)
    OBVIOUS
  <2>1. ASSUME NEW q \in PLCs, m.session[q] # None PROVE m.sess[m.session[q]].ip = plant[q].ip
    <3>1. l.session[q] # s /\ m.session[q] = l.session[q] /\ l.session[q] \in Sessions
      BY <1>4, <2>1 DEF Good, LinkTyped
    <3>2. l.sess[l.session[q]].ip = plant[q].ip
      BY <2>1, <3>1 DEF Good, Exact
    <3> QED
      BY <1>3, <3>1, <3>2
  <2> QED
    BY <1>1, <1>2, <2>1 DEF Good, Exact
<1>8. Aimed(m)
  BY <1>1, <1>2 DEF Good, Aimed
<1> QED
  BY <1>1, <1>2, <1>3, <1>5, <1>6, <1>7, <1>8 DEF Good

LEMMA KeepingIsEnough ==
    ASSUME NEW l, NEW m, Keeps(l, m) PROVE Drops(l, m)
BY DEF Keeps, Drops

LEMMA CheckedSessionIsGood ==
    ASSUME PlantOK, NEW l, Good(l), NEW p \in PLCs, NEW r \in CheckSession(l, p)
    PROVE  /\ Good(r.l) /\ Drops(l, r.l) /\ r.l.connection = l.connection
           /\ r.res \in BOOLEAN /\ (r.res => r.l.session[p] # None)
<1> DEFINE s == l.session[p]
<1>1. CASE s = None
  <2>1. r \in BuildSession(l, p)
    BY <1>1 DEF CheckSession
  <2>2. /\ Good(r.l) /\ Keeps(l, r.l) /\ r.l.connection = l.connection
        /\ r.res \in BOOLEAN /\ (r.res => r.l.session[p] # None)
    BY <2>1, BuiltSessionIsGood
  <2> QED
    BY <2>2, KeepingIsEnough
<1>2. CASE s # None
  <2>1. PICK q \in Request(l, s, None) :
           r \in IF Answers(q) THEN {R(q.l, TRUE)} ELSE BuildSession(Forget(KillSession(q.l, s), p, s), p)
    BY <1>2 DEF CheckSession
  <2>2. s \in Sessions /\ l.sess[s] # None /\ LinkTyped(l)
    BY <1>2 DEF Good, LinkTyped, Used
  <2> HIDE DEF s
  <2>3. Alike(l, q.l) /\ (q.res # "reply" => Silent(l, s, q.l))
    BY <2>2, RequestIsAlike
  <2>4. Good(q.l) /\ Keeps(l, q.l) /\ q.l.connection = l.connection /\ q.l.session = l.session
    BY <2>3, AlikeIsGood DEF Alike
  <2>5. CASE Answers(q)
    <3>1. r.l = q.l /\ r.res = TRUE
      BY <2>1, <2>5 DEF R
    <3> QED
      BY <1>2, <2>4, <3>1, KeepingIsEnough DEF s
  <2>6. CASE ~ Answers(q)
    <3> DEFINE m == Forget(KillSession(q.l, s), p, s)
    <3>1. r \in BuildSession(m, p)
      BY <2>1, <2>6
    <3>2. /\ Good(m) /\ m.connection = q.l.connection /\ m.faults = q.l.faults
          /\ m.mixed = q.l.mixed /\ \A x \in Sessions : x # s => m.sess[x] = q.l.sess[x]
      BY <2>2, <2>4, GivenUpIsGood
    <3> HIDE DEF m
    <3>3. /\ Good(r.l) /\ Keeps(m, r.l) /\ r.l.connection = m.connection
          /\ r.res \in BOOLEAN /\ (r.res => r.l.session[p] # None)
      BY <3>1, <3>2, BuiltSessionIsGood
    <3>4. l.faults \in Nat /\ q.l.faults \in Nat /\ r.l.faults \in Nat
      BY <2>4, <3>3 DEF Good, LinkTyped
    <3>5. r.l.faults <= q.l.faults /\ q.l.faults <= l.faults /\ l.mixed \subseteq r.l.mixed
      BY <2>4, <3>2, <3>3 DEF Keeps
    <3>6. Silent(l, s, r.l)
      <4>1. Silent(l, s, q.l)
        BY <2>3, <2>6 DEF Answers
      <4>2. q.l.faults < l.faults => r.l.faults < l.faults
        BY <3>4, <3>5
      <4> QED
        BY <4>1, <4>2 DEF Silent
    <3>7. ASSUME NEW x \in Sessions, l.sess[x] # None, r.l.sess[x] = None PROVE x = s
      BY <2>4, <3>2, <3>3, <3>7 DEF Keeps
    <3>8. Drops(l, r.l)
      BY <3>4, <3>5, <3>6, <3>7 DEF Drops
    <3> QED
      BY <2>4, <3>2, <3>3, <3>8
  <2> QED
    BY <2>5, <2>6
<1> QED
  BY <1>1, <1>2

-----------------------------------------------------------------------------
(***************************************************************************)
(* Connections.                                                            *)
(***************************************************************************)

(* What a device has got does not matter. *)
LEMMA HoldingIsAlike ==
    ASSUME NEW l, LinkTyped(l), NEW h
    PROVE  Same(l, [l EXCEPT !.held = h]) /\ Alike(l, [l EXCEPT !.held = h])
<1> DEFINE m == [l EXCEPT !.held = h]
<1>1. Same(l, m)
  BY DEF LinkTyped, Same
<1> HIDE DEF m
<1>2. Alike(l, m)
  BY <1>1, SameIsAlike
<1> QED
  BY <1>1, <1>2 DEF m

(* A connection that is made of a reply, of whatever kind. *)
LEMMA MadeFacts ==
    ASSUME NEW q, LinkTyped(q.l), q.res \in {"reply", "late", "silence", "garbage"},
           NEW d, q.res = "late" => q.l.sess[q.of.over].ip = d[1],
           NEW n, NEW to, to # None => to.device = d, NEW o \in Made(q, d, n, to)
    PROVE  /\ Same(q.l, o.l) /\ o.ok \in BOOLEAN
           /\ o.res # None => o.res.device = d /\ Leads(o.res, o.l.mixed)
<1> DEFINE C(t) == [device |-> d, serial |-> n, to |-> t]
<1>0. Same(q.l, q.l)
  BY DEF Same
<1>1. CASE q.res = "reply"
  <2>1. o = [l |-> q.l, res |-> C(to), ok |-> to # None]
    BY <1>1 DEF Made
  <2> QED
    BY <1>0, <2>1 DEF Leads
<1>2. CASE q.res = "late"
  <2>1. PICK ok \in BOOLEAN : o = [l |-> Mixed(q.l, q.of.over), res |-> C(q.of.to), ok |-> ok]
    <3>1. o \in {[l |-> Mixed(q.l, q.of.over), res |-> C(q.of.to), ok |-> ok] :
                     ok \in IF q.of.kind = "open" THEN {q.of.to # None} ELSE BOOLEAN}
      BY <1>2 DEF Made
    <3> QED
      BY <3>1
  <2> DEFINE m == [q.l EXCEPT !.mixed = q.l.mixed \union {d[1]}]
  <2>2. o.l = m /\ o.res = C(q.of.to) /\ o.ok = ok
    BY <1>2, <2>1 DEF Mixed
  <2>3. Same(q.l, m) /\ d[1] \in m.mixed
    BY DEF Same, LinkTyped
  <2> HIDE DEF m
  <2> QED
    BY <2>2, <2>3 DEF Leads
<1>3. CASE q.res \in {"silence", "garbage"}
  <2>1. o = [l |-> q.l, res |-> None, ok |-> FALSE]
    BY <1>3 DEF Made
  <2> QED
    BY <1>0, <2>1
<1> QED
  BY <1>1, <1>2, <1>3

(* What a device makes of a request. *)
LEMMA DoneFacts ==
    ASSUME NEW l, LinkTyped(l), NEW s, NEW d, NEW n, NEW twice, NEW x \in Done(l, s, d, n, twice)
    PROVE  Same(l, x.l) /\ (x.to # None => x.to.device = d)
<1> DEFINE opens == [l EXCEPT !.held = [l.held EXCEPT ![d] = @ \union {[serial |-> n, over |-> s]}]]
<1>1. x = [l |-> opens, to |-> [device |-> d, serial |-> n]] \/ x = [l |-> l, to |-> None]
  BY DEF Done
<1>2. Same(l, opens) /\ Same(l, l)
  BY HoldingIsAlike DEF Same
<1> HIDE DEF opens
<1> QED
  BY <1>1, <1>2

(* A connection is made to the device that is asked for. *)
LEMMA OpenedIsAlike ==
    ASSUME NEW l, Good(l), NEW s \in Sessions, l.sess[s] # None, NEW route, NEW n, NEW twice,
           NEW o \in ForwardOpen(l, s, route, n, twice)
    PROVE  /\ Alike(l, o.l) /\ o.ok \in BOOLEAN
           /\ o.res # None => /\ o.res.device = Device(l.sess[s].ip, route)
                              /\ Leads(o.res, o.l.mixed)
<1> DEFINE d == Device(l.sess[s].ip, route)
<1>0. LinkTyped(l) /\ d[1] = l.sess[s].ip
  BY DEF Good, Device
<1>1. \/ \E q \in {r \in Request(l, s, None) : r.res # "reply"} : o \in Made(q, d, n, None)
      \/ \E x \in Done(l, s, d, n, twice) :
             \E q \in Request(x.l, s, ToOpen(s, x.to)) : o \in Made(q, d, n, x.to)
  <2> DEFINE F(q) == Made(q, d, n, None)
             S == {q \in Request(l, s, None) : q.res # "reply"}
             H(x, q) == Made(q, d, n, x.to)
             T(x) == Request(x.l, s, ToOpen(s, x.to))
             G(x) == UNION {H(x, q) : q \in T(x)}
             D == Done(l, s, d, n, twice)
             A == UNION {F(q) : q \in S}
             B == UNION {G(x) : x \in D}
  <2>1. ForwardOpen(l, s, route, n, twice) =
           A \union (IF l.sess[s].tcp = "up" THEN B ELSE {})
    BY Zenon DEF ForwardOpen
  <2>2. o \in A \/ o \in B
    <3> HIDE DEF A, B
    <3> QED
      BY <2>1
  <2>3. (\E q \in S : o \in F(q)) \/ \E x \in D : o \in G(x)
    <3> HIDE DEF F, G, S, D
    <3> QED
      BY <2>2
  <2>4. ASSUME NEW x \in D, o \in G(x) PROVE \E q \in T(x) : o \in H(x, q)
    <3> HIDE DEF H, T
    <3> QED
      BY <2>4
  <2> QED
    BY <2>3, <2>4, Zenon
<1> HIDE DEF d
<1>a. ASSUME NEW k, Same(l, k), LinkTyped(k), NEW mine, NEW q \in Request(k, s, mine),
             NEW to, to # None => to.device = d, o \in Made(q, d, n, to)
      PROVE  /\ Alike(l, o.l) /\ o.ok \in BOOLEAN
             /\ o.res # None => o.res.device = d /\ Leads(o.res, o.l.mixed)
  <2>1. k.sess[s] # None /\ k.sess[s].ip = d[1]
    BY <1>0, <1>a DEF Same
  <2>2. /\ Alike(k, q.l) /\ LinkTyped(q.l)
        /\ q.res \in {"reply", "late", "silence", "garbage"}
        /\ q.res = "late" => q.of.over = s
    BY <1>a, <2>1, RequestIsAlike
  <2>3. q.l.sess[s].ip = d[1]
    BY <2>1, <2>2 DEF Alike
  <2>4. /\ Same(q.l, o.l) /\ o.ok \in BOOLEAN
        /\ o.res # None => o.res.device = d /\ Leads(o.res, o.l.mixed)
    BY <1>a, <2>2, <2>3, MadeFacts
  <2>5. Alike(l, k) /\ Alike(q.l, o.l)
    BY <1>0, <1>a, <2>2, <2>4, SameIsAlike
  <2>6. Alike(l, q.l)
    BY <1>0, <2>2, <2>5, AlikeAgain
  <2>7. Alike(l, o.l)
    BY <1>0, <2>5, <2>6, AlikeAgain
  <2> QED
    BY <2>4, <2>7
<1>2. CASE \E q \in {r \in Request(l, s, None) : r.res # "reply"} : o \in Made(q, d, n, None)
  <2>1. PICK q \in Request(l, s, None) : o \in Made(q, d, n, None)
    BY <1>2
  <2>2. Same(l, l)
    BY DEF Same
  <2> QED
    BY <1>0, <1>a, <2>1, <2>2 DEF d
<1>3. CASE \E x \in Done(l, s, d, n, twice) :
             \E q \in Request(x.l, s, ToOpen(s, x.to)) : o \in Made(q, d, n, x.to)
  <2>1. PICK x \in Done(l, s, d, n, twice) :
             \E q \in Request(x.l, s, ToOpen(s, x.to)) : o \in Made(q, d, n, x.to)
    BY <1>3
  <2>2. Same(l, x.l) /\ (x.to # None => x.to.device = d)
    BY <1>0, <2>1, DoneFacts
  <2>3. LinkTyped(x.l)
    BY <1>0, <2>2, SameIsAlike
  <2>4. PICK q \in Request(x.l, s, ToOpen(s, x.to)) : o \in Made(q, d, n, x.to)
    BY <2>1
  <2> QED
    BY <1>a, <2>2, <2>3, <2>4 DEF d
<1> QED
  BY <1>1, <1>2, <1>3

(* Connections are given to PLCs, and nothing else. *)
LEMMA ConnectingIsGood ==
    ASSUME NEW l, Good(l), NEW m, DOMAIN m = DOMAIN l, m.faults = l.faults, m.sess = l.sess,
           m.session = l.session, m.serial \in 0 .. SerialRange - 1, DOMAIN m.connection = PLCs,
           m.mixed = l.mixed, Aimed(m),
           Distinct => \A q \in PLCs : m.connection[q] # None => m.connection[q].device = Of(q)
    PROVE  Good(m) /\ Keeps(l, m)
<1>1. LinkTyped(m)
  BY DEF Good, LinkTyped
<1>2. Used(m)
  BY DEF Good, Used
<1>3. Distinct => Exact(m)
  BY DEF Good, Exact
<1>4. Keeps(l, m)
  BY DEF Good, LinkTyped, Keeps
<1> QED
  BY <1>1, <1>2, <1>3, <1>4 DEF Good

LEMMA BuiltConnectionIsGood ==
    ASSUME PlantOK, NEW l, Good(l), NEW p \in PLCs, l.session[p] # None, NEW r \in BuildConnection(l, p)
    PROVE  /\ Good(r.l) /\ Keeps(l, r.l) /\ r.l.session = l.session
           /\ r.res \in BOOLEAN /\ (r.res => r.l.connection[p] # None)
<1> DEFINE c == FindConnection(l, p)
<1>0. l.session[p] \in Sessions /\ l.sess[l.session[p]] # None /\ DOMAIN l.connection = PLCs
  BY DEF Good, LinkTyped, Used
<1>1. CASE l.connection[p] # None
  <2>1. r.l = l /\ r.res = FALSE
    BY <1>1 DEF BuildConnection, R
  <2>2. Keeps(l, l)
    BY DEF Good, LinkTyped, Keeps
  <2> QED
    BY <2>1, <2>2
<1>2. CASE l.connection[p] = None /\ c # None
  <2>1. r.l = [l EXCEPT !.connection[p] = c] /\ r.res = TRUE
    BY <1>2 DEF BuildConnection, R
  <2> DEFINE same == {q \in PLCs : l.connection[q] # None
                                 /\ Prefix(plant[p].ip \o plant[p].route, plant[q].ip \o plant[q].route)}
  <2>2. same \in SUBSET Nat /\ same # {} /\ c = l.connection[First(same)]
    <3>1. PLCs \in SUBSET Nat
      BY PlcFacts
    <3> QED
      BY <1>2, <3>1 DEF FindConnection
  <2>3. First(same) \in same
    <3> HIDE DEF same
    <3> QED
      BY <2>2, FirstIs
  <2>4. PICK q \in PLCs : Prefix(plant[p].ip \o plant[p].route, plant[q].ip \o plant[q].route) /\ c = l.connection[q]
    BY <2>2, <2>3
  <2> HIDE DEF c, same
  <2>5. Distinct => c.device = Of(p)
    BY <1>2, <2>4 DEF Good, Exact, Distinct
  <2>6. /\ DOMAIN r.l = DOMAIN l /\ r.l.faults = l.faults /\ r.l.sess = l.sess /\ r.l.session = l.session
        /\ r.l.serial = l.serial /\ r.l.connection = [l.connection EXCEPT ![p] = c]
        /\ r.l.mixed = l.mixed
    BY <2>1 DEF Good, LinkTyped
  <2>7. DOMAIN r.l.connection = PLCs /\ \A x \in PLCs : r.l.connection[x] = IF x = p THEN c ELSE l.connection[x]
    BY <1>0, <2>6
  <2>8. Distinct => \A x \in PLCs : r.l.connection[x] # None => r.l.connection[x].device = Of(x)
    BY <2>5, <2>7 DEF Good, Exact
  <2>10. Aimed(r.l)
    BY <1>2, <2>4, <2>6, <2>7 DEF Good, Aimed
  <2>9. Good(r.l) /\ Keeps(l, r.l)
    BY <2>6, <2>7, <2>8, <2>10, ConnectingIsGood DEF Good, LinkTyped
  <2> QED
    BY <1>2, <2>1, <2>6, <2>7, <2>9
<1>3. CASE l.connection[p] = None /\ c = None
  <2>1. PICK o \in ForwardOpen(l, l.session[p], plant[p].route, l.serial, FALSE) :
           r = R([o.l EXCEPT !.connection[p] = o.res, !.serial = (@ + 1) % SerialRange], o.res # None)
    BY <1>3 DEF BuildConnection
  <2>2. /\ Alike(l, o.l)
        /\ o.res # None => /\ o.res.device = Device(l.sess[l.session[p]].ip, plant[p].route)
                           /\ Leads(o.res, o.l.mixed)
    <3> DEFINE s == l.session[p]
               route == plant[p].route
               twice == FALSE
    <3>1. s \in Sessions /\ l.sess[s] # None /\ o \in ForwardOpen(l, s, route, l.serial, twice)
      BY <1>0, <2>1
    <3> HIDE DEF s, route, twice
    <3>2. /\ Alike(l, o.l) /\ o.ok \in BOOLEAN
          /\ o.res # None => o.res.device = Device(l.sess[s].ip, route) /\ Leads(o.res, o.l.mixed)
      BY <3>1, OpenedIsAlike
    <3> QED
      BY <3>2 DEF s, route
  <2>3. Good(o.l) /\ Keeps(l, o.l) /\ o.l.session = l.session /\ o.l.connection = l.connection
    BY <2>2, AlikeIsGood DEF Alike
  <2>4. Distinct /\ o.res # None => o.res.device = Of(p)
    BY <2>2 DEF Good, Exact, Of
  <2> DEFINE m == [o.l EXCEPT !.connection[p] = o.res, !.serial = (@ + 1) % SerialRange]
  <2>5. /\ DOMAIN m = DOMAIN o.l /\ m.faults = o.l.faults /\ m.sess = o.l.sess /\ m.session = o.l.session
        /\ m.serial = (o.l.serial + 1) % SerialRange /\ m.connection = [o.l.connection EXCEPT ![p] = o.res]
        /\ m.mixed = o.l.mixed
    BY <2>3 DEF Good, LinkTyped
  <2>6. r.l = m /\ r.res = (o.res # None)
    BY <2>1 DEF R
  <2> HIDE DEF m
  <2>7. DOMAIN m.connection = PLCs /\ \A x \in PLCs : m.connection[x] = IF x = p THEN o.res ELSE l.connection[x]
    BY <1>0, <2>3, <2>5
  <2>8. Distinct => \A x \in PLCs : m.connection[x] # None => m.connection[x].device = Of(x)
    BY <2>4, <2>7 DEF Good, Exact
  <2>9. m.serial \in 0 .. SerialRange - 1
    <3>1. o.l.serial \in Nat
      BY <2>3, Constants DEF Good, LinkTyped
    <3> QED
      BY <2>5, <3>1, Constants
  <2>13. Aimed(m)
    <3>1. Aimed(o.l) /\ o.l.connection = l.connection
      BY <2>3 DEF Good
    <3> QED
      BY <2>2, <2>5, <2>7, <3>1 DEF Aimed
  <2>10. Good(m) /\ Keeps(o.l, m)
    BY <2>3, <2>5, <2>7, <2>8, <2>9, <2>13, ConnectingIsGood
  <2>11. Keeps(l, m)
    BY <2>3, <2>5 DEF Keeps
  <2>12. r.res \in BOOLEAN /\ (r.res => m.connection[p] # None)
    BY <2>6, <2>7
  <2> QED
    BY <2>3, <2>5, <2>6, <2>10, <2>11, <2>12
<1> QED
  BY <1>1, <1>2, <1>3

LEMMA CheckedConnectionIsGood ==
    ASSUME PlantOK, NEW l, Good(l), NEW p \in PLCs, NEW r \in CheckConnection(l, p)
    PROVE  /\ Good(r.l) /\ Keeps(l, r.l) /\ r.l.session = l.session
           /\ r.res \in BOOLEAN /\ (r.res => r.l.session[p] # None /\ r.l.connection[p] # None)
<1> DEFINE c == l.connection[p]
<1>0. DOMAIN l.connection = PLCs
  BY DEF Good, LinkTyped
<1>1. CASE l.session[p] = None
  <2>1. r.l = l /\ r.res = FALSE
    BY <1>1 DEF CheckConnection, R
  <2>2. Keeps(l, l)
    BY DEF Good, LinkTyped, Keeps
  <2> QED
    BY <2>1, <2>2
<1>2. CASE l.session[p] # None /\ c = None
  <2>1. r \in BuildConnection(l, p)
    BY <1>2 DEF CheckConnection
  <2> QED
    BY <1>2, <2>1, BuiltConnectionIsGood
<1>3. CASE l.session[p] # None /\ c # None
  <2>1. PICK o \in ForwardOpen(l, l.session[p], c.device[2], c.serial, TRUE) :
           r = R([o.l EXCEPT !.connection = [q \in PLCs |-> IF @[q] = c THEN Renewed(c, o) ELSE @[q]],
                             !.late = {IF x.conn = c THEN [x EXCEPT !.conn = None] ELSE x : x \in @}],
                 o.res # None /\ o.ok)
    BY <1>3 DEF CheckConnection
  <2>2. l.session[p] \in Sessions /\ l.sess[l.session[p]] # None
    BY <1>3 DEF Good, LinkTyped, Used
  <2>3. /\ Alike(l, o.l) /\ o.ok \in BOOLEAN
        /\ o.res # None => /\ o.res.device = Device(l.sess[l.session[p]].ip, c.device[2])
                           /\ Leads(o.res, o.l.mixed)
    <3> DEFINE s == l.session[p]
               route == c.device[2]
               n == c.serial
               twice == TRUE
    <3>1. s \in Sessions /\ l.sess[s] # None /\ o \in ForwardOpen(l, s, route, n, twice)
      BY <2>1, <2>2
    <3> HIDE DEF s, route, n, twice
    <3>2. /\ Alike(l, o.l) /\ o.ok \in BOOLEAN
          /\ o.res # None => o.res.device = Device(l.sess[s].ip, route) /\ Leads(o.res, o.l.mixed)
      BY <3>1, OpenedIsAlike
    <3> QED
      BY <3>2 DEF s, route
  <2> DEFINE m == r.l
             n == Renewed(c, o)
             late == {IF x.conn = c THEN [x EXCEPT !.conn = None] ELSE x : x \in o.l.late}
  <2>4. Good(o.l) /\ Keeps(l, o.l) /\ o.l.session = l.session /\ o.l.connection = l.connection
    BY <2>3, AlikeIsGood DEF Alike
  <2>5. Distinct /\ o.res # None => o.res.device = c.device
    <3>1. Distinct => c.device = <<plant[p].ip, plant[p].route>> /\ l.sess[l.session[p]].ip = plant[p].ip
      BY <1>3 DEF Good, Exact, Of, Device
    <3> HIDE DEF c
    <3>2. Distinct => Device(l.sess[l.session[p]].ip, c.device[2]) = c.device
      BY <3>1 DEF Device
    <3> QED
      BY <2>3, <3>2
  <2>6. m = [o.l EXCEPT !.connection = [q \in PLCs |-> IF o.l.connection[q] = c THEN n ELSE o.l.connection[q]],
                        !.late = late]
        /\ r.res = (o.res # None /\ o.ok)
    BY <2>1 DEF R
  <2>7. n = IF o.ok THEN o.res ELSE None
    BY DEF Renewed
  <2> HIDE DEF m, n, c, late
  <2>8. /\ DOMAIN m = DOMAIN o.l /\ m.faults = o.l.faults /\ m.sess = o.l.sess /\ m.session = o.l.session
        /\ m.serial = o.l.serial /\ m.mixed = o.l.mixed
        /\ m.connection = [q \in PLCs |-> IF l.connection[q] = c THEN n ELSE l.connection[q]]
    BY <2>4, <2>6 DEF Good, LinkTyped
  <2>9. Distinct => \A x \in PLCs : m.connection[x] # None => m.connection[x].device = Of(x)
    BY <1>3, <2>5, <2>7, <2>8 DEF Good, Exact
  <2>10. m.serial \in 0 .. SerialRange - 1 /\ DOMAIN m.connection = PLCs
    BY <2>4, <2>8 DEF Good, LinkTyped
  <2>15. Aimed(m)
    <3>1. Aimed(o.l) /\ o.l.connection = l.connection
      BY <2>4 DEF Good
    <3> QED
      BY <2>3, <2>7, <2>8, <3>1 DEF Aimed
  <2>11. Good(m) /\ Keeps(o.l, m)
    BY <2>4, <2>8, <2>9, <2>10, <2>15, ConnectingIsGood
  <2>12. Keeps(l, m)
    BY <2>4, <2>8 DEF Keeps
  <2>13. r.res \in BOOLEAN
    BY <2>6
  <2>14. r.res => m.connection[p] # None
    BY <2>6, <2>7, <2>8 DEF c
  <2> QED
    BY <1>3, <2>4, <2>8, <2>11, <2>12, <2>13, <2>14 DEF m
<1> QED
  BY <1>1, <1>2, <1>3

-----------------------------------------------------------------------------
(***************************************************************************)
(* What Logger, the gateways and the devices do to the links.              *)
(***************************************************************************)
LEMMA KeepsItself ==
    ASSUME NEW l, Good(l) PROVE Keeps(l, l)
BY DEF Good, LinkTyped, Keeps

LEMMA KeepsAgain ==
    ASSUME NEW l, Good(l), NEW m, Good(m), NEW n, Good(n), Keeps(l, m), Keeps(m, n)
    PROVE  Keeps(l, n)
<1>1. l.faults \in Nat /\ m.faults \in Nat /\ n.faults \in Nat
  BY DEF Good, LinkTyped
<1> QED
  BY <1>1 DEF Keeps

LEMMA DropsThenKeeps ==
    ASSUME NEW l, Good(l), NEW m, Good(m), NEW n, Good(n), Drops(l, m), Keeps(m, n)
    PROVE  Drops(l, n)
<1>1. l.faults \in Nat /\ m.faults \in Nat /\ n.faults \in Nat /\ n.faults <= m.faults /\ m.faults <= l.faults
  BY DEF Good, LinkTyped, Drops, Keeps
<1>5. l.mixed \subseteq n.mixed
  BY DEF Drops, Keeps
<1>2. m.faults < l.faults => n.faults < l.faults
  BY <1>1
<1>3. ASSUME NEW s \in Sessions, l.sess[s] # None, n.sess[s] = None PROVE Silent(l, s, n)
  <2>1. m.sess[s] = None
    BY <1>3 DEF Keeps
  <2> QED
    BY <1>2, <1>3, <2>1 DEF Drops, Silent
<1>4. n.faults <= l.faults
  BY <1>1
<1> QED
  BY <1>3, <1>4, <1>5 DEF Drops

LEMMA BuiltIsGood ==
    ASSUME PlantOK, NEW l, Good(l), NEW p \in PLCs, NEW b \in BuildSession(l, p),
           NEW c \in IF b.res THEN BuildConnection(b.l, p) ELSE {b}
    PROVE  Good(c.l) /\ Keeps(l, c.l)
<1>1. Good(b.l) /\ Keeps(l, b.l) /\ (b.res => b.l.session[p] # None)
  BY BuiltSessionIsGood
<1>2. CASE b.res
  <2>1. Good(c.l) /\ Keeps(b.l, c.l)
    BY <1>1, <1>2, BuiltConnectionIsGood
  <2> QED
    BY <1>1, <2>1, KeepsAgain
<1>3. CASE ~ b.res
  BY <1>1, <1>3
<1> QED
  BY <1>2, <1>3

LEMMA CheckedIsGood ==
    ASSUME PlantOK, Good(link), NEW p \in PLCs, NEW r \in Checked(p)
    PROVE  Good(r.l) /\ Drops(link, r.l) /\ r.res \in BOOLEAN
<1>1. PICK s \in CheckSession(link, p) : r \in IF s.res THEN CheckConnection(s.l, p) ELSE {s}
  BY DEF Checked
<1>2. Good(s.l) /\ Drops(link, s.l) /\ s.res \in BOOLEAN
  BY CheckedSessionIsGood
<1>3. CASE s.res
  <2>1. Good(r.l) /\ Keeps(s.l, r.l) /\ r.res \in BOOLEAN
    BY <1>1, <1>2, <1>3, CheckedConnectionIsGood
  <2> QED
    BY <1>2, <2>1, DropsThenKeeps
<1>4. CASE ~ s.res
  BY <1>1, <1>2, <1>4
<1> QED
  BY <1>3, <1>4

LEMMA RestoredIsGood ==
    ASSUME PlantOK, Good(link), NEW p \in PLCs, NEW r \in Restored(p)
    PROVE  /\ Good(r.l) /\ Drops(link, r.l)
           /\ r.res => r.l.session[p] # None /\ r.l.connection[p] # None
<1>1. PICK s \in IF link.session[p] = None THEN CheckSession(link, p) ELSE {R(link, TRUE)} :
          r \in IF s.res /\ s.l.connection[p] = None THEN CheckConnection(s.l, p) ELSE {s}
  BY DEF Restored
<1>2. Good(s.l) /\ Drops(link, s.l) /\ (s.res => s.l.session[p] # None)
  <2>1. CASE link.session[p] = None
    BY <1>1, <2>1, CheckedSessionIsGood
  <2>2. CASE link.session[p] # None
    <3>1. s.l = link /\ s.res = TRUE
      BY <1>1, <2>2 DEF R
    <3> QED
      BY <2>2, <3>1, KeepsItself, KeepingIsEnough
  <2> QED
    BY <2>1, <2>2
<1>3. CASE s.res /\ s.l.connection[p] = None
  <2>1. /\ Good(r.l) /\ Keeps(s.l, r.l)
        /\ r.res => r.l.session[p] # None /\ r.l.connection[p] # None
    BY <1>1, <1>2, <1>3, CheckedConnectionIsGood
  <2> QED
    BY <1>2, <2>1, DropsThenKeeps
<1>4. CASE ~ (s.res /\ s.l.connection[p] = None)
  BY <1>1, <1>2, <1>4
<1> QED
  BY <1>3, <1>4

(* What a read comes to.  There are data only over a connection that a     *)
(* device has got, and what is crossed is noted.                           *)
LEMMA AnswerIsAlike ==
    ASSUME NEW l, Good(l), NEW p \in PLCs, l.session[p] # None, NEW r \in Answer(l, p)
    PROVE  /\ Alike(l, r.l) /\ LinkTyped(r.l)
           /\ r.res = "data" => l.connection[p].to # None
           /\ r.res = "crossed" => l.sess[l.session[p]].ip \in r.l.mixed
<1> DEFINE s == l.session[p]
           c == l.connection[p]
           known == c.to # None /\ [serial |-> c.to.serial, over |-> s] \in l.held[c.to.device]
           mine == IF known THEN ToRead(s, c) ELSE None
           some(q) == CASE q.res = "reply" /\ known -> {R(q.l, "data")} \union {R(f, "status") : f \in Spent(q.l)}
             [] q.res = "reply" /\ ~known ->
                   {R(q.l, IF q.l.sess[s].ip \in mute THEN "silence" ELSE "status")}
             [] q.res = "late" ->
                   {R(q.l, "unsolicited")} \union (IF q.of.kind = "read" /\ q.of.conn # c
                                                  THEN {R(Mixed(q.l, s), "crossed")} ELSE {})
             [] q.res = "silence" -> {q}
             [] q.res = "garbage" -> {R(q.l, "status"), R(q.l, "unsolicited")}
<1>1. s \in Sessions /\ l.sess[s] # None /\ LinkTyped(l)
  BY DEF Good, LinkTyped, Used
<1>2. Answer(l, p) = UNION {some(q) : q \in Request(l, s, mine)}
  BY Zenon DEF Answer
<1>3. PICK q \in Request(l, s, mine) : r \in some(q)
  <2> HIDE DEF some, mine
  <2> QED
    BY <1>2
<1> HIDE DEF mine
<1>4. Alike(l, q.l) /\ LinkTyped(q.l) /\ q.res \in {"reply", "late", "silence", "garbage"}
  <2> HIDE DEF some, s
  <2> QED
    BY <1>1, <1>3, RequestIsAlike
<1>5. l.sess[s].ip = q.l.sess[s].ip
  BY <1>1, <1>4 DEF Alike
<1> HIDE DEF s
<1>6. CASE q.res = "reply" /\ known
  <2> HIDE DEF known
  <2>1. r \in {R(q.l, "data")} \union {R(f, "status") : f \in Spent(q.l)}
    BY <1>3, <1>6
  <2>2. CASE r = R(q.l, "data")
    BY <1>4, <1>6, <2>2 DEF R, known
  <2>3. CASE \E f \in Spent(q.l) : r = R(f, "status")
    <3>1. PICK f \in Spent(q.l) : r = R(f, "status")
      BY <2>3
    <3>2. Alike(q.l, f) /\ LinkTyped(f)
      BY <1>4, <3>1, SpentIsAlike
    <3>3. Alike(l, f)
      BY <1>1, <1>4, <3>2, AlikeAgain
    <3> QED
      BY <3>1, <3>2, <3>3 DEF R
  <2> QED
    BY <2>1, <2>2, <2>3
<1>7. CASE q.res = "reply" /\ ~ known
  <2> HIDE DEF known
  <2>1. r = R(q.l, "silence") \/ r = R(q.l, "status")
    BY <1>3, <1>7
  <2> QED
    BY <1>4, <2>1 DEF R
<1>8. CASE q.res = "late"
  <2>1. r = R(q.l, "unsolicited") \/ r = R(Mixed(q.l, s), "crossed")
    BY <1>3, <1>8
  <2>2. CASE r = R(q.l, "unsolicited")
    BY <1>4, <2>2 DEF R
  <2>3. CASE r = R(Mixed(q.l, s), "crossed")
    <3> DEFINE m == [q.l EXCEPT !.mixed = q.l.mixed \union {l.sess[s].ip}]
    <3>1. r.l = m /\ r.res = "crossed"
      BY <1>5, <2>3 DEF R, Mixed
    <3>2. Same(q.l, m) /\ l.sess[s].ip \in m.mixed
      BY <1>4 DEF Same, LinkTyped
    <3> HIDE DEF m
    <3>3. Alike(q.l, m) /\ LinkTyped(m)
      BY <1>4, <3>2, SameIsAlike
    <3>4. Alike(l, m)
      BY <1>1, <1>4, <3>3, AlikeAgain
    <3> QED
      BY <3>1, <3>2, <3>3, <3>4 DEF s
  <2> QED
    BY <2>1, <2>2, <2>3
<1>9. CASE q.res = "silence"
  <2>1. r = q
    BY <1>3, <1>9
  <2> QED
    BY <1>4, <1>9, <2>1
<1>10. CASE q.res = "garbage"
  <2>1. r = R(q.l, "status") \/ r = R(q.l, "unsolicited")
    BY <1>3, <1>10
  <2> QED
    BY <1>4, <2>1 DEF R
<1> QED
  BY <1>4, <1>6, <1>7, <1>8, <1>9, <1>10

LEMMA LosingIsAlike ==
    ASSUME NEW l, LinkTyped(l), NEW ip, NEW tcp \in {"cut", "reset"}
    PROVE  Alike(l, Losing(l, ip, tcp))
<1> DEFINE m == Losing(l, ip, tcp)
           lost(s) == IF l.sess[s] # None /\ l.sess[s].ip = ip /\ l.sess[s].tcp = "up"
                      THEN [l.sess[s] EXCEPT !.tcp = tcp] ELSE l.sess[s]
<1>1. /\ DOMAIN m = DOMAIN l /\ m.faults = l.faults /\ m.sess = [s \in Sessions |-> lost(s)] /\ m.mixed = l.mixed
      /\ m.session = l.session /\ m.connection = l.connection /\ m.serial = l.serial
  BY DEF Losing, LinkTyped
<1>2. ASSUME NEW s \in Sessions
      PROVE  /\ lost(s) \in Session \union {None} /\ (lost(s) = None <=> l.sess[s] = None)
             /\ l.sess[s] # None => lost(s).ip = l.sess[s].ip
  <2>1. CASE l.sess[s] # None /\ l.sess[s].ip = ip /\ l.sess[s].tcp = "up"
    <3>1. l.sess[s] \in Session
      BY <2>1 DEF LinkTyped
    <3>2. [l.sess[s] EXCEPT !.tcp = tcp] \in Session /\ [l.sess[s] EXCEPT !.tcp = tcp].ip = l.sess[s].ip
      BY <3>1 DEF Session
    <3> QED
      BY <2>1, <3>2, Constants
  <2>2. CASE ~ (l.sess[s] # None /\ l.sess[s].ip = ip /\ l.sess[s].tcp = "up")
    BY <2>2 DEF LinkTyped
  <2> QED
    BY <2>1, <2>2
<1> HIDE DEF lost, m
<1>3. Alike(l, m)
  BY <1>1, <1>2 DEF LinkTyped, Alike
<1> QED
  BY <1>3 DEF m

LEMMA KilledIsGood ==
    ASSUME NEW l, Good(l) PROVE Good(KillAll(l)) /\ l.mixed \subseteq KillAll(l).mixed
<1> DEFINE m == KillAll(l)
<1>1. /\ DOMAIN m = DOMAIN l /\ m.faults = l.faults /\ m.sess = [s \in Sessions |-> None]
      /\ m.session = [p \in PLCs |-> None] /\ m.connection = [p \in PLCs |-> None] /\ m.serial = l.serial
      /\ m.mixed = l.mixed
  BY DEF KillAll, Good, LinkTyped
<1> HIDE DEF m
<1>2. LinkTyped(m)
  BY <1>1 DEF Good, LinkTyped
<1>3. Used(m) /\ Exact(m) /\ Aimed(m)
  BY <1>1 DEF Used, Exact, Aimed
<1>4. Good(m)
  BY <1>2, <1>3 DEF Good
<1> QED
  BY <1>1, <1>4 DEF m

-----------------------------------------------------------------------------
(***************************************************************************)
(* The links in every state.                                               *)
(***************************************************************************)
Places == {"start", "build", "round", "plc", "item", "check", "sleep", "ended"}

ItemsTyped == DOMAIN items = PLCs /\ \A p \in PLCs : items[p] \in Seq(ItemsOf(p))
AtItem == pc = "item" => elt2 \in DOMAIN items[elt] /\ link.session[elt] # None /\ link.connection[elt] # None
AgesTyped(a, its) == /\ DOMAIN a = PLCs
                     /\ \A p \in PLCs : DOMAIN a[p] = DOMAIN its[p] /\ \A n \in DOMAIN a[p] : a[p][n] \in 0 .. Long
TimesTyped == AgesTyped(age, items) /\ next \in [PLCs -> 0 .. 3 * Wait + NextSample]

Shape ==
    /\ PlantOK /\ Good(link)
    /\ pc \in Places /\ elt \in PLCs
    /\ ItemsTyped /\ AtItem /\ TimesTyped /\ now \in Nat
    /\ Errors \in [PLCs -> 0 .. MAX_ERR_BEFORE_CHECK]
    /\ down \subseteq Gateways /\ stopped \subseteq Devices

(* The plant never changes, and with it nothing that is said of it. *)
LEMMA SamePlant ==
    ASSUME plant' = plant
    PROVE  /\ PLCs' = PLCs /\ Gateways' = Gateways /\ Devices' = Devices /\ AllTags' = AllTags
           /\ PlantOK => PlantOK'
           /\ Good(link') => Good(link)'
           /\ \A p \in PLCs : ItemsOf(p)' = ItemsOf(p)
<1>1. PLCs' = PLCs
  BY DEF PLCs
<1>2. \A p : Of(p)' = Of(p)
  BY DEF Of, Device
<1>3. Distinct' <=> Distinct
  BY <1>1, <1>2, Zenon DEF Distinct, Prefix
<1>4. Gateways' = Gateways
  BY <1>1 DEF Gateways
<1>5. Devices' = Devices
  BY <1>1, <1>4 DEF Devices
<1>6. \A p \in PLCs : Tags(p)' = Tags(p)
  BY DEF Tags, ToSet
<1>7. AllTags' = AllTags
  BY <1>1, <1>6 DEF AllTags
<1>8. PlantOK => PlantOK'
  BY DEF PlantOK
<1>9. Good(link') => Good(link)'
  <2> SUFFICES ASSUME Good(link') PROVE Good(link)'
    OBVIOUS
  <2>1. LinkTyped(link)'
    BY <1>1, <1>4 DEF Good, LinkTyped
  <2>2. Used(link)'
    BY <1>1 DEF Good, Used
  <2>3. Distinct' => Exact(link)'
    BY <1>1, <1>2, <1>3 DEF Good, Exact
  <2>4. Aimed(link)'
    BY <1>1 DEF Good, Aimed
  <2> QED
    BY <2>1, <2>2, <2>3, <2>4 DEF Good
<1>10. \A p \in PLCs : ItemsOf(p)' = ItemsOf(p)
  BY <1>6 DEF ItemsOf, Packable, Item, Sample
<1> QED
  BY <1>1, <1>4, <1>5, <1>7, <1>8, <1>9, <1>10

(* What a step does to the links: no session that answers is given up      *)
(* before the end.                                                         *)
LEMMA LoadIsFair ==
    ASSUME Shape, Load PROVE Good(link') /\ Keeps(link, link')
<1>1. CASE UNCHANGED link
  BY <1>1, KeepsItself DEF Shape
<1>2. CASE \E f \in Spent(link) : link' = f
  BY <1>2, SpentIsAlike, AlikeIsGood DEF Shape, Good
<1> QED
  BY <1>1, <1>2 DEF Load

LEMMA ReadIsAlike ==
    ASSUME Shape, NEW r \in Answer(link, elt), pc = "item",
           \/ link' = r.l
           \/ \E f \in Spent(r.l) : link' = f
    PROVE  Alike(link, link') /\ r.l.mixed \subseteq link'.mixed
<1>0. LinkTyped(link) /\ Good(link) /\ elt \in PLCs /\ link.session[elt] # None
  BY DEF Shape, Good, AtItem
<1>1. Alike(link, r.l) /\ LinkTyped(r.l)
  BY <1>0, AnswerIsAlike
<1>2. CASE link' = r.l
  BY <1>1, <1>2
<1>3. ASSUME NEW f \in Spent(r.l), link' = f PROVE Alike(link, link') /\ r.l.mixed \subseteq link'.mixed
  <2>1. Alike(r.l, f) /\ f.mixed = r.l.mixed
    BY <1>1, SpentIsAlike
  <2>2. Alike(link, f)
    BY <1>0, <1>1, <2>1, AlikeAgain
  <2> QED
    BY <1>3, <2>1, <2>2
<1> QED
  BY <1>2, <1>3

(* Which answer a read got, and what it did. *)
LEMMA ReadFacts ==
    ASSUME Shape, Read
    PROVE  /\ pc = "item" /\ pc' \in {"ended", AfterItem} /\ Alike(link, link')
           /\ \/ /\ UNCHANGED stored
                 /\ \E slow \in BOOLEAN : \E fresh \in BOOLEAN :
                       /\ age' = [IF slow THEN Older(age) ELSE age
                                      EXCEPT ![elt][elt2] = IF fresh THEN 0 ELSE @]
                       /\ next' = Earliest(IF slow THEN Later(next) ELSE next, age')
                       /\ now' = IF slow THEN now + 1 ELSE now
              \/ /\ \E r \in Answer(link, elt) :
                       /\ r.res \in {"data", "crossed"} /\ r.l.mixed \subseteq link'.mixed
                       /\ \E bad, refused \in SUBSET ItemTags :
                             Update(link.connection[elt], r.res, bad, refused)
                 /\ \E fresh \in BOOLEAN :
                       age' = [age EXCEPT ![elt][elt2] = IF fresh THEN 0 ELSE @]
                 /\ next' = Earliest(next, age') /\ now' = now
<1>1. PICK r \in Answer(link, elt) :
         IF r.res \in {"data", "crossed"} THEN TakeData(r) ELSE TakeError(r)
  BY DEF Read
<1>2. pc = "item"
  BY DEF Read
<1>3. CASE r.res \in {"data", "crossed"}
  <2>1. TakeData(r)
    BY <1>1, <1>3
  <2>2. PICK bad \in SUBSET ItemTags, refused \in SUBSET ItemTags :
           /\ \E f \in (IF refused = {} /\ (bad = {} \/ r.res = "crossed") THEN {r.l} ELSE Spent(r.l)) :
                 Links(f, AfterItem)
           /\ Update(link.connection[elt], r.res, bad, refused)
           /\ age' = [age EXCEPT ![elt][elt2] = IF item.packet \/ refused = {} THEN 0 ELSE @]
           /\ next' = Earliest(next, age')
           /\ UNCHANGED now
    BY <2>1 DEF TakeData
  <2>3. pc' \in {"ended", AfterItem} /\ (link' = r.l \/ \E f \in Spent(r.l) : link' = f)
    BY <2>2 DEF Links
  <2>4. Alike(link, link') /\ r.l.mixed \subseteq link'.mixed
    BY <1>2, <2>3, ReadIsAlike
  <2>5. \E fresh \in BOOLEAN : age' = [age EXCEPT ![elt][elt2] = IF fresh THEN 0 ELSE @]
    <3> DEFINE x == item.packet \/ refused = {}
    <3>1. age' = [age EXCEPT ![elt][elt2] = IF x THEN 0 ELSE @] /\ x \in BOOLEAN
      BY <2>2, Zenon
    <3> HIDE DEF x
    <3> QED
      BY <3>1, Zenon
  <2> QED
    BY <1>2, <1>3, <2>2, <2>3, <2>4, <2>5
<1>4. CASE r.res \notin {"data", "crossed"}
  <2>1. TakeError(r)
    BY <1>1, <1>4
  <2> DEFINE quiet == r.res = "silence"
             x == IF item.packet THEN TRUE ELSE FALSE
  <2>2. Links(r.l, AfterItem) /\ UNCHANGED stored /\ now' = IF quiet THEN now + 1 ELSE now
    BY <2>1 DEF TakeError
  <2>3. age' = [IF quiet THEN Older(age) ELSE age EXCEPT ![elt][elt2] = IF item.packet THEN 0 ELSE @]
    BY <2>1, Zenon DEF TakeError
  <2>4. next' = Earliest(IF quiet THEN Later(next) ELSE next, age')
    BY <2>1, Zenon DEF TakeError
  <2>5. age' = [IF quiet THEN Older(age) ELSE age EXCEPT ![elt][elt2] = IF x THEN 0 ELSE @]
    <3>1. CASE item.packet
      BY <2>3, <3>1
    <3>2. CASE ~ item.packet
      BY <2>3, <3>2
    <3> QED
      BY <3>1, <3>2
  <2>6. pc' \in {"ended", AfterItem} /\ link' = r.l
    BY <2>2 DEF Links
  <2>7. Alike(link, link')
    BY <1>2, <2>6, ReadIsAlike
  <2>8. quiet \in BOOLEAN /\ x \in BOOLEAN
    OBVIOUS
  <2> HIDE DEF quiet, x
  <2> QED
    BY <1>2, <2>2, <2>4, <2>5, <2>6, <2>7, <2>8
<1> QED
  BY <1>3, <1>4

LEMMA LogsFairly ==
    ASSUME Shape, Logger
    PROVE  Good(link') /\ link.mixed \subseteq link'.mixed /\ (Drops(link, link') \/ pc' = "ended")
<1> USE DEF Shape
<1>0. PlantOK /\ Good(link) /\ elt \in PLCs
  OBVIOUS
<1> HIDE DEF Shape
<1>d. ASSUME Drops(link, link') PROVE link.mixed \subseteq link'.mixed
  BY <1>d DEF Drops
<1>s. ASSUME UNCHANGED link PROVE Good(link') /\ Drops(link, link')
  BY <1>0, <1>s, KeepsItself, KeepingIsEnough
<1>1. CASE Load
  BY <1>1, <1>d, LoadIsFair, KeepingIsEnough
<1>2. CASE Build
  <2>1. PICK b \in BuildSession(link, elt) :
           \E c \in IF b.res THEN BuildConnection(b.l, elt) ELSE {b} : link' = c.l
    BY <1>2 DEF Build, Links
  <2>2. PICK c \in IF b.res THEN BuildConnection(b.l, elt) ELSE {b} : link' = c.l
    BY <2>1
  <2> QED
    BY <1>0, <1>d, <2>2, BuiltIsGood, KeepingIsEnough
<1>3. CASE Round
  <2>1. CASE terminated
    <3>1. pc' = "ended" /\ link' = KillAll(link)
      BY <1>3, <2>1 DEF Round
    <3> QED
      BY <1>0, <3>1, KilledIsGood
  <2>2. CASE ~ terminated
    BY <1>3, <1>s, <1>d, <2>2 DEF Round
  <2> QED
    BY <2>1, <2>2
<1>4. CASE NoLink \/ Enter
  <2>1. PICK r \in Restored(elt) : link' = r.l
    BY <1>4 DEF NoLink, Enter, Links
  <2> QED
    BY <1>0, <1>d, <2>1, RestoredIsGood
<1>5. CASE Read
  <2>1. Alike(link, link')
    BY <1>5, ReadFacts
  <2> QED
    BY <1>0, <1>d, <2>1, AlikeIsGood, KeepingIsEnough
<1>6. CASE Failed
  <2>1. UNCHANGED link \/ \E r \in Checked(elt) : link' = r.l
    BY <1>6 DEF Failed, Links
  <2>2. CASE \E r \in Checked(elt) : link' = r.l
    BY <1>0, <1>d, <2>2, CheckedIsGood
  <2> QED
    BY <1>s, <1>d, <2>1, <2>2
<1>7. CASE NotYet \/ NotDue \/ Passed \/ Sleep
  BY <1>s, <1>d, <1>7 DEF NotYet, NotDue, Passed, Sleep
<1> QED
  BY <1>1, <1>2, <1>3, <1>4, <1>5, <1>6, <1>7 DEF Logger

LEMMA WorldsFairly ==
    ASSUME Shape,
           \/ Signal
           \/ \E ip \in Gateways : Cut(ip) \/ Repair(ip) \/ Restart(ip)
           \/ \E d \in Devices : DeviceStops(d) \/ DeviceRuns(d) \/ Expires(d)
    PROVE  Alike(link, link')
<1>0. LinkTyped(link)
  BY DEF Shape, Good
<1>s. ASSUME UNCHANGED link PROVE Alike(link, link')
  BY <1>0, <1>s, AlikeItself
<1>f. ASSUME NEW f \in Spent(link), link' = f PROVE Alike(link, link')
  BY <1>0, <1>f, SpentIsAlike
<1>1. CASE Signal
  BY <1>1, <1>f DEF Signal
<1>2. ASSUME NEW ip \in Gateways, Cut(ip) PROVE Alike(link, link')
  BY <1>2, <1>f DEF Cut, World
<1>3. ASSUME NEW ip \in Gateways, Repair(ip) PROVE Alike(link, link')
  <2>1. link' = link \/ link' = Losing(link, ip, "cut")
    BY <1>3 DEF Repair, World
  <2>2. Alike(link, Losing(link, ip, "cut"))
    BY <1>0, LosingIsAlike
  <2> QED
    BY <1>s, <2>1, <2>2
<1>4. ASSUME NEW ip \in Gateways, Restart(ip) PROVE Alike(link, link')
  <2>1. PICK f \in Spent(link) : \E tcp \in {"cut", "reset"} : \E h : link' = [Losing(f, ip, tcp) EXCEPT !.held = h]
    BY <1>4 DEF Restart, World
  <2>2. PICK tcp \in {"cut", "reset"} : \E h : link' = [Losing(f, ip, tcp) EXCEPT !.held = h]
    BY <2>1
  <2>3. PICK h : link' = [Losing(f, ip, tcp) EXCEPT !.held = h]
    BY <2>2
  <2> DEFINE m == Losing(f, ip, tcp)
  <2>4. Alike(link, f) /\ LinkTyped(f)
    <3>1. Alike(link, f) /\ Good(link)
      BY <1>0, SpentIsAlike DEF Shape
    <3> QED
      BY <3>1, AlikeIsGood DEF Good
  <2>5. Alike(f, m)
    BY <2>4, LosingIsAlike
  <2>6. Alike(link, m) /\ LinkTyped(m)
    <3>1. Alike(link, m) /\ Good(link)
      BY <1>0, <2>4, <2>5, AlikeAgain DEF Shape
    <3> QED
      BY <3>1, AlikeIsGood DEF Good
  <2>7. link' = [m EXCEPT !.held = h]
    BY <2>3
  <2> HIDE DEF m
  <2>8. Alike(m, link')
    BY <2>6, <2>7, HoldingIsAlike
  <2> QED
    BY <1>0, <2>6, <2>8, AlikeAgain
<1>5. ASSUME NEW d \in Devices, DeviceStops(d) PROVE Alike(link, link')
  <2>1. PICK f \in Spent(link) : link' = [f EXCEPT !.held = [f.held EXCEPT ![d] = {}]]
    BY <1>5 DEF DeviceStops, World
  <2>2. Alike(link, f) /\ LinkTyped(f)
    <3>1. Alike(link, f) /\ Good(link)
      BY <1>0, SpentIsAlike DEF Shape
    <3> QED
      BY <3>1, AlikeIsGood DEF Good
  <2>3. Alike(f, link')
    BY <2>1, <2>2, HoldingIsAlike
  <2> QED
    BY <1>0, <2>2, <2>3, AlikeAgain
<1>6. ASSUME NEW d \in Devices, DeviceRuns(d) PROVE Alike(link, link')
  BY <1>6, <1>s DEF DeviceRuns, World
<1>7. ASSUME NEW d \in Devices, Expires(d) PROVE Alike(link, link')
  <2>1. PICK h : link' = [link EXCEPT !.held = [link.held EXCEPT ![d] = link.held[d] \ {h}]]
    BY <1>7 DEF Expires, World
  <2> QED
    BY <1>0, <2>1, HoldingIsAlike
<1> QED
  BY <1>1, <1>2, <1>3, <1>4, <1>5, <1>6, <1>7

-----------------------------------------------------------------------------
(***************************************************************************)
(* The loop of Logger.                                                     *)
(***************************************************************************)
LEMMA AtAnItem ==
    ASSUME Shape, pc = "item"
    PROVE  /\ elt \in PLCs /\ elt2 \in 1 .. Len(items[elt]) /\ Len(items[elt]) \in Nat
           /\ DOMAIN items[elt] = 1 .. Len(items[elt])
           /\ item \in ItemsOf(elt) /\ item.sample \in Nat
           /\ elt2 \in DOMAIN age[elt] /\ age[elt][elt2] \in 0 .. Long
<1>1. elt \in PLCs /\ items[elt] \in Seq(ItemsOf(elt)) /\ elt2 \in DOMAIN items[elt]
  BY DEF Shape, ItemsTyped, AtItem
<1>2. /\ Len(items[elt]) \in Nat /\ DOMAIN items[elt] = 1 .. Len(items[elt])
      /\ \A i \in 1 .. Len(items[elt]) : items[elt][i] \in ItemsOf(elt)
  BY <1>1, Elements
<1>3. item \in ItemsOf(elt)
  BY <1>1, <1>2 DEF item
<1>4. item.sample \in Nat
  <2>1. PlantOK
    BY DEF Shape
  <2> QED
    BY <1>1, <1>3, <2>1, ItemFacts
<1>5. elt2 \in DOMAIN age[elt] /\ age[elt][elt2] \in 0 .. Long
  BY <1>1 DEF Shape, TimesTyped, AgesTyped
<1> QED
  BY <1>1, <1>2, <1>3, <1>4, <1>5

LEMMA NextPlcIsOne ==
    ASSUME Shape, NextPlc PROVE elt' \in PLCs
<1>1. Len(plant) \in Nat /\ PLCs = 1 .. Len(plant) /\ elt \in PLCs /\ Len(plant) >= 1
  BY PlcFacts DEF Shape
<1> QED
  BY <1>1 DEF NextPlc, LastPlc

LEMMA PlacesLast ==
    ASSUME Shape, [Next]_vars PROVE pc' \in Places /\ elt' \in PLCs
<1>0. pc \in Places /\ elt \in PLCs
  BY DEF Shape
<1>1. CASE Load
  BY <1>0, <1>1 DEF Load, Places
<1>2. CASE Build
  BY <1>2, NextPlcIsOne DEF Build, Places, Links
<1>3. CASE Round
  BY <1>0, <1>3 DEF Round, Places
<1>4. CASE NotYet
  BY <1>4, NextPlcIsOne DEF NotYet, Places, Onward
<1>5. CASE NoLink
  BY <1>5, NextPlcIsOne DEF NoLink, Places, Onward, Links
<1>6. CASE Enter
  BY <1>0, <1>6 DEF Enter, Places, Links
<1>7. CASE NotDue
  BY <1>0, <1>7 DEF NotDue, Places, AfterItem
<1>8. CASE Read
  <2>1. pc' \in {"ended", AfterItem} /\ elt' = elt
    BY <1>8, ReadFacts DEF Read
  <2> QED
    BY <1>0, <2>1 DEF Places, AfterItem
<1>9. CASE Passed
  BY <1>9, NextPlcIsOne DEF Passed, Places, Onward
<1>10. CASE Failed
  <2>1. pc' \in {"ended", "sleep", "plc"}
    BY <1>10 DEF Failed, Onward, Links
  <2> QED
    BY <1>10, <2>1, NextPlcIsOne DEF Failed, Places
<1>11. CASE Sleep
  BY <1>0, <1>11 DEF Sleep, Places
<1>12. ASSUME UNCHANGED <<pc, elt>> PROVE pc' \in Places /\ elt' \in PLCs
  BY <1>0, <1>12
<1>13. CASE Signal
  BY <1>12, <1>13 DEF Signal, loop
<1>14. ASSUME NEW ip \in Gateways, Cut(ip) \/ Repair(ip) \/ Restart(ip) PROVE UNCHANGED <<pc, elt>>
  BY <1>14 DEF Cut, Repair, Restart, World, loop
<1>15. ASSUME NEW d \in Devices, DeviceStops(d) \/ DeviceRuns(d) \/ Expires(d) PROVE UNCHANGED <<pc, elt>>
  BY <1>15 DEF DeviceStops, DeviceRuns, Expires, World, loop
<1>16. CASE UNCHANGED vars
  BY <1>12, <1>16 DEF vars, loop
<1> QED
  BY <1>1, <1>2, <1>3, <1>4, <1>5, <1>6, <1>7, <1>8, <1>9, <1>10, <1>11, <1>12, <1>13, <1>14, <1>15, <1>16
  DEF Next, Logger

(* Only Load makes items, and only of the tags of their PLC. *)
LEMMA ItemsStay ==
    ASSUME [Next]_vars
    PROVE  plant' = plant /\ (Load \/ items' = items)
<1>1. ASSUME NEW ip \in Gateways, Cut(ip) \/ Repair(ip) \/ Restart(ip) PROVE UNCHANGED <<plant, items>>
  BY <1>1 DEF Cut, Repair, Restart, World, config
<1>2. ASSUME NEW d \in Devices, DeviceStops(d) \/ DeviceRuns(d) \/ Expires(d) PROVE UNCHANGED <<plant, items>>
  BY <1>2 DEF DeviceStops, DeviceRuns, Expires, World, config
<1>3. CASE Logger
  BY <1>3 DEF Logger, Load, Build, Round, NotYet, NoLink, Enter, NotDue, Read, Passed, Failed, Sleep, config
<1> QED
  BY <1>1, <1>2, <1>3 DEF Next, Signal, vars, config

LEMMA LoadMakesItems ==
    ASSUME Shape, Load
    PROVE  DOMAIN items' = PLCs /\ \A p \in PLCs : items'[p] \in Seq(ItemsOf(p))
<1>1. PICK lists \in [PLCs -> UNION {Optimise(p) : p \in PLCs}] :
          /\ \A p \in PLCs : lists[p] \in Optimise(p)
          /\ \/ items' = lists
             \/ \E q \in PLCs : items' = [lists EXCEPT ![q] = <<>>]
  BY DEF Load
<1>2. \A p \in PLCs : lists[p] \in Seq(ItemsOf(p))
  BY <1>1, OptimisedIsOfTags DEF Shape
<1>3. CASE items' = lists
  BY <1>1, <1>2, <1>3
<1>4. ASSUME NEW q \in PLCs, items' = [lists EXCEPT ![q] = <<>>]
      PROVE  DOMAIN items' = PLCs /\ \A p \in PLCs : items'[p] \in Seq(ItemsOf(p))
  <2>1. \A p : <<>> \in Seq(ItemsOf(p))
    OBVIOUS
  <2>2. DOMAIN items' = PLCs /\ \A p \in PLCs : items'[p] = IF p = q THEN <<>> ELSE lists[p]
    BY <1>1, <1>4
  <2> QED
    BY <1>2, <2>1, <2>2
<1> QED
  BY <1>1, <1>3, <1>4

LEMMA ItemsAreTyped ==
    ASSUME Shape, [Next]_vars PROVE ItemsTyped'
<1>1. plant' = plant /\ (Load \/ items' = items)
  BY ItemsStay
<1>2. DOMAIN items' = PLCs /\ \A p \in PLCs : items'[p] \in Seq(ItemsOf(p))
  BY <1>1, LoadMakesItems DEF Shape, ItemsTyped
<1>3. PLCs' = PLCs /\ \A p \in PLCs : ItemsOf(p)' = ItemsOf(p)
  BY <1>1, SamePlant
<1> QED
  BY <1>2, <1>3 DEF ItemsTyped

(* An item that is read has a session and a connection. *)
LEMMA ItemIsThere ==
    ASSUME Shape, [Next]_vars, pc' = "item"
    PROVE  elt2' \in DOMAIN items'[elt'] /\ link'.session[elt'] # None /\ link'.connection[elt'] # None
<1>0. PlantOK /\ Good(link) /\ elt \in PLCs
  BY DEF Shape
<1>1. CASE Enter
  <2>1. PICK r \in Restored(elt) : r.res /\ link' = r.l /\ items[elt] # <<>>
    BY <1>1 DEF Enter, Links
  <2>2. link'.session[elt] # None /\ link'.connection[elt] # None
    BY <1>0, <2>1, RestoredIsGood
  <2>3. 1 \in DOMAIN items[elt]
    <3>1. items[elt] \in Seq(ItemsOf(elt))
      BY <1>0 DEF Shape, ItemsTyped
    <3>2. Len(items[elt]) \in Nat /\ DOMAIN items[elt] = 1 .. Len(items[elt]) /\ Len(items[elt]) # 0
      BY <2>1, <3>1, Elements, EmptySeq
    <3> QED
      BY <3>2
  <2> QED
    BY <1>1, <2>2, <2>3 DEF Enter
<1>2. ASSUME pc = "item", NextItem, pc' = AfterItem, UNCHANGED <<items, elt>>, Alike(link, link')
      PROVE  elt2' \in DOMAIN items'[elt'] /\ link'.session[elt'] # None /\ link'.connection[elt'] # None
  <2>1. ~ LastItem
    BY <1>2 DEF AfterItem
  <2>2. elt2' \in DOMAIN items[elt]
    BY <1>2, <2>1, AtAnItem DEF NextItem, LastItem
  <2>3. link'.session[elt] # None /\ link'.connection[elt] # None
    BY <1>2 DEF Shape, AtItem, Alike
  <2> QED
    BY <1>2, <2>2, <2>3
<1>3. CASE NotDue
  <2>1. Alike(link, link')
    BY <1>0, <1>3, AlikeItself DEF NotDue, Good
  <2> QED
    BY <1>2, <1>3, <2>1 DEF NotDue
<1>4. CASE Read
  <2>1. pc = "item" /\ pc' = AfterItem /\ Alike(link, link')
    BY <1>4, ReadFacts
  <2> QED
    BY <1>2, <1>4, <2>1 DEF Read
<1>5. ASSUME UNCHANGED <<pc, items, elt, elt2>>, Alike(link, link')
      PROVE  elt2' \in DOMAIN items'[elt'] /\ link'.session[elt'] # None /\ link'.connection[elt'] # None
  BY <1>5 DEF Shape, AtItem, Alike
<1>6. CASE Signal
  BY <1>5, <1>6, WorldsFairly DEF Signal, loop
<1>7. ASSUME NEW ip \in Gateways, Cut(ip) \/ Repair(ip) \/ Restart(ip)
      PROVE  elt2' \in DOMAIN items'[elt'] /\ link'.session[elt'] # None /\ link'.connection[elt'] # None
  BY <1>5, <1>7, WorldsFairly DEF Cut, Repair, Restart, World, loop
<1>8. ASSUME NEW d \in Devices, DeviceStops(d) \/ DeviceRuns(d) \/ Expires(d)
      PROVE  elt2' \in DOMAIN items'[elt'] /\ link'.session[elt'] # None /\ link'.connection[elt'] # None
  BY <1>5, <1>8, WorldsFairly DEF DeviceStops, DeviceRuns, Expires, World, loop
<1>9. CASE UNCHANGED vars
  <2>1. Alike(link, link')
    BY <1>0, <1>9, AlikeItself DEF vars, Good
  <2> QED
    BY <1>5, <1>9, <2>1 DEF vars, loop
<1>10. CASE Load \/ Build \/ Round \/ NotYet \/ NoLink \/ Passed \/ Failed \/ Sleep
  <2>1. pc' # "item"
    BY <1>10 DEF Load, Build, Round, NotYet, NoLink, Passed, Failed, Sleep, Onward, Links
  <2> QED
    BY <2>1
<1> QED
  BY <1>1, <1>3, <1>4, <1>6, <1>7, <1>8, <1>9, <1>10 DEF Next, Logger

(* Times. *)
NextTyped(n) == n \in [PLCs -> 0 .. 3 * Wait + NextSample]

LEMMA LaterTyped ==
    ASSUME NEW n, NextTyped(n) PROVE NextTyped(Later(n))
<1>1. 3 * Wait + NextSample \in Nat
  BY Constants
<1> DEFINE b == 3 * Wait + NextSample
<1> HIDE DEF b
<1>2. b \in Nat /\ n \in [PLCs -> 0 .. b]
  BY <1>1 DEF NextTyped, b
<1>3. Later(n) \in [PLCs -> 0 .. b]
  BY <1>2 DEF Later
<1> QED
  BY <1>3 DEF NextTyped, b

LEMMA OlderTyped ==
    ASSUME NEW a, NEW its, AgesTyped(a, its) PROVE AgesTyped(Older(a), its)
<1>1. Long \in Nat
  BY Constants
<1>2. ASSUME NEW p \in PLCs, NEW n \in DOMAIN a[p] PROVE Smaller(a[p][n] + 1, Long) \in 0 .. Long
  <2>1. a[p][n] \in 0 .. Long
    BY <1>2 DEF AgesTyped
  <2> QED
    BY <1>1, <2>1 DEF Smaller
<1>3. DOMAIN Older(a) = PLCs /\ \A p \in PLCs : Older(a)[p] = [n \in DOMAIN a[p] |-> Smaller(a[p][n] + 1, Long)]
  BY DEF Older
<1> QED
  BY <1>2, <1>3 DEF AgesTyped

LEMMA EarliestTyped ==
    ASSUME Shape, pc = "item", NEW n, NextTyped(n), NEW a, AgesTyped(a, items)
    PROVE  NextTyped(Earliest(n, a))
<1>1. elt \in PLCs /\ item.sample \in Nat /\ elt2 \in DOMAIN items[elt]
  BY AtAnItem
<1>2. Long \in Nat /\ 3 * Wait + NextSample \in Nat
  BY Constants
<1>3. a[elt][elt2] \in 0 .. Long
  BY <1>1 DEF AgesTyped
<1> DEFINE e == IF a[elt][elt2] < item.sample THEN item.sample - a[elt][elt2] ELSE 0
           b == 3 * Wait + NextSample
<1>4. e \in Nat
  BY <1>1, <1>2, <1>3
<1> HIDE DEF b, e
<1>5. b \in Nat /\ n \in [PLCs -> 0 .. b]
  BY <1>2 DEF NextTyped, b
<1>6. Smaller(n[elt], e) \in 0 .. b
  BY <1>1, <1>4, <1>5 DEF Smaller
<1>7. Earliest(n, a) = [n EXCEPT ![elt] = Smaller(n[elt], e)]
  BY DEF Earliest, e
<1>8. Earliest(n, a) \in [PLCs -> 0 .. b]
  BY <1>5, <1>6, <1>7
<1> QED
  BY <1>8 DEF NextTyped, b

LEMMA NextReplaced ==
    ASSUME Shape, NEW x \in 0 .. 3 * Wait + NextSample, next' = [next EXCEPT ![elt] = x]
    PROVE  NextTyped(next')
<1> DEFINE b == 3 * Wait + NextSample
<1>1. x \in 0 .. b
  OBVIOUS
<1> HIDE DEF b
<1>2. next \in [PLCs -> 0 .. b]
  BY DEF Shape, TimesTyped, b
<1>3. next' \in [PLCs -> 0 .. b]
  BY <1>1, <1>2
<1> QED
  BY <1>3 DEF NextTyped, b

LEMMA TimesAreTyped ==
    ASSUME Shape, [Next]_vars PROVE NextTyped(next') /\ AgesTyped(age', items')
<1>0. NextTyped(next) /\ AgesTyped(age, items)
  BY DEF Shape, TimesTyped, NextTyped
<1>s. ASSUME UNCHANGED <<next, age, items>> PROVE NextTyped(next') /\ AgesTyped(age', items')
  BY <1>0, <1>s
<1>1. CASE Load
  <2>1. age' = [p \in PLCs |-> [n \in DOMAIN items'[p] |-> Long]] /\ next' = next
    BY <1>1 DEF Load
  <2> QED
    BY <1>0, <2>1, Constants DEF AgesTyped
<1>2. CASE Build \/ Round \/ NotYet \/ Passed
  BY <1>2, <1>s DEF Build, Round, NotYet, Passed
<1>3. CASE NoLink
  <2>0. Wait \in 0 .. 3 * Wait + NextSample
    BY Constants
  <2>1. NextTyped(next')
    BY <1>3, <2>0, NextReplaced DEF NoLink
  <2> QED
    BY <1>0, <1>3, <2>1 DEF NoLink
<1>4. CASE Enter
  <2>0. NextSample \in 0 .. 3 * Wait + NextSample
    BY Constants
  <2>1. NextTyped(next')
    BY <1>4, <2>0, NextReplaced DEF Enter
  <2> QED
    BY <1>0, <1>4, <2>1 DEF Enter
<1>5. CASE NotDue
  <2>1. pc = "item" /\ next' = Earliest(next, age) /\ UNCHANGED <<age, items>>
    BY <1>5 DEF NotDue
  <2> QED
    BY <1>0, <2>1, EarliestTyped
<1>6. CASE Read
  <2>0. \E slow \in BOOLEAN : \E x \in BOOLEAN :
           /\ age' = [IF slow THEN Older(age) ELSE age EXCEPT ![elt][elt2] = IF x THEN 0 ELSE @]
           /\ next' = Earliest(IF slow THEN Later(next) ELSE next, age')
    <3>1. CASE \E x \in BOOLEAN : /\ age' = [age EXCEPT ![elt][elt2] = IF x THEN 0 ELSE @]
                                  /\ next' = Earliest(next, age')
      <4>1. PICK x \in BOOLEAN : /\ age' = [age EXCEPT ![elt][elt2] = IF x THEN 0 ELSE @]
                                 /\ next' = Earliest(next, age')
        BY <3>1
      <4>2. /\ age' = [IF FALSE THEN Older(age) ELSE age EXCEPT ![elt][elt2] = IF x THEN 0 ELSE @]
            /\ next' = Earliest(IF FALSE THEN Later(next) ELSE next, age')
        BY <4>1
      <4> QED
        BY <4>2
    <3> QED
      BY <1>6, <3>1, ReadFacts
  <2>1. PICK slow \in BOOLEAN, x \in BOOLEAN :
           /\ age' = [IF slow THEN Older(age) ELSE age EXCEPT ![elt][elt2] = IF x THEN 0 ELSE @]
           /\ next' = Earliest(IF slow THEN Later(next) ELSE next, age')
    BY <2>0
  <2> DEFINE old == IF slow THEN Older(age) ELSE age
             n == IF slow THEN Later(next) ELSE next
  <2>2. AgesTyped(old, items) /\ NextTyped(n)
    BY <1>0, OlderTyped, LaterTyped
  <2>3. age' = [old EXCEPT ![elt] = [old[elt] EXCEPT ![elt2] = IF x THEN 0 ELSE old[elt][elt2]]] /\ next' = Earliest(n, age')
    BY <2>1
  <2> HIDE DEF old, n
  <2>4. elt \in PLCs /\ elt2 \in DOMAIN items[elt] /\ pc = "item"
    BY <1>6, AtAnItem DEF Read
  <2>5. old[elt][elt2] \in 0 .. Long /\ DOMAIN old[elt] = DOMAIN items[elt]
    BY <2>2, <2>4 DEF AgesTyped
  <2>6. AgesTyped(age', items)
    <3>1. DOMAIN age' = PLCs /\ \A p \in PLCs : p # elt => age'[p] = old[p]
      BY <2>2, <2>3 DEF AgesTyped
    <3>2. age'[elt] = [old[elt] EXCEPT ![elt2] = IF x THEN 0 ELSE old[elt][elt2]]
      BY <2>2, <2>3, <2>4 DEF AgesTyped
    <3>3. DOMAIN age'[elt] = DOMAIN items[elt] /\ \A i \in DOMAIN items[elt] : age'[elt][i] \in 0 .. Long
      <4>1. 0 \in 0 .. Long
        BY Constants
      <4>2. \A i \in DOMAIN old[elt] : old[elt][i] \in 0 .. Long
        BY <2>2, <2>4 DEF AgesTyped
      <4> QED
        BY <2>5, <3>2, <4>1, <4>2
    <3> QED
      BY <2>2, <3>1, <3>3 DEF AgesTyped
  <2>7. items' = items
    BY <1>6 DEF Read
  <2> QED
    BY <2>2, <2>3, <2>4, <2>6, <2>7, EarliestTyped
<1>7. CASE Failed
  <2>0. now \in Nat /\ Wait \in Nat /\ NextSample \in Nat
    BY Constants DEF Shape
  <2>1. PICK x \in 0 .. 3 * Wait + NextSample : next' = [next EXCEPT ![elt] = x]
    <3>1. CASE Errors[elt] + 1 < MAX_ERR_BEFORE_CHECK
      <4>1. next' = [next EXCEPT ![elt] = FromNow(Wait)]
        BY <1>7, <3>1 DEF Failed
      <4>2. FromNow(Wait) \in 0 .. 3 * Wait + NextSample
        BY <2>0 DEF FromNow
      <4> QED
        BY <4>1, <4>2
    <3>2. CASE ~ (Errors[elt] + 1 < MAX_ERR_BEFORE_CHECK)
      <4>1. PICK r \in Checked(elt) : next' = [next EXCEPT ![elt] = IF r.res THEN 0 ELSE FromNow(3 * Wait)]
        BY <1>7, <3>2 DEF Failed
      <4>2. FromNow(3 * Wait) \in 0 .. 3 * Wait + NextSample /\ 0 \in 0 .. 3 * Wait + NextSample
        BY <2>0 DEF FromNow
      <4> QED
        BY <4>1, <4>2
    <3> QED
      BY <3>1, <3>2
  <2>2. NextTyped(next')
    BY <2>1, NextReplaced
  <2> QED
    BY <1>0, <1>7, <2>2 DEF Failed
<1>8. CASE Sleep
  BY <1>0, <1>8, OlderTyped, LaterTyped DEF Sleep
<1>9. ASSUME NEW ip \in Gateways, Cut(ip) \/ Repair(ip) \/ Restart(ip) PROVE UNCHANGED <<next, age, items>>
  BY <1>9 DEF Cut, Repair, Restart, World, loop
<1>10. ASSUME NEW d \in Devices, DeviceStops(d) \/ DeviceRuns(d) \/ Expires(d) PROVE UNCHANGED <<next, age, items>>
  BY <1>10 DEF DeviceStops, DeviceRuns, Expires, World, loop
<1>11. CASE Signal \/ UNCHANGED vars
  BY <1>11, <1>s DEF Signal, vars, loop
<1> QED
  BY <1>1, <1>2, <1>3, <1>4, <1>5, <1>6, <1>7, <1>8, <1>9, <1>10, <1>11, <1>s DEF Next, Logger

LEMMA NowIsTyped ==
    ASSUME Shape, [Next]_vars PROVE now' \in Nat
<1>0. now \in Nat
  BY DEF Shape
<1>1. CASE Read
  BY <1>0, <1>1, ReadFacts
<1>2. CASE Enter \/ Passed \/ Failed
  BY <1>2 DEF Enter, Passed, Failed
<1>3. CASE Load \/ Build \/ Round \/ NotYet \/ NoLink \/ NotDue \/ Sleep \/ Signal \/ UNCHANGED vars
  BY <1>0, <1>3 DEF Load, Build, Round, NotYet, NoLink, NotDue, Sleep, Signal, vars, loop
<1>4. ASSUME NEW ip \in Gateways, Cut(ip) \/ Repair(ip) \/ Restart(ip) PROVE now' = now
  BY <1>4 DEF Cut, Repair, Restart, World, loop
<1>5. ASSUME NEW d \in Devices, DeviceStops(d) \/ DeviceRuns(d) \/ Expires(d) PROVE now' = now
  BY <1>5 DEF DeviceStops, DeviceRuns, Expires, World, loop
<1> QED
  BY <1>0, <1>1, <1>2, <1>3, <1>4, <1>5 DEF Next, Logger

LEMMA ErrorsAreTyped ==
    ASSUME Shape, [Next]_vars
    PROVE  Errors' \in [PLCs -> 0 .. MAX_ERR_BEFORE_CHECK]
<1>0. Errors \in [PLCs -> 0 .. MAX_ERR_BEFORE_CHECK] /\ elt \in PLCs /\ MAX_ERR_BEFORE_CHECK \in Nat
  BY Constants DEF Shape
<1>1. CASE Passed
  BY <1>0, <1>1 DEF Passed
<1>2. CASE Failed
  <2>1. CASE Errors[elt] + 1 < MAX_ERR_BEFORE_CHECK
    <3>1. Errors' = [Errors EXCEPT ![elt] = Errors[elt] + 1]
      BY <1>2, <2>1 DEF Failed
    <3>2. Errors[elt] + 1 \in 0 .. MAX_ERR_BEFORE_CHECK
      BY <1>0, <2>1
    <3> QED
      BY <1>0, <3>1, <3>2
  <2>2. CASE ~ (Errors[elt] + 1 < MAX_ERR_BEFORE_CHECK)
    <3>1. \E r \in Checked(elt) : Errors' = [Errors EXCEPT ![elt] = IF r.res THEN 0 ELSE MAX_ERR_BEFORE_CHECK]
      BY <1>2, <2>2 DEF Failed
    <3> QED
      BY <1>0, <3>1
  <2> QED
    BY <2>1, <2>2
<1>3. CASE Load \/ Build \/ Round \/ NotYet \/ NoLink \/ Enter \/ NotDue \/ Read \/ Sleep \/ Signal \/ UNCHANGED vars
  BY <1>0, <1>3 DEF Load, Build, Round, NotYet, NoLink, Enter, NotDue, Read, Sleep, Signal, vars, loop
<1>4. ASSUME NEW ip \in Gateways, Cut(ip) \/ Repair(ip) \/ Restart(ip) PROVE Errors' = Errors
  BY <1>4 DEF Cut, Repair, Restart, World, loop
<1>5. ASSUME NEW d \in Devices, DeviceStops(d) \/ DeviceRuns(d) \/ Expires(d) PROVE Errors' = Errors
  BY <1>5 DEF DeviceStops, DeviceRuns, Expires, World, loop
<1> QED
  BY <1>0, <1>1, <1>2, <1>3, <1>4, <1>5 DEF Next, Logger

LEMMA WorldIsTyped ==
    ASSUME Shape, [Next]_vars PROVE down' \subseteq Gateways /\ stopped' \subseteq Devices
<1>0. down \subseteq Gateways /\ stopped \subseteq Devices
  BY DEF Shape
<1>1. CASE Logger \/ Signal \/ UNCHANGED vars
  BY <1>0, <1>1 DEF Logger, Load, Build, Round, NotYet, NoLink, Enter, NotDue, Read, Passed, Failed, Sleep,
                    Signal, vars, world
<1>2. ASSUME NEW ip \in Gateways, Cut(ip) \/ Repair(ip) \/ Restart(ip)
      PROVE  down' \subseteq Gateways /\ stopped' \subseteq Devices
  BY <1>0, <1>2 DEF Cut, Repair, Restart
<1>3. ASSUME NEW d \in Devices, DeviceStops(d) \/ DeviceRuns(d) \/ Expires(d)
      PROVE  down' \subseteq Gateways /\ stopped' \subseteq Devices
  BY <1>0, <1>3 DEF DeviceStops, DeviceRuns, Expires
<1> QED
  BY <1>1, <1>2, <1>3 DEF Next

(* What a step may do to the links. *)
LEMMA LinksStay ==
    ASSUME Shape, [Next]_vars
    PROVE  Good(link') /\ link.mixed \subseteq link'.mixed /\ (Drops(link, link') \/ pc' = "ended")
<1>0. Good(link)
  BY DEF Shape
<1>1. CASE Logger
  BY <1>1, LogsFairly
<1>2. CASE UNCHANGED vars
  BY <1>0, <1>2, KeepsItself, KeepingIsEnough DEF vars
<1>3. CASE ~ Logger /\ Next
  <2>1. Alike(link, link')
    BY <1>3, WorldsFairly DEF Next
  <2>2. link.mixed \subseteq link'.mixed
    BY <2>1 DEF Alike
  <2> QED
    BY <1>0, <2>1, <2>2, AlikeIsGood, KeepingIsEnough
<1> QED
  BY <1>1, <1>2, <1>3

LEMMA ShapeLasts ==
    ASSUME Shape, [Next]_vars PROVE Shape'
<1>1. plant' = plant /\ PlantOK
  BY ItemsStay DEF Shape
<1>2. PlantOK' /\ PLCs' = PLCs /\ Gateways' = Gateways /\ Devices' = Devices
  BY <1>1, SamePlant
<1>3. Good(link)'
  BY <1>1, LinksStay, SamePlant
<1>4. pc' \in Places /\ elt' \in PLCs
  BY PlacesLast
<1>5. ItemsTyped'
  BY ItemsAreTyped
<1>6. AtItem'
  BY ItemIsThere DEF AtItem
<1>7. TimesTyped'
  BY <1>2, TimesAreTyped DEF TimesTyped, NextTyped, AgesTyped
<1>8. Errors' \in [PLCs -> 0 .. MAX_ERR_BEFORE_CHECK] /\ down' \subseteq Gateways /\ stopped' \subseteq Devices
      /\ now' \in Nat
  BY ErrorsAreTyped, WorldIsTyped, NowIsTyped
<1> QED
  BY <1>2, <1>3, <1>4, <1>5, <1>6, <1>7, <1>8 DEF Shape, Places

LEMMA ShapeAtFirst ==
    ASSUME Init PROVE Shape
<1>1. PICK test \in Plants : plant = test.plcs /\ Linked(test)
  BY DEF Init
<1>2. PlantOK /\ test.faults \in Nat
  <2>1. test \in [plcs : Seq(Plc) \ {<<>>}, faults : Nat, slow : Nat] /\ Len(test.plcs) <= Cardinality(Sessions)
    BY ABAssumption
  <2> QED
    BY <1>1, <2>1 DEF PlantOK
<1>3. /\ DOMAIN link = {"sess", "session", "connection", "held", "late", "serial", "faults", "slow",
                         "mixed", "killed"}
      /\ link.sess = [s \in Sessions |-> None] /\ link.session = [p \in PLCs |-> None]
      /\ link.connection = [p \in PLCs |-> None] /\ link.serial = 0 /\ link.faults = test.faults
  BY <1>1 DEF Linked
<1>4. LinkTyped(link)
  BY <1>2, <1>3, Constants DEF LinkTyped
<1>5. Used(link) /\ Exact(link) /\ Aimed(link)
  BY <1>3 DEF Used, Exact, Aimed
<1>6. PLCs = 1 .. Len(plant) /\ Len(plant) \in Nat /\ Len(plant) >= 1
  BY <1>2, PlcFacts
<1>7. /\ items = [p \in PLCs |-> <<>>] /\ pc = "start" /\ elt = 1 /\ next = [p \in PLCs |-> 0]
      /\ age = [p \in PLCs |-> <<>>] /\ Errors = [p \in PLCs |-> 0] /\ down = {} /\ stopped = {} /\ now = 0
  BY DEF Init
<1>8. ItemsTyped
  <2>1. \A p : <<>> \in Seq(ItemsOf(p))
    OBVIOUS
  <2> QED
    BY <1>7, <2>1 DEF ItemsTyped
<1>9. TimesTyped
  <2>1. 3 * Wait + NextSample \in Nat
    BY Constants
  <2>2. 0 \in 0 .. 3 * Wait + NextSample
    BY <2>1
  <2>3. DOMAIN <<>> = {}
    OBVIOUS
  <2>4. AgesTyped(age, items)
    BY <1>7, <2>3 DEF AgesTyped
  <2> QED
    BY <1>7, <2>2, <2>4 DEF TimesTyped
<1>10. 0 \in 0 .. MAX_ERR_BEFORE_CHECK
  BY Constants
<1>11. elt \in PLCs /\ pc \in Places /\ AtItem
  BY <1>6, <1>7 DEF Places, AtItem
<1> QED
  BY <1>2, <1>4, <1>5, <1>7, <1>8, <1>9, <1>10, <1>11 DEF Shape, Good

(* What the reader asked for. *)
LEMMA ShapeIsType ==
    ASSUME Shape PROVE TypeOK /\ SessionsAreUsed
<1>1. TypeOK
  <2>1. \A s \in Sessions : link.sess[s] # None => link.sess[s] \in Session /\ link.sess[s].ip \in Gateways
    BY DEF Shape, Good, LinkTyped
  <2>2. pc = "item" => elt2 \in DOMAIN items[elt] /\ None \notin {link.session[elt], link.connection[elt]}
    BY DEF Shape, AtItem
  <2>3. \A p \in PLCs : DOMAIN age[p] = DOMAIN items[p] /\ \A n \in DOMAIN age[p] : age[p][n] \in 0 .. Long
    BY DEF Shape, TimesTyped, AgesTyped
  <2>4. link.session \in [PLCs -> Sessions \union {None}] /\ link.serial \in 0 .. SerialRange - 1
    BY DEF Shape, Good, LinkTyped
  <2> QED
    BY <2>1, <2>2, <2>3, <2>4 DEF Shape, TypeOK, Places, TimesTyped
<1>2. {s \in Sessions : link.sess[s] # None} = {link.session[p] : p \in PLCs} \ {None}
  <2>1. ASSUME NEW s \in Sessions, link.sess[s] # None
        PROVE  s \in {link.session[p] : p \in PLCs} \ {None}
    BY <2>1, Constants DEF Shape, Good, Used
  <2>2. ASSUME NEW p \in PLCs, link.session[p] # None
        PROVE  link.session[p] \in {s \in Sessions : link.sess[s] # None}
    BY <2>2 DEF Shape, Good, LinkTyped, Used
  <2> QED
    BY <2>1, <2>2
<1> QED
  BY <1>1, <1>2 DEF SessionsAreUsed

LEMMA ShapeHolds == Spec => []Shape
<1>1. Init => Shape
  BY ShapeAtFirst
<1>2. Shape /\ [Next]_vars => Shape'
  BY ShapeLasts
<1> QED
  BY <1>1, <1>2, PTL DEF Spec

-----------------------------------------------------------------------------
(***************************************************************************)
(* What is stored.                                                         *)
(***************************************************************************)
Own(t) == [device |-> Of(t[1]), file |-> t[2].file, element |-> t[2].element]
StoredOf(t) == {None, BadValue, Own(t)}

(* A value of an item that was read over the right connection is that of   *)
(* its tag.                                                                *)
LEMMA ValueIsOfTag ==
    ASSUME Shape, pc = "item", Distinct, NEW c, c = link.connection[elt], c.to # None,
           plant[elt].ip \notin link.mixed, Plain(elt), NEW tag \in ItemTags
    PROVE  ValueOf(c, "data", tag) = [device |-> Of(elt), file |-> tag.file, element |-> tag.element]
<1> DEFINE i == CHOOSE i \in DOMAIN item.tags : item.tags[i] = tag
<1>1. i \in DOMAIN item.tags /\ item.tags[i] = tag
  BY DEF ItemTags, ToSet
<1>2. ValueOf(c, "data", tag) =
         [device |-> c.to.device, file |-> item.tags[1].file, element |-> Element(item, i)]
  BY DEF ValueOf
<1> HIDE DEF i
<1>3. elt \in PLCs /\ item \in ItemsOf(elt) /\ PlantOK
  BY AtAnItem DEF Shape
<1>4. /\ item.tags \in Seq(Tags(elt)) /\ Len(item.tags) > 0
      /\ \A k \in 1 .. Len(item.tags) : item.tags[k].file = item.tags[1].file
  BY <1>3, ItemFacts
<1>5. /\ Len(item.tags) \in Nat /\ DOMAIN item.tags = 1 .. Len(item.tags)
      /\ \A k \in 1 .. Len(item.tags) : item.tags[k] \in Tags(elt)
  BY <1>4, Elements
<1>6. item.tags[1].file = tag.file
  BY <1>1, <1>4, <1>5
<1>7. c.to.device = Of(elt)
  <2>1. c # None /\ c.device = Of(elt) /\ Leads(c, link.mixed)
    BY <1>3 DEF Shape, AtItem, Good, Exact, Aimed
  <2>2. c.device[1] = plant[elt].ip
    BY <2>1 DEF Of, Device
  <2> QED
    BY <2>1, <2>2 DEF Leads
<1>8. Element(item, i) = tag.element
  <2>1. \A g \in Tags(elt) : g.element \in Nat /\ g.element < Base
    BY <1>3, TagFacts DEF Plain, Tag
  <2>2. item.tags[1] \in Tags(elt) /\ item.tags[i] \in Tags(elt)
    BY <1>1, <1>4, <1>5
  <2>3. Byte2(item.tags[1]) = item.tags[1].element /\ Byte2(item.tags[i]) = item.tags[i].element
    BY <2>1, <2>2, Constants DEF Byte2, Smaller
  <2>4. item.tags[1].element \in Nat /\ item.tags[i].element \in Nat
    BY <2>1, <2>2
  <2> QED
    BY <1>1, <2>3, <2>4 DEF Element
<1> QED
  BY <1>2, <1>6, <1>7, <1>8

(* What a reply stores, unless it is one that came late.                   *)
LEMMA UpdateIsOfTags ==
    ASSUME Shape, pc = "item", Distinct, StoredIsOfTag, NEW r \in Answer(link, elt),
           r.res \in {"data", "crossed"}, r.l.mixed \subseteq link'.mixed,
           link.mixed \subseteq link'.mixed,
           NEW bad \in SUBSET ItemTags, NEW refused \in SUBSET ItemTags,
           Update(link.connection[elt], r.res, bad, refused),
           NEW t \in AllTags, Plain(t[1]), plant[t[1]].ip \notin link'.mixed
    PROVE  stored'[t] \in StoredOf(t)
<1> DEFINE c == link.connection[elt]
<1>1. stored'[t] = IF t[1] # elt \/ t[2] \notin ItemTags \ refused THEN stored[t]
                   ELSE IF t[2] \in bad THEN BadValue ELSE ValueOf(c, r.res, t[2])
  BY DEF Update
<1>2. stored[t] \in StoredOf(t)
  BY DEF StoredIsOfTag, StoredOf, Own
<1>3. CASE t[1] # elt \/ t[2] \notin ItemTags \ refused \/ t[2] \in bad
  BY <1>1, <1>2, <1>3 DEF StoredOf
<1>4. CASE t[1] = elt /\ t[2] \in ItemTags \ refused /\ t[2] \notin bad
  <2>1. stored'[t] = ValueOf(c, r.res, t[2]) /\ t[2] \in ItemTags
    BY <1>1, <1>4
  <2>2. Good(link) /\ elt \in PLCs /\ link.session[elt] # None /\ link.connection[elt] # None
    BY DEF Shape, AtItem
  <2>3. /\ r.res = "data" => c.to # None
        /\ r.res = "crossed" => link.sess[link.session[elt]].ip \in r.l.mixed
    BY <2>2, AnswerIsAlike
  <2>4. link.sess[link.session[elt]].ip = plant[elt].ip
    BY <2>2 DEF Good, Exact
  <2>5. r.res = "data"
    BY <1>4, <2>3, <2>4
  <2>6. plant[elt].ip \notin link.mixed /\ Plain(elt)
    BY <1>4
  <2>7. c = link.connection[elt] /\ c.to # None
    BY <2>3, <2>5
  <2> HIDE DEF c
  <2>8. ValueOf(c, "data", t[2]) = [device |-> Of(elt), file |-> t[2].file, element |-> t[2].element]
    BY <2>1, <2>6, <2>7, ValueIsOfTag
  <2> QED
    BY <1>4, <2>1, <2>5, <2>8 DEF StoredOf, Own
<1> QED
  BY <1>3, <1>4

LEMMA StoredLasts ==
    ASSUME Shape, StoredIsOfTag, [Next]_vars PROVE StoredIsOfTag'
<1>1. plant' = plant
  BY ItemsStay
<1>0. link.mixed \subseteq link'.mixed
  BY LinksStay
<1>2. \/ stored' = stored
      \/ /\ pc = "item"
         /\ \E r \in Answer(link, elt) :
               /\ r.res \in {"data", "crossed"} /\ r.l.mixed \subseteq link'.mixed
               /\ \E bad, refused \in SUBSET ItemTags :
                     Update(link.connection[elt], r.res, bad, refused)
  <2>1. CASE Read
    BY <2>1, ReadFacts
  <2>2. CASE Logger /\ ~ Read
    BY <2>2 DEF Logger, Load, Build, Round, NotYet, NoLink, Enter, NotDue, Passed, Failed, Sleep, world
  <2>3. CASE Signal \/ UNCHANGED vars
    BY <2>3 DEF Signal, vars, world
  <2>4. ASSUME NEW ip \in Gateways, Cut(ip) \/ Repair(ip) \/ Restart(ip) PROVE stored' = stored
    BY <2>4 DEF Cut, Repair, Restart, World
  <2>5. ASSUME NEW d \in Devices, DeviceStops(d) \/ DeviceRuns(d) \/ Expires(d) PROVE stored' = stored
    BY <2>5 DEF DeviceStops, DeviceRuns, Expires, World
  <2> QED
    BY <2>1, <2>2, <2>3, <2>4, <2>5 DEF Next
<1>3. ASSUME Distinct, NEW t \in AllTags, Plain(t[1]), plant[t[1]].ip \notin link'.mixed
      PROVE  stored'[t] \in StoredOf(t)
  <2>1. stored[t] \in StoredOf(t)
    BY <1>0, <1>3 DEF StoredIsOfTag, StoredOf, Own
  <2>2. ASSUME NEW r \in Answer(link, elt), NEW bad \in SUBSET ItemTags, NEW refused \in SUBSET ItemTags,
               pc = "item", r.res \in {"data", "crossed"}, r.l.mixed \subseteq link'.mixed,
               Update(link.connection[elt], r.res, bad, refused)
        PROVE  stored'[t] \in StoredOf(t)
    BY <1>0, <1>3, <2>2, UpdateIsOfTags
  <2> QED
    BY <1>2, <2>1, <2>2
<1>4. AllTags' = AllTags /\ PLCs' = PLCs
  BY <1>1, SamePlant
<1>5. (Distinct' => Distinct) /\ \A p : Plain(p)' => Plain(p)
  <2>1. Distinct' => Distinct
    BY <1>1, <1>4, Zenon DEF Distinct, Prefix, Of, Device
  <2>2. \A p : Plain(p)' => Plain(p)
    BY <1>1 DEF Plain, Tags, ToSet
  <2> QED
    BY <2>1, <2>2
<1>6. \A t : StoredOf(t)' = StoredOf(t)
  BY <1>1 DEF StoredOf, Own, Of, Device
<1>7. ASSUME Distinct', NEW t \in AllTags, Plain(t[1])', plant[t[1]].ip \notin link'.mixed
      PROVE  stored'[t] \in StoredOf(t)'
  BY <1>3, <1>5, <1>6, <1>7
<1>8. ASSUME Distinct', NEW t \in AllTags, Plain(t[1])'
      PROVE  stored'[t] \in StoredOf(t)' \/ plant'[t[1]].ip \in link'.mixed
  BY <1>1, <1>7, <1>8
<1> QED
  BY <1>4, <1>8 DEF StoredIsOfTag, StoredOf, Own

-----------------------------------------------------------------------------
(***************************************************************************)
(* The theorems.                                                           *)
(***************************************************************************)

(* A session that is open is that of a PLC, and that of a PLC is open,     *)
(* whatever sessions the PLCs share, check and give up (FindSession,       *)
(* CheckSession).                                                          *)
THEOREM SessionsStayUsed == Spec => []SessionsAreUsed
<1>1. Shape => SessionsAreUsed
  BY ShapeIsType
<1> QED
  BY <1>1, ShapeHolds, PTL

(* What is stored for a tag is the value of its element in its own device, *)
(* or of a conversion of it that failed, as long as no call has taken the  *)
(* late reply to another over a session of the gateway (FindConnection,    *)
(* Optimise_Plc, ReadPacket).                                              *)
THEOREM ValuesAreOfTags == Spec => []StoredIsOfTag
<1>1. Init => StoredIsOfTag
  BY DEF Init, StoredIsOfTag
<1>2. Shape /\ StoredIsOfTag /\ [Next]_vars => StoredIsOfTag'
  BY StoredLasts
<1> QED
  BY <1>1, <1>2, ShapeHolds, PTL DEF Spec

(* A session over which the gateway answers is not given up before the     *)
(* end: only a request that is lost can do that, or the late reply to an   *)
(* earlier one (CheckSession).                                             *)
THEOREM UpSessionsDoStay == Spec => UpSessionsStay
<1>1. ASSUME Shape, [Next]_vars, NEW s \in Sessions, link.sess[s] # None, link'.sess[s] = None
      PROVE  \/ link.sess[s].tcp # "up" \/ link.sess[s].ip \in down
             \/ \E r \in link.late : r.over = s
             \/ link'.faults # link.faults \/ pc' = "ended"
  <2>1. Good(link') /\ Good(link) /\ (Drops(link, link') \/ pc' = "ended")
    BY <1>1, LinksStay DEF Shape
  <2>2. link.faults \in Nat /\ link'.faults \in Nat
    BY <2>1 DEF Good, LinkTyped
  <2> QED
    BY <1>1, <2>1, <2>2 DEF Drops, Silent
<1>2. Shape /\ [Next]_vars =>
         [\A s \in Sessions : link.sess[s] # None /\ link'.sess[s] = None
             => \/ link.sess[s].tcp # "up" \/ link.sess[s].ip \in down
                \/ \E r \in link.late : r.over = s
                \/ link'.faults # link.faults \/ pc' = "ended"]_vars
  BY <1>1
<1> QED
  BY <1>2, ShapeHolds, PTL DEF Spec, UpSessionsStay

=============================================================================
