----------------------------- MODULE TreeProofs -----------------------------
(***************************************************************************)
(* Proofs about Tree.                                                       *)
(***************************************************************************)
EXTENDS Tree, FiniteSetTheorems, WellFoundedInduction, TLAPS

-----------------------------------------------------------------------------
(* The operators of Tree *)

(* The largest of finitely many numbers is one of them.                     *)
LEMMA MaxFacts ==
    ASSUME NEW n \in Nat, NEW S \in SUBSET (0 .. n), S # {}
    PROVE  Max(S) \in S /\ \A y \in S : y <= Max(S)
<1> DEFINE T == {n - x : x \in S}
<1>1. T \subseteq Nat /\ T # {}
    <2>1. \A x \in S : n - x \in Nat
        OBVIOUS
    <2>2. \A y \in T : y \in Nat
        BY <2>1
    <2>3. PICK x \in S : TRUE
        OBVIOUS
    <2>4. n - x \in T
        BY <2>3
    <2> QED BY <2>2, <2>4
<1>2. \E x \in T : \A y \in T : ~(<<y, x>> \in OpToRel(<, Nat))
    BY <1>1, NatLessThanWellFounded, WFMin
<1>3. PICK x \in T : \A y \in T : ~(y < x)
    BY <1>1, <1>2 DEF OpToRel
<1>4. PICK m \in S : x = n - m
    OBVIOUS
<1>5. \A y \in S : m >= y
    <2> SUFFICES ASSUME NEW y \in S PROVE m >= y
        OBVIOUS
    <2>1. ~(n - y < n - m)
        BY <1>3, <1>4
    <2> QED BY <2>1
<1> QED BY <1>5 DEF Max

(* rfind: one of the positions found, or 0.                                 *)
LEMMA RFindFacts ==
    ASSUME NEW n \in Nat, NEW S \in SUBSET (1 .. n)
    PROVE  /\ RFind(S) \in S \cup {0}
           /\ S # {} => RFind(S) \in S
           /\ \A y \in S : y <= RFind(S)
<1>1. S \cup {0} \in SUBSET (0 .. n) /\ S \cup {0} # {}
    OBVIOUS
<1>2. RFind(S) \in S \cup {0} /\ \A y \in S \cup {0} : y <= RFind(S)
    BY <1>1, MaxFacts DEF RFind
<1>3. ASSUME S # {} PROVE RFind(S) \in S
    <2>1. PICK y \in S : TRUE
        BY <1>3
    <2>2. y >= 1 /\ y <= RFind(S) /\ y \in Nat
        BY <1>2
    <2> QED BY <1>2, <2>2
<1> QED BY <1>2, <1>3

(* A stable sort is a permutation: every place is taken by one of the       *)
(* slots.                                                                   *)
LEMMA OrderedFacts ==
    ASSUME NEW slots, NEW S \in SUBSET Int, IsFiniteSet(S), NEW key, \A i \in S : key[i] \in Int
    PROVE  /\ Cardinality(S) \in Nat
           /\ Ordered(slots, S, key) \in [1 .. Cardinality(S) -> {slots[i] : i \in S}]
           /\ \A n \in 0 .. Cardinality(S) - 1 : \E i \in S : Place(S, key, i) = n
<1> DEFINE c == Cardinality(S)
           T == 0 .. c - 1
           Before(i) == {j \in S : key[j] < key[i] \/ (key[j] = key[i] /\ j < i)}
           f == [i \in S |-> Place(S, key, i)]
<1>1. c \in Nat
    BY FS_CardinalityType
<1>2. \A i \in S : Place(S, key, i) = Cardinality(Before(i))
    BY DEF Place
<1>3. \A i \in S : IsFiniteSet(Before(i)) /\ i \notin Before(i) /\ Before(i) \subseteq S
    <2> SUFFICES ASSUME NEW i \in S PROVE IsFiniteSet(Before(i)) /\ i \notin Before(i)
        OBVIOUS
    <2>1. Before(i) \in SUBSET S
        OBVIOUS
    <2>2. IsFiniteSet(Before(i))
        BY <2>1, FS_Subset
    <2>3. i \notin Before(i)
        OBVIOUS
    <2> QED BY <2>2, <2>3
<1>4. ASSUME NEW i \in S, NEW U \in SUBSET S, Before(i) \cup {i} \subseteq U
      PROVE  Cardinality(Before(i)) \in Nat /\ Cardinality(Before(i)) < Cardinality(U) /\ Cardinality(U) <= c
    <2>1. IsFiniteSet(U) /\ Cardinality(U) <= c /\ Cardinality(U) \in Nat
        BY FS_Subset, FS_CardinalityType
    <2>2. Before(i) \cup {i} \in SUBSET U
        BY <1>4
    <2>3. Cardinality(Before(i) \cup {i}) <= Cardinality(U)
        BY <2>1, <2>2, FS_Subset
    <2>4. Cardinality(Before(i) \cup {i}) = Cardinality(Before(i)) + 1
        BY <1>3, FS_AddElement
    <2>5. Cardinality(Before(i)) \in Nat
        BY <1>3, FS_CardinalityType
    <2> QED BY <2>1, <2>3, <2>4, <2>5
<1>5. \A i \in S : Place(S, key, i) \in T
    <2> SUFFICES ASSUME NEW i \in S PROVE Place(S, key, i) \in T
        OBVIOUS
    <2>1. Before(i) \cup {i} \subseteq S
        BY <1>3
    <2>2. Cardinality(Before(i)) \in Nat /\ Cardinality(Before(i)) < c
        BY <1>4, <2>1
    <2> QED BY <1>1, <1>2, <2>2
<1>6. \A i, j \in S : i # j => Place(S, key, i) # Place(S, key, j)
    <2>1. ASSUME NEW i \in S, NEW j \in S, i \in Before(j) PROVE Place(S, key, i) # Place(S, key, j)
        <3>1. Before(i) \subseteq Before(j)
            <4> SUFFICES ASSUME NEW x \in Before(i) PROVE x \in Before(j)
                OBVIOUS
            <4>1. x \in Int /\ i \in Int /\ j \in Int /\ key[x] \in Int /\ key[i] \in Int /\ key[j] \in Int
                OBVIOUS
            <4> QED BY <2>1, <4>1
        <3>2. Before(i) \cup {i} \subseteq Before(j)
            BY <2>1, <3>1
        <3>3. Cardinality(Before(i)) \in Nat /\ Cardinality(Before(i)) < Cardinality(Before(j))
            BY <1>3, <1>4, <3>2
        <3>4. Cardinality(Before(j)) \in Nat
            BY <1>3, FS_CardinalityType
        <3>5. Cardinality(Before(i)) # Cardinality(Before(j))
            BY <3>3, <3>4
        <3> QED BY <1>2, <3>5
    <2> SUFFICES ASSUME NEW i \in S, NEW j \in S, i # j PROVE Place(S, key, i) # Place(S, key, j)
        OBVIOUS
    <2>2. i \in Int /\ j \in Int /\ key[i] \in Int /\ key[j] \in Int
        OBVIOUS
    <2>3. i \in Before(j) \/ j \in Before(i)
        BY <2>2
    <2> QED BY <2>1, <2>3
<1>7. f \in Injection(S, T)
    BY <1>5, <1>6 DEF Injection, IsInjective
<1>8. IsFiniteSet(T) /\ Cardinality(T) = c
    <2>1. 0 \in Int /\ c - 1 \in Int /\ (0 > c - 1 => c = 0) /\ (c - 1) - 0 + 1 = c
        BY <1>1
    <2> HIDE DEF c
    <2>2. IsFiniteSet(T) /\ Cardinality(T) = IF 0 > c - 1 THEN 0 ELSE (c - 1) - 0 + 1
        BY <2>1, FS_Interval
    <2> QED BY <2>1, <2>2
<1>9. f \in Surjection(S, T)
    BY <1>7, <1>8, FS_Injection
<1>10. \A n \in T : \E i \in S : Place(S, key, i) = n
    BY <1>9 DEF Surjection
<1>11. ASSUME NEW n \in 1 .. c PROVE \E i \in S : Ordered(slots, S, key)[n] = slots[i]
    <2>1. n - 1 \in T
        BY <1>1
    <2>2. \E i \in S : Place(S, key, i) = n - 1
        BY <1>10, <2>1
    <2>3. (CHOOSE i \in S : Place(S, key, i) = n - 1) \in S
        BY <2>2
    <2>4. Ordered(slots, S, key)[n] = slots[CHOOSE i \in S : Place(S, key, i) = n - 1]
        BY DEF Ordered
    <2> QED BY <2>3, <2>4
<1>12. Ordered(slots, S, key) \in [1 .. c -> {slots[i] : i \in S}]
    BY <1>11 DEF Ordered
<1> QED BY <1>1, <1>10, <1>12

(* One of finitely many numbers has the least key: the first when sorted.   *)
LEMMA LeastFacts ==
    ASSUME NEW S \in SUBSET Int, IsFiniteSet(S), S # {}, NEW key, \A i \in S : key[i] \in Int
    PROVE  \E i \in S : \A j \in S : key[i] <= key[j]
<1>1. Cardinality(S) \in Nat /\ Cardinality(S) # 0
    BY FS_CardinalityType, FS_EmptySet
<1>2. 0 \in 0 .. Cardinality(S) - 1
    BY <1>1
<1>3. \A n \in 0 .. Cardinality(S) - 1 : \E i \in S : Place(S, key, i) = n
    BY OrderedFacts
<1>4. PICK i \in S : Place(S, key, i) = 0
    BY <1>2, <1>3
<1> DEFINE Before == {j \in S : key[j] < key[i] \/ (key[j] = key[i] /\ j < i)}
<1>5. IsFiniteSet(Before) /\ Cardinality(Before) = 0
    <2>1. Before \in SUBSET S
        OBVIOUS
    <2>2. IsFiniteSet(Before)
        BY <2>1, FS_Subset
    <2> QED BY <1>4, <2>2 DEF Place
<1>6. Before = {}
    BY <1>5, FS_EmptySet
<1>7. \A j \in S : key[i] <= key[j]
    BY <1>6
<1> QED BY <1>7

Slot == [lo : Int, hi : Int, ver : Int, end : Nat, ptr : Nat]
Page == [leaf : BOOLEAN, slots : Seq(Slot), live : Int, dead : Int]
Part == [lo : Int, hi : Int, page : Page]

(* The live slots of a page, in their order.                                *)
LEMMA LiveSlotsFacts ==
    ASSUME NEW p \in Page
    PROVE  /\ Active(p) \subseteq 1 .. Len(p.slots) /\ IsFiniteSet(Active(p))
           /\ Cardinality(Active(p)) \in Nat /\ Cardinality(Active(p)) <= Len(p.slots)
           /\ LiveSlots(p) \in Seq(Slot) /\ Len(LiveSlots(p)) = Cardinality(Active(p))
           /\ \A n \in 1 .. Len(LiveSlots(p)) : \E i \in Active(p) : LiveSlots(p)[n] = p.slots[i]
<1> DEFINE key == [i \in DOMAIN p.slots |-> i]
           S == Active(p)
           t == LiveSlots(p)
<1>1. p.slots \in Seq(Slot) /\ Len(p.slots) \in Nat /\ DOMAIN p.slots = 1 .. Len(p.slots)
    BY DEF Page
<1>2. S \in SUBSET (1 .. Len(p.slots))
    BY <1>1 DEF Active
<1>3. IsFiniteSet(1 .. Len(p.slots)) /\ Cardinality(1 .. Len(p.slots)) = Len(p.slots)
    BY <1>1, FS_Interval
<1>4. IsFiniteSet(S) /\ Cardinality(S) <= Len(p.slots)
    BY <1>2, <1>3, FS_Subset
<1>5. S \in SUBSET Int /\ \A i \in S : key[i] \in Int
    BY <1>1, <1>2
<1>6. t = Ordered(p.slots, S, key)
    BY DEF LiveSlots
<1> HIDE DEF key, S, t
<1>7. Cardinality(S) \in Nat /\ t \in [1 .. Cardinality(S) -> {p.slots[i] : i \in S}]
    BY <1>4, <1>5, <1>6, OrderedFacts
<1>8. {p.slots[i] : i \in S} \subseteq Slot
    <2>1. \A i \in 1 .. Len(p.slots) : p.slots[i] \in Slot
        BY <1>1
    <2> QED BY <1>2, <2>1 DEF S
<1>9. t \in Seq(Slot) /\ Len(t) = Cardinality(S)
    BY <1>7, <1>8
<1> QED BY <1>2, <1>4, <1>7, <1>9 DEF S, t

LEMMA LenFact == ASSUME NEW s \in Seq(Slot) PROVE Len(s) \in Nat /\ DOMAIN s = 1 .. Len(s)
OBVIOUS

LEMMA PageTyped ==
    ASSUME NEW p \in Page
    PROVE  /\ p.slots \in Seq(Slot) /\ Len(p.slots) \in Nat /\ DOMAIN p.slots = 1 .. Len(p.slots)
           /\ p.live \in Int /\ p.dead \in Int /\ p.leaf \in BOOLEAN
           /\ \A i \in 1 .. Len(p.slots) : p.slots[i] \in Slot
<1>1. p.slots \in Seq(Slot) /\ p.live \in Int /\ p.dead \in Int /\ p.leaf \in BOOLEAN
    BY DEF Page
<1>2. Len(p.slots) \in Nat /\ DOMAIN p.slots = 1 .. Len(p.slots) /\ \A i \in 1 .. Len(p.slots) : p.slots[i] \in Slot
    BY <1>1
<1> QED BY <1>1, <1>2

(* Sorting keeps the length and moves slots about.                          *)
LEMMA SortFacts ==
    ASSUME NEW s \in Seq(Slot)
    PROVE  /\ ByKey(s) \in Seq(Slot) /\ Len(ByKey(s)) = Len(s)
           /\ \A n \in 1 .. Len(s) : \E i \in 1 .. Len(s) : ByKey(s)[n] = s[i]
           /\ ByVersion(s) \in Seq(Slot) /\ Len(ByVersion(s)) = Len(s)
           /\ \A n \in 1 .. Len(s) : \E i \in 1 .. Len(s) : ByVersion(s)[n] = s[i]
<1> DEFINE D == DOMAIN s
<1>1. Len(s) \in Nat /\ D = 1 .. Len(s)
    OBVIOUS
<1>2. IsFiniteSet(D) /\ Cardinality(D) = Len(s) /\ D \in SUBSET Int
    BY <1>1, FS_Interval
<1>3. ASSUME NEW key, \A i \in D : key[i] \in Int
      PROVE  /\ Ordered(s, D, key) \in Seq(Slot) /\ Len(Ordered(s, D, key)) = Len(s)
             /\ \A n \in 1 .. Len(s) : \E i \in 1 .. Len(s) : Ordered(s, D, key)[n] = s[i]
    <2> DEFINE t == Ordered(s, D, key)
    <2> HIDE DEF D
    <2>1. t \in [1 .. Len(s) -> {s[i] : i \in D}]
        BY <1>2, <1>3, OrderedFacts
    <2> HIDE DEF t
    <2>2. \A n \in 1 .. Len(s) : t[n] \in Slot
        BY <1>1, <2>1
    <2>3. t \in Seq(Slot) /\ Len(t) = Len(s)
        BY <1>1, <2>1, <2>2
    <2> QED BY <1>1, <2>1, <2>3 DEF t
<1> DEFINE byLo == [i \in D |-> s[i].lo]
           byVer == [i \in D |-> s[i].ver]
<1>4. \A i \in D : s[i].lo \in Int /\ s[i].ver \in Int
    <2>1. \A i \in D : s[i] \in Slot
        OBVIOUS
    <2> QED BY <2>1 DEF Slot
<1>5. (\A i \in D : byLo[i] \in Int) /\ (\A i \in D : byVer[i] \in Int)
    BY <1>4
<1>6. ByKey(s) = Ordered(s, D, byLo) /\ ByVersion(s) = Ordered(s, D, byVer)
    BY DEF ByKey, ByVersion
<1> HIDE DEF D, byLo, byVer
<1>7. /\ Ordered(s, D, byLo) \in Seq(Slot) /\ Len(Ordered(s, D, byLo)) = Len(s)
      /\ \A n \in 1 .. Len(s) : \E i \in 1 .. Len(s) : Ordered(s, D, byLo)[n] = s[i]
    BY <1>3, <1>5
<1>8. /\ Ordered(s, D, byVer) \in Seq(Slot) /\ Len(Ordered(s, D, byVer)) = Len(s)
      /\ \A n \in 1 .. Len(s) : \E i \in 1 .. Len(s) : Ordered(s, D, byVer)[n] = s[i]
    BY <1>3, <1>5
<1> QED BY <1>6, <1>7, <1>8

(* A fresh page that holds some of these slots and nothing else.            *)
Copies(q, leaf, s) ==
    /\ q \in Page /\ q.leaf = leaf /\ q.live = Len(q.slots) /\ q.dead = 0
    /\ \A n \in 1 .. Len(q.slots) : \E i \in 1 .. Len(s) : q.slots[n] = s[i]

LEMMA BulkPushFacts ==
    ASSUME NEW leaf \in BOOLEAN, NEW t \in Seq(Slot), NEW s,
           \A n \in 1 .. Len(t) : \E i \in 1 .. Len(s) : t[n] = s[i]
    PROVE  Copies(BulkPush(leaf, t), leaf, s) /\ BulkPush(leaf, t).slots = t
BY DEF Copies, BulkPush, Page

(* The halves of a key split, and their fences.                             *)
Halves(parts, leaf, s, lo, hi) ==
    /\ parts \in Seq(Part) /\ Len(parts) = 2
    /\ \A i \in 1 .. 2 : Copies(parts[i].page, leaf, s)
    /\ Len(parts[1].page.slots) = Len(s) \div 2
    /\ Len(parts[2].page.slots) = Len(s) - Len(s) \div 2
    /\ \E sep \in Int : /\ parts[1].lo = lo /\ parts[1].hi = Dec(sep)
                        /\ parts[2].lo = sep /\ parts[2].hi = hi

LEMMA KeySplitFacts ==
    ASSUME NEW leaf \in BOOLEAN, NEW s \in Seq(Slot), Len(s) >= 1, NEW lo \in Int, NEW hi \in Int
    PROVE  Halves(KeySplit(leaf, s, lo, hi), leaf, s, lo, hi)
<1> DEFINE sorted == ByKey(s)
           m == Len(s) \div 2
           sep == sorted[m + 1].lo
           one == SubSeq(sorted, 1, m)
           two == SubSeq(sorted, m + 1, Len(sorted))
           a == Fence(lo, Dec(sep), BulkPush(leaf, ByVersion(one)))
           b == Fence(sep, hi, BulkPush(leaf, ByVersion(two)))
<1>0. \A n \in 1 .. Len(s) : \E i \in 1 .. Len(s) : sorted[n] = s[i]
    BY SortFacts
<1>1. sorted \in Seq(Slot) /\ Len(sorted) = Len(s) /\ Len(s) \in Nat
    BY SortFacts, LenFact
<1>2. m \in Nat /\ m + 1 \in 1 .. Len(s)
    BY <1>1
<1>3. sep \in Int /\ Dec(sep) \in Int
    <2>1. sorted[m + 1] \in Slot
        BY <1>1, <1>2
    <2>2. sorted[m + 1].lo \in Int
        BY <2>1 DEF Slot
    <2> QED BY <2>2, TreeAssumption DEF Dec
<1> HIDE DEF sorted, m, sep
<1>4. /\ one \in Seq(Slot) /\ Len(one) = m
      /\ \A n \in 1 .. m : one[n] = sorted[n]
    BY <1>1, <1>2
<1>5. /\ two \in Seq(Slot) /\ Len(two) = Len(s) - m
      /\ \A n \in 1 .. Len(s) - m : two[n] = sorted[m + n]
    <2>1. Len(sorted) \in Nat /\ m + 1 \in 1 .. Len(sorted) + 1
        BY <1>1, <1>2
    <2>2. two = [n \in 1 .. Len(sorted) - m |-> sorted[m + n]]
        BY <1>1, <1>2, <2>1
    <2>3. \A n \in 1 .. Len(sorted) - m : sorted[m + n] \in Slot
        BY <1>1, <1>2
    <2>4. Len(s) - m \in Nat /\ two = [n \in 1 .. Len(s) - m |-> sorted[m + n]]
        BY <1>1, <1>2, <2>2
    <2>5. \A n \in 1 .. Len(s) - m : sorted[m + n] \in Slot
        BY <1>1, <2>3
    <2> HIDE DEF two
    <2> QED BY <2>4, <2>5
<1> HIDE DEF one, two
<1>6. ASSUME NEW half \in Seq(Slot), \A n \in 1 .. Len(half) : \E i \in 1 .. Len(s) : half[n] = sorted[i]
      PROVE  /\ Copies(BulkPush(leaf, ByVersion(half)), leaf, s)
             /\ Len(BulkPush(leaf, ByVersion(half)).slots) = Len(half)
    <2> DEFINE t == ByVersion(half)
    <2>1. /\ t \in Seq(Slot) /\ Len(t) = Len(half)
          /\ \A n \in 1 .. Len(half) : \E i \in 1 .. Len(half) : t[n] = half[i]
        BY SortFacts
    <2> HIDE DEF t
    <2>2. \A n \in 1 .. Len(t) : \E i \in 1 .. Len(s) : t[n] = s[i]
        <3> SUFFICES ASSUME NEW n \in 1 .. Len(t) PROVE \E i \in 1 .. Len(s) : t[n] = s[i]
            OBVIOUS
        <3>1. PICK j \in 1 .. Len(half) : t[n] = half[j]
            BY <2>1
        <3>2. PICK k \in 1 .. Len(s) : half[j] = sorted[k]
            BY <1>6
        <3> QED BY <1>0, <3>1, <3>2
    <2>3. Copies(BulkPush(leaf, t), leaf, s) /\ BulkPush(leaf, t).slots = t
        BY <2>1, <2>2, BulkPushFacts
    <2> QED BY <2>1, <2>3 DEF t
<1>7. \A n \in 1 .. Len(one) : \E i \in 1 .. Len(s) : one[n] = sorted[i]
    <2> SUFFICES ASSUME NEW n \in 1 .. Len(one) PROVE \E i \in 1 .. Len(s) : one[n] = sorted[i]
        OBVIOUS
    <2>1. n \in 1 .. Len(s) /\ one[n] = sorted[n]
        BY <1>1, <1>2, <1>4
    <2> QED BY <2>1
<1>8. \A n \in 1 .. Len(two) : \E i \in 1 .. Len(s) : two[n] = sorted[i]
    <2> SUFFICES ASSUME NEW n \in 1 .. Len(two) PROVE \E i \in 1 .. Len(s) : two[n] = sorted[i]
        OBVIOUS
    <2>1. m + n \in 1 .. Len(s) /\ two[n] = sorted[m + n]
        BY <1>1, <1>2, <1>5
    <2> QED BY <2>1
<1>9. Copies(a.page, leaf, s) /\ Len(a.page.slots) = m /\ a.lo = lo /\ a.hi = Dec(sep)
    BY <1>4, <1>6, <1>7 DEF Fence
<1>10. Copies(b.page, leaf, s) /\ Len(b.page.slots) = Len(s) - m /\ b.lo = sep /\ b.hi = hi
    BY <1>5, <1>6, <1>8 DEF Fence
<1>11. a \in Part /\ b \in Part
    BY <1>3, <1>9, <1>10 DEF Part, Copies, Fence
<1>12. KeySplit(leaf, s, lo, hi) = << a, b >>
    BY DEF KeySplit, sorted, m, sep, one, two
<1> HIDE DEF a, b
<1>13. << a, b >> \in Seq(Part) /\ Len(<< a, b >>) = 2 /\ << a, b >>[1] = a /\ << a, b >>[2] = b
    BY <1>11
<1>14. \A i \in 1 .. 2 : Copies(<< a, b >>[i].page, leaf, s)
    BY <1>9, <1>10, <1>13
<1> QED BY <1>3, <1>9, <1>10, <1>12, <1>13, <1>14 DEF m, Halves

(* What a reorganization puts in place of the slots s of pages of one kind: *)
(* one fresh page or two, with nothing but these slots.                     *)
Reorganized(parts, leaf, s) ==
    /\ parts \in Seq(Part) /\ Len(parts) \in {1, 2}
    /\ \A i \in 1 .. Len(parts) : Copies(parts[i].page, leaf, s)

LEMMA UnitsFacts ==
    ASSUME NEW p \in Page
    PROVE  /\ MaxUnits(p) \in Nat /\ MaxUnits(p) >= 1
           /\ Filling80(p) \in Nat /\ Filling80(p) >= 1 /\ Filling80(p) <= MaxUnits(p)
           /\ Filling20(p) \in Nat /\ Filling20(p) >= 1
           /\ (4 * MaxUnits(p)) \div 5 \in Nat /\ (4 * MaxUnits(p)) \div 5 <= MaxUnits(p)
<1> DEFINE M == MaxUnits(p)
<1>1. M \in Nat /\ M >= 1
    BY TreeAssumption DEF MaxUnits
<1> HIDE DEF M
<1>2. /\ (4 * M + 4) \div 5 \in Nat /\ (4 * M + 4) \div 5 >= 1 /\ (4 * M + 4) \div 5 <= M
      /\ (M + 4) \div 5 \in Nat /\ (M + 4) \div 5 >= 1
      /\ (4 * M) \div 5 \in Nat /\ (4 * M) \div 5 <= M
    BY <1>1
<1> QED BY <1>1, <1>2 DEF M, Filling80, Filling20

(* A split copies the live slots, if there are as many as the page counts.  *)
LEMMA SplitFacts ==
    ASSUME NEW p \in Page, p.live <= Cardinality(Active(p)), NEW lo \in Int, NEW hi \in Int
    PROVE  /\ Reorganized(Split(p, lo, hi), p.leaf, LiveSlots(p))
           /\ Len(Split(p, lo, hi)) = IF p.live >= Filling80(p) THEN 2 ELSE 1
           /\ \A i \in 1 .. Len(Split(p, lo, hi)) :
                 Len(Split(p, lo, hi)[i].page.slots) <= Cardinality(Active(p))
<1> DEFINE s == LiveSlots(p)
           c == Cardinality(Active(p))
<1>1. s \in Seq(Slot) /\ Len(s) = c /\ c \in Nat
    BY LiveSlotsFacts
<1>2. p.leaf \in BOOLEAN /\ p.live \in Int
    BY DEF Page
<1>3. Filling80(p) \in Nat /\ Filling80(p) >= 1
    BY UnitsFacts
<1> HIDE DEF s, c
<1>4. CASE p.live >= Filling80(p)
    <2>1. Len(s) >= 1
        BY <1>1, <1>2, <1>3, <1>4 DEF c
    <2> DEFINE parts == KeySplit(p.leaf, s, lo, hi)
    <2>3. parts = KeySplit(p.leaf, s, lo, hi) /\ Split(p, lo, hi) = parts
        BY <1>4 DEF Split, s
    <2> HIDE DEF parts
    <2>2. /\ parts \in Seq(Part) /\ Len(parts) = 2
          /\ \A i \in 1 .. 2 : Copies(parts[i].page, p.leaf, s)
          /\ Len(parts[1].page.slots) = Len(s) \div 2
          /\ Len(parts[2].page.slots) = Len(s) - Len(s) \div 2
        <3>1. Halves(KeySplit(p.leaf, s, lo, hi), p.leaf, s, lo, hi)
            BY <1>1, <1>2, <2>1, KeySplitFacts
        <3> QED BY <2>3, <3>1 DEF Halves
    <2>4. Len(s) \div 2 <= c /\ Len(s) - Len(s) \div 2 <= c
        BY <1>1
    <2>5. \A i \in 1 .. 2 : Len(parts[i].page.slots) <= c
        <3>1. Len(parts[1].page.slots) <= c /\ Len(parts[2].page.slots) <= c
            BY <2>2, <2>4
        <3>2. \A i \in 1 .. 2 : i = 1 \/ i = 2
            OBVIOUS
        <3> QED BY <3>1, <3>2
    <2>6. Reorganized(parts, p.leaf, s)
        BY <2>2 DEF Reorganized
    <2> QED BY <1>4, <2>2, <2>3, <2>5, <2>6 DEF s, c
<1>5. CASE ~(p.live >= Filling80(p))
    <2> DEFINE q == BulkPush(p.leaf, s)
               a == Fence(lo, hi, q)
    <2>1. Split(p, lo, hi) = << a >>
        BY <1>5 DEF Split, VersionSplit, s
    <2>2. Copies(q, p.leaf, s) /\ q.slots = s
        BY <1>1, <1>2, BulkPushFacts
    <2>3. a \in Part /\ a.page = q
        BY <2>2 DEF Part, Fence, Copies
    <2> HIDE DEF a, q
    <2>4. << a >> \in Seq(Part) /\ Len(<< a >>) = 1 /\ << a >>[1] = a
        BY <2>3
    <2>5. \A i \in 1 .. 1 : Copies(<< a >>[i].page, p.leaf, s) /\ Len(<< a >>[i].page.slots) <= c
        BY <1>1, <2>2, <2>3, <2>4
    <2>6. Reorganized(<< a >>, p.leaf, s)
        BY <2>4, <2>5 DEF Reorganized
    <2> QED BY <1>5, <2>1, <2>4, <2>5, <2>6 DEF s, c
<1> QED BY <1>4, <1>5

(* A merge or redistribution copies the live slots of both pages.           *)
LEMMA MergeFacts ==
    ASSUME NEW c \in Page, NEW d \in Page, NEW e \in Slot, NEW f \in Slot,
           c.live <= Cardinality(Active(c)), d.live <= Cardinality(Active(d))
    PROVE  LET parts == Merge(c, d, e, f)
               n == Cardinality(Active(c)) + Cardinality(Active(d))
           IN  /\ Reorganized(parts, c.leaf, LiveSlots(c) \o LiveSlots(d))
               /\ Len(parts) = IF c.live + d.live <= (4 * MaxUnits(c)) \div 5 THEN 1 ELSE 2
               /\ Len(parts) = 1 => Len(parts[1].page.slots) = n
               /\ Len(parts) = 2 => /\ Len(parts[1].page.slots) = n \div 2
                                    /\ Len(parts[2].page.slots) = n - n \div 2
<1> DEFINE s == LiveSlots(c) \o LiveSlots(d)
           n == Cardinality(Active(c)) + Cardinality(Active(d))
           lo == Smaller(e.lo, f.lo)
           hi == Larger(e.hi, f.hi)
<1>1. /\ LiveSlots(c) \in Seq(Slot) /\ Len(LiveSlots(c)) = Cardinality(Active(c))
      /\ LiveSlots(d) \in Seq(Slot) /\ Len(LiveSlots(d)) = Cardinality(Active(d))
      /\ Cardinality(Active(c)) \in Nat /\ Cardinality(Active(d)) \in Nat
    BY LiveSlotsFacts
<1>2. s \in Seq(Slot) /\ Len(s) = n /\ n \in Nat
    BY <1>1
<1>3. c.leaf \in BOOLEAN /\ c.live \in Int /\ d.live \in Int
    BY DEF Page
<1>4. lo \in Int /\ hi \in Int
    BY DEF Slot, Smaller, Larger
<1>5. (4 * MaxUnits(c)) \div 5 \in Nat
    BY UnitsFacts
<1>6. c.live + d.live <= n
    BY <1>1, <1>3
<1>7. Merge(c, d, e, f) = IF c.live + d.live <= (4 * MaxUnits(c)) \div 5
                          THEN << Fence(lo, hi, BulkPush(c.leaf, ByVersion(s))) >>
                          ELSE KeySplit(c.leaf, s, lo, hi)
    BY DEF Merge
<1> HIDE DEF s, n, lo, hi
<1>8. CASE c.live + d.live <= (4 * MaxUnits(c)) \div 5
    <2> DEFINE t == ByVersion(s)
               q == BulkPush(c.leaf, t)
               a == Fence(lo, hi, q)
    <2>1. /\ t \in Seq(Slot) /\ Len(t) = Len(s)
          /\ \A k \in 1 .. Len(s) : \E i \in 1 .. Len(s) : t[k] = s[i]
        BY <1>2, SortFacts
    <2>2. Merge(c, d, e, f) = << a >>
        BY <1>7, <1>8
    <2> HIDE DEF t
    <2>3. Copies(q, c.leaf, s) /\ q.slots = t
        BY <1>3, <2>1, BulkPushFacts
    <2>4. a \in Part /\ a.page = q
        BY <1>4, <2>3 DEF Part, Fence, Copies
    <2> HIDE DEF a, q
    <2>5. << a >> \in Seq(Part) /\ Len(<< a >>) = 1 /\ << a >>[1] = a
        BY <2>4
    <2>6. \A i \in 1 .. 1 : Copies(<< a >>[i].page, c.leaf, s)
        BY <2>3, <2>4, <2>5
    <2>7. Reorganized(<< a >>, c.leaf, s)
        BY <2>5, <2>6 DEF Reorganized
    <2>8. Len(<< a >>[1].page.slots) = n
        BY <1>2, <2>1, <2>3, <2>4, <2>5
    <2> QED BY <1>8, <2>2, <2>5, <2>7, <2>8 DEF s, n
<1>9. CASE ~(c.live + d.live <= (4 * MaxUnits(c)) \div 5)
    <2>1. Len(s) >= 1
        BY <1>2, <1>3, <1>5, <1>6, <1>9
    <2> DEFINE parts == KeySplit(c.leaf, s, lo, hi)
    <2>3. parts = KeySplit(c.leaf, s, lo, hi) /\ Merge(c, d, e, f) = parts
        BY <1>7, <1>9
    <2> HIDE DEF parts
    <2>2. /\ parts \in Seq(Part) /\ Len(parts) = 2
          /\ \A i \in 1 .. 2 : Copies(parts[i].page, c.leaf, s)
          /\ Len(parts[1].page.slots) = Len(s) \div 2
          /\ Len(parts[2].page.slots) = Len(s) - Len(s) \div 2
        <3>1. Halves(KeySplit(c.leaf, s, lo, hi), c.leaf, s, lo, hi)
            BY <1>2, <1>3, <1>4, <2>1, KeySplitFacts
        <3> QED BY <2>3, <3>1 DEF Halves
    <2>4. Reorganized(parts, c.leaf, s)
        BY <2>2 DEF Reorganized
    <2>5. Len(parts[1].page.slots) = n \div 2 /\ Len(parts[2].page.slots) = n - n \div 2
        BY <1>2, <2>2
    <2> QED BY <1>9, <2>2, <2>3, <2>4, <2>5 DEF s, n
<1> QED BY <1>8, <1>9

-----------------------------------------------------------------------------
(* The inductive invariant: types, latches, and the pages with their        *)
(* heights above the leaves, by which every slot of an index page points    *)
(* one level down.                                                          *)

Places ==
    {"idle", "root", "degree", "splitRoot", "mergeRoot", "append", "endRoot", "descend", "child",
     "overflow", "underflow", "publish", "mark", "endSmo", "apply"}
Operations == {None, "insert", "update", "delete"} \cup RandomOperations

Writer ==
    [pc : Places, op : Operations, key : Int, indexLive : BOOLEAN, curr : Nat, currLive : BOOLEAN,
     child : Nat, childLive : BOOLEAN, slot : Nat, lo : Int, hi : Int, parts : Seq(Slot),
     dead : SUBSET Nat, ver : Int, outer : SUBSET Nat]

TypeInv ==
    /\ pages \in Seq(Page) /\ Len(pages) >= 1
    /\ roots \in Seq([ver : Int, page : Nat, height : Int]) /\ Len(roots) >= 1
    /\ \A i \in 1 .. Len(roots) : roots[i].page \in 1 .. Len(pages)
    /\ clock \in Nat /\ clock >= 1
    /\ latch \in [Writers -> SUBSET Nat]
    /\ wr \in [Writers -> Writer]
    /\ load \in [ops : Seq(Calls), seen : Int, who : SUBSET Writers, may : SUBSET Calls, free : Nat]

(* A latch has one holder, and a borrower whose latch version is still good *)
(* has no page that another writer holds.                                   *)
Latching ==
    /\ \A w \in Writers : \A i \in latch[w] : i <= Len(pages)
    /\ \A w, v \in Writers : w # v =>
          /\ latch[w] \cap latch[v] = {}
          /\ wr[w].indexLive => Index \notin latch[v]
          /\ wr[w].currLive => wr[w].curr \notin latch[v]
          /\ wr[w].childLive => wr[w].child \notin latch[v]

(* A slot of an index page of height n: its child is one lower.             *)
PointsBelow(h, P, n, e) == e.ptr \in 1 .. Len(P) /\ n = h[e.ptr] + 1

Counted(p) ==
    IF p.leaf THEN /\ Len(p.slots) = p.live + p.dead /\ p.live = Cardinality(Active(p))
                   /\ Len(p.slots) <= NumRecords
    ELSE p.live <= Cardinality(Active(p))

PageAt(h, P, i) ==
    /\ P[i].leaf <=> h[i] = 0
    /\ Counted(P[i])
    /\ ~P[i].leaf => \A j \in 1 .. Len(P[i].slots) : PointsBelow(h, P, h[i], P[i].slots[j])

Pages(h, P) == h \in [1 .. Len(P) -> Nat] /\ \A i \in 1 .. Len(P) : PageAt(h, P, i)

HasRoom(p) == p.live + p.dead < NumRecords

(* A writer with these latches, by its place in the descent.                *)
WriterAt(h, P, l, me) ==
    /\ me.pc \in {"idle", "root"} => ~me.currLive /\ ~me.childLive
    /\ me.pc \notin {"idle", "root"} => me.curr \in 1 .. Len(P)
    /\ me.pc \in {"child", "overflow", "underflow"} =>
          ~P[me.curr].leaf /\ me.slot \in 1 .. Len(P[me.curr].slots) /\ P[me.curr].slots[me.slot].ptr = me.child
    /\ me.pc \in {"overflow", "underflow", "publish", "mark", "endSmo", "apply"} => me.curr \in l
    /\ me.pc \in {"publish", "mark", "endSmo"} =>
          ~P[me.curr].leaf /\ me.dead \subseteq 1 .. Len(P[me.curr].slots)
    /\ me.pc = "publish" =>
          \A i \in 1 .. Len(me.parts) : me.parts[i].end = 0 /\ PointsBelow(h, P, h[me.curr], me.parts[i])
    /\ me.pc = "mark" => P[me.curr].live + Cardinality(me.dead) <= Cardinality(Active(P[me.curr]))
    /\ me.pc = "mergeRoot" => ~P[me.curr].leaf /\ Len(P[me.curr].slots) >= 1
    /\ (me.pc \in {"descend", "append", "endRoot"} /\ P[me.curr].leaf /\ (me.currLive \/ me.curr \in l)) =>
          HasRoom(P[me.curr])
    /\ me.pc = "apply" => P[me.curr].leaf /\ HasRoom(P[me.curr])

Heights(h) == Pages(h, pages) /\ \A w \in Writers : WriterAt(h, pages, latch[w], wr[w])

TreeInv == TypeInv /\ Latching /\ \E h : Heights(h)

(* What the steps of another writer leave of a writer's state: everything   *)
(* but the latch versions of the pages that were taken.                     *)
Lowered(a, b, taken) ==
    /\ a.pc = b.pc /\ a.curr = b.curr /\ a.child = b.child /\ a.slot = b.slot
    /\ a.parts = b.parts /\ a.dead = b.dead
    /\ a.indexLive => b.indexLive /\ Index \notin taken
    /\ a.currLive => b.currLive /\ b.curr \notin taken
    /\ a.childLive => b.childLive /\ b.child \notin taken

Others(w, taken) ==
    \A v \in Writers : v # w => latch'[v] = latch[v] /\ Lowered(wr'[v], wr[v], taken)

LEMMA MoveFacts ==
    ASSUME TypeInv, NEW w \in Writers, NEW to \in Writer, NEW taken \in SUBSET Nat, NEW freed,
           Move(w, to, taken, freed)
    PROVE  /\ wr' \in [Writers -> Writer] /\ latch' \in [Writers -> SUBSET Nat]
           /\ wr'[w] = to /\ latch'[w] = (latch[w] \ freed) \cup taken
           /\ Others(w, taken)
<1>1. wr \in [Writers -> Writer] /\ latch \in [Writers -> SUBSET Nat]
    BY DEF TypeInv
<1>2. latch' = [latch EXCEPT ![w] = (@ \ freed) \cup taken]
    BY DEF Move
<1>3. /\ latch' \in [Writers -> SUBSET Nat] /\ latch'[w] = (latch[w] \ freed) \cup taken
      /\ \A v \in Writers : v # w => latch'[v] = latch[v]
    BY <1>1, <1>2
<1>4. \A v \in Writers : wr'[v] = IF v = w THEN to ELSE
                [wr[v] EXCEPT !.indexLive = @ /\ Index \notin taken,
                              !.currLive  = @ /\ wr[v].curr \notin taken,
                              !.childLive = @ /\ wr[v].child \notin taken]
    BY DEF Move
<1>5. ASSUME NEW v \in Writers, v # w
      PROVE  wr'[v] \in Writer /\ Lowered(wr'[v], wr[v], taken)
    <2>1. wr[v] \in Writer
        BY <1>1
    <2>2. wr'[v] = [wr[v] EXCEPT !.indexLive = @ /\ Index \notin taken,
                                 !.currLive  = @ /\ wr[v].curr \notin taken,
                                 !.childLive = @ /\ wr[v].child \notin taken]
        BY <1>4, <1>5
    <2>3. wr'[v] \in Writer
        BY <2>1, <2>2 DEF Writer
    <2>4. Lowered(wr'[v], wr[v], taken)
        BY <2>1, <2>2 DEF Writer, Lowered
    <2> QED BY <2>3, <2>4
<1>6. wr'[w] = to
    BY <1>4
<1>7. DOMAIN wr' = Writers /\ wr' = [v \in Writers |-> wr'[v]]
    BY DEF Move
<1>8. wr' \in [Writers -> Writer]
    BY <1>5, <1>6, <1>7
<1> QED BY <1>3, <1>5, <1>6, <1>8 DEF Others

(* Pages are added and get more slots; kinds and children stay.             *)
Grown(P, Q) ==
    /\ Len(P) <= Len(Q)
    /\ \A i \in 1 .. Len(P) :
          /\ Q[i].leaf <=> P[i].leaf
          /\ Len(P[i].slots) <= Len(Q[i].slots)
          /\ \A j \in 1 .. Len(P[i].slots) : Q[i].slots[j].ptr = P[i].slots[j].ptr

Extends(h, g, P) == \A i \in 1 .. Len(P) : g[i] = h[i]

(* A writer keeps its place when others add pages or change those that it   *)
(* neither holds nor has a good version of.                                 *)
LEMMA OtherStays ==
    ASSUME NEW P \in Seq(Page), NEW Q \in Seq(Page), NEW h \in [1 .. Len(P) -> Nat], NEW g \in [1 .. Len(Q) -> Nat],
           Grown(P, Q), Extends(h, g, P),
           NEW l, NEW a, NEW b \in Writer, NEW taken, Lowered(a, b, taken),
           WriterAt(h, P, l, b),
           (b.curr \in 1 .. Len(P) /\ (b.curr \in l \/ b.currLive)) => Q[b.curr] = P[b.curr]
    PROVE  WriterAt(g, Q, l, a)
<1>1. /\ a.pc = b.pc /\ a.curr = b.curr /\ a.child = b.child /\ a.slot = b.slot
      /\ a.parts = b.parts /\ a.dead = b.dead /\ (a.currLive => b.currLive)
    BY DEF Lowered
<1>2. Len(P) \in Nat /\ Len(Q) \in Nat /\ Len(P) <= Len(Q)
    BY DEF Grown
<1>3. a.pc \notin {"idle", "root"} => b.curr \in 1 .. Len(P) /\ a.curr \in 1 .. Len(Q)
    BY <1>1, <1>2 DEF WriterAt
<1>4. ASSUME b.curr \in 1 .. Len(P)
      PROVE  /\ Q[b.curr].leaf <=> P[b.curr].leaf
             /\ Len(P[b.curr].slots) \in Nat /\ Len(Q[b.curr].slots) \in Nat
             /\ Len(P[b.curr].slots) <= Len(Q[b.curr].slots)
             /\ \A j \in 1 .. Len(P[b.curr].slots) : Q[b.curr].slots[j].ptr = P[b.curr].slots[j].ptr
             /\ g[b.curr] = h[b.curr]
    <2>1. P[b.curr] \in Page /\ Q[b.curr] \in Page
        BY <1>2, <1>4
    <2>2. Len(P[b.curr].slots) \in Nat /\ Len(Q[b.curr].slots) \in Nat
        BY <2>1, PageTyped
    <2> QED BY <1>4, <2>2 DEF Grown, Extends
<1>5. a.pc \in {"child", "overflow", "underflow"} =>
          ~Q[a.curr].leaf /\ a.slot \in 1 .. Len(Q[a.curr].slots) /\ Q[a.curr].slots[a.slot].ptr = a.child
    <2> SUFFICES ASSUME a.pc \in {"child", "overflow", "underflow"}
                 PROVE  ~Q[a.curr].leaf /\ a.slot \in 1 .. Len(Q[a.curr].slots) /\ Q[a.curr].slots[a.slot].ptr = a.child
        OBVIOUS
    <2>1. /\ ~P[b.curr].leaf /\ b.slot \in 1 .. Len(P[b.curr].slots) /\ P[b.curr].slots[b.slot].ptr = b.child
          /\ b.curr \in 1 .. Len(P)
        BY <1>1, <1>3 DEF WriterAt
    <2>2. b.slot \in 1 .. Len(Q[b.curr].slots)
        BY <1>4, <2>1
    <2>3. Q[b.curr].slots[b.slot].ptr = b.child
        BY <1>4, <2>1
    <2>4. ~Q[b.curr].leaf
        BY <1>4, <2>1
    <2> QED BY <1>1, <2>2, <2>3, <2>4
<1>6. a.pc \in {"overflow", "underflow", "publish", "mark", "endSmo", "apply"} => a.curr \in l
    BY <1>1 DEF WriterAt
<1>7. a.pc \in {"publish", "mark", "endSmo"} => ~Q[a.curr].leaf /\ a.dead \subseteq 1 .. Len(Q[a.curr].slots)
    <2> SUFFICES ASSUME a.pc \in {"publish", "mark", "endSmo"}
                 PROVE  ~Q[a.curr].leaf /\ a.dead \subseteq 1 .. Len(Q[a.curr].slots)
        OBVIOUS
    <2>1. ~P[b.curr].leaf /\ b.dead \subseteq 1 .. Len(P[b.curr].slots) /\ b.curr \in 1 .. Len(P)
        BY <1>1, <1>3 DEF WriterAt
    <2>2. ~Q[b.curr].leaf
        BY <1>4, <2>1
    <2>3. b.dead \subseteq 1 .. Len(Q[b.curr].slots)
        BY <1>4, <2>1
    <2> QED BY <1>1, <2>2, <2>3
<1>8. a.pc = "publish" =>
          \A i \in 1 .. Len(a.parts) : a.parts[i].end = 0 /\ PointsBelow(g, Q, g[a.curr], a.parts[i])
    <2> SUFFICES ASSUME a.pc = "publish", NEW i \in 1 .. Len(a.parts)
                 PROVE  a.parts[i].end = 0 /\ PointsBelow(g, Q, g[a.curr], a.parts[i])
        OBVIOUS
    <2>1. b.parts[i].end = 0 /\ PointsBelow(h, P, h[b.curr], b.parts[i]) /\ b.curr \in 1 .. Len(P)
        BY <1>1, <1>3 DEF WriterAt
    <2>2. b.parts[i].ptr \in 1 .. Len(P) /\ h[b.curr] = h[b.parts[i].ptr] + 1
        BY <2>1 DEF PointsBelow
    <2>3. g[b.parts[i].ptr] = h[b.parts[i].ptr] /\ b.parts[i].ptr \in 1 .. Len(Q)
        BY <1>2, <2>2 DEF Extends
    <2>4. g[b.curr] = g[b.parts[i].ptr] + 1
        BY <1>4, <2>1, <2>2, <2>3
    <2> QED BY <1>1, <2>1, <2>3, <2>4 DEF PointsBelow
<1>9. a.pc = "mark" => Q[a.curr].live + Cardinality(a.dead) <= Cardinality(Active(Q[a.curr]))
    <2> SUFFICES ASSUME a.pc = "mark" PROVE Q[a.curr].live + Cardinality(a.dead) <= Cardinality(Active(Q[a.curr]))
        OBVIOUS
    <2>1. /\ P[b.curr].live + Cardinality(b.dead) <= Cardinality(Active(P[b.curr]))
          /\ b.curr \in l /\ b.curr \in 1 .. Len(P)
        BY <1>1, <1>3 DEF WriterAt
    <2>2. Q[b.curr] = P[b.curr]
        BY <2>1
    <2> QED BY <1>1, <2>1, <2>2
<1>10. a.pc = "mergeRoot" => ~Q[a.curr].leaf /\ Len(Q[a.curr].slots) >= 1
    <2> SUFFICES ASSUME a.pc = "mergeRoot" PROVE ~Q[a.curr].leaf /\ Len(Q[a.curr].slots) >= 1
        OBVIOUS
    <2>1. ~P[b.curr].leaf /\ Len(P[b.curr].slots) >= 1 /\ b.curr \in 1 .. Len(P)
        BY <1>1, <1>3 DEF WriterAt
    <2> QED BY <1>1, <1>4, <2>1
<1>11. (a.pc \in {"descend", "append", "endRoot"} /\ Q[a.curr].leaf /\ (a.currLive \/ a.curr \in l)) =>
          HasRoom(Q[a.curr])
    <2> SUFFICES ASSUME a.pc \in {"descend", "append", "endRoot"}, Q[a.curr].leaf, a.currLive \/ a.curr \in l
                 PROVE  HasRoom(Q[a.curr])
        OBVIOUS
    <2>1. b.curr \in 1 .. Len(P)
        BY <1>3
    <2>2. Q[b.curr] = P[b.curr]
        BY <1>1, <2>1
    <2>3. HasRoom(P[b.curr])
        BY <1>1, <2>2 DEF WriterAt
    <2> QED BY <1>1, <2>2, <2>3
<1>12. a.pc = "apply" => Q[a.curr].leaf /\ HasRoom(Q[a.curr])
    <2> SUFFICES ASSUME a.pc = "apply" PROVE Q[a.curr].leaf /\ HasRoom(Q[a.curr])
        OBVIOUS
    <2>1. b.curr \in 1 .. Len(P) /\ b.curr \in l /\ P[b.curr].leaf /\ HasRoom(P[b.curr])
        BY <1>1, <1>3 DEF WriterAt
    <2>2. Q[b.curr] = P[b.curr]
        BY <2>1
    <2> QED BY <1>1, <2>1, <2>2
<1>13. a.pc \in {"idle", "root"} => ~a.currLive /\ ~a.childLive
    BY <1>1 DEF WriterAt, Lowered
<1> QED BY <1>3, <1>5, <1>6, <1>7, <1>8, <1>9, <1>10, <1>11, <1>12, <1>13 DEF WriterAt

(* A step of writer w: it takes pages that nobody else has, gives some      *)
(* back, and changes only pages that it holds.                              *)
LEMMA StepFacts ==
    ASSUME TypeInv, Latching, NEW h, Heights(h), TypeInv', NEW g, Pages(g, pages'),
           Grown(pages, pages'), Extends(h, g, pages),
           NEW w \in Writers, NEW taken, NEW freed, Others(w, taken),
           latch'[w] = (latch[w] \ freed) \cup taken,
           \A v \in Writers : v # w => taken \cap latch[v] = {},
           \A i \in taken : i <= Len(pages'),
           \A i \in 1 .. Len(pages) : i \notin latch[w] => pages'[i] = pages[i],
           \A v \in Writers : v # w =>
              /\ wr'[w].indexLive => Index \notin latch[v]
              /\ wr'[w].currLive => wr'[w].curr \notin latch[v]
              /\ wr'[w].childLive => wr'[w].child \notin latch[v],
           WriterAt(g, pages', latch'[w], wr'[w])
    PROVE  Latching' /\ Heights(g)'
<1>1. /\ pages \in Seq(Page) /\ pages' \in Seq(Page) /\ Len(pages) \in Nat /\ Len(pages') \in Nat
      /\ Len(pages) <= Len(pages')
      /\ wr \in [Writers -> Writer] /\ latch \in [Writers -> SUBSET Nat] /\ latch' \in [Writers -> SUBSET Nat]
    <2>1. pages \in Seq(Page) /\ wr \in [Writers -> Writer] /\ latch \in [Writers -> SUBSET Nat]
        BY DEF TypeInv
    <2>2. pages' \in Seq(Page) /\ latch' \in [Writers -> SUBSET Nat]
        BY DEF TypeInv
    <2>3. Len(pages) \in Nat /\ Len(pages') \in Nat
        BY <2>1, <2>2
    <2> QED BY <2>1, <2>2, <2>3 DEF Grown
<1>2. h \in [1 .. Len(pages) -> Nat] /\ g \in [1 .. Len(pages') -> Nat]
    BY DEF Heights, Pages
<1>3. ASSUME NEW v \in Writers, v # w
      PROVE  WriterAt(g, pages', latch'[v], wr'[v])
    <2>1. latch'[v] = latch[v] /\ Lowered(wr'[v], wr[v], taken)
        BY <1>3 DEF Others
    <2>2. WriterAt(h, pages, latch[v], wr[v]) /\ wr[v] \in Writer
        BY <1>1 DEF Heights
    <2>3. ASSUME wr[v].curr \in 1 .. Len(pages), wr[v].curr \in latch[v] \/ wr[v].currLive
          PROVE  pages'[wr[v].curr] = pages[wr[v].curr]
        <3>1. wr[v].curr \notin latch[w]
            BY <1>3, <2>3 DEF Latching
        <3> QED BY <2>3, <3>1
    <2> QED BY <1>1, <1>2, <2>1, <2>2, <2>3, OtherStays
<1>4. Heights(g)'
    BY <1>3 DEF Heights
<1>5. \A v \in Writers : \A i \in latch'[v] : i <= Len(pages')
    <2> SUFFICES ASSUME NEW v \in Writers, NEW i \in latch'[v] PROVE i <= Len(pages')
        OBVIOUS
    <2>1. CASE i \in latch[v]
        <3>1. i <= Len(pages) /\ i \in Nat
            BY <1>1, <2>1 DEF Latching
        <3> QED BY <1>1, <3>1
    <2>2. CASE i \notin latch[v]
        <3>1. v = w
            BY <2>2 DEF Others
        <3> QED BY <2>2, <3>1
    <2> QED BY <2>1, <2>2
<1>6. ASSUME NEW u \in Writers, NEW v \in Writers, u # v
      PROVE  /\ latch'[u] \cap latch'[v] = {}
             /\ wr'[u].indexLive => Index \notin latch'[v]
             /\ wr'[u].currLive => wr'[u].curr \notin latch'[v]
             /\ wr'[u].childLive => wr'[u].child \notin latch'[v]
    <2>1. CASE u # w /\ v # w
        <3>1. /\ latch'[u] = latch[u] /\ latch'[v] = latch[v] /\ Lowered(wr'[u], wr[u], taken)
            BY <2>1 DEF Others
        <3> QED BY <1>6, <3>1 DEF Latching, Lowered
    <2>2. CASE u = w
        <3>1. latch'[v] = latch[v] /\ v # w
            BY <1>6, <2>2 DEF Others
        <3>2. latch[w] \cap latch[v] = {}
            BY <3>1 DEF Latching
        <3>3. latch'[w] \cap latch[v] = {}
            BY <3>1, <3>2
        <3> QED BY <2>2, <3>1, <3>3
    <2>3. CASE v = w
        <3>1. latch'[u] = latch[u] /\ Lowered(wr'[u], wr[u], taken) /\ u # w
            BY <1>6, <2>3 DEF Others
        <3>2. /\ latch[u] \cap latch[w] = {}
              /\ wr[u].indexLive => Index \notin latch[w]
              /\ wr[u].currLive => wr[u].curr \notin latch[w]
              /\ wr[u].childLive => wr[u].child \notin latch[w]
            BY <3>1 DEF Latching
        <3>3. latch'[u] \cap latch'[w] = {}
            BY <3>1, <3>2
        <3> QED BY <2>3, <3>1, <3>2, <3>3 DEF Lowered
    <2> QED BY <2>1, <2>2, <2>3
<1>7. Latching'
    BY <1>5, <1>6 DEF Latching
<1> QED BY <1>4, <1>7

(* A step that changes no page.                                             *)
LEMMA QuietFacts ==
    ASSUME TypeInv, Latching, NEW h, Heights(h), TypeInv', pages' = pages,
           NEW w \in Writers, NEW taken, NEW freed, Others(w, taken),
           latch'[w] = (latch[w] \ freed) \cup taken,
           \A v \in Writers : v # w => taken \cap latch[v] = {},
           \A i \in taken : i <= Len(pages),
           \A v \in Writers : v # w =>
              /\ wr'[w].indexLive => Index \notin latch[v]
              /\ wr'[w].currLive => wr'[w].curr \notin latch[v]
              /\ wr'[w].childLive => wr'[w].child \notin latch[v],
           WriterAt(h, pages, latch'[w], wr'[w])
    PROVE  TreeInv'
<1>1. pages \in Seq(Page)
    BY DEF TypeInv
<1>2. Pages(h, pages') /\ WriterAt(h, pages', latch'[w], wr'[w])
    BY DEF Heights
<1>3. Grown(pages, pages') /\ Extends(h, h, pages)
    <2>1. Len(pages) <= Len(pages')
        BY <1>1
    <2>2. ASSUME NEW i \in 1 .. Len(pages) PROVE Len(pages[i].slots) <= Len(pages'[i].slots)
        <3>1. Len(pages[i].slots) \in Nat
            BY <1>1, PageTyped
        <3> QED BY <3>1
    <2> QED BY <2>1, <2>2 DEF Grown, Extends
<1>4. \A i \in 1 .. Len(pages) : i \notin latch[w] => pages'[i] = pages[i]
    OBVIOUS
<1>5. \A i \in taken : i <= Len(pages')
    OBVIOUS
<1>6. Latching' /\ Heights(h)'
    BY <1>2, <1>3, <1>4, <1>5, StepFacts
<1> QED BY <1>6 DEF TreeInv

(* The types after a step that changes no page.                             *)
LEMMA QuietType ==
    ASSUME TypeInv, UNCHANGED <<pages, roots, clock, load>>,
           wr' \in [Writers -> Writer], latch' \in [Writers -> SUBSET Nat]
    PROVE  TypeInv'
BY DEF TypeInv

LEMMA IdleTyped == IdleWriter \in Writer
<1>1. MinKey \in Int /\ MaxKey \in Int
    BY TreeAssumption
<1>2. << >> \in Seq(Slot) /\ {} \in SUBSET Nat /\ 0 \in Nat /\ 0 \in Int
    OBVIOUS
<1>3. "idle" \in Places /\ None \in Operations
    BY DEF Places, Operations
<1> QED BY <1>1, <1>2, <1>3 DEF IdleWriter, Writer

LEMMA BeginTyped ==
    ASSUME TypeInv, NEW w \in Writers, NEW pc \in Places
    PROVE  /\ Begin(w, pc) \in Writer
           /\ Begin(w, pc).pc = pc
           /\ ~Begin(w, pc).indexLive /\ ~Begin(w, pc).currLive /\ ~Begin(w, pc).childLive
           /\ Begin(w, pc).outer = wr[w].outer
<1>1. wr[w] \in Writer
    BY DEF TypeInv
<1>2. wr[w].op \in Operations /\ wr[w].key \in Int /\ wr[w].outer \in SUBSET Nat
    BY <1>1 DEF Writer
<1>3. Begin(w, pc) = [IdleWriter EXCEPT !.pc = pc, !.op = wr[w].op, !.key = wr[w].key, !.outer = wr[w].outer]
    BY DEF Begin
<1>4. Begin(w, pc) \in Writer
    BY <1>2, <1>3, IdleTyped DEF Writer
<1>5. Begin(w, pc).pc = pc /\ Begin(w, pc).outer = wr[w].outer
    BY <1>3 DEF IdleWriter
<1>6. ~Begin(w, pc).indexLive /\ ~Begin(w, pc).currLive /\ ~Begin(w, pc).childLive
    BY <1>3 DEF IdleWriter
<1> QED BY <1>4, <1>5, <1>6

(* Every place is open to a writer that only knows its operation.           *)
LEMMA StartsAnywhere ==
    ASSUME NEW h, NEW P, NEW l, NEW me, me.pc \in {"idle", "root"}, ~me.currLive, ~me.childLive
    PROVE  WriterAt(h, P, l, me)
BY DEF WriterAt

LEMMA RetryStep ==
    ASSUME TreeInv, NEW w \in Writers, Retry(w), UNCHANGED <<writerRest, treeVars>>
    PROVE  TreeInv'
<1>1. TypeInv /\ Latching /\ pages' = pages /\ UNCHANGED <<pages, roots, clock, load>>
    BY DEF TreeInv, treeVars, writerRest
<1>2. PICK h : Heights(h)
    BY DEF TreeInv
<1> DEFINE to == Begin(w, "root")
<1>3. /\ to \in Writer /\ to.pc = "root"
      /\ ~to.indexLive /\ ~to.currLive /\ ~to.childLive
    <2>1. "root" \in Places
        BY DEF Places
    <2> QED BY <1>1, <2>1, BeginTyped
<1>4. Move(w, to, {}, latch[w])
    BY DEF Retry
<1> HIDE DEF to
<1>5. /\ wr' \in [Writers -> Writer] /\ latch' \in [Writers -> SUBSET Nat]
      /\ wr'[w] = to /\ latch'[w] = (latch[w] \ latch[w]) \cup {}
      /\ Others(w, {})
    BY <1>1, <1>3, <1>4, MoveFacts
<1>6. TypeInv'
    BY <1>1, <1>5, QuietType
<1>7. WriterAt(h, pages, latch'[w], wr'[w])
    BY <1>3, <1>5, StartsAnywhere
<1> QED BY <1>1, <1>2, <1>3, <1>5, <1>6, <1>7, QuietFacts

(* A move of writer w that changes no page.                                 *)
LEMMA QuietMove ==
    ASSUME TreeInv, NEW w \in Writers, NEW to \in Writer, NEW taken \in SUBSET Nat, NEW freed,
           Move(w, to, taken, freed), UNCHANGED <<pages, roots, clock, load>>, NEW h, Heights(h),
           \A v \in Writers : v # w => taken \cap latch[v] = {},
           \A i \in taken : i <= Len(pages),
           \A v \in Writers : v # w =>
              /\ to.indexLive => Index \notin latch[v]
              /\ to.currLive => to.curr \notin latch[v]
              /\ to.childLive => to.child \notin latch[v],
           WriterAt(h, pages, (latch[w] \ freed) \cup taken, to)
    PROVE  TreeInv'
<1>1. TypeInv /\ Latching /\ pages' = pages
    BY DEF TreeInv
<1>2. /\ wr' \in [Writers -> Writer] /\ latch' \in [Writers -> SUBSET Nat]
      /\ wr'[w] = to /\ latch'[w] = (latch[w] \ freed) \cup taken
      /\ Others(w, taken)
    BY <1>1, MoveFacts
<1>3. TypeInv'
    BY <1>1, <1>2, QuietType
<1>4. WriterAt(h, pages, latch'[w], wr'[w])
    BY <1>2
<1> QED BY <1>1, <1>2, <1>3, <1>4, QuietFacts

(* A change of one writer's state alone.                                    *)
LEMMA SingleFacts ==
    ASSUME TypeInv, NEW w \in Writers, NEW to \in Writer, wr' = [wr EXCEPT ![w] = to], latch' = latch
    PROVE  /\ wr' \in [Writers -> Writer] /\ latch' \in [Writers -> SUBSET Nat]
           /\ wr'[w] = to /\ latch'[w] = (latch[w] \ {}) \cup {}
           /\ Others(w, {})
<1>1. wr \in [Writers -> Writer] /\ latch \in [Writers -> SUBSET Nat]
    BY DEF TypeInv
<1>2. \A v \in Writers : v # w => wr'[v] = wr[v]
    BY <1>1
<1>3. Others(w, {})
    BY <1>2 DEF Others, Lowered
<1>4. wr' \in [Writers -> Writer] /\ wr'[w] = to
    BY <1>1
<1> QED BY <1>1, <1>3, <1>4

(* The operations that Dispatch hands out.                                  *)
LEMMA CallTyped ==
    ASSUME NEW o \in Calls
    PROVE  o[1] \in Operations /\ o[2] \in Int
BY TreeAssumption DEF Calls, Operations, RandomOperations

LEMMA DispatchStep ==
    ASSUME TreeInv, NEW w \in Writers, Dispatch(w)
    PROVE  TreeInv'
<1>1. TypeInv /\ Latching /\ wr[w] \in Writer
    BY DEF TreeInv, TypeInv
<1>2. PICK h : Heights(h)
    BY DEF TreeInv
<1>3. \E o \in Calls : /\ wr' = [wr EXCEPT ![w].pc = "root", ![w].op = o[1], ![w].key = o[2]]
                       /\ load' \in [ops : Seq(Calls), seen : Int, who : SUBSET Writers, may : SUBSET Calls, free : Nat]
    <2>1. load \in [ops : Seq(Calls), seen : Int, who : SUBSET Writers, may : SUBSET Calls, free : Nat]
        BY <1>1 DEF TypeInv
    <2>2. CASE load.ops # << >> /\ wr' = [wr EXCEPT ![w].pc = "root", ![w].op = Head(load.ops)[1], ![w].key = Head(load.ops)[2]]
                                /\ load' = [load EXCEPT !.ops = Tail(@)]
        <3>1. load.ops \in Seq(Calls)
            BY <2>1
        <3>2. Head(load.ops) \in Calls /\ Tail(load.ops) \in Seq(Calls)
            BY <2>2, <3>1
        <3> QED BY <2>1, <2>2, <3>2
    <2>3. CASE load.free > 0 /\ (\E o \in load.may : wr' = [wr EXCEPT ![w].pc = "root", ![w].op = o[1], ![w].key = o[2]])
               /\ load' = [load EXCEPT !.free = @ - 1]
        <3>1. load.may \subseteq Calls /\ load.free \in Nat
            BY <2>1
        <3>2. load.free - 1 \in Nat
            BY <2>3, <3>1
        <3> QED BY <2>1, <2>3, <3>1, <3>2
    <2> QED BY <2>2, <2>3 DEF Dispatch
<1>4. PICK o \in Calls : /\ wr' = [wr EXCEPT ![w].pc = "root", ![w].op = o[1], ![w].key = o[2]]
                         /\ load' \in [ops : Seq(Calls), seen : Int, who : SUBSET Writers, may : SUBSET Calls, free : Nat]
    BY <1>3
<1>5. o[1] \in Operations /\ o[2] \in Int
    BY CallTyped
<1> DEFINE to == [wr[w] EXCEPT !.pc = "root", !.op = o[1], !.key = o[2]]
<1>6. /\ to \in Writer /\ to.pc = "root" /\ to.curr = wr[w].curr /\ to.child = wr[w].child
      /\ to.indexLive = wr[w].indexLive /\ to.currLive = wr[w].currLive /\ to.childLive = wr[w].childLive
    <2>1. "root" \in Places
        BY DEF Places
    <2> QED BY <1>1, <1>5, <2>1 DEF Writer
<1>7. wr' = [wr EXCEPT ![w] = to] /\ latch' = latch /\ UNCHANGED treeVars
    BY <1>4, <1>1 DEF Dispatch, TypeInv
<1> HIDE DEF to
<1>8. /\ wr' \in [Writers -> Writer] /\ latch' \in [Writers -> SUBSET Nat]
      /\ wr'[w] = to /\ latch'[w] = (latch[w] \ {}) \cup {}
      /\ Others(w, {})
    BY <1>1, <1>6, <1>7, SingleFacts
<1>9. TypeInv' /\ pages' = pages
    BY <1>1, <1>4, <1>7, <1>8 DEF TypeInv, treeVars
<1>10. WriterAt(h, pages, latch'[w], wr'[w])
    <2>1. wr[w].pc = "idle" /\ WriterAt(h, pages, latch[w], wr[w])
        BY <1>2 DEF Dispatch, Heights
    <2>2. ~wr[w].currLive /\ ~wr[w].childLive
        BY <2>1 DEF WriterAt
    <2> QED BY <1>6, <1>8, <2>2, StartsAnywhere
<1>11. \A v \in Writers : v # w =>
          /\ wr'[w].indexLive => Index \notin latch[v]
          /\ wr'[w].currLive => wr'[w].curr \notin latch[v]
          /\ wr'[w].childLive => wr'[w].child \notin latch[v]
    BY <1>1, <1>6, <1>8 DEF Latching
<1>12. (\A v \in Writers : v # w => {} \cap latch[v] = {}) /\ (\A i \in {} : i <= Len(pages))
    OBVIOUS
<1>13. latch'[w] = (latch[w] \ {}) \cup {} /\ Others(w, {})
    BY <1>8
<1> QED BY <1>1, <1>2, <1>9, <1>10, <1>11, <1>12, <1>13, QuietFacts

(* A change of one writer's state alone, as a step.                         *)
LEMMA QuietSingle ==
    ASSUME TreeInv, NEW w \in Writers, NEW to \in Writer, wr' = [wr EXCEPT ![w] = to], latch' = latch,
           UNCHANGED <<pages, roots, clock, load>>, NEW h, Heights(h),
           \A v \in Writers : v # w =>
              /\ to.indexLive => Index \notin latch[v]
              /\ to.currLive => to.curr \notin latch[v]
              /\ to.childLive => to.child \notin latch[v],
           WriterAt(h, pages, latch[w], to)
    PROVE  TreeInv'
<1>1. TypeInv /\ Latching /\ pages' = pages
    BY DEF TreeInv
<1>2. /\ wr' \in [Writers -> Writer] /\ latch' \in [Writers -> SUBSET Nat]
      /\ wr'[w] = to /\ latch'[w] = (latch[w] \ {}) \cup {}
      /\ Others(w, {})
    BY <1>1, SingleFacts
<1>3. TypeInv'
    BY <1>1, <1>2, QuietType
<1>4. WriterAt(h, pages, latch'[w], wr'[w])
    BY <1>2
<1> QED BY <1>1, <1>2, <1>3, <1>4, QuietFacts

LEMMA UnlatchedFacts ==
    ASSUME NEW p, Unlatched(p)
    PROVE  \A v \in Writers : p \notin latch[v]
BY DEF Unlatched

LEMMA WriterFacts ==
    ASSUME TypeInv, NEW w \in Writers
    PROVE  /\ wr[w] \in Writer /\ wr[w].pc \in Places /\ wr[w].curr \in Nat /\ wr[w].child \in Nat
           /\ wr[w].indexLive \in BOOLEAN /\ wr[w].currLive \in BOOLEAN /\ wr[w].childLive \in BOOLEAN
           /\ wr[w].slot \in Nat /\ wr[w].lo \in Int /\ wr[w].hi \in Int /\ wr[w].parts \in Seq(Slot)
           /\ wr[w].dead \in SUBSET Nat /\ wr[w].outer \in SUBSET Nat /\ wr[w].key \in Int
           /\ latch[w] \in SUBSET Nat
<1>1. wr[w] \in Writer /\ latch[w] \in SUBSET Nat
    BY DEF TypeInv
<1> QED BY <1>1 DEF Writer

(* BorrowIndex: the root the index names is a page.                         *)
LEMMA BorrowIndexStep ==
    ASSUME TreeInv, NEW w \in Writers, BorrowIndex(w)
    PROVE  TreeInv'
<1>1. TypeInv /\ Latching
    BY DEF TreeInv
<1>2. PICK h : Heights(h)
    BY DEF TreeInv
<1>3. wr[w] \in Writer
    BY <1>1, WriterFacts
<1>4. RootBlock \in 1 .. Len(pages) /\ RootBlock \in Nat
    <2>1. Len(roots) \in 1 .. Len(roots) /\ Len(pages) \in Nat
        BY <1>1 DEF TypeInv
    <2>2. roots[Len(roots)].page \in 1 .. Len(pages)
        BY <1>1, <2>1 DEF TypeInv
    <2> QED BY <2>1, <2>2 DEF RootBlock, Root
<1>5. ~wr[w].currLive /\ ~wr[w].childLive
    <2>1. wr[w].pc = "root" /\ WriterAt(h, pages, latch[w], wr[w])
        BY <1>2 DEF BorrowIndex, Heights
    <2> QED BY <2>1 DEF WriterAt
<1> DEFINE to == [wr[w] EXCEPT !.pc = "degree", !.curr = RootBlock, !.indexLive = Unlatched(Index),
                               !.lo = MinKey, !.hi = MaxKey]
<1>6. to \in Writer
    <2>1. "degree" \in Places /\ Unlatched(Index) \in BOOLEAN /\ MinKey \in Int /\ MaxKey \in Int
        BY TreeAssumption DEF Places, Unlatched
    <2> QED BY <1>3, <1>4, <2>1 DEF Writer
<1>7. /\ to.pc = "degree" /\ to.curr = RootBlock /\ (to.indexLive <=> Unlatched(Index))
      /\ ~to.currLive /\ ~to.childLive
    BY <1>3, <1>5 DEF Writer
<1>8. wr' = [wr EXCEPT ![w] = to] /\ latch' = latch /\ UNCHANGED <<pages, roots, clock, load>>
    BY <1>1 DEF BorrowIndex, TypeInv, treeVars, writerRest
<1> HIDE DEF to
<1>9. WriterAt(h, pages, latch[w], to)
    BY <1>4, <1>7 DEF WriterAt
<1>10. \A v \in Writers : v # w =>
          /\ to.indexLive => Index \notin latch[v]
          /\ to.currLive => to.curr \notin latch[v]
          /\ to.childLive => to.child \notin latch[v]
    BY <1>7, UnlatchedFacts
<1> QED BY <1>2, <1>6, <1>8, <1>9, <1>10, QuietSingle

(* The root's degree is good: a root leaf has room.                         *)
LEMMA RootDegreeFacts ==
    ASSUME NEW p \in Page
    PROVE  /\ UnsafeDegreeRoot(p) \in {"underflow", "overflow", "ok"}
           /\ UnsafeDegreeRoot(p) = "underflow" => p.live = 1 /\ ~p.leaf
           /\ (UnsafeDegreeRoot(p) = "ok" /\ p.leaf) => HasRoom(p)
<1>1. p.live \in Int /\ p.dead \in Int /\ NumRecords \in Nat /\ FanOut \in Nat
    BY PageTyped, TreeAssumption
<1> QED BY <1>1 DEF UnsafeDegreeRoot, HasRoom, OverflowUnits

LEMMA RootDegreeStep ==
    ASSUME TreeInv, NEW w \in Writers, RootDegree(w)
    PROVE  TreeInv'
<1> DEFINE me == wr[w]
           borrowed == [me EXCEPT !.currLive = Unlatched(me.curr)]
           p == pages[me.curr]
           degree == UnsafeDegreeRoot(p)
           next == IF degree = "overflow" THEN "splitRoot" ELSE "mergeRoot"
<1>1. TypeInv /\ Latching /\ UNCHANGED <<writerRest, treeVars>> /\ me.pc = "degree"
    BY DEF TreeInv, RootDegree
<1>2. PICK h : Heights(h)
    BY DEF TreeInv
<1>3. me \in Writer
    BY <1>1, WriterFacts
<1>4. UNCHANGED <<pages, roots, clock, load>>
    BY <1>1 DEF treeVars, writerRest
<1>5. me.curr \in 1 .. Len(pages) /\ PageAt(h, pages, me.curr) /\ p \in Page
    <2>1. WriterAt(h, pages, latch[w], me)
        BY <1>2 DEF Heights
    <2>2. me.curr \in 1 .. Len(pages)
        BY <1>1, <2>1 DEF WriterAt
    <2> QED BY <1>1, <1>2, <2>2 DEF Heights, Pages, TypeInv
<1>6. /\ degree \in {"underflow", "overflow", "ok"}
      /\ degree = "underflow" => p.live = 1 /\ ~p.leaf
      /\ (degree = "ok" /\ p.leaf) => HasRoom(p)
    BY <1>5, RootDegreeFacts
<1>7. \/ degree = "ok" /\ Move(w, [borrowed EXCEPT !.pc = "descend"], {}, {})
      \/ degree # "ok" /\ UpgradeIndex(w) /\ Move(w, [borrowed EXCEPT !.pc = next], {Index}, {})
      \/ Retry(w)
    BY DEF RootDegree
<1>8. ASSUME NEW pc \in Places
      PROVE  LET to == [borrowed EXCEPT !.pc = pc] IN
             /\ to \in Writer /\ to.pc = pc /\ to.curr = me.curr /\ to.child = me.child
             /\ (to.indexLive <=> me.indexLive) /\ (to.currLive <=> Unlatched(me.curr)) /\ (to.childLive <=> me.childLive)
    <2>1. Unlatched(me.curr) \in BOOLEAN
        BY DEF Unlatched
    <2> QED BY <1>3, <2>1 DEF Writer
<1>9. ASSUME NEW to \in Writer, to.curr = me.curr, to.child = me.child, to.indexLive <=> me.indexLive,
             to.currLive <=> Unlatched(me.curr), to.childLive <=> me.childLive
      PROVE  \A v \in Writers : v # w =>
                /\ to.indexLive => Index \notin latch[v]
                /\ to.currLive => to.curr \notin latch[v]
                /\ to.childLive => to.child \notin latch[v]
    <2>1. to.currLive => \A v \in Writers : to.curr \notin latch[v]
        BY <1>9, UnlatchedFacts
    <2>2. \A v \in Writers : v # w => /\ me.indexLive => Index \notin latch[v]
                                      /\ me.childLive => me.child \notin latch[v]
        BY <1>1 DEF Latching
    <2> QED BY <1>9, <2>1, <2>2
<1>10. CASE degree = "ok" /\ Move(w, [borrowed EXCEPT !.pc = "descend"], {}, {})
    <2> DEFINE to == [borrowed EXCEPT !.pc = "descend"]
    <2>1. "descend" \in Places
        BY DEF Places
    <2>2. /\ to \in Writer /\ to.pc = "descend" /\ to.curr = me.curr /\ to.child = me.child
          /\ (to.indexLive <=> me.indexLive) /\ (to.currLive <=> Unlatched(me.curr)) /\ (to.childLive <=> me.childLive)
        BY <1>8, <2>1
    <2>3. Move(w, to, {}, {})
        BY <1>10
    <2> HIDE DEF to
    <2>4. WriterAt(h, pages, (latch[w] \ {}) \cup {}, to)
        BY <1>5, <1>6, <1>10, <2>2 DEF WriterAt
    <2>5. \A v \in Writers : v # w =>
                /\ to.indexLive => Index \notin latch[v]
                /\ to.currLive => to.curr \notin latch[v]
                /\ to.childLive => to.child \notin latch[v]
        BY <1>9, <2>2
    <2>6. {} \in SUBSET Nat /\ (\A v \in Writers : v # w => {} \cap latch[v] = {}) /\ (\A i \in {} : i <= Len(pages))
        OBVIOUS
    <2> QED BY <1>2, <1>4, <2>2, <2>3, <2>4, <2>5, <2>6, QuietMove
<1>11. CASE degree # "ok" /\ UpgradeIndex(w) /\ Move(w, [borrowed EXCEPT !.pc = next], {Index}, {})
    <2> DEFINE to == [borrowed EXCEPT !.pc = next]
    <2>1. next \in Places /\ next \in {"splitRoot", "mergeRoot"}
        BY DEF Places
    <2>2. /\ to \in Writer /\ to.pc = next /\ to.curr = me.curr /\ to.child = me.child
          /\ (to.indexLive <=> me.indexLive) /\ (to.currLive <=> Unlatched(me.curr)) /\ (to.childLive <=> me.childLive)
        <3>1. next \in Places
            BY <2>1
        <3> HIDE DEF next
        <3> QED BY <1>8, <3>1
    <2>3. Move(w, to, {Index}, {})
        BY <1>11
    <2>4. next = "mergeRoot" => ~p.leaf /\ Len(p.slots) >= 1
        <3> SUFFICES ASSUME next = "mergeRoot" PROVE ~p.leaf /\ Len(p.slots) >= 1
            OBVIOUS
        <3>1. degree = "underflow"
            BY <1>6, <1>11
        <3>2. p.live = 1 /\ ~p.leaf
            BY <1>6, <3>1
        <3>3. p.live <= Cardinality(Active(p))
            BY <1>5, <3>2 DEF PageAt, Counted
        <3>4. Cardinality(Active(p)) \in Nat /\ Cardinality(Active(p)) <= Len(p.slots) /\ Len(p.slots) \in Nat
            BY <1>5, LiveSlotsFacts, PageTyped
        <3> QED BY <3>2, <3>3, <3>4
    <2> HIDE DEF to
    <2>5. WriterAt(h, pages, (latch[w] \ {}) \cup {Index}, to)
        BY <1>5, <2>1, <2>2, <2>4 DEF WriterAt
    <2>6. \A v \in Writers : v # w =>
                /\ to.indexLive => Index \notin latch[v]
                /\ to.currLive => to.curr \notin latch[v]
                /\ to.childLive => to.child \notin latch[v]
        BY <1>9, <2>2
    <2>7. \A v \in Writers : v # w => {Index} \cap latch[v] = {}
        BY <1>1, <1>11 DEF UpgradeIndex, CanLatch, Latching
    <2>8. {Index} \in SUBSET Nat /\ \A i \in {Index} : i <= Len(pages)
        BY <1>1 DEF Index, TypeInv
    <2> QED BY <1>2, <1>4, <2>2, <2>3, <2>5, <2>6, <2>7, <2>8, QuietMove
<1>12. CASE Retry(w)
    BY <1>1, <1>12, RetryStep
<1> QED BY <1>7, <1>10, <1>11, <1>12

(* AppendRoot: the new root is a page.                                      *)
LEMMA AppendRootStep ==
    ASSUME TreeInv, NEW w \in Writers, AppendRoot(w)
    PROVE  TreeInv'
<1> DEFINE me == wr[w]
           to == [me EXCEPT !.pc = "endRoot"]
           new == [ver |-> me.ver, page |-> me.curr,
                   height |-> Root.height + me.slot - IF me.child \in latch[w] THEN 1 ELSE 0]
<1>1. TypeInv /\ Latching /\ me.pc = "append"
    BY DEF TreeInv, AppendRoot
<1>2. PICK h : Heights(h)
    BY DEF TreeInv
<1>3. me \in Writer /\ WriterAt(h, pages, latch[w], me)
    BY <1>1, <1>2, WriterFacts DEF Heights
<1>4. /\ to \in Writer /\ to.pc = "endRoot" /\ to.curr = me.curr /\ to.child = me.child
      /\ (to.indexLive <=> me.indexLive) /\ (to.currLive <=> me.currLive) /\ (to.childLive <=> me.childLive)
    <2>1. "endRoot" \in Places
        BY DEF Places
    <2> QED BY <1>3, <2>1 DEF Writer
<1>5. me.curr \in 1 .. Len(pages)
    BY <1>1, <1>3 DEF WriterAt
<1>6. wr' = [wr EXCEPT ![w] = to] /\ latch' = latch /\ UNCHANGED <<pages, clock, load>> /\ roots' = Append(roots, new)
    BY <1>1 DEF AppendRoot, TypeInv, writerRest
<1>7. new \in [ver : Int, page : Nat, height : Int]
    <2>1. me.ver \in Int /\ me.curr \in Nat /\ me.slot \in Nat
        BY <1>3 DEF Writer
    <2>2. roots[Len(roots)] \in [ver : Int, page : Nat, height : Int]
        <3> DEFINE R == [ver : Int, page : Nat, height : Int]
        <3>1. roots \in Seq(R) /\ Len(roots) >= 1
            BY <1>1 DEF TypeInv
        <3> HIDE DEF R
        <3>2. roots[Len(roots)] \in R
            BY <3>1
        <3> QED BY <3>2 DEF R
    <2>3. Root.height \in Int
        BY <2>2 DEF Root
    <2> QED BY <2>1, <2>3
<1> HIDE DEF to
<1>8. /\ wr' \in [Writers -> Writer] /\ latch' \in [Writers -> SUBSET Nat]
      /\ wr'[w] = to /\ latch'[w] = (latch[w] \ {}) \cup {} /\ Others(w, {})
    BY <1>1, <1>4, <1>6, SingleFacts
<1>9. TypeInv'
    <2>1. roots \in Seq([ver : Int, page : Nat, height : Int]) /\ Len(roots) \in Nat
        BY <1>1 DEF TypeInv
    <2>2. new.page = me.curr
        OBVIOUS
    <2> HIDE DEF new
    <2>3. /\ roots' \in Seq([ver : Int, page : Nat, height : Int]) /\ Len(roots') = Len(roots) + 1
          /\ \A i \in 1 .. Len(roots) : roots'[i] = roots[i]
          /\ roots'[Len(roots) + 1] = new
        BY <1>6, <1>7, <2>1
    <2>4. \A i \in 1 .. Len(roots') : roots'[i].page \in 1 .. Len(pages)
        <3> SUFFICES ASSUME NEW i \in 1 .. Len(roots') PROVE roots'[i].page \in 1 .. Len(pages)
            OBVIOUS
        <3>1. i \in 1 .. Len(roots) \/ i = Len(roots) + 1
            BY <2>1, <2>3
        <3>2. CASE i \in 1 .. Len(roots)
            BY <1>1, <2>3, <3>2 DEF TypeInv
        <3>3. CASE i = Len(roots) + 1
            BY <1>5, <2>2, <2>3, <3>3
        <3> QED BY <3>1, <3>2, <3>3
    <2>5. Len(roots') >= 1
        BY <2>1, <2>3
    <2> QED BY <1>1, <1>6, <1>8, <2>3, <2>4, <2>5 DEF TypeInv
<1>10. WriterAt(h, pages, latch'[w], wr'[w])
    <2>1. WriterAt(h, pages, latch[w], to)
        BY <1>1, <1>3, <1>4 DEF WriterAt
    <2> QED BY <1>6, <1>8, <2>1
<1>11. \A v \in Writers : v # w =>
          /\ wr'[w].indexLive => Index \notin latch[v]
          /\ wr'[w].currLive => wr'[w].curr \notin latch[v]
          /\ wr'[w].childLive => wr'[w].child \notin latch[v]
    BY <1>1, <1>4, <1>8 DEF Latching
<1>12. (\A v \in Writers : v # w => {} \cap latch[v] = {}) /\ (\A i \in {} : i <= Len(pages)) /\ pages' = pages
    BY <1>6
<1>13. latch'[w] = (latch[w] \ {}) \cup {} /\ Others(w, {})
    BY <1>8
<1> QED BY <1>1, <1>2, <1>9, <1>10, <1>11, <1>12, <1>13, QuietFacts

(* EndRoot: the writer goes on in the new root, whose version it knows.     *)
LEMMA EndRootStep ==
    ASSUME TreeInv, NEW w \in Writers, EndRoot(w)
    PROVE  TreeInv'
<1> DEFINE me == wr[w]
           to == [Begin(w, "descend") EXCEPT !.curr = me.curr, !.currLive = me.currLive]
<1>1. TypeInv /\ Latching /\ me.pc = "endRoot" /\ UNCHANGED <<pages, roots, clock, load>>
    BY DEF TreeInv, EndRoot, writerRest
<1>2. PICK h : Heights(h)
    BY DEF TreeInv
<1>3. me \in Writer /\ WriterAt(h, pages, latch[w], me) /\ me.curr \in Nat /\ me.currLive \in BOOLEAN
    BY <1>1, <1>2, WriterFacts DEF Heights
<1>4. /\ to \in Writer /\ to.pc = "descend" /\ to.curr = me.curr
      /\ ~to.indexLive /\ (to.currLive <=> me.currLive) /\ ~to.childLive
    <2>1. "descend" \in Places
        BY DEF Places
    <2> DEFINE b == Begin(w, "descend")
    <2>2. b \in Writer /\ b.pc = "descend" /\ ~b.indexLive /\ ~b.currLive /\ ~b.childLive
        BY <1>1, <2>1, BeginTyped
    <2>3. to = [b EXCEPT !.curr = me.curr, !.currLive = me.currLive]
        OBVIOUS
    <2> HIDE DEF b, to
    <2> QED BY <1>3, <2>2, <2>3 DEF Writer
<1>5. Move(w, to, {}, latch[w])
    BY DEF EndRoot
<1> HIDE DEF to
<1>6. WriterAt(h, pages, (latch[w] \ latch[w]) \cup {}, to)
    BY <1>1, <1>3, <1>4 DEF WriterAt
<1>7. \A v \in Writers : v # w =>
          /\ to.indexLive => Index \notin latch[v]
          /\ to.currLive => to.curr \notin latch[v]
          /\ to.childLive => to.child \notin latch[v]
    BY <1>1, <1>4 DEF Latching
<1>8. {} \in SUBSET Nat /\ (\A v \in Writers : v # w => {} \cap latch[v] = {}) /\ (\A i \in {} : i <= Len(pages))
    OBVIOUS
<1> QED BY <1>1, <1>2, <1>4, <1>5, <1>6, <1>7, <1>8, QuietMove

(* Descend: the entry that is followed is one of the page's.                *)
LEMMA DescendStep ==
    ASSUME TreeInv, NEW w \in Writers, Descend(w)
    PROVE  TreeInv'
<1> DEFINE me == wr[w]
           p == pages[me.curr]
           matching == IF IsRandom(w) THEN RandomChild(p) ELSE KeyedChild(p, me.key)
<1>1. TypeInv /\ Latching /\ me.pc = "descend" /\ ~p.leaf /\ UNCHANGED <<writerRest, treeVars>>
    BY DEF TreeInv, Descend
<1>2. PICK h : Heights(h)
    BY DEF TreeInv
<1>3. me \in Writer /\ WriterAt(h, pages, latch[w], me)
    BY <1>1, <1>2, WriterFacts DEF Heights
<1>4. UNCHANGED <<pages, roots, clock, load>>
    BY <1>1 DEF treeVars, writerRest
<1>5. me.curr \in 1 .. Len(pages) /\ p \in Page
    BY <1>1, <1>3 DEF WriterAt, TypeInv
<1>6. matching \subseteq 1 .. Len(p.slots)
    <2>1. Len(p.slots) \in Nat /\ DOMAIN p.slots = 1 .. Len(p.slots)
        BY <1>5, PageTyped
    <2>2. RandomChild(p) \subseteq 1 .. Len(p.slots)
        BY DEF RandomChild
    <2>3. KeyedChild(p, me.key) \subseteq 1 .. Len(p.slots)
        <3> DEFINE S == {i \in DOMAIN p.slots : IsActive(p.slots[i]) /\ Covers(p.slots[i], me.key)}
        <3>1. S \in SUBSET (1 .. Len(p.slots))
            BY <2>1
        <3>2. KeyedChild(p, me.key) = {RFind(S)} \ {0}
            BY DEF KeyedChild
        <3> HIDE DEF S
        <3>3. RFind(S) \in S \cup {0}
            BY <2>1, <3>1, RFindFacts
        <3> QED BY <3>1, <3>2, <3>3
    <2> QED BY <2>2, <2>3
<1>7. CASE Retry(w)
    BY <1>1, <1>7, RetryStep
<1>8. CASE \E i \in matching :
              Move(w, [me EXCEPT !.pc = "child", !.slot = i, !.child = p.slots[i].ptr,
                                 !.childLive = Unlatched(p.slots[i].ptr),
                                 !.lo = p.slots[i].lo, !.hi = p.slots[i].hi], {}, {})
    <2>1. PICK i \in matching :
              Move(w, [me EXCEPT !.pc = "child", !.slot = i, !.child = p.slots[i].ptr,
                                 !.childLive = Unlatched(p.slots[i].ptr),
                                 !.lo = p.slots[i].lo, !.hi = p.slots[i].hi], {}, {})
        BY <1>8
    <2>2. i \in 1 .. Len(p.slots) /\ i \in Nat
        BY <1>6
    <2> DEFINE e == p.slots[i]
               to == [me EXCEPT !.pc = "child", !.slot = i, !.child = e.ptr, !.childLive = Unlatched(e.ptr),
                                !.lo = e.lo, !.hi = e.hi]
    <2>3. e.ptr \in Nat /\ e.lo \in Int /\ e.hi \in Int
        <3>1. e \in Slot
            BY <1>5, <2>2, PageTyped
        <3> QED BY <3>1 DEF Slot
    <2>4. Move(w, to, {}, {})
        BY <2>1
    <2> HIDE DEF e
    <2>5. /\ to \in Writer /\ to.pc = "child" /\ to.slot = i /\ to.child = e.ptr /\ to.curr = me.curr
          /\ (to.childLive <=> Unlatched(e.ptr)) /\ (to.indexLive <=> me.indexLive) /\ (to.currLive <=> me.currLive)
        <3>1. "child" \in Places /\ Unlatched(e.ptr) \in BOOLEAN
            BY DEF Places, Unlatched
        <3> QED BY <1>3, <2>2, <2>3, <3>1 DEF Writer
    <2> HIDE DEF to
    <2>6. WriterAt(h, pages, (latch[w] \ {}) \cup {}, to)
        BY <1>1, <1>5, <2>2, <2>5 DEF WriterAt, e
    <2>7. \A v \in Writers : v # w =>
              /\ to.indexLive => Index \notin latch[v]
              /\ to.currLive => to.curr \notin latch[v]
              /\ to.childLive => to.child \notin latch[v]
        <3>1. to.childLive => \A v \in Writers : to.child \notin latch[v]
            BY <2>5, UnlatchedFacts
        <3> QED BY <1>1, <2>5, <3>1 DEF Latching
    <2>8. {} \in SUBSET Nat /\ (\A v \in Writers : v # w => {} \cap latch[v] = {}) /\ (\A k \in {} : k <= Len(pages))
        OBVIOUS
    <2> QED BY <1>2, <1>4, <2>4, <2>5, <2>6, <2>7, <2>8, QuietMove
<1>10. CASE Move(w, IdleWriter, {}, latch[w])
    <2>1. IdleWriter.pc = "idle" /\ ~IdleWriter.indexLive /\ ~IdleWriter.currLive /\ ~IdleWriter.childLive
        BY DEF IdleWriter
    <2>2. WriterAt(h, pages, (latch[w] \ latch[w]) \cup {}, IdleWriter)
        BY <2>1, StartsAnywhere
    <2>3. {} \in SUBSET Nat /\ (\A v \in Writers : v # w => {} \cap latch[v] = {}) /\ (\A k \in {} : k <= Len(pages))
        OBVIOUS
    <2> QED BY <1>2, <1>4, <1>10, <2>1, <2>2, <2>3, IdleTyped, QuietMove
<1>9. (IF matching = {} THEN IF IsRandom(w) THEN Move(w, IdleWriter, {}, latch[w]) ELSE Retry(w)
       ELSE \E i \in matching :
              Move(w, [me EXCEPT !.pc = "child", !.slot = i, !.child = p.slots[i].ptr,
                                 !.childLive = Unlatched(p.slots[i].ptr),
                                 !.lo = p.slots[i].lo, !.hi = p.slots[i].hi], {}, {}))
    BY DEF Descend
<1> QED BY <1>7, <1>8, <1>9, <1>10

(* A child whose degree is good has room, if it is a leaf.                  *)
LEMMA DegreeFacts ==
    ASSUME NEW p \in Page
    PROVE  /\ UnsafeDegree(p) \in {"underflow", "overflow", "ok"}
           /\ (UnsafeDegree(p) = "ok" /\ p.leaf) => HasRoom(p)
<1>1. p.live \in Int /\ p.dead \in Int /\ NumRecords \in Nat /\ FanOut \in Nat
    BY PageTyped, TreeAssumption
<1>2. Filling20(p) \in Nat
    BY UnitsFacts
<1> QED BY <1>1, <1>2 DEF UnsafeDegree, HasRoom, OverflowUnits

(* The pages a writer is at: where it is, and the child it looks at.        *)
LEMMA PlaceFacts ==
    ASSUME TypeInv, NEW h, Heights(h), NEW w \in Writers, wr[w].pc \notin {"idle", "root"}
    PROVE  /\ WriterAt(h, pages, latch[w], wr[w])
           /\ wr[w].curr \in 1 .. Len(pages) /\ pages[wr[w].curr] \in Page
           /\ PageAt(h, pages, wr[w].curr)
           /\ Len(pages[wr[w].curr].slots) \in Nat
<1>1. WriterAt(h, pages, latch[w], wr[w])
    BY DEF Heights
<1>2. wr[w].curr \in 1 .. Len(pages)
    BY <1>1 DEF WriterAt
<1>3. pages[wr[w].curr] \in Page /\ PageAt(h, pages, wr[w].curr)
    BY <1>2 DEF TypeInv, Heights, Pages
<1> QED BY <1>1, <1>2, <1>3, PageTyped

LEMMA ChildFacts ==
    ASSUME TypeInv, NEW h, Heights(h), NEW w \in Writers, wr[w].pc \in {"child", "overflow", "underflow"}
    PROVE  /\ wr[w].child \in 1 .. Len(pages) /\ pages[wr[w].child] \in Page
           /\ PageAt(h, pages, wr[w].child)
           /\ h[wr[w].curr] = h[wr[w].child] + 1
<1> DEFINE me == wr[w]
<1>1. /\ WriterAt(h, pages, latch[w], me) /\ me.curr \in 1 .. Len(pages) /\ PageAt(h, pages, me.curr)
    BY PlaceFacts
<1>2. ~pages[me.curr].leaf /\ me.slot \in 1 .. Len(pages[me.curr].slots) /\ pages[me.curr].slots[me.slot].ptr = me.child
    BY <1>1 DEF WriterAt
<1>3. PointsBelow(h, pages, h[me.curr], pages[me.curr].slots[me.slot])
    BY <1>1, <1>2 DEF PageAt
<1>4. me.child \in 1 .. Len(pages) /\ h[me.curr] = h[me.child] + 1
    BY <1>2, <1>3 DEF PointsBelow
<1>5. pages[me.child] \in Page /\ PageAt(h, pages, me.child)
    BY <1>4 DEF TypeInv, Heights, Pages
<1> QED BY <1>4, <1>5

(* ChildDegree: what is latched for the repair nobody else has.             *)
LEMMA ChildDegreeStep ==
    ASSUME TreeInv, NEW w \in Writers, ChildDegree(w)
    PROVE  TreeInv'
<1> DEFINE me == wr[w]
           c == pages[me.child]
           degree == UnsafeDegree(c)
           parent == CanLatch(w, me.curr, me.currLive)
           child  == IsRandom(w) \/ me.childLive
           taken  == {me.curr} \cup (IF IsRandom(w) THEN {} ELSE {me.child})
           down   == [me EXCEPT !.pc = "descend", !.curr = me.child, !.currLive = me.childLive,
                                !.child = 0, !.childLive = FALSE, !.slot = 0]
<1>1. TypeInv /\ Latching /\ me.pc = "child" /\ UNCHANGED <<writerRest, treeVars>>
    BY DEF TreeInv, ChildDegree
<1>2. PICK h : Heights(h)
    BY DEF TreeInv
<1>3. me \in Writer /\ me.childLive \in BOOLEAN /\ me.child \in Nat /\ me.curr \in Nat
    BY <1>1, WriterFacts
<1>4. UNCHANGED <<pages, roots, clock, load>>
    BY <1>1 DEF treeVars, writerRest
<1>5. WriterAt(h, pages, latch[w], me) /\ me.curr \in 1 .. Len(pages)
    BY <1>1, <1>2, PlaceFacts
<1>6. me.child \in 1 .. Len(pages) /\ c \in Page
    BY <1>1, <1>2, ChildFacts
<1>7. degree \in {"underflow", "overflow", "ok"} /\ ((degree = "ok" /\ c.leaf) => HasRoom(c))
    BY <1>6, DegreeFacts
<1>8. \/ degree = "ok" /\ Move(w, down, {}, latch[w])
      \/ parent /\ child /\ degree # "ok" /\ Move(w, [me EXCEPT !.pc = degree], taken, {})
      \/ Retry(w)
    BY DEF ChildDegree
<1>9. CASE degree = "ok" /\ Move(w, down, {}, latch[w])
    <2>1. /\ down \in Writer /\ down.pc = "descend" /\ down.curr = me.child
          /\ (down.currLive <=> me.childLive) /\ (down.indexLive <=> me.indexLive) /\ ~down.childLive
        <3>1. "descend" \in Places /\ 0 \in Nat /\ FALSE \in BOOLEAN
            BY DEF Places
        <3> QED BY <1>3, <3>1 DEF Writer
    <2>2. Move(w, down, {}, latch[w])
        BY <1>9
    <2> HIDE DEF down
    <2>3. WriterAt(h, pages, (latch[w] \ latch[w]) \cup {}, down)
        BY <1>6, <1>7, <1>9, <2>1 DEF WriterAt
    <2>4. \A v \in Writers : v # w =>
              /\ down.indexLive => Index \notin latch[v]
              /\ down.currLive => down.curr \notin latch[v]
              /\ down.childLive => down.child \notin latch[v]
        BY <1>1, <2>1 DEF Latching
    <2>5. {} \in SUBSET Nat /\ (\A v \in Writers : v # w => {} \cap latch[v] = {}) /\ (\A k \in {} : k <= Len(pages))
        OBVIOUS
    <2> QED BY <1>2, <1>4, <2>1, <2>2, <2>3, <2>4, <2>5, QuietMove
<1>10. CASE parent /\ child /\ degree # "ok" /\ Move(w, [me EXCEPT !.pc = degree], taken, {})
    <2> DEFINE to == [me EXCEPT !.pc = degree]
    <2>1. degree \in {"underflow", "overflow"} /\ degree \in Places
        BY <1>7, <1>10 DEF Places
    <2>2. taken \in SUBSET Nat /\ me.curr \in taken /\ taken \subseteq {me.curr, me.child}
        BY <1>3
    <2>3. Move(w, to, taken, {})
        BY <1>10
    <2>4. \A v \in Writers : v # w => taken \cap latch[v] = {}
        <3> SUFFICES ASSUME NEW v \in Writers, v # w, NEW i \in taken PROVE i \notin latch[v]
            OBVIOUS
        <3>1. CASE i = me.curr
            BY <1>1, <1>10, <3>1 DEF CanLatch, Latching
        <3>2. CASE i = me.child /\ ~IsRandom(w)
            BY <1>1, <1>10, <3>2 DEF Latching
        <3> QED BY <3>1, <3>2
    <2>5. \A i \in taken : i <= Len(pages)
        <3>1. Len(pages) \in Nat /\ me.curr <= Len(pages) /\ me.child <= Len(pages)
            BY <1>1, <1>5, <1>6 DEF TypeInv
        <3> QED BY <2>2, <3>1
    <2> HIDE DEF degree, taken
    <2>6. /\ to \in Writer /\ to.pc = degree /\ to.curr = me.curr /\ to.child = me.child /\ to.slot = me.slot
          /\ (to.currLive <=> me.currLive) /\ (to.indexLive <=> me.indexLive) /\ (to.childLive <=> me.childLive)
        BY <1>3, <2>1 DEF Writer
    <2> HIDE DEF to
    <2>7. WriterAt(h, pages, (latch[w] \ {}) \cup taken, to)
        BY <1>1, <1>5, <2>1, <2>2, <2>6 DEF WriterAt
    <2>8. \A v \in Writers : v # w =>
              /\ to.indexLive => Index \notin latch[v]
              /\ to.currLive => to.curr \notin latch[v]
              /\ to.childLive => to.child \notin latch[v]
        BY <1>1, <2>6 DEF Latching
    <2> QED BY <1>2, <1>4, <2>2, <2>3, <2>4, <2>5, <2>6, <2>7, <2>8, QuietMove
<1>11. CASE Retry(w)
    BY <1>1, <1>11, RetryStep
<1> QED BY <1>8, <1>9, <1>10, <1>11

(* UpgradeLeaf: the leaf had room when its degree was looked at, and it has *)
(* not changed since.                                                       *)
LEMMA UpgradeLeafStep ==
    ASSUME TreeInv, NEW w \in Writers, UpgradeLeaf(w)
    PROVE  TreeInv'
<1> DEFINE me == wr[w]
           to == [me EXCEPT !.pc = "apply"]
<1>1. TypeInv /\ Latching /\ me.pc = "descend" /\ pages[me.curr].leaf /\ UNCHANGED <<writerRest, treeVars>>
    BY DEF TreeInv, UpgradeLeaf
<1>2. PICK h : Heights(h)
    BY DEF TreeInv
<1>3. me \in Writer /\ me.curr \in Nat
    BY <1>1, WriterFacts
<1>4. UNCHANGED <<pages, roots, clock, load>>
    BY <1>1 DEF treeVars, writerRest
<1>5. WriterAt(h, pages, latch[w], me) /\ me.curr \in 1 .. Len(pages)
    BY <1>1, <1>2, PlaceFacts
<1>6. CASE CanLatch(w, me.curr, me.currLive) /\ Move(w, to, {me.curr}, {})
    <2>1. /\ to \in Writer /\ to.pc = "apply" /\ to.curr = me.curr /\ to.child = me.child
          /\ (to.currLive <=> me.currLive) /\ (to.indexLive <=> me.indexLive) /\ (to.childLive <=> me.childLive)
        <3>1. "apply" \in Places
            BY DEF Places
        <3> QED BY <1>3, <3>1 DEF Writer
    <2>2. Move(w, to, {me.curr}, {})
        BY <1>6
    <2> HIDE DEF to
    <2>3. HasRoom(pages[me.curr])
        BY <1>1, <1>5, <1>6 DEF WriterAt, CanLatch
    <2>4. WriterAt(h, pages, (latch[w] \ {}) \cup {me.curr}, to)
        BY <1>1, <1>5, <2>1, <2>3 DEF WriterAt
    <2>5. \A v \in Writers : v # w => {me.curr} \cap latch[v] = {}
        BY <1>1, <1>6 DEF CanLatch, Latching
    <2>6. {me.curr} \in SUBSET Nat /\ \A i \in {me.curr} : i <= Len(pages)
        BY <1>1, <1>3, <1>5 DEF TypeInv
    <2>7. \A v \in Writers : v # w =>
              /\ to.indexLive => Index \notin latch[v]
              /\ to.currLive => to.curr \notin latch[v]
              /\ to.childLive => to.child \notin latch[v]
        BY <1>1, <2>1 DEF Latching
    <2> QED BY <1>2, <1>4, <2>1, <2>2, <2>4, <2>5, <2>6, <2>7, QuietMove
<1>7. CASE Retry(w)
    BY <1>1, <1>7, RetryStep
<1> QED BY <1>6, <1>7 DEF UpgradeLeaf

(* EndSmo: the writer goes on in the index page it has latched.             *)
LEMMA EndSmoStep ==
    ASSUME TreeInv, NEW w \in Writers, EndSmo(w)
    PROVE  TreeInv'
<1> DEFINE me == wr[w]
           to == [Begin(w, "descend") EXCEPT !.curr = me.curr, !.lo = me.lo, !.hi = me.hi]
<1>1. TypeInv /\ Latching /\ me.pc = "endSmo" /\ UNCHANGED <<pages, roots, clock, load>>
    BY DEF TreeInv, EndSmo, writerRest
<1>2. PICK h : Heights(h)
    BY DEF TreeInv
<1>3. me \in Writer /\ me.curr \in Nat /\ me.lo \in Int /\ me.hi \in Int
    BY <1>1, WriterFacts
<1>4. me.curr \in 1 .. Len(pages) /\ ~pages[me.curr].leaf
    <2>1. WriterAt(h, pages, latch[w], me) /\ me.curr \in 1 .. Len(pages)
        BY <1>1, <1>2, PlaceFacts
    <2> QED BY <1>1, <2>1 DEF WriterAt
<1>5. CASE Retry(w)
    <2> DEFINE start == Begin(w, "root")
    <2>1. /\ start \in Writer /\ start.pc = "root"
          /\ ~start.indexLive /\ ~start.currLive /\ ~start.childLive
        <3>1. "root" \in Places
            BY DEF Places
        <3> QED BY <1>1, <3>1, BeginTyped
    <2>2. Move(w, start, {}, latch[w])
        BY <1>5 DEF Retry
    <2> HIDE DEF start
    <2>3. WriterAt(h, pages, (latch[w] \ latch[w]) \cup {}, start)
        BY <2>1, StartsAnywhere
    <2>4. {} \in SUBSET Nat /\ (\A v \in Writers : v # w => {} \cap latch[v] = {}) /\ (\A k \in {} : k <= Len(pages))
        OBVIOUS
    <2> QED BY <1>1, <1>2, <2>1, <2>2, <2>3, <2>4, QuietMove
<1>6. CASE Move(w, to, {}, latch[w] \ {me.curr})
    <2>1. /\ to \in Writer /\ to.pc = "descend" /\ to.curr = me.curr
          /\ ~to.indexLive /\ ~to.currLive /\ ~to.childLive
        <3>1. "descend" \in Places
            BY DEF Places
        <3> DEFINE b == Begin(w, "descend")
        <3>2. b \in Writer /\ b.pc = "descend" /\ ~b.indexLive /\ ~b.currLive /\ ~b.childLive
            BY <1>1, <3>1, BeginTyped
        <3>3. to = [b EXCEPT !.curr = me.curr, !.lo = me.lo, !.hi = me.hi]
            OBVIOUS
        <3> HIDE DEF b, to
        <3> QED BY <1>3, <3>2, <3>3 DEF Writer
    <2>2. Move(w, to, {}, latch[w] \ {me.curr})
        BY <1>6
    <2> HIDE DEF to
    <2>3. WriterAt(h, pages, (latch[w] \ (latch[w] \ {me.curr})) \cup {}, to)
        BY <1>4, <2>1 DEF WriterAt
    <2>4. {} \in SUBSET Nat /\ (\A v \in Writers : v # w => {} \cap latch[v] = {}) /\ (\A k \in {} : k <= Len(pages))
        OBVIOUS
    <2> QED BY <1>1, <1>2, <2>1, <2>2, <2>3, <2>4, QuietMove
<1> QED BY <1>5, <1>6 DEF EndSmo

(* NoRandomKey: the operation starts over or gives up.                      *)
LEMMA NoRandomKeyStep ==
    ASSUME TreeInv, NEW w \in Writers, NoRandomKey(w)
    PROVE  TreeInv'
<1> DEFINE me == wr[w]
           again == [Begin(w, "root") EXCEPT !.outer = @ \cup {me.curr}]
           to == IF me.op = "insertRand" THEN again ELSE IdleWriter
<1>1. TypeInv /\ Latching /\ UNCHANGED <<pages, roots, clock, load>>
    BY DEF TreeInv, NoRandomKey, treeVars, writerRest
<1>2. PICK h : Heights(h)
    BY DEF TreeInv
<1>3. me.curr \in Nat /\ me.outer \in SUBSET Nat
    BY <1>1, WriterFacts
<1>4. /\ to \in Writer /\ to.pc \in {"idle", "root"}
      /\ ~to.indexLive /\ ~to.currLive /\ ~to.childLive
    <2>1. "root" \in Places
        BY DEF Places
    <2> DEFINE b == Begin(w, "root")
    <2>2. b \in Writer /\ b.pc = "root" /\ ~b.indexLive /\ ~b.currLive /\ ~b.childLive /\ b.outer = me.outer
        BY <1>1, <2>1, BeginTyped
    <2>3. again = [b EXCEPT !.outer = @ \cup {me.curr}]
        OBVIOUS
    <2> HIDE DEF b, again
    <2>4. again \in Writer /\ again.pc = "root" /\ ~again.indexLive /\ ~again.currLive /\ ~again.childLive
        BY <1>3, <2>2, <2>3 DEF Writer
    <2>5. IdleWriter.pc = "idle" /\ ~IdleWriter.indexLive /\ ~IdleWriter.currLive /\ ~IdleWriter.childLive
        BY DEF IdleWriter
    <2> QED BY <2>4, <2>5, IdleTyped
<1>5. Move(w, to, {}, latch[w])
    BY DEF NoRandomKey
<1> HIDE DEF to
<1>6. WriterAt(h, pages, (latch[w] \ latch[w]) \cup {}, to)
    BY <1>4, StartsAnywhere
<1>7. {} \in SUBSET Nat /\ (\A v \in Writers : v # w => {} \cap latch[v] = {}) /\ (\A k \in {} : k <= Len(pages))
    OBVIOUS
<1> QED BY <1>1, <1>2, <1>4, <1>5, <1>6, <1>7, QuietMove

(* Steps that add pages *)

(* What PageAt says of a page q of height n, wherever it is put.            *)
Fits(h, P, n, q) ==
    /\ q.leaf <=> n = 0
    /\ Counted(q)
    /\ ~q.leaf => \A j \in 1 .. Len(q.slots) : PointsBelow(h, P, n, q.slots[j])

(* Live slots of a page of height n.                                        *)
SlotsFit(h, P, n, leaf, s) ==
    \A k \in 1 .. Len(s) : s[k].end = 0 /\ (~leaf => PointsBelow(h, P, n, s[k]))

LEMMA PointsLift ==
    ASSUME NEW P, NEW Q, NEW h, NEW g, Len(P) \in Nat, Len(Q) \in Nat, Len(P) <= Len(Q), Extends(h, g, P),
           NEW n, NEW e, PointsBelow(h, P, n, e)
    PROVE  PointsBelow(g, Q, n, e)
<1>1. e.ptr \in 1 .. Len(P) /\ n = h[e.ptr] + 1
    BY DEF PointsBelow
<1>2. e.ptr \in 1 .. Len(Q) /\ g[e.ptr] = h[e.ptr]
    BY <1>1 DEF Extends
<1> QED BY <1>1, <1>2 DEF PointsBelow

LEMMA FitsLift ==
    ASSUME NEW P, NEW Q, NEW h, NEW g, Len(P) \in Nat, Len(Q) \in Nat, Len(P) <= Len(Q), Extends(h, g, P),
           NEW n, NEW q, Fits(h, P, n, q)
    PROVE  Fits(g, Q, n, q)
<1>1. ASSUME ~q.leaf, NEW j \in 1 .. Len(q.slots) PROVE PointsBelow(g, Q, n, q.slots[j])
    <2>1. PointsBelow(h, P, n, q.slots[j])
        BY <1>1 DEF Fits
    <2> QED BY <2>1, PointsLift
<1> QED BY <1>1 DEF Fits

(* A page filled with live slots of one height.                             *)
LEMMA CopyFits ==
    ASSUME NEW h, NEW P, NEW n, NEW q, NEW leaf \in BOOLEAN, NEW s, Copies(q, leaf, s),
           SlotsFit(h, P, n, leaf, s), leaf <=> n = 0, leaf => Len(q.slots) <= NumRecords
    PROVE  Fits(h, P, n, q)
<1>1. /\ q \in Page /\ q.leaf = leaf /\ q.live = Len(q.slots) /\ q.dead = 0
      /\ \A k \in 1 .. Len(q.slots) : \E i \in 1 .. Len(s) : q.slots[k] = s[i]
    BY DEF Copies
<1>2. ASSUME NEW k \in 1 .. Len(q.slots)
      PROVE  q.slots[k].end = 0 /\ (~leaf => PointsBelow(h, P, n, q.slots[k]))
    <2>1. PICK i \in 1 .. Len(s) : q.slots[k] = s[i]
        BY <1>1
    <2> QED BY <2>1 DEF SlotsFit
<1>3. Len(q.slots) \in Nat /\ DOMAIN q.slots = 1 .. Len(q.slots)
    BY <1>1, PageTyped
<1>4. Active(q) = 1 .. Len(q.slots)
    BY <1>2, <1>3 DEF Active, IsActive
<1>5. Cardinality(Active(q)) = Len(q.slots)
    BY <1>3, <1>4, FS_Interval
<1>6. Counted(q)
    BY <1>1, <1>3, <1>5 DEF Counted
<1> QED BY <1>1, <1>2, <1>6 DEF Fits

LEMMA LiveSlotsFit ==
    ASSUME NEW h, NEW P, NEW i, P[i] \in Page, PageAt(h, P, i)
    PROVE  SlotsFit(h, P, h[i], P[i].leaf, LiveSlots(P[i]))
<1> DEFINE p == P[i]
           s == LiveSlots(p)
<1> SUFFICES ASSUME NEW k \in 1 .. Len(s)
             PROVE  s[k].end = 0 /\ (~p.leaf => PointsBelow(h, P, h[i], s[k]))
    BY DEF SlotsFit
<1>1. PICK j \in Active(p) : s[k] = p.slots[j]
    BY LiveSlotsFacts
<1>2. j \in 1 .. Len(p.slots) /\ p.slots[j].end = 0
    BY LiveSlotsFacts DEF Active, IsActive
<1> QED BY <1>1, <1>2 DEF PageAt

(* New pages behind the old ones.                                           *)
LEMMA AddedPages ==
    ASSUME NEW P \in Seq(Page), NEW N \in Seq(Page), NEW Q, Q = P \o N, NEW h, Pages(h, P),
           NEW g \in [1 .. Len(P) + Len(N) -> Nat], Extends(h, g, P),
           \A i \in 1 .. Len(N) : Fits(g, Q, g[Len(P) + i], N[i])
    PROVE  /\ Q \in Seq(Page) /\ Len(Q) = Len(P) + Len(N)
           /\ Pages(g, Q) /\ Grown(P, Q)
           /\ \A i \in 1 .. Len(P) : Q[i] = P[i]
<1>1. Len(P) \in Nat /\ Len(N) \in Nat
    OBVIOUS
<1>2. Q \in Seq(Page) /\ Len(Q) = Len(P) + Len(N) /\ Len(Q) \in Nat
    BY <1>1
<1>3. /\ \A i \in 1 .. Len(P) : Q[i] = P[i]
      /\ \A i \in 1 .. Len(N) : Q[Len(P) + i] = N[i]
    BY <1>1
<1>4. Grown(P, Q)
    <2>1. ASSUME NEW i \in 1 .. Len(P) PROVE Len(P[i].slots) <= Len(Q[i].slots)
        <3>1. Len(P[i].slots) \in Nat
            BY PageTyped
        <3> QED BY <1>3, <3>1
    <2> QED BY <1>1, <1>2, <1>3, <2>1 DEF Grown
<1>5. ASSUME NEW i \in 1 .. Len(Q) PROVE PageAt(g, Q, i)
    <2>1. CASE i \in 1 .. Len(P)
        <3>1. Fits(h, P, h[i], P[i])
            BY <2>1 DEF Pages, PageAt, Fits
        <3>2. Fits(g, Q, h[i], P[i])
            <4>1. Len(P) <= Len(Q)
                BY <1>1, <1>2
            <4> QED BY <1>1, <1>2, <3>1, <4>1, FitsLift
        <3>3. Q[i] = P[i] /\ g[i] = h[i]
            BY <1>3, <2>1 DEF Extends
        <3> QED BY <3>2, <3>3 DEF Fits, PageAt
    <2>2. CASE i \notin 1 .. Len(P)
        <3>1. i - Len(P) \in 1 .. Len(N) /\ Len(P) + (i - Len(P)) = i
            BY <1>1, <1>2, <2>2
        <3>2. Fits(g, Q, g[i], Q[i])
            BY <1>3, <3>1
        <3> QED BY <3>2 DEF Fits, PageAt
    <2> QED BY <2>1, <2>2
<1>6. Pages(g, Q)
    BY <1>2, <1>5 DEF Pages
<1> QED BY <1>2, <1>3, <1>4, <1>6

LEMMA ConcatFacts ==
    ASSUME NEW P \in Seq(Page), NEW N \in Seq(Page)
    PROVE  /\ Len(P) \in Nat /\ Len(N) \in Nat /\ Len(P \o N) = Len(P) + Len(N)
           /\ \A i \in 1 .. Len(P) : (P \o N)[i] = P[i]
OBVIOUS

(* The pages N are added, of the heights g.                                 *)
Adds(N, h, g) ==
    /\ N \in Seq(Page) /\ pages' = pages \o N
    /\ g \in [1 .. Len(pages) + Len(N) -> Nat] /\ Extends(h, g, pages)
    /\ \A i \in 1 .. Len(N) : Fits(g, pages', g[Len(pages) + i], N[i])

(* Writer w may go on as `to` with the pages taken.                         *)
MayTake(w, taken) ==
    /\ taken \in SUBSET Nat
    /\ \A v \in Writers : v # w => taken \cap latch[v] = {}
    /\ \A i \in taken : i <= Len(pages)
GoodVersions(w, to) ==
    \A v \in Writers : v # w =>
        /\ to.indexLive => Index \notin latch[v]
        /\ to.currLive => to.curr \notin latch[v]
        /\ to.childLive => to.child \notin latch[v]

(* A step of writer w that draws a version and adds pages.                  *)
LEMMA AddStep ==
    ASSUME TreeInv, NEW w \in Writers, NEW to \in Writer, NEW taken, MayTake(w, taken),
           Move(w, to, taken, {}), roots' = roots, load' = load, clock' = clock + 1,
           NEW N, NEW h, Heights(h), NEW g, Adds(N, h, g), GoodVersions(w, to),
           WriterAt(g, pages', latch[w] \cup taken, to)
    PROVE  TreeInv'
<1>0. /\ N \in Seq(Page) /\ pages' = pages \o N
      /\ g \in [1 .. Len(pages) + Len(N) -> Nat] /\ Extends(h, g, pages)
      /\ \A i \in 1 .. Len(N) : Fits(g, pages', g[Len(pages) + i], N[i])
      /\ taken \in SUBSET Nat
      /\ \A v \in Writers : v # w => taken \cap latch[v] = {}
      /\ \A i \in taken : i <= Len(pages)
    BY DEF Adds, MayTake
<1>1. TypeInv /\ Latching
    BY DEF TreeInv
<1>2. /\ wr' \in [Writers -> Writer] /\ latch' \in [Writers -> SUBSET Nat]
      /\ wr'[w] = to /\ latch'[w] = (latch[w] \ {}) \cup taken
      /\ Others(w, taken)
    BY <1>0, <1>1, MoveFacts
<1>3. pages \in Seq(Page) /\ Pages(h, pages)
    BY <1>1 DEF TypeInv, Heights
<1>4. /\ pages' \in Seq(Page) /\ Len(pages') = Len(pages) + Len(N)
      /\ Pages(g, pages') /\ Grown(pages, pages')
      /\ \A i \in 1 .. Len(pages) : pages'[i] = pages[i]
    <2> DEFINE Q == pages'
    <2>1. Q = pages \o N /\ \A i \in 1 .. Len(N) : Fits(g, Q, g[Len(pages) + i], N[i])
        BY <1>0
    <2> HIDE DEF Q
    <2>2. /\ Q \in Seq(Page) /\ Len(Q) = Len(pages) + Len(N)
          /\ Pages(g, Q) /\ Grown(pages, Q)
          /\ \A i \in 1 .. Len(pages) : Q[i] = pages[i]
        <3>1. N \in Seq(Page) /\ g \in [1 .. Len(pages) + Len(N) -> Nat] /\ Extends(h, g, pages)
            BY <1>0
        <3> QED BY ONLY <1>3, <2>1, <3>1, AddedPages
    <2> QED BY <2>2 DEF Q
<1>5. Len(pages) \in Nat /\ Len(N) \in Nat /\ Len(pages) <= Len(pages')
    BY <1>0, <1>3, <1>4
<1>6. TypeInv'
    <2>1. roots' = roots /\ \A i \in 1 .. Len(roots) : roots[i].page \in 1 .. Len(pages')
        <3>1. \A i \in 1 .. Len(roots) : roots[i].page \in 1 .. Len(pages)
            BY <1>1 DEF TypeInv
        <3>2. 1 .. Len(pages) \subseteq 1 .. Len(pages')
            BY <1>4, <1>5
        <3> QED BY <3>1, <3>2
    <2>2. clock' \in Nat /\ clock' >= 1 /\ Len(pages') >= 1
        BY <1>1, <1>5 DEF TypeInv
    <2> QED BY <1>1, <1>2, <1>4, <2>1, <2>2 DEF TypeInv
<1>7. WriterAt(g, pages', latch'[w], wr'[w])
    <2>1. latch'[w] = latch[w] \cup taken
        BY <1>2
    <2> QED BY <1>2, <2>1
<1>8. \A i \in taken : i <= Len(pages')
    BY <1>0, <1>1, <1>5 DEF TypeInv
<1>9. \A v \in Writers : v # w =>
              /\ wr'[w].indexLive => Index \notin latch[v]
              /\ wr'[w].currLive => wr'[w].curr \notin latch[v]
              /\ wr'[w].childLive => wr'[w].child \notin latch[v]
    BY <1>2 DEF GoodVersions
<1>10. \A i \in 1 .. Len(pages) : i \notin latch[w] => pages'[i] = pages[i]
    BY <1>4
<1>11. Latching' /\ Heights(g)'
    BY <1>0, <1>1, <1>2, <1>4, <1>6, <1>7, <1>8, <1>9, <1>10, StepFacts
<1> QED BY <1>6, <1>11 DEF TreeInv

(* The entries for the new pages.                                           *)
LEMMA NewSlotsFacts ==
    ASSUME NEW parts \in Seq(Part), Len(parts) \in {1, 2}, TypeInv
    PROVE  /\ NewSlots(parts, clock) \in Seq(Slot) /\ Len(NewSlots(parts, clock)) = Len(parts)
           /\ \A i \in 1 .. Len(parts) : NewSlots(parts, clock)[i].end = 0 /\ NewSlots(parts, clock)[i].ptr = Len(pages) + i
           /\ NewPages(parts) \in Seq(Page) /\ Len(NewPages(parts)) = Len(parts)
           /\ \A i \in 1 .. Len(parts) : NewPages(parts)[i] = parts[i].page
<1>1. Len(parts) \in Nat /\ Len(pages) \in Nat /\ clock \in Int
    BY DEF TypeInv
<1>2. \A i \in 1 .. Len(parts) : parts[i] \in Part
    OBVIOUS
<1>3. \A i \in 1 .. Len(parts) : parts[i].lo \in Int /\ parts[i].hi \in Int /\ parts[i].page \in Page
    BY <1>2 DEF Part
<1> DEFINE new(i) == [lo |-> parts[i].lo, hi |-> parts[i].hi, ver |-> clock, end |-> 0, ptr |-> Len(pages) + i]
<1>4. \A i \in 1 .. Len(parts) : new(i) \in Slot /\ new(i).end = 0 /\ new(i).ptr = Len(pages) + i
    BY <1>1, <1>3 DEF Slot
<1>5. NewSlots(parts, clock) = [i \in 1 .. Len(parts) |-> new(i)]
    BY DEF NewSlots
<1>6. NewPages(parts) = [i \in 1 .. Len(parts) |-> parts[i].page]
    BY DEF NewPages
<1> HIDE DEF new
<1>7. NewSlots(parts, clock) \in Seq(Slot) /\ Len(NewSlots(parts, clock)) = Len(parts)
    BY <1>1, <1>4, <1>5
<1>8. NewPages(parts) \in Seq(Page) /\ Len(NewPages(parts)) = Len(parts)
    BY <1>1, <1>3, <1>6
<1> QED BY <1>4, <1>5, <1>6, <1>7, <1>8

(* The copies and the entries for them have the heights they should.        *)
LEMMA PartsFit ==
    ASSUME TypeInv, NEW h, Heights(h), NEW parts, NEW leaf \in BOOLEAN, NEW s, Reorganized(parts, leaf, s),
           NEW n \in Nat, leaf <=> n = 0, SlotsFit(h, pages, n, leaf, s),
           leaf => \A i \in 1 .. Len(parts) : Len(parts[i].page.slots) <= NumRecords,
           NEW Q, Len(Q) \in Nat, Len(Q) >= Len(pages) + Len(parts), NEW g, Extends(h, g, pages),
           \A i \in 1 .. Len(parts) : g[Len(pages) + i] = n
    PROVE  \A i \in 1 .. Len(parts) :
              /\ Fits(g, Q, n, parts[i].page)
              /\ NewSlots(parts, clock)[i].end = 0 /\ PointsBelow(g, Q, n + 1, NewSlots(parts, clock)[i])
<1> SUFFICES ASSUME NEW i \in 1 .. Len(parts)
             PROVE  /\ Fits(g, Q, n, parts[i].page)
                    /\ NewSlots(parts, clock)[i].end = 0 /\ PointsBelow(g, Q, n + 1, NewSlots(parts, clock)[i])
    OBVIOUS
<1>1. /\ parts \in Seq(Part) /\ Len(parts) \in {1, 2}
      /\ Copies(parts[i].page, leaf, s)
    BY DEF Reorganized
<1>2. Len(pages) \in Nat /\ Len(parts) \in Nat /\ Len(pages) <= Len(Q) /\ Len(pages) + i \in 1 .. Len(Q)
    <2>1. Len(pages) \in Nat
        BY DEF TypeInv
    <2> QED BY <1>1, <2>1
<1>3. Fits(h, pages, n, parts[i].page)
    BY <1>1, CopyFits
<1>4. Fits(g, Q, n, parts[i].page)
    BY <1>2, <1>3, FitsLift
<1>5. NewSlots(parts, clock)[i].end = 0 /\ NewSlots(parts, clock)[i].ptr = Len(pages) + i
    BY <1>1, NewSlotsFacts
<1>6. PointsBelow(g, Q, n + 1, NewSlots(parts, clock)[i])
    BY <1>2, <1>5 DEF PointsBelow
<1> QED BY <1>4, <1>5, <1>6

(* The first step of a reorganization below a latched index page.           *)
LEMMA StartSmoStep ==
    ASSUME TreeInv, NEW w \in Writers, NEW h, Heights(h), wr[w].pc \in {"overflow", "underflow"},
           NEW parts, NEW leaf \in BOOLEAN, NEW s, Reorganized(parts, leaf, s),
           NEW n \in Nat, h[wr[w].curr] = n + 1, leaf <=> n = 0, SlotsFit(h, pages, n, leaf, s),
           leaf => \A i \in 1 .. Len(parts) : Len(parts[i].page.slots) <= NumRecords,
           NEW gone \in SUBSET (1 .. Len(pages[wr[w].curr].slots)), NEW taken, MayTake(w, taken),
           StartSmo(w, parts, gone, taken)
    PROVE  TreeInv'
<1> DEFINE me == wr[w]
           N == NewPages(parts)
           new == NewSlots(parts, clock)
           to == [me EXCEPT !.pc = "publish", !.parts = new, !.dead = gone, !.ver = clock]
           g == [i \in 1 .. Len(pages) + Len(N) |-> IF i <= Len(pages) THEN h[i] ELSE n]
<1>1. TypeInv /\ Latching
    BY DEF TreeInv
<1>2. /\ pages' = pages \o N /\ clock' = clock + 1 /\ UNCHANGED <<roots, load>>
      /\ Move(w, to, taken, {})
    BY DEF StartSmo, StartTxCommit, writerRest
<1>3. parts \in Seq(Part) /\ Len(parts) \in {1, 2}
    BY DEF Reorganized
<1>4. /\ new \in Seq(Slot) /\ Len(new) = Len(parts)
      /\ N \in Seq(Page) /\ Len(N) = Len(parts)
      /\ \A i \in 1 .. Len(parts) : N[i] = parts[i].page
    BY <1>1, <1>3, NewSlotsFacts
<1>5. pages \in Seq(Page) /\ Len(pages) \in Nat /\ h \in [1 .. Len(pages) -> Nat] /\ Len(parts) \in Nat /\ clock \in Int
    <2>1. pages \in Seq(Page) /\ clock \in Int
        BY <1>1 DEF TypeInv
    <2> QED BY <1>3, <2>1 DEF Heights, Pages
<1>6. /\ WriterAt(h, pages, latch[w], me) /\ me.curr \in 1 .. Len(pages) /\ pages[me.curr] \in Page
      /\ Len(pages[me.curr].slots) \in Nat
    BY <1>1, PlaceFacts
<1>7. ~pages[me.curr].leaf /\ me.curr \in latch[w]
    BY <1>6 DEF WriterAt
<1> HIDE DEF N, new
<1>8. /\ g \in [1 .. Len(pages) + Len(N) -> Nat] /\ Extends(h, g, pages)
      /\ \A i \in 1 .. Len(parts) : g[Len(pages) + i] = n
    BY <1>4, <1>5 DEF Extends
<1>9. /\ Len(pages') = Len(pages) + Len(parts) /\ Len(pages') \in Nat
      /\ pages'[me.curr] = pages[me.curr]
    <2>1. pages' = pages \o N /\ N \in Seq(Page) /\ Len(N) = Len(parts) /\ me.curr \in 1 .. Len(pages)
        BY <1>2, <1>4, <1>6
    <2>2. Len(pages \o N) = Len(pages) + Len(N) /\ \A i \in 1 .. Len(pages) : (pages \o N)[i] = pages[i]
        BY <1>5, <2>1, ConcatFacts
    <2> QED BY <1>5, <2>1, <2>2
<1> HIDE DEF g
<1>10. \A i \in 1 .. Len(parts) :
          /\ Fits(g, pages', n, parts[i].page)
          /\ new[i].end = 0 /\ PointsBelow(g, pages', n + 1, new[i])
    <2> DEFINE Q == pages'
    <2>1. Len(Q) \in Nat /\ Len(Q) >= Len(pages) + Len(parts)
        BY <1>5, <1>9
    <2> HIDE DEF Q
    <2>2. \A i \in 1 .. Len(parts) :
              /\ Fits(g, Q, n, parts[i].page)
              /\ NewSlots(parts, clock)[i].end = 0 /\ PointsBelow(g, Q, n + 1, NewSlots(parts, clock)[i])
        BY <1>1, <1>8, <2>1, PartsFit
    <2> QED BY <2>2 DEF Q, new
<1>11. /\ to \in Writer /\ to.pc = "publish" /\ to.curr = me.curr /\ to.child = me.child /\ to.dead = gone /\ to.parts = new
       /\ (to.indexLive <=> me.indexLive) /\ (to.currLive <=> me.currLive) /\ (to.childLive <=> me.childLive)
    <2>1. "publish" \in Places /\ me \in Writer /\ gone \in SUBSET Nat
        BY <1>1, <1>6, WriterFacts DEF Places
    <2> QED BY <1>4, <1>5, <2>1 DEF Writer
<1> HIDE DEF to
<1>12. WriterAt(g, pages', latch[w] \cup taken, to)
    <2>1. me.curr \in 1 .. Len(pages')
        BY <1>5, <1>6, <1>9
    <2>2. g[me.curr] = n + 1
        BY <1>6, <1>8 DEF Extends
    <2>3. \A i \in 1 .. Len(to.parts) : to.parts[i].end = 0 /\ PointsBelow(g, pages', g[to.curr], to.parts[i])
        BY <1>4, <1>10, <1>11, <2>2
    <2> QED BY <1>7, <1>9, <1>11, <2>1, <2>3 DEF WriterAt
<1>13. \A i \in 1 .. Len(N) : Fits(g, pages', g[Len(pages) + i], N[i])
    BY <1>4, <1>8, <1>10
<1>14. GoodVersions(w, to)
    BY <1>1, <1>11 DEF Latching, GoodVersions
<1>15. Adds(N, h, g)
    BY <1>2, <1>4, <1>8, <1>13 DEF Adds
<1> QED BY <1>2, <1>11, <1>12, <1>14, <1>15, AddStep

(* OnOverflowNode *)
LEMMA OverflowStep ==
    ASSUME TreeInv, NEW w \in Writers, OnOverflowNode(w)
    PROVE  TreeInv'
<1> DEFINE me == wr[w]
           e == pages[me.curr].slots[me.slot]
           c == pages[me.child]
           parts == Split(c, e.lo, e.hi)
<1>1. TypeInv /\ me.pc = "overflow" /\ StartSmo(w, parts, {me.slot}, {})
    BY DEF TreeInv, OnOverflowNode
<1>2. PICK h : Heights(h)
    BY DEF TreeInv
<1>3. /\ WriterAt(h, pages, latch[w], me) /\ me.curr \in 1 .. Len(pages) /\ pages[me.curr] \in Page
    BY <1>1, <1>2, PlaceFacts
<1>4. me.slot \in 1 .. Len(pages[me.curr].slots)
    BY <1>1, <1>3 DEF WriterAt
<1>5. e.lo \in Int /\ e.hi \in Int
    <2>1. e \in Slot
        BY <1>3, <1>4, PageTyped
    <2> QED BY <2>1 DEF Slot
<1>6. /\ me.child \in 1 .. Len(pages) /\ c \in Page /\ PageAt(h, pages, me.child)
      /\ h[me.curr] = h[me.child] + 1
    BY <1>1, <1>2, ChildFacts
<1>7. h[me.child] \in Nat
    BY <1>2, <1>6 DEF Heights, Pages
<1>8. /\ c.leaf <=> h[me.child] = 0
      /\ c.live <= Cardinality(Active(c))
      /\ c.leaf => Cardinality(Active(c)) <= NumRecords
    <2>1. (c.leaf <=> h[me.child] = 0) /\ Counted(c)
        BY <1>6 DEF PageAt
    <2>2. Cardinality(Active(c)) \in Nat /\ Cardinality(Active(c)) <= Len(c.slots) /\ Len(c.slots) \in Nat
        BY <1>6, LiveSlotsFacts, PageTyped
    <2>3. NumRecords \in Nat
        BY TreeAssumption
    <2> QED BY <2>1, <2>2, <2>3 DEF Counted
<1> HIDE DEF e
<1>9. /\ Reorganized(parts, c.leaf, LiveSlots(c))
      /\ \A i \in 1 .. Len(parts) : Len(parts[i].page.slots) <= Cardinality(Active(c))
    BY <1>5, <1>6, <1>8, SplitFacts
<1>10. c.leaf => \A i \in 1 .. Len(parts) : Len(parts[i].page.slots) <= NumRecords
    <2> SUFFICES ASSUME c.leaf, NEW i \in 1 .. Len(parts) PROVE Len(parts[i].page.slots) <= NumRecords
        OBVIOUS
    <2>1. Copies(parts[i].page, c.leaf, LiveSlots(c))
        BY <1>9 DEF Reorganized
    <2>2. Len(parts[i].page.slots) \in Nat
        BY <2>1, PageTyped DEF Copies
    <2>3. Cardinality(Active(c)) \in Nat /\ NumRecords \in Nat
        BY <1>6, LiveSlotsFacts, TreeAssumption
    <2> QED BY <1>8, <1>9, <2>2, <2>3
<1>11. SlotsFit(h, pages, h[me.child], c.leaf, LiveSlots(c)) /\ c.leaf \in BOOLEAN
    BY <1>6, LiveSlotsFit, PageTyped
<1> HIDE DEF parts
<1>12. {me.slot} \in SUBSET (1 .. Len(pages[me.curr].slots)) /\ MayTake(w, {})
    BY <1>4 DEF MayTake
<1> QED BY <1>1, <1>2, <1>6, <1>7, <1>8, <1>9, <1>10, <1>11, <1>12, StartSmoStep

(* The sibling is another live slot of the page.                            *)
LEMMA CandidateFacts ==
    ASSUME NEW p \in Page, NEW i \in 1 .. Len(p.slots)
    PROVE  Candidate(p, i) = 0 \/ (Candidate(p, i) \in 1 .. Len(p.slots) /\ Candidate(p, i) # i)
<1> DEFINE others == {j \in 1 .. Len(p.slots) : j # i /\ IsActive(p.slots[j])}
           after  == {j \in others : p.slots[j].lo >= p.slots[i].lo}
           from   == IF after # {} THEN after ELSE others
           up     == [j \in from |-> p.slots[j].lo]
           down   == [j \in from |-> 0 - p.slots[j].lo]
           Best(j) == \A k \in from : IF after # {} THEN p.slots[j].lo <= p.slots[k].lo
                                                    ELSE p.slots[j].lo >= p.slots[k].lo
<1>1. Len(p.slots) \in Nat /\ \A j \in 1 .. Len(p.slots) : p.slots[j] \in Slot
    BY PageTyped
<1>2. \A j \in 1 .. Len(p.slots) : p.slots[j].lo \in Int
    BY <1>1 DEF Slot
<1>3. from \in SUBSET others /\ others \in SUBSET (1 .. Len(p.slots)) /\ (others # {} => from # {})
    OBVIOUS
<1>4. Candidate(p, i) = IF others = {} THEN 0 ELSE CHOOSE j \in from : Best(j)
    BY DEF Candidate
<1>5. ASSUME others # {} PROVE \E j \in from : Best(j)
    <2> HIDE DEF others, after, from
    <2>1. IsFiniteSet(from) /\ from \in SUBSET Int /\ from # {} /\ from \in SUBSET (1 .. Len(p.slots))
        <3>1. IsFiniteSet(1 .. Len(p.slots))
            BY <1>1, FS_Interval
        <3>2. from \in SUBSET (1 .. Len(p.slots))
            BY <1>3
        <3>3. IsFiniteSet(from)
            BY <3>1, <3>2, FS_Subset
        <3> QED BY <1>1, <1>3, <1>5, <3>2, <3>3
    <2>2. \A j \in from : up[j] = p.slots[j].lo /\ down[j] = 0 - p.slots[j].lo /\ p.slots[j].lo \in Int
        BY <1>2, <2>1
    <2>3. (\A j \in from : up[j] \in Int) /\ (\A j \in from : down[j] \in Int)
        BY <2>2
    <2> HIDE DEF up, down
    <2>4. PICK a \in from : \A k \in from : up[a] <= up[k]
        BY <2>1, <2>3, LeastFacts
    <2>5. PICK b \in from : \A k \in from : down[b] <= down[k]
        BY <2>1, <2>3, LeastFacts
    <2>6. \A k \in from : p.slots[a].lo <= p.slots[k].lo /\ p.slots[b].lo >= p.slots[k].lo
        BY <2>2, <2>4, <2>5
    <2>7. CASE after # {}
        BY <2>6, <2>7
    <2>8. CASE after = {}
        BY <2>6, <2>8
    <2> QED BY <2>7, <2>8
<1> HIDE DEF Best, from
<1>6. others # {} => Candidate(p, i) \in from
    BY <1>4, <1>5
<1> QED BY <1>3, <1>4, <1>6

(* Two children of one page have one height.                                *)
LEMMA SiblingFacts ==
    ASSUME TypeInv, NEW h, Heights(h), NEW w \in Writers, wr[w].pc = "underflow",
           NEW c \in 1 .. Len(pages[wr[w].curr].slots)
    PROVE  LET d == pages[wr[w].curr].slots[c].ptr
           IN  d \in 1 .. Len(pages) /\ pages[d] \in Page /\ PageAt(h, pages, d) /\ h[d] = h[wr[w].child]
<1> DEFINE me == wr[w]
           p == pages[me.curr]
           d == p.slots[c].ptr
<1>1. /\ WriterAt(h, pages, latch[w], me) /\ me.curr \in 1 .. Len(pages) /\ PageAt(h, pages, me.curr)
    BY PlaceFacts
<1>2. ~p.leaf
    BY <1>1 DEF WriterAt
<1>3. PointsBelow(h, pages, h[me.curr], p.slots[c])
    BY <1>1, <1>2 DEF PageAt
<1>4. d \in 1 .. Len(pages) /\ h[me.curr] = h[d] + 1
    BY <1>3 DEF PointsBelow
<1> HIDE DEF d
<1>5. pages[d] \in Page /\ PageAt(h, pages, d)
    BY <1>4 DEF TypeInv, Heights, Pages
<1>6. h[me.curr] = h[me.child] + 1 /\ me.child \in 1 .. Len(pages)
    BY ChildFacts
<1>7. h[d] \in Nat /\ h[me.child] \in Nat
    BY <1>4, <1>6 DEF Heights, Pages
<1>8. h[d] = h[me.child]
    BY <1>4, <1>6, <1>7
<1> QED BY <1>4, <1>5, <1>8 DEF d

(* A child and its sibling: what they count and the slots they keep.        *)
LEMMA CountedFacts ==
    ASSUME NEW p \in Page, Counted(p)
    PROVE  /\ p.live <= Cardinality(Active(p)) /\ Cardinality(Active(p)) \in Nat
           /\ p.leaf => Cardinality(Active(p)) <= NumRecords /\ p.live = Cardinality(Active(p))
<1>1. Cardinality(Active(p)) \in Nat /\ Cardinality(Active(p)) <= Len(p.slots) /\ Len(p.slots) \in Nat
    BY LiveSlotsFacts, PageTyped
<1>2. NumRecords \in Nat /\ p.leaf \in BOOLEAN /\ p.live \in Int
    BY TreeAssumption, PageTyped
<1> QED BY <1>1, <1>2 DEF Counted

(* Merged or dealt out anew, the records of two leaves fit.                 *)
LEMMA MergedLeaves ==
    ASSUME NEW c \in Page, NEW d \in Page, NEW e \in Slot, NEW f \in Slot, Counted(c), Counted(d), c.leaf, d.leaf
    PROVE  \A i \in 1 .. Len(Merge(c, d, e, f)) : Len(Merge(c, d, e, f)[i].page.slots) <= NumRecords
<1> DEFINE parts == Merge(c, d, e, f)
           a == Cardinality(Active(c))
           b == Cardinality(Active(d))
           n == a + b
<1>1. /\ a \in Nat /\ a <= NumRecords /\ c.live = a
      /\ b \in Nat /\ b <= NumRecords /\ d.live = b
    BY CountedFacts
<1>2. c.live <= a /\ d.live <= b
    BY <1>1
<1>3. /\ Reorganized(parts, c.leaf, LiveSlots(c) \o LiveSlots(d))
      /\ Len(parts) = IF c.live + d.live <= (4 * MaxUnits(c)) \div 5 THEN 1 ELSE 2
      /\ Len(parts) = 1 => Len(parts[1].page.slots) = n
      /\ Len(parts) = 2 => Len(parts[1].page.slots) = n \div 2 /\ Len(parts[2].page.slots) = n - n \div 2
    BY <1>2, MergeFacts
<1>4. MaxUnits(c) = NumRecords /\ (4 * MaxUnits(c)) \div 5 \in Nat /\ (4 * MaxUnits(c)) \div 5 <= MaxUnits(c) /\ NumRecords \in Nat
    BY UnitsFacts, TreeAssumption DEF MaxUnits
<1> HIDE DEF parts, a, b
<1>5. CASE Len(parts) = 1
    <2>1. c.live + d.live <= (4 * MaxUnits(c)) \div 5
        BY <1>3, <1>5
    <2>2. n <= NumRecords
        BY <1>1, <1>4, <2>1
    <2>3. \A i \in 1 .. Len(parts) : i = 1
        BY <1>5
    <2> QED BY <1>3, <1>5, <2>2, <2>3 DEF parts
<1>6. CASE Len(parts) = 2
    <2>1. n \div 2 <= NumRecords /\ n - n \div 2 <= NumRecords
        BY <1>1, <1>4
    <2>2. \A i \in 1 .. Len(parts) : i = 1 \/ i = 2
        BY <1>6
    <2> QED BY <1>3, <1>6, <2>1, <2>2 DEF parts
<1> QED BY <1>3, <1>5, <1>6

(* OnUnderflowNode *)
LEMMA UnderflowStep ==
    ASSUME TreeInv, NEW w \in Writers, OnUnderflowNode(w)
    PROVE  TreeInv'
<1> DEFINE me == wr[w]
           p == pages[me.curr]
           k == Candidate(p, me.slot)
           y == p.slots[k].ptr
           c == pages[me.child]
           d == pages[y]
           e == p.slots[me.slot]
           f == p.slots[k]
           parts == Merge(c, d, e, f)
<1>1. TypeInv /\ Latching /\ me.pc = "underflow"
    BY DEF TreeInv, OnUnderflowNode
<1>2. CASE Retry(w) /\ UNCHANGED <<writerRest, treeVars>>
    BY <1>2, RetryStep
<1>3. CASE k # 0 /\ Unlatched(y) /\ StartSmo(w, parts, {me.slot, k}, {y})
    <2>1. PICK h : Heights(h)
        BY DEF TreeInv
    <2>2. /\ WriterAt(h, pages, latch[w], me) /\ me.curr \in 1 .. Len(pages) /\ p \in Page
        BY <1>1, <2>1, PlaceFacts
    <2>3. me.slot \in 1 .. Len(p.slots)
        BY <1>1, <2>2 DEF WriterAt
    <2>4. k \in 1 .. Len(p.slots)
        BY <1>3, <2>2, <2>3, CandidateFacts
    <2>5. e \in Slot /\ f \in Slot
        BY <2>2, <2>3, <2>4, PageTyped
    <2>6. /\ me.child \in 1 .. Len(pages) /\ c \in Page /\ PageAt(h, pages, me.child)
          /\ h[me.curr] = h[me.child] + 1
        BY <1>1, <2>1, ChildFacts
    <2> HIDE DEF k
    <2>7. y \in 1 .. Len(pages) /\ d \in Page /\ PageAt(h, pages, y) /\ h[y] = h[me.child]
        BY <1>1, <2>1, <2>4, SiblingFacts
    <2> DEFINE n == h[me.child]
    <2>8. n \in Nat
        BY <2>1, <2>6 DEF Heights, Pages
    <2>9. (c.leaf <=> n = 0) /\ (d.leaf <=> n = 0) /\ Counted(c) /\ Counted(d) /\ c.leaf \in BOOLEAN /\ d.leaf \in BOOLEAN
        BY <2>6, <2>7, PageTyped DEF PageAt
    <2>10. c.live <= Cardinality(Active(c)) /\ d.live <= Cardinality(Active(d))
        BY <2>6, <2>7, <2>9, CountedFacts
    <2> DEFINE s == LiveSlots(c) \o LiveSlots(d)
    <2> HIDE DEF y, c, d, e, f
    <2>11. Reorganized(parts, c.leaf, s)
        BY <2>5, <2>6, <2>7, <2>10, MergeFacts
    <2>12. c.leaf => \A i \in 1 .. Len(parts) : Len(parts[i].page.slots) <= NumRecords
        BY <2>5, <2>6, <2>7, <2>9, MergedLeaves
    <2>13. SlotsFit(h, pages, n, c.leaf, s)
        <3>1. SlotsFit(h, pages, h[me.child], pages[me.child].leaf, LiveSlots(pages[me.child]))
            BY <2>6, LiveSlotsFit DEF c
        <3>2. SlotsFit(h, pages, h[y], pages[y].leaf, LiveSlots(pages[y]))
            BY <2>7, LiveSlotsFit DEF d
        <3>3. SlotsFit(h, pages, n, c.leaf, LiveSlots(c)) /\ SlotsFit(h, pages, n, c.leaf, LiveSlots(d))
            BY <2>7, <2>9, <3>1, <3>2 DEF c, d
        <3> DEFINE A == LiveSlots(c)
                   B == LiveSlots(d)
        <3>4. A \in Seq(Slot) /\ B \in Seq(Slot)
            BY <2>6, <2>7, LiveSlotsFacts
        <3>5. s = A \o B /\ SlotsFit(h, pages, n, c.leaf, A) /\ SlotsFit(h, pages, n, c.leaf, B)
            BY <3>3
        <3> HIDE DEF A, B, s, n
        <3>6. ASSUME NEW i \in 1 .. Len(s) PROVE (\E j \in 1 .. Len(A) : s[i] = A[j]) \/ (\E j \in 1 .. Len(B) : s[i] = B[j])
            <4>1. Len(A) \in Nat /\ Len(B) \in Nat /\ Len(s) = Len(A) + Len(B)
                BY <3>4, <3>5
            <4>2. CASE i <= Len(A)
                BY <3>4, <3>5, <4>1, <4>2
            <4>3. CASE ~(i <= Len(A))
                <5>1. i - Len(A) \in 1 .. Len(B) /\ s[i] = B[i - Len(A)]
                    BY <3>4, <3>5, <4>1, <4>3
                <5> QED BY <5>1
            <4> QED BY <4>2, <4>3
        <3> SUFFICES ASSUME NEW i \in 1 .. Len(s)
                     PROVE  s[i].end = 0 /\ (~c.leaf => PointsBelow(h, pages, n, s[i]))
            BY DEF SlotsFit
        <3>7. CASE \E j \in 1 .. Len(A) : s[i] = A[j]
            BY <3>5, <3>7 DEF SlotsFit
        <3>8. CASE \E j \in 1 .. Len(B) : s[i] = B[j]
            BY <3>5, <3>8 DEF SlotsFit
        <3> QED BY <3>6, <3>7, <3>8
    <2>14. MayTake(w, {y})
        <3>1. \A v \in Writers : y \notin latch[v]
            BY <1>3, UnlatchedFacts
        <3>2. y \in Nat /\ y <= Len(pages)
            BY <1>1, <2>7 DEF TypeInv
        <3> QED BY <3>1, <3>2 DEF MayTake
    <2>15. {me.slot, k} \in SUBSET (1 .. Len(p.slots))
        BY <2>3, <2>4
    <2> HIDE DEF parts, s
    <2> QED BY <1>1, <1>3, <2>1, <2>6, <2>8, <2>9, <2>11, <2>12, <2>13, <2>14, <2>15, StartSmoStep
<1> QED BY <1>2, <1>3 DEF OnUnderflowNode

(* A root that is copied into one page leaves room in it.                   *)
LEMMA RootCopyFacts ==
    ASSUME NEW p \in Page, Counted(p)
    PROVE  LET parts == Split(p, MinKey, MaxKey)
           IN  /\ Reorganized(parts, p.leaf, LiveSlots(p))
               /\ p.leaf => \A i \in 1 .. Len(parts) : Len(parts[i].page.slots) <= NumRecords
               /\ (p.leaf /\ Len(parts) = 1) => HasRoom(parts[1].page)
<1> DEFINE parts == Split(p, MinKey, MaxKey)
           c == Cardinality(Active(p))
<1>1. MinKey \in Int /\ MaxKey \in Int /\ NumRecords \in Nat
    BY TreeAssumption
<1>2. p.live <= c /\ c \in Nat /\ (p.leaf => c <= NumRecords /\ p.live = c)
    BY CountedFacts
<1>3. /\ Reorganized(parts, p.leaf, LiveSlots(p))
      /\ Len(parts) = IF p.live >= Filling80(p) THEN 2 ELSE 1
      /\ \A i \in 1 .. Len(parts) : Len(parts[i].page.slots) <= c
    BY <1>1, <1>2, SplitFacts
<1> HIDE DEF parts, c
<1>4. ASSUME NEW i \in 1 .. Len(parts)
      PROVE  Len(parts[i].page.slots) \in Nat /\ parts[i].page.live = Len(parts[i].page.slots) /\ parts[i].page.dead = 0
    <2>1. Copies(parts[i].page, p.leaf, LiveSlots(p))
        BY <1>3 DEF Reorganized
    <2> QED BY <2>1, PageTyped DEF Copies
<1>5. ASSUME p.leaf, NEW i \in 1 .. Len(parts) PROVE Len(parts[i].page.slots) <= NumRecords
    BY <1>1, <1>2, <1>3, <1>4, <1>5
<1>6. ASSUME p.leaf, Len(parts) = 1 PROVE HasRoom(parts[1].page)
    <2>1. Filling80(p) \in Nat /\ Filling80(p) <= NumRecords
        BY <1>6, UnitsFacts DEF MaxUnits
    <2>2. ~(p.live >= Filling80(p)) /\ 1 \in 1 .. Len(parts)
        BY <1>3, <1>6
    <2>3. Len(parts[1].page.slots) < NumRecords
        BY <1>1, <1>2, <1>3, <1>4, <1>6, <2>1, <2>2
    <2> QED BY <1>4, <2>2, <2>3 DEF HasRoom
<1> QED BY <1>3, <1>5, <1>6 DEF parts

(* The root above two halves.                                               *)
LEMMA NewRootFits ==
    ASSUME NEW g, NEW Q, NEW n \in Nat, NEW new \in Seq(Slot),
           \A i \in 1 .. Len(new) : new[i].end = 0 /\ PointsBelow(g, Q, n + 1, new[i])
    PROVE  BulkPush(FALSE, new) \in Page /\ Fits(g, Q, n + 1, BulkPush(FALSE, new)) /\ ~BulkPush(FALSE, new).leaf
<1>1. Copies(BulkPush(FALSE, new), FALSE, new)
    BY BulkPushFacts
<1>2. SlotsFit(g, Q, n + 1, FALSE, new)
    BY DEF SlotsFit
<1>3. FALSE <=> n + 1 = 0
    OBVIOUS
<1>4. Fits(g, Q, n + 1, BulkPush(FALSE, new))
    BY <1>1, <1>2, <1>3, CopyFits
<1>5. ~BulkPush(FALSE, new).leaf
    BY DEF BulkPush
<1> QED BY <1>1, <1>4, <1>5 DEF Copies

LEMMA PushPage ==
    ASSUME NEW P \in Seq(Page), NEW r \in Page
    PROVE  /\ P \o << r >> \in Seq(Page) /\ Len(P \o << r >>) = Len(P) + 1
           /\ (P \o << r >>)[Len(P) + 1] = r
           /\ \A i \in 1 .. Len(P) : (P \o << r >>)[i] = P[i]
OBVIOUS

LEMMA CopyRootStep ==
    ASSUME TreeInv, NEW w \in Writers, NEW p \in 1 .. Len(pages), NEW taken, MayTake(w, taken), CopyRoot(w, p, taken)
    PROVE  TreeInv'
<1> DEFINE me == wr[w]
           parts == Split(pages[p], MinKey, MaxKey)
           fresh == NewPages(parts)
           new == NewSlots(parts, clock)
           N == IF Len(parts) = 1 THEN fresh ELSE fresh \o << BulkPush(FALSE, new) >>
           to == [me EXCEPT !.pc = "append", !.curr = Len(pages \o N), !.currLive = TRUE,
                            !.child = p, !.childLive = FALSE, !.ver = clock, !.slot = Len(parts) - 1]
<1>1. TypeInv /\ Latching
    BY DEF TreeInv
<1>2. PICK h : Heights(h)
    BY DEF TreeInv
<1> DEFINE n == h[p]
           m == Len(pages)
           g == [i \in 1 .. m + Len(N) |-> IF i <= m THEN h[i] ELSE IF i <= m + Len(parts) THEN n ELSE n + 1]
<1>3. pages' = pages \o N /\ clock' = clock + 1 /\ roots' = roots /\ load' = load /\ Move(w, to, taken, {})
    BY DEF CopyRoot, StartTxCommit, writerRest
<1>4. /\ pages \in Seq(Page) /\ m \in Nat /\ h \in [1 .. m -> Nat] /\ clock \in Int
      /\ pages[p] \in Page /\ PageAt(h, pages, p) /\ n \in Nat
    <2>1. pages \in Seq(Page) /\ clock \in Int
        BY <1>1 DEF TypeInv
    <2>2. h \in [1 .. m -> Nat] /\ PageAt(h, pages, p)
        BY <1>2 DEF Heights, Pages
    <2> QED BY <2>1, <2>2
<1>5. Counted(pages[p]) /\ (pages[p].leaf <=> n = 0) /\ pages[p].leaf \in BOOLEAN
    BY <1>4, PageTyped DEF PageAt
<1>6. /\ Reorganized(parts, pages[p].leaf, LiveSlots(pages[p]))
      /\ pages[p].leaf => \A i \in 1 .. Len(parts) : Len(parts[i].page.slots) <= NumRecords
      /\ (pages[p].leaf /\ Len(parts) = 1) => HasRoom(parts[1].page)
    BY <1>4, <1>5, RootCopyFacts
<1> HIDE DEF parts, n
<1>7. parts \in Seq(Part) /\ Len(parts) \in {1, 2} /\ Len(parts) \in Nat
    BY <1>6 DEF Reorganized
<1>8. /\ new \in Seq(Slot) /\ Len(new) = Len(parts)
      /\ fresh \in Seq(Page) /\ Len(fresh) = Len(parts)
      /\ \A i \in 1 .. Len(parts) : fresh[i] = parts[i].page
    BY <1>1, <1>7, NewSlotsFacts
<1>9. SlotsFit(h, pages, n, pages[p].leaf, LiveSlots(pages[p]))
    BY <1>4, LiveSlotsFit DEF n
<1> DEFINE r == BulkPush(FALSE, new)
<1>10. r \in Page
    BY <1>8, BulkPushFacts DEF Copies
<1> HIDE DEF fresh, r
<1>11. /\ N \in Seq(Page) /\ Len(N) \in Nat
       /\ \A i \in 1 .. Len(parts) : N[i] = parts[i].page
       /\ Len(parts) = 1 => Len(N) = 1
       /\ Len(parts) = 2 => Len(N) = 3 /\ N[3] = r
    <2>1. CASE Len(parts) = 1
        BY <1>8, <2>1
    <2>2. CASE Len(parts) = 2
        <3>1. N = fresh \o << r >>
            BY <2>2 DEF r
        <3> HIDE DEF N
        <3>2. /\ N \in Seq(Page) /\ Len(N) = Len(fresh) + 1 /\ N[Len(fresh) + 1] = r
              /\ \A i \in 1 .. Len(fresh) : N[i] = fresh[i]
            BY <1>8, <1>10, <3>1, PushPage
        <3>3. Len(fresh) + 1 = 3
            BY <1>8, <2>2
        <3>4. Len(N) = 3 /\ N[3] = r
            BY <3>2, <3>3
        <3>5. \A i \in 1 .. Len(parts) : N[i] = parts[i].page
            BY <1>8, <3>2
        <3>6. Len(N) \in Nat
            BY <3>4
        <3> QED BY <2>2, <3>2, <3>4, <3>5, <3>6
    <2> QED BY <1>7, <2>1, <2>2
<1> HIDE DEF N, new
<1>12. Len(parts) <= Len(N) /\ Len(N) >= 1
    BY <1>7, <1>11
<1>13. /\ g \in [1 .. m + Len(N) -> Nat] /\ Extends(h, g, pages)
       /\ \A i \in 1 .. Len(parts) : g[m + i] = n
       /\ Len(parts) = 2 => g[m + 3] = n + 1
    <2> HIDE DEF m
    <2>1. \A i \in 1 .. m + Len(N) : g[i] = IF i <= m THEN h[i] ELSE IF i <= m + Len(parts) THEN n ELSE n + 1
        OBVIOUS
    <2>2. DOMAIN g = 1 .. m + Len(N) /\ g = [i \in 1 .. m + Len(N) |-> g[i]]
        OBVIOUS
    <2> HIDE DEF g
    <2>3. \A i \in 1 .. m : i \in 1 .. m + Len(N) /\ g[i] = h[i]
        BY <1>4, <1>11, <2>1
    <2>4. \A i \in 1 .. Len(parts) : g[m + i] = n
        BY <1>4, <1>7, <1>11, <1>12, <2>1
    <2>5. Len(parts) = 2 => g[m + 3] = n + 1
        <3> SUFFICES ASSUME Len(parts) = 2 PROVE g[m + 3] = n + 1
            OBVIOUS
        <3>1. m + 3 \in 1 .. m + Len(N) /\ ~(m + 3 <= m) /\ ~(m + 3 <= m + Len(parts))
            <4>1. m \in Nat /\ Len(N) = 3 /\ Len(parts) = 2
                BY <1>4, <1>11
            <4>2. m + 3 \in 1 .. m + 3 /\ ~(m + 3 <= m) /\ ~(m + 3 <= m + 2)
                BY <4>1
            <4> QED BY <4>1, <4>2
        <3> QED BY <2>1, <3>1
    <2>6. \A i \in 1 .. m + Len(N) : g[i] \in Nat
        BY <1>4, <1>7, <1>11, <2>1
    <2> QED BY <2>2, <2>3, <2>4, <2>5, <2>6 DEF Extends, m
<1>14. /\ Len(pages \o N) = m + Len(N) /\ Len(pages') = m + Len(N)
       /\ pages'[m + Len(N)] = N[Len(N)]
    BY <1>3, <1>4, <1>11, <1>12
<1> HIDE DEF g
<1>15. \A i \in 1 .. Len(parts) :
          /\ Fits(g, pages', n, parts[i].page)
          /\ new[i].end = 0 /\ PointsBelow(g, pages', n + 1, new[i])
    <2> DEFINE Q == pages'
    <2>1. Len(Q) \in Nat /\ Len(Q) >= m + Len(parts)
        BY <1>4, <1>7, <1>11, <1>12, <1>14
    <2> HIDE DEF Q
    <2>2. \A i \in 1 .. Len(parts) :
              /\ Fits(g, Q, n, parts[i].page)
              /\ NewSlots(parts, clock)[i].end = 0 /\ PointsBelow(g, Q, n + 1, NewSlots(parts, clock)[i])
        BY <1>1, <1>2, <1>4, <1>5, <1>6, <1>9, <1>13, <2>1, PartsFit
    <2> QED BY <2>2 DEF Q, new
<1>16. Fits(g, pages', n + 1, r) /\ ~r.leaf
    BY <1>4, <1>8, <1>15, NewRootFits DEF r
<1>17. Adds(N, h, g)
    <2>1. ASSUME NEW i \in 1 .. Len(N) PROVE Fits(g, pages', g[m + i], N[i])
        <3>1. i \in 1 .. Len(parts) \/ (Len(parts) = 2 /\ i = 3)
            <4>1. CASE Len(parts) = 1
                BY <1>11, <4>1
            <4>2. CASE Len(parts) = 2
                <5>1. i \in 1 .. 3
                    BY <1>11, <4>2
                <5> QED BY <4>2, <5>1
            <4> QED BY <1>7, <4>1, <4>2
        <3> QED BY <1>11, <1>13, <1>15, <1>16, <3>1
    <2> QED BY <1>3, <1>11, <1>13, <2>1 DEF Adds
<1>18. /\ to \in Writer /\ to.pc = "append" /\ to.curr = m + Len(N) /\ to.child = p /\ ~to.childLive
       /\ (to.indexLive <=> me.indexLive)
    <2>1. "append" \in Places /\ me \in Writer /\ p \in Nat /\ m + Len(N) \in Nat /\ Len(parts) - 1 \in Nat
        <3>1. "append" \in Places
            BY DEF Places
        <3>2. me \in Writer
            BY <1>1, WriterFacts
        <3>3. Len(parts) - 1 \in Nat
            BY <1>7
        <3> QED BY <1>4, <1>11, <3>1, <3>2, <3>3
    <2> DEFINE len == Len(pages \o N)
    <2>2. len \in Nat /\ len = m + Len(N)
        BY <1>14, <2>1
    <2>3. to = [me EXCEPT !.pc = "append", !.curr = len, !.currLive = TRUE,
                          !.child = p, !.childLive = FALSE, !.ver = clock, !.slot = Len(parts) - 1]
        OBVIOUS
    <2> HIDE DEF len, to, m
    <2> QED BY <1>4, <2>1, <2>2, <2>3 DEF Writer
<1> HIDE DEF to
<1>19. WriterAt(g, pages', latch[w] \cup taken, to)
    <2>1. to.curr \in 1 .. Len(pages')
        BY <1>4, <1>11, <1>12, <1>14, <1>18
    <2>2. pages'[to.curr].leaf => HasRoom(pages'[to.curr])
        <3>1. CASE Len(parts) = 1
            <4>1. pages'[to.curr] = parts[1].page
                <5>1. Len(N) = 1 /\ 1 \in 1 .. Len(parts)
                    BY <1>11, <3>1
                <5>2. N[Len(N)] = parts[1].page
                    BY <1>11, <5>1
                <5> QED BY <1>14, <1>18, <5>2
            <4>2. Copies(parts[1].page, pages[p].leaf, LiveSlots(pages[p]))
                BY <1>6, <3>1 DEF Reorganized
            <4> QED BY <1>6, <3>1, <4>1, <4>2 DEF Copies
        <3>2. CASE Len(parts) = 2
            <4>1. pages'[to.curr] = r
                BY <1>11, <1>14, <1>18, <3>2
            <4> QED BY <1>16, <4>1
        <3> QED BY <1>7, <3>1, <3>2
    <2> QED BY <1>18, <2>1, <2>2 DEF WriterAt
<1>20. GoodVersions(w, to)
    <2>1. ASSUME NEW v \in Writers PROVE to.curr \notin latch[v]
        <3>1. \A i \in latch[v] : i <= m /\ i \in Nat
            BY <1>1 DEF Latching, TypeInv
        <3>2. ~(m + Len(N) <= m)
            BY <1>4, <1>11, <1>12
        <3> QED BY <1>18, <3>1, <3>2
    <2> QED BY <1>1, <1>18, <2>1 DEF Latching, GoodVersions
<1> QED BY <1>2, <1>3, <1>17, <1>18, <1>19, <1>20, AddStep

LEMMA SplitRootStep ==
    ASSUME TreeInv, NEW w \in Writers, SplitRoot(w)
    PROVE  TreeInv'
<1>1. TypeInv /\ wr[w].pc = "splitRoot" /\ CopyRoot(w, wr[w].curr, {})
    BY DEF TreeInv, SplitRoot
<1>2. PICK h : Heights(h)
    BY DEF TreeInv
<1>3. wr[w].curr \in 1 .. Len(pages)
    BY <1>1, <1>2, PlaceFacts
<1>4. MayTake(w, {})
    BY DEF MayTake
<1> QED BY <1>1, <1>3, <1>4, CopyRootStep

LEMMA MergeRootStep ==
    ASSUME TreeInv, NEW w \in Writers, MergeRoot(w)
    PROVE  TreeInv'
<1> DEFINE me == wr[w]
           p == pages[me.curr]
           only == p.slots[Len(p.slots)].ptr
<1>1. TypeInv /\ me.pc = "mergeRoot"
    BY DEF TreeInv, MergeRoot
<1>2. PICK h : Heights(h)
    BY DEF TreeInv
<1>3. /\ WriterAt(h, pages, latch[w], me) /\ PageAt(h, pages, me.curr) /\ Len(p.slots) \in Nat
    BY <1>1, <1>2, PlaceFacts
<1>4. ~p.leaf /\ Len(p.slots) >= 1
    BY <1>1, <1>3 DEF WriterAt
<1>5. Len(p.slots) \in 1 .. Len(p.slots)
    BY <1>3, <1>4
<1>6. only \in 1 .. Len(pages)
    BY <1>3, <1>4, <1>5 DEF PageAt, PointsBelow
<1>7. CASE Unlatched(only) /\ CopyRoot(w, only, {only})
    <2> HIDE DEF only
    <2>1. \A v \in Writers : only \notin latch[v]
        BY <1>7, UnlatchedFacts
    <2>2. only \in Nat /\ only <= Len(pages)
        BY <1>1, <1>6 DEF TypeInv
    <2>3. MayTake(w, {only})
        BY <2>1, <2>2 DEF MayTake
    <2> QED BY <1>6, <1>7, <2>3, CopyRootStep
<1>8. CASE Retry(w) /\ UNCHANGED <<writerRest, treeVars>>
    BY <1>8, RetryStep
<1> QED BY <1>7, <1>8 DEF MergeRoot

(* Steps that change the page a writer has latched *)

(* Page q in the place of p: of the same kind, with the same children and   *)
(* perhaps more.                                                            *)
Replaces(p, q) ==
    /\ q \in Page /\ (q.leaf <=> p.leaf)
    /\ Len(p.slots) <= Len(q.slots)
    /\ \A j \in 1 .. Len(p.slots) : q.slots[j].ptr = p.slots[j].ptr

Put(h, P, c, q, Q) ==
    /\ P \in Seq(Page) /\ c \in 1 .. Len(P) /\ Pages(h, P)
    /\ Replaces(P[c], q) /\ Fits(h, P, h[c], q)
    /\ Q = [P EXCEPT ![c] = q]

LEMMA ReplacedPage ==
    ASSUME NEW P, NEW c, NEW q, NEW Q, NEW h, Put(h, P, c, q, Q)
    PROVE  /\ Q \in Seq(Page) /\ Len(Q) = Len(P) /\ Pages(h, Q) /\ Grown(P, Q) /\ Q[c] = q
           /\ \A i \in 1 .. Len(P) : i # c => Q[i] = P[i]
<1>0. /\ P \in Seq(Page) /\ c \in 1 .. Len(P) /\ Pages(h, P)
      /\ Replaces(P[c], q) /\ Fits(h, P, h[c], q)
      /\ Q = [P EXCEPT ![c] = q]
    BY DEF Put
<1>1. q \in Page /\ Len(P) \in Nat
    BY <1>0 DEF Replaces
<1>2. Q \in Seq(Page) /\ Len(Q) = Len(P) /\ Q[c] = q /\ \A i \in 1 .. Len(P) : i # c => Q[i] = P[i]
    BY <1>0, <1>1
<1>3. Extends(h, h, P) /\ Len(P) <= Len(Q) /\ Len(Q) \in Nat
    BY <1>1, <1>2 DEF Extends
<1>4. ASSUME NEW i \in 1 .. Len(P) PROVE PageAt(h, Q, i)
    <2>1. Fits(h, P, h[i], Q[i])
        <3>1. CASE i = c
            BY <1>0, <1>2, <3>1
        <3>2. CASE i # c
            BY <1>0, <1>2, <3>2 DEF Pages, PageAt, Fits
        <3> QED BY <3>1, <3>2
    <2>2. Fits(h, Q, h[i], Q[i])
        BY <1>1, <1>3, <2>1, FitsLift
    <2> QED BY <2>2 DEF Fits, PageAt
<1>5. Pages(h, Q)
    BY <1>0, <1>2, <1>4 DEF Pages
<1>6. Grown(P, Q)
    <2>1. ASSUME NEW i \in 1 .. Len(P)
          PROVE  /\ Q[i].leaf <=> P[i].leaf
                 /\ Len(P[i].slots) <= Len(Q[i].slots)
                 /\ \A j \in 1 .. Len(P[i].slots) : Q[i].slots[j].ptr = P[i].slots[j].ptr
        <3>1. CASE i = c
            BY <1>0, <1>2, <3>1 DEF Replaces
        <3>2. CASE i # c
            <4>1. Len(P[i].slots) \in Nat /\ Q[i] = P[i]
                BY <1>0, <1>2, <3>2, PageTyped
            <4> QED BY <4>1
        <3> QED BY <3>1, <3>2
    <2> QED BY <1>3, <2>1 DEF Grown
<1> QED BY <1>2, <1>5, <1>6

LEMMA ChangeStep ==
    ASSUME TreeInv, NEW w \in Writers, NEW h, Heights(h), NEW c \in 1 .. Len(pages), c \in latch[w],
           NEW q, Replaces(pages[c], q), Fits(h, pages, h[c], q), pages' = [pages EXCEPT ![c] = q],
           roots' = roots, load' = load, clock' \in Nat, clock' >= 1,
           wr' \in [Writers -> Writer], latch' \in [Writers -> SUBSET Nat],
           NEW freed, latch'[w] = (latch[w] \ freed) \cup {}, Others(w, {}), GoodVersions(w, wr'[w]),
           NEW Q, Q = pages', WriterAt(h, Q, latch'[w], wr'[w])
    PROVE  TreeInv'
<1>1. TypeInv /\ Latching /\ pages \in Seq(Page) /\ Pages(h, pages) /\ Len(pages) \in Nat
    BY DEF TreeInv, TypeInv, Heights
<1>2. Put(h, pages, c, q, Q)
    BY <1>1 DEF Put
<1>3. /\ Q \in Seq(Page) /\ Len(Q) = Len(pages) /\ Pages(h, Q) /\ Grown(pages, Q)
      /\ \A i \in 1 .. Len(pages) : i # c => Q[i] = pages[i]
    BY ONLY <1>2, ReplacedPage
<1>4. TypeInv'
    <2>1. pages' \in Seq(Page) /\ Len(pages') = Len(pages)
        BY <1>3
    <2> QED BY <1>1, <2>1 DEF TypeInv
<1>5. /\ Pages(h, pages') /\ Grown(pages, pages') /\ Extends(h, h, pages)
      /\ \A i \in 1 .. Len(pages) : i \notin latch[w] => pages'[i] = pages[i]
    BY <1>3 DEF Extends
<1>6. /\ \A v \in Writers : v # w => {} \cap latch[v] = {}
      /\ \A i \in {} : i <= Len(pages')
    OBVIOUS
<1>7. WriterAt(h, pages', latch'[w], wr'[w])
    OBVIOUS
<1>8. \A v \in Writers : v # w =>
              /\ wr'[w].indexLive => Index \notin latch[v]
              /\ wr'[w].currLive => wr'[w].curr \notin latch[v]
              /\ wr'[w].childLive => wr'[w].child \notin latch[v]
    BY DEF GoodVersions
<1>9. Latching' /\ Heights(h)'
    BY <1>1, <1>4, <1>5, <1>6, <1>7, <1>8, StepFacts
<1> QED BY <1>4, <1>9 DEF TreeInv

(* The counts of an index page before, between and after publishing the     *)
(* entries of a reorganization and marking those it replaces.               *)
Published(p, parts, x, q) ==
    q = [p EXCEPT !.slots = @ \o parts, !.live = @ + Len(parts) - x, !.dead = @ + x]
Longer(p, parts, x, q) ==
    /\ Replaces(p, q) /\ q.leaf = p.leaf /\ q.live = p.live + Len(parts) - x
    /\ Len(q.slots) = Len(p.slots) + Len(parts)
    /\ \A i \in 1 .. Len(p.slots) : q.slots[i] = p.slots[i]
    /\ \A i \in 1 .. Len(parts) : q.slots[Len(p.slots) + i] = parts[i]
    /\ Cardinality(Active(q)) = Cardinality(Active(p)) + Len(parts)

LEMMA PublishedFacts ==
    ASSUME NEW p \in Page, NEW parts \in Seq(Slot), NEW x \in Int,
           \A i \in 1 .. Len(parts) : parts[i].end = 0,
           NEW q, Published(p, parts, x, q)
    PROVE  Longer(p, parts, x, q)
<1> DEFINE n == Len(p.slots)
           k == Len(parts)
<1>1. p.slots \in Seq(Slot) /\ n \in Nat /\ p.live \in Int /\ p.dead \in Int /\ p.leaf \in BOOLEAN /\ k \in Nat
    BY PageTyped
<1>2. /\ q.slots = p.slots \o parts /\ q.live = p.live + k - x /\ q.dead = p.dead + x /\ q.leaf = p.leaf
    BY DEF Page, Published
<1>3. /\ q.slots \in Seq(Slot) /\ Len(q.slots) = n + k
      /\ \A i \in 1 .. n : q.slots[i] = p.slots[i]
      /\ \A i \in 1 .. k : q.slots[n + i] = parts[i]
    <2> DEFINE s == p.slots
    <2>1. s \in Seq(Slot)
        BY <1>1
    <2> HIDE DEF s
    <2>2. /\ s \o parts \in Seq(Slot) /\ Len(s \o parts) = Len(s) + Len(parts)
          /\ \A i \in 1 .. Len(s) : (s \o parts)[i] = s[i]
          /\ \A i \in 1 .. Len(parts) : (s \o parts)[Len(s) + i] = parts[i]
        BY <2>1
    <2> QED BY <1>2, <2>2 DEF s
<1>4. q \in Page
    <2>1. q.live \in Int /\ q.dead \in Int
        BY <1>1, <1>2
    <2>2. q = [leaf |-> q.leaf, slots |-> q.slots, live |-> q.live, dead |-> q.dead]
        BY DEF Page, Published
    <2> QED BY <1>1, <1>2, <1>3, <2>1, <2>2 DEF Page
<1> DEFINE B == n + 1 .. n + k
<1>5. Active(q) = Active(p) \cup B
    <2>1. \A i \in 1 .. n + k : i \in 1 .. n \/ i \in B
        BY <1>1
    <2>2. \A i \in B : q.slots[i].end = 0 /\ i \in 1 .. n + k
        <3> SUFFICES ASSUME NEW i \in B PROVE q.slots[i].end = 0 /\ i \in 1 .. n + k
            OBVIOUS
        <3>1. i - n \in 1 .. k /\ n + (i - n) = i /\ i \in 1 .. n + k
            BY <1>1
        <3> QED BY <1>3, <3>1
    <2>3. DOMAIN q.slots = 1 .. n + k /\ DOMAIN p.slots = 1 .. n
        BY <1>1, <1>3
    <2>4. \A i \in 1 .. n : i \in 1 .. n + k
        BY <1>1
    <2> QED BY <1>3, <2>1, <2>2, <2>3, <2>4 DEF Active, IsActive
<1>6. Active(p) \subseteq 1 .. n /\ IsFiniteSet(Active(p)) /\ Cardinality(Active(p)) \in Nat
    BY LiveSlotsFacts
<1>7. IsFiniteSet(B) /\ Cardinality(B) = k
    <2>1. n + 1 \in Int /\ n + k \in Int /\ (n + 1 > n + k => k = 0) /\ (n + k) - (n + 1) + 1 = k
        BY <1>1
    <2> HIDE DEF n, k
    <2>2. IsFiniteSet(B) /\ Cardinality(B) = IF n + 1 > n + k THEN 0 ELSE (n + k) - (n + 1) + 1
        BY <2>1, FS_Interval
    <2> QED BY <2>1, <2>2
<1>8. Active(p) \cap B = {}
    BY <1>1, <1>6
<1>9. Cardinality(Active(q)) = Cardinality(Active(p)) + k
    <2> HIDE DEF B
    <2>1. Cardinality(Active(p) \cup B) = Cardinality(Active(p)) + Cardinality(B) - Cardinality(Active(p) \cap B)
        BY <1>6, <1>7, FS_Union
    <2>2. Cardinality(Active(p) \cap B) = 0
        BY <1>8, FS_EmptySet
    <2>3. k \in Nat /\ Cardinality(B) = k /\ Cardinality(Active(p)) \in Nat
        BY <1>1, <1>6, <1>7
    <2> HIDE DEF k
    <2>4. Cardinality(Active(p) \cup B) = Cardinality(Active(p)) + k
        BY <2>1, <2>2, <2>3
    <2> QED BY <1>5, <2>4
<1>10. Replaces(p, q)
    BY <1>1, <1>2, <1>3, <1>4 DEF Replaces
<1> QED BY <1>2, <1>3, <1>9, <1>10 DEF Longer

LEMMA MarkedFacts ==
    ASSUME NEW p \in Page, NEW dead \in SUBSET (1 .. Len(p.slots)), NEW q,
           q = [p EXCEPT !.slots = [i \in DOMAIN @ |-> IF i \in dead THEN [@[i] EXCEPT !.end = ObsoleteMark] ELSE @[i]]]
    PROVE  /\ Replaces(p, q) /\ q.leaf = p.leaf /\ q.live = p.live /\ Len(q.slots) = Len(p.slots)
           /\ Cardinality(Active(q)) >= Cardinality(Active(p)) - Cardinality(dead)
           /\ Cardinality(Active(q)) \in Nat /\ Cardinality(Active(p)) \in Nat /\ Cardinality(dead) \in Nat
<1> DEFINE n == Len(p.slots)
           s == p.slots
           Marked(i) == [s[i] EXCEPT !.end = ObsoleteMark]
           t == [i \in 1 .. n |-> IF i \in dead THEN Marked(i) ELSE s[i]]
<1>1. s \in Seq(Slot) /\ n \in Nat /\ DOMAIN s = 1 .. n /\ p.live \in Int /\ p.dead \in Int /\ p.leaf \in BOOLEAN
      /\ \A i \in 1 .. n : s[i] \in Slot
    BY PageTyped
<1>2. q = [p EXCEPT !.slots = t]
    BY <1>1
<1>3. \A i \in 1 .. n : Marked(i) \in Slot /\ Marked(i).end = 1 /\ Marked(i).ptr = s[i].ptr
    BY <1>1 DEF Slot, ObsoleteMark
<1> HIDE DEF Marked
<1>4. \A i \in 1 .. n : t[i] \in Slot /\ t[i].ptr = s[i].ptr
    BY <1>1, <1>3
<1>5. t \in Seq(Slot) /\ Len(t) = n /\ DOMAIN t = 1 .. n
    <2>1. t = [i \in 1 .. n |-> t[i]] /\ n \in Nat /\ \A i \in 1 .. n : t[i] \in Slot
        BY <1>1, <1>4
    <2> HIDE DEF n, t
    <2> QED BY <2>1
<1>6. \A i \in 1 .. n : t[i].end = 0 <=> s[i].end = 0 /\ i \notin dead
    BY <1>1, <1>3
<1> HIDE DEF t
<1>7. q \in Page /\ q.slots = t /\ q.leaf = p.leaf /\ q.live = p.live
    BY <1>2, <1>5 DEF Page
<1>8. Active(q) = Active(p) \ dead
    BY <1>1, <1>5, <1>6, <1>7 DEF Active, IsActive
<1>9. IsFiniteSet(Active(p)) /\ Cardinality(Active(p)) \in Nat /\ Cardinality(Active(q)) \in Nat
    BY <1>7, LiveSlotsFacts
<1>10. IsFiniteSet(dead) /\ Cardinality(dead) \in Nat
    <2>1. n \in Int /\ 1 \in Int /\ dead \in SUBSET (1 .. n)
        BY <1>1
    <2> HIDE DEF n
    <2>2. IsFiniteSet(1 .. n)
        BY <2>1, FS_Interval
    <2>3. IsFiniteSet(dead)
        BY <2>1, <2>2, FS_Subset
    <2> QED BY <2>3, FS_CardinalityType
<1>11. Cardinality(Active(p) \ dead) = Cardinality(Active(p)) - Cardinality(Active(p) \cap dead)
    BY <1>9, FS_Difference
<1>12. Cardinality(Active(p) \cap dead) <= Cardinality(dead) /\ Cardinality(Active(p) \cap dead) \in Nat
    <2>1. Active(p) \cap dead \in SUBSET dead
        OBVIOUS
    <2> QED BY <1>10, <2>1, FS_Subset, FS_CardinalityType
<1>13. Replaces(p, q)
    BY <1>1, <1>4, <1>5, <1>7 DEF Replaces
<1>14. Cardinality(Active(q)) >= Cardinality(Active(p)) - Cardinality(dead)
    <2> DEFINE a == Cardinality(Active(p))
               b == Cardinality(Active(p) \cap dead)
               x == Cardinality(dead)
    <2>1. a \in Nat /\ b \in Nat /\ x \in Nat /\ b <= x /\ Cardinality(Active(q)) = a - b
        BY <1>8, <1>9, <1>10, <1>11, <1>12
    <2> HIDE DEF a, b, x
    <2>2. a - b >= a - x
        BY <2>1
    <2> QED BY <2>1, <2>2 DEF a, x
<1>15. Len(q.slots) = Len(p.slots)
    BY <1>5, <1>7
<1> QED BY <1>7, <1>9, <1>10, <1>13, <1>14, <1>15

LEMMA SubrangeFinite ==
    ASSUME NEW n \in Nat, NEW D \in SUBSET (1 .. n)
    PROVE  IsFiniteSet(D) /\ Cardinality(D) \in Nat
<1>1. 1 \in Int /\ n \in Int
    OBVIOUS
<1>2. IsFiniteSet(1 .. n)
    BY <1>1, FS_Interval
<1> QED BY <1>2, FS_Subset, FS_CardinalityType

(* PublishSmo: the new entries are there, the replaced ones still count     *)
(* among the live slots.                                                    *)
LEMMA PublishSmoStep ==
    ASSUME TreeInv, NEW w \in Writers, PublishSmo(w)
    PROVE  TreeInv'
<1> DEFINE me == wr[w]
           c == me.curr
           p == pages[c]
           k == Len(me.parts)
           x == Cardinality(me.dead)
           q == [p EXCEPT !.slots = @ \o me.parts, !.live = @ + k - x, !.dead = @ + x]
           to == [me EXCEPT !.pc = "mark"]
<1>1. TypeInv /\ Latching /\ me.pc = "publish"
    BY DEF TreeInv, PublishSmo
<1>2. PICK h : Heights(h)
    BY DEF TreeInv
<1>3. /\ WriterAt(h, pages, latch[w], me) /\ c \in 1 .. Len(pages) /\ p \in Page
      /\ PageAt(h, pages, c) /\ Len(p.slots) \in Nat
    BY <1>1, <1>2, PlaceFacts
<1>4. /\ ~p.leaf /\ c \in latch[w] /\ me.dead \in SUBSET (1 .. Len(p.slots))
      /\ \A i \in 1 .. k : me.parts[i].end = 0 /\ PointsBelow(h, pages, h[c], me.parts[i])
    BY <1>1, <1>3 DEF WriterAt
<1>5. me \in Writer /\ me.parts \in Seq(Slot) /\ k \in Nat
    BY <1>1, WriterFacts, LenFact
<1>6. x \in Nat
    BY <1>3, <1>4, SubrangeFinite
<1>7. pages' = [pages EXCEPT ![c] = q]
    BY <1>1, <1>3 DEF PublishSmo, TypeInv
<1> HIDE DEF k, x
<1>8. /\ Replaces(p, q) /\ q.leaf = p.leaf /\ q.live = p.live + k - x
      /\ Len(q.slots) = Len(p.slots) + k
      /\ \A i \in 1 .. Len(p.slots) : q.slots[i] = p.slots[i]
      /\ \A i \in 1 .. k : q.slots[Len(p.slots) + i] = me.parts[i]
      /\ Cardinality(Active(q)) = Cardinality(Active(p)) + k
    <2>1. Published(p, me.parts, x, q)
        BY DEF k, Published
    <2>2. \A i \in 1 .. Len(me.parts) : me.parts[i].end = 0
        BY <1>4 DEF k
    <2> DEFINE parts == me.parts
    <2>3. parts \in Seq(Slot) /\ x \in Int
        BY <1>5, <1>6
    <2> HIDE DEF q, p, parts
    <2>4. Longer(p, parts, x, q)
        BY <1>3, <2>1, <2>2, <2>3, PublishedFacts DEF parts
    <2> QED BY <2>4 DEF k, parts, Longer
<1> HIDE DEF q
<1>9. p.live <= Cardinality(Active(p)) /\ Cardinality(Active(p)) \in Nat /\ p.live \in Int
    BY <1>3, CountedFacts, PageTyped DEF PageAt
<1>10. q.live <= Cardinality(Active(q)) /\ q.live + x <= Cardinality(Active(q))
    BY <1>5, <1>6, <1>8, <1>9
<1>11. Fits(h, pages, h[c], q)
    <2>1. ASSUME NEW j \in 1 .. Len(q.slots) PROVE PointsBelow(h, pages, h[c], q.slots[j])
        <3>1. CASE j \in 1 .. Len(p.slots)
            BY <1>3, <1>4, <1>8, <3>1 DEF PageAt
        <3>2. CASE j \notin 1 .. Len(p.slots)
            <4>1. j - Len(p.slots) \in 1 .. k /\ Len(p.slots) + (j - Len(p.slots)) = j
                <5> DEFINE n == Len(p.slots)
                <5>1. n \in Nat /\ k \in Nat /\ j \in 1 .. n + k /\ j \notin 1 .. n
                    BY <1>3, <1>5, <1>8, <3>2
                <5> HIDE DEF n
                <5>2. j - n \in 1 .. k /\ n + (j - n) = j
                    BY <5>1
                <5> QED BY <5>2 DEF n
            <4> QED BY <1>4, <1>8, <4>1
        <3> QED BY <3>1, <3>2
    <2>2. Counted(q)
        BY <1>4, <1>8, <1>10 DEF Counted
    <2>3. q.leaf <=> h[c] = 0
        BY <1>3, <1>8 DEF PageAt
    <2> QED BY <2>1, <2>2, <2>3 DEF Fits
<1>12. /\ to \in Writer /\ to.pc = "mark" /\ to.curr = c /\ to.child = me.child /\ to.dead = me.dead
       /\ (to.indexLive <=> me.indexLive) /\ (to.currLive <=> me.currLive) /\ (to.childLive <=> me.childLive)
    <2>1. "mark" \in Places
        BY DEF Places
    <2> QED BY <1>5, <2>1 DEF Writer
<1>13. wr' = [wr EXCEPT ![w] = to] /\ latch' = latch /\ roots' = roots /\ load' = load /\ clock' = clock
    BY <1>1 DEF PublishSmo, TypeInv, writerRest
<1> HIDE DEF to
<1>14. /\ wr' \in [Writers -> Writer] /\ latch' \in [Writers -> SUBSET Nat]
       /\ wr'[w] = to /\ latch'[w] = (latch[w] \ {}) \cup {} /\ Others(w, {})
    BY <1>1, <1>12, <1>13, SingleFacts
<1> DEFINE Q == pages'
<1>15. Q = pages'
    OBVIOUS
<1>16. Len(Q) = Len(pages) /\ Q[c] = q
    BY <1>1, <1>3, <1>7 DEF TypeInv
<1> HIDE DEF Q
<1>17. WriterAt(h, Q, latch'[w], wr'[w])
    <2>1. c \in 1 .. Len(Q) /\ to.curr \in latch'[w]
        BY <1>3, <1>4, <1>12, <1>13, <1>16
    <2>2. to.dead \subseteq 1 .. Len(q.slots)
        BY <1>3, <1>4, <1>5, <1>8, <1>12
    <2>3. WriterAt(h, Q, latch'[w], to)
        BY <1>4, <1>8, <1>10, <1>12, <1>16, <2>1, <2>2 DEF WriterAt, x
    <2> QED BY <1>14, <2>3
<1>18. GoodVersions(w, wr'[w])
    BY <1>1, <1>12, <1>14 DEF Latching, GoodVersions
<1>19. clock' \in Nat /\ clock' >= 1
    BY <1>1, <1>13 DEF TypeInv
<1>20. latch'[w] = (latch[w] \ {}) \cup {} /\ Others(w, {})
    BY <1>14
<1> QED BY <1>2, <1>3, <1>4, <1>7, <1>8, <1>11, <1>13, <1>14, <1>15, <1>17, <1>18, <1>19, <1>20, ChangeStep

(* MarkVersionObsolete: the replaced entries are dead.                      *)
LEMMA MarkStep ==
    ASSUME TreeInv, NEW w \in Writers, MarkVersionObsolete(w)
    PROVE  TreeInv'
<1> DEFINE me == wr[w]
           c == me.curr
           p == pages[c]
           q == [p EXCEPT !.slots = [i \in DOMAIN @ |->
                    IF i \in me.dead THEN [@[i] EXCEPT !.end = ObsoleteMark] ELSE @[i]]]
           to == [me EXCEPT !.pc = "endSmo"]
<1>1. TypeInv /\ Latching /\ me.pc = "mark"
    BY DEF TreeInv, MarkVersionObsolete
<1>2. PICK h : Heights(h)
    BY DEF TreeInv
<1>3. /\ WriterAt(h, pages, latch[w], me) /\ c \in 1 .. Len(pages) /\ p \in Page
      /\ PageAt(h, pages, c) /\ Len(p.slots) \in Nat
    BY <1>1, <1>2, PlaceFacts
<1>4. /\ ~p.leaf /\ c \in latch[w] /\ me.dead \in SUBSET (1 .. Len(p.slots))
      /\ p.live + Cardinality(me.dead) <= Cardinality(Active(p))
    BY <1>1, <1>3 DEF WriterAt
<1>5. me \in Writer /\ p.live \in Int
    BY <1>1, <1>3, WriterFacts, PageTyped
<1>6. pages' = [pages EXCEPT ![c] = q]
    BY <1>1, <1>3 DEF MarkVersionObsolete, TypeInv
<1>7. /\ Replaces(p, q) /\ q.leaf = p.leaf /\ q.live = p.live /\ Len(q.slots) = Len(p.slots)
      /\ Cardinality(Active(q)) >= Cardinality(Active(p)) - Cardinality(me.dead)
      /\ Cardinality(Active(q)) \in Nat /\ Cardinality(Active(p)) \in Nat /\ Cardinality(me.dead) \in Nat
    BY <1>3, <1>4, MarkedFacts
<1> HIDE DEF q
<1>8. q.live <= Cardinality(Active(q))
    BY <1>4, <1>5, <1>7
<1>9. Fits(h, pages, h[c], q)
    <2>1. ASSUME NEW j \in 1 .. Len(q.slots) PROVE PointsBelow(h, pages, h[c], q.slots[j])
        <3>1. PointsBelow(h, pages, h[c], p.slots[j]) /\ q.slots[j].ptr = p.slots[j].ptr
            BY <1>3, <1>4, <1>7 DEF PageAt, Replaces
        <3> QED BY <3>1 DEF PointsBelow
    <2>2. Counted(q)
        BY <1>4, <1>7, <1>8 DEF Counted
    <2>3. q.leaf <=> h[c] = 0
        BY <1>3, <1>7 DEF PageAt
    <2> QED BY <2>1, <2>2, <2>3 DEF Fits
<1>10. /\ to \in Writer /\ to.pc = "endSmo" /\ to.curr = c /\ to.child = me.child /\ to.dead = me.dead
       /\ (to.indexLive <=> me.indexLive) /\ (to.currLive <=> me.currLive) /\ (to.childLive <=> me.childLive)
    <2>1. "endSmo" \in Places
        BY DEF Places
    <2> QED BY <1>5, <2>1 DEF Writer
<1>11. wr' = [wr EXCEPT ![w] = to] /\ latch' = latch /\ roots' = roots /\ load' = load /\ clock' = clock
    BY <1>1 DEF MarkVersionObsolete, TypeInv, writerRest
<1> HIDE DEF to
<1>12. /\ wr' \in [Writers -> Writer] /\ latch' \in [Writers -> SUBSET Nat]
       /\ wr'[w] = to /\ latch'[w] = (latch[w] \ {}) \cup {} /\ Others(w, {})
    BY <1>1, <1>10, <1>11, SingleFacts
<1> DEFINE Q == pages'
<1>13. Q = pages'
    OBVIOUS
<1>14. Len(Q) = Len(pages) /\ Q[c] = q
    BY <1>1, <1>3, <1>6 DEF TypeInv
<1> HIDE DEF Q
<1>15. WriterAt(h, Q, latch'[w], wr'[w])
    <2>1. c \in 1 .. Len(Q) /\ to.curr \in latch'[w]
        BY <1>3, <1>4, <1>10, <1>11, <1>14
    <2>2. WriterAt(h, Q, latch'[w], to)
        BY <1>4, <1>7, <1>10, <1>14, <2>1 DEF WriterAt
    <2> QED BY <1>12, <2>2
<1>16. GoodVersions(w, wr'[w])
    BY <1>1, <1>10, <1>12 DEF Latching, GoodVersions
<1>17. clock' \in Nat /\ clock' >= 1
    BY <1>1, <1>11 DEF TypeInv
<1>18. latch'[w] = (latch[w] \ {}) \cup {} /\ Others(w, {})
    BY <1>12
<1> QED BY <1>2, <1>3, <1>4, <1>6, <1>7, <1>9, <1>11, <1>12, <1>13, <1>15, <1>16, <1>17, <1>18, ChangeStep

(* A leaf whose counts are right, and what the operations make of it.       *)
LeafCount(p) ==
    p \in Page /\ p.leaf /\ Len(p.slots) = p.live + p.dead /\ p.live = Cardinality(Active(p))

LEMMA PushFacts ==
    ASSUME NEW p, LeafCount(p), NEW k \in Int, NEW v \in Int, NEW q, q = Push(p, k, v)
    PROVE  LeafCount(q) /\ Replaces(p, q) /\ Len(q.slots) = Len(p.slots) + 1
<1> DEFINE r == Record(k, v)
           parts == << r >>
<1>1. p \in Page /\ p.leaf /\ Len(p.slots) = p.live + p.dead /\ p.live = Cardinality(Active(p))
    BY DEF LeafCount
<1>2. p.slots \in Seq(Slot) /\ p.live \in Int /\ p.dead \in Int /\ Len(p.slots) \in Nat
    BY <1>1, PageTyped
<1>3. r \in Slot /\ r.end = 0
    BY DEF Record, Slot
<1>4. q = [p EXCEPT !.slots = Append(@, r), !.live = @ + 1]
    BY DEF Push
<1> HIDE DEF r
<1>5. parts \in Seq(Slot) /\ Len(parts) = 1 /\ parts[1] = r
    BY <1>3
<1>6. \A i \in 1 .. Len(parts) : parts[i].end = 0
    <2>1. \A i \in 1 .. Len(parts) : i = 1
        BY <1>5
    <2> QED BY <1>3, <1>5, <2>1
<1>7. Published(p, parts, 0, q) /\ q.dead = p.dead
    <2>1. Append(p.slots, r) = p.slots \o parts
        <3> DEFINE s == p.slots
        <3>1. s \in Seq(Slot)
            BY <1>2
        <3> HIDE DEF s
        <3>2. Append(s, r) = s \o << r >>
            BY <1>3, <3>1
        <3> QED BY <3>2 DEF s
    <2>2. p.live + Len(parts) - 0 = p.live + 1 /\ p.dead + 0 = p.dead
        BY <1>2, <1>5
    <2>3. q = [p EXCEPT !.slots = p.slots \o parts, !.live = p.live + Len(parts) - 0, !.dead = p.dead + 0]
        BY <1>1, <1>4, <2>1, <2>2 DEF Page
    <2>4. q.dead = p.dead
        BY <1>1, <1>4 DEF Page
    <2> QED BY <2>3, <2>4 DEF Published
<1> HIDE DEF parts
<1>8. Longer(p, parts, 0, q)
    BY <1>1, <1>5, <1>6, <1>7, PublishedFacts
<1>9. /\ Replaces(p, q) /\ q.leaf = p.leaf /\ q.live = p.live + 1 - 0
      /\ Len(q.slots) = Len(p.slots) + 1 /\ Cardinality(Active(q)) = Cardinality(Active(p)) + 1
    BY <1>5, <1>8 DEF Longer
<1>10. q \in Page
    BY <1>9 DEF Replaces
<1> QED BY <1>1, <1>2, <1>7, <1>9, <1>10 DEF LeafCount

LEMMA DeleteFacts ==
    ASSUME NEW p, LeafCount(p), NEW k, IsLive(p, k), NEW v \in Nat, v >= 1, NEW q, q = Delete(p, k, v)
    PROVE  LeafCount(q) /\ Replaces(p, q) /\ Len(q.slots) = Len(p.slots)
<1> DEFINE n == Len(p.slots)
           s == p.slots
           S == {i \in DOMAIN p.slots : p.slots[i].lo = k}
           j == Newest(p, k)
           t == [s EXCEPT ![j] = [s[j] EXCEPT !.end = v]]
<1>1. p \in Page /\ p.leaf /\ n = p.live + p.dead /\ p.live = Cardinality(Active(p))
    BY DEF LeafCount
<1>2. /\ s \in Seq(Slot) /\ p.live \in Int /\ p.dead \in Int /\ n \in Nat /\ DOMAIN s = 1 .. n
      /\ \A i \in 1 .. n : s[i] \in Slot
    BY <1>1, PageTyped
<1>3. j \in 1 .. n /\ s[j].end = 0
    <2>1. S \in SUBSET (1 .. n) /\ j = RFind(S)
        BY <1>2 DEF Newest
    <2> HIDE DEF S, j
    <2>2. j \in S \cup {0}
        BY <1>2, <2>1, RFindFacts
    <2>3. j # 0 /\ s[j].end = 0
        BY DEF IsLive, IsActive, j
    <2> QED BY <2>1, <2>2, <2>3
<1>4. q = [p EXCEPT !.slots = t, !.live = p.live - 1, !.dead = p.dead + 1]
    BY DEF Delete
<1> HIDE DEF j
<1>5. /\ t \in Seq(Slot) /\ Len(t) = n /\ DOMAIN t = 1 .. n
      /\ t[j].end = v /\ t[j].ptr = s[j].ptr
      /\ \A i \in 1 .. n : i # j => t[i] = s[i]
    <2> DEFINE e == [s[j] EXCEPT !.end = v]
    <2>1. e \in Slot /\ e.end = v /\ e.ptr = s[j].ptr
        BY <1>2, <1>3 DEF Slot
    <2>2. t = [s EXCEPT ![j] = e]
        OBVIOUS
    <2> HIDE DEF e, t, s
    <2>3. t \in Seq(Slot) /\ Len(t) = Len(s) /\ DOMAIN t = DOMAIN s /\ t[j] = e /\ \A i \in DOMAIN s : i # j => t[i] = s[i]
        BY <1>2, <1>3, <2>1, <2>2
    <2> QED BY <1>2, <2>1, <2>3 DEF s
<1> HIDE DEF t
<1>6. q \in Page /\ q.slots = t /\ q.leaf = p.leaf /\ q.live = p.live - 1 /\ q.dead = p.dead + 1
    <2>1. p.live - 1 \in Int /\ p.dead + 1 \in Int
        BY <1>2
    <2> QED BY <1>1, <1>4, <1>5, <2>1 DEF Page
<1>7. Active(q) = Active(p) \ {j}
    BY <1>2, <1>3, <1>5, <1>6 DEF Active, IsActive
<1>8. j \in Active(p) /\ IsFiniteSet(Active(p))
    BY <1>1, <1>2, <1>3, LiveSlotsFacts DEF Active, IsActive
<1>9. Cardinality(Active(q)) = Cardinality(Active(p)) - 1
    BY <1>7, <1>8, FS_RemoveElement
<1>10. \A i \in 1 .. n : q.slots[i].ptr = s[i].ptr
    BY <1>3, <1>5, <1>6
<1>11. Replaces(p, q)
    BY <1>2, <1>5, <1>6, <1>10 DEF Replaces
<1>12. q.live + q.dead = p.live + p.dead
    BY <1>2, <1>6
<1> QED BY <1>1, <1>5, <1>6, <1>9, <1>11, <1>12 DEF LeafCount

(* Whatever an operation does to a leaf with room, the leaf stays within    *)
(* its capacity: an update and an insert take one slot.                     *)
LEMMA LeafChange ==
    ASSUME NEW p, LeafCount(p), HasRoom(p), NEW k \in Int, NEW v \in Nat, v >= 1,
           NEW q, \/ q = p
                  \/ q = Push(p, k, v)
                  \/ IsLive(p, k) /\ q = Push(Delete(p, k, v), k, v)
                  \/ IsLive(p, k) /\ q = Delete(p, k, v)
    PROVE  Replaces(p, q) /\ Counted(q) /\ q.leaf
<1>1. p \in Page /\ p.leaf /\ Len(p.slots) = p.live + p.dead /\ p.live = Cardinality(Active(p))
    BY DEF LeafCount
<1>2. Len(p.slots) \in Nat /\ Len(p.slots) < NumRecords /\ NumRecords \in Nat
    BY <1>1, PageTyped, TreeAssumption DEF HasRoom
<1>3. Replaces(p, q) /\ LeafCount(q) /\ Len(q.slots) <= Len(p.slots) + 1
    <2>1. CASE q = p
        BY <1>1, <1>2, <2>1 DEF Replaces
    <2>2. CASE q = Push(p, k, v)
        <3>1. LeafCount(q) /\ Replaces(p, q) /\ Len(q.slots) = Len(p.slots) + 1
            BY <2>2, PushFacts
        <3> QED BY <1>2, <3>1
    <2>3. CASE IsLive(p, k) /\ q = Push(Delete(p, k, v), k, v)
        <3> DEFINE d == Delete(p, k, v)
        <3>1. LeafCount(d) /\ Replaces(p, d) /\ Len(d.slots) = Len(p.slots)
            BY <2>3, DeleteFacts
        <3>2. q = Push(d, k, v)
            BY <2>3
        <3> HIDE DEF d
        <3>3. LeafCount(q) /\ Replaces(d, q) /\ Len(q.slots) = Len(d.slots) + 1
            BY <3>1, <3>2, PushFacts
        <3>4. q \in Page /\ (q.leaf <=> p.leaf)
            BY <3>1, <3>3 DEF Replaces
        <3>5. ASSUME NEW i \in 1 .. Len(p.slots) PROVE q.slots[i].ptr = p.slots[i].ptr
            <4>1. i \in 1 .. Len(d.slots)
                BY <3>1
            <4> QED BY <3>1, <3>3, <4>1 DEF Replaces
        <3>6. Len(q.slots) = Len(p.slots) + 1
            BY <3>1, <3>3
        <3> QED BY <1>2, <3>3, <3>4, <3>5, <3>6 DEF Replaces
    <2>4. CASE IsLive(p, k) /\ q = Delete(p, k, v)
        <3>1. LeafCount(q) /\ Replaces(p, q) /\ Len(q.slots) = Len(p.slots)
            BY <2>4, DeleteFacts
        <3> QED BY <1>2, <3>1
    <2> QED BY <2>1, <2>2, <2>3, <2>4
<1>4. q \in Page /\ q.leaf /\ Len(q.slots) = q.live + q.dead /\ q.live = Cardinality(Active(q))
    BY <1>3 DEF LeafCount
<1>5. Len(q.slots) \in Nat
    BY <1>4, PageTyped
<1>6. Len(q.slots) <= NumRecords
    BY <1>2, <1>3, <1>5
<1> QED BY <1>3, <1>4, <1>6 DEF Counted

LEMMA RandomKeysTyped ==
    ASSUME TypeInv, NEW w \in Writers, pages[wr[w].curr] \in Page
    PROVE  RandomKeys(w) \subseteq Int
<1> DEFINE p == pages[wr[w].curr]
           s == LiveSlots(p)
<1>1. wr[w].lo \in Int /\ wr[w].hi \in Int
    BY WriterFacts
<1>2. \A k \in wr[w].lo .. wr[w].hi : k \in Int
    BY <1>1
<1>3. s \in Seq(Slot)
    BY LiveSlotsFacts
<1>4. \A e \in ToSet(s) : e.lo \in Int
    <2> HIDE DEF s
    <2>1. \A i \in DOMAIN s : s[i] \in Slot
        BY <1>3
    <2>2. \A e \in ToSet(s) : e \in Slot
        BY <2>1 DEF ToSet
    <2> QED BY <2>2 DEF Slot
<1> QED BY <1>2, <1>4 DEF RandomKeys

(* Apply: the latched leaf has room for the one slot the operation needs.   *)
LEMMA ApplyStep ==
    ASSUME TreeInv, NEW w \in Writers, Apply(w)
    PROVE  TreeInv'
<1> DEFINE me == wr[w]
           c == me.curr
           p == pages[c]
           Result(k, q) == \/ q = p
                           \/ q = Push(p, k, clock)
                           \/ IsLive(p, k) /\ q = Push(Delete(p, k, clock), k, clock)
                           \/ IsLive(p, k) /\ q = Delete(p, k, clock)
<1>1. TypeInv /\ Latching /\ me.pc = "apply" /\ roots' = roots /\ load' = load /\ Move(w, IdleWriter, {}, latch[w])
    BY DEF TreeInv, Apply, writerRest
<1>2. PICK h : Heights(h)
    BY DEF TreeInv
<1>3. /\ WriterAt(h, pages, latch[w], me) /\ c \in 1 .. Len(pages) /\ p \in Page
      /\ PageAt(h, pages, c) /\ Len(p.slots) \in Nat
    BY <1>1, <1>2, PlaceFacts
<1>4. p.leaf /\ c \in latch[w] /\ HasRoom(p)
    BY <1>1, <1>3 DEF WriterAt
<1>5. LeafCount(p)
    BY <1>3, <1>4 DEF PageAt, Counted, LeafCount
<1>6. pages \in Seq(Page) /\ clock \in Nat /\ clock >= 1 /\ me.key \in Int
    BY <1>1, WriterFacts DEF TypeInv
<1>7. pages = [pages EXCEPT ![c] = p]
    BY <1>3, <1>6
<1>8. PICK k \in (IF IsRandom(w) THEN RandomKeys(w) ELSE {me.key}) :
          ApplyInsert(w, k) \/ ApplyUpdate(w, k) \/ ApplyDelete(w, k)
    BY DEF Apply
<1>9. k \in Int
    BY <1>1, <1>3, <1>6, RandomKeysTyped
<1> HIDE DEF p
<1>10. \E q : Result(k, q) /\ pages' = [pages EXCEPT ![c] = q] /\ clock' \in {clock, clock + 1}
    <2>1. CASE UNCHANGED <<pages, clock, book>>
        BY <1>7, <2>1
    <2>2. CASE clock' = clock + 1 /\ UNCHANGED <<pages, book>>
        BY <1>7, <2>2
    <2>3. CASE Commit(w, Push(p, k, clock), k, clock)
        BY <2>3 DEF Commit
    <2>4. CASE IsLive(p, k) /\ Commit(w, Push(Delete(p, k, clock), k, clock), k, clock)
        BY <2>4 DEF Commit
    <2>5. CASE IsLive(p, k) /\ Commit(w, Delete(p, k, clock), k, 0)
        BY <2>5 DEF Commit
    <2>6. CASE ApplyInsert(w, k)
        BY <2>1, <2>3, <2>6 DEF ApplyInsert, p
    <2>7. CASE ApplyUpdate(w, k)
        BY <2>1, <2>4, <2>7 DEF ApplyUpdate, p
    <2>8. CASE ApplyDelete(w, k)
        BY <2>2, <2>5, <2>8 DEF ApplyDelete, p
    <2> QED BY <1>8, <2>6, <2>7, <2>8
<1>11. PICK q : Result(k, q) /\ pages' = [pages EXCEPT ![c] = q] /\ clock' \in {clock, clock + 1}
    BY <1>10
<1>12. Replaces(p, q) /\ Counted(q) /\ q.leaf
    BY <1>4, <1>5, <1>6, <1>9, <1>11, LeafChange
<1>13. Fits(h, pages, h[c], q)
    BY <1>3, <1>4, <1>12 DEF Fits, PageAt, p
<1>14. /\ wr' \in [Writers -> Writer] /\ latch' \in [Writers -> SUBSET Nat]
       /\ wr'[w] = IdleWriter /\ latch'[w] = (latch[w] \ latch[w]) \cup {} /\ Others(w, {})
    <2>1. {} \in SUBSET Nat
        OBVIOUS
    <2> QED BY <1>1, <2>1, IdleTyped, MoveFacts
<1>15. IdleWriter.pc = "idle" /\ ~IdleWriter.indexLive /\ ~IdleWriter.currLive /\ ~IdleWriter.childLive
    BY DEF IdleWriter
<1> DEFINE Q == pages'
<1>16. Q = pages'
    OBVIOUS
<1> HIDE DEF Q
<1>17. WriterAt(h, Q, latch'[w], wr'[w])
    BY <1>14, <1>15, StartsAnywhere
<1>18. GoodVersions(w, wr'[w])
    BY <1>14, <1>15 DEF GoodVersions
<1>19. clock' \in Nat /\ clock' >= 1
    BY <1>6, <1>11
<1>20. Replaces(pages[c], q)
    BY <1>12 DEF p
<1> QED BY <1>2, <1>3, <1>4, <1>11, <1>13, <1>14, <1>16, <1>1, <1>17, <1>18, <1>19, <1>20, ChangeStep

-----------------------------------------------------------------------------
(* The theorem *)

LEMMA InitTreeInv == Init => TreeInv
<1> SUFFICES ASSUME Init PROVE TreeInv
    OBVIOUS
<1> DEFINE p == BulkPush(TRUE, << >>)
           h == [i \in {1} |-> 0]
           R == [ver : Int, page : Nat, height : Int]
           r == [ver |-> 1, page |-> 1, height |-> 1]
<1>1. /\ pages = << p >> /\ roots = << r >> /\ clock = 1 /\ latch = [w \in Writers |-> {}]
      /\ wr = [w \in Writers |-> IdleWriter] /\ load \in Preloads
    BY DEF Init
<1>2. p \in Page /\ p.leaf /\ p.slots = << >> /\ p.live = 0 /\ p.dead = 0
    BY DEF BulkPush, Page
<1>3. r \in R /\ r.page = 1
    OBVIOUS
<1> HIDE DEF p, r, R
<1>4. pages \in Seq(Page) /\ Len(pages) = 1 /\ pages[1] = p
    BY <1>1, <1>2
<1>5. roots \in Seq(R) /\ Len(roots) = 1 /\ roots[1] = r
    BY <1>1, <1>3
<1>6. \A i \in 1 .. Len(roots) : roots[i].page \in 1 .. Len(pages)
    <2>1. \A i \in 1 .. Len(roots) : i = 1
        BY <1>5
    <2> QED BY <1>3, <1>4, <1>5, <2>1
<1>7. TypeInv
    <2>1. load \in [ops : Seq(Calls), seen : Int, who : SUBSET Writers, may : SUBSET Calls, free : Nat]
        BY <1>1, TreeAssumption
    <2>2. wr \in [Writers -> Writer]
        BY <1>1, IdleTyped
    <2>3. latch \in [Writers -> SUBSET Nat]
        BY <1>1
    <2>4. clock \in Nat /\ clock >= 1 /\ Len(pages) >= 1 /\ Len(roots) >= 1
        BY <1>1, <1>4, <1>5
    <2> QED BY <1>4, <1>5, <1>6, <2>1, <2>2, <2>3, <2>4 DEF TypeInv, R
<1>8. IdleWriter.pc = "idle" /\ ~IdleWriter.indexLive /\ ~IdleWriter.currLive /\ ~IdleWriter.childLive
    BY DEF IdleWriter
<1>9. \A w \in Writers : wr[w] = IdleWriter /\ latch[w] = {}
    BY <1>1
<1>10. Latching
    BY <1>8, <1>9 DEF Latching
<1>11. Heights(h)
    <2>1. Active(p) = {}
        BY <1>2 DEF Active
    <2>2. Cardinality(Active(p)) = 0
        BY <2>1, FS_EmptySet
    <2>3. Len(p.slots) = 0 /\ NumRecords \in Nat
        BY <1>2, TreeAssumption
    <2>4. Counted(p)
        BY <1>2, <2>2, <2>3 DEF Counted
    <2>5. 1 .. Len(pages) = {1} /\ h \in [{1} -> Nat] /\ h[1] = 0
        BY <1>4
    <2>6. PageAt(h, pages, 1)
        BY <1>2, <1>4, <2>4, <2>5 DEF PageAt
    <2>7. Pages(h, pages)
        BY <2>5, <2>6 DEF Pages
    <2>8. \A w \in Writers : WriterAt(h, pages, latch[w], wr[w])
        BY <1>8, <1>9, StartsAnywhere
    <2> QED BY <2>7, <2>8 DEF Heights
<1> QED BY <1>7, <1>10, <1>11 DEF TreeInv

(* What readers do changes nothing that the invariant speaks of.            *)
LEMMA ReaderStays ==
    ASSUME TreeInv, UNCHANGED <<pages, roots, clock, latch, wr, load>>
    PROVE  TreeInv'
<1>1. PICK h : Heights(h)
    BY DEF TreeInv
<1>2. Heights(h)'
    BY <1>1 DEF Heights
<1>3. TypeInv' /\ Latching'
    BY DEF TreeInv, TypeInv, Latching
<1> QED BY <1>2, <1>3 DEF TreeInv

LEMMA WriterStepStays ==
    ASSUME TreeInv, NEW w \in Writers, WriterStep(w)
    PROVE  TreeInv'
<1>1. CASE BorrowIndex(w)
    BY <1>1, BorrowIndexStep
<1>2. CASE RootDegree(w)
    BY <1>2, RootDegreeStep
<1>3. CASE SplitRoot(w)
    BY <1>3, SplitRootStep
<1>4. CASE MergeRoot(w)
    BY <1>4, MergeRootStep
<1>5. CASE AppendRoot(w)
    BY <1>5, AppendRootStep
<1>6. CASE EndRoot(w)
    BY <1>6, EndRootStep
<1>7. CASE Descend(w)
    BY <1>7, DescendStep
<1>8. CASE ChildDegree(w)
    BY <1>8, ChildDegreeStep
<1>9. CASE OnOverflowNode(w)
    BY <1>9, OverflowStep
<1>10. CASE OnUnderflowNode(w)
    BY <1>10, UnderflowStep
<1>11. CASE PublishSmo(w)
    BY <1>11, PublishSmoStep
<1>12. CASE MarkVersionObsolete(w)
    BY <1>12, MarkStep
<1>13. CASE EndSmo(w)
    BY <1>13, EndSmoStep
<1>14. CASE UpgradeLeaf(w)
    BY <1>14, UpgradeLeafStep
<1>15. CASE Apply(w)
    BY <1>15, ApplyStep
<1>16. CASE NoRandomKey(w)
    BY <1>16, NoRandomKeyStep
<1> QED BY <1>1, <1>2, <1>3, <1>4, <1>5, <1>6, <1>7, <1>8, <1>9, <1>10, <1>11, <1>12, <1>13, <1>14,
           <1>15, <1>16 DEF WriterStep

LEMMA NextTreeInv == TreeInv /\ [Next]_vars => TreeInv'
<1> SUFFICES ASSUME TreeInv, [Next]_vars PROVE TreeInv'
    OBVIOUS
<1>1. CASE UNCHANGED vars
    BY <1>1, ReaderStays DEF vars
<1>2. ASSUME NEW w \in Writers, Dispatch(w) PROVE TreeInv'
    BY <1>2, DispatchStep
<1>3. ASSUME NEW w \in Writers, WriterStep(w) PROVE TreeInv'
    BY <1>3, WriterStepStays
<1>4. ASSUME NEW r \in Readers, Open(r) \/ ReaderStep(r) PROVE TreeInv'
    <2>1. UNCHANGED <<latch, wr, load, treeVars>>
        BY <1>4 DEF Open, ReaderStep, TraverseReadKey, PointRead, NextIndex, NextLeaf, Completed, Close
    <2>2. UNCHANGED <<pages, roots, clock, latch, wr, load>>
        BY <2>1 DEF treeVars
    <2> QED BY <2>2, ReaderStays
<1>5. CASE Finished
    BY <1>1, <1>5 DEF Finished
<1> QED BY <1>1, <1>2, <1>3, <1>4, <1>5 DEF Next
(* The inductive invariant: latches have one holder and a writer with a     *)
(* good latch version knows the page as it is; every slot of an index page  *)
(* points one level down; the counts of live and dead slots are those of    *)
(* the page; a writer that has found a leaf safe still finds room in it.    *)
THEOREM SpecTreeInv == Spec => []TreeInv
<1>1. Init => TreeInv
    BY InitTreeInv
<1>2. TreeInv /\ [Next]_vars => TreeInv'
    BY NextTreeInv
<1> QED BY <1>1, <1>2, PTL DEF Spec

(* No record is ever written behind the end of a leaf, whatever the number  *)
(* of writers, their operations, keyed or random, and the capacities.       *)
THEOREM SpecLeafRoom == Spec => []LeafRoom
<1>1. TreeInv => LeafRoom
    <2> SUFFICES ASSUME TreeInv, NEW i \in 1 .. Len(pages), pages[i].leaf
                 PROVE  Len(pages[i].slots) <= MaxUnits(pages[i])
        BY DEF LeafRoom
    <2>1. PICK h : Heights(h)
        BY DEF TreeInv
    <2>2. Counted(pages[i])
        BY <2>1 DEF Heights, Pages, PageAt
    <2> QED BY <2>2 DEF Counted, MaxUnits
<1> QED BY <1>1, SpecTreeInv, PTL
=============================================================================
