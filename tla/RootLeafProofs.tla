--------------------------- MODULE RootLeafProofs ---------------------------
(***************************************************************************)
(* Proofs about the tree whose root is a leaf, for any number of writers,   *)
(* readers, keys, records and pages: a writer that gets the latch of a leaf *)
(* has the current root with room for a record, however the root was split  *)
(* since it looked, and the lifetimes of a key's records do not overlap.    *)
(***************************************************************************)
EXTENDS RootLeaf, FiniteSetTheorems, WellFoundedInduction, TLAPS

(* Where a writer holds the leaf's latch, where it counts on room there,    *)
(* where it holds the index' latch, and where the new root is not yet in.   *)
LatchedPCs == {"latched", "peekMax", "overwrite", "commitRevived", "validate", "push",
               "commitLen", "kill", "commitDead", "end", "unlatch"}
RoomPCs  == {"latched", "peekMax", "overwrite", "commitRevived", "validate", "push", "commitLen"}
SplitPCs == {"collect", "copy", "startSplit", "append", "endSplit", "unlatchMaster"}
CopyPCs  == {"collect", "copy", "startSplit", "append"}

TypeInv ==
    /\ setup \in Setups
    /\ recs \in [Pages -> Seq(RecordType)]
    /\ active \in [Pages -> Int] /\ dead \in [Pages -> Int]
    /\ owner \in [Pages -> Writers \cup {None}]
    /\ master \in Writers \cup {None}
    /\ roots \in Seq(Nat) /\ Len(roots) \in Pages
    /\ wpc \in [Writers -> WriterPCs]
    /\ op \in [Writers -> Operations \cup {None}]
    /\ key \in [Writers -> Keys \cup {None}]
    /\ at \in [Writers -> Pages \cup {0}]
    /\ lcur \in [Writers -> BOOLEAN] /\ mcur \in [Writers -> BOOLEAN]
    /\ ver \in [Writers -> Nat] /\ clock \in Nat \ {0}
    /\ picked \in [Writers -> SUBSET Nat]

(* The records of a page that are counted and not deleted.                  *)
Live(p) == {i \in 1 .. Length(p) : ~IsDeleted(recs[p][i])}
LiveCount(p) == Cardinality(Live(p))

(* What a writer may rely on where it is.  A page that stopped being the    *)
(* root was full and stays so: whoever finds room, with nobody in between,  *)
(* has found the root.                                                      *)
WriterAt(w) ==
    /\ wpc[w] # "idle" => op[w] \in Operations /\ key[w] \in Keys
    /\ wpc[w] \notin {"idle", "load", "root"} => at[w] \in 1 .. Len(roots)
    /\ wpc[w] \in LatchedPCs => owner[at[w]] = w
    /\ wpc[w] \in SplitPCs => master = w
    /\ wpc[w] \in CopyPCs \cup {"upgradeMaster"} => Length(at[w]) >= NumRecords
    /\ wpc[w] \in {"borrow", "degree", "upgradeMaster"} /\ mcur[w] /\ master = None
          => at[w] = Len(roots)
    /\ wpc[w] \in CopyPCs => at[w] = Len(roots)
    /\ wpc[w] \in CopyPCs \ {"collect"} => NewPage \in Pages
    /\ wpc[w] \in {"endSplit", "unlatchMaster", "upgrade"} /\ lcur[w] /\ owner[at[w]] = None
          => Length(at[w]) < NumRecords
    /\ wpc[w] \in RoomPCs => Length(at[w]) < NumRecords
    /\ wpc[w] = "copy" => /\ picked[w] \subseteq 1 .. Len(recs[at[w]])
                          /\ Cardinality(picked[w]) < NumRecords
    /\ wpc[w] \in {"startSplit", "append"} => Length(NewPage) < NumRecords
    /\ wpc[w] \in {"push", "commitLen", "kill"} => ver[w] >= 1
    /\ wpc[w] = "commitDead" => LiveCount(at[w]) <= active[at[w]] - 1
    /\ wpc[w] = "commitRevived" => LiveCount(at[w]) <= active[at[w]] + 1

(* The writer in page p is at one of the steps in S.                        *)
OwnerAt(p, S) == owner[p] # None /\ wpc[owner[p]] \in S

PageAt(p) ==
    /\ owner[p] # None => OwnerAt(p, LatchedPCs) /\ at[owner[p]] = p
    /\ p < Len(roots) => Length(p) >= NumRecords
    /\ Length(p) >= 0
    /\ ~OwnerAt(p, {"commitLen"}) => Len(recs[p]) = Length(p)
    /\ OwnerAt(p, {"commitLen"}) => Len(recs[p]) = Length(p) + 1
    /\ ~OwnerAt(p, {"commitDead", "commitRevived"}) => LiveCount(p) <= active[p]

RoomInv ==
    /\ TypeInv
    /\ \A w \in Writers : WriterAt(w)
    /\ \A p \in Pages : PageAt(p)

---------------------------------------------------------------------------
(* Sets of positions.                                                       *)

(* A set of naturals with a bound has a largest element.                    *)
LEMMA MaxFacts ==
    ASSUME NEW n \in Nat, NEW S \in SUBSET (0 .. n), S # {}
    PROVE  Max(S) \in S /\ \A y \in S : y <= Max(S)
<1> DEFINE T == {n - x : x \in S}
<1>1. T \subseteq Nat /\ T # {}
    <2>1. \A x \in S : n - x \in Nat
        OBVIOUS
    <2>2. \A y \in T : y \in Nat
        BY <2>1
    <2>3. PICK x \in S : TRUE
        OBVIOUS
    <2>4. n - x \in T
        BY <2>3
    <2> QED BY <2>2, <2>4
<1>2. \E x \in T : \A y \in T : ~(<<y, x>> \in OpToRel(<, Nat))
    BY <1>1, NatLessThanWellFounded, WFMin
<1>3. PICK x \in T : \A y \in T : ~(y < x)
    BY <1>1, <1>2 DEF OpToRel
<1>4. PICK m \in S : x = n - m
    OBVIOUS
<1>5. \A y \in S : m >= y
    <2> SUFFICES ASSUME NEW y \in S PROVE m >= y
        OBVIOUS
    <2>1. ~(n - y < n - m)
        BY <1>3, <1>4
    <2> QED BY <2>1
<1> HIDE DEF T
<1>6. \E z \in S : \A y \in S : z >= y
    BY <1>5
<1>7. Max(S) \in S /\ \A y \in S : Max(S) >= y
    BY <1>6 DEF Max
<1> QED BY <1>7

(* The elements of a set of positions can be counted off in order.          *)
LEMMA RankFacts ==
    ASSUME NEW n \in Nat, NEW I \in SUBSET (1 .. n)
    PROVE  /\ IsFiniteSet(I) /\ Cardinality(I) \in 0 .. n
           /\ \A m \in 1 .. Cardinality(I) : \E i \in I : Cardinality({j \in I : j <= i}) = m
           /\ \A i, k \in I : i < k => Cardinality({j \in I : j <= i}) < Cardinality({j \in I : j <= k})
<1>0. IsFiniteSet(I) /\ Cardinality(I) \in Nat /\ Cardinality(I) <= n
    <2>1. IsFiniteSet(1 .. n) /\ Cardinality(1 .. n) = n
        BY FS_Interval
    <2> QED BY <2>1, FS_Subset, FS_CardinalityType
<1> DEFINE UpTo(i) == {j \in I : j <= i}
           rank == [i \in I |-> Cardinality(UpTo(i))]
<1>1. \A i \in I : IsFiniteSet(UpTo(i)) /\ Cardinality(UpTo(i)) \in 1 .. Cardinality(I)
    <2> TAKE i \in I
    <2>1. UpTo(i) \subseteq I /\ i \in UpTo(i)
        OBVIOUS
    <2>2. IsFiniteSet(UpTo(i)) /\ Cardinality(UpTo(i)) <= Cardinality(I) /\ Cardinality(UpTo(i)) \in Nat
        BY <1>0, <2>1, FS_Subset, FS_CardinalityType
    <2>3. Cardinality(UpTo(i)) # 0
        BY <2>1, <2>2, FS_EmptySet
    <2> QED BY <1>0, <2>2, <2>3
<1>2. \A i, k \in I : i < k => Cardinality(UpTo(i)) < Cardinality(UpTo(k))
    <2> SUFFICES ASSUME NEW i \in I, NEW k \in I, i < k
                 PROVE  Cardinality(UpTo(i)) < Cardinality(UpTo(k))
        OBVIOUS
    <2>1. UpTo(i) \subseteq UpTo(k) /\ k \in UpTo(k) /\ k \notin UpTo(i)
        <3>1. \A j \in I : j \in Int
            OBVIOUS
        <3>2. \A j \in I : j <= i => j <= k
            BY <3>1
        <3>3. k <= k /\ ~(k <= i)
            BY <3>1
        <3> QED BY <3>2, <3>3
    <2>2. Cardinality(UpTo(i)) <= Cardinality(UpTo(k)) /\ Cardinality(UpTo(i)) # Cardinality(UpTo(k))
        BY <1>1, <2>1, FS_Subset
    <2> QED BY <1>1, <2>2
<1>3. rank \in Injection(I, 1 .. Cardinality(I))
    <2>1. rank \in [I -> 1 .. Cardinality(I)]
        BY <1>1
    <2>2. \A i, k \in I : rank[i] = rank[k] => i = k
        <3> SUFFICES ASSUME NEW i \in I, NEW k \in I, Cardinality(UpTo(i)) = Cardinality(UpTo(k)), i # k
                     PROVE  FALSE
            OBVIOUS
        <3>1. i < k \/ k < i
            OBVIOUS
        <3> QED BY <1>1, <1>2, <3>1
    <2> QED BY <2>1, <2>2 DEF Injection, IsInjective
<1>4. IsFiniteSet(1 .. Cardinality(I)) /\ Cardinality(1 .. Cardinality(I)) = Cardinality(I)
    BY <1>0, FS_Interval
<1>5. rank \in Surjection(I, 1 .. Cardinality(I))
    BY <1>3, <1>4, FS_Injection
<1>6. \A m \in 1 .. Cardinality(I) : \E i \in I : rank[i] = m
    BY <1>5 DEF Surjection
<1> QED BY <1>0, <1>2, <1>6

(* rfind finds the last record of the key, or none.                         *)
LEMMA RFindFacts ==
    ASSUME NEW p, NEW k, NEW n \in Int
    PROVE  /\ RFind(p, k, n) = 0 \/ RFind(p, k, n) \in 1 .. n
           /\ RFind(p, k, n) # 0 => recs[p][RFind(p, k, n)].key = k
           /\ \A j \in 1 .. n : recs[p][j].key = k => j <= RFind(p, k, n)
<1> DEFINE S == {i \in 1 .. n : recs[p][i].key = k} \cup {0}
<1>1. PICK m \in Nat : n <= m
    <2>1. n \in Nat \/ n < 0
        OBVIOUS
    <2> QED BY <2>1
<1>2. S \in SUBSET (0 .. m) /\ S # {}
    BY <1>1
<1>3. Max(S) \in S /\ \A y \in S : y <= Max(S)
    BY <1>2, MaxFacts
<1>4. RFind(p, k, n) = Max(S)
    BY DEF RFind
<1> QED BY <1>3, <1>4

(* The live records of a page are some of those counted.                    *)
LEMMA LiveFacts ==
    ASSUME TypeInv, NEW p \in Pages
    PROVE  /\ IsFiniteSet(Live(p)) /\ LiveCount(p) \in Nat
           /\ Length(p) \in Int
           /\ Length(p) >= 0 => LiveCount(p) <= Length(p)
<1>1. Length(p) \in Int
    BY DEF TypeInv, Length
<1>2. IsFiniteSet(1 .. Length(p)) /\ (Length(p) >= 0 => Cardinality(1 .. Length(p)) = Length(p))
    BY <1>1, FS_Interval
<1>3. Live(p) \in SUBSET (1 .. Length(p))
    BY DEF Live
<1>4. IsFiniteSet(Live(p)) /\ Cardinality(Live(p)) <= Cardinality(1 .. Length(p))
    BY <1>2, <1>3, FS_Subset
<1> QED BY <1>1, <1>2, <1>4, FS_CardinalityType DEF LiveCount

---------------------------------------------------------------------------
(* What a writer's step leaves of the invariant.                            *)

OthersStay(w) ==
    \A u \in Writers \ {w} :
        /\ wpc'[u] = wpc[u] /\ op'[u] = op[u] /\ key'[u] = key[u] /\ at'[u] = at[u]
        /\ ver'[u] = ver[u] /\ picked'[u] = picked[u]

CommitPCs == {"commitLen", "commitDead", "commitRevived"}

(* The parts of the state the invariant is about.                           *)
core == <<setup, clock, recs, active, dead, owner, master, roots, wpc, op, key, at,
          lcur, mcur, ver, picked>>

LEMMA CoreStays == ASSUME RoomInv, UNCHANGED core PROVE RoomInv'
<1>1. TypeInv'
    BY DEF core, RoomInv, TypeInv
<1>2. \A w \in Writers : WriterAt(w)'
    BY DEF core, RoomInv, WriterAt, Length, NewPage, LiveCount, Live
<1>3. \A p \in Pages : PageAt(p)'
    BY DEF core, RoomInv, PageAt, OwnerAt, Length, LiveCount, Live
<1> QED BY <1>1, <1>2, <1>3 DEF RoomInv

(* The constants, without their names.                                      *)
LEMMA Bounds ==
    /\ NumRecords \in Nat /\ NumRecords >= 1 /\ MaxPages \in Nat /\ MaxPages >= 1
    /\ \A w \in Writers : w # None
BY RootLeafAssumption DEF None

(* The page a writer is in.                                                 *)
LEMMA AtPage ==
    ASSUME RoomInv, NEW w \in Writers, wpc[w] \notin {"idle", "load", "root"}
    PROVE  /\ at[w] \in Pages /\ at[w] \in Int /\ 1 <= at[w] /\ at[w] <= Len(roots)
           /\ PageAt(at[w]) /\ Length(at[w]) \in Int
           /\ wpc[w] \in LatchedPCs => owner[at[w]] = w
<1>1. WriterAt(w) /\ Len(roots) \in 1 .. MaxPages
    BY DEF RoomInv, TypeInv, Pages
<1>2. at[w] \in 1 .. Len(roots) /\ (wpc[w] \in LatchedPCs => owner[at[w]] = w)
    BY <1>1 DEF WriterAt
<1>3. at[w] \in Pages /\ at[w] \in Int /\ 1 <= at[w] /\ at[w] <= Len(roots)
    BY <1>1, <1>2, Bounds DEF Pages
<1>4. Length(at[w]) \in Int
    BY <1>3 DEF RoomInv, TypeInv, Length
<1> QED BY <1>2, <1>3, <1>4 DEF RoomInv

(* Only a writer past the upgrade owns a page.                              *)
LEMMA NotOwner ==
    ASSUME RoomInv, NEW w \in Writers, wpc[w] \notin LatchedPCs, NEW p \in Pages
    PROVE  PageAt(p) /\ owner[p] \in Writers \cup {None} /\ owner[p] # w
<1>1. PageAt(p) /\ owner[p] \in Writers \cup {None} /\ w # None
    BY Bounds DEF RoomInv, TypeInv
<1>2. owner[p] # None => wpc[owner[p]] \in LatchedPCs
    BY <1>1 DEF PageAt, OwnerAt
<1> QED BY <1>1, <1>2

(* A step that leaves pages, latches and the index alone.                   *)
LEMMA LocalStep ==
    ASSUME RoomInv, NEW w \in Writers, TypeInv', OthersStay(w),
           UNCHANGED <<setup, recs, active, dead, owner, master, roots>>,
           \A u \in Writers \ {w} : lcur'[u] = lcur[u] /\ mcur'[u] = mcur[u],
           WriterAt(w)',
           wpc[w] \in LatchedPCs => wpc'[w] \in LatchedPCs /\ at'[w] = at[w],
           wpc[w] \notin CommitPCs, wpc'[w] \notin CommitPCs
    PROVE  RoomInv'
<1>1. \A p \in Pages : Length(p)' = Length(p) /\ LiveCount(p)' = LiveCount(p)
    BY DEF Length, LiveCount, Live
<1>2. NewPage' = NewPage
    BY DEF NewPage
<1>3. \A u \in Writers \ {w} : WriterAt(u)'
    <2> SUFFICES ASSUME NEW u \in Writers \ {w} PROVE WriterAt(u)'
        OBVIOUS
    <2>1. /\ WriterAt(u) /\ wpc'[u] = wpc[u] /\ op'[u] = op[u] /\ key'[u] = key[u]
          /\ at'[u] = at[u] /\ picked'[u] = picked[u] /\ lcur'[u] = lcur[u] /\ mcur'[u] = mcur[u]
          /\ ver'[u] = ver[u]
        BY DEF RoomInv, OthersStay
    <2>2. Length(at[u])' = Length(at[u]) /\ LiveCount(at[u])' = LiveCount(at[u])
        BY <2>1 DEF Length, LiveCount, Live
    <2>3. Length(NewPage)' = Length(NewPage)
        BY DEF Length, NewPage
    <2> QED BY <1>2, <2>1, <2>2, <2>3 DEF WriterAt
<1>4. \A p \in Pages : PageAt(p)'
    <2> SUFFICES ASSUME NEW p \in Pages PROVE PageAt(p)'
        OBVIOUS
    <2>1. PageAt(p) /\ owner[p] \in Writers \cup {None}
        BY DEF RoomInv, TypeInv
    <2>2. \A S \in SUBSET CommitPCs : OwnerAt(p, S)' <=> OwnerAt(p, S)
        BY <2>1 DEF OwnerAt, OthersStay
    <2>3. owner[p] # None => OwnerAt(p, LatchedPCs)' /\ at'[owner[p]] = p
        BY <2>1 DEF PageAt, OwnerAt, OthersStay
    <2>4. {"commitLen"} \in SUBSET CommitPCs /\ {"commitDead", "commitRevived"} \in SUBSET CommitPCs
        BY DEF CommitPCs
    <2> QED BY <1>1, <2>1, <2>2, <2>3, <2>4 DEF PageAt
<1> QED BY <1>3, <1>4 DEF RoomInv

(* A step of the writer in a page: only that page changes, and it does not  *)
(* lose records.                                                            *)
LEMMA PageStep ==
    ASSUME RoomInv, NEW w \in Writers, TypeInv', OthersStay(w),
           UNCHANGED <<setup, owner, master, roots, at, lcur, mcur>>,
           wpc[w] \in LatchedPCs, wpc'[w] \in LatchedPCs,
           \A p \in Pages \ {at[w]} : recs'[p] = recs[p] /\ active'[p] = active[p] /\ dead'[p] = dead[p],
           Length(at[w])' >= Length(at[w]),
           WriterAt(w)', PageAt(at[w])'
    PROVE  RoomInv'
<1> DEFINE q == at[w]
<1>0. /\ q \in Pages /\ q \in Int /\ q <= Len(roots) /\ Len(roots) \in Int /\ owner[q] = w
      /\ w # None /\ WriterAt(w) /\ PageAt(q) /\ Length(q) \in Int
    <2>1. wpc[w] \notin {"idle", "load", "root"}
        BY DEF LatchedPCs
    <2>2. Len(roots) \in Int
        BY DEF RoomInv, TypeInv
    <2> QED BY <2>1, <2>2, AtPage, Bounds DEF RoomInv
<1>1. \A p \in Pages \ {q} : Length(p)' = Length(p) /\ LiveCount(p)' = LiveCount(p)
    BY DEF Length, LiveCount, Live
<1>2. NewPage' = NewPage /\ NewPage # q
    BY <1>0 DEF NewPage
<1>a. q' = q /\ Length(q)' \in Int /\ Length(q)' >= Length(q) /\ NumRecords \in Int
    BY <1>0, Bounds DEF TypeInv, Length
<1>3. \A u \in Writers \ {w} : WriterAt(u)'
    <2> SUFFICES ASSUME NEW u \in Writers \ {w} PROVE WriterAt(u)'
        OBVIOUS
    <2>1. /\ WriterAt(u) /\ wpc'[u] = wpc[u] /\ op'[u] = op[u] /\ key'[u] = key[u]
          /\ picked'[u] = picked[u] /\ ver'[u] = ver[u]
        BY DEF RoomInv, OthersStay
    <2>0. wpc[u] \in {"startSplit", "append"} => Length(NewPage)' < NumRecords
        <3> SUFFICES ASSUME wpc[u] \in {"startSplit", "append"} PROVE Length(NewPage)' < NumRecords
            OBVIOUS
        <3>1. NewPage \in Pages \ {q} /\ Length(NewPage) < NumRecords
            BY <1>2, <2>1 DEF WriterAt, CopyPCs
        <3>2. Length(NewPage)' = Length(NewPage)
            BY <1>1, <1>2, <3>1
        <3> QED BY <3>1, <3>2
    <2>2. CASE at[u] = q
        <3>1. wpc[u] \notin LatchedPCs
            BY <1>0, <2>1, <2>2 DEF WriterAt
        <3>2. wpc[u] = "copy" => Len(recs'[q]) >= Len(recs[q])
            <4> SUFFICES ASSUME wpc[u] = "copy" PROVE Len(recs'[q]) >= Len(recs[q])
                OBVIOUS
            <4>1. Length(q) >= NumRecords
                BY <2>1, <2>2 DEF WriterAt, CopyPCs
            <4>2. wpc[w] # "commitLen"
                <5>1. wpc[w] = "commitLen" => Length(q) < NumRecords
                    BY <1>0 DEF WriterAt, RoomPCs
                <5> QED BY <1>0, <1>a, <4>1, <5>1
            <4>3. Len(recs[q]) = Length(q)
                BY <1>0, <4>2 DEF PageAt, OwnerAt
            <4>4. Len(recs'[q]) = Length(q)' \/ Len(recs'[q]) = Length(q)' + 1
                BY DEF PageAt
            <4> QED BY <1>a, <1>0, <4>3, <4>4
        <3>4. Length(q) >= NumRecords => Length(q)' >= NumRecords
            BY <1>0, <1>a
        <3>6. wpc[u] = "copy" => picked[u] \subseteq 1 .. Len(recs'[q])
            <4> SUFFICES ASSUME wpc[u] = "copy" PROVE picked[u] \subseteq 1 .. Len(recs'[q])
                OBVIOUS
            <4>1. picked[u] \subseteq 1 .. Len(recs[q])
                BY <2>1, <2>2 DEF WriterAt
            <4>2. Len(recs[q]) \in Int /\ Len(recs'[q]) \in Int
                BY <1>0 DEF RoomInv, TypeInv
            <4>3. \A i \in picked[u] : i \in Int /\ 1 <= i /\ i <= Len(recs[q])
                BY <4>1, <4>2
            <4>4. Len(recs'[q]) >= Len(recs[q])
                BY <3>2
            <4>5. \A i \in picked[u] : i \in 1 .. Len(recs'[q])
                <5> TAKE i \in picked[u]
                <5> QED BY <4>2, <4>3, <4>4
            <4> QED BY <4>5
        <3>7. RoomPCs \subseteq LatchedPCs /\ "commitDead" \in LatchedPCs /\ "commitRevived" \in LatchedPCs
            BY DEF RoomPCs, LatchedPCs
        <3>8. owner[q] # None
            BY <1>0
        <3> HIDE DEF q
        <3> QED BY <1>a, <1>2, <2>0, <2>1, <2>2, <3>1, <3>4, <3>6, <3>7, <3>8 DEF WriterAt
    <2>3. CASE at[u] # q
        <3>1. wpc[u] \notin {"idle", "load", "root"} => at[u] \in Pages
            BY AtPage
        <3>2. wpc[u] \notin {"idle", "load", "root"} =>
                 /\ Length(at[u])' = Length(at[u]) /\ LiveCount(at[u])' = LiveCount(at[u])
                 /\ recs'[at[u]] = recs[at[u]] /\ active'[at[u]] = active[at[u]]
            BY <1>1, <2>3, <3>1
        <3>3. (LatchedPCs \cup RoomPCs \cup SplitPCs \cup CopyPCs) \cap {"idle", "load", "root"} = {}
            BY DEF LatchedPCs, RoomPCs, SplitPCs, CopyPCs
        <3> HIDE DEF q
        <3> QED BY <1>2, <2>0, <2>1, <3>1, <3>2, <3>3 DEF WriterAt
    <2> QED BY <2>2, <2>3
<1>4. \A p \in Pages \ {q} : PageAt(p)'
    <2> SUFFICES ASSUME NEW p \in Pages \ {q} PROVE PageAt(p)'
        OBVIOUS
    <2>1. PageAt(p) /\ owner[p] \in Writers \cup {None} /\ owner[p] # w
        BY <1>0 DEF RoomInv, TypeInv, PageAt
    <2>2. \A S : OwnerAt(p, S)' <=> OwnerAt(p, S)
        BY <2>1 DEF OwnerAt, OthersStay
    <2> QED BY <1>1, <2>1, <2>2 DEF PageAt
<1> QED BY <1>3, <1>4 DEF RoomInv

---------------------------------------------------------------------------
(* The steps of a writer that touch neither page, latch nor index.          *)

(* The version a commit draws or gives up.                                  *)
LEMMA CommitTypes ==
    ASSUME TypeInv, NEW w \in Writers, StartTxCommit(w) \/ EndTxCommit(w)
    PROVE  /\ clock' \in Nat \ {0} /\ ver' \in [Writers -> Nat]
           /\ StartTxCommit(w) => ver'[w] >= 1
           /\ \A u \in Writers \ {w} : ver'[u] = ver[u]
<1>1. CASE StartTxCommit(w)
    BY <1>1 DEF TypeInv, StartTxCommit, Clock!Begin
<1>2. CASE EndTxCommit(w) /\ ~StartTxCommit(w)
    BY <1>2 DEF TypeInv, EndTxCommit, Clock!Finish
<1> QED BY <1>1, <1>2

(* The writer that holds the latch goes on without a commit to the page.    *)
LEMMA LatchedMove ==
    ASSUME RoomInv, NEW w \in Writers, NEW t \in LatchedPCs,
           wpc[w] \in LatchedPCs \ CommitPCs, t \notin CommitPCs,
           t \in RoomPCs => wpc[w] \in RoomPCs,
           wpc' = [wpc EXCEPT ![w] = t],
           UNCHANGED <<setup, recs, active, dead, owner, master, roots, op, key, at, lcur,
                       mcur, picked>>,
           clock' \in Nat \ {0}, ver' \in [Writers -> Nat], \A u \in Writers \ {w} : ver'[u] = ver[u],
           t \in {"push", "kill"} => ver'[w] >= 1
    PROVE  RoomInv'
<1>1. TypeInv'
    <2>1. t \in WriterPCs
        BY DEF LatchedPCs, WriterPCs
    <2> QED BY <2>1 DEF RoomInv, TypeInv
<1>2. wpc'[w] = t
    BY DEF RoomInv, TypeInv
<1>3. OthersStay(w)
    BY DEF OthersStay, RoomInv, TypeInv
<1>4. WriterAt(w)'
    <2>1. WriterAt(w) /\ wpc[w] \notin {"idle", "load", "root"}
        BY DEF RoomInv, LatchedPCs
    <2>2. Length(at[w])' = Length(at[w])
        BY DEF Length
    <2>3. /\ t \notin CopyPCs \cup SplitPCs \cup {"upgradeMaster", "borrow", "degree", "endSplit",
                 "unlatchMaster", "upgrade", "copy", "startSplit", "append", "commitLen", "commitDead", "commitRevived"}
        BY DEF LatchedPCs, CommitPCs, CopyPCs, SplitPCs
    <2> QED BY <1>2, <2>1, <2>2, <2>3 DEF WriterAt
<1> QED BY <1>1, <1>2, <1>3, <1>4, LocalStep

(* Every step of an operation that leaves the page alone.                   *)
LEMMA OperateLocally ==
    ASSUME RoomInv, NEW w \in Writers, UNCHANGED setup,
           \/ StartInsert(w) \/ Reject(w) \/ StartUpdate(w) \/ PeekMax(w) \/ StartUpdateCommit(w)
           \/ StartDelete(w) \/ AbandonDelete(w) \/ EndOperation(w)
    PROVE  RoomInv'
<1> DEFINE Still == UNCHANGED <<setup, recs, active, dead, owner, master, roots, op, key, at, lcur,
                                mcur, picked>>
           Versions == /\ clock' \in Nat \ {0} /\ ver' \in [Writers -> Nat]
                       /\ \A u \in Writers \ {w} : ver'[u] = ver[u]
           Moves(f, t) == wpc[w] = f /\ wpc' = [wpc EXCEPT ![w] = t]
<1>0. TypeInv
    BY DEF RoomInv
<1>t. UNCHANGED <<clock, ver>> => Versions
    BY <1>0 DEF TypeInv
<1> HIDE DEF Versions
<1>v. /\ StartTxCommit(w) \/ EndTxCommit(w) => Versions
      /\ StartTxCommit(w) => ver'[w] >= 1
    BY <1>0, CommitTypes DEF Versions
<1>1. CASE StartInsert(w)
    <2>1. Still /\ Versions /\ ver'[w] >= 1 /\ Moves("latched", "push")
        BY <1>1, <1>v DEF StartInsert, WGoto, pageVars, latchVars
    <2> QED BY <2>1, LatchedMove DEF Versions, LatchedPCs, CommitPCs, RoomPCs
<1>2. CASE Reject(w)
    <2>1. Still /\ Versions /\ (Moves("latched", "unlatch") \/ Moves("validate", "unlatch"))
        BY <1>2, <1>t DEF Reject, pageVars, latchVars, clockVars
    <2> QED BY <2>1, LatchedMove DEF Versions, LatchedPCs, CommitPCs, RoomPCs
<1>3. CASE StartUpdate(w)
    <2>1. Still /\ Versions /\ (Moves("latched", "peekMax") \/ Moves("latched", "validate"))
        BY <1>3, <1>t DEF StartUpdate, pageVars, latchVars, clockVars
    <2> QED BY <2>1, LatchedMove DEF Versions, LatchedPCs, CommitPCs, RoomPCs
<1>4. CASE PeekMax(w)
    <2>1. Still /\ Versions
        BY <1>4, <1>t DEF PeekMax, pageVars, latchVars, clockVars
    <2>2. Moves("peekMax", "overwrite") \/ Moves("peekMax", "validate")
        BY <1>4 DEF PeekMax
    <2> QED BY <2>1, <2>2, LatchedMove DEF Versions, LatchedPCs, CommitPCs, RoomPCs
<1>5. CASE StartUpdateCommit(w)
    <2>1. Still /\ Versions /\ ver'[w] >= 1 /\ Moves("validate", "push")
        BY <1>5, <1>v DEF StartUpdateCommit, WGoto, pageVars, latchVars
    <2> QED BY <2>1, LatchedMove DEF Versions, LatchedPCs, CommitPCs, RoomPCs
<1>6. CASE StartDelete(w)
    <2>1. Still /\ Versions /\ ver'[w] >= 1 /\ Moves("latched", "kill")
        BY <1>6, <1>v DEF StartDelete, WGoto, pageVars, latchVars
    <2> QED BY <2>1, LatchedMove DEF Versions, LatchedPCs, CommitPCs, RoomPCs
<1>7. CASE AbandonDelete(w)
    <2>1. Still /\ Versions /\ Moves("kill", "unlatch")
        BY <1>7, <1>v DEF AbandonDelete, WGoto, pageVars, latchVars
    <2> QED BY <2>1, LatchedMove DEF Versions, LatchedPCs, CommitPCs, RoomPCs
<1>8. CASE EndOperation(w)
    <2>1. Still /\ Versions /\ Moves("end", "unlatch")
        BY <1>8, <1>v DEF EndOperation, WGoto, pageVars, latchVars
    <2> QED BY <2>1, LatchedMove DEF Versions, LatchedPCs, CommitPCs, RoomPCs
<1> QED BY <1>1, <1>2, <1>3, <1>4, <1>5, <1>6, <1>7, <1>8

---------------------------------------------------------------------------
(* The descent.                                                             *)

LEMMA SetupFacts == ASSUME TypeInv PROVE setup.ops \subseteq Operations /\ setup.together \in Nat
BY RootLeafAssumption DEF TypeInv, Setup

LEMMA DispatchRoom ==
    ASSUME RoomInv, NEW w \in Writers, UNCHANGED setup, Dispatch(w)
    PROVE  RoomInv'
<1> USE DEF Dispatch, WGoto, pageVars, latchVars, clockVars
<1>1. PICK o \in setup.ops, k \in Keys : op' = [op EXCEPT ![w] = o] /\ key' = [key EXCEPT ![w] = k]
    OBVIOUS
<1>2. TypeInv /\ WriterAt(w) /\ o \in Operations
    BY SetupFacts DEF RoomInv
<1>3. TypeInv'
    <2>1. "load" \in WriterPCs
        BY DEF WriterPCs
    <2> QED BY <1>1, <1>2, <2>1 DEF TypeInv
<1>4. OthersStay(w)
    BY <1>1, <1>2 DEF OthersStay, TypeInv
<1>5. wpc[w] = "idle" /\ wpc'[w] = "load" /\ op'[w] = o /\ key'[w] = k
    BY <1>1, <1>2 DEF TypeInv
<1>6. WriterAt(w)'
    BY <1>2, <1>5 DEF WriterAt, LatchedPCs, SplitPCs, CopyPCs, RoomPCs
<1>7. wpc[w] \notin LatchedPCs \cup SplitPCs \cup CommitPCs /\ wpc'[w] \notin CommitPCs
    BY <1>5 DEF LatchedPCs, SplitPCs, CommitPCs
<1> QED BY <1>3, <1>4, <1>6, <1>7, LocalStep

LEMMA BorrowMasterRoom ==
    ASSUME RoomInv, NEW w \in Writers, UNCHANGED setup, BorrowMaster(w)
    PROVE  RoomInv'
<1> USE DEF BorrowMaster, WGoto, pageVars, latchVars, clockVars
<1>1. TypeInv /\ WriterAt(w)
    BY DEF RoomInv
<1>2. TypeInv'
    <2>1. "root" \in WriterPCs /\ (master = None) \in BOOLEAN
        BY DEF WriterPCs
    <2> QED BY <1>1, <2>1 DEF TypeInv
<1>3. OthersStay(w) /\ \A u \in Writers \ {w} : mcur'[u] = mcur[u]
    BY <1>1 DEF OthersStay, TypeInv
<1>4. wpc[w] = "load" /\ wpc'[w] = "root"
    BY <1>1 DEF TypeInv
<1>5. WriterAt(w)'
    BY <1>1, <1>4 DEF WriterAt, LatchedPCs, SplitPCs, CopyPCs, RoomPCs
<1>6. wpc[w] \notin LatchedPCs \cup SplitPCs \cup CommitPCs /\ wpc'[w] \notin CommitPCs
    BY <1>4 DEF LatchedPCs, SplitPCs, CommitPCs
<1> QED BY <1>2, <1>3, <1>5, <1>6, LocalStep

LEMMA LoadRootRoom ==
    ASSUME RoomInv, NEW w \in Writers, UNCHANGED setup, LoadRoot(w)
    PROVE  RoomInv'
<1> USE DEF LoadRoot, WGoto, pageVars, latchVars, clockVars
<1>1. TypeInv /\ WriterAt(w)
    BY DEF RoomInv
<1>2. TypeInv'
    <2>1. "borrow" \in WriterPCs
        BY DEF WriterPCs
    <2> QED BY <1>1, <2>1 DEF TypeInv
<1>3. OthersStay(w)
    BY <1>1 DEF OthersStay, TypeInv
<1>4. wpc[w] = "root" /\ wpc'[w] = "borrow" /\ at'[w] = Len(roots) /\ Len(roots) \in 1 .. Len(roots)
    BY <1>1, Bounds DEF TypeInv, Pages
<1>5. WriterAt(w)'
    BY <1>1, <1>4 DEF WriterAt, LatchedPCs, SplitPCs, CopyPCs, RoomPCs
<1>6. wpc[w] \notin LatchedPCs \cup SplitPCs \cup CommitPCs /\ wpc'[w] \notin CommitPCs
    BY <1>4 DEF LatchedPCs, SplitPCs, CommitPCs
<1> QED BY <1>2, <1>3, <1>5, <1>6, LocalStep

LEMMA BorrowLeafRoom ==
    ASSUME RoomInv, NEW w \in Writers, UNCHANGED setup, BorrowLeaf(w)
    PROVE  RoomInv'
<1> USE DEF BorrowLeaf, WGoto, pageVars, latchVars, clockVars
<1>1. TypeInv /\ WriterAt(w)
    BY DEF RoomInv
<1>2. TypeInv'
    <2>1. "degree" \in WriterPCs /\ (owner[at[w]] = None) \in BOOLEAN
        BY DEF WriterPCs
    <2> QED BY <1>1, <2>1 DEF TypeInv
<1>3. OthersStay(w) /\ \A u \in Writers \ {w} : lcur'[u] = lcur[u]
    BY <1>1 DEF OthersStay, TypeInv
<1>4. wpc[w] = "borrow" /\ wpc'[w] = "degree"
    BY <1>1 DEF TypeInv
<1>5. WriterAt(w)'
    BY <1>1, <1>4 DEF WriterAt, LatchedPCs, SplitPCs, CopyPCs, RoomPCs
<1>6. wpc[w] \notin LatchedPCs \cup SplitPCs \cup CommitPCs /\ wpc'[w] \notin CommitPCs
    BY <1>4 DEF LatchedPCs, SplitPCs, CommitPCs
<1> QED BY <1>2, <1>3, <1>5, <1>6, LocalStep

LEMMA UnsafeDegreeRootRoom ==
    ASSUME RoomInv, NEW w \in Writers, UNCHANGED setup, UnsafeDegreeRoot(w)
    PROVE  RoomInv'
<1> USE DEF UnsafeDegreeRoot, pageVars, latchVars, clockVars
<1>1. TypeInv /\ WriterAt(w)
    BY DEF RoomInv
<1>2. TypeInv'
    <2>1. {"upgradeMaster", "upgrade"} \subseteq WriterPCs
        BY DEF WriterPCs
    <2> QED BY <1>1, <2>1 DEF TypeInv
<1>3. OthersStay(w)
    BY <1>1 DEF OthersStay, TypeInv
<1>4. wpc[w] = "degree" /\ Length(at[w])' = Length(at[w]) /\ Length(at[w]) \in Int /\ NumRecords \in Int
    BY AtPage, Bounds DEF Length
<1>5. \/ wpc'[w] = "upgradeMaster" /\ Length(at[w]) >= NumRecords
      \/ wpc'[w] = "upgrade" /\ Length(at[w]) < NumRecords
    BY <1>1, <1>4 DEF TypeInv
<1>6. WriterAt(w)'
    BY <1>1, <1>4, <1>5 DEF WriterAt, LatchedPCs, SplitPCs, CopyPCs, RoomPCs
<1>7. wpc[w] \notin LatchedPCs \cup SplitPCs \cup CommitPCs /\ wpc'[w] \notin CommitPCs
    BY <1>4, <1>5 DEF LatchedPCs, SplitPCs, CommitPCs
<1> QED BY <1>2, <1>3, <1>6, <1>7, LocalStep

(* A compare-exchange that fails: the descent starts again.                 *)
LEMMA Restart ==
    ASSUME RoomInv, NEW w \in Writers, wpc[w] \in {"upgradeMaster", "upgrade"},
           wpc' = [wpc EXCEPT ![w] = "load"],
           UNCHANGED <<setup, clock, recs, active, dead, owner, master, roots, op, key, at,
                       lcur, mcur, ver, picked>>
    PROVE  RoomInv'
<1>1. TypeInv /\ WriterAt(w)
    BY DEF RoomInv
<1>2. TypeInv'
    <2>1. "load" \in WriterPCs
        BY DEF WriterPCs
    <2> QED BY <1>1, <2>1 DEF TypeInv
<1>3. OthersStay(w) /\ wpc'[w] = "load"
    BY <1>1 DEF OthersStay, TypeInv
<1>4. WriterAt(w)'
    BY <1>1, <1>3 DEF WriterAt, LatchedPCs, SplitPCs, CopyPCs, RoomPCs
<1>5. wpc[w] \notin LatchedPCs \cup SplitPCs \cup CommitPCs /\ wpc'[w] \notin CommitPCs
    BY <1>3 DEF LatchedPCs, SplitPCs, CommitPCs
<1> QED BY <1>2, <1>3, <1>4, <1>5, LocalStep

(* The index' latch: the version loaded is current and the latch is free,   *)
(* so the root is still the one that was found full.                        *)
LEMMA UpgradeMasterRoom ==
    ASSUME RoomInv, NEW w \in Writers, UNCHANGED setup, UpgradeMaster(w)
    PROVE  RoomInv'
<1> USE DEF UpgradeMaster, pageVars, latchVars, clockVars
<1>1. TypeInv /\ WriterAt(w) /\ wpc[w] = "upgradeMaster"
    BY DEF RoomInv
<1>2. CASE wpc' = [wpc EXCEPT ![w] = "load"]
    <2>1. wpc'[w] = "load" /\ master' = master
        BY <1>1, <1>2 DEF TypeInv
    <2> QED BY <1>1, <1>2, <2>1, Restart
<1>3. CASE master = None /\ mcur[w] /\ wpc' = [wpc EXCEPT ![w] = "collect"]
    <2>1. wpc'[w] = "collect" /\ master' = w /\ w # None
        BY <1>1, <1>3, Bounds DEF TypeInv
    <2>2. TypeInv'
        <3>1. "collect" \in WriterPCs
            BY DEF WriterPCs
        <3> QED BY <1>1, <1>3, <2>1, <3>1 DEF TypeInv
    <2>3. \A p : Length(p)' = Length(p) /\ LiveCount(p)' = LiveCount(p)
        BY DEF Length, LiveCount, Live
    <2>4. WriterAt(w)'
        BY <1>1, <1>3, <2>1, <2>3 DEF WriterAt, LatchedPCs, SplitPCs, CopyPCs, RoomPCs
    <2>5. \A u \in Writers \ {w} : WriterAt(u)'
        <3> SUFFICES ASSUME NEW u \in Writers \ {w} PROVE WriterAt(u)'
            OBVIOUS
        <3>1. WriterAt(u) /\ wpc'[u] = wpc[u] /\ u # None
            BY <1>1, <1>3, Bounds DEF RoomInv, TypeInv
        <3>2. wpc[u] \notin SplitPCs
            BY <1>3, <3>1 DEF WriterAt
        <3>3. CopyPCs \subseteq SplitPCs /\ {"startSplit", "append", "copy"} \subseteq SplitPCs
            BY DEF CopyPCs, SplitPCs
        <3> QED BY <2>1, <2>3, <3>1, <3>2, <3>3 DEF WriterAt
    <2>6. \A p \in Pages : PageAt(p)'
        <3> SUFFICES ASSUME NEW p \in Pages PROVE PageAt(p)'
            OBVIOUS
        <3>1. PageAt(p) /\ owner[p] \in Writers \cup {None} /\ owner[p] # w
            BY <1>1, NotOwner DEF LatchedPCs
        <3>2. \A S : OwnerAt(p, S)' <=> OwnerAt(p, S)
            BY <1>1, <1>3, <3>1 DEF OwnerAt, TypeInv
        <3> QED BY <2>3, <3>1, <3>2 DEF PageAt
    <2> QED BY <2>2, <2>4, <2>5, <2>6 DEF RoomInv
<1> QED BY <1>2, <1>3 DEF Upgrade

(* The leaf's latch: nobody wrote since it was found to have room.          *)
LEMMA UpgradeLeafRoom ==
    ASSUME RoomInv, NEW w \in Writers, UNCHANGED setup, UpgradeLeaf(w)
    PROVE  RoomInv'
<1> USE DEF UpgradeLeaf, pageVars, latchVars, clockVars
<1>1. TypeInv /\ WriterAt(w) /\ wpc[w] = "upgrade"
    BY DEF RoomInv
<1>2. CASE wpc' = [wpc EXCEPT ![w] = "load"]
    <2>1. wpc'[w] = "load" /\ owner' = owner
        BY <1>1, <1>2 DEF TypeInv
    <2> QED BY <1>1, <1>2, <2>1, Restart
<1>3. CASE owner[at[w]] = None /\ lcur[w] /\ wpc' = [wpc EXCEPT ![w] = "latched"]
    <2> DEFINE q == at[w]
    <2>0. q \in Pages /\ PageAt(q) /\ w # None
        BY <1>1, AtPage, Bounds
    <2>1. wpc'[w] = "latched" /\ owner' = [owner EXCEPT ![q] = w]
        BY <1>1, <1>3 DEF TypeInv
    <2>2. TypeInv'
        <3>1. "latched" \in WriterPCs
            BY DEF WriterPCs
        <3> QED BY <1>1, <1>3, <2>1, <3>1 DEF TypeInv
    <2>3. \A p : Length(p)' = Length(p) /\ LiveCount(p)' = LiveCount(p)
        BY DEF Length, LiveCount, Live
    <2>o. owner'[q] = w /\ \A p \in Pages \ {q} : owner'[p] = owner[p]
        BY <1>1, <2>0, <2>1 DEF TypeInv
    <2>4. WriterAt(w)'
        BY <1>1, <1>3, <2>1, <2>3, <2>o DEF WriterAt, LatchedPCs, SplitPCs, CopyPCs, RoomPCs
    <2>5. \A u \in Writers \ {w} : WriterAt(u)'
        <3> SUFFICES ASSUME NEW u \in Writers \ {w} PROVE WriterAt(u)'
            OBVIOUS
        <3>1. WriterAt(u) /\ wpc'[u] = wpc[u] /\ u # None
            BY <1>1, <1>3, Bounds DEF RoomInv, TypeInv
        <3>2. wpc[u] \in LatchedPCs => at[u] \in Pages \ {q}
            BY <1>3, <3>1, AtPage DEF WriterAt, LatchedPCs
        <3>3. wpc[u] \in LatchedPCs => owner'[at[u]] = u
            BY <2>o, <3>1, <3>2 DEF WriterAt
        <3>4. wpc[u] \in {"endSplit", "unlatchMaster", "upgrade"} /\ owner'[at[u]] = None => owner[at[u]] = None
            BY <2>0, <2>o, AtPage
        <3> QED BY <2>3, <3>1, <3>3, <3>4 DEF WriterAt, NewPage
    <2>6. PageAt(q)'
        <3>1. OwnerAt(q, LatchedPCs)' /\ ~OwnerAt(q, {"commitLen"})' /\ ~OwnerAt(q, {"commitDead", "commitRevived"})'
            BY <2>0, <2>1, <2>o DEF OwnerAt, LatchedPCs
        <3>2. ~OwnerAt(q, {"commitLen"}) /\ ~OwnerAt(q, {"commitDead", "commitRevived"})
            BY <1>3 DEF OwnerAt
        <3> QED BY <2>0, <2>3, <2>o, <3>1, <3>2 DEF PageAt
    <2>7. \A p \in Pages \ {q} : PageAt(p)'
        <3> SUFFICES ASSUME NEW p \in Pages \ {q} PROVE PageAt(p)'
            OBVIOUS
        <3>1. PageAt(p) /\ owner[p] \in Writers \cup {None} /\ owner[p] # w /\ owner'[p] = owner[p]
            BY <1>1, <2>o, NotOwner DEF LatchedPCs
        <3>2. \A S : OwnerAt(p, S)' <=> OwnerAt(p, S)
            BY <1>1, <1>3, <3>1 DEF OwnerAt, TypeInv
        <3> QED BY <2>3, <3>1, <3>2 DEF PageAt
    <2> QED BY <2>2, <2>4, <2>5, <2>6, <2>7 DEF RoomInv
<1> QED BY <1>2, <1>3 DEF Upgrade

---------------------------------------------------------------------------
(* split_root.                                                              *)

(* bulk_push keeps the order of the records it clones.                      *)
LEMMA ClonedFacts ==
    ASSUME TypeInv, NEW p \in Pages, NEW I \in SUBSET (1 .. Len(recs[p]))
    PROVE  /\ IsFiniteSet(I) /\ Cardinality(I) \in Nat
           /\ Cloned(p, I) \in Seq(RecordType) /\ Len(Cloned(p, I)) = Cardinality(I)
           /\ \A m \in 1 .. Cardinality(I) : \E i \in I : Cloned(p, I)[m] = recs[p][i]
           /\ \A m, n \in 1 .. Cardinality(I) : m < n =>
                 \E i, k \in I : i < k /\ Cloned(p, I)[m] = recs[p][i] /\ Cloned(p, I)[n] = recs[p][k]
<1> DEFINE rank(i) == Cardinality({j \in I : j <= i})
           pick(m) == CHOOSE i \in I : rank(i) = m
<1>1. Len(recs[p]) \in Nat /\ \A i \in 1 .. Len(recs[p]) : recs[p][i] \in RecordType
    BY DEF TypeInv
<1>2. /\ IsFiniteSet(I) /\ Cardinality(I) \in Nat
      /\ \A m \in 1 .. Cardinality(I) : \E i \in I : rank(i) = m
      /\ \A i, k \in I : i < k => rank(i) < rank(k)
    <2> DEFINE n == Len(recs[p])
    <2>1. n \in Nat /\ I \in SUBSET (1 .. n)
        BY <1>1
    <2> HIDE DEF n
    <2>2. IsFiniteSet(I) /\ Cardinality(I) \in 0 .. n
        BY <2>1, RankFacts
    <2>3. /\ \A m \in 1 .. Cardinality(I) : \E i \in I : rank(i) = m
          /\ \A i, k \in I : i < k => rank(i) < rank(k)
        BY <2>1, RankFacts
    <2>4. Cardinality(I) \in Nat
        BY <2>1, <2>2
    <2> HIDE DEF rank
    <2> QED BY <2>2, <2>3, <2>4
<1>i. \A i \in I : i \in Int
    OBVIOUS
<1> HIDE DEF rank
<1>3. \A m \in 1 .. Cardinality(I) : pick(m) \in I /\ rank(pick(m)) = m
    BY <1>2
<1> HIDE DEF pick
<1>4. Cloned(p, I) = [m \in 1 .. Cardinality(I) |-> recs[p][pick(m)]]
    BY DEF Cloned, pick, rank
<1>5. Cloned(p, I) \in Seq(RecordType) /\ Len(Cloned(p, I)) = Cardinality(I)
    <2>1. \A m \in 1 .. Cardinality(I) : recs[p][pick(m)] \in RecordType
        BY <1>1, <1>3
    <2> QED BY <1>2, <1>4, <2>1
<1>6. \A m \in 1 .. Cardinality(I) : Cloned(p, I)[m] = recs[p][pick(m)]
    BY <1>4
<1>7. \A m, n \in 1 .. Cardinality(I) : m < n => pick(m) < pick(n)
    <2> SUFFICES ASSUME NEW m \in 1 .. Cardinality(I), NEW n \in 1 .. Cardinality(I), m < n,
                        ~(pick(m) < pick(n))
                 PROVE  FALSE
        OBVIOUS
    <2>1. pick(m) \in Int /\ pick(n) \in Int /\ pick(m) \in I /\ pick(n) \in I
        BY <1>i, <1>3
    <2>2. rank(pick(m)) = m /\ rank(pick(n)) = n
        BY <1>3
    <2>3. pick(n) < pick(m) => n < m
        BY <1>2, <2>1, <2>2
    <2>4. pick(n) = pick(m) \/ pick(n) < pick(m)
        BY <2>1
    <2>5. m \in Int /\ n \in Int
        BY <1>2
    <2> QED BY <2>2, <2>3, <2>4, <2>5
<1> QED BY <1>2, <1>3, <1>5, <1>6, <1>7

(* Below 80% live records, what is collected leaves room in the new page.   *)
LEMMA CollectRoom ==
    ASSUME RoomInv, NEW w \in Writers, UNCHANGED setup, Collect(w)
    PROVE  RoomInv'
<1> USE DEF Collect, WGoto, pageVars, latchVars, clockVars
<1> DEFINE q == at[w]
<1>1. TypeInv /\ WriterAt(w) /\ wpc[w] = "collect"
    BY DEF RoomInv
<1>2. /\ q \in Pages /\ PageAt(q) /\ Length(q) \in Int /\ NumRecords \in Nat /\ NumRecords >= 1
      /\ Len(recs[q]) \in Nat /\ active[q] \in Int
    <2>1. q \in Pages /\ PageAt(q) /\ Length(q) \in Int
        BY <1>1, AtPage
    <2>2. Len(recs[q]) \in Nat /\ active[q] \in Int
        BY <1>1, <2>1 DEF TypeInv
    <2> QED BY <2>1, <2>2, Bounds
<1>3. /\ Length(q) >= NumRecords /\ q = Len(roots) /\ master = w
    BY <1>1 DEF WriterAt, CopyPCs, SplitPCs
<1>4. picked' = [picked EXCEPT ![w] = Live(q)]
    BY DEF Live
<1>5. IsFiniteSet(Live(q)) /\ LiveCount(q) \in Nat /\ LiveCount(q) = Cardinality(Live(q))
    BY <1>1, <1>2, LiveFacts DEF LiveCount
<1>6. LiveCount(q) <= active[q]
    <2>1. CASE ~OwnerAt(q, {"commitDead", "commitRevived"})
        BY <1>2, <2>1 DEF PageAt
    <2>2. CASE OwnerAt(q, {"commitDead", "commitRevived"})
        <3> DEFINE u == owner[q]
        <3>1. u \in Writers /\ at[u] = q /\ wpc[u] \in {"commitDead", "commitRevived"}
            BY <1>1, <1>2, <2>2 DEF OwnerAt, PageAt, TypeInv
        <3>2. WriterAt(u)
            BY <3>1 DEF RoomInv
        <3>3. wpc[u] # "commitRevived"
            BY <1>2, <1>3, <3>1, <3>2 DEF WriterAt, RoomPCs
        <3>4. LiveCount(q) <= active[q] - 1
            BY <3>1, <3>2, <3>3 DEF WriterAt
        <3> QED BY <1>2, <1>5, <3>4
    <2> QED BY <2>1, <2>2
<1>7. Cardinality(Live(q)) < NumRecords
    <2>1. active[q] < (4 * NumRecords + 4) \div 5
        OBVIOUS
    <2>2. (4 * NumRecords + 4) \div 5 <= NumRecords
        BY <1>2
    <2> QED BY <1>2, <1>5, <1>6, <2>1, <2>2
<1>8. Live(q) \subseteq 1 .. Len(recs[q])
    <2>1. Length(q) <= Len(recs[q])
        BY <1>2 DEF PageAt
    <2> QED BY <1>2, <2>1 DEF Live
<1>9. TypeInv'
    <2>1. "copy" \in WriterPCs /\ Live(q) \in SUBSET Nat
        BY <1>2, <1>8 DEF WriterPCs
    <2> QED BY <1>1, <1>4, <2>1 DEF TypeInv
<1>10. OthersStay(w)
    BY <1>1 DEF OthersStay, TypeInv
<1>11. wpc'[w] = "copy" /\ picked'[w] = Live(q)
    BY <1>1, <1>4 DEF TypeInv
<1>12. WriterAt(w)'
    <2>1. Length(q)' = Length(q) /\ NewPage' = NewPage /\ q' = q
        BY DEF Length, NewPage
    <2>2. "copy" \notin LatchedPCs \cup RoomPCs /\ "copy" \in CopyPCs
        BY DEF LatchedPCs, RoomPCs, CopyPCs
    <2>3. NewPage \in Pages
        OBVIOUS
    <2>4. WriterAt(w) /\ op' = op /\ key' = key /\ at' = at /\ roots' = roots /\ recs' = recs /\ master' = master
        BY <1>1
    <2>5. at[w] \in 1 .. Len(roots) /\ op[w] \in Operations /\ key[w] \in Keys
        BY <1>1 DEF WriterAt
    <2> HIDE DEF Collect
    <2> QED BY <1>3, <1>7, <1>8, <1>11, <2>1, <2>2, <2>3, <2>4, <2>5 DEF WriterAt
<1>13. wpc[w] \notin LatchedPCs \cup CommitPCs /\ wpc'[w] \notin CommitPCs
    BY <1>1, <1>11 DEF LatchedPCs, CommitPCs
<1> QED BY <1>9, <1>10, <1>12, <1>13, LocalStep

(* The version of the split is drawn, or given up.                          *)
LEMMA SplitCommitRoom ==
    ASSUME RoomInv, NEW w \in Writers, UNCHANGED setup, StartSplit(w) \/ EndSplit(w)
    PROVE  RoomInv'
<1> USE DEF StartSplit, EndSplit, WGoto, pageVars, latchVars
<1>1. TypeInv /\ WriterAt(w)
    BY DEF RoomInv
<1>2. \/ wpc[w] = "startSplit" /\ wpc' = [wpc EXCEPT ![w] = "append"]
      \/ wpc[w] = "endSplit" /\ wpc' = [wpc EXCEPT ![w] = "unlatchMaster"]
    OBVIOUS
<1>3. UNCHANGED <<setup, recs, active, dead, owner, master, roots, op, key, at, lcur, mcur, picked>>
    OBVIOUS
<1>4. /\ clock' \in Nat \ {0} /\ ver' \in [Writers -> Nat]
      /\ \A u \in Writers \ {w} : ver'[u] = ver[u]
    BY <1>1, CommitTypes
<1> HIDE DEF StartSplit, EndSplit
<1>5. TypeInv'
    <2>1. {"append", "unlatchMaster"} \subseteq WriterPCs
        BY DEF WriterPCs
    <2> QED BY <1>1, <1>2, <1>3, <1>4, <2>1 DEF TypeInv
<1>6. OthersStay(w)
    BY <1>1, <1>2, <1>3, <1>4 DEF OthersStay, TypeInv
<1>7. \/ wpc[w] = "startSplit" /\ wpc'[w] = "append"
      \/ wpc[w] = "endSplit" /\ wpc'[w] = "unlatchMaster"
    BY <1>1, <1>2 DEF TypeInv
<1>8. WriterAt(w)'
    <2>1. Length(at[w])' = Length(at[w]) /\ NewPage' = NewPage /\ Length(NewPage)' = Length(NewPage)
        BY <1>3 DEF Length, NewPage
    <2> QED BY <1>1, <1>3, <1>7, <2>1 DEF WriterAt, LatchedPCs, SplitPCs, CopyPCs, RoomPCs
<1>9. wpc[w] \notin LatchedPCs \cup CommitPCs /\ wpc'[w] \notin CommitPCs
    BY <1>7 DEF LatchedPCs, CommitPCs
<1> QED BY <1>3, <1>5, <1>6, <1>8, <1>9, LocalStep

(* The clones go to a page that nobody can have reached yet.                *)
LEMMA BulkPushRoom ==
    ASSUME RoomInv, NEW w \in Writers, UNCHANGED setup, BulkPush(w)
    PROVE  RoomInv'
<1> USE DEF BulkPush, WGoto, latchVars, clockVars
<1> DEFINE q == at[w]
           n == NewPage
           I == picked[w]
<1>1. TypeInv /\ WriterAt(w) /\ wpc[w] = "copy" /\ Len(roots) \in Int
    BY DEF RoomInv, TypeInv
<1>2. /\ q \in Pages /\ n \in Pages /\ n = Len(roots) + 1 /\ n' = n /\ q' = q
      /\ I \in SUBSET (1 .. Len(recs[q])) /\ Cardinality(I) < NumRecords
    <2>1. q \in Pages /\ n \in Pages
        BY <1>1, AtPage DEF WriterAt, CopyPCs
    <2>2. n = Len(roots) + 1 /\ n' = n /\ q' = q
        BY DEF NewPage
    <2>3. I \in SUBSET (1 .. Len(recs[q])) /\ Cardinality(I) < NumRecords
        BY <1>1 DEF WriterAt
    <2> QED BY <2>1, <2>2, <2>3
<1>3. /\ IsFiniteSet(I) /\ Cardinality(I) \in Nat
      /\ Cloned(q, I) \in Seq(RecordType) /\ Len(Cloned(q, I)) = Cardinality(I)
    BY <1>1, <1>2, ClonedFacts
<1>4. TypeInv'
    <2>1. "startSplit" \in WriterPCs /\ {} \in SUBSET Nat
        BY DEF WriterPCs
    <2>2. recs' \in [Pages -> Seq(RecordType)]
        BY <1>1, <1>3 DEF TypeInv
    <2>3. active' \in [Pages -> Int] /\ dead' \in [Pages -> Int]
        <3>1. Cardinality(I) \in Int /\ active \in [Pages -> Int] /\ dead \in [Pages -> Int]
            BY <1>1, <1>3 DEF TypeInv
        <3>2. active' = [active EXCEPT ![n] = Cardinality(I)] /\ dead' = [dead EXCEPT ![n] = 0]
            OBVIOUS
        <3>3. ASSUME NEW f \in [Pages -> Int], NEW p, NEW c \in Int PROVE [f EXCEPT ![p] = c] \in [Pages -> Int]
            OBVIOUS
        <3> HIDE DEF BulkPush, n, I
        <3>4. active' \in [Pages -> Int]
            BY <3>1, <3>2, <3>3
        <3>5. dead' \in [Pages -> Int]
            BY <3>1, <3>2, <3>3
        <3> QED BY <3>4, <3>5
    <2>4. wpc' \in [Writers -> WriterPCs] /\ picked' \in [Writers -> SUBSET Nat]
        BY <1>1, <2>1 DEF TypeInv
    <2> QED BY <1>1, <2>2, <2>3, <2>4 DEF TypeInv
<1>5. /\ wpc'[w] = "startSplit" /\ OthersStay(w)
      /\ \A p \in Pages \ {n} : recs'[p] = recs[p] /\ active'[p] = active[p] /\ dead'[p] = dead[p]
      /\ recs'[n] = Cloned(q, I) /\ active'[n] = Cardinality(I) /\ dead'[n] = 0
    <2>1. wpc'[w] = "startSplit" /\ OthersStay(w)
        BY <1>1 DEF TypeInv, OthersStay
    <2>2. /\ \A p \in Pages \ {n} : recs'[p] = recs[p] /\ active'[p] = active[p] /\ dead'[p] = dead[p]
          /\ recs'[n] = Cloned(q, I) /\ active'[n] = Cardinality(I) /\ dead'[n] = 0
        BY <1>1, <1>2 DEF TypeInv
    <2> QED BY <2>1, <2>2
<1>6. UNCHANGED <<setup, owner, master, roots, op, key, at, lcur, mcur>>
    OBVIOUS
<1> HIDE DEF BulkPush
<1>7. \A p \in Pages \ {n} : Length(p)' = Length(p) /\ LiveCount(p)' = LiveCount(p)
    BY <1>5 DEF Length, LiveCount, Live
<1>8. Length(n)' = Cardinality(I) /\ Length(n)' < NumRecords
    BY <1>2, <1>3, <1>5 DEF Length
<1>9. \A u \in Writers : wpc[u] \notin {"idle", "load", "root"} =>
         /\ at[u] \in Pages \ {n} /\ at'[u] = at[u]
         /\ Length(at[u])' = Length(at[u]) /\ LiveCount(at[u])' = LiveCount(at[u])
         /\ recs'[at[u]] = recs[at[u]] /\ active'[at[u]] = active[at[u]]
    <2> SUFFICES ASSUME NEW u \in Writers, wpc[u] \notin {"idle", "load", "root"}
                 PROVE  /\ at[u] \in Pages \ {n} /\ at'[u] = at[u]
                        /\ Length(at[u])' = Length(at[u]) /\ LiveCount(at[u])' = LiveCount(at[u])
                        /\ recs'[at[u]] = recs[at[u]] /\ active'[at[u]] = active[at[u]]
        OBVIOUS
    <2>1. at[u] \in Pages \ {n}
        BY <1>1, <1>2, AtPage
    <2>2. at'[u] = at[u]
        BY <1>6
    <2> HIDE DEF n
    <2> QED BY <1>5, <1>7, <2>1, <2>2
<1>10. WriterAt(w)'
    <2>1. Length(q)' = Length(q) /\ Length(NewPage)' < NumRecords /\ NewPage' = NewPage
        BY <1>1, <1>2, <1>8, <1>9
    <2>2. "startSplit" \notin LatchedPCs \cup RoomPCs /\ "startSplit" \in CopyPCs \cap SplitPCs /\ "copy" \in CopyPCs \cap SplitPCs
        BY DEF LatchedPCs, RoomPCs, CopyPCs, SplitPCs
    <2>3. n \in Pages
        BY <1>2
    <2> QED BY <1>1, <1>5, <1>6, <2>1, <2>2, <2>3 DEF WriterAt
<1>11. \A u \in Writers \ {w} : WriterAt(u)'
    <2> SUFFICES ASSUME NEW u \in Writers \ {w} PROVE WriterAt(u)'
        OBVIOUS
    <2>1. WriterAt(u) /\ wpc'[u] = wpc[u] /\ op'[u] = op[u] /\ key'[u] = key[u] /\ ver'[u] = ver[u]
        BY <1>5 DEF RoomInv, OthersStay
    <2>2. wpc[u] \notin SplitPCs
        BY <1>1, <2>1 DEF WriterAt, SplitPCs
    <2>3. CopyPCs \subseteq SplitPCs /\ {"startSplit", "append", "copy"} \subseteq SplitPCs
        BY DEF CopyPCs, SplitPCs
    <2>4. (LatchedPCs \cup RoomPCs) \cap {"idle", "load", "root"} = {}
        BY DEF LatchedPCs, RoomPCs
    <2> QED BY <1>6, <1>9, <2>1, <2>2, <2>3, <2>4 DEF WriterAt
<1>12. owner[n] = None
    <2> SUFFICES ASSUME owner[n] # None PROVE FALSE
        OBVIOUS
    <2>1. PageAt(n) /\ owner[n] \in Writers
        BY <1>1, <1>2 DEF RoomInv, TypeInv
    <2>2. wpc[owner[n]] \in LatchedPCs /\ at[owner[n]] = n
        BY <2>1 DEF PageAt, OwnerAt
    <2> QED BY <1>9, <2>1, <2>2 DEF LatchedPCs
<1>13. \A p \in Pages \ {n} : PageAt(p)'
    <2> SUFFICES ASSUME NEW p \in Pages \ {n} PROVE PageAt(p)'
        OBVIOUS
    <2>1. PageAt(p) /\ owner[p] \in Writers \cup {None} /\ owner[p] # w
        BY <1>1, NotOwner DEF LatchedPCs
    <2>2. \A S : OwnerAt(p, S)' <=> OwnerAt(p, S)
        BY <1>5, <1>6, <2>1 DEF OwnerAt, OthersStay
    <2> QED BY <1>5, <1>6, <1>7, <2>1, <2>2 DEF PageAt
<1>14. PageAt(n)'
    <2>1. \A S : ~OwnerAt(n, S)'
        BY <1>2, <1>6, <1>12 DEF OwnerAt
    <2>2. LiveCount(n)' <= Length(n)'
        <3>1. IsFiniteSet(1 .. Length(n)') /\ Cardinality(1 .. Length(n)') = Length(n)'
            BY <1>3, <1>8, FS_Interval
        <3>2. Live(n)' \subseteq 1 .. Length(n)'
            BY DEF Live
        <3> QED BY <3>1, <3>2, FS_Subset DEF LiveCount
    <2>3. owner'[n] = None /\ Len(recs'[n]) = Length(n)' /\ Length(n)' >= 0 /\ active'[n] = Length(n)'
        BY <1>3, <1>5, <1>6, <1>8, <1>12
    <2>4. ~(n < Len(roots'))
        BY <1>1, <1>2, <1>6
    <2>5. n' = n
        BY <1>2
    <2> HIDE DEF n
    <2> QED BY <2>1, <2>2, <2>3, <2>4, <2>5 DEF PageAt
<1>15. \A p \in Pages : PageAt(p)'
    <2> HIDE DEF n
    <2> QED BY <1>2, <1>13, <1>14
<1> QED BY <1>4, <1>10, <1>11, <1>15 DEF RoomInv

(* The full page stops being the root.                                      *)
LEMMA AppendRootRoom ==
    ASSUME RoomInv, NEW w \in Writers, UNCHANGED setup, AppendRoot(w)
    PROVE  RoomInv'
<1> USE DEF AppendRoot, WGoto, pageVars, clockVars
<1> DEFINE q == at[w]
           n == NewPage
<1>1. TypeInv /\ WriterAt(w) /\ wpc[w] = "append" /\ Len(roots) \in Nat /\ w # None
    BY Bounds DEF RoomInv, TypeInv
<1>2. /\ q = Len(roots) /\ Length(q) >= NumRecords /\ n \in Pages /\ n = Len(roots) + 1
      /\ Length(n) < NumRecords /\ master = w
    BY <1>1 DEF WriterAt, CopyPCs, SplitPCs, NewPage
<1>3. roots' \in Seq(Nat) /\ Len(roots') = Len(roots) + 1
    BY <1>1 DEF TypeInv
<1>4. TypeInv'
    <2>1. "endSplit" \in WriterPCs
        BY DEF WriterPCs
    <2>2. Len(roots') \in Pages
        BY <1>2, <1>3
    <2>3. wpc' \in [Writers -> WriterPCs] /\ at' \in [Writers -> Pages \cup {0}] /\ lcur' \in [Writers -> BOOLEAN]
        BY <1>1, <1>2, <2>1 DEF TypeInv
    <2> QED BY <1>1, <1>3, <2>2, <2>3 DEF TypeInv
<1>5. /\ wpc'[w] = "endSplit" /\ at'[w] = n
      /\ \A u \in Writers \ {w} : wpc'[u] = wpc[u] /\ at'[u] = at[u] /\ lcur'[u] = lcur[u]
    BY <1>1 DEF TypeInv
<1>6. UNCHANGED <<setup, recs, active, dead, owner, master, op, key, mcur, ver, picked>>
    OBVIOUS
<1> HIDE DEF AppendRoot
<1>7. \A p : Length(p)' = Length(p) /\ LiveCount(p)' = LiveCount(p)
    BY <1>6 DEF Length, LiveCount, Live
<1>8. WriterAt(w)'
    <2>1. Length(at[w])' < NumRecords /\ at'[w] \in 1 .. Len(roots')
        BY <1>1, <1>2, <1>3, <1>5, <1>7
    <2>2. "endSplit" \notin LatchedPCs \cup RoomPCs \cup CopyPCs /\ "append" \in SplitPCs
        BY DEF LatchedPCs, RoomPCs, CopyPCs, SplitPCs
    <2> QED BY <1>1, <1>2, <1>5, <1>6, <2>1, <2>2 DEF WriterAt
<1>9. \A u \in Writers \ {w} : WriterAt(u)'
    <2> SUFFICES ASSUME NEW u \in Writers \ {w} PROVE WriterAt(u)'
        OBVIOUS
    <2>1. WriterAt(u) /\ wpc'[u] = wpc[u] /\ at'[u] = at[u] /\ lcur'[u] = lcur[u]
        BY <1>5 DEF RoomInv
    <2>2. wpc[u] \notin SplitPCs
        BY <1>2, <2>1 DEF WriterAt
    <2>3. CopyPCs \subseteq SplitPCs /\ {"startSplit", "append", "copy"} \subseteq SplitPCs
        BY DEF CopyPCs, SplitPCs
    <2>4. wpc[u] \notin {"idle", "load", "root"} => at[u] \in 1 .. Len(roots')
        BY <1>1, <1>3, <2>1 DEF WriterAt
    <2>5. master' # None
        BY <1>1, <1>2, <1>6
    <2>6. Length(at[u])' = Length(at[u]) /\ LiveCount(at[u])' = LiveCount(at[u])
        BY <1>7, <2>1
    <2> QED BY <1>6, <2>1, <2>2, <2>3, <2>4, <2>5, <2>6 DEF WriterAt
<1>10. \A p \in Pages : PageAt(p)'
    <2> SUFFICES ASSUME NEW p \in Pages PROVE PageAt(p)'
        OBVIOUS
    <2>1. PageAt(p) /\ owner[p] \in Writers \cup {None} /\ owner[p] # w
        BY <1>1, NotOwner DEF LatchedPCs
    <2>2. \A S : OwnerAt(p, S)' <=> OwnerAt(p, S)
        BY <1>5, <1>6, <2>1 DEF OwnerAt
    <2>3. p < Len(roots') => Length(p) >= NumRecords
        <3>1. p \in Int
            BY Bounds DEF Pages
        <3>2. p < Len(roots') => p < Len(roots) \/ p = q
            BY <1>1, <1>2, <1>3, <3>1
        <3> QED BY <1>2, <2>1, <3>2 DEF PageAt
    <2>4. owner[p] # None => at'[owner[p]] = at[owner[p]]
        BY <1>5, <2>1
    <2> QED BY <1>6, <1>7, <2>1, <2>2, <2>3, <2>4 DEF PageAt
<1> QED BY <1>4, <1>8, <1>9, <1>10 DEF RoomInv

(* The index' latch is dropped; every version of it that was loaded is old. *)
LEMMA UnlatchMasterRoom ==
    ASSUME RoomInv, NEW w \in Writers, UNCHANGED setup, UnlatchMaster(w)
    PROVE  RoomInv'
<1> USE DEF UnlatchMaster, WGoto, pageVars, clockVars
<1>1. TypeInv /\ WriterAt(w) /\ wpc[w] = "unlatchMaster" /\ master = w
    BY DEF RoomInv, WriterAt, SplitPCs
<1>2. TypeInv'
    <2>1. "upgrade" \in WriterPCs
        BY DEF WriterPCs
    <2> QED BY <1>1, <2>1 DEF TypeInv
<1>3. /\ wpc'[w] = "upgrade" /\ \A u \in Writers \ {w} : wpc'[u] = wpc[u]
      /\ \A u \in Writers : ~mcur'[u]
    BY <1>1 DEF TypeInv
<1>4. UNCHANGED <<setup, recs, active, dead, owner, roots, op, key, at, lcur, ver, picked>>
    OBVIOUS
<1> HIDE DEF UnlatchMaster
<1>5. \A p : Length(p)' = Length(p) /\ LiveCount(p)' = LiveCount(p)
    BY <1>4 DEF Length, LiveCount, Live
<1>6. \A u \in Writers : Length(at[u])' = Length(at[u]) /\ LiveCount(at[u])' = LiveCount(at[u])
    BY <1>4, <1>5
<1>7. WriterAt(w)'
    BY <1>1, <1>3, <1>4, <1>6 DEF WriterAt, LatchedPCs, SplitPCs, CopyPCs, RoomPCs
<1>8. \A u \in Writers \ {w} : WriterAt(u)'
    <2> SUFFICES ASSUME NEW u \in Writers \ {w} PROVE WriterAt(u)'
        OBVIOUS
    <2>1. WriterAt(u) /\ wpc'[u] = wpc[u] /\ ~mcur'[u]
        BY <1>3 DEF RoomInv
    <2>2. wpc[u] \notin SplitPCs
        BY <1>1, <2>1 DEF WriterAt
    <2>3. CopyPCs \subseteq SplitPCs /\ {"startSplit", "append", "copy"} \subseteq SplitPCs
        BY DEF CopyPCs, SplitPCs
    <2> QED BY <1>4, <1>6, <2>1, <2>2, <2>3 DEF WriterAt
<1>9. \A p \in Pages : PageAt(p)'
    <2> SUFFICES ASSUME NEW p \in Pages PROVE PageAt(p)'
        OBVIOUS
    <2>1. PageAt(p) /\ owner[p] \in Writers \cup {None} /\ owner[p] # w
        BY <1>1, NotOwner DEF LatchedPCs
    <2>2. \A S : OwnerAt(p, S)' <=> OwnerAt(p, S)
        BY <1>3, <1>4, <2>1 DEF OwnerAt
    <2> QED BY <1>4, <1>5, <2>1, <2>2 DEF PageAt
<1> QED BY <1>2, <1>7, <1>8, <1>9 DEF RoomInv

---------------------------------------------------------------------------
(* The steps of an operation that write to the page.                        *)

(* What such a step has to keep: the records it counts, and among them no   *)
(* more live ones than the soft commit still to come will make good.        *)
LEMMA Written ==
    ASSUME RoomInv, NEW w \in Writers, TypeInv', OthersStay(w),
           UNCHANGED <<setup, owner, master, roots, op, key, at, lcur, mcur, ver>>,
           wpc[w] \in LatchedPCs, wpc'[w] \in LatchedPCs,
           \A p \in Pages \ {at[w]} : recs'[p] = recs[p] /\ active'[p] = active[p] /\ dead'[p] = dead[p],
           Length(at[w])' >= Length(at[w]),
           wpc'[w] \in RoomPCs => Length(at[w])' < NumRecords,
           Len(recs'[at[w]]) = Length(at[w])' + (IF wpc'[w] = "commitLen" THEN 1 ELSE 0),
           LiveCount(at[w])' <= active'[at[w]] - (IF wpc'[w] = "commitDead" THEN 1 ELSE 0)
                                               + (IF wpc'[w] = "commitRevived" THEN 1 ELSE 0),
           wpc'[w] \in {"push", "commitLen", "kill"} => ver[w] >= 1
    PROVE  RoomInv'
<1> DEFINE q == at[w]
           pc == wpc'[w]
<1>0. /\ q \in Pages /\ PageAt(q) /\ owner[q] = w /\ w # None /\ at'[w] = q /\ owner'[q] = w
      /\ Length(q) \in Int /\ Length(q)' \in Int /\ WriterAt(w) /\ active'[q] \in Int
    <2>1. q \in Pages /\ PageAt(q) /\ owner[q] = w /\ Length(q) \in Int
        BY AtPage DEF LatchedPCs
    <2>2. Length(q)' \in Int /\ active'[q] \in Int
        BY <2>1 DEF TypeInv, Length
    <2> QED BY <2>1, <2>2, Bounds DEF RoomInv
<1>1. LiveCount(q)' \in Nat
    <2>1. IsFiniteSet(1 .. Length(q)')
        BY <1>0, FS_Interval
    <2>2. Live(q)' \subseteq 1 .. Length(q)'
        BY DEF Live
    <2> QED BY <2>1, <2>2, FS_Subset, FS_CardinalityType DEF LiveCount
<1>2. WriterAt(w)'
    <2>1. pc \notin SplitPCs \cup CopyPCs \cup {"idle", "load", "root", "borrow", "degree", "upgradeMaster",
              "endSplit", "unlatchMaster", "upgrade", "copy", "startSplit", "append"}
        BY DEF LatchedPCs, SplitPCs, CopyPCs
    <2>2. at[w] \in 1 .. Len(roots) /\ op[w] \in Operations /\ key[w] \in Keys
        BY <1>0 DEF WriterAt, LatchedPCs
    <2>3. pc = "commitDead" => LiveCount(q)' <= active'[q] - 1
        BY <1>0, <1>1
    <2>4. pc = "commitRevived" => LiveCount(q)' <= active'[q] + 1
        BY <1>0, <1>1
    <2> QED BY <1>0, <2>1, <2>2, <2>3, <2>4 DEF WriterAt
<1>3. PageAt(q)'
    <2>1. \A S : OwnerAt(q, S)' <=> pc \in S
        BY <1>0 DEF OwnerAt
    <2>2. q < Len(roots) => Length(q)' >= NumRecords
        BY <1>0, Bounds DEF PageAt
    <2>3. Length(q)' >= 0
        BY <1>0 DEF PageAt
    <2>4. pc \notin {"commitDead", "commitRevived"} => LiveCount(q)' <= active'[q]
        BY <1>0, <1>1
    <2>5. pc # "commitLen" => Len(recs'[q]) = Length(q)'
        BY <1>0
    <2>6. pc = "commitLen" => Len(recs'[q]) = Length(q)' + 1
        BY <1>0
    <2> HIDE DEF pc
    <2>7. pc \in LatchedPCs
        BY DEF pc
    <2> QED BY <1>0, <2>1, <2>2, <2>3, <2>4, <2>5, <2>6, <2>7 DEF PageAt
<1> QED BY <1>2, <1>3, PageStep

(* A writer in the page it has latched.                                     *)
LEMMA InPage ==
    ASSUME RoomInv, NEW w \in Writers, wpc[w] \in LatchedPCs
    PROVE  /\ TypeInv /\ at[w] \in Pages /\ owner[at[w]] = w /\ op[w] \in Operations /\ key[w] \in Keys
           /\ recs[at[w]] \in Seq(RecordType) /\ active[at[w]] \in Int /\ dead[at[w]] \in Int
           /\ Length(at[w]) \in Nat /\ ver[w] \in Nat
           /\ Len(recs[at[w]]) = Length(at[w]) + (IF wpc[w] = "commitLen" THEN 1 ELSE 0)
           /\ IsFiniteSet(Live(at[w])) /\ LiveCount(at[w]) \in Nat
           /\ LiveCount(at[w]) <= active[at[w]] - (IF wpc[w] = "commitDead" THEN 1 ELSE 0)
                                                + (IF wpc[w] = "commitRevived" THEN 1 ELSE 0)
           /\ wpc[w] \in RoomPCs => Length(at[w]) < NumRecords
           /\ wpc[w] \in {"push", "commitLen", "kill"} => ver[w] >= 1
<1> DEFINE q == at[w]
<1>1. q \in Pages /\ PageAt(q) /\ owner[q] = w /\ Length(q) \in Int /\ w # None /\ TypeInv /\ WriterAt(w)
    BY AtPage, Bounds DEF LatchedPCs, RoomInv
<1>2. recs[q] \in Seq(RecordType) /\ active[q] \in Int /\ dead[q] \in Int /\ ver[w] \in Nat
    BY <1>1 DEF TypeInv
<1>3. \A S : OwnerAt(q, S) <=> wpc[w] \in S
    BY <1>1 DEF OwnerAt
<1>4. Length(q) \in Nat
    BY <1>1 DEF PageAt
<1>5. Len(recs[q]) = Length(q) + (IF wpc[w] = "commitLen" THEN 1 ELSE 0)
    BY <1>1, <1>3, <1>4 DEF PageAt
<1>6. IsFiniteSet(Live(q)) /\ LiveCount(q) \in Nat
    BY <1>1, LiveFacts
<1>7. LiveCount(q) <= active[q] - (IF wpc[w] = "commitDead" THEN 1 ELSE 0)
                                + (IF wpc[w] = "commitRevived" THEN 1 ELSE 0)
    <2>1. wpc[w] \notin {"commitDead", "commitRevived"} => LiveCount(q) <= active[q]
        BY <1>1, <1>3 DEF PageAt
    <2>2. /\ wpc[w] = "commitDead" => LiveCount(q) <= active[q] - 1
          /\ wpc[w] = "commitRevived" => LiveCount(q) <= active[q] + 1
        BY <1>1 DEF WriterAt
    <2> QED BY <1>2, <1>6, <2>1, <2>2
<1>8. /\ wpc[w] \in RoomPCs => Length(q) < NumRecords
      /\ wpc[w] \in {"push", "commitLen", "kill"} => ver[w] >= 1
      /\ op[w] \in Operations /\ key[w] \in Keys
    BY <1>1 DEF WriterAt, LatchedPCs
<1> QED BY <1>1, <1>2, <1>4, <1>5, <1>6, <1>7, <1>8

(* A soft commit.                                                           *)
LEMMA SoftCommit ==
    ASSUME RoomInv, NEW w \in Writers, NEW t \in LatchedPCs, NEW a \in Int, NEW d \in Int,
           wpc[w] \in LatchedPCs, t \notin RoomPCs, t \notin {"push", "commitLen", "commitDead", "commitRevived"},
           wpc' = [wpc EXCEPT ![w] = t],
           t = "kill" => ver[w] >= 1,
           CommitDelta(at[w], a, d),
           UNCHANGED <<setup, clock, recs, owner, master, roots, op, key, at, lcur, mcur, ver, picked>>,
           a + d >= 0, Length(at[w]) + a + d = Len(recs[at[w]]),
           LiveCount(at[w]) + a + d <= active[at[w]] + a
    PROVE  RoomInv'
<1> DEFINE q == at[w]
<1>1. /\ TypeInv /\ q \in Pages /\ recs[q] \in Seq(RecordType) /\ active[q] \in Int /\ dead[q] \in Int
      /\ Length(q) \in Nat /\ IsFiniteSet(Live(q)) /\ LiveCount(q) \in Nat
    BY InPage
<1>2. /\ active' = [active EXCEPT ![q] = active[q] + a]
      /\ dead' = [dead EXCEPT ![q] = dead[q] + d]
    BY DEF CommitDelta
<1>3. /\ active'[q] = active[q] + a /\ dead'[q] = dead[q] + d
      /\ \A p \in Pages \ {q} : active'[p] = active[p] /\ dead'[p] = dead[p]
      /\ active' \in [Pages -> Int] /\ dead' \in [Pages -> Int]
    <2>1. active \in [Pages -> Int] /\ dead \in [Pages -> Int] /\ active[q] + a \in Int /\ dead[q] + d \in Int
        <3>1. active \in [Pages -> Int] /\ dead \in [Pages -> Int]
            BY <1>1 DEF TypeInv
        <3>2. active[q] + a \in Int /\ dead[q] + d \in Int
            BY <1>1
        <3> QED BY <3>1, <3>2
    <2>2. ASSUME NEW f \in [Pages -> Int], NEW c \in Int
          PROVE  /\ [f EXCEPT ![q] = c] \in [Pages -> Int] /\ [f EXCEPT ![q] = c][q] = c
                 /\ \A p \in Pages \ {q} : [f EXCEPT ![q] = c][p] = f[p]
        BY <1>1
    <2>3. /\ active'[q] = active[q] + a /\ active' \in [Pages -> Int]
          /\ \A p \in Pages \ {q} : active'[p] = active[p]
        BY <1>2, <2>1, <2>2
    <2>4. /\ dead'[q] = dead[q] + d /\ dead' \in [Pages -> Int]
          /\ \A p \in Pages \ {q} : dead'[p] = dead[p]
        BY <1>2, <2>1, <2>2
    <2> QED BY <2>3, <2>4
<1>4. TypeInv'
    <2>1. t \in WriterPCs
        BY DEF LatchedPCs, WriterPCs
    <2> QED BY <1>1, <1>3, <2>1 DEF TypeInv
<1>5. OthersStay(w) /\ wpc'[w] = t
    BY <1>1 DEF OthersStay, TypeInv
<1>6. Length(q)' = Length(q) + a + d
    <2>1. Length(q)' = active'[q] + dead'[q]
        BY DEF Length
    <2>2. Length(q) = active[q] + dead[q]
        BY DEF Length
    <2>3. active'[q] = active[q] + a /\ dead'[q] = dead[q] + d /\ active[q] \in Int /\ dead[q] \in Int
        BY <1>1, <1>3
    <2> QED BY <2>1, <2>2, <2>3
<1>7. LiveCount(q)' <= LiveCount(q) + a + d
    <2> DEFINE New == Length(q) + 1 .. Length(q)'
    <2>1. IsFiniteSet(New) /\ Cardinality(New) = a + d
        <3> DEFINE len == Length(q)
                   lo == len + 1
                   hi == Length(q)'
        <3>0. len \in Nat /\ hi = len + a + d
            BY <1>1, <1>6
        <3> HIDE DEF len, hi
        <3>1. lo \in Int /\ hi \in Int /\ hi - lo + 1 = a + d /\ (lo > hi => a + d = 0)
            BY <3>0
        <3> HIDE DEF lo
        <3>2. IsFiniteSet(lo .. hi) /\ Cardinality(lo .. hi) = a + d
            BY <3>1, FS_Interval
        <3> QED BY <3>2 DEF len, lo, hi
    <2>2. Live(q)' \subseteq Live(q) \cup New
        BY <1>1, <1>6 DEF Live
    <2>3. IsFiniteSet(Live(q) \cup New) /\ Cardinality(Live(q) \cup New) <= LiveCount(q) + a + d
        <3>1. /\ IsFiniteSet(Live(q) \cup New)
              /\ Cardinality(Live(q) \cup New)
                    = Cardinality(Live(q)) + Cardinality(New) - Cardinality(Live(q) \cap New)
            BY <1>1, <2>1, FS_Union
        <3>2. Cardinality(Live(q) \cap New) \in Nat
            BY <1>1, FS_Intersection, FS_CardinalityType
        <3> HIDE DEF New
        <3> QED BY <1>1, <2>1, <3>1, <3>2 DEF LiveCount
    <2>4. IsFiniteSet(Live(q)') /\ Cardinality(Live(q)') <= Cardinality(Live(q) \cup New)
        BY <2>2, <2>3, FS_Subset
    <2>5. Cardinality(Live(q) \cup New) \in Nat /\ Cardinality(Live(q)') \in Nat
        BY <2>3, <2>4, FS_CardinalityType
    <2> HIDE DEF New
    <2> QED BY <1>1, <2>3, <2>4, <2>5 DEF LiveCount
<1>8. LiveCount(q)' \in Nat
    <2>1. IsFiniteSet(1 .. Length(q)')
        BY <1>1, <1>6, FS_Interval
    <2>2. Live(q)' \subseteq 1 .. Length(q)'
        BY DEF Live
    <2> QED BY <2>1, <2>2, FS_Subset, FS_CardinalityType DEF LiveCount
<1>9. LiveCount(q)' <= active'[q]
    BY <1>1, <1>3, <1>7, <1>8
<1>10. Length(q)' >= Length(q) /\ Len(recs'[q]) = Length(q)' /\ q' = q
    BY <1>1, <1>6
<1>11. \A p \in Pages \ {q} : recs'[p] = recs[p] /\ active'[p] = active[p] /\ dead'[p] = dead[p]
    BY <1>3
<1>12. /\ Len(recs'[q]) = Length(q)' + (IF wpc'[w] = "commitLen" THEN 1 ELSE 0)
       /\ LiveCount(q)' <= active'[q] - (IF wpc'[w] = "commitDead" THEN 1 ELSE 0)
                                      + (IF wpc'[w] = "commitRevived" THEN 1 ELSE 0)
    <2>1. wpc'[w] \notin {"commitLen", "commitDead", "commitRevived"}
        BY <1>5
    <2>2. active'[q] \in Int /\ Length(q)' \in Int
        BY <1>1, <1>3, <1>6
    <2> QED BY <1>8, <1>9, <1>10, <2>1, <2>2
<1> QED BY <1>4, <1>5, <1>10, <1>11, <1>12, Written

LEMMA CommitRoom ==
    ASSUME RoomInv, NEW w \in Writers, UNCHANGED setup,
           CommitRevived(w) \/ CommitLen(w) \/ CommitDead(w)
    PROVE  RoomInv'
<1> DEFINE q == at[w]
           Still == UNCHANGED <<setup, clock, recs, owner, master, roots, op, key, at, lcur, mcur, ver, picked>>
<1> USE DEF WGoto, latchVars, clockVars
<1>1. wpc[w] \in {"commitRevived", "commitLen", "commitDead"} /\ Still
    BY DEF CommitRevived, CommitLen, CommitDead
<1>2. /\ Length(q) \in Nat /\ LiveCount(q) \in Nat /\ active[q] \in Int
      /\ Len(recs[q]) = Length(q) + (IF wpc[w] = "commitLen" THEN 1 ELSE 0)
      /\ LiveCount(q) <= active[q] - (IF wpc[w] = "commitDead" THEN 1 ELSE 0)
                                   + (IF wpc[w] = "commitRevived" THEN 1 ELSE 0)
      /\ wpc[w] = "commitLen" => ver[w] >= 1
    BY <1>1, InPage DEF LatchedPCs
<1>3. {"kill", "end", "unlatch"} \cap (RoomPCs \cup {"push", "commitLen", "commitDead", "commitRevived"}) = {}
    BY DEF RoomPCs
<1>4. {"kill", "end", "unlatch", "commitRevived", "commitLen", "commitDead"} \subseteq LatchedPCs
    BY DEF LatchedPCs
<1>5. CASE CommitRevived(w)
    <2>1. wpc[w] = "commitRevived" /\ wpc' = [wpc EXCEPT ![w] = "unlatch"] /\ CommitDelta(q, 1, -1)
        BY <1>5 DEF CommitRevived
    <2>2. 1 \in Int /\ -1 \in Int /\ 1 + (-1) >= 0 /\ Length(q) + 1 + (-1) = Len(recs[q]) /\ LiveCount(q) + 1 + (-1) <= active[q] + 1
        BY <1>2, <2>1
    <2> QED BY <1>1, <1>3, <1>4, <2>1, <2>2, SoftCommit
<1>6. CASE CommitLen(w)
    <2>1. wpc[w] = "commitLen" /\ CommitDelta(q, 1, 0)
        BY <1>6 DEF CommitLen
    <2>2. 1 \in Int /\ 0 \in Int /\ 1 + 0 >= 0 /\ Length(q) + 1 + 0 = Len(recs[q]) /\ LiveCount(q) + 1 + 0 <= active[q] + 1
        BY <1>2, <2>1
    <2>3. CASE wpc' = [wpc EXCEPT ![w] = "kill"]
        BY <1>1, <1>2, <1>3, <1>4, <2>1, <2>2, <2>3, SoftCommit
    <2>4. CASE wpc' = [wpc EXCEPT ![w] = "end"]
        BY <1>1, <1>3, <1>4, <2>1, <2>2, <2>4, SoftCommit
    <2> QED BY <1>6, <2>3, <2>4 DEF CommitLen
<1>7. CASE CommitDead(w)
    <2>1. wpc[w] = "commitDead" /\ wpc' = [wpc EXCEPT ![w] = "end"] /\ CommitDelta(q, -1, 1)
        BY <1>7 DEF CommitDead
    <2>2. 1 \in Int /\ -1 \in Int /\ (-1) + 1 >= 0 /\ Length(q) + (-1) + 1 = Len(recs[q]) /\ LiveCount(q) + (-1) + 1 <= active[q] + (-1)
        BY <1>2, <2>1
    <2> QED BY <1>1, <1>3, <1>4, <2>1, <2>2, SoftCommit
<1> QED BY <1>5, <1>6, <1>7

(* Among the first n records of s, those that are not deleted.              *)
Undeleted(s, n) == {i \in 1 .. n : ~IsDeleted(s[i])}

(* A write to the records of the page that the soft commit has yet to       *)
(* follow.                                                                  *)
LEMMA RecordsWritten ==
    ASSUME RoomInv, NEW w \in Writers, NEW t \in LatchedPCs, NEW s \in Seq(RecordType),
           wpc[w] \in LatchedPCs, t \in RoomPCs => wpc[w] \in RoomPCs,
           t \in {"push", "commitLen", "kill"} => ver[w] >= 1,
           wpc' = [wpc EXCEPT ![w] = t],
           recs' = [recs EXCEPT ![at[w]] = s],
           UNCHANGED <<setup, clock, active, dead, owner, master, roots, op, key, at, lcur, mcur, ver, picked>>,
           Len(s) = Length(at[w]) + (IF t = "commitLen" THEN 1 ELSE 0),
           Cardinality(Undeleted(s, Length(at[w])))
              <= active[at[w]] - (IF t = "commitDead" THEN 1 ELSE 0) + (IF t = "commitRevived" THEN 1 ELSE 0)
    PROVE  RoomInv'
<1> DEFINE q == at[w]
<1>1. /\ TypeInv /\ q \in Pages /\ Length(q) \in Nat
      /\ wpc[w] \in RoomPCs => Length(q) < NumRecords
    BY InPage
<1>2. /\ recs'[q] = s /\ \A p \in Pages \ {q} : recs'[p] = recs[p]
    BY <1>1 DEF TypeInv
<1>3. TypeInv'
    <2>1. t \in WriterPCs
        BY DEF LatchedPCs, WriterPCs
    <2> QED BY <1>1, <2>1 DEF TypeInv
<1>4. OthersStay(w) /\ wpc'[w] = t
    BY <1>1 DEF OthersStay, TypeInv
<1>5. Length(q)' = Length(q)
    BY DEF Length
<1>6. LiveCount(q)' = Cardinality(Undeleted(s, Length(q)))
    BY <1>2, <1>5 DEF LiveCount, Live, Undeleted
<1>7. Length(q)' >= Length(q) /\ (t \in RoomPCs => Length(q)' < NumRecords)
    BY <1>1, <1>5
<1> QED BY <1>2, <1>3, <1>4, <1>5, <1>6, <1>7, Written

LEMMA PushUncommittedRoom ==
    ASSUME RoomInv, NEW w \in Writers, UNCHANGED setup, PushUncommitted(w)
    PROVE  RoomInv' /\ recs' = [recs EXCEPT ![at[w]] = Append(recs[at[w]], Record(key[w], ver[w]))]
<1> DEFINE q == at[w]
           r == Record(key[w], ver[w])
           s == Append(recs[q], r)
<1> USE DEF PushUncommitted, WGoto, latchVars, clockVars
<1>1. wpc[w] = "push" /\ wpc' = [wpc EXCEPT ![w] = "commitLen"]
    OBVIOUS
<1>2. /\ key[w] \in Keys /\ recs[q] \in Seq(RecordType) /\ Length(q) \in Nat /\ ver[w] \in Nat /\ ver[w] >= 1
      /\ Len(recs[q]) = Length(q) /\ LiveCount(q) \in Nat /\ LiveCount(q) <= active[q] /\ active[q] \in Int
    BY <1>1, InPage DEF LatchedPCs
<1>3. r \in RecordType
    BY <1>2 DEF Record, RecordType
<1>4. s \in Seq(RecordType) /\ Len(s) = Length(q) + 1 /\ \A i \in 1 .. Length(q) : s[i] = recs[q][i]
    BY <1>2, <1>3
<1>5. SubSeq(recs[q], 1, Length(q)) = recs[q]
    BY <1>2
<1>6. recs' = [recs EXCEPT ![q] = s]
    BY <1>5
<1>7. Undeleted(s, Length(q)) = Live(q)
    <2> HIDE DEF s
    <2> QED BY <1>4 DEF Live, Undeleted
<1>8. Cardinality(Undeleted(s, Length(q))) <= active[q]
    BY <1>2, <1>7 DEF LiveCount
<1>9. UNCHANGED <<setup, clock, active, dead, owner, master, roots, op, key, at, lcur, mcur, ver, picked>>
    OBVIOUS
<1>10. "commitLen" \in LatchedPCs /\ "push" \in LatchedPCs /\ "push" \in RoomPCs
    BY DEF LatchedPCs, RoomPCs
<1> HIDE DEF PushUncommitted, s, r
<1>11. RoomInv'
    <2> DEFINE t == "commitLen"
    <2>1. Len(s) = Length(q) + (IF t = "commitLen" THEN 1 ELSE 0)
        BY <1>2, <1>4
    <2>2. Cardinality(Undeleted(s, Length(q)))
             <= active[q] - (IF t = "commitDead" THEN 1 ELSE 0) + (IF t = "commitRevived" THEN 1 ELSE 0)
        BY <1>2, <1>8
    <2>3. t \in LatchedPCs /\ (t \in RoomPCs => wpc[w] \in RoomPCs) /\ wpc[w] \in LatchedPCs
        BY <1>1, <1>10
    <2>4. wpc' = [wpc EXCEPT ![w] = t]
        BY <1>1
    <2> HIDE DEF t
    <2> QED BY <1>2, <1>4, <1>6, <1>9, <2>1, <2>2, <2>3, <2>4, RecordsWritten
<1> QED BY <1>6, <1>11 DEF s, r

(* The record that a delete or an update ends was live.                     *)
LEMMA KillRoom ==
    ASSUME RoomInv, NEW w \in Writers, UNCHANGED setup, Kill(w)
    PROVE  /\ RoomInv' /\ Doomed(w) \in 1 .. Length(at[w])
           /\ recs' = [recs EXCEPT ![at[w]] =
                         [recs[at[w]] EXCEPT ![Doomed(w)] = [recs[at[w]][Doomed(w)] EXCEPT !.del = ver[w]]]]
<1> DEFINE q == at[w]
           i == Doomed(w)
           r == [recs[q][i] EXCEPT !.del = ver[w]]
           s == [recs[q] EXCEPT ![i] = r]
<1> USE DEF Kill, WGoto, latchVars, clockVars
<1>1. /\ wpc[w] = "kill" /\ wpc' = [wpc EXCEPT ![w] = "commitDead"]
      /\ i # 0 /\ ~IsDeleted(recs[q][i])
    OBVIOUS
<1>2. /\ recs[q] \in Seq(RecordType) /\ Length(q) \in Nat /\ ver[w] \in Nat /\ ver[w] >= 1
      /\ Len(recs[q]) = Length(q) /\ LiveCount(q) \in Nat /\ LiveCount(q) <= active[q] /\ active[q] \in Int
      /\ IsFiniteSet(Live(q)) /\ q \in Pages /\ TypeInv
    BY <1>1, InPage DEF LatchedPCs
<1>3. i \in 1 .. Length(q)
    <2>1. \A n \in Int : RFind(q, key[w], n) = 0 \/ RFind(q, key[w], n) \in 1 .. n
        BY RFindFacts
    <2>2. i = RFind(q, key[w], Length(q)) \/ i = RFind(q, key[w], Length(q) - 1)
        BY DEF Doomed
    <2>3. i \in 1 .. Length(q) \/ i \in 1 .. Length(q) - 1
        BY <1>1, <1>2, <2>1, <2>2
    <2> QED BY <1>2, <2>3
<1>4. recs' = [recs EXCEPT ![q] = s]
    OBVIOUS
<1>5. UNCHANGED <<setup, clock, active, dead, owner, master, roots, op, key, at, lcur, mcur, ver, picked>>
    OBVIOUS
<1> HIDE DEF Kill, i
<1>6. recs[q][i] \in RecordType
    BY <1>2, <1>3
<1>7. r \in RecordType /\ IsDeleted(r)
    <2> DEFINE o == recs[q][i]
    <2>1. o \in RecordType
        BY <1>6
    <2> HIDE DEF o
    <2>2. [o EXCEPT !.del = ver[w]] \in RecordType /\ [o EXCEPT !.del = ver[w]].del = ver[w]
        BY <1>2, <2>1 DEF RecordType
    <2>3. r = [o EXCEPT !.del = ver[w]]
        BY DEF o
    <2> HIDE DEF r
    <2> QED BY <1>2, <2>2, <2>3 DEF IsDeleted
<1> HIDE DEF r
<1>8. s \in Seq(RecordType) /\ Len(s) = Length(q) /\ s[i] = r /\ \A j \in 1 .. Length(q) : j # i => s[j] = recs[q][j]
    BY <1>2, <1>3, <1>7
<1> HIDE DEF s
<1>9. Undeleted(s, Length(q)) = Live(q) \ {i}
    BY <1>7, <1>8 DEF Live, Undeleted
<1>10. Cardinality(Undeleted(s, Length(q))) <= active[q] - 1
    <2>1. i \in Live(q)
        BY <1>1, <1>3 DEF Live
    <2>2. Cardinality(Live(q) \ {i}) = LiveCount(q) - 1
        BY <1>2, <2>1, FS_RemoveElement DEF LiveCount
    <2> QED BY <1>2, <1>9, <2>2
<1>11. "commitDead" \in LatchedPCs /\ "kill" \in LatchedPCs /\ "commitDead" \notin RoomPCs
    BY DEF LatchedPCs, RoomPCs
<1>12. RoomInv'
    <2> DEFINE t == "commitDead"
    <2>1. Len(s) = Length(q) + (IF t = "commitLen" THEN 1 ELSE 0)
        BY <1>2, <1>8
    <2>2. Cardinality(Undeleted(s, Length(q)))
             <= active[q] - (IF t = "commitDead" THEN 1 ELSE 0) + (IF t = "commitRevived" THEN 1 ELSE 0)
        BY <1>2, <1>10
    <2>3. t \in LatchedPCs /\ (t \in RoomPCs => wpc[w] \in RoomPCs) /\ wpc[w] \in LatchedPCs
        BY <1>1, <1>11
    <2>4. wpc' = [wpc EXCEPT ![w] = t]
        BY <1>1
    <2> HIDE DEF t
    <2> QED BY <1>2, <1>8, <1>4, <1>5, <2>1, <2>2, <2>3, <2>4, RecordsWritten
<1> QED BY <1>3, <1>4, <1>12 DEF i, r, s

(* A record revived by an update in place counts as live one step later.    *)
LEMMA OverwriteRoom ==
    ASSUME RoomInv, NEW w \in Writers, UNCHANGED setup, Overwrite(w)
    PROVE  RoomInv'
<1> DEFINE q == at[w]
           i == RFind(q, key[w], Length(q))
           o == recs[q][i]
           r == [o EXCEPT !.val = -o.val, !.del = 0]
           s == [recs[q] EXCEPT ![i] = r]
           t == IF IsDeleted(o) THEN "commitRevived" ELSE "unlatch"
<1> USE DEF Overwrite, latchVars, clockVars
<1>1. wpc[w] = "overwrite" /\ wpc' = [wpc EXCEPT ![w] = t]
    OBVIOUS
<1>2. /\ recs[q] \in Seq(RecordType) /\ Length(q) \in Nat
      /\ Len(recs[q]) = Length(q) /\ LiveCount(q) \in Nat /\ LiveCount(q) <= active[q] /\ active[q] \in Int
      /\ IsFiniteSet(Live(q)) /\ q \in Pages /\ TypeInv
    BY <1>1, InPage DEF LatchedPCs
<1>3. i = 0 \/ i \in 1 .. Length(q)
    BY <1>2, RFindFacts
<1>4. recs' = [recs EXCEPT ![q] = s]
    OBVIOUS
<1>5. UNCHANGED <<setup, clock, active, dead, owner, master, roots, op, key, at, lcur, mcur, ver, picked>>
    OBVIOUS
<1> HIDE DEF Overwrite, i
<1>6. CASE i = 0
    <2>1. s = recs[q]
        BY <1>2, <1>6
    <2>2. Undeleted(s, Length(q)) = Live(q)
        BY <2>1 DEF Live, Undeleted
    <2> HIDE DEF s
    <2>3. Cardinality(Undeleted(s, Length(q))) <= active[q]
        BY <1>2, <2>2 DEF LiveCount
    <2>4. t \in {"commitRevived", "unlatch"}
        OBVIOUS
    <2>5. /\ "overwrite" \in LatchedPCs /\ "overwrite" \in RoomPCs /\ t \in LatchedPCs
          /\ t \notin {"push", "commitLen", "kill", "commitDead"}
        BY DEF LatchedPCs, RoomPCs
    <2> HIDE DEF t
    <2>6. Cardinality(Undeleted(s, Length(q)))
             <= active[q] - (IF t = "commitDead" THEN 1 ELSE 0) + (IF t = "commitRevived" THEN 1 ELSE 0)
        <3>1. Cardinality(Undeleted(s, Length(q))) \in Nat
            BY <1>2, <2>2 DEF LiveCount
        <3> QED BY <1>2, <2>3, <2>5, <3>1
    <2>7. Len(s) = Length(q) + (IF t = "commitLen" THEN 1 ELSE 0) /\ s \in Seq(RecordType)
        BY <1>2, <2>1, <2>5
    <2> QED BY <1>1, <1>4, <1>5, <2>5, <2>6, <2>7, RecordsWritten
<1>7. CASE i \in 1 .. Length(q)
    <2>1. o \in RecordType
        BY <1>2, <1>7
    <2>2. r \in RecordType /\ ~IsDeleted(r)
        <3> HIDE DEF o
        <3>1. o.val \in Int /\ -o.val \in Int
            BY <2>1 DEF RecordType
        <3>2. r.del = 0 /\ r \in RecordType
            BY <2>1, <3>1 DEF RecordType
        <3> QED BY <3>2 DEF IsDeleted
    <2> HIDE DEF r
    <2>3. s \in Seq(RecordType) /\ Len(s) = Length(q) /\ s[i] = r /\ \A j \in 1 .. Length(q) : j # i => s[j] = recs[q][j]
        BY <1>2, <1>7, <2>2
    <2> HIDE DEF s
    <2>4. Undeleted(s, Length(q)) = Live(q) \cup {i}
        BY <1>7, <2>2, <2>3 DEF Live, Undeleted
    <2>5. /\ Cardinality(Live(q) \cup {i}) \in Nat
          /\ Cardinality(Live(q) \cup {i}) <= LiveCount(q) + (IF t = "commitRevived" THEN 1 ELSE 0)
        <3>0. /\ Cardinality(Live(q) \cup {i}) \in Nat
              /\ Cardinality(Live(q) \cup {i}) <= LiveCount(q) + 1
            <4>1. Cardinality(Live(q) \cup {i}) = LiveCount(q) \/ Cardinality(Live(q) \cup {i}) = LiveCount(q) + 1
                BY <1>2, FS_AddElement DEF LiveCount
            <4> QED BY <1>2, <4>1
        <3>1. CASE IsDeleted(o)
            BY <3>0, <3>1
        <3>2. CASE ~IsDeleted(o)
            <4>1. Live(q) \cup {i} = Live(q)
                BY <1>7, <3>2 DEF Live
            <4>2. Cardinality(Live(q) \cup {i}) = LiveCount(q)
                BY <4>1 DEF LiveCount
            <4> QED BY <1>2, <3>2, <4>2
        <3> QED BY <3>1, <3>2
    <2>6. t \in {"commitRevived", "unlatch"}
        OBVIOUS
    <2> HIDE DEF t
    <2>7. /\ "overwrite" \in LatchedPCs /\ "overwrite" \in RoomPCs /\ t \in LatchedPCs
          /\ t \notin {"push", "commitLen", "kill", "commitDead"}
        BY <2>6 DEF LatchedPCs, RoomPCs
    <2>8. Cardinality(Undeleted(s, Length(q)))
             <= active[q] - (IF t = "commitDead" THEN 1 ELSE 0) + (IF t = "commitRevived" THEN 1 ELSE 0)
        BY <1>2, <2>4, <2>5, <2>7
    <2>9. Len(s) = Length(q) + (IF t = "commitLen" THEN 1 ELSE 0)
        BY <1>2, <2>3, <2>7
    <2> QED BY <1>1, <1>4, <1>5, <2>3, <2>7, <2>8, <2>9, RecordsWritten
<1> QED BY <1>3, <1>6, <1>7

(* The leaf's latch is dropped: every version of it that was loaded is old. *)
LEMMA UnlatchRoom ==
    ASSUME RoomInv, NEW w \in Writers, UNCHANGED setup, Unlatch(w)
    PROVE  RoomInv'
<1> DEFINE q == at[w]
<1> USE DEF Unlatch, WGoto, pageVars, clockVars
<1>1. wpc[w] = "unlatch" /\ wpc[w] \in LatchedPCs /\ w # None
    BY Bounds DEF LatchedPCs
<1>2. /\ TypeInv /\ q \in Pages /\ owner[q] = w /\ Length(q) \in Nat
      /\ Len(recs[q]) = Length(q) /\ LiveCount(q) <= active[q] /\ PageAt(q)
    <2>1. /\ TypeInv /\ q \in Pages /\ owner[q] = w /\ Length(q) \in Nat
          /\ Len(recs[q]) = Length(q) + 0 /\ LiveCount(q) <= active[q] - 0 + 0 /\ active[q] \in Int
        BY <1>1, InPage
    <2> QED BY <2>1 DEF RoomInv
<1>3. TypeInv'
    <2>1. "idle" \in WriterPCs
        BY DEF WriterPCs
    <2>2. owner' \in [Pages -> Writers \cup {None}] /\ lcur' \in [Writers -> BOOLEAN]
        BY <1>2 DEF TypeInv
    <2>3. op' \in [Writers -> Operations \cup {None}] /\ key' \in [Writers -> Keys \cup {None}]
        BY <1>2 DEF TypeInv
    <2>4. at' \in [Writers -> Pages \cup {0}] /\ wpc' \in [Writers -> WriterPCs]
        BY <1>2, <2>1 DEF TypeInv
    <2> QED BY <1>2, <2>2, <2>3, <2>4 DEF TypeInv
<1>4. /\ wpc'[w] = "idle" /\ owner'[q] = None /\ \A p \in Pages \ {q} : owner'[p] = owner[p]
      /\ \A u \in Writers \ {w} : /\ wpc'[u] = wpc[u] /\ op'[u] = op[u] /\ key'[u] = key[u] /\ at'[u] = at[u]
                                  /\ lcur'[u] => lcur[u] /\ at[u] # q
    <2>1. wpc'[w] = "idle" /\ owner'[q] = None /\ \A p \in Pages \ {q} : owner'[p] = owner[p]
        BY <1>2 DEF TypeInv
    <2>2. \A u \in Writers \ {w} : wpc'[u] = wpc[u] /\ op'[u] = op[u] /\ key'[u] = key[u] /\ at'[u] = at[u]
        BY <1>2 DEF TypeInv
    <2>3. \A u \in Writers \ {w} : lcur'[u] => lcur[u] /\ at[u] # q
        OBVIOUS
    <2> QED BY <2>1, <2>2, <2>3
<1>5. UNCHANGED <<setup, recs, active, dead, master, roots, mcur, ver, picked>>
    OBVIOUS
<1> HIDE DEF Unlatch
<1>6. \A p : Length(p)' = Length(p) /\ LiveCount(p)' = LiveCount(p)
    BY <1>5 DEF Length, LiveCount, Live
<1>7. WriterAt(w)'
    BY <1>4 DEF WriterAt, LatchedPCs, SplitPCs, CopyPCs, RoomPCs
<1>8. \A u \in Writers \ {w} : WriterAt(u)'
    <2> SUFFICES ASSUME NEW u \in Writers \ {w} PROVE WriterAt(u)'
        OBVIOUS
    <2>1. /\ WriterAt(u) /\ wpc'[u] = wpc[u] /\ op'[u] = op[u] /\ key'[u] = key[u] /\ at'[u] = at[u]
          /\ lcur'[u] => lcur[u] /\ at[u] # q
        BY <1>4 DEF RoomInv
    <2>2. Length(at[u])' = Length(at[u]) /\ LiveCount(at[u])' = LiveCount(at[u])
        BY <1>6, <2>1
    <2>3. Length(NewPage)' = Length(NewPage) /\ NewPage' = NewPage
        BY <1>5 DEF NewPage, Length
    <2>4. wpc[u] \in LatchedPCs => owner'[at[u]] = u
        <3> SUFFICES ASSUME wpc[u] \in LatchedPCs PROVE owner'[at[u]] = u
            OBVIOUS
        <3>1. at[u] \in Pages /\ owner[at[u]] = u
            BY AtPage DEF LatchedPCs
        <3> QED BY <1>2, <1>4, <3>1
    <2>5. wpc[u] \in {"endSplit", "unlatchMaster", "upgrade"} /\ lcur'[u] => lcur[u] /\ owner'[at[u]] = owner[at[u]]
        BY <1>4, <2>1, AtPage
    <2> QED BY <1>5, <2>1, <2>2, <2>3, <2>4, <2>5 DEF WriterAt
<1> QED
    <2>1. \A p \in Pages : PageAt(p)'
        <3> SUFFICES ASSUME NEW p \in Pages PROVE PageAt(p)'
            OBVIOUS
        <3>1. CASE p = q
            <4>1. owner'[p] = None /\ PageAt(p) /\ Len(recs'[p]) = Length(p)' /\ LiveCount(p)' <= active'[p]
                BY <1>2, <1>4, <1>5, <1>6, <3>1
            <4>2. \A S : ~OwnerAt(p, S)'
                BY <4>1 DEF OwnerAt
            <4> QED BY <1>5, <1>6, <4>1, <4>2 DEF PageAt
        <3>2. CASE p # q
            <4>1. owner'[p] = owner[p] /\ PageAt(p) /\ owner[p] \in Writers \cup {None}
                BY <1>2, <1>4, <3>2 DEF RoomInv, TypeInv
            <4>2. owner[p] # None => wpc[owner[p]] \in LatchedPCs /\ at[owner[p]] = p
                BY <4>1 DEF PageAt, OwnerAt
            <4>3. owner[p] # None => owner[p] \in Writers \ {w}
                BY <3>2, <4>1, <4>2
            <4>4. \A S : OwnerAt(p, S)' <=> OwnerAt(p, S)
                BY <1>4, <4>1, <4>3 DEF OwnerAt
            <4>5. owner[p] # None => at'[owner[p]] = at[owner[p]]
                BY <1>4, <4>3
            <4> QED BY <1>5, <1>6, <4>1, <4>4, <4>5 DEF PageAt
        <3> QED BY <3>1, <3>2
    <2> QED BY <1>3, <1>7, <1>8, <2>1 DEF RoomInv

---------------------------------------------------------------------------
(* The tree before the writers and readers come.                            *)
LEMMA InitRoom == ASSUME Init PROVE RoomInv
<1> DEFINE n == setup.preload
           ended == IF setup.gone THEN n ELSE n - 1
<1>1. setup \in Setup /\ setup \in Setups
    BY RootLeafAssumption DEF Init
<1>2. n \in Nat /\ n >= 1 /\ ended \in Nat /\ ended <= n /\ n - ended \in Nat /\ ended >= n - 1 /\ n < NumRecords
    BY <1>1, Bounds DEF Setup
<1> HIDE DEF ended, n
<1>3. PICK k \in Keys : recs = [p \in Pages |-> IF p # 1 THEN << >> ELSE
                              [i \in 1 .. n |->
                                 [Record(k, i) EXCEPT
                                     !.del = IF i <= ended THEN i + 1 ELSE 0]]]
    BY DEF Init, n, ended
<1> DEFINE first == [i \in 1 .. n |-> [Record(k, i) EXCEPT !.del = IF i <= ended THEN i + 1 ELSE 0]]
<1>4. first \in Seq(RecordType) /\ Len(first) = n /\ \A i \in 1 .. n : first[i].del = IF i <= ended THEN i + 1 ELSE 0
    <2>1. \A i \in 1 .. n : first[i] \in RecordType /\ first[i].del = IF i <= ended THEN i + 1 ELSE 0
        BY <1>2 DEF Record, RecordType
    <2>2. ASSUME NEW f, f = [i \in 1 .. n |-> f[i]], \A i \in 1 .. n : f[i] \in RecordType
          PROVE  f \in Seq(RecordType) /\ Len(f) = n
        <3>1. f \in [1 .. n -> RecordType]
            BY <2>2
        <3> QED BY <1>2, <3>1
    <2>3. first = [i \in 1 .. n |-> first[i]]
        OBVIOUS
    <2> HIDE DEF first
    <2> QED BY <2>1, <2>2, <2>3
<1>5. 1 \in Pages /\ recs[1] = first /\ \A p \in Pages \ {1} : recs[p] = << >>
    BY <1>3, Bounds DEF Pages
<1>6. recs \in [Pages -> Seq(RecordType)]
    <2>1. \A p \in Pages : recs[p] \in Seq(RecordType)
        <3> HIDE DEF first
        <3>1. << >> \in Seq(RecordType)
            OBVIOUS
        <3> QED BY <1>4, <1>5, <3>1
    <2>2. recs = [p \in Pages |-> recs[p]]
        BY <1>3
    <2> QED BY <2>1, <2>2
<1>7. /\ clock = ended + 2
      /\ active = [p \in Pages |-> IF p = 1 THEN n - ended ELSE 0]
      /\ dead = [p \in Pages |-> IF p = 1 THEN ended ELSE 0]
    BY DEF Init, n, ended
<1>8. TypeInv
    <2>1. active \in [Pages -> Int] /\ dead \in [Pages -> Int] /\ clock \in Nat \ {0}
        BY <1>2, <1>7
    <2>2. roots \in Seq(Nat) /\ Len(roots) \in Pages
        BY <1>5 DEF Init
    <2>3. "idle" \in WriterPCs
        BY DEF WriterPCs
    <2> QED BY <1>1, <1>6, <2>1, <2>2, <2>3 DEF Init, TypeInv
<1>9. \A w \in Writers : WriterAt(w)
    BY DEF Init, WriterAt, LatchedPCs, SplitPCs, CopyPCs, RoomPCs
<1>10. \A p \in Pages : PageAt(p)
    <2> SUFFICES ASSUME NEW p \in Pages PROVE PageAt(p)
        OBVIOUS
    <2>1. owner[p] = None /\ ~(p < Len(roots))
        BY Bounds DEF Init, Pages
    <2>2. \A S : ~OwnerAt(p, S)
        BY <2>1 DEF OwnerAt
    <2>3. CASE p = 1
        <3>1. Length(p) = n /\ Len(recs[p]) = n /\ active[p] = n - ended
            <4> HIDE DEF first
            <4> QED BY <1>2, <1>4, <1>5, <1>7, <2>3 DEF Length
        <3>2. Live(p) \subseteq ended + 1 .. n
            <4>1. ASSUME NEW i \in Live(p) PROVE i \in ended + 1 .. n
                <5>1. i \in 1 .. n /\ first[i].del = 0
                    BY <1>5, <2>3, <3>1, <4>1 DEF Live, IsDeleted
                <5>2. i <= ended => i + 1 = 0
                    BY <1>4, <5>1
                <5> HIDE DEF first
                <5> QED BY <1>2, <5>1, <5>2
            <4> QED BY <4>1
        <3>3. IsFiniteSet(ended + 1 .. n) /\ Cardinality(ended + 1 .. n) = n - ended
            <4>1. ended + 1 \in Int /\ n \in Int
                BY <1>2
            <4> QED BY <1>2, <4>1, FS_Interval
        <3>4. LiveCount(p) <= active[p]
            <4>1. Cardinality(Live(p)) <= Cardinality(ended + 1 .. n)
                BY <3>2, <3>3, FS_Subset
            <4> QED BY <3>1, <3>3, <4>1 DEF LiveCount
        <3> QED BY <1>2, <2>1, <2>2, <3>1, <3>4 DEF PageAt
    <2>4. CASE p # 1
        <3>1. Length(p) = 0 /\ Len(recs[p]) = 0 /\ active[p] = 0
            BY <1>5, <1>7, <2>4 DEF Length
        <3>2. LiveCount(p) <= 0
            BY <1>8, <3>1, LiveFacts
        <3> QED BY <2>1, <2>2, <3>1, <3>2 DEF PageAt
    <2> QED BY <2>3, <2>4
<1> QED BY <1>8, <1>9, <1>10 DEF RoomInv

(* Readers touch nothing that the writers rely on.                          *)
LEMMA ReadersAside ==
    ASSUME UNCHANGED setup, (\E r \in Readers : Reader(r)) \/ AdvanceWatermark
    PROVE  UNCHANGED core
<1>1. CASE AdvanceWatermark
    BY <1>1 DEF AdvanceWatermark, Clock!Advance, core, pageVars, latchVars, writerVars
<1>2. ASSUME NEW r \in Readers, Reader(r) PROVE UNCHANGED core
    <2> USE DEF core, clockVars, pageVars, latchVars, writerVars
    <2>1. CASE PinReader(r) \/ Register(r) \/ RootFor(r) \/ AsRecords(r) \/ Answer(r) \/ Close(r)
        BY <2>1 DEF PinReader, Register, RootFor, AsRecords, Answer, Close
    <2>2. CASE DrawSnapshot(r) \/ AskForVersion(r)
        BY <2>2 DEF DrawSnapshot, AskForVersion
    <2>3. CASE FilterRecord(r) \/ FindRecord(r)
        BY <2>3 DEF FilterRecord, FindRecord
    <2> QED BY <1>2, <2>1, <2>2, <2>3 DEF Reader
<1> QED BY <1>1, <1>2

LEMMA NextRoom == ASSUME RoomInv, [Next]_vars PROVE RoomInv'
<1>1. CASE UNCHANGED vars
    <2>1. UNCHANGED core
        BY <1>1 DEF vars, core
    <2> QED BY <2>1, CoreStays
<1>2. CASE Next
    <2>0. UNCHANGED setup
        BY <1>2 DEF Next
    <2>1. ASSUME NEW w \in Writers, Descend(w) PROVE RoomInv'
        BY <2>0, <2>1, DispatchRoom, BorrowMasterRoom, LoadRootRoom, BorrowLeafRoom, UnsafeDegreeRootRoom,
           UpgradeMasterRoom, UpgradeLeafRoom DEF Descend
    <2>2. ASSUME NEW w \in Writers, SplitRoot(w) PROVE RoomInv'
        BY <2>0, <2>2, CollectRoom, BulkPushRoom, SplitCommitRoom, AppendRootRoom, UnlatchMasterRoom DEF SplitRoot
    <2>3. ASSUME NEW w \in Writers, Operate(w) PROVE RoomInv'
        BY <2>0, <2>3, OperateLocally, OverwriteRoom, CommitRoom, PushUncommittedRoom, KillRoom, UnlatchRoom
           DEF Operate
    <2>4. CASE (\E r \in Readers : Reader(r)) \/ AdvanceWatermark
        BY <2>0, <2>4, ReadersAside, CoreStays
    <2> QED BY <1>2, <2>1, <2>2, <2>3, <2>4 DEF Next
<1> QED BY <1>1, <1>2

(* The bookkeeping of latches, pages and counts holds throughout.           *)
THEOREM SpecRoomInv == Spec => []RoomInv
<1>1. Init => RoomInv
    BY InitRoom
<1>2. RoomInv /\ [Next]_vars => RoomInv'
    BY NextRoom
<1> QED BY <1>1, <1>2, PTL DEF Spec

(* Whoever latches a leaf has the current root with room for a record: the  *)
(* versions the borrows loaded vouch for what was looked at before.         *)
THEOREM SpecLatchedLeafHasRoom == Spec => []LatchedLeafHasRoom
<1>1. RoomInv => LatchedLeafHasRoom
    <2> SUFFICES ASSUME RoomInv, NEW w \in Writers,
                        wpc[w] \in {"latched", "peekMax", "overwrite", "validate", "push"}
                 PROVE  owner[at[w]] = w /\ at[w] = Len(roots) /\ Length(at[w]) < NumRecords
        BY DEF LatchedLeafHasRoom
    <2>1. wpc[w] \in LatchedPCs /\ wpc[w] \in RoomPCs /\ wpc[w] \notin {"idle", "load", "root"}
        BY DEF LatchedPCs, RoomPCs
    <2>2. owner[at[w]] = w /\ Length(at[w]) < NumRecords /\ Length(at[w]) \in Nat
        BY <2>1, InPage
    <2>3. at[w] \in Int /\ at[w] <= Len(roots) /\ PageAt(at[w]) /\ Len(roots) \in Int
        BY <2>1, AtPage DEF RoomInv, TypeInv
    <2>4. ~(at[w] < Len(roots))
        BY <2>2, <2>3, Bounds DEF PageAt
    <2> QED BY <2>2, <2>3, <2>4
<1> QED BY <1>1, SpecRoomInv, PTL

---------------------------------------------------------------------------
(* The lifetimes of the records: as long as no update runs beside another   *)
(* writer, the lifetimes of a key's records never overlap, in the page an   *)
(* operation left and in the page a version split has filled.               *)

(* No update is under way beside another writer: a version split that       *)
(* copies the page between an update's two soft commits clones both the old *)
(* record and the new one.                                                  *)
NoRacingUpdate == \A s \in Setups : "update" \in s.ops => s.together <= 1

Alone == "update" \in setup.ops =>
            \A u, w \in Writers : wpc[u] # "idle" /\ wpc[w] # "idle" => u = w

(* The first n records of page p.                                           *)
Tidy(p, n) ==
    \A i, j \in 1 .. n : i < j =>
        /\ recs[p][i].ins < recs[p][j].ins
        /\ recs[p][i].key = recs[p][j].key => recs[p][i].del \in 1 .. recs[p][j].ins

(* An update has pushed its record, and not yet ended the one before.       *)
Updating(p) == OwnerAt(p, {"commitLen", "kill"}) /\ op[owner[p]] = "update"

(* The last record is the one that writer w has just pushed.                *)
Pushed(p, w) ==
    LET n == Len(recs[p])
    IN  /\ n >= 1 /\ Tidy(p, n - 1)
        /\ recs[p][n].key = key[w] /\ recs[p][n].ins = ver[w]
        /\ \A i \in 1 .. n - 1 : recs[p][i].ins < ver[w]

(* No record is from the future, and the lifetimes are in order but for the *)
(* record an update has not yet ended.                                      *)
LifeAt(p) ==
    /\ \A i \in 1 .. Len(recs[p]) : recs[p][i].ins < clock /\ recs[p][i].del < clock
    /\ ~Updating(p) => Tidy(p, Len(recs[p]))
    /\ Updating(p) => Pushed(p, owner[p])

(* What a writer knows of its commit: its version is newer than the page,   *)
(* it deletes only where there is room, and a split has collected live      *)
(* records.                                                                 *)
CommitAt(w) ==
    /\ wpc[w] # "idle" => op[w] \in setup.ops
    /\ wpc[w] \in {"push", "commitLen", "kill"} => ver[w] < clock
    /\ wpc[w] \in {"peekMax", "overwrite", "validate"} => op[w] = "update"
    /\ wpc[w] \in {"push", "commitLen"} => op[w] # "delete"
    /\ wpc[w] = "kill" => op[w] # "insert"
    /\ wpc[w] = "kill" /\ op[w] = "delete" => Length(at[w]) < NumRecords
    /\ wpc[w] = "push" => \A i \in 1 .. Len(recs[at[w]]) :
                             recs[at[w]][i].ins < ver[w] /\ recs[at[w]][i].del < ver[w]
    /\ wpc[w] = "push" /\ op[w] = "insert" => ~LiveIn(at[w], key[w])
    /\ wpc[w] = "copy" => \A i \in picked[w] : ~IsDeleted(recs[at[w]][i])

LifeInv ==
    /\ Alone
    /\ \A p \in Pages : LifeAt(p)
    /\ \A w \in Writers : CommitAt(w)

---------------------------------------------------------------------------
(* What a step leaves of the invariant.                                     *)

LEMMA CoreStaysLife == ASSUME LifeInv, UNCHANGED core PROVE LifeInv'
<1>1. Alone'
    BY DEF LifeInv, Alone, core
<1>2. \A p \in Pages : LifeAt(p)'
    <2> SUFFICES ASSUME NEW p \in Pages PROVE LifeAt(p)'
        OBVIOUS
    <2>1. LifeAt(p)
        BY DEF LifeInv
    <2>2. (Updating(p)' <=> Updating(p)) /\ (Pushed(p, owner[p])' <=> Pushed(p, owner[p]))
        BY DEF Updating, OwnerAt, Pushed, Tidy, core
    <2>3. Tidy(p, Len(recs[p]))' <=> Tidy(p, Len(recs[p]))
        BY DEF Tidy, core
    <2> QED BY <2>1, <2>2, <2>3 DEF LifeAt, core
<1>3. \A w \in Writers : CommitAt(w)'
    <2> SUFFICES ASSUME NEW w \in Writers PROVE CommitAt(w)'
        OBVIOUS
    <2>1. CommitAt(w)
        BY DEF LifeInv
    <2>2. LiveIn(at[w], key[w])' = LiveIn(at[w], key[w]) /\ Length(at[w])' = Length(at[w])
        BY DEF LiveIn, RFind, Length, core
    <2> QED BY <2>1, <2>2 DEF CommitAt, core
<1> QED BY <1>1, <1>2, <1>3 DEF LifeInv

(* A writer that is under way does not add to those that are.               *)
LEMMA AloneStays ==
    ASSUME LifeInv, NEW w \in Writers, wpc[w] # "idle", OthersStay(w), UNCHANGED setup
    PROVE  Alone'
<1>1. \A u \in Writers : wpc'[u] # "idle" => wpc[u] # "idle"
    BY DEF OthersStay
<1> QED BY <1>1 DEF LifeInv, Alone

(* A page nobody writes to.                                                 *)
LEMMA PageStays ==
    ASSUME RoomInv, NEW p \in Pages, LifeAt(p), recs'[p] = recs[p], clock' \in Nat, clock' >= clock,
           Updating(p)' <=> Updating(p),
           Updating(p) => owner'[p] = owner[p] /\ key'[owner[p]] = key[owner[p]] /\ ver'[owner[p]] = ver[owner[p]]
    PROVE  LifeAt(p)'
<1>1. /\ clock \in Int /\ Len(recs[p]) \in Nat
      /\ \A i \in 1 .. Len(recs[p]) : recs[p][i].ins \in Int /\ recs[p][i].del \in Int
    <2>1. clock \in Int /\ recs[p] \in Seq(RecordType)
        BY DEF RoomInv, TypeInv
    <2>2. \A i \in 1 .. Len(recs[p]) : recs[p][i] \in RecordType
        BY <2>1
    <2>3. \A r \in RecordType : r.ins \in Int /\ r.del \in Int
        BY DEF RecordType
    <2> QED BY <2>1, <2>2, <2>3
<1>2. \A i \in 1 .. Len(recs'[p]) : recs'[p][i].ins < clock' /\ recs'[p][i].del < clock'
    BY <1>1 DEF LifeAt
<1>3. \A n : Tidy(p, n)' <=> Tidy(p, n)
    BY DEF Tidy
<1>4. Updating(p) => Pushed(p, owner[p])'
    BY <1>3 DEF LifeAt, Pushed
<1>5. ~Updating(p) => Tidy(p, Len(recs[p]))'
    BY <1>3 DEF LifeAt
<1> QED BY <1>2, <1>4, <1>5 DEF LifeAt

(* A step of writer w that writes to page x only, if to any: w alone has    *)
(* latched x, or nobody has.                                                *)
LEMMA LifeStep ==
    ASSUME RoomInv, LifeInv, NEW w \in Writers, NEW x, OthersStay(w), UNCHANGED setup,
           clock' \in Nat, clock' >= clock,
           \A p \in Pages \ {x} : /\ recs'[p] = recs[p] /\ active'[p] = active[p] /\ dead'[p] = dead[p]
                                  /\ owner'[p] = owner[p] /\ owner[p] # w,
           \A u \in Writers \ {w} : wpc[u] \in LatchedPCs => at[u] # x,
           \A u \in Writers \ {w} : wpc[u] = "copy" /\ at[u] = x =>
               \A i \in picked[u] : ~IsDeleted(recs'[x][i]),
           x \in Pages => LifeAt(x)',
           CommitAt(w)', Alone'
    PROVE  LifeInv'
<1>1. \A p \in Pages \ {x} : LifeAt(p)'
    <2> SUFFICES ASSUME NEW p \in Pages \ {x} PROVE LifeAt(p)'
        OBVIOUS
    <2>1. LifeAt(p) /\ recs'[p] = recs[p] /\ owner'[p] = owner[p] /\ owner[p] # w /\ owner[p] \in Writers \cup {None}
        BY DEF LifeInv, RoomInv, TypeInv
    <2>2. owner[p] # None => /\ wpc'[owner[p]] = wpc[owner[p]] /\ op'[owner[p]] = op[owner[p]]
                             /\ key'[owner[p]] = key[owner[p]] /\ ver'[owner[p]] = ver[owner[p]]
        BY <2>1 DEF OthersStay
    <2>3. Updating(p)' <=> Updating(p)
        BY <2>1, <2>2 DEF Updating, OwnerAt
    <2>4. Updating(p) => owner[p] # None
        BY DEF Updating, OwnerAt
    <2> QED BY <2>1, <2>2, <2>3, <2>4, PageStays
<1>2. \A u \in Writers \ {w} : CommitAt(u)'
    <2> SUFFICES ASSUME NEW u \in Writers \ {w} PROVE CommitAt(u)'
        OBVIOUS
    <2>1. /\ CommitAt(u) /\ wpc'[u] = wpc[u] /\ op'[u] = op[u] /\ key'[u] = key[u] /\ at'[u] = at[u]
          /\ ver'[u] = ver[u] /\ picked'[u] = picked[u] /\ ver[u] \in Nat /\ clock \in Nat
        BY DEF LifeInv, OthersStay, RoomInv, TypeInv
    <2>2. wpc[u] \in {"push", "kill"} =>
             /\ recs'[at[u]] = recs[at[u]]
             /\ Length(at[u])' = Length(at[u]) /\ (LiveIn(at[u], key[u])' <=> LiveIn(at[u], key[u]))
        <3> SUFFICES ASSUME wpc[u] \in {"push", "kill"}
                     PROVE  /\ recs'[at[u]] = recs[at[u]] /\ Length(at[u])' = Length(at[u])
                            /\ LiveIn(at[u], key[u])' <=> LiveIn(at[u], key[u])
            OBVIOUS
        <3>1. wpc[u] \in LatchedPCs /\ wpc[u] \notin {"idle", "load", "root"}
            BY DEF LatchedPCs
        <3>2. at[u] \in Pages \ {x}
            BY <3>1, AtPage
        <3>3. recs'[at[u]] = recs[at[u]] /\ active'[at[u]] = active[at[u]] /\ dead'[at[u]] = dead[at[u]]
            BY <3>2
        <3>4. Length(at[u])' = Length(at[u])
            BY <2>1, <3>3 DEF Length
        <3>5. LiveIn(at[u], key[u])' <=> LiveIn(at[u], key[u])
            BY <2>1, <3>3, <3>4 DEF LiveIn, RFind
        <3> QED BY <3>3, <3>4, <3>5
    <2>3. wpc[u] = "copy" => \A i \in picked[u] : ~IsDeleted(recs'[at[u]][i])
        <3> SUFFICES ASSUME wpc[u] = "copy", at[u] # x PROVE \A i \in picked[u] : ~IsDeleted(recs'[at[u]][i])
            OBVIOUS
        <3>1. at[u] \in Pages \ {x}
            BY AtPage
        <3>2. recs'[at[u]] = recs[at[u]]
            BY <3>1
        <3> QED BY <2>1, <3>2 DEF CommitAt
    <2>4. wpc[u] \in {"push", "commitLen", "kill"} => ver'[u] < clock'
        BY <2>1 DEF CommitAt
    <2> QED BY <2>1, <2>2, <2>3, <2>4 DEF CommitAt
<1> QED BY <1>1, <1>2 DEF LifeInv

(* A writer that has latched nothing steps without writing to a page.       *)
LEMMA LifeAside ==
    ASSUME RoomInv, LifeInv, NEW w \in Writers, OthersStay(w), wpc[w] \notin LatchedPCs,
           UNCHANGED <<setup, recs, active, dead, owner>>,
           clock' \in Nat, clock' >= clock, CommitAt(w)', Alone'
    PROVE  LifeInv'
<1>1. 0 \notin Pages
    BY DEF Pages
<1>2. \A p \in Pages : owner[p] # w
    BY NotOwner
<1>3. \A u \in Writers : wpc[u] \in LatchedPCs => at[u] # 0
    BY <1>1, AtPage DEF LatchedPCs
<1>4. \A u \in Writers : wpc[u] = "copy" => at[u] # 0
    BY <1>1, AtPage
<1> QED BY <1>1, <1>2, <1>3, <1>4, LifeStep

(* The others, as the writer that has latched page q sees them.             *)
LEMMA OthersOutside ==
    ASSUME RoomInv, NEW w \in Writers, wpc[w] \in LatchedPCs
    PROVE  /\ \A u \in Writers \ {w} : wpc[u] \in LatchedPCs => at[u] # at[w]
           /\ \A p \in Pages \ {at[w]} : owner[p] # w
<1>1. owner[at[w]] = w /\ w # None
    BY InPage, Bounds
<1>2. \A u \in Writers : wpc[u] \in LatchedPCs => owner[at[u]] = u
    BY AtPage DEF LatchedPCs
<1>3. \A p \in Pages : owner[p] = w => at[w] = p
    BY <1>1 DEF RoomInv, PageAt
<1> QED BY <1>1, <1>2, <1>3

(* A writer goes on in its page, leaves the records alone and has no update *)
(* half done, or still has.                                                 *)
LEMMA LifeInside ==
    ASSUME RoomInv, LifeInv, NEW w \in Writers, OthersStay(w), wpc[w] \in LatchedPCs,
           UNCHANGED <<setup, recs, owner, op, key>>,
           \A p \in Pages \ {at[w]} : active'[p] = active[p] /\ dead'[p] = dead[p],
           clock' \in Nat, clock' >= clock,
           (wpc'[w] \in {"commitLen", "kill"} /\ op[w] = "update")
              <=> (wpc[w] \in {"commitLen", "kill"} /\ op[w] = "update"),
           wpc[w] \in {"commitLen", "kill"} /\ op[w] = "update" => ver'[w] = ver[w],
           CommitAt(w)'
    PROVE  LifeInv'
<1>0. PICK q \in Pages : q = at[w] /\ owner[q] = w
    BY InPage
<1>1. w # None /\ LifeAt(q)
    BY Bounds DEF LifeInv
<1>2. Alone'
    BY AloneStays DEF LatchedPCs
<1>3. LifeAt(q)'
    <2>1. owner'[q] = w /\ recs'[q] = recs[q]
        BY <1>0
    <2>2. Updating(q) <=> wpc[w] \in {"commitLen", "kill"} /\ op[w] = "update"
        BY <1>0, <1>1 DEF Updating, OwnerAt
    <2>3. Updating(q)' <=> wpc'[w] \in {"commitLen", "kill"} /\ op[w] = "update"
        BY <1>1, <2>1 DEF Updating, OwnerAt
    <2> QED BY <1>0, <1>1, <2>1, <2>2, <2>3, PageStays
<1>4. \A u \in Writers \ {w} : wpc[u] = "copy" /\ at[u] = q =>
         \A i \in picked[u] : ~IsDeleted(recs'[q][i])
    BY DEF LifeInv, CommitAt
<1>5. \A p \in Pages \ {q} : /\ recs'[p] = recs[p] /\ active'[p] = active[p] /\ dead'[p] = dead[p]
                             /\ owner'[p] = owner[p] /\ owner[p] # w
    BY <1>0, OthersOutside
<1>6. \A u \in Writers \ {w} : wpc[u] \in LatchedPCs => at[u] # q
    BY <1>0, OthersOutside
<1> QED BY <1>2, <1>3, <1>4, <1>5, <1>6, LifeStep

---------------------------------------------------------------------------
(* The descent and the split.                                               *)

(* Where nothing is asked of a writer's commit.                             *)
LooseEnds == {"peekMax", "overwrite", "validate", "push", "commitLen", "kill", "copy"}

LEMMA LifeQuiet ==
    ASSUME RoomInv, LifeInv, NEW w \in Writers, OthersStay(w), wpc[w] \notin LatchedPCs, wpc[w] # "idle",
           UNCHANGED <<setup, recs, active, dead, owner, op>>, clock' \in Nat, clock' >= clock,
           wpc'[w] \notin LooseEnds
    PROVE  LifeInv'
<1>1. CommitAt(w)'
    BY DEF LifeInv, CommitAt, LooseEnds
<1>2. Alone'
    BY AloneStays
<1> QED BY <1>1, <1>2, LifeAside

(* Nobody is under way but the writer that updates.                         *)
LEMMA DispatchLife ==
    ASSUME NoRacingUpdate, RoomInv, LifeInv, NEW w \in Writers, UNCHANGED setup, Dispatch(w)
    PROVE  LifeInv'
<1> USE DEF Dispatch, WGoto, pageVars, latchVars, clockVars
<1>1. TypeInv /\ setup \in Setups /\ setup.together \in Nat
    BY SetupFacts DEF RoomInv, TypeInv
<1>2. PICK o \in setup.ops, k \in Keys : op' = [op EXCEPT ![w] = o] /\ key' = [key EXCEPT ![w] = k]
    OBVIOUS
<1>3. OthersStay(w) /\ wpc[w] = "idle" /\ wpc'[w] = "load" /\ op'[w] = o
    BY <1>1, <1>2 DEF OthersStay, TypeInv
<1>4. CommitAt(w)'
    BY <1>3 DEF CommitAt
<1>5. Alone'
    <2> SUFFICES ASSUME "update" \in setup.ops, NEW u \in Writers, u # w PROVE wpc'[u] = "idle"
        BY DEF Alone
    <2> DEFINE busy == {v \in Writers : wpc[v] # "idle"}
    <2>1. IsFiniteSet(busy) /\ Cardinality(busy) \in Nat
        BY RootLeafAssumption, FS_Subset, FS_CardinalityType
    <2>2. Cardinality(busy) < setup.together /\ setup.together <= 1
        BY <1>1 DEF NoRacingUpdate
    <2>3. Cardinality(busy) = 0
        BY <1>1, <2>1, <2>2
    <2>4. busy = {}
        BY <2>1, <2>3, FS_EmptySet
    <2> QED BY <1>3, <2>4 DEF OthersStay
<1>6. wpc[w] \notin LatchedPCs
    BY <1>3 DEF LatchedPCs
<1>7. clock' \in Nat /\ clock' >= clock
    BY <1>1 DEF TypeInv
<1>8. UNCHANGED <<setup, recs, active, dead, owner>>
    OBVIOUS
<1> HIDE DEF Dispatch
<1> QED BY <1>3, <1>4, <1>5, <1>6, <1>7, <1>8, LifeAside

LEMMA DescendLife ==
    ASSUME RoomInv, LifeInv, NEW w \in Writers, UNCHANGED setup,
           \/ BorrowMaster(w) \/ LoadRoot(w) \/ BorrowLeaf(w) \/ UnsafeDegreeRoot(w) \/ UpgradeMaster(w)
           \/ UpgradeLeaf(w) /\ wpc'[w] # "latched"
    PROVE  LifeInv'
<1> USE DEF WGoto, pageVars, latchVars, clockVars
<1> DEFINE Quiet == /\ UNCHANGED <<setup, recs, active, dead, owner, op, clock>>
                    /\ OthersStay(w) /\ wpc[w] \notin LatchedPCs \cup {"idle"} /\ wpc'[w] \notin LooseEnds
<1>0. TypeInv /\ clock \in Nat
    BY DEF RoomInv, TypeInv
<1> SUFFICES Quiet
    <2>1. Quiet => clock' \in Nat /\ clock' >= clock
        BY <1>0
    <2> QED BY <2>1, LifeQuiet
<1>1. CASE BorrowMaster(w)
    BY <1>0, <1>1 DEF BorrowMaster, OthersStay, TypeInv, LatchedPCs, LooseEnds
<1>2. CASE LoadRoot(w)
    BY <1>0, <1>2 DEF LoadRoot, OthersStay, TypeInv, LatchedPCs, LooseEnds
<1>3. CASE BorrowLeaf(w)
    BY <1>0, <1>3 DEF BorrowLeaf, OthersStay, TypeInv, LatchedPCs, LooseEnds
<1>4. CASE UnsafeDegreeRoot(w)
    BY <1>0, <1>4 DEF UnsafeDegreeRoot, OthersStay, TypeInv, LatchedPCs, LooseEnds
<1>5. CASE UpgradeMaster(w)
    BY <1>0, <1>5 DEF UpgradeMaster, Upgrade, OthersStay, TypeInv, LatchedPCs, LooseEnds
<1>6. CASE UpgradeLeaf(w) /\ wpc'[w] # "latched"
    BY <1>0, <1>6 DEF UpgradeLeaf, Upgrade, OthersStay, TypeInv, LatchedPCs, LooseEnds
<1> QED BY <1>1, <1>2, <1>3, <1>4, <1>5, <1>6

LEMMA SplitLife ==
    ASSUME RoomInv, LifeInv, NEW w \in Writers, UNCHANGED setup,
           StartSplit(w) \/ AppendRoot(w) \/ EndSplit(w) \/ UnlatchMaster(w)
    PROVE  LifeInv'
<1> USE DEF WGoto, pageVars, latchVars, clockVars
<1> DEFINE Quiet == /\ UNCHANGED <<setup, recs, active, dead, owner, op>>
                    /\ clock' \in Nat /\ clock' >= clock
                    /\ OthersStay(w) /\ wpc[w] \notin LatchedPCs \cup {"idle"} /\ wpc'[w] \notin LooseEnds
<1>0. TypeInv /\ clock \in Nat
    BY DEF RoomInv, TypeInv
<1> SUFFICES Quiet
    BY LifeQuiet
<1>1. CASE StartSplit(w)
    BY <1>0, <1>1 DEF StartSplit, StartTxCommit, Clock!Begin, OthersStay, TypeInv, LatchedPCs, LooseEnds
<1>2. CASE AppendRoot(w)
    BY <1>0, <1>2 DEF AppendRoot, OthersStay, TypeInv, LatchedPCs, LooseEnds
<1>3. CASE EndSplit(w)
    BY <1>0, <1>3 DEF EndSplit, EndTxCommit, Clock!Finish, OthersStay, TypeInv, LatchedPCs, LooseEnds
<1>4. CASE UnlatchMaster(w)
    BY <1>0, <1>4 DEF UnlatchMaster, OthersStay, TypeInv, LatchedPCs, LooseEnds
<1> QED BY <1>1, <1>2, <1>3, <1>4

LEMMA CollectLife ==
    ASSUME RoomInv, LifeInv, NEW w \in Writers, UNCHANGED setup, Collect(w)
    PROVE  LifeInv'
<1> USE DEF Collect, WGoto, pageVars, latchVars, clockVars
<1>1. TypeInv /\ clock \in Nat /\ CommitAt(w)
    BY DEF RoomInv, TypeInv, LifeInv
<1>2. /\ OthersStay(w) /\ wpc[w] = "collect" /\ wpc'[w] = "copy" /\ op'[w] = op[w]
      /\ picked'[w] = {i \in 1 .. Length(at[w]) : ~IsDeleted(recs[at[w]][i])}
    BY <1>1 DEF OthersStay, TypeInv
<1>3. \A i \in picked'[w] : ~IsDeleted(recs[at[w]][i])
    BY <1>2
<1>4. UNCHANGED <<setup, recs, active, dead, owner, at, op>> /\ clock' \in Nat /\ clock' >= clock
    BY <1>1
<1> HIDE DEF Collect
<1>5. CommitAt(w)'
    BY <1>1, <1>2, <1>3, <1>4 DEF CommitAt
<1>6. Alone' /\ wpc[w] \notin LatchedPCs
    BY <1>2, AloneStays DEF LatchedPCs
<1> QED BY <1>2, <1>4, <1>5, <1>6, LifeAside

(* The clones of live records of different keys: no update is half done in  *)
(* the page they come from.                                                 *)
LEMMA BulkPushLife ==
    ASSUME RoomInv, LifeInv, NEW w \in Writers, UNCHANGED setup, BulkPush(w)
    PROVE  LifeInv'
<1> USE DEF BulkPush, WGoto, latchVars, clockVars
<1>1. TypeInv /\ WriterAt(w) /\ CommitAt(w) /\ wpc[w] = "copy" /\ clock \in Nat /\ Len(roots) \in Int
    BY DEF RoomInv, TypeInv, LifeInv
<1>2. PICK q \in Pages : q = at[w]
    BY <1>1, AtPage
<1>3. PICK n \in Pages : n = NewPage
    BY <1>1 DEF WriterAt, CopyPCs
<1>4. PICK I \in SUBSET (1 .. Len(recs[q])) : I = picked[w] /\ \A i \in I : ~IsDeleted(recs[q][i])
    BY <1>1, <1>2 DEF WriterAt, CommitAt
<1>5. \A u \in Writers : wpc[u] \notin {"idle", "load", "root"} => at[u] # n
    BY <1>1, <1>3, AtPage DEF NewPage
<1>6. \A p \in Pages : owner[p] # w
    BY <1>1, NotOwner DEF LatchedPCs
<1>7. owner[n] = None
    <2> SUFFICES ASSUME owner[n] # None PROVE FALSE
        OBVIOUS
    <2>1. PageAt(n) /\ owner[n] \in Writers
        BY <1>1 DEF RoomInv, TypeInv
    <2> QED BY <1>5, <2>1 DEF PageAt, OwnerAt, LatchedPCs
<1>8. /\ \A p \in Pages \ {n} : recs'[p] = recs[p] /\ active'[p] = active[p] /\ dead'[p] = dead[p]
      /\ recs'[n] = Cloned(q, I)
    BY <1>1, <1>2, <1>3, <1>4 DEF TypeInv
<1>9. OthersStay(w) /\ wpc'[w] = "startSplit"
    BY <1>1 DEF OthersStay, TypeInv
<1>10. UNCHANGED <<setup, owner, op, clock>> /\ clock' \in Nat /\ clock' >= clock
    BY <1>1
<1> HIDE DEF BulkPush
<1>11. ~Updating(q)
    <2> SUFFICES ASSUME Updating(q) PROVE FALSE
        OBVIOUS
    <2>1. owner[q] \in Writers /\ wpc[owner[q]] # "idle" /\ op[owner[q]] = "update"
        BY <1>1 DEF Updating, OwnerAt, TypeInv
    <2>2. "update" \in setup.ops
        BY <2>1 DEF LifeInv, CommitAt
    <2>3. owner[q] = w
        BY <1>1, <2>1, <2>2 DEF LifeInv, Alone
    <2> QED BY <1>6, <2>3
<1>12. LifeAt(n)'
    <2> DEFINE C == Cloned(q, I)
    <2>1. /\ Len(C) = Cardinality(I) /\ Cardinality(I) \in Nat
          /\ \A m \in 1 .. Cardinality(I) : \E i \in I : C[m] = recs[q][i]
          /\ \A m, l \in 1 .. Cardinality(I) : m < l =>
                \E i, k \in I : i < k /\ C[m] = recs[q][i] /\ C[l] = recs[q][k]
        BY <1>1, ClonedFacts
    <2>2. LifeAt(q) /\ Tidy(q, Len(recs[q]))
        BY <1>11 DEF LifeInv, LifeAt
    <2> HIDE DEF C
    <2>3. \A m \in 1 .. Len(C) : C[m].ins < clock /\ C[m].del < clock
        BY <2>1, <2>2 DEF LifeAt
    <2>4. ASSUME NEW m \in 1 .. Len(C), NEW l \in 1 .. Len(C), m < l
          PROVE  C[m].ins < C[l].ins /\ C[m].key # C[l].key
        <3>1. PICK i \in I, k \in I : i < k /\ C[m] = recs[q][i] /\ C[l] = recs[q][k]
            BY <2>1, <2>4
        <3>2. i \in 1 .. Len(recs[q]) /\ k \in 1 .. Len(recs[q])
            OBVIOUS
        <3>3. /\ recs[q][i].ins < recs[q][k].ins
              /\ recs[q][i].key = recs[q][k].key => recs[q][i].del \in 1 .. recs[q][k].ins
            BY <2>2, <3>1, <3>2 DEF Tidy
        <3>4. recs[q][i].del = 0
            BY <1>4 DEF IsDeleted
        <3>5. recs[q][i].del \notin 1 .. recs[q][k].ins
            BY <3>4
        <3> QED BY <3>1, <3>3, <3>5
    <2>5. recs'[n] = C
        BY <1>8 DEF C
    <2>6. Tidy(n, Len(recs[n]))'
        BY <2>4, <2>5 DEF Tidy
    <2>7. ~Updating(n)'
        BY <1>7, <1>10 DEF Updating, OwnerAt
    <2>8. \A i \in 1 .. Len(recs'[n]) : recs'[n][i].ins < clock' /\ recs'[n][i].del < clock'
        BY <1>10, <2>3, <2>5
    <2> QED BY <2>6, <2>7, <2>8 DEF LifeAt
<1>13. CommitAt(w)'
    BY <1>1, <1>9, <1>10 DEF CommitAt
<1>14. Alone'
    BY <1>1, <1>9, AloneStays
<1>15. \A u \in Writers : wpc[u] \in LatchedPCs \cup {"copy"} => at[u] # n
    BY <1>5 DEF LatchedPCs
<1> QED BY <1>6, <1>8, <1>9, <1>10, <1>12, <1>13, <1>14, <1>15, LifeStep

---------------------------------------------------------------------------
(* Taking and dropping the leaf's latch.                                    *)

LEMMA LatchLife ==
    ASSUME RoomInv, LifeInv, NEW w \in Writers, UNCHANGED setup,
           (UpgradeLeaf(w) /\ wpc'[w] = "latched") \/ Unlatch(w)
    PROVE  LifeInv'
<1>1. TypeInv /\ CommitAt(w) /\ clock \in Nat /\ w # None
    BY Bounds DEF RoomInv, TypeInv, LifeInv
<1>2. \/ wpc[w] = "upgrade" /\ wpc'[w] = "latched"
      \/ wpc[w] = "unlatch" /\ wpc'[w] = "idle"
    BY <1>1 DEF UpgradeLeaf, Unlatch, WGoto, TypeInv
<1>3. PICK q \in Pages : q = at[w]
    BY <1>2, AtPage
<1>4. UNCHANGED <<setup, clock, recs, active, dead>> /\ clock' \in Nat /\ clock' >= clock
    BY <1>1 DEF UpgradeLeaf, Unlatch, clockVars, pageVars
<1>5. \A p \in Pages \ {q} : owner'[p] = owner[p]
    BY <1>1, <1>3 DEF UpgradeLeaf, Unlatch, TypeInv
<1>6. OthersStay(w) /\ (wpc'[w] # "idle" => op'[w] = op[w])
    <2>1. CASE UpgradeLeaf(w)
        BY <1>1, <2>1 DEF UpgradeLeaf, Upgrade, OthersStay, TypeInv
    <2>2. CASE Unlatch(w)
        BY <1>1, <2>2 DEF Unlatch, WGoto, OthersStay, TypeInv
    <2> QED BY <2>1, <2>2
<1>7. /\ (owner[q] = None /\ owner'[q] = w) \/ (owner[q] = w /\ owner'[q] = None)
      /\ \A p \in Pages \ {q} : owner[p] # w
      /\ \A u \in Writers \ {w} : wpc[u] \in LatchedPCs => at[u] # q
    <2>1. CASE UpgradeLeaf(w) /\ wpc'[w] = "latched"
        <3>1. owner[q] = None /\ owner'[q] = w
            BY <1>1, <1>3, <2>1 DEF UpgradeLeaf, Upgrade, TypeInv
        <3>2. \A u \in Writers : wpc[u] \in LatchedPCs => owner[at[u]] = u /\ u # None
            BY AtPage, Bounds DEF LatchedPCs
        <3>3. wpc[w] \notin LatchedPCs
            BY <2>1 DEF UpgradeLeaf, LatchedPCs
        <3>4. \A p \in Pages : owner[p] # w
            BY <3>3, NotOwner
        <3>5. \A u \in Writers : wpc[u] \in LatchedPCs => at[u] # q
            BY <3>1, <3>2
        <3> QED BY <3>1, <3>4, <3>5
    <2>2. CASE Unlatch(w)
        <3>1. wpc[w] \in LatchedPCs
            BY <2>2 DEF Unlatch, WGoto, LatchedPCs
        <3>2. owner[q] = w /\ owner'[q] = None
            BY <1>1, <1>3, <2>2, <3>1, InPage DEF Unlatch, TypeInv
        <3> QED BY <1>3, <3>1, <3>2, OthersOutside
    <2> QED BY <2>1, <2>2
<1>8. ~Updating(q) /\ ~Updating(q)'
    BY <1>2, <1>7 DEF Updating, OwnerAt
<1>9. LifeAt(q)'
    BY <1>4, <1>8, PageStays DEF LifeInv
<1>10. CommitAt(w)'
    BY <1>1, <1>2, <1>4, <1>6 DEF CommitAt
<1>11. Alone'
    BY <1>2, <1>6, AloneStays
<1>12. \A u \in Writers \ {w} : wpc[u] = "copy" /\ at[u] = q => \A i \in picked[u] : ~IsDeleted(recs'[q][i])
    BY <1>4 DEF LifeInv, CommitAt
<1> QED BY <1>4, <1>5, <1>6, <1>7, <1>9, <1>10, <1>11, <1>12, LifeStep

---------------------------------------------------------------------------
(* The operation on the latched leaf.                                       *)

(* The version drawn is newer than every record of the page.                *)
LEMMA StartLife ==
    ASSUME RoomInv, LifeInv, NEW w \in Writers, UNCHANGED setup,
           StartInsert(w) \/ StartUpdateCommit(w) \/ StartDelete(w)
    PROVE  LifeInv'
<1> USE DEF WGoto, pageVars, latchVars
<1>1. TypeInv /\ CommitAt(w) /\ clock \in Nat /\ wpc[w] \in {"latched", "validate"}
    BY DEF RoomInv, TypeInv, LifeInv, StartInsert, StartUpdateCommit, StartDelete
<1>2. wpc[w] \in LatchedPCs /\ wpc[w] \in RoomPCs
    BY <1>1 DEF LatchedPCs, RoomPCs
<1>3. /\ UNCHANGED <<setup, recs, active, dead, owner, op, key, at, picked>>
      /\ StartTxCommit(w)
    BY DEF StartInsert, StartUpdateCommit, StartDelete
<1>4. clock' \in Nat /\ clock' >= clock /\ clock' = clock + 1 /\ ver'[w] = clock
    BY <1>1, <1>3 DEF StartTxCommit, Clock!Begin, TypeInv
<1>5. OthersStay(w)
    <2>1. \A u \in Writers \ {w} : ver'[u] = ver[u]
        BY <1>1, <1>3, CommitTypes
    <2>2. \A u \in Writers \ {w} : wpc'[u] = wpc[u]
        BY <1>1 DEF StartInsert, StartUpdateCommit, StartDelete, TypeInv
    <2> QED BY <1>3, <2>1, <2>2 DEF OthersStay
<1>6. \/ wpc'[w] = "push" /\ op[w] = "insert" /\ ~LiveIn(at[w], key[w])
      \/ wpc'[w] = "push" /\ op[w] = "update"
      \/ wpc'[w] = "kill" /\ op[w] = "delete"
    BY <1>1 DEF StartInsert, StartUpdateCommit, StartDelete, Doing, TypeInv, CommitAt
<1>7. /\ LiveIn(at[w], key[w])' <=> LiveIn(at[w], key[w])
      /\ Length(at[w])' = Length(at[w]) /\ Length(at[w]) < NumRecords
    BY <1>2, <1>3, InPage DEF LiveIn, RFind, Length
<1>8. LifeAt(at[w])
    BY <1>2, InPage DEF LifeInv
<1>9. \A i \in 1 .. Len(recs[at[w]]) : recs[at[w]][i].ins < clock /\ recs[at[w]][i].del < clock
    BY <1>8 DEF LifeAt
<1>10. CommitAt(w)'
    <2>1. wpc[w] # "idle" /\ op[w] \in setup.ops /\ ver'[w] < clock'
        BY <1>1, <1>4 DEF CommitAt
    <2>2. wpc'[w] \in {"push", "kill"} /\ (wpc'[w] = "push" => op[w] # "delete") /\ (wpc'[w] = "kill" => op[w] # "insert")
        BY <1>6
    <2>3. wpc'[w] = "push" /\ op[w] = "insert" => ~LiveIn(at[w], key[w])
        BY <1>6
    <2> QED BY <1>3, <1>4, <1>7, <1>9, <2>1, <2>2, <2>3 DEF CommitAt
<1>11. /\ ~(wpc'[w] \in {"commitLen", "kill"} /\ op[w] = "update")
       /\ wpc[w] \notin {"commitLen", "kill"}
    BY <1>1, <1>6
<1> QED BY <1>2, <1>3, <1>4, <1>5, <1>10, <1>11, LifeInside

(* The steps that neither draw a version nor write a record.                *)
LEMMA InsideLife ==
    ASSUME RoomInv, LifeInv, NEW w \in Writers, UNCHANGED setup,
           \/ Reject(w) \/ StartUpdate(w) \/ PeekMax(w) \/ AbandonDelete(w) \/ EndOperation(w)
           \/ CommitRevived(w) \/ CommitLen(w) \/ CommitDead(w)
    PROVE  LifeInv'
<1> USE DEF WGoto, pageVars, latchVars, clockVars
<1> DEFINE Half(pc) == pc \in {"commitLen", "kill"} /\ op[w] = "update"
<1>1. TypeInv /\ CommitAt(w) /\ clock \in Nat
    BY DEF RoomInv, TypeInv, LifeInv
<1>2. UNCHANGED <<setup, clock, recs, owner, op, key, at, picked>>
    BY DEF Reject, StartUpdate, PeekMax, AbandonDelete, EndOperation, CommitRevived, CommitLen, CommitDead,
           EndTxCommit, Clock!Finish
<1>3. clock' \in Nat /\ clock' >= clock
    BY <1>1, <1>2
<1>4. /\ \A u \in Writers \ {w} : wpc'[u] = wpc[u] /\ ver'[u] = ver[u]
      /\ wpc[w] \in {"commitLen", "commitRevived", "commitDead"} => ver' = ver
    <2>1. CASE Reject(w) \/ StartUpdate(w) \/ PeekMax(w)
        BY <1>1, <2>1 DEF Reject, StartUpdate, PeekMax, TypeInv
    <2>2. CASE AbandonDelete(w) \/ EndOperation(w)
        <3>1. \A u \in Writers \ {w} : ver'[u] = ver[u]
            BY <1>1, <2>2, CommitTypes DEF AbandonDelete, EndOperation
        <3>2. \A u \in Writers \ {w} : wpc'[u] = wpc[u]
            BY <1>1, <2>2 DEF AbandonDelete, EndOperation, TypeInv
        <3>3. wpc[w] \in {"kill", "end"}
            BY <2>2 DEF AbandonDelete, EndOperation
        <3> QED BY <3>1, <3>2, <3>3
    <2>3. CASE CommitRevived(w) \/ CommitLen(w) \/ CommitDead(w)
        BY <1>1, <2>3 DEF CommitRevived, CommitLen, CommitDead, TypeInv
    <2> QED BY <2>1, <2>2, <2>3
<1>5. OthersStay(w)
    BY <1>2, <1>4 DEF OthersStay
<1>6. \/ wpc[w] \in {"latched", "validate"} /\ wpc'[w] = "unlatch"
      \/ wpc[w] = "latched" /\ wpc'[w] \in {"peekMax", "validate"} /\ op[w] = "update"
      \/ wpc[w] = "peekMax" /\ wpc'[w] \in {"overwrite", "validate"}
      \/ wpc[w] = "kill" /\ wpc'[w] = "unlatch" /\ op[w] = "delete"
      \/ wpc[w] = "end" /\ wpc'[w] = "unlatch"
      \/ wpc[w] = "commitRevived" /\ wpc'[w] = "unlatch"
      \/ wpc[w] = "commitLen" /\ wpc'[w] = "kill" /\ op[w] = "update"
      \/ wpc[w] = "commitLen" /\ wpc'[w] = "end" /\ op[w] # "update"
      \/ wpc[w] = "commitDead" /\ wpc'[w] = "end"
    <2> USE DEF TypeInv, Doing
    <2>1. CASE Reject(w)
        BY <1>1, <2>1 DEF Reject
    <2>2. CASE StartUpdate(w)
        BY <1>1, <2>2 DEF StartUpdate
    <2>3. CASE PeekMax(w)
        BY <1>1, <2>3 DEF PeekMax
    <2>4. CASE AbandonDelete(w) \/ EndOperation(w)
        BY <1>1, <2>4 DEF AbandonDelete, EndOperation
    <2>5. CASE CommitRevived(w) \/ CommitLen(w) \/ CommitDead(w)
        BY <1>1, <2>5 DEF CommitRevived, CommitLen, CommitDead
    <2> QED BY <2>1, <2>2, <2>3, <2>4, <2>5
<1>7. wpc[w] \in LatchedPCs
    BY <1>6 DEF LatchedPCs
<1>8. \A p \in Pages \ {at[w]} : active'[p] = active[p] /\ dead'[p] = dead[p]
    BY <1>1 DEF Reject, StartUpdate, PeekMax, AbandonDelete, EndOperation, CommitRevived, CommitLen, CommitDead,
                CommitDelta, TypeInv
<1>9. (Half(wpc'[w]) <=> Half(wpc[w])) /\ (Half(wpc[w]) => ver'[w] = ver[w])
    BY <1>4, <1>6
<1>10. CommitAt(w)'
    <2>1. wpc'[w] = "kill" => wpc[w] = "commitLen" /\ op[w] = "update" /\ ver'[w] = ver[w]
        BY <1>4, <1>6
    <2>2. wpc'[w] \notin {"push", "commitLen", "copy"} /\ wpc[w] # "idle"
        BY <1>6
    <2>3. wpc'[w] \in {"peekMax", "overwrite", "validate"} => op[w] = "update"
        BY <1>1, <1>6 DEF CommitAt
    <2> QED BY <1>1, <1>2, <2>1, <2>2, <2>3 DEF CommitAt
<1> QED BY <1>2, <1>3, <1>5, <1>7, <1>8, <1>9, <1>10, LifeInside

(* A write to the records of the latched page.                              *)
LEMMA WriteLife ==
    ASSUME RoomInv, LifeInv, NEW w \in Writers, wpc[w] \in LatchedPCs, NEW q \in Pages, q = at[w], NEW s, NEW t,
           wpc' = [wpc EXCEPT ![w] = t], recs' = [recs EXCEPT ![q] = s],
           UNCHANGED <<setup, clock, active, dead, owner, op, key, at, ver, picked>>,
           \A u \in Writers \ {w} : wpc[u] = "copy" /\ at[u] = q => \A i \in picked[u] : ~IsDeleted(s[i]),
           LifeAt(q)', CommitAt(w)'
    PROVE  LifeInv'
<1>1. TypeInv /\ clock \in Nat
    BY DEF RoomInv, TypeInv
<1>2. OthersStay(w)
    BY <1>1 DEF OthersStay, TypeInv
<1>3. recs'[q] = s /\ \A p \in Pages \ {q} : recs'[p] = recs[p]
    BY <1>1 DEF TypeInv
<1>4. Alone'
    BY <1>2, AloneStays DEF LatchedPCs
<1>5. /\ \A u \in Writers \ {w} : wpc[u] \in LatchedPCs => at[u] # q
      /\ \A p \in Pages \ {q} : owner[p] # w
    BY OthersOutside
<1>6. clock' \in Nat /\ clock' >= clock
    BY <1>1
<1> QED BY <1>2, <1>3, <1>4, <1>5, <1>6, LifeStep

(* The fields of a page's records.                                          *)
LEMMA RecordFields ==
    ASSUME RoomInv, NEW p \in Pages
    PROVE  /\ recs[p] \in Seq(RecordType) /\ Len(recs[p]) \in Nat
           /\ \A i \in 1 .. Len(recs[p]) : /\ recs[p][i] \in RecordType /\ recs[p][i].key \in Keys
                                           /\ recs[p][i].ins \in Nat /\ recs[p][i].del \in Nat
<1>1. recs[p] \in Seq(RecordType)
    BY DEF RoomInv, TypeInv
<1>2. \A i \in 1 .. Len(recs[p]) : recs[p][i] \in RecordType
    BY <1>1
<1>3. \A r \in RecordType : r.key \in Keys /\ r.ins \in Nat /\ r.del \in Nat
    BY DEF RecordType
<1> QED BY <1>1, <1>2, <1>3

(* The new record is the youngest; where it is an insert's, the key's       *)
(* records before it have ended.                                            *)
LEMMA PushLife ==
    ASSUME RoomInv, LifeInv, NEW w \in Writers, UNCHANGED setup, PushUncommitted(w)
    PROVE  LifeInv'
<1> USE DEF PushUncommitted, WGoto, latchVars, clockVars
<1>1. wpc[w] = "push" /\ wpc' = [wpc EXCEPT ![w] = "commitLen"] /\ TypeInv /\ CommitAt(w) /\ WriterAt(w)
    BY DEF RoomInv, LifeInv
<1>2. wpc[w] \in LatchedPCs /\ w # None
    BY <1>1, Bounds DEF LatchedPCs
<1>3. PICK q \in Pages : q = at[w]
    BY <1>2, InPage
<1>4. /\ owner[q] = w /\ key[w] \in Keys /\ ver[w] \in Nat /\ ver[w] >= 1 /\ Length(q) = Len(recs[q])
      /\ op[w] \in {"insert", "update"} /\ ver[w] < clock /\ clock \in Nat
    <2>1. /\ owner[q] = w /\ key[w] \in Keys /\ ver[w] \in Nat /\ ver[w] >= 1 /\ Length(q) \in Nat
          /\ Len(recs[q]) = Length(q) + 0 /\ op[w] \in Operations
        BY <1>1, <1>2, <1>3, InPage
    <2>2. op[w] # "delete" /\ ver[w] < clock /\ clock \in Nat
        BY <1>1 DEF CommitAt, TypeInv
    <2> QED BY <2>1, <2>2 DEF Operations
<1>n. PICK n \in Nat : n = Len(recs[q])
    BY RecordFields
<1> DEFINE r == Record(key[w], ver[w])
           s == Append(recs[q], r)
<1>5. recs' = [recs EXCEPT ![q] = s]
    BY <1>3, PushUncommittedRoom
<1>6. UNCHANGED <<setup, clock, active, dead, owner, op, key, at, ver, picked>>
    OBVIOUS
<1>7. recs'[q] = s /\ wpc'[w] = "commitLen"
    BY <1>1, <1>5 DEF TypeInv
<1> HIDE DEF PushUncommitted
<1>8. /\ r.key = key[w] /\ r.ins = ver[w] /\ r.del = 0
    BY DEF Record
<1>9. /\ n \in Nat /\ Len(s) = n + 1 /\ s[n + 1] = r /\ \A i \in 1 .. n : s[i] = recs[q][i]
    BY <1>n, RecordFields
<1>10. LifeAt(q) /\ ~Updating(q) /\ Tidy(q, n)
    <2>1. LifeAt(q) /\ ~Updating(q)
        BY <1>1, <1>4 DEF LifeInv, Updating, OwnerAt
    <2> QED BY <1>n, <2>1 DEF LifeAt
<1>11. \A i \in 1 .. n : /\ recs[q][i].ins < ver[w] /\ recs[q][i].del < ver[w]
                         /\ recs[q][i].ins \in Nat /\ recs[q][i].del \in Nat
    BY <1>1, <1>3, <1>n, RecordFields DEF CommitAt
<1> HIDE DEF s, r
<1>12. \A i \in 1 .. Len(recs'[q]) : recs'[q][i].ins < clock' /\ recs'[q][i].del < clock'
    <2> SUFFICES ASSUME NEW i \in 1 .. n + 1 PROVE s[i].ins < clock /\ s[i].del < clock
        BY <1>6, <1>7, <1>9
    <2>1. CASE i \in 1 .. n
        BY <1>n, <1>9, <1>10, <2>1 DEF LifeAt
    <2>2. CASE i = n + 1
        BY <1>4, <1>8, <1>9, <2>2
    <2> QED BY <1>9, <2>1, <2>2
<1>13. Updating(q)' <=> op[w] = "update"
    BY <1>2, <1>4, <1>6, <1>7 DEF Updating, OwnerAt
<1>14. ASSUME op[w] = "update" PROVE LifeAt(q)'
    <2>1. Pushed(q, w)'
        <3>1. Tidy(q, n)'
            <4> SUFFICES ASSUME NEW i \in 1 .. n, NEW j \in 1 .. n, i < j
                         PROVE  /\ s[i].ins < s[j].ins
                                /\ s[i].key = s[j].key => s[i].del \in 1 .. s[j].ins
                BY <1>7 DEF Tidy
            <4> QED BY <1>9, <1>10 DEF Tidy
        <3>2. Len(recs'[q]) = n + 1 /\ n + 1 >= 1 /\ n + 1 - 1 = n
            BY <1>7, <1>9
        <3>3. s[n + 1].key = key[w] /\ s[n + 1].ins = ver[w] /\ \A i \in 1 .. n : s[i].ins < ver[w]
            BY <1>8, <1>9, <1>11
        <3> QED BY <1>6, <1>7, <3>1, <3>2, <3>3 DEF Pushed
    <2>2. owner'[q] = w
        BY <1>4, <1>6
    <2> QED BY <1>12, <1>13, <1>14, <2>1, <2>2 DEF LifeAt
<1>15. ASSUME op[w] # "update" PROVE LifeAt(q)'
    <2>1. ~LiveIn(q, key[w])
        BY <1>1, <1>3, <1>4, <1>15 DEF CommitAt
    <2>2. ASSUME NEW i \in 1 .. n, recs[q][i].key = key[w] PROVE recs[q][i].del \in 1 .. ver[w]
        <3>1. PICK m : m = RFind(q, key[w], n)
            OBVIOUS
        <3>2. /\ m = 0 \/ m \in 1 .. n
              /\ m # 0 => recs[q][m].key = key[w]
              /\ i <= m
            <4>1. n \in Int
                BY <1>9
            <4> QED BY <2>2, <3>1, <4>1, RFindFacts
        <3>3. m \in 1 .. n /\ recs[q][m].key = key[w]
            BY <1>9, <3>2
        <3>4. IsDeleted(recs[q][m])
            BY <1>n, <1>4, <2>1, <3>1, <3>3 DEF LiveIn
        <3>5. CASE i = m
            BY <1>4, <1>11, <3>4, <3>5 DEF IsDeleted
        <3>6. CASE i # m
            <4>1. recs[q][i].del \in 1 .. recs[q][m].ins
                BY <1>9, <1>10, <2>2, <3>2, <3>3, <3>6 DEF Tidy
            <4>2. recs[q][m].ins < ver[w] /\ recs[q][m].ins \in Nat
                BY <1>11, <3>3
            <4> QED BY <1>4, <4>1, <4>2
        <3> QED BY <3>5, <3>6
    <2>3. Tidy(q, Len(recs[q]))'
        <3> SUFFICES ASSUME NEW i \in 1 .. n + 1, NEW j \in 1 .. n + 1, i < j
                     PROVE  /\ s[i].ins < s[j].ins
                            /\ s[i].key = s[j].key => s[i].del \in 1 .. s[j].ins
            BY <1>7, <1>9 DEF Tidy
        <3>1. i \in 1 .. n /\ s[i] = recs[q][i]
            BY <1>9
        <3>2. CASE j \in 1 .. n
            BY <1>9, <1>10, <3>1, <3>2 DEF Tidy
        <3>3. CASE j = n + 1
            <4>1. s[j].ins = ver[w] /\ s[j].key = key[w]
                BY <1>8, <1>9, <3>3
            <4> QED BY <1>11, <2>2, <3>1, <4>1
        <3> QED BY <1>9, <3>2, <3>3
    <2> QED BY <1>12, <1>13, <1>15, <2>3 DEF LifeAt
<1>16. LifeAt(q)'
    BY <1>14, <1>15
<1>17. CommitAt(w)'
    BY <1>1, <1>4, <1>6, <1>7 DEF CommitAt
<1>18. \A u \in Writers \ {w} : wpc[u] = "copy" /\ at[u] = q => \A i \in picked[u] : ~IsDeleted(s[i])
    <2> SUFFICES ASSUME NEW u \in Writers \ {w}, wpc[u] = "copy", at[u] = q, NEW i \in picked[u]
                 PROVE  ~IsDeleted(s[i])
        OBVIOUS
    <2>1. i \in 1 .. n /\ ~IsDeleted(recs[q][i])
        BY <1>n DEF RoomInv, WriterAt, LifeInv, CommitAt
    <2> QED BY <1>9, <2>1
<1> QED BY <1>1, <1>2, <1>3, <1>5, <1>6, <1>16, <1>17, <1>18, WriteLife

(* The last record of a key may end, or live again.                         *)
LEMMA LastChanges ==
    ASSUME NEW q \in Pages, NEW n \in Nat, NEW i \in 1 .. n, Tidy(q, n),
           \A j \in 1 .. n : recs[q][j].key = recs[q][i].key => j <= i,
           \A j \in 1 .. n : /\ recs'[q][j].key = recs[q][j].key /\ recs'[q][j].ins = recs[q][j].ins
                             /\ j # i => recs'[q][j].del = recs[q][j].del
    PROVE  Tidy(q, n)'
<1> SUFFICES ASSUME NEW a \in 1 .. n, NEW b \in 1 .. n, a < b
             PROVE  /\ recs'[q][a].ins < recs'[q][b].ins
                    /\ recs'[q][a].key = recs'[q][b].key => recs'[q][a].del \in 1 .. recs'[q][b].ins
    BY DEF Tidy
<1>1. /\ recs[q][a].ins < recs[q][b].ins
      /\ recs[q][a].key = recs[q][b].key => recs[q][a].del \in 1 .. recs[q][b].ins
    BY DEF Tidy
<1>2. recs[q][a].key = recs[q][b].key => a # i
    OBVIOUS
<1> QED BY <1>1, <1>2

(* Delete ends the last record of the key, update the one before its own,   *)
(* at the very version the new one begins.                                  *)
LEMMA KillLife ==
    ASSUME RoomInv, LifeInv, NEW w \in Writers, UNCHANGED setup, Kill(w)
    PROVE  LifeInv'
<1> USE DEF Kill, WGoto, latchVars, clockVars
<1>1. wpc[w] = "kill" /\ wpc' = [wpc EXCEPT ![w] = "commitDead"] /\ TypeInv /\ CommitAt(w) /\ WriterAt(w)
    BY DEF RoomInv, LifeInv
<1>2. wpc[w] \in LatchedPCs /\ w # None
    BY <1>1, Bounds DEF LatchedPCs
<1>3. PICK q \in Pages : q = at[w]
    BY <1>2, InPage
<1>4. /\ owner[q] = w /\ key[w] \in Keys /\ ver[w] \in Nat /\ ver[w] >= 1 /\ Length(q) = Len(recs[q])
      /\ op[w] \in {"delete", "update"} /\ ver[w] < clock /\ clock \in Nat
    <2>1. /\ owner[q] = w /\ key[w] \in Keys /\ ver[w] \in Nat /\ ver[w] >= 1 /\ Length(q) \in Nat
          /\ Len(recs[q]) = Length(q) + 0 /\ op[w] \in Operations
        BY <1>1, <1>2, <1>3, InPage
    <2>2. op[w] # "insert" /\ ver[w] < clock /\ clock \in Nat
        BY <1>1 DEF CommitAt, TypeInv
    <2> QED BY <2>1, <2>2 DEF Operations
<1>5. PICK n \in Nat : n = Len(recs[q])
    BY RecordFields
<1>6. PICK i \in 1 .. n : i = Doomed(w)
    BY <1>3, <1>4, <1>5, KillRoom
<1> DEFINE r == [recs[q][i] EXCEPT !.del = ver[w]]
           s == [recs[q] EXCEPT ![i] = r]
<1>7. recs' = [recs EXCEPT ![q] = s]
    BY <1>3, <1>6, KillRoom
<1>8. UNCHANGED <<setup, clock, active, dead, owner, op, key, at, ver, picked>>
    OBVIOUS
<1>9. recs'[q] = s /\ wpc'[w] = "commitDead"
    BY <1>1, <1>7 DEF TypeInv
<1> HIDE DEF Kill
<1>10. r.key = recs[q][i].key /\ r.ins = recs[q][i].ins /\ r.del = ver[w]
    <2> DEFINE o == recs[q][i]
    <2>1. o \in RecordType
        BY <1>5, RecordFields
    <2> HIDE DEF o
    <2>2. /\ [o EXCEPT !.del = ver[w]].key = o.key /\ [o EXCEPT !.del = ver[w]].ins = o.ins
          /\ [o EXCEPT !.del = ver[w]].del = ver[w]
        BY <2>1 DEF RecordType
    <2> QED BY <2>2 DEF o
<1> HIDE DEF r
<1>11. Len(s) = n /\ s[i] = r /\ \A j \in 1 .. n : j # i => s[j] = recs[q][j]
    BY <1>5, RecordFields
<1> HIDE DEF s
<1>12. /\ Len(recs'[q]) = n /\ recs'[q][i].del = ver[w]
       /\ \A j \in 1 .. n : /\ recs'[q][j].key = recs[q][j].key /\ recs'[q][j].ins = recs[q][j].ins
                            /\ j # i => recs'[q][j].del = recs[q][j].del
    BY <1>9, <1>10, <1>11
<1>13. LifeAt(q) /\ (Updating(q) <=> op[w] = "update") /\ ~Updating(q)'
    BY <1>1, <1>2, <1>4, <1>8, <1>9 DEF LifeInv, Updating, OwnerAt
<1>14. \A j \in 1 .. n : recs[q][j].ins \in Nat /\ recs[q][j].del \in Nat
    BY <1>5, RecordFields
<1>15. \A j \in 1 .. Len(recs'[q]) : recs'[q][j].ins < clock' /\ recs'[q][j].del < clock'
    <2> SUFFICES ASSUME NEW j \in 1 .. n PROVE recs'[q][j].ins < clock /\ recs'[q][j].del < clock
        BY <1>8, <1>12
    <2>1. recs[q][j].ins < clock /\ recs[q][j].del < clock
        BY <1>5, <1>13 DEF LifeAt
    <2> QED BY <1>4, <1>12, <2>1
<1>16. ASSUME op[w] = "delete" PROVE Tidy(q, n)'
    <2>1. i = RFind(q, key[w], n) /\ i # 0
        BY <1>3, <1>4, <1>5, <1>6, <1>16 DEF Doomed, Doing
    <2>2. recs[q][i].key = key[w] /\ \A j \in 1 .. n : recs[q][j].key = key[w] => j <= i
        BY <2>1, RFindFacts
    <2>3. Tidy(q, n)
        BY <1>5, <1>13, <1>16 DEF LifeAt
    <2> QED BY <1>12, <2>2, <2>3, LastChanges
<1>17. ASSUME op[w] = "update" PROVE Tidy(q, n)'
    <2>1. PICK m \in Int : m = n - 1
        OBVIOUS
    <2>2. i = RFind(q, key[w], m) /\ i # 0
        BY <1>3, <1>4, <1>5, <1>6, <1>17, <2>1 DEF Doomed, Doing
    <2>3. recs[q][i].key = key[w] /\ i \in 1 .. m /\ \A j \in 1 .. m : recs[q][j].key = key[w] => j <= i
        BY <2>2, RFindFacts
    <2>4. Pushed(q, w)
        BY <1>4, <1>13, <1>17 DEF LifeAt
    <2>5. /\ Tidy(q, m) /\ recs[q][n].key = key[w] /\ recs[q][n].ins = ver[w]
          /\ \A j \in 1 .. m : recs[q][j].ins < ver[w]
        BY <1>5, <2>1, <2>4 DEF Pushed
    <2>6. Tidy(q, m)'
        <3>1. m \in Nat /\ \A j \in 1 .. m : j \in 1 .. n
            BY <2>1, <2>3
        <3>2. \A j \in 1 .. m : /\ recs'[q][j].key = recs[q][j].key /\ recs'[q][j].ins = recs[q][j].ins
                                /\ j # i => recs'[q][j].del = recs[q][j].del
            BY <1>12, <3>1
        <3> QED BY <2>3, <2>5, <3>1, <3>2, LastChanges
    <2> SUFFICES ASSUME NEW a \in 1 .. n, NEW b \in 1 .. n, a < b
                 PROVE  /\ recs'[q][a].ins < recs'[q][b].ins
                        /\ recs'[q][a].key = recs'[q][b].key => recs'[q][a].del \in 1 .. recs'[q][b].ins
        BY DEF Tidy
    <2>7. CASE b \in 1 .. m
        <3>1. a \in 1 .. m
            BY <2>1, <2>7
        <3> QED BY <2>6, <2>7, <3>1 DEF Tidy
    <2>8. CASE b = n
        <3>1. a \in 1 .. m
            BY <2>1, <2>8
        <3>2. recs'[q][b].ins = ver[w] /\ recs'[q][b].key = key[w] /\ recs'[q][a].ins < ver[w]
            BY <1>12, <2>5, <2>8, <3>1
        <3>3. ASSUME recs[q][a].key = key[w], a # i PROVE recs[q][a].del \in 1 .. ver[w]
            <4>1. a < i
                BY <2>3, <3>1, <3>3
            <4>2. recs[q][a].del \in 1 .. recs[q][i].ins
                BY <2>3, <2>5, <3>1, <3>3, <4>1 DEF Tidy
            <4>3. recs[q][i].ins < ver[w] /\ recs[q][i].ins \in Nat
                BY <1>14, <2>3, <2>5
            <4> QED BY <1>4, <4>2, <4>3
        <3>4. recs'[q][a].key = key[w] => recs'[q][a].del \in 1 .. ver[w]
            <4>1. CASE a = i
                BY <1>4, <1>12, <4>1
            <4>2. CASE a # i
                BY <1>12, <3>3, <4>2
            <4> QED BY <4>1, <4>2
        <3> QED BY <3>2, <3>4
    <2> QED BY <2>1, <2>7, <2>8
<1>18. LifeAt(q)'
    <2>1. Tidy(q, n)'
        BY <1>4, <1>16, <1>17
    <2> QED BY <1>12, <1>13, <1>15, <2>1 DEF LifeAt
<1>19. CommitAt(w)'
    BY <1>1, <1>8, <1>9 DEF CommitAt
<1>20. \A u \in Writers \ {w} : ~(wpc[u] = "copy" /\ at[u] = q)
    <2> SUFFICES ASSUME NEW u \in Writers \ {w}, wpc[u] = "copy", at[u] = q PROVE FALSE
        OBVIOUS
    <2>1. CASE op[w] = "delete"
        <3>1. Length(q) < NumRecords
            BY <1>1, <1>3, <2>1 DEF CommitAt
        <3>2. Length(q) >= NumRecords
            BY DEF RoomInv, WriterAt, CopyPCs
        <3> QED BY <1>4, <1>5, <3>1, <3>2, Bounds
    <2>2. CASE op[w] = "update"
        <3>1. "update" \in setup.ops
            BY <1>1, <2>2 DEF CommitAt
        <3> QED BY <1>1, <3>1 DEF LifeInv, Alone
    <2> QED BY <1>4, <2>1, <2>2
<1> QED BY <1>1, <1>2, <1>3, <1>7, <1>8, <1>18, <1>19, <1>20, WriteLife

(* An update in place brings the last record of the key back to life.       *)
LEMMA OverwriteLife ==
    ASSUME RoomInv, LifeInv, NEW w \in Writers, UNCHANGED setup, Overwrite(w)
    PROVE  LifeInv'
<1> USE DEF Overwrite, latchVars, clockVars
<1>1. wpc[w] = "overwrite" /\ TypeInv /\ CommitAt(w)
    BY DEF RoomInv, LifeInv
<1>2. wpc[w] \in LatchedPCs /\ w # None
    BY <1>1, Bounds DEF LatchedPCs
<1>3. PICK q \in Pages : q = at[w]
    BY <1>2, InPage
<1>4. owner[q] = w /\ Length(q) = Len(recs[q]) /\ clock \in Nat /\ clock >= 1
    <2>1. owner[q] = w /\ Length(q) \in Nat /\ Len(recs[q]) = Length(q) + 0
        BY <1>1, <1>2, <1>3, InPage
    <2> QED BY <1>1, <2>1 DEF TypeInv
<1>5. PICK n \in Nat : n = Len(recs[q])
    BY RecordFields
<1>6. PICK i : i = RFind(q, key[w], n)
    OBVIOUS
<1> DEFINE o == recs[q][i]
           r == [o EXCEPT !.val = -o.val, !.del = 0]
           s == [recs[q] EXCEPT ![i] = r]
           t == IF IsDeleted(o) THEN "commitRevived" ELSE "unlatch"
<1>7. recs' = [recs EXCEPT ![q] = s] /\ wpc' = [wpc EXCEPT ![w] = t]
    BY <1>3, <1>4, <1>5, <1>6
<1>8. UNCHANGED <<setup, clock, active, dead, owner, op, key, at, ver, picked>>
    OBVIOUS
<1>9. recs'[q] = s /\ wpc'[w] = t /\ t \in {"commitRevived", "unlatch"}
    BY <1>1, <1>7 DEF TypeInv
<1> HIDE DEF Overwrite, t
<1>10. /\ i = 0 \/ i \in 1 .. n
       /\ i # 0 => recs[q][i].key = key[w]
       /\ \A j \in 1 .. n : recs[q][j].key = key[w] => j <= i
    BY <1>6, RFindFacts
<1>11. i \in 1 .. n => r.key = recs[q][i].key /\ r.ins = recs[q][i].ins /\ r.del = 0
    <2> SUFFICES ASSUME i \in 1 .. n PROVE r.key = o.key /\ r.ins = o.ins /\ r.del = 0
        OBVIOUS
    <2>1. o \in RecordType
        BY <1>5, RecordFields
    <2> HIDE DEF o
    <2> QED BY <2>1 DEF RecordType
<1> HIDE DEF r
<1>12. /\ Len(s) = n /\ \A j \in 1 .. n : j # i => s[j] = recs[q][j]
       /\ i \in 1 .. n => s[i] = r
    BY <1>5, <1>10, RecordFields
<1> HIDE DEF s
<1>13. LifeAt(q) /\ ~Updating(q) /\ ~Updating(q)'
    BY <1>1, <1>2, <1>4, <1>8, <1>9 DEF LifeInv, Updating, OwnerAt
<1>14. Tidy(q, n)'
    <2>0. Tidy(q, n)
        BY <1>5, <1>13 DEF LifeAt
    <2>1. CASE i \in 1 .. n
        <3>1. \A j \in 1 .. n : /\ recs'[q][j].key = recs[q][j].key /\ recs'[q][j].ins = recs[q][j].ins
                                /\ j # i => recs'[q][j].del = recs[q][j].del
            BY <1>9, <1>11, <1>12, <2>1
        <3>2. \A j \in 1 .. n : recs[q][j].key = recs[q][i].key => j <= i
            BY <1>10, <2>1
        <3> QED BY <2>0, <2>1, <3>1, <3>2, LastChanges
    <2>2. CASE i = 0
        <3>1. \A j \in 1 .. n : recs'[q][j] = recs[q][j]
            BY <1>9, <1>12, <2>2
        <3> QED BY <2>0, <3>1 DEF Tidy
    <2> QED BY <1>10, <2>1, <2>2
<1>15. \A j \in 1 .. Len(recs'[q]) : recs'[q][j].ins < clock' /\ recs'[q][j].del < clock'
    <2> SUFFICES ASSUME NEW j \in 1 .. n PROVE s[j].ins < clock /\ s[j].del < clock
        BY <1>8, <1>9, <1>12
    <2>1. recs[q][j].ins < clock /\ recs[q][j].del < clock
        BY <1>5, <1>13 DEF LifeAt
    <2> QED BY <1>4, <1>11, <1>12, <2>1
<1>16. LifeAt(q)'
    BY <1>9, <1>12, <1>13, <1>14, <1>15 DEF LifeAt
<1>17. CommitAt(w)'
    BY <1>1, <1>8, <1>9 DEF CommitAt
<1>18. \A u \in Writers \ {w} : wpc[u] = "copy" /\ at[u] = q => \A j \in picked[u] : ~IsDeleted(s[j])
    <2> SUFFICES ASSUME NEW u \in Writers \ {w}, wpc[u] = "copy", at[u] = q, NEW j \in picked[u]
                 PROVE  ~IsDeleted(s[j])
        OBVIOUS
    <2>1. j \in 1 .. n /\ ~IsDeleted(recs[q][j])
        BY <1>5 DEF RoomInv, WriterAt, LifeInv, CommitAt
    <2> QED BY <1>11, <1>12, <2>1 DEF IsDeleted
<1> QED BY <1>2, <1>3, <1>7, <1>8, <1>16, <1>17, <1>18, WriteLife

---------------------------------------------------------------------------
(* The versions of the key that is in the tree from the start.              *)
LEMMA InitLife == ASSUME Init PROVE LifeInv
<1> DEFINE n == setup.preload
           ended == IF setup.gone THEN n ELSE n - 1
<1>1. setup \in Setup /\ RoomInv
    BY RootLeafAssumption, InitRoom DEF Init
<1>2. n \in Nat /\ ended \in Nat /\ ended <= n /\ ended >= n - 1 /\ clock = ended + 2
    <2>1. setup.preload \in 1 .. NumRecords - 1
        BY <1>1 DEF Setup
    <2> QED BY <2>1, Bounds DEF Init
<1> HIDE DEF ended, n
<1>3. PICK k \in Keys : recs = [p \in Pages |-> IF p # 1 THEN << >> ELSE
                              [i \in 1 .. n |->
                                 [Record(k, i) EXCEPT
                                     !.del = IF i <= ended THEN i + 1 ELSE 0]]]
    BY DEF Init, n, ended
<1> DEFINE first == [i \in 1 .. n |-> [Record(k, i) EXCEPT !.del = IF i <= ended THEN i + 1 ELSE 0]]
<1>4. \A i \in 1 .. n : first[i].ins = i /\ first[i].del = IF i <= ended THEN i + 1 ELSE 0
    BY <1>2 DEF Record
<1>5. 1 \in Pages /\ recs[1] = first /\ Len(first) = n /\ \A p \in Pages \ {1} : recs[p] = << >>
    <2>1. ASSUME NEW f, f = [i \in 1 .. n |-> f[i]]
          PROVE  Len(f) = n
        BY <1>2, <2>1
    <2>2. first = [i \in 1 .. n |-> first[i]]
        OBVIOUS
    <2>3. 1 \in Pages /\ recs[1] = first /\ \A p \in Pages \ {1} : recs[p] = << >>
        BY <1>3, Bounds DEF Pages
    <2> HIDE DEF first
    <2> QED BY <2>1, <2>2, <2>3
<1> HIDE DEF first
<1>6. \A p \in Pages : LifeAt(p)
    <2> SUFFICES ASSUME NEW p \in Pages PROVE LifeAt(p)
        OBVIOUS
    <2>1. ~Updating(p)
        BY DEF Init, Updating, OwnerAt
    <2>2. CASE p = 1
        <3>1. \A i \in 1 .. n : recs[p][i].ins < clock /\ recs[p][i].del < clock
            BY <1>2, <1>4, <1>5, <2>2
        <3>2. Tidy(p, n)
            BY <1>2, <1>4, <1>5, <2>2 DEF Tidy
        <3> QED BY <1>5, <2>1, <2>2, <3>1, <3>2 DEF LifeAt
    <2>3. CASE p # 1
        <3>1. Len(recs[p]) = 0
            BY <1>5, <2>3
        <3> QED BY <2>1, <3>1 DEF LifeAt, Tidy
    <2> QED BY <2>2, <2>3
<1>7. Alone /\ \A w \in Writers : CommitAt(w)
    BY DEF Init, Alone, CommitAt
<1> QED BY <1>6, <1>7 DEF LifeInv

LEMMA NextLife == ASSUME NoRacingUpdate, RoomInv, LifeInv, [Next]_vars PROVE LifeInv'
<1>1. CASE UNCHANGED vars
    <2>1. UNCHANGED core
        BY <1>1 DEF vars, core
    <2> QED BY <2>1, CoreStaysLife
<1>2. CASE Next
    <2>0. UNCHANGED setup
        BY <1>2 DEF Next
    <2>1. ASSUME NEW w \in Writers, Descend(w) PROVE LifeInv'
        BY <2>0, <2>1, DispatchLife, DescendLife, LatchLife DEF Descend
    <2>2. ASSUME NEW w \in Writers, SplitRoot(w) PROVE LifeInv'
        BY <2>0, <2>2, CollectLife, BulkPushLife, SplitLife DEF SplitRoot
    <2>3. ASSUME NEW w \in Writers, Operate(w) PROVE LifeInv'
        BY <2>0, <2>3, StartLife, InsideLife, PushLife, KillLife, OverwriteLife, LatchLife DEF Operate
    <2>4. CASE (\E r \in Readers : Reader(r)) \/ AdvanceWatermark
        BY <2>0, <2>4, ReadersAside, CoreStaysLife
    <2> QED BY <1>2, <2>1, <2>2, <2>3, <2>4 DEF Next
<1> QED BY <1>1, <1>2

(* Records stay ordered by version, and an update's two records are told    *)
(* apart until both soft commits are done.                                  *)
THEOREM SpecLifeInv == NoRacingUpdate => (Spec => []LifeInv)
<1> SUFFICES ASSUME NoRacingUpdate PROVE Spec => []LifeInv
    OBVIOUS
<1>1. Init => LifeInv
    BY InitLife
<1>2. RoomInv /\ LifeInv /\ [Next]_vars => LifeInv'
    BY NextLife
<1> QED BY <1>1, <1>2, SpecRoomInv, PTL DEF Spec

(* A page at rest holds, for each key, records whose lifetimes follow one   *)
(* another without overlap: at most one of them matches a snapshot.         *)
THEOREM SpecLifetimesDisjoint == NoRacingUpdate => (Spec => []LifetimesDisjoint)
<1> SUFFICES ASSUME NoRacingUpdate PROVE Spec => []LifetimesDisjoint
    OBVIOUS
<1>1. LifeInv => LifetimesDisjoint
    <2> SUFFICES ASSUME LifeInv, NEW p \in Pages, AtRest(p)
                 PROVE  Tidy(p, Len(recs[p]))
        BY DEF LifetimesDisjoint, Tidy
    <2>1. ~Updating(p)
        BY DEF AtRest, Updating, OwnerAt
    <2> QED BY <2>1 DEF LifeInv, LifeAt
<1> QED BY <1>1, SpecLifeInv, PTL
-----------------------------------------------------------------------------
(***************************************************************************)
(* A query on a root leaf answers exactly: as long as no update runs beside *)
(* another writer, a latch-free look at a page finds what the history of    *)
(* commits has for the snapshot, each key once, whatever soft commits and   *)
(* version splits happen meanwhile.                                         *)
(***************************************************************************)

(* What snapshot s holds of key k: by the history, and in page p.           *)
Latest(k, s) ==
    {e \in book : e.key = k /\ e.ver <= s
                    /\ \A f \in book : f.key = k /\ f.ver <= s => f.ver <= e.ver}
Values(k, s) == {e.val : e \in {f \in Latest(k, s) : f.val # Gone}}
Hits(p, k, s) == {i \in 1 .. Len(recs[p]) : recs[p][i].key = k /\ Matches(recs[p][i], s)}
Found(p, k, s) == {recs[p][i].val : i \in Hits(p, k, s)}

(* Where a writer has a version that has not ended.                         *)
CommittingPCs == {"push", "commitLen", "kill", "commitDead", "end", "append", "endSplit"}

(* What a writer has put into its page: its own record as the last one; a   *)
(* delete is younger than all records.                                      *)
WrittenAt(w) ==
    LET n == Len(recs[at[w]])
    IN  /\ wpc[w] = "commitLen" \/ (wpc[w] = "kill" /\ op[w] = "update") =>
              n >= 1 /\ recs[at[w]][n] = Record(key[w], ver[w])
        /\ wpc[w] = "kill" /\ op[w] = "delete" => \A i \in 1 .. n : recs[at[w]][i].ins < ver[w]

(* Versions in flight are told apart and lie below the clock.               *)
VersionInv ==
    /\ wm \in Nat /\ wm >= 1
    /\ inflight \subseteq Nat /\ \A v \in inflight : v < clock
    /\ \A w \in Writers : wpc[w] \in CommittingPCs => ver[w] \in inflight
    /\ \A u, w \in Writers : wpc[u] \in CommittingPCs /\ wpc[w] \in CommittingPCs /\ ver[u] = ver[w] => u = w
    /\ roots[1] = 1 /\ \A p \in 1 .. Len(roots) : roots[p] < clock
    /\ \A p \in Pages : \A i \in 1 .. Len(recs[p]) : recs[p][i].val # Gone
    /\ \A w \in Writers : WrittenAt(w)

---------------------------------------------------------------------------
(* Pages and history.                                                       *)

(* The snapshots that retrieve_root_for leads to page p.                    *)
Serves(p, s) == roots[p] <= s /\ \A q \in p + 1 .. Len(roots) : s < roots[q]

(* The writer in page p has still to write what the history has of key k.   *)
Unwritten(p, w) ==
    \/ wpc[w] = "push"
    \/ wpc[w] \in {"commitLen", "kill"} /\ op[w] = "update"
    \/ wpc[w] = "kill" /\ LiveIn(p, key[w])
Pending(p, k, s) ==
    owner[p] # None /\ Unwritten(p, owner[p]) /\ key[owner[p]] = k /\ ver[owner[p]] <= s

PageExact(p) ==
    \A k \in Keys, s \in Nat : Serves(p, s) /\ ~Pending(p, k, s) => Found(p, k, s) = Values(k, s)

(* The history has a commit before the page: at its version, nothing else   *)
(* of its key is as new.                                                    *)
NotedAt(w) ==
    wpc[w] \in {"push", "commitLen", "kill"} /\ Unwritten(at[w], w) =>
        \A s \in Nat : ver[w] <= s => Values(key[w], s) = IF op[w] = "delete" THEN {} ELSE {ver[w]}

(* A split copies the records that live, and draws its version behind       *)
(* everything in the page.                                                  *)
CopyAt(w) ==
    /\ wpc[w] = "copy" => picked[w] = Live(at[w])
    /\ wpc[w] \in {"startSplit", "append"} =>
          {recs[NewPage][i] : i \in 1 .. Len(recs[NewPage])} = {recs[at[w]][i] : i \in Live(at[w])}
    /\ wpc[w] = "append" => roots[at[w]] < ver[w] /\ \A i \in 1 .. Len(recs[at[w]]) :
                               recs[at[w]][i].ins < ver[w] /\ recs[at[w]][i].del < ver[w]

(* An update in place has a record to overwrite.                            *)
FoundAt(w) == wpc[w] = "overwrite" => RFind(at[w], key[w], Length(at[w])) # 0

BookInv ==
    /\ book \subseteq [ver : Nat, key : Keys, val : Int] /\ \A e \in book : e.ver < clock
    /\ \A p \in 1 .. Len(roots) : PageExact(p)
    /\ \A w \in Writers : NotedAt(w) /\ CopyAt(w) /\ FoundAt(w)

---------------------------------------------------------------------------
(* Readers.                                                                 *)

(* What a range query at snapshot s has of page p once the records below lo *)
(* are looked at; hi was the page's length.                                 *)
FilteredTo(f, p, s, lo, hi) ==
    /\ lo \in Nat \ {0} /\ hi \in Nat /\ hi <= Len(recs[p])
    /\ \A i \in 1 .. Len(recs[p]) : Matches(recs[p][i], s) => i <= hi
    /\ lo <= hi + 1
    /\ f \in Seq(Keys \X Int)
    /\ {f[j] : j \in 1 .. Len(f)} =
          {<<recs[p][i].key, recs[p][i].val>> : i \in {l \in 1 .. lo - 1 : Matches(recs[p][l], s)}}
    /\ \A j, l \in 1 .. Len(f) : f[j] = f[l] => j = l

(* A point query has found the record, or none above hi.                    *)
FoundTo(f, q, p, s, lo, hi) ==
    /\ lo = 1 /\ hi \in Nat /\ hi <= Len(recs[p])
    /\ \/ f = << >> /\ \A i \in Hits(p, q, s) : i <= hi
       \/ hi = 0 /\ \E i \in Hits(p, q, s) : f = << <<recs[p][i].key, recs[p][i].val>> >>

(* A query on a settled snapshot that no update in place has overtaken.     *)
Undisturbed(r) ==
    LET p == rpage[r]
        s == snap[r]
    IN  /\ s \in Nat /\ 1 <= s /\ s < clock /\ \A v \in inflight : s < v
        /\ expect[r] = Content(s, query[r])
        /\ rpc[r] \in {"len", "look", "done"} => p \in 1 .. Len(roots) /\ Serves(p, s)
        /\ rpc[r] \in {"look", "done"} =>
              /\ query[r] = AllKeys => FilteredTo(seen[r], p, s, left[r][1], left[r][2])
              /\ query[r] # AllKeys => FoundTo(seen[r], query[r], p, s, left[r][1], left[r][2])
        /\ rpc[r] = "done" => left[r][1] > left[r][2]

ReaderAt(r) ==
    /\ query[r] \in Keys \cup {AllKeys}
    /\ rpc[r] \in {"idle", "draw"} => ~settled[r]
    /\ rpc[r] \notin {"look", "done"} => seen[r] = << >>
    /\ settled[r] /\ ~raced[r] => Undisturbed(r)

(* The queries an update in place knows of are older than the record.       *)
KnownAt(w) ==
    wpc[w] = "overwrite" => \A r \in known[w] :
        Registered(r) /\ snap[r] < recs[at[w]][RFind(at[w], key[w], Length(at[w]))].ins

OnReaders(f) == f = [r \in Readers |-> f[r]]

ReaderInv ==
    /\ OnReaders(rpc) /\ OnReaders(query) /\ OnReaders(snap) /\ OnReaders(rpage) /\ OnReaders(left)
    /\ OnReaders(seen) /\ OnReaders(settled) /\ OnReaders(raced) /\ OnReaders(expect)
    /\ known \in [Writers -> SUBSET Readers]
    /\ \A r \in Readers : ReaderAt(r)
    /\ \A w \in Writers : KnownAt(w)

---------------------------------------------------------------------------
(* Writers and their pages.                                                 *)

(* A writer that still counts on room in its page is in the newest root,    *)
(* and nobody splits it.                                                    *)
LEMMA RoomMeansRoot ==
    ASSUME RoomInv, LifeInv, NEW w \in Writers,
           wpc[w] \in RoomPCs \/ (wpc[w] = "kill" /\ op[w] = "delete")
    PROVE  at[w] = Len(roots) /\ \A u \in Writers : wpc[u] \notin CopyPCs
<1>1. wpc[w] \in LatchedPCs
    BY DEF RoomPCs, LatchedPCs
<1>2. /\ at[w] \in Pages /\ PageAt(at[w]) /\ Length(at[w]) \in Int /\ at[w] \in Int /\ at[w] <= Len(roots)
      /\ Len(roots) \in Int /\ NumRecords \in Int
    <2>1. wpc[w] \notin {"idle", "load", "root"}
        BY <1>1 DEF LatchedPCs
    <2>2. Len(roots) \in Int
        BY DEF RoomInv, TypeInv
    <2> QED BY <2>1, <2>2, AtPage, Bounds
<1>3. Length(at[w]) < NumRecords
    BY DEF RoomInv, WriterAt, LifeInv, CommitAt
<1>4. at[w] = Len(roots)
    BY <1>2, <1>3 DEF PageAt
<1>5. ASSUME NEW u \in Writers, wpc[u] \in CopyPCs PROVE FALSE
    <2>1. at[u] = Len(roots) /\ Length(at[u]) >= NumRecords
        BY <1>5 DEF RoomInv, WriterAt
    <2> QED BY <1>2, <1>3, <1>4, <2>1
<1> QED BY <1>4, <1>5

(* An update is under way alone.                                            *)
LEMMA UpdatesAlone ==
    ASSUME LifeInv, NEW u \in Writers, NEW w \in Writers, wpc[u] # "idle", wpc[w] # "idle", op[u] = "update"
    PROVE  u = w
BY DEF LifeInv, Alone, CommitAt

(* What the history has and no page yet is the commit of one writer.        *)
LEMMA OneUnwritten ==
    ASSUME RoomInv, LifeInv, NEW w \in Writers, wpc[w] \in RoomPCs, NEW u \in Writers \ {w}
    PROVE  ~Unwritten(at[u], u)
<1> SUFFICES ASSUME Unwritten(at[u], u) PROVE FALSE
    OBVIOUS
<1>1. wpc[u] \in {"push", "commitLen", "kill"} /\ CommitAt(u)
    BY DEF Unwritten, LifeInv
<1>2. CASE op[u] = "update"
    BY <1>1, <1>2, UpdatesAlone DEF RoomPCs
<1>3. CASE op[u] # "update"
    <2>1. wpc[u] \in LatchedPCs /\ wpc[w] \in LatchedPCs
        BY <1>1 DEF LatchedPCs, RoomPCs
    <2>2. op[u] \in Operations
        BY <2>1, InPage
    <2>3. wpc[u] \in RoomPCs \/ (wpc[u] = "kill" /\ op[u] = "delete")
        BY <1>1, <1>3, <2>2 DEF Unwritten, RoomPCs, CommitAt, Operations
    <2>4. at[u] = at[w]
        BY <2>3, RoomMeansRoot
    <2> QED BY <2>1, <2>4, InPage
<1> QED BY <1>2, <1>3

(* Nobody has anything to write to a page that is being copied.             *)
LEMMA CopiedAtRest ==
    ASSUME RoomInv, LifeInv, NEW w \in Writers, wpc[w] \in CopyPCs, NEW u \in Writers
    PROVE  /\ wpc[u] \notin RoomPCs /\ wpc[u] # "kill" /\ ~Unwritten(at[u], u)
<1>1. wpc[u] \notin RoomPCs /\ ~(wpc[u] = "kill" /\ op[u] = "delete")
    BY RoomMeansRoot
<1>2. wpc[u] = "kill" => op[u] \in {"delete", "update"}
    BY InPage DEF LifeInv, CommitAt, LatchedPCs, Operations
<1>3. wpc[u] = "kill" => op[u] # "update"
    BY UpdatesAlone DEF CopyPCs
<1> QED BY <1>1, <1>2, <1>3 DEF Unwritten, RoomPCs

(* The fields of a page's records, with the payload.                        *)
LEMMA Fields ==
    ASSUME RoomInv, NEW p \in Pages
    PROVE  /\ Len(recs[p]) \in Nat
           /\ \A i \in 1 .. Len(recs[p]) : /\ recs[p][i].key \in Keys /\ recs[p][i].val \in Int
                                           /\ recs[p][i].ins \in Nat /\ recs[p][i].del \in Nat
<1>1. \A r \in RecordType : r.val \in Int
    BY DEF RecordType
<1> QED BY <1>1, RecordFields

(* Roots are pages, and the page of a writer is one.                        *)
LEMMA RootPages ==
    ASSUME RoomInv
    PROVE  /\ Len(roots) \in Nat /\ Len(roots) >= 1 /\ roots \in Seq(Nat) /\ 1 .. Len(roots) \subseteq Pages
           /\ \A p \in 1 .. Len(roots) : roots[p] \in Nat
BY Bounds DEF RoomInv, TypeInv, Pages

---------------------------------------------------------------------------
(* What the steps of a writer leave alone.                                  *)

readerState == <<rpc, query, snap, rpage, left, seen, settled, raced, expect>>

(* The steps that neither draw or end a version nor write to a record, to   *)
(* the root index or to the history.                                        *)
QuietStep(w) ==
    \/ Dispatch(w) \/ BorrowMaster(w) \/ LoadRoot(w) \/ BorrowLeaf(w) \/ UnsafeDegreeRoot(w)
    \/ UpgradeMaster(w) \/ UpgradeLeaf(w) \/ Collect(w) \/ UnlatchMaster(w) \/ Reject(w) \/ StartUpdate(w)
    \/ PeekMax(w) \/ CommitRevived(w) \/ CommitLen(w) \/ CommitDead(w) \/ Unlatch(w)

LEMMA QuietUnchanged ==
    ASSUME NEW w \in Writers, QuietStep(w)
    PROVE  UNCHANGED <<clock, wm, inflight, ver, recs, roots, book, readerState>>
<1> USE DEF clockVars, pageVars, latchVars, writerVars, readerVars, readerState
<1>1. CASE Dispatch(w) \/ BorrowMaster(w) \/ LoadRoot(w) \/ BorrowLeaf(w) \/ UnsafeDegreeRoot(w)
    BY <1>1 DEF Dispatch, BorrowMaster, LoadRoot, BorrowLeaf, UnsafeDegreeRoot
<1>2. CASE UpgradeMaster(w) \/ UpgradeLeaf(w) \/ Collect(w) \/ UnlatchMaster(w)
    BY <1>2 DEF UpgradeMaster, UpgradeLeaf, Collect, UnlatchMaster
<1>3. CASE Reject(w) \/ StartUpdate(w) \/ PeekMax(w) \/ Unlatch(w)
    BY <1>3 DEF Reject, StartUpdate, PeekMax, Unlatch
<1>4. CASE CommitRevived(w) \/ CommitLen(w) \/ CommitDead(w)
    BY <1>4 DEF CommitRevived, CommitLen, CommitDead
<1> QED BY <1>1, <1>2, <1>3, <1>4 DEF QuietStep

(* Where a quiet step leads: past a soft commit, to the collected records,  *)
(* to an update in place, or to where nothing is written.                   *)
LEMMA QuietMoves ==
    ASSUME RoomInv, NEW w \in Writers, UNCHANGED setup, QuietStep(w)
    PROVE  /\ OthersStay(w) /\ (wpc[w] # "idle" \/ wpc'[w] # "idle")
           /\ wpc[w] \notin {"push", "kill", "overwrite", "copy", "startSplit", "append"}
           /\ \/ wpc'[w] \notin CommittingPCs \cup {"copy", "startSplit", "overwrite"}
              \/ CommitLen(w) /\ wpc[w] = "commitLen" /\ wpc'[w] = "kill" /\ op[w] = "update"
              \/ CommitLen(w) /\ wpc[w] = "commitLen" /\ wpc'[w] = "end"
              \/ CommitDead(w) /\ wpc[w] = "commitDead" /\ wpc'[w] = "end"
              \/ Collect(w) /\ wpc[w] = "collect" /\ wpc'[w] = "copy"
              \/ PeekMax(w) /\ wpc[w] = "peekMax" /\ wpc'[w] = "overwrite"
<1>1. TypeInv
    BY DEF RoomInv
<1> USE <1>1 DEF TypeInv, OthersStay, CommittingPCs, WGoto, Doing
<1>2. CASE Dispatch(w) \/ BorrowMaster(w) \/ LoadRoot(w) \/ BorrowLeaf(w)
    BY <1>2 DEF Dispatch, BorrowMaster, LoadRoot, BorrowLeaf
<1>3. CASE UnsafeDegreeRoot(w) \/ UpgradeMaster(w) \/ UpgradeLeaf(w)
    BY <1>3 DEF UnsafeDegreeRoot, UpgradeMaster, UpgradeLeaf, Upgrade
<1>4. CASE Collect(w) \/ UnlatchMaster(w)
    BY <1>4 DEF Collect, UnlatchMaster
<1>5. CASE Reject(w) \/ Unlatch(w)
    BY <1>5 DEF Reject, Unlatch
<1>6. CASE StartUpdate(w) \/ PeekMax(w)
    BY <1>6 DEF StartUpdate, PeekMax
<1>7. CASE CommitRevived(w) \/ CommitLen(w) \/ CommitDead(w)
    BY <1>7 DEF CommitRevived, CommitLen, CommitDead
<1> QED BY <1>2, <1>3, <1>4, <1>5, <1>6, <1>7 DEF QuietStep

(* What it does to the latches and lengths of pages.                        *)
LEMMA QuietPages ==
    ASSUME RoomInv, NEW w \in Writers, UNCHANGED setup, QuietStep(w)
    PROVE  /\ \A p \in Pages : owner[p] \notin {w, None} => owner'[p] = owner[p]
           /\ \A p \in Pages : owner'[p] \notin {w, None} => owner'[p] = owner[p]
           /\ \A p \in Pages : owner[p] = w /\ owner'[p] # w => wpc[w] = "unlatch"
           /\ \A p \in Pages : owner[p] # w => Length(p)' = Length(p)
           /\ wpc[w] \notin {"commitLen", "commitRevived"} => \A p \in Pages : Length(p)' = Length(p)
           /\ wpc[w] = "commitLen" => key' = key /\ op' = op /\ at' = at
<1>1. TypeInv
    BY DEF RoomInv
<1> DEFINE Same == UNCHANGED <<active, dead>>
<1>2. Same => \A p \in Pages : Length(p)' = Length(p)
    BY DEF Length
<1> USE DEF WGoto, pageVars, latchVars, clockVars, writerVars
<1>3. CASE Dispatch(w) \/ BorrowMaster(w) \/ LoadRoot(w) \/ BorrowLeaf(w) \/ UnsafeDegreeRoot(w)
    <2>1. Same /\ owner' = owner /\ wpc[w] # "commitLen"
        BY <1>3 DEF Dispatch, BorrowMaster, LoadRoot, BorrowLeaf, UnsafeDegreeRoot
    <2> QED BY <1>2, <2>1
<1>4. CASE UpgradeMaster(w) \/ Collect(w) \/ UnlatchMaster(w) \/ Reject(w) \/ StartUpdate(w) \/ PeekMax(w)
    <2>1. Same /\ owner' = owner /\ wpc[w] # "commitLen"
        BY <1>4 DEF UpgradeMaster, Collect, UnlatchMaster, Reject, StartUpdate, PeekMax
    <2> QED BY <1>2, <2>1
<1>5. CASE UpgradeLeaf(w)
    <2>1. Same /\ wpc[w] = "upgrade" /\ w # None
        BY <1>5, Bounds DEF UpgradeLeaf
    <2>2. owner' = owner \/ (owner[at[w]] = None /\ owner' = [owner EXCEPT ![at[w]] = w])
        BY <1>1, <1>5 DEF UpgradeLeaf, Upgrade, TypeInv
    <2> QED BY <1>1, <1>2, <2>1, <2>2 DEF TypeInv
<1>6. CASE Unlatch(w)
    <2>1. Same /\ wpc[w] = "unlatch" /\ owner' = [owner EXCEPT ![at[w]] = None]
        BY <1>6 DEF Unlatch
    <2>2. owner[at[w]] = w /\ w # None
        BY <2>1, InPage, Bounds DEF LatchedPCs
    <2> QED BY <1>1, <1>2, <2>1, <2>2 DEF TypeInv
<1>7. CASE CommitRevived(w) \/ CommitLen(w) \/ CommitDead(w)
    <2>1. wpc[w] \in CommitPCs /\ owner' = owner /\ key' = key /\ op' = op /\ at' = at
        BY <1>7 DEF CommitRevived, CommitLen, CommitDead, CommitPCs
    <2>2. at[w] \in Pages /\ owner[at[w]] = w /\ active[at[w]] \in Int /\ dead[at[w]] \in Int
        BY <2>1, InPage DEF LatchedPCs, CommitPCs
    <2>3. \A p \in Pages \ {at[w]} : active'[p] = active[p] /\ dead'[p] = dead[p]
        BY <1>1, <1>7 DEF CommitRevived, CommitLen, CommitDead, CommitDelta, TypeInv
    <2>4. wpc[w] = "commitDead" => active'[at[w]] = active[at[w]] - 1 /\ dead'[at[w]] = dead[at[w]] + 1
        <3>1. wpc[w] = "commitDead" => CommitDead(w)
            BY <1>7 DEF CommitRevived, CommitLen
        <3>2. active \in [Pages -> Int] /\ dead \in [Pages -> Int]
            BY <1>1 DEF TypeInv
        <3>3. wpc[w] = "commitDead" => /\ active' = [active EXCEPT ![at[w]] = active[at[w]] + (-1)]
                                      /\ dead' = [dead EXCEPT ![at[w]] = dead[at[w]] + 1]
            BY <3>1 DEF CommitDead, CommitDelta
        <3>4. wpc[w] = "commitDead" => active'[at[w]] = active[at[w]] + (-1) /\ dead'[at[w]] = dead[at[w]] + 1
            BY <2>2, <3>2, <3>3
        <3>5. \A a \in Int : a + (-1) = a - 1
            OBVIOUS
        <3> QED BY <2>2, <3>4, <3>5
    <2>5. \A p \in Pages \ {at[w]} : Length(p)' = Length(p)
        BY <2>3 DEF Length
    <2>6. wpc[w] = "commitDead" => Length(at[w])' = Length(at[w])
        BY <2>1, <2>2, <2>4 DEF Length
    <2> QED BY <2>1, <2>2, <2>5, <2>6 DEF CommitPCs
<1> QED BY <1>3, <1>4, <1>5, <1>6, <1>7 DEF QuietStep

---------------------------------------------------------------------------
(* Versions in flight.                                                      *)

(* What a writer has written stays where nobody writes to its page.         *)
LEMMA WrittenStays ==
    ASSUME NEW u \in Writers, WrittenAt(u), wpc'[u] = wpc[u], op'[u] = op[u], key'[u] = key[u], at'[u] = at[u],
           ver'[u] = ver[u], wpc[u] \in {"commitLen", "kill"} => recs'[at[u]] = recs[at[u]]
    PROVE  WrittenAt(u)'
BY DEF WrittenAt, Record

LEMMA VersionKept ==
    ASSUME RoomInv, VersionInv, NEW w \in Writers, OthersStay(w), UNCHANGED <<clock, wm, inflight, ver, roots>>,
           wpc'[w] \in CommittingPCs => wpc[w] \in CommittingPCs, WrittenAt(w)',
           \A u \in Writers \ {w} : wpc[u] \in {"commitLen", "kill"} => recs'[at[u]] = recs[at[u]],
           \A p \in Pages : \A i \in 1 .. Len(recs'[p]) : recs'[p][i].val # Gone
    PROVE  VersionInv'
<1>1. \A u \in Writers \ {w} : WrittenAt(u)'
    BY WrittenStays DEF VersionInv, OthersStay
<1>2. \A u \in Writers : wpc'[u] \in CommittingPCs => wpc[u] \in CommittingPCs
    BY DEF OthersStay
<1>3. \A u \in Writers : wpc'[u] \in CommittingPCs => ver'[u] \in inflight'
    BY <1>2 DEF VersionInv
<1>4. \A u, v \in Writers : wpc'[u] \in CommittingPCs /\ wpc'[v] \in CommittingPCs /\ ver'[u] = ver'[v] => u = v
    BY <1>2 DEF VersionInv
<1>5. \A u \in Writers : WrittenAt(u)'
    BY <1>1
<1>6. /\ wm' \in Nat /\ wm' >= 1
      /\ inflight' \subseteq Nat /\ \A v \in inflight' : v < clock'
      /\ roots'[1] = 1 /\ \A p \in 1 .. Len(roots') : roots'[p] < clock'
    BY DEF VersionInv
<1> QED BY <1>3, <1>4, <1>5, <1>6 DEF VersionInv

LEMMA QuietVersion ==
    ASSUME RoomInv, VersionInv, NEW w \in Writers, UNCHANGED setup, QuietStep(w)
    PROVE  VersionInv'
<1>1. UNCHANGED <<clock, wm, inflight, ver, recs, roots, book, readerState>>
    BY QuietUnchanged
<1>2. OthersStay(w)
    BY QuietMoves
<1>3. wpc'[w] \in CommittingPCs => wpc[w] \in CommittingPCs
    BY QuietMoves DEF CommittingPCs
<1>4. WrittenAt(w)'
    <2>1. CASE wpc'[w] \notin {"commitLen", "kill"}
        BY <2>1 DEF WrittenAt
    <2>2. CASE wpc'[w] \in {"commitLen", "kill"}
        <3>1. wpc[w] = "commitLen" /\ wpc'[w] = "kill" /\ op[w] = "update"
            BY <2>2, QuietMoves DEF CommittingPCs
        <3>2. key' = key /\ op' = op /\ at' = at
            BY <3>1, QuietPages
        <3> QED BY <1>1, <3>1, <3>2 DEF VersionInv, WrittenAt, Record
    <2> QED BY <2>1, <2>2
<1>5. /\ \A p \in Pages : \A i \in 1 .. Len(recs'[p]) : recs'[p][i].val # Gone
      /\ \A u \in Writers \ {w} : wpc[u] \in {"commitLen", "kill"} => recs'[at[u]] = recs[at[u]]
    BY <1>1 DEF VersionInv
<1>6. UNCHANGED <<clock, wm, inflight, ver, roots>>
    BY <1>1
<1> QED BY <1>2, <1>3, <1>4, <1>5, <1>6, VersionKept

(* The steps that draw a version.                                           *)
DrawStep(w) == StartSplit(w) \/ StartInsert(w) \/ StartUpdateCommit(w) \/ StartDelete(w)

LEMMA DrawFacts ==
    ASSUME RoomInv, NEW w \in Writers, DrawStep(w)
    PROVE  /\ clock \in Nat /\ clock' = clock + 1 /\ inflight' = inflight \cup {clock} /\ ver'[w] = clock
           /\ UNCHANGED <<wm, recs, active, dead, owner, roots, op, key, at, picked, known, readerState>>
           /\ OthersStay(w)
           /\ \/ wpc[w] = "startSplit" /\ wpc'[w] = "append" /\ book' = book
              \/ /\ wpc[w] \in {"latched", "validate"} /\ wpc'[w] = "push" /\ Note(clock, key[w], clock)
                 /\ op[w] = "insert" \/ wpc[w] = "validate"
              \/ /\ wpc[w] = "latched" /\ wpc'[w] = "kill" /\ op[w] = "delete"
                 /\ IF LiveIn(at[w], key[w]) THEN Note(clock, key[w], Gone) ELSE book' = book
<1>1. TypeInv /\ clock \in Nat /\ ver \in [Writers -> Nat]
    BY DEF RoomInv, TypeInv
<1>2. StartTxCommit(w)
    BY DEF DrawStep, StartSplit, StartInsert, StartUpdateCommit, StartDelete
<1>3. /\ clock' = clock + 1 /\ inflight' = inflight \cup {clock} /\ ver' = [ver EXCEPT ![w] = clock] /\ wm' = wm
    BY <1>2 DEF StartTxCommit, Clock!Begin
<1>4. UNCHANGED <<recs, active, dead, owner, roots, op, key, at, picked, known, readerState>>
    BY DEF DrawStep, StartSplit, StartInsert, StartUpdateCommit, StartDelete, pageVars, latchVars, readerVars,
           readerState
<1>5. ver'[w] = clock /\ \A u \in Writers \ {w} : ver'[u] = ver[u]
    BY <1>1, <1>3
<1>6. \A u \in Writers \ {w} : wpc'[u] = wpc[u]
    BY <1>1 DEF DrawStep, StartSplit, StartInsert, StartUpdateCommit, StartDelete, WGoto, TypeInv
<1>7. OthersStay(w)
    BY <1>4, <1>5, <1>6 DEF OthersStay
<1>8. wpc \in [Writers -> WriterPCs]
    BY <1>1 DEF TypeInv
<1>9. \/ wpc[w] = "startSplit" /\ wpc'[w] = "append" /\ book' = book
      \/ /\ wpc[w] \in {"latched", "validate"} /\ wpc'[w] = "push" /\ Note(clock, key[w], clock)
         /\ op[w] = "insert" \/ wpc[w] = "validate"
      \/ /\ wpc[w] = "latched" /\ wpc'[w] = "kill" /\ op[w] = "delete"
         /\ IF LiveIn(at[w], key[w]) THEN Note(clock, key[w], Gone) ELSE book' = book
    <2>1. CASE StartSplit(w)
        BY <1>8, <2>1 DEF StartSplit, WGoto
    <2>2. CASE StartInsert(w)
        BY <1>8, <2>2 DEF StartInsert, WGoto, Doing
    <2>3. CASE StartUpdateCommit(w)
        BY <1>8, <2>3 DEF StartUpdateCommit, WGoto
    <2>4. CASE StartDelete(w)
        BY <1>8, <2>4 DEF StartDelete, WGoto, Doing
    <2> QED BY <2>1, <2>2, <2>3, <2>4 DEF DrawStep
<1> QED BY <1>1, <1>3, <1>4, <1>5, <1>7, <1>9

LEMMA DrawVersion ==
    ASSUME RoomInv, LifeInv, VersionInv, NEW w \in Writers, DrawStep(w)
    PROVE  VersionInv'
<1>1. /\ clock \in Nat /\ clock' = clock + 1 /\ inflight' = inflight \cup {clock} /\ ver'[w] = clock
      /\ UNCHANGED <<wm, recs, roots, op, key, at>> /\ OthersStay(w)
      /\ wpc'[w] \in {"append", "push", "kill"} /\ (wpc'[w] = "kill" => op[w] = "delete" /\ wpc[w] \in LatchedPCs)
    BY DrawFacts DEF LatchedPCs
<1>2. \A v \in inflight' : v \in Nat /\ v < clock'
    <2>1. \A v \in inflight : v \in Nat /\ v < clock
        BY DEF VersionInv
    <2>2. \A v \in Nat : v < clock => v < clock + 1
        BY <1>1
    <2>3. \A v \in inflight' : v \in inflight \/ v = clock
        BY <1>1
    <2> QED BY <1>1, <2>1, <2>2, <2>3
<1>3. \A u \in Writers \ {w} : wpc'[u] \in CommittingPCs => ver'[u] \in inflight /\ ver'[u] # clock /\ wpc[u] \in CommittingPCs
    BY <1>1 DEF VersionInv, OthersStay
<1>4. \A u \in Writers : wpc'[u] \in CommittingPCs => ver'[u] \in inflight'
    BY <1>1, <1>3
<1>5. \A u, v \in Writers : wpc'[u] \in CommittingPCs /\ wpc'[v] \in CommittingPCs /\ ver'[u] = ver'[v] => u = v
    <2> SUFFICES ASSUME NEW u \in Writers, NEW v \in Writers, wpc'[u] \in CommittingPCs, wpc'[v] \in CommittingPCs,
                        ver'[u] = ver'[v], u # v
                 PROVE  FALSE
        OBVIOUS
    <2>1. u # w /\ v # w
        BY <1>1, <1>3
    <2> QED BY <1>1, <1>3, <2>1 DEF VersionInv, OthersStay
<1>6. \A u \in Writers \ {w} : WrittenAt(u)'
    BY <1>1, WrittenStays DEF VersionInv, OthersStay
<1>7. WrittenAt(w)'
    <2>1. CASE wpc'[w] # "kill"
        BY <1>1, <2>1 DEF WrittenAt
    <2>2. CASE wpc'[w] = "kill"
        <3>1. at[w] \in Pages /\ op[w] = "delete"
            BY <1>1, <2>2, InPage
        <3>2. \A i \in 1 .. Len(recs[at[w]]) : recs[at[w]][i].ins < clock
            BY <3>1 DEF LifeInv, LifeAt
        <3> QED BY <1>1, <2>2, <3>1, <3>2 DEF WrittenAt
    <2> QED BY <2>1, <2>2
<1>8. \A p \in 1 .. Len(roots) : roots[p] < clock'
    BY <1>1, RootPages DEF VersionInv
<1>9. \A u \in Writers : WrittenAt(u)'
    BY <1>6, <1>7
<1>10. /\ wm' \in Nat /\ wm' >= 1 /\ roots'[1] = 1
       /\ \A p \in Pages : \A i \in 1 .. Len(recs'[p]) : recs'[p][i].val # Gone
    BY <1>1 DEF VersionInv
<1> QED BY <1>1, <1>2, <1>4, <1>5, <1>8, <1>9, <1>10 DEF VersionInv

(* The steps that end one.                                                  *)
EndStep(w) == EndSplit(w) \/ EndOperation(w) \/ AbandonDelete(w)

LEMMA EndFacts ==
    ASSUME RoomInv, NEW w \in Writers, EndStep(w)
    PROVE  /\ inflight' = inflight \ {ver[w]} /\ OthersStay(w)
           /\ UNCHANGED <<clock, wm, recs, active, dead, owner, roots, op, key, at, picked, known, book, readerState>>
           /\ \/ wpc[w] = "endSplit" /\ wpc'[w] = "unlatchMaster"
              \/ wpc[w] = "end" /\ wpc'[w] = "unlatch"
              \/ wpc[w] = "kill" /\ wpc'[w] = "unlatch" /\ op[w] = "delete" /\ ~LiveIn(at[w], key[w])
<1>1. wpc \in [Writers -> WriterPCs] /\ ver \in [Writers -> Nat]
    BY DEF RoomInv, TypeInv
<1>2. EndTxCommit(w)
    BY DEF EndStep, EndSplit, EndOperation, AbandonDelete
<1>3. inflight' = inflight \ {ver[w]} /\ UNCHANGED <<clock, wm>> /\ ver' = [ver EXCEPT ![w] = 0]
    BY <1>2 DEF EndTxCommit, Clock!Finish
<1>4. UNCHANGED <<recs, active, dead, owner, roots, op, key, at, picked, known, book, readerState>>
    BY DEF EndStep, EndSplit, EndOperation, AbandonDelete, pageVars, latchVars, readerVars, readerState
<1>5. \/ wpc[w] = "endSplit" /\ wpc' = [wpc EXCEPT ![w] = "unlatchMaster"]
      \/ wpc[w] = "end" /\ wpc' = [wpc EXCEPT ![w] = "unlatch"]
      \/ wpc[w] = "kill" /\ wpc' = [wpc EXCEPT ![w] = "unlatch"] /\ op[w] = "delete" /\ ~LiveIn(at[w], key[w])
    BY DEF EndStep, EndSplit, EndOperation, AbandonDelete, WGoto, Doing
<1>6. OthersStay(w)
    BY <1>1, <1>3, <1>4, <1>5 DEF OthersStay
<1>7. \/ wpc[w] = "endSplit" /\ wpc'[w] = "unlatchMaster"
      \/ wpc[w] = "end" /\ wpc'[w] = "unlatch"
      \/ wpc[w] = "kill" /\ wpc'[w] = "unlatch" /\ op[w] = "delete" /\ ~LiveIn(at[w], key[w])
    BY <1>1, <1>5
<1> QED BY <1>3, <1>4, <1>6, <1>7

LEMMA EndVersion ==
    ASSUME RoomInv, VersionInv, NEW w \in Writers, EndStep(w)
    PROVE  VersionInv'
<1>1. /\ inflight' = inflight \ {ver[w]} /\ OthersStay(w) /\ UNCHANGED <<clock, wm, recs, roots>>
      /\ wpc[w] \in CommittingPCs /\ wpc'[w] \in {"unlatchMaster", "unlatch"}
    BY EndFacts DEF CommittingPCs
<1>2. \A u \in Writers : wpc'[u] \in CommittingPCs => u # w
    BY <1>1 DEF CommittingPCs
<1>3. \A u \in Writers : wpc'[u] \in CommittingPCs => wpc[u] \in CommittingPCs /\ ver'[u] = ver[u] /\ ver[u] # ver[w]
    BY <1>1, <1>2 DEF VersionInv, OthersStay
<1>4. \A u \in Writers : wpc'[u] \in CommittingPCs => ver'[u] \in inflight'
    BY <1>1, <1>3 DEF VersionInv
<1>5. \A u, v \in Writers : wpc'[u] \in CommittingPCs /\ wpc'[v] \in CommittingPCs /\ ver'[u] = ver'[v] => u = v
    BY <1>3 DEF VersionInv
<1>6. \A u \in Writers \ {w} : WrittenAt(u)'
    BY <1>1, WrittenStays DEF VersionInv, OthersStay
<1>7. WrittenAt(w)'
    BY <1>1 DEF WrittenAt
<1>8. \A u \in Writers : WrittenAt(u)'
    BY <1>6, <1>7
<1>9. /\ wm' \in Nat /\ wm' >= 1 /\ inflight' \subseteq Nat /\ \A v \in inflight' : v < clock'
      /\ roots'[1] = 1 /\ \A p \in 1 .. Len(roots') : roots'[p] < clock'
      /\ \A p \in Pages : \A i \in 1 .. Len(recs'[p]) : recs'[p][i].val # Gone
    BY <1>1 DEF VersionInv
<1> QED BY <1>4, <1>5, <1>8, <1>9 DEF VersionInv

(* The steps that write to the records of the latched page.                 *)
LEMMA PushFacts ==
    ASSUME RoomInv, NEW w \in Writers, UNCHANGED setup, PushUncommitted(w)
    PROVE  LET q == at[w]
               n == Len(recs[q])
           IN  /\ q \in Pages /\ owner[q] = w /\ n \in Nat /\ Length(q) = n /\ key[w] \in Keys /\ ver[w] \in Nat
               /\ ver[w] >= 1 /\ wpc[w] = "push" /\ wpc'[w] = "commitLen" /\ OthersStay(w)
               /\ UNCHANGED <<clock, wm, inflight, active, dead, owner, roots, op, key, at, ver, picked, known, book,
                              readerState>>
               /\ \A p \in Pages \ {q} : recs'[p] = recs[p]
               /\ Len(recs'[q]) = n + 1 /\ recs'[q][n + 1] = Record(key[w], ver[w])
               /\ \A i \in 1 .. n : recs'[q][i] = recs[q][i]
<1>1. wpc[w] = "push" /\ wpc' = [wpc EXCEPT ![w] = "commitLen"] /\ wpc[w] \in LatchedPCs
    BY DEF PushUncommitted, WGoto, LatchedPCs
<1>2. PICK q \in Pages : q = at[w]
    BY <1>1, InPage
<1>3. PICK n \in Nat : n = Len(recs[q])
    BY RecordFields
<1>4. /\ owner[q] = w /\ key[w] \in Keys /\ ver[w] \in Nat /\ ver[w] >= 1 /\ Length(q) = n
    <2>1. /\ owner[q] = w /\ key[w] \in Keys /\ ver[w] \in Nat /\ ver[w] >= 1 /\ Length(q) \in Nat
          /\ Len(recs[q]) = Length(q) + 0
        BY <1>1, <1>2, InPage
    <2> QED BY <1>3, <2>1
<1>5. recs' = [recs EXCEPT ![q] = Append(recs[q], Record(key[w], ver[w]))]
    BY <1>2, PushUncommittedRoom
<1>6. UNCHANGED <<clock, wm, inflight, active, dead, owner, roots, op, key, at, ver, picked, known, book, readerState>>
    BY DEF PushUncommitted, clockVars, latchVars, readerVars, readerState
<1>7. wpc \in [Writers -> WriterPCs] /\ recs \in [Pages -> Seq(RecordType)]
    BY DEF RoomInv, TypeInv
<1>8. OthersStay(w) /\ wpc'[w] = "commitLen"
    BY <1>1, <1>6, <1>7 DEF OthersStay
<1>9. /\ \A p \in Pages \ {q} : recs'[p] = recs[p]
      /\ recs'[q] = Append(recs[q], Record(key[w], ver[w]))
    BY <1>5, <1>7
<1>10. /\ Len(recs'[q]) = n + 1 /\ recs'[q][n + 1] = Record(key[w], ver[w])
       /\ \A i \in 1 .. n : recs'[q][i] = recs[q][i]
    BY <1>3, <1>9, RecordFields
<1> QED BY <1>1, <1>2, <1>3, <1>4, <1>6, <1>8, <1>9, <1>10

(* The record that ends is the last one of its key, but for the one an      *)
(* update has just pushed.                                                  *)
Ends(w, q, n, i) ==
    /\ recs[q][i].key = key[w] /\ recs[q][i].del = 0
    /\ Len(recs'[q]) = n /\ \A j \in 1 .. n : j # i => recs'[q][j] = recs[q][j]
    /\ recs'[q][i].key = key[w] /\ recs'[q][i].ins = recs[q][i].ins /\ recs'[q][i].val = recs[q][i].val
    /\ recs'[q][i].del = ver[w]
    /\ op[w] = "update" => i < n
    /\ \A j \in 1 .. n : recs[q][j].key = key[w] => j <= i \/ (op[w] = "update" /\ j = n)

LEMMA KillFacts ==
    ASSUME RoomInv, LifeInv, NEW w \in Writers, UNCHANGED setup, Kill(w)
    PROVE  LET q == at[w]
               n == Len(recs[q])
           IN  /\ q \in Pages /\ owner[q] = w /\ n \in Nat /\ Length(q) = n /\ key[w] \in Keys /\ ver[w] \in Nat
               /\ ver[w] >= 1 /\ wpc[w] = "kill" /\ wpc'[w] = "commitDead" /\ OthersStay(w)
               /\ op[w] \in {"delete", "update"}
               /\ UNCHANGED <<clock, wm, inflight, active, dead, owner, roots, op, key, at, ver, picked, known, book,
                              readerState>>
               /\ \A p \in Pages \ {q} : recs'[p] = recs[p]
               /\ \E i \in 1 .. n : Ends(w, q, n, i)
<1>1. wpc[w] = "kill" /\ wpc' = [wpc EXCEPT ![w] = "commitDead"] /\ wpc[w] \in LatchedPCs /\ CommitAt(w)
    BY DEF Kill, WGoto, LatchedPCs, LifeInv
<1>2. PICK q \in Pages : q = at[w]
    BY <1>1, InPage
<1>3. PICK n \in Nat : n = Len(recs[q])
    BY RecordFields
<1>4. /\ owner[q] = w /\ key[w] \in Keys /\ ver[w] \in Nat /\ ver[w] >= 1 /\ Length(q) = n
      /\ op[w] \in {"delete", "update"}
    <2>1. /\ owner[q] = w /\ key[w] \in Keys /\ ver[w] \in Nat /\ ver[w] >= 1 /\ Length(q) \in Nat
          /\ Len(recs[q]) = Length(q) + 0 /\ op[w] \in Operations
        BY <1>1, <1>2, InPage
    <2>2. op[w] # "insert"
        BY <1>1 DEF CommitAt
    <2> QED BY <1>3, <2>1, <2>2 DEF Operations
<1>5. PICK i \in 1 .. n : i = Doomed(w)
    BY <1>2, <1>4, KillRoom
<1>6. recs' = [recs EXCEPT ![q] = [recs[q] EXCEPT ![i] = [recs[q][i] EXCEPT !.del = ver[w]]]]
    BY <1>2, <1>5, KillRoom
<1>7. UNCHANGED <<clock, wm, inflight, active, dead, owner, roots, op, key, at, ver, picked, known, book, readerState>>
    BY DEF Kill, clockVars, latchVars, readerVars, readerState
<1>8. wpc \in [Writers -> WriterPCs] /\ recs \in [Pages -> Seq(RecordType)]
    BY DEF RoomInv, TypeInv
<1>9. OthersStay(w) /\ wpc'[w] = "commitDead"
    BY <1>1, <1>7, <1>8 DEF OthersStay
<1>10. ~IsDeleted(recs[q][i])
    BY <1>2, <1>5 DEF Kill
<1> DEFINE o == recs[q][i]
<1>11. /\ \A p \in Pages \ {q} : recs'[p] = recs[p]
       /\ recs'[q] = [recs[q] EXCEPT ![i] = [o EXCEPT !.del = ver[w]]]
    BY <1>6, <1>8
<1>12. o \in RecordType /\ recs[q] \in Seq(RecordType)
    BY <1>3, RecordFields
<1> HIDE DEF o
<1>13. /\ [o EXCEPT !.del = ver[w]].key = o.key /\ [o EXCEPT !.del = ver[w]].ins = o.ins
       /\ [o EXCEPT !.del = ver[w]].val = o.val /\ [o EXCEPT !.del = ver[w]].del = ver[w]
    BY <1>12 DEF RecordType
<1>14. /\ Len(recs'[q]) = n /\ recs'[q][i] = [o EXCEPT !.del = ver[w]]
       /\ \A j \in 1 .. n : j # i => recs'[q][j] = recs[q][j]
    BY <1>3, <1>11, <1>12
<1>15. /\ recs[q][i].key = key[w] /\ (op[w] = "update" => i < n)
       /\ \A j \in 1 .. n : recs[q][j].key = key[w] => j <= i \/ (op[w] = "update" /\ j = n)
    <2>1. CASE op[w] = "delete"
        <3>1. i = RFind(q, key[w], n) /\ i # 0 /\ n \in Int
            BY <1>2, <1>4, <1>5, <2>1 DEF Doomed, Doing
        <3> QED BY <2>1, <3>1, RFindFacts
    <2>2. CASE op[w] = "update"
        <3>1. PICK m \in Int : m = n - 1
            OBVIOUS
        <3>2. i = RFind(q, key[w], m) /\ i # 0
            BY <1>2, <1>4, <1>5, <2>2, <3>1 DEF Doomed, Doing
        <3>3. recs[q][i].key = key[w] /\ i \in 1 .. m /\ \A j \in 1 .. m : recs[q][j].key = key[w] => j <= i
            BY <3>2, RFindFacts
        <3>4. \A j \in 1 .. n : j \in 1 .. m \/ j = n
            BY <3>1
        <3> QED BY <2>2, <3>1, <3>3, <3>4
    <2> QED BY <1>4, <2>1, <2>2
<1>16. Ends(w, q, n, i)
    BY <1>10, <1>13, <1>14, <1>15 DEF Ends, IsDeleted, o
<1> QED BY <1>1, <1>2, <1>3, <1>4, <1>7, <1>9, <1>11, <1>16

(* An update in place gives the last record of the key a new payload, and   *)
(* life if it had ended; the history has it from version f on.              *)
Revives(w, q, n, i, f) ==
    /\ recs[q][i].key = key[w] /\ \A j \in 1 .. n : recs[q][j].key = key[w] => j <= i
    /\ Len(recs'[q]) = n /\ \A j \in 1 .. n : j # i => recs'[q][j] = recs[q][j]
    /\ recs'[q][i].key = key[w] /\ recs'[q][i].ins = recs[q][i].ins /\ recs'[q][i].val = -recs[q][i].val
    /\ recs'[q][i].del = 0
    /\ f \in {recs[q][i].ins, roots[q]} /\ recs[q][i].ins <= f /\ roots[q] <= f
    /\ book' = {e \in book : e.key = key[w] => e.ver < f} \cup {[ver |-> f, key |-> key[w], val |-> -recs[q][i].val]}

LEMMA OverwriteFacts ==
    ASSUME RoomInv, NEW w \in Writers, FoundAt(w), Overwrite(w)
    PROVE  LET q == at[w]
               n == Len(recs[q])
           IN  /\ q \in Pages /\ q \in 1 .. Len(roots) /\ owner[q] = w /\ n \in Nat /\ Length(q) = n /\ key[w] \in Keys
               /\ wpc[w] = "overwrite" /\ wpc'[w] \in {"commitRevived", "unlatch"} /\ OthersStay(w)
               /\ UNCHANGED <<clock, wm, inflight, active, dead, owner, roots, op, key, at, ver, picked, rpc, query, snap,
                              rpage, left, seen, settled, expect>>
               /\ raced' = [r \in Readers |-> raced[r] \/ (rpc[r] # "idle" /\ r \notin known[w])]
               /\ known' = [known EXCEPT ![w] = {}]
               /\ \A p \in Pages \ {q} : recs'[p] = recs[p]
               /\ \E i \in 1 .. n : \E f \in Nat : Revives(w, q, n, i, f) /\ i = RFind(q, key[w], Length(q))
<1>1. wpc[w] = "overwrite" /\ wpc[w] \in LatchedPCs
    BY DEF Overwrite, LatchedPCs
<1>2. PICK q \in Pages : q = at[w]
    BY <1>1, InPage
<1>3. PICK n \in Nat : n = Len(recs[q])
    BY RecordFields
<1>4. owner[q] = w /\ key[w] \in Keys /\ Length(q) = n /\ q \in 1 .. Len(roots)
    <2>1. owner[q] = w /\ key[w] \in Keys /\ Length(q) \in Nat /\ Len(recs[q]) = Length(q) + 0
        BY <1>1, <1>2, InPage
    <2>2. q \in 1 .. Len(roots)
        BY <1>1, <1>2 DEF RoomInv, WriterAt
    <2> QED BY <1>3, <2>1, <2>2
<1>5. PICK i : i = RFind(q, key[w], Length(q))
    OBVIOUS
<1>6. /\ i \in 1 .. n /\ recs[q][i].key = key[w] /\ \A j \in 1 .. n : recs[q][j].key = key[w] => j <= i
    <2>1. i # 0 /\ n \in Int /\ i = RFind(q, key[w], n)
        BY <1>1, <1>2, <1>4, <1>5 DEF FoundAt
    <2> QED BY <2>1, RFindFacts
<1> DEFINE o == recs[q][i]
           f == Max({o.ins, roots[q]})
           r == [o EXCEPT !.val = -o.val, !.del = 0]
<1>7. /\ wpc' = [wpc EXCEPT ![w] = IF IsDeleted(o) THEN "commitRevived" ELSE "unlatch"]
      /\ recs' = [recs EXCEPT ![q] = [recs[q] EXCEPT ![i] = r]]
      /\ book' = {e \in book : e.key = key[w] => e.ver < f} \cup {[ver |-> f, key |-> key[w], val |-> -o.val]}
    BY <1>2, <1>5 DEF Overwrite
<1>8. /\ UNCHANGED <<clock, wm, inflight, active, dead, owner, roots, op, key, at, ver, picked, rpc, query, snap,
                     rpage, left, seen, settled, expect>>
      /\ raced' = [x \in Readers |-> raced[x] \/ (rpc[x] # "idle" /\ x \notin known[w])]
      /\ known' = [known EXCEPT ![w] = {}]
    BY DEF Overwrite, clockVars, latchVars
<1>9. wpc \in [Writers -> WriterPCs] /\ recs \in [Pages -> Seq(RecordType)]
    BY DEF RoomInv, TypeInv
<1>10. OthersStay(w) /\ wpc'[w] \in {"commitRevived", "unlatch"}
    BY <1>7, <1>8, <1>9 DEF OthersStay
<1>11. o \in RecordType /\ recs[q] \in Seq(RecordType) /\ o.ins \in Nat /\ o.val \in Int /\ roots[q] \in Nat
    BY <1>3, <1>4, <1>6, RecordFields, Fields, RootPages
<1>12. f \in Nat /\ f \in {o.ins, roots[q]} /\ o.ins <= f /\ roots[q] <= f
    <2>1. PICK m \in Nat : o.ins <= m /\ roots[q] <= m
        BY <1>11
    <2>2. {o.ins, roots[q]} \in SUBSET (0 .. m) /\ {o.ins, roots[q]} # {}
        BY <1>11, <2>1
    <2> HIDE DEF o
    <2> QED BY <1>11, <2>2, MaxFacts
<1>13. /\ \A p \in Pages \ {q} : recs'[p] = recs[p]
       /\ recs'[q] = [recs[q] EXCEPT ![i] = r]
    BY <1>7, <1>9
<1> HIDE DEF f
<1>14. r.key = o.key /\ r.ins = o.ins /\ r.val = -o.val /\ r.del = 0
    <2> HIDE DEF o
    <2> QED BY <1>11 DEF RecordType
<1> HIDE DEF r
<1>15. /\ Len(recs'[q]) = n /\ recs'[q][i] = r /\ \A j \in 1 .. n : j # i => recs'[q][j] = recs[q][j]
    BY <1>3, <1>6, <1>11, <1>13
<1>16. Revives(w, q, n, i, f)
    BY <1>6, <1>7, <1>12, <1>14, <1>15 DEF Revives
<1> QED BY <1>1, <1>2, <1>3, <1>4, <1>5, <1>6, <1>8, <1>10, <1>12, <1>13, <1>16

(* Every record that was picked is among the clones.                        *)
LEMMA ClonedAll ==
    ASSUME TypeInv, NEW p \in Pages, NEW I \in SUBSET (1 .. Len(recs[p]))
    PROVE  {Cloned(p, I)[m] : m \in 1 .. Len(Cloned(p, I))} = {recs[p][i] : i \in I}
<1> DEFINE rank(i) == Cardinality({j \in I : j <= i})
<1>1. Len(recs[p]) \in Nat
    BY DEF TypeInv
<1>2. /\ IsFiniteSet(I) /\ Cardinality(I) \in Nat /\ Len(Cloned(p, I)) = Cardinality(I)
      /\ \A m \in 1 .. Cardinality(I) : \E i \in I : Cloned(p, I)[m] = recs[p][i]
    BY ClonedFacts
<1>3. \A i, k \in I : i < k => rank(i) < rank(k)
    BY <1>1, RankFacts
<1>4. ASSUME NEW i \in I PROVE \E m \in 1 .. Cardinality(I) : Cloned(p, I)[m] = recs[p][i]
    <2> DEFINE below == {j \in I : j <= i}
    <2>1. below \subseteq I /\ i \in below
        BY <1>1, <1>4
    <2>2. IsFiniteSet(below) /\ Cardinality(below) \in Nat /\ Cardinality(below) <= Cardinality(I)
        BY <1>2, <2>1, FS_Subset, FS_CardinalityType
    <2>3. Cardinality(below) # 0
        BY <2>1, <2>2, FS_EmptySet
    <2>4. rank(i) \in 1 .. Cardinality(I)
        BY <1>2, <2>2, <2>3
    <2>5. \A k \in I : rank(k) \in Nat
        <3> TAKE k \in I
        <3>1. {j \in I : j <= k} \subseteq I
            OBVIOUS
        <3> QED BY <1>2, <3>1, FS_Subset, FS_CardinalityType
    <2> DEFINE c == CHOOSE k \in I : rank(k) = rank(i)
    <2>6. Cloned(p, I)[rank(i)] = recs[p][c]
        BY <2>4 DEF Cloned
    <2>7. \A k \in I : k \in Int
        BY <1>1
    <2> HIDE DEF rank
    <2>8. \A k \in I : rank(k) = rank(i) => k = i
        <3> SUFFICES ASSUME NEW k \in I, rank(k) = rank(i), k # i PROVE FALSE
            OBVIOUS
        <3>1. k < i \/ i < k
            BY <1>4, <2>7
        <3> QED BY <1>3, <1>4, <2>5, <3>1
    <2>9. c \in I /\ rank(c) = rank(i)
        BY <1>4
    <2>10. c = i
        BY <2>8, <2>9
    <2> QED BY <2>4, <2>6, <2>10
<1> QED
    <2> DEFINE c == Cloned(p, I)
               N == Cardinality(I)
    <2>1. Len(c) = N /\ \A m \in 1 .. N : \E i \in I : c[m] = recs[p][i]
        BY <1>2
    <2>2. \A i \in I : \E m \in 1 .. N : c[m] = recs[p][i]
        BY <1>4
    <2> HIDE DEF c, N
    <2>3. {c[m] : m \in 1 .. N} = {recs[p][i] : i \in I}
        <3> DEFINE A == {c[m] : m \in 1 .. N}
                   B == {recs[p][i] : i \in I}
        <3>1. \A m \in 1 .. N : c[m] \in B
            BY <2>1
        <3>2. \A i \in I : recs[p][i] \in A
            BY <2>2
        <3>3. A \subseteq B
            <4> HIDE DEF B
            <4> QED BY <3>1
        <3>4. B \subseteq A
            <4> HIDE DEF A
            <4> QED BY <3>2
        <3> QED BY <3>3, <3>4
    <2> QED BY <2>1, <2>3 DEF c

LEMMA BulkPushFacts ==
    ASSUME RoomInv, NEW w \in Writers, BulkPush(w)
    PROVE  /\ wpc[w] = "copy" /\ wpc'[w] = "startSplit" /\ OthersStay(w)
           /\ NewPage \in Pages /\ at[w] \in Pages /\ at[w] = Len(roots) /\ at[w] # NewPage
           /\ UNCHANGED <<clock, wm, inflight, owner, roots, op, key, at, ver, known, book, readerState>>
           /\ \A p \in Pages \ {NewPage} : recs'[p] = recs[p] /\ Length(p)' = Length(p)
           /\ picked[w] \subseteq 1 .. Len(recs[at[w]])
           /\ {recs'[NewPage][i] : i \in 1 .. Len(recs'[NewPage])} = {recs[at[w]][i] : i \in picked[w]}
<1>1. TypeInv /\ WriterAt(w) /\ wpc[w] = "copy" /\ wpc' = [wpc EXCEPT ![w] = "startSplit"]
    BY DEF RoomInv, BulkPush, WGoto
<1>2. PICK n \in Pages : n = NewPage
    BY <1>1 DEF WriterAt, CopyPCs
<1>3. at[w] \in Pages /\ at[w] = Len(roots) /\ at[w] # n /\ picked[w] \subseteq 1 .. Len(recs[at[w]])
    <2>1. at[w] = Len(roots) /\ picked[w] \subseteq 1 .. Len(recs[at[w]])
        BY <1>1 DEF WriterAt, CopyPCs
    <2> QED BY <1>1, <1>2, <2>1 DEF TypeInv, NewPage
<1>4. UNCHANGED <<clock, wm, inflight, owner, roots, op, key, at, ver, known, book, readerState>>
    BY DEF BulkPush, clockVars, latchVars, readerVars, readerState
<1>5. /\ wpc \in [Writers -> WriterPCs] /\ recs \in [Pages -> Seq(RecordType)] /\ picked \in [Writers -> SUBSET Nat]
      /\ active \in [Pages -> Int] /\ dead \in [Pages -> Int]
    BY <1>1 DEF TypeInv
<1>6. /\ recs' = [recs EXCEPT ![n] = Cloned(at[w], picked[w])] /\ picked' = [picked EXCEPT ![w] = {}]
      /\ active' = [active EXCEPT ![n] = Cardinality(picked[w])] /\ dead' = [dead EXCEPT ![n] = 0]
    BY <1>2 DEF BulkPush
<1>7. OthersStay(w) /\ wpc'[w] = "startSplit"
    BY <1>1, <1>4, <1>5, <1>6 DEF OthersStay
<1>8. \A p \in Pages \ {n} : recs'[p] = recs[p] /\ active'[p] = active[p] /\ dead'[p] = dead[p]
    BY <1>5, <1>6
<1>9. recs'[n] = Cloned(at[w], picked[w])
    BY <1>5, <1>6
<1>10. {recs'[n][i] : i \in 1 .. Len(recs'[n])} = {recs[at[w]][i] : i \in picked[w]}
    <2>1. PICK q \in Pages : q = at[w]
        BY <1>3
    <2>2. PICK I \in SUBSET (1 .. Len(recs[q])) : I = picked[w]
        BY <1>3, <2>1
    <2>3. {Cloned(q, I)[m] : m \in 1 .. Len(Cloned(q, I))} = {recs[q][i] : i \in I}
        BY <1>1, ClonedAll
    <2>4. ASSUME NEW f, NEW g, f = g
          PROVE  {f[i] : i \in 1 .. Len(f)} = {g[i] : i \in 1 .. Len(g)}
        BY <2>4
    <2>5. recs'[n] = Cloned(q, I)
        BY <1>9, <2>1, <2>2
    <2>6. {recs'[n][i] : i \in 1 .. Len(recs'[n])} = {recs[q][i] : i \in I}
        BY <2>3, <2>4, <2>5
    <2> QED BY <2>1, <2>2, <2>6
<1> QED BY <1>1, <1>2, <1>3, <1>4, <1>7, <1>8, <1>10 DEF Length

LEMMA AppendFacts ==
    ASSUME RoomInv, NEW w \in Writers, AppendRoot(w)
    PROVE  /\ wpc[w] = "append" /\ wpc'[w] = "endSplit" /\ OthersStay(w)
           /\ NewPage \in Pages /\ at[w] \in Pages /\ at[w] = Len(roots) /\ at[w] # NewPage
           /\ UNCHANGED <<clock, wm, inflight, recs, active, dead, owner, op, key, ver, picked, known, book, readerState>>
           /\ Len(roots') = NewPage /\ roots'[NewPage] = ver[w] /\ \A p \in 1 .. Len(roots) : roots'[p] = roots[p]
<1>1. TypeInv /\ WriterAt(w) /\ wpc[w] = "append" /\ wpc' = [wpc EXCEPT ![w] = "endSplit"]
    BY DEF RoomInv, AppendRoot, WGoto
<1>2. NewPage \in Pages /\ at[w] = Len(roots) /\ Len(roots) \in Nat /\ Len(roots) \in Pages
    BY <1>1, RootPages DEF WriterAt, CopyPCs, TypeInv
<1>3. UNCHANGED <<clock, wm, inflight, recs, active, dead, owner, op, key, ver, picked, known, book, readerState>>
    BY DEF AppendRoot, clockVars, pageVars, readerVars, readerState
<1>4. /\ wpc \in [Writers -> WriterPCs] /\ roots \in Seq(Nat) /\ at \in [Writers -> Pages \cup {0}]
    BY <1>1 DEF TypeInv
<1>5. roots' = Append(roots, ver[w]) /\ at' = [at EXCEPT ![w] = NewPage]
    BY DEF AppendRoot
<1>6. OthersStay(w) /\ wpc'[w] = "endSplit"
    BY <1>1, <1>3, <1>4, <1>5 DEF OthersStay
<1>7. Len(roots') = NewPage /\ roots'[NewPage] = ver[w] /\ \A p \in 1 .. Len(roots) : roots'[p] = roots[p]
    BY <1>4, <1>5 DEF NewPage
<1> QED BY <1>1, <1>2, <1>3, <1>6, <1>7 DEF NewPage

(* A record written by a commit is never a deletion.                        *)
LEMMA WriteVersion ==
    ASSUME RoomInv, LifeInv, VersionInv, NEW w \in Writers, FoundAt(w), UNCHANGED setup,
           PushUncommitted(w) \/ Kill(w) \/ Overwrite(w)
    PROVE  VersionInv'
<1> DEFINE q == at[w]
           n == Len(recs[q])
<1>1. /\ q \in Pages /\ n \in Nat /\ wpc[w] \in LatchedPCs /\ OthersStay(w) /\ at' = at
      /\ \A p \in Pages \ {q} : recs'[p] = recs[p]
    <2>1. CASE PushUncommitted(w)
        BY <2>1, PushFacts DEF LatchedPCs
    <2>2. CASE Kill(w)
        BY <2>2, KillFacts DEF LatchedPCs
    <2>3. CASE Overwrite(w)
        BY <2>3, OverwriteFacts DEF LatchedPCs
    <2> QED BY <2>1, <2>2, <2>3
<1>2. /\ UNCHANGED <<clock, wm, inflight, ver, roots>> /\ (wpc'[w] \in CommittingPCs => wpc[w] \in CommittingPCs)
      /\ WrittenAt(w)' /\ \A i \in 1 .. Len(recs'[q]) : recs'[q][i].val # Gone
    <2>0. \A i \in 1 .. n : recs[q][i].val # 0 /\ recs[q][i].val \in Int
        BY <1>1, Fields DEF VersionInv, Gone
    <2>1. CASE PushUncommitted(w)
        <3>1. /\ ver[w] >= 1 /\ ver[w] \in Nat /\ wpc'[w] = "commitLen" /\ wpc[w] = "push"
              /\ UNCHANGED <<clock, wm, inflight, key, at, ver, roots>>
              /\ Len(recs'[q]) = n + 1 /\ recs'[q][n + 1] = Record(key[w], ver[w])
              /\ \A i \in 1 .. n : recs'[q][i] = recs[q][i]
            BY <2>1, PushFacts
        <3>2. Record(key[w], ver[w]).val # 0
            BY <3>1 DEF Record
        <3>3. WrittenAt(w)'
            BY <1>1, <3>1 DEF WrittenAt, Record
        <3>4. \A i \in 1 .. n + 1 : recs'[q][i].val # 0
            <4> TAKE i \in 1 .. n + 1
            <4>1. i \in 1 .. n \/ i = n + 1
                BY <1>1
            <4> QED BY <2>0, <3>1, <3>2, <4>1
        <3> QED BY <3>1, <3>3, <3>4 DEF CommittingPCs, Gone
    <2>2. CASE Kill(w)
        <3>1. /\ wpc'[w] = "commitDead" /\ wpc[w] = "kill" /\ UNCHANGED <<clock, wm, inflight, key, at, ver, roots>>
              /\ \E i \in 1 .. n : Ends(w, q, n, i)
            BY <2>2, KillFacts
        <3>2. PICK i \in 1 .. n : Ends(w, q, n, i)
            BY <3>1
        <3>3. Len(recs'[q]) = n /\ \A j \in 1 .. n : recs'[q][j].val = recs[q][j].val
            BY <3>2 DEF Ends
        <3>4. WrittenAt(w)'
            BY <3>1 DEF WrittenAt
        <3> QED BY <2>0, <3>1, <3>3, <3>4 DEF CommittingPCs, Gone
    <2>3. CASE Overwrite(w)
        <3>1. /\ wpc'[w] \in {"commitRevived", "unlatch"} /\ UNCHANGED <<clock, wm, inflight, ver, roots>>
              /\ \E i \in 1 .. n : \E f \in Nat : Revives(w, q, n, i, f)
            BY <2>3, OverwriteFacts
        <3>2. PICK i \in 1 .. n, f \in Nat : Revives(w, q, n, i, f)
            BY <3>1
        <3>3. Len(recs'[q]) = n /\ \A j \in 1 .. n : recs'[q][j].val \in {recs[q][j].val, -recs[q][j].val}
            BY <3>2 DEF Revives
        <3>4. WrittenAt(w)'
            BY <3>1 DEF WrittenAt
        <3>5. \A j \in 1 .. n : recs'[q][j].val # 0
            BY <2>0, <3>3
        <3> QED BY <3>1, <3>3, <3>4, <3>5 DEF CommittingPCs, Gone
    <2> QED BY <2>1, <2>2, <2>3
<1>3. \A u \in Writers \ {w} : wpc[u] \in {"commitLen", "kill"} => recs'[at[u]] = recs[at[u]]
    <2> SUFFICES ASSUME NEW u \in Writers \ {w}, wpc[u] \in {"commitLen", "kill"} PROVE recs'[at[u]] = recs[at[u]]
        OBVIOUS
    <2>1. wpc[u] \in LatchedPCs
        BY DEF LatchedPCs
    <2>2. at[u] \in Pages /\ at[u] # q
        BY <1>1, <2>1, InPage, OthersOutside
    <2> QED BY <1>1, <2>2
<1>4. \A p \in Pages : \A i \in 1 .. Len(recs'[p]) : recs'[p][i].val # Gone
    BY <1>1, <1>2 DEF VersionInv
<1> QED BY <1>1, <1>2, <1>3, <1>4, VersionKept

LEMMA BulkPushVersion ==
    ASSUME RoomInv, VersionInv, NEW w \in Writers, BulkPush(w)
    PROVE  VersionInv'
<1>1. /\ wpc'[w] = "startSplit" /\ OthersStay(w) /\ NewPage \in Pages /\ at[w] \in Pages
      /\ UNCHANGED <<clock, wm, inflight, roots, ver>>
      /\ \A p \in Pages \ {NewPage} : recs'[p] = recs[p]
      /\ picked[w] \subseteq 1 .. Len(recs[at[w]])
      /\ {recs'[NewPage][i] : i \in 1 .. Len(recs'[NewPage])} = {recs[at[w]][i] : i \in picked[w]}
    BY BulkPushFacts
<1>2. WrittenAt(w)'
    BY <1>1 DEF WrittenAt
<1>3. \A u \in Writers \ {w} : wpc[u] \in {"commitLen", "kill"} => recs'[at[u]] = recs[at[u]]
    <2> SUFFICES ASSUME NEW u \in Writers \ {w}, wpc[u] \in {"commitLen", "kill"} PROVE recs'[at[u]] = recs[at[u]]
        OBVIOUS
    <2>1. at[u] \in Pages /\ at[u] # NewPage
        BY AtPage, RootPages DEF NewPage
    <2> QED BY <1>1, <2>1
<1>4. \A i \in 1 .. Len(recs'[NewPage]) : \E j \in picked[w] : recs'[NewPage][i] = recs[at[w]][j]
    BY <1>1
<1>5. \A p \in Pages : \A i \in 1 .. Len(recs'[p]) : recs'[p][i].val # Gone
    BY <1>1, <1>4 DEF VersionInv
<1> QED BY <1>1, <1>2, <1>3, <1>5, VersionKept DEF CommittingPCs

LEMMA AppendVersion ==
    ASSUME RoomInv, VersionInv, NEW w \in Writers, AppendRoot(w)
    PROVE  VersionInv'
<1>1. /\ wpc[w] = "append" /\ wpc'[w] = "endSplit" /\ OthersStay(w)
      /\ UNCHANGED <<clock, wm, inflight, recs, ver>>
      /\ Len(roots') = NewPage /\ roots'[NewPage] = ver[w] /\ \A p \in 1 .. Len(roots) : roots'[p] = roots[p]
    BY AppendFacts
<1>2. \A u \in Writers : wpc'[u] \in CommittingPCs => wpc[u] \in CommittingPCs
    BY <1>1 DEF OthersStay, CommittingPCs
<1>3. \A u \in Writers \ {w} : WrittenAt(u)'
    BY <1>1, WrittenStays DEF VersionInv, OthersStay
<1>4. WrittenAt(w)'
    BY <1>1 DEF WrittenAt
<1>5. \A u \in Writers : WrittenAt(u)'
    BY <1>3, <1>4
<1>6. roots'[1] = 1 /\ \A p \in 1 .. Len(roots') : roots'[p] < clock'
    <2>1. ver[w] < clock
        BY <1>1 DEF VersionInv, CommittingPCs
    <2>2. \A p \in 1 .. Len(roots') : p \in 1 .. Len(roots) \/ p = NewPage
        BY <1>1, RootPages DEF NewPage
    <2>3. 1 \in 1 .. Len(roots)
        BY RootPages
    <2> QED BY <1>1, <2>1, <2>2, <2>3 DEF VersionInv
<1>7. \A u \in Writers : wpc'[u] \in CommittingPCs => ver'[u] \in inflight'
    BY <1>1, <1>2 DEF VersionInv
<1>8. \A u, v \in Writers : wpc'[u] \in CommittingPCs /\ wpc'[v] \in CommittingPCs /\ ver'[u] = ver'[v] => u = v
    BY <1>1, <1>2 DEF VersionInv
<1>9. /\ wm' \in Nat /\ wm' >= 1 /\ inflight' \subseteq Nat /\ \A v \in inflight' : v < clock'
      /\ \A p \in Pages : \A i \in 1 .. Len(recs'[p]) : recs'[p][i].val # Gone
    BY <1>1 DEF VersionInv
<1> QED BY <1>5, <1>6, <1>7, <1>8, <1>9 DEF VersionInv

(* Readers and the watermark leave writers, pages and history alone.        *)
LEMMA AsideFacts ==
    ASSUME UNCHANGED setup, VersionInv, (\E r \in Readers : Reader(r)) \/ AdvanceWatermark
    PROVE  UNCHANGED <<core, inflight, book>> /\ wm' \in Nat /\ wm' >= 1
<1>1. UNCHANGED core
    BY ReadersAside
<1>2. CASE AdvanceWatermark
    <2>1. PICK v \in wm + 1 .. clock : Clock!Advance(v)
        BY <1>2 DEF AdvanceWatermark
    <2>2. wm \in Nat /\ wm >= 1
        BY DEF VersionInv
    <2>3. v \in Nat /\ v >= 1
        BY <2>1, <2>2
    <2> QED BY <1>1, <1>2, <2>1, <2>3 DEF AdvanceWatermark, Clock!Advance
<1>3. ASSUME NEW r \in Readers, Reader(r) PROVE UNCHANGED <<wm, inflight, book>>
    <2> USE DEF clockVars
    <2>1. CASE PinReader(r) \/ DrawSnapshot(r) \/ AskForVersion(r)
        BY <2>1 DEF PinReader, DrawSnapshot, AskForVersion
    <2>2. CASE Register(r) \/ RootFor(r) \/ AsRecords(r)
        BY <2>2 DEF Register, RootFor, AsRecords
    <2>3. CASE FilterRecord(r) \/ FindRecord(r)
        BY <2>3 DEF FilterRecord, FindRecord
    <2>4. CASE Answer(r) \/ Close(r)
        BY <2>4 DEF Answer, Close
    <2> QED BY <1>3, <2>1, <2>2, <2>3, <2>4 DEF Reader
<1> QED BY <1>1, <1>2, <1>3 DEF VersionInv

LEMMA AsideVersion ==
    ASSUME UNCHANGED <<core, inflight, book>>, VersionInv, wm' \in Nat, wm' >= 1
    PROVE  VersionInv'
<1>1. \A w \in Writers : WrittenAt(w)'
    BY WrittenStays DEF VersionInv, core
<1> QED BY <1>1 DEF VersionInv, core

(* The versions of the key that is in the tree from the start.              *)
Preloaded(k, n, ended) ==
    /\ n \in Nat /\ n >= 1 /\ ended \in Nat /\ ended \in {n - 1, n} /\ clock = ended + 2 /\ wm = ended + 1
    /\ Len(recs[1]) = n
    /\ \A i \in 1 .. n : /\ recs[1][i].key = k /\ recs[1][i].ins = i /\ recs[1][i].val = i
                         /\ recs[1][i].del = IF i <= ended THEN i + 1 ELSE 0
    /\ \A p \in Pages \ {1} : Len(recs[p]) = 0
    /\ book = {[ver |-> v, key |-> k, val |-> IF v <= n THEN v ELSE Gone] : v \in 1 .. ended + 1}

LEMMA InitFacts == ASSUME Init PROVE \E k \in Keys, n, ended \in Nat : Preloaded(k, n, ended)
<1> DEFINE n == setup.preload
           ended == IF setup.gone THEN n ELSE n - 1
<1>1. setup \in Setup
    BY RootLeafAssumption DEF Init
<1>2. n \in Nat /\ n >= 1 /\ ended \in Nat /\ ended \in {n - 1, n} /\ clock = ended + 2 /\ wm = ended + 1
    <2>1. setup.preload \in 1 .. NumRecords - 1
        BY <1>1 DEF Setup
    <2> QED BY <2>1, Bounds DEF Init
<1> HIDE DEF ended, n
<1>3. PICK k \in Keys :
         /\ recs = [p \in Pages |-> IF p # 1 THEN << >> ELSE
                      [i \in 1 .. n |-> [Record(k, i) EXCEPT !.del = IF i <= ended THEN i + 1 ELSE 0]]]
         /\ book = {[ver |-> v, key |-> k, val |-> IF v <= n THEN v ELSE Gone] : v \in 1 .. ended + 1}
    BY DEF Init, n, ended
<1> DEFINE first == [i \in 1 .. n |-> [Record(k, i) EXCEPT !.del = IF i <= ended THEN i + 1 ELSE 0]]
<1>4. \A i \in 1 .. n : /\ first[i].key = k /\ first[i].ins = i /\ first[i].val = i
                        /\ first[i].del = IF i <= ended THEN i + 1 ELSE 0
    BY <1>2 DEF Record
<1>5. 1 \in Pages /\ recs[1] = first /\ Len(first) = n /\ \A p \in Pages \ {1} : Len(recs[p]) = 0
    <2>1. ASSUME NEW f, f = [i \in 1 .. n |-> f[i]]
          PROVE  Len(f) = n
        BY <1>2, <2>1
    <2>2. first = [i \in 1 .. n |-> first[i]]
        OBVIOUS
    <2>3. 1 \in Pages /\ recs[1] = first /\ \A p \in Pages \ {1} : recs[p] = << >>
        BY <1>3, Bounds DEF Pages
    <2> HIDE DEF first
    <2>4. Len(first) = n
        BY <2>1, <2>2
    <2>5. Len(<< >>) = 0
        OBVIOUS
    <2> QED BY <2>3, <2>4, <2>5
<1> HIDE DEF first
<1>6. Preloaded(k, n, ended)
    BY <1>2, <1>3, <1>4, <1>5 DEF Preloaded
<1> QED BY <1>2, <1>6

LEMMA InitVersion == ASSUME Init PROVE VersionInv
<1>1. PICK k \in Keys, n \in Nat, ended \in Nat : Preloaded(k, n, ended)
    BY InitFacts
<1>2. \A p \in Pages : \A i \in 1 .. Len(recs[p]) : recs[p][i].val # Gone
    <2> SUFFICES ASSUME NEW p \in Pages, NEW i \in 1 .. Len(recs[p]) PROVE recs[p][i].val # Gone
        OBVIOUS
    <2>1. p = 1 /\ i \in 1 .. n
        BY <1>1 DEF Preloaded
    <2> QED BY <1>1, <2>1 DEF Preloaded, Gone
<1>3. clock \in Nat /\ clock >= 2 /\ wm \in Nat /\ wm >= 1
    BY <1>1 DEF Preloaded
<1>4. roots = <<1>> /\ inflight = {} /\ \A w \in Writers : wpc[w] = "idle"
    BY DEF Init
<1>5. Len(roots) = 1 /\ roots[1] = 1
    BY <1>4
<1> QED BY <1>2, <1>3, <1>4, <1>5 DEF VersionInv, WrittenAt, CommittingPCs

---------------------------------------------------------------------------
(* The history.                                                             *)

Entries == [ver : Nat, key : Keys, val : Int]

(* Key k is set to x from version v on, and nothing else of it is as new.   *)
LEMMA HistoryChange ==
    ASSUME book \subseteq Entries, NEW v \in Nat, NEW k \in Keys, NEW x \in Int,
           book' = {e \in book : e.key = k => e.ver < v} \cup {[ver |-> v, key |-> k, val |-> x]},
           NEW j \in Keys, NEW s \in Nat
    PROVE  /\ j # k \/ s < v => Values(j, s)' = Values(j, s)
           /\ j = k /\ v <= s => Values(j, s)' = IF x = Gone THEN {} ELSE {x}
<1> DEFINE new == [ver |-> v, key |-> k, val |-> x]
<1>1. new.ver = v /\ new.key = k /\ new.val = x
    OBVIOUS
<1> HIDE DEF new
<1>2. \A e \in book : e.ver \in Nat
    BY DEF Entries
<1>3. /\ \A e \in book' : e \in book \/ e = new
      /\ \A e \in book' : e # new => e \in book /\ (e.key = k => e.ver < v)
      /\ \A e \in book : (e.key = k => e.ver < v) => e \in book'
      /\ new \in book'
    BY DEF new
<1>4. ASSUME j # k \/ s < v PROVE Values(j, s)' = Values(j, s)
    <2>1. \A e \in book' : e.key = j /\ e.ver <= s => e \in book
        BY <1>1, <1>3, <1>4
    <2>2. \A e \in book : e.key = j /\ e.ver <= s => e \in book'
        BY <1>2, <1>3, <1>4
    <2>3. Latest(j, s)' \subseteq Latest(j, s)
        BY <2>1, <2>2 DEF Latest
    <2>4. Latest(j, s) \subseteq Latest(j, s)'
        BY <2>1, <2>2 DEF Latest
    <2>5. Latest(j, s)' = Latest(j, s)
        BY <2>3, <2>4
    <2> QED BY <2>5 DEF Values
<1>5. ASSUME j = k, v <= s PROVE Values(j, s)' = IF x = Gone THEN {} ELSE {x}
    <2>1. new \in Latest(j, s)'
        <3>1. \A f \in book' : f.key = j => f.ver <= v
            BY <1>1, <1>2, <1>3, <1>5
        <3> QED BY <1>1, <1>3, <1>5, <3>1 DEF Latest
    <2>2. \A e \in Latest(j, s)' : e = new
        <3> SUFFICES ASSUME NEW e \in Latest(j, s)', e # new PROVE FALSE
            OBVIOUS
        <3>1. e \in book' /\ e.key = k /\ v <= e.ver
            BY <1>1, <1>3, <1>5 DEF Latest
        <3>2. e \in book /\ e.ver < v
            BY <1>3, <3>1
        <3> QED BY <1>2, <3>1, <3>2
    <2>3. Latest(j, s)' = {new}
        BY <2>1, <2>2
    <2>4. Values(j, s)' = {e.val : e \in {f \in {new} : f.val # Gone}}
        BY <2>3 DEF Values
    <2>5. CASE x = Gone
        <3>1. {f \in {new} : f.val # Gone} = {}
            BY <1>1, <2>5
        <3> QED BY <2>4, <2>5, <3>1
    <2>6. CASE x # Gone
        <3>1. {f \in {new} : f.val # Gone} = {new}
            BY <1>1, <2>6
        <3>2. {e.val : e \in {new}} = {new.val}
            OBVIOUS
        <3> QED BY <1>1, <2>4, <2>6, <3>1, <3>2
    <2> QED BY <2>5, <2>6
<1> QED BY <1>4, <1>5

(* Note, at a version newer than the history.                               *)
LEMMA NoteChange ==
    ASSUME book \subseteq Entries, NEW v \in Nat, NEW k \in Keys, NEW x \in Int, \A e \in book : e.ver < v,
           Note(v, k, x), NEW j \in Keys, NEW s \in Nat
    PROVE  /\ j # k \/ s < v => Values(j, s)' = Values(j, s)
           /\ j = k /\ v <= s => Values(j, s)' = IF x = Gone THEN {} ELSE {x}
<1>1. book = {e \in book : e.key = k => e.ver < v}
    OBVIOUS
<1>2. book' = {e \in book : e.key = k => e.ver < v} \cup {[ver |-> v, key |-> k, val |-> x]}
    BY <1>1 DEF Note
<1> QED BY <1>2, HistoryChange

LEMMA SameHistory ==
    ASSUME book' = book, NEW j \in Keys, NEW s \in Nat
    PROVE  Values(j, s)' = Values(j, s)
BY DEF Values, Latest

---------------------------------------------------------------------------
(* What a step of one writer leaves of pages and history.                   *)

LEMMA PendingStays ==
    ASSUME NEW w \in Writers, NEW p \in Pages, owner[p] \in Writers \cup {None}, owner[p] # w, OthersStay(w),
           owner[p] # None => owner'[p] = owner[p], recs'[p] = recs[p], Length(p)' = Length(p),
           NEW k \in Keys, NEW s \in Nat, Pending(p, k, s)
    PROVE  Pending(p, k, s)'
<1>1. owner[p] \in Writers \ {w} /\ owner[p] # None /\ Unwritten(p, owner[p]) /\ key[owner[p]] = k /\ ver[owner[p]] <= s
    BY DEF Pending
<1>2. PICK u \in Writers \ {w} : u = owner[p]
    BY <1>1
<1>3. /\ owner'[p] = u /\ wpc'[u] = wpc[u] /\ op'[u] = op[u] /\ key'[u] = key[u] /\ ver'[u] = ver[u]
    BY <1>1, <1>2 DEF OthersStay
<1>4. LiveIn(p, k)' = LiveIn(p, k)
    BY DEF LiveIn, RFind
<1>5. Unwritten(p, u)'
    BY <1>1, <1>2, <1>3, <1>4 DEF Unwritten
<1> QED BY <1>1, <1>2, <1>3, <1>5 DEF Pending

(* A page that is not written to.                                           *)
LEMMA ExactStays ==
    ASSUME NEW p \in Pages, PageExact(p), recs'[p] = recs[p],
           \A s \in Nat : Serves(p, s)' => Serves(p, s),
           \A k \in Keys, s \in Nat : Serves(p, s) /\ ~Pending(p, k, s)' => Values(k, s)' = Values(k, s),
           \A k \in Keys, s \in Nat : Pending(p, k, s) => Pending(p, k, s)'
    PROVE  PageExact(p)'
<1> SUFFICES ASSUME NEW k \in Keys, NEW s \in Nat, Serves(p, s)', ~Pending(p, k, s)'
             PROVE  Found(p, k, s)' = Values(k, s)'
    BY DEF PageExact
<1>1. Found(p, k, s) = Values(k, s)
    BY DEF PageExact
<1>2. Found(p, k, s)' = Found(p, k, s)
    BY DEF Found, Hits, Matches, IsDeleted
<1> QED BY <1>1, <1>2

(* The others have nothing to note, or their page and the history stay.     *)
LEMMA OthersNoted ==
    ASSUME RoomInv, NEW w \in Writers, NEW u \in Writers \ {w}, OthersStay(w), NotedAt(u),
           \A p \in Pages : wpc[u] \in LatchedPCs /\ p = at[u] => recs'[p] = recs[p] /\ Length(p)' = Length(p),
           Unwritten(at[u], u) => book' = book
    PROVE  NotedAt(u)'
<1>1. /\ wpc'[u] = wpc[u] /\ op'[u] = op[u] /\ key'[u] = key[u] /\ ver'[u] = ver[u] /\ at'[u] = at[u]
    BY DEF OthersStay
<1>2. CASE wpc[u] \notin {"push", "commitLen", "kill"}
    BY <1>1, <1>2 DEF NotedAt
<1>3. CASE wpc[u] \in {"push", "commitLen", "kill"}
    <2>1. wpc[u] \in LatchedPCs
        BY <1>3 DEF LatchedPCs
    <2>2. PICK p \in Pages, k \in Keys, v \in Nat : p = at[u] /\ k = key[u] /\ v = ver[u]
        BY <2>1, InPage
    <2>3. recs'[p] = recs[p] /\ Length(p)' = Length(p)
        BY <2>1, <2>2
    <2>4. LiveIn(p, k)' = LiveIn(p, k)
        BY <2>3 DEF LiveIn, RFind
    <2>5. Unwritten(at[u], u)' => Unwritten(at[u], u)
        BY <1>1, <2>2, <2>4 DEF Unwritten
    <2>6. Unwritten(at[u], u) => \A s \in Nat : Values(k, s)' = Values(k, s)
        BY SameHistory
    <2>7. Unwritten(at[u], u) => \A s \in Nat : v <= s => Values(k, s) = IF op[u] = "delete" THEN {} ELSE {v}
        BY <1>3, <2>2 DEF NotedAt
    <2>8. Unwritten(at[u], u)' => \A s \in Nat : v <= s => Values(k, s)' = IF op[u] = "delete" THEN {} ELSE {v}
        BY <2>5, <2>6, <2>7
    <2>9. k = key'[u] /\ v = ver'[u] /\ op'[u] = op[u]
        BY <1>1, <2>2
    <2> QED BY <2>8, <2>9 DEF NotedAt
<1> QED BY <1>2, <1>3

(* Nobody takes a step beside an update.                                    *)
LEMMA UpdaterMoves ==
    ASSUME LifeInv, LifeInv', NEW w \in Writers, NEW u \in Writers \ {w}, OthersStay(w),
           wpc[w] # "idle" \/ wpc'[w] # "idle", wpc[u] # "idle"
    PROVE  op[u] # "update"
<1> SUFFICES ASSUME op[u] = "update" PROVE FALSE
    OBVIOUS
<1>1. wpc'[u] # "idle" /\ op'[u] = "update"
    BY DEF OthersStay
<1>2. CASE wpc[w] # "idle"
    BY <1>2, UpdatesAlone
<1>3. CASE wpc'[w] # "idle"
    BY <1>1, <1>3 DEF LifeInv, Alone, CommitAt
<1> QED BY <1>2, <1>3

(* A page that is being copied is left alone.                               *)
LEMMA OthersCopy ==
    ASSUME RoomInv, NEW w \in Writers, NEW u \in Writers \ {w}, OthersStay(w), CopyAt(u),
           wpc[u] \in CopyPCs => recs' = recs /\ roots' = roots /\ \A p \in Pages : Length(p)' = Length(p)
    PROVE  CopyAt(u)'
<1>1. /\ wpc'[u] = wpc[u] /\ at'[u] = at[u] /\ ver'[u] = ver[u] /\ picked'[u] = picked[u]
    BY DEF OthersStay
<1>2. CASE wpc[u] \notin {"copy", "startSplit", "append"}
    BY <1>1, <1>2 DEF CopyAt
<1>3. CASE wpc[u] \in {"copy", "startSplit", "append"}
    <2>1. wpc[u] \in CopyPCs /\ recs' = recs /\ roots' = roots
        BY <1>3 DEF CopyPCs
    <2>2. PICK p \in Pages : p = at[u]
        BY <1>3, AtPage
    <2>3. Live(p)' = Live(p)
        BY <2>1 DEF Live
    <2>4. NewPage' = NewPage
        BY <2>1 DEF NewPage
    <2>5. p = at'[u]
        BY <1>1, <2>2
    <2> DEFINE M == {recs[NewPage][i] : i \in 1 .. Len(recs[NewPage])}
               L == {recs[p][i] : i \in Live(p)}
    <2>6. M' = M /\ L' = L
        BY <2>1, <2>3, <2>4
    <2>7. /\ wpc[u] = "copy" => picked[u] = Live(p)
          /\ wpc[u] \in {"startSplit", "append"} => M = L
          /\ wpc[u] = "append" => roots[p] < ver[u] /\ \A i \in 1 .. Len(recs[p]) :
                                     recs[p][i].ins < ver[u] /\ recs[p][i].del < ver[u]
        BY <2>2 DEF CopyAt
    <2>8. /\ wpc'[u] = "copy" => picked'[u] = Live(p)'
          /\ wpc'[u] \in {"startSplit", "append"} => M' = L'
        BY <1>1, <2>3, <2>6, <2>7
    <2>9. wpc'[u] = "append" => roots'[p] < ver'[u] /\ \A i \in 1 .. Len(recs'[p]) :
                                     recs'[p][i].ins < ver'[u] /\ recs'[p][i].del < ver'[u]
        BY <1>1, <2>1, <2>7
    <2> QED BY <2>5, <2>8, <2>9 DEF CopyAt
<1> QED BY <1>2, <1>3

LEMMA OthersBook ==
    ASSUME RoomInv, LifeInv, LifeInv', BookInv, NEW w \in Writers, OthersStay(w), wpc[w] # "idle" \/ wpc'[w] # "idle",
           \A u \in Writers \ {w}, p \in Pages : wpc[u] \in LatchedPCs /\ p = at[u] =>
               recs'[p] = recs[p] /\ Length(p)' = Length(p),
           \A u \in Writers \ {w} : Unwritten(at[u], u) => book' = book,
           \A u \in Writers \ {w} : wpc[u] \in CopyPCs =>
               recs' = recs /\ roots' = roots /\ \A p \in Pages : Length(p)' = Length(p),
           NotedAt(w)', CopyAt(w)', FoundAt(w)',
           book' \subseteq Entries, \A e \in book' : e.ver < clock',
           \A p \in 1 .. Len(roots') : PageExact(p)'
    PROVE  BookInv'
<1>1. \A u \in Writers \ {w} : NotedAt(u)'
    BY OthersNoted DEF BookInv
<1>2. \A u \in Writers \ {w} : CopyAt(u)'
    BY OthersCopy DEF BookInv
<1>3. \A u \in Writers \ {w} : FoundAt(u)'
    <2> SUFFICES ASSUME NEW u \in Writers \ {w}, wpc'[u] = "overwrite" PROVE FALSE
        BY DEF FoundAt
    <2>1. wpc[u] = "overwrite" /\ op[u] = "update"
        BY DEF OthersStay, LifeInv, CommitAt
    <2> QED BY <2>1, UpdaterMoves
<1>4. \A u \in Writers : NotedAt(u)' /\ CopyAt(u)' /\ FoundAt(u)'
    BY <1>1, <1>2, <1>3
<1> QED BY <1>4 DEF BookInv, Entries

(* Nobody else writes to the page of a writer that has latched it.          *)
LEMMA QuietBook ==
    ASSUME RoomInv, LifeInv, LifeInv', VersionInv, BookInv, NEW w \in Writers, UNCHANGED setup, QuietStep(w)
    PROVE  BookInv'
<1>1. UNCHANGED <<clock, wm, inflight, ver, recs, roots, book, readerState>>
    BY QuietUnchanged
<1>2. /\ OthersStay(w) /\ (wpc[w] # "idle" \/ wpc'[w] # "idle")
      /\ wpc[w] \notin {"push", "kill", "overwrite", "copy", "startSplit", "append"}
    BY QuietMoves
<1>3. /\ \A p \in Pages : owner[p] \notin {w, None} => owner'[p] = owner[p]
      /\ \A p \in Pages : owner[p] # w => Length(p)' = Length(p)
      /\ wpc[w] \notin {"commitLen", "commitRevived"} => \A p \in Pages : Length(p)' = Length(p)
    BY QuietPages
<1>4. ASSUME wpc[w] = "commitLen" PROVE CommitLen(w)
    BY <1>4 DEF QuietStep, Dispatch, BorrowMaster, LoadRoot, BorrowLeaf, UnsafeDegreeRoot, UpgradeMaster, UpgradeLeaf,
                Collect, UnlatchMaster, Reject, StartUpdate, PeekMax, CommitRevived, CommitDead, Unlatch, WGoto
<1>5. wpc[w] = "commitLen" => /\ key' = key /\ op' = op /\ at' = at /\ owner' = owner
                              /\ wpc'[w] = IF op[w] = "update" THEN "kill" ELSE "end"
    <2>1. wpc \in [Writers -> WriterPCs]
        BY DEF RoomInv, TypeInv
    <2> QED BY <1>4, <2>1 DEF CommitLen, Doing, latchVars
<1>6. \A k \in Keys, s \in Nat : Values(k, s)' = Values(k, s)
    BY <1>1, SameHistory
<1>7. \A p \in 1 .. Len(roots') : PageExact(p)'
    <2> SUFFICES ASSUME NEW p \in 1 .. Len(roots) PROVE PageExact(p)'
        BY <1>1
    <2>1. p \in Pages /\ PageExact(p) /\ owner[p] \in Writers \cup {None}
        BY RootPages DEF BookInv, RoomInv, TypeInv
    <2>2. \A k \in Keys, s \in Nat : Pending(p, k, s) => Pending(p, k, s)'
        <3> SUFFICES ASSUME NEW k \in Keys, NEW s \in Nat, Pending(p, k, s) PROVE Pending(p, k, s)'
            OBVIOUS
        <3>1. CASE owner[p] # w
            <4>1. owner[p] # None => owner'[p] = owner[p]
                BY <1>3, <2>1, <3>1
            <4>2. recs'[p] = recs[p] /\ Length(p)' = Length(p)
                BY <1>1, <1>3, <2>1, <3>1
            <4> QED BY <1>2, <2>1, <3>1, <4>1, <4>2, PendingStays
        <3>2. CASE owner[p] = w
            <4>1. wpc[w] = "commitLen" /\ op[w] = "update" /\ key[w] = k /\ ver[w] <= s /\ owner[p] # None
                BY <1>2, <3>2 DEF Pending, Unwritten
            <4> QED BY <1>1, <1>5, <3>2, <4>1 DEF Pending, Unwritten
        <3> QED BY <3>1, <3>2
    <2>3. \A s \in Nat : Serves(p, s)' => Serves(p, s)
        BY <1>1 DEF Serves
    <2>4. recs'[p] = recs[p]
        BY <1>1
    <2> QED BY <1>6, <2>1, <2>2, <2>3, <2>4, ExactStays
<1>8. NotedAt(w)'
    <2>1. CASE wpc'[w] \notin {"push", "commitLen", "kill"}
        BY <2>1 DEF NotedAt
    <2>2. CASE wpc'[w] \in {"push", "commitLen", "kill"}
        <3>1. wpc[w] = "commitLen" /\ wpc'[w] = "kill" /\ op[w] = "update"
            BY <2>2, QuietMoves DEF CommittingPCs
        <3>2. PICK k \in Keys, v \in Nat : k = key[w] /\ v = ver[w]
            BY <3>1, InPage DEF LatchedPCs
        <3>3. k = key'[w] /\ v = ver'[w] /\ op'[w] = "update" /\ op[w] # "delete"
            BY <1>1, <1>5, <3>1, <3>2
        <3>4. \A s \in Nat : v <= s => Values(k, s) = {v}
            BY <3>1, <3>2 DEF BookInv, NotedAt, Unwritten
        <3>5. \A s \in Nat : v <= s => Values(k, s)' = {v}
            BY <1>6, <3>4
        <3> QED BY <3>3, <3>5 DEF NotedAt
    <2> QED BY <2>1, <2>2
<1>9. CopyAt(w)'
    <2>1. CASE wpc'[w] \notin {"copy", "startSplit", "append"}
        BY <2>1 DEF CopyAt
    <2>2. CASE wpc'[w] \in {"copy", "startSplit", "append"}
        <3>1. Collect(w) /\ wpc[w] = "collect" /\ wpc'[w] = "copy"
            BY <2>2, QuietMoves DEF CommittingPCs
        <3>2. PICK p \in Pages : p = at[w]
            BY <3>1, AtPage
        <3>3. picked \in [Writers -> SUBSET Nat]
            BY DEF RoomInv, TypeInv
        <3>4. picked'[w] = {i \in 1 .. Length(p) : ~IsDeleted(recs[p][i])} /\ at' = at /\ UNCHANGED <<recs, active, dead>>
            BY <3>1, <3>2, <3>3 DEF Collect, pageVars
        <3>5. p = at'[w] /\ picked'[w] = Live(p)'
            BY <3>2, <3>4 DEF Live, Length
        <3> QED BY <3>1, <3>5 DEF CopyAt
    <2> QED BY <2>1, <2>2
<1>10. FoundAt(w)'
    <2> SUFFICES ASSUME wpc'[w] = "overwrite" PROVE (RFind(at[w], key[w], Length(at[w])) # 0)'
        BY DEF FoundAt
    <2>1. PeekMax(w) /\ wpc[w] = "peekMax"
        BY QuietMoves DEF CommittingPCs
    <2>2. UNCHANGED <<recs, active, dead, at, key>>
        BY <2>1 DEF PeekMax, pageVars
    <2>3. wpc \in [Writers -> WriterPCs]
        BY DEF RoomInv, TypeInv
    <2>4. RFind(at[w], key[w], Length(at[w])) # 0
        BY <2>1, <2>3 DEF PeekMax
    <2> QED BY <2>2, <2>4 DEF RFind, Length
<1>11. \A u \in Writers \ {w}, p \in Pages : wpc[u] \in LatchedPCs /\ p = at[u] =>
               recs'[p] = recs[p] /\ Length(p)' = Length(p)
    BY <1>1, <1>3, InPage
<1>12. \A u \in Writers \ {w} : wpc[u] \in CopyPCs => recs' = recs /\ roots' = roots /\ \A p \in Pages : Length(p)' = Length(p)
    <2> SUFFICES ASSUME NEW u \in Writers \ {w}, wpc[u] \in CopyPCs PROVE wpc[w] \notin {"commitLen", "commitRevived"}
        BY <1>1, <1>3
    <2> QED BY CopiedAtRest DEF RoomPCs
<1>13. book' \subseteq Entries /\ \A e \in book' : e.ver < clock'
    BY <1>1 DEF BookInv, Entries
<1> QED BY <1>1, <1>2, <1>7, <1>8, <1>9, <1>10, <1>11, <1>12, <1>13, OthersBook

(* Pages that nobody writes to, and a history that stays.                   *)
LEMMA PagesStay ==
    ASSUME RoomInv, BookInv, NEW w \in Writers, OthersStay(w), UNCHANGED <<recs, active, dead, owner, roots, book>>,
           \A p \in Pages : owner[p] = w => ~Unwritten(p, w)
    PROVE  \A p \in 1 .. Len(roots') : PageExact(p)'
<1> SUFFICES ASSUME NEW p \in 1 .. Len(roots) PROVE PageExact(p)'
    OBVIOUS
<1>1. p \in Pages /\ PageExact(p) /\ owner[p] \in Writers \cup {None} /\ Length(p)' = Length(p) /\ recs'[p] = recs[p]
    BY RootPages DEF BookInv, RoomInv, TypeInv, Length
<1>2. \A k \in Keys, s \in Nat : Pending(p, k, s) => Pending(p, k, s)'
    <2> SUFFICES ASSUME NEW k \in Keys, NEW s \in Nat, Pending(p, k, s) PROVE Pending(p, k, s)'
        OBVIOUS
    <2>1. owner[p] # w
        BY <1>1 DEF Pending
    <2> QED BY <1>1, <2>1, PendingStays
<1>3. \A s \in Nat : Serves(p, s)' => Serves(p, s)
    BY DEF Serves
<1>4. \A k \in Keys, s \in Nat : Values(k, s)' = Values(k, s)
    BY SameHistory
<1> QED BY <1>1, <1>2, <1>3, <1>4, ExactStays

LEMMA EndBook ==
    ASSUME RoomInv, LifeInv, LifeInv', BookInv, NEW w \in Writers, EndStep(w)
    PROVE  BookInv'
<1>1. /\ OthersStay(w) /\ UNCHANGED <<clock, recs, active, dead, owner, roots, op, key, at, picked, book>>
      /\ wpc'[w] \in {"unlatch", "unlatchMaster"}
      /\ \/ wpc[w] \in {"endSplit", "end"}
         \/ wpc[w] = "kill" /\ op[w] = "delete" /\ ~LiveIn(at[w], key[w])
    BY EndFacts
<1>2. \A p \in Pages : owner[p] = w => ~Unwritten(p, w)
    <2> SUFFICES ASSUME NEW p \in Pages, owner[p] = w, Unwritten(p, w) PROVE FALSE
        OBVIOUS
    <2>1. p = at[w]
        BY Bounds DEF RoomInv, PageAt
    <2> QED BY <1>1, <2>1 DEF Unwritten
<1>3. \A p \in 1 .. Len(roots') : PageExact(p)'
    BY <1>1, <1>2, PagesStay
<1>4. NotedAt(w)' /\ CopyAt(w)' /\ FoundAt(w)'
    BY <1>1 DEF NotedAt, CopyAt, FoundAt
<1>5. \A p \in Pages : recs'[p] = recs[p] /\ Length(p)' = Length(p)
    BY <1>1 DEF Length
<1>6. book' \subseteq Entries /\ \A e \in book' : e.ver < clock'
    BY <1>1 DEF BookInv, Entries
<1> QED BY <1>1, <1>3, <1>4, <1>5, <1>6, OthersBook

(* A commit is in the history from its version on, and pending in its page. *)
LEMMA DrawNotes ==
    ASSUME RoomInv, LifeInv, VersionInv, BookInv, NEW w \in Writers, DrawStep(w), wpc[w] \in {"latched", "validate"},
           NEW x \in Int, Note(clock, key[w], x), Unwritten(at[w], w)'
    PROVE  /\ \A p \in 1 .. Len(roots') : PageExact(p)'
           /\ \A s \in Nat : clock <= s => Values(key[w], s)' = IF x = Gone THEN {} ELSE {x}
           /\ book' \subseteq Entries /\ \A e \in book' : e.ver < clock'
<1>1. /\ clock \in Nat /\ clock' = clock + 1 /\ ver'[w] = clock /\ OthersStay(w)
      /\ UNCHANGED <<recs, active, dead, owner, roots, op, key, at>>
    BY DrawFacts
<1>2. wpc[w] \in LatchedPCs /\ wpc[w] \in RoomPCs
    BY DEF LatchedPCs, RoomPCs
<1>3. PICK q \in Pages, k \in Keys : q = at[w] /\ k = key[w] /\ owner[q] = w /\ q = Len(roots)
    BY <1>2, InPage, RoomMeansRoot
<1>4. book \subseteq Entries /\ \A e \in book : e.ver < clock /\ e.ver \in Nat
    BY DEF BookInv, Entries
<1>5. Note(clock, k, x)
    BY <1>3
<1>6. \A j \in Keys, s \in Nat : /\ j # k \/ s < clock => Values(j, s)' = Values(j, s)
                                 /\ j = k /\ clock <= s => Values(j, s)' = IF x = Gone THEN {} ELSE {x}
    BY <1>1, <1>4, <1>5, NoteChange
<1>7. ASSUME NEW p \in 1 .. Len(roots) PROVE PageExact(p)'
    <2>1. p \in Pages /\ PageExact(p) /\ owner[p] \in Writers \cup {None} /\ Length(p)' = Length(p) /\ recs'[p] = recs[p]
        BY <1>1, <1>7, RootPages DEF BookInv, RoomInv, TypeInv, Length
    <2>2. \A j \in Keys, s \in Nat : Pending(p, j, s) => Pending(p, j, s)'
        <3> SUFFICES ASSUME NEW j \in Keys, NEW s \in Nat, Pending(p, j, s) PROVE Pending(p, j, s)'
            OBVIOUS
        <3>1. owner[p] # w
            BY DEF Pending, Unwritten
        <3> QED BY <1>1, <2>1, <3>1, PendingStays
    <2>3. \A s \in Nat : Serves(p, s)' => Serves(p, s)
        BY <1>1 DEF Serves
    <2>4. \A j \in Keys, s \in Nat : Serves(p, s) /\ ~Pending(p, j, s)' => Values(j, s)' = Values(j, s)
        <3> SUFFICES ASSUME NEW j \in Keys, NEW s \in Nat, Serves(p, s), j = k, ~(s < clock) PROVE Pending(p, j, s)'
            BY <1>6
        <3>1. p = q
            <4> SUFFICES ASSUME p # q PROVE FALSE
                OBVIOUS
            <4>1. q \in p + 1 .. Len(roots) /\ q \in 1 .. Len(roots)
                BY <1>3, <1>7, RootPages
            <4>2. s < roots[q] /\ roots[q] < clock /\ roots[q] \in Nat
                BY <4>1, RootPages DEF Serves, VersionInv
            <4> QED BY <1>1, <4>2
        <3>2. owner'[p] = w /\ w # None /\ key'[w] = j /\ ver'[w] <= s
            BY <1>1, <1>3, <3>1, Bounds
        <3>3. Unwritten(p, w)'
            BY <1>1, <1>3, <3>1
        <3> QED BY <3>2, <3>3 DEF Pending
    <2> QED BY <2>1, <2>2, <2>3, <2>4, ExactStays
<1>8. book' \subseteq Entries /\ \A e \in book' : e.ver < clock'
    <2> DEFINE new == [ver |-> clock, key |-> k, val |-> x]
    <2>1. book' = book \cup {new}
        BY <1>5 DEF Note
    <2>2. new \in Entries /\ new.ver = clock
        BY <1>1 DEF Entries
    <2> HIDE DEF new
    <2>3. \A e \in book' : e \in book \/ e = new
        BY <2>1
    <2>4. \A v \in Nat : v < clock => v < clock'
        BY <1>1
    <2>5. clock < clock'
        BY <1>1
    <2>6. \A e \in book' : e.ver < clock'
        BY <1>4, <2>2, <2>3, <2>4, <2>5
    <2> QED BY <1>4, <2>2, <2>3, <2>6
<1>9. key' = key
    BY <1>1
<1> QED BY <1>1, <1>3, <1>6, <1>7, <1>8

LEMMA DrawBook ==
    ASSUME RoomInv, LifeInv, LifeInv', VersionInv, BookInv, NEW w \in Writers, DrawStep(w)
    PROVE  BookInv'
<1>1. /\ clock \in Nat /\ clock' = clock + 1 /\ ver'[w] = clock /\ OthersStay(w)
      /\ UNCHANGED <<recs, active, dead, owner, roots, op, key, at>>
      /\ \/ wpc[w] = "startSplit" /\ wpc'[w] = "append" /\ book' = book
         \/ /\ wpc[w] \in {"latched", "validate"} /\ wpc'[w] = "push" /\ Note(clock, key[w], clock)
            /\ op[w] = "insert" \/ wpc[w] = "validate"
         \/ /\ wpc[w] = "latched" /\ wpc'[w] = "kill" /\ op[w] = "delete"
            /\ IF LiveIn(at[w], key[w]) THEN Note(clock, key[w], Gone) ELSE book' = book
    BY DrawFacts
<1>2. clock # 0 /\ clock # Gone
    BY DEF RoomInv, TypeInv, Gone
<1>3. \A p \in Pages : recs'[p] = recs[p] /\ Length(p)' = Length(p)
    BY <1>1 DEF Length
<1>4. LiveIn(at[w], key[w])' = LiveIn(at[w], key[w])
    BY <1>1 DEF LiveIn, RFind, Length
<1> DEFINE Step == /\ \A p \in 1 .. Len(roots') : PageExact(p)'
                   /\ book' \subseteq Entries /\ \A e \in book' : e.ver < clock'
                   /\ NotedAt(w)' /\ CopyAt(w)'
                   /\ \A u \in Writers \ {w} : Unwritten(at[u], u) => book' = book
<1>5. Step => BookInv'
    <2>1. FoundAt(w)' /\ (wpc[w] # "idle" \/ wpc'[w] # "idle")
        BY <1>1 DEF FoundAt
    <2> QED BY <1>1, <1>3, <2>1, OthersBook
<1>6. book' = book => book' \subseteq Entries /\ \A e \in book' : e.ver < clock'
    <2>1. \A e \in book : e.ver \in Nat /\ e.ver < clock
        BY DEF BookInv
    <2>2. \A v \in Nat : v < clock => v < clock'
        BY <1>1
    <2> QED BY <2>1, <2>2 DEF BookInv, Entries
<1>7. CASE wpc[w] = "startSplit"
    <2>1. wpc'[w] = "append" /\ book' = book
        BY <1>1, <1>7
    <2>2. \A p \in Pages : owner[p] = w => ~Unwritten(p, w)
        BY <1>7 DEF Unwritten
    <2>3. \A p \in 1 .. Len(roots') : PageExact(p)'
        BY <1>1, <2>1, <2>2, PagesStay
    <2>4. NotedAt(w)'
        BY <2>1 DEF NotedAt
    <2>5. PICK q \in Pages : q = at[w] /\ q \in 1 .. Len(roots)
        BY <1>7, AtPage DEF RoomInv, WriterAt
    <2>6. /\ roots[q] < clock /\ \A i \in 1 .. Len(recs[q]) : recs[q][i].ins < clock /\ recs[q][i].del < clock
        BY <2>5 DEF VersionInv, LifeInv, LifeAt
    <2> DEFINE M == {recs[NewPage][i] : i \in 1 .. Len(recs[NewPage])}
               L == {recs[q][i] : i \in Live(q)}
    <2>7. M = L
        BY <1>7, <2>5 DEF BookInv, CopyAt
    <2>8. M' = M /\ L' = L
        <3>1. Live(q)' = Live(q) /\ NewPage' = NewPage
            BY <1>1 DEF Live, NewPage, Length
        <3> QED BY <1>1, <3>1
    <2>9. q = at'[w] /\ ver'[w] = clock
        BY <1>1, <2>5
    <2>10. roots'[q] < ver'[w] /\ \A i \in 1 .. Len(recs'[q]) : recs'[q][i].ins < ver'[w] /\ recs'[q][i].del < ver'[w]
        BY <1>1, <2>6
    <2>11. CopyAt(w)'
        BY <2>1, <2>7, <2>8, <2>9, <2>10 DEF CopyAt
    <2> QED BY <1>5, <1>6, <2>1, <2>3, <2>4, <2>11
<1>8. ASSUME wpc[w] \in {"latched", "validate"} PROVE /\ \A u \in Writers \ {w} : ~Unwritten(at[u], u)
                                                      /\ at[w] \in Pages /\ key[w] \in Keys /\ CommitAt(w)
    <2>1. wpc[w] \in RoomPCs /\ wpc[w] \in LatchedPCs
        BY <1>8 DEF RoomPCs, LatchedPCs
    <2> QED BY <2>1, OneUnwritten, InPage DEF LifeInv
<1>9. CASE wpc[w] \in {"latched", "validate"} /\ wpc'[w] = "push"
    <2>1. Note(clock, key[w], clock) /\ op[w] # "delete" /\ clock \in Int
        BY <1>1, <1>8, <1>9 DEF CommitAt
    <2>2. Unwritten(at[w], w)'
        BY <1>9 DEF Unwritten
    <2>3. /\ \A p \in 1 .. Len(roots') : PageExact(p)'
          /\ \A s \in Nat : clock <= s => Values(key[w], s)' = IF clock = Gone THEN {} ELSE {clock}
          /\ book' \subseteq Entries /\ \A e \in book' : e.ver < clock'
        BY <1>9, <2>1, <2>2, DrawNotes
    <2>4. NotedAt(w)'
        BY <1>1, <1>2, <2>1, <2>3 DEF NotedAt
    <2>5. CopyAt(w)'
        BY <1>9 DEF CopyAt
    <2> QED BY <1>5, <1>8, <1>9, <2>3, <2>4, <2>5
<1>10. CASE wpc[w] = "latched" /\ wpc'[w] = "kill" /\ LiveIn(at[w], key[w])
    <2>1. Note(clock, key[w], Gone) /\ op[w] = "delete" /\ Gone \in Int
        BY <1>1, <1>10 DEF Gone
    <2>2. Unwritten(at[w], w)'
        BY <1>4, <1>10 DEF Unwritten
    <2>3. /\ \A p \in 1 .. Len(roots') : PageExact(p)'
          /\ \A s \in Nat : clock <= s => Values(key[w], s)' = IF Gone = Gone THEN {} ELSE {Gone}
          /\ book' \subseteq Entries /\ \A e \in book' : e.ver < clock'
        BY <1>10, <2>1, <2>2, DrawNotes
    <2>4. NotedAt(w)'
        BY <1>1, <1>2, <2>1, <2>3 DEF NotedAt
    <2>5. CopyAt(w)'
        BY <1>10 DEF CopyAt
    <2> QED BY <1>5, <1>8, <1>10, <2>3, <2>4, <2>5
<1>11. CASE wpc[w] = "latched" /\ wpc'[w] = "kill" /\ ~LiveIn(at[w], key[w])
    <2>1. book' = book /\ op[w] = "delete"
        BY <1>1, <1>11
    <2>2. \A p \in Pages : owner[p] = w => ~Unwritten(p, w)
        BY <1>11 DEF Unwritten
    <2>3. \A p \in 1 .. Len(roots') : PageExact(p)'
        BY <1>1, <2>1, <2>2, PagesStay
    <2>4. ~Unwritten(at[w], w)'
        BY <1>1, <1>4, <1>11, <2>1 DEF Unwritten
    <2>5. NotedAt(w)' /\ CopyAt(w)'
        BY <1>11, <2>4 DEF NotedAt, CopyAt
    <2> QED BY <1>5, <1>6, <2>1, <2>3, <2>5
<1> QED BY <1>1, <1>7, <1>9, <1>10, <1>11

(* A write to the page of one writer.                                       *)
LEMMA WriteBook ==
    ASSUME RoomInv, LifeInv, LifeInv', BookInv, NEW w \in Writers, OthersStay(w),
           wpc[w] \in RoomPCs \/ wpc[w] = "kill", wpc'[w] \in {"commitLen", "commitDead", "commitRevived", "unlatch"},
           NEW q \in Pages, q = at[w], UNCHANGED <<clock, active, dead, owner, roots>>,
           \A p \in Pages \ {q} : recs'[p] = recs[p],
           \A u \in Writers \ {w} : Unwritten(at[u], u) => book' = book,
           \A p \in 1 .. Len(roots) : p # q => \A k \in Keys, s \in Nat : Serves(p, s) => Values(k, s)' = Values(k, s),
           book' \subseteq Entries, \A e \in book' : e.ver < clock',
           PageExact(q)', NotedAt(w)'
    PROVE  BookInv'
<1>1. wpc[w] \in LatchedPCs /\ wpc[w] # "idle"
    BY DEF RoomPCs, LatchedPCs
<1>2. /\ \A u \in Writers \ {w} : wpc[u] \in LatchedPCs => at[u] # q
      /\ \A p \in Pages \ {q} : owner[p] # w
    BY <1>1, OthersOutside
<1>3. \A p \in Pages : Length(p)' = Length(p)
    BY DEF Length
<1>4. ASSUME NEW p \in 1 .. Len(roots), p # q PROVE PageExact(p)'
    <2>1. p \in Pages /\ PageExact(p) /\ owner[p] \in Writers \cup {None} /\ owner[p] # w
        BY <1>2, <1>4, RootPages DEF BookInv, RoomInv, TypeInv
    <2>2. recs'[p] = recs[p] /\ Length(p)' = Length(p)
        BY <1>3, <1>4, <2>1
    <2>3. \A k \in Keys, s \in Nat : Pending(p, k, s) => Pending(p, k, s)'
        BY <2>1, <2>2, PendingStays
    <2>4. \A s \in Nat : Serves(p, s)' => Serves(p, s)
        BY DEF Serves
    <2> QED BY <1>4, <2>1, <2>2, <2>3, <2>4, ExactStays
<1>5. \A p \in 1 .. Len(roots') : PageExact(p)'
    BY <1>4
<1>6. \A u \in Writers \ {w}, p \in Pages : wpc[u] \in LatchedPCs /\ p = at[u] =>
               recs'[p] = recs[p] /\ Length(p)' = Length(p)
    BY <1>2, <1>3
<1>7. \A u \in Writers \ {w} : wpc[u] \notin CopyPCs
    BY CopiedAtRest
<1>8. CopyAt(w)' /\ FoundAt(w)'
    BY DEF CopyAt, FoundAt
<1> QED BY <1>1, <1>5, <1>6, <1>7, <1>8, OthersBook

(* A key that does not live in a page: all its records have ended.          *)
LEMMA AllEnded ==
    ASSUME RoomInv, NEW q \in Pages, NEW k \in Keys, NEW n \in Nat, n = Len(recs[q]), Length(q) = n, Tidy(q, n),
           ~LiveIn(q, k), NEW i \in 1 .. n, recs[q][i].key = k
    PROVE  IsDeleted(recs[q][i])
<1>1. PICK m : m = RFind(q, k, n)
    OBVIOUS
<1>2. n \in Int
    OBVIOUS
<1>3. (m = 0 \/ m \in 1 .. n) /\ (m # 0 => recs[q][m].key = k) /\ i <= m
    BY <1>1, <1>2, RFindFacts
<1>4. m \in 1 .. n /\ recs[q][m].key = k
    BY <1>3
<1>5. IsDeleted(recs[q][m])
    BY <1>1, <1>4 DEF LiveIn
<1>6. CASE i = m
    BY <1>5, <1>6
<1>7. CASE i # m
    <2>1. recs[q][i].del \in 1 .. recs[q][m].ins
        BY <1>3, <1>4, <1>7 DEF Tidy
    <2> QED BY <2>1 DEF IsDeleted
<1> QED BY <1>6, <1>7

LEMMA PushBook ==
    ASSUME RoomInv, LifeInv, LifeInv', VersionInv, BookInv, NEW w \in Writers, UNCHANGED setup, PushUncommitted(w)
    PROVE  BookInv'
<1>1. PICK q \in Pages, n \in Nat, k \in Keys, v \in Nat :
            q = at[w] /\ n = Len(recs[q]) /\ k = key[w] /\ v = ver[w] /\ v >= 1
    BY PushFacts
<1>2. /\ owner[q] = w /\ Length(q) = n /\ wpc[w] = "push" /\ wpc'[w] = "commitLen" /\ OthersStay(w)
      /\ UNCHANGED <<clock, active, dead, owner, roots, op, key, at, ver, book>>
      /\ \A p \in Pages \ {q} : recs'[p] = recs[p]
      /\ Len(recs'[q]) = n + 1 /\ recs'[q][n + 1] = Record(k, v)
      /\ \A i \in 1 .. n : recs'[q][i] = recs[q][i]
    BY <1>1, PushFacts
<1>3. q \in 1 .. Len(roots) /\ w # None /\ op[w] \in {"insert", "update"} /\ PageExact(q)
    <2>1. q \in 1 .. Len(roots)
        BY <1>1, <1>2 DEF RoomInv, WriterAt
    <2>2. op[w] \in Operations /\ op[w] # "delete"
        BY <1>2, InPage DEF LatchedPCs, LifeInv, CommitAt
    <2> QED BY <2>1, <2>2, Bounds DEF BookInv, Operations
<1>4. \A j \in Keys, s \in Nat : Values(j, s)' = Values(j, s)
    BY <1>2, SameHistory
<1>5. \A s \in Nat : v <= s => Values(k, s) = {v}
    BY <1>1, <1>2, <1>3 DEF BookInv, NotedAt, Unwritten
<1>6. Record(k, v).key = k /\ Record(k, v).ins = v /\ Record(k, v).del = 0 /\ Record(k, v).val = v
    BY DEF Record
<1>7. \A i \in 1 .. n + 1 : i \in 1 .. n \/ i = n + 1
    OBVIOUS
<1>8. n + 1 \notin 1 .. n /\ n + 1 \in 1 .. n + 1 /\ 1 .. n \subseteq 1 .. n + 1
    OBVIOUS
<1>9. ASSUME NEW j \in Keys, NEW s \in Nat, j # k \/ s < v PROVE Found(q, j, s)' = Found(q, j, s)
    <2>1. Hits(q, j, s)' = Hits(q, j, s)
        <3>1. ~(recs'[q][n + 1].key = j /\ Matches(recs'[q][n + 1], s))
            BY <1>2, <1>6, <1>9 DEF Matches
        <3>2. Hits(q, j, s)' = {i \in 1 .. n + 1 : recs'[q][i].key = j /\ Matches(recs'[q][i], s)}
            BY <1>2 DEF Hits, Matches, IsDeleted
        <3>3. Hits(q, j, s) = {i \in 1 .. n : recs[q][i].key = j /\ Matches(recs[q][i], s)}
            BY <1>1 DEF Hits
        <3>4. \A i \in 1 .. n : Matches(recs'[q][i], s) = Matches(recs[q][i], s) /\ recs'[q][i].key = recs[q][i].key
            BY <1>2
        <3> QED BY <1>7, <1>8, <3>1, <3>2, <3>3, <3>4
    <2>2. \A i \in Hits(q, j, s) : recs'[q][i] = recs[q][i]
        BY <1>1, <1>2 DEF Hits
    <2> QED BY <2>1, <2>2 DEF Found
<1>10. ASSUME op[w] = "insert", NEW s \in Nat, v <= s PROVE Found(q, k, s)' = {v}
    <2>1. Tidy(q, n)
        <3>1. ~Updating(q)
            BY <1>2, <1>10 DEF Updating
        <3> QED BY <1>1, <3>1 DEF LifeInv, LifeAt
    <2>2. ~LiveIn(q, k) /\ \A i \in 1 .. n : recs[q][i].del < v
        BY <1>1, <1>2, <1>10 DEF LifeInv, CommitAt
    <2>3. \A i \in 1 .. n : recs[q][i].key = k => IsDeleted(recs[q][i])
        BY <1>1, <1>2, <2>1, <2>2, AllEnded
    <2>4. \A i \in 1 .. n : recs[q][i].del \in Nat
        BY <1>1, Fields
    <2>5. \A i \in 1 .. n : recs[q][i].key = k => ~Matches(recs[q][i], s)
        BY <1>10, <2>2, <2>3, <2>4 DEF Matches
    <2>6. Matches(recs'[q][n + 1], s) /\ recs'[q][n + 1].key = k /\ recs'[q][n + 1].val = v
        BY <1>2, <1>6, <1>10 DEF Matches, IsDeleted
    <2>7. Hits(q, k, s)' = {n + 1}
        <3>1. \A i \in 1 .. n : recs'[q][i].key = k => ~Matches(recs'[q][i], s)
            BY <1>2, <2>5
        <3> QED BY <1>2, <1>7, <1>8, <2>6, <3>1 DEF Hits, Matches, IsDeleted
    <2> QED BY <2>6, <2>7 DEF Found
<1>11. PageExact(q)'
    <2> SUFFICES ASSUME NEW j \in Keys, NEW s \in Nat, Serves(q, s)', ~Pending(q, j, s)'
                 PROVE  Found(q, j, s)' = Values(j, s)'
        BY DEF PageExact
    <2>1. Serves(q, s)
        BY <1>2 DEF Serves
    <2>2. CASE j # k \/ s < v
        <3>1. ~Pending(q, j, s)
            BY <1>1, <1>2, <2>2 DEF Pending
        <3> QED BY <1>3, <1>4, <1>9, <2>1, <2>2, <3>1 DEF PageExact
    <2>3. CASE j = k /\ v <= s
        <3>1. op[w] = "insert"
            <4> SUFFICES ASSUME op[w] = "update" PROVE FALSE
                BY <1>3
            <4>1. owner'[q] = w /\ wpc'[w] = "commitLen" /\ op'[w] = "update" /\ key'[w] = j /\ ver'[w] = v
                BY <1>1, <1>2, <2>3
            <4> QED BY <1>3, <2>3, <4>1 DEF Pending, Unwritten
        <3> QED BY <1>4, <1>5, <1>10, <2>3, <3>1
    <2> QED BY <2>2, <2>3
<1>12. NotedAt(w)'
    <2>1. k = key'[w] /\ v = ver'[w] /\ op'[w] # "delete"
        BY <1>1, <1>2, <1>3
    <2>2. \A s \in Nat : v <= s => Values(k, s)' = {v}
        BY <1>4, <1>5
    <2> QED BY <2>1, <2>2 DEF NotedAt
<1>13. book' \subseteq Entries /\ \A e \in book' : e.ver < clock'
    BY <1>2 DEF BookInv, Entries
<1>14. wpc[w] \in RoomPCs
    BY <1>2 DEF RoomPCs
<1> QED BY <1>1, <1>2, <1>4, <1>11, <1>12, <1>13, <1>14, WriteBook

(* What a changed page holds of key j at snapshot s.                        *)
Hit(r, j, s) == r.key = j /\ Matches(r, s)

LEMMA FoundPrimed ==
    ASSUME NEW q \in Pages, NEW j \in Keys, NEW s \in Nat
    PROVE  /\ Found(q, j, s) = {recs[q][i].val : i \in {l \in 1 .. Len(recs[q]) : Hit(recs[q][l], j, s)}}
           /\ Found(q, j, s)' = {recs'[q][i].val : i \in {l \in 1 .. Len(recs'[q]) : Hit(recs'[q][l], j, s)}}
BY DEF Found, Hits, Hit, Matches, IsDeleted

LEMMA FoundSame ==
    ASSUME NEW q \in Pages, NEW j \in Keys, NEW s \in Nat, NEW n \in Nat, n = Len(recs[q]), Len(recs'[q]) = n,
           \A i \in 1 .. n : Hit(recs'[q][i], j, s) <=> Hit(recs[q][i], j, s),
           \A i \in 1 .. n : Hit(recs[q][i], j, s) => recs'[q][i].val = recs[q][i].val
    PROVE  Found(q, j, s)' = Found(q, j, s)
<1> DEFINE A == {l \in 1 .. n : Hit(recs[q][l], j, s)}
           B == {l \in 1 .. n : Hit(recs'[q][l], j, s)}
<1>1. B = A
    OBVIOUS
<1>2. Found(q, j, s) = {recs[q][i].val : i \in A}
    BY FoundPrimed
<1>3. Found(q, j, s)' = {recs'[q][i].val : i \in B}
    BY FoundPrimed
<1>4. \A i \in A : recs'[q][i].val = recs[q][i].val
    OBVIOUS
<1> HIDE DEF A, B
<1> QED BY <1>1, <1>2, <1>3, <1>4

LEMMA FoundOne ==
    ASSUME NEW q \in Pages, NEW j \in Keys, NEW s \in Nat, NEW i \in 1 .. Len(recs'[q]), Hit(recs'[q][i], j, s),
           \A l \in 1 .. Len(recs'[q]) : l # i => ~Hit(recs'[q][l], j, s)
    PROVE  Found(q, j, s)' = {recs'[q][i].val}
<1>1. {l \in 1 .. Len(recs'[q]) : Hit(recs'[q][l], j, s)} = {i}
    OBVIOUS
<1>2. {recs'[q][l].val : l \in {i}} = {recs'[q][i].val}
    OBVIOUS
<1> QED BY <1>1, <1>2, FoundPrimed

LEMMA FoundNone ==
    ASSUME NEW q \in Pages, NEW j \in Keys, NEW s \in Nat,
           \A l \in 1 .. Len(recs'[q]) : ~Hit(recs'[q][l], j, s)
    PROVE  Found(q, j, s)' = {}
<1>1. {l \in 1 .. Len(recs'[q]) : Hit(recs'[q][l], j, s)} = {}
    OBVIOUS
<1>2. {recs'[q][l].val : l \in {}} = {}
    OBVIOUS
<1> QED BY <1>1, <1>2, FoundPrimed

LEMMA KillBook ==
    ASSUME RoomInv, LifeInv, LifeInv', VersionInv, BookInv, NEW w \in Writers, UNCHANGED setup, Kill(w)
    PROVE  BookInv'
<1>1. PICK q \in Pages, n \in Nat, k \in Keys, v \in Nat :
            q = at[w] /\ n = Len(recs[q]) /\ k = key[w] /\ v = ver[w] /\ v >= 1
    BY KillFacts
<1>2. /\ owner[q] = w /\ Length(q) = n /\ wpc[w] = "kill" /\ wpc'[w] = "commitDead" /\ OthersStay(w)
      /\ UNCHANGED <<clock, active, dead, owner, roots, op, key, at, ver, book>>
      /\ \A p \in Pages \ {q} : recs'[p] = recs[p]
      /\ op[w] \in {"delete", "update"}
      /\ \E i \in 1 .. n : Ends(w, q, n, i)
    BY <1>1, KillFacts
<1>3. PICK i \in 1 .. n : Ends(w, q, n, i)
    BY <1>2
<1>4. /\ recs[q][i].key = k /\ recs[q][i].del = 0
      /\ Len(recs'[q]) = n /\ \A j \in 1 .. n : j # i => recs'[q][j] = recs[q][j]
      /\ recs'[q][i].key = k /\ recs'[q][i].ins = recs[q][i].ins /\ recs'[q][i].val = recs[q][i].val
      /\ recs'[q][i].del = v
      /\ op[w] = "update" => i < n
      /\ \A j \in 1 .. n : recs[q][j].key = k => j <= i \/ (op[w] = "update" /\ j = n)
    BY <1>1, <1>3 DEF Ends
<1>5. q \in 1 .. Len(roots) /\ w # None /\ PageExact(q) /\ WrittenAt(w) /\ LifeAt(q)
    BY <1>1, <1>2, Bounds DEF RoomInv, WriterAt, BookInv, VersionInv, LifeInv
<1>6. \A j \in 1 .. n : recs[q][j].ins \in Nat /\ recs[q][j].del \in Nat
    BY <1>1, Fields
<1>7. \A j \in Keys, s \in Nat : Values(j, s)' = Values(j, s)
    BY <1>2, SameHistory
<1>8. /\ op[w] = "update" => recs[q][n] = Record(k, v) /\ n >= 1
      /\ recs[q][i].ins < v
      /\ \A j \in 1 .. n : recs[q][j].key = k /\ j < i => recs[q][j].del \in 1 .. recs[q][i].ins
    <2>1. CASE op[w] = "update"
        <3>1. Updating(q)
            BY <1>2, <1>5, <2>1 DEF Updating, OwnerAt
        <3>2. Pushed(q, w)
            BY <1>2, <1>5, <3>1 DEF LifeAt
        <3>3. recs[q][n] = Record(k, v) /\ n >= 1
            BY <1>1, <1>2, <1>5, <2>1 DEF WrittenAt
        <3>4. i \in 1 .. n - 1 /\ Tidy(q, n - 1) /\ recs[q][i].ins < v
            BY <1>1, <1>4, <2>1, <3>2 DEF Pushed
        <3>5. \A j \in 1 .. n : j < i => j \in 1 .. n - 1
            BY <3>4
        <3> QED BY <1>4, <3>3, <3>4, <3>5 DEF Tidy
    <2>2. CASE op[w] = "delete"
        <3>1. ~Updating(q)
            BY <1>2, <2>2 DEF Updating
        <3>2. Tidy(q, n)
            BY <1>1, <1>5, <3>1 DEF LifeAt
        <3>3. recs[q][i].ins < v
            BY <1>1, <1>2, <1>5, <2>2 DEF WrittenAt
        <3> QED BY <1>4, <2>2, <3>2, <3>3 DEF Tidy
    <2> QED BY <1>2, <2>1, <2>2
<1>9. ASSUME op[w] = "delete" PROVE LiveIn(q, k)
    <2>1. n \in Int /\ (RFind(q, k, n) = 0 \/ RFind(q, k, n) \in 1 .. n)
        BY RFindFacts
    <2>2. i <= RFind(q, k, n) /\ (RFind(q, k, n) # 0 => recs[q][RFind(q, k, n)].key = k)
        BY <1>4, <2>1, RFindFacts
    <2>3. RFind(q, k, n) \in 1 .. n
        BY <2>1, <2>2
    <2>4. RFind(q, k, n) <= i
        BY <1>4, <1>9, <2>2, <2>3
    <2>5. RFind(q, k, n) = i
        BY <2>2, <2>3, <2>4
    <2> QED BY <1>2, <1>4, <2>5 DEF LiveIn, IsDeleted
<1>10. \A s \in Nat : v <= s => Values(k, s) = IF op[w] = "delete" THEN {} ELSE {v}
    <2>1. Unwritten(at[w], w)
        BY <1>1, <1>2, <1>9 DEF Unwritten
    <2> QED BY <1>1, <1>2, <2>1 DEF BookInv, NotedAt
<1>11. ASSUME NEW j \in Keys, NEW s \in Nat, j # k \/ s < v PROVE Found(q, j, s)' = Found(q, j, s)
    <2>1. Hit(recs'[q][i], j, s) <=> Hit(recs[q][i], j, s)
        BY <1>1, <1>4, <1>11 DEF Hit, Matches, IsDeleted
    <2>2. \A l \in 1 .. n : Hit(recs'[q][l], j, s) <=> Hit(recs[q][l], j, s)
        BY <1>4, <2>1
    <2>3. \A l \in 1 .. n : recs'[q][l].val = recs[q][l].val
        BY <1>4
    <2> QED BY <1>1, <1>4, <2>2, <2>3, FoundSame
<1>12. ASSUME NEW s \in Nat, v <= s, NEW l \in 1 .. n, op[w] = "delete" \/ l # n PROVE ~Hit(recs'[q][l], k, s)
    <2>1. CASE l = i
        BY <1>1, <1>4, <1>12, <2>1 DEF Hit, Matches, IsDeleted
    <2>2. CASE l # i
        <3> SUFFICES ASSUME recs[q][l].key = k PROVE ~Matches(recs[q][l], s)
            BY <1>4, <2>2 DEF Hit
        <3>1. l < i
            BY <1>2, <1>4, <1>12, <2>2
        <3>2. recs[q][l].del \in 1 .. recs[q][i].ins
            BY <1>8, <3>1
        <3>3. recs[q][l].del # 0 /\ ~(recs[q][l].del > s)
            BY <1>1, <1>6, <1>8, <1>12, <3>2
        <3> QED BY <3>3 DEF Matches, IsDeleted
    <2> QED BY <2>1, <2>2
<1>13. ASSUME NEW s \in Nat, v <= s PROVE Found(q, k, s)' = Values(k, s)
    <2>1. CASE op[w] = "delete"
        <3>1. Found(q, k, s)' = {}
            BY <1>4, <1>12, <1>13, <2>1, FoundNone
        <3> QED BY <1>10, <1>13, <2>1, <3>1
    <2>2. CASE op[w] = "update"
        <3>1. recs'[q][n] = Record(k, v) /\ n \in 1 .. n
            BY <1>4, <1>8, <2>2
        <3>2. Record(k, v).key = k /\ Record(k, v).ins = v /\ Record(k, v).del = 0 /\ Record(k, v).val = v
            BY DEF Record
        <3>3. Hit(recs'[q][n], k, s)
            BY <1>13, <3>1, <3>2 DEF Hit, Matches, IsDeleted
        <3>4. \A l \in 1 .. n : l # n => ~Hit(recs'[q][l], k, s)
            BY <1>12, <1>13
        <3>5. Found(q, k, s)' = {recs'[q][n].val}
            BY <1>4, <3>1, <3>3, <3>4, FoundOne
        <3> QED BY <1>10, <1>13, <2>2, <3>1, <3>2, <3>5
    <2> QED BY <1>2, <2>1, <2>2
<1>14. PageExact(q)'
    <2> SUFFICES ASSUME NEW j \in Keys, NEW s \in Nat, Serves(q, s)'
                 PROVE  Found(q, j, s)' = Values(j, s)'
        BY DEF PageExact
    <2>1. Serves(q, s)
        BY <1>2 DEF Serves
    <2>2. CASE j # k \/ s < v
        <3>1. ~Pending(q, j, s)
            BY <1>1, <1>2, <2>2 DEF Pending
        <3> QED BY <1>5, <1>7, <1>11, <2>1, <2>2, <3>1 DEF PageExact
    <2>3. CASE j = k /\ v <= s
        BY <1>7, <1>13, <2>3
    <2> QED BY <2>2, <2>3
<1>15. NotedAt(w)'
    BY <1>2 DEF NotedAt
<1>16. book' \subseteq Entries /\ \A e \in book' : e.ver < clock'
    BY <1>2 DEF BookInv, Entries
<1> QED BY <1>1, <1>2, <1>7, <1>14, <1>15, <1>16, WriteBook

LEMMA OverwriteBook ==
    ASSUME RoomInv, LifeInv, LifeInv', VersionInv, BookInv, NEW w \in Writers, Overwrite(w)
    PROVE  BookInv'
<1>0. FoundAt(w)
    BY DEF BookInv
<1>1. PICK q \in Pages, n \in Nat, k \in Keys : q = at[w] /\ n = Len(recs[q]) /\ k = key[w]
    BY <1>0, OverwriteFacts
<1>2. /\ owner[q] = w /\ Length(q) = n /\ wpc[w] = "overwrite" /\ wpc'[w] \in {"commitRevived", "unlatch"} /\ OthersStay(w)
      /\ UNCHANGED <<clock, active, dead, owner, roots>> /\ q \in 1 .. Len(roots)
      /\ \A p \in Pages \ {q} : recs'[p] = recs[p]
      /\ \E i \in 1 .. n : \E f \in Nat : Revives(w, q, n, i, f)
    BY <1>0, <1>1, OverwriteFacts
<1>3. PICK i \in 1 .. n, f \in Nat : Revives(w, q, n, i, f)
    BY <1>2
<1>4. PICK x \in Int : x = -recs[q][i].val /\ x # Gone
    BY <1>1, Fields DEF VersionInv, Gone
<1>5. /\ recs[q][i].key = k /\ \A j \in 1 .. n : recs[q][j].key = k => j <= i
      /\ Len(recs'[q]) = n /\ \A j \in 1 .. n : j # i => recs'[q][j] = recs[q][j]
      /\ recs'[q][i].key = k /\ recs'[q][i].ins = recs[q][i].ins /\ recs'[q][i].val = x
      /\ recs'[q][i].del = 0
      /\ f \in {recs[q][i].ins, roots[q]} /\ recs[q][i].ins <= f /\ roots[q] <= f
      /\ book' = {e \in book : e.key = k => e.ver < f} \cup {[ver |-> f, key |-> k, val |-> x]}
    BY <1>1, <1>3, <1>4 DEF Revives
<1>6. wpc[w] \in RoomPCs /\ q = Len(roots) /\ w # None /\ PageExact(q) /\ LifeAt(q) /\ roots[q] \in Nat /\ roots[q] < clock
    <2>1. wpc[w] \in RoomPCs
        BY <1>2 DEF RoomPCs
    <2> QED BY <1>1, <1>2, <2>1, RoomMeansRoot, RootPages, Bounds DEF BookInv, LifeInv, VersionInv
<1>7. \A j \in 1 .. n : recs[q][j].ins \in Nat /\ recs[q][j].del \in Nat
    BY <1>1, Fields
<1>8. \A j \in Keys, s \in Nat : /\ j # k \/ s < f => Values(j, s)' = Values(j, s)
                                 /\ j = k /\ f <= s => Values(j, s)' = {x}
    <2>1. book \subseteq Entries
        BY DEF BookInv, Entries
    <2> QED BY SMTT(30), <1>4, <1>5, <2>1, HistoryChange
<1>9. Tidy(q, n)
    <2>1. ~Updating(q)
        BY <1>2 DEF Updating, OwnerAt
    <2> QED BY <1>1, <1>6, <2>1 DEF LifeAt
<1>10. PageExact(q)'
    <2> SUFFICES ASSUME NEW j \in Keys, NEW s \in Nat, Serves(q, s)'
                 PROVE  Found(q, j, s)' = Values(j, s)'
        BY DEF PageExact
    <2>1. Serves(q, s) /\ roots[q] <= s
        BY <1>2 DEF Serves
    <2>2. Found(q, j, s) = Values(j, s)
        <3>1. ~Pending(q, j, s)
            BY <1>2 DEF Pending, Unwritten
        <3> QED BY <1>6, <2>1, <3>1 DEF PageExact
    <2>3. CASE j # k \/ s < f
        <3>1. ~Hit(recs[q][i], j, s) /\ ~Hit(recs'[q][i], j, s)
            <4>1. CASE j # k
                BY <1>5, <4>1 DEF Hit
            <4>2. CASE s < f
                <5>1. f = recs[q][i].ins
                    BY <1>5, <1>6, <2>1, <4>2
                <5> QED BY <1>5, <4>2, <5>1 DEF Hit, Matches
            <4> QED BY <2>3, <4>1, <4>2
        <3>2. \A l \in 1 .. n : Hit(recs'[q][l], j, s) <=> Hit(recs[q][l], j, s)
            BY <1>5, <3>1
        <3>3. \A l \in 1 .. n : Hit(recs[q][l], j, s) => recs'[q][l].val = recs[q][l].val
            BY <1>5, <3>1
        <3>4. Found(q, j, s)' = Found(q, j, s)
            BY <1>1, <1>5, <3>2, <3>3, FoundSame
        <3> QED BY <1>8, <2>2, <2>3, <3>4
    <2>4. CASE j = k /\ f <= s
        <3>1. Hit(recs'[q][i], j, s)
            BY <1>5, <1>7, <2>4 DEF Hit, Matches, IsDeleted
        <3>2. ASSUME NEW l \in 1 .. n, l # i PROVE ~Hit(recs'[q][l], j, s)
            <4> SUFFICES ASSUME recs[q][l].key = k PROVE ~Matches(recs[q][l], s)
                BY <1>5, <2>4, <3>2 DEF Hit
            <4>1. l < i
                BY <1>5, <3>2
            <4>2. recs[q][l].del \in 1 .. recs[q][i].ins
                BY <1>5, <1>9, <4>1 DEF Tidy
            <4>3. recs[q][l].del # 0 /\ ~(recs[q][l].del > s)
                BY <1>5, <1>7, <2>4, <4>2
            <4> QED BY <4>3 DEF Matches, IsDeleted
        <3>3. Found(q, j, s)' = {recs'[q][i].val}
            BY <1>5, <3>1, <3>2, FoundOne
        <3> QED BY <1>5, <1>8, <2>4, <3>3
    <2> QED BY <2>3, <2>4
<1>11. NotedAt(w)'
    BY <1>2 DEF NotedAt
<1>12. \A p \in 1 .. Len(roots) : p # q => \A j \in Keys, s \in Nat : Serves(p, s) => Values(j, s)' = Values(j, s)
    <2> SUFFICES ASSUME NEW p \in 1 .. Len(roots), p # q, NEW j \in Keys, NEW s \in Nat, Serves(p, s)
                 PROVE  s < f
        BY <1>8
    <2>1. q \in p + 1 .. Len(roots)
        BY <1>6, RootPages
    <2>2. s < roots[q]
        BY <2>1 DEF Serves
    <2> QED BY <1>5, <1>6, <2>2
<1>13. book' \subseteq Entries /\ \A e \in book' : e.ver < clock'
    <2> DEFINE new == [ver |-> f, key |-> k, val |-> x]
    <2>1. f < clock
        BY <1>1, <1>5, <1>6 DEF LifeAt
    <2>2. new \in Entries /\ new.ver = f
        BY DEF Entries
    <2>3. \A e \in book' : e \in book \/ e = new
        BY <1>5
    <2> HIDE DEF new
    <2>4. \A e \in book : e \in Entries /\ e.ver < clock
        BY DEF BookInv, Entries
    <2>5. \A e \in book' : e \in Entries /\ e.ver < clock
        BY <2>1, <2>2, <2>3, <2>4
    <2>6. clock' = clock
        BY <1>2
    <2> QED BY <2>5, <2>6
<1>14. \A u \in Writers \ {w} : ~Unwritten(at[u], u)
    BY <1>6, OneUnwritten
<1> QED BY <1>1, <1>2, <1>6, <1>10, <1>11, <1>12, <1>13, <1>14, WriteBook

(* One writer at a time copies a page.                                      *)
LEMMA OneCopies ==
    ASSUME RoomInv, NEW w \in Writers, NEW u \in Writers, wpc[w] \in CopyPCs, wpc[u] \in CopyPCs
    PROVE  u = w
BY DEF RoomInv, WriterAt, CopyPCs, SplitPCs

LEMMA BulkPushBook ==
    ASSUME RoomInv, LifeInv, LifeInv', BookInv, NEW w \in Writers, BulkPush(w)
    PROVE  BookInv'
<1>1. /\ wpc[w] = "copy" /\ wpc'[w] = "startSplit" /\ OthersStay(w) /\ NewPage \in Pages
      /\ UNCHANGED <<clock, owner, roots, at, book>>
      /\ \A p \in Pages \ {NewPage} : recs'[p] = recs[p] /\ Length(p)' = Length(p)
      /\ wpc[w] \in CopyPCs /\ wpc[w] \notin LatchedPCs
    BY BulkPushFacts DEF CopyPCs, LatchedPCs
<1>2. \A p \in Pages : p <= Len(roots) => p # NewPage
    BY RootPages DEF NewPage, Pages
<1>3. ASSUME NEW p \in 1 .. Len(roots) PROVE PageExact(p)'
    <2>1. /\ p \in Pages /\ PageExact(p) /\ owner[p] \in Writers \cup {None} /\ owner[p] # w
          /\ recs'[p] = recs[p] /\ Length(p)' = Length(p) /\ owner'[p] = owner[p]
        <3>1. p \in Pages /\ p # NewPage
            BY <1>2, <1>3, RootPages
        <3>2. owner[p] \in Writers \cup {None} /\ owner[p] # w
            BY <1>1, <3>1, NotOwner
        <3> QED BY <1>1, <1>3, <3>1, <3>2 DEF BookInv
    <2>2. \A k \in Keys, s \in Nat : Pending(p, k, s) => Pending(p, k, s)'
        BY <1>1, <2>1, PendingStays
    <2>3. \A s \in Nat : Serves(p, s)' => Serves(p, s)
        BY <1>1 DEF Serves
    <2>4. \A k \in Keys, s \in Nat : Values(k, s)' = Values(k, s)
        BY <1>1, SameHistory
    <2> QED BY <2>1, <2>2, <2>3, <2>4, ExactStays
<1>4. CopyAt(w)'
    <2>1. PICK q \in Pages : q = at[w] /\ q # NewPage
        BY BulkPushFacts
    <2> DEFINE M == {recs[NewPage][i] : i \in 1 .. Len(recs[NewPage])}
               L == {recs[q][i] : i \in Live(q)}
    <2>2. picked[w] = Live(q)
        BY <1>1, <2>1 DEF BookInv, CopyAt
    <2>3. NewPage' = NewPage /\ recs'[q] = recs[q] /\ Length(q)' = Length(q) /\ q = at'[w]
        BY <1>1, <2>1 DEF NewPage
    <2>4. M' = L
        <3>1. M' = {recs'[NewPage][i] : i \in 1 .. Len(recs'[NewPage])}
            BY <2>3
        <3>2. {recs'[NewPage][i] : i \in 1 .. Len(recs'[NewPage])} = {recs[at[w]][i] : i \in picked[w]}
            BY BulkPushFacts
        <3>3. {recs[at[w]][i] : i \in picked[w]} = L
            BY <2>1, <2>2
        <3> QED BY <3>1, <3>2, <3>3
    <2>5. L' = L
        <3>1. Live(q)' = Live(q)
            BY <2>3 DEF Live, IsDeleted
        <3> QED BY <2>3, <3>1
    <2>6. M' = L'
        BY <2>4, <2>5
    <2>7. wpc'[w] = "startSplit"
        BY <1>1
    <2> QED BY <2>3, <2>6, <2>7 DEF CopyAt
<1>5. NotedAt(w)' /\ FoundAt(w)'
    BY <1>1 DEF NotedAt, FoundAt
<1>6. ASSUME NEW u \in Writers \ {w}, NEW p \in Pages, wpc[u] \in LatchedPCs, p = at[u]
      PROVE  recs'[p] = recs[p] /\ Length(p)' = Length(p)
    <2>1. p <= Len(roots)
        BY <1>6, AtPage DEF LatchedPCs
    <2> QED BY <1>1, <1>2, <2>1
<1>7. \A u \in Writers \ {w} : wpc[u] \notin CopyPCs
    BY <1>1, OneCopies
<1>8. book' \subseteq Entries /\ \A e \in book' : e.ver < clock'
    BY <1>1 DEF BookInv, Entries
<1>9. \A p \in 1 .. Len(roots') : PageExact(p)'
    BY <1>1, <1>3
<1> QED BY <1>1, <1>4, <1>5, <1>6, <1>7, <1>8, <1>9, OthersBook

(* The new root holds of every later snapshot what the page did.            *)
LEMMA AppendBook ==
    ASSUME RoomInv, LifeInv, LifeInv', VersionInv, BookInv, NEW w \in Writers, AppendRoot(w)
    PROVE  BookInv'
<1>1. /\ wpc[w] = "append" /\ wpc'[w] = "endSplit" /\ OthersStay(w) /\ NewPage \in Pages
      /\ UNCHANGED <<clock, recs, active, dead, owner, op, key, ver, book>>
      /\ Len(roots') = NewPage /\ roots'[NewPage] = ver[w] /\ \A p \in 1 .. Len(roots) : roots'[p] = roots[p]
      /\ wpc[w] \in CopyPCs /\ wpc[w] \notin LatchedPCs
    BY AppendFacts DEF CopyPCs, LatchedPCs
<1>2. PICK N \in Nat, q \in Pages, v \in Nat : /\ N = NewPage /\ q = at[w] /\ v = ver[w] /\ q = Len(roots) /\ N = q + 1
                                              /\ q \in Nat /\ q >= 1
    <2>1. NewPage = Len(roots) + 1 /\ at[w] = Len(roots) /\ at[w] \in Pages /\ ver[w] \in Nat
        BY AppendFacts DEF NewPage, RoomInv, TypeInv
    <2> QED BY <2>1, RootPages
<1>3. \A p \in Pages : recs'[p] = recs[p] /\ Length(p)' = Length(p) /\ owner'[p] = owner[p]
    BY <1>1 DEF Length
<1>4. \A k \in Keys, s \in Nat : Values(k, s)' = Values(k, s)
    BY <1>1, SameHistory
<1>5. ASSUME NEW p \in 1 .. Len(roots) PROVE PageExact(p)'
    <2>1. /\ p \in Pages /\ PageExact(p) /\ owner[p] \in Writers \cup {None} /\ owner[p] # w
        <3>1. p \in Pages
            BY <1>5, RootPages
        <3> QED BY <1>1, <1>5, <3>1, NotOwner DEF BookInv
    <2>2. \A k \in Keys, s \in Nat : Pending(p, k, s) => Pending(p, k, s)'
        BY <1>1, <1>3, <2>1, PendingStays
    <2>3. \A s \in Nat : Serves(p, s)' => Serves(p, s)
        <3> SUFFICES ASSUME NEW s \in Nat, Serves(p, s)' PROVE Serves(p, s)
            OBVIOUS
        <3>1. roots'[p] = roots[p] /\ roots'[p] <= s
            BY <1>1, <1>5 DEF Serves
        <3>2. \A l \in p + 1 .. Len(roots) : l \in p + 1 .. Len(roots') /\ roots'[l] = roots[l]
            BY <1>1, <1>2, <1>5
        <3>3. \A l \in p + 1 .. Len(roots) : s < roots[l]
            BY <3>2 DEF Serves
        <3> QED BY <3>1, <3>3 DEF Serves
    <2> QED BY <1>3, <1>4, <2>1, <2>2, <2>3, ExactStays
<1>6. /\ roots[q] < v /\ \A i \in 1 .. Len(recs[q]) : recs[q][i].ins < v /\ recs[q][i].del < v
      /\ {recs[N][i] : i \in 1 .. Len(recs[N])} = {recs[q][i] : i \in Live(q)}
    <2>1. {recs[N][i] : i \in 1 .. Len(recs[N])} = {recs[NewPage][i] : i \in 1 .. Len(recs[NewPage])}
        BY <1>2
    <2>2. {recs[at[w]][i] : i \in Live(at[w])} = {recs[q][i] : i \in Live(q)}
        BY <1>2
    <2> QED BY <1>1, <1>2, <2>1, <2>2 DEF BookInv, CopyAt
<1>7. ASSUME NEW k \in Keys, NEW s \in Nat, v <= s PROVE Found(N, k, s) = Values(k, s)
    <2>1. PICK n \in Nat : n = Len(recs[q])
        BY RecordFields
    <2>2. Length(q) = n
        <3>1. owner[q] # None => owner[q] \in Writers
            BY DEF RoomInv, TypeInv
        <3>2. ~OwnerAt(q, {"commitLen"})
            BY <1>1, <3>1, CopiedAtRest DEF OwnerAt, RoomPCs
        <3> QED BY <2>1, <3>2 DEF RoomInv, PageAt
    <2>3. ~Pending(q, k, s)
        <3> SUFFICES ASSUME owner[q] # None, Unwritten(q, owner[q]) PROVE FALSE
            BY DEF Pending
        <3>1. owner[q] \in Writers /\ at[owner[q]] = q
            BY DEF RoomInv, TypeInv, PageAt
        <3> QED BY <1>1, <3>1, CopiedAtRest
    <2>4. Serves(q, s)
        <3>1. roots[q] \in Nat /\ \A l \in q + 1 .. Len(roots) : FALSE
            BY <1>2, RootPages
        <3>2. roots[q] <= s
            BY <1>2, <1>6, <1>7, <3>1
        <3> QED BY <3>1, <3>2 DEF Serves
    <2>5. Found(q, k, s) = Values(k, s)
        <3>1. q \in 1 .. Len(roots)
            BY <1>2
        <3> QED BY <2>3, <2>4, <3>1 DEF BookInv, PageExact
    <2>6. \A i \in 1 .. n : Matches(recs[q][i], s) <=> i \in Live(q)
        <3> SUFFICES ASSUME NEW i \in 1 .. n PROVE Matches(recs[q][i], s) <=> ~IsDeleted(recs[q][i])
            BY <2>2 DEF Live
        <3>1. recs[q][i].ins \in Nat /\ recs[q][i].del \in Nat /\ recs[q][i].ins < v /\ recs[q][i].del < v
            BY <1>6, <2>1, Fields
        <3> QED BY <1>2, <1>7, <3>1 DEF Matches
    <2>7. Live(q) \subseteq 1 .. n
        BY <2>2 DEF Live
    <2>8. Found(q, k, s) = {r.val : r \in {x \in {recs[q][i] : i \in Live(q)} : x.key = k}}
        BY <2>1, <2>6, <2>7 DEF Found, Hits
    <2>9. \A i \in 1 .. Len(recs[N]) : Matches(recs[N][i], s)
        <3> SUFFICES ASSUME NEW i \in 1 .. Len(recs[N]) PROVE Matches(recs[N][i], s)
            OBVIOUS
        <3>1. PICK j \in Live(q) : recs[N][i] = recs[q][j]
            BY <1>6
        <3> QED BY <2>6, <2>7, <3>1
    <2>10. Found(N, k, s) = {r.val : r \in {x \in {recs[N][i] : i \in 1 .. Len(recs[N])} : x.key = k}}
        BY <2>9 DEF Found, Hits
    <2> QED BY <1>6, <2>5, <2>8, <2>10
<1>8. PageExact(N)'
    <2> SUFFICES ASSUME NEW k \in Keys, NEW s \in Nat, Serves(N, s)' PROVE Found(N, k, s)' = Values(k, s)'
        BY DEF PageExact
    <2>1. v <= s
        BY <1>1, <1>2 DEF Serves
    <2>2. Found(N, k, s)' = Found(N, k, s)
        BY <1>1 DEF Found, Hits, Matches, IsDeleted
    <2> QED BY <1>4, <1>7, <2>1, <2>2
<1>9. \A p \in 1 .. Len(roots') : PageExact(p)'
    <2>1. \A p \in 1 .. Len(roots') : p \in 1 .. Len(roots) \/ p = N
        BY <1>1, <1>2
    <2> QED BY <1>5, <1>8, <2>1
<1>10. NotedAt(w)' /\ CopyAt(w)' /\ FoundAt(w)'
    BY <1>1 DEF NotedAt, CopyAt, FoundAt
<1>11. \A u \in Writers \ {w} : wpc[u] \notin CopyPCs
    BY <1>1, OneCopies
<1>12. book' \subseteq Entries /\ \A e \in book' : e.ver < clock'
    BY <1>1 DEF BookInv, Entries
<1> QED BY <1>1, <1>3, <1>9, <1>10, <1>11, <1>12, OthersBook

LEMMA AsideBook ==
    ASSUME UNCHANGED <<core, inflight, book>>, RoomInv, BookInv
    PROVE  BookInv'
<1>1. /\ UNCHANGED <<clock, recs, active, dead, owner, roots, wpc, op, key, at, ver, picked, book>>
    BY DEF core
<1>2. \A k \in Keys, s \in Nat : Values(k, s)' = Values(k, s)
    BY <1>1, SameHistory
<1>3. ASSUME NEW p \in 1 .. Len(roots) PROVE PageExact(p)'
    <2>1. p \in Pages /\ PageExact(p)
        BY <1>3, RootPages DEF BookInv
    <2>2. \A k \in Keys, s \in Nat : Pending(p, k, s) => Pending(p, k, s)'
        BY <1>1 DEF Pending, Unwritten, LiveIn, RFind, Length, IsDeleted
    <2>3. \A s \in Nat : Serves(p, s)' => Serves(p, s)
        BY <1>1 DEF Serves
    <2> QED BY <1>1, <1>2, <2>1, <2>2, <2>3, ExactStays
<1>4. ASSUME NEW w \in Writers PROVE NotedAt(w)' /\ CopyAt(w)' /\ FoundAt(w)'
    <2>1. NotedAt(w) /\ CopyAt(w) /\ FoundAt(w)
        BY <1>4 DEF BookInv
    <2>2. CopyAt(w)' /\ FoundAt(w)'
        <3>1. Live(at[w])' = Live(at[w]) /\ NewPage' = NewPage
            BY <1>1 DEF Live, Length, NewPage
        <3>2. {recs[NewPage][i] : i \in 1 .. Len(recs[NewPage])}' = {recs[NewPage][i] : i \in 1 .. Len(recs[NewPage])}
            BY <1>1, <3>1
        <3>3. {recs[at[w]][i] : i \in Live(at[w])}' = {recs[at[w]][i] : i \in Live(at[w])}
            BY <1>1, <3>1
        <3>4. CopyAt(w)'
            BY <1>1, <2>1, <3>1, <3>2, <3>3 DEF CopyAt
        <3>5. FoundAt(w)'
            BY <1>1, <2>1 DEF FoundAt, RFind, Length
        <3> QED BY <3>4, <3>5
    <2>3. Unwritten(at[w], w)' = Unwritten(at[w], w)
        BY <1>1 DEF Unwritten, LiveIn, RFind, Length, IsDeleted
    <2>4. NotedAt(w)'
        BY <1>1, <2>1, <2>3 DEF NotedAt, Values, Latest
    <2> QED BY <2>2, <2>4
<1>5. \A p \in 1 .. Len(roots') : PageExact(p)'
    BY <1>1, <1>3
<1>6. book' \subseteq [ver : Nat, key : Keys, val : Int] /\ \A e \in book' : e.ver < clock'
    BY <1>1 DEF BookInv
<1> QED BY <1>4, <1>5, <1>6 DEF BookInv

LEMMA InitBook == ASSUME Init PROVE BookInv
<1>1. PICK k \in Keys, n \in Nat, ended \in Nat : Preloaded(k, n, ended)
    BY InitFacts
<1>2. /\ n >= 1 /\ ended \in {n - 1, n} /\ clock = ended + 2 /\ Len(recs[1]) = n
      /\ \A i \in 1 .. n : /\ recs[1][i].key = k /\ recs[1][i].ins = i /\ recs[1][i].val = i
                           /\ recs[1][i].del = IF i <= ended THEN i + 1 ELSE 0
      /\ book = {[ver |-> v, key |-> k, val |-> IF v <= n THEN v ELSE Gone] : v \in 1 .. ended + 1}
    BY <1>1 DEF Preloaded
<1>3. roots = <<1>> /\ Len(roots) = 1 /\ roots[1] = 1 /\ \A w \in Writers : wpc[w] = "idle"
    BY DEF Init
<1> DEFINE entry(v) == [ver |-> v, key |-> k, val |-> IF v <= n THEN v ELSE Gone]
<1>4. /\ \A v \in 1 .. ended + 1 : entry(v) \in book
      /\ \A e \in book : \E v \in 1 .. ended + 1 : e = entry(v)
    BY <1>2
<1>5. \A v \in 1 .. ended + 1 : /\ entry(v).ver = v /\ entry(v).key = k /\ entry(v).val = (IF v <= n THEN v ELSE Gone)
                                /\ entry(v) \in Entries
    BY DEF Entries, Gone
<1> HIDE DEF entry
<1>6. book \subseteq Entries /\ \A e \in book : e.ver < clock
    BY <1>2, <1>4, <1>5
<1>7. ASSUME NEW j \in Keys, NEW s \in Nat, 1 <= s PROVE Found(1, j, s) = Values(j, s)
    <2>1. CASE j # k
        <3>1. Hits(1, j, s) = {} /\ Latest(j, s) = {}
            BY <1>2, <1>4, <1>5, <2>1 DEF Hits, Latest
        <3> QED BY <3>1 DEF Found, Values
    <2>2. CASE j = k
        <3>1. PICK m \in 1 .. ended + 1 : m = (IF s <= ended THEN s ELSE ended + 1)
            BY <1>7
        <3>2. Latest(k, s) = {entry(m)}
            <4>1. entry(m) \in Latest(k, s)
                BY <1>4, <1>5, <3>1 DEF Latest
            <4>2. \A e \in Latest(k, s) : e = entry(m)
                <5> SUFFICES ASSUME NEW e \in Latest(k, s) PROVE e = entry(m)
                    OBVIOUS
                <5>1. PICK v \in 1 .. ended + 1 : e = entry(v)
                    BY <1>4 DEF Latest
                <5>2. v <= s /\ m <= v
                    BY <1>4, <1>5, <3>1, <5>1 DEF Latest
                <5>3. v = m
                    BY <3>1, <5>2
                <5> QED BY <5>1, <5>3
            <4> QED BY <4>1, <4>2
        <3>3. \A i \in 1 .. n : i \in Hits(1, k, s) <=> i = m
            <4> TAKE i \in 1 .. n
            <4>1. i \in Hits(1, k, s) <=> Matches(recs[1][i], s)
                BY <1>2 DEF Hits
            <4>2. recs[1][i].ins = i /\ recs[1][i].del = (IF i <= ended THEN i + 1 ELSE 0)
                BY <1>2
            <4>3. CASE i <= ended
                BY <3>1, <4>1, <4>2, <4>3 DEF Matches, IsDeleted
            <4>4. CASE ~(i <= ended)
                <5>1. i = n /\ ended = n - 1
                    BY <1>2, <4>4
                <5> QED BY <3>1, <4>1, <4>2, <4>4, <5>1 DEF Matches, IsDeleted
            <4> QED BY <4>3, <4>4
        <3>4. Hits(1, k, s) \subseteq 1 .. n
            BY <1>2 DEF Hits
        <3>5. CASE m <= n
            <4>1. m \in 1 .. n /\ Hits(1, k, s) = {m}
                BY <3>3, <3>4, <3>5
            <4>2. Found(1, k, s) = {m}
                BY <1>2, <4>1 DEF Found
            <4>3. entry(m).val = m /\ m # Gone
                BY <1>5, <3>5 DEF Gone
            <4>4. {f \in {entry(m)} : f.val # Gone} = {entry(m)}
                BY <4>3
            <4>5. {e.val : e \in {entry(m)}} = {m}
                BY <4>3
            <4> QED BY <2>2, <3>2, <4>2, <4>4, <4>5 DEF Values
        <3>6. CASE ~(m <= n)
            <4>1. Hits(1, k, s) = {}
                BY <3>3, <3>4, <3>6
            <4>2. entry(m).val = Gone
                BY <1>5, <3>6
            <4>3. {f \in {entry(m)} : f.val # Gone} = {}
                BY <4>2
            <4> QED BY <2>2, <3>2, <4>1, <4>3 DEF Found, Values
        <3> QED BY <3>5, <3>6
    <2> QED BY <2>1, <2>2
<1>8. \A p \in 1 .. Len(roots) : PageExact(p)
    BY <1>3, <1>7 DEF PageExact, Serves
<1>9. \A w \in Writers : NotedAt(w) /\ CopyAt(w) /\ FoundAt(w)
    BY <1>3 DEF NotedAt, CopyAt, FoundAt
<1> QED BY <1>6, <1>8, <1>9 DEF BookInv, Entries

(* The writers' steps, by what they do to the history and the pages.        *)
WriterStep(w) ==
    \/ QuietStep(w) \/ DrawStep(w) \/ EndStep(w) \/ BulkPush(w) \/ AppendRoot(w)
    \/ PushUncommitted(w) \/ Kill(w) \/ Overwrite(w)

LEMMA Steps ==
    ASSUME Next
    PROVE  UNCHANGED setup /\ ((\E w \in Writers : WriterStep(w)) \/ (\E r \in Readers : Reader(r)) \/ AdvanceWatermark)
BY DEF Next, Descend, SplitRoot, Operate, WriterStep, QuietStep, DrawStep, EndStep

LEMMA NextBook ==
    ASSUME RoomInv, LifeInv, LifeInv', VersionInv, BookInv, [Next]_vars
    PROVE  VersionInv' /\ BookInv'
<1>1. CASE UNCHANGED vars
    <2>1. UNCHANGED <<core, inflight, book>> /\ wm' \in Nat /\ wm' >= 1
        BY <1>1 DEF vars, core, VersionInv
    <2> QED BY <2>1, AsideVersion, AsideBook
<1>2. CASE UNCHANGED setup /\ ((\E r \in Readers : Reader(r)) \/ AdvanceWatermark)
    <2>1. UNCHANGED <<core, inflight, book>> /\ wm' \in Nat /\ wm' >= 1
        BY <1>2, AsideFacts
    <2> QED BY <2>1, AsideVersion, AsideBook
<1>3. ASSUME NEW w \in Writers, WriterStep(w), UNCHANGED setup PROVE VersionInv' /\ BookInv'
    <2>0. FoundAt(w)
        BY DEF BookInv
    <2>1. CASE QuietStep(w)
        BY <1>3, <2>1, QuietVersion, QuietBook
    <2>2. CASE DrawStep(w)
        BY <2>2, DrawVersion, DrawBook
    <2>3. CASE EndStep(w)
        BY <2>3, EndVersion, EndBook
    <2>4. CASE BulkPush(w)
        BY <2>4, BulkPushVersion, BulkPushBook
    <2>5. CASE AppendRoot(w)
        BY <2>5, AppendVersion, AppendBook
    <2>6. CASE PushUncommitted(w)
        BY <1>3, <2>0, <2>6, WriteVersion, PushBook
    <2>7. CASE Kill(w)
        BY <1>3, <2>0, <2>7, WriteVersion, KillBook
    <2>8. CASE Overwrite(w)
        BY <1>3, <2>0, <2>8, WriteVersion, OverwriteBook
    <2> QED BY <1>3, <2>1, <2>2, <2>3, <2>4, <2>5, <2>6, <2>7, <2>8 DEF WriterStep
<1> QED BY <1>1, <1>2, <1>3, Steps

(* Every page agrees with the history of commits: the page that             *)
(* retrieve_root_for finds for a snapshot holds, of every key, what the     *)
(* commits up to the snapshot left of it, through inserts, updates,         *)
(* deletes, updates in place and version splits; only what a writer in the  *)
(* page has not written yet is missing.                                     *)
THEOREM SpecBookInv == NoRacingUpdate => (Spec => [](VersionInv /\ BookInv))
<1> SUFFICES ASSUME NoRacingUpdate PROVE Spec => [](VersionInv /\ BookInv)
    OBVIOUS
<1>1. Init => VersionInv /\ BookInv
    BY InitVersion, InitBook
<1>2. RoomInv /\ LifeInv /\ LifeInv' /\ VersionInv /\ BookInv /\ [Next]_vars => (VersionInv /\ BookInv)'
    BY NextBook
<1> QED BY <1>1, <1>2, SpecRoomInv, SpecLifeInv, PTL DEF Spec

---------------------------------------------------------------------------
(* A snapshot that no commit can still change.                              *)

Quiet(s) == s < clock /\ \A v \in inflight : s < v

LEMMA NothingPending ==
    ASSUME RoomInv, VersionInv, NEW p \in Pages, NEW k \in Keys, NEW s \in Nat, Quiet(s)
    PROVE  ~Pending(p, k, s)
<1> SUFFICES ASSUME Pending(p, k, s) PROVE FALSE
    OBVIOUS
<1>1. PICK u \in Writers : u = owner[p]
    BY DEF Pending, RoomInv, TypeInv
<1>2. wpc[u] \in CommittingPCs /\ ver[u] <= s
    BY <1>1 DEF Pending, Unwritten, CommittingPCs
<1>3. ver[u] \in inflight /\ ver[u] \in Nat
    BY <1>2 DEF VersionInv
<1> QED BY <1>2, <1>3 DEF Quiet

(* It finds one record of a key at most.                                    *)
LEMMA OneHit ==
    ASSUME RoomInv, LifeInv, VersionInv, NEW p \in Pages, NEW s \in Nat, Quiet(s),
           NEW i \in 1 .. Len(recs[p]), NEW j \in 1 .. Len(recs[p]), recs[p][i].key = recs[p][j].key,
           Matches(recs[p][i], s), Matches(recs[p][j], s)
    PROVE  i = j
<1>1. ASSUME NEW a \in 1 .. Len(recs[p]), NEW b \in 1 .. Len(recs[p]), recs[p][a].key = recs[p][b].key,
             Matches(recs[p][a], s), Matches(recs[p][b], s), a < b
      PROVE  FALSE
    <2>1. PICK n \in Nat : n = Len(recs[p])
        BY RecordFields
    <2>2. /\ recs[p][a].del \in Nat /\ recs[p][b].ins \in Nat /\ recs[p][b].ins <= s
          /\ recs[p][a].del = 0 \/ recs[p][a].del > s
        BY <1>1, Fields DEF Matches, IsDeleted
    <2>3. ASSUME NEW m \in Nat, Tidy(p, m), b <= m PROVE FALSE
        <3>1. a \in 1 .. m /\ b \in 1 .. m
            BY <1>1, <2>1, <2>3
        <3>2. recs[p][a].del \in 1 .. recs[p][b].ins
            BY <1>1, <2>3, <3>1 DEF Tidy
        <3>3. 1 <= recs[p][a].del /\ recs[p][a].del <= recs[p][b].ins
            BY <2>2, <3>2
        <3> QED BY <2>2, <3>3
    <2>4. CASE ~Updating(p)
        <3>1. Tidy(p, n) /\ b <= n
            BY <1>1, <2>1, <2>4 DEF LifeInv, LifeAt
        <3> QED BY <2>3, <3>1
    <2>5. CASE Updating(p)
        <3>1. Pushed(p, owner[p]) /\ wpc[owner[p]] \in {"commitLen", "kill"} /\ owner[p] \in Writers
            BY <2>5 DEF LifeInv, LifeAt, Updating, OwnerAt, RoomInv, TypeInv
        <3>2. n - 1 \in Nat /\ Tidy(p, n - 1) /\ recs[p][n].ins = ver[owner[p]]
            BY <2>1, <3>1 DEF Pushed
        <3>3. s < recs[p][n].ins
            BY <3>1, <3>2 DEF Quiet, VersionInv, CommittingPCs
        <3>4. b # n
            BY <2>2, <3>3
        <3>5. b <= n - 1
            BY <1>1, <2>1, <3>4
        <3> QED BY <2>3, <3>2, <3>5
    <2> QED BY <2>4, <2>5
<1>2. i \in Int /\ j \in Int
    OBVIOUS
<1>3. ~(i < j) /\ ~(j < i)
    BY <1>1
<1> QED BY <1>2, <1>3

(* The length of a page covers what it finds.                               *)
LEMMA Visible ==
    ASSUME RoomInv, VersionInv, NEW p \in Pages, NEW s \in Nat, Quiet(s)
    PROVE  /\ Length(p) \in Nat /\ Length(p) <= Len(recs[p])
           /\ \A i \in 1 .. Len(recs[p]) : Matches(recs[p][i], s) => i <= Length(p)
<1>1. PICK n \in Nat : n = Len(recs[p])
    BY RecordFields
<1>2. PageAt(p) /\ Length(p) \in Int
    BY DEF RoomInv, TypeInv, Length
<1>3. PICK l \in Nat : l = Length(p)
    BY <1>2 DEF PageAt
<1>4. CASE ~OwnerAt(p, {"commitLen"})
    BY <1>1, <1>2, <1>3, <1>4 DEF PageAt
<1>5. CASE OwnerAt(p, {"commitLen"})
    <2>1. n = l + 1
        BY <1>1, <1>2, <1>3, <1>5 DEF PageAt
    <2>2. PICK u \in Writers : u = owner[p] /\ wpc[u] = "commitLen" /\ at[u] = p
        BY <1>2, <1>5 DEF PageAt, OwnerAt, RoomInv, TypeInv
    <2>3. recs[p][n] = Record(key[u], ver[u])
        BY <1>1, <2>2 DEF VersionInv, WrittenAt
    <2>4. recs[p][n].ins = ver[u] /\ s < ver[u] /\ ver[u] \in Nat
        <3>1. ver[u] \in inflight
            BY <2>2 DEF VersionInv, CommittingPCs
        <3>2. Record(key[u], ver[u]).ins = ver[u]
            BY DEF Record
        <3>3. s < ver[u] /\ ver[u] \in Nat
            BY <3>1 DEF VersionInv, Quiet
        <3> QED BY <2>3, <3>2, <3>3
    <2>5. ~Matches(recs[p][n], s)
        BY <2>4 DEF Matches
    <2>6. \A i \in 1 .. n : i # n => i <= l
        BY <2>1
    <2> QED BY <1>1, <1>3, <2>1, <2>5, <2>6
<1> QED BY <1>4, <1>5

(* What a query is to return, key by key.                                   *)
Asked(q) == IF q = AllKeys THEN Keys ELSE {q}

LEMMA ContentFacts ==
    ASSUME NEW s, NEW q, NEW x
    PROVE  x \in Content(s, q) <=> \E k \in Asked(q) : \E v \in Values(k, s) : x = <<k, v>>
<1> DEFINE Part(k) == {<<k, e.val>> : e \in {f \in Latest(k, s) : f.val # Gone}}
<1>1. Content(s, q) = UNION {Part(k) : k \in Asked(q)}
    BY DEF Content, Latest, Asked
<1>2. ASSUME NEW k PROVE x \in Part(k) <=> \E v \in Values(k, s) : x = <<k, v>>
    BY DEF Values
<1> HIDE DEF Part
<1>3. x \in UNION {Part(k) : k \in Asked(q)} <=> \E k \in Asked(q) : x \in Part(k)
    OBVIOUS
<1> QED BY <1>1, <1>2, <1>3

LEMMA ContentSame ==
    ASSUME NEW s \in Nat, NEW q \in Keys \cup {AllKeys}, \A k \in Keys : Values(k, s)' = Values(k, s)
    PROVE  Content(s, q)' = Content(s, q)
<1>1. \A k \in Asked(q) : k \in Keys
    BY DEF Asked
<1>2. ASSUME NEW x PROVE x \in Content(s, q)' <=> x \in Content(s, q)
    <2>1. x \in Content(s, q) <=> \E k \in Asked(q) : \E v \in Values(k, s) : x = <<k, v>>
        BY ContentFacts
    <2>2. x \in Content(s, q)' <=> \E k \in Asked(q) : \E v \in Values(k, s)' : x = <<k, v>>
        <3> DEFINE Part(k) == {<<k, e.val>> : e \in {f \in Latest(k, s)' : f.val # Gone}}
        <3>1. Content(s, q)' = UNION {Part(k) : k \in Asked(q)}
            BY DEF Content, Latest, Asked
        <3>2. ASSUME NEW k PROVE x \in Part(k) <=> \E v \in Values(k, s)' : x = <<k, v>>
            BY DEF Values
        <3> HIDE DEF Part
        <3>3. x \in UNION {Part(k) : k \in Asked(q)} <=> \E k \in Asked(q) : x \in Part(k)
            OBVIOUS
        <3> QED BY <3>1, <3>2, <3>3
    <2> QED BY <1>1, <2>1, <2>2
<1> QED BY <1>2

---------------------------------------------------------------------------
(* What a step leaves of a query.                                           *)

(* Snapshot s finds the same records in page p.                             *)
PageKept(p, s) ==
    /\ Len(recs'[p]) \in Nat /\ Len(recs[p]) <= Len(recs'[p])
    /\ \A i \in 1 .. Len(recs'[p]) : Matches(recs'[p][i], s) => i \in 1 .. Len(recs[p])
    /\ \A i \in 1 .. Len(recs[p]) :
          /\ Matches(recs'[p][i], s) <=> Matches(recs[p][i], s)
          /\ Matches(recs[p][i], s) => recs'[p][i].key = recs[p][i].key /\ recs'[p][i].val = recs[p][i].val

(* It stays as it is, and leads to the same page.                           *)
SnapKept(s) ==
    /\ s < clock' /\ \A v \in inflight' : s < v
    /\ \A k \in Keys : Values(k, s)' = Values(k, s)
    /\ Len(roots') \in Nat /\ Len(roots) <= Len(roots')
    /\ \A p \in 1 .. Len(roots) : Serves(p, s) => Serves(p, s)' /\ PageKept(p, s)

LEMMA FilterKept ==
    ASSUME NEW f, NEW p \in Pages, NEW s \in Nat, NEW lo, NEW hi, FilteredTo(f, p, s, lo, hi),
           Len(recs[p]) \in Nat, PageKept(p, s)
    PROVE  FilteredTo(f, p, s, lo, hi)'
<1>1. PICK n \in Nat, m \in Nat : n = Len(recs[p]) /\ m = Len(recs'[p]) /\ n <= m
    BY DEF PageKept
<1>2. /\ lo \in Nat \ {0} /\ hi \in Nat /\ hi <= n /\ lo <= hi + 1 /\ f \in Seq(Keys \X Int)
      /\ \A i \in 1 .. n : Matches(recs[p][i], s) => i <= hi
      /\ \A j, l \in 1 .. Len(f) : f[j] = f[l] => j = l
    BY <1>1 DEF FilteredTo
<1>3. /\ \A i \in 1 .. m : Matches(recs'[p][i], s) => i \in 1 .. n
      /\ \A i \in 1 .. n :
          /\ Matches(recs'[p][i], s) <=> Matches(recs[p][i], s)
          /\ Matches(recs[p][i], s) => recs'[p][i].key = recs[p][i].key /\ recs'[p][i].val = recs[p][i].val
    BY <1>1 DEF PageKept
<1>4. \A i \in 1 .. m : Matches(recs'[p][i], s) => i <= hi
    BY <1>2, <1>3
<1> DEFINE A == {l \in 1 .. lo - 1 : Matches(recs[p][l], s)}
           B == {l \in 1 .. lo - 1 : Matches(recs'[p][l], s)}
           P == {<<recs[p][i].key, recs[p][i].val>> : i \in A}
           Q == {<<recs'[p][i].key, recs'[p][i].val>> : i \in B}
<1>5. \A i \in 1 .. lo - 1 : i \in 1 .. n
    BY <1>2
<1>6. A = B
    BY <1>3, <1>5
<1>7. \A i \in A : recs'[p][i].key = recs[p][i].key /\ recs'[p][i].val = recs[p][i].val
    BY <1>3, <1>5
<1>8. P = Q
    <2> HIDE DEF A, B
    <2> QED BY <1>6, <1>7
<1>9. {f[j] : j \in 1 .. Len(f)} = P
    BY DEF FilteredTo
<1>11. {f[j] : j \in 1 .. Len(f)} = Q
    BY <1>8, <1>9
<1>12. (\A i \in 1 .. Len(recs[p]) : Matches(recs[p][i], s) => i <= hi)'
    BY <1>1, <1>4 DEF Matches, IsDeleted
<1>13. ({<<recs[p][i].key, recs[p][i].val>> : i \in {l \in 1 .. lo - 1 : Matches(recs[p][l], s)}})' = Q
    BY DEF Matches, IsDeleted
<1>14. hi <= Len(recs'[p])
    BY <1>1, <1>2
<1> HIDE DEF Q, P, A, B
<1> QED BY <1>2, <1>11, <1>12, <1>13, <1>14 DEF FilteredTo

LEMMA FindKept ==
    ASSUME NEW f, NEW q, NEW p \in Pages, NEW s \in Nat, NEW lo, NEW hi, FoundTo(f, q, p, s, lo, hi),
           Len(recs[p]) \in Nat, PageKept(p, s)
    PROVE  FoundTo(f, q, p, s, lo, hi)'
<1>1. PICK n \in Nat, m \in Nat : n = Len(recs[p]) /\ m = Len(recs'[p]) /\ n <= m
    BY DEF PageKept
<1>3. /\ \A i \in 1 .. m : Matches(recs'[p][i], s) => i \in 1 .. n
      /\ \A i \in 1 .. n :
          /\ Matches(recs'[p][i], s) <=> Matches(recs[p][i], s)
          /\ Matches(recs[p][i], s) => recs'[p][i].key = recs[p][i].key /\ recs'[p][i].val = recs[p][i].val
    BY <1>1 DEF PageKept
<1>4. Hits(p, q, s)' = {i \in 1 .. m : recs'[p][i].key = q /\ Matches(recs'[p][i], s)}
    BY <1>1 DEF Hits, Matches, IsDeleted
<1>5. Hits(p, q, s) = {i \in 1 .. n : recs[p][i].key = q /\ Matches(recs[p][i], s)}
    BY <1>1 DEF Hits
<1>6. \A i \in 1 .. n : i \in 1 .. m
    BY <1>1
<1>7. Hits(p, q, s)' = Hits(p, q, s)
    BY <1>3, <1>4, <1>5, <1>6
<1>8. \A i \in Hits(p, q, s) : recs'[p][i].key = recs[p][i].key /\ recs'[p][i].val = recs[p][i].val
    BY <1>3, <1>5
<1>9. /\ lo = 1 /\ hi \in Nat /\ hi <= m
      /\ \/ f = << >> /\ \A i \in Hits(p, q, s) : i <= hi
         \/ hi = 0 /\ \E i \in Hits(p, q, s) : f = << <<recs[p][i].key, recs[p][i].val>> >>
    BY <1>1 DEF FoundTo
<1>10. \/ f = << >> /\ \A i \in Hits(p, q, s)' : i <= hi
       \/ hi = 0 /\ \E i \in Hits(p, q, s)' : f = << <<recs'[p][i].key, recs'[p][i].val>> >>
    BY <1>7, <1>8, <1>9
<1> QED BY <1>1, <1>9, <1>10 DEF FoundTo

(* A query that looks at nothing in this step.                              *)
Onward(r) ==
    \/ rpc'[r] = rpc[r]
    \/ rpc[r] = "idle" /\ rpc'[r] = "draw"
    \/ rpc[r] = "register" /\ rpc'[r] = "root"
    \/ rpc[r] = "look" /\ rpc'[r] = "done" /\ left[r][1] > left[r][2]

LEMMA ReaderStays ==
    ASSUME RoomInv, NEW r \in Readers, ReaderAt(r),
           Onward(r), query'[r] = query[r], snap'[r] = snap[r], rpage'[r] = rpage[r], left'[r] = left[r],
           seen'[r] = seen[r], settled'[r] = settled[r], expect'[r] = expect[r], raced[r] => raced'[r],
           \A s \in Nat : s = snap[r] /\ settled[r] /\ ~raced'[r] /\ Quiet(s) => SnapKept(s)
    PROVE  ReaderAt(r)'
<1> SUFFICES ASSUME settled[r], ~raced'[r] PROVE Undisturbed(r)'
    BY DEF ReaderAt, Onward
<1>1. Undisturbed(r) /\ query[r] \in Keys \cup {AllKeys}
    BY DEF ReaderAt
<1>2. PICK s \in Nat : s = snap[r]
    BY <1>1 DEF Undisturbed
<1>3. PICK f, p, lo, hi : f = seen[r] /\ p = rpage[r] /\ lo = left[r][1] /\ hi = left[r][2]
    OBVIOUS
<1>4. PICK q \in Keys \cup {AllKeys} : q = query[r]
    BY <1>1
<1>5. /\ 1 <= s /\ Quiet(s)
      /\ expect[r] = Content(s, q)
      /\ rpc[r] \in {"len", "look", "done"} => p \in 1 .. Len(roots) /\ Serves(p, s)
      /\ rpc[r] \in {"look", "done"} =>
              /\ q = AllKeys => FilteredTo(f, p, s, lo, hi)
              /\ q # AllKeys => FoundTo(f, q, p, s, lo, hi)
      /\ rpc[r] = "done" => lo > hi
    BY <1>1, <1>2, <1>3, <1>4 DEF Undisturbed, Quiet
<1>6. SnapKept(s)
    BY <1>2, <1>5
<1>7. expect'[r] = Content(s, q)'
    BY <1>5, <1>6, ContentSame DEF SnapKept
<1>8. rpc[r] \in {"len", "look", "done"} => p \in 1 .. Len(roots') /\ Serves(p, s)' /\ PageKept(p, s) /\ p \in Pages
    <2> SUFFICES ASSUME rpc[r] \in {"len", "look", "done"}
                 PROVE  p \in 1 .. Len(roots') /\ Serves(p, s)' /\ PageKept(p, s) /\ p \in Pages
        OBVIOUS
    <2>1. Len(roots') \in Nat /\ Len(roots) <= Len(roots') /\ Len(roots) \in Nat /\ p \in Pages /\ p \in 1 .. Len(roots)
        BY <1>5, <1>6, RootPages DEF SnapKept
    <2>2. p \in 1 .. Len(roots')
        BY <2>1
    <2> QED BY <1>5, <1>6, <2>1, <2>2 DEF SnapKept
<1>9. rpc[r] \in {"look", "done"} =>
              /\ q = AllKeys => FilteredTo(f, p, s, lo, hi)'
              /\ q # AllKeys => FoundTo(f, q, p, s, lo, hi)'
    <2> SUFFICES ASSUME rpc[r] \in {"look", "done"}
                 PROVE  /\ q = AllKeys => FilteredTo(f, p, s, lo, hi)'
                        /\ q # AllKeys => FoundTo(f, q, p, s, lo, hi)'
        OBVIOUS
    <2>1. p \in Pages /\ PageKept(p, s) /\ Len(recs[p]) \in Nat
        BY <1>8, RecordFields
    <2> QED BY <1>5, <2>1, FilterKept, FindKept
<1>10. /\ f = seen'[r] /\ s = snap'[r] /\ p = rpage'[r] /\ lo = left'[r][1] /\ hi = left'[r][2] /\ q = query'[r]
    BY <1>2, <1>3, <1>4
<1>11. s < clock' /\ \A v \in inflight' : s < v
    BY <1>6 DEF SnapKept
<1>12. /\ rpc'[r] \in {"len", "look", "done"} => rpc[r] \in {"len", "look", "done"}
       /\ rpc'[r] \in {"look", "done"} => rpc[r] \in {"look", "done"}
       /\ rpc'[r] = "done" => lo > hi
    BY <1>3, <1>5 DEF Onward
<1> QED BY <1>5, <1>7, <1>8, <1>9, <1>10, <1>11, <1>12 DEF Undisturbed

LEMMA SameKept ==
    ASSUME RoomInv, NEW s \in Nat, UNCHANGED <<recs, roots>>, s < clock', \A v \in inflight' : s < v,
           \A k \in Keys : Values(k, s)' = Values(k, s)
    PROVE  SnapKept(s)
<1>1. Len(roots) \in Nat /\ Len(roots') = Len(roots)
    BY RootPages
<1>2. ASSUME NEW p \in 1 .. Len(roots), Serves(p, s) PROVE Serves(p, s)' /\ PageKept(p, s)
    <2>1. p \in Pages /\ Len(recs[p]) \in Nat
        BY <1>2, RootPages, RecordFields
    <2>2. Serves(p, s)'
        BY <1>2 DEF Serves
    <2>3. Len(recs'[p]) = Len(recs[p]) /\ \A i \in 1 .. Len(recs[p]) : recs'[p][i] = recs[p][i]
        OBVIOUS
    <2> QED BY <2>1, <2>2, <2>3 DEF PageKept
<1> QED BY <1>1, <1>2 DEF SnapKept

(* Pages that serve it are left alone, or change in ways it does not see.   *)
LEMMA PagesKept ==
    ASSUME RoomInv, NEW s \in Nat, Quiet(s), UNCHANGED <<clock, inflight, roots>>,
           \A k \in Keys : Values(k, s)' = Values(k, s), NEW q,
           \A p \in Pages \ {q} : recs'[p] = recs[p],
           q \in 1 .. Len(roots) => PageKept(q, s)
    PROVE  SnapKept(s)
<1>1. Len(roots) \in Nat /\ Len(roots') = Len(roots) /\ s < clock' /\ \A v \in inflight' : s < v
    BY RootPages DEF Quiet
<1>2. ASSUME NEW p \in 1 .. Len(roots), Serves(p, s) PROVE Serves(p, s)' /\ PageKept(p, s)
    <2>1. p \in Pages /\ Len(recs[p]) \in Nat
        BY <1>2, RootPages, RecordFields
    <2>2. Serves(p, s)'
        BY <1>2 DEF Serves
    <2>3. CASE p # q
        <3>1. Len(recs'[p]) = Len(recs[p]) /\ \A i \in 1 .. Len(recs[p]) : recs'[p][i] = recs[p][i]
            BY <2>1, <2>3
        <3> QED BY <2>1, <2>2, <3>1 DEF PageKept
    <2> QED BY <1>2, <2>2, <2>3
<1> QED BY <1>1, <1>2 DEF SnapKept

LEMMA DrawKept ==
    ASSUME RoomInv, VersionInv, BookInv, NEW w \in Writers, DrawStep(w), NEW s \in Nat, Quiet(s)
    PROVE  SnapKept(s)
<1>1. /\ clock \in Nat /\ clock' = clock + 1 /\ inflight' = inflight \cup {clock} /\ UNCHANGED <<recs, roots>>
      /\ \/ book' = book
         \/ wpc[w] \in {"latched", "validate"} /\ (Note(clock, key[w], clock) \/ Note(clock, key[w], Gone))
    BY DrawFacts
<1>2. s < clock' /\ \A v \in inflight' : s < v
    <2>1. s < clock /\ \A v \in inflight : s < v
        BY DEF Quiet
    <2> QED BY <1>1, <2>1
<1>3. ASSUME NEW j \in Keys PROVE Values(j, s)' = Values(j, s)
    <2>1. CASE book' = book
        BY <2>1, SameHistory
    <2>2. CASE book' # book
        <3>1. PICK k \in Keys, x \in Int : Note(clock, k, x)
            <4>1. wpc[w] \in LatchedPCs
                BY <1>1, <2>2 DEF LatchedPCs
            <4>2. key[w] \in Keys
                BY <4>1, InPage
            <4> QED BY <1>1, <2>2, <4>2 DEF Gone
        <3>2. book \subseteq Entries /\ (\A e \in book : e.ver < clock) /\ s < clock
            BY DEF BookInv, Entries, Quiet
        <3> QED BY <1>1, <3>1, <3>2, NoteChange
    <2> QED BY <2>1, <2>2
<1> QED BY <1>1, <1>2, <1>3, SameKept

LEMMA AppendKept ==
    ASSUME RoomInv, VersionInv, NEW w \in Writers, AppendRoot(w), NEW s \in Nat, Quiet(s)
    PROVE  SnapKept(s)
<1>1. /\ wpc[w] = "append" /\ NewPage \in Pages /\ UNCHANGED <<clock, inflight, recs, book>>
      /\ Len(roots') = NewPage /\ roots'[NewPage] = ver[w] /\ \A p \in 1 .. Len(roots) : roots'[p] = roots[p]
    BY AppendFacts
<1>2. s < ver[w]
    BY <1>1 DEF VersionInv, CommittingPCs, Quiet
<1>3. PICK n \in Nat : n = Len(roots) /\ NewPage = n + 1
    BY RootPages DEF NewPage
<1>4. ASSUME NEW p \in 1 .. Len(roots), Serves(p, s) PROVE Serves(p, s)' /\ PageKept(p, s)
    <2>1. p \in Pages /\ Len(recs[p]) \in Nat /\ roots'[p] = roots[p] /\ roots[p] <= s
        BY <1>1, <1>4, RootPages, RecordFields DEF Serves
    <2>2. \A l \in p + 1 .. n + 1 : l \in p + 1 .. n \/ l = n + 1
        BY <1>3, <1>4
    <2>3. \A l \in p + 1 .. n : s < roots'[l]
        BY <1>1, <1>3, <1>4 DEF Serves
    <2>4. \A l \in p + 1 .. Len(roots') : s < roots'[l]
        BY <1>1, <1>2, <1>3, <2>2, <2>3
    <2>5. Serves(p, s)'
        BY <2>1, <2>4 DEF Serves
    <2>6. Len(recs'[p]) = Len(recs[p]) /\ \A i \in 1 .. Len(recs[p]) : recs'[p][i] = recs[p][i]
        BY <1>1
    <2> QED BY <2>1, <2>5, <2>6 DEF PageKept
<1>5. \A k \in Keys : Values(k, s)' = Values(k, s)
    BY <1>1, SameHistory
<1>6. s < clock' /\ (\A v \in inflight' : s < v) /\ Len(roots') \in Nat /\ Len(roots) <= Len(roots')
    BY <1>1, <1>3 DEF Quiet
<1> QED BY <1>4, <1>5, <1>6 DEF SnapKept

LEMMA PushKept ==
    ASSUME RoomInv, VersionInv, NEW w \in Writers, UNCHANGED setup, PushUncommitted(w), NEW s \in Nat, Quiet(s)
    PROVE  SnapKept(s)
<1>1. PICK q \in Pages, n \in Nat, k \in Keys, v \in Nat : q = at[w] /\ n = Len(recs[q]) /\ k = key[w] /\ v = ver[w]
    BY PushFacts
<1>2. /\ wpc[w] = "push" /\ UNCHANGED <<clock, inflight, roots, book>>
      /\ \A p \in Pages \ {q} : recs'[p] = recs[p]
      /\ Len(recs'[q]) = n + 1 /\ recs'[q][n + 1] = Record(k, v)
      /\ \A i \in 1 .. n : recs'[q][i] = recs[q][i]
    BY <1>1, PushFacts
<1>3. s < v
    BY <1>1, <1>2 DEF VersionInv, CommittingPCs, Quiet
<1>4. ~Matches(recs'[q][n + 1], s)
    <2>1. recs'[q][n + 1].ins = v
        BY <1>2 DEF Record
    <2> QED BY <1>3, <2>1 DEF Matches
<1>5. \A i \in 1 .. n + 1 : i \in 1 .. n \/ i = n + 1
    OBVIOUS
<1>6. PageKept(q, s)
    BY <1>1, <1>2, <1>4, <1>5 DEF PageKept
<1>7. \A j \in Keys : Values(j, s)' = Values(j, s)
    BY <1>2, SameHistory
<1> QED BY <1>2, <1>6, <1>7, PagesKept

LEMMA KillKept ==
    ASSUME RoomInv, LifeInv, VersionInv, NEW w \in Writers, UNCHANGED setup, Kill(w), NEW s \in Nat, Quiet(s)
    PROVE  SnapKept(s)
<1>1. PICK q \in Pages, n \in Nat, v \in Nat : q = at[w] /\ n = Len(recs[q]) /\ v = ver[w]
    BY KillFacts
<1>2. /\ wpc[w] = "kill" /\ UNCHANGED <<clock, inflight, roots, book>>
      /\ \A p \in Pages \ {q} : recs'[p] = recs[p]
      /\ \E i \in 1 .. n : Ends(w, q, n, i)
    BY <1>1, KillFacts
<1>3. s < v
    BY <1>1, <1>2 DEF VersionInv, CommittingPCs, Quiet
<1>4. PICK i \in 1 .. n : Ends(w, q, n, i)
    BY <1>2
<1>5. /\ Len(recs'[q]) = n /\ \A j \in 1 .. n : j # i => recs'[q][j] = recs[q][j]
      /\ recs'[q][i].key = recs[q][i].key /\ recs'[q][i].ins = recs[q][i].ins /\ recs'[q][i].val = recs[q][i].val
      /\ recs'[q][i].del = v /\ recs[q][i].del = 0
    BY <1>1, <1>4 DEF Ends
<1>6. Matches(recs'[q][i], s) <=> Matches(recs[q][i], s)
    BY <1>3, <1>5 DEF Matches, IsDeleted
<1>7. PageKept(q, s)
    BY <1>1, <1>5, <1>6 DEF PageKept
<1>8. \A j \in Keys : Values(j, s)' = Values(j, s)
    BY <1>2, SameHistory
<1> QED BY <1>2, <1>7, <1>8, PagesKept

(* An update in place leaves alone the snapshots older than the record.     *)
LEMMA OverwriteKept ==
    ASSUME RoomInv, BookInv, VersionInv, NEW w \in Writers, Overwrite(w), NEW s \in Nat, Quiet(s),
           s < recs[at[w]][RFind(at[w], key[w], Length(at[w]))].ins
    PROVE  SnapKept(s)
<1>0. FoundAt(w)
    BY DEF BookInv
<1>1. PICK q \in Pages, n \in Nat, k \in Keys : q = at[w] /\ n = Len(recs[q]) /\ k = key[w]
    BY <1>0, OverwriteFacts
<1>2. /\ UNCHANGED <<clock, inflight, roots>>
      /\ \A p \in Pages \ {q} : recs'[p] = recs[p]
      /\ \E i \in 1 .. n : \E f \in Nat : Revives(w, q, n, i, f) /\ i = RFind(q, key[w], Length(q))
    BY <1>0, <1>1, OverwriteFacts
<1>3. PICK i \in 1 .. n, f \in Nat : Revives(w, q, n, i, f) /\ i = RFind(q, key[w], Length(q))
    BY <1>2
<1>4. s < recs[q][i].ins /\ recs[q][i].ins \in Nat /\ recs[q][i].val \in Int
    BY <1>1, <1>3, Fields
<1>5. /\ Len(recs'[q]) = n /\ \A j \in 1 .. n : j # i => recs'[q][j] = recs[q][j]
      /\ recs'[q][i].ins = recs[q][i].ins /\ recs[q][i].ins <= f
      /\ book' = {e \in book : e.key = k => e.ver < f} \cup {[ver |-> f, key |-> k, val |-> -recs[q][i].val]}
    BY <1>1, <1>3 DEF Revives
<1>6. ~Matches(recs'[q][i], s) /\ ~Matches(recs[q][i], s)
    BY <1>4, <1>5 DEF Matches
<1>7. PageKept(q, s)
    BY <1>1, <1>5, <1>6 DEF PageKept
<1>8. ASSUME NEW j \in Keys PROVE Values(j, s)' = Values(j, s)
    <2>1. book \subseteq Entries /\ s < f
        BY <1>4, <1>5 DEF BookInv, Entries
    <2>2. PICK x \in Int : x = -recs[q][i].val
        BY <1>4
    <2> QED BY <1>5, <2>1, <2>2, HistoryChange
<1> QED BY <1>2, <1>7, <1>8, PagesKept

LEMMA WriterKept ==
    ASSUME RoomInv, LifeInv, VersionInv, BookInv, NEW w \in Writers, WriterStep(w), UNCHANGED setup,
           NEW s \in Nat, Quiet(s),
           Overwrite(w) => s < recs[at[w]][RFind(at[w], key[w], Length(at[w]))].ins
    PROVE  SnapKept(s)
<1>1. CASE QuietStep(w)
    <2>1. UNCHANGED <<clock, inflight, recs, roots, book>>
        BY <1>1, QuietUnchanged
    <2>2. \A j \in Keys : Values(j, s)' = Values(j, s)
        BY <2>1, SameHistory
    <2> QED BY <2>1, <2>2, SameKept DEF Quiet
<1>2. CASE EndStep(w)
    <2>1. UNCHANGED <<clock, recs, roots, book>> /\ inflight' \subseteq inflight
        BY <1>2, EndFacts
    <2>2. \A j \in Keys : Values(j, s)' = Values(j, s)
        BY <2>1, SameHistory
    <2> QED BY <2>1, <2>2, SameKept DEF Quiet
<1>3. CASE BulkPush(w)
    <2>1. UNCHANGED <<clock, inflight, roots, book>> /\ \A p \in Pages \ {NewPage} : recs'[p] = recs[p]
        BY <1>3, BulkPushFacts
    <2>2. \A j \in Keys : Values(j, s)' = Values(j, s)
        BY <2>1, SameHistory
    <2>3. NewPage \notin 1 .. Len(roots)
        BY RootPages DEF NewPage
    <2> QED BY <2>1, <2>2, <2>3, PagesKept
<1>4. CASE DrawStep(w)
    BY <1>4, DrawKept
<1>5. CASE AppendRoot(w)
    BY <1>5, AppendKept
<1>6. CASE PushUncommitted(w)
    BY <1>6, PushKept
<1>7. CASE Kill(w)
    BY <1>7, KillKept
<1>8. CASE Overwrite(w)
    BY <1>8, OverwriteKept
<1> QED BY <1>1, <1>2, <1>3, <1>4, <1>5, <1>6, <1>7, <1>8 DEF WriterStep

(* What the steps of a writer do to the readers' state.                     *)
LEMMA WriterAside ==
    ASSUME RoomInv, LifeInv, NEW w \in Writers, FoundAt(w), WriterStep(w), UNCHANGED setup
    PROVE  /\ OthersStay(w) /\ (wpc[w] # "idle" \/ wpc'[w] # "idle")
           /\ UNCHANGED <<rpc, query, snap, rpage, left, seen, settled, expect>>
           /\ wpc'[w] = "overwrite" => PeekMax(w)
           /\ \/ raced' = raced /\ (known' = known \/ PeekMax(w))
              \/ /\ Overwrite(w) /\ known' = [known EXCEPT ![w] = {}]
                 /\ raced' = [r \in Readers |-> raced[r] \/ (rpc[r] # "idle" /\ r \notin known[w])]
<1>1. CASE QuietStep(w)
    <2>1. OthersStay(w) /\ (wpc[w] # "idle" \/ wpc'[w] # "idle") /\ (wpc'[w] = "overwrite" => PeekMax(w))
        BY <1>1, QuietMoves DEF CommittingPCs
    <2>2. UNCHANGED readerState
        BY <1>1, QuietUnchanged
    <2>3. known' = known \/ PeekMax(w)
        <3> USE DEF writerVars
        <3>1. CASE Dispatch(w) \/ BorrowMaster(w) \/ LoadRoot(w) \/ BorrowLeaf(w) \/ UnsafeDegreeRoot(w)
            BY <3>1 DEF Dispatch, BorrowMaster, LoadRoot, BorrowLeaf, UnsafeDegreeRoot
        <3>2. CASE UpgradeMaster(w) \/ UpgradeLeaf(w) \/ Collect(w) \/ UnlatchMaster(w)
            BY <3>2 DEF UpgradeMaster, UpgradeLeaf, Collect, UnlatchMaster
        <3>3. CASE Reject(w) \/ StartUpdate(w) \/ Unlatch(w)
            BY <3>3 DEF Reject, StartUpdate, Unlatch
        <3>4. CASE CommitRevived(w) \/ CommitLen(w) \/ CommitDead(w)
            BY <3>4 DEF CommitRevived, CommitLen, CommitDead
        <3> QED BY <1>1, <3>1, <3>2, <3>3, <3>4 DEF QuietStep
    <2> QED BY <2>1, <2>2, <2>3 DEF readerState
<1>2. CASE DrawStep(w)
    BY <1>2, DrawFacts DEF readerState
<1>3. CASE EndStep(w)
    BY <1>3, EndFacts DEF readerState
<1>4. CASE BulkPush(w)
    BY <1>4, BulkPushFacts DEF readerState
<1>5. CASE AppendRoot(w)
    BY <1>5, AppendFacts DEF readerState
<1>6. CASE PushUncommitted(w)
    BY <1>6, PushFacts DEF readerState
<1>7. CASE Kill(w)
    BY <1>7, KillFacts DEF readerState
<1>8. CASE Overwrite(w)
    BY <1>8, OverwriteFacts
<1> QED BY <1>1, <1>2, <1>3, <1>4, <1>5, <1>6, <1>7, <1>8 DEF WriterStep

LEMMA WriterReaders ==
    ASSUME RoomInv, LifeInv, LifeInv', VersionInv, BookInv, ReaderInv, NEW w \in Writers, WriterStep(w),
           UNCHANGED setup
    PROVE  ReaderInv'
<1>0. FoundAt(w)
    BY DEF BookInv
<1>1. /\ OthersStay(w) /\ (wpc[w] # "idle" \/ wpc'[w] # "idle")
      /\ UNCHANGED <<rpc, query, snap, rpage, left, seen, settled, expect>>
      /\ wpc'[w] = "overwrite" => PeekMax(w)
    BY <1>0, WriterAside
<1>2. \/ raced' = raced /\ (known' = known \/ PeekMax(w))
      \/ /\ Overwrite(w) /\ known' = [known EXCEPT ![w] = {}]
         /\ raced' = [r \in Readers |-> raced[r] \/ (rpc[r] # "idle" /\ r \notin known[w])]
    BY <1>0, WriterAside
<1>3. known \in [Writers -> SUBSET Readers] /\ wpc \in [Writers -> WriterPCs]
    BY DEF ReaderInv, RoomInv, TypeInv
<1>4. known' \in [Writers -> SUBSET Readers]
    <2>1. CASE PeekMax(w)
        <3> DEFINE live == {r \in Readers : Registered(r)}
                   i    == RFind(at[w], key[w], Length(at[w]))
                   S    == IF i # 0 /\ \A r \in live : recs[at[w]][i].ins > snap[r] THEN live ELSE {}
        <3>1. known' = [known EXCEPT ![w] = S]
            BY <2>1 DEF PeekMax
        <3>2. live \in SUBSET Readers
            OBVIOUS
        <3>3. S \in SUBSET Readers
            <4> HIDE DEF live, i
            <4> QED BY <3>2
        <3> HIDE DEF S
        <3> QED BY <1>3, <3>1, <3>3
    <2>2. CASE known' = [known EXCEPT ![w] = {}]
        BY <1>3, <2>2
    <2>3. CASE known' = known
        BY <1>3, <2>3
    <2> QED BY <1>2, <2>1, <2>2, <2>3
<1>5. ASSUME NEW r \in Readers PROVE ReaderAt(r)'
    <2>1. raced[r] => raced'[r]
        BY <1>2, <1>5
    <2>2. ReaderAt(r)
        BY <1>5 DEF ReaderInv
    <2>3. ASSUME NEW s \in Nat, s = snap[r], settled[r], ~raced'[r], Quiet(s) PROVE SnapKept(s)
        <3>1. Overwrite(w) => s < recs[at[w]][RFind(at[w], key[w], Length(at[w]))].ins
            <4> SUFFICES ASSUME Overwrite(w) PROVE s < recs[at[w]][RFind(at[w], key[w], Length(at[w]))].ins
                OBVIOUS
            <4>1. rpc[r] # "idle" /\ wpc[w] = "overwrite"
                BY <2>2, <2>3 DEF ReaderAt, Overwrite
            <4>2. raced'[r] = (raced[r] \/ (rpc[r] # "idle" /\ r \notin known[w]))
                BY <1>0, <1>5, OverwriteFacts
            <4>3. r \in known[w]
                BY <2>3, <4>1, <4>2
            <4> QED BY <2>3, <4>1, <4>3 DEF ReaderInv, KnownAt
        <3> QED BY <2>3, <3>1, WriterKept
    <2>4. \A s \in Nat : s = snap[r] /\ settled[r] /\ ~raced'[r] /\ Quiet(s) => SnapKept(s)
        BY <2>3
    <2>5. Onward(r)
        BY <1>1 DEF Onward
    <2> QED BY <1>1, <1>5, <2>1, <2>2, <2>4, <2>5, ReaderStays
<1>6. \A u \in Writers \ {w} : KnownAt(u)'
    <2> SUFFICES ASSUME NEW u \in Writers \ {w}, wpc'[u] = "overwrite" PROVE FALSE
        BY DEF KnownAt
    <2>1. wpc[u] = "overwrite" /\ op[u] = "update"
        BY <1>1 DEF OthersStay, LifeInv, CommitAt
    <2> QED BY <1>1, <2>1, UpdaterMoves
<1>7. KnownAt(w)'
    <2> SUFFICES ASSUME wpc'[w] = "overwrite"
                 PROVE  (\A r \in known[w] : Registered(r) /\ snap[r] < recs[at[w]][RFind(at[w], key[w], Length(at[w]))].ins)'
        BY DEF KnownAt
    <2>1. PeekMax(w) /\ UNCHANGED <<recs, active, dead, at, key, rpc, snap>>
        BY <1>1 DEF PeekMax, pageVars
    <2> DEFINE live == {r \in Readers : Registered(r)}
               i    == RFind(at[w], key[w], Length(at[w]))
               free == i # 0 /\ \A r \in live : recs[at[w]][i].ins > snap[r]
    <2>2. wpc' = [wpc EXCEPT ![w] = IF free THEN "overwrite" ELSE "validate"] /\ known' = [known EXCEPT ![w] = IF free THEN live ELSE {}]
        BY <2>1 DEF PeekMax
    <2> HIDE DEF live, free, i
    <2>3. free
        BY <1>3, <2>2
    <2>4. known'[w] = live
        BY <1>3, <2>2, <2>3
    <2>5. i' = i
        BY <2>1 DEF i, RFind, Length
    <2>6. \A r \in live : Registered(r)' /\ snap'[r] = snap[r]
        BY <2>1 DEF live, Registered
    <2>7. PICK x : x = recs[at[w]][i].ins
        OBVIOUS
    <2>8. x = recs'[at'[w]][i'].ins
        BY <2>1, <2>5, <2>7
    <2>9. \A r \in live : snap[r] < x
        BY <2>3, <2>7 DEF free
    <2>10. \A r \in known'[w] : Registered(r)' /\ snap'[r] < x
        BY <2>4, <2>6, <2>9
    <2> QED BY <2>8, <2>10 DEF i
<1>8. \A u \in Writers : KnownAt(u)'
    BY <1>6, <1>7
<1>9. (/\ OnReaders(rpc) /\ OnReaders(query) /\ OnReaders(snap) /\ OnReaders(rpage) /\ OnReaders(left)
       /\ OnReaders(seen) /\ OnReaders(settled) /\ OnReaders(expect))'
    BY <1>1 DEF ReaderInv, OnReaders
<1>10. OnReaders(raced)'
    BY <1>2 DEF ReaderInv, OnReaders
<1> QED BY <1>4, <1>5, <1>8, <1>9, <1>10 DEF ReaderInv

---------------------------------------------------------------------------
(* The steps of a reader.                                                   *)

(* Only reader r moves.                                                     *)
Moved(f, g, r) == OnReaders(g) /\ \A x \in Readers \ {r} : g[x] = f[x]

LEMMA MovedSame == ASSUME NEW f, OnReaders(f), NEW r \in Readers PROVE Moved(f, f, r)
BY DEF Moved

MovesAlone(r) ==
    /\ Moved(rpc, rpc', r) /\ Moved(query, query', r) /\ Moved(snap, snap', r) /\ Moved(rpage, rpage', r)
    /\ Moved(left, left', r) /\ Moved(seen, seen', r) /\ Moved(settled, settled', r) /\ Moved(raced, raced', r)
    /\ Moved(expect, expect', r)

(* The others stay, and a known query is known until it closes.             *)
LEMMA OneReader ==
    ASSUME RoomInv, ReaderInv, NEW r \in Readers, MovesAlone(r), UNCHANGED <<core, inflight, book>>,
           \/ known' = known /\ (Registered(r) => Registered(r)' /\ snap'[r] = snap[r])
           \/ known' = [w \in Writers |-> known[w] \ {r}],
           ReaderAt(r)'
    PROVE  ReaderInv'
<1>1. UNCHANGED <<clock, recs, active, dead, roots, wpc, at, key>>
    BY DEF core
<1>2. /\ \A x \in Readers \ {r} : /\ rpc'[x] = rpc[x] /\ query'[x] = query[x] /\ snap'[x] = snap[x]
                                  /\ rpage'[x] = rpage[x] /\ left'[x] = left[x] /\ seen'[x] = seen[x]
                                  /\ settled'[x] = settled[x] /\ raced'[x] = raced[x] /\ expect'[x] = expect[x]
    BY DEF MovesAlone, Moved
<1>3. ASSUME NEW x \in Readers \ {r} PROVE ReaderAt(x)'
    <2>1. ASSUME NEW s \in Nat, Quiet(s) PROVE SnapKept(s)
        <3>1. \A k \in Keys : Values(k, s)' = Values(k, s)
            BY SameHistory
        <3> QED BY <1>1, <2>1, <3>1, SameKept DEF Quiet
    <2>2. ReaderAt(x) /\ Onward(x)
        BY <1>2, <1>3 DEF ReaderInv, Onward
    <2> QED BY <1>2, <1>3, <2>1, <2>2, ReaderStays
<1>4. ASSUME NEW w \in Writers PROVE KnownAt(w)'
    <2> SUFFICES ASSUME wpc[w] = "overwrite"
                 PROVE  (\A x \in known[w] : Registered(x) /\ snap[x] < recs[at[w]][RFind(at[w], key[w], Length(at[w]))].ins)'
        BY <1>1, <1>4 DEF KnownAt
    <2>1. PICK i : i = RFind(at[w], key[w], Length(at[w]))
        OBVIOUS
    <2>2. i = RFind(at[w], key[w], Length(at[w]))'
        BY <1>1, <2>1 DEF RFind, Length
    <2>3. \A x \in known[w] : x \in Readers /\ Registered(x) /\ snap[x] < recs[at[w]][i].ins
        BY <1>4, <2>1 DEF ReaderInv, KnownAt
    <2>4. \A x \in Readers \ {r} : Registered(x) => Registered(x)' /\ snap'[x] = snap[x]
        BY <1>2 DEF Registered
    <2>5. ASSUME NEW x \in known'[w] PROVE x \in known[w] /\ (Registered(x) => Registered(x)' /\ snap'[x] = snap[x])
        <3>1. CASE known' = known /\ (Registered(r) => Registered(r)' /\ snap'[r] = snap[r])
            BY <2>3, <2>4, <2>5, <3>1
        <3>2. CASE known' = [u \in Writers |-> known[u] \ {r}]
            <4>1. x \in known[w] /\ x # r
                BY <1>4, <2>5, <3>2
            <4> QED BY <2>3, <2>4, <4>1
        <3> QED BY <3>1, <3>2
    <2> QED BY <1>1, <2>2, <2>3, <2>5
<1>5. \A x \in Readers : ReaderAt(x)'
    BY <1>3
<1>6. (/\ OnReaders(rpc) /\ OnReaders(query) /\ OnReaders(snap) /\ OnReaders(rpage) /\ OnReaders(left)
       /\ OnReaders(seen) /\ OnReaders(settled) /\ OnReaders(raced) /\ OnReaders(expect))'
    BY DEF MovesAlone, Moved, OnReaders
<1>7. known' \in [Writers -> SUBSET Readers]
    BY DEF ReaderInv
<1> QED BY <1>4, <1>5, <1>6, <1>7 DEF ReaderInv

(* What a settled snapshot finds stays, as a reader moves.                  *)
LEMMA AsideKept ==
    ASSUME RoomInv, UNCHANGED <<core, inflight, book>>, NEW s \in Nat, Quiet(s)
    PROVE  SnapKept(s) /\ \A q \in Keys \cup {AllKeys} : Content(s, q)' = Content(s, q)
<1>1. \A k \in Keys : Values(k, s)' = Values(k, s)
    BY SameHistory
<1>2. UNCHANGED <<clock, recs, roots>>
    BY DEF core
<1> QED BY <1>1, <1>2, SameKept, ContentSame DEF Quiet

LEMMA GoOn ==
    ASSUME RoomInv, ReaderInv, NEW r \in Readers, UNCHANGED <<core, inflight, book>>,
           PinReader(r) \/ Register(r) \/ Answer(r)
    PROVE  ReaderInv'
<1>1. UNCHANGED <<query, snap, rpage, left, seen, settled, raced, expect, known>>
    BY DEF PinReader, Register, Answer, writerVars
<1>2. /\ OnReaders(rpc) /\ OnReaders(query) /\ OnReaders(snap) /\ OnReaders(rpage) /\ OnReaders(left)
      /\ OnReaders(seen) /\ OnReaders(settled) /\ OnReaders(raced) /\ OnReaders(expect) /\ ReaderAt(r)
    BY DEF ReaderInv
<1>3. \/ rpc[r] = "idle" /\ rpc' = [rpc EXCEPT ![r] = "draw"]
      \/ rpc[r] = "register" /\ rpc' = [rpc EXCEPT ![r] = "root"]
      \/ rpc[r] = "look" /\ rpc' = [rpc EXCEPT ![r] = "done"] /\ left[r][1] > left[r][2]
    BY DEF PinReader, Register, Answer, RGoto
<1>4. Moved(rpc, rpc', r) /\ Onward(r) /\ (Registered(r) => Registered(r)')
    <2>1. PICK x : rpc' = [rpc EXCEPT ![r] = x]
        BY <1>3
    <2>2. Moved(rpc, rpc', r)
        BY <1>2, <2>1 DEF Moved, OnReaders
    <2>3. \/ rpc[r] = "idle" /\ rpc'[r] = "draw"
          \/ rpc[r] = "register" /\ rpc'[r] = "root"
          \/ rpc[r] = "look" /\ rpc'[r] = "done" /\ left[r][1] > left[r][2]
        BY <1>2, <1>3 DEF OnReaders
    <2> QED BY <2>2, <2>3 DEF Onward, Registered
<1>5. MovesAlone(r)
    BY <1>1, <1>2, <1>4, MovedSame DEF MovesAlone
<1>6. ReaderAt(r)'
    BY <1>1, <1>2, <1>4, AsideKept, ReaderStays
<1> QED BY <1>1, <1>4, <1>5, <1>6, OneReader

(* A snapshot is settled when every commit it may include is over: what the *)
(* history has of it then is what is expected.                              *)
LEMMA OpenStep ==
    ASSUME RoomInv, VersionInv, ReaderInv, NEW r \in Readers, UNCHANGED <<core, inflight, book>>,
           DrawSnapshot(r) \/ AskForVersion(r)
    PROVE  ReaderInv'
<1>1. UNCHANGED <<rpage, left, seen, raced, known>>
    BY DEF DrawSnapshot, AskForVersion, writerVars
<1>2. /\ OnReaders(rpc) /\ OnReaders(query) /\ OnReaders(snap) /\ OnReaders(rpage) /\ OnReaders(left)
      /\ OnReaders(seen) /\ OnReaders(settled) /\ OnReaders(raced) /\ OnReaders(expect) /\ ReaderAt(r)
    BY DEF ReaderInv
<1>3. PICK q \in Keys \cup {AllKeys}, s \in Nat : s >= 1 /\ Open(r, s, q)
    <2>1. CASE DrawSnapshot(r)
        <3>1. wm \in Nat /\ wm >= 1
            BY DEF VersionInv
        <3> QED BY <2>1, <3>1 DEF DrawSnapshot
    <2>2. CASE AskForVersion(r)
        <3>1. PICK s \in (1 .. clock - 1) \ inflight, q \in Keys \cup {AllKeys} : Open(r, s, q)
            BY <2>2 DEF AskForVersion
        <3>2. s \in Nat /\ s >= 1
            OBVIOUS
        <3> QED BY <3>1, <3>2
    <2> QED BY <2>1, <2>2
<1>4. \/ rpc[r] = "draw" /\ rpc' = [rpc EXCEPT ![r] = "register"]
      \/ rpc[r] = "idle" /\ rpc' = [rpc EXCEPT ![r] = "root"]
    BY DEF DrawSnapshot, AskForVersion, RGoto
<1>5. Moved(rpc, rpc', r) /\ rpc'[r] \in {"register", "root"} /\ ~Registered(r)
    BY <1>2, <1>4 DEF Registered, Moved, OnReaders
<1> DEFINE done == s < clock /\ \A v \in inflight : s < v
           old == IF done THEN Content(s, q) ELSE {}
<1>6. /\ snap' = [snap EXCEPT ![r] = s] /\ query' = [query EXCEPT ![r] = q]
      /\ settled' = [settled EXCEPT ![r] = done] /\ expect' = [expect EXCEPT ![r] = old]
    BY <1>3 DEF Open
<1> HIDE DEF done, old
<1>7. /\ Moved(snap, snap', r) /\ snap'[r] = s /\ Moved(query, query', r) /\ query'[r] = q
      /\ Moved(settled, settled', r) /\ settled'[r] = done /\ Moved(expect, expect', r) /\ expect'[r] = old
    <2>1. Moved(snap, snap', r) /\ snap'[r] = s
        BY <1>2, <1>6 DEF Moved, OnReaders
    <2>2. Moved(query, query', r) /\ query'[r] = q
        BY <1>2, <1>6 DEF Moved, OnReaders
    <2>3. Moved(settled, settled', r) /\ settled'[r] = done
        BY <1>2, <1>6 DEF Moved, OnReaders
    <2>4. Moved(expect, expect', r) /\ expect'[r] = old
        BY <1>2, <1>6 DEF Moved, OnReaders
    <2> QED BY <2>1, <2>2, <2>3, <2>4
<1>8. MovesAlone(r)
    BY <1>1, <1>2, <1>5, <1>7, MovedSame DEF MovesAlone
<1>9. seen'[r] = << >>
    BY <1>1, <1>2, <1>4 DEF ReaderAt
<1>10. settled'[r] => Undisturbed(r)'
    <2> SUFFICES ASSUME settled'[r] PROVE Undisturbed(r)'
        OBVIOUS
    <2>1. Quiet(s) /\ old = Content(s, q)
        BY <1>7 DEF done, old, Quiet
    <2>2. SnapKept(s) /\ Content(s, q)' = Content(s, q)
        BY <2>1, AsideKept
    <2>3. expect'[r] = Content(s, q)' /\ s < clock' /\ \A v \in inflight' : s < v
        BY <1>7, <2>1, <2>2 DEF SnapKept
    <2> QED BY <1>3, <1>5, <1>7, <2>3 DEF Undisturbed
<1>11. ReaderAt(r)'
    BY <1>5, <1>7, <1>9, <1>10 DEF ReaderAt
<1> QED BY <1>1, <1>5, <1>8, <1>11, OneReader

(* The newest root that is not younger serves the snapshot.                 *)
LEMMA RootForStep ==
    ASSUME RoomInv, VersionInv, ReaderInv, NEW r \in Readers, UNCHANGED <<core, inflight, book>>, RootFor(r)
    PROVE  ReaderInv'
<1>1. UNCHANGED <<query, snap, left, seen, settled, raced, expect, known>>
    BY DEF RootFor, writerVars
<1>2. /\ OnReaders(rpc) /\ OnReaders(query) /\ OnReaders(snap) /\ OnReaders(rpage) /\ OnReaders(left)
      /\ OnReaders(seen) /\ OnReaders(settled) /\ OnReaders(raced) /\ OnReaders(expect) /\ ReaderAt(r)
    BY DEF ReaderInv
<1> DEFINE S == {p \in 1 .. Len(roots) : roots[p] <= snap[r]}
<1>3. rpc[r] = "root" /\ rpc' = [rpc EXCEPT ![r] = "len"] /\ rpage' = [rpage EXCEPT ![r] = Max(S)]
    BY DEF RootFor, RGoto
<1>4. Moved(rpc, rpc', r) /\ rpc'[r] = "len" /\ Moved(rpage, rpage', r) /\ rpage'[r] = Max(S)
    <2>1. Moved(rpc, rpc', r) /\ rpc'[r] = "len"
        BY <1>2, <1>3 DEF Moved, OnReaders
    <2> DEFINE m == Max(S)
    <2>2. rpage' = [rpage EXCEPT ![r] = m]
        BY <1>3
    <2> HIDE DEF m
    <2>3. Moved(rpage, rpage', r) /\ rpage'[r] = m
        BY <1>2, <2>2 DEF Moved, OnReaders
    <2> QED BY <2>1, <2>3 DEF m
<1>5. MovesAlone(r)
    BY <1>1, <1>2, <1>4, MovedSame DEF MovesAlone
<1>6. ASSUME settled'[r], ~raced'[r] PROVE Undisturbed(r)'
    <2>1. Undisturbed(r) /\ query[r] \in Keys \cup {AllKeys}
        BY <1>1, <1>2, <1>6 DEF ReaderAt
    <2>2. PICK s \in Nat, q \in Keys \cup {AllKeys} : s = snap[r] /\ q = query[r]
        BY <2>1 DEF Undisturbed
    <2>3. 1 <= s /\ Quiet(s) /\ expect[r] = Content(s, q)
        BY <2>1, <2>2 DEF Undisturbed, Quiet
    <2>4. SnapKept(s) /\ Content(s, q)' = Content(s, q)
        BY <2>3, AsideKept
    <2>5. PICK n \in Nat : n = Len(roots) /\ n >= 1 /\ \A p \in 1 .. n : roots[p] \in Nat
        BY RootPages
    <2>6. 1 \in S /\ S \in SUBSET (0 .. n)
        BY <2>2, <2>3, <2>5 DEF VersionInv
    <2>7. Max(S) \in S /\ \A p \in S : p <= Max(S)
        BY <2>6, MaxFacts
    <2>8. PICK p \in 1 .. n : p = Max(S) /\ roots[p] <= s
        BY <2>2, <2>5, <2>7
    <2>9. \A l \in p + 1 .. n : s < roots[l]
        <3> SUFFICES ASSUME NEW l \in p + 1 .. n, ~(s < roots[l]) PROVE FALSE
            OBVIOUS
        <3>1. l \in 1 .. n /\ roots[l] \in Nat
            BY <2>5
        <3>2. l \in S
            BY <2>2, <2>5, <3>1
        <3>3. l <= p
            BY <2>7, <2>8, <3>2
        <3> QED BY <3>3
    <2>10. Serves(p, s)
        BY <2>5, <2>8, <2>9 DEF Serves
    <2>11. p \in 1 .. Len(roots') /\ Serves(p, s)'
        BY <2>4, <2>5, <2>10 DEF SnapKept
    <2>12. s = snap'[r] /\ q = query'[r] /\ p = rpage'[r] /\ expect'[r] = Content(s, q)'
        BY <1>1, <1>4, <2>2, <2>3, <2>4, <2>8
    <2>13. s < clock' /\ \A v \in inflight' : s < v
        BY <2>4 DEF SnapKept
    <2> QED BY <1>4, <2>3, <2>11, <2>12, <2>13 DEF Undisturbed
<1>7. ReaderAt(r)'
    BY <1>1, <1>2, <1>3, <1>4, <1>6 DEF ReaderAt
<1> QED BY <1>1, <1>4, <1>5, <1>7, OneReader DEF Registered

---------------------------------------------------------------------------
(* Looking at the records.                                                  *)

LEMMA LookFirst ==
    ASSUME RoomInv, VersionInv, NEW p \in Pages, NEW s \in Nat, Quiet(s), NEW q
    PROVE  FilteredTo(<< >>, p, s, 1, Length(p)) /\ FoundTo(<< >>, q, p, s, 1, Length(p))
<1>1. PICK n \in Nat, h \in Nat : n = Len(recs[p]) /\ h = Length(p)
    BY RecordFields, Visible
<1>2. h <= n /\ \A i \in 1 .. n : Matches(recs[p][i], s) => i <= h
    BY <1>1, Visible
<1>3. \A i \in Hits(p, q, s) : i <= h
    BY <1>1, <1>2 DEF Hits
<1>4. FoundTo(<< >>, q, p, s, 1, h)
    BY <1>1, <1>2, <1>3 DEF FoundTo
<1> DEFINE f == << >>
           A == {l \in 1 .. 1 - 1 : Matches(recs[p][l], s)}
<1>5. A = {}
    OBVIOUS
<1>6. {<<recs[p][i].key, recs[p][i].val>> : i \in A} = {}
    <2> HIDE DEF A
    <2> QED BY <1>5
<1>7. f \in Seq(Keys \X Int) /\ Len(f) = 0
    OBVIOUS
<1> HIDE DEF f
<1>8. 1 .. Len(f) = {}
    BY <1>7
<1>9. {f[j] : j \in 1 .. Len(f)} = {}
    BY <1>8
<1>10. \A j, l \in 1 .. Len(f) : f[j] = f[l] => j = l
    BY <1>8
<1>11. {f[j] : j \in 1 .. Len(f)} = {<<recs[p][i].key, recs[p][i].val>> : i \in A}
    BY <1>6, <1>9
<1>12. 1 \in Nat \ {0} /\ 1 <= h + 1
    BY <1>1
<1>13. FilteredTo(f, p, s, 1, h)
    BY <1>1, <1>2, <1>7, <1>10, <1>11, <1>12 DEF FilteredTo
<1> QED BY <1>1, <1>4, <1>13 DEF f

Elements(f) == {f[j] : j \in 1 .. Len(f)}
Once(f) == \A j, l \in 1 .. Len(f) : f[j] = f[l] => j = l

LEMMA OneMore ==
    ASSUME NEW T, NEW f \in Seq(T), NEW x \in T, x \notin Elements(f), Once(f)
    PROVE  Append(f, x) \in Seq(T) /\ Elements(Append(f, x)) = Elements(f) \cup {x} /\ Once(Append(f, x))
<1>0. PICK g, F : g = Append(f, x) /\ F = Elements(f)
    OBVIOUS
<1> USE DEF Elements, Once
<1>1. PICK m \in Nat : m = Len(f)
    OBVIOUS
<1>2. g \in Seq(T) /\ Len(g) = m + 1 /\ g[m + 1] = x /\ \A j \in 1 .. m : g[j] = f[j]
    BY <1>0, <1>1
<1>3. m + 1 \in 1 .. m + 1 /\ \A j \in 1 .. m : j \in 1 .. m + 1
    BY <1>1
<1>4. \A j \in 1 .. m + 1 : j = m + 1 \/ j \in 1 .. m
    BY <1>1
<1>5. x \notin F /\ \A j \in 1 .. m : f[j] \in F
    BY <1>0, <1>1
<1>6. ASSUME NEW y PROVE y \in {g[j] : j \in 1 .. Len(g)} <=> y \in F \cup {x}
    <2>1. y \in {g[j] : j \in 1 .. Len(g)} <=> \E j \in 1 .. m + 1 : y = g[j]
        BY <1>2
    <2>2. y \in F \cup {x} <=> y = x \/ \E j \in 1 .. m : y = f[j]
        BY <1>0, <1>1
    <2>3. ASSUME NEW j \in 1 .. m + 1, y = g[j] PROVE y \in F \cup {x}
        BY <1>2, <1>4, <1>5, <2>3
    <2>4. ASSUME NEW j \in 1 .. m, y = f[j] PROVE \E l \in 1 .. m + 1 : y = g[l]
        BY <1>2, <1>3, <2>4
    <2>5. y = x => \E l \in 1 .. m + 1 : y = g[l]
        BY <1>2, <1>3
    <2> QED BY <2>1, <2>2, <2>3, <2>4, <2>5
<1>7. {g[j] : j \in 1 .. Len(g)} = F \cup {x}
    BY <1>6
<1>8. ASSUME NEW j \in 1 .. m + 1, NEW l \in 1 .. m + 1, g[j] = g[l] PROVE j = l
    <2>1. CASE j \in 1 .. m /\ l \in 1 .. m
        BY <1>1, <1>2, <1>8, <2>1
    <2>2. CASE j = m + 1 /\ l \in 1 .. m
        BY <1>2, <1>5, <1>8, <2>2
    <2>3. CASE l = m + 1 /\ j \in 1 .. m
        BY <1>2, <1>5, <1>8, <2>3
    <2> QED BY <1>4, <1>8, <2>1, <2>2, <2>3
<1>9. Elements(g) = F \cup {x} /\ Once(g)
    BY <1>2, <1>7, <1>8
<1> HIDE DEF Elements, Once
<1> QED BY <1>0, <1>2, <1>9

(* One record more is filtered: no key comes twice.                         *)
LEMMA FilterNext ==
    ASSUME RoomInv, LifeInv, VersionInv, NEW p \in Pages, NEW s \in Nat, Quiet(s), NEW f, NEW lo, NEW hi,
           FilteredTo(f, p, s, lo, hi), lo <= hi, NEW g,
           g = IF Matches(recs[p][lo], s) THEN Append(f, <<recs[p][lo].key, recs[p][lo].val>>) ELSE f
    PROVE  FilteredTo(g, p, s, lo + 1, hi)
<1>1. PICK n \in Nat : n = Len(recs[p])
    BY RecordFields
<1>2. /\ lo \in Nat /\ lo >= 1 /\ hi \in Nat /\ hi <= n /\ f \in Seq(Keys \X Int)
      /\ \A i \in 1 .. n : Matches(recs[p][i], s) => i <= hi
      /\ \A j, l \in 1 .. Len(f) : f[j] = f[l] => j = l
    BY <1>1 DEF FilteredTo
<1>3. lo \in 1 .. n /\ \A i \in 1 .. lo - 1 : i \in 1 .. n /\ i # lo
    BY <1>2
<1> DEFINE Pair(i) == <<recs[p][i].key, recs[p][i].val>>
           A == {l \in 1 .. lo - 1 : Matches(recs[p][l], s)}
           B == {l \in 1 .. (lo + 1) - 1 : Matches(recs[p][l], s)}
           G == {g[j] : j \in 1 .. Len(g)}
<1>4. {f[j] : j \in 1 .. Len(f)} = {Pair(i) : i \in A}
    BY DEF FilteredTo
<1>5. \A i \in 1 .. (lo + 1) - 1 : i = lo \/ i \in 1 .. lo - 1
    BY <1>2
<1>6. \A i \in 1 .. lo - 1 : i \in 1 .. (lo + 1) - 1
    BY <1>2
<1>7. lo \in 1 .. (lo + 1) - 1
    BY <1>2
<1>8. /\ g \in Seq(Keys \X Int)
      /\ G = {Pair(i) : i \in B}
      /\ \A j, l \in 1 .. Len(g) : g[j] = g[l] => j = l
    <2>1. CASE ~Matches(recs[p][lo], s)
        <3>1. A = B
            BY <1>5, <1>6, <2>1
        <3>2. {Pair(i) : i \in A} = {Pair(i) : i \in B}
            <4> HIDE DEF A, B
            <4> QED BY <3>1
        <3>3. g = f
            BY <2>1
        <3> QED BY <1>2, <1>4, <3>2, <3>3
    <2>2. CASE Matches(recs[p][lo], s)
        <3> DEFINE x == Pair(lo)
        <3>1. g = Append(f, x)
            BY <2>2
        <3>2. x \in Keys \X Int
            BY <1>1, <1>3, Fields
        <3>3. \A i \in B : i = lo \/ i \in A
            BY <1>5
        <3>4. \A i \in A : i \in B
            BY <1>6
        <3>5. lo \in B
            BY <1>7, <2>2
        <3>6. x \notin {Pair(i) : i \in A}
            <4> SUFFICES ASSUME NEW i \in A, x = Pair(i) PROVE FALSE
                OBVIOUS
            <4>1. recs[p][i].key = recs[p][lo].key /\ i \in 1 .. lo - 1 /\ Matches(recs[p][i], s)
                OBVIOUS
            <4>2. i = lo
                BY <1>1, <1>3, <2>2, <4>1, OneHit
            <4> QED BY <1>3, <4>1, <4>2
        <3>7. {Pair(i) : i \in B} = {Pair(i) : i \in A} \cup {x}
            <4> HIDE DEF A, B
            <4> QED BY <3>3, <3>4, <3>5
        <3> HIDE DEF x, A, B, Pair
        <3>8. /\ g \in Seq(Keys \X Int) /\ G = {Pair(i) : i \in A} \cup {x}
              /\ \A j, l \in 1 .. Len(g) : g[j] = g[l] => j = l
            <4> DEFINE F == {Pair(i) : i \in A}
                       T == Keys \X Int
            <4>1. Elements(f) = F /\ x \notin F /\ Once(f)
                BY <1>2, <1>4, <3>6 DEF Elements, Once
            <4>2. f \in Seq(T) /\ x \in T
                BY <1>2, <3>2
            <4> HIDE DEF F, T
            <4>3. g \in Seq(T) /\ Elements(g) = F \cup {x} /\ Once(g)
                BY <3>1, <4>1, <4>2, OneMore
            <4> QED BY <4>3 DEF F, T, Elements, Once
        <3> HIDE DEF G
        <3> QED BY <3>7, <3>8
    <2> QED BY <2>1, <2>2
<1>9. lo + 1 \in Nat \ {0} /\ lo + 1 <= hi + 1
    BY <1>2
<1> QED BY <1>1, <1>2, <1>8, <1>9 DEF FilteredTo

(* One record more is looked at, from the end.                              *)
LEMMA FindNext ==
    ASSUME RoomInv, NEW p \in Pages, NEW s \in Nat, NEW q, NEW f, NEW lo, NEW hi,
           FoundTo(f, q, p, s, lo, hi), lo <= hi
    PROVE  /\ recs[p][hi].key = q /\ Matches(recs[p][hi], s) =>
                 FoundTo(<< <<recs[p][hi].key, recs[p][hi].val>> >>, q, p, s, 1, 0)
           /\ ~(recs[p][hi].key = q /\ Matches(recs[p][hi], s)) => FoundTo(f, q, p, s, lo, hi - 1)
<1>1. PICK n \in Nat : n = Len(recs[p])
    BY RecordFields
<1>2. /\ lo = 1 /\ hi \in Nat /\ hi <= n /\ hi >= 1 /\ f = << >>
      /\ \A i \in Hits(p, q, s) : i <= hi
    BY <1>1 DEF FoundTo
<1>3. hi \in 1 .. n
    BY <1>2
<1>4. Hits(p, q, s) = {i \in 1 .. n : recs[p][i].key = q /\ Matches(recs[p][i], s)}
    BY <1>1 DEF Hits
<1>5. ASSUME recs[p][hi].key = q, Matches(recs[p][hi], s)
      PROVE  FoundTo(<< <<recs[p][hi].key, recs[p][hi].val>> >>, q, p, s, 1, 0)
    <2>1. hi \in Hits(p, q, s)
        BY <1>3, <1>4, <1>5
    <2>2. 0 \in Nat /\ 0 <= n
        BY <1>1
    <2> QED BY <1>1, <2>1, <2>2 DEF FoundTo
<1>6. ASSUME ~(recs[p][hi].key = q /\ Matches(recs[p][hi], s)) PROVE FoundTo(f, q, p, s, lo, hi - 1)
    <2>1. ASSUME NEW i \in Hits(p, q, s) PROVE i <= hi - 1
        <3>1. i \in 1 .. n /\ i # hi /\ i <= hi
            BY <1>2, <1>4, <1>6, <2>1
        <3> QED BY <1>2, <3>1
    <2>2. hi - 1 \in Nat /\ hi - 1 <= n
        BY <1>2
    <2> QED BY <1>1, <1>2, <2>1, <2>2 DEF FoundTo
<1> QED BY <1>5, <1>6

(* What the query has found after a look is right for the page as it is.    *)
LEMMA LookStep ==
    ASSUME RoomInv, ReaderInv, NEW r \in Readers, UNCHANGED <<core, inflight, book>>,
           rpc[r] \in {"len", "look"}, rpc'[r] = "look", Moved(rpc, rpc', r), Moved(left, left', r), Moved(seen, seen', r),
           UNCHANGED <<query, snap, rpage, settled, raced, expect, known>>,
           NEW f, f = seen'[r], NEW lo, lo = left'[r][1], NEW hi, hi = left'[r][2],
           \A p \in Pages, s \in Nat :
              p = rpage[r] /\ s = snap[r] /\ Quiet(s) /\ Undisturbed(r) =>
                 /\ query[r] = AllKeys => FilteredTo(f, p, s, lo, hi)
                 /\ query[r] # AllKeys => FoundTo(f, query[r], p, s, lo, hi)
    PROVE  ReaderInv'
<1>1. /\ OnReaders(query) /\ OnReaders(snap) /\ OnReaders(rpage)
      /\ OnReaders(settled) /\ OnReaders(raced) /\ OnReaders(expect) /\ ReaderAt(r)
    BY DEF ReaderInv
<1>2. MovesAlone(r)
    BY <1>1, MovedSame DEF MovesAlone
<1>3. ASSUME settled'[r], ~raced'[r] PROVE Undisturbed(r)'
    <2>1. Undisturbed(r) /\ query[r] \in Keys \cup {AllKeys}
        BY <1>1, <1>3 DEF ReaderAt
    <2>0. PICK p : p = rpage[r]
        OBVIOUS
    <2>2. PICK s \in Nat, q \in Keys \cup {AllKeys} : s = snap[r] /\ q = query[r]
        BY <2>1 DEF Undisturbed
    <2>3. /\ 1 <= s /\ Quiet(s) /\ expect[r] = Content(s, q)
          /\ p \in 1 .. Len(roots) /\ Serves(p, s)
        BY <2>0, <2>1, <2>2 DEF Undisturbed, Quiet
    <2>4. SnapKept(s) /\ Content(s, q)' = Content(s, q)
        BY <2>3, AsideKept
    <2>5. p \in Pages /\ Len(recs[p]) \in Nat /\ PageKept(p, s) /\ Serves(p, s)' /\ roots' = roots
        BY <2>3, <2>4, RootPages, RecordFields DEF SnapKept, core
    <2>6. /\ q = AllKeys => FilteredTo(f, p, s, lo, hi)
          /\ q # AllKeys => FoundTo(f, q, p, s, lo, hi)
        BY <2>0, <2>1, <2>2, <2>3, <2>5
    <2>7. /\ q = AllKeys => FilteredTo(f, p, s, lo, hi)'
          /\ q # AllKeys => FoundTo(f, q, p, s, lo, hi)'
        BY <2>5, <2>6, FilterKept, FindKept
    <2>8. s = snap'[r] /\ q = query'[r] /\ p = rpage'[r] /\ expect'[r] = Content(s, q)'
        BY <2>0, <2>2, <2>3, <2>4
    <2>9. s < clock' /\ \A v \in inflight' : s < v
        BY <2>4 DEF SnapKept
    <2>10. p \in 1 .. Len(roots') /\ Serves(p, s)'
        BY <2>3, <2>5
    <2> QED BY <2>3, <2>7, <2>8, <2>9, <2>10 DEF Undisturbed
<1>4. ReaderAt(r)'
    BY <1>1, <1>3 DEF ReaderAt
<1> QED BY <1>2, <1>4, OneReader DEF Registered

LEMMA AsRecordsStep ==
    ASSUME RoomInv, VersionInv, ReaderInv, NEW r \in Readers, UNCHANGED <<core, inflight, book>>, AsRecords(r)
    PROVE  ReaderInv'
<1>1. UNCHANGED <<query, snap, rpage, seen, settled, raced, expect, known>>
    BY DEF AsRecords, writerVars
<1>2. OnReaders(rpc) /\ OnReaders(left) /\ OnReaders(seen) /\ ReaderAt(r)
    BY DEF ReaderInv
<1> DEFINE h == Length(rpage[r])
<1>3. rpc[r] = "len" /\ rpc' = [rpc EXCEPT ![r] = "look"] /\ left' = [left EXCEPT ![r] = <<1, h>>]
    BY DEF AsRecords, RGoto
<1> HIDE DEF h
<1>4. Moved(rpc, rpc', r) /\ rpc'[r] = "look" /\ Moved(left, left', r) /\ left'[r][1] = 1 /\ left'[r][2] = h
    BY <1>2, <1>3 DEF Moved, OnReaders
<1>5. Moved(seen, seen', r) /\ seen'[r] = << >>
    BY <1>1, <1>2, <1>3, MovedSame DEF ReaderAt
<1>6. \A p \in Pages, s \in Nat :
         p = rpage[r] /\ s = snap[r] /\ Quiet(s) /\ Undisturbed(r) =>
            /\ query[r] = AllKeys => FilteredTo(<< >>, p, s, 1, h)
            /\ query[r] # AllKeys => FoundTo(<< >>, query[r], p, s, 1, h)
    BY LookFirst DEF h
<1> QED BY <1>1, <1>3, <1>4, <1>5, <1>6, LookStep

LEMMA FilterStep ==
    ASSUME RoomInv, LifeInv, VersionInv, ReaderInv, NEW r \in Readers, UNCHANGED <<core, inflight, book>>,
           FilterRecord(r)
    PROVE  ReaderInv'
<1>1. UNCHANGED <<rpc, query, snap, rpage, settled, raced, expect, known>> /\ rpc[r] = "look" /\ query[r] = AllKeys
    BY DEF FilterRecord, writerVars
<1>2. OnReaders(rpc) /\ OnReaders(left) /\ OnReaders(seen)
    BY DEF ReaderInv
<1>3. PICK lo, hi, rec : lo = left[r][1] /\ hi = left[r][2] /\ rec = recs[rpage[r]][lo]
    OBVIOUS
<1> DEFINE g == IF Matches(rec, snap[r]) THEN Append(seen[r], <<rec.key, rec.val>>) ELSE seen[r]
<1>4. lo <= hi /\ left' = [left EXCEPT ![r] = <<lo + 1, hi>>] /\ seen' = [seen EXCEPT ![r] = g]
    BY <1>3 DEF FilterRecord
<1>5. ASSUME NEW p \in Pages, NEW s \in Nat, p = rpage[r], s = snap[r], Quiet(s), Undisturbed(r)
      PROVE  FilteredTo(g, p, s, lo + 1, hi)
    <2>1. FilteredTo(seen[r], p, s, lo, hi)
        BY <1>1, <1>3, <1>5 DEF Undisturbed
    <2>2. rec = recs[p][lo]
        BY <1>3, <1>5
    <2>3. PICK f : f = seen[r]
        OBVIOUS
    <2>4. g = IF Matches(recs[p][lo], s) THEN Append(f, <<recs[p][lo].key, recs[p][lo].val>>) ELSE f
        BY <1>5, <2>2, <2>3
    <2> HIDE DEF g
    <2>5. FilteredTo(f, p, s, lo, hi)
        BY <2>1, <2>3
    <2> QED BY <1>4, <1>5, <2>4, <2>5, FilterNext
<1> HIDE DEF g
<1>6. Moved(left, left', r) /\ left'[r][1] = lo + 1 /\ left'[r][2] = hi /\ Moved(seen, seen', r) /\ seen'[r] = g
    BY <1>2, <1>4 DEF Moved, OnReaders
<1>7. Moved(rpc, rpc', r) /\ rpc'[r] = "look"
    BY <1>1, <1>2, MovedSame
<1>8. \A p \in Pages, s \in Nat :
         p = rpage[r] /\ s = snap[r] /\ Quiet(s) /\ Undisturbed(r) =>
            /\ query[r] = AllKeys => FilteredTo(g, p, s, lo + 1, hi)
            /\ query[r] # AllKeys => FoundTo(g, query[r], p, s, lo + 1, hi)
    BY <1>1, <1>5
<1> QED BY <1>1, <1>6, <1>7, <1>8, LookStep

LEMMA FindStep ==
    ASSUME RoomInv, ReaderInv, NEW r \in Readers, UNCHANGED <<core, inflight, book>>, FindRecord(r)
    PROVE  ReaderInv'
<1>1. UNCHANGED <<rpc, query, snap, rpage, settled, raced, expect, known>> /\ rpc[r] = "look" /\ query[r] # AllKeys
    BY DEF FindRecord, writerVars
<1>2. OnReaders(rpc) /\ OnReaders(left) /\ OnReaders(seen)
    BY DEF ReaderInv
<1>3. PICK lo, hi, rec, f, q : lo = left[r][1] /\ hi = left[r][2] /\ rec = recs[rpage[r]][hi] /\ f = seen[r] /\ q = query[r]
    OBVIOUS
<1> DEFINE hit == rec.key = q /\ Matches(rec, snap[r])
           x == << <<rec.key, rec.val>> >>
           g == IF hit THEN x ELSE f
           b == IF hit THEN <<1, 0>> ELSE <<lo, hi - 1>>
<1>4. lo <= hi /\ left' = [left EXCEPT ![r] = b] /\ seen' = [seen EXCEPT ![r] = g]
    BY <1>3 DEF FindRecord
<1>5. ASSUME NEW p \in Pages, NEW s \in Nat, p = rpage[r], s = snap[r], Quiet(s), Undisturbed(r)
      PROVE  FoundTo(g, q, p, s, b[1], b[2])
    <2>1. FoundTo(f, q, p, s, lo, hi)
        BY <1>1, <1>3, <1>5 DEF Undisturbed
    <2>2. rec = recs[p][hi]
        BY <1>3, <1>5
    <2>3. /\ hit => FoundTo(x, q, p, s, 1, 0)
          /\ ~hit => FoundTo(f, q, p, s, lo, hi - 1)
        BY <1>4, <1>5, <2>1, <2>2, FindNext
    <2>4. CASE hit
        <3>1. g = x /\ b[1] = 1 /\ b[2] = 0
            BY <2>4
        <3> HIDE DEF g, b, hit, x
        <3> QED BY <2>3, <2>4, <3>1
    <2>5. CASE ~hit
        <3>1. g = f /\ b[1] = lo /\ b[2] = hi - 1
            BY <2>5
        <3> HIDE DEF g, b, hit, x
        <3> QED BY <2>3, <2>5, <3>1
    <2> QED BY <2>4, <2>5
<1> HIDE DEF g, b, hit, x
<1>6. Moved(left, left', r) /\ left'[r] = b /\ Moved(seen, seen', r) /\ seen'[r] = g
    BY <1>2, <1>4 DEF Moved, OnReaders
<1>7. Moved(rpc, rpc', r) /\ rpc'[r] = "look"
    BY <1>1, <1>2, MovedSame
<1>8. \A p \in Pages, s \in Nat :
         p = rpage[r] /\ s = snap[r] /\ Quiet(s) /\ Undisturbed(r) =>
            /\ query[r] = AllKeys => FilteredTo(g, p, s, b[1], b[2])
            /\ query[r] # AllKeys => FoundTo(g, query[r], p, s, b[1], b[2])
    BY <1>1, <1>3, <1>5
<1> QED BY <1>1, <1>6, <1>7, <1>8, LookStep

LEMMA CloseStep ==
    ASSUME RoomInv, ReaderInv, NEW r \in Readers, UNCHANGED <<core, inflight, book>>, Close(r)
    PROVE  ReaderInv'
<1>1. /\ OnReaders(rpc) /\ OnReaders(query) /\ OnReaders(snap) /\ OnReaders(rpage) /\ OnReaders(left)
      /\ OnReaders(seen) /\ OnReaders(settled) /\ OnReaders(raced) /\ OnReaders(expect)
    BY DEF ReaderInv
<1>2. known' = [w \in Writers |-> known[w] \ {r}]
    BY DEF Close
<1>3. Moved(rpc, rpc', r) /\ rpc'[r] = "idle" /\ Moved(query, query', r) /\ query'[r] = AllKeys
    BY <1>1 DEF Close, RGoto, Moved, OnReaders
<1>4. Moved(snap, snap', r) /\ Moved(rpage, rpage', r) /\ Moved(left, left', r)
    BY <1>1 DEF Close, Moved, OnReaders
<1>5. Moved(seen, seen', r) /\ seen'[r] = << >> /\ Moved(settled, settled', r) /\ ~settled'[r]
    BY <1>1 DEF Close, Moved, OnReaders
<1>6. Moved(raced, raced', r) /\ Moved(expect, expect', r)
    BY <1>1 DEF Close, Moved, OnReaders
<1>7. MovesAlone(r)
    BY <1>3, <1>4, <1>5, <1>6 DEF MovesAlone
<1>8. ReaderAt(r)'
    BY <1>3, <1>5 DEF ReaderAt
<1> QED BY <1>2, <1>7, <1>8, OneReader

---------------------------------------------------------------------------
LEMMA InitReader == ASSUME Init PROVE ReaderInv
<1>1. /\ rpc     = [r \in Readers |-> "idle"]
      /\ query   = [r \in Readers |-> AllKeys]
      /\ snap    = [r \in Readers |-> 0]
      /\ rpage   = [r \in Readers |-> 0]
      /\ left    = [r \in Readers |-> <<1, 0>>]
      /\ seen    = [r \in Readers |-> << >>]
      /\ settled = [r \in Readers |-> FALSE]
      /\ raced   = [r \in Readers |-> FALSE]
      /\ expect  = [r \in Readers |-> {}]
      /\ known = [w \in Writers |-> {}] /\ wpc = [w \in Writers |-> "idle"]
    BY DEF Init
<1>2. /\ OnReaders(rpc) /\ OnReaders(query) /\ OnReaders(snap) /\ OnReaders(rpage) /\ OnReaders(left)
      /\ OnReaders(seen) /\ OnReaders(settled) /\ OnReaders(raced) /\ OnReaders(expect)
    BY <1>1 DEF OnReaders
<1>3. \A r \in Readers : ReaderAt(r)
    BY <1>1 DEF ReaderAt
<1>4. \A w \in Writers : KnownAt(w)
    BY <1>1 DEF KnownAt
<1>5. known \in [Writers -> SUBSET Readers]
    BY <1>1
<1> QED BY <1>2, <1>3, <1>4, <1>5 DEF ReaderInv

(* A step that moves nobody.                                                *)
LEMMA NobodyMoves ==
    ASSUME RoomInv, ReaderInv, UNCHANGED <<core, inflight, book, readerVars, known>>
    PROVE  ReaderInv'
<1>1. UNCHANGED <<rpc, query, snap, rpage, left, seen, settled, raced, expect, wpc, recs, at, key, active, dead>>
    BY DEF readerVars, core
<1>2. ASSUME NEW r \in Readers PROVE ReaderAt(r)'
    <2>1. ReaderAt(r) /\ Onward(r)
        BY <1>1, <1>2 DEF ReaderInv, Onward
    <2> QED BY <1>1, <1>2, <2>1, AsideKept, ReaderStays
<1>3. ASSUME NEW w \in Writers PROVE KnownAt(w)'
    <2>1. KnownAt(w)
        BY <1>3 DEF ReaderInv
    <2> QED BY <1>1, <2>1 DEF KnownAt, Registered, RFind, Length
<1>4. (/\ OnReaders(rpc) /\ OnReaders(query) /\ OnReaders(snap) /\ OnReaders(rpage) /\ OnReaders(left)
       /\ OnReaders(seen) /\ OnReaders(settled) /\ OnReaders(raced) /\ OnReaders(expect))'
    BY <1>1 DEF ReaderInv, OnReaders
<1>5. known' \in [Writers -> SUBSET Readers]
    BY DEF ReaderInv
<1> QED BY <1>2, <1>3, <1>4, <1>5 DEF ReaderInv

LEMMA NextReader ==
    ASSUME RoomInv, LifeInv, LifeInv', VersionInv, BookInv, ReaderInv, [Next]_vars
    PROVE  ReaderInv'
<1>1. CASE UNCHANGED vars
    BY <1>1, NobodyMoves DEF vars, core, readerVars
<1>2. CASE UNCHANGED setup /\ AdvanceWatermark
    <2>1. UNCHANGED <<core, inflight, book>>
        BY <1>2, AsideFacts
    <2>2. UNCHANGED <<readerVars, known>>
        BY <1>2 DEF AdvanceWatermark, writerVars
    <2> QED BY <2>1, <2>2, NobodyMoves
<1>3. ASSUME NEW w \in Writers, WriterStep(w), UNCHANGED setup PROVE ReaderInv'
    BY <1>3, WriterReaders
<1>4. ASSUME NEW r \in Readers, Reader(r), UNCHANGED setup PROVE ReaderInv'
    <2>1. UNCHANGED <<core, inflight, book>>
        BY <1>4, AsideFacts
    <2>2. CASE PinReader(r) \/ Register(r) \/ Answer(r)
        BY <2>1, <2>2, GoOn
    <2>3. CASE DrawSnapshot(r) \/ AskForVersion(r)
        BY <2>1, <2>3, OpenStep
    <2>4. CASE RootFor(r)
        BY <2>1, <2>4, RootForStep
    <2>5. CASE AsRecords(r)
        BY <2>1, <2>5, AsRecordsStep
    <2>6. CASE FilterRecord(r)
        BY <2>1, <2>6, FilterStep
    <2>7. CASE FindRecord(r)
        BY <2>1, <2>7, FindStep
    <2>8. CASE Close(r)
        BY <2>1, <2>8, CloseStep
    <2> QED BY <1>4, <2>2, <2>3, <2>4, <2>5, <2>6, <2>7, <2>8 DEF Reader
<1> QED BY <1>1, <1>2, <1>3, <1>4, Steps

---------------------------------------------------------------------------
(* What a query has when nothing is left to look at.                        *)

LEMMA CountOnce ==
    ASSUME NEW T, NEW f \in Seq(T), Once(f), NEW E, Elements(f) = E
    PROVE  Len(f) = Cardinality(E)
<1>1. PICK n \in Nat : n = Len(f)
    OBVIOUS
<1>2. f \in [1 .. n -> E]
    <2>1. f = [i \in 1 .. n |-> f[i]] /\ \A i \in 1 .. n : f[i] \in E
        BY <1>1 DEF Elements
    <2> QED BY <2>1
<1>3. f \in Bijection(1 .. n, E)
    BY <1>1, <1>2 DEF Bijection, Injection, Surjection, IsInjective, Elements, Once
<1>4. IsFiniteSet(1 .. n) /\ Cardinality(1 .. n) = n
    BY FS_Interval
<1>5. Cardinality(E) = Cardinality(1 .. n)
    BY <1>3, <1>4, FS_Bijection DEF ExistsBijection
<1> QED BY <1>1, <1>4, <1>5

(* The history of a settled snapshot, record by record.                     *)
LEMMA ContentOfPage ==
    ASSUME RoomInv, VersionInv, BookInv, NEW p \in 1 .. Len(roots), NEW s \in Nat, Quiet(s), Serves(p, s),
           NEW q \in Keys \cup {AllKeys}, NEW x
    PROVE  x \in Content(s, q) <=>
              \E i \in 1 .. Len(recs[p]) :
                 Matches(recs[p][i], s) /\ (q # AllKeys => recs[p][i].key = q) /\ x = <<recs[p][i].key, recs[p][i].val>>
<1>1. p \in Pages
    BY RootPages
<1>2. ASSUME NEW k \in Keys PROVE Found(p, k, s) = Values(k, s)
    BY <1>1, <1>2, NothingPending DEF BookInv, PageExact
<1>3. ASSUME NEW k \in Keys, NEW v
      PROVE  v \in Values(k, s) <=> \E i \in 1 .. Len(recs[p]) : recs[p][i].key = k /\ Matches(recs[p][i], s) /\ v = recs[p][i].val
    BY <1>2, <1>3 DEF Found, Hits
<1>4. x \in Content(s, q) <=> \E k \in Asked(q) : \E v \in Values(k, s) : x = <<k, v>>
    BY ContentFacts
<1>5. \A k : k \in Asked(q) <=> k \in Keys /\ (q # AllKeys => k = q)
    BY DEF Asked
<1>6. \A i \in 1 .. Len(recs[p]) : recs[p][i].key \in Keys
    BY <1>1, Fields
<1>7. ASSUME NEW k \in Asked(q), NEW v \in Values(k, s), x = <<k, v>>
      PROVE  \E i \in 1 .. Len(recs[p]) :
                 Matches(recs[p][i], s) /\ (q # AllKeys => recs[p][i].key = q) /\ x = <<recs[p][i].key, recs[p][i].val>>
    BY <1>3, <1>5, <1>7
<1>8. ASSUME NEW i \in 1 .. Len(recs[p]), Matches(recs[p][i], s), q # AllKeys => recs[p][i].key = q,
             x = <<recs[p][i].key, recs[p][i].val>>
      PROVE  \E k \in Asked(q) : \E v \in Values(k, s) : x = <<k, v>>
    <2>1. PICK k, v : k = recs[p][i].key /\ v = recs[p][i].val
        OBVIOUS
    <2>2. k \in Keys /\ k \in Asked(q)
        BY <1>5, <1>6, <1>8, <2>1
    <2>3. v \in Values(k, s)
        BY <1>3, <1>8, <2>1, <2>2
    <2> QED BY <1>8, <2>1, <2>2, <2>3
<1> QED BY <1>4, <1>7, <1>8

LEMMA FilteredAll ==
    ASSUME RoomInv, VersionInv, BookInv, NEW p \in 1 .. Len(roots), NEW s \in Nat, Quiet(s), Serves(p, s),
           NEW f, NEW lo, NEW hi, FilteredTo(f, p, s, lo, hi), lo > hi
    PROVE  Elements(f) = Content(s, AllKeys) /\ Len(f) = Cardinality(Content(s, AllKeys))
<1>1. PICK n \in Nat : n = Len(recs[p])
    BY RootPages, RecordFields
<1>2. /\ lo \in Nat /\ hi \in Nat /\ hi <= n /\ lo = hi + 1 /\ f \in Seq(Keys \X Int) /\ Once(f)
      /\ \A i \in 1 .. n : Matches(recs[p][i], s) => i <= hi
    BY <1>1 DEF FilteredTo, Once
<1> DEFINE A == {l \in 1 .. lo - 1 : Matches(recs[p][l], s)}
           Pair(i) == <<recs[p][i].key, recs[p][i].val>>
<1>3. Elements(f) = {Pair(i) : i \in A}
    BY DEF FilteredTo, Elements
<1>4. \A i : i \in A <=> i \in 1 .. n /\ Matches(recs[p][i], s)
    <2>1. ASSUME NEW i \in 1 .. lo - 1 PROVE i \in 1 .. n
        BY <1>2
    <2>2. ASSUME NEW i \in 1 .. n, Matches(recs[p][i], s) PROVE i \in 1 .. lo - 1
        <3>1. i \in Nat /\ 1 <= i /\ i <= hi
            BY <1>2, <2>2
        <3> QED BY <1>2, <3>1
    <2> QED BY <2>1, <2>2
<1>5. ASSUME NEW x PROVE x \in Content(s, AllKeys) <=> \E i \in 1 .. n : Matches(recs[p][i], s) /\ x = Pair(i)
    BY <1>1, ContentOfPage
<1> HIDE DEF A, Pair
<1>6. ASSUME NEW x PROVE x \in Elements(f) <=> x \in Content(s, AllKeys)
    BY <1>3, <1>4, <1>5
<1>7. Elements(f) = Content(s, AllKeys)
    BY <1>6
<1> QED BY <1>2, <1>7, CountOnce

LEMMA FoundIt ==
    ASSUME RoomInv, LifeInv, VersionInv, BookInv, NEW p \in 1 .. Len(roots), NEW s \in Nat, Quiet(s), Serves(p, s),
           NEW q \in Keys, q # AllKeys, NEW f, NEW lo, NEW hi, FoundTo(f, q, p, s, lo, hi), lo > hi
    PROVE  Elements(f) = Content(s, q) /\ Len(f) = Cardinality(Content(s, q))
<1>1. PICK n \in Nat : n = Len(recs[p]) /\ p \in Pages
    BY RootPages, RecordFields
<1> DEFINE Pair(i) == <<recs[p][i].key, recs[p][i].val>>
<1>2. \A i : i \in Hits(p, q, s) <=> i \in 1 .. n /\ recs[p][i].key = q /\ Matches(recs[p][i], s)
    BY <1>1 DEF Hits
<1>3. ASSUME NEW x PROVE x \in Content(s, q) <=> \E i \in Hits(p, q, s) : x = Pair(i)
    BY <1>1, <1>2, ContentOfPage
<1>4. hi = 0 /\ (\/ f = << >> /\ \A i \in Hits(p, q, s) : i <= 0
                 \/ \E i \in Hits(p, q, s) : f = << Pair(i) >>)
    BY DEF FoundTo
<1>5. CASE f = << >> /\ \A i \in Hits(p, q, s) : i <= 0
    <2>1. \A i \in Hits(p, q, s) : FALSE
        BY <1>2, <1>5
    <2>2. Content(s, q) = {}
        BY <1>3, <2>1
    <2>3. Elements(f) = {} /\ Len(f) = 0
        BY <1>5 DEF Elements
    <2> QED BY <2>2, <2>3, FS_EmptySet
<1>6. ASSUME NEW i \in Hits(p, q, s), f = << Pair(i) >>
      PROVE  Elements(f) = Content(s, q) /\ Len(f) = Cardinality(Content(s, q))
    <2>1. \A j \in Hits(p, q, s) : j = i
        BY <1>1, <1>2, <1>6, OneHit
    <2>2. PICK y : y = Pair(i)
        OBVIOUS
    <2>3. ASSUME NEW x PROVE x \in Content(s, q) <=> x = y
        BY <1>3, <1>6, <2>1, <2>2
    <2>4. Content(s, q) = {y}
        BY <2>3
    <2>5. f = <<y>>
        BY <1>6, <2>2
    <2> HIDE DEF Pair
    <2>6. Elements(f) = {y} /\ Len(f) = 1
        BY <2>5 DEF Elements
    <2> QED BY <2>4, <2>6, FS_Singleton
<1> QED BY <1>4, <1>5, <1>6

LEMMA AnswersExact ==
    ASSUME RoomInv, LifeInv, VersionInv, BookInv, ReaderInv
    PROVE  ExactScan
<1> SUFFICES ASSUME NEW r \in Readers, rpc[r] = "done", settled[r], ~raced[r]
             PROVE  Elements(seen[r]) = expect[r] /\ Len(seen[r]) = Cardinality(expect[r])
    BY DEF ExactScan, Elements
<1>1. Undisturbed(r) /\ query[r] \in Keys \cup {AllKeys}
    BY DEF ReaderInv, ReaderAt
<1>2. PICK f, q, p, lo, hi : f = seen[r] /\ q = query[r] /\ p = rpage[r] /\ lo = left[r][1] /\ hi = left[r][2]
    OBVIOUS
<1>3. PICK s \in Nat : s = snap[r]
    BY <1>1 DEF Undisturbed
<1>4. /\ Quiet(s) /\ expect[r] = Content(s, q) /\ p \in 1 .. Len(roots) /\ Serves(p, s) /\ lo > hi
      /\ q = AllKeys => FilteredTo(f, p, s, lo, hi)
      /\ q # AllKeys => FoundTo(f, q, p, s, lo, hi)
    BY <1>1, <1>2, <1>3 DEF Undisturbed, Quiet
<1>5. CASE q = AllKeys
    BY <1>2, <1>4, <1>5, FilteredAll
<1>6. CASE q # AllKeys
    BY <1>1, <1>2, <1>4, <1>6, FoundIt
<1> QED BY <1>5, <1>6

(* A query on a settled snapshot returns exactly what the snapshot held,    *)
(* each key once, although it looks at the page without a latch: whatever   *)
(* writers push, end, soft-commit or split between two of its steps.  Left  *)
(* out are a query that an update in place had not seen registered, as in   *)
(* ExactScan, and setups with an update beside another writer, for which a  *)
(* version split may copy a record half updated.                            *)
THEOREM SpecExactScan == NoRacingUpdate => (Spec => []ExactScan)
<1> SUFFICES ASSUME NoRacingUpdate PROVE Spec => []ExactScan
    OBVIOUS
<1>1. Init => ReaderInv
    BY InitReader
<1>2. RoomInv /\ LifeInv /\ LifeInv' /\ VersionInv /\ BookInv /\ ReaderInv /\ [Next]_vars => ReaderInv'
    BY NextReader
<1>3. RoomInv /\ LifeInv /\ VersionInv /\ BookInv /\ ReaderInv => ExactScan
    BY AnswersExact
<1>4. Spec => [](VersionInv /\ BookInv)
    BY SpecBookInv
<1>5. Spec => []LifeInv
    BY SpecLifeInv
<1> QED BY <1>1, <1>2, <1>3, <1>4, <1>5, SpecRoomInv, PTL DEF Spec
=============================================================================
