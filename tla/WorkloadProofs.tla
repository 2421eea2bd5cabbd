--------------------------- MODULE WorkloadProofs ---------------------------
(***************************************************************************)
(* Proofs about the online workload, for any command line, threads, block   *)
(* and stride: writers never panic over a key, and a historical scan looks  *)
(* at the keys of its version.                                              *)
(***************************************************************************)
EXTENDS Workload, FiniteSetTheorems, WellFoundedInduction, TLAPS

CfgOK == cfg \in Setups /\ Accepted(cfg)

(* The insertions, and the deletions, of a block.                           *)
Share == (Block - cfg.updates) \div 2

LEMMA CfgFacts ==
    ASSUME CfgOK
    PROVE  /\ cfg.writers \subseteq Threads /\ cfg.readers \subseteq Threads /\ cfg.scanners \subseteq Threads
           /\ cfg.writers \cap cfg.readers = {}
           /\ cfg.records \in Nat /\ cfg.records > 0 /\ cfg.operations \in Nat /\ cfg.operations > 0
           /\ cfg.seed \in Nat /\ cfg.scans \in Nat /\ cfg.maxSkip \in Nat /\ cfg.random \in BOOLEAN
           /\ cfg.updates \in Nat /\ Share \in Nat /\ cfg.updates + Share + Share = Block
<1>1. cfg \in Config /\ cfg.writers \cap cfg.readers = {} /\ (Block - cfg.updates) % 2 = 0
    BY WorkloadAssumption DEF CfgOK
<1>2. /\ cfg.writers \subseteq Threads /\ cfg.readers \subseteq Threads /\ cfg.scanners \subseteq Threads
      /\ cfg.records \in Nat /\ cfg.operations \in Nat
      /\ cfg.seed \in Nat /\ cfg.scans \in Nat /\ cfg.maxSkip \in Nat /\ cfg.random \in BOOLEAN
      /\ cfg.updates \in Nat
    BY <1>1 DEF Config
<1>3. cfg.records > 0 /\ cfg.operations > 0 /\ cfg.updates \in 0 .. Block
    BY DEF CfgOK, Accepted
<1>4. cfg.updates <= Block /\ Block \in Nat
    BY <1>2, <1>3, WorkloadAssumption
<1>5. Share \in Nat /\ cfg.updates + Share + Share = Block
    <2>1. PICK x \in Nat : x = Block - cfg.updates
        BY <1>2, <1>4
    <2>2. x % 2 = 0
        BY <1>1, <2>1
    <2>3. x \div 2 \in Nat /\ x \div 2 + x \div 2 = x
        BY <2>2
    <2>4. Share = x \div 2
        BY <2>1 DEF Share
    <2> QED BY <1>2, <1>4, <2>1, <2>3, <2>4
<1> QED BY <1>1, <1>2, <1>3, <1>5

---------------------------------------------------------------------------
(* Counting operations.                                                     *)

LEMMA ModUnique ==
    ASSUME NEW b \in Nat \ {0}, NEW q \in Int, NEW r \in 0 .. b - 1
    PROVE  (b * q + r) % b = r /\ (b * q + r) \div b = q
OBVIOUS

LEMMA DivMod ==
    ASSUME NEW b \in Nat \ {0}, NEW a \in Int
    PROVE  a = b * (a \div b) + (a % b) /\ a % b \in 0 .. b - 1 /\ a \div b \in Int
OBVIOUS

LEMMA ModSum ==
    ASSUME NEW b \in Nat \ {0}, NEW x \in Int, NEW y \in Int
    PROVE  (x + y) % b = ((x % b) + y) % b
<1>1. PICK q \in Int, r \in 0 .. b - 1 : x = b * q + r /\ x % b = r
    BY DivMod
<1>2. PICK p \in Int, s \in 0 .. b - 1 : r + y = b * p + s
    <2>1. r + y \in Int
        BY <1>1
    <2> QED BY <2>1, DivMod
<1>3. (r + y) % b = s
    BY <1>2, ModUnique
<1>4. x + y = b * (q + p) + s
    BY <1>1, <1>2
<1>5. (x + y) % b = s
    <2>1. q + p \in Int
        BY <1>1, <1>2
    <2> QED BY <1>2, <1>4, <2>1, ModUnique
<1> QED BY <1>1, <1>3, <1>5

(* The slot of the operation at place m of a block.                         *)
Slot(o, m) == (m * Stride + o) % Block

(* The stride permutes a block, whatever the offset.                        *)
LEMMA Permutes ==
    ASSUME NEW o \in Nat
    PROVE  [m \in 0 .. Block - 1 |-> Slot(o, m)] \in Bijection(0 .. Block - 1, 0 .. Block - 1)
<1>0. Block \in Nat \ {0} /\ Stride \in Nat
    BY WorkloadAssumption
<1> DEFINE B == 0 .. Block - 1
           f == [m \in B |-> Slot(o, m)]
<1>1. ASSUME NEW m \in B PROVE m * Stride + o \in Int /\ Slot(o, m) \in B
    <2>1. m * Stride + o \in Int
        BY <1>0, <1>1
    <2> QED BY <1>0, <2>1, DivMod DEF Slot
<1>2. f \in [B -> B]
    BY <1>1
<1>3. ASSUME NEW y \in B PROVE \E m \in B : f[m] = y
    <2>1. PICK z \in B : z = (y - o) % Block
        <3>1. y - o \in Int
            BY <1>0, <1>3
        <3> QED BY <1>0, <3>1, DivMod
    <2>2. PICK m \in B : (m * Stride) % Block = z
        BY WorkloadAssumption
    <2>3. m * Stride \in Int /\ y - o \in Int /\ o \in Int /\ y \in Int
        BY <1>0, <1>3
    <2>4. Slot(o, m) = (z + o) % Block
        BY <1>0, <2>2, <2>3, ModSum DEF Slot
    <2>5. (z + o) % Block = ((y - o) + o) % Block
        BY <1>0, <2>1, <2>3, ModSum
    <2>6. (y - o) + o = Block * 0 + y
        BY <1>0, <2>3
    <2>7. (Block * 0 + y) % Block = y
        BY <1>0, <1>3, ModUnique
    <2> QED BY <2>4, <2>5, <2>6, <2>7
<1>4. f \in Surjection(B, B)
    BY <1>2, <1>3 DEF Surjection
<1>5. IsFiniteSet(B)
    BY <1>0, FS_Interval
<1>6. f \in Injection(B, B)
    BY <1>4, <1>5, FS_SurjSameCardinalityImpliesInj
<1> QED BY <1>4, <1>6 DEF Bijection

LEMMA SlotsIn ==
    ASSUME NEW o \in Nat, NEW a \in Nat, NEW b \in Nat, a <= b, b <= Block
    PROVE  /\ IsFiniteSet({m \in 0 .. Block - 1 : Slot(o, m) \in a .. b - 1})
           /\ Cardinality({m \in 0 .. Block - 1 : Slot(o, m) \in a .. b - 1}) = b - a
<1>0. Block \in Nat \ {0}
    BY WorkloadAssumption
<1> DEFINE B == 0 .. Block - 1
           R == a .. b - 1
           S == {m \in B : Slot(o, m) \in R}
           g == [m \in S |-> Slot(o, m)]
<1> SUFFICES IsFiniteSet(S) /\ Cardinality(S) = b - a
    OBVIOUS
<1>1. /\ \A m, l \in B : Slot(o, m) = Slot(o, l) => m = l
      /\ \A y \in B : \E m \in B : Slot(o, m) = y
    <2> DEFINE f == [m \in B |-> Slot(o, m)]
    <2>1. f \in Bijection(B, B)
        BY Permutes
    <2>2. \A m \in B : f[m] = Slot(o, m)
        OBVIOUS
    <2> HIDE DEF f, B
    <2>3. \A m, l \in B : f[m] = f[l] => m = l
        BY <2>1 DEF Bijection, Injection, IsInjective
    <2>4. \A y \in B : \E m \in B : f[m] = y
        BY <2>1 DEF Bijection, Surjection
    <2> QED BY <2>2, <2>3, <2>4
<1>2. R \subseteq B
    BY <1>0
<1>3. g \in [S -> R] /\ \A m \in S : g[m] = Slot(o, m)
    OBVIOUS
<1>4. \A m : m \in S <=> m \in B /\ Slot(o, m) \in R
    OBVIOUS
<1>5. IsFiniteSet(B) /\ S \subseteq B
    BY <1>0, FS_Interval
<1>6. Cardinality(R) = b - a
    <2>1. a \in Int /\ b - 1 \in Int /\ (b - 1) - a + 1 = b - a
        OBVIOUS
    <2>2. Cardinality(R) = IF a > b - 1 THEN 0 ELSE (b - 1) - a + 1
        BY <2>1, FS_Interval
    <2> HIDE DEF R
    <2> QED BY <2>2
<1> HIDE DEF R, B, S, g
<1>7. \A y \in R : \E m \in S : g[m] = y
    BY <1>1, <1>2, <1>3, <1>4
<1>8. \A m, l \in S : g[m] = g[l] => m = l
    BY <1>1, <1>3, <1>4
<1>9. g \in Bijection(S, R)
    BY <1>3, <1>7, <1>8 DEF Bijection, Injection, Surjection, IsInjective
<1>10. IsFiniteSet(S)
    BY <1>5, FS_Subset
<1>11. Cardinality(R) = Cardinality(S)
    BY <1>9, <1>10, FS_Bijection DEF ExistsBijection
<1> QED BY <1>6, <1>10, <1>11

Off(k) == (cfg.seed + k * Turn) % Block

(* WriteKind of the operation at place m of block k.                        *)
LEMMA KindAt ==
    ASSUME CfgOK, NEW k \in Nat, NEW m \in 0 .. Block - 1
    PROVE  /\ Off(k) \in Nat
           /\ WriteKind(k * Block + m) = "insert" <=> Slot(Off(k), m) \in cfg.updates .. cfg.updates + Share - 1
           /\ WriteKind(k * Block + m) = "delete" <=> Slot(Off(k), m) \in cfg.updates + Share .. Block - 1
<1>0. Block \in Nat \ {0} /\ Stride \in Nat
    BY WorkloadAssumption
<1>1. (k * Block + m) % Block = m /\ (k * Block + m) \div Block = k
    <2>1. Block * k + m = k * Block + m
        BY <1>0
    <2> QED BY <1>0, <2>1, ModUnique
<1>2. Off(k) \in Nat
    <2>1. cfg.seed + k * Turn \in Int
        BY CfgFacts, WorkloadAssumption
    <2> QED BY <1>0, <2>1, DivMod DEF Off
<1>3. Slot(Off(k), m) \in 0 .. Block - 1
    <2>1. m * Stride + Off(k) \in Int
        BY <1>0, <1>2
    <2> QED BY <1>0, <2>1, DivMod DEF Slot
<1>4. WriteKind(k * Block + m) = IF Slot(Off(k), m) < cfg.updates THEN "update"
                                 ELSE IF Slot(Off(k), m) < cfg.updates + Share THEN "insert" ELSE "delete"
    BY <1>1 DEF WriteKind, Slot, Off, Share
<1>5. PICK s \in 0 .. Block - 1 : s = Slot(Off(k), m)
    BY <1>3
<1> QED BY <1>0, <1>2, <1>4, <1>5, CfgFacts

(* A block has its share of insertions and of deletions.                    *)
LEMMA WholeBlock ==
    ASSUME CfgOK, NEW k \in Nat, NEW kind \in {"insert", "delete"}
    PROVE  OfKind(kind, k * Block, k * Block + Block - 1) = Share
<1>0. Block \in Nat \ {0} /\ k * Block \in Nat
    BY WorkloadAssumption
<1>1. PICK a \in Nat, b \in Nat :
         /\ a <= b /\ b <= Block /\ b - a = Share
         /\ \A m \in 0 .. Block - 1 : WriteKind(k * Block + m) = kind <=> Slot(Off(k), m) \in a .. b - 1
    <2>1. CASE kind = "insert"
        <3>1. /\ cfg.updates \in Nat /\ cfg.updates + Share \in Nat /\ cfg.updates <= cfg.updates + Share
              /\ cfg.updates + Share <= Block /\ (cfg.updates + Share) - cfg.updates = Share
            BY <1>0, CfgFacts
        <3> QED BY <2>1, <3>1, KindAt
    <2>2. CASE kind = "delete"
        <3>1. /\ cfg.updates + Share \in Nat /\ Block \in Nat /\ cfg.updates + Share <= Block
              /\ Block - (cfg.updates + Share) = Share
            BY <1>0, CfgFacts
        <3>2. \A m \in 0 .. Block - 1 :
                 WriteKind(k * Block + m) = kind <=> Slot(Off(k), m) \in cfg.updates + Share .. Block - 1
            BY <2>2, KindAt
        <3> QED BY <3>1, <3>2
    <2> QED BY <2>1, <2>2
<1> DEFINE B == 0 .. Block - 1
           S == {m \in B : Slot(Off(k), m) \in a .. b - 1}
           T == {n \in k * Block .. k * Block + Block - 1 : WriteKind(n) = kind}
           g == [m \in S |-> k * Block + m]
<1>2. IsFiniteSet(S) /\ Cardinality(S) = Share
    <2>1. Off(k) \in Nat
        <3>1. 0 \in 0 .. Block - 1
            BY <1>0
        <3> QED BY <3>1, KindAt
    <2> QED BY <1>1, <2>1, SlotsIn
<1>3. \A m \in S : g[m] = k * Block + m /\ m \in B
    OBVIOUS
<1>4. g \in [S -> T]
    <2>1. ASSUME NEW m \in S PROVE k * Block + m \in T
        <3>1. k * Block + m \in k * Block .. k * Block + Block - 1
            BY <1>0
        <3>2. WriteKind(k * Block + m) = kind
            BY <1>1
        <3> QED BY <3>1, <3>2
    <2> QED BY <2>1
<1>5. ASSUME NEW n \in T PROVE \E m \in S : g[m] = n
    <2>1. n - k * Block \in B /\ k * Block + (n - k * Block) = n
        BY <1>0
    <2>2. WriteKind(n) = kind
        OBVIOUS
    <2>3. n - k * Block \in S
        BY <1>1, <2>1, <2>2
    <2> QED BY <2>1, <2>3
<1>6. \A m \in B : m \in Int
    OBVIOUS
<1>7. OfKind(kind, k * Block, k * Block + Block - 1) = Cardinality(T)
    BY DEF OfKind
<1> HIDE DEF B, S, T, g
<1>8. ASSUME NEW m \in S, NEW l \in S, g[m] = g[l] PROVE m = l
    <2>1. PICK z \in Int : z = k * Block
        BY <1>0
    <2>2. z + m = z + l /\ m \in Int /\ l \in Int
        BY <1>3, <1>6, <1>8, <2>1
    <2> QED BY <2>2
<1>9. g \in Bijection(S, T)
    BY <1>4, <1>5, <1>8 DEF Bijection, Injection, Surjection, IsInjective
<1>10. Cardinality(T) = Cardinality(S)
    BY <1>2, <1>9, FS_Bijection DEF ExistsBijection
<1> QED BY <1>2, <1>7, <1>10

LEMMA KindsFinite ==
    ASSUME NEW kind, NEW a \in Int, NEW n \in Int
    PROVE  IsFiniteSet({i \in a .. n : WriteKind(i) = kind}) /\ OfKind(kind, a, n) \in Nat
<1> DEFINE S == {i \in a .. n : WriteKind(i) = kind}
<1>1. IsFiniteSet(a .. n) /\ S \subseteq a .. n
    BY FS_Interval
<1>2. OfKind(kind, a, n) = Cardinality(S)
    BY DEF OfKind
<1>3. IsFiniteSet(S)
    BY <1>1, FS_Subset
<1>4. Cardinality(S) \in Nat
    BY <1>3, FS_CardinalityType
<1> QED BY <1>2, <1>3, <1>4

LEMMA AddOne ==
    ASSUME NEW kind, NEW a \in Int, NEW n \in Int, a <= n
    PROVE  OfKind(kind, a, n) = OfKind(kind, a, n - 1) + (IF WriteKind(n) = kind THEN 1 ELSE 0)
<1> DEFINE S == {i \in a .. n : WriteKind(i) = kind}
           T == {i \in a .. n - 1 : WriteKind(i) = kind}
<1>1. OfKind(kind, a, n) = Cardinality(S) /\ OfKind(kind, a, n - 1) = Cardinality(T)
    BY DEF OfKind
<1>2. IsFiniteSet(T) /\ Cardinality(T) \in Nat
    <2>1. n - 1 \in Int
        OBVIOUS
    <2> QED BY <1>1, <2>1, KindsFinite
<1>3. CASE WriteKind(n) = kind
    <2>1. S = T \cup {n}
        <3>1. \A i : i \in a .. n <=> i \in a .. n - 1 \/ i = n
            OBVIOUS
        <3> QED BY <1>3, <3>1
    <2>2. n \notin T
        OBVIOUS
    <2> HIDE DEF S, T
    <2>3. Cardinality(T \cup {n}) = Cardinality(T) + 1
        BY <1>2, <2>2, FS_AddElement
    <2> QED BY <1>1, <1>2, <1>3, <2>1, <2>3
<1>4. CASE WriteKind(n) # kind
    <2>1. S = T
        <3>1. \A i : i \in a .. n <=> i \in a .. n - 1 \/ i = n
            OBVIOUS
        <3> QED BY <1>4, <3>1
    <2> HIDE DEF S, T
    <2> QED BY <1>1, <1>2, <1>4, <2>1
<1> QED BY <1>3, <1>4

(* The insertions and the deletions among the first n operations.           *)
Ins(n) == StructuralCountsBefore(n).inserts
Del(n) == StructuralCountsBefore(n).deletes

LEMMA CountsAt ==
    ASSUME CfgOK, NEW n \in Nat, NEW k \in Nat, n \div Block = k
    PROVE  /\ Ins(n) = k * Share + OfKind("insert", k * Block, n - 1)
           /\ Del(n) = k * Share + OfKind("delete", k * Block, n - 1)
BY DEF Ins, Del, StructuralCountsBefore, Share

LEMMA CountsAtZero ==
    ASSUME CfgOK
    PROVE  Ins(0) = 0 /\ Del(0) = 0
<1>0. Block \in Nat \ {0} /\ Share \in Nat
    BY WorkloadAssumption, CfgFacts
<1>1. 0 \div Block = 0
    <2>1. Block * 0 + 0 = 0 /\ 0 \in 0 .. Block - 1
        BY <1>0
    <2> QED BY <1>0, <2>1, ModUnique
<1>2. ASSUME NEW kind PROVE OfKind(kind, 0 * Block, 0 - 1) = 0
    <2>1. {i \in 0 * Block .. 0 - 1 : WriteKind(i) = kind} = {}
        BY <1>0
    <2> QED BY <2>1, FS_EmptySet DEF OfKind
<1>3. Ins(0) = 0 * Share + OfKind("insert", 0 * Block, 0 - 1) /\ Del(0) = 0 * Share + OfKind("delete", 0 * Block, 0 - 1)
    BY <1>1, CountsAt
<1> QED BY <1>0, <1>2, <1>3

(* One operation adds one to the count of its kind, across blocks too.      *)
LEMMA CountStep ==
    ASSUME CfgOK, NEW n \in Nat
    PROVE  /\ Ins(n) \in Nat /\ Del(n) \in Nat
           /\ Ins(n + 1) = Ins(n) + (IF WriteKind(n) = "insert" THEN 1 ELSE 0)
           /\ Del(n + 1) = Del(n) + (IF WriteKind(n) = "delete" THEN 1 ELSE 0)
<1>0. Block \in Nat \ {0} /\ Share \in Nat
    BY WorkloadAssumption, CfgFacts
<1>1. PICK k \in Nat, m \in 0 .. Block - 1 : n = Block * k + m /\ n \div Block = k
    <2>1. n \div Block \in Int /\ n % Block \in 0 .. Block - 1 /\ n = Block * (n \div Block) + (n % Block)
        BY <1>0, DivMod
    <2>2. n \div Block >= 0
        BY <1>0
    <2> QED BY <2>1, <2>2
<1>2. PICK z \in Nat : z = k * Block /\ n = z + m
    BY <1>0, <1>1
<1>3. PICK e \in Nat : e = k * Share
    BY <1>0
<1>4. n - 1 \in Int /\ n \in Int /\ z \in Int /\ z <= n
    BY <1>2
<1>5. \A kind : OfKind(kind, z, n - 1) \in Nat
    BY <1>4, KindsFinite
<1>6. \A kind : OfKind(kind, z, n) = OfKind(kind, z, n - 1) + (IF WriteKind(n) = kind THEN 1 ELSE 0)
    BY <1>4, AddOne
<1>7. Ins(n) = e + OfKind("insert", z, n - 1) /\ Del(n) = e + OfKind("delete", z, n - 1)
    BY <1>1, <1>2, <1>3, CountsAt
<1>8. Ins(n) \in Nat /\ Del(n) \in Nat
    BY <1>5, <1>7
<1>9. Ins(n + 1) = e + OfKind("insert", z, n) /\ Del(n + 1) = e + OfKind("delete", z, n)
    <2>1. CASE m < Block - 1
        <3>1. n + 1 = Block * k + (m + 1) /\ m + 1 \in 0 .. Block - 1 /\ n + 1 \in Nat /\ (n + 1) - 1 = n
            BY <1>0, <1>1, <2>1
        <3>2. (n + 1) \div Block = k
            BY <1>0, <3>1, ModUnique
        <3>3. /\ Ins(n + 1) = k * Share + OfKind("insert", k * Block, (n + 1) - 1)
              /\ Del(n + 1) = k * Share + OfKind("delete", k * Block, (n + 1) - 1)
            BY <3>1, <3>2, CountsAt
        <3> QED BY <1>2, <1>3, <3>1, <3>3
    <2>2. CASE m = Block - 1
        <3>1. n + 1 = Block * (k + 1) + 0 /\ 0 \in 0 .. Block - 1 /\ n + 1 \in Nat /\ (n + 1) - 1 = n /\ k + 1 \in Nat
            BY <1>0, <1>1, <2>2
        <3>2. (n + 1) \div Block = k + 1
            BY <1>0, <3>1, ModUnique
        <3>3. /\ Ins(n + 1) = (k + 1) * Share + OfKind("insert", (k + 1) * Block, (n + 1) - 1)
              /\ Del(n + 1) = (k + 1) * Share + OfKind("delete", (k + 1) * Block, (n + 1) - 1)
            BY <3>1, <3>2, CountsAt
        <3>4. (k + 1) * Share = e + Share
            BY <1>0, <1>3
        <3>5. (k + 1) * Block = n + 1 /\ n = z + Block - 1
            BY <1>0, <1>2, <2>2, <3>1
        <3>6. \A kind : OfKind(kind, n + 1, n) = 0
            <4>1. \A kind : {i \in n + 1 .. n : WriteKind(i) = kind} = {}
                OBVIOUS
            <4> QED BY <4>1, FS_EmptySet DEF OfKind
        <3>7. OfKind("insert", z, n) = Share /\ OfKind("delete", z, n) = Share
            BY <1>2, <3>5, WholeBlock
        <3>8. Ins(n + 1) = (e + Share) + OfKind("insert", n + 1, n) /\ Del(n + 1) = (e + Share) + OfKind("delete", n + 1, n)
            BY <3>1, <3>3, <3>4, <3>5
        <3>9. Ins(n + 1) = (e + Share) + 0 /\ Del(n + 1) = (e + Share) + 0
            BY <3>6, <3>8
        <3> QED BY <1>0, <3>7, <3>9
    <2> QED BY <1>0, <2>1, <2>2
<1> QED BY <1>3, <1>5, <1>6, <1>7, <1>8, <1>9

(* Deletions are never ahead of insertions by more than a block's share.    *)
LEMMA CountBound ==
    ASSUME CfgOK, NEW n \in Nat
    PROVE  Del(n) - Ins(n) <= Share
<1>0. Block \in Nat \ {0} /\ Share \in Nat
    BY WorkloadAssumption, CfgFacts
<1>1. PICK k \in Nat, m \in 0 .. Block - 1 : n = Block * k + m /\ n \div Block = k
    <2>1. n \div Block \in Int /\ n % Block \in 0 .. Block - 1 /\ n = Block * (n \div Block) + (n % Block)
        BY <1>0, DivMod
    <2>2. n \div Block >= 0
        BY <1>0
    <2> QED BY <2>1, <2>2
<1>2. PICK z \in Nat : z = k * Block /\ n = z + m
    BY <1>0, <1>1
<1>3. PICK e \in Nat : e = k * Share
    BY <1>0
<1>4. n - 1 \in Int /\ z \in Int /\ z + Block - 1 \in Int
    BY <1>0, <1>2
<1>5. Ins(n) = e + OfKind("insert", z, n - 1) /\ Del(n) = e + OfKind("delete", z, n - 1)
    BY <1>1, <1>2, <1>3, CountsAt
<1>6. OfKind("insert", z, n - 1) \in Nat /\ OfKind("delete", z, n - 1) \in Nat
    BY <1>4, KindsFinite
<1>7. OfKind("delete", z, n - 1) <= Share
    <2> DEFINE S == {i \in z .. n - 1 : WriteKind(i) = "delete"}
               T == {i \in z .. z + Block - 1 : WriteKind(i) = "delete"}
    <2>1. S \subseteq T
        <3>1. z .. n - 1 \subseteq z .. z + Block - 1
            BY <1>0, <1>2
        <3> QED BY <3>1
    <2>2. IsFiniteSet(T)
        BY <1>4, KindsFinite
    <2>3. Cardinality(T) = Share
        <3>1. OfKind("delete", z, z + Block - 1) = Share
            BY <1>2, WholeBlock
        <3> QED BY <3>1 DEF OfKind
    <2>4. OfKind("delete", z, n - 1) = Cardinality(S)
        BY DEF OfKind
    <2> HIDE DEF S, T
    <2> QED BY <2>1, <2>2, <2>3, <2>4, FS_Subset
<1> QED BY <1>0, <1>3, <1>5, <1>6, <1>7
---------------------------------------------------------------------------
(* The inductive invariants.                                                *)

Pcs == {"start", "barrier", "take", "choose", "await", "high", "apply", "publish", "load",
        "advance", "note", "finish", "read", "scan", "next", "historical", "done", "panic"}

ThreadState ==
    [pc : Pcs, op : Nat, kind : {"none", "update", "insert", "delete"}, key : Int, seen : Nat,
     version : Nat, cursor : Nat, scan : Nat, lo : Int, hi : Int]

(* What each variable holds.                                                *)
TypeOK ==
    /\ CfgOK
    /\ next \in Nat /\ reserved \in Nat /\ published \in Nat /\ expired \in Nat
    /\ inserted \subseteq Int /\ tree \subseteq Int
    /\ plan \in [1 .. cfg.scans -> [completed : 1 .. cfg.operations, version : Nat]]
    /\ clock \in Nat \ {0}
    /\ history \in Seq([version : Nat, keys : SUBSET Int])
    /\ live \in Seq(Int)
    /\ nextScan \in Nat \ {0}
    /\ done \in BOOLEAN
    /\ main \in {"start", "join", "readers", "scanning", "end"}
    /\ th \in [Threads -> ThreadState]

Writing == {"take", "choose", "await", "high", "apply", "publish", "load", "advance", "note", "finish"}

(* Only writers write, before the main thread has joined them; scans of     *)
(* the past come after.                                                     *)
Phase(t) ==
    /\ th[t].pc \in Writing => t \in cfg.writers /\ main = "join"
    /\ th[t].pc \in {"start", "barrier"} /\ t \in cfg.writers => main \in {"start", "join"}
    /\ th[t].pc \in {"read", "scan"} => t \notin cfg.writers
    /\ th[t].pc \in {"next", "historical"} => t \in cfg.scanners /\ main = "scanning"
    /\ th[t].pc = "await" => th[t].kind = "delete"
    /\ th[t].pc = "high" => th[t].kind = "update"

PhaseInv == (main = "scanning" => cfg.scans > 0) /\ \A t \in Threads : Phase(t)

(* The threads that hold a key they insert, and those that delete one.      *)
Inserting(t) == th[t].pc = "publish" \/ (th[t].pc = "apply" /\ th[t].kind = "insert")
Deleting(t)  == th[t].pc = "await" \/ (th[t].pc = "apply" /\ th[t].kind = "delete")

(* The sliding window: the keys loaded or marked inserted, and not reserved *)
(* for deletion, are in the index; every writer has a key of its own.       *)
WindowKeys ==
    /\ cfg.records <= published /\ published <= reserved
    /\ \A k \in inserted : cfg.records <= k /\ k < reserved
    /\ \A k \in Int : cfg.records <= k /\ k < published => k \in inserted
    /\ \A k \in tree : k < reserved
    /\ \A k \in Int : expired <= k /\ (k < cfg.records \/ k \in inserted) => k \in tree

InsertersOwn ==
    /\ \A t \in Threads : Inserting(t) =>
          /\ cfg.records <= th[t].key /\ th[t].key < reserved /\ th[t].key \notin inserted
          /\ th[t].key \in tree <=> th[t].pc = "publish"
    /\ \A t, u \in Threads : Inserting(t) /\ Inserting(u) /\ th[t].key = th[u].key => t = u

DeletersOwn ==
    /\ \A t \in Threads : Deleting(t) =>
          /\ th[t].key < expired
          /\ th[t].pc = "apply" => th[t].key < published
          /\ th[t].key < cfg.records \/ th[t].key \in inserted => th[t].key \in tree
    /\ \A t, u \in Threads : Deleting(t) /\ Deleting(u) /\ th[t].key = th[u].key => t = u

SeenInserted == \A t \in Threads : th[t].pc = "advance" => th[t].seen \in inserted

KeyInv == ~cfg.random => WindowKeys /\ InsertersOwn /\ DeletersOwn /\ SeenInserted

(* Random keys: the writer's list holds keys of the index, each once, as    *)
(* many as the mix of the operations so far leaves.                         *)
Net(n) == cfg.records + Ins(n) - Del(n)

LiveKeys ==
    /\ \A i \in 1 .. Len(live) : live[i] \in tree
    /\ \A i, j \in 1 .. Len(live) : live[i] = live[j] => i = j
    /\ \A k \in tree : k > PaperKey(reserved)

LiveAt(t) ==
    /\ th[t].pc \notin {"await", "high", "publish", "load", "advance"}
    /\ th[t].pc \in {"start", "barrier", "take", "note"} => Len(live) = Net(next)
    /\ th[t].pc \in {"choose", "apply"} => th[t].kind = WriteKind(th[t].op) /\ next = th[t].op + 1
    /\ th[t].pc = "choose" => Len(live) = Net(th[t].op)
    /\ th[t].pc = "apply" =>
          /\ Len(live) = (IF th[t].kind = "delete" THEN Net(th[t].op) - 1 ELSE Net(th[t].op))
          /\ th[t].kind = "insert" => th[t].key \notin tree /\ th[t].key > PaperKey(reserved)
          /\ th[t].kind = "delete" => th[t].key \in tree /\ \A i \in 1 .. Len(live) : live[i] # th[t].key

LiveCount == \A t \in cfg.writers : LiveAt(t)

LiveInv == cfg.random => LiveKeys /\ LiveCount

(* Historical scans: the plan is in ascending order, everything below the   *)
(* writer's cursor has its version, everything above is yet to come.        *)
AllNoted == \A n \in 1 .. cfg.scans : plan[n].version # 0

Early == {"start", "barrier", "take"}
Before == {"choose", "await", "high", "apply"}
After == {"publish", "load", "advance", "note"}

PlanAt(w) ==
    /\ th[w].pc \in Early \cup Before \cup After =>
          /\ th[w].cursor \in 1 .. cfg.scans + 1
          /\ \A n \in 1 .. cfg.scans : n < th[w].cursor => plan[n].version # 0
    /\ th[w].pc \in Early =>
          \A n \in 1 .. cfg.scans : n >= th[w].cursor => plan[n].completed > next
    /\ th[w].pc \in Before \cup After =>
          /\ next = th[w].op + 1
          /\ \A n \in 1 .. cfg.scans : n >= th[w].cursor => plan[n].completed >= next
    /\ th[w].pc \in After => th[w].version # 0
    /\ th[w].pc \in {"finish", "done"} => AllNoted

Sorted == \A n, m \in 1 .. cfg.scans : n <= m => plan[n].completed <= plan[m].completed

PlanInv ==
    cfg.scans > 0 =>
        /\ Sorted
        /\ main \in {"readers", "scanning", "end"} => AllNoted
        /\ \A w \in cfg.writers : PlanAt(w)

(* The history of a sliding window: after n operations the index holds the  *)
(* keys from the deletions to the insertions among them.                    *)
Window(n) == Del(n) .. cfg.records + Ins(n) - 1

HistoryIs ==
    /\ \A n \in 1 .. Len(history) : history[n].keys = Window(n) /\ 0 < history[n].version /\ history[n].version < clock
    /\ \A n, m \in 1 .. Len(history) : n < m => history[n].version < history[m].version
    /\ \A n \in 1 .. cfg.scans : plan[n].version # 0 =>
          plan[n].completed \in 1 .. Len(history) /\ plan[n].version = history[plan[n].completed].version

(* Once an operation has committed the writer holds no key; before, the one *)
(* it inserts or deletes is the next at its end of the window.              *)
Claiming(t) == th[t].pc = "apply" /\ th[t].kind = "insert"

Held(t) ==
    /\ expired = (IF Deleting(t) THEN Del(Len(history)) + 1 ELSE Del(Len(history)))
    /\ reserved = cfg.records + (IF Claiming(t) THEN Ins(Len(history)) + 1 ELSE Ins(Len(history)))
    /\ Deleting(t) => th[t].key = Del(Len(history))
    /\ Claiming(t) => th[t].key = cfg.records + Ins(Len(history))

WriterAt(w) ==
    /\ th[w].pc \in Early \cup Before \cup After =>
          /\ tree = Window(Len(history)) /\ Del(Len(history)) <= cfg.records + Ins(Len(history))
          /\ Held(w)
    /\ th[w].pc \in Early => Len(history) = next
    /\ th[w].pc \in Before =>
          Len(history) = th[w].op /\ next = th[w].op + 1 /\ th[w].kind = WriteKind(th[w].op)
    /\ th[w].pc \in After =>
          /\ Len(history) = th[w].op + 1 /\ next = th[w].op + 1
          /\ th[w].version = history[Len(history)].version

ScanIs(s) ==
    th[s].pc = "historical" =>
        /\ th[s].scan \in 1 .. cfg.scans /\ plan[th[s].scan].version # 0
        /\ th[s].lo = ScanWindow(plan[th[s].scan].completed).lo
        /\ th[s].hi = ScanWindow(plan[th[s].scan].completed).hi

WindowInv ==
    cfg.scans > 0 /\ ~cfg.random =>
        HistoryIs /\ (\A w \in cfg.writers : WriterAt(w)) /\ \A s \in Threads : ScanIs(s)

---------------------------------------------------------------------------
(* What each action does to the threads.                                    *)

(* A step changes the state of thread t to r and of no other.               *)
Only(t, r) ==
    th' \in [Threads -> ThreadState] /\ th'[t] = r /\ \A u \in Threads : u # t => th'[u] = th[u]

LEMMA TypeFacts ==
    ASSUME TypeOK
    PROVE  /\ th \in [Threads -> ThreadState] /\ \A t \in Threads : th[t] \in ThreadState
           /\ next \in Nat /\ reserved \in Nat /\ published \in Nat /\ expired \in Nat
           /\ reserved \in Int /\ expired \in Int /\ 0 \in Int
           /\ clock \in Nat /\ clock > 0 /\ nextScan \in Nat /\ nextScan > 0
BY DEF TypeOK

LEMMA SetThread ==
    ASSUME th \in [Threads -> ThreadState], NEW t \in Threads, NEW r \in ThreadState, th' = [th EXCEPT ![t] = r]
    PROVE  Only(t, r)
BY DEF Only

LEMMA OnlyTyped ==
    ASSUME NEW t, NEW r, Only(t, r)
    PROVE  th' \in [Threads -> ThreadState]
BY DEF Only

LEMMA Goes ==
    ASSUME TypeOK, NEW t \in Threads, NEW from, NEW to \in Pcs, Goto(t, from, to)
    PROVE  th[t].pc = from /\ Only(t, [th[t] EXCEPT !.pc = to])
<1>1. th' = [th EXCEPT ![t] = [th[t] EXCEPT !.pc = to]]
    BY DEF TypeOK, Goto
<1>2. [th[t] EXCEPT !.pc = to] \in ThreadState
    BY DEF TypeOK, ThreadState
<1> QED BY <1>1, <1>2, SetThread DEF TypeOK, Goto

LEMMA TakeEffect ==
    ASSUME TypeOK, NEW t \in Threads, TakeOperation(t)
    PROVE  Only(t, [th[t] EXCEPT !.op = next, !.kind = IF next >= cfg.operations THEN "none" ELSE WriteKind(next), !.pc = IF next >= cfg.operations THEN "finish" ELSE "choose"])
<1>1. th' = [th EXCEPT ![t] = [th[t] EXCEPT !.op = next, !.kind = IF next >= cfg.operations THEN "none" ELSE WriteKind(next), !.pc = IF next >= cfg.operations THEN "finish" ELSE "choose"]]
    BY DEF TypeOK, TakeOperation
<1>0. WriteKind(next) \in {"update", "insert", "delete"}
    BY DEF WriteKind
<1>2. [th[t] EXCEPT !.op = next, !.kind = IF next >= cfg.operations THEN "none" ELSE WriteKind(next), !.pc = IF next >= cfg.operations THEN "finish" ELSE "choose"] \in ThreadState
    BY <1>0, TypeFacts DEF ThreadState, Pcs
<1> QED BY <1>1, <1>2, SetThread DEF TypeOK

LEMMA ReserveInsertEffect ==
    ASSUME TypeOK, NEW t \in Threads, ReserveInsert(t)
    PROVE  Only(t, [th[t] EXCEPT !.pc = "apply", !.key = reserved])
<1>1. th' = [th EXCEPT ![t] = [th[t] EXCEPT !.pc = "apply", !.key = reserved]]
    BY DEF TypeOK, ReserveInsert
<1>2. [th[t] EXCEPT !.pc = "apply", !.key = reserved] \in ThreadState
    BY TypeFacts DEF ThreadState, Pcs
<1> QED BY <1>1, <1>2, SetThread DEF TypeOK

LEMMA ReserveDeleteEffect ==
    ASSUME TypeOK, NEW t \in Threads, ReserveDelete(t)
    PROVE  Only(t, [th[t] EXCEPT !.pc = "await", !.key = expired])
<1>1. th' = [th EXCEPT ![t] = [th[t] EXCEPT !.pc = "await", !.key = expired]]
    BY DEF TypeOK, ReserveDelete
<1>2. [th[t] EXCEPT !.pc = "await", !.key = expired] \in ThreadState
    BY TypeFacts DEF ThreadState, Pcs
<1> QED BY <1>1, <1>2, SetThread DEF TypeOK

LEMMA SampleLowEffect ==
    ASSUME TypeOK, NEW t \in Threads, SampleLow(t)
    PROVE  Only(t, [th[t] EXCEPT !.pc = "high", !.lo = expired])
<1>1. th' = [th EXCEPT ![t] = [th[t] EXCEPT !.pc = "high", !.lo = expired]]
    BY DEF TypeOK, SampleLow
<1>2. [th[t] EXCEPT !.pc = "high", !.lo = expired] \in ThreadState
    BY TypeFacts DEF ThreadState, Pcs
<1> QED BY <1>1, <1>2, SetThread DEF TypeOK

LEMMA SampleLiveEffect ==
    ASSUME TypeOK, NEW t \in Threads, SampleLive(t)
    PROVE  \E key \in Int : Only(t, [th[t] EXCEPT !.pc = "apply", !.key = key])
<1>1. PICK key \in th[t].lo .. Max({published - 1, th[t].lo}) :
         th' = [th EXCEPT ![t].pc = "apply", ![t].key = key]
    BY DEF SampleLive
<1>2. key \in Int
    BY <1>1
<1>3. th' = [th EXCEPT ![t] = [th[t] EXCEPT !.pc = "apply", !.key = key]]
    BY <1>1 DEF TypeOK
<1>4. [th[t] EXCEPT !.pc = "apply", !.key = key] \in ThreadState
    BY <1>2, TypeFacts DEF ThreadState, Pcs
<1>5. Only(t, [th[t] EXCEPT !.pc = "apply", !.key = key])
    BY <1>3, <1>4, SetThread DEF TypeOK
<1> QED BY <1>2, <1>5

LEMMA FreshEffect ==
    ASSUME TypeOK, NEW t \in Threads, FreshRandomKey(t)
    PROVE  Only(t, [th[t] EXCEPT !.pc = "apply", !.key = PaperKey(reserved)])
<1>1. th' = [th EXCEPT ![t] = [th[t] EXCEPT !.pc = "apply", !.key = PaperKey(reserved)]]
    BY DEF TypeOK, FreshRandomKey
<1>0. PaperKey(reserved) \in Int
    <2>1. CfgOK
        BY DEF TypeOK
    <2> QED BY <2>1, CfgFacts, TypeFacts DEF PaperKey
<1>2. [th[t] EXCEPT !.pc = "apply", !.key = PaperKey(reserved)] \in ThreadState
    BY <1>0, TypeFacts DEF ThreadState, Pcs
<1> QED BY <1>1, <1>2, SetThread DEF TypeOK

LEMMA LiveEffect ==
    ASSUME TypeOK, NEW t \in Threads, LiveRandomKey(t), live # <<>>
    PROVE  \E rank \in 1 .. Len(live) :
              /\ Only(t, [th[t] EXCEPT !.pc = "apply", !.key = live[rank]])
              /\ live' = IF th[t].kind = "update" THEN live ELSE Front([live EXCEPT ![rank] = Last(live)])
<1>1. PICK rank \in 1 .. Len(live) :
         /\ th' = [th EXCEPT ![t].pc = "apply", ![t].key = live[rank]]
         /\ live' = IF th[t].kind = "update" THEN live ELSE Front([live EXCEPT ![rank] = Last(live)])
    <2>1. DOMAIN live = 1 .. Len(live)
        BY DEF TypeOK
    <2> QED BY <2>1 DEF LiveRandomKey
<1>2. live[rank] \in Int
    BY <1>1 DEF TypeOK
<1>3. th' = [th EXCEPT ![t] = [th[t] EXCEPT !.pc = "apply", !.key = live[rank]]]
    BY <1>1 DEF TypeOK
<1>4. [th[t] EXCEPT !.pc = "apply", !.key = live[rank]] \in ThreadState
    BY <1>2, TypeFacts DEF ThreadState, Pcs
<1>5. Only(t, [th[t] EXCEPT !.pc = "apply", !.key = live[rank]])
    BY <1>3, <1>4, SetThread DEF TypeOK
<1> QED BY <1>1, <1>5

LEMMA CommitEffect ==
    ASSUME TypeOK, NEW t \in Threads, NEW keys, NEW to \in Pcs, Commit(t, keys, to)
    PROVE  \E skip \in Nat :
              /\ clock' = clock + skip + 1
              /\ tree' = keys
              /\ history' = IF cfg.scans > 0 THEN Append(history, [version |-> clock + skip, keys |-> keys])
                            ELSE history
              /\ Only(t, [th[t] EXCEPT !.pc = to, !.version = clock + skip])
<1>1. PICK skip \in 0 .. cfg.maxSkip :
         /\ clock' = clock + skip + 1
         /\ tree' = keys
         /\ history' = IF cfg.scans > 0 THEN Append(history, [version |-> clock + skip, keys |-> keys])
                       ELSE history
         /\ th' = [th EXCEPT ![t].pc = to, ![t].version = clock + skip]
    BY DEF Commit
<1>2. skip \in Nat /\ clock + skip \in Nat
    <2>1. cfg.maxSkip \in Nat
        BY CfgFacts DEF TypeOK
    <2> QED BY <1>1, <2>1, TypeFacts
<1>3. th' = [th EXCEPT ![t] = [th[t] EXCEPT !.pc = to, !.version = clock + skip]]
    BY <1>1 DEF TypeOK
<1>4. [th[t] EXCEPT !.pc = to, !.version = clock + skip] \in ThreadState
    BY <1>2, TypeFacts DEF ThreadState
<1>5. Only(t, [th[t] EXCEPT !.pc = to, !.version = clock + skip])
    BY <1>3, <1>4, SetThread DEF TypeOK
<1> QED BY <1>1, <1>2, <1>5

LEMMA LoadEffect ==
    ASSUME TypeOK, NEW t \in Threads, LoadPublished(t)
    PROVE  Only(t, [th[t] EXCEPT !.seen = published, !.pc = IF published \in inserted THEN "advance" ELSE "note"])
<1>1. th' = [th EXCEPT ![t] = [th[t] EXCEPT !.seen = published, !.pc = IF published \in inserted THEN "advance" ELSE "note"]]
    BY DEF TypeOK, LoadPublished
<1>2. [th[t] EXCEPT !.seen = published, !.pc = IF published \in inserted THEN "advance" ELSE "note"] \in ThreadState
    BY TypeFacts DEF ThreadState, Pcs
<1> QED BY <1>1, <1>2, SetThread DEF TypeOK

LEMMA HitsFinite ==
    ASSUME TypeOK, NEW c \in Nat, NEW o
    PROVE  /\ Len(plan) = cfg.scans /\ DOMAIN plan = 1 .. cfg.scans
           /\ IsFiniteSet({n \in c .. Len(plan) : \A m \in c .. n : plan[m].completed = o})
           /\ Cardinality({n \in c .. Len(plan) : \A m \in c .. n : plan[m].completed = o}) \in Nat
<1> DEFINE hits == {n \in c .. Len(plan) : \A m \in c .. n : plan[m].completed = o}
<1>1. cfg.scans \in Nat
    BY CfgFacts DEF TypeOK
<1>2. Len(plan) = cfg.scans /\ DOMAIN plan = 1 .. cfg.scans
    BY <1>1 DEF TypeOK
<1>3. hits \subseteq c .. cfg.scans
    BY <1>2
<1>4. IsFiniteSet(c .. cfg.scans)
    BY <1>1, FS_Interval
<1> SUFFICES IsFiniteSet(hits) /\ Cardinality(hits) \in Nat
    BY <1>2
<1> HIDE DEF hits
<1>5. IsFiniteSet(hits)
    BY <1>3, <1>4, FS_Subset
<1> QED BY <1>5, FS_CardinalityType

(* The scans planned for the operation of t, from its cursor on.            *)
Hits(t) == {n \in th[t].cursor .. Len(plan) : \A m \in th[t].cursor .. n : plan[m].completed = th[t].op + 1}

LEMMA NoteEffect ==
    ASSUME TypeOK, NEW t \in Threads, Note(t)
    PROVE  /\ Only(t, [Start EXCEPT !.pc = "take", !.cursor = th[t].cursor + Cardinality(Hits(t))])
           /\ plan' = [n \in DOMAIN plan |-> IF n \in Hits(t) THEN [plan[n] EXCEPT !.version = th[t].version]
                                             ELSE plan[n]]
<1>1. Cardinality(Hits(t)) \in Nat /\ th[t].cursor \in Nat
    <2>1. th[t].cursor \in Nat
        BY DEF TypeOK, ThreadState
    <2> QED BY <2>1, HitsFinite DEF Hits
<1>2. /\ th' = [th EXCEPT ![t] = [Start EXCEPT !.pc = "take", !.cursor = th[t].cursor + Cardinality(Hits(t))]]
      /\ plan' = [n \in DOMAIN plan |-> IF n \in Hits(t) THEN [plan[n] EXCEPT !.version = th[t].version]
                                        ELSE plan[n]]
    BY DEF Note, Hits
<1>3. PICK c \in Nat : c = th[t].cursor + Cardinality(Hits(t))
    BY <1>1
<1>4. [Start EXCEPT !.pc = "take", !.cursor = c] \in ThreadState
    <2>1. 0 \in Int /\ 0 \in Nat
        OBVIOUS
    <2>2. Start \in ThreadState
        BY <2>1 DEF Start, ThreadState, Pcs
    <2> QED BY <2>2 DEF ThreadState, Pcs
<1> QED BY <1>2, <1>3, <1>4, SetThread DEF TypeOK

LEMMA RangeScanEffect ==
    ASSUME TypeOK, NEW t \in Threads, FreshRangeScan(t)
    PROVE  Only(t, [th[t] EXCEPT !.pc = "read", !.lo = 0])
<1>1. th' = [th EXCEPT ![t] = [th[t] EXCEPT !.pc = "read", !.lo = 0]]
    BY DEF TypeOK, FreshRangeScan
<1>2. [th[t] EXCEPT !.pc = "read", !.lo = 0] \in ThreadState
    BY TypeFacts DEF ThreadState, Pcs
<1> QED BY <1>1, <1>2, SetThread DEF TypeOK

LEMMA FreshScanEffect ==
    ASSUME TypeOK, NEW t \in Threads, FreshScan(t)
    PROVE  \/ Only(t, [th[t] EXCEPT !.pc = "done"])
           \/ Only(t, [th[t] EXCEPT !.pc = "scan", !.lo = expired])
           \/ th' = th
<1>1. CASE th' = [th EXCEPT ![t].pc = "done"]
    <2>1. th' = [th EXCEPT ![t] = [th[t] EXCEPT !.pc = "done"]]
        BY <1>1 DEF TypeOK
    <2>2. [th[t] EXCEPT !.pc = "done"] \in ThreadState
        BY TypeFacts DEF ThreadState, Pcs
    <2> QED BY <2>1, <2>2, SetThread DEF TypeOK
<1>2. CASE th' = [th EXCEPT ![t].pc = "scan", ![t].lo = expired]
    <2>1. th' = [th EXCEPT ![t] = [th[t] EXCEPT !.pc = "scan", !.lo = expired]]
        BY <1>2 DEF TypeOK
    <2>2. [th[t] EXCEPT !.pc = "scan", !.lo = expired] \in ThreadState
        BY TypeFacts DEF ThreadState, Pcs
    <2> QED BY <2>1, <2>2, SetThread DEF TypeOK
<1> QED BY <1>1, <1>2 DEF FreshScan

LEMMA CountsTyped ==
    ASSUME TypeOK, NEW n \in Nat
    PROVE  /\ Ins(n) \in Nat /\ Del(n) \in Nat /\ cfg.records + Ins(n) \in Nat
           /\ ScanWindow(n).lo \in Nat /\ ScanWindow(n).hi \in Nat
<1>1. CfgOK
    BY DEF TypeOK
<1>2. Ins(n) \in Nat /\ Del(n) \in Nat /\ cfg.records \in Nat
    BY <1>1, CountStep, CfgFacts
<1>3. \/ ScanWindow(n) = [lo |-> 0, hi |-> 0]
      \/ ScanWindow(n) = [lo |-> 0, hi |-> cfg.records]
      \/ ScanWindow(n) = [lo |-> Del(n), hi |-> cfg.records + Ins(n)]
    BY DEF ScanWindow, Ins, Del
<1> QED BY <1>2, <1>3

LEMMA HistoricalEffect ==
    ASSUME TypeOK, NEW t \in Threads, HistoricalScan(t)
    PROVE  \/ nextScan > Len(plan) /\ Only(t, [th[t] EXCEPT !.pc = "done"])
           \/ /\ nextScan \in 1 .. cfg.scans /\ plan[nextScan].version = 0
              /\ Only(t, [th[t] EXCEPT !.pc = "panic"])
           \/ /\ nextScan \in 1 .. cfg.scans /\ plan[nextScan].version # 0
              /\ Only(t, [th[t] EXCEPT !.pc = "historical", !.scan = nextScan,
                             !.lo = ScanWindow(plan[nextScan].completed).lo,
                             !.hi = ScanWindow(plan[nextScan].completed).hi])
<1>1. cfg.scans \in Nat /\ Len(plan) = cfg.scans
    BY CfgFacts, HitsFinite DEF TypeOK
<1>2. CASE nextScan > Len(plan)
    <2>1. th' = [th EXCEPT ![t] = [th[t] EXCEPT !.pc = "done"]]
        BY <1>2 DEF TypeOK, HistoricalScan
    <2>2. [th[t] EXCEPT !.pc = "done"] \in ThreadState
        BY TypeFacts DEF ThreadState, Pcs
    <2> QED BY <1>2, <2>1, <2>2, SetThread DEF TypeOK
<1>3. CASE ~(nextScan > Len(plan)) /\ plan[nextScan].version = 0
    <2>0. nextScan \in 1 .. cfg.scans
        BY <1>1, <1>3 DEF TypeOK
    <2>1. th' = [th EXCEPT ![t] = [th[t] EXCEPT !.pc = "panic"]]
        BY <1>3 DEF TypeOK, HistoricalScan
    <2>2. [th[t] EXCEPT !.pc = "panic"] \in ThreadState
        BY TypeFacts DEF ThreadState, Pcs
    <2> QED BY <1>3, <2>0, <2>1, <2>2, SetThread DEF TypeOK
<1>4. CASE ~(nextScan > Len(plan)) /\ plan[nextScan].version # 0
    <2>0. nextScan \in 1 .. cfg.scans
        BY <1>1, <1>4 DEF TypeOK
    <2>1. PICK c \in Nat : c = plan[nextScan].completed
        <3>1. plan[nextScan] \in [completed : 1 .. cfg.operations, version : Nat]
            BY <2>0 DEF TypeOK
        <3>2. plan[nextScan].completed \in Nat
            BY <3>1
        <3> QED BY <3>2
    <2>2. PICK lo \in Int, hi \in Int : lo = ScanWindow(c).lo /\ hi = ScanWindow(c).hi
        <3>1. ScanWindow(c).lo \in Nat /\ ScanWindow(c).hi \in Nat
            BY <2>1, CountsTyped
        <3> QED BY <3>1
    <2>3. th' = [th EXCEPT ![t] = [th[t] EXCEPT !.pc = "historical", !.scan = nextScan,
                                       !.lo = lo, !.hi = hi]]
        BY <1>4, <2>1, <2>2 DEF TypeOK, HistoricalScan
    <2>4. [th[t] EXCEPT !.pc = "historical", !.scan = nextScan, !.lo = lo, !.hi = hi]
             \in ThreadState
        BY <2>2, TypeFacts DEF ThreadState, Pcs
    <2>5. Only(t, [th[t] EXCEPT !.pc = "historical", !.scan = nextScan, !.lo = lo, !.hi = hi])
        BY <2>3, <2>4, SetThread DEF TypeOK
    <2> QED BY <1>4, <2>0, <2>1, <2>2, <2>5
<1> QED BY <1>2, <1>3, <1>4

---------------------------------------------------------------------------
(* Types and phases.                                                        *)

LEMMA InitType == Init => TypeOK /\ PhaseInv
<1> SUFFICES ASSUME Init PROVE TypeOK /\ PhaseInv
    OBVIOUS
<1>1. CfgOK
    BY DEF Init, CfgOK
<1>2. /\ cfg.records \in Nat /\ cfg.operations \in Nat /\ cfg.scans \in Nat /\ cfg.random \in BOOLEAN
    BY <1>1, CfgFacts
<1>3. plan \in [1 .. cfg.scans -> [completed : 1 .. cfg.operations, version : Nat]]
    BY DEF Init, PlansFor
<1>4. tree \subseteq Int
    BY <1>2 DEF Init, Loaded, LoadedKey, PaperKey
<1>5. live \in Seq(Int)
    <2>1. CASE ~cfg.random
        BY <1>2, <2>1 DEF Init
    <2>2. CASE cfg.random
        <3>1. \A n \in 1 .. cfg.records : LoadedKey(cfg, n - 1) \in Int
            BY <1>2 DEF LoadedKey, PaperKey
        <3> QED BY <1>2, <2>2, <3>1 DEF Init
    <2> QED BY <2>1, <2>2
<1>6. th \in [Threads -> ThreadState] /\ \A t \in Threads : th[t].pc = "start"
    BY DEF Init, Start, ThreadState, Pcs
<1>7. TypeOK
    <2>1. clock \in Nat \ {0} /\ history \in Seq([version : Nat, keys : SUBSET Int])
        BY <1>2 DEF Init
    <2>2. next \in Nat /\ reserved \in Nat /\ published \in Nat /\ expired \in Nat /\ inserted \subseteq Int
        BY <1>2 DEF Init
    <2>3. nextScan \in Nat \ {0}
        BY DEF Init
    <2>5. done \in BOOLEAN
        BY DEF Init
    <2>4. main \in {"start", "join", "readers", "scanning", "end"}
        BY DEF Init
    <2> QED BY <1>1, <1>3, <1>4, <1>5, <1>6, <2>1, <2>2, <2>3, <2>4, <2>5 DEF TypeOK
<1> QED BY <1>6, <1>7 DEF Init, PhaseInv, Phase, Writing

(* The steps that change nothing but their thread.                          *)
Quiet == UNCHANGED <<cfg, next, keyVars, planVars, indexVars, live, done, main>>

LEMMA QuietType ==
    ASSUME TypeOK, Quiet, th' \in [Threads -> ThreadState]
    PROVE  TypeOK'
BY DEF TypeOK, CfgOK, Accepted, Quiet, keyVars, planVars, indexVars

LEMMA CfgStays ==
    ASSUME cfg' = cfg
    PROVE  /\ CfgOK' <=> CfgOK
           /\ Share' = Share
           /\ \A n : WriteKind(n)' = WriteKind(n) /\ Ins(n)' = Ins(n) /\ Del(n)' = Del(n)
           /\ \A n : PaperKey(n)' = PaperKey(n) /\ Net(n)' = Net(n) /\ Window(n)' = Window(n)
           /\ \A n : ScanWindow(n)' = ScanWindow(n)
BY DEF CfgOK, Accepted, Share, WriteKind, Ins, Del, StructuralCountsBefore, OfKind, PaperKey, Net, Window, ScanWindow

LEMMA ThreadTyped ==
    ASSUME TypeOK, NEW t \in Threads,
           Worker(t) \/ Writer(t) \/ Reader(t) \/ Scanner(t)
    PROVE  cfg' = cfg /\ main' = main /\ done' = done /\ th' \in [Threads -> ThreadState]
<1>1. cfg' = cfg /\ main' = main /\ done' = done
    <2>1. CASE Worker(t)
        BY <2>1 DEF Worker, Arrive, Go
    <2>2. CASE Writer(t)
        BY <2>2 DEF Writer, TakeOperation, ReserveInsert, ReserveDelete, AwaitPublished, SampleLow, SampleLive,
           FreshRandomKey, LiveRandomKey, ApplyInsert, ApplyDelete, ApplyUpdate, MarkInserted, LoadPublished,
           AdvancePublished, Note, Finish
    <2>3. CASE Reader(t)
        BY <2>3 DEF Reader, FreshScan, FreshRangeScan
    <2>4. CASE Scanner(t)
        BY <2>4 DEF Scanner, HistoricalScan, ScanAt
    <2> QED BY <2>1, <2>2, <2>3, <2>4
<1> SUFFICES th' \in [Threads -> ThreadState]
    BY <1>1
<1>2. ASSUME NEW from, NEW to \in Pcs, Goto(t, from, to) PROVE th' \in [Threads -> ThreadState]
    BY <1>2, Goes DEF Only
<1>3. ASSUME NEW keys, NEW to \in Pcs, Commit(t, keys, to) PROVE th' \in [Threads -> ThreadState]
    BY <1>3, CommitEffect DEF Only
<1>4. ASSUME NEW to \in Pcs, NoEffect(t, to) PROVE th' \in [Threads -> ThreadState]
    <2>1. Goto(t, th[t].pc, to)
        BY <1>4 DEF NoEffect, Goto
    <2> QED BY <1>2, <2>1
<1>5. CASE Arrive(t) \/ AwaitPublished(t) \/ MarkInserted(t) \/ AdvancePublished(t) \/ Finish(t) \/ ScanAt(t)
    BY <1>2, <1>5 DEF Arrive, AwaitPublished, MarkInserted, AdvancePublished, Finish, ScanAt, Pcs
<1>6. CASE Go(t)
    <2>1. (IF t \in cfg.writers THEN "take" ELSE "read") \in Pcs
        BY DEF Pcs
    <2> QED BY <1>2, <1>6, <2>1 DEF Go
<1>7. CASE TakeOperation(t) \/ ReserveInsert(t) \/ ReserveDelete(t) \/ SampleLow(t) \/ SampleLive(t)
           \/ FreshRandomKey(t) \/ LoadPublished(t) \/ Note(t) \/ FreshRangeScan(t)
    <2>1. CASE TakeOperation(t)
        BY <2>1, TakeEffect, OnlyTyped
    <2>2. CASE ReserveInsert(t)
        BY <2>2, ReserveInsertEffect, OnlyTyped
    <2>3. CASE ReserveDelete(t)
        BY <2>3, ReserveDeleteEffect, OnlyTyped
    <2>4. CASE SampleLow(t)
        BY <2>4, SampleLowEffect, OnlyTyped
    <2>5. CASE SampleLive(t)
        BY <2>5, SampleLiveEffect, OnlyTyped
    <2>6. CASE FreshRandomKey(t)
        BY <2>6, FreshEffect, OnlyTyped
    <2>7. CASE LoadPublished(t)
        BY <2>7, LoadEffect, OnlyTyped
    <2>8. CASE Note(t)
        BY <2>8, NoteEffect, OnlyTyped
    <2>9. CASE FreshRangeScan(t)
        BY <2>9, RangeScanEffect, OnlyTyped
    <2> QED BY <1>7, <2>1, <2>2, <2>3, <2>4, <2>5, <2>6, <2>7, <2>8, <2>9
<1>8. CASE LiveRandomKey(t)
    <2>1. CASE live = <<>>
        <3>1. Goto(t, "choose", "panic") /\ "panic" \in Pcs
            BY <1>8, <2>1 DEF LiveRandomKey, Pcs
        <3> QED BY <1>2, <3>1
    <2>2. CASE live # <<>>
        <3>1. PICK rank \in 1 .. Len(live) : Only(t, [th[t] EXCEPT !.pc = "apply", !.key = live[rank]])
            BY <1>8, <2>2, LiveEffect
        <3> QED BY <3>1, OnlyTyped
    <2> QED BY <2>1, <2>2
<1>9. CASE ApplyInsert(t)
    <2>1. (IF cfg.random THEN "note" ELSE "publish") \in Pcs /\ "panic" \in Pcs
        BY DEF Pcs
    <2>2. CASE th[t].key \notin tree
        BY <1>3, <1>9, <2>1, <2>2 DEF ApplyInsert
    <2>3. CASE th[t].key \in tree
        BY <1>4, <1>9, <2>1, <2>3 DEF ApplyInsert
    <2> QED BY <2>2, <2>3
<1>10. CASE ApplyDelete(t)
    <2>1. "note" \in Pcs /\ "panic" \in Pcs
        BY DEF Pcs
    <2>2. CASE th[t].key \in tree
        BY <1>3, <1>10, <2>1, <2>2 DEF ApplyDelete
    <2>3. CASE th[t].key \notin tree
        BY <1>4, <1>10, <2>1, <2>3 DEF ApplyDelete
    <2> QED BY <2>2, <2>3
<1>11. CASE ApplyUpdate(t)
    <2>1. "note" \in Pcs /\ "choose" \in Pcs
        BY DEF Pcs
    <2>2. CASE th[t].key \in tree
        BY <1>3, <1>11, <2>1, <2>2 DEF ApplyUpdate
    <2>3. CASE th[t].key \notin tree
        BY <1>4, <1>11, <2>1, <2>3 DEF ApplyUpdate
    <2> QED BY <2>2, <2>3
<1>12. CASE FreshScan(t)
    BY <1>12, FreshScanEffect, TypeFacts, OnlyTyped
<1>13. CASE HistoricalScan(t)
    BY <1>13, HistoricalEffect, OnlyTyped
<1> QED BY <1>5, <1>6, <1>7, <1>8, <1>9, <1>10, <1>11, <1>12, <1>13 DEF Worker, Writer, Reader, Scanner

(* Everything but the threads, the main thread and the command line.        *)
DataOK ==
    /\ next \in Nat /\ reserved \in Nat /\ published \in Nat /\ expired \in Nat
    /\ inserted \subseteq Int /\ tree \subseteq Int
    /\ plan \in [1 .. cfg.scans -> [completed : 1 .. cfg.operations, version : Nat]]
    /\ clock \in Nat \ {0}
    /\ history \in Seq([version : Nat, keys : SUBSET Int])
    /\ live \in Seq(Int)
    /\ nextScan \in Nat \ {0}

LEMMA FrontTyped ==
    ASSUME NEW s \in Seq(Int), s # <<>>, NEW r \in 1 .. Len(s)
    PROVE  /\ Front([s EXCEPT ![r] = Last(s)]) \in Seq(Int)
           /\ Len(Front([s EXCEPT ![r] = Last(s)])) = Len(s) - 1
           /\ \A i \in 1 .. Len(s) - 1 :
                 Front([s EXCEPT ![r] = Last(s)])[i] = IF i = r THEN s[Len(s)] ELSE s[i]
<1> DEFINE e == [s EXCEPT ![r] = Last(s)]
<1>1. Len(s) \in Nat /\ Len(s) >= 1 /\ Last(s) \in Int
    BY DEF Last
<1>2. e \in Seq(Int) /\ Len(e) = Len(s) /\ \A i \in 1 .. Len(s) : e[i] = IF i = r THEN s[Len(s)] ELSE s[i]
    BY <1>1 DEF Last
<1> HIDE DEF e
<1>3. /\ SubSeq(e, 1, Len(e) - 1) \in Seq(Int) /\ Len(SubSeq(e, 1, Len(e) - 1)) = Len(s) - 1
      /\ \A i \in 1 .. Len(s) - 1 : SubSeq(e, 1, Len(e) - 1)[i] = e[i]
    BY <1>1, <1>2
<1>4. /\ Front(e) \in Seq(Int) /\ Len(Front(e)) = Len(s) - 1
      /\ \A i \in 1 .. Len(s) - 1 : Front(e)[i] = IF i = r THEN s[Len(s)] ELSE s[i]
    BY <1>1, <1>2, <1>3 DEF Front
<1> QED BY <1>4 DEF e

LEMMA DataCommit ==
    ASSUME TypeOK, NEW t \in Threads, NEW keys \in SUBSET Int, NEW to \in Pcs, Commit(t, keys, to)
    PROVE  /\ clock' \in Nat \ {0} /\ tree' \subseteq Int /\ history' \in Seq([version : Nat, keys : SUBSET Int])
<1>1. PICK skip \in Nat :
         /\ clock' = clock + skip + 1
         /\ tree' = keys
         /\ history' = IF cfg.scans > 0 THEN Append(history, [version |-> clock + skip, keys |-> keys]) ELSE history
    BY CommitEffect
<1>2. clock' \in Nat \ {0} /\ clock + skip \in Nat
    BY <1>1, TypeFacts
<1>3. history \in Seq([version : Nat, keys : SUBSET Int])
    BY DEF TypeOK
<1>4. [version |-> clock + skip, keys |-> keys] \in [version : Nat, keys : SUBSET Int]
    BY <1>2
<1>5. Append(history, [version |-> clock + skip, keys |-> keys]) \in Seq([version : Nat, keys : SUBSET Int])
    BY <1>3, <1>4
<1> QED BY <1>1, <1>2, <1>3, <1>5

LEMMA DataStep ==
    ASSUME TypeOK, NEW t \in Threads,
           Worker(t) \/ Writer(t) \/ Reader(t) \/ Scanner(t)
    PROVE  DataOK'
<1>0. DataOK /\ th[t] \in ThreadState /\ cfg' = cfg
    BY TypeFacts, ThreadTyped DEF TypeOK, DataOK
<1>1. th[t].key \in Int /\ th[t].version \in Nat
    BY <1>0 DEF ThreadState
<1>2. CASE Quiet
    BY <1>0, <1>2 DEF Quiet, DataOK, keyVars, planVars, indexVars
<1>3. CASE TakeOperation(t)
    BY <1>0, <1>3 DEF TakeOperation, DataOK, keyVars, planVars, indexVars
<1>4. CASE ReserveInsert(t)
    BY <1>0, <1>4 DEF ReserveInsert, DataOK, planVars, indexVars
<1>5. CASE ReserveDelete(t)
    BY <1>0, <1>5 DEF ReserveDelete, DataOK, planVars, indexVars
<1>6. CASE FreshRandomKey(t)
    BY <1>0, <1>6 DEF FreshRandomKey, DataOK, planVars, indexVars
<1>7. CASE LiveRandomKey(t)
    <2>1. live' \in Seq(Int)
        <3>1. CASE live = <<>>
            BY <1>0, <1>7, <3>1 DEF LiveRandomKey, DataOK
        <3>2. CASE live # <<>>
            <4>1. PICK rank \in 1 .. Len(live) :
                     live' = IF th[t].kind = "update" THEN live ELSE Front([live EXCEPT ![rank] = Last(live)])
                BY <1>7, <3>2, LiveEffect
            <4>2. Front([live EXCEPT ![rank] = Last(live)]) \in Seq(Int)
                BY <1>0, <3>2, FrontTyped DEF DataOK
            <4> QED BY <1>0, <4>1, <4>2 DEF DataOK
        <3> QED BY <3>1, <3>2
    <2> QED BY <1>0, <1>7, <2>1 DEF LiveRandomKey, DataOK, keyVars, planVars, indexVars
<1>8. CASE ApplyInsert(t)
    <2>1. live' \in Seq(Int)
        BY <1>0, <1>1, <1>8 DEF ApplyInsert, DataOK
    <2>2. tree \cup {th[t].key} \in SUBSET Int
        BY <1>0, <1>1 DEF DataOK
    <2>3. clock' \in Nat \ {0} /\ tree' \subseteq Int /\ history' \in Seq([version : Nat, keys : SUBSET Int])
        <3>1. (IF cfg.random THEN "note" ELSE "publish") \in Pcs
            BY DEF Pcs
        <3>2. CASE th[t].key \notin tree
            BY <1>8, <2>2, <3>1, <3>2, DataCommit DEF ApplyInsert
        <3>3. CASE th[t].key \in tree
            BY <1>0, <1>8, <3>3 DEF ApplyInsert, NoEffect, indexVars, DataOK
        <3> QED BY <3>2, <3>3
    <2> QED BY <1>0, <1>8, <2>1, <2>3 DEF ApplyInsert, DataOK, keyVars, planVars
<1>9. CASE ApplyDelete(t)
    <2>2. tree \ {th[t].key} \in SUBSET Int
        BY <1>0, <1>1 DEF DataOK
    <2>3. clock' \in Nat \ {0} /\ tree' \subseteq Int /\ history' \in Seq([version : Nat, keys : SUBSET Int])
        <3>1. "note" \in Pcs
            BY DEF Pcs
        <3>2. CASE th[t].key \in tree
            BY <1>9, <2>2, <3>1, <3>2, DataCommit DEF ApplyDelete
        <3>3. CASE th[t].key \notin tree
            BY <1>0, <1>9, <3>3 DEF ApplyDelete, NoEffect, indexVars, DataOK
        <3> QED BY <3>2, <3>3
    <2> QED BY <1>0, <1>9, <2>3 DEF ApplyDelete, DataOK, keyVars, planVars
<1>10. CASE ApplyUpdate(t)
    <2>2. tree \in SUBSET Int
        BY <1>0 DEF DataOK
    <2>3. clock' \in Nat \ {0} /\ tree' \subseteq Int /\ history' \in Seq([version : Nat, keys : SUBSET Int])
        <3>1. "note" \in Pcs
            BY DEF Pcs
        <3>2. CASE th[t].key \in tree
            BY <1>10, <2>2, <3>1, <3>2, DataCommit DEF ApplyUpdate
        <3>3. CASE th[t].key \notin tree
            BY <1>0, <1>10, <3>3 DEF ApplyUpdate, NoEffect, indexVars, DataOK
        <3> QED BY <3>2, <3>3
    <2> QED BY <1>0, <1>10, <2>3 DEF ApplyUpdate, DataOK, keyVars, planVars
<1>11. CASE MarkInserted(t)
    BY <1>0, <1>1, <1>11 DEF MarkInserted, DataOK, planVars, indexVars
<1>12. CASE AdvancePublished(t)
    BY <1>0, <1>12 DEF AdvancePublished, DataOK, planVars, indexVars
<1>13. CASE Note(t)
    <2>1. plan' = [n \in DOMAIN plan |-> IF n \in Hits(t) THEN [plan[n] EXCEPT !.version = th[t].version] ELSE plan[n]]
        BY <1>13, NoteEffect
    <2>2. plan' \in [1 .. cfg.scans -> [completed : 1 .. cfg.operations, version : Nat]]
        BY <1>0, <1>1, <2>1 DEF DataOK
    <2> QED BY <1>0, <1>13, <2>2 DEF Note, DataOK, keyVars, indexVars
<1>14. CASE HistoricalScan(t)
    BY <1>0, <1>14 DEF HistoricalScan, DataOK, keyVars, indexVars
<1>15. CASE \/ Arrive(t) \/ Go(t) \/ AwaitPublished(t) \/ SampleLow(t) \/ SampleLive(t) \/ LoadPublished(t)
            \/ Finish(t) \/ FreshScan(t) \/ FreshRangeScan(t) \/ ScanAt(t)
    BY <1>2, <1>15 DEF Quiet, Arrive, Go, AwaitPublished, SampleLow, SampleLive, LoadPublished, Finish, FreshScan,
       FreshRangeScan, ScanAt
<1> QED BY <1>3, <1>4, <1>5, <1>6, <1>7, <1>8, <1>9, <1>10, <1>11, <1>12, <1>13, <1>14, <1>15
        DEF Worker, Writer, Reader, Scanner

LEMMA MainTyped ==
    ASSUME TypeOK, Main
    PROVE  /\ cfg' = cfg /\ UNCHANGED <<next, keyVars, planVars, indexVars, live>>
           /\ th' \in [Threads -> ThreadState]
<1>1. Start \in ThreadState
    <2>1. 0 \in Int /\ 0 \in Nat
        OBVIOUS
    <2> QED BY <2>1 DEF Start, ThreadState, Pcs
<1>2. [Start EXCEPT !.pc = "next"] \in ThreadState
    BY <1>1 DEF ThreadState, Pcs
<1>3. CASE JoinReaders
    BY <1>2, <1>3, TypeFacts DEF JoinReaders
<1>4. CASE MainArrives \/ JoinWriters \/ JoinScanners
    BY <1>4, TypeFacts DEF MainArrives, JoinWriters, JoinScanners
<1> QED BY <1>3, <1>4 DEF Main

LEMMA TypeStep ==
    ASSUME TypeOK, [Next]_vars
    PROVE  TypeOK' /\ cfg' = cfg
<1>1. CASE UNCHANGED vars
    BY <1>1, CfgStays DEF TypeOK, vars
<1>2. CASE Main
    <2>1. CfgOK'
        BY <1>2, MainTyped, CfgStays DEF TypeOK
    <2>2. DataOK'
        BY <1>2, MainTyped DEF TypeOK, DataOK, keyVars, planVars, indexVars
    <2>3. done' \in BOOLEAN /\ main' \in {"start", "join", "readers", "scanning", "end"}
        <3>1. CASE JoinWriters
            BY <3>1 DEF JoinWriters
        <3>2. CASE MainArrives \/ JoinReaders \/ JoinScanners
            BY <3>2 DEF TypeOK, MainArrives, JoinReaders, JoinScanners
        <3> QED BY <1>2, <3>1, <3>2 DEF Main
    <2> QED BY <1>2, <2>1, <2>2, <2>3, MainTyped DEF TypeOK, DataOK
<1>3. CASE \E t \in Threads : Worker(t) \/ Writer(t) \/ Reader(t) \/ Scanner(t)
    <2>1. CfgOK' /\ cfg' = cfg /\ main' = main /\ done' = done /\ th' \in [Threads -> ThreadState]
        BY <1>3, ThreadTyped, CfgStays DEF TypeOK
    <2>2. DataOK'
        BY <1>3, DataStep
    <2> QED BY <2>1, <2>2 DEF TypeOK, DataOK
<1> QED BY <1>1, <1>2, <1>3 DEF Next

LEMMA PhaseFrame ==
    ASSUME PhaseInv, NEW t \in Threads, NEW r, Only(t, r), cfg' = cfg, main' = main, Phase(t)'
    PROVE  PhaseInv'
<1>1. ASSUME NEW u \in Threads, u # t PROVE Phase(u)'
    <2>1. th'[u] = th[u] /\ Phase(u)
        BY <1>1 DEF Only, PhaseInv
    <2> QED BY <2>1 DEF Phase
<1> QED BY <1>1 DEF PhaseInv

LEMMA PhaseWriting ==
    ASSUME PhaseInv, NEW t \in Threads, NEW r, Only(t, r), cfg' = cfg, main' = main,
           th[t].pc \in Writing, th'[t].pc \in Writing \cup {"done", "panic"},
           th'[t].pc = "await" => th'[t].kind = "delete", th'[t].pc = "high" => th'[t].kind = "update"
    PROVE  PhaseInv'
<1>1. t \in cfg.writers /\ main = "join"
    BY DEF PhaseInv, Phase
<1>2. Phase(t)'
    BY <1>1 DEF Phase, Writing
<1> QED BY <1>2, PhaseFrame

LEMMA PhaseThread ==
    ASSUME TypeOK, PhaseInv, NEW t \in Threads,
           Worker(t) \/ Writer(t) \/ Reader(t) \/ Scanner(t)
    PROVE  PhaseInv'
<1>0. cfg' = cfg /\ main' = main /\ th[t] \in ThreadState /\ Phase(t)
    BY ThreadTyped, TypeFacts DEF PhaseInv
<1>2. ASSUME NEW keys, NEW to \in {"note", "publish"}, Commit(t, keys, to), th[t].pc = "apply" PROVE PhaseInv'
    <2>1. PICK skip \in Nat : Only(t, [th[t] EXCEPT !.pc = to, !.version = clock + skip])
        <3>1. to \in Pcs
            BY DEF Pcs
        <3> QED BY <1>2, <3>1, CommitEffect
    <2>2. th'[t].pc = to
        BY <1>0, <2>1 DEF Only, ThreadState
    <2>3. th[t].pc \in Writing /\ th'[t].pc \in Writing /\ th'[t].pc # "await" /\ th'[t].pc # "high"
        BY <1>2, <2>2 DEF Writing
    <2> QED BY <1>0, <2>1, <2>2, <2>3, PhaseWriting
<1>3. ASSUME NEW from \in Writing, NEW to \in {"panic", "choose", "apply", "load", "note", "done"}, Goto(t, from, to) PROVE PhaseInv'
    <2>1. Only(t, [th[t] EXCEPT !.pc = to]) /\ th[t].pc = from
        <3>1. to \in Pcs
            BY DEF Pcs
        <3> QED BY <1>3, <3>1, Goes
    <2>2. th'[t].pc = to
        BY <1>0, <2>1 DEF Only, ThreadState
    <2>3. th'[t].pc \in Writing \cup {"done", "panic"} /\ th'[t].pc # "await" /\ th'[t].pc # "high"
        BY <2>2 DEF Writing
    <2> QED BY <1>0, <1>3, <2>1, <2>2, <2>3, PhaseWriting
<1>4. ASSUME NEW to \in {"panic", "choose"}, NoEffect(t, to), th[t].pc = "apply" PROVE PhaseInv'
    <2>1. Goto(t, "apply", to) /\ "apply" \in Writing
        BY <1>4 DEF NoEffect, Goto, Writing
    <2> QED BY <1>3, <2>1
<1>5. CASE Arrive(t)
    <2>1. th[t].pc = "start" /\ Only(t, [th[t] EXCEPT !.pc = "barrier"])
        BY <1>5, Goes DEF Arrive, Pcs
    <2>2. th'[t].pc = "barrier"
        BY <1>0, <2>1 DEF Only, ThreadState
    <2>3. Phase(t)'
        BY <1>0, <2>1, <2>2 DEF Phase, Writing
    <2> QED BY <1>0, <2>1, <2>3, PhaseFrame
<1>6. CASE Go(t)
    <2>1. (IF t \in cfg.writers THEN "take" ELSE "read") \in Pcs
        BY DEF Pcs
    <2>2. th[t].pc = "barrier" /\ Only(t, [th[t] EXCEPT !.pc = IF t \in cfg.writers THEN "take" ELSE "read"])
        BY <1>6, <2>1, Goes DEF Go
    <2>3. th'[t].pc = IF t \in cfg.writers THEN "take" ELSE "read"
        BY <1>0, <2>2 DEF Only, ThreadState
    <2>4. main # "start"
        BY <1>6 DEF Go, AllArrived
    <2>5. Phase(t)'
        BY <1>0, <2>2, <2>3, <2>4 DEF Phase, Writing
    <2> QED BY <1>0, <2>2, <2>5, PhaseFrame
<1>7. CASE TakeOperation(t)
    <2> DEFINE k == IF next >= cfg.operations THEN "none" ELSE WriteKind(next)
               p == IF next >= cfg.operations THEN "finish" ELSE "choose"
    <2>1. th[t].pc = "take" /\ Only(t, [th[t] EXCEPT !.op = next, !.kind = k, !.pc = p])
        BY <1>7, TakeEffect DEF TakeOperation
    <2>2. p \in {"finish", "choose"}
        OBVIOUS
    <2> HIDE DEF k, p
    <2>3. th'[t].pc = p
        BY <1>0, <2>1 DEF Only, ThreadState
    <2>4. th[t].pc \in Writing /\ th'[t].pc \in Writing /\ th'[t].pc # "await" /\ th'[t].pc # "high"
        BY <2>1, <2>2, <2>3 DEF Writing
    <2> QED BY <1>0, <2>1, <2>3, <2>4, PhaseWriting
<1>8. CASE ReserveInsert(t)
    <2>1. Only(t, [th[t] EXCEPT !.pc = "apply", !.key = reserved])
        BY <1>8, ReserveInsertEffect
    <2>2. th'[t].pc = "apply"
        BY <1>0, <2>1 DEF Only, ThreadState
    <2>3. th[t].pc \in Writing /\ th'[t].pc \in Writing /\ th'[t].pc # "await" /\ th'[t].pc # "high"
        BY <1>8, <2>2 DEF ReserveInsert, Writing
    <2> QED BY <1>0, <2>1, <2>2, <2>3, PhaseWriting
<1>9. CASE ReserveDelete(t)
    <2>1. Only(t, [th[t] EXCEPT !.pc = "await", !.key = expired])
        BY <1>9, ReserveDeleteEffect
    <2>2. th'[t].pc = "await" /\ th'[t].kind = th[t].kind
        BY <1>0, <2>1 DEF Only, ThreadState
    <2>3. th[t].pc \in Writing /\ th'[t].pc \in Writing /\ th'[t].kind = "delete" /\ th'[t].pc # "high"
        BY <1>9, <2>2 DEF ReserveDelete, Writing
    <2> QED BY <1>0, <2>1, <2>2, <2>3, PhaseWriting
<1>10. CASE AwaitPublished(t) \/ MarkInserted(t) \/ AdvancePublished(t) \/ Finish(t)
    BY <1>3, <1>10 DEF AwaitPublished, MarkInserted, AdvancePublished, Finish, Writing
<1>11. CASE SampleLow(t)
    <2>1. Only(t, [th[t] EXCEPT !.pc = "high", !.lo = expired])
        BY <1>11, SampleLowEffect
    <2>2. th'[t].pc = "high" /\ th'[t].kind = th[t].kind
        BY <1>0, <2>1 DEF Only, ThreadState
    <2>3. th[t].pc \in Writing /\ th'[t].pc \in Writing /\ th'[t].kind = "update" /\ th'[t].pc # "await"
        BY <1>11, <2>2 DEF SampleLow, Writing
    <2> QED BY <1>0, <2>1, <2>2, <2>3, PhaseWriting
<1>12. CASE SampleLive(t)
    <2>1. PICK key \in Int : Only(t, [th[t] EXCEPT !.pc = "apply", !.key = key])
        BY <1>12, SampleLiveEffect
    <2>2. th'[t].pc = "apply"
        BY <1>0, <2>1 DEF Only, ThreadState
    <2>3. th[t].pc \in Writing /\ th'[t].pc \in Writing /\ th'[t].pc # "await" /\ th'[t].pc # "high"
        BY <1>12, <2>2 DEF SampleLive, Writing
    <2> QED BY <1>0, <2>1, <2>2, <2>3, PhaseWriting
<1>13. CASE FreshRandomKey(t)
    <2>1. Only(t, [th[t] EXCEPT !.pc = "apply", !.key = PaperKey(reserved)])
        BY <1>13, FreshEffect
    <2>2. th'[t].pc = "apply"
        BY <1>0, <2>1 DEF Only, ThreadState
    <2>3. th[t].pc \in Writing /\ th'[t].pc \in Writing /\ th'[t].pc # "await" /\ th'[t].pc # "high"
        BY <1>13, <2>2 DEF FreshRandomKey, Writing
    <2> QED BY <1>0, <2>1, <2>2, <2>3, PhaseWriting
<1>14. CASE LiveRandomKey(t)
    <2>1. CASE live = <<>>
        <3>1. Goto(t, "choose", "panic") /\ "choose" \in Writing
            BY <1>14, <2>1 DEF LiveRandomKey, Writing
        <3> QED BY <1>3, <3>1
    <2>2. CASE live # <<>>
        <3>1. PICK rank \in 1 .. Len(live) : Only(t, [th[t] EXCEPT !.pc = "apply", !.key = live[rank]])
            BY <1>14, <2>2, LiveEffect
        <3>2. th'[t].pc = "apply"
            BY <1>0, <3>1 DEF Only, ThreadState
        <3>3. th[t].pc \in Writing /\ th'[t].pc \in Writing /\ th'[t].pc # "await" /\ th'[t].pc # "high"
            BY <1>14, <3>2 DEF LiveRandomKey, Writing
        <3> QED BY <1>0, <3>1, <3>2, <3>3, PhaseWriting
    <2> QED BY <2>1, <2>2
<1>15. CASE ApplyInsert(t) \/ ApplyDelete(t) \/ ApplyUpdate(t)
    BY <1>2, <1>4, <1>15 DEF ApplyInsert, ApplyDelete, ApplyUpdate
<1>16. CASE LoadPublished(t)
    <2> DEFINE p == IF published \in inserted THEN "advance" ELSE "note"
    <2>1. Only(t, [th[t] EXCEPT !.seen = published, !.pc = p]) /\ th[t].pc = "load"
        BY <1>16, LoadEffect DEF LoadPublished
    <2>2. p \in {"advance", "note"}
        OBVIOUS
    <2> HIDE DEF p
    <2>3. th'[t].pc = p
        BY <1>0, <2>1 DEF Only, ThreadState
    <2>4. th[t].pc \in Writing /\ th'[t].pc \in Writing /\ th'[t].pc # "await" /\ th'[t].pc # "high"
        BY <2>1, <2>2, <2>3 DEF Writing
    <2> QED BY <1>0, <2>1, <2>3, <2>4, PhaseWriting
<1>17. CASE Note(t)
    <2>1. PICK c : Only(t, [Start EXCEPT !.pc = "take", !.cursor = c])
        BY <1>17, NoteEffect
    <2>2. th'[t].pc = "take"
        BY <2>1 DEF Only, Start
    <2>3. th[t].pc \in Writing /\ th'[t].pc \in Writing /\ th'[t].pc # "await" /\ th'[t].pc # "high"
        BY <1>17, <2>2 DEF Note, Writing
    <2> QED BY <1>0, <2>1, <2>2, <2>3, PhaseWriting
<1>18. CASE FreshScan(t)
    <2>1. th[t].pc = "read"
        BY <1>18 DEF FreshScan
    <2>2. CASE th' = th
        BY <1>0, <2>2 DEF PhaseInv, Phase
    <2>3. CASE Only(t, [th[t] EXCEPT !.pc = "done"])
        <3>1. th'[t].pc = "done"
            BY <1>0, <2>3 DEF Only, ThreadState
        <3>2. Phase(t)'
            BY <1>0, <3>1 DEF Phase, Writing
        <3> QED BY <1>0, <2>3, <3>2, PhaseFrame
    <2>4. CASE Only(t, [th[t] EXCEPT !.pc = "scan", !.lo = expired])
        <3>1. th'[t].pc = "scan"
            BY <1>0, <2>4 DEF Only, ThreadState
        <3>2. Phase(t)'
            BY <1>0, <2>1, <3>1 DEF Phase, Writing
        <3> QED BY <1>0, <2>4, <3>2, PhaseFrame
    <2> QED BY <1>18, <2>2, <2>3, <2>4, FreshScanEffect
<1>19. CASE FreshRangeScan(t)
    <2>1. Only(t, [th[t] EXCEPT !.pc = "read", !.lo = 0]) /\ th[t].pc = "scan"
        BY <1>19, RangeScanEffect DEF FreshRangeScan
    <2>2. th'[t].pc = "read"
        BY <1>0, <2>1 DEF Only, ThreadState
    <2>3. Phase(t)'
        BY <1>0, <2>1, <2>2 DEF Phase, Writing
    <2> QED BY <1>0, <2>1, <2>3, PhaseFrame
<1>20. CASE HistoricalScan(t)
    <2>1. th[t].pc = "next"
        BY <1>20 DEF HistoricalScan
    <2>2. PICK r : Only(t, r) /\ th'[t].pc \in {"done", "panic", "historical"}
        <3>1. CASE Only(t, [th[t] EXCEPT !.pc = "done"])
            BY <1>0, <3>1 DEF Only, ThreadState
        <3>2. CASE Only(t, [th[t] EXCEPT !.pc = "panic"])
            BY <1>0, <3>2 DEF Only, ThreadState
        <3>3. CASE Only(t, [th[t] EXCEPT !.pc = "historical", !.scan = nextScan,
                             !.lo = ScanWindow(plan[nextScan].completed).lo,
                             !.hi = ScanWindow(plan[nextScan].completed).hi])
            BY <1>0, <3>3 DEF Only, ThreadState
        <3> QED BY <1>20, <3>1, <3>2, <3>3, HistoricalEffect
    <2>4. Phase(t)'
        BY <1>0, <2>1, <2>2 DEF Phase, Writing
    <2> QED BY <1>0, <2>2, <2>4, PhaseFrame
<1>21. CASE ScanAt(t)
    <2>1. Only(t, [th[t] EXCEPT !.pc = "next"]) /\ th[t].pc = "historical"
        BY <1>21, Goes DEF ScanAt, Pcs
    <2>2. th'[t].pc = "next"
        BY <1>0, <2>1 DEF Only, ThreadState
    <2>3. Phase(t)'
        BY <1>0, <2>1, <2>2 DEF Phase, Writing
    <2> QED BY <1>0, <2>1, <2>3, PhaseFrame
<1> QED BY <1>5, <1>6, <1>7, <1>8, <1>9, <1>10, <1>11, <1>12, <1>13, <1>14, <1>15, <1>16, <1>17, <1>18, <1>19,
           <1>20, <1>21 DEF Worker, Writer, Reader, Scanner

LEMMA PhaseMain ==
    ASSUME TypeOK, PhaseInv, Main
    PROVE  PhaseInv'
<1>0. cfg' = cfg /\ cfg.scans \in Nat
    BY MainTyped, CfgFacts DEF TypeOK
<1>1. CASE MainArrives
    BY <1>1 DEF MainArrives, PhaseInv, Phase
<1>2. CASE JoinWriters
    <2>1. main = "join" /\ main' = "readers" /\ th' = th /\ \A w \in cfg.writers : th[w].pc = "done"
        BY <1>2 DEF JoinWriters
    <2>2. ASSUME NEW t \in Threads PROVE Phase(t)'
        <3>1. Phase(t)
            BY DEF PhaseInv
        <3> QED BY <1>0, <2>1, <3>1 DEF Phase, Writing
    <2> QED BY <2>1, <2>2 DEF PhaseInv
<1>3. CASE JoinReaders
    <2>1. main = "readers" /\ main' = (IF cfg.scans > 0 THEN "scanning" ELSE "end")
        BY <1>3 DEF JoinReaders
    <2>2. ASSUME NEW t \in Threads PROVE Phase(t)'
        <3>1. Phase(t)
            BY DEF PhaseInv
        <3>2. CASE cfg.scans > 0 /\ t \in cfg.scanners
            <4>1. th'[t].pc = "next"
                BY <1>3, <3>2 DEF JoinReaders, Start
            <4> QED BY <1>0, <2>1, <3>2, <4>1 DEF Phase, Writing
        <3>3. CASE ~(cfg.scans > 0 /\ t \in cfg.scanners)
            <4>1. th'[t] = th[t]
                BY <1>3, <3>3 DEF JoinReaders
            <4> QED BY <1>0, <2>1, <3>1, <4>1 DEF Phase, Writing
        <3> QED BY <3>2, <3>3
    <2> QED BY <1>0, <2>1, <2>2 DEF PhaseInv
<1>4. CASE JoinScanners
    <2>1. main = "scanning" /\ main' = "end" /\ th' = th /\ \A s \in cfg.scanners : th[s].pc = "done"
        BY <1>4 DEF JoinScanners
    <2>2. ASSUME NEW t \in Threads PROVE Phase(t)'
        <3>1. Phase(t)
            BY DEF PhaseInv
        <3> QED BY <1>0, <2>1, <3>1 DEF Phase, Writing
    <2> QED BY <2>1, <2>2 DEF PhaseInv
<1> QED BY <1>1, <1>2, <1>3, <1>4 DEF Main

LEMMA PhaseStep ==
    ASSUME TypeOK, PhaseInv, [Next]_vars
    PROVE  PhaseInv'
<1>1. CASE UNCHANGED vars
    BY <1>1 DEF PhaseInv, Phase, vars
<1> QED BY <1>1, PhaseMain, PhaseThread DEF Next

(* Types and phases hold of every behaviour.                                *)
LEMMA SpecTyped == Spec => [](TypeOK /\ PhaseInv)
<1>1. TypeOK /\ PhaseInv /\ [Next]_vars => (TypeOK /\ PhaseInv)'
    BY TypeStep, PhaseStep
<1> QED BY <1>1, InitType, PTL DEF Spec

---------------------------------------------------------------------------
(* The sliding window.                                                      *)

Neutral(t) == ~Inserting(t) /\ ~Deleting(t) /\ th[t].pc # "advance"

LEMMA InitKeys == Init => KeyInv
<1> SUFFICES ASSUME Init PROVE KeyInv
    OBVIOUS
<1>1. TypeOK
    BY InitType
<1>2. cfg.records \in Nat /\ \A t \in Threads : th[t].pc = "start"
    BY <1>1, CfgFacts DEF Init, Start, TypeOK
<1>3. ASSUME ~cfg.random PROVE \A k : k \in tree <=> k \in 0 .. cfg.records - 1
    BY <1>3 DEF Init, Loaded, LoadedKey
<1>4. ASSUME ~cfg.random PROVE WindowKeys
    BY <1>2, <1>3, <1>4 DEF Init, WindowKeys
<1>5. InsertersOwn /\ DeletersOwn /\ SeenInserted
    BY <1>2 DEF InsertersOwn, DeletersOwn, SeenInserted, Inserting, Deleting
<1> QED BY <1>4, <1>5 DEF KeyInv

(* A thread that lets go of its key, or takes none, disturbs nothing.       *)
LEMMA KeysNeutral ==
    ASSUME KeyInv, UNCHANGED keyVars, cfg' = cfg, tree' = tree,
           \A u \in Threads : th'[u] = th[u] \/ Neutral(u)'
    PROVE  KeyInv'
<1> SUFFICES ASSUME ~cfg.random PROVE (WindowKeys /\ InsertersOwn /\ DeletersOwn /\ SeenInserted)'
    BY DEF KeyInv
<1>0. WindowKeys /\ InsertersOwn /\ DeletersOwn /\ SeenInserted
    BY DEF KeyInv
<1>1. WindowKeys'
    BY <1>0 DEF WindowKeys, keyVars
<1>2. \A u \in Threads : Inserting(u)' \/ Deleting(u)' \/ th'[u].pc = "advance" => th'[u] = th[u]
    BY DEF Neutral
<1>3. \A u \in Threads : (Inserting(u)' => Inserting(u)) /\ (Deleting(u)' => Deleting(u))
    BY <1>2 DEF Inserting, Deleting
<1>4. InsertersOwn'
    BY <1>0, <1>2, <1>3 DEF InsertersOwn, keyVars
<1>5. DeletersOwn'
    BY <1>0, <1>2, <1>3 DEF DeletersOwn, keyVars
<1>6. SeenInserted'
    BY <1>0, <1>2 DEF SeenInserted, keyVars
<1> QED BY <1>1, <1>4, <1>5, <1>6

LEMMA KeysReserveInsert ==
    ASSUME TypeOK, KeyInv, NEW t \in Threads, ReserveInsert(t)
    PROVE  KeyInv'
<1>1. WindowKeys /\ InsertersOwn /\ DeletersOwn /\ SeenInserted
    BY DEF ReserveInsert, KeyInv
<1>2. Only(t, [th[t] EXCEPT !.pc = "apply", !.key = reserved])
    BY ReserveInsertEffect
<1>3. th'[t].pc = "apply" /\ th'[t].key = reserved /\ th'[t].kind = "insert"
    BY <1>2, TypeFacts DEF Only, ThreadState, ReserveInsert
<1>4. \A u \in Threads : u # t => th'[u] = th[u] /\ (Inserting(u)' <=> Inserting(u)) /\ (Deleting(u)' <=> Deleting(u))
    BY <1>2 DEF Only, Inserting, Deleting
<1>5. ~Deleting(t)' /\ Inserting(t)'
    BY <1>3 DEF Deleting, Inserting
<1>6. /\ cfg' = cfg /\ published' = published /\ expired' = expired /\ inserted' = inserted /\ tree' = tree
      /\ reserved' = reserved + 1 /\ reserved \in Nat /\ published \in Nat /\ cfg.records \in Nat
      /\ inserted \subseteq Int /\ tree \subseteq Int /\ \A u \in Threads : th[u].key \in Int
    BY TypeFacts, CfgFacts DEF ReserveInsert, indexVars, TypeOK, ThreadState
<1>7. WindowKeys'
    <2>1. ASSUME NEW k \in inserted PROVE cfg.records <= k /\ k < reserved + 1
        <3>1. k \in Int /\ cfg.records <= k /\ k < reserved
            BY <1>1, <1>6 DEF WindowKeys
        <3> QED BY <1>6, <3>1
    <2>2. \A k \in tree : k \in Int /\ k < reserved + 1
        BY <1>1, <1>6 DEF WindowKeys
    <2>3. published <= reserved + 1
        BY <1>1, <1>6 DEF WindowKeys
    <2> QED BY <1>1, <1>6, <2>1, <2>2, <2>3 DEF WindowKeys
<1>8. InsertersOwn'
    <2>1. ASSUME NEW u \in Threads, Inserting(u)'
          PROVE  /\ cfg.records <= th'[u].key /\ th'[u].key < reserved' /\ th'[u].key \notin inserted'
                 /\ th'[u].key \in tree' <=> th'[u].pc = "publish"
        <3>1. CASE u = t
            BY <1>1, <1>3, <1>6, <3>1 DEF WindowKeys
        <3>2. CASE u # t
            BY <1>1, <1>4, <1>6, <2>1, <3>2 DEF InsertersOwn
        <3> QED BY <3>1, <3>2
    <2>2. ASSUME NEW u \in Threads, NEW v \in Threads, Inserting(u)', Inserting(v)', th'[u].key = th'[v].key
          PROVE  u = v
        <3>1. ASSUME NEW x \in Threads, x # t, Inserting(x)' PROVE th'[x].key # reserved
            BY <1>1, <1>4, <1>6, <3>1 DEF InsertersOwn
        <3>2. CASE u = t \/ v = t
            BY <1>3, <2>2, <3>1, <3>2
        <3>3. CASE u # t /\ v # t
            BY <1>1, <1>4, <2>2, <3>3 DEF InsertersOwn
        <3> QED BY <3>2, <3>3
    <2> QED BY <1>6, <2>1, <2>2 DEF InsertersOwn
<1>9. DeletersOwn'
    BY <1>1, <1>4, <1>5, <1>6 DEF DeletersOwn
<1>10. SeenInserted'
    BY <1>1, <1>3, <1>4, <1>6 DEF SeenInserted
<1> QED BY <1>7, <1>8, <1>9, <1>10 DEF KeyInv

LEMMA KeysReserveDelete ==
    ASSUME TypeOK, KeyInv, NEW t \in Threads, ReserveDelete(t)
    PROVE  KeyInv'
<1>1. WindowKeys /\ InsertersOwn /\ DeletersOwn /\ SeenInserted
    BY DEF ReserveDelete, KeyInv
<1>2. Only(t, [th[t] EXCEPT !.pc = "await", !.key = expired])
    BY ReserveDeleteEffect
<1>3. th'[t].pc = "await" /\ th'[t].key = expired
    BY <1>2, TypeFacts DEF Only, ThreadState
<1>4. \A u \in Threads : u # t => th'[u] = th[u] /\ (Inserting(u)' <=> Inserting(u)) /\ (Deleting(u)' <=> Deleting(u))
    BY <1>2 DEF Only, Inserting, Deleting
<1>5. Deleting(t)' /\ ~Inserting(t)'
    BY <1>3 DEF Deleting, Inserting
<1>6. /\ cfg' = cfg /\ published' = published /\ reserved' = reserved /\ inserted' = inserted /\ tree' = tree
      /\ expired' = expired + 1 /\ expired \in Nat /\ published \in Nat /\ cfg.records \in Nat
      /\ inserted \subseteq Int /\ tree \subseteq Int /\ \A u \in Threads : th[u].key \in Int
    BY TypeFacts, CfgFacts DEF ReserveDelete, indexVars, TypeOK, ThreadState
<1>7. WindowKeys'
    BY <1>1, <1>6 DEF WindowKeys
<1>8. InsertersOwn'
    BY <1>1, <1>4, <1>5, <1>6 DEF InsertersOwn
<1>9. DeletersOwn'
    <2>1. ASSUME NEW u \in Threads, Deleting(u)'
          PROVE  /\ th'[u].key < expired'
                 /\ th'[u].pc = "apply" => th'[u].key < published'
                 /\ th'[u].key < cfg.records \/ th'[u].key \in inserted' => th'[u].key \in tree'
        <3>1. CASE u = t
            BY <1>1, <1>3, <1>6, <3>1 DEF WindowKeys
        <3>2. CASE u # t
            BY <1>1, <1>4, <1>6, <2>1, <3>2 DEF DeletersOwn
        <3> QED BY <3>1, <3>2
    <2>2. ASSUME NEW u \in Threads, NEW v \in Threads, Deleting(u)', Deleting(v)', th'[u].key = th'[v].key
          PROVE  u = v
        <3>1. ASSUME NEW x \in Threads, x # t, Deleting(x)' PROVE th'[x].key # expired
            BY <1>1, <1>4, <1>6, <3>1 DEF DeletersOwn
        <3>2. CASE u = t \/ v = t
            BY <1>3, <2>2, <3>1, <3>2
        <3>3. CASE u # t /\ v # t
            BY <1>1, <1>4, <2>2, <3>3 DEF DeletersOwn
        <3> QED BY <3>2, <3>3
    <2> QED BY <1>6, <2>1, <2>2 DEF DeletersOwn
<1>10. SeenInserted'
    BY <1>1, <1>3, <1>4, <1>6 DEF SeenInserted
<1> QED BY <1>7, <1>8, <1>9, <1>10 DEF KeyInv

LEMMA KeysAwait ==
    ASSUME TypeOK, PhaseInv, KeyInv, NEW t \in Threads, AwaitPublished(t)
    PROVE  KeyInv'
<1> SUFFICES ASSUME ~cfg.random PROVE KeyInv'
    BY DEF AwaitPublished, KeyInv
<1>1. WindowKeys /\ InsertersOwn /\ DeletersOwn /\ SeenInserted
    BY DEF KeyInv
<1>2. Only(t, [th[t] EXCEPT !.pc = "apply"]) /\ th[t].pc = "await"
    BY Goes DEF AwaitPublished, Pcs
<1>3. th'[t].pc = "apply" /\ th'[t].key = th[t].key /\ th'[t].kind = "delete"
    <2>1. th[t].kind = "delete"
        BY <1>2 DEF PhaseInv, Phase
    <2> QED BY <1>2, <2>1, TypeFacts DEF Only, ThreadState
<1>4. \A u \in Threads : u # t => th'[u] = th[u] /\ (Inserting(u)' <=> Inserting(u)) /\ (Deleting(u)' <=> Deleting(u))
    BY <1>2 DEF Only, Inserting, Deleting
<1>5. Deleting(t)' /\ ~Inserting(t)' /\ Deleting(t)
    BY <1>2, <1>3 DEF Deleting, Inserting
<1>6. /\ cfg' = cfg /\ published' = published /\ reserved' = reserved /\ inserted' = inserted /\ tree' = tree
      /\ expired' = expired /\ th[t].key < published
    BY DEF AwaitPublished, indexVars, keyVars
<1>7. WindowKeys'
    BY <1>1, <1>6 DEF WindowKeys
<1>8. InsertersOwn'
    BY <1>1, <1>4, <1>5, <1>6 DEF InsertersOwn
<1>9. \A u \in Threads : th'[u].key = th[u].key /\ (Deleting(u)' <=> Deleting(u))
    BY <1>3, <1>4, <1>5
<1>10. DeletersOwn'
    <2>1. ASSUME NEW u \in Threads, Deleting(u)'
          PROVE  /\ th'[u].key < expired'
                 /\ th'[u].pc = "apply" => th'[u].key < published'
                 /\ th'[u].key < cfg.records \/ th'[u].key \in inserted' => th'[u].key \in tree'
        <3>1. CASE u = t
            BY <1>1, <1>3, <1>5, <1>6, <3>1 DEF DeletersOwn
        <3>2. CASE u # t
            BY <1>1, <1>4, <1>6, <2>1, <3>2 DEF DeletersOwn
        <3> QED BY <3>1, <3>2
    <2> QED BY <1>1, <1>6, <1>9, <2>1 DEF DeletersOwn
<1>11. SeenInserted'
    BY <1>1, <1>3, <1>4, <1>6 DEF SeenInserted
<1> QED BY <1>7, <1>8, <1>10, <1>11 DEF KeyInv

LEMMA KeysInsert ==
    ASSUME TypeOK, KeyInv, NEW t \in Threads, ApplyInsert(t), ~cfg.random
    PROVE  KeyInv' /\ th'[t].pc # "panic"
<1>1. WindowKeys /\ InsertersOwn /\ DeletersOwn /\ SeenInserted
    BY DEF KeyInv
<1>2. th[t].pc = "apply" /\ th[t].kind = "insert" /\ Inserting(t)
    BY DEF ApplyInsert, Inserting
<1>3. th[t].key \notin tree /\ th[t].key < reserved
    BY <1>1, <1>2 DEF InsertersOwn
<1>4. Commit(t, tree \cup {th[t].key}, "publish")
    BY <1>3 DEF ApplyInsert
<1>5. PICK skip \in Nat : Only(t, [th[t] EXCEPT !.pc = "publish", !.version = clock + skip]) /\ tree' = tree \cup {th[t].key}
    BY <1>4, CommitEffect DEF Pcs
<1>6. th'[t].pc = "publish" /\ th'[t].key = th[t].key
    BY <1>5, TypeFacts DEF Only, ThreadState
<1>7. \A u \in Threads : u # t => th'[u] = th[u] /\ (Inserting(u)' <=> Inserting(u)) /\ (Deleting(u)' <=> Deleting(u))
    BY <1>5 DEF Only, Inserting, Deleting
<1>8. ~Deleting(t)' /\ Inserting(t)'
    BY <1>6 DEF Deleting, Inserting
<1>9. cfg' = cfg /\ published' = published /\ expired' = expired /\ inserted' = inserted /\ reserved' = reserved
    BY DEF ApplyInsert, keyVars
<1>10. WindowKeys'
    BY <1>1, <1>3, <1>5, <1>9 DEF WindowKeys
<1>11. InsertersOwn'
    <2>1. \A u \in Threads : th'[u].key = th[u].key /\ (Inserting(u)' <=> Inserting(u))
        BY <1>2, <1>6, <1>7, <1>8
    <2>2. ASSUME NEW u \in Threads, Inserting(u)'
          PROVE  /\ cfg.records <= th'[u].key /\ th'[u].key < reserved' /\ th'[u].key \notin inserted'
                 /\ th'[u].key \in tree' <=> th'[u].pc = "publish"
        <3>1. CASE u = t
            BY <1>1, <1>2, <1>5, <1>6, <1>9, <3>1 DEF InsertersOwn
        <3>2. CASE u # t
            <4>1. th[u].key # th[t].key /\ Inserting(u) /\ th'[u] = th[u]
                BY <1>1, <1>2, <1>7, <2>2, <3>2 DEF InsertersOwn
            <4> QED BY <1>1, <1>5, <1>9, <4>1 DEF InsertersOwn
        <3> QED BY <3>1, <3>2
    <2> QED BY <1>1, <1>9, <2>1, <2>2 DEF InsertersOwn
<1>12. DeletersOwn'
    BY <1>1, <1>5, <1>7, <1>8, <1>9 DEF DeletersOwn
<1>13. SeenInserted'
    BY <1>1, <1>6, <1>7, <1>9 DEF SeenInserted
<1> QED BY <1>6, <1>10, <1>11, <1>12, <1>13 DEF KeyInv

LEMMA KeysDelete ==
    ASSUME TypeOK, KeyInv, NEW t \in Threads, ApplyDelete(t), ~cfg.random
    PROVE  KeyInv' /\ th'[t].pc # "panic"
<1>1. WindowKeys /\ InsertersOwn /\ DeletersOwn /\ SeenInserted
    BY DEF KeyInv
<1>2. th[t].pc = "apply" /\ th[t].kind = "delete" /\ Deleting(t)
    BY DEF ApplyDelete, Deleting
<1>3. /\ th[t].key \in Int /\ cfg.records \in Nat /\ published \in Nat /\ inserted \subseteq Int
      /\ expired \in Nat /\ \A u \in Threads : th[u].key \in Int
    BY TypeFacts, CfgFacts DEF TypeOK, ThreadState
<1>4. th[t].key < published /\ th[t].key < expired
    BY <1>1, <1>2 DEF DeletersOwn
<1>5. th[t].key < cfg.records \/ th[t].key \in inserted
    BY <1>1, <1>3, <1>4 DEF WindowKeys
<1>6. th[t].key \in tree
    BY <1>1, <1>2, <1>5 DEF DeletersOwn
<1>7. Commit(t, tree \ {th[t].key}, "note")
    BY <1>6 DEF ApplyDelete
<1>8. PICK skip \in Nat : Only(t, [th[t] EXCEPT !.pc = "note", !.version = clock + skip]) /\ tree' = tree \ {th[t].key}
    BY <1>7, CommitEffect DEF Pcs
<1>9. th'[t].pc = "note"
    BY <1>8, TypeFacts DEF Only, ThreadState
<1>10. \A u \in Threads : u # t => th'[u] = th[u] /\ (Inserting(u)' <=> Inserting(u)) /\ (Deleting(u)' <=> Deleting(u))
    BY <1>8 DEF Only, Inserting, Deleting
<1>11. ~Deleting(t)' /\ ~Inserting(t)'
    BY <1>9 DEF Deleting, Inserting
<1>12. cfg' = cfg /\ published' = published /\ expired' = expired /\ inserted' = inserted /\ reserved' = reserved
    BY DEF ApplyDelete, keyVars
<1>13. WindowKeys'
    <2>1. \A k \in Int : expired <= k => k # th[t].key
        BY <1>3, <1>4
    <2> QED BY <1>1, <1>8, <1>12, <2>1 DEF WindowKeys
<1>14. InsertersOwn'
    <2>1. \A u \in Threads : Inserting(u) => th[u].key # th[t].key
        BY <1>1, <1>3, <1>5 DEF InsertersOwn
    <2> QED BY <1>1, <1>8, <1>10, <1>11, <1>12, <2>1 DEF InsertersOwn
<1>15. DeletersOwn'
    <2>1. \A u \in Threads : Deleting(u) /\ u # t => th[u].key # th[t].key
        BY <1>1, <1>2 DEF DeletersOwn
    <2> QED BY <1>1, <1>8, <1>10, <1>11, <1>12, <2>1 DEF DeletersOwn
<1>16. SeenInserted'
    BY <1>1, <1>9, <1>10, <1>12 DEF SeenInserted
<1> QED BY <1>9, <1>13, <1>14, <1>15, <1>16 DEF KeyInv

LEMMA KeysMark ==
    ASSUME TypeOK, KeyInv, NEW t \in Threads, MarkInserted(t)
    PROVE  KeyInv'
<1> SUFFICES ASSUME ~cfg.random PROVE KeyInv'
    BY DEF MarkInserted, KeyInv
<1>1. WindowKeys /\ InsertersOwn /\ DeletersOwn /\ SeenInserted
    BY DEF KeyInv
<1>2. Only(t, [th[t] EXCEPT !.pc = "load"]) /\ th[t].pc = "publish"
    BY Goes DEF MarkInserted, Pcs
<1>3. th'[t].pc = "load"
    BY <1>2, TypeFacts DEF Only, ThreadState
<1>4. \A u \in Threads : u # t => th'[u] = th[u] /\ (Inserting(u)' <=> Inserting(u)) /\ (Deleting(u)' <=> Deleting(u))
    BY <1>2 DEF Only, Inserting, Deleting
<1>5. ~Deleting(t)' /\ ~Inserting(t)' /\ Inserting(t)
    BY <1>2, <1>3 DEF Deleting, Inserting
<1>6. /\ cfg' = cfg /\ published' = published /\ reserved' = reserved /\ tree' = tree /\ expired' = expired
      /\ inserted' = inserted \cup {th[t].key}
    BY DEF MarkInserted, indexVars
<1>7. th[t].key \in tree /\ cfg.records <= th[t].key /\ th[t].key < reserved
    BY <1>1, <1>2, <1>5 DEF InsertersOwn
<1>8. WindowKeys'
    BY <1>1, <1>6, <1>7 DEF WindowKeys
<1>9. InsertersOwn'
    <2>1. \A u \in Threads : Inserting(u) /\ u # t => th[u].key # th[t].key
        BY <1>1, <1>5 DEF InsertersOwn
    <2> QED BY <1>1, <1>4, <1>5, <1>6, <2>1 DEF InsertersOwn
<1>10. DeletersOwn'
    BY <1>1, <1>4, <1>5, <1>6, <1>7 DEF DeletersOwn
<1>11. SeenInserted'
    BY <1>1, <1>3, <1>4, <1>6 DEF SeenInserted
<1> QED BY <1>8, <1>9, <1>10, <1>11 DEF KeyInv

LEMMA KeysLoad ==
    ASSUME TypeOK, KeyInv, NEW t \in Threads, LoadPublished(t)
    PROVE  KeyInv'
<1> SUFFICES ASSUME ~cfg.random PROVE KeyInv'
    BY DEF LoadPublished, KeyInv
<1>1. WindowKeys /\ InsertersOwn /\ DeletersOwn /\ SeenInserted
    BY DEF KeyInv
<1>2. Only(t, [th[t] EXCEPT !.seen = published, !.pc = IF published \in inserted THEN "advance" ELSE "note"])
    BY LoadEffect
<1>3. th'[t].pc = (IF published \in inserted THEN "advance" ELSE "note") /\ th'[t].seen = published
    BY <1>2, TypeFacts DEF Only, ThreadState
<1>4. \A u \in Threads : u # t => th'[u] = th[u] /\ (Inserting(u)' <=> Inserting(u)) /\ (Deleting(u)' <=> Deleting(u))
    BY <1>2 DEF Only, Inserting, Deleting
<1>5. ~Deleting(t)' /\ ~Inserting(t)'
    BY <1>3 DEF Deleting, Inserting
<1>6. /\ cfg' = cfg /\ published' = published /\ reserved' = reserved /\ tree' = tree /\ expired' = expired
      /\ inserted' = inserted
    BY DEF LoadPublished, indexVars, keyVars
<1>7. WindowKeys'
    BY <1>1, <1>6 DEF WindowKeys
<1>8. InsertersOwn'
    BY <1>1, <1>4, <1>5, <1>6 DEF InsertersOwn
<1>9. DeletersOwn'
    BY <1>1, <1>4, <1>5, <1>6 DEF DeletersOwn
<1>10. SeenInserted'
    BY <1>1, <1>3, <1>4, <1>6 DEF SeenInserted
<1> QED BY <1>7, <1>8, <1>9, <1>10 DEF KeyInv

LEMMA KeysAdvance ==
    ASSUME TypeOK, KeyInv, NEW t \in Threads, AdvancePublished(t)
    PROVE  KeyInv'
<1> SUFFICES ASSUME ~cfg.random PROVE KeyInv'
    BY DEF AdvancePublished, KeyInv
<1>1. WindowKeys /\ InsertersOwn /\ DeletersOwn /\ SeenInserted
    BY DEF KeyInv
<1>2. Only(t, [th[t] EXCEPT !.pc = "load"]) /\ th[t].pc = "advance"
    BY Goes DEF AdvancePublished, Pcs
<1>3. th'[t].pc = "load"
    BY <1>2, TypeFacts DEF Only, ThreadState
<1>4. \A u \in Threads : u # t => th'[u] = th[u] /\ (Inserting(u)' <=> Inserting(u)) /\ (Deleting(u)' <=> Deleting(u))
    BY <1>2 DEF Only, Inserting, Deleting
<1>5. ~Deleting(t)' /\ ~Inserting(t)'
    BY <1>3 DEF Deleting, Inserting
<1>6. /\ cfg' = cfg /\ reserved' = reserved /\ tree' = tree /\ expired' = expired
      /\ inserted' = inserted /\ published' = (IF published = th[t].seen THEN published + 1 ELSE published)
    BY DEF AdvancePublished, indexVars
<1>7. /\ published \in Nat /\ reserved \in Nat /\ cfg.records \in Nat /\ th[t].seen \in inserted
      /\ \A u \in Threads : th[u].key \in Int
    BY <1>1, <1>2, TypeFacts, CfgFacts DEF SeenInserted, TypeOK, ThreadState
<1>8. WindowKeys' /\ published' >= published /\ published' \in Nat
    <2>1. CASE published # th[t].seen
        BY <1>1, <1>6, <1>7, <2>1 DEF WindowKeys
    <2>2. CASE published = th[t].seen
        <3>1. published' = published + 1 /\ published \in inserted
            BY <1>6, <1>7, <2>2
        <3>2. published < reserved
            BY <1>1, <3>1 DEF WindowKeys
        <3>3. \A k \in Int : k < published + 1 => k < published \/ k = published
            BY <1>7
        <3> QED BY <1>1, <1>6, <1>7, <3>1, <3>2, <3>3 DEF WindowKeys
    <2> QED BY <2>1, <2>2
<1>9. InsertersOwn'
    BY <1>1, <1>4, <1>5, <1>6 DEF InsertersOwn
<1>10. DeletersOwn'
    <2>1. ASSUME NEW u \in Threads, Deleting(u)'
          PROVE  /\ u # t /\ Deleting(u) /\ th'[u] = th[u]
                 /\ th[u].pc = "apply" => th[u].key < published'
        <3>1. u # t /\ Deleting(u) /\ th'[u] = th[u]
            BY <1>4, <1>5, <2>1
        <3>2. th[u].pc = "apply" => th[u].key < published
            BY <1>1, <3>1 DEF DeletersOwn
        <3> QED BY <1>7, <1>8, <3>1, <3>2
    <2> QED BY <1>1, <1>6, <2>1 DEF DeletersOwn
<1>11. SeenInserted'
    BY <1>1, <1>3, <1>4, <1>6 DEF SeenInserted
<1> QED BY <1>8, <1>9, <1>10, <1>11 DEF KeyInv

LEMMA KeysLetGo ==
    ASSUME KeyInv, UNCHANGED keyVars, cfg' = cfg, tree' = tree, NEW t \in Threads, NEW r, Only(t, r),
           th'[t].pc \notin {"publish", "await", "advance"},
           th'[t].pc = "apply" => th'[t].kind = "update"
    PROVE  KeyInv'
<1>1. Neutral(t)'
    BY DEF Neutral, Inserting, Deleting
<1>2. \A u \in Threads : th'[u] = th[u] \/ Neutral(u)'
    BY <1>1 DEF Only
<1> QED BY <1>2, KeysNeutral

LEMMA KeysThread ==
    ASSUME TypeOK, PhaseInv, KeyInv, NEW t \in Threads,
           Worker(t) \/ Writer(t) \/ Reader(t) \/ Scanner(t)
    PROVE  KeyInv'
<1>0. cfg' = cfg /\ th[t] \in ThreadState
    BY ThreadTyped, TypeFacts
<1> SUFFICES ASSUME ~cfg.random PROVE KeyInv'
    BY <1>0 DEF KeyInv
<1>1. ASSUME NEW from, NEW to \in Pcs \ {"publish", "await", "advance", "apply"}, Goto(t, from, to), UNCHANGED keyVars, tree' = tree
      PROVE  KeyInv'
    <2>1. Only(t, [th[t] EXCEPT !.pc = to])
        BY <1>1, Goes
    <2>2. th'[t].pc = to
        BY <1>0, <2>1 DEF Only, ThreadState
    <2> QED BY <1>0, <1>1, <2>1, <2>2, KeysLetGo
<1>2. CASE Arrive(t) \/ Finish(t) \/ ScanAt(t)
    BY <1>1, <1>2 DEF Arrive, Finish, ScanAt, Pcs, indexVars
<1>3. CASE Go(t)
    <2>1. (IF t \in cfg.writers THEN "take" ELSE "read") \in Pcs \ {"publish", "await", "advance", "apply"}
        BY DEF Pcs
    <2> QED BY <1>1, <1>3, <2>1 DEF Go, indexVars
<1>4. CASE TakeOperation(t)
    <2> DEFINE k == IF next >= cfg.operations THEN "none" ELSE WriteKind(next)
               p == IF next >= cfg.operations THEN "finish" ELSE "choose"
    <2>1. Only(t, [th[t] EXCEPT !.op = next, !.kind = k, !.pc = p])
        BY <1>4, TakeEffect
    <2>2. p \in {"finish", "choose"}
        OBVIOUS
    <2> HIDE DEF k, p
    <2>3. th'[t].pc = p
        BY <1>0, <2>1 DEF Only, ThreadState
    <2>4. UNCHANGED keyVars /\ tree' = tree
        BY <1>4 DEF TakeOperation, indexVars
    <2> QED BY <1>0, <2>1, <2>2, <2>3, <2>4, KeysLetGo
<1>5. CASE SampleLow(t)
    <2>1. Only(t, [th[t] EXCEPT !.pc = "high", !.lo = expired])
        BY <1>5, SampleLowEffect
    <2>2. th'[t].pc = "high"
        BY <1>0, <2>1 DEF Only, ThreadState
    <2>3. UNCHANGED keyVars /\ tree' = tree
        BY <1>5 DEF SampleLow, indexVars
    <2> QED BY <1>0, <2>1, <2>2, <2>3, KeysLetGo
<1>6. CASE SampleLive(t)
    <2>1. PICK key \in Int : Only(t, [th[t] EXCEPT !.pc = "apply", !.key = key])
        BY <1>6, SampleLiveEffect
    <2>2. th[t].kind = "update"
        BY <1>6 DEF SampleLive, PhaseInv, Phase
    <2>3. th'[t].pc = "apply" /\ th'[t].kind = "update"
        BY <1>0, <2>1, <2>2 DEF Only, ThreadState
    <2>4. UNCHANGED keyVars /\ tree' = tree
        BY <1>6 DEF SampleLive, indexVars
    <2> QED BY <1>0, <2>1, <2>3, <2>4, KeysLetGo
<1>7. CASE FreshRandomKey(t) \/ LiveRandomKey(t)
    BY <1>7 DEF FreshRandomKey, LiveRandomKey
<1>8. CASE ApplyUpdate(t)
    <2>1. CASE th[t].key \in tree
        <3>1. Commit(t, tree, "note") /\ UNCHANGED keyVars
            BY <1>8, <2>1 DEF ApplyUpdate
        <3>2. PICK skip \in Nat : Only(t, [th[t] EXCEPT !.pc = "note", !.version = clock + skip]) /\ tree' = tree
            BY <3>1, CommitEffect DEF Pcs
        <3>3. th'[t].pc = "note"
            BY <1>0, <3>2 DEF Only, ThreadState
        <3> QED BY <1>0, <3>1, <3>2, <3>3, KeysLetGo
    <2>2. CASE th[t].key \notin tree
        <3>1. Goto(t, "apply", "choose") /\ UNCHANGED keyVars /\ tree' = tree
            BY <1>8, <2>2 DEF ApplyUpdate, NoEffect, Goto, indexVars
        <3> QED BY <1>1, <3>1 DEF Pcs
    <2> QED BY <2>1, <2>2
<1>9. CASE Note(t)
    <2>1. PICK c : Only(t, [Start EXCEPT !.pc = "take", !.cursor = c])
        BY <1>9, NoteEffect
    <2>2. th'[t].pc = "take"
        BY <2>1 DEF Only, Start
    <2>3. UNCHANGED keyVars /\ tree' = tree
        BY <1>9 DEF Note, indexVars
    <2> QED BY <1>0, <2>1, <2>2, <2>3, KeysLetGo
<1>10. CASE FreshScan(t)
    <2>1. UNCHANGED keyVars /\ tree' = tree
        BY <1>10 DEF FreshScan, indexVars
    <2>2. CASE th' = th
        BY <1>0, <2>1, <2>2, KeysNeutral
    <2>3. CASE Only(t, [th[t] EXCEPT !.pc = "done"])
        <3>1. th'[t].pc = "done"
            BY <1>0, <2>3 DEF Only, ThreadState
        <3> QED BY <1>0, <2>1, <2>3, <3>1, KeysLetGo
    <2>4. CASE Only(t, [th[t] EXCEPT !.pc = "scan", !.lo = expired])
        <3>1. th'[t].pc = "scan"
            BY <1>0, <2>4 DEF Only, ThreadState
        <3> QED BY <1>0, <2>1, <2>4, <3>1, KeysLetGo
    <2> QED BY <1>10, <2>2, <2>3, <2>4, FreshScanEffect
<1>11. CASE FreshRangeScan(t)
    <2>1. Only(t, [th[t] EXCEPT !.pc = "read", !.lo = 0])
        BY <1>11, RangeScanEffect
    <2>2. th'[t].pc = "read"
        BY <1>0, <2>1 DEF Only, ThreadState
    <2>3. UNCHANGED keyVars /\ tree' = tree
        BY <1>11 DEF FreshRangeScan, indexVars
    <2> QED BY <1>0, <2>1, <2>2, <2>3, KeysLetGo
<1>12. CASE HistoricalScan(t)
    <2>1. PICK r : Only(t, r) /\ th'[t].pc \in {"done", "panic", "historical"}
        <3>1. CASE Only(t, [th[t] EXCEPT !.pc = "done"])
            BY <1>0, <3>1 DEF Only, ThreadState
        <3>2. CASE Only(t, [th[t] EXCEPT !.pc = "panic"])
            BY <1>0, <3>2 DEF Only, ThreadState
        <3>3. CASE Only(t, [th[t] EXCEPT !.pc = "historical", !.scan = nextScan,
                             !.lo = ScanWindow(plan[nextScan].completed).lo,
                             !.hi = ScanWindow(plan[nextScan].completed).hi])
            BY <1>0, <3>3 DEF Only, ThreadState
        <3> QED BY <1>12, <3>1, <3>2, <3>3, HistoricalEffect
    <2>2. UNCHANGED keyVars /\ tree' = tree
        BY <1>12 DEF HistoricalScan, indexVars
    <2> QED BY <1>0, <2>1, <2>2, KeysLetGo
<1>13. CASE ReserveInsert(t) \/ ReserveDelete(t) \/ AwaitPublished(t) \/ ApplyInsert(t) \/ ApplyDelete(t)
            \/ MarkInserted(t) \/ LoadPublished(t) \/ AdvancePublished(t)
    BY <1>13, KeysReserveInsert, KeysReserveDelete, KeysAwait, KeysInsert, KeysDelete, KeysMark, KeysLoad, KeysAdvance
<1> QED BY <1>2, <1>3, <1>4, <1>5, <1>6, <1>7, <1>8, <1>9, <1>10, <1>11, <1>12, <1>13
        DEF Worker, Writer, Reader, Scanner

LEMMA KeysMain ==
    ASSUME TypeOK, KeyInv, Main
    PROVE  KeyInv'
<1>1. cfg' = cfg /\ UNCHANGED keyVars /\ tree' = tree
    BY MainTyped DEF indexVars
<1>2. ASSUME NEW u \in Threads PROVE th'[u] = th[u] \/ Neutral(u)'
    <2>1. CASE JoinReaders
        <3>1. CASE cfg.scans > 0 /\ u \in cfg.scanners
            <4>1. th'[u].pc = "next"
                BY <2>1, <3>1 DEF JoinReaders, Start
            <4> QED BY <4>1 DEF Neutral, Inserting, Deleting
        <3>2. CASE ~(cfg.scans > 0 /\ u \in cfg.scanners)
            BY <2>1, <3>2 DEF JoinReaders
        <3> QED BY <3>1, <3>2
    <2>2. CASE MainArrives \/ JoinWriters \/ JoinScanners
        BY <2>2 DEF MainArrives, JoinWriters, JoinScanners
    <2> QED BY <2>1, <2>2 DEF Main
<1> QED BY <1>1, <1>2, KeysNeutral

LEMMA KeysStep ==
    ASSUME TypeOK, PhaseInv, KeyInv, [Next]_vars
    PROVE  KeyInv'
<1>1. CASE UNCHANGED vars
    <2>1. cfg' = cfg /\ UNCHANGED keyVars /\ tree' = tree /\ th' = th
        BY <1>1 DEF vars, keyVars
    <2> QED BY <2>1, KeysNeutral
<1> QED BY <1>1, KeysMain, KeysThread DEF Next

---------------------------------------------------------------------------
(* Random keys.                                                             *)

LEMMA SoleWriter ==
    ASSUME CfgOK, cfg.random \/ cfg.scans > 0
    PROVE  \A u, w \in cfg.writers : u = w
<1>1. Cardinality(cfg.writers) = 1
    BY DEF CfgOK, Accepted
<1>2. IsFiniteSet(cfg.writers)
    BY CfgFacts, WorkloadAssumption, FS_Subset
<1>3. \E w : cfg.writers = {w}
    BY <1>1, <1>2, FS_Singleton
<1> QED BY <1>3

LEMMA NetStep ==
    ASSUME TypeOK, NEW n \in Nat
    PROVE  /\ Net(n) \in Int
           /\ WriteKind(n) = "insert" => Net(n + 1) = Net(n) + 1
           /\ WriteKind(n) = "delete" => Net(n + 1) = Net(n) - 1
           /\ WriteKind(n) = "update" => Net(n + 1) = Net(n)
<1>1. /\ cfg.records \in Nat /\ Ins(n) \in Nat /\ Del(n) \in Nat
      /\ Ins(n + 1) = Ins(n) + (IF WriteKind(n) = "insert" THEN 1 ELSE 0)
      /\ Del(n + 1) = Del(n) + (IF WriteKind(n) = "delete" THEN 1 ELSE 0)
    BY CfgFacts, CountStep DEF TypeOK
<1>2. CASE WriteKind(n) = "insert"
    BY <1>1, <1>2 DEF Net
<1>3. CASE WriteKind(n) = "delete"
    BY <1>1, <1>3 DEF Net
<1>4. CASE WriteKind(n) = "update"
    BY <1>1, <1>4 DEF Net
<1>5. Net(n) \in Int
    BY <1>1 DEF Net
<1> QED BY <1>2, <1>3, <1>4, <1>5

LEMMA InitLive == Init => LiveInv
<1> SUFFICES ASSUME Init, cfg.random PROVE LiveKeys /\ LiveCount
    BY DEF LiveInv
<1>1. TypeOK
    BY InitType
<1>2. cfg.records \in Nat /\ cfg.operations \in Nat /\ \A t \in Threads : th[t].pc = "start"
    BY <1>1, CfgFacts DEF Init, Start, TypeOK
<1>3. /\ Len(live) = cfg.records
      /\ \A i \in 1 .. cfg.records : live[i] = cfg.records + cfg.operations - 1 - (i - 1)
    BY <1>2 DEF Init, LoadedKey, PaperKey
<1>4. tree = {cfg.records + cfg.operations - 1 - id : id \in 0 .. cfg.records - 1}
    BY DEF Init, Loaded, LoadedKey, PaperKey
<1>5. \A i \in 1 .. Len(live) : live[i] \in tree
    <2>1. ASSUME NEW i \in 1 .. cfg.records PROVE live[i] \in tree
        <3>1. i - 1 \in 0 .. cfg.records - 1
            BY <1>2
        <3> QED BY <1>3, <1>4, <3>1
    <2> QED BY <1>3, <2>1
<1>6. \A i, j \in 1 .. Len(live) : live[i] = live[j] => i = j
    BY <1>2, <1>3
<1>7. \A k \in tree : k > PaperKey(reserved)
    BY <1>2, <1>4 DEF Init, PaperKey
<1>8. Len(live) = Net(next)
    <2>1. Ins(0) = 0 /\ Del(0) = 0
        BY <1>1, CountsAtZero DEF TypeOK
    <2> QED BY <1>2, <1>3, <2>1 DEF Init, Net
<1>9. cfg.writers \subseteq Threads
    BY <1>1, CfgFacts DEF TypeOK
<1> QED BY <1>2, <1>5, <1>6, <1>7, <1>8, <1>9 DEF LiveKeys, LiveCount, LiveAt

Idle == {"finish", "done", "panic", "next", "historical"}

LEMMA LiveQuiet ==
    ASSUME LiveInv, cfg' = cfg, UNCHANGED <<live, tree, reserved, next>>,
           \A u \in cfg.writers : th'[u] = th[u] \/ th'[u].pc \in Idle
    PROVE  LiveInv'
<1> SUFFICES ASSUME cfg.random PROVE LiveKeys' /\ LiveCount'
    BY DEF LiveInv
<1>1. LiveKeys /\ LiveCount
    BY DEF LiveInv
<1>2. LiveKeys'
    BY <1>1, CfgStays DEF LiveKeys
<1>3. LiveCount'
    <2> SUFFICES ASSUME NEW u \in cfg.writers PROVE LiveAt(u)'
        BY DEF LiveCount
    <2>1. CASE th'[u] = th[u]
        BY <1>1, <2>1, CfgStays DEF LiveCount, LiveAt
    <2>2. CASE th'[u].pc \in Idle
        BY <2>2 DEF Idle, LiveAt
    <2> QED BY <2>1, <2>2
<1> QED BY <1>2, <1>3

(* With one writer, its own state is all that counts.                       *)
LEMMA LiveOnly ==
    ASSUME TypeOK, cfg' = cfg, cfg.random, NEW t \in cfg.writers, LiveAt(t)', LiveKeys'
    PROVE  LiveInv'
<1>1. \A u \in cfg.writers : u = t
    BY SoleWriter DEF TypeOK
<1> QED BY <1>1 DEF LiveInv, LiveCount

LEMMA LiveTake ==
    ASSUME TypeOK, LiveInv, cfg.random, NEW t \in Threads, t \in cfg.writers, TakeOperation(t)
    PROVE  LiveInv'
<1> DEFINE k == IF next >= cfg.operations THEN "none" ELSE WriteKind(next)
           p == IF next >= cfg.operations THEN "finish" ELSE "choose"
<1>1. Only(t, [th[t] EXCEPT !.op = next, !.kind = k, !.pc = p])
    BY TakeEffect
<1>2. th'[t].op = next /\ th'[t].kind = k /\ th'[t].pc = p
    <2> HIDE DEF k, p
    <2> QED BY <1>1, TypeFacts DEF Only, ThreadState
<1>3. cfg' = cfg /\ next' = next + 1 /\ live' = live /\ tree' = tree /\ reserved' = reserved /\ th[t].pc = "take"
    BY DEF TakeOperation, keyVars, indexVars
<1>4. Len(live) = Net(next)
    BY <1>3 DEF LiveInv, LiveCount, LiveAt
<1>5. LiveAt(t)'
    <2>1. CASE next >= cfg.operations
        BY <1>2, <2>1 DEF LiveAt
    <2>2. CASE ~(next >= cfg.operations)
        <3>1. th'[t].op = next /\ th'[t].kind = WriteKind(next) /\ th'[t].pc = "choose"
            BY <1>2, <2>2
        <3> QED BY <1>3, <1>4, <3>1, CfgStays DEF LiveAt
    <2> QED BY <2>1, <2>2
<1>6. LiveKeys'
    BY <1>3, CfgStays DEF LiveInv, LiveKeys
<1> QED BY <1>3, <1>5, <1>6, LiveOnly

LEMMA LiveFresh ==
    ASSUME TypeOK, LiveInv, cfg.random, NEW t \in Threads, t \in cfg.writers, FreshRandomKey(t)
    PROVE  LiveInv'
<1>1. Only(t, [th[t] EXCEPT !.pc = "apply", !.key = PaperKey(reserved)])
    BY FreshEffect
<1>2. th'[t].pc = "apply" /\ th'[t].key = PaperKey(reserved) /\ th'[t].kind = "insert" /\ th'[t].op = th[t].op
    BY <1>1, TypeFacts DEF Only, ThreadState, FreshRandomKey
<1>3. /\ cfg' = cfg /\ next' = next /\ live' = live /\ tree' = tree /\ reserved' = reserved + 1
      /\ th[t].pc = "choose" /\ th[t].kind = "insert"
    BY DEF FreshRandomKey, indexVars
<1>4. Len(live) = Net(th[t].op) /\ th[t].kind = WriteKind(th[t].op) /\ next = th[t].op + 1 /\ LiveKeys
    BY <1>3 DEF LiveInv, LiveCount, LiveAt
<1>5. /\ PaperKey(reserved) \in Int /\ PaperKey(reserved') = PaperKey(reserved) - 1
    <2>1. cfg.records \in Nat /\ cfg.operations \in Nat
        BY CfgFacts DEF TypeOK
    <2> QED BY <1>3, <2>1, TypeFacts DEF PaperKey
<1>6. \A k \in tree : k \in Int /\ k > PaperKey(reserved)
    BY <1>4 DEF LiveKeys, TypeOK
<1>7. PaperKey(reserved)' = PaperKey(reserved) - 1
    BY <1>3, <1>5 DEF PaperKey
<1>8. LiveKeys'
    <2>1. \A k \in tree : k > PaperKey(reserved) - 1
        BY <1>5, <1>6
    <2> QED BY <1>3, <1>4, <1>7, <2>1 DEF LiveKeys
<1>9. PaperKey(reserved) \notin tree /\ PaperKey(reserved) > PaperKey(reserved) - 1
    BY <1>5, <1>6
<1>10. LiveAt(t)'
    BY <1>2, <1>3, <1>4, <1>7, <1>9, CfgStays DEF LiveAt
<1> QED BY <1>3, <1>8, <1>10, LiveOnly

LEMMA LivePick ==
    ASSUME TypeOK, LiveInv, cfg.random, NEW t \in Threads, t \in cfg.writers, LiveRandomKey(t)
    PROVE  LiveInv'
<1>0. /\ cfg' = cfg /\ next' = next /\ tree' = tree /\ reserved' = reserved
      /\ th[t].pc = "choose" /\ th[t].kind \in {"update", "delete"}
    BY DEF LiveRandomKey, indexVars, keyVars
<1>1. Len(live) = Net(th[t].op) /\ th[t].kind = WriteKind(th[t].op) /\ next = th[t].op + 1 /\ LiveKeys
    BY <1>0 DEF LiveInv, LiveCount, LiveAt
<1>2. CASE live = <<>>
    <2>1. Only(t, [th[t] EXCEPT !.pc = "panic"]) /\ live' = live
        BY <1>2, Goes DEF LiveRandomKey, Pcs
    <2>2. th'[t].pc = "panic"
        BY <2>1, TypeFacts DEF Only, ThreadState
    <2>3. LiveAt(t)'
        BY <2>2 DEF LiveAt
    <2>4. LiveKeys'
        BY <1>0, <1>1, <2>1, CfgStays DEF LiveKeys
    <2> QED BY <1>0, <2>3, <2>4, LiveOnly
<1>3. CASE live # <<>>
    <2>1. PICK rank \in 1 .. Len(live) :
             /\ Only(t, [th[t] EXCEPT !.pc = "apply", !.key = live[rank]])
             /\ live' = IF th[t].kind = "update" THEN live ELSE Front([live EXCEPT ![rank] = Last(live)])
        BY <1>3, LiveEffect
    <2>2. th'[t].pc = "apply" /\ th'[t].key = live[rank] /\ th'[t].kind = th[t].kind /\ th'[t].op = th[t].op
        BY <2>1, TypeFacts DEF Only, ThreadState
    <2>3. CASE th[t].kind = "update"
        <3>1. live' = live
            BY <2>1, <2>3
        <3>2. LiveAt(t)'
            BY <1>0, <1>1, <2>2, <2>3, <3>1, CfgStays DEF LiveAt
        <3>3. LiveKeys'
            BY <1>0, <1>1, <3>1, CfgStays DEF LiveKeys
        <3> QED BY <1>0, <3>2, <3>3, LiveOnly
    <2>4. CASE th[t].kind = "delete"
        <3>0. live \in Seq(Int) /\ Len(live) \in Nat
            BY DEF TypeOK
        <3>1. live' = Front([live EXCEPT ![rank] = Last(live)])
            BY <2>1, <2>4
        <3>2. /\ Len(live') = Len(live) - 1
              /\ \A i \in 1 .. Len(live') : live'[i] = IF i = rank THEN live[Len(live)] ELSE live[i]
            <4> DEFINE f == Front([live EXCEPT ![rank] = Last(live)])
            <4>1. /\ Len(f) = Len(live) - 1
                  /\ \A i \in 1 .. Len(live) - 1 : f[i] = IF i = rank THEN live[Len(live)] ELSE live[i]
                BY <1>3, <2>1, <3>0, FrontTyped
            <4>2. live' = f
                BY <3>1
            <4> HIDE DEF f
            <4> QED BY <4>1, <4>2
        <3>3. \A i \in 1 .. Len(live') : i \in 1 .. Len(live) /\ i # Len(live) /\ Len(live) \in 1 .. Len(live)
            BY <2>1, <3>0, <3>2
        <3>4. \A i \in 1 .. Len(live) : live[i] \in tree
            BY <1>1 DEF LiveKeys
        <3>5. \A i, j \in 1 .. Len(live) : live[i] = live[j] => i = j
            BY <1>1 DEF LiveKeys
        <3>6. ASSUME NEW i \in 1 .. Len(live')
              PROVE  live'[i] \in tree /\ live'[i] # live[rank]
            <4>1. i \in 1 .. Len(live) /\ i # Len(live) /\ Len(live) \in 1 .. Len(live)
                BY <3>3
            <4>2. CASE i = rank
                <5>1. live'[i] = live[Len(live)]
                    BY <3>2, <4>2
                <5>2. live[Len(live)] # live[rank]
                    BY <2>1, <3>5, <4>1, <4>2
                <5> QED BY <3>4, <4>1, <5>1, <5>2
            <4>3. CASE i # rank
                <5>1. live'[i] = live[i]
                    BY <3>2, <4>3
                <5>2. live[i] # live[rank]
                    BY <2>1, <3>5, <4>1, <4>3
                <5> QED BY <3>4, <4>1, <5>1, <5>2
            <4> QED BY <4>2, <4>3
        <3>7. \A i, j \in 1 .. Len(live') : live'[i] = live'[j] => i = j
            <4> SUFFICES ASSUME NEW i \in 1 .. Len(live'), NEW j \in 1 .. Len(live'), live'[i] = live'[j] PROVE i = j
                OBVIOUS
            <4>1. CASE i = rank /\ j # rank
                BY <3>2, <3>3, <3>5, <4>1
            <4>2. CASE i # rank /\ j = rank
                BY <3>2, <3>3, <3>5, <4>2
            <4>3. CASE i # rank /\ j # rank
                BY <3>2, <3>3, <3>5, <4>3
            <4> QED BY <4>1, <4>2, <4>3
        <3>8. LiveKeys'
            BY <1>0, <1>1, <3>6, <3>7, CfgStays DEF LiveKeys
        <3>9. LiveAt(t)'
            BY <1>0, <1>1, <2>1, <2>2, <2>4, <3>2, <3>4, <3>6, CfgStays DEF LiveAt
        <3> QED BY <1>0, <3>8, <3>9, LiveOnly
    <2> QED BY <1>0, <2>3, <2>4
<1> QED BY <1>2, <1>3

LEMMA LiveInsert ==
    ASSUME TypeOK, LiveInv, cfg.random, NEW t \in Threads, t \in cfg.writers, ApplyInsert(t)
    PROVE  LiveInv' /\ th'[t].pc # "panic"
<1>0. /\ cfg' = cfg /\ next' = next /\ reserved' = reserved /\ live' = Append(live, th[t].key)
      /\ th[t].pc = "apply" /\ th[t].kind = "insert"
    BY DEF ApplyInsert, keyVars
<1>1. /\ Len(live) = Net(th[t].op) /\ WriteKind(th[t].op) = "insert" /\ next = th[t].op + 1 /\ LiveKeys
      /\ th[t].key \notin tree /\ th[t].key > PaperKey(reserved)
    BY <1>0 DEF LiveInv, LiveCount, LiveAt
<1>2. Commit(t, tree \cup {th[t].key}, "note")
    BY <1>1 DEF ApplyInsert
<1>3. PICK skip \in Nat : Only(t, [th[t] EXCEPT !.pc = "note", !.version = clock + skip]) /\ tree' = tree \cup {th[t].key}
    BY <1>2, CommitEffect DEF Pcs
<1>4. th'[t].pc = "note"
    BY <1>3, TypeFacts DEF Only, ThreadState
<1>5. /\ live \in Seq(Int) /\ Len(live) \in Nat /\ th[t].key \in Int /\ th[t].op \in Nat
    BY TypeFacts DEF TypeOK, ThreadState
<1>6. /\ Len(live') = Len(live) + 1
      /\ \A i \in 1 .. Len(live') : live'[i] = IF i = Len(live) + 1 THEN th[t].key ELSE live[i]
    BY <1>0, <1>5
<1>7. \A i \in 1 .. Len(live') : i \in 1 .. Len(live) \/ i = Len(live) + 1
    BY <1>5, <1>6
<1>8. Len(live') = Net(next)
    BY <1>1, <1>5, <1>6, NetStep
<1>9. LiveAt(t)'
    BY <1>0, <1>4, <1>8, CfgStays DEF LiveAt
<1>10. LiveKeys'
    <2>1. \A i \in 1 .. Len(live) : live[i] \in tree /\ live[i] # th[t].key /\ i # Len(live) + 1
        BY <1>1, <1>5 DEF LiveKeys
    <2>2. \A i, j \in 1 .. Len(live) : live[i] = live[j] => i = j
        BY <1>1 DEF LiveKeys
    <2>3. \A i \in 1 .. Len(live') : live'[i] \in tree'
        BY <1>3, <1>6, <1>7, <2>1
    <2>4. ASSUME NEW i \in 1 .. Len(live'), NEW j \in 1 .. Len(live'), live'[i] = live'[j] PROVE i = j
        <3>1. CASE i = Len(live) + 1 /\ j \in 1 .. Len(live)
            BY <1>6, <2>1, <2>4, <3>1
        <3>2. CASE j = Len(live) + 1 /\ i \in 1 .. Len(live)
            BY <1>6, <2>1, <2>4, <3>2
        <3>3. CASE i \in 1 .. Len(live) /\ j \in 1 .. Len(live)
            BY <1>6, <2>1, <2>2, <2>4, <3>3
        <3> QED BY <1>7, <3>1, <3>2, <3>3
    <2>5. \A k \in tree' : k > PaperKey(reserved)
        BY <1>1, <1>3 DEF LiveKeys
    <2> QED BY <1>0, <2>3, <2>4, <2>5, CfgStays DEF LiveKeys
<1> QED BY <1>0, <1>4, <1>9, <1>10, LiveOnly

LEMMA LiveDelete ==
    ASSUME TypeOK, LiveInv, cfg.random, NEW t \in Threads, t \in cfg.writers, ApplyDelete(t)
    PROVE  LiveInv' /\ th'[t].pc # "panic"
<1>0. /\ cfg' = cfg /\ next' = next /\ reserved' = reserved /\ live' = live
      /\ th[t].pc = "apply" /\ th[t].kind = "delete"
    BY DEF ApplyDelete, keyVars
<1>1. /\ Len(live) = Net(th[t].op) - 1 /\ WriteKind(th[t].op) = "delete" /\ next = th[t].op + 1 /\ LiveKeys
      /\ th[t].key \in tree /\ \A i \in 1 .. Len(live) : live[i] # th[t].key
    BY <1>0 DEF LiveInv, LiveCount, LiveAt
<1>2. Commit(t, tree \ {th[t].key}, "note")
    BY <1>1 DEF ApplyDelete
<1>3. PICK skip \in Nat : Only(t, [th[t] EXCEPT !.pc = "note", !.version = clock + skip]) /\ tree' = tree \ {th[t].key}
    BY <1>2, CommitEffect DEF Pcs
<1>4. th'[t].pc = "note"
    BY <1>3, TypeFacts DEF Only, ThreadState
<1>5. th[t].op \in Nat
    BY TypeFacts DEF ThreadState
<1>6. Len(live) = Net(next)
    BY <1>1, <1>5, NetStep
<1>7. LiveAt(t)'
    BY <1>0, <1>4, <1>6, CfgStays DEF LiveAt
<1>8. LiveKeys'
    BY <1>0, <1>1, <1>3, CfgStays DEF LiveKeys
<1> QED BY <1>0, <1>4, <1>7, <1>8, LiveOnly

LEMMA LiveUpdate ==
    ASSUME TypeOK, LiveInv, cfg.random, NEW t \in Threads, t \in cfg.writers, ApplyUpdate(t)
    PROVE  LiveInv'
<1>0. /\ cfg' = cfg /\ next' = next /\ reserved' = reserved /\ live' = live
      /\ th[t].pc = "apply" /\ th[t].kind = "update"
    BY DEF ApplyUpdate, keyVars
<1>1. /\ Len(live) = Net(th[t].op) /\ WriteKind(th[t].op) = "update" /\ next = th[t].op + 1 /\ LiveKeys
    BY <1>0 DEF LiveInv, LiveCount, LiveAt
<1>2. th[t].op \in Nat
    BY TypeFacts DEF ThreadState
<1>3. CASE th[t].key \in tree
    <2>1. Commit(t, tree, "note")
        BY <1>3 DEF ApplyUpdate
    <2>2. PICK skip \in Nat : Only(t, [th[t] EXCEPT !.pc = "note", !.version = clock + skip]) /\ tree' = tree
        BY <2>1, CommitEffect DEF Pcs
    <2>3. th'[t].pc = "note"
        BY <2>2, TypeFacts DEF Only, ThreadState
    <2>4. Len(live) = Net(next)
        BY <1>1, <1>2, NetStep
    <2>5. LiveAt(t)'
        BY <1>0, <2>3, <2>4, CfgStays DEF LiveAt
    <2>6. LiveKeys'
        BY <1>0, <1>1, <2>2, CfgStays DEF LiveKeys
    <2> QED BY <1>0, <2>5, <2>6, LiveOnly
<1>4. CASE th[t].key \notin tree
    <2>1. Goto(t, "apply", "choose") /\ tree' = tree
        BY <1>0, <1>4 DEF ApplyUpdate, NoEffect, Goto, indexVars
    <2>2. Only(t, [th[t] EXCEPT !.pc = "choose"])
        BY <2>1, Goes DEF Pcs
    <2>3. th'[t].pc = "choose" /\ th'[t].kind = th[t].kind /\ th'[t].op = th[t].op
        BY <2>2, TypeFacts DEF Only, ThreadState
    <2>4. LiveAt(t)'
        BY <1>0, <1>1, <2>3, CfgStays DEF LiveAt
    <2>5. LiveKeys'
        BY <1>0, <1>1, <2>1, CfgStays DEF LiveKeys
    <2> QED BY <1>0, <2>4, <2>5, LiveOnly
<1> QED BY <1>3, <1>4

LEMMA LiveThread ==
    ASSUME TypeOK, PhaseInv, LiveInv, NEW t \in Threads,
           Worker(t) \/ Writer(t) \/ Reader(t) \/ Scanner(t)
    PROVE  LiveInv'
<1>0. cfg' = cfg /\ th[t] \in ThreadState /\ cfg.writers \subseteq Threads
    BY ThreadTyped, TypeFacts, CfgFacts DEF TypeOK
<1> SUFFICES ASSUME cfg.random PROVE LiveInv'
    BY <1>0 DEF LiveInv
<1>1. LiveKeys /\ LiveCount
    BY DEF LiveInv
<1>2. ASSUME NEW r, Only(t, r), t \notin cfg.writers \/ th'[t].pc \in Idle, UNCHANGED <<live, tree, reserved, next>>
      PROVE  LiveInv'
    <2>1. \A u \in cfg.writers : th'[u] = th[u] \/ th'[u].pc \in Idle
        BY <1>0, <1>2 DEF Only
    <2> QED BY <1>0, <1>2, <2>1, LiveQuiet
<1>3. ASSUME NEW from \in {"start", "barrier", "note"}, NEW to \in {"barrier", "take"}, th[t].pc = from, th'[t].pc = to, t \in cfg.writers,
             UNCHANGED <<live, tree, reserved, next>>
      PROVE  LiveInv'
    <2>1. LiveAt(t)'
        BY <1>0, <1>1, <1>3, CfgStays DEF LiveCount, LiveAt
    <2>2. LiveKeys'
        BY <1>0, <1>1, <1>3, CfgStays DEF LiveKeys
    <2> QED BY <1>0, <1>3, <2>1, <2>2, LiveOnly
<1>4. CASE Arrive(t) \/ Go(t)
    <2>1. UNCHANGED <<live, tree, reserved, next>>
        BY <1>4 DEF Arrive, Go, keyVars, indexVars
    <2>2. PICK from \in {"start", "barrier"}, to \in {"barrier", "take", "read"} :
             Goto(t, from, to) /\ (t \in cfg.writers => to # "read")
        BY <1>4 DEF Arrive, Go
    <2>3. Only(t, [th[t] EXCEPT !.pc = to]) /\ th[t].pc = from
        <3>1. to \in Pcs
            BY DEF Pcs
        <3> QED BY <2>2, <3>1, Goes
    <2>4. th'[t].pc = to
        BY <1>0, <2>3 DEF Only, ThreadState
    <2>5. CASE t \notin cfg.writers
        BY <1>2, <2>1, <2>3, <2>5
    <2>6. CASE t \in cfg.writers
        <3>1. to \in {"barrier", "take"}
            BY <2>2, <2>6
        <3> QED BY <1>3, <2>1, <2>3, <2>4, <2>6, <3>1
    <2> QED BY <2>5, <2>6
<1>5. CASE Reader(t)
    <2>1. t \notin cfg.writers /\ UNCHANGED <<live, tree, reserved, next>>
        BY <1>5 DEF Reader, FreshScan, FreshRangeScan, PhaseInv, Phase, keyVars, indexVars
    <2>2. CASE th' = th
        BY <1>0, <2>1, <2>2, LiveQuiet
    <2>3. CASE \E r : Only(t, r)
        BY <1>2, <2>1, <2>3
    <2> QED BY <1>5, <2>2, <2>3, FreshScanEffect, RangeScanEffect DEF Reader
<1>6. CASE HistoricalScan(t)
    <2>1. PICK r : Only(t, r) /\ th'[t].pc \in Idle
        <3>1. CASE Only(t, [th[t] EXCEPT !.pc = "done"])
            BY <1>0, <3>1 DEF Only, ThreadState, Idle
        <3>2. CASE Only(t, [th[t] EXCEPT !.pc = "panic"])
            BY <1>0, <3>2 DEF Only, ThreadState, Idle
        <3>3. CASE Only(t, [th[t] EXCEPT !.pc = "historical", !.scan = nextScan,
                             !.lo = ScanWindow(plan[nextScan].completed).lo,
                             !.hi = ScanWindow(plan[nextScan].completed).hi])
            BY <1>0, <3>3 DEF Only, ThreadState, Idle
        <3> QED BY <1>6, <3>1, <3>2, <3>3, HistoricalEffect
    <2>2. UNCHANGED <<live, tree, reserved, next>>
        BY <1>6 DEF HistoricalScan, keyVars, indexVars
    <2> QED BY <1>2, <2>1, <2>2
<1>7. CASE ScanAt(t) \/ Finish(t)
    <2>1. PICK from \in {"historical", "finish"}, to \in {"next", "done"} : Goto(t, from, to)
        BY <1>7 DEF ScanAt, Finish
    <2>2. Only(t, [th[t] EXCEPT !.pc = to])
        <3>1. to \in Pcs
            BY DEF Pcs
        <3> QED BY <2>1, <3>1, Goes
    <2>3. th'[t].pc \in Idle
        BY <1>0, <2>2 DEF Only, ThreadState, Idle
    <2>4. UNCHANGED <<live, tree, reserved, next>>
        BY <1>7 DEF ScanAt, Finish, keyVars, indexVars
    <2> QED BY <1>2, <2>2, <2>3, <2>4
<1>8. CASE Writer(t)
    <2>1. th[t].pc \in Writing
        BY <1>8 DEF Writer, TakeOperation, ReserveInsert, ReserveDelete, AwaitPublished, SampleLow, SampleLive,
           FreshRandomKey, LiveRandomKey, ApplyInsert, ApplyDelete, ApplyUpdate, MarkInserted, LoadPublished,
           AdvancePublished, Note, Finish, Goto, Writing
    <2>2. t \in cfg.writers
        BY <2>1 DEF PhaseInv, Phase
    <2>3. th[t].pc \notin {"await", "high", "publish", "load", "advance"}
        BY <1>1, <2>2 DEF LiveCount, LiveAt
    <2>4. CASE \/ ReserveInsert(t) \/ ReserveDelete(t) \/ AwaitPublished(t) \/ SampleLow(t) \/ SampleLive(t)
               \/ MarkInserted(t) \/ LoadPublished(t) \/ AdvancePublished(t)
        BY <2>3, <2>4 DEF ReserveInsert, ReserveDelete, AwaitPublished, SampleLow, SampleLive, MarkInserted,
           LoadPublished, AdvancePublished, Goto
    <2>5. CASE Note(t)
        <3>1. PICK c : Only(t, [Start EXCEPT !.pc = "take", !.cursor = c])
            BY <2>5, NoteEffect
        <3>2. th'[t].pc = "take"
            BY <3>1 DEF Only, Start
        <3>3. UNCHANGED <<live, tree, reserved, next>> /\ th[t].pc = "note"
            BY <2>5 DEF Note, keyVars, indexVars
        <3> QED BY <1>3, <2>2, <3>2, <3>3
    <2>6. CASE TakeOperation(t) \/ FreshRandomKey(t) \/ LiveRandomKey(t) \/ ApplyInsert(t) \/ ApplyDelete(t) \/ ApplyUpdate(t)
        BY <2>2, <2>6, LiveTake, LiveFresh, LivePick, LiveInsert, LiveDelete, LiveUpdate
    <2> QED BY <1>7, <1>8, <2>4, <2>5, <2>6 DEF Writer
<1> QED BY <1>4, <1>5, <1>6, <1>7, <1>8 DEF Worker, Scanner

LEMMA MainIdle ==
    ASSUME TypeOK, Main
    PROVE  \A u \in Threads : th'[u] = th[u] \/ th'[u].pc \in Idle
<1> SUFFICES ASSUME NEW u \in Threads PROVE th'[u] = th[u] \/ th'[u].pc \in Idle
    OBVIOUS
<1>1. CASE JoinReaders
    <2>1. CASE cfg.scans > 0 /\ u \in cfg.scanners
        BY <1>1, <2>1 DEF JoinReaders, Start, Idle
    <2>2. CASE ~(cfg.scans > 0 /\ u \in cfg.scanners)
        BY <1>1, <2>2 DEF JoinReaders
    <2> QED BY <2>1, <2>2
<1>2. CASE MainArrives \/ JoinWriters \/ JoinScanners
    BY <1>2 DEF MainArrives, JoinWriters, JoinScanners
<1> QED BY <1>1, <1>2 DEF Main

LEMMA LiveStep ==
    ASSUME TypeOK, PhaseInv, LiveInv, [Next]_vars
    PROVE  LiveInv'
<1>0. cfg.writers \subseteq Threads
    BY CfgFacts DEF TypeOK
<1>1. CASE UNCHANGED vars
    <2>1. cfg' = cfg /\ UNCHANGED <<live, tree, reserved, next>> /\ th' = th
        BY <1>1 DEF vars
    <2> QED BY <2>1, LiveQuiet
<1>2. CASE Main
    <2>1. cfg' = cfg /\ UNCHANGED <<live, tree, reserved, next>>
        BY <1>2, MainTyped DEF keyVars, indexVars
    <2> QED BY <1>0, <1>2, <2>1, MainIdle, LiveQuiet
<1> QED BY <1>1, <1>2, LiveThread DEF Next

---------------------------------------------------------------------------
(* The plan of the historical scans.                                        *)

LEMMA Least ==
    ASSUME NEW T \in SUBSET Nat, T # {}
    PROVE  \E x \in T : \A y \in T : x <= y
<1>1. \E x \in T : \A y \in T : ~(<<y, x>> \in OpToRel(<, Nat))
    BY NatLessThanWellFounded, WFMin
<1>2. PICK x \in T : \A y \in T : ~(y < x)
    BY <1>1 DEF OpToRel
<1> QED BY <1>2

LEMMA PlanTyped ==
    ASSUME TypeOK, NEW n \in 1 .. cfg.scans
    PROVE  /\ plan[n].completed \in 1 .. cfg.operations /\ plan[n].completed \in Nat /\ plan[n].version \in Nat
<1>1. plan[n] \in [completed : 1 .. cfg.operations, version : Nat]
    BY DEF TypeOK
<1> QED BY <1>1

LEMMA InitPlan == Init => PlanInv
<1> SUFFICES ASSUME Init, cfg.scans > 0
             PROVE  /\ Sorted
                    /\ main \in {"readers", "scanning", "end"} => AllNoted
                    /\ \A w \in cfg.writers : PlanAt(w)
    BY DEF PlanInv
<1>1. TypeOK
    BY InitType
<1>2. cfg.scans \in Nat /\ cfg.writers \subseteq Threads
    BY <1>1, CfgFacts DEF TypeOK
<1>3. \A n \in 1 .. cfg.scans - 1 : plan[n].completed <= plan[n + 1].completed
    BY DEF Init, PlansFor
<1>4. Sorted
    <2> SUFFICES ASSUME NEW n \in 1 .. cfg.scans, NEW l \in 1 .. cfg.scans, n <= l, ~(plan[n].completed <= plan[l].completed)
                 PROVE  FALSE
        BY DEF Sorted
    <2> DEFINE T == {m \in 1 .. cfg.scans : n <= m /\ ~(plan[n].completed <= plan[m].completed)}
    <2>1. T \in SUBSET Nat /\ l \in T
        BY <1>2
    <2>2. PICK m \in T : \A y \in T : m <= y
        <3> HIDE DEF T
        <3> QED BY <2>1, Least
    <2>3. m \in 1 .. cfg.scans /\ n <= m /\ ~(plan[n].completed <= plan[m].completed)
        BY <2>2
    <2>4. plan[n].completed \in Nat /\ plan[m].completed \in Nat
        BY <1>1, <2>3, PlanTyped
    <2>5. n # m
        BY <2>3, <2>4
    <2>6. m - 1 \in 1 .. cfg.scans /\ m - 1 \in 1 .. cfg.scans - 1 /\ n <= m - 1 /\ (m - 1) + 1 = m /\ ~(m <= m - 1)
        BY <1>2, <2>3, <2>5
    <2>7. m - 1 \notin T
        BY <2>2, <2>6
    <2>8. plan[n].completed <= plan[m - 1].completed
        BY <2>6, <2>7
    <2>9. plan[m - 1].completed <= plan[m].completed /\ plan[m - 1].completed \in Nat
        BY <1>1, <1>3, <2>6, PlanTyped
    <2> QED BY <2>3, <2>4, <2>8, <2>9
<1>5. ASSUME NEW w \in cfg.writers PROVE PlanAt(w)
    <2>1. th[w].pc = "start" /\ th[w].cursor = 1
        BY <1>2 DEF Init, Start
    <2>2. \A n \in 1 .. cfg.scans : plan[n].completed > next /\ ~(n < 1)
        BY <1>1, <1>2, PlanTyped DEF Init
    <2>3. 1 \in 1 .. cfg.scans + 1
        BY <1>2
    <2> QED BY <2>1, <2>2, <2>3 DEF PlanAt, Early, Before, After
<1> QED BY <1>4, <1>5 DEF Init

(* The scans that record moves the cursor over are those of this operation. *)
LEMMA HitsAre ==
    ASSUME TypeOK, Sorted, NEW t \in Threads, th[t].cursor \in 1 .. cfg.scans + 1,
           \A n \in 1 .. cfg.scans : n >= th[t].cursor => plan[n].completed >= th[t].op + 1
    PROVE  \E e \in 0 .. cfg.scans :
              /\ \A n \in 1 .. cfg.scans : n \in Hits(t) <=> th[t].cursor <= n /\ n <= e
              /\ th[t].cursor + Cardinality(Hits(t)) = e + 1
              /\ \A n \in 1 .. cfg.scans : n >= e + 1 => plan[n].completed > th[t].op + 1
<1>0. cfg.scans \in Nat /\ Len(plan) = cfg.scans /\ th[t].op \in Nat
    BY CfgFacts, HitsFinite, TypeFacts DEF TypeOK, ThreadState
<1>1. PICK c \in 1 .. cfg.scans + 1, o \in Nat : c = th[t].cursor /\ o = th[t].op + 1
    <2>1. th[t].op + 1 \in Nat
        BY <1>0
    <2> QED BY <2>1
<1>2. Hits(t) = {n \in c .. cfg.scans : \A m \in c .. n : plan[m].completed = o}
    BY <1>0, <1>1 DEF Hits
<1> DEFINE N == {n \in c .. cfg.scans : plan[n].completed # o}
<1>3. PICK e \in 0 .. cfg.scans :
         /\ c <= e + 1
         /\ \A n \in c .. e : plan[n].completed = o
         /\ \A n \in 1 .. cfg.scans : n >= e + 1 => plan[n].completed > o
         /\ e + 1 \in c .. cfg.scans => plan[e + 1].completed # o
    <2>1. CASE N = {}
        <3>1. \A n \in c .. cfg.scans : plan[n].completed = o
            BY <2>1
        <3>2. cfg.scans \in 0 .. cfg.scans /\ c <= cfg.scans + 1 /\ \A n \in 1 .. cfg.scans : ~(n >= cfg.scans + 1)
            BY <1>0, <1>1
        <3>3. cfg.scans + 1 \notin c .. cfg.scans
            BY <1>0, <1>1
        <3> QED BY <3>1, <3>2, <3>3
    <2>2. CASE N # {}
        <3>1. N \in SUBSET Nat
            BY <1>1
        <3>2. PICK z \in N : \A y \in N : z <= y
            <4> HIDE DEF N
            <4> QED BY <2>2, <3>1, Least
        <3>3. z \in c .. cfg.scans /\ plan[z].completed # o /\ z \in 1 .. cfg.scans
            BY <1>1, <3>2
        <3>4. z - 1 \in 0 .. cfg.scans /\ c <= (z - 1) + 1 /\ (z - 1) + 1 = z
            BY <1>0, <1>1, <3>3
        <3>5. ASSUME NEW n \in c .. z - 1 PROVE plan[n].completed = o
            <4>1. n \in c .. cfg.scans /\ ~(z <= n)
                BY <1>0, <1>1, <3>3
            <4> QED BY <3>2, <4>1
        <3>6. ASSUME NEW n \in 1 .. cfg.scans, n >= z PROVE plan[n].completed > o
            <4>1. plan[z].completed >= o
                BY <1>1, <3>3
            <4>2. plan[z].completed <= plan[n].completed
                BY <3>3, <3>6 DEF Sorted
            <4>3. plan[z].completed \in Nat /\ plan[n].completed \in Nat
                BY <3>3, PlanTyped
            <4> QED BY <3>3, <4>1, <4>2, <4>3
        <3> QED BY <3>3, <3>4, <3>5, <3>6
    <2> QED BY <2>1, <2>2
<1>4. ASSUME NEW n \in Int PROVE n \in Hits(t) <=> n \in c .. e
    <2>1. ASSUME n \in c .. e PROVE n \in Hits(t)
        <3>1. n \in c .. cfg.scans /\ \A m \in c .. n : m \in c .. e
            BY <1>0, <1>1, <1>3, <2>1
        <3> QED BY <1>2, <1>3, <3>1
    <2>2. ASSUME n \in Hits(t), n \notin c .. e PROVE FALSE
        <3>1. n \in c .. cfg.scans /\ \A m \in c .. n : plan[m].completed = o
            BY <1>2, <2>2
        <3>2. e + 1 \in c .. n /\ e + 1 \in c .. cfg.scans
            BY <1>0, <1>1, <1>3, <2>2, <3>1
        <3> QED BY <1>3, <3>1, <3>2
    <2> QED BY <2>1, <2>2
<1>5. Hits(t) = c .. e
    <2>1. \A n \in Hits(t) : n \in Int
        BY <1>2
    <2>2. \A n \in c .. e : n \in Int
        OBVIOUS
    <2>3. \A n : n \in Hits(t) <=> n \in c .. e
        BY <1>4, <2>1, <2>2
    <2> QED BY <2>3
<1>6. Cardinality(Hits(t)) = e - c + 1
    <2>1. c \in Int /\ e \in Int /\ (c > e => e - c + 1 = 0)
        BY <1>1, <1>3
    <2>2. Cardinality(c .. e) = IF c > e THEN 0 ELSE e - c + 1
        BY <2>1, FS_Interval
    <2> QED BY <1>5, <2>1, <2>2
<1>7. \A n \in 1 .. cfg.scans : n \in Hits(t) <=> th[t].cursor <= n /\ n <= e
    BY <1>1, <1>3, <1>4
<1>8. th[t].cursor + Cardinality(Hits(t)) = e + 1
    BY <1>1, <1>3, <1>6
<1> QED BY <1>1, <1>3, <1>7, <1>8

Late == {"readers", "scanning", "end"}

LEMMA PlanFrame ==
    ASSUME PlanInv, cfg' = cfg, plan' = plan, next' = next,
           cfg.scans > 0 => (main' \in Late => main \in Late \/ AllNoted),
           \A u \in cfg.writers : th'[u] = th[u] \/ PlanAt(u)'
    PROVE  PlanInv'
<1> SUFFICES ASSUME cfg.scans > 0
             PROVE  /\ Sorted'
                    /\ main' \in {"readers", "scanning", "end"} => AllNoted'
                    /\ \A w \in cfg.writers : PlanAt(w)'
    BY DEF PlanInv
<1>1. Sorted' /\ (AllNoted' <=> AllNoted)
    BY DEF PlanInv, Sorted, AllNoted
<1>2. main' \in Late => AllNoted
    BY DEF PlanInv, Late
<1>3. ASSUME NEW w \in cfg.writers, th'[w] = th[w] PROVE PlanAt(w)'
    BY <1>1, <1>3 DEF PlanInv, PlanAt
<1> QED BY <1>1, <1>2, <1>3 DEF Late

LEMMA PlanMove ==
    ASSUME PlanInv, cfg.scans > 0, NEW t \in cfg.writers, cfg' = cfg, plan' = plan, next' = next,
           th'[t].op = th[t].op, th'[t].cursor = th[t].cursor,
           \/ th[t].pc \in Early /\ th'[t].pc \in Early
           \/ th[t].pc \in Before /\ th'[t].pc \in Before
           \/ th[t].pc \in After /\ th'[t].pc \in After /\ th'[t].version = th[t].version
           \/ th[t].pc \in Before /\ th'[t].pc \in After /\ th'[t].version # 0
    PROVE  PlanAt(t)'
<1>1. PlanAt(t)
    BY DEF PlanInv
<1>2. th'[t].pc \notin {"finish", "done"}
    BY DEF Early, Before, After
<1>3. CASE th[t].pc \in Early /\ th'[t].pc \in Early
    <2>1. th'[t].pc \notin Before \cup After
        BY <1>3 DEF Early, Before, After
    <2> QED BY <1>1, <1>2, <1>3, <2>1 DEF PlanAt
<1>4. CASE th[t].pc \in Before /\ th'[t].pc \in Before
    <2>1. th'[t].pc \notin Early \cup After
        BY <1>4 DEF Early, Before, After
    <2> QED BY <1>1, <1>2, <1>4, <2>1 DEF PlanAt
<1>5. CASE th[t].pc \in After /\ th'[t].pc \in After /\ th'[t].version = th[t].version
    <2>1. th'[t].pc \notin Early
        BY <1>5 DEF Early, After
    <2> QED BY <1>1, <1>2, <1>5, <2>1 DEF PlanAt
<1>6. CASE th[t].pc \in Before /\ th'[t].pc \in After /\ th'[t].version # 0
    <2>1. th'[t].pc \notin Early
        BY <1>6 DEF Early, After
    <2> QED BY <1>1, <1>2, <1>6, <2>1 DEF PlanAt
<1> QED BY <1>3, <1>4, <1>5, <1>6

LEMMA PlanRest ==
    ASSUME NEW t, th'[t].pc \in Idle, th'[t].pc \in {"finish", "done"} => AllNoted'
    PROVE  PlanAt(t)'
<1>1. th'[t].pc \notin Early \cup Before \cup After
    BY DEF Idle, Early, Before, After
<1> QED BY <1>1 DEF PlanAt

LEMMA PlanTake ==
    ASSUME TypeOK, PlanInv, cfg.scans > 0, NEW t \in Threads, t \in cfg.writers, TakeOperation(t)
    PROVE  PlanInv'
<1> DEFINE k == IF next >= cfg.operations THEN "none" ELSE WriteKind(next)
           p == IF next >= cfg.operations THEN "finish" ELSE "choose"
<1>1. Only(t, [th[t] EXCEPT !.op = next, !.kind = k, !.pc = p])
    BY TakeEffect
<1>2. th'[t].op = next /\ th'[t].pc = p /\ th'[t].cursor = th[t].cursor
    <2> HIDE DEF k, p
    <2> QED BY <1>1, TypeFacts DEF Only, ThreadState
<1>3. cfg' = cfg /\ next' = next + 1 /\ plan' = plan /\ main' = main /\ th[t].pc = "take"
    BY DEF TakeOperation, planVars
<1>4. /\ th[t].cursor \in 1 .. cfg.scans + 1 /\ next \in Nat /\ cfg.operations \in Nat
      /\ \A n \in 1 .. cfg.scans : n < th[t].cursor => plan[n].version # 0
      /\ \A n \in 1 .. cfg.scans : n >= th[t].cursor => plan[n].completed > next
    BY <1>3, TypeFacts, CfgFacts DEF PlanInv, PlanAt, Early, TypeOK
<1>5. Sorted' /\ (AllNoted' <=> AllNoted) /\ (main' \in {"readers", "scanning", "end"} => AllNoted)
    BY <1>3 DEF PlanInv, Sorted, AllNoted
<1>6. PlanAt(t)'
    <2>1. CASE next >= cfg.operations
        <3>1. ASSUME NEW n \in 1 .. cfg.scans PROVE plan[n].version # 0
            <4>1. plan[n].completed \in Nat /\ plan[n].completed <= cfg.operations
                BY <1>4, PlanTyped
            <4>2. ~(plan[n].completed > next)
                BY <1>4, <2>1, <4>1
            <4>3. ~(n >= th[t].cursor)
                BY <1>4, <4>2
            <4>4. n < th[t].cursor
                BY <1>4, <4>3
            <4> QED BY <1>4, <4>4
        <3>2. AllNoted'
            BY <1>5, <3>1 DEF AllNoted
        <3>3. th'[t].pc = "finish"
            BY <1>2, <2>1
        <3> QED BY <3>2, <3>3, PlanRest DEF Idle
    <2>2. CASE ~(next >= cfg.operations)
        <3>1. th'[t].pc = "choose"
            BY <1>2, <2>2
        <3>2. ASSUME NEW n \in 1 .. cfg.scans, n >= th[t].cursor PROVE plan[n].completed >= next + 1
            <4>1. plan[n].completed \in Nat /\ plan[n].completed > next
                BY <1>4, <3>2, PlanTyped
            <4> QED BY <1>4, <4>1
        <3> QED BY <1>2, <1>3, <1>4, <3>1, <3>2 DEF PlanAt, Early, Before, After
    <2> QED BY <2>1, <2>2
<1>7. \A u \in cfg.writers : u = t
    BY SoleWriter DEF TypeOK
<1> QED BY <1>3, <1>5, <1>6, <1>7 DEF PlanInv

LEMMA PlanNote ==
    ASSUME TypeOK, PhaseInv, PlanInv, cfg.scans > 0, NEW t \in Threads, t \in cfg.writers, Note(t)
    PROVE  PlanInv'
<1>1. /\ Only(t, [Start EXCEPT !.pc = "take", !.cursor = th[t].cursor + Cardinality(Hits(t))])
      /\ plan' = [n \in DOMAIN plan |-> IF n \in Hits(t) THEN [plan[n] EXCEPT !.version = th[t].version]
                                        ELSE plan[n]]
    BY NoteEffect
<1>2. th'[t].pc = "take" /\ th'[t].cursor = th[t].cursor + Cardinality(Hits(t))
    BY <1>1 DEF Only, Start
<1>3. cfg' = cfg /\ next' = next /\ main' = main /\ th[t].pc = "note"
    BY DEF Note
<1>4. /\ th[t].cursor \in 1 .. cfg.scans + 1 /\ next = th[t].op + 1 /\ th[t].version # 0 /\ Sorted
      /\ \A n \in 1 .. cfg.scans : n < th[t].cursor => plan[n].version # 0
      /\ \A n \in 1 .. cfg.scans : n >= th[t].cursor => plan[n].completed >= next
    BY <1>3 DEF PlanInv, PlanAt, After
<1>5. PICK e \in 0 .. cfg.scans :
         /\ \A n \in 1 .. cfg.scans : n \in Hits(t) <=> th[t].cursor <= n /\ n <= e
         /\ th[t].cursor + Cardinality(Hits(t)) = e + 1
         /\ \A n \in 1 .. cfg.scans : n >= e + 1 => plan[n].completed > th[t].op + 1
    BY <1>4, HitsAre
<1>6. ASSUME NEW n \in 1 .. cfg.scans
      PROVE  /\ plan'[n].completed = plan[n].completed
             /\ plan'[n].version = IF n \in Hits(t) THEN th[t].version ELSE plan[n].version
    <2>1. plan[n] \in [completed : 1 .. cfg.operations, version : Nat] /\ DOMAIN plan = 1 .. cfg.scans
        BY DEF TypeOK
    <2> QED BY <1>1, <2>1
<1>7. ASSUME NEW n \in 1 .. cfg.scans, n < e + 1 PROVE plan'[n].version # 0
    <2>1. CASE n < th[t].cursor
        BY <1>4, <1>6, <2>1
    <2>2. CASE th[t].cursor <= n
        <3>1. n \in Hits(t)
            BY <1>5, <1>7, <2>2
        <3> QED BY <1>4, <1>6, <3>1
    <2> QED BY <1>4, <2>1, <2>2
<1>8. Sorted'
    BY <1>3, <1>4, <1>6 DEF Sorted
<1>9. e + 1 \in 1 .. cfg.scans + 1 /\ cfg.scans \in Nat
    BY CfgFacts, <1>5 DEF TypeOK
<1>10. PlanAt(t)'
    <2>1. \A n \in 1 .. cfg.scans : n >= e + 1 => plan'[n].completed > next
        BY <1>4, <1>5, <1>6
    <2> QED BY <1>2, <1>3, <1>5, <1>7, <1>9, <2>1 DEF PlanAt, Early, Before, After
<1>11. main = "join"
    BY <1>3 DEF PhaseInv, Phase, Writing
<1>12. \A u \in cfg.writers : u = t
    BY SoleWriter DEF TypeOK
<1> QED BY <1>3, <1>8, <1>10, <1>11, <1>12 DEF PlanInv

LEMMA PlanThread ==
    ASSUME TypeOK, PhaseInv, PlanInv, NEW t \in Threads,
           Worker(t) \/ Writer(t) \/ Reader(t) \/ Scanner(t)
    PROVE  PlanInv'
<1>0. cfg' = cfg /\ main' = main /\ th[t] \in ThreadState /\ cfg.writers \subseteq Threads
    BY ThreadTyped, TypeFacts, CfgFacts DEF TypeOK
<1> SUFFICES ASSUME cfg.scans > 0 PROVE PlanInv'
    BY <1>0 DEF PlanInv
<1>1. ASSUME NEW r, Only(t, r), plan' = plan, next' = next, t \notin cfg.writers \/ PlanAt(t)'
      PROVE  PlanInv'
    <2>1. \A u \in cfg.writers : th'[u] = th[u] \/ PlanAt(u)'
        BY <1>0, <1>1 DEF Only
    <2> QED BY <1>0, <1>1, <2>1, PlanFrame
<1>2. ASSUME NEW to \in Pcs, NEW from, Goto(t, from, to), plan' = plan, next' = next, t \in cfg.writers,
             \/ from \in Early /\ to \in Early
             \/ from \in Before /\ to \in Before
             \/ from \in After /\ to \in After
      PROVE  PlanInv'
    <2>1. Only(t, [th[t] EXCEPT !.pc = to]) /\ th[t].pc = from
        BY <1>2, Goes
    <2>2. th'[t].pc = to /\ th'[t].op = th[t].op /\ th'[t].cursor = th[t].cursor /\ th'[t].version = th[t].version
        BY <1>0, <2>1 DEF Only, ThreadState
    <2>3. PlanAt(t)'
        BY <1>0, <1>2, <2>1, <2>2, PlanMove
    <2> QED BY <1>1, <1>2, <2>1, <2>3
<1>3. ASSUME NEW to \in {"panic", "next"}, NEW from, Goto(t, from, to), plan' = plan, next' = next
      PROVE  PlanInv'
    <2>1. Only(t, [th[t] EXCEPT !.pc = to])
        <3>1. to \in Pcs
            BY DEF Pcs
        <3> QED BY <1>3, <3>1, Goes
    <2>2. th'[t].pc = to
        BY <1>0, <2>1 DEF Only, ThreadState
    <2>3. PlanAt(t)'
        BY <2>2, PlanRest DEF Idle
    <2> QED BY <1>1, <1>3, <2>1, <2>3
<1>4. ASSUME NEW keys, NEW to \in {"note", "publish"}, Commit(t, keys, to), plan' = plan, next' = next, t \in cfg.writers,
             th[t].pc = "apply"
      PROVE  PlanInv'
    <2>1. PICK skip \in Nat : Only(t, [th[t] EXCEPT !.pc = to, !.version = clock + skip])
        <3>1. to \in Pcs
            BY DEF Pcs
        <3> QED BY <1>4, <3>1, CommitEffect
    <2>2. PICK v \in Nat : v = clock + skip /\ v # 0
        BY TypeFacts
    <2>3. th'[t].pc = to /\ th'[t].op = th[t].op /\ th'[t].cursor = th[t].cursor /\ th'[t].version = v
        BY <1>0, <2>1, <2>2 DEF Only, ThreadState
    <2>4. th[t].pc \in Before /\ th'[t].pc \in After
        BY <1>4, <2>3 DEF Before, After
    <2>5. PlanAt(t)'
        BY <1>0, <1>4, <2>2, <2>3, <2>4, PlanMove
    <2> QED BY <1>1, <1>4, <2>1, <2>5
<1>5. CASE Arrive(t) \/ Go(t)
    <2>1. plan' = plan /\ next' = next
        BY <1>5 DEF Arrive, Go, planVars
    <2>2. PICK from \in {"start", "barrier"}, to \in {"barrier", "take", "read"} :
             Goto(t, from, to) /\ (t \in cfg.writers => to # "read")
        BY <1>5 DEF Arrive, Go
    <2>3. to \in Pcs
        BY DEF Pcs
    <2>4. CASE t \notin cfg.writers
        <3>1. Only(t, [th[t] EXCEPT !.pc = to])
            BY <2>2, <2>3, Goes
        <3> QED BY <1>1, <2>1, <2>4, <3>1
    <2>5. CASE t \in cfg.writers
        <3>1. from \in Early /\ to \in Early
            BY <2>2, <2>5 DEF Early
        <3>2. Only(t, [th[t] EXCEPT !.pc = to]) /\ th[t].pc = from
            BY <2>2, <2>3, Goes
        <3>3. th'[t].pc = to /\ th'[t].op = th[t].op /\ th'[t].cursor = th[t].cursor
            BY <1>0, <3>2 DEF Only, ThreadState
        <3>4. PlanAt(t)'
            BY <1>0, <2>1, <2>5, <3>1, <3>2, <3>3, PlanMove
        <3> QED BY <1>1, <2>1, <3>2, <3>4
    <2> QED BY <2>4, <2>5
<1>6. CASE Reader(t)
    <2>1. t \notin cfg.writers /\ plan' = plan /\ next' = next
        BY <1>6 DEF Reader, FreshScan, FreshRangeScan, PhaseInv, Phase, planVars
    <2>2. CASE th' = th
        BY <1>0, <2>1, <2>2, PlanFrame
    <2>3. CASE \E r : Only(t, r)
        BY <1>1, <2>1, <2>3
    <2> QED BY <1>6, <2>2, <2>3, FreshScanEffect, RangeScanEffect DEF Reader
<1>7. CASE HistoricalScan(t)
    <2>1. plan' = plan /\ next' = next /\ main = "scanning"
        BY <1>7 DEF HistoricalScan
    <2>2. PICK r : Only(t, r) /\ th'[t].pc \in Idle
        <3>1. CASE Only(t, [th[t] EXCEPT !.pc = "done"])
            BY <1>0, <3>1 DEF Only, ThreadState, Idle
        <3>2. CASE Only(t, [th[t] EXCEPT !.pc = "panic"])
            BY <1>0, <3>2 DEF Only, ThreadState, Idle
        <3>3. CASE Only(t, [th[t] EXCEPT !.pc = "historical", !.scan = nextScan,
                             !.lo = ScanWindow(plan[nextScan].completed).lo,
                             !.hi = ScanWindow(plan[nextScan].completed).hi])
            BY <1>0, <3>3 DEF Only, ThreadState, Idle
        <3> QED BY <1>7, <3>1, <3>2, <3>3, HistoricalEffect
    <2>3. AllNoted'
        BY <1>0, <2>1 DEF PlanInv, AllNoted
    <2>4. PlanAt(t)'
        BY <2>2, <2>3, PlanRest
    <2> QED BY <1>1, <2>1, <2>2, <2>4
<1>8. CASE ScanAt(t)
    BY <1>3, <1>8 DEF ScanAt, planVars
<1>9. CASE Writer(t)
    <2>1. th[t].pc \in Writing
        BY <1>9 DEF Writer, TakeOperation, ReserveInsert, ReserveDelete, AwaitPublished, SampleLow, SampleLive,
           FreshRandomKey, LiveRandomKey, ApplyInsert, ApplyDelete, ApplyUpdate, MarkInserted, LoadPublished,
           AdvancePublished, Note, Finish, Goto, Writing
    <2>2. t \in cfg.writers
        BY <2>1 DEF PhaseInv, Phase
    <2>3. CASE AwaitPublished(t) \/ MarkInserted(t) \/ AdvancePublished(t)
        <3>1. plan' = plan /\ next' = next
            BY <2>3 DEF AwaitPublished, MarkInserted, AdvancePublished, planVars
        <3>2. PICK from \in Before \cup After, to \in Before \cup After :
                 /\ Goto(t, from, to)
                 /\ \/ from \in Before /\ to \in Before
                    \/ from \in After /\ to \in After
            BY <2>3 DEF AwaitPublished, MarkInserted, AdvancePublished, Before, After
        <3>3. to \in Pcs
            BY DEF Before, After, Pcs
        <3> QED BY <1>2, <2>2, <3>1, <3>2, <3>3
    <2>4. CASE ReserveInsert(t) \/ ReserveDelete(t) \/ SampleLow(t) \/ SampleLive(t) \/ FreshRandomKey(t)
               \/ (LiveRandomKey(t) /\ live # <<>>)
        <3>1. plan' = plan /\ next' = next /\ th[t].pc \in Before
            BY <2>4 DEF ReserveInsert, ReserveDelete, SampleLow, SampleLive, FreshRandomKey, LiveRandomKey, planVars, Before
        <3>2. PICK r : Only(t, r) /\ th'[t].pc \in Before /\ th'[t].op = th[t].op /\ th'[t].cursor = th[t].cursor
            <4>1. CASE ReserveInsert(t)
                BY <1>0, <4>1, ReserveInsertEffect DEF Only, ThreadState, Before
            <4>2. CASE ReserveDelete(t)
                BY <1>0, <4>2, ReserveDeleteEffect DEF Only, ThreadState, Before
            <4>3. CASE SampleLow(t)
                BY <1>0, <4>3, SampleLowEffect DEF Only, ThreadState, Before
            <4>4. CASE SampleLive(t)
                <5>1. PICK key \in Int : Only(t, [th[t] EXCEPT !.pc = "apply", !.key = key])
                    BY <4>4, SampleLiveEffect
                <5> QED BY <1>0, <5>1 DEF Only, ThreadState, Before
            <4>5. CASE FreshRandomKey(t)
                BY <1>0, <4>5, FreshEffect DEF Only, ThreadState, Before
            <4>6. CASE LiveRandomKey(t) /\ live # <<>>
                <5>1. PICK rank \in 1 .. Len(live) : Only(t, [th[t] EXCEPT !.pc = "apply", !.key = live[rank]])
                    BY <4>6, LiveEffect
                <5> QED BY <1>0, <5>1 DEF Only, ThreadState, Before
            <4> QED BY <2>4, <4>1, <4>2, <4>3, <4>4, <4>5, <4>6
        <3>3. PlanAt(t)'
            BY <1>0, <2>2, <3>1, <3>2, PlanMove
        <3> QED BY <1>1, <3>1, <3>2, <3>3
    <2>5. CASE LiveRandomKey(t) /\ live = <<>>
        BY <1>3, <2>5 DEF LiveRandomKey, planVars
    <2>6. CASE ApplyInsert(t) \/ ApplyDelete(t) \/ ApplyUpdate(t)
        <3>1. plan' = plan /\ next' = next /\ th[t].pc = "apply"
            BY <2>6 DEF ApplyInsert, ApplyDelete, ApplyUpdate, planVars
        <3>2. CASE \E keys, to : to \in {"note", "publish"} /\ Commit(t, keys, to)
            BY <1>4, <2>2, <3>1, <3>2
        <3>3. CASE NoEffect(t, "panic")
            <4>1. Goto(t, "apply", "panic")
                BY <3>1, <3>3 DEF NoEffect, Goto
            <4> QED BY <1>3, <3>1, <4>1
        <3>4. CASE NoEffect(t, "choose")
            <4>1. Goto(t, "apply", "choose") /\ "choose" \in Pcs /\ "apply" \in Before /\ "choose" \in Before
                BY <3>1, <3>4 DEF NoEffect, Goto, Pcs, Before
            <4> QED BY <1>2, <2>2, <3>1, <4>1
        <3> QED BY <2>6, <3>2, <3>3, <3>4 DEF ApplyInsert, ApplyDelete, ApplyUpdate
    <2>7. CASE LoadPublished(t)
        <3> DEFINE p == IF published \in inserted THEN "advance" ELSE "note"
        <3>1. Only(t, [th[t] EXCEPT !.seen = published, !.pc = p])
            BY <2>7, LoadEffect
        <3>2. p \in After /\ "load" \in After
            BY DEF After
        <3> HIDE DEF p
        <3>3. th'[t].pc = p /\ th'[t].op = th[t].op /\ th'[t].cursor = th[t].cursor /\ th'[t].version = th[t].version
            BY <1>0, <3>1 DEF Only, ThreadState
        <3>4. plan' = plan /\ next' = next /\ th[t].pc = "load"
            BY <2>7 DEF LoadPublished, planVars
        <3>5. PlanAt(t)'
            BY <1>0, <2>2, <3>2, <3>3, <3>4, PlanMove
        <3> QED BY <1>1, <3>1, <3>4, <3>5
    <2>8. CASE Finish(t)
        <3>1. Only(t, [th[t] EXCEPT !.pc = "done"]) /\ th[t].pc = "finish" /\ plan' = plan /\ next' = next
            BY <2>8, Goes DEF Finish, Pcs, planVars
        <3>2. th'[t].pc = "done"
            BY <1>0, <3>1 DEF Only, ThreadState
        <3>3. AllNoted
            BY <2>2, <3>1 DEF PlanInv, PlanAt
        <3>4. PlanAt(t)'
            BY <1>0, <3>1, <3>2, <3>3, PlanRest DEF Idle, AllNoted
        <3> QED BY <1>1, <3>1, <3>4
    <2>9. CASE TakeOperation(t) \/ Note(t)
        BY <2>2, <2>9, PlanTake, PlanNote
    <2> QED BY <1>9, <2>3, <2>4, <2>5, <2>6, <2>7, <2>8, <2>9 DEF Writer
<1> QED BY <1>5, <1>6, <1>7, <1>8, <1>9 DEF Worker, Scanner

LEMMA PlanStep ==
    ASSUME TypeOK, PhaseInv, PlanInv, [Next]_vars
    PROVE  PlanInv'
<1>0. cfg.writers \subseteq Threads
    BY CfgFacts DEF TypeOK
<1>1. CASE UNCHANGED vars
    <2>1. cfg' = cfg /\ plan' = plan /\ next' = next /\ main' = main /\ th' = th
        BY <1>1 DEF vars
    <2> QED BY <2>1, PlanFrame
<1>2. CASE Main
    <2>1. cfg' = cfg /\ plan' = plan /\ next' = next
        BY <1>2, MainTyped DEF planVars
    <2>2. \A u \in cfg.writers : th'[u] = th[u] \/ PlanAt(u)'
        <3>1. ASSUME NEW u \in cfg.writers, th'[u] # th[u] PROVE th'[u].pc = "next"
            <4>1. JoinReaders
                BY <1>2, <3>1 DEF Main, MainArrives, JoinWriters, JoinScanners
            <4> QED BY <1>0, <3>1, <4>1 DEF JoinReaders, Start
        <3> QED BY <3>1, PlanRest DEF Idle
    <2>3. cfg.scans > 0 => (main' \in Late => main \in Late \/ AllNoted)
        <3>1. CASE MainArrives
            BY <3>1 DEF MainArrives, Late
        <3>2. CASE JoinWriters
            <4>1. PICK w : w \in cfg.writers
                BY DEF TypeOK, CfgOK, Accepted
            <4>2. th[w].pc = "done"
                BY <3>2, <4>1 DEF JoinWriters
            <4> QED BY <4>1, <4>2 DEF PlanInv, PlanAt
        <3>3. CASE JoinReaders \/ JoinScanners
            BY <3>3 DEF JoinReaders, JoinScanners, Late
        <3> QED BY <1>2, <3>1, <3>2, <3>3 DEF Main
    <2> QED BY <2>1, <2>2, <2>3, PlanFrame
<1> QED BY <1>1, <1>2, PlanThread DEF Next

---------------------------------------------------------------------------
(* No thread panics.                                                        *)

(* A random writer starts with more keys than a block deletes, so that it   *)
(* always knows one that is live.                                           *)
EnoughKeys == \A c \in Setups : c.random => c.records > (Block - c.updates) \div 2

LEMMA OthersStay ==
    ASSUME NoPanic, NEW t \in Threads, NEW r, Only(t, r), th'[t].pc # "panic"
    PROVE  NoPanic'
BY DEF NoPanic, Only

LEMMA PanicThread ==
    ASSUME EnoughKeys, TypeOK, PhaseInv, KeyInv, LiveInv, PlanInv, NoPanic, NEW t \in Threads,
           Worker(t) \/ Writer(t) \/ Reader(t) \/ Scanner(t)
    PROVE  NoPanic'
<1>0. cfg' = cfg /\ th[t] \in ThreadState
    BY ThreadTyped, TypeFacts
<1>1. ASSUME NEW from, NEW to \in Pcs \ {"panic"}, Goto(t, from, to)
      PROVE  NoPanic'
    <2>1. Only(t, [th[t] EXCEPT !.pc = to])
        BY <1>1, Goes
    <2>2. th'[t].pc = to
        BY <1>0, <2>1 DEF Only, ThreadState
    <2> QED BY <1>1, <2>1, <2>2, OthersStay
<1>2. CASE Arrive(t) \/ Finish(t) \/ ScanAt(t) \/ AwaitPublished(t) \/ MarkInserted(t) \/ AdvancePublished(t)
    BY <1>1, <1>2 DEF Arrive, Finish, ScanAt, AwaitPublished, MarkInserted, AdvancePublished, Pcs
<1>3. CASE Go(t)
    <2>1. (IF t \in cfg.writers THEN "take" ELSE "read") \in Pcs \ {"panic"}
        BY DEF Pcs
    <2> QED BY <1>1, <1>3, <2>1 DEF Go
<1>4. CASE TakeOperation(t)
    <2> DEFINE k == IF next >= cfg.operations THEN "none" ELSE WriteKind(next)
               p == IF next >= cfg.operations THEN "finish" ELSE "choose"
    <2>1. Only(t, [th[t] EXCEPT !.op = next, !.kind = k, !.pc = p]) /\ p # "panic"
        BY <1>4, TakeEffect
    <2> HIDE DEF k, p
    <2>2. th'[t].pc = p
        BY <1>0, <2>1 DEF Only, ThreadState
    <2> QED BY <2>1, <2>2, OthersStay
<1>5. CASE ReserveInsert(t)
    <2>1. Only(t, [th[t] EXCEPT !.pc = "apply", !.key = reserved])
        BY <1>5, ReserveInsertEffect
    <2>2. th'[t].pc = "apply"
        BY <1>0, <2>1 DEF Only, ThreadState
    <2> QED BY <2>1, <2>2, OthersStay
<1>6. CASE ReserveDelete(t)
    <2>1. Only(t, [th[t] EXCEPT !.pc = "await", !.key = expired])
        BY <1>6, ReserveDeleteEffect
    <2>2. th'[t].pc = "await"
        BY <1>0, <2>1 DEF Only, ThreadState
    <2> QED BY <2>1, <2>2, OthersStay
<1>7. CASE SampleLow(t)
    <2>1. Only(t, [th[t] EXCEPT !.pc = "high", !.lo = expired])
        BY <1>7, SampleLowEffect
    <2>2. th'[t].pc = "high"
        BY <1>0, <2>1 DEF Only, ThreadState
    <2> QED BY <2>1, <2>2, OthersStay
<1>8. CASE SampleLive(t)
    <2>1. PICK key \in Int : Only(t, [th[t] EXCEPT !.pc = "apply", !.key = key])
        BY <1>8, SampleLiveEffect
    <2>2. th'[t].pc = "apply"
        BY <1>0, <2>1 DEF Only, ThreadState
    <2> QED BY <2>1, <2>2, OthersStay
<1>9. CASE FreshRandomKey(t)
    <2>1. Only(t, [th[t] EXCEPT !.pc = "apply", !.key = PaperKey(reserved)])
        BY <1>9, FreshEffect
    <2>2. th'[t].pc = "apply"
        BY <1>0, <2>1 DEF Only, ThreadState
    <2> QED BY <2>1, <2>2, OthersStay
<1>10. CASE LiveRandomKey(t)
    <2>1. cfg.random /\ th[t].pc = "choose" /\ t \in cfg.writers
        BY <1>10 DEF LiveRandomKey, PhaseInv, Phase, Writing
    <2>2. Len(live) = Net(th[t].op) /\ th[t].op \in Nat
        BY <1>0, <2>1 DEF LiveInv, LiveCount, LiveAt, ThreadState
    <2>3. cfg.records > Share
        BY <2>1 DEF EnoughKeys, TypeOK, CfgOK, Share
    <2>4. cfg.records \in Nat /\ Share \in Nat /\ Ins(th[t].op) \in Nat /\ Del(th[t].op) \in Nat
        BY <2>2, CfgFacts, CountStep DEF TypeOK
    <2>5. Del(th[t].op) - Ins(th[t].op) <= Share
        BY <2>2, CountBound DEF TypeOK
    <2>6. Net(th[t].op) > 0
        BY <2>3, <2>4, <2>5 DEF Net
    <2>7. live # <<>>
        BY <2>2, <2>6
    <2>8. PICK rank \in 1 .. Len(live) : Only(t, [th[t] EXCEPT !.pc = "apply", !.key = live[rank]])
        BY <1>10, <2>7, LiveEffect
    <2>9. th'[t].pc = "apply"
        BY <1>0, <2>8 DEF Only, ThreadState
    <2> QED BY <2>8, <2>9, OthersStay
<1>11. CASE ApplyInsert(t) \/ ApplyDelete(t)
    <2>1. th'[t].pc # "panic"
        <3>1. t \in cfg.writers
            BY <1>11 DEF ApplyInsert, ApplyDelete, PhaseInv, Phase, Writing
        <3> QED BY <1>11, <3>1, KeysInsert, KeysDelete, LiveInsert, LiveDelete
    <2>2. PICK r : Only(t, r)
        <3>1. CASE \E keys, to : to \in Pcs /\ Commit(t, keys, to)
            BY <3>1, CommitEffect
        <3>2. CASE NoEffect(t, "panic")
            <4>1. Goto(t, th[t].pc, "panic") /\ "panic" \in Pcs
                BY <3>2 DEF NoEffect, Goto, Pcs
            <4> QED BY <4>1, Goes
        <3> QED BY <1>11, <3>1, <3>2 DEF ApplyInsert, ApplyDelete, Pcs
    <2> QED BY <2>1, <2>2, OthersStay
<1>12. CASE ApplyUpdate(t)
    <2>1. CASE th[t].key \in tree
        <3>1. Commit(t, tree, "note") /\ "note" \in Pcs
            BY <1>12, <2>1 DEF ApplyUpdate, Pcs
        <3>2. PICK skip \in Nat : Only(t, [th[t] EXCEPT !.pc = "note", !.version = clock + skip])
            BY <3>1, CommitEffect
        <3>3. th'[t].pc = "note"
            BY <1>0, <3>2 DEF Only, ThreadState
        <3> QED BY <3>2, <3>3, OthersStay
    <2>2. CASE th[t].key \notin tree
        <3>1. Goto(t, "apply", "choose")
            BY <1>12, <2>2 DEF ApplyUpdate, NoEffect, Goto
        <3> QED BY <1>1, <3>1 DEF Pcs
    <2> QED BY <2>1, <2>2
<1>13. CASE LoadPublished(t)
    <2> DEFINE p == IF published \in inserted THEN "advance" ELSE "note"
    <2>1. Only(t, [th[t] EXCEPT !.seen = published, !.pc = p]) /\ p # "panic"
        BY <1>13, LoadEffect
    <2> HIDE DEF p
    <2>2. th'[t].pc = p
        BY <1>0, <2>1 DEF Only, ThreadState
    <2> QED BY <2>1, <2>2, OthersStay
<1>14. CASE Note(t)
    <2>1. PICK c : Only(t, [Start EXCEPT !.pc = "take", !.cursor = c])
        BY <1>14, NoteEffect
    <2>2. th'[t].pc = "take"
        BY <2>1 DEF Only, Start
    <2> QED BY <2>1, <2>2, OthersStay
<1>15. CASE FreshScan(t)
    <2>1. CASE th' = th
        BY <2>1 DEF NoPanic
    <2>2. CASE Only(t, [th[t] EXCEPT !.pc = "done"])
        <3>1. th'[t].pc = "done"
            BY <1>0, <2>2 DEF Only, ThreadState
        <3> QED BY <2>2, <3>1, OthersStay
    <2>3. CASE Only(t, [th[t] EXCEPT !.pc = "scan", !.lo = expired])
        <3>1. th'[t].pc = "scan"
            BY <1>0, <2>3 DEF Only, ThreadState
        <3> QED BY <2>3, <3>1, OthersStay
    <2> QED BY <1>15, <2>1, <2>2, <2>3, FreshScanEffect
<1>16. CASE FreshRangeScan(t)
    <2>1. Only(t, [th[t] EXCEPT !.pc = "read", !.lo = 0])
        BY <1>16, RangeScanEffect
    <2>2. th'[t].pc = "read"
        BY <1>0, <2>1 DEF Only, ThreadState
    <2> QED BY <2>1, <2>2, OthersStay
<1>17. CASE HistoricalScan(t)
    <2>1. AllNoted
        BY <1>17 DEF HistoricalScan, PlanInv, PhaseInv
    <2>2. ~(nextScan \in 1 .. cfg.scans /\ plan[nextScan].version = 0)
        BY <2>1 DEF AllNoted
    <2>3. CASE Only(t, [th[t] EXCEPT !.pc = "done"])
        <3>1. th'[t].pc = "done"
            BY <1>0, <2>3 DEF Only, ThreadState
        <3> QED BY <2>3, <3>1, OthersStay
    <2>4. CASE Only(t, [th[t] EXCEPT !.pc = "historical", !.scan = nextScan,
                             !.lo = ScanWindow(plan[nextScan].completed).lo,
                             !.hi = ScanWindow(plan[nextScan].completed).hi])
        <3>1. th'[t].pc = "historical"
            BY <1>0, <2>4 DEF Only, ThreadState
        <3> QED BY <2>4, <3>1, OthersStay
    <2> QED BY <1>17, <2>2, <2>3, <2>4, HistoricalEffect
<1> QED BY <1>2, <1>3, <1>4, <1>5, <1>6, <1>7, <1>8, <1>9, <1>10, <1>11, <1>12, <1>13, <1>14, <1>15, <1>16, <1>17
        DEF Worker, Writer, Reader, Scanner

LEMMA PanicStep ==
    ASSUME EnoughKeys, TypeOK, PhaseInv, KeyInv, LiveInv, PlanInv, NoPanic, [Next]_vars
    PROVE  NoPanic'
<1>1. CASE UNCHANGED vars
    BY <1>1 DEF NoPanic, vars
<1>2. CASE Main
    <2>1. ASSUME NEW u \in Threads, th'[u] # th[u] PROVE th'[u].pc = "next"
        <3>1. JoinReaders
            BY <1>2, <2>1 DEF Main, MainArrives, JoinWriters, JoinScanners
        <3> QED BY <2>1, <3>1 DEF JoinReaders, Start
    <2> QED BY <2>1 DEF NoPanic
<1> QED BY <1>1, <1>2, PanicThread DEF Next

(* What the writers agree on.                                               *)
WorkInv == TypeOK /\ PhaseInv /\ KeyInv /\ LiveInv /\ PlanInv

LEMMA SpecWorkInv == Spec => []WorkInv
<1>1. Init => WorkInv
    BY InitType, InitKeys, InitLive, InitPlan DEF WorkInv
<1>2. WorkInv /\ [Next]_vars => WorkInv'
    BY TypeStep, PhaseStep, KeysStep, LiveStep, PlanStep DEF WorkInv
<1> QED BY <1>1, <1>2, PTL DEF Spec

(* No thread of an experiment panics, for any number of writers, any mix of *)
(* operations, any block and any seed: no insertion finds its key in the    *)
(* index, no deletion misses the key it reserved, whatever the order in     *)
(* which the writers reserve, insert, publish and delete; no random writer  *)
(* runs out of live keys, provided it loads more than a block deletes; and  *)
(* no historical scan is without the version of its operation.              *)
THEOREM SpecNoPanic == EnoughKeys => (Spec => []NoPanic)
<1> SUFFICES ASSUME EnoughKeys PROVE Spec => []NoPanic
    OBVIOUS
<1>1. Init => NoPanic
    BY DEF Init, Start, NoPanic
<1>2. WorkInv /\ NoPanic /\ [Next]_vars => NoPanic'
    BY PanicStep DEF WorkInv
<1> QED BY <1>1, <1>2, SpecWorkInv, PTL DEF Spec

---------------------------------------------------------------------------
(* The windows of the historical scans.                                     *)

LEMMA InitWindow == Init => WindowInv
<1> SUFFICES ASSUME Init, cfg.scans > 0, ~cfg.random
             PROVE  HistoryIs /\ (\A w \in cfg.writers : WriterAt(w)) /\ \A s \in Threads : ScanIs(s)
    BY DEF WindowInv
<1>1. TypeOK /\ CfgOK
    BY InitType DEF TypeOK
<1>2. cfg.records \in Nat /\ cfg.writers \subseteq Threads /\ cfg.scans \in Nat /\ cfg.records > 0
    BY <1>1, CfgFacts
<1>3. Len(history) = 0 /\ history = <<>> /\ next = 0 /\ expired = 0 /\ reserved = cfg.records
    BY DEF Init
<1>4. \A t \in Threads : th[t].pc = "start"
    BY DEF Init, Start
<1>5. \A n \in 1 .. cfg.scans : plan[n].version = 0
    BY DEF Init, PlansFor
<1>6. HistoryIs
    <2>1. 1 .. Len(history) = {}
        BY <1>3
    <2> QED BY <1>5, <2>1 DEF HistoryIs
<1>7. tree = 0 .. cfg.records - 1
    BY <1>2 DEF Init, Loaded, LoadedKey
<1>8. Ins(0) = 0 /\ Del(0) = 0
    BY <1>1, CountsAtZero
<1>9. tree = Window(0) /\ Del(0) <= cfg.records + Ins(0)
    BY <1>2, <1>7, <1>8 DEF Window
<1>10. ASSUME NEW w \in cfg.writers PROVE WriterAt(w)
    <2>1. th[w].pc = "start" /\ ~Deleting(w) /\ ~Claiming(w)
        BY <1>2, <1>4 DEF Deleting, Claiming
    <2>2. Held(w)
        BY <1>2, <1>3, <1>8, <2>1 DEF Held
    <2> QED BY <1>3, <1>9, <2>1, <2>2 DEF WriterAt, Early, Before, After
<1> QED BY <1>4, <1>6, <1>10 DEF ScanIs

LEMMA WindowFrame ==
    ASSUME WindowInv, cfg' = cfg, UNCHANGED <<history, clock, plan>>,
           cfg.scans > 0 /\ ~cfg.random =>
              /\ \A u \in cfg.writers : WriterAt(u)'
              /\ \A s \in Threads : th'[s] = th[s] \/ ScanIs(s)'
    PROVE  WindowInv'
<1> SUFFICES ASSUME cfg.scans > 0, ~cfg.random
             PROVE  HistoryIs' /\ \A s \in Threads : ScanIs(s)'
    BY DEF WindowInv
<1>1. HistoryIs'
    BY CfgStays DEF WindowInv, HistoryIs
<1>2. ASSUME NEW s \in Threads, th'[s] = th[s] PROVE ScanIs(s)'
    <2>1. ScanIs(s)
        BY DEF WindowInv
    <2> QED BY <1>2, <2>1, CfgStays DEF ScanIs
<1> QED BY <1>1, <1>2

LEMMA WriterRests ==
    ASSUME NEW u, th'[u].pc \in Idle
    PROVE  WriterAt(u)'
<1>1. th'[u].pc \notin Early \cup Before \cup After
    BY DEF Idle, Early, Before, After
<1> QED BY <1>1 DEF WriterAt

LEMMA WriterStays ==
    ASSUME NEW u, WriterAt(u), cfg' = cfg, UNCHANGED <<history, tree, next, expired, reserved>>, th'[u] = th[u]
    PROVE  WriterAt(u)'
<1>1. Held(u) => Held(u)'
    BY CfgStays DEF Held, Deleting, Claiming
<1> QED BY <1>1, CfgStays DEF WriterAt

(* A step of the writer within its operation.                               *)
LEMMA WriterMoves ==
    ASSUME NEW t, WriterAt(t), cfg' = cfg, UNCHANGED <<history, tree, next>>,
           th'[t].op = th[t].op, th'[t].kind = th[t].kind, th'[t].version = th[t].version,
           \/ th[t].pc \in Early /\ th'[t].pc \in Early
           \/ th[t].pc \in Before /\ th'[t].pc \in Before
           \/ th[t].pc \in After /\ th'[t].pc \in After,
           Held(t) => Held(t)'
    PROVE  WriterAt(t)'
<1>1. CASE th[t].pc \in Early /\ th'[t].pc \in Early
    <2>1. th'[t].pc \notin Before \cup After
        BY <1>1 DEF Early, Before, After
    <2> QED BY <1>1, <2>1, CfgStays DEF WriterAt
<1>2. CASE th[t].pc \in Before /\ th'[t].pc \in Before
    <2>1. th'[t].pc \notin Early \cup After
        BY <1>2 DEF Early, Before, After
    <2> QED BY <1>2, <2>1, CfgStays DEF WriterAt
<1>3. CASE th[t].pc \in After /\ th'[t].pc \in After
    <2>1. th'[t].pc \notin Early \cup Before
        BY <1>3 DEF Early, Before, After
    <2> QED BY <1>3, <2>1, CfgStays DEF WriterAt
<1> QED BY <1>1, <1>2, <1>3

(* A step of one thread: a writer's, a scanner's or a reader's.             *)
LEMMA WindowOnly ==
    ASSUME TypeOK, WindowInv, NEW t \in Threads, NEW r, Only(t, r), cfg' = cfg, UNCHANGED <<history, clock, plan>>,
           cfg.scans > 0 /\ ~cfg.random =>
              /\ t \notin cfg.writers => UNCHANGED <<tree, next, expired, reserved>>
              /\ t \in cfg.writers => WriterAt(t)'
              /\ ScanIs(t)'
    PROVE  WindowInv'
<1> SUFFICES ASSUME cfg.scans > 0, ~cfg.random
             PROVE  /\ \A u \in cfg.writers : WriterAt(u)'
                    /\ \A s \in Threads : th'[s] = th[s] \/ ScanIs(s)'
    BY WindowFrame
<1>1. cfg.writers \subseteq Threads /\ \A u, w \in cfg.writers : u = w
    BY CfgFacts, SoleWriter DEF TypeOK
<1>2. ASSUME NEW u \in cfg.writers PROVE WriterAt(u)'
    <2>1. CASE u = t
        BY <2>1
    <2>2. CASE u # t
        <3>1. t \notin cfg.writers /\ th'[u] = th[u] /\ WriterAt(u)
            BY <1>1, <2>2 DEF Only, WindowInv
        <3> QED BY <3>1, WriterStays
    <2> QED BY <2>1, <2>2
<1> QED BY <1>2 DEF Only

LEMMA WindowTake ==
    ASSUME TypeOK, WindowInv, cfg.scans > 0, ~cfg.random, NEW t \in Threads, t \in cfg.writers, TakeOperation(t)
    PROVE  WindowInv'
<1> DEFINE k == IF next >= cfg.operations THEN "none" ELSE WriteKind(next)
           p == IF next >= cfg.operations THEN "finish" ELSE "choose"
<1>1. Only(t, [th[t] EXCEPT !.op = next, !.kind = k, !.pc = p])
    BY TakeEffect
<1>2. th'[t].op = next /\ th'[t].kind = k /\ th'[t].pc = p
    <2> HIDE DEF k, p
    <2> QED BY <1>1, TypeFacts DEF Only, ThreadState
<1>3. /\ cfg' = cfg /\ next' = next + 1 /\ UNCHANGED <<history, clock, plan, tree, expired, reserved>>
      /\ th[t].pc = "take"
    BY DEF TakeOperation, keyVars, indexVars, planVars
<1>4. /\ tree = Window(Len(history)) /\ Del(Len(history)) <= cfg.records + Ins(Len(history))
      /\ Held(t) /\ Len(history) = next
    BY <1>3 DEF WindowInv, WriterAt, Early
<1>5. WriterAt(t)'
    <2>1. CASE next >= cfg.operations
        BY <1>2, <2>1, WriterRests DEF Idle
    <2>2. CASE ~(next >= cfg.operations)
        <3>1. th'[t].op = next /\ th'[t].kind = WriteKind(next) /\ th'[t].pc = "choose"
            BY <1>2, <2>2
        <3>2. Held(t)'
            BY <1>3, <1>4, <3>1, CfgStays DEF Held, Deleting, Claiming
        <3> QED BY <1>3, <1>4, <3>1, <3>2, CfgStays DEF WriterAt, Early, Before, After
    <2> QED BY <2>1, <2>2
<1>6. ScanIs(t)'
    BY <1>2 DEF ScanIs
<1> HIDE DEF k, p
<1> QED BY <1>1, <1>3, <1>5, <1>6, WindowOnly

LEMMA HistoryTyped ==
    ASSUME TypeOK
    PROVE  /\ Len(history) \in Nat
           /\ \A n \in 1 .. Len(history) : history[n].version \in Nat
<1> DEFINE R == [version : Nat, keys : SUBSET Int]
<1>1. history \in Seq(R)
    BY DEF TypeOK
<1>2. \A r \in R : r.version \in Nat
    OBVIOUS
<1> HIDE DEF R
<1>3. \A n \in 1 .. Len(history) : history[n] \in R
    BY <1>1
<1>4. Len(history) \in Nat
    BY <1>1
<1> QED BY <1>2, <1>3, <1>4

(* A commit appends the window of one operation more.                       *)
LEMMA WindowCommit ==
    ASSUME TypeOK, WindowInv, cfg.scans > 0, ~cfg.random, NEW t \in Threads, t \in cfg.writers,
           th[t].pc = "apply", NEW keys, NEW to \in {"note", "publish"}, Commit(t, keys, to),
           cfg' = cfg, UNCHANGED <<plan, next, expired, reserved>>,
           keys = Window(Len(history) + 1),
           expired = Del(Len(history) + 1), reserved = cfg.records + Ins(Len(history) + 1),
           Del(Len(history) + 1) <= cfg.records + Ins(Len(history) + 1)
    PROVE  WindowInv'
<1>0. to \in Pcs /\ to \in After
    BY DEF Pcs, After
<1>1. PICK skip \in Nat :
         /\ clock' = clock + skip + 1
         /\ tree' = keys
         /\ history' = Append(history, [version |-> clock + skip, keys |-> keys])
         /\ Only(t, [th[t] EXCEPT !.pc = to, !.version = clock + skip])
    BY <1>0, CommitEffect
<1>2. PICK v \in Nat : v = clock + skip
    BY TypeFacts
<1>3. clock' = v + 1 /\ clock <= v /\ clock \in Nat /\ 0 < clock
    BY <1>1, <1>2, TypeFacts
<1>4. th'[t].pc = to /\ th'[t].op = th[t].op /\ th'[t].version = v
    BY <1>1, <1>2, TypeFacts DEF Only, ThreadState
<1>5. PICK m \in Nat : m = Len(history)
    BY HistoryTyped
<1>6. /\ Len(history') = m + 1
      /\ history'[m + 1].version = v /\ history'[m + 1].keys = keys
      /\ \A n \in 1 .. m : history'[n] = history[n]
    <2>1. history \in Seq([version : Nat, keys : SUBSET Int])
        BY DEF TypeOK
    <2>2. Len(history') = m + 1 /\ history'[m + 1] = [version |-> v, keys |-> keys] /\ \A n \in 1 .. m : history'[n] = history[n]
        BY <1>1, <1>2, <1>5, <2>1
    <2> QED BY <2>2
<1>7. HistoryIs /\ WriterAt(t)
    BY DEF WindowInv
<1>8. \A n \in 1 .. m + 1 : n \in 1 .. m \/ n = m + 1
    BY <1>5
<1>9. HistoryIs'
    <2>1. ASSUME NEW n \in 1 .. m
          PROVE  /\ history'[n].keys = Window(n) /\ history'[n].version \in Nat
                 /\ 0 < history'[n].version /\ history'[n].version < clock
        BY <1>5, <1>6, <1>7, HistoryTyped DEF HistoryIs
    <2>2. ASSUME NEW n \in 1 .. m + 1
          PROVE  history'[n].keys = Window(n) /\ 0 < history'[n].version /\ history'[n].version < clock'
        <3>1. CASE n \in 1 .. m
            BY <1>3, <2>1, <3>1
        <3>2. CASE n = m + 1
            BY <1>3, <1>5, <1>6, <3>2
        <3> QED BY <1>8, <3>1, <3>2
    <2>3. ASSUME NEW n \in 1 .. m + 1, NEW l \in 1 .. m + 1, n < l
          PROVE  history'[n].version < history'[l].version
        <3>1. n \in 1 .. m
            BY <2>3
        <3>2. CASE l \in 1 .. m
            BY <1>5, <1>6, <1>7, <2>3, <3>1, <3>2 DEF HistoryIs
        <3>3. CASE l = m + 1
            BY <1>3, <1>6, <2>1, <3>1, <3>3
        <3> QED BY <1>8, <3>2, <3>3
    <2>4. ASSUME NEW n \in 1 .. cfg.scans, plan[n].version # 0
          PROVE  plan[n].completed \in 1 .. m + 1 /\ plan[n].version = history'[plan[n].completed].version
        <3>1. plan[n].completed \in 1 .. m /\ plan[n].version = history[plan[n].completed].version
            BY <1>5, <1>7, <2>4 DEF HistoryIs
        <3> QED BY <1>6, <3>1
    <2> QED BY <1>6, <2>2, <2>3, <2>4, CfgStays DEF HistoryIs
<1>10. WriterAt(t)'
    <2>1. m = th[t].op /\ next = th[t].op + 1
        BY <1>5, <1>7 DEF WriterAt, Before
    <2>2. th'[t].pc \in After /\ th'[t].pc \notin Early \cup Before /\ ~Deleting(t)' /\ ~Claiming(t)'
        BY <1>4 DEF Early, Before, After, Deleting, Claiming
    <2>3. Held(t)'
        BY <1>5, <1>6, <2>2, CfgStays DEF Held
    <2>4. tree' = Window(m + 1)
        BY <1>1, <1>5
    <2> QED BY <1>4, <1>5, <1>6, <2>1, <2>2, <2>3, <2>4, CfgStays DEF WriterAt
<1>11. \A u \in cfg.writers : u = t
    BY SoleWriter DEF TypeOK
<1>12. ASSUME NEW s \in Threads PROVE ScanIs(s)'
    <2>1. CASE s = t
        BY <1>4, <2>1 DEF ScanIs
    <2>2. CASE s # t
        <3>1. th'[s] = th[s] /\ ScanIs(s)
            BY <1>1, <2>2 DEF Only, WindowInv
        <3> QED BY <3>1, CfgStays DEF ScanIs
    <2> QED BY <2>1, <2>2
<1> QED BY <1>9, <1>10, <1>11, <1>12 DEF WindowInv

LEMMA WindowNote ==
    ASSUME TypeOK, PhaseInv, WindowInv, cfg.scans > 0, ~cfg.random, NEW t \in Threads, t \in cfg.writers, Note(t)
    PROVE  WindowInv'
<1>1. /\ Only(t, [Start EXCEPT !.pc = "take", !.cursor = th[t].cursor + Cardinality(Hits(t))])
      /\ plan' = [n \in DOMAIN plan |-> IF n \in Hits(t) THEN [plan[n] EXCEPT !.version = th[t].version]
                                        ELSE plan[n]]
    BY NoteEffect
<1>2. th'[t].pc = "take"
    BY <1>1 DEF Only, Start
<1>3. /\ cfg' = cfg /\ UNCHANGED <<next, history, clock, tree, expired, reserved>> /\ main = "join"
      /\ th[t].pc = "note"
    BY DEF Note, keyVars, indexVars, PhaseInv, Phase, Writing
<1>4. HistoryIs /\ WriterAt(t)
    BY DEF WindowInv
<1>5. /\ Len(history) = th[t].op + 1 /\ next = th[t].op + 1 /\ th[t].version = history[Len(history)].version
      /\ tree = Window(Len(history)) /\ Del(Len(history)) <= cfg.records + Ins(Len(history)) /\ Held(t)
    BY <1>3, <1>4 DEF WriterAt, After
<1>6. th[t].op \in Nat /\ th[t].cursor \in Nat /\ cfg.scans \in Nat
    BY TypeFacts, CfgFacts DEF TypeOK, ThreadState
<1>7. ASSUME NEW n \in 1 .. cfg.scans, plan'[n].version # 0
      PROVE  plan'[n].completed \in 1 .. Len(history) /\ plan'[n].version = history[plan'[n].completed].version
    <2>1. plan[n] \in [completed : 1 .. cfg.operations, version : Nat] /\ DOMAIN plan = 1 .. cfg.scans
        BY DEF TypeOK
    <2>2. /\ plan'[n].completed = plan[n].completed
          /\ plan'[n].version = IF n \in Hits(t) THEN th[t].version ELSE plan[n].version
        BY <1>1, <2>1
    <2>3. CASE n \in Hits(t)
        <3>1. n \in th[t].cursor .. n
            BY <1>6, <2>3 DEF Hits
        <3>2. plan[n].completed = th[t].op + 1
            BY <2>3, <3>1 DEF Hits
        <3> QED BY <1>5, <1>6, <2>2, <2>3, <3>2
    <2>4. CASE n \notin Hits(t)
        BY <1>4, <1>7, <2>2, <2>4 DEF HistoryIs
    <2> QED BY <2>3, <2>4
<1>8. HistoryIs'
    BY <1>3, <1>4, <1>7, CfgStays DEF HistoryIs
<1>9. WriterAt(t)'
    <2>1. Held(t)'
        BY <1>2, <1>3, <1>5, CfgStays DEF Held, Deleting, Claiming
    <2> QED BY <1>2, <1>3, <1>5, <2>1, CfgStays DEF WriterAt, Early, Before, After
<1>10. ASSUME NEW s \in Threads PROVE ScanIs(s)'
    <2>1. th[s].pc # "historical"
        BY <1>3 DEF PhaseInv, Phase
    <2>2. th'[s].pc # "historical"
        BY <1>1, <1>2, <2>1 DEF Only
    <2> QED BY <2>2 DEF ScanIs
<1>11. \A u \in cfg.writers : u = t
    BY SoleWriter DEF TypeOK
<1> QED BY <1>3, <1>8, <1>9, <1>10, <1>11 DEF WindowInv

(* The three kinds of operation; only a write that has an effect commits.   *)
LEMMA WindowApply ==
    ASSUME TypeOK, PhaseInv, WindowInv, cfg.scans > 0, ~cfg.random, NEW t \in Threads, t \in cfg.writers,
           ApplyInsert(t) \/ ApplyDelete(t) \/ ApplyUpdate(t)
    PROVE  WindowInv'
<1>0. /\ cfg' = cfg /\ UNCHANGED <<plan, next, expired, reserved>> /\ th[t].pc = "apply" /\ th[t] \in ThreadState
    BY TypeFacts DEF ApplyInsert, ApplyDelete, ApplyUpdate, keyVars, planVars
<1>1. WriterAt(t)
    BY DEF WindowInv
<1>2. PICK m \in Nat : m = Len(history)
    BY HistoryTyped
<1>3. /\ tree = Window(m) /\ Del(m) <= cfg.records + Ins(m) /\ Held(t)
      /\ th[t].kind = WriteKind(m)
    BY <1>0, <1>1, <1>2 DEF WriterAt, Before
<1>4. /\ cfg.records \in Nat /\ Ins(m) \in Nat /\ Del(m) \in Nat
      /\ Ins(m + 1) = Ins(m) + (IF WriteKind(m) = "insert" THEN 1 ELSE 0)
      /\ Del(m + 1) = Del(m) + (IF WriteKind(m) = "delete" THEN 1 ELSE 0)
    BY CfgFacts, CountStep DEF TypeOK
<1>5. ASSUME NEW to \in {"panic", "choose"}, NoEffect(t, to), to = "choose" => th[t].kind = "update"
      PROVE  WindowInv'
    <2>1. Goto(t, "apply", to) /\ to \in Pcs /\ UNCHANGED <<history, clock, tree>>
        BY <1>0, <1>5 DEF NoEffect, Goto, Pcs, indexVars
    <2>2. Only(t, [th[t] EXCEPT !.pc = to])
        BY <2>1, Goes
    <2>3. /\ th'[t].pc = to /\ th'[t].op = th[t].op /\ th'[t].kind = th[t].kind
          /\ th'[t].version = th[t].version
        BY <1>0, <2>2 DEF Only, ThreadState
    <2>4. ScanIs(t)'
        BY <2>3 DEF ScanIs
    <2>5. WriterAt(t)'
        <3>1. CASE to = "panic"
            BY <2>3, <3>1, WriterRests DEF Idle
        <3>2. CASE to = "choose"
            <4>1. ~Deleting(t) /\ ~Claiming(t) /\ ~Deleting(t)' /\ ~Claiming(t)'
                BY <1>0, <1>5, <2>3, <3>2 DEF Deleting, Claiming
            <4>2. Held(t) => Held(t)'
                BY <1>0, <2>1, <4>1, CfgStays DEF Held
            <4>3. th[t].pc \in Before /\ th'[t].pc \in Before
                BY <1>0, <2>3, <3>2 DEF Before
            <4> QED BY <1>0, <1>1, <2>1, <2>3, <4>2, <4>3, WriterMoves
        <3> QED BY <3>1, <3>2
    <2> QED BY <1>0, <2>1, <2>2, <2>4, <2>5, WindowOnly
<1>6. CASE ApplyInsert(t)
    <2>1. th[t].kind = "insert" /\ Claiming(t) /\ ~Deleting(t)
        BY <1>0, <1>6 DEF ApplyInsert, Claiming, Deleting
    <2>2. th[t].key = cfg.records + Ins(m) /\ expired = Del(m) /\ reserved = cfg.records + (Ins(m) + 1)
        BY <1>2, <1>3, <2>1 DEF Held
    <2>3. Ins(m + 1) = Ins(m) + 1 /\ Del(m + 1) = Del(m)
        BY <1>3, <1>4, <2>1
    <2>4. tree \cup {th[t].key} = Window(m + 1)
        <3>1. PICK a \in Int, b \in Int : a = Del(m) /\ b = cfg.records + Ins(m) /\ a <= b
            BY <1>3, <1>4
        <3>2. Window(m) = a .. b - 1 /\ Window(m + 1) = a .. b
            <4>1. /\ Window(m) = Del(m) .. cfg.records + Ins(m) - 1
                  /\ Window(m + 1) = Del(m + 1) .. cfg.records + Ins(m + 1) - 1
                BY DEF Window
            <4>2. cfg.records + Ins(m + 1) - 1 = b /\ cfg.records + Ins(m) - 1 = b - 1
                BY <1>4, <2>3, <3>1
            <4> QED BY <2>3, <3>1, <4>1, <4>2
        <3>3. (a .. b - 1) \cup {b} = a .. b
            BY <3>1
        <3> QED BY <1>3, <2>2, <3>1, <3>2, <3>3
    <2>5. CASE th[t].key \notin tree
        <3>1. Commit(t, tree \cup {th[t].key}, "publish")
            BY <1>6, <2>5 DEF ApplyInsert
        <3>2. Del(m + 1) <= cfg.records + Ins(m + 1)
            BY <1>3, <1>4, <2>3
        <3> QED BY <1>0, <1>2, <2>2, <2>3, <2>4, <3>1, <3>2, WindowCommit
    <2>6. CASE th[t].key \in tree
        BY <1>5, <1>6, <2>6 DEF ApplyInsert
    <2> QED BY <2>5, <2>6
<1>7. CASE ApplyDelete(t)
    <2>1. th[t].kind = "delete" /\ ~Claiming(t) /\ Deleting(t)
        BY <1>0, <1>7 DEF ApplyDelete, Claiming, Deleting
    <2>2. th[t].key = Del(m) /\ expired = Del(m) + 1 /\ reserved = cfg.records + Ins(m)
        BY <1>2, <1>3, <2>1 DEF Held
    <2>3. Ins(m + 1) = Ins(m) /\ Del(m + 1) = Del(m) + 1
        BY <1>3, <1>4, <2>1
    <2>4. PICK a \in Int, b \in Int : a = Del(m) /\ b = cfg.records + Ins(m) /\ a <= b
        BY <1>3, <1>4
    <2>5. Window(m) = a .. b - 1 /\ Window(m + 1) = a + 1 .. b - 1
        <3>1. /\ Window(m) = Del(m) .. cfg.records + Ins(m) - 1
              /\ Window(m + 1) = Del(m + 1) .. cfg.records + Ins(m + 1) - 1
            BY DEF Window
        <3>2. cfg.records + Ins(m + 1) - 1 = b - 1 /\ cfg.records + Ins(m) - 1 = b - 1
            BY <1>4, <2>3, <2>4
        <3> QED BY <2>3, <2>4, <3>1, <3>2
    <2>6. tree \ {th[t].key} = Window(m + 1)
        <3>1. (a .. b - 1) \ {a} = a + 1 .. b - 1
            BY <2>4
        <3> QED BY <1>3, <2>2, <2>4, <2>5, <3>1
    <2>7. CASE th[t].key \in tree
        <3>1. Commit(t, tree \ {th[t].key}, "note")
            BY <1>7, <2>7 DEF ApplyDelete
        <3>2. a + 1 <= b
            BY <1>3, <2>2, <2>4, <2>5, <2>7
        <3>3. Del(m + 1) <= cfg.records + Ins(m + 1)
            BY <2>3, <2>4, <3>2
        <3> QED BY <1>0, <1>2, <2>2, <2>3, <2>6, <3>1, <3>3, WindowCommit
    <2>8. CASE th[t].key \notin tree
        BY <1>5, <1>7, <2>8 DEF ApplyDelete
    <2> QED BY <2>7, <2>8
<1>8. CASE ApplyUpdate(t)
    <2>1. th[t].kind = "update" /\ ~Claiming(t) /\ ~Deleting(t)
        BY <1>0, <1>8 DEF ApplyUpdate, Claiming, Deleting
    <2>2. expired = Del(m) /\ reserved = cfg.records + Ins(m)
        BY <1>2, <1>3, <2>1 DEF Held
    <2>3. Ins(m + 1) = Ins(m) /\ Del(m + 1) = Del(m)
        BY <1>3, <1>4, <2>1
    <2>4. tree = Window(m + 1)
        BY <1>3, <2>3 DEF Window
    <2>5. CASE th[t].key \in tree
        <3>1. Commit(t, tree, "note")
            BY <1>8, <2>5 DEF ApplyUpdate
        <3> QED BY <1>0, <1>2, <1>3, <2>2, <2>3, <2>4, <3>1, WindowCommit
    <2>6. CASE th[t].key \notin tree
        BY <1>5, <1>8, <2>1, <2>6 DEF ApplyUpdate
    <2> QED BY <2>5, <2>6
<1> QED BY <1>6, <1>7, <1>8

(* Choosing a key, and publishing one.                                      *)
LEMMA WindowChoose ==
    ASSUME TypeOK, PhaseInv, WindowInv, cfg.scans > 0, ~cfg.random, NEW t \in Threads, t \in cfg.writers,
           \/ ReserveInsert(t) \/ ReserveDelete(t) \/ AwaitPublished(t) \/ SampleLow(t) \/ SampleLive(t)
           \/ MarkInserted(t) \/ LoadPublished(t) \/ AdvancePublished(t)
    PROVE  WindowInv'
<1>0. /\ cfg' = cfg /\ UNCHANGED <<history, clock, plan, tree, next>> /\ th[t] \in ThreadState
    BY TypeFacts DEF ReserveInsert, ReserveDelete, AwaitPublished, SampleLow, SampleLive, MarkInserted, LoadPublished,
       AdvancePublished, planVars, indexVars
<1>1. WriterAt(t) /\ Phase(t)
    BY DEF WindowInv, PhaseInv
<1>2. ASSUME NEW r, Only(t, r), th'[t].op = th[t].op, th'[t].kind = th[t].kind, th'[t].version = th[t].version,
             \/ th[t].pc \in Before /\ th'[t].pc \in Before
             \/ th[t].pc \in After /\ th'[t].pc \in After,
             Held(t) => Held(t)'
      PROVE  WindowInv'
    <2>1. WriterAt(t)'
        BY <1>0, <1>1, <1>2, WriterMoves
    <2>2. ScanIs(t)'
        BY <1>2 DEF ScanIs, Before, After
    <2> QED BY <1>0, <1>2, <2>1, <2>2, WindowOnly
<1>3. ASSUME ~Deleting(t), ~Claiming(t), ~Deleting(t)', ~Claiming(t)', UNCHANGED <<expired, reserved>>
      PROVE  Held(t) => Held(t)'
    BY <1>0, <1>3, CfgStays DEF Held
<1>4. CASE ReserveInsert(t)
    <2>1. Only(t, [th[t] EXCEPT !.pc = "apply", !.key = reserved])
        BY <1>4, ReserveInsertEffect
    <2>2. /\ th'[t].pc = "apply" /\ th'[t].key = reserved
          /\ th'[t].op = th[t].op /\ th'[t].kind = th[t].kind /\ th'[t].version = th[t].version
        BY <1>0, <2>1 DEF Only, ThreadState
    <2>3. th[t].pc = "choose" /\ th[t].kind = "insert" /\ reserved' = reserved + 1 /\ expired' = expired
        BY <1>4 DEF ReserveInsert
    <2>4. ASSUME Held(t) PROVE Held(t)'
        <3>1. expired = Del(Len(history)) /\ reserved = cfg.records + Ins(Len(history))
            BY <2>3, <2>4 DEF Held, Deleting, Claiming
        <3>2. reserved' = cfg.records + (Ins(Len(history)) + 1)
            <4>1. Ins(Len(history)) \in Nat /\ cfg.records \in Nat
                BY HistoryTyped, CountsTyped, CfgFacts DEF TypeOK
            <4> QED BY <2>3, <3>1, <4>1
        <3>3. ~Deleting(t)' /\ Claiming(t)'
            BY <2>2, <2>3 DEF Deleting, Claiming
        <3> QED BY <1>0, <2>2, <2>3, <3>1, <3>2, <3>3, CfgStays DEF Held
    <2> QED BY <1>2, <2>1, <2>2, <2>3, <2>4 DEF Before
<1>5. CASE ReserveDelete(t)
    <2>1. Only(t, [th[t] EXCEPT !.pc = "await", !.key = expired])
        BY <1>5, ReserveDeleteEffect
    <2>2. /\ th'[t].pc = "await" /\ th'[t].key = expired
          /\ th'[t].op = th[t].op /\ th'[t].kind = th[t].kind /\ th'[t].version = th[t].version
        BY <1>0, <2>1 DEF Only, ThreadState
    <2>3. th[t].pc = "choose" /\ th[t].kind = "delete" /\ reserved' = reserved /\ expired' = expired + 1
        BY <1>5 DEF ReserveDelete
    <2>4. ASSUME Held(t) PROVE Held(t)'
        <3>1. expired = Del(Len(history)) /\ reserved = cfg.records + Ins(Len(history))
            BY <2>3, <2>4 DEF Held, Deleting, Claiming
        <3>2. Deleting(t)' /\ ~Claiming(t)'
            BY <2>2, <2>3 DEF Deleting, Claiming
        <3> QED BY <1>0, <2>2, <2>3, <3>1, <3>2, CfgStays DEF Held
    <2> QED BY <1>2, <2>1, <2>2, <2>3, <2>4 DEF Before
<1>6. CASE AwaitPublished(t)
    <2>1. Goto(t, "await", "apply") /\ "apply" \in Pcs /\ UNCHANGED <<expired, reserved>>
        BY <1>6 DEF AwaitPublished, Pcs, keyVars
    <2>2. Only(t, [th[t] EXCEPT !.pc = "apply"]) /\ th[t].pc = "await"
        BY <2>1, Goes
    <2>3. /\ th'[t].pc = "apply" /\ th'[t].key = th[t].key
          /\ th'[t].op = th[t].op /\ th'[t].kind = th[t].kind /\ th'[t].version = th[t].version
        BY <1>0, <2>2 DEF Only, ThreadState
    <2>4. Deleting(t) /\ ~Claiming(t) /\ Deleting(t)' /\ ~Claiming(t)'
        BY <1>1, <2>2, <2>3 DEF Deleting, Claiming, Phase
    <2>5. Held(t) => Held(t)'
        BY <1>0, <2>1, <2>3, <2>4, CfgStays DEF Held
    <2> QED BY <1>2, <2>2, <2>3, <2>5 DEF Before
<1>7. CASE SampleLow(t)
    <2>1. Only(t, [th[t] EXCEPT !.pc = "high", !.lo = expired])
        BY <1>7, SampleLowEffect
    <2>2. /\ th'[t].pc = "high"
          /\ th'[t].op = th[t].op /\ th'[t].kind = th[t].kind /\ th'[t].version = th[t].version
        BY <1>0, <2>1 DEF Only, ThreadState
    <2>3. th[t].pc = "choose" /\ UNCHANGED <<expired, reserved>>
        BY <1>7 DEF SampleLow, keyVars
    <2>4. Held(t) => Held(t)'
        BY <1>3, <2>2, <2>3 DEF Deleting, Claiming
    <2> QED BY <1>2, <2>1, <2>2, <2>3, <2>4 DEF Before
<1>8. CASE SampleLive(t)
    <2>1. PICK key \in Int : Only(t, [th[t] EXCEPT !.pc = "apply", !.key = key])
        BY <1>8, SampleLiveEffect
    <2>2. /\ th'[t].pc = "apply"
          /\ th'[t].op = th[t].op /\ th'[t].kind = th[t].kind /\ th'[t].version = th[t].version
        BY <1>0, <2>1 DEF Only, ThreadState
    <2>3. th[t].pc = "high" /\ UNCHANGED <<expired, reserved>> /\ th[t].kind = "update"
        BY <1>1, <1>8 DEF SampleLive, keyVars, Phase
    <2>4. Held(t) => Held(t)'
        BY <1>3, <2>2, <2>3 DEF Deleting, Claiming
    <2> QED BY <1>2, <2>1, <2>2, <2>3, <2>4 DEF Before
<1>9. CASE MarkInserted(t) \/ AdvancePublished(t)
    <2>1. PICK from \in After, to \in After : Goto(t, from, to)
        BY <1>9 DEF MarkInserted, AdvancePublished, After
    <2>2. UNCHANGED <<expired, reserved>> /\ to \in Pcs
        BY <1>9 DEF MarkInserted, AdvancePublished, After, Pcs
    <2>3. Only(t, [th[t] EXCEPT !.pc = to]) /\ th[t].pc = from
        BY <2>1, <2>2, Goes
    <2>4. /\ th'[t].pc = to
          /\ th'[t].op = th[t].op /\ th'[t].kind = th[t].kind /\ th'[t].version = th[t].version
        BY <1>0, <2>3 DEF Only, ThreadState
    <2>5. Held(t) => Held(t)'
        BY <1>3, <2>2, <2>3, <2>4 DEF Deleting, Claiming, After
    <2> QED BY <1>2, <2>3, <2>4, <2>5
<1>10. CASE LoadPublished(t)
    <2> DEFINE p == IF published \in inserted THEN "advance" ELSE "note"
    <2>1. Only(t, [th[t] EXCEPT !.seen = published, !.pc = p]) /\ p \in After /\ UNCHANGED <<expired, reserved>>
        BY <1>10, LoadEffect DEF After, LoadPublished, keyVars
    <2>2. th[t].pc = "load"
        BY <1>10 DEF LoadPublished
    <2> HIDE DEF p
    <2>3. /\ th'[t].pc = p
          /\ th'[t].op = th[t].op /\ th'[t].kind = th[t].kind /\ th'[t].version = th[t].version
        BY <1>0, <2>1 DEF Only, ThreadState
    <2>4. Held(t) => Held(t)'
        BY <1>3, <2>1, <2>2, <2>3 DEF Deleting, Claiming, After
    <2> QED BY <1>2, <2>1, <2>2, <2>3, <2>4 DEF After
<1> QED BY <1>4, <1>5, <1>6, <1>7, <1>8, <1>9, <1>10

LEMMA WindowThread ==
    ASSUME TypeOK, PhaseInv, WindowInv, NEW t \in Threads,
           Worker(t) \/ Writer(t) \/ Reader(t) \/ Scanner(t)
    PROVE  WindowInv'
<1>0. cfg' = cfg /\ th[t] \in ThreadState
    BY ThreadTyped, TypeFacts
<1> SUFFICES ASSUME cfg.scans > 0, ~cfg.random PROVE WindowInv'
    BY <1>0 DEF WindowInv
<1>1. ASSUME NEW r, Only(t, r), UNCHANGED <<history, clock, plan, tree, next, expired, reserved>>,
             th'[t].pc # "historical" \/ ScanIs(t)', t \notin cfg.writers \/ WriterAt(t)'
      PROVE  WindowInv'
    <2>1. ScanIs(t)'
        BY <1>1 DEF ScanIs
    <2> QED BY <1>0, <1>1, <2>1, WindowOnly
<1>2. CASE Worker(t)
    <2>1. UNCHANGED <<history, clock, plan, tree, next, expired, reserved>>
        BY <1>2 DEF Worker, Arrive, Go, planVars, indexVars, keyVars
    <2>2. PICK from \in {"start", "barrier"}, to \in {"barrier", "take", "read"} :
             Goto(t, from, to) /\ (t \in cfg.writers => to # "read")
        BY <1>2 DEF Worker, Arrive, Go
    <2>3. to \in Pcs
        BY DEF Pcs
    <2>4. Only(t, [th[t] EXCEPT !.pc = to]) /\ th[t].pc = from
        BY <2>2, <2>3, Goes
    <2>5. /\ th'[t].pc = to /\ th'[t].op = th[t].op /\ th'[t].kind = th[t].kind
          /\ th'[t].version = th[t].version
        BY <1>0, <2>4 DEF Only, ThreadState
    <2>6. ASSUME t \in cfg.writers PROVE WriterAt(t)'
        <3>1. th[t].pc \in Early /\ th'[t].pc \in Early /\ WriterAt(t)
            BY <2>2, <2>4, <2>5, <2>6 DEF Early, WindowInv
        <3>2. Held(t) => Held(t)'
            BY <1>0, <2>1, <3>1, CfgStays DEF Held, Deleting, Claiming, Early
        <3> QED BY <1>0, <2>1, <2>5, <3>1, <3>2, WriterMoves
    <2>7. th'[t].pc # "historical"
        BY <2>5
    <2> QED BY <1>1, <2>1, <2>4, <2>6, <2>7
<1>3. CASE Reader(t)
    <2>1. t \notin cfg.writers /\ UNCHANGED <<history, clock, plan, tree, next, expired, reserved>>
        BY <1>3 DEF Reader, FreshScan, FreshRangeScan, PhaseInv, Phase, planVars, indexVars, keyVars
    <2>2. CASE th' = th
        <3>1. \A u \in cfg.writers : WriterAt(u)'
            BY <1>0, <2>1, <2>2, WriterStays DEF WindowInv
        <3> QED BY <1>0, <2>1, <2>2, <3>1, WindowFrame
    <2>3. CASE Only(t, [th[t] EXCEPT !.pc = "done"])
        <3>1. th'[t].pc = "done"
            BY <1>0, <2>3 DEF Only, ThreadState
        <3> QED BY <1>1, <2>1, <2>3, <3>1
    <2>4. CASE Only(t, [th[t] EXCEPT !.pc = "scan", !.lo = expired])
        <3>1. th'[t].pc = "scan"
            BY <1>0, <2>4 DEF Only, ThreadState
        <3> QED BY <1>1, <2>1, <2>4, <3>1
    <2>5. CASE Only(t, [th[t] EXCEPT !.pc = "read", !.lo = 0])
        <3>1. th'[t].pc = "read"
            BY <1>0, <2>5 DEF Only, ThreadState
        <3> QED BY <1>1, <2>1, <2>5, <3>1
    <2> QED BY <1>3, <2>2, <2>3, <2>4, <2>5, FreshScanEffect, RangeScanEffect DEF Reader
<1>4. CASE HistoricalScan(t)
    <2>1. UNCHANGED <<history, clock, plan, tree, next, expired, reserved>>
        BY <1>4 DEF HistoricalScan, indexVars, keyVars
    <2>2. CASE Only(t, [th[t] EXCEPT !.pc = "done"])
        <3>1. th'[t].pc = "done"
            BY <1>0, <2>2 DEF Only, ThreadState
        <3>2. WriterAt(t)'
            BY <3>1, WriterRests DEF Idle
        <3> QED BY <1>1, <2>1, <2>2, <3>1, <3>2
    <2>3. CASE Only(t, [th[t] EXCEPT !.pc = "panic"])
        <3>1. th'[t].pc = "panic"
            BY <1>0, <2>3 DEF Only, ThreadState
        <3>2. WriterAt(t)'
            BY <3>1, WriterRests DEF Idle
        <3> QED BY <1>1, <2>1, <2>3, <3>1, <3>2
    <2>4. CASE /\ nextScan \in 1 .. cfg.scans /\ plan[nextScan].version # 0
               /\ Only(t, [th[t] EXCEPT !.pc = "historical", !.scan = nextScan,
                              !.lo = ScanWindow(plan[nextScan].completed).lo,
                              !.hi = ScanWindow(plan[nextScan].completed).hi])
        <3>1. /\ th'[t].pc = "historical" /\ th'[t].scan = nextScan
              /\ th'[t].lo = ScanWindow(plan[nextScan].completed).lo
              /\ th'[t].hi = ScanWindow(plan[nextScan].completed).hi
            BY <1>0, <2>4 DEF Only, ThreadState
        <3>2. WriterAt(t)'
            BY <3>1, WriterRests DEF Idle
        <3>3. ScanIs(t)'
            BY <1>0, <2>1, <2>4, <3>1, CfgStays DEF ScanIs
        <3> QED BY <1>1, <2>1, <2>4, <3>2, <3>3
    <2> QED BY <1>4, <2>2, <2>3, <2>4, HistoricalEffect
<1>5. CASE ScanAt(t) \/ Finish(t)
    <2>1. UNCHANGED <<history, clock, plan, tree, next, expired, reserved>>
        BY <1>5 DEF ScanAt, Finish, planVars, indexVars, keyVars
    <2>2. PICK from \in {"historical", "finish"}, to \in {"next", "done"} : Goto(t, from, to)
        BY <1>5 DEF ScanAt, Finish
    <2>3. to \in Pcs
        BY DEF Pcs
    <2>4. Only(t, [th[t] EXCEPT !.pc = to])
        BY <2>2, <2>3, Goes
    <2>5. th'[t].pc = to /\ th'[t].pc # "historical"
        BY <1>0, <2>4 DEF Only, ThreadState
    <2>6. WriterAt(t)'
        BY <2>5, WriterRests DEF Idle
    <2> QED BY <1>1, <2>1, <2>4, <2>5, <2>6
<1>6. CASE Writer(t) /\ ~Finish(t)
    <2>1. th[t].pc \in Writing
        BY <1>6 DEF Writer, TakeOperation, ReserveInsert, ReserveDelete, AwaitPublished, SampleLow, SampleLive,
           FreshRandomKey, LiveRandomKey, ApplyInsert, ApplyDelete, ApplyUpdate, MarkInserted, LoadPublished,
           AdvancePublished, Note, Goto, Writing
    <2>2. t \in cfg.writers
        BY <2>1 DEF PhaseInv, Phase
    <2>3. ~FreshRandomKey(t) /\ ~LiveRandomKey(t)
        BY DEF FreshRandomKey, LiveRandomKey
    <2> QED BY <1>6, <2>2, <2>3, WindowTake, WindowChoose, WindowApply, WindowNote DEF Writer
<1> QED BY <1>2, <1>3, <1>4, <1>5, <1>6 DEF Scanner, Writer

LEMMA WindowStep ==
    ASSUME TypeOK, PhaseInv, WindowInv, [Next]_vars
    PROVE  WindowInv'
<1>1. ASSUME cfg' = cfg, UNCHANGED <<history, clock, plan, tree, next, expired, reserved>>,
             \A u \in Threads : th'[u] = th[u] \/ (th'[u].pc \in Idle /\ th'[u].pc # "historical")
      PROVE  WindowInv'
    <2>1. ASSUME cfg.scans > 0, ~cfg.random, NEW u \in cfg.writers PROVE WriterAt(u)'
        <3>1. u \in Threads /\ WriterAt(u)
            BY <2>1, CfgFacts DEF TypeOK, WindowInv
        <3> QED BY <1>1, <3>1, WriterStays, WriterRests
    <2>2. \A s \in Threads : th'[s] = th[s] \/ ScanIs(s)'
        BY <1>1 DEF ScanIs
    <2> QED BY <1>1, <2>1, <2>2, WindowFrame
<1>2. CASE UNCHANGED vars
    <2>1. cfg' = cfg /\ UNCHANGED <<history, clock, plan, tree, next, expired, reserved>> /\ th' = th
        BY <1>2 DEF vars
    <2>2. \A u \in Threads : th'[u] = th[u]
        BY <2>1
    <2> QED BY <1>1, <2>1, <2>2
<1>3. CASE Main
    <2>1. cfg' = cfg /\ UNCHANGED <<history, clock, plan, tree, next, expired, reserved>>
        BY <1>3, MainTyped DEF keyVars, indexVars, planVars
    <2>2. ASSUME NEW u \in Threads, th'[u] # th[u] PROVE th'[u].pc = "next"
        <3>1. JoinReaders
            BY <1>3, <2>2 DEF Main, MainArrives, JoinWriters, JoinScanners
        <3> QED BY <2>2, <3>1 DEF JoinReaders, Start
    <2>3. \A u \in Threads : th'[u] = th[u] \/ (th'[u].pc \in Idle /\ th'[u].pc # "historical")
        BY <2>2 DEF Idle
    <2> QED BY <1>1, <2>1, <2>3
<1> QED BY <1>2, <1>3, WindowThread DEF Next

(* The keys at the version of the c-th commit are those after c operations. *)
LEMMA KeysAtCommit ==
    ASSUME TypeOK, HistoryIs, NEW c \in 1 .. Len(history)
    PROVE  KeysAt(history[c].version) = Window(c)
<1> DEFINE v == history[c].version
           upTo == {n \in DOMAIN history : history[n].version <= v}
<1>1. DOMAIN history = 1 .. Len(history) /\ Len(history) \in Nat
    BY DEF TypeOK
<1>2. \A n \in 1 .. Len(history) : history[n].version \in Nat
    BY HistoryTyped
<1>3. c \in upTo
    <2>1. v <= v
        BY <1>2
    <2> QED BY <1>1, <2>1
<1>4. ASSUME NEW n \in upTo PROVE c >= n
    <2>1. n \in 1 .. Len(history) /\ history[n].version <= v
        BY <1>1
    <2>2. ~(c < n)
        <3>1. c < n => v < history[n].version
            BY <2>1 DEF HistoryIs
        <3> QED BY <1>2, <2>1, <3>1
    <2> QED BY <1>1, <2>1, <2>2
<1>5. Max(upTo) \in upTo /\ \A n \in upTo : Max(upTo) >= n
    <2> HIDE DEF upTo
    <2>1. \E x \in upTo : \A y \in upTo : x >= y
        BY <1>3, <1>4
    <2> QED BY <2>1 DEF Max
<1>6. Max(upTo) = c
    <2>1. \A n \in upTo : n \in Int
        BY <1>1
    <2> HIDE DEF upTo
    <2>2. PICK x \in Int : x = Max(upTo) /\ x >= c /\ c >= x
        BY <1>3, <1>4, <1>5, <2>1
    <2> QED BY <2>2
<1>7. KeysAt(v) = history[Max(upTo)].keys
    <2>1. KeysAt(v) = IF upTo = {} THEN 0 .. cfg.records - 1 ELSE history[Max(upTo)].keys
        BY DEF KeysAt
    <2> HIDE DEF upTo, v
    <2> QED BY <1>3, <2>1
<1> HIDE DEF upTo
<1> QED BY <1>6, <1>7 DEF HistoryIs

(* Every commit comes after the beginning.                                  *)
LEMMA KeysAtStart ==
    ASSUME TypeOK, HistoryIs
    PROVE  KeysAt(0) = 0 .. cfg.records - 1
<1>1. DOMAIN history = 1 .. Len(history)
    BY DEF TypeOK
<1>2. \A n \in 1 .. Len(history) : history[n].version \in Nat /\ 0 < history[n].version
    BY HistoryTyped DEF HistoryIs
<1>3. {n \in DOMAIN history : history[n].version <= 0} = {}
    BY <1>1, <1>2
<1> QED BY <1>3 DEF KeysAt

(* With sliding keys, the keys a historical scan chooses from are those of  *)
(* the version it reads, for any number of records, operations, scans and   *)
(* threads, any mix and block, and whatever versions the index takes        *)
(* between two operations.                                                  *)
THEOREM SpecWindowIsVersion == Spec => []WindowIsVersion
<1>1. Init => WindowInv
    BY InitWindow
<1>2. WorkInv /\ WindowInv /\ [Next]_vars => WindowInv'
    BY WindowStep DEF WorkInv
<1>3. WorkInv /\ WindowInv => WindowIsVersion
    <2> SUFFICES ASSUME WorkInv, WindowInv, NEW s \in Threads, th[s].pc = "historical", ~cfg.random, ~cfg.full
                 PROVE  th[s].lo .. th[s].hi - 1 = KeysAt(VersionRead(th[s].scan))
        BY DEF WindowIsVersion
    <2>1. TypeOK /\ cfg.scans > 0
        BY DEF WorkInv, PhaseInv, Phase
    <2>2. HistoryIs /\ ScanIs(s)
        BY <2>1 DEF WindowInv
    <2>3. PICK n \in 1 .. cfg.scans :
             /\ n = th[s].scan /\ plan[n].version # 0
             /\ th[s].lo = ScanWindow(plan[n].completed).lo /\ th[s].hi = ScanWindow(plan[n].completed).hi
        BY <2>2 DEF ScanIs
    <2>4. CASE cfg.pinned
        <3>1. th[s].lo = 0 /\ th[s].hi = cfg.records
            BY <2>3, <2>4 DEF ScanWindow
        <3>2. KeysAt(VersionRead(th[s].scan)) = 0 .. cfg.records - 1
            BY <2>1, <2>2, <2>4, KeysAtStart DEF VersionRead
        <3> QED BY <3>1, <3>2
    <2>5. CASE ~cfg.pinned
        <3>1. plan[n].completed \in 1 .. Len(history) /\ plan[n].version = history[plan[n].completed].version
            BY <2>2, <2>3 DEF HistoryIs
        <3>2. KeysAt(VersionRead(th[s].scan)) = Window(plan[n].completed)
            BY <2>1, <2>2, <2>3, <2>5, <3>1, KeysAtCommit DEF VersionRead
        <3>3. th[s].lo = Del(plan[n].completed) /\ th[s].hi = cfg.records + Ins(plan[n].completed)
            BY <2>3, <2>5 DEF ScanWindow, Ins, Del
        <3>4. Window(plan[n].completed) = Del(plan[n].completed) .. cfg.records + Ins(plan[n].completed) - 1
            BY DEF Window
        <3>5. cfg.records \in Nat /\ Ins(plan[n].completed) \in Nat
            BY <2>1, CfgFacts, CountsTyped, PlanTyped DEF TypeOK
        <3>6. th[s].hi - 1 = cfg.records + Ins(plan[n].completed) - 1
            BY <3>3, <3>5
        <3> QED BY <3>2, <3>3, <3>4, <3>6
    <2> QED BY <2>4, <2>5
<1> QED BY <1>1, <1>2, <1>3, SpecWorkInv, PTL DEF Spec
=============================================================================
