---------------------------- MODULE MCBPlusTree -----------------------------
(* Instances of BPlusTree: trees that inserts, deletions and earlier splits *)
(* leave, and operations that meet their full and their thin nodes.         *)
EXTENDS BPlusTree

CONSTANTS p1, p2, p3

(* A leaf of live records of version 1, some of them deleted at version 2.  *)
LeafOf(live, dead) ==
    Leaf([k \in live \cup dead |-> IF k \in live THEN {<<1, TRUE>>} ELSE {<<1, TRUE>>, <<2, FALSE>>}])
L(live) == LeafOf(live, {})

Do(op, k)      == [op |-> op, key |-> k, hi |-> k]
Scan(lo, hi)   == [op |-> "range", key |-> lo, hi |-> hi]
Insert(k)      == Do("insert", k)
Everything     == Scan(0, MaxKey)

Case(nodes, gc, serial, a, b, c) ==
    [nodes |-> nodes, top |-> 1, clock |-> 3, gc |-> gc, serial |-> serial,
     work |-> [p \in Procs |-> CASE p = p1 -> a [] p = p2 -> b [] OTHER -> c]]

Alone(nodes, gc, a) == Case(nodes, gc, TRUE, a, <<>>, <<>>)

(* Five leaves; the second is full.                                         *)
FullLeaf == <<Directory(<<4, 16, 20, 24>>, <<2, 3, 4, 5, 6>>),
              L({1, 2, 3}), L({4, 5, 7, 8, 10, 11, 12, 14}), L({16, 17, 18}), L({20, 21, 22}), L({24, 25, 26})>>
ThreeLeaves == <<Directory(<<4, 8>>, <<2, 3, 4>>), L({0, 1, 3}), LeafOf({4, 6}, {5, 7}), L({8, 9, 10})>>
FullRoot    == <<LeafOf({1, 3, 5, 7, 9}, {2, 4, 6})>>
ThinLeaves(n) == <<Directory(<<8, 16>>, <<2, 3, 4>>),
                   L(IF n = 1 THEN {1, 2} ELSE {1, 2, 3}), L(8 .. 10), L(IF n = 3 THEN {16, 18} ELSE {16, 18, 19})>>

(* Directories of three leaves; the i-th has lost its last one.             *)
Dirs(i, many) ==
    LET kids(d) == [j \in 1 .. (IF d = i THEN 2 ELSE 3) |-> 1 + many + 3 * (d - 1) + j]
        keys(d) == [j \in 1 .. (IF d = i THEN 1 ELSE 2) |-> 12 * (d - 1) + 4 * j]
    IN  <<Directory([j \in 1 .. many - 1 |-> 12 * j], [j \in 1 .. many |-> 1 + j])>>
        \o [d \in 1 .. many |-> Directory(keys(d), kids(d))]
        \o [j \in 1 .. 3 * many |-> L(IF j = 3 * i THEN {} ELSE 4 * (j - 1) .. 4 * (j - 1) + 2)]

(* Two and three inserts that meet at a full leaf below a root that fills.  *)
Inserts == {Case(FullLeaf, FALSE, FALSE, <<Insert(6)>>, <<Insert(13)>>, <<Insert(15)>>),
            Case(FullLeaf, FALSE, FALSE, <<Insert(6), Insert(2)>>, <<Insert(13), Insert(9)>>, <<>>)}

(* Updates, deletions and queries while no node splits.                     *)
Appends == {Case(ThreeLeaves, FALSE, FALSE, <<Do("update", 4), Do("delete", 6)>>, <<Insert(2), Do("update", 8)>>, <<Everything>>),
            Case(ThreeLeaves, FALSE, FALSE, <<Do("update", 4), Do("update", 4)>>, <<Do("delete", 4)>>, <<Do("point", 4)>>)}

(* One operation at a time: everything else.                                *)
Sequences == {
    Alone(FullRoot, FALSE, <<Insert(8), Do("point", 8), Insert(4), Do("popMin", 0), Do("peekMin", 0), Do("popMax", 0), Do("peekMax", 0), Everything>>),
    Alone(FullRoot, TRUE, <<Insert(8), Insert(2), Do("popMax", 0), Do("popMax", 0), Everything, Do("point", 2)>>),
    Alone(ThinLeaves(1), TRUE, <<Insert(3), Insert(11), Insert(12), Everything>>),
    Alone(ThinLeaves(3), TRUE, <<Insert(20), Everything>>),
    Alone(<<Directory(<<8>>, <<2, 3>>), L({1, 2}), L(8 .. 10)>>, TRUE,
          <<Insert(3), Insert(11), Insert(4), Insert(12), Do("update", 10), Everything>>),
    Alone(<<Directory(<<8>>, <<2, 3>>), L({1, 2}), L(8 .. 14)>>, TRUE, <<Insert(3), Do("delete", 8), Everything>>),
    Alone(Dirs(1, 3), TRUE, <<Insert(3), Everything>>),
    Alone(Dirs(2, 3), TRUE, <<Insert(15), Do("update", 14), Everything>>),
    Alone(Dirs(3, 3), TRUE, <<Insert(27), Everything>>),
    Alone(Dirs(1, 2), TRUE, <<Insert(3), Do("delete", 4), Everything>>)}

(* Point queries beside an insert into their leaf and beside a split of it; *)
(* an update and a deletion beside a split of their leaf.                   *)
Moving == {Case(ThreeLeaves, FALSE, FALSE, <<Insert(2)>>, <<Do("point", 3)>>, <<Do("update", 3)>>),
           Case(FullLeaf, FALSE, FALSE, <<Insert(6)>>, <<Do("point", 14)>>, <<>>),
           Case(FullLeaf, FALSE, FALSE, <<Insert(6)>>, <<Do("update", 14)>>, <<Do("delete", 12)>>)}

AllCases == Inserts \cup Appends \cup Moving \cup Sequences
=============================================================================
