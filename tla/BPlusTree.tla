----------------------------- MODULE BPlusTree ------------------------------
(***************************************************************************)
(* The baseline B+-tree with version lists (dexa), under the locking        *)
(* strategy its two benchmarks use, OLC: every node has a version latch,    *)
(* readers and descending writers validate versions, an insert latches its  *)
(* leaf by compare-and-swap, and an update, a deletion or a range scan      *)
(* pins it, which keeps writers out and readers in.                         *)
(*                                                                          *)
(* A record's version list is here the set of the <<version, live>> it      *)
(* holds; VersionLists is about the lists themselves.                       *)
(***************************************************************************)
EXTENDS Integers, Sequences, FiniteSets, SequencesExt, FiniteSetsExt

CONSTANTS
    Procs,          \* the threads
    Setups,         \* [nodes, top, clock, gc, serial, work]: a tree, whether leaves drop dead
                    \* records when they split, whether one operation runs at a time, and the
                    \* operations of each thread
    FAN_OUT, NUM_RECORDS,
    MaxKey,         \* max_key, at which inc_key saturates; min_key is 0
    MaxVersion      \* bound of the model: the version of a directory up to which an
                    \* insert latches it in vain, because the child is pinned

VARIABLES
    setup,      \* the member of Setups that this behaviour is about
    cells,      \* every cell: [ver, flag, node]
    root,       \* root.block
    limbo,      \* keys of the records that a leaf split has dropped
    clock,      \* the next version
    pr, todo,   \* the threads, and what each has left to do
    book        \* history: for each key the <<version, live>> written

vars == <<setup, cells, root, limbo, clock, pr, todo, book>>

Keys == 0 .. MaxKey
Inc(k) == IF k = MaxKey THEN MaxKey ELSE k + 1
Dec(k) == IF k = 0 THEN 0 ELSE k - 1
None == "none"

AppendOps == {"update", "delete", "popMin", "popMax"}
WriteOps  == AppendOps \cup {"insert"}
PointOps  == {"point", "peekMin", "peekMax"}

-----------------------------------------------------------------------------
(* Nodes.  A leaf maps the keys of its records to their lists; a directory  *)
(* has one child more than keys, and none while it has no key.              *)

Leaf(h) == [leaf |-> TRUE, hist |-> h, keys |-> <<>>, kids |-> <<>>]

Directory(keys, kids) ==
    [leaf |-> FALSE, hist |-> <<>>, keys |-> keys,
     kids |-> IF keys = <<>> THEN <<>> ELSE SubSeq(kids, 1, Min({Len(keys) + 1, Len(kids)}))]

NodeLen(n) == IF n.leaf THEN Cardinality(DOMAIN n.hist) ELSE Len(n.keys)

(* Mutant: a node is split one entry too late.                              *)
HasOverflow_Late(n) ==
    IF n.leaf THEN NodeLen(n) > NUM_RECORDS ELSE NodeLen(n) >= FAN_OUT - 2

HasOverflow(n) ==
    IF n.leaf THEN NodeLen(n) >= NUM_RECORDS ELSE NodeLen(n) >= FAN_OUT - 2

HasUnderflow(n) ==
    NodeLen(n) < (IF n.leaf THEN NUM_RECORDS ELSE FAN_OUT - 1) \div 2 - 1

(* Mutant: a key equal to a separator goes left of it.                      *)
ChildPos_Exclusive(n, k) == 1 + Cardinality({i \in DOMAIN n.keys : n.keys[i] < k})

(* The child for a key, from the binary search of the key after it.         *)
ChildPos(n, k) == 1 + Cardinality({i \in DOMAIN n.keys : n.keys[i] < Inc(k)})

Newest(list)  == Max({e[1] : e \in list})
IsLive(list)  == <<Newest(list), TRUE>> \in list
(* The version of a list that a snapshot sees, 0 for none.                  *)
Find(list, s) ==
    LET old == {e \in list : e[1] <= s}
    IN  IF old # {} /\ IsLive(old) THEN Newest(old) ELSE 0

InOrder(S)    == [i \in 1 .. Cardinality(S) |-> CHOOSE k \in S : Cardinality({j \in S : j < k}) = i - 1]
Only(h, S)    == [k \in DOMAIN h \cap S |-> h[k]]
Join(h, g)    == [k \in DOMAIN h \cup DOMAIN g |-> IF k \in DOMAIN h THEN h[k] ELSE g[k]]

-----------------------------------------------------------------------------
(* Latches *)

Cell(n) == [ver |-> 0, flag |-> "free", node |-> n]

Readable(c) == cells[c].flag \in {"free", "pin"}                    \* read_lock
Valid(g)    == Readable(g.cell) /\ cells[g.cell].ver = g.ver        \* is_read_valid

CanWrite(g) == cells[g.cell].flag = "free" /\ cells[g.cell].ver = g.ver  \* write_lock
CanPin(c)   == cells[c].flag = "free"                               \* pin_lock

Mark(cs, c, f) == [cs EXCEPT ![c].flag = f]
Unlock(cs, c)  == [cs EXCEPT ![c].flag = "free", ![c].ver = @ + 1]  \* write_unlock
Unpin(cs, c)   == Mark(cs, c, "free")                               \* write_unpin
Put(cs, c, n)  == [cs EXCEPT ![c].node = n]

Guard(c) == [cell |-> c, ver |-> cells[c].ver]

-----------------------------------------------------------------------------
(* Splits *)

(* split_type and the filter: with few dead records a leaf that splits      *)
(* drops them, whoever may still read them.                                 *)
Dead(n) == {k \in DOMAIN n.hist : ~ IsLive(n.hist[k])}
SplitAndFilter(n) == setup.gc /\ Cardinality(Dead(n)) < (2 * NUM_RECORDS + 4) \div 5
Dropped(n) == IF n.leaf /\ SplitAndFilter(n) THEN Dead(n) ELSE {}

(* Mutant: the separator is the last key of the left half.                  *)
LeafHalves_LastOfLeft(n) ==
    LET ks  == InOrder(DOMAIN n.hist \ Dropped(n))
        mid == Len(ks) \div 2
    IN  [left  |-> Leaf(Only(n.hist, Range(SubSeq(ks, 1, mid)))),
         right |-> Leaf(Only(n.hist, Range(SubSeq(ks, mid + 1, Len(ks))))),
         key   |-> ks[mid]]

(* The two halves of a node and the separator between them.                 *)
LeafHalves(n) ==
    LET ks  == InOrder(DOMAIN n.hist \ Dropped(n))
        mid == Len(ks) \div 2
    IN  [left  |-> Leaf(Only(n.hist, Range(SubSeq(ks, 1, mid)))),
         right |-> Leaf(Only(n.hist, Range(SubSeq(ks, mid + 1, Len(ks))))),
         key   |-> ks[mid + 1]]

DirectoryHalves(n) ==
    LET mid == Len(n.keys) \div 2
    IN  [left  |-> Directory(SubSeq(n.keys, 1, mid), SubSeq(n.kids, 1, mid + 1)),
         right |-> Directory(SubSeq(n.keys, mid + 2, Len(n.keys)), SubSeq(n.kids, mid + 2, Len(n.kids))),
         key   |-> n.keys[mid + 1]]

Halves(n) == IF n.leaf THEN LeafHalves(n) ELSE DirectoryHalves(n)

(* do_overflow_correction: the child keeps its left half.                   *)
OverflowCorrection(p, c, i) ==
    LET h == Halves(cells[c].node)
        n == cells[p].node
        r == Len(cells) + 1
    IN  Put(Put(Append(Unlock(cells, c), Cell(h.right)), c, h.left),
            p, Directory(InsertAt(n.keys, i, h.key), InsertAt(n.kids, i + 1, r)))

-----------------------------------------------------------------------------
(* do_underflow_correction of the i-th child of a latched directory *)

(* The sibling it is joined with: the next one, for the last one the one    *)
(* before.                                                                  *)
Sibling(n, i) == IF i < Len(n.kids) THEN i + 1 ELSE i - 1

(* The upper bound of a child; that of the last one is the fence.           *)
KeyAbove(n, i, fence) == IF i <= Len(n.keys) THEN n.keys[i] ELSE fence

Swap(n, i, j, keys, l, r) ==        \* two children replaced by two others
    Directory(keys, [n.kids EXCEPT ![i] = l, ![j] = r])

(* merge_by and split of two leaves, and one leaf of the two.               *)
LeavesSplit(n, lo, hi, h) ==
    LET ks  == InOrder(DOMAIN h)
        mid == Len(ks) \div 2
        top == Len(cells)
    IN  [new    |-> <<Leaf(Only(h, Range(SubSeq(ks, 1, mid)))),
                      Leaf(Only(h, Range(SubSeq(ks, mid + 1, Len(ks)))))>>,
         parent |-> Swap(n, lo, hi, [n.keys EXCEPT ![lo] = ks[mid + 1]], top + 1, top + 2)]

LeavesMerged(n, lo, hi, h) ==
    [new    |-> <<Leaf(h)>>,
     parent |-> Directory(RemoveAt(n.keys, lo), RemoveAt([n.kids EXCEPT ![lo] = Len(cells) + 1], hi))]

DirectoriesCombined(n, lo, hi, a, b, key) ==
    [new    |-> <<Directory(a.keys \o <<key>> \o b.keys, a.kids \o b.kids)>>,
     parent |-> Directory(RemoveAt(n.keys, lo), RemoveAt([n.kids EXCEPT ![lo] = Len(cells) + 1], hi))]

(* The separator of the two is not among the joined keys, and the new one   *)
(* is written behind the right one of them.                                 *)
DirectoriesSplit(n, lo, hi, a, b) ==
    LET keys == a.keys \o b.keys
        kids == a.kids \o b.kids
        mid  == Len(keys) \div 2
        top  == Len(cells)
    IN  [new    |-> <<Directory(SubSeq(keys, 1, mid), SubSeq(kids, 1, mid + 1)),
                      Directory(SubSeq(keys, mid + 2, Len(keys)), SubSeq(kids, mid + 2, Len(kids)))>>,
         parent |-> Swap(n, lo, hi, [k \in DOMAIN n.keys |-> IF k = hi THEN keys[mid + 1] ELSE n.keys[k]],
                         top + 1, top + 2)]

(* merge: the children become one node, in the parent's own cell.  Of the   *)
(* separators only the one above the child that underflowed is kept.        *)
MergedIntoParent(i, a, b, key) ==
    [new    |-> <<>>,
     parent |-> IF a.leaf THEN Leaf(Join(a.hist, b.hist))
                ELSE Directory(a.keys \o (IF i = 1 THEN <<key>> ELSE <<>>) \o b.keys, a.kids \o b.kids)]

Joined(n, i, fence) ==
    LET j    == Sibling(n, i)
        lo   == IF i < j THEN i ELSE j
        hi   == IF i < j THEN j ELSE i
        a    == cells[n.kids[lo]].node
        b    == cells[n.kids[hi]].node
        h    == Join(a.hist, b.hist)
        size == NodeLen(a) + NodeLen(b)
    IN  IF Len(n.keys) = 1 /\ (~ a.leaf \/ size < NUM_RECORDS)
        THEN MergedIntoParent(i, a, b, KeyAbove(n, i, fence))
        ELSE IF a.leaf
        THEN IF size < NUM_RECORDS THEN LeavesMerged(n, lo, hi, h) ELSE LeavesSplit(n, lo, hi, h)
        ELSE IF size < FAN_OUT - 1
        THEN DirectoriesCombined(n, lo, hi, a, b, KeyAbove(n, lo, fence))
        ELSE DirectoriesSplit(n, lo, hi, a, b)

UnderflowCorrection(p, i, fence) ==
    LET n == cells[p].node
        r == Joined(n, i, fence)
    IN  Put(Unlock(Unlock(cells, n.kids[i]), n.kids[Sibling(n, i)]), p, r.parent)
        \o [k \in DOMAIN r.new |-> Cell(r.new[k])]

-----------------------------------------------------------------------------
(* Threads *)

Task(p) == Head(todo[p])

Start == [pc |-> "idle", op |-> None, key |-> 0, hi |-> 0,
          cell |-> 0, ver |-> 0, own |-> FALSE,     \* the current node: its guard, or the latch on it
          pos |-> 0, kid |-> 0, kver |-> 0,         \* the child that the descent has chosen
          fence |-> MaxKey, at |-> 0, ok |-> FALSE, \* the fence above; a write's version and result
          snap |-> 0, path |-> <<>>, page |-> <<>>, out |-> {},  \* a query's
          moved |-> FALSE]                          \* history: the records moved under a query

InFlight == {pr[p].at : p \in {q \in Procs : pr[q].pc \in {"apply", "end"}}}
Settled  == {s \in 1 .. clock - 1 : \A v \in InFlight : s < v}

(* The key that an operation descends to.                                   *)
Target(t) == CASE t.op \in {"popMin", "peekMin"} -> 0
               [] t.op \in {"popMax", "peekMax"} -> MaxKey
               [] OTHER -> t.key

Init ==
    /\ setup \in Setups
    /\ cells = [c \in DOMAIN setup.nodes |-> Cell(setup.nodes[c])]
    /\ root = setup.top
    /\ limbo = {}
    /\ clock = setup.clock
    /\ pr = [p \in Procs |-> Start]
    /\ todo = setup.work
    /\ book = [k \in Keys |-> UNION {IF k \in DOMAIN n.hist THEN n.hist[k] ELSE {} :
                                        n \in {x \in Range(setup.nodes) : x.leaf}}]

(* dispatch.  A query runs at a snapshot that is settled, with gc at the    *)
(* newest one.                                                              *)
Dispatch(p) ==
    LET t == Task(p) IN
    /\ pr[p].pc = "idle" /\ todo[p] # <<>>
    /\ setup.serial => \A q \in Procs : pr[q].pc = "idle"
    /\ \E s \in IF t.op \in WriteOps THEN {0} ELSE IF setup.gc THEN {Max(Settled)} ELSE Settled :
          pr' = [pr EXCEPT ![p] = [Start EXCEPT !.pc = "root", !.op = t.op, !.key = Target(t),
                                                !.hi = t.hi, !.snap = s]]
    /\ UNCHANGED <<setup, cells, root, limbo, clock, todo, book>>

(* The pointer to the root is read, and the latch it points to after that.  *)
LoadRoot(p) ==
    /\ pr[p].pc = "root"
    /\ pr' = [pr EXCEPT ![p].pc = "latchRoot", ![p].cell = root]
    /\ UNCHANGED <<setup, cells, root, limbo, clock, todo, book>>

Goto(p, pc) == [pr EXCEPT ![p].pc = pc]
Hold(p, g, pc) == [pr EXCEPT ![p].pc = pc, ![p].cell = g.cell, ![p].ver = g.ver, ![p].own = FALSE]

(* Every operation starts over when a validation fails, giving up what it   *)
(* has latched.                                                             *)
Restart(p) == [pr EXCEPT ![p] = [@ EXCEPT !.pc = "root", !.own = FALSE, !.fence = MaxKey, !.path = <<>>]]
Released(p) == IF pr[p].own THEN Unlock(cells, pr[p].cell) ELSE cells

Retry(p) ==
    /\ cells' = Released(p)
    /\ pr' = Restart(p)
    /\ UNCHANGED <<setup, root, limbo, clock, todo, book>>

Stay(p, nextpr) ==
    /\ pr' = nextpr
    /\ UNCHANGED <<setup, cells, root, limbo, clock, todo, book>>

(* retrieve_root_internal *)
LatchRoot(p) ==
    LET c == pr[p].cell IN
    /\ pr[p].pc = "latchRoot" /\ pr[p].op \in WriteOps
    /\ IF ~ Readable(c) THEN Retry(p)
       ELSE Stay(p, Hold(p, Guard(c), IF HasOverflow(cells[c].node) THEN "rootFull" ELSE "node"))

LatchFullRoot(p) ==
    /\ pr[p].pc = "rootFull"
    /\ IF ~ CanWrite(pr[p]) THEN Retry(p)
       ELSE /\ cells' = Mark(cells, pr[p].cell, "write")
            /\ pr' = [pr EXCEPT ![p].pc = "splitRoot", ![p].own = TRUE]
            /\ UNCHANGED <<setup, root, limbo, clock, todo, book>>

(* A directory root keeps its cell and gets two children.                   *)
SplitRootDirectory(p) ==
    LET c == pr[p].cell
        h == DirectoryHalves(cells[c].node)
        t == Len(cells)
    IN  /\ pr[p].pc = "splitRoot" /\ ~ cells[c].node.leaf
        /\ cells' = Put(cells, c, Directory(<<h.key>>, <<t + 1, t + 2>>)) \o <<Cell(h.left), Cell(h.right)>>
        /\ pr' = Goto(p, "node")
        /\ UNCHANGED <<setup, root, limbo, clock, todo, book>>

(* A leaf root becomes the left child of a new root, and the descent starts *)
(* over.                                                                    *)
SplitRootLeaf(p) ==
    LET c == pr[p].cell
        h == LeafHalves(cells[c].node)
        t == Len(cells)
    IN  /\ pr[p].pc = "splitRoot" /\ cells[c].node.leaf
        /\ cells' = Unlock(Put(cells, c, h.left), c) \o <<Cell(h.right), Cell(Directory(<<h.key>>, <<c, t + 1>>))>>
        /\ root' = t + 2
        /\ limbo' = limbo \cup Dropped(cells[c].node)
        /\ pr' = Restart(p)
        /\ UNCHANGED <<setup, clock, todo, book>>

-----------------------------------------------------------------------------
(* traversal_write_olc_internal *)

Current(p) == cells[pr[p].cell].node
Child(p)   == cells[pr[p].kid].node
OnCurrent(p) == pr[p].own \/ Valid(pr[p])

ChooseChild(p) ==
    LET i == ChildPos(Current(p), pr[p].key) IN
    /\ pr[p].pc = "node" /\ pr[p].op \in WriteOps
    /\ IF ~ OnCurrent(p) THEN Retry(p)
       ELSE IF Current(p).leaf THEN Stay(p, Goto(p, "leaf"))
       ELSE Stay(p, [pr EXCEPT ![p].pc = "child", ![p].pos = i, ![p].kid = Current(p).kids[i]])

(* Only an insert repairs the nodes that it meets.                          *)
Unsafe(p) == pr[p].op = "insert" /\ (HasOverflow(Child(p)) \/ HasUnderflow(Child(p)))

(* Mutant: versions are not compared.                                       *)
StillValid_Unchecked(p) == TRUE

StillValid(p) == OnCurrent(p)

BorrowChild(p) ==
    LET k == pr[p].kid IN
    /\ pr[p].pc = "child" /\ pr[p].op \in WriteOps
    /\ IF ~ Readable(k) \/ ~ StillValid(p) THEN Retry(p)
       ELSE IF Unsafe(p) THEN Stay(p, [pr EXCEPT ![p].pc = "unsafe", ![p].kver = cells[k].ver])
       ELSE /\ cells' = Released(p)
            /\ pr' = [Hold(p, Guard(k), "node") EXCEPT
                        ![p].fence = IF pr[p].pos <= Len(Current(p).keys) THEN Current(p).keys[pr[p].pos] ELSE @]
            /\ UNCHANGED <<setup, root, limbo, clock, todo, book>>

LatchParent(p) ==
    /\ pr[p].pc = "unsafe" /\ (cells[pr[p].cell].ver < MaxVersion \/ cells[pr[p].kid].flag = "free")
    /\ IF ~ pr[p].own /\ ~ CanWrite(pr[p]) THEN Retry(p)
       ELSE /\ cells' = Mark(cells, pr[p].cell, "write")
            /\ pr' = [pr EXCEPT ![p].pc = "unsafeChild", ![p].own = TRUE]
            /\ UNCHANGED <<setup, root, limbo, clock, todo, book>>

LatchChild(p) ==
    /\ pr[p].pc = "unsafeChild"
    /\ IF ~ CanWrite([cell |-> pr[p].kid, ver |-> pr[p].kver]) THEN Retry(p)
       ELSE /\ cells' = Mark(cells, pr[p].kid, "write")
            /\ pr' = Goto(p, "repair")
            /\ UNCHANGED <<setup, root, limbo, clock, todo, book>>

SplitChild(p) ==
    /\ pr[p].pc = "repair" /\ HasOverflow(Child(p))
    /\ cells' = OverflowCorrection(pr[p].cell, pr[p].kid, pr[p].pos)
    /\ limbo' = limbo \cup Dropped(Child(p))
    /\ pr' = Goto(p, "node")
    /\ UNCHANGED <<setup, root, clock, todo, book>>

(* The sibling is latched as it is, or the repair given up.  Only the root  *)
(* may become one with its children.                                        *)
JoinChild(p) ==
    LET n == Current(p)
        s == n.kids[Sibling(n, pr[p].pos)]
    IN  /\ pr[p].pc = "repair" /\ ~ HasOverflow(Child(p))
        /\ IF cells[s].flag # "free"
           THEN /\ cells' = Unlock(Unlock(cells, pr[p].kid), pr[p].cell)
                /\ pr' = Restart(p)
           ELSE /\ cells' = UnderflowCorrection(pr[p].cell, pr[p].pos, pr[p].fence)
                /\ pr' = Goto(p, IF Joined(n, pr[p].pos, pr[p].fence).new = <<>> /\ pr[p].cell # root
                                 THEN "unreachable" ELSE "node")
        /\ UNCHANGED <<setup, root, limbo, clock, todo, book>>

(* An insert latches the version of the leaf it has seen; the others pin    *)
(* the leaf as it is now.                                                   *)
LatchLeaf(p) ==
    LET append == pr[p].op \in AppendOps IN
    /\ pr[p].pc = "leaf" /\ pr[p].op \in WriteOps
    /\ IF pr[p].own THEN Stay(p, Goto(p, "latched"))
       ELSE IF ~ (IF append THEN CanPin(pr[p].cell) ELSE CanWrite(pr[p])) THEN Retry(p)
       ELSE /\ cells' = Mark(cells, pr[p].cell, IF append THEN "pin" ELSE "write")
            /\ pr' = [pr EXCEPT ![p].pc = "latched", ![p].own = TRUE]
            /\ UNCHANGED <<setup, root, limbo, clock, todo, book>>

-----------------------------------------------------------------------------
(* The operations on the latched leaf *)

(* pop takes the first or the last record, and fails when that is dead.     *)
PopKey(p) ==
    LET ks == DOMAIN Current(p).hist
    IN  IF pr[p].op = "popMin" THEN Min(ks) ELSE Max(ks)

Pops(p) == pr[p].op \in {"popMin", "popMax"}
NothingToPop(p) == DOMAIN Current(p).hist = {} \/ ~ IsLive(Current(p).hist[PopKey(p)])

DrawVersion(p) ==
    /\ pr[p].pc = "latched" /\ ~ (Pops(p) /\ NothingToPop(p))
    /\ pr' = [pr EXCEPT ![p].pc = "apply", ![p].at = clock, ![p].key = IF Pops(p) THEN PopKey(p) ELSE @]
    /\ clock' = clock + 1
    /\ UNCHANGED <<setup, cells, root, limbo, todo, book>>

PopNothing(p) ==
    /\ pr[p].pc = "latched" /\ Pops(p) /\ NothingToPop(p)
    /\ pr' = [pr EXCEPT ![p].pc = "end", ![p].at = clock]
    /\ UNCHANGED <<setup, cells, root, limbo, clock, todo, book>>

(* push_record_point, update_record_point, delete_key and a pop's delete.   *)
Present(p) == pr[p].key \in DOMAIN Current(p).hist /\ IsLive(Current(p).hist[pr[p].key])

Write(p, alive) ==
    LET k == pr[p].key
        e == {<<pr[p].at, alive>>}
        h == Current(p).hist
    IN  /\ cells' = Put(cells, pr[p].cell, Leaf(Join([j \in {k} |-> IF k \in DOMAIN h THEN h[k] \cup e ELSE e], h)))
        /\ book' = [book EXCEPT ![k] = @ \cup e]
        /\ pr' = [pr EXCEPT ![p].pc = "end", ![p].ok = TRUE]
        /\ UNCHANGED <<setup, root, limbo, clock, todo>>

PushRecord(p) == pr[p].pc = "apply" /\ pr[p].op = "insert" /\ Write(p, TRUE)
UpdateRecord(p) == pr[p].pc = "apply" /\ pr[p].op = "update" /\ Present(p) /\ Write(p, TRUE)
DeleteKey(p) == pr[p].pc = "apply" /\ pr[p].op \in {"delete", "popMin", "popMax"} /\ Present(p) /\ Write(p, FALSE)

ZeroAffected(p) ==
    /\ pr[p].pc = "apply" /\ pr[p].op \in AppendOps /\ ~ Present(p)
    /\ pr' = Goto(p, "end")
    /\ UNCHANGED <<setup, cells, root, limbo, clock, todo, book>>

(* Mutant: the latch is never given up.                                     *)
Finish_Unlatched(p) == cells

(* The version ends and the guard is dropped.                               *)
Finish(p) == IF pr[p].op = "insert" THEN Unlock(cells, pr[p].cell) ELSE Unpin(cells, pr[p].cell)

EndWrite(p) ==
    /\ pr[p].pc = "end"
    /\ cells' = Finish(p)
    /\ pr' = [pr EXCEPT ![p] = Start]
    /\ todo' = [todo EXCEPT ![p] = Tail(@)]
    /\ UNCHANGED <<setup, root, limbo, clock, book>>

-----------------------------------------------------------------------------
(* Point queries: traversal_read_olc.  A node is validated when it has been *)
(* read, but not again after the latch of the child has been.               *)

ReadRoot(p) ==
    /\ pr[p].pc = "latchRoot" /\ pr[p].op \in PointOps
    /\ IF ~ Readable(pr[p].cell) THEN Retry(p) ELSE Stay(p, Hold(p, Guard(pr[p].cell), "node"))

ReadNode(p) ==
    LET n == Current(p) IN
    /\ pr[p].pc = "node" /\ pr[p].op \in PointOps
    /\ IF ~ Readable(pr[p].cell) THEN Retry(p)
       ELSE IF n.leaf THEN Stay(p, Goto(p, "leaf"))
       ELSE Stay(p, [pr EXCEPT ![p].pc = "child", ![p].kid = n.kids[ChildPos(n, pr[p].key)]])

ReadChild(p) ==
    /\ pr[p].pc = "child" /\ pr[p].op \in PointOps
    /\ IF ~ Readable(pr[p].kid) THEN Retry(p) ELSE Stay(p, Hold(p, Guard(pr[p].kid), "node"))

(* The leaf is validated before its records are searched, not after.        *)
CheckLeaf(p) ==
    /\ pr[p].pc = "leaf" /\ pr[p].op \in PointOps
    /\ IF ~ Valid(pr[p]) THEN Retry(p)
       ELSE Stay(p, [pr EXCEPT ![p].pc = "search", ![p].page = Current(p).hist])

FindIn(h, k, s) == IF k \in DOMAIN h /\ Find(h[k], s) # 0 THEN {<<k, Find(h[k], s)>>} ELSE {}

Peek(h, k) == IF IsLive(h[k]) THEN {<<k, Newest(h[k])>>} ELSE {}

FirstOrLast(p) ==
    LET h == pr[p].page IN
    IF DOMAIN h = {} THEN {}
    ELSE IF pr[p].op = "peekMin" THEN Peek(h, Min(DOMAIN h)) ELSE Peek(h, Max(DOMAIN h))

(* Records that move during the search: the key may be missed, or the       *)
(* position found may be another record's by the time its list is read.     *)
Misread(p) ==
    LET h == Current(p).hist
    IN  {{}} \cup IF pr[p].op = "point" THEN {{<<pr[p].key, a[2]>> : a \in FindIn(h, j, pr[p].snap)} : j \in DOMAIN h}
                 ELSE {}

(* The leaf where the tree keeps a key now.                                 *)
LeafFor(k) ==
    LET down[d \in 0 .. 3] ==
            IF d = 0 THEN root
            ELSE IF cells[down[d - 1]].node.leaf THEN down[d - 1]
            ELSE cells[down[d - 1]].node.kids[ChildPos(cells[down[d - 1]].node, k)]
    IN  down[3]

Search(p) ==
    LET h     == pr[p].page
        moved == DOMAIN h # DOMAIN Current(p).hist
        found == IF pr[p].op = "point" THEN FindIn(h, pr[p].key, pr[p].snap) ELSE FirstOrLast(p)
    IN  /\ pr[p].pc = "search"
        /\ \E a \in {found} \cup (IF moved THEN Misread(p) ELSE {}) :
              Stay(p, [pr EXCEPT ![p].pc = "answered", ![p].out = a, ![p].page = <<>>,
                                 ![p].moved = moved \/ LeafFor(pr[p].key) # pr[p].cell])

-----------------------------------------------------------------------------
(* Range queries: a path of [lo, hi, cell] from the root, without stale     *)
(* ends, and the next key to look for.                                      *)

Page(lo, hi, c) == [lo |-> lo, hi |-> hi, cell |-> c]

Walk(p, path, pc) == [pr EXCEPT ![p].path = path, ![p].pc = IF path = <<>> THEN "root" ELSE pc]

PathRoot(p) ==
    LET c == pr[p].cell IN
    /\ pr[p].pc = "latchRoot" /\ pr[p].op = "range"
    /\ IF ~ Readable(c) THEN Retry(p) ELSE Stay(p, Walk(p, <<Page(0, MaxKey, c)>>, "next"))

(* The lowest page of the path that covers the key.                         *)
Covering(p) ==
    LET covers == {i \in DOMAIN pr[p].path : pr[p].path[i].lo <= pr[p].key /\ pr[p].key <= pr[p].path[i].hi}
    IN  SubSeq(pr[p].path, 1, Max(covers))

(* Mutant: the page reaches up to its separator, not below it.              *)
PageUpper_Separator(n, i, hi) == IF i <= Len(n.keys) THEN n.keys[i] ELSE hi

PageUpper(n, i, hi) == IF i <= Len(n.keys) THEN Dec(n.keys[i]) ELSE hi
PageLower(n, i, lo) == IF i > 1 THEN n.keys[i - 1] ELSE lo

(* next_leaf_page *)
NextPage(p) ==
    LET path == Covering(p)
        at   == Last(path)
        n    == cells[at.cell].node
        i    == ChildPos(n, pr[p].key)
    IN  /\ pr[p].pc = "next"
        /\ IF ~ Readable(at.cell) THEN Stay(p, Walk(p, Front(path), "next"))
           ELSE IF n.leaf THEN Stay(p, Walk(p, path, "pin"))
           ELSE Stay(p, Walk(p, Append(path, Page(PageLower(n, i, at.lo), PageUpper(n, i, at.hi), n.kids[i])), "page"))

LatchPage(p) ==
    LET path == pr[p].path IN
    /\ pr[p].pc = "page"
    /\ Stay(p, Walk(p, IF Readable(Last(path).cell) THEN path ELSE Front(path), "next"))

(* range_query_leaf_results pins the leaf as it is now.                     *)
PinPage(p) ==
    LET c == Last(pr[p].path).cell IN
    /\ pr[p].pc = "pin"
    /\ IF ~ CanPin(c) THEN Stay(p, Walk(p, Front(pr[p].path), "next"))
       ELSE /\ cells' = Mark(cells, c, "pin")
            /\ pr' = [pr EXCEPT ![p].pc = "copy", ![p].cell = c, ![p].own = TRUE]
            /\ UNCHANGED <<setup, root, limbo, clock, todo, book>>

CopyPage(p) ==
    LET at   == Last(pr[p].path)
        h    == cells[at.cell].node.hist
        next == Inc(at.hi)
        done == at.hi = MaxKey \/ next > pr[p].hi
        got  == UNION {FindIn(h, k, pr[p].snap) : k \in {j \in DOMAIN h : pr[p].key <= j /\ j <= pr[p].hi}}
    IN  /\ pr[p].pc = "copy"
        /\ cells' = Unpin(cells, at.cell)
        /\ pr' = [Walk(p, Front(pr[p].path), "next") EXCEPT
                    ![p].own = FALSE, ![p].out = @ \cup got, ![p].key = next,
                    ![p].pc = IF done THEN "answered" ELSE @]
        /\ UNCHANGED <<setup, root, limbo, clock, todo, book>>

Return(p) ==
    /\ pr[p].pc = "answered"
    /\ pr' = [pr EXCEPT ![p] = Start]
    /\ todo' = [todo EXCEPT ![p] = Tail(@)]
    /\ UNCHANGED <<setup, cells, root, limbo, clock, book>>

-----------------------------------------------------------------------------
Descent(p) ==
    \/ LoadRoot(p) \/ LatchRoot(p) \/ LatchFullRoot(p) \/ SplitRootDirectory(p) \/ SplitRootLeaf(p)
    \/ ChooseChild(p) \/ BorrowChild(p) \/ LatchParent(p) \/ LatchChild(p)
    \/ SplitChild(p) \/ JoinChild(p) \/ LatchLeaf(p)

LeafOperation(p) ==
    \/ DrawVersion(p) \/ PopNothing(p) \/ PushRecord(p) \/ UpdateRecord(p) \/ DeleteKey(p)
    \/ ZeroAffected(p) \/ EndWrite(p)

Query(p) ==
    \/ ReadRoot(p) \/ ReadNode(p) \/ ReadChild(p) \/ CheckLeaf(p) \/ Search(p)
    \/ PathRoot(p) \/ NextPage(p) \/ LatchPage(p) \/ PinPage(p) \/ CopyPage(p) \/ Return(p)

Work(p) == Dispatch(p) \/ Descent(p) \/ LeafOperation(p) \/ Query(p)

(* All work is done: not a deadlock.                                        *)
Done == (\A p \in Procs : todo[p] = <<>>) /\ UNCHANGED vars

Next == (\E p \in Procs : Work(p)) \/ Done

(* Every operation runs on a thread of its own and never blocks.            *)
Spec == Init /\ [][Next]_vars /\ \A p \in Procs : WF_vars(Work(p))

-----------------------------------------------------------------------------
(* Properties *)

(* The cells a search from the root can reach: the root's, and those of     *)
(* the directories' children.                                               *)
Below(S) == S \cup UNION {Range(cells[c].node.kids) : c \in S}
InTree   == Below(Below(Below({root})))

(* Types; a directory has one child more than keys.                         *)
TypeOK ==
    /\ setup \in Setups /\ root \in DOMAIN cells /\ limbo \subseteq Keys /\ clock \in Nat
    /\ \A c \in DOMAIN cells :
          /\ cells[c].flag \in {"free", "pin", "write"} /\ cells[c].ver \in Nat
          /\ LET n == cells[c].node
             IN  n.leaf \/ (Len(n.kids) = Len(n.keys) + 1 /\ \A i \in DOMAIN n.kids : n.kids[i] \in DOMAIN cells)
    /\ \A p \in Procs : pr[p].key \in Keys /\ pr[p].out \subseteq Keys \X (1 .. clock)

Expected(lo, hi, s) == UNION {FindIn(book, k, s) : k \in lo .. hi}
LiveKeys == {k \in Keys : book[k] # {} /\ IsLive(book[k])}

(* A query of dispatch.rs returns what its snapshot holds: a point query or *)
(* a range scan that ended has found exactly the versions that the writes   *)
(* up to its snapshot left.  A point query validates its leaf before the    *)
(* search only, and its directory before it borrows the leaf: it is wrong   *)
(* when an insert or a split moves the records in between, and only then.   *)
(* A peek that finds something finds the end.                               *)
AnswersExact ==
    \A p \in Procs : pr[p].pc = "answered" =>
        CASE pr[p].op = "point" -> pr[p].moved \/ pr[p].out = Expected(Task(p).key, Task(p).key, pr[p].snap)
          [] pr[p].op = "range" -> pr[p].out = Expected(Task(p).key, Task(p).hi, pr[p].snap)
          [] pr[p].op = "peekMin" /\ setup.serial -> \A a \in pr[p].out : a[1] = Min(LiveKeys)
          [] pr[p].op = "peekMax" /\ setup.serial -> \A a \in pr[p].out : a[1] = Max(LiveKeys)
          [] OTHER -> TRUE

(* No split, merge or key split of query.rs loses a record or a version:    *)
(* the descent for a key that was written ends in a leaf with its whole     *)
(* list, unless a leaf split has dropped it when it was dead.               *)
NothingLost ==
    \A k \in Keys : book[k] # {} =>
        LET h == cells[LeafFor(k)].node.hist
        IN  IF k \in DOMAIN h THEN h[k] = book[k] \/ k \in limbo ELSE k \in limbo

(* An update or a deletion reports a record if its key was live when it     *)
(* ran, whatever other writers did to it, unless a split has taken the key  *)
(* to another leaf before the pin, which takes the leaf as it is then; and  *)
(* it never reports one that was not there.                                 *)
OutcomesRight ==
    \A p \in Procs : (pr[p].pc = "end" /\ pr[p].op \in {"update", "delete"}) =>
        LET live == Find(book[pr[p].key], pr[p].at - 1) # 0
        IN  IF pr[p].ok THEN live ELSE live => LeafFor(pr[p].key) # pr[p].cell

(* The separators of a directory are in order and are what divides the      *)
(* records below it: binary searches depend on it.                          *)
SeparatorsDivide ==
    \A c \in InTree : LET n == cells[c].node IN
        /\ \A i, j \in DOMAIN n.keys : i < j => n.keys[i] < n.keys[j]
        /\ \A i \in DOMAIN n.kids : \A k \in DOMAIN cells[n.kids[i]].node.hist : ChildPos(n, k) = i

(* A leaf never gets more records, a directory never more children than its *)
(* arrays hold: push_record_point and insert do not check.                  *)
RoomForAll ==
    \A c \in DOMAIN cells : LET n == cells[c].node IN
        IF n.leaf THEN NodeLen(n) <= NUM_RECORDS ELSE Len(n.kids) <= FAN_OUT

(* Every operation ends, for all the restarts.                              *)
OperationsEnd == <>[](\A p \in Procs : todo[p] = <<>>)
=============================================================================
