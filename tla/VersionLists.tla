---------------------------- MODULE VersionLists ----------------------------
(***************************************************************************)
(* The indexes that find the version of something at a snapshot: the four   *)
(* kinds of version list a record of the baseline tree can have             *)
(* (dexa/mvb_version_index) and the four kinds of root index of the         *)
(* multiversion tree (mv_root).  They are written by one thread at a time   *)
(* per leaf (per tree for a root index) and read without a latch.           *)
(*                                                                          *)
(* All of them are modelled as chains of nodes, newest first.  A root       *)
(* index is the chain of the one key Root.  A node's value is its version,  *)
(* so that an answer is the version of the node that was found, 0 for       *)
(* none.  A vWeaver list also has ridges from key to key, which its range   *)
(* scan follows.                                                            *)
(***************************************************************************)
EXTENDS Integers, Sequences, FiniteSets, SequencesExt, FiniteSetsExt

CONSTANTS
    Writers, Readers,
    Setups,         \* [kind, who, keys, ops, loaded, asked, last]: which writers do which
                    \* operations on which keys of an index of that kind; the keys loaded at
                    \* the start, the intervals <<lo, hi>> that are queried and the last
                    \* version that is drawn (a bound of the model)
    MaxKey,         \* the largest key, at which inc_key saturates
    LeafOf,         \* the leaf of each key of 1 .. MaxKey
    SENTINEL_LEVEL, \* usize::MAX
    MaxPick,        \* bound of the model: the highest level that pick_level returns
    MaxVersion      \* bound of the model: no setup draws more

(* The kinds of version lists a record may have, and of the root index,     *)
(* which only ever gets new roots.                                          *)
RecordKinds == {"vanilla", "skiplist", "frugal", "weaver"}
RootKinds   == {"listRoot", "skipRoot", "frugalRoot", "treeRoot"}

ASSUME ListsAssumption ==
    /\ MaxKey \in Nat \ {0} /\ MaxVersion \in Nat /\ MaxPick \in Nat \ {0}
    /\ SENTINEL_LEVEL \in Nat /\ SENTINEL_LEVEL > MaxVersion
    /\ \A k \in 2 .. MaxKey : LeafOf[k] \in {LeafOf[k - 1], LeafOf[k - 1] + 1}
    /\ \A u \in Setups :
          /\ u.kind \in RecordKinds \cup RootKinds
          /\ u.kind \in RootKinds <=> u.ops = {"root"}
          /\ u.who \subseteq Writers /\ u.last <= MaxVersion
          /\ u.loaded \subseteq u.keys /\ u.keys \subseteq 1 .. MaxKey

VARIABLES
    setup,      \* the member of Setups that this behaviour is about
    nodes,      \* every node ever linked: [key, ver, del, live, level, next, skip, ridge]
    head,       \* the newest node of each key, 0 while it has no record
    clock,      \* the next version
    holder,     \* the writer that has latched each leaf
    wr, rd,     \* the writers and the readers
    book        \* history: for each key the versions written, with whether they are live

vars == <<setup, nodes, head, clock, holder, wr, rd, book>>

None       == "none"
FLAT_LEVEL == 0
Never      == MaxVersion + 1        \* Version::MAX, the deletion version of a live entry
Keys       == 1 .. MaxKey
Leaves     == {LeafOf[k] : k \in Keys}

ChainKinds  == {"vanilla", "listRoot"}                  \* linked lists
MapKinds    == {"skiplist", "skipRoot", "treeRoot"}     \* ordered maps
TowerKinds  == {"frugal", "weaver", "frugalRoot"}       \* lists with skips
Root == 1       \* the one key of a root index

Inc(k) == IF k = MaxKey THEN MaxKey ELSE k + 1
LeafUpper(l) == Max({k \in Keys : LeafOf[k] = l})
Records == {k \in Keys : head[k] # 0}

-----------------------------------------------------------------------------
(* Nodes *)

Node(k, v, alive, lvl, next, skip) ==
    [key |-> k, ver |-> v, del |-> Never, live |-> alive,
     level |-> lvl, next |-> next, skip |-> skip, ridge |-> 0]

(* A new list: its first node is the sentinel of all towers.                *)
First(k, v) == Node(k, v, TRUE, SENTINEL_LEVEL, 0, 0)

(* Mutant: the skip pointer is taken without looking on.                    *)
Support_OneHop(ns, top, lvl) == IF ns[top].level >= lvl THEN top ELSE ns[top].skip

(* Where the skip of a tower of this level ends: the first node at least as *)
(* high, found along the skips; 0 is the unreachable!() of the code.        *)
Support(ns, top, lvl) ==
    LET walk[i \in 0 .. Len(ns)] ==
            IF i = 0 \/ ns[i].level >= lvl THEN i ELSE walk[ns[i].skip]
    IN  walk[top]

AppendNext(top, k, v, alive) == Node(k, v, alive, FLAT_LEVEL, top, top)

AppendTower(ns, top, k, v, alive, lvl) == Node(k, v, alive, lvl, top, Support(ns, top, lvl))

(* append: a coin decides between the two.  A tower of a record's list is   *)
(* one level above the newest node, and wraps on top of the sentinel; that  *)
(* of a root list draws its level.                                          *)
LevelAbove(n) == (n.level + 1) % (SENTINEL_LEVEL + 1)

FrugalAppend(ns, top, k, v, alive) ==
    {AppendNext(top, k, v, alive), AppendTower(ns, top, k, v, alive, LevelAbove(ns[top]))}

WeaverAppend(ns, top, k, v, alive) ==
    {AppendNext(top, k, v, alive), AppendTower(ns, top, k, v, alive, LevelAbove(ns[top]))}

PickLevel == 1 .. MaxPick

FrugalRootPush(ns, top, v) ==
    {AppendNext(top, Root, v, TRUE)} \cup {AppendTower(ns, top, Root, v, TRUE, lvl) : lvl \in PickLevel}

(* find_from on a list with skips, whose nodes do not change once linked.   *)
FindFrom(ns, start, s, tombstones) ==
    LET walk[i \in 1 .. Len(ns)] ==
            LET n == ns[i]
                beyond == n.skip # 0 /\ ns[n.skip].ver > s
            IN  IF n.level = SENTINEL_LEVEL \/ n.ver <= s THEN i
                ELSE walk[IF beyond THEN n.skip ELSE n.next]
        found == walk[start]
    IN  IF ns[found].ver <= s /\ (tombstones \/ ns[found].live) THEN found ELSE 0

(* The chain of a node, newest first.                                       *)
ChainOf(ns, start) ==
    LET walk[i \in 0 .. Len(ns)] == IF i = 0 THEN <<>> ELSE <<i>> \o walk[ns[i].next]
    IN  walk[start]

(* range(..=v).next_back() and Pred: the entry with the largest version     *)
(* that is not above v.                                                     *)
LastUpTo(ns, start, s) ==
    LET chain == ChainOf(ns, start)
    IN  FoldLeft(LAMBDA acc, i : IF acc = 0 /\ ns[i].ver <= s THEN i ELSE acc, 0, chain)

(* weaver_node.find and find_any, the find of a frugal list and that of the  *)
(* roots, which has no tombstones.                                           *)
WeaverFind(start, s)    == FindFrom(nodes, start, s, FALSE)
WeaverFindAny(start, s) == FindFrom(nodes, start, s, TRUE)
FrugalFind(start, s)    == FindFrom(nodes, start, s, FALSE)
FrugalRootFind(start, s) == FindFrom(nodes, start, s, TRUE)

IsLive(i) == nodes[i].live /\ nodes[i].del = Never

-----------------------------------------------------------------------------
(* The clock, as far as the readers need it: a snapshot is older than every *)
(* version that is still being written (see CommitClock).                   *)

InFlight == {wr[w].ver : w \in {x \in Writers : wr[x].pc # "idle"}}
Settled  == {s \in 1 .. clock - 1 : \A v \in InFlight : s < v}

-----------------------------------------------------------------------------
(* Initial state: the loaded keys at version 1. *)

Idle   == [pc |-> "idle", op |-> None, key |-> 0, ver |-> 0]
Rest   == [pc |-> "idle", snap |-> 0, lo |-> 0, hi |-> 0, at |-> 0, last |-> 0, out |-> <<>>]

Init ==
    /\ setup \in Setups
    /\ nodes = [i \in 1 .. Cardinality(setup.loaded) |-> First(SetToSortSeq(setup.loaded, <)[i], 1)]
    /\ head = [k \in Keys |-> IF k \in setup.loaded
                              THEN CHOOSE i \in DOMAIN nodes : nodes[i].key = k ELSE 0]
    /\ clock = 2
    /\ holder = [l \in Leaves |-> None]
    /\ wr = [w \in Writers |-> Idle]
    /\ rd = [r \in Readers |-> Rest]
    /\ book = [k \in Keys |-> IF k \in setup.loaded THEN {<<1, TRUE>>} ELSE {}]

-----------------------------------------------------------------------------
(* Writers.  The leaf (the root index) is latched, then a version drawn.    *)

Operations == {"insert", "update", "delete", "root"}

Free(l) == holder[l] = None

Begin(w, op, k) ==
    /\ w \in setup.who /\ op \in setup.ops /\ k \in setup.keys
    /\ wr[w].pc = "idle" /\ clock <= setup.last
    /\ Free(LeafOf[k])
    /\ holder' = [holder EXCEPT ![LeafOf[k]] = w]
    /\ wr' = [wr EXCEPT ![w] = [pc |-> "apply", op |-> op, key |-> k, ver |-> clock]]
    /\ clock' = clock + 1
    /\ UNCHANGED <<setup, nodes, head, rd, book>>

(* An update or a deletion of a key that is not live fails.                 *)
Fails(w) ==
    LET k == wr[w].key IN
    /\ wr[w].op \in {"update", "delete"}
    /\ ~ (head[k] # 0 /\ IsLive(head[k]))

Reject(w) ==
    /\ wr[w].pc = "apply" /\ Fails(w)
    /\ wr' = [wr EXCEPT ![w].pc = "end"]
    /\ UNCHANGED <<setup, nodes, head, clock, holder, rd, book>>

Write(w, alive) == book' = [book EXCEPT ![wr[w].key] = @ \cup {<<wr[w].ver, alive>>}]

(* Where a writer goes once its version is linked.                          *)
Linked(w) == [wr EXCEPT ![w].pc = IF setup.kind = "weaver" THEN "weave" ELSE "end"]

(* Insert of a key without a record: a new list.                            *)
NewRecord(w) ==
    /\ wr[w].pc = "apply" /\ wr[w].op = "insert" /\ head[wr[w].key] = 0
    /\ nodes' = Append(nodes, First(wr[w].key, wr[w].ver))
    /\ head' = [head EXCEPT ![wr[w].key] = Len(nodes')]
    /\ wr' = Linked(w)
    /\ Write(w, TRUE)
    /\ UNCHANGED <<setup, clock, holder, rd>>

(* push and append on a chain or a map end the newest entry first, if it is *)
(* live, and then link the new one.                                         *)
EndNewest(w) ==
    LET top == head[wr[w].key] IN
    /\ wr[w].pc = "apply" /\ wr[w].op \in {"insert", "update"} /\ ~ Fails(w) /\ top # 0
    /\ setup.kind \in {"vanilla", "skiplist"}
    /\ nodes' = IF nodes[top].del = Never THEN [nodes EXCEPT ![top].del = wr[w].ver] ELSE nodes
    /\ wr' = [wr EXCEPT ![w].pc = "link"]
    /\ UNCHANGED <<setup, head, clock, holder, rd, book>>

Publish(w, n, alive) ==
    /\ nodes' = Append(nodes, n)
    /\ head' = [head EXCEPT ![wr[w].key] = Len(nodes')]
    /\ wr' = Linked(w)
    /\ Write(w, alive)
    /\ UNCHANGED <<setup, clock, holder, rd>>

LinkEntry(w) ==
    LET k == wr[w].key IN
    /\ wr[w].pc = "link"
    /\ Publish(w, Node(k, wr[w].ver, TRUE, FLAT_LEVEL, head[k], 0), TRUE)

(* A list with towers gets a new head, a tombstone for a deletion.          *)
LinkTower(w) ==
    LET k == wr[w].key
        alive == wr[w].op # "delete"
    IN  /\ wr[w].pc = "apply" /\ ~ Fails(w) /\ head[k] # 0
        /\ setup.kind \in {"frugal", "weaver"}
        /\ \E n \in IF setup.kind = "frugal" THEN FrugalAppend(nodes, head[k], k, wr[w].ver, alive)
                     ELSE WeaverAppend(nodes, head[k], k, wr[w].ver, alive) :
              Publish(w, n, alive)

(* append_root, by a reorganization that holds the root index.              *)
AppendRoot(w) ==
    /\ wr[w].pc = "apply" /\ wr[w].op = "root"
    /\ \E n \in IF setup.kind = "frugalRoot" THEN FrugalRootPush(nodes, head[Root], wr[w].ver)
                 ELSE {Node(Root, wr[w].ver, TRUE, FLAT_LEVEL, head[Root], 0)} :
          Publish(w, n, TRUE)

(* Deletion in a chain or a map: the newest entry ends.                     *)
EndEntry(w) ==
    LET top == head[wr[w].key] IN
    /\ wr[w].pc = "apply" /\ wr[w].op = "delete" /\ ~ Fails(w)
    /\ setup.kind \in {"vanilla", "skiplist"}
    /\ nodes[top].ver < wr[w].ver
    /\ nodes' = [nodes EXCEPT ![top].del = wr[w].ver]
    /\ wr' = [wr EXCEPT ![w].pc = "end"]
    /\ Write(w, FALSE)
    /\ UNCHANGED <<setup, head, clock, holder, rd>>

(* Mutant: the farthest key instead of the next.                            *)
Neighbour_Farthest(k) ==
    LET later == {j \in Records : j > k}
    IN  IF later = {} THEN 0 ELSE Max(later)

(* weaver_callback: the node that has just been superseded gets a ridge to  *)
(* the next key's version of that time.  The leaf's latch is gone with it.  *)
Neighbour(k) ==
    LET inLeaf == {j \in Records : j > k /\ LeafOf[j] = LeafOf[k]}
        beyond == {j \in Records : j > k /\ LeafOf[j] = LeafOf[Inc(k)]}
    IN  IF inLeaf # {} THEN Min(inLeaf) ELSE IF beyond # {} THEN Min(beyond) ELSE 0

Weave(w) ==
    LET k    == wr[w].key
        old  == nodes[WeaverFindAny(head[k], wr[w].ver)].next
        next == Neighbour(k)
        to   == IF next = 0 THEN 0 ELSE WeaverFindAny(head[next], wr[w].ver)
    IN  /\ wr[w].pc = "weave"
        /\ nodes' = IF old # 0 /\ nodes[old].ridge = 0
                    THEN [nodes EXCEPT ![old].ridge = to] ELSE nodes
        /\ holder' = [holder EXCEPT ![LeafOf[k]] = None]
        /\ wr' = [wr EXCEPT ![w].pc = "end"]
        /\ UNCHANGED <<setup, head, clock, rd, book>>

(* end_tx_commit; the guard of the leaf is dropped.                         *)
End(w) ==
    /\ wr[w].pc = "end"
    /\ wr' = [wr EXCEPT ![w] = Idle]
    /\ holder' = [l \in Leaves |-> IF holder[l] = w THEN None ELSE holder[l]]
    /\ UNCHANGED <<setup, nodes, head, clock, rd, book>>

(* A merge of leaves clones the lists of its records: an exact copy of a    *)
(* chain, the versions of a frugal list appended again with new coins; the  *)
(* other kinds share their nodes.                                           *)
Oldest(k, i) == LET chain == ChainOf(nodes, head[k]) IN nodes[chain[Len(chain) + 1 - i]]

(* Mutant: the copy forgets where a version ends.                           *)
CloneChain_Revived(k) ==
    nodes \o [i \in 1 .. Len(ChainOf(nodes, head[k])) |->
                [Oldest(k, i) EXCEPT !.next = IF i = 1 THEN 0 ELSE Len(nodes) + i - 1,
                                     !.del  = IF Oldest(k, i) = nodes[head[k]] THEN Never ELSE @]]

CloneChain(k) ==
    nodes \o [i \in 1 .. Len(ChainOf(nodes, head[k])) |->
                [Oldest(k, i) EXCEPT !.next = IF i = 1 THEN 0 ELSE Len(nodes) + i - 1]]

CloneFrugal(k) ==
    LET Replay(sofar, i) ==
            UNION {{Append(ns, n) : n \in FrugalAppend(ns, Len(ns), k, Oldest(k, i).ver, Oldest(k, i).live)}
                      : ns \in sofar}
    IN  FoldLeft(Replay, {Append(nodes, First(k, Oldest(k, 1).ver))},
                 [i \in 1 .. Len(ChainOf(nodes, head[k])) - 1 |-> i + 1])

Clone(k) ==
    /\ setup.kind \in {"vanilla", "frugal"} /\ "clone" \in setup.ops
    /\ head[k] # 0 /\ Free(LeafOf[k])
    /\ Cardinality({i \in DOMAIN nodes : nodes[i].ver = nodes[head[k]].ver /\ nodes[i].key = k}) = 1
    /\ nodes' \in IF setup.kind = "vanilla" THEN {CloneChain(k)} ELSE CloneFrugal(k)
    /\ head' = [head EXCEPT ![k] = Len(nodes')]
    /\ UNCHANGED <<setup, clock, holder, wr, rd, book>>

-----------------------------------------------------------------------------
(* Point queries: the head is loaded, then the list searched. *)

Scans == setup.kind = "weaver"

BeginFind(r, k, s) ==
    /\ ~ Scans /\ rd[r].pc = "idle" /\ s \in Settled
    /\ rd' = [rd EXCEPT ![r] = [Rest EXCEPT !.pc = IF head[k] = 0 THEN "done" ELSE "find",
                                            !.snap = s, !.lo = k, !.hi = k,
                                            !.at = IF setup.kind \in MapKinds THEN 0 ELSE head[k]]]
    /\ UNCHANGED <<setup, nodes, head, clock, holder, wr, book>>

Answer(r, i) ==
    rd' = [rd EXCEPT ![r].pc = "done", ![r].at = 0,
                     ![r].out = IF i = 0 THEN <<>> ELSE << <<nodes[i].key, nodes[i].ver>> >>]

Covers(i, s) == nodes[i].ver <= s /\ nodes[i].del > s

(* The walk of a chain, an entry at a time: deletions change entries.       *)
FindInChain(r) ==
    LET i == rd[r].at
        s == rd[r].snap
    IN  /\ rd[r].pc = "find" /\ setup.kind \in ChainKinds
        /\ IF Covers(i, s) \/ nodes[i].next = 0
           THEN Answer(r, IF Covers(i, s) THEN i ELSE 0)
           ELSE rd' = [rd EXCEPT ![r].at = nodes[i].next]
        /\ UNCHANGED <<setup, nodes, head, clock, holder, wr, book>>

(* An ordered map: the entry is located first, its deletion version read    *)
(* later.                                                                   *)
SkipListLast(s) == LastUpTo(nodes, head[Root], s)
TreePred(s)     == LastUpTo(nodes, head[Root], s)

Locate(r) ==
    /\ rd[r].pc = "find" /\ setup.kind \in MapKinds
    /\ LET s == rd[r].snap
           i == CASE setup.kind = "skipRoot" -> SkipListLast(s)
                  [] setup.kind = "treeRoot" -> TreePred(s)
                  [] OTHER -> LastUpTo(nodes, head[rd[r].lo], s)
       IN  IF i = 0 THEN Answer(r, 0) ELSE rd' = [rd EXCEPT ![r].pc = "check", ![r].at = i]
    /\ UNCHANGED <<setup, nodes, head, clock, holder, wr, book>>

CheckLocated(r) ==
    /\ rd[r].pc = "check"
    /\ Answer(r, IF Covers(rd[r].at, rd[r].snap) THEN rd[r].at ELSE 0)
    /\ UNCHANGED <<setup, nodes, head, clock, holder, wr, book>>

FindInTower(r) ==
    /\ rd[r].pc = "find" /\ setup.kind \in TowerKinds
    /\ Answer(r, IF setup.kind = "frugal" THEN FrugalFind(rd[r].at, rd[r].snap)
                 ELSE FrugalRootFind(rd[r].at, rd[r].snap))
    /\ UNCHANGED <<setup, nodes, head, clock, holder, wr, book>>

-----------------------------------------------------------------------------
(* The range scan of a vWeaver tree. *)

BeginScan(r, lo, hi, s) ==
    /\ Scans /\ rd[r].pc = "idle" /\ s \in Settled
    /\ rd' = [rd EXCEPT ![r] = [Rest EXCEPT !.pc = "leaf", !.snap = s, !.lo = lo, !.hi = hi, !.last = lo]]
    /\ UNCHANGED <<setup, nodes, head, clock, holder, wr, book>>

(* Mutant: the largest key does not end the scan.                           *)
Ends_OnlyPast(lower, before, hi) == lower > hi

(* The scan goes on after this key; it ends past its interval, or when the  *)
(* lower bound cannot grow because inc_key saturates.                       *)
Ends(lower, before, hi) == lower > hi \/ lower <= before

Advance(q, before, lastKey) ==
    LET lower == Inc(lastKey)
    IN  [q EXCEPT !.pc = IF Ends(lower, before, q.hi) THEN "done" ELSE "leaf", !.last = lower, !.at = 0]

(* The leaf of the lower bound is pinned and its records are copied: the    *)
(* first one with a version of the snapshot starts a walk along the ridges. *)
ScanLeaf(r) ==
    LET q == rd[r]
        l == LeafOf[q.last]
        hits == {k \in Records : /\ LeafOf[k] = l /\ k \in q.last .. q.hi
                                 /\ WeaverFind(head[k], q.snap) # 0}
    IN  /\ q.pc = "leaf" /\ Free(l)
        /\ rd' = [rd EXCEPT ![r] =
              IF hits = {} THEN Advance(q, q.last, LeafUpper(l))
              ELSE [q EXCEPT !.pc = "ridge",
                             !.at = WeaverFind(head[Min(hits)], q.snap)]]
        /\ UNCHANGED <<setup, nodes, head, clock, holder, wr, book>>

LastReported(q) == IF q.out = <<>> THEN q.last ELSE Max({q.last, Last(q.out)[1]})

(* The next node along the ridges.  Tombstones are passed over; a node      *)
(* stands for its key, whose version at the snapshot is looked up from it.  *)
ScanRidge(r) ==
    LET q == rd[r]
        n == nodes[q.at]
        found == WeaverFind(q.at, q.snap)
    IN  /\ q.pc = "ridge"
        /\ rd' = [rd EXCEPT ![r] =
              IF q.at = 0 \/ (n.live /\ n.key \notin q.last .. q.hi)
              THEN Advance(q, q.last, LastReported(q))
              ELSE [q EXCEPT !.at = n.ridge,
                             !.out = IF n.live /\ found # 0
                                     THEN Append(@, <<n.key, nodes[found].ver>>) ELSE @]]
        /\ UNCHANGED <<setup, nodes, head, clock, holder, wr, book>>

EndRead(r) ==
    /\ rd[r].pc = "done"
    /\ rd' = [rd EXCEPT ![r] = Rest]
    /\ UNCHANGED <<setup, nodes, head, clock, holder, wr, book>>

-----------------------------------------------------------------------------
ReadStep(r) ==
    \/ FindInChain(r) \/ Locate(r) \/ CheckLocated(r) \/ FindInTower(r)
    \/ ScanLeaf(r) \/ ScanRidge(r) \/ EndRead(r)

WriteStep(w) ==
    \/ Reject(w) \/ NewRecord(w) \/ EndNewest(w) \/ LinkEntry(w) \/ LinkTower(w)
    \/ AppendRoot(w) \/ EndEntry(w) \/ Weave(w) \/ End(w)

Next ==
    \/ \E w \in Writers : \/ WriteStep(w)
                          \/ \E op \in Operations, k \in Keys : Begin(w, op, k)
    \/ \E k \in Keys : Clone(k)
    \/ \E r \in Readers : \/ ReadStep(r)
                          \/ \E s \in Settled, i \in setup.asked :
                                BeginFind(r, i[1], s) \/ BeginScan(r, i[1], i[2], s)

(* Writers that have begun finish, so a pinned leaf is free again; a reader *)
(* keeps running.                                                           *)
Spec ==
    /\ Init /\ [][Next]_vars
    /\ \A w \in Writers : WF_vars(WriteStep(w))
    /\ \A r \in Readers : WF_vars(ReadStep(r))

-----------------------------------------------------------------------------
(* Properties *)

NodeType ==
    [key : Keys, ver : 1 .. MaxVersion, del : 1 .. Never, live : BOOLEAN, level : 0 .. SENTINEL_LEVEL,
     next : Nat, skip : Nat, ridge : Nat]

(* Every link leads to a node, and a latched leaf has a writer at work on   *)
(* one of its keys.                                                         *)
TypeOK ==
    /\ setup \in Setups
    /\ \A i \in DOMAIN nodes :
          /\ nodes[i] \in NodeType
          /\ {nodes[i].next, nodes[i].skip} \subseteq 0 .. i - 1
          /\ nodes[i].ridge \in 0 .. Len(nodes)
    /\ head \in [Keys -> 0 .. Len(nodes)]
    /\ clock \in 2 .. Never
    /\ \A l \in Leaves : holder[l] # None => wr[holder[l]].pc # "idle" /\ LeafOf[wr[holder[l]].key] = l

(* The version of a key that a snapshot sees, by the history.               *)
Visible(k, s) ==
    LET upTo == {b \in book[k] : b[1] <= s}
        newest == CHOOSE b \in upTo : \A c \in upTo : c[1] <= b[1]
    IN  IF upTo = {} \/ ~ newest[2] THEN {} ELSE {<<k, newest[1]>>}

(* A query that ran beside writers, without a latch, gets for every key of  *)
(* its interval exactly the version its snapshot sees, once, in key order.  *)
AnswersExact ==
    \A r \in Readers : rd[r].pc = "done" =>
        /\ ToSet(rd[r].out) = UNION {Visible(k, rd[r].snap) : k \in rd[r].lo .. rd[r].hi}
        /\ \A i \in 1 .. Len(rd[r].out) - 1 : rd[r].out[i][1] < rd[r].out[i + 1][1]

(* Along the skips from any node the levels never fall, and they end at the *)
(* sentinel: the walk of append_tower never reaches its unreachable!().     *)
SentinelSeen ==
    setup.kind \in TowerKinds =>
        \A i \in DOMAIN nodes :
            IF nodes[i].next = 0 THEN nodes[i].level = SENTINEL_LEVEL
            ELSE nodes[i].skip # 0 /\ nodes[nodes[i].skip].level >= nodes[i].level

(* A ridge leads to the next key that has a record at the time, never over  *)
(* a key that was visible when its node was superseded.                     *)
RidgesMissNobody ==
    \A i \in DOMAIN nodes : nodes[i].ridge # 0 =>
        LET n == nodes[i]
            m == nodes[n.ridge]
            until == {nodes[j].ver : j \in {x \in DOMAIN nodes : nodes[x].next = i}}
        IN  /\ n.key < m.key
            /\ \A k \in n.key + 1 .. m.key - 1, s \in n.ver .. MaxVersion :
                  (\A v \in until : s < v) => Visible(k, s) = {}

(* Every query ends.                                                        *)
QueriesEnd == \A r \in Readers : rd[r].pc # "idle" ~> rd[r].pc = "idle"
=============================================================================
