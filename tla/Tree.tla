-------------------------------- MODULE Tree --------------------------------
(***************************************************************************)
(* The multiversion tree with its index pages: the optimistic write descent *)
(* (mv_query/olc_query.rs, rand_query.rs), the reorganizations it triggers  *)
(* (mv_tree/smo.rs) and the queries that run beside it without a latch      *)
(* (query.rs, iter_query.rs).                                               *)
(*                                                                          *)
(* What happens to the records of one latched leaf is one step here; the    *)
(* steps inside it are those of RootLeaf.  Pages are not reused here (see   *)
(* Reclamation): a new page has a new number.                               *)
(*                                                                          *)
(* A slot stands for a record of a leaf (lo = hi = its key) and for an      *)
(* entry of an index page (lo .. hi is its fence, ptr its child).  Its end  *)
(* is 0 while it is live, later the deletion version or, in an index page,  *)
(* the OBSOLETE_VERSION_MARK.                                               *)
(***************************************************************************)
EXTENDS Integers, Sequences, FiniteSets, SequencesExt

CONSTANTS
    Writers, Readers,
    NumRecords, FanOut,     \* slots of a leaf, of an index page
    MinKey, MaxKey,         \* the key domain; inc_key and dec_key saturate there
    Keys,                   \* the keys that are used
    Preloads,               \* [ops, seen, who, may, free]: operations to start with, how
                            \* many of them the readers see, and then which writers
                            \* dispatch which <<operation, key>>, how many of them
    Lookback,               \* how far behind the newest a snapshot may be
    MaxPages, MaxFound      \* bounds of the model: pages, records a query may collect

RandomOperations == {"insertRand", "updateRand", "deleteRand"}

Calls == ({"insert", "update", "delete"} \cup RandomOperations) \X (MinKey .. MaxKey)

ASSUME TreeAssumption ==
    /\ NumRecords \in Nat \ {0} /\ FanOut \in Nat \ {0}
    /\ MinKey \in Int /\ MaxKey \in Int
    /\ Keys \subseteq MinKey .. MaxKey
    /\ Preloads \subseteq [ops : Seq(Calls), seen : Int, who : SUBSET Writers, may : SUBSET Calls, free : Nat]

VARIABLES
    pages,      \* the pages by number: [leaf, slots, live, dead]
    roots,      \* the root index: [ver, page, height], oldest first
    clock,      \* the next version
    inflight,   \* versions that have started and not ended
    graveyard,  \* pairs of a dead page and its death version
    latch,      \* the pages that each writer has latched, Index for the root index
    wr,         \* the writers
    load,       \* what is left of the preload, how many operations follow it
    rd,         \* the readers
    book        \* history: [ver, key, val] of every commit, val 0 for a deletion

vars == <<pages, roots, clock, inflight, graveyard, latch, wr, load, rd, book>>
treeVars == <<pages, roots, clock, inflight, graveyard, book>>

None == "none"
Index == 0              \* the number of the root index among the latches
ObsoleteMark == 1

Inc(k) == IF k = MaxKey THEN MaxKey ELSE k + 1
Dec(k) == IF k = MinKey THEN MinKey ELSE k - 1

IsActive(e)    == e.end = 0
Covers(e, k)   == e.lo <= k /\ k <= e.hi

(* The slots numbered in S in the order of these keys, equal ones in the    *)
(* order they had: a stable sort (sorted_by_key, sort_by_key).              *)
Place(S, key, i) == Cardinality({j \in S : key[j] < key[i] \/ (key[j] = key[i] /\ j < i)})
Ordered(slots, S, key) ==
    [n \in 1 .. Cardinality(S) |-> slots[CHOOSE i \in S : Place(S, key, i) = n - 1]]

Active(p)    == {i \in DOMAIN p.slots : IsActive(p.slots[i])}
LiveSlots(p) == Ordered(p.slots, Active(p), [i \in DOMAIN p.slots |-> i])

(* rfind, rposition: the last of the slots found, 0 if there are none.      *)
RFind(found) == Max(found \cup {0})

MaxUnits(p)      == IF p.leaf THEN NumRecords ELSE FanOut

OverflowUnits(p) == IF p.leaf THEN NumRecords ELSE FanOut - 1
Filling20(p)     == (MaxUnits(p) + 4) \div 5
Filling80(p)     == (4 * MaxUnits(p) + 4) \div 5

(* Mutant: a page at the threshold is still fine.                           *)
UnsafeDegree_AtThreshold(p) ==
    LET full == p.live + p.dead >= OverflowUnits(p)
    IN  IF p.live < Filling20(p) \/ (full /\ p.live <= 2 * Filling20(p)) THEN "underflow"
        ELSE IF full THEN "overflow" ELSE "ok"

UnsafeDegree(p) ==
    LET full == p.live + p.dead >= OverflowUnits(p)
    IN  IF p.live <= Filling20(p) \/ (full /\ p.live <= 2 * Filling20(p)) THEN "underflow"
        ELSE IF full THEN "overflow" ELSE "ok"

UnsafeDegreeRoot(p) ==
    IF p.live = 1 /\ ~p.leaf THEN "underflow"
    ELSE IF p.live + p.dead >= OverflowUnits(p) THEN "overflow" ELSE "ok"

(* A fresh page with these live slots (bulk_push).                          *)
BulkPush(leaf, slots) == [leaf |-> leaf, slots |-> slots, live |-> Len(slots), dead |-> 0]

ByKey(slots)     == Ordered(slots, DOMAIN slots, [i \in DOMAIN slots |-> slots[i].lo])
ByVersion(slots) == Ordered(slots, DOMAIN slots, [i \in DOMAIN slots |-> slots[i].ver])

(* A page with its fence: a part of what a reorganization puts in place of  *)
(* another, with the page itself, and a step of a query's path, by number.  *)
Fence(lo, hi, page) == [lo |-> lo, hi |-> hi, page |-> page]

(* Mutant: the fences share the separator (dec_key forgotten).              *)
KeySplit_SharedKey(leaf, slots, lo, hi) ==
    LET sorted == ByKey(slots)
        middle == Len(slots) \div 2
        sep    == sorted[middle + 1].lo
    IN  << Fence(lo, sep, BulkPush(leaf, ByVersion(SubSeq(sorted, 1, middle)))),
           Fence(sep, hi, BulkPush(leaf, ByVersion(SubSeq(sorted, middle + 1, Len(sorted))))) >>

(* Two pages with half of the slots each; the fences meet at the first key  *)
(* of the second half.                                                      *)
KeySplit(leaf, slots, lo, hi) ==
    LET sorted == ByKey(slots)
        middle == Len(slots) \div 2
        sep    == sorted[middle + 1].lo
    IN  << Fence(lo, Dec(sep), BulkPush(leaf, ByVersion(SubSeq(sorted, 1, middle)))),
           Fence(sep, hi, BulkPush(leaf, ByVersion(SubSeq(sorted, middle + 1, Len(sorted))))) >>

VersionSplit(p, lo, hi) == << Fence(lo, hi, BulkPush(p.leaf, LiveSlots(p))) >>

Split(p, lo, hi) ==
    IF p.live >= Filling80(p) THEN KeySplit(p.leaf, LiveSlots(p), lo, hi)
    ELSE VersionSplit(p, lo, hi)

(* The sibling a sparse child is merged with: the next live one by key, or  *)
(* the last before it.  0 if there is no other.                             *)
Candidate(p, i) ==
    LET others == {j \in 1 .. Len(p.slots) : j # i /\ IsActive(p.slots[j])}
        after  == {j \in others : p.slots[j].lo >= p.slots[i].lo}
        from   == IF after # {} THEN after ELSE others
    IN  IF others = {} THEN 0
        ELSE CHOOSE j \in from : \A k \in from :
                IF after # {} THEN p.slots[j].lo <= p.slots[k].lo
                              ELSE p.slots[j].lo >= p.slots[k].lo

Smaller(a, b) == IF a < b THEN a ELSE b
Larger(a, b)  == IF a > b THEN a ELSE b

(* Merge the children c and d of the slots e and f, or deal them out anew   *)
(* when together they hold more than 80%.  The child's own slots come first *)
(* among equal versions; no key is in both children.                        *)
Merge(c, d, e, f) ==
    LET lo    == Smaller(e.lo, f.lo)
        hi    == Larger(e.hi, f.hi)
        slots == LiveSlots(c) \o LiveSlots(d)
    IN  IF c.live + d.live <= (4 * MaxUnits(c)) \div 5
        THEN << Fence(lo, hi, BulkPush(c.leaf, ByVersion(slots))) >>
        ELSE KeySplit(c.leaf, slots, lo, hi)

---------------------------------------------------------------------------
IdleWriter == [pc |-> "idle", op |-> None, key |-> MinKey, indexLive |-> FALSE,
               curr |-> 0, currLive |-> FALSE, child |-> 0, childLive |-> FALSE,
               slot |-> 0, lo |-> MinKey, hi |-> MaxKey, parts |-> << >>, dead |-> {}, ver |-> 0,
               outer |-> {}]
IdleReader == [pc |-> "idle", snap |-> 0, from |-> MinKey, lo |-> MinKey, hi |-> MinKey,
               path |-> << >>, found |-> << >>]

Init ==
    /\ pages = << BulkPush(TRUE, << >>) >>
    /\ roots = << [ver |-> 1, page |-> 1, height |-> 1] >>
    /\ clock = 1
    /\ inflight = {}
    /\ graveyard = {}
    /\ latch = [w \in Writers |-> {}]
    /\ wr = [w \in Writers |-> IdleWriter]
    /\ load \in Preloads
    /\ rd = [r \in Readers |-> IdleReader]
    /\ book = << >>

Root == roots[Len(roots)]
(* RootIndexGuard::block: the page the newest root names, whatever kind of   *)
(* index holds the roots.                                                    *)
RootBlock == Root.page
IsRandom(w) == wr[w].op \in RandomOperations

(* A borrower knows whether the latch version it loaded is still the        *)
(* latch's: never if the page was latched when it loaded it (the flag is    *)
(* masked out), and no more once anybody has latched the page.              *)
Unlatched(p) == \A w \in Writers : p \notin latch[w] \cup wr[w].outer
(* Mutant: a latch without a version, taken whenever it is free.            *)
CanLatch_Unversioned(w, p, live) == p \in latch[w] \/ Unlatched(p)

CanLatch(w, p, live) == p \in latch[w] \/ live

(* Writer w goes on as `to`, latches the pages taken and releases freed.    *)
Move(w, to, taken, freed) ==
    /\ wr' = [v \in Writers |-> IF v = w THEN to ELSE
                [wr[v] EXCEPT !.indexLive = @ /\ Index \notin taken,
                              !.currLive  = @ /\ wr[v].curr \notin taken,
                              !.childLive = @ /\ wr[v].child \notin taken]]
    /\ latch' = [latch EXCEPT ![w] = (@ \ freed) \cup taken]

(* The state of a writer that has nothing but its operation.                *)
Begin(w, pc) == [IdleWriter EXCEPT !.pc = pc, !.op = wr[w].op, !.key = wr[w].key, !.outer = wr[w].outer]

(* Err: every guard is dropped and the descent starts over.                 *)
Retry(w) ==
    Move(w, Begin(w, "root"), {}, latch[w])

(* The preload is run by one writer alone.                                  *)
Dispatch(w) ==
    /\ wr[w].pc = "idle"
    /\ \/ /\ load.ops # << >>
          /\ \A v \in Writers : wr[v].pc = "idle"
          /\ w = CHOOSE v \in load.who : TRUE
          /\ wr' = [wr EXCEPT ![w].pc = "root", ![w].op = Head(load.ops)[1], ![w].key = Head(load.ops)[2]]
          /\ load' = [load EXCEPT !.ops = Tail(@)]
       \/ /\ load.ops = << >> /\ load.free > 0 /\ w \in load.who
          /\ \E o \in load.may : wr' = [wr EXCEPT ![w].pc = "root", ![w].op = o[1], ![w].key = o[2]]
          /\ load' = [load EXCEPT !.free = @ - 1]
    /\ UNCHANGED <<latch, rd, treeVars>>

writerRest == <<load, rd>>

(* retrieve_root_write_internal_olc: borrow the index, look up the root,    *)
BorrowIndex(w) ==
    /\ wr[w].pc = "root"
    /\ wr' = [wr EXCEPT ![w].pc = "degree", ![w].curr = RootBlock,
                        ![w].indexLive = Unlatched(Index), ![w].lo = MinKey, ![w].hi = MaxKey]
    /\ UNCHANGED <<latch, writerRest, treeVars>>

(* The index is latched only if nobody has latched it since.                *)
UpgradeIndex(w) == CanLatch(w, Index, wr[w].indexLive)

(* borrow it, and repair it under the index' latch if its degree says so.   *)
RootDegree(w) ==
    LET me == wr[w]
        borrowed == [me EXCEPT !.currLive = Unlatched(me.curr)]
        degree == UnsafeDegreeRoot(pages[me.curr])
    IN  /\ me.pc = "degree"
        /\ \/ /\ degree = "ok"
              /\ Move(w, [borrowed EXCEPT !.pc = "descend"], {}, {})
           \/ /\ degree # "ok" /\ UpgradeIndex(w)
              /\ Move(w, [borrowed EXCEPT !.pc = IF degree = "overflow" THEN "splitRoot" ELSE "mergeRoot"],
                      {Index}, {})
           \/ /\ degree # "ok" /\ ~UpgradeIndex(w)
              /\ Retry(w)
        /\ UNCHANGED <<writerRest, treeVars>>

StartTxCommit(v) == v = clock /\ clock' = clock + 1 /\ inflight' = inflight \cup {v}
EndTxCommit(v)   == inflight' = inflight \ {v}

(* What a reorganization with these parts at version v puts into its parent *)
(* page; the new pages get the next numbers.                                *)
NewSlots(parts, v) ==
    [i \in 1 .. Len(parts) |-> [lo |-> parts[i].lo, hi |-> parts[i].hi, ver |-> v,
                                end |-> 0, ptr |-> Len(pages) + i]]
NewPages(parts) == [i \in 1 .. Len(parts) |-> parts[i].page]

(* split_root: copy the root (or, in merge_root, its only child) and draw   *)
(* the version.                                                             *)
CopyRoot(w, p, taken) ==
    LET parts == Split(pages[p], MinKey, MaxKey)
        fresh == NewPages(parts)
        all   == pages \o IF Len(parts) = 1 THEN fresh
                          ELSE fresh \o << BulkPush(FALSE, NewSlots(parts, clock)) >>
    IN  /\ Len(all) <= MaxPages
        /\ pages' = all
        /\ StartTxCommit(clock)
        /\ Move(w, [wr[w] EXCEPT !.pc = "append", !.curr = Len(all), !.currLive = TRUE,
                                 !.child = p, !.childLive = FALSE, !.ver = clock,
                                 !.slot = Len(parts) - 1], taken, {})
        /\ UNCHANGED <<roots, graveyard, book, writerRest>>

SplitRoot(w) == wr[w].pc = "splitRoot" /\ CopyRoot(w, wr[w].curr, {})

MergeRoot(w) ==
    LET p    == pages[wr[w].curr]
        only == p.slots[Len(p.slots)].ptr       \* last_child
    IN  /\ wr[w].pc = "mergeRoot"
        /\ IF Unlatched(only) THEN CopyRoot(w, only, {only})
           ELSE Retry(w) /\ UNCHANGED <<writerRest, treeVars>>

AppendRoot(w) ==
    /\ wr[w].pc = "append"
    /\ roots' = Append(roots, [ver |-> wr[w].ver, page |-> wr[w].curr,
                               height |-> Root.height + wr[w].slot
                                          - IF wr[w].child \in latch[w] THEN 1 ELSE 0])
    /\ wr' = [wr EXCEPT ![w].pc = "endRoot"]
    /\ UNCHANGED <<latch, writerRest, pages, clock, inflight, graveyard, book>>

(* end_tx_commit, register_dead, and the guards of the index and of a       *)
(* merged child are dropped.  The new root is borrowed.                     *)
EndRoot(w) ==
    LET me == wr[w] IN
    /\ me.pc = "endRoot"
    /\ EndTxCommit(me.ver)
    /\ graveyard' = graveyard \cup {<<me.child, me.ver>>}
    /\ Move(w, [Begin(w, "descend") EXCEPT !.curr = me.curr, !.currLive = me.currLive], {}, latch[w])
    /\ UNCHANGED <<pages, roots, clock, book, writerRest>>

(* The entry a keyed descent follows, and those a random one chooses from.  *)
KeyedChild(p, k) == {RFind({i \in DOMAIN p.slots : IsActive(p.slots[i]) /\ Covers(p.slots[i], k)})} \ {0}
RandomChild(p)   == {i \in 1 .. Len(p.slots) : IsActive(p.slots[i])}

(* One step of the loop of traversal_write_internal_olc, on an index page:  *)
(* the last live entry for the key.  A random descent takes any live entry  *)
(* and panics, dropping its guards, where there is none.                    *)
Descend(w) ==
    LET me == wr[w]
        p  == pages[me.curr]
        matching == IF IsRandom(w) THEN RandomChild(p) ELSE KeyedChild(p, me.key)
    IN  /\ me.pc = "descend" /\ ~p.leaf
        /\ IF matching = {} THEN IF IsRandom(w) THEN Move(w, IdleWriter, {}, latch[w]) ELSE Retry(w)
           ELSE \E i \in matching :
                  Move(w, [me EXCEPT !.pc = "child", !.slot = i, !.child = p.slots[i].ptr,
                                     !.childLive = Unlatched(p.slots[i].ptr),
                                     !.lo = p.slots[i].lo, !.hi = p.slots[i].hi], {}, {})
        /\ UNCHANGED <<writerRest, treeVars>>

(* The child's degree decides.  The keyed descent first looks whether the   *)
(* page it came from is as it was, and latches the child it repairs; the    *)
(* random one does neither.                                                 *)
ChildDegree(w) ==
    LET me == wr[w]
        degree == UnsafeDegree(pages[me.child])
        parent == CanLatch(w, me.curr, me.currLive)
        child  == IsRandom(w) \/ me.childLive
        taken  == {me.curr} \cup (IF IsRandom(w) THEN {} ELSE {me.child})
    IN  /\ me.pc = "child"
        /\ \/ /\ IsRandom(w) \/ parent
              /\ degree = "ok"
              /\ Move(w, [me EXCEPT !.pc = "descend", !.curr = me.child, !.currLive = me.childLive,
                                    !.child = 0, !.childLive = FALSE, !.slot = 0], {}, latch[w])
           \/ /\ parent /\ child /\ degree # "ok"
              /\ Move(w, [me EXCEPT !.pc = degree], taken, {})
           \/ /\ IF degree = "ok" THEN ~(IsRandom(w) \/ parent) ELSE ~(parent /\ child)
              /\ Retry(w)
        /\ UNCHANGED <<writerRest, treeVars>>

(* The copies are made, then the version is drawn and the entries written   *)
(* behind the end of the parent.                                            *)
StartSmo(w, parts, gone, taken) ==
    /\ Len(pages) + Len(parts) <= MaxPages
    /\ StartTxCommit(clock)
    /\ pages' = pages \o NewPages(parts)
    /\ Move(w, [wr[w] EXCEPT !.pc = "publish", !.parts = NewSlots(parts, clock), !.dead = gone,
                             !.ver = clock], taken, {})
    /\ UNCHANGED <<roots, graveyard, book, writerRest>>

OnOverflowNode(w) ==
    LET me == wr[w]
        e  == pages[me.curr].slots[me.slot]
    IN  /\ me.pc = "overflow"
        /\ StartSmo(w, Split(pages[me.child], e.lo, e.hi), {me.slot}, {})

(* Mutant: the sibling is copied without its latch.                         *)
OnUnderflowNode_NoLatch(w) ==
    LET me == wr[w]
        p  == pages[me.curr]
        c  == Candidate(p, me.slot)
    IN  /\ me.pc = "underflow" /\ c # 0
        /\ StartSmo(w, Merge(pages[me.child], pages[p.slots[c].ptr], p.slots[me.slot], p.slots[c]),
                    {me.slot, c}, {})

(* No sibling, or a sibling that is latched: Err.                           *)
OnUnderflowNode(w) ==
    LET me == wr[w]
        p  == pages[me.curr]
        c  == Candidate(p, me.slot)
        d  == p.slots[c].ptr
    IN  /\ me.pc = "underflow"
        /\ \/ /\ c # 0 /\ Unlatched(d)
              /\ StartSmo(w, Merge(pages[me.child], pages[d], p.slots[me.slot], p.slots[c]),
                          {me.slot, c}, {d})
           \/ /\ IF c = 0 THEN TRUE ELSE ~Unlatched(d)
              /\ Retry(w)
              /\ UNCHANGED <<writerRest, treeVars>>

(* commit_delta: readers see the new entries from here on.                  *)
PublishSmo(w) ==
    LET me == wr[w] IN
    /\ me.pc = "publish"
    /\ pages' = [pages EXCEPT ![me.curr].slots = @ \o me.parts,
                              ![me.curr].live = @ + Len(me.parts) - Cardinality(me.dead),
                              ![me.curr].dead = @ + Cardinality(me.dead)]
    /\ wr' = [wr EXCEPT ![w].pc = "mark"]
    /\ UNCHANGED <<latch, roots, clock, inflight, graveyard, book, writerRest>>

MarkVersionObsolete(w) ==
    LET me == wr[w] IN
    /\ me.pc = "mark"
    /\ pages' = [pages EXCEPT ![me.curr].slots =
                    [i \in DOMAIN @ |-> IF i \in me.dead THEN [@[i] EXCEPT !.end = ObsoleteMark] ELSE @[i]]]
    /\ wr' = [wr EXCEPT ![w].pc = "endSmo"]
    /\ UNCHANGED <<latch, roots, clock, inflight, graveyard, book, writerRest>>

(* Mutant: a merge buries the child only, not the sibling.                  *)
EndSmo_OneBuried(w) ==
    LET me == wr[w] IN
    /\ me.pc = "endSmo"
    /\ EndTxCommit(me.ver)
    /\ graveyard' = graveyard \cup {<<pages[me.curr].slots[me.slot].ptr, me.ver>>}
    /\ Move(w, [Begin(w, "descend") EXCEPT !.curr = me.curr, !.lo = me.lo, !.hi = me.hi],
            {}, latch[w] \ {me.curr})
    /\ UNCHANGED <<pages, roots, clock, book, writerRest>>

(* A random descent may repair several children of one page: it starts over *)
(* when the page itself is full by now.                                     *)
NoRoomForNext(w) == IsRandom(w) /\ UnsafeDegree(pages[wr[w].curr]) = "overflow"

(* end_tx_commit and register_dead; the children's guards are dropped, the  *)
(* parent stays latched and the descent goes on in it.                      *)
EndSmo(w) ==
    LET me == wr[w]
    IN  /\ me.pc = "endSmo"
        /\ EndTxCommit(me.ver)
        /\ graveyard' = graveyard \cup {<<pages[me.curr].slots[i].ptr, me.ver>> : i \in me.dead}
        /\ IF NoRoomForNext(w) THEN Retry(w)
           ELSE Move(w, [Begin(w, "descend") EXCEPT !.curr = me.curr, !.lo = me.lo, !.hi = me.hi],
                     {}, latch[w] \ {me.curr})
        /\ UNCHANGED <<pages, roots, clock, book, writerRest>>

UpgradeLeaf(w) ==
    LET me == wr[w] IN
    /\ me.pc = "descend" /\ pages[me.curr].leaf
    /\ \/ CanLatch(w, me.curr, me.currLive) /\ Move(w, [me EXCEPT !.pc = "apply"], {me.curr}, {})
       \/ ~CanLatch(w, me.curr, me.currLive) /\ Retry(w)
    /\ UNCHANGED <<writerRest, treeVars>>

---------------------------------------------------------------------------
(* The operation on the latched leaf, from the lookup to the answer.        *)

Record(k, v) == [lo |-> k, hi |-> k, ver |-> v, end |-> 0, ptr |-> 0]
Newest(p, k) == RFind({i \in DOMAIN p.slots : p.slots[i].lo = k})
IsLive(p, k) == Newest(p, k) # 0 /\ IsActive(p.slots[Newest(p, k)])
Push(p, k, v) == [p EXCEPT !.slots = Append(@, Record(k, v)), !.live = @ + 1]
Delete(p, k, v) == [p EXCEPT !.slots[Newest(p, k)].end = v, !.live = @ - 1, !.dead = @ + 1]

Commit(w, page, k, val) ==
    /\ pages' = [pages EXCEPT ![wr[w].curr] = page]
    /\ clock' = clock + 1
    /\ book' = Append(book, [ver |-> clock, key |-> k, val |-> val])

ApplyInsert(w, k) ==
    LET p == pages[wr[w].curr] IN
    IF IsLive(p, k) THEN UNCHANGED <<pages, clock, book>>
    ELSE Commit(w, Push(p, k, clock), k, clock)

ApplyUpdate(w, k) ==
    LET p == pages[wr[w].curr] IN
    IF ~IsLive(p, k) THEN UNCHANGED <<pages, clock, book>>
    ELSE Commit(w, Push(Delete(p, k, clock), k, clock), k, clock)

(* A delete draws its version before it looks, and keeps it.                *)
ApplyDelete(w, k) ==
    LET p == pages[wr[w].curr] IN
    IF ~IsLive(p, k) THEN clock' = clock + 1 /\ UNCHANGED <<pages, book>>
    ELSE Commit(w, Delete(p, k, clock), k, 0)

(* The random operations pick a live record of the leaf, or a key of its    *)
(* fence with none.                                                         *)
RandomKeys(w) ==
    LET p == pages[wr[w].curr] IN
    IF wr[w].op = "insertRand" THEN {k \in wr[w].lo .. wr[w].hi : ~IsLive(p, k)}
    ELSE {e.lo : e \in ToSet(LiveSlots(p))}

Apply(w) ==
    LET me == wr[w] IN
    /\ me.pc = "apply"
    /\ \E k \in IF IsRandom(w) THEN RandomKeys(w) ELSE {me.key} :
          \/ me.op \in {"insert", "insertRand"} /\ ApplyInsert(w, k)
          \/ me.op \in {"update", "updateRand"} /\ ApplyUpdate(w, k)
          \/ me.op \in {"delete", "deleteRand"} /\ ApplyDelete(w, k)
    /\ Move(w, IdleWriter, {}, latch[w])
    /\ UNCHANGED <<roots, inflight, graveyard, writerRest>>

(* An insert whose draws (RAND_ATTEMPTS_MAX) all hit live keys calls itself  *)
(* with the leaf still latched; the others panic on a leaf without a live   *)
(* record, which drops the guard.                                           *)
NoRandomKey(w) ==
    LET me == wr[w] IN
    /\ me.pc = "apply" /\ IsRandom(w)
    /\ IF me.op = "insertRand" THEN \E k \in me.lo .. me.hi : IsLive(pages[me.curr], k)
       ELSE RandomKeys(w) = {}
    /\ Move(w, IF me.op = "insertRand" THEN [Begin(w, "root") EXCEPT !.outer = @ \cup {me.curr}]
               ELSE IdleWriter, {}, latch[w])
    /\ UNCHANGED <<treeVars, writerRest>>

---------------------------------------------------------------------------
(* Queries.  A snapshot is below every version in flight (Watermark).       *)

Settled == {s \in 1 .. clock - 1 : \A v \in inflight : s < v}
Recent  == {s \in Settled : s > clock - Lookback}
RootFor(s) == roots[Max({i \in 1 .. Len(roots) : roots[i].ver <= s})].page

Matched(e, s) == e.ver <= s                     \* index entries: the mark is masked
(* Mutant: a record still matches at its deletion version.                  *)
Matches_AtDeletion(e, s) == e.ver <= s /\ (e.end = 0 \/ s <= e.end)

Matches(e, s) == e.ver <= s /\ (e.end = 0 \/ s < e.end)     \* records

Mid == CHOOSE k \in Keys : Cardinality({j \in Keys : j < k}) = Cardinality(Keys) \div 2

(* A Point query (traverse_read_key from the root of its snapshot) has the  *)
(* path's last page only; a Range collects a RangeQueryIter.                *)
Open(r) ==
    /\ rd[r].pc = "idle" /\ Len(load.ops) <= load.seen
    /\ \E s \in Recent, lo \in Keys, hi \in Keys \cup {MaxKey}, pc \in {"point", "next"} :
          /\ IF pc = "point" THEN hi = lo ELSE lo <= hi /\ hi \in {Mid, MaxKey}
          /\ rd' = [rd EXCEPT ![r] = [pc |-> pc, snap |-> s, from |-> lo, lo |-> lo, hi |-> hi,
                                   path |-> << Fence(MinKey, MaxKey, RootFor(s)) >>, found |-> << >>]]
    /\ UNCHANGED <<latch, wr, load, treeVars>>

LastOf(q) == q.path[Len(q.path)]
(* The entry of index page p that a reader at snapshot s follows for key k. *)
Entry(p, k, s) == RFind({j \in DOMAIN p.slots : Covers(p.slots[j], k) /\ Matched(p.slots[j], s)})
FenceOf(e) == Fence(e.lo, e.hi, e.ptr)

TraverseReadKey(r) ==
    LET q == rd[r]
        p == pages[LastOf(q).page]
        i == Entry(p, q.lo, q.snap)
    IN  /\ q.pc = "point" /\ ~p.leaf
        /\ rd' = [rd EXCEPT ![r] = IF i = 0 THEN [q EXCEPT !.pc = "panic"]      \* unwrap
                                   ELSE [q EXCEPT !.path = << FenceOf(p.slots[i]) >>]]
        /\ UNCHANGED <<latch, wr, load, treeVars>>

(* The newest record of the key that matches; later ones are skipped.       *)
PointRead(r) ==
    LET q == rd[r]
        p == pages[LastOf(q).page]
        n == RFind({j \in DOMAIN p.slots : p.slots[j].ver <= q.snap})
        i == RFind({j \in 1 .. n : p.slots[j].lo = q.lo /\ Matches(p.slots[j], q.snap)})
    IN  /\ q.pc = "point" /\ p.leaf
        /\ rd' = [rd EXCEPT ![r].pc = "done",
                            ![r].found = IF i = 0 THEN << >> ELSE << p.slots[i] >>]
        /\ UNCHANGED <<latch, wr, load, treeVars>>

(* One turn of the loop in RangeQueryIter::next: the last page of the path  *)
(* is an index page, where the entry of the lower bound is looked up,       *)
NextIndex(r) ==
    LET q == rd[r]
        p == pages[LastOf(q).page]
        i == Entry(p, q.lo, q.snap)
    IN  /\ q.pc = "next" /\ q.path # << >> /\ q.lo <= q.hi /\ ~p.leaf
        /\ rd' = [rd EXCEPT ![r] =
             IF i # 0 THEN [q EXCEPT !.path = Append(@, FenceOf(p.slots[i]))]
             ELSE [q EXCEPT !.path = Front(@), !.lo = Inc(LastOf(q).hi)]]
        /\ UNCHANGED <<latch, wr, load, treeVars>>

(* Mutant: the largest key does not end the collection.                     *)
NextLeaf_NoEnd(r) ==
    LET q    == rd[r]
        p    == pages[LastOf(q).page]
        hits == SelectSeq(p.slots, LAMBDA e : Matches(e, q.snap) /\ q.lo <= e.lo /\ e.lo <= q.hi)
    IN  /\ q.pc = "next" /\ q.path # << >> /\ q.lo <= q.hi /\ p.leaf
        /\ rd' = [rd EXCEPT ![r] =
             [q EXCEPT !.found = @ \o hits, !.path = Front(@), !.lo = Inc(LastOf(q).hi)]]
        /\ UNCHANGED <<latch, wr, load, treeVars>>

(* or a leaf, which is collected and left.  Nothing found and the largest   *)
(* key reached: the answer is None, which ends the collection.  MaxFound    *)
(* bounds a collection that would not end.                                  *)
NextLeaf(r) ==
    LET q    == rd[r]
        p    == pages[LastOf(q).page]
        next == Inc(LastOf(q).hi)
        hits == SelectSeq(p.slots, LAMBDA e : Matches(e, q.snap) /\ q.lo <= e.lo /\ e.lo <= q.hi)
    IN  /\ q.pc = "next" /\ q.path # << >> /\ q.lo <= q.hi /\ p.leaf /\ Len(q.found) <= MaxFound
        /\ rd' = [rd EXCEPT ![r] =
             [q EXCEPT !.found = @ \o hits, !.path = Front(@), !.lo = next,
                       !.pc = IF hits = << >> /\ next = MaxKey THEN "done" ELSE "next"]]
        /\ UNCHANGED <<latch, wr, load, treeVars>>

Completed(r) ==
    /\ rd[r].pc = "next" /\ (rd[r].path = << >> \/ rd[r].lo > rd[r].hi)
    /\ rd' = [rd EXCEPT ![r].pc = "done"]
    /\ UNCHANGED <<latch, wr, load, treeVars>>

Close(r) ==
    /\ rd[r].pc = "done"
    /\ rd' = [rd EXCEPT ![r] = IdleReader]
    /\ UNCHANGED <<latch, wr, load, treeVars>>

ReaderStep(r) ==
    TraverseReadKey(r) \/ PointRead(r) \/ NextIndex(r) \/ NextLeaf(r) \/ Completed(r) \/ Close(r)

WriterStep(w) ==
    \/ BorrowIndex(w) \/ RootDegree(w) \/ SplitRoot(w) \/ MergeRoot(w)
    \/ AppendRoot(w) \/ EndRoot(w) \/ Descend(w) \/ ChildDegree(w)
    \/ OnOverflowNode(w) \/ OnUnderflowNode(w) \/ PublishSmo(w)
    \/ MarkVersionObsolete(w) \/ EndSmo(w) \/ UpgradeLeaf(w)
    \/ Apply(w) \/ NoRandomKey(w)

(* Everything asked for has been done.                                      *)
Finished ==
    /\ load.ops = << >> /\ load.free = 0
    /\ \A w \in Writers : wr[w].pc = "idle"
    /\ UNCHANGED vars

Next ==
    \/ \E w \in Writers : Dispatch(w) \/ WriterStep(w)
    \/ \E r \in Readers : Open(r) \/ ReaderStep(r)
    \/ Finished

(* A reader runs on its own thread and waits for nobody.                    *)
Spec == Init /\ [][Next]_vars /\ \A r \in Readers : WF_vars(ReaderStep(r))

---------------------------------------------------------------------------
(* Pages and the root index hold what their readers expect; every latch is  *)
(* held by a writer that is under way.                                      *)
TypeOK ==
    /\ \A i \in 1 .. Len(pages) :
          /\ pages[i].leaf \in BOOLEAN
          /\ \A j \in 1 .. Len(pages[i].slots) :
                LET e == pages[i].slots[j] IN
                /\ e.lo \in MinKey .. MaxKey /\ e.hi \in MinKey .. MaxKey
                /\ e.ver \in 1 .. clock /\ e.end \in 0 .. clock
                /\ e.ptr \in IF pages[i].leaf THEN {0} ELSE 1 .. Len(pages)
    /\ \A i \in 1 .. Len(roots) : roots[i].page \in 1 .. Len(pages)
    /\ \A w \in Writers : latch[w] # {} => wr[w].pc \notin {"idle", "root"}
    /\ \A w, v \in Writers : w # v => latch[w] \cap (latch[v] \cup wr[v].outer) = {}

(* What was stored at version s under the keys in lo .. hi, from the order  *)
(* of the commits alone.                                                    *)
Stored(s, lo, hi) ==
    LET last(k) == Max({i \in 1 .. Len(book) : book[i].key = k /\ book[i].ver <= s} \cup {0})
        there   == {k \in lo .. hi : last(k) # 0}
    IN  {<<k, book[last(k)].val>> : k \in {k \in there : book[last(k)].val # 0}}

(* A point or range query that ran beside any number of splits, merges and  *)
(* root changes answers exactly what was stored at its snapshot, and every  *)
(* record once; a point query always finds a way to a leaf (the unwrap in   *)
(* traverse_read_key).                                                      *)
ExactAnswer ==
    \A r \in Readers :
        LET q == rd[r]
            found == {<<q.found[i].lo, q.found[i].ver>> : i \in 1 .. Len(q.found)}
        IN  /\ q.pc # "panic"
            /\ q.pc = "done" =>
                  /\ found = Stored(q.snap, q.from, q.hi)
                  /\ Cardinality(found) = Len(q.found)

(* The live pages of the newest tree, level by level from the root.         *)
Children(p) == {e.ptr : e \in ToSet(LiveSlots(pages[p]))}
Levels ==
    LET level[n \in 0 .. Root.height - 1] ==
            IF n = 0 THEN {Root.page} ELSE UNION {Children(p) : p \in level[n - 1]}
    IN  level
LivePages == LET levels == Levels IN UNION {levels[n] : n \in DOMAIN levels}

(* Whenever no reorganization is under way, the live entries of every index *)
(* page of the newest tree cover its fence without gap or overlap, the live *)
(* records of a leaf lie in its fence, and all leaves are at the height the *)
(* root index says: what split, merge and dec_key do to fences adds up.     *)
FencesPartition ==
    LET levels == Levels
        Fits(page, lo, hi) ==
            LET slots == ToSet(LiveSlots(pages[page])) IN
            /\ \A e \in slots : lo <= e.lo /\ e.hi <= hi
            /\ ~pages[page].leaf =>
                  \A k \in lo .. hi : Cardinality({e \in slots : Covers(e, k)}) = 1
    IN  inflight = {} =>
            /\ Fits(Root.page, MinKey, MaxKey)
            /\ \A n \in DOMAIN levels : \A p \in levels[n] :
                  /\ pages[p].leaf <=> n = Root.height - 1
                  /\ ~pages[p].leaf => \A e \in ToSet(LiveSlots(pages[p])) : Fits(e.ptr, e.lo, e.hi)

(* Whenever no reorganization is under way, the live records of the newest  *)
(* tree are exactly what is stored: no write went to a page that had been   *)
(* copied already, and no copy took a record twice.                         *)
NothingLost ==
    inflight = {} =>
        LET leaves == Levels[Root.height - 1]
            live   == {<<e.lo, e.ver>> : e \in UNION {ToSet(LiveSlots(pages[p])) : p \in leaves}}
        IN  live = Stored(clock, MinKey, MaxKey)

(* push_uncommitted writes behind the end without looking at the capacity:  *)
(* the degree checked on the way down, and the latch version that shows the *)
(* leaf to be as it was then, are what keeps room in every leaf.            *)
LeafRoom ==
    \A i \in 1 .. Len(pages) : pages[i].leaf => Len(pages[i].slots) <= MaxUnits(pages[i])

(* push does the same in an index page, up to twice for one reorganization  *)
(* below it: the degree keeps two slots free.                               *)
IndexRoom ==
    \A i \in 1 .. Len(pages) : ~pages[i].leaf => Len(pages[i].slots) <= MaxUnits(pages[i])

(* The weak version condition: a page of the newest tree other than the     *)
(* root never has fewer live slots than the 20% that trigger its repair,    *)
(* less the one a delete may take; so a merge has something to work with.   *)
LivePagesFilled ==
    inflight = {} =>
        \A p \in LivePages : p # Root.page => pages[p].live >= Filling20(pages[p])

(* The degrees checked on the way down keep pages within both bounds: no    *)
(* index page is overrun, no page of the newest tree runs out of live slots.*)
PagesFilled == IndexRoom /\ LivePagesFilled

(* The latched leaf that an operation is about to change is the one that    *)
(* the newest tree has for the key: a writer that borrowed its way down     *)
(* beside other writers' reorganizations never changes a page they replaced.*)
LatchedLeafIsCurrent ==
    \A w \in Writers :
        wr[w].pc = "apply" =>
            LET walk[n \in 0 .. Root.height - 1] ==
                    IF n = 0 THEN Root.page
                    ELSE LET p == pages[walk[n - 1]]
                         IN  p.slots[RFind({i \in DOMAIN p.slots : IsActive(p.slots[i])
                                                /\ Covers(p.slots[i], wr[w].key)})].ptr
            IN  IF IsRandom(w) THEN wr[w].curr \in LivePages
                ELSE walk[Root.height - 1] = wr[w].curr

(* A page that leaves the newest tree has been buried, once, and nothing in *)
(* the tree is buried; the only exception are index pages that merge_root   *)
(* replaced, with their one child, as the root: they are never reused.      *)
PagesAccounted ==
    LET dead == {d[1] : d \in graveyard}
        live == LivePages
        left == {p \in 1 .. Len(pages) : p \notin dead /\ p \notin live}
    IN  /\ Cardinality(dead) = Cardinality(graveyard)
        /\ inflight = {} =>
              /\ dead \cap live = {}
              /\ \A p \in left : /\ ~pages[p].leaf /\ pages[p].live = 1
                                 /\ \E i \in 1 .. Len(roots) - 1 : roots[i].page = p

(* Every query ends, whatever the writers do meanwhile, but for one: with a *)
(* record at the largest key below an index page, inc_key saturates, the    *)
(* iterator enters the last leaf again, and returns the record for ever.    *)
(* Nothing else keeps a query from its end.                                 *)
QueriesEnd ==
    \A r \in Readers :
        rd[r].pc # "idle" ~>
            \/ rd[r].pc = "idle"
            \/ \E i, j \in DOMAIN rd[r].found : i # j /\ rd[r].found[i].lo = MaxKey /\ rd[r].found[j].lo = MaxKey
====
