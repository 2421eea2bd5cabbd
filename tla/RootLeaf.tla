------------------------------ MODULE RootLeaf ------------------------------
(***************************************************************************)
(* A tree whose root is a leaf: writers that latch it optimistically and    *)
(* publish records step by step (mv_query/dispatch.rs, olc_query.rs), the   *)
(* version split that replaces a full root (mv_tree/smo.rs), and readers    *)
(* that look at it without any latch (query.rs, iter_query.rs).  The commit *)
(* clock is the abstract Watermark.                                         *)
(*                                                                          *)
(* A latch is a 64-bit version with a write flag.  A borrower only ever     *)
(* compares the version it loaded with the current one, so the model keeps  *)
(* who holds the latch and, for each borrower, whether its version is       *)
(* still the latch's.                                                       *)
(***************************************************************************)
EXTENDS Integers, Sequences, FiniteSets, FiniteSetsExt

CONSTANTS
    Writers,        \* threads that insert, update and delete
    Readers,        \* threads that query
    Keys,
    NumRecords,     \* NUM_RECORDS: how many records a leaf holds
    Setups,         \* what the writers of a behaviour may do, see Setup
    MaxPages,       \* bound of the model: root leaves
    MaxClock        \* bound of the model: no commit starts at or above it

Operations == {"insert", "update", "delete"}

(* The operations the writers dispatch, how many writers are under way at a *)
(* time, enable_gc(true) for updates in place, the versions of a key that   *)
(* are in the leaf from the start, whether it was deleted since, and the    *)
(* version no commit starts at or above.                                    *)
Setup == [ops : SUBSET Operations, together : Nat, updateInPlace : BOOLEAN,
          preload : 1 .. NumRecords - 1, gone : BOOLEAN, stop : 0 .. MaxClock]

(* With so few keys a full root leaf never has 80% live records, even with  *)
(* an update half done: it is split by version, and stays a leaf.           *)
ASSUME RootLeafAssumption ==
    /\ IsFiniteSet(Writers) /\ "none" \notin Writers
    /\ NumRecords \in Nat \ {0}
    /\ IsFiniteSet(Keys) /\ Cardinality(Keys) \in 1 .. (4 * NumRecords + 4) \div 5 - 2
    /\ MaxPages \in Nat \ {0}
    /\ MaxClock \in Nat
    /\ \A s \in Setups : s \in Setup

VARIABLES
    setup,          \* one of Setups, for good
    clock, wm, inflight,    \* the commit clock, see Watermark
    recs,           \* the records written into each page, committed or not
    active, dead,   \* LeafPage.len: live and dead records of each page
    owner,          \* the writer that holds a page's latch
    master,         \* the writer that holds the root index' latch
    roots,          \* the root index: page i is the root from roots[i] on
    wpc,            \* where each writer is
    op, key,        \* the operation it was given
    at,             \* the page it has borrowed
    lcur, mcur,     \* the page's, the index' latch version it loaded is current
    ver,            \* the version of its commit
    picked,         \* split: the records collected
    known,          \* history: the queries an update in place has seen registered
    rpc,            \* where each reader is
    pinned,         \* it holds a ReaderPin
    query,          \* the key of a point query, or AllKeys
    snap,           \* its snapshot
    rpage,          \* the page it reads
    left,           \* the indexes it has not looked at yet: left[1] .. left[2]
    seen,           \* what it has found so far
    book,           \* history: what each key was set to, from which version on
    settled,        \* history: no commit can still change its snapshot
    raced,          \* history: an update in place had not seen it
    expect          \* history: what the snapshot held when it was drawn

clockVars  == <<clock, wm, inflight>>
pageVars   == <<recs, active, dead>>
latchVars  == <<owner, master, lcur, mcur>>
writerVars == <<wpc, op, key, at, ver, picked, known>>
readerVars == <<rpc, pinned, query, snap, rpage, left, seen, settled, raced, expect>>
vars == <<setup, clock, wm, inflight, recs, active, dead, owner, master, roots, wpc,
          op, key, at, lcur, mcur, ver, picked, known, rpc, pinned, query, snap, rpage, left,
          seen, book, settled, raced, expect>>

Clock == INSTANCE Watermark

Pages  == 1 .. MaxPages
None   == "none"
AllKeys == "range"                  \* a query for all keys
Gone   == 0                         \* what a deletion sets a key to
Length(p) == active[p] + dead[p]    \* LeafPage::len

(* VersionInfo; a delete_version of 0 is the null value.                    *)
IsDeleted(r)  == r.del # 0
Matches(r, s) == r.ins <= s /\ (IsDeleted(r) => r.del > s)

(* rfind: the last of the first n records of page p with key k, 0 if none.  *)
RFind(p, k, n) == Max({i \in 1 .. n : recs[p][i].key = k} \cup {0})

LiveIn(p, k) ==
    LET i == RFind(p, k, Length(p)) IN i # 0 /\ ~IsDeleted(recs[p][i])

(* What a snapshot holds, by the history alone: pairs of key and payload.   *)
Content(s, q) ==
    LET latest(k) == {e \in book : e.key = k /\ e.ver <= s
                        /\ \A f \in book : f.key = k /\ f.ver <= s => f.ver <= e.ver}
    IN  UNION {{<<k, e.val>> : e \in {f \in latest(k) : f.val # Gone}} :
               k \in IF q = AllKeys THEN Keys ELSE {q}}

(* The payload of a commit is its version; an update in place flips a sign. *)
Record(k, v) == [key |-> k, ins |-> v, del |-> 0, val |-> v]

(* The tree after one key was inserted, updated, and perhaps deleted: every *)
(* version of it ended the one before.                                      *)
Init ==
    /\ setup \in Setups
    /\ LET n     == setup.preload
           ended == IF setup.gone THEN n ELSE n - 1
       IN  /\ clock = ended + 2
           /\ wm = ended + 1
           /\ inflight = {}
           /\ \E k \in Keys :
                 /\ recs = [p \in Pages |-> IF p # 1 THEN << >> ELSE
                              [i \in 1 .. n |->
                                 [Record(k, i) EXCEPT
                                     !.del = IF i <= ended THEN i + 1 ELSE 0]]]
                 /\ book = {[ver |-> v, key |-> k, val |-> IF v <= n THEN v ELSE Gone] :
                              v \in 1 .. ended + 1}
           /\ active = [p \in Pages |-> IF p = 1 THEN n - ended ELSE 0]
           /\ dead   = [p \in Pages |-> IF p = 1 THEN ended ELSE 0]
    /\ owner  = [p \in Pages |-> None]
    /\ master = None
    /\ roots  = <<1>>
    /\ wpc    = [w \in Writers |-> "idle"]
    /\ op     = [w \in Writers |-> None]
    /\ key    = [w \in Writers |-> None]
    /\ at     = [w \in Writers |-> 0]
    /\ lcur   = [w \in Writers |-> FALSE]
    /\ mcur   = [w \in Writers |-> FALSE]
    /\ ver    = [w \in Writers |-> 0]
    /\ picked = [w \in Writers |-> {}]
    /\ known  = [w \in Writers |-> {}]
    /\ rpc     = [r \in Readers |-> "idle"]
    /\ pinned  = [r \in Readers |-> FALSE]
    /\ query   = [r \in Readers |-> AllKeys]
    /\ snap    = [r \in Readers |-> 0]
    /\ rpage   = [r \in Readers |-> 0]
    /\ left    = [r \in Readers |-> <<1, 0>>]
    /\ seen    = [r \in Readers |-> << >>]
    /\ settled = [r \in Readers |-> FALSE]
    /\ raced   = [r \in Readers |-> FALSE]
    /\ expect  = [r \in Readers |-> {}]

---------------------------------------------------------------------------
(* Writers: the optimistic descent to the leaf.                             *)

WGoto(w, from, to) == wpc[w] = from /\ wpc' = [wpc EXCEPT ![w] = to]

(* A compare-exchange on a latch succeeds only if the version loaded is the *)
(* current one and nobody holds it; the weak form may fail even then.       *)
Upgrade(w, holder, current, to) ==
    \/ holder = None /\ current /\ wpc' = [wpc EXCEPT ![w] = to]
    \/ wpc' = [wpc EXCEPT ![w] = "load"]

(* dispatch_crud with one of the writing operations.                        *)
Dispatch(w) ==
    /\ WGoto(w, "idle", "load")
    /\ Cardinality({v \in Writers : wpc[v] # "idle"}) < setup.together
    /\ \E o \in setup.ops, k \in Keys :
          /\ op' = [op EXCEPT ![w] = o]
          /\ key' = [key EXCEPT ![w] = k]
    /\ UNCHANGED <<clockVars, pageVars, latchVars, roots, at, ver, picked, known,
                   readerVars, book>>

(* root.borrow_read(): the version of the index' latch, flag masked out.    *)
BorrowMaster(w) ==
    /\ WGoto(w, "load", "root")
    /\ mcur' = [mcur EXCEPT ![w] = master = None]
    /\ UNCHANGED <<clockVars, pageVars, owner, master, lcur, roots, op, key, at, ver,
                   picked, known, readerVars, book>>

(* master_guard.block(): the current root.                                  *)
LoadRoot(w) ==
    /\ WGoto(w, "root", "borrow")
    /\ at' = [at EXCEPT ![w] = Len(roots)]
    /\ UNCHANGED <<clockVars, pageVars, latchVars, roots, op, key, ver, picked, known,
                   readerVars, book>>

(* root_block.borrow_read().                                                *)
BorrowLeaf(w) ==
    /\ WGoto(w, "borrow", "degree")
    /\ lcur' = [lcur EXCEPT ![w] = owner[at[w]] = None]
    /\ UNCHANGED <<clockVars, pageVars, owner, master, mcur, roots, op, key, at, ver,
                   picked, known, readerVars, book>>

(* unsafe_degree_root of a leaf: Overflow or Ok.                            *)
UnsafeDegreeRoot(w) ==
    /\ wpc[w] = "degree"
    /\ wpc' = [wpc EXCEPT ![w] = IF Length(at[w]) >= NumRecords
                                 THEN "upgradeMaster" ELSE "upgrade"]
    /\ UNCHANGED <<clockVars, pageVars, latchVars, roots, op, key, at, ver, picked,
                   known, readerVars, book>>

(* master_guard.upgrade_write_lock().                                       *)
UpgradeMaster(w) ==
    /\ wpc[w] = "upgradeMaster"
    /\ Upgrade(w, master, mcur[w], "collect")
    /\ master' = IF wpc'[w] = "collect" THEN w ELSE master
    /\ UNCHANGED <<clockVars, pageVars, owner, lcur, mcur, roots, op, key, at, ver,
                   picked, known, readerVars, book>>

(* Mutant: the page is latched whatever happened since it was borrowed.     *)
UpgradeLeafUnversioned(w) ==
    /\ wpc[w] = "upgrade"
    /\ Upgrade(w, owner[at[w]], TRUE, "latched")
    /\ owner' = IF wpc'[w] = "latched" THEN [owner EXCEPT ![at[w]] = w] ELSE owner
    /\ UNCHANGED <<clockVars, pageVars, master, lcur, mcur, roots, op, key, at, ver,
                   picked, known, readerVars, book>>

(* curr_guard.upgrade_write_lock() on the leaf.                             *)
UpgradeLeaf(w) ==
    /\ wpc[w] = "upgrade"
    /\ Upgrade(w, owner[at[w]], lcur[w], "latched")
    /\ owner' = IF wpc'[w] = "latched" THEN [owner EXCEPT ![at[w]] = w] ELSE owner
    /\ UNCHANGED <<clockVars, pageVars, master, lcur, mcur, roots, op, key, at, ver,
                   picked, known, readerVars, book>>

---------------------------------------------------------------------------
(* split_root: the index is latched, the page that is copied is not.        *)

NewPage == Len(roots) + 1

(* split below 80% live records, by version: they are collected by          *)
(* reference.  A split by key would turn the root into an index page.       *)
Collect(w) ==
    /\ WGoto(w, "collect", "copy")
    /\ NewPage \in Pages
    /\ active[at[w]] < (4 * NumRecords + 4) \div 5
    /\ picked' = [picked EXCEPT ![w] =
                    {i \in 1 .. Length(at[w]) : ~IsDeleted(recs[at[w]][i])}]
    /\ UNCHANGED <<clockVars, pageVars, latchVars, roots, op, key, at, ver, known,
                   readerVars, book>>

(* The records of page p at the indexes I, in order.                        *)
Cloned(p, I) ==
    [n \in 1 .. Cardinality(I) |->
        recs[p][CHOOSE i \in I : Cardinality({j \in I : j <= i}) = n]]

(* bulk_push: they are cloned into the new page, all counted as active.     *)
BulkPush(w) ==
    /\ WGoto(w, "copy", "startSplit")
    /\ recs' = [recs EXCEPT ![NewPage] = Cloned(at[w], picked[w])]
    /\ active' = [active EXCEPT ![NewPage] = Cardinality(picked[w])]
    /\ dead' = [dead EXCEPT ![NewPage] = 0]
    /\ picked' = [picked EXCEPT ![w] = {}]
    /\ UNCHANGED <<clockVars, latchVars, roots, op, key, at, ver, known, readerVars,
                   book>>

(* start_tx_commit: the next version is the caller's.                       *)
StartTxCommit(w) ==
    /\ clock < setup.stop
    /\ Clock!Begin
    /\ ver' = [ver EXCEPT ![w] = clock]

(* end_tx_commit, or a Delete that gives its version up.                    *)
EndTxCommit(w) ==
    /\ Clock!Finish(ver[w])
    /\ ver' = [ver EXCEPT ![w] = 0]

StartSplit(w) ==
    /\ WGoto(w, "startSplit", "append")
    /\ StartTxCommit(w)
    /\ UNCHANGED <<pageVars, latchVars, roots, op, key, at, picked, known, readerVars,
                   book>>

(* The new page is borrowed and appended to the root index.                 *)
AppendRoot(w) ==
    /\ WGoto(w, "append", "endSplit")
    /\ roots' = Append(roots, ver[w])
    /\ at' = [at EXCEPT ![w] = NewPage]
    /\ lcur' = [lcur EXCEPT ![w] = TRUE]
    /\ UNCHANGED <<clockVars, pageVars, owner, master, mcur, op, key, ver, picked,
                   known, readerVars, book>>

EndSplit(w) ==
    /\ WGoto(w, "endSplit", "unlatchMaster")
    /\ EndTxCommit(w)
    /\ UNCHANGED <<pageVars, latchVars, roots, op, key, at, picked, known, readerVars,
                   book>>

(* _master_guard is dropped: the index' latch version moves on.             *)
UnlatchMaster(w) ==
    /\ WGoto(w, "unlatchMaster", "upgrade")
    /\ master' = None
    /\ mcur' = [v \in Writers |-> FALSE]
    /\ UNCHANGED <<clockVars, pageVars, owner, lcur, roots, op, key, at, ver, picked,
                   known, readerVars, book>>

---------------------------------------------------------------------------
(* Writers: the operation on the latched leaf.                              *)

Doing(w, o) == op[w] = o

(* The history: from version v on, key k is set to x.                       *)
Note(v, k, x) == book' = book \cup {[ver |-> v, key |-> k, val |-> x]}

(* Insert of a key that is not there.                                       *)
StartInsert(w) ==
    /\ WGoto(w, "latched", "push")
    /\ Doing(w, "insert")
    /\ ~LiveIn(at[w], key[w])
    /\ StartTxCommit(w)
    /\ Note(clock, key[w], clock)
    /\ UNCHANGED <<pageVars, latchVars, roots, op, key, at, picked, known, readerVars>>

(* An operation that returns ZeroAffected before it draws a version.        *)
Reject(w) ==
    /\ \/ wpc[w] = "latched" /\ Doing(w, "insert") /\ LiveIn(at[w], key[w])
       \/ wpc[w] = "validate" /\ ~LiveIn(at[w], key[w])
    /\ wpc' = [wpc EXCEPT ![w] = "unlatch"]
    /\ UNCHANGED <<clockVars, pageVars, latchVars, roots, op, key, at, ver, picked, known,
                   readerVars, book>>

(* Update: without updates in place the records are validated at once;      *)
(* else newest_live_si first looks whether a reader is pinned.              *)
StartUpdate(w) ==
    /\ wpc[w] = "latched"
    /\ Doing(w, "update")
    /\ wpc' = [wpc EXCEPT ![w] =
                 IF setup.updateInPlace /\ \A r \in Readers : ~pinned[r]
                 THEN "peekMax" ELSE "validate"]
    /\ UNCHANGED <<clockVars, pageVars, latchVars, roots, op, key, at, ver, picked, known,
                   readerVars, book>>

Registered(r) == rpc[r] \in {"root", "len", "look", "done"}

(* Mutant: the registered readers are not looked at.                        *)
PeekMaxIgnored(w) ==
    /\ wpc[w] = "peekMax"
    /\ RFind(at[w], key[w], Length(at[w])) # 0
    /\ wpc' = [wpc EXCEPT ![w] = "overwrite"]
    /\ known' = [known EXCEPT ![w] = {r \in Readers : Registered(r)}]
    /\ UNCHANGED <<clockVars, pageVars, latchVars, roots, op, key, at, ver, picked,
                   readerVars, book>>

(* peek_max of the registered readers, and whether the newest record of the *)
(* key is younger than all of them (there may be none at all).              *)
PeekMax(w) ==
    /\ wpc[w] = "peekMax"
    /\ LET live == {r \in Readers : Registered(r)}
           i    == RFind(at[w], key[w], Length(at[w]))
           free == i # 0 /\ \A r \in live : recs[at[w]][i].ins > snap[r]
       IN  /\ wpc' = [wpc EXCEPT ![w] = IF free THEN "overwrite" ELSE "validate"]
           /\ known' = [known EXCEPT ![w] = IF free THEN live ELSE {}]
    /\ UNCHANGED <<clockVars, pageVars, latchVars, roots, op, key, at, ver, picked,
                   readerVars, book>>

(* The payload is overwritten in place, and a dead record revived.  For the *)
(* snapshots that lead to this page the key has the new payload from the    *)
(* record's insertion on.                                                   *)
Overwrite(w) ==
    LET i    == RFind(at[w], key[w], Length(at[w]))
        r    == recs[at[w]][i]
        from == Max({r.ins, roots[at[w]]})
    IN  /\ wpc[w] = "overwrite"
        /\ wpc' = [wpc EXCEPT ![w] = IF IsDeleted(r) THEN "commitRevived" ELSE "unlatch"]
        /\ recs' = [recs EXCEPT ![at[w]][i] = [r EXCEPT !.val = -r.val, !.del = 0]]
        /\ book' = {e \in book : e.key = key[w] => e.ver < from}
                       \cup {[ver |-> from, key |-> key[w], val |-> -r.val]}
        /\ raced' = [q \in Readers |-> raced[q] \/ (rpc[q] # "idle" /\ q \notin known[w])]
        /\ known' = [known EXCEPT ![w] = {}]
        /\ UNCHANGED <<clockVars, active, dead, latchVars, roots, op, key, at, ver, picked,
                       rpc, pinned, query, snap, rpage, left, seen, settled, expect>>

(* commit_delta: live and dead records of page p change by a and d.         *)
CommitDelta(p, a, d) ==
    /\ active' = [active EXCEPT ![p] = @ + a]
    /\ dead' = [dead EXCEPT ![p] = @ + d]

(* The revived record is counted as live again.                             *)
CommitRevived(w) ==
    /\ WGoto(w, "commitRevived", "unlatch")
    /\ CommitDelta(at[w], 1, -1)
    /\ UNCHANGED <<clockVars, recs, latchVars, roots, op, key, at, ver, picked, known,
                   readerVars, book>>

(* Update of a key that is there.                                           *)
StartUpdateCommit(w) ==
    /\ WGoto(w, "validate", "push")
    /\ LiveIn(at[w], key[w])
    /\ StartTxCommit(w)
    /\ Note(clock, key[w], clock)
    /\ UNCHANGED <<pageVars, latchVars, roots, op, key, at, picked, known, readerVars>>

(* push_uncommitted behind the committed records.                           *)
PushUncommitted(w) ==
    /\ WGoto(w, "push", "commitLen")
    /\ recs' = [recs EXCEPT ![at[w]] =
                  Append(SubSeq(@, 1, Length(at[w])), Record(key[w], ver[w]))]
    /\ UNCHANGED <<clockVars, active, dead, latchVars, roots, op, key, at, ver, picked,
                   known, readerVars, book>>

(* The soft commit that makes the new record visible.                       *)
CommitLen(w) ==
    /\ wpc[w] = "commitLen"
    /\ wpc' = [wpc EXCEPT ![w] = IF Doing(w, "update") THEN "kill" ELSE "end"]
    /\ CommitDelta(at[w], 1, 0)
    /\ UNCHANGED <<clockVars, recs, latchVars, roots, op, key, at, ver, picked, known,
                   readerVars, book>>

(* Delete draws its version before it looks for the record.                 *)
StartDelete(w) ==
    /\ WGoto(w, "latched", "kill")
    /\ Doing(w, "delete")
    /\ StartTxCommit(w)
    /\ IF LiveIn(at[w], key[w]) THEN Note(clock, key[w], Gone) ELSE UNCHANGED book
    /\ UNCHANGED <<pageVars, latchVars, roots, op, key, at, picked, known, readerVars>>

(* Mutant: an update ends the record it has just pushed.                    *)
DoomedNewest(w) == RFind(at[w], key[w], Length(at[w]))

(* The record to end: delete takes the last one of the key, and             *)
(* delete_after_update skips the one just pushed.                           *)
Doomed(w) ==
    RFind(at[w], key[w], IF Doing(w, "update") THEN Length(at[w]) - 1 ELSE Length(at[w]))

(* The lifetime of the record ends.                                         *)
Kill(w) ==
    /\ WGoto(w, "kill", "commitDead")
    /\ LET i == Doomed(w)
       IN  /\ i # 0 /\ ~IsDeleted(recs[at[w]][i])
           /\ recs' = [recs EXCEPT ![at[w]][i].del = ver[w]]
    /\ UNCHANGED <<clockVars, active, dead, latchVars, roots, op, key, at, ver, picked,
                   known, readerVars, book>>

(* Delete finds no record, or a dead one: the version is given up.          *)
AbandonDelete(w) ==
    /\ WGoto(w, "kill", "unlatch")
    /\ Doing(w, "delete")
    /\ ~LiveIn(at[w], key[w])
    /\ EndTxCommit(w)
    /\ UNCHANGED <<pageVars, latchVars, roots, op, key, at, picked, known, readerVars,
                   book>>

(* The second soft commit: one live record less, one dead record more.      *)
CommitDead(w) ==
    /\ WGoto(w, "commitDead", "end")
    /\ CommitDelta(at[w], -1, 1)
    /\ UNCHANGED <<clockVars, recs, latchVars, roots, op, key, at, ver, picked, known,
                   readerVars, book>>

EndOperation(w) ==
    /\ WGoto(w, "end", "unlatch")
    /\ EndTxCommit(w)
    /\ UNCHANGED <<pageVars, latchVars, roots, op, key, at, picked, known, readerVars,
                   book>>

(* leaf_guard is dropped: the page's latch version moves on.                *)
Unlatch(w) ==
    /\ WGoto(w, "unlatch", "idle")
    /\ owner' = [owner EXCEPT ![at[w]] = None]
    /\ lcur' = [v \in Writers |-> lcur[v] /\ at[v] # at[w]]
    /\ op' = [op EXCEPT ![w] = None]
    /\ key' = [key EXCEPT ![w] = None]
    /\ at' = [at EXCEPT ![w] = 0]
    /\ UNCHANGED <<clockVars, pageVars, master, mcur, roots, ver, picked, known,
                   readerVars, book>>

---------------------------------------------------------------------------
(* Readers.                                                                 *)

RGoto(r, from, to) == rpc[r] = from /\ rpc' = [rpc EXCEPT ![r] = to]

(* pin_reader.                                                              *)
PinReader(r) ==
    /\ RGoto(r, "idle", "draw")
    /\ pinned' = [pinned EXCEPT ![r] = TRUE]
    /\ UNCHANGED <<clockVars, pageVars, latchVars, roots, writerVars, query, snap, rpage,
                   left, seen, book, settled, raced, expect>>

(* A query q at snapshot s; a snapshot is settled once every commit it may  *)
(* include is over.                                                         *)
Open(r, s, q) ==
    LET done == s < clock /\ \A v \in inflight : s < v
    IN  /\ snap' = [snap EXCEPT ![r] = s]
        /\ query' = [query EXCEPT ![r] = q]
        /\ settled' = [settled EXCEPT ![r] = done]
        /\ expect' = [expect EXCEPT ![r] = IF done THEN Content(s, q) ELSE {}]

(* current_version_for_reader, under the pin.                               *)
DrawSnapshot(r) ==
    /\ RGoto(r, "draw", "register")
    /\ \E q \in Keys \cup {AllKeys} : Open(r, wm, q)
    /\ UNCHANGED <<clockVars, pageVars, latchVars, roots, writerVars, pinned, rpage, left,
                   seen, book, raced>>

(* RangeQueryIter::new for an earlier version the client knows of: it is    *)
(* registered, without a pin.                                               *)
AskForVersion(r) ==
    /\ RGoto(r, "idle", "root")
    /\ \E s \in (1 .. clock - 1) \ inflight, q \in Keys \cup {AllKeys} : Open(r, s, q)
    /\ UNCHANGED <<clockVars, pageVars, latchVars, roots, writerVars, pinned, rpage, left,
                   seen, book, raced>>

(* on_acquire_reader_snapshot.                                              *)
Register(r) ==
    /\ RGoto(r, "register", "root")
    /\ UNCHANGED <<clockVars, pageVars, latchVars, roots, writerVars, pinned, query, snap,
                   rpage, left, seen, book, settled, raced, expect>>

(* retrieve_root_for: the newest root that is not younger than the          *)
(* snapshot.                                                                *)
RootFor(r) ==
    /\ RGoto(r, "root", "len")
    /\ rpage' = [rpage EXCEPT ![r] = Max({p \in 1 .. Len(roots) : roots[p] <= snap[r]})]
    /\ UNCHANGED <<clockVars, pageVars, latchVars, roots, writerVars, pinned, query, snap,
                   left, seen, book, settled, raced, expect>>

(* as_records: the length is loaded once.                                   *)
AsRecords(r) ==
    /\ RGoto(r, "len", "look")
    /\ left' = [left EXCEPT ![r] = <<1, Length(rpage[r])>>]
    /\ UNCHANGED <<clockVars, pageVars, latchVars, roots, writerVars, pinned, query, snap,
                   rpage, seen, book, settled, raced, expect>>

(* The range iterator's filter, from the first record on.                   *)
FilterRecord(r) ==
    LET lo  == left[r][1]
        hi  == left[r][2]
        rec == recs[rpage[r]][lo]
    IN  /\ rpc[r] = "look"
        /\ query[r] = AllKeys
        /\ lo <= hi
        /\ left' = [left EXCEPT ![r] = <<lo + 1, hi>>]
        /\ seen' = [seen EXCEPT ![r] =
                      IF Matches(rec, snap[r]) THEN Append(@, <<rec.key, rec.val>>) ELSE @]
        /\ UNCHANGED <<clockVars, pageVars, latchVars, roots, writerVars, rpc, pinned,
                       query, snap, rpage, book, settled, raced, expect>>

(* The point query's find, from the last record on; it stops at a match.    *)
FindRecord(r) ==
    LET lo  == left[r][1]
        hi  == left[r][2]
        rec == recs[rpage[r]][hi]
        hit == rec.key = query[r] /\ Matches(rec, snap[r])
    IN  /\ rpc[r] = "look"
        /\ query[r] # AllKeys
        /\ lo <= hi
        /\ left' = [left EXCEPT ![r] = IF hit THEN <<1, 0>> ELSE <<lo, hi - 1>>]
        /\ seen' = [seen EXCEPT ![r] = IF hit THEN <<<<rec.key, rec.val>>>> ELSE @]
        /\ UNCHANGED <<clockVars, pageVars, latchVars, roots, writerVars, rpc, pinned,
                       query, snap, rpage, book, settled, raced, expect>>

(* Nothing is left to look at.                                              *)
Answer(r) ==
    /\ RGoto(r, "look", "done")
    /\ left[r][1] > left[r][2]
    /\ UNCHANGED <<clockVars, pageVars, latchVars, roots, writerVars, pinned, query, snap,
                   rpage, left, seen, book, settled, raced, expect>>

(* on_release_reader_snapshot, and the pin is dropped.                      *)
Close(r) ==
    /\ RGoto(r, "done", "idle")
    /\ pinned' = [pinned EXCEPT ![r] = FALSE]
    /\ query' = [query EXCEPT ![r] = AllKeys]
    /\ snap' = [snap EXCEPT ![r] = 0]
    /\ rpage' = [rpage EXCEPT ![r] = 0]
    /\ left' = [left EXCEPT ![r] = <<1, 0>>]
    /\ seen' = [seen EXCEPT ![r] = << >>]
    /\ settled' = [settled EXCEPT ![r] = FALSE]
    /\ raced' = [raced EXCEPT ![r] = FALSE]
    /\ expect' = [expect EXCEPT ![r] = {}]
    /\ known' = [w \in Writers |-> known[w] \ {r}]
    /\ UNCHANGED <<clockVars, pageVars, latchVars, roots, wpc, op, key, at, ver, picked, book>>

(* Snapshot calls of all threads let the watermark rise.                    *)
AdvanceWatermark ==
    /\ \E v \in wm + 1 .. clock : Clock!Advance(v)
    /\ UNCHANGED <<pageVars, latchVars, roots, writerVars, readerVars, book>>

---------------------------------------------------------------------------
Descend(w) ==
    \/ Dispatch(w) \/ BorrowMaster(w) \/ LoadRoot(w) \/ BorrowLeaf(w)
    \/ UnsafeDegreeRoot(w) \/ UpgradeMaster(w) \/ UpgradeLeaf(w)

SplitRoot(w) ==
    \/ Collect(w) \/ BulkPush(w) \/ StartSplit(w) \/ AppendRoot(w) \/ EndSplit(w)
    \/ UnlatchMaster(w)

Operate(w) ==
    \/ StartInsert(w) \/ Reject(w) \/ StartUpdate(w) \/ PeekMax(w) \/ Overwrite(w)
    \/ CommitRevived(w) \/ StartUpdateCommit(w) \/ PushUncommitted(w) \/ CommitLen(w)
    \/ StartDelete(w) \/ Kill(w) \/ AbandonDelete(w) \/ CommitDead(w) \/ EndOperation(w)
    \/ Unlatch(w)

Reader(r) ==
    \/ PinReader(r) \/ DrawSnapshot(r) \/ AskForVersion(r) \/ Register(r) \/ RootFor(r)
    \/ AsRecords(r) \/ FilterRecord(r) \/ FindRecord(r) \/ Answer(r) \/ Close(r)

Next ==
    /\ \/ \E w \in Writers : Descend(w) \/ SplitRoot(w) \/ Operate(w)
       \/ \E r \in Readers : Reader(r)
       \/ AdvanceWatermark
    /\ UNCHANGED setup

Spec == Init /\ [][Next]_vars

---------------------------------------------------------------------------
WriterPCs ==
    {"idle", "load", "root", "borrow", "degree", "upgradeMaster", "upgrade",
     "collect", "copy", "startSplit", "append", "endSplit", "unlatchMaster",
     "latched", "peekMax", "overwrite", "commitRevived", "validate", "push",
     "commitLen", "kill", "commitDead", "end", "unlatch"}

ReaderPCs == {"idle", "draw", "register", "root", "len", "look", "done"}

RecordType == [key : Keys, ins : Nat, del : Nat, val : Int]

TypeOK ==
    /\ setup \in Setups
    /\ clock \in Nat /\ wm \in Nat /\ inflight \in SUBSET Nat
    /\ recs \in [Pages -> Seq(RecordType)]
    /\ active \in [Pages -> 0 .. NumRecords]
    /\ dead \in [Pages -> 0 .. NumRecords]
    /\ owner \in [Pages -> Writers \cup {None}]
    /\ master \in Writers \cup {None}
    /\ roots \in Seq(Nat) /\ Len(roots) \in Pages
    /\ wpc \in [Writers -> WriterPCs]
    /\ op \in [Writers -> Operations \cup {None}]
    /\ key \in [Writers -> Keys \cup {None}]
    /\ at \in [Writers -> Pages \cup {0}]
    /\ lcur \in [Writers -> BOOLEAN]
    /\ mcur \in [Writers -> BOOLEAN]
    /\ ver \in [Writers -> Nat]
    /\ picked \in [Writers -> SUBSET (1 .. NumRecords)]
    /\ known \in [Writers -> SUBSET Readers]
    /\ rpc \in [Readers -> ReaderPCs]
    /\ pinned \in [Readers -> BOOLEAN]
    /\ query \in [Readers -> Keys \cup {AllKeys}]
    /\ snap \in [Readers -> Nat]
    /\ rpage \in [Readers -> Pages \cup {0}]
    /\ left \in [Readers -> Nat \X Nat]
    /\ seen \in [Readers -> Seq(Keys \X Int)]
    /\ book \in SUBSET [ver : Nat, key : Keys, val : Int]
    /\ settled \in [Readers -> BOOLEAN]
    /\ raced \in [Readers -> BOOLEAN]
    /\ expect \in [Readers -> SUBSET (Keys \X Int)]

(* A query on a settled snapshot returns exactly what the snapshot held     *)
(* when it was drawn, each key once: however its latch-free look at the     *)
(* page interleaves with the soft commits of insert, update and delete and  *)
(* with version splits.  Only a reader that announced itself after an       *)
(* update in place had looked for readers is left out.                      *)
ExactScan ==
    \A r \in Readers :
        rpc[r] = "done" /\ settled[r] /\ ~raced[r] =>
            /\ {seen[r][i] : i \in 1 .. Len(seen[r])} = expect[r]
            /\ Len(seen[r]) = Cardinality(expect[r])

(* The page a writer has latched is the current root and has room for one   *)
(* record more, although both were looked at before the latch was taken.    *)
LatchedLeafHasRoom ==
    \A w \in Writers :
        wpc[w] \in {"latched", "peekMax", "overwrite", "validate", "push"} =>
            /\ owner[at[w]] = w
            /\ at[w] = Len(roots)
            /\ Length(at[w]) < NumRecords

AtRest(p) == p <= Len(roots) /\ owner[p] = None

(* In a page nobody has latched the lifetimes of a key's records follow     *)
(* each other without overlap, so that no snapshot finds two of them, and   *)
(* insertion versions ascend, which a point query's skip_while relies on.   *)
LifetimesDisjoint ==
    \A p \in Pages : AtRest(p) =>
        \A i, j \in 1 .. Len(recs[p]) : i < j =>
            /\ recs[p][i].ins < recs[p][j].ins
            /\ recs[p][i].key = recs[p][j].key =>
                  recs[p][i].del \in 1 .. recs[p][j].ins
===========================================================================
