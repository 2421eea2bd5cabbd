# A TLA+ development for cMVBT

cMVBT is a concurrent multiversion B-tree: writers latch pages optimistically
and replace full or sparse pages by copies, readers look at the snapshot they
drew without any latch, and pages no snapshot needs any more are recycled. The
repository also holds the competitors it is measured against (a B+-tree with a
list of versions per record, under several locking strategies), a buffer pool that
is designed but not built in, and the driver of the experiments. The modules in
this directory model all of these, with the stress on the places where threads
meet.

## 1. Inventory

| Component (source) | State | Operations | Meets |
| --- | --- | --- | --- |
| Commit clock (`mv_sync/clock.rs`, `version_handle.rs`) | version counter, one slot per thread, cached minimum `GLOBAL_MIN`, `GLOBAL_DIRTY`, thread ids | start and end a commit, snapshot for a reader, release a slot, register and end a thread | everything: writers draw versions, readers and the collector draw the watermark |
| Collector (`mv_gc/*`) | pins, registered snapshots, graveyard by death version | pin, register, release, bury a page, `free_block` | readers announce themselves, reorganizations bury and reuse pages |
| Pages and records (`mv_page_model`, `mv_record_model`) | records with insertion and deletion version, live and dead count in one word | push, soft commit, end a lifetime, bulk copy | written under a latch, read without |
| Latches (`mv_sync/smart_cell.rs`) | version and write flag per page and for the root index | borrow, upgrade, release | writers only; readers ignore them |
| CRUD dispatch, write descent, random operations (`mv_query/dispatch.rs`, `olc_query.rs`, `rand_query.rs`) | none | insert, update (in place too), delete, their random variants | latch, clock, page, reorganizations |
| Reorganizations (`mv_tree/smo.rs`) | none | version split, key split, merge with and without a key split, root split, root merge | latch, clock, collector, root index |
| Root index (`mv_root/*`) | roots by version: frugal list, skip list, B-tree, linked list | append, find for a snapshot | descent, queries |
| Queries (`query.rs`, `iter_query.rs`) | the iterator's path, buffer and range | point, range, next, drop | collector, root index, pages |
| Transactions (`mv_tx_query`, `mv_tx_model`, `lib.rs`) | thread pool, open snapshots, tracker in use | execute, enqueue, batch, switch the collector | dispatch, collector |
| Baseline tree (`dexa/mvb_tree`, `mvb_crud_model`, `mvb_page_model`) | nodes in versioned cells, root pointer, keys dropped by splits | insert, update, delete, point, range, smallest and largest key | its own clock, version lists, latches |
| Baseline version lists (`dexa/mvb_version_index`) | linked list, skip list, frugal list, vWeaver with ridges | append, end, find, clone, scan along ridges | written under the latch of a leaf, read without |
| Baseline latches (`dexa/mvb_utils/smart_cell.rs`, `mvb_locking`) | version word, mutex or reader-writer lock, or both | borrow, upgrade, pin, validate, drop | every strategy uses them differently |
| Block buffer (`mv_buffer/block_buffer.rs`) | frames, page table, free list, clock hand, epochs, file | fetch, new, unpin, flush, evict, optimistic read | outside the build: `mv_buffer/mod.rs` comments it out |
| Experiments (`paper/online.rs`) | operation counter, window of keys, plan of historical scans | writers, readers, scans | any index behind `PaperIndex` |
| Other drivers and statistics (`ycsb`, `mv_test.rs`, `main.rs`), retired code (`outdated.rs`, `leaf_pagev2.rs`, `crud_rate_control.rs`) | | | |

What is hard to test here: a fold over slots that belong to no common moment;
thread ids that change hands; a reader that is announced, has its snapshot and
is registered at three different moments while a writer computes the bound
below which pages may be reused in three loads of its own; the soft commits of
an update, between which readers and splits may look at the page; everything a
writer reads before it latches; reorganizations that replace pages under a
descent; saturating key arithmetic at the end of the key domain; lists whose
short cuts are set from the neighbours of the moment; frames that are evicted
under a reader; and registrations of snapshots that outlive the call that made
them. `PROJECT.json` lists each of these hazards at its line with the properties
that would catch it, or why none is stated.

What makes the parts correct: the watermark never passes a commit in flight and
never falls; a page is reused only when no reader can reach it, and by one
writer; a query returns exactly what its snapshot held; a page that is latched
is the one the operation belongs into and has room; fences partition the keys and
no page that left the tree is forgotten or buried twice; a cell gives no torn read
and loses no write; an evicted page is in the file; registrations match the
transactions under way; and whatever retries, ends.

## 2. Modules

Memory is sequentially consistent in all modules, and one atomic access of the
code (or a group of accesses that no other thread can tell apart) is one step.
Weaker orderings of the hardware are outside the models; where the code orders a
store before loads of other cells by Release and Acquire only, as `publish_insert`
does (`paper/online.rs:449-454`, two writers could each miss the other's mark and
both stop short of a marked key), the runs show nothing of it.

**The clock and the collector**

* **Watermark**: what the rest of the tree needs to know of the clock. Commits
  begin and finish, the watermark rises up to the oldest commit in flight.
  `BeginUntracked` is a commit the clock does not account for.
* **CommitClock**: `clock.rs` atomic step by atomic step. A thread is its thread
  id; `pc` says which access comes next. `BeginRead`, `BeginPin` and
  `BeginFreeBlock` are the three callers of a snapshot and differ in the clock
  reading they pass. `EnableGc` installs a tracker (`tracked`), after which
  `free_block` is called too. `covered`, `floor` and `newest` are history.
* **Reclamation**: readers (pin, draw, register, visit, release, unpin), writers
  that allocate through `free_block` (committed snapshot, registered readers,
  pins, front of the graveyard, claim), and reorganizations that replace one
  block (split) or two (merge) and bury them, in the order of each: a split ends
  its commit first, a merge buries first. The clock is Watermark. A block id is
  an incarnation: a block that is reused comes back under a fresh id.

**The tree**

* **RootLeaf**: a tree whose root is a leaf. Writers descend optimistically
  (index latch, root, page latch, degree, upgrade), publish step by step
  (push, first soft commit, end of the old record, second soft commit, end of
  the commit, release), or split a full root by version under the index latch;
  with a tracker an update may overwrite in place. Readers pin and draw, or ask
  for a version they know, find the root of their snapshot, load the length once
  and look at one record per step. Latches are kept as holder plus, per
  borrower, whether its version is still current, which is all a
  compare-exchange tells apart. `book` is the history of what each key was set
  to, the reference every query is compared with. `setup` says what the writers
  of a behaviour may do.
* **Tree**: the tree with its index pages. A descent borrows page after page,
  checks fences and degree, and starts a reorganization when a page is unsafe:
  `OnOverflowNode` (version split, with a key split when too many slots live),
  `OnUnderflowNode` (merge with a sibling, split again when too large), root split
  and root merge, each with its versions, fences and burials. The change of a
  latched leaf is one step (RootLeaf has the steps inside it). Random operations
  descend by position and dispatch the keyed operation. Readers find the root of
  their snapshot and follow the iterator from leaf to leaf. A behaviour starts
  after the operations of one of `Preloads`, executed by the same definitions.
* **VersionLists**: every index that finds something at a snapshot, as a chain of
  nodes, newest first: the four lists behind the root index and the version
  lists of the baseline, with the short cuts of each kind (`skip` of the frugal
  list, towers of the skip list, ridges of vWeaver). Writers link in steps; readers
  walk one pointer per step; `clone` is the copy a merge of leaves makes.
* **Transactions**: transactions on the caller's thread, handed to the pool, or
  in batches; the book-keeping of snapshots at enqueue, dequeue and by every
  query; the failure of an operation; the switch of the collector; and every
  call of `lib.rs` as the transaction it makes. An operation with a version of
  its own reads at the snapshot its caller drew and gave to the transaction, as
  the callers in the repository do; the `Si` operations (`iterSi` leaves an
  iterator) read at the snapshot of the transaction. The manager refuses no call;
  the history field `protected` notes of each whether the tracker protects its
  reads (`Protected`), which the property on answers needs. The layers below are taken at their word: Watermark, versions that can
  be read, and a horizon below which nothing can (Reclamation).

**The baseline, the buffer, the experiment**

* **SmartCell**: one cell of any kind under every locking strategy. A thread
  borrows as the strategy says for its attempt and place, reads the two halves,
  then writes, appends or retires after an upgrade, and starts over when a
  validation fails. Retiring marks cells that have a version and does nothing to
  the others (mutex, reader-writer lock, free), whose caller goes on all the same.
  parking_lot's locks are external.
* **BPlusTree**: the baseline tree under OLC, which is the only strategy the
  evaluation instantiates: descents, splits of leaves, directories and the root
  on the way down, merges of thin nodes, filtered splits that drop dead records,
  and all queries. `limbo` is the set of keys whose records such a split drops.
* **BufferPool**: frames, page table, free list, clock replacer, epochs and file;
  writers pin, readers read without pin or latch and check afterwards that the
  frame still holds their block. The locks of the page table are those of its
  shards: `Shard` says which blocks share one. The tree that uses the pool is
  external: `Bury` takes from it that a node is flushed before it is dead, the
  premise the comment at `block_buffer.rs:644` states and nothing in the pool
  establishes.
* **Workload**: `online.rs`: the exact mix per block of operations, reservation
  and publication of keys in a sliding window, readers, the plan of historical
  scans (of the versions noted, or of the snapshot pinned at the beginning, as
  libmdbx has it), the random mode, and the rejected command lines. The index is
  external.

**MC modules** name the instances TLC explores. **CommitClockProofs**,
**ReclamationProofs**, **SmartCellProofs**, **RootLeafProofs**, **TreeProofs**,
**TransactionsProofs**, **BufferProofs** and **WorkloadProofs** hold the theorems
(section 4).

Definitions whose comment starts with "Mutant:" are faulty variants that a
property is shown to reject. The specifications do not use them.

`PROJECT.json` maps every definition to the lines it models.

## 3. Runs

| Run | Question | Outcome |
| --- | --- | --- |
| `clock` | Two threads, before and after a tracker is installed: are snapshots monotone; until then, is the watermark at most every accounted commit in flight, and is every step one of Watermark? | holds |
| `reclaim` | Does no reader lose a block it holds or can reach, and does one writer win a dead one? | holds |
| `reclaim_untracked` | The same when a reorganization may run on a thread with an inactive slot | violated |
| `leaf` | Two writers in one leaf; two writers of which one splits it; updates in place: does a query return exactly its snapshot, has a latched leaf room, do the lifetimes of a key never overlap? | holds |
| `root_split` | Two writers that also update a root leaf while it is split: are queries exact? | violated |
| `tree` | Trees of one to three levels that grow, shrink and race: exact answers, fences that partition the keys, nothing lost, room in every page, enough live slots, the latched leaf is the current one, pages buried exactly once, queries that end | holds; a scan that meets a record at the largest key is the one query that need not end |
| `lists` | Every kind of list beside its writers: exact answers, walks that stop at a sentinel, ridges that skip nobody, queries that end | holds |
| `cells` | Every locking strategy, three threads: no torn read is accepted, no write is lost, every use ends | holds |
| `bplus` | The baseline: exact answers, nothing lost, right outcomes, separators that divide, room, operations that end | holds for the cases of section 5; point queries beside inserts and splits, and updates and deletions beside splits, are wrong exactly where `AnswersExact` and `OutcomesRight` say |
| `buffer` | Two of four blocks in one shard of the page table: accepted reads are of the block asked for, an evicted page is in the file, every call ends | holds, for one writing thread; an eviction on its own shard, and readers behind it, are what `CallsEnd` lets wait |
| `transactions` | Every kind of call beside every other, with and without a collector: reads of a protected transaction agree with its snapshot, registrations match what is under way, results are the writes that happened, every transaction ends | holds |
| `workload` | Does nobody panic, are the expected windows those of the versions, does the run end? | holds |

Each violation run checks one property, and `findings` in `PROJECT.json` quotes
the line of the repository it disagrees with:

* *`reclaim_untracked`.* A slot is inactive until the first `end_commit` of its
  thread, and again after it was released. The watermark can then pass the version
  of a reorganization in flight, a reader draws a snapshot beyond it, reaches the
  old page, and the page is buried with a death version below the snapshot and
  handed out under the reader.
* *`root_split`.* The root is split under the latch of the root index only. An
  update between its soft commits leaves two live records of one key in the
  copy, and every later snapshot returns the key twice.

**Bounds.** `MaxClock` bounds the versions, `Blocks` and `MaxPages` the pages,
`MaxThreads`, `Readers`, `Writers`, `Threads` and `Procs` the threads.

* *Clock, collector.* Two threads are enough for a fold to race with a commit on
  the slot it has loaded and on the one it has not, and for a thread id to be
  recycled under a fold; two writers with three commits let the dead block of one
  be claimed by both, and the block one replaces be reused by the other.
* *RootLeaf.* A page of three records and one key is full after two commits, so
  that a split, its failed attempts, and an operation on the new page happen
  within six versions. `RootLeafAssumption` keeps the number of keys so small that
  a root leaf is never split by key, which is Tree's part.
* *Tree.* Leaves of four records and index pages of seven, so small that the
  thresholds of 20, 40 and 80 per cent are met within a few operations. Fifteen
  ascending inserts give three levels; deleting twelve of them leads back through
  merges, redistributions and root merges. `Lookback` bounds how old a snapshot
  may be, `free` how many operations follow the preload, and `MaxFound` how much a
  query collects, so that the scan that never ends has finitely many states; no
  other query finds that many.
* *VersionLists.* Up to six versions per key, towers of at most `MaxPick` levels,
  four keys in two leaves: a ridge crosses leaves and a walk skips more than one
  node.
* *SmartCell.* Three threads with one use each: a reader and two writers, of which
  one may fail once because of the other and then borrow harder.
* *BPlusTree.* `FAN_OUT` 7 and `NUM_RECORDS` 8, small enough for a few inserts to
  fill a node. The trees the cases start from are what inserts, deletions and
  splits leave. `MaxVersion` bounds how often an insert latches a directory in
  vain while the child it wants is pinned; it does so again when the pin is gone.
* *BufferPool.* Two frames for four blocks, of which the first and the fourth share a
  shard: evictions are frequent, and some are of a block in the shard of the fetched
  one, some are not.
* *Transactions.* One key, up to three calls, four commits, two switches; every pair
  of exported calls, and the unprotected calls (queued `Si` reads, reads in batches,
  unpinned draws) beside protected ones and beside commits that let blocks be reused.
* *Workload.* The block of 1000 operations and the stride of 791 are 4 and 3, and
  the rotation 0x9E3779B9 of one block against the last is 1, its remainder; the
  assumption states what the code needs of them (the stride permutes the block).

A thread that has reached a bound waits and the others go on. Deadlock is checked
except where everybody may be done (`transactions`, `workload`) and where a writer may
wait for itself (`buffer`), for which `CallsEnd` says who may wait.

**Fairness.** Weak fairness for every step of a thread that is under way: each
thread of the code is an operating system thread, and every step is a
non-blocking access or a lock that is released by a thread that is itself fair.
It is assumed of the readers in Tree, of the threads in BPlusTree, SmartCell and
BufferPool, of readers and writers in VersionLists, of calls and jobs in
Transactions, and of the threads in Workload. New calls are never required. Strong
fairness appears twice in Workload, where a thread draws random keys until one is
live: a draw that keeps being possible is eventually made, which is what a random
generator gives with probability one. CommitClock, Reclamation and RootLeaf state
safety only; a thread that stops committing without releasing its slot keeps the
watermark where it is by design, so there is no progress to promise.

## 4. Proofs

`tlapm` checks all proof modules for every value of the constants that satisfies
the assumptions of the modules they extend. An inductive invariant was first
checked by TLC on the instances of the run, then proved, one lemma per action.

* *CommitClockProofs.* `TypeCorrect` is inductive with facts on the ranges.
  `MonotoneSnapshots` needs `FloorInv`: every snapshot in somebody's hands, and
  every floor recorded from one, is at most `GLOBAL_MIN`, which only grows.
  `SafeWatermark` is not inductive because a fold may publish long after it
  loaded a slot: `SafeInv` says of each thread that may still publish that its
  accumulator is at most the version of each accounted commit, or that it has not
  yet loaded the slot of the committing thread, which is below that version; it
  rests on `TidInv` (a fold that is to see the slot of a registered thread goes
  far enough) and `SlotInv`. Since a tracker makes `free_block` fold from
  `Version::MAX`, the inductive invariant is `UntrackedInv`, `SafeInv` as long as
  none is installed. `ClockImplementsWatermark` shows every step until then to be
  a step of Watermark or to leave it unchanged.
* *ReclamationProofs.* `SafeReclamation` and `SingleWinner` follow from `IInv`.
  The argument needs the pins only: a reader that has its snapshot holds a ticket
  at or below it, so a writer's bound is at most every snapshot in use once it has
  looked at the pins, and snapshots drawn later are at least the watermark the
  bound started from (`BoundInv`); a block in a reader's hands died no earlier
  than its snapshot (`HoldInv`), because a commit in flight is not passed by the
  watermark. Both assume `~Untracked`, which `reclaim_untracked` shows to be
  needed.

* *SmartCellProofs.* `SpecAcceptedReads` and `SpecNoLostUpdate` hold for every
  strategy at once. `IInv` ties what a guard says to what the cell shows: which
  guards a thread can have where it is (`ThreadInv`), that a lock has one writer or
  readers (`LockInv`), that one thread at most holds the version and what the
  version then looks like, a cell under retirement included (`VersionInv`), that a
  remembered version was free and that counters only grow, even when a drop erases
  the obsolete mark (`CounterInv`), and how the two halves and the tail compare
  with the uses completed (`DataInv`). A torn read is refused because a version
  that is still the remembered one leaves no room for a write (`ReadInv`). The one
  assumption on the constants is that the free latch, which locks nothing, is used
  by one thread.
* *RootLeafProofs.* `SpecLatchedLeafHasRoom` needs `RoomInv`. What a writer
  looked at before it latched is vouched for by the versions it borrowed: as long
  as they are current, the page is the root and has the room it had. A page that
  stopped being the root was full and stays full, so whoever finds room under a
  current version has found the root; and a split leaves room because the live
  records of a page are at most those its counter tells (`LiveCount`), which is
  off by one only between the steps of the writer in the page. `RootLeafAssumption`
  bounds the keys so that a version split leaves room, the case the code does not
  split by key.
  `SpecLifetimesDisjoint` is on top of `RoomInv`. `LifeInv` says that records are
  ordered by version, that each record of a key ends before the next begins, and
  that only the record an update has just pushed may overlap, while the update is
  under way. The theorem assumes `NoRacingUpdate` (no setup lets an update run
  beside another writer): without it the invariant is false, by the very
  interleaving that `root_split` exhibits.
  `SpecExactScan` is on top of `LifeInv` and under the same `NoRacingUpdate`, in
  three layers. `VersionInv`: versions in flight are told apart and lie below the
  clock, and what a writer has put into its page is its last record. `BookInv`
  relates pages and history (`SpecBookInv`): of every key, the page that serves a
  snapshot finds what the history has (`PageExact`), unless the writer in the page
  still has to write it (`Pending`); a split has copied exactly the records that
  live, and its version is above everything in the page (`CopyAt`), so the old
  page keeps serving the snapshots below it and the new one serves the rest.
  `ReaderInv` follows a query: its root is the one that serves its snapshot, the
  length it loaded covers everything it can match, and what it has seen is what
  the records looked at so far hold, each key once (`FilteredTo`, `FoundTo`). A
  settled snapshot has no commit pending, and no step of a writer changes what it
  finds in a page (`SnapKept`): a record pushed is too young, a record ended was
  ended by a younger version, and an update in place changes only records younger
  than the queries it knows of (`KnownAt`); the others are marked `raced`, which
  `ExactScan` leaves out because the code serves them the new payload.
* *TreeProofs.* `SpecLeafRoom` holds for any number of writers, keyed and random
  operations and every capacity; `TreeAssumption` says only what the constants are.
  First the operators: sorting keeps the slots and their number, a split or a
  redistribution cuts them into two, and each copy holds at most 80 per cent of a
  page or half of what two pages can hold (`Reorganized`). Then `TreeInv`. A
  latch has one holder, and a latch version that is still good means that nobody else
  has latched the page since (`Latching`): what a writer saw in an unlatched page is
  still so. The counters of a leaf tell its records, and a writer on its way
  to a leaf it found safe finds room there until it has written (`Counted`, `HasRoom`,
  `WriterAt`); a page already split or merged away may be full, but nobody with a good
  version gets there. That a merge joins two pages of one kind is not local: it
  needs that all slots of an index page lead one level down, so the invariant says that
  some assignment of heights to pages has every slot point to the height below
  (`Heights`), and each reorganization extends it to the pages it makes.
  Tree models updates that push a new record; an update in place, which pushes none,
  is RootLeaf's part. `IndexRoom`, the same for index pages, is checked as part of
  `PagesFilled` and is not a theorem, because a random descent may split below an
  index page that lacks the slots (section 5).
* *TransactionsProofs.* `SpecRegistrationsMatch` is a count: the registrations of
  a snapshot are the transactions that hold one, the queries under way and the
  iterators. It is inductive only when it is known who holds what. `TxInv` adds
  that a transaction is with one thread or in one job (`PlaceInv`), that a job and
  a thread at each step hold the registration of exactly the transactions they
  are to release (`JobAt`, `CallerAt`, `WorkerAt`), that a switch of the collector
  finds nothing held, and that pins count the callers that hold one (`PinsMatch`).
  In the second half `SpecAnswersAtSnapshot` joins two arguments.
  Answers of old versions do not change: a commit adds a record from the clock on
  and ends one at the clock (`OldAnswersStay`), and a version whose commit has
  not begun adds nothing to the one below (`NothingNew`), which is why the
  property speaks of two versions. And versions in use are not reclaimed:
  `AnswersInv` follows each snapshot from the pin under which it was drawn
  (`ThreadShield`) over the registration of the job (`JobShield`) to the query or
  the iterator that reads at it (`IterShield`), and `FreeBlock` takes a minimum
  over all of these by `TxInv`. The theorem has no hypothesis on the calls: beside
  a collector the unprotected ones are made too and may lose their blocks, and the
  shields of `AnswersInv` are those of the protected transactions. That the others
  cannot take a shield away is `TxInv`'s part: registrations are counted per snapshot,
  and a transaction releases only what it registered. `SpecResultsAreTheWrites` rests on `WritesInv`: a
  record is of a commit under way or reported, a committing thread knows the key
  of every record of its version, and a transaction in anybody's hands has no
  error so far.
* *BufferProofs.* `SpecDurable` and `SpecAcceptedReads` hold for any numbers of
  frames, blocks, shards, readers and calls, under `SingleWriter`: the code does not
  keep what they rest on when two writers race for a frame (section 5). They
  come in three layers. `PlaceInv` is where frames are: the page table and the frames name each
  other (`Mapped`, `Resident`) but for the one frame on its way in or out, of
  which the place of the writer in its call says what it still is (`WriterPlace`);
  free frames are empty and named once, and a pin is counted. `DataInv` is what
  they hold: the frame of a node has the node's entries, one more while an append
  is under way (`Holds`), and where a frame is clean, being evicted, or gone, or
  the node dead, the file has them (`Stores`, `WriterData`). That the victim is
  clean once it is flushed needs that an unpinned frame has nobody's unreported
  writes. `ReadInv` follows a reader, which neither pins nor latches: once it has
  touched its frame, the frame's epoch is above the reader's slot, so the frame
  cannot be chosen as a victim (`HeldBack`). It may have been chosen before. Then
  it is evicted with its block still in it, keeps the old contents until the next
  load (`Mine`), and from that load on belongs to another block, which the
  reader's last look finds out (`Another`), or to the same block again.
* *WorkloadProofs.* First what the mix promises (`CountStep`): the counts that
  `structural_counts_before` adds up from whole blocks and a rest grow by one with
  each insertion or deletion, across the end of a block too, because the stride
  permutes a block and so every block has its exact share (`WholeBlock`). Then
  `WorkInv`. Sliding keys (`KeyInv`): every key below `published` was loaded or
  marked, every such key that nobody has reserved for deletion is in the index,
  and no two writers hold the same key; therefore an insertion finds its key absent
  and a deletion that has waited finds it present, however the writers interleave.
  Random keys (`LiveInv`): the writer's list holds keys of the index, each once, as
  many as the counts leave. Historical scans (`PlanInv`): whatever lies below the
  writer's cursor in the plan has its version, and what lies above is still to
  come. `SpecNoPanic` assumes `EnoughKeys`, that a random writer starts with more
  keys than a block deletes: the code does not check it, and without it the writer
  may find its list empty (section 5). `SpecWindowIsVersion` adds `WindowInv`: the
  n-th commit of a historical run leaves the keys from the deletions to the
  insertions among the first n operations, versions grow from commit to commit, and
  a version in the plan is that of the commit its operation count names.

Only model-checked:

* liveness (`QueriesEnd`, `UsesEnd`, `OperationsEnd`, `CallsEnd`,
  `TransactionsEnd`, `RunEnds`) and anything with `ENABLED`, which the prover
  does not handle;
* the invariants of Tree other than `LeafRoom`, and those of BPlusTree and
  VersionLists: they speak of whole trees and lists and are computed by recursion over levels, chains or preloaded
  operations, and what a recursive definition computes cannot be proved by
  induction here;
* `ExactScan` and `LifetimesDisjoint` of RootLeaf for two writers that update
  beside each other in a leaf nobody splits, the first setup of `leaf`.

## 5. Exceptions and omissions: where the code goes wrong

The passing runs state what the code keeps. Where it does not keep a property, the
property names the exception and the run contains it, or the instances stop short of
the case; two cases are exhibited by the violation runs of section 3. This is the list
of all. Line numbers are of the files under `src/src`.

*Clock.* A reader with an old clock reading publishes it and cleans
`GLOBAL_DIRTY`; the commits in between stay invisible until the next one, against
the comment at `mv_sync/clock.rs:171`. `free_block` passes `Version::MAX`
(`mv_gc/tracker_handle.rs:101`), which becomes the watermark when no slot is
active.

*Tree.* A version split of a root leaf with fewer than 40 per cent live records
fails the debug assertion at `mv_tree/smo.rs:787`. `merge_root` (`smo.rs:851`, from
`olc_query.rs:101`) copies the root without its latch, and a write that races with
it is lost; the replaced page is never buried (`PagesAccounted` allows for it). The
random descent (`rand_query.rs:103-112`) overruns an index page when a root of four
entries is split below. An `UpdateRand` in place counts a live record as revived
(`dispatch.rs:270`); `InsertRand` keeps the leaf latched when it calls itself
(`dispatch.rs:411`), and waits for itself when it comes back to that leaf; the random
operations panic on an empty leaf. The iterator never gets past a record at the
largest key in a tree with an index page: behind the last leaf `inc_key` saturates
(`iter_query.rs:154`), the leaf is entered again, and the record is returned for ever;
the run has such trees and `QueriesEnd` names the exception. Tree's two concurrent
writers work below a root that is not merged, and its random operations have one
writer, small roots and no updates in place.

*Transactions.* `is_read` is `None` for the `Si` reads
(`mv_crud_model/crud_operation.rs:83`), so the manager does not register them; a
batch registers when a worker takes it (`tx_manager.rs:388`); a transaction without
a snapshot draws it unpinned (`mv_tx_query/dispatch.rs:44`). The manager accepts all
of these beside a collector, and their blocks can be reused before they read. The run
makes these calls; `AnswersAtSnapshot` speaks of the protected ones beside them. The collector is switched while no transaction
is under way, which `enable_gc` and `disable_gc` do not check (`tx_manager.rs:224`,
`:247`): a registration held in the tracker that is replaced would be lost. There is no rollback:
a transaction that fails keeps what it wrote. An iterator keeps its registration
until it is dropped. When every slot is inactive a snapshot may equal the version
handed out next; `AnswersAtSnapshot` allows for that one commit. A scan that
overflows the key in `lib.rs:193` is not made.

*Version lists.* Inserting a deleted key into vWeaver again does not end, which the
benchmarks know (`ycsb/systems.rs:246-248`). Two writers on neighbouring leaves race
for a ridge (`v_weaver.rs:508`), and a scan returns the key `u64::MAX` twice. The
B-tree kind starts empty and cannot be written to. `RootTree::height` is the height
of the index itself and not of the tree.

*Baseline tree* (`dexa/mvb_crud_model`). A point query validates its leaf before the search only
(`dispatch.rs:169`): an insert that shifts the records, or a split, makes it miss a live
key or return another's payload. An update or a deletion pins a leaf that may have been
split since (`olc_query.rs:513`) and reports that there was no record. Both are in
`bplus`, with the exceptions in the properties: the records were moved (`moved`), the
key now belongs to another leaf. Left out are: a range scan beside a split, which misses
keys (`olc_query.rs:329`); a new root installed beside descents from the old one
(`query.rs:189-199`); a split of thin directories, which drops a separator or takes the
wrong slot (`query.rs:796`, `:160`); the height of the root, which only falls (`:172`);
and a query at the largest key, which wraps around. Splits drop dead records whatever
snapshot needs them (`limbo`). Hence range scans run beside updates, deletions and
inserts that split nothing, and merges, filtered splits, pops and peeks run one operation at
a time (`serial`).

*Cells.* A drop erases the obsolete mark a retirement has set
(`dexa/mvb_utils/smart_cell.rs:971`); an ORWC upgrade gives its read lock up in
between (`:581`, after which `query.rs:936` looks at overflow and underflow only); a
hybrid upgrade takes the version of the moment (`:641`). The uses of each strategy
are those the tree can make of it with these in place. A `compare_exchange_weak`
does not fail spuriously in the models.

*Buffer.* Two writers race between the look at a pin and the removal of the block
(`block_buffer.rs:680`, `:694`): a fetch in between returns a frame that is then refilled,
against the comment at `:410-411`, so no property says that pins hold. A removal from
the page table under an entry of the same shard waits for itself (`:694`); the run has
this case and `CallsEnd` names it. The dirty flag set while a frame is flushed is lost
(`:555`), and a failed read of the file leaks its frame (`:453`). The run has one
writing thread and no errors of the file, and a node that is buried is clean (`Bury`,
section 2).

*Workload.* With few records `reserve_delete` waits for ever (`paper/online.rs:466`),
the expiry of `ycsb/mod.rs:206` can overtake insertion, and the random mode panics
when no key is live; the instances have enough records. Reorganizations consume
versions, at most `maxSkip` per operation here.

## 6. Not modelled

Retired code, to which nothing refers. The `ycsb` driver, `mv_test.rs`, `main.rs`,
command lines, latencies, CSV files and the adapters of other systems, which keep
no state of interest beyond what Workload has. Layout in memory, the packing of
counts into one word, allocation of memory, and conversions of foreign types.
Baseline strategies other than OLC are modelled per cell (SmartCell), not in the
tree. `borrow_mut` on an optimistic cell is called in one place, by a merge for its
sibling (`dexa/mvb_crud_model/query.rs:482`); what it does there is part of BPlusTree's
`JoinChild`, and SmartCell has it as the upgrade of the cell that is retired. A failed
read of the file in the buffer pool, and the switch of the collector beside
transactions under way, are left out as section 5 says.

## 7. What is left

A proof of `SentinelSeen` of VersionLists, if its chains can be stated without
recursion.
