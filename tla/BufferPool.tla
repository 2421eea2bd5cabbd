----------------------------- MODULE BufferPool -----------------------------
(***************************************************************************)
(* The buffer pool designed for the tree (block_buffer.rs; the repository   *)
(* keeps it outside the build).  Writers pin the frames they work on;       *)
(* readers neither latch nor pin: they register an epoch, resolve a block   *)
(* to a frame, read the committed entries and then check that the frame     *)
(* still holds the block.                                                   *)
(*                                                                          *)
(* A page is the number of entries in it, its header's count of them, and   *)
(* which use of the block it belongs to, because the tree's graveyard       *)
(* hands blocks out again.                                                  *)
(***************************************************************************)
EXTENDS Integers, Sequences, FiniteSets, SequencesExt, FiniteSetsExt

CONSTANTS
    Frames,         \* 1 .. num_frames
    Blocks, Stored, \* the blocks, and those already in the file when the pool opens
    Shard,          \* the shard of the page table (a DashMap) that a block hashes to
    Writers, Readers,
    Setups,         \* [calls, reads]: the calls of each writer, the blocks each reader reads
    NoBlock         \* EMPTY_PAGE, and no frame in the page table

Operations == {"fetch", "new", "append", "unpin", "flush", "bury", "force"}

ASSUME BufferAssumption ==
    /\ IsFiniteSet(Frames) /\ Frames # {} /\ Frames = 1 .. Cardinality(Frames)
    /\ Stored \subseteq Blocks /\ NoBlock \notin Blocks \cup Frames \cup Writers
    /\ Shard \in [Blocks -> Nat]
    /\ Writers \cap Readers = {}
    /\ Setups \subseteq [calls : [Writers -> Seq([op : Operations, block : Blocks])],
                         reads : [Readers -> Seq(Blocks)]]

VARIABLES
    frames,     \* [block, page, len, pin, dirty, last, latch]
    table,      \* page_table: the frame of a block, or NoBlock
    entry,      \* the writer that holds the block's entry of the page table, or NoBlock
    free,       \* free_list
    clock,      \* the replacer: [hand, ref, evictable]
    epoch,      \* global_epoch
    disk,       \* the file: a page, or NoBlock
    wr, rd,     \* writers and readers
    todo,       \* what each has left to do
    use         \* the tree: for each block [state, uses, entries committed]

vars == <<frames, table, entry, free, clock, epoch, disk, wr, rd, todo, use>>

N == Cardinality(Frames)
Inactive == -1          \* EPOCH_SENTINEL
NoFrame == 0

NewPage(u) == [use |-> u, n |-> 0, header |-> 0]
Frame == [block |-> NoBlock, page |-> NewPage(0), len |-> 0, pin |-> 0, dirty |-> FALSE,
          last |-> 0, latch |-> FALSE]

IdleWriter == [pc |-> "idle", block |-> NoBlock, new |-> FALSE, frame |-> NoFrame, tries |-> 0,
               victim |-> NoBlock,                             \* old_bid
               pins |-> [b \in Blocks |-> NoFrame],            \* the frame ids fetch_page returned
               wrote |-> {}]
IdleReader == [pc |-> "idle", block |-> NoBlock, slot |-> Inactive, seen |-> 0, frame |-> NoFrame,
               len |-> 0, page |-> NewPage(0), from |-> [use |-> 0, n |-> 0]]

Init ==
    /\ frames = [f \in Frames |-> Frame]
    /\ table = [b \in Blocks |-> NoBlock]
    /\ entry = [b \in Blocks |-> NoBlock]
    /\ free = [i \in 1 .. N |-> i]
    /\ clock = [hand |-> 1, ref |-> {}, evictable |-> {}]
    /\ epoch = 0
    /\ disk = [b \in Blocks |-> IF b \in Stored THEN [use |-> 1, n |-> 1, header |-> 1] ELSE NoBlock]
    /\ wr = [w \in Writers |-> IdleWriter]
    /\ rd = [r \in Readers |-> IdleReader]
    /\ \E s \in Setups : todo = [p \in Writers \cup Readers |-> IF p \in Writers THEN s.calls[p] ELSE s.reads[p]]
    /\ use = [b \in Blocks |-> IF b \in Stored THEN [state |-> "live", uses |-> 1, n |-> 1]
                               ELSE [state |-> "unused", uses |-> 0, n |-> 0]]

-----------------------------------------------------------------------------
(* The epoch table and the clock *)

(* Mutant: readers do not hold a frame back.                                *)
SafeToEvict_Always(e) == TRUE

(* min_active_epoch and safe_to_evict.                                      *)
SafeToEvict(e) == \A r \in Readers : rd[r].slot # Inactive => e < rd[r].slot

Advance(f) == [frames EXCEPT ![f].last = epoch + 1]

(* evict_candidate: the hand makes up to two rounds, taking reference bits  *)
(* away, and stops at the first frame that may be evicted and has none.     *)
Sweeps == 2 * N

At(h, i) == 1 + ((h - 1 + i) % N)
EvictCandidate ==
    LET passed(i)  == {At(clock.hand, j) : j \in 0 .. i - 1}
        stops(i)   == LET f == At(clock.hand, i)
                      IN  f \in clock.evictable /\ f \notin clock.ref \ passed(i)
        steps      == {i \in 0 .. Sweeps - 1 : stops(i)}
        last       == IF steps = {} THEN Sweeps ELSE Min(steps)
    IN  [frame |-> IF steps = {} THEN NoFrame ELSE At(clock.hand, last),
         clock |-> [clock EXCEPT !.hand = At(@, IF steps = {} THEN last ELSE last + 1),
                                 !.ref  = @ \ (clock.evictable \cap passed(last))]]

SetEvictable(f, on) == IF on THEN clock.evictable \cup {f} ELSE clock.evictable \ {f}

-----------------------------------------------------------------------------
(* fetch_page and alloc_new_page *)

Reads(b) == {r \in Readers : rd[r].block = b}
Goto(w, pc) == [wr EXCEPT ![w].pc = pc]

(* The next call of a writer, and the calls that are left after it.         *)
Calls(w, op) == wr[w].pc = "idle" /\ todo[w] # <<>> /\ Head(todo[w]).op = op
On(w) == Head(todo[w]).block
Rest(w) == [todo EXCEPT ![w] = Tail(@)]

(* The lock of a shard: shared by look-ups whose reference is alive,        *)
(* exclusive to the entry of a vacant block until it is inserted.           *)
HoldsShard(b) ==
    {r \in Readers : rd[r].pc = "touch" /\ Shard[rd[r].block] = Shard[b]}
    \cup {w \in Writers : wr[w].pc = "flushed" /\ Shard[On(w)] = Shard[b]}
Unlocked(b) == \A c \in Blocks : Shard[c] = Shard[b] => entry[c] = NoBlock

(* The tree asks for a node it points to, or for a block the graveyard has  *)
(* given back: no reader can still reach that (Reclamation).                *)
FetchPage(w) ==
    /\ Calls(w, "fetch")
    /\ wr' = [wr EXCEPT ![w].pc = "get", ![w].block = On(w), ![w].new = FALSE]
    /\ UNCHANGED <<frames, table, entry, free, clock, epoch, disk, rd, todo, use>>

AllocNewPage(w) ==
    LET b == On(w) IN
    /\ Calls(w, "new") /\ Reads(b) = {}
    /\ use' = [use EXCEPT ![b] = [state |-> "new", uses |-> @.uses + 1, n |-> 0]]
    /\ wr' = [wr EXCEPT ![w].pc = "entry", ![w].block = b, ![w].new = TRUE]
    /\ UNCHANGED <<frames, table, entry, free, clock, epoch, disk, rd, todo>>

(* Fetched: the pin is the caller's, and a new node one of the tree's.      *)
Linked(w) == [use EXCEPT ![wr[w].block].state = IF wr[w].new THEN "live" ELSE @]
Back(w)   == [wr[w] EXCEPT !.pc = "idle", !.block = NoBlock, !.frame = NoFrame, !.new = FALSE, !.tries = 0,
                              !.victim = NoBlock]

Return(w, f) ==
    /\ wr' = [wr EXCEPT ![w] = [Back(w) EXCEPT !.pins[wr[w].block] = f,
                                               !.wrote = IF wr[w].new THEN @ \cup {wr[w].block} ELSE @]]
    /\ use' = Linked(w)
    /\ todo' = Rest(w)

Hit(w) ==
    LET b == wr[w].block
        f == table[b]
    IN  /\ wr[w].pc \in {"get", "entry"} /\ ~ wr[w].new
        /\ Unlocked(b) /\ f # NoBlock
        /\ wr[w].pc = "entry" => HoldsShard(b) = {}
        /\ frames' = [Advance(f) EXCEPT ![f].pin = @ + 1]
        /\ epoch' = epoch + 1
        /\ clock' = [clock EXCEPT !.evictable = SetEvictable(f, FALSE), !.ref = @ \cup {f}]
        /\ Return(w, f)
        /\ UNCHANGED <<table, entry, free, disk, rd>>

Miss(w) ==
    /\ wr[w].pc = "get" /\ Unlocked(wr[w].block) /\ table[wr[w].block] = NoBlock
    /\ wr' = Goto(w, "entry")
    /\ UNCHANGED <<frames, table, entry, free, clock, epoch, disk, rd, todo, use>>

(* reinit_existing: a new node in the frame of the block's last use.        *)
Reinit(w) ==
    LET b == wr[w].block
        f == table[b]
    IN  /\ wr[w].pc = "entry" /\ wr[w].new
        /\ Unlocked(b) /\ HoldsShard(b) = {} /\ f # NoBlock
        /\ frames' = [frames EXCEPT ![f].page = NewPage(use[b].uses), ![f].len = 0, ![f].latch = FALSE,
                                    ![f].dirty = TRUE, ![f].pin = @ + 1]
        /\ Return(w, f)
        /\ UNCHANGED <<table, entry, free, clock, epoch, disk, rd>>

Vacant(w) ==
    LET b == wr[w].block IN
    /\ wr[w].pc = "entry" /\ Unlocked(b) /\ HoldsShard(b) = {} /\ table[b] = NoBlock
    /\ entry' = [entry EXCEPT ![b] = w]
    /\ wr' = [wr EXCEPT ![w].pc = "alloc", ![w].tries = 0]
    /\ UNCHANGED <<frames, table, free, clock, epoch, disk, rd, todo, use>>

-----------------------------------------------------------------------------
(* alloc_frame *)

TakeFree(w) ==
    /\ wr[w].pc = "alloc" /\ free # <<>> /\ wr[w].tries = 0
    /\ free' = Tail(free)
    /\ wr' = [wr EXCEPT ![w].pc = "load", ![w].frame = Head(free)]
    /\ UNCHANGED <<frames, table, entry, clock, epoch, disk, rd, todo, use>>

(* "Double-check: must still be unpinned", and the epoch guard.             *)
MayEvict(f) == frames[f].pin = 0 /\ SafeToEvict(frames[f].last)

(* Mutant: a rejected candidate is not counted.                             *)
Tried_Uncounted(w) == wr[w].tries

Tried(w) == wr[w].tries + 1

(* One candidate of the clock: taken, or rejected by a pin or by the epoch  *)
(* guard and the next one tried.                                            *)
Candidate(w) ==
    LET c  == EvictCandidate
        me == wr[w]
    IN
    /\ me.pc = "alloc" /\ (free = <<>> \/ me.tries > 0)
    /\ clock' = c.clock
    /\ wr' = [wr EXCEPT ![w] =
                IF c.frame = NoFrame THEN [me EXCEPT !.pc = "none"]
                ELSE IF MayEvict(c.frame) THEN [me EXCEPT !.pc = "flush", !.frame = c.frame]
                ELSE [me EXCEPT !.tries = Tried(w), !.pc = IF Tried(w) = 2 * N THEN "none" ELSE "alloc"]]
    /\ UNCHANGED <<frames, table, entry, free, epoch, disk, rd, todo, use>>

(* The caller gets nothing, and does without the page.                      *)
GiveUp(w) ==
    /\ wr[w].pc = "none"
    /\ entry' = [entry EXCEPT ![wr[w].block] = NoBlock]
    /\ use' = [use EXCEPT ![wr[w].block].state = IF wr[w].new THEN "unused" ELSE @]
    /\ wr' = [wr EXCEPT ![w] = Back(w)]
    /\ todo' = Rest(w)
    /\ UNCHANGED <<frames, table, free, clock, epoch, disk, rd>>

(* sync_header_for_flush and write_page.                                    *)
Synced(f) == [frames[f].page EXCEPT !.header = frames[f].len]
(* Mutant: the length is not copied into the header first.                  *)
WritePage_Unsynced(f) == [disk EXCEPT ![frames[f].block] = frames[f].page]

WritePage(f) == [disk EXCEPT ![frames[f].block] = Synced(f)]

(* The candidate's block is read once; it may have gone by now.             *)
FlushVictim(w) ==
    LET f == wr[w].frame
        b == frames[f].block
        flush == b # NoBlock /\ frames[f].dirty
    IN
    /\ wr[w].pc = "flush"
    /\ frames' = [frames EXCEPT ![f].page = IF flush THEN Synced(f) ELSE @]
    /\ disk' = IF flush THEN WritePage(f) ELSE disk
    /\ wr' = [wr EXCEPT ![w].victim = b, ![w].pc = IF b = NoBlock THEN "reset" ELSE "remove"]
    /\ UNCHANGED <<table, entry, free, clock, epoch, rd, todo, use>>

(* page_table.remove asks for the victim's shard while this very writer     *)
(* holds the shard of the block it fetches.                                 *)
RemoveVictim(w) ==
    LET b == wr[w].victim IN
    /\ wr[w].pc = "remove" /\ HoldsShard(b) = {} /\ Unlocked(b)
    /\ table' = [table EXCEPT ![b] = NoBlock]
    /\ wr' = Goto(w, "reset")
    /\ UNCHANGED <<frames, entry, free, clock, epoch, disk, rd, todo, use>>

(* The frame is published as empty, and its metadata reset.                 *)
Emptied(f) == [f EXCEPT !.block = NoBlock, !.dirty = FALSE, !.pin = 0, !.last = 0, !.latch = FALSE]

ResetVictim(w) ==
    LET f == wr[w].frame IN
    /\ wr[w].pc = "reset"
    /\ frames' = [frames EXCEPT ![f] = Emptied(@)]
    /\ clock' = [clock EXCEPT !.evictable = SetEvictable(f, FALSE)]
    /\ wr' = Goto(w, "load")
    /\ UNCHANGED <<table, entry, free, epoch, disk, rd, todo, use>>

-----------------------------------------------------------------------------
(* The rest of fetch_page and alloc_new_page *)

(* rebuild_len_from_header: the counters are those of the page as flushed.   *)
RebuildLen(p) == p.header

LoadPage(w) ==
    LET f == wr[w].frame
        b == wr[w].block
        p == IF wr[w].new THEN NewPage(use[b].uses) ELSE disk[b]
    IN  /\ wr[w].pc = "load" /\ p # NoBlock
        /\ frames' = [frames EXCEPT ![f].page = p, ![f].len = RebuildLen(p), ![f].dirty = wr[w].new]
        /\ wr' = Goto(w, "publish")
        /\ UNCHANGED <<table, entry, free, clock, epoch, disk, rd, todo, use>>

Publish(w) ==
    LET f == wr[w].frame IN
    /\ wr[w].pc = "publish"
    /\ epoch' = epoch + 1
    /\ frames' = [Advance(f) EXCEPT ![f].pin = 1, ![f].block = wr[w].block]
    /\ wr' = Goto(w, "insert")
    /\ UNCHANGED <<table, entry, free, clock, disk, rd, todo, use>>

Insert(w) ==
    LET b == wr[w].block
        f == wr[w].frame
    IN  /\ wr[w].pc = "insert"
        /\ table' = [table EXCEPT ![b] = f]
        /\ entry' = [entry EXCEPT ![b] = NoBlock]
        /\ clock' = [clock EXCEPT !.evictable = SetEvictable(f, FALSE),
                                  !.ref = IF wr[w].new THEN @ ELSE @ \cup {f}]
        /\ Return(w, f)
        /\ UNCHANGED <<frames, free, epoch, disk, rd>>

-----------------------------------------------------------------------------
(* Work on a pinned frame, and unpin_page *)

(* "Dead nodes are immutable": the tree appends to those it points to.      *)
Append_Data(w) ==
    LET f == wr[w].pins[On(w)] IN
    /\ Calls(w, "append") /\ f # NoFrame /\ ~ frames[f].latch /\ use[On(w)].state = "live"
    /\ frames' = [frames EXCEPT ![f].latch = TRUE, ![f].page.n = @ + 1]
    /\ wr' = [wr EXCEPT ![w].pc = "commit", ![w].block = On(w), ![w].frame = f]
    /\ UNCHANGED <<table, entry, free, clock, epoch, disk, rd, todo, use>>

Append_Commit(w) ==
    LET b == wr[w].block
        f == wr[w].frame
    IN  /\ wr[w].pc = "commit"
        /\ frames' = [frames EXCEPT ![f].latch = FALSE, ![f].len = @ + 1]
        /\ use' = [use EXCEPT ![b].n = @ + 1]
        /\ wr' = [wr EXCEPT ![w] = [Back(w) EXCEPT !.wrote = @ \cup {b}]]
        /\ todo' = Rest(w)
        /\ UNCHANGED <<table, entry, free, clock, epoch, disk, rd>>

Unpinned(f, dirty) == [frames EXCEPT ![f].pin = @ - 1, ![f].dirty = @ \/ dirty]

UnpinPage(w) ==
    LET b == On(w)
        f == table[b]
    IN  /\ Calls(w, "unpin") /\ wr[w].pins[b] # NoFrame /\ Unlocked(b)
        /\ IF f = NoBlock THEN UNCHANGED <<frames, clock>>
           ELSE /\ frames' = Unpinned(f, b \in wr[w].wrote)
                /\ clock' = IF frames[f].pin = 1 THEN [clock EXCEPT !.evictable = @ \cup {f}] ELSE clock
        /\ wr' = [wr EXCEPT ![w].pins[b] = NoFrame, ![w].wrote = @ \ {b}]
        /\ todo' = Rest(w)
        /\ UNCHANGED <<table, entry, free, epoch, disk, rd, use>>

(* After a fetch that failed there is nothing to write or to unpin.         *)
Skip(w) ==
    /\ Calls(w, "append") \/ Calls(w, "unpin")
    /\ wr[w].pins[On(w)] = NoFrame
    /\ todo' = Rest(w)
    /\ UNCHANGED <<frames, table, entry, free, clock, epoch, disk, wr, rd, use>>

(* flush_page: the file is written, and only then the page marked clean.    *)
FlushPage(w) ==
    LET f == table[On(w)]
    IN  /\ Calls(w, "flush") /\ Unlocked(On(w))
        /\ IF f # NoBlock /\ frames[f].dirty
           THEN /\ frames' = [frames EXCEPT ![f].page = Synced(f)]
                /\ disk' = WritePage(f)
                /\ wr' = [wr EXCEPT ![w].pc = "flushed", ![w].frame = f]
                /\ UNCHANGED todo
           ELSE todo' = Rest(w) /\ UNCHANGED <<frames, disk, wr>>
        /\ UNCHANGED <<table, entry, free, clock, epoch, rd, use>>

FlushDone(w) ==
    /\ wr[w].pc = "flushed"
    /\ frames' = [frames EXCEPT ![wr[w].frame].dirty = FALSE]
    /\ wr' = [wr EXCEPT ![w] = Back(w)]
    /\ todo' = Rest(w)
    /\ UNCHANGED <<table, entry, free, clock, epoch, disk, rd, use>>

(* A reorganisation of the tree leaves a node dead.  The tree is not in     *)
(* this module: that it flushes the node first is the premise the comment   *)
(* in force_evict_if_safe states and no code of the pool establishes.       *)
Bury(w) ==
    LET b == On(w) IN
    /\ Calls(w, "bury") /\ use[b].state = "live" /\ \A v \in Writers : wr[v].pins[b] = NoFrame
    /\ table[b] # NoBlock => ~ frames[table[b]].dirty
    /\ use' = [use EXCEPT ![b].state = "dead"]
    /\ todo' = Rest(w)
    /\ UNCHANGED <<frames, table, entry, free, clock, epoch, disk, wr, rd>>

(* force_evict_if_safe, on a block of the graveyard: checks, then removes;  *)
(* it does not flush.                                                       *)
ForceCheck(w) ==
    LET b == On(w)
        f == table[b]
    IN  /\ Calls(w, "force") /\ use[b].state = "dead" /\ Unlocked(b)
        /\ IF f # NoBlock /\ MayEvict(f)
           THEN wr' = [wr EXCEPT ![w].pc = "force", ![w].block = b, ![w].frame = f] /\ UNCHANGED todo
           ELSE todo' = Rest(w) /\ UNCHANGED wr
        /\ UNCHANGED <<frames, table, entry, free, clock, epoch, disk, rd, use>>

ForceRemove(w) ==
    LET b == wr[w].block IN
    /\ wr[w].pc = "force" /\ HoldsShard(b) = {} /\ Unlocked(b)
    /\ table' = [table EXCEPT ![b] = NoBlock]
    /\ wr' = Goto(w, "release")
    /\ UNCHANGED <<frames, entry, free, clock, epoch, disk, rd, todo, use>>

ForceFree(w) ==
    LET f == wr[w].frame IN
    /\ wr[w].pc = "release"
    /\ frames' = [frames EXCEPT ![f].block = NoBlock, ![f].dirty = FALSE]
    /\ clock' = [clock EXCEPT !.evictable = SetEvictable(f, FALSE)]
    /\ free' = Append(free, f)
    /\ wr' = [wr EXCEPT ![w] = Back(w)]
    /\ todo' = Rest(w)
    /\ UNCHANGED <<table, entry, epoch, disk, rd, use>>

-----------------------------------------------------------------------------
(* ReaderGuard *)

Step(r, v) ==
    /\ rd' = [rd EXCEPT ![r] = v]
    /\ UNCHANGED <<frames, table, entry, free, clock, epoch, disk, todo, use>>

(* enter: the epoch is read and then published.                             *)
Begin(r) ==
    /\ rd[r].pc = "idle" /\ todo[r] # <<>> /\ use[Head(todo[r])].state \in {"live", "dead"}
    /\ Step(r, [IdleReader EXCEPT !.pc = "enter", !.block = Head(todo[r]), !.seen = epoch])
    /\ UNCHANGED wr

Enter(r) ==
    /\ rd[r].pc = "enter"
    /\ Step(r, [rd[r] EXCEPT !.pc = "resolve", !.slot = rd[r].seen])
    /\ UNCHANGED wr

(* resolve_for_reader: the look-up holds the shard until the epoch is set.  *)
Resolve(r) ==
    LET b == rd[r].block IN
    /\ rd[r].pc = "resolve" /\ Unlocked(b)
    /\ Step(r, IF table[b] = NoBlock THEN [rd[r] EXCEPT !.pc = "exit"]
               ELSE [rd[r] EXCEPT !.pc = "touch", !.frame = table[b],
                                  !.from = [use |-> use[b].uses, n |-> use[b].n]])
    /\ UNCHANGED wr

Touch(r) ==
    LET f == rd[r].frame IN
    /\ rd[r].pc = "touch"
    /\ epoch' = epoch + 1
    /\ frames' = Advance(f)
    /\ rd' = [rd EXCEPT ![r].pc = "confirm"]
    /\ UNCHANGED <<wr, table, entry, free, clock, disk, todo, use>>

Confirm(r) ==
    /\ rd[r].pc = "confirm"
    /\ Step(r, [rd[r] EXCEPT !.pc = IF frames[rd[r].frame].block = rd[r].block THEN "len" ELSE "exit"])
    /\ UNCHANGED wr

(* committed_data: the count first, then the entries.                       *)
ReadLen(r) ==
    /\ rd[r].pc = "len"
    /\ Step(r, [rd[r] EXCEPT !.pc = "scan", !.len = frames[rd[r].frame].len])
    /\ UNCHANGED wr

Scan(r) ==
    /\ rd[r].pc = "scan"
    /\ Step(r, [rd[r] EXCEPT !.pc = "validate", !.page = frames[rd[r].frame].page])
    /\ UNCHANGED wr

Validates(r) == frames[rd[r].frame].block = rd[r].block

Validate(r) ==
    /\ rd[r].pc = "validate"
    /\ Step(r, [rd[r] EXCEPT !.pc = IF Validates(r) THEN "accepted" ELSE "exit"])
    /\ UNCHANGED wr

(* The guard is dropped.                                                    *)
Exit(r) ==
    /\ rd[r].pc \in {"exit", "accepted"}
    /\ rd' = [rd EXCEPT ![r] = IdleReader]
    /\ todo' = Rest(r)
    /\ UNCHANGED <<frames, table, entry, free, clock, epoch, disk, wr, use>>

-----------------------------------------------------------------------------
PoolCall(w) ==
    \/ FetchPage(w) \/ AllocNewPage(w) \/ Hit(w) \/ Miss(w) \/ Reinit(w) \/ Vacant(w)
    \/ TakeFree(w) \/ Candidate(w) \/ GiveUp(w) \/ FlushVictim(w) \/ RemoveVictim(w) \/ ResetVictim(w)
    \/ LoadPage(w) \/ Publish(w) \/ Insert(w)
    \/ Append_Data(w) \/ Append_Commit(w) \/ UnpinPage(w) \/ Skip(w) \/ FlushPage(w) \/ FlushDone(w)
    \/ Bury(w) \/ ForceCheck(w) \/ ForceRemove(w) \/ ForceFree(w)

Read(r) ==
    \/ Begin(r) \/ Enter(r) \/ Resolve(r) \/ Touch(r) \/ Confirm(r)
    \/ ReadLen(r) \/ Scan(r) \/ Validate(r) \/ Exit(r)

(* All calls have returned: not a deadlock.                                 *)
Done == (\A w \in Writers : todo[w] = <<>>) /\ (\A r \in Readers : rd[r].pc = "idle") /\ UNCHANGED vars

Next == (\E w \in Writers : PoolCall(w)) \/ (\E r \in Readers : Read(r)) \/ Done

(* Every call runs on a thread of its own.                                  *)
Spec ==
    /\ Init /\ [][Next]_vars
    /\ \A w \in Writers : WF_vars(PoolCall(w))
    /\ \A r \in Readers : WF_vars(Read(r))

-----------------------------------------------------------------------------
(* Properties *)

(* Types, and what each call leaves behind.                                 *)
TypeOK ==
    /\ \A f \in Frames : /\ frames[f].block \in Blocks \cup {NoBlock} /\ frames[f].pin \in Nat
                         /\ frames[f].last \in 0 .. epoch /\ frames[f].len \in Nat
    /\ \A b \in Blocks : table[b] \in Frames \cup {NoBlock} /\ entry[b] \in Writers \cup {NoBlock}
    /\ clock.hand \in Frames /\ clock.ref \subseteq Frames /\ clock.evictable \subseteq Frames
    /\ \A r \in Readers : rd[r].slot \in {Inactive} \cup 0 .. epoch

(* Contract R2 of block_buffer.rs: a read that is accepted has seen the     *)
(* block that the reader asked for, in its present use, with at least the   *)
(* entries committed when it was resolved and none that is not written,     *)
(* however the frame was evicted and refilled meanwhile.                    *)
AcceptedReads ==
    \A r \in Readers : rd[r].pc = "accepted" =>
        /\ rd[r].page.use = rd[r].from.use /\ rd[r].from.use = use[rd[r].block].uses
        /\ rd[r].from.n <= rd[r].len /\ rd[r].len <= rd[r].page.n

(* A node that is not in the pool is in the file, with every committed      *)
(* entry and a header that counts them: evictions flush, and a forced       *)
(* eviction need not.                                                       *)
Durable ==
    \A b \in Blocks :
        (use[b].state \in {"live", "dead"} /\ table[b] = NoBlock) =>
            disk[b] = [use |-> use[b].uses, n |-> use[b].n, header |-> use[b].n]

(* A writer that waits for a shard it holds itself.                         *)
SelfBlocked(w) == wr[w].pc = "remove" /\ Shard[wr[w].victim] = Shard[wr[w].block]

(* Every call of the pool returns, with a page or with None, but for one:   *)
(* an eviction whose victim hashes to the shard of the fetched block, whose *)
(* lock the writer holds itself; and every reader leaves its epoch, unless  *)
(* it looks a block of that shard up.  No other look-up, entry or search    *)
(* for a frame waits for ever.                                              *)
CallsEnd ==
    /\ \A w \in Writers : <>[](todo[w] = <<>> \/ SelfBlocked(w))
    /\ \A r \in Readers :
          \/ []<>(rd[r].pc = "idle")
          \/ <>[](rd[r].pc = "resolve" /\ \E w \in Writers : SelfBlocked(w) /\ Shard[rd[r].block] = Shard[wr[w].block])
=============================================================================
