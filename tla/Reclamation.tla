---------------------------- MODULE Reclamation ----------------------------
(***************************************************************************)
(* Garbage collection of tree nodes (mv_gc, mv_block): readers announce     *)
(* themselves in the tracker, reorganizations register the blocks they      *)
(* replace in the graveyard, and writers that need a block first try to     *)
(* reuse the oldest dead one.  The commit clock is the abstract Watermark;  *)
(* the block ids of the model stand for incarnations, so a reused block     *)
(* comes back under a fresh id.                                             *)
(***************************************************************************)
EXTENDS Integers, FiniteSets

CONSTANTS
    Readers,    \* threads that query
    Writers,    \* threads that reorganize
    Blocks,     \* bound of the model: incarnations 1 .. n of blocks
    MaxClock,   \* bound of the model: no commit starts at or above it
    Untracked   \* reorganizations also run on threads with an inactive slot

ASSUME ReclamationAssumption ==
    /\ MaxClock \in Nat
    /\ Blocks \subseteq Nat \ {0}
    /\ Untracked \in BOOLEAN

VARIABLES
    clock, wm, inflight,    \* the commit clock, see Watermark
    birth, death,   \* the versions between which a block is in the tree
    place,          \* where a block is
    registered,     \* QueryTracer: how many registrations each snapshot has
    pins,           \* PinTracer: the tickets <<lower bound, reader>>
    rpc,            \* where each reader is
    lb,             \* the lower bound it announces
    snap,           \* its snapshot
    at,             \* the blocks it holds a reference to
    wpc,            \* where each writer is
    victims,        \* the blocks it has latched and is about to replace
    merging,        \* it is in on_underflow_node rather than in a split
    ver,            \* the version of its reorganization
    bound,          \* free_block: the bound computed so far
    cand,           \* pop_min_if: the entry at the front of the graveyard
    got             \* the blocks free_block has handed to it

clockVars  == <<clock, wm, inflight>>
blockVars  == <<birth, death, place>>
readerVars == <<rpc, lb, snap, at>>
writerVars == <<wpc, victims, merging, ver, bound, cand, got>>
vars == <<clock, wm, inflight, birth, death, place, registered, pins, rpc, lb, snap,
          at, wpc, victims, merging, ver, bound, cand, got>>

Clock == INSTANCE Watermark

Snapshots == 0 .. MaxClock
NoBlock   == 0
Dead(b)   == place[b] \in {"dead", "grave", "recycled"}

(* A descent at snapshot s leads to b: b is in the tree, or was at s.       *)
Reachable(b, s) ==
    /\ place[b] # "unborn"
    /\ birth[b] <= s
    /\ Dead(b) => s < death[b]

Init ==
    /\ Clock!Init
    /\ birth      = [b \in Blocks |-> 0]
    /\ death      = [b \in Blocks |-> 0]
    /\ place      = [b \in Blocks |-> IF b <= 2 THEN "live" ELSE "unborn"]
    /\ registered = [s \in Snapshots |-> 0]
    /\ pins       = {}
    /\ rpc        = [r \in Readers |-> "idle"]
    /\ lb         = [r \in Readers |-> 0]
    /\ snap       = [r \in Readers |-> 0]
    /\ at         = [r \in Readers |-> {}]
    /\ wpc        = [w \in Writers |-> "idle"]
    /\ victims    = [w \in Writers |-> {}]
    /\ merging    = [w \in Writers |-> FALSE]
    /\ ver        = [w \in Writers |-> 0]
    /\ bound      = [w \in Writers |-> 0]
    /\ cand       = [w \in Writers |-> NoBlock]
    /\ got        = [w \in Writers |-> {}]

---------------------------------------------------------------------------
(* Readers.                                                                 *)

RGoto(r, from, to) == rpc[r] = from /\ rpc' = [rpc EXCEPT ![r] = to]

(* pinned_reader_snapshot: the committed snapshot bounds the one to come.   *)
LowerBound(r) ==
    /\ RGoto(r, "idle", "pin")
    /\ lb' = [lb EXCEPT ![r] = wm]
    /\ UNCHANGED <<clockVars, blockVars, registered, pins, snap, at, writerVars>>

(* pin_reader: the ticket is inserted.                                      *)
PinReader(r) ==
    /\ RGoto(r, "pin", "draw")
    /\ pins' = pins \cup {<<lb[r], r>>}
    /\ UNCHANGED <<clockVars, blockVars, registered, lb, snap, at, writerVars>>

(* current_version_for_reader under the pin.                                *)
DrawSnapshot(r) ==
    /\ RGoto(r, "draw", "register")
    /\ snap' = [snap EXCEPT ![r] = wm]
    /\ UNCHANGED <<clockVars, blockVars, registered, pins, lb, at, writerVars>>

(* on_acquire_reader_snapshot, by the dispatch of the query.                *)
OnTxStart(r) ==
    /\ RGoto(r, "register", "query")
    /\ registered' = [registered EXCEPT ![snap[r]] = @ + 1]
    /\ UNCHANGED <<clockVars, blockVars, pins, lb, snap, at, writerVars>>

(* The query follows a reference into a block.                              *)
Visit(r, b) ==
    /\ rpc[r] = "query"
    /\ Reachable(b, snap[r])
    /\ at' = [at EXCEPT ![r] = {b}]
    /\ UNCHANGED <<clockVars, blockVars, registered, pins, rpc, lb, snap, writerVars>>

(* on_release_reader_snapshot: one registration of the snapshot goes, if    *)
(* there is one.                                                            *)
OnTxCompleted(r) ==
    /\ RGoto(r, "query", "unpin")
    /\ registered' = [registered EXCEPT ![snap[r]] = IF @ > 0 THEN @ - 1 ELSE @]
    /\ at' = [at EXCEPT ![r] = {}]
    /\ UNCHANGED <<clockVars, blockVars, pins, lb, snap, writerVars>>

(* ReaderPin::drop.                                                         *)
UnpinReader(r) ==
    /\ RGoto(r, "unpin", "idle")
    /\ pins' = pins \ {<<lb[r], r>>}
    /\ lb' = [lb EXCEPT ![r] = 0]
    /\ snap' = [snap EXCEPT ![r] = 0]
    /\ UNCHANGED <<clockVars, blockVars, registered, at, writerVars>>

---------------------------------------------------------------------------
(* free_block, called by alloc_block before the reorganization commits.     *)

WGoto(w, from, to) == wpc[w] = from /\ wpc' = [wpc EXCEPT ![w] = to]

(* The committed snapshot is read first.  A reorganization allocates at     *)
(* least one block, and comes back here for every further one.              *)
LoadCommitted(w) ==
    /\ wpc[w] \in {"latched", "ready"}
    /\ wpc' = [wpc EXCEPT ![w] = "peekRegistered"]
    /\ bound' = [bound EXCEPT ![w] = wm]
    /\ UNCHANGED <<clockVars, blockVars, registered, pins, readerVars,
                   victims, merging, ver, cand, got>>

(* The bound becomes the smallest of itself and the announced versions.     *)
LowerBoundTo(w, announced) ==
    \E m \in {bound[w]} \cup announced :
        /\ \A a \in {bound[w]} \cup announced : m <= a
        /\ bound' = [bound EXCEPT ![w] = m]

(* peek_min: the oldest registered reader ...                               *)
PeekRegistered(w) ==
    /\ WGoto(w, "peekRegistered", "peekPins")
    /\ LowerBoundTo(w, {s \in Snapshots : registered[s] > 0})
    /\ UNCHANGED <<clockVars, blockVars, registered, pins, readerVars,
                   victims, merging, ver, cand, got>>

(* Mutant: only registered readers are looked at.                           *)
PeekPinsSkipped(w) ==
    /\ WGoto(w, "peekPins", "front")
    /\ UNCHANGED <<clockVars, blockVars, registered, pins, readerVars,
                   victims, merging, ver, bound, cand, got>>

(* ... and the oldest announced one.                                        *)
PeekPins(w) ==
    /\ WGoto(w, "peekPins", "front")
    /\ LowerBoundTo(w, {p[1] : p \in pins})
    /\ UNCHANGED <<clockVars, blockVars, registered, pins, readerVars,
                   victims, merging, ver, cand, got>>

Graveyard == {b \in Blocks : place[b] = "grave"}

(* pop_min_if: the front of the graveyard is looked at; an entry that is    *)
(* not old enough ends the attempt.                                         *)
Front(w) ==
    /\ wpc[w] = "front"
    /\ \/ /\ \A b \in Graveyard : death[b] >= bound[w]
          /\ wpc' = [wpc EXCEPT ![w] = "ready"]
          /\ UNCHANGED cand
       \/ \E b \in Graveyard :
             /\ \A c \in Graveyard : death[b] <= death[c]
             /\ death[b] < bound[w]
             /\ cand' = [cand EXCEPT ![w] = b]
             /\ wpc' = [wpc EXCEPT ![w] = "claim"]
    /\ UNCHANGED <<clockVars, blockVars, registered, pins, readerVars,
                   victims, merging, ver, bound, got>>

(* Mutant: the entry is taken without asking who removed it.                *)
ClaimUnchecked(w) ==
    /\ WGoto(w, "claim", "ready")
    /\ place' = [place EXCEPT ![cand[w]] = "recycled"]
    /\ got' = [got EXCEPT ![w] = @ \cup {cand[w]}]
    /\ cand' = [cand EXCEPT ![w] = NoBlock]
    /\ UNCHANGED <<clockVars, birth, death, registered, pins, readerVars,
                   victims, merging, ver, bound>>

(* entry.remove() is the claim; the winner reuses the block (on_reuse).     *)
Claim(w) ==
    /\ WGoto(w, "claim", "ready")
    /\ IF place[cand[w]] = "grave"
       THEN /\ place' = [place EXCEPT ![cand[w]] = "recycled"]
            /\ got' = [got EXCEPT ![w] = @ \cup {cand[w]}]
       ELSE UNCHANGED <<place, got>>
    /\ cand' = [cand EXCEPT ![w] = NoBlock]
    /\ UNCHANGED <<clockVars, birth, death, registered, pins, readerVars,
                   victims, merging, ver, bound>>

---------------------------------------------------------------------------
(* Reorganizations.                                                         *)

(* The parent and the blocks to replace are latched.                        *)
Latch(w) ==
    /\ WGoto(w, "idle", "latched")
    /\ \E K \in SUBSET {b \in Blocks : place[b] = "live"} :
          /\ Cardinality(K) \in {1, 2}
          /\ \A v \in Writers : K \cap victims[v] = {}
          /\ victims' = [victims EXCEPT ![w] = K]
          /\ merging' = [merging EXCEPT ![w] = Cardinality(K) = 2]
    /\ UNCHANGED <<clockVars, blockVars, registered, pins, readerVars,
                   ver, bound, cand, got>>

(* start_tx_commit, with all blocks allocated.  A thread that has not yet   *)
(* committed, or was idle as a writer, has an inactive slot: the watermark  *)
(* does not account for its commit.                                         *)
StartSmo(w) ==
    /\ WGoto(w, "ready", "started")
    /\ \/ Clock!Begin
       \/ Untracked /\ Clock!BeginUntracked
    /\ ver' = [ver EXCEPT ![w] = clock]
    /\ bound' = [bound EXCEPT ![w] = 0]
    /\ UNCHANGED <<blockVars, registered, pins, readerVars, victims, merging,
                   cand, got>>

(* commit_delta (append_root at the top): from here on a descent finds the  *)
(* new block in place of the old ones.                                      *)
Replace(w) ==
    /\ wpc[w] = "started"
    /\ wpc' = [wpc EXCEPT ![w] = IF merging[w] THEN "bury" ELSE "end"]
    /\ \E n \in Blocks :
          /\ place[n] = "unborn"
          /\ \A m \in Blocks : m < n => place[m] # "unborn"
          /\ place' = [b \in Blocks |-> CASE b = n            -> "live"
                                          [] b \in victims[w] -> "dead"
                                          [] OTHER            -> place[b]]
          /\ birth' = [birth EXCEPT ![n] = ver[w]]
    /\ death' = [b \in Blocks |-> IF b \in victims[w] THEN ver[w] ELSE death[b]]
    /\ UNCHANGED <<clockVars, registered, pins, readerVars, victims, merging,
                   ver, bound, cand, got>>

(* end_tx_commit; a split registers its dead block afterwards.              *)
EndSmo(w) ==
    /\ wpc[w] = "end"
    /\ wpc' = [wpc EXCEPT ![w] = IF merging[w] THEN "idle" ELSE "bury"]
    /\ \/ Clock!Finish(ver[w])
       \/ ver[w] \notin inflight /\ UNCHANGED clockVars
    /\ merging' = [merging EXCEPT ![w] = FALSE]
    /\ ver' = [ver EXCEPT ![w] = 0]
    /\ got' = [got EXCEPT ![w] = {}]
    /\ UNCHANGED <<blockVars, registered, pins, readerVars, victims, bound, cand>>

(* register_died_page for one dead block; the merges register both of       *)
(* theirs before end_tx_commit.                                             *)
RegisterDied(w, b) ==
    /\ wpc[w] = "bury"
    /\ b \in victims[w]
    /\ place' = [place EXCEPT ![b] = "grave"]
    /\ victims' = [victims EXCEPT ![w] = @ \ {b}]
    /\ wpc' = [wpc EXCEPT ![w] = IF victims[w] # {b} THEN "bury"
                                 ELSE IF merging[w] THEN "end" ELSE "idle"]
    /\ UNCHANGED <<clockVars, birth, death, registered, pins, readerVars,
                   merging, ver, bound, cand, got>>

(* Snapshot calls of all threads let the watermark rise.                    *)
AdvanceWatermark ==
    /\ \E v \in wm + 1 .. clock : Clock!Advance(v)
    /\ UNCHANGED <<blockVars, registered, pins, readerVars, writerVars>>

---------------------------------------------------------------------------
Reader(r) ==
    \/ LowerBound(r) \/ PinReader(r) \/ DrawSnapshot(r) \/ OnTxStart(r)
    \/ OnTxCompleted(r) \/ UnpinReader(r)
    \/ \E b \in Blocks : Visit(r, b)

Writer(w) ==
    \/ Latch(w) \/ LoadCommitted(w) \/ PeekRegistered(w) \/ PeekPins(w)
    \/ Front(w) \/ Claim(w) \/ StartSmo(w) \/ Replace(w) \/ EndSmo(w)
    \/ \E b \in Blocks : RegisterDied(w, b)

Next ==
    \/ \E r \in Readers : Reader(r)
    \/ \E w \in Writers : Writer(w)
    \/ AdvanceWatermark

Spec == Init /\ [][Next]_vars

---------------------------------------------------------------------------
TypeOK ==
    /\ clock \in Nat /\ wm \in Nat /\ inflight \in SUBSET Nat
    /\ birth \in [Blocks -> Nat]
    /\ death \in [Blocks -> Nat]
    /\ place \in [Blocks -> {"unborn", "live", "dead", "grave", "recycled"}]
    /\ registered \in [Snapshots -> Nat]
    /\ pins \in SUBSET (Nat \X Readers)
    /\ rpc \in [Readers -> {"idle", "pin", "draw", "register", "query", "unpin"}]
    /\ lb \in [Readers -> Nat]
    /\ snap \in [Readers -> Nat]
    /\ at \in [Readers -> SUBSET Blocks]
    /\ wpc \in [Writers -> {"idle", "latched", "peekRegistered", "peekPins", "front",
                            "claim", "ready", "started", "bury", "end"}]
    /\ victims \in [Writers -> SUBSET Blocks]
    /\ merging \in [Writers -> BOOLEAN]
    /\ ver \in [Writers -> Nat]
    /\ bound \in [Writers -> Nat]
    /\ cand \in [Writers -> Blocks \cup {NoBlock}]
    /\ got \in [Writers -> SUBSET Blocks]

Reading(r) == rpc[r] \in {"register", "query"}

(* The GC never recycles a block that a reader holds or that a descent at   *)
(* its snapshot leads to, from the moment it has drawn its snapshot under   *)
(* its pin until its query is over.                                         *)
NoReaderLosesBlock ==
    \A r \in Readers, b \in Blocks :
        place[b] = "recycled" /\ Reading(r) => b \notin at[r] /\ ~Reachable(b, snap[r])

(* Exactly one thread wins a given dead block, and nobody reuses a block    *)
(* that a reorganization in progress still has latched.                     *)
OneWinner ==
    \A w \in Writers :
        /\ \A v \in Writers \ {w} : got[v] \cap got[w] = {}
        /\ \A v \in Writers : got[v] \cap victims[w] = {}

===========================================================================
