---------------------------- MODULE CommitClock ----------------------------
(***************************************************************************)
(* The commit clock of the tree (mv_sync/clock.rs): a counter hands out     *)
(* commit versions, every thread publishes the last version it committed    *)
(* in its own slot, and readers derive their snapshot from the minimum      *)
(* over the slots, cached in GLOBAL_MIN and guarded by GLOBAL_DIRTY.        *)
(*                                                                          *)
(* A thread is identified with the thread id it holds.  Every atomic load,  *)
(* store and read-modify-write of the code is one step.                     *)
(***************************************************************************)
EXTENDS Integers

CONSTANTS
    MaxThreads,   \* MAX_THREADS: size of SLOTS
    Epsilon,      \* MAX_READS_IN_ROW_EPSILON
    VersionMax,   \* Version::MAX, also INACTIVE_COMMIT_VERSION_MAX
    MaxClock      \* bound of the model: no commit starts at or above it

ASSUME ClockAssumption ==
    /\ MaxThreads \in Nat \ {0}
    /\ Epsilon \in Nat
    /\ MaxClock \in Nat
    /\ VersionMax \in Nat
    /\ MaxClock < VersionMax

VARIABLES
    tracked,    \* a tracker is installed, so writers call free_block
    clock,      \* GlobalClock: the next version to be handed out
    slots,      \* SLOTS
    globalMin,  \* GLOBAL_MIN
    dirty,      \* GLOBAL_DIRTY
    threadId,   \* THREAD_ID
    freeTids,   \* FREE_TIDS (as a set: tids differ only in their index)
    reads,      \* ThreadState.reads_in_row
    pc,         \* where each thread is
    ver,        \* the version of the commit in flight
    acc,        \* clock_time, then the fold's accumulator, then the result
    idx,        \* next slot the fold loads
    limit,      \* THREAD_ID as loaded by the fold
    owns,       \* owns_scan
    covered,    \* history: the slot was active when the commit started
    floor,      \* history: newest snapshot handed out when the call began
    newest      \* history: newest snapshot handed out so far

shared == <<clock, slots, globalMin, dirty, threadId, freeTids>>
scan   == <<acc, idx, limit, owns>>
local  == <<reads, pc, ver, acc, idx, limit, owns, covered, floor, newest>>
vars   == <<tracked, clock, slots, globalMin, dirty, threadId, freeTids, reads,
            pc, ver, acc, idx, limit, owns, covered, floor, newest>>

StartVersion == 1                       \* version_handle::START_VERSION
Threads      == 0 .. MaxThreads - 1
Versions     == 0 .. VersionMax
Inactive     == Epsilon + 2             \* READ_IN_ROW_INACTIVE: above every count
Flags        == {"clean", "dirty", "scanning"}

(* A thread that has updated its slot still has to notify the readers; the  *)
(* second function says where it goes then.                                 *)
Notifying  == {"dirtyCommit", "dirtyRead", "dirtyRelease", "dirtyExit"}
AfterDirty == [p \in Notifying |-> CASE p = "dirtyRead" -> "snapshot"
                                     [] p = "dirtyExit" -> "exit"
                                     [] OTHER           -> "idle"]

PCs == {"off", "idle", "commit", "read", "snapshot", "loadMin", "cas", "limit",
        "fold", "clean", "return", "exit"} \cup Notifying

Smaller(a, b) == IF a < b THEN a ELSE b
Larger(a, b)  == IF a > b THEN a ELSE b

Goto(t, from, to) == /\ pc[t] = from
                     /\ pc' = [pc EXCEPT ![t] = to]

---------------------------------------------------------------------------
Init ==
    /\ tracked   = FALSE
    /\ clock     = StartVersion
    /\ slots     = [t \in Threads |-> VersionMax]
    /\ globalMin = StartVersion
    /\ dirty     = "clean"
    /\ threadId  = 0
    /\ freeTids  = {}
    /\ reads     = [t \in Threads |-> 0]
    /\ pc        = [t \in Threads |-> "off"]
    /\ ver       = [t \in Threads |-> 0]
    /\ acc       = [t \in Threads |-> 0]
    /\ idx       = [t \in Threads |-> 0]
    /\ limit     = [t \in Threads |-> 0]
    /\ owns      = [t \in Threads |-> FALSE]
    /\ covered   = [t \in Threads |-> FALSE]
    /\ floor     = [t \in Threads |-> 0]
    /\ newest    = 0

(* MVBTSt::enable_gc: from now on there is a tracker.                       *)
EnableGc ==
    /\ ~tracked
    /\ tracked' = TRUE
    /\ UNCHANGED <<shared, local>>

(* ThreadState::new: a recycled thread id if there is one, else a new one. *)
NewThread(t) ==
    /\ Goto(t, "off", "idle")
    /\ reads' = [reads EXCEPT ![t] = 0]
    /\ \/ /\ t \in freeTids
          /\ freeTids' = freeTids \ {t}
          /\ UNCHANGED threadId
       \/ /\ freeTids = {}
          /\ t = threadId
          /\ threadId' = threadId + 1
          /\ UNCHANGED freeTids
    /\ UNCHANGED <<clock, slots, globalMin, dirty, ver, scan, covered, floor,
                   newest>>

(* thread_local_commit, first half: the store to the thread's own slot.    *)
StoreSlot(t, v) == slots' = [slots EXCEPT ![t] = v]

(* thread_local_commit, second half: the notification.                      *)
StoreDirty(t) ==
    /\ pc[t] \in Notifying
    /\ pc' = [pc EXCEPT ![t] = AfterDirty[pc[t]]]
    /\ dirty' = "dirty"
    /\ UNCHANGED <<clock, slots, globalMin, threadId, freeTids, reads, ver,
                   scan, covered, floor, newest>>

---------------------------------------------------------------------------
(* The writers' side.                                                       *)

(* GlobalClock::start_commit.                                               *)
StartCommit(t) ==
    /\ clock < MaxClock
    /\ Goto(t, "idle", "commit")
    /\ reads' = [reads EXCEPT ![t] = 0]
    /\ ver' = [ver EXCEPT ![t] = clock]
    /\ clock' = clock + 1
    /\ covered' = [covered EXCEPT ![t] = slots[t] # VersionMax]
    /\ UNCHANGED <<slots, globalMin, dirty, threadId, freeTids, scan, floor,
                   newest>>

(* The commit is over: its version is no longer the thread's.               *)
Forget(t) ==
    /\ ver' = [ver EXCEPT ![t] = 0]
    /\ covered' = [covered EXCEPT ![t] = FALSE]

(* GlobalClock::end_commit; StoreDirty completes it.                        *)
EndCommit(t) ==
    /\ Goto(t, "commit", "dirtyCommit")
    /\ StoreSlot(t, ver[t])
    /\ Forget(t)
    /\ UNCHANGED <<clock, globalMin, dirty, threadId, freeTids, reads, scan,
                   floor, newest>>

(* A Delete that finds no live record draws a version and never ends it.    *)
AbandonCommit(t) ==
    /\ Goto(t, "commit", "idle")
    /\ Forget(t)
    /\ UNCHANGED <<shared, reads, scan, floor, newest>>

(* release_thread_commit: set_inactive_commit on the caller's own state.    *)
ReleaseThreadCommit(t) ==
    /\ Goto(t, "idle", "dirtyRelease")
    /\ reads' = [reads EXCEPT ![t] = Inactive]
    /\ StoreSlot(t, VersionMax)
    /\ UNCHANGED <<clock, globalMin, dirty, threadId, freeTids, ver, scan,
                   covered, floor, newest>>

(* ThreadState::drop: the slot is released, then the thread id is recycled. *)
DropThread(t) ==
    /\ Goto(t, "idle", "dirtyExit")
    /\ StoreSlot(t, VersionMax)
    /\ UNCHANGED <<clock, globalMin, dirty, threadId, freeTids, reads, ver,
                   scan, covered, floor, newest>>

RecycleTid(t) ==
    /\ Goto(t, "exit", "off")
    /\ freeTids' = freeTids \cup {t}
    /\ UNCHANGED <<clock, slots, globalMin, dirty, threadId, reads, ver, scan,
                   covered, floor, newest>>

---------------------------------------------------------------------------
(* The readers' side.                                                       *)

(* The caller evaluates the argument of the snapshot call.                  *)
BeginCall(t, entry, clockTime) ==
    /\ Goto(t, "idle", entry)
    /\ acc' = [acc EXCEPT ![t] = clockTime]
    /\ floor' = [floor EXCEPT ![t] = newest]
    /\ UNCHANGED <<shared, reads, ver, idx, limit, owns, covered, newest>>

(* current_version_for_reader loads the clock for committed_read.           *)
BeginRead(t) == BeginCall(t, "read", clock)

(* pinned_reader_snapshot first takes the lower bound of its pin.           *)
BeginPin(t) == BeginCall(t, "snapshot", clock)

(* free_block has no clock reading at hand and passes Version::MAX.         *)
BeginFreeBlock(t) == tracked /\ BeginCall(t, "snapshot", VersionMax)

(* committed_read: the bookkeeping of reads in a row.                       *)
CountRead(t) ==
    /\ pc[t] = "read"
    /\ \/ /\ reads[t] = Inactive
          /\ pc' = [pc EXCEPT ![t] = "snapshot"]
          /\ UNCHANGED <<reads, slots>>
       \/ /\ reads[t] # Inactive
          /\ reads[t] > Epsilon
          /\ reads' = [reads EXCEPT ![t] = Inactive]
          /\ StoreSlot(t, VersionMax)
          /\ pc' = [pc EXCEPT ![t] = "dirtyRead"]
       \/ /\ reads[t] <= Epsilon
          /\ reads' = [reads EXCEPT ![t] = reads[t] + 1]
          /\ pc' = [pc EXCEPT ![t] = "snapshot"]
          /\ UNCHANGED slots
    /\ UNCHANGED <<clock, globalMin, dirty, threadId, freeTids, ver, scan,
                   covered, floor, newest>>

(* committed_snapshot: the load of GLOBAL_DIRTY.                            *)
LoadDirty(t) ==
    /\ pc[t] = "snapshot"
    /\ pc' = [pc EXCEPT ![t] = CASE dirty = "clean"    -> "loadMin"
                                 [] dirty = "dirty"    -> "cas"
                                 [] dirty = "scanning" -> "limit"]
    /\ owns' = [owns EXCEPT ![t] = FALSE]
    /\ UNCHANGED <<shared, reads, ver, acc, idx, limit, covered, floor,
                   newest>>

(* The clean path: the cached minimum is the snapshot.                      *)
LoadGlobalMin(t) ==
    /\ Goto(t, "loadMin", "return")
    /\ acc' = [acc EXCEPT ![t] = globalMin]
    /\ UNCHANGED <<shared, reads, ver, idx, limit, owns, covered, floor, newest>>

(* The compare-exchange DIRTY -> SCANNING that makes one reader the owner.  *)
OwnScan(t) ==
    /\ Goto(t, "cas", "limit")
    /\ owns' = [owns EXCEPT ![t] = dirty = "dirty"]
    /\ dirty' = IF dirty = "dirty" THEN "scanning" ELSE dirty
    /\ UNCHANGED <<clock, slots, globalMin, threadId, freeTids, reads, ver,
                   acc, idx, limit, covered, floor, newest>>

(* Mutant: the last slot is left out of the fold.                           *)
LoadLimitShort(t) ==
    /\ Goto(t, "limit", "fold")
    /\ limit' = [limit EXCEPT ![t] = threadId - 1]
    /\ idx' = [idx EXCEPT ![t] = 0]
    /\ UNCHANGED <<shared, reads, ver, acc, owns, covered, floor, newest>>

(* take(THREAD_ID.load()): how many slots the fold visits.                  *)
LoadLimit(t) ==
    /\ pc[t] = "limit"
    /\ limit' = [limit EXCEPT ![t] = threadId]
    /\ idx' = [idx EXCEPT ![t] = 0]
    /\ pc' = [pc EXCEPT ![t] = "fold"]
    /\ UNCHANGED <<shared, reads, ver, acc, owns, covered, floor, newest>>

(* Mutant: the fold keeps the last slot instead of the smallest.            *)
FoldSlotLast(t) ==
    /\ pc[t] = "fold"
    /\ idx[t] < limit[t]
    /\ acc' = [acc EXCEPT ![t] = slots[idx[t]]]
    /\ idx' = [idx EXCEPT ![t] = idx[t] + 1]
    /\ UNCHANGED <<shared, reads, pc, ver, limit, owns, covered, floor,
                   newest>>

(* One element of the fold.                                                 *)
FoldSlot(t) ==
    /\ pc[t] = "fold"
    /\ idx[t] < limit[t]
    /\ acc' = [acc EXCEPT ![t] = Smaller(acc[t], slots[idx[t]])]
    /\ idx' = [idx EXCEPT ![t] = idx[t] + 1]
    /\ UNCHANGED <<shared, reads, pc, ver, limit, owns, covered, floor,
                   newest>>

(* Mutant: a plain store instead of fetch_max.                              *)
PublishMinStore(t) ==
    /\ pc[t] = "fold"
    /\ idx[t] = limit[t]
    /\ globalMin' = acc[t]
    /\ idx' = [idx EXCEPT ![t] = 0]
    /\ limit' = [limit EXCEPT ![t] = 0]
    /\ pc' = [pc EXCEPT ![t] = IF owns[t] THEN "clean" ELSE "return"]
    /\ UNCHANGED <<clock, slots, dirty, threadId, freeTids, reads, ver, acc,
                   owns, covered, floor, newest>>

(* GLOBAL_MIN.fetch_max; the larger of both is the snapshot.                *)
PublishMin(t) ==
    /\ pc[t] = "fold"
    /\ idx[t] = limit[t]
    /\ globalMin' = Larger(globalMin, acc[t])
    /\ acc' = [acc EXCEPT ![t] = Larger(globalMin, acc[t])]
    /\ idx' = [idx EXCEPT ![t] = 0]
    /\ limit' = [limit EXCEPT ![t] = 0]
    /\ pc' = [pc EXCEPT ![t] = IF owns[t] THEN "clean" ELSE "return"]
    /\ UNCHANGED <<clock, slots, dirty, threadId, freeTids, reads, ver, owns,
                   covered, floor, newest>>

(* The owner's final compare-exchange SCANNING -> CLEAN.                    *)
CleanFlag(t) ==
    /\ Goto(t, "clean", "return")
    /\ dirty' = IF dirty = "scanning" THEN "clean" ELSE dirty
    /\ owns' = [owns EXCEPT ![t] = FALSE]
    /\ UNCHANGED <<clock, slots, globalMin, threadId, freeTids, reads, ver, acc,
                   idx, limit, covered, floor, newest>>

(* The snapshot is in the caller's hands.                                   *)
Return(t) ==
    /\ Goto(t, "return", "idle")
    /\ newest' = Larger(newest, acc[t])
    /\ acc' = [acc EXCEPT ![t] = 0]
    /\ floor' = [floor EXCEPT ![t] = 0]
    /\ UNCHANGED <<shared, reads, ver, idx, limit, owns, covered>>

---------------------------------------------------------------------------
Writer(t) ==
    \/ NewThread(t) \/ StartCommit(t) \/ EndCommit(t) \/ AbandonCommit(t)
    \/ ReleaseThreadCommit(t) \/ DropThread(t) \/ RecycleTid(t) \/ StoreDirty(t)

Reader(t) ==
    \/ BeginRead(t) \/ BeginPin(t) \/ BeginFreeBlock(t) \/ CountRead(t)
    \/ LoadDirty(t) \/ LoadGlobalMin(t) \/ OwnScan(t) \/ LoadLimit(t)
    \/ FoldSlot(t) \/ PublishMin(t) \/ CleanFlag(t) \/ Return(t)

Step == (\E t \in Threads : Writer(t) \/ Reader(t)) /\ UNCHANGED tracked

Next == EnableGc \/ Step

Spec == Init /\ [][Next]_vars

---------------------------------------------------------------------------
TypeOK ==
    /\ tracked \in BOOLEAN
    /\ clock \in StartVersion .. Larger(MaxClock, StartVersion)
    /\ slots \in [Threads -> Versions]
    /\ globalMin \in Versions
    /\ dirty \in Flags
    /\ threadId \in 0 .. MaxThreads
    /\ freeTids \in SUBSET Threads
    /\ reads \in [Threads -> 0 .. Inactive]
    /\ pc \in [Threads -> PCs]
    /\ ver \in [Threads -> Versions]
    /\ acc \in [Threads -> Versions]
    /\ idx \in [Threads -> 0 .. MaxThreads]
    /\ limit \in [Threads -> 0 .. MaxThreads]
    /\ owns \in [Threads -> BOOLEAN]
    /\ covered \in [Threads -> BOOLEAN]
    /\ floor \in [Threads -> Versions]
    /\ newest \in Versions

(* A snapshot call never returns less than a snapshot that had been handed  *)
(* out when it began: what committed_snapshot's comment promises ("the      *)
(* result is monotonically non-decreasing over time") and what a reader's   *)
(* pin relies on.                                                           *)
SnapshotsMonotone ==
    \A t \in Threads : pc[t] \in {"clean", "return"} => acc[t] >= floor[t]

(* While no tracker is installed, no reader is handed a snapshot beyond the *)
(* version the next commit will get.                                        *)
SnapshotAtMostClock == ~tracked => globalMin <= clock

Committing(t) == pc[t] = "commit" /\ covered[t]

(* While no tracker is installed, GLOBAL_MIN never passes the version of a  *)
(* commit in flight on a thread whose slot was active when the commit       *)
(* started, whatever interleaving of folds, slot stores, late registrations *)
(* and recycled thread ids.                                                 *)
ActiveCommitNotPassed ==
    ~tracked => \A t \in Threads : Committing(t) => globalMin <= ver[t]

(* The versions in flight the clock accounts for.                           *)
Inflight == {ver[t] : t \in {u \in Threads : Committing(u)}}

(* The clock seen as the abstract watermark, which accounts for the commits *)
(* of threads with an active slot.                                          *)
Abstract == INSTANCE Watermark
    WITH wm <- globalMin, inflight <- Inflight

(* While no tracker is installed, the clock implements the abstract         *)
(* watermark: its atomic steps, which the tree cannot tell apart, are steps *)
(* of the watermark or leave it alone.                                      *)
ImplementsWatermark ==
    Abstract!Init /\ [][~tracked' => Abstract!Next]_(Abstract!vars)
===========================================================================
