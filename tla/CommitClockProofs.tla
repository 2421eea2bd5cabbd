------------------------- MODULE CommitClockProofs -------------------------
(***************************************************************************)
(* Proofs about the commit clock, for any number of threads and versions.   *)
(***************************************************************************)
EXTENDS CommitClock, TLAPS

(* The values the steps store, so that the sets can stay folded.            *)
LEMMA Ranges ==
    /\ 0 \in Versions /\ VersionMax \in Versions
    /\ StartVersion .. Larger(MaxClock, StartVersion) \subseteq Versions
    /\ \A a, b \in Versions : Larger(a, b) \in Versions /\ Smaller(a, b) \in Versions
    /\ {0, Inactive} \subseteq 0 .. Inactive
    /\ \A n \in 0 .. Inactive : n <= Epsilon => n + 1 \in 0 .. Inactive
    /\ 0 \in 0 .. MaxThreads
    /\ \A t \in Threads : t + 1 \in 0 .. MaxThreads
    /\ \A i, n \in 0 .. MaxThreads : i < n => i \in Threads /\ i + 1 \in 0 .. MaxThreads
  BY ClockAssumption DEF Versions, StartVersion, Larger, Smaller, Inactive, Threads

(* Every label a notification or a step of a thread leads to is a label of  *)
(* the model.                                                               *)
LEMMA Labels ==
    /\ \A p \in Notifying : AfterDirty[p] \in PCs
    /\ {"dirtyCommit", "dirtyRead", "dirtyRelease", "dirtyExit"} \subseteq PCs
    /\ {"off", "idle", "commit", "read", "snapshot", "loadMin", "cas", "limit",
        "fold", "clean", "return", "exit"} \subseteq PCs
  BY DEF PCs, Notifying, AfterDirty

(* Every value a step stores fits the variable it is stored in.             *)
LEMMA TypeStep == TypeOK /\ [Next]_vars => TypeOK'
<1> SUFFICES ASSUME TypeOK, [Next]_vars PROVE TypeOK'
  OBVIOUS
<1> USE Ranges, Labels DEF TypeOK, Flags
<1>0. tracked' \in BOOLEAN
  BY DEF Next, EnableGc, Step, vars
<1> USE <1>0
<1>1. clock \in Versions
  OBVIOUS
<1>2. ASSUME NEW t \in Threads, Writer(t) PROVE TypeOK'
  <2>1. CASE NewThread(t)
    BY <2>1 DEF NewThread, Goto, scan
  <2>2. CASE StartCommit(t)
    <3>1. clock' \in StartVersion .. Larger(MaxClock, StartVersion)
      BY <2>2, ClockAssumption DEF StartCommit, Larger, StartVersion
    <3> QED
      BY <2>2, <1>1, <3>1 DEF StartCommit, Goto, scan
  <2>3. CASE EndCommit(t)
    BY <2>3 DEF EndCommit, Goto, StoreSlot, Forget, scan
  <2>4. CASE AbandonCommit(t)
    BY <2>4 DEF AbandonCommit, Goto, Forget, shared, scan
  <2>5. CASE ReleaseThreadCommit(t)
    BY <2>5 DEF ReleaseThreadCommit, Goto, StoreSlot, scan
  <2>6. CASE DropThread(t)
    BY <2>6 DEF DropThread, Goto, StoreSlot, scan
  <2>7. CASE RecycleTid(t)
    BY <2>7 DEF RecycleTid, Goto, scan
  <2>8. CASE StoreDirty(t)
    BY <2>8 DEF StoreDirty, scan
  <2> QED
    BY <1>2, <2>1, <2>2, <2>3, <2>4, <2>5, <2>6, <2>7, <2>8 DEF Writer
<1>3. ASSUME NEW t \in Threads, Reader(t) PROVE TypeOK'
  <2>1. CASE BeginRead(t)
    BY <2>1, <1>1 DEF BeginRead, BeginCall, Goto, shared
  <2>2. CASE BeginPin(t)
    BY <2>2, <1>1 DEF BeginPin, BeginCall, Goto, shared
  <2>3. CASE BeginFreeBlock(t)
    BY <2>3 DEF BeginFreeBlock, BeginCall, Goto, shared
  <2>4. CASE CountRead(t)
    <3>1. reads' \in [Threads -> 0 .. Inactive]
      <4>1. reads[t] \in 0 .. Inactive
        OBVIOUS
      <4>2. \/ reads' = reads
            \/ reads' = [reads EXCEPT ![t] = Inactive]
            \/ reads[t] <= Epsilon /\ reads' = [reads EXCEPT ![t] = reads[t] + 1]
        BY <2>4 DEF CountRead
      <4> QED
        BY <4>1, <4>2
    <3>2. slots' \in [Threads -> Versions]
      BY <2>4 DEF CountRead, StoreSlot
    <3>3. pc' \in [Threads -> PCs]
      BY <2>4 DEF CountRead
    <3> QED
      BY <2>4, <3>1, <3>2, <3>3 DEF CountRead, scan
  <2>5. CASE LoadDirty(t)
    BY <2>5 DEF LoadDirty, shared
  <2>6. CASE LoadGlobalMin(t)
    BY <2>6 DEF LoadGlobalMin, Goto, shared
  <2>7. CASE OwnScan(t)
    BY <2>7 DEF OwnScan, Goto
  <2>8. CASE LoadLimit(t)
    BY <2>8 DEF LoadLimit, shared
  <2>9. CASE FoldSlot(t)
    <3>1. idx[t] \in Threads /\ idx[t] + 1 \in 0 .. MaxThreads
      BY <2>9 DEF FoldSlot
    <3>2. Smaller(acc[t], slots[idx[t]]) \in Versions
      BY <3>1
    <3> QED
      BY <2>9, <3>1, <3>2 DEF FoldSlot, shared
  <2>10. CASE PublishMin(t)
    BY <2>10 DEF PublishMin
  <2>11. CASE CleanFlag(t)
    BY <2>11 DEF CleanFlag, Goto
  <2>12. CASE Return(t)
    BY <2>12 DEF Return, Goto, shared
  <2> QED
    BY <1>3, <2>1, <2>2, <2>3, <2>4, <2>5, <2>6, <2>7, <2>8, <2>9, <2>10,
       <2>11, <2>12 DEF Reader
<1>4. CASE EnableGc
  BY <1>4 DEF EnableGc, shared, local
<1>5. CASE UNCHANGED vars
  BY <1>5 DEF vars
<1> QED
  BY <1>2, <1>3, <1>4, <1>5 DEF Next, Step

(* The variables of the clock keep their types.                             *)
THEOREM TypeCorrect == Spec => []TypeOK
<1>1. Init => TypeOK
  <2>1. Init => tracked \in BOOLEAN
    BY Zenon DEF Init
  <2> QED
    BY <2>1, ClockAssumption
       DEF Init, TypeOK, Threads, Versions, Flags, PCs, Notifying, StartVersion,
           Inactive, Larger
<1> QED
  BY <1>1, TypeStep, PTL DEF Spec

---------------------------------------------------------------------------
(* Snapshots are monotone: no snapshot in anyone's hands, and no floor      *)
(* recorded from one, is above GLOBAL_MIN, which itself never falls.        *)

FloorInv ==
    /\ newest <= globalMin
    /\ \A t \in Threads :
          /\ floor[t] <= globalMin
          /\ pc[t] \in {"clean", "return"} =>
                /\ acc[t] <= globalMin
                /\ acc[t] >= floor[t]

(* Every step keeps snapshots and their floors at or below GLOBAL_MIN.      *)
LEMMA FloorStep == TypeOK /\ FloorInv /\ [Next]_vars => FloorInv'
<1> SUFFICES ASSUME TypeOK, FloorInv, [Next]_vars PROVE FloorInv'
  OBVIOUS
<1>0. /\ globalMin \in Int /\ newest \in Int
      /\ \A t \in Threads : acc[t] \in Int /\ floor[t] \in Int
      /\ acc \in [Threads -> Versions] /\ floor \in [Threads -> Versions]
      /\ pc \in [Threads -> PCs]
  BY ClockAssumption DEF TypeOK, Versions
<1> USE <1>0 DEF FloorInv
<1>1. ASSUME NEW t \in Threads, PublishMin(t) PROVE FloorInv'
  BY <1>1 DEF PublishMin, Larger
<1>2. ASSUME NEW t \in Threads, LoadGlobalMin(t) PROVE FloorInv'
  BY <1>2 DEF LoadGlobalMin, Goto, shared
<1>3. ASSUME NEW t \in Threads, Return(t) PROVE FloorInv'
  <2>1. 0 <= globalMin
    BY ClockAssumption DEF TypeOK, Versions
  <2> QED
    BY <1>3, <2>1 DEF Return, Goto, shared, Larger
<1>4. ASSUME NEW t \in Threads, NEW e, NEW c, e \in {"read", "snapshot"},
             BeginCall(t, e, c)
      PROVE  FloorInv'
  BY <1>4 DEF BeginCall, Goto, shared
<1>5. ASSUME NEW t \in Threads, CountRead(t) PROVE FloorInv'
  BY <1>5 DEF CountRead, StoreSlot, scan
<1>6. ASSUME NEW t \in Threads, LoadDirty(t) PROVE FloorInv'
  BY <1>6 DEF LoadDirty, shared, TypeOK, Flags
<1>7. ASSUME NEW t \in Threads, OwnScan(t) PROVE FloorInv'
  BY <1>7 DEF OwnScan, Goto
<1>8. ASSUME NEW t \in Threads, LoadLimit(t) \/ FoldSlot(t) PROVE FloorInv'
  BY <1>8 DEF LoadLimit, FoldSlot, shared
<1>9. ASSUME NEW t \in Threads, CleanFlag(t) PROVE FloorInv'
  BY <1>9 DEF CleanFlag, Goto
<1>10. ASSUME NEW t \in Threads, StoreDirty(t) PROVE FloorInv'
  BY <1>10 DEF StoreDirty, scan, AfterDirty, Notifying
<1>11. ASSUME NEW t \in Threads,
              NewThread(t) \/ StartCommit(t) \/ EndCommit(t) \/ AbandonCommit(t)
       PROVE  FloorInv'
  BY <1>11 DEF NewThread, StartCommit, EndCommit, AbandonCommit, Forget, Goto,
               shared, scan
<1>12. ASSUME NEW t \in Threads,
              ReleaseThreadCommit(t) \/ DropThread(t) \/ RecycleTid(t)
       PROVE  FloorInv'
  BY <1>12 DEF ReleaseThreadCommit, DropThread, RecycleTid, Goto, scan
<1>13. CASE EnableGc
  BY <1>13 DEF EnableGc, shared, local
<1>14. CASE UNCHANGED vars
  BY <1>14 DEF vars
<1> QED
  BY <1>1, <1>2, <1>3, <1>4, <1>5, <1>6, <1>7, <1>8, <1>9, <1>10, <1>11, <1>12,
     <1>13, <1>14 DEF Next, Step, Writer, Reader, BeginRead, BeginPin, BeginFreeBlock

(* A snapshot call returns at least every snapshot handed out before it     *)
(* began, with or without a tracker, for any number of threads.             *)
THEOREM MonotoneSnapshots == Spec => []SnapshotsMonotone
<1>1. Init => FloorInv
  BY DEF Init, FloorInv, StartVersion
<1>2. FloorInv => SnapshotsMonotone
  BY DEF FloorInv, SnapshotsMonotone
<1> QED
  BY <1>1, <1>2, FloorStep, TypeCorrect, PTL DEF Spec

---------------------------------------------------------------------------
(* Without a tracker the watermark is safe.  A fold that may still raise    *)
(* GLOBAL_MIN is either bounded by the version of each covered commit, or   *)
(* has not yet loaded the slot of the committing thread, which bounds it.   *)

TidInv ==
    /\ \A t \in Threads : pc[t] # "off" => t < threadId
    /\ \A t \in freeTids : t < threadId

SlotInv ==
    \A t \in Threads :
        /\ slots[t] # VersionMax => slots[t] < clock
        /\ pc[t] = "commit" => ver[t] < clock
        /\ Committing(t) => slots[t] < ver[t]

(* Every version is in the hands of one thread only.                        *)
UniqueVersions ==
    \A t, u \in Threads :
        pc[t] = "commit" /\ pc[u] = "commit" /\ t # u => ver[t] # ver[u]

InCall == {"read", "dirtyRead", "snapshot", "loadMin", "cas", "limit", "fold"}

FoldInv ==
    \A r \in Threads :
        /\ pc[r] \in InCall => acc[r] <= clock
        /\ pc[r] = "fold" =>
              /\ idx[r] <= limit[r]
              /\ \A t \in Threads : Committing(t) =>
                    acc[r] <= ver[t] \/ (idx[r] <= t /\ t < limit[r])

MinAtMostClock == globalMin <= clock

MinAtMostCommits == \A t \in Threads : Committing(t) => globalMin <= ver[t]

SafeInv ==
    /\ TidInv
    /\ SlotInv
    /\ UniqueVersions
    /\ FoldInv
    /\ MinAtMostClock
    /\ MinAtMostCommits

(* A tracker is never taken away, so this one is inductive.                 *)
UntrackedInv == ~tracked => SafeInv

(* The versions and indexes of a typed state are integers.                  *)
LEMMA Numbers ==
    TypeOK =>
      /\ clock \in Int /\ globalMin \in Int /\ threadId \in Int
      /\ VersionMax \in Int /\ clock <= VersionMax
      /\ Threads \subseteq Int /\ freeTids \subseteq Threads
      /\ slots \in [Threads -> Int] /\ ver \in [Threads -> Int]
      /\ acc \in [Threads -> Int] /\ idx \in [Threads -> Int]
      /\ limit \in [Threads -> Int] /\ pc \in [Threads -> PCs]
      /\ covered \in [Threads -> BOOLEAN]
      /\ \A r \in Threads : idx[r] \in 0 .. MaxThreads /\ limit[r] \in 0 .. MaxThreads
      /\ \A t \in Threads : 0 <= t
<1> SUFFICES ASSUME TypeOK PROVE Numbers!2
  OBVIOUS
<1>1. Versions \subseteq Int /\ 0 .. MaxThreads \subseteq Int
  BY ClockAssumption DEF Versions
<1>2. Threads \subseteq Int /\ \A t \in Threads : 0 <= t
  BY ClockAssumption DEF Threads
<1>3. clock \in Int /\ VersionMax \in Int /\ clock <= VersionMax
  BY ClockAssumption DEF TypeOK, StartVersion, Larger
<1> QED
  BY <1>1, <1>2, <1>3 DEF TypeOK

(* Without a tracker, every step keeps folds and GLOBAL_MIN at or below the *)
(* covered commits.                                                         *)
LEMMA SafeStep ==
    ASSUME ~tracked, ~tracked', TypeOK, SafeInv, [Next]_vars PROVE SafeInv'
<1> USE Numbers DEF SafeInv, TidInv, SlotInv, UniqueVersions, FoldInv, InCall,
                    MinAtMostClock, MinAtMostCommits, Committing
<1>1. ASSUME NEW t \in Threads, NewThread(t) PROVE SafeInv'
  BY <1>1 DEF NewThread, Goto, scan
<1>2. ASSUME NEW t \in Threads, StartCommit(t) PROVE SafeInv'
  <2> USE <1>2 DEF StartCommit, Goto, scan
  <2>1. TidInv' /\ MinAtMostClock'
    OBVIOUS
  <2>2. SlotInv'
    <3>1. covered'[t] => slots[t] # VersionMax
      OBVIOUS
    <3> QED
      BY <3>1
  <2>3. UniqueVersions'
    OBVIOUS
  <2>4. FoldInv'
    OBVIOUS
  <2>5. MinAtMostCommits'
    OBVIOUS
  <2> QED
    BY <2>1, <2>2, <2>3, <2>4, <2>5
<1>3. ASSUME NEW t \in Threads, EndCommit(t) PROVE SafeInv'
  BY <1>3 DEF EndCommit, StoreSlot, Forget, Goto, scan
<1>4. ASSUME NEW t \in Threads, AbandonCommit(t) PROVE SafeInv'
  BY <1>4 DEF AbandonCommit, Forget, Goto, shared, scan
<1>5. ASSUME NEW t \in Threads, ReleaseThreadCommit(t) \/ DropThread(t) PROVE SafeInv'
  BY <1>5 DEF ReleaseThreadCommit, DropThread, StoreSlot, Goto, scan
<1>6. ASSUME NEW t \in Threads, RecycleTid(t) PROVE SafeInv'
  BY <1>6 DEF RecycleTid, Goto, scan
<1>7. ASSUME NEW t \in Threads, StoreDirty(t) PROVE SafeInv'
  BY <1>7 DEF StoreDirty, AfterDirty, Notifying, scan
<1>8. ASSUME NEW t \in Threads, BeginRead(t) \/ BeginPin(t) PROVE SafeInv'
  BY <1>8 DEF BeginRead, BeginPin, BeginCall, Goto, shared
<1>9. ASSUME NEW t \in Threads, CountRead(t) PROVE SafeInv'
  BY <1>9 DEF CountRead, StoreSlot, scan
<1>10. ASSUME NEW t \in Threads, LoadDirty(t) PROVE SafeInv'
  BY <1>10 DEF LoadDirty, shared, TypeOK, Flags
<1>11. ASSUME NEW t \in Threads, LoadGlobalMin(t) PROVE SafeInv'
  BY <1>11 DEF LoadGlobalMin, Goto, shared
<1>12. ASSUME NEW t \in Threads, OwnScan(t) PROVE SafeInv'
  BY <1>12 DEF OwnScan, Goto
<1>13. ASSUME NEW t \in Threads, LoadLimit(t) PROVE SafeInv'
  BY <1>13, ClockAssumption DEF LoadLimit, shared
<1>14. ASSUME NEW t \in Threads, FoldSlot(t) PROVE SafeInv'
  BY <1>14, Ranges DEF FoldSlot, shared, Smaller
<1>15. ASSUME NEW t \in Threads, PublishMin(t) PROVE SafeInv'
  BY <1>15 DEF PublishMin, Larger
<1>16. ASSUME NEW t \in Threads, CleanFlag(t) PROVE SafeInv'
  BY <1>16 DEF CleanFlag, Goto
<1>17. ASSUME NEW t \in Threads, Return(t) PROVE SafeInv'
  BY <1>17 DEF Return, Goto, shared
<1>18. CASE UNCHANGED vars
  BY <1>18 DEF vars
<1> QED
  BY <1>1, <1>2, <1>3, <1>4, <1>5, <1>6, <1>7, <1>8, <1>9, <1>10, <1>11, <1>12,
     <1>13, <1>14, <1>15, <1>16, <1>17, <1>18
     DEF Next, EnableGc, Step, Writer, Reader, BeginFreeBlock

(* Nothing is committed or folded at the start.                             *)
LEMMA SafeInit == Init => UntrackedInv
  BY DEF Init, UntrackedInv, SafeInv, TidInv, SlotInv, UniqueVersions, FoldInv, InCall,
         MinAtMostClock, MinAtMostCommits, Committing, StartVersion

(* The clock is safe until a tracker is installed.                          *)
LEMMA UntrackedStep == TypeOK /\ UntrackedInv /\ [Next]_vars => UntrackedInv'
<1> SUFFICES ASSUME TypeOK, UntrackedInv, [Next]_vars, ~tracked' PROVE SafeInv'
  BY DEF UntrackedInv
<1>1. ~tracked
  BY DEF Next, EnableGc, Step, vars
<1> QED
  BY <1>1, SafeStep DEF UntrackedInv

(* Until a tracker is installed no snapshot passes the clock, nor the       *)
(* version of a commit in flight on a thread with an active slot.           *)
THEOREM SafeWatermark == Spec => [](SnapshotAtMostClock /\ ActiveCommitNotPassed)
<1>1. UntrackedInv => SnapshotAtMostClock /\ ActiveCommitNotPassed
  BY DEF UntrackedInv, SafeInv, SnapshotAtMostClock, ActiveCommitNotPassed,
         MinAtMostClock, MinAtMostCommits
<1> QED
  BY <1>1, SafeInit, UntrackedStep, TypeCorrect, PTL DEF Spec

---------------------------------------------------------------------------
(* The clock implements the abstract watermark.                             *)

(* Every step of the clock is a step of the abstract watermark or leaves it *)
(* unchanged.                                                               *)
LEMMA RefineStep ==
    ASSUME ~tracked, ~tracked', TypeOK, SafeInv, SafeInv', [Next]_vars
    PROVE  [Abstract!Next]_(Abstract!vars)
<1> USE Numbers DEF Abstract!vars
<1>a. ASSUME UNCHANGED <<clock, globalMin>>,
             \A u \in Threads : Committing(u)' = Committing(u) /\ ver'[u] = ver[u]
      PROVE  UNCHANGED Abstract!vars
  BY <1>a DEF Inflight
<1>1. ASSUME NEW t \in Threads, StartCommit(t) PROVE Abstract!Begin \/ Abstract!BeginUntracked
  <2>1. clock < MaxClock /\ clock' = clock + 1 /\ globalMin' = globalMin
    BY <1>1 DEF StartCommit
  <2>2. /\ pc'[t] = "commit" /\ ver'[t] = clock /\ pc[t] = "idle"
        /\ \A u \in Threads \ {t} :
              pc'[u] = pc[u] /\ covered'[u] = covered[u] /\ ver'[u] = ver[u]
    BY <1>1 DEF StartCommit, Goto
  <2>3. CASE covered'[t]
    <3>1. Inflight' = Inflight \cup {clock}
      BY <2>2, <2>3 DEF Inflight, Committing
    <3> QED
      BY <2>1, <3>1 DEF Abstract!Begin
  <2>4. CASE ~covered'[t]
    <3>1. Inflight' = Inflight
      BY <2>2, <2>4 DEF Inflight, Committing
    <3> QED
      BY <2>1, <3>1 DEF Abstract!BeginUntracked
  <2> QED
    BY <2>3, <2>4
<1>2. ASSUME NEW t \in Threads, EndCommit(t) \/ AbandonCommit(t)
      PROVE  [Abstract!Next]_(Abstract!vars)
  <2>1. UNCHANGED <<clock, globalMin>>
    BY <1>2 DEF EndCommit, AbandonCommit, shared
  <2>2. /\ pc[t] = "commit" /\ pc'[t] # "commit"
        /\ \A u \in Threads \ {t} :
              pc'[u] = pc[u] /\ covered'[u] = covered[u] /\ ver'[u] = ver[u]
    BY <1>2 DEF EndCommit, AbandonCommit, Forget, Goto
  <2>3. CASE covered[t]
    <3>1. ver[t] \in Inflight
      BY <2>2, <2>3 DEF Inflight, Committing
    <3>2. Inflight' = Inflight \ {ver[t]}
      BY <2>2, <2>3 DEF Inflight, Committing, SafeInv, UniqueVersions
    <3> QED
      BY <2>1, <3>1, <3>2 DEF Abstract!Next, Abstract!Finish
  <2>4. CASE ~covered[t]
    <3>1. Inflight' = Inflight
      BY <2>2, <2>4 DEF Inflight, Committing
    <3> QED
      BY <2>1, <3>1
  <2> QED
    BY <2>3, <2>4
<1>3. ASSUME NEW t \in Threads, PublishMin(t) PROVE [Abstract!Next]_(Abstract!vars)
  <2>1. /\ UNCHANGED clock
        /\ \A u \in Threads : Committing(u)' = Committing(u) /\ ver'[u] = ver[u]
        /\ Inflight' = Inflight
    BY <1>3 DEF PublishMin, Committing, Inflight
  <2>2. globalMin' = globalMin \/ globalMin' > globalMin
    BY <1>3 DEF PublishMin, Larger
  <2>3. globalMin' <= clock /\ globalMin' \in Int
    BY <1>3, <2>1 DEF SafeInv, MinAtMostClock, PublishMin, Larger
  <2>4. \A v \in Inflight : globalMin' <= v
    BY <2>1 DEF SafeInv, MinAtMostCommits, Inflight
  <2>5. CASE globalMin' > globalMin
    <3>1. globalMin' \in globalMin + 1 .. clock
      BY <2>3, <2>5
    <3> QED
      BY <2>1, <2>3, <2>4, <2>5, <3>1 DEF Abstract!Next, Abstract!Advance
  <2> QED
    BY <2>1, <2>2, <2>5
<1>4. ASSUME NEW t \in Threads, NewThread(t) \/ ReleaseThreadCommit(t) \/ DropThread(t)
                                \/ RecycleTid(t) \/ CountRead(t)
      PROVE  UNCHANGED Abstract!vars
  BY <1>4, <1>a DEF NewThread, ReleaseThreadCommit, DropThread, RecycleTid,
       CountRead, Goto, Committing
<1>5. ASSUME NEW t \in Threads, StoreDirty(t) PROVE UNCHANGED Abstract!vars
  BY <1>5, <1>a DEF StoreDirty, AfterDirty, Notifying, Committing
<1>6. ASSUME NEW t \in Threads, BeginRead(t) \/ BeginPin(t) \/ LoadDirty(t) \/ LoadGlobalMin(t)
      PROVE  UNCHANGED Abstract!vars
  BY <1>6, <1>a DEF BeginRead, BeginPin, BeginCall, LoadDirty, LoadGlobalMin,
       Goto, Committing, shared, TypeOK, Flags
<1>7. ASSUME NEW t \in Threads, OwnScan(t) \/ LoadLimit(t) \/ FoldSlot(t) \/ CleanFlag(t) \/ Return(t)
      PROVE  UNCHANGED Abstract!vars
  BY <1>7, <1>a DEF OwnScan, LoadLimit, FoldSlot, CleanFlag, Return, Goto,
       Committing, shared
<1>8. CASE UNCHANGED vars
  BY <1>8, <1>a DEF vars, Committing
<1> QED
  BY <1>1, <1>2, <1>3, <1>4, <1>5, <1>6, <1>7, <1>8
     DEF Next, EnableGc, Step, Writer, Reader, BeginFreeBlock, Abstract!Next

(* Until a tracker is installed, everything the tree can observe of the     *)
(* clock is a behaviour of the abstract watermark.                          *)
THEOREM ClockImplementsWatermark == Spec => ImplementsWatermark
<1>1. Init => Abstract!Init
  BY DEF Init, Abstract!Init, Inflight, Committing, StartVersion
<1>2. TypeOK /\ UntrackedInv /\ UntrackedInv' /\ [Next]_vars
         => [~tracked' => Abstract!Next]_(Abstract!vars)
  <2> SUFFICES ASSUME TypeOK, UntrackedInv, UntrackedInv', [Next]_vars, ~tracked'
               PROVE  [Abstract!Next]_(Abstract!vars)
    OBVIOUS
  <2>1. ~tracked
    BY DEF Next, EnableGc, Step, vars
  <2> QED
    BY <2>1, RefineStep DEF UntrackedInv
<1> QED
  BY <1>1, <1>2, SafeInit, UntrackedStep, TypeCorrect, PTL
     DEF Spec, ImplementsWatermark
===========================================================================
