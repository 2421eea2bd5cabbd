----------------------------- MODULE SmartCell -----------------------------
(***************************************************************************)
(* The latches of the baseline B+-tree, one cell of any kind under every   *)
(* locking strategy (src/dexa/mvb_utils/smart_cell.rs, mvb_locking/        *)
(* locking_strategy.rs, mvb_tree/bplus_tree.rs).  A thread borrows the     *)
(* cell as the strategy says, reads it, and writes, appends to or retires  *)
(* it once its guard is upgraded; a use that fails is tried again, and the *)
(* strategies borrow a cell harder after a failure.                        *)
(*                                                                         *)
(* The cell holds two halves that a writer changes one after the other,    *)
(* and a tail that appends extend.  parking_lot's RwLock and Mutex are     *)
(* one lock: the threads that read and the one that writes.                *)
(***************************************************************************)
EXTENDS Naturals, Sequences, FiniteSets

CONSTANTS
    Threads,
    Setups      \* [strategy, place, uses]: what each thread does with the cell

UseKinds == {"read", "write", "append", "retire"}
Latches  == {"free", "exclusive", "readersWriter", "olc", "lightweight", "hybrid"}

(* Without latches the tree has one thread (MonoWriter).                    *)
ASSUME CellAssumption ==
    \A s \in Setups :
        /\ s.strategy.latch \in Latches
        /\ s.uses \in [Threads -> Seq(UseKinds)]
        /\ s.strategy.latch = "free" =>
              \A t, u \in Threads : s.uses[t] # <<>> /\ s.uses[u] # <<>> => t = u

VARIABLES
    cfg,        \* the setup
    ver,        \* OptCell::cell_version: counter and flags
    rw,         \* [readers, writer]: the lock beside or instead of the version
    a, b,       \* the halves
    tail,       \* what appends have added
    parent,     \* the parent: leads to the cell, is latched to unlink it, or has
    th,         \* the threads: step, attempt, guard and what it read
    done        \* what the completed writes and appends amount to

vars == <<cfg, ver, rw, a, b, tail, parent, th, done>>
data == <<a, b, tail, parent, done>>

---------------------------------------------------------------------------
(* Strategies and the latches they put on a block.                          *)

Attempts == 2
Never    == 1000

Strategy(latch, read_attempt, write_attempt) ==
    [latch |-> latch, read_attempt |-> read_attempt, write_attempt |-> write_attempt]

MonoWriter    == Strategy("free", Never, Never)
LockCoupling  == Strategy("exclusive", Never, Never)
ORWC          == Strategy("readersWriter", Never, Attempts)
OLC           == Strategy("olc", Never, Never)
LHL_read      == Strategy("lightweight", Attempts, Never)
LHL_write     == Strategy("lightweight", Never, Attempts)
LHL_readWrite == Strategy("lightweight", Attempts, Attempts)
LHL_unlimited == Strategy("lightweight", Never, Never)
HybridLock    == Strategy("hybrid", Attempts, Never)

Latch == cfg.strategy.latch

(* lock_reader_olc: how a reader borrows the cell on its n-th attempt.      *)
LockReader(n) ==
    LET s == cfg.strategy IN
    CASE Latch = "free"      -> "free"
      [] Latch = "exclusive" -> "mut"
      [] Latch = "lightweight" /\ s.read_attempt # Never /\ (n >= s.read_attempt \/ cfg.place = "leaf") -> "pin"
      [] Latch = "hybrid" /\ n >= s.read_attempt -> "hybrid"
      [] OTHER -> "read"

(* apply_for_ref: how a writer does.  An attempt that failed below the root *)
(* also lowers the level from which latches are taken.                      *)
ApplyForRef(n) ==
    LET s == cfg.strategy
        lowered == n > 0 /\ cfg.place # "root"
        locks   == cfg.place = "leaf" \/ lowered \/ n >= s.write_attempt
    IN  CASE Latch = "free"      -> "free"
          [] Latch = "exclusive" -> "mut"
          [] Latch = "readersWriter" /\ locks -> "mut"
          [] Latch = "lightweight" /\ s.write_attempt # Never /\ locks -> "pin"
          [] Latch = "hybrid" /\ lowered -> "mut"
          [] OTHER -> "read"

---------------------------------------------------------------------------
(* The version and the lock.                                                *)

Version(n, w, p, o) == [n |-> n, write |-> w, pin |-> p, obsolete |-> o]
Zero     == Version(0, FALSE, FALSE, FALSE)
Unpinned(v) == [v EXCEPT !.pin = FALSE]
ReadLock(v) == ~v.write /\ ~v.obsolete
MayPin(v)   == ~v.pin /\ ReadLock(v)
WriteFlag(v) == [v EXCEPT !.write = TRUE, !.pin = FALSE]

WriteUnlock(v) == [v EXCEPT !.n = @ + 1, !.write = FALSE]

(* is_read_valid; a hybrid cell must also not be locked by a writer.        *)
IsReadValid(v) ==
    /\ v = Unpinned(ver) /\ ReadLock(ver)
    /\ Latch = "hybrid" => rw.writer = {}

Free         == rw.writer = {} /\ rw.readers = {}
Reading(t)   == [rw EXCEPT !.readers = @ \cup {t}]
Writing(t)   == [rw EXCEPT !.writer = {t}]
Unlocked(t)  == [readers |-> rw.readers \ {t}, writer |-> rw.writer \ {t}]

Exclusive  == {"free", "mutex", "rwWriter", "olcWriter", "hybridWriter"}

(* is_valid of a guard.                                                     *)
IsValid(g) ==
    CASE g.kind = "none"      -> FALSE
      [] g.kind = "olcReader" -> IsReadValid(g.latch)
      [] g.kind = "hybridReader" -> g.latch = Unpinned(ver) /\ ReadLock(ver)
      [] OTHER -> TRUE

Guard(kind, v) == [kind |-> kind, latch |-> v]
NoGuard == Guard("none", Zero)

---------------------------------------------------------------------------
(* Borrowing.                                                               *)

(* What a thread has read of the halves; an appender, the tail.             *)
Halves(x, y) == [a |-> x, b |-> y]

Idle == [pc |-> "idle", todo |-> <<>>, attempt |-> 0, mode |-> "read", guard |-> NoGuard, seen |-> Halves(0, 0)]

Use(t)      == Head(th[t].todo)
At(t, pc)   == th[t].pc = pc
Becomes(t, me) == th' = [th EXCEPT ![t] = me]
Goto(t, pc) == Becomes(t, [th[t] EXCEPT !.pc = pc])
Holds(t, g, pc) == Becomes(t, [th[t] EXCEPT !.pc = pc, !.guard = g])

(* The next use starts, or the one that failed starts over; once the cell   *)
(* is unlinked the tree leads elsewhere.                                    *)
Start(t) ==
    LET me == th[t] IN
    /\ At(t, "idle") /\ me.todo # <<>> /\ parent # "latched"
    /\ IF parent = "unlinked" THEN Becomes(t, Idle)
       ELSE Becomes(t, [me EXCEPT !.pc = "borrow",
                !.mode = IF Use(t) = "read" THEN LockReader(me.attempt) ELSE ApplyForRef(me.attempt)])
    /\ UNCHANGED <<cfg, ver, rw, data>>

BorrowFree(t) ==
    /\ At(t, "borrow") /\ th[t].mode = "free"
    /\ Holds(t, Guard("free", Zero), "deref")
    /\ UNCHANGED <<cfg, ver, rw, data>>

BorrowRead(t) ==
    /\ At(t, "borrow") /\ th[t].mode = "read"
    /\ IF Latch = "readersWriter"
       THEN /\ rw.writer = {}
            /\ rw' = Reading(t)
            /\ Holds(t, Guard("rwReader", Zero), "deref")
       ELSE /\ Holds(t, IF ReadLock(ver) THEN Guard("olcReader", Unpinned(ver)) ELSE NoGuard, "deref")
            /\ UNCHANGED rw
    /\ UNCHANGED <<cfg, ver, data>>

BorrowReadHybrid(t) ==
    /\ At(t, "borrow") /\ th[t].mode = "hybrid"
    /\ rw.writer = {}
    /\ rw' = Reading(t)
    /\ Holds(t, Guard("hybridReader", ver), "deref")
    /\ UNCHANGED <<cfg, ver, data>>

(* The mutex and the lock block; a hybrid cell is only tried.               *)
BorrowMut(t) ==
    /\ At(t, "borrow") /\ th[t].mode = "mut"
    /\ \/ /\ Latch # "hybrid" /\ Free
          /\ rw' = Writing(t)
          /\ Holds(t, Guard(IF Latch = "exclusive" THEN "mutex" ELSE "rwWriter", Zero), "deref")
          /\ UNCHANGED ver
       \/ /\ Latch = "hybrid" /\ Free /\ ReadLock(ver)
          /\ rw' = Writing(t) /\ ver' = WriteFlag(ver)
          /\ Holds(t, Guard("hybridWriter", WriteFlag(ver)), "deref")
       \/ /\ Latch = "hybrid" /\ ~(Free /\ ReadLock(ver))
          /\ Holds(t, NoGuard, "deref")
          /\ UNCHANGED <<rw, ver>>
    /\ UNCHANGED <<cfg, data>>

(* borrow_pin: look at the version, then exchange it.  A cell somebody else *)
(* has pinned, or that has changed in between, is read without a pin.       *)
BorrowPin(t) ==
    /\ At(t, "borrow") /\ th[t].mode = "pin"
    /\ IF MayPin(ver) THEN Holds(t, Guard("none", ver), "pin")
       ELSE Holds(t, IF ver.pin THEN Guard("olcReader", Unpinned(ver)) ELSE NoGuard, "deref")
    /\ UNCHANGED <<cfg, ver, rw, data>>

PinLock(t) ==
    LET v == th[t].guard.latch IN
    /\ At(t, "pin")
    /\ IF ver = v
       THEN /\ ver' = [v EXCEPT !.pin = TRUE]
            /\ Holds(t, Guard("readerPin", ver'), "deref")
       ELSE /\ Holds(t, Guard("olcReader", v), "deref")
            /\ UNCHANGED ver
    /\ UNCHANGED <<cfg, rw, data>>

---------------------------------------------------------------------------
(* Giving up and letting go.                                                *)

(* Drop: what releasing the guard makes of the version.  A write latch on a *)
(* retired lightweight cell is not released, one on an optimistic cell is,  *)
(* which takes the mark away again.                                         *)
Dropped(g) ==
    CASE g.kind = "olcWriter" -> IF Latch = "lightweight" /\ g.latch = Zero THEN ver ELSE WriteUnlock(g.latch)
      [] g.kind = "hybridWriter" -> WriteUnlock(g.latch)
      [] g.kind \in {"readerPin", "appendPin"} -> Unpinned(g.latch)
      [] OTHER -> ver

(* Mutant: failed attempts are not counted.                                 *)
Again_Uncounted(n) == n

(* Attempts are counted as far as a strategy tells them apart.              *)
Again(n) == IF n < Attempts THEN n + 1 ELSE n

Fail(t) ==
    /\ Becomes(t, [th[t] EXCEPT !.pc = "idle", !.attempt = Again(@), !.guard = NoGuard])
    /\ ver' = Dropped(th[t].guard)
    /\ rw' = Unlocked(t)
    /\ parent' = IF Use(t) = "retire" /\ th[t].pc \in {"upgrade", "tryWrite"} THEN "linked" ELSE parent
    /\ UNCHANGED <<cfg, a, b, tail, done>>

Drop(t) ==
    /\ At(t, "drop")
    /\ Becomes(t, [Idle EXCEPT !.todo = Tail(th[t].todo)])
    /\ ver' = Dropped(th[t].guard)
    /\ rw' = Unlocked(t)
    /\ UNCHANGED <<cfg, data>>

(* downgrade: an appender goes on as a reader of the cell it appended to;   *)
(* on any but an optimistic or a readers-writer cell it keeps what it has.  *)
Downgrade(t) ==
    LET g == th[t].guard IN
    /\ At(t, "downgrade")
    /\ \/ /\ g.kind = "appendPin" /\ Latch = "olc"
          /\ ver' = Unpinned(g.latch)
          /\ Holds(t, Guard("olcReader", Unpinned(g.latch)), "readA")
          /\ UNCHANGED rw
       \/ /\ g.kind = "rwWriter"
          /\ rw' = [readers |-> {t}, writer |-> {}]
          /\ Holds(t, Guard("rwReader", Zero), "readA")
          /\ UNCHANGED ver
       \/ /\ ~(g.kind = "appendPin" /\ Latch = "olc") /\ g.kind # "rwWriter"
          /\ Goto(t, "readA")
          /\ UNCHANGED <<ver, rw>>
    /\ UNCHANGED <<cfg, data>>

---------------------------------------------------------------------------
(* Reading through the guard.                                               *)

(* deref, and the look at the parent the cell was reached from.  A hybrid   *)
(* reader is let through whatever its version says.                         *)
Derefs(g) == g.kind = "hybridReader" \/ IsValid(g)

Deref(t) ==
    /\ At(t, "deref")
    /\ IF Derefs(th[t].guard) /\ parent = "linked"
       THEN Goto(t, "readA") /\ UNCHANGED <<cfg, ver, rw, data>>
       ELSE Fail(t)

ReadA(t) ==
    /\ At(t, "readA")
    /\ Becomes(t, [th[t] EXCEPT !.pc = "readB", !.seen = Halves(a, 0)])
    /\ UNCHANGED <<cfg, ver, rw, data>>

ReadB(t) ==
    /\ At(t, "readB")
    /\ Becomes(t, [th[t] EXCEPT !.seen = Halves(@.a, b), !.pc =
            CASE Use(t) = "read" -> "validate"
              [] Use(t) = "retire" -> "latchParent"
              [] OTHER -> "upgrade"])
    /\ UNCHANGED <<cfg, ver, rw, data>>

(* Mutant: a guard is not looked at again after the read.                   *)
Validate_Not(t) ==
    /\ At(t, "validate")
    /\ Goto(t, "accepted")
    /\ UNCHANGED <<cfg, ver, rw, data>>

Validate(t) ==
    /\ At(t, "validate")
    /\ IF IsValid(th[t].guard) THEN Goto(t, "accepted") /\ UNCHANGED <<cfg, ver, rw, data>>
       ELSE Fail(t)

Accept(t) == At(t, "accepted") /\ Goto(t, "drop") /\ UNCHANGED <<cfg, ver, rw, data>>

---------------------------------------------------------------------------
(* Upgrading the guard.                                                     *)

(* The parent is latched first by whoever unlinks the cell.                 *)
LatchParent(t) ==
    /\ At(t, "latchParent")
    /\ IF parent = "linked" THEN parent' = "latched" /\ Goto(t, "upgrade") /\ UNCHANGED <<cfg, ver, rw, a, b, tail, done>>
       ELSE Fail(t)

(* write_lock: the exchange succeeds only on the version that was read.     *)
UpgradeOptimistic(t) ==
    IF ver = th[t].guard.latch
    THEN /\ ver' = WriteFlag(ver)
         /\ Holds(t, Guard("olcWriter", ver'), "locked")
         /\ UNCHANGED <<cfg, rw, data>>
    ELSE Fail(t)

(* A hybrid cell is locked and its version loaded anew.                     *)
UpgradeHybrid(t) ==
    IF Free /\ ReadLock(ver)
    THEN /\ rw' = Writing(t)
         /\ ver' = WriteFlag(ver)
         /\ Holds(t, Guard("hybridWriter", ver'), "locked")
         /\ UNCHANGED <<cfg, data>>
    ELSE Fail(t)

(* pin_write_lock: the pin becomes the latch.                               *)
UpgradePin(t) ==
    /\ ver' = WriteFlag(th[t].guard.latch)
    /\ Holds(t, Guard("olcWriter", ver'), "locked")
    /\ UNCHANGED <<cfg, rw, data>>

(* The read lock is given back before the write lock is tried.              *)
UnlockRead(t) ==
    /\ rw' = Unlocked(t)
    /\ Holds(t, NoGuard, "tryWrite")
    /\ UNCHANGED <<cfg, ver, data>>

UpgradeWriteLock(t) ==
    LET kind == th[t].guard.kind IN
    CASE kind \in Exclusive -> Goto(t, "locked") /\ UNCHANGED <<cfg, ver, rw, data>>
      [] kind = "rwReader"  -> UnlockRead(t)
      [] kind = "readerPin" -> UpgradePin(t)
      [] kind = "olcReader" /\ Latch = "hybrid" -> UpgradeHybrid(t)
      [] kind = "olcReader" /\ Latch # "hybrid" -> UpgradeOptimistic(t)

TryWrite(t) ==
    /\ At(t, "tryWrite")
    /\ IF Free
       THEN /\ rw' = Writing(t)
            /\ Holds(t, Guard("rwWriter", Zero), "locked")
            /\ UNCHANGED <<cfg, ver, data>>
       ELSE Fail(t)

(* upgrade_append_lock pins the cell as it is now, whatever was read.       *)
UpgradeAppendLock(t) ==
    LET g == th[t].guard IN
    CASE g.kind = "olcReader" /\ Latch # "hybrid" ->
            IF MayPin(ver) THEN Holds(t, Guard("none", ver), "pinAppend") /\ UNCHANGED <<cfg, ver, rw, data>>
            ELSE Fail(t)
      [] g.kind = "readerPin" -> Holds(t, Guard("appendPin", g.latch), "locked") /\ UNCHANGED <<cfg, ver, rw, data>>
      [] OTHER -> UpgradeWriteLock(t)

(* Mutant: the pin is set without comparing.                                *)
PinAppend_Stored(t) ==
    /\ At(t, "pinAppend")
    /\ ver' = [th[t].guard.latch EXCEPT !.pin = TRUE]
    /\ Holds(t, Guard("appendPin", ver'), "locked")
    /\ UNCHANGED <<cfg, rw, data>>

PinAppend(t) ==
    LET v == th[t].guard.latch IN
    /\ At(t, "pinAppend")
    /\ IF ver = v
       THEN /\ ver' = [v EXCEPT !.pin = TRUE]
            /\ Holds(t, Guard("appendPin", ver'), "locked")
            /\ UNCHANGED <<cfg, rw, data>>
       ELSE Fail(t)

Upgrade(t) ==
    /\ At(t, "upgrade")
    /\ IF Use(t) = "append" THEN UpgradeAppendLock(t) ELSE UpgradeWriteLock(t)

---------------------------------------------------------------------------
(* What the guard is for.                                                   *)

Appends(t) == Use(t) = "append"

Look(t) ==
    /\ At(t, "locked") /\ Use(t) # "retire"
    /\ Becomes(t, [th[t] EXCEPT !.pc = "first", !.seen = IF Appends(t) THEN Halves(tail, 0) ELSE Halves(a, b)])
    /\ UNCHANGED <<cfg, ver, rw, data>>

(* mark_obsolete, before anything of the cell is changed; a guard without a *)
(* version is left as it is.                                                *)
MarkObsolete(t) ==
    LET g == th[t].guard
        mark == Version(0, FALSE, FALSE, TRUE)
    IN  /\ At(t, "locked") /\ Use(t) = "retire"
        /\ \/ /\ g.kind = "olcWriter" /\ Latch = "olc"
              /\ ver' = mark /\ Becomes(t, [th[t] EXCEPT !.pc = "first", !.seen = Halves(a, b)])
           \/ /\ g.kind = "olcWriter" /\ Latch = "lightweight"
              /\ ver' = mark /\ Becomes(t, [th[t] EXCEPT !.pc = "first", !.seen = Halves(a, b), !.guard = Guard(g.kind, Zero)])
           \/ /\ g.kind = "hybridWriter"
              /\ ver' = [g.latch EXCEPT !.obsolete = TRUE]
              /\ Becomes(t, [th[t] EXCEPT !.pc = "first", !.seen = Halves(a, b), !.guard = Guard(g.kind, ver')])
           \/ /\ g.kind \in {"free", "mutex", "rwWriter"}
              /\ Becomes(t, [th[t] EXCEPT !.pc = "first", !.seen = Halves(a, b)])
              /\ UNCHANGED ver
        /\ UNCHANGED <<cfg, rw, data>>

First(t) ==
    /\ At(t, "first")
    /\ IF Appends(t) THEN tail' = th[t].seen.a + 1 /\ UNCHANGED a
       ELSE a' = th[t].seen.a + 1 /\ UNCHANGED tail
    /\ Goto(t, "second")
    /\ UNCHANGED <<cfg, ver, rw, b, parent, done>>

(* A complete append lets go, or goes on as a read of what is there.        *)
Second(t) ==
    /\ At(t, "second")
    /\ IF Appends(t)
       THEN /\ done' = [done EXCEPT !.appends = @ + 1]
            /\ \/ Goto(t, "drop")
               \/ Becomes(t, [th[t] EXCEPT !.pc = "downgrade", !.todo = <<"read">> \o Tail(@)])
            /\ UNCHANGED <<b, parent>>
       ELSE /\ b' = th[t].seen.b + 1
            /\ done' = [done EXCEPT !.writes = @ + 1]
            /\ parent' = IF Use(t) = "retire" THEN "unlinked" ELSE parent
            /\ Goto(t, "drop")
    /\ UNCHANGED <<cfg, ver, rw, a, tail>>

---------------------------------------------------------------------------
Init ==
    /\ cfg \in Setups
    /\ ver = Zero
    /\ rw = [readers |-> {}, writer |-> {}]
    /\ a = 0 /\ b = 0 /\ tail = 0
    /\ parent = "linked"
    /\ th = [t \in Threads |-> [Idle EXCEPT !.todo = cfg.uses[t]]]
    /\ done = [writes |-> 0, appends |-> 0]

Step(t) ==
    \/ Start(t) \/ BorrowFree(t) \/ BorrowRead(t) \/ BorrowReadHybrid(t) \/ BorrowMut(t)
    \/ BorrowPin(t) \/ PinLock(t) \/ Drop(t) \/ Downgrade(t)
    \/ Deref(t) \/ ReadA(t) \/ ReadB(t) \/ Validate(t) \/ Accept(t)
    \/ LatchParent(t) \/ Upgrade(t) \/ TryWrite(t) \/ PinAppend(t)
    \/ Look(t) \/ MarkObsolete(t) \/ First(t) \/ Second(t)

Finished == (\A t \in Threads : At(t, "idle") /\ th[t].todo = <<>>) /\ UNCHANGED vars

Next == (\E t \in Threads : Step(t)) \/ Finished

(* Every thread runs on.                                                    *)
Spec == Init /\ [][Next]_vars /\ \A t \in Threads : WF_vars(Step(t))

---------------------------------------------------------------------------
(* Properties.                                                              *)

(* A read that is accepted, through a validated version, a pin or a lock,   *)
(* saw both halves as one write left them, however the strategies mix       *)
(* latched and unlatched access (SmartGuard::is_valid, deref).              *)
AcceptedReads == \A t \in Threads : At(t, "accepted") => th[t].seen.a = th[t].seen.b

(* Writers and appenders exclude each other: no write and no append is      *)
(* lost, and the halves agree whenever nobody writes (write_lock, pin_lock, *)
(* pin_write_lock, write_unlock).                                           *)
NoLostUpdate ==
    (\A t \in Threads : th[t].pc \notin {"first", "second"})
        => a = done.writes /\ b = done.writes /\ tail = done.appends

(* Every use ends: nobody waits for ever for a lock, a pin or a version, and *)
(* no two upgrades keep failing each other.                                 *)
UsesEnd == \A t \in Threads : <>(At(t, "idle") /\ th[t].todo = <<>>)
=============================================================================
