-------------------------- MODULE SmartCellProofs ---------------------------
(***************************************************************************)
(* Proofs that one cell is safe under every locking strategy, for any       *)
(* number of threads and uses: writers and appenders exclude each other,    *)
(* and a read that is accepted is not torn.                                 *)
(***************************************************************************)
EXTENDS SmartCell, TLAPS

PCs == {"idle", "borrow", "pin", "deref", "readA", "readB", "validate", "accepted",
        "latchParent", "upgrade", "tryWrite", "pinAppend", "locked", "first", "second",
        "downgrade", "drop"}
Modes == {"free", "mut", "pin", "hybrid", "read"}
Kinds == {"none", "free", "mutex", "rwReader", "rwWriter", "olcReader", "olcWriter",
          "readerPin", "appendPin", "hybridReader", "hybridWriter"}
Versions == [n : Nat, write : BOOLEAN, pin : BOOLEAN, obsolete : BOOLEAN]
Guards   == [kind : Kinds, latch : Versions]
ThreadStates == [pc : PCs, todo : Seq(UseKinds), attempt : Nat, mode : Modes,
                 guard : Guards, seen : [a : Nat, b : Nat]]

TypeInv ==
    /\ cfg \in Setups
    /\ ver \in Versions
    /\ rw \in [readers : SUBSET Threads, writer : SUBSET Threads]
    /\ a \in Nat /\ b \in Nat /\ tail \in Nat
    /\ parent \in {"linked", "latched", "unlinked"}
    /\ th \in [Threads -> ThreadStates]
    /\ done \in [writes : Nat, appends : Nat]

Kind(t)    == th[t].guard.kind
Held(t)    == th[t].guard.latch
InSection(t) == th[t].pc \in {"locked", "first", "second"}

(* What a thread has left to do, and how it borrows for it.                 *)
UseAt(t) ==
    /\ th[t].todo # <<>> => cfg.uses[t] # <<>>
    /\ th[t].pc # "idle" => th[t].todo # <<>>
    /\ th[t].pc = "borrow" =>
          /\ th[t].mode = "free" => Latch = "free"
          /\ th[t].mode = "mut" => Latch \in {"exclusive", "readersWriter", "hybrid"}
          /\ th[t].mode = "pin" => Latch = "lightweight"
          /\ th[t].mode = "hybrid" => Latch = "hybrid" /\ Use(t) = "read"
          /\ th[t].mode = "read" => Latch \in {"readersWriter", "olc", "lightweight", "hybrid"}

(* The kinds of guard that go with a latch.                                 *)
LatchAt(t) ==
    /\ Kind(t) = "free" => Latch = "free"
    /\ Kind(t) = "mutex" => Latch = "exclusive"
    /\ Kind(t) \in {"rwReader", "rwWriter"} => Latch = "readersWriter"
    /\ Kind(t) = "olcReader" => Latch \in {"olc", "lightweight", "hybrid"}
    /\ Kind(t) \in {"olcWriter", "appendPin"} => Latch \in {"olc", "lightweight"}
    /\ Kind(t) = "readerPin" => Latch = "lightweight"
    /\ Kind(t) \in {"hybridReader", "hybridWriter"} => Latch = "hybrid"

(* The kinds of guard a thread may have where it is.                        *)
GuardAt(t) ==
    /\ th[t].pc \in {"idle", "borrow", "pin", "pinAppend", "tryWrite"} => Kind(t) = "none"
    /\ th[t].pc = "pin" => Latch = "lightweight"
    /\ th[t].pc = "pinAppend" => Latch \in {"olc", "lightweight"} /\ Use(t) = "append"
    /\ th[t].pc = "tryWrite" => Latch = "readersWriter"
    /\ th[t].pc \in {"deref", "readA", "readB", "validate", "latchParent", "upgrade"} => Kind(t) # "olcWriter"
    /\ th[t].pc \in {"readA", "readB", "validate", "accepted", "latchParent", "upgrade"} => Kind(t) # "none"
    /\ th[t].pc \in {"deref", "readA", "readB"} /\ Kind(t) \in {"hybridReader", "appendPin"} => Use(t) = "read"
    /\ th[t].pc \in {"latchParent", "upgrade"} => Kind(t) \notin {"hybridReader", "appendPin"}
    /\ InSection(t) => /\ Kind(t) \in Exclusive \cup {"appendPin"}
                       /\ Kind(t) = "appendPin" => Appends(t)
                       /\ Kind(t) = "olcWriter" => ~Appends(t)
    /\ th[t].pc = "downgrade" => Kind(t) \in (Exclusive \cup {"appendPin"}) \ {"olcWriter"} /\ Use(t) = "read"

ThreadInv == \A t \in Threads : UseAt(t) /\ LatchAt(t) /\ GuardAt(t)

Writers == {"mutex", "rwWriter", "hybridWriter"}
Readers == {"rwReader", "hybridReader"}

(* The lock has one writer or readers, and their guards tell.               *)
LockInv ==
    /\ rw.readers = {} \/ rw.writer = {}
    /\ \A t, u \in rw.writer : t = u
    /\ \A t \in Threads :
          /\ t \in rw.writer <=> Kind(t) \in Writers
          /\ t \in rw.readers <=> Kind(t) \in Readers

Holding == {"olcWriter", "hybridWriter", "readerPin", "appendPin"}
Marked  == ver = Version(0, FALSE, FALSE, TRUE)

(* What the version says of the thread that holds it.  An optimistic cell   *)
(* that is being retired shows the mark while the writer keeps its latch.   *)
HolderAt(t) ==
    /\ Kind(t) \in {"readerPin", "appendPin"} => ver = Held(t) /\ ver.pin
    /\ Kind(t) = "hybridWriter" => ver = Held(t) /\ ver.write /\ ~ver.pin
    /\ Kind(t) = "olcWriter" =>
          \/ ver = Held(t) /\ ver.write /\ ~ver.pin /\ ~ver.obsolete
          \/ /\ Latch = "olc" /\ Marked
             /\ Held(t).write /\ ~Held(t).pin /\ ~Held(t).obsolete
          \/ Latch = "lightweight" /\ Marked /\ Held(t) = Zero

(* At most one thread holds it.                                             *)
VersionInv ==
    /\ ver.pin => ReadLock(ver)
    /\ \A t, u \in Threads : Kind(t) \in Holding /\ Kind(u) \in Holding => t = u
    /\ \A t \in Threads : HolderAt(t)

(* A thread that remembers a version to compare with.                       *)
Remembers(t) == Kind(t) = "olcReader" \/ th[t].pc \in {"pin", "pinAppend"}

(* What it remembers was free, and counters only grow: an optimistic cell   *)
(* takes its mark away again, but counts on from where the writer began.    *)
CounterAt(t) ==
    Remembers(t) =>
        /\ ReadLock(Held(t)) /\ ~Held(t).pin
        /\ ver.obsolete \/ Held(t).n <= ver.n
        /\ \A u \in Threads : Kind(u) = "olcWriter" /\ Latch = "olc" => Held(t).n <= Held(u).n

CounterInv == \A t \in Threads : CounterAt(t)

(* A write is half done.                                                    *)
Torn(t)     == th[t].pc = "second" /\ ~Appends(t)
Extended(t) == th[t].pc = "second" /\ Appends(t)

(* What a writer looked at is still there; half way, one half is ahead.     *)
FirstAt(t) ==
    /\ th[t].pc = "first" /\ ~Appends(t) => th[t].seen.a = a /\ th[t].seen.b = b
    /\ th[t].pc = "first" /\ Appends(t) => th[t].seen.a = tail

SecondAt(t) ==
    /\ Torn(t) => a = done.writes + 1 /\ b = done.writes /\ th[t].seen.b = b
    /\ Extended(t) => tail = done.appends + 1

(* The halves and the tail against what the completed uses amount to.       *)
DataInv ==
    /\ (\A t \in Threads : ~Torn(t)) => a = done.writes /\ b = done.writes
    /\ (\A t \in Threads : ~Extended(t)) => tail = done.appends
    /\ \A t \in Threads : FirstAt(t) /\ SecondAt(t)

(* A guard under which the halves are as they were read.                    *)
Sound(t) ==
    \/ Kind(t) # "olcReader"
    \/ Held(t) = Unpinned(ver) /\ ReadLock(ver)

ReadAt(t) ==
    /\ th[t].pc = "readB" /\ Sound(t) => th[t].seen.a = a
    /\ th[t].pc = "validate" /\ Sound(t) => th[t].seen.a = a /\ th[t].seen.b = b
    /\ th[t].pc = "accepted" => th[t].seen.a = th[t].seen.b

ReadInv == \A t \in Threads : ReadAt(t)

IInv ==
    /\ TypeInv /\ ThreadInv /\ LockInv /\ VersionInv /\ CounterInv
    /\ DataInv /\ ReadInv

---------------------------------------------------------------------------
(* What the building blocks of the actions do.                              *)

(* The other threads stay as they are.                                      *)
OthersStay(t) == \A u \in Threads \ {t} : th'[u] = th[u]

(* Thread t goes on to p, with guard g and having seen s.                   *)
Turns(t, p, g, s) ==
    /\ th' \in [Threads -> ThreadStates]
    /\ th'[t].pc = p /\ th'[t].todo = th[t].todo /\ th'[t].guard = g /\ th'[t].seen = s
    /\ OthersStay(t)

(* The new state of a thread is its own affair.                             *)
LEMMA BecomesEffect ==
    ASSUME TypeInv, NEW t \in Threads, NEW me \in ThreadStates, Becomes(t, me)
    PROVE  th' \in [Threads -> ThreadStates] /\ th'[t] = me /\ OthersStay(t)
BY DEF TypeInv, Becomes, OthersStay

LEMMA GotoEffect ==
    ASSUME TypeInv, NEW t \in Threads, NEW p \in PCs, Goto(t, p)
    PROVE  Turns(t, p, th[t].guard, th[t].seen)
<1> DEFINE me == [th[t] EXCEPT !.pc = p]
<1> th[t] \in ThreadStates
    BY DEF TypeInv
<1>1. me \in ThreadStates
    BY DEF ThreadStates
<1>2. me.pc = p /\ me.todo = th[t].todo /\ me.guard = th[t].guard /\ me.seen = th[t].seen
    BY DEF ThreadStates
<1>3. th' \in [Threads -> ThreadStates] /\ th'[t] = me /\ OthersStay(t)
    BY <1>1, BecomesEffect DEF Goto
<1> QED BY <1>2, <1>3 DEF Turns

LEMMA HoldsEffect ==
    ASSUME TypeInv, NEW t \in Threads, NEW p \in PCs, NEW g \in Guards, Holds(t, g, p)
    PROVE  Turns(t, p, g, th[t].seen)
<1> DEFINE me == [th[t] EXCEPT !.pc = p, !.guard = g]
<1> th[t] \in ThreadStates
    BY DEF TypeInv
<1>1. me \in ThreadStates
    BY DEF ThreadStates
<1>2. me.pc = p /\ me.todo = th[t].todo /\ me.guard = g /\ me.seen = th[t].seen
    BY DEF ThreadStates
<1>3. th' \in [Threads -> ThreadStates] /\ th'[t] = me /\ OthersStay(t)
    BY <1>1, BecomesEffect DEF Holds
<1> QED BY <1>2, <1>3 DEF Turns

(* A failed use lets go of the lock and of the version.                     *)
LEMMA FailEffect ==
    ASSUME TypeInv, NEW t \in Threads, Fail(t)
    PROVE  /\ Turns(t, "idle", NoGuard, th[t].seen)
           /\ ver' = Dropped(th[t].guard) /\ rw' = Unlocked(t)
           /\ parent' \in {"linked", "latched", "unlinked"}
           /\ UNCHANGED <<cfg, a, b, tail, done>>
<1> DEFINE me == [th[t] EXCEPT !.pc = "idle", !.attempt = Again(@), !.guard = NoGuard]
<1>0. th[t] \in ThreadStates
    BY DEF TypeInv
<1>1. Again(th[t].attempt) \in Nat /\ NoGuard \in Guards
    BY <1>0 DEF Again, Attempts, NoGuard, Guard, Guards, Kinds, Zero, Version, Versions, ThreadStates
<1>2. me \in ThreadStates
    BY <1>0, <1>1 DEF ThreadStates, PCs
<1>3. me.pc = "idle" /\ me.todo = th[t].todo /\ me.guard = NoGuard /\ me.seen = th[t].seen
    BY <1>0 DEF ThreadStates
<1>4. th' \in [Threads -> ThreadStates] /\ th'[t] = me /\ OthersStay(t)
    BY <1>2, BecomesEffect DEF Fail
<1> QED BY <1>3, <1>4 DEF Turns, Fail, TypeInv

(* Versions and their flags.                                                *)
LEMMA VersionFacts ==
    ASSUME NEW v \in Versions
    PROVE  /\ Unpinned(v) \in Versions /\ WriteFlag(v) \in Versions /\ WriteUnlock(v) \in Versions
           /\ [v EXCEPT !.pin = TRUE] \in Versions /\ [v EXCEPT !.obsolete = TRUE] \in Versions
           /\ Unpinned(v).n = v.n /\ Unpinned(v).write = v.write /\ ~Unpinned(v).pin
           /\ Unpinned(v).obsolete = v.obsolete
           /\ WriteFlag(v).n = v.n /\ WriteFlag(v).write /\ ~WriteFlag(v).pin
           /\ WriteFlag(v).obsolete = v.obsolete
           /\ WriteUnlock(v).n = v.n + 1 /\ ~WriteUnlock(v).write /\ WriteUnlock(v).pin = v.pin
           /\ WriteUnlock(v).obsolete = v.obsolete
<1>1. Unpinned(v) \in Versions
    BY DEF Unpinned, Versions
<1>5. WriteFlag(v) \in Versions
    BY DEF WriteFlag, Versions
<1>6. WriteUnlock(v) \in Versions
    <2>1. \A k \in Nat : [v EXCEPT !.n = k, !.write = FALSE] \in Versions
        BY DEF Versions
    <2>2. v.n + 1 \in Nat
        BY DEF Versions
    <2> QED BY <2>1, <2>2 DEF WriteUnlock
<1>7. [v EXCEPT !.pin = TRUE] \in Versions
    BY DEF Versions
<1>8. [v EXCEPT !.obsolete = TRUE] \in Versions
    BY DEF Versions
<1>2. /\ Unpinned(v).n = v.n /\ Unpinned(v).write = v.write /\ ~Unpinned(v).pin
      /\ Unpinned(v).obsolete = v.obsolete
    BY DEF Unpinned, Versions
<1>3. /\ WriteFlag(v).n = v.n /\ WriteFlag(v).write /\ ~WriteFlag(v).pin
      /\ WriteFlag(v).obsolete = v.obsolete
    BY DEF WriteFlag, Versions
<1>4. /\ WriteUnlock(v).n = v.n + 1 /\ ~WriteUnlock(v).write /\ WriteUnlock(v).pin = v.pin
      /\ WriteUnlock(v).obsolete = v.obsolete
    BY DEF WriteUnlock, Versions
<1> QED BY <1>1, <1>2, <1>3, <1>4, <1>5, <1>6, <1>7, <1>8

LEMMA DroppedType == ASSUME TypeInv, NEW g \in Guards PROVE Dropped(g) \in Versions
<1> g.latch \in Versions
    BY DEF Guards
<1> QED BY VersionFacts DEF Dropped, TypeInv
---------------------------------------------------------------------------
(* Who excludes whom.                                                       *)

(* Two threads that write, append or retire are never in the cell at once.  *)
LEMMA Exclusion ==
    ASSUME IInv, NEW t \in Threads, NEW u \in Threads, InSection(t), InSection(u)
    PROVE  t = u
<1>1. /\ UseAt(t) /\ LatchAt(t) /\ GuardAt(t)
      /\ UseAt(u) /\ LatchAt(u) /\ GuardAt(u)
    BY DEF IInv, ThreadInv
<1>2. Kind(t) \in Exclusive \cup {"appendPin"} /\ Kind(u) \in Exclusive \cup {"appendPin"}
    BY <1>1 DEF GuardAt
<1>3. CASE Kind(t) = "free"
    <2>1. Latch = "free" /\ Kind(u) = "free"
        BY <1>1, <1>2, <1>3 DEF LatchAt, Exclusive
    <2>2. cfg.uses[t] # <<>> /\ cfg.uses[u] # <<>>
        BY <1>1 DEF UseAt, InSection
    <2> QED BY <2>1, <2>2, CellAssumption DEF Latch, IInv, TypeInv
<1>4. CASE Kind(t) \in Writers
    <2>1. Kind(u) \in Writers
        BY <1>1, <1>2, <1>4 DEF LatchAt, Exclusive, Writers
    <2>2. t \in rw.writer /\ u \in rw.writer
        BY <1>4, <2>1 DEF IInv, LockInv
    <2> QED BY <2>2 DEF IInv, LockInv
<1>5. CASE Kind(t) \in {"olcWriter", "appendPin"}
    <2>1. Kind(u) \in {"olcWriter", "appendPin"}
        BY <1>1, <1>2, <1>5 DEF LatchAt, Exclusive
    <2> QED BY <1>5, <2>1 DEF IInv, VersionInv, Holding
<1> QED BY <1>2, <1>3, <1>4, <1>5 DEF Exclusive, Writers

(* Nobody else can take the cell as unchanged while it is written.          *)
LEMMA NoReaderBeside ==
    ASSUME IInv, NEW t \in Threads, NEW u \in Threads, t # u, InSection(t), ~Appends(t),
           th[u].pc \in {"readB", "validate"}, Sound(u)
    PROVE  FALSE
<1>1. /\ UseAt(t) /\ LatchAt(t) /\ GuardAt(t)
      /\ UseAt(u) /\ LatchAt(u) /\ GuardAt(u)
    BY DEF IInv, ThreadInv
<1>2. Kind(t) \in Exclusive /\ Kind(u) \notin {"none", "olcWriter"}
    BY <1>1 DEF GuardAt
<1>0. Kind(u) \in Kinds
    BY DEF IInv, TypeInv, ThreadStates, Guards, Kind
<1>3. CASE Kind(t) = "free"
    <2>1. Latch = "free"
        BY <1>1, <1>3 DEF LatchAt
    <2>2. cfg.uses[t] # <<>> /\ cfg.uses[u] # <<>>
        BY <1>1 DEF UseAt, InSection
    <2> QED BY <2>1, <2>2, CellAssumption DEF Latch, IInv, TypeInv
<1>4. CASE Kind(t) \in Writers
    <2>1. t \in rw.writer /\ rw.readers = {}
        BY <1>4 DEF IInv, LockInv
    <2>2. Kind(u) \notin Readers /\ Kind(u) \notin Writers
        BY <2>1 DEF IInv, LockInv
    <2>3. Kind(t) = "hybridWriter" /\ Kind(u) = "olcReader"
        BY <1>0, <1>1, <1>2, <1>4, <2>2 DEF LatchAt, Readers, Writers, Kinds
    <2>4. HolderAt(t)
        BY DEF IInv, VersionInv
    <2> QED BY <2>3, <2>4 DEF HolderAt, Sound, ReadLock
<1>5. CASE Kind(t) = "olcWriter"
    <2>1. Kind(u) \notin Holding
        BY <1>5 DEF IInv, VersionInv, Holding
    <2>2. Kind(u) = "olcReader"
        BY <1>0, <1>1, <1>2, <1>5, <2>1 DEF LatchAt, Holding, Kinds
    <2>3. HolderAt(t)
        BY DEF IInv, VersionInv
    <2> QED BY <1>5, <2>2, <2>3 DEF HolderAt, Sound, ReadLock, Marked, Version
<1> QED BY <1>2, <1>3, <1>4, <1>5 DEF Exclusive, Writers

(* A version that is free and unpinned is held by nobody.                   *)
LEMMA FreeVersion ==
    ASSUME IInv, ReadLock(ver), ~ver.pin \/ Latch = "hybrid", NEW u \in Threads
    PROVE  Kind(u) \notin Holding
<1>1. HolderAt(u) /\ LatchAt(u)
    BY DEF IInv, VersionInv, ThreadInv
<1> QED BY <1>1 DEF HolderAt, LatchAt, ReadLock, Marked, Version, Holding

---------------------------------------------------------------------------
(* What one thread's step leaves of each part of the invariant.             *)

LEMMA ThreadStays ==
    ASSUME IInv, NEW t \in Threads, OthersStay(t), cfg' = cfg, UseAt(t)', LatchAt(t)', GuardAt(t)'
    PROVE  ThreadInv'
<1> SUFFICES ASSUME NEW u \in Threads, u # t
             PROVE  UseAt(u)' /\ LatchAt(u)' /\ GuardAt(u)'
    BY DEF ThreadInv
<1>1. th'[u] = th[u] /\ UseAt(u) /\ LatchAt(u) /\ GuardAt(u)
    BY DEF OthersStay, IInv, ThreadInv
<1>2. UseAt(u)'
    BY <1>1 DEF UseAt, Use, Latch
<1>3. LatchAt(u)'
    BY <1>1 DEF LatchAt, Kind, Latch
<1>4. GuardAt(u)'
    BY <1>1 DEF GuardAt, Kind, Latch, Use, InSection, Appends
<1> QED BY <1>2, <1>3, <1>4

LEMMA LockStays ==
    ASSUME IInv, NEW t \in Threads, OthersStay(t), rw' = rw,
           Kind(t)' = Kind(t) \/ (Kind(t) \notin Readers \cup Writers /\ Kind(t)' \notin Readers \cup Writers)
    PROVE  LockInv'
BY DEF IInv, LockInv, OthersStay, Kind

LEMMA LockRead ==
    ASSUME IInv, NEW t \in Threads, OthersStay(t), rw.writer = {}, rw' = Reading(t), Kind(t)' \in Readers
    PROVE  LockInv'
<1>1. rw'.writer = {} /\ rw'.readers = rw.readers \cup {t}
    BY DEF Reading, IInv, TypeInv
<1> QED BY <1>1 DEF IInv, LockInv, OthersStay, Kind, Readers, Writers

LEMMA LockWrite ==
    ASSUME IInv, NEW t \in Threads, OthersStay(t), Free, rw' = Writing(t), Kind(t)' \in Writers
    PROVE  LockInv'
<1>1. rw'.writer = {t} /\ rw'.readers = {}
    BY DEF Writing, Free, IInv, TypeInv
<1> QED BY <1>1 DEF IInv, LockInv, OthersStay, Kind, Readers, Writers, Free

LEMMA LockReleased ==
    ASSUME IInv, NEW t \in Threads, OthersStay(t), rw' = Unlocked(t), Kind(t)' \notin Readers \cup Writers
    PROVE  LockInv'
<1>1. rw'.writer = rw.writer \ {t} /\ rw'.readers = rw.readers \ {t}
    BY DEF Unlocked
<1> QED BY <1>1 DEF IInv, LockInv, OthersStay, Kind

LEMMA VersionStays ==
    ASSUME IInv, NEW t \in Threads, OthersStay(t), cfg' = cfg, ver' = ver,
           th'[t].guard = th[t].guard \/ (Kind(t) \notin Holding /\ Kind(t)' \notin Holding)
    PROVE  VersionInv'
<1>1. \A u \in Threads : Kind(u)' \in Holding => Kind(u) \in Holding /\ th'[u].guard = th[u].guard
    BY DEF OthersStay, Kind
<1>2. \A u \in Threads : HolderAt(u)
    BY DEF IInv, VersionInv
<1>3. \A u \in Threads : HolderAt(u)'
    BY <1>1, <1>2 DEF HolderAt, Kind, Held, Latch, Marked, Holding
<1> QED BY <1>1, <1>3 DEF VersionInv, IInv, ReadLock

LEMMA VersionMoves ==
    ASSUME IInv, NEW t \in Threads, OthersStay(t),
           \A u \in Threads \ {t} : Kind(u) \notin Holding,
           HolderAt(t)', ver'.pin => ReadLock(ver')
    PROVE  VersionInv'
<1>1. \A u \in Threads \ {t} : Kind(u)' \notin Holding
    BY DEF OthersStay, Kind
<1>2. \A u \in Threads : HolderAt(u)'
    BY <1>1 DEF HolderAt, Holding
<1> QED BY <1>1, <1>2 DEF VersionInv, ReadLock

LEMMA CounterMoves ==
    ASSUME IInv, NEW t \in Threads, OthersStay(t), cfg' = cfg, CounterAt(t)',
           \A u \in Threads \ {t} : Remembers(u) => ver'.obsolete \/ Held(u).n <= ver'.n,
           Kind(t)' = "olcWriter" /\ Latch = "olc" =>
              \A u \in Threads \ {t} : Remembers(u) => Held(u).n <= Held(t)'.n
    PROVE  CounterInv'
<1> SUFFICES ASSUME NEW u \in Threads, u # t, Remembers(u)'
             PROVE  CounterAt(u)'
    BY DEF CounterInv, CounterAt
<1>1. th'[u] = th[u] /\ CounterAt(u)
    BY DEF OthersStay, IInv, CounterInv
<1>2. Remembers(u) /\ Held(u)' = Held(u)
    BY <1>1 DEF Remembers, Kind, Held
<1>3. ReadLock(Held(u))' /\ ~Held(u)'.pin
    BY <1>1, <1>2 DEF CounterAt, ReadLock
<1>4. ver'.obsolete \/ Held(u)'.n <= ver'.n
    BY <1>2
<1>5. ASSUME NEW x \in Threads, Kind(x)' = "olcWriter", Latch' = "olc" PROVE Held(u)'.n <= Held(x)'.n
    <2>1. CASE x = t
        BY <1>2, <1>5, <2>1 DEF Latch
    <2>2. CASE x # t
        BY <1>1, <1>2, <1>5, <2>2 DEF Latch, OthersStay, Kind, Held, CounterAt
    <2> QED BY <2>1, <2>2
<1> QED BY <1>3, <1>4, <1>5 DEF CounterAt

LEMMA DataStays ==
    ASSUME IInv, NEW t \in Threads, OthersStay(t), UNCHANGED <<a, b, tail, done>>,
           th[t].pc # "second", th'[t].pc # "second", FirstAt(t)'
    PROVE  DataInv'
<1>1. \A u \in Threads : u # t => th'[u] = th[u]
    BY DEF OthersStay
<1>2. \A u \in Threads : (Torn(u)' <=> Torn(u)) /\ (Extended(u)' <=> Extended(u))
    BY <1>1 DEF Torn, Extended, Appends, Use
<1>3. \A u \in Threads : FirstAt(u)'
    BY <1>1 DEF FirstAt, IInv, DataInv, Appends, Use
<1>4. \A u \in Threads : SecondAt(u)'
    BY <1>1, <1>2 DEF SecondAt, IInv, DataInv, Torn, Extended
<1> QED BY <1>2, <1>3, <1>4 DEF IInv, DataInv

LEMMA ReadStays ==
    ASSUME IInv, NEW t \in Threads, OthersStay(t), a' = a, b' = b, ReadAt(t)',
           \A u \in Threads \ {t} : Sound(u)' => Sound(u)
    PROVE  ReadInv'
<1> SUFFICES ASSUME NEW u \in Threads, u # t PROVE ReadAt(u)'
    BY DEF ReadInv
<1>1. th'[u] = th[u] /\ ReadAt(u)
    BY DEF OthersStay, IInv, ReadInv
<1> QED BY <1>1 DEF ReadAt

(* A step that leaves the version alone: its guard, if it changes, is none  *)
(* that holds the version.                                                  *)
LEMMA KeptVersionStep ==
    ASSUME IInv, NEW t \in Threads,
           th' \in [Threads -> ThreadStates], OthersStay(t),
           UNCHANGED <<cfg, ver, a, b, tail, done>>,
           parent' \in {"linked", "latched", "unlinked"},
           rw' \in [readers : SUBSET Threads, writer : SUBSET Threads], LockInv',
           th'[t].guard = th[t].guard \/ (Kind(t) \notin Holding /\ Kind(t)' \notin Holding),
           th[t].pc # "second", th'[t].pc # "second",
           UseAt(t)', LatchAt(t)', GuardAt(t)', CounterAt(t)', FirstAt(t)', ReadAt(t)'
    PROVE  IInv'
<1>1. TypeInv'
    BY DEF IInv, TypeInv
<1>2. ThreadInv'
    BY ThreadStays
<1>3. VersionInv'
    BY VersionStays
<1>4. CounterInv'
    <2>1. \A u \in Threads : CounterAt(u)
        BY DEF IInv, CounterInv
    <2>2. \A u \in Threads \ {t} : Remembers(u) => ver'.obsolete \/ Held(u).n <= ver'.n
        BY <2>1 DEF CounterAt
    <2>3. ASSUME Kind(t)' = "olcWriter", Latch = "olc"
          PROVE  \A u \in Threads \ {t} : Remembers(u) => Held(u).n <= Held(t)'.n
        <3>1. th'[t].guard = th[t].guard
            BY <2>3 DEF Holding
        <3> QED BY <2>1, <2>3, <3>1 DEF CounterAt, Kind, Held
    <2> QED BY <2>2, <2>3, CounterMoves
<1>5. DataInv'
    BY DataStays
<1>6. ReadInv'
    <2>1. \A u \in Threads \ {t} : Sound(u)' => Sound(u)
        BY DEF OthersStay, Sound, Kind, Held, ReadLock
    <2> QED BY <2>1, ReadStays
<1> QED BY <1>1, <1>2, <1>3, <1>4, <1>5, <1>6 DEF IInv

(* A step that also keeps its guard and the lock.                           *)
LEMMA QuietStep ==
    ASSUME IInv, NEW t \in Threads,
           th' \in [Threads -> ThreadStates], OthersStay(t),
           UNCHANGED <<cfg, ver, rw, a, b, tail, done>>,
           parent' \in {"linked", "latched", "unlinked"},
           th'[t].guard = th[t].guard,
           th[t].pc # "second", th'[t].pc \notin {"second", "pin", "pinAppend"},
           UseAt(t)', GuardAt(t)', FirstAt(t)', ReadAt(t)'
    PROVE  IInv'
<1>0. rw' \in [readers : SUBSET Threads, writer : SUBSET Threads]
    BY DEF IInv, TypeInv
<1>1. LockInv'
    BY LockStays DEF Kind
<1>2. LatchAt(t)'
    BY DEF IInv, ThreadInv, LatchAt, Kind, Latch
<1>3. CounterAt(t)'
    <2>1. CounterAt(t)
        BY DEF IInv, CounterInv
    <2>2. Remembers(t)' => Remembers(t)
        BY DEF Remembers, Kind
    <2>3. \A u \in Threads : th'[u].guard = th[u].guard
        BY DEF OthersStay
    <2> QED BY <2>1, <2>2, <2>3 DEF CounterAt, Kind, Held, Latch, ReadLock
<1> QED BY <1>0, <1>1, <1>2, <1>3, KeptVersionStep

(* A step that moves the version.                                           *)
LEMMA MovedVersionStep ==
    ASSUME IInv, NEW t \in Threads,
           th' \in [Threads -> ThreadStates], OthersStay(t),
           UNCHANGED <<cfg, a, b, tail, done>>,
           parent' \in {"linked", "latched", "unlinked"},
           rw' \in [readers : SUBSET Threads, writer : SUBSET Threads], LockInv',
           ver' \in Versions, ver'.pin => ReadLock(ver'),
           \A u \in Threads \ {t} : Kind(u) \notin Holding, HolderAt(t)',
           \A u \in Threads \ {t} : Remembers(u) => ver'.obsolete \/ Held(u).n <= ver'.n,
           Kind(t)' = "olcWriter" /\ Latch = "olc" =>
              \A u \in Threads \ {t} : Remembers(u) => Held(u).n <= Held(t)'.n,
           \A u \in Threads \ {t} : Sound(u)' => Sound(u),
           th[t].pc # "second", th'[t].pc # "second",
           UseAt(t)', LatchAt(t)', GuardAt(t)', CounterAt(t)', FirstAt(t)', ReadAt(t)'
    PROVE  IInv'
<1>1. TypeInv'
    BY DEF IInv, TypeInv
<1>2. ThreadInv'
    BY ThreadStays
<1>3. VersionInv'
    BY VersionMoves
<1>4. CounterInv'
    BY CounterMoves
<1>5. DataInv'
    BY DataStays
<1>6. ReadInv'
    BY ReadStays
<1> QED BY <1>1, <1>2, <1>3, <1>4, <1>5, <1>6 DEF IInv

(* What a step to another place needs of FirstAt, ReadAt and UseAt.         *)
LEMMA Elsewhere ==
    ASSUME IInv, NEW t \in Threads, NEW p \in PCs, NEW g, NEW s, Turns(t, p, g, s), cfg' = cfg
    PROVE  /\ p # "first" => FirstAt(t)'
           /\ p \notin {"readB", "validate", "accepted"} => ReadAt(t)'
           /\ p # "borrow" /\ th[t].pc # "idle" => UseAt(t)'
           /\ th' \in [Threads -> ThreadStates] /\ OthersStay(t)
           /\ Use(t)' = Use(t)
           /\ Kind(t)' = g.kind /\ Held(t)' = g.latch
<1>1. p # "first" => FirstAt(t)'
    BY DEF Turns, FirstAt
<1>2. p \notin {"readB", "validate", "accepted"} => ReadAt(t)'
    BY DEF Turns, ReadAt
<1>3. p # "borrow" /\ th[t].pc # "idle" => UseAt(t)'
    BY DEF Turns, UseAt, IInv, ThreadInv
<1> QED BY <1>1, <1>2, <1>3 DEF Turns, Use, Kind, Held

LEMMA GuardType == ASSUME NEW k \in Kinds, NEW v \in Versions
                   PROVE  Guard(k, v) \in Guards /\ Guard(k, v).kind = k /\ Guard(k, v).latch = v
BY DEF Guard, Guards

LEMMA ZeroType == Zero \in Versions /\ NoGuard \in Guards /\ NoGuard.kind = "none"
<1>1. Zero \in Versions
    BY DEF Zero, Version, Versions
<1> QED BY <1>1, GuardType DEF NoGuard, Kinds

(* The types of what a thread has.                                          *)
LEMMA ThreadType ==
    ASSUME IInv, NEW t \in Threads
    PROVE  /\ TypeInv /\ ver \in Versions
           /\ th[t] \in ThreadStates /\ th[t].guard \in Guards
           /\ Kind(t) \in Kinds /\ Held(t) \in Versions
           /\ UseAt(t) /\ LatchAt(t) /\ GuardAt(t) /\ HolderAt(t) /\ CounterAt(t) /\ ReadAt(t)
BY DEF IInv, TypeInv, ThreadStates, Guards, Kind, Held, ThreadInv, VersionInv, CounterInv, ReadInv

---------------------------------------------------------------------------
(* Letting go.                                                              *)

(* The guard is dropped, whatever it was, and the use ends or starts over.  *)
LEMMA ReleaseStep ==
    ASSUME IInv, NEW t \in Threads,
           th' \in [Threads -> ThreadStates], OthersStay(t),
           th'[t].pc = "idle", th'[t].guard = NoGuard, UseAt(t)',
           ver' = Dropped(th[t].guard), rw' = Unlocked(t),
           UNCHANGED <<cfg, a, b, tail, done>>,
           parent' \in {"linked", "latched", "unlinked"},
           th[t].pc # "second"
    PROVE  IInv'
<1>0. /\ TypeInv /\ ver \in Versions /\ th[t].guard \in Guards /\ Held(t) \in Versions
      /\ HolderAt(t) /\ LatchAt(t) /\ Kind(t) \in Kinds
    BY ThreadType
<1>1. rw' \in [readers : SUBSET Threads, writer : SUBSET Threads]
    BY DEF Unlocked, IInv, TypeInv
<1>2. Kind(t)' = "none"
    BY ZeroType DEF Kind
<1>3. LockInv'
    BY <1>2, LockReleased DEF Readers, Writers
<1>4. LatchAt(t)' /\ GuardAt(t)' /\ CounterAt(t)' /\ FirstAt(t)' /\ ReadAt(t)' /\ HolderAt(t)'
    BY <1>2 DEF LatchAt, GuardAt, CounterAt, FirstAt, ReadAt, HolderAt, Remembers, InSection
<1>5. ver' \in Versions
    BY <1>0, DroppedType
<1>6. CASE Kind(t) \notin Holding
    <2>1. ver' = ver
        BY <1>6 DEF Dropped, Holding, Kind
    <2>2. Kind(t)' \notin Holding
        BY <1>2 DEF Holding
    <2> QED BY <1>1, <1>3, <1>4, <1>6, <2>1, <2>2, KeptVersionStep
<1>7. CASE Kind(t) \in Holding
    <2>1. \A u \in Threads \ {t} : Kind(u) \notin Holding
        BY <1>7 DEF IInv, VersionInv
    <2>2. \A u \in Threads \ {t} : th'[u] = th[u] /\ CounterAt(u) /\ Held(u) \in Versions
        BY ThreadType DEF OthersStay
    <2>3. CASE Kind(t) \in {"readerPin", "appendPin"}
        <3>1. ver' = Unpinned(Held(t)) /\ ver = Held(t) /\ ver.pin
            BY <1>0, <2>3 DEF Dropped, HolderAt, Kind, Held
        <3>2. ~ver'.pin /\ ver'.n = ver.n /\ ver'.obsolete = ver.obsolete /\ ver'.write = ver.write
            <4>1. ver' = Unpinned(ver) /\ ver \in Versions
                BY <1>0, <3>1
            <4> QED BY <4>1 DEF Unpinned, Versions
        <3>3. Unpinned(ver') = Unpinned(ver)
            BY <1>0, <3>1 DEF Unpinned, Versions
        <3>4. \A u \in Threads \ {t} : Remembers(u) => ver'.obsolete \/ Held(u).n <= ver'.n
            BY <2>2, <3>2 DEF CounterAt
        <3>5. \A u \in Threads \ {t} : Sound(u)' => Sound(u)
            BY <2>2, <3>2, <3>3 DEF Sound, Kind, Held, ReadLock
        <3> QED BY <1>1, <1>2, <1>3, <1>4, <1>5, <2>1, <3>2, <3>4, <3>5, MovedVersionStep
    <2>4. CASE Kind(t) = "olcWriter" /\ Latch = "lightweight" /\ Held(t) = Zero
        <3>1. ver' = ver
            BY <2>4 DEF Dropped, Kind, Held
        <3>2. ver'.pin => ReadLock(ver')
            BY <3>1 DEF IInv, VersionInv
        <3>3. \A u \in Threads \ {t} : Remembers(u) => ver'.obsolete \/ Held(u).n <= ver'.n
            BY <2>2, <3>1 DEF CounterAt
        <3>4. \A u \in Threads \ {t} : Sound(u)' => Sound(u)
            BY <2>2, <3>1 DEF Sound, Kind, Held, ReadLock
        <3> QED BY <1>1, <1>2, <1>3, <1>4, <1>5, <2>1, <3>2, <3>3, <3>4, MovedVersionStep
    <2>5. CASE Kind(t) \in {"olcWriter", "hybridWriter"} /\ ~(Kind(t) = "olcWriter" /\ Latch = "lightweight" /\ Held(t) = Zero)
        <3>1. ver' = WriteUnlock(Held(t))
            BY <2>5 DEF Dropped, Kind, Held
        <3>2. ver'.n = Held(t).n + 1 /\ ver'.pin = Held(t).pin /\ ver'.obsolete = Held(t).obsolete
            <4>1. Held(t) \in Versions
                BY <1>0
            <4>2. /\ WriteUnlock(Held(t)).n = Held(t).n + 1 /\ WriteUnlock(Held(t)).pin = Held(t).pin
                  /\ WriteUnlock(Held(t)).obsolete = Held(t).obsolete
                BY ONLY <4>1, VersionFacts
            <4> QED BY ONLY <3>1, <4>2
        <3>3. ~ver'.pin
            BY <1>0, <2>5, <3>2 DEF HolderAt
        <3>4. \A u \in Threads \ {t} : Remembers(u) => ver'.obsolete \/ Held(u).n <= Held(t).n
            <4>1. CASE ver = Held(t)
                BY <2>2, <3>2, <4>1 DEF CounterAt
            <4>2. CASE ver # Held(t)
                <5>1. Kind(t) = "olcWriter" /\ Latch = "olc"
                    BY <1>0, <2>5, <4>2 DEF HolderAt
                <5> QED BY <2>2, <5>1 DEF CounterAt
            <4> QED BY <4>1, <4>2
        <3>5. \A u \in Threads \ {t} : Remembers(u) => ver'.obsolete \/ Held(u).n < ver'.n
            BY <1>0, <2>2, <3>2, <3>4 DEF Versions
        <3>6. \A u \in Threads \ {t} : Remembers(u) => ver'.obsolete \/ Held(u).n <= ver'.n
            BY <1>5, <2>2, <3>5 DEF Versions
        <3>7. \A u \in Threads \ {t} : Sound(u)' => Sound(u)
            <4> SUFFICES ASSUME NEW u \in Threads \ {t}, Sound(u)', Kind(u) = "olcReader"
                         PROVE  FALSE
                BY <2>2 DEF Sound, Kind
            <4>1. Held(u) = Unpinned(ver') /\ ReadLock(ver')
                BY <2>2 DEF Sound, Kind, Held, ReadLock
            <4>2. Held(u).n = ver'.n
                BY <1>5, <4>1, VersionFacts
            <4>3. ver'.obsolete \/ Held(u).n < ver'.n
                BY <3>5 DEF Remembers
            <4> QED BY <1>5, <2>2, <4>1, <4>2, <4>3 DEF ReadLock, Versions
        <3> QED BY <1>1, <1>2, <1>3, <1>4, <1>5, <2>1, <3>3, <3>6, <3>7, MovedVersionStep
    <2> QED BY <1>7, <2>3, <2>4, <2>5 DEF Holding
<1> QED BY <1>6, <1>7

LEMMA FailStep ==
    ASSUME IInv, NEW t \in Threads, Fail(t), th[t].pc \notin {"idle", "second"}
    PROVE  IInv'
<1>1. TypeInv
    BY DEF IInv
<1>2. /\ Turns(t, "idle", NoGuard, th[t].seen)
      /\ ver' = Dropped(th[t].guard) /\ rw' = Unlocked(t)
      /\ parent' \in {"linked", "latched", "unlinked"}
      /\ UNCHANGED <<cfg, a, b, tail, done>>
    BY <1>1, FailEffect
<1>3. UseAt(t)'
    BY <1>2, Elsewhere DEF PCs
<1> QED BY <1>2, <1>3, ReleaseStep DEF Turns
---------------------------------------------------------------------------
(* Borrowing.                                                               *)

LEMMA ModeFacts ==
    ASSUME TypeInv, NEW n, NEW m \in {LockReader(n), ApplyForRef(n)}
    PROVE  /\ m \in Modes
           /\ m = "free" => Latch = "free"
           /\ m = "mut" => Latch \in {"exclusive", "readersWriter", "hybrid"}
           /\ m = "pin" => Latch = "lightweight"
           /\ m = "hybrid" => Latch = "hybrid" /\ m = LockReader(n)
           /\ m = "read" => Latch \in {"readersWriter", "olc", "lightweight", "hybrid"}
<1>1. Latch \in Latches
    BY CellAssumption DEF TypeInv, Latch
<1>2. CASE m = LockReader(n)
    BY <1>1, <1>2 DEF LockReader, Latches, Modes
<1>3. CASE m = ApplyForRef(n)
    BY <1>1, <1>3 DEF ApplyForRef, Latches, Modes
<1> QED BY <1>2, <1>3

LEMMA ApplyForRefNotHybrid ==
    ASSUME TypeInv, NEW n PROVE ApplyForRef(n) # "hybrid"
BY CellAssumption DEF TypeInv, Latch, Latches, ApplyForRef

LEMMA StartPreserves == ASSUME IInv, NEW t \in Threads, Start(t) PROVE IInv'
<1>0. /\ TypeInv /\ th[t] \in ThreadStates /\ UseAt(t) /\ GuardAt(t) /\ Kind(t) = "none"
      /\ th[t].pc = "idle" /\ th[t].todo # <<>> /\ th[t].guard \in Guards
    BY ThreadType DEF Start, At, GuardAt
<1>1. CASE parent = "unlinked"
    <2>1. Idle \in ThreadStates
        BY ZeroType DEF Idle, ThreadStates, Halves, PCs, Modes
    <2>2. th' \in [Threads -> ThreadStates] /\ th'[t] = Idle /\ OthersStay(t)
        BY <1>0, <1>1, <2>1, BecomesEffect DEF Start
    <2>3. th'[t].pc = "idle" /\ th'[t].guard = NoGuard /\ th'[t].todo = <<>>
        BY <2>2 DEF Idle
    <2>4. UseAt(t)'
        BY <2>3 DEF UseAt
    <2>5. ver' = Dropped(th[t].guard) /\ rw' = Unlocked(t)
        <3>1. ver' = ver /\ rw' = rw
            BY DEF Start
        <3>2. Dropped(th[t].guard) = ver
            BY <1>0 DEF Dropped, Kind
        <3>3. t \notin rw.readers /\ t \notin rw.writer
            BY <1>0 DEF IInv, LockInv, Readers, Writers
        <3>4. rw = Unlocked(t)
            BY <1>0, <3>3 DEF TypeInv, Unlocked
        <3> QED BY <3>1, <3>2, <3>4
    <2> QED BY <1>0, <2>2, <2>3, <2>4, <2>5, ReleaseStep DEF Start, data, TypeInv
<1>2. CASE parent # "unlinked"
    <2> DEFINE m == IF Use(t) = "read" THEN LockReader(th[t].attempt) ELSE ApplyForRef(th[t].attempt)
               me == [th[t] EXCEPT !.pc = "borrow", !.mode = m]
    <2>1. /\ m \in Modes
          /\ m = "free" => Latch = "free"
          /\ m = "mut" => Latch \in {"exclusive", "readersWriter", "hybrid"}
          /\ m = "pin" => Latch = "lightweight"
          /\ m = "hybrid" => Latch = "hybrid" /\ Use(t) = "read"
          /\ m = "read" => Latch \in {"readersWriter", "olc", "lightweight", "hybrid"}
        BY <1>0, ModeFacts, ApplyForRefNotHybrid
    <2>2. Becomes(t, me)
        BY <1>2 DEF Start
    <2> HIDE DEF m
    <2>3. me \in ThreadStates
        BY <1>0, <2>1 DEF ThreadStates, PCs
    <2>4. th' \in [Threads -> ThreadStates] /\ th'[t] = me /\ OthersStay(t)
        BY <1>0, <2>2, <2>3, BecomesEffect
    <2>5. /\ th'[t].pc = "borrow" /\ th'[t].mode = m /\ th'[t].todo = th[t].todo
          /\ th'[t].guard = th[t].guard
        BY <1>0, <2>4 DEF ThreadStates
    <2>6. cfg' = cfg
        BY DEF Start
    <2>7. UseAt(t)'
        BY <1>0, <2>1, <2>5, <2>6 DEF UseAt, Use, Latch
    <2>8. GuardAt(t)' /\ FirstAt(t)' /\ ReadAt(t)'
        BY <1>0, <2>5 DEF GuardAt, FirstAt, ReadAt, Kind, InSection
    <2> QED BY <1>0, <2>4, <2>5, <2>7, <2>8, QuietStep DEF Start, data, TypeInv
<1> QED BY <1>1, <1>2

(* A thread that borrows has nothing yet.                                   *)
LEMMA Borrowing ==
    ASSUME IInv, NEW t \in Threads, th[t].pc \in {"borrow", "pin", "pinAppend", "tryWrite"}
    PROVE  /\ TypeInv /\ ver \in Versions /\ Held(t) \in Versions /\ UseAt(t) /\ GuardAt(t) /\ CounterAt(t)
           /\ Kind(t) = "none" /\ Kind(t) \notin Holding /\ Kind(t) \notin Readers \cup Writers
<1>1. Kind(t) = "none"
    BY ThreadType DEF GuardAt
<1> QED BY <1>1, ThreadType DEF Holding, Readers, Writers

LEMMA BorrowFreePreserves == ASSUME IInv, NEW t \in Threads, BorrowFree(t) PROVE IInv'
<1>0. th[t].pc = "borrow" /\ UNCHANGED <<cfg, ver, rw, a, b, tail, parent, done>>
    BY DEF BorrowFree, At, data
<1>1. /\ TypeInv /\ UseAt(t) /\ Kind(t) = "none"
      /\ Kind(t) \notin Holding /\ Kind(t) \notin Readers \cup Writers
    BY <1>0, Borrowing
<1> DEFINE g == Guard("free", Zero)
<1>2. g \in Guards /\ g.kind = "free"
    BY ZeroType, GuardType DEF Kinds
<1>3. Turns(t, "deref", g, th[t].seen)
    BY <1>1, <1>2, HoldsEffect DEF BorrowFree, PCs
<1> HIDE DEF g
<1>4. th' \in [Threads -> ThreadStates] /\ OthersStay(t) /\ Kind(t)' = "free" /\ FirstAt(t)' /\ ReadAt(t)' /\ UseAt(t)'
    BY <1>0, <1>2, <1>3, Elsewhere DEF PCs
<1>5. th'[t].pc = "deref"
    BY <1>3 DEF Turns
<1>6. Latch = "free" /\ Latch' = Latch
    BY <1>0, <1>1 DEF UseAt, BorrowFree, Latch
<1>7. LatchAt(t)' /\ GuardAt(t)' /\ CounterAt(t)'
    BY <1>4, <1>5, <1>6 DEF LatchAt, GuardAt, CounterAt, Remembers, InSection
<1>8. LockInv'
    BY <1>0, <1>1, <1>4, LockStays DEF Readers, Writers
<1> QED BY <1>0, <1>1, <1>4, <1>5, <1>7, <1>8, KeptVersionStep DEF Holding, TypeInv

(* A guard without a hold on the cell: a remembered version, or none.       *)
LEMMA OptimisticStep ==
    ASSUME IInv, NEW t \in Threads, NEW p \in {"deref", "pin", "pinAppend"}, NEW g \in Guards,
           Turns(t, p, g, th[t].seen), UNCHANGED <<cfg, ver, rw, a, b, tail, parent, done>>,
           th[t].pc \notin {"idle", "second"}, Kind(t) \notin Holding \cup Readers \cup Writers,
           g.kind \in {"none", "olcReader"},
           g.kind = "olcReader" => Latch \in {"olc", "lightweight", "hybrid"},
           p = "pin" => Latch = "lightweight" /\ g.kind = "none",
           p = "pinAppend" => Latch \in {"olc", "lightweight"} /\ g.kind = "none" /\ Use(t) = "append",
           p # "deref" \/ g.kind = "olcReader" =>
              /\ ReadLock(g.latch) /\ ~g.latch.pin
              /\ ver.obsolete \/ g.latch.n <= ver.n
              /\ \A u \in Threads : Kind(u) = "olcWriter" /\ Latch = "olc" => g.latch.n <= Held(u).n
    PROVE  IInv'
<1>0. TypeInv /\ UseAt(t) /\ p \in PCs
    BY ThreadType DEF PCs
<1>1. /\ th' \in [Threads -> ThreadStates] /\ OthersStay(t) /\ Kind(t)' = g.kind /\ Held(t)' = g.latch
      /\ Use(t)' = Use(t) /\ FirstAt(t)' /\ ReadAt(t)' /\ UseAt(t)'
    BY <1>0, Elsewhere
<1>2. th'[t].pc = p
    BY DEF Turns
<1>3. Latch' = Latch
    BY DEF Latch
<1>4. LatchAt(t)'
    BY <1>1, <1>3 DEF LatchAt
<1>5. GuardAt(t)'
    BY <1>1, <1>2, <1>3 DEF GuardAt, InSection
<1>6. CounterAt(t)'
    <2> SUFFICES ASSUME Remembers(t)' PROVE CounterAt(t)'
        BY DEF CounterAt
    <2>1. p # "deref" \/ g.kind = "olcReader"
        BY <1>1, <1>2 DEF Remembers
    <2>2. \A u \in Threads : Kind(u)' = "olcWriter" => Kind(u) = "olcWriter" /\ Held(u)' = Held(u)
        BY <1>1 DEF OthersStay, Kind, Held
    <2> QED BY <1>1, <1>3, <2>1, <2>2 DEF CounterAt, ReadLock
<1>7. LockInv'
    BY <1>1, LockStays DEF Readers, Writers
<1> QED BY <1>0, <1>1, <1>2, <1>4, <1>5, <1>6, <1>7, KeptVersionStep DEF Holding, TypeInv

(* The version as it is, when nobody writes: fit to be remembered.          *)
LEMMA FreshVersion ==
    ASSUME IInv, ReadLock(ver)
    PROVE  /\ Unpinned(ver) \in Versions
           /\ ReadLock(Unpinned(ver)) /\ ~Unpinned(ver).pin /\ Unpinned(ver).n = ver.n
           /\ Unpinned(ver).n <= ver.n
           /\ \A u \in Threads : Kind(u) # "olcWriter"
<1>1. ver \in Versions
    BY DEF IInv, TypeInv
<1>2. Unpinned(ver) \in Versions /\ Unpinned(ver).n = ver.n /\ Unpinned(ver).write = ver.write
    BY <1>1, VersionFacts
<1>3. ~Unpinned(ver).pin /\ Unpinned(ver).obsolete = ver.obsolete
    BY <1>1, VersionFacts
<1>4. \A u \in Threads : Kind(u) # "olcWriter"
    BY DEF IInv, VersionInv, HolderAt, ReadLock, Marked, Version
<1>5. ver.n <= ver.n
    BY <1>1 DEF Versions
<1> QED BY <1>2, <1>3, <1>4, <1>5 DEF ReadLock

(* A lock is taken or given back, and the version left alone.               *)
LEMMA LockStep ==
    ASSUME IInv, NEW t \in Threads, NEW p \in PCs, NEW g \in Guards,
           Turns(t, p, g, th[t].seen), UNCHANGED <<cfg, ver, a, b, tail, parent, done>>,
           rw' \in [readers : SUBSET Threads, writer : SUBSET Threads], LockInv',
           th[t].pc \notin {"idle", "second"}, Kind(t) \notin Holding,
           g.kind \in {"none", "mutex", "rwReader", "rwWriter", "hybridReader"},
           g.kind = "mutex" => Latch = "exclusive",
           g.kind \in {"rwReader", "rwWriter"} => Latch = "readersWriter",
           g.kind = "hybridReader" => Latch = "hybrid" /\ Use(t) = "read",
           \/ p = "deref"
           \/ p = "readA" /\ g.kind = "rwReader"
           \/ p = "tryWrite" /\ g.kind = "none" /\ Latch = "readersWriter"
           \/ p = "locked" /\ g.kind \in {"mutex", "rwWriter"}
    PROVE  IInv'
<1>0. TypeInv
    BY DEF IInv
<1>1. p \notin {"first", "second", "borrow", "readB", "validate", "accepted", "pin", "pinAppend"}
    OBVIOUS
<1>2. /\ th' \in [Threads -> ThreadStates] /\ OthersStay(t) /\ Kind(t)' = g.kind
      /\ Use(t)' = Use(t) /\ FirstAt(t)' /\ ReadAt(t)' /\ UseAt(t)'
    BY <1>1, Elsewhere
<1>3. th'[t].pc = p /\ Latch' = Latch
    BY DEF Turns, Latch
<1>4. LatchAt(t)'
    BY <1>2, <1>3 DEF LatchAt
<1>5. GuardAt(t)'
    BY <1>2, <1>3 DEF GuardAt, InSection, Exclusive
<1>6. CounterAt(t)'
    BY <1>1, <1>2, <1>3 DEF CounterAt, Remembers
<1> QED BY <1>0, <1>1, <1>2, <1>3, <1>4, <1>5, <1>6, KeptVersionStep DEF Holding, TypeInv

LEMMA LockTypes ==
    ASSUME TypeInv, NEW t \in Threads
    PROVE  /\ Reading(t) \in [readers : SUBSET Threads, writer : SUBSET Threads]
           /\ Writing(t) \in [readers : SUBSET Threads, writer : SUBSET Threads]
           /\ Unlocked(t) \in [readers : SUBSET Threads, writer : SUBSET Threads]
<1>1. rw \in [readers : SUBSET Threads, writer : SUBSET Threads]
    BY DEF TypeInv
<1>2. Reading(t) \in [readers : SUBSET Threads, writer : SUBSET Threads]
    BY <1>1 DEF Reading
<1>3. Writing(t) \in [readers : SUBSET Threads, writer : SUBSET Threads]
    BY <1>1 DEF Writing
<1>4. Unlocked(t) \in [readers : SUBSET Threads, writer : SUBSET Threads]
    BY <1>1 DEF Unlocked
<1> QED BY <1>2, <1>3, <1>4

LEMMA BorrowReadPreserves == ASSUME IInv, NEW t \in Threads, BorrowRead(t) PROVE IInv'
<1>0. th[t].pc = "borrow" /\ th[t].mode = "read" /\ UNCHANGED <<cfg, ver, a, b, tail, parent, done>>
    BY DEF BorrowRead, At, data
<1>1. /\ TypeInv /\ UseAt(t) /\ Kind(t) = "none"
      /\ Kind(t) \notin Holding /\ Kind(t) \notin Readers \cup Writers
    BY <1>0, Borrowing
<1>2. CASE Latch = "readersWriter"
    <2> DEFINE g == Guard("rwReader", Zero)
    <2>1. g \in Guards /\ g.kind = "rwReader"
        BY ZeroType, GuardType DEF Kinds
    <2>2. rw.writer = {} /\ rw' = Reading(t) /\ Holds(t, g, "deref")
        BY <1>2 DEF BorrowRead
    <2>3. Turns(t, "deref", g, th[t].seen)
        BY <1>1, <2>1, <2>2, HoldsEffect DEF PCs
    <2> HIDE DEF g
    <2>4. LockInv'
        BY <2>1, <2>2, <2>3, LockRead DEF Turns, Kind, Readers
    <2> QED BY <1>0, <1>1, <1>2, <2>1, <2>2, <2>3, <2>4, LockTypes, LockStep DEF PCs
<1>3. CASE Latch # "readersWriter"
    <2> DEFINE g == IF ReadLock(ver) THEN Guard("olcReader", Unpinned(ver)) ELSE NoGuard
    <2>1. Holds(t, g, "deref") /\ rw' = rw
        BY <1>3 DEF BorrowRead
    <2>2. CASE ReadLock(ver)
        <3>1. /\ g \in Guards /\ g.kind = "olcReader" /\ g.latch = Unpinned(ver)
            BY <2>2, FreshVersion, GuardType DEF Kinds
        <3> HIDE DEF g
        <3>2. Turns(t, "deref", g, th[t].seen)
            BY <1>1, <2>1, <3>1, HoldsEffect DEF PCs
        <3>3. Latch \in {"olc", "lightweight", "hybrid"}
            BY <1>0, <1>1, <1>3 DEF UseAt
        <3> QED BY <1>0, <1>1, <2>1, <2>2, <3>1, <3>2, <3>3, FreshVersion, OptimisticStep
    <2>3. CASE ~ReadLock(ver)
        <3>1. g \in Guards /\ g.kind = "none"
            BY <2>3, ZeroType
        <3> HIDE DEF g
        <3>2. Turns(t, "deref", g, th[t].seen)
            BY <1>1, <2>1, <3>1, HoldsEffect DEF PCs
        <3> QED BY <1>0, <1>1, <2>1, <3>1, <3>2, OptimisticStep
    <2> QED BY <2>2, <2>3
<1> QED BY <1>2, <1>3

LEMMA BorrowReadHybridPreserves == ASSUME IInv, NEW t \in Threads, BorrowReadHybrid(t) PROVE IInv'
<1>0. /\ th[t].pc = "borrow" /\ th[t].mode = "hybrid" /\ UNCHANGED <<cfg, ver, a, b, tail, parent, done>>
      /\ rw.writer = {} /\ rw' = Reading(t) /\ Holds(t, Guard("hybridReader", ver), "deref")
    BY DEF BorrowReadHybrid, At, data
<1>1. /\ TypeInv /\ ver \in Versions /\ UseAt(t) /\ Kind(t) = "none"
      /\ Kind(t) \notin Holding /\ Kind(t) \notin Readers \cup Writers
    BY <1>0, Borrowing
<1> DEFINE g == Guard("hybridReader", ver)
<1>2. g \in Guards /\ g.kind = "hybridReader"
    BY <1>1, GuardType DEF Kinds
<1>3. Turns(t, "deref", g, th[t].seen)
    BY <1>0, <1>1, <1>2, HoldsEffect DEF PCs
<1> HIDE DEF g
<1>4. LockInv'
    BY <1>0, <1>2, <1>3, LockRead DEF Turns, Kind, Readers
<1>5. Latch = "hybrid" /\ Use(t) = "read"
    BY <1>0, <1>1 DEF UseAt
<1> QED BY <1>0, <1>1, <1>2, <1>3, <1>4, <1>5, LockTypes, LockStep DEF PCs
(* The version is taken, by a pin or by the write flag.                     *)
LEMMA TakeStep ==
    ASSUME IInv, NEW t \in Threads, NEW p \in {"deref", "locked"}, NEW g \in Guards,
           Turns(t, p, g, th[t].seen), UNCHANGED <<cfg, a, b, tail, parent, done>>,
           rw' \in [readers : SUBSET Threads, writer : SUBSET Threads], LockInv',
           th[t].pc \notin {"idle", "second"},
           \A u \in Threads \ {t} : Kind(u) \notin Holding,
           ~ver.obsolete, ~ver.write,
           ver' = g.latch, ver'.n = ver.n, ~ver'.obsolete,
           \/ /\ g.kind \in {"readerPin", "appendPin"}
              /\ ver'.pin /\ ~ver'.write /\ Unpinned(ver') = Unpinned(ver)
           \/ /\ g.kind \in {"olcWriter", "hybridWriter"}
              /\ ver'.write /\ ~ver'.pin,
           g.kind = "readerPin" => Latch = "lightweight",
           g.kind = "hybridWriter" => Latch = "hybrid",
           g.kind \in {"olcWriter", "appendPin"} => Latch \in {"olc", "lightweight"},
           p = "deref" => g.kind \in {"readerPin", "hybridWriter"},
           p = "locked" => /\ g.kind = "olcWriter" => ~Appends(t)
                           /\ g.kind = "appendPin" => Appends(t)
                           /\ g.kind # "readerPin"
    PROVE  IInv'
<1>0. TypeInv /\ p \in PCs
    BY DEF IInv, PCs
<1>1. /\ th' \in [Threads -> ThreadStates] /\ OthersStay(t) /\ Kind(t)' = g.kind /\ Held(t)' = g.latch
      /\ Use(t)' = Use(t) /\ FirstAt(t)' /\ ReadAt(t)' /\ UseAt(t)'
    BY <1>0, Elsewhere
<1>2. th'[t].pc = p /\ Latch' = Latch
    BY DEF Turns, Latch
<1>3. LatchAt(t)'
    BY <1>1, <1>2 DEF LatchAt
<1>4. GuardAt(t)'
    BY <1>1, <1>2 DEF GuardAt, InSection, Exclusive, Appends
<1>5. CounterAt(t)'
    BY <1>1, <1>2 DEF CounterAt, Remembers
<1>6. HolderAt(t)'
    BY <1>1 DEF HolderAt
<1>7. ver' \in Versions
    BY DEF Guards
<1>8. \A u \in Threads : CounterAt(u)
    BY DEF IInv, CounterInv
<1>9. \A u \in Threads \ {t} : Remembers(u) => Held(u).n <= ver'.n
    BY <1>8 DEF CounterAt
<1>10. \A u \in Threads \ {t} : Sound(u)' => Sound(u)
    BY <1>1 DEF OthersStay, Sound, Kind, Held, ReadLock
<1>11. ver'.pin => ReadLock(ver')
    BY DEF ReadLock
<1> QED BY <1>0, <1>1, <1>2, <1>3, <1>4, <1>5, <1>6, <1>7, <1>9, <1>10, <1>11, MovedVersionStep DEF TypeInv

LEMMA BorrowMutPreserves == ASSUME IInv, NEW t \in Threads, BorrowMut(t) PROVE IInv'
<1>0. th[t].pc = "borrow" /\ th[t].mode = "mut" /\ UNCHANGED <<cfg, a, b, tail, parent, done>>
    BY DEF BorrowMut, At, data
<1>1. /\ TypeInv /\ ver \in Versions /\ UseAt(t) /\ Kind(t) = "none"
      /\ Kind(t) \notin Holding /\ Kind(t) \notin Readers \cup Writers
    BY <1>0, Borrowing
<1>2. Latch \in {"exclusive", "readersWriter", "hybrid"}
    BY <1>0, <1>1 DEF UseAt
<1>3. CASE Latch # "hybrid"
    <2> DEFINE g == Guard(IF Latch = "exclusive" THEN "mutex" ELSE "rwWriter", Zero)
    <2>1. /\ g \in Guards /\ g.kind \in {"mutex", "rwWriter"}
          /\ g.kind = "mutex" => Latch = "exclusive"
          /\ g.kind = "rwWriter" => Latch = "readersWriter"
        BY <1>2, <1>3, ZeroType, GuardType DEF Kinds
    <2>2. Free /\ rw' = Writing(t) /\ Holds(t, g, "deref") /\ ver' = ver
        BY <1>3 DEF BorrowMut
    <2> HIDE DEF g
    <2>3. Turns(t, "deref", g, th[t].seen)
        BY <1>1, <2>1, <2>2, HoldsEffect DEF PCs
    <2>4. LockInv'
        BY <2>1, <2>2, <2>3, LockWrite DEF Turns, Kind, Writers
    <2> QED BY <1>0, <1>1, <2>1, <2>2, <2>3, <2>4, LockTypes, LockStep DEF PCs
<1>4. CASE Latch = "hybrid" /\ Free /\ ReadLock(ver)
    <2> DEFINE g == Guard("hybridWriter", WriteFlag(ver))
    <2>1. rw' = Writing(t) /\ ver' = WriteFlag(ver) /\ Holds(t, g, "deref")
        BY <1>4 DEF BorrowMut
    <2>2. ver' \in Versions /\ ver'.n = ver.n /\ ver'.write /\ ~ver'.pin /\ ver'.obsolete = ver.obsolete
        BY <1>1, <2>1, VersionFacts
    <2>3. g \in Guards /\ g.kind = "hybridWriter" /\ g.latch = ver'
        BY <2>1, <2>2, GuardType DEF Kinds
    <2> HIDE DEF g
    <2>4. Turns(t, "deref", g, th[t].seen)
        BY <1>1, <2>1, <2>3, HoldsEffect DEF PCs
    <2>5. LockInv'
        BY <1>4, <2>1, <2>3, <2>4, LockWrite DEF Turns, Kind, Writers
    <2>6. \A u \in Threads \ {t} : Kind(u) \notin Holding
        BY <1>4, FreeVersion
    <2>7. ~ver.obsolete /\ ~ver.write
        BY <1>4 DEF ReadLock
    <2>8. rw' \in [readers : SUBSET Threads, writer : SUBSET Threads]
        BY <1>1, <2>1, LockTypes
    <2> QED BY <1>0, <1>4, <2>2, <2>3, <2>4, <2>5, <2>6, <2>7, <2>8, TakeStep
<1>5. CASE Latch = "hybrid" /\ ~(Free /\ ReadLock(ver))
    <2>1. Holds(t, NoGuard, "deref") /\ rw' = rw /\ ver' = ver
        BY <1>5 DEF BorrowMut
    <2>2. Turns(t, "deref", NoGuard, th[t].seen)
        BY <1>1, <2>1, ZeroType, HoldsEffect DEF PCs
    <2> QED BY <1>0, <1>1, <2>1, <2>2, ZeroType, OptimisticStep
<1> QED BY <1>3, <1>4, <1>5

LEMMA BorrowPinPreserves == ASSUME IInv, NEW t \in Threads, BorrowPin(t) PROVE IInv'
<1>0. th[t].pc = "borrow" /\ th[t].mode = "pin" /\ UNCHANGED <<cfg, ver, rw, a, b, tail, parent, done>>
    BY DEF BorrowPin, At, data
<1>1. /\ TypeInv /\ ver \in Versions /\ UseAt(t) /\ Kind(t) = "none"
      /\ Kind(t) \notin Holding \cup Readers \cup Writers
    BY <1>0, Borrowing
<1>2. Latch = "lightweight"
    BY <1>0, <1>1 DEF UseAt
<1>3. CASE MayPin(ver)
    <2> DEFINE g == Guard("none", ver)
    <2>1. g \in Guards /\ g.kind = "none" /\ g.latch = ver
        BY <1>1, GuardType DEF Kinds
    <2>2. Holds(t, g, "pin")
        BY <1>3 DEF BorrowPin
    <2> HIDE DEF g
    <2>3. Turns(t, "pin", g, th[t].seen)
        BY <1>1, <2>1, <2>2, HoldsEffect DEF PCs
    <2>4. ReadLock(ver) /\ ~ver.pin
        BY <1>3 DEF MayPin
    <2>5. ver.n <= ver.n
        BY <1>1 DEF Versions
    <2> QED BY <1>0, <1>1, <1>2, <2>1, <2>3, <2>4, <2>5, FreshVersion, OptimisticStep
<1>4. CASE ~MayPin(ver) /\ ver.pin
    <2> DEFINE g == Guard("olcReader", Unpinned(ver))
    <2>1. ReadLock(ver)
        BY <1>4 DEF IInv, VersionInv
    <2>2. g \in Guards /\ g.kind = "olcReader" /\ g.latch = Unpinned(ver)
        BY <2>1, FreshVersion, GuardType DEF Kinds
    <2>3. Holds(t, g, "deref")
        BY <1>4 DEF BorrowPin
    <2> HIDE DEF g
    <2>4. Turns(t, "deref", g, th[t].seen)
        BY <1>1, <2>2, <2>3, HoldsEffect DEF PCs
    <2> QED BY <1>0, <1>1, <1>2, <2>1, <2>2, <2>4, FreshVersion, OptimisticStep
<1>5. CASE ~MayPin(ver) /\ ~ver.pin
    <2>1. Holds(t, NoGuard, "deref")
        BY <1>5 DEF BorrowPin
    <2>2. Turns(t, "deref", NoGuard, th[t].seen)
        BY <1>1, <2>1, ZeroType, HoldsEffect DEF PCs
    <2> QED BY <1>0, <1>1, <2>2, ZeroType, OptimisticStep
<1> QED BY <1>3, <1>4, <1>5

(* The exchange of a version that was free for one with the pin.            *)
LEMMA PinFacts ==
    ASSUME IInv, ReadLock(ver), ~ver.pin
    PROVE  LET v == [ver EXCEPT !.pin = TRUE]
           IN  /\ v \in Versions /\ v.n = ver.n /\ v.pin /\ ~v.write /\ ~v.obsolete
               /\ Unpinned(v) = Unpinned(ver)
<1>1. ver \in Versions
    BY DEF IInv, TypeInv
<1> DEFINE v == [ver EXCEPT !.pin = TRUE]
<1>2. v \in Versions
    BY <1>1 DEF Versions
<1>3. v.n = ver.n /\ v.pin /\ v.write = ver.write /\ v.obsolete = ver.obsolete
    BY <1>1 DEF Versions
<1>4. Unpinned(v) = Unpinned(ver)
    BY <1>1 DEF Unpinned, Versions
<1> QED BY <1>2, <1>3, <1>4 DEF ReadLock

LEMMA PinLockPreserves == ASSUME IInv, NEW t \in Threads, PinLock(t) PROVE IInv'
<1>0. th[t].pc = "pin" /\ UNCHANGED <<cfg, rw, a, b, tail, parent, done>>
    BY DEF PinLock, At, data
<1>1. /\ TypeInv /\ ver \in Versions /\ Held(t) \in Versions /\ GuardAt(t) /\ CounterAt(t) /\ Kind(t) = "none"
      /\ Kind(t) \notin Holding \cup Readers \cup Writers
    BY <1>0, Borrowing
<1>2. Latch = "lightweight"
    BY <1>0, <1>1 DEF GuardAt
<1>3. /\ ReadLock(Held(t)) /\ ~Held(t).pin
      /\ ver.obsolete \/ Held(t).n <= ver.n
      /\ \A u \in Threads : Kind(u) = "olcWriter" /\ Latch = "olc" => Held(t).n <= Held(u).n
    BY <1>0, <1>1 DEF CounterAt, Remembers
<1>4. CASE ver = Held(t)
    <2> DEFINE g == Guard("readerPin", ver')
    <2>1. ver' = [ver EXCEPT !.pin = TRUE] /\ Holds(t, g, "deref")
        BY <1>4 DEF PinLock, Held
    <2>2. ver' \in Versions /\ ver'.n = ver.n /\ ver'.pin /\ ~ver'.write /\ ~ver'.obsolete
        BY <1>3, <1>4, <2>1, PinFacts
    <2>3. Unpinned(ver') = Unpinned(ver)
        BY <1>3, <1>4, <2>1, PinFacts
    <2>4. g \in Guards /\ g.kind = "readerPin" /\ g.latch = ver'
        BY <2>2, GuardType DEF Kinds
    <2> HIDE DEF g
    <2>5. Turns(t, "deref", g, th[t].seen)
        BY <1>1, <2>1, <2>4, HoldsEffect DEF PCs
    <2>6. LockInv'
        BY <1>0, <1>1, <2>4, <2>5, LockStays DEF Turns, Kind, Readers, Writers
    <2>7. \A u \in Threads \ {t} : Kind(u) \notin Holding
        BY <1>3, <1>4, FreeVersion
    <2>8. ~ver.obsolete /\ ~ver.write
        BY <1>3, <1>4 DEF ReadLock
    <2>9. rw' \in [readers : SUBSET Threads, writer : SUBSET Threads]
        BY <1>0, <1>1 DEF TypeInv
    <2> QED BY <1>0, <1>2, <2>2, <2>3, <2>4, <2>5, <2>6, <2>7, <2>8, <2>9, TakeStep
<1>5. CASE ver # Held(t)
    <2> DEFINE g == Guard("olcReader", Held(t))
    <2>1. ver' = ver /\ Holds(t, g, "deref")
        BY <1>5 DEF PinLock, Held
    <2>2. g \in Guards /\ g.kind = "olcReader" /\ g.latch = Held(t)
        BY <1>1, GuardType DEF Kinds
    <2> HIDE DEF g
    <2>3. Turns(t, "deref", g, th[t].seen)
        BY <1>1, <2>1, <2>2, HoldsEffect DEF PCs
    <2> QED BY <1>0, <1>1, <1>2, <1>3, <2>1, <2>2, <2>3, OptimisticStep
<1> QED BY <1>4, <1>5

LEMMA PinAppendPreserves == ASSUME IInv, NEW t \in Threads, PinAppend(t) PROVE IInv'
<1>0. th[t].pc = "pinAppend"
    BY DEF PinAppend, At
<1>1. /\ TypeInv /\ ver \in Versions /\ Held(t) \in Versions /\ GuardAt(t) /\ CounterAt(t) /\ Kind(t) = "none"
      /\ Kind(t) \notin Holding \cup Readers \cup Writers
    BY <1>0, Borrowing
<1>2. Latch \in {"olc", "lightweight"} /\ Use(t) = "append"
    BY <1>0, <1>1 DEF GuardAt
<1>3. ReadLock(Held(t)) /\ ~Held(t).pin
    BY <1>0, <1>1 DEF CounterAt, Remembers
<1>4. CASE ver = Held(t)
    <2> DEFINE g == Guard("appendPin", ver')
    <2>1. /\ ver' = [ver EXCEPT !.pin = TRUE] /\ Holds(t, g, "locked")
          /\ UNCHANGED <<cfg, rw, a, b, tail, parent, done>>
        BY <1>4 DEF PinAppend, Held, data
    <2>2. ver' \in Versions /\ ver'.n = ver.n /\ ver'.pin /\ ~ver'.write /\ ~ver'.obsolete
        BY <1>3, <1>4, <2>1, PinFacts
    <2>3. Unpinned(ver') = Unpinned(ver)
        BY <1>3, <1>4, <2>1, PinFacts
    <2>4. g \in Guards /\ g.kind = "appendPin" /\ g.latch = ver'
        BY <2>2, GuardType DEF Kinds
    <2> HIDE DEF g
    <2>5. Turns(t, "locked", g, th[t].seen)
        BY <1>1, <2>1, <2>4, HoldsEffect DEF PCs
    <2>6. LockInv'
        BY <1>1, <2>1, <2>4, <2>5, LockStays DEF Turns, Kind, Readers, Writers
    <2>7. \A u \in Threads \ {t} : Kind(u) \notin Holding
        BY <1>3, <1>4, FreeVersion
    <2>8. ~ver.obsolete /\ ~ver.write /\ Appends(t)
        BY <1>2, <1>3, <1>4 DEF ReadLock, Appends
    <2>9. rw' \in [readers : SUBSET Threads, writer : SUBSET Threads]
        BY <1>1, <2>1 DEF TypeInv
    <2> QED BY <1>0, <1>2, <2>1, <2>2, <2>3, <2>4, <2>5, <2>6, <2>7, <2>8, <2>9, TakeStep
<1>5. CASE ver # Held(t)
    <2>1. Fail(t)
        BY <1>5 DEF PinAppend, Held
    <2> QED BY <1>0, <2>1, FailStep
<1> QED BY <1>4, <1>5

LEMMA TryWritePreserves == ASSUME IInv, NEW t \in Threads, TryWrite(t) PROVE IInv'
<1>0. th[t].pc = "tryWrite"
    BY DEF TryWrite, At
<1>1. /\ TypeInv /\ GuardAt(t) /\ Kind(t) \notin Holding
    BY <1>0, Borrowing
<1>2. Latch = "readersWriter"
    BY <1>0, <1>1 DEF GuardAt
<1>3. CASE Free
    <2> DEFINE g == Guard("rwWriter", Zero)
    <2>1. rw' = Writing(t) /\ Holds(t, g, "locked") /\ UNCHANGED <<cfg, ver, a, b, tail, parent, done>>
        BY <1>3 DEF TryWrite, data
    <2>2. g \in Guards /\ g.kind = "rwWriter"
        BY ZeroType, GuardType DEF Kinds
    <2> HIDE DEF g
    <2>3. Turns(t, "locked", g, th[t].seen)
        BY <1>1, <2>1, <2>2, HoldsEffect DEF PCs
    <2>4. LockInv'
        BY <1>3, <2>1, <2>2, <2>3, LockWrite DEF Turns, Kind, Writers
    <2> QED BY <1>0, <1>1, <1>2, <2>1, <2>2, <2>3, <2>4, LockTypes, LockStep DEF PCs
<1>4. CASE ~Free
    BY <1>0, <1>4, FailStep DEF TryWrite
<1> QED BY <1>3, <1>4

---------------------------------------------------------------------------
(* Reading, and letting go after it.                                        *)

LEMMA DropPreserves == ASSUME IInv, NEW t \in Threads, Drop(t) PROVE IInv'
<1>0. /\ th[t].pc = "drop" /\ ver' = Dropped(th[t].guard) /\ rw' = Unlocked(t)
      /\ UNCHANGED <<cfg, a, b, tail, parent, done>>
    BY DEF Drop, At, data
<1>1. TypeInv /\ th[t] \in ThreadStates /\ UseAt(t)
    BY ThreadType
<1>2. Tail(th[t].todo) \in Seq(UseKinds) /\ cfg.uses[t] # <<>>
    BY <1>0, <1>1 DEF ThreadStates, UseAt
<1> DEFINE rest == Tail(th[t].todo)
           me == [Idle EXCEPT !.todo = rest]
<1> HIDE DEF rest
<1>3. Idle \in ThreadStates
    BY ZeroType DEF Idle, ThreadStates, Halves, PCs, Modes
<1>4. me \in ThreadStates
    BY <1>2, <1>3 DEF ThreadStates, rest
<1>5. Becomes(t, me)
    BY DEF Drop, rest
<1>6. th' \in [Threads -> ThreadStates] /\ th'[t] = me /\ OthersStay(t)
    BY <1>1, <1>4, <1>5, BecomesEffect
<1>7. me.pc = "idle" /\ me.guard = NoGuard
    BY DEF Idle
<1>8. UseAt(t)'
    BY <1>0, <1>2, <1>6, <1>7 DEF UseAt
<1> QED BY <1>0, <1>1, <1>6, <1>7, <1>8, ReleaseStep DEF TypeInv

(* A step of a reader: the guard stays.                                     *)
LEMMA GoesOn ==
    ASSUME IInv, NEW t \in Threads, NEW p \in PCs, NEW s, Turns(t, p, th[t].guard, s),
           UNCHANGED <<cfg, ver, rw, a, b, tail, done>>,
           parent' \in {"linked", "latched", "unlinked"},
           th[t].pc \notin {"idle", "second"}, p \notin {"second", "pin", "pinAppend", "borrow", "first"},
           GuardAt(t)', ReadAt(t)'
    PROVE  IInv'
<1>1. th' \in [Threads -> ThreadStates] /\ OthersStay(t) /\ FirstAt(t)' /\ UseAt(t)'
    BY Elsewhere
<1>2. th'[t].pc = p /\ th'[t].guard = th[t].guard
    BY DEF Turns
<1> QED BY <1>1, <1>2, QuietStep

LEMMA DerefPreserves == ASSUME IInv, NEW t \in Threads, Deref(t) PROVE IInv'
<1>0. th[t].pc = "deref" /\ TypeInv /\ GuardAt(t)
    BY ThreadType DEF Deref, At
<1>1. CASE Derefs(th[t].guard) /\ parent = "linked"
    <2>1. Goto(t, "readA") /\ UNCHANGED <<cfg, ver, rw, a, b, tail, parent, done>>
        BY <1>1 DEF Deref, data
    <2>2. Turns(t, "readA", th[t].guard, th[t].seen)
        BY <1>0, <2>1, GotoEffect DEF PCs
    <2>3. th'[t].pc = "readA" /\ Kind(t)' = Kind(t) /\ Use(t)' = Use(t) /\ ReadAt(t)'
        BY <2>2 DEF Turns, Kind, Use, ReadAt
    <2>4. Kind(t) # "none"
        BY <1>1 DEF Derefs, IsValid, Kind
    <2>5. GuardAt(t)'
        BY <1>0, <2>3, <2>4 DEF GuardAt, InSection
    <2> QED BY <1>0, <2>1, <2>2, <2>3, <2>5, GoesOn DEF PCs, TypeInv
<1>2. CASE ~(Derefs(th[t].guard) /\ parent = "linked")
    BY <1>0, <1>2, FailStep DEF Deref
<1> QED BY <1>1, <1>2

LEMMA ReadAPreserves == ASSUME IInv, NEW t \in Threads, ReadA(t) PROVE IInv'
<1>0. /\ th[t].pc = "readA" /\ TypeInv /\ th[t] \in ThreadStates /\ GuardAt(t)
      /\ UNCHANGED <<cfg, ver, rw, a, b, tail, parent, done>>
    BY ThreadType DEF ReadA, At, data
<1> DEFINE s == Halves(a, 0)
           me == [th[t] EXCEPT !.pc = "readB", !.seen = s]
<1>1. s \in [a : Nat, b : Nat] /\ s.a = a
    BY <1>0 DEF TypeInv, Halves
<1>2. Becomes(t, me)
    BY DEF ReadA
<1> HIDE DEF s
<1>3. me \in ThreadStates
    BY <1>0, <1>1 DEF ThreadStates, PCs
<1>4. me.pc = "readB" /\ me.todo = th[t].todo /\ me.guard = th[t].guard /\ me.seen = s
    BY <1>0 DEF ThreadStates
<1>5. Turns(t, "readB", th[t].guard, s)
    BY <1>0, <1>2, <1>3, <1>4, BecomesEffect DEF Turns
<1>6. th'[t].pc = "readB" /\ Kind(t)' = Kind(t) /\ Use(t)' = Use(t) /\ th'[t].seen = s
    BY <1>5 DEF Turns, Kind, Use
<1>7. ReadAt(t)'
    BY <1>0, <1>1, <1>6 DEF ReadAt
<1>8. GuardAt(t)'
    BY <1>0, <1>6 DEF GuardAt, InSection
<1> QED BY <1>0, <1>5, <1>7, <1>8, GoesOn DEF PCs, TypeInv

LEMMA ReadBPreserves == ASSUME IInv, NEW t \in Threads, ReadB(t) PROVE IInv'
<1>0. /\ th[t].pc = "readB" /\ TypeInv /\ th[t] \in ThreadStates /\ GuardAt(t) /\ ReadAt(t)
      /\ UNCHANGED <<cfg, ver, rw, a, b, tail, parent, done>>
    BY ThreadType DEF ReadB, At, data
<1> DEFINE s == Halves(th[t].seen.a, b)
           p == CASE Use(t) = "read" -> "validate" [] Use(t) = "retire" -> "latchParent" [] OTHER -> "upgrade"
           me == [th[t] EXCEPT !.seen = s, !.pc = p]
<1>1. s \in [a : Nat, b : Nat] /\ s.a = th[t].seen.a /\ s.b = b
    BY <1>0 DEF TypeInv, Halves, ThreadStates
<1>2. p \in {"validate", "latchParent", "upgrade"} /\ (p # "validate" => Use(t) # "read")
    OBVIOUS
<1>3. Becomes(t, me)
    BY DEF ReadB
<1> HIDE DEF s, p
<1>4. me \in ThreadStates
    BY <1>0, <1>1, <1>2 DEF ThreadStates, PCs
<1>5. me.pc = p /\ me.todo = th[t].todo /\ me.guard = th[t].guard /\ me.seen = s
    BY <1>0 DEF ThreadStates
<1>6. Turns(t, p, th[t].guard, s)
    BY <1>0, <1>3, <1>4, <1>5, BecomesEffect DEF Turns
<1>7. th'[t].pc = p /\ th'[t].guard = th[t].guard /\ Kind(t)' = Kind(t) /\ Use(t)' = Use(t) /\ th'[t].seen = s
    BY <1>6 DEF Turns, Kind, Use
<1>8. ReadAt(t)'
    <2>1. Sound(t)' => Sound(t)
        BY <1>0, <1>7 DEF Sound, Kind, Held, ReadLock
    <2> QED BY <1>0, <1>1, <1>2, <1>7, <2>1 DEF ReadAt
<1>9. GuardAt(t)'
    BY <1>0, <1>2, <1>7 DEF GuardAt, InSection
<1>10. p \in PCs
    BY <1>2 DEF PCs
<1> QED BY <1>0, <1>2, <1>6, <1>8, <1>9, <1>10, GoesOn DEF TypeInv

(* A guard that is found valid vouches for the halves as they are.          *)
LEMMA ValidIsSound ==
    ASSUME IInv, NEW t \in Threads, IsValid(th[t].guard)
    PROVE  Sound(t)
BY DEF IsValid, IsReadValid, Sound, Kind, Held

LEMMA ValidatePreserves == ASSUME IInv, NEW t \in Threads, Validate(t) PROVE IInv'
<1>0. th[t].pc = "validate" /\ TypeInv /\ GuardAt(t) /\ ReadAt(t) /\ UseAt(t)
    BY ThreadType DEF Validate, At
<1>1. CASE IsValid(th[t].guard)
    <2>1. Goto(t, "accepted") /\ UNCHANGED <<cfg, ver, rw, a, b, tail, parent, done>>
        BY <1>1 DEF Validate, data
    <2>2. Turns(t, "accepted", th[t].guard, th[t].seen)
        BY <1>0, <2>1, GotoEffect DEF PCs
    <2>3. th'[t].pc = "accepted" /\ Kind(t)' = Kind(t) /\ th'[t].seen = th[t].seen
        BY <2>2 DEF Turns, Kind
    <2>4. GuardAt(t)'
        BY <1>0, <2>3 DEF GuardAt, InSection
    <2>5. a = b
        <3> SUFFICES \A u \in Threads : ~Torn(u)
            BY DEF IInv, DataInv
        <3> SUFFICES ASSUME NEW u \in Threads, Torn(u) PROVE FALSE
            OBVIOUS
        <3>1. InSection(u) /\ ~Appends(u) /\ u # t
            BY <1>0 DEF Torn, InSection
        <3> QED BY <1>0, <1>1, <3>1, ValidIsSound, NoReaderBeside
    <2>6. ReadAt(t)'
        BY <1>0, <1>1, <2>3, <2>5, ValidIsSound DEF ReadAt
    <2> QED BY <1>0, <2>1, <2>2, <2>4, <2>6, GoesOn DEF PCs, TypeInv
<1>2. CASE ~IsValid(th[t].guard)
    BY <1>0, <1>2, FailStep DEF Validate
<1> QED BY <1>1, <1>2

LEMMA AcceptPreserves == ASSUME IInv, NEW t \in Threads, Accept(t) PROVE IInv'
<1>0. /\ th[t].pc = "accepted" /\ TypeInv /\ Goto(t, "drop")
      /\ UNCHANGED <<cfg, ver, rw, a, b, tail, parent, done>>
    BY ThreadType DEF Accept, At, data
<1>1. Turns(t, "drop", th[t].guard, th[t].seen)
    BY <1>0, GotoEffect DEF PCs
<1>2. GuardAt(t)' /\ ReadAt(t)'
    BY <1>1 DEF GuardAt, ReadAt, Turns, InSection
<1> QED BY <1>0, <1>1, <1>2, GoesOn DEF PCs, TypeInv

LEMMA LatchParentPreserves == ASSUME IInv, NEW t \in Threads, LatchParent(t) PROVE IInv'
<1>0. th[t].pc = "latchParent" /\ TypeInv /\ GuardAt(t)
    BY ThreadType DEF LatchParent, At
<1>1. CASE parent = "linked"
    <2>1. Goto(t, "upgrade") /\ parent' = "latched" /\ UNCHANGED <<cfg, ver, rw, a, b, tail, done>>
        BY <1>1 DEF LatchParent
    <2>2. Turns(t, "upgrade", th[t].guard, th[t].seen)
        BY <1>0, <2>1, GotoEffect DEF PCs
    <2>3. GuardAt(t)' /\ ReadAt(t)'
        BY <1>0, <2>2 DEF GuardAt, ReadAt, Turns, InSection, Kind
    <2> QED BY <1>0, <2>1, <2>2, <2>3, GoesOn DEF PCs
<1>2. CASE parent # "linked"
    BY <1>0, <1>2, FailStep DEF LatchParent
<1> QED BY <1>1, <1>2
---------------------------------------------------------------------------
(* Upgrading and downgrading.                                               *)

LEMMA DowngradePreserves == ASSUME IInv, NEW t \in Threads, Downgrade(t) PROVE IInv'
<1>0. /\ th[t].pc = "downgrade" /\ UNCHANGED <<cfg, a, b, tail, parent, done>>
      /\ TypeInv /\ ver \in Versions /\ Held(t) \in Versions
      /\ GuardAt(t) /\ LatchAt(t) /\ HolderAt(t) /\ UseAt(t)
    BY ThreadType DEF Downgrade, At, data
<1>1. Kind(t) \in (Exclusive \cup {"appendPin"}) \ {"olcWriter"} /\ Use(t) = "read"
    BY <1>0 DEF GuardAt
<1>2. CASE Kind(t) = "appendPin" /\ Latch = "olc"
    <2> DEFINE v == Unpinned(Held(t))
               g == Guard("olcReader", v)
    <2>1. ver' = v /\ Holds(t, g, "readA") /\ rw' = rw
        BY <1>2 DEF Downgrade, Kind, Held
    <2>2. ver = Held(t) /\ ver.pin
        BY <1>0, <1>2 DEF HolderAt
    <2>3. ReadLock(ver)
        BY <2>2 DEF IInv, VersionInv
    <2>4. /\ v \in Versions /\ ReadLock(v) /\ ~v.pin /\ v.n = ver.n /\ v.n <= ver.n
        BY <2>2, <2>3, FreshVersion
    <2>5. g \in Guards /\ g.kind = "olcReader" /\ g.latch = v
        BY <2>4, GuardType DEF Kinds
    <2>6. Unpinned(v) = Unpinned(ver)
        BY <1>0, <2>2 DEF Unpinned, Versions
    <2> HIDE DEF v, g
    <2>7. Turns(t, "readA", g, th[t].seen)
        BY <1>0, <2>1, <2>5, HoldsEffect DEF PCs
    <2>8. /\ th' \in [Threads -> ThreadStates] /\ OthersStay(t) /\ Kind(t)' = "olcReader" /\ Held(t)' = v
          /\ Use(t)' = Use(t) /\ FirstAt(t)' /\ ReadAt(t)' /\ UseAt(t)'
        BY <1>0, <2>5, <2>7, Elsewhere DEF PCs
    <2>9. th'[t].pc = "readA" /\ Latch' = "olc"
        BY <1>0, <1>2, <2>7 DEF Turns, Latch
    <2>10. \A u \in Threads \ {t} : Kind(u) \notin Holding
        BY <1>2 DEF IInv, VersionInv, Holding
    <2>11. LatchAt(t)' /\ GuardAt(t)' /\ HolderAt(t)'
        BY <2>8, <2>9 DEF LatchAt, GuardAt, HolderAt, InSection
    <2>12. \A u \in Threads : Kind(u)' # "olcWriter"
        BY <2>8, <2>10 DEF OthersStay, Kind, Holding
    <2>13. CounterAt(t)'
        BY <2>1, <2>4, <2>8, <2>12 DEF CounterAt, ReadLock
    <2>14. \A u \in Threads \ {t} : CounterAt(u) /\ th'[u] = th[u]
        BY <2>8 DEF IInv, CounterInv, OthersStay
    <2>15. \A u \in Threads \ {t} : Remembers(u) => ver'.obsolete \/ Held(u).n <= ver'.n
        BY <2>1, <2>3, <2>4, <2>14 DEF CounterAt, ReadLock
    <2>16. \A u \in Threads \ {t} : Sound(u)' => Sound(u)
        BY <2>1, <2>3, <2>6, <2>14 DEF Sound, Kind, Held
    <2>17. LockInv'
        BY <1>2, <2>1, <2>8, LockStays DEF Readers, Writers
    <2>18. /\ ver' \in Versions /\ (ver'.pin => ReadLock(ver'))
           /\ rw' \in [readers : SUBSET Threads, writer : SUBSET Threads]
        BY <1>0, <2>1, <2>4 DEF TypeInv
    <2> QED BY <1>0, <2>8, <2>9, <2>10, <2>11, <2>13, <2>15, <2>16, <2>17, <2>18, MovedVersionStep DEF TypeInv
<1>3. CASE Kind(t) = "rwWriter"
    <2> DEFINE g == Guard("rwReader", Zero)
    <2>1. rw' = [readers |-> {t}, writer |-> {}] /\ Holds(t, g, "readA") /\ ver' = ver
        BY <1>3 DEF Downgrade, Kind
    <2>2. g \in Guards /\ g.kind = "rwReader"
        BY ZeroType, GuardType DEF Kinds
    <2> HIDE DEF g
    <2>3. Turns(t, "readA", g, th[t].seen)
        BY <1>0, <2>1, <2>2, HoldsEffect DEF PCs
    <2>4. rw.readers = {} /\ \A u \in Threads \ {t} : Kind(u) \notin Readers \cup Writers
        BY <1>3 DEF IInv, LockInv, Writers
    <2>5. Kind(t)' = "rwReader" /\ \A u \in Threads \ {t} : Kind(u)' = Kind(u)
        BY <2>2, <2>3 DEF Turns, OthersStay, Kind
    <2>6. rw'.readers = {t} /\ rw'.writer = {}
        BY <2>1
    <2>7. LockInv'
        BY <2>4, <2>5, <2>6 DEF LockInv, Readers, Writers
    <2>8. rw' \in [readers : SUBSET Threads, writer : SUBSET Threads]
        BY <2>1
    <2>9. Latch = "readersWriter" /\ Kind(t) \notin Holding
        BY <1>0, <1>3 DEF LatchAt, Holding
    <2> QED BY <1>0, <2>1, <2>2, <2>3, <2>7, <2>8, <2>9, LockStep DEF PCs
<1>4. CASE ~(Kind(t) = "appendPin" /\ Latch = "olc") /\ Kind(t) # "rwWriter"
    <2>1. Goto(t, "readA") /\ UNCHANGED <<ver, rw>>
        BY <1>4 DEF Downgrade, Kind
    <2>2. Turns(t, "readA", th[t].guard, th[t].seen)
        BY <1>0, <2>1, GotoEffect DEF PCs
    <2>3. th'[t].pc = "readA" /\ Kind(t)' = Kind(t) /\ Use(t)' = Use(t)
        BY <2>2 DEF Turns, Kind, Use
    <2>4. GuardAt(t)' /\ ReadAt(t)'
        BY <1>1, <2>3 DEF GuardAt, ReadAt, InSection, Exclusive
    <2> QED BY <1>0, <2>1, <2>2, <2>4, GoesOn DEF PCs, TypeInv
<1> QED BY <1>2, <1>3, <1>4

LEMMA UpgradeWriteLockPreserves ==
    ASSUME IInv, NEW t \in Threads, th[t].pc = "upgrade", UpgradeWriteLock(t),
           Appends(t) => Kind(t) # "readerPin" /\ ~(Kind(t) = "olcReader" /\ Latch # "hybrid")
    PROVE  IInv'
<1>0. /\ TypeInv /\ ver \in Versions /\ Held(t) \in Versions /\ Kind(t) \in Kinds
      /\ GuardAt(t) /\ LatchAt(t) /\ HolderAt(t) /\ CounterAt(t)
    BY ThreadType
<1>1. Kind(t) \notin {"none", "olcWriter", "hybridReader", "appendPin"}
    BY <1>0 DEF GuardAt
<1>2. CASE Kind(t) \in Exclusive
    <2>1. Goto(t, "locked") /\ UNCHANGED <<cfg, ver, rw, a, b, tail, parent, done>>
        BY <1>2 DEF UpgradeWriteLock, Kind, data, Exclusive
    <2>2. Turns(t, "locked", th[t].guard, th[t].seen)
        BY <1>0, <2>1, GotoEffect DEF PCs
    <2>3. th'[t].pc = "locked" /\ Kind(t)' = Kind(t)
        BY <2>2 DEF Turns, Kind
    <2>4. GuardAt(t)' /\ ReadAt(t)'
        BY <1>1, <1>2, <2>3 DEF GuardAt, ReadAt, InSection
    <2> QED BY <1>0, <2>1, <2>2, <2>4, GoesOn DEF PCs, TypeInv
<1>3. CASE Kind(t) = "rwReader"
    <2>1. rw' = Unlocked(t) /\ Holds(t, NoGuard, "tryWrite") /\ UNCHANGED <<cfg, ver, a, b, tail, parent, done>>
        BY <1>3 DEF UpgradeWriteLock, UnlockRead, Kind, data, Exclusive
    <2>2. Turns(t, "tryWrite", NoGuard, th[t].seen)
        BY <1>0, <2>1, ZeroType, HoldsEffect DEF PCs
    <2>3. LockInv'
        BY <2>1, <2>2, ZeroType, LockReleased DEF Turns, Kind, Readers, Writers
    <2>4. Latch = "readersWriter" /\ Kind(t) \notin Holding
        BY <1>0, <1>3 DEF LatchAt, Holding
    <2> QED BY <1>0, <2>1, <2>2, <2>3, <2>4, ZeroType, LockTypes, LockStep DEF PCs
<1>4. CASE Kind(t) = "readerPin"
    <2> DEFINE g == Guard("olcWriter", ver')
    <2>1. ver' = WriteFlag(Held(t)) /\ Holds(t, g, "locked") /\ UNCHANGED <<cfg, rw, a, b, tail, parent, done>>
        BY <1>4 DEF UpgradeWriteLock, UpgradePin, Kind, Held, data, Exclusive
    <2>2. ver = Held(t) /\ ver.pin
        BY <1>0, <1>4 DEF HolderAt
    <2>3. ~ver.obsolete /\ ~ver.write
        BY <2>2 DEF IInv, VersionInv, ReadLock
    <2>4. ver' \in Versions /\ ver'.n = ver.n /\ ver'.write /\ ~ver'.pin /\ ver'.obsolete = ver.obsolete
        BY <1>0, <2>1, <2>2, VersionFacts
    <2>5. g \in Guards /\ g.kind = "olcWriter" /\ g.latch = ver'
        BY <2>4, GuardType DEF Kinds
    <2> HIDE DEF g
    <2>6. Turns(t, "locked", g, th[t].seen)
        BY <1>0, <2>1, <2>5, HoldsEffect DEF PCs
    <2>7. LockInv'
        BY <1>4, <2>1, <2>5, <2>6, LockStays DEF Turns, Kind, Readers, Writers
    <2>8. \A u \in Threads \ {t} : Kind(u) \notin Holding
        BY <1>4 DEF IInv, VersionInv, Holding
    <2>9. rw' \in [readers : SUBSET Threads, writer : SUBSET Threads]
        BY <1>0, <2>1 DEF TypeInv
    <2>10. Latch = "lightweight" /\ ~Appends(t)
        BY <1>0, <1>4 DEF LatchAt
    <2> QED BY <2>1, <2>3, <2>4, <2>5, <2>6, <2>7, <2>8, <2>9, <2>10, TakeStep
<1>5. CASE Kind(t) = "olcReader" /\ Latch = "hybrid"
    <2>0. UpgradeHybrid(t)
        BY <1>5 DEF UpgradeWriteLock, Kind, Exclusive
    <2>1. CASE Free /\ ReadLock(ver)
        <3> DEFINE g == Guard("hybridWriter", ver')
        <3>1. /\ rw' = Writing(t) /\ ver' = WriteFlag(ver) /\ Holds(t, g, "locked")
              /\ UNCHANGED <<cfg, a, b, tail, parent, done>>
            BY <2>0, <2>1 DEF UpgradeHybrid, data
        <3>2. ver' \in Versions /\ ver'.n = ver.n /\ ver'.write /\ ~ver'.pin /\ ver'.obsolete = ver.obsolete
            BY <1>0, <3>1, VersionFacts
        <3>3. g \in Guards /\ g.kind = "hybridWriter" /\ g.latch = ver'
            BY <3>2, GuardType DEF Kinds
        <3> HIDE DEF g
        <3>4. Turns(t, "locked", g, th[t].seen)
            BY <1>0, <3>1, <3>3, HoldsEffect DEF PCs
        <3>5. LockInv'
            BY <2>1, <3>1, <3>3, <3>4, LockWrite DEF Turns, Kind, Writers
        <3>6. \A u \in Threads \ {t} : Kind(u) \notin Holding
            BY <1>5, <2>1, FreeVersion
        <3>7. ~ver.obsolete /\ ~ver.write
            BY <2>1 DEF ReadLock
        <3>8. rw' \in [readers : SUBSET Threads, writer : SUBSET Threads]
            BY <1>0, <3>1, LockTypes
        <3> QED BY <1>5, <3>1, <3>2, <3>3, <3>4, <3>5, <3>6, <3>7, <3>8, TakeStep
    <2>2. CASE ~(Free /\ ReadLock(ver))
        BY <2>0, <2>2, FailStep DEF UpgradeHybrid
    <2> QED BY <2>1, <2>2
<1>6. CASE Kind(t) = "olcReader" /\ Latch # "hybrid"
    <2>0. UpgradeOptimistic(t)
        BY <1>6 DEF UpgradeWriteLock, Kind, Exclusive
    <2>1. CASE ver = Held(t)
        <3> DEFINE g == Guard("olcWriter", ver')
        <3>1. /\ ver' = WriteFlag(ver) /\ Holds(t, g, "locked")
              /\ UNCHANGED <<cfg, rw, a, b, tail, parent, done>>
            BY <2>0, <2>1 DEF UpgradeOptimistic, Held, data
        <3>2. ver' \in Versions /\ ver'.n = ver.n /\ ver'.write /\ ~ver'.pin /\ ver'.obsolete = ver.obsolete
            BY <1>0, <3>1, VersionFacts
        <3>3. g \in Guards /\ g.kind = "olcWriter" /\ g.latch = ver'
            BY <3>2, GuardType DEF Kinds
        <3> HIDE DEF g
        <3>4. Turns(t, "locked", g, th[t].seen)
            BY <1>0, <3>1, <3>3, HoldsEffect DEF PCs
        <3>5. LockInv'
            BY <1>6, <3>1, <3>3, <3>4, LockStays DEF Turns, Kind, Readers, Writers
        <3>6. ReadLock(ver) /\ ~ver.pin
            BY <1>0, <1>6, <2>1 DEF CounterAt, Remembers
        <3>7. \A u \in Threads \ {t} : Kind(u) \notin Holding
            BY <3>6, FreeVersion
        <3>8. ~ver.obsolete /\ ~ver.write
            BY <3>6 DEF ReadLock
        <3>9. rw' \in [readers : SUBSET Threads, writer : SUBSET Threads]
            BY <1>0, <3>1 DEF TypeInv
        <3>10. Latch \in {"olc", "lightweight"} /\ ~Appends(t)
            BY <1>0, <1>6 DEF LatchAt
        <3> QED BY <3>1, <3>2, <3>3, <3>4, <3>5, <3>7, <3>8, <3>9, <3>10, TakeStep
    <2>2. CASE ver # Held(t)
        BY <2>0, <2>2, FailStep DEF UpgradeOptimistic, Held
    <2> QED BY <2>1, <2>2
<1> QED BY <1>0, <1>1, <1>2, <1>3, <1>4, <1>5, <1>6 DEF Kinds, Exclusive

LEMMA UpgradePreserves == ASSUME IInv, NEW t \in Threads, Upgrade(t) PROVE IInv'
<1>0. /\ th[t].pc = "upgrade" /\ TypeInv /\ ver \in Versions /\ Held(t) \in Versions
      /\ GuardAt(t) /\ LatchAt(t) /\ HolderAt(t)
    BY ThreadType DEF Upgrade, At
<1>1. CASE ~Appends(t)
    BY <1>0, <1>1, UpgradeWriteLockPreserves DEF Upgrade, Appends
<1>2. CASE Appends(t)
    <2>0. UpgradeAppendLock(t)
        BY <1>2 DEF Upgrade, Appends
    <2>1. CASE Kind(t) = "olcReader" /\ Latch # "hybrid"
        <3>1. CASE MayPin(ver)
            <4> DEFINE g == Guard("none", ver)
            <4>1. Holds(t, g, "pinAppend") /\ UNCHANGED <<cfg, ver, rw, a, b, tail, parent, done>>
                BY <2>0, <2>1, <3>1 DEF UpgradeAppendLock, Kind, data
            <4>2. g \in Guards /\ g.kind = "none" /\ g.latch = ver
                BY <1>0, GuardType DEF Kinds
            <4> HIDE DEF g
            <4>3. Turns(t, "pinAppend", g, th[t].seen)
                BY <1>0, <4>1, <4>2, HoldsEffect DEF PCs
            <4>4. ReadLock(ver) /\ ~ver.pin
                BY <3>1 DEF MayPin
            <4>5. ver.n <= ver.n
                BY <1>0 DEF Versions
            <4>6. Latch \in {"olc", "lightweight"} /\ Use(t) = "append" /\ Kind(t) \notin Holding \cup Readers \cup Writers
                BY <1>0, <1>2, <2>1 DEF LatchAt, Appends, Holding, Readers, Writers
            <4> QED BY <1>0, <4>1, <4>2, <4>3, <4>4, <4>5, <4>6, FreshVersion, OptimisticStep
        <3>2. CASE ~MayPin(ver)
            BY <1>0, <2>0, <2>1, <3>2, FailStep DEF UpgradeAppendLock, Kind
        <3> QED BY <3>1, <3>2
    <2>2. CASE Kind(t) = "readerPin"
        <3> DEFINE g == Guard("appendPin", Held(t))
        <3>1. Holds(t, g, "locked") /\ UNCHANGED <<cfg, ver, rw, a, b, tail, parent, done>>
            BY <2>0, <2>2 DEF UpgradeAppendLock, Kind, Held, data
        <3>2. ver = Held(t) /\ ver.pin
            BY <1>0, <2>2 DEF HolderAt
        <3>3. ~ver.obsolete /\ ~ver.write
            BY <3>2 DEF IInv, VersionInv, ReadLock
        <3>4. g \in Guards /\ g.kind = "appendPin" /\ g.latch = ver
            BY <1>0, <3>2, GuardType DEF Kinds
        <3> HIDE DEF g
        <3>5. Turns(t, "locked", g, th[t].seen)
            BY <1>0, <3>1, <3>4, HoldsEffect DEF PCs
        <3>6. LockInv'
            BY <2>2, <3>1, <3>4, <3>5, LockStays DEF Turns, Kind, Readers, Writers
        <3>7. \A u \in Threads \ {t} : Kind(u) \notin Holding
            BY <2>2 DEF IInv, VersionInv, Holding
        <3>8. rw' \in [readers : SUBSET Threads, writer : SUBSET Threads]
            BY <1>0, <3>1 DEF TypeInv
        <3>9. Latch = "lightweight"
            BY <1>0, <2>2 DEF LatchAt
        <3>10. ver' = ver /\ UNCHANGED <<cfg, a, b, tail, parent, done>>
            BY <3>1
        <3> QED BY <1>0, <1>2, <3>2, <3>3, <3>4, <3>5, <3>6, <3>7, <3>8, <3>9, <3>10, TakeStep
    <2>3. CASE Kind(t) # "readerPin" /\ ~(Kind(t) = "olcReader" /\ Latch # "hybrid")
        <3>1. UpgradeWriteLock(t)
            BY <2>0, <2>3 DEF UpgradeAppendLock, Kind
        <3> QED BY <1>0, <2>3, <3>1, UpgradeWriteLockPreserves
    <2> QED BY <2>1, <2>2, <2>3
<1> QED BY <1>1, <1>2
---------------------------------------------------------------------------
(* Writing, appending and retiring.                                         *)

LEMMA LookPreserves == ASSUME IInv, NEW t \in Threads, Look(t) PROVE IInv'
<1>0. /\ th[t].pc = "locked" /\ TypeInv /\ th[t] \in ThreadStates /\ GuardAt(t) /\ UseAt(t)
      /\ UNCHANGED <<cfg, ver, rw, a, b, tail, parent, done>>
    BY ThreadType DEF Look, At, data
<1> DEFINE s == IF Appends(t) THEN Halves(tail, 0) ELSE Halves(a, b)
           me == [th[t] EXCEPT !.pc = "first", !.seen = s]
<1>1. /\ s \in [a : Nat, b : Nat]
      /\ Appends(t) => s.a = tail
      /\ ~Appends(t) => s.a = a /\ s.b = b
    BY <1>0 DEF TypeInv, Halves
<1>2. Becomes(t, me)
    BY DEF Look
<1> HIDE DEF s
<1>3. me \in ThreadStates
    BY <1>0, <1>1 DEF ThreadStates, PCs
<1>4. me.pc = "first" /\ me.todo = th[t].todo /\ me.guard = th[t].guard /\ me.seen = s
    BY <1>0 DEF ThreadStates
<1>5. Turns(t, "first", th[t].guard, s)
    BY <1>0, <1>2, <1>3, <1>4, BecomesEffect DEF Turns
<1>6. /\ th' \in [Threads -> ThreadStates] /\ OthersStay(t) /\ Kind(t)' = Kind(t)
      /\ Use(t)' = Use(t) /\ ReadAt(t)' /\ UseAt(t)'
    BY <1>0, <1>5, Elsewhere DEF PCs, Kind
<1>7. th'[t].pc = "first" /\ th'[t].guard = th[t].guard /\ th'[t].seen = s
    BY <1>5 DEF Turns
<1>8. GuardAt(t)'
    BY <1>0, <1>6, <1>7 DEF GuardAt, InSection, Appends
<1>9. FirstAt(t)'
    BY <1>0, <1>1, <1>6, <1>7 DEF FirstAt, Appends
<1> QED BY <1>0, <1>6, <1>7, <1>8, <1>9, QuietStep DEF TypeInv

(* The mark takes the cell away from everybody who remembers its version.   *)
LEMMA MarkStep ==
    ASSUME IInv, NEW t \in Threads, NEW g \in Guards, th[t].pc = "locked", Use(t) = "retire",
           Kind(t) \in {"olcWriter", "hybridWriter"}, g.kind = Kind(t),
           Becomes(t, [th[t] EXCEPT !.pc = "first", !.seen = Halves(a, b), !.guard = g]),
           UNCHANGED <<cfg, rw, a, b, tail, parent, done>>,
           ver' \in Versions, ver'.obsolete, ~ver'.pin,
           \/ Kind(t) = "olcWriter" /\ Latch = "olc" /\ ver' = Version(0, FALSE, FALSE, TRUE) /\ g = th[t].guard
           \/ Kind(t) = "olcWriter" /\ Latch = "lightweight" /\ ver' = Version(0, FALSE, FALSE, TRUE) /\ g.latch = Zero
           \/ Kind(t) = "hybridWriter" /\ ver' = g.latch /\ ver'.write
    PROVE  IInv'
<1>0. /\ TypeInv /\ th[t] \in ThreadStates /\ GuardAt(t) /\ LatchAt(t) /\ HolderAt(t) /\ UseAt(t)
    BY ThreadType
<1> DEFINE s == Halves(a, b)
           me == [th[t] EXCEPT !.pc = "first", !.seen = s, !.guard = g]
<1>1. s \in [a : Nat, b : Nat] /\ s.a = a /\ s.b = b
    BY <1>0 DEF TypeInv, Halves
<1> HIDE DEF s
<1>2. me \in ThreadStates
    BY <1>0, <1>1 DEF ThreadStates, PCs
<1>3. me.pc = "first" /\ me.todo = th[t].todo /\ me.guard = g /\ me.seen = s
    BY <1>0 DEF ThreadStates
<1>4. Turns(t, "first", g, s)
    BY <1>0, <1>2, <1>3, BecomesEffect DEF Turns, s
<1>5. /\ th' \in [Threads -> ThreadStates] /\ OthersStay(t) /\ Kind(t)' = Kind(t) /\ Held(t)' = g.latch
      /\ Use(t)' = Use(t) /\ ReadAt(t)' /\ UseAt(t)'
    BY <1>0, <1>4, Elsewhere DEF PCs
<1>6. th'[t].pc = "first" /\ th'[t].seen = s /\ Latch' = Latch
    BY <1>4 DEF Turns, Latch
<1>7. GuardAt(t)' /\ LatchAt(t)' /\ CounterAt(t)'
    BY <1>0, <1>5, <1>6 DEF GuardAt, LatchAt, CounterAt, Remembers, InSection, Appends
<1>8. FirstAt(t)'
    BY <1>1, <1>5, <1>6 DEF FirstAt, Appends
<1>9. HolderAt(t)'
    <2>1. CASE Kind(t) = "olcWriter" /\ Latch = "olc" /\ ver' = Version(0, FALSE, FALSE, TRUE) /\ g = th[t].guard
        <3>1. Held(t)' = Held(t)
            BY <1>5, <2>1 DEF Held
        <3>2. Held(t).write /\ ~Held(t).pin /\ ~Held(t).obsolete
            BY <1>0, <2>1 DEF HolderAt
        <3> QED BY <1>5, <1>6, <2>1, <3>1, <3>2 DEF HolderAt, Marked
    <2>2. CASE Kind(t) = "olcWriter" /\ Latch = "lightweight" /\ ver' = Version(0, FALSE, FALSE, TRUE) /\ g.latch = Zero
        BY <1>5, <1>6, <2>2 DEF HolderAt, Marked
    <2>3. CASE Kind(t) = "hybridWriter" /\ ver' = g.latch /\ ver'.write
        BY <1>5, <1>6, <2>3 DEF HolderAt
    <2> QED BY <2>1, <2>2, <2>3
<1>10. \A u \in Threads \ {t} : Kind(u) \notin Holding
    BY DEF IInv, VersionInv, Holding
<1>11. Kind(t)' = "olcWriter" /\ Latch = "olc" =>
            \A u \in Threads \ {t} : Remembers(u) => Held(u).n <= Held(t)'.n
    BY <1>5 DEF IInv, CounterInv, CounterAt, Held
<1>12. \A u \in Threads \ {t} : Sound(u)' => Sound(u)
    BY <1>5 DEF OthersStay, Sound, Kind, ReadLock
<1>13. LockInv'
    BY <1>5, LockStays
<1>14. rw' \in [readers : SUBSET Threads, writer : SUBSET Threads] /\ parent' \in {"linked", "latched", "unlinked"}
    BY <1>0 DEF TypeInv
<1> QED BY <1>5, <1>6, <1>7, <1>8, <1>9, <1>10, <1>11, <1>12, <1>13, <1>14, MovedVersionStep

(* A guard without a version goes on as it is.                              *)
LEMMA UnmarkedStep ==
    ASSUME IInv, NEW t \in Threads, th[t].pc = "locked", Use(t) = "retire",
           Becomes(t, [th[t] EXCEPT !.pc = "first", !.seen = Halves(a, b)]),
           UNCHANGED <<cfg, ver, rw, a, b, tail, parent, done>>
    PROVE  IInv'
<1>0. TypeInv /\ th[t] \in ThreadStates /\ GuardAt(t) /\ UseAt(t)
    BY ThreadType
<1> DEFINE s == Halves(a, b)
           me == [th[t] EXCEPT !.pc = "first", !.seen = s]
<1>1. s \in [a : Nat, b : Nat] /\ s.a = a /\ s.b = b
    BY <1>0 DEF TypeInv, Halves
<1>2. Becomes(t, me)
    OBVIOUS
<1> HIDE DEF s
<1>3. me \in ThreadStates
    BY <1>0, <1>1 DEF ThreadStates, PCs
<1>4. me.pc = "first" /\ me.todo = th[t].todo /\ me.guard = th[t].guard /\ me.seen = s
    BY <1>0 DEF ThreadStates
<1>5. Turns(t, "first", th[t].guard, s)
    BY <1>0, <1>2, <1>3, <1>4, BecomesEffect DEF Turns
<1>6. /\ th' \in [Threads -> ThreadStates] /\ OthersStay(t) /\ Kind(t)' = Kind(t)
      /\ Use(t)' = Use(t) /\ ReadAt(t)' /\ UseAt(t)'
    BY <1>0, <1>5, Elsewhere DEF PCs, Kind
<1>7. th'[t].pc = "first" /\ th'[t].guard = th[t].guard /\ th'[t].seen = s
    BY <1>5 DEF Turns
<1>8. GuardAt(t)'
    BY <1>0, <1>6, <1>7 DEF GuardAt, InSection, Appends
<1>9. FirstAt(t)'
    BY <1>0, <1>1, <1>6, <1>7 DEF FirstAt, Appends
<1> QED BY <1>0, <1>6, <1>7, <1>8, <1>9, QuietStep DEF TypeInv

LEMMA MarkObsoletePreserves == ASSUME IInv, NEW t \in Threads, MarkObsolete(t) PROVE IInv'
<1>0. /\ th[t].pc = "locked" /\ Use(t) = "retire" /\ TypeInv /\ th[t] \in ThreadStates
      /\ th[t].guard \in Guards /\ Held(t) \in Versions /\ HolderAt(t)
      /\ UNCHANGED <<cfg, rw, a, b, tail, parent, done>>
    BY ThreadType DEF MarkObsolete, At, data
<1> DEFINE mark == Version(0, FALSE, FALSE, TRUE)
<1>1. mark \in Versions /\ mark.obsolete /\ ~mark.pin
    BY DEF Version, Versions
<1>2. CASE Kind(t) = "olcWriter" /\ Latch = "olc" /\ ver' = mark
           /\ Becomes(t, [th[t] EXCEPT !.pc = "first", !.seen = Halves(a, b)])
    <2>1. th[t].guard.kind = Kind(t)
        BY DEF Kind
    <2>2. [th[t] EXCEPT !.pc = "first", !.seen = Halves(a, b)]
              = [th[t] EXCEPT !.pc = "first", !.seen = Halves(a, b), !.guard = th[t].guard]
        BY <1>0 DEF ThreadStates
    <2> QED BY <1>0, <1>1, <1>2, <2>1, <2>2, MarkStep
<1>3. CASE Kind(t) = "olcWriter" /\ Latch = "lightweight" /\ ver' = mark
           /\ Becomes(t, [th[t] EXCEPT !.pc = "first", !.seen = Halves(a, b), !.guard = Guard(Kind(t), Zero)])
    <2>1. Guard(Kind(t), Zero) \in Guards /\ Guard(Kind(t), Zero).kind = Kind(t) /\ Guard(Kind(t), Zero).latch = Zero
        BY <1>3, ZeroType, GuardType DEF Kinds
    <2> QED BY <1>0, <1>1, <1>3, <2>1, MarkStep
<1>4. CASE Kind(t) = "hybridWriter" /\ ver' = [Held(t) EXCEPT !.obsolete = TRUE]
           /\ Becomes(t, [th[t] EXCEPT !.pc = "first", !.seen = Halves(a, b), !.guard = Guard(Kind(t), ver')])
    <2>1. ver' \in Versions /\ ver'.obsolete /\ ver'.pin = Held(t).pin /\ ver'.write = Held(t).write
        <3>1. ver' \in Versions
            BY <1>0, <1>4, VersionFacts
        <3>2. ver'.obsolete /\ ver'.pin = Held(t).pin /\ ver'.write = Held(t).write
            BY <1>0, <1>4 DEF Versions
        <3> QED BY <3>1, <3>2
    <2>2. ~ver'.pin /\ ver'.write
        BY <1>0, <1>4, <2>1 DEF HolderAt
    <2>3. Guard(Kind(t), ver') \in Guards /\ Guard(Kind(t), ver').kind = Kind(t) /\ Guard(Kind(t), ver').latch = ver'
        BY <1>4, <2>1, GuardType DEF Kinds
    <2> QED BY <1>0, <1>4, <2>1, <2>2, <2>3, MarkStep
<1>5. CASE UNCHANGED ver /\ Becomes(t, [th[t] EXCEPT !.pc = "first", !.seen = Halves(a, b)])
    BY <1>0, <1>5, UnmarkedStep
<1> QED BY <1>2, <1>3, <1>4, <1>5 DEF MarkObsolete, Kind, Held

(* The cell's latches are left alone by a step that keeps its guard.        *)
LEMMA LatchesStay ==
    ASSUME IInv, NEW t \in Threads, OthersStay(t), UNCHANGED <<cfg, ver, rw>>,
           th'[t].guard = th[t].guard, th'[t].pc \notin {"pin", "pinAppend"},
           UseAt(t)', GuardAt(t)'
    PROVE  ThreadInv' /\ LockInv' /\ VersionInv' /\ CounterInv'
<1>1. LockInv'
    BY LockStays DEF Kind
<1>2. LatchAt(t)'
    BY DEF IInv, ThreadInv, LatchAt, Kind, Latch
<1>3. ThreadInv'
    BY <1>2, ThreadStays
<1>4. VersionInv'
    BY VersionStays
<1>5. CounterInv'
    <2>1. \A u \in Threads : CounterAt(u)
        BY DEF IInv, CounterInv
    <2>2. \A u \in Threads : th'[u].guard = th[u].guard
        BY DEF OthersStay
    <2>3. \A u \in Threads : Remembers(u)' => Remembers(u)
        BY <2>2 DEF Remembers, Kind, OthersStay
    <2> QED BY <2>1, <2>2, <2>3 DEF CounterInv, CounterAt, Kind, Held, Latch, ReadLock
<1> QED BY <1>1, <1>3, <1>4, <1>5

(* The writer is alone in its section, and the data are as it knows them.   *)
LEMMA WriterAlone ==
    ASSUME IInv, NEW t \in Threads, InSection(t)
    PROVE  /\ \A u \in Threads \ {t} : ~InSection(u) /\ ~Torn(u) /\ ~Extended(u) /\ th[u].pc # "first"
           /\ ~Torn(t) => a = done.writes /\ b = done.writes
           /\ ~Extended(t) => tail = done.appends
<1>1. \A u \in Threads \ {t} : ~InSection(u)
    BY Exclusion
<1>2. \A u \in Threads \ {t} : ~Torn(u) /\ ~Extended(u) /\ th[u].pc # "first"
    BY <1>1 DEF InSection, Torn, Extended
<1> QED BY <1>1, <1>2 DEF IInv, DataInv

(* Readers beside a writer are none, or cannot be sound.                    *)
LEMMA ReadersBeside ==
    ASSUME IInv, NEW t \in Threads, InSection(t), OthersStay(t), UNCHANGED <<ver>>, ReadAt(t)',
           Appends(t) => a' = a /\ b' = b
    PROVE  ReadInv'
<1> SUFFICES ASSUME NEW u \in Threads, u # t PROVE ReadAt(u)'
    BY DEF ReadInv
<1>1. th'[u] = th[u] /\ ReadAt(u)
    BY DEF OthersStay, IInv, ReadInv
<1>2. Sound(u)' => Sound(u)
    BY <1>1 DEF Sound, Kind, Held, ReadLock
<1>3. CASE Appends(t)
    BY <1>1, <1>2, <1>3 DEF ReadAt
<1>4. CASE ~Appends(t)
    <2>1. th[u].pc \in {"readB", "validate"} => ~Sound(u)
        BY <1>4, NoReaderBeside
    <2> QED BY <1>1, <1>2, <2>1 DEF ReadAt
<1> QED BY <1>3, <1>4

LEMMA FirstPreserves == ASSUME IInv, NEW t \in Threads, First(t) PROVE IInv'
<1>0. /\ th[t].pc = "first" /\ TypeInv /\ th[t] \in ThreadStates /\ GuardAt(t) /\ UseAt(t)
      /\ Goto(t, "second") /\ UNCHANGED <<cfg, ver, rw, b, parent, done>>
    BY ThreadType DEF First, At
<1>1. Turns(t, "second", th[t].guard, th[t].seen)
    BY <1>0, GotoEffect DEF PCs
<1>2. /\ th' \in [Threads -> ThreadStates] /\ OthersStay(t) /\ Kind(t)' = Kind(t)
      /\ Use(t)' = Use(t) /\ ReadAt(t)' /\ UseAt(t)' /\ FirstAt(t)'
    BY <1>0, <1>1, Elsewhere DEF PCs, Kind
<1>3. th'[t].pc = "second" /\ th'[t].guard = th[t].guard /\ th'[t].seen = th[t].seen
    BY <1>1 DEF Turns
<1>4. GuardAt(t)'
    BY <1>0, <1>2, <1>3 DEF GuardAt, InSection, Appends
<1>5. ThreadInv' /\ LockInv' /\ VersionInv' /\ CounterInv'
    BY <1>0, <1>2, <1>3, <1>4, LatchesStay
<1>6. InSection(t) /\ ~Torn(t) /\ ~Extended(t)
    BY <1>0 DEF InSection, Torn, Extended
<1>7. /\ \A u \in Threads \ {t} : ~Torn(u) /\ ~Extended(u) /\ th[u].pc # "first" /\ th[u].pc # "second"
      /\ a = done.writes /\ b = done.writes /\ tail = done.appends
    BY <1>6, WriterAlone DEF InSection
<1>8. FirstAt(t)
    BY DEF IInv, DataInv
<1>9. Appends(t)' <=> Appends(t)
    BY <1>2 DEF Appends
<1>10. /\ Appends(t) => tail' = tail + 1 /\ a' = a
       /\ ~Appends(t) => a' = a + 1 /\ tail' = tail /\ th[t].seen.b = b
    BY <1>0, <1>8 DEF First, FirstAt
<1>11. TypeInv'
    BY <1>0, <1>2, <1>10 DEF TypeInv
<1>12. DataInv'
    <2>1. \A u \in Threads \ {t} : ~Torn(u)' /\ ~Extended(u)' /\ FirstAt(u)'
        BY <1>2, <1>7 DEF OthersStay, Torn, Extended, FirstAt
    <2>2. SecondAt(t)'
        BY <1>0, <1>3, <1>7, <1>9, <1>10 DEF SecondAt, Torn, Extended
    <2>3. (Torn(t)' <=> ~Appends(t)) /\ (Extended(t)' <=> Appends(t))
        BY <1>3, <1>9 DEF Torn, Extended
    <2>4. \A u \in Threads : FirstAt(u)' /\ SecondAt(u)'
        BY <1>2, <2>1, <2>2 DEF SecondAt
    <2>5. Appends(t) => a' = done'.writes /\ b' = done'.writes
        BY <1>0, <1>7, <1>10
    <2>6. ~Appends(t) => tail' = done'.appends
        BY <1>0, <1>7, <1>10
    <2> QED BY <2>3, <2>4, <2>5, <2>6 DEF DataInv
<1>13. ReadInv'
    BY <1>0, <1>2, <1>6, <1>10, ReadersBeside
<1> QED BY <1>5, <1>11, <1>12, <1>13 DEF IInv

LEMMA SecondPreserves == ASSUME IInv, NEW t \in Threads, Second(t) PROVE IInv'
<1>0. /\ th[t].pc = "second" /\ TypeInv /\ th[t] \in ThreadStates /\ GuardAt(t) /\ UseAt(t)
      /\ UNCHANGED <<cfg, ver, rw, a, tail>>
    BY ThreadType DEF Second, At
<1>1. InSection(t) /\ (Torn(t) <=> ~Appends(t)) /\ (Extended(t) <=> Appends(t))
    BY <1>0 DEF InSection, Torn, Extended
<1>2. /\ \A u \in Threads \ {t} : ~Torn(u) /\ ~Extended(u) /\ th[u].pc # "first" /\ th[u].pc # "second"
      /\ Appends(t) => a = done.writes /\ b = done.writes
      /\ ~Appends(t) => tail = done.appends
    BY <1>1, WriterAlone DEF InSection
<1>3. SecondAt(t)
    BY DEF IInv, DataInv
<1>4. /\ Appends(t) => tail = done.appends + 1
      /\ ~Appends(t) => a = done.writes + 1 /\ b = done.writes /\ th[t].seen.b = b
    BY <1>1, <1>3 DEF SecondAt
<1>5. /\ th' \in [Threads -> ThreadStates] /\ OthersStay(t) /\ th'[t].guard = th[t].guard
      /\ th'[t].pc \in {"drop", "downgrade"} /\ UseAt(t)' /\ GuardAt(t)'
    <2>1. CASE Goto(t, "drop")
        <3>1. Turns(t, "drop", th[t].guard, th[t].seen)
            BY <1>0, <2>1, GotoEffect DEF PCs
        <3>2. UseAt(t)'
            BY <1>0, <3>1, Elsewhere DEF PCs
        <3>3. GuardAt(t)'
            BY <3>1 DEF GuardAt, Turns, InSection
        <3> QED BY <3>1, <3>2, <3>3 DEF Turns
    <2>2. CASE Appends(t) /\ Becomes(t, [th[t] EXCEPT !.pc = "downgrade", !.todo = <<"read">> \o Tail(@)])
        <3> DEFINE rest == <<"read">> \o Tail(th[t].todo)
                   me == [th[t] EXCEPT !.pc = "downgrade", !.todo = rest]
        <3>1. th[t].todo \in Seq(UseKinds) /\ th[t].todo # <<>> /\ cfg.uses[t] # <<>>
            BY <1>0 DEF ThreadStates, UseAt
        <3>2. rest \in Seq(UseKinds) /\ Head(rest) = "read" /\ rest # <<>>
            <4>1. Tail(th[t].todo) \in Seq(UseKinds) /\ <<"read">> \in Seq(UseKinds)
                BY <3>1 DEF UseKinds
            <4>2. rest \in Seq(UseKinds) /\ Len(rest) = 1 + Len(Tail(th[t].todo)) /\ Len(rest) > 0
                BY <4>1
            <4>3. rest[1] = "read"
                BY <4>1
            <4> QED BY <4>2, <4>3
        <3>3. Becomes(t, me)
            BY <2>2
        <3> HIDE DEF rest
        <3>4. me \in ThreadStates
            BY <1>0, <3>2 DEF ThreadStates, PCs
        <3>5. me.pc = "downgrade" /\ me.todo = rest /\ me.guard = th[t].guard
            BY <1>0 DEF ThreadStates
        <3>6. th' \in [Threads -> ThreadStates] /\ th'[t] = me /\ OthersStay(t)
            BY <1>0, <3>3, <3>4, BecomesEffect
        <3>7. UseAt(t)'
            BY <1>0, <3>1, <3>2, <3>5, <3>6 DEF UseAt
        <3>8. Kind(t) \in (Exclusive \cup {"appendPin"}) \ {"olcWriter"}
            BY <1>0, <1>1, <2>2 DEF GuardAt
        <3>9. Kind(t)' = Kind(t) /\ Use(t)' = "read" /\ th'[t].pc = "downgrade"
            BY <3>2, <3>5, <3>6 DEF Kind, Use
        <3>10. GuardAt(t)'
            BY <3>8, <3>9 DEF GuardAt, InSection
        <3> QED BY <3>5, <3>6, <3>7, <3>10
    <2> QED BY <2>1, <2>2 DEF Second
<1>6. ThreadInv' /\ LockInv' /\ VersionInv' /\ CounterInv'
    BY <1>0, <1>5, LatchesStay
<1>7. done \in [writes : Nat, appends : Nat]
    BY <1>0 DEF TypeInv
<1>8. /\ Appends(t) => /\ done' = [done EXCEPT !.appends = done.appends + 1]
                       /\ b' = b /\ parent' = parent
      /\ ~Appends(t) => /\ done' = [done EXCEPT !.writes = done.writes + 1]
                        /\ b' = b + 1
    BY <1>4 DEF Second
<1>9. /\ done' \in [writes : Nat, appends : Nat]
      /\ Appends(t) => done'.appends = done.appends + 1 /\ done'.writes = done.writes
      /\ ~Appends(t) => done'.appends = done.appends /\ done'.writes = done.writes + 1
    <2>1. CASE Appends(t)
        BY <1>7, <1>8, <2>1
    <2>2. CASE ~Appends(t)
        BY <1>7, <1>8, <2>2
    <2> QED BY <2>1, <2>2
<1>10. TypeInv'
    <2>1. parent' \in {"linked", "latched", "unlinked"}
        BY <1>0 DEF Second, TypeInv
    <2>2. b' \in Nat
        BY <1>0, <1>8 DEF TypeInv
    <2> QED BY <1>0, <1>5, <1>9, <2>1, <2>2 DEF TypeInv
<1>11. DataInv'
    <2>1. \A u \in Threads : FirstAt(u)' /\ SecondAt(u)'
        BY <1>2, <1>5 DEF OthersStay, FirstAt, SecondAt, Torn, Extended
    <2>2. a' = done'.writes /\ b' = done'.writes /\ tail' = done'.appends
        BY <1>0, <1>2, <1>4, <1>8, <1>9
    <2> QED BY <2>1, <2>2 DEF DataInv
<1>12. ReadInv'
    <2>1. ReadAt(t)'
        BY <1>5 DEF ReadAt
    <2> QED BY <1>0, <1>1, <1>5, <1>8, <2>1, ReadersBeside
<1> QED BY <1>6, <1>10, <1>11, <1>12 DEF IInv

---------------------------------------------------------------------------
(* The invariant, and what it gives.                                        *)

LEMMA InitIInv == ASSUME Init PROVE IInv
<1>1. cfg \in Setups /\ cfg.uses \in [Threads -> Seq(UseKinds)]
    BY CellAssumption DEF Init
<1>2. \A t \in Threads : cfg.uses[t] \in Seq(UseKinds)
    BY <1>1
<1>3. Idle \in ThreadStates /\ Idle.pc = "idle" /\ Idle.guard = NoGuard
    BY ZeroType DEF Idle, ThreadStates, Halves, PCs, Modes
<1>4. \A s \in Seq(UseKinds) :
         LET me == [Idle EXCEPT !.todo = s]
         IN  me \in ThreadStates /\ me.pc = "idle" /\ me.guard = NoGuard /\ me.todo = s
    <2> SUFFICES ASSUME NEW s \in Seq(UseKinds)
                 PROVE  LET me == [Idle EXCEPT !.todo = s]
                        IN  me \in ThreadStates /\ me.pc = "idle" /\ me.guard = NoGuard /\ me.todo = s
        OBVIOUS
    <2>1. [Idle EXCEPT !.todo = s] \in ThreadStates
        BY <1>3 DEF ThreadStates
    <2>2. /\ [Idle EXCEPT !.todo = s].pc = "idle" /\ [Idle EXCEPT !.todo = s].guard = NoGuard
          /\ [Idle EXCEPT !.todo = s].todo = s
        BY <1>3 DEF ThreadStates
    <2> QED BY <2>1, <2>2
<1>5. \A t \in Threads : /\ th[t] \in ThreadStates /\ th[t].pc = "idle" /\ Kind(t) = "none"
                         /\ th[t].todo = cfg.uses[t]
    BY <1>2, <1>4, ZeroType DEF Init, Kind
<1>6. TypeInv
    <2>1. th \in [Threads -> ThreadStates]
        BY <1>5 DEF Init
    <2>2. ver \in Versions /\ done \in [writes : Nat, appends : Nat]
        BY ZeroType DEF Init
    <2>3. rw \in [readers : SUBSET Threads, writer : SUBSET Threads]
        BY DEF Init
    <2> QED BY <2>1, <2>2, <2>3 DEF Init, TypeInv
<1>7. ThreadInv
    BY <1>5 DEF ThreadInv, UseAt, LatchAt, GuardAt, InSection
<1>8. LockInv
    BY <1>5 DEF LockInv, Init, Readers, Writers
<1>9. VersionInv
    BY <1>5 DEF VersionInv, HolderAt, Holding, Init, Zero, Version
<1>10. CounterInv
    BY <1>5 DEF CounterInv, CounterAt, Remembers
<1>11. DataInv
    BY <1>5 DEF DataInv, Init, FirstAt, SecondAt, Torn, Extended
<1>12. ReadInv
    BY <1>5 DEF ReadInv, ReadAt
<1> QED BY <1>6, <1>7, <1>8, <1>9, <1>10, <1>11, <1>12 DEF IInv

LEMMA NextIInv == ASSUME IInv, [Next]_vars PROVE IInv'
<1>1. CASE UNCHANGED vars
    <2>1. TypeInv'
        BY <1>1 DEF IInv, TypeInv, vars
    <2>2. ThreadInv'
        BY <1>1 DEF IInv, ThreadInv, UseAt, LatchAt, GuardAt, Kind, Latch, Use, InSection, Appends, vars
    <2>3. LockInv' /\ VersionInv' /\ CounterInv'
        BY <1>1 DEF IInv, LockInv, VersionInv, HolderAt, CounterInv, CounterAt, Remembers, Kind, Held, Latch,
                    Marked, ReadLock, vars
    <2>4. DataInv' /\ ReadInv'
        BY <1>1 DEF IInv, DataInv, FirstAt, SecondAt, Torn, Extended, Appends, Use, ReadInv, ReadAt, Sound,
                    Kind, Held, ReadLock, vars
    <2> QED BY <2>1, <2>2, <2>3, <2>4 DEF IInv
<1>2. ASSUME NEW t \in Threads, Step(t) PROVE IInv'
    BY <1>2, StartPreserves, BorrowFreePreserves, BorrowReadPreserves, BorrowReadHybridPreserves,
       BorrowMutPreserves, BorrowPinPreserves, PinLockPreserves, DropPreserves, DowngradePreserves,
       DerefPreserves, ReadAPreserves, ReadBPreserves, ValidatePreserves, AcceptPreserves,
       LatchParentPreserves, UpgradePreserves, TryWritePreserves, PinAppendPreserves, LookPreserves,
       MarkObsoletePreserves, FirstPreserves, SecondPreserves DEF Step
<1> QED BY <1>1, <1>2 DEF Next, Finished

(* The parts of the invariant hold in every state of a cell, under every    *)
(* strategy, for any number of threads and uses.                            *)
THEOREM SpecIInv == Spec => []IInv
<1>1. Init => IInv
    BY InitIInv
<1>2. IInv /\ [Next]_vars => IInv'
    BY NextIInv
<1> QED BY <1>1, <1>2, PTL DEF Spec

(* A read that is_valid lets pass saw both halves as one write left them,   *)
(* whatever mix of versions, pins and locks the strategy borrows with.      *)
THEOREM SpecAcceptedReads == Spec => []AcceptedReads
<1>1. IInv => AcceptedReads
    BY DEF IInv, ReadInv, ReadAt, AcceptedReads, At
<1> QED BY <1>1, SpecIInv, PTL

(* No write and no append is lost: write_lock, pin_lock, pin_write_lock and *)
(* the blocking locks exclude each other under every strategy.              *)
THEOREM SpecNoLostUpdate == Spec => []NoLostUpdate
<1>1. IInv => NoLostUpdate
    BY DEF IInv, DataInv, Torn, Extended, NoLostUpdate
<1> QED BY <1>1, SpecIInv, PTL
=============================================================================
