----------------------------- MODULE Workload -----------------------------
(***************************************************************************)
(* The online workload of the experiments (paper/online.rs): writers share  *)
(* a counter of operations and a sliding window of keys, readers scan until *)
(* the writers are done, and historical scans read the versions that were   *)
(* noted along the way.  The index is any system behind PaperIndex: a write *)
(* takes effect at once and commits at a version of its own.                *)
(***************************************************************************)
EXTENDS Integers, Sequences, FiniteSets, FiniteSetsExt, SequencesExt

CONSTANTS
    Threads,    \* writer, reader and scan threads to draw from
    Setups,     \* the command lines
    Block,      \* operations of which the mix is exact (1000)
    Stride,     \* the step that permutes a block (791)
    Turn        \* how far the next block is rotated (0x9E3779B9)

(* Config: the threads of a run, the keys loaded, the operations and how    *)
(* many of a block are updates, scans of a range or of everything, random   *)
(* or sliding keys, historical scans, whether the index only keeps the      *)
(* snapshot pinned at the beginning, and how many versions it may take      *)
(* between two operations.                                                  *)
Config == [writers : SUBSET Threads, readers : SUBSET Threads, scanners : SUBSET Threads,
           records : Nat, operations : Nat, updates : Nat, seed : Nat, range : Nat,
           full : BOOLEAN, random : BOOLEAN, scans : Nat, pinned : BOOLEAN, maxSkip : Nat]

(* Updates are tens of a block of 1000, so that insertions and deletions    *)
(* share the rest equally.                                                  *)
ASSUME WorkloadAssumption ==
    /\ IsFiniteSet(Threads)
    /\ Block \in Nat \ {0} /\ Stride \in Nat /\ Turn \in Nat
    /\ {(n * Stride) % Block : n \in 0 .. Block - 1} = 0 .. Block - 1
    /\ \A c \in Setups : c \in Config /\ c.writers \cap c.readers = {} /\ (Block - c.updates) % 2 = 0

VARIABLES
    cfg,        \* Config
    next,       \* the next operation to hand out
    reserved, published, expired, inserted,     \* OnlineKeys
    plan,       \* HistoricalPlan: per scan the operation and its version
    clock,      \* the next version of the index
    tree,       \* the keys in the index
    history,    \* the keys at each version a historical workload committed
    live,       \* random_key_writer: the keys it knows to be live
    nextScan,   \* the next historical scan to hand out
    done,       \* the readers' flag
    main,       \* where the main thread is
    th          \* what each thread is doing

keyVars   == <<reserved, published, expired, inserted>>
indexVars == <<clock, tree, history>>
planVars  == <<plan, nextScan>>
vars == <<cfg, next, reserved, published, expired, inserted, plan, clock, tree, history,
          live, nextScan, done, main, th>>

(* The combinations of options parse lets through.                          *)
Accepted(c) ==
    /\ c.records > 0 /\ c.operations > 0 /\ c.writers # {} /\ c.range > 0
    /\ c.scanners # {}
    /\ ~c.full => c.range <= c.records
    /\ c.updates \in 0 .. Block
    /\ c.random => Cardinality(c.writers) = 1
    /\ c.scans > 0 => c.readers = {} /\ Cardinality(c.writers) = 1

Workers == cfg.writers \cup cfg.readers

---------------------------------------------------------------------------
(* The mix of operations.                                                   *)

(* A permutation of each block gives every block its exact share of         *)
(* updates, insertions and deletions.                                       *)
WriteKind(operation) ==
    LET inserts == (Block - cfg.updates) \div 2
        offset  == (cfg.seed + (operation \div Block) * Turn) % Block
        slot    == ((operation % Block) * Stride + offset) % Block
    IN  IF slot < cfg.updates THEN "update"
        ELSE IF slot < cfg.updates + inserts THEN "insert" ELSE "delete"

OfKind(kind, first, last) ==
    Cardinality({n \in first .. last : WriteKind(n) = kind})

(* Mutant: the last operation of the prefix is left out.                    *)
StructuralCountsBefore_Short(operations) ==
    LET full == operations \div Block
        each == full * ((Block - cfg.updates) \div 2)
    IN  [inserts |-> each + OfKind("insert", full * Block, operations - 2),
         deletes |-> each + OfKind("delete", full * Block, operations - 2)]

(* Insertions and deletions among the first operations: whole blocks have a *)
(* known share, the rest is counted.                                        *)
StructuralCountsBefore(operations) ==
    LET full == operations \div Block
        each == full * ((Block - cfg.updates) \div 2)
    IN  [inserts |-> each + OfKind("insert", full * Block, operations - 1),
         deletes |-> each + OfKind("delete", full * Block, operations - 1)]

(* A permutation of the key space.                                          *)
PaperKey(id) == cfg.records + cfg.operations - 1 - id

---------------------------------------------------------------------------
Goto(t, from, to) == th[t].pc = from /\ th' = [th EXCEPT ![t].pc = to]

Start == [pc |-> "start", op |-> 0, kind |-> "none", key |-> 0, seen |-> 0,
          version |-> 0, cursor |-> 1, scan |-> 0, lo |-> 0, hi |-> 0]

(* apply_versioned: the operation takes effect, at a version that may lie   *)
(* past the ones its reorganizations took ...                               *)
Commit(t, keys, to) ==
    \E skip \in 0 .. cfg.maxSkip :
        /\ clock' = clock + skip + 1
        /\ tree' = keys
        /\ history' = IF cfg.scans > 0
                      THEN Append(history, [version |-> clock + skip, keys |-> keys])
                      ELSE history
        /\ th' = [th EXCEPT ![t].pc = to, ![t].version = clock + skip]

(* ... or it has none.                                                      *)
NoEffect(t, to) == th' = [th EXCEPT ![t].pc = to] /\ UNCHANGED indexVars

(* The barrier all threads and the main thread meet at.                     *)
Arrive(t) ==
    /\ Goto(t, "start", "barrier")
    /\ UNCHANGED <<cfg, next, keyVars, planVars, indexVars, live, done, main>>

AllArrived == main # "start" /\ \A t \in Workers : th[t].pc # "start"

Go(t) ==
    /\ AllArrived
    /\ Goto(t, "barrier", IF t \in cfg.writers THEN "take" ELSE "read")
    /\ UNCHANGED <<cfg, next, keyVars, planVars, indexVars, live, done, main>>

---------------------------------------------------------------------------
(* Writers.                                                                 *)

(* The next operation is taken from the shared counter (a counter of its    *)
(* own with random keys, which have one writer).                            *)
TakeOperation(w) ==
    /\ th[w].pc = "take"
    /\ next' = next + 1
    /\ th' = [th EXCEPT
                ![w].op = next,
                ![w].kind = IF next >= cfg.operations THEN "none" ELSE WriteKind(next),
                ![w].pc = IF next >= cfg.operations THEN "finish" ELSE "choose"]
    /\ UNCHANGED <<cfg, keyVars, planVars, indexVars, live, done, main>>

(* reserve_insert.                                                          *)
ReserveInsert(w) ==
    /\ ~cfg.random /\ th[w].kind = "insert"
    /\ th[w].pc = "choose"
    /\ th' = [th EXCEPT ![w].pc = "apply", ![w].key = reserved]
    /\ reserved' = reserved + 1
    /\ UNCHANGED <<cfg, next, published, expired, inserted, planVars, indexVars, live,
                   done, main>>

(* reserve_delete: the oldest key not yet reserved ...                      *)
ReserveDelete(w) ==
    /\ ~cfg.random /\ th[w].kind = "delete"
    /\ th[w].pc = "choose"
    /\ th' = [th EXCEPT ![w].pc = "await", ![w].key = expired]
    /\ expired' = expired + 1
    /\ UNCHANGED <<cfg, next, reserved, published, inserted, planVars, indexVars, live,
                   done, main>>

(* Mutant: the key is taken without waiting for its insertion.              *)
AwaitPublished_Not(w) ==
    /\ Goto(w, "await", "apply")
    /\ UNCHANGED <<cfg, next, keyVars, planVars, indexVars, live, done, main>>

(* ... which may still have to be inserted.                                 *)
AwaitPublished(w) ==
    /\ th[w].key < published
    /\ Goto(w, "await", "apply")
    /\ UNCHANGED <<cfg, next, keyVars, planVars, indexVars, live, done, main>>

(* sample_live reads the lower end of the window first ...                  *)
SampleLow(w) ==
    /\ ~cfg.random /\ th[w].kind = "update"
    /\ th[w].pc = "choose"
    /\ th' = [th EXCEPT ![w].pc = "high", ![w].lo = expired]
    /\ UNCHANGED <<cfg, next, keyVars, planVars, indexVars, live, done, main>>

(* ... and takes any key up to the upper end.                               *)
SampleLive(w) ==
    /\ th[w].pc = "high"
    /\ \E key \in th[w].lo .. Max({published - 1, th[w].lo}) :
          th' = [th EXCEPT ![w].pc = "apply", ![w].key = key]
    /\ UNCHANGED <<cfg, next, keyVars, planVars, indexVars, live, done, main>>

(* random_key_writer: a fresh id, ...                                       *)
FreshRandomKey(w) ==
    /\ cfg.random /\ th[w].kind = "insert"
    /\ th[w].pc = "choose"
    /\ th' = [th EXCEPT ![w].pc = "apply", ![w].key = PaperKey(reserved)]
    /\ reserved' = reserved + 1
    /\ UNCHANGED <<cfg, next, published, expired, inserted, planVars, indexVars, live,
                   done, main>>

(* ... or any of the keys it knows to be live; without one the last index   *)
(* of the list is out of range.                                             *)
LiveRandomKey(w) ==
    /\ cfg.random /\ th[w].kind \in {"update", "delete"}
    /\ th[w].pc = "choose"
    /\ IF live = <<>> THEN Goto(w, "choose", "panic") /\ UNCHANGED live
       ELSE \E rank \in DOMAIN live :
               /\ th' = [th EXCEPT ![w].pc = "apply", ![w].key = live[rank]]
               /\ live' = IF th[w].kind = "update" THEN live
                          ELSE Front([live EXCEPT ![rank] = Last(live)])
    /\ UNCHANGED <<cfg, next, keyVars, planVars, indexVars, done, main>>

(* A fresh key is inserted; anything else is a panic.                       *)
ApplyInsert(w) ==
    /\ th[w].pc = "apply" /\ th[w].kind = "insert"
    /\ IF th[w].key \notin tree
       THEN Commit(w, tree \cup {th[w].key}, IF cfg.random THEN "note" ELSE "publish")
       ELSE NoEffect(w, "panic")
    /\ live' = IF cfg.random THEN Append(live, th[w].key) ELSE live
    /\ UNCHANGED <<cfg, next, keyVars, planVars, done, main>>

(* A live key is deleted; anything else is a panic.                         *)
ApplyDelete(w) ==
    /\ th[w].pc = "apply" /\ th[w].kind = "delete"
    /\ IF th[w].key \in tree THEN Commit(w, tree \ {th[w].key}, "note")
                             ELSE NoEffect(w, "panic")
    /\ UNCHANGED <<cfg, next, keyVars, planVars, live, done, main>>

(* An update of a key that has been deleted meanwhile samples again.        *)
ApplyUpdate(w) ==
    /\ th[w].pc = "apply" /\ th[w].kind = "update"
    /\ IF th[w].key \in tree THEN Commit(w, tree, "note") ELSE NoEffect(w, "choose")
    /\ UNCHANGED <<cfg, next, keyVars, planVars, live, done, main>>

(* publish_insert: the key is marked ...                                    *)
MarkInserted(w) ==
    /\ Goto(w, "publish", "load")
    /\ inserted' = inserted \cup {th[w].key}
    /\ UNCHANGED <<cfg, next, reserved, published, expired, planVars, indexVars, live,
                   done, main>>

(* ... and the window moves over every key marked, whoever marked it.       *)
LoadPublished(w) ==
    /\ th[w].pc = "load"
    /\ th' = [th EXCEPT ![w].seen = published,
                        ![w].pc = IF published \in inserted THEN "advance" ELSE "note"]
    /\ UNCHANGED <<cfg, next, keyVars, planVars, indexVars, live, done, main>>

(* Mutant: the writer moves the window once and leaves the rest.            *)
AdvancePublished_Once(w) ==
    /\ Goto(w, "advance", "note")
    /\ published' = IF published = th[w].seen THEN published + 1 ELSE published
    /\ UNCHANGED <<cfg, next, reserved, expired, inserted, planVars, indexVars, live,
                   done, main>>

(* The compare_exchange, after which the window is looked at again.         *)
AdvancePublished(w) ==
    /\ Goto(w, "advance", "load")
    /\ published' = IF published = th[w].seen THEN published + 1 ELSE published
    /\ UNCHANGED <<cfg, next, reserved, expired, inserted, planVars, indexVars, live,
                   done, main>>

(* HistoricalPlan::record: every scan planned for this operation gets its   *)
(* version.                                                                 *)
Note(w) ==
    /\ th[w].pc = "note"
    /\ LET hits == {n \in th[w].cursor .. Len(plan) :
                       \A m \in th[w].cursor .. n : plan[m].completed = th[w].op + 1}
       IN /\ plan' = [n \in DOMAIN plan |->
                         IF n \in hits THEN [plan[n] EXCEPT !.version = th[w].version]
                         ELSE plan[n]]
          /\ th' = [th EXCEPT ![w] = [Start EXCEPT
                        !.pc = "take", !.cursor = th[w].cursor + Cardinality(hits)]]
    /\ UNCHANGED <<cfg, next, keyVars, nextScan, indexVars, live, done, main>>

(* finish_thread.                                                           *)
Finish(w) ==
    /\ Goto(w, "finish", "done")
    /\ UNCHANGED <<cfg, next, keyVars, planVars, indexVars, live, done, main>>

---------------------------------------------------------------------------
(* fresh_reader: scans of the freshest snapshot until the flag is up.       *)

FreshScan(r) ==
    /\ th[r].pc = "read"
    /\ \/ done /\ th' = [th EXCEPT ![r].pc = "done"]
       \/ ~done /\ ~cfg.full /\ th' = [th EXCEPT ![r].pc = "scan", ![r].lo = expired]
       \/ ~done /\ cfg.full /\ UNCHANGED th
    /\ UNCHANGED <<cfg, next, keyVars, planVars, indexVars, live, done, main>>

FreshRangeScan(r) ==
    /\ th[r].pc = "scan"
    /\ th' = [th EXCEPT ![r].pc = "read", ![r].lo = 0]
    /\ UNCHANGED <<cfg, next, keyVars, planVars, indexVars, live, done, main>>

---------------------------------------------------------------------------
(* The main thread.                                                         *)

MainArrives ==
    /\ main = "start"
    /\ main' = "join"
    /\ UNCHANGED <<cfg, next, keyVars, planVars, indexVars, live, done, th>>

(* All writers are joined, then the readers are told.                       *)
JoinWriters ==
    /\ main = "join"
    /\ \A w \in cfg.writers : th[w].pc = "done"
    /\ main' = "readers"
    /\ done' = TRUE
    /\ UNCHANGED <<cfg, next, keyVars, planVars, indexVars, live, th>>

JoinReaders ==
    /\ main = "readers"
    /\ \A r \in cfg.readers : th[r].pc = "done"
    /\ main' = IF cfg.scans > 0 THEN "scanning" ELSE "end"
    /\ th' = [t \in Threads |-> IF cfg.scans > 0 /\ t \in cfg.scanners
                                THEN [Start EXCEPT !.pc = "next"] ELSE th[t]]
    /\ UNCHANGED <<cfg, next, keyVars, planVars, indexVars, live, done>>

(* The keys a scan of a range chooses from: those of the pinned snapshot,   *)
(* or the ones its operation count tells.  A full scan needs none.          *)
ScanWindow(completed) ==
    LET counts == StructuralCountsBefore(completed)
    IN  CASE cfg.full -> [lo |-> 0, hi |-> 0]
          [] ~cfg.full /\ cfg.pinned -> [lo |-> 0, hi |-> cfg.records]
          [] OTHER -> [lo |-> counts.deletes, hi |-> cfg.records + counts.inserts]

(* historical_scans: the next scan, at the version noted for it.            *)
HistoricalScan(s) ==
    /\ main = "scanning" /\ s \in cfg.scanners
    /\ th[s].pc = "next"
    /\ nextScan' = nextScan + 1
    /\ IF nextScan > Len(plan) THEN th' = [th EXCEPT ![s].pc = "done"]
       ELSE IF plan[nextScan].version = 0 THEN th' = [th EXCEPT ![s].pc = "panic"]
       ELSE LET window == ScanWindow(plan[nextScan].completed)
            IN th' = [th EXCEPT ![s].pc = "historical", ![s].scan = nextScan,
                                ![s].lo = window.lo, ![s].hi = window.hi]
    /\ UNCHANGED <<cfg, next, keyVars, plan, indexVars, live, done, main>>

(* The keys at a version: those after the last commit up to it.             *)
KeysAt(v) ==
    LET upTo == {n \in DOMAIN history : history[n].version <= v}
    IN  IF upTo = {} THEN 0 .. cfg.records - 1 ELSE history[Max(upTo)].keys

(* What a scan reads: an index that only keeps its pinned snapshot answers  *)
(* from that, whatever version is asked for.                                *)
VersionRead(scan) == IF cfg.pinned THEN 0 ELSE plan[scan].version

(* scan_at_range or scan_at.                                                *)
ScanAt(s) ==
    /\ Goto(s, "historical", "next")
    /\ UNCHANGED <<cfg, next, keyVars, planVars, indexVars, live, done, main>>

JoinScanners ==
    /\ main = "scanning"
    /\ \A s \in cfg.scanners : th[s].pc = "done"
    /\ main' = "end"
    /\ UNCHANGED <<cfg, next, keyVars, planVars, indexVars, live, done, th>>

---------------------------------------------------------------------------
(* HistoricalPlan::new: any operations, in ascending order.                 *)
PlansFor(c) ==
    {p \in [1 .. c.scans -> [completed : 1 .. c.operations, version : {0}]] :
        \A n \in 1 .. c.scans - 1 : p[n].completed <= p[n + 1].completed}

(* load: the keys the index holds before the threads start.                 *)
LoadedKey(c, id) == IF c.random THEN PaperKey(id) ELSE id
Loaded(c) == {LoadedKey(c, id) : id \in 0 .. c.records - 1}

Init ==
    /\ cfg \in {c \in Setups : Accepted(c)}
    /\ next = 0
    /\ reserved = cfg.records /\ published = cfg.records /\ expired = 0
    /\ inserted = {}
    /\ plan \in PlansFor(cfg)
    /\ clock = cfg.records + 1
    /\ tree = Loaded(cfg)
    /\ history = <<>>
    /\ live = IF cfg.random THEN [n \in 1 .. cfg.records |-> LoadedKey(cfg, n - 1)] ELSE <<>>
    /\ nextScan = 1
    /\ done = FALSE
    /\ main = "start"
    /\ th = [t \in Threads |-> Start]

Writer(w) ==
    \/ TakeOperation(w) \/ ReserveInsert(w) \/ ReserveDelete(w) \/ AwaitPublished(w)
    \/ SampleLow(w) \/ SampleLive(w)
    \/ FreshRandomKey(w) \/ LiveRandomKey(w)
    \/ ApplyInsert(w) \/ ApplyDelete(w) \/ ApplyUpdate(w)
    \/ MarkInserted(w) \/ LoadPublished(w) \/ AdvancePublished(w) \/ Note(w) \/ Finish(w)

Worker(t) ==
    /\ t \in Workers
    /\ Arrive(t) \/ Go(t)

Reader(r)  == FreshScan(r) \/ FreshRangeScan(r)
Scanner(s) == HistoricalScan(s) \/ ScanAt(s)
Main       == MainArrives \/ JoinWriters \/ JoinReaders \/ JoinScanners

Next ==
    \/ Main
    \/ \E t \in Threads : Worker(t) \/ Writer(t) \/ Reader(t) \/ Scanner(t)

(* Every thread is scheduled; a sampler that draws again and again does not *)
(* draw deleted keys for ever.                                              *)
Spec ==
    /\ Init /\ [][Next]_vars
    /\ WF_vars(Main)
    /\ \A t \in Threads :
          /\ WF_vars(Worker(t) \/ Writer(t) \/ Reader(t) \/ Scanner(t))
          /\ SF_vars(SampleLive(t) /\ th'[t].key \in tree)
          /\ SF_vars(ApplyUpdate(t) /\ th'[t].pc = "note")

---------------------------------------------------------------------------
(* No thread of an experiment panics: a key reserved for insertion is not   *)
(* in the index and a key reserved for deletion is, in whatever order the   *)
(* writers insert and publish; a random writer never runs out of keys; and  *)
(* a historical scan has the version of its operation.                      *)
NoPanic == \A t \in Threads : th[t].pc # "panic"

(* With sliding keys, the window a historical scan of a range computes from *)
(* its operation count is the set of keys of the version it reads, the one  *)
(* noted for it or the pinned one: no scan looks at keys that were gone or  *)
(* not yet there, whatever versions the reorganizations took in between.    *)
WindowIsVersion ==
    \A s \in Threads : th[s].pc = "historical" /\ ~cfg.random /\ ~cfg.full =>
        th[s].lo .. th[s].hi - 1 = KeysAt(VersionRead(th[s].scan))

(* Every experiment comes to an end: no writer waits for ever for the key   *)
(* it has to delete, no reader misses the flag.                             *)
RunEnds == <>(main = "end")
===========================================================================
