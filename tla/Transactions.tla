--------------------------- MODULE Transactions ---------------------------
(***************************************************************************)
(* Transactions (mv_tx_model, mv_tx_query) and the exported interface       *)
(* (lib.rs).  Callers run a transaction on their own thread or hand it to   *)
(* the manager's thread pool; reader transactions are registered with the   *)
(* garbage collector's tracker when they are handed over and again by every *)
(* query they dispatch.                                                     *)
(*                                                                          *)
(* The layers below are taken at their word: the commit clock is the        *)
(* abstract Watermark, a tree holds for every version the records of that   *)
(* version, and reusing dead blocks makes every version below the horizon   *)
(* unreadable (Reclamation).  A read is a range over all keys, and one with *)
(* a version of its own has the snapshot its caller drew for the            *)
(* transaction.                                                             *)
(***************************************************************************)
EXTENDS Integers, Sequences, FiniteSets, FiniteSetsExt, Functions

CONSTANTS
    Callers,        \* threads that call the manager
    Workers,        \* threads of the pool
    Keys,           \* keys, each in a leaf of its own
    Plans,          \* bound of the model: the calls made, one after the other, by
                    \* whichever caller: [multi, script, via, snapped]
    MaxClock,       \* bound of the model: no commit starts at or above it
    MaxTrackers     \* bound of the model: times the collector is switched on

ReadOps  == {"point", "si", "iter", "iterSi"}
WriteOps == {"insert", "update", "delete"}
Pooled   == {"execute_tx", "non_reader", "batch"}

(* CRUDOperation: what is read does not matter here, what is written does.  *)
Operation == [op : ReadOps \cup {"empty"}] \cup [op : WriteOps, key : Keys]

ASSUME TransactionsAssumption ==
    /\ IsFiniteSet(Callers) /\ IsFiniteSet(Workers) /\ Callers \cap Workers = {}
    /\ Keys # {}
    /\ MaxClock \in Nat \ {0} /\ MaxTrackers \in Nat \ {0}
    /\ Plans \subseteq Seq([multi : BOOLEAN, script : Seq(Operation),
                             via : Pooled \cup {"caller"}, snapped : BOOLEAN])
    /\ \A plan \in Plans : \A n \in DOMAIN plan :
          plan[n].multi \/ Len(plan[n].script) = 1

VARIABLES
    clock, wm, inflight,    \* the commit clock, see Watermark
    recs,           \* the records [key, from, to] of the tree
    horizon,        \* versions below it are no longer readable
    created,        \* trackers made so far
    db_tracker,     \* the tracker of the manager and of its tree; 0 is None
    registered,     \* QueryTracer: registrations per tracker and snapshot
    pins,           \* PinTracer: announced readers per tracker and bound
    pool,           \* the manager has a thread pool
    queue,          \* jobs handed to the pool
    todo,           \* the calls still to be made
    tx,             \* the transactions made
    iters,          \* range iterators handed out and not yet dropped
    th              \* what each thread is doing

clockVars == <<clock, wm, inflight>>
treeVars  == <<recs, horizon>>
gcVars    == <<created, db_tracker, registered, pins>>
vars == <<clock, wm, inflight, recs, horizon, created, db_tracker, registered,
          pins, pool, queue, todo, tx, iters, th>>

Clock == INSTANCE Watermark

Threads   == Callers \cup Workers
Latest    == MaxClock + 1       \* Version::MAX
NoSnap    == 0                  \* None
Snapshots == 1 .. Latest
Trackers  == 1 .. MaxTrackers
Lost      == [k \in Keys |-> -1]

Alive(r)     == r.to = Latest
LiveRec(k)   == CHOOSE r \in recs : r.key = k /\ Alive(r)
IsLive(k)    == \E r \in recs : r.key = k /\ Alive(r)

(* What a query at version v finds: the version of each key's record.       *)
Answer(v) ==
    [k \in Keys |-> LET hits == {r \in recs : r.key = k /\ r.from <= v
                                              /\ (v < r.to \/ Alive(r))}
                    IN IF hits = {} THEN 0 ELSE Max({r.from : r \in hits})]

---------------------------------------------------------------------------
(* The tracker.                                                             *)

(* on_tx_start, if there is a tracker.                                      *)
Register(t, s) ==
    registered' = IF t = 0 THEN registered ELSE [registered EXCEPT ![t][s] = @ + 1]

(* on_tx_completed, if there is a tracker: one registration of the snapshot *)
(* goes, a release without registration is a no-op.                         *)
Release(t, s) ==
    registered' = IF t = 0 \/ registered[t][s] = 0 THEN registered
                  ELSE [registered EXCEPT ![t][s] = @ - 1]

(* free_block: dead blocks below the committed snapshot and every announced *)
(* reader are reused, and with them the versions only they held.            *)
FreeBlock ==
    /\ db_tracker # 0
    /\ LET bound == Min({wm} \cup {s \in Snapshots : \/ registered[db_tracker][s] > 0
                                                     \/ pins[db_tracker][s] > 0})
       IN bound - 1 > horizon /\ horizon' = bound - 1
    /\ UNCHANGED <<clockVars, recs, gcVars, pool, queue, tx, iters, th, todo>>

AdvanceWatermark ==
    /\ \E v \in wm + 1 .. clock : Clock!Advance(v)
    /\ UNCHANGED <<treeVars, gcVars, pool, queue, tx, iters, th, todo>>

---------------------------------------------------------------------------
(* Transactions.                                                            *)

Made == DOMAIN tx

(* CRUDOperation::is_read: the reads at a version of their own.  The Si     *)
(* variants, which read at the snapshot of their transaction, do not count. *)
IsRead(o) == o.op \in {"point", "iter"}

(* tracked_snapshot: the snapshot a reader transaction is registered under. *)
Tracked(i) == tx[i].snap # NoSnap /\ \A p \in DOMAIN tx[i].script : IsRead(tx[i].script[p])

(* The snapshot reads of the transaction are dispatched at: its own; none   *)
(* is the newest version for Multi and one drawn now for Atomic.            *)
Isolation(i) ==
    IF tx[i].snap # NoSnap THEN tx[i].snap ELSE IF tx[i].multi THEN Latest ELSE wm

Idle == [pc |-> "idle", ids |-> <<>>, via |-> "caller", pin |-> 0, trk |-> 0,
         snap |-> NoSnap, at |-> 0, ver |-> 0]

Goto(t, from, to) == th[t].pc = from /\ th' = [th EXCEPT ![t].pc = to]
Cur(t)  == Head(th[t].ids)
Pos(i)  == Len(tx[i].results) + 1
Op(i)   == tx[i].script[Pos(i)]

(* A call of the manager: the operations, how it is made, and whether the   *)
(* caller draws a snapshot for it first.                                    *)
Tx(script, via, snapped) ==
    [multi |-> Len(script) > 1, script |-> script, via |-> via, snapped |-> snapped]

(* The exported interface: an atomic transaction on the caller's thread,    *)
(* the reads at a snapshot drawn under a pin that lasts for the call.       *)
ApiFind      == Tx(<<[op |-> "point"]>>, "caller", TRUE)
ApiScan      == Tx(<<[op |-> "point"]>>, "caller", TRUE)
ApiInsert(k) == Tx(<<[op |-> "insert", key |-> k]>>, "caller", FALSE)
ApiUpdate(k) == Tx(<<[op |-> "update", key |-> k]>>, "caller", FALSE)
ApiRemove(k) == Tx(<<[op |-> "delete", key |-> k]>>, "caller", FALSE)

(* What a program can call through the C interface.                         *)
Exported(k) == {ApiFind, ApiScan, ApiInsert(k), ApiUpdate(k), ApiRemove(k)}

(* init_tree_gc: the manager starts with a collector or without.            *)
GcChoices == {0, 1}

(* What the tracker protects: reads on the caller's thread at a snapshot    *)
(* drawn under a pin, and such reads at a version of their own handed to    *)
(* the pool.  Reads without a snapshot, and the ones the manager registers  *)
(* late (in a batch) or not at all (Si), are safe only without a collector. *)
Protected(call) ==
    \/ db_tracker = 0
    \/ \A p \in DOMAIN call.script : call.script[p].op \notin ReadOps
    \/ /\ call.snapped
       /\ call.via # "batch"
       /\ \/ call.via = "caller"
          \/ \A p \in DOMAIN call.script : IsRead(call.script[p])

(* Reads at a version of their own have been given a snapshot.              *)
Sensible(call) ==
    /\ call.via \in Pooled => pool
    /\ (\E p \in DOMAIN call.script : IsRead(call.script[p])) => call.snapped

(* Transaction::new and AtomicTransaction::new.  The manager refuses no     *)
(* call; whether the tracker protects this one is noted for the properties. *)
NewTx(call, snap) ==
    [stage |-> "made", multi |-> call.multi, script |-> call.script, snap |-> snap,
     results |-> <<>>, held |-> 0, protected |-> Protected(call)]

(* A transaction is made and handed to the manager.                         *)
Call(c) ==
    /\ th[c].pc = "idle"
    /\ todo # <<>>
    /\ Sensible(Head(todo))
    /\ tx' = Append(tx, NewTx(Head(todo), NoSnap))
    /\ th' = [th EXCEPT ![c].pc = IF Head(todo).snapped THEN "pin" ELSE "submit",
                        ![c].ids = <<Len(tx) + 1>>, ![c].via = Head(todo).via]
    /\ todo' = Tail(todo)
    /\ UNCHANGED <<clockVars, treeVars, gcVars, pool, queue, iters>>

(* A batch holds several transactions.                                      *)
AddToBatch(c) ==
    /\ th[c].pc = "submit" /\ th[c].via = "batch"
    /\ todo # <<>> /\ Head(todo).via = "batch"
    /\ Head(todo).snapped = (tx[Cur(c)].snap # NoSnap)
    /\ Sensible(Head(todo))
    /\ tx' = Append(tx, NewTx(Head(todo), tx[Cur(c)].snap))
    /\ th' = [th EXCEPT ![c].ids = Append(@, Len(tx) + 1)]
    /\ todo' = Tail(todo)
    /\ UNCHANGED <<clockVars, treeVars, gcVars, pool, queue, iters>>

(* pinned_reader_snapshot: the reader is announced ...                      *)
PinReader(c) ==
    /\ th[c].pc = "pin"
    /\ th' = [th EXCEPT ![c].pc = "draw", ![c].pin = wm]
    /\ pins' = IF db_tracker = 0 THEN pins ELSE [pins EXCEPT ![db_tracker][wm] = @ + 1]
    /\ UNCHANGED <<clockVars, treeVars, created, db_tracker, registered, pool, queue,
                   tx, iters, todo>>

(* ... before it draws its snapshot.                                        *)
DrawSnapshot(c) ==
    /\ Goto(c, "draw", "submit")
    /\ tx' = [tx EXCEPT ![Cur(c)].snap = wm]
    /\ UNCHANGED <<clockVars, treeVars, gcVars, pool, queue, iters, todo>>

(* execute_on_caller_thread.                                                *)
ExecuteOnCallerThread(c) ==
    /\ th[c].via = "caller"
    /\ Goto(c, "submit", "begin")
    /\ UNCHANGED <<clockVars, treeVars, gcVars, pool, queue, tx, iters, todo>>

(* Mutant: the transaction is handed over without registering it.           *)
EnqBookkeeping_None(c) ==
    /\ th[c].via \in {"execute_tx", "non_reader"}
    /\ Goto(c, "submit", "send")
    /\ UNCHANGED <<clockVars, treeVars, gcVars, pool, queue, tx, iters, todo>>

(* enq_bookkeeping, by the caller of execute_tx and execute_tx_non_reader.  *)
EnqBookkeeping(c) ==
    /\ th[c].via \in {"execute_tx", "non_reader"}
    /\ Goto(c, "submit", "send")
    /\ IF Tracked(Cur(c))
       THEN /\ Register(db_tracker, tx[Cur(c)].snap)
            /\ tx' = [tx EXCEPT ![Cur(c)].held = db_tracker]
       ELSE UNCHANGED <<registered, tx>>
    /\ UNCHANGED <<clockVars, treeVars, created, db_tracker, pins, pool, queue, iters, todo>>

(* The job goes to the pool with the tracker to release the snapshot from.  *)
(* A batch is handed over as it is; its transactions are registered later.  *)
Send(c) ==
    /\ \/ th[c].pc = "send"
       \/ th[c].pc = "submit" /\ th[c].via = "batch"
    /\ queue' = Append(queue, [ids |-> th[c].ids, via |-> th[c].via, trk |-> db_tracker])
    /\ th' = [th EXCEPT ![c].pc = "unpin", ![c].ids = <<>>]
    /\ UNCHANGED <<clockVars, treeVars, gcVars, pool, tx, iters, todo>>

(* ReaderPin::drop, when the call returns.                                  *)
Return(c) ==
    /\ th[c].pc = "unpin"
    /\ th' = [th EXCEPT ![c] = Idle]
    /\ pins' = IF th[c].pin = 0 \/ db_tracker = 0 THEN pins
               ELSE [pins EXCEPT ![db_tracker][th[c].pin] = @ - 1]
    /\ UNCHANGED <<clockVars, treeVars, created, db_tracker, registered, pool, queue,
                   tx, iters, todo>>

(* A thread of the pool takes the oldest job.                               *)
TakeJob(w) ==
    /\ th[w].pc = "idle"
    /\ queue # <<>>
    /\ LET job == Head(queue)
       IN th' = [th EXCEPT ![w].pc = IF job.via = "batch" THEN "enq" ELSE "begin",
                           ![w].ids = job.ids, ![w].via = job.via, ![w].trk = job.trk]
    /\ queue' = Tail(queue)
    /\ UNCHANGED <<clockVars, treeVars, gcVars, pool, tx, iters, todo>>

(* The job of a batch registers each transaction when its turn comes.       *)
EnqInBatch(w) ==
    /\ Goto(w, "enq", "begin")
    /\ IF Tracked(Cur(w))
       THEN /\ Register(th[w].trk, tx[Cur(w)].snap)
            /\ tx' = [tx EXCEPT ![Cur(w)].held = th[w].trk]
       ELSE UNCHANGED <<registered, tx>>
    /\ UNCHANGED <<clockVars, treeVars, created, db_tracker, pins, pool, queue, iters, todo>>

---------------------------------------------------------------------------
(* dispatch_transaction and dispatch_atomic_transaction.                    *)

(* The snapshot is settled once, for all operations.                        *)
Dispatch(t) ==
    /\ th[t].pc = "begin"
    /\ th' = [th EXCEPT ![t].pc = "next", ![t].snap = Isolation(Cur(t))]
    /\ UNCHANGED <<clockVars, treeVars, gcVars, pool, queue, tx, iters, todo>>

HasNext(t) == th[t].pc = "next" /\ Pos(Cur(t)) <= Len(tx[Cur(t)].script)

Push(i, res) == tx' = [tx EXCEPT ![i].results = Append(@, res)]

(* The version whose nodes a query walks: at the newest one, those that are *)
(* live now.                                                                *)
Walked(s) == IF s = Latest THEN clock - 1 ELSE s

(* on_acquire_reader_snapshot.                                              *)
ReadStart(t) ==
    /\ HasNext(t)
    /\ Op(Cur(t)).op \in {"point", "si"}
    /\ Register(db_tracker, th[t].snap)
    /\ th' = [th EXCEPT ![t].pc = "read", ![t].at = Walked(th[t].snap)]
    /\ UNCHANGED <<clockVars, treeVars, created, db_tracker, pins, pool, queue, tx, iters, todo>>

(* The end of the query and on_release_reader_snapshot.                     *)
ReadEnd(t) ==
    /\ Goto(t, "read", "next")
    /\ Push(Cur(t), [op |-> "read", snap |-> th[t].snap,
                     found |-> IF th[t].at < horizon THEN Lost ELSE Answer(th[t].snap)])
    /\ Release(db_tracker, th[t].snap)
    /\ UNCHANGED <<clockVars, treeVars, created, db_tracker, pins, pool, queue, iters, todo>>

(* RangeIter, and RangeIterSi at the snapshot: the result is an iterator    *)
(* that has registered itself.                                              *)
OpenIter(t) ==
    /\ HasNext(t)
    /\ Op(Cur(t)).op \in {"iter", "iterSi"}
    /\ Register(db_tracker, th[t].snap)
    /\ iters' = iters \cup {[tx |-> Cur(t), pos |-> Pos(Cur(t)), snap |-> th[t].snap,
                         at |-> Walked(th[t].snap)]}
    /\ Push(Cur(t), [op |-> "iter", snap |-> th[t].snap, found |-> Answer(th[t].snap)])
    /\ UNCHANGED <<clockVars, treeVars, created, db_tracker, pins, pool, queue, th, todo>>

(* Whoever has the iterator drains it, at any later time, and drops it.     *)
DrainIter(it) ==
    /\ iters' = iters \ {it}
    /\ tx' = [tx EXCEPT ![it.tx].results[it.pos].found =
                            IF it.at < horizon THEN Lost ELSE Answer(it.snap)]
    /\ Release(db_tracker, it.snap)
    /\ UNCHANGED <<clockVars, treeVars, created, db_tracker, pins, pool, queue, th, todo>>

Latched(k) == \E u \in Threads : th[u].pc = "commit" /\ Op(Cur(u)).key = k

(* A write that affects nothing: the key exists already, or does not.       *)
WriteVoid(t) ==
    /\ HasNext(t)
    /\ LET o == Op(Cur(t))
       IN /\ \/ o.op = "insert" /\ IsLive(o.key)
             \/ o.op \in {"update", "delete"} /\ ~IsLive(o.key)
          /\ ~Latched(o.key)
          /\ Push(Cur(t), [op |-> "void", key |-> o.key])
    /\ UNCHANGED <<clockVars, treeVars, gcVars, pool, queue, iters, th, todo>>

(* start_tx_commit and the change of the latched leaf.                      *)
WriteStart(t) ==
    /\ HasNext(t)
    /\ LET o     == Op(Cur(t))
           new   == {[key |-> o.key, from |-> clock, to |-> Latest]}
           ended == IF IsLive(o.key) THEN LiveRec(o.key) ELSE [key |-> o.key]
       IN /\ \/ o.op = "insert" /\ ~IsLive(o.key) /\ recs' = recs \cup new
             \/ /\ o.op \in {"update", "delete"} /\ IsLive(o.key)
                /\ recs' = (recs \ {ended}) \cup {[ended EXCEPT !.to = clock]}
                           \cup (IF o.op = "update" THEN new ELSE {})
          /\ ~Latched(o.key)
    /\ Clock!Begin
    /\ th' = [th EXCEPT ![t].pc = "commit", ![t].ver = clock]
    /\ UNCHANGED <<horizon, gcVars, pool, queue, tx, iters, todo>>

(* end_tx_commit.                                                           *)
WriteEnd(t) ==
    /\ th[t].pc = "commit"
    /\ Clock!Finish(th[t].ver)
    /\ Push(Cur(t), [op |-> "write", key |-> Op(Cur(t)).key, ver |-> th[t].ver])
    /\ th' = [th EXCEPT ![t].pc = "next", ![t].ver = 0]
    /\ UNCHANGED <<treeVars, gcVars, pool, queue, iters, todo>>

(* Mutant: the transaction goes on after an operation that failed.          *)
Fail_GoesOn(t) ==
    /\ HasNext(t)
    /\ Op(Cur(t)).op = "empty"
    /\ Push(Cur(t), [op |-> "error"])
    /\ UNCHANGED <<clockVars, treeVars, gcVars, pool, queue, iters, th, todo>>

(* Mutant: the failed operation is tried again.                             *)
Fail_Retried(t) ==
    /\ HasNext(t)
    /\ Op(Cur(t)).op = "empty"
    /\ Goto(t, "next", "begin")
    /\ UNCHANGED <<clockVars, treeVars, gcVars, pool, queue, tx, iters, todo>>

(* An Error ends the transaction; what it has written stays, the rest of it *)
(* is given back.                                                           *)
Fail(t) ==
    /\ HasNext(t)
    /\ Op(Cur(t)).op = "empty"
    /\ tx' = [tx EXCEPT ![Cur(t)].results = Append(@, [op |-> "error"]),
                        ![Cur(t)].stage = "failed"]
    /\ Goto(t, "next", "deq")
    /\ UNCHANGED <<clockVars, treeVars, gcVars, pool, queue, iters, todo>>

(* The result is complete; a job sends it before it releases the snapshot.  *)
Complete(t) ==
    /\ th[t].pc = "next" /\ ~HasNext(t)
    /\ tx' = [tx EXCEPT ![Cur(t)].stage = "ok"]
    /\ Goto(t, "next", "deq")
    /\ UNCHANGED <<clockVars, treeVars, gcVars, pool, queue, iters, todo>>

(* Mutant: only the batch releases what the job held.                       *)
DeqBookkeeping_BatchOnly(t) ==
    /\ th[t].pc = "deq"
    /\ IF th[t].via = "batch" /\ Tracked(Cur(t)) THEN Release(th[t].trk, tx[Cur(t)].snap)
                                                 ELSE UNCHANGED registered
    /\ tx' = [tx EXCEPT ![Cur(t)].held = 0]
    /\ th' = [th EXCEPT ![t] = IF t \in Callers THEN [@ EXCEPT !.pc = "unpin"] ELSE Idle]
    /\ UNCHANGED <<clockVars, treeVars, created, db_tracker, pins, pool, queue, iters, todo>>

(* deq_bookkeeping, by the jobs of the pool; the caller goes on to return.  *)
DeqBookkeeping(t) ==
    /\ th[t].pc = "deq"
    /\ IF th[t].via \in Pooled /\ Tracked(Cur(t))
       THEN Release(th[t].trk, tx[Cur(t)].snap)
       ELSE UNCHANGED registered
    /\ tx' = [tx EXCEPT ![Cur(t)].held = 0]
    /\ th' = [th EXCEPT ![t] = IF t \in Callers THEN [@ EXCEPT !.pc = "unpin"]
                               ELSE IF Len(th[t].ids) > 1
                               THEN [@ EXCEPT !.pc = "enq", !.ids = Tail(th[t].ids)]
                               ELSE Idle]
    /\ UNCHANGED <<clockVars, treeVars, created, db_tracker, pins, pool, queue, iters, todo>>

---------------------------------------------------------------------------
(* The manager.                                                             *)

NoCalls  == \A c \in Callers : th[c].pc = "idle"
Joined   == queue = <<>> /\ \A w \in Workers : th[w].pc = "idle"

(* managed and unmanaged: exclusive access to the manager, and join before  *)
(* the pool is replaced or dropped.                                         *)
SwitchPool ==
    /\ NoCalls /\ Joined
    /\ pool' = ~pool
    /\ UNCHANGED <<clockVars, treeVars, gcVars, queue, tx, iters, th, todo>>

(* enable_gc and disable_gc, called while no transaction is under way.      *)
EnableGc ==
    /\ NoCalls /\ Joined /\ iters = {}
    /\ created < MaxTrackers
    /\ created' = created + 1
    /\ db_tracker' = created + 1
    /\ UNCHANGED <<clockVars, treeVars, registered, pins, pool, queue, tx, iters, th, todo>>

DisableGc ==
    /\ NoCalls /\ Joined /\ iters = {}
    /\ db_tracker # 0
    /\ db_tracker' = 0
    /\ UNCHANGED <<clockVars, treeVars, created, registered, pins, pool, queue, tx,
                   iters, th, todo>>

---------------------------------------------------------------------------
(* TransactionManager::new, with a pool and with or without a collector, on *)
(* a tree that holds the keys since version 0.                              *)
Init ==
    /\ Clock!Init
    /\ recs = {[key |-> k, from |-> 0, to |-> Latest] : k \in Keys}
    /\ horizon = 0
    /\ created \in GcChoices
    /\ db_tracker = created
    /\ registered = [t \in Trackers |-> [s \in Snapshots |-> 0]]
    /\ pins = [t \in Trackers |-> [s \in Snapshots |-> 0]]
    /\ pool = TRUE
    /\ queue = <<>>
    /\ todo \in Plans
    /\ tx = <<>>
    /\ iters = {}
    /\ th = [t \in Threads |-> Idle]

Run(t) ==
    \/ Dispatch(t) \/ ReadStart(t) \/ ReadEnd(t) \/ OpenIter(t) \/ WriteVoid(t)
    \/ WriteStart(t) \/ WriteEnd(t) \/ Fail(t) \/ Complete(t) \/ DeqBookkeeping(t)

InCall(c) ==
    \/ PinReader(c) \/ DrawSnapshot(c) \/ ExecuteOnCallerThread(c)
    \/ EnqBookkeeping(c) \/ Send(c) \/ Return(c) \/ Run(c)

InJob(w) == TakeJob(w) \/ EnqInBatch(w) \/ Run(w)

Next ==
    \/ \E c \in Callers : Call(c) \/ AddToBatch(c)
    \/ \E c \in Callers : InCall(c)
    \/ \E w \in Workers : InJob(w)
    \/ \E it \in iters : DrainIter(it)
    \/ FreeBlock \/ AdvanceWatermark
    \/ SwitchPool \/ EnableGc \/ DisableGc

(* Callers finish the calls they have begun and the pool's threads run.     *)
Spec ==
    /\ Init /\ [][Next]_vars
    /\ \A c \in Callers : WF_vars(InCall(c))
    /\ \A w \in Workers : WF_vars(InJob(w))

---------------------------------------------------------------------------
(* Every read of a transaction that the tracker protects, on whichever      *)
(* thread and however late it runs, finds the records of that one snapshot: *)
(* none of the blocks it needs has been reused, no other version is mixed   *)
(* in, whatever the others do.  They may be unprotected: beside a collector *)
(* a queued Si read, a read in a batch and one without a pinned snapshot    *)
(* can lose their blocks, and they register and release the same snapshots. *)
(* The commit whose version is the snapshot itself may still be to come     *)
(* when the snapshot is drawn (current_version_for_reader): it alone may    *)
(* show in one read and not in another.                                     *)
AnswersAtSnapshot ==
    \A i \in Made : tx[i].protected => \A p \in DOMAIN tx[i].results :
        LET res == tx[i].results[p]
        IN  res.op \in {"read", "iter"} =>
                /\ res.found # Lost
                /\ tx[i].snap # NoSnap => \A k \in Keys :
                      res.found[k] \in {Answer(tx[i].snap)[k], Answer(tx[i].snap - 1)[k]}

MaxCalls == Max({Len(plan) : plan \in Plans})

Held(t, s) ==
    Cardinality({i \in Made : tx[i].held = t /\ tx[i].snap = s})
    + Cardinality({u \in Threads : th[u].pc = "read" /\ th[u].snap = s /\ db_tracker = t})
    + Cardinality({it \in iters : it.snap = s /\ db_tracker = t})

(* The registrations of a tracker are those of the jobs handed over and not *)
(* yet released, of the queries that run and of the iterators not yet       *)
(* dropped: none is lost while it is needed (the collector would reuse the  *)
(* reader's blocks) and none is left behind (nothing would be reused any    *)
(* more), though releases go by the snapshot and not by the owner.          *)
RegistrationsMatch ==
    \A t \in Trackers, s \in Snapshots : registered[t][s] = Held(t, s)

(* Every transaction that is made gets its result, whether it fails or not, *)
(* and is released.                                                         *)
TransactionsEnd ==
    \A i \in 1 .. MaxCalls :
        (i \in Made) ~>
            (i \in Made /\ tx[i].stage # "made" /\ \A t \in Threads : i \notin Range(th[t].ids))

(* What a transaction leaves in the tree is exactly what its results say it *)
(* wrote, each at its own version, and a transaction that failed has        *)
(* written nothing after the operation that failed.                         *)
ResultsAreTheWrites ==
    /\ \A r \in recs : r.from > 0 /\ r.from \notin inflight =>
          \E i \in Made : \E p \in DOMAIN tx[i].results :
              tx[i].results[p] = [op |-> "write", key |-> r.key, ver |-> r.from]
    /\ \A i \in Made : \A p \in DOMAIN tx[i].results :
          tx[i].results[p].op = "error" => p = Len(tx[i].results)
===========================================================================
