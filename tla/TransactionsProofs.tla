------------------------- MODULE TransactionsProofs -------------------------
(***************************************************************************)
(* The registrations of transactions, for any number of callers, workers of *)
(* the pool, calls, snapshots and trackers: a tracker holds exactly one for *)
(* every job handed over, query under way and iterator not yet dropped.     *)
(* The second half is about what transactions return.                       *)
(***************************************************************************)
EXTENDS Transactions, FiniteSetTheorems, WellFoundedInduction, TLAPS

ThreadPCs ==
    {"idle", "pin", "draw", "submit", "send", "unpin", "enq", "begin", "next", "read",
     "commit", "deq"}

CallPCs == {"pin", "draw", "submit", "send", "unpin"}
RunPCs  == {"begin", "next", "read", "commit", "deq"}

Vias    == Pooled \cup {"caller"}
Calls   == [multi : BOOLEAN, script : Seq(Operation), via : Vias, snapped : BOOLEAN]
RecType == [key : Keys, from : Nat, to : Nat]
JobType == [ids : Seq(Nat), via : Pooled, trk : 0 .. MaxTrackers]
IterType == [tx : Nat, pos : Nat, snap : Snapshots, at : Int]
ReadResult  == [op : {"read", "iter"}, snap : Snapshots, found : [Keys -> Int]]
WriteResult == [op : {"void"}, key : Keys] \cup [op : {"write"}, key : Keys, ver : Nat]
Result      == ReadResult \cup WriteResult \cup [op : {"error"}]
TxType ==
    [stage : {"made", "ok", "failed"}, multi : BOOLEAN, script : Seq(Operation),
     snap : 0 .. Latest, results : Seq(Result), held : 0 .. MaxTrackers,
     protected : BOOLEAN]
ThreadType ==
    [pc : ThreadPCs, ids : Seq(Nat), via : Vias, pin : 0 .. Latest, trk : 0 .. MaxTrackers,
     snap : 0 .. Latest, at : Int, ver : Nat]

TypeInv ==
    /\ clock \in 1 .. MaxClock /\ wm \in 1 .. clock /\ inflight \in SUBSET Nat
    /\ recs \in SUBSET RecType /\ \A r \in recs : r.from < clock /\ (r.to < clock \/ Alive(r))
    /\ horizon \in 0 .. wm - 1
    /\ created \in 0 .. MaxTrackers /\ db_tracker \in 0 .. MaxTrackers
    /\ registered \in [Trackers -> [Snapshots -> Nat]]
    /\ pins \in [Trackers -> [Snapshots -> Nat]]
    /\ pool \in BOOLEAN
    /\ queue \in Seq(JobType)
    /\ todo \in Seq(Calls)
    /\ tx \in Seq(TxType)
    /\ iters \in SUBSET IterType /\ IsFiniteSet(iters)
    /\ th \in [Threads -> ThreadType]

(* The transactions that a thread or a job has: each has its own.           *)
ListAt(ids) ==
    \A a \in 1 .. Len(ids) : ids[a] \in Made /\ \A b \in 1 .. Len(ids) : a # b => ids[a] # ids[b]
Apart(x, y) == \A a \in 1 .. Len(x), b \in 1 .. Len(y) : x[a] # y[b]

PlaceInv ==
    /\ \A t \in Threads : ListAt(th[t].ids)
    /\ \A n \in 1 .. Len(queue) : ListAt(queue[n].ids)
    /\ \A t, u \in Threads : t # u => Apart(th[t].ids, th[u].ids)
    /\ \A t \in Threads, n \in 1 .. Len(queue) : Apart(th[t].ids, queue[n].ids)
    /\ \A m, n \in 1 .. Len(queue) : m # n => Apart(queue[m].ids, queue[n].ids)

(* The tracker that a transaction handed over is registered with.           *)
Due(i) == IF Tracked(i) THEN db_tracker ELSE 0

NoneHeld(ids, from) == \A a \in from .. Len(ids) : tx[ids[a]].held = 0

JobAt(n) ==
    LET job == queue[n]
    IN  /\ Len(job.ids) >= 1 /\ job.trk = db_tracker
        /\ job.via = "batch" => NoneHeld(job.ids, 1)
        /\ job.via # "batch" => Len(job.ids) = 1 /\ tx[job.ids[1]].held = Due(job.ids[1])

CallerAt(c) ==
    LET me == th[c]
    IN  /\ me.pc # "enq"
        /\ me.pc \in RunPCs => me.via = "caller"
        /\ me.via # "batch" => Len(me.ids) <= 1
        /\ me.pc # "send" => NoneHeld(me.ids, 1)
        /\ me.pc = "send" => /\ me.via \in {"execute_tx", "non_reader"}
                             /\ tx[me.ids[1]].held = Due(me.ids[1])

WorkerAt(w) ==
    LET me == th[w]
    IN  /\ me.pc \notin CallPCs /\ me.pin = 0
        /\ me.pc # "idle" => me.trk = db_tracker /\ me.via \in Pooled
        /\ me.pc = "enq" => me.via = "batch" /\ NoneHeld(me.ids, 1)
        /\ me.pc \in RunPCs => /\ tx[me.ids[1]].held = Due(me.ids[1])
                               /\ NoneHeld(me.ids, 2)
                               /\ me.via # "batch" => Len(me.ids) = 1

ThreadAt(t) ==
    /\ th[t].pc \notin {"idle", "unpin"} => Len(th[t].ids) >= 1
    /\ th[t].pc = "idle" => th[t].ids = <<>>
    /\ th[t].pc \in {"idle", "pin"} => th[t].pin = 0
    /\ th[t].pc \in {"next", "read", "commit", "deq"} => th[t].snap \in Snapshots
    /\ t \in Callers => CallerAt(t)
    /\ t \in Workers => WorkerAt(t)

(* A commit under way is one of a write.                                    *)
CommitAt(t) ==
    th[t].pc = "commit" => /\ Pos(Cur(t)) <= Len(tx[Cur(t)].script)
                           /\ Op(Cur(t)).op \in WriteOps

IterAt(it) == it.tx \in Made /\ it.pos \in 1 .. Len(tx[it.tx].results)

(* The pins of a tracker are those of the callers that hold one.            *)
PinsMatch ==
    \A k \in Trackers, s \in Snapshots :
        pins[k][s] = Cardinality({u \in Threads : th[u].pin = s /\ db_tracker = k})

TxInv ==
    /\ TypeInv
    /\ PlaceInv
    /\ \A n \in 1 .. Len(queue) : JobAt(n)
    /\ \A t \in Threads : ThreadAt(t) /\ CommitAt(t)
    /\ \A it \in iters : IterAt(it)
    /\ PinsMatch
    /\ RegistrationsMatch

---------------------------------------------------------------------------
(* What the constants and the types give.                                   *)

LEMMA Bounds ==
    /\ MaxClock \in Nat /\ MaxClock >= 1 /\ MaxTrackers \in Nat /\ MaxTrackers >= 1
    /\ Latest = MaxClock + 1 /\ Latest \in Nat /\ Snapshots = 1 .. Latest /\ Trackers = 1 .. MaxTrackers
    /\ Callers \subseteq Threads /\ Workers \subseteq Threads /\ Threads = Callers \cup Workers
    /\ Callers \cap Workers = {} /\ IsFiniteSet(Threads)
<1>1. IsFiniteSet(Threads)
    BY TransactionsAssumption, FS_Union DEF Threads
<1>2. MaxClock \in Nat /\ MaxClock >= 1 /\ MaxTrackers \in Nat /\ MaxTrackers >= 1 /\ Callers \cap Workers = {}
    BY TransactionsAssumption
<1> QED BY <1>1, <1>2 DEF Latest, Snapshots, Trackers, Threads

LEMMA ThreadTypes ==
    ASSUME TypeInv, NEW t \in Threads
    PROVE  /\ th[t] \in ThreadType
           /\ th[t].pc \in ThreadPCs /\ th[t].ids \in Seq(Nat) /\ th[t].via \in Vias
           /\ th[t].pin \in 0 .. Latest /\ th[t].trk \in 0 .. MaxTrackers /\ th[t].snap \in 0 .. Latest
           /\ th[t].at \in Int /\ th[t].ver \in Nat
<1>1. th[t] \in ThreadType
    BY DEF TypeInv
<1> QED BY <1>1 DEF ThreadType

LEMMA TxTypes ==
    ASSUME TypeInv, NEW i \in Made
    PROVE  /\ tx[i] \in TxType /\ i \in Nat /\ i >= 1 /\ i <= Len(tx)
           /\ tx[i].script \in Seq(Operation) /\ tx[i].snap \in 0 .. Latest
           /\ tx[i].results \in Seq(Result) /\ tx[i].held \in 0 .. MaxTrackers
<1>1. tx[i] \in TxType /\ i \in 1 .. Len(tx) /\ Len(tx) \in Nat
    BY DEF TypeInv, Made
<1> QED BY <1>1 DEF TxType

LEMMA JobTypes ==
    ASSUME TypeInv, NEW n \in 1 .. Len(queue)
    PROVE  /\ queue[n] \in JobType /\ queue[n].ids \in Seq(Nat) /\ queue[n].via \in Pooled
           /\ queue[n].trk \in 0 .. MaxTrackers
<1>1. queue[n] \in JobType
    BY DEF TypeInv
<1> QED BY <1>1 DEF JobType

(* The transaction at the head of a thread's list.                          *)
LEMMA CurFacts ==
    ASSUME TypeInv, PlaceInv, NEW t \in Threads, Len(th[t].ids) >= 1
    PROVE  /\ Cur(t) = th[t].ids[1] /\ Cur(t) \in Made
           /\ \A a \in 2 .. Len(th[t].ids) : th[t].ids[a] # Cur(t)
<1>1. th[t].ids \in Seq(Nat) /\ ListAt(th[t].ids)
    BY ThreadTypes DEF PlaceInv
<1> QED BY <1>1 DEF Cur, ListAt

---------------------------------------------------------------------------
(* What a step of one thread leaves to the others.                          *)

OthersStay(t) == \A u \in Threads \ {t} : th'[u] = th[u]
SameTx(i)     == tx'[i].held = tx[i].held /\ tx'[i].snap = tx[i].snap /\ tx'[i].script = tx[i].script /\ tx'[i].protected = tx[i].protected
Has(t, i)     == \E a \in 1 .. Len(th[t].ids) : th[t].ids[a] = i

LEMMA SameDue ==
    ASSUME db_tracker' = db_tracker, NEW i, SameTx(i)
    PROVE  Due(i)' = Due(i) /\ Tracked(i)' = Tracked(i)
BY DEF SameTx, Due, Tracked

LEMMA PlacesStay ==
    ASSUME PlaceInv, NEW t \in Threads, OthersStay(t), queue' = queue, Made \subseteq Made',
           ListAt(th[t].ids)',
           \A a \in 1 .. Len(th'[t].ids) : Has(t, th'[t].ids[a]) \/ th'[t].ids[a] \notin Made
    PROVE  PlaceInv'
<1>1. \A u \in Threads : ListAt(th[u].ids)'
    BY DEF PlaceInv, ListAt, OthersStay
<1>2. \A n \in 1 .. Len(queue') : ListAt(queue[n].ids)'
    BY DEF PlaceInv, ListAt
<1>3. \A u \in Threads : u # t => Apart(th'[t].ids, th'[u].ids) /\ Apart(th'[u].ids, th'[t].ids)
    <2> SUFFICES ASSUME NEW u \in Threads, u # t, NEW a \in 1 .. Len(th'[t].ids), NEW b \in 1 .. Len(th[u].ids)
                 PROVE  th'[t].ids[a] # th[u].ids[b]
        BY DEF OthersStay, Apart
    <2>1. th[u].ids[b] \in Made
        BY DEF PlaceInv, ListAt
    <2>2. \A c \in 1 .. Len(th[t].ids) : th[t].ids[c] # th[u].ids[b]
        BY DEF PlaceInv, Apart
    <2> QED BY <2>1, <2>2 DEF Has
<1>4. \A u, v \in Threads : u # v => Apart(th[u].ids, th[v].ids)'
    BY <1>3 DEF PlaceInv, OthersStay, Apart
<1>5. \A n \in 1 .. Len(queue) : Apart(th'[t].ids, queue[n].ids)
    <2> SUFFICES ASSUME NEW n \in 1 .. Len(queue), NEW a \in 1 .. Len(th'[t].ids),
                        NEW b \in 1 .. Len(queue[n].ids)
                 PROVE  th'[t].ids[a] # queue[n].ids[b]
        BY DEF Apart
    <2>1. queue[n].ids[b] \in Made
        BY DEF PlaceInv, ListAt
    <2>2. \A c \in 1 .. Len(th[t].ids) : th[t].ids[c] # queue[n].ids[b]
        BY DEF PlaceInv, Apart
    <2> QED BY <2>1, <2>2 DEF Has
<1>6. \A u \in Threads, n \in 1 .. Len(queue') : Apart(th[u].ids, queue[n].ids)'
    BY <1>5 DEF PlaceInv, OthersStay, Apart
<1>7. \A m, n \in 1 .. Len(queue') : m # n => Apart(queue[m].ids, queue[n].ids)'
    <2>1. \A m, n \in 1 .. Len(queue) : m # n => Apart(queue[m].ids, queue[n].ids)
        BY DEF PlaceInv
    <2> QED BY <2>1 DEF Apart
<1> QED BY <1>1, <1>2, <1>4, <1>6, <1>7 DEF PlaceInv

LEMMA SamePlaces ==
    ASSUME PlaceInv, th' = th, queue' = queue, Made' = Made
    PROVE  PlaceInv'
<1>1. (\A t \in Threads : ListAt(th[t].ids)') /\ \A n \in 1 .. Len(queue') : ListAt(queue[n].ids)'
    BY DEF PlaceInv, ListAt
<1>2. \A t, u \in Threads : t # u => Apart(th[t].ids, th[u].ids)'
    BY DEF PlaceInv, Apart
<1>3. \A t \in Threads, n \in 1 .. Len(queue') : Apart(th[t].ids, queue[n].ids)'
    BY DEF PlaceInv, Apart
<1>4. \A m, n \in 1 .. Len(queue') : m # n => Apart(queue[m].ids, queue[n].ids)'
    <2>1. \A m, n \in 1 .. Len(queue) : m # n => Apart(queue[m].ids, queue[n].ids)
        BY DEF PlaceInv
    <2> QED BY <2>1 DEF Apart
<1> QED BY <1>1, <1>2, <1>3, <1>4 DEF PlaceInv

(* Transactions that stay as they are.                                      *)
LEMMA ListStays ==
    ASSUME NEW ids \in Seq(Nat), db_tracker' = db_tracker, \A a \in 1 .. Len(ids) : SameTx(ids[a])
    PROVE  /\ Len(ids) >= 1 => Due(ids[1])' = Due(ids[1]) /\ tx'[ids[1]].held = tx[ids[1]].held
           /\ NoneHeld(ids, 1) => NoneHeld(ids, 1)'
           /\ NoneHeld(ids, 2) => NoneHeld(ids, 2)'
<1>1. \A a \in 1 .. Len(ids) : Due(ids[a])' = Due(ids[a])
    BY SameDue
<1>2. \A a \in 1 .. Len(ids) : tx'[ids[a]].held = tx[ids[a]].held
    BY DEF SameTx
<1> QED BY <1>1, <1>2 DEF NoneHeld

LEMMA JobStays ==
    ASSUME TypeInv, NEW n \in 1 .. Len(queue), JobAt(n), NEW m, queue'[m] = queue[n], db_tracker' = db_tracker,
           \A a \in 1 .. Len(queue[n].ids) : SameTx(queue[n].ids[a])
    PROVE  JobAt(m)'
<1>1. PICK ids \in Seq(Nat) : ids = queue[n].ids
    BY JobTypes
<1>2. /\ Len(ids) >= 1 => Due(ids[1])' = Due(ids[1]) /\ tx'[ids[1]].held = tx[ids[1]].held
      /\ NoneHeld(ids, 1) => NoneHeld(ids, 1)'
    BY <1>1, ListStays
<1> QED BY <1>1, <1>2 DEF JobAt

LEMMA ThreadStays ==
    ASSUME TypeInv, NEW t \in Threads, ThreadAt(t), th'[t] = th[t], db_tracker' = db_tracker,
           \A a \in 1 .. Len(th[t].ids) : SameTx(th[t].ids[a])
    PROVE  ThreadAt(t)'
<1>1. PICK ids \in Seq(Nat) : ids = th[t].ids
    BY ThreadTypes
<1>2. /\ Len(ids) >= 1 => Due(ids[1])' = Due(ids[1]) /\ tx'[ids[1]].held = tx[ids[1]].held
      /\ NoneHeld(ids, 1) => NoneHeld(ids, 1)'
      /\ NoneHeld(ids, 2) => NoneHeld(ids, 2)'
    BY <1>1, ListStays
<1>3. th[t].pc \in RunPCs \cup {"send"} => Len(ids) >= 1
    BY <1>1 DEF ThreadAt, RunPCs
<1>4. t \in Callers => CallerAt(t)'
    BY <1>1, <1>2, <1>3 DEF CallerAt, ThreadAt
<1>5. t \in Workers => WorkerAt(t)'
    BY <1>1, <1>2, <1>3 DEF WorkerAt, ThreadAt
<1> QED BY <1>4, <1>5 DEF ThreadAt

(* Of the transactions only those of thread t change.                       *)
LEMMA OthersStayPut ==
    ASSUME TypeInv, PlaceInv, \A n \in 1 .. Len(queue) : JobAt(n), \A u \in Threads : ThreadAt(u),
           NEW t \in Threads, OthersStay(t), queue' = queue, db_tracker' = db_tracker,
           \A i \in Made : Has(t, i) \/ SameTx(i), ThreadAt(t)'
    PROVE  (\A n \in 1 .. Len(queue') : JobAt(n)') /\ \A u \in Threads : ThreadAt(u)'
<1>1. ASSUME NEW n \in 1 .. Len(queue) PROVE JobAt(n)'
    <2>1. \A a \in 1 .. Len(queue[n].ids) : queue[n].ids[a] \in Made /\ ~Has(t, queue[n].ids[a])
        BY DEF PlaceInv, ListAt, Apart, Has
    <2>2. \A a \in 1 .. Len(queue[n].ids) : SameTx(queue[n].ids[a])
        BY <2>1
    <2> QED BY <2>2, JobStays
<1>2. ASSUME NEW u \in Threads, u # t PROVE ThreadAt(u)'
    <2>1. \A a \in 1 .. Len(th[u].ids) : th[u].ids[a] \in Made /\ ~Has(t, th[u].ids[a])
        BY <1>2 DEF PlaceInv, ListAt, Apart, Has
    <2>2. \A a \in 1 .. Len(th[u].ids) : SameTx(th[u].ids[a])
        BY <2>1
    <2>3. th'[u] = th[u]
        BY <1>2 DEF OthersStay
    <2> QED BY <2>2, <2>3, ThreadStays
<1> QED BY <1>1, <1>2

---------------------------------------------------------------------------
(* What is counted.                                                         *)

HeldTx(k, s)  == {i \in Made : tx[i].held = k /\ tx[i].snap = s}
Reading(k, s) == {u \in Threads : th[u].pc = "read" /\ th[u].snap = s /\ db_tracker = k}
Open(k, s)    == {it \in iters : it.snap = s /\ db_tracker = k}
Pinning(k, s) == {u \in Threads : th[u].pin = s /\ db_tracker = k}

LEMMA HeldIs ==
    \A k, s : Held(k, s) = Cardinality(HeldTx(k, s)) + Cardinality(Reading(k, s)) + Cardinality(Open(k, s))
BY DEF Held, HeldTx, Reading, Open

LEMMA Countable ==
    ASSUME TypeInv, NEW k, NEW s
    PROVE  /\ IsFiniteSet(HeldTx(k, s)) /\ Cardinality(HeldTx(k, s)) \in Nat
           /\ IsFiniteSet(Reading(k, s)) /\ Cardinality(Reading(k, s)) \in Nat
           /\ IsFiniteSet(Open(k, s)) /\ Cardinality(Open(k, s)) \in Nat
           /\ IsFiniteSet(Pinning(k, s)) /\ Cardinality(Pinning(k, s)) \in Nat
<1>1. Made = 1 .. Len(tx) /\ Len(tx) \in Nat
    BY DEF TypeInv, Made
<1>2. IsFiniteSet(Made)
    <2>1. IsFiniteSet(1 .. Len(tx))
        BY <1>1, FS_Interval
    <2> QED BY <1>1, <2>1
<1>3. IsFiniteSet(HeldTx(k, s))
    <2>1. HeldTx(k, s) \in SUBSET Made
        BY DEF HeldTx
    <2> QED BY <1>2, <2>1, FS_Subset
<1>4. IsFiniteSet(Reading(k, s)) /\ IsFiniteSet(Pinning(k, s))
    <2>1. Reading(k, s) \in SUBSET Threads /\ Pinning(k, s) \in SUBSET Threads
        BY DEF Reading, Pinning
    <2> QED BY <2>1, Bounds, FS_Subset
<1>5. IsFiniteSet(Open(k, s))
    <2>1. Open(k, s) \in SUBSET iters /\ IsFiniteSet(iters)
        BY DEF Open, TypeInv
    <2> QED BY <2>1, FS_Subset
<1> QED BY <1>3, <1>4, <1>5, FS_CardinalityType

LEMMA Gains ==
    ASSUME NEW S, IsFiniteSet(S), NEW x, x \notin S
    PROVE  Cardinality(S \cup {x}) = Cardinality(S) + 1
BY FS_AddElement

LEMMA Loses ==
    ASSUME NEW S, IsFiniteSet(S), NEW x, x \in S
    PROVE  Cardinality(S \ {x}) = Cardinality(S) - 1 /\ Cardinality(S) >= 1
<1>1. Cardinality(S \ {x}) = Cardinality(S) - 1 /\ IsFiniteSet(S \ {x})
    BY FS_RemoveElement
<1>2. Cardinality(S) \in Nat /\ Cardinality(S \ {x}) \in Nat
    BY <1>1, FS_CardinalityType
<1> QED BY <1>1, <1>2

(* One registration more, one less, and none that changes.                  *)
LEMMA Registered ==
    ASSUME TypeInv, RegistrationsMatch, NEW k \in 0 .. MaxTrackers, NEW s \in Snapshots, Register(k, s),
           \A j \in Trackers, r \in Snapshots :
               Held(j, r)' = IF j = k /\ r = s THEN Held(j, r) + 1 ELSE Held(j, r)
    PROVE  RegistrationsMatch' /\ registered' \in [Trackers -> [Snapshots -> Nat]]
<1>0. registered \in [Trackers -> [Snapshots -> Nat]]
    BY DEF TypeInv
<1>1. CASE k = 0
    <2>1. registered' = registered /\ k \notin Trackers
        BY <1>1, Bounds DEF Register
    <2> QED BY <1>0, <2>1 DEF RegistrationsMatch
<1>2. CASE k # 0
    <2>1. k \in Trackers
        BY <1>2, Bounds
    <2>2. registered' = [registered EXCEPT ![k][s] = @ + 1]
        BY <1>2 DEF Register
    <2>3. registered' \in [Trackers -> [Snapshots -> Nat]]
        BY <1>0, <2>1, <2>2
    <2>4. \A j \in Trackers, r \in Snapshots :
             registered'[j][r] = IF j = k /\ r = s THEN registered[j][r] + 1 ELSE registered[j][r]
        BY <1>0, <2>1, <2>2
    <2> QED BY <2>3, <2>4 DEF RegistrationsMatch
<1> QED BY <1>1, <1>2

LEMMA Released ==
    ASSUME TypeInv, RegistrationsMatch, NEW k \in 0 .. MaxTrackers, NEW s \in Snapshots, Release(k, s),
           \A j \in Trackers, r \in Snapshots :
               Held(j, r)' = IF j = k /\ r = s THEN Held(j, r) - 1 ELSE Held(j, r),
           k # 0 => Held(k, s) >= 1
    PROVE  RegistrationsMatch' /\ registered' \in [Trackers -> [Snapshots -> Nat]]
<1>0. registered \in [Trackers -> [Snapshots -> Nat]]
    BY DEF TypeInv
<1>1. CASE k = 0
    <2>1. registered' = registered /\ k \notin Trackers
        BY <1>1, Bounds DEF Release
    <2> QED BY <1>0, <2>1 DEF RegistrationsMatch
<1>2. CASE k # 0
    <2>1. k \in Trackers
        BY <1>2, Bounds
    <2>2. registered[k][s] \in Nat /\ registered[k][s] >= 1
        BY <1>0, <1>2, <2>1 DEF RegistrationsMatch
    <2>3. registered' = [registered EXCEPT ![k][s] = @ - 1]
        BY <1>2, <2>2 DEF Release
    <2>4. registered' \in [Trackers -> [Snapshots -> Nat]]
        BY <1>0, <2>1, <2>2, <2>3
    <2>5. \A j \in Trackers, r \in Snapshots :
             registered'[j][r] = IF j = k /\ r = s THEN registered[j][r] - 1 ELSE registered[j][r]
        BY <1>0, <2>1, <2>3
    <2> QED BY <2>4, <2>5 DEF RegistrationsMatch
<1> QED BY <1>1, <1>2

(* The parts of the count that a step leaves alone.                         *)
LEMMA HeldTxStays ==
    ASSUME TypeInv, Made \subseteq Made', \A i \in Made : SameTx(i), \A i \in Made' \ Made : tx'[i].held = 0,
           NEW k \in Trackers, NEW s
    PROVE  HeldTx(k, s)' = HeldTx(k, s)
<1>1. k # 0
    BY Bounds
<1> QED BY <1>1 DEF HeldTx, SameTx

LEMMA ReadingStays ==
    ASSUME NEW t \in Threads, OthersStay(t), db_tracker' = db_tracker,
           th'[t].pc = "read" <=> th[t].pc = "read", th[t].pc = "read" => th'[t].snap = th[t].snap,
           NEW k, NEW s
    PROVE  Reading(k, s)' = Reading(k, s)
BY DEF Reading, OthersStay

LEMMA OpenStays ==
    ASSUME iters' = iters, db_tracker' = db_tracker, NEW k, NEW s
    PROVE  Open(k, s)' = Open(k, s)
BY DEF Open

LEMMA PinsStay ==
    ASSUME PinsMatch, NEW t \in Threads, OthersStay(t), db_tracker' = db_tracker, pins' = pins,
           th'[t].pin = th[t].pin
    PROVE  PinsMatch'
<1>1. \A k, s : {u \in Threads : th[u].pin = s /\ db_tracker = k}' = {u \in Threads : th[u].pin = s /\ db_tracker = k}
    BY DEF OthersStay
<1> QED BY <1>1 DEF PinsMatch

LEMMA CountsStay ==
    ASSUME TypeInv, RegistrationsMatch, registered' = registered, Made \subseteq Made',
           \A i \in Made : SameTx(i), \A i \in Made' \ Made : tx'[i].held = 0,
           NEW t \in Threads, OthersStay(t), db_tracker' = db_tracker, iters' = iters,
           th'[t].pc = "read" <=> th[t].pc = "read", th[t].pc = "read" => th'[t].snap = th[t].snap
    PROVE  RegistrationsMatch'
<1>1. \A k \in Trackers, s \in Snapshots : Held(k, s)' = Held(k, s)
    <2> SUFFICES ASSUME NEW k \in Trackers, NEW s \in Snapshots PROVE Held(k, s)' = Held(k, s)
        OBVIOUS
    <2>1. HeldTx(k, s)' = HeldTx(k, s) /\ Reading(k, s)' = Reading(k, s) /\ Open(k, s)' = Open(k, s)
        BY HeldTxStays, ReadingStays, OpenStays
    <2>2. Held(k, s)' = Cardinality(HeldTx(k, s)') + Cardinality(Reading(k, s)') + Cardinality(Open(k, s)')
        BY DEF Held, HeldTx, Reading, Open
    <2> QED BY <2>1, <2>2, HeldIs
<1> QED BY <1>1 DEF RegistrationsMatch

---------------------------------------------------------------------------
(* Steps of one thread.                                                     *)

LEMMA ThreadStep ==
    ASSUME TxInv, NEW t \in Threads, OthersStay(t), queue' = queue, db_tracker' = db_tracker,
           Made \subseteq Made', \A i \in Made : Has(t, i) \/ SameTx(i),
           \A i \in Made : Len(tx'[i].results) >= Len(tx[i].results),
           \A i \in Made : Has(t, i) \/ Len(tx'[i].results) = Len(tx[i].results), CommitAt(t)',
           ListAt(th[t].ids)',
           \A a \in 1 .. Len(th'[t].ids) : Has(t, th'[t].ids[a]) \/ th'[t].ids[a] \notin Made,
           ThreadAt(t)', \A it \in iters' \ iters : IterAt(it)',
           TypeInv', PinsMatch', RegistrationsMatch'
    PROVE  TxInv'
<1>1. PlaceInv'
    BY PlacesStay DEF TxInv
<1>2. (\A n \in 1 .. Len(queue') : JobAt(n)') /\ \A u \in Threads : ThreadAt(u)'
    BY OthersStayPut DEF TxInv
<1>3. \A it \in iters' : IterAt(it)'
    <2> SUFFICES ASSUME NEW it \in iters, it \in iters' PROVE IterAt(it)'
        OBVIOUS
    <2>1. IterAt(it) /\ TypeInv
        BY DEF TxInv
    <2>2. it.tx \in Made /\ it.tx \in Made' /\ tx[it.tx].results \in Seq(Result) /\ tx'[it.tx].results \in Seq(Result)
        <3>1. it.tx \in Made /\ it.tx \in Made'
            BY <2>1 DEF IterAt
        <3>2. tx[it.tx] \in TxType /\ tx'[it.tx] \in TxType
            BY <2>1, <3>1 DEF TypeInv, Made
        <3> QED BY <3>1, <3>2 DEF TxType
    <2>3. Len(tx'[it.tx].results) >= Len(tx[it.tx].results)
        BY <2>2
    <2> QED BY <2>1, <2>2, <2>3 DEF IterAt
<1>4. ASSUME NEW u \in Threads, u # t PROVE CommitAt(u)'
    <2>1. CommitAt(u) /\ ThreadAt(u) /\ th'[u] = th[u] /\ TypeInv /\ PlaceInv
        BY <1>4 DEF TxInv, OthersStay
    <2> SUFFICES ASSUME th[u].pc = "commit"
                 PROVE  CommitAt(u)'
        BY <2>1 DEF CommitAt
    <2>2. Len(th[u].ids) >= 1
        BY <2>1 DEF ThreadAt
    <2>3. PICK i \in Made : i = Cur(u)
        BY <2>1, <2>2, CurFacts
    <2>4. ~Has(t, i)
        <3>1. th[u].ids[1] = i /\ Len(th[u].ids) \in Nat
            BY <2>1, <2>2, <2>3, CurFacts, ThreadTypes
        <3>2. Apart(th[t].ids, th[u].ids)
            BY <1>4, <2>1 DEF PlaceInv
        <3> QED BY <2>2, <3>1, <3>2 DEF Has, Apart
    <2>5. tx'[i].script = tx[i].script /\ Len(tx'[i].results) = Len(tx[i].results)
        BY <2>4 DEF SameTx
    <2>6. Cur(u)' = i
        BY <2>1, <2>3 DEF Cur
    <2>7. Pos(i)' = Pos(i) /\ Op(i)' = Op(i)
        BY <2>5 DEF Pos, Op
    <2> QED BY <2>1, <2>3, <2>5, <2>6, <2>7 DEF CommitAt
<1> QED BY <1>1, <1>2, <1>3, <1>4 DEF TxInv

(* The thread keeps its transactions, and nothing that is counted changes.  *)
LEMMA QuietStep ==
    ASSUME TxInv, NEW t \in Threads, NEW x \in ThreadType, th' = [th EXCEPT ![t] = x], x.ids = th[t].ids, x.pin = th[t].pin,
           queue' = queue, db_tracker' = db_tracker, registered' = registered, pins' = pins, iters' = iters,
           x.pc # "read", th[t].pc # "read",
           Made' = Made, \A i \in Made : SameTx(i) /\ Len(tx'[i].results) >= Len(tx[i].results),
           \A i \in Made : Has(t, i) \/ Len(tx'[i].results) = Len(tx[i].results), CommitAt(t)',
           ThreadAt(t)', TypeInv'
    PROVE  TxInv'
<1>1. OthersStay(t) /\ th'[t] = x
    BY DEF OthersStay, TxInv, TypeInv
<1>2. ListAt(th[t].ids)' /\ \A a \in 1 .. Len(th'[t].ids) : Has(t, th'[t].ids[a])
    BY <1>1 DEF TxInv, PlaceInv, ListAt, Has
<1>3. RegistrationsMatch'
    BY <1>1, CountsStay DEF TxInv
<1>4. PinsMatch'
    BY <1>1, PinsStay DEF TxInv
<1> QED BY <1>1, <1>2, <1>3, <1>4, ThreadStep

(* A running thread goes on with the same transactions.                     *)
LEMMA RunsOn ==
    ASSUME TxInv, NEW t \in Threads, NEW x, th'[t] = x, th[t].pc \in RunPCs, x.pc \in RunPCs,
           x.ids = th[t].ids, x.via = th[t].via, x.trk = th[t].trk, x.pin = th[t].pin,
           x.pc # "begin" => x.snap \in Snapshots,
           db_tracker' = db_tracker, \A i \in Made : SameTx(i)
    PROVE  ThreadAt(t)'
<1>1. PICK ids \in Seq(Nat) : ids = th[t].ids
    BY ThreadTypes DEF TxInv
<1>2. ThreadAt(t) /\ ListAt(ids) /\ Len(ids) >= 1
    BY <1>1 DEF TxInv, PlaceInv, ThreadAt, RunPCs
<1>3. \A a \in 1 .. Len(ids) : SameTx(ids[a])
    BY <1>2 DEF ListAt
<1>4. /\ Len(ids) >= 1 => Due(ids[1])' = Due(ids[1]) /\ tx'[ids[1]].held = tx[ids[1]].held
      /\ NoneHeld(ids, 1) => NoneHeld(ids, 1)'
      /\ NoneHeld(ids, 2) => NoneHeld(ids, 2)'
    BY <1>3, ListStays
<1>5. x.pc \notin CallPCs \cup {"enq", "idle"} /\ th[t].pc \notin CallPCs \cup {"enq", "idle"}
    BY DEF RunPCs, CallPCs
<1>6. t \in Callers => CallerAt(t)'
    BY <1>1, <1>2, <1>4, <1>5 DEF CallerAt, ThreadAt, CallPCs
<1>7. t \in Workers => WorkerAt(t)'
    BY <1>1, <1>2, <1>4, <1>5 DEF WorkerAt, ThreadAt, CallPCs
<1>8. x.pc \notin {"idle", "pin"}
    BY <1>5 DEF CallPCs
<1> QED BY <1>1, <1>2, <1>5, <1>6, <1>7, <1>8 DEF ThreadAt, CallPCs, RunPCs

(* One transaction changes.                                                 *)
LEMMA TxUpdate ==
    ASSUME TypeInv, NEW i \in Made, NEW x \in TxType, tx' = [tx EXCEPT ![i] = x]
    PROVE  /\ tx' \in Seq(TxType) /\ Made' = Made /\ Len(tx') = Len(tx) /\ tx'[i] = x
           /\ \A j \in Made : j # i => tx'[j] = tx[j]
<1>1. tx \in Seq(TxType) /\ i \in 1 .. Len(tx)
    BY DEF TypeInv, Made
<1> QED BY <1>1 DEF Made

LEMMA AppendType ==
    ASSUME NEW S, NEW seq \in Seq(S), NEW e \in S
    PROVE  Append(seq, e) \in Seq(S) /\ Len(Append(seq, e)) = Len(seq) + 1
OBVIOUS

LEMMA ExceptType ==
    ASSUME NEW S, NEW seq \in Seq(S), NEW n \in 1 .. Len(seq), NEW e \in S
    PROVE  [seq EXCEPT ![n] = e] \in Seq(S) /\ Len([seq EXCEPT ![n] = e]) = Len(seq)
OBVIOUS

LEMMA PushFacts ==
    ASSUME TypeInv, NEW i \in Made, NEW res \in Result, Push(i, res)
    PROVE  /\ tx' \in Seq(TxType) /\ Made' = Made
           /\ tx'[i] = [tx[i] EXCEPT !.results = Append(@, res)]
           /\ \A j \in Made : j # i => tx'[j] = tx[j]
           /\ \A j \in Made : SameTx(j) /\ Len(tx'[j].results) >= Len(tx[j].results)
           /\ Len(tx'[i].results) = Len(tx[i].results) + 1
<1>1. tx[i] \in TxType /\ tx[i].results \in Seq(Result)
    BY TxTypes
<1>2. PICK x : x = [tx[i] EXCEPT !.results = Append(@, res)]
    OBVIOUS
<1>3. /\ x \in TxType /\ x.results = Append(tx[i].results, res)
      /\ x.held = tx[i].held /\ x.snap = tx[i].snap /\ x.script = tx[i].script /\ x.protected = tx[i].protected
    <2>1. PICK more \in Seq(Result) : more = Append(tx[i].results, res)
        BY <1>1, AppendType
    <2>2. x = [tx[i] EXCEPT !.results = more]
        BY <1>2, <2>1
    <2> QED BY <1>1, <2>1, <2>2 DEF TxType
<1>4. tx' = [tx EXCEPT ![i] = x]
    BY <1>2 DEF Push
<1>5. /\ tx' \in Seq(TxType) /\ Made' = Made /\ tx'[i] = x
      /\ \A j \in Made : j # i => tx'[j] = tx[j]
    BY <1>3, <1>4, TxUpdate
<1>6. Len(tx'[i].results) = Len(tx[i].results) + 1 /\ Len(tx[i].results) \in Nat
    BY <1>1, <1>3, <1>5
<1>7. ASSUME NEW j \in Made PROVE SameTx(j) /\ Len(tx'[j].results) >= Len(tx[j].results)
    <2>1. CASE j = i
        BY <1>3, <1>5, <1>6, <2>1 DEF SameTx
    <2>2. CASE j # i
        <3>1. tx'[j] = tx[j] /\ Len(tx[j].results) \in Nat
            BY <1>5, <2>2, TxTypes
        <3> QED BY <3>1 DEF SameTx
    <2> QED BY <2>1, <2>2
<1> QED BY <1>2, <1>5, <1>6, <1>7

---------------------------------------------------------------------------
(* dispatch_transaction: what registers nothing.                            *)

LEMMA RunFacts ==
    ASSUME TxInv, NEW t \in Threads, th[t].pc \in RunPCs
    PROVE  /\ TypeInv /\ th[t] \in ThreadType /\ Len(th[t].ids) >= 1
           /\ Cur(t) = th[t].ids[1] /\ Cur(t) \in Made /\ Has(t, Cur(t))
           /\ th[t].pc # "begin" => th[t].snap \in Snapshots
<1>1. TypeInv /\ PlaceInv /\ ThreadAt(t)
    BY DEF TxInv
<1>2. Len(th[t].ids) >= 1 /\ th[t].ids \in Seq(Nat)
    BY <1>1, ThreadTypes DEF ThreadAt, RunPCs
<1>3. th[t].pc # "begin" => th[t].snap \in Snapshots
    BY <1>1 DEF ThreadAt, RunPCs
<1>4. Cur(t) = th[t].ids[1] /\ Cur(t) \in Made
    BY <1>1, <1>2, CurFacts
<1> QED BY <1>1, <1>2, <1>3, <1>4, ThreadTypes DEF Has

LEMMA OpFacts ==
    ASSUME TxInv, NEW t \in Threads, HasNext(t)
    PROVE  /\ Op(Cur(t)) \in Operation /\ th[t].pc = "next" /\ th[t].pc \in RunPCs
           /\ Pos(Cur(t)) \in 1 .. Len(tx[Cur(t)].script)
           /\ Op(Cur(t)).op \in WriteOps => Op(Cur(t)).key \in Keys
<1>1. th[t].pc = "next" /\ th[t].pc \in RunPCs
    BY DEF HasNext, RunPCs
<1>2. Cur(t) \in Made /\ TypeInv
    BY <1>1, RunFacts
<1>3. tx[Cur(t)].results \in Seq(Result) /\ tx[Cur(t)].script \in Seq(Operation)
    BY <1>2, TxTypes
<1>4. Pos(Cur(t)) \in 1 .. Len(tx[Cur(t)].script)
    BY <1>3 DEF HasNext, Pos
<1>5. Op(Cur(t)) \in Operation
    BY <1>3, <1>4 DEF Op
<1>6. \A o \in Operation : o.op \in WriteOps => o.key \in Keys
    BY DEF Operation, WriteOps, ReadOps
<1> QED BY <1>1, <1>4, <1>5, <1>6

LEMMA CommitFacts ==
    ASSUME TxInv, NEW t \in Threads, th[t].pc = "commit"
    PROVE  /\ Op(Cur(t)) \in Operation /\ Op(Cur(t)).op \in WriteOps /\ Op(Cur(t)).key \in Keys
           /\ Pos(Cur(t)) \in 1 .. Len(tx[Cur(t)].script)
<1>1. Cur(t) \in Made /\ TypeInv /\ CommitAt(t)
    BY RunFacts DEF RunPCs, TxInv
<1>2. tx[Cur(t)].results \in Seq(Result) /\ tx[Cur(t)].script \in Seq(Operation)
    BY <1>1, TxTypes
<1>3. Pos(Cur(t)) \in 1 .. Len(tx[Cur(t)].script)
    BY <1>1, <1>2 DEF CommitAt, Pos
<1>4. Op(Cur(t)) \in Operation /\ Op(Cur(t)).op \in WriteOps
    BY <1>1, <1>2, <1>3 DEF Op, CommitAt
<1>5. \A o \in Operation : o.op \in WriteOps => o.key \in Keys
    BY DEF Operation, WriteOps, ReadOps
<1> QED BY <1>3, <1>4, <1>5

LEMMA IsolationType ==
    ASSUME TypeInv, NEW i \in Made
    PROVE  Isolation(i) \in Snapshots
<1>1. tx[i].snap \in 0 .. Latest /\ wm \in Snapshots /\ Latest \in Snapshots
    BY TxTypes, Bounds DEF TypeInv
<1> QED BY <1>1, Bounds DEF Isolation, NoSnap

LEMMA DispatchTx ==
    ASSUME TxInv, NEW t \in Threads, Dispatch(t)
    PROVE  TxInv'
<1>1. th[t].pc = "begin" /\ th[t].pc \in RunPCs /\ UNCHANGED <<clockVars, treeVars, gcVars, pool, queue, tx, iters, todo>>
    BY DEF Dispatch, RunPCs
<1>2. TypeInv /\ th[t] \in ThreadType /\ Cur(t) \in Made
    BY <1>1, RunFacts
<1>3. PICK s \in Snapshots : s = Isolation(Cur(t))
    BY <1>2, IsolationType
<1>4. PICK x : x = [th[t] EXCEPT !.pc = "next", !.snap = s]
    OBVIOUS
<1>5. /\ x \in ThreadType /\ x.pc = "next" /\ x.snap = s
      /\ x.ids = th[t].ids /\ x.via = th[t].via /\ x.trk = th[t].trk /\ x.pin = th[t].pin
    <2>1. s \in 0 .. Latest
        BY Bounds
    <2> QED BY <1>2, <1>4, <2>1 DEF ThreadType, ThreadPCs
<1>6. th' = [th EXCEPT ![t] = x]
    BY <1>2, <1>3, <1>4 DEF Dispatch, TypeInv
<1>7. th'[t] = x /\ th' \in [Threads -> ThreadType]
    BY <1>2, <1>5, <1>6 DEF TypeInv
<1>8. TypeInv'
    BY <1>1, <1>2, <1>7 DEF TypeInv, clockVars, treeVars, gcVars, Alive
<1>9. Made' = Made /\ \A i \in Made : SameTx(i) /\ Len(tx'[i].results) >= Len(tx[i].results)
    <2>1. \A i \in Made : Len(tx[i].results) \in Nat
        BY <1>2, TxTypes
    <2> QED BY <1>1, <2>1 DEF Made, SameTx
<1>10. x.pc \in RunPCs
    BY <1>5 DEF RunPCs
<1>11. ThreadAt(t)'
    BY <1>1, <1>5, <1>7, <1>9, <1>10, RunsOn DEF gcVars
<1>12. CommitAt(t)' /\ \A i \in Made : Len(tx'[i].results) = Len(tx[i].results)
    BY <1>1, <1>5, <1>7 DEF CommitAt
<1> QED BY <1>1, <1>5, <1>6, <1>8, <1>9, <1>11, <1>12, QuietStep DEF gcVars

(* A running thread appends a result and goes on.                           *)
LEMMA PushStep ==
    ASSUME TxInv, NEW t \in Threads, th[t].pc \in {"next", "commit"}, NEW res \in Result, Push(Cur(t), res),
           NEW x \in ThreadType, th' = [th EXCEPT ![t] = x], x.pc = "next", x.ids = th[t].ids, x.pin = th[t].pin,
           x.via = th[t].via, x.trk = th[t].trk, x.snap = th[t].snap,
           clock' = clock, wm' = wm, inflight' \in SUBSET Nat,
           UNCHANGED <<treeVars, gcVars, pool, queue, iters, todo>>
    PROVE  TxInv'
<1>1. th[t].pc \in RunPCs /\ x.pc \in RunPCs /\ th[t].pc # "begin"
    BY DEF RunPCs
<1>2. TypeInv /\ Cur(t) \in Made /\ th[t].snap \in Snapshots
    BY <1>1, RunFacts
<1>3. tx' \in Seq(TxType) /\ Made' = Made /\ \A j \in Made : SameTx(j) /\ Len(tx'[j].results) >= Len(tx[j].results)
    BY <1>2, PushFacts
<1>4. th'[t] = x /\ th' \in [Threads -> ThreadType]
    BY <1>2 DEF TypeInv
<1>5. TypeInv'
    BY <1>2, <1>3, <1>4 DEF TypeInv, treeVars, gcVars, Alive
<1>6. ThreadAt(t)'
    BY <1>1, <1>2, <1>3, <1>4, RunsOn DEF gcVars
<1>7. CommitAt(t)' /\ \A i \in Made : Has(t, i) \/ Len(tx'[i].results) = Len(tx[i].results)
    BY <1>1, <1>2, <1>4, PushFacts, RunFacts DEF CommitAt
<1> QED BY <1>1, <1>3, <1>5, <1>6, <1>7, QuietStep DEF gcVars

LEMMA WriteVoidTx ==
    ASSUME TxInv, NEW t \in Threads, WriteVoid(t)
    PROVE  TxInv'
<1>1. HasNext(t) /\ Op(Cur(t)).op \in WriteOps
    BY DEF WriteVoid, WriteOps
<1>2. Op(Cur(t)).key \in Keys /\ th[t].pc = "next" /\ th[t].pc \in RunPCs
    BY <1>1, OpFacts
<1>3. PICK res : res = [op |-> "void", key |-> Op(Cur(t)).key]
    OBVIOUS
<1>4. res \in Result
    <2>1. res \in [op : {"void"}, key : Keys]
        BY <1>2, <1>3
    <2> QED BY <2>1 DEF Result, WriteResult
<1>5. Push(Cur(t), res) /\ UNCHANGED <<clockVars, treeVars, gcVars, pool, queue, iters, th, todo>>
    BY <1>3 DEF WriteVoid
<1>6. TypeInv /\ th[t] \in ThreadType
    BY <1>2, RunFacts
<1>7. th' = [th EXCEPT ![t] = th[t]]
    BY <1>5, <1>6 DEF TypeInv
<1>8. clock' = clock /\ wm' = wm /\ inflight' \in SUBSET Nat
    BY <1>5, <1>6 DEF TypeInv, clockVars
<1> QED BY <1>2, <1>4, <1>5, <1>6, <1>7, <1>8, PushStep

LEMMA WriteEndTx ==
    ASSUME TxInv, NEW t \in Threads, WriteEnd(t)
    PROVE  TxInv'
<1>1. th[t].pc = "commit" /\ th[t].pc \in RunPCs /\ Clock!Finish(th[t].ver)
    BY DEF WriteEnd, RunPCs
<1>2. TypeInv /\ th[t] \in ThreadType /\ th[t].ver \in Nat
    BY <1>1, RunFacts, ThreadTypes
<1>3. PICK res : res = [op |-> "write", key |-> Op(Cur(t)).key, ver |-> th[t].ver]
    OBVIOUS
<1>4. res \in Result
    <2>1. res \in [op : {"write"}, key : Keys, ver : Nat]
        BY <1>1, <1>2, <1>3, CommitFacts
    <2> QED BY <2>1 DEF Result, WriteResult
<1>5. Push(Cur(t), res) /\ UNCHANGED <<treeVars, gcVars, pool, queue, iters, todo>>
    BY <1>3 DEF WriteEnd
<1>6. PICK x : x = [th[t] EXCEPT !.pc = "next", !.ver = 0]
    OBVIOUS
<1>7. /\ x \in ThreadType /\ x.pc = "next" /\ x.snap = th[t].snap
      /\ x.ids = th[t].ids /\ x.via = th[t].via /\ x.trk = th[t].trk /\ x.pin = th[t].pin
    BY <1>2, <1>6 DEF ThreadType, ThreadPCs
<1>8. th' = [th EXCEPT ![t] = x]
    BY <1>2, <1>6 DEF WriteEnd, TypeInv
<1>9. clock' = clock /\ wm' = wm /\ inflight' \in SUBSET Nat
    BY <1>1, <1>2 DEF TypeInv, Clock!Finish
<1> QED BY <1>1, <1>4, <1>5, <1>7, <1>8, <1>9, PushStep

LEMMA WriteStartTx ==
    ASSUME TxInv, NEW t \in Threads, WriteStart(t)
    PROVE  TxInv'
<1>1. /\ HasNext(t) /\ clock < MaxClock /\ clock' = clock + 1 /\ inflight' = inflight \cup {clock} /\ wm' = wm
      /\ UNCHANGED <<horizon, gcVars, pool, queue, tx, iters, todo>>
    BY DEF WriteStart, Clock!Begin
<1>2. PICK o \in Operation : o = Op(Cur(t))
    BY <1>1, OpFacts
<1>3. th[t].pc = "next" /\ th[t].pc \in RunPCs /\ o.op \in WriteOps /\ o.key \in Keys
    <2>1. o.op \in WriteOps
        BY <1>2 DEF WriteStart, WriteOps
    <2> QED BY <1>1, <1>2, <2>1, OpFacts
<1>4. TypeInv /\ th[t] \in ThreadType /\ th[t].snap \in Snapshots /\ Cur(t) \in Made /\ clock \in Nat
    BY <1>3, RunFacts DEF TypeInv
<1>5. recs' \in SUBSET RecType /\ \A r \in recs' : r.from < clock' /\ (r.to < clock' \/ Alive(r))
    <2>1. /\ recs \in SUBSET RecType /\ \A r \in recs : r.from < clock /\ (r.to < clock \/ Alive(r))
          /\ clock \in Nat /\ Latest \in Nat
        BY <1>4, Bounds DEF TypeInv
    <2>2. \A r \in recs : r.from \in Nat /\ r.to \in Nat /\ r.from < clock' /\ (r.to < clock' \/ Alive(r))
        BY <1>1, <2>1 DEF RecType
    <2>3. PICK fresh : fresh = [key |-> o.key, from |-> clock, to |-> Latest]
        OBVIOUS
    <2>4. fresh \in RecType /\ fresh.from < clock' /\ Alive(fresh)
        BY <1>1, <1>3, <2>1, <2>3 DEF RecType, Alive
    <2>5. ASSUME IsLive(o.key), NEW r, r = [LiveRec(o.key) EXCEPT !.to = clock]
          PROVE  r \in RecType /\ r.from < clock' /\ r.to < clock'
        <3>1. LiveRec(o.key) \in recs
            BY <2>5 DEF IsLive, LiveRec
        <3>2. LiveRec(o.key) \in RecType /\ LiveRec(o.key).from < clock'
            BY <2>1, <2>2, <3>1
        <3> HIDE DEF LiveRec
        <3> QED BY <1>1, <2>1, <2>5, <3>2 DEF RecType
    <2>6. \A r \in recs' : \/ r \in recs \/ r = fresh
                           \/ IsLive(o.key) /\ r = [LiveRec(o.key) EXCEPT !.to = clock]
        BY <1>2, <2>3 DEF WriteStart
    <2> QED BY <2>1, <2>2, <2>4, <2>5, <2>6
<1>6. PICK x : x = [th[t] EXCEPT !.pc = "commit", !.ver = clock]
    OBVIOUS
<1>7. /\ x \in ThreadType /\ x.pc = "commit" /\ x.snap = th[t].snap
      /\ x.ids = th[t].ids /\ x.via = th[t].via /\ x.trk = th[t].trk /\ x.pin = th[t].pin
    BY <1>4, <1>6 DEF ThreadType, ThreadPCs
<1>8. th' = [th EXCEPT ![t] = x]
    BY <1>4, <1>6 DEF WriteStart, TypeInv
<1>9. th'[t] = x /\ th' \in [Threads -> ThreadType]
    BY <1>4, <1>7, <1>8 DEF TypeInv
<1>10. TypeInv'
    <2>1. clock' \in 1 .. MaxClock /\ wm' \in 1 .. clock' /\ inflight' \in SUBSET Nat /\ horizon' \in 0 .. wm' - 1
        BY <1>1, <1>4, Bounds DEF TypeInv
    <2> QED BY <1>1, <1>4, <1>5, <1>9, <2>1 DEF TypeInv, gcVars, Alive
<1>11. Made' = Made /\ \A i \in Made : /\ SameTx(i) /\ Len(tx'[i].results) >= Len(tx[i].results)
                                       /\ Len(tx'[i].results) = Len(tx[i].results)
    <2>1. \A i \in Made : Len(tx[i].results) \in Nat
        BY <1>4, TxTypes
    <2> QED BY <1>1, <2>1 DEF Made, SameTx
<1>12. x.pc \in RunPCs
    BY <1>7 DEF RunPCs
<1>13. ThreadAt(t)'
    BY <1>1, <1>3, <1>4, <1>7, <1>9, <1>11, <1>12, RunsOn DEF gcVars
<1>14. CommitAt(t)'
    <2>1. Cur(t)' = Cur(t)
        BY <1>7, <1>9 DEF Cur
    <2>2. Pos(Cur(t)) <= Len(tx[Cur(t)].script)
        BY <1>1 DEF HasNext
    <2> QED BY <1>1, <1>2, <1>3, <2>1, <2>2 DEF CommitAt, Pos, Op
<1> QED BY <1>1, <1>3, <1>7, <1>8, <1>10, <1>11, <1>13, <1>14, QuietStep DEF gcVars

(* The transaction is over, with a result or with an error.                 *)
LEMMA EndTx ==
    ASSUME TxInv, NEW t \in Threads, th[t].pc = "next", Goto(t, "next", "deq"),
           NEW y \in TxType, tx' = [tx EXCEPT ![Cur(t)] = y],
           y.held = tx[Cur(t)].held, y.snap = tx[Cur(t)].snap, y.script = tx[Cur(t)].script, y.protected = tx[Cur(t)].protected,
           Len(y.results) >= Len(tx[Cur(t)].results),
           UNCHANGED <<clockVars, treeVars, gcVars, pool, queue, iters, todo>>
    PROVE  TxInv'
<1>1. th[t].pc \in RunPCs /\ th[t].pc # "begin"
    BY DEF RunPCs
<1>2. TypeInv /\ th[t] \in ThreadType /\ th[t].snap \in Snapshots /\ Cur(t) \in Made /\ Has(t, Cur(t))
    BY <1>1, RunFacts
<1>3. PICK x : x = [th[t] EXCEPT !.pc = "deq"]
    OBVIOUS
<1>4. /\ x \in ThreadType /\ x.pc = "deq" /\ x.snap = th[t].snap
      /\ x.ids = th[t].ids /\ x.via = th[t].via /\ x.trk = th[t].trk /\ x.pin = th[t].pin
    BY <1>2, <1>3 DEF ThreadType, ThreadPCs
<1>5. th' = [th EXCEPT ![t] = x]
    BY <1>2, <1>3 DEF Goto, TypeInv
<1>6. th'[t] = x /\ th' \in [Threads -> ThreadType]
    BY <1>2, <1>4, <1>5 DEF TypeInv
<1>7. /\ tx' \in Seq(TxType) /\ Made' = Made /\ tx'[Cur(t)] = y
      /\ \A j \in Made : j # Cur(t) => tx'[j] = tx[j]
    BY <1>2, TxUpdate
<1>8. TypeInv'
    BY <1>2, <1>6, <1>7 DEF TypeInv, clockVars, treeVars, gcVars, Alive
<1>9. ASSUME NEW j \in Made
      PROVE  /\ SameTx(j) /\ Len(tx'[j].results) >= Len(tx[j].results)
             /\ Has(t, j) \/ Len(tx'[j].results) = Len(tx[j].results)
    <2>1. CASE j = Cur(t)
        BY <1>2, <1>7, <2>1 DEF SameTx
    <2>2. CASE j # Cur(t)
        <3>1. tx'[j] = tx[j] /\ Len(tx[j].results) \in Nat
            BY <1>2, <1>7, <2>2, TxTypes
        <3> QED BY <3>1 DEF SameTx
    <2> QED BY <2>1, <2>2
<1>10. x.pc \in RunPCs
    BY <1>4 DEF RunPCs
<1>11. ThreadAt(t)'
    BY <1>1, <1>2, <1>4, <1>6, <1>9, <1>10, RunsOn DEF gcVars
<1>12. CommitAt(t)'
    BY <1>4, <1>6 DEF CommitAt
<1> QED BY <1>1, <1>4, <1>5, <1>7, <1>8, <1>9, <1>11, <1>12, QuietStep DEF gcVars

LEMMA FailTx ==
    ASSUME TxInv, NEW t \in Threads, Fail(t)
    PROVE  TxInv'
<1>1. th[t].pc = "next" /\ th[t].pc \in RunPCs
    BY DEF Fail, HasNext, RunPCs
<1>2. Cur(t) \in Made /\ TypeInv
    BY <1>1, RunFacts
<1>3. tx[Cur(t)] \in TxType /\ tx[Cur(t)].results \in Seq(Result)
    BY <1>2, TxTypes
<1>4. [op |-> "error"] \in Result
    BY DEF Result
<1>5. PICK more \in Seq(Result) : more = Append(tx[Cur(t)].results, [op |-> "error"])
    BY <1>3, <1>4, AppendType
<1>6. Len(more) >= Len(tx[Cur(t)].results)
    BY <1>3, <1>5
<1>7. PICK y : y = [tx[Cur(t)] EXCEPT !.results = more, !.stage = "failed"]
    OBVIOUS
<1>8. /\ y \in TxType /\ y.results = more
      /\ y.held = tx[Cur(t)].held /\ y.snap = tx[Cur(t)].snap /\ y.script = tx[Cur(t)].script /\ y.protected = tx[Cur(t)].protected
    BY <1>3, <1>7 DEF TxType
<1>9. tx' = [tx EXCEPT ![Cur(t)] = y]
    BY <1>2, <1>5, <1>7 DEF Fail, TypeInv, Made
<1> QED BY <1>1, <1>6, <1>8, <1>9, EndTx DEF Fail

LEMMA CompleteTx ==
    ASSUME TxInv, NEW t \in Threads, Complete(t)
    PROVE  TxInv'
<1>1. th[t].pc = "next" /\ th[t].pc \in RunPCs
    BY DEF Complete, RunPCs
<1>2. Cur(t) \in Made /\ TypeInv
    BY <1>1, RunFacts
<1>3. tx[Cur(t)] \in TxType /\ Len(tx[Cur(t)].results) \in Nat
    BY <1>2, TxTypes
<1>4. PICK y : y = [tx[Cur(t)] EXCEPT !.stage = "ok"]
    OBVIOUS
<1>5. /\ y \in TxType /\ y.results = tx[Cur(t)].results
      /\ y.held = tx[Cur(t)].held /\ y.snap = tx[Cur(t)].snap /\ y.script = tx[Cur(t)].script /\ y.protected = tx[Cur(t)].protected
    BY <1>3, <1>4 DEF TxType
<1>6. tx' = [tx EXCEPT ![Cur(t)] = y]
    BY <1>4 DEF Complete
<1>7. Len(y.results) >= Len(tx[Cur(t)].results)
    BY <1>3, <1>5
<1>8. Goto(t, "next", "deq") /\ UNCHANGED <<clockVars, treeVars, gcVars, pool, queue, iters, todo>>
    BY DEF Complete
<1> QED BY <1>1, <1>5, <1>6, <1>7, <1>8, EndTx

---------------------------------------------------------------------------
(* dispatch_transaction: the queries and the iterators, which register.     *)

LEMMA RunStep ==
    ASSUME TxInv, NEW t \in Threads, th[t].pc \in RunPCs, NEW x \in ThreadType, th' = [th EXCEPT ![t] = x],
           x.pc \in RunPCs \ {"begin", "commit"}, x.ids = th[t].ids, x.via = th[t].via, x.trk = th[t].trk,
           x.pin = th[t].pin, x.snap \in Snapshots,
           tx' \in Seq(TxType), Made' = Made, \A i \in Made : SameTx(i) /\ Len(tx'[i].results) >= Len(tx[i].results),
           \A i \in Made : Has(t, i) \/ Len(tx'[i].results) = Len(tx[i].results),
           iters' \in SUBSET IterType, IsFiniteSet(iters'), \A it \in iters' \ iters : IterAt(it)',
           registered' \in [Trackers -> [Snapshots -> Nat]], RegistrationsMatch',
           UNCHANGED <<clockVars, treeVars, created, db_tracker, pins, pool, queue, todo>>
    PROVE  TxInv'
<1>1. TypeInv /\ PlaceInv /\ PinsMatch
    BY DEF TxInv
<1>2. OthersStay(t) /\ th'[t] = x /\ th' \in [Threads -> ThreadType]
    BY <1>1 DEF OthersStay, TypeInv
<1>3. ListAt(th[t].ids)' /\ \A a \in 1 .. Len(th'[t].ids) : Has(t, th'[t].ids[a])
    BY <1>1, <1>2 DEF PlaceInv, ListAt, Has
<1>4. TypeInv'
    BY <1>1, <1>2 DEF TypeInv, clockVars, treeVars, Alive
<1>5. PinsMatch'
    BY <1>1, <1>2, PinsStay
<1>6. ThreadAt(t)'
    BY <1>2, RunsOn
<1>7. CommitAt(t)'
    BY <1>2 DEF CommitAt
<1> QED BY <1>2, <1>3, <1>4, <1>5, <1>6, <1>7, ThreadStep

LEMMA WalkedType ==
    ASSUME TypeInv, NEW s \in Snapshots
    PROVE  /\ Walked(s) \in Int
           /\ horizon < s => horizon <= Walked(s)
           /\ s # Latest => Walked(s) = s
<1>1. clock \in Nat /\ wm \in 1 .. clock /\ horizon \in 0 .. wm - 1 /\ s \in Nat
    BY Bounds DEF TypeInv
<1> QED BY <1>1 DEF Walked

LEMMA ReadStartTx ==
    ASSUME TxInv, NEW t \in Threads, ReadStart(t)
    PROVE  TxInv'
<1>1. /\ HasNext(t) /\ Register(db_tracker, th[t].snap)
      /\ UNCHANGED <<clockVars, treeVars, created, db_tracker, pins, pool, queue, tx, iters, todo>>
    BY DEF ReadStart
<1>2. th[t].pc = "next" /\ th[t].pc \in RunPCs
    BY <1>1 DEF HasNext, RunPCs
<1>3. TypeInv /\ th[t] \in ThreadType /\ th[t].snap \in Snapshots /\ RegistrationsMatch
    BY <1>2, RunFacts DEF TxInv
<1>4. PICK a \in Int : a = Walked(th[t].snap)
    BY <1>3, WalkedType
<1>5. PICK x : x = [th[t] EXCEPT !.pc = "read", !.at = a]
    OBVIOUS
<1>6. /\ x \in ThreadType /\ x.pc = "read" /\ x.snap = th[t].snap
      /\ x.ids = th[t].ids /\ x.via = th[t].via /\ x.trk = th[t].trk /\ x.pin = th[t].pin
    BY <1>3, <1>5 DEF ThreadType, ThreadPCs
<1>7. th' = [th EXCEPT ![t] = x]
    BY <1>3, <1>4, <1>5 DEF ReadStart, TypeInv
<1>8. th'[t] = x /\ \A u \in Threads : u # t => th'[u] = th[u]
    BY <1>3, <1>7 DEF TypeInv
<1>9. Made' = Made /\ tx' \in Seq(TxType) /\ \A i \in Made : SameTx(i) /\ Len(tx'[i].results) >= Len(tx[i].results)
    <2>1. \A i \in Made : Len(tx[i].results) \in Nat
        BY <1>3, TxTypes
    <2> QED BY <1>1, <1>3, <2>1 DEF Made, SameTx, TypeInv
<1>10. RegistrationsMatch' /\ registered' \in [Trackers -> [Snapshots -> Nat]]
    <2>1. ASSUME NEW j \in Trackers, NEW r \in Snapshots
          PROVE  Held(j, r)' = IF j = db_tracker /\ r = th[t].snap THEN Held(j, r) + 1 ELSE Held(j, r)
        <3>1. HeldTx(j, r)' = HeldTx(j, r) /\ Open(j, r)' = Open(j, r)
            BY <1>1 DEF HeldTx, Open, Made
        <3>2. Reading(j, r)' = IF j = db_tracker /\ r = th[t].snap THEN Reading(j, r) \cup {t} ELSE Reading(j, r)
            BY <1>1, <1>2, <1>6, <1>8 DEF Reading
        <3>3. t \notin Reading(j, r)
            BY <1>2 DEF Reading
        <3>4. /\ IsFiniteSet(Reading(j, r)) /\ Cardinality(Reading(j, r)) \in Nat
              /\ Cardinality(HeldTx(j, r)) \in Nat /\ Cardinality(Open(j, r)) \in Nat
            BY <1>3, Countable
        <3>5. Cardinality(Reading(j, r) \cup {t}) = Cardinality(Reading(j, r)) + 1
            BY <3>3, <3>4, Gains
        <3>6. Held(j, r)' = Cardinality(HeldTx(j, r)') + Cardinality(Reading(j, r)') + Cardinality(Open(j, r)')
            BY DEF Held, HeldTx, Reading, Open
        <3> QED BY <3>1, <3>2, <3>4, <3>5, <3>6, HeldIs
    <2>2. db_tracker \in 0 .. MaxTrackers
        BY <1>3 DEF TypeInv
    <2> QED BY <1>1, <1>3, <2>1, <2>2, Registered
<1>11. iters' \in SUBSET IterType /\ IsFiniteSet(iters') /\ iters' \ iters = {}
    BY <1>1, <1>3 DEF TypeInv
<1>12. x.pc \in RunPCs \ {"begin", "commit"} /\ \A i \in Made : Len(tx'[i].results) = Len(tx[i].results)
    BY <1>1, <1>6 DEF RunPCs
<1> QED BY <1>1, <1>2, <1>3, <1>6, <1>7, <1>9, <1>10, <1>11, <1>12, RunStep

(* What a query finds is typed.                                             *)
LEMMA Greatest ==
    ASSUME NEW n \in Nat, NEW S \in SUBSET (0 .. n), S # {}
    PROVE  Max(S) \in S /\ \A y \in S : y <= Max(S)
<1> DEFINE T == {n - x : x \in S}
<1>1. T \subseteq Nat /\ T # {}
    <2>1. \A y \in T : y \in Nat
        OBVIOUS
    <2>2. PICK x \in S : n - x \in T
        OBVIOUS
    <2> QED BY <2>1, <2>2
<1>2. \E x \in T : \A y \in T : ~(<<y, x>> \in OpToRel(<, Nat))
    BY <1>1, NatLessThanWellFounded, WFMin
<1>3. PICK m \in S : \A y \in T : ~(y < n - m)
    BY <1>1, <1>2 DEF OpToRel
<1>4. \A y \in S : m >= y
    <2> SUFFICES ASSUME NEW y \in S PROVE m >= y
        OBVIOUS
    <2>1. ~(n - y < n - m)
        BY <1>3
    <2> QED BY <2>1
<1> HIDE DEF T
<1>5. Max(S) \in S /\ \A y \in S : Max(S) >= y
    BY <1>4 DEF Max
<1> QED BY <1>5

LEMMA FoundType ==
    ASSUME TypeInv, NEW v
    PROVE  Lost \in [Keys -> Int] /\ Answer(v) \in [Keys -> Nat] /\ Answer(v) \in [Keys -> Int]
<1>1. ASSUME NEW k \in Keys PROVE Answer(v)[k] \in Nat
    <2>1. PICK hits : hits = {r \in recs : r.key = k /\ r.from <= v /\ (v < r.to \/ Alive(r))}
        OBVIOUS
    <2>2. PICK S : S = {r.from : r \in hits}
        OBVIOUS
    <2>3. Answer(v)[k] = IF hits = {} THEN 0 ELSE Max(S)
        BY <2>1, <2>2 DEF Answer
    <2>4. \A r \in hits : r.from \in Nat /\ r.from < clock
        BY <2>1 DEF TypeInv, RecType
    <2>5. clock \in Nat
        BY DEF TypeInv
    <2>6. ASSUME hits # {} PROVE Max(S) \in Nat
        <3>1. S \in SUBSET (0 .. clock) /\ S # {}
            BY <2>2, <2>4, <2>5, <2>6
        <3>2. PICK m \in S : m = Max(S)
            BY <2>5, <3>1, Greatest
        <3>3. m \in Nat
            BY <2>5, <3>1, <3>2
        <3> QED BY <3>2, <3>3
    <2> QED BY <2>3, <2>6
<1>2. Answer(v) = [k \in Keys |-> Answer(v)[k]]
    BY DEF Answer
<1>3. Answer(v) \in [Keys -> Nat]
    BY <1>1, <1>2
<1>4. \A f \in [Keys -> Nat] : f \in [Keys -> Int]
    OBVIOUS
<1> QED BY <1>3, <1>4 DEF Lost

(* A thread that ends its query releases what it registered.                *)
LEMMA ReadEndTx ==
    ASSUME TxInv, NEW t \in Threads, ReadEnd(t)
    PROVE  TxInv'
<1>1. /\ th[t].pc = "read" /\ Release(db_tracker, th[t].snap)
      /\ UNCHANGED <<clockVars, treeVars, created, db_tracker, pins, pool, queue, iters, todo>>
    BY DEF ReadEnd, Goto
<1>2. th[t].pc \in RunPCs
    BY <1>1 DEF RunPCs
<1>3. /\ TypeInv /\ th[t] \in ThreadType /\ th[t].snap \in Snapshots /\ RegistrationsMatch
      /\ Cur(t) \in Made /\ Has(t, Cur(t))
    BY <1>1, <1>2, RunFacts DEF TxInv
<1>4. PICK res \in Result : Push(Cur(t), res)
    <2>1. PICK f \in [Keys -> Int] : f = IF th[t].at < horizon THEN Lost ELSE Answer(th[t].snap)
        BY <1>3, FoundType
    <2>2. [op |-> "read", snap |-> th[t].snap, found |-> f] \in Result
        BY <1>3, <2>1 DEF Result, ReadResult
    <2> QED BY <2>1, <2>2 DEF ReadEnd
<1>5. PICK x : x = [th[t] EXCEPT !.pc = "next"]
    OBVIOUS
<1>6. /\ x \in ThreadType /\ x.pc = "next" /\ x.snap = th[t].snap
      /\ x.ids = th[t].ids /\ x.via = th[t].via /\ x.trk = th[t].trk /\ x.pin = th[t].pin
    BY <1>3, <1>5 DEF ThreadType, ThreadPCs
<1>7. th' = [th EXCEPT ![t] = x]
    BY <1>3, <1>5 DEF ReadEnd, Goto, TypeInv
<1>8. th'[t] = x /\ \A u \in Threads : u # t => th'[u] = th[u]
    BY <1>3, <1>7 DEF TypeInv
<1>9. /\ tx' \in Seq(TxType) /\ Made' = Made
      /\ \A j \in Made : SameTx(j) /\ Len(tx'[j].results) >= Len(tx[j].results)
      /\ \A j \in Made : Has(t, j) \/ Len(tx'[j].results) = Len(tx[j].results)
    BY <1>3, <1>4, PushFacts
<1>10. RegistrationsMatch' /\ registered' \in [Trackers -> [Snapshots -> Nat]]
    <2>1. ASSUME NEW j \in Trackers, NEW r \in Snapshots
          PROVE  /\ Held(j, r)' = IF j = db_tracker /\ r = th[t].snap THEN Held(j, r) - 1 ELSE Held(j, r)
                 /\ j = db_tracker /\ r = th[t].snap => Held(j, r) >= 1
        <3>1. HeldTx(j, r)' = HeldTx(j, r) /\ Open(j, r)' = Open(j, r)
            BY <1>1, <1>3, <1>9, HeldTxStays, OpenStays
        <3>2. Reading(j, r)' = IF j = db_tracker /\ r = th[t].snap THEN Reading(j, r) \ {t} ELSE Reading(j, r)
            BY <1>1, <1>6, <1>8 DEF Reading
        <3>3. j = db_tracker /\ r = th[t].snap => t \in Reading(j, r)
            BY <1>1 DEF Reading
        <3>4. /\ IsFiniteSet(Reading(j, r)) /\ Cardinality(Reading(j, r)) \in Nat
              /\ Cardinality(HeldTx(j, r)) \in Nat /\ Cardinality(Open(j, r)) \in Nat
            BY <1>3, Countable
        <3>5. t \in Reading(j, r) => /\ Cardinality(Reading(j, r) \ {t}) = Cardinality(Reading(j, r)) - 1
                                     /\ Cardinality(Reading(j, r)) >= 1
            BY <3>4, Loses
        <3>6. Held(j, r)' = Cardinality(HeldTx(j, r)') + Cardinality(Reading(j, r)') + Cardinality(Open(j, r)')
            BY DEF Held, HeldTx, Reading, Open
        <3> QED BY <3>1, <3>2, <3>3, <3>4, <3>5, <3>6, HeldIs
    <2>2. db_tracker \in 0 .. MaxTrackers /\ (db_tracker # 0 => db_tracker \in Trackers)
        BY <1>3, Bounds DEF TypeInv
    <2> QED BY <1>1, <1>3, <2>1, <2>2, Released
<1>11. iters' \in SUBSET IterType /\ IsFiniteSet(iters') /\ iters' \ iters = {}
    BY <1>1, <1>3 DEF TypeInv
<1>12. x.pc \in RunPCs \ {"begin", "commit"}
    BY <1>6 DEF RunPCs
<1> QED BY <1>1, <1>2, <1>3, <1>6, <1>7, <1>9, <1>10, <1>11, <1>12, RunStep

LEMMA OpenIterTx ==
    ASSUME TxInv, NEW t \in Threads, OpenIter(t)
    PROVE  TxInv'
<1>1. /\ HasNext(t) /\ Register(db_tracker, th[t].snap)
      /\ UNCHANGED <<clockVars, treeVars, created, db_tracker, pins, pool, queue, th, todo>>
    BY DEF OpenIter
<1>2. th[t].pc = "next" /\ th[t].pc \in RunPCs
    BY <1>1 DEF HasNext, RunPCs
<1>3. /\ TypeInv /\ th[t] \in ThreadType /\ th[t].snap \in Snapshots /\ RegistrationsMatch
      /\ Cur(t) \in Made /\ Has(t, Cur(t))
    BY <1>2, RunFacts DEF TxInv
<1>4. PICK i \in Made : i = Cur(t)
    BY <1>3
<1>5. PICK res \in Result : Push(i, res)
    <2>1. PICK f \in [Keys -> Int] : f = Answer(th[t].snap)
        BY <1>3, FoundType
    <2>2. [op |-> "iter", snap |-> th[t].snap, found |-> f] \in Result
        BY <1>3, <2>1 DEF Result, ReadResult
    <2> QED BY <1>4, <2>1, <2>2 DEF OpenIter
<1>6. th' = [th EXCEPT ![t] = th[t]]
    BY <1>1, <1>3 DEF TypeInv
<1>7. /\ tx' \in Seq(TxType) /\ Made' = Made
      /\ \A j \in Made : SameTx(j) /\ Len(tx'[j].results) >= Len(tx[j].results)
      /\ \A j \in Made : Has(t, j) \/ Len(tx'[j].results) = Len(tx[j].results)
      /\ Len(tx'[i].results) = Len(tx[i].results) + 1
    BY <1>3, <1>4, <1>5, PushFacts
<1>8. Len(tx[i].results) \in Nat /\ i \in Nat
    BY <1>3, TxTypes
<1>9. PICK new : new = [tx |-> i, pos |-> Pos(i), snap |-> th[t].snap, at |-> Walked(th[t].snap)]
    OBVIOUS
<1>10. new \in IterType /\ new.tx = i /\ new.pos = Len(tx[i].results) + 1 /\ new.snap = th[t].snap
    <2>1. Walked(th[t].snap) \in Int
        BY <1>3, WalkedType
    <2> QED BY <1>3, <1>8, <1>9, <2>1 DEF IterType, Pos
<1>11. iters' = iters \cup {new}
    BY <1>4, <1>9 DEF OpenIter
<1>12. new \notin iters
    <2>1. \A it \in iters : it.tx = i => it.pos <= Len(tx[i].results)
        BY <1>8 DEF TxInv, IterAt
    <2> QED BY <1>8, <1>10, <2>1
<1>13. iters' \in SUBSET IterType /\ IsFiniteSet(iters')
    BY <1>3, <1>10, <1>11, FS_AddElement DEF TypeInv
<1>14. \A it \in iters' \ iters : IterAt(it)'
    BY <1>7, <1>8, <1>10, <1>11 DEF IterAt
<1>15. RegistrationsMatch' /\ registered' \in [Trackers -> [Snapshots -> Nat]]
    <2>1. ASSUME NEW j \in Trackers, NEW r \in Snapshots
          PROVE  Held(j, r)' = IF j = db_tracker /\ r = th[t].snap THEN Held(j, r) + 1 ELSE Held(j, r)
        <3>1. HeldTx(j, r)' = HeldTx(j, r)
            BY <1>3, <1>7, HeldTxStays
        <3>2. Reading(j, r)' = Reading(j, r)
            BY <1>1 DEF Reading
        <3>3. Open(j, r)' = IF j = db_tracker /\ r = th[t].snap THEN Open(j, r) \cup {new} ELSE Open(j, r)
            BY <1>1, <1>10, <1>11 DEF Open
        <3>4. /\ IsFiniteSet(Open(j, r)) /\ Cardinality(Reading(j, r)) \in Nat
              /\ Cardinality(HeldTx(j, r)) \in Nat /\ Cardinality(Open(j, r)) \in Nat
            BY <1>3, Countable
        <3>5. Cardinality(Open(j, r) \cup {new}) = Cardinality(Open(j, r)) + 1
            <4>1. new \notin Open(j, r)
                BY <1>12 DEF Open
            <4> QED BY <3>4, <4>1, Gains
        <3>6. Held(j, r)' = Cardinality(HeldTx(j, r)') + Cardinality(Reading(j, r)') + Cardinality(Open(j, r)')
            BY DEF Held, HeldTx, Reading, Open
        <3> QED BY <3>1, <3>2, <3>3, <3>4, <3>5, <3>6, HeldIs
    <2>2. db_tracker \in 0 .. MaxTrackers
        BY <1>3 DEF TypeInv
    <2> QED BY <1>1, <1>3, <2>1, <2>2, Registered
<1>16. th[t].pc \in RunPCs \ {"begin", "commit"}
    BY <1>2 DEF RunPCs
<1> QED BY <1>1, <1>2, <1>3, <1>6, <1>7, <1>13, <1>14, <1>15, <1>16, RunStep

(* Every thread and every job stays as it is.                               *)
LEMMA NoThreadMoves ==
    ASSUME TxInv, th' = th, queue' = queue, db_tracker' = db_tracker, Made' = Made,
           \A i \in Made : SameTx(i) /\ Len(tx'[i].results) = Len(tx[i].results),
           \A it \in iters' : it \in iters, pins' = pins, TypeInv', RegistrationsMatch'
    PROVE  TxInv'
<1>1. PlaceInv'
    BY SamePlaces DEF TxInv
<1>2. ASSUME NEW n \in 1 .. Len(queue) PROVE JobAt(n)'
    <2>1. TypeInv /\ JobAt(n) /\ ListAt(queue[n].ids)
        BY DEF TxInv, PlaceInv
    <2>2. \A a \in 1 .. Len(queue[n].ids) : SameTx(queue[n].ids[a])
        BY <2>1 DEF ListAt
    <2> QED BY <2>1, <2>2, JobStays
<1>3. ASSUME NEW t \in Threads PROVE ThreadAt(t)' /\ CommitAt(t)'
    <2>1. TypeInv /\ PlaceInv /\ ThreadAt(t) /\ CommitAt(t) /\ ListAt(th[t].ids)
        BY DEF TxInv, PlaceInv
    <2>2. \A a \in 1 .. Len(th[t].ids) : SameTx(th[t].ids[a])
        BY <2>1 DEF ListAt
    <2>3. ThreadAt(t)'
        BY <2>1, <2>2, ThreadStays
    <2>4. CommitAt(t)'
        <3> SUFFICES ASSUME th[t].pc = "commit" PROVE CommitAt(t)'
            BY DEF CommitAt
        <3>1. Len(th[t].ids) >= 1
            BY <2>1 DEF ThreadAt
        <3>2. PICK i \in Made : i = Cur(t)
            BY <2>1, <3>1, CurFacts
        <3>3. Cur(t)' = i /\ Pos(i)' = Pos(i) /\ Op(i)' = Op(i) /\ tx'[i].script = tx[i].script
            BY <3>2 DEF Cur, Pos, Op, SameTx
        <3> QED BY <2>1, <3>2, <3>3 DEF CommitAt
    <2> QED BY <2>3, <2>4
<1>4. \A it \in iters' : IterAt(it)'
    BY DEF TxInv, IterAt
<1>5. PinsMatch'
    BY DEF TxInv, PinsMatch
<1> QED BY <1>1, <1>2, <1>3, <1>4, <1>5 DEF TxInv

---------------------------------------------------------------------------
(* The iterator is drained and dropped.                                     *)

LEMMA FoundIn ==
    ASSUME NEW r \in Result, NEW f \in [Keys -> Int]
    PROVE  [r EXCEPT !.found = f] \in Result
<1>1. CASE r \in ReadResult
    <2>1. [r EXCEPT !.found = f] \in ReadResult
        BY <1>1 DEF ReadResult
    <2> QED BY <2>1 DEF Result
<1>2. CASE r \notin ReadResult
    <2>1. r \in [op : {"void"}, key : Keys] \/ r \in [op : {"write"}, key : Keys, ver : Nat] \/ r \in [op : {"error"}]
        BY <1>2 DEF Result, WriteResult
    <2>2. "found" \notin DOMAIN r /\ r = [x \in DOMAIN r |-> r[x]]
        BY <2>1
    <2>3. [r EXCEPT !.found = f] = r
        BY <2>2
    <2> QED BY <2>3
<1> QED BY <1>1, <1>2

LEMMA DrainIterTx ==
    ASSUME TxInv, NEW it \in iters, DrainIter(it)
    PROVE  TxInv'
<1>1. /\ iters' = iters \ {it} /\ Release(db_tracker, it.snap)
      /\ UNCHANGED <<clockVars, treeVars, created, db_tracker, pins, pool, queue, th, todo>>
    BY DEF DrainIter
<1>2. TypeInv /\ RegistrationsMatch /\ IterAt(it)
    BY DEF TxInv
<1>3. it.snap \in Snapshots /\ it.tx \in Made /\ it.pos \in 1 .. Len(tx[it.tx].results)
    BY <1>2 DEF TypeInv, IterType, IterAt
<1>4. PICK i \in Made : i = it.tx
    BY <1>3
<1>5. tx[i] \in TxType /\ tx[i].results \in Seq(Result)
    BY <1>2, TxTypes
<1>6. PICK f \in [Keys -> Int] : f = IF it.at < horizon THEN Lost ELSE Answer(it.snap)
    BY <1>2, FoundType
<1>7. PICK res \in Result : res = [tx[i].results[it.pos] EXCEPT !.found = f]
    <2>1. tx[i].results[it.pos] \in Result
        BY <1>3, <1>4, <1>5
    <2> QED BY <2>1, FoundIn
<1>8. PICK y : y = [tx[i] EXCEPT !.results = [tx[i].results EXCEPT ![it.pos] = res]]
    OBVIOUS
<1>9. /\ y \in TxType /\ Len(y.results) = Len(tx[i].results)
      /\ y.held = tx[i].held /\ y.snap = tx[i].snap /\ y.script = tx[i].script /\ y.protected = tx[i].protected
    <2>1. PICK q \in Seq(Result) : q = tx[i].results
        BY <1>5
    <2>2. PICK n \in 1 .. Len(q) : n = it.pos
        BY <1>3, <1>4, <2>1
    <2>3. [q EXCEPT ![n] = res] \in Seq(Result) /\ Len([q EXCEPT ![n] = res]) = Len(q)
        BY ExceptType
    <2>4. PICK more \in Seq(Result) : more = [q EXCEPT ![n] = res] /\ Len(more) = Len(q)
        BY <2>3
    <2> QED BY <1>5, <1>8, <2>1, <2>2, <2>4 DEF TxType
<1>10. tx' = [tx EXCEPT ![i] = y]
    <2>1. tx' = [tx EXCEPT ![i].results[it.pos].found = f]
        BY <1>4, <1>6 DEF DrainIter
    <2> QED BY <1>7, <1>8, <2>1
<1>11. /\ tx' \in Seq(TxType) /\ Made' = Made /\ tx'[i] = y
       /\ \A j \in Made : j # i => tx'[j] = tx[j]
    BY <1>2, <1>9, <1>10, TxUpdate
<1>12. \A j \in Made : SameTx(j) /\ Len(tx'[j].results) = Len(tx[j].results)
    BY <1>9, <1>11 DEF SameTx
<1>13. iters' \in SUBSET IterType /\ IsFiniteSet(iters')
    BY <1>1, <1>2, FS_RemoveElement DEF TypeInv
<1>14. RegistrationsMatch' /\ registered' \in [Trackers -> [Snapshots -> Nat]]
    <2>1. ASSUME NEW j \in Trackers, NEW r \in Snapshots
          PROVE  /\ Held(j, r)' = IF j = db_tracker /\ r = it.snap THEN Held(j, r) - 1 ELSE Held(j, r)
                 /\ j = db_tracker /\ r = it.snap => Held(j, r) >= 1
        <3>1. HeldTx(j, r)' = HeldTx(j, r)
            BY <1>2, <1>11, <1>12, HeldTxStays
        <3>2. Reading(j, r)' = Reading(j, r)
            BY <1>1 DEF Reading
        <3>3. Open(j, r)' = IF j = db_tracker /\ r = it.snap THEN Open(j, r) \ {it} ELSE Open(j, r)
            BY <1>1 DEF Open
        <3>4. j = db_tracker /\ r = it.snap => it \in Open(j, r)
            BY DEF Open
        <3>5. /\ IsFiniteSet(Open(j, r)) /\ Cardinality(Reading(j, r)) \in Nat
              /\ Cardinality(HeldTx(j, r)) \in Nat /\ Cardinality(Open(j, r)) \in Nat
            BY <1>2, Countable
        <3>6. it \in Open(j, r) => /\ Cardinality(Open(j, r) \ {it}) = Cardinality(Open(j, r)) - 1
                                   /\ Cardinality(Open(j, r)) >= 1
            BY <3>5, Loses
        <3>7. Held(j, r)' = Cardinality(HeldTx(j, r)') + Cardinality(Reading(j, r)') + Cardinality(Open(j, r)')
            BY DEF Held, HeldTx, Reading, Open
        <3> QED BY <3>1, <3>2, <3>3, <3>4, <3>5, <3>6, <3>7, HeldIs
    <2>2. db_tracker \in 0 .. MaxTrackers /\ (db_tracker # 0 => db_tracker \in Trackers)
        BY <1>2, Bounds DEF TypeInv
    <2> QED BY <1>1, <1>2, <1>3, <2>1, <2>2, Released
<1>15. TypeInv'
    BY <1>1, <1>2, <1>11, <1>13, <1>14 DEF TypeInv, clockVars, treeVars, Alive
<1> QED BY <1>1, <1>11, <1>12, <1>14, <1>15, NoThreadMoves

---------------------------------------------------------------------------
(* The collector, the clock and the manager.                                *)

LEMMA NothingCounted ==
    ASSUME TxInv, th' = th, tx' = tx, iters' = iters, queue' = queue, UNCHANGED gcVars, TypeInv'
    PROVE  TxInv'
<1>1. Made' = Made /\ \A i \in Made : SameTx(i) /\ Len(tx'[i].results) = Len(tx[i].results)
    BY DEF Made, SameTx
<1>2. RegistrationsMatch'
    BY DEF TxInv, RegistrationsMatch, Held, Made, gcVars
<1> QED BY <1>1, <1>2, NoThreadMoves DEF gcVars

LEMMA FreeBlockTx ==
    ASSUME TxInv, FreeBlock
    PROVE  TxInv'
<1>1. UNCHANGED <<clockVars, recs, gcVars, pool, queue, tx, iters, th, todo>> /\ db_tracker # 0
    BY DEF FreeBlock
<1>2. TypeInv
    BY DEF TxInv
<1>3. horizon' \in 0 .. wm - 1
    <2> DEFINE S == {wm} \cup {s \in Snapshots : registered[db_tracker][s] > 0 \/ pins[db_tracker][s] > 0}
    <2>1. S \subseteq Nat /\ wm \in S /\ wm \in Nat /\ horizon \in Nat
        BY <1>2, Bounds DEF TypeInv
    <2>2. Min(S) - 1 > horizon /\ horizon' = Min(S) - 1
        BY DEF FreeBlock
    <2> HIDE DEF S
    <2>3. PICK m \in S : m = Min(S) /\ m <= wm
        <3>1. \E x \in S : \A y \in S : ~(<<y, x>> \in OpToRel(<, Nat))
            BY <2>1, NatLessThanWellFounded, WFMin
        <3>2. \E x \in S : \A y \in S : x <= y
            <4>1. PICK x \in S : \A y \in S : ~(<<y, x>> \in OpToRel(<, Nat))
                BY <3>1
            <4>2. \A y \in S : ~(y < x)
                BY <2>1, <4>1 DEF OpToRel
            <4> QED BY <2>1, <4>2
        <3>3. Min(S) \in S /\ \A y \in S : Min(S) <= y
            BY <3>2 DEF Min
        <3> QED BY <2>1, <3>3
    <2> QED BY <2>1, <2>2, <2>3
<1>4. TypeInv'
    BY <1>1, <1>2, <1>3 DEF TypeInv, clockVars, gcVars, Alive
<1> QED BY <1>1, <1>4, NothingCounted

LEMMA AdvanceWatermarkTx ==
    ASSUME TxInv, AdvanceWatermark
    PROVE  TxInv'
<1>1. UNCHANGED <<treeVars, gcVars, pool, queue, tx, iters, th, todo>>
    BY DEF AdvanceWatermark
<1>2. TypeInv
    BY DEF TxInv
<1>3. clock' = clock /\ inflight' = inflight /\ wm' \in wm + 1 .. clock
    BY DEF AdvanceWatermark, Clock!Advance
<1>4. clock' \in 1 .. MaxClock /\ wm' \in 1 .. clock' /\ horizon' \in 0 .. wm' - 1
    <2>1. clock \in 1 .. MaxClock /\ wm \in 1 .. clock /\ horizon \in 0 .. wm - 1 /\ horizon' = horizon
        BY <1>1, <1>2 DEF TypeInv, treeVars
    <2>2. PICK w \in wm + 1 .. clock : w = wm'
        BY <1>3
    <2>3. MaxClock \in Nat /\ clock \in Nat /\ wm \in Nat /\ horizon \in Nat /\ w \in Nat
        <3>1. MaxClock \in Nat
            BY Bounds
        <3>2. clock \in Nat
            BY <2>1, <3>1
        <3>3. wm \in Nat
            BY <2>1, <3>2
        <3> QED BY <2>1, <2>2, <3>1, <3>2, <3>3
    <2>4. w > wm /\ w <= clock /\ wm >= 1 /\ horizon <= wm - 1
        BY <2>1, <2>2, <2>3
    <2>5. w \in 1 .. clock
        BY <2>3, <2>4
    <2>6. horizon \in 0 .. w - 1
        BY <2>3, <2>4
    <2> QED BY <1>3, <2>1, <2>2, <2>5, <2>6
<1>5. TypeInv'
    BY <1>1, <1>2, <1>3, <1>4 DEF TypeInv, treeVars, gcVars, Alive
<1> QED BY <1>1, <1>5, NothingCounted

LEMMA SwitchPoolTx ==
    ASSUME TxInv, SwitchPool
    PROVE  TxInv'
<1>1. UNCHANGED <<clockVars, treeVars, gcVars, queue, tx, iters, th, todo>> /\ pool' \in BOOLEAN
    BY DEF SwitchPool
<1>2. TypeInv'
    BY <1>1 DEF TxInv, TypeInv, clockVars, treeVars, gcVars, Alive
<1> QED BY <1>1, <1>2, NothingCounted

(* The tracker changes while no transaction is under way.                   *)
LEMMA GcSwitched ==
    ASSUME TxInv, NoCalls, Joined, iters = {}, created' \in 0 .. MaxTrackers, db_tracker' \in 0 .. MaxTrackers,
           UNCHANGED <<clockVars, treeVars, registered, pins, pool, queue, tx, iters, th, todo>>
    PROVE  TxInv'
<1>1. TypeInv /\ PinsMatch /\ RegistrationsMatch /\ queue = <<>>
    BY DEF TxInv, Joined
<1>2. \A t \in Threads : th[t].pc = "idle" /\ th[t].ids = <<>> /\ th[t].pin = 0 /\ ThreadAt(t)
    BY Bounds DEF TxInv, ThreadAt, NoCalls, Joined
<1>3. TypeInv'
    BY <1>1 DEF TypeInv, clockVars, treeVars, Alive
<1>4. PlaceInv'
    <2>1. PlaceInv /\ th' = th /\ queue' = queue /\ Made' = Made
        BY DEF TxInv, Made
    <2> QED BY <2>1, SamePlaces
<1>5. \A n \in 1 .. Len(queue') : JobAt(n)'
    BY <1>1
<1>6. ASSUME NEW t \in Threads PROVE ThreadAt(t)' /\ CommitAt(t)'
    <2>1. th'[t] = th[t] /\ th[t].pc = "idle" /\ th[t].ids = <<>> /\ th[t].pin = 0 /\ Len(th[t].ids) = 0
        BY <1>2
    <2>2. CallerAt(t)'
        BY <2>1 DEF CallerAt, NoneHeld, RunPCs
    <2>3. WorkerAt(t)'
        BY <2>1 DEF WorkerAt, NoneHeld, RunPCs, CallPCs
    <2> QED BY <2>1, <2>2, <2>3 DEF ThreadAt, CommitAt
<1>7. PinsMatch'
    <2>1. \A k \in Trackers, s \in Snapshots : Pinning(k, s) = {} /\ Pinning(k, s)' = {}
        BY <1>2, Bounds DEF Pinning
    <2>2. \A k \in Trackers, s \in Snapshots : pins[k][s] = Cardinality(Pinning(k, s))
        BY <1>1 DEF PinsMatch, Pinning
    <2>3. \A k \in Trackers, s \in Snapshots : pins'[k][s] = Cardinality(Pinning(k, s)')
        BY <2>1, <2>2
    <2> QED BY <2>3 DEF PinsMatch, Pinning
<1>8. RegistrationsMatch'
    <2>1. ASSUME NEW k \in Trackers, NEW s \in Snapshots PROVE Held(k, s)' = Held(k, s)
        <3>1. HeldTx(k, s)' = HeldTx(k, s)
            BY DEF HeldTx, Made
        <3>2. Reading(k, s)' = Reading(k, s) /\ Open(k, s)' = Open(k, s)
            BY <1>2 DEF Reading, Open
        <3>3. Held(k, s)' = Cardinality(HeldTx(k, s)') + Cardinality(Reading(k, s)') + Cardinality(Open(k, s)')
            BY DEF Held, HeldTx, Reading, Open
        <3> QED BY <3>1, <3>2, <3>3, HeldIs
    <2> QED BY <1>1, <2>1 DEF RegistrationsMatch
<1> QED BY <1>3, <1>4, <1>5, <1>6, <1>7, <1>8 DEF TxInv

LEMMA EnableGcTx ==
    ASSUME TxInv, EnableGc
    PROVE  TxInv'
<1>1. created \in 0 .. MaxTrackers /\ created < MaxTrackers /\ MaxTrackers \in Nat
    BY Bounds DEF TxInv, TypeInv, EnableGc
<1>2. created' \in 0 .. MaxTrackers /\ db_tracker' \in 0 .. MaxTrackers
    BY <1>1 DEF EnableGc
<1> QED BY <1>2, GcSwitched DEF EnableGc

LEMMA DisableGcTx ==
    ASSUME TxInv, DisableGc
    PROVE  TxInv'
<1>1. created' \in 0 .. MaxTrackers /\ db_tracker' \in 0 .. MaxTrackers
    BY Bounds DEF TxInv, TypeInv, DisableGc
<1> QED BY <1>1, GcSwitched DEF DisableGc

---------------------------------------------------------------------------
(* Bookkeeping: a transaction is registered and released.                   *)

LEMMA HoldFacts ==
    ASSUME TypeInv, NEW i \in Made, NEW k \in 0 .. MaxTrackers, tx' = [tx EXCEPT ![i].held = k]
    PROVE  /\ tx' \in Seq(TxType) /\ Made' = Made /\ tx'[i].held = k
           /\ tx'[i].snap = tx[i].snap /\ tx'[i].script = tx[i].script /\ tx'[i].protected = tx[i].protected
           /\ \A j \in Made : j # i => tx'[j] = tx[j] /\ SameTx(j)
           /\ \A j \in Made : Len(tx'[j].results) = Len(tx[j].results) /\ Len(tx[j].results) \in Nat
           /\ Tracked(i)' = Tracked(i)
<1>1. tx[i] \in TxType
    BY TxTypes
<1>2. PICK y : y = [tx[i] EXCEPT !.held = k]
    OBVIOUS
<1>3. /\ y \in TxType /\ y.held = k /\ y.results = tx[i].results
      /\ y.snap = tx[i].snap /\ y.script = tx[i].script /\ y.protected = tx[i].protected
    BY <1>1, <1>2 DEF TxType
<1>4. tx' = [tx EXCEPT ![i] = y]
    BY <1>2
<1>5. /\ tx' \in Seq(TxType) /\ Made' = Made /\ tx'[i] = y
      /\ \A j \in Made : j # i => tx'[j] = tx[j]
    BY <1>3, <1>4, TxUpdate
<1>6. \A j \in Made : Len(tx'[j].results) = Len(tx[j].results) /\ Len(tx[j].results) \in Nat
    <2>1. \A j \in Made : tx'[j].results = tx[j].results
        BY <1>3, <1>5
    <2> QED BY <2>1, TxTypes
<1>7. Tracked(i)' = Tracked(i)
    BY <1>3, <1>5 DEF Tracked
<1> QED BY <1>3, <1>5, <1>6, <1>7 DEF SameTx

LEMMA HoldStep ==
    ASSUME TxInv, NEW t \in Threads, NEW x \in ThreadType, th' = [th EXCEPT ![t] = x],
           x.pc \notin {"read", "commit"}, th[t].pc # "read", x.pin = th[t].pin,
           ListAt(x.ids), \A a \in 1 .. Len(x.ids) : Has(t, x.ids[a]),
           NEW i \in Made, Has(t, i), NEW k \in 0 .. MaxTrackers, tx' = [tx EXCEPT ![i].held = k],
           \/ tx[i].held = 0 /\ tx[i].snap \in Snapshots /\ Register(k, tx[i].snap)
           \/ k = 0 /\ tx[i].snap \in Snapshots /\ Release(tx[i].held, tx[i].snap)
           \/ k = tx[i].held /\ registered' = registered,
           ThreadAt(t)',
           UNCHANGED <<clockVars, treeVars, created, db_tracker, pins, pool, queue, iters, todo>>
    PROVE  TxInv'
<1>1. TypeInv /\ PlaceInv /\ PinsMatch /\ RegistrationsMatch
    BY DEF TxInv
<1>2. OthersStay(t) /\ th'[t] = x /\ th' \in [Threads -> ThreadType]
    BY <1>1 DEF OthersStay, TypeInv
<1>3. /\ tx' \in Seq(TxType) /\ Made' = Made /\ tx'[i].held = k
      /\ tx'[i].snap = tx[i].snap /\ tx'[i].script = tx[i].script /\ tx'[i].protected = tx[i].protected
      /\ \A j \in Made : j # i => tx'[j] = tx[j] /\ SameTx(j)
      /\ \A j \in Made : Len(tx'[j].results) = Len(tx[j].results) /\ Len(tx[j].results) \in Nat
    BY <1>1, HoldFacts
<1>4. PICK h \in 0 .. MaxTrackers : h = tx[i].held
    BY <1>1, TxTypes
<1>5. \A j \in Trackers, r \in Snapshots :
        /\ Reading(j, r)' = Reading(j, r) /\ Open(j, r)' = Open(j, r)
        /\ Held(j, r)' = Cardinality(HeldTx(j, r)') + Cardinality(Reading(j, r)') + Cardinality(Open(j, r)')
        /\ IsFiniteSet(HeldTx(j, r)) /\ Cardinality(HeldTx(j, r)) \in Nat
        /\ Cardinality(Reading(j, r)) \in Nat /\ Cardinality(Open(j, r)) \in Nat
    <2> SUFFICES ASSUME NEW j \in Trackers, NEW r \in Snapshots
                 PROVE  /\ Reading(j, r)' = Reading(j, r) /\ Open(j, r)' = Open(j, r)
                        /\ Held(j, r)' = Cardinality(HeldTx(j, r)') + Cardinality(Reading(j, r)') + Cardinality(Open(j, r)')
                        /\ IsFiniteSet(HeldTx(j, r)) /\ Cardinality(HeldTx(j, r)) \in Nat
                        /\ Cardinality(Reading(j, r)) \in Nat /\ Cardinality(Open(j, r)) \in Nat
        OBVIOUS
    <2>1. Reading(j, r)' = Reading(j, r) /\ Open(j, r)' = Open(j, r)
        BY <1>2, ReadingStays, OpenStays
    <2>2. Held(j, r)' = Cardinality(HeldTx(j, r)') + Cardinality(Reading(j, r)') + Cardinality(Open(j, r)')
        BY DEF Held, HeldTx, Reading, Open
    <2> QED BY <1>1, <2>1, <2>2, Countable
<1>6. \A j \in Trackers : j # 0
    BY Bounds
<1>7. RegistrationsMatch' /\ registered' \in [Trackers -> [Snapshots -> Nat]]
    <2>1. CASE tx[i].held = 0 /\ tx[i].snap \in Snapshots /\ Register(k, tx[i].snap)
        <3>1. ASSUME NEW j \in Trackers, NEW r \in Snapshots
              PROVE  Held(j, r)' = IF j = k /\ r = tx[i].snap THEN Held(j, r) + 1 ELSE Held(j, r)
            <4>0. /\ Reading(j, r)' = Reading(j, r) /\ Open(j, r)' = Open(j, r)
                  /\ Held(j, r)' = Cardinality(HeldTx(j, r)') + Cardinality(Reading(j, r)') + Cardinality(Open(j, r)')
                  /\ IsFiniteSet(HeldTx(j, r)) /\ Cardinality(HeldTx(j, r)) \in Nat
                  /\ Cardinality(Reading(j, r)) \in Nat /\ Cardinality(Open(j, r)) \in Nat
                BY <1>5
            <4>1. HeldTx(j, r)' = IF j = k /\ r = tx[i].snap THEN HeldTx(j, r) \cup {i} ELSE HeldTx(j, r)
                BY <1>3, <1>6, <2>1 DEF HeldTx
            <4>2. i \notin HeldTx(j, r)
                BY <1>6, <2>1 DEF HeldTx
            <4>3. Cardinality(HeldTx(j, r) \cup {i}) = Cardinality(HeldTx(j, r)) + 1
                BY <4>0, <4>2, Gains
            <4> QED BY <4>0, <4>1, <4>3, HeldIs
        <3> QED BY <1>1, <2>1, <3>1, Registered
    <2>2. CASE k = 0 /\ tx[i].snap \in Snapshots /\ Release(tx[i].held, tx[i].snap)
        <3>1. ASSUME NEW j \in Trackers, NEW r \in Snapshots
              PROVE  /\ Held(j, r)' = IF j = h /\ r = tx[i].snap THEN Held(j, r) - 1 ELSE Held(j, r)
                     /\ j = h /\ r = tx[i].snap => Held(j, r) >= 1
            <4>0. /\ Reading(j, r)' = Reading(j, r) /\ Open(j, r)' = Open(j, r)
                  /\ Held(j, r)' = Cardinality(HeldTx(j, r)') + Cardinality(Reading(j, r)') + Cardinality(Open(j, r)')
                  /\ IsFiniteSet(HeldTx(j, r)) /\ Cardinality(HeldTx(j, r)) \in Nat
                  /\ Cardinality(Reading(j, r)) \in Nat /\ Cardinality(Open(j, r)) \in Nat
                BY <1>5
            <4>1. HeldTx(j, r)' = IF j = h /\ r = tx[i].snap THEN HeldTx(j, r) \ {i} ELSE HeldTx(j, r)
                BY <1>3, <1>4, <1>6, <2>2 DEF HeldTx
            <4>2. j = h /\ r = tx[i].snap => i \in HeldTx(j, r)
                BY <1>4 DEF HeldTx
            <4>3. i \in HeldTx(j, r) => /\ Cardinality(HeldTx(j, r) \ {i}) = Cardinality(HeldTx(j, r)) - 1
                                        /\ Cardinality(HeldTx(j, r)) >= 1
                BY <4>0, Loses
            <4> QED BY <4>0, <4>1, <4>2, <4>3, HeldIs
        <3>2. h # 0 => h \in Trackers
            BY Bounds
        <3> QED BY <1>1, <1>4, <2>2, <3>1, <3>2, Released
    <2>3. CASE k = tx[i].held /\ registered' = registered
        <3>1. \A j \in Made : SameTx(j)
            BY <1>3, <2>3 DEF SameTx
        <3>2. RegistrationsMatch'
            BY <1>1, <1>2, <1>3, <2>3, <3>1, CountsStay
        <3> QED BY <1>1, <2>3, <3>2 DEF TypeInv
    <2> QED BY <2>1, <2>2, <2>3
<1>8. TypeInv'
    BY <1>1, <1>2, <1>3, <1>7 DEF TypeInv, clockVars, treeVars, Alive
<1>9. PinsMatch'
    BY <1>1, <1>2, PinsStay
<1>10. ListAt(th[t].ids)'
    BY <1>2, <1>3 DEF ListAt
<1>11. CommitAt(t)'
    BY <1>2 DEF CommitAt
<1>12. /\ \A j \in Made : Has(t, j) \/ SameTx(j)
       /\ \A j \in Made : Len(tx'[j].results) >= Len(tx[j].results)
    BY <1>3
<1> QED BY <1>2, <1>3, <1>7, <1>8, <1>9, <1>10, <1>11, <1>12, ThreadStep

(* enq_bookkeeping has registered the transaction where it is due.          *)
LEMMA EnqHolds ==
    ASSUME TypeInv, NEW i \in Made, tx[i].held = 0,
           IF Tracked(i) THEN Register(db_tracker, tx[i].snap) /\ tx' = [tx EXCEPT ![i].held = db_tracker]
                         ELSE UNCHANGED <<registered, tx>>
    PROVE  /\ Due(i) \in 0 .. MaxTrackers /\ tx' = [tx EXCEPT ![i].held = Due(i)]
           /\ \/ tx[i].held = 0 /\ tx[i].snap \in Snapshots /\ Register(Due(i), tx[i].snap)
              \/ Due(i) = tx[i].held /\ registered' = registered
<1>1. db_tracker \in 0 .. MaxTrackers /\ MaxTrackers \in Nat
    BY Bounds DEF TypeInv
<1>2. CASE Tracked(i)
    <2>1. tx[i].snap \in Snapshots
        <3>1. tx[i].snap \in 0 .. Latest /\ tx[i].snap # 0
            BY <1>2, TxTypes DEF Tracked, NoSnap
        <3> QED BY <3>1, Bounds
    <2>2. Due(i) = db_tracker
        BY <1>2 DEF Due
    <2> QED BY <1>1, <1>2, <2>1, <2>2
<1>3. CASE ~Tracked(i)
    <2>1. Due(i) = 0 /\ tx' = tx /\ registered' = registered
        BY <1>3 DEF Due
    <2>2. tx = [tx EXCEPT ![i].held = 0]
        <3>1. tx \in Seq(TxType) /\ tx[i] \in TxType /\ tx[i] = [tx[i] EXCEPT !.held = 0]
            BY TxTypes DEF TypeInv, TxType
        <3> QED BY <3>1
    <2> QED BY <1>1, <2>1, <2>2
<1> QED BY <1>2, <1>3

LEMMA EnqBookkeepingTx ==
    ASSUME TxInv, NEW c \in Callers, EnqBookkeeping(c)
    PROVE  TxInv'
<1>1. /\ th[c].via \in {"execute_tx", "non_reader"} /\ th[c].pc = "submit" /\ Goto(c, "submit", "send")
      /\ UNCHANGED <<clockVars, treeVars, created, db_tracker, pins, pool, queue, iters, todo>>
    BY DEF EnqBookkeeping, Goto
<1>2. /\ c \in Threads /\ c \notin Workers /\ TypeInv /\ PlaceInv /\ ThreadAt(c) /\ CallerAt(c)
      /\ th[c] \in ThreadType /\ th[c].ids \in Seq(Nat)
    BY Bounds, ThreadTypes DEF TxInv, ThreadAt
<1>3. Len(th[c].ids) >= 1 /\ Len(th[c].ids) <= 1 /\ NoneHeld(th[c].ids, 1)
    <2>1. Len(th[c].ids) >= 1
        BY <1>1, <1>2 DEF ThreadAt
    <2>2. Len(th[c].ids) <= 1
        BY <1>1, <1>2 DEF CallerAt
    <2>3. NoneHeld(th[c].ids, 1)
        BY <1>1, <1>2 DEF CallerAt
    <2> QED BY <2>1, <2>2, <2>3
<1>4. PICK i \in Made : i = Cur(c) /\ i = th[c].ids[1]
    BY <1>2, <1>3, CurFacts
<1>5. tx[i].held = 0 /\ Has(c, i)
    BY <1>3, <1>4 DEF NoneHeld, Has
<1>6. PICK k \in 0 .. MaxTrackers : /\ k = Due(i) /\ tx' = [tx EXCEPT ![i].held = k]
                                    /\ \/ tx[i].held = 0 /\ tx[i].snap \in Snapshots /\ Register(k, tx[i].snap)
                                       \/ k = tx[i].held /\ registered' = registered
    BY <1>2, <1>4, <1>5, EnqHolds DEF EnqBookkeeping
<1>7. PICK x : x = [th[c] EXCEPT !.pc = "send"]
    OBVIOUS
<1>8. /\ x \in ThreadType /\ x.pc = "send" /\ x.snap = th[c].snap
      /\ x.ids = th[c].ids /\ x.via = th[c].via /\ x.trk = th[c].trk /\ x.pin = th[c].pin
    BY <1>2, <1>7 DEF ThreadType, ThreadPCs
<1>9. th' = [th EXCEPT ![c] = x]
    BY <1>2, <1>7, <1>1 DEF Goto, TypeInv
<1>10. th'[c] = x
    BY <1>2, <1>9 DEF TypeInv
<1>11. tx'[i].held = k /\ Tracked(i)' = Tracked(i)
    BY <1>2, <1>6, HoldFacts
<1>12. Due(i)' = k
    BY <1>1, <1>6, <1>11 DEF Due
<1>13. CallerAt(c)'
    BY <1>1, <1>3, <1>4, <1>8, <1>10, <1>11, <1>12 DEF CallerAt, RunPCs
<1>14. ThreadAt(c)'
    BY <1>2, <1>3, <1>8, <1>10, <1>13 DEF ThreadAt
<1>15. ListAt(x.ids) /\ \A a \in 1 .. Len(x.ids) : Has(c, x.ids[a])
    BY <1>2, <1>8 DEF PlaceInv, Has
<1>16. x.pc \notin {"read", "commit"} /\ th[c].pc # "read"
    BY <1>1, <1>8
<1> QED BY <1>1, <1>2, <1>5, <1>6, <1>8, <1>9, <1>14, <1>15, <1>16, HoldStep

LEMMA EnqInBatchTx ==
    ASSUME TxInv, NEW w \in Workers, EnqInBatch(w)
    PROVE  TxInv'
<1>1. /\ th[w].pc = "enq" /\ Goto(w, "enq", "begin")
      /\ UNCHANGED <<clockVars, treeVars, created, db_tracker, pins, pool, queue, iters, todo>>
    BY DEF EnqInBatch, Goto
<1>2. /\ w \in Threads /\ w \notin Callers /\ TypeInv /\ PlaceInv /\ ThreadAt(w) /\ WorkerAt(w)
      /\ th[w] \in ThreadType /\ th[w].ids \in Seq(Nat) /\ ListAt(th[w].ids)
    BY Bounds, ThreadTypes DEF TxInv, ThreadAt, PlaceInv
<1>3. /\ Len(th[w].ids) >= 1 /\ NoneHeld(th[w].ids, 1) /\ th[w].trk = db_tracker /\ th[w].via = "batch"
      /\ th[w].via \in Pooled /\ th[w].pin = 0
    BY <1>1, <1>2 DEF ThreadAt, WorkerAt
<1>4. PICK i \in Made : i = Cur(w) /\ i = th[w].ids[1] /\ \A a \in 2 .. Len(th[w].ids) : th[w].ids[a] # i
    BY <1>2, <1>3, CurFacts
<1>5. tx[i].held = 0 /\ Has(w, i)
    BY <1>3, <1>4 DEF NoneHeld, Has
<1>6. PICK k \in 0 .. MaxTrackers : /\ k = Due(i) /\ tx' = [tx EXCEPT ![i].held = k]
                                    /\ \/ tx[i].held = 0 /\ tx[i].snap \in Snapshots /\ Register(k, tx[i].snap)
                                       \/ k = tx[i].held /\ registered' = registered
    BY <1>2, <1>3, <1>4, <1>5, EnqHolds DEF EnqInBatch
<1>7. PICK x : x = [th[w] EXCEPT !.pc = "begin"]
    OBVIOUS
<1>8. /\ x \in ThreadType /\ x.pc = "begin" /\ x.snap = th[w].snap
      /\ x.ids = th[w].ids /\ x.via = th[w].via /\ x.trk = th[w].trk /\ x.pin = th[w].pin
    BY <1>2, <1>7 DEF ThreadType, ThreadPCs
<1>9. th' = [th EXCEPT ![w] = x]
    BY <1>2, <1>7, <1>1 DEF Goto, TypeInv
<1>10. th'[w] = x
    BY <1>2, <1>9 DEF TypeInv
<1>11. tx'[i].held = k /\ Tracked(i)' = Tracked(i) /\ \A j \in Made : j # i => tx'[j] = tx[j]
    BY <1>2, <1>6, HoldFacts
<1>12. Due(i)' = k
    BY <1>1, <1>6, <1>11 DEF Due
<1>13. NoneHeld(x.ids, 2)'
    <2>1. \A a \in 2 .. Len(x.ids) : x.ids[a] \in Made /\ x.ids[a] # i /\ tx[x.ids[a]].held = 0
        BY <1>2, <1>3, <1>4, <1>8 DEF ListAt, NoneHeld
    <2> QED BY <1>11, <2>1 DEF NoneHeld
<1>14. WorkerAt(w)'
    BY <1>1, <1>3, <1>4, <1>8, <1>10, <1>11, <1>12, <1>13 DEF WorkerAt, RunPCs, CallPCs
<1>15. ThreadAt(w)'
    BY <1>2, <1>3, <1>8, <1>10, <1>14 DEF ThreadAt
<1>16. ListAt(x.ids) /\ \A a \in 1 .. Len(x.ids) : Has(w, x.ids[a])
    BY <1>2, <1>8 DEF PlaceInv, Has
<1>17. x.pc \notin {"read", "commit"} /\ th[w].pc # "read"
    BY <1>1, <1>8
<1> QED BY <1>1, <1>2, <1>5, <1>6, <1>8, <1>9, <1>15, <1>16, <1>17, HoldStep

(* deq_bookkeeping, by a caller, which has registered nothing.              *)
LEMMA DeqCallerTx ==
    ASSUME TxInv, NEW c \in Callers, DeqBookkeeping(c)
    PROVE  TxInv'
<1>1. /\ th[c].pc = "deq" /\ th[c].pc \in RunPCs
      /\ UNCHANGED <<clockVars, treeVars, created, db_tracker, pins, pool, queue, iters, todo>>
    BY DEF DeqBookkeeping, RunPCs
<1>2. /\ c \in Threads /\ c \notin Workers /\ TypeInv /\ PlaceInv /\ ThreadAt(c) /\ CallerAt(c)
      /\ th[c] \in ThreadType /\ th[c].ids \in Seq(Nat)
    BY Bounds, ThreadTypes DEF TxInv, ThreadAt
<1>3. /\ th[c].via = "caller" /\ Len(th[c].ids) >= 1 /\ Len(th[c].ids) <= 1 /\ NoneHeld(th[c].ids, 1)
      /\ th[c].via \notin Pooled
    <2>1. th[c].via = "caller" /\ th[c].via \notin Pooled
        BY <1>1, <1>2 DEF CallerAt, Pooled
    <2>2. Len(th[c].ids) <= 1
        BY <1>2, <2>1 DEF CallerAt
    <2>3. NoneHeld(th[c].ids, 1)
        BY <1>1, <1>2 DEF CallerAt
    <2>4. Len(th[c].ids) >= 1
        BY <1>1, <1>2 DEF ThreadAt
    <2> QED BY <2>1, <2>2, <2>3, <2>4
<1>4. PICK i \in Made : i = Cur(c) /\ i = th[c].ids[1]
    BY <1>2, <1>3, CurFacts
<1>5. tx[i].held = 0 /\ Has(c, i)
    BY <1>3, <1>4 DEF NoneHeld, Has
<1>6. tx' = [tx EXCEPT ![i].held = 0] /\ registered' = registered
    BY <1>3, <1>4 DEF DeqBookkeeping
<1>7. PICK x : x = [th[c] EXCEPT !.pc = "unpin"]
    OBVIOUS
<1>8. /\ x \in ThreadType /\ x.pc = "unpin" /\ x.snap = th[c].snap
      /\ x.ids = th[c].ids /\ x.via = th[c].via /\ x.trk = th[c].trk /\ x.pin = th[c].pin
    BY <1>2, <1>7 DEF ThreadType, ThreadPCs
<1>9. th' = [th EXCEPT ![c] = x]
    BY <1>2, <1>7 DEF DeqBookkeeping, TypeInv
<1>10. th'[c] = x
    BY <1>2, <1>9 DEF TypeInv
<1>11. 0 \in 0 .. MaxTrackers
    BY Bounds
<1>12. tx'[i].held = 0
    BY <1>2, <1>6, <1>11, HoldFacts
<1>13. NoneHeld(x.ids, 1)'
    BY <1>2, <1>3, <1>4, <1>8, <1>12 DEF NoneHeld
<1>14. CallerAt(c)'
    BY <1>3, <1>8, <1>10, <1>13 DEF CallerAt, RunPCs
<1>15. ThreadAt(c)'
    BY <1>2, <1>8, <1>10, <1>14 DEF ThreadAt
<1>16. ListAt(x.ids) /\ \A a \in 1 .. Len(x.ids) : Has(c, x.ids[a])
    BY <1>2, <1>8 DEF PlaceInv, Has
<1>17. x.pc \notin {"read", "commit"} /\ th[c].pc # "read"
    BY <1>1, <1>8
<1> QED BY <1>1, <1>2, <1>5, <1>6, <1>8, <1>9, <1>11, <1>15, <1>16, <1>17, HoldStep

LEMMA IdleType == /\ Idle \in ThreadType /\ Idle.pc = "idle" /\ Idle.ids = <<>> /\ Idle.pin = 0
                  /\ Len(Idle.ids) = 0
<1>1. 0 \in 0 .. Latest /\ 0 \in 0 .. MaxTrackers /\ <<>> \in Seq(Nat) /\ "caller" \in Vias /\ "idle" \in ThreadPCs
    BY Bounds DEF Vias, ThreadPCs
<1> QED BY <1>1 DEF Idle, ThreadType, NoSnap

(* deq_bookkeeping, by a thread of the pool, which goes on to the next      *)
(* transaction of the batch.                                                *)
LEMMA DeqWorkerTx ==
    ASSUME TxInv, NEW w \in Workers, DeqBookkeeping(w)
    PROVE  TxInv'
<1>1. /\ th[w].pc = "deq" /\ th[w].pc \in RunPCs
      /\ UNCHANGED <<clockVars, treeVars, created, db_tracker, pins, pool, queue, iters, todo>>
    BY DEF DeqBookkeeping, RunPCs
<1>2. /\ w \in Threads /\ w \notin Callers /\ TypeInv /\ PlaceInv /\ ThreadAt(w) /\ WorkerAt(w)
      /\ th[w] \in ThreadType /\ th[w].ids \in Seq(Nat) /\ ListAt(th[w].ids)
    BY Bounds, ThreadTypes DEF TxInv, ThreadAt, PlaceInv
<1>3. /\ Len(th[w].ids) >= 1 /\ NoneHeld(th[w].ids, 2) /\ th[w].trk = db_tracker
      /\ th[w].via \in Pooled /\ th[w].pin = 0 /\ tx[th[w].ids[1]].held = Due(th[w].ids[1])
      /\ th[w].via # "batch" => Len(th[w].ids) = 1
    BY <1>1, <1>2 DEF ThreadAt, WorkerAt
<1>4. PICK i \in Made : i = Cur(w) /\ i = th[w].ids[1] /\ \A a \in 2 .. Len(th[w].ids) : th[w].ids[a] # i
    BY <1>2, <1>3, CurFacts
<1>5. Has(w, i) /\ tx[i].held = Due(i)
    BY <1>3, <1>4 DEF Has
<1>6. tx' = [tx EXCEPT ![i].held = 0]
    BY <1>4 DEF DeqBookkeeping
<1>7. 0 \in 0 .. MaxTrackers
    BY Bounds
<1>8. tx'[i].held = 0 /\ Made' = Made /\ \A j \in Made : j # i => tx'[j] = tx[j]
    BY <1>2, <1>6, <1>7, HoldFacts
<1>9. \/ tx[i].snap \in Snapshots /\ Release(tx[i].held, tx[i].snap)
      \/ 0 = tx[i].held /\ registered' = registered
    <2>1. CASE Tracked(i)
        <3>1. tx[i].snap \in 0 .. Latest /\ tx[i].snap # 0
            BY <1>2, <2>1, TxTypes DEF Tracked, NoSnap
        <3>2. tx[i].snap \in Snapshots
            BY <3>1, Bounds
        <3>3. tx[i].held = th[w].trk
            BY <1>3, <1>5, <2>1 DEF Due
        <3>4. Release(th[w].trk, tx[i].snap)
            BY <1>3, <1>4, <2>1 DEF DeqBookkeeping
        <3> QED BY <3>2, <3>3, <3>4
    <2>2. CASE ~Tracked(i)
        BY <1>4, <1>5, <2>2 DEF DeqBookkeeping, Due
    <2> QED BY <2>1, <2>2
<1>10. CASE Len(th[w].ids) > 1
    <2>1. PICK ids \in Seq(Nat) : ids = Tail(th[w].ids)
        <3>1. PICK q \in Seq(Nat) : q = th[w].ids
            BY <1>2
        <3>2. q # <<>>
            BY <1>10, <3>1
        <3>3. Tail(q) \in Seq(Nat)
            BY <3>2
        <3> QED BY <3>1, <3>3
    <2>2. Len(ids) = Len(th[w].ids) - 1 /\ Len(ids) \in Nat /\ Len(th[w].ids) \in Nat
          /\ \A a \in 1 .. Len(ids) : ids[a] = th[w].ids[a + 1] /\ a + 1 \in 2 .. Len(th[w].ids)
        BY <1>2, <1>10, <2>1
    <2>3. PICK x : x = [th[w] EXCEPT !.pc = "enq", !.ids = ids]
        OBVIOUS
    <2>4. /\ x \in ThreadType /\ x.pc = "enq" /\ x.snap = th[w].snap
          /\ x.ids = ids /\ x.via = th[w].via /\ x.trk = th[w].trk /\ x.pin = th[w].pin
        BY <1>2, <2>3 DEF ThreadType, ThreadPCs
    <2>5. th' = [th EXCEPT ![w] = x]
        <3>1. PICK me \in ThreadType : me = th[w]
            BY <1>2
        <3>2. [me EXCEPT !.pc = "enq", !.ids = Tail(th[w].ids)] = x
            BY <2>1, <2>3, <3>1 DEF ThreadType
        <3>3. th' = [th EXCEPT ![w] = [me EXCEPT !.pc = "enq", !.ids = Tail(th[w].ids)]]
            BY <1>2, <1>10, <3>1 DEF DeqBookkeeping
        <3> QED BY <3>2, <3>3
    <2>6. th'[w] = x
        BY <1>2, <2>5 DEF TypeInv
    <2>7. \A a \in 1 .. Len(ids) : ids[a] \in Made /\ ids[a] # i /\ tx[ids[a]].held = 0 /\ Has(w, ids[a])
        <3> SUFFICES ASSUME NEW a \in 1 .. Len(ids)
                     PROVE  ids[a] \in Made /\ ids[a] # i /\ tx[ids[a]].held = 0 /\ Has(w, ids[a])
            OBVIOUS
        <3>1. PICK b \in 2 .. Len(th[w].ids) : ids[a] = th[w].ids[b]
            BY <2>2
        <3>2. b \in 1 .. Len(th[w].ids)
            BY <2>2
        <3> QED BY <1>2, <1>3, <1>4, <3>1, <3>2 DEF ListAt, NoneHeld, Has
    <2>8. ListAt(x.ids)
        <3>1. \A a, b \in 1 .. Len(ids) : a # b => ids[a] # ids[b]
            <4> SUFFICES ASSUME NEW a \in 1 .. Len(ids), NEW b \in 1 .. Len(ids), a # b
                         PROVE  th[w].ids[a + 1] # th[w].ids[b + 1]
                BY <2>2
            <4>1. a + 1 \in 1 .. Len(th[w].ids) /\ b + 1 \in 1 .. Len(th[w].ids) /\ a + 1 # b + 1
                BY <2>2
            <4> QED BY <1>2, <4>1 DEF ListAt
        <3> QED BY <2>4, <2>7, <3>1 DEF ListAt
    <2>9. NoneHeld(x.ids, 1)'
        BY <1>8, <2>4, <2>7 DEF NoneHeld
    <2>10. WorkerAt(w)'
        <3>1. th[w].via = "batch"
            <4>1. Len(th[w].ids) # 1
                BY <2>2, <1>10
            <4> QED BY <1>3, <4>1
        <3> QED BY <1>1, <1>3, <2>4, <2>6, <2>9, <3>1 DEF WorkerAt, RunPCs, CallPCs
    <2>11. ThreadAt(w)'
        <3>1. Len(ids) >= 1
            BY <1>10, <2>2
        <3> QED BY <1>2, <1>3, <2>4, <2>6, <2>10, <3>1 DEF ThreadAt
    <2>12. x.pc \notin {"read", "commit"} /\ th[w].pc # "read" /\ \A a \in 1 .. Len(x.ids) : Has(w, x.ids[a])
        BY <1>1, <2>4, <2>7
    <2> QED BY <1>1, <1>2, <1>5, <1>6, <1>7, <1>9, <2>4, <2>5, <2>8, <2>11, <2>12, HoldStep
<1>11. CASE Len(th[w].ids) <= 1
    <2>1. PICK x \in ThreadType : x = Idle
        BY IdleType
    <2>2. x.pc = "idle" /\ x.ids = <<>> /\ x.pin = 0 /\ Len(x.ids) = 0
        BY <2>1, IdleType
    <2>3. th' = [th EXCEPT ![w] = x]
        <3>1. ~(Len(th[w].ids) > 1)
            BY <1>2, <1>11
        <3> QED BY <1>2, <2>1, <3>1 DEF DeqBookkeeping, TypeInv
    <2>4. th'[w] = x
        BY <1>2, <2>3 DEF TypeInv
    <2>5. WorkerAt(w)'
        BY <2>2, <2>4 DEF WorkerAt, RunPCs, CallPCs
    <2>6. ThreadAt(w)'
        BY <1>2, <2>2, <2>4, <2>5 DEF ThreadAt
    <2>7. /\ x.pc \notin {"read", "commit"} /\ th[w].pc # "read" /\ x.pin = th[w].pin
          /\ ListAt(x.ids) /\ \A a \in 1 .. Len(x.ids) : Has(w, x.ids[a])
        BY <1>1, <1>3, <2>2 DEF ListAt
    <2> QED BY <1>1, <1>2, <1>5, <1>6, <1>7, <1>9, <2>2, <2>3, <2>6, <2>7, HoldStep
<1> QED BY <1>2, <1>10, <1>11

---------------------------------------------------------------------------
(* A call of the manager, up to the hand-over.                              *)

LEMMA CallStep ==
    ASSUME TxInv, NEW c \in Callers, NEW x \in ThreadType, th' = [th EXCEPT ![c] = x],
           x.pc \notin {"read", "commit"}, th[c].pc # "read",
           tx' \in Seq(TxType), Made \subseteq Made',
           \A i \in Made : SameTx(i) \/ (Has(c, i) /\ tx[i].held = 0 /\ tx'[i].held = 0),
           \A i \in Made : Len(tx'[i].results) = Len(tx[i].results), \A i \in Made' \ Made : tx'[i].held = 0,
           todo' \in Seq(Calls), ListAt(x.ids)', \A a \in 1 .. Len(x.ids) : Has(c, x.ids[a]) \/ x.ids[a] \notin Made,
           ThreadAt(c)', PinsMatch', pins' \in [Trackers -> [Snapshots -> Nat]],
           UNCHANGED <<clockVars, treeVars, created, db_tracker, registered, pool, queue, iters>>
    PROVE  TxInv'
<1>1. TypeInv /\ RegistrationsMatch /\ c \in Threads
    BY Bounds DEF TxInv
<1>2. OthersStay(c) /\ th'[c] = x /\ th' \in [Threads -> ThreadType]
    BY <1>1 DEF OthersStay, TypeInv
<1>3. TypeInv'
    BY <1>1, <1>2 DEF TypeInv, clockVars, treeVars, Alive
<1>4. RegistrationsMatch'
    <2>1. ASSUME NEW k \in Trackers, NEW s \in Snapshots PROVE Held(k, s)' = Held(k, s)
        <3>1. HeldTx(k, s)' = HeldTx(k, s)
            <4>1. k # 0
                BY Bounds
            <4> QED BY <4>1 DEF HeldTx, SameTx
        <3>2. Reading(k, s)' = Reading(k, s) /\ Open(k, s)' = Open(k, s)
            BY <1>1, <1>2, ReadingStays, OpenStays
        <3>3. Held(k, s)' = Cardinality(HeldTx(k, s)') + Cardinality(Reading(k, s)') + Cardinality(Open(k, s)')
            BY DEF Held, HeldTx, Reading, Open
        <3> QED BY <3>1, <3>2, <3>3, HeldIs
    <2> QED BY <1>1, <2>1 DEF RegistrationsMatch
<1>5. CommitAt(c)'
    BY <1>2 DEF CommitAt
<1>6. ListAt(th[c].ids)' /\ \A a \in 1 .. Len(th'[c].ids) : Has(c, th'[c].ids[a]) \/ th'[c].ids[a] \notin Made
    BY <1>2
<1>7. /\ \A i \in Made : Has(c, i) \/ SameTx(i)
      /\ \A i \in Made : Len(tx'[i].results) >= Len(tx[i].results)
    <2>1. \A i \in Made : Len(tx[i].results) \in Nat
        BY <1>1, TxTypes
    <2> QED BY <2>1
<1> QED BY <1>1, <1>2, <1>3, <1>4, <1>5, <1>6, <1>7, ThreadStep

LEMMA CallerFacts ==
    ASSUME TxInv, NEW c \in Callers
    PROVE  /\ c \in Threads /\ c \notin Workers /\ TypeInv /\ PlaceInv /\ ThreadAt(c) /\ CallerAt(c)
           /\ th[c] \in ThreadType /\ th[c].ids \in Seq(Nat) /\ ListAt(th[c].ids)
           /\ pins \in [Trackers -> [Snapshots -> Nat]] /\ todo \in Seq(Calls)
<1>1. c \in Threads /\ c \notin Workers
    BY Bounds
<1>2. TypeInv /\ PlaceInv /\ ThreadAt(c) /\ ListAt(th[c].ids)
    BY <1>1 DEF TxInv, PlaceInv
<1> QED BY <1>1, <1>2, ThreadTypes DEF ThreadAt, TypeInv

(* The pins stay those of the callers.                                      *)
LEMMA SamePins ==
    ASSUME TxInv, NEW c \in Callers, NEW x \in ThreadType, th' = [th EXCEPT ![c] = x], x.pin = th[c].pin,
           pins' = pins, db_tracker' = db_tracker
    PROVE  PinsMatch' /\ pins' \in [Trackers -> [Snapshots -> Nat]]
<1>1. TypeInv /\ PinsMatch /\ c \in Threads
    BY Bounds DEF TxInv
<1>2. OthersStay(c) /\ th'[c] = x
    BY <1>1 DEF OthersStay, TypeInv
<1>3. PinsMatch'
    BY <1>1, <1>2, PinsStay
<1> QED BY <1>1, <1>3 DEF TypeInv

LEMMA NewTxType ==
    ASSUME NEW call \in Calls, NEW s \in 0 .. Latest
    PROVE  NewTx(call, s) \in TxType /\ NewTx(call, s).held = 0
<1>1. /\ call.multi \in BOOLEAN /\ call.script \in Seq(Operation) /\ <<>> \in Seq(Result)
      /\ 0 \in 0 .. MaxTrackers
    BY Bounds DEF Calls
<1>2. Protected(call) \in BOOLEAN
    BY DEF Protected
<1> QED BY <1>1, <1>2 DEF NewTx, TxType

LEMMA AppendTx ==
    ASSUME TypeInv, NEW e \in TxType, e.held = 0, tx' = Append(tx, e)
    PROVE  /\ tx' \in Seq(TxType) /\ Made' = Made \cup {Len(tx) + 1} /\ Len(tx) + 1 \notin Made
           /\ Len(tx) + 1 \in Nat /\ tx'[Len(tx) + 1] = e /\ \A i \in Made : tx'[i] = tx[i]
           /\ \A i \in Made : SameTx(i) /\ Len(tx'[i].results) = Len(tx[i].results)
           /\ Made \subseteq Made' /\ \A i \in Made' \ Made : tx'[i].held = 0
<1>1. tx \in Seq(TxType) /\ Len(tx) \in Nat /\ Made = 1 .. Len(tx)
    BY DEF TypeInv, Made
<1>2. tx' \in Seq(TxType) /\ Len(tx') = Len(tx) + 1
    BY <1>1, AppendType
<1>3. Made' = 1 .. Len(tx) + 1
    BY <1>1, <1>2 DEF Made
<1>4. tx'[Len(tx) + 1] = e /\ \A i \in Made : tx'[i] = tx[i]
    BY <1>1
<1> QED BY <1>1, <1>2, <1>3, <1>4 DEF SameTx

LEMMA CallTx ==
    ASSUME TxInv, NEW c \in Callers, Call(c)
    PROVE  TxInv'
<1>1. /\ th[c].pc = "idle" /\ todo # <<>> /\ todo' = Tail(todo)
      /\ UNCHANGED <<clockVars, treeVars, gcVars, pool, queue, iters>>
    BY DEF Call
<1>2. /\ c \in Threads /\ c \notin Workers /\ TypeInv /\ ThreadAt(c) /\ th[c] \in ThreadType /\ todo \in Seq(Calls)
    BY CallerFacts
<1>3. PICK call \in Calls : call = Head(todo)
    BY <1>1, <1>2
<1>4. todo' \in Seq(Calls) /\ call.via \in Vias
    BY <1>1, <1>2 DEF Calls
<1>5. PICK e \in TxType : e = NewTx(call, NoSnap) /\ e.held = 0
    <2>1. NoSnap \in 0 .. Latest
        BY Bounds DEF NoSnap
    <2> QED BY <2>1, NewTxType
<1>6. tx' = Append(tx, e)
    BY <1>3, <1>5 DEF Call
<1>7. PICK m \in Nat : m = Len(tx) + 1
    BY <1>2 DEF TypeInv
<1>8. /\ tx' \in Seq(TxType) /\ Made' = Made \cup {m} /\ m \notin Made /\ tx'[m].held = 0
      /\ \A i \in Made : SameTx(i) /\ Len(tx'[i].results) = Len(tx[i].results)
      /\ Made \subseteq Made' /\ \A i \in Made' \ Made : tx'[i].held = 0
    BY <1>2, <1>5, <1>6, <1>7, AppendTx
<1>9. PICK p \in {"pin", "submit"} : p = IF call.snapped THEN "pin" ELSE "submit"
    OBVIOUS
<1>10. PICK x : x = [th[c] EXCEPT !.pc = p, !.ids = <<m>>, !.via = call.via]
    OBVIOUS
<1>11. /\ x \in ThreadType /\ x.pc = p /\ x.ids = <<m>> /\ x.via = call.via /\ x.pin = th[c].pin
       /\ Len(x.ids) = 1 /\ x.ids[1] = m
    <2>1. <<m>> \in Seq(Nat) /\ Len(<<m>>) = 1 /\ <<m>>[1] = m
        OBVIOUS
    <2>2. p \in ThreadPCs
        BY DEF ThreadPCs
    <2> QED BY <1>2, <1>4, <1>10, <2>1, <2>2 DEF ThreadType
<1>12. th' = [th EXCEPT ![c] = x]
    BY <1>2, <1>3, <1>7, <1>9, <1>10 DEF Call, TypeInv
<1>13. th'[c] = x
    BY <1>2, <1>12 DEF TypeInv
<1>14. CallerAt(c)'
    <2>1. NoneHeld(x.ids, 1)'
        BY <1>8, <1>11 DEF NoneHeld
    <2>2. x.pc \notin RunPCs /\ x.pc # "enq" /\ x.pc # "send" /\ Len(x.ids) <= 1
        BY <1>9, <1>11 DEF RunPCs
    <2> QED BY <1>13, <2>1, <2>2 DEF CallerAt
<1>15. ThreadAt(c)'
    <2>1. x.pc \notin {"next", "read", "commit", "deq"} /\ x.pc # "idle" /\ x.pin = 0 /\ Len(x.ids) >= 1
        BY <1>1, <1>2, <1>9, <1>11 DEF ThreadAt
    <2> QED BY <1>2, <1>13, <1>14, <2>1 DEF ThreadAt
<1>16. ListAt(x.ids)' /\ \A a \in 1 .. Len(x.ids) : x.ids[a] \notin Made
    BY <1>8, <1>11 DEF ListAt
<1>17. x.pc \notin {"read", "commit"} /\ th[c].pc # "read"
    BY <1>1, <1>9, <1>11
<1>18. PinsMatch' /\ pins' \in [Trackers -> [Snapshots -> Nat]]
    BY <1>1, <1>11, <1>12, SamePins DEF gcVars
<1> QED BY <1>1, <1>4, <1>8, <1>11, <1>12, <1>15, <1>16, <1>17, <1>18, CallStep DEF gcVars

LEMMA AddToBatchTx ==
    ASSUME TxInv, NEW c \in Callers, AddToBatch(c)
    PROVE  TxInv'
<1>1. /\ th[c].pc = "submit" /\ th[c].via = "batch" /\ todo # <<>> /\ todo' = Tail(todo)
      /\ UNCHANGED <<clockVars, treeVars, gcVars, pool, queue, iters>>
    BY DEF AddToBatch
<1>2. /\ c \in Threads /\ c \notin Workers /\ TypeInv /\ PlaceInv /\ ThreadAt(c) /\ CallerAt(c)
      /\ th[c] \in ThreadType /\ th[c].ids \in Seq(Nat) /\ todo \in Seq(Calls) /\ ListAt(th[c].ids)
    BY CallerFacts
<1>3. PICK call \in Calls : call = Head(todo)
    BY <1>1, <1>2
<1>4. todo' \in Seq(Calls) /\ Len(th[c].ids) >= 1 /\ NoneHeld(th[c].ids, 1)
    BY <1>1, <1>2 DEF ThreadAt, CallerAt
<1>5. PICK e \in TxType : e = NewTx(call, tx[Cur(c)].snap) /\ e.held = 0
    <2>1. tx[Cur(c)].snap \in 0 .. Latest
        BY <1>2, <1>4, CurFacts, TxTypes
    <2> QED BY <2>1, NewTxType
<1>6. tx' = Append(tx, e)
    BY <1>3, <1>5 DEF AddToBatch
<1>7. PICK m \in Nat : m = Len(tx) + 1
    BY <1>2 DEF TypeInv
<1>8. /\ tx' \in Seq(TxType) /\ Made' = Made \cup {m} /\ m \notin Made /\ tx'[m].held = 0
      /\ \A i \in Made : SameTx(i) /\ Len(tx'[i].results) = Len(tx[i].results)
      /\ Made \subseteq Made' /\ \A i \in Made' \ Made : tx'[i].held = 0
    BY <1>2, <1>5, <1>6, <1>7, AppendTx
<1>9. PICK old \in Seq(Nat) : old = th[c].ids
    BY <1>2
<1>10. PICK ids \in Seq(Nat) : ids = Append(old, m)
    BY AppendType
<1>11. Len(ids) = Len(old) + 1 /\ Len(old) \in Nat /\ ids[Len(old) + 1] = m /\ \A a \in 1 .. Len(old) : ids[a] = old[a]
    BY <1>10
<1>12. PICK x : x = [th[c] EXCEPT !.ids = ids]
    OBVIOUS
<1>13. /\ x \in ThreadType /\ x.pc = "submit" /\ x.ids = ids /\ x.via = "batch" /\ x.pin = th[c].pin
    BY <1>1, <1>2, <1>12 DEF ThreadType
<1>14. th' = [th EXCEPT ![c] = x]
    BY <1>2, <1>7, <1>9, <1>10, <1>12 DEF AddToBatch, TypeInv
<1>15. th'[c] = x
    BY <1>2, <1>14 DEF TypeInv
<1>16. \A a \in 1 .. Len(ids) : (a \in 1 .. Len(old) /\ ids[a] = old[a] /\ ids[a] \in Made) \/ (a = Len(old) + 1 /\ ids[a] = m)
    <2> SUFFICES ASSUME NEW a \in 1 .. Len(ids)
                 PROVE  (a \in 1 .. Len(old) /\ ids[a] = old[a] /\ ids[a] \in Made) \/ (a = Len(old) + 1 /\ ids[a] = m)
        OBVIOUS
    <2>1. a \in 1 .. Len(old) \/ a = Len(old) + 1
        BY <1>11
    <2>2. \A b \in 1 .. Len(old) : old[b] \in Made
        BY <1>2, <1>9 DEF ListAt
    <2> QED BY <1>11, <2>1, <2>2
<1>17. ListAt(x.ids)'
    <2>1. \A a \in 1 .. Len(ids) : ids[a] \in Made'
        BY <1>8, <1>16
    <2>2. ASSUME NEW a \in 1 .. Len(ids), NEW b \in 1 .. Len(ids), a # b PROVE ids[a] # ids[b]
        <3>1. CASE ids[a] = m \/ ids[b] = m
            BY <1>8, <1>16, <2>2, <3>1
        <3>2. CASE ids[a] # m /\ ids[b] # m
            BY <1>2, <1>9, <1>16, <2>2, <3>2 DEF ListAt
        <3> QED BY <3>1, <3>2
    <2> QED BY <1>13, <2>1, <2>2 DEF ListAt
<1>18. NoneHeld(x.ids, 1)'
    <2>1. \A a \in 1 .. Len(old) : tx[old[a]].held = 0 /\ tx'[old[a]].held = 0
        BY <1>2, <1>4, <1>8, <1>9 DEF NoneHeld, SameTx, ListAt
    <2> QED BY <1>8, <1>13, <1>16, <2>1 DEF NoneHeld
<1>19. CallerAt(c)'
    BY <1>13, <1>15, <1>18 DEF CallerAt, RunPCs
<1>20. ThreadAt(c)'
    <2>1. Len(ids) >= 1
        BY <1>11
    <2> QED BY <1>2, <1>13, <1>15, <1>19, <2>1 DEF ThreadAt
<1>21. \A a \in 1 .. Len(x.ids) : Has(c, x.ids[a]) \/ x.ids[a] \notin Made
    BY <1>8, <1>9, <1>13, <1>16 DEF Has
<1>22. x.pc \notin {"read", "commit"} /\ th[c].pc # "read"
    BY <1>1, <1>13
<1>23. PinsMatch' /\ pins' \in [Trackers -> [Snapshots -> Nat]]
    BY <1>1, <1>13, <1>14, SamePins DEF gcVars
<1> QED BY <1>1, <1>4, <1>8, <1>13, <1>14, <1>17, <1>20, <1>21, <1>22, <1>23, CallStep DEF gcVars

LEMMA PinReaderTx ==
    ASSUME TxInv, NEW c \in Callers, PinReader(c)
    PROVE  TxInv'
<1>1. /\ th[c].pc = "pin" /\ pins' = IF db_tracker = 0 THEN pins ELSE [pins EXCEPT ![db_tracker][wm] = @ + 1]
      /\ UNCHANGED <<clockVars, treeVars, created, db_tracker, registered, pool, queue, tx, iters, todo>>
    BY DEF PinReader
<1>2. /\ c \in Threads /\ c \notin Workers /\ TypeInv /\ PlaceInv /\ ThreadAt(c) /\ CallerAt(c) /\ PinsMatch
      /\ th[c] \in ThreadType /\ th[c].ids \in Seq(Nat) /\ todo \in Seq(Calls) /\ ListAt(th[c].ids)
      /\ pins \in [Trackers -> [Snapshots -> Nat]]
    BY CallerFacts DEF TxInv
<1>3. th[c].pin = 0 /\ Len(th[c].ids) >= 1
    BY <1>1, <1>2 DEF ThreadAt
<1>4. PICK s \in Snapshots : s = wm
    BY <1>2, Bounds DEF TypeInv
<1>5. PICK x : x = [th[c] EXCEPT !.pc = "draw", !.pin = s]
    OBVIOUS
<1>6. x \in ThreadType /\ x.pc = "draw" /\ x.ids = th[c].ids /\ x.via = th[c].via /\ x.pin = s
    <2>1. s \in 0 .. Latest
        BY Bounds
    <2> QED BY <1>2, <1>5, <2>1 DEF ThreadType, ThreadPCs
<1>7. th' = [th EXCEPT ![c] = x]
    BY <1>2, <1>4, <1>5 DEF PinReader, TypeInv
<1>8. th'[c] = x /\ \A u \in Threads : u # c => th'[u] = th[u]
    BY <1>2, <1>7 DEF TypeInv
<1>9. /\ tx' \in Seq(TxType) /\ Made' = Made /\ \A i \in Made : SameTx(i) /\ Len(tx'[i].results) = Len(tx[i].results)
    BY <1>1, <1>2 DEF TypeInv, Made, SameTx
<1>10. CallerAt(c)'
    <2>1. NoneHeld(x.ids, 1)'
        BY <1>1, <1>2, <1>6 DEF CallerAt, NoneHeld
    <2>2. th[c].via # "batch" => Len(th[c].ids) <= 1
        BY <1>2 DEF CallerAt
    <2> QED BY <1>6, <1>8, <2>1, <2>2 DEF CallerAt, RunPCs
<1>11. ThreadAt(c)'
    BY <1>2, <1>3, <1>6, <1>8, <1>10 DEF ThreadAt
<1>12. ListAt(x.ids)' /\ \A a \in 1 .. Len(x.ids) : Has(c, x.ids[a])
    BY <1>2, <1>6, <1>9 DEF ListAt, Has
<1>13. PinsMatch' /\ pins' \in [Trackers -> [Snapshots -> Nat]]
    <2>1. ASSUME NEW k \in Trackers, NEW r \in Snapshots
          PROVE  Cardinality(Pinning(k, r)') =
                    IF k = db_tracker /\ r = s THEN Cardinality(Pinning(k, r)) + 1 ELSE Cardinality(Pinning(k, r))
        <3>1. r # 0
            BY Bounds
        <3>2. Pinning(k, r)' = IF k = db_tracker /\ r = s THEN Pinning(k, r) \cup {c} ELSE Pinning(k, r)
            BY <1>1, <1>2, <1>3, <1>6, <1>8, <3>1 DEF Pinning
        <3>3. c \notin Pinning(k, r)
            BY <1>3, <3>1 DEF Pinning
        <3>4. Cardinality(Pinning(k, r) \cup {c}) = Cardinality(Pinning(k, r)) + 1
            BY <1>2, <3>3, Countable, Gains
        <3> QED BY <3>2, <3>4
    <2>2. \A k \in Trackers, r \in Snapshots : pins[k][r] = Cardinality(Pinning(k, r))
        BY <1>2 DEF PinsMatch, Pinning
    <2>3. CASE db_tracker = 0
        <3>1. pins' = pins /\ db_tracker \notin Trackers
            BY <1>1, <2>3, Bounds
        <3>2. \A k \in Trackers, r \in Snapshots : pins'[k][r] = Cardinality(Pinning(k, r)')
            BY <2>1, <2>2, <3>1
        <3> QED BY <1>2, <3>1, <3>2 DEF PinsMatch, Pinning
    <2>4. CASE db_tracker # 0
        <3>1. db_tracker \in Trackers
            BY <1>2, <2>4, Bounds DEF TypeInv
        <3>2. pins' = [pins EXCEPT ![db_tracker][s] = @ + 1]
            BY <1>1, <1>4, <2>4
        <3>3. pins' \in [Trackers -> [Snapshots -> Nat]]
            BY <1>2, <3>1, <3>2
        <3>4. \A k \in Trackers, r \in Snapshots : pins'[k][r] = IF k = db_tracker /\ r = s THEN pins[k][r] + 1 ELSE pins[k][r]
            BY <1>2, <3>1, <3>2
        <3>5. \A k \in Trackers, r \in Snapshots : pins'[k][r] = Cardinality(Pinning(k, r)')
            BY <2>1, <2>2, <3>4
        <3> QED BY <3>3, <3>5 DEF PinsMatch, Pinning
    <2> QED BY <2>3, <2>4
<1>14. x.pc \notin {"read", "commit"} /\ th[c].pc # "read"
    BY <1>1, <1>6
<1> QED BY <1>1, <1>2, <1>6, <1>7, <1>9, <1>11, <1>12, <1>13, <1>14, CallStep

LEMMA ReturnTx ==
    ASSUME TxInv, NEW c \in Callers, Return(c)
    PROVE  TxInv'
<1>1. /\ th[c].pc = "unpin"
      /\ pins' = IF th[c].pin = 0 \/ db_tracker = 0 THEN pins ELSE [pins EXCEPT ![db_tracker][th[c].pin] = @ - 1]
      /\ UNCHANGED <<clockVars, treeVars, created, db_tracker, registered, pool, queue, tx, iters, todo>>
    BY DEF Return
<1>2. /\ c \in Threads /\ c \notin Workers /\ TypeInv /\ PinsMatch /\ todo \in Seq(Calls)
      /\ pins \in [Trackers -> [Snapshots -> Nat]]
    BY CallerFacts DEF TxInv
<1>3. PICK s \in 0 .. Latest : s = th[c].pin
    BY <1>2, ThreadTypes
<1>4. PICK x \in ThreadType : x = Idle
    BY IdleType
<1>5. x.pc = "idle" /\ x.ids = <<>> /\ x.pin = 0 /\ Len(x.ids) = 0
    BY <1>4, IdleType
<1>6. th' = [th EXCEPT ![c] = x]
    BY <1>4 DEF Return
<1>7. th'[c] = x /\ \A u \in Threads : u # c => th'[u] = th[u]
    BY <1>2, <1>6 DEF TypeInv
<1>8. /\ tx' \in Seq(TxType) /\ Made' = Made /\ \A i \in Made : SameTx(i) /\ Len(tx'[i].results) = Len(tx[i].results)
    BY <1>1, <1>2 DEF TypeInv, Made, SameTx
<1>9. CallerAt(c)'
    BY <1>5, <1>7 DEF CallerAt, RunPCs, NoneHeld
<1>10. ThreadAt(c)'
    BY <1>2, <1>5, <1>7, <1>9 DEF ThreadAt
<1>11. ListAt(x.ids)' /\ \A a \in 1 .. Len(x.ids) : Has(c, x.ids[a])
    BY <1>5 DEF ListAt
<1>12. PinsMatch' /\ pins' \in [Trackers -> [Snapshots -> Nat]]
    <2>1. ASSUME NEW k \in Trackers, NEW r \in Snapshots
          PROVE  /\ Cardinality(Pinning(k, r)') =
                      IF k = db_tracker /\ r = s THEN Cardinality(Pinning(k, r)) - 1 ELSE Cardinality(Pinning(k, r))
                 /\ k = db_tracker /\ r = s => Cardinality(Pinning(k, r)) >= 1
        <3>1. r # 0
            BY Bounds
        <3>2. Pinning(k, r)' = IF k = db_tracker /\ r = s THEN Pinning(k, r) \ {c} ELSE Pinning(k, r)
            BY <1>1, <1>3, <1>5, <1>7, <3>1 DEF Pinning
        <3>3. k = db_tracker /\ r = s => c \in Pinning(k, r)
            BY <1>2, <1>3 DEF Pinning
        <3>4. c \in Pinning(k, r) => /\ Cardinality(Pinning(k, r) \ {c}) = Cardinality(Pinning(k, r)) - 1
                                     /\ Cardinality(Pinning(k, r)) >= 1
            BY <1>2, Countable, Loses
        <3> QED BY <3>2, <3>3, <3>4
    <2>2. \A k \in Trackers, r \in Snapshots : pins[k][r] = Cardinality(Pinning(k, r))
        BY <1>2 DEF PinsMatch, Pinning
    <2>3. CASE s = 0 \/ db_tracker = 0
        <3>1. pins' = pins /\ (s \notin Snapshots \/ db_tracker \notin Trackers)
            BY <1>1, <1>3, <2>3, Bounds
        <3>2. \A k \in Trackers, r \in Snapshots : pins'[k][r] = Cardinality(Pinning(k, r)')
            BY <2>1, <2>2, <3>1
        <3> QED BY <1>2, <3>1, <3>2 DEF PinsMatch, Pinning
    <2>4. CASE s # 0 /\ db_tracker # 0
        <3>1. db_tracker \in Trackers /\ s \in Snapshots
            BY <1>2, <2>4, Bounds DEF TypeInv
        <3>2. pins' = [pins EXCEPT ![db_tracker][s] = @ - 1]
            BY <1>1, <1>3, <2>4
        <3>3. pins[db_tracker][s] \in Nat /\ pins[db_tracker][s] >= 1
            BY <1>2, <2>1, <2>2, <3>1
        <3>4. pins' \in [Trackers -> [Snapshots -> Nat]]
            BY <1>2, <3>1, <3>2, <3>3
        <3>5. \A k \in Trackers, r \in Snapshots : pins'[k][r] = IF k = db_tracker /\ r = s THEN pins[k][r] - 1 ELSE pins[k][r]
            BY <1>2, <3>1, <3>2
        <3>6. \A k \in Trackers, r \in Snapshots : pins'[k][r] = Cardinality(Pinning(k, r)')
            BY <2>1, <2>2, <3>5
        <3> QED BY <3>4, <3>6 DEF PinsMatch, Pinning
    <2> QED BY <2>3, <2>4
<1>13. x.pc \notin {"read", "commit"} /\ th[c].pc # "read"
    BY <1>1, <1>5
<1> QED BY <1>1, <1>2, <1>6, <1>8, <1>10, <1>11, <1>12, <1>13, CallStep

LEMMA ExecuteOnCallerThreadTx ==
    ASSUME TxInv, NEW c \in Callers, ExecuteOnCallerThread(c)
    PROVE  TxInv'
<1>1. /\ th[c].via = "caller" /\ th[c].pc = "submit" /\ Goto(c, "submit", "begin")
      /\ UNCHANGED <<clockVars, treeVars, gcVars, pool, queue, tx, iters, todo>>
    BY DEF ExecuteOnCallerThread, Goto
<1>2. /\ c \in Threads /\ c \notin Workers /\ TypeInv /\ ThreadAt(c) /\ CallerAt(c)
      /\ th[c] \in ThreadType /\ todo \in Seq(Calls) /\ ListAt(th[c].ids)
    BY CallerFacts
<1>3. PICK x : x = [th[c] EXCEPT !.pc = "begin"]
    OBVIOUS
<1>4. x \in ThreadType /\ x.pc = "begin" /\ x.ids = th[c].ids /\ x.via = th[c].via /\ x.pin = th[c].pin
    BY <1>2, <1>3 DEF ThreadType, ThreadPCs
<1>5. th' = [th EXCEPT ![c] = x]
    BY <1>1, <1>2, <1>3 DEF Goto, TypeInv
<1>6. th'[c] = x
    BY <1>2, <1>5 DEF TypeInv
<1>7. /\ tx' \in Seq(TxType) /\ Made' = Made /\ \A i \in Made : SameTx(i) /\ Len(tx'[i].results) = Len(tx[i].results)
    BY <1>1, <1>2 DEF TypeInv, Made, SameTx
<1>8. CallerAt(c)'
    <2>1. NoneHeld(x.ids, 1)'
        BY <1>1, <1>2, <1>4 DEF CallerAt, NoneHeld
    <2>2. Len(th[c].ids) <= 1
        BY <1>1, <1>2 DEF CallerAt
    <2> QED BY <1>1, <1>4, <1>6, <2>1, <2>2 DEF CallerAt
<1>9. ThreadAt(c)'
    <2>1. Len(th[c].ids) >= 1
        BY <1>1, <1>2 DEF ThreadAt
    <2> QED BY <1>2, <1>4, <1>6, <1>8, <2>1 DEF ThreadAt
<1>10. ListAt(x.ids)' /\ \A a \in 1 .. Len(x.ids) : Has(c, x.ids[a])
    BY <1>2, <1>4, <1>7 DEF ListAt, Has
<1>11. PinsMatch' /\ pins' \in [Trackers -> [Snapshots -> Nat]]
    BY <1>1, <1>4, <1>5, SamePins DEF gcVars
<1>12. x.pc \notin {"read", "commit"} /\ th[c].pc # "read"
    BY <1>1, <1>4
<1> QED BY <1>1, <1>2, <1>4, <1>5, <1>7, <1>9, <1>10, <1>11, <1>12, CallStep DEF gcVars

LEMMA DrawSnapshotTx ==
    ASSUME TxInv, NEW c \in Callers, DrawSnapshot(c)
    PROVE  TxInv'
<1>1. /\ th[c].pc = "draw" /\ Goto(c, "draw", "submit") /\ tx' = [tx EXCEPT ![Cur(c)].snap = wm]
      /\ UNCHANGED <<clockVars, treeVars, gcVars, pool, queue, iters, todo>>
    BY DEF DrawSnapshot, Goto
<1>2. /\ c \in Threads /\ c \notin Workers /\ TypeInv /\ PlaceInv /\ ThreadAt(c) /\ CallerAt(c)
      /\ th[c] \in ThreadType /\ th[c].ids \in Seq(Nat) /\ todo \in Seq(Calls) /\ ListAt(th[c].ids)
    BY CallerFacts
<1>3. Len(th[c].ids) >= 1 /\ NoneHeld(th[c].ids, 1) /\ (th[c].via # "batch" => Len(th[c].ids) <= 1)
    BY <1>1, <1>2 DEF ThreadAt, CallerAt
<1>4. PICK i \in Made : i = Cur(c) /\ i = th[c].ids[1]
    BY <1>2, <1>3, CurFacts
<1>5. PICK s \in 0 .. Latest : s = wm
    BY <1>2, Bounds DEF TypeInv
<1>6. tx[i] \in TxType /\ tx[i].held = 0 /\ Has(c, i)
    <2>1. tx[i] \in TxType
        BY <1>2, TxTypes
    <2>2. 1 \in 1 .. Len(th[c].ids)
        BY <1>2, <1>3
    <2> QED BY <1>3, <1>4, <2>1, <2>2 DEF NoneHeld, Has
<1>7. PICK y : y = [tx[i] EXCEPT !.snap = s]
    OBVIOUS
<1>8. y \in TxType /\ y.held = 0 /\ y.results = tx[i].results
    BY <1>6, <1>7 DEF TxType
<1>9. tx' = [tx EXCEPT ![i] = y]
    BY <1>1, <1>4, <1>5, <1>7
<1>10. /\ tx' \in Seq(TxType) /\ Made' = Made /\ tx'[i] = y /\ \A j \in Made : j # i => tx'[j] = tx[j]
    BY <1>2, <1>8, <1>9, TxUpdate
<1>11. /\ \A j \in Made : SameTx(j) \/ (Has(c, j) /\ tx[j].held = 0 /\ tx'[j].held = 0)
       /\ \A j \in Made : Len(tx'[j].results) = Len(tx[j].results) /\ tx'[j].held = tx[j].held
    BY <1>6, <1>8, <1>10 DEF SameTx
<1>12. PICK x : x = [th[c] EXCEPT !.pc = "submit"]
    OBVIOUS
<1>13. x \in ThreadType /\ x.pc = "submit" /\ x.ids = th[c].ids /\ x.via = th[c].via /\ x.pin = th[c].pin
    BY <1>2, <1>12 DEF ThreadType, ThreadPCs
<1>14. th' = [th EXCEPT ![c] = x]
    BY <1>1, <1>2, <1>12 DEF Goto, TypeInv
<1>15. th'[c] = x
    BY <1>2, <1>14 DEF TypeInv
<1>16. CallerAt(c)'
    <2>1. NoneHeld(x.ids, 1)'
        BY <1>2, <1>3, <1>11, <1>13 DEF NoneHeld, ListAt
    <2> QED BY <1>3, <1>13, <1>15, <2>1 DEF CallerAt, RunPCs
<1>17. ThreadAt(c)'
    BY <1>2, <1>3, <1>13, <1>15, <1>16 DEF ThreadAt
<1>18. ListAt(x.ids)' /\ \A a \in 1 .. Len(x.ids) : Has(c, x.ids[a])
    BY <1>2, <1>10, <1>13 DEF ListAt, Has
<1>19. PinsMatch' /\ pins' \in [Trackers -> [Snapshots -> Nat]]
    BY <1>1, <1>13, <1>14, SamePins DEF gcVars
<1>20. x.pc \notin {"read", "commit"} /\ th[c].pc # "read"
    BY <1>1, <1>13
<1> QED BY <1>1, <1>2, <1>10, <1>11, <1>13, <1>14, <1>17, <1>18, <1>19, <1>20, CallStep DEF gcVars

---------------------------------------------------------------------------
(* The queue of the pool.                                                   *)

(* Transactions move between one thread and the queue, none changes.        *)
LEMMA QueueStep ==
    ASSUME TxInv, NEW t \in Threads, NEW x \in ThreadType, th' = [th EXCEPT ![t] = x], x.pin = th[t].pin,
           x.pc \notin {"read", "commit"}, th[t].pc # "read",
           queue' \in Seq(JobType), PlaceInv', \A n \in 1 .. Len(queue') : JobAt(n)', ThreadAt(t)',
           UNCHANGED <<clockVars, treeVars, gcVars, pool, tx, iters, todo>>
    PROVE  TxInv'
<1>1. TypeInv /\ PinsMatch /\ RegistrationsMatch
    BY DEF TxInv
<1>2. OthersStay(t) /\ th'[t] = x /\ th' \in [Threads -> ThreadType]
    BY <1>1 DEF OthersStay, TypeInv
<1>3. Made' = Made /\ \A i \in Made : SameTx(i)
    BY DEF Made, SameTx
<1>4. TypeInv'
    BY <1>1, <1>2 DEF TypeInv, clockVars, treeVars, gcVars, Alive
<1>5. PinsMatch'
    BY <1>1, <1>2, PinsStay DEF gcVars
<1>6. RegistrationsMatch'
    BY <1>1, <1>2, <1>3, CountsStay DEF gcVars
<1>7. ASSUME NEW u \in Threads PROVE ThreadAt(u)' /\ CommitAt(u)'
    <2>1. CASE u = t
        BY <1>2, <2>1 DEF CommitAt
    <2>2. CASE u # t
        <3>1. th'[u] = th[u] /\ ThreadAt(u) /\ CommitAt(u) /\ ListAt(th[u].ids)
            BY <1>2, <2>2 DEF OthersStay, TxInv, PlaceInv
        <3>2. \A a \in 1 .. Len(th[u].ids) : SameTx(th[u].ids[a])
            BY <1>3, <3>1 DEF ListAt
        <3>3. ThreadAt(u)'
            BY <1>1, <3>1, <3>2, ThreadStays DEF gcVars
        <3>4. CommitAt(u)'
            BY <3>1 DEF CommitAt, Cur, Pos, Op
        <3> QED BY <3>3, <3>4
    <2> QED BY <2>1, <2>2
<1>8. \A it \in iters' : IterAt(it)'
    BY <1>3 DEF TxInv, IterAt
<1> QED BY <1>4, <1>5, <1>6, <1>7, <1>8 DEF TxInv

LEMMA SendTx ==
    ASSUME TxInv, NEW c \in Callers, Send(c)
    PROVE  TxInv'
<1>1. /\ th[c].pc = "send" \/ (th[c].pc = "submit" /\ th[c].via = "batch")
      /\ UNCHANGED <<clockVars, treeVars, gcVars, pool, tx, iters, todo>>
    BY DEF Send
<1>2. /\ c \in Threads /\ c \notin Workers /\ TypeInv /\ PlaceInv /\ ThreadAt(c) /\ CallerAt(c)
      /\ th[c] \in ThreadType /\ th[c].ids \in Seq(Nat) /\ ListAt(th[c].ids)
    BY CallerFacts
<1>3. Len(th[c].ids) >= 1
    BY <1>1, <1>2 DEF ThreadAt
<1>4. /\ th[c].via \in Pooled
      /\ th[c].via = "batch" => NoneHeld(th[c].ids, 1)
      /\ th[c].via # "batch" => Len(th[c].ids) <= 1 /\ tx[th[c].ids[1]].held = Due(th[c].ids[1])
    BY <1>1, <1>2 DEF CallerAt, Pooled
<1>5. PICK job : job = [ids |-> th[c].ids, via |-> th[c].via, trk |-> db_tracker]
    OBVIOUS
<1>6. job \in JobType /\ job.ids = th[c].ids /\ job.via = th[c].via /\ job.trk = db_tracker
    <2>1. db_tracker \in 0 .. MaxTrackers
        BY <1>2 DEF TypeInv
    <2> QED BY <1>2, <1>4, <1>5, <2>1 DEF JobType
<1>7. PICK N \in Nat : N = Len(queue)
    BY <1>2 DEF TypeInv
<1>8. queue' = Append(queue, job) /\ queue \in Seq(JobType)
    BY <1>2, <1>5 DEF Send, TypeInv
<1>9. queue' \in Seq(JobType) /\ Len(queue') = N + 1
    BY <1>6, <1>7, <1>8, AppendType
<1>10. /\ queue'[N + 1] = job /\ \A n \in 1 .. N : queue'[n] = queue[n]
    BY <1>7, <1>8
<1>11. \A n \in 1 .. Len(queue') : n \in 1 .. N \/ n = N + 1
    BY <1>9
<1>12. PICK x : x = [th[c] EXCEPT !.pc = "unpin", !.ids = <<>>]
    OBVIOUS
<1>13. x \in ThreadType /\ x.pc = "unpin" /\ x.ids = <<>> /\ x.via = th[c].via /\ x.pin = th[c].pin /\ Len(x.ids) = 0
    <2>1. <<>> \in Seq(Nat) /\ Len(<<>>) = 0
        OBVIOUS
    <2> QED BY <1>2, <1>12, <2>1 DEF ThreadType, ThreadPCs
<1>14. th' = [th EXCEPT ![c] = x]
    BY <1>2, <1>12 DEF Send, TypeInv
<1>15. th'[c] = x /\ \A u \in Threads : u # c => th'[u] = th[u]
    BY <1>2, <1>14 DEF TypeInv
<1>16. Made' = Made /\ \A i \in Made : SameTx(i)
    BY <1>1 DEF Made, SameTx
<1>17. PlaceInv'
    <2>1. \A t \in Threads : ListAt(th[t].ids)'
        BY <1>2, <1>13, <1>15, <1>16 DEF PlaceInv, ListAt
    <2>2. \A n \in 1 .. Len(queue') : ListAt(queue[n].ids)'
        <3> SUFFICES ASSUME NEW n \in 1 .. Len(queue') PROVE ListAt(queue'[n].ids)
            BY <1>16 DEF ListAt
        <3> QED BY <1>2, <1>6, <1>7, <1>10, <1>11 DEF PlaceInv
    <2>3. \A t, u \in Threads : t # u => Apart(th[t].ids, th[u].ids)'
        BY <1>2, <1>13, <1>15 DEF PlaceInv, Apart
    <2>4. \A t \in Threads, n \in 1 .. Len(queue') : Apart(th[t].ids, queue[n].ids)'
        <3> SUFFICES ASSUME NEW t \in Threads, NEW n \in 1 .. Len(queue') PROVE Apart(th'[t].ids, queue'[n].ids)
            BY DEF Apart
        <3>1. CASE t = c
            BY <1>13, <1>15, <3>1 DEF Apart
        <3>2. CASE t # c
            BY <1>2, <1>6, <1>7, <1>10, <1>11, <1>15, <3>2 DEF PlaceInv
        <3> QED BY <3>1, <3>2
    <2>5. \A m, n \in 1 .. Len(queue') : m # n => Apart(queue[m].ids, queue[n].ids)'
        <3> SUFFICES ASSUME NEW m \in 1 .. Len(queue'), NEW n \in 1 .. Len(queue'), m # n
                     PROVE  Apart(queue'[m].ids, queue'[n].ids)
            BY DEF Apart
        <3>1. \A l \in 1 .. N : Apart(job.ids, queue[l].ids) /\ Apart(queue[l].ids, job.ids)
            BY <1>2, <1>6, <1>7 DEF PlaceInv, Apart
        <3>2. m \in 1 .. N \/ m = N + 1
            BY <1>11
        <3>3. n \in 1 .. N \/ n = N + 1
            BY <1>11
        <3>4. CASE m \in 1 .. N /\ n \in 1 .. N
            BY <1>2, <1>7, <1>10, <3>4 DEF PlaceInv
        <3>5. CASE m = N + 1
            BY <1>10, <3>1, <3>3, <3>5
        <3>6. CASE n = N + 1
            BY <1>10, <3>1, <3>2, <3>6
        <3> QED BY <3>2, <3>3, <3>4, <3>5, <3>6
    <2> QED BY <2>1, <2>2, <2>3, <2>4, <2>5 DEF PlaceInv
<1>18. ASSUME NEW n \in 1 .. Len(queue') PROVE JobAt(n)'
    <2>1. CASE n \in 1 .. N
        <3>1. queue'[n] = queue[n] /\ n \in 1 .. Len(queue) /\ JobAt(n) /\ ListAt(queue[n].ids)
            BY <1>7, <1>10, <2>1 DEF TxInv, PlaceInv
        <3>2. \A a \in 1 .. Len(queue[n].ids) : SameTx(queue[n].ids[a])
            BY <1>16, <3>1 DEF ListAt
        <3> QED BY <1>1, <1>2, <3>1, <3>2, JobStays DEF gcVars
    <2>2. CASE n = N + 1
        <3>1. PICK ids \in Seq(Nat) : ids = th[c].ids
            BY <1>2
        <3>2. \A a \in 1 .. Len(ids) : SameTx(ids[a])
            BY <1>2, <1>16, <3>1 DEF ListAt
        <3>3. /\ Due(ids[1])' = Due(ids[1]) /\ tx'[ids[1]].held = tx[ids[1]].held
              /\ NoneHeld(ids, 1) => NoneHeld(ids, 1)'
            BY <1>1, <1>3, <3>1, <3>2, ListStays DEF gcVars
        <3>4. Len(ids) >= 1 /\ (job.via # "batch" => Len(ids) = 1)
            <4>1. Len(ids) \in Nat /\ Len(ids) >= 1 /\ (job.via # "batch" => Len(ids) <= 1)
                BY <1>3, <1>4, <1>6, <3>1
            <4> QED BY <4>1
        <3>5. queue'[n] = job /\ job.ids = ids /\ job.trk = db_tracker'
            BY <1>1, <1>6, <1>10, <2>2, <3>1 DEF gcVars
        <3> QED BY <1>4, <1>6, <3>1, <3>3, <3>4, <3>5 DEF JobAt
    <2> QED BY <1>11, <2>1, <2>2
<1>19. ThreadAt(c)'
    <2>1. CallerAt(c)'
        BY <1>13, <1>15 DEF CallerAt, RunPCs, NoneHeld
    <2> QED BY <1>2, <1>13, <1>15, <2>1 DEF ThreadAt
<1>20. x.pc \notin {"read", "commit"} /\ th[c].pc # "read"
    BY <1>1, <1>13
<1> QED BY <1>1, <1>2, <1>9, <1>13, <1>14, <1>17, <1>18, <1>19, <1>20, QueueStep

LEMMA TakeJobTx ==
    ASSUME TxInv, NEW w \in Workers, TakeJob(w)
    PROVE  TxInv'
<1>1. /\ th[w].pc = "idle" /\ queue # <<>> /\ queue' = Tail(queue)
      /\ UNCHANGED <<clockVars, treeVars, gcVars, pool, tx, iters, todo>>
    BY DEF TakeJob
<1>2. /\ w \in Threads /\ w \notin Callers /\ TypeInv /\ PlaceInv /\ ThreadAt(w) /\ WorkerAt(w)
      /\ th[w] \in ThreadType /\ th[w].pin = 0
    BY Bounds, ThreadTypes DEF TxInv, ThreadAt, WorkerAt
<1>3. PICK N \in Nat : N = Len(queue)
    BY <1>2 DEF TypeInv
<1>4. queue \in Seq(JobType) /\ N >= 1 /\ 1 \in 1 .. Len(queue)
    BY <1>1, <1>2, <1>3 DEF TypeInv
<1>5. PICK job \in JobType : job = queue[1] /\ job = Head(queue)
    BY <1>1, <1>4
<1>6. JobAt(1) /\ ListAt(job.ids) /\ job.ids \in Seq(Nat) /\ job.via \in Pooled /\ job.trk \in 0 .. MaxTrackers
    BY <1>4, <1>5 DEF TxInv, PlaceInv, JobType
<1>7. /\ Len(job.ids) >= 1 /\ job.trk = db_tracker
      /\ job.via = "batch" => NoneHeld(job.ids, 1)
      /\ job.via # "batch" => Len(job.ids) = 1 /\ tx[job.ids[1]].held = Due(job.ids[1])
    BY <1>5, <1>6 DEF JobAt
<1>8. queue' \in Seq(JobType) /\ Len(queue') = N - 1 /\ \A n \in 1 .. N - 1 : queue'[n] = queue[n + 1]
    BY <1>1, <1>3, <1>4
<1>9. \A n \in 1 .. Len(queue') : n + 1 \in 2 .. N /\ n + 1 \in 1 .. Len(queue) /\ queue'[n] = queue[n + 1]
    BY <1>3, <1>8
<1>10. PICK p \in {"enq", "begin"} : p = IF job.via = "batch" THEN "enq" ELSE "begin"
    OBVIOUS
<1>11. PICK x : x = [th[w] EXCEPT !.pc = p, !.ids = job.ids, !.via = job.via, !.trk = job.trk]
    OBVIOUS
<1>12. /\ x \in ThreadType /\ x.pc = p /\ x.ids = job.ids /\ x.via = job.via /\ x.trk = job.trk /\ x.pin = th[w].pin
    <2>1. p \in ThreadPCs /\ job.via \in Vias
        BY <1>6 DEF ThreadPCs, Vias
    <2> QED BY <1>2, <1>6, <1>11, <2>1 DEF ThreadType
<1>13. th' = [th EXCEPT ![w] = x]
    BY <1>2, <1>5, <1>10, <1>11 DEF TakeJob, TypeInv
<1>14. th'[w] = x /\ \A u \in Threads : u # w => th'[u] = th[u]
    BY <1>2, <1>13 DEF TypeInv
<1>15. Made' = Made /\ \A i \in Made : SameTx(i)
    BY <1>1 DEF Made, SameTx
<1>16. PlaceInv'
    <2>1. \A t \in Threads : ListAt(th'[t].ids)
        BY <1>2, <1>6, <1>12, <1>14 DEF PlaceInv
    <2>2. \A n \in 1 .. Len(queue') : ListAt(queue'[n].ids)
        BY <1>2, <1>9 DEF PlaceInv
    <2>3. \A t, u \in Threads : t # u => Apart(th'[t].ids, th'[u].ids)
        <3>1. \A u \in Threads : Apart(th[u].ids, job.ids) /\ Apart(job.ids, th[u].ids)
            BY <1>2, <1>4, <1>5 DEF PlaceInv, Apart
        <3> QED BY <1>2, <1>12, <1>14, <3>1 DEF PlaceInv
    <2>4. \A t \in Threads, n \in 1 .. Len(queue') : Apart(th'[t].ids, queue'[n].ids)
        <3> SUFFICES ASSUME NEW t \in Threads, NEW n \in 1 .. Len(queue') PROVE Apart(th'[t].ids, queue'[n].ids)
            OBVIOUS
        <3>1. PICK m \in 2 .. N : m \in 1 .. Len(queue) /\ queue'[n] = queue[m]
            BY <1>9
        <3>2. m # 1
            OBVIOUS
        <3> QED BY <1>2, <1>4, <1>5, <1>12, <1>14, <3>1, <3>2 DEF PlaceInv
    <2>5. \A m, n \in 1 .. Len(queue') : m # n => Apart(queue'[m].ids, queue'[n].ids)
        <3> SUFFICES ASSUME NEW m \in 1 .. Len(queue'), NEW n \in 1 .. Len(queue'), m # n
                     PROVE  Apart(queue'[m].ids, queue'[n].ids)
            OBVIOUS
        <3>1. m + 1 \in 1 .. Len(queue) /\ n + 1 \in 1 .. Len(queue) /\ m + 1 # n + 1
            BY <1>9
        <3>2. queue'[m] = queue[m + 1] /\ queue'[n] = queue[n + 1]
            BY <1>9
        <3> QED BY <1>2, <3>1, <3>2 DEF PlaceInv
    <2> QED BY <1>15, <2>1, <2>2, <2>3, <2>4, <2>5 DEF PlaceInv, ListAt, Apart
<1>17. ASSUME NEW n \in 1 .. Len(queue') PROVE JobAt(n)'
    <2>1. PICK m \in 1 .. Len(queue) : queue'[n] = queue[m]
        BY <1>9
    <2>2. JobAt(m) /\ ListAt(queue[m].ids)
        BY DEF TxInv, PlaceInv
    <2>3. \A a \in 1 .. Len(queue[m].ids) : SameTx(queue[m].ids[a])
        BY <1>15, <2>2 DEF ListAt
    <2> QED BY <1>1, <1>2, <2>1, <2>2, <2>3, JobStays DEF gcVars
<1>18. WorkerAt(w)'
    <2>1. PICK ids \in Seq(Nat) : ids = job.ids
        BY <1>6
    <2>2. \A a \in 1 .. Len(ids) : SameTx(ids[a])
        BY <1>6, <1>15, <2>1 DEF ListAt
    <2>3. /\ Due(ids[1])' = Due(ids[1]) /\ tx'[ids[1]].held = tx[ids[1]].held
          /\ NoneHeld(ids, 1) => NoneHeld(ids, 1)'
        BY <1>1, <1>7, <2>1, <2>2, ListStays DEF gcVars
    <2>4. x.pc \notin CallPCs /\ x.pin = 0 /\ x.trk = db_tracker' /\ x.via \in Pooled
        BY <1>1, <1>2, <1>6, <1>7, <1>10, <1>12 DEF CallPCs, gcVars
    <2>5. CASE job.via = "batch"
        <3>1. x.pc = "enq" /\ NoneHeld(ids, 1)'
            BY <1>7, <1>10, <1>12, <2>1, <2>3, <2>5
        <3> QED BY <1>12, <1>14, <2>1, <2>4, <2>5, <3>1 DEF WorkerAt, RunPCs
    <2>6. CASE job.via # "batch"
        <3>1. x.pc = "begin" /\ Len(ids) = 1 /\ tx'[ids[1]].held = Due(ids[1])'
            BY <1>7, <1>10, <1>12, <2>1, <2>3, <2>6
        <3>2. NoneHeld(ids, 2)'
            BY <3>1 DEF NoneHeld
        <3> QED BY <1>12, <1>14, <2>1, <2>4, <2>6, <3>1, <3>2 DEF WorkerAt
    <2> QED BY <2>5, <2>6
<1>19. ThreadAt(w)'
    <2>1. x.pc \notin {"next", "read", "commit", "deq", "idle", "pin"} /\ Len(x.ids) >= 1
        BY <1>7, <1>10, <1>12
    <2> QED BY <1>2, <1>14, <1>18, <2>1 DEF ThreadAt
<1>20. x.pc \notin {"read", "commit"} /\ th[w].pc # "read"
    BY <1>1, <1>10, <1>12
<1> QED BY <1>1, <1>2, <1>8, <1>12, <1>13, <1>16, <1>17, <1>19, <1>20, QueueStep

---------------------------------------------------------------------------
(* The theorems.                                                            *)

LEMMA InitTx == Init => TxInv
<1> SUFFICES ASSUME Init PROVE TxInv
    OBVIOUS
<1>1. /\ clock = 1 /\ wm = 1 /\ inflight = {} /\ horizon = 0 /\ created \in {0, 1} /\ db_tracker = created
      /\ recs = {[key |-> k, from |-> 0, to |-> Latest] : k \in Keys}
      /\ registered = [t \in Trackers |-> [s \in Snapshots |-> 0]] /\ pins = [t \in Trackers |-> [s \in Snapshots |-> 0]]
      /\ pool = TRUE /\ queue = <<>> /\ todo \in Plans /\ tx = <<>> /\ iters = {} /\ th = [t \in Threads |-> Idle]
    BY DEF Init, Clock!Init, GcChoices
<1>2. \A t \in Threads : th[t] = Idle /\ th[t] \in ThreadType
    BY <1>1, IdleType
<1>3. \A t \in Threads : th[t].pc = "idle" /\ th[t].ids = <<>> /\ th[t].pin = 0 /\ Len(th[t].ids) = 0
    BY <1>2, IdleType
<1>4. Made = {}
    BY <1>1 DEF Made
<1>5. TypeInv
    <2>1. recs \in SUBSET RecType /\ \A r \in recs : r.from < clock /\ (r.to < clock \/ Alive(r))
        BY <1>1, Bounds DEF RecType, Alive
    <2>2. clock \in 1 .. MaxClock /\ wm \in 1 .. clock /\ inflight \in SUBSET Nat /\ horizon \in 0 .. wm - 1
        BY <1>1, Bounds
    <2>3. created \in 0 .. MaxTrackers /\ db_tracker \in 0 .. MaxTrackers /\ pool \in BOOLEAN
        BY <1>1, Bounds
    <2>4. registered \in [Trackers -> [Snapshots -> Nat]] /\ pins \in [Trackers -> [Snapshots -> Nat]]
        BY <1>1
    <2>5. queue \in Seq(JobType) /\ tx \in Seq(TxType) /\ iters \in SUBSET IterType
        BY <1>1
    <2>6. IsFiniteSet(iters)
        BY <1>1, FS_EmptySet
    <2>7. todo \in Seq(Calls)
        BY <1>1, TransactionsAssumption DEF Calls, Vias
    <2>8. th \in [Threads -> ThreadType]
        BY <1>1, IdleType
    <2> QED BY <2>1, <2>2, <2>3, <2>4, <2>5, <2>6, <2>7, <2>8 DEF TypeInv
<1>6. PlaceInv /\ Len(queue) = 0
    BY <1>1, <1>3 DEF PlaceInv, ListAt, Apart
<1>7. ASSUME NEW t \in Threads PROVE ThreadAt(t) /\ CommitAt(t)
    <2>1. CallerAt(t)
        BY <1>3 DEF CallerAt, RunPCs, NoneHeld
    <2>2. WorkerAt(t)
        BY <1>3 DEF WorkerAt, RunPCs, CallPCs
    <2> QED BY <1>3, <2>1, <2>2 DEF ThreadAt, CommitAt
<1>8. PinsMatch
    <2>1. \A k \in Trackers, s \in Snapshots : Pinning(k, s) = {} /\ pins[k][s] = 0
        BY <1>1, <1>3, Bounds DEF Pinning
    <2>2. \A k \in Trackers, s \in Snapshots : pins[k][s] = Cardinality(Pinning(k, s))
        BY <2>1, FS_EmptySet
    <2> QED BY <2>2 DEF PinsMatch, Pinning
<1>9. RegistrationsMatch
    <2>1. \A k \in Trackers, s \in Snapshots : /\ HeldTx(k, s) = {} /\ Reading(k, s) = {} /\ Open(k, s) = {}
                                               /\ registered[k][s] = 0
        BY <1>1, <1>3, <1>4 DEF HeldTx, Reading, Open
    <2>2. Cardinality({}) = 0
        BY FS_EmptySet
    <2>3. ASSUME NEW k \in Trackers, NEW s \in Snapshots PROVE registered[k][s] = Held(k, s)
        <3>1. /\ Cardinality(HeldTx(k, s)) = 0 /\ Cardinality(Reading(k, s)) = 0 /\ Cardinality(Open(k, s)) = 0
              /\ registered[k][s] = 0
            BY <2>1, <2>2
        <3> QED BY <3>1, HeldIs
    <2> QED BY <2>3 DEF RegistrationsMatch
<1> QED BY <1>1, <1>5, <1>6, <1>7, <1>8, <1>9 DEF TxInv

LEMMA StutterTx == ASSUME TxInv, UNCHANGED vars PROVE TxInv'
<1>1. TypeInv'
    BY DEF TxInv, TypeInv, vars, Alive
<1> QED BY <1>1, NothingCounted DEF vars, gcVars

LEMMA RunTx == ASSUME TxInv, NEW t \in Threads, Run(t) PROVE TxInv'
<1>1. t \in Callers \/ t \in Workers
    BY Bounds
<1> QED BY <1>1, DispatchTx, ReadStartTx, ReadEndTx, OpenIterTx, WriteVoidTx, WriteStartTx, WriteEndTx, FailTx,
           CompleteTx, DeqCallerTx, DeqWorkerTx DEF Run

LEMMA NextTx == ASSUME TxInv, [Next]_vars PROVE TxInv'
<1>1. CASE Next
    <2>1. ASSUME NEW c \in Callers, Call(c) \/ AddToBatch(c) \/ InCall(c) PROVE TxInv'
        BY <2>1, CallTx, AddToBatchTx, PinReaderTx, DrawSnapshotTx, ExecuteOnCallerThreadTx, EnqBookkeepingTx, SendTx,
           ReturnTx, RunTx, Bounds DEF InCall
    <2>2. ASSUME NEW w \in Workers, InJob(w) PROVE TxInv'
        BY <2>2, TakeJobTx, EnqInBatchTx, RunTx, Bounds DEF InJob
    <2> QED BY <1>1, <2>1, <2>2, DrainIterTx, FreeBlockTx, AdvanceWatermarkTx, SwitchPoolTx, EnableGcTx, DisableGcTx
            DEF Next
<1>2. CASE UNCHANGED vars
    BY <1>2, StutterTx
<1> QED BY <1>1, <1>2

(* Every behaviour of the manager, its pool and its collector keeps the     *)
(* invariant: whoever has a transaction has it alone, a job is released     *)
(* from the tracker it was registered with, and a pool thread's             *)
(* transaction is held exactly while it runs.                               *)
THEOREM SpecTxInv == Spec => []TxInv
<1>1. TxInv /\ [Next]_vars => TxInv'
    BY NextTx
<1> QED BY InitTx, <1>1, PTL DEF Spec

(* A tracker's registrations are at every moment those of the jobs handed   *)
(* over and not released, the queries under way and the iterators not yet   *)
(* dropped: on_tx_start and on_tx_completed pair up, though releases go by  *)
(* the snapshot and not by the owner.                                       *)
THEOREM SpecRegistrationsMatch == Spec => []RegistrationsMatch
<1>1. TxInv => RegistrationsMatch
    BY DEF TxInv
<1> QED BY SpecTxInv, <1>1, PTL

-----------------------------------------------------------------------------
(***************************************************************************)
(* What transactions return: the reads of a transaction find the records of *)
(* its snapshot, however late they run and whatever the collector has       *)
(* reused, and the writes it reports are those in the tree.                 *)
(***************************************************************************)

(* The protected transactions that read.                                    *)
Reads(i)    == tx[i].protected /\ \E p \in DOMAIN tx[i].script : tx[i].script[p].op \in ReadOps
AllReads(i) == \A p \in DOMAIN tx[i].script : IsRead(tx[i].script[p])

(* Transactions whose snapshot must last: without a collector, all of them. *)
ToShield(i) == Reads(i) \/ db_tracker = 0

(* A result that is right for the snapshot of its transaction.              *)
Right(i, res) ==
    tx[i].protected /\ res.op \in {"read", "iter"} =>
        /\ res.found \in [Keys -> Nat]
        /\ \A s \in Snapshots : tx[i].snap = s =>
              \A k \in Keys : res.found[k] \in {Answer(s)[k], Answer(s - 1)[k]}

AnswerAt(i) == \A p \in 1 .. Len(tx[i].results) : Right(i, tx[i].results[p])

(* The snapshot has not been reclaimed.                                     *)
Safe(i) == tx[i].snap # NoSnap => horizon < tx[i].snap

(* What keeps it so: the pin of the caller, or the registration of the job. *)
Shielded(t, i) ==
    /\ Safe(i)
    /\ db_tracker # 0 =>
          /\ th[t].pc \in {"pin", "draw"} \/ tx[i].snap # NoSnap
          /\ th[t].pc \notin {"pin", "draw"} /\ t \in Callers => th[t].pin \in 1 .. tx[i].snap
          /\ th[t].via # "caller" => th[t].via # "batch" /\ AllReads(i)

(* The snapshot at which thread t runs its transaction i.                   *)
AtSnapshot(t, i) ==
    /\ tx[i].snap # NoSnap => th[t].snap = tx[i].snap
    /\ Reads(i) => horizon < th[t].snap

ThreadShield(t) ==
    /\ th[t].pc = "draw" => th[t].pin \in 1 .. wm
    /\ th[t].pc \in {"pin", "draw"} => \A i \in Made : Has(t, i) => tx[i].snap = NoSnap /\ Len(tx[i].results) = 0
    /\ th[t].pc \notin {"idle", "unpin"} => \A i \in Made : Has(t, i) /\ ToShield(i) => Shielded(t, i)
    /\ th[t].pc \in {"next", "read", "commit"} => \A i \in Made : Cur(t) = i => AtSnapshot(t, i)
    /\ th[t].pc = "read" => \A i \in Made : Cur(t) = i /\ tx[i].protected =>
          /\ Reads(i)
          /\ horizon <= th[t].at /\ (th[t].snap # Latest => th[t].at = th[t].snap)

Queued(n, i) == \E a \in 1 .. Len(queue[n].ids) : queue[n].ids[a] = i

JobShield(n) ==
    \A i \in Made : Queued(n, i) /\ ToShield(i) =>
        Safe(i) /\ (db_tracker # 0 => Tracked(i) /\ queue[n].via # "batch")

IterShield(it) ==
    tx[it.tx].protected =>
    /\ horizon < it.snap /\ horizon <= it.at
    /\ it.snap # Latest => it.at = it.snap
    /\ tx[it.tx].snap # NoSnap => it.snap = tx[it.tx].snap
    /\ db_tracker # 0 => tx[it.tx].snap # NoSnap

AnswersInv ==
    /\ \A i \in Made : AnswerAt(i) /\ tx[i].snap <= wm
    /\ \A it \in iters : IterShield(it)
    /\ \A n \in 1 .. Len(queue) : JobShield(n)
    /\ \A t \in Threads : ThreadShield(t)

---------------------------------------------------------------------------
(* What a query finds.                                                      *)

Froms(k, v) == {r.from : r \in {q \in recs : q.key = k /\ q.from <= v /\ (v < q.to \/ Alive(q))}}

LEMMA AnswerIs ==
    ASSUME NEW v
    PROVE  Answer(v) = [k \in Keys |-> IF Froms(k, v) = {} THEN 0 ELSE Max(Froms(k, v))]
<1>1. ASSUME NEW k \in Keys PROVE Answer(v)[k] = IF Froms(k, v) = {} THEN 0 ELSE Max(Froms(k, v))
    <2>1. PICK hits : hits = {r \in recs : r.key = k /\ r.from <= v /\ (v < r.to \/ Alive(r))}
        OBVIOUS
    <2>2. PICK S : S = {r.from : r \in hits}
        OBVIOUS
    <2>3. Answer(v)[k] = IF hits = {} THEN 0 ELSE Max(S)
        BY <2>1, <2>2 DEF Answer, Alive
    <2>4. Froms(k, v) = S
        BY <2>1, <2>2 DEF Froms, Alive
    <2>5. hits = {} <=> S = {}
        BY <2>2
    <2> QED BY <2>3, <2>4, <2>5
<1>2. Answer(v) = [k \in Keys |-> Answer(v)[k]]
    BY DEF Answer
<1> QED BY <1>1, <1>2

LEMMA NextAnswerIs ==
    ASSUME NEW v
    PROVE  Answer(v)' = [k \in Keys |-> IF Froms(k, v)' = {} THEN 0 ELSE Max(Froms(k, v)')]
<1>1. ASSUME NEW k \in Keys PROVE Answer(v)'[k] = IF Froms(k, v)' = {} THEN 0 ELSE Max(Froms(k, v)')
    <2>1. PICK hits : hits = {r \in recs' : r.key = k /\ r.from <= v /\ (v < r.to \/ Alive(r))}
        OBVIOUS
    <2>2. PICK S : S = {r.from : r \in hits}
        OBVIOUS
    <2>3. Answer(v)'[k] = IF hits = {} THEN 0 ELSE Max(S)
        BY <2>1, <2>2 DEF Answer, Alive
    <2>4. Froms(k, v)' = S
        BY <2>1, <2>2 DEF Froms, Alive
    <2>5. hits = {} <=> S = {}
        BY <2>2
    <2> QED BY <2>3, <2>4, <2>5
<1>2. Answer(v)' = [k \in Keys |-> Answer(v)'[k]]
    BY DEF Answer
<1> QED BY <1>1, <1>2

LEMMA FromsStay ==
    ASSUME NEW v, \A k \in Keys : Froms(k, v)' = Froms(k, v)
    PROVE  Answer(v)' = Answer(v)
<1>1. Answer(v) = [k \in Keys |-> IF Froms(k, v) = {} THEN 0 ELSE Max(Froms(k, v))]
    BY AnswerIs
<1>2. Answer(v)' = [k \in Keys |-> IF Froms(k, v)' = {} THEN 0 ELSE Max(Froms(k, v)')]
    BY NextAnswerIs
<1> QED BY <1>1, <1>2

(* Before its commit starts, a version adds nothing to the one below.       *)
LEMMA NothingNew == ASSUME TypeInv PROVE Answer(clock) = Answer(clock - 1)
<1>1. \A r \in recs : r.from \in Nat /\ r.to \in Nat /\ r.from < clock /\ (r.to < clock \/ Alive(r))
    BY DEF TypeInv, RecType
<1>2. clock \in Nat
    BY DEF TypeInv
<1>3. \A r \in recs : /\ r.from <= clock /\ (clock < r.to \/ Alive(r)) <=> Alive(r)
                      /\ r.from <= clock - 1 /\ (clock - 1 < r.to \/ Alive(r)) <=> Alive(r)
    BY <1>1, <1>2
<1>4. \A k \in Keys : Froms(k, clock) = Froms(k, clock - 1)
    BY <1>3 DEF Froms
<1>5. Answer(clock) = [k \in Keys |-> IF Froms(k, clock) = {} THEN 0 ELSE Max(Froms(k, clock))]
    BY AnswerIs
<1>6. Answer(clock - 1) = [k \in Keys |-> IF Froms(k, clock - 1) = {} THEN 0 ELSE Max(Froms(k, clock - 1))]
    BY AnswerIs
<1> QED BY <1>4, <1>5, <1>6

(* A commit changes the answers at its own version and above only.          *)
LEMMA OldAnswersStay ==
    ASSUME TxInv, NEW t \in Threads, WriteStart(t), NEW v \in Int, v < clock
    PROVE  Answer(v)' = Answer(v)
<1>1. PICK o \in Operation : o = Op(Cur(t)) /\ o.key \in Keys
    <2>1. HasNext(t) /\ Op(Cur(t)).op \in WriteOps
        BY DEF WriteStart, WriteOps
    <2> QED BY <2>1, OpFacts
<1>2. /\ recs \in SUBSET RecType /\ clock \in Nat /\ Latest \in Nat /\ clock < Latest
      /\ \A r \in recs : r.from \in Nat /\ r.to \in Nat /\ r.from < clock
    BY Bounds DEF TxInv, TypeInv, RecType
<1>3. PICK fresh : fresh = [key |-> o.key, from |-> clock, to |-> Latest]
    OBVIOUS
<1>4. fresh.key = o.key /\ fresh.from = clock /\ ~(fresh.from <= v)
    BY <1>2, <1>3
<1>5. CASE ~IsLive(o.key)
    <2>1. recs' = recs \cup {fresh}
        BY <1>1, <1>3, <1>5 DEF WriteStart
    <2>2. \A k \in Keys : Froms(k, v)' = Froms(k, v)
        BY <1>4, <2>1 DEF Froms, Alive
    <2> QED BY <2>2, FromsStay
<1>6. CASE IsLive(o.key)
    <2>1. PICK old \in recs : old = LiveRec(o.key) /\ old.key = o.key /\ Alive(old)
        BY <1>6 DEF IsLive, LiveRec
    <2>2. PICK end : end = [old EXCEPT !.to = clock]
        OBVIOUS
    <2>3. end.key = old.key /\ end.from = old.from /\ end.to = clock
        BY <1>2, <2>1, <2>2 DEF RecType
    <2>4. recs' = (recs \ {old}) \cup {end} \/ recs' = (recs \ {old}) \cup {end} \cup {fresh}
        BY <1>1, <1>3, <1>6, <2>1, <2>2 DEF WriteStart
    <2>5. ASSUME NEW k \in Keys PROVE Froms(k, v)' = Froms(k, v)
        <3>1. ASSUME NEW f \in Froms(k, v) PROVE f \in Froms(k, v)'
            <4>1. PICK r \in recs : r.from = f /\ r.key = k /\ r.from <= v /\ (v < r.to \/ Alive(r))
                BY <3>1 DEF Froms
            <4>2. CASE r = old
                <5>1. end \in recs' /\ end.key = k /\ end.from = f /\ end.from <= v /\ v < end.to
                    BY <2>3, <2>4, <4>1, <4>2
                <5> QED BY <5>1 DEF Froms
            <4>3. CASE r # old
                <5>1. r \in recs'
                    BY <2>4, <4>3
                <5> QED BY <4>1, <5>1 DEF Froms, Alive
            <4> QED BY <4>2, <4>3
        <3>2. ASSUME NEW f \in Froms(k, v)' PROVE f \in Froms(k, v)
            <4>1. PICK r \in recs' : r.from = f /\ r.key = k /\ r.from <= v /\ (v < r.to \/ Alive(r))
                BY <3>2 DEF Froms, Alive
            <4>2. r \in recs \/ r = end \/ r = fresh
                BY <2>4
            <4>3. CASE r \in recs
                BY <4>1, <4>3 DEF Froms
            <4>4. CASE r = end
                BY <2>1, <2>3, <4>1, <4>4 DEF Froms
            <4>5. r # fresh
                BY <1>4, <4>1
            <4> QED BY <4>2, <4>3, <4>4, <4>5
        <3> QED BY <3>1, <3>2
    <2> QED BY <2>5, FromsStay
<1> QED BY <1>5, <1>6

---------------------------------------------------------------------------
(* Results stay right.                                                      *)

(* What reads at snapshot s have found is still found.                      *)
Kept(s) == Answer(s - 1)' = Answer(s - 1) /\ (Answer(s)' = Answer(s) \/ Answer(s) = Answer(s - 1))

LEMMA SameAnswers == ASSUME recs' = recs, NEW v PROVE Answer(v)' = Answer(v)
<1>1. \A k \in Keys : Froms(k, v)' = Froms(k, v)
    BY DEF Froms, Alive
<1> QED BY <1>1, FromsStay

LEMMA AnswersKept == ASSUME recs' = recs PROVE \A s : Kept(s)
BY SameAnswers DEF Kept

LEMMA RightStays ==
    ASSUME NEW i, NEW res, Right(i, res), tx'[i].snap = tx[i].snap, tx'[i].protected = tx[i].protected,
           \A s \in Snapshots : tx[i].snap = s => Kept(s)
    PROVE  Right(i, res)'
<1> SUFFICES ASSUME tx[i].protected, res.op \in {"read", "iter"}, NEW s \in Snapshots, tx[i].snap = s, NEW k \in Keys
             PROVE  res.found[k] \in {Answer(s)'[k], Answer(s - 1)'[k]}
    BY DEF Right
<1>1. res.found[k] \in {Answer(s)[k], Answer(s - 1)[k]} /\ Kept(s)
    BY DEF Right
<1> QED BY <1>1 DEF Kept

LEMMA AnswerStays ==
    ASSUME NEW i, AnswerAt(i), tx'[i].snap = tx[i].snap, tx'[i].protected = tx[i].protected, tx'[i].results = tx[i].results,
           \A s \in Snapshots : tx[i].snap = s => Kept(s)
    PROVE  AnswerAt(i)'
<1> SUFFICES ASSUME NEW p \in 1 .. Len(tx[i].results), NEW res, res = tx[i].results[p]
             PROVE  Right(i, res)'
    BY DEF AnswerAt, Right
<1>1. Right(i, res)
    BY DEF AnswerAt
<1> QED BY <1>1, RightStays

LEMMA AnswerPushed ==
    ASSUME NEW i, AnswerAt(i), tx'[i].snap = tx[i].snap, tx'[i].protected = tx[i].protected, tx[i].results \in Seq(Result), NEW res \in Result,
           tx'[i].results = Append(tx[i].results, res), recs' = recs, Right(i, res)
    PROVE  AnswerAt(i)'
<1> SUFFICES ASSUME NEW p \in 1 .. Len(tx'[i].results), NEW r, r = tx'[i].results[p]
             PROVE  Right(i, r)'
    BY DEF AnswerAt, Right
<1>1. PICK q \in Seq(Result) : q = tx[i].results
    OBVIOUS
<1>2. (p \in 1 .. Len(q) /\ r = q[p]) \/ r = res
    BY <1>1
<1>3. Right(i, r)
    BY <1>1, <1>2 DEF AnswerAt
<1> QED BY <1>3, RightStays, AnswersKept

---------------------------------------------------------------------------
(* What shields a reader stays with it.                                     *)

LEMMA TxStays ==
    ASSUME NEW i, SameTx(i), horizon' = horizon
    PROVE  /\ Reads(i)' = Reads(i) /\ AllReads(i)' = AllReads(i) /\ Safe(i)' = Safe(i) /\ Tracked(i)' = Tracked(i)
BY DEF SameTx, Reads, AllReads, Safe, Tracked

LEMMA JobShieldStays ==
    ASSUME NEW n, NEW m, JobShield(n), queue'[m] = queue[n], horizon' = horizon, db_tracker' = db_tracker,
           \A i : Queued(n, i) => i \in Made /\ SameTx(i)
    PROVE  JobShield(m)'
<1> SUFFICES ASSUME NEW i, Queued(m, i)', ToShield(i)'
             PROVE  Safe(i)' /\ (db_tracker # 0 => Tracked(i)' /\ queue[n].via # "batch")
    BY DEF JobShield
<1>1. Queued(n, i)
    BY DEF Queued
<1>2. i \in Made /\ SameTx(i)
    BY <1>1
<1>3. Reads(i)' = Reads(i) /\ Safe(i)' = Safe(i) /\ Tracked(i)' = Tracked(i)
    BY <1>2, TxStays
<1> QED BY <1>1, <1>2, <1>3 DEF JobShield, ToShield

LEMMA ThreadShieldStays ==
    ASSUME NEW t \in Threads, ThreadShield(t), th'[t] = th[t], horizon' = horizon, db_tracker' = db_tracker,
           wm \in Nat, wm' \in Nat, wm' >= wm, th[t].pin \in Nat,
           th[t].pc \in {"next", "read", "commit"} => Has(t, Cur(t)),
           \A i : Has(t, i) => i \in Made /\ SameTx(i) /\ Len(tx'[i].results) = Len(tx[i].results)
    PROVE  ThreadShield(t)'
<1>1. th[t].pc = "draw" => th'[t].pin \in 1 .. wm'
    BY DEF ThreadShield
<1>2. \A i : Has(t, i)' = Has(t, i)
    BY DEF Has
<1>3. \A i : Has(t, i) => Reads(i)' = Reads(i) /\ AllReads(i)' = AllReads(i) /\ Safe(i)' = Safe(i) /\ tx'[i].snap = tx[i].snap
    BY TxStays DEF SameTx
<1>4. ASSUME NEW i, Has(t, i), Shielded(t, i) PROVE Shielded(t, i)'
    BY <1>3, <1>4 DEF Shielded
<1>5. th[t].pc \in {"pin", "draw"} => \A i \in Made' : Has(t, i)' => tx'[i].snap = NoSnap /\ Len(tx'[i].results) = 0
    BY <1>2, <1>3 DEF ThreadShield
<1>6. th[t].pc \notin {"idle", "unpin"} => \A i \in Made' : Has(t, i)' /\ ToShield(i)' => Shielded(t, i)'
    BY <1>2, <1>3, <1>4 DEF ThreadShield, ToShield
<1>7. Cur(t)' = Cur(t)
    BY DEF Cur
<1>8. ASSUME th[t].pc \in {"next", "read", "commit"}, NEW i, Cur(t) = i PROVE AtSnapshot(t, i)'
    <2>1. Has(t, i) /\ i \in Made /\ AtSnapshot(t, i)
        BY <1>8 DEF ThreadShield
    <2> QED BY <1>3, <2>1 DEF AtSnapshot
<1>9. ASSUME th[t].pc = "read", NEW i, Cur(t) = i, tx'[i].protected
      PROVE  Reads(i)' /\ horizon <= th[t].at /\ (th[t].snap # Latest => th[t].at = th[t].snap)
    <2>1. Has(t, i) /\ i \in Made /\ tx[i].protected
        BY <1>9 DEF SameTx
    <2> QED BY <1>3, <1>9, <2>1 DEF ThreadShield
<1> QED BY <1>1, <1>5, <1>6, <1>7, <1>8, <1>9 DEF ThreadShield

(* The transactions a thread or a job has are its own.                      *)
LEMMA Owners ==
    ASSUME TxInv, NEW t \in Threads
    PROVE  /\ \A i : Has(t, i) => i \in Made
           /\ \A u \in Threads : \A i : u # t /\ Has(u, i) => ~Has(t, i)
           /\ \A n \in 1 .. Len(queue) : \A i : Queued(n, i) => i \in Made /\ ~Has(t, i)
           /\ Len(th[t].ids) >= 1 => Has(t, Cur(t))
           /\ th[t].pin \in Nat
           /\ th[t].pc \in RunPCs => Len(th[t].ids) >= 1
<1>1. PlaceInv /\ TypeInv /\ ThreadAt(t)
    BY DEF TxInv
<1>2. \A i : Has(t, i) => i \in Made
    BY <1>1 DEF PlaceInv, ListAt, Has
<1>3. \A u \in Threads : \A i : u # t /\ Has(u, i) => ~Has(t, i)
    BY <1>1 DEF PlaceInv, Apart, Has
<1>4. \A n \in 1 .. Len(queue) : \A i : Queued(n, i) => i \in Made /\ ~Has(t, i)
    BY <1>1 DEF PlaceInv, ListAt, Apart, Has, Queued
<1>5. Len(th[t].ids) >= 1 => Has(t, Cur(t))
    <2>1. th[t].ids \in Seq(Nat)
        BY <1>1, ThreadTypes
    <2> QED BY <1>1, <2>1, CurFacts DEF Has
<1>6. th[t].pin \in Nat
    BY <1>1, ThreadTypes, Bounds
<1>7. th[t].pc \in RunPCs => Len(th[t].ids) >= 1
    BY <1>1 DEF ThreadAt, RunPCs
<1> QED BY <1>2, <1>3, <1>4, <1>5, <1>6, <1>7

(* One thread moves.                                                        *)
LEMMA AnswersStep ==
    ASSUME TxInv, AnswersInv, NEW t \in Threads, OthersStay(t), queue' = queue, db_tracker' = db_tracker,
           horizon' = horizon, wm' = wm,
           \A i \in Made : Has(t, i) \/ (SameTx(i) /\ Len(tx'[i].results) = Len(tx[i].results)),
           \A i \in Made' : AnswerAt(i)' /\ tx'[i].snap <= wm,
           \A it \in iters' : IterShield(it)', ThreadShield(t)'
    PROVE  AnswersInv'
<1>1. wm \in Nat
    BY DEF TxInv, TypeInv
<1>2. ASSUME NEW n \in 1 .. Len(queue) PROVE JobShield(n)'
    <2>1. JobShield(n)
        BY DEF AnswersInv
    <2>2. \A i : Queued(n, i) => i \in Made /\ SameTx(i)
        BY Owners
    <2> QED BY <2>1, <2>2, JobShieldStays
<1>3. ASSUME NEW u \in Threads, u # t PROVE ThreadShield(u)'
    <2>1. ThreadShield(u) /\ th'[u] = th[u] /\ th[u].pin \in Nat
        BY <1>3, Owners DEF AnswersInv, OthersStay
    <2>2. \A i : Has(u, i) => i \in Made /\ SameTx(i) /\ Len(tx'[i].results) = Len(tx[i].results)
        BY <1>3, Owners
    <2>3. th[u].pc \in {"next", "read", "commit"} => Has(u, Cur(u))
        BY Owners DEF RunPCs
    <2>4. wm' \in Nat /\ wm' >= wm
        BY <1>1
    <2> QED BY <1>1, <2>1, <2>2, <2>3, <2>4, ThreadShieldStays
<1> QED BY <1>2, <1>3 DEF AnswersInv

(* Transactions gain results that are right, none of the old ones changes.  *)
LEMMA StillRight ==
    ASSUME TxInv, AnswersInv, Made' = Made, recs' = recs,
           \A j \in Made : /\ tx'[j].snap = tx[j].snap /\ tx'[j].protected = tx[j].protected
                           /\ \/ tx'[j].results = tx[j].results
                              \/ \E res \in Result : tx'[j].results = Append(tx[j].results, res) /\ Right(j, res)
    PROVE  \A j \in Made' : AnswerAt(j)' /\ tx'[j].snap <= wm
<1> SUFFICES ASSUME NEW j \in Made PROVE AnswerAt(j)' /\ tx'[j].snap <= wm
    OBVIOUS
<1>1. /\ AnswerAt(j) /\ tx[j].snap <= wm /\ TypeInv
      /\ tx'[j].snap = tx[j].snap /\ tx'[j].protected = tx[j].protected
    BY DEF AnswersInv, TxInv
<1>2. tx[j].results \in Seq(Result)
    BY <1>1, TxTypes
<1>3. CASE tx'[j].results = tx[j].results
    BY <1>1, <1>3, AnswersKept, AnswerStays
<1>4. CASE tx'[j].results # tx[j].results
    <2>1. PICK res \in Result : tx'[j].results = Append(tx[j].results, res) /\ Right(j, res)
        BY <1>4
    <2> QED BY <1>1, <1>2, <2>1, AnswerPushed
<1> QED BY <1>3, <1>4

LEMMA ItersStay ==
    ASSUME TxInv, AnswersInv, \A it \in iters' : it \in iters, horizon' = horizon, db_tracker' = db_tracker,
           \A i \in Made : tx'[i].snap = tx[i].snap /\ tx'[i].protected = tx[i].protected
    PROVE  \A it \in iters' : IterShield(it)'
BY DEF TxInv, AnswersInv, IterAt, IterShield

(* A running thread goes on with the same transactions.                     *)
LEMMA RunShield ==
    ASSUME TxInv, AnswersInv, NEW t \in Threads, NEW x, th'[t] = x, th[t].pc \in RunPCs, x.pc \in RunPCs,
           x.ids = th[t].ids, x.via = th[t].via, x.pin = th[t].pin,
           horizon' = horizon, db_tracker' = db_tracker, Made' = Made, \A i \in Made : SameTx(i),
           x.pc \in {"next", "read", "commit"} =>
               \A i \in Made : Cur(t) = i =>
                   (tx[i].snap # NoSnap => x.snap = tx[i].snap) /\ (Reads(i) => horizon < x.snap),
           x.pc = "read" => \A i \in Made : Cur(t) = i /\ tx[i].protected =>
               Reads(i) /\ horizon <= x.at /\ (x.snap # Latest => x.at = x.snap)
    PROVE  ThreadShield(t)'
<1>1. ThreadShield(t)
    BY DEF AnswersInv
<1>2. /\ x.pc \notin {"idle", "unpin", "pin", "draw"} /\ th[t].pc \notin {"idle", "unpin", "pin", "draw"}
    BY DEF RunPCs
<1>3. \A i : Has(t, i)' = Has(t, i)
    BY DEF Has
<1>4. \A i \in Made : Reads(i)' = Reads(i) /\ AllReads(i)' = AllReads(i) /\ Safe(i)' = Safe(i) /\ tx'[i].snap = tx[i].snap
    BY TxStays DEF SameTx
<1>5. ASSUME NEW i \in Made, Has(t, i), ToShield(i) PROVE Shielded(t, i)'
    <2>1. Shielded(t, i)
        BY <1>1, <1>2, <1>5 DEF ThreadShield
    <2> QED BY <1>2, <1>4, <2>1 DEF Shielded
<1>6. Cur(t)' = Cur(t)
    BY DEF Cur
<1>7. x.pc \in {"next", "read", "commit"} => \A i \in Made : Cur(t) = i => AtSnapshot(t, i)'
    BY <1>4 DEF AtSnapshot
<1>8. \A i \in Made' : Has(t, i)' /\ ToShield(i)' => Shielded(t, i)'
    BY <1>3, <1>4, <1>5 DEF ToShield
<1>9. x.pc = "read" => \A i \in Made' : Cur(t)' = i /\ tx'[i].protected =>
          Reads(i)' /\ horizon <= x.at /\ (x.snap # Latest => x.at = x.snap)
    BY <1>4, <1>6 DEF SameTx
<1> QED BY <1>2, <1>6, <1>7, <1>8, <1>9 DEF ThreadShield

(* The thread is past the dispatch, and its snapshot stays.                 *)
LEMMA RunOnShield ==
    ASSUME TxInv, AnswersInv, NEW t \in Threads, NEW x, th'[t] = x, th[t].pc \in {"next", "read", "commit"},
           x.pc \in {"next", "commit", "deq"},
           x.ids = th[t].ids, x.via = th[t].via, x.pin = th[t].pin, x.snap = th[t].snap,
           horizon' = horizon, db_tracker' = db_tracker, Made' = Made, \A i \in Made : SameTx(i)
    PROVE  ThreadShield(t)'
<1>1. th[t].pc \in RunPCs /\ x.pc \in RunPCs /\ x.pc # "read"
    BY DEF RunPCs
<1>2. \A i \in Made : Cur(t) = i => AtSnapshot(t, i)
    BY DEF AnswersInv, ThreadShield
<1>3. \A i \in Made : Cur(t) = i => (tx[i].snap # NoSnap => x.snap = tx[i].snap) /\ (Reads(i) => horizon < x.snap)
    BY <1>2 DEF AtSnapshot
<1> QED BY <1>1, <1>3, RunShield

LEMMA DispatchAns ==
    ASSUME TxInv, AnswersInv, NEW t \in Threads, Dispatch(t)
    PROVE  AnswersInv'
<1>1. th[t].pc = "begin" /\ th[t].pc \in RunPCs /\ UNCHANGED <<clockVars, treeVars, gcVars, pool, queue, tx, iters, todo>>
    BY DEF Dispatch, RunPCs
<1>2. TypeInv /\ th[t] \in ThreadType /\ Cur(t) \in Made /\ Has(t, Cur(t))
    BY <1>1, RunFacts
<1>3. PICK i \in Made : i = Cur(t)
    BY <1>2
<1>4. PICK s \in Snapshots : s = Isolation(i)
    BY <1>2, IsolationType
<1>5. PICK x : x = [th[t] EXCEPT !.pc = "next", !.snap = s]
    OBVIOUS
<1>6. x.pc = "next" /\ x.snap = s /\ x.ids = th[t].ids /\ x.via = th[t].via /\ x.pin = th[t].pin
    BY <1>2, <1>5 DEF ThreadType
<1>7. th'[t] = x /\ OthersStay(t)
    BY <1>2, <1>3, <1>4, <1>5 DEF Dispatch, TypeInv, OthersStay
<1>8. Made' = Made /\ \A j \in Made : SameTx(j) /\ Len(tx'[j].results) = Len(tx[j].results) /\ tx'[j].results = tx[j].results
    BY <1>1 DEF Made, SameTx
<1>9. /\ tx[i].snap # NoSnap => s = tx[i].snap
      /\ Reads(i) => horizon < s
    <2>1. tx[i].snap # NoSnap => s = tx[i].snap
        BY <1>4 DEF Isolation
    <2>2. ASSUME Reads(i), tx[i].snap # NoSnap PROVE horizon < s
        <3>1. Shielded(t, i)
            BY <1>1, <1>2, <1>3, <2>2 DEF AnswersInv, ThreadShield, ToShield
        <3> QED BY <2>1, <2>2, <3>1 DEF Shielded, Safe
    <2>3. ASSUME tx[i].snap = NoSnap PROVE horizon < s
        <3>1. s = Latest \/ s = wm
            BY <1>4, <2>3 DEF Isolation
        <3>2. horizon \in 0 .. wm - 1 /\ wm \in 1 .. clock /\ clock \in 1 .. MaxClock /\ Latest = MaxClock + 1 /\ MaxClock \in Nat
            BY <1>2, Bounds DEF TypeInv
        <3>3. horizon < wm /\ horizon < Latest
            BY <3>2
        <3> QED BY <3>1, <3>3
    <2> QED BY <2>1, <2>2, <2>3
<1>10. ThreadShield(t)'
    <2>1. x.pc \in RunPCs /\ x.pc # "read"
        BY <1>6 DEF RunPCs
    <2> QED BY <1>1, <1>3, <1>6, <1>7, <1>8, <1>9, <2>1, RunShield DEF gcVars, treeVars
<1>11. \A j \in Made' : AnswerAt(j)' /\ tx'[j].snap <= wm
    BY <1>1, <1>8, StillRight DEF SameTx, treeVars
<1>12. \A it \in iters' : IterShield(it)'
    BY <1>1, <1>8, ItersStay DEF SameTx, treeVars, gcVars
<1> QED BY <1>1, <1>7, <1>8, <1>10, <1>11, <1>12, AnswersStep DEF gcVars, treeVars, clockVars

LEMMA ReadStartAns ==
    ASSUME TxInv, AnswersInv, NEW t \in Threads, ReadStart(t)
    PROVE  AnswersInv'
<1>1. /\ HasNext(t) /\ Op(Cur(t)).op \in ReadOps
      /\ UNCHANGED <<clockVars, treeVars, created, db_tracker, pins, pool, queue, tx, iters, todo>>
    BY DEF ReadStart, ReadOps
<1>2. th[t].pc = "next" /\ th[t].pc \in RunPCs
    BY <1>1 DEF HasNext, RunPCs
<1>3. TypeInv /\ th[t] \in ThreadType /\ Cur(t) \in Made /\ th[t].snap \in Snapshots
    BY <1>2, RunFacts
<1>4. PICK i \in Made : i = Cur(t)
    BY <1>3
<1>5. tx[i].protected => Reads(i)
    <2>1. Pos(i) \in 1 .. Len(tx[i].script) /\ tx[i].script \in Seq(Operation)
        BY <1>1, <1>3, <1>4, OpFacts, TxTypes
    <2> QED BY <1>1, <1>4, <2>1 DEF Reads, Op
<1>6. AtSnapshot(t, i) /\ (tx[i].protected => horizon < th[t].snap)
    BY <1>2, <1>4, <1>5 DEF AnswersInv, ThreadShield, AtSnapshot
<1>7. PICK a \in Int : a = Walked(th[t].snap)
    BY <1>3, WalkedType
<1>8. PICK x : x = [th[t] EXCEPT !.pc = "read", !.at = a]
    OBVIOUS
<1>9. x.pc = "read" /\ x.snap = th[t].snap /\ x.at = a /\ x.ids = th[t].ids /\ x.via = th[t].via /\ x.pin = th[t].pin
    BY <1>3, <1>8 DEF ThreadType
<1>10. th'[t] = x /\ OthersStay(t)
    BY <1>3, <1>7, <1>8 DEF ReadStart, TypeInv, OthersStay
<1>11. Made' = Made /\ \A j \in Made : SameTx(j) /\ Len(tx'[j].results) = Len(tx[j].results) /\ tx'[j].results = tx[j].results
    BY <1>1 DEF Made, SameTx
<1>12. tx[i].protected => horizon <= a /\ (x.snap # Latest => a = x.snap)
    BY <1>3, <1>6, <1>7, <1>9, WalkedType
<1>13. ThreadShield(t)'
    <2>1. x.pc \in RunPCs
        BY <1>9 DEF RunPCs
    <2>2. \A j \in Made : Cur(t) = j => (tx[j].snap # NoSnap => x.snap = tx[j].snap) /\ (Reads(j) => horizon < x.snap)
        BY <1>4, <1>6, <1>9 DEF AtSnapshot
    <2> QED BY <1>1, <1>2, <1>4, <1>5, <1>9, <1>10, <1>11, <1>12, <2>1, <2>2, RunShield DEF treeVars
<1>14. \A j \in Made' : AnswerAt(j)' /\ tx'[j].snap <= wm
    BY <1>1, <1>11, StillRight DEF SameTx, treeVars
<1>15. \A it \in iters' : IterShield(it)'
    BY <1>1, <1>11, ItersStay DEF SameTx, treeVars
<1> QED BY <1>1, <1>10, <1>11, <1>13, <1>14, <1>15, AnswersStep DEF treeVars, clockVars

(* The running thread goes on, with one more result at most.                *)
LEMMA GoOnAns ==
    ASSUME TxInv, AnswersInv, NEW t \in Threads, NEW i \in Made, i = Cur(t), th[t].pc \in {"next", "read", "commit"},
           NEW x, th' = [th EXCEPT ![t] = x], x.pc \in {"next", "commit", "deq"},
           x.ids = th[t].ids, x.via = th[t].via, x.pin = th[t].pin, x.snap = th[t].snap,
           recs' = recs, horizon' = horizon, wm' = wm, db_tracker' = db_tracker, queue' = queue,
           Made' = Made, \A j \in Made : SameTx(j), \A j \in Made : j # i => tx'[j].results = tx[j].results,
           \/ tx'[i].results = tx[i].results
           \/ \E res \in Result : tx'[i].results = Append(tx[i].results, res) /\ Right(i, res),
           \A it \in iters' : IterShield(it)'
    PROVE  AnswersInv'
<1>1. th[t].pc \in RunPCs
    BY DEF RunPCs
<1>2. TypeInv /\ Has(t, i)
    BY <1>1, RunFacts
<1>3. th'[t] = x /\ OthersStay(t)
    BY <1>2 DEF TypeInv, OthersStay
<1>4. ThreadShield(t)'
    BY <1>3, RunOnShield
<1>5. \A j \in Made' : AnswerAt(j)' /\ tx'[j].snap <= wm
    BY StillRight DEF SameTx
<1>6. \A j \in Made : Has(t, j) \/ (SameTx(j) /\ Len(tx'[j].results) = Len(tx[j].results))
    BY <1>2
<1> QED BY <1>3, <1>4, <1>5, <1>6, AnswersStep

LEMMA WriteVoidAns ==
    ASSUME TxInv, AnswersInv, NEW t \in Threads, WriteVoid(t)
    PROVE  AnswersInv'
<1>1. HasNext(t) /\ Op(Cur(t)).op \in WriteOps
    BY DEF WriteVoid, WriteOps
<1>2. Op(Cur(t)).key \in Keys /\ th[t].pc = "next" /\ th[t].pc \in RunPCs
    BY <1>1, OpFacts
<1>3. PICK res : res = [op |-> "void", key |-> Op(Cur(t)).key]
    OBVIOUS
<1>4. res \in Result /\ res.op \notin {"read", "iter"}
    <2>1. res \in [op : {"void"}, key : Keys]
        BY <1>2, <1>3
    <2> QED BY <1>3, <2>1 DEF Result, WriteResult
<1>5. Push(Cur(t), res) /\ UNCHANGED <<clockVars, treeVars, gcVars, pool, queue, iters, th, todo>>
    BY <1>3 DEF WriteVoid
<1>6. TypeInv /\ th[t] \in ThreadType /\ Cur(t) \in Made
    BY <1>2, RunFacts
<1>7. PICK i \in Made : i = Cur(t)
    BY <1>6
<1>8. /\ Made' = Made /\ \A j \in Made : SameTx(j)
      /\ \A j \in Made : j # i => tx'[j].results = tx[j].results
      /\ tx'[i].results = Append(tx[i].results, res)
    <2>1. tx[i] \in TxType /\ tx'[i] = [tx[i] EXCEPT !.results = Append(@, res)]
        BY <1>4, <1>5, <1>6, <1>7, PushFacts, TxTypes
    <2> QED BY <1>4, <1>5, <1>6, <1>7, <2>1, PushFacts DEF TxType
<1>9. PICK x : x = th[t] /\ th' = [th EXCEPT ![t] = x]
    BY <1>5, <1>6 DEF TypeInv
<1>10. \A it \in iters' : IterShield(it)'
    BY <1>5, <1>8, ItersStay DEF SameTx, treeVars, gcVars
<1>11. Right(i, res)
    BY <1>4 DEF Right
<1>12. x.pc = "next" /\ x.snap = th[t].snap /\ x.ids = th[t].ids /\ x.via = th[t].via /\ x.pin = th[t].pin
    BY <1>2, <1>9
<1>13. recs' = recs /\ horizon' = horizon /\ wm' = wm /\ db_tracker' = db_tracker /\ queue' = queue
    BY <1>5 DEF clockVars, treeVars, gcVars
<1>14. th' = [th EXCEPT ![t] = x]
    BY <1>9
<1> QED BY <1>2, <1>4, <1>7, <1>8, <1>10, <1>11, <1>12, <1>13, <1>14, GoOnAns

LEMMA WriteEndAns ==
    ASSUME TxInv, AnswersInv, NEW t \in Threads, WriteEnd(t)
    PROVE  AnswersInv'
<1>1. th[t].pc = "commit" /\ th[t].pc \in RunPCs /\ Clock!Finish(th[t].ver)
    BY DEF WriteEnd, RunPCs
<1>2. TypeInv /\ th[t] \in ThreadType /\ th[t].ver \in Nat /\ Cur(t) \in Made
    BY <1>1, RunFacts, ThreadTypes
<1>3. PICK res : res = [op |-> "write", key |-> Op(Cur(t)).key, ver |-> th[t].ver]
    OBVIOUS
<1>4. res \in Result /\ res.op \notin {"read", "iter"}
    <2>1. res \in [op : {"write"}, key : Keys, ver : Nat]
        BY <1>1, <1>2, <1>3, CommitFacts
    <2> QED BY <1>3, <2>1 DEF Result, WriteResult
<1>5. Push(Cur(t), res) /\ UNCHANGED <<treeVars, gcVars, pool, queue, iters, todo>>
    BY <1>3 DEF WriteEnd
<1>6. PICK x : x = [th[t] EXCEPT !.pc = "next", !.ver = 0]
    OBVIOUS
<1>7. /\ x.pc = "next" /\ x.snap = th[t].snap /\ x.ids = th[t].ids /\ x.via = th[t].via /\ x.pin = th[t].pin
    BY <1>2, <1>6 DEF ThreadType
<1>8. th' = [th EXCEPT ![t] = x]
    BY <1>2, <1>6 DEF WriteEnd, TypeInv
<1>9. wm' = wm
    BY <1>1 DEF Clock!Finish
<1>10. PICK i \in Made : i = Cur(t)
    BY <1>2
<1>11. /\ Made' = Made /\ \A j \in Made : SameTx(j)
       /\ \A j \in Made : j # i => tx'[j].results = tx[j].results
       /\ tx'[i].results = Append(tx[i].results, res)
    <2>1. tx[i] \in TxType /\ tx'[i] = [tx[i] EXCEPT !.results = Append(@, res)]
        BY <1>4, <1>5, <1>2, <1>10, PushFacts, TxTypes
    <2> QED BY <1>4, <1>5, <1>2, <1>10, <2>1, PushFacts DEF TxType
<1>12. \A it \in iters' : IterShield(it)'
    BY <1>5, <1>11, ItersStay DEF SameTx, treeVars, gcVars
<1>13. Right(i, res)
    BY <1>4 DEF Right
<1> QED BY <1>1, <1>4, <1>5, <1>7, <1>8, <1>9, <1>10, <1>11, <1>12, <1>13, GoOnAns DEF treeVars, gcVars

LEMMA EndAns ==
    ASSUME TxInv, AnswersInv, NEW t \in Threads, th[t].pc = "next", Goto(t, "next", "deq"),
           NEW i \in Made, i = Cur(t), NEW y \in TxType, tx' = [tx EXCEPT ![i] = y],
           y.held = tx[i].held, y.snap = tx[i].snap, y.script = tx[i].script, y.protected = tx[i].protected,
           y.results = tx[i].results \/ \E res \in Result : y.results = Append(tx[i].results, res) /\ Right(i, res),
           UNCHANGED <<clockVars, treeVars, gcVars, pool, queue, iters, todo>>
    PROVE  AnswersInv'
<1>1. TypeInv /\ th[t] \in ThreadType
    BY ThreadTypes DEF TxInv
<1>2. PICK x : x = [th[t] EXCEPT !.pc = "deq"]
    OBVIOUS
<1>3. /\ x.pc = "deq" /\ x.snap = th[t].snap /\ x.ids = th[t].ids /\ x.via = th[t].via /\ x.pin = th[t].pin
    BY <1>1, <1>2 DEF ThreadType
<1>4. th' = [th EXCEPT ![t] = x]
    BY <1>1, <1>2 DEF Goto, TypeInv
<1>5. Made' = Made /\ tx'[i] = y /\ \A j \in Made : j # i => tx'[j] = tx[j]
    BY <1>1, TxUpdate
<1>6. \A j \in Made : SameTx(j) /\ (j # i => tx'[j].results = tx[j].results)
    BY <1>5 DEF SameTx
<1>7. \A it \in iters' : IterShield(it)'
    BY <1>6, ItersStay DEF SameTx, treeVars, gcVars
<1>8. recs' = recs /\ horizon' = horizon /\ wm' = wm /\ db_tracker' = db_tracker /\ queue' = queue
    BY DEF clockVars, treeVars, gcVars
<1>9. \/ tx'[i].results = tx[i].results
      \/ \E res \in Result : tx'[i].results = Append(tx[i].results, res) /\ Right(i, res)
    BY <1>5
<1>10. x.pc \in {"next", "commit", "deq"} /\ th[t].pc \in {"next", "read", "commit"}
    BY <1>3
<1> QED BY <1>3, <1>4, <1>5, <1>6, <1>7, <1>8, <1>9, <1>10, GoOnAns

LEMMA FailAns ==
    ASSUME TxInv, AnswersInv, NEW t \in Threads, Fail(t)
    PROVE  AnswersInv'
<1>1. th[t].pc = "next" /\ th[t].pc \in RunPCs
    BY DEF Fail, HasNext, RunPCs
<1>2. Cur(t) \in Made /\ TypeInv
    BY <1>1, RunFacts
<1>3. PICK i \in Made : i = Cur(t)
    BY <1>2
<1>4. tx[i] \in TxType /\ tx[i].results \in Seq(Result)
    BY <1>2, TxTypes
<1>5. PICK res \in Result : res = [op |-> "error"]
    BY DEF Result
<1>6. PICK more \in Seq(Result) : more = Append(tx[i].results, res)
    BY <1>4, AppendType
<1>7. PICK y : y = [tx[i] EXCEPT !.results = more, !.stage = "failed"]
    OBVIOUS
<1>8. /\ y \in TxType /\ y.results = more
      /\ y.held = tx[i].held /\ y.snap = tx[i].snap /\ y.script = tx[i].script /\ y.protected = tx[i].protected
    BY <1>4, <1>7 DEF TxType
<1>9. tx' = [tx EXCEPT ![i] = y]
    BY <1>2, <1>3, <1>5, <1>6, <1>7 DEF Fail, TypeInv, Made
<1>10. Right(i, res)
    BY <1>5 DEF Right
<1>11. Goto(t, "next", "deq") /\ UNCHANGED <<clockVars, treeVars, gcVars, pool, queue, iters, todo>>
    BY DEF Fail
<1> QED BY <1>1, <1>3, <1>6, <1>8, <1>9, <1>10, <1>11, EndAns

LEMMA CompleteAns ==
    ASSUME TxInv, AnswersInv, NEW t \in Threads, Complete(t)
    PROVE  AnswersInv'
<1>1. th[t].pc = "next" /\ th[t].pc \in RunPCs
    BY DEF Complete, RunPCs
<1>2. Cur(t) \in Made /\ TypeInv
    BY <1>1, RunFacts
<1>3. PICK i \in Made : i = Cur(t)
    BY <1>2
<1>4. tx[i] \in TxType
    BY <1>2, TxTypes
<1>5. PICK y : y = [tx[i] EXCEPT !.stage = "ok"]
    OBVIOUS
<1>6. /\ y \in TxType /\ y.results = tx[i].results
      /\ y.held = tx[i].held /\ y.snap = tx[i].snap /\ y.script = tx[i].script /\ y.protected = tx[i].protected
    BY <1>4, <1>5 DEF TxType
<1>7. tx' = [tx EXCEPT ![i] = y]
    BY <1>3, <1>5 DEF Complete
<1>8. Goto(t, "next", "deq") /\ UNCHANGED <<clockVars, treeVars, gcVars, pool, queue, iters, todo>>
    BY DEF Complete
<1> QED BY <1>1, <1>3, <1>6, <1>7, <1>8, EndAns

(* What a query at the thread's snapshot finds is right.                    *)
LEMMA FoundRight ==
    ASSUME TxInv, NEW i \in Made, NEW s \in Snapshots, tx[i].snap # NoSnap => s = tx[i].snap,
           NEW res, res.found = Answer(s)
    PROVE  Right(i, res)
<1>1. Answer(s) \in [Keys -> Nat]
    BY FoundType DEF TxInv
<1>2. \A r \in Snapshots : tx[i].snap = r => r = s
    BY Bounds DEF NoSnap
<1> QED BY <1>1, <1>2 DEF Right

LEMMA ReadEndAns ==
    ASSUME TxInv, AnswersInv, NEW t \in Threads, ReadEnd(t)
    PROVE  AnswersInv'
<1>1. /\ th[t].pc = "read" /\ th[t].pc \in RunPCs
      /\ UNCHANGED <<clockVars, treeVars, created, db_tracker, pins, pool, queue, iters, todo>>
    BY DEF ReadEnd, Goto, RunPCs
<1>2. /\ TypeInv /\ th[t] \in ThreadType /\ th[t].snap \in Snapshots /\ th[t].at \in Int /\ horizon \in Int
      /\ Cur(t) \in Made
    BY <1>1, RunFacts, ThreadTypes DEF TypeInv
<1>3. PICK i \in Made : i = Cur(t)
    BY <1>2
<1>4. AtSnapshot(t, i) /\ (tx[i].protected => horizon <= th[t].at)
    BY <1>1, <1>3 DEF AnswersInv, ThreadShield
<1>5. PICK f \in [Keys -> Int] : f = IF th[t].at < horizon THEN Lost ELSE Answer(th[t].snap)
    BY <1>2, FoundType DEF Lost
<1>6. PICK res : res = [op |-> "read", snap |-> th[t].snap, found |-> f]
    OBVIOUS
<1>7. res \in Result
    BY <1>2, <1>6 DEF Result, ReadResult
<1>8. Push(i, res)
    BY <1>3, <1>5, <1>6 DEF ReadEnd
<1>9. Right(i, res)
    <2>1. CASE tx[i].protected
        <3>1. ~(th[t].at < horizon)
            BY <1>2, <1>4, <2>1
        <3>2. res.found = Answer(th[t].snap)
            BY <1>5, <1>6, <3>1
        <3> QED BY <1>2, <1>4, <3>2, FoundRight DEF AtSnapshot
    <2>2. CASE ~tx[i].protected
        BY <2>2 DEF Right
    <2> QED BY <2>1, <2>2
<1>10. PICK x : x = [th[t] EXCEPT !.pc = "next"]
    OBVIOUS
<1>11. x.pc = "next" /\ x.snap = th[t].snap /\ x.ids = th[t].ids /\ x.via = th[t].via /\ x.pin = th[t].pin
    BY <1>2, <1>10 DEF ThreadType
<1>12. th' = [th EXCEPT ![t] = x]
    BY <1>2, <1>10 DEF ReadEnd, Goto, TypeInv
<1>13. /\ Made' = Made /\ \A j \in Made : SameTx(j)
       /\ \A j \in Made : j # i => tx'[j].results = tx[j].results
       /\ tx'[i].results = Append(tx[i].results, res)
    <2>1. tx[i] \in TxType /\ tx'[i] = [tx[i] EXCEPT !.results = Append(@, res)]
        BY <1>2, <1>7, <1>8, PushFacts, TxTypes
    <2>2. tx'[i].results = Append(tx[i].results, res)
        BY <2>1 DEF TxType
    <2> QED BY <1>2, <1>7, <1>8, <2>2, PushFacts
<1>14. \A it \in iters' : IterShield(it)'
    BY <1>1, <1>13, ItersStay DEF SameTx, treeVars
<1> QED BY <1>1, <1>3, <1>7, <1>9, <1>11, <1>12, <1>13, <1>14, GoOnAns DEF clockVars, treeVars

LEMMA OpenIterAns ==
    ASSUME TxInv, AnswersInv, NEW t \in Threads, OpenIter(t)
    PROVE  AnswersInv'
<1>1. /\ HasNext(t) /\ Op(Cur(t)).op \in ReadOps
      /\ UNCHANGED <<clockVars, treeVars, created, db_tracker, pins, pool, queue, th, todo>>
    BY DEF OpenIter, ReadOps
<1>2. th[t].pc = "next" /\ th[t].pc \in RunPCs
    BY <1>1 DEF HasNext, RunPCs
<1>3. TypeInv /\ th[t] \in ThreadType /\ th[t].snap \in Snapshots /\ Cur(t) \in Made
    BY <1>2, RunFacts
<1>4. PICK i \in Made : i = Cur(t)
    BY <1>3
<1>5. tx[i].protected => Reads(i)
    <2>1. Pos(i) \in 1 .. Len(tx[i].script) /\ tx[i].script \in Seq(Operation)
        BY <1>1, <1>3, <1>4, OpFacts, TxTypes
    <2> QED BY <1>1, <1>4, <2>1 DEF Reads, Op
<1>6. AtSnapshot(t, i) /\ (tx[i].protected => horizon < th[t].snap)
    BY <1>2, <1>4, <1>5 DEF AnswersInv, ThreadShield, AtSnapshot
<1>7. PICK f \in [Keys -> Int] : f = Answer(th[t].snap)
    BY <1>3, FoundType
<1>8. PICK res : res = [op |-> "iter", snap |-> th[t].snap, found |-> f]
    OBVIOUS
<1>9. res \in Result
    BY <1>3, <1>8 DEF Result, ReadResult
<1>10. Push(i, res)
    BY <1>4, <1>7, <1>8 DEF OpenIter
<1>11. Right(i, res)
    BY <1>3, <1>6, <1>7, <1>8, FoundRight DEF AtSnapshot
<1>12. /\ Made' = Made /\ \A j \in Made : SameTx(j)
       /\ \A j \in Made : j # i => tx'[j].results = tx[j].results
       /\ tx'[i].results = Append(tx[i].results, res)
    <2>1. tx[i] \in TxType /\ tx'[i] = [tx[i] EXCEPT !.results = Append(@, res)]
        BY <1>3, <1>9, <1>10, PushFacts, TxTypes
    <2> QED BY <1>3, <1>9, <1>10, <2>1, PushFacts DEF TxType
<1>13. PICK new : new = [tx |-> i, pos |-> Pos(i), snap |-> th[t].snap, at |-> Walked(th[t].snap)]
    OBVIOUS
<1>14. new.tx = i /\ new.snap = th[t].snap /\ new.at = Walked(th[t].snap) /\ iters' = iters \cup {new}
    BY <1>4, <1>13 DEF OpenIter
<1>15. \A it \in iters' : IterShield(it)'
    <2>1. ASSUME NEW it \in iters PROVE IterShield(it)'
        <3>1. it.tx \in Made /\ IterShield(it)
            BY DEF TxInv, AnswersInv, IterAt
        <3> QED BY <1>1, <1>12, <3>1 DEF IterShield, SameTx, treeVars
    <2>2. tx[i].protected => horizon <= new.at /\ (new.snap # Latest => new.at = new.snap)
        BY <1>3, <1>6, <1>14, WalkedType
    <2>3. ASSUME tx[i].protected, db_tracker # 0 PROVE tx[i].snap # NoSnap
        <3>1. Has(t, i) /\ ToShield(i)
            BY <1>2, <1>4, <1>5, <2>3, RunFacts DEF ToShield
        <3>2. Shielded(t, i)
            BY <1>2, <3>1 DEF AnswersInv, ThreadShield
        <3> QED BY <1>2, <2>3, <3>2 DEF Shielded
    <2>4. IterShield(new)'
        BY <1>1, <1>6, <1>12, <1>14, <2>2, <2>3 DEF IterShield, AtSnapshot, SameTx, treeVars
    <2> QED BY <1>14, <2>1, <2>4
<1>16. PICK x : x = th[t] /\ th' = [th EXCEPT ![t] = x]
    BY <1>1, <1>3 DEF TypeInv
<1>17. x.pc = "next" /\ x.snap = th[t].snap /\ x.ids = th[t].ids /\ x.via = th[t].via /\ x.pin = th[t].pin
    BY <1>2, <1>16
<1>18. recs' = recs /\ horizon' = horizon /\ wm' = wm /\ db_tracker' = db_tracker /\ queue' = queue
    BY <1>1 DEF clockVars, treeVars
<1>19. th' = [th EXCEPT ![t] = x]
    BY <1>16
<1> QED BY <1>2, <1>4, <1>9, <1>11, <1>12, <1>15, <1>17, <1>18, <1>19, GoOnAns

LEMMA WriteStartAns ==
    ASSUME TxInv, AnswersInv, NEW t \in Threads, WriteStart(t)
    PROVE  AnswersInv'
<1>1. /\ HasNext(t) /\ clock' = clock + 1 /\ wm' = wm
      /\ UNCHANGED <<horizon, gcVars, pool, queue, tx, iters, todo>>
    BY DEF WriteStart, Clock!Begin
<1>2. th[t].pc = "next" /\ th[t].pc \in RunPCs
    BY <1>1 DEF HasNext, RunPCs
<1>3. TypeInv /\ th[t] \in ThreadType /\ Cur(t) \in Made
    BY <1>2, RunFacts
<1>4. PICK x : x = [th[t] EXCEPT !.pc = "commit", !.ver = clock]
    OBVIOUS
<1>5. x.pc = "commit" /\ x.snap = th[t].snap /\ x.ids = th[t].ids /\ x.via = th[t].via /\ x.pin = th[t].pin
    BY <1>3, <1>4 DEF ThreadType
<1>6. th'[t] = x /\ OthersStay(t)
    BY <1>3, <1>4 DEF WriteStart, TypeInv, OthersStay
<1>7. Made' = Made /\ \A j \in Made : SameTx(j) /\ tx'[j].results = tx[j].results
    BY <1>1 DEF Made, SameTx
<1>8. ThreadShield(t)'
    BY <1>1, <1>2, <1>5, <1>6, <1>7, RunOnShield DEF gcVars
<1>9. ASSUME NEW s \in Snapshots, s <= wm PROVE Kept(s)
    <2>1. s \in Int /\ s - 1 \in Int /\ s - 1 < clock /\ s <= clock /\ clock \in Int
        BY <1>3, <1>9, Bounds DEF TypeInv
    <2>2. Answer(s - 1)' = Answer(s - 1)
        BY <2>1, OldAnswersStay
    <2>3. CASE s < clock
        <3>1. Answer(s)' = Answer(s)
            BY <2>1, <2>3, OldAnswersStay
        <3> QED BY <2>2, <3>1 DEF Kept
    <2>4. CASE s = clock
        BY <1>3, <2>2, <2>4, NothingNew DEF Kept
    <2> QED BY <2>1, <2>3, <2>4
<1>10. \A j \in Made' : AnswerAt(j)' /\ tx'[j].snap <= wm
    <2> SUFFICES ASSUME NEW j \in Made PROVE AnswerAt(j)' /\ tx'[j].snap <= wm
        BY <1>7
    <2>1. /\ AnswerAt(j) /\ tx[j].snap <= wm /\ tx'[j].snap = tx[j].snap /\ tx'[j].results = tx[j].results
          /\ tx'[j].protected = tx[j].protected
        BY <1>1 DEF AnswersInv
    <2>2. \A s \in Snapshots : tx[j].snap = s => Kept(s)
        BY <1>9, <2>1
    <2> QED BY <2>1, <2>2, AnswerStays
<1>11. \A it \in iters' : IterShield(it)'
    BY <1>1, <1>7, ItersStay DEF SameTx, gcVars
<1> QED BY <1>1, <1>6, <1>7, <1>8, <1>10, <1>11, AnswersStep DEF gcVars

---------------------------------------------------------------------------
(* Bookkeeping, and the thread that is done.                                *)

LEMMA MoveAns ==
    ASSUME TxInv, AnswersInv, NEW t \in Threads, NEW x, th' = [th EXCEPT ![t] = x],
           x.pc \notin {"pin", "draw", "next", "read", "commit"},
           x.pc \notin {"idle", "unpin"} =>
               /\ th[t].pc \notin {"idle", "unpin", "pin", "draw"} /\ x.via = th[t].via /\ x.pin = th[t].pin
               /\ \A a \in 1 .. Len(x.ids) : Has(t, x.ids[a]),
           Made' = Made, \A j \in Made : Has(t, j) \/ SameTx(j),
           \A j \in Made : /\ tx'[j].snap = tx[j].snap /\ tx'[j].script = tx[j].script /\ tx'[j].protected = tx[j].protected
                           /\ tx'[j].results = tx[j].results,
           UNCHANGED <<recs, horizon, wm, db_tracker, queue, iters>>
    PROVE  AnswersInv'
<1>1. TypeInv /\ ThreadShield(t)
    BY DEF TxInv, AnswersInv
<1>2. th'[t] = x /\ OthersStay(t)
    BY <1>1 DEF TypeInv, OthersStay
<1>3. ASSUME x.pc \notin {"idle", "unpin"}, NEW i \in Made, Has(t, i)', ToShield(i)' PROVE Shielded(t, i)'
    <2>1. Has(t, i)
        BY <1>2, <1>3 DEF Has
    <2>2. ToShield(i) /\ AllReads(i)' = AllReads(i)
        BY <1>3 DEF ToShield, Reads, AllReads
    <2>3. Shielded(t, i)
        BY <1>1, <1>3, <2>1, <2>2 DEF ThreadShield
    <2> QED BY <1>2, <1>3, <2>2, <2>3 DEF Shielded, Safe
<1>4. ThreadShield(t)'
    BY <1>2, <1>3 DEF ThreadShield
<1>5. \A j \in Made' : AnswerAt(j)' /\ tx'[j].snap <= wm
    BY StillRight
<1>6. \A it \in iters' : IterShield(it)'
    BY ItersStay
<1> QED BY <1>2, <1>4, <1>5, <1>6, AnswersStep

LEMMA HoldKeeps ==
    ASSUME TypeInv, NEW i \in Made, NEW k, tx' = [tx EXCEPT ![i].held = k]
    PROVE  /\ Made' = Made /\ \A j \in Made : j # i => tx'[j] = tx[j] /\ SameTx(j)
           /\ \A j \in Made : /\ tx'[j].snap = tx[j].snap /\ tx'[j].script = tx[j].script /\ tx'[j].protected = tx[j].protected
                              /\ tx'[j].results = tx[j].results
<1>1. tx[i] \in TxType /\ tx \in Seq(TxType) /\ Made = 1 .. Len(tx)
    BY TxTypes DEF TypeInv, Made
<1>2. PICK y : y = [tx[i] EXCEPT !.held = k]
    OBVIOUS
<1>3. y.results = tx[i].results /\ y.snap = tx[i].snap /\ y.script = tx[i].script /\ y.protected = tx[i].protected
    BY <1>1, <1>2 DEF TxType
<1>4. tx' = [tx EXCEPT ![i] = y]
    BY <1>2
<1>5. tx'[i] = y /\ Made' = Made /\ \A j \in Made : j # i => tx'[j] = tx[j]
    BY <1>1, <1>4 DEF Made
<1> QED BY <1>3, <1>5 DEF SameTx

LEMMA EnqBookkeepingAns ==
    ASSUME TxInv, AnswersInv, NEW c \in Callers, EnqBookkeeping(c)
    PROVE  AnswersInv'
<1>1. /\ th[c].pc = "submit" /\ Goto(c, "submit", "send")
      /\ UNCHANGED <<clockVars, treeVars, created, db_tracker, pins, pool, queue, iters, todo>>
    BY DEF EnqBookkeeping, Goto
<1>2. /\ c \in Threads /\ TypeInv /\ PlaceInv /\ ThreadAt(c) /\ th[c] \in ThreadType
    BY CallerFacts
<1>3. PICK i \in Made : i = Cur(c) /\ Has(c, i)
    <2>1. Len(th[c].ids) >= 1
        BY <1>1, <1>2 DEF ThreadAt
    <2> QED BY <1>2, <2>1, Owners
<1>4. tx' = tx \/ tx' = [tx EXCEPT ![i].held = db_tracker]
    BY <1>3 DEF EnqBookkeeping
<1>5. /\ Made' = Made /\ \A j \in Made : Has(c, j) \/ SameTx(j)
      /\ \A j \in Made : /\ tx'[j].snap = tx[j].snap /\ tx'[j].script = tx[j].script /\ tx'[j].protected = tx[j].protected
                         /\ tx'[j].results = tx[j].results
    <2>1. CASE tx' = tx
        BY <2>1 DEF Made, SameTx
    <2>2. CASE tx' = [tx EXCEPT ![i].held = db_tracker]
        BY <1>2, <1>3, <2>2, HoldKeeps
    <2> QED BY <1>4, <2>1, <2>2
<1>6. PICK x : x = [th[c] EXCEPT !.pc = "send"]
    OBVIOUS
<1>7. x.pc = "send" /\ x.ids = th[c].ids /\ x.via = th[c].via /\ x.pin = th[c].pin
    BY <1>2, <1>6 DEF ThreadType
<1>8. th' = [th EXCEPT ![c] = x]
    BY <1>1, <1>2, <1>6 DEF Goto, TypeInv
<1>9. \A a \in 1 .. Len(x.ids) : Has(c, x.ids[a])
    BY <1>7 DEF Has
<1> QED BY <1>1, <1>2, <1>5, <1>7, <1>8, <1>9, MoveAns DEF clockVars, treeVars

LEMMA EnqInBatchAns ==
    ASSUME TxInv, AnswersInv, NEW w \in Workers, EnqInBatch(w)
    PROVE  AnswersInv'
<1>1. /\ th[w].pc = "enq" /\ Goto(w, "enq", "begin")
      /\ UNCHANGED <<clockVars, treeVars, created, db_tracker, pins, pool, queue, iters, todo>>
    BY DEF EnqInBatch, Goto
<1>2. /\ w \in Threads /\ TypeInv /\ PlaceInv /\ ThreadAt(w) /\ th[w] \in ThreadType
    BY Bounds, ThreadTypes DEF TxInv
<1>3. PICK i \in Made : i = Cur(w) /\ Has(w, i)
    <2>1. Len(th[w].ids) >= 1
        BY <1>1, <1>2 DEF ThreadAt
    <2> QED BY <1>2, <2>1, Owners
<1>4. tx' = tx \/ tx' = [tx EXCEPT ![i].held = th[w].trk]
    BY <1>3 DEF EnqInBatch
<1>5. /\ Made' = Made /\ \A j \in Made : Has(w, j) \/ SameTx(j)
      /\ \A j \in Made : /\ tx'[j].snap = tx[j].snap /\ tx'[j].script = tx[j].script /\ tx'[j].protected = tx[j].protected
                         /\ tx'[j].results = tx[j].results
    <2>1. CASE tx' = tx
        BY <2>1 DEF Made, SameTx
    <2>2. CASE tx' = [tx EXCEPT ![i].held = th[w].trk]
        BY <1>2, <1>3, <2>2, HoldKeeps
    <2> QED BY <1>4, <2>1, <2>2
<1>6. PICK x : x = [th[w] EXCEPT !.pc = "begin"]
    OBVIOUS
<1>7. x.pc = "begin" /\ x.ids = th[w].ids /\ x.via = th[w].via /\ x.pin = th[w].pin
    BY <1>2, <1>6 DEF ThreadType
<1>8. th' = [th EXCEPT ![w] = x]
    BY <1>1, <1>2, <1>6 DEF Goto, TypeInv
<1>9. \A a \in 1 .. Len(x.ids) : Has(w, x.ids[a])
    BY <1>7 DEF Has
<1> QED BY <1>1, <1>2, <1>5, <1>7, <1>8, <1>9, MoveAns DEF clockVars, treeVars

LEMMA DeqAns ==
    ASSUME TxInv, AnswersInv, NEW t \in Threads, DeqBookkeeping(t)
    PROVE  AnswersInv'
<1>1. /\ th[t].pc = "deq" /\ th[t].pc \in RunPCs
      /\ UNCHANGED <<clockVars, treeVars, created, db_tracker, pins, pool, queue, iters, todo>>
    BY DEF DeqBookkeeping, RunPCs
<1>2. TypeInv /\ th[t] \in ThreadType /\ th[t].ids \in Seq(Nat) /\ Cur(t) \in Made /\ Has(t, Cur(t))
    BY <1>1, RunFacts, ThreadTypes
<1>3. PICK i \in Made : i = Cur(t)
    BY <1>2
<1>4. tx' = [tx EXCEPT ![i].held = 0]
    BY <1>3 DEF DeqBookkeeping
<1>5. /\ Made' = Made /\ \A j \in Made : Has(t, j) \/ SameTx(j)
      /\ \A j \in Made : /\ tx'[j].snap = tx[j].snap /\ tx'[j].script = tx[j].script /\ tx'[j].protected = tx[j].protected
                         /\ tx'[j].results = tx[j].results
    BY <1>2, <1>3, <1>4, HoldKeeps
<1>6. PICK me \in ThreadType : me = th[t]
    BY <1>2
<1>7. PICK x : /\ th' = [th EXCEPT ![t] = x]
               /\ x = IF t \in Callers THEN [me EXCEPT !.pc = "unpin"]
                      ELSE IF Len(th[t].ids) > 1 THEN [me EXCEPT !.pc = "enq", !.ids = Tail(th[t].ids)] ELSE Idle
    BY <1>2, <1>6 DEF DeqBookkeeping, TypeInv
<1>8. CASE t \in Callers \/ ~(Len(th[t].ids) > 1)
    <2>1. x.pc \in {"idle", "unpin"}
        BY <1>6, <1>7, <1>8, IdleType DEF ThreadType
    <2> QED BY <1>1, <1>5, <1>7, <2>1, MoveAns DEF clockVars, treeVars
<1>9. CASE t \notin Callers /\ Len(th[t].ids) > 1
    <2>1. PICK q \in Seq(Nat) : q = th[t].ids
        BY <1>2
    <2>2. q # <<>> /\ Len(q) \in Nat
        BY <1>9, <2>1
    <2>3. Tail(q) \in Seq(Nat) /\ Len(Tail(q)) = Len(q) - 1 /\ \A a \in 1 .. Len(Tail(q)) : Tail(q)[a] = q[a + 1]
        BY <2>2
    <2>4. x.pc = "enq" /\ x.ids = Tail(q) /\ x.via = th[t].via /\ x.pin = th[t].pin
        BY <1>6, <1>7, <1>9, <2>1 DEF ThreadType
    <2>5. \A a \in 1 .. Len(x.ids) : Has(t, x.ids[a])
        <3> SUFFICES ASSUME NEW a \in 1 .. Len(Tail(q)) PROVE Has(t, Tail(q)[a])
            BY <2>4
        <3>1. a + 1 \in 1 .. Len(q) /\ Tail(q)[a] = q[a + 1]
            BY <2>2, <2>3
        <3> QED BY <2>1, <3>1 DEF Has
    <2> QED BY <1>1, <1>5, <1>7, <2>4, <2>5, MoveAns DEF clockVars, treeVars
<1> QED BY <1>8, <1>9

LEMMA ExecuteOnCallerThreadAns ==
    ASSUME TxInv, AnswersInv, NEW c \in Callers, ExecuteOnCallerThread(c)
    PROVE  AnswersInv'
<1>1. /\ th[c].pc = "submit" /\ Goto(c, "submit", "begin")
      /\ UNCHANGED <<clockVars, treeVars, gcVars, pool, queue, tx, iters, todo>>
    BY DEF ExecuteOnCallerThread, Goto
<1>2. c \in Threads /\ TypeInv /\ th[c] \in ThreadType
    BY CallerFacts
<1>3. PICK x : x = [th[c] EXCEPT !.pc = "begin"]
    OBVIOUS
<1>4. x.pc = "begin" /\ x.ids = th[c].ids /\ x.via = th[c].via /\ x.pin = th[c].pin
    BY <1>2, <1>3 DEF ThreadType
<1>5. th' = [th EXCEPT ![c] = x]
    BY <1>1, <1>2, <1>3 DEF Goto, TypeInv
<1>6. Made' = Made /\ \A j \in Made : SameTx(j)
    BY <1>1 DEF Made, SameTx
<1>7. \A a \in 1 .. Len(x.ids) : Has(c, x.ids[a])
    BY <1>4 DEF Has
<1> QED BY <1>1, <1>2, <1>4, <1>5, <1>6, <1>7, MoveAns DEF clockVars, treeVars, gcVars

LEMMA ReturnAns ==
    ASSUME TxInv, AnswersInv, NEW c \in Callers, Return(c)
    PROVE  AnswersInv'
<1>1. /\ th' = [th EXCEPT ![c] = Idle]
      /\ UNCHANGED <<clockVars, treeVars, created, db_tracker, registered, pool, queue, tx, iters, todo>>
    BY DEF Return
<1>2. c \in Threads
    BY Bounds
<1>3. PICK x : x = Idle
    OBVIOUS
<1>4. x.pc = "idle" /\ th' = [th EXCEPT ![c] = x]
    BY <1>1, <1>3, IdleType
<1>5. Made' = Made /\ \A j \in Made : SameTx(j)
    BY <1>1 DEF Made, SameTx
<1> QED BY <1>1, <1>2, <1>4, <1>5, MoveAns DEF clockVars, treeVars

---------------------------------------------------------------------------
(* A call, up to the hand-over.                                             *)

LEMMA CallAns ==
    ASSUME TxInv, AnswersInv, NEW c \in Callers, Call(c)
    PROVE  AnswersInv'
<1>1. /\ th[c].pc = "idle" /\ todo # <<>>
      /\ UNCHANGED <<clockVars, treeVars, gcVars, pool, queue, iters>>
    BY DEF Call
<1>2. /\ c \in Threads /\ TypeInv /\ ThreadAt(c) /\ th[c] \in ThreadType /\ todo \in Seq(Calls)
    BY CallerFacts
<1>3. PICK call \in Calls : call = Head(todo)
    BY <1>1, <1>2
<1>4. PICK e \in TxType : e = NewTx(call, NoSnap) /\ e.held = 0
    <2>1. NoSnap \in 0 .. Latest
        BY Bounds DEF NoSnap
    <2> QED BY <2>1, NewTxType
<1>5. /\ e.snap = NoSnap /\ e.results = <<>> /\ e.script = call.script /\ Len(e.results) = 0
      /\ e.protected => Protected(call)
    BY <1>4 DEF NewTx
<1>6. tx' = Append(tx, e)
    BY <1>3, <1>4 DEF Call
<1>7. PICK m \in Nat : m = Len(tx) + 1
    BY <1>2 DEF TypeInv
<1>8. /\ Made' = Made \cup {m} /\ m \notin Made /\ tx'[m] = e /\ \A i \in Made : tx'[i] = tx[i] /\ SameTx(i)
    BY <1>2, <1>4, <1>6, <1>7, AppendTx
<1>9. PICK p \in {"pin", "submit"} : p = IF call.snapped THEN "pin" ELSE "submit"
    OBVIOUS
<1>10. PICK x : x = [th[c] EXCEPT !.pc = p, !.ids = <<m>>, !.via = call.via]
    OBVIOUS
<1>11. x.pc = p /\ x.ids = <<m>> /\ x.via = call.via
    BY <1>2, <1>10 DEF ThreadType
<1>12. th' = [th EXCEPT ![c] = x]
    BY <1>2, <1>3, <1>7, <1>9, <1>10 DEF Call, TypeInv
<1>13. th'[c] = x /\ OthersStay(c)
    BY <1>2, <1>12 DEF TypeInv, OthersStay
<1>14. \A i : Has(c, i)' => i = m
    BY <1>11, <1>13 DEF Has
<1>15. ASSUME ToShield(m)' PROVE Shielded(c, m)'
    <2>1. Safe(m)'
        BY <1>5, <1>8 DEF Safe
    <2>2. ASSUME db_tracker # 0 PROVE call.snapped /\ call.via # "batch" /\ (call.via = "caller" \/ AllReads(m)')
        <3>1. db_tracker' # 0
            BY <1>1, <2>2 DEF gcVars
        <3>2. Protected(call) /\ \E q \in DOMAIN call.script : call.script[q].op \in ReadOps
            BY <1>5, <1>8, <1>15, <3>1 DEF ToShield, Reads
        <3>3. /\ call.snapped /\ call.via # "batch"
              /\ call.via = "caller" \/ \A q \in DOMAIN call.script : IsRead(call.script[q])
            BY <2>2, <3>2 DEF Protected
        <3> QED BY <1>5, <1>8, <3>3 DEF AllReads
    <2>3. db_tracker # 0 => x.pc = "pin"
        BY <1>9, <1>11, <2>2
    <2> QED BY <1>1, <1>11, <1>13, <2>1, <2>2, <2>3 DEF Shielded, gcVars
<1>16. ThreadShield(c)'
    <2>1. \A i \in Made' : Has(c, i)' => tx'[i].snap = NoSnap /\ Len(tx'[i].results) = 0
        BY <1>5, <1>8, <1>14
    <2>2. \A i \in Made' : Has(c, i)' /\ ToShield(i)' => Shielded(c, i)'
        BY <1>14, <1>15
    <2>3. x.pc \notin {"draw", "next", "read", "commit"}
        BY <1>9, <1>11
    <2> QED BY <1>13, <2>1, <2>2, <2>3 DEF ThreadShield
<1>17. \A i \in Made' : AnswerAt(i)' /\ tx'[i].snap <= wm
    <2>1. ASSUME NEW i \in Made PROVE AnswerAt(i)' /\ tx'[i].snap <= wm
        <3>1. AnswerAt(i) /\ tx[i].snap <= wm /\ tx'[i] = tx[i] /\ recs' = recs
            BY <1>1, <1>8 DEF AnswersInv, treeVars
        <3> QED BY <3>1, AnswersKept, AnswerStays
    <2>2. AnswerAt(m)' /\ tx'[m].snap <= wm
        <3>1. wm \in Nat /\ NoSnap <= wm
            BY <1>2 DEF TypeInv, NoSnap
        <3> QED BY <1>5, <1>8, <3>1 DEF AnswerAt
    <2> QED BY <1>8, <2>1, <2>2
<1>18. \A it \in iters' : IterShield(it)'
    BY <1>1, <1>8, ItersStay DEF treeVars, gcVars
<1> QED BY <1>1, <1>2, <1>8, <1>13, <1>16, <1>17, <1>18, AnswersStep DEF clockVars, treeVars, gcVars

LEMMA AddToBatchAns ==
    ASSUME TxInv, AnswersInv, NEW c \in Callers, AddToBatch(c)
    PROVE  AnswersInv'
<1>1. /\ th[c].pc = "submit" /\ th[c].via = "batch" /\ todo # <<>>
      /\ Head(todo).via = "batch"
      /\ UNCHANGED <<clockVars, treeVars, gcVars, pool, queue, iters>>
    BY DEF AddToBatch
<1>2. /\ c \in Threads /\ TypeInv /\ PlaceInv /\ ThreadAt(c) /\ ThreadShield(c)
      /\ th[c] \in ThreadType /\ th[c].ids \in Seq(Nat) /\ todo \in Seq(Calls)
    BY CallerFacts DEF AnswersInv
<1>3. PICK call \in Calls : call = Head(todo)
    BY <1>1, <1>2
<1>4. PICK cur \in Made : cur = Cur(c) /\ Has(c, cur)
    <2>1. Len(th[c].ids) >= 1
        BY <1>1, <1>2 DEF ThreadAt
    <2> QED BY <1>2, <2>1, Owners
<1>5. PICK e \in TxType : e = NewTx(call, tx[cur].snap) /\ e.held = 0
    BY <1>2, TxTypes, NewTxType
<1>6. /\ e.snap = tx[cur].snap /\ e.results = <<>> /\ e.script = call.script /\ Len(e.results) = 0
      /\ e.protected => Protected(call)
    BY <1>5 DEF NewTx
<1>7. tx' = Append(tx, e)
    BY <1>3, <1>4, <1>5 DEF AddToBatch
<1>8. PICK m \in Nat : m = Len(tx) + 1
    BY <1>2 DEF TypeInv
<1>9. /\ Made' = Made \cup {m} /\ m \notin Made /\ tx'[m] = e /\ \A i \in Made : tx'[i] = tx[i] /\ SameTx(i)
    BY <1>2, <1>5, <1>7, <1>8, AppendTx
<1>10. PICK old \in Seq(Nat) : old = th[c].ids
    BY <1>2
<1>11. PICK ids \in Seq(Nat) : ids = Append(old, m)
    BY AppendType
<1>12. \A a \in 1 .. Len(ids) : (a \in 1 .. Len(old) /\ ids[a] = old[a]) \/ ids[a] = m
    BY <1>11
<1>13. PICK x : x = [th[c] EXCEPT !.ids = ids]
    OBVIOUS
<1>14. x.pc = "submit" /\ x.ids = ids /\ x.via = "batch" /\ x.pin = th[c].pin
    BY <1>1, <1>2, <1>13 DEF ThreadType
<1>15. th' = [th EXCEPT ![c] = x]
    BY <1>2, <1>8, <1>10, <1>11, <1>13 DEF AddToBatch, TypeInv
<1>16. th'[c] = x /\ OthersStay(c)
    BY <1>2, <1>15 DEF TypeInv, OthersStay
<1>17. \A i : Has(c, i)' => Has(c, i) \/ i = m
    BY <1>10, <1>12, <1>14, <1>16 DEF Has
<1>18. ASSUME ToShield(m)' PROVE Shielded(c, m)'
    <2>1. db_tracker = 0
        <3> SUFFICES ASSUME db_tracker # 0 PROVE FALSE
            OBVIOUS
        <3>1. Protected(call) /\ \E q \in DOMAIN call.script : call.script[q].op \in ReadOps
            BY <1>1, <1>6, <1>9, <1>18 DEF ToShield, Reads, gcVars
        <3> QED BY <1>1, <1>3, <3>1 DEF Protected
    <2>2. Shielded(c, cur)
        BY <1>1, <1>2, <1>4, <2>1 DEF ThreadShield, ToShield
    <2> QED BY <1>1, <1>6, <1>9, <2>1, <2>2 DEF Shielded, Safe, gcVars, treeVars
<1>19. ASSUME NEW i \in Made, Has(c, i), ToShield(i)' PROVE Shielded(c, i)'
    <2>1. ToShield(i) /\ AllReads(i)' = AllReads(i) /\ tx'[i] = tx[i]
        BY <1>1, <1>9, <1>19 DEF ToShield, Reads, AllReads, gcVars
    <2>2. Shielded(c, i)
        BY <1>1, <1>2, <1>19, <2>1 DEF ThreadShield
    <2> QED BY <1>1, <1>14, <1>16, <2>1, <2>2 DEF Shielded, Safe, gcVars, treeVars
<1>20. ThreadShield(c)'
    <2>1. \A i \in Made' : Has(c, i)' /\ ToShield(i)' => Shielded(c, i)'
        BY <1>9, <1>17, <1>18, <1>19
    <2> QED BY <1>14, <1>16, <2>1 DEF ThreadShield
<1>21. \A i \in Made' : AnswerAt(i)' /\ tx'[i].snap <= wm
    <2>1. ASSUME NEW i \in Made PROVE AnswerAt(i)' /\ tx'[i].snap <= wm
        <3>1. AnswerAt(i) /\ tx[i].snap <= wm /\ tx'[i] = tx[i] /\ recs' = recs
            BY <1>1, <1>9 DEF AnswersInv, treeVars
        <3> QED BY <3>1, AnswersKept, AnswerStays
    <2>2. AnswerAt(m)' /\ tx'[m].snap <= wm
        <3>1. tx[cur].snap <= wm
            BY DEF AnswersInv
        <3> QED BY <1>6, <1>9, <3>1 DEF AnswerAt
    <2> QED BY <1>9, <2>1, <2>2
<1>22. \A it \in iters' : IterShield(it)'
    BY <1>1, <1>9, ItersStay DEF treeVars, gcVars
<1> QED BY <1>1, <1>2, <1>9, <1>16, <1>20, <1>21, <1>22, AnswersStep DEF clockVars, treeVars, gcVars

LEMMA PinReaderAns ==
    ASSUME TxInv, AnswersInv, NEW c \in Callers, PinReader(c)
    PROVE  AnswersInv'
<1>1. /\ th[c].pc = "pin"
      /\ UNCHANGED <<clockVars, treeVars, created, db_tracker, registered, pool, queue, tx, iters, todo>>
    BY DEF PinReader
<1>2. c \in Threads /\ TypeInv /\ th[c] \in ThreadType /\ ThreadShield(c)
    BY CallerFacts DEF AnswersInv
<1>3. PICK x : x = [th[c] EXCEPT !.pc = "draw", !.pin = wm]
    OBVIOUS
<1>4. x.pc = "draw" /\ x.ids = th[c].ids /\ x.via = th[c].via /\ x.pin = wm
    BY <1>2, <1>3 DEF ThreadType
<1>5. th' = [th EXCEPT ![c] = x]
    BY <1>2, <1>3 DEF PinReader, TypeInv
<1>6. th'[c] = x /\ OthersStay(c)
    BY <1>2, <1>5 DEF TypeInv, OthersStay
<1>7. Made' = Made /\ \A i \in Made : SameTx(i) /\ tx'[i] = tx[i]
    BY <1>1 DEF Made, SameTx
<1>8. \A i : Has(c, i)' = Has(c, i)
    BY <1>4, <1>6 DEF Has
<1>9. ASSUME NEW i \in Made, Has(c, i), ToShield(i)' PROVE Shielded(c, i)'
    <2>1. ToShield(i) /\ AllReads(i)' = AllReads(i)
        BY <1>1, <1>9 DEF ToShield, Reads, AllReads
    <2>2. Shielded(c, i)
        BY <1>1, <1>2, <1>9, <2>1 DEF ThreadShield
    <2> QED BY <1>1, <1>4, <1>6, <2>1, <2>2 DEF Shielded, Safe, treeVars
<1>10. ThreadShield(c)'
    <2>1. x.pin \in 1 .. wm'
        BY <1>1, <1>2, <1>4 DEF clockVars, TypeInv
    <2>2. \A i \in Made' : Has(c, i)' => tx'[i].snap = NoSnap /\ Len(tx'[i].results) = 0
        BY <1>1, <1>2, <1>7, <1>8 DEF ThreadShield
    <2> QED BY <1>4, <1>6, <1>7, <1>8, <1>9, <2>1, <2>2 DEF ThreadShield
<1>11. \A j \in Made' : AnswerAt(j)' /\ tx'[j].snap <= wm
    BY <1>1, <1>7, StillRight DEF treeVars
<1>12. \A it \in iters' : IterShield(it)'
    BY <1>1, <1>7, ItersStay DEF treeVars
<1> QED BY <1>1, <1>2, <1>6, <1>7, <1>10, <1>11, <1>12, AnswersStep DEF clockVars, treeVars

LEMMA DrawSnapshotAns ==
    ASSUME TxInv, AnswersInv, NEW c \in Callers, DrawSnapshot(c)
    PROVE  AnswersInv'
<1>1. /\ th[c].pc = "draw" /\ Goto(c, "draw", "submit") /\ tx' = [tx EXCEPT ![Cur(c)].snap = wm]
      /\ UNCHANGED <<clockVars, treeVars, gcVars, pool, queue, iters, todo>>
    BY DEF DrawSnapshot, Goto
<1>2. /\ c \in Threads /\ TypeInv /\ PlaceInv /\ ThreadAt(c) /\ CallerAt(c)
      /\ th[c] \in ThreadType /\ th[c].ids \in Seq(Nat) /\ ThreadShield(c)
    BY CallerFacts DEF AnswersInv
<1>3. Len(th[c].ids) >= 1 /\ (th[c].via # "batch" => Len(th[c].ids) <= 1)
    BY <1>1, <1>2 DEF ThreadAt, CallerAt
<1>4. PICK i \in Made : i = Cur(c) /\ i = th[c].ids[1] /\ Has(c, i)
    BY <1>2, <1>3, CurFacts, Owners
<1>5. PICK s \in 0 .. Latest : s = wm
    BY <1>2, Bounds DEF TypeInv
<1>6. tx[i] \in TxType /\ Len(tx[i].results) = 0
    BY <1>1, <1>2, <1>4, TxTypes DEF ThreadShield
<1>7. PICK y : y = [tx[i] EXCEPT !.snap = s]
    OBVIOUS
<1>8. y \in TxType /\ y.snap = s /\ y.results = tx[i].results /\ y.script = tx[i].script /\ y.protected = tx[i].protected
    BY <1>6, <1>7 DEF TxType
<1>9. tx' = [tx EXCEPT ![i] = y]
    BY <1>1, <1>4, <1>5, <1>7
<1>10. Made' = Made /\ tx'[i] = y /\ \A j \in Made : j # i => tx'[j] = tx[j]
    BY <1>2, <1>8, <1>9, TxUpdate
<1>11. PICK x : x = [th[c] EXCEPT !.pc = "submit"]
    OBVIOUS
<1>12. x.pc = "submit" /\ x.ids = th[c].ids /\ x.via = th[c].via /\ x.pin = th[c].pin
    BY <1>2, <1>11 DEF ThreadType
<1>13. th' = [th EXCEPT ![c] = x]
    BY <1>1, <1>2, <1>11 DEF Goto, TypeInv
<1>14. th'[c] = x /\ OthersStay(c)
    BY <1>2, <1>13 DEF TypeInv, OthersStay
<1>15. \A j : Has(c, j)' = Has(c, j)
    BY <1>12, <1>14 DEF Has
<1>16. s \in Nat /\ s >= 1 /\ horizon < s /\ th[c].pin \in 1 .. s /\ s # NoSnap
    BY <1>1, <1>2, <1>5 DEF TypeInv, ThreadShield, NoSnap
<1>17. ASSUME NEW j \in Made, Has(c, j), ToShield(j)' PROVE Shielded(c, j)'
    <2>1. tx'[j].script = tx[j].script /\ tx'[j].protected = tx[j].protected
        BY <1>8, <1>10
    <2>2. ToShield(j) /\ AllReads(j)' = AllReads(j)
        BY <1>1, <1>17, <2>1 DEF ToShield, Reads, AllReads, gcVars
    <2>3. Shielded(c, j)
        BY <1>1, <1>2, <1>17, <2>2 DEF ThreadShield
    <2>4. Safe(j)'
        BY <1>1, <1>8, <1>10, <1>16, <2>3 DEF Safe, Shielded, treeVars
    <2>5. ASSUME db_tracker # 0 PROVE tx'[j].snap = s
        <3>1. th[c].via # "batch"
            BY <2>3, <2>5 DEF Shielded
        <3>2. Len(th[c].ids) \in Nat /\ Len(th[c].ids) <= 1
            BY <1>2, <1>3, <3>1
        <3>3. PICK a \in 1 .. Len(th[c].ids) : th[c].ids[a] = j
            BY <1>17 DEF Has
        <3>4. a = 1
            BY <3>2, <3>3
        <3> QED BY <1>4, <1>8, <1>10, <3>3, <3>4
    <2> QED BY <1>1, <1>12, <1>14, <1>16, <2>2, <2>3, <2>4, <2>5 DEF Shielded, gcVars
<1>18. ThreadShield(c)'
    BY <1>10, <1>12, <1>14, <1>15, <1>17 DEF ThreadShield
<1>19. \A j \in Made' : AnswerAt(j)' /\ tx'[j].snap <= wm
    <2>1. ASSUME NEW j \in Made, j # i PROVE AnswerAt(j)' /\ tx'[j].snap <= wm
        <3>1. AnswerAt(j) /\ tx[j].snap <= wm /\ tx'[j] = tx[j] /\ recs' = recs
            BY <1>1, <1>10, <2>1 DEF AnswersInv, treeVars
        <3> QED BY <3>1, AnswersKept, AnswerStays
    <2>2. AnswerAt(i)' /\ tx'[i].snap <= wm
        <3>1. wm \in Nat
            BY <1>2 DEF TypeInv
        <3> QED BY <1>5, <1>6, <1>8, <1>10, <3>1 DEF AnswerAt
    <2> QED BY <1>10, <2>1, <2>2
<1>20. \A it \in iters' : IterShield(it)'
    <2> SUFFICES ASSUME NEW it \in iters PROVE IterShield(it)'
        BY <1>1
    <2>1. it.tx \in Made /\ it.pos \in 1 .. Len(tx[it.tx].results) /\ IterShield(it)
        BY DEF TxInv, AnswersInv, IterAt
    <2>2. it.tx # i
        BY <1>6, <2>1
    <2> QED BY <1>1, <1>10, <2>1, <2>2 DEF IterShield, treeVars, gcVars
<1>21. \A j \in Made : Has(c, j) \/ (SameTx(j) /\ Len(tx'[j].results) = Len(tx[j].results))
    BY <1>4, <1>10 DEF SameTx
<1> QED BY <1>1, <1>2, <1>14, <1>18, <1>19, <1>20, <1>21, AnswersStep DEF clockVars, treeVars, gcVars

---------------------------------------------------------------------------
(* The queue of the pool.                                                   *)

(* Transactions move between one thread and the queue, none changes.        *)
LEMMA QueueAns ==
    ASSUME TxInv, AnswersInv, NEW t \in Threads, OthersStay(t), ThreadShield(t)',
           \A n \in 1 .. Len(queue') : JobShield(n)',
           UNCHANGED <<recs, horizon, wm, db_tracker, tx, iters>>
    PROVE  AnswersInv'
<1>1. Made' = Made /\ \A i \in Made : SameTx(i) /\ tx'[i] = tx[i]
    BY DEF Made, SameTx
<1>2. ASSUME NEW u \in Threads, u # t PROVE ThreadShield(u)'
    <2>1. ThreadShield(u) /\ th'[u] = th[u] /\ th[u].pin \in Nat
        BY <1>2, Owners DEF AnswersInv, OthersStay
    <2>2. \A i : Has(u, i) => i \in Made /\ SameTx(i) /\ Len(tx'[i].results) = Len(tx[i].results)
        BY <1>1, Owners
    <2>3. th[u].pc \in {"next", "read", "commit"} => Has(u, Cur(u))
        BY Owners DEF RunPCs
    <2>4. wm \in Nat /\ wm' \in Nat /\ wm' >= wm
        BY DEF TxInv, TypeInv
    <2> QED BY <2>1, <2>2, <2>3, <2>4, ThreadShieldStays
<1>3. \A j \in Made' : AnswerAt(j)' /\ tx'[j].snap <= wm
    BY <1>1, StillRight
<1>4. \A it \in iters' : IterShield(it)'
    BY <1>1, ItersStay
<1> QED BY <1>2, <1>3, <1>4 DEF AnswersInv

LEMMA SendAns ==
    ASSUME TxInv, AnswersInv, NEW c \in Callers, Send(c)
    PROVE  AnswersInv'
<1>1. /\ th[c].pc = "send" \/ (th[c].pc = "submit" /\ th[c].via = "batch")
      /\ UNCHANGED <<clockVars, treeVars, gcVars, pool, tx, iters, todo>>
    BY DEF Send
<1>2. /\ c \in Threads /\ TypeInv /\ CallerAt(c) /\ th[c] \in ThreadType /\ th[c].ids \in Seq(Nat) /\ ThreadShield(c)
    BY CallerFacts DEF AnswersInv
<1>3. th[c].via # "caller" /\ th[c].via \in Pooled
    BY <1>1, <1>2 DEF CallerAt, Pooled
<1>4. PICK job : job = [ids |-> th[c].ids, via |-> th[c].via, trk |-> db_tracker]
    OBVIOUS
<1>5. job \in JobType /\ job.ids = th[c].ids /\ job.via = th[c].via
    <2>1. db_tracker \in 0 .. MaxTrackers
        BY <1>2 DEF TypeInv
    <2> QED BY <1>2, <1>3, <1>4, <2>1 DEF JobType
<1>6. PICK N \in Nat : N = Len(queue)
    BY <1>2 DEF TypeInv
<1>7. queue' = Append(queue, job) /\ queue \in Seq(JobType)
    BY <1>2, <1>4 DEF Send, TypeInv
<1>8. Len(queue') = N + 1 /\ queue'[N + 1] = job /\ \A n \in 1 .. N : queue'[n] = queue[n]
    BY <1>5, <1>6, <1>7
<1>9. PICK x : x = [th[c] EXCEPT !.pc = "unpin", !.ids = <<>>]
    OBVIOUS
<1>10. x.pc = "unpin"
    BY <1>2, <1>9 DEF ThreadType
<1>11. th' = [th EXCEPT ![c] = x]
    BY <1>2, <1>9 DEF Send, TypeInv
<1>12. th'[c] = x /\ OthersStay(c)
    BY <1>2, <1>11 DEF TypeInv, OthersStay
<1>13. ThreadShield(c)'
    BY <1>10, <1>12 DEF ThreadShield
<1>14. Made' = Made /\ \A i \in Made : SameTx(i)
    BY <1>1 DEF Made, SameTx
<1>15. ASSUME NEW n \in 1 .. N PROVE JobShield(n)'
    <2>1. n \in 1 .. Len(queue) /\ JobShield(n) /\ queue'[n] = queue[n]
        BY <1>6, <1>8 DEF AnswersInv
    <2>2. \A i : Queued(n, i) => i \in Made /\ SameTx(i)
        BY <1>2, <1>14, <2>1, Owners
    <2> QED BY <1>1, <2>1, <2>2, JobShieldStays DEF treeVars, gcVars
<1>16. JobShield(N + 1)'
    <2> SUFFICES ASSUME NEW i \in Made, Queued(N + 1, i)', ToShield(i)'
                 PROVE  Safe(i)' /\ (db_tracker' # 0 => Tracked(i)' /\ queue'[N + 1].via # "batch")
        BY <1>14 DEF JobShield
    <2>1. Has(c, i)
        BY <1>5, <1>8 DEF Queued, Has
    <2>2. ToShield(i) /\ Safe(i)' = Safe(i) /\ Tracked(i)' = Tracked(i)
        BY <1>1, <1>14, TxStays DEF ToShield, treeVars, gcVars
    <2>3. Shielded(c, i)
        BY <1>1, <1>2, <2>1, <2>2 DEF ThreadShield
    <2>4. db_tracker # 0 => Tracked(i) /\ th[c].via # "batch"
        BY <1>1, <1>3, <2>3 DEF Shielded, Tracked, AllReads
    <2> QED BY <1>1, <1>5, <1>8, <2>2, <2>3, <2>4 DEF Shielded, gcVars
<1>17. \A n \in 1 .. Len(queue') : JobShield(n)'
    <2>1. \A n \in 1 .. Len(queue') : n \in 1 .. N \/ n = N + 1
        BY <1>8
    <2> QED BY <1>15, <1>16, <2>1
<1> QED BY <1>1, <1>2, <1>12, <1>13, <1>17, QueueAns DEF clockVars, treeVars, gcVars

LEMMA TakeJobAns ==
    ASSUME TxInv, AnswersInv, NEW w \in Workers, TakeJob(w)
    PROVE  AnswersInv'
<1>1. /\ th[w].pc = "idle" /\ queue # <<>> /\ queue' = Tail(queue)
      /\ UNCHANGED <<clockVars, treeVars, gcVars, pool, tx, iters, todo>>
    BY DEF TakeJob
<1>2. w \in Threads /\ w \notin Callers /\ TypeInv /\ th[w] \in ThreadType
    BY Bounds, ThreadTypes DEF TxInv
<1>3. PICK N \in Nat : N = Len(queue)
    BY <1>2 DEF TypeInv
<1>4. queue \in Seq(JobType) /\ N >= 1 /\ 1 \in 1 .. Len(queue)
    BY <1>1, <1>2, <1>3 DEF TypeInv
<1>5. PICK job \in JobType : job = queue[1] /\ job = Head(queue)
    BY <1>1, <1>4
<1>6. Len(queue') = N - 1 /\ \A n \in 1 .. N - 1 : queue'[n] = queue[n + 1]
    BY <1>1, <1>3, <1>4
<1>7. \A n \in 1 .. Len(queue') : n + 1 \in 1 .. Len(queue) /\ queue'[n] = queue[n + 1]
    BY <1>3, <1>6
<1>8. PICK p \in {"enq", "begin"} : p = IF job.via = "batch" THEN "enq" ELSE "begin"
    OBVIOUS
<1>9. PICK x : x = [th[w] EXCEPT !.pc = p, !.ids = job.ids, !.via = job.via, !.trk = job.trk]
    OBVIOUS
<1>10. x.pc = p /\ x.ids = job.ids /\ x.via = job.via
    BY <1>2, <1>9 DEF ThreadType
<1>11. th' = [th EXCEPT ![w] = x]
    BY <1>2, <1>5, <1>8, <1>9 DEF TakeJob, TypeInv
<1>12. th'[w] = x /\ OthersStay(w)
    BY <1>2, <1>11 DEF TypeInv, OthersStay
<1>13. Made' = Made /\ \A i \in Made : SameTx(i)
    BY <1>1 DEF Made, SameTx
<1>14. ASSUME NEW n \in 1 .. Len(queue') PROVE JobShield(n)'
    <2>1. PICK m \in 1 .. Len(queue) : queue'[n] = queue[m]
        BY <1>7
    <2>2. JobShield(m)
        BY DEF AnswersInv
    <2>3. \A i : Queued(m, i) => i \in Made /\ SameTx(i)
        BY <1>2, <1>13, Owners
    <2> QED BY <1>1, <2>1, <2>2, <2>3, JobShieldStays DEF treeVars, gcVars
<1>15. ASSUME NEW i \in Made, Has(w, i)', ToShield(i)' PROVE Shielded(w, i)'
    <2>1. Queued(1, i)
        BY <1>5, <1>10, <1>12, <1>15 DEF Queued, Has
    <2>2. ToShield(i) /\ Safe(i)' = Safe(i) /\ AllReads(i)' = AllReads(i) /\ tx'[i].snap = tx[i].snap
        BY <1>1, <1>13, <1>15, TxStays DEF ToShield, treeVars, gcVars, SameTx
    <2>3. Safe(i) /\ (db_tracker # 0 => Tracked(i) /\ job.via # "batch")
        BY <1>4, <1>5, <2>1, <2>2 DEF AnswersInv, JobShield
    <2>4. db_tracker # 0 => tx[i].snap # NoSnap /\ AllReads(i)
        BY <2>3 DEF Tracked, AllReads
    <2> QED BY <1>1, <1>2, <1>10, <1>12, <2>2, <2>3, <2>4 DEF Shielded, gcVars
<1>16. ThreadShield(w)'
    <2>1. x.pc \notin {"pin", "draw", "next", "read", "commit"}
        BY <1>8, <1>10
    <2> QED BY <1>12, <1>13, <1>15, <2>1 DEF ThreadShield
<1> QED BY <1>1, <1>2, <1>12, <1>14, <1>16, QueueAns DEF clockVars, treeVars, gcVars

---------------------------------------------------------------------------
(* Iterators, the collector, the clock and the manager.                     *)

(* No thread moves, nothing is reclaimed.                                   *)
LEMMA StillAns ==
    ASSUME TxInv, AnswersInv, Made' = Made, \A i \in Made : SameTx(i) /\ Len(tx'[i].results) = Len(tx[i].results),
           wm' \in Nat, wm' >= wm, \A it \in iters' : it \in iters, \A i \in Made : AnswerAt(i)',
           UNCHANGED <<horizon, db_tracker, queue, th>>
    PROVE  AnswersInv'
<1>1. TypeInv /\ wm \in Nat
    BY DEF TxInv, TypeInv
<1>2. ASSUME NEW t \in Threads PROVE ThreadShield(t)'
    <2>1. ThreadShield(t) /\ th[t].pin \in Nat
        BY Owners DEF AnswersInv
    <2>2. \A i : Has(t, i) => i \in Made /\ SameTx(i) /\ Len(tx'[i].results) = Len(tx[i].results)
        BY Owners
    <2>3. th[t].pc \in {"next", "read", "commit"} => Has(t, Cur(t))
        BY Owners DEF RunPCs
    <2> QED BY <1>1, <2>1, <2>2, <2>3, ThreadShieldStays
<1>3. ASSUME NEW n \in 1 .. Len(queue) PROVE JobShield(n)'
    <2>1. JobShield(n)
        BY DEF AnswersInv
    <2>2. \A i : Queued(n, i) => i \in Made /\ SameTx(i)
        BY DEF TxInv, PlaceInv, ListAt, Queued
    <2> QED BY <2>1, <2>2, JobShieldStays
<1>4. \A it \in iters' : IterShield(it)'
    BY ItersStay DEF SameTx
<1>5. ASSUME NEW i \in Made PROVE tx'[i].snap <= wm'
    <2>1. tx[i].snap \in 0 .. Latest /\ Latest \in Nat
        BY <1>1, TxTypes, Bounds
    <2>2. tx[i].snap \in Nat /\ tx[i].snap <= wm /\ tx'[i].snap = tx[i].snap
        BY <2>1 DEF AnswersInv, SameTx
    <2> QED BY <1>1, <2>2
<1> QED BY <1>2, <1>3, <1>4, <1>5 DEF AnswersInv

LEMMA AdvanceWatermarkAns ==
    ASSUME TxInv, AnswersInv, AdvanceWatermark
    PROVE  AnswersInv'
<1>1. UNCHANGED <<treeVars, gcVars, pool, queue, tx, iters, th, todo>>
    BY DEF AdvanceWatermark
<1>2. wm \in Nat /\ clock \in Nat /\ wm' \in wm + 1 .. clock
    BY DEF AdvanceWatermark, Clock!Advance, TxInv, TypeInv
<1>3. wm' \in Nat /\ wm' >= wm
    <2>1. PICK v \in wm + 1 .. clock : wm' = v
        BY <1>2
    <2> QED BY <1>2, <2>1
<1>4. Made' = Made /\ \A i \in Made : SameTx(i) /\ tx'[i] = tx[i]
    BY <1>1 DEF Made, SameTx
<1>5. \A i \in Made : AnswerAt(i)'
    BY <1>1, <1>4, StillRight DEF treeVars
<1> QED BY <1>1, <1>3, <1>4, <1>5, StillAns DEF treeVars, gcVars

LEMMA SwitchPoolAns ==
    ASSUME TxInv, AnswersInv, SwitchPool
    PROVE  AnswersInv'
<1>1. UNCHANGED <<clockVars, treeVars, gcVars, queue, tx, iters, th, todo>>
    BY DEF SwitchPool
<1>2. wm' \in Nat /\ wm' >= wm
    BY <1>1 DEF TxInv, TypeInv, clockVars
<1>3. Made' = Made /\ \A i \in Made : SameTx(i) /\ tx'[i] = tx[i]
    BY <1>1 DEF Made, SameTx
<1>4. \A i \in Made : AnswerAt(i)'
    BY <1>1, <1>3, StillRight DEF treeVars
<1> QED BY <1>1, <1>2, <1>3, <1>4, StillAns DEF treeVars, gcVars

LEMMA GcSwitchedAns ==
    ASSUME TxInv, AnswersInv, NoCalls, Joined, iters = {}, UNCHANGED <<clockVars, treeVars, queue, tx, iters, th>>
    PROVE  AnswersInv'
<1>1. \A t \in Threads : th'[t].pc = "idle"
    BY Bounds DEF NoCalls, Joined
<1>2. \A t \in Threads : ThreadShield(t)'
    BY <1>1 DEF ThreadShield
<1>3. \A n \in 1 .. Len(queue') : JobShield(n)'
    BY DEF Joined
<1>4. Made' = Made /\ \A i \in Made : tx'[i] = tx[i]
    BY DEF Made
<1>5. \A i \in Made' : AnswerAt(i)' /\ tx'[i].snap <= wm
    BY <1>4, StillRight DEF treeVars
<1> QED BY <1>2, <1>3, <1>5 DEF AnswersInv, clockVars

LEMMA DrainIterAns ==
    ASSUME TxInv, AnswersInv, NEW it \in iters, DrainIter(it)
    PROVE  AnswersInv'
<1>1. /\ iters' = iters \ {it}
      /\ UNCHANGED <<clockVars, treeVars, created, db_tracker, pins, pool, queue, th, todo>>
    BY DEF DrainIter
<1>2. TypeInv /\ IterAt(it) /\ IterShield(it)
    BY DEF TxInv, AnswersInv
<1>3. it.snap \in Snapshots /\ it.tx \in Made /\ it.pos \in 1 .. Len(tx[it.tx].results)
    BY <1>2 DEF TypeInv, IterType, IterAt
<1>4. PICK i \in Made : i = it.tx
    BY <1>3
<1>5. PICK q \in Seq(Result) : q = tx[i].results
    BY <1>2, TxTypes
<1>6. PICK n \in 1 .. Len(q) : n = it.pos
    BY <1>3, <1>4, <1>5
<1>7. PICK f \in [Keys -> Int] : f = IF it.at < horizon THEN Lost ELSE Answer(it.snap)
    BY <1>2, FoundType DEF Lost
<1>8. PICK res : res = [q[n] EXCEPT !.found = f]
    OBVIOUS
<1>9. PICK more : more = [q EXCEPT ![n] = res]
    OBVIOUS
<1>10. PICK y : y = [tx[i] EXCEPT !.results = more]
    OBVIOUS
<1>11. /\ tx[i] \in TxType /\ tx \in Seq(TxType) /\ i \in 1 .. Len(tx) /\ Made = 1 .. Len(tx)
    BY <1>2, TxTypes DEF TypeInv, Made
<1>12. y.results = more /\ y.held = tx[i].held /\ y.snap = tx[i].snap /\ y.script = tx[i].script /\ y.protected = tx[i].protected
    BY <1>10, <1>11 DEF TxType
<1>13. tx' = [tx EXCEPT ![i] = y]
    <2>1. tx' = [tx EXCEPT ![i].results[it.pos].found = f]
        BY <1>4, <1>7 DEF DrainIter
    <2> QED BY <1>5, <1>6, <1>8, <1>9, <1>10, <2>1
<1>14. tx'[i] = y /\ Made' = Made /\ \A j \in Made : j # i => tx'[j] = tx[j]
    BY <1>11, <1>13 DEF Made
<1>15. Len(more) = Len(q) /\ \A p \in 1 .. Len(q) : more[p] = IF p = n THEN res ELSE q[p]
    BY <1>9
<1>16. \A j \in Made : SameTx(j) /\ Len(tx'[j].results) = Len(tx[j].results)
    BY <1>5, <1>12, <1>14, <1>15 DEF SameTx
<1>17. Right(i, res)
    <2> SUFFICES ASSUME tx[i].protected PROVE Right(i, res)
        BY DEF Right
    <2>1. q[n] \in Result
        OBVIOUS
    <2>2. CASE q[n] \in ReadResult
        <3>1. res.found = Answer(it.snap)
            <4>1. horizon \in Nat /\ it.at \in Int /\ horizon <= it.at
                BY <1>2, <1>4 DEF TypeInv, IterType, IterShield
            <4>2. f = Answer(it.snap)
                BY <1>7, <4>1
            <4> QED BY <1>8, <2>2, <4>2 DEF ReadResult
        <3>2. tx[i].snap # NoSnap => it.snap = tx[i].snap
            BY <1>2, <1>4 DEF IterShield
        <3> QED BY <1>3, <3>1, <3>2, FoundRight
    <2>3. CASE q[n] \notin ReadResult
        <3>1. q[n] \in [op : {"void"}, key : Keys] \/ q[n] \in [op : {"write"}, key : Keys, ver : Nat]
              \/ q[n] \in [op : {"error"}]
            BY <2>1, <2>3 DEF Result, WriteResult
        <3>2. res.op \in {"void", "write", "error"}
            BY <1>8, <3>1
        <3> QED BY <3>2 DEF Right
    <2> QED BY <2>2, <2>3
<1>18. ASSUME NEW j \in Made PROVE AnswerAt(j)'
    <2>1. AnswerAt(j)
        BY DEF AnswersInv
    <2>2. CASE j # i
        <3>1. tx'[j] = tx[j] /\ recs' = recs
            BY <1>1, <1>14, <2>2 DEF treeVars
        <3> QED BY <2>1, <3>1, AnswersKept, AnswerStays
    <2>3. CASE j = i
        <3> SUFFICES ASSUME NEW p \in 1 .. Len(more), NEW r, r = more[p] PROVE Right(i, r)'
            BY <1>12, <1>14, <2>3 DEF AnswerAt, Right
        <3>1. Right(i, r)
            BY <1>5, <1>15, <1>17, <2>1, <2>3 DEF AnswerAt
        <3>2. tx'[i].snap = tx[i].snap /\ tx'[i].protected = tx[i].protected /\ recs' = recs
            BY <1>1, <1>12, <1>14 DEF treeVars
        <3> QED BY <3>1, <3>2, RightStays, AnswersKept
    <2> QED BY <2>2, <2>3
<1>19. wm' \in Nat /\ wm' >= wm
    BY <1>1, <1>2 DEF TypeInv, clockVars
<1> QED BY <1>1, <1>14, <1>16, <1>18, <1>19, StillAns DEF treeVars

---------------------------------------------------------------------------
(* free_block stays below every announced reader.                           *)

LEMMA Smallest ==
    ASSUME NEW S \in SUBSET Nat, NEW y \in S
    PROVE  Min(S) \in S /\ Min(S) <= y
<1>1. \E x \in S : \A z \in S : ~(<<z, x>> \in OpToRel(<, Nat))
    BY NatLessThanWellFounded, WFMin
<1>2. PICK x \in S : \A z \in S : ~(<<z, x>> \in OpToRel(<, Nat))
    BY <1>1
<1>3. \A z \in S : ~(z < x)
    BY <1>2 DEF OpToRel
<1>4. \E m \in S : \A z \in S : m <= z
    BY <1>3
<1> QED BY <1>4 DEF Min

LEMMA BoundHolds ==
    ASSUME TxInv, FreeBlock
    PROVE  /\ db_tracker \in Trackers /\ horizon' \in Nat /\ horizon' < wm
           /\ \A s \in Snapshots : registered[db_tracker][s] > 0 \/ pins[db_tracker][s] > 0 => horizon' < s
<1> DEFINE S == {wm} \cup {s \in Snapshots : registered[db_tracker][s] > 0 \/ pins[db_tracker][s] > 0}
<1>1. TypeInv /\ db_tracker \in Trackers
    <2>1. TypeInv /\ db_tracker # 0
        BY DEF TxInv, FreeBlock
    <2> QED BY <2>1, Bounds DEF TypeInv
<1>2. S \in SUBSET Nat /\ wm \in S /\ wm \in Nat /\ horizon \in Nat
    BY <1>1, Bounds DEF TypeInv
<1>3. Min(S) - 1 > horizon /\ horizon' = Min(S) - 1
    BY DEF FreeBlock
<1>4. \A s \in Snapshots : registered[db_tracker][s] > 0 \/ pins[db_tracker][s] > 0 => s \in S
    OBVIOUS
<1> HIDE DEF S
<1>5. PICK m \in Nat : m = Min(S) /\ \A y \in S : m <= y
    BY <1>2, Smallest
<1>6. \A y \in S : y \in Nat /\ horizon' < y
    BY <1>2, <1>3, <1>5
<1>7. horizon' \in Nat
    BY <1>2, <1>3, <1>5
<1> QED BY <1>1, <1>2, <1>4, <1>6, <1>7

(* What is counted is announced.                                            *)
LEMMA Announced ==
    ASSUME TxInv, db_tracker \in Trackers
    PROVE  /\ \A it \in iters : registered[db_tracker][it.snap] > 0
           /\ \A i \in Made : tx[i].held = db_tracker /\ tx[i].snap \in Snapshots =>
                 registered[db_tracker][tx[i].snap] > 0
           /\ \A t \in Threads : th[t].pin \in Snapshots => pins[db_tracker][th[t].pin] > 0
<1>1. TypeInv /\ RegistrationsMatch /\ PinsMatch
    BY DEF TxInv
<1>2. ASSUME NEW S, IsFiniteSet(S), NEW e \in S PROVE Cardinality(S) >= 1
    BY <1>2, Loses
<1>3. ASSUME NEW it \in iters PROVE registered[db_tracker][it.snap] > 0
    <2>1. PICK s \in Snapshots : s = it.snap
        BY <1>1 DEF TypeInv, IterType
    <2>2. it \in Open(db_tracker, s) /\ IsFiniteSet(Open(db_tracker, s))
        BY <1>1, <2>1, Countable DEF Open
    <2>3. Cardinality(Open(db_tracker, s)) >= 1
        BY <1>2, <2>2
    <2>4. Cardinality(HeldTx(db_tracker, s)) \in Nat /\ Cardinality(Reading(db_tracker, s)) \in Nat
          /\ Cardinality(Open(db_tracker, s)) \in Nat
        BY <1>1, Countable
    <2>5. Held(db_tracker, s) >= 1
        BY <2>3, <2>4, HeldIs
    <2>6. registered[db_tracker][s] = Held(db_tracker, s) /\ registered[db_tracker][s] \in Nat
        BY <1>1 DEF RegistrationsMatch, TypeInv
    <2>7. registered[db_tracker][s] > 0
        BY <2>5, <2>6
    <2> QED BY <2>1, <2>7
<1>4. ASSUME NEW i \in Made, tx[i].held = db_tracker, tx[i].snap \in Snapshots
      PROVE  registered[db_tracker][tx[i].snap] > 0
    <2>1. PICK s \in Snapshots : s = tx[i].snap
        BY <1>4
    <2>2. i \in HeldTx(db_tracker, s) /\ IsFiniteSet(HeldTx(db_tracker, s))
        BY <1>1, <1>4, <2>1, Countable DEF HeldTx
    <2>3. Cardinality(HeldTx(db_tracker, s)) >= 1
        BY <1>2, <2>2
    <2>4. Cardinality(HeldTx(db_tracker, s)) \in Nat /\ Cardinality(Reading(db_tracker, s)) \in Nat
          /\ Cardinality(Open(db_tracker, s)) \in Nat
        BY <1>1, Countable
    <2>5. Held(db_tracker, s) >= 1
        BY <2>3, <2>4, HeldIs
    <2>6. registered[db_tracker][s] = Held(db_tracker, s) /\ registered[db_tracker][s] \in Nat
        BY <1>1 DEF RegistrationsMatch, TypeInv
    <2>7. registered[db_tracker][s] > 0
        BY <2>5, <2>6
    <2> QED BY <2>1, <2>7
<1>5. ASSUME NEW t \in Threads, th[t].pin \in Snapshots PROVE pins[db_tracker][th[t].pin] > 0
    <2>1. PICK s \in Snapshots : s = th[t].pin
        BY <1>5
    <2>2. t \in Pinning(db_tracker, s) /\ IsFiniteSet(Pinning(db_tracker, s))
        BY <1>1, <2>1, Countable DEF Pinning
    <2>3. Cardinality(Pinning(db_tracker, s)) >= 1
        BY <1>2, <2>2
    <2>4. pins[db_tracker][s] = Cardinality(Pinning(db_tracker, s)) /\ pins[db_tracker][s] \in Nat
        BY <1>1 DEF PinsMatch, Pinning, TypeInv
    <2>5. pins[db_tracker][s] > 0
        BY <2>3, <2>4
    <2> QED BY <2>1, <2>5
<1> QED BY <1>3, <1>4, <1>5

LEMMA FreeBlockAns ==
    ASSUME TxInv, AnswersInv, FreeBlock
    PROVE  AnswersInv'
<1>1. UNCHANGED <<clockVars, recs, gcVars, pool, queue, tx, iters, th, todo>> /\ db_tracker # 0
    BY DEF FreeBlock
<1>2. /\ TypeInv /\ db_tracker \in Trackers /\ horizon' \in Nat /\ horizon' < wm
      /\ \A s \in Snapshots : registered[db_tracker][s] > 0 \/ pins[db_tracker][s] > 0 => horizon' < s
    BY BoundHolds DEF TxInv
<1>3. Made' = Made /\ \A i \in Made : /\ SameTx(i) /\ tx'[i] = tx[i]
                                      /\ Reads(i)' = Reads(i) /\ AllReads(i)' = AllReads(i) /\ Tracked(i)' = Tracked(i)
    BY <1>1 DEF Made, SameTx, Reads, AllReads, Tracked
<1>4. ASSUME NEW i \in Made PROVE tx[i].snap # NoSnap => tx[i].snap \in Snapshots
    <2>1. tx[i].snap \in 0 .. Latest
        BY <1>2, TxTypes
    <2> QED BY <2>1, Bounds DEF NoSnap
<1>5. ASSUME NEW i \in Made, tx[i].held = db_tracker PROVE Safe(i)'
    BY <1>1, <1>2, <1>4, <1>5, Announced DEF Safe
<1>6. \A it \in iters' : IterShield(it)'
    <2> SUFFICES ASSUME NEW it \in iters, tx[it.tx].protected PROVE IterShield(it)'
        BY <1>1 DEF IterShield
    <2>1. IterShield(it) /\ it.snap \in Snapshots
        BY <1>2 DEF AnswersInv, TypeInv, IterType
    <2>2. horizon' < it.snap
        BY <1>2, <2>1, Announced
    <2>3. it.snap # Latest
        <3>1. it.tx \in Made /\ it.snap = tx[it.tx].snap
            BY <1>1, <2>1 DEF TxInv, IterAt, IterShield
        <3>2. it.snap <= wm
            BY <3>1 DEF AnswersInv
        <3>3. wm \in 1 .. clock /\ clock \in 1 .. MaxClock /\ it.snap \in Nat
            BY <1>2, <2>1, Bounds DEF TypeInv
        <3> QED BY <3>2, <3>3, Bounds DEF Latest
    <2>4. horizon' <= it.at
        <3>1. it.at = it.snap /\ it.snap \in Nat /\ horizon' \in Nat
            BY <2>1, <2>3, Bounds, BoundHolds DEF IterShield
        <3> QED BY <2>2, <3>1
    <2> QED BY <1>1, <2>1, <2>2, <2>4 DEF IterShield, gcVars
<1>7. ASSUME NEW n \in 1 .. Len(queue) PROVE JobShield(n)'
    <2> SUFFICES ASSUME NEW i \in Made, Queued(n, i), Reads(i) PROVE Safe(i)' /\ Tracked(i) /\ queue[n].via # "batch"
        BY <1>1, <1>3 DEF JobShield, ToShield, Queued, gcVars
    <2>1. Tracked(i) /\ queue[n].via # "batch"
        BY <1>1 DEF AnswersInv, JobShield, ToShield
    <2>2. queue[n].ids \in Seq(Nat) /\ Len(queue[n].ids) = 1 /\ tx[queue[n].ids[1]].held = Due(queue[n].ids[1])
        BY <1>2, <2>1, JobTypes DEF TxInv, JobAt
    <2>3. i = queue[n].ids[1]
        BY <2>2 DEF Queued
    <2>4. tx[i].held = db_tracker
        BY <2>1, <2>2, <2>3 DEF Due
    <2> QED BY <1>5, <2>1, <2>4
<1>8. ASSUME NEW t \in Threads, th[t].pc \notin {"idle", "unpin"}, NEW i \in Made, Has(t, i), Reads(i)
      PROVE  Safe(i)' /\ Shielded(t, i)
    <2>1. Shielded(t, i) /\ ThreadShield(t) /\ ThreadAt(t)
        BY <1>8 DEF AnswersInv, ThreadShield, ToShield, TxInv
    <2>2. CASE th[t].pc \in {"pin", "draw"}
        <3>1. tx[i].snap = NoSnap
            BY <1>8, <2>1, <2>2 DEF ThreadShield
        <3> QED BY <1>1, <2>1, <3>1 DEF Safe
    <2>3. CASE th[t].pc \notin {"pin", "draw"} /\ t \in Callers
        <3>1. th[t].pin \in 1 .. tx[i].snap /\ tx[i].snap # NoSnap
            BY <1>1, <2>1, <2>3 DEF Shielded
        <3>2. PICK s \in Snapshots : s = tx[i].snap
            BY <1>4, <3>1
        <3>3. PICK p \in Snapshots : p = th[t].pin /\ p <= s
            BY <3>1, <3>2, Bounds
        <3>4. horizon' < p
            BY <1>2, <3>3, Announced
        <3>5. horizon' < s
            BY <1>2, <3>3, <3>4, Bounds
        <3> QED BY <1>1, <2>1, <3>2, <3>5 DEF Safe
    <2>4. CASE th[t].pc \notin {"pin", "draw"} /\ t \notin Callers
        <3>1. t \in Workers
            BY <2>4, Bounds
        <3>2. WorkerAt(t) /\ th[t].pc # "idle"
            BY <1>8, <2>1, <3>1 DEF ThreadAt
        <3>3. th[t].via # "caller"
            BY <3>2 DEF WorkerAt, Pooled
        <3>4. th[t].via # "batch" /\ AllReads(i) /\ tx[i].snap # NoSnap
            BY <1>1, <2>1, <2>4, <3>3 DEF Shielded
        <3>5. th[t].pc \in RunPCs
            <4>1. th[t].pc \in ThreadPCs /\ th[t].pc \notin CallPCs /\ th[t].pc # "enq"
                BY <1>2, <3>2, <3>4, ThreadTypes DEF WorkerAt
            <4> QED BY <3>2, <4>1 DEF ThreadPCs, RunPCs, CallPCs
        <3>6. th[t].ids \in Seq(Nat) /\ Len(th[t].ids) = 1 /\ tx[th[t].ids[1]].held = Due(th[t].ids[1])
            BY <1>2, <3>2, <3>4, <3>5, ThreadTypes DEF WorkerAt
        <3>7. i = th[t].ids[1]
            BY <1>8, <3>6 DEF Has
        <3>8. tx[i].held = db_tracker
            BY <3>4, <3>6, <3>7 DEF Due, Tracked, AllReads
        <3> QED BY <1>5, <2>1, <3>8
    <2> QED BY <2>2, <2>3, <2>4
<1>9. ASSUME NEW t \in Threads PROVE ThreadShield(t)'
    <2>1. ThreadShield(t)
        BY DEF AnswersInv
    <2>2. \A i : Has(t, i)' = Has(t, i) /\ Cur(t)' = Cur(t)
        BY <1>1 DEF Has, Cur
    <2>3. th[t].pc \notin {"idle", "unpin"} => \A i \in Made : Has(t, i)' /\ ToShield(i)' => Shielded(t, i)'
        <3> SUFFICES ASSUME th[t].pc \notin {"idle", "unpin"}, NEW i \in Made, Has(t, i), ToShield(i)'
                     PROVE  Shielded(t, i)'
            BY <2>2
        <3>1. Reads(i)
            BY <1>1, <1>3 DEF ToShield, gcVars
        <3>2. Safe(i)' /\ Shielded(t, i)
            BY <1>8, <3>1
        <3> QED BY <1>1, <1>3, <3>2 DEF Shielded, gcVars
    <2>4. ASSUME th[t].pc \in {"next", "read", "commit"}, NEW i \in Made, Cur(t) = i, Reads(i)
          PROVE  /\ horizon' < th[t].snap /\ th[t].snap = tx[i].snap /\ tx[i].snap \in Snapshots
        <3>1. Has(t, i)
            BY <2>4, Owners DEF RunPCs
        <3>2. Safe(i)' /\ Shielded(t, i)
            BY <1>8, <2>4, <3>1
        <3>3. tx[i].snap # NoSnap
            BY <1>1, <2>4, <3>2 DEF Shielded
        <3>4. th[t].snap = tx[i].snap
            BY <2>1, <2>4, <3>3 DEF ThreadShield, AtSnapshot
        <3>5. horizon' < tx[i].snap
            BY <1>1, <3>2, <3>3 DEF Safe
        <3> QED BY <1>4, <3>3, <3>4, <3>5
    <2>5. th[t].pc \in {"next", "read", "commit"} => \A i \in Made : Cur(t) = i => AtSnapshot(t, i)'
        <3> SUFFICES ASSUME th[t].pc \in {"next", "read", "commit"}, NEW i \in Made, Cur(t) = i
                     PROVE  AtSnapshot(t, i)'
            OBVIOUS
        <3>1. tx[i].snap # NoSnap => th[t].snap = tx[i].snap
            BY <2>1 DEF ThreadShield, AtSnapshot
        <3> QED BY <1>1, <1>3, <2>4, <3>1 DEF AtSnapshot
    <2>6. ASSUME th[t].pc = "read", NEW i \in Made, Cur(t) = i, tx[i].protected
          PROVE  Reads(i)' /\ horizon' <= th[t].at /\ (th[t].snap # Latest => th[t].at = th[t].snap)
        <3>2. Reads(i) /\ (th[t].snap # Latest => th[t].at = th[t].snap)
            BY <2>1, <2>6 DEF ThreadShield
        <3>3. horizon' < th[t].snap /\ th[t].snap = tx[i].snap /\ tx[i].snap \in Snapshots /\ tx[i].snap <= wm
            BY <2>4, <2>6, <3>2 DEF AnswersInv
        <3>4. wm \in Nat /\ wm < Latest /\ Latest \in Nat
            BY <1>2, Bounds DEF TypeInv
        <3>5. PICK s \in Nat : s = th[t].snap /\ s <= wm /\ horizon' < s
            BY <3>3, Bounds
        <3>6. s # Latest
            BY <3>4, <3>5
        <3>7. horizon' <= th[t].at
            BY <1>2, <3>2, <3>5, <3>6
        <3> QED BY <1>3, <3>2, <3>7
    <2>7. \A i \in Made : tx'[i].snap = tx[i].snap /\ Len(tx'[i].results) = Len(tx[i].results)
        BY <1>1
    <2>8. th[t].pc = "draw" => th[t].pin \in 1 .. wm
        BY <2>1 DEF ThreadShield
    <2>9. th[t].pc \in {"pin", "draw"} => \A i \in Made : Has(t, i)' => tx'[i].snap = NoSnap /\ Len(tx'[i].results) = 0
        BY <2>1, <2>2, <2>7 DEF ThreadShield
    <2>10. th' = th /\ wm' = wm /\ Cur(t)' = Cur(t)
        BY <1>1, <2>2 DEF clockVars
    <2> QED BY <1>3, <2>3, <2>5, <2>6, <2>8, <2>9, <2>10 DEF ThreadShield
<1>10. \A i \in Made' : AnswerAt(i)' /\ tx'[i].snap <= wm
    BY <1>1, <1>3, StillRight
<1> QED BY <1>1, <1>6, <1>7, <1>9, <1>10 DEF AnswersInv, clockVars

---------------------------------------------------------------------------
(* Reads find their snapshot.                                               *)

LEMMA InitAns == Init => AnswersInv
<1> SUFFICES ASSUME Init PROVE AnswersInv
    OBVIOUS
<1>1. Made = {} /\ iters = {} /\ queue = <<>> /\ Len(queue) = 0 /\ \A t \in Threads : th[t].pc = "idle"
    BY IdleType DEF Init, Made
<1>2. \A t \in Threads : ThreadShield(t)
    BY <1>1 DEF ThreadShield
<1> QED BY <1>1, <1>2 DEF AnswersInv

LEMMA StutterAns == ASSUME TxInv, AnswersInv, UNCHANGED vars PROVE AnswersInv'
<1>1. Made' = Made /\ \A i \in Made : SameTx(i) /\ tx'[i] = tx[i]
    BY DEF Made, SameTx, vars
<1>2. wm' \in Nat /\ wm' >= wm
    BY DEF TxInv, TypeInv, vars
<1>3. \A i \in Made : AnswerAt(i)'
    BY <1>1, StillRight DEF vars
<1> QED BY <1>1, <1>2, <1>3, StillAns DEF vars

LEMMA RunAns == ASSUME TxInv, AnswersInv, NEW t \in Threads, Run(t) PROVE AnswersInv'
BY DispatchAns, ReadStartAns, ReadEndAns, OpenIterAns, WriteVoidAns, WriteStartAns, WriteEndAns, FailAns, CompleteAns,
   DeqAns DEF Run

LEMMA NextAns == ASSUME TxInv, AnswersInv, [Next]_vars PROVE AnswersInv'
<1>1. CASE Next
    <2>1. ASSUME NEW c \in Callers, Call(c) \/ AddToBatch(c) \/ InCall(c) PROVE AnswersInv'
        BY <2>1, CallAns, AddToBatchAns, PinReaderAns, DrawSnapshotAns, ExecuteOnCallerThreadAns, EnqBookkeepingAns,
           SendAns, ReturnAns, RunAns, Bounds DEF InCall
    <2>2. ASSUME NEW w \in Workers, InJob(w) PROVE AnswersInv'
        BY <2>2, TakeJobAns, EnqInBatchAns, RunAns, Bounds DEF InJob
    <2>3. ASSUME EnableGc \/ DisableGc PROVE AnswersInv'
        BY <2>3, GcSwitchedAns DEF EnableGc, DisableGc
    <2> QED BY <1>1, <2>1, <2>2, <2>3, DrainIterAns, FreeBlockAns, AdvanceWatermarkAns, SwitchPoolAns DEF Next
<1>2. CASE UNCHANGED vars
    BY <1>2, StutterAns
<1> QED BY <1>1, <1>2

LEMMA AnswersFollow == ASSUME TxInv, AnswersInv PROVE AnswersAtSnapshot
<1> SUFFICES ASSUME NEW i \in Made, tx[i].protected, NEW p \in DOMAIN tx[i].results, tx[i].results[p].op \in {"read", "iter"}
             PROVE  /\ tx[i].results[p].found # Lost
                    /\ tx[i].snap # NoSnap => \A k \in Keys :
                          tx[i].results[p].found[k] \in {Answer(tx[i].snap)[k], Answer(tx[i].snap - 1)[k]}
    BY DEF AnswersAtSnapshot
<1>1. TypeInv /\ tx[i].results \in Seq(Result) /\ tx[i].snap \in 0 .. Latest
    BY TxTypes DEF TxInv
<1>2. Right(i, tx[i].results[p])
    BY <1>1 DEF AnswersInv, AnswerAt
<1>3. tx[i].results[p].found \in [Keys -> Nat]
    BY <1>2 DEF Right
<1>4. tx[i].results[p].found # Lost
    <2>1. PICK k \in Keys : TRUE
        BY TransactionsAssumption
    <2>2. Lost[k] = -1 /\ \A f \in [Keys -> Nat] : f[k] \in Nat
        BY <2>1 DEF Lost
    <2> QED BY <1>3, <2>2
<1>5. tx[i].snap # NoSnap => tx[i].snap \in Snapshots
    BY <1>1, Bounds DEF NoSnap
<1> QED BY <1>2, <1>4, <1>5 DEF Right

(* Every read of a transaction that the tracker protects finds the records  *)
(* of its snapshot, however late it runs or its iterator is drained:        *)
(* beside a collector, reads on the caller's thread at a snapshot drawn     *)
(* under a pin and queued reads at a version of their own; without one,     *)
(* all reads, batches and Si reads included.  The manager refuses no call   *)
(* (tx_manager.rs:352-398): batches, queued Si reads and unpinned draws run *)
(* beside them, lose their own blocks and take none of the others'.         *)
THEOREM SpecAnswersAtSnapshot == Spec => []AnswersAtSnapshot
<1>1. TxInv /\ AnswersInv /\ [Next]_vars => AnswersInv'
    BY NextAns
<1>2. TxInv /\ AnswersInv => AnswersAtSnapshot
    BY AnswersFollow
<1> QED BY SpecTxInv, InitAns, <1>1, <1>2, PTL DEF Spec

---------------------------------------------------------------------------
(* Results that tell of a write, and of an error.                           *)

NoError(i) == \A p \in 1 .. Len(tx[i].results) : tx[i].results[p].op # "error"

(* A record is one of a commit under way or one that a result reports.      *)
Reported(r) ==
    \E i \in Made : \E p \in 1 .. Len(tx[i].results) :
        tx[i].results[p] = [op |-> "write", key |-> r.key, ver |-> r.from]

ThreadWrites(t) ==
    /\ th[t].pc = "commit" =>
          /\ th[t].ver < clock
          /\ \A i \in Made : Cur(t) = i => \A r \in recs : r.from = th[t].ver => r.key = Op(i).key
    /\ th[t].pc \notin {"deq", "unpin"} => \A i \in Made : Has(t, i) => NoError(i)
    /\ th[t].pc = "deq" => \A i \in Made : Has(t, i) /\ i # Cur(t) => NoError(i)

WritesInv ==
    /\ \A r \in recs : r.from > 0 /\ r.from \notin inflight => Reported(r)
    /\ \A i \in Made : \A p \in 1 .. Len(tx[i].results) :
          tx[i].results[p].op = "error" => p = Len(tx[i].results)
    /\ \A t \in Threads : ThreadWrites(t)
    /\ \A n \in 1 .. Len(queue), i \in Made : Queued(n, i) => NoError(i)

(* What a transaction has told stays, all but what a read has found.        *)
Told(i) ==
    /\ tx'[i].script = tx[i].script
    /\ Len(tx'[i].results) = Len(tx[i].results)
    /\ \A p \in 1 .. Len(tx[i].results) :
          /\ tx'[i].results[p].op = tx[i].results[p].op
          /\ tx[i].results[p].op = "write" => tx'[i].results[p] = tx[i].results[p]

LEMMA TellsAsMuch ==
    ASSUME NEW i, Told(i)
    PROVE  NoError(i)' = NoError(i) /\ Op(i)' = Op(i)
BY DEF Told, NoError, Op, Pos

(* A result once given is not taken back.                                   *)
LEMMA ReportStays ==
    ASSUME NEW r, Reported(r), \A i \in Made : i \in Made',
           \A i \in Made : \A p \in 1 .. Len(tx[i].results) :
               tx[i].results[p].op = "write" =>
                   p \in 1 .. Len(tx'[i].results) /\ tx'[i].results[p] = tx[i].results[p]
    PROVE  Reported(r)'
<1>0. PICK i \in Made : \E p \in 1 .. Len(tx[i].results) :
          tx[i].results[p] = [op |-> "write", key |-> r.key, ver |-> r.from]
    BY DEF Reported
<1>1. PICK p \in 1 .. Len(tx[i].results) :
          tx[i].results[p] = [op |-> "write", key |-> r.key, ver |-> r.from]
    BY <1>0
<1>2. tx[i].results[p].op = "write"
    BY <1>1
<1>3. p \in 1 .. Len(tx'[i].results) /\ tx'[i].results[p] = [op |-> "write", key |-> r.key, ver |-> r.from]
    BY <1>1, <1>2
<1> QED BY <1>3 DEF Reported

LEMMA ThreadWritesStay ==
    ASSUME NEW t, ThreadWrites(t), th'[t] = th[t], clock \in Nat, clock' \in Nat, clock' >= clock, th[t].ver \in Nat,
           th[t].pc = "commit" => Has(t, Cur(t)),
           \A i : Has(t, i) => i \in Made /\ Told(i),
           \A r \in recs' : r.from = clock \/ \E q \in recs : q.key = r.key /\ q.from = r.from
    PROVE  ThreadWrites(t)'
<1>1. \A i : Has(t, i)' = Has(t, i)
    BY DEF Has
<1>2. Cur(t)' = Cur(t)
    BY DEF Cur
<1>3. \A i : Has(t, i) => NoError(i)' = NoError(i) /\ Op(i)' = Op(i)
    BY TellsAsMuch
<1>4. th[t].pc = "commit" => th[t].ver < clock'
    BY DEF ThreadWrites
<1>5. th[t].pc = "commit" => \A i \in Made' : Cur(t)' = i => \A r \in recs' : r.from = th[t].ver => r.key = Op(i)'.key
    <2> SUFFICES ASSUME th[t].pc = "commit", NEW i, i = Cur(t)', NEW r \in recs', r.from = th[t].ver
                 PROVE  r.key = Op(i)'.key
        OBVIOUS
    <2>1. Has(t, i) /\ Op(i)' = Op(i)
        BY <1>2, <1>3
    <2>2. \A q \in recs : q.from = th[t].ver => q.key = Op(i).key
        BY <1>2, <2>1 DEF ThreadWrites
    <2>3. th[t].ver < clock
        BY DEF ThreadWrites
    <2> QED BY <2>1, <2>2, <2>3
<1>6. th[t].pc \notin {"deq", "unpin"} => \A i \in Made' : Has(t, i)' => NoError(i)'
    BY <1>1, <1>3 DEF ThreadWrites
<1>7. th[t].pc = "deq" => \A i \in Made' : Has(t, i)' /\ i # Cur(t)' => NoError(i)'
    BY <1>1, <1>2, <1>3 DEF ThreadWrites
<1> QED BY <1>4, <1>5, <1>6, <1>7 DEF ThreadWrites

(* Nothing is written, no result is given.                                  *)
LEMMA NothingWritten ==
    ASSUME TxInv, WritesInv, \A i \in Made : i \in Made' /\ Told(i),
           \A i \in Made' : i \in Made \/ Len(tx'[i].results) = 0,
           recs' = recs, inflight' = inflight, clock' = clock,
           \A t \in Threads : ThreadWrites(t)', \A n \in 1 .. Len(queue'), i \in Made' : Queued(n, i)' => NoError(i)'
    PROVE  WritesInv'
<1>1. ASSUME NEW r \in recs, r.from > 0, r.from \notin inflight PROVE Reported(r)'
    <2>1. Reported(r)
        BY <1>1 DEF WritesInv
    <2> QED BY <2>1, ReportStays DEF Told
<1>2. ASSUME NEW i \in Made', NEW p \in 1 .. Len(tx'[i].results), tx'[i].results[p].op = "error"
      PROVE  p = Len(tx'[i].results)
    <2>1. CASE i \in Made
        BY <1>2, <2>1 DEF Told, WritesInv
    <2>2. CASE Len(tx'[i].results) = 0
        BY <2>2
    <2> QED BY <2>1, <2>2
<1> QED BY <1>1, <1>2 DEF WritesInv

(* One thread moves, the jobs in the queue wait.                            *)
LEMMA OthersWrite ==
    ASSUME TxInv, WritesInv, NEW t \in Threads, OthersStay(t), queue' = queue, clock' \in Nat, clock' >= clock,
           \A i \in Made : Has(t, i) \/ Told(i),
           \A r \in recs' : r.from = clock \/ \E q \in recs : q.key = r.key /\ q.from = r.from
    PROVE  /\ \A u \in Threads : u # t => ThreadWrites(u)'
           /\ \A n \in 1 .. Len(queue'), i \in Made' : Queued(n, i)' => NoError(i)'
<1>1. ASSUME NEW u \in Threads, u # t PROVE ThreadWrites(u)'
    <2>1. ThreadWrites(u) /\ th'[u] = th[u] /\ th[u].ver \in Nat /\ clock \in Nat
        BY <1>1, ThreadTypes DEF WritesInv, OthersStay, TxInv, TypeInv
    <2>2. \A i : Has(u, i) => i \in Made /\ Told(i)
        BY <1>1, Owners
    <2>3. th[u].pc = "commit" => Has(u, Cur(u))
        BY Owners DEF RunPCs
    <2> QED BY <2>1, <2>2, <2>3, ThreadWritesStay
<1>2. ASSUME NEW n \in 1 .. Len(queue), NEW i \in Made', Queued(n, i)' PROVE NoError(i)'
    <2>1. Queued(n, i)
        BY <1>2 DEF Queued
    <2>2. i \in Made /\ Told(i)
        BY <2>1, Owners
    <2>3. NoError(i)
        BY <2>1, <2>2 DEF WritesInv
    <2> QED BY <2>2, <2>3, TellsAsMuch
<1> QED BY <1>1, <1>2

(* The thread moves on, to anything but a commit.                           *)
LEMMA MoveWrites ==
    ASSUME TxInv, WritesInv, NEW t \in Threads, NEW x, th' = [th EXCEPT ![t] = x], x.pc # "commit",
           x.pc \notin {"deq", "unpin"} =>
               /\ th[t].pc # "unpin" \/ Len(x.ids) = 0
               /\ \A a \in 1 .. Len(x.ids) : Has(t, x.ids[a]) /\ (th[t].pc = "deq" => x.ids[a] # Cur(t)),
           x.pc = "deq" => th[t].pc \notin {"deq", "unpin"} /\ x.ids = th[t].ids,
           Made' = Made, \A j \in Made : tx'[j].script = tx[j].script /\ tx'[j].results = tx[j].results,
           UNCHANGED <<clock, inflight, recs, queue>>
    PROVE  WritesInv'
<1>1. TypeInv /\ ThreadWrites(t) /\ clock' \in Nat /\ clock' >= clock
    BY DEF TxInv, WritesInv, TypeInv
<1>2. th'[t] = x /\ OthersStay(t)
    BY <1>1 DEF TypeInv, OthersStay
<1>3. \A j \in Made : Told(j)
    BY DEF Told
<1>4. \A r \in recs' : \E q \in recs : q.key = r.key /\ q.from = r.from
    OBVIOUS
<1>5. ThreadWrites(t)'
    <2>1. \A j \in Made : NoError(j)' = NoError(j)
        BY <1>3, TellsAsMuch
    <2>2. ASSUME x.pc \notin {"deq", "unpin"}, NEW i \in Made, Has(t, i)' PROVE NoError(i)'
        <3>1. PICK a \in 1 .. Len(x.ids) : x.ids[a] = i
            BY <1>2, <2>2 DEF Has
        <3>2. th[t].pc # "unpin" /\ Has(t, i) /\ (th[t].pc = "deq" => i # Cur(t))
            BY <2>2, <3>1
        <3>3. NoError(i)
            BY <1>1, <3>2 DEF ThreadWrites
        <3> QED BY <2>1, <3>3
    <2>3. ASSUME x.pc = "deq", NEW i \in Made, Has(t, i)' PROVE NoError(i)'
        <3>1. Has(t, i) /\ th[t].pc \notin {"deq", "unpin"}
            BY <1>2, <2>3 DEF Has
        <3>2. NoError(i)
            BY <1>1, <3>1 DEF ThreadWrites
        <3> QED BY <2>1, <3>2
    <2> QED BY <1>2, <2>2, <2>3 DEF ThreadWrites
<1>6. /\ \A u \in Threads : u # t => ThreadWrites(u)'
      /\ \A n \in 1 .. Len(queue'), i \in Made' : Queued(n, i)' => NoError(i)'
    BY <1>1, <1>2, <1>3, <1>4, OthersWrite
<1>7. \A u \in Threads : ThreadWrites(u)'
    BY <1>5, <1>6
<1> QED BY <1>3, <1>6, <1>7, NothingWritten

(* The thread's transaction gets one more result.                           *)
LEMMA PushWrites ==
    ASSUME TxInv, WritesInv, NEW t \in Threads, NEW i \in Made, i = Cur(t), th[t].pc \in {"next", "read", "commit"},
           NEW x, th' = [th EXCEPT ![t] = x], x.pc \in {"next", "deq"}, x.ids = th[t].ids,
           NEW res \in Result, tx'[i].results = Append(tx[i].results, res), res.op = "error" => x.pc = "deq",
           Made' = Made, \A j \in Made : j # i => tx'[j] = tx[j],
           \A r \in recs : r.from \notin inflight' =>
               r.from \notin inflight \/ res = [op |-> "write", key |-> r.key, ver |-> r.from],
           UNCHANGED <<clock, recs, queue>>
    PROVE  WritesInv'
<1>1. TypeInv /\ ThreadWrites(t) /\ clock' \in Nat /\ clock' >= clock
    BY DEF TxInv, WritesInv, TypeInv
<1>2. th'[t] = x /\ OthersStay(t)
    BY <1>1 DEF TypeInv, OthersStay
<1>3. PICK q \in Seq(Result) : q = tx[i].results
    BY <1>1, TxTypes
<1>4. PICK m \in Seq(Result) : m = tx'[i].results
    BY <1>3, AppendType
<1>5. /\ Len(q) \in Nat /\ Len(m) = Len(q) + 1 /\ m[Len(m)] = res
      /\ \A p \in 1 .. Len(m) : p = Len(m) \/ p \in 1 .. Len(q)
      /\ \A p \in 1 .. Len(q) : p \in 1 .. Len(m) /\ m[p] = q[p]
    BY <1>3, <1>4
<1>6. Has(t, i) /\ \A j \in Made : Has(t, j) \/ Told(j)
    <2>1. Has(t, i)
        BY RunFacts DEF RunPCs
    <2> QED BY <2>1 DEF Told
<1>7. \A j : Has(t, j) => j \in Made /\ NoError(j)
    BY <1>1, Owners DEF ThreadWrites
<1>8. \A r \in recs' : \E p \in recs : p.key = r.key /\ p.from = r.from
    OBVIOUS
<1>9. /\ \A u \in Threads : u # t => ThreadWrites(u)'
      /\ \A n \in 1 .. Len(queue'), j \in Made' : Queued(n, j)' => NoError(j)'
    BY <1>1, <1>2, <1>6, <1>8, OthersWrite
<1>10. res.op # "error" => NoError(i)'
    BY <1>3, <1>4, <1>5, <1>6, <1>7 DEF NoError
<1>11. \A j \in Made : j # i /\ NoError(j) => NoError(j)'
    BY DEF NoError
<1>12. ThreadWrites(t)'
    <2>1. \A j : Has(t, j)' = Has(t, j)
        BY <1>2 DEF Has
    <2>2. Cur(t)' = i
        BY <1>2 DEF Cur
    <2>3. \A j \in Made' : Has(t, j)' /\ j # i => NoError(j)'
        BY <1>7, <1>11, <2>1
    <2>4. x.pc = "next" => \A j \in Made' : Has(t, j)' => NoError(j)'
        BY <1>10, <2>3
    <2> QED BY <1>2, <2>2, <2>3, <2>4 DEF ThreadWrites
<1>13. ASSUME NEW r \in recs, r.from > 0, r.from \notin inflight' PROVE Reported(r)'
    <2>1. CASE r.from \notin inflight
        <3>1. Reported(r)
            BY <1>13, <2>1 DEF WritesInv
        <3>2. ASSUME NEW j \in Made, NEW p \in 1 .. Len(tx[j].results)
              PROVE  p \in 1 .. Len(tx'[j].results) /\ tx'[j].results[p] = tx[j].results[p]
            BY <1>3, <1>4, <1>5
        <3> QED BY <3>1, <3>2, ReportStays
    <2>2. CASE res = [op |-> "write", key |-> r.key, ver |-> r.from]
        <3>1. Len(m) \in 1 .. Len(tx'[i].results) /\ tx'[i].results[Len(m)] = res
            BY <1>4, <1>5
        <3> QED BY <2>2, <3>1 DEF Reported
    <2> QED BY <1>13, <2>1, <2>2
<1>14. ASSUME NEW j \in Made', NEW p \in 1 .. Len(tx'[j].results), tx'[j].results[p].op = "error"
       PROVE  p = Len(tx'[j].results)
    <2>1. CASE j # i
        BY <1>14, <2>1 DEF WritesInv
    <2>2. CASE j = i
        <3>1. p \in 1 .. Len(m) /\ m[p].op = "error" /\ \A l \in 1 .. Len(q) : q[l].op # "error"
            BY <1>3, <1>4, <1>6, <1>7, <1>14, <2>2 DEF NoError
        <3> QED BY <1>4, <1>5, <2>2, <3>1
    <2> QED BY <2>1, <2>2
<1> QED BY <1>9, <1>12, <1>13, <1>14 DEF WritesInv

LEMMA WriteVoidWrites == ASSUME TxInv, WritesInv, NEW t \in Threads, WriteVoid(t) PROVE WritesInv'
<1>1. HasNext(t) /\ Op(Cur(t)).op \in WriteOps
    BY DEF WriteVoid, WriteOps
<1>2. Op(Cur(t)).key \in Keys /\ th[t].pc = "next" /\ th[t].pc \in RunPCs
    BY <1>1, OpFacts
<1>3. PICK res : res = [op |-> "void", key |-> Op(Cur(t)).key]
    OBVIOUS
<1>4. res \in Result /\ res.op # "error"
    <2>1. res \in [op : {"void"}, key : Keys]
        BY <1>2, <1>3
    <2> QED BY <1>3, <2>1 DEF Result, WriteResult
<1>5. Push(Cur(t), res) /\ UNCHANGED <<clockVars, treeVars, gcVars, pool, queue, iters, th, todo>>
    BY <1>3 DEF WriteVoid
<1>6. TypeInv /\ Cur(t) \in Made
    BY <1>2, RunFacts
<1>7. PICK i \in Made : i = Cur(t)
    BY <1>6
<1>8. /\ Made' = Made /\ \A j \in Made : j # i => tx'[j] = tx[j]
      /\ tx'[i].results = Append(tx[i].results, res)
    <2>1. tx[i] \in TxType /\ tx'[i] = [tx[i] EXCEPT !.results = Append(@, res)]
        BY <1>4, <1>5, <1>6, <1>7, PushFacts, TxTypes
    <2> QED BY <1>4, <1>5, <1>6, <1>7, <2>1, PushFacts DEF TxType
<1>9. PICK x : x = th[t] /\ th' = [th EXCEPT ![t] = x]
    BY <1>5, <1>6 DEF TypeInv
<1>10. clock' = clock /\ inflight' = inflight /\ recs' = recs /\ queue' = queue
    BY <1>5 DEF clockVars, treeVars
<1>11. x.pc = "next" /\ x.ids = th[t].ids /\ th' = [th EXCEPT ![t] = x]
    BY <1>2, <1>9
<1> QED BY <1>2, <1>4, <1>7, <1>8, <1>10, <1>11, PushWrites

LEMMA WriteEndWrites == ASSUME TxInv, WritesInv, NEW t \in Threads, WriteEnd(t) PROVE WritesInv'
<1>1. th[t].pc = "commit" /\ th[t].pc \in RunPCs /\ inflight' = inflight \ {th[t].ver} /\ clock' = clock
    BY DEF WriteEnd, RunPCs, Clock!Finish
<1>2. TypeInv /\ th[t] \in ThreadType /\ th[t].ver \in Nat /\ Cur(t) \in Made
    BY <1>1, RunFacts, ThreadTypes
<1>3. PICK i \in Made : i = Cur(t)
    BY <1>2
<1>4. PICK res : res = [op |-> "write", key |-> Op(i).key, ver |-> th[t].ver]
    OBVIOUS
<1>5. res \in Result /\ res.op # "error"
    <2>1. res \in [op : {"write"}, key : Keys, ver : Nat]
        BY <1>1, <1>2, <1>3, <1>4, CommitFacts
    <2> QED BY <1>4, <2>1 DEF Result, WriteResult
<1>6. Push(i, res) /\ UNCHANGED <<treeVars, queue>>
    BY <1>3, <1>4 DEF WriteEnd
<1>7. PICK x : x = [th[t] EXCEPT !.pc = "next", !.ver = 0]
    OBVIOUS
<1>8. x.pc = "next" /\ x.ids = th[t].ids
    BY <1>2, <1>7 DEF ThreadType
<1>9. th' = [th EXCEPT ![t] = x]
    BY <1>2, <1>7 DEF WriteEnd, TypeInv
<1>10. /\ Made' = Made /\ \A j \in Made : j # i => tx'[j] = tx[j]
       /\ tx'[i].results = Append(tx[i].results, res)
    <2>1. tx[i] \in TxType /\ tx'[i] = [tx[i] EXCEPT !.results = Append(@, res)]
        BY <1>2, <1>5, <1>6, PushFacts, TxTypes
    <2> QED BY <1>2, <1>5, <1>6, <2>1, PushFacts DEF TxType
<1>11. ASSUME NEW r \in recs, r.from \notin inflight', r.from \in inflight
       PROVE  res = [op |-> "write", key |-> r.key, ver |-> r.from]
    <2>1. r.from = th[t].ver
        BY <1>1, <1>11
    <2>2. r.key = Op(i).key
        BY <1>1, <1>3, <2>1 DEF WritesInv, ThreadWrites
    <2> QED BY <1>4, <2>1, <2>2
<1> QED BY <1>1, <1>3, <1>5, <1>6, <1>8, <1>9, <1>10, <1>11, PushWrites DEF treeVars

LEMMA ReadEndWrites == ASSUME TxInv, WritesInv, NEW t \in Threads, ReadEnd(t) PROVE WritesInv'
<1>1. /\ th[t].pc = "read" /\ th[t].pc \in RunPCs
      /\ UNCHANGED <<clockVars, treeVars, created, db_tracker, pins, pool, queue, iters, todo>>
    BY DEF ReadEnd, Goto, RunPCs
<1>2. TypeInv /\ th[t] \in ThreadType /\ th[t].snap \in Snapshots /\ Cur(t) \in Made
    BY <1>1, RunFacts
<1>3. PICK i \in Made : i = Cur(t)
    BY <1>2
<1>4. PICK f \in [Keys -> Int] : f = IF th[t].at < horizon THEN Lost ELSE Answer(th[t].snap)
    BY <1>2, FoundType DEF Lost
<1>5. PICK res : res = [op |-> "read", snap |-> th[t].snap, found |-> f]
    OBVIOUS
<1>6. res \in Result /\ res.op # "error"
    BY <1>2, <1>5 DEF Result, ReadResult
<1>7. Push(i, res)
    BY <1>3, <1>4, <1>5 DEF ReadEnd
<1>8. PICK x : x = [th[t] EXCEPT !.pc = "next"]
    OBVIOUS
<1>9. x.pc = "next" /\ x.ids = th[t].ids
    BY <1>2, <1>8 DEF ThreadType
<1>10. th' = [th EXCEPT ![t] = x]
    BY <1>2, <1>8 DEF ReadEnd, Goto, TypeInv
<1>11. /\ Made' = Made /\ \A j \in Made : j # i => tx'[j] = tx[j]
       /\ tx'[i].results = Append(tx[i].results, res)
    <2>1. tx[i] \in TxType /\ tx'[i] = [tx[i] EXCEPT !.results = Append(@, res)]
        BY <1>2, <1>6, <1>7, PushFacts, TxTypes
    <2> QED BY <1>2, <1>6, <1>7, <2>1, PushFacts DEF TxType
<1> QED BY <1>1, <1>3, <1>6, <1>9, <1>10, <1>11, PushWrites DEF clockVars, treeVars

LEMMA OpenIterWrites == ASSUME TxInv, WritesInv, NEW t \in Threads, OpenIter(t) PROVE WritesInv'
<1>1. /\ th[t].pc = "next" /\ th[t].pc \in RunPCs
      /\ UNCHANGED <<clockVars, treeVars, created, db_tracker, pins, pool, queue, th, todo>>
    BY DEF OpenIter, HasNext, RunPCs
<1>2. TypeInv /\ th[t] \in ThreadType /\ th[t].snap \in Snapshots /\ Cur(t) \in Made
    BY <1>1, RunFacts
<1>3. PICK i \in Made : i = Cur(t)
    BY <1>2
<1>4. PICK f \in [Keys -> Int] : f = Answer(th[t].snap)
    BY <1>2, FoundType
<1>5. PICK res : res = [op |-> "iter", snap |-> th[t].snap, found |-> f]
    OBVIOUS
<1>6. res \in Result /\ res.op # "error"
    BY <1>2, <1>5 DEF Result, ReadResult
<1>7. Push(i, res)
    BY <1>3, <1>4, <1>5 DEF OpenIter
<1>8. PICK x : x = th[t] /\ th' = [th EXCEPT ![t] = x]
    BY <1>1, <1>2 DEF TypeInv
<1>9. x.pc = "next" /\ x.ids = th[t].ids /\ th' = [th EXCEPT ![t] = x]
    BY <1>1, <1>8
<1>10. clock' = clock /\ inflight' = inflight /\ recs' = recs /\ queue' = queue
    BY <1>1 DEF clockVars, treeVars
<1>11. /\ Made' = Made /\ \A j \in Made : j # i => tx'[j] = tx[j]
       /\ tx'[i].results = Append(tx[i].results, res)
    <2>1. tx[i] \in TxType /\ tx'[i] = [tx[i] EXCEPT !.results = Append(@, res)]
        BY <1>2, <1>6, <1>7, PushFacts, TxTypes
    <2> QED BY <1>2, <1>6, <1>7, <2>1, PushFacts DEF TxType
<1>12. th[t].pc \in {"next", "read", "commit"}
    BY <1>1
<1> QED BY <1>3, <1>6, <1>9, <1>10, <1>11, <1>12, PushWrites

LEMMA FailWrites == ASSUME TxInv, WritesInv, NEW t \in Threads, Fail(t) PROVE WritesInv'
<1>1. /\ th[t].pc = "next" /\ th[t].pc \in RunPCs /\ Goto(t, "next", "deq")
      /\ UNCHANGED <<clockVars, treeVars, gcVars, pool, queue, iters, todo>>
    BY DEF Fail, HasNext, RunPCs
<1>2. Cur(t) \in Made /\ TypeInv /\ th[t] \in ThreadType
    BY <1>1, RunFacts
<1>3. PICK i \in Made : i = Cur(t)
    BY <1>2
<1>4. tx[i] \in TxType /\ tx[i].results \in Seq(Result)
    BY <1>2, TxTypes
<1>5. PICK res \in Result : res = [op |-> "error"]
    BY DEF Result
<1>6. PICK more \in Seq(Result) : more = Append(tx[i].results, res)
    BY <1>4, AppendType
<1>7. PICK y : y = [tx[i] EXCEPT !.results = more, !.stage = "failed"]
    OBVIOUS
<1>8. y \in TxType /\ y.results = more
    BY <1>4, <1>7 DEF TxType
<1>9. tx' = [tx EXCEPT ![i] = y]
    BY <1>2, <1>3, <1>5, <1>6, <1>7 DEF Fail, TypeInv, Made
<1>10. Made' = Made /\ tx'[i] = y /\ \A j \in Made : j # i => tx'[j] = tx[j]
    BY <1>2, <1>8, <1>9, TxUpdate
<1>11. PICK x : x = [th[t] EXCEPT !.pc = "deq"]
    OBVIOUS
<1>12. x.pc = "deq" /\ x.ids = th[t].ids
    BY <1>2, <1>11 DEF ThreadType
<1>13. th' = [th EXCEPT ![t] = x]
    BY <1>1, <1>2, <1>11 DEF Goto, TypeInv
<1>14. tx'[i].results = Append(tx[i].results, res)
    BY <1>6, <1>8, <1>10
<1> QED BY <1>1, <1>3, <1>10, <1>12, <1>13, <1>14, PushWrites DEF clockVars, treeVars

LEMMA CompleteWrites == ASSUME TxInv, WritesInv, NEW t \in Threads, Complete(t) PROVE WritesInv'
<1>1. /\ th[t].pc = "next" /\ th[t].pc \in RunPCs /\ Goto(t, "next", "deq")
      /\ UNCHANGED <<clockVars, treeVars, gcVars, pool, queue, iters, todo>>
    BY DEF Complete, RunPCs
<1>2. Cur(t) \in Made /\ TypeInv /\ th[t] \in ThreadType
    BY <1>1, RunFacts
<1>3. PICK i \in Made : i = Cur(t)
    BY <1>2
<1>4. tx[i] \in TxType
    BY <1>2, TxTypes
<1>5. PICK y : y = [tx[i] EXCEPT !.stage = "ok"]
    OBVIOUS
<1>6. y \in TxType /\ y.results = tx[i].results /\ y.script = tx[i].script
    BY <1>4, <1>5 DEF TxType
<1>7. tx' = [tx EXCEPT ![i] = y]
    BY <1>3, <1>5 DEF Complete
<1>8. Made' = Made /\ \A j \in Made : tx'[j].script = tx[j].script /\ tx'[j].results = tx[j].results
    BY <1>2, <1>6, <1>7, TxUpdate
<1>9. PICK x : x = [th[t] EXCEPT !.pc = "deq"]
    OBVIOUS
<1>10. x.pc = "deq" /\ x.ids = th[t].ids
    BY <1>2, <1>9 DEF ThreadType
<1>11. th' = [th EXCEPT ![t] = x]
    BY <1>1, <1>2, <1>9 DEF Goto, TypeInv
<1> QED BY <1>1, <1>8, <1>10, <1>11, MoveWrites DEF clockVars, treeVars

(* A thread that keeps its transactions and gives no result.                *)
LEMMA KeepWrites ==
    ASSUME TxInv, WritesInv, NEW t \in Threads, NEW x, th' = [th EXCEPT ![t] = x], x.pc \notin {"commit", "deq"},
           th[t].pc \notin {"deq", "unpin"}, x.ids = th[t].ids,
           Made' = Made, \A j \in Made : tx'[j].script = tx[j].script /\ tx'[j].results = tx[j].results,
           UNCHANGED <<clock, inflight, recs, queue>>
    PROVE  WritesInv'
<1>1. \A a \in 1 .. Len(x.ids) : Has(t, x.ids[a])
    BY DEF Has
<1> QED BY <1>1, MoveWrites

LEMMA DispatchWrites == ASSUME TxInv, WritesInv, NEW t \in Threads, Dispatch(t) PROVE WritesInv'
<1>1. th[t].pc = "begin" /\ UNCHANGED <<clockVars, treeVars, gcVars, pool, queue, tx, iters, todo>>
    BY DEF Dispatch
<1>2. TypeInv /\ th[t] \in ThreadType
    BY ThreadTypes DEF TxInv
<1>3. PICK x : x = [th[t] EXCEPT !.pc = "next", !.snap = Isolation(Cur(t))]
    OBVIOUS
<1>4. x.pc = "next" /\ x.ids = th[t].ids
    BY <1>2, <1>3 DEF ThreadType
<1>5. th' = [th EXCEPT ![t] = x]
    BY <1>2, <1>3 DEF Dispatch, TypeInv
<1>6. Made' = Made /\ \A j \in Made : tx'[j] = tx[j]
    BY <1>1 DEF Made
<1> QED BY <1>1, <1>4, <1>5, <1>6, KeepWrites DEF clockVars, treeVars

LEMMA ReadStartWrites == ASSUME TxInv, WritesInv, NEW t \in Threads, ReadStart(t) PROVE WritesInv'
<1>1. /\ th[t].pc = "next"
      /\ UNCHANGED <<clockVars, treeVars, created, db_tracker, pins, pool, queue, tx, iters, todo>>
    BY DEF ReadStart, HasNext
<1>2. TypeInv /\ th[t] \in ThreadType
    BY ThreadTypes DEF TxInv
<1>3. PICK v : v = Walked(th[t].snap)
    OBVIOUS
<1>4. PICK x : x = [th[t] EXCEPT !.pc = "read", !.at = v]
    OBVIOUS
<1>5. x.pc = "read" /\ x.ids = th[t].ids
    BY <1>2, <1>4 DEF ThreadType
<1>6. th' = [th EXCEPT ![t] = x]
    BY <1>2, <1>3, <1>4 DEF ReadStart, TypeInv
<1>7. Made' = Made /\ \A j \in Made : tx'[j] = tx[j]
    BY <1>1 DEF Made
<1> QED BY <1>1, <1>5, <1>6, <1>7, KeepWrites DEF clockVars, treeVars

LEMMA PinReaderWrites == ASSUME TxInv, WritesInv, NEW c \in Callers, PinReader(c) PROVE WritesInv'
<1>1. /\ th[c].pc = "pin"
      /\ UNCHANGED <<clockVars, treeVars, created, db_tracker, registered, pool, queue, tx, iters, todo>>
    BY DEF PinReader
<1>2. c \in Threads /\ TypeInv /\ th[c] \in ThreadType
    BY CallerFacts
<1>3. PICK x : x = [th[c] EXCEPT !.pc = "draw", !.pin = wm]
    OBVIOUS
<1>4. x.pc = "draw" /\ x.ids = th[c].ids
    BY <1>2, <1>3 DEF ThreadType
<1>5. th' = [th EXCEPT ![c] = x]
    BY <1>2, <1>3 DEF PinReader, TypeInv
<1>6. Made' = Made /\ \A j \in Made : tx'[j] = tx[j]
    BY <1>1 DEF Made
<1> QED BY <1>1, <1>2, <1>4, <1>5, <1>6, KeepWrites DEF clockVars, treeVars

LEMMA DrawSnapshotWrites == ASSUME TxInv, WritesInv, NEW c \in Callers, DrawSnapshot(c) PROVE WritesInv'
<1>1. /\ th[c].pc = "draw" /\ Goto(c, "draw", "submit") /\ tx' = [tx EXCEPT ![Cur(c)].snap = wm]
      /\ UNCHANGED <<clockVars, treeVars, gcVars, pool, queue, iters, todo>>
    BY DEF DrawSnapshot, Goto
<1>2. c \in Threads /\ TypeInv /\ ThreadAt(c) /\ th[c] \in ThreadType
    BY CallerFacts
<1>3. PICK i \in Made : i = Cur(c)
    <2>1. Len(th[c].ids) >= 1
        BY <1>1, <1>2 DEF ThreadAt
    <2> QED BY <1>2, <2>1, Owners
<1>4. PICK s \in 0 .. Latest : s = wm
    BY <1>2, Bounds DEF TypeInv
<1>5. tx[i] \in TxType
    BY <1>2, TxTypes
<1>6. PICK y : y = [tx[i] EXCEPT !.snap = s]
    OBVIOUS
<1>7. y \in TxType /\ y.results = tx[i].results /\ y.script = tx[i].script
    BY <1>5, <1>6 DEF TxType
<1>8. tx' = [tx EXCEPT ![i] = y]
    BY <1>1, <1>3, <1>4, <1>6
<1>9. Made' = Made /\ \A j \in Made : tx'[j].script = tx[j].script /\ tx'[j].results = tx[j].results
    BY <1>2, <1>7, <1>8, TxUpdate
<1>10. PICK x : x = [th[c] EXCEPT !.pc = "submit"]
    OBVIOUS
<1>11. x.pc = "submit" /\ x.ids = th[c].ids
    BY <1>2, <1>10 DEF ThreadType
<1>12. th' = [th EXCEPT ![c] = x]
    BY <1>1, <1>2, <1>10 DEF Goto, TypeInv
<1> QED BY <1>1, <1>2, <1>9, <1>11, <1>12, KeepWrites DEF clockVars, treeVars

LEMMA ExecuteOnCallerThreadWrites ==
    ASSUME TxInv, WritesInv, NEW c \in Callers, ExecuteOnCallerThread(c) PROVE WritesInv'
<1>1. /\ th[c].pc = "submit" /\ Goto(c, "submit", "begin")
      /\ UNCHANGED <<clockVars, treeVars, gcVars, pool, queue, tx, iters, todo>>
    BY DEF ExecuteOnCallerThread, Goto
<1>2. c \in Threads /\ TypeInv /\ th[c] \in ThreadType
    BY CallerFacts
<1>3. PICK x : x = [th[c] EXCEPT !.pc = "begin"]
    OBVIOUS
<1>4. x.pc = "begin" /\ x.ids = th[c].ids
    BY <1>2, <1>3 DEF ThreadType
<1>5. th' = [th EXCEPT ![c] = x]
    BY <1>1, <1>2, <1>3 DEF Goto, TypeInv
<1>6. Made' = Made /\ \A j \in Made : tx'[j] = tx[j]
    BY <1>1 DEF Made
<1> QED BY <1>1, <1>2, <1>4, <1>5, <1>6, KeepWrites DEF clockVars, treeVars

LEMMA EnqBookkeepingWrites == ASSUME TxInv, WritesInv, NEW c \in Callers, EnqBookkeeping(c) PROVE WritesInv'
<1>1. /\ th[c].pc = "submit" /\ Goto(c, "submit", "send")
      /\ UNCHANGED <<clockVars, treeVars, created, db_tracker, pins, pool, queue, iters, todo>>
    BY DEF EnqBookkeeping, Goto
<1>2. c \in Threads /\ TypeInv /\ ThreadAt(c) /\ th[c] \in ThreadType
    BY CallerFacts
<1>3. PICK i \in Made : i = Cur(c)
    <2>1. Len(th[c].ids) >= 1
        BY <1>1, <1>2 DEF ThreadAt
    <2> QED BY <1>2, <2>1, Owners
<1>4. tx' = tx \/ tx' = [tx EXCEPT ![i].held = db_tracker]
    BY <1>3 DEF EnqBookkeeping
<1>5. Made' = Made /\ \A j \in Made : tx'[j].script = tx[j].script /\ tx'[j].results = tx[j].results
    <2>1. CASE tx' = tx
        BY <2>1 DEF Made
    <2>2. CASE tx' = [tx EXCEPT ![i].held = db_tracker]
        BY <1>2, <2>2, HoldKeeps
    <2> QED BY <1>4, <2>1, <2>2
<1>6. PICK x : x = [th[c] EXCEPT !.pc = "send"]
    OBVIOUS
<1>7. x.pc = "send" /\ x.ids = th[c].ids
    BY <1>2, <1>6 DEF ThreadType
<1>8. th' = [th EXCEPT ![c] = x]
    BY <1>1, <1>2, <1>6 DEF Goto, TypeInv
<1> QED BY <1>1, <1>2, <1>5, <1>7, <1>8, KeepWrites DEF clockVars, treeVars

LEMMA EnqInBatchWrites == ASSUME TxInv, WritesInv, NEW w \in Workers, EnqInBatch(w) PROVE WritesInv'
<1>1. /\ th[w].pc = "enq" /\ Goto(w, "enq", "begin")
      /\ UNCHANGED <<clockVars, treeVars, created, db_tracker, pins, pool, queue, iters, todo>>
    BY DEF EnqInBatch, Goto
<1>2. w \in Threads /\ TypeInv /\ ThreadAt(w) /\ th[w] \in ThreadType
    BY Bounds, ThreadTypes DEF TxInv
<1>3. PICK i \in Made : i = Cur(w)
    <2>1. Len(th[w].ids) >= 1
        BY <1>1, <1>2 DEF ThreadAt
    <2> QED BY <1>2, <2>1, Owners
<1>4. tx' = tx \/ tx' = [tx EXCEPT ![i].held = th[w].trk]
    BY <1>3 DEF EnqInBatch
<1>5. Made' = Made /\ \A j \in Made : tx'[j].script = tx[j].script /\ tx'[j].results = tx[j].results
    <2>1. CASE tx' = tx
        BY <2>1 DEF Made
    <2>2. CASE tx' = [tx EXCEPT ![i].held = th[w].trk]
        BY <1>2, <2>2, HoldKeeps
    <2> QED BY <1>4, <2>1, <2>2
<1>6. PICK x : x = [th[w] EXCEPT !.pc = "begin"]
    OBVIOUS
<1>7. x.pc = "begin" /\ x.ids = th[w].ids
    BY <1>2, <1>6 DEF ThreadType
<1>8. th' = [th EXCEPT ![w] = x]
    BY <1>1, <1>2, <1>6 DEF Goto, TypeInv
<1> QED BY <1>1, <1>2, <1>5, <1>7, <1>8, KeepWrites DEF clockVars, treeVars

LEMMA ReturnWrites == ASSUME TxInv, WritesInv, NEW c \in Callers, Return(c) PROVE WritesInv'
<1>1. /\ th' = [th EXCEPT ![c] = Idle]
      /\ UNCHANGED <<clockVars, treeVars, created, db_tracker, registered, pool, queue, tx, iters, todo>>
    BY DEF Return
<1>2. PICK x : x = Idle
    OBVIOUS
<1>3. x.pc = "idle" /\ x.ids = <<>> /\ th' = [th EXCEPT ![c] = x] /\ c \in Threads
    BY <1>1, <1>2, IdleType, Bounds
<1>4. Len(x.ids) = 0 /\ \A a \in 1 .. Len(x.ids) : FALSE
    BY <1>3
<1>5. Made' = Made /\ \A j \in Made : tx'[j] = tx[j]
    BY <1>1 DEF Made
<1>6. UNCHANGED <<clock, inflight, recs, queue>>
    BY <1>1 DEF clockVars, treeVars
<1> QED BY <1>3, <1>4, <1>5, <1>6, MoveWrites

LEMMA DeqWrites == ASSUME TxInv, WritesInv, NEW t \in Threads, DeqBookkeeping(t) PROVE WritesInv'
<1>1. /\ th[t].pc = "deq" /\ th[t].pc \in RunPCs
      /\ UNCHANGED <<clockVars, treeVars, created, db_tracker, pins, pool, queue, iters, todo>>
    BY DEF DeqBookkeeping, RunPCs
<1>2. /\ TypeInv /\ PlaceInv /\ th[t] \in ThreadType /\ th[t].ids \in Seq(Nat) /\ Cur(t) \in Made
      /\ Len(th[t].ids) >= 1
    BY <1>1, RunFacts, ThreadTypes DEF TxInv
<1>3. PICK i \in Made : i = Cur(t)
    BY <1>2
<1>4. tx' = [tx EXCEPT ![i].held = 0]
    BY <1>3 DEF DeqBookkeeping
<1>5. Made' = Made /\ \A j \in Made : tx'[j].script = tx[j].script /\ tx'[j].results = tx[j].results
    BY <1>2, <1>4, HoldKeeps
<1>6. PICK me \in ThreadType : me = th[t]
    BY <1>2
<1>7. PICK x : /\ th' = [th EXCEPT ![t] = x]
               /\ x = IF t \in Callers THEN [me EXCEPT !.pc = "unpin"]
                      ELSE IF Len(th[t].ids) > 1 THEN [me EXCEPT !.pc = "enq", !.ids = Tail(th[t].ids)] ELSE Idle
    BY <1>2, <1>6 DEF DeqBookkeeping, TypeInv
<1>8. CASE t \in Callers
    <2>1. x.pc = "unpin"
        BY <1>6, <1>7, <1>8 DEF ThreadType
    <2> QED BY <1>1, <1>5, <1>7, <2>1, MoveWrites DEF clockVars, treeVars
<1>9. CASE t \notin Callers /\ ~(Len(th[t].ids) > 1)
    <2>1. x.pc = "idle" /\ x.ids = <<>>
        BY <1>7, <1>9, IdleType
    <2>2. Len(x.ids) = 0 /\ \A a \in 1 .. Len(x.ids) : FALSE
        BY <2>1
    <2> QED BY <1>1, <1>5, <1>7, <2>1, <2>2, MoveWrites DEF clockVars, treeVars
<1>10. CASE t \notin Callers /\ Len(th[t].ids) > 1
    <2>1. PICK q \in Seq(Nat) : q = th[t].ids
        BY <1>2
    <2>2. q # <<>> /\ Len(q) \in Nat
        BY <1>10, <2>1
    <2>3. Tail(q) \in Seq(Nat) /\ Len(Tail(q)) = Len(q) - 1 /\ \A a \in 1 .. Len(Tail(q)) : Tail(q)[a] = q[a + 1]
        BY <2>2
    <2>4. x.pc = "enq" /\ x.ids = Tail(q)
        BY <1>6, <1>7, <1>10, <2>1 DEF ThreadType
    <2>5. \A a \in 1 .. Len(x.ids) : Has(t, x.ids[a]) /\ x.ids[a] # Cur(t)
        <3> SUFFICES ASSUME NEW a \in 1 .. Len(Tail(q)) PROVE Has(t, Tail(q)[a]) /\ Tail(q)[a] # Cur(t)
            BY <2>4
        <3>1. a + 1 \in 1 .. Len(q) /\ a + 1 \in 2 .. Len(q) /\ Tail(q)[a] = q[a + 1]
            BY <2>2, <2>3
        <3> QED BY <1>2, <2>1, <3>1, CurFacts DEF Has
    <2> QED BY <1>1, <1>5, <1>7, <2>4, <2>5, MoveWrites DEF clockVars, treeVars
<1> QED BY <1>8, <1>9, <1>10

(* A commit starts: its record bears a version that no other has.           *)
LEMMA WriteStartWrites == ASSUME TxInv, WritesInv, NEW t \in Threads, WriteStart(t) PROVE WritesInv'
<1>1. /\ HasNext(t) /\ clock' = clock + 1 /\ inflight' = inflight \cup {clock}
      /\ UNCHANGED <<queue, tx>>
    BY DEF WriteStart, Clock!Begin
<1>2. th[t].pc = "next" /\ th[t].pc \in RunPCs
    BY <1>1 DEF HasNext, RunPCs
<1>3. TypeInv /\ th[t] \in ThreadType /\ Cur(t) \in Made
    BY <1>2, RunFacts
<1>4. PICK i \in Made : i = Cur(t)
    BY <1>3
<1>5. ASSUME NEW r \in recs'
      PROVE  (r.from = clock /\ r.key = Op(i).key) \/ \E q \in recs : q.key = r.key /\ q.from = r.from
    <2>1. PICK k : k = Op(i).key
        OBVIOUS
    <2>2. PICK new : new = [key |-> k, from |-> clock, to |-> Latest]
        OBVIOUS
    <2>3. ASSUME NEW q \in recs, r = [q EXCEPT !.to = clock]
          PROVE  q.key = r.key /\ q.from = r.from
        <3>1. q \in RecType
            BY <1>3 DEF TypeInv
        <3> QED BY <2>3, <3>1 DEF RecType
    <2>4. r \in recs \/ r = new \/ (IsLive(k) /\ r = [LiveRec(k) EXCEPT !.to = clock])
        BY <1>4, <2>1, <2>2 DEF WriteStart
    <2>5. IsLive(k) => LiveRec(k) \in recs
        BY DEF IsLive, LiveRec
    <2> QED BY <2>1, <2>2, <2>3, <2>4, <2>5
<1>6. clock \in Nat /\ clock' \in Nat /\ clock' >= clock /\ clock < clock' /\ \A r \in recs : r.from # clock
    BY <1>1, <1>3 DEF TypeInv, RecType
<1>7. PICK x : x = [th[t] EXCEPT !.pc = "commit", !.ver = clock]
    OBVIOUS
<1>8. x.pc = "commit" /\ x.ids = th[t].ids /\ x.ver = clock
    BY <1>3, <1>7 DEF ThreadType
<1>9. th'[t] = x /\ OthersStay(t)
    BY <1>3, <1>7 DEF WriteStart, TypeInv, OthersStay
<1>10. Made' = Made /\ \A j \in Made : Told(j)
    BY <1>1 DEF Made, Told
<1>11. /\ \A u \in Threads : u # t => ThreadWrites(u)'
       /\ \A n \in 1 .. Len(queue'), j \in Made' : Queued(n, j)' => NoError(j)'
    BY <1>1, <1>5, <1>6, <1>9, <1>10, OthersWrite
<1>12. ThreadWrites(t)'
    <2>1. \A j \in Made : NoError(j)' = NoError(j) /\ Op(j)' = Op(j)
        BY <1>10, TellsAsMuch
    <2>2. Cur(t)' = i /\ \A j : Has(t, j)' = Has(t, j)
        BY <1>4, <1>8, <1>9 DEF Cur, Has
    <2>3. \A j \in Made : Has(t, j) => NoError(j)
        BY <1>2 DEF WritesInv, ThreadWrites
    <2>4. \A r \in recs' : r.from = clock => r.key = Op(i)'.key
        BY <1>5, <1>6, <2>1
    <2> QED BY <1>6, <1>8, <1>9, <1>10, <2>1, <2>2, <2>3, <2>4 DEF ThreadWrites
<1>13. ASSUME NEW r \in recs', r.from > 0, r.from \notin inflight' PROVE Reported(r)'
    <2>1. r.from # clock /\ r.from \notin inflight
        BY <1>1, <1>13
    <2>2. PICK q \in recs : q.key = r.key /\ q.from = r.from
        BY <1>5, <2>1
    <2>3. Reported(q)
        BY <1>13, <2>1, <2>2 DEF WritesInv
    <2>4. Reported(r)
        BY <2>2, <2>3 DEF Reported
    <2> QED BY <1>10, <2>4, ReportStays DEF Told
<1>14. \A j \in Made' : \A p \in 1 .. Len(tx'[j].results) :
           tx'[j].results[p].op = "error" => p = Len(tx'[j].results)
    BY <1>1, <1>10 DEF WritesInv
<1> QED BY <1>11, <1>12, <1>13, <1>14 DEF WritesInv

(* A new transaction has no results.                                        *)
LEMMA NewWrites ==
    ASSUME TxInv, WritesInv, NEW c \in Threads, NEW e, Len(e.results) = 0, NEW m,
           Made' = Made \cup {m}, tx'[m] = e, \A i \in Made : tx'[i] = tx[i],
           NEW x, th' = [th EXCEPT ![c] = x], x.pc \notin {"commit", "deq"},
           \A a \in 1 .. Len(x.ids) : Has(c, x.ids[a]) \/ x.ids[a] = m,
           th[c].pc \in {"idle", "submit"},
           UNCHANGED <<clock, inflight, recs, queue>>
    PROVE  WritesInv'
<1>1. TypeInv /\ ThreadWrites(c) /\ clock' \in Nat /\ clock' >= clock
    BY DEF TxInv, WritesInv, TypeInv
<1>2. th'[c] = x /\ OthersStay(c)
    BY <1>1 DEF TypeInv, OthersStay
<1>3. \A j \in Made : Told(j)
    BY DEF Told
<1>4. \A r \in recs' : \E q \in recs : q.key = r.key /\ q.from = r.from
    OBVIOUS
<1>5. /\ \A u \in Threads : u # c => ThreadWrites(u)'
      /\ \A n \in 1 .. Len(queue'), i \in Made' : Queued(n, i)' => NoError(i)'
    BY <1>1, <1>2, <1>3, <1>4, OthersWrite
<1>6. ASSUME NEW i, Has(c, i)' PROVE NoError(i)'
    <2>1. Has(c, i) \/ i = m
        BY <1>2, <1>6 DEF Has
    <2>2. CASE i = m
        BY <2>2 DEF NoError
    <2>3. CASE Has(c, i)
        <3>1. i \in Made
            BY <2>3, Owners
        <3>2. NoError(i)
            BY <1>1, <2>3, <3>1 DEF ThreadWrites
        <3> QED BY <1>3, <3>1, <3>2, TellsAsMuch
    <2> QED BY <2>1, <2>2, <2>3
<1>7. ThreadWrites(c)'
    BY <1>2, <1>6 DEF ThreadWrites
<1>8. \A u \in Threads : ThreadWrites(u)'
    BY <1>5, <1>7
<1>9. \A i \in Made' : i \in Made \/ Len(tx'[i].results) = 0
    OBVIOUS
<1> QED BY <1>3, <1>5, <1>8, <1>9, NothingWritten

LEMMA CallWrites == ASSUME TxInv, WritesInv, NEW c \in Callers, Call(c) PROVE WritesInv'
<1>1. th[c].pc = "idle" /\ todo # <<>> /\ UNCHANGED <<clockVars, treeVars, gcVars, pool, queue, iters>>
    BY DEF Call
<1>2. /\ c \in Threads /\ TypeInv /\ th[c] \in ThreadType /\ todo \in Seq(Calls)
    BY CallerFacts
<1>3. PICK call \in Calls : call = Head(todo)
    BY <1>1, <1>2
<1>4. PICK e \in TxType : e = NewTx(call, NoSnap) /\ e.held = 0
    <2>1. NoSnap \in 0 .. Latest
        BY Bounds DEF NoSnap
    <2> QED BY <2>1, NewTxType
<1>5. Len(e.results) = 0
    BY <1>4 DEF NewTx
<1>6. tx' = Append(tx, e)
    BY <1>3, <1>4 DEF Call
<1>7. PICK m \in Nat : m = Len(tx) + 1
    BY <1>2 DEF TypeInv
<1>8. Made' = Made \cup {m} /\ tx'[m] = e /\ \A i \in Made : tx'[i] = tx[i]
    BY <1>2, <1>4, <1>6, <1>7, AppendTx
<1>9. PICK p \in {"pin", "submit"} : p = IF call.snapped THEN "pin" ELSE "submit"
    OBVIOUS
<1>10. PICK x : x = [th[c] EXCEPT !.pc = p, !.ids = <<m>>, !.via = call.via]
    OBVIOUS
<1>11. x.pc = p /\ x.ids = <<m>>
    BY <1>2, <1>10 DEF ThreadType
<1>12. x.pc \notin {"commit", "deq"} /\ \A a \in 1 .. Len(x.ids) : x.ids[a] = m
    BY <1>9, <1>11
<1>13. th' = [th EXCEPT ![c] = x]
    BY <1>2, <1>3, <1>7, <1>9, <1>10 DEF Call, TypeInv
<1> QED BY <1>1, <1>2, <1>5, <1>8, <1>12, <1>13, NewWrites DEF clockVars, treeVars

LEMMA AddToBatchWrites == ASSUME TxInv, WritesInv, NEW c \in Callers, AddToBatch(c) PROVE WritesInv'
<1>1. th[c].pc = "submit" /\ todo # <<>> /\ UNCHANGED <<clockVars, treeVars, gcVars, pool, queue, iters>>
    BY DEF AddToBatch
<1>2. /\ c \in Threads /\ TypeInv /\ ThreadAt(c) /\ th[c] \in ThreadType /\ th[c].ids \in Seq(Nat) /\ todo \in Seq(Calls)
    BY CallerFacts
<1>3. PICK call \in Calls : call = Head(todo)
    BY <1>1, <1>2
<1>4. PICK cur \in Made : cur = Cur(c)
    <2>1. Len(th[c].ids) >= 1
        BY <1>1, <1>2 DEF ThreadAt
    <2> QED BY <1>2, <2>1, Owners
<1>5. PICK e \in TxType : e = NewTx(call, tx[cur].snap) /\ e.held = 0
    BY <1>2, TxTypes, NewTxType
<1>6. Len(e.results) = 0
    BY <1>5 DEF NewTx
<1>7. tx' = Append(tx, e)
    BY <1>3, <1>4, <1>5 DEF AddToBatch
<1>8. PICK m \in Nat : m = Len(tx) + 1
    BY <1>2 DEF TypeInv
<1>9. Made' = Made \cup {m} /\ tx'[m] = e /\ \A i \in Made : tx'[i] = tx[i]
    BY <1>2, <1>5, <1>7, <1>8, AppendTx
<1>10. PICK old \in Seq(Nat) : old = th[c].ids
    BY <1>2
<1>11. PICK ids \in Seq(Nat) : ids = Append(old, m)
    BY AppendType
<1>12. \A a \in 1 .. Len(ids) : (a \in 1 .. Len(old) /\ ids[a] = old[a]) \/ ids[a] = m
    BY <1>11
<1>13. PICK x : x = [th[c] EXCEPT !.ids = ids]
    OBVIOUS
<1>14. x.pc = "submit" /\ x.ids = ids
    BY <1>1, <1>2, <1>13 DEF ThreadType
<1>15. th' = [th EXCEPT ![c] = x]
    BY <1>2, <1>8, <1>10, <1>11, <1>13 DEF AddToBatch, TypeInv
<1>16. \A a \in 1 .. Len(x.ids) : Has(c, x.ids[a]) \/ x.ids[a] = m
    BY <1>10, <1>12, <1>14 DEF Has
<1> QED BY <1>1, <1>2, <1>6, <1>9, <1>14, <1>15, <1>16, NewWrites DEF clockVars, treeVars

(* Transactions move between one thread and the queue.                      *)
LEMMA QueueWrites ==
    ASSUME TxInv, WritesInv, NEW t \in Threads, OthersStay(t), ThreadWrites(t)',
           \A n \in 1 .. Len(queue') : \A i \in Made : Queued(n, i)' => NoError(i),
           UNCHANGED <<clock, inflight, recs, tx>>
    PROVE  WritesInv'
<1>1. Made' = Made /\ \A i \in Made : Told(i)
    BY DEF Made, Told
<1>2. \A i \in Made : NoError(i)' = NoError(i)
    BY <1>1, TellsAsMuch
<1>3. ASSUME NEW u \in Threads, u # t PROVE ThreadWrites(u)'
    <2>1. ThreadWrites(u) /\ th'[u] = th[u] /\ th[u].ver \in Nat /\ clock \in Nat /\ clock' \in Nat /\ clock' >= clock
        BY <1>3, ThreadTypes DEF WritesInv, OthersStay, TxInv, TypeInv
    <2>2. \A i : Has(u, i) => i \in Made /\ Told(i)
        BY <1>1, Owners
    <2>3. th[u].pc = "commit" => Has(u, Cur(u))
        BY Owners DEF RunPCs
    <2>4. \A r \in recs' : \E q \in recs : q.key = r.key /\ q.from = r.from
        OBVIOUS
    <2> QED BY <2>1, <2>2, <2>3, <2>4, ThreadWritesStay
<1>4. \A n \in 1 .. Len(queue'), i \in Made' : Queued(n, i)' => NoError(i)'
    BY <1>1, <1>2
<1>5. \A u \in Threads : ThreadWrites(u)'
    BY <1>3
<1> QED BY <1>1, <1>4, <1>5, NothingWritten

LEMMA SendWrites == ASSUME TxInv, WritesInv, NEW c \in Callers, Send(c) PROVE WritesInv'
<1>1. /\ th[c].pc \in {"send", "submit"}
      /\ UNCHANGED <<clockVars, treeVars, gcVars, pool, tx, iters, todo>>
    BY DEF Send
<1>2. c \in Threads /\ TypeInv /\ th[c] \in ThreadType /\ ThreadWrites(c)
    BY CallerFacts DEF WritesInv
<1>3. PICK job : job = [ids |-> th[c].ids, via |-> th[c].via, trk |-> db_tracker]
    OBVIOUS
<1>4. PICK N \in Nat : N = Len(queue)
    BY <1>2 DEF TypeInv
<1>5. queue' = Append(queue, job) /\ queue \in Seq(JobType)
    BY <1>2, <1>3 DEF Send, TypeInv
<1>6. /\ Len(queue') = N + 1 /\ queue'[N + 1] = job /\ \A n \in 1 .. N : queue'[n] = queue[n]
      /\ \A n \in 1 .. Len(queue') : n \in 1 .. N \/ n = N + 1
    BY <1>4, <1>5
<1>7. PICK x : x = [th[c] EXCEPT !.pc = "unpin", !.ids = <<>>]
    OBVIOUS
<1>8. x.pc = "unpin"
    BY <1>2, <1>7 DEF ThreadType
<1>9. th' = [th EXCEPT ![c] = x]
    BY <1>2, <1>7 DEF Send, TypeInv
<1>10. th'[c] = x /\ OthersStay(c)
    BY <1>2, <1>9 DEF TypeInv, OthersStay
<1>11. ThreadWrites(c)'
    BY <1>8, <1>10 DEF ThreadWrites
<1>12. ASSUME NEW n \in 1 .. Len(queue'), NEW i \in Made, Queued(n, i)' PROVE NoError(i)
    <2>1. CASE n \in 1 .. N
        <3>1. n \in 1 .. Len(queue) /\ Queued(n, i)
            BY <1>4, <1>6, <1>12, <2>1 DEF Queued
        <3> QED BY <3>1 DEF WritesInv
    <2>2. CASE n = N + 1
        <3>1. Has(c, i)
            BY <1>3, <1>6, <1>12, <2>2 DEF Queued, Has
        <3> QED BY <1>1, <1>2, <3>1 DEF ThreadWrites
    <2> QED BY <1>6, <2>1, <2>2
<1> QED BY <1>1, <1>2, <1>10, <1>11, <1>12, QueueWrites DEF clockVars, treeVars

LEMMA TakeJobWrites == ASSUME TxInv, WritesInv, NEW w \in Workers, TakeJob(w) PROVE WritesInv'
<1>1. /\ th[w].pc = "idle" /\ queue # <<>> /\ queue' = Tail(queue)
      /\ UNCHANGED <<clockVars, treeVars, gcVars, pool, tx, iters, todo>>
    BY DEF TakeJob
<1>2. w \in Threads /\ TypeInv /\ th[w] \in ThreadType
    BY Bounds, ThreadTypes DEF TxInv
<1>3. PICK N \in Nat : N = Len(queue)
    BY <1>2 DEF TypeInv
<1>4. queue \in Seq(JobType) /\ N >= 1 /\ 1 \in 1 .. Len(queue)
    BY <1>1, <1>2, <1>3 DEF TypeInv
<1>5. PICK job \in JobType : job = queue[1] /\ job = Head(queue)
    BY <1>1, <1>4
<1>6. Len(queue') = N - 1 /\ \A n \in 1 .. N - 1 : queue'[n] = queue[n + 1]
    BY <1>1, <1>3, <1>4
<1>7. \A n \in 1 .. Len(queue') : n + 1 \in 1 .. Len(queue) /\ queue'[n] = queue[n + 1]
    BY <1>3, <1>6
<1>8. PICK p \in {"enq", "begin"} : p = IF job.via = "batch" THEN "enq" ELSE "begin"
    OBVIOUS
<1>9. PICK x : x = [th[w] EXCEPT !.pc = p, !.ids = job.ids, !.via = job.via, !.trk = job.trk]
    OBVIOUS
<1>10. x.pc = p /\ x.ids = job.ids /\ x.pc \notin {"commit", "deq", "unpin"}
    BY <1>2, <1>8, <1>9 DEF ThreadType
<1>11. th' = [th EXCEPT ![w] = x]
    BY <1>2, <1>5, <1>8, <1>9 DEF TakeJob, TypeInv
<1>12. th'[w] = x /\ OthersStay(w)
    BY <1>2, <1>11 DEF TypeInv, OthersStay
<1>13. Made' = Made /\ \A i \in Made : Told(i)
    BY <1>1 DEF Made, Told
<1>14. ThreadWrites(w)'
    <2>1. ASSUME NEW i \in Made, Has(w, i)' PROVE NoError(i)'
        <3>1. Queued(1, i)
            BY <1>5, <1>10, <1>12, <2>1 DEF Queued, Has
        <3>2. NoError(i)
            BY <1>4, <3>1 DEF WritesInv
        <3> QED BY <1>13, <3>2, TellsAsMuch
    <2> QED BY <1>10, <1>12, <1>13, <2>1 DEF ThreadWrites
<1>15. ASSUME NEW n \in 1 .. Len(queue'), NEW i \in Made, Queued(n, i)' PROVE NoError(i)
    <2>1. PICK m \in 1 .. Len(queue) : queue'[n] = queue[m]
        BY <1>7
    <2>2. Queued(m, i)
        BY <1>15, <2>1 DEF Queued
    <2> QED BY <2>2 DEF WritesInv
<1> QED BY <1>1, <1>2, <1>12, <1>14, <1>15, QueueWrites DEF clockVars, treeVars

(* No thread moves.                                                         *)
LEMMA StillWrites ==
    ASSUME TxInv, WritesInv, Made' = Made, \A i \in Made : Told(i),
           UNCHANGED <<clock, inflight, recs, queue, th>>
    PROVE  WritesInv'
<1>1. ASSUME NEW t \in Threads PROVE ThreadWrites(t)'
    <2>1. ThreadWrites(t) /\ th'[t] = th[t] /\ th[t].ver \in Nat /\ clock \in Nat /\ clock' \in Nat /\ clock' >= clock
        BY ThreadTypes DEF WritesInv, TxInv, TypeInv
    <2>2. \A i : Has(t, i) => i \in Made /\ Told(i)
        BY Owners
    <2>3. th[t].pc = "commit" => Has(t, Cur(t))
        BY Owners DEF RunPCs
    <2>4. \A r \in recs' : \E q \in recs : q.key = r.key /\ q.from = r.from
        OBVIOUS
    <2> QED BY <2>1, <2>2, <2>3, <2>4, ThreadWritesStay
<1>2. \A i \in Made : NoError(i)' = NoError(i)
    BY TellsAsMuch
<1>3. \A n \in 1 .. Len(queue'), i \in Made' : Queued(n, i)' => NoError(i)'
    <2>1. \A n \in 1 .. Len(queue), i \in Made : Queued(n, i)' => Queued(n, i)
        BY DEF Queued
    <2> QED BY <1>2, <2>1 DEF WritesInv
<1> QED BY <1>1, <1>3, NothingWritten

LEMMA IdleWrites ==
    ASSUME TxInv, WritesInv, UNCHANGED <<clock, inflight, recs, queue, tx, th>>
    PROVE  WritesInv'
<1>1. Made' = Made /\ \A i \in Made : Told(i)
    BY DEF Made, Told
<1> QED BY <1>1, StillWrites

(* An iterator rewrites what a read has found and nothing else.             *)
LEMMA DrainIterWrites == ASSUME TxInv, WritesInv, NEW it \in iters, DrainIter(it) PROVE WritesInv'
<1>1. UNCHANGED <<clockVars, treeVars, created, db_tracker, pins, pool, queue, th, todo>>
    BY DEF DrainIter
<1>2. TypeInv /\ IterAt(it)
    BY DEF TxInv
<1>3. it.snap \in Snapshots /\ it.tx \in Made /\ it.pos \in 1 .. Len(tx[it.tx].results)
    BY <1>2 DEF TypeInv, IterType, IterAt
<1>4. PICK i \in Made : i = it.tx
    BY <1>3
<1>5. PICK q \in Seq(Result) : q = tx[i].results
    BY <1>2, TxTypes
<1>6. PICK n \in 1 .. Len(q) : n = it.pos
    BY <1>3, <1>4, <1>5
<1>7. PICK f : f = IF it.at < horizon THEN Lost ELSE Answer(it.snap)
    OBVIOUS
<1>8. PICK res : res = [q[n] EXCEPT !.found = f]
    OBVIOUS
<1>9. PICK more : more = [q EXCEPT ![n] = res]
    OBVIOUS
<1>10. PICK y : y = [tx[i] EXCEPT !.results = more]
    OBVIOUS
<1>11. tx[i] \in TxType /\ tx \in Seq(TxType) /\ i \in 1 .. Len(tx) /\ Made = 1 .. Len(tx)
    BY <1>2, TxTypes DEF TypeInv, Made
<1>12. y.results = more /\ y.script = tx[i].script
    BY <1>10, <1>11 DEF TxType
<1>13. tx' = [tx EXCEPT ![i] = y]
    <2>1. tx' = [tx EXCEPT ![i].results[it.pos].found = f]
        BY <1>4, <1>7 DEF DrainIter
    <2> QED BY <1>5, <1>6, <1>8, <1>9, <1>10, <2>1
<1>14. tx'[i] = y /\ Made' = Made /\ \A j \in Made : j # i => tx'[j] = tx[j]
    BY <1>11, <1>13 DEF Made
<1>15. Len(more) = Len(q) /\ \A p \in 1 .. Len(q) : more[p] = IF p = n THEN res ELSE q[p]
    BY <1>9
<1>16. res.op = q[n].op /\ (q[n].op = "write" => res = q[n])
    <2>1. q[n] \in Result
        OBVIOUS
    <2>2. CASE q[n] \in ReadResult
        BY <1>8, <2>2 DEF ReadResult
    <2>3. CASE q[n] \notin ReadResult
        <3>1. q[n] \in [op : {"void"}, key : Keys] \/ q[n] \in [op : {"write"}, key : Keys, ver : Nat]
              \/ q[n] \in [op : {"error"}]
            BY <2>1, <2>3 DEF Result, WriteResult
        <3>2. PICK r : r = q[n]
            OBVIOUS
        <3>3. "found" \notin DOMAIN r /\ r = [a \in DOMAIN r |-> r[a]]
            BY <3>1, <3>2
        <3>4. [r EXCEPT !.found = f] = r
            BY <3>3
        <3> QED BY <1>8, <3>2, <3>4
    <2> QED BY <2>2, <2>3
<1>17. ASSUME NEW j \in Made PROVE Told(j)
    <2>1. CASE j # i
        BY <1>14, <2>1 DEF Told
    <2>2. CASE j = i
        BY <1>5, <1>12, <1>14, <1>15, <1>16, <2>2 DEF Told
    <2> QED BY <2>1, <2>2
<1> QED BY <1>1, <1>14, <1>17, StillWrites DEF clockVars, treeVars

---------------------------------------------------------------------------
(* Results are the writes.                                                  *)

LEMMA InitWrites == Init => WritesInv
<1> SUFFICES ASSUME Init PROVE WritesInv
    OBVIOUS
<1>1. Made = {} /\ queue = <<>> /\ Len(queue) = 0 /\ \A t \in Threads : th[t].pc = "idle"
    BY IdleType DEF Init, Made
<1>2. \A r \in recs : r.from = 0
    BY DEF Init
<1>3. \A t \in Threads : ThreadWrites(t)
    BY <1>1 DEF ThreadWrites
<1> QED BY <1>1, <1>2, <1>3 DEF WritesInv

LEMMA RunWrites == ASSUME TxInv, WritesInv, NEW t \in Threads, Run(t) PROVE WritesInv'
BY DispatchWrites, ReadStartWrites, ReadEndWrites, OpenIterWrites, WriteVoidWrites, WriteStartWrites, WriteEndWrites,
   FailWrites, CompleteWrites, DeqWrites DEF Run

LEMMA NextWrites == ASSUME TxInv, WritesInv, [Next]_vars PROVE WritesInv'
<1>1. ASSUME NEW c \in Callers, Call(c) \/ AddToBatch(c) \/ InCall(c) PROVE WritesInv'
    BY <1>1, CallWrites, AddToBatchWrites, PinReaderWrites, DrawSnapshotWrites, ExecuteOnCallerThreadWrites,
       EnqBookkeepingWrites, SendWrites, ReturnWrites, RunWrites, Bounds DEF InCall
<1>2. ASSUME NEW w \in Workers, InJob(w) PROVE WritesInv'
    BY <1>2, TakeJobWrites, EnqInBatchWrites, RunWrites, Bounds DEF InJob
<1>3. ASSUME FreeBlock PROVE WritesInv'
    BY <1>3, IdleWrites DEF FreeBlock, clockVars
<1>4. ASSUME AdvanceWatermark PROVE WritesInv'
    BY <1>4, IdleWrites DEF AdvanceWatermark, Clock!Advance, treeVars
<1>5. ASSUME SwitchPool \/ EnableGc \/ DisableGc PROVE WritesInv'
    BY <1>5, IdleWrites DEF SwitchPool, EnableGc, DisableGc, clockVars, treeVars
<1>6. ASSUME UNCHANGED vars PROVE WritesInv'
    BY <1>6, IdleWrites DEF vars
<1> QED BY <1>1, <1>2, <1>3, <1>4, <1>5, <1>6, DrainIterWrites DEF Next

LEMMA WritesFollow == ASSUME TxInv, WritesInv PROVE ResultsAreTheWrites
<1>1. \A i \in Made : DOMAIN tx[i].results = 1 .. Len(tx[i].results)
    <2>1. \A i \in Made : tx[i].results \in Seq(Result)
        BY TxTypes DEF TxInv
    <2> QED BY <2>1
<1> QED BY <1>1 DEF WritesInv, ResultsAreTheWrites, Reported

(* What transactions leave in the tree is what their results say they       *)
(* wrote, each at its own version, on whichever thread they ran; and one    *)
(* that failed wrote nothing after the operation that failed.               *)
THEOREM SpecResultsAreTheWrites == Spec => []ResultsAreTheWrites
<1>1. TxInv /\ WritesInv /\ [Next]_vars => WritesInv'
    BY NextWrites
<1>2. TxInv /\ WritesInv => ResultsAreTheWrites
    BY WritesFollow
<1> QED BY SpecTxInv, InitWrites, <1>1, <1>2, PTL DEF Spec
=============================================================================
