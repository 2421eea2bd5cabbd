-------------------------- MODULE ReclamationProofs --------------------------
(***************************************************************************)
(* Proofs that block reuse is safe for every number of readers, writers and *)
(* blocks, as long as every reorganization runs on a thread whose slot is   *)
(* active.  The argument needs the pins only, not the registrations: a      *)
(* reader that has drawn its snapshot holds a ticket at or below it, so a   *)
(* writer's bound, once it has looked at the pins, is at or below every     *)
(* snapshot in use, and later snapshots are drawn above the committed one   *)
(* that the bound started from.                                             *)
(***************************************************************************)
EXTENDS Reclamation, TLAPS

(* The watermark against the clock and the commits in flight.               *)
WatermarkInv ==
    /\ wm <= clock
    /\ \A v \in inflight : wm <= v /\ v < clock

(* Between start_tx_commit and end_tx_commit.                               *)
InCommit(w) == wpc[w] \in {"started", "end"} \/ (wpc[w] = "bury" /\ merging[w])

CommitInv ==
    /\ \A w \in Writers : InCommit(w) => ver[w] \in inflight
    /\ \A w, x \in Writers : InCommit(w) /\ InCommit(x) /\ ver[w] = ver[x] => w = x

(* A reader's ticket stays in place while it may use its snapshot.          *)
PinInv ==
    \A r \in Readers :
        /\ rpc[r] # "idle" => lb[r] <= wm
        /\ rpc[r] \in {"draw", "register", "query", "unpin"} => <<lb[r], r>> \in pins
        /\ Reading(r) => lb[r] <= snap[r] /\ snap[r] <= wm

(* Latched blocks belong to one writer, and are in the tree until replaced. *)
Replacing(w) ==
    wpc[w] \in {"latched", "peekRegistered", "peekPins", "front", "claim", "ready",
                "started"}

VictimInv ==
    /\ \A w, x \in Writers : w # x => victims[w] \cap victims[x] = {}
    /\ \A w \in Writers : \A b \in victims[w] :
          place[b] = IF Replacing(w) THEN "live" ELSE "dead"
    /\ \A w \in Writers :
          wpc[w] = "idle" \/ (wpc[w] = "end" /\ merging[w]) => victims[w] = {}

(* What a writer's bound says about the readers, and its candidate.         *)
BoundInv ==
    \A w \in Writers :
        /\ wpc[w] \in {"peekRegistered", "peekPins", "front", "claim"} => bound[w] <= wm
        /\ wpc[w] \in {"front", "claim"} =>
              \A r \in Readers : Reading(r) => bound[w] <= snap[r]
        /\ wpc[w] = "claim" =>
              /\ cand[w] \in Blocks
              /\ place[cand[w]] \in {"grave", "recycled"}
              /\ death[cand[w]] < bound[w]

(* A block a reader holds died no earlier than the reader's snapshot ...    *)
HoldInv ==
    \A r \in Readers : \A b \in at[r] :
        /\ rpc[r] = "query"
        /\ place[b] # "unborn"
        /\ Dead(b) => snap[r] <= death[b]

(* ... and a recycled one died before every snapshot in use or to come.     *)
RecycledInv ==
    \A b \in Blocks : place[b] = "recycled" =>
        /\ death[b] < wm
        /\ \A r \in Readers : Reading(r) => death[b] < snap[r]

(* A block handed out is recycled and in the hands of one writer.           *)
GotInv ==
    /\ \A w \in Writers : \A b \in got[w] : place[b] = "recycled"
    /\ \A w, x \in Writers : w # x => got[w] \cap got[x] = {}

IInv ==
    /\ TypeOK /\ WatermarkInv /\ CommitInv /\ PinInv /\ VictimInv /\ BoundInv
    /\ HoldInv /\ RecycledInv /\ GotInv

---------------------------------------------------------------------------
(* The invariant holds at the start: nobody reads, and no block is dead.    *)
LEMMA InitInv == Init => IInv
<1> SUFFICES ASSUME Init PROVE IInv
    OBVIOUS
<1> USE ReclamationAssumption DEF Init, Clock!Init
<1>1. TypeOK
    BY DEF TypeOK, Snapshots, NoBlock
<1>2. WatermarkInv /\ CommitInv /\ PinInv
    BY DEF WatermarkInv, CommitInv, InCommit, PinInv, Reading
<1>3. VictimInv /\ BoundInv
    BY DEF VictimInv, BoundInv, Replacing, Reading
<1>4. HoldInv /\ RecycledInv /\ GotInv
    BY DEF HoldInv, RecycledInv, GotInv, Dead, Reading
<1> QED BY <1>1, <1>2, <1>3, <1>4 DEF IInv

(* The bound after a peek is a natural number, at or below the old bound    *)
(* and everything announced.                                                *)
LEMMA PeekBound ==
    ASSUME TypeOK, NEW w \in Writers, NEW announced \in SUBSET Nat,
           LowerBoundTo(w, announced)
    PROVE  /\ bound' \in [Writers -> Nat]
           /\ bound'[w] <= bound[w]
           /\ \A a \in announced : bound'[w] <= a
           /\ \A x \in Writers \ {w} : bound'[x] = bound[x]
BY DEF TypeOK, LowerBoundTo

(* A writer about to claim has a candidate; without it a claim could hand   *)
(* out anything.                                                            *)
CandInv == \A w \in Writers : wpc[w] = "claim" => cand[w] \in Blocks

(* A writer about to claim a block keeps a candidate that is a block.       *)
LEMMA CandStep == TypeOK /\ CandInv /\ [Next]_vars => CandInv'
<1> SUFFICES ASSUME TypeOK, CandInv, [Next]_vars PROVE CandInv'
    OBVIOUS
<1> USE DEF TypeOK, CandInv
<1>1. ASSUME NEW r \in Readers, Reader(r) PROVE CandInv'
    BY <1>1 DEF Reader, LowerBound, PinReader, DrawSnapshot, OnTxStart, Visit,
                OnTxCompleted, UnpinReader, writerVars
<1>2. ASSUME NEW w \in Writers, Writer(w) PROVE CandInv'
  <2>1. CASE Front(w)
      BY <2>1 DEF Front, Graveyard
  <2>2. CASE Claim(w)
      BY <2>2 DEF Claim, WGoto
  <2>3. CASE UNCHANGED cand /\ wpc'[w] # "claim" /\ \A x \in Writers \ {w} : wpc'[x] = wpc[x]
      BY <2>3
  <2>4. CASE Latch(w) \/ LoadCommitted(w) \/ PeekRegistered(w) \/ PeekPins(w) \/ StartSmo(w)
      BY <2>3, <2>4 DEF Latch, LoadCommitted, PeekRegistered, PeekPins, StartSmo, WGoto
  <2>5. CASE Replace(w) \/ EndSmo(w)
      BY <2>3, <2>5 DEF Replace, EndSmo
  <2>6. ASSUME NEW b \in Blocks, RegisterDied(w, b) PROVE CandInv'
      BY <2>3, <2>6 DEF RegisterDied
  <2> QED BY <1>2, <2>1, <2>2, <2>4, <2>5, <2>6 DEF Writer
<1>3. CASE AdvanceWatermark \/ UNCHANGED vars
    BY <1>3 DEF AdvanceWatermark, writerVars, vars
<1> QED BY <1>1, <1>2, <1>3 DEF Next

(* Every value a step stores fits the variable it is stored in.             *)
LEMMA TypeStep == TypeOK /\ CandInv /\ [Next]_vars => TypeOK'
<1> SUFFICES ASSUME TypeOK, CandInv, [Next]_vars PROVE TypeOK'
    OBVIOUS
<1> USE ReclamationAssumption DEF TypeOK
<1>1. ASSUME NEW r \in Readers, Reader(r) PROVE TypeOK'
  <2>1. CASE LowerBound(r)
      BY <2>1 DEF LowerBound, RGoto, clockVars, blockVars, writerVars
  <2>2. CASE PinReader(r)
      BY <2>2 DEF PinReader, RGoto, clockVars, blockVars, writerVars
  <2>3. CASE DrawSnapshot(r)
      BY <2>3 DEF DrawSnapshot, RGoto, clockVars, blockVars, writerVars
  <2>4. CASE OnTxStart(r)
    <3>1. registered' \in [Snapshots -> Nat]
      <4>1. \A s \in Snapshots : registered'[s] \in Nat
          BY <2>4 DEF OnTxStart
      <4> QED BY <2>4, <4>1 DEF OnTxStart
    <3> QED BY <2>4, <3>1 DEF OnTxStart, RGoto, clockVars, blockVars, writerVars
  <2>5. CASE OnTxCompleted(r)
    <3>1. registered' \in [Snapshots -> Nat]
      <4>1. \A s \in Snapshots : registered'[s] \in Nat
          BY <2>5 DEF OnTxCompleted
      <4> QED BY <2>5, <4>1 DEF OnTxCompleted
    <3> QED BY <2>5, <3>1 DEF OnTxCompleted, RGoto, clockVars, blockVars, writerVars
  <2>6. CASE UnpinReader(r)
      BY <2>6 DEF UnpinReader, RGoto, clockVars, blockVars, writerVars
  <2>7. ASSUME NEW b \in Blocks, Visit(r, b) PROVE TypeOK'
      BY <2>7 DEF Visit, clockVars, blockVars, writerVars
  <2> QED BY <1>1, <2>1, <2>2, <2>3, <2>4, <2>5, <2>6, <2>7 DEF Reader
<1>2. ASSUME NEW w \in Writers, Writer(w) PROVE TypeOK'
  <2>1. CASE Latch(w)
      BY <2>1 DEF Latch, WGoto, clockVars, blockVars, readerVars
  <2>2. CASE LoadCommitted(w)
      BY <2>2 DEF LoadCommitted, clockVars, blockVars, readerVars
  <2>3. CASE PeekRegistered(w)
    <3>1. {s \in Snapshots : registered[s] > 0} \in SUBSET Nat
        BY DEF Snapshots
    <3>2. bound' \in [Writers -> Nat]
        BY <2>3, <3>1, PeekBound DEF PeekRegistered
    <3> QED BY <2>3, <3>2 DEF PeekRegistered, WGoto, clockVars, blockVars, readerVars
  <2>4. CASE PeekPins(w)
    <3>1. {p[1] : p \in pins} \in SUBSET Nat
        OBVIOUS
    <3>2. bound' \in [Writers -> Nat]
        BY <2>4, <3>1, PeekBound DEF PeekPins
    <3> QED BY <2>4, <3>2 DEF PeekPins, WGoto, clockVars, blockVars, readerVars
  <2>5. CASE Front(w)
      BY <2>5 DEF Front, Graveyard, clockVars, blockVars, readerVars
  <2>6. CASE Claim(w)
    <3>1. cand' \in [Writers -> Blocks \cup {NoBlock}]
        BY <2>6 DEF Claim
    <3>2. place' \in [Blocks -> {"unborn", "live", "dead", "grave", "recycled"}]
        BY <2>6 DEF Claim
    <3>3. got' \in [Writers -> SUBSET Blocks]
      <4>1. CASE place[cand[w]] = "grave" /\ cand[w] \in Blocks
          BY <2>6, <4>1 DEF Claim
      <4>2. CASE UNCHANGED got
          BY <4>2
      <4> QED BY <2>6, <4>1, <4>2 DEF Claim, WGoto, CandInv
    <3> QED BY <2>6, <3>1, <3>2, <3>3 DEF Claim, WGoto, clockVars, readerVars
  <2>7. CASE StartSmo(w)
    <3>1. clock' \in Nat /\ wm' \in Nat /\ inflight' \in SUBSET Nat
      <4>1. Clock!Begin \/ Clock!BeginUntracked
          BY <2>7, Zenon DEF StartSmo
      <4>2. CASE Clock!Begin
          BY <4>2 DEF Clock!Begin
      <4>3. CASE Clock!BeginUntracked
          BY <4>3 DEF Clock!BeginUntracked
      <4> QED BY <4>1, <4>2, <4>3
    <3> QED BY <2>7, <3>1 DEF StartSmo, WGoto, blockVars, readerVars
  <2>8. CASE Replace(w)
      BY <2>8 DEF Replace, clockVars, readerVars
  <2>9. CASE EndSmo(w)
      BY <2>9 DEF EndSmo, Clock!Finish, clockVars, blockVars, readerVars
  <2>10. ASSUME NEW b \in Blocks, RegisterDied(w, b) PROVE TypeOK'
      BY <2>10 DEF RegisterDied, clockVars, readerVars
  <2> QED BY <1>2, <2>1, <2>2, <2>3, <2>4, <2>5, <2>6, <2>7, <2>8, <2>9, <2>10 DEF Writer
<1>3. CASE AdvanceWatermark
    BY <1>3 DEF AdvanceWatermark, Clock!Advance, blockVars, readerVars, writerVars
<1>4. CASE UNCHANGED vars
    BY <1>4 DEF vars
<1> QED BY <1>1, <1>2, <1>3, <1>4 DEF Next

(* Type correctness of the whole collector.                                 *)
THEOREM TypeCorrect == Spec => []TypeOK
<1>1. Init => TypeOK /\ CandInv
    BY InitInv DEF IInv, CandInv, BoundInv
<1> QED BY <1>1, CandStep, TypeStep, PTL DEF Spec

---------------------------------------------------------------------------
(* The steps of a reader leave the clock, the blocks and the writers alone. *)
LEMMA ReaderStep ==
    ASSUME IInv, TypeOK', NEW r \in Readers, Reader(r)
    PROVE  IInv'
<1> USE DEF IInv, TypeOK
<1>1. UNCHANGED <<clockVars, blockVars, writerVars>>
    BY DEF Reader, LowerBound, PinReader, DrawSnapshot, OnTxStart, Visit,
           OnTxCompleted, UnpinReader
<1>2. (WatermarkInv /\ CommitInv /\ VictimInv /\ GotInv)'
    BY <1>1 DEF WatermarkInv, CommitInv, VictimInv, GotInv, InCommit, Replacing,
                clockVars, blockVars, writerVars
<1>3. PinInv' /\ HoldInv'
  <2> USE <1>1 DEF PinInv, HoldInv, Reading, Dead, clockVars, blockVars, writerVars
  <2>1. CASE LowerBound(r)
      BY <2>1 DEF LowerBound, RGoto
  <2>2. CASE PinReader(r)
      BY <2>2 DEF PinReader, RGoto
  <2>3. CASE DrawSnapshot(r)
      BY <2>3 DEF DrawSnapshot, RGoto
  <2>4. CASE OnTxStart(r)
      BY <2>4 DEF OnTxStart, RGoto
  <2>5. CASE OnTxCompleted(r)
      BY <2>5 DEF OnTxCompleted, RGoto
  <2>6. CASE UnpinReader(r)
      BY <2>6 DEF UnpinReader, RGoto
  <2>7. ASSUME NEW b \in Blocks, Visit(r, b) PROVE PinInv' /\ HoldInv'
      BY <2>7 DEF Visit, Reachable
  <2> QED BY <2>1, <2>2, <2>3, <2>4, <2>5, <2>6, <2>7 DEF Reader
<1>4. \A q \in Readers :
          Reading(q)' => \/ Reading(q) /\ snap'[q] = snap[q]
                         \/ snap'[q] = wm
    BY DEF Reading, Reader, RGoto, LowerBound, PinReader, DrawSnapshot, OnTxStart, Visit,
           OnTxCompleted, UnpinReader
<1>5. BoundInv' /\ RecycledInv'
    BY <1>1, <1>4 DEF BoundInv, RecycledInv, clockVars, blockVars, writerVars
<1> QED BY <1>2, <1>3, <1>5

(* The clock steps.                                                         *)
LEMMA AdvanceStep ==
    ASSUME IInv, TypeOK', AdvanceWatermark
    PROVE  IInv'
<1> USE DEF IInv, TypeOK, AdvanceWatermark, Clock!Advance, blockVars, readerVars,
            writerVars
<1>1. WatermarkInv' /\ CommitInv' /\ PinInv'
    BY DEF WatermarkInv, CommitInv, InCommit, PinInv, Reading
<1>2. VictimInv' /\ BoundInv'
    BY DEF VictimInv, BoundInv, Replacing, Reading
<1>3. HoldInv' /\ RecycledInv' /\ GotInv'
    BY DEF HoldInv, RecycledInv, GotInv, Dead, Reading
<1> QED BY <1>1, <1>2, <1>3

(* Latching and the steps of free_block up to the candidate touch neither   *)
(* the blocks nor the clock.                                                *)
LEMMA BoundStep ==
    ASSUME IInv, TypeOK', NEW w \in Writers,
           Latch(w) \/ LoadCommitted(w) \/ PeekRegistered(w) \/ PeekPins(w) \/ Front(w)
    PROVE  IInv'
<1> USE DEF IInv, TypeOK
<1>1. UNCHANGED <<clockVars, blockVars, readerVars, pins, got, ver>>
    BY DEF Latch, LoadCommitted, PeekRegistered, PeekPins, Front
<1>2. \A x \in Writers \ {w} : wpc'[x] = wpc[x] /\ bound'[x] = bound[x] /\ cand'[x] = cand[x]
                              /\ victims'[x] = victims[x] /\ merging'[x] = merging[x]
    BY DEF Latch, LoadCommitted, PeekRegistered, PeekPins, Front, WGoto, LowerBoundTo
<1>3. ~InCommit(w)' /\ Replacing(w)' /\ wpc'[w] \notin {"idle", "end"}
    BY DEF InCommit, Replacing, Latch, LoadCommitted, PeekRegistered, PeekPins, Front, WGoto
<1>4. (WatermarkInv /\ CommitInv /\ PinInv /\ HoldInv /\ RecycledInv /\ GotInv)'
  <2>1. (WatermarkInv /\ PinInv /\ HoldInv /\ RecycledInv /\ GotInv)'
      BY <1>1 DEF WatermarkInv, PinInv, HoldInv, RecycledInv, GotInv, Reading, Dead,
                  clockVars, blockVars, readerVars
  <2>2. \A x \in Writers : InCommit(x)' => InCommit(x)
      BY <1>2, <1>3 DEF InCommit
  <2> QED BY <1>1, <2>1, <2>2 DEF CommitInv, clockVars
<1>5. VictimInv'
  <2>1. CASE Latch(w)
    <3>1. /\ \A x \in Writers : victims'[w] \cap victims[x] = {}
          /\ \A b \in victims'[w] : place[b] = "live"
        BY <2>1 DEF Latch
    <3>2. \A x \in Writers \ {w} : Replacing(x)' <=> Replacing(x)
        BY <1>2 DEF Replacing
    <3>3. \A x, y \in Writers : x # y => victims'[x] \cap victims'[y] = {}
        BY <1>2, <3>1 DEF VictimInv
    <3>4. \A x \in Writers : \A b \in victims'[x] :
              place'[b] = IF Replacing(x)' THEN "live" ELSE "dead"
        BY <1>1, <1>2, <1>3, <3>1, <3>2 DEF VictimInv, blockVars
    <3>5. \A x \in Writers :
              wpc'[x] = "idle" \/ (wpc'[x] = "end" /\ merging'[x]) => victims'[x] = {}
        BY <1>2, <1>3 DEF VictimInv
    <3> QED BY <3>3, <3>4, <3>5 DEF VictimInv, Replacing
  <2>2. CASE UNCHANGED victims /\ Replacing(w)
    <3>1. \A x \in Writers : Replacing(x)' <=> Replacing(x)
        BY <1>2, <1>3, <2>2 DEF Replacing
    <3> QED BY <1>1, <1>2, <1>3, <2>2, <3>1 DEF VictimInv, blockVars
  <2>3. LoadCommitted(w) \/ PeekRegistered(w) \/ PeekPins(w) \/ Front(w)
        => UNCHANGED victims /\ Replacing(w)
      BY DEF LoadCommitted, PeekRegistered, PeekPins, Front, WGoto, Replacing
  <2> QED BY <2>1, <2>2, <2>3
<1>6. BoundInv'
  <2> USE <1>1, <1>2 DEF BoundInv, Reading, clockVars, blockVars, readerVars
  <2>1. CASE Latch(w)
      BY <2>1 DEF Latch, WGoto
  <2>2. CASE LoadCommitted(w)
      BY <2>2 DEF LoadCommitted
  <2>3. CASE PeekRegistered(w)
    <3>1. {s \in Snapshots : registered[s] > 0} \in SUBSET Nat
        BY ReclamationAssumption DEF Snapshots
    <3>2. bound'[w] <= bound[w]
        BY <2>3, <3>1, PeekBound DEF PeekRegistered
    <3> QED BY <2>3, <3>2 DEF PeekRegistered, WGoto
  <2>4. CASE PeekPins(w)
    <3>1. {p[1] : p \in pins} \in SUBSET Nat
        OBVIOUS
    <3>2. /\ bound'[w] <= bound[w]
          /\ \A p \in pins : bound'[w] <= p[1]
        BY <2>4, <3>1, PeekBound DEF PeekPins
    <3>3. \A r \in Readers : Reading(r) => bound'[w] <= snap[r]
      <4> SUFFICES ASSUME NEW r \in Readers, Reading(r) PROVE bound'[w] <= snap[r]
          OBVIOUS
      <4>1. <<lb[r], r>> \in pins /\ lb[r] <= snap[r]
          BY DEF PinInv
      <4>2. bound'[w] <= <<lb[r], r>>[1]
          BY <3>2, <4>1
      <4> QED BY <4>1, <4>2
    <3> QED BY <2>4, <3>2, <3>3 DEF PeekPins, WGoto
  <2>5. CASE Front(w)
      BY <2>5 DEF Front, Graveyard
  <2> QED BY <2>1, <2>2, <2>3, <2>4, <2>5
<1> QED BY <1>4, <1>5, <1>6

(* The claim: the only step that recycles a block.                          *)
LEMMA ClaimStep ==
    ASSUME IInv, TypeOK', NEW w \in Writers, Claim(w)
    PROVE  IInv'
<1> USE DEF IInv, TypeOK
<1>1. /\ UNCHANGED <<clockVars, birth, death, readerVars, pins, victims, merging, ver, bound>>
      /\ wpc[w] = "claim" /\ wpc' = [wpc EXCEPT ![w] = "ready"]
      /\ cand' = [cand EXCEPT ![w] = NoBlock]
      /\ cand[w] \in Blocks
    BY DEF Claim, WGoto, BoundInv
<1>2. (WatermarkInv /\ CommitInv /\ PinInv)'
    BY <1>1 DEF WatermarkInv, CommitInv, InCommit, PinInv, Reading, clockVars, readerVars
<1>3. CASE UNCHANGED <<place, got>>
  <2>1. (VictimInv /\ BoundInv)'
      BY <1>1, <1>3 DEF VictimInv, BoundInv, Replacing, Reading, clockVars, readerVars
  <2>2. (HoldInv /\ RecycledInv /\ GotInv)'
      BY <1>1, <1>3 DEF HoldInv, RecycledInv, GotInv, Reading, Dead, clockVars, readerVars
  <2> QED BY <1>2, <2>1, <2>2
<1>4. CASE /\ place[cand[w]] = "grave"
           /\ place' = [place EXCEPT ![cand[w]] = "recycled"]
           /\ got' = [got EXCEPT ![w] = @ \cup {cand[w]}]
  <2> USE <1>1, <1>4
  <2>1. VictimInv'
      BY DEF VictimInv, Replacing
  <2>2. BoundInv'
      BY DEF BoundInv, Reading, clockVars, readerVars
  <2>3. HoldInv'
      BY DEF HoldInv, Dead, readerVars
  <2>4. RecycledInv'
      BY DEF RecycledInv, BoundInv, Reading, clockVars, readerVars
  <2>5. GotInv'
      BY DEF GotInv
  <2> QED BY <1>2, <2>1, <2>2, <2>3, <2>4, <2>5
<1> QED BY <1>3, <1>4 DEF Claim

(* start_tx_commit: the version is fresh.                                   *)
LEMMA StartStep ==
    ASSUME ~Untracked, IInv, TypeOK', NEW w \in Writers, StartSmo(w)
    PROVE  IInv'
<1> USE DEF IInv, TypeOK
<1>1. Clock!Begin
    BY Zenon DEF StartSmo
<1>2. /\ UNCHANGED <<wm, blockVars, readerVars, pins, victims, merging, cand, got>>
      /\ wpc[w] = "ready" /\ wpc' = [wpc EXCEPT ![w] = "started"]
      /\ ver' = [ver EXCEPT ![w] = clock]
      /\ bound' = [bound EXCEPT ![w] = 0]
    BY <1>1 DEF StartSmo, WGoto, Clock!Begin
<1>3. clock' = clock + 1 /\ inflight' = inflight \cup {clock}
    BY <1>1 DEF Clock!Begin
<1>4. WatermarkInv'
    BY <1>2, <1>3 DEF WatermarkInv
<1>5. CommitInv'
    BY <1>2, <1>3 DEF CommitInv, WatermarkInv, InCommit
<1>6. (PinInv /\ VictimInv /\ BoundInv)'
    BY <1>2 DEF PinInv, VictimInv, BoundInv, Replacing, Reading, blockVars, readerVars
<1>7. (HoldInv /\ RecycledInv /\ GotInv)'
    BY <1>2 DEF HoldInv, RecycledInv, GotInv, Reading, Dead, blockVars, readerVars
<1> QED BY <1>4, <1>5, <1>6, <1>7

(* commit_delta: a block dies at a version no reader's snapshot has passed. *)
LEMMA ReplaceStep ==
    ASSUME IInv, TypeOK', NEW w \in Writers, Replace(w)
    PROVE  IInv'
<1> USE DEF IInv, TypeOK
<1> PICK n \in Blocks :
        /\ place[n] = "unborn"
        /\ place' = [b \in Blocks |-> CASE b = n            -> "live"
                                        [] b \in victims[w] -> "dead"
                                        [] OTHER            -> place[b]]
    BY DEF Replace
<1>1. /\ UNCHANGED <<clockVars, readerVars, pins, victims, merging, ver, bound, cand, got>>
      /\ wpc[w] = "started"
      /\ wpc' = [wpc EXCEPT ![w] = IF merging[w] THEN "bury" ELSE "end"]
      /\ death' = [b \in Blocks |-> IF b \in victims[w] THEN ver[w] ELSE death[b]]
    BY DEF Replace
<1>2. \A b \in victims[w] : b \in Blocks /\ place[b] = "live" /\ b # n /\ place'[b] = "dead"
                            /\ death'[b] = ver[w]
    BY <1>1 DEF VictimInv, Replacing
<1>3. \A b \in Blocks \ victims[w] :
          /\ death'[b] = death[b]
          /\ place'[b] = IF b = n THEN "live" ELSE place[b]
    BY <1>1
<1>4. (WatermarkInv /\ CommitInv /\ PinInv)'
    BY <1>1 DEF WatermarkInv, CommitInv, InCommit, PinInv, Reading, clockVars, readerVars
<1>5. VictimInv'
    BY <1>1, <1>2, <1>3 DEF VictimInv, Replacing
<1>6. BoundInv'
  <2>1. \A c \in Blocks : place[c] \in {"grave", "recycled"}
                          => place'[c] = place[c] /\ death'[c] = death[c]
      BY <1>2, <1>3
  <2>2. \A x \in Writers : wpc'[x] \in {"peekRegistered", "peekPins", "front", "claim"}
                          => wpc'[x] = wpc[x]
      BY <1>1
  <2>3. \A x \in Writers : wpc'[x] = "claim" =>
            /\ cand[x] \in Blocks
            /\ place'[cand[x]] \in {"grave", "recycled"}
            /\ death'[cand[x]] < bound[x]
      BY <2>1, <2>2 DEF BoundInv
  <2> QED BY <1>1, <2>2, <2>3 DEF BoundInv, Reading, clockVars, readerVars
<1>7. HoldInv'
  <2>1. wm <= ver[w]
      BY <1>1 DEF CommitInv, WatermarkInv, InCommit
  <2>2. \A r \in Readers : \A b \in at[r] :
            rpc[r] = "query" /\ place'[b] # "unborn" /\ (Dead(b)' => snap[r] <= death'[b])
    <3> SUFFICES ASSUME NEW r \in Readers, NEW b \in at[r]
                 PROVE  rpc[r] = "query" /\ place'[b] # "unborn" /\ (Dead(b)' => snap[r] <= death'[b])
        OBVIOUS
    <3>1. rpc[r] = "query" /\ place[b] # "unborn" /\ snap[r] <= wm /\ (Dead(b) => snap[r] <= death[b])
        BY DEF HoldInv, PinInv, Reading
    <3>2. CASE b \in victims[w]
      <4>1. snap[r] <= ver[w]
          BY <2>1, <3>1
      <4> QED BY <1>2, <3>1, <3>2, <4>1
    <3>3. CASE b \notin victims[w]
        BY <1>3, <3>1, <3>3 DEF Dead
    <3> QED BY <3>2, <3>3
  <2>3. at' = at /\ rpc' = rpc /\ snap' = snap
      BY <1>1 DEF readerVars
  <2> QED BY <2>2, <2>3, Zenon DEF HoldInv
<1>8. RecycledInv'
    BY <1>1, <1>2, <1>3 DEF RecycledInv, Reading, clockVars, readerVars
<1>9. GotInv'
    BY <1>1, <1>2, <1>3 DEF GotInv
<1> QED BY <1>4, <1>5, <1>6, <1>7, <1>8, <1>9

(* end_tx_commit.                                                           *)
LEMMA EndStep ==
    ASSUME IInv, TypeOK', NEW w \in Writers, EndSmo(w)
    PROVE  IInv'
<1> USE DEF IInv, TypeOK
<1>1. ver[w] \in inflight
    BY DEF CommitInv, InCommit, EndSmo
<1>2. /\ UNCHANGED <<clock, wm, blockVars, readerVars, pins, victims, bound, cand>>
      /\ inflight' = inflight \ {ver[w]}
      /\ wpc[w] = "end"
      /\ wpc' = [wpc EXCEPT ![w] = IF merging[w] THEN "idle" ELSE "bury"]
      /\ merging' = [merging EXCEPT ![w] = FALSE]
      /\ ver' = [ver EXCEPT ![w] = 0]
      /\ got' = [got EXCEPT ![w] = {}]
    BY <1>1 DEF EndSmo, Clock!Finish
<1>3. (WatermarkInv /\ CommitInv /\ PinInv)'
    BY <1>2 DEF WatermarkInv, CommitInv, InCommit, PinInv, Reading, readerVars
<1>4. VictimInv'
    BY <1>2 DEF VictimInv, Replacing, blockVars
<1>5. (BoundInv /\ HoldInv /\ RecycledInv /\ GotInv)'
    BY <1>2 DEF BoundInv, HoldInv, RecycledInv, GotInv, Reading, Dead, blockVars, readerVars
<1> QED BY <1>3, <1>4, <1>5

(* register_died_page.                                                      *)
LEMMA RegisterStep ==
    ASSUME IInv, TypeOK', NEW w \in Writers, NEW b \in Blocks, RegisterDied(w, b)
    PROVE  IInv'
<1> USE DEF IInv, TypeOK
<1>1. /\ UNCHANGED <<clockVars, birth, death, readerVars, pins, merging, ver, bound, cand, got>>
      /\ wpc[w] = "bury" /\ b \in victims[w]
      /\ place' = [place EXCEPT ![b] = "grave"]
      /\ victims' = [victims EXCEPT ![w] = @ \ {b}]
      /\ wpc' = [wpc EXCEPT ![w] = IF victims[w] # {b} THEN "bury"
                                   ELSE IF merging[w] THEN "end" ELSE "idle"]
    BY DEF RegisterDied
<1>2. place[b] = "dead"
    BY <1>1 DEF VictimInv, Replacing
<1>3. (WatermarkInv /\ CommitInv /\ PinInv)'
    BY <1>1 DEF WatermarkInv, CommitInv, InCommit, PinInv, Reading, clockVars, readerVars
<1>4. VictimInv'
    BY <1>1 DEF VictimInv, Replacing
<1>5. BoundInv'
    BY <1>1, <1>2 DEF BoundInv, Reading, clockVars, readerVars
<1>6. HoldInv' /\ RecycledInv' /\ GotInv'
    BY <1>1, <1>2 DEF HoldInv, RecycledInv, GotInv, Reading, Dead, clockVars, readerVars
<1> QED BY <1>3, <1>4, <1>5, <1>6

(* Every step keeps the invariant when reorganizations run on active slots. *)
LEMMA SafeStep ==
    ASSUME ~Untracked
    PROVE  IInv /\ [Next]_vars => IInv'
<1> SUFFICES ASSUME IInv, [Next]_vars PROVE IInv'
    OBVIOUS
<1>1. TypeOK'
    BY TypeStep DEF IInv, BoundInv, CandInv
<1>2. ASSUME NEW r \in Readers, Reader(r) PROVE IInv'
    BY <1>1, <1>2, ReaderStep
<1>3. ASSUME NEW w \in Writers, Writer(w) PROVE IInv'
    BY <1>1, <1>3, BoundStep, ClaimStep, StartStep, ReplaceStep, EndStep, RegisterStep
       DEF Writer
<1>4. CASE AdvanceWatermark
    BY <1>1, <1>4, AdvanceStep
<1>5. CASE UNCHANGED vars
    BY <1>5 DEF vars, IInv, TypeOK, WatermarkInv, CommitInv, InCommit, PinInv, VictimInv,
                Replacing, BoundInv, HoldInv, RecycledInv, GotInv, Reading, Dead
<1> QED BY <1>2, <1>3, <1>4, <1>5 DEF Next

(* Block reuse is safe, for any number of readers, writers and blocks: with *)
(* every reorganization on a thread the watermark accounts for, free_block  *)
(* never hands out a block that a pinned reader holds or can reach.         *)
THEOREM SafeReclamation ==
    ASSUME ~Untracked
    PROVE  Spec => []NoReaderLosesBlock
<1>1. IInv => NoReaderLosesBlock
    BY DEF IInv, TypeOK, HoldInv, RecycledInv, NoReaderLosesBlock, Reachable, Dead, Reading
<1> QED BY <1>1, InitInv, SafeStep, PTL DEF Spec

(* The removal from the graveyard is the claim: whatever the interleaving   *)
(* of two writers on the same front entry, one of them gets the block.      *)
THEOREM SingleWinner ==
    ASSUME ~Untracked
    PROVE  Spec => []OneWinner
<1>1. IInv => OneWinner
  <2> SUFFICES ASSUME IInv, NEW w \in Writers
               PROVE  /\ \A v \in Writers \ {w} : got[v] \cap got[w] = {}
                      /\ \A v \in Writers : got[v] \cap victims[w] = {}
      BY DEF OneWinner
  <2>1. \A b \in victims[w] : place[b] # "recycled"
      BY DEF IInv, VictimInv
  <2> QED BY <2>1 DEF IInv, GotInv
<1> QED BY <1>1, InitInv, SafeStep, PTL DEF Spec
===========================================================================
