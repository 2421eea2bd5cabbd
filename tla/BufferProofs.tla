---------------------------- MODULE BufferProofs ----------------------------
(***************************************************************************)
(* Proofs about BufferPool, for one writing thread and any number of        *)
(* readers, frames, blocks and calls.                                       *)
(***************************************************************************)
EXTENDS BufferPool, FiniteSetTheorems, WellFoundedInduction, TLAPS

(* What the theorems assume of the callers: two writers that miss at the    *)
(* same time may take one victim, between the pin check and the removal     *)
(* (block_buffer.rs:679, 694), and then the properties do not hold.         *)
SingleWriter == \A v, w \in Writers : v = w

Page      == [use : Nat, n : Nat, header : Nat]
FrameType == [block : Blocks \cup {NoBlock}, page : Page, len : Nat, pin : Int, dirty : BOOLEAN,
              last : Nat, latch : BOOLEAN]
Use       == [state : {"unused", "new", "live", "dead"}, uses : Nat, n : Nat]

Searching == {"alloc", "none", "flush", "remove", "reset", "load", "publish", "insert"}
Places    == {"idle", "get", "entry", "commit", "flushed", "force", "release"} \cup Searching
Evicting  == {"flush", "remove", "reset", "force", "release"}
Filling   == {"load", "publish"}

WriterType ==
    [pc : Places, block : Blocks \cup {NoBlock}, new : BOOLEAN, frame : Frames \cup {NoFrame}, tries : Nat,
     victim : Blocks \cup {NoBlock}, pins : [Blocks -> Frames \cup {NoFrame}], wrote : SUBSET Blocks]

Touched    == {"confirm", "len", "scan", "validate"}
ReadPlaces == {"idle", "enter", "resolve", "touch", "accepted", "exit"} \cup Touched
ReaderType ==
    [pc : ReadPlaces, block : Blocks \cup {NoBlock}, slot : Nat \cup {Inactive}, seen : Nat,
     frame : Frames \cup {NoFrame}, len : Nat, page : Page, from : [use : Nat, n : Nat]]

ReaderPlace(r) ==
    /\ rd[r].pc # "idle" => rd[r].block \in Blocks
    /\ rd[r].pc \in {"touch"} \cup Touched => rd[r].frame \in Frames

TypeInv ==
    /\ frames \in [Frames -> FrameType]
    /\ table \in [Blocks -> Frames \cup {NoBlock}]
    /\ free \in Seq(Frames)
    /\ clock \in [hand : Int, ref : SUBSET Int, evictable : SUBSET Frames]
    /\ epoch \in Nat
    /\ disk \in [Blocks -> Page \cup {NoBlock}]
    /\ wr \in [Writers -> WriterType]
    /\ rd \in [Readers -> ReaderType] /\ \A r \in Readers : ReaderPlace(r)
    /\ DOMAIN todo = Writers \cup Readers
    /\ \A w \in Writers : todo[w] \in Seq([op : Operations, block : Blocks])
    /\ \A r \in Readers : todo[r] \in Seq(Blocks)
    /\ \A w \in Writers : wr[w].pc # "idle" => todo[w] # <<>>
    /\ \A r \in Readers : rd[r].pc # "idle" => todo[r] # <<>>
    /\ use \in [Blocks -> Use]

(* The page table and the frames name each other, except while a frame is   *)
(* on its way in or out.                                                    *)
Mapped(b) == table[b] \in Frames => frames[table[b]].block = b

Evictable(f) == f \in clock.evictable => frames[f].block \in Blocks

Resident(f) ==
    frames[f].block \in Blocks =>
        \/ table[frames[f].block] = f
        \/ \E w \in Writers : wr[w].frame = f /\ wr[w].pc \in {"reset", "release", "insert"}

Counts(f) == frames[f].pin >= 0

Free ==
    /\ \A i \in 1 .. Len(free) : frames[free[i]].block = NoBlock /\ free[i] \notin clock.evictable
    /\ \A i, j \in 1 .. Len(free) : i # j => free[i] # free[j]

Pinned(w) ==
    \A b \in Blocks : wr[w].pins[b] # NoFrame =>
        /\ table[b] = wr[w].pins[b] /\ frames[table[b]].pin > 0

(* A writer's frame, by its place in the call.                              *)
WriterPlace(w) ==
    LET me == wr[w]
        f  == me.frame
        b  == me.block
    IN  /\ \A c \in me.wrote : me.pins[c] # NoFrame
        /\ me.pc \notin {"idle", "flushed"} => b \in Blocks
        /\ me.pc \in Searching => table[b] = NoBlock
        /\ me.pc \in Evicting =>
              /\ f \in Frames /\ frames[f].block \in Blocks /\ frames[f].pin = 0
              /\ \A i \in 1 .. Len(free) : free[i] # f
        /\ me.pc \in {"flush", "remove"} => table[frames[f].block] = f
        /\ me.pc = "remove" => me.victim = frames[f].block
        /\ me.pc = "reset" => table[frames[f].block] = NoBlock /\ frames[f].block # b
        /\ me.pc \in {"force", "release"} => frames[f].block = b
        /\ me.pc = "force" => table[b] = f
        /\ me.pc = "release" => table[b] = NoBlock
        /\ me.pc \in Filling \cup {"insert"} =>
              /\ f \in Frames /\ f \notin clock.evictable
              /\ \A i \in 1 .. Len(free) : free[i] # f
        /\ me.pc \in Filling => frames[f].block = NoBlock
        /\ me.pc = "insert" => frames[f].block = b /\ frames[f].pin = 1
        /\ me.pc = "commit" => f \in Frames /\ me.pins[b] = f
        /\ me.pc = "flushed" => f \in Frames /\ frames[f].block \in Blocks

PlaceInv ==
    /\ TypeInv
    /\ \A b \in Blocks : Mapped(b)
    /\ \A f \in Frames : Evictable(f) /\ Resident(f) /\ Counts(f)
    /\ Free
    /\ \A w \in Writers : Pinned(w) /\ WriterPlace(w)

(* What a frame has of a block, and what the file has.                      *)
Kept(b) == use[b].state \in {"live", "dead"}

Holds(f, b, extra) ==
    /\ frames[f].page.use = use[b].uses /\ frames[f].len = use[b].n
    /\ frames[f].page.n = use[b].n + extra
OnDisk(b) == disk[b] = [use |-> use[b].uses, n |-> use[b].n, header |-> use[b].n]

Extra(b) == IF \E w \in Writers : wr[w].pc = "commit" /\ wr[w].block = b THEN 1 ELSE 0
Wrote(b) == \E w \in Writers : b \in wr[w].wrote

Stores(b) ==
    /\ Kept(b) /\ table[b] \in Frames =>
          /\ Holds(table[b], b, Extra(b))
          /\ ~frames[table[b]].dirty /\ ~Wrote(b) => OnDisk(b)
    /\ Kept(b) /\ table[b] = NoBlock => OnDisk(b)
    /\ use[b].state = "dead" => OnDisk(b)

WriterData(w) ==
    LET me == wr[w]
        f  == me.frame
        b  == me.block
    IN  /\ me.new => me.pc \in {"entry"} \cup Searching /\ use[b].state = "new" /\ use[b].n = 0
        /\ me.pc \in {"remove", "reset", "flushed"} => (Kept(frames[f].block) => OnDisk(frames[f].block))
        /\ me.pc \in {"force", "release"} => use[b].state = "dead"
        /\ me.pc \in {"publish", "insert"} =>
              /\ frames[f].dirty = me.new
              /\ me.new \/ Kept(b) => Holds(f, b, 0)
        /\ me.pc = "commit" => use[b].state = "live"

DataInv == (\A b \in Blocks : Stores(b)) /\ \A w \in Writers : WriterData(w)

(* The frame of a reader is its block's, or it has become another's and is  *)
(* held back from then on.                                                  *)
Mine(f, b) ==
    /\ frames[f].block \in {b, NoBlock}
    /\ frames[f].page.use = use[b].uses /\ frames[f].len = use[b].n /\ use[b].n <= frames[f].page.n
    /\ frames[f].block = NoBlock =>
          \/ use[b].state = "dead"
          \/ \E w \in Writers : wr[w].frame = f /\ wr[w].pc \in Filling

Another(f, b) ==
    \/ frames[f].block \in Blocks \ {b}
    \/ \E w \in Writers : wr[w].frame = f /\ wr[w].pc = "publish" /\ wr[w].block # b

HeldBack(r) ==
    \/ frames[rd[r].frame].last > rd[r].slot
    \/ \E w \in Writers : wr[w].frame = rd[r].frame /\ wr[w].pc \in Filling

ReaderAt(r) ==
    LET me == rd[r]
        f  == me.frame
        b  == me.block
    IN  /\ me.pc # "idle" => b \in Blocks /\ Kept(b) /\ me.seen <= epoch
        /\ me.pc \notin {"idle", "enter"} => me.slot \in Nat /\ me.slot <= epoch
        /\ me.pc \in {"touch", "accepted"} \cup Touched =>
              f \in Frames /\ me.from.use = use[b].uses /\ me.from.n <= use[b].n
        /\ me.pc = "touch" => table[b] = f
        /\ me.pc \in Touched =>
              /\ HeldBack(r)
              /\ Mine(f, b) \/ Another(f, b)
              /\ \A w \in Writers : wr[w].pc \in Evicting /\ wr[w].frame = f => frames[f].block = b
        /\ me.pc \in {"scan", "validate"} =>
              Another(f, b) \/ (me.from.n <= me.len /\ me.len <= use[b].n)
        /\ me.pc = "validate" => Another(f, b) \/ (me.page.use = use[b].uses /\ me.len <= me.page.n)
        /\ me.pc = "accepted" =>
              me.page.use = use[b].uses /\ me.from.n <= me.len /\ me.len <= me.page.n

ReadInv == \A r \in Readers : ReaderAt(r)

-----------------------------------------------------------------------------
(* The clock *)

LEMMA MinFacts ==
    ASSUME NEW S \in SUBSET Nat, S # {}
    PROVE  Min(S) \in S
<1>1. \E x \in S : \A y \in S : ~(<<y, x>> \in OpToRel(<, Nat))
    BY NatLessThanWellFounded, WFMin
<1>2. PICK x \in S : \A y \in S : ~(y < x)
    BY <1>1 DEF OpToRel
<1>3. \A y \in S : x <= y
    BY <1>2
<1> QED BY <1>3 DEF Min

LEMMA Count == N \in Nat /\ N > 0 /\ Frames = 1 .. N /\ NoFrame \notin Frames
<1>1. N \in Nat
    BY BufferAssumption, FS_CardinalityType DEF N
<1>2. Frames = 1 .. N
    BY BufferAssumption DEF N
<1>3. N > 0
    BY <1>1, <1>2, BufferAssumption
<1> QED BY <1>1, <1>2, <1>3 DEF NoFrame

LEMMA AtType ==
    ASSUME NEW h \in Int, NEW i \in Int
    PROVE  At(h, i) \in Int
<1>1. h - 1 + i \in Int /\ N \in Int /\ N > 0
    BY Count
<1>2. (h - 1 + i) % N \in Int
    BY <1>1
<1> QED BY <1>2 DEF At

(* A candidate is a frame that may be evicted.                              *)
LEMMA CandidateFacts ==
    ASSUME TypeInv
    PROVE  /\ EvictCandidate.frame \in clock.evictable \cup {NoFrame}
           /\ EvictCandidate.clock \in [hand : Int, ref : SUBSET Int, evictable : SUBSET Frames]
           /\ EvictCandidate.clock.evictable = clock.evictable
<1> DEFINE passed(i) == {At(clock.hand, j) : j \in 0 .. i - 1}
           stops(i)  == LET f == At(clock.hand, i)
                        IN  f \in clock.evictable /\ f \notin clock.ref \ passed(i)
           steps     == {i \in 0 .. Sweeps - 1 : stops(i)}
           last      == IF steps = {} THEN Sweeps ELSE Min(steps)
           hand      == At(clock.hand, IF steps = {} THEN last ELSE last + 1)
           ref       == clock.ref \ (clock.evictable \cap passed(last))
<1>1. EvictCandidate = [frame |-> IF steps = {} THEN NoFrame ELSE At(clock.hand, last),
                        clock |-> [clock EXCEPT !.hand = hand, !.ref = ref]]
    BY DEF EvictCandidate
<1>2. clock \in [hand : Int, ref : SUBSET Int, evictable : SUBSET Frames]
    BY DEF TypeInv
<1>3. Sweeps \in Nat
    BY Count DEF Sweeps
<1>4. steps \subseteq Nat
    BY <1>3
<1>5. steps # {} => Min(steps) \in steps
    BY <1>4, MinFacts
<1>6. last \in Nat
    BY <1>3, <1>4, <1>5
<1>7. hand \in Int
    <2> DEFINE i == IF steps = {} THEN last ELSE last + 1
    <2>1. i \in Int /\ clock.hand \in Int
        BY <1>2, <1>6
    <2> QED BY <2>1, AtType
<1>8. steps # {} => At(clock.hand, last) \in clock.evictable
    BY <1>5
<1>9. ref \in SUBSET Int
    BY <1>2
<1> HIDE DEF steps, last, hand, ref
<1> QED BY <1>1, <1>2, <1>7, <1>8, <1>9

(* The calls left are a suffix of those before.                             *)
LEMMA RestType ==
    ASSUME TypeInv, NEW p \in Writers \cup Readers, todo[p] # <<>>, todo' = Rest(p)
    PROVE  /\ DOMAIN todo' = Writers \cup Readers
           /\ \A w \in Writers : todo'[w] \in Seq([op : Operations, block : Blocks])
           /\ \A r \in Readers : todo'[r] \in Seq(Blocks)
<1>1. todo' = [todo EXCEPT ![p] = Tail(@)] /\ DOMAIN todo = Writers \cup Readers
    BY DEF Rest, TypeInv
<1>2. ASSUME NEW w \in Writers PROVE todo'[w] \in Seq([op : Operations, block : Blocks])
    <2> DEFINE C == [op : Operations, block : Blocks]
    <2>1. todo[w] \in Seq(C)
        BY DEF TypeInv
    <2>2. w = p => todo'[w] = Tail(todo[w])
        BY <1>1
    <2>3. w # p => todo'[w] = todo[w]
        BY <1>1
    <2> HIDE DEF C
    <2>4. todo[w] # <<>> => Tail(todo[w]) \in Seq(C)
        BY <2>1
    <2> QED BY <2>1, <2>2, <2>3, <2>4 DEF C
<1>3. ASSUME NEW r \in Readers PROVE todo'[r] \in Seq(Blocks)
    BY <1>1 DEF TypeInv
<1> QED BY <1>1, <1>2, <1>3


(* The call of a writer that is idle.                                       *)
LEMMA CallType ==
    ASSUME TypeInv, NEW w \in Writers, NEW op, Calls(w, op)
    PROVE  todo[w] # <<>> /\ On(w) \in Blocks
<1> DEFINE C == [op : Operations, block : Blocks]
<1>1. todo[w] \in Seq(C) /\ todo[w] # <<>>
    BY DEF Calls, TypeInv
<1> HIDE DEF C
<1>2. Head(todo[w]) \in C
    BY <1>1
<1> QED BY <1>1, <1>2 DEF C, On

(* The record of a writer whose call returns this frame.                    *)
Returned(w, f) == [Back(w) EXCEPT !.pins = [@ EXCEPT ![wr[w].block] = f],
                                  !.wrote = IF wr[w].new THEN @ \cup {wr[w].block} ELSE @]

Live(w) == [use[wr[w].block] EXCEPT !.state = IF wr[w].new THEN "live" ELSE use[wr[w].block].state]

LEMMA BackFacts ==
    ASSUME TypeInv, NEW w \in Writers
    PROVE  /\ Back(w) \in WriterType /\ Back(w).pc = "idle" /\ ~Back(w).new
           /\ Back(w).pins = wr[w].pins /\ Back(w).wrote = wr[w].wrote
<1>1. wr[w] \in WriterType
    BY DEF TypeInv
<1> QED BY <1>1, Count DEF WriterType, Places, Back

LEMMA ReturnedFacts ==
    ASSUME TypeInv, NEW w \in Writers, NEW f \in Frames, wr[w].block \in Blocks
    PROVE  /\ Returned(w, f) \in WriterType /\ Returned(w, f).pc = "idle" /\ ~Returned(w, f).new
           /\ Returned(w, f).pins = [wr[w].pins EXCEPT ![wr[w].block] = f]
           /\ Returned(w, f).wrote = IF wr[w].new THEN wr[w].wrote \cup {wr[w].block} ELSE wr[w].wrote
<1>1. Back(w) \in WriterType
    BY BackFacts
<1> QED BY <1>1, BackFacts, Count DEF WriterType, Returned

LEMMA ReturnFacts ==
    ASSUME TypeInv, NEW w \in Writers, NEW f \in Frames, wr[w].block \in Blocks, Return(w, f)
    PROVE  /\ wr' = [wr EXCEPT ![w] = Returned(w, f)]
           /\ use' = [use EXCEPT ![wr[w].block] = Live(w)]
           /\ todo' = Rest(w)
           /\ use' \in [Blocks -> Use]
<1>1. wr' = [wr EXCEPT ![w] = Returned(w, f)] /\ todo' = Rest(w)
    BY DEF Return, Returned
<1>4. use' = [use EXCEPT ![wr[w].block] = Live(w)]
    BY DEF Return, Linked, Live
<1>2. use[wr[w].block] \in Use
    BY DEF TypeInv
<1>3. Live(w) \in Use
    BY <1>2 DEF Use, Live
<1>5. use \in [Blocks -> Use]
    BY DEF TypeInv
<1> QED BY <1>1, <1>3, <1>4, <1>5

(* The types after a step of a writer, from those of the records it puts.   *)
Typed ==
    /\ frames' \in [Frames -> FrameType]
    /\ table' \in [Blocks -> Frames \cup {NoBlock}]
    /\ free' \in Seq(Frames)
    /\ clock' \in [hand : Int, ref : SUBSET Int, evictable : SUBSET Frames]
    /\ epoch' \in Nat
    /\ disk' \in [Blocks -> Page \cup {NoBlock}]
    /\ wr' \in [Writers -> WriterType]
    /\ use' \in [Blocks -> Use]

Left(w) ==
    /\ rd' = rd
    /\ \/ todo' = todo /\ (wr[w].pc = "idle" => todo[w] # <<>>)
       \/ todo' = Rest(w) /\ wr'[w].pc = "idle" /\ (wr[w].pc = "idle" => todo[w] # <<>>)
    /\ \A v \in Writers : v # w => wr'[v] = wr[v]

LEMMA TypedSuffices ==
    ASSUME TypeInv, NEW w \in Writers, Left(w), Typed
    PROVE  TypeInv'
<1>1. todo[w] # <<>>
    BY DEF TypeInv, Left
<1>2. /\ DOMAIN todo' = Writers \cup Readers
      /\ \A v \in Writers : todo'[v] \in Seq([op : Operations, block : Blocks])
      /\ \A r \in Readers : todo'[r] \in Seq(Blocks)
    <2>1. CASE todo' = todo
        BY <2>1 DEF TypeInv
    <2>2. CASE todo' = Rest(w)
        BY <1>1, <2>2, RestType
    <2> QED BY <2>1, <2>2 DEF Left
<1>3. \A v \in Writers : v # w => todo'[v] = todo[v]
    BY DEF Rest, TypeInv, Left
<1>4. \A r \in Readers : todo'[r] = todo[r]
    BY BufferAssumption DEF Rest, TypeInv, Left
<1>5. \A v \in Writers : wr'[v].pc # "idle" => todo'[v] # <<>>
    BY <1>1, <1>3 DEF TypeInv, Left
<1>6. \A r \in Readers : rd'[r].pc # "idle" => todo'[r] # <<>>
    BY <1>4 DEF TypeInv, Left
<1>7. rd' \in [Readers -> ReaderType] /\ \A r \in Readers : ReaderPlace(r)'
    BY DEF TypeInv, Left, ReaderPlace
<1> QED BY <1>2, <1>5, <1>6, <1>7 DEF TypeInv, Typed

LEMMA ClockTypes ==
    ASSUME TypeInv, NEW f \in Frames
    PROVE  LET T == [hand : Int, ref : SUBSET Int, evictable : SUBSET Frames]
           IN  /\ [clock EXCEPT !.evictable = SetEvictable(f, FALSE)] \in T
               /\ [clock EXCEPT !.evictable = SetEvictable(f, FALSE), !.ref = @ \cup {f}] \in T
               /\ [clock EXCEPT !.evictable = SetEvictable(f, FALSE), !.ref = @] \in T
               /\ [clock EXCEPT !.evictable = @ \cup {f}] \in T
<1>1. clock \in [hand : Int, ref : SUBSET Int, evictable : SUBSET Frames]
    BY DEF TypeInv
<1>2. SetEvictable(f, FALSE) \in SUBSET Frames
    BY <1>1 DEF SetEvictable
<1>3. clock.ref \cup {f} \in SUBSET Int
    BY <1>1, Count
<1> QED BY <1>1, <1>2, <1>3

LEMMA WriterTypes ==
    ASSUME PlaceInv, NEW w \in Writers, PoolCall(w)
    PROVE  TypeInv'
<1> USE Count
<1>a. TypeInv /\ WriterPlace(w)
    BY DEF PlaceInv
<1>b. wr \in [Writers -> WriterType] /\ wr[w] \in WriterType
    BY <1>a DEF TypeInv
<1>c. wr[w].pc \notin {"idle", "flushed"} => wr[w].block \in Blocks
    BY <1>a DEF WriterPlace
<1>d. wr[w].pc \in Evicting \cup Filling \cup {"insert", "commit", "flushed"} => wr[w].frame \in Frames
    BY <1>a DEF WriterPlace
<1>e. wr[w].pc \in Evicting => frames[wr[w].frame].block \in Blocks
    BY <1>a DEF WriterPlace
<1>f. frames \in [Frames -> FrameType] /\ \A f \in Frames : frames[f] \in FrameType
    BY <1>a DEF TypeInv
<1>g. use \in [Blocks -> Use] /\ \A b \in Blocks : use[b] \in Use
    BY <1>a DEF TypeInv
<1>1. CASE FetchPage(w)
    <2> USE DEF FetchPage
    <2>1. On(w) \in Blocks /\ todo[w] # <<>>
        BY <1>a, <1>1, CallType
    <2> DEFINE M == [wr[w] EXCEPT !.pc = "get", !.block = On(w), !.new = FALSE]
    <2>2. wr' = [wr EXCEPT ![w] = M]
        BY <1>1, <2>1, <1>b
    <2>3. M \in WriterType
        BY <2>1, <1>b DEF WriterType, Places, Searching
    <2>4. Left(w)
        BY <1>1, <2>1, <2>2, <2>3, <1>b DEF Left, Calls
    <2> HIDE DEF M
    <2>5. frames' \in [Frames -> FrameType]
        BY <1>1, <2>1, <1>f
    <2>6. wr' \in [Writers -> WriterType]
        BY <1>b, <2>2, <2>3
    <2>7. use' \in [Blocks -> Use]
        BY <1>1, <2>1, <1>g
    <2>8. clock' \in [hand : Int, ref : SUBSET Int, evictable : SUBSET Frames]
        BY <1>1, <2>1, <2>2, <2>3, <1>a, <1>d DEF TypeInv, Evicting, Filling
    <2>9. table' \in [Blocks -> Frames \cup {NoBlock}] /\ epoch' \in Nat
        BY <1>1, <2>1, <1>a, <1>c, <1>d DEF TypeInv
    <2>10. free' \in Seq(Frames)
        BY <1>1, <2>1, <1>a, <1>d DEF TypeInv, Evicting
    <2>11. disk' \in [Blocks -> Page \cup {NoBlock}]
        BY <1>1, <2>1, <2>2, <2>3, <1>a, <1>e, <1>f DEF TypeInv
    <2> QED BY <1>a, <2>4, <2>5, <2>6, <2>7, <2>8, <2>9, <2>10, <2>11, TypedSuffices DEF Typed
<1>2. CASE AllocNewPage(w)
    <2> USE DEF AllocNewPage
    <2>1. On(w) \in Blocks /\ todo[w] # <<>>
        BY <1>a, <1>2, CallType
    <2> DEFINE M == [wr[w] EXCEPT !.pc = "entry", !.block = On(w), !.new = TRUE]
    <2>2. wr' = [wr EXCEPT ![w] = M]
        BY <1>2, <2>1, <1>b
    <2>3. M \in WriterType
        BY <2>1, <1>b DEF WriterType, Places, Searching
    <2> DEFINE U == [state |-> "new", uses |-> use[On(w)].uses + 1, n |-> 0]
    <2>4. On(w) \in Blocks /\ use[On(w)] \in Use
        BY <1>2, <2>1, <1>c, <1>g DEF Searching
    <2>5. use' = [use EXCEPT ![On(w)] = U]
        BY <1>2, <2>1, <2>4, <1>g
    <2>6. U \in Use
        BY <2>4 DEF Use
    <2>7. Left(w)
        BY <1>2, <2>1, <2>2, <2>3, <2>4, <2>5, <2>6, <1>b DEF Left, Calls
    <2> HIDE DEF M, U
    <2>8. frames' \in [Frames -> FrameType]
        BY <1>2, <2>1, <1>f
    <2>9. wr' \in [Writers -> WriterType]
        BY <1>b, <2>2, <2>3
    <2>10. use' \in [Blocks -> Use]
        BY <1>g, <2>5, <2>6
    <2>11. clock' \in [hand : Int, ref : SUBSET Int, evictable : SUBSET Frames]
        BY <1>2, <2>1, <2>2, <2>3, <2>4, <1>a, <1>d DEF TypeInv, Evicting, Filling
    <2>12. table' \in [Blocks -> Frames \cup {NoBlock}] /\ epoch' \in Nat
        BY <1>2, <2>1, <1>a, <1>c, <1>d DEF TypeInv
    <2>13. free' \in Seq(Frames)
        BY <1>2, <2>1, <1>a, <1>d DEF TypeInv, Evicting
    <2>14. disk' \in [Blocks -> Page \cup {NoBlock}]
        BY <1>2, <2>1, <2>2, <2>3, <2>4, <2>5, <2>6, <1>a, <1>e, <1>f DEF TypeInv
    <2> QED BY <1>a, <2>7, <2>8, <2>9, <2>10, <2>11, <2>12, <2>13, <2>14, TypedSuffices DEF Typed
<1>3. CASE Hit(w)
    <2> USE DEF Hit
    <2>1. table[wr[w].block] \in Frames /\ wr[w].block \in Blocks
        BY <1>3, <1>a, <1>c, <1>d DEF TypeInv, Searching
    <2>2. Return(w, table[wr[w].block])
        BY <1>3
    <2>3. /\ wr' = [wr EXCEPT ![w] = Returned(w, table[wr[w].block])] /\ todo' = Rest(w)
          /\ use' \in [Blocks -> Use] /\ Returned(w, table[wr[w].block]) \in WriterType
          /\ Returned(w, table[wr[w].block]).pc = "idle"
        BY <2>1, <2>2, <1>a, ReturnFacts, ReturnedFacts
    <2>4. table[wr[w].block] \in Frames
        BY <1>3, <2>1 DEF TypeInv, WriterType, Evicting, Filling
    <2> DEFINE e == epoch + 1
    <2> DEFINE i == frames[table[wr[w].block]].pin + 1
    <2> DEFINE F == [frames[table[wr[w].block]] EXCEPT !.last = e, !.pin = i]
    <2>5. frames' = [frames EXCEPT ![table[wr[w].block]] = F]
        BY <1>3, <2>4, <1>f DEF Advance
    <2>6. frames[table[wr[w].block]] \in FrameType /\ epoch \in Nat
        BY <1>a, <1>f, <2>4 DEF TypeInv
    <2>7. e \in Nat
        BY <2>6 DEF FrameType
    <2>8. i \in Int
        BY <2>6, <2>7 DEF FrameType
    <2> HIDE DEF e, i
    <2>9. F \in FrameType
        BY <2>6, <2>7, <2>8 DEF FrameType
    <2>10. Left(w)
        BY <1>3, <2>1, <2>2, <2>3, <2>4, <2>5, <2>6, <2>7, <2>8, <2>9, <1>b, BackFacts, <1>a DEF Left, Calls
    <2> HIDE DEF F
    <2>11. frames' \in [Frames -> FrameType]
        BY <1>f, <2>4, <2>5, <2>9
    <2>12. wr' \in [Writers -> WriterType]
        BY <1>b, <2>3
    <2>13. use' \in [Blocks -> Use]
        BY <1>g, <2>3
    <2>14. clock' \in [hand : Int, ref : SUBSET Int, evictable : SUBSET Frames]
        BY <1>3, <2>1, <2>2, <2>3, <1>a, <1>d, ClockTypes DEF TypeInv, Evicting, Filling
    <2>15. table' \in [Blocks -> Frames \cup {NoBlock}] /\ epoch' \in Nat
        BY <1>3, <1>a, <1>c, <1>d DEF TypeInv
    <2>16. free' \in Seq(Frames)
        BY <1>3, <1>a, <1>d DEF TypeInv, Evicting
    <2>17. disk' \in [Blocks -> Page \cup {NoBlock}]
        BY <1>3, <2>1, <2>2, <2>3, <2>4, <2>5, <2>6, <2>7, <2>8, <2>9, <1>a, <1>e, <1>f DEF TypeInv
    <2> QED BY <1>a, <2>10, <2>11, <2>12, <2>13, <2>14, <2>15, <2>16, <2>17, TypedSuffices DEF Typed
<1>4. CASE Miss(w)
    <2> USE DEF Miss
    <2> DEFINE M == [wr[w] EXCEPT !.pc = "entry"]
    <2>1. wr' = [wr EXCEPT ![w] = M]
        BY <1>4, <1>b DEF Goto
    <2>2. M \in WriterType
        BY <1>b DEF WriterType, Places, Searching
    <2>3. Left(w)
        BY <1>4, <2>1, <2>2, <1>b DEF Left, Calls
    <2> HIDE DEF M
    <2>4. frames' \in [Frames -> FrameType]
        BY <1>4, <1>f
    <2>5. wr' \in [Writers -> WriterType]
        BY <1>b, <2>1, <2>2
    <2>6. use' \in [Blocks -> Use]
        BY <1>4, <1>g
    <2>7. clock' \in [hand : Int, ref : SUBSET Int, evictable : SUBSET Frames]
        BY <1>4, <2>1, <2>2, <1>a, <1>d DEF TypeInv, Evicting, Filling
    <2>8. table' \in [Blocks -> Frames \cup {NoBlock}] /\ epoch' \in Nat
        BY <1>4, <1>a, <1>c, <1>d DEF TypeInv
    <2>9. free' \in Seq(Frames)
        BY <1>4, <1>a, <1>d DEF TypeInv, Evicting
    <2>10. disk' \in [Blocks -> Page \cup {NoBlock}]
        BY <1>4, <2>1, <2>2, <1>a, <1>e, <1>f DEF TypeInv
    <2> QED BY <1>a, <2>3, <2>4, <2>5, <2>6, <2>7, <2>8, <2>9, <2>10, TypedSuffices DEF Typed
<1>5. CASE Reinit(w)
    <2> USE DEF Reinit
    <2>1. table[wr[w].block] \in Frames /\ wr[w].block \in Blocks
        BY <1>5, <1>a, <1>c, <1>d DEF TypeInv, Searching
    <2>2. Return(w, table[wr[w].block])
        BY <1>5
    <2>3. /\ wr' = [wr EXCEPT ![w] = Returned(w, table[wr[w].block])] /\ todo' = Rest(w)
          /\ use' \in [Blocks -> Use] /\ Returned(w, table[wr[w].block]) \in WriterType
          /\ Returned(w, table[wr[w].block]).pc = "idle"
        BY <2>1, <2>2, <1>a, ReturnFacts, ReturnedFacts
    <2>4. table[wr[w].block] \in Frames
        BY <1>5, <2>1 DEF TypeInv, WriterType, Evicting, Filling
    <2> DEFINE q == NewPage(use[wr[w].block].uses)
    <2> DEFINE i == frames[table[wr[w].block]].pin + 1
    <2> DEFINE F == [frames[table[wr[w].block]] EXCEPT !.page = q, !.len = 0, !.latch = FALSE, !.dirty = TRUE, !.pin = i]
    <2>5. frames' = [frames EXCEPT ![table[wr[w].block]] = F]
        BY <1>5, <1>a
    <2>6. frames[table[wr[w].block]] \in FrameType /\ epoch \in Nat
        BY <1>a, <1>f, <2>4 DEF TypeInv
    <2>7. use[wr[w].block].uses \in Nat
        BY <1>5, <2>6, <1>a, <1>c, <1>g, <2>1 DEF Use
    <2>8. q \in Page
        BY <2>6, <2>7 DEF FrameType, NewPage, Page
    <2>9. i \in Int
        BY <2>6, <2>7, <2>8 DEF FrameType
    <2> HIDE DEF q, i
    <2>10. F \in FrameType
        BY <2>6, <2>7, <2>8, <2>9 DEF FrameType
    <2>11. Left(w)
        BY <1>5, <2>1, <2>2, <2>3, <2>4, <2>5, <2>6, <2>7, <2>8, <2>9, <2>10, <1>b, BackFacts, <1>a DEF Left, Calls
    <2> HIDE DEF F
    <2>12. frames' \in [Frames -> FrameType]
        BY <1>f, <2>4, <2>5, <2>10
    <2>13. wr' \in [Writers -> WriterType]
        BY <1>b, <2>3
    <2>14. use' \in [Blocks -> Use]
        BY <1>g, <2>3
    <2>15. clock' \in [hand : Int, ref : SUBSET Int, evictable : SUBSET Frames]
        BY <1>5, <2>1, <2>2, <2>3, <1>a, <1>d DEF TypeInv, Evicting, Filling
    <2>16. table' \in [Blocks -> Frames \cup {NoBlock}] /\ epoch' \in Nat
        BY <1>5, <1>a, <1>c, <1>d DEF TypeInv
    <2>17. free' \in Seq(Frames)
        BY <1>5, <1>a, <1>d DEF TypeInv, Evicting
    <2>18. disk' \in [Blocks -> Page \cup {NoBlock}]
        BY <1>5, <2>1, <2>2, <2>3, <2>4, <2>5, <2>6, <2>7, <2>8, <2>9, <2>10, <1>a, <1>e, <1>f DEF TypeInv
    <2> QED BY <1>a, <2>11, <2>12, <2>13, <2>14, <2>15, <2>16, <2>17, <2>18, TypedSuffices DEF Typed
<1>6. CASE Vacant(w)
    <2> USE DEF Vacant
    <2> DEFINE M == [wr[w] EXCEPT !.pc = "alloc", !.tries = 0]
    <2>1. wr' = [wr EXCEPT ![w] = M]
        BY <1>6, <1>b
    <2>2. M \in WriterType
        BY <1>b DEF WriterType, Places, Searching
    <2>3. Left(w)
        BY <1>6, <2>1, <2>2, <1>b DEF Left, Calls
    <2> HIDE DEF M
    <2>4. frames' \in [Frames -> FrameType]
        BY <1>6, <1>f
    <2>5. wr' \in [Writers -> WriterType]
        BY <1>b, <2>1, <2>2
    <2>6. use' \in [Blocks -> Use]
        BY <1>6, <1>g
    <2>7. clock' \in [hand : Int, ref : SUBSET Int, evictable : SUBSET Frames]
        BY <1>6, <2>1, <2>2, <1>a, <1>d DEF TypeInv, Evicting, Filling
    <2>8. table' \in [Blocks -> Frames \cup {NoBlock}] /\ epoch' \in Nat
        BY <1>6, <1>a, <1>c, <1>d DEF TypeInv
    <2>9. free' \in Seq(Frames)
        BY <1>6, <1>a, <1>d DEF TypeInv, Evicting
    <2>10. disk' \in [Blocks -> Page \cup {NoBlock}]
        BY <1>6, <2>1, <2>2, <1>a, <1>e, <1>f DEF TypeInv
    <2> QED BY <1>a, <2>3, <2>4, <2>5, <2>6, <2>7, <2>8, <2>9, <2>10, TypedSuffices DEF Typed
<1>7. CASE TakeFree(w)
    <2> USE DEF TakeFree
    <2> DEFINE M == [wr[w] EXCEPT !.pc = "load", !.frame = Head(free)]
    <2>1. wr' = [wr EXCEPT ![w] = M]
        BY <1>7, <1>b
    <2>2. Head(free) \in Frames
        BY <1>7, <1>a DEF TypeInv
    <2>3. M \in WriterType
        BY <2>2, <1>b DEF WriterType, Places, Searching
    <2>4. Left(w)
        BY <1>7, <2>1, <2>2, <2>3, <1>b DEF Left, Calls
    <2> HIDE DEF M
    <2>5. frames' \in [Frames -> FrameType]
        BY <1>7, <1>f
    <2>6. wr' \in [Writers -> WriterType]
        BY <1>b, <2>1, <2>3
    <2>7. use' \in [Blocks -> Use]
        BY <1>7, <1>g
    <2>8. clock' \in [hand : Int, ref : SUBSET Int, evictable : SUBSET Frames]
        BY <1>7, <2>1, <2>2, <2>3, <1>a, <1>d DEF TypeInv, Evicting, Filling
    <2>9. table' \in [Blocks -> Frames \cup {NoBlock}] /\ epoch' \in Nat
        BY <1>7, <1>a, <1>c, <1>d DEF TypeInv
    <2>10. free' \in Seq(Frames)
        BY <1>7, <1>a, <1>d DEF TypeInv, Evicting
    <2>11. disk' \in [Blocks -> Page \cup {NoBlock}]
        BY <1>7, <2>1, <2>2, <2>3, <1>a, <1>e, <1>f DEF TypeInv
    <2> QED BY <1>a, <2>4, <2>5, <2>6, <2>7, <2>8, <2>9, <2>10, <2>11, TypedSuffices DEF Typed
<1>8. CASE Candidate(w)
    <2> DEFINE c == EvictCandidate.frame
           M == IF c = NoFrame THEN [wr[w] EXCEPT !.pc = "none"]
                ELSE IF MayEvict(c) THEN [wr[w] EXCEPT !.pc = "flush", !.frame = c]
                ELSE [wr[w] EXCEPT !.tries = Tried(w), !.pc = IF Tried(w) = 2 * N THEN "none" ELSE "alloc"]
    <2>7. wr' = [wr EXCEPT ![w] = M]
        BY <1>8 DEF Candidate
    <2>1. /\ clock' = EvictCandidate.clock /\ wr' = [wr EXCEPT ![w] = M] /\ wr[w].pc = "alloc"
          /\ UNCHANGED <<frames, table, free, epoch, disk, rd, todo, use>>
        BY <1>8, <2>7 DEF Candidate
    <2>2. c \in Frames \cup {NoFrame} /\ clock' \in [hand : Int, ref : SUBSET Int, evictable : SUBSET Frames]
        BY <1>a, <2>1, CandidateFacts DEF TypeInv
    <2>3. Tried(w) \in Nat
        BY <1>b DEF Tried, WriterType
    <2> HIDE DEF c
    <2>4. M \in WriterType
        <3>1. [wr[w] EXCEPT !.pc = "none"] \in WriterType
            BY <1>b DEF WriterType, Places, Searching
        <3>2. [wr[w] EXCEPT !.pc = "flush", !.frame = c] \in WriterType
            BY <1>b, <2>2 DEF WriterType, Places, Searching
        <3>3. [wr[w] EXCEPT !.tries = Tried(w), !.pc = IF Tried(w) = 2 * N THEN "none" ELSE "alloc"] \in WriterType
            BY <1>b, <2>3 DEF WriterType, Places, Searching
        <3> QED BY <3>1, <3>2, <3>3
    <2> HIDE DEF M
    <2>5. wr' \in [Writers -> WriterType]
        BY <1>b, <2>1, <2>4
    <2>6. Left(w)
        BY <2>1, <1>b DEF Left
    <2> QED BY <1>a, <2>1, <2>2, <2>5, <2>6, TypedSuffices DEF Typed, TypeInv
<1>9. CASE GiveUp(w)
    <2> USE DEF GiveUp
    <2> DEFINE M == Back(w)
    <2>1. wr' = [wr EXCEPT ![w] = M]
        BY <1>9, <1>b
    <2>2. M \in WriterType
        BY <1>b, <1>a, BackFacts DEF WriterType, Places, Searching
    <2> DEFINE U == [use[wr[w].block] EXCEPT !.state = IF wr[w].new THEN "unused" ELSE @]
    <2>3. wr[w].block \in Blocks /\ use[wr[w].block] \in Use
        BY <1>9, <1>c, <1>g DEF Searching
    <2>4. use' = [use EXCEPT ![wr[w].block] = U]
        BY <1>9, <2>3, <1>g
    <2>5. U \in Use
        BY <2>3 DEF Use
    <2>6. Left(w)
        BY <1>9, <2>1, <2>2, <2>3, <2>4, <2>5, <1>b, BackFacts, <1>a DEF Left, Calls
    <2> HIDE DEF M, U
    <2>7. frames' \in [Frames -> FrameType]
        BY <1>9, <1>f
    <2>8. wr' \in [Writers -> WriterType]
        BY <1>b, <2>1, <2>2
    <2>9. use' \in [Blocks -> Use]
        BY <1>g, <2>4, <2>5
    <2>10. clock' \in [hand : Int, ref : SUBSET Int, evictable : SUBSET Frames]
        BY <1>9, <2>1, <2>2, <2>3, <1>a, <1>d DEF TypeInv, Evicting, Filling
    <2>11. table' \in [Blocks -> Frames \cup {NoBlock}] /\ epoch' \in Nat
        BY <1>9, <1>a, <1>c, <1>d DEF TypeInv
    <2>12. free' \in Seq(Frames)
        BY <1>9, <1>a, <1>d DEF TypeInv, Evicting
    <2>13. disk' \in [Blocks -> Page \cup {NoBlock}]
        BY <1>9, <2>1, <2>2, <2>3, <2>4, <2>5, <1>a, <1>e, <1>f DEF TypeInv
    <2> QED BY <1>a, <2>6, <2>7, <2>8, <2>9, <2>10, <2>11, <2>12, <2>13, TypedSuffices DEF Typed
<1>10. CASE FlushVictim(w)
    <2> USE DEF FlushVictim
    <2> DEFINE M == [wr[w] EXCEPT !.victim = frames[wr[w].frame].block, !.pc = "remove"]
    <2>3. wr[w].frame \in Frames
        BY <1>10, <1>a, <1>b, <1>d DEF TypeInv, WriterType, Evicting, Filling
    <2>0. frames[wr[w].frame].block \in Blocks /\ frames[wr[w].frame].block # NoBlock
        BY <1>10, <1>e, BufferAssumption DEF Evicting
    <2>1. wr' = [wr EXCEPT ![w] = M]
        BY <1>10, <1>b, <2>0
    <2>2. M \in WriterType
        BY <1>b, <2>0 DEF WriterType, Places, Searching
    <2> DEFINE q == IF frames[wr[w].frame].dirty THEN Synced(wr[w].frame) ELSE frames[wr[w].frame].page
    <2> DEFINE F == [frames[wr[w].frame] EXCEPT !.page = q]
    <2>4. frames' = [frames EXCEPT ![wr[w].frame] = F]
        BY <1>10, <2>0, <2>3, <1>f
    <2>5. frames[wr[w].frame] \in FrameType /\ epoch \in Nat
        BY <1>a, <1>f, <2>3 DEF TypeInv
    <2>6. q \in Page
        BY <2>5 DEF FrameType, Synced, Page
    <2> HIDE DEF q
    <2>7. F \in FrameType
        BY <2>5, <2>6 DEF FrameType
    <2>8. Left(w)
        BY <1>10, <2>1, <2>2, <2>3, <2>4, <2>5, <2>6, <2>7, <1>b DEF Left, Calls
    <2> HIDE DEF M, F
    <2>9. frames' \in [Frames -> FrameType]
        BY <1>f, <2>3, <2>4, <2>7
    <2>10. wr' \in [Writers -> WriterType]
        BY <1>b, <2>1, <2>2
    <2>11. use' \in [Blocks -> Use]
        BY <1>10, <1>g
    <2>12. clock' \in [hand : Int, ref : SUBSET Int, evictable : SUBSET Frames]
        BY <1>10, <2>1, <2>2, <2>3, <1>a, <1>d DEF TypeInv, Evicting, Filling
    <2>13. table' \in [Blocks -> Frames \cup {NoBlock}] /\ epoch' \in Nat
        BY <1>10, <1>a, <1>c, <1>d DEF TypeInv
    <2>14. free' \in Seq(Frames)
        BY <1>10, <1>a, <1>d DEF TypeInv, Evicting
    <2>15. disk' \in [Blocks -> Page \cup {NoBlock}]
        BY <1>10, <2>1, <2>2, <2>3, <2>4, <2>5, <2>6, <2>7, <1>a, <1>e, <1>f DEF TypeInv, WritePage, Synced, Page, FrameType, Evicting
    <2> QED BY <1>a, <2>8, <2>9, <2>10, <2>11, <2>12, <2>13, <2>14, <2>15, TypedSuffices DEF Typed
<1>11. CASE RemoveVictim(w)
    <2> USE DEF RemoveVictim
    <2> DEFINE M == [wr[w] EXCEPT !.pc = "reset"]
    <2>1. wr' = [wr EXCEPT ![w] = M]
        BY <1>11, <1>b DEF Goto
    <2>2. M \in WriterType
        BY <1>b DEF WriterType, Places, Searching
    <2>3. Left(w)
        BY <1>11, <2>1, <2>2, <1>b DEF Left, Calls
    <2> HIDE DEF M
    <2>4. frames' \in [Frames -> FrameType]
        BY <1>11, <1>f
    <2>5. wr' \in [Writers -> WriterType]
        BY <1>b, <2>1, <2>2
    <2>6. use' \in [Blocks -> Use]
        BY <1>11, <1>g
    <2>7. clock' \in [hand : Int, ref : SUBSET Int, evictable : SUBSET Frames]
        BY <1>11, <2>1, <2>2, <1>a, <1>d DEF TypeInv, Evicting, Filling
    <2>8. table' \in [Blocks -> Frames \cup {NoBlock}] /\ epoch' \in Nat
        BY <1>11, <1>a, <1>c, <1>d DEF TypeInv
    <2>9. free' \in Seq(Frames)
        BY <1>11, <1>a, <1>d DEF TypeInv, Evicting
    <2>10. disk' \in [Blocks -> Page \cup {NoBlock}]
        BY <1>11, <2>1, <2>2, <1>a, <1>e, <1>f DEF TypeInv
    <2> QED BY <1>a, <2>3, <2>4, <2>5, <2>6, <2>7, <2>8, <2>9, <2>10, TypedSuffices DEF Typed
<1>12. CASE ResetVictim(w)
    <2> USE DEF ResetVictim
    <2> DEFINE M == [wr[w] EXCEPT !.pc = "load"]
    <2>1. wr' = [wr EXCEPT ![w] = M]
        BY <1>12, <1>b DEF Goto
    <2>2. M \in WriterType
        BY <1>b DEF WriterType, Places, Searching
    <2>3. wr[w].frame \in Frames
        BY <1>12, <1>a, <1>b, <1>d DEF TypeInv, WriterType, Evicting, Filling
    <2> DEFINE z == 0
    <2> DEFINE i == 0
    <2> DEFINE F == [frames[wr[w].frame] EXCEPT !.block = NoBlock, !.dirty = FALSE, !.pin = i, !.last = z, !.latch = FALSE]
    <2>4. frames' = [frames EXCEPT ![wr[w].frame] = F]
        BY <1>12, <2>3, <1>f DEF Emptied
    <2>5. frames[wr[w].frame] \in FrameType /\ epoch \in Nat
        BY <1>a, <1>f, <2>3 DEF TypeInv
    <2>6. z \in Nat
        BY <2>5 DEF FrameType
    <2>7. i \in Int
        BY <2>5, <2>6 DEF FrameType
    <2> HIDE DEF z, i
    <2>8. F \in FrameType
        BY <2>5, <2>6, <2>7 DEF FrameType
    <2>9. Left(w)
        BY <1>12, <2>1, <2>2, <2>3, <2>4, <2>5, <2>6, <2>7, <2>8, <1>b DEF Left, Calls
    <2> HIDE DEF M, F
    <2>10. frames' \in [Frames -> FrameType]
        BY <1>f, <2>3, <2>4, <2>8
    <2>11. wr' \in [Writers -> WriterType]
        BY <1>b, <2>1, <2>2
    <2>12. use' \in [Blocks -> Use]
        BY <1>12, <1>g
    <2>13. clock' \in [hand : Int, ref : SUBSET Int, evictable : SUBSET Frames]
        BY <1>12, <2>1, <2>2, <2>3, <1>a, <1>d, ClockTypes DEF TypeInv, Evicting, Filling
    <2>14. table' \in [Blocks -> Frames \cup {NoBlock}] /\ epoch' \in Nat
        BY <1>12, <1>a, <1>c, <1>d DEF TypeInv
    <2>15. free' \in Seq(Frames)
        BY <1>12, <1>a, <1>d DEF TypeInv, Evicting
    <2>16. disk' \in [Blocks -> Page \cup {NoBlock}]
        BY <1>12, <2>1, <2>2, <2>3, <2>4, <2>5, <2>6, <2>7, <2>8, <1>a, <1>e, <1>f DEF TypeInv
    <2> QED BY <1>a, <2>9, <2>10, <2>11, <2>12, <2>13, <2>14, <2>15, <2>16, TypedSuffices DEF Typed
<1>13. CASE LoadPage(w)
    <2> USE DEF LoadPage
    <2> DEFINE M == [wr[w] EXCEPT !.pc = "publish"]
    <2>1. wr' = [wr EXCEPT ![w] = M]
        BY <1>13, <1>b DEF Goto
    <2>2. M \in WriterType
        BY <1>b DEF WriterType, Places, Searching
    <2>3. wr[w].frame \in Frames
        BY <1>13, <1>a, <1>b, <1>d DEF TypeInv, WriterType, Evicting, Filling
    <2> DEFINE q == IF wr[w].new THEN NewPage(use[wr[w].block].uses) ELSE disk[wr[w].block]
    <2> DEFINE l == RebuildLen(q)
    <2> DEFINE d == wr[w].new
    <2> DEFINE F == [frames[wr[w].frame] EXCEPT !.page = q, !.len = l, !.dirty = d]
    <2>4. frames' = [frames EXCEPT ![wr[w].frame] = F]
        BY <1>13, <2>3, <1>f
    <2>5. frames[wr[w].frame] \in FrameType /\ epoch \in Nat
        BY <1>a, <1>f, <2>3 DEF TypeInv
    <2>6. q \in Page /\ d \in BOOLEAN
        BY <1>13, <2>5, <1>a, <1>c, <1>g, <1>b DEF NewPage, Page, Use, TypeInv, Searching, WriterType
    <2>7. l \in Nat
        BY <1>13, <2>5, <1>a, <1>c, <1>g, <2>6 DEF RebuildLen, Page
    <2>8. q \in Page
        BY <2>5, <2>6, <2>7 DEF FrameType
    <2>9. l \in Nat
        BY <2>5, <2>6, <2>7, <2>8 DEF FrameType
    <2>10. d \in BOOLEAN
        BY <2>5, <2>6, <2>7, <2>8, <2>9 DEF FrameType
    <2> HIDE DEF q, l, d
    <2>11. F \in FrameType
        BY <2>5, <2>6, <2>7, <2>8, <2>9, <2>10 DEF FrameType
    <2>12. Left(w)
        BY <1>13, <2>1, <2>2, <2>3, <2>4, <2>5, <2>6, <2>7, <2>8, <2>9, <2>10, <2>11, <1>b DEF Left, Calls
    <2> HIDE DEF M, F
    <2>13. frames' \in [Frames -> FrameType]
        BY <1>f, <2>3, <2>4, <2>11
    <2>14. wr' \in [Writers -> WriterType]
        BY <1>b, <2>1, <2>2
    <2>15. use' \in [Blocks -> Use]
        BY <1>13, <1>g
    <2>16. clock' \in [hand : Int, ref : SUBSET Int, evictable : SUBSET Frames]
        BY <1>13, <2>1, <2>2, <2>3, <1>a, <1>d DEF TypeInv, Evicting, Filling
    <2>17. table' \in [Blocks -> Frames \cup {NoBlock}] /\ epoch' \in Nat
        BY <1>13, <1>a, <1>c, <1>d DEF TypeInv
    <2>18. free' \in Seq(Frames)
        BY <1>13, <1>a, <1>d DEF TypeInv, Evicting
    <2>19. disk' \in [Blocks -> Page \cup {NoBlock}]
        BY <1>13, <2>1, <2>2, <2>3, <2>4, <2>5, <2>6, <2>7, <2>8, <2>9, <2>10, <2>11, <1>a, <1>e, <1>f DEF TypeInv
    <2> QED BY <1>a, <2>12, <2>13, <2>14, <2>15, <2>16, <2>17, <2>18, <2>19, TypedSuffices DEF Typed
<1>14. CASE Publish(w)
    <2> USE DEF Publish
    <2> DEFINE M == [wr[w] EXCEPT !.pc = "insert"]
    <2>1. wr' = [wr EXCEPT ![w] = M]
        BY <1>14, <1>b DEF Goto
    <2>2. M \in WriterType
        BY <1>b DEF WriterType, Places, Searching
    <2>3. wr[w].frame \in Frames
        BY <1>14, <1>a, <1>b, <1>d DEF TypeInv, WriterType, Evicting, Filling
    <2> DEFINE e == epoch + 1
    <2> DEFINE i == 1
    <2> DEFINE b == wr[w].block
    <2> DEFINE F == [frames[wr[w].frame] EXCEPT !.last = e, !.pin = i, !.block = b]
    <2>4. frames' = [frames EXCEPT ![wr[w].frame] = F]
        BY <1>14, <2>3, <1>f DEF Advance
    <2>5. frames[wr[w].frame] \in FrameType /\ epoch \in Nat
        BY <1>a, <1>f, <2>3 DEF TypeInv
    <2>6. wr[w].block \in Blocks
        BY <1>14, <2>5, <1>a, <1>c, <1>g, <1>b DEF Searching
    <2>7. e \in Nat
        BY <2>5, <2>6 DEF FrameType
    <2>8. i \in Int
        BY <2>5, <2>6, <2>7 DEF FrameType
    <2>9. b \in Blocks
        BY <2>5, <2>6, <2>7, <2>8 DEF FrameType
    <2> HIDE DEF e, i, b
    <2>10. F \in FrameType
        BY <2>5, <2>6, <2>7, <2>8, <2>9 DEF FrameType
    <2>11. Left(w)
        BY <1>14, <2>1, <2>2, <2>3, <2>4, <2>5, <2>6, <2>7, <2>8, <2>9, <2>10, <1>b DEF Left, Calls
    <2> HIDE DEF M, F
    <2>12. frames' \in [Frames -> FrameType]
        BY <1>f, <2>3, <2>4, <2>10
    <2>13. wr' \in [Writers -> WriterType]
        BY <1>b, <2>1, <2>2
    <2>14. use' \in [Blocks -> Use]
        BY <1>14, <1>g
    <2>15. clock' \in [hand : Int, ref : SUBSET Int, evictable : SUBSET Frames]
        BY <1>14, <2>1, <2>2, <2>3, <1>a, <1>d DEF TypeInv, Evicting, Filling
    <2>16. table' \in [Blocks -> Frames \cup {NoBlock}] /\ epoch' \in Nat
        BY <1>14, <1>a, <1>c, <1>d DEF TypeInv
    <2>17. free' \in Seq(Frames)
        BY <1>14, <1>a, <1>d DEF TypeInv, Evicting
    <2>18. disk' \in [Blocks -> Page \cup {NoBlock}]
        BY <1>14, <2>1, <2>2, <2>3, <2>4, <2>5, <2>6, <2>7, <2>8, <2>9, <2>10, <1>a, <1>e, <1>f DEF TypeInv
    <2> QED BY <1>a, <2>11, <2>12, <2>13, <2>14, <2>15, <2>16, <2>17, <2>18, TypedSuffices DEF Typed
<1>15. CASE Insert(w)
    <2> USE DEF Insert
    <2>1. wr[w].frame \in Frames /\ wr[w].block \in Blocks
        BY <1>15, <1>a, <1>c, <1>d DEF TypeInv, Searching
    <2>2. Return(w, wr[w].frame)
        BY <1>15
    <2>3. /\ wr' = [wr EXCEPT ![w] = Returned(w, wr[w].frame)] /\ todo' = Rest(w)
          /\ use' \in [Blocks -> Use] /\ Returned(w, wr[w].frame) \in WriterType
          /\ Returned(w, wr[w].frame).pc = "idle"
        BY <2>1, <2>2, <1>a, ReturnFacts, ReturnedFacts
    <2>4. Left(w)
        BY <1>15, <2>1, <2>2, <2>3, <1>b, BackFacts, <1>a DEF Left, Calls
    <2>5. frames' \in [Frames -> FrameType]
        BY <1>15, <1>f
    <2>6. wr' \in [Writers -> WriterType]
        BY <1>b, <2>3
    <2>7. use' \in [Blocks -> Use]
        BY <1>g, <2>3
    <2>8. clock' \in [hand : Int, ref : SUBSET Int, evictable : SUBSET Frames]
        BY <1>15, <2>1, <2>2, <2>3, <1>a, <1>d, ClockTypes DEF TypeInv, Evicting, Filling
    <2>9. table' \in [Blocks -> Frames \cup {NoBlock}] /\ epoch' \in Nat
        BY <1>15, <1>a, <1>c, <1>d DEF TypeInv
    <2>10. free' \in Seq(Frames)
        BY <1>15, <1>a, <1>d DEF TypeInv, Evicting
    <2>11. disk' \in [Blocks -> Page \cup {NoBlock}]
        BY <1>15, <2>1, <2>2, <2>3, <1>a, <1>e, <1>f DEF TypeInv
    <2> QED BY <1>a, <2>4, <2>5, <2>6, <2>7, <2>8, <2>9, <2>10, <2>11, TypedSuffices DEF Typed
<1>16. CASE Append_Data(w)
    <2> USE DEF Append_Data
    <2>1. On(w) \in Blocks /\ todo[w] # <<>>
        BY <1>a, <1>16, CallType
    <2> DEFINE M == [wr[w] EXCEPT !.pc = "commit", !.block = On(w), !.frame = wr[w].pins[On(w)]]
    <2>2. wr' = [wr EXCEPT ![w] = M]
        BY <1>16, <2>1, <1>b
    <2>3. M \in WriterType
        BY <2>1, <1>b DEF WriterType, Places, Searching
    <2>4. wr[w].pins[On(w)] \in Frames
        BY <1>16, <2>1, <1>a, <1>b, <1>d DEF TypeInv, WriterType, Evicting, Filling
    <2> DEFINE c == frames[wr[w].pins[On(w)]].page.n + 1
    <2> DEFINE q == [frames[wr[w].pins[On(w)]].page EXCEPT !.n = c]
    <2> DEFINE F == [frames[wr[w].pins[On(w)]] EXCEPT !.latch = TRUE, !.page = q]
    <2>5. frames' = [frames EXCEPT ![wr[w].pins[On(w)]] = F]
        BY <1>16, <2>1, <2>4, <1>f
    <2>6. frames[wr[w].pins[On(w)]] \in FrameType /\ epoch \in Nat
        BY <1>a, <1>f, <2>4 DEF TypeInv
    <2>7. c \in Nat
        BY <2>6 DEF FrameType, Page
    <2>8. q \in Page
        BY <2>6, <2>7 DEF FrameType, Page
    <2> HIDE DEF c, q
    <2>9. F \in FrameType
        BY <2>6, <2>7, <2>8 DEF FrameType
    <2>10. Left(w)
        BY <1>16, <2>1, <2>2, <2>3, <2>4, <2>5, <2>6, <2>7, <2>8, <2>9, <1>b DEF Left, Calls
    <2> HIDE DEF M, F
    <2>11. frames' \in [Frames -> FrameType]
        BY <1>f, <2>4, <2>5, <2>9
    <2>12. wr' \in [Writers -> WriterType]
        BY <1>b, <2>2, <2>3
    <2>13. use' \in [Blocks -> Use]
        BY <1>16, <2>1, <1>g
    <2>14. clock' \in [hand : Int, ref : SUBSET Int, evictable : SUBSET Frames]
        BY <1>16, <2>1, <2>2, <2>3, <2>4, <1>a, <1>d DEF TypeInv, Evicting, Filling
    <2>15. table' \in [Blocks -> Frames \cup {NoBlock}] /\ epoch' \in Nat
        BY <1>16, <2>1, <1>a, <1>c, <1>d DEF TypeInv
    <2>16. free' \in Seq(Frames)
        BY <1>16, <2>1, <1>a, <1>d DEF TypeInv, Evicting
    <2>17. disk' \in [Blocks -> Page \cup {NoBlock}]
        BY <1>16, <2>1, <2>2, <2>3, <2>4, <2>5, <2>6, <2>7, <2>8, <2>9, <1>a, <1>e, <1>f DEF TypeInv
    <2> QED BY <1>a, <2>10, <2>11, <2>12, <2>13, <2>14, <2>15, <2>16, <2>17, TypedSuffices DEF Typed
<1>17. CASE Append_Commit(w)
    <2> USE DEF Append_Commit
    <2> DEFINE M == [Back(w) EXCEPT !.wrote = @ \cup {wr[w].block}]
    <2>1. wr' = [wr EXCEPT ![w] = M]
        BY <1>17, <1>b
    <2>2. M \in WriterType
        BY <1>b, <1>a, BackFacts, <1>c, <1>17 DEF WriterType, Places, Searching
    <2>3. wr[w].frame \in Frames
        BY <1>17, <1>a, <1>b, <1>d DEF TypeInv, WriterType, Evicting, Filling
    <2> DEFINE l == frames[wr[w].frame].len + 1
    <2> DEFINE F == [frames[wr[w].frame] EXCEPT !.latch = FALSE, !.len = l]
    <2>4. frames' = [frames EXCEPT ![wr[w].frame] = F]
        BY <1>17, <2>3, <1>f
    <2>5. frames[wr[w].frame] \in FrameType /\ epoch \in Nat
        BY <1>a, <1>f, <2>3 DEF TypeInv
    <2>6. l \in Nat
        BY <2>5 DEF FrameType
    <2> HIDE DEF l
    <2>7. F \in FrameType
        BY <2>5, <2>6 DEF FrameType
    <2> DEFINE U == [use[wr[w].block] EXCEPT !.n = @ + 1]
    <2>8. wr[w].block \in Blocks /\ use[wr[w].block] \in Use
        BY <1>17, <1>c, <1>g DEF Searching
    <2>9. use' = [use EXCEPT ![wr[w].block] = U]
        BY <1>17, <2>8, <1>g
    <2>10. U \in Use
        BY <2>8 DEF Use
    <2>11. Left(w)
        BY <1>17, <2>1, <2>2, <2>3, <2>4, <2>5, <2>6, <2>7, <2>8, <2>9, <2>10, <1>b, BackFacts, <1>a DEF Left, Calls
    <2> HIDE DEF M, F, U
    <2>12. frames' \in [Frames -> FrameType]
        BY <1>f, <2>3, <2>4, <2>7
    <2>13. wr' \in [Writers -> WriterType]
        BY <1>b, <2>1, <2>2
    <2>14. use' \in [Blocks -> Use]
        BY <1>g, <2>9, <2>10
    <2>15. clock' \in [hand : Int, ref : SUBSET Int, evictable : SUBSET Frames]
        BY <1>17, <2>1, <2>2, <2>3, <1>a, <1>d DEF TypeInv, Evicting, Filling
    <2>16. table' \in [Blocks -> Frames \cup {NoBlock}] /\ epoch' \in Nat
        BY <1>17, <1>a, <1>c, <1>d DEF TypeInv
    <2>17. free' \in Seq(Frames)
        BY <1>17, <1>a, <1>d DEF TypeInv, Evicting
    <2>18. disk' \in [Blocks -> Page \cup {NoBlock}]
        BY <1>17, <2>1, <2>2, <2>3, <2>4, <2>5, <2>6, <2>7, <2>8, <2>9, <2>10, <1>a, <1>e, <1>f DEF TypeInv
    <2> QED BY <1>a, <2>11, <2>12, <2>13, <2>14, <2>15, <2>16, <2>17, <2>18, TypedSuffices DEF Typed
<1>18. CASE UnpinPage(w)
    <2> DEFINE M == [wr[w] EXCEPT !.pins = [@ EXCEPT ![On(w)] = NoFrame], !.wrote = @ \ {On(w)}]
           f == table[On(w)]
    <2>1. On(w) \in Blocks /\ todo[w] # <<>>
        BY <1>a, <1>18, CallType DEF UnpinPage
    <2>2. /\ wr' = [wr EXCEPT ![w] = M] /\ todo' = Rest(w) /\ wr[w].pc = "idle"
          /\ UNCHANGED <<table, free, epoch, disk, rd, use>>
        BY <1>18, <1>b DEF UnpinPage, Calls
    <2>3. M \in WriterType /\ M.pc = wr[w].pc
        BY <1>b, <2>1 DEF WriterType
    <2>4. Left(w)
        BY <2>1, <2>2, <2>3, <1>b DEF Left
    <2> HIDE DEF M
    <2>5. wr' \in [Writers -> WriterType]
        BY <1>b, <2>2, <2>3
    <2>6. CASE f = NoBlock
        <3>1. UNCHANGED <<frames, clock>>
            BY <1>18, <2>6 DEF UnpinPage
        <3> QED BY <1>a, <2>2, <2>4, <2>5, <3>1, TypedSuffices DEF Typed, TypeInv
    <2>7. CASE f # NoBlock
        <3>1. f \in Frames /\ frames[f] \in FrameType
            BY <1>a, <2>1, <2>7, <1>f DEF TypeInv
        <3> DEFINE i == frames[f].pin - 1
                   d == frames[f].dirty \/ On(w) \in wr[w].wrote
                   F == [frames[f] EXCEPT !.pin = i, !.dirty = d]
        <3>2. frames' = [frames EXCEPT ![f] = F]
            BY <1>18, <2>7 DEF UnpinPage, Unpinned
        <3>3. i \in Int /\ d \in BOOLEAN
            BY <3>1 DEF FrameType
        <3> HIDE DEF i, d
        <3>4. F \in FrameType
            BY <3>1, <3>3 DEF FrameType
        <3> HIDE DEF F
        <3>5. frames' \in [Frames -> FrameType]
            BY <1>f, <3>1, <3>2, <3>4
        <3>6. clock' = clock \/ clock' = [clock EXCEPT !.evictable = @ \cup {f}]
            BY <1>18, <2>7 DEF UnpinPage
        <3>7. clock' \in [hand : Int, ref : SUBSET Int, evictable : SUBSET Frames]
            BY <1>a, <3>1, <3>6, ClockTypes DEF TypeInv
        <3> QED BY <1>a, <2>2, <2>4, <2>5, <3>5, <3>7, TypedSuffices DEF Typed, TypeInv
    <2> QED BY <2>6, <2>7
<1>19. CASE Skip(w)
    <2> USE DEF Skip
    <2>1. Left(w)
        BY <1>19, <1>b DEF Left, Calls
    <2>2. frames' \in [Frames -> FrameType]
        BY <1>19, <1>f
    <2>3. wr' \in [Writers -> WriterType]
        BY <1>19, <1>b
    <2>4. use' \in [Blocks -> Use]
        BY <1>19, <1>g
    <2>5. clock' \in [hand : Int, ref : SUBSET Int, evictable : SUBSET Frames]
        BY <1>19, <1>a, <1>d DEF TypeInv, Evicting, Filling
    <2>6. table' \in [Blocks -> Frames \cup {NoBlock}] /\ epoch' \in Nat
        BY <1>19, <1>a, <1>c, <1>d DEF TypeInv
    <2>7. free' \in Seq(Frames)
        BY <1>19, <1>a, <1>d DEF TypeInv, Evicting
    <2>8. disk' \in [Blocks -> Page \cup {NoBlock}]
        BY <1>19, <1>a, <1>e, <1>f DEF TypeInv
    <2> QED BY <1>a, <2>1, <2>2, <2>3, <2>4, <2>5, <2>6, <2>7, <2>8, TypedSuffices DEF Typed
<1>20. CASE FlushPage(w)
    <2> DEFINE f == table[On(w)]
           M == [wr[w] EXCEPT !.pc = "flushed", !.frame = f]
    <2>1. On(w) \in Blocks /\ todo[w] # <<>>
        BY <1>a, <1>20, CallType DEF FlushPage
    <2>2. wr[w].pc = "idle" /\ UNCHANGED <<table, free, clock, epoch, rd, use>>
        BY <1>20 DEF FlushPage, Calls
    <2>3. CASE f # NoBlock /\ frames[f].dirty
        <3>1. f \in Frames /\ frames[f] \in FrameType
            BY <1>a, <2>1, <2>3, <1>f DEF TypeInv
        <3>2. /\ frames' = [frames EXCEPT ![f] = [@ EXCEPT !.page = Synced(f)]]
              /\ disk' = WritePage(f) /\ wr' = [wr EXCEPT ![w] = M] /\ todo' = todo
            BY <1>20, <2>3 DEF FlushPage
        <3>3. Synced(f) \in Page
            BY <3>1 DEF Synced, FrameType, Page
        <3>4. [frames[f] EXCEPT !.page = Synced(f)] \in FrameType
            BY <3>1, <3>3 DEF FrameType
        <3>5. frames' \in [Frames -> FrameType]
            BY <1>f, <3>1, <3>2, <3>4
        <3>6. M \in WriterType
            BY <1>b, <3>1 DEF WriterType, Places
        <3> HIDE DEF M
        <3>7. wr' \in [Writers -> WriterType]
            BY <1>b, <3>2, <3>6
        <3>8. disk' \in [Blocks -> Page \cup {NoBlock}]
            BY <1>a, <3>2, <3>3 DEF WritePage, TypeInv
        <3>9. Left(w)
            BY <2>1, <2>2, <3>2, <1>b DEF Left
        <3> QED BY <1>a, <2>2, <3>5, <3>7, <3>8, <3>9, TypedSuffices DEF Typed, TypeInv
    <2>4. CASE ~(f # NoBlock /\ frames[f].dirty)
        <3>1. todo' = Rest(w) /\ UNCHANGED <<frames, disk, wr>>
            BY <1>20, <2>4 DEF FlushPage
        <3>2. Left(w)
            BY <2>1, <2>2, <3>1 DEF Left
        <3> QED BY <1>a, <2>2, <3>1, <3>2, TypedSuffices DEF Typed, TypeInv
    <2> QED BY <2>3, <2>4
<1>21. CASE FlushDone(w)
    <2> USE DEF FlushDone
    <2> DEFINE M == Back(w)
    <2>1. wr' = [wr EXCEPT ![w] = M]
        BY <1>21, <1>b
    <2>2. M \in WriterType
        BY <1>b, <1>a, BackFacts DEF WriterType, Places, Searching
    <2>3. wr[w].frame \in Frames
        BY <1>21, <1>a, <1>b, <1>d DEF TypeInv, WriterType, Evicting, Filling
    <2> DEFINE F == [frames[wr[w].frame] EXCEPT !.dirty = FALSE]
    <2>4. frames' = [frames EXCEPT ![wr[w].frame] = F]
        BY <1>21, <2>3, <1>f
    <2>5. frames[wr[w].frame] \in FrameType /\ epoch \in Nat
        BY <1>a, <1>f, <2>3 DEF TypeInv
    <2>6. F \in FrameType
        BY <2>5 DEF FrameType
    <2>7. Left(w)
        BY <1>21, <2>1, <2>2, <2>3, <2>4, <2>5, <2>6, <1>b, BackFacts, <1>a DEF Left, Calls
    <2> HIDE DEF M, F
    <2>8. frames' \in [Frames -> FrameType]
        BY <1>f, <2>3, <2>4, <2>6
    <2>9. wr' \in [Writers -> WriterType]
        BY <1>b, <2>1, <2>2
    <2>10. use' \in [Blocks -> Use]
        BY <1>21, <1>g
    <2>11. clock' \in [hand : Int, ref : SUBSET Int, evictable : SUBSET Frames]
        BY <1>21, <2>1, <2>2, <2>3, <1>a, <1>d DEF TypeInv, Evicting, Filling
    <2>12. table' \in [Blocks -> Frames \cup {NoBlock}] /\ epoch' \in Nat
        BY <1>21, <1>a, <1>c, <1>d DEF TypeInv
    <2>13. free' \in Seq(Frames)
        BY <1>21, <1>a, <1>d DEF TypeInv, Evicting
    <2>14. disk' \in [Blocks -> Page \cup {NoBlock}]
        BY <1>21, <2>1, <2>2, <2>3, <2>4, <2>5, <2>6, <1>a, <1>e, <1>f DEF TypeInv
    <2> QED BY <1>a, <2>7, <2>8, <2>9, <2>10, <2>11, <2>12, <2>13, <2>14, TypedSuffices DEF Typed
<1>22. CASE Bury(w)
    <2> USE DEF Bury
    <2>1. On(w) \in Blocks /\ todo[w] # <<>>
        BY <1>a, <1>22, CallType
    <2> DEFINE U == [use[On(w)] EXCEPT !.state = "dead"]
    <2>2. On(w) \in Blocks /\ use[On(w)] \in Use
        BY <1>22, <2>1, <1>c, <1>g DEF Searching
    <2>3. use' = [use EXCEPT ![On(w)] = U]
        BY <1>22, <2>1, <2>2, <1>g
    <2>4. U \in Use
        BY <2>2 DEF Use
    <2>5. Left(w)
        BY <1>22, <2>1, <2>2, <2>3, <2>4, <1>b DEF Left, Calls
    <2> HIDE DEF U
    <2>6. frames' \in [Frames -> FrameType]
        BY <1>22, <2>1, <1>f
    <2>7. wr' \in [Writers -> WriterType]
        BY <1>22, <2>1, <1>b
    <2>8. use' \in [Blocks -> Use]
        BY <1>g, <2>3, <2>4
    <2>9. clock' \in [hand : Int, ref : SUBSET Int, evictable : SUBSET Frames]
        BY <1>22, <2>1, <2>2, <2>3, <2>4, <1>a, <1>d DEF TypeInv, Evicting, Filling
    <2>10. table' \in [Blocks -> Frames \cup {NoBlock}] /\ epoch' \in Nat
        BY <1>22, <2>1, <1>a, <1>c, <1>d DEF TypeInv
    <2>11. free' \in Seq(Frames)
        BY <1>22, <2>1, <1>a, <1>d DEF TypeInv, Evicting
    <2>12. disk' \in [Blocks -> Page \cup {NoBlock}]
        BY <1>22, <2>1, <2>2, <2>3, <2>4, <1>a, <1>e, <1>f DEF TypeInv
    <2> QED BY <1>a, <2>5, <2>6, <2>7, <2>8, <2>9, <2>10, <2>11, <2>12, TypedSuffices DEF Typed
<1>23. CASE ForceCheck(w)
    <2> DEFINE f == table[On(w)]
           M == [wr[w] EXCEPT !.pc = "force", !.block = On(w), !.frame = f]
    <2>1. On(w) \in Blocks /\ todo[w] # <<>>
        BY <1>a, <1>23, CallType DEF ForceCheck
    <2>2. wr[w].pc = "idle" /\ UNCHANGED <<frames, table, free, clock, epoch, disk, rd, use>>
        BY <1>23 DEF ForceCheck, Calls
    <2>3. CASE f # NoBlock /\ MayEvict(f)
        <3>1. wr' = [wr EXCEPT ![w] = M] /\ todo' = todo
            BY <1>23, <2>3 DEF ForceCheck
        <3>2. M \in WriterType
            BY <1>a, <1>b, <2>1, <2>3 DEF WriterType, Places, TypeInv
        <3> HIDE DEF M
        <3>3. wr' \in [Writers -> WriterType]
            BY <1>b, <3>1, <3>2
        <3>4. Left(w)
            BY <2>1, <2>2, <3>1, <1>b DEF Left
        <3> QED BY <1>a, <2>2, <3>3, <3>4, TypedSuffices DEF Typed, TypeInv
    <2>4. CASE ~(f # NoBlock /\ MayEvict(f))
        <3>1. todo' = Rest(w) /\ wr' = wr
            BY <1>23, <2>4 DEF ForceCheck
        <3>2. Left(w)
            BY <2>1, <2>2, <3>1 DEF Left
        <3> QED BY <1>a, <2>2, <3>1, <3>2, TypedSuffices DEF Typed, TypeInv
    <2> QED BY <2>3, <2>4
<1>24. CASE ForceRemove(w)
    <2> USE DEF ForceRemove
    <2> DEFINE M == [wr[w] EXCEPT !.pc = "release"]
    <2>1. wr' = [wr EXCEPT ![w] = M]
        BY <1>24, <1>b DEF Goto
    <2>2. M \in WriterType
        BY <1>b DEF WriterType, Places, Searching
    <2>3. Left(w)
        BY <1>24, <2>1, <2>2, <1>b DEF Left, Calls
    <2> HIDE DEF M
    <2>4. frames' \in [Frames -> FrameType]
        BY <1>24, <1>f
    <2>5. wr' \in [Writers -> WriterType]
        BY <1>b, <2>1, <2>2
    <2>6. use' \in [Blocks -> Use]
        BY <1>24, <1>g
    <2>7. clock' \in [hand : Int, ref : SUBSET Int, evictable : SUBSET Frames]
        BY <1>24, <2>1, <2>2, <1>a, <1>d DEF TypeInv, Evicting, Filling
    <2>8. table' \in [Blocks -> Frames \cup {NoBlock}] /\ epoch' \in Nat
        BY <1>24, <1>a, <1>c, <1>d DEF TypeInv
    <2>9. free' \in Seq(Frames)
        BY <1>24, <1>a, <1>d DEF TypeInv, Evicting
    <2>10. disk' \in [Blocks -> Page \cup {NoBlock}]
        BY <1>24, <2>1, <2>2, <1>a, <1>e, <1>f DEF TypeInv
    <2> QED BY <1>a, <2>3, <2>4, <2>5, <2>6, <2>7, <2>8, <2>9, <2>10, TypedSuffices DEF Typed
<1>25. CASE ForceFree(w)
    <2> USE DEF ForceFree
    <2> DEFINE M == Back(w)
    <2>1. wr' = [wr EXCEPT ![w] = M]
        BY <1>25, <1>b
    <2>2. M \in WriterType
        BY <1>b, <1>a, BackFacts DEF WriterType, Places, Searching
    <2>3. wr[w].frame \in Frames
        BY <1>25, <1>a, <1>b, <1>d DEF TypeInv, WriterType, Evicting, Filling
    <2> DEFINE F == [frames[wr[w].frame] EXCEPT !.block = NoBlock, !.dirty = FALSE]
    <2>4. frames' = [frames EXCEPT ![wr[w].frame] = F]
        BY <1>25, <2>3, <1>f
    <2>5. frames[wr[w].frame] \in FrameType /\ epoch \in Nat
        BY <1>a, <1>f, <2>3 DEF TypeInv
    <2>6. F \in FrameType
        BY <2>5 DEF FrameType
    <2>7. Left(w)
        BY <1>25, <2>1, <2>2, <2>3, <2>4, <2>5, <2>6, <1>b, BackFacts, <1>a DEF Left, Calls
    <2> HIDE DEF M, F
    <2>8. frames' \in [Frames -> FrameType]
        BY <1>f, <2>3, <2>4, <2>6
    <2>9. wr' \in [Writers -> WriterType]
        BY <1>b, <2>1, <2>2
    <2>10. use' \in [Blocks -> Use]
        BY <1>25, <1>g
    <2>11. clock' \in [hand : Int, ref : SUBSET Int, evictable : SUBSET Frames]
        BY <1>25, <2>1, <2>2, <2>3, <1>a, <1>d, ClockTypes DEF TypeInv, Evicting, Filling
    <2>12. table' \in [Blocks -> Frames \cup {NoBlock}] /\ epoch' \in Nat
        BY <1>25, <1>a, <1>c, <1>d DEF TypeInv
    <2>13. free' \in Seq(Frames)
        BY <1>25, <1>a, <1>d DEF TypeInv, Evicting
    <2>14. disk' \in [Blocks -> Page \cup {NoBlock}]
        BY <1>25, <2>1, <2>2, <2>3, <2>4, <2>5, <2>6, <1>a, <1>e, <1>f DEF TypeInv
    <2> QED BY <1>a, <2>7, <2>8, <2>9, <2>10, <2>11, <2>12, <2>13, <2>14, TypedSuffices DEF Typed
<1> QED BY <1>1, <1>2, <1>3, <1>4, <1>5, <1>6, <1>7, <1>8, <1>9, <1>10, <1>11, <1>12, <1>13, <1>14, <1>15, <1>16, <1>17, <1>18, <1>19, <1>20, <1>21, <1>22, <1>23, <1>24, <1>25 DEF PoolCall

-----------------------------------------------------------------------------
(* What each step of a writer does to its record, to the frame, block and   *)
(* queues it works on, and what it leaves alone.                            *)

LEMMA FetchPageEffect ==
    ASSUME PlaceInv, NEW w \in Writers, FetchPage(w)
    PROVE  /\ wr[w].pc = "idle" /\ On(w) \in Blocks
           /\ wr'[w].pc = "get" /\ wr'[w].block = On(w) /\ wr'[w].new = FALSE
           /\ wr'[w].frame = wr[w].frame /\ wr'[w].pins = wr[w].pins /\ wr'[w].wrote = wr[w].wrote
           /\ UNCHANGED <<frames, table, free, clock, epoch, disk, rd, use>>
<1>1. TypeInv /\ WriterPlace(w)
    BY DEF PlaceInv
<1>2. /\ wr \in [Writers -> WriterType] /\ wr[w] \in WriterType
      /\ frames \in [Frames -> FrameType] /\ \A f \in Frames : frames[f] \in FrameType
      /\ use \in [Blocks -> Use] /\ table \in [Blocks -> Frames \cup {NoBlock}]
      /\ disk \in [Blocks -> Page \cup {NoBlock}]
      /\ clock \in [hand : Int, ref : SUBSET Int, evictable : SUBSET Frames]
    BY <1>1 DEF TypeInv
<1>3. On(w) \in Blocks
    BY <1>1, CallType DEF FetchPage
<1>4. wr[w].pc = "idle" /\ On(w) \in Blocks
    BY <1>2, <1>3, Count DEF FetchPage, Calls, Evicting, Filling, WriterType, FrameType
<1>5. wr'[w].pc = "get" /\ wr'[w].block = On(w) /\ wr'[w].new = FALSE
    BY <1>2, <1>3, <1>4, Count DEF FetchPage, Calls, Evicting, Filling, WriterType, FrameType
<1>6. wr'[w].frame = wr[w].frame /\ wr'[w].pins = wr[w].pins /\ wr'[w].wrote = wr[w].wrote
    BY <1>2, <1>3, <1>4, Count DEF FetchPage, Calls, Evicting, Filling, WriterType, FrameType
<1>7. UNCHANGED <<frames, table, free, clock, epoch, disk, rd, use>>
    BY <1>2, <1>3, <1>4, Count DEF FetchPage, Calls, Evicting, Filling, WriterType, FrameType
<1> QED BY <1>4, <1>5, <1>6, <1>7

LEMMA AllocNewPageEffect ==
    ASSUME PlaceInv, NEW w \in Writers, AllocNewPage(w)
    PROVE  /\ wr[w].pc = "idle" /\ On(w) \in Blocks
           /\ Reads(On(w)) = {}
           /\ wr'[w].pc = "entry" /\ wr'[w].block = On(w) /\ wr'[w].new = TRUE
           /\ wr'[w].frame = wr[w].frame /\ wr'[w].pins = wr[w].pins /\ wr'[w].wrote = wr[w].wrote
           /\ use'[On(w)] = [state |-> "new", uses |-> use[On(w)].uses + 1, n |-> 0] /\ \A c \in Blocks : c # On(w) => use'[c] = use[c]
           /\ UNCHANGED <<frames, table, free, clock, epoch, disk, rd>>
<1>1. TypeInv /\ WriterPlace(w)
    BY DEF PlaceInv
<1>2. /\ wr \in [Writers -> WriterType] /\ wr[w] \in WriterType
      /\ frames \in [Frames -> FrameType] /\ \A f \in Frames : frames[f] \in FrameType
      /\ use \in [Blocks -> Use] /\ table \in [Blocks -> Frames \cup {NoBlock}]
      /\ disk \in [Blocks -> Page \cup {NoBlock}]
      /\ clock \in [hand : Int, ref : SUBSET Int, evictable : SUBSET Frames]
    BY <1>1 DEF TypeInv
<1>3. On(w) \in Blocks
    BY <1>1, CallType DEF AllocNewPage
<1>4. wr[w].pc = "idle" /\ On(w) \in Blocks
    BY <1>2, <1>3, Count DEF AllocNewPage, Calls, Evicting, Filling, WriterType, FrameType
<1>5. Reads(On(w)) = {}
    BY <1>2, <1>3, <1>4, Count DEF AllocNewPage, Calls, Evicting, Filling, WriterType, FrameType
<1>6. wr'[w].pc = "entry" /\ wr'[w].block = On(w) /\ wr'[w].new = TRUE
    BY <1>2, <1>3, <1>4, Count DEF AllocNewPage, Calls, Evicting, Filling, WriterType, FrameType
<1>7. wr'[w].frame = wr[w].frame /\ wr'[w].pins = wr[w].pins /\ wr'[w].wrote = wr[w].wrote
    BY <1>2, <1>3, <1>4, Count DEF AllocNewPage, Calls, Evicting, Filling, WriterType, FrameType
<1>8. use'[On(w)] = [state |-> "new", uses |-> use[On(w)].uses + 1, n |-> 0] /\ \A c \in Blocks : c # On(w) => use'[c] = use[c]
    BY <1>2, <1>3, <1>4, Count DEF AllocNewPage, Calls, Evicting, Filling, WriterType, FrameType
<1>9. UNCHANGED <<frames, table, free, clock, epoch, disk, rd>>
    BY <1>2, <1>3, <1>4, Count DEF AllocNewPage, Calls, Evicting, Filling, WriterType, FrameType
<1> QED BY <1>4, <1>5, <1>6, <1>7, <1>8, <1>9

LEMMA HitEffect ==
    ASSUME PlaceInv, NEW w \in Writers, Hit(w)
    PROVE  /\ wr[w].pc \in {"get", "entry"} /\ ~wr[w].new /\ wr[w].block \in Blocks /\ table[wr[w].block] \in Frames
           /\ wr'[w].pc = "idle" /\ wr'[w].block = NoBlock /\ wr'[w].new = FALSE
           /\ wr'[w].frame = NoFrame /\ wr'[w].pins = [wr[w].pins EXCEPT ![wr[w].block] = table[wr[w].block]] /\ wr'[w].wrote = wr[w].wrote
           /\ \A g \in Frames : g # table[wr[w].block] => frames'[g] = frames[g]
           /\ frames'[table[wr[w].block]].block = frames[table[wr[w].block]].block /\ frames'[table[wr[w].block]].page = frames[table[wr[w].block]].page
           /\ frames'[table[wr[w].block]].len = frames[table[wr[w].block]].len /\ frames'[table[wr[w].block]].pin = frames[table[wr[w].block]].pin + 1
           /\ frames'[table[wr[w].block]].dirty = frames[table[wr[w].block]].dirty /\ frames'[table[wr[w].block]].last = epoch + 1
           /\ epoch' = epoch + 1 /\ clock'.evictable = clock.evictable \ {table[wr[w].block]}
           /\ \A c \in Blocks : use'[c] = use[c]
           /\ UNCHANGED <<table, free, disk, rd>>
<1>1. TypeInv /\ WriterPlace(w)
    BY DEF PlaceInv
<1>2. /\ wr \in [Writers -> WriterType] /\ wr[w] \in WriterType
      /\ frames \in [Frames -> FrameType] /\ \A f \in Frames : frames[f] \in FrameType
      /\ use \in [Blocks -> Use] /\ table \in [Blocks -> Frames \cup {NoBlock}]
      /\ disk \in [Blocks -> Page \cup {NoBlock}]
      /\ clock \in [hand : Int, ref : SUBSET Int, evictable : SUBSET Frames]
    BY <1>1 DEF TypeInv
<1>3. /\ wr[w].pc \notin {"idle", "flushed"} => wr[w].block \in Blocks
      /\ wr[w].pc \in Evicting \cup Filling \cup {"insert", "commit", "flushed"} => wr[w].frame \in Frames
      /\ wr[w].pc \in Evicting => frames[wr[w].frame].block \in Blocks
    BY <1>1 DEF WriterPlace
<1>4. wr[w].pc \in {"get", "entry"} /\ ~wr[w].new /\ wr[w].block \in Blocks /\ table[wr[w].block] \in Frames
    BY <1>2, <1>3, Count DEF Hit, Return, Back, Linked, Advance, SetEvictable, Evicting, Filling, WriterType, FrameType, Use
<1>5. wr'[w].pc = "idle" /\ wr'[w].block = NoBlock /\ wr'[w].new = FALSE
    BY <1>2, <1>3, <1>4, Count DEF Hit, Return, Back, Linked, Advance, SetEvictable, Evicting, Filling, WriterType, FrameType, Use
<1>6. wr'[w].frame = NoFrame /\ wr'[w].pins = [wr[w].pins EXCEPT ![wr[w].block] = table[wr[w].block]] /\ wr'[w].wrote = wr[w].wrote
    BY <1>2, <1>3, <1>4, Count DEF Hit, Return, Back, Linked, Advance, SetEvictable, Evicting, Filling, WriterType, FrameType, Use
<1>7. \A g \in Frames : g # table[wr[w].block] => frames'[g] = frames[g]
    BY <1>2, <1>3, <1>4, Count DEF Hit, Return, Back, Linked, Advance, SetEvictable, Evicting, Filling, WriterType, FrameType, Use
<1>8. frames'[table[wr[w].block]].block = frames[table[wr[w].block]].block /\ frames'[table[wr[w].block]].page = frames[table[wr[w].block]].page
    BY <1>2, <1>3, <1>4, Count DEF Hit, Return, Back, Linked, Advance, SetEvictable, Evicting, Filling, WriterType, FrameType, Use
<1>9. frames'[table[wr[w].block]].len = frames[table[wr[w].block]].len /\ frames'[table[wr[w].block]].pin = frames[table[wr[w].block]].pin + 1
    BY <1>2, <1>3, <1>4, Count DEF Hit, Return, Back, Linked, Advance, SetEvictable, Evicting, Filling, WriterType, FrameType, Use
<1>10. frames'[table[wr[w].block]].dirty = frames[table[wr[w].block]].dirty /\ frames'[table[wr[w].block]].last = epoch + 1
    BY <1>2, <1>3, <1>4, Count DEF Hit, Return, Back, Linked, Advance, SetEvictable, Evicting, Filling, WriterType, FrameType, Use
<1>11. epoch' = epoch + 1 /\ clock'.evictable = clock.evictable \ {table[wr[w].block]}
    BY <1>2, <1>3, <1>4, Count DEF Hit, Return, Back, Linked, Advance, SetEvictable, Evicting, Filling, WriterType, FrameType, Use
<1>12. \A c \in Blocks : use'[c] = use[c]
    BY <1>2, <1>3, <1>4, Count DEF Hit, Return, Back, Linked, Advance, SetEvictable, Evicting, Filling, WriterType, FrameType, Use
<1>13. UNCHANGED <<table, free, disk, rd>>
    BY <1>2, <1>3, <1>4, Count DEF Hit, Return, Back, Linked, Advance, SetEvictable, Evicting, Filling, WriterType, FrameType, Use
<1> QED BY <1>4, <1>5, <1>6, <1>7, <1>8, <1>9, <1>10, <1>11, <1>12, <1>13

LEMMA MissEffect ==
    ASSUME PlaceInv, NEW w \in Writers, Miss(w)
    PROVE  /\ wr[w].pc = "get" /\ wr[w].block \in Blocks
           /\ wr'[w].pc = "entry" /\ wr'[w].block = wr[w].block /\ wr'[w].new = wr[w].new
           /\ wr'[w].frame = wr[w].frame /\ wr'[w].pins = wr[w].pins /\ wr'[w].wrote = wr[w].wrote
           /\ UNCHANGED <<frames, table, free, clock, epoch, disk, rd, use>>
<1>1. TypeInv /\ WriterPlace(w)
    BY DEF PlaceInv
<1>2. /\ wr \in [Writers -> WriterType] /\ wr[w] \in WriterType
      /\ frames \in [Frames -> FrameType] /\ \A f \in Frames : frames[f] \in FrameType
      /\ use \in [Blocks -> Use] /\ table \in [Blocks -> Frames \cup {NoBlock}]
      /\ disk \in [Blocks -> Page \cup {NoBlock}]
      /\ clock \in [hand : Int, ref : SUBSET Int, evictable : SUBSET Frames]
    BY <1>1 DEF TypeInv
<1>3. /\ wr[w].pc \notin {"idle", "flushed"} => wr[w].block \in Blocks
      /\ wr[w].pc \in Evicting \cup Filling \cup {"insert", "commit", "flushed"} => wr[w].frame \in Frames
      /\ wr[w].pc \in Evicting => frames[wr[w].frame].block \in Blocks
    BY <1>1 DEF WriterPlace
<1>4. wr[w].pc = "get" /\ wr[w].block \in Blocks
    BY <1>2, <1>3, Count DEF Miss, Goto, Evicting, Filling, WriterType, FrameType
<1>5. wr'[w].pc = "entry" /\ wr'[w].block = wr[w].block /\ wr'[w].new = wr[w].new
    BY <1>2, <1>3, <1>4, Count DEF Miss, Goto, Evicting, Filling, WriterType, FrameType
<1>6. wr'[w].frame = wr[w].frame /\ wr'[w].pins = wr[w].pins /\ wr'[w].wrote = wr[w].wrote
    BY <1>2, <1>3, <1>4, Count DEF Miss, Goto, Evicting, Filling, WriterType, FrameType
<1>7. UNCHANGED <<frames, table, free, clock, epoch, disk, rd, use>>
    BY <1>2, <1>3, <1>4, Count DEF Miss, Goto, Evicting, Filling, WriterType, FrameType
<1> QED BY <1>4, <1>5, <1>6, <1>7

LEMMA ReinitEffect ==
    ASSUME PlaceInv, NEW w \in Writers, Reinit(w)
    PROVE  /\ wr[w].pc = "entry" /\ wr[w].new /\ wr[w].block \in Blocks /\ table[wr[w].block] \in Frames
           /\ wr'[w].pc = "idle" /\ wr'[w].block = NoBlock /\ wr'[w].new = FALSE
           /\ wr'[w].frame = NoFrame /\ wr'[w].pins = [wr[w].pins EXCEPT ![wr[w].block] = table[wr[w].block]] /\ wr'[w].wrote = wr[w].wrote \cup {wr[w].block}
           /\ \A g \in Frames : g # table[wr[w].block] => frames'[g] = frames[g]
           /\ frames'[table[wr[w].block]].block = frames[table[wr[w].block]].block /\ frames'[table[wr[w].block]].page = NewPage(use[wr[w].block].uses)
           /\ frames'[table[wr[w].block]].len = 0 /\ frames'[table[wr[w].block]].pin = frames[table[wr[w].block]].pin + 1
           /\ frames'[table[wr[w].block]].dirty = TRUE /\ frames'[table[wr[w].block]].last = frames[table[wr[w].block]].last
           /\ use'[wr[w].block] = [use[wr[w].block] EXCEPT !.state = "live"] /\ \A c \in Blocks : c # wr[w].block => use'[c] = use[c]
           /\ UNCHANGED <<table, free, clock, epoch, disk, rd>>
<1>1. TypeInv /\ WriterPlace(w)
    BY DEF PlaceInv
<1>2. /\ wr \in [Writers -> WriterType] /\ wr[w] \in WriterType
      /\ frames \in [Frames -> FrameType] /\ \A f \in Frames : frames[f] \in FrameType
      /\ use \in [Blocks -> Use] /\ table \in [Blocks -> Frames \cup {NoBlock}]
      /\ disk \in [Blocks -> Page \cup {NoBlock}]
      /\ clock \in [hand : Int, ref : SUBSET Int, evictable : SUBSET Frames]
    BY <1>1 DEF TypeInv
<1>3. /\ wr[w].pc \notin {"idle", "flushed"} => wr[w].block \in Blocks
      /\ wr[w].pc \in Evicting \cup Filling \cup {"insert", "commit", "flushed"} => wr[w].frame \in Frames
      /\ wr[w].pc \in Evicting => frames[wr[w].frame].block \in Blocks
    BY <1>1 DEF WriterPlace
<1>4. wr[w].pc = "entry" /\ wr[w].new /\ wr[w].block \in Blocks /\ table[wr[w].block] \in Frames
    BY <1>2, <1>3, Count DEF Reinit, Return, Back, Linked, Evicting, Filling, WriterType, FrameType
<1>5. wr'[w].pc = "idle" /\ wr'[w].block = NoBlock /\ wr'[w].new = FALSE
    BY <1>2, <1>3, <1>4, Count DEF Reinit, Return, Back, Linked, Evicting, Filling, WriterType, FrameType
<1>6. wr'[w].frame = NoFrame /\ wr'[w].pins = [wr[w].pins EXCEPT ![wr[w].block] = table[wr[w].block]] /\ wr'[w].wrote = wr[w].wrote \cup {wr[w].block}
    BY <1>2, <1>3, <1>4, Count DEF Reinit, Return, Back, Linked, Evicting, Filling, WriterType, FrameType
<1>7. \A g \in Frames : g # table[wr[w].block] => frames'[g] = frames[g]
    BY <1>2, <1>3, <1>4, Count DEF Reinit, Return, Back, Linked, Evicting, Filling, WriterType, FrameType
<1>8. frames'[table[wr[w].block]].block = frames[table[wr[w].block]].block /\ frames'[table[wr[w].block]].page = NewPage(use[wr[w].block].uses)
    BY <1>2, <1>3, <1>4, Count DEF Reinit, Return, Back, Linked, Evicting, Filling, WriterType, FrameType
<1>9. frames'[table[wr[w].block]].len = 0 /\ frames'[table[wr[w].block]].pin = frames[table[wr[w].block]].pin + 1
    BY <1>2, <1>3, <1>4, Count DEF Reinit, Return, Back, Linked, Evicting, Filling, WriterType, FrameType
<1>10. frames'[table[wr[w].block]].dirty = TRUE /\ frames'[table[wr[w].block]].last = frames[table[wr[w].block]].last
    BY <1>2, <1>3, <1>4, Count DEF Reinit, Return, Back, Linked, Evicting, Filling, WriterType, FrameType
<1>11. use'[wr[w].block] = [use[wr[w].block] EXCEPT !.state = "live"] /\ \A c \in Blocks : c # wr[w].block => use'[c] = use[c]
    BY <1>2, <1>3, <1>4, Count DEF Reinit, Return, Back, Linked, Evicting, Filling, WriterType, FrameType
<1>12. UNCHANGED <<table, free, clock, epoch, disk, rd>>
    BY <1>2, <1>3, <1>4, Count DEF Reinit, Return, Back, Linked, Evicting, Filling, WriterType, FrameType
<1> QED BY <1>4, <1>5, <1>6, <1>7, <1>8, <1>9, <1>10, <1>11, <1>12

LEMMA VacantEffect ==
    ASSUME PlaceInv, NEW w \in Writers, Vacant(w)
    PROVE  /\ wr[w].pc = "entry" /\ wr[w].block \in Blocks /\ table[wr[w].block] = NoBlock
           /\ wr'[w].pc = "alloc" /\ wr'[w].block = wr[w].block /\ wr'[w].new = wr[w].new
           /\ wr'[w].frame = wr[w].frame /\ wr'[w].pins = wr[w].pins /\ wr'[w].wrote = wr[w].wrote
           /\ UNCHANGED <<frames, table, free, clock, epoch, disk, rd, use>>
<1>1. TypeInv /\ WriterPlace(w)
    BY DEF PlaceInv
<1>2. /\ wr \in [Writers -> WriterType] /\ wr[w] \in WriterType
      /\ frames \in [Frames -> FrameType] /\ \A f \in Frames : frames[f] \in FrameType
      /\ use \in [Blocks -> Use] /\ table \in [Blocks -> Frames \cup {NoBlock}]
      /\ disk \in [Blocks -> Page \cup {NoBlock}]
      /\ clock \in [hand : Int, ref : SUBSET Int, evictable : SUBSET Frames]
    BY <1>1 DEF TypeInv
<1>3. /\ wr[w].pc \notin {"idle", "flushed"} => wr[w].block \in Blocks
      /\ wr[w].pc \in Evicting \cup Filling \cup {"insert", "commit", "flushed"} => wr[w].frame \in Frames
      /\ wr[w].pc \in Evicting => frames[wr[w].frame].block \in Blocks
    BY <1>1 DEF WriterPlace
<1>4. wr[w].pc = "entry" /\ wr[w].block \in Blocks /\ table[wr[w].block] = NoBlock
    BY <1>2, <1>3, Count DEF Vacant, Evicting, Filling, WriterType, FrameType
<1>5. wr'[w].pc = "alloc" /\ wr'[w].block = wr[w].block /\ wr'[w].new = wr[w].new
    BY <1>2, <1>3, <1>4, Count DEF Vacant, Evicting, Filling, WriterType, FrameType
<1>6. wr'[w].frame = wr[w].frame /\ wr'[w].pins = wr[w].pins /\ wr'[w].wrote = wr[w].wrote
    BY <1>2, <1>3, <1>4, Count DEF Vacant, Evicting, Filling, WriterType, FrameType
<1>7. UNCHANGED <<frames, table, free, clock, epoch, disk, rd, use>>
    BY <1>2, <1>3, <1>4, Count DEF Vacant, Evicting, Filling, WriterType, FrameType
<1> QED BY <1>4, <1>5, <1>6, <1>7

LEMMA TakeFreeEffect ==
    ASSUME PlaceInv, NEW w \in Writers, TakeFree(w)
    PROVE  /\ wr[w].pc = "alloc" /\ wr[w].block \in Blocks /\ free # <<>>
           /\ free' = Tail(free) /\ Head(free) \in Frames
           /\ wr'[w].pc = "load" /\ wr'[w].block = wr[w].block /\ wr'[w].new = wr[w].new
           /\ wr'[w].frame = Head(free) /\ wr'[w].pins = wr[w].pins /\ wr'[w].wrote = wr[w].wrote
           /\ UNCHANGED <<frames, table, clock, epoch, disk, rd, use>>
<1>1. TypeInv /\ WriterPlace(w)
    BY DEF PlaceInv
<1>2. /\ wr \in [Writers -> WriterType] /\ wr[w] \in WriterType
      /\ frames \in [Frames -> FrameType] /\ \A f \in Frames : frames[f] \in FrameType
      /\ use \in [Blocks -> Use] /\ table \in [Blocks -> Frames \cup {NoBlock}]
      /\ disk \in [Blocks -> Page \cup {NoBlock}]
      /\ clock \in [hand : Int, ref : SUBSET Int, evictable : SUBSET Frames]
    BY <1>1 DEF TypeInv
<1>3. /\ wr[w].pc \notin {"idle", "flushed"} => wr[w].block \in Blocks
      /\ wr[w].pc \in Evicting \cup Filling \cup {"insert", "commit", "flushed"} => wr[w].frame \in Frames
      /\ wr[w].pc \in Evicting => frames[wr[w].frame].block \in Blocks
    BY <1>1 DEF WriterPlace
<1>4. wr[w].pc = "alloc" /\ wr[w].block \in Blocks /\ free # <<>>
    BY <1>2, <1>3, <1>1, Count DEF TakeFree, Evicting, Filling, WriterType, FrameType, TypeInv
<1>5. free' = Tail(free) /\ Head(free) \in Frames
    BY <1>2, <1>3, <1>4, <1>1, Count DEF TakeFree, Evicting, Filling, WriterType, FrameType, TypeInv
<1>6. wr'[w].pc = "load" /\ wr'[w].block = wr[w].block /\ wr'[w].new = wr[w].new
    BY <1>2, <1>3, <1>4, <1>1, Count DEF TakeFree, Evicting, Filling, WriterType, FrameType, TypeInv
<1>7. wr'[w].frame = Head(free) /\ wr'[w].pins = wr[w].pins /\ wr'[w].wrote = wr[w].wrote
    BY <1>2, <1>3, <1>4, <1>1, Count DEF TakeFree, Evicting, Filling, WriterType, FrameType, TypeInv
<1>8. UNCHANGED <<frames, table, clock, epoch, disk, rd, use>>
    BY <1>2, <1>3, <1>4, <1>1, Count DEF TakeFree, Evicting, Filling, WriterType, FrameType, TypeInv
<1> QED BY <1>4, <1>5, <1>6, <1>7, <1>8

LEMMA CandidateEffect ==
    ASSUME PlaceInv, NEW w \in Writers, Candidate(w)
    PROVE  /\ wr[w].pc = "alloc" /\ wr[w].block \in Blocks
           /\ clock'.evictable = clock.evictable
           /\ \/ /\ wr'[w].pc = "flush" /\ wr'[w].frame \in clock.evictable /\ MayEvict(wr'[w].frame)
              \/ wr'[w].pc \in {"alloc", "none"} /\ wr'[w].frame = wr[w].frame
           /\ wr'[w].block = wr[w].block /\ wr'[w].new = wr[w].new /\ wr'[w].pins = wr[w].pins /\ wr'[w].wrote = wr[w].wrote
           /\ UNCHANGED <<frames, table, free, epoch, disk, rd, use>>
<1>1. TypeInv /\ WriterPlace(w)
    BY DEF PlaceInv
<1>2. /\ wr \in [Writers -> WriterType] /\ wr[w] \in WriterType
      /\ frames \in [Frames -> FrameType] /\ \A f \in Frames : frames[f] \in FrameType
      /\ use \in [Blocks -> Use] /\ table \in [Blocks -> Frames \cup {NoBlock}]
      /\ disk \in [Blocks -> Page \cup {NoBlock}]
      /\ clock \in [hand : Int, ref : SUBSET Int, evictable : SUBSET Frames]
    BY <1>1 DEF TypeInv
<1>3. /\ wr[w].pc \notin {"idle", "flushed"} => wr[w].block \in Blocks
      /\ wr[w].pc \in Evicting \cup Filling \cup {"insert", "commit", "flushed"} => wr[w].frame \in Frames
      /\ wr[w].pc \in Evicting => frames[wr[w].frame].block \in Blocks
    BY <1>1 DEF WriterPlace
<1>4. wr[w].pc = "alloc" /\ wr[w].block \in Blocks
    BY <1>2, <1>3, <1>1, CandidateFacts, Count DEF Candidate, Tried, Evicting, Filling, WriterType, FrameType
<1>5. clock'.evictable = clock.evictable
    BY <1>2, <1>3, <1>4, <1>1, CandidateFacts, Count DEF Candidate, Tried, Evicting, Filling, WriterType, FrameType
<1>6. \/ /\ wr'[w].pc = "flush" /\ wr'[w].frame \in clock.evictable /\ MayEvict(wr'[w].frame)
      \/ wr'[w].pc \in {"alloc", "none"} /\ wr'[w].frame = wr[w].frame
    <2> DEFINE c == EvictCandidate.frame
    <2>1. c \in clock.evictable \cup {NoFrame} /\ NoFrame \notin clock.evictable
        BY <1>1, <1>2, Count, CandidateFacts
    <2>2. wr' = [wr EXCEPT ![w] =
                  IF c = NoFrame THEN [wr[w] EXCEPT !.pc = "none"]
                  ELSE IF MayEvict(c) THEN [wr[w] EXCEPT !.pc = "flush", !.frame = c]
                  ELSE [wr[w] EXCEPT !.tries = Tried(w), !.pc = IF Tried(w) = 2 * N THEN "none" ELSE "alloc"]]
        BY DEF Candidate
    <2> HIDE DEF c
    <2>3. CASE c = NoFrame
        BY <1>2, <2>2, <2>3 DEF WriterType
    <2>4. CASE c # NoFrame /\ MayEvict(c)
        <3>1. wr'[w] = [wr[w] EXCEPT !.pc = "flush", !.frame = c]
            BY <1>2, <2>2, <2>4
        <3> QED BY <1>2, <2>1, <2>4, <3>1 DEF WriterType
    <2>5. CASE c # NoFrame /\ ~MayEvict(c)
        <3>1. wr'[w] = [wr[w] EXCEPT !.tries = Tried(w), !.pc = IF Tried(w) = 2 * N THEN "none" ELSE "alloc"]
            BY <1>2, <2>2, <2>5
        <3> QED BY <1>2, <3>1 DEF WriterType
    <2> QED BY <2>3, <2>4, <2>5
<1>7. wr'[w].block = wr[w].block /\ wr'[w].new = wr[w].new /\ wr'[w].pins = wr[w].pins /\ wr'[w].wrote = wr[w].wrote
    BY <1>2, <1>3, <1>4, <1>1, CandidateFacts, Count DEF Candidate, Tried, Evicting, Filling, WriterType, FrameType
<1>8. UNCHANGED <<frames, table, free, epoch, disk, rd, use>>
    BY <1>2, <1>3, <1>4, <1>1, CandidateFacts, Count DEF Candidate, Tried, Evicting, Filling, WriterType, FrameType
<1> QED BY <1>4, <1>5, <1>6, <1>7, <1>8

LEMMA GiveUpEffect ==
    ASSUME PlaceInv, NEW w \in Writers, GiveUp(w)
    PROVE  /\ wr[w].pc = "none" /\ wr[w].block \in Blocks
           /\ wr'[w].pc = "idle" /\ wr'[w].block = NoBlock /\ wr'[w].new = FALSE
           /\ wr'[w].frame = NoFrame /\ wr'[w].pins = wr[w].pins /\ wr'[w].wrote = wr[w].wrote
           /\ use'[wr[w].block] = [use[wr[w].block] EXCEPT !.state = IF wr[w].new THEN "unused" ELSE use[wr[w].block].state] /\ \A c \in Blocks : c # wr[w].block => use'[c] = use[c]
           /\ UNCHANGED <<frames, table, free, clock, epoch, disk, rd>>
<1>1. TypeInv /\ WriterPlace(w)
    BY DEF PlaceInv
<1>2. /\ wr \in [Writers -> WriterType] /\ wr[w] \in WriterType
      /\ frames \in [Frames -> FrameType] /\ \A f \in Frames : frames[f] \in FrameType
      /\ use \in [Blocks -> Use] /\ table \in [Blocks -> Frames \cup {NoBlock}]
      /\ disk \in [Blocks -> Page \cup {NoBlock}]
      /\ clock \in [hand : Int, ref : SUBSET Int, evictable : SUBSET Frames]
    BY <1>1 DEF TypeInv
<1>3. /\ wr[w].pc \notin {"idle", "flushed"} => wr[w].block \in Blocks
      /\ wr[w].pc \in Evicting \cup Filling \cup {"insert", "commit", "flushed"} => wr[w].frame \in Frames
      /\ wr[w].pc \in Evicting => frames[wr[w].frame].block \in Blocks
    BY <1>1 DEF WriterPlace
<1>4. wr[w].pc = "none" /\ wr[w].block \in Blocks
    BY <1>2, <1>3, Count DEF GiveUp, Back, Evicting, Filling, WriterType, FrameType
<1>5. wr'[w].pc = "idle" /\ wr'[w].block = NoBlock /\ wr'[w].new = FALSE
    BY <1>2, <1>3, <1>4, Count DEF GiveUp, Back, Evicting, Filling, WriterType, FrameType
<1>6. wr'[w].frame = NoFrame /\ wr'[w].pins = wr[w].pins /\ wr'[w].wrote = wr[w].wrote
    BY <1>2, <1>3, <1>4, Count DEF GiveUp, Back, Evicting, Filling, WriterType, FrameType
<1>7. use'[wr[w].block] = [use[wr[w].block] EXCEPT !.state = IF wr[w].new THEN "unused" ELSE use[wr[w].block].state] /\ \A c \in Blocks : c # wr[w].block => use'[c] = use[c]
    BY <1>2, <1>3, <1>4, Count DEF GiveUp, Back, Evicting, Filling, WriterType, FrameType
<1>8. UNCHANGED <<frames, table, free, clock, epoch, disk, rd>>
    BY <1>2, <1>3, <1>4, Count DEF GiveUp, Back, Evicting, Filling, WriterType, FrameType
<1> QED BY <1>4, <1>5, <1>6, <1>7, <1>8

LEMMA FlushVictimEffect ==
    ASSUME PlaceInv, NEW w \in Writers, FlushVictim(w)
    PROVE  /\ wr[w].pc = "flush" /\ wr[w].frame \in Frames /\ frames[wr[w].frame].block \in Blocks
           /\ wr'[w].pc = "remove" /\ wr'[w].block = wr[w].block /\ wr'[w].new = wr[w].new
           /\ wr'[w].victim = frames[wr[w].frame].block
           /\ wr'[w].frame = wr[w].frame /\ wr'[w].pins = wr[w].pins /\ wr'[w].wrote = wr[w].wrote
           /\ \A g \in Frames : g # wr[w].frame => frames'[g] = frames[g]
           /\ frames'[wr[w].frame].block = frames[wr[w].frame].block /\ frames'[wr[w].frame].page = (IF frames[wr[w].frame].dirty THEN Synced(wr[w].frame) ELSE frames[wr[w].frame].page)
           /\ frames'[wr[w].frame].len = frames[wr[w].frame].len /\ frames'[wr[w].frame].pin = frames[wr[w].frame].pin
           /\ frames'[wr[w].frame].dirty = frames[wr[w].frame].dirty /\ frames'[wr[w].frame].last = frames[wr[w].frame].last
           /\ disk'[frames[wr[w].frame].block] = (IF frames[wr[w].frame].dirty THEN Synced(wr[w].frame) ELSE disk[frames[wr[w].frame].block]) /\ \A c \in Blocks : c # frames[wr[w].frame].block => disk'[c] = disk[c]
           /\ UNCHANGED <<table, free, clock, epoch, rd, use>>
<1>1. TypeInv /\ WriterPlace(w)
    BY DEF PlaceInv
<1>2. /\ wr \in [Writers -> WriterType] /\ wr[w] \in WriterType
      /\ frames \in [Frames -> FrameType] /\ \A f \in Frames : frames[f] \in FrameType
      /\ use \in [Blocks -> Use] /\ table \in [Blocks -> Frames \cup {NoBlock}]
      /\ disk \in [Blocks -> Page \cup {NoBlock}]
      /\ clock \in [hand : Int, ref : SUBSET Int, evictable : SUBSET Frames]
    BY <1>1 DEF TypeInv
<1>3. /\ wr[w].pc \notin {"idle", "flushed"} => wr[w].block \in Blocks
      /\ wr[w].pc \in Evicting \cup Filling \cup {"insert", "commit", "flushed"} => wr[w].frame \in Frames
      /\ wr[w].pc \in Evicting => frames[wr[w].frame].block \in Blocks
    BY <1>1 DEF WriterPlace
<1>4. wr[w].pc = "flush" /\ wr[w].frame \in Frames /\ frames[wr[w].frame].block \in Blocks
    BY <1>2, <1>3, Count DEF FlushVictim, Goto, WritePage, Evicting, Filling, WriterType, FrameType
<1>13. frames[wr[w].frame].block # NoBlock
    BY <1>4, BufferAssumption
<1>14. wr'[w].victim = frames[wr[w].frame].block
    BY <1>2, <1>4, <1>13 DEF FlushVictim, WriterType
<1>5. wr'[w].pc = "remove" /\ wr'[w].block = wr[w].block /\ wr'[w].new = wr[w].new
    BY <1>2, <1>3, <1>4, <1>13, Count DEF FlushVictim, Goto, WritePage, Evicting, Filling, WriterType, FrameType
<1>6. wr'[w].frame = wr[w].frame /\ wr'[w].pins = wr[w].pins /\ wr'[w].wrote = wr[w].wrote
    BY <1>2, <1>3, <1>4, <1>13, Count DEF FlushVictim, Goto, WritePage, Evicting, Filling, WriterType, FrameType
<1>7. \A g \in Frames : g # wr[w].frame => frames'[g] = frames[g]
    BY <1>2, <1>3, <1>4, <1>13, Count DEF FlushVictim, Goto, WritePage, Evicting, Filling, WriterType, FrameType
<1>8. frames'[wr[w].frame].block = frames[wr[w].frame].block /\ frames'[wr[w].frame].page = (IF frames[wr[w].frame].dirty THEN Synced(wr[w].frame) ELSE frames[wr[w].frame].page)
    BY <1>2, <1>3, <1>4, <1>13, Count DEF FlushVictim, Goto, WritePage, Evicting, Filling, WriterType, FrameType
<1>9. frames'[wr[w].frame].len = frames[wr[w].frame].len /\ frames'[wr[w].frame].pin = frames[wr[w].frame].pin
    BY <1>2, <1>3, <1>4, <1>13, Count DEF FlushVictim, Goto, WritePage, Evicting, Filling, WriterType, FrameType
<1>10. frames'[wr[w].frame].dirty = frames[wr[w].frame].dirty /\ frames'[wr[w].frame].last = frames[wr[w].frame].last
    BY <1>2, <1>3, <1>4, <1>13, Count DEF FlushVictim, Goto, WritePage, Evicting, Filling, WriterType, FrameType
<1>11. disk'[frames[wr[w].frame].block] = (IF frames[wr[w].frame].dirty THEN Synced(wr[w].frame) ELSE disk[frames[wr[w].frame].block]) /\ \A c \in Blocks : c # frames[wr[w].frame].block => disk'[c] = disk[c]
    BY <1>2, <1>3, <1>4, <1>13, Count DEF FlushVictim, Goto, WritePage, Evicting, Filling, WriterType, FrameType
<1>12. UNCHANGED <<table, free, clock, epoch, rd, use>>
    BY <1>2, <1>3, <1>4, <1>13, Count DEF FlushVictim, Goto, WritePage, Evicting, Filling, WriterType, FrameType
<1> QED BY <1>4, <1>5, <1>6, <1>7, <1>8, <1>9, <1>10, <1>11, <1>12, <1>14

LEMMA RemoveVictimEffect ==
    ASSUME PlaceInv, NEW w \in Writers, RemoveVictim(w)
    PROVE  /\ wr[w].pc = "remove" /\ wr[w].frame \in Frames /\ frames[wr[w].frame].block \in Blocks /\ HoldsShard(frames[wr[w].frame].block) = {}
           /\ wr'[w].pc = "reset" /\ wr'[w].block = wr[w].block /\ wr'[w].new = wr[w].new
           /\ wr'[w].frame = wr[w].frame /\ wr'[w].pins = wr[w].pins /\ wr'[w].wrote = wr[w].wrote
           /\ table'[frames[wr[w].frame].block] = NoBlock /\ \A c \in Blocks : c # frames[wr[w].frame].block => table'[c] = table[c]
           /\ UNCHANGED <<frames, free, clock, epoch, disk, rd, use>>
<1>1. TypeInv /\ WriterPlace(w)
    BY DEF PlaceInv
<1>2. /\ wr \in [Writers -> WriterType] /\ wr[w] \in WriterType
      /\ frames \in [Frames -> FrameType] /\ \A f \in Frames : frames[f] \in FrameType
      /\ use \in [Blocks -> Use] /\ table \in [Blocks -> Frames \cup {NoBlock}]
      /\ disk \in [Blocks -> Page \cup {NoBlock}]
      /\ clock \in [hand : Int, ref : SUBSET Int, evictable : SUBSET Frames]
    BY <1>1 DEF TypeInv
<1>3. /\ wr[w].pc \notin {"idle", "flushed"} => wr[w].block \in Blocks
      /\ wr[w].pc \in Evicting \cup Filling \cup {"insert", "commit", "flushed"} => wr[w].frame \in Frames
      /\ wr[w].pc \in Evicting => frames[wr[w].frame].block \in Blocks
      /\ wr[w].pc = "remove" => wr[w].victim = frames[wr[w].frame].block
    BY <1>1 DEF WriterPlace
<1>4. wr[w].pc = "remove" /\ wr[w].frame \in Frames /\ frames[wr[w].frame].block \in Blocks /\ HoldsShard(frames[wr[w].frame].block) = {}
    BY <1>2, <1>3, Count DEF RemoveVictim, Goto, Evicting, Filling, WriterType, FrameType
<1>5. wr'[w].pc = "reset" /\ wr'[w].block = wr[w].block /\ wr'[w].new = wr[w].new
    BY <1>2, <1>3, <1>4, Count DEF RemoveVictim, Goto, Evicting, Filling, WriterType, FrameType
<1>6. wr'[w].frame = wr[w].frame /\ wr'[w].pins = wr[w].pins /\ wr'[w].wrote = wr[w].wrote
    BY <1>2, <1>3, <1>4, Count DEF RemoveVictim, Goto, Evicting, Filling, WriterType, FrameType
<1>7. table'[frames[wr[w].frame].block] = NoBlock /\ \A c \in Blocks : c # frames[wr[w].frame].block => table'[c] = table[c]
    BY <1>2, <1>3, <1>4, Count DEF RemoveVictim, Goto, Evicting, Filling, WriterType, FrameType
<1>8. UNCHANGED <<frames, free, clock, epoch, disk, rd, use>>
    BY <1>2, <1>3, <1>4, Count DEF RemoveVictim, Goto, Evicting, Filling, WriterType, FrameType
<1> QED BY <1>4, <1>5, <1>6, <1>7, <1>8

LEMMA ResetVictimEffect ==
    ASSUME PlaceInv, NEW w \in Writers, ResetVictim(w)
    PROVE  /\ wr[w].pc = "reset" /\ wr[w].frame \in Frames
           /\ clock'.evictable = clock.evictable \ {wr[w].frame}
           /\ wr'[w].pc = "load" /\ wr'[w].block = wr[w].block /\ wr'[w].new = wr[w].new
           /\ wr'[w].frame = wr[w].frame /\ wr'[w].pins = wr[w].pins /\ wr'[w].wrote = wr[w].wrote
           /\ \A g \in Frames : g # wr[w].frame => frames'[g] = frames[g]
           /\ frames'[wr[w].frame].block = NoBlock /\ frames'[wr[w].frame].page = frames[wr[w].frame].page
           /\ frames'[wr[w].frame].len = frames[wr[w].frame].len /\ frames'[wr[w].frame].pin = 0
           /\ frames'[wr[w].frame].dirty = FALSE /\ frames'[wr[w].frame].last = 0
           /\ UNCHANGED <<table, free, epoch, disk, rd, use>>
<1>1. TypeInv /\ WriterPlace(w)
    BY DEF PlaceInv
<1>2. /\ wr \in [Writers -> WriterType] /\ wr[w] \in WriterType
      /\ frames \in [Frames -> FrameType] /\ \A f \in Frames : frames[f] \in FrameType
      /\ use \in [Blocks -> Use] /\ table \in [Blocks -> Frames \cup {NoBlock}]
      /\ disk \in [Blocks -> Page \cup {NoBlock}]
      /\ clock \in [hand : Int, ref : SUBSET Int, evictable : SUBSET Frames]
    BY <1>1 DEF TypeInv
<1>3. /\ wr[w].pc \notin {"idle", "flushed"} => wr[w].block \in Blocks
      /\ wr[w].pc \in Evicting \cup Filling \cup {"insert", "commit", "flushed"} => wr[w].frame \in Frames
      /\ wr[w].pc \in Evicting => frames[wr[w].frame].block \in Blocks
    BY <1>1 DEF WriterPlace
<1>4. wr[w].pc = "reset" /\ wr[w].frame \in Frames
    BY <1>2, <1>3, Count DEF ResetVictim, Goto, Emptied, SetEvictable, Evicting, Filling, WriterType, FrameType
<1>5. clock'.evictable = clock.evictable \ {wr[w].frame}
    BY <1>2, <1>3, <1>4, Count DEF ResetVictim, Goto, Emptied, SetEvictable, Evicting, Filling, WriterType, FrameType
<1>6. wr'[w].pc = "load" /\ wr'[w].block = wr[w].block /\ wr'[w].new = wr[w].new
    BY <1>2, <1>3, <1>4, Count DEF ResetVictim, Goto, Emptied, SetEvictable, Evicting, Filling, WriterType, FrameType
<1>7. wr'[w].frame = wr[w].frame /\ wr'[w].pins = wr[w].pins /\ wr'[w].wrote = wr[w].wrote
    BY <1>2, <1>3, <1>4, Count DEF ResetVictim, Goto, Emptied, SetEvictable, Evicting, Filling, WriterType, FrameType
<1>8. \A g \in Frames : g # wr[w].frame => frames'[g] = frames[g]
    BY <1>2, <1>3, <1>4, Count DEF ResetVictim, Goto, Emptied, SetEvictable, Evicting, Filling, WriterType, FrameType
<1>9. frames'[wr[w].frame].block = NoBlock /\ frames'[wr[w].frame].page = frames[wr[w].frame].page
    BY <1>2, <1>3, <1>4, Count DEF ResetVictim, Goto, Emptied, SetEvictable, Evicting, Filling, WriterType, FrameType
<1>10. frames'[wr[w].frame].len = frames[wr[w].frame].len /\ frames'[wr[w].frame].pin = 0
    BY <1>2, <1>3, <1>4, Count DEF ResetVictim, Goto, Emptied, SetEvictable, Evicting, Filling, WriterType, FrameType
<1>11. frames'[wr[w].frame].dirty = FALSE /\ frames'[wr[w].frame].last = 0
    BY <1>2, <1>3, <1>4, Count DEF ResetVictim, Goto, Emptied, SetEvictable, Evicting, Filling, WriterType, FrameType
<1>12. UNCHANGED <<table, free, epoch, disk, rd, use>>
    BY <1>2, <1>3, <1>4, Count DEF ResetVictim, Goto, Emptied, SetEvictable, Evicting, Filling, WriterType, FrameType
<1> QED BY <1>4, <1>5, <1>6, <1>7, <1>8, <1>9, <1>10, <1>11, <1>12

LEMMA LoadPageEffect ==
    ASSUME PlaceInv, NEW w \in Writers, LoadPage(w)
    PROVE  /\ wr[w].pc = "load" /\ wr[w].frame \in Frames /\ wr[w].block \in Blocks
           /\ wr'[w].pc = "publish" /\ wr'[w].block = wr[w].block /\ wr'[w].new = wr[w].new
           /\ wr'[w].frame = wr[w].frame /\ wr'[w].pins = wr[w].pins /\ wr'[w].wrote = wr[w].wrote
           /\ \A g \in Frames : g # wr[w].frame => frames'[g] = frames[g]
           /\ frames'[wr[w].frame].block = frames[wr[w].frame].block /\ frames'[wr[w].frame].page = (IF wr[w].new THEN NewPage(use[wr[w].block].uses) ELSE disk[wr[w].block])
           /\ frames'[wr[w].frame].len = (IF wr[w].new THEN 0 ELSE disk[wr[w].block].header) /\ frames'[wr[w].frame].pin = frames[wr[w].frame].pin
           /\ frames'[wr[w].frame].dirty = wr[w].new /\ frames'[wr[w].frame].last = frames[wr[w].frame].last
           /\ UNCHANGED <<table, free, clock, epoch, disk, rd, use>>
<1>1. TypeInv /\ WriterPlace(w)
    BY DEF PlaceInv
<1>2. /\ wr \in [Writers -> WriterType] /\ wr[w] \in WriterType
      /\ frames \in [Frames -> FrameType] /\ \A f \in Frames : frames[f] \in FrameType
      /\ use \in [Blocks -> Use] /\ table \in [Blocks -> Frames \cup {NoBlock}]
      /\ disk \in [Blocks -> Page \cup {NoBlock}]
      /\ clock \in [hand : Int, ref : SUBSET Int, evictable : SUBSET Frames]
    BY <1>1 DEF TypeInv
<1>3. /\ wr[w].pc \notin {"idle", "flushed"} => wr[w].block \in Blocks
      /\ wr[w].pc \in Evicting \cup Filling \cup {"insert", "commit", "flushed"} => wr[w].frame \in Frames
      /\ wr[w].pc \in Evicting => frames[wr[w].frame].block \in Blocks
    BY <1>1 DEF WriterPlace
<1>4. wr[w].pc = "load" /\ wr[w].frame \in Frames /\ wr[w].block \in Blocks
    BY <1>2, <1>3, Count DEF LoadPage, Goto, RebuildLen, Evicting, Filling, WriterType, FrameType, NewPage
<1>5. wr'[w].pc = "publish" /\ wr'[w].block = wr[w].block /\ wr'[w].new = wr[w].new
    BY <1>2, <1>3, <1>4, Count DEF LoadPage, Goto, RebuildLen, Evicting, Filling, WriterType, FrameType, NewPage
<1>6. wr'[w].frame = wr[w].frame /\ wr'[w].pins = wr[w].pins /\ wr'[w].wrote = wr[w].wrote
    BY <1>2, <1>3, <1>4, Count DEF LoadPage, Goto, RebuildLen, Evicting, Filling, WriterType, FrameType, NewPage
<1>7. \A g \in Frames : g # wr[w].frame => frames'[g] = frames[g]
    BY <1>2, <1>3, <1>4, Count DEF LoadPage, Goto, RebuildLen, Evicting, Filling, WriterType, FrameType, NewPage
<1>8. frames'[wr[w].frame].block = frames[wr[w].frame].block /\ frames'[wr[w].frame].page = (IF wr[w].new THEN NewPage(use[wr[w].block].uses) ELSE disk[wr[w].block])
    BY <1>2, <1>3, <1>4, Count DEF LoadPage, Goto, RebuildLen, Evicting, Filling, WriterType, FrameType, NewPage
<1>9. frames'[wr[w].frame].len = (IF wr[w].new THEN 0 ELSE disk[wr[w].block].header) /\ frames'[wr[w].frame].pin = frames[wr[w].frame].pin
    BY <1>2, <1>3, <1>4, Count DEF LoadPage, Goto, RebuildLen, Evicting, Filling, WriterType, FrameType, NewPage
<1>10. frames'[wr[w].frame].dirty = wr[w].new /\ frames'[wr[w].frame].last = frames[wr[w].frame].last
    BY <1>2, <1>3, <1>4, Count DEF LoadPage, Goto, RebuildLen, Evicting, Filling, WriterType, FrameType, NewPage
<1>11. UNCHANGED <<table, free, clock, epoch, disk, rd, use>>
    BY <1>2, <1>3, <1>4, Count DEF LoadPage, Goto, RebuildLen, Evicting, Filling, WriterType, FrameType, NewPage
<1> QED BY <1>4, <1>5, <1>6, <1>7, <1>8, <1>9, <1>10, <1>11

LEMMA PublishEffect ==
    ASSUME PlaceInv, NEW w \in Writers, Publish(w)
    PROVE  /\ wr[w].pc = "publish" /\ wr[w].frame \in Frames /\ wr[w].block \in Blocks
           /\ epoch' = epoch + 1
           /\ wr'[w].pc = "insert" /\ wr'[w].block = wr[w].block /\ wr'[w].new = wr[w].new
           /\ wr'[w].frame = wr[w].frame /\ wr'[w].pins = wr[w].pins /\ wr'[w].wrote = wr[w].wrote
           /\ \A g \in Frames : g # wr[w].frame => frames'[g] = frames[g]
           /\ frames'[wr[w].frame].block = wr[w].block /\ frames'[wr[w].frame].page = frames[wr[w].frame].page
           /\ frames'[wr[w].frame].len = frames[wr[w].frame].len /\ frames'[wr[w].frame].pin = 1
           /\ frames'[wr[w].frame].dirty = frames[wr[w].frame].dirty /\ frames'[wr[w].frame].last = epoch + 1
           /\ UNCHANGED <<table, free, clock, disk, rd, use>>
<1>1. TypeInv /\ WriterPlace(w)
    BY DEF PlaceInv
<1>2. /\ wr \in [Writers -> WriterType] /\ wr[w] \in WriterType
      /\ frames \in [Frames -> FrameType] /\ \A f \in Frames : frames[f] \in FrameType
      /\ use \in [Blocks -> Use] /\ table \in [Blocks -> Frames \cup {NoBlock}]
      /\ disk \in [Blocks -> Page \cup {NoBlock}]
      /\ clock \in [hand : Int, ref : SUBSET Int, evictable : SUBSET Frames]
    BY <1>1 DEF TypeInv
<1>3. /\ wr[w].pc \notin {"idle", "flushed"} => wr[w].block \in Blocks
      /\ wr[w].pc \in Evicting \cup Filling \cup {"insert", "commit", "flushed"} => wr[w].frame \in Frames
      /\ wr[w].pc \in Evicting => frames[wr[w].frame].block \in Blocks
    BY <1>1 DEF WriterPlace
<1>4. wr[w].pc = "publish" /\ wr[w].frame \in Frames /\ wr[w].block \in Blocks
    BY <1>2, <1>3, Count DEF Publish, Goto, Advance, Evicting, Filling, WriterType, FrameType
<1>5. epoch' = epoch + 1
    BY <1>2, <1>3, <1>4, Count DEF Publish, Goto, Advance, Evicting, Filling, WriterType, FrameType
<1>6. wr'[w].pc = "insert" /\ wr'[w].block = wr[w].block /\ wr'[w].new = wr[w].new
    BY <1>2, <1>3, <1>4, Count DEF Publish, Goto, Advance, Evicting, Filling, WriterType, FrameType
<1>7. wr'[w].frame = wr[w].frame /\ wr'[w].pins = wr[w].pins /\ wr'[w].wrote = wr[w].wrote
    BY <1>2, <1>3, <1>4, Count DEF Publish, Goto, Advance, Evicting, Filling, WriterType, FrameType
<1>8. \A g \in Frames : g # wr[w].frame => frames'[g] = frames[g]
    BY <1>2, <1>3, <1>4, Count DEF Publish, Goto, Advance, Evicting, Filling, WriterType, FrameType
<1>9. frames'[wr[w].frame].block = wr[w].block /\ frames'[wr[w].frame].page = frames[wr[w].frame].page
    BY <1>2, <1>3, <1>4, Count DEF Publish, Goto, Advance, Evicting, Filling, WriterType, FrameType
<1>10. frames'[wr[w].frame].len = frames[wr[w].frame].len /\ frames'[wr[w].frame].pin = 1
    BY <1>2, <1>3, <1>4, Count DEF Publish, Goto, Advance, Evicting, Filling, WriterType, FrameType
<1>11. frames'[wr[w].frame].dirty = frames[wr[w].frame].dirty /\ frames'[wr[w].frame].last = epoch + 1
    BY <1>2, <1>3, <1>4, Count DEF Publish, Goto, Advance, Evicting, Filling, WriterType, FrameType
<1>12. UNCHANGED <<table, free, clock, disk, rd, use>>
    BY <1>2, <1>3, <1>4, Count DEF Publish, Goto, Advance, Evicting, Filling, WriterType, FrameType
<1> QED BY <1>4, <1>5, <1>6, <1>7, <1>8, <1>9, <1>10, <1>11, <1>12

LEMMA InsertEffect ==
    ASSUME PlaceInv, NEW w \in Writers, Insert(w)
    PROVE  /\ wr[w].pc = "insert" /\ wr[w].frame \in Frames /\ wr[w].block \in Blocks
           /\ clock'.evictable = clock.evictable \ {wr[w].frame}
           /\ wr'[w].pc = "idle" /\ wr'[w].block = NoBlock /\ wr'[w].new = FALSE
           /\ wr'[w].frame = NoFrame /\ wr'[w].pins = [wr[w].pins EXCEPT ![wr[w].block] = wr[w].frame] /\ wr'[w].wrote = IF wr[w].new THEN wr[w].wrote \cup {wr[w].block} ELSE wr[w].wrote
           /\ table'[wr[w].block] = wr[w].frame /\ \A c \in Blocks : c # wr[w].block => table'[c] = table[c]
           /\ use'[wr[w].block] = [use[wr[w].block] EXCEPT !.state = IF wr[w].new THEN "live" ELSE use[wr[w].block].state]
           /\ \A c \in Blocks : c # wr[w].block => use'[c] = use[c]
           /\ UNCHANGED <<frames, free, epoch, disk, rd>>
<1>1. TypeInv /\ WriterPlace(w)
    BY DEF PlaceInv
<1>2. /\ wr \in [Writers -> WriterType] /\ wr[w] \in WriterType
      /\ frames \in [Frames -> FrameType] /\ \A f \in Frames : frames[f] \in FrameType
      /\ use \in [Blocks -> Use] /\ table \in [Blocks -> Frames \cup {NoBlock}]
      /\ disk \in [Blocks -> Page \cup {NoBlock}]
      /\ clock \in [hand : Int, ref : SUBSET Int, evictable : SUBSET Frames]
    BY <1>1 DEF TypeInv
<1>3. /\ wr[w].pc \notin {"idle", "flushed"} => wr[w].block \in Blocks
      /\ wr[w].pc \in Evicting \cup Filling \cup {"insert", "commit", "flushed"} => wr[w].frame \in Frames
      /\ wr[w].pc \in Evicting => frames[wr[w].frame].block \in Blocks
    BY <1>1 DEF WriterPlace
<1>4. wr[w].pc = "insert" /\ wr[w].frame \in Frames /\ wr[w].block \in Blocks
    BY <1>2, <1>3, Count DEF Insert, Return, Back, Linked, SetEvictable, Evicting, Filling, WriterType, FrameType
<1>5. clock'.evictable = clock.evictable \ {wr[w].frame}
    BY <1>2, <1>3, <1>4, Count DEF Insert, Return, Back, Linked, SetEvictable, Evicting, Filling, WriterType, FrameType
<1>6. wr'[w].pc = "idle" /\ wr'[w].block = NoBlock /\ wr'[w].new = FALSE
    BY <1>2, <1>3, <1>4, Count DEF Insert, Return, Back, Linked, SetEvictable, Evicting, Filling, WriterType, FrameType
<1>7. wr'[w].frame = NoFrame /\ wr'[w].pins = [wr[w].pins EXCEPT ![wr[w].block] = wr[w].frame] /\ wr'[w].wrote = IF wr[w].new THEN wr[w].wrote \cup {wr[w].block} ELSE wr[w].wrote
    BY <1>2, <1>3, <1>4, Count DEF Insert, Return, Back, Linked, SetEvictable, Evicting, Filling, WriterType, FrameType
<1>8. table'[wr[w].block] = wr[w].frame /\ \A c \in Blocks : c # wr[w].block => table'[c] = table[c]
    BY <1>2, <1>3, <1>4, Count DEF Insert, Return, Back, Linked, SetEvictable, Evicting, Filling, WriterType, FrameType
<1>9. use'[wr[w].block] = [use[wr[w].block] EXCEPT !.state = IF wr[w].new THEN "live" ELSE use[wr[w].block].state]
    BY <1>2, <1>3, <1>4, Count DEF Insert, Return, Back, Linked, SetEvictable, Evicting, Filling, WriterType, FrameType
<1>10. \A c \in Blocks : c # wr[w].block => use'[c] = use[c]
    BY <1>2, <1>3, <1>4, Count DEF Insert, Return, Back, Linked, SetEvictable, Evicting, Filling, WriterType, FrameType
<1>11. UNCHANGED <<frames, free, epoch, disk, rd>>
    BY <1>2, <1>3, <1>4, Count DEF Insert, Return, Back, Linked, SetEvictable, Evicting, Filling, WriterType, FrameType
<1> QED BY <1>4, <1>5, <1>6, <1>7, <1>8, <1>9, <1>10, <1>11

LEMMA Append_DataEffect ==
    ASSUME PlaceInv, NEW w \in Writers, Append_Data(w)
    PROVE  /\ wr[w].pc = "idle" /\ On(w) \in Blocks
           /\ wr[w].pins[On(w)] \in Frames /\ use[On(w)].state = "live"
           /\ wr'[w].pc = "commit" /\ wr'[w].block = On(w) /\ wr'[w].new = wr[w].new
           /\ wr'[w].frame = wr[w].pins[On(w)] /\ wr'[w].pins = wr[w].pins /\ wr'[w].wrote = wr[w].wrote
           /\ \A g \in Frames : g # wr[w].pins[On(w)] => frames'[g] = frames[g]
           /\ frames'[wr[w].pins[On(w)]].block = frames[wr[w].pins[On(w)]].block /\ frames'[wr[w].pins[On(w)]].page = [frames[wr[w].pins[On(w)]].page EXCEPT !.n = frames[wr[w].pins[On(w)]].page.n + 1]
           /\ frames'[wr[w].pins[On(w)]].len = frames[wr[w].pins[On(w)]].len /\ frames'[wr[w].pins[On(w)]].pin = frames[wr[w].pins[On(w)]].pin
           /\ frames'[wr[w].pins[On(w)]].dirty = frames[wr[w].pins[On(w)]].dirty /\ frames'[wr[w].pins[On(w)]].last = frames[wr[w].pins[On(w)]].last
           /\ UNCHANGED <<table, free, clock, epoch, disk, rd, use>>
<1>1. TypeInv /\ WriterPlace(w)
    BY DEF PlaceInv
<1>2. /\ wr \in [Writers -> WriterType] /\ wr[w] \in WriterType
      /\ frames \in [Frames -> FrameType] /\ \A f \in Frames : frames[f] \in FrameType
      /\ use \in [Blocks -> Use] /\ table \in [Blocks -> Frames \cup {NoBlock}]
      /\ disk \in [Blocks -> Page \cup {NoBlock}]
      /\ clock \in [hand : Int, ref : SUBSET Int, evictable : SUBSET Frames]
    BY <1>1 DEF TypeInv
<1>3. On(w) \in Blocks
    BY <1>1, CallType DEF Append_Data
<1>4. wr[w].pc = "idle" /\ On(w) \in Blocks
    BY <1>2, <1>3, Count DEF Append_Data, Calls, Evicting, Filling, WriterType, FrameType
<1>5. wr[w].pins[On(w)] \in Frames /\ use[On(w)].state = "live"
    BY <1>2, <1>3, <1>4, Count DEF Append_Data, Calls, Evicting, Filling, WriterType, FrameType
<1>6. wr'[w].pc = "commit" /\ wr'[w].block = On(w) /\ wr'[w].new = wr[w].new
    BY <1>2, <1>3, <1>4, Count DEF Append_Data, Calls, Evicting, Filling, WriterType, FrameType
<1>7. wr'[w].frame = wr[w].pins[On(w)] /\ wr'[w].pins = wr[w].pins /\ wr'[w].wrote = wr[w].wrote
    BY <1>2, <1>3, <1>4, Count DEF Append_Data, Calls, Evicting, Filling, WriterType, FrameType
<1>8. \A g \in Frames : g # wr[w].pins[On(w)] => frames'[g] = frames[g]
    BY <1>2, <1>3, <1>4, Count DEF Append_Data, Calls, Evicting, Filling, WriterType, FrameType
<1>9. frames'[wr[w].pins[On(w)]].block = frames[wr[w].pins[On(w)]].block /\ frames'[wr[w].pins[On(w)]].page = [frames[wr[w].pins[On(w)]].page EXCEPT !.n = frames[wr[w].pins[On(w)]].page.n + 1]
    BY <1>2, <1>3, <1>4, Count DEF Append_Data, Calls, Evicting, Filling, WriterType, FrameType
<1>10. frames'[wr[w].pins[On(w)]].len = frames[wr[w].pins[On(w)]].len /\ frames'[wr[w].pins[On(w)]].pin = frames[wr[w].pins[On(w)]].pin
    BY <1>2, <1>3, <1>4, Count DEF Append_Data, Calls, Evicting, Filling, WriterType, FrameType
<1>11. frames'[wr[w].pins[On(w)]].dirty = frames[wr[w].pins[On(w)]].dirty /\ frames'[wr[w].pins[On(w)]].last = frames[wr[w].pins[On(w)]].last
    BY <1>2, <1>3, <1>4, Count DEF Append_Data, Calls, Evicting, Filling, WriterType, FrameType
<1>12. UNCHANGED <<table, free, clock, epoch, disk, rd, use>>
    BY <1>2, <1>3, <1>4, Count DEF Append_Data, Calls, Evicting, Filling, WriterType, FrameType
<1> QED BY <1>4, <1>5, <1>6, <1>7, <1>8, <1>9, <1>10, <1>11, <1>12

LEMMA Append_CommitEffect ==
    ASSUME PlaceInv, NEW w \in Writers, Append_Commit(w)
    PROVE  /\ wr[w].pc = "commit" /\ wr[w].frame \in Frames /\ wr[w].block \in Blocks
           /\ wr'[w].pc = "idle" /\ wr'[w].block = NoBlock /\ wr'[w].new = FALSE
           /\ wr'[w].frame = NoFrame /\ wr'[w].pins = wr[w].pins /\ wr'[w].wrote = wr[w].wrote \cup {wr[w].block}
           /\ \A g \in Frames : g # wr[w].frame => frames'[g] = frames[g]
           /\ frames'[wr[w].frame].block = frames[wr[w].frame].block /\ frames'[wr[w].frame].page = frames[wr[w].frame].page
           /\ frames'[wr[w].frame].len = frames[wr[w].frame].len + 1 /\ frames'[wr[w].frame].pin = frames[wr[w].frame].pin
           /\ frames'[wr[w].frame].dirty = frames[wr[w].frame].dirty /\ frames'[wr[w].frame].last = frames[wr[w].frame].last
           /\ use'[wr[w].block] = [use[wr[w].block] EXCEPT !.n = use[wr[w].block].n + 1] /\ \A c \in Blocks : c # wr[w].block => use'[c] = use[c]
           /\ UNCHANGED <<table, free, clock, epoch, disk, rd>>
<1>1. TypeInv /\ WriterPlace(w)
    BY DEF PlaceInv
<1>2. /\ wr \in [Writers -> WriterType] /\ wr[w] \in WriterType
      /\ frames \in [Frames -> FrameType] /\ \A f \in Frames : frames[f] \in FrameType
      /\ use \in [Blocks -> Use] /\ table \in [Blocks -> Frames \cup {NoBlock}]
      /\ disk \in [Blocks -> Page \cup {NoBlock}]
      /\ clock \in [hand : Int, ref : SUBSET Int, evictable : SUBSET Frames]
    BY <1>1 DEF TypeInv
<1>3. /\ wr[w].pc \notin {"idle", "flushed"} => wr[w].block \in Blocks
      /\ wr[w].pc \in Evicting \cup Filling \cup {"insert", "commit", "flushed"} => wr[w].frame \in Frames
      /\ wr[w].pc \in Evicting => frames[wr[w].frame].block \in Blocks
    BY <1>1 DEF WriterPlace
<1>4. wr[w].pc = "commit" /\ wr[w].frame \in Frames /\ wr[w].block \in Blocks
    BY <1>2, <1>3, Count DEF Append_Commit, Back, Evicting, Filling, WriterType, FrameType
<1>5. wr'[w].pc = "idle" /\ wr'[w].block = NoBlock /\ wr'[w].new = FALSE
    BY <1>2, <1>3, <1>4, Count DEF Append_Commit, Back, Evicting, Filling, WriterType, FrameType
<1>6. wr'[w].frame = NoFrame /\ wr'[w].pins = wr[w].pins /\ wr'[w].wrote = wr[w].wrote \cup {wr[w].block}
    BY <1>2, <1>3, <1>4, Count DEF Append_Commit, Back, Evicting, Filling, WriterType, FrameType
<1>7. \A g \in Frames : g # wr[w].frame => frames'[g] = frames[g]
    BY <1>2, <1>3, <1>4, Count DEF Append_Commit, Back, Evicting, Filling, WriterType, FrameType
<1>8. frames'[wr[w].frame].block = frames[wr[w].frame].block /\ frames'[wr[w].frame].page = frames[wr[w].frame].page
    BY <1>2, <1>3, <1>4, Count DEF Append_Commit, Back, Evicting, Filling, WriterType, FrameType
<1>9. frames'[wr[w].frame].len = frames[wr[w].frame].len + 1 /\ frames'[wr[w].frame].pin = frames[wr[w].frame].pin
    BY <1>2, <1>3, <1>4, Count DEF Append_Commit, Back, Evicting, Filling, WriterType, FrameType
<1>10. frames'[wr[w].frame].dirty = frames[wr[w].frame].dirty /\ frames'[wr[w].frame].last = frames[wr[w].frame].last
    BY <1>2, <1>3, <1>4, Count DEF Append_Commit, Back, Evicting, Filling, WriterType, FrameType
<1>11. use'[wr[w].block] = [use[wr[w].block] EXCEPT !.n = use[wr[w].block].n + 1] /\ \A c \in Blocks : c # wr[w].block => use'[c] = use[c]
    BY <1>2, <1>3, <1>4, Count DEF Append_Commit, Back, Evicting, Filling, WriterType, FrameType
<1>12. UNCHANGED <<table, free, clock, epoch, disk, rd>>
    BY <1>2, <1>3, <1>4, Count DEF Append_Commit, Back, Evicting, Filling, WriterType, FrameType
<1> QED BY <1>4, <1>5, <1>6, <1>7, <1>8, <1>9, <1>10, <1>11, <1>12

LEMMA UnpinPageEffect ==
    ASSUME PlaceInv, NEW w \in Writers, UnpinPage(w)
    PROVE  /\ wr[w].pc = "idle" /\ On(w) \in Blocks
           /\ wr[w].pins[On(w)] # NoFrame
           /\ wr'[w].pc = "idle" /\ wr'[w].block = wr[w].block /\ wr'[w].new = wr[w].new
           /\ wr'[w].frame = wr[w].frame /\ wr'[w].pins = [wr[w].pins EXCEPT ![On(w)] = NoFrame] /\ wr'[w].wrote = wr[w].wrote \ {On(w)}
           /\ table[On(w)] = NoBlock => frames' = frames /\ clock' = clock
           /\ table[On(w)] # NoBlock => table[On(w)] \in Frames /\ \A g \in Frames : g # table[On(w)] => frames'[g] = frames[g]
           /\ table[On(w)] # NoBlock => frames'[table[On(w)]] = [frames[table[On(w)]] EXCEPT !.pin = frames[table[On(w)]].pin - 1,
                                                 !.dirty = frames[table[On(w)]].dirty \/ On(w) \in wr[w].wrote]
           /\ table[On(w)] # NoBlock => clock'.evictable \in {clock.evictable, clock.evictable \cup {table[On(w)]}}
           /\ UNCHANGED <<table, free, epoch, disk, rd, use>>
<1>1. TypeInv /\ WriterPlace(w)
    BY DEF PlaceInv
<1>2. /\ wr \in [Writers -> WriterType] /\ wr[w] \in WriterType
      /\ frames \in [Frames -> FrameType] /\ \A f \in Frames : frames[f] \in FrameType
      /\ use \in [Blocks -> Use] /\ table \in [Blocks -> Frames \cup {NoBlock}]
      /\ disk \in [Blocks -> Page \cup {NoBlock}]
      /\ clock \in [hand : Int, ref : SUBSET Int, evictable : SUBSET Frames]
    BY <1>1 DEF TypeInv
<1>3. On(w) \in Blocks
    BY <1>1, CallType DEF UnpinPage
<1>4. wr[w].pc = "idle" /\ On(w) \in Blocks
    BY <1>2, <1>3, Count DEF UnpinPage, Calls, Unpinned, Evicting, Filling, WriterType, FrameType
<1>5. wr[w].pins[On(w)] # NoFrame
    BY <1>2, <1>3, <1>4, Count DEF UnpinPage, Calls, Unpinned, Evicting, Filling, WriterType, FrameType
<1>6. wr'[w].pc = "idle" /\ wr'[w].block = wr[w].block /\ wr'[w].new = wr[w].new
    BY <1>2, <1>3, <1>4, Count DEF UnpinPage, Calls, Unpinned, Evicting, Filling, WriterType, FrameType
<1>7. wr'[w].frame = wr[w].frame /\ wr'[w].pins = [wr[w].pins EXCEPT ![On(w)] = NoFrame] /\ wr'[w].wrote = wr[w].wrote \ {On(w)}
    BY <1>2, <1>3, <1>4, Count DEF UnpinPage, Calls, Unpinned, Evicting, Filling, WriterType, FrameType
<1>8. table[On(w)] = NoBlock => frames' = frames /\ clock' = clock
    BY <1>2, <1>3, <1>4, Count DEF UnpinPage, Calls, Unpinned, Evicting, Filling, WriterType, FrameType
<1>9. table[On(w)] # NoBlock => table[On(w)] \in Frames /\ \A g \in Frames : g # table[On(w)] => frames'[g] = frames[g]
    BY <1>2, <1>3, <1>4, Count DEF UnpinPage, Calls, Unpinned, Evicting, Filling, WriterType, FrameType
<1>10. table[On(w)] # NoBlock => frames'[table[On(w)]] = [frames[table[On(w)]] EXCEPT !.pin = frames[table[On(w)]].pin - 1,
                                          !.dirty = frames[table[On(w)]].dirty \/ On(w) \in wr[w].wrote]
    BY <1>2, <1>3, <1>4, Count DEF UnpinPage, Calls, Unpinned, Evicting, Filling, WriterType, FrameType
<1>11. table[On(w)] # NoBlock => clock'.evictable \in {clock.evictable, clock.evictable \cup {table[On(w)]}}
    BY <1>2, <1>3, <1>4, Count DEF UnpinPage, Calls, Unpinned, Evicting, Filling, WriterType, FrameType
<1>12. UNCHANGED <<table, free, epoch, disk, rd, use>>
    BY <1>2, <1>3, <1>4, Count DEF UnpinPage, Calls, Unpinned, Evicting, Filling, WriterType, FrameType
<1> QED BY <1>4, <1>5, <1>6, <1>7, <1>8, <1>9, <1>10, <1>11, <1>12

LEMMA SkipEffect ==
    ASSUME PlaceInv, NEW w \in Writers, Skip(w)
    PROVE  /\ wr' = wr
           /\ UNCHANGED <<frames, table, free, clock, epoch, disk, rd, use>>
<1>1. TypeInv /\ WriterPlace(w)
    BY DEF PlaceInv
<1>2. /\ wr \in [Writers -> WriterType] /\ wr[w] \in WriterType
      /\ frames \in [Frames -> FrameType] /\ \A f \in Frames : frames[f] \in FrameType
      /\ use \in [Blocks -> Use] /\ table \in [Blocks -> Frames \cup {NoBlock}]
      /\ disk \in [Blocks -> Page \cup {NoBlock}]
      /\ clock \in [hand : Int, ref : SUBSET Int, evictable : SUBSET Frames]
    BY <1>1 DEF TypeInv
<1>3. /\ wr[w].pc \notin {"idle", "flushed"} => wr[w].block \in Blocks
      /\ wr[w].pc \in Evicting \cup Filling \cup {"insert", "commit", "flushed"} => wr[w].frame \in Frames
      /\ wr[w].pc \in Evicting => frames[wr[w].frame].block \in Blocks
    BY <1>1 DEF WriterPlace
<1>4. wr' = wr
    BY <1>2, <1>3, Count DEF Skip, Evicting, Filling, WriterType, FrameType
<1>5. UNCHANGED <<frames, table, free, clock, epoch, disk, rd, use>>
    BY <1>2, <1>3, <1>4, Count DEF Skip, Evicting, Filling, WriterType, FrameType
<1> QED BY <1>4, <1>5

LEMMA FlushPageEffect ==
    ASSUME PlaceInv, NEW w \in Writers, FlushPage(w)
    PROVE  /\ wr[w].pc = "idle" /\ On(w) \in Blocks
           /\ \/ wr' = wr /\ frames' = frames /\ disk' = disk
              \/ /\ table[On(w)] \in Frames
                 /\ wr'[w].pc = "flushed" /\ wr'[w].frame = table[On(w)] /\ wr'[w].block = wr[w].block
                 /\ wr'[w].new = wr[w].new /\ wr'[w].pins = wr[w].pins /\ wr'[w].wrote = wr[w].wrote
                 /\ frames'[table[On(w)]] = [frames[table[On(w)]] EXCEPT !.page = Synced(table[On(w)])]
                 /\ \A g \in Frames : g # table[On(w)] => frames'[g] = frames[g]
                 /\ disk' = WritePage(table[On(w)])
           /\ UNCHANGED <<table, free, clock, epoch, rd, use>>
<1>1. TypeInv /\ WriterPlace(w)
    BY DEF PlaceInv
<1>2. /\ wr \in [Writers -> WriterType] /\ wr[w] \in WriterType
      /\ frames \in [Frames -> FrameType] /\ \A f \in Frames : frames[f] \in FrameType
      /\ use \in [Blocks -> Use] /\ table \in [Blocks -> Frames \cup {NoBlock}]
      /\ disk \in [Blocks -> Page \cup {NoBlock}]
      /\ clock \in [hand : Int, ref : SUBSET Int, evictable : SUBSET Frames]
    BY <1>1 DEF TypeInv
<1>3. On(w) \in Blocks
    BY <1>1, CallType DEF FlushPage
<1>4. wr[w].pc = "idle" /\ On(w) \in Blocks
    BY <1>2, <1>3, Count DEF FlushPage, Calls, WritePage, Evicting, Filling, WriterType, FrameType
<1>5. \/ wr' = wr /\ frames' = frames /\ disk' = disk
      \/ /\ table[On(w)] \in Frames
         /\ wr'[w].pc = "flushed" /\ wr'[w].frame = table[On(w)] /\ wr'[w].block = wr[w].block
         /\ wr'[w].new = wr[w].new /\ wr'[w].pins = wr[w].pins /\ wr'[w].wrote = wr[w].wrote
         /\ frames'[table[On(w)]] = [frames[table[On(w)]] EXCEPT !.page = Synced(table[On(w)])]
         /\ \A g \in Frames : g # table[On(w)] => frames'[g] = frames[g]
         /\ disk' = WritePage(table[On(w)])
    <2> DEFINE f == table[On(w)]
    <2>1. CASE f # NoBlock /\ frames[f].dirty
        <3>1. f \in Frames
            BY <1>2, <1>3, <2>1
        <3>2. /\ frames' = [frames EXCEPT ![f].page = Synced(f)] /\ disk' = WritePage(f)
              /\ wr' = [wr EXCEPT ![w].pc = "flushed", ![w].frame = f]
            BY <2>1 DEF FlushPage
        <3>3. wr'[w] = [wr[w] EXCEPT !.pc = "flushed", !.frame = f]
            BY <1>2, <3>2
        <3>4. /\ frames'[f] = [frames[f] EXCEPT !.page = Synced(f)]
              /\ \A g \in Frames : g # f => frames'[g] = frames[g]
            BY <1>2, <3>1, <3>2
        <3> QED BY <1>2, <3>1, <3>2, <3>3, <3>4 DEF WriterType
    <2>2. CASE ~(f # NoBlock /\ frames[f].dirty)
        BY <2>2 DEF FlushPage
    <2> QED BY <2>1, <2>2
<1>6. UNCHANGED <<table, free, clock, epoch, rd, use>>
    BY <1>2, <1>3, <1>4, Count DEF FlushPage, Calls, WritePage, Evicting, Filling, WriterType, FrameType
<1> QED BY <1>4, <1>5, <1>6

LEMMA FlushDoneEffect ==
    ASSUME PlaceInv, NEW w \in Writers, FlushDone(w)
    PROVE  /\ wr[w].pc = "flushed" /\ wr[w].frame \in Frames
           /\ wr'[w].pc = "idle" /\ wr'[w].block = NoBlock /\ wr'[w].new = FALSE
           /\ wr'[w].frame = NoFrame /\ wr'[w].pins = wr[w].pins /\ wr'[w].wrote = wr[w].wrote
           /\ \A g \in Frames : g # wr[w].frame => frames'[g] = frames[g]
           /\ frames'[wr[w].frame].block = frames[wr[w].frame].block /\ frames'[wr[w].frame].page = frames[wr[w].frame].page
           /\ frames'[wr[w].frame].len = frames[wr[w].frame].len /\ frames'[wr[w].frame].pin = frames[wr[w].frame].pin
           /\ frames'[wr[w].frame].dirty = FALSE /\ frames'[wr[w].frame].last = frames[wr[w].frame].last
           /\ UNCHANGED <<table, free, clock, epoch, disk, rd, use>>
<1>1. TypeInv /\ WriterPlace(w)
    BY DEF PlaceInv
<1>2. /\ wr \in [Writers -> WriterType] /\ wr[w] \in WriterType
      /\ frames \in [Frames -> FrameType] /\ \A f \in Frames : frames[f] \in FrameType
      /\ use \in [Blocks -> Use] /\ table \in [Blocks -> Frames \cup {NoBlock}]
      /\ disk \in [Blocks -> Page \cup {NoBlock}]
      /\ clock \in [hand : Int, ref : SUBSET Int, evictable : SUBSET Frames]
    BY <1>1 DEF TypeInv
<1>3. /\ wr[w].pc \notin {"idle", "flushed"} => wr[w].block \in Blocks
      /\ wr[w].pc \in Evicting \cup Filling \cup {"insert", "commit", "flushed"} => wr[w].frame \in Frames
      /\ wr[w].pc \in Evicting => frames[wr[w].frame].block \in Blocks
    BY <1>1 DEF WriterPlace
<1>4. wr[w].pc = "flushed" /\ wr[w].frame \in Frames
    BY <1>2, <1>3, Count DEF FlushDone, Back, Evicting, Filling, WriterType, FrameType
<1>5. wr'[w].pc = "idle" /\ wr'[w].block = NoBlock /\ wr'[w].new = FALSE
    BY <1>2, <1>3, <1>4, Count DEF FlushDone, Back, Evicting, Filling, WriterType, FrameType
<1>6. wr'[w].frame = NoFrame /\ wr'[w].pins = wr[w].pins /\ wr'[w].wrote = wr[w].wrote
    BY <1>2, <1>3, <1>4, Count DEF FlushDone, Back, Evicting, Filling, WriterType, FrameType
<1>7. \A g \in Frames : g # wr[w].frame => frames'[g] = frames[g]
    BY <1>2, <1>3, <1>4, Count DEF FlushDone, Back, Evicting, Filling, WriterType, FrameType
<1>8. frames'[wr[w].frame].block = frames[wr[w].frame].block /\ frames'[wr[w].frame].page = frames[wr[w].frame].page
    BY <1>2, <1>3, <1>4, Count DEF FlushDone, Back, Evicting, Filling, WriterType, FrameType
<1>9. frames'[wr[w].frame].len = frames[wr[w].frame].len /\ frames'[wr[w].frame].pin = frames[wr[w].frame].pin
    BY <1>2, <1>3, <1>4, Count DEF FlushDone, Back, Evicting, Filling, WriterType, FrameType
<1>10. frames'[wr[w].frame].dirty = FALSE /\ frames'[wr[w].frame].last = frames[wr[w].frame].last
    BY <1>2, <1>3, <1>4, Count DEF FlushDone, Back, Evicting, Filling, WriterType, FrameType
<1>11. UNCHANGED <<table, free, clock, epoch, disk, rd, use>>
    BY <1>2, <1>3, <1>4, Count DEF FlushDone, Back, Evicting, Filling, WriterType, FrameType
<1> QED BY <1>4, <1>5, <1>6, <1>7, <1>8, <1>9, <1>10, <1>11

LEMMA BuryEffect ==
    ASSUME PlaceInv, NEW w \in Writers, Bury(w)
    PROVE  /\ wr[w].pc = "idle" /\ On(w) \in Blocks
           /\ wr' = wr
           /\ use[On(w)].state = "live" /\ wr[w].pins[On(w)] = NoFrame /\ (table[On(w)] # NoBlock => ~frames[table[On(w)]].dirty)
           /\ use'[On(w)] = [use[On(w)] EXCEPT !.state = "dead"] /\ \A c \in Blocks : c # On(w) => use'[c] = use[c]
           /\ UNCHANGED <<frames, table, free, clock, epoch, disk, rd>>
<1>1. TypeInv /\ WriterPlace(w)
    BY DEF PlaceInv
<1>2. /\ wr \in [Writers -> WriterType] /\ wr[w] \in WriterType
      /\ frames \in [Frames -> FrameType] /\ \A f \in Frames : frames[f] \in FrameType
      /\ use \in [Blocks -> Use] /\ table \in [Blocks -> Frames \cup {NoBlock}]
      /\ disk \in [Blocks -> Page \cup {NoBlock}]
      /\ clock \in [hand : Int, ref : SUBSET Int, evictable : SUBSET Frames]
    BY <1>1 DEF TypeInv
<1>3. On(w) \in Blocks
    BY <1>1, CallType DEF Bury
<1>4. wr[w].pc = "idle" /\ On(w) \in Blocks
    BY <1>2, <1>3, Count DEF Bury, Calls, Evicting, Filling, WriterType, FrameType
<1>5. wr' = wr
    BY <1>2, <1>3, <1>4, Count DEF Bury, Calls, Evicting, Filling, WriterType, FrameType
<1>6. use[On(w)].state = "live" /\ wr[w].pins[On(w)] = NoFrame /\ (table[On(w)] # NoBlock => ~frames[table[On(w)]].dirty)
    BY <1>2, <1>3, <1>4, Count DEF Bury, Calls, Evicting, Filling, WriterType, FrameType
<1>7. use'[On(w)] = [use[On(w)] EXCEPT !.state = "dead"] /\ \A c \in Blocks : c # On(w) => use'[c] = use[c]
    BY <1>2, <1>3, <1>4, Count DEF Bury, Calls, Evicting, Filling, WriterType, FrameType
<1>8. UNCHANGED <<frames, table, free, clock, epoch, disk, rd>>
    BY <1>2, <1>3, <1>4, Count DEF Bury, Calls, Evicting, Filling, WriterType, FrameType
<1> QED BY <1>4, <1>5, <1>6, <1>7, <1>8

LEMMA ForceCheckEffect ==
    ASSUME PlaceInv, NEW w \in Writers, ForceCheck(w)
    PROVE  /\ wr[w].pc = "idle" /\ On(w) \in Blocks
           /\ \/ wr' = wr
              \/ /\ table[On(w)] \in Frames /\ MayEvict(table[On(w)]) /\ use[On(w)].state = "dead"
                 /\ wr'[w].pc = "force" /\ wr'[w].block = On(w) /\ wr'[w].frame = table[On(w)]
                 /\ wr'[w].new = wr[w].new /\ wr'[w].pins = wr[w].pins /\ wr'[w].wrote = wr[w].wrote
           /\ UNCHANGED <<frames, table, free, clock, epoch, disk, rd, use>>
<1>1. TypeInv /\ WriterPlace(w)
    BY DEF PlaceInv
<1>2. /\ wr \in [Writers -> WriterType] /\ wr[w] \in WriterType
      /\ frames \in [Frames -> FrameType] /\ \A f \in Frames : frames[f] \in FrameType
      /\ use \in [Blocks -> Use] /\ table \in [Blocks -> Frames \cup {NoBlock}]
      /\ disk \in [Blocks -> Page \cup {NoBlock}]
      /\ clock \in [hand : Int, ref : SUBSET Int, evictable : SUBSET Frames]
    BY <1>1 DEF TypeInv
<1>3. On(w) \in Blocks
    BY <1>1, CallType DEF ForceCheck
<1>4. wr[w].pc = "idle" /\ On(w) \in Blocks
    BY <1>2, <1>3, Count DEF ForceCheck, Calls, Evicting, Filling, WriterType, FrameType
<1>5. \/ wr' = wr
      \/ /\ table[On(w)] \in Frames /\ MayEvict(table[On(w)]) /\ use[On(w)].state = "dead"
         /\ wr'[w].pc = "force" /\ wr'[w].block = On(w) /\ wr'[w].frame = table[On(w)]
         /\ wr'[w].new = wr[w].new /\ wr'[w].pins = wr[w].pins /\ wr'[w].wrote = wr[w].wrote
    BY <1>2, <1>3, <1>4, Count DEF ForceCheck, Calls, Evicting, Filling, WriterType, FrameType
<1>6. UNCHANGED <<frames, table, free, clock, epoch, disk, rd, use>>
    BY <1>2, <1>3, <1>4, Count DEF ForceCheck, Calls, Evicting, Filling, WriterType, FrameType
<1> QED BY <1>4, <1>5, <1>6

LEMMA ForceRemoveEffect ==
    ASSUME PlaceInv, NEW w \in Writers, ForceRemove(w)
    PROVE  /\ wr[w].pc = "force" /\ wr[w].block \in Blocks /\ HoldsShard(wr[w].block) = {}
           /\ wr'[w].pc = "release" /\ wr'[w].block = wr[w].block /\ wr'[w].new = wr[w].new
           /\ wr'[w].frame = wr[w].frame /\ wr'[w].pins = wr[w].pins /\ wr'[w].wrote = wr[w].wrote
           /\ table'[wr[w].block] = NoBlock /\ \A c \in Blocks : c # wr[w].block => table'[c] = table[c]
           /\ UNCHANGED <<frames, free, clock, epoch, disk, rd, use>>
<1>1. TypeInv /\ WriterPlace(w)
    BY DEF PlaceInv
<1>2. /\ wr \in [Writers -> WriterType] /\ wr[w] \in WriterType
      /\ frames \in [Frames -> FrameType] /\ \A f \in Frames : frames[f] \in FrameType
      /\ use \in [Blocks -> Use] /\ table \in [Blocks -> Frames \cup {NoBlock}]
      /\ disk \in [Blocks -> Page \cup {NoBlock}]
      /\ clock \in [hand : Int, ref : SUBSET Int, evictable : SUBSET Frames]
    BY <1>1 DEF TypeInv
<1>3. /\ wr[w].pc \notin {"idle", "flushed"} => wr[w].block \in Blocks
      /\ wr[w].pc \in Evicting \cup Filling \cup {"insert", "commit", "flushed"} => wr[w].frame \in Frames
      /\ wr[w].pc \in Evicting => frames[wr[w].frame].block \in Blocks
    BY <1>1 DEF WriterPlace
<1>4. wr[w].pc = "force" /\ wr[w].block \in Blocks /\ HoldsShard(wr[w].block) = {}
    BY <1>2, <1>3, Count DEF ForceRemove, Goto, Evicting, Filling, WriterType, FrameType
<1>5. wr'[w].pc = "release" /\ wr'[w].block = wr[w].block /\ wr'[w].new = wr[w].new
    BY <1>2, <1>3, <1>4, Count DEF ForceRemove, Goto, Evicting, Filling, WriterType, FrameType
<1>6. wr'[w].frame = wr[w].frame /\ wr'[w].pins = wr[w].pins /\ wr'[w].wrote = wr[w].wrote
    BY <1>2, <1>3, <1>4, Count DEF ForceRemove, Goto, Evicting, Filling, WriterType, FrameType
<1>7. table'[wr[w].block] = NoBlock /\ \A c \in Blocks : c # wr[w].block => table'[c] = table[c]
    BY <1>2, <1>3, <1>4, Count DEF ForceRemove, Goto, Evicting, Filling, WriterType, FrameType
<1>8. UNCHANGED <<frames, free, clock, epoch, disk, rd, use>>
    BY <1>2, <1>3, <1>4, Count DEF ForceRemove, Goto, Evicting, Filling, WriterType, FrameType
<1> QED BY <1>4, <1>5, <1>6, <1>7, <1>8

LEMMA ForceFreeEffect ==
    ASSUME PlaceInv, NEW w \in Writers, ForceFree(w)
    PROVE  /\ wr[w].pc = "release" /\ wr[w].frame \in Frames
           /\ free' = Append(free, wr[w].frame) /\ clock'.evictable = clock.evictable \ {wr[w].frame}
           /\ wr'[w].pc = "idle" /\ wr'[w].block = NoBlock /\ wr'[w].new = FALSE
           /\ wr'[w].frame = NoFrame /\ wr'[w].pins = wr[w].pins /\ wr'[w].wrote = wr[w].wrote
           /\ \A g \in Frames : g # wr[w].frame => frames'[g] = frames[g]
           /\ frames'[wr[w].frame].block = NoBlock /\ frames'[wr[w].frame].page = frames[wr[w].frame].page
           /\ frames'[wr[w].frame].len = frames[wr[w].frame].len /\ frames'[wr[w].frame].pin = frames[wr[w].frame].pin
           /\ frames'[wr[w].frame].dirty = FALSE /\ frames'[wr[w].frame].last = frames[wr[w].frame].last
           /\ UNCHANGED <<table, epoch, disk, rd, use>>
<1>1. TypeInv /\ WriterPlace(w)
    BY DEF PlaceInv
<1>2. /\ wr \in [Writers -> WriterType] /\ wr[w] \in WriterType
      /\ frames \in [Frames -> FrameType] /\ \A f \in Frames : frames[f] \in FrameType
      /\ use \in [Blocks -> Use] /\ table \in [Blocks -> Frames \cup {NoBlock}]
      /\ disk \in [Blocks -> Page \cup {NoBlock}]
      /\ clock \in [hand : Int, ref : SUBSET Int, evictable : SUBSET Frames]
    BY <1>1 DEF TypeInv
<1>3. /\ wr[w].pc \notin {"idle", "flushed"} => wr[w].block \in Blocks
      /\ wr[w].pc \in Evicting \cup Filling \cup {"insert", "commit", "flushed"} => wr[w].frame \in Frames
      /\ wr[w].pc \in Evicting => frames[wr[w].frame].block \in Blocks
    BY <1>1 DEF WriterPlace
<1>4. wr[w].pc = "release" /\ wr[w].frame \in Frames
    BY <1>2, <1>3, Count DEF ForceFree, Back, SetEvictable, Evicting, Filling, WriterType, FrameType
<1>5. free' = Append(free, wr[w].frame) /\ clock'.evictable = clock.evictable \ {wr[w].frame}
    BY <1>2, <1>3, <1>4, Count DEF ForceFree, Back, SetEvictable, Evicting, Filling, WriterType, FrameType
<1>6. wr'[w].pc = "idle" /\ wr'[w].block = NoBlock /\ wr'[w].new = FALSE
    BY <1>2, <1>3, <1>4, Count DEF ForceFree, Back, SetEvictable, Evicting, Filling, WriterType, FrameType
<1>7. wr'[w].frame = NoFrame /\ wr'[w].pins = wr[w].pins /\ wr'[w].wrote = wr[w].wrote
    BY <1>2, <1>3, <1>4, Count DEF ForceFree, Back, SetEvictable, Evicting, Filling, WriterType, FrameType
<1>8. \A g \in Frames : g # wr[w].frame => frames'[g] = frames[g]
    BY <1>2, <1>3, <1>4, Count DEF ForceFree, Back, SetEvictable, Evicting, Filling, WriterType, FrameType
<1>9. frames'[wr[w].frame].block = NoBlock /\ frames'[wr[w].frame].page = frames[wr[w].frame].page
    BY <1>2, <1>3, <1>4, Count DEF ForceFree, Back, SetEvictable, Evicting, Filling, WriterType, FrameType
<1>10. frames'[wr[w].frame].len = frames[wr[w].frame].len /\ frames'[wr[w].frame].pin = frames[wr[w].frame].pin
    BY <1>2, <1>3, <1>4, Count DEF ForceFree, Back, SetEvictable, Evicting, Filling, WriterType, FrameType
<1>11. frames'[wr[w].frame].dirty = FALSE /\ frames'[wr[w].frame].last = frames[wr[w].frame].last
    BY <1>2, <1>3, <1>4, Count DEF ForceFree, Back, SetEvictable, Evicting, Filling, WriterType, FrameType
<1>12. UNCHANGED <<table, epoch, disk, rd, use>>
    BY <1>2, <1>3, <1>4, Count DEF ForceFree, Back, SetEvictable, Evicting, Filling, WriterType, FrameType
<1> QED BY <1>4, <1>5, <1>6, <1>7, <1>8, <1>9, <1>10, <1>11, <1>12

-----------------------------------------------------------------------------
(* The places of frames: every step of a writer keeps PlaceInv.             *)

LEMMA PlaceFacts ==
    ASSUME PlaceInv, NEW w \in Writers
    PROVE  /\ \A b \in Blocks : table[b] \in Frames \cup {NoBlock} /\ wr[w].pins[b] \in Frames \cup {NoFrame}
           /\ \A f \in Frames : frames[f].block \in Blocks \cup {NoBlock} /\ frames[f].pin \in Int
           /\ wr[w].pins \in [Blocks -> Frames \cup {NoFrame}] /\ wr[w].wrote \in SUBSET Blocks
           /\ clock.evictable \in SUBSET Frames /\ free \in Seq(Frames)
           /\ NoFrame \notin Frames /\ NoBlock \notin Frames /\ NoBlock \notin Blocks
<1>1. TypeInv
    BY DEF PlaceInv
<1>2. wr[w] \in WriterType /\ \A f \in Frames : frames[f] \in FrameType
    BY <1>1 DEF TypeInv
<1>3. table \in [Blocks -> Frames \cup {NoBlock}] /\ clock.evictable \in SUBSET Frames /\ free \in Seq(Frames)
    BY <1>1 DEF TypeInv
<1>4. wr[w].pins \in [Blocks -> Frames \cup {NoFrame}] /\ wr[w].wrote \in SUBSET Blocks
    BY <1>2 DEF WriterType
<1>5. \A f \in Frames : frames[f].block \in Blocks \cup {NoBlock} /\ frames[f].pin \in Int
    BY <1>2 DEF FrameType
<1> QED BY <1>3, <1>4, <1>5, Count, BufferAssumption

LEMMA PlaceSuffices ==
    ASSUME SingleWriter, TypeInv', NEW w \in Writers, \A b \in Blocks : Mapped(b)',
           \A f \in Frames : Evictable(f)' /\ Resident(f)' /\ Counts(f)', Free', Pinned(w)', WriterPlace(w)'
    PROVE  PlaceInv'
BY DEF SingleWriter, PlaceInv

LEMMA FetchPagePlace ==
    ASSUME SingleWriter, PlaceInv, NEW w \in Writers, FetchPage(w), TypeInv'
    PROVE  PlaceInv'
<1>1. (\A b \in Blocks : Mapped(b)) /\ Free /\ Pinned(w) /\ WriterPlace(w)
    BY DEF PlaceInv
<1>2. \A f \in Frames : Evictable(f) /\ Resident(f) /\ Counts(f)
    BY DEF PlaceInv
<1>e. /\ wr[w].pc = "idle" /\ On(w) \in Blocks
      /\ wr'[w].pc = "get" /\ wr'[w].block = On(w) /\ wr'[w].new = FALSE
      /\ wr'[w].frame = wr[w].frame /\ wr'[w].pins = wr[w].pins /\ wr'[w].wrote = wr[w].wrote
      /\ table' = table /\ free' = free
      /\ clock'.evictable = clock.evictable
      /\ \A g \in Frames : frames'[g].block = frames[g].block /\ frames'[g].pin = frames[g].pin
    BY FetchPageEffect
<1>3. \A b \in Blocks : Mapped(b)'
    BY <1>1, <1>e, PlaceFacts DEF Mapped, WriterPlace, Searching, Evicting, Filling, Pinned
<1>4. \A f \in Frames : Evictable(f)' /\ Resident(f)' /\ Counts(f)'
    BY <1>1, <1>2, <1>e, PlaceFacts DEF Evictable, Resident, Counts, WriterPlace, Evicting, Searching, SingleWriter, Mapped
<1>5. Free'
    BY <1>1, <1>e, PlaceFacts DEF Free, WriterPlace, Evicting, Filling
<1>6. Pinned(w)'
    BY <1>1, <1>2, <1>e, PlaceFacts DEF Pinned, Counts, WriterPlace, Mapped, Evicting, Filling, Searching
<1>7. WriterPlace(w)'
    BY <1>1, <1>2, <1>e, PlaceFacts DEF WriterPlace, Evicting, Filling, Searching, Mapped, Pinned, Evictable, Resident, SingleWriter, Free
<1> QED BY <1>3, <1>4, <1>5, <1>6, <1>7, PlaceSuffices

LEMMA AllocNewPagePlace ==
    ASSUME SingleWriter, PlaceInv, NEW w \in Writers, AllocNewPage(w), TypeInv'
    PROVE  PlaceInv'
<1>1. (\A b \in Blocks : Mapped(b)) /\ Free /\ Pinned(w) /\ WriterPlace(w)
    BY DEF PlaceInv
<1>2. \A f \in Frames : Evictable(f) /\ Resident(f) /\ Counts(f)
    BY DEF PlaceInv
<1>e. /\ wr[w].pc = "idle" /\ On(w) \in Blocks
      /\ wr'[w].pc = "entry" /\ wr'[w].block = On(w) /\ wr'[w].new = TRUE
      /\ wr'[w].frame = wr[w].frame /\ wr'[w].pins = wr[w].pins /\ wr'[w].wrote = wr[w].wrote
      /\ table' = table /\ free' = free
      /\ clock'.evictable = clock.evictable
      /\ \A g \in Frames : frames'[g].block = frames[g].block /\ frames'[g].pin = frames[g].pin
    BY AllocNewPageEffect
<1>3. \A b \in Blocks : Mapped(b)'
    BY <1>1, <1>e, PlaceFacts DEF Mapped, WriterPlace, Searching, Evicting, Filling, Pinned
<1>4. \A f \in Frames : Evictable(f)' /\ Resident(f)' /\ Counts(f)'
    BY <1>1, <1>2, <1>e, PlaceFacts DEF Evictable, Resident, Counts, WriterPlace, Evicting, Searching, SingleWriter, Mapped
<1>5. Free'
    BY <1>1, <1>e, PlaceFacts DEF Free, WriterPlace, Evicting, Filling
<1>6. Pinned(w)'
    BY <1>1, <1>2, <1>e, PlaceFacts DEF Pinned, Counts, WriterPlace, Mapped, Evicting, Filling, Searching
<1>7. WriterPlace(w)'
    BY <1>1, <1>2, <1>e, PlaceFacts DEF WriterPlace, Evicting, Filling, Searching, Mapped, Pinned, Evictable, Resident, SingleWriter, Free
<1> QED BY <1>3, <1>4, <1>5, <1>6, <1>7, PlaceSuffices

LEMMA HitPlace ==
    ASSUME SingleWriter, PlaceInv, NEW w \in Writers, Hit(w), TypeInv'
    PROVE  PlaceInv'
<1>1. (\A b \in Blocks : Mapped(b)) /\ Free /\ Pinned(w) /\ WriterPlace(w)
    BY DEF PlaceInv
<1>2. \A f \in Frames : Evictable(f) /\ Resident(f) /\ Counts(f)
    BY DEF PlaceInv
<1>e. /\ wr[w].pc \in {"get", "entry"} /\ ~wr[w].new /\ wr[w].block \in Blocks /\ table[wr[w].block] \in Frames
      /\ wr'[w].pc = "idle" /\ wr'[w].block = NoBlock /\ wr'[w].new = FALSE
      /\ wr'[w].frame = NoFrame /\ wr'[w].pins = [wr[w].pins EXCEPT ![wr[w].block] = table[wr[w].block]] /\ wr'[w].wrote = wr[w].wrote
      /\ \A g \in Frames : g # table[wr[w].block] => frames'[g].block = frames[g].block /\ frames'[g].pin = frames[g].pin
      /\ frames'[table[wr[w].block]].block = frames[table[wr[w].block]].block
      /\ frames'[table[wr[w].block]].pin = frames[table[wr[w].block]].pin + 1
      /\ clock'.evictable = clock.evictable \ {table[wr[w].block]}
      /\ table' = table /\ free' = free
    BY HitEffect
<1>3. \A b \in Blocks : Mapped(b)'
    BY <1>1, <1>e, PlaceFacts DEF Mapped, WriterPlace, Searching, Evicting, Filling, Pinned
<1>4. \A f \in Frames : Evictable(f)' /\ Resident(f)' /\ Counts(f)'
    BY <1>1, <1>2, <1>e, PlaceFacts DEF Evictable, Resident, Counts, WriterPlace, Evicting, Searching, SingleWriter, Mapped
<1>5. Free'
    BY <1>1, <1>e, PlaceFacts DEF Free, WriterPlace, Evicting, Filling
<1>6. Pinned(w)'
    <2> SUFFICES ASSUME NEW c \in Blocks, wr'[w].pins[c] # NoFrame
                 PROVE  table'[c] = wr'[w].pins[c] /\ frames'[table'[c]].pin > 0
        BY DEF Pinned
    <2>1. CASE c = wr[w].block
        <3>1. wr'[w].pins[c] = table[c] /\ frames[table[c]].pin >= 0 /\ frames[table[c]].pin \in Int
            BY <1>2, <1>e, <2>1, PlaceFacts DEF Counts
        <3> QED BY <1>e, <2>1, <3>1
    <2>2. CASE c # wr[w].block
        <3>1. wr'[w].pins[c] = wr[w].pins[c]
            BY <1>e, <2>2, PlaceFacts
        <3>2. table[c] = wr[w].pins[c] /\ frames[table[c]].pin > 0 /\ table[c] \in Frames
            BY <1>1, <3>1, PlaceFacts DEF Pinned
        <3>3. table[c] # table[wr[w].block]
            BY <1>1, <1>e, <2>2, <3>2 DEF Mapped
        <3> QED BY <1>e, <3>1, <3>2, <3>3
    <2> QED BY <2>1, <2>2
<1>7. WriterPlace(w)'
    BY <1>1, <1>2, <1>e, PlaceFacts DEF WriterPlace, Evicting, Filling, Searching, Mapped, Pinned, Evictable, Resident, SingleWriter, Free
<1> QED BY <1>3, <1>4, <1>5, <1>6, <1>7, PlaceSuffices

LEMMA MissPlace ==
    ASSUME SingleWriter, PlaceInv, NEW w \in Writers, Miss(w), TypeInv'
    PROVE  PlaceInv'
<1>1. (\A b \in Blocks : Mapped(b)) /\ Free /\ Pinned(w) /\ WriterPlace(w)
    BY DEF PlaceInv
<1>2. \A f \in Frames : Evictable(f) /\ Resident(f) /\ Counts(f)
    BY DEF PlaceInv
<1>e. /\ wr[w].pc = "get" /\ wr[w].block \in Blocks
      /\ wr'[w].pc = "entry" /\ wr'[w].block = wr[w].block /\ wr'[w].new = wr[w].new
      /\ wr'[w].frame = wr[w].frame /\ wr'[w].pins = wr[w].pins /\ wr'[w].wrote = wr[w].wrote
      /\ table' = table /\ free' = free
      /\ clock'.evictable = clock.evictable
      /\ \A g \in Frames : frames'[g].block = frames[g].block /\ frames'[g].pin = frames[g].pin
    BY MissEffect
<1>3. \A b \in Blocks : Mapped(b)'
    BY <1>1, <1>e, PlaceFacts DEF Mapped, WriterPlace, Searching, Evicting, Filling, Pinned
<1>4. \A f \in Frames : Evictable(f)' /\ Resident(f)' /\ Counts(f)'
    BY <1>1, <1>2, <1>e, PlaceFacts DEF Evictable, Resident, Counts, WriterPlace, Evicting, Searching, SingleWriter, Mapped
<1>5. Free'
    BY <1>1, <1>e, PlaceFacts DEF Free, WriterPlace, Evicting, Filling
<1>6. Pinned(w)'
    BY <1>1, <1>2, <1>e, PlaceFacts DEF Pinned, Counts, WriterPlace, Mapped, Evicting, Filling, Searching
<1>7. WriterPlace(w)'
    BY <1>1, <1>2, <1>e, PlaceFacts DEF WriterPlace, Evicting, Filling, Searching, Mapped, Pinned, Evictable, Resident, SingleWriter, Free
<1> QED BY <1>3, <1>4, <1>5, <1>6, <1>7, PlaceSuffices

LEMMA ReinitPlace ==
    ASSUME SingleWriter, PlaceInv, NEW w \in Writers, Reinit(w), TypeInv'
    PROVE  PlaceInv'
<1>1. (\A b \in Blocks : Mapped(b)) /\ Free /\ Pinned(w) /\ WriterPlace(w)
    BY DEF PlaceInv
<1>2. \A f \in Frames : Evictable(f) /\ Resident(f) /\ Counts(f)
    BY DEF PlaceInv
<1>e. /\ wr[w].pc = "entry" /\ wr[w].new /\ wr[w].block \in Blocks /\ table[wr[w].block] \in Frames
      /\ wr'[w].pc = "idle" /\ wr'[w].block = NoBlock /\ wr'[w].new = FALSE
      /\ wr'[w].frame = NoFrame /\ wr'[w].pins = [wr[w].pins EXCEPT ![wr[w].block] = table[wr[w].block]] /\ wr'[w].wrote = wr[w].wrote \cup {wr[w].block}
      /\ \A g \in Frames : g # table[wr[w].block] => frames'[g].block = frames[g].block /\ frames'[g].pin = frames[g].pin
      /\ frames'[table[wr[w].block]].block = frames[table[wr[w].block]].block
      /\ frames'[table[wr[w].block]].pin = frames[table[wr[w].block]].pin + 1
      /\ table' = table /\ free' = free
      /\ clock'.evictable = clock.evictable
    BY ReinitEffect
<1>3. \A b \in Blocks : Mapped(b)'
    BY <1>1, <1>e, PlaceFacts DEF Mapped, WriterPlace, Searching, Evicting, Filling, Pinned
<1>4. \A f \in Frames : Evictable(f)' /\ Resident(f)' /\ Counts(f)'
    BY <1>1, <1>2, <1>e, PlaceFacts DEF Evictable, Resident, Counts, WriterPlace, Evicting, Searching, SingleWriter, Mapped
<1>5. Free'
    BY <1>1, <1>e, PlaceFacts DEF Free, WriterPlace, Evicting, Filling
<1>6. Pinned(w)'
    BY <1>1, <1>2, <1>e, PlaceFacts DEF Pinned, Counts, WriterPlace, Mapped, Evicting, Filling, Searching
<1>7. WriterPlace(w)'
    BY <1>1, <1>2, <1>e, PlaceFacts DEF WriterPlace, Evicting, Filling, Searching, Mapped, Pinned, Evictable, Resident, SingleWriter, Free
<1> QED BY <1>3, <1>4, <1>5, <1>6, <1>7, PlaceSuffices

LEMMA VacantPlace ==
    ASSUME SingleWriter, PlaceInv, NEW w \in Writers, Vacant(w), TypeInv'
    PROVE  PlaceInv'
<1>1. (\A b \in Blocks : Mapped(b)) /\ Free /\ Pinned(w) /\ WriterPlace(w)
    BY DEF PlaceInv
<1>2. \A f \in Frames : Evictable(f) /\ Resident(f) /\ Counts(f)
    BY DEF PlaceInv
<1>e. /\ wr[w].pc = "entry" /\ wr[w].block \in Blocks /\ table[wr[w].block] = NoBlock
      /\ wr'[w].pc = "alloc" /\ wr'[w].block = wr[w].block /\ wr'[w].new = wr[w].new
      /\ wr'[w].frame = wr[w].frame /\ wr'[w].pins = wr[w].pins /\ wr'[w].wrote = wr[w].wrote
      /\ table' = table /\ free' = free
      /\ clock'.evictable = clock.evictable
      /\ \A g \in Frames : frames'[g].block = frames[g].block /\ frames'[g].pin = frames[g].pin
    BY VacantEffect
<1>3. \A b \in Blocks : Mapped(b)'
    BY <1>1, <1>e, PlaceFacts DEF Mapped, WriterPlace, Searching, Evicting, Filling, Pinned
<1>4. \A f \in Frames : Evictable(f)' /\ Resident(f)' /\ Counts(f)'
    BY <1>1, <1>2, <1>e, PlaceFacts DEF Evictable, Resident, Counts, WriterPlace, Evicting, Searching, SingleWriter, Mapped
<1>5. Free'
    BY <1>1, <1>e, PlaceFacts DEF Free, WriterPlace, Evicting, Filling
<1>6. Pinned(w)'
    BY <1>1, <1>2, <1>e, PlaceFacts DEF Pinned, Counts, WriterPlace, Mapped, Evicting, Filling, Searching
<1>7. WriterPlace(w)'
    BY <1>1, <1>2, <1>e, PlaceFacts DEF WriterPlace, Evicting, Filling, Searching, Mapped, Pinned, Evictable, Resident, SingleWriter, Free
<1> QED BY <1>3, <1>4, <1>5, <1>6, <1>7, PlaceSuffices

LEMMA TakeFreePlace ==
    ASSUME SingleWriter, PlaceInv, NEW w \in Writers, TakeFree(w), TypeInv'
    PROVE  PlaceInv'
<1>1. (\A b \in Blocks : Mapped(b)) /\ Free /\ Pinned(w) /\ WriterPlace(w)
    BY DEF PlaceInv
<1>2. \A f \in Frames : Evictable(f) /\ Resident(f) /\ Counts(f)
    BY DEF PlaceInv
<1>e. /\ wr[w].pc = "alloc" /\ wr[w].block \in Blocks /\ free # <<>>
      /\ free' = Tail(free) /\ Head(free) \in Frames
      /\ wr'[w].pc = "load" /\ wr'[w].block = wr[w].block /\ wr'[w].new = wr[w].new
      /\ wr'[w].frame = Head(free) /\ wr'[w].pins = wr[w].pins /\ wr'[w].wrote = wr[w].wrote
      /\ table' = table
      /\ clock'.evictable = clock.evictable
      /\ \A g \in Frames : frames'[g].block = frames[g].block /\ frames'[g].pin = frames[g].pin
    BY TakeFreeEffect
<1>3. \A b \in Blocks : Mapped(b)'
    BY <1>1, <1>e, PlaceFacts DEF Mapped, WriterPlace, Searching, Evicting, Filling, Pinned
<1>4. \A f \in Frames : Evictable(f)' /\ Resident(f)' /\ Counts(f)'
    BY <1>1, <1>2, <1>e, PlaceFacts DEF Evictable, Resident, Counts, WriterPlace, Evicting, Searching, SingleWriter, Mapped
<1>5. Free'
    BY <1>1, <1>e, PlaceFacts DEF Free, WriterPlace, Evicting, Filling
<1>6. Pinned(w)'
    BY <1>1, <1>2, <1>e, PlaceFacts DEF Pinned, Counts, WriterPlace, Mapped, Evicting, Filling, Searching
<1>7. WriterPlace(w)'
    BY <1>1, <1>2, <1>e, PlaceFacts DEF WriterPlace, Evicting, Filling, Searching, Mapped, Pinned, Evictable, Resident, SingleWriter, Free
<1> QED BY <1>3, <1>4, <1>5, <1>6, <1>7, PlaceSuffices

LEMMA CandidatePlace ==
    ASSUME SingleWriter, PlaceInv, NEW w \in Writers, Candidate(w), TypeInv'
    PROVE  PlaceInv'
<1>1. (\A b \in Blocks : Mapped(b)) /\ Free /\ Pinned(w) /\ WriterPlace(w)
    BY DEF PlaceInv
<1>2. \A f \in Frames : Evictable(f) /\ Resident(f) /\ Counts(f)
    BY DEF PlaceInv
<1>e. /\ wr[w].pc = "alloc" /\ wr[w].block \in Blocks
      /\ clock'.evictable = clock.evictable
      /\ \/ /\ wr'[w].pc = "flush" /\ wr'[w].frame \in clock.evictable /\ frames[wr'[w].frame].pin = 0
         \/ wr'[w].pc \in {"alloc", "none"} /\ wr'[w].frame = wr[w].frame
      /\ wr'[w].block = wr[w].block /\ wr'[w].new = wr[w].new /\ wr'[w].pins = wr[w].pins /\ wr'[w].wrote = wr[w].wrote
      /\ table' = table /\ free' = free
      /\ \A g \in Frames : frames'[g].block = frames[g].block /\ frames'[g].pin = frames[g].pin
    BY CandidateEffect DEF MayEvict
<1>3. \A b \in Blocks : Mapped(b)'
    BY <1>1, <1>e, PlaceFacts DEF Mapped, WriterPlace, Searching, Evicting, Filling, Pinned
<1>4. \A f \in Frames : Evictable(f)' /\ Resident(f)' /\ Counts(f)'
    BY <1>1, <1>2, <1>e, PlaceFacts DEF Evictable, Resident, Counts, WriterPlace, Evicting, Searching, SingleWriter, Mapped
<1>5. Free'
    BY <1>1, <1>e, PlaceFacts DEF Free, WriterPlace, Evicting, Filling
<1>6. Pinned(w)'
    BY <1>1, <1>2, <1>e, PlaceFacts DEF Pinned, Counts, WriterPlace, Mapped, Evicting, Filling, Searching
<1>7. WriterPlace(w)'
    BY <1>1, <1>2, <1>e, PlaceFacts DEF WriterPlace, Evicting, Filling, Searching, Mapped, Pinned, Evictable, Resident, SingleWriter, Free
<1> QED BY <1>3, <1>4, <1>5, <1>6, <1>7, PlaceSuffices

LEMMA GiveUpPlace ==
    ASSUME SingleWriter, PlaceInv, NEW w \in Writers, GiveUp(w), TypeInv'
    PROVE  PlaceInv'
<1>1. (\A b \in Blocks : Mapped(b)) /\ Free /\ Pinned(w) /\ WriterPlace(w)
    BY DEF PlaceInv
<1>2. \A f \in Frames : Evictable(f) /\ Resident(f) /\ Counts(f)
    BY DEF PlaceInv
<1>e. /\ wr[w].pc = "none" /\ wr[w].block \in Blocks
      /\ wr'[w].pc = "idle" /\ wr'[w].block = NoBlock /\ wr'[w].new = FALSE
      /\ wr'[w].frame = NoFrame /\ wr'[w].pins = wr[w].pins /\ wr'[w].wrote = wr[w].wrote
      /\ table' = table /\ free' = free
      /\ clock'.evictable = clock.evictable
      /\ \A g \in Frames : frames'[g].block = frames[g].block /\ frames'[g].pin = frames[g].pin
    BY GiveUpEffect
<1>3. \A b \in Blocks : Mapped(b)'
    BY <1>1, <1>e, PlaceFacts DEF Mapped, WriterPlace, Searching, Evicting, Filling, Pinned
<1>4. \A f \in Frames : Evictable(f)' /\ Resident(f)' /\ Counts(f)'
    BY <1>1, <1>2, <1>e, PlaceFacts DEF Evictable, Resident, Counts, WriterPlace, Evicting, Searching, SingleWriter, Mapped
<1>5. Free'
    BY <1>1, <1>e, PlaceFacts DEF Free, WriterPlace, Evicting, Filling
<1>6. Pinned(w)'
    BY <1>1, <1>2, <1>e, PlaceFacts DEF Pinned, Counts, WriterPlace, Mapped, Evicting, Filling, Searching
<1>7. WriterPlace(w)'
    BY <1>1, <1>2, <1>e, PlaceFacts DEF WriterPlace, Evicting, Filling, Searching, Mapped, Pinned, Evictable, Resident, SingleWriter, Free
<1> QED BY <1>3, <1>4, <1>5, <1>6, <1>7, PlaceSuffices

LEMMA FlushVictimPlace ==
    ASSUME SingleWriter, PlaceInv, NEW w \in Writers, FlushVictim(w), TypeInv'
    PROVE  PlaceInv'
<1>1. (\A b \in Blocks : Mapped(b)) /\ Free /\ Pinned(w) /\ WriterPlace(w)
    BY DEF PlaceInv
<1>2. \A f \in Frames : Evictable(f) /\ Resident(f) /\ Counts(f)
    BY DEF PlaceInv
<1>e. /\ wr[w].pc = "flush" /\ wr[w].frame \in Frames /\ frames[wr[w].frame].block \in Blocks
      /\ wr'[w].pc = "remove" /\ wr'[w].block = wr[w].block /\ wr'[w].new = wr[w].new
      /\ wr'[w].victim = frames[wr[w].frame].block
      /\ wr'[w].frame = wr[w].frame /\ wr'[w].pins = wr[w].pins /\ wr'[w].wrote = wr[w].wrote
      /\ \A g \in Frames : g # wr[w].frame => frames'[g].block = frames[g].block /\ frames'[g].pin = frames[g].pin
      /\ frames'[wr[w].frame].block = frames[wr[w].frame].block
      /\ frames'[wr[w].frame].pin = frames[wr[w].frame].pin
      /\ table' = table /\ free' = free
      /\ clock'.evictable = clock.evictable
    BY FlushVictimEffect
<1>3. \A b \in Blocks : Mapped(b)'
    BY <1>1, <1>e, PlaceFacts DEF Mapped, WriterPlace, Searching, Evicting, Filling, Pinned
<1>4. \A f \in Frames : Evictable(f)' /\ Resident(f)' /\ Counts(f)'
    BY <1>1, <1>2, <1>e, PlaceFacts DEF Evictable, Resident, Counts, WriterPlace, Evicting, Searching, SingleWriter, Mapped
<1>5. Free'
    BY <1>1, <1>e, PlaceFacts DEF Free, WriterPlace, Evicting, Filling
<1>6. Pinned(w)'
    BY <1>1, <1>2, <1>e, PlaceFacts DEF Pinned, Counts, WriterPlace, Mapped, Evicting, Filling, Searching
<1>7. WriterPlace(w)'
    BY <1>1, <1>2, <1>e, PlaceFacts DEF WriterPlace, Evicting, Filling, Searching, Mapped, Pinned, Evictable, Resident, SingleWriter, Free
<1> QED BY <1>3, <1>4, <1>5, <1>6, <1>7, PlaceSuffices

LEMMA RemoveVictimPlace ==
    ASSUME SingleWriter, PlaceInv, NEW w \in Writers, RemoveVictim(w), TypeInv'
    PROVE  PlaceInv'
<1>1. (\A b \in Blocks : Mapped(b)) /\ Free /\ Pinned(w) /\ WriterPlace(w)
    BY DEF PlaceInv
<1>2. \A f \in Frames : Evictable(f) /\ Resident(f) /\ Counts(f)
    BY DEF PlaceInv
<1>e. /\ wr[w].pc = "remove" /\ wr[w].frame \in Frames /\ frames[wr[w].frame].block \in Blocks /\ HoldsShard(frames[wr[w].frame].block) = {}
      /\ wr'[w].pc = "reset" /\ wr'[w].block = wr[w].block /\ wr'[w].new = wr[w].new
      /\ wr'[w].frame = wr[w].frame /\ wr'[w].pins = wr[w].pins /\ wr'[w].wrote = wr[w].wrote
      /\ table'[frames[wr[w].frame].block] = NoBlock /\ \A c \in Blocks : c # frames[wr[w].frame].block => table'[c] = table[c]
      /\ free' = free
      /\ clock'.evictable = clock.evictable
      /\ \A g \in Frames : frames'[g].block = frames[g].block /\ frames'[g].pin = frames[g].pin
    BY RemoveVictimEffect
<1>3. \A b \in Blocks : Mapped(b)'
    BY <1>1, <1>e, PlaceFacts DEF Mapped, WriterPlace, Searching, Evicting, Filling, Pinned
<1>4. \A f \in Frames : Evictable(f)' /\ Resident(f)' /\ Counts(f)'
    BY <1>1, <1>2, <1>e, PlaceFacts DEF Evictable, Resident, Counts, WriterPlace, Evicting, Searching, SingleWriter, Mapped
<1>5. Free'
    BY <1>1, <1>e, PlaceFacts DEF Free, WriterPlace, Evicting, Filling
<1>6. Pinned(w)'
    BY <1>1, <1>2, <1>e, PlaceFacts DEF Pinned, Counts, WriterPlace, Mapped, Evicting, Filling, Searching
<1>7. WriterPlace(w)'
    BY <1>1, <1>2, <1>e, PlaceFacts DEF WriterPlace, Evicting, Filling, Searching, Mapped, Pinned, Evictable, Resident, SingleWriter, Free
<1> QED BY <1>3, <1>4, <1>5, <1>6, <1>7, PlaceSuffices

LEMMA ResetVictimPlace ==
    ASSUME SingleWriter, PlaceInv, NEW w \in Writers, ResetVictim(w), TypeInv'
    PROVE  PlaceInv'
<1>1. (\A b \in Blocks : Mapped(b)) /\ Free /\ Pinned(w) /\ WriterPlace(w)
    BY DEF PlaceInv
<1>2. \A f \in Frames : Evictable(f) /\ Resident(f) /\ Counts(f)
    BY DEF PlaceInv
<1>e. /\ wr[w].pc = "reset" /\ wr[w].frame \in Frames
      /\ clock'.evictable = clock.evictable \ {wr[w].frame}
      /\ wr'[w].pc = "load" /\ wr'[w].block = wr[w].block /\ wr'[w].new = wr[w].new
      /\ wr'[w].frame = wr[w].frame /\ wr'[w].pins = wr[w].pins /\ wr'[w].wrote = wr[w].wrote
      /\ \A g \in Frames : g # wr[w].frame => frames'[g].block = frames[g].block /\ frames'[g].pin = frames[g].pin
      /\ frames'[wr[w].frame].block = NoBlock
      /\ frames'[wr[w].frame].pin = 0
      /\ table' = table /\ free' = free
    BY ResetVictimEffect
<1>3. \A b \in Blocks : Mapped(b)'
    BY <1>1, <1>e, PlaceFacts DEF Mapped, WriterPlace, Searching, Evicting, Filling, Pinned
<1>4. \A f \in Frames : Evictable(f)' /\ Resident(f)' /\ Counts(f)'
    BY <1>1, <1>2, <1>e, PlaceFacts DEF Evictable, Resident, Counts, WriterPlace, Evicting, Searching, SingleWriter, Mapped
<1>5. Free'
    BY <1>1, <1>e, PlaceFacts DEF Free, WriterPlace, Evicting, Filling
<1>6. Pinned(w)'
    BY <1>1, <1>2, <1>e, PlaceFacts DEF Pinned, Counts, WriterPlace, Mapped, Evicting, Filling, Searching
<1>7. WriterPlace(w)'
    BY <1>1, <1>2, <1>e, PlaceFacts DEF WriterPlace, Evicting, Filling, Searching, Mapped, Pinned, Evictable, Resident, SingleWriter, Free
<1> QED BY <1>3, <1>4, <1>5, <1>6, <1>7, PlaceSuffices

LEMMA LoadPagePlace ==
    ASSUME SingleWriter, PlaceInv, NEW w \in Writers, LoadPage(w), TypeInv'
    PROVE  PlaceInv'
<1>1. (\A b \in Blocks : Mapped(b)) /\ Free /\ Pinned(w) /\ WriterPlace(w)
    BY DEF PlaceInv
<1>2. \A f \in Frames : Evictable(f) /\ Resident(f) /\ Counts(f)
    BY DEF PlaceInv
<1>e. /\ wr[w].pc = "load" /\ wr[w].frame \in Frames /\ wr[w].block \in Blocks
      /\ wr'[w].pc = "publish" /\ wr'[w].block = wr[w].block /\ wr'[w].new = wr[w].new
      /\ wr'[w].frame = wr[w].frame /\ wr'[w].pins = wr[w].pins /\ wr'[w].wrote = wr[w].wrote
      /\ \A g \in Frames : g # wr[w].frame => frames'[g].block = frames[g].block /\ frames'[g].pin = frames[g].pin
      /\ frames'[wr[w].frame].block = frames[wr[w].frame].block
      /\ frames'[wr[w].frame].pin = frames[wr[w].frame].pin
      /\ table' = table /\ free' = free
      /\ clock'.evictable = clock.evictable
    BY LoadPageEffect
<1>3. \A b \in Blocks : Mapped(b)'
    BY <1>1, <1>e, PlaceFacts DEF Mapped, WriterPlace, Searching, Evicting, Filling, Pinned
<1>4. \A f \in Frames : Evictable(f)' /\ Resident(f)' /\ Counts(f)'
    BY <1>1, <1>2, <1>e, PlaceFacts DEF Evictable, Resident, Counts, WriterPlace, Evicting, Searching, SingleWriter, Mapped
<1>5. Free'
    BY <1>1, <1>e, PlaceFacts DEF Free, WriterPlace, Evicting, Filling
<1>6. Pinned(w)'
    BY <1>1, <1>2, <1>e, PlaceFacts DEF Pinned, Counts, WriterPlace, Mapped, Evicting, Filling, Searching
<1>7. WriterPlace(w)'
    BY <1>1, <1>2, <1>e, PlaceFacts DEF WriterPlace, Evicting, Filling, Searching, Mapped, Pinned, Evictable, Resident, SingleWriter, Free
<1> QED BY <1>3, <1>4, <1>5, <1>6, <1>7, PlaceSuffices

LEMMA PublishPlace ==
    ASSUME SingleWriter, PlaceInv, NEW w \in Writers, Publish(w), TypeInv'
    PROVE  PlaceInv'
<1>1. (\A b \in Blocks : Mapped(b)) /\ Free /\ Pinned(w) /\ WriterPlace(w)
    BY DEF PlaceInv
<1>2. \A f \in Frames : Evictable(f) /\ Resident(f) /\ Counts(f)
    BY DEF PlaceInv
<1>e. /\ wr[w].pc = "publish" /\ wr[w].frame \in Frames /\ wr[w].block \in Blocks
      /\ wr'[w].pc = "insert" /\ wr'[w].block = wr[w].block /\ wr'[w].new = wr[w].new
      /\ wr'[w].frame = wr[w].frame /\ wr'[w].pins = wr[w].pins /\ wr'[w].wrote = wr[w].wrote
      /\ \A g \in Frames : g # wr[w].frame => frames'[g].block = frames[g].block /\ frames'[g].pin = frames[g].pin
      /\ frames'[wr[w].frame].block = wr[w].block
      /\ frames'[wr[w].frame].pin = 1
      /\ table' = table /\ free' = free
      /\ clock'.evictable = clock.evictable
    BY PublishEffect
<1>3. \A b \in Blocks : Mapped(b)'
    BY <1>1, <1>e, PlaceFacts DEF Mapped, WriterPlace, Searching, Evicting, Filling, Pinned
<1>4. \A f \in Frames : Evictable(f)' /\ Resident(f)' /\ Counts(f)'
    BY <1>1, <1>2, <1>e, PlaceFacts DEF Evictable, Resident, Counts, WriterPlace, Evicting, Searching, SingleWriter, Mapped
<1>5. Free'
    BY <1>1, <1>e, PlaceFacts DEF Free, WriterPlace, Evicting, Filling
<1>6. Pinned(w)'
    BY <1>1, <1>2, <1>e, PlaceFacts DEF Pinned, Counts, WriterPlace, Mapped, Evicting, Filling, Searching
<1>7. WriterPlace(w)'
    BY <1>1, <1>2, <1>e, PlaceFacts DEF WriterPlace, Evicting, Filling, Searching, Mapped, Pinned, Evictable, Resident, SingleWriter, Free
<1> QED BY <1>3, <1>4, <1>5, <1>6, <1>7, PlaceSuffices

LEMMA InsertPlace ==
    ASSUME SingleWriter, PlaceInv, NEW w \in Writers, Insert(w), TypeInv'
    PROVE  PlaceInv'
<1>1. (\A b \in Blocks : Mapped(b)) /\ Free /\ Pinned(w) /\ WriterPlace(w)
    BY DEF PlaceInv
<1>2. \A f \in Frames : Evictable(f) /\ Resident(f) /\ Counts(f)
    BY DEF PlaceInv
<1>e. /\ wr[w].pc = "insert" /\ wr[w].frame \in Frames /\ wr[w].block \in Blocks
      /\ clock'.evictable = clock.evictable \ {wr[w].frame}
      /\ wr'[w].pc = "idle" /\ wr'[w].block = NoBlock /\ wr'[w].new = FALSE
      /\ wr'[w].frame = NoFrame /\ wr'[w].pins = [wr[w].pins EXCEPT ![wr[w].block] = wr[w].frame] /\ wr'[w].wrote = IF wr[w].new THEN wr[w].wrote \cup {wr[w].block} ELSE wr[w].wrote
      /\ table'[wr[w].block] = wr[w].frame /\ \A c \in Blocks : c # wr[w].block => table'[c] = table[c]
      /\ free' = free
      /\ \A g \in Frames : frames'[g].block = frames[g].block /\ frames'[g].pin = frames[g].pin
    BY InsertEffect
<1>3. \A b \in Blocks : Mapped(b)'
    BY <1>1, <1>e, PlaceFacts DEF Mapped, WriterPlace, Searching, Evicting, Filling, Pinned
<1>4. \A f \in Frames : Evictable(f)' /\ Resident(f)' /\ Counts(f)'
    BY <1>1, <1>2, <1>e, PlaceFacts DEF Evictable, Resident, Counts, WriterPlace, Evicting, Searching, SingleWriter, Mapped
<1>5. Free'
    BY <1>1, <1>e, PlaceFacts DEF Free, WriterPlace, Evicting, Filling
<1>6. Pinned(w)'
    BY <1>1, <1>2, <1>e, PlaceFacts DEF Pinned, Counts, WriterPlace, Mapped, Evicting, Filling, Searching
<1>7. WriterPlace(w)'
    BY <1>1, <1>2, <1>e, PlaceFacts DEF WriterPlace, Evicting, Filling, Searching, Mapped, Pinned, Evictable, Resident, SingleWriter, Free
<1> QED BY <1>3, <1>4, <1>5, <1>6, <1>7, PlaceSuffices

LEMMA Append_DataPlace ==
    ASSUME SingleWriter, PlaceInv, NEW w \in Writers, Append_Data(w), TypeInv'
    PROVE  PlaceInv'
<1>1. (\A b \in Blocks : Mapped(b)) /\ Free /\ Pinned(w) /\ WriterPlace(w)
    BY DEF PlaceInv
<1>2. \A f \in Frames : Evictable(f) /\ Resident(f) /\ Counts(f)
    BY DEF PlaceInv
<1>e. /\ wr[w].pc = "idle" /\ On(w) \in Blocks
      /\ wr[w].pins[On(w)] \in Frames /\ use[On(w)].state = "live"
      /\ wr'[w].pc = "commit" /\ wr'[w].block = On(w) /\ wr'[w].new = wr[w].new
      /\ wr'[w].frame = wr[w].pins[On(w)] /\ wr'[w].pins = wr[w].pins /\ wr'[w].wrote = wr[w].wrote
      /\ \A g \in Frames : g # wr[w].pins[On(w)] => frames'[g].block = frames[g].block /\ frames'[g].pin = frames[g].pin
      /\ frames'[wr[w].pins[On(w)]].block = frames[wr[w].pins[On(w)]].block
      /\ frames'[wr[w].pins[On(w)]].pin = frames[wr[w].pins[On(w)]].pin
      /\ table' = table /\ free' = free
      /\ clock'.evictable = clock.evictable
    BY Append_DataEffect
<1>3. \A b \in Blocks : Mapped(b)'
    BY <1>1, <1>e, PlaceFacts DEF Mapped, WriterPlace, Searching, Evicting, Filling, Pinned
<1>4. \A f \in Frames : Evictable(f)' /\ Resident(f)' /\ Counts(f)'
    BY <1>1, <1>2, <1>e, PlaceFacts DEF Evictable, Resident, Counts, WriterPlace, Evicting, Searching, SingleWriter, Mapped
<1>5. Free'
    BY <1>1, <1>e, PlaceFacts DEF Free, WriterPlace, Evicting, Filling
<1>6. Pinned(w)'
    BY <1>1, <1>2, <1>e, PlaceFacts DEF Pinned, Counts, WriterPlace, Mapped, Evicting, Filling, Searching
<1>7. WriterPlace(w)'
    BY <1>1, <1>2, <1>e, PlaceFacts DEF WriterPlace, Evicting, Filling, Searching, Mapped, Pinned, Evictable, Resident, SingleWriter, Free
<1> QED BY <1>3, <1>4, <1>5, <1>6, <1>7, PlaceSuffices

LEMMA Append_CommitPlace ==
    ASSUME SingleWriter, PlaceInv, NEW w \in Writers, Append_Commit(w), TypeInv'
    PROVE  PlaceInv'
<1>1. (\A b \in Blocks : Mapped(b)) /\ Free /\ Pinned(w) /\ WriterPlace(w)
    BY DEF PlaceInv
<1>2. \A f \in Frames : Evictable(f) /\ Resident(f) /\ Counts(f)
    BY DEF PlaceInv
<1>e. /\ wr[w].pc = "commit" /\ wr[w].frame \in Frames /\ wr[w].block \in Blocks
      /\ wr'[w].pc = "idle" /\ wr'[w].block = NoBlock /\ wr'[w].new = FALSE
      /\ wr'[w].frame = NoFrame /\ wr'[w].pins = wr[w].pins /\ wr'[w].wrote = wr[w].wrote \cup {wr[w].block}
      /\ \A g \in Frames : g # wr[w].frame => frames'[g].block = frames[g].block /\ frames'[g].pin = frames[g].pin
      /\ frames'[wr[w].frame].block = frames[wr[w].frame].block
      /\ frames'[wr[w].frame].pin = frames[wr[w].frame].pin
      /\ table' = table /\ free' = free
      /\ clock'.evictable = clock.evictable
    BY Append_CommitEffect
<1>3. \A b \in Blocks : Mapped(b)'
    BY <1>1, <1>e, PlaceFacts DEF Mapped, WriterPlace, Searching, Evicting, Filling, Pinned
<1>4. \A f \in Frames : Evictable(f)' /\ Resident(f)' /\ Counts(f)'
    BY <1>1, <1>2, <1>e, PlaceFacts DEF Evictable, Resident, Counts, WriterPlace, Evicting, Searching, SingleWriter, Mapped
<1>5. Free'
    BY <1>1, <1>e, PlaceFacts DEF Free, WriterPlace, Evicting, Filling
<1>6. Pinned(w)'
    BY <1>1, <1>2, <1>e, PlaceFacts DEF Pinned, Counts, WriterPlace, Mapped, Evicting, Filling, Searching
<1>7. WriterPlace(w)'
    BY <1>1, <1>2, <1>e, PlaceFacts DEF WriterPlace, Evicting, Filling, Searching, Mapped, Pinned, Evictable, Resident, SingleWriter, Free
<1> QED BY <1>3, <1>4, <1>5, <1>6, <1>7, PlaceSuffices

LEMMA UnpinPagePlace ==
    ASSUME SingleWriter, PlaceInv, NEW w \in Writers, UnpinPage(w), TypeInv'
    PROVE  PlaceInv'
<1>1. (\A b \in Blocks : Mapped(b)) /\ Free /\ Pinned(w) /\ WriterPlace(w)
    BY DEF PlaceInv
<1>2. \A f \in Frames : Evictable(f) /\ Resident(f) /\ Counts(f)
    BY DEF PlaceInv
<1>t. table[On(w)] # NoBlock => table[On(w)] \in Frames /\ frames[table[On(w)]] \in FrameType
    BY UnpinPageEffect, PlaceFacts DEF PlaceInv, TypeInv
<1>e. /\ wr[w].pc = "idle" /\ On(w) \in Blocks /\ wr[w].pins[On(w)] \in Frames
      /\ wr'[w].pc = "idle" /\ wr'[w].block = wr[w].block /\ wr'[w].new = wr[w].new
      /\ wr'[w].frame = wr[w].frame /\ wr'[w].pins = [wr[w].pins EXCEPT ![On(w)] = NoFrame] /\ wr'[w].wrote = wr[w].wrote \ {On(w)}
      /\ table' = table /\ free' = free
      /\ table[On(w)] = wr[w].pins[On(w)] /\ frames[table[On(w)]].block = On(w)
      /\ \A g \in Frames : frames'[g].block = frames[g].block
      /\ \A g \in Frames : g # table[On(w)] => frames'[g].pin = frames[g].pin
      /\ frames'[table[On(w)]].pin = frames[table[On(w)]].pin - 1 /\ frames[table[On(w)]].pin > 0
      /\ clock'.evictable \in {clock.evictable, clock.evictable \cup {table[On(w)]}}
    <2>1. /\ wr[w].pc = "idle" /\ On(w) \in Blocks /\ wr[w].pins[On(w)] \in Frames
          /\ UNCHANGED <<table, free>>
        <3>1. /\ wr[w].pc = "idle" /\ On(w) \in Blocks /\ wr[w].pins[On(w)] # NoFrame
              /\ table' = table /\ free' = free
            BY UnpinPageEffect
        <3>2. wr[w].pins[On(w)] \in Frames \cup {NoFrame}
            BY <3>1, PlaceFacts
        <3> QED BY ONLY <3>1, <3>2
    <2>2. table[On(w)] = wr[w].pins[On(w)] /\ frames[table[On(w)]].pin > 0 /\ frames[table[On(w)]].block = On(w)
        BY <1>1, <2>1, PlaceFacts DEF Pinned, Mapped
    <2>3. table[On(w)] # NoBlock
        BY <2>1, <2>2, PlaceFacts
    <2>4. frames[table[On(w)]] \in FrameType
        BY <1>t, <2>3
    <2>5. /\ frames'[table[On(w)]].block = frames[table[On(w)]].block
          /\ frames'[table[On(w)]].pin = frames[table[On(w)]].pin - 1
        <3>1. frames'[table[On(w)]] = [frames[table[On(w)]] EXCEPT !.pin = frames[table[On(w)]].pin - 1,
                                        !.dirty = frames[table[On(w)]].dirty \/ On(w) \in wr[w].wrote]
            BY <2>3, UnpinPageEffect
        <3> QED BY <2>4, <3>1 DEF FrameType
    <2>6. /\ \A g \in Frames : g # table[On(w)] => frames'[g] = frames[g]
          /\ clock'.evictable \in {clock.evictable, clock.evictable \cup {table[On(w)]}}
        BY <2>3, UnpinPageEffect
    <2>7. \A g \in Frames : frames'[g].block = frames[g].block
        BY <2>5, <2>6
    <2>8. \A g \in Frames : g # table[On(w)] => frames'[g].pin = frames[g].pin
        BY <2>6
    <2> QED BY <2>1, <2>2, <2>5, <2>6, <2>7, <2>8, UnpinPageEffect
<1>3. \A b \in Blocks : Mapped(b)'
    BY <1>1, <1>e, PlaceFacts DEF Mapped, WriterPlace, Searching, Evicting, Filling, Pinned
<1>4. \A f \in Frames : Evictable(f)' /\ Resident(f)' /\ Counts(f)'
    BY <1>1, <1>2, <1>e, PlaceFacts DEF Evictable, Resident, Counts, WriterPlace, Evicting, Searching, SingleWriter, Mapped
<1>5. Free'
    BY <1>1, <1>e, PlaceFacts DEF Free, WriterPlace, Evicting, Filling
<1>6. Pinned(w)'
    BY <1>1, <1>2, <1>e, PlaceFacts DEF Pinned, Counts, WriterPlace, Mapped, Evicting, Filling, Searching
<1>7. WriterPlace(w)'
    BY <1>1, <1>2, <1>e, PlaceFacts DEF WriterPlace, Evicting, Filling, Searching, Mapped, Pinned, Evictable, Resident, SingleWriter, Free
<1> QED BY <1>3, <1>4, <1>5, <1>6, <1>7, PlaceSuffices

LEMMA SkipPlace ==
    ASSUME SingleWriter, PlaceInv, NEW w \in Writers, Skip(w), TypeInv'
    PROVE  PlaceInv'
<1>1. (\A b \in Blocks : Mapped(b)) /\ Free /\ Pinned(w) /\ WriterPlace(w)
    BY DEF PlaceInv
<1>2. \A f \in Frames : Evictable(f) /\ Resident(f) /\ Counts(f)
    BY DEF PlaceInv
<1>e. /\ wr' = wr
      /\ table' = table /\ free' = free
      /\ clock'.evictable = clock.evictable
      /\ \A g \in Frames : frames'[g].block = frames[g].block /\ frames'[g].pin = frames[g].pin
    BY SkipEffect
<1>3. \A b \in Blocks : Mapped(b)'
    BY <1>1, <1>e, PlaceFacts DEF Mapped, WriterPlace, Searching, Evicting, Filling, Pinned
<1>4. \A f \in Frames : Evictable(f)' /\ Resident(f)' /\ Counts(f)'
    BY <1>1, <1>2, <1>e, PlaceFacts DEF Evictable, Resident, Counts, WriterPlace, Evicting, Searching, SingleWriter, Mapped
<1>5. Free'
    BY <1>1, <1>e, PlaceFacts DEF Free, WriterPlace, Evicting, Filling
<1>6. Pinned(w)'
    BY <1>1, <1>2, <1>e, PlaceFacts DEF Pinned, Counts, WriterPlace, Mapped, Evicting, Filling, Searching
<1>7. WriterPlace(w)'
    BY <1>1, <1>2, <1>e, PlaceFacts DEF WriterPlace, Evicting, Filling, Searching, Mapped, Pinned, Evictable, Resident, SingleWriter, Free
<1> QED BY <1>3, <1>4, <1>5, <1>6, <1>7, PlaceSuffices

LEMMA FlushPagePlace ==
    ASSUME SingleWriter, PlaceInv, NEW w \in Writers, FlushPage(w), TypeInv'
    PROVE  PlaceInv'
<1>1. (\A b \in Blocks : Mapped(b)) /\ Free /\ Pinned(w) /\ WriterPlace(w)
    BY DEF PlaceInv
<1>2. \A f \in Frames : Evictable(f) /\ Resident(f) /\ Counts(f)
    BY DEF PlaceInv
<1>t. table[On(w)] # NoBlock => table[On(w)] \in Frames /\ frames[table[On(w)]] \in FrameType
    BY FlushPageEffect, PlaceFacts DEF PlaceInv, TypeInv
<1>e. /\ wr[w].pc = "idle" /\ On(w) \in Blocks
      /\ table' = table /\ free' = free
      /\ clock'.evictable = clock.evictable
      /\ \A g \in Frames : frames'[g].block = frames[g].block /\ frames'[g].pin = frames[g].pin
      /\ \/ wr'[w] = wr[w]
         \/ table[On(w)] \in Frames /\ wr'[w].pc = "flushed" /\ wr'[w].frame = table[On(w)] 
      /\ wr'[w].pins = wr[w].pins /\ wr'[w].wrote = wr[w].wrote
    <2>1. CASE wr' = wr /\ frames' = frames
        BY <2>1, FlushPageEffect
    <2>2. CASE ~(wr' = wr /\ frames' = frames)
        <3>1. /\ table[On(w)] \in Frames /\ wr'[w].pc = "flushed" /\ wr'[w].frame = table[On(w)]
              /\ wr'[w].pins = wr[w].pins /\ wr'[w].wrote = wr[w].wrote
              /\ frames'[table[On(w)]] = [frames[table[On(w)]] EXCEPT !.page = Synced(table[On(w)])]
              /\ \A g \in Frames : g # table[On(w)] => frames'[g] = frames[g]
            BY <2>2, FlushPageEffect
        <3>2. frames[table[On(w)]] \in FrameType
            BY <1>t, <3>1, PlaceFacts
        <3>3. /\ frames'[table[On(w)]].block = frames[table[On(w)]].block
              /\ frames'[table[On(w)]].pin = frames[table[On(w)]].pin
            BY <3>1, <3>2 DEF FrameType
        <3>4. \A g \in Frames : frames'[g].block = frames[g].block /\ frames'[g].pin = frames[g].pin
            BY <3>1, <3>3
        <3> QED BY <3>1, <3>4, FlushPageEffect
    <2> QED BY <2>1, <2>2
<1>3. \A b \in Blocks : Mapped(b)'
    BY <1>1, <1>e, PlaceFacts DEF Mapped, WriterPlace, Searching, Evicting, Filling, Pinned
<1>4. \A f \in Frames : Evictable(f)' /\ Resident(f)' /\ Counts(f)'
    BY <1>1, <1>2, <1>e, PlaceFacts DEF Evictable, Resident, Counts, WriterPlace, Evicting, Searching, SingleWriter, Mapped
<1>5. Free'
    BY <1>1, <1>e, PlaceFacts DEF Free, WriterPlace, Evicting, Filling
<1>6. Pinned(w)'
    BY <1>1, <1>2, <1>e, PlaceFacts DEF Pinned, Counts, WriterPlace, Mapped, Evicting, Filling, Searching
<1>7. WriterPlace(w)'
    BY <1>1, <1>2, <1>e, PlaceFacts DEF WriterPlace, Evicting, Filling, Searching, Mapped, Pinned, Evictable, Resident, SingleWriter, Free
<1> QED BY <1>3, <1>4, <1>5, <1>6, <1>7, PlaceSuffices

LEMMA FlushDonePlace ==
    ASSUME SingleWriter, PlaceInv, NEW w \in Writers, FlushDone(w), TypeInv'
    PROVE  PlaceInv'
<1>1. (\A b \in Blocks : Mapped(b)) /\ Free /\ Pinned(w) /\ WriterPlace(w)
    BY DEF PlaceInv
<1>2. \A f \in Frames : Evictable(f) /\ Resident(f) /\ Counts(f)
    BY DEF PlaceInv
<1>e. /\ wr[w].pc = "flushed" /\ wr[w].frame \in Frames
      /\ wr'[w].pc = "idle" /\ wr'[w].block = NoBlock /\ wr'[w].new = FALSE
      /\ wr'[w].frame = NoFrame /\ wr'[w].pins = wr[w].pins /\ wr'[w].wrote = wr[w].wrote
      /\ \A g \in Frames : g # wr[w].frame => frames'[g].block = frames[g].block /\ frames'[g].pin = frames[g].pin
      /\ frames'[wr[w].frame].block = frames[wr[w].frame].block
      /\ frames'[wr[w].frame].pin = frames[wr[w].frame].pin
      /\ table' = table /\ free' = free
      /\ clock'.evictable = clock.evictable
    BY FlushDoneEffect
<1>3. \A b \in Blocks : Mapped(b)'
    BY <1>1, <1>e, PlaceFacts DEF Mapped, WriterPlace, Searching, Evicting, Filling, Pinned
<1>4. \A f \in Frames : Evictable(f)' /\ Resident(f)' /\ Counts(f)'
    BY <1>1, <1>2, <1>e, PlaceFacts DEF Evictable, Resident, Counts, WriterPlace, Evicting, Searching, SingleWriter, Mapped
<1>5. Free'
    BY <1>1, <1>e, PlaceFacts DEF Free, WriterPlace, Evicting, Filling
<1>6. Pinned(w)'
    BY <1>1, <1>2, <1>e, PlaceFacts DEF Pinned, Counts, WriterPlace, Mapped, Evicting, Filling, Searching
<1>7. WriterPlace(w)'
    BY <1>1, <1>2, <1>e, PlaceFacts DEF WriterPlace, Evicting, Filling, Searching, Mapped, Pinned, Evictable, Resident, SingleWriter, Free
<1> QED BY <1>3, <1>4, <1>5, <1>6, <1>7, PlaceSuffices

LEMMA BuryPlace ==
    ASSUME SingleWriter, PlaceInv, NEW w \in Writers, Bury(w), TypeInv'
    PROVE  PlaceInv'
<1>1. (\A b \in Blocks : Mapped(b)) /\ Free /\ Pinned(w) /\ WriterPlace(w)
    BY DEF PlaceInv
<1>2. \A f \in Frames : Evictable(f) /\ Resident(f) /\ Counts(f)
    BY DEF PlaceInv
<1>e. /\ wr[w].pc = "idle" /\ On(w) \in Blocks
      /\ wr' = wr
      /\ table' = table /\ free' = free
      /\ clock'.evictable = clock.evictable
      /\ \A g \in Frames : frames'[g].block = frames[g].block /\ frames'[g].pin = frames[g].pin
    BY BuryEffect
<1>3. \A b \in Blocks : Mapped(b)'
    BY <1>1, <1>e, PlaceFacts DEF Mapped, WriterPlace, Searching, Evicting, Filling, Pinned
<1>4. \A f \in Frames : Evictable(f)' /\ Resident(f)' /\ Counts(f)'
    BY <1>1, <1>2, <1>e, PlaceFacts DEF Evictable, Resident, Counts, WriterPlace, Evicting, Searching, SingleWriter, Mapped
<1>5. Free'
    BY <1>1, <1>e, PlaceFacts DEF Free, WriterPlace, Evicting, Filling
<1>6. Pinned(w)'
    BY <1>1, <1>2, <1>e, PlaceFacts DEF Pinned, Counts, WriterPlace, Mapped, Evicting, Filling, Searching
<1>7. WriterPlace(w)'
    BY <1>1, <1>2, <1>e, PlaceFacts DEF WriterPlace, Evicting, Filling, Searching, Mapped, Pinned, Evictable, Resident, SingleWriter, Free
<1> QED BY <1>3, <1>4, <1>5, <1>6, <1>7, PlaceSuffices

LEMMA ForceCheckPlace ==
    ASSUME SingleWriter, PlaceInv, NEW w \in Writers, ForceCheck(w), TypeInv'
    PROVE  PlaceInv'
<1>1. (\A b \in Blocks : Mapped(b)) /\ Free /\ Pinned(w) /\ WriterPlace(w)
    BY DEF PlaceInv
<1>2. \A f \in Frames : Evictable(f) /\ Resident(f) /\ Counts(f)
    BY DEF PlaceInv
<1>e. /\ wr[w].pc = "idle" /\ On(w) \in Blocks
      /\ table' = table /\ free' = free
      /\ clock'.evictable = clock.evictable
      /\ \A g \in Frames : frames'[g].block = frames[g].block /\ frames'[g].pin = frames[g].pin
      /\ \/ wr'[w] = wr[w]
         \/ /\ table[On(w)] \in Frames /\ frames[table[On(w)]].pin = 0
            /\ wr'[w].pc = "force" /\ wr'[w].frame = table[On(w)] /\ wr'[w].block = On(w)
      /\ wr'[w].pins = wr[w].pins /\ wr'[w].wrote = wr[w].wrote
    BY ForceCheckEffect DEF MayEvict
<1>3. \A b \in Blocks : Mapped(b)'
    BY <1>1, <1>e, PlaceFacts DEF Mapped, WriterPlace, Searching, Evicting, Filling, Pinned
<1>4. \A f \in Frames : Evictable(f)' /\ Resident(f)' /\ Counts(f)'
    BY <1>1, <1>2, <1>e, PlaceFacts DEF Evictable, Resident, Counts, WriterPlace, Evicting, Searching, SingleWriter, Mapped
<1>5. Free'
    BY <1>1, <1>e, PlaceFacts DEF Free, WriterPlace, Evicting, Filling
<1>6. Pinned(w)'
    BY <1>1, <1>2, <1>e, PlaceFacts DEF Pinned, Counts, WriterPlace, Mapped, Evicting, Filling, Searching
<1>7. WriterPlace(w)'
    BY <1>1, <1>2, <1>e, PlaceFacts DEF WriterPlace, Evicting, Filling, Searching, Mapped, Pinned, Evictable, Resident, SingleWriter, Free
<1> QED BY <1>3, <1>4, <1>5, <1>6, <1>7, PlaceSuffices

LEMMA ForceRemovePlace ==
    ASSUME SingleWriter, PlaceInv, NEW w \in Writers, ForceRemove(w), TypeInv'
    PROVE  PlaceInv'
<1>1. (\A b \in Blocks : Mapped(b)) /\ Free /\ Pinned(w) /\ WriterPlace(w)
    BY DEF PlaceInv
<1>2. \A f \in Frames : Evictable(f) /\ Resident(f) /\ Counts(f)
    BY DEF PlaceInv
<1>e. /\ wr[w].pc = "force" /\ wr[w].block \in Blocks /\ HoldsShard(wr[w].block) = {}
      /\ wr'[w].pc = "release" /\ wr'[w].block = wr[w].block /\ wr'[w].new = wr[w].new
      /\ wr'[w].frame = wr[w].frame /\ wr'[w].pins = wr[w].pins /\ wr'[w].wrote = wr[w].wrote
      /\ table'[wr[w].block] = NoBlock /\ \A c \in Blocks : c # wr[w].block => table'[c] = table[c]
      /\ free' = free
      /\ clock'.evictable = clock.evictable
      /\ \A g \in Frames : frames'[g].block = frames[g].block /\ frames'[g].pin = frames[g].pin
    BY ForceRemoveEffect
<1>3. \A b \in Blocks : Mapped(b)'
    BY <1>1, <1>e, PlaceFacts DEF Mapped, WriterPlace, Searching, Evicting, Filling, Pinned
<1>4. \A f \in Frames : Evictable(f)' /\ Resident(f)' /\ Counts(f)'
    BY <1>1, <1>2, <1>e, PlaceFacts DEF Evictable, Resident, Counts, WriterPlace, Evicting, Searching, SingleWriter, Mapped
<1>5. Free'
    BY <1>1, <1>e, PlaceFacts DEF Free, WriterPlace, Evicting, Filling
<1>6. Pinned(w)'
    BY <1>1, <1>2, <1>e, PlaceFacts DEF Pinned, Counts, WriterPlace, Mapped, Evicting, Filling, Searching
<1>7. WriterPlace(w)'
    BY <1>1, <1>2, <1>e, PlaceFacts DEF WriterPlace, Evicting, Filling, Searching, Mapped, Pinned, Evictable, Resident, SingleWriter, Free
<1> QED BY <1>3, <1>4, <1>5, <1>6, <1>7, PlaceSuffices

LEMMA ForceFreePlace ==
    ASSUME SingleWriter, PlaceInv, NEW w \in Writers, ForceFree(w), TypeInv'
    PROVE  PlaceInv'
<1>1. (\A b \in Blocks : Mapped(b)) /\ Free /\ Pinned(w) /\ WriterPlace(w)
    BY DEF PlaceInv
<1>2. \A f \in Frames : Evictable(f) /\ Resident(f) /\ Counts(f)
    BY DEF PlaceInv
<1>e. /\ wr[w].pc = "release" /\ wr[w].frame \in Frames
      /\ free' = Append(free, wr[w].frame) /\ clock'.evictable = clock.evictable \ {wr[w].frame}
      /\ wr'[w].pc = "idle" /\ wr'[w].block = NoBlock /\ wr'[w].new = FALSE
      /\ wr'[w].frame = NoFrame /\ wr'[w].pins = wr[w].pins /\ wr'[w].wrote = wr[w].wrote
      /\ \A g \in Frames : g # wr[w].frame => frames'[g].block = frames[g].block /\ frames'[g].pin = frames[g].pin
      /\ frames'[wr[w].frame].block = NoBlock
      /\ frames'[wr[w].frame].pin = frames[wr[w].frame].pin
      /\ table' = table
    BY ForceFreeEffect
<1>3. \A b \in Blocks : Mapped(b)'
    BY <1>1, <1>e, PlaceFacts DEF Mapped, WriterPlace, Searching, Evicting, Filling, Pinned
<1>4. \A f \in Frames : Evictable(f)' /\ Resident(f)' /\ Counts(f)'
    BY <1>1, <1>2, <1>e, PlaceFacts DEF Evictable, Resident, Counts, WriterPlace, Evicting, Searching, SingleWriter, Mapped
<1>5. Free'
    BY <1>1, <1>e, PlaceFacts DEF Free, WriterPlace, Evicting, Filling
<1>6. Pinned(w)'
    BY <1>1, <1>2, <1>e, PlaceFacts DEF Pinned, Counts, WriterPlace, Mapped, Evicting, Filling, Searching
<1>7. WriterPlace(w)'
    BY <1>1, <1>2, <1>e, PlaceFacts DEF WriterPlace, Evicting, Filling, Searching, Mapped, Pinned, Evictable, Resident, SingleWriter, Free
<1> QED BY <1>3, <1>4, <1>5, <1>6, <1>7, PlaceSuffices

LEMMA WriterPlaces ==
    ASSUME SingleWriter, PlaceInv, NEW w \in Writers, PoolCall(w)
    PROVE  PlaceInv'
<1>1. TypeInv'
    BY WriterTypes
<1>2. CASE FetchPage(w) \/ AllocNewPage(w) \/ Hit(w) \/ Miss(w) \/ Reinit(w)
    BY <1>1, <1>2, FetchPagePlace, AllocNewPagePlace, HitPlace, MissPlace, ReinitPlace
<1>3. CASE Vacant(w) \/ TakeFree(w) \/ Candidate(w) \/ GiveUp(w) \/ FlushVictim(w)
    BY <1>1, <1>3, VacantPlace, TakeFreePlace, CandidatePlace, GiveUpPlace, FlushVictimPlace
<1>4. CASE RemoveVictim(w) \/ ResetVictim(w) \/ LoadPage(w) \/ Publish(w) \/ Insert(w)
    BY <1>1, <1>4, RemoveVictimPlace, ResetVictimPlace, LoadPagePlace, PublishPlace, InsertPlace
<1>5. CASE Append_Data(w) \/ Append_Commit(w) \/ UnpinPage(w) \/ Skip(w) \/ FlushPage(w)
    BY <1>1, <1>5, Append_DataPlace, Append_CommitPlace, UnpinPagePlace, SkipPlace, FlushPagePlace
<1>6. CASE FlushDone(w) \/ Bury(w) \/ ForceCheck(w) \/ ForceRemove(w) \/ ForceFree(w)
    BY <1>1, <1>6, FlushDonePlace, BuryPlace, ForceCheckPlace, ForceRemovePlace, ForceFreePlace
<1> QED BY <1>2, <1>3, <1>4, <1>5, <1>6 DEF PoolCall

(* A reader's step leaves the pool as it is, but for the epochs.            *)
LEMMA ReaderTypes ==
    ASSUME TypeInv, NEW r \in Readers, Read(r)
    PROVE  /\ TypeInv' /\ UNCHANGED <<wr, table, free, clock, disk, use>>
           /\ \A f \in Frames : /\ frames'[f].block = frames[f].block /\ frames'[f].pin = frames[f].pin
                               /\ frames'[f].page = frames[f].page /\ frames'[f].len = frames[f].len
                               /\ frames'[f].dirty = frames[f].dirty
           /\ \A q \in Readers : q # r => rd'[q] = rd[q]
<1>t. /\ rd \in [Readers -> ReaderType] /\ rd[r] \in ReaderType /\ ReaderPlace(r) /\ epoch \in Nat
      /\ frames \in [Frames -> FrameType] /\ use \in [Blocks -> Use] /\ table \in [Blocks -> Frames \cup {NoBlock}]
    BY DEF TypeInv
<1> DEFINE Own == /\ rd' \in [Readers -> ReaderType] /\ ReaderPlace(r)'
                  /\ \A q \in Readers : q # r => rd'[q] = rd[q]
           Same == UNCHANGED <<wr, table, free, clock, disk, use>>
           Todo == \/ todo' = todo /\ todo[r] # <<>>
                   \/ todo' = Rest(r) /\ todo[r] # <<>> /\ rd'[r].pc = "idle"
           Pool == \/ frames' = frames /\ epoch' = epoch
                   \/ epoch' = epoch + 1 /\ rd[r].frame \in Frames /\ frames' = Advance(rd[r].frame)
<1>0. ASSUME Own, Same, Todo, Pool
      PROVE  /\ TypeInv'
             /\ \A f \in Frames : /\ frames'[f].block = frames[f].block /\ frames'[f].pin = frames[f].pin
                                 /\ frames'[f].page = frames[f].page /\ frames'[f].len = frames[f].len
                                 /\ frames'[f].dirty = frames[f].dirty
    <2>1. /\ epoch' \in Nat /\ frames' \in [Frames -> FrameType]
          /\ \A f \in Frames : /\ frames'[f].block = frames[f].block /\ frames'[f].pin = frames[f].pin
                              /\ frames'[f].page = frames[f].page /\ frames'[f].len = frames[f].len
                              /\ frames'[f].dirty = frames[f].dirty
        <3>1. CASE frames' = frames /\ epoch' = epoch
            BY <1>t, <3>1
        <3>2. CASE epoch' = epoch + 1 /\ rd[r].frame \in Frames /\ frames' = Advance(rd[r].frame)
            <4> DEFINE e == epoch + 1
                       f == rd[r].frame
            <4>1. e \in Nat /\ frames[f] \in FrameType /\ frames' = [frames EXCEPT ![f] = [frames[f] EXCEPT !.last = e]]
                BY <1>t, <3>2 DEF Advance
            <4> HIDE DEF e, f
            <4>2. [frames[f] EXCEPT !.last = e] \in FrameType
                BY <4>1 DEF FrameType
            <4> QED BY <1>t, <3>2, <4>1, <4>2 DEF FrameType, f, e
        <3> QED BY <1>0, <3>1, <3>2
    <2>2. \A q \in Readers : ReaderPlace(q)'
        BY <1>0 DEF TypeInv, ReaderPlace
    <2>3. /\ DOMAIN todo' = Writers \cup Readers
          /\ \A v \in Writers : todo'[v] \in Seq([op : Operations, block : Blocks])
          /\ \A q \in Readers : todo'[q] \in Seq(Blocks)
        <3>1. CASE todo' = todo
            BY <3>1 DEF TypeInv
        <3>2. CASE todo' = Rest(r) /\ todo[r] # <<>>
            BY <3>2, RestType
        <3> QED BY <1>0, <3>1, <3>2
    <2>4. \A q \in Readers : q # r => todo'[q] = todo[q]
        BY <1>0 DEF Rest, TypeInv
    <2>5. \A v \in Writers : todo'[v] = todo[v]
        BY <1>0, BufferAssumption DEF Rest, TypeInv
    <2>6. \A q \in Readers : rd'[q].pc # "idle" => todo'[q] # <<>>
        BY <1>0, <2>4 DEF TypeInv
    <2>7. \A v \in Writers : wr'[v].pc # "idle" => todo'[v] # <<>>
        BY <1>0, <2>5 DEF TypeInv
    <2>8. TypeInv'
        BY <1>0, <2>1, <2>2, <2>3, <2>6, <2>7 DEF TypeInv
    <2> QED BY <2>1, <2>8
<1>1. CASE Begin(r)
    <2> DEFINE V == [IdleReader EXCEPT !.pc = "enter", !.block = Head(todo[r]), !.seen = epoch]
    <2>1. rd' = [rd EXCEPT ![r] = V]
        BY <1>1 DEF Begin, Step
    <2>2. todo[r] # <<>> /\ Head(todo[r]) \in Blocks
        BY <1>t, <1>1 DEF Begin, TypeInv, ReaderPlace, ReaderType, Touched, Use, FrameType
    <2>3. Same /\ Pool
        BY <1>1, <2>2 DEF Begin, Step
    <2>4. V \in ReaderType
        BY <1>t, <2>2, Count DEF ReaderType, ReadPlaces, Touched, IdleReader, NewPage, Page, Inactive
    <2>5. ReaderPlace(r)' /\ (V.pc = "idle" \/ todo' = todo)
        BY <1>t, <1>1, <2>1, <2>2 DEF ReaderPlace, ReaderType, Touched, Begin, Step, IdleReader
    <2>6. Todo
        BY <1>t, <1>1, <2>1 DEF Begin, TypeInv, Step, IdleReader
    <2> HIDE DEF V
    <2>7. Own
        BY <1>t, <2>1, <2>4, <2>5
    <2> QED BY <1>0, <2>3, <2>6, <2>7
<1>2. CASE Enter(r)
    <2> DEFINE V == [rd[r] EXCEPT !.pc = "resolve", !.slot = rd[r].seen]
    <2>1. rd' = [rd EXCEPT ![r] = V]
        BY <1>2 DEF Enter, Step
    <2>2. rd[r].seen \in Nat
        BY <1>t, <1>2 DEF Enter, TypeInv, ReaderPlace, ReaderType, Touched, Use, FrameType
    <2>3. Same /\ Pool
        BY <1>2, <2>2 DEF Enter, Step
    <2>4. V \in ReaderType
        BY <1>t, <2>2, Count DEF ReaderType, ReadPlaces, Touched
    <2>5. ReaderPlace(r)' /\ (V.pc = "idle" \/ todo' = todo)
        BY <1>t, <1>2, <2>1, <2>2 DEF ReaderPlace, ReaderType, Touched, Enter, Step
    <2>6. Todo
        BY <1>t, <1>2, <2>1 DEF Enter, TypeInv, Step
    <2> HIDE DEF V
    <2>7. Own
        BY <1>t, <2>1, <2>4, <2>5
    <2> QED BY <1>0, <2>3, <2>6, <2>7
<1>3. CASE Resolve(r)
    <2> DEFINE V == IF table[rd[r].block] = NoBlock THEN [rd[r] EXCEPT !.pc = "exit"]
               ELSE [rd[r] EXCEPT !.pc = "touch", !.frame = table[rd[r].block],
                                  !.from = [use |-> use[rd[r].block].uses, n |-> use[rd[r].block].n]]
    <2>1. rd' = [rd EXCEPT ![r] = V]
        BY <1>3 DEF Resolve, Step
    <2>2. /\ table[rd[r].block] \in Frames \cup {NoBlock} /\ rd[r].block \in Blocks
          /\ [use |-> use[rd[r].block].uses, n |-> use[rd[r].block].n] \in [use : Nat, n : Nat]
        BY <1>t, <1>3 DEF Resolve, TypeInv, ReaderPlace, ReaderType, Touched, Use, FrameType
    <2>3. Same /\ Pool
        BY <1>3, <2>2 DEF Resolve, Step
    <2>4. V \in ReaderType
        BY <1>t, <2>2, Count DEF ReaderType, ReadPlaces, Touched
    <2>5. ReaderPlace(r)' /\ (V.pc = "idle" \/ todo' = todo)
        BY <1>t, <1>3, <2>1, <2>2 DEF ReaderPlace, ReaderType, Touched, Resolve, Step
    <2>6. Todo
        BY <1>t, <1>3, <2>1 DEF Resolve, TypeInv, Step
    <2> HIDE DEF V
    <2>7. Own
        BY <1>t, <2>1, <2>4, <2>5
    <2> QED BY <1>0, <2>3, <2>6, <2>7
<1>4. CASE Touch(r)
    <2> DEFINE V == [rd[r] EXCEPT !.pc = "confirm"]
    <2>1. rd' = [rd EXCEPT ![r] = V]
        BY <1>4 DEF Touch, Step
    <2>2. rd[r].frame \in Frames
        BY <1>t, <1>4 DEF Touch, TypeInv, ReaderPlace, ReaderType, Touched, Use, FrameType
    <2>3. Same /\ Pool
        BY <1>4, <2>2 DEF Touch, Step
    <2>4. V \in ReaderType
        BY <1>t, <2>2, Count DEF ReaderType, ReadPlaces, Touched
    <2>5. ReaderPlace(r)' /\ (V.pc = "idle" \/ todo' = todo)
        BY <1>t, <1>4, <2>1, <2>2 DEF ReaderPlace, ReaderType, Touched, Touch, Step
    <2>6. Todo
        BY <1>t, <1>4, <2>1 DEF Touch, TypeInv, Step
    <2> HIDE DEF V
    <2>7. Own
        BY <1>t, <2>1, <2>4, <2>5
    <2> QED BY <1>0, <2>3, <2>6, <2>7
<1>5. CASE Confirm(r)
    <2> DEFINE V == [rd[r] EXCEPT !.pc = IF frames[rd[r].frame].block = rd[r].block THEN "len" ELSE "exit"]
    <2>1. rd' = [rd EXCEPT ![r] = V]
        BY <1>5 DEF Confirm, Step
    <2>2. rd[r].frame \in Frames
        BY <1>t, <1>5 DEF Confirm, TypeInv, ReaderPlace, ReaderType, Touched, Use, FrameType
    <2>3. Same /\ Pool
        BY <1>5, <2>2 DEF Confirm, Step
    <2>4. V \in ReaderType
        BY <1>t, <2>2, Count DEF ReaderType, ReadPlaces, Touched
    <2>5. ReaderPlace(r)' /\ (V.pc = "idle" \/ todo' = todo)
        BY <1>t, <1>5, <2>1, <2>2 DEF ReaderPlace, ReaderType, Touched, Confirm, Step
    <2>6. Todo
        BY <1>t, <1>5, <2>1 DEF Confirm, TypeInv, Step
    <2> HIDE DEF V
    <2>7. Own
        BY <1>t, <2>1, <2>4, <2>5
    <2> QED BY <1>0, <2>3, <2>6, <2>7
<1>6. CASE ReadLen(r)
    <2> DEFINE V == [rd[r] EXCEPT !.pc = "scan", !.len = frames[rd[r].frame].len]
    <2>1. rd' = [rd EXCEPT ![r] = V]
        BY <1>6 DEF ReadLen, Step
    <2>2. rd[r].frame \in Frames /\ frames[rd[r].frame].len \in Nat
        BY <1>t, <1>6 DEF ReadLen, TypeInv, ReaderPlace, ReaderType, Touched, Use, FrameType
    <2>3. Same /\ Pool
        BY <1>6, <2>2 DEF ReadLen, Step
    <2>4. V \in ReaderType
        BY <1>t, <2>2, Count DEF ReaderType, ReadPlaces, Touched
    <2>5. ReaderPlace(r)' /\ (V.pc = "idle" \/ todo' = todo)
        BY <1>t, <1>6, <2>1, <2>2 DEF ReaderPlace, ReaderType, Touched, ReadLen, Step
    <2>6. Todo
        BY <1>t, <1>6, <2>1 DEF ReadLen, TypeInv, Step
    <2> HIDE DEF V
    <2>7. Own
        BY <1>t, <2>1, <2>4, <2>5
    <2> QED BY <1>0, <2>3, <2>6, <2>7
<1>7. CASE Scan(r)
    <2> DEFINE V == [rd[r] EXCEPT !.pc = "validate", !.page = frames[rd[r].frame].page]
    <2>1. rd' = [rd EXCEPT ![r] = V]
        BY <1>7 DEF Scan, Step
    <2>2. rd[r].frame \in Frames /\ frames[rd[r].frame].page \in Page
        BY <1>t, <1>7 DEF Scan, TypeInv, ReaderPlace, ReaderType, Touched, Use, FrameType
    <2>3. Same /\ Pool
        BY <1>7, <2>2 DEF Scan, Step
    <2>4. V \in ReaderType
        BY <1>t, <2>2, Count DEF ReaderType, ReadPlaces, Touched
    <2>5. ReaderPlace(r)' /\ (V.pc = "idle" \/ todo' = todo)
        BY <1>t, <1>7, <2>1, <2>2 DEF ReaderPlace, ReaderType, Touched, Scan, Step
    <2>6. Todo
        BY <1>t, <1>7, <2>1 DEF Scan, TypeInv, Step
    <2> HIDE DEF V
    <2>7. Own
        BY <1>t, <2>1, <2>4, <2>5
    <2> QED BY <1>0, <2>3, <2>6, <2>7
<1>8. CASE Validate(r)
    <2> DEFINE V == [rd[r] EXCEPT !.pc = IF Validates(r) THEN "accepted" ELSE "exit"]
    <2>1. rd' = [rd EXCEPT ![r] = V]
        BY <1>8 DEF Validate, Step
    <2>2. rd[r].frame \in Frames
        BY <1>t, <1>8 DEF Validate, TypeInv, ReaderPlace, ReaderType, Touched, Use, FrameType
    <2>3. Same /\ Pool
        BY <1>8, <2>2 DEF Validate, Step
    <2>4. V \in ReaderType
        BY <1>t, <2>2, Count DEF ReaderType, ReadPlaces, Touched
    <2>5. ReaderPlace(r)' /\ (V.pc = "idle" \/ todo' = todo)
        BY <1>t, <1>8, <2>1, <2>2 DEF ReaderPlace, ReaderType, Touched, Validate, Step
    <2>6. Todo
        BY <1>t, <1>8, <2>1 DEF Validate, TypeInv, Step
    <2> HIDE DEF V
    <2>7. Own
        BY <1>t, <2>1, <2>4, <2>5
    <2> QED BY <1>0, <2>3, <2>6, <2>7
<1>9. CASE Exit(r)
    <2> DEFINE V == IdleReader
    <2>1. rd' = [rd EXCEPT ![r] = V]
        BY <1>9 DEF Exit, Step
        <2>3. Same /\ Pool
        BY <1>9 DEF Exit, Step
    <2>4. V \in ReaderType
        BY <1>t, Count DEF ReaderType, ReadPlaces, Touched, IdleReader, NewPage, Page, Inactive
    <2>5. ReaderPlace(r)' /\ (V.pc = "idle" \/ todo' = todo)
        BY <1>t, <1>9, <2>1 DEF ReaderPlace, ReaderType, Touched, Exit, Step, IdleReader
    <2>6. Todo
        BY <1>t, <1>9, <2>1 DEF Exit, TypeInv, Step, IdleReader
    <2> HIDE DEF V
    <2>7. Own
        BY <1>t, <2>1, <2>4, <2>5
    <2> QED BY <1>0, <2>3, <2>6, <2>7
<1> QED BY <1>1, <1>2, <1>3, <1>4, <1>5, <1>6, <1>7, <1>8, <1>9 DEF Read

LEMMA ReaderPlaces ==
    ASSUME PlaceInv, NEW r \in Readers, Read(r)
    PROVE  PlaceInv'
<1>1. TypeInv
    BY DEF PlaceInv
<1>2. /\ TypeInv' /\ UNCHANGED <<wr, table, free, clock, disk, use>>
      /\ \A f \in Frames : frames'[f].block = frames[f].block /\ frames'[f].pin = frames[f].pin
    BY <1>1, ReaderTypes
<1>3. \A b \in Blocks : Mapped(b)'
    BY <1>2 DEF PlaceInv, Mapped
<1>4. \A f \in Frames : Evictable(f)' /\ Resident(f)' /\ Counts(f)'
    BY <1>2 DEF PlaceInv, Evictable, Resident, Counts
<1>5. Free'
    <2>1. \A i \in 1 .. Len(free) : free[i] \in Frames
        BY <1>1 DEF TypeInv
    <2> QED BY <1>2, <2>1 DEF PlaceInv, Free
<1>6. ASSUME NEW w \in Writers PROVE Pinned(w)' /\ WriterPlace(w)'
    <2>1. Pinned(w) /\ WriterPlace(w) /\ table \in [Blocks -> Frames \cup {NoBlock}]
        BY <1>1 DEF PlaceInv, TypeInv
    <2>3. wr[w] \in WriterType
        BY <1>1 DEF TypeInv
    <2>2. Pinned(w)'
        BY <1>2, <2>1, <2>3, Count DEF Pinned, WriterType
    <2>4. WriterPlace(w)'
        BY <1>2, <2>1 DEF WriterPlace, Evicting, Filling, Searching
    <2> QED BY <2>2, <2>4
<1> QED BY <1>2, <1>3, <1>4, <1>5, <1>6 DEF PlaceInv

LEMMA InitPlaces ==
    ASSUME Init
    PROVE  PlaceInv
<1> DEFINE T == [use |-> 1, n |-> 1, header |-> 1]
<1>1. frames \in [Frames -> FrameType]
    BY DEF Init, Frame, FrameType, NewPage, Page
<1>2. table \in [Blocks -> Frames \cup {NoBlock}] /\ epoch \in Nat
    BY DEF Init
<1>3. free \in Seq(Frames) /\ Len(free) = N /\ \A i \in 1 .. N : free[i] = i
    BY Count DEF Init
<1>4. clock \in [hand : Int, ref : SUBSET Int, evictable : SUBSET Frames]
    BY DEF Init
<1>5. disk \in [Blocks -> Page \cup {NoBlock}]
    BY DEF Init, Page
<1>6. IdleWriter \in WriterType
    BY DEF IdleWriter, WriterType, Places
<1>7. IdleReader \in ReaderType
    BY DEF IdleReader, ReaderType, ReadPlaces, NewPage, Page
<1>8. wr = [w \in Writers |-> IdleWriter] /\ rd = [r \in Readers |-> IdleReader]
    BY DEF Init
<1>9. wr \in [Writers -> WriterType] /\ rd \in [Readers -> ReaderType]
    BY <1>6, <1>7, <1>8
<1>10. /\ \A w \in Writers : /\ wr[w].pc = "idle" /\ wr[w].wrote = {} /\ ~wr[w].new
                             /\ \A b \in Blocks : wr[w].pins[b] = NoFrame
       /\ \A r \in Readers : rd[r].pc = "idle"
    BY <1>8 DEF IdleWriter, IdleReader
<1>11. use \in [Blocks -> Use]
    BY DEF Init, Use
<1>12. /\ DOMAIN todo = Writers \cup Readers
       /\ \A w \in Writers : todo[w] \in Seq([op : Operations, block : Blocks])
       /\ \A r \in Readers : todo[r] \in Seq(Blocks)
    <2> DEFINE C == Seq([op : Operations, block : Blocks])
               R == Seq(Blocks)
    <2>1. PICK s \in Setups : todo = [p \in Writers \cup Readers |-> IF p \in Writers THEN s.calls[p] ELSE s.reads[p]]
        BY DEF Init
    <2>2. Setups \subseteq [calls : [Writers -> C], reads : [Readers -> R]] /\ Writers \cap Readers = {}
        BY BufferAssumption
    <2> HIDE DEF C, R
    <2>3. s.calls \in [Writers -> C] /\ s.reads \in [Readers -> R]
        BY <2>2
    <2>4. DOMAIN todo = Writers \cup Readers
        BY <2>1
    <2>5. \A w \in Writers : todo[w] \in C
        BY <2>1, <2>3
    <2>6. \A r \in Readers : todo[r] \in R
        BY <2>1, <2>2, <2>3
    <2> QED BY <2>4, <2>5, <2>6 DEF C, R
<1>13. TypeInv
    BY <1>1, <1>2, <1>3, <1>4, <1>5, <1>9, <1>10, <1>11, <1>12 DEF TypeInv, ReaderPlace, Touched
<1>14. /\ \A f \in Frames : frames[f].block = NoBlock /\ frames[f].pin = 0
       /\ \A b \in Blocks : table[b] = NoBlock
       /\ clock.evictable = {}
    BY DEF Init, Frame
<1>15. \A b \in Blocks : Mapped(b)
    BY <1>14, BufferAssumption DEF Mapped
<1>16. \A f \in Frames : Evictable(f) /\ Resident(f) /\ Counts(f)
    BY <1>14, BufferAssumption DEF Evictable, Resident, Counts
<1>17. Free
    BY <1>3, <1>14, Count DEF Free
<1>18. \A w \in Writers : Pinned(w) /\ WriterPlace(w)
    BY <1>10 DEF Pinned, WriterPlace, Searching, Evicting, Filling
<1> QED BY <1>13, <1>15, <1>16, <1>17, <1>18 DEF PlaceInv

LEMMA PlaceStutters ==
    ASSUME PlaceInv, UNCHANGED vars
    PROVE  PlaceInv'
<1>1. TypeInv'
    BY DEF PlaceInv, TypeInv, ReaderPlace, vars
<1>2. (\A b \in Blocks : Mapped(b)') /\ (\A f \in Frames : Evictable(f)' /\ Resident(f)' /\ Counts(f)') /\ Free'
    BY DEF PlaceInv, Mapped, Evictable, Resident, Counts, Free, vars
<1>3. \A w \in Writers : Pinned(w)' /\ WriterPlace(w)'
    BY DEF PlaceInv, Pinned, WriterPlace, vars
<1> QED BY <1>1, <1>2, <1>3 DEF PlaceInv

LEMMA PlaceStep ==
    ASSUME SingleWriter, PlaceInv, [Next]_vars
    PROVE  PlaceInv'
BY WriterPlaces, ReaderPlaces, PlaceStutters DEF Next, Done

-----------------------------------------------------------------------------
(* The contents of frames and of the file: every step keeps DataInv.        *)

LEMMA DataFacts ==
    ASSUME PlaceInv, NEW w \in Writers
    PROVE  /\ \A b \in Blocks : table[b] \in Frames \cup {NoBlock} /\ wr[w].pins[b] \in Frames \cup {NoFrame}
           /\ \A f \in Frames : frames[f].block \in Blocks \cup {NoBlock} /\ frames[f].dirty \in BOOLEAN
           /\ \A f \in Frames : frames[f].page \in Page /\ frames[f].page.use \in Nat /\ frames[f].page.n \in Nat
                                /\ frames[f].len \in Nat
           /\ \A b \in Blocks : use[b] \in Use /\ use[b].uses \in Nat /\ use[b].n \in Nat
           /\ wr[w].new \in BOOLEAN /\ wr[w].wrote \in SUBSET Blocks
           /\ NoFrame \notin Frames /\ NoBlock \notin Frames /\ NoBlock \notin Blocks
<1>1. TypeInv
    BY DEF PlaceInv
<1>2. wr[w] \in WriterType /\ (\A f \in Frames : frames[f] \in FrameType) /\ (\A b \in Blocks : use[b] \in Use)
    BY <1>1 DEF TypeInv
<1>3. \A f \in Frames : frames[f].page \in Page /\ frames[f].len \in Nat /\ frames[f].dirty \in BOOLEAN
    BY <1>2 DEF FrameType
<1>4. \A f \in Frames : frames[f].page.use \in Nat /\ frames[f].page.n \in Nat
    BY <1>3 DEF Page
<1>5. \A b \in Blocks : use[b].uses \in Nat /\ use[b].n \in Nat
    BY <1>2 DEF Use
<1>6. wr[w].new \in BOOLEAN
    BY <1>2 DEF WriterType
<1> QED BY <1>2, <1>3, <1>4, <1>5, <1>6, PlaceFacts

(* The one writer is all there is to Extra and Wrote.                       *)
LEMMA OneWriter ==
    ASSUME SingleWriter, NEW w \in Writers, NEW b
    PROVE  /\ Extra(b) = IF wr[w].pc = "commit" /\ wr[w].block = b THEN 1 ELSE 0
           /\ Wrote(b) <=> b \in wr[w].wrote
<1>1. \A v \in Writers : v = w
    BY DEF SingleWriter
<1>2. (\E v \in Writers : wr[v].pc = "commit" /\ wr[v].block = b) <=> (wr[w].pc = "commit" /\ wr[w].block = b)
    BY <1>1
<1>3. Wrote(b) <=> b \in wr[w].wrote
    BY <1>1 DEF Wrote
<1> QED BY <1>2, <1>3 DEF Extra

LEMMA OneWriterNext ==
    ASSUME SingleWriter, NEW w \in Writers, NEW b
    PROVE  /\ Extra(b)' = IF wr'[w].pc = "commit" /\ wr'[w].block = b THEN 1 ELSE 0
           /\ Wrote(b)' <=> b \in wr'[w].wrote
<1>1. \A v \in Writers : v = w
    BY DEF SingleWriter
<1>2. (\E v \in Writers : wr'[v].pc = "commit" /\ wr'[v].block = b) <=> (wr'[w].pc = "commit" /\ wr'[w].block = b)
    BY <1>1
<1>3. Wrote(b)' <=> b \in wr'[w].wrote
    BY <1>1 DEF Wrote
<1> QED BY <1>2, <1>3 DEF Extra

LEMMA DataSuffices ==
    ASSUME SingleWriter, NEW w \in Writers, \A b \in Blocks : Stores(b)', WriterData(w)'
    PROVE  DataInv'
BY DEF SingleWriter, DataInv

LEMMA FetchPageData ==
    ASSUME SingleWriter, PlaceInv, DataInv, NEW w \in Writers, FetchPage(w)
    PROVE  DataInv'
<1>1. (\A b \in Blocks : Mapped(b)) /\ Pinned(w) /\ WriterPlace(w) /\ WriterData(w)
    BY DEF PlaceInv, DataInv
<1>2. \A b \in Blocks : /\ Stores(b) /\ (Wrote(b) <=> b \in wr[w].wrote)
                       /\ Extra(b) = IF wr[w].pc = "commit" /\ wr[w].block = b THEN 1 ELSE 0
    BY OneWriter DEF DataInv
<1>e. /\ wr[w].pc = "idle" /\ On(w) \in Blocks
      /\ wr'[w].pc = "get" /\ wr'[w].block = On(w) /\ wr'[w].new = FALSE
      /\ wr'[w].frame = wr[w].frame /\ wr'[w].wrote = wr[w].wrote
      /\ frames' = frames /\ table' = table /\ disk' = disk /\ use' = use
    BY FetchPageEffect, DataFacts DEF Page, Use, Synced, NewPage
<1>3. ASSUME NEW b \in Blocks PROVE Stores(b)'
    <2>1. /\ Stores(b) /\ (Wrote(b) <=> b \in wr[w].wrote)
          /\ Extra(b) = IF wr[w].pc = "commit" /\ wr[w].block = b THEN 1 ELSE 0
        BY <1>2
    <2>2. /\ Wrote(b)' <=> b \in wr'[w].wrote
          /\ Extra(b)' = IF wr'[w].pc = "commit" /\ wr'[w].block = b THEN 1 ELSE 0
        BY OneWriterNext
    <2> QED BY <1>1, <1>e, <2>1, <2>2, DataFacts
            DEF Stores, Kept, Holds, OnDisk, Mapped, Pinned, WriterData, WriterPlace, Evicting, Filling, Searching
<1>4. WriterData(w)'
    BY <1>1, <1>2, <1>e, DataFacts
    DEF WriterData, Stores, Kept, Holds, OnDisk, WriterPlace, Mapped, Pinned, Evicting, Filling, Searching
<1> QED BY <1>3, <1>4, DataSuffices

LEMMA AllocNewPageData ==
    ASSUME SingleWriter, PlaceInv, DataInv, NEW w \in Writers, AllocNewPage(w)
    PROVE  DataInv'
<1>1. (\A b \in Blocks : Mapped(b)) /\ Pinned(w) /\ WriterPlace(w) /\ WriterData(w)
    BY DEF PlaceInv, DataInv
<1>2. \A b \in Blocks : /\ Stores(b) /\ (Wrote(b) <=> b \in wr[w].wrote)
                       /\ Extra(b) = IF wr[w].pc = "commit" /\ wr[w].block = b THEN 1 ELSE 0
    BY OneWriter DEF DataInv
<1>e. /\ wr[w].pc = "idle" /\ On(w) \in Blocks
      /\ wr'[w].pc = "entry" /\ wr'[w].block = On(w) /\ wr'[w].new = TRUE
      /\ wr'[w].frame = wr[w].frame /\ wr'[w].wrote = wr[w].wrote
      /\ use'[On(w)].state = "new" /\ use'[On(w)].uses = use[On(w)].uses + 1 /\ use'[On(w)].n = 0
      /\ \A c \in Blocks : c # On(w) => use'[c] = use[c]
      /\ frames' = frames /\ table' = table /\ disk' = disk
    <2>a. use[On(w)] \in Use
        BY AllocNewPageEffect, DataFacts
    <2>1. wr[w].pc = "idle" /\ On(w) \in Blocks
        BY AllocNewPageEffect, DataFacts, <2>a
    <2>2. wr'[w].pc = "entry" /\ wr'[w].block = On(w) /\ wr'[w].new = TRUE
        BY AllocNewPageEffect, DataFacts, <2>a
    <2>3. wr'[w].frame = wr[w].frame /\ wr'[w].wrote = wr[w].wrote
        BY AllocNewPageEffect, DataFacts, <2>a
    <2>4. use'[On(w)].state = "new" /\ use'[On(w)].uses = use[On(w)].uses + 1 /\ use'[On(w)].n = 0
        <3>1. use'[On(w)] = [state |-> "new", uses |-> use[On(w)].uses + 1, n |-> 0]
            BY AllocNewPageEffect
        <3> QED BY <2>a, <3>1 DEF Use
    <2>5. \A c \in Blocks : c # On(w) => use'[c] = use[c]
        BY AllocNewPageEffect, DataFacts, <2>a
    <2>6. frames' = frames /\ table' = table /\ disk' = disk
        BY AllocNewPageEffect, DataFacts, <2>a
    <2> QED BY <2>1, <2>2, <2>3, <2>4, <2>5, <2>6
<1>3. ASSUME NEW b \in Blocks PROVE Stores(b)'
    <2>1. /\ Stores(b) /\ (Wrote(b) <=> b \in wr[w].wrote)
          /\ Extra(b) = IF wr[w].pc = "commit" /\ wr[w].block = b THEN 1 ELSE 0
        BY <1>2
    <2>2. /\ Wrote(b)' <=> b \in wr'[w].wrote
          /\ Extra(b)' = IF wr'[w].pc = "commit" /\ wr'[w].block = b THEN 1 ELSE 0
        BY OneWriterNext
    <2> QED BY <1>1, <1>e, <2>1, <2>2, DataFacts
            DEF Stores, Kept, Holds, OnDisk, Mapped, Pinned, WriterData, WriterPlace, Evicting, Filling, Searching
<1>4. WriterData(w)'
    BY <1>1, <1>2, <1>e, DataFacts
    DEF WriterData, Stores, Kept, Holds, OnDisk, WriterPlace, Mapped, Pinned, Evicting, Filling, Searching
<1> QED BY <1>3, <1>4, DataSuffices

LEMMA HitData ==
    ASSUME SingleWriter, PlaceInv, DataInv, NEW w \in Writers, Hit(w)
    PROVE  DataInv'
<1>1. (\A b \in Blocks : Mapped(b)) /\ Pinned(w) /\ WriterPlace(w) /\ WriterData(w)
    BY DEF PlaceInv, DataInv
<1>2. \A b \in Blocks : /\ Stores(b) /\ (Wrote(b) <=> b \in wr[w].wrote)
                       /\ Extra(b) = IF wr[w].pc = "commit" /\ wr[w].block = b THEN 1 ELSE 0
    BY OneWriter DEF DataInv
<1>e. /\ wr[w].pc \in {"get", "entry"} /\ ~wr[w].new /\ wr[w].block \in Blocks /\ table[wr[w].block] \in Frames
      /\ wr'[w].pc = "idle" /\ wr'[w].block = NoBlock /\ wr'[w].new = FALSE
      /\ wr'[w].frame = NoFrame /\ wr'[w].wrote = wr[w].wrote
      /\ \A g \in Frames : g # table[wr[w].block] => frames'[g] = frames[g]
      /\ frames'[table[wr[w].block]].block = frames[table[wr[w].block]].block /\ frames'[table[wr[w].block]].dirty = frames[table[wr[w].block]].dirty
      /\ frames'[table[wr[w].block]].page.use = frames[table[wr[w].block]].page.use /\ frames'[table[wr[w].block]].page.n = frames[table[wr[w].block]].page.n
      /\ frames'[table[wr[w].block]].len = frames[table[wr[w].block]].len
      /\ \A c \in Blocks : use'[c] = use[c]
      /\ table' = table /\ disk' = disk
    BY HitEffect, DataFacts DEF Page, Use, Synced, NewPage
<1>3. ASSUME NEW b \in Blocks PROVE Stores(b)'
    <2>1. /\ Stores(b) /\ (Wrote(b) <=> b \in wr[w].wrote)
          /\ Extra(b) = IF wr[w].pc = "commit" /\ wr[w].block = b THEN 1 ELSE 0
        BY <1>2
    <2>2. /\ Wrote(b)' <=> b \in wr'[w].wrote
          /\ Extra(b)' = IF wr'[w].pc = "commit" /\ wr'[w].block = b THEN 1 ELSE 0
        BY OneWriterNext
    <2>3. table[b] \in Frames =>
              /\ frames'[table[b]].page.use = frames[table[b]].page.use /\ frames'[table[b]].page.n = frames[table[b]].page.n
              /\ frames'[table[b]].len = frames[table[b]].len /\ frames'[table[b]].dirty = frames[table[b]].dirty
        BY <1>e
    <2>4. Extra(b)' = Extra(b) /\ (Wrote(b)' <=> Wrote(b)) /\ use'[b] = use[b] /\ table' = table /\ disk' = disk
        BY <1>e, <2>1, <2>2
    <2> QED BY <2>1, <2>3, <2>4, DataFacts DEF Stores, Kept, Holds, OnDisk
<1>4. WriterData(w)'
    BY <1>1, <1>2, <1>e, DataFacts
    DEF WriterData, Stores, Kept, Holds, OnDisk, WriterPlace, Mapped, Pinned, Evicting, Filling, Searching
<1> QED BY <1>3, <1>4, DataSuffices

LEMMA MissData ==
    ASSUME SingleWriter, PlaceInv, DataInv, NEW w \in Writers, Miss(w)
    PROVE  DataInv'
<1>1. (\A b \in Blocks : Mapped(b)) /\ Pinned(w) /\ WriterPlace(w) /\ WriterData(w)
    BY DEF PlaceInv, DataInv
<1>2. \A b \in Blocks : /\ Stores(b) /\ (Wrote(b) <=> b \in wr[w].wrote)
                       /\ Extra(b) = IF wr[w].pc = "commit" /\ wr[w].block = b THEN 1 ELSE 0
    BY OneWriter DEF DataInv
<1>e. /\ wr[w].pc = "get" /\ wr[w].block \in Blocks
      /\ wr'[w].pc = "entry" /\ wr'[w].block = wr[w].block /\ wr'[w].new = wr[w].new
      /\ wr'[w].frame = wr[w].frame /\ wr'[w].wrote = wr[w].wrote
      /\ frames' = frames /\ table' = table /\ disk' = disk /\ use' = use
    BY MissEffect, DataFacts DEF Page, Use, Synced, NewPage
<1>3. ASSUME NEW b \in Blocks PROVE Stores(b)'
    <2>1. /\ Stores(b) /\ (Wrote(b) <=> b \in wr[w].wrote)
          /\ Extra(b) = IF wr[w].pc = "commit" /\ wr[w].block = b THEN 1 ELSE 0
        BY <1>2
    <2>2. /\ Wrote(b)' <=> b \in wr'[w].wrote
          /\ Extra(b)' = IF wr'[w].pc = "commit" /\ wr'[w].block = b THEN 1 ELSE 0
        BY OneWriterNext
    <2> QED BY <1>1, <1>e, <2>1, <2>2, DataFacts
            DEF Stores, Kept, Holds, OnDisk, Mapped, Pinned, WriterData, WriterPlace, Evicting, Filling, Searching
<1>4. WriterData(w)'
    BY <1>1, <1>2, <1>e, DataFacts
    DEF WriterData, Stores, Kept, Holds, OnDisk, WriterPlace, Mapped, Pinned, Evicting, Filling, Searching
<1> QED BY <1>3, <1>4, DataSuffices

LEMMA ReinitData ==
    ASSUME SingleWriter, PlaceInv, DataInv, NEW w \in Writers, Reinit(w)
    PROVE  DataInv'
<1>1. (\A b \in Blocks : Mapped(b)) /\ Pinned(w) /\ WriterPlace(w) /\ WriterData(w)
    BY DEF PlaceInv, DataInv
<1>2. \A b \in Blocks : /\ Stores(b) /\ (Wrote(b) <=> b \in wr[w].wrote)
                       /\ Extra(b) = IF wr[w].pc = "commit" /\ wr[w].block = b THEN 1 ELSE 0
    BY OneWriter DEF DataInv
<1>e. /\ wr[w].pc = "entry" /\ wr[w].new /\ wr[w].block \in Blocks /\ table[wr[w].block] \in Frames
      /\ wr'[w].pc = "idle" /\ wr'[w].block = NoBlock /\ wr'[w].new = FALSE
      /\ wr'[w].frame = NoFrame /\ wr'[w].wrote = wr[w].wrote \cup {wr[w].block}
      /\ \A g \in Frames : g # table[wr[w].block] => frames'[g] = frames[g]
      /\ frames'[table[wr[w].block]].block = frames[table[wr[w].block]].block /\ frames'[table[wr[w].block]].dirty = TRUE
      /\ frames'[table[wr[w].block]].page.use = use[wr[w].block].uses /\ frames'[table[wr[w].block]].page.n = 0
      /\ frames'[table[wr[w].block]].len = 0
      /\ use'[wr[w].block].state = "live" /\ use'[wr[w].block].uses = use[wr[w].block].uses /\ use'[wr[w].block].n = use[wr[w].block].n
      /\ \A c \in Blocks : c # wr[w].block => use'[c] = use[c]
      /\ table' = table /\ disk' = disk
    <2>a. use[wr[w].block] \in Use /\ frames[table[wr[w].block]].page \in Page
        BY ReinitEffect, DataFacts
    <2>1. wr[w].pc = "entry" /\ wr[w].new /\ wr[w].block \in Blocks /\ table[wr[w].block] \in Frames
        BY ReinitEffect, DataFacts, <2>a
    <2>2. wr'[w].pc = "idle" /\ wr'[w].block = NoBlock /\ wr'[w].new = FALSE
        BY ReinitEffect, DataFacts, <2>a
    <2>3. wr'[w].frame = NoFrame /\ wr'[w].wrote = wr[w].wrote \cup {wr[w].block}
        BY ReinitEffect, DataFacts, <2>a
    <2>4. \A g \in Frames : g # table[wr[w].block] => frames'[g] = frames[g]
        BY ReinitEffect, DataFacts, <2>a
    <2>5. frames'[table[wr[w].block]].block = frames[table[wr[w].block]].block /\ frames'[table[wr[w].block]].dirty = TRUE
        BY ReinitEffect, DataFacts, <2>a
    <2>6. frames'[table[wr[w].block]].page.use = use[wr[w].block].uses /\ frames'[table[wr[w].block]].page.n = 0
        <3>1. frames'[table[wr[w].block]].page = NewPage(use[wr[w].block].uses)
            BY ReinitEffect
        <3> QED BY <2>a, <3>1 DEF Page, Synced, NewPage
    <2>7. frames'[table[wr[w].block]].len = 0
        BY ReinitEffect, DataFacts, <2>a
    <2>8. use'[wr[w].block].state = "live" /\ use'[wr[w].block].uses = use[wr[w].block].uses /\ use'[wr[w].block].n = use[wr[w].block].n
        <3>1. use'[wr[w].block] = [use[wr[w].block] EXCEPT !.state = "live"]
            BY ReinitEffect
        <3> QED BY <2>a, <3>1 DEF Use
    <2>9. \A c \in Blocks : c # wr[w].block => use'[c] = use[c]
        BY ReinitEffect, DataFacts, <2>a
    <2>10. table' = table /\ disk' = disk
        BY ReinitEffect, DataFacts, <2>a
    <2> QED BY <2>1, <2>2, <2>3, <2>4, <2>5, <2>6, <2>7, <2>8, <2>9, <2>10
<1>3. ASSUME NEW b \in Blocks PROVE Stores(b)'
    <2>1. /\ Stores(b) /\ (Wrote(b) <=> b \in wr[w].wrote)
          /\ Extra(b) = IF wr[w].pc = "commit" /\ wr[w].block = b THEN 1 ELSE 0
        BY <1>2
    <2>2. /\ Wrote(b)' <=> b \in wr'[w].wrote
          /\ Extra(b)' = IF wr'[w].pc = "commit" /\ wr'[w].block = b THEN 1 ELSE 0
        BY OneWriterNext
    <2> QED BY SMTT(60), <1>1, <1>e, <2>1, <2>2, DataFacts
            DEF Stores, Kept, Holds, OnDisk, Mapped, Pinned, WriterData, WriterPlace, Evicting, Filling, Searching
<1>4. WriterData(w)'
    BY <1>1, <1>2, <1>e, DataFacts
    DEF WriterData, Stores, Kept, Holds, OnDisk, WriterPlace, Mapped, Pinned, Evicting, Filling, Searching
<1> QED BY <1>3, <1>4, DataSuffices

LEMMA VacantData ==
    ASSUME SingleWriter, PlaceInv, DataInv, NEW w \in Writers, Vacant(w)
    PROVE  DataInv'
<1>1. (\A b \in Blocks : Mapped(b)) /\ Pinned(w) /\ WriterPlace(w) /\ WriterData(w)
    BY DEF PlaceInv, DataInv
<1>2. \A b \in Blocks : /\ Stores(b) /\ (Wrote(b) <=> b \in wr[w].wrote)
                       /\ Extra(b) = IF wr[w].pc = "commit" /\ wr[w].block = b THEN 1 ELSE 0
    BY OneWriter DEF DataInv
<1>e. /\ wr[w].pc = "entry" /\ wr[w].block \in Blocks /\ table[wr[w].block] = NoBlock
      /\ wr'[w].pc = "alloc" /\ wr'[w].block = wr[w].block /\ wr'[w].new = wr[w].new
      /\ wr'[w].frame = wr[w].frame /\ wr'[w].wrote = wr[w].wrote
      /\ frames' = frames /\ table' = table /\ disk' = disk /\ use' = use
    BY VacantEffect, DataFacts DEF Page, Use, Synced, NewPage
<1>3. ASSUME NEW b \in Blocks PROVE Stores(b)'
    <2>1. /\ Stores(b) /\ (Wrote(b) <=> b \in wr[w].wrote)
          /\ Extra(b) = IF wr[w].pc = "commit" /\ wr[w].block = b THEN 1 ELSE 0
        BY <1>2
    <2>2. /\ Wrote(b)' <=> b \in wr'[w].wrote
          /\ Extra(b)' = IF wr'[w].pc = "commit" /\ wr'[w].block = b THEN 1 ELSE 0
        BY OneWriterNext
    <2> QED BY <1>1, <1>e, <2>1, <2>2, DataFacts
            DEF Stores, Kept, Holds, OnDisk, Mapped, Pinned, WriterData, WriterPlace, Evicting, Filling, Searching
<1>4. WriterData(w)'
    BY <1>1, <1>2, <1>e, DataFacts
    DEF WriterData, Stores, Kept, Holds, OnDisk, WriterPlace, Mapped, Pinned, Evicting, Filling, Searching
<1> QED BY <1>3, <1>4, DataSuffices

LEMMA TakeFreeData ==
    ASSUME SingleWriter, PlaceInv, DataInv, NEW w \in Writers, TakeFree(w)
    PROVE  DataInv'
<1>1. (\A b \in Blocks : Mapped(b)) /\ Pinned(w) /\ WriterPlace(w) /\ WriterData(w)
    BY DEF PlaceInv, DataInv
<1>2. \A b \in Blocks : /\ Stores(b) /\ (Wrote(b) <=> b \in wr[w].wrote)
                       /\ Extra(b) = IF wr[w].pc = "commit" /\ wr[w].block = b THEN 1 ELSE 0
    BY OneWriter DEF DataInv
<1>e. /\ wr[w].pc = "alloc" /\ wr[w].block \in Blocks /\ free # <<>>
      /\ wr'[w].pc = "load" /\ wr'[w].block = wr[w].block /\ wr'[w].new = wr[w].new
      /\ wr'[w].frame = Head(free) /\ wr'[w].wrote = wr[w].wrote
      /\ frames' = frames /\ table' = table /\ disk' = disk /\ use' = use
    BY TakeFreeEffect, DataFacts DEF Page, Use, Synced, NewPage
<1>3. ASSUME NEW b \in Blocks PROVE Stores(b)'
    <2>1. /\ Stores(b) /\ (Wrote(b) <=> b \in wr[w].wrote)
          /\ Extra(b) = IF wr[w].pc = "commit" /\ wr[w].block = b THEN 1 ELSE 0
        BY <1>2
    <2>2. /\ Wrote(b)' <=> b \in wr'[w].wrote
          /\ Extra(b)' = IF wr'[w].pc = "commit" /\ wr'[w].block = b THEN 1 ELSE 0
        BY OneWriterNext
    <2> QED BY <1>1, <1>e, <2>1, <2>2, DataFacts
            DEF Stores, Kept, Holds, OnDisk, Mapped, Pinned, WriterData, WriterPlace, Evicting, Filling, Searching
<1>4. WriterData(w)'
    BY <1>1, <1>2, <1>e, DataFacts
    DEF WriterData, Stores, Kept, Holds, OnDisk, WriterPlace, Mapped, Pinned, Evicting, Filling, Searching
<1> QED BY <1>3, <1>4, DataSuffices

LEMMA CandidateData ==
    ASSUME SingleWriter, PlaceInv, DataInv, NEW w \in Writers, Candidate(w)
    PROVE  DataInv'
<1>1. (\A b \in Blocks : Mapped(b)) /\ Pinned(w) /\ WriterPlace(w) /\ WriterData(w)
    BY DEF PlaceInv, DataInv
<1>2. \A b \in Blocks : /\ Stores(b) /\ (Wrote(b) <=> b \in wr[w].wrote)
                       /\ Extra(b) = IF wr[w].pc = "commit" /\ wr[w].block = b THEN 1 ELSE 0
    BY OneWriter DEF DataInv
<1>e. /\ wr[w].pc = "alloc" /\ wr[w].block \in Blocks
      /\ wr'[w].pc \in {"alloc", "none", "flush"}
      /\ wr'[w].block = wr[w].block /\ wr'[w].new = wr[w].new /\ wr'[w].wrote = wr[w].wrote
      /\ frames' = frames /\ table' = table /\ disk' = disk /\ use' = use
    BY CandidateEffect, DataFacts DEF Page, Use, Synced, NewPage
<1>3. ASSUME NEW b \in Blocks PROVE Stores(b)'
    <2>1. /\ Stores(b) /\ (Wrote(b) <=> b \in wr[w].wrote)
          /\ Extra(b) = IF wr[w].pc = "commit" /\ wr[w].block = b THEN 1 ELSE 0
        BY <1>2
    <2>2. /\ Wrote(b)' <=> b \in wr'[w].wrote
          /\ Extra(b)' = IF wr'[w].pc = "commit" /\ wr'[w].block = b THEN 1 ELSE 0
        BY OneWriterNext
    <2> QED BY <1>1, <1>e, <2>1, <2>2, DataFacts
            DEF Stores, Kept, Holds, OnDisk, Mapped, Pinned, WriterData, WriterPlace, Evicting, Filling, Searching
<1>4. WriterData(w)'
    BY <1>1, <1>2, <1>e, DataFacts
    DEF WriterData, Stores, Kept, Holds, OnDisk, WriterPlace, Mapped, Pinned, Evicting, Filling, Searching
<1> QED BY <1>3, <1>4, DataSuffices

LEMMA GiveUpData ==
    ASSUME SingleWriter, PlaceInv, DataInv, NEW w \in Writers, GiveUp(w)
    PROVE  DataInv'
<1>1. (\A b \in Blocks : Mapped(b)) /\ Pinned(w) /\ WriterPlace(w) /\ WriterData(w)
    BY DEF PlaceInv, DataInv
<1>2. \A b \in Blocks : /\ Stores(b) /\ (Wrote(b) <=> b \in wr[w].wrote)
                       /\ Extra(b) = IF wr[w].pc = "commit" /\ wr[w].block = b THEN 1 ELSE 0
    BY OneWriter DEF DataInv
<1>e. /\ wr[w].pc = "none" /\ wr[w].block \in Blocks
      /\ wr'[w].pc = "idle" /\ wr'[w].block = NoBlock /\ wr'[w].new = FALSE
      /\ wr'[w].frame = NoFrame /\ wr'[w].wrote = wr[w].wrote
      /\ use'[wr[w].block].state = (IF wr[w].new THEN "unused" ELSE use[wr[w].block].state) /\ use'[wr[w].block].uses = use[wr[w].block].uses /\ use'[wr[w].block].n = use[wr[w].block].n
      /\ \A c \in Blocks : c # wr[w].block => use'[c] = use[c]
      /\ frames' = frames /\ table' = table /\ disk' = disk
    <2>a. use[wr[w].block] \in Use
        BY GiveUpEffect, DataFacts
    <2>1. wr[w].pc = "none" /\ wr[w].block \in Blocks
        BY GiveUpEffect, DataFacts, <2>a
    <2>2. wr'[w].pc = "idle" /\ wr'[w].block = NoBlock /\ wr'[w].new = FALSE
        BY GiveUpEffect, DataFacts, <2>a
    <2>3. wr'[w].frame = NoFrame /\ wr'[w].wrote = wr[w].wrote
        BY GiveUpEffect, DataFacts, <2>a
    <2>4. use'[wr[w].block].state = (IF wr[w].new THEN "unused" ELSE use[wr[w].block].state) /\ use'[wr[w].block].uses = use[wr[w].block].uses /\ use'[wr[w].block].n = use[wr[w].block].n
        <3>1. use'[wr[w].block] = [use[wr[w].block] EXCEPT !.state = IF wr[w].new THEN "unused" ELSE use[wr[w].block].state]
            BY GiveUpEffect
        <3> QED BY <2>a, <3>1 DEF Use
    <2>5. \A c \in Blocks : c # wr[w].block => use'[c] = use[c]
        BY GiveUpEffect, DataFacts, <2>a
    <2>6. frames' = frames /\ table' = table /\ disk' = disk
        BY GiveUpEffect, DataFacts, <2>a
    <2> QED BY <2>1, <2>2, <2>3, <2>4, <2>5, <2>6
<1>3. ASSUME NEW b \in Blocks PROVE Stores(b)'
    <2>1. /\ Stores(b) /\ (Wrote(b) <=> b \in wr[w].wrote)
          /\ Extra(b) = IF wr[w].pc = "commit" /\ wr[w].block = b THEN 1 ELSE 0
        BY <1>2
    <2>2. /\ Wrote(b)' <=> b \in wr'[w].wrote
          /\ Extra(b)' = IF wr'[w].pc = "commit" /\ wr'[w].block = b THEN 1 ELSE 0
        BY OneWriterNext
    <2> QED BY <1>1, <1>e, <2>1, <2>2, DataFacts
            DEF Stores, Kept, Holds, OnDisk, Mapped, Pinned, WriterData, WriterPlace, Evicting, Filling, Searching
<1>4. WriterData(w)'
    BY <1>1, <1>2, <1>e, DataFacts
    DEF WriterData, Stores, Kept, Holds, OnDisk, WriterPlace, Mapped, Pinned, Evicting, Filling, Searching
<1> QED BY <1>3, <1>4, DataSuffices

LEMMA FlushVictimData ==
    ASSUME SingleWriter, PlaceInv, DataInv, NEW w \in Writers, FlushVictim(w)
    PROVE  DataInv'
<1>1. (\A b \in Blocks : Mapped(b)) /\ Pinned(w) /\ WriterPlace(w) /\ WriterData(w)
    BY DEF PlaceInv, DataInv
<1>2. \A b \in Blocks : /\ Stores(b) /\ (Wrote(b) <=> b \in wr[w].wrote)
                       /\ Extra(b) = IF wr[w].pc = "commit" /\ wr[w].block = b THEN 1 ELSE 0
    BY OneWriter DEF DataInv
<1>e. /\ wr[w].pc = "flush" /\ wr[w].frame \in Frames /\ frames[wr[w].frame].block \in Blocks
      /\ wr'[w].pc = "remove" /\ wr'[w].block = wr[w].block /\ wr'[w].new = wr[w].new
      /\ wr'[w].frame = wr[w].frame /\ wr'[w].wrote = wr[w].wrote
      /\ \A g \in Frames : g # wr[w].frame => frames'[g] = frames[g]
      /\ frames'[wr[w].frame].block = frames[wr[w].frame].block /\ frames'[wr[w].frame].dirty = frames[wr[w].frame].dirty
      /\ frames'[wr[w].frame].page.use = frames[wr[w].frame].page.use /\ frames'[wr[w].frame].page.n = frames[wr[w].frame].page.n
      /\ frames'[wr[w].frame].len = frames[wr[w].frame].len
      /\ frames[wr[w].frame].dirty => disk'[frames[wr[w].frame].block] = Synced(wr[w].frame)
      /\ ~frames[wr[w].frame].dirty => disk'[frames[wr[w].frame].block] = disk[frames[wr[w].frame].block]
      /\ \A c \in Blocks : c # frames[wr[w].frame].block => disk'[c] = disk[c]
      /\ table' = table /\ use' = use
    <2> DEFINE f == wr[w].frame
    <2>1. /\ frames[f].page \in Page /\ frames[f].len \in Nat /\ frames[f].dirty \in BOOLEAN
          /\ frames'[f].page = IF frames[f].dirty THEN Synced(f) ELSE frames[f].page
        BY FlushVictimEffect, DataFacts
    <2>2. Synced(f).use = frames[f].page.use /\ Synced(f).n = frames[f].page.n
        BY <2>1 DEF Page, Synced
    <2>3. frames'[f].page.use = frames[f].page.use /\ frames'[f].page.n = frames[f].page.n
        BY <2>1, <2>2
    <2> QED BY <2>3, FlushVictimEffect
<1>f. Kept(frames[wr[w].frame].block) =>
        disk'[frames[wr[w].frame].block] = [use |-> use[frames[wr[w].frame].block].uses,
            n |-> use[frames[wr[w].frame].block].n, header |-> use[frames[wr[w].frame].block].n]
    <2> DEFINE f == wr[w].frame
               b == frames[wr[w].frame].block
    <2>1. b \in Blocks /\ f \in Frames /\ table[b] = f /\ frames[f].pin = 0 /\ use' = use
        BY <1>1, <1>e DEF WriterPlace, Evicting
    <2>2. Stores(b) /\ Extra(b) = 0
        BY <1>2, <1>e, <2>1
    <2>3. ~Wrote(b)
        <3>1. wr[w].pins[b] = NoFrame
            BY <1>1, <2>1, DataFacts DEF Pinned
        <3> QED BY <1>1, <1>2, <2>1, <3>1 DEF WriterPlace
    <2>4. CASE frames[f].dirty
        <3>1. disk'[b] = [frames[f].page EXCEPT !.header = frames[f].len]
            BY <1>e, <2>4 DEF Synced
        <3>2. frames[f].page \in Page
            BY <2>1, DataFacts
        <3>3. disk'[b] = [use |-> frames[f].page.use, n |-> frames[f].page.n, header |-> frames[f].len]
            BY <3>1, <3>2 DEF Page
        <3>4. Kept(b) => frames[f].page.use = use[b].uses /\ frames[f].page.n = use[b].n /\ frames[f].len = use[b].n
            BY <2>1, <2>2, DataFacts DEF Stores, Holds
        <3> QED BY <2>1, <3>3, <3>4
    <2>5. CASE ~frames[f].dirty
        <3>1. Kept(b) => OnDisk(b)
            BY <2>1, <2>2, <2>3, <2>5 DEF Stores
        <3>2. disk'[b] = disk[b]
            BY <1>e, <2>5
        <3> QED BY <2>1, <3>1, <3>2 DEF OnDisk
    <2> QED BY <2>4, <2>5
<1>3. ASSUME NEW b \in Blocks PROVE Stores(b)'
    <2>1. /\ Stores(b) /\ (Wrote(b) <=> b \in wr[w].wrote)
          /\ Extra(b) = IF wr[w].pc = "commit" /\ wr[w].block = b THEN 1 ELSE 0
        BY <1>2
    <2>2. /\ Wrote(b)' <=> b \in wr'[w].wrote
          /\ Extra(b)' = IF wr'[w].pc = "commit" /\ wr'[w].block = b THEN 1 ELSE 0
        BY OneWriterNext
    <2>3. table[b] \in Frames =>
              /\ frames'[table[b]].page.use = frames[table[b]].page.use /\ frames'[table[b]].page.n = frames[table[b]].page.n
              /\ frames'[table[b]].len = frames[table[b]].len /\ frames'[table[b]].dirty = frames[table[b]].dirty
        BY <1>e
    <2>4. Extra(b)' = Extra(b) /\ (Wrote(b)' <=> Wrote(b)) /\ use'[b] = use[b] /\ table' = table
        BY <1>e, <2>1, <2>2
    <2>5. OnDisk(b) /\ Kept(b) => OnDisk(b)'
        <3>1. CASE b = frames[wr[w].frame].block
            BY <1>e, <1>f, <2>4, <3>1 DEF OnDisk, Kept
        <3>2. CASE b # frames[wr[w].frame].block
            BY <1>e, <2>4, <3>2 DEF OnDisk
        <3> QED BY <3>1, <3>2
    <2> QED BY <2>1, <2>3, <2>4, <2>5, DataFacts DEF Stores, Kept, Holds
<1>4. WriterData(w)'
    BY <1>1, <1>e, <1>f, DataFacts DEF WriterData, Kept, OnDisk, WriterPlace, Evicting, Filling, Searching
<1> QED BY <1>3, <1>4, DataSuffices

LEMMA RemoveVictimData ==
    ASSUME SingleWriter, PlaceInv, DataInv, NEW w \in Writers, RemoveVictim(w)
    PROVE  DataInv'
<1>1. (\A b \in Blocks : Mapped(b)) /\ Pinned(w) /\ WriterPlace(w) /\ WriterData(w)
    BY DEF PlaceInv, DataInv
<1>2. \A b \in Blocks : /\ Stores(b) /\ (Wrote(b) <=> b \in wr[w].wrote)
                       /\ Extra(b) = IF wr[w].pc = "commit" /\ wr[w].block = b THEN 1 ELSE 0
    BY OneWriter DEF DataInv
<1>e. /\ wr[w].pc = "remove" /\ wr[w].frame \in Frames /\ frames[wr[w].frame].block \in Blocks /\ HoldsShard(frames[wr[w].frame].block) = {}
      /\ wr'[w].pc = "reset" /\ wr'[w].block = wr[w].block /\ wr'[w].new = wr[w].new
      /\ wr'[w].frame = wr[w].frame /\ wr'[w].wrote = wr[w].wrote
      /\ table'[frames[wr[w].frame].block] = NoBlock
      /\ \A c \in Blocks : c # frames[wr[w].frame].block => table'[c] = table[c]
      /\ frames' = frames /\ disk' = disk /\ use' = use
    BY RemoveVictimEffect, DataFacts DEF Page, Use, Synced, NewPage
<1>3. ASSUME NEW b \in Blocks PROVE Stores(b)'
    <2>1. /\ Stores(b) /\ (Wrote(b) <=> b \in wr[w].wrote)
          /\ Extra(b) = IF wr[w].pc = "commit" /\ wr[w].block = b THEN 1 ELSE 0
        BY <1>2
    <2>2. /\ Wrote(b)' <=> b \in wr'[w].wrote
          /\ Extra(b)' = IF wr'[w].pc = "commit" /\ wr'[w].block = b THEN 1 ELSE 0
        BY OneWriterNext
    <2> QED BY <1>1, <1>e, <2>1, <2>2, DataFacts
            DEF Stores, Kept, Holds, OnDisk, Mapped, Pinned, WriterData, WriterPlace, Evicting, Filling, Searching
<1>4. WriterData(w)'
    BY <1>1, <1>2, <1>e, DataFacts
    DEF WriterData, Stores, Kept, Holds, OnDisk, WriterPlace, Mapped, Pinned, Evicting, Filling, Searching
<1> QED BY <1>3, <1>4, DataSuffices

LEMMA ResetVictimData ==
    ASSUME SingleWriter, PlaceInv, DataInv, NEW w \in Writers, ResetVictim(w)
    PROVE  DataInv'
<1>1. (\A b \in Blocks : Mapped(b)) /\ Pinned(w) /\ WriterPlace(w) /\ WriterData(w)
    BY DEF PlaceInv, DataInv
<1>2. \A b \in Blocks : /\ Stores(b) /\ (Wrote(b) <=> b \in wr[w].wrote)
                       /\ Extra(b) = IF wr[w].pc = "commit" /\ wr[w].block = b THEN 1 ELSE 0
    BY OneWriter DEF DataInv
<1>e. /\ wr[w].pc = "reset" /\ wr[w].frame \in Frames
      /\ wr'[w].pc = "load" /\ wr'[w].block = wr[w].block /\ wr'[w].new = wr[w].new
      /\ wr'[w].frame = wr[w].frame /\ wr'[w].wrote = wr[w].wrote
      /\ \A g \in Frames : g # wr[w].frame => frames'[g] = frames[g]
      /\ frames'[wr[w].frame].block = NoBlock /\ frames'[wr[w].frame].dirty = FALSE
      /\ frames'[wr[w].frame].page.use = frames[wr[w].frame].page.use /\ frames'[wr[w].frame].page.n = frames[wr[w].frame].page.n
      /\ frames'[wr[w].frame].len = frames[wr[w].frame].len
      /\ table' = table /\ disk' = disk /\ use' = use
    BY ResetVictimEffect, DataFacts DEF Page, Use, Synced, NewPage
<1>3. ASSUME NEW b \in Blocks PROVE Stores(b)'
    <2>1. /\ Stores(b) /\ (Wrote(b) <=> b \in wr[w].wrote)
          /\ Extra(b) = IF wr[w].pc = "commit" /\ wr[w].block = b THEN 1 ELSE 0
        BY <1>2
    <2>2. /\ Wrote(b)' <=> b \in wr'[w].wrote
          /\ Extra(b)' = IF wr'[w].pc = "commit" /\ wr'[w].block = b THEN 1 ELSE 0
        BY OneWriterNext
    <2> QED BY <1>1, <1>e, <2>1, <2>2, DataFacts
            DEF Stores, Kept, Holds, OnDisk, Mapped, Pinned, WriterData, WriterPlace, Evicting, Filling, Searching
<1>4. WriterData(w)'
    BY <1>1, <1>2, <1>e, DataFacts
    DEF WriterData, Stores, Kept, Holds, OnDisk, WriterPlace, Mapped, Pinned, Evicting, Filling, Searching
<1> QED BY <1>3, <1>4, DataSuffices

LEMMA LoadPageData ==
    ASSUME SingleWriter, PlaceInv, DataInv, NEW w \in Writers, LoadPage(w)
    PROVE  DataInv'
<1>1. (\A b \in Blocks : Mapped(b)) /\ Pinned(w) /\ WriterPlace(w) /\ WriterData(w)
    BY DEF PlaceInv, DataInv
<1>2. \A b \in Blocks : /\ Stores(b) /\ (Wrote(b) <=> b \in wr[w].wrote)
                       /\ Extra(b) = IF wr[w].pc = "commit" /\ wr[w].block = b THEN 1 ELSE 0
    BY OneWriter DEF DataInv
<1>e. /\ wr[w].pc = "load" /\ wr[w].frame \in Frames /\ wr[w].block \in Blocks
      /\ wr'[w].pc = "publish" /\ wr'[w].block = wr[w].block /\ wr'[w].new = wr[w].new
      /\ wr'[w].frame = wr[w].frame /\ wr'[w].wrote = wr[w].wrote
      /\ \A g \in Frames : g # wr[w].frame => frames'[g] = frames[g]
      /\ frames'[wr[w].frame].block = frames[wr[w].frame].block /\ frames'[wr[w].frame].dirty = wr[w].new
      /\ wr[w].new => frames'[wr[w].frame].page.use = use[wr[w].block].uses /\ frames'[wr[w].frame].page.n = 0 /\ frames'[wr[w].frame].len = 0
      /\ ~wr[w].new => frames'[wr[w].frame].page = disk[wr[w].block] /\ frames'[wr[w].frame].len = disk[wr[w].block].header
      /\ table' = table /\ disk' = disk /\ use' = use
    <2>a. wr[w].frame \in Frames /\ wr[w].block \in Blocks
        BY LoadPageEffect
    <2>1. wr[w].pc = "load" /\ wr[w].frame \in Frames /\ wr[w].block \in Blocks
        BY LoadPageEffect, DataFacts, <2>a
    <2>2. wr'[w].pc = "publish" /\ wr'[w].block = wr[w].block /\ wr'[w].new = wr[w].new
        BY LoadPageEffect, DataFacts, <2>a
    <2>3. wr'[w].frame = wr[w].frame /\ wr'[w].wrote = wr[w].wrote
        BY LoadPageEffect, DataFacts, <2>a
    <2>4. \A g \in Frames : g # wr[w].frame => frames'[g] = frames[g]
        BY LoadPageEffect, DataFacts, <2>a
    <2>5. frames'[wr[w].frame].block = frames[wr[w].frame].block /\ frames'[wr[w].frame].dirty = wr[w].new
        BY LoadPageEffect, DataFacts, <2>a
    <2>6. wr[w].new => frames'[wr[w].frame].page.use = use[wr[w].block].uses /\ frames'[wr[w].frame].page.n = 0 /\ frames'[wr[w].frame].len = 0
        <3>1. frames'[wr[w].frame].page = (IF wr[w].new THEN NewPage(use[wr[w].block].uses) ELSE disk[wr[w].block]) /\ frames'[wr[w].frame].len = (IF wr[w].new THEN 0 ELSE disk[wr[w].block].header)
            BY LoadPageEffect
        <3> QED BY <2>a, <3>1 DEF Page, Synced, NewPage
    <2>7. ~wr[w].new => frames'[wr[w].frame].page = disk[wr[w].block] /\ frames'[wr[w].frame].len = disk[wr[w].block].header
        BY LoadPageEffect, DataFacts, <2>a
    <2>8. table' = table /\ disk' = disk /\ use' = use
        BY LoadPageEffect, DataFacts, <2>a
    <2> QED BY <2>1, <2>2, <2>3, <2>4, <2>5, <2>6, <2>7, <2>8
<1>3. ASSUME NEW b \in Blocks PROVE Stores(b)'
    <2>1. /\ Stores(b) /\ (Wrote(b) <=> b \in wr[w].wrote)
          /\ Extra(b) = IF wr[w].pc = "commit" /\ wr[w].block = b THEN 1 ELSE 0
        BY <1>2
    <2>2. /\ Wrote(b)' <=> b \in wr'[w].wrote
          /\ Extra(b)' = IF wr'[w].pc = "commit" /\ wr'[w].block = b THEN 1 ELSE 0
        BY OneWriterNext
    <2> QED BY <1>1, <1>e, <2>1, <2>2, DataFacts
            DEF Stores, Kept, Holds, OnDisk, Mapped, Pinned, WriterData, WriterPlace, Evicting, Filling, Searching
<1>4. WriterData(w)'
    <2> DEFINE f == wr[w].frame
               b == wr[w].block
    <2>1. b \in Blocks /\ table[b] = NoBlock /\ f \in Frames
        BY <1>1, <1>e DEF WriterPlace, Searching, Filling
    <2>2. Stores(b) /\ WriterData(w)
        BY <1>1, <1>2, <2>1
    <2>3. wr[w].new \/ Kept(b) => /\ frames'[f].page.use = use[b].uses /\ frames'[f].len = use[b].n
                                  /\ frames'[f].page.n = use[b].n
        <3>1. CASE wr[w].new
            BY <1>e, <2>2, <3>1 DEF WriterData
        <3>2. CASE ~wr[w].new /\ Kept(b)
            <4>1. disk[b] = [use |-> use[b].uses, n |-> use[b].n, header |-> use[b].n]
                BY <2>1, <2>2, <3>2 DEF Stores, OnDisk
            <4>2. frames'[f].page = disk[b] /\ frames'[f].len = disk[b].header
                BY <1>e, <3>2
            <4>3. use' = use /\ use[b].n \in Nat
                BY <1>e, <2>1, DataFacts
            <4> QED BY <4>1, <4>2, <4>3
        <3> QED BY <3>1, <3>2
    <2> HIDE DEF f, b
    <2>4. /\ wr[w].pc = "load" /\ wr'[w].pc = "publish" /\ wr'[w].block = b /\ wr'[w].new = wr[w].new
          /\ wr'[w].frame = f /\ frames'[f].dirty = wr[w].new /\ use' = use
        BY <1>e DEF f, b
    <2>5. wr[w].new => use[b].state = "new" /\ use[b].n = 0
        BY <2>2 DEF WriterData, b
    <2>6. /\ b \in Blocks /\ use[b].n \in Nat
          /\ wr[w].new \/ use'[b].state \in {"live", "dead"} =>
                /\ frames'[f].page.use = use'[b].uses /\ frames'[f].len = use'[b].n
                /\ frames'[f].page.n = use'[b].n + 0
        BY <2>1, <2>3, <2>4, DataFacts DEF Kept
    <2> QED BY <2>4, <2>5, <2>6 DEF WriterData, Searching, Kept, Holds
<1> QED BY <1>3, <1>4, DataSuffices

LEMMA PublishData ==
    ASSUME SingleWriter, PlaceInv, DataInv, NEW w \in Writers, Publish(w)
    PROVE  DataInv'
<1>1. (\A b \in Blocks : Mapped(b)) /\ Pinned(w) /\ WriterPlace(w) /\ WriterData(w)
    BY DEF PlaceInv, DataInv
<1>2. \A b \in Blocks : /\ Stores(b) /\ (Wrote(b) <=> b \in wr[w].wrote)
                       /\ Extra(b) = IF wr[w].pc = "commit" /\ wr[w].block = b THEN 1 ELSE 0
    BY OneWriter DEF DataInv
<1>e. /\ wr[w].pc = "publish" /\ wr[w].frame \in Frames /\ wr[w].block \in Blocks
      /\ wr'[w].pc = "insert" /\ wr'[w].block = wr[w].block /\ wr'[w].new = wr[w].new
      /\ wr'[w].frame = wr[w].frame /\ wr'[w].wrote = wr[w].wrote
      /\ \A g \in Frames : g # wr[w].frame => frames'[g] = frames[g]
      /\ frames'[wr[w].frame].block = wr[w].block /\ frames'[wr[w].frame].dirty = frames[wr[w].frame].dirty
      /\ frames'[wr[w].frame].page.use = frames[wr[w].frame].page.use /\ frames'[wr[w].frame].page.n = frames[wr[w].frame].page.n
      /\ frames'[wr[w].frame].len = frames[wr[w].frame].len
      /\ table' = table /\ disk' = disk /\ use' = use
    BY PublishEffect, DataFacts DEF Page, Use, Synced, NewPage
<1>3. ASSUME NEW b \in Blocks PROVE Stores(b)'
    <2>1. /\ Stores(b) /\ (Wrote(b) <=> b \in wr[w].wrote)
          /\ Extra(b) = IF wr[w].pc = "commit" /\ wr[w].block = b THEN 1 ELSE 0
        BY <1>2
    <2>2. /\ Wrote(b)' <=> b \in wr'[w].wrote
          /\ Extra(b)' = IF wr'[w].pc = "commit" /\ wr'[w].block = b THEN 1 ELSE 0
        BY OneWriterNext
    <2> QED BY <1>1, <1>e, <2>1, <2>2, DataFacts
            DEF Stores, Kept, Holds, OnDisk, Mapped, Pinned, WriterData, WriterPlace, Evicting, Filling, Searching
<1>4. WriterData(w)'
    BY <1>1, <1>2, <1>e, DataFacts
    DEF WriterData, Stores, Kept, Holds, OnDisk, WriterPlace, Mapped, Pinned, Evicting, Filling, Searching
<1> QED BY <1>3, <1>4, DataSuffices

LEMMA InsertData ==
    ASSUME SingleWriter, PlaceInv, DataInv, NEW w \in Writers, Insert(w)
    PROVE  DataInv'
<1>1. (\A b \in Blocks : Mapped(b)) /\ Pinned(w) /\ WriterPlace(w) /\ WriterData(w)
    BY DEF PlaceInv, DataInv
<1>2. \A b \in Blocks : /\ Stores(b) /\ (Wrote(b) <=> b \in wr[w].wrote)
                       /\ Extra(b) = IF wr[w].pc = "commit" /\ wr[w].block = b THEN 1 ELSE 0
    BY OneWriter DEF DataInv
<1>e. /\ wr[w].pc = "insert" /\ wr[w].frame \in Frames /\ wr[w].block \in Blocks
      /\ wr'[w].pc = "idle" /\ wr'[w].block = NoBlock /\ wr'[w].new = FALSE
      /\ wr'[w].frame = NoFrame /\ wr'[w].wrote = IF wr[w].new THEN wr[w].wrote \cup {wr[w].block} ELSE wr[w].wrote
      /\ table'[wr[w].block] = wr[w].frame
      /\ \A c \in Blocks : c # wr[w].block => table'[c] = table[c]
      /\ use'[wr[w].block].state = (IF wr[w].new THEN "live" ELSE use[wr[w].block].state) /\ use'[wr[w].block].uses = use[wr[w].block].uses /\ use'[wr[w].block].n = use[wr[w].block].n
      /\ \A c \in Blocks : c # wr[w].block => use'[c] = use[c]
      /\ frames' = frames /\ disk' = disk
    <2>a. use[wr[w].block] \in Use
        BY InsertEffect, DataFacts
    <2>1. wr[w].pc = "insert" /\ wr[w].frame \in Frames /\ wr[w].block \in Blocks
        BY InsertEffect, DataFacts, <2>a
    <2>2. wr'[w].pc = "idle" /\ wr'[w].block = NoBlock /\ wr'[w].new = FALSE
        BY InsertEffect, DataFacts, <2>a
    <2>3. wr'[w].frame = NoFrame /\ wr'[w].wrote = IF wr[w].new THEN wr[w].wrote \cup {wr[w].block} ELSE wr[w].wrote
        BY InsertEffect, DataFacts, <2>a
    <2>4. table'[wr[w].block] = wr[w].frame
        BY InsertEffect, DataFacts, <2>a
    <2>5. \A c \in Blocks : c # wr[w].block => table'[c] = table[c]
        BY InsertEffect, DataFacts, <2>a
    <2>6. use'[wr[w].block].state = (IF wr[w].new THEN "live" ELSE use[wr[w].block].state) /\ use'[wr[w].block].uses = use[wr[w].block].uses /\ use'[wr[w].block].n = use[wr[w].block].n
        <3>1. use'[wr[w].block] = [use[wr[w].block] EXCEPT !.state = IF wr[w].new THEN "live" ELSE use[wr[w].block].state]
            BY InsertEffect
        <3> QED BY <2>a, <3>1 DEF Use
    <2>7. \A c \in Blocks : c # wr[w].block => use'[c] = use[c]
        BY InsertEffect, DataFacts, <2>a
    <2>8. frames' = frames /\ disk' = disk
        BY InsertEffect, DataFacts, <2>a
    <2> QED BY <2>1, <2>2, <2>3, <2>4, <2>5, <2>6, <2>7, <2>8
<1>3. ASSUME NEW b \in Blocks PROVE Stores(b)'
    <2>1. /\ Stores(b) /\ (Wrote(b) <=> b \in wr[w].wrote)
          /\ Extra(b) = IF wr[w].pc = "commit" /\ wr[w].block = b THEN 1 ELSE 0
        BY <1>2
    <2>2. /\ Wrote(b)' <=> b \in wr'[w].wrote
          /\ Extra(b)' = IF wr'[w].pc = "commit" /\ wr'[w].block = b THEN 1 ELSE 0
        BY OneWriterNext
    <2>3. CASE b # wr[w].block
        BY <1>e, <2>1, <2>2, <2>3, DataFacts DEF Stores, Kept, Holds, OnDisk
    <2>4. CASE b = wr[w].block
        <3>1. /\ table[b] = NoBlock /\ frames[wr[w].frame].dirty = wr[w].new
              /\ wr[w].new \/ Kept(b) => Holds(wr[w].frame, b, 0)
              /\ wr[w].new => use[b].state = "new"
            BY <1>1, <1>e, <2>4 DEF WriterPlace, WriterData, Searching
        <3>2. /\ table'[b] = wr[w].frame /\ wr[w].frame \in Frames /\ frames' = frames /\ disk' = disk
              /\ use'[b].uses = use[b].uses /\ use'[b].n = use[b].n
              /\ use'[b].state = IF wr[w].new THEN "live" ELSE use[b].state
            BY <1>e, <2>4
        <3>3. Extra(b)' = 0 /\ (wr[w].new => Wrote(b)')
            BY <1>e, <2>2, <2>4
        <3>4. CASE wr[w].new
            BY <3>1, <3>2, <3>3, <3>4, DataFacts DEF Stores, Kept, Holds
        <3>5. CASE ~wr[w].new
            <4>1. Kept(b)' => Kept(b)
                BY <3>2, <3>5 DEF Kept
            <4>2. Kept(b)' => OnDisk(b)' /\ Holds(table[b], b, 0)'
                BY <2>1, <3>1, <3>2, <4>1 DEF Stores, OnDisk, Holds
            <4>3. use'[b].state = "dead" => Kept(b)'
                BY DEF Kept
            <4> QED BY <3>2, <3>3, <4>2, <4>3 DEF Stores
        <3> QED BY <3>4, <3>5
    <2> QED BY <2>3, <2>4
<1>4. WriterData(w)'
    BY <1>1, <1>2, <1>e, DataFacts
    DEF WriterData, Stores, Kept, Holds, OnDisk, WriterPlace, Mapped, Pinned, Evicting, Filling, Searching
<1> QED BY <1>3, <1>4, DataSuffices

LEMMA Append_DataData ==
    ASSUME SingleWriter, PlaceInv, DataInv, NEW w \in Writers, Append_Data(w)
    PROVE  DataInv'
<1>1. (\A b \in Blocks : Mapped(b)) /\ Pinned(w) /\ WriterPlace(w) /\ WriterData(w)
    BY DEF PlaceInv, DataInv
<1>2. \A b \in Blocks : /\ Stores(b) /\ (Wrote(b) <=> b \in wr[w].wrote)
                       /\ Extra(b) = IF wr[w].pc = "commit" /\ wr[w].block = b THEN 1 ELSE 0
    BY OneWriter DEF DataInv
<1>e. /\ wr[w].pc = "idle" /\ On(w) \in Blocks
      /\ wr'[w].pc = "commit" /\ wr'[w].block = On(w) /\ wr'[w].new = wr[w].new
      /\ wr'[w].wrote = wr[w].wrote
      /\ wr[w].pins[On(w)] \in Frames /\ use[On(w)].state = "live"
      /\ \A g \in Frames : g # wr[w].pins[On(w)] => frames'[g] = frames[g]
      /\ frames'[wr[w].pins[On(w)]].block = frames[wr[w].pins[On(w)]].block /\ frames'[wr[w].pins[On(w)]].dirty = frames[wr[w].pins[On(w)]].dirty
      /\ frames'[wr[w].pins[On(w)]].page.use = frames[wr[w].pins[On(w)]].page.use /\ frames'[wr[w].pins[On(w)]].page.n = frames[wr[w].pins[On(w)]].page.n + 1
      /\ frames'[wr[w].pins[On(w)]].len = frames[wr[w].pins[On(w)]].len
      /\ table' = table /\ disk' = disk /\ use' = use
    <2>a. frames[wr[w].pins[On(w)]].page \in Page
        BY Append_DataEffect, DataFacts
    <2>1. wr[w].pc = "idle" /\ On(w) \in Blocks
        BY Append_DataEffect, DataFacts, <2>a
    <2>2. wr'[w].pc = "commit" /\ wr'[w].block = On(w) /\ wr'[w].new = wr[w].new
        BY Append_DataEffect, DataFacts, <2>a
    <2>3. wr'[w].wrote = wr[w].wrote
        BY Append_DataEffect, DataFacts, <2>a
    <2>4. wr[w].pins[On(w)] \in Frames /\ use[On(w)].state = "live"
        BY Append_DataEffect, DataFacts, <2>a
    <2>5. \A g \in Frames : g # wr[w].pins[On(w)] => frames'[g] = frames[g]
        BY Append_DataEffect, DataFacts, <2>a
    <2>6. frames'[wr[w].pins[On(w)]].block = frames[wr[w].pins[On(w)]].block /\ frames'[wr[w].pins[On(w)]].dirty = frames[wr[w].pins[On(w)]].dirty
        BY Append_DataEffect, DataFacts, <2>a
    <2>7. frames'[wr[w].pins[On(w)]].page.use = frames[wr[w].pins[On(w)]].page.use /\ frames'[wr[w].pins[On(w)]].page.n = frames[wr[w].pins[On(w)]].page.n + 1
        <3>1. frames'[wr[w].pins[On(w)]].page = [frames[wr[w].pins[On(w)]].page EXCEPT !.n = frames[wr[w].pins[On(w)]].page.n + 1]
            BY Append_DataEffect
        <3> QED BY <2>a, <3>1 DEF Page, Synced, NewPage
    <2>8. frames'[wr[w].pins[On(w)]].len = frames[wr[w].pins[On(w)]].len
        BY Append_DataEffect, DataFacts, <2>a
    <2>9. table' = table /\ disk' = disk /\ use' = use
        BY Append_DataEffect, DataFacts, <2>a
    <2> QED BY <2>1, <2>2, <2>3, <2>4, <2>5, <2>6, <2>7, <2>8, <2>9
<1>3. ASSUME NEW b \in Blocks PROVE Stores(b)'
    <2>1. /\ Stores(b) /\ (Wrote(b) <=> b \in wr[w].wrote)
          /\ Extra(b) = IF wr[w].pc = "commit" /\ wr[w].block = b THEN 1 ELSE 0
        BY <1>2
    <2>2. /\ Wrote(b)' <=> b \in wr'[w].wrote
          /\ Extra(b)' = IF wr'[w].pc = "commit" /\ wr'[w].block = b THEN 1 ELSE 0
        BY OneWriterNext
    <2> QED BY <1>1, <1>e, <2>1, <2>2, DataFacts
            DEF Stores, Kept, Holds, OnDisk, Mapped, Pinned, WriterData, WriterPlace, Evicting, Filling, Searching
<1>4. WriterData(w)'
    BY <1>1, <1>2, <1>e, DataFacts
    DEF WriterData, Stores, Kept, Holds, OnDisk, WriterPlace, Mapped, Pinned, Evicting, Filling, Searching
<1> QED BY <1>3, <1>4, DataSuffices

LEMMA Append_CommitData ==
    ASSUME SingleWriter, PlaceInv, DataInv, NEW w \in Writers, Append_Commit(w)
    PROVE  DataInv'
<1>1. (\A b \in Blocks : Mapped(b)) /\ Pinned(w) /\ WriterPlace(w) /\ WriterData(w)
    BY DEF PlaceInv, DataInv
<1>2. \A b \in Blocks : /\ Stores(b) /\ (Wrote(b) <=> b \in wr[w].wrote)
                       /\ Extra(b) = IF wr[w].pc = "commit" /\ wr[w].block = b THEN 1 ELSE 0
    BY OneWriter DEF DataInv
<1>e. /\ wr[w].pc = "commit" /\ wr[w].frame \in Frames /\ wr[w].block \in Blocks
      /\ wr'[w].pc = "idle" /\ wr'[w].block = NoBlock /\ wr'[w].new = FALSE
      /\ wr'[w].frame = NoFrame /\ wr'[w].wrote = wr[w].wrote \cup {wr[w].block}
      /\ \A g \in Frames : g # wr[w].frame => frames'[g] = frames[g]
      /\ frames'[wr[w].frame].block = frames[wr[w].frame].block /\ frames'[wr[w].frame].dirty = frames[wr[w].frame].dirty
      /\ frames'[wr[w].frame].page.use = frames[wr[w].frame].page.use /\ frames'[wr[w].frame].page.n = frames[wr[w].frame].page.n
      /\ frames'[wr[w].frame].len = frames[wr[w].frame].len + 1
      /\ use'[wr[w].block].state = use[wr[w].block].state /\ use'[wr[w].block].uses = use[wr[w].block].uses /\ use'[wr[w].block].n = use[wr[w].block].n + 1
      /\ \A c \in Blocks : c # wr[w].block => use'[c] = use[c]
      /\ table' = table /\ disk' = disk
    <2>a. use[wr[w].block] \in Use /\ frames[wr[w].frame].page \in Page
        BY Append_CommitEffect, DataFacts
    <2>1. wr[w].pc = "commit" /\ wr[w].frame \in Frames /\ wr[w].block \in Blocks
        BY Append_CommitEffect, DataFacts, <2>a
    <2>2. wr'[w].pc = "idle" /\ wr'[w].block = NoBlock /\ wr'[w].new = FALSE
        BY Append_CommitEffect, DataFacts, <2>a
    <2>3. wr'[w].frame = NoFrame /\ wr'[w].wrote = wr[w].wrote \cup {wr[w].block}
        BY Append_CommitEffect, DataFacts, <2>a
    <2>4. \A g \in Frames : g # wr[w].frame => frames'[g] = frames[g]
        BY Append_CommitEffect, DataFacts, <2>a
    <2>5. frames'[wr[w].frame].block = frames[wr[w].frame].block /\ frames'[wr[w].frame].dirty = frames[wr[w].frame].dirty
        BY Append_CommitEffect, DataFacts, <2>a
    <2>6. frames'[wr[w].frame].page.use = frames[wr[w].frame].page.use /\ frames'[wr[w].frame].page.n = frames[wr[w].frame].page.n
        <3>1. frames'[wr[w].frame].page = frames[wr[w].frame].page
            BY Append_CommitEffect
        <3> QED BY <2>a, <3>1 DEF Page, Synced, NewPage
    <2>7. frames'[wr[w].frame].len = frames[wr[w].frame].len + 1
        BY Append_CommitEffect, DataFacts, <2>a
    <2>8. use'[wr[w].block].state = use[wr[w].block].state /\ use'[wr[w].block].uses = use[wr[w].block].uses /\ use'[wr[w].block].n = use[wr[w].block].n + 1
        <3>1. use'[wr[w].block] = [use[wr[w].block] EXCEPT !.n = use[wr[w].block].n + 1]
            BY Append_CommitEffect
        <3> QED BY <2>a, <3>1 DEF Use
    <2>9. \A c \in Blocks : c # wr[w].block => use'[c] = use[c]
        BY Append_CommitEffect, DataFacts, <2>a
    <2>10. table' = table /\ disk' = disk
        BY Append_CommitEffect, DataFacts, <2>a
    <2> QED BY <2>1, <2>2, <2>3, <2>4, <2>5, <2>6, <2>7, <2>8, <2>9, <2>10
<1>3. ASSUME NEW b \in Blocks PROVE Stores(b)'
    <2>1. /\ Stores(b) /\ (Wrote(b) <=> b \in wr[w].wrote)
          /\ Extra(b) = IF wr[w].pc = "commit" /\ wr[w].block = b THEN 1 ELSE 0
        BY <1>2
    <2>2. /\ Wrote(b)' <=> b \in wr'[w].wrote
          /\ Extra(b)' = IF wr'[w].pc = "commit" /\ wr'[w].block = b THEN 1 ELSE 0
        BY OneWriterNext
    <2> DEFINE f == wr[w].frame
    <2>0. f \in Frames /\ wr[w].block \in Blocks /\ table[wr[w].block] = f /\ use[wr[w].block].state = "live"
        BY <1>1, <1>e, DataFacts DEF WriterPlace, WriterData, Pinned
    <2>3. CASE b # wr[w].block
        <3>1. table[b] \in Frames => table[b] # f
            BY <1>1, <2>0, <2>3 DEF Mapped
        <3>2. Extra(b)' = Extra(b) /\ (Wrote(b)' <=> Wrote(b)) /\ use'[b] = use[b] /\ table' = table /\ disk' = disk
            BY <1>e, <2>1, <2>2, <2>3
        <3>3. table[b] \in Frames => frames'[table[b]] = frames[table[b]]
            BY <1>e, <3>1
        <3> QED BY <2>1, <3>2, <3>3, DataFacts DEF Stores, Kept, Holds, OnDisk
    <2>4. CASE b = wr[w].block
        <3>1. Extra(b) = 1 /\ Extra(b)' = 0 /\ Wrote(b)'
            BY <1>e, <2>1, <2>2, <2>4
        <3>2. frames[f].page.use = use[b].uses /\ frames[f].len = use[b].n /\ frames[f].page.n = use[b].n + 1
            BY <2>0, <2>1, <2>4, <3>1 DEF Stores, Kept, Holds
        <3>3. /\ frames'[f].page.use = frames[f].page.use /\ frames'[f].page.n = frames[f].page.n
              /\ frames'[f].len = frames[f].len + 1 /\ table'[b] = f
              /\ use'[b].uses = use[b].uses /\ use'[b].n = use[b].n + 1 /\ use'[b].state = "live"
            BY <1>e, <2>0, <2>4
        <3>4. use[b].n \in Nat /\ f # NoBlock
            BY <2>0, DataFacts
        <3>5. Holds(table[b], b, 0)'
            BY <3>2, <3>3, <3>4 DEF Holds
        <3> QED BY <2>0, <3>1, <3>3, <3>4, <3>5 DEF Stores
    <2> QED BY <2>3, <2>4
<1>4. WriterData(w)'
    BY <1>1, <1>2, <1>e, DataFacts
    DEF WriterData, Stores, Kept, Holds, OnDisk, WriterPlace, Mapped, Pinned, Evicting, Filling, Searching
<1> QED BY <1>3, <1>4, DataSuffices

LEMMA UnpinPageData ==
    ASSUME SingleWriter, PlaceInv, DataInv, NEW w \in Writers, UnpinPage(w)
    PROVE  DataInv'
<1>1. (\A b \in Blocks : Mapped(b)) /\ Pinned(w) /\ WriterPlace(w) /\ WriterData(w)
    BY DEF PlaceInv, DataInv
<1>2. \A b \in Blocks : /\ Stores(b) /\ (Wrote(b) <=> b \in wr[w].wrote)
                       /\ Extra(b) = IF wr[w].pc = "commit" /\ wr[w].block = b THEN 1 ELSE 0
    BY OneWriter DEF DataInv
<1>e. /\ wr[w].pc = "idle" /\ On(w) \in Blocks
      /\ wr'[w].pc = "idle" /\ wr'[w].block = wr[w].block /\ wr'[w].new = wr[w].new
      /\ wr'[w].frame = wr[w].frame /\ wr'[w].wrote = wr[w].wrote \ {On(w)}
      /\ wr[w].pins[On(w)] \in Frames
      /\ table[On(w)] = wr[w].pins[On(w)] /\ frames[table[On(w)]].block = On(w)
      /\ \A g \in Frames : g # table[On(w)] => frames'[g] = frames[g]
      /\ frames'[table[On(w)]].block = frames[table[On(w)]].block /\ frames'[table[On(w)]].dirty = (frames[table[On(w)]].dirty \/ On(w) \in wr[w].wrote)
      /\ frames'[table[On(w)]].page.use = frames[table[On(w)]].page.use /\ frames'[table[On(w)]].page.n = frames[table[On(w)]].page.n
      /\ frames'[table[On(w)]].len = frames[table[On(w)]].len
      /\ table' = table /\ disk' = disk /\ use' = use
    <2> DEFINE f == table[On(w)]
    <2>1. On(w) \in Blocks /\ wr[w].pins[On(w)] \in Frames
        BY UnpinPageEffect, DataFacts
    <2>2. f = wr[w].pins[On(w)] /\ frames[f].block = On(w) /\ f # NoBlock
        BY <1>1, <2>1, DataFacts DEF Pinned, Mapped
    <2>3. frames[f] \in FrameType
        BY <2>1, <2>2 DEF PlaceInv, TypeInv
    <2>4. /\ frames'[f] = [frames[f] EXCEPT !.pin = frames[f].pin - 1, !.dirty = frames[f].dirty \/ On(w) \in wr[w].wrote]
          /\ \A g \in Frames : g # f => frames'[g] = frames[g]
        BY <2>2, UnpinPageEffect
    <2> HIDE DEF f
    <2>5. /\ frames'[f].block = frames[f].block /\ frames'[f].dirty = (frames[f].dirty \/ On(w) \in wr[w].wrote)
          /\ frames'[f].page = frames[f].page /\ frames'[f].len = frames[f].len
        BY <2>3, <2>4 DEF FrameType
    <2> QED BY <2>1, <2>2, <2>4, <2>5, UnpinPageEffect DEF f
<1>3. ASSUME NEW b \in Blocks PROVE Stores(b)'
    <2>1. /\ Stores(b) /\ (Wrote(b) <=> b \in wr[w].wrote)
          /\ Extra(b) = IF wr[w].pc = "commit" /\ wr[w].block = b THEN 1 ELSE 0
        BY <1>2
    <2>2. /\ Wrote(b)' <=> b \in wr'[w].wrote
          /\ Extra(b)' = IF wr'[w].pc = "commit" /\ wr'[w].block = b THEN 1 ELSE 0
        BY OneWriterNext
    <2>3. table[b] \in Frames =>
              /\ frames'[table[b]].page.use = frames[table[b]].page.use /\ frames'[table[b]].page.n = frames[table[b]].page.n
              /\ frames'[table[b]].len = frames[table[b]].len
        BY <1>e
    <2>4. Extra(b)' = Extra(b) /\ use'[b] = use[b] /\ table' = table /\ disk' = disk
        BY <1>e, <2>1, <2>2
    <2>5. table[b] \in Frames /\ ~frames'[table[b]].dirty /\ ~Wrote(b)' => ~frames[table[b]].dirty /\ ~Wrote(b)
        <3>1. CASE b = On(w)
            BY <1>e, <2>1, <2>2, <3>1
        <3>2. CASE b # On(w)
            <4>1. table[b] \in Frames => table[b] # table[On(w)]
                BY <1>1, <1>e, <3>2 DEF Mapped
            <4> QED BY <1>e, <2>1, <2>2, <3>2, <4>1
        <3> QED BY <3>1, <3>2
    <2> QED BY <2>1, <2>3, <2>4, <2>5, DataFacts DEF Stores, Kept, Holds, OnDisk
<1>4. WriterData(w)'
    BY <1>1, <1>2, <1>e, DataFacts
    DEF WriterData, Stores, Kept, Holds, OnDisk, WriterPlace, Mapped, Pinned, Evicting, Filling, Searching
<1> QED BY <1>3, <1>4, DataSuffices

LEMMA SkipData ==
    ASSUME SingleWriter, PlaceInv, DataInv, NEW w \in Writers, Skip(w)
    PROVE  DataInv'
<1>1. (\A b \in Blocks : Mapped(b)) /\ Pinned(w) /\ WriterPlace(w) /\ WriterData(w)
    BY DEF PlaceInv, DataInv
<1>2. \A b \in Blocks : /\ Stores(b) /\ (Wrote(b) <=> b \in wr[w].wrote)
                       /\ Extra(b) = IF wr[w].pc = "commit" /\ wr[w].block = b THEN 1 ELSE 0
    BY OneWriter DEF DataInv
<1>e. /\ wr' = wr
      /\ frames' = frames /\ table' = table /\ disk' = disk /\ use' = use
    BY SkipEffect, DataFacts DEF Page, Use, Synced, NewPage
<1>3. ASSUME NEW b \in Blocks PROVE Stores(b)'
    <2>1. /\ Stores(b) /\ (Wrote(b) <=> b \in wr[w].wrote)
          /\ Extra(b) = IF wr[w].pc = "commit" /\ wr[w].block = b THEN 1 ELSE 0
        BY <1>2
    <2>2. /\ Wrote(b)' <=> b \in wr'[w].wrote
          /\ Extra(b)' = IF wr'[w].pc = "commit" /\ wr'[w].block = b THEN 1 ELSE 0
        BY OneWriterNext
    <2> QED BY <1>1, <1>e, <2>1, <2>2, DataFacts
            DEF Stores, Kept, Holds, OnDisk, Mapped, Pinned, WriterData, WriterPlace, Evicting, Filling, Searching
<1>4. WriterData(w)'
    BY <1>1, <1>2, <1>e, DataFacts
    DEF WriterData, Stores, Kept, Holds, OnDisk, WriterPlace, Mapped, Pinned, Evicting, Filling, Searching
<1> QED BY <1>3, <1>4, DataSuffices

LEMMA FlushDoneData ==
    ASSUME SingleWriter, PlaceInv, DataInv, NEW w \in Writers, FlushDone(w)
    PROVE  DataInv'
<1>1. (\A b \in Blocks : Mapped(b)) /\ Pinned(w) /\ WriterPlace(w) /\ WriterData(w)
    BY DEF PlaceInv, DataInv
<1>2. \A b \in Blocks : /\ Stores(b) /\ (Wrote(b) <=> b \in wr[w].wrote)
                       /\ Extra(b) = IF wr[w].pc = "commit" /\ wr[w].block = b THEN 1 ELSE 0
    BY OneWriter DEF DataInv
<1>e. /\ wr[w].pc = "flushed" /\ wr[w].frame \in Frames
      /\ wr'[w].pc = "idle" /\ wr'[w].block = NoBlock /\ wr'[w].new = FALSE
      /\ wr'[w].frame = NoFrame /\ wr'[w].wrote = wr[w].wrote
      /\ \A g \in Frames : g # wr[w].frame => frames'[g] = frames[g]
      /\ frames'[wr[w].frame].block = frames[wr[w].frame].block /\ frames'[wr[w].frame].dirty = FALSE
      /\ frames'[wr[w].frame].page.use = frames[wr[w].frame].page.use /\ frames'[wr[w].frame].page.n = frames[wr[w].frame].page.n
      /\ frames'[wr[w].frame].len = frames[wr[w].frame].len
      /\ table' = table /\ disk' = disk /\ use' = use
    BY FlushDoneEffect, DataFacts DEF Page, Use, Synced, NewPage
<1>3. ASSUME NEW b \in Blocks PROVE Stores(b)'
    <2>1. /\ Stores(b) /\ (Wrote(b) <=> b \in wr[w].wrote)
          /\ Extra(b) = IF wr[w].pc = "commit" /\ wr[w].block = b THEN 1 ELSE 0
        BY <1>2
    <2>2. /\ Wrote(b)' <=> b \in wr'[w].wrote
          /\ Extra(b)' = IF wr'[w].pc = "commit" /\ wr'[w].block = b THEN 1 ELSE 0
        BY OneWriterNext
    <2> QED BY <1>1, <1>e, <2>1, <2>2, DataFacts
            DEF Stores, Kept, Holds, OnDisk, Mapped, Pinned, WriterData, WriterPlace, Evicting, Filling, Searching
<1>4. WriterData(w)'
    BY <1>1, <1>2, <1>e, DataFacts
    DEF WriterData, Stores, Kept, Holds, OnDisk, WriterPlace, Mapped, Pinned, Evicting, Filling, Searching
<1> QED BY <1>3, <1>4, DataSuffices

LEMMA BuryData ==
    ASSUME SingleWriter, PlaceInv, DataInv, NEW w \in Writers, Bury(w)
    PROVE  DataInv'
<1>1. (\A b \in Blocks : Mapped(b)) /\ Pinned(w) /\ WriterPlace(w) /\ WriterData(w)
    BY DEF PlaceInv, DataInv
<1>2. \A b \in Blocks : /\ Stores(b) /\ (Wrote(b) <=> b \in wr[w].wrote)
                       /\ Extra(b) = IF wr[w].pc = "commit" /\ wr[w].block = b THEN 1 ELSE 0
    BY OneWriter DEF DataInv
<1>e. /\ wr[w].pc = "idle" /\ On(w) \in Blocks
      /\ wr' = wr
      /\ use[On(w)].state = "live" /\ wr[w].pins[On(w)] = NoFrame /\ (table[On(w)] # NoBlock => ~frames[table[On(w)]].dirty)
      /\ use'[On(w)].state = "dead" /\ use'[On(w)].uses = use[On(w)].uses /\ use'[On(w)].n = use[On(w)].n
      /\ \A c \in Blocks : c # On(w) => use'[c] = use[c]
      /\ frames' = frames /\ table' = table /\ disk' = disk
    BY BuryEffect, DataFacts DEF Page, Use, Synced, NewPage
<1>3. ASSUME NEW b \in Blocks PROVE Stores(b)'
    <2>1. /\ Stores(b) /\ (Wrote(b) <=> b \in wr[w].wrote)
          /\ Extra(b) = IF wr[w].pc = "commit" /\ wr[w].block = b THEN 1 ELSE 0
        BY <1>2
    <2>2. /\ Wrote(b)' <=> b \in wr'[w].wrote
          /\ Extra(b)' = IF wr'[w].pc = "commit" /\ wr'[w].block = b THEN 1 ELSE 0
        BY OneWriterNext
    <2> QED BY <1>1, <1>e, <2>1, <2>2, DataFacts
            DEF Stores, Kept, Holds, OnDisk, Mapped, Pinned, WriterData, WriterPlace, Evicting, Filling, Searching
<1>4. WriterData(w)'
    BY <1>1, <1>2, <1>e, DataFacts
    DEF WriterData, Stores, Kept, Holds, OnDisk, WriterPlace, Mapped, Pinned, Evicting, Filling, Searching
<1> QED BY <1>3, <1>4, DataSuffices

LEMMA ForceRemoveData ==
    ASSUME SingleWriter, PlaceInv, DataInv, NEW w \in Writers, ForceRemove(w)
    PROVE  DataInv'
<1>1. (\A b \in Blocks : Mapped(b)) /\ Pinned(w) /\ WriterPlace(w) /\ WriterData(w)
    BY DEF PlaceInv, DataInv
<1>2. \A b \in Blocks : /\ Stores(b) /\ (Wrote(b) <=> b \in wr[w].wrote)
                       /\ Extra(b) = IF wr[w].pc = "commit" /\ wr[w].block = b THEN 1 ELSE 0
    BY OneWriter DEF DataInv
<1>e. /\ wr[w].pc = "force" /\ wr[w].block \in Blocks /\ HoldsShard(wr[w].block) = {}
      /\ wr'[w].pc = "release" /\ wr'[w].block = wr[w].block /\ wr'[w].new = wr[w].new
      /\ wr'[w].frame = wr[w].frame /\ wr'[w].wrote = wr[w].wrote
      /\ table'[wr[w].block] = NoBlock
      /\ \A c \in Blocks : c # wr[w].block => table'[c] = table[c]
      /\ frames' = frames /\ disk' = disk /\ use' = use
    BY ForceRemoveEffect, DataFacts DEF Page, Use, Synced, NewPage
<1>3. ASSUME NEW b \in Blocks PROVE Stores(b)'
    <2>1. /\ Stores(b) /\ (Wrote(b) <=> b \in wr[w].wrote)
          /\ Extra(b) = IF wr[w].pc = "commit" /\ wr[w].block = b THEN 1 ELSE 0
        BY <1>2
    <2>2. /\ Wrote(b)' <=> b \in wr'[w].wrote
          /\ Extra(b)' = IF wr'[w].pc = "commit" /\ wr'[w].block = b THEN 1 ELSE 0
        BY OneWriterNext
    <2> QED BY <1>1, <1>e, <2>1, <2>2, DataFacts
            DEF Stores, Kept, Holds, OnDisk, Mapped, Pinned, WriterData, WriterPlace, Evicting, Filling, Searching
<1>4. WriterData(w)'
    BY <1>1, <1>2, <1>e, DataFacts
    DEF WriterData, Stores, Kept, Holds, OnDisk, WriterPlace, Mapped, Pinned, Evicting, Filling, Searching
<1> QED BY <1>3, <1>4, DataSuffices

LEMMA ForceFreeData ==
    ASSUME SingleWriter, PlaceInv, DataInv, NEW w \in Writers, ForceFree(w)
    PROVE  DataInv'
<1>1. (\A b \in Blocks : Mapped(b)) /\ Pinned(w) /\ WriterPlace(w) /\ WriterData(w)
    BY DEF PlaceInv, DataInv
<1>2. \A b \in Blocks : /\ Stores(b) /\ (Wrote(b) <=> b \in wr[w].wrote)
                       /\ Extra(b) = IF wr[w].pc = "commit" /\ wr[w].block = b THEN 1 ELSE 0
    BY OneWriter DEF DataInv
<1>e. /\ wr[w].pc = "release" /\ wr[w].frame \in Frames
      /\ wr'[w].pc = "idle" /\ wr'[w].block = NoBlock /\ wr'[w].new = FALSE
      /\ wr'[w].frame = NoFrame /\ wr'[w].wrote = wr[w].wrote
      /\ \A g \in Frames : g # wr[w].frame => frames'[g] = frames[g]
      /\ frames'[wr[w].frame].block = NoBlock /\ frames'[wr[w].frame].dirty = FALSE
      /\ frames'[wr[w].frame].page.use = frames[wr[w].frame].page.use /\ frames'[wr[w].frame].page.n = frames[wr[w].frame].page.n
      /\ frames'[wr[w].frame].len = frames[wr[w].frame].len
      /\ table' = table /\ disk' = disk /\ use' = use
    BY ForceFreeEffect, DataFacts DEF Page, Use, Synced, NewPage
<1>3. ASSUME NEW b \in Blocks PROVE Stores(b)'
    <2>1. /\ Stores(b) /\ (Wrote(b) <=> b \in wr[w].wrote)
          /\ Extra(b) = IF wr[w].pc = "commit" /\ wr[w].block = b THEN 1 ELSE 0
        BY <1>2
    <2>2. /\ Wrote(b)' <=> b \in wr'[w].wrote
          /\ Extra(b)' = IF wr'[w].pc = "commit" /\ wr'[w].block = b THEN 1 ELSE 0
        BY OneWriterNext
    <2> QED BY <1>1, <1>e, <2>1, <2>2, DataFacts
            DEF Stores, Kept, Holds, OnDisk, Mapped, Pinned, WriterData, WriterPlace, Evicting, Filling, Searching
<1>4. WriterData(w)'
    BY <1>1, <1>2, <1>e, DataFacts
    DEF WriterData, Stores, Kept, Holds, OnDisk, WriterPlace, Mapped, Pinned, Evicting, Filling, Searching
<1> QED BY <1>3, <1>4, DataSuffices

LEMMA ForceCheckData ==
    ASSUME SingleWriter, PlaceInv, DataInv, NEW w \in Writers, ForceCheck(w)
    PROVE  DataInv'
<1>1. WriterData(w) /\ \A b \in Blocks : Stores(b)
    BY DEF DataInv
<1>2. /\ wr[w].pc = "idle" /\ frames' = frames /\ table' = table /\ disk' = disk /\ use' = use
      /\ \/ wr' = wr
         \/ /\ wr'[w].pc = "force" /\ wr'[w].block = On(w) /\ use[On(w)].state = "dead"
            /\ wr'[w].new = wr[w].new /\ wr'[w].wrote = wr[w].wrote
    BY ForceCheckEffect
<1>3. ASSUME NEW b \in Blocks PROVE Stores(b)'
    <2>1. Extra(b)' = Extra(b) /\ (Wrote(b)' <=> Wrote(b))
        BY <1>2, OneWriter, OneWriterNext
    <2> QED BY <1>1, <1>2, <2>1 DEF Stores, Kept, Holds, OnDisk
<1>4. WriterData(w)'
    BY <1>1, <1>2 DEF WriterData, Searching, Kept, Holds, OnDisk
<1> QED BY <1>3, <1>4, DataSuffices

LEMMA FlushPageData ==
    ASSUME SingleWriter, PlaceInv, DataInv, NEW w \in Writers, FlushPage(w)
    PROVE  DataInv'
<1>1. WriterData(w) /\ WriterPlace(w) /\ (\A b \in Blocks : Stores(b)) /\ (\A b \in Blocks : Mapped(b))
    BY DEF DataInv, PlaceInv
<1>2. wr[w].pc = "idle" /\ On(w) \in Blocks /\ table' = table /\ use' = use /\ ~wr[w].new
    BY <1>1, FlushPageEffect DEF WriterData, Searching
<1>3. CASE wr' = wr /\ frames' = frames /\ disk' = disk
    <2>1. ASSUME NEW b \in Blocks PROVE Stores(b)'
        <3>1. Extra(b)' = Extra(b) /\ (Wrote(b)' <=> Wrote(b))
            BY <1>3, OneWriter, OneWriterNext
        <3> QED BY <1>1, <1>2, <1>3, <3>1 DEF Stores, Kept, Holds, OnDisk
    <2>2. WriterData(w)'
        BY <1>1, <1>2, <1>3 DEF WriterData, Searching, Kept, Holds, OnDisk
    <2> QED BY <2>1, <2>2, DataSuffices
<1>4. CASE ~(wr' = wr /\ frames' = frames /\ disk' = disk)
    <2>1. /\ table[On(w)] \in Frames
          /\ wr'[w].pc = "flushed" /\ wr'[w].frame = table[On(w)] /\ wr'[w].new = wr[w].new /\ wr'[w].wrote = wr[w].wrote
          /\ frames'[table[On(w)]] = [frames[table[On(w)]] EXCEPT !.page = Synced(table[On(w)])]
          /\ \A g \in Frames : g # table[On(w)] => frames'[g] = frames[g]
          /\ disk' = WritePage(table[On(w)])
        BY <1>4, FlushPageEffect
    <2>2. PICK f \in Frames : f = table[On(w)]
        BY <2>1
    <2>3. PICK c \in Blocks : c = On(w)
        BY <1>2
    <2>4. frames[f].block = c /\ frames[f] \in FrameType /\ disk \in [Blocks -> Page \cup {NoBlock}]
        BY <1>1, <2>2, <2>3 DEF Mapped, PlaceInv, TypeInv
    <2>5. frames[f].page \in Page /\ frames[f].len \in Nat
        BY <2>4 DEF FrameType
    <2>6. Synced(f) = [use |-> frames[f].page.use, n |-> frames[f].page.n, header |-> frames[f].len]
        BY <2>5 DEF Synced, Page
    <2>7. /\ frames'[f].block = c /\ frames'[f].page = Synced(f)
          /\ frames'[f].len = frames[f].len /\ frames'[f].dirty = frames[f].dirty
        BY <2>1, <2>2, <2>4 DEF FrameType
    <2>8. disk'[c] = Synced(f) /\ \A b \in Blocks : b # c => disk'[b] = disk[b]
        BY <2>1, <2>2, <2>4 DEF WritePage
    <2>9. Kept(c) => disk'[c] = [use |-> use[c].uses, n |-> use[c].n, header |-> use[c].n]
        <3>1. Stores(c) /\ Extra(c) = 0 /\ use[c].n \in Nat /\ table[c] = f
            BY <1>1, <1>2, <2>2, <2>3, OneWriter, DataFacts
        <3>2. Kept(c) => frames[f].page.use = use[c].uses /\ frames[f].page.n = use[c].n /\ frames[f].len = use[c].n
            BY <3>1 DEF Stores, Holds
        <3> QED BY <2>6, <2>8, <3>2
    <2>10. ASSUME NEW b \in Blocks PROVE Stores(b)'
        <3>1. Extra(b)' = Extra(b) /\ (Wrote(b)' <=> Wrote(b))
            BY <1>2, <2>1, OneWriter, OneWriterNext
        <3>2. table[b] \in Frames =>
                  /\ frames'[table[b]].page.use = frames[table[b]].page.use /\ frames'[table[b]].page.n = frames[table[b]].page.n
                  /\ frames'[table[b]].len = frames[table[b]].len /\ frames'[table[b]].dirty = frames[table[b]].dirty
            BY <2>1, <2>2, <2>6, <2>7
        <3>3. OnDisk(b) /\ Kept(b) => OnDisk(b)'
            BY <1>2, <2>8, <2>9 DEF OnDisk
        <3> QED BY <1>1, <1>2, <3>1, <3>2, <3>3, DataFacts DEF Stores, Kept, Holds
    <2>11. WriterData(w)'
        BY <1>2, <2>1, <2>2, <2>7, <2>9 DEF WriterData, Kept, OnDisk
    <2> QED BY <2>10, <2>11, DataSuffices
<1> QED BY <1>3, <1>4

LEMMA WriterKeeps ==
    ASSUME SingleWriter, PlaceInv, DataInv, NEW w \in Writers, PoolCall(w)
    PROVE  DataInv'
<1>2. CASE FetchPage(w) \/ AllocNewPage(w) \/ Hit(w) \/ Miss(w) \/ Reinit(w)
    BY <1>2, FetchPageData, AllocNewPageData, HitData, MissData, ReinitData
<1>3. CASE Vacant(w) \/ TakeFree(w) \/ Candidate(w) \/ GiveUp(w) \/ FlushVictim(w)
    BY <1>3, VacantData, TakeFreeData, CandidateData, GiveUpData, FlushVictimData
<1>4. CASE RemoveVictim(w) \/ ResetVictim(w) \/ LoadPage(w) \/ Publish(w) \/ Insert(w)
    BY <1>4, RemoveVictimData, ResetVictimData, LoadPageData, PublishData, InsertData
<1>5. CASE Append_Data(w) \/ Append_Commit(w) \/ UnpinPage(w) \/ Skip(w) \/ FlushPage(w)
    BY <1>5, Append_DataData, Append_CommitData, UnpinPageData, SkipData, FlushPageData
<1>6. CASE FlushDone(w) \/ Bury(w) \/ ForceCheck(w) \/ ForceRemove(w) \/ ForceFree(w)
    BY <1>6, FlushDoneData, BuryData, ForceCheckData, ForceRemoveData, ForceFreeData
<1> QED BY <1>2, <1>3, <1>4, <1>5, <1>6 DEF PoolCall

(* Pages, file and uses are the writer's alone.                             *)
LEMMA DataUnchanged ==
    ASSUME PlaceInv, DataInv, UNCHANGED <<wr, table, disk, use>>,
           \A f \in Frames : /\ frames'[f].block = frames[f].block /\ frames'[f].page = frames[f].page
                             /\ frames'[f].len = frames[f].len /\ frames'[f].dirty = frames[f].dirty
    PROVE  DataInv'
<1>1. ASSUME NEW b \in Blocks PROVE Stores(b)'
    <2>1. Stores(b)
        BY DEF DataInv
    <2>2. Extra(b)' = Extra(b) /\ (Wrote(b)' <=> Wrote(b))
        BY DEF Extra, Wrote
    <2> QED BY <2>1, <2>2 DEF Stores, Kept, Holds, OnDisk
<1>2. ASSUME NEW w \in Writers PROVE WriterData(w)'
    <2>1. WriterData(w)
        BY DEF DataInv
    <2>2. /\ wr[w].pc \in {"remove", "reset", "flushed", "publish", "insert"} => wr[w].frame \in Frames
        BY DEF PlaceInv, WriterPlace, Evicting, Filling
    <2> QED BY <2>1, <2>2 DEF WriterData, Kept, Holds, OnDisk
<1> QED BY <1>1, <1>2 DEF DataInv

LEMMA InitData ==
    ASSUME Init
    PROVE  DataInv
<1>1. \A w \in Writers : wr[w].pc = "idle" /\ ~wr[w].new
    BY DEF Init, IdleWriter
<1>2. \A b \in Blocks : table[b] = NoBlock /\ NoBlock \notin Frames
    BY BufferAssumption DEF Init
<1>3. ASSUME NEW b \in Blocks PROVE Stores(b)
    <2>1. CASE b \in Stored
        <3>1. /\ disk[b] = [use |-> 1, n |-> 1, header |-> 1]
              /\ use[b] = [state |-> "live", uses |-> 1, n |-> 1]
            BY <2>1 DEF Init
        <3> QED BY <1>2, <3>1 DEF Stores, Kept, OnDisk
    <2>2. CASE b \notin Stored
        <3>1. use[b] = [state |-> "unused", uses |-> 0, n |-> 0]
            BY <2>2 DEF Init
        <3> QED BY <3>1 DEF Stores, Kept
    <2> QED BY <2>1, <2>2
<1>4. \A w \in Writers : WriterData(w)
    BY <1>1 DEF WriterData
<1> QED BY <1>3, <1>4 DEF DataInv

LEMMA DataStep ==
    ASSUME SingleWriter, PlaceInv, DataInv, [Next]_vars
    PROVE  DataInv'
<1>1. CASE \E w \in Writers : PoolCall(w)
    BY <1>1, WriterKeeps
<1>2. CASE \E r \in Readers : Read(r)
    <2>1. PICK r \in Readers : Read(r)
        BY <1>2
    <2>2. TypeInv
        BY DEF PlaceInv
    <2>3. /\ UNCHANGED <<wr, table, disk, use>>
          /\ \A f \in Frames : /\ frames'[f].block = frames[f].block /\ frames'[f].page = frames[f].page
                               /\ frames'[f].len = frames[f].len /\ frames'[f].dirty = frames[f].dirty
        BY <2>1, <2>2, ReaderTypes
    <2> QED BY <2>3, DataUnchanged
<1>3. CASE UNCHANGED vars
    BY <1>3, DataUnchanged DEF vars
<1> QED BY <1>1, <1>2, <1>3 DEF Next, Done

(* An evicted page is not lost: a node of the tree that is in no frame is    *)
(* in the file, in its present use, with every committed entry and a header  *)
(* that counts them, although a forced eviction does not flush and the      *)
(* graveyard hands blocks out again.                                        *)
THEOREM SpecDurable == SingleWriter => (Spec => []Durable)
<1> SUFFICES ASSUME SingleWriter PROVE Spec => []Durable
    OBVIOUS
<1>1. Init => PlaceInv /\ DataInv
    BY InitPlaces, InitData
<1>2. PlaceInv /\ DataInv /\ [Next]_vars => PlaceInv' /\ DataInv'
    BY PlaceStep, DataStep
<1>3. DataInv => Durable
    BY DEF DataInv, Stores, Kept, OnDisk, Durable
<1> QED BY <1>1, <1>2, <1>3, PTL DEF Spec

-----------------------------------------------------------------------------
(* What a reader sees: every step keeps ReadInv.                            *)

(* The quantifiers over writers are about the one there is.                 *)
LEMMA OneFrame ==
    ASSUME SingleWriter, NEW w \in Writers, NEW f, NEW b
    PROVE  /\ Mine(f, b) <=>
                /\ frames[f].block \in {b, NoBlock}
                /\ frames[f].page.use = use[b].uses /\ frames[f].len = use[b].n /\ use[b].n <= frames[f].page.n
                /\ frames[f].block = NoBlock => use[b].state = "dead" \/ (wr[w].frame = f /\ wr[w].pc \in Filling)
           /\ Another(f, b) <=>
                \/ frames[f].block \in Blocks \ {b}
                \/ wr[w].frame = f /\ wr[w].pc = "publish" /\ wr[w].block # b
<1>1. \A v \in Writers : v = w
    BY DEF SingleWriter
<1>2. (\E v \in Writers : wr[v].frame = f /\ wr[v].pc \in Filling) <=> (wr[w].frame = f /\ wr[w].pc \in Filling)
    BY <1>1
<1>3. (\E v \in Writers : wr[v].frame = f /\ wr[v].pc = "publish" /\ wr[v].block # b)
          <=> (wr[w].frame = f /\ wr[w].pc = "publish" /\ wr[w].block # b)
    BY <1>1
<1> QED BY <1>2, <1>3 DEF Mine, Another

LEMMA OneFrameNext ==
    ASSUME SingleWriter, NEW w \in Writers, NEW f, NEW b
    PROVE  /\ Mine(f, b)' <=>
                /\ frames'[f].block \in {b, NoBlock}
                /\ frames'[f].page.use = use'[b].uses /\ frames'[f].len = use'[b].n /\ use'[b].n <= frames'[f].page.n
                /\ frames'[f].block = NoBlock => use'[b].state = "dead" \/ (wr'[w].frame = f /\ wr'[w].pc \in Filling)
           /\ Another(f, b)' <=>
                \/ frames'[f].block \in Blocks \ {b}
                \/ wr'[w].frame = f /\ wr'[w].pc = "publish" /\ wr'[w].block # b
<1>1. \A v \in Writers : v = w
    BY DEF SingleWriter
<1>2. (\E v \in Writers : wr'[v].frame = f /\ wr'[v].pc \in Filling) <=> (wr'[w].frame = f /\ wr'[w].pc \in Filling)
    BY <1>1
<1>3. (\E v \in Writers : wr'[v].frame = f /\ wr'[v].pc = "publish" /\ wr'[v].block # b)
          <=> (wr'[w].frame = f /\ wr'[w].pc = "publish" /\ wr'[w].block # b)
    BY <1>1
<1> QED BY <1>2, <1>3 DEF Mine, Another

(* What a writer's step has to leave to a reader.                           *)
LEMMA ReadSuffices ==
    ASSUME SingleWriter, NEW w \in Writers, NEW r \in Readers, TypeInv, TypeInv', ReaderAt(r), rd' = rd,
           epoch' >= epoch, NEW f, NEW b, f = rd[r].frame, b = rd[r].block,
           rd[r].pc # "idle" => Kept(b)' /\ use'[b].uses = use[b].uses /\ use[b].n <= use'[b].n,
           rd[r].pc = "touch" => table'[b] = f,
           rd[r].pc \in Touched =>
              /\ frames'[f].last > rd[r].slot \/ (wr'[w].frame = f /\ wr'[w].pc \in Filling)
              /\ Another(f, b) => Another(f, b)'
              /\ Mine(f, b) => Mine(f, b)' \/ Another(f, b)'
              /\ wr'[w].pc \in Evicting /\ wr'[w].frame = f => frames'[f].block = b
    PROVE  ReaderAt(r)'
<1>1. \A v \in Writers : v = w
    BY DEF SingleWriter
<1>2. /\ epoch \in Nat /\ epoch' \in Nat /\ rd[r] \in ReaderType
      /\ b \in Blocks => use[b] \in Use /\ use'[b] \in Use
    BY DEF TypeInv
<1>3. /\ rd[r].seen \in Nat /\ rd[r].slot \in Nat \cup {Inactive} /\ rd[r].from.n \in Nat /\ rd[r].len \in Nat
      /\ rd[r].page.n \in Nat
      /\ b \in Blocks => use[b].n \in Nat /\ use'[b].n \in Nat
    BY <1>2 DEF ReaderType, Page, Use
<1>4. rd'[r] = rd[r] /\ rd'[r].frame = f /\ rd'[r].block = b
    OBVIOUS
<1>5. rd[r].pc # "idle" => b \in Blocks /\ Kept(b)' /\ rd[r].seen <= epoch'
    BY <1>2, <1>3 DEF ReaderAt
<1>6. rd[r].pc \notin {"idle", "enter"} => rd[r].slot \in Nat /\ rd[r].slot <= epoch'
    BY <1>2, <1>3 DEF ReaderAt
<1>7. rd[r].pc \in {"touch", "accepted"} \cup Touched =>
          f \in Frames /\ rd[r].from.use = use'[b].uses /\ rd[r].from.n <= use'[b].n
    BY <1>3, <1>5 DEF ReaderAt, Touched
<1>8. rd[r].pc \in Touched => HeldBack(r)'
    BY <1>4 DEF HeldBack
<1>9. rd[r].pc \in Touched => Mine(f, b)' \/ Another(f, b)'
    BY DEF ReaderAt
<1>10. rd[r].pc \in Touched => \A v \in Writers : wr'[v].pc \in Evicting /\ wr'[v].frame = f => frames'[f].block = b
    BY <1>1
<1>11. rd[r].pc \in {"scan", "validate"} =>
           Another(f, b)' \/ (rd[r].from.n <= rd[r].len /\ rd[r].len <= use'[b].n)
    BY <1>3, <1>5 DEF ReaderAt, Touched
<1>12. rd[r].pc = "validate" => Another(f, b)' \/ (rd[r].page.use = use'[b].uses /\ rd[r].len <= rd[r].page.n)
    BY DEF ReaderAt, Touched
<1>13. rd[r].pc = "accepted" =>
           rd[r].page.use = use'[b].uses /\ rd[r].from.n <= rd[r].len /\ rd[r].len <= rd[r].page.n
    BY DEF ReaderAt
<1> QED BY <1>4, <1>5, <1>6, <1>7, <1>8, <1>9, <1>10, <1>11, <1>12, <1>13 DEF ReaderAt

LEMMA ReadFacts ==
    ASSUME SingleWriter, PlaceInv, ReadInv, NEW w \in Writers, NEW r \in Readers
    PROVE  /\ ReaderAt(r) /\ epoch \in Nat
           /\ rd[r].pc # "idle" => rd[r].block \in Blocks /\ Kept(rd[r].block)
           /\ rd[r].pc \in Touched =>
                /\ rd[r].frame \in Frames /\ rd[r].slot \in Nat /\ rd[r].slot <= epoch
                /\ frames[rd[r].frame].last > rd[r].slot \/ (wr[w].frame = rd[r].frame /\ wr[w].pc \in Filling)
                /\ wr[w].pc \in Evicting /\ wr[w].frame = rd[r].frame => frames[rd[r].frame].block = rd[r].block
                /\ frames[rd[r].frame].last \in Nat
           /\ rd[r].pc = "touch" => table[rd[r].block] = rd[r].frame /\ rd[r].frame \in Frames
<1>1. ReaderAt(r) /\ TypeInv
    BY DEF ReadInv, PlaceInv
<1>2. \A v \in Writers : v = w
    BY DEF SingleWriter
<1>3. epoch \in Nat /\ \A f \in Frames : frames[f].last \in Nat
    BY <1>1 DEF TypeInv, FrameType
<1>4. rd[r].pc \in Touched => HeldBack(r) /\ rd[r].frame \in Frames /\ rd[r].slot \in Nat /\ rd[r].slot <= epoch
    BY <1>1 DEF ReaderAt, Touched
<1>5. HeldBack(r) => frames[rd[r].frame].last > rd[r].slot \/ (wr[w].frame = rd[r].frame /\ wr[w].pc \in Filling)
    BY <1>2 DEF HeldBack
<1>6. rd[r].pc \in Touched =>
          (wr[w].pc \in Evicting /\ wr[w].frame = rd[r].frame => frames[rd[r].frame].block = rd[r].block)
    BY <1>1 DEF ReaderAt
<1>7. rd[r].pc # "idle" => rd[r].block \in Blocks /\ Kept(rd[r].block)
    BY <1>1 DEF ReaderAt
<1>8. rd[r].pc = "touch" => table[rd[r].block] = rd[r].frame /\ rd[r].frame \in Frames
    BY <1>1 DEF ReaderAt
<1> QED BY <1>1, <1>3, <1>4, <1>5, <1>6, <1>7, <1>8

LEMMA FetchPageReads ==
    ASSUME SingleWriter, PlaceInv, DataInv, ReadInv, NEW w \in Writers, FetchPage(w), TypeInv', NEW r \in Readers
    PROVE  ReaderAt(r)'
<1>1. /\ (\A c \in Blocks : Mapped(c) /\ Stores(c)) /\ (\A g \in Frames : Resident(g))
      /\ Pinned(w) /\ WriterPlace(w) /\ WriterData(w) /\ ReaderAt(r) /\ TypeInv
    BY DEF PlaceInv, DataInv, ReadInv
<1>2. PICK b, f : b = rd[r].block /\ f = rd[r].frame
    OBVIOUS
<1>3. /\ rd[r].pc # "idle" => b \in Blocks /\ Kept(b)
      /\ rd[r].pc \in Touched =>
           /\ f \in Frames /\ rd[r].slot \in Nat /\ rd[r].slot <= epoch /\ frames[f].last \in Nat
           /\ frames[f].last > rd[r].slot \/ (wr[w].frame = f /\ wr[w].pc \in Filling)
           /\ wr[w].pc \in Evicting /\ wr[w].frame = f => frames[f].block = b
      /\ rd[r].pc = "touch" => table[b] = f /\ f \in Frames
      /\ epoch \in Nat
    BY <1>2, ReadFacts
<1>e. /\ wr[w].pc = "idle" /\ On(w) \in Blocks
      /\ wr'[w].pc = "get" /\ wr'[w].block = On(w) /\ wr'[w].new = FALSE
      /\ wr'[w].frame = wr[w].frame
      /\ frames' = frames /\ table' = table /\ use' = use
      /\ epoch' = epoch
    BY FetchPageEffect, DataFacts
<1>4. rd' = rd /\ epoch' >= epoch
    <2>1. rd' = rd
        BY FetchPageEffect
    <2> QED BY <1>3, <1>e, <2>1
<1>5. rd[r].pc # "idle" => Kept(b)' /\ use'[b].uses = use[b].uses /\ use[b].n <= use'[b].n
    BY <1>1, <1>2, <1>3, <1>e, DataFacts DEF Kept, WriterData
<1>6. rd[r].pc = "touch" => table'[b] = f
    BY <1>1, <1>2, <1>3, <1>e, DataFacts DEF WriterPlace, Searching
<1>7. ASSUME rd[r].pc \in Touched
      PROVE  /\ frames'[f].last > rd[r].slot \/ (wr'[w].frame = f /\ wr'[w].pc \in Filling)
             /\ Another(f, b) => Another(f, b)'
             /\ Mine(f, b) => Mine(f, b)' \/ Another(f, b)'
             /\ wr'[w].pc \in Evicting /\ wr'[w].frame = f => frames'[f].block = b
    <2>0. b \in Blocks /\ Kept(b) /\ f \in Frames /\ use'[b].uses = use[b].uses /\ rd[r].pc # "idle"
        BY <1>3, <1>5, <1>7 DEF Touched
    <2>1. frames'[f].last > rd[r].slot \/ (wr'[w].frame = f /\ wr'[w].pc \in Filling)
        BY <1>1, <1>3, <1>7, <1>e, <2>0, DataFacts DEF Filling
    <2>2. Another(f, b) => Another(f, b)'
        BY <1>1, <1>3, <1>7, <1>e, <2>0, DataFacts, OneFrame, OneFrameNext DEF WriterPlace, WriterData, Evicting, Filling
    <2>3. Mine(f, b) => Mine(f, b)' \/ Another(f, b)'
        BY <1>1, <1>3, <1>7, <1>e, <2>0, DataFacts, OneFrame, OneFrameNext
        DEF WriterPlace, WriterData, Evicting, Filling, Kept
    <2>4. wr'[w].pc \in Evicting /\ wr'[w].frame = f => frames'[f].block = b
        BY <1>1, <1>2, <1>3, <1>7, <1>e, <2>0, DataFacts DEF Evicting, Filling
    <2> QED BY <2>1, <2>2, <2>3, <2>4
<1> QED BY <1>1, <1>2, <1>4, <1>5, <1>6, <1>7, ReadSuffices

LEMMA AllocNewPageReads ==
    ASSUME SingleWriter, PlaceInv, DataInv, ReadInv, NEW w \in Writers, AllocNewPage(w), TypeInv', NEW r \in Readers
    PROVE  ReaderAt(r)'
<1>1. /\ (\A c \in Blocks : Mapped(c) /\ Stores(c)) /\ (\A g \in Frames : Resident(g))
      /\ Pinned(w) /\ WriterPlace(w) /\ WriterData(w) /\ ReaderAt(r) /\ TypeInv
    BY DEF PlaceInv, DataInv, ReadInv
<1>2. PICK b, f : b = rd[r].block /\ f = rd[r].frame
    OBVIOUS
<1>3. /\ rd[r].pc # "idle" => b \in Blocks /\ Kept(b)
      /\ rd[r].pc \in Touched =>
           /\ f \in Frames /\ rd[r].slot \in Nat /\ rd[r].slot <= epoch /\ frames[f].last \in Nat
           /\ frames[f].last > rd[r].slot \/ (wr[w].frame = f /\ wr[w].pc \in Filling)
           /\ wr[w].pc \in Evicting /\ wr[w].frame = f => frames[f].block = b
      /\ rd[r].pc = "touch" => table[b] = f /\ f \in Frames
      /\ epoch \in Nat
    BY <1>2, ReadFacts
<1>e. /\ wr[w].pc = "idle" /\ On(w) \in Blocks
      /\ wr'[w].pc = "entry" /\ wr'[w].block = On(w) /\ wr'[w].new = TRUE
      /\ wr'[w].frame = wr[w].frame
      /\ use'[On(w)].state = "new" /\ use'[On(w)].uses = use[On(w)].uses + 1 /\ use'[On(w)].n = 0
      /\ \A c \in Blocks : c # On(w) => use'[c] = use[c]
      /\ frames' = frames /\ table' = table
      /\ epoch' = epoch
      /\ Reads(On(w)) = {}
    <2>a. use[On(w)] \in Use
        BY AllocNewPageEffect, DataFacts
    <2>1. wr[w].pc = "idle" /\ On(w) \in Blocks
        BY AllocNewPageEffect, <2>a
    <2>2. wr'[w].pc = "entry" /\ wr'[w].block = On(w) /\ wr'[w].new = TRUE
        BY AllocNewPageEffect, <2>a
    <2>3. wr'[w].frame = wr[w].frame
        BY AllocNewPageEffect, <2>a
    <2>4. use'[On(w)].state = "new" /\ use'[On(w)].uses = use[On(w)].uses + 1 /\ use'[On(w)].n = 0
        <3>1. use'[On(w)] = [state |-> "new", uses |-> use[On(w)].uses + 1, n |-> 0]
            BY AllocNewPageEffect
        <3> QED BY <2>a, <3>1 DEF Use
    <2>5. \A c \in Blocks : c # On(w) => use'[c] = use[c]
        BY AllocNewPageEffect, <2>a
    <2>6. frames' = frames /\ table' = table
        BY AllocNewPageEffect, <2>a
    <2>7. epoch' = epoch
        BY AllocNewPageEffect, <2>a
    <2>8. Reads(On(w)) = {}
        BY AllocNewPageEffect, <2>a
    <2> QED BY <2>1, <2>2, <2>3, <2>4, <2>5, <2>6, <2>7, <2>8
<1>4. rd' = rd /\ epoch' >= epoch
    <2>1. rd' = rd
        BY AllocNewPageEffect
    <2> QED BY <1>3, <1>e, <2>1
<1>5. rd[r].pc # "idle" => Kept(b)' /\ use'[b].uses = use[b].uses /\ use[b].n <= use'[b].n
    BY <1>1, <1>2, <1>3, <1>e, DataFacts DEF Kept, WriterData, Reads
<1>6. rd[r].pc = "touch" => table'[b] = f
    BY <1>1, <1>2, <1>3, <1>e, DataFacts DEF WriterPlace, Searching
<1>7. ASSUME rd[r].pc \in Touched
      PROVE  /\ frames'[f].last > rd[r].slot \/ (wr'[w].frame = f /\ wr'[w].pc \in Filling)
             /\ Another(f, b) => Another(f, b)'
             /\ Mine(f, b) => Mine(f, b)' \/ Another(f, b)'
             /\ wr'[w].pc \in Evicting /\ wr'[w].frame = f => frames'[f].block = b
    <2>0. b \in Blocks /\ Kept(b) /\ f \in Frames /\ use'[b].uses = use[b].uses /\ rd[r].pc # "idle"
        BY <1>3, <1>5, <1>7 DEF Touched
    <2>1. frames'[f].last > rd[r].slot \/ (wr'[w].frame = f /\ wr'[w].pc \in Filling)
        BY <1>1, <1>3, <1>7, <1>e, <2>0, DataFacts DEF Filling
    <2>2. Another(f, b) => Another(f, b)'
        BY <1>1, <1>3, <1>7, <1>e, <2>0, DataFacts, OneFrame, OneFrameNext DEF WriterPlace, WriterData, Evicting, Filling
    <2>3. Mine(f, b) => Mine(f, b)' \/ Another(f, b)'
        BY <1>1, <1>3, <1>7, <1>e, <2>0, DataFacts, OneFrame, OneFrameNext
        DEF WriterPlace, WriterData, Evicting, Filling, Kept
    <2>4. wr'[w].pc \in Evicting /\ wr'[w].frame = f => frames'[f].block = b
        BY <1>1, <1>2, <1>3, <1>7, <1>e, <2>0, DataFacts DEF Evicting, Filling
    <2> QED BY <2>1, <2>2, <2>3, <2>4
<1> QED BY <1>1, <1>2, <1>4, <1>5, <1>6, <1>7, ReadSuffices

LEMMA HitReads ==
    ASSUME SingleWriter, PlaceInv, DataInv, ReadInv, NEW w \in Writers, Hit(w), TypeInv', NEW r \in Readers
    PROVE  ReaderAt(r)'
<1>1. /\ (\A c \in Blocks : Mapped(c) /\ Stores(c)) /\ (\A g \in Frames : Resident(g))
      /\ Pinned(w) /\ WriterPlace(w) /\ WriterData(w) /\ ReaderAt(r) /\ TypeInv
    BY DEF PlaceInv, DataInv, ReadInv
<1>2. PICK b, f : b = rd[r].block /\ f = rd[r].frame
    OBVIOUS
<1>3. /\ rd[r].pc # "idle" => b \in Blocks /\ Kept(b)
      /\ rd[r].pc \in Touched =>
           /\ f \in Frames /\ rd[r].slot \in Nat /\ rd[r].slot <= epoch /\ frames[f].last \in Nat
           /\ frames[f].last > rd[r].slot \/ (wr[w].frame = f /\ wr[w].pc \in Filling)
           /\ wr[w].pc \in Evicting /\ wr[w].frame = f => frames[f].block = b
      /\ rd[r].pc = "touch" => table[b] = f /\ f \in Frames
      /\ epoch \in Nat
    BY <1>2, ReadFacts
<1>e. /\ wr[w].pc \in {"get", "entry"} /\ ~wr[w].new /\ wr[w].block \in Blocks /\ table[wr[w].block] \in Frames
      /\ wr'[w].pc = "idle" /\ wr'[w].block = NoBlock /\ wr'[w].new = FALSE
      /\ wr'[w].frame = NoFrame
      /\ \A g \in Frames : g # table[wr[w].block] => frames'[g] = frames[g]
      /\ frames'[table[wr[w].block]].block = frames[table[wr[w].block]].block
      /\ frames'[table[wr[w].block]].page.use = frames[table[wr[w].block]].page.use /\ frames'[table[wr[w].block]].page.n = frames[table[wr[w].block]].page.n
      /\ frames'[table[wr[w].block]].len = frames[table[wr[w].block]].len
      /\ \A c \in Blocks : use'[c] = use[c]
      /\ table' = table
      /\ frames'[table[wr[w].block]].last = epoch + 1
      /\ epoch' = epoch + 1
    BY HitEffect, DataFacts
<1>4. rd' = rd /\ epoch' >= epoch
    <2>1. rd' = rd
        BY HitEffect
    <2> QED BY <1>3, <1>e, <2>1
<1>5. rd[r].pc # "idle" => Kept(b)' /\ use'[b].uses = use[b].uses /\ use[b].n <= use'[b].n
    BY <1>1, <1>2, <1>3, <1>e, DataFacts DEF Kept, WriterData
<1>6. rd[r].pc = "touch" => table'[b] = f
    BY <1>1, <1>2, <1>3, <1>e, DataFacts DEF WriterPlace, Searching
<1>7. ASSUME rd[r].pc \in Touched
      PROVE  /\ frames'[f].last > rd[r].slot \/ (wr'[w].frame = f /\ wr'[w].pc \in Filling)
             /\ Another(f, b) => Another(f, b)'
             /\ Mine(f, b) => Mine(f, b)' \/ Another(f, b)'
             /\ wr'[w].pc \in Evicting /\ wr'[w].frame = f => frames'[f].block = b
    <2>0. b \in Blocks /\ Kept(b) /\ f \in Frames /\ use'[b].uses = use[b].uses /\ rd[r].pc # "idle"
        BY <1>3, <1>5, <1>7 DEF Touched
    <2>1. frames'[f].last > rd[r].slot \/ (wr'[w].frame = f /\ wr'[w].pc \in Filling)
        BY <1>1, <1>3, <1>7, <1>e, <2>0, DataFacts DEF Filling
    <2>2. Another(f, b) => Another(f, b)'
        BY <1>1, <1>3, <1>7, <1>e, <2>0, DataFacts, OneFrame, OneFrameNext DEF WriterPlace, WriterData, Evicting, Filling
    <2>3. Mine(f, b) => Mine(f, b)' \/ Another(f, b)'
        BY <1>1, <1>3, <1>7, <1>e, <2>0, DataFacts, OneFrame, OneFrameNext
        DEF WriterPlace, WriterData, Evicting, Filling, Kept
    <2>4. wr'[w].pc \in Evicting /\ wr'[w].frame = f => frames'[f].block = b
        BY <1>1, <1>2, <1>3, <1>7, <1>e, <2>0, DataFacts DEF Evicting, Filling
    <2> QED BY <2>1, <2>2, <2>3, <2>4
<1> QED BY <1>1, <1>2, <1>4, <1>5, <1>6, <1>7, ReadSuffices

LEMMA MissReads ==
    ASSUME SingleWriter, PlaceInv, DataInv, ReadInv, NEW w \in Writers, Miss(w), TypeInv', NEW r \in Readers
    PROVE  ReaderAt(r)'
<1>1. /\ (\A c \in Blocks : Mapped(c) /\ Stores(c)) /\ (\A g \in Frames : Resident(g))
      /\ Pinned(w) /\ WriterPlace(w) /\ WriterData(w) /\ ReaderAt(r) /\ TypeInv
    BY DEF PlaceInv, DataInv, ReadInv
<1>2. PICK b, f : b = rd[r].block /\ f = rd[r].frame
    OBVIOUS
<1>3. /\ rd[r].pc # "idle" => b \in Blocks /\ Kept(b)
      /\ rd[r].pc \in Touched =>
           /\ f \in Frames /\ rd[r].slot \in Nat /\ rd[r].slot <= epoch /\ frames[f].last \in Nat
           /\ frames[f].last > rd[r].slot \/ (wr[w].frame = f /\ wr[w].pc \in Filling)
           /\ wr[w].pc \in Evicting /\ wr[w].frame = f => frames[f].block = b
      /\ rd[r].pc = "touch" => table[b] = f /\ f \in Frames
      /\ epoch \in Nat
    BY <1>2, ReadFacts
<1>e. /\ wr[w].pc = "get" /\ wr[w].block \in Blocks
      /\ wr'[w].pc = "entry" /\ wr'[w].block = wr[w].block /\ wr'[w].new = wr[w].new
      /\ wr'[w].frame = wr[w].frame
      /\ frames' = frames /\ table' = table /\ use' = use
      /\ epoch' = epoch
    BY MissEffect, DataFacts
<1>4. rd' = rd /\ epoch' >= epoch
    <2>1. rd' = rd
        BY MissEffect
    <2> QED BY <1>3, <1>e, <2>1
<1>5. rd[r].pc # "idle" => Kept(b)' /\ use'[b].uses = use[b].uses /\ use[b].n <= use'[b].n
    BY <1>1, <1>2, <1>3, <1>e, DataFacts DEF Kept, WriterData
<1>6. rd[r].pc = "touch" => table'[b] = f
    BY <1>1, <1>2, <1>3, <1>e, DataFacts DEF WriterPlace, Searching
<1>7. ASSUME rd[r].pc \in Touched
      PROVE  /\ frames'[f].last > rd[r].slot \/ (wr'[w].frame = f /\ wr'[w].pc \in Filling)
             /\ Another(f, b) => Another(f, b)'
             /\ Mine(f, b) => Mine(f, b)' \/ Another(f, b)'
             /\ wr'[w].pc \in Evicting /\ wr'[w].frame = f => frames'[f].block = b
    <2>0. b \in Blocks /\ Kept(b) /\ f \in Frames /\ use'[b].uses = use[b].uses /\ rd[r].pc # "idle"
        BY <1>3, <1>5, <1>7 DEF Touched
    <2>1. frames'[f].last > rd[r].slot \/ (wr'[w].frame = f /\ wr'[w].pc \in Filling)
        BY <1>1, <1>3, <1>7, <1>e, <2>0, DataFacts DEF Filling
    <2>2. Another(f, b) => Another(f, b)'
        BY <1>1, <1>3, <1>7, <1>e, <2>0, DataFacts, OneFrame, OneFrameNext DEF WriterPlace, WriterData, Evicting, Filling
    <2>3. Mine(f, b) => Mine(f, b)' \/ Another(f, b)'
        BY <1>1, <1>3, <1>7, <1>e, <2>0, DataFacts, OneFrame, OneFrameNext
        DEF WriterPlace, WriterData, Evicting, Filling, Kept
    <2>4. wr'[w].pc \in Evicting /\ wr'[w].frame = f => frames'[f].block = b
        BY <1>1, <1>2, <1>3, <1>7, <1>e, <2>0, DataFacts DEF Evicting, Filling
    <2> QED BY <2>1, <2>2, <2>3, <2>4
<1> QED BY <1>1, <1>2, <1>4, <1>5, <1>6, <1>7, ReadSuffices

LEMMA ReinitReads ==
    ASSUME SingleWriter, PlaceInv, DataInv, ReadInv, NEW w \in Writers, Reinit(w), TypeInv', NEW r \in Readers
    PROVE  ReaderAt(r)'
<1>1. /\ (\A c \in Blocks : Mapped(c) /\ Stores(c)) /\ (\A g \in Frames : Resident(g))
      /\ Pinned(w) /\ WriterPlace(w) /\ WriterData(w) /\ ReaderAt(r) /\ TypeInv
    BY DEF PlaceInv, DataInv, ReadInv
<1>2. PICK b, f : b = rd[r].block /\ f = rd[r].frame
    OBVIOUS
<1>3. /\ rd[r].pc # "idle" => b \in Blocks /\ Kept(b)
      /\ rd[r].pc \in Touched =>
           /\ f \in Frames /\ rd[r].slot \in Nat /\ rd[r].slot <= epoch /\ frames[f].last \in Nat
           /\ frames[f].last > rd[r].slot \/ (wr[w].frame = f /\ wr[w].pc \in Filling)
           /\ wr[w].pc \in Evicting /\ wr[w].frame = f => frames[f].block = b
      /\ rd[r].pc = "touch" => table[b] = f /\ f \in Frames
      /\ epoch \in Nat
    BY <1>2, ReadFacts
<1>e. /\ wr[w].pc = "entry" /\ wr[w].new /\ wr[w].block \in Blocks /\ table[wr[w].block] \in Frames
      /\ wr'[w].pc = "idle" /\ wr'[w].block = NoBlock /\ wr'[w].new = FALSE
      /\ wr'[w].frame = NoFrame
      /\ \A g \in Frames : g # table[wr[w].block] => frames'[g] = frames[g]
      /\ frames'[table[wr[w].block]].block = frames[table[wr[w].block]].block
      /\ frames'[table[wr[w].block]].page.use = use[wr[w].block].uses /\ frames'[table[wr[w].block]].page.n = 0
      /\ frames'[table[wr[w].block]].len = 0
      /\ use'[wr[w].block].state = "live" /\ use'[wr[w].block].uses = use[wr[w].block].uses /\ use'[wr[w].block].n = use[wr[w].block].n
      /\ \A c \in Blocks : c # wr[w].block => use'[c] = use[c]
      /\ table' = table
      /\ frames'[table[wr[w].block]].last = frames[table[wr[w].block]].last
      /\ epoch' = epoch
    <2>a. use[wr[w].block] \in Use /\ frames[table[wr[w].block]].page \in Page
        BY ReinitEffect, DataFacts
    <2>1. wr[w].pc = "entry" /\ wr[w].new /\ wr[w].block \in Blocks /\ table[wr[w].block] \in Frames
        BY ReinitEffect, <2>a
    <2>2. wr'[w].pc = "idle" /\ wr'[w].block = NoBlock /\ wr'[w].new = FALSE
        BY ReinitEffect, <2>a
    <2>3. wr'[w].frame = NoFrame
        BY ReinitEffect, <2>a
    <2>4. \A g \in Frames : g # table[wr[w].block] => frames'[g] = frames[g]
        BY ReinitEffect, <2>a
    <2>5. frames'[table[wr[w].block]].block = frames[table[wr[w].block]].block
        BY ReinitEffect, <2>a
    <2>6. frames'[table[wr[w].block]].page.use = use[wr[w].block].uses /\ frames'[table[wr[w].block]].page.n = 0
        <3>1. frames'[table[wr[w].block]].page = NewPage(use[wr[w].block].uses)
            BY ReinitEffect
        <3> QED BY <2>a, <3>1 DEF Page, Synced, NewPage
    <2>7. frames'[table[wr[w].block]].len = 0
        BY ReinitEffect, <2>a
    <2>8. use'[wr[w].block].state = "live" /\ use'[wr[w].block].uses = use[wr[w].block].uses /\ use'[wr[w].block].n = use[wr[w].block].n
        <3>1. use'[wr[w].block] = [use[wr[w].block] EXCEPT !.state = "live"]
            BY ReinitEffect
        <3> QED BY <2>a, <3>1 DEF Use
    <2>9. \A c \in Blocks : c # wr[w].block => use'[c] = use[c]
        BY ReinitEffect, <2>a
    <2>10. table' = table
        BY ReinitEffect, <2>a
    <2>11. frames'[table[wr[w].block]].last = frames[table[wr[w].block]].last
        BY ReinitEffect, <2>a
    <2>12. epoch' = epoch
        BY ReinitEffect, <2>a
    <2> QED BY <2>1, <2>2, <2>3, <2>4, <2>5, <2>6, <2>7, <2>8, <2>9, <2>10, <2>11, <2>12
<1>4. rd' = rd /\ epoch' >= epoch
    <2>1. rd' = rd
        BY ReinitEffect
    <2> QED BY <1>3, <1>e, <2>1
<1>5. rd[r].pc # "idle" => Kept(b)' /\ use'[b].uses = use[b].uses /\ use[b].n <= use'[b].n
    BY <1>1, <1>2, <1>3, <1>e, DataFacts DEF Kept, WriterData
<1>6. rd[r].pc = "touch" => table'[b] = f
    BY <1>1, <1>2, <1>3, <1>e, DataFacts DEF WriterPlace, Searching
<1>7. ASSUME rd[r].pc \in Touched
      PROVE  /\ frames'[f].last > rd[r].slot \/ (wr'[w].frame = f /\ wr'[w].pc \in Filling)
             /\ Another(f, b) => Another(f, b)'
             /\ Mine(f, b) => Mine(f, b)' \/ Another(f, b)'
             /\ wr'[w].pc \in Evicting /\ wr'[w].frame = f => frames'[f].block = b
    <2>0. b \in Blocks /\ Kept(b) /\ f \in Frames /\ use'[b].uses = use[b].uses /\ rd[r].pc # "idle"
        BY <1>3, <1>5, <1>7 DEF Touched
    <2>1. frames'[f].last > rd[r].slot \/ (wr'[w].frame = f /\ wr'[w].pc \in Filling)
        BY <1>1, <1>3, <1>7, <1>e, <2>0, DataFacts DEF Filling
    <2>2. Another(f, b) => Another(f, b)'
        BY <1>1, <1>3, <1>7, <1>e, <2>0, DataFacts, OneFrame, OneFrameNext DEF WriterPlace, WriterData, Evicting, Filling
    <2>3. Mine(f, b) => Mine(f, b)' \/ Another(f, b)'
        <3> SUFFICES ASSUME Mine(f, b) PROVE Mine(f, b)' \/ Another(f, b)'
            OBVIOUS
        <3>1. /\ frames[f].block \in {b, NoBlock} /\ frames[f].page.use = use[b].uses /\ frames[f].len = use[b].n
              /\ use[b].n <= frames[f].page.n
              /\ frames[f].block = NoBlock => use[b].state = "dead"
            BY <1>e, OneFrame DEF Filling
        <3>2. wr[w].block # b
            BY <1>1, <1>e, <2>0 DEF WriterData, Kept
        <3>3. frames[table[wr[w].block]].block = wr[w].block
            BY <1>1, <1>e DEF Mapped
        <3>4. f # table[wr[w].block]
            BY <1>e, <3>1, <3>2, <3>3, DataFacts
        <3>5. frames'[f] = frames[f] /\ use'[b] = use[b]
            BY <1>e, <2>0, <3>2, <3>4
        <3> QED BY <3>1, <3>5, OneFrameNext
    <2>4. wr'[w].pc \in Evicting /\ wr'[w].frame = f => frames'[f].block = b
        BY <1>1, <1>2, <1>3, <1>7, <1>e, <2>0, DataFacts DEF Evicting, Filling
    <2> QED BY <2>1, <2>2, <2>3, <2>4
<1> QED BY <1>1, <1>2, <1>4, <1>5, <1>6, <1>7, ReadSuffices

LEMMA VacantReads ==
    ASSUME SingleWriter, PlaceInv, DataInv, ReadInv, NEW w \in Writers, Vacant(w), TypeInv', NEW r \in Readers
    PROVE  ReaderAt(r)'
<1>1. /\ (\A c \in Blocks : Mapped(c) /\ Stores(c)) /\ (\A g \in Frames : Resident(g))
      /\ Pinned(w) /\ WriterPlace(w) /\ WriterData(w) /\ ReaderAt(r) /\ TypeInv
    BY DEF PlaceInv, DataInv, ReadInv
<1>2. PICK b, f : b = rd[r].block /\ f = rd[r].frame
    OBVIOUS
<1>3. /\ rd[r].pc # "idle" => b \in Blocks /\ Kept(b)
      /\ rd[r].pc \in Touched =>
           /\ f \in Frames /\ rd[r].slot \in Nat /\ rd[r].slot <= epoch /\ frames[f].last \in Nat
           /\ frames[f].last > rd[r].slot \/ (wr[w].frame = f /\ wr[w].pc \in Filling)
           /\ wr[w].pc \in Evicting /\ wr[w].frame = f => frames[f].block = b
      /\ rd[r].pc = "touch" => table[b] = f /\ f \in Frames
      /\ epoch \in Nat
    BY <1>2, ReadFacts
<1>e. /\ wr[w].pc = "entry" /\ wr[w].block \in Blocks /\ table[wr[w].block] = NoBlock
      /\ wr'[w].pc = "alloc" /\ wr'[w].block = wr[w].block /\ wr'[w].new = wr[w].new
      /\ wr'[w].frame = wr[w].frame
      /\ frames' = frames /\ table' = table /\ use' = use
      /\ epoch' = epoch
    BY VacantEffect, DataFacts
<1>4. rd' = rd /\ epoch' >= epoch
    <2>1. rd' = rd
        BY VacantEffect
    <2> QED BY <1>3, <1>e, <2>1
<1>5. rd[r].pc # "idle" => Kept(b)' /\ use'[b].uses = use[b].uses /\ use[b].n <= use'[b].n
    BY <1>1, <1>2, <1>3, <1>e, DataFacts DEF Kept, WriterData
<1>6. rd[r].pc = "touch" => table'[b] = f
    BY <1>1, <1>2, <1>3, <1>e, DataFacts DEF WriterPlace, Searching
<1>7. ASSUME rd[r].pc \in Touched
      PROVE  /\ frames'[f].last > rd[r].slot \/ (wr'[w].frame = f /\ wr'[w].pc \in Filling)
             /\ Another(f, b) => Another(f, b)'
             /\ Mine(f, b) => Mine(f, b)' \/ Another(f, b)'
             /\ wr'[w].pc \in Evicting /\ wr'[w].frame = f => frames'[f].block = b
    <2>0. b \in Blocks /\ Kept(b) /\ f \in Frames /\ use'[b].uses = use[b].uses /\ rd[r].pc # "idle"
        BY <1>3, <1>5, <1>7 DEF Touched
    <2>1. frames'[f].last > rd[r].slot \/ (wr'[w].frame = f /\ wr'[w].pc \in Filling)
        BY <1>1, <1>3, <1>7, <1>e, <2>0, DataFacts DEF Filling
    <2>2. Another(f, b) => Another(f, b)'
        BY <1>1, <1>3, <1>7, <1>e, <2>0, DataFacts, OneFrame, OneFrameNext DEF WriterPlace, WriterData, Evicting, Filling
    <2>3. Mine(f, b) => Mine(f, b)' \/ Another(f, b)'
        BY <1>1, <1>3, <1>7, <1>e, <2>0, DataFacts, OneFrame, OneFrameNext
        DEF WriterPlace, WriterData, Evicting, Filling, Kept
    <2>4. wr'[w].pc \in Evicting /\ wr'[w].frame = f => frames'[f].block = b
        BY <1>1, <1>2, <1>3, <1>7, <1>e, <2>0, DataFacts DEF Evicting, Filling
    <2> QED BY <2>1, <2>2, <2>3, <2>4
<1> QED BY <1>1, <1>2, <1>4, <1>5, <1>6, <1>7, ReadSuffices

LEMMA TakeFreeReads ==
    ASSUME SingleWriter, PlaceInv, DataInv, ReadInv, NEW w \in Writers, TakeFree(w), TypeInv', NEW r \in Readers
    PROVE  ReaderAt(r)'
<1>1. /\ (\A c \in Blocks : Mapped(c) /\ Stores(c)) /\ (\A g \in Frames : Resident(g))
      /\ Pinned(w) /\ WriterPlace(w) /\ WriterData(w) /\ ReaderAt(r) /\ TypeInv
    BY DEF PlaceInv, DataInv, ReadInv
<1>2. PICK b, f : b = rd[r].block /\ f = rd[r].frame
    OBVIOUS
<1>3. /\ rd[r].pc # "idle" => b \in Blocks /\ Kept(b)
      /\ rd[r].pc \in Touched =>
           /\ f \in Frames /\ rd[r].slot \in Nat /\ rd[r].slot <= epoch /\ frames[f].last \in Nat
           /\ frames[f].last > rd[r].slot \/ (wr[w].frame = f /\ wr[w].pc \in Filling)
           /\ wr[w].pc \in Evicting /\ wr[w].frame = f => frames[f].block = b
      /\ rd[r].pc = "touch" => table[b] = f /\ f \in Frames
      /\ epoch \in Nat
    BY <1>2, ReadFacts
<1>e. /\ wr[w].pc = "alloc" /\ wr[w].block \in Blocks /\ free # <<>>
      /\ wr'[w].pc = "load" /\ wr'[w].block = wr[w].block /\ wr'[w].new = wr[w].new
      /\ wr'[w].frame = Head(free)
      /\ frames' = frames /\ table' = table /\ use' = use
      /\ epoch' = epoch
    BY TakeFreeEffect, DataFacts
<1>4. rd' = rd /\ epoch' >= epoch
    <2>1. rd' = rd
        BY TakeFreeEffect
    <2> QED BY <1>3, <1>e, <2>1
<1>5. rd[r].pc # "idle" => Kept(b)' /\ use'[b].uses = use[b].uses /\ use[b].n <= use'[b].n
    BY <1>1, <1>2, <1>3, <1>e, DataFacts DEF Kept, WriterData
<1>6. rd[r].pc = "touch" => table'[b] = f
    BY <1>1, <1>2, <1>3, <1>e, DataFacts DEF WriterPlace, Searching
<1>7. ASSUME rd[r].pc \in Touched
      PROVE  /\ frames'[f].last > rd[r].slot \/ (wr'[w].frame = f /\ wr'[w].pc \in Filling)
             /\ Another(f, b) => Another(f, b)'
             /\ Mine(f, b) => Mine(f, b)' \/ Another(f, b)'
             /\ wr'[w].pc \in Evicting /\ wr'[w].frame = f => frames'[f].block = b
    <2>0. b \in Blocks /\ Kept(b) /\ f \in Frames /\ use'[b].uses = use[b].uses /\ rd[r].pc # "idle"
        BY <1>3, <1>5, <1>7 DEF Touched
    <2>1. frames'[f].last > rd[r].slot \/ (wr'[w].frame = f /\ wr'[w].pc \in Filling)
        BY <1>1, <1>3, <1>7, <1>e, <2>0, DataFacts DEF Filling
    <2>2. Another(f, b) => Another(f, b)'
        BY <1>1, <1>3, <1>7, <1>e, <2>0, DataFacts, OneFrame, OneFrameNext DEF WriterPlace, WriterData, Evicting, Filling
    <2>3. Mine(f, b) => Mine(f, b)' \/ Another(f, b)'
        BY <1>1, <1>3, <1>7, <1>e, <2>0, DataFacts, OneFrame, OneFrameNext
        DEF WriterPlace, WriterData, Evicting, Filling, Kept
    <2>4. wr'[w].pc \in Evicting /\ wr'[w].frame = f => frames'[f].block = b
        BY <1>1, <1>2, <1>3, <1>7, <1>e, <2>0, DataFacts DEF Evicting, Filling
    <2> QED BY <2>1, <2>2, <2>3, <2>4
<1> QED BY <1>1, <1>2, <1>4, <1>5, <1>6, <1>7, ReadSuffices

LEMMA CandidateReads ==
    ASSUME SingleWriter, PlaceInv, DataInv, ReadInv, NEW w \in Writers, Candidate(w), TypeInv', NEW r \in Readers
    PROVE  ReaderAt(r)'
<1>1. /\ (\A c \in Blocks : Mapped(c) /\ Stores(c)) /\ (\A g \in Frames : Resident(g))
      /\ Pinned(w) /\ WriterPlace(w) /\ WriterData(w) /\ ReaderAt(r) /\ TypeInv
    BY DEF PlaceInv, DataInv, ReadInv
<1>2. PICK b, f : b = rd[r].block /\ f = rd[r].frame
    OBVIOUS
<1>3. /\ rd[r].pc # "idle" => b \in Blocks /\ Kept(b)
      /\ rd[r].pc \in Touched =>
           /\ f \in Frames /\ rd[r].slot \in Nat /\ rd[r].slot <= epoch /\ frames[f].last \in Nat
           /\ frames[f].last > rd[r].slot \/ (wr[w].frame = f /\ wr[w].pc \in Filling)
           /\ wr[w].pc \in Evicting /\ wr[w].frame = f => frames[f].block = b
      /\ rd[r].pc = "touch" => table[b] = f /\ f \in Frames
      /\ epoch \in Nat
    BY <1>2, ReadFacts
<1>e. /\ wr[w].pc = "alloc" /\ wr[w].block \in Blocks
      /\ wr'[w].block = wr[w].block /\ wr'[w].new = wr[w].new
      /\ frames' = frames /\ table' = table /\ use' = use
      /\ epoch' = epoch
      /\ (wr'[w].pc = "flush" /\ SafeToEvict(frames[wr'[w].frame].last)) \/ wr'[w].pc \in {"alloc", "none"}
    BY CandidateEffect, DataFacts DEF MayEvict
<1>4. rd' = rd /\ epoch' >= epoch
    <2>1. rd' = rd
        BY CandidateEffect
    <2> QED BY <1>3, <1>e, <2>1
<1>5. rd[r].pc # "idle" => Kept(b)' /\ use'[b].uses = use[b].uses /\ use[b].n <= use'[b].n
    BY <1>1, <1>2, <1>3, <1>e, DataFacts DEF Kept, WriterData
<1>6. rd[r].pc = "touch" => table'[b] = f
    BY <1>1, <1>2, <1>3, <1>e, DataFacts DEF WriterPlace, Searching
<1>7. ASSUME rd[r].pc \in Touched
      PROVE  /\ frames'[f].last > rd[r].slot \/ (wr'[w].frame = f /\ wr'[w].pc \in Filling)
             /\ Another(f, b) => Another(f, b)'
             /\ Mine(f, b) => Mine(f, b)' \/ Another(f, b)'
             /\ wr'[w].pc \in Evicting /\ wr'[w].frame = f => frames'[f].block = b
    <2>0. b \in Blocks /\ Kept(b) /\ f \in Frames /\ use'[b].uses = use[b].uses /\ rd[r].pc # "idle"
        BY <1>3, <1>5, <1>7 DEF Touched
    <2>1. frames'[f].last > rd[r].slot \/ (wr'[w].frame = f /\ wr'[w].pc \in Filling)
        BY <1>1, <1>3, <1>7, <1>e, <2>0, DataFacts DEF Filling
    <2>2. Another(f, b) => Another(f, b)'
        BY <1>1, <1>3, <1>7, <1>e, <2>0, DataFacts, OneFrame, OneFrameNext DEF WriterPlace, WriterData, Evicting, Filling
    <2>3. Mine(f, b) => Mine(f, b)' \/ Another(f, b)'
        BY <1>1, <1>3, <1>7, <1>e, <2>0, DataFacts, OneFrame, OneFrameNext
        DEF WriterPlace, WriterData, Evicting, Filling, Kept
    <2>4. wr'[w].pc \in Evicting /\ wr'[w].frame = f => frames'[f].block = b
        BY <1>1, <1>2, <1>3, <1>7, <1>e, <2>0, DataFacts DEF Evicting, Filling, SafeToEvict, Inactive
    <2> QED BY <2>1, <2>2, <2>3, <2>4
<1> QED BY <1>1, <1>2, <1>4, <1>5, <1>6, <1>7, ReadSuffices

LEMMA GiveUpReads ==
    ASSUME SingleWriter, PlaceInv, DataInv, ReadInv, NEW w \in Writers, GiveUp(w), TypeInv', NEW r \in Readers
    PROVE  ReaderAt(r)'
<1>1. /\ (\A c \in Blocks : Mapped(c) /\ Stores(c)) /\ (\A g \in Frames : Resident(g))
      /\ Pinned(w) /\ WriterPlace(w) /\ WriterData(w) /\ ReaderAt(r) /\ TypeInv
    BY DEF PlaceInv, DataInv, ReadInv
<1>2. PICK b, f : b = rd[r].block /\ f = rd[r].frame
    OBVIOUS
<1>3. /\ rd[r].pc # "idle" => b \in Blocks /\ Kept(b)
      /\ rd[r].pc \in Touched =>
           /\ f \in Frames /\ rd[r].slot \in Nat /\ rd[r].slot <= epoch /\ frames[f].last \in Nat
           /\ frames[f].last > rd[r].slot \/ (wr[w].frame = f /\ wr[w].pc \in Filling)
           /\ wr[w].pc \in Evicting /\ wr[w].frame = f => frames[f].block = b
      /\ rd[r].pc = "touch" => table[b] = f /\ f \in Frames
      /\ epoch \in Nat
    BY <1>2, ReadFacts
<1>e. /\ wr[w].pc = "none" /\ wr[w].block \in Blocks
      /\ wr'[w].pc = "idle" /\ wr'[w].block = NoBlock /\ wr'[w].new = FALSE
      /\ wr'[w].frame = NoFrame
      /\ use'[wr[w].block].state = (IF wr[w].new THEN "unused" ELSE use[wr[w].block].state) /\ use'[wr[w].block].uses = use[wr[w].block].uses /\ use'[wr[w].block].n = use[wr[w].block].n
      /\ \A c \in Blocks : c # wr[w].block => use'[c] = use[c]
      /\ frames' = frames /\ table' = table
      /\ epoch' = epoch
    <2>a. use[wr[w].block] \in Use
        BY GiveUpEffect, DataFacts
    <2>1. wr[w].pc = "none" /\ wr[w].block \in Blocks
        BY GiveUpEffect, <2>a
    <2>2. wr'[w].pc = "idle" /\ wr'[w].block = NoBlock /\ wr'[w].new = FALSE
        BY GiveUpEffect, <2>a
    <2>3. wr'[w].frame = NoFrame
        BY GiveUpEffect, <2>a
    <2>4. use'[wr[w].block].state = (IF wr[w].new THEN "unused" ELSE use[wr[w].block].state) /\ use'[wr[w].block].uses = use[wr[w].block].uses /\ use'[wr[w].block].n = use[wr[w].block].n
        <3>1. use'[wr[w].block] = [use[wr[w].block] EXCEPT !.state = IF wr[w].new THEN "unused" ELSE use[wr[w].block].state]
            BY GiveUpEffect
        <3> QED BY <2>a, <3>1 DEF Use
    <2>5. \A c \in Blocks : c # wr[w].block => use'[c] = use[c]
        BY GiveUpEffect, <2>a
    <2>6. frames' = frames /\ table' = table
        BY GiveUpEffect, <2>a
    <2>7. epoch' = epoch
        BY GiveUpEffect, <2>a
    <2> QED BY <2>1, <2>2, <2>3, <2>4, <2>5, <2>6, <2>7
<1>4. rd' = rd /\ epoch' >= epoch
    <2>1. rd' = rd
        BY GiveUpEffect
    <2> QED BY <1>3, <1>e, <2>1
<1>5. rd[r].pc # "idle" => Kept(b)' /\ use'[b].uses = use[b].uses /\ use[b].n <= use'[b].n
    BY <1>1, <1>2, <1>3, <1>e, DataFacts DEF Kept, WriterData
<1>6. rd[r].pc = "touch" => table'[b] = f
    BY <1>1, <1>2, <1>3, <1>e, DataFacts DEF WriterPlace, Searching
<1>7. ASSUME rd[r].pc \in Touched
      PROVE  /\ frames'[f].last > rd[r].slot \/ (wr'[w].frame = f /\ wr'[w].pc \in Filling)
             /\ Another(f, b) => Another(f, b)'
             /\ Mine(f, b) => Mine(f, b)' \/ Another(f, b)'
             /\ wr'[w].pc \in Evicting /\ wr'[w].frame = f => frames'[f].block = b
    <2>0. b \in Blocks /\ Kept(b) /\ f \in Frames /\ use'[b].uses = use[b].uses /\ rd[r].pc # "idle"
        BY <1>3, <1>5, <1>7 DEF Touched
    <2>1. frames'[f].last > rd[r].slot \/ (wr'[w].frame = f /\ wr'[w].pc \in Filling)
        BY <1>1, <1>3, <1>7, <1>e, <2>0, DataFacts DEF Filling
    <2>2. Another(f, b) => Another(f, b)'
        BY <1>1, <1>3, <1>7, <1>e, <2>0, DataFacts, OneFrame, OneFrameNext DEF WriterPlace, WriterData, Evicting, Filling
    <2>3. Mine(f, b) => Mine(f, b)' \/ Another(f, b)'
        BY <1>1, <1>3, <1>7, <1>e, <2>0, DataFacts, OneFrame, OneFrameNext
        DEF WriterPlace, WriterData, Evicting, Filling, Kept
    <2>4. wr'[w].pc \in Evicting /\ wr'[w].frame = f => frames'[f].block = b
        BY <1>1, <1>2, <1>3, <1>7, <1>e, <2>0, DataFacts DEF Evicting, Filling
    <2> QED BY <2>1, <2>2, <2>3, <2>4
<1> QED BY <1>1, <1>2, <1>4, <1>5, <1>6, <1>7, ReadSuffices

LEMMA FlushVictimReads ==
    ASSUME SingleWriter, PlaceInv, DataInv, ReadInv, NEW w \in Writers, FlushVictim(w), TypeInv', NEW r \in Readers
    PROVE  ReaderAt(r)'
<1>1. /\ (\A c \in Blocks : Mapped(c) /\ Stores(c)) /\ (\A g \in Frames : Resident(g))
      /\ Pinned(w) /\ WriterPlace(w) /\ WriterData(w) /\ ReaderAt(r) /\ TypeInv
    BY DEF PlaceInv, DataInv, ReadInv
<1>2. PICK b, f : b = rd[r].block /\ f = rd[r].frame
    OBVIOUS
<1>3. /\ rd[r].pc # "idle" => b \in Blocks /\ Kept(b)
      /\ rd[r].pc \in Touched =>
           /\ f \in Frames /\ rd[r].slot \in Nat /\ rd[r].slot <= epoch /\ frames[f].last \in Nat
           /\ frames[f].last > rd[r].slot \/ (wr[w].frame = f /\ wr[w].pc \in Filling)
           /\ wr[w].pc \in Evicting /\ wr[w].frame = f => frames[f].block = b
      /\ rd[r].pc = "touch" => table[b] = f /\ f \in Frames
      /\ epoch \in Nat
    BY <1>2, ReadFacts
<1>e. /\ wr[w].pc = "flush" /\ wr[w].frame \in Frames /\ frames[wr[w].frame].block \in Blocks
      /\ wr'[w].pc = "remove" /\ wr'[w].block = wr[w].block /\ wr'[w].new = wr[w].new
      /\ wr'[w].frame = wr[w].frame
      /\ \A g \in Frames : g # wr[w].frame => frames'[g] = frames[g]
      /\ frames'[wr[w].frame].block = frames[wr[w].frame].block
      /\ frames'[wr[w].frame].page.use = frames[wr[w].frame].page.use /\ frames'[wr[w].frame].page.n = frames[wr[w].frame].page.n
      /\ frames'[wr[w].frame].len = frames[wr[w].frame].len
      /\ table' = table /\ use' = use
      /\ frames'[wr[w].frame].last = frames[wr[w].frame].last
      /\ epoch' = epoch
    <2> DEFINE h == wr[w].frame
    <2>1. /\ frames[h].page \in Page /\ frames[h].len \in Nat /\ frames[h].dirty \in BOOLEAN
          /\ frames'[h].page = IF frames[h].dirty THEN Synced(h) ELSE frames[h].page
        BY FlushVictimEffect, DataFacts
    <2>2. Synced(h).use = frames[h].page.use /\ Synced(h).n = frames[h].page.n
        BY <2>1 DEF Page, Synced
    <2>3. frames'[h].page.use = frames[h].page.use /\ frames'[h].page.n = frames[h].page.n
        BY <2>1, <2>2
    <2> QED BY <2>3, FlushVictimEffect
<1>4. rd' = rd /\ epoch' >= epoch
    <2>1. rd' = rd
        BY FlushVictimEffect
    <2> QED BY <1>3, <1>e, <2>1
<1>5. rd[r].pc # "idle" => Kept(b)' /\ use'[b].uses = use[b].uses /\ use[b].n <= use'[b].n
    BY <1>1, <1>2, <1>3, <1>e, DataFacts DEF Kept, WriterData
<1>6. rd[r].pc = "touch" => table'[b] = f
    BY <1>1, <1>2, <1>3, <1>e, DataFacts DEF WriterPlace, Searching
<1>7. ASSUME rd[r].pc \in Touched
      PROVE  /\ frames'[f].last > rd[r].slot \/ (wr'[w].frame = f /\ wr'[w].pc \in Filling)
             /\ Another(f, b) => Another(f, b)'
             /\ Mine(f, b) => Mine(f, b)' \/ Another(f, b)'
             /\ wr'[w].pc \in Evicting /\ wr'[w].frame = f => frames'[f].block = b
    <2>0. b \in Blocks /\ Kept(b) /\ f \in Frames /\ use'[b].uses = use[b].uses /\ rd[r].pc # "idle"
        BY <1>3, <1>5, <1>7 DEF Touched
    <2>1. frames'[f].last > rd[r].slot \/ (wr'[w].frame = f /\ wr'[w].pc \in Filling)
        BY <1>1, <1>3, <1>7, <1>e, <2>0, DataFacts DEF Filling
    <2>2. Another(f, b) => Another(f, b)'
        BY <1>1, <1>3, <1>7, <1>e, <2>0, DataFacts, OneFrame, OneFrameNext DEF WriterPlace, WriterData, Evicting, Filling
    <2>3. Mine(f, b) => Mine(f, b)' \/ Another(f, b)'
        BY <1>1, <1>3, <1>7, <1>e, <2>0, DataFacts, OneFrame, OneFrameNext
        DEF WriterPlace, WriterData, Evicting, Filling, Kept
    <2>4. wr'[w].pc \in Evicting /\ wr'[w].frame = f => frames'[f].block = b
        BY <1>1, <1>2, <1>3, <1>7, <1>e, <2>0, DataFacts DEF Evicting, Filling
    <2> QED BY <2>1, <2>2, <2>3, <2>4
<1> QED BY <1>1, <1>2, <1>4, <1>5, <1>6, <1>7, ReadSuffices

LEMMA RemoveVictimReads ==
    ASSUME SingleWriter, PlaceInv, DataInv, ReadInv, NEW w \in Writers, RemoveVictim(w), TypeInv', NEW r \in Readers
    PROVE  ReaderAt(r)'
<1>1. /\ (\A c \in Blocks : Mapped(c) /\ Stores(c)) /\ (\A g \in Frames : Resident(g))
      /\ Pinned(w) /\ WriterPlace(w) /\ WriterData(w) /\ ReaderAt(r) /\ TypeInv
    BY DEF PlaceInv, DataInv, ReadInv
<1>2. PICK b, f : b = rd[r].block /\ f = rd[r].frame
    OBVIOUS
<1>3. /\ rd[r].pc # "idle" => b \in Blocks /\ Kept(b)
      /\ rd[r].pc \in Touched =>
           /\ f \in Frames /\ rd[r].slot \in Nat /\ rd[r].slot <= epoch /\ frames[f].last \in Nat
           /\ frames[f].last > rd[r].slot \/ (wr[w].frame = f /\ wr[w].pc \in Filling)
           /\ wr[w].pc \in Evicting /\ wr[w].frame = f => frames[f].block = b
      /\ rd[r].pc = "touch" => table[b] = f /\ f \in Frames
      /\ epoch \in Nat
    BY <1>2, ReadFacts
<1>e. /\ wr[w].pc = "remove" /\ wr[w].frame \in Frames /\ frames[wr[w].frame].block \in Blocks /\ HoldsShard(frames[wr[w].frame].block) = {}
      /\ wr'[w].pc = "reset" /\ wr'[w].block = wr[w].block /\ wr'[w].new = wr[w].new
      /\ wr'[w].frame = wr[w].frame
      /\ table'[frames[wr[w].frame].block] = NoBlock
      /\ \A c \in Blocks : c # frames[wr[w].frame].block => table'[c] = table[c]
      /\ frames' = frames /\ use' = use
      /\ epoch' = epoch
    BY RemoveVictimEffect, DataFacts
<1>4. rd' = rd /\ epoch' >= epoch
    <2>1. rd' = rd
        BY RemoveVictimEffect
    <2> QED BY <1>3, <1>e, <2>1
<1>5. rd[r].pc # "idle" => Kept(b)' /\ use'[b].uses = use[b].uses /\ use[b].n <= use'[b].n
    BY <1>1, <1>2, <1>3, <1>e, DataFacts DEF Kept, WriterData
<1>6. rd[r].pc = "touch" => table'[b] = f
    BY <1>1, <1>2, <1>3, <1>e, DataFacts DEF WriterPlace, Searching, HoldsShard
<1>7. ASSUME rd[r].pc \in Touched
      PROVE  /\ frames'[f].last > rd[r].slot \/ (wr'[w].frame = f /\ wr'[w].pc \in Filling)
             /\ Another(f, b) => Another(f, b)'
             /\ Mine(f, b) => Mine(f, b)' \/ Another(f, b)'
             /\ wr'[w].pc \in Evicting /\ wr'[w].frame = f => frames'[f].block = b
    <2>0. b \in Blocks /\ Kept(b) /\ f \in Frames /\ use'[b].uses = use[b].uses /\ rd[r].pc # "idle"
        BY <1>3, <1>5, <1>7 DEF Touched
    <2>1. frames'[f].last > rd[r].slot \/ (wr'[w].frame = f /\ wr'[w].pc \in Filling)
        BY <1>1, <1>3, <1>7, <1>e, <2>0, DataFacts DEF Filling
    <2>2. Another(f, b) => Another(f, b)'
        BY <1>1, <1>3, <1>7, <1>e, <2>0, DataFacts, OneFrame, OneFrameNext DEF WriterPlace, WriterData, Evicting, Filling
    <2>3. Mine(f, b) => Mine(f, b)' \/ Another(f, b)'
        BY <1>1, <1>3, <1>7, <1>e, <2>0, DataFacts, OneFrame, OneFrameNext
        DEF WriterPlace, WriterData, Evicting, Filling, Kept
    <2>4. wr'[w].pc \in Evicting /\ wr'[w].frame = f => frames'[f].block = b
        BY <1>1, <1>2, <1>3, <1>7, <1>e, <2>0, DataFacts DEF Evicting, Filling
    <2> QED BY <2>1, <2>2, <2>3, <2>4
<1> QED BY <1>1, <1>2, <1>4, <1>5, <1>6, <1>7, ReadSuffices

LEMMA ResetVictimReads ==
    ASSUME SingleWriter, PlaceInv, DataInv, ReadInv, NEW w \in Writers, ResetVictim(w), TypeInv', NEW r \in Readers
    PROVE  ReaderAt(r)'
<1>1. /\ (\A c \in Blocks : Mapped(c) /\ Stores(c)) /\ (\A g \in Frames : Resident(g))
      /\ Pinned(w) /\ WriterPlace(w) /\ WriterData(w) /\ ReaderAt(r) /\ TypeInv
    BY DEF PlaceInv, DataInv, ReadInv
<1>2. PICK b, f : b = rd[r].block /\ f = rd[r].frame
    OBVIOUS
<1>3. /\ rd[r].pc # "idle" => b \in Blocks /\ Kept(b)
      /\ rd[r].pc \in Touched =>
           /\ f \in Frames /\ rd[r].slot \in Nat /\ rd[r].slot <= epoch /\ frames[f].last \in Nat
           /\ frames[f].last > rd[r].slot \/ (wr[w].frame = f /\ wr[w].pc \in Filling)
           /\ wr[w].pc \in Evicting /\ wr[w].frame = f => frames[f].block = b
      /\ rd[r].pc = "touch" => table[b] = f /\ f \in Frames
      /\ epoch \in Nat
    BY <1>2, ReadFacts
<1>e. /\ wr[w].pc = "reset" /\ wr[w].frame \in Frames
      /\ wr'[w].pc = "load" /\ wr'[w].block = wr[w].block /\ wr'[w].new = wr[w].new
      /\ wr'[w].frame = wr[w].frame
      /\ \A g \in Frames : g # wr[w].frame => frames'[g] = frames[g]
      /\ frames'[wr[w].frame].block = NoBlock
      /\ frames'[wr[w].frame].page.use = frames[wr[w].frame].page.use /\ frames'[wr[w].frame].page.n = frames[wr[w].frame].page.n
      /\ frames'[wr[w].frame].len = frames[wr[w].frame].len
      /\ table' = table /\ use' = use
      /\ frames'[wr[w].frame].last = 0
      /\ epoch' = epoch
    BY ResetVictimEffect, DataFacts
<1>4. rd' = rd /\ epoch' >= epoch
    <2>1. rd' = rd
        BY ResetVictimEffect
    <2> QED BY <1>3, <1>e, <2>1
<1>5. rd[r].pc # "idle" => Kept(b)' /\ use'[b].uses = use[b].uses /\ use[b].n <= use'[b].n
    BY <1>1, <1>2, <1>3, <1>e, DataFacts DEF Kept, WriterData
<1>6. rd[r].pc = "touch" => table'[b] = f
    BY <1>1, <1>2, <1>3, <1>e, DataFacts DEF WriterPlace, Searching
<1>7. ASSUME rd[r].pc \in Touched
      PROVE  /\ frames'[f].last > rd[r].slot \/ (wr'[w].frame = f /\ wr'[w].pc \in Filling)
             /\ Another(f, b) => Another(f, b)'
             /\ Mine(f, b) => Mine(f, b)' \/ Another(f, b)'
             /\ wr'[w].pc \in Evicting /\ wr'[w].frame = f => frames'[f].block = b
    <2>0. b \in Blocks /\ Kept(b) /\ f \in Frames /\ use'[b].uses = use[b].uses /\ rd[r].pc # "idle"
        BY <1>3, <1>5, <1>7 DEF Touched
    <2>1. frames'[f].last > rd[r].slot \/ (wr'[w].frame = f /\ wr'[w].pc \in Filling)
        BY <1>1, <1>3, <1>7, <1>e, <2>0, DataFacts DEF Filling
    <2>2. Another(f, b) => Another(f, b)'
        BY <1>1, <1>3, <1>7, <1>e, <2>0, DataFacts, OneFrame, OneFrameNext DEF WriterPlace, WriterData, Evicting, Filling
    <2>3. Mine(f, b) => Mine(f, b)' \/ Another(f, b)'
        BY <1>1, <1>3, <1>7, <1>e, <2>0, DataFacts, OneFrame, OneFrameNext
        DEF WriterPlace, WriterData, Evicting, Filling, Kept
    <2>4. wr'[w].pc \in Evicting /\ wr'[w].frame = f => frames'[f].block = b
        BY <1>1, <1>2, <1>3, <1>7, <1>e, <2>0, DataFacts DEF Evicting, Filling
    <2> QED BY <2>1, <2>2, <2>3, <2>4
<1> QED BY <1>1, <1>2, <1>4, <1>5, <1>6, <1>7, ReadSuffices

LEMMA LoadPageReads ==
    ASSUME SingleWriter, PlaceInv, DataInv, ReadInv, NEW w \in Writers, LoadPage(w), TypeInv', NEW r \in Readers
    PROVE  ReaderAt(r)'
<1>1. /\ (\A c \in Blocks : Mapped(c) /\ Stores(c)) /\ (\A g \in Frames : Resident(g))
      /\ Pinned(w) /\ WriterPlace(w) /\ WriterData(w) /\ ReaderAt(r) /\ TypeInv
    BY DEF PlaceInv, DataInv, ReadInv
<1>2. PICK b, f : b = rd[r].block /\ f = rd[r].frame
    OBVIOUS
<1>3. /\ rd[r].pc # "idle" => b \in Blocks /\ Kept(b)
      /\ rd[r].pc \in Touched =>
           /\ f \in Frames /\ rd[r].slot \in Nat /\ rd[r].slot <= epoch /\ frames[f].last \in Nat
           /\ frames[f].last > rd[r].slot \/ (wr[w].frame = f /\ wr[w].pc \in Filling)
           /\ wr[w].pc \in Evicting /\ wr[w].frame = f => frames[f].block = b
      /\ rd[r].pc = "touch" => table[b] = f /\ f \in Frames
      /\ epoch \in Nat
    BY <1>2, ReadFacts
<1>e. /\ wr[w].pc = "load" /\ wr[w].frame \in Frames /\ wr[w].block \in Blocks
      /\ wr'[w].pc = "publish" /\ wr'[w].block = wr[w].block /\ wr'[w].new = wr[w].new
      /\ wr'[w].frame = wr[w].frame
      /\ \A g \in Frames : g # wr[w].frame => frames'[g] = frames[g]
      /\ frames'[wr[w].frame].block = frames[wr[w].frame].block
      /\ wr[w].new => frames'[wr[w].frame].page.use = use[wr[w].block].uses /\ frames'[wr[w].frame].page.n = 0 /\ frames'[wr[w].frame].len = 0
      /\ ~wr[w].new => frames'[wr[w].frame].page = disk[wr[w].block] /\ frames'[wr[w].frame].len = disk[wr[w].block].header
      /\ table' = table /\ use' = use
      /\ frames'[wr[w].frame].last = frames[wr[w].frame].last
      /\ epoch' = epoch
    <2>a. wr[w].frame \in Frames /\ wr[w].block \in Blocks
        BY LoadPageEffect, DataFacts
    <2>1. wr[w].pc = "load" /\ wr[w].frame \in Frames /\ wr[w].block \in Blocks
        BY LoadPageEffect, <2>a
    <2>2. wr'[w].pc = "publish" /\ wr'[w].block = wr[w].block /\ wr'[w].new = wr[w].new
        BY LoadPageEffect, <2>a
    <2>3. wr'[w].frame = wr[w].frame
        BY LoadPageEffect, <2>a
    <2>4. \A g \in Frames : g # wr[w].frame => frames'[g] = frames[g]
        BY LoadPageEffect, <2>a
    <2>5. frames'[wr[w].frame].block = frames[wr[w].frame].block
        BY LoadPageEffect, <2>a
    <2>6. wr[w].new => frames'[wr[w].frame].page.use = use[wr[w].block].uses /\ frames'[wr[w].frame].page.n = 0 /\ frames'[wr[w].frame].len = 0
        <3>1. frames'[wr[w].frame].page = (IF wr[w].new THEN NewPage(use[wr[w].block].uses) ELSE disk[wr[w].block]) /\ frames'[wr[w].frame].len = (IF wr[w].new THEN 0 ELSE disk[wr[w].block].header)
            BY LoadPageEffect
        <3> QED BY <2>a, <3>1 DEF Page, Synced, NewPage
    <2>7. ~wr[w].new => frames'[wr[w].frame].page = disk[wr[w].block] /\ frames'[wr[w].frame].len = disk[wr[w].block].header
        BY LoadPageEffect, <2>a
    <2>8. table' = table /\ use' = use
        BY LoadPageEffect, <2>a
    <2>9. frames'[wr[w].frame].last = frames[wr[w].frame].last
        BY LoadPageEffect, <2>a
    <2>10. epoch' = epoch
        BY LoadPageEffect, <2>a
    <2> QED BY <2>1, <2>2, <2>3, <2>4, <2>5, <2>6, <2>7, <2>8, <2>9, <2>10
<1>4. rd' = rd /\ epoch' >= epoch
    <2>1. rd' = rd
        BY LoadPageEffect
    <2> QED BY <1>3, <1>e, <2>1
<1>5. rd[r].pc # "idle" => Kept(b)' /\ use'[b].uses = use[b].uses /\ use[b].n <= use'[b].n
    BY <1>1, <1>2, <1>3, <1>e, DataFacts DEF Kept, WriterData
<1>6. rd[r].pc = "touch" => table'[b] = f
    BY <1>1, <1>2, <1>3, <1>e, DataFacts DEF WriterPlace, Searching
<1>7. ASSUME rd[r].pc \in Touched
      PROVE  /\ frames'[f].last > rd[r].slot \/ (wr'[w].frame = f /\ wr'[w].pc \in Filling)
             /\ Another(f, b) => Another(f, b)'
             /\ Mine(f, b) => Mine(f, b)' \/ Another(f, b)'
             /\ wr'[w].pc \in Evicting /\ wr'[w].frame = f => frames'[f].block = b
    <2>0. b \in Blocks /\ Kept(b) /\ f \in Frames /\ use'[b].uses = use[b].uses /\ rd[r].pc # "idle"
        BY <1>3, <1>5, <1>7 DEF Touched
    <2>1. frames'[f].last > rd[r].slot \/ (wr'[w].frame = f /\ wr'[w].pc \in Filling)
        BY <1>1, <1>3, <1>7, <1>e, <2>0, DataFacts DEF Filling
    <2>2. Another(f, b) => Another(f, b)'
        BY <1>1, <1>3, <1>7, <1>e, <2>0, DataFacts, OneFrame, OneFrameNext DEF WriterPlace, WriterData, Evicting, Filling
    <2>3. Mine(f, b) => Mine(f, b)' \/ Another(f, b)'
        <3> SUFFICES ASSUME Mine(f, b) PROVE Mine(f, b)' \/ Another(f, b)'
            OBVIOUS
        <3>1. /\ frames[f].block \in {b, NoBlock} /\ frames[f].page.use = use[b].uses /\ frames[f].len = use[b].n
              /\ use[b].n <= frames[f].page.n
              /\ frames[f].block = NoBlock => use[b].state = "dead" \/ (wr[w].frame = f /\ wr[w].pc \in Filling)
            BY OneFrame
        <3>2. use[b].n \in Nat /\ use'[b] = use[b] /\ NoBlock \notin Blocks
            BY <1>e, <2>0, DataFacts
        <3>3. CASE f # wr[w].frame
            <4>1. frames'[f] = frames[f]
                BY <1>e, <2>0, <3>3
            <4> QED BY <3>1, <3>2, <3>3, <4>1, OneFrameNext
        <3>4. CASE f = wr[w].frame /\ wr[w].block # b
            BY <1>e, <3>4, OneFrameNext
        <3>5. CASE f = wr[w].frame /\ wr[w].block = b
            <4>1. frames[f].block = NoBlock /\ table[b] = NoBlock /\ ~wr[w].new
                BY <1>1, <1>e, <2>0, <3>5 DEF WriterPlace, WriterData, Filling, Searching, Kept
            <4>2. disk[b] = [use |-> use[b].uses, n |-> use[b].n, header |-> use[b].n]
                BY <1>1, <2>0, <4>1 DEF Stores, OnDisk
            <4>3. frames'[f].page = disk[b] /\ frames'[f].len = disk[b].header /\ frames'[f].block = NoBlock
                BY <1>e, <3>5, <4>1
            <4>4. frames'[f].page.use = use'[b].uses /\ frames'[f].len = use'[b].n /\ use'[b].n <= frames'[f].page.n
                BY <3>2, <4>2, <4>3
            <4>5. wr'[w].frame = f /\ wr'[w].pc \in Filling
                BY <1>e, <3>5 DEF Filling
            <4> QED BY <4>3, <4>4, <4>5, OneFrameNext
        <3> QED BY <3>3, <3>4, <3>5
    <2>4. wr'[w].pc \in Evicting /\ wr'[w].frame = f => frames'[f].block = b
        BY <1>1, <1>2, <1>3, <1>7, <1>e, <2>0, DataFacts DEF Evicting, Filling
    <2> QED BY <2>1, <2>2, <2>3, <2>4
<1> QED BY <1>1, <1>2, <1>4, <1>5, <1>6, <1>7, ReadSuffices

LEMMA PublishReads ==
    ASSUME SingleWriter, PlaceInv, DataInv, ReadInv, NEW w \in Writers, Publish(w), TypeInv', NEW r \in Readers
    PROVE  ReaderAt(r)'
<1>1. /\ (\A c \in Blocks : Mapped(c) /\ Stores(c)) /\ (\A g \in Frames : Resident(g))
      /\ Pinned(w) /\ WriterPlace(w) /\ WriterData(w) /\ ReaderAt(r) /\ TypeInv
    BY DEF PlaceInv, DataInv, ReadInv
<1>2. PICK b, f : b = rd[r].block /\ f = rd[r].frame
    OBVIOUS
<1>3. /\ rd[r].pc # "idle" => b \in Blocks /\ Kept(b)
      /\ rd[r].pc \in Touched =>
           /\ f \in Frames /\ rd[r].slot \in Nat /\ rd[r].slot <= epoch /\ frames[f].last \in Nat
           /\ frames[f].last > rd[r].slot \/ (wr[w].frame = f /\ wr[w].pc \in Filling)
           /\ wr[w].pc \in Evicting /\ wr[w].frame = f => frames[f].block = b
      /\ rd[r].pc = "touch" => table[b] = f /\ f \in Frames
      /\ epoch \in Nat
    BY <1>2, ReadFacts
<1>e. /\ wr[w].pc = "publish" /\ wr[w].frame \in Frames /\ wr[w].block \in Blocks
      /\ wr'[w].pc = "insert" /\ wr'[w].block = wr[w].block /\ wr'[w].new = wr[w].new
      /\ wr'[w].frame = wr[w].frame
      /\ \A g \in Frames : g # wr[w].frame => frames'[g] = frames[g]
      /\ frames'[wr[w].frame].block = wr[w].block
      /\ frames'[wr[w].frame].page.use = frames[wr[w].frame].page.use /\ frames'[wr[w].frame].page.n = frames[wr[w].frame].page.n
      /\ frames'[wr[w].frame].len = frames[wr[w].frame].len
      /\ table' = table /\ use' = use
      /\ frames'[wr[w].frame].last = epoch + 1
      /\ epoch' = epoch + 1
    BY PublishEffect, DataFacts
<1>4. rd' = rd /\ epoch' >= epoch
    <2>1. rd' = rd
        BY PublishEffect
    <2> QED BY <1>3, <1>e, <2>1
<1>5. rd[r].pc # "idle" => Kept(b)' /\ use'[b].uses = use[b].uses /\ use[b].n <= use'[b].n
    BY <1>1, <1>2, <1>3, <1>e, DataFacts DEF Kept, WriterData
<1>6. rd[r].pc = "touch" => table'[b] = f
    BY <1>1, <1>2, <1>3, <1>e, DataFacts DEF WriterPlace, Searching
<1>7. ASSUME rd[r].pc \in Touched
      PROVE  /\ frames'[f].last > rd[r].slot \/ (wr'[w].frame = f /\ wr'[w].pc \in Filling)
             /\ Another(f, b) => Another(f, b)'
             /\ Mine(f, b) => Mine(f, b)' \/ Another(f, b)'
             /\ wr'[w].pc \in Evicting /\ wr'[w].frame = f => frames'[f].block = b
    <2>0. b \in Blocks /\ Kept(b) /\ f \in Frames /\ use'[b].uses = use[b].uses /\ rd[r].pc # "idle"
        BY <1>3, <1>5, <1>7 DEF Touched
    <2>1. frames'[f].last > rd[r].slot \/ (wr'[w].frame = f /\ wr'[w].pc \in Filling)
        BY <1>1, <1>3, <1>7, <1>e, <2>0, DataFacts DEF Filling
    <2>2. Another(f, b) => Another(f, b)'
        BY <1>1, <1>3, <1>7, <1>e, <2>0, DataFacts, OneFrame, OneFrameNext DEF WriterPlace, WriterData, Evicting, Filling
    <2>3. Mine(f, b) => Mine(f, b)' \/ Another(f, b)'
        BY SMTT(60), <1>1, <1>3, <1>7, <1>e, <2>0, DataFacts, OneFrame, OneFrameNext
        DEF WriterPlace, WriterData, Evicting, Filling, Kept
    <2>4. wr'[w].pc \in Evicting /\ wr'[w].frame = f => frames'[f].block = b
        BY <1>1, <1>2, <1>3, <1>7, <1>e, <2>0, DataFacts DEF Evicting, Filling
    <2> QED BY <2>1, <2>2, <2>3, <2>4
<1> QED BY <1>1, <1>2, <1>4, <1>5, <1>6, <1>7, ReadSuffices

LEMMA InsertReads ==
    ASSUME SingleWriter, PlaceInv, DataInv, ReadInv, NEW w \in Writers, Insert(w), TypeInv', NEW r \in Readers
    PROVE  ReaderAt(r)'
<1>1. /\ (\A c \in Blocks : Mapped(c) /\ Stores(c)) /\ (\A g \in Frames : Resident(g))
      /\ Pinned(w) /\ WriterPlace(w) /\ WriterData(w) /\ ReaderAt(r) /\ TypeInv
    BY DEF PlaceInv, DataInv, ReadInv
<1>2. PICK b, f : b = rd[r].block /\ f = rd[r].frame
    OBVIOUS
<1>3. /\ rd[r].pc # "idle" => b \in Blocks /\ Kept(b)
      /\ rd[r].pc \in Touched =>
           /\ f \in Frames /\ rd[r].slot \in Nat /\ rd[r].slot <= epoch /\ frames[f].last \in Nat
           /\ frames[f].last > rd[r].slot \/ (wr[w].frame = f /\ wr[w].pc \in Filling)
           /\ wr[w].pc \in Evicting /\ wr[w].frame = f => frames[f].block = b
      /\ rd[r].pc = "touch" => table[b] = f /\ f \in Frames
      /\ epoch \in Nat
    BY <1>2, ReadFacts
<1>e. /\ wr[w].pc = "insert" /\ wr[w].frame \in Frames /\ wr[w].block \in Blocks
      /\ wr'[w].pc = "idle" /\ wr'[w].block = NoBlock /\ wr'[w].new = FALSE
      /\ wr'[w].frame = NoFrame
      /\ table'[wr[w].block] = wr[w].frame
      /\ \A c \in Blocks : c # wr[w].block => table'[c] = table[c]
      /\ use'[wr[w].block].state = (IF wr[w].new THEN "live" ELSE use[wr[w].block].state) /\ use'[wr[w].block].uses = use[wr[w].block].uses /\ use'[wr[w].block].n = use[wr[w].block].n
      /\ \A c \in Blocks : c # wr[w].block => use'[c] = use[c]
      /\ frames' = frames
      /\ epoch' = epoch
    <2>a. use[wr[w].block] \in Use
        BY InsertEffect, DataFacts
    <2>1. wr[w].pc = "insert" /\ wr[w].frame \in Frames /\ wr[w].block \in Blocks
        BY InsertEffect, <2>a
    <2>2. wr'[w].pc = "idle" /\ wr'[w].block = NoBlock /\ wr'[w].new = FALSE
        BY InsertEffect, <2>a
    <2>3. wr'[w].frame = NoFrame
        BY InsertEffect, <2>a
    <2>4. table'[wr[w].block] = wr[w].frame
        BY InsertEffect, <2>a
    <2>5. \A c \in Blocks : c # wr[w].block => table'[c] = table[c]
        BY InsertEffect, <2>a
    <2>6. use'[wr[w].block].state = (IF wr[w].new THEN "live" ELSE use[wr[w].block].state) /\ use'[wr[w].block].uses = use[wr[w].block].uses /\ use'[wr[w].block].n = use[wr[w].block].n
        <3>1. use'[wr[w].block] = [use[wr[w].block] EXCEPT !.state = IF wr[w].new THEN "live" ELSE use[wr[w].block].state]
            BY InsertEffect
        <3> QED BY <2>a, <3>1 DEF Use
    <2>7. \A c \in Blocks : c # wr[w].block => use'[c] = use[c]
        BY InsertEffect, <2>a
    <2>8. frames' = frames
        BY InsertEffect, <2>a
    <2>9. epoch' = epoch
        BY InsertEffect, <2>a
    <2> QED BY <2>1, <2>2, <2>3, <2>4, <2>5, <2>6, <2>7, <2>8, <2>9
<1>4. rd' = rd /\ epoch' >= epoch
    <2>1. rd' = rd
        BY InsertEffect
    <2> QED BY <1>3, <1>e, <2>1
<1>5. rd[r].pc # "idle" => Kept(b)' /\ use'[b].uses = use[b].uses /\ use[b].n <= use'[b].n
    BY <1>1, <1>2, <1>3, <1>e, DataFacts DEF Kept, WriterData
<1>6. rd[r].pc = "touch" => table'[b] = f
    BY <1>1, <1>2, <1>3, <1>e, DataFacts DEF WriterPlace, Searching
<1>7. ASSUME rd[r].pc \in Touched
      PROVE  /\ frames'[f].last > rd[r].slot \/ (wr'[w].frame = f /\ wr'[w].pc \in Filling)
             /\ Another(f, b) => Another(f, b)'
             /\ Mine(f, b) => Mine(f, b)' \/ Another(f, b)'
             /\ wr'[w].pc \in Evicting /\ wr'[w].frame = f => frames'[f].block = b
    <2>0. b \in Blocks /\ Kept(b) /\ f \in Frames /\ use'[b].uses = use[b].uses /\ rd[r].pc # "idle"
        BY <1>3, <1>5, <1>7 DEF Touched
    <2>1. frames'[f].last > rd[r].slot \/ (wr'[w].frame = f /\ wr'[w].pc \in Filling)
        BY <1>1, <1>3, <1>7, <1>e, <2>0, DataFacts DEF Filling
    <2>2. Another(f, b) => Another(f, b)'
        BY <1>1, <1>3, <1>7, <1>e, <2>0, DataFacts, OneFrame, OneFrameNext DEF WriterPlace, WriterData, Evicting, Filling
    <2>3. Mine(f, b) => Mine(f, b)' \/ Another(f, b)'
        BY <1>1, <1>3, <1>7, <1>e, <2>0, DataFacts, OneFrame, OneFrameNext
        DEF WriterPlace, WriterData, Evicting, Filling, Kept
    <2>4. wr'[w].pc \in Evicting /\ wr'[w].frame = f => frames'[f].block = b
        BY <1>1, <1>2, <1>3, <1>7, <1>e, <2>0, DataFacts DEF Evicting, Filling
    <2> QED BY <2>1, <2>2, <2>3, <2>4
<1> QED BY <1>1, <1>2, <1>4, <1>5, <1>6, <1>7, ReadSuffices

LEMMA Append_DataReads ==
    ASSUME SingleWriter, PlaceInv, DataInv, ReadInv, NEW w \in Writers, Append_Data(w), TypeInv', NEW r \in Readers
    PROVE  ReaderAt(r)'
<1>1. /\ (\A c \in Blocks : Mapped(c) /\ Stores(c)) /\ (\A g \in Frames : Resident(g))
      /\ Pinned(w) /\ WriterPlace(w) /\ WriterData(w) /\ ReaderAt(r) /\ TypeInv
    BY DEF PlaceInv, DataInv, ReadInv
<1>2. PICK b, f : b = rd[r].block /\ f = rd[r].frame
    OBVIOUS
<1>3. /\ rd[r].pc # "idle" => b \in Blocks /\ Kept(b)
      /\ rd[r].pc \in Touched =>
           /\ f \in Frames /\ rd[r].slot \in Nat /\ rd[r].slot <= epoch /\ frames[f].last \in Nat
           /\ frames[f].last > rd[r].slot \/ (wr[w].frame = f /\ wr[w].pc \in Filling)
           /\ wr[w].pc \in Evicting /\ wr[w].frame = f => frames[f].block = b
      /\ rd[r].pc = "touch" => table[b] = f /\ f \in Frames
      /\ epoch \in Nat
    BY <1>2, ReadFacts
<1>e. /\ wr[w].pc = "idle" /\ On(w) \in Blocks
      /\ wr'[w].pc = "commit" /\ wr'[w].block = On(w) /\ wr'[w].new = wr[w].new
      /\ wr'[w].wrote = wr[w].wrote
      /\ wr[w].pins[On(w)] \in Frames /\ use[On(w)].state = "live"
      /\ \A g \in Frames : g # wr[w].pins[On(w)] => frames'[g] = frames[g]
      /\ frames'[wr[w].pins[On(w)]].block = frames[wr[w].pins[On(w)]].block
      /\ frames'[wr[w].pins[On(w)]].page.use = frames[wr[w].pins[On(w)]].page.use /\ frames'[wr[w].pins[On(w)]].page.n = frames[wr[w].pins[On(w)]].page.n + 1
      /\ frames'[wr[w].pins[On(w)]].len = frames[wr[w].pins[On(w)]].len
      /\ table' = table /\ use' = use
      /\ frames'[wr[w].pins[On(w)]].last = frames[wr[w].pins[On(w)]].last
      /\ epoch' = epoch
    <2>a. frames[wr[w].pins[On(w)]].page \in Page
        BY Append_DataEffect, DataFacts
    <2>1. wr[w].pc = "idle" /\ On(w) \in Blocks
        BY Append_DataEffect, <2>a
    <2>2. wr'[w].pc = "commit" /\ wr'[w].block = On(w) /\ wr'[w].new = wr[w].new
        BY Append_DataEffect, <2>a
    <2>3. wr'[w].wrote = wr[w].wrote
        BY Append_DataEffect, <2>a
    <2>4. wr[w].pins[On(w)] \in Frames /\ use[On(w)].state = "live"
        BY Append_DataEffect, <2>a
    <2>5. \A g \in Frames : g # wr[w].pins[On(w)] => frames'[g] = frames[g]
        BY Append_DataEffect, <2>a
    <2>6. frames'[wr[w].pins[On(w)]].block = frames[wr[w].pins[On(w)]].block
        BY Append_DataEffect, <2>a
    <2>7. frames'[wr[w].pins[On(w)]].page.use = frames[wr[w].pins[On(w)]].page.use /\ frames'[wr[w].pins[On(w)]].page.n = frames[wr[w].pins[On(w)]].page.n + 1
        <3>1. frames'[wr[w].pins[On(w)]].page = [frames[wr[w].pins[On(w)]].page EXCEPT !.n = frames[wr[w].pins[On(w)]].page.n + 1]
            BY Append_DataEffect
        <3> QED BY <2>a, <3>1 DEF Page, Synced, NewPage
    <2>8. frames'[wr[w].pins[On(w)]].len = frames[wr[w].pins[On(w)]].len
        BY Append_DataEffect, <2>a
    <2>9. table' = table /\ use' = use
        BY Append_DataEffect, <2>a
    <2>10. frames'[wr[w].pins[On(w)]].last = frames[wr[w].pins[On(w)]].last
        BY Append_DataEffect, <2>a
    <2>11. epoch' = epoch
        BY Append_DataEffect, <2>a
    <2> QED BY <2>1, <2>2, <2>3, <2>4, <2>5, <2>6, <2>7, <2>8, <2>9, <2>10, <2>11
<1>4. rd' = rd /\ epoch' >= epoch
    <2>1. rd' = rd
        BY Append_DataEffect
    <2> QED BY <1>3, <1>e, <2>1
<1>5. rd[r].pc # "idle" => Kept(b)' /\ use'[b].uses = use[b].uses /\ use[b].n <= use'[b].n
    BY <1>1, <1>2, <1>3, <1>e, DataFacts DEF Kept, WriterData
<1>6. rd[r].pc = "touch" => table'[b] = f
    BY <1>1, <1>2, <1>3, <1>e, DataFacts DEF WriterPlace, Searching
<1>7. ASSUME rd[r].pc \in Touched
      PROVE  /\ frames'[f].last > rd[r].slot \/ (wr'[w].frame = f /\ wr'[w].pc \in Filling)
             /\ Another(f, b) => Another(f, b)'
             /\ Mine(f, b) => Mine(f, b)' \/ Another(f, b)'
             /\ wr'[w].pc \in Evicting /\ wr'[w].frame = f => frames'[f].block = b
    <2>0. b \in Blocks /\ Kept(b) /\ f \in Frames /\ use'[b].uses = use[b].uses /\ rd[r].pc # "idle"
        BY <1>3, <1>5, <1>7 DEF Touched
    <2>1. frames'[f].last > rd[r].slot \/ (wr'[w].frame = f /\ wr'[w].pc \in Filling)
        BY <1>1, <1>3, <1>7, <1>e, <2>0, DataFacts DEF Filling
    <2>2. Another(f, b) => Another(f, b)'
        BY <1>1, <1>3, <1>7, <1>e, <2>0, DataFacts, OneFrame, OneFrameNext DEF WriterPlace, WriterData, Evicting, Filling
    <2>3. Mine(f, b) => Mine(f, b)' \/ Another(f, b)'
        BY <1>1, <1>3, <1>7, <1>e, <2>0, DataFacts, OneFrame, OneFrameNext
        DEF WriterPlace, WriterData, Evicting, Filling, Kept
    <2>4. wr'[w].pc \in Evicting /\ wr'[w].frame = f => frames'[f].block = b
        BY <1>1, <1>2, <1>3, <1>7, <1>e, <2>0, DataFacts DEF Evicting, Filling
    <2> QED BY <2>1, <2>2, <2>3, <2>4
<1> QED BY <1>1, <1>2, <1>4, <1>5, <1>6, <1>7, ReadSuffices

LEMMA Append_CommitReads ==
    ASSUME SingleWriter, PlaceInv, DataInv, ReadInv, NEW w \in Writers, Append_Commit(w), TypeInv', NEW r \in Readers
    PROVE  ReaderAt(r)'
<1>1. /\ (\A c \in Blocks : Mapped(c) /\ Stores(c)) /\ (\A g \in Frames : Resident(g))
      /\ Pinned(w) /\ WriterPlace(w) /\ WriterData(w) /\ ReaderAt(r) /\ TypeInv
    BY DEF PlaceInv, DataInv, ReadInv
<1>2. PICK b, f : b = rd[r].block /\ f = rd[r].frame
    OBVIOUS
<1>3. /\ rd[r].pc # "idle" => b \in Blocks /\ Kept(b)
      /\ rd[r].pc \in Touched =>
           /\ f \in Frames /\ rd[r].slot \in Nat /\ rd[r].slot <= epoch /\ frames[f].last \in Nat
           /\ frames[f].last > rd[r].slot \/ (wr[w].frame = f /\ wr[w].pc \in Filling)
           /\ wr[w].pc \in Evicting /\ wr[w].frame = f => frames[f].block = b
      /\ rd[r].pc = "touch" => table[b] = f /\ f \in Frames
      /\ epoch \in Nat
    BY <1>2, ReadFacts
<1>e. /\ wr[w].pc = "commit" /\ wr[w].frame \in Frames /\ wr[w].block \in Blocks
      /\ wr'[w].pc = "idle" /\ wr'[w].block = NoBlock /\ wr'[w].new = FALSE
      /\ wr'[w].frame = NoFrame
      /\ \A g \in Frames : g # wr[w].frame => frames'[g] = frames[g]
      /\ frames'[wr[w].frame].block = frames[wr[w].frame].block
      /\ frames'[wr[w].frame].page.use = frames[wr[w].frame].page.use /\ frames'[wr[w].frame].page.n = frames[wr[w].frame].page.n
      /\ frames'[wr[w].frame].len = frames[wr[w].frame].len + 1
      /\ use'[wr[w].block].state = use[wr[w].block].state /\ use'[wr[w].block].uses = use[wr[w].block].uses /\ use'[wr[w].block].n = use[wr[w].block].n + 1
      /\ \A c \in Blocks : c # wr[w].block => use'[c] = use[c]
      /\ table' = table
      /\ frames'[wr[w].frame].last = frames[wr[w].frame].last
      /\ epoch' = epoch
    <2>a. use[wr[w].block] \in Use /\ frames[wr[w].frame].page \in Page
        BY Append_CommitEffect, DataFacts
    <2>1. wr[w].pc = "commit" /\ wr[w].frame \in Frames /\ wr[w].block \in Blocks
        BY Append_CommitEffect, <2>a
    <2>2. wr'[w].pc = "idle" /\ wr'[w].block = NoBlock /\ wr'[w].new = FALSE
        BY Append_CommitEffect, <2>a
    <2>3. wr'[w].frame = NoFrame
        BY Append_CommitEffect, <2>a
    <2>4. \A g \in Frames : g # wr[w].frame => frames'[g] = frames[g]
        BY Append_CommitEffect, <2>a
    <2>5. frames'[wr[w].frame].block = frames[wr[w].frame].block
        BY Append_CommitEffect, <2>a
    <2>6. frames'[wr[w].frame].page.use = frames[wr[w].frame].page.use /\ frames'[wr[w].frame].page.n = frames[wr[w].frame].page.n
        <3>1. frames'[wr[w].frame].page = frames[wr[w].frame].page
            BY Append_CommitEffect
        <3> QED BY <2>a, <3>1 DEF Page, Synced, NewPage
    <2>7. frames'[wr[w].frame].len = frames[wr[w].frame].len + 1
        BY Append_CommitEffect, <2>a
    <2>8. use'[wr[w].block].state = use[wr[w].block].state /\ use'[wr[w].block].uses = use[wr[w].block].uses /\ use'[wr[w].block].n = use[wr[w].block].n + 1
        <3>1. use'[wr[w].block] = [use[wr[w].block] EXCEPT !.n = use[wr[w].block].n + 1]
            BY Append_CommitEffect
        <3> QED BY <2>a, <3>1 DEF Use
    <2>9. \A c \in Blocks : c # wr[w].block => use'[c] = use[c]
        BY Append_CommitEffect, <2>a
    <2>10. table' = table
        BY Append_CommitEffect, <2>a
    <2>11. frames'[wr[w].frame].last = frames[wr[w].frame].last
        BY Append_CommitEffect, <2>a
    <2>12. epoch' = epoch
        BY Append_CommitEffect, <2>a
    <2> QED BY <2>1, <2>2, <2>3, <2>4, <2>5, <2>6, <2>7, <2>8, <2>9, <2>10, <2>11, <2>12
<1>4. rd' = rd /\ epoch' >= epoch
    <2>1. rd' = rd
        BY Append_CommitEffect
    <2> QED BY <1>3, <1>e, <2>1
<1>5. rd[r].pc # "idle" => Kept(b)' /\ use'[b].uses = use[b].uses /\ use[b].n <= use'[b].n
    BY <1>1, <1>2, <1>3, <1>e, DataFacts DEF Kept, WriterData
<1>6. rd[r].pc = "touch" => table'[b] = f
    BY <1>1, <1>2, <1>3, <1>e, DataFacts DEF WriterPlace, Searching
<1>7. ASSUME rd[r].pc \in Touched
      PROVE  /\ frames'[f].last > rd[r].slot \/ (wr'[w].frame = f /\ wr'[w].pc \in Filling)
             /\ Another(f, b) => Another(f, b)'
             /\ Mine(f, b) => Mine(f, b)' \/ Another(f, b)'
             /\ wr'[w].pc \in Evicting /\ wr'[w].frame = f => frames'[f].block = b
    <2>0. b \in Blocks /\ Kept(b) /\ f \in Frames /\ use'[b].uses = use[b].uses /\ rd[r].pc # "idle"
        BY <1>3, <1>5, <1>7 DEF Touched
    <2>1. frames'[f].last > rd[r].slot \/ (wr'[w].frame = f /\ wr'[w].pc \in Filling)
        BY <1>1, <1>3, <1>7, <1>e, <2>0, DataFacts DEF Filling
    <2>2. Another(f, b) => Another(f, b)'
        BY <1>1, <1>3, <1>7, <1>e, <2>0, DataFacts, OneFrame, OneFrameNext DEF WriterPlace, WriterData, Evicting, Filling
    <2>3. Mine(f, b) => Mine(f, b)' \/ Another(f, b)'
        <3> SUFFICES ASSUME Mine(f, b) PROVE Mine(f, b)' \/ Another(f, b)'
            OBVIOUS
        <3>1. /\ wr[w].pc = "commit" /\ wr[w].frame \in Frames /\ wr[w].block \in Blocks
              /\ table[wr[w].block] = wr[w].frame /\ frames[wr[w].frame].block = wr[w].block
              /\ use[wr[w].block].state = "live"
            BY <1>1, <1>e, DataFacts DEF WriterPlace, WriterData, Pinned, Mapped
        <3>2. /\ frames[f].block \in {b, NoBlock} /\ frames[f].page.use = use[b].uses /\ frames[f].len = use[b].n
              /\ use[b].n <= frames[f].page.n
              /\ frames[f].block = NoBlock => use[b].state = "dead"
            BY <3>1, OneFrame DEF Filling
        <3>3. use[b].n \in Nat /\ use[b].uses \in Nat /\ frames[f].len \in Nat /\ NoBlock \notin Blocks
            BY <2>0, DataFacts
        <3>4. CASE b = wr[w].block
            <4>1. frames[f].block = b
                BY <3>1, <3>2, <3>4
            <4>2. f = wr[w].frame
                BY <1>1, <2>0, <3>1, <3>4, <4>1, SMT DEF Resident, SingleWriter
            <4>3. Stores(b) /\ Extra(b) = 1
                BY <1>1, <2>0, <3>1, <3>4, OneWriter
            <4>4. frames[f].page.n = use[b].n + 1
                BY <2>0, <3>1, <3>4, <4>2, <4>3 DEF Stores, Holds
            <4>5. /\ frames'[f].block = b /\ frames'[f].page.use = use'[b].uses /\ frames'[f].len = use'[b].n
                  /\ use'[b].n <= frames'[f].page.n
                BY <1>e, <3>2, <3>3, <3>4, <4>1, <4>2, <4>4
            <4> QED BY <2>0, <3>3, <4>5, OneFrameNext
        <3>5. CASE b # wr[w].block
            <4>1. f # wr[w].frame
                BY <3>1, <3>2, <3>3, <3>5
            <4>2. frames'[f] = frames[f] /\ use'[b] = use[b]
                BY <1>e, <2>0, <3>5, <4>1
            <4> QED BY <3>2, <4>2, OneFrameNext
        <3> QED BY <3>4, <3>5
    <2>4. wr'[w].pc \in Evicting /\ wr'[w].frame = f => frames'[f].block = b
        BY <1>1, <1>2, <1>3, <1>7, <1>e, <2>0, DataFacts DEF Evicting, Filling
    <2> QED BY <2>1, <2>2, <2>3, <2>4
<1> QED BY <1>1, <1>2, <1>4, <1>5, <1>6, <1>7, ReadSuffices

LEMMA UnpinPageReads ==
    ASSUME SingleWriter, PlaceInv, DataInv, ReadInv, NEW w \in Writers, UnpinPage(w), TypeInv', NEW r \in Readers
    PROVE  ReaderAt(r)'
<1>1. /\ (\A c \in Blocks : Mapped(c) /\ Stores(c)) /\ (\A g \in Frames : Resident(g))
      /\ Pinned(w) /\ WriterPlace(w) /\ WriterData(w) /\ ReaderAt(r) /\ TypeInv
    BY DEF PlaceInv, DataInv, ReadInv
<1>2. PICK b, f : b = rd[r].block /\ f = rd[r].frame
    OBVIOUS
<1>3. /\ rd[r].pc # "idle" => b \in Blocks /\ Kept(b)
      /\ rd[r].pc \in Touched =>
           /\ f \in Frames /\ rd[r].slot \in Nat /\ rd[r].slot <= epoch /\ frames[f].last \in Nat
           /\ frames[f].last > rd[r].slot \/ (wr[w].frame = f /\ wr[w].pc \in Filling)
           /\ wr[w].pc \in Evicting /\ wr[w].frame = f => frames[f].block = b
      /\ rd[r].pc = "touch" => table[b] = f /\ f \in Frames
      /\ epoch \in Nat
    BY <1>2, ReadFacts
<1>e. /\ wr[w].pc = "idle" /\ On(w) \in Blocks
      /\ wr'[w].pc = "idle" /\ wr'[w].block = wr[w].block /\ wr'[w].new = wr[w].new
      /\ wr'[w].frame = wr[w].frame
      /\ wr[w].pins[On(w)] \in Frames
      /\ table[On(w)] = wr[w].pins[On(w)] /\ frames[table[On(w)]].block = On(w)
      /\ \A g \in Frames : g # table[On(w)] => frames'[g] = frames[g]
      /\ frames'[table[On(w)]].block = frames[table[On(w)]].block
      /\ frames'[table[On(w)]].page.use = frames[table[On(w)]].page.use /\ frames'[table[On(w)]].page.n = frames[table[On(w)]].page.n
      /\ frames'[table[On(w)]].len = frames[table[On(w)]].len
      /\ table' = table /\ use' = use
      /\ frames'[table[On(w)]].last = frames[table[On(w)]].last
      /\ epoch' = epoch
    <2> DEFINE h == table[On(w)]
    <2>1. On(w) \in Blocks /\ wr[w].pins[On(w)] \in Frames
        BY UnpinPageEffect, DataFacts
    <2>2. h = wr[w].pins[On(w)] /\ frames[h].block = On(w) /\ h # NoBlock
        BY <1>1, <2>1, DataFacts DEF Pinned, Mapped
    <2>3. frames[h] \in FrameType
        BY <2>1, <2>2 DEF PlaceInv, TypeInv
    <2>4. /\ frames'[h] = [frames[h] EXCEPT !.pin = frames[h].pin - 1, !.dirty = frames[h].dirty \/ On(w) \in wr[w].wrote]
          /\ \A g \in Frames : g # h => frames'[g] = frames[g]
        BY <2>2, UnpinPageEffect
    <2> HIDE DEF h
    <2>5. /\ frames'[h].block = frames[h].block /\ frames'[h].last = frames[h].last
          /\ frames'[h].page = frames[h].page /\ frames'[h].len = frames[h].len
        BY <2>3, <2>4 DEF FrameType
    <2> QED BY <2>1, <2>2, <2>4, <2>5, UnpinPageEffect DEF h
<1>4. rd' = rd /\ epoch' >= epoch
    <2>1. rd' = rd
        BY UnpinPageEffect
    <2> QED BY <1>3, <1>e, <2>1
<1>5. rd[r].pc # "idle" => Kept(b)' /\ use'[b].uses = use[b].uses /\ use[b].n <= use'[b].n
    BY <1>1, <1>2, <1>3, <1>e, DataFacts DEF Kept, WriterData
<1>6. rd[r].pc = "touch" => table'[b] = f
    BY <1>1, <1>2, <1>3, <1>e, DataFacts DEF WriterPlace, Searching
<1>7. ASSUME rd[r].pc \in Touched
      PROVE  /\ frames'[f].last > rd[r].slot \/ (wr'[w].frame = f /\ wr'[w].pc \in Filling)
             /\ Another(f, b) => Another(f, b)'
             /\ Mine(f, b) => Mine(f, b)' \/ Another(f, b)'
             /\ wr'[w].pc \in Evicting /\ wr'[w].frame = f => frames'[f].block = b
    <2>0. b \in Blocks /\ Kept(b) /\ f \in Frames /\ use'[b].uses = use[b].uses /\ rd[r].pc # "idle"
        BY <1>3, <1>5, <1>7 DEF Touched
    <2>1. frames'[f].last > rd[r].slot \/ (wr'[w].frame = f /\ wr'[w].pc \in Filling)
        BY <1>1, <1>3, <1>7, <1>e, <2>0, DataFacts DEF Filling
    <2>2. Another(f, b) => Another(f, b)'
        BY <1>1, <1>3, <1>7, <1>e, <2>0, DataFacts, OneFrame, OneFrameNext DEF WriterPlace, WriterData, Evicting, Filling
    <2>3. Mine(f, b) => Mine(f, b)' \/ Another(f, b)'
        BY <1>1, <1>3, <1>7, <1>e, <2>0, DataFacts, OneFrame, OneFrameNext
        DEF WriterPlace, WriterData, Evicting, Filling, Kept
    <2>4. wr'[w].pc \in Evicting /\ wr'[w].frame = f => frames'[f].block = b
        BY <1>1, <1>2, <1>3, <1>7, <1>e, <2>0, DataFacts DEF Evicting, Filling
    <2> QED BY <2>1, <2>2, <2>3, <2>4
<1> QED BY <1>1, <1>2, <1>4, <1>5, <1>6, <1>7, ReadSuffices

LEMMA SkipReads ==
    ASSUME SingleWriter, PlaceInv, DataInv, ReadInv, NEW w \in Writers, Skip(w), TypeInv', NEW r \in Readers
    PROVE  ReaderAt(r)'
<1>1. /\ (\A c \in Blocks : Mapped(c) /\ Stores(c)) /\ (\A g \in Frames : Resident(g))
      /\ Pinned(w) /\ WriterPlace(w) /\ WriterData(w) /\ ReaderAt(r) /\ TypeInv
    BY DEF PlaceInv, DataInv, ReadInv
<1>2. PICK b, f : b = rd[r].block /\ f = rd[r].frame
    OBVIOUS
<1>3. /\ rd[r].pc # "idle" => b \in Blocks /\ Kept(b)
      /\ rd[r].pc \in Touched =>
           /\ f \in Frames /\ rd[r].slot \in Nat /\ rd[r].slot <= epoch /\ frames[f].last \in Nat
           /\ frames[f].last > rd[r].slot \/ (wr[w].frame = f /\ wr[w].pc \in Filling)
           /\ wr[w].pc \in Evicting /\ wr[w].frame = f => frames[f].block = b
      /\ rd[r].pc = "touch" => table[b] = f /\ f \in Frames
      /\ epoch \in Nat
    BY <1>2, ReadFacts
<1>e. /\ wr' = wr
      /\ frames' = frames /\ table' = table /\ use' = use
      /\ epoch' = epoch
    BY SkipEffect, DataFacts
<1>4. rd' = rd /\ epoch' >= epoch
    <2>1. rd' = rd
        BY SkipEffect
    <2> QED BY <1>3, <1>e, <2>1
<1>5. rd[r].pc # "idle" => Kept(b)' /\ use'[b].uses = use[b].uses /\ use[b].n <= use'[b].n
    BY <1>1, <1>2, <1>3, <1>e, DataFacts DEF Kept, WriterData
<1>6. rd[r].pc = "touch" => table'[b] = f
    BY <1>1, <1>2, <1>3, <1>e, DataFacts DEF WriterPlace, Searching
<1>7. ASSUME rd[r].pc \in Touched
      PROVE  /\ frames'[f].last > rd[r].slot \/ (wr'[w].frame = f /\ wr'[w].pc \in Filling)
             /\ Another(f, b) => Another(f, b)'
             /\ Mine(f, b) => Mine(f, b)' \/ Another(f, b)'
             /\ wr'[w].pc \in Evicting /\ wr'[w].frame = f => frames'[f].block = b
    <2>0. b \in Blocks /\ Kept(b) /\ f \in Frames /\ use'[b].uses = use[b].uses /\ rd[r].pc # "idle"
        BY <1>3, <1>5, <1>7 DEF Touched
    <2>1. frames'[f].last > rd[r].slot \/ (wr'[w].frame = f /\ wr'[w].pc \in Filling)
        BY <1>1, <1>3, <1>7, <1>e, <2>0, DataFacts DEF Filling
    <2>2. Another(f, b) => Another(f, b)'
        BY <1>1, <1>3, <1>7, <1>e, <2>0, DataFacts, OneFrame, OneFrameNext DEF WriterPlace, WriterData, Evicting, Filling
    <2>3. Mine(f, b) => Mine(f, b)' \/ Another(f, b)'
        BY <1>1, <1>3, <1>7, <1>e, <2>0, DataFacts, OneFrame, OneFrameNext
        DEF WriterPlace, WriterData, Evicting, Filling, Kept
    <2>4. wr'[w].pc \in Evicting /\ wr'[w].frame = f => frames'[f].block = b
        BY <1>1, <1>2, <1>3, <1>7, <1>e, <2>0, DataFacts DEF Evicting, Filling
    <2> QED BY <2>1, <2>2, <2>3, <2>4
<1> QED BY <1>1, <1>2, <1>4, <1>5, <1>6, <1>7, ReadSuffices

LEMMA FlushPageReads ==
    ASSUME SingleWriter, PlaceInv, DataInv, ReadInv, NEW w \in Writers, FlushPage(w), TypeInv', NEW r \in Readers
    PROVE  ReaderAt(r)'
<1>1. /\ (\A c \in Blocks : Mapped(c) /\ Stores(c)) /\ (\A g \in Frames : Resident(g))
      /\ Pinned(w) /\ WriterPlace(w) /\ WriterData(w) /\ ReaderAt(r) /\ TypeInv
    BY DEF PlaceInv, DataInv, ReadInv
<1>2. PICK b, f : b = rd[r].block /\ f = rd[r].frame
    OBVIOUS
<1>3. /\ rd[r].pc # "idle" => b \in Blocks /\ Kept(b)
      /\ rd[r].pc \in Touched =>
           /\ f \in Frames /\ rd[r].slot \in Nat /\ rd[r].slot <= epoch /\ frames[f].last \in Nat
           /\ frames[f].last > rd[r].slot \/ (wr[w].frame = f /\ wr[w].pc \in Filling)
           /\ wr[w].pc \in Evicting /\ wr[w].frame = f => frames[f].block = b
      /\ rd[r].pc = "touch" => table[b] = f /\ f \in Frames
      /\ epoch \in Nat
    BY <1>2, ReadFacts
<1>e. /\ wr[w].pc = "idle" /\ wr'[w].pc \in {"idle", "flushed"}
      /\ \A g \in Frames : /\ frames'[g].block = frames[g].block /\ frames'[g].last = frames[g].last /\ frames'[g].len = frames[g].len
                           /\ frames'[g].page.use = frames[g].page.use /\ frames'[g].page.n = frames[g].page.n
      /\ table' = table /\ use' = use /\ epoch' = epoch
    <2>1. wr[w].pc = "idle" /\ table' = table /\ use' = use /\ epoch' = epoch
        BY FlushPageEffect
    <2>2. CASE wr' = wr /\ frames' = frames
        BY <2>1, <2>2
    <2>3. CASE ~(wr' = wr /\ frames' = frames)
        <3>1. /\ table[On(w)] \in Frames /\ wr'[w].pc = "flushed"
              /\ frames'[table[On(w)]] = [frames[table[On(w)]] EXCEPT !.page = Synced(table[On(w)])]
              /\ \A g \in Frames : g # table[On(w)] => frames'[g] = frames[g]
            BY <2>3, FlushPageEffect
        <3>2. PICK g \in Frames : g = table[On(w)]
            BY <3>1
        <3>3. frames[g] \in FrameType
            BY <1>1 DEF TypeInv
        <3>4. frames[g].page \in Page
            BY <3>3 DEF FrameType
        <3>5. Synced(g).use = frames[g].page.use /\ Synced(g).n = frames[g].page.n
            BY <3>4 DEF Synced, Page
        <3>6. /\ frames'[g].block = frames[g].block /\ frames'[g].last = frames[g].last
              /\ frames'[g].len = frames[g].len /\ frames'[g].page = Synced(g)
            BY <3>1, <3>2, <3>3 DEF FrameType
        <3> QED BY <2>1, <3>1, <3>2, <3>5, <3>6
    <2> QED BY <2>2, <2>3
<1>4. rd' = rd /\ epoch' >= epoch
    <2>1. rd' = rd
        BY FlushPageEffect
    <2> QED BY <1>3, <1>e, <2>1
<1>5. rd[r].pc # "idle" => Kept(b)' /\ use'[b].uses = use[b].uses /\ use[b].n <= use'[b].n
    BY <1>1, <1>2, <1>3, <1>e, DataFacts DEF Kept, WriterData
<1>6. rd[r].pc = "touch" => table'[b] = f
    BY <1>1, <1>2, <1>3, <1>e, DataFacts DEF WriterPlace, Searching
<1>7. ASSUME rd[r].pc \in Touched
      PROVE  /\ frames'[f].last > rd[r].slot \/ (wr'[w].frame = f /\ wr'[w].pc \in Filling)
             /\ Another(f, b) => Another(f, b)'
             /\ Mine(f, b) => Mine(f, b)' \/ Another(f, b)'
             /\ wr'[w].pc \in Evicting /\ wr'[w].frame = f => frames'[f].block = b
    <2>0. b \in Blocks /\ Kept(b) /\ f \in Frames /\ use'[b].uses = use[b].uses /\ rd[r].pc # "idle"
        BY <1>3, <1>5, <1>7 DEF Touched
    <2>1. frames'[f].last > rd[r].slot \/ (wr'[w].frame = f /\ wr'[w].pc \in Filling)
        BY <1>1, <1>3, <1>7, <1>e, <2>0, DataFacts DEF Filling
    <2>2. Another(f, b) => Another(f, b)'
        BY <1>1, <1>3, <1>7, <1>e, <2>0, DataFacts, OneFrame, OneFrameNext DEF WriterPlace, WriterData, Evicting, Filling
    <2>3. Mine(f, b) => Mine(f, b)' \/ Another(f, b)'
        BY <1>1, <1>3, <1>7, <1>e, <2>0, DataFacts, OneFrame, OneFrameNext
        DEF WriterPlace, WriterData, Evicting, Filling, Kept
    <2>4. wr'[w].pc \in Evicting /\ wr'[w].frame = f => frames'[f].block = b
        BY <1>1, <1>2, <1>3, <1>7, <1>e, <2>0, DataFacts DEF Evicting, Filling
    <2> QED BY <2>1, <2>2, <2>3, <2>4
<1> QED BY <1>1, <1>2, <1>4, <1>5, <1>6, <1>7, ReadSuffices

LEMMA FlushDoneReads ==
    ASSUME SingleWriter, PlaceInv, DataInv, ReadInv, NEW w \in Writers, FlushDone(w), TypeInv', NEW r \in Readers
    PROVE  ReaderAt(r)'
<1>1. /\ (\A c \in Blocks : Mapped(c) /\ Stores(c)) /\ (\A g \in Frames : Resident(g))
      /\ Pinned(w) /\ WriterPlace(w) /\ WriterData(w) /\ ReaderAt(r) /\ TypeInv
    BY DEF PlaceInv, DataInv, ReadInv
<1>2. PICK b, f : b = rd[r].block /\ f = rd[r].frame
    OBVIOUS
<1>3. /\ rd[r].pc # "idle" => b \in Blocks /\ Kept(b)
      /\ rd[r].pc \in Touched =>
           /\ f \in Frames /\ rd[r].slot \in Nat /\ rd[r].slot <= epoch /\ frames[f].last \in Nat
           /\ frames[f].last > rd[r].slot \/ (wr[w].frame = f /\ wr[w].pc \in Filling)
           /\ wr[w].pc \in Evicting /\ wr[w].frame = f => frames[f].block = b
      /\ rd[r].pc = "touch" => table[b] = f /\ f \in Frames
      /\ epoch \in Nat
    BY <1>2, ReadFacts
<1>e. /\ wr[w].pc = "flushed" /\ wr[w].frame \in Frames
      /\ wr'[w].pc = "idle" /\ wr'[w].block = NoBlock /\ wr'[w].new = FALSE
      /\ wr'[w].frame = NoFrame
      /\ \A g \in Frames : g # wr[w].frame => frames'[g] = frames[g]
      /\ frames'[wr[w].frame].block = frames[wr[w].frame].block
      /\ frames'[wr[w].frame].page.use = frames[wr[w].frame].page.use /\ frames'[wr[w].frame].page.n = frames[wr[w].frame].page.n
      /\ frames'[wr[w].frame].len = frames[wr[w].frame].len
      /\ table' = table /\ use' = use
      /\ frames'[wr[w].frame].last = frames[wr[w].frame].last
      /\ epoch' = epoch
    BY FlushDoneEffect, DataFacts
<1>4. rd' = rd /\ epoch' >= epoch
    <2>1. rd' = rd
        BY FlushDoneEffect
    <2> QED BY <1>3, <1>e, <2>1
<1>5. rd[r].pc # "idle" => Kept(b)' /\ use'[b].uses = use[b].uses /\ use[b].n <= use'[b].n
    BY <1>1, <1>2, <1>3, <1>e, DataFacts DEF Kept, WriterData
<1>6. rd[r].pc = "touch" => table'[b] = f
    BY <1>1, <1>2, <1>3, <1>e, DataFacts DEF WriterPlace, Searching
<1>7. ASSUME rd[r].pc \in Touched
      PROVE  /\ frames'[f].last > rd[r].slot \/ (wr'[w].frame = f /\ wr'[w].pc \in Filling)
             /\ Another(f, b) => Another(f, b)'
             /\ Mine(f, b) => Mine(f, b)' \/ Another(f, b)'
             /\ wr'[w].pc \in Evicting /\ wr'[w].frame = f => frames'[f].block = b
    <2>0. b \in Blocks /\ Kept(b) /\ f \in Frames /\ use'[b].uses = use[b].uses /\ rd[r].pc # "idle"
        BY <1>3, <1>5, <1>7 DEF Touched
    <2>1. frames'[f].last > rd[r].slot \/ (wr'[w].frame = f /\ wr'[w].pc \in Filling)
        BY <1>1, <1>3, <1>7, <1>e, <2>0, DataFacts DEF Filling
    <2>2. Another(f, b) => Another(f, b)'
        BY <1>1, <1>3, <1>7, <1>e, <2>0, DataFacts, OneFrame, OneFrameNext DEF WriterPlace, WriterData, Evicting, Filling
    <2>3. Mine(f, b) => Mine(f, b)' \/ Another(f, b)'
        BY <1>1, <1>3, <1>7, <1>e, <2>0, DataFacts, OneFrame, OneFrameNext
        DEF WriterPlace, WriterData, Evicting, Filling, Kept
    <2>4. wr'[w].pc \in Evicting /\ wr'[w].frame = f => frames'[f].block = b
        BY <1>1, <1>2, <1>3, <1>7, <1>e, <2>0, DataFacts DEF Evicting, Filling
    <2> QED BY <2>1, <2>2, <2>3, <2>4
<1> QED BY <1>1, <1>2, <1>4, <1>5, <1>6, <1>7, ReadSuffices

LEMMA BuryReads ==
    ASSUME SingleWriter, PlaceInv, DataInv, ReadInv, NEW w \in Writers, Bury(w), TypeInv', NEW r \in Readers
    PROVE  ReaderAt(r)'
<1>1. /\ (\A c \in Blocks : Mapped(c) /\ Stores(c)) /\ (\A g \in Frames : Resident(g))
      /\ Pinned(w) /\ WriterPlace(w) /\ WriterData(w) /\ ReaderAt(r) /\ TypeInv
    BY DEF PlaceInv, DataInv, ReadInv
<1>2. PICK b, f : b = rd[r].block /\ f = rd[r].frame
    OBVIOUS
<1>3. /\ rd[r].pc # "idle" => b \in Blocks /\ Kept(b)
      /\ rd[r].pc \in Touched =>
           /\ f \in Frames /\ rd[r].slot \in Nat /\ rd[r].slot <= epoch /\ frames[f].last \in Nat
           /\ frames[f].last > rd[r].slot \/ (wr[w].frame = f /\ wr[w].pc \in Filling)
           /\ wr[w].pc \in Evicting /\ wr[w].frame = f => frames[f].block = b
      /\ rd[r].pc = "touch" => table[b] = f /\ f \in Frames
      /\ epoch \in Nat
    BY <1>2, ReadFacts
<1>e. /\ wr[w].pc = "idle" /\ On(w) \in Blocks
      /\ wr' = wr
      /\ use[On(w)].state = "live" /\ wr[w].pins[On(w)] = NoFrame /\ (table[On(w)] # NoBlock => ~frames[table[On(w)]].dirty)
      /\ use'[On(w)].state = "dead" /\ use'[On(w)].uses = use[On(w)].uses /\ use'[On(w)].n = use[On(w)].n
      /\ \A c \in Blocks : c # On(w) => use'[c] = use[c]
      /\ frames' = frames /\ table' = table
      /\ epoch' = epoch
    <2>a. use[On(w)] \in Use
        BY BuryEffect, DataFacts
    <2>1. wr[w].pc = "idle" /\ On(w) \in Blocks
        BY BuryEffect, <2>a
    <2>2. wr' = wr
        BY BuryEffect, <2>a
    <2>3. use[On(w)].state = "live" /\ wr[w].pins[On(w)] = NoFrame /\ (table[On(w)] # NoBlock => ~frames[table[On(w)]].dirty)
        BY BuryEffect, <2>a
    <2>4. use'[On(w)].state = "dead" /\ use'[On(w)].uses = use[On(w)].uses /\ use'[On(w)].n = use[On(w)].n
        <3>1. use'[On(w)] = [use[On(w)] EXCEPT !.state = "dead"]
            BY BuryEffect
        <3> QED BY <2>a, <3>1 DEF Use
    <2>5. \A c \in Blocks : c # On(w) => use'[c] = use[c]
        BY BuryEffect, <2>a
    <2>6. frames' = frames /\ table' = table
        BY BuryEffect, <2>a
    <2>7. epoch' = epoch
        BY BuryEffect, <2>a
    <2> QED BY <2>1, <2>2, <2>3, <2>4, <2>5, <2>6, <2>7
<1>4. rd' = rd /\ epoch' >= epoch
    <2>1. rd' = rd
        BY BuryEffect
    <2> QED BY <1>3, <1>e, <2>1
<1>5. rd[r].pc # "idle" => Kept(b)' /\ use'[b].uses = use[b].uses /\ use[b].n <= use'[b].n
    BY <1>1, <1>2, <1>3, <1>e, DataFacts DEF Kept, WriterData
<1>6. rd[r].pc = "touch" => table'[b] = f
    BY <1>1, <1>2, <1>3, <1>e, DataFacts DEF WriterPlace, Searching
<1>7. ASSUME rd[r].pc \in Touched
      PROVE  /\ frames'[f].last > rd[r].slot \/ (wr'[w].frame = f /\ wr'[w].pc \in Filling)
             /\ Another(f, b) => Another(f, b)'
             /\ Mine(f, b) => Mine(f, b)' \/ Another(f, b)'
             /\ wr'[w].pc \in Evicting /\ wr'[w].frame = f => frames'[f].block = b
    <2>0. b \in Blocks /\ Kept(b) /\ f \in Frames /\ use'[b].uses = use[b].uses /\ rd[r].pc # "idle"
        BY <1>3, <1>5, <1>7 DEF Touched
    <2>1. frames'[f].last > rd[r].slot \/ (wr'[w].frame = f /\ wr'[w].pc \in Filling)
        BY <1>1, <1>3, <1>7, <1>e, <2>0, DataFacts DEF Filling
    <2>2. Another(f, b) => Another(f, b)'
        BY <1>1, <1>3, <1>7, <1>e, <2>0, DataFacts, OneFrame, OneFrameNext DEF WriterPlace, WriterData, Evicting, Filling
    <2>3. Mine(f, b) => Mine(f, b)' \/ Another(f, b)'
        BY <1>1, <1>3, <1>7, <1>e, <2>0, DataFacts, OneFrame, OneFrameNext
        DEF WriterPlace, WriterData, Evicting, Filling, Kept
    <2>4. wr'[w].pc \in Evicting /\ wr'[w].frame = f => frames'[f].block = b
        BY <1>1, <1>2, <1>3, <1>7, <1>e, <2>0, DataFacts DEF Evicting, Filling
    <2> QED BY <2>1, <2>2, <2>3, <2>4
<1> QED BY <1>1, <1>2, <1>4, <1>5, <1>6, <1>7, ReadSuffices

LEMMA ForceCheckReads ==
    ASSUME SingleWriter, PlaceInv, DataInv, ReadInv, NEW w \in Writers, ForceCheck(w), TypeInv', NEW r \in Readers
    PROVE  ReaderAt(r)'
<1>1. /\ (\A c \in Blocks : Mapped(c) /\ Stores(c)) /\ (\A g \in Frames : Resident(g))
      /\ Pinned(w) /\ WriterPlace(w) /\ WriterData(w) /\ ReaderAt(r) /\ TypeInv
    BY DEF PlaceInv, DataInv, ReadInv
<1>2. PICK b, f : b = rd[r].block /\ f = rd[r].frame
    OBVIOUS
<1>3. /\ rd[r].pc # "idle" => b \in Blocks /\ Kept(b)
      /\ rd[r].pc \in Touched =>
           /\ f \in Frames /\ rd[r].slot \in Nat /\ rd[r].slot <= epoch /\ frames[f].last \in Nat
           /\ frames[f].last > rd[r].slot \/ (wr[w].frame = f /\ wr[w].pc \in Filling)
           /\ wr[w].pc \in Evicting /\ wr[w].frame = f => frames[f].block = b
      /\ rd[r].pc = "touch" => table[b] = f /\ f \in Frames
      /\ epoch \in Nat
    BY <1>2, ReadFacts
<1>e. /\ wr[w].pc = "idle" /\ On(w) \in Blocks
      /\ \/ wr' = wr
         \/ /\ wr'[w].pc = "force" /\ wr'[w].frame = table[On(w)] /\ table[On(w)] \in Frames
            /\ SafeToEvict(frames[table[On(w)]].last)
      /\ frames' = frames /\ table' = table /\ use' = use /\ epoch' = epoch
    BY ForceCheckEffect, DataFacts DEF MayEvict
<1>4. rd' = rd /\ epoch' >= epoch
    <2>1. rd' = rd
        BY ForceCheckEffect
    <2> QED BY <1>3, <1>e, <2>1
<1>5. rd[r].pc # "idle" => Kept(b)' /\ use'[b].uses = use[b].uses /\ use[b].n <= use'[b].n
    BY <1>1, <1>2, <1>3, <1>e, DataFacts DEF Kept, WriterData
<1>6. rd[r].pc = "touch" => table'[b] = f
    BY <1>1, <1>2, <1>3, <1>e, DataFacts DEF WriterPlace, Searching
<1>7. ASSUME rd[r].pc \in Touched
      PROVE  /\ frames'[f].last > rd[r].slot \/ (wr'[w].frame = f /\ wr'[w].pc \in Filling)
             /\ Another(f, b) => Another(f, b)'
             /\ Mine(f, b) => Mine(f, b)' \/ Another(f, b)'
             /\ wr'[w].pc \in Evicting /\ wr'[w].frame = f => frames'[f].block = b
    <2>0. b \in Blocks /\ Kept(b) /\ f \in Frames /\ use'[b].uses = use[b].uses /\ rd[r].pc # "idle"
        BY <1>3, <1>5, <1>7 DEF Touched
    <2>1. frames'[f].last > rd[r].slot \/ (wr'[w].frame = f /\ wr'[w].pc \in Filling)
        BY <1>1, <1>3, <1>7, <1>e, <2>0, DataFacts DEF Filling
    <2>2. Another(f, b) => Another(f, b)'
        BY <1>1, <1>3, <1>7, <1>e, <2>0, DataFacts, OneFrame, OneFrameNext DEF WriterPlace, WriterData, Evicting, Filling
    <2>3. Mine(f, b) => Mine(f, b)' \/ Another(f, b)'
        BY <1>1, <1>3, <1>7, <1>e, <2>0, DataFacts, OneFrame, OneFrameNext
        DEF WriterPlace, WriterData, Evicting, Filling, Kept
    <2>4. wr'[w].pc \in Evicting /\ wr'[w].frame = f => frames'[f].block = b
        BY <1>1, <1>2, <1>3, <1>7, <1>e, <2>0, DataFacts DEF Evicting, Filling, SafeToEvict, Inactive
    <2> QED BY <2>1, <2>2, <2>3, <2>4
<1> QED BY <1>1, <1>2, <1>4, <1>5, <1>6, <1>7, ReadSuffices

LEMMA ForceRemoveReads ==
    ASSUME SingleWriter, PlaceInv, DataInv, ReadInv, NEW w \in Writers, ForceRemove(w), TypeInv', NEW r \in Readers
    PROVE  ReaderAt(r)'
<1>1. /\ (\A c \in Blocks : Mapped(c) /\ Stores(c)) /\ (\A g \in Frames : Resident(g))
      /\ Pinned(w) /\ WriterPlace(w) /\ WriterData(w) /\ ReaderAt(r) /\ TypeInv
    BY DEF PlaceInv, DataInv, ReadInv
<1>2. PICK b, f : b = rd[r].block /\ f = rd[r].frame
    OBVIOUS
<1>3. /\ rd[r].pc # "idle" => b \in Blocks /\ Kept(b)
      /\ rd[r].pc \in Touched =>
           /\ f \in Frames /\ rd[r].slot \in Nat /\ rd[r].slot <= epoch /\ frames[f].last \in Nat
           /\ frames[f].last > rd[r].slot \/ (wr[w].frame = f /\ wr[w].pc \in Filling)
           /\ wr[w].pc \in Evicting /\ wr[w].frame = f => frames[f].block = b
      /\ rd[r].pc = "touch" => table[b] = f /\ f \in Frames
      /\ epoch \in Nat
    BY <1>2, ReadFacts
<1>e. /\ wr[w].pc = "force" /\ wr[w].block \in Blocks /\ HoldsShard(wr[w].block) = {}
      /\ wr'[w].pc = "release" /\ wr'[w].block = wr[w].block /\ wr'[w].new = wr[w].new
      /\ wr'[w].frame = wr[w].frame
      /\ table'[wr[w].block] = NoBlock
      /\ \A c \in Blocks : c # wr[w].block => table'[c] = table[c]
      /\ frames' = frames /\ use' = use
      /\ epoch' = epoch
    BY ForceRemoveEffect, DataFacts
<1>4. rd' = rd /\ epoch' >= epoch
    <2>1. rd' = rd
        BY ForceRemoveEffect
    <2> QED BY <1>3, <1>e, <2>1
<1>5. rd[r].pc # "idle" => Kept(b)' /\ use'[b].uses = use[b].uses /\ use[b].n <= use'[b].n
    BY <1>1, <1>2, <1>3, <1>e, DataFacts DEF Kept, WriterData
<1>6. rd[r].pc = "touch" => table'[b] = f
    BY <1>1, <1>2, <1>3, <1>e, DataFacts DEF WriterPlace, Searching, HoldsShard
<1>7. ASSUME rd[r].pc \in Touched
      PROVE  /\ frames'[f].last > rd[r].slot \/ (wr'[w].frame = f /\ wr'[w].pc \in Filling)
             /\ Another(f, b) => Another(f, b)'
             /\ Mine(f, b) => Mine(f, b)' \/ Another(f, b)'
             /\ wr'[w].pc \in Evicting /\ wr'[w].frame = f => frames'[f].block = b
    <2>0. b \in Blocks /\ Kept(b) /\ f \in Frames /\ use'[b].uses = use[b].uses /\ rd[r].pc # "idle"
        BY <1>3, <1>5, <1>7 DEF Touched
    <2>1. frames'[f].last > rd[r].slot \/ (wr'[w].frame = f /\ wr'[w].pc \in Filling)
        BY <1>1, <1>3, <1>7, <1>e, <2>0, DataFacts DEF Filling
    <2>2. Another(f, b) => Another(f, b)'
        BY <1>1, <1>3, <1>7, <1>e, <2>0, DataFacts, OneFrame, OneFrameNext DEF WriterPlace, WriterData, Evicting, Filling
    <2>3. Mine(f, b) => Mine(f, b)' \/ Another(f, b)'
        BY <1>1, <1>3, <1>7, <1>e, <2>0, DataFacts, OneFrame, OneFrameNext
        DEF WriterPlace, WriterData, Evicting, Filling, Kept
    <2>4. wr'[w].pc \in Evicting /\ wr'[w].frame = f => frames'[f].block = b
        BY <1>1, <1>2, <1>3, <1>7, <1>e, <2>0, DataFacts DEF Evicting, Filling
    <2> QED BY <2>1, <2>2, <2>3, <2>4
<1> QED BY <1>1, <1>2, <1>4, <1>5, <1>6, <1>7, ReadSuffices

LEMMA ForceFreeReads ==
    ASSUME SingleWriter, PlaceInv, DataInv, ReadInv, NEW w \in Writers, ForceFree(w), TypeInv', NEW r \in Readers
    PROVE  ReaderAt(r)'
<1>1. /\ (\A c \in Blocks : Mapped(c) /\ Stores(c)) /\ (\A g \in Frames : Resident(g))
      /\ Pinned(w) /\ WriterPlace(w) /\ WriterData(w) /\ ReaderAt(r) /\ TypeInv
    BY DEF PlaceInv, DataInv, ReadInv
<1>2. PICK b, f : b = rd[r].block /\ f = rd[r].frame
    OBVIOUS
<1>3. /\ rd[r].pc # "idle" => b \in Blocks /\ Kept(b)
      /\ rd[r].pc \in Touched =>
           /\ f \in Frames /\ rd[r].slot \in Nat /\ rd[r].slot <= epoch /\ frames[f].last \in Nat
           /\ frames[f].last > rd[r].slot \/ (wr[w].frame = f /\ wr[w].pc \in Filling)
           /\ wr[w].pc \in Evicting /\ wr[w].frame = f => frames[f].block = b
      /\ rd[r].pc = "touch" => table[b] = f /\ f \in Frames
      /\ epoch \in Nat
    BY <1>2, ReadFacts
<1>e. /\ wr[w].pc = "release" /\ wr[w].frame \in Frames
      /\ wr'[w].pc = "idle" /\ wr'[w].block = NoBlock /\ wr'[w].new = FALSE
      /\ wr'[w].frame = NoFrame
      /\ \A g \in Frames : g # wr[w].frame => frames'[g] = frames[g]
      /\ frames'[wr[w].frame].block = NoBlock
      /\ frames'[wr[w].frame].page.use = frames[wr[w].frame].page.use /\ frames'[wr[w].frame].page.n = frames[wr[w].frame].page.n
      /\ frames'[wr[w].frame].len = frames[wr[w].frame].len
      /\ table' = table /\ use' = use
      /\ frames'[wr[w].frame].last = frames[wr[w].frame].last
      /\ epoch' = epoch
    BY ForceFreeEffect, DataFacts
<1>4. rd' = rd /\ epoch' >= epoch
    <2>1. rd' = rd
        BY ForceFreeEffect
    <2> QED BY <1>3, <1>e, <2>1
<1>5. rd[r].pc # "idle" => Kept(b)' /\ use'[b].uses = use[b].uses /\ use[b].n <= use'[b].n
    BY <1>1, <1>2, <1>3, <1>e, DataFacts DEF Kept, WriterData
<1>6. rd[r].pc = "touch" => table'[b] = f
    BY <1>1, <1>2, <1>3, <1>e, DataFacts DEF WriterPlace, Searching
<1>7. ASSUME rd[r].pc \in Touched
      PROVE  /\ frames'[f].last > rd[r].slot \/ (wr'[w].frame = f /\ wr'[w].pc \in Filling)
             /\ Another(f, b) => Another(f, b)'
             /\ Mine(f, b) => Mine(f, b)' \/ Another(f, b)'
             /\ wr'[w].pc \in Evicting /\ wr'[w].frame = f => frames'[f].block = b
    <2>0. b \in Blocks /\ Kept(b) /\ f \in Frames /\ use'[b].uses = use[b].uses /\ rd[r].pc # "idle"
        BY <1>3, <1>5, <1>7 DEF Touched
    <2>1. frames'[f].last > rd[r].slot \/ (wr'[w].frame = f /\ wr'[w].pc \in Filling)
        BY <1>1, <1>3, <1>7, <1>e, <2>0, DataFacts DEF Filling
    <2>2. Another(f, b) => Another(f, b)'
        BY <1>1, <1>3, <1>7, <1>e, <2>0, DataFacts, OneFrame, OneFrameNext DEF WriterPlace, WriterData, Evicting, Filling
    <2>3. Mine(f, b) => Mine(f, b)' \/ Another(f, b)'
        BY <1>1, <1>3, <1>7, <1>e, <2>0, DataFacts, OneFrame, OneFrameNext
        DEF WriterPlace, WriterData, Evicting, Filling, Kept
    <2>4. wr'[w].pc \in Evicting /\ wr'[w].frame = f => frames'[f].block = b
        BY <1>1, <1>2, <1>3, <1>7, <1>e, <2>0, DataFacts DEF Evicting, Filling
    <2> QED BY <2>1, <2>2, <2>3, <2>4
<1> QED BY <1>1, <1>2, <1>4, <1>5, <1>6, <1>7, ReadSuffices

LEMMA WriterReads ==
    ASSUME SingleWriter, PlaceInv, DataInv, ReadInv, NEW w \in Writers, PoolCall(w)
    PROVE  ReadInv'
<1>1. TypeInv'
    BY WriterTypes DEF PlaceInv
<1> SUFFICES ASSUME NEW r \in Readers PROVE ReaderAt(r)'
    BY DEF ReadInv
<1>2. CASE FetchPage(w) \/ AllocNewPage(w) \/ Hit(w) \/ Miss(w) \/ Reinit(w)
    BY <1>1, <1>2, FetchPageReads, AllocNewPageReads, HitReads, MissReads, ReinitReads
<1>3. CASE Vacant(w) \/ TakeFree(w) \/ Candidate(w) \/ GiveUp(w) \/ FlushVictim(w)
    BY <1>1, <1>3, VacantReads, TakeFreeReads, CandidateReads, GiveUpReads, FlushVictimReads
<1>4. CASE RemoveVictim(w) \/ ResetVictim(w) \/ LoadPage(w) \/ Publish(w) \/ Insert(w)
    BY <1>1, <1>4, RemoveVictimReads, ResetVictimReads, LoadPageReads, PublishReads, InsertReads
<1>5. CASE Append_Data(w) \/ Append_Commit(w) \/ UnpinPage(w) \/ Skip(w) \/ FlushPage(w)
    BY <1>1, <1>5, Append_DataReads, Append_CommitReads, UnpinPageReads, SkipReads, FlushPageReads
<1>6. CASE FlushDone(w) \/ Bury(w) \/ ForceCheck(w) \/ ForceRemove(w) \/ ForceFree(w)
    BY <1>1, <1>6, FlushDoneReads, BuryReads, ForceCheckReads, ForceRemoveReads, ForceFreeReads
<1> QED BY <1>2, <1>3, <1>4, <1>5, <1>6 DEF PoolCall

(* Only Touch moves the epoch, and with it a frame's.                       *)
LEMMA ReaderEpochs ==
    ASSUME TypeInv, NEW r \in Readers, Read(r)
    PROVE  \/ epoch' = epoch /\ frames' = frames
           \/ /\ epoch' = epoch + 1
              /\ \A f \in Frames : frames'[f].last \in {frames[f].last, epoch + 1}
<1>1. CASE Touch(r)
    <2>1. epoch' = epoch + 1 /\ frames' = Advance(rd[r].frame) /\ frames \in [Frames -> FrameType]
        BY <1>1 DEF Touch, TypeInv
    <2>2. ASSUME NEW f \in Frames PROVE frames'[f].last \in {frames[f].last, epoch + 1}
        <3>1. frames[f] \in FrameType
            BY <2>1
        <3> QED BY <2>1, <3>1 DEF Advance, FrameType
    <2> QED BY <2>1, <2>2
<1>2. CASE ~Touch(r)
    BY <1>2 DEF Read, Begin, Enter, Resolve, Confirm, ReadLen, Scan, Validate, Exit, Step
<1> QED BY <1>1, <1>2

LEMMA OtherReads ==
    ASSUME PlaceInv, ReadInv, NEW r \in Readers, Read(r), NEW q \in Readers, q # r
    PROVE  ReaderAt(q)'
<1>1. TypeInv /\ ReaderAt(q) /\ epoch \in Nat
    BY DEF PlaceInv, ReadInv, TypeInv
<1>2. /\ TypeInv' /\ UNCHANGED <<wr, table, use>> /\ rd'[q] = rd[q]
      /\ \A f \in Frames : /\ frames'[f].block = frames[f].block
                           /\ frames'[f].page = frames[f].page /\ frames'[f].len = frames[f].len
    BY <1>1, ReaderTypes
<1>3. /\ epoch' \in {epoch, epoch + 1}
      /\ \A f \in Frames : frames'[f].last \in {frames[f].last, epoch + 1}
    BY <1>1, ReaderEpochs
<1>4. PICK b, f : b = rd[q].block /\ f = rd[q].frame
    OBVIOUS
<1>5. /\ rd[q].pc # "idle" => b \in Blocks /\ Kept(b) /\ rd[q].seen <= epoch
      /\ rd[q].pc \notin {"idle", "enter"} => rd[q].slot \in Nat /\ rd[q].slot <= epoch
      /\ rd[q].pc \in {"touch", "accepted"} \cup Touched => f \in Frames
    BY <1>1, <1>4 DEF ReaderAt
<1>6. rd[q] \in ReaderType /\ \A g \in Frames : frames[g].last \in Nat
    BY <1>1 DEF TypeInv, FrameType
<1>7. rd[q].seen \in Nat
    BY <1>6 DEF ReaderType
<1>8. /\ rd[q].pc # "idle" => Kept(b)' /\ rd[q].seen <= epoch'
      /\ rd[q].pc \notin {"idle", "enter"} => rd[q].slot <= epoch'
    BY <1>1, <1>2, <1>3, <1>5, <1>7 DEF Kept
<1>9. f \in Frames => (Mine(f, b)' <=> Mine(f, b)) /\ (Another(f, b)' <=> Another(f, b))
    BY <1>2 DEF Mine, Another
<1>10. rd[q].pc \in Touched => HeldBack(q)'
    <2> SUFFICES ASSUME rd[q].pc \in Touched PROVE HeldBack(q)'
        OBVIOUS
    <2>1. f \in Frames /\ rd[q].slot \in Nat /\ rd[q].slot <= epoch /\ HeldBack(q) /\ frames[f].last \in Nat
        BY <1>1, <1>5, <1>6 DEF ReaderAt, Touched
    <2>2. frames[f].last > rd[q].slot => frames'[f].last > rd[q].slot
        BY <1>1, <1>3, <2>1
    <2> QED BY <1>2, <1>4, <2>1, <2>2 DEF HeldBack
<1>11. rd[q].pc \in Touched =>
           /\ Mine(f, b)' \/ Another(f, b)'
           /\ \A w \in Writers : wr'[w].pc \in Evicting /\ wr'[w].frame = f => frames'[f].block = b
    BY <1>1, <1>2, <1>4, <1>5, <1>9 DEF ReaderAt, Touched
<1>12. /\ rd'[q] = rd[q] /\ rd'[q].block = b /\ rd'[q].frame = f /\ use' = use /\ table' = table
       /\ rd[q].pc \in {"scan", "validate"} => rd[q].pc \in Touched
    BY <1>2, <1>4 DEF Touched
<1>13. rd[q].pc \in {"scan", "validate"} => (Another(f, b)' <=> Another(f, b))
    BY <1>5, <1>9 DEF Touched
<1>14. rd[q].pc \in {"touch", "accepted"} \cup Touched =>
           f \in Frames /\ rd[q].from.use = use'[b].uses /\ rd[q].from.n <= use'[b].n
    BY <1>1, <1>4, <1>12 DEF ReaderAt
<1>15. rd[q].pc = "touch" => table'[b] = f
    BY <1>1, <1>4, <1>12 DEF ReaderAt
<1>16. /\ rd[q].pc \in {"scan", "validate"} =>
              Another(f, b)' \/ (rd[q].from.n <= rd[q].len /\ rd[q].len <= use'[b].n)
       /\ rd[q].pc = "validate" => Another(f, b)' \/ (rd[q].page.use = use'[b].uses /\ rd[q].len <= rd[q].page.n)
    BY <1>1, <1>4, <1>12, <1>13 DEF ReaderAt
<1>17. rd[q].pc = "accepted" =>
           rd[q].page.use = use'[b].uses /\ rd[q].from.n <= rd[q].len /\ rd[q].len <= rd[q].page.n
    BY <1>1, <1>4, <1>12 DEF ReaderAt
<1> QED BY <1>5, <1>8, <1>10, <1>11, <1>12, <1>14, <1>15, <1>16, <1>17 DEF ReaderAt

(* A reader that has not resolved its block, or has left it.                *)
LEMMA OwnEnds ==
    ASSUME PlaceInv, ReadInv, NEW r \in Readers, Begin(r) \/ Enter(r) \/ Exit(r)
    PROVE  ReaderAt(r)'
<1>1. /\ ReaderAt(r) /\ rd \in [Readers -> ReaderType] /\ rd[r] \in ReaderType /\ epoch \in Nat
      /\ todo[r] \in Seq(Blocks) /\ epoch' = epoch /\ use' = use
    BY DEF PlaceInv, ReadInv, TypeInv, Begin, Enter, Exit, Step
<1>2. CASE Begin(r)
    <2>1. rd'[r] = [IdleReader EXCEPT !.pc = "enter", !.block = Head(todo[r]), !.seen = epoch]
        BY <1>1, <1>2 DEF Begin, Step
    <2>2. rd'[r].pc = "enter" /\ rd'[r].block = Head(todo[r]) /\ rd'[r].seen = epoch
        BY <2>1 DEF IdleReader
    <2>3. todo[r] # <<>> /\ use[Head(todo[r])].state \in {"live", "dead"}
        BY <1>2 DEF Begin
    <2>4. Head(todo[r]) \in Blocks
        BY <1>1, <2>3
    <2> QED BY <1>1, <2>2, <2>3, <2>4 DEF ReaderAt, Kept, Touched
<1>3. CASE Enter(r)
    <2>1. rd'[r] = [rd[r] EXCEPT !.pc = "resolve", !.slot = rd[r].seen] /\ rd[r].pc = "enter"
        BY <1>1, <1>3 DEF Enter, Step
    <2>2. rd'[r].pc = "resolve" /\ rd'[r].block = rd[r].block /\ rd'[r].seen = rd[r].seen /\ rd'[r].slot = rd[r].seen
        BY <1>1, <2>1 DEF ReaderType
    <2>3. rd[r].seen \in Nat
        BY <1>1 DEF ReaderType
    <2> QED BY <1>1, <2>1, <2>2, <2>3 DEF ReaderAt, Kept, Touched
<1>4. CASE Exit(r)
    <2>1. rd'[r].pc = "idle"
        BY <1>1, <1>4 DEF Exit, IdleReader
    <2> QED BY <2>1 DEF ReaderAt, Touched
<1> QED BY <1>2, <1>3, <1>4

LEMMA OwnResolve ==
    ASSUME PlaceInv, ReadInv, NEW r \in Readers, Resolve(r)
    PROVE  ReaderAt(r)'
<1>1. /\ ReaderAt(r) /\ rd \in [Readers -> ReaderType] /\ rd[r] \in ReaderType /\ rd[r].pc = "resolve"
      /\ epoch' = epoch /\ use' = use /\ table' = table
      /\ table \in [Blocks -> Frames \cup {NoBlock}] /\ use \in [Blocks -> Use]
    BY DEF PlaceInv, ReadInv, TypeInv, Resolve, Step
<1>2. PICK b : b = rd[r].block
    OBVIOUS
<1>3. b \in Blocks /\ Kept(b) /\ rd[r].seen <= epoch /\ rd[r].slot \in Nat /\ rd[r].slot <= epoch
    BY <1>1, <1>2 DEF ReaderAt
<1>4. CASE table[b] = NoBlock
    <2>1. rd'[r] = [rd[r] EXCEPT !.pc = "exit"]
        BY <1>1, <1>2, <1>4 DEF Resolve, Step
    <2>2. /\ rd'[r].pc = "exit" /\ rd'[r].block = b /\ rd'[r].seen = rd[r].seen /\ rd'[r].slot = rd[r].slot
        BY <1>1, <1>2, <2>1 DEF ReaderType
    <2> QED BY <1>1, <1>3, <2>2 DEF ReaderAt, Kept, Touched
<1>5. CASE table[b] # NoBlock
    <2>1. rd'[r] = [rd[r] EXCEPT !.pc = "touch", !.frame = table[b], !.from = [use |-> use[b].uses, n |-> use[b].n]]
        BY <1>1, <1>2, <1>5 DEF Resolve, Step
    <2>2. /\ rd'[r].pc = "touch" /\ rd'[r].block = b /\ rd'[r].seen = rd[r].seen /\ rd'[r].slot = rd[r].slot
          /\ rd'[r].frame = table[b] /\ rd'[r].from = [use |-> use[b].uses, n |-> use[b].n]
        BY <1>1, <1>2, <2>1 DEF ReaderType
    <2>3. table[b] \in Frames /\ use[b].n \in Nat
        BY <1>1, <1>3, <1>5 DEF Use
    <2> QED BY <1>1, <1>3, <2>2, <2>3 DEF ReaderAt, Kept, Touched
<1> QED BY <1>4, <1>5

(* The frame is the block's, and its epoch is beyond the reader's.          *)
LEMMA OwnTouch ==
    ASSUME PlaceInv, DataInv, ReadInv, NEW r \in Readers, Touch(r)
    PROVE  ReaderAt(r)'
<1>1. /\ ReaderAt(r) /\ TypeInv /\ rd \in [Readers -> ReaderType] /\ rd[r] \in ReaderType /\ rd[r].pc = "touch"
      /\ epoch' = epoch + 1 /\ epoch \in Nat /\ use' = use /\ table' = table /\ wr' = wr
      /\ frames \in [Frames -> FrameType]
    BY DEF PlaceInv, ReadInv, TypeInv, Touch
<1>2. PICK b, f : b = rd[r].block /\ f = rd[r].frame
    OBVIOUS
<1>3. /\ b \in Blocks /\ Kept(b) /\ rd[r].seen <= epoch /\ rd[r].slot \in Nat /\ rd[r].slot <= epoch
      /\ f \in Frames /\ rd[r].from.use = use[b].uses /\ rd[r].from.n <= use[b].n /\ table[b] = f
    BY <1>1, <1>2 DEF ReaderAt
<1>4. rd'[r] = [rd[r] EXCEPT !.pc = "confirm"]
    BY <1>1 DEF Touch
<1>5. /\ rd'[r].pc = "confirm" /\ rd'[r].block = b /\ rd'[r].seen = rd[r].seen /\ rd'[r].slot = rd[r].slot
      /\ rd'[r].frame = f /\ rd'[r].from = rd[r].from
    BY <1>1, <1>2, <1>4 DEF ReaderType
<1>6. frames[f] \in FrameType /\ frames'[f] = [frames[f] EXCEPT !.last = epoch + 1]
    BY <1>1, <1>2, <1>3 DEF Touch, Advance
<1>7. /\ frames'[f].last = epoch + 1 /\ frames'[f].block = frames[f].block
      /\ frames'[f].page = frames[f].page /\ frames'[f].len = frames[f].len
    BY <1>6 DEF FrameType
<1>8. frames[f].block = b /\ Stores(b) /\ Mapped(b)
    BY <1>3 DEF PlaceInv, Mapped, DataInv
<1>9. Mine(f, b)'
    <2>1. Holds(f, b, Extra(b)) /\ Extra(b) \in Nat
        BY <1>3, <1>8 DEF Stores, Extra
    <2>2. use[b].n \in Nat /\ NoBlock \notin Blocks
        BY <1>1, <1>3, BufferAssumption DEF TypeInv, Use
    <2>3. frames[f].page.use = use[b].uses /\ frames[f].len = use[b].n /\ use[b].n <= frames[f].page.n
        BY <2>1, <2>2 DEF Holds
    <2> QED BY <1>1, <1>3, <1>7, <1>8, <2>2, <2>3 DEF Mine
<1>10. frames'[f].last > rd[r].slot
    BY <1>1, <1>3, <1>7
<1>11. HeldBack(r)'
    BY <1>5, <1>10 DEF HeldBack
<1>12. rd[r].seen \in Nat /\ rd[r].seen <= epoch' /\ rd[r].slot <= epoch'
    BY <1>1, <1>3 DEF ReaderType
<1> QED BY <1>1, <1>3, <1>5, <1>7, <1>8, <1>9, <1>11, <1>12 DEF ReaderAt, Kept, Touched

(* The steps of a reader between touching its frame and leaving it.         *)
LEMMA OwnReads ==
    ASSUME PlaceInv, ReadInv, NEW r \in Readers, Confirm(r) \/ ReadLen(r) \/ Scan(r) \/ Validate(r)
    PROVE  ReaderAt(r)'
<1>1. /\ ReaderAt(r) /\ TypeInv /\ rd \in [Readers -> ReaderType] /\ rd[r] \in ReaderType /\ rd[r].pc \in Touched
      /\ epoch' = epoch /\ use' = use /\ table' = table /\ wr' = wr /\ frames' = frames
    BY DEF PlaceInv, ReadInv, TypeInv, Confirm, ReadLen, Scan, Validate, Step, Touched
<1>2. PICK b, f : b = rd[r].block /\ f = rd[r].frame
    OBVIOUS
<1>3. /\ b \in Blocks /\ Kept(b) /\ rd[r].seen <= epoch /\ rd[r].slot \in Nat /\ rd[r].slot <= epoch
      /\ f \in Frames /\ rd[r].from.use = use[b].uses /\ rd[r].from.n <= use[b].n
      /\ HeldBack(r) /\ (Mine(f, b) \/ Another(f, b))
      /\ \A w \in Writers : wr[w].pc \in Evicting /\ wr[w].frame = f => frames[f].block = b
      /\ rd[r].pc \in {"scan", "validate"} => Another(f, b) \/ (rd[r].from.n <= rd[r].len /\ rd[r].len <= use[b].n)
      /\ rd[r].pc = "validate" => Another(f, b) \/ (rd[r].page.use = use[b].uses /\ rd[r].len <= rd[r].page.n)
    BY <1>1, <1>2 DEF ReaderAt, Touched
<1>4. /\ Kept(b)' /\ (Mine(f, b)' <=> Mine(f, b)) /\ (Another(f, b)' <=> Another(f, b))
      /\ use[b].n \in Nat /\ frames[f].len \in Nat /\ frames[f].page \in Page
    BY <1>1, <1>3 DEF Kept, Mine, Another, TypeInv, Use, FrameType
<1>5. rd'[r].slot = rd[r].slot /\ rd'[r].frame = f => HeldBack(r)'
    BY <1>1, <1>2, <1>3 DEF HeldBack
<1>6. CASE Confirm(r)
    <2>1. /\ rd'[r].pc \in {"len", "exit"} /\ rd'[r].block = b /\ rd'[r].seen = rd[r].seen /\ rd'[r].slot = rd[r].slot
          /\ rd'[r].frame = f /\ rd'[r].from = rd[r].from
        <3>1. rd'[r] = [rd[r] EXCEPT !.pc = IF frames[rd[r].frame].block = rd[r].block THEN "len" ELSE "exit"]
            BY <1>1, <1>6 DEF Confirm, Step
        <3> QED BY <1>1, <1>2, <3>1 DEF ReaderType
    <2> QED BY <1>1, <1>3, <1>4, <1>5, <2>1 DEF ReaderAt, Touched
<1>7. CASE ReadLen(r)
    <2>1. /\ rd'[r].pc = "scan" /\ rd'[r].block = b /\ rd'[r].seen = rd[r].seen /\ rd'[r].slot = rd[r].slot
          /\ rd'[r].frame = f /\ rd'[r].from = rd[r].from /\ rd'[r].len = frames[f].len
        <3>1. rd'[r] = [rd[r] EXCEPT !.pc = "scan", !.len = frames[rd[r].frame].len]
            BY <1>1, <1>7 DEF ReadLen, Step
        <3> QED BY <1>1, <1>2, <3>1 DEF ReaderType
    <2>2. Another(f, b) \/ (rd[r].from.n <= frames[f].len /\ frames[f].len <= use[b].n)
        BY <1>3, <1>4 DEF Mine
    <2> QED BY <1>1, <1>3, <1>4, <1>5, <2>1, <2>2 DEF ReaderAt, Touched
<1>8. CASE Scan(r)
    <2>1. /\ rd[r].pc = "scan" /\ rd'[r].pc = "validate" /\ rd'[r].block = b /\ rd'[r].seen = rd[r].seen
          /\ rd'[r].slot = rd[r].slot /\ rd'[r].frame = f /\ rd'[r].from = rd[r].from
          /\ rd'[r].len = rd[r].len /\ rd'[r].page = frames[f].page
        <3>1. rd'[r] = [rd[r] EXCEPT !.pc = "validate", !.page = frames[rd[r].frame].page] /\ rd[r].pc = "scan"
            BY <1>1, <1>8 DEF Scan, Step
        <3> QED BY <1>1, <1>2, <3>1 DEF ReaderType
    <2>2. rd[r].len \in Nat /\ frames[f].page.n \in Nat
        BY <1>1, <1>4 DEF ReaderType, Page
    <2>3. Another(f, b) \/ (frames[f].page.use = use[b].uses /\ rd[r].len <= frames[f].page.n)
        BY <1>3, <1>4, <2>1, <2>2 DEF Mine
    <2> QED BY <1>1, <1>3, <1>4, <1>5, <2>1, <2>3 DEF ReaderAt, Touched
<1>9. CASE Validate(r)
    <2>1. /\ rd[r].pc = "validate" /\ rd'[r].block = b /\ rd'[r].seen = rd[r].seen
          /\ rd'[r].slot = rd[r].slot /\ rd'[r].frame = f /\ rd'[r].from = rd[r].from
          /\ rd'[r].len = rd[r].len /\ rd'[r].page = rd[r].page
          /\ rd'[r].pc = IF frames[f].block = b THEN "accepted" ELSE "exit"
        <3>1. /\ rd'[r] = [rd[r] EXCEPT !.pc = IF frames[rd[r].frame].block = rd[r].block THEN "accepted" ELSE "exit"]
              /\ rd[r].pc = "validate"
            BY <1>1, <1>9 DEF Validate, Validates, Step
        <3> QED BY <1>1, <1>2, <3>1 DEF ReaderType
    <2>2. frames[f].block = b => ~Another(f, b)
        <3>1. \A w \in Writers : wr[w].frame = f /\ wr[w].pc = "publish" => frames[f].block = NoBlock
            BY DEF PlaceInv, WriterPlace, Filling
        <3> QED BY <1>3, <3>1, BufferAssumption DEF Another
    <2> QED BY <1>1, <1>3, <1>4, <2>1, <2>2 DEF ReaderAt, Touched
<1> QED BY <1>6, <1>7, <1>8, <1>9

LEMMA ReadStep ==
    ASSUME SingleWriter, PlaceInv, DataInv, ReadInv, [Next]_vars
    PROVE  ReadInv'
<1>1. CASE \E w \in Writers : PoolCall(w)
    BY <1>1, WriterReads
<1>2. CASE \E r \in Readers : Read(r)
    <2>1. PICK r \in Readers : Read(r)
        BY <1>2
    <2>2. ReaderAt(r)'
        BY <2>1, OwnEnds, OwnResolve, OwnTouch, OwnReads DEF Read
    <2>3. \A q \in Readers : q # r => ReaderAt(q)'
        BY <2>1, OtherReads
    <2> QED BY <2>2, <2>3 DEF ReadInv
<1>3. CASE UNCHANGED vars
    BY <1>3 DEF ReadInv, ReaderAt, HeldBack, Mine, Another, Kept, vars
<1> QED BY <1>1, <1>2, <1>3 DEF Next, Done

(* Contract R2: a read that is accepted has seen the block that was asked    *)
(* for, in its present use, with at least the entries committed when it was  *)
(* resolved and none that is not written, although readers pin nothing and   *)
(* the frame may be evicted, refilled and published while they read.         *)
THEOREM SpecAcceptedReads == SingleWriter => (Spec => []AcceptedReads)
<1> SUFFICES ASSUME SingleWriter PROVE Spec => []AcceptedReads
    OBVIOUS
<1>1. Init => PlaceInv /\ DataInv /\ ReadInv
    <2>1. Init => \A r \in Readers : rd[r].pc = "idle"
        BY DEF Init, IdleReader
    <2>2. Init => ReadInv
        BY <2>1 DEF ReadInv, ReaderAt, Touched
    <2> QED BY <2>2, InitPlaces, InitData
<1>2. PlaceInv /\ DataInv /\ ReadInv /\ [Next]_vars => PlaceInv' /\ DataInv' /\ ReadInv'
    BY PlaceStep, DataStep, ReadStep
<1>3. ReadInv => AcceptedReads
    BY DEF ReadInv, ReaderAt, AcceptedReads
<1> QED BY <1>1, <1>2, <1>3, PTL DEF Spec
=============================================================================
