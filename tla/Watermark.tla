----------------------------- MODULE Watermark -----------------------------
(***************************************************************************)
(* What the commit clock promises to the rest of the tree: versions are     *)
(* handed out in order, and the watermark readers take their snapshots      *)
(* from only rises and never passes the clock nor a commit that is still    *)
(* in flight and that the clock accounts for.                               *)
(***************************************************************************)
EXTENDS Integers

CONSTANTS MaxClock      \* bound of the model: no commit starts at or above it

VARIABLES
    clock,      \* the next version
    wm,         \* the watermark: the snapshot a reader is handed
    inflight    \* versions started, accounted for and not yet finished

vars == <<clock, wm, inflight>>

Init ==
    /\ clock = 1
    /\ wm = 1
    /\ inflight = {}

(* A commit draws its version and is accounted for.                         *)
Begin ==
    /\ clock < MaxClock
    /\ inflight' = inflight \cup {clock}
    /\ clock' = clock + 1
    /\ UNCHANGED wm

(* A commit draws its version on a thread the watermark does not look at.   *)
BeginUntracked ==
    /\ clock < MaxClock
    /\ clock' = clock + 1
    /\ UNCHANGED <<wm, inflight>>

Finish(v) ==
    /\ v \in inflight
    /\ inflight' = inflight \ {v}
    /\ UNCHANGED <<clock, wm>>

(* The watermark may rise up to the oldest commit in flight.                *)
Advance(w) ==
    /\ w > wm
    /\ w <= clock
    /\ \A v \in inflight : w <= v
    /\ wm' = w
    /\ UNCHANGED <<clock, inflight>>

Next ==
    \/ Begin
    \/ BeginUntracked
    \/ \E v \in inflight : Finish(v)
    \/ \E w \in wm + 1 .. clock : Advance(w)

Spec == Init /\ [][Next]_vars
===========================================================================
