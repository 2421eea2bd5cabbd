--------------------------- MODULE MCTransactions ---------------------------
(***************************************************************************)
(* Instances of Transactions: what each caller asks for, in order.          *)
(***************************************************************************)
EXTENDS Transactions

Read(op)     == [op |-> op]
Write(op)    == [op |-> op, key |-> 1]
Fails        == [op |-> "empty"]

Reader(via)  == Tx(<<Read("point"), Read("iter")>>, via, TRUE)
HalfDone     == Tx(<<Write("update"), Fails, Write("delete")>>, "batch", FALSE)
Purge        == Tx(<<Write("delete")>>, "batch", FALSE)

TwoCommits   == Tx(<<Write("update"), Write("update")>>, "caller", FALSE)
QueuedSi     == Tx(<<Read("si")>>, "execute_tx", TRUE)

(* Every pair of calls of the exported interface; readers on the caller's   *)
(* thread and in the pool beside writers, two of them at one snapshot, and  *)
(* a batch that fails; the readers that bring no snapshot, or that the      *)
(* manager registers late or not at all, beside writers, beside one another *)
(* and beside a reader that is registered.                                  *)
MCPlans ==
    {<<ApiFind, ApiUpdate(1), Reader("execute_tx")>>,
     <<Reader("execute_tx"), TwoCommits>>,
     <<Reader("execute_tx"), Reader("non_reader")>>,
     <<HalfDone, Purge, ApiInsert(1)>>,
     <<ApiScan, ApiRemove(1), ApiInsert(1)>>,
     <<Tx(<<Read("si"), Read("si")>>, "caller", FALSE), ApiUpdate(1),
       Tx(<<Read("si")>>, "execute_tx", FALSE)>>,
     <<Tx(<<Read("si"), Read("iterSi")>>, "caller", TRUE), ApiUpdate(1)>>,
     <<QueuedSi, Tx(<<Read("point")>>, "execute_tx", TRUE), TwoCommits>>,
     <<Reader("batch"), Reader("batch")>>}
    \cup {<<a, b>> : a, b \in Exported(1)}

===========================================================================
