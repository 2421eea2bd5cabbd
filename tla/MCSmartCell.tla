---------------------------- MODULE MCSmartCell ----------------------------
(* Instances of SmartCell: every strategy, at the places of the tree where   *)
(* it borrows differently, with three threads that read, write, append to    *)
(* and retire one cell.                                                      *)
EXTENDS SmartCell

CONSTANTS t1, t2, t3

Uses(x, y, z) == [t \in Threads |-> CASE t = t1 -> x [] t = t2 -> y [] OTHER -> z]
Setup(strategies, places, uses) ==
    [strategy : strategies, place : places, uses : uses]

Mixed     == {Uses(<<"write">>, <<"write">>, <<"read">>)}
Appended == {Uses(<<"append">>, <<"append">>, <<"write">>)}
Retiring  == {Uses(<<"retire">>, <<"write">>, <<"read">>)}

MCSetups ==
    Setup({LockCoupling, OLC}, {"inner"}, Mixed)
    \cup Setup({ORWC}, {"root", "leaf"}, Mixed)
    \cup Setup({LHL_read}, {"leaf"}, Mixed)
    \cup Setup({LHL_readWrite, HybridLock}, {"inner", "root"}, Mixed)
    \cup Setup({LHL_write}, {"leaf"}, Appended)
    \cup Setup({OLC, ORWC, HybridLock}, {"inner"}, Appended)
    \cup Setup({LockCoupling, OLC, LHL_unlimited, HybridLock}, {"inner"}, Retiring)
    \cup Setup({ORWC}, {"root", "inner"}, Retiring)
    \cup Setup({MonoWriter}, {"leaf"}, {Uses(<<"write", "append", "read", "retire">>, <<>>, <<>>)})
=============================================================================
