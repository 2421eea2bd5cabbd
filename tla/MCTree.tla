------------------------------- MODULE MCTree -------------------------------
(* Instances of Tree: what one writer does first, so that splits, merges    *)
(* and root changes are near, and what is then explored in every order.     *)
EXTENDS Tree

CONSTANTS w1, w2

Each(op, keys) == [i \in 1 .. Len(keys) |-> <<op, keys[i]>>]
Up(n) == [i \in 1 .. n |-> i]
Load(ops, seen, who, may, free) ==
    [ops |-> ops, seen |-> seen, who |-> who, may |-> may, free |-> free]
Unseen == -1
Keyed  == {"insert", "update", "delete"}

(* Three levels after ascending inserts; one more operation and queries.    *)
Grown == Load(Each("insert", Up(15)), 0, {w1}, Keyed \X {2, 14, 15}, 1)

(* Back to one level through merges, redistributions and root merges.       *)
Shrunk == Load(Each("insert", Up(15)) \o Each("delete", Up(12)), 1, {w1}, Keyed \X {1, 13}, 2)

(* The random operations, by one writer.                                    *)
Random     == Load(Each("insert", Up(6)), Unseen, {w1}, RandomOperations \X {0}, 2)
RandomFull == Load(Each("insert", Up(12)), Unseen, {w1}, RandomOperations \X {0}, 1)

(* Two writers whose operations split and merge children of a root that     *)
(* stays as it is, beside each other and beside a reader.                   *)
Clashing == {<<"insert", 7>>, <<"delete", 1>>, <<"update", 2>>, <<"update", 4>>}
Race     == Load(Each("insert", Up(6)), Unseen, {w1, w2}, Clashing, 3)
Watched  == Load(Each("insert", Up(6)) \o << <<"delete", 1>> >>, 0, {w1, w2},
                 {<<"insert", 7>>, <<"update", 2>>}, 2)

(* Two writers that fill the root leaf and split it.                        *)
RootRace == Load(Each("insert", Up(3)), Unseen, {w1, w2}, {"insert"} \X {4, 5}, 3)

(* A record at the largest key, in the last leaf below an index root.       *)
LargestKey == Load(Each("insert", Up(5) \o <<MaxKey>>), 0, {w1}, {<<"insert", 7>>, <<"delete", MaxKey>>}, 1)

Loads == {RootRace, Grown, Shrunk, Random, RandomFull, Race, Watched, LargestKey}
=============================================================================
