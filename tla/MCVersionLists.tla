--------------------------- MODULE MCVersionLists ---------------------------
(* Instances of VersionLists: each kind of list with the operations it is   *)
(* used with.                                                               *)
EXTENDS VersionLists

CONSTANTS w1, w2

Setup(kind, who, loaded, keys, ops, asked, last) ==
    [kind |-> kind, who |-> who, loaded |-> loaded, keys |-> keys, ops |-> ops,
     asked |-> asked, last |-> last]

Crud == {"insert", "update", "delete"}
TwoLeaves == <<1, 1, 2, 2>>

(* Writers on the lists of keys in two leaves; a list and its clones.       *)
RecordSetups ==
    {Setup(kind, {w1, w2}, {2}, {2, 3}, Crud, {<<2, 2>>, <<3, 3>>}, 4) : kind \in {"vanilla", "skiplist"}}
    \cup {Setup(kind, {w1}, {2}, {2}, Crud \cup {"clone"}, {<<2, 2>>}, 4) : kind \in {"vanilla", "frugal"}}
    \cup {Setup("frugal", {w1}, {2}, {2}, Crud, {<<2, 2>>}, 6)}

(* Roots are only appended.                                                 *)
RootSetups ==
    {Setup(kind, {w1}, {1}, {1}, {"root"}, {<<1, 1>>}, 6) :
        kind \in {"frugalRoot", "skipRoot", "treeRoot", "listRoot"}}

(* The benchmarks never insert a deleted key into a vWeaver tree again.  One *)
(* writer: see the README for two.                                          *)
WeaverSetups ==
    {Setup("weaver", {w1}, {1, 2, 3}, {1, 2, 3}, {"update", "delete"}, {<<1, 3>>, <<2, 4>>}, 4),
     Setup("weaver", {w1}, {1, 3}, {1, 2, 3}, {"insert", "update"}, {<<1, 4>>}, 4)}

ListSetups == RecordSetups \cup RootSetups \cup WeaverSetups
=============================================================================
