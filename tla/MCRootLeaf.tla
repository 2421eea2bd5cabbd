----------------------------- MODULE MCRootLeaf -----------------------------
(***************************************************************************)
(* The instances of RootLeaf that TLC checks: readers are interchangeable   *)
(* and so are writers.                                                      *)
(***************************************************************************)
EXTENDS RootLeaf, TLC

Symmetry == Permutations(Readers) \cup Permutations(Writers)

(* Two writers in one leaf; two writers of which one splits the full root   *)
(* while the other goes on; one writer with updates in place, across a      *)
(* split.  Two writers that update a root that is split are left to the     *)
(* instance below.                                                          *)
MCSetups ==
    {[ops |-> {"update", "delete"}, together |-> 2, updateInPlace |-> FALSE,
      preload |-> 1, gone |-> FALSE, stop |-> 4],
     [ops |-> {"insert", "delete"}, together |-> 2, updateInPlace |-> FALSE,
      preload |-> 2, gone |-> TRUE, stop |-> 6],
     [ops |-> {"update", "delete"}, together |-> 1, updateInPlace |-> TRUE,
      preload |-> 2, gone |-> FALSE, stop |-> 5]}

(* A root that is split while another writer updates it.                    *)
SplitSetups ==
    {[ops |-> Operations, together |-> 2, updateInPlace |-> FALSE,
      preload |-> 2, gone |-> FALSE, stop |-> 6]}
===========================================================================
