---------------------------- MODULE MCBufferPool ----------------------------
(* Instances of BufferPool for TLC: two frames and four blocks, of which    *)
(* two are in the file when the pool opens.                                 *)
EXTENDS BufferPool

C(op, b) == <<[op |-> op, block |-> b]>>
Visit(b) == C("fetch", b) \o C("unpin", b)
Edit(b)  == C("fetch", b) \o C("append", b) \o C("unpin", b)
Make(b)  == C("new", b) \o C("append", b) \o C("unpin", b)

(* Pages edited, evicted and fetched again; a search among frames that are  *)
(* pinned or covered; a page flushed, buried, forced out and made again in  *)
(* another frame, or in its own.                                            *)
Scripts ==
    {Edit(1) \o Edit(2) \o Make(3) \o Edit(1),
     C("fetch", 2) \o Edit(1) \o Make(3) \o Edit(1) \o C("unpin", 2),
     C("fetch", 1) \o Edit(2) \o C("new", 3) \o C("append", 1) \o C("unpin", 3) \o C("unpin", 1) \o Visit(2),
     C("fetch", 1) \o C("fetch", 2) \o Make(3) \o C("unpin", 2) \o C("unpin", 1) \o Make(3),
     Edit(1) \o C("flush", 1) \o C("bury", 1) \o C("force", 1) \o Make(1) \o Visit(2),
     Edit(1) \o C("flush", 1) \o C("bury", 1) \o C("new", 1) \o C("new", 3) \o Visit(2) \o C("unpin", 3)
        \o Visit(2) \o C("unpin", 1)}

(* The first and the fourth block are in one shard.                         *)
Hashed == [b \in Blocks |-> b % 3]

(* A new page of the shard of the first block evicts that block, or the     *)
(* second.                                                                  *)
Collisions == {Edit(1) \o Edit(2) \o Make(4) \o Edit(1), Edit(2) \o Edit(1) \o Make(4) \o Visit(2)}

OneWriter ==
    {[calls |-> [w \in Writers |-> s], reads |-> [r \in Readers |-> IF r = 11 THEN <<1, 1>> ELSE <<>>]] : s \in Scripts}
    \cup {[calls |-> [w \in Writers |-> s], reads |-> [r \in Readers |-> IF r = 11 THEN <<1>> ELSE <<>>]] : s \in Collisions}
    \cup {[calls |-> [w \in Writers |-> Edit(1) \o Make(3) \o Visit(2)], reads |-> [r \in Readers |-> <<1>>]]}
=============================================================================
