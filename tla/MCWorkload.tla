----------------------------- MODULE MCWorkload -----------------------------
EXTENDS Workload

Run(writers, readers, records, operations, updates, seed) ==
    [writers |-> writers, readers |-> readers, scanners |-> {1}, records |-> records,
     operations |-> operations, updates |-> updates, seed |-> seed, range |-> 1,
     full |-> FALSE, random |-> FALSE, scans |-> 0, pinned |-> FALSE, maxSkip |-> 0]

(* Two writers and a reader on a sliding window, a single writer with       *)
(* historical scans, random keys, and two combinations that are rejected.   *)
MCSetups ==
    {Run({1, 2}, {}, 1, 5, 0, seed) : seed \in {0, 1}}
    \cup {Run({1, 2}, {}, 2, 4, 0, 3)}
    \cup {Run({1, 2}, {3}, 3, 4, 2, 1)}
    \cup {[Run({1}, {}, 3, 5, updates, seed) EXCEPT !.scans = 2, !.scanners = {1, 2},
                                                         !.maxSkip = 1] :
             updates \in {0, 2}, seed \in {0, 1}}
    \cup {[Run({1}, {}, 3, 5, 0, 0) EXCEPT !.scans = 2, !.pinned = TRUE],
          [Run({1}, {}, 3, 5, 0, 0) EXCEPT !.scans = 2, !.full = TRUE]}
    \cup {[Run({1}, {3}, 2, 4, 2, 1) EXCEPT !.random = TRUE, !.full = TRUE],
          [Run({1}, {}, 2, 4, 2, 1) EXCEPT !.random = TRUE, !.full = TRUE, !.scans = 1],
          [Run({1, 2}, {}, 2, 4, 2, 1) EXCEPT !.random = TRUE],
          [Run({1}, {3}, 2, 4, 2, 1) EXCEPT !.scans = 1]}
===========================================================================
