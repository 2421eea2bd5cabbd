--------------------------- MODULE MCReclamation ---------------------------
(***************************************************************************)
(* The instance of Reclamation that TLC checks: readers are interchangeable *)
(* and so are writers.                                                      *)
(***************************************************************************)
EXTENDS Reclamation, TLC

Symmetry == Permutations(Readers) \cup Permutations(Writers)
===========================================================================
