----------------------------- MODULE MCSyncRun -----------------------------
(* SyncRun on small instances.  Slots of CLI processes and record batches  *)
(* are interchangeable; releases, being ordered, are not.                  *)
EXTENDS SyncRefinement, TLC

Symmetry == Permutations(Clis) \cup Permutations(Chunks)

(* One collection gets every release, each of the others a single one.     *)
OneMovesOn ==
  LET first == CHOOSE c \in Collections : TRUE
  IN  [c \in Collections |-> IF c = first THEN MaxRel ELSE 1]
=============================================================================
