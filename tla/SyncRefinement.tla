--------------------------- MODULE SyncRefinement ---------------------------
(***************************************************************************)
(* run_sync, as SyncRun describes it, implements SyncService.              *)
(***************************************************************************)
EXTENDS SyncRun

(* The payload that the holder of the advisory lock has open.              *)
Goal ==
  IF lock = None \/ run[lock].src = NoPayload
  THEN [coll |-> None, rel |-> 0, chunks |-> {}]
  ELSE [coll |-> run[lock].cur, rel |-> run[lock].src.rel, chunks |-> run[lock].src.chunks]

Done == [c \in Collections |-> [i \in Releases |-> status[c][i] = "completed"]]

Service == INSTANCE SyncService WITH owner <- lock, goal <- Goal, loaded <- rows, done <- Done

(* Every behaviour of the sync processes, the CLI, the API and their       *)
(* faults is one of the abstract service: the catalogue has one writer, is *)
(* only added to, and every completion covers the payload taken up.        *)
ImplementsService == Service!Spec
=============================================================================
