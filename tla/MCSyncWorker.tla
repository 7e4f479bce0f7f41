---------------------------- MODULE MCSyncWorker ----------------------------
(* SyncWorker on small instances.                                          *)
EXTENDS SyncWorker
=============================================================================
