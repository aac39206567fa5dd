---------------------------- MODULE MCWorkerPool ----------------------------
(***************************************************************************)
(* A query thread and a direct client on one archive.                      *)
(***************************************************************************)
EXTENDS WorkerPool

CONSTANTS q1, d

=============================================================================
