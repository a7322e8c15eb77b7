--------------------------- MODULE MCWorkerReplay ---------------------------
(* Model-checking instance of WorkerReplay.                                 *)
EXTENDS WorkerReplay
=============================================================================
