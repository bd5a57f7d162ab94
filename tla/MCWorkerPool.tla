---------------------------- MODULE MCWorkerPool ----------------------------
(* Two workers, three tasks and a queue for two: the queue fills up, both  *)
(* workers may wait at once, and the destructor may start at any point.    *)
EXTENDS WorkerPool
=============================================================================
