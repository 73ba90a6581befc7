-------------------------- MODULE MCDatabaseQueue ---------------------------
(* Small instances of DatabaseQueue for TLC; workers are interchangeable. *)
EXTENDS DatabaseQueue, TLC

WorkerSymmetry == Permutations(Owner)
=============================================================================
