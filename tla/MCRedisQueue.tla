---------------------------- MODULE MCRedisQueue ----------------------------
(* Small instances of RedisQueue for TLC; the workers are interchangeable. *)
EXTENDS RedisQueue, TLC

WorkerSymmetry == Permutations(Owner)
=============================================================================
