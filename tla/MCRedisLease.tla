--------------------------- MODULE MCRedisLease ---------------------------
(* Instances of RedisLease for TLC. *)
EXTENDS RedisLease, TLC

RedisSymmetry == Permutations(Process)
=============================================================================
