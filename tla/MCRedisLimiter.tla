--------------------------- MODULE MCRedisLimiter ---------------------------
(* The Redis limiter on a small instance; its calls are interchangeable.   *)
EXTENDS RedisLimiter, TLC

CallSymmetry == Permutations(Calls)
============================================================================
