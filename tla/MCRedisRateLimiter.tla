------------------------- MODULE MCRedisRateLimiter -------------------------
(* Instance of RedisRateLimiter for TLC: the constants are in the cfgs.     *)
EXTENDS RedisRateLimiter
=============================================================================
