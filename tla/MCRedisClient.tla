---------------------------- MODULE MCRedisClient ----------------------------
(* Small instances of RedisClient.                                         *)
EXTENDS RedisClient
=============================================================================
