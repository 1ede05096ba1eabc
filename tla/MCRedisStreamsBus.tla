-------------------------- MODULE MCRedisStreamsBus --------------------------
(* Two workers, each a producer and a consumer of one stream.              *)
EXTENDS RedisStreamsBus
=============================================================================
