------------------------- MODULE MCRedisPacketStore -------------------------
(* Model checking of RedisPacketStore: three callers share two slots, so    *)
(* callers block, are woken together and compete; Redis may stop answering  *)
(* at any time.                                                             *)
EXTENDS RedisPacketStore
=============================================================================
