---------------------------- MODULE MCRedisPlugin ----------------------------
(* Instances of RedisPlugin for TLC. *)
EXTENDS RedisPlugin, TLC

CONSTANTS h1, h2, a1, a2

TwoHandles == {h1, h2}
TwoServers == {a1, a2}

(* Handles are alike, and so are servers. *)
Alike == Permutations(Handles) \cup Permutations(Servers)
=============================================================================
