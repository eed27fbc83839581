-------------------------- MODULE MCMemcachePlugin ---------------------------
(* Instances of MemcachePlugin for TLC. *)
EXTENDS MemcachePlugin

CONSTANTS c1, c2, h1, h2, s1, s2

TwoCoroutines == {c1, c2}
TwoHandles == {h1, h2}
TwoServers == {s1, s2}
=============================================================================
