---------------------------- MODULE MCCurlPlugin -----------------------------
(* Instances of CurlPlugin for TLC. *)
EXTENDS CurlPlugin, TLC

CONSTANTS h1, h2, x, y

TwoHandles == {h1, h2}

TwoArrays == {x, y}

(* Handles are alike, since each may have any scheme, and so are arrays. *)
Alike == Permutations(Handles) \cup Permutations(Headers)
=============================================================================
