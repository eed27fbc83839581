-------------------------- MODULE MCSwooleRequests ---------------------------
(* Instances of SwooleRequests for TLC. *)
EXTENDS SwooleRequests, TLC

CONSTANTS r1, r2, r3

ThreeRequests == {r1, r2, r3}

(* One code and one callback so far. *)
Plain ==
    /\ \A r \in Requests : own[r] = Ok
    /\ \A f \in Fds : status[f] \in {Ok, None}
    /\ Len(hacked) <= 1

Arrived == {r \in Requests : phase[r] # "new"}

(* Two requests with any codes and callbacks, or more with one of each. *)
MCSpec == Init /\ [][Next /\ (Plain' \/ Cardinality(Arrived') <= 2)]_vars

(* Requests are alike: no property names one. *)
Alike == Permutations(Requests)
=============================================================================
