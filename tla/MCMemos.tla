------------------------------- MODULE MCMemos -------------------------------
(***************************************************************************)
(* MemcachePlugin and PsrLogging for TLC: the two maps that remember for   *)
(* the life of the process what was found out once, PEER_MAP and HOOK_MAP. *)
(* They share no state, so each of the two takes its steps while the other *)
(* rests where it starts.                                                  *)
(***************************************************************************)
EXTENDS MemcachePlugin, PsrLogging, TLC

CONSTANTS c1, c2, h1, h2, s1, s2, k1, k2

TwoCoroutines == {c1, c2}
TwoHandles == {h1, h2}
TwoServers == {s1, s2}
TwoClasses == {k1, k2}

(* Where each of the two starts; what an idle coroutine has called before  *)
(* does not matter, nor does the level while nothing is logged.            *)
NoObject ==
    /\ alive = {} /\ old = {} /\ lock = None
    /\ object = [c \in Coroutines |-> h1] /\ adding = [c \in Coroutines |-> s1]
    /\ \A c \in Coroutines : pc[c] = "idle"
    /\ \A h \in Handles : servers[h] = {} /\ PEER_MAP[h] = None

NoClass ==
    /\ threshold = Off /\ last = NoCall
    /\ \A c \in Classes : known[c] = "none"

MCInit == Init /\ PsrInit /\ NoObject

MCSpec ==
    /\ MCInit
    /\ [][\/ NoClass /\ Next /\ UNCHANGED psrVars
          \/ NoObject /\ PsrNext /\ UNCHANGED vars]_<<vars, psrVars>>

(* The names of the classes are alike. *)
Alike == Permutations(Classes)
=============================================================================
