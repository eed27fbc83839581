--------------------------- MODULE LossyReporting ---------------------------
(***************************************************************************)
(* What the reporting path of the agent promises to the OAP server, with   *)
(* no process, socket or queue in sight: a source hands over items 1, 2,   *)
(* 3, ... and the server receives some of them.  Items may be lost at any  *)
(* point, but the server never sees an item nobody reported, never sees    *)
(* one twice, and never sees two items of one source out of order.         *)
(***************************************************************************)
EXTENDS Naturals, Sequences

CONSTANT Sources    \* whoever reports: PHP processes and the worker itself

VARIABLES
    reported,       \* reported[s]: how many items s has handed over
    delivered       \* what the server has received, in order of arrival

vars == <<reported, delivered>>

Init ==
    /\ reported = [s \in Sources |-> 0]
    /\ delivered = <<>>

(* A source hands over its next item. *)
Report(s) ==
    /\ reported' = [reported EXCEPT ![s] = @ + 1]
    /\ UNCHANGED delivered

(* An item arrives, after every item of its source that has arrived.       *)
Deliver(item) ==
    /\ \A i \in DOMAIN delivered :
          delivered[i].src = item.src => delivered[i].n < item.n
    /\ delivered' = Append(delivered, item)
    /\ UNCHANGED reported

Next ==
    \/ \E s \in Sources : Report(s)
    \/ \E s \in Sources : \E k \in 1 .. reported[s] : Deliver([src |-> s, n |-> k])

Spec == Init /\ [][Next]_vars
=============================================================================
