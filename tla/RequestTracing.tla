--------------------------- MODULE RequestTracing ----------------------------
(***************************************************************************)
(* What the agent promises of the segments of requests, whatever serves    *)
(* them: PHP-FPM, one after the other, or Swoole, many at a time.          *)
(*                                                                         *)
(* A request has a context once or never.  While it has one, spans are     *)
(* added to its segment; when the context goes, because the request ends   *)
(* or another one takes its place, the segment is reported and is final.   *)
(***************************************************************************)
CONSTANTS
    Requests,   \* requests
    Spans       \* spans, or who makes them

VARIABLES
    open,       \* requests that have a context
    over,       \* requests that have had one, or will have none
    spans       \* spans[r]: what the segment of r has been given

vars == <<open, over, spans>>

Init ==
    /\ open = {}
    /\ over = {}
    /\ spans = [r \in Requests |-> {}]

(* A request gets its context, in the place of other requests or not. *)
Begin(r, others) ==
    /\ r \notin open \cup over
    /\ open' = (open \ others) \cup {r}
    /\ over' = over \cup others
    /\ UNCHANGED spans

(* A request whose init fails goes without. *)
Refuse(r) ==
    /\ r \notin open \cup over
    /\ over' = over \cup {r}
    /\ UNCHANGED <<open, spans>>

AddSpan(r, s) ==
    /\ r \in open
    /\ spans' = [spans EXCEPT ![r] = @ \cup {s}]
    /\ UNCHANGED <<open, over>>

(* The segment is reported. *)
Finish(r) ==
    /\ r \in open
    /\ open' = open \ {r}
    /\ over' = over \cup {r}
    /\ UNCHANGED spans

Next ==
    \E r \in Requests :
        \/ \E others \in SUBSET open : Begin(r, others)
        \/ Refuse(r)
        \/ \E s \in Spans : AddSpan(r, s)
        \/ Finish(r)

Spec == Init /\ [][Next]_vars

(* What follows: a segment that is over stays as it was reported.          *)
Final ==
    [][\A r \in over : r \in over' /\ r \notin open' /\ spans'[r] = spans[r]]_vars
=============================================================================
