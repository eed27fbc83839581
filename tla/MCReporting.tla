----------------------------- MODULE MCReporting -----------------------------
(* Instances of Reporting for TLC. *)
EXTENDS Reporting

CONSTANTS p1, p2

TwoProcs == {p1, p2}

(* The first item of one process does not decode. *)
Garbled == {ItemOf(p1, 1)}
=============================================================================
