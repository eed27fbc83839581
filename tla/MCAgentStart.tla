---------------------------- MODULE MCAgentStart ----------------------------
(***************************************************************************)
(* AgentStart for TLC: two module starts with a path each, and two         *)
(* standalone workers on the path they are configured with.                *)
(***************************************************************************)
EXTENDS AgentStart, TLC

CONSTANTS w1, w2, w3, w4, f1, f2, f3

AllWorkers == {w1, w2, w3, w4}
TwoStandalone == {w3, w4}
AllPaths == {f1, f2, f3}
Paths4 == w1 :> f1 @@ w2 :> f2 @@ w3 :> f3 @@ w4 :> f3
=============================================================================
