-------------------------- MODULE MCWorkerLifecycle --------------------------
(* WorkerLifecycle for TLC: two workers forked by two module starts.       *)
EXTENDS WorkerLifecycle, TLC

CONSTANTS w1, w2, f1, f2

TwoForked == {w1, w2}
TwoPaths == {f1, f2}
OwnPaths == w1 :> f1 @@ w2 :> f2
=============================================================================
