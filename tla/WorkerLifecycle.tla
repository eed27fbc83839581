--------------------------- MODULE WorkerLifecycle ---------------------------
(***************************************************************************)
(* The life of the worker process: how it is started, when signals end it, *)
(* and what becomes of its socket file.                                    *)
(*                                                                         *)
(* With the grpc and kafka reporter types init_worker (src/worker.rs)      *)
(* forks the worker from the PHP master, and every module start has a      *)
(* socket path of its own; with the standalone type somebody starts and    *)
(* restarts the worker binary on one configured path.  From there          *)
(* start_worker (worker/src/lib.rs) is the same.                           *)
(***************************************************************************)
EXTENDS Naturals

CONSTANTS
    Workers,     \* worker processes (a started one may be started again)
    Paths,       \* socket file paths
    Path,        \* Path[w]: the socket path w is configured with
    Standalone,  \* the workers of deployments with the reporter type "standalone"
    MaxKills,    \* bound: SIGKILLs
    MaxTerms,    \* bound: SIGTERMs and SIGINTs from outside, reporter failures
    NoFile       \* there is no file at the path

ASSUME LifecycleAssumption ==
    /\ Path \in [Workers -> Paths]
    /\ Standalone \subseteq Workers
    /\ NoFile \notin Workers
    /\ MaxKills \in Nat
    /\ MaxTerms \in Nat

VARIABLES
    master,   \* the PHP master process
    phase,    \* phase[w]: how far the process of w is
    armed,    \* armed[w]: the kernel signals w when its parent dies
    signal,   \* signal[w]: a SIGTERM or SIGINT is pending
    sock,     \* sock[f]: who created the socket file at f, or NoFile
    kills,    \* SIGKILLs so far
    terms     \* outside terminations so far

vars == <<master, phase, armed, signal, sock, kills, terms>>

Dead == {"unborn", "exited", "terminated", "killed"}
Phases == Dead \cup {"forked", "starting", "handling", "serving", "returning", "unlinked"}

Alive(w) == phase[w] \notin Dead

Init ==
    /\ master = "running"
    /\ phase = [w \in Workers |-> "unborn"]
    /\ armed = [w \in Workers |-> FALSE]
    /\ signal = [w \in Workers |-> FALSE]
    /\ sock = [f \in Paths |-> NoFile]
    /\ kills = 0
    /\ terms = 0

Enter(w, from, to) ==
    /\ phase[w] \in from
    /\ phase' = [phase EXCEPT ![w] = to]

(* init_worker forks during module start; a reload of PHP-FPM runs the     *)
(* module start again, and nobody stops the worker of the previous one.    *)
Fork(w) ==
    /\ w \notin Standalone
    /\ master = "running"
    /\ Enter(w, {"unborn"}, "forked")
    /\ UNCHANGED <<master, armed, signal, sock, kills, terms>>

(* The child asks for a signal at the death of its parent.  A parent that  *)
(* is dead already dies no second time.                                    *)
Prctl(w) ==
    /\ Enter(w, {"forked"}, "starting")
    /\ armed' = [armed EXCEPT ![w] = master = "running"]
    /\ UNCHANGED <<master, signal, sock, kills, terms>>

(* The child finds a reporter type it does not know and exits. *)
UnknownType(w) ==
    /\ w \notin Standalone
    /\ Enter(w, {"starting"}, "exited")
    /\ UNCHANGED <<master, armed, signal, sock, kills, terms>>

(* The standalone binary is started, for the first time or again. *)
StandaloneStart(w) ==
    /\ w \in Standalone
    /\ Enter(w, Dead, "starting")
    /\ signal' = [signal EXCEPT ![w] = FALSE]
    /\ UNCHANGED <<master, armed, sock, kills, terms>>

(* Handlers installed inside the serving future, after bind. *)
InstallHandlersLate(w) ==
    /\ \/ /\ sock[Path[w]] = NoFile
          /\ Enter(w, {"starting"}, "starting")
          /\ sock' = [sock EXCEPT ![Path[w]] = w]
       \/ /\ sock[Path[w]] = w
          /\ Enter(w, {"starting"}, "serving")
          /\ UNCHANGED sock
    /\ UNCHANGED <<master, armed, signal, kills, terms>>

(* start_worker: the exit guard exists, the signal handlers are installed. *)
InstallHandlers(w) ==
    /\ Enter(w, {"starting"}, "handling")
    /\ UNCHANGED <<master, armed, signal, sock, kills, terms>>

(* The exit guard made after bind: a failed bind leaves the file alone. *)
BindBeforeGuard(w) ==
    /\ \/ /\ sock[Path[w]] = NoFile
          /\ Enter(w, {"handling"}, "serving")
          /\ sock' = [sock EXCEPT ![Path[w]] = w]
       \/ /\ sock[Path[w]] # NoFile
          /\ Enter(w, {"handling"}, "exited")
          /\ UNCHANGED sock
    /\ UNCHANGED <<master, armed, signal, kills, terms>>

(* bind makes the socket file, or fails if anything is there; then run     *)
(* ends with the error.                                                    *)
Bind(w) ==
    /\ \/ /\ sock[Path[w]] = NoFile
          /\ Enter(w, {"handling"}, "serving")
          /\ sock' = [sock EXCEPT ![Path[w]] = w]
       \/ /\ sock[Path[w]] # NoFile
          /\ Enter(w, {"handling"}, "returning")
          /\ UNCHANGED sock
    /\ UNCHANGED <<master, armed, signal, kills, terms>>

(* run_reporter awaited ahead of the signals, not selected with them. *)
TakeSignalAwait(w) ==
    /\ signal[w]
    /\ \/ Enter(w, {"forked", "starting"}, "terminated")
       \/ Enter(w, {"handling"}, "returning")
    /\ UNCHANGED <<master, armed, signal, sock, kills, terms>>

(* A pending signal: the default action ends the process where it stands   *)
(* until the handlers are installed; then select! returns.                 *)
TakeSignal(w) ==
    /\ signal[w]
    /\ \/ Enter(w, {"forked", "starting"}, "terminated")
       \/ Enter(w, {"handling", "serving"}, "returning")
    /\ UNCHANGED <<master, armed, signal, sock, kills, terms>>

(* run_reporter returns: a bad endpoint or a failed reporter task. *)
ReporterFails(w) ==
    /\ terms < MaxTerms
    /\ terms' = terms + 1
    /\ Enter(w, {"serving"}, "returning")
    /\ UNCHANGED <<master, armed, signal, sock, kills>>

(* WorkerExitGuard::drop removes the file at its path, whoever made it. *)
DropGuard(w) ==
    /\ Enter(w, {"returning"}, "unlinked")
    /\ sock' = [sock EXCEPT ![Path[w]] = NoFile]
    /\ UNCHANGED <<master, armed, signal, kills, terms>>

Exit(w) ==
    /\ Enter(w, {"unlinked"}, "exited")
    /\ UNCHANGED <<master, armed, signal, sock, kills, terms>>

-----------------------------------------------------------------------------
(* From outside. *)

(* The kernel signals the children that asked for it. *)
MasterDies ==
    /\ master = "running"
    /\ master' = "dead"
    /\ signal' = [w \in Workers |-> signal[w] \/ (armed[w] /\ Alive(w))]
    /\ UNCHANGED <<phase, armed, sock, kills, terms>>

Terminate(w) ==
    /\ Alive(w)
    /\ ~signal[w]
    /\ terms < MaxTerms
    /\ terms' = terms + 1
    /\ signal' = [signal EXCEPT ![w] = TRUE]
    /\ UNCHANGED <<master, phase, armed, sock, kills>>

(* SIGKILL: nothing is cleaned up. *)
SigKill(w) ==
    /\ Alive(w)
    /\ kills < MaxKills
    /\ kills' = kills + 1
    /\ phase' = [phase EXCEPT ![w] = "killed"]
    /\ UNCHANGED <<master, armed, signal, sock, terms>>

-----------------------------------------------------------------------------
WorkerStep(w) ==
    \/ Prctl(w)
    \/ UnknownType(w)
    \/ InstallHandlers(w)
    \/ Bind(w)
    \/ TakeSignal(w)
    \/ DropGuard(w)
    \/ Exit(w)

Next ==
    \/ \E w \in Workers :
          \/ Fork(w)
          \/ StandaloneStart(w)
          \/ WorkerStep(w)
          \/ ReporterFails(w)
          \/ Terminate(w)
          \/ SigKill(w)
    \/ MasterDies

Spec == Init /\ [][Next]_vars

(* A process that can run runs, and takes a pending signal; whoever runs a *)
(* standalone worker restarts it.                                          *)
Fairness ==
    \A w \in Workers :
        /\ WF_vars(WorkerStep(w))
        /\ WF_vars(TakeSignal(w))
        /\ WF_vars(StandaloneStart(w))

FairSpec == Spec /\ Fairness

-----------------------------------------------------------------------------
TypeOK ==
    /\ master \in {"running", "dead"}
    /\ phase \in [Workers -> Phases]
    /\ armed \in [Workers -> BOOLEAN]
    /\ signal \in [Workers -> BOOLEAN]
    /\ sock \in [Paths -> Workers \cup {NoFile}]
    /\ kills \in 0 .. MaxKills
    /\ terms \in 0 .. MaxTerms

(* "Ensure to cleanup resources when worker exits": of all the ways a      *)
(* forked worker ends, at any point of its start, only SIGKILL leaves its  *)
(* socket file behind (start_worker, WorkerExitGuard).                     *)
NoSocketLeft ==
    \A w \in Workers \ Standalone :
        sock[Path[w]] = w => phase[w] \in {"serving", "returning", "killed"}

(* A worker that is signalled by the death of its master, or by anyone,    *)
(* ends (init_worker, the select! of start_worker).                        *)
SignalEndsWorker == \A w \in Workers : (signal[w] /\ Alive(w)) ~> ~Alive(w)

Reachable(w) == phase[w] = "serving" /\ sock[Path[w]] = w

(* Restarted by whoever runs it, a standalone worker is reachable again in *)
(* the end, although a SIGKILL has left a file at the path that bind       *)
(* refuses, and although two of them may be started on one path: the start *)
(* that fails removes the file.                                            *)
HealsStaleSocket == <>[](\E w \in Standalone : Reachable(w))

(* "Ensure worker process exits when master process exists." *)
WorkerFollowsMaster ==
    \A w \in Workers : (master = "dead" /\ Alive(w)) ~> ~Alive(w)
=============================================================================
