------------------------------ MODULE AgentStart ------------------------------
(***************************************************************************)
(* The start of the extension in the PHP master (src/module.rs), composed  *)
(* with the life of the worker it forks.                                   *)
(*                                                                         *)
(* A start reads the configuration once, among it the socket path, which   *)
(* is drawn anew unless the reporter type is "standalone"; then it forks   *)
(* the worker, sets the tracer with a reporter on that path, and hooks     *)
(* functions.  The PHP processes are forked later and have what the master *)
(* had.  A start that gives up on the way leaves the agent enabled, with   *)
(* no tracer and nothing hooked; what the requests make of that is a       *)
(* failed init in ExecuteHooks.  A reload runs the program of the master   *)
(* anew in the same process, so it starts again and its workers live on.   *)
(***************************************************************************)
EXTENDS WorkerLifecycle

CONSTANTS
    Configured,  \* standalone_socket_path
    NoPath,      \* the tracer is not set
    NoWorker     \* no worker was forked

ASSUME StartAssumption ==
    /\ Configured \in Paths
    /\ NoPath \notin Paths
    /\ NoWorker \notin Workers

VARIABLES
    type,      \* the reporter type of the deployment: "standalone" or "forked"
    stage,     \* how far the module start is
    conf,      \* what this start finds: the agent is "off", "unfit" or "fit"
    path,      \* SOCKET_FILE_PATH of the master
    drawn,     \* the paths drawn so far
    child,     \* the worker this start has forked, or NoWorker
    tracer,    \* the path the reporter of the global tracer connects to
    hooks      \* functions are hooked

startVars == <<type, stage, conf, path, drawn, child, tracer, hooks>>
allVars == <<vars, startVars>>

(* The agent is not enabled; it is, but the version is too old or there is *)
(* no runtime directory; or it can start.                                  *)
Confs == {"off", "unfit", "fit"}

StartInit ==
    /\ Init
    /\ type \in {"forked", "standalone"}
    /\ stage = "down"
    /\ conf \in Confs
    /\ path = NoPath
    /\ drawn = {}
    /\ child = NoWorker
    /\ tracer = NoPath
    /\ hooks = FALSE

(* A time stamp so coarse that a reload may draw the same one again. *)
PathOfStartCoarse(p) == IF type = "standalone" THEN p = Configured ELSE p # Configured

(* SOCKET_FILE_PATH of a start: the configured one, or a time stamp. *)
PathOfStart(p) == IF type = "standalone" THEN p = Configured ELSE p \notin drawn \cup {Configured}

(* init up to init_worker: the path is forced before the checks, and a     *)
(* start that finds the agent unfit returns.                               *)
ForceAndCheck ==
    /\ stage = "down"
    /\ master = "running"
    /\ IF conf = "off"
       THEN UNCHANGED <<path, drawn>>
       ELSE \E p \in Paths :
               /\ PathOfStart(p)
               /\ path' = p
               /\ drawn' = drawn \cup {p}
    /\ stage' = IF conf = "fit" THEN "checked" ELSE "up"
    /\ UNCHANGED <<vars, type, conf, child, tracer, hooks>>

(* init_worker where the path is not forced: the child draws its own. *)
InitWorkerUnforced ==
    /\ stage = "checked"
    /\ master = "running"
    /\ stage' = "forked"
    /\ \/ /\ type = "forked"
          /\ \E w \in Workers : Path[w] # path /\ Fork(w) /\ child' = w
       \/ UNCHANGED <<vars, child>>
    /\ UNCHANGED <<type, conf, path, drawn, tracer, hooks>>

(* init_worker: no fork for a standalone worker; a fork that fails is      *)
(* logged; the child has the path of its parent.                           *)
InitWorker ==
    /\ stage = "checked"
    /\ master = "running"
    /\ stage' = "forked"
    /\ \/ /\ type = "forked"
          /\ \E w \in Workers : Path[w] = path /\ Fork(w) /\ child' = w
       \/ UNCHANGED <<vars, child>>
    /\ UNCHANGED <<type, conf, path, drawn, tracer, hooks>>

(* Reporter::new, set_global_tracer, register_execute_functions and        *)
(* register_observer_handlers.                                             *)
SetTracer ==
    /\ stage = "forked"
    /\ master = "running"
    /\ stage' = "up"
    /\ tracer' = path
    /\ hooks' = TRUE
    /\ UNCHANGED <<vars, type, conf, path, drawn, child>>

(* PHP-FPM reloads, maybe with another configuration; the PHP processes    *)
(* are gone before.                                                        *)
Reload ==
    /\ stage = "up"
    /\ master = "running"
    /\ \E p \in Paths : PathOfStart(p)
    /\ conf' \in Confs
    /\ stage' = "down"
    /\ path' = NoPath
    /\ child' = NoWorker
    /\ tracer' = NoPath
    /\ hooks' = FALSE
    /\ UNCHANGED <<vars, type, drawn>>

-----------------------------------------------------------------------------
(* The steps of the workers but the fork, which is the master's. *)
StandaloneStarts(w) == type = "standalone" /\ StandaloneStart(w)

WorkersNext ==
    /\ \/ \E w \in Workers :
             \/ StandaloneStarts(w)
             \/ WorkerStep(w)
             \/ ReporterFails(w)
             \/ Terminate(w)
             \/ SigKill(w)
       \/ MasterDies
    /\ UNCHANGED startVars

StartNext ==
    \/ ForceAndCheck
    \/ InitWorker
    \/ SetTracer
    \/ Reload
    \/ WorkersNext

StartSpec == StartInit /\ [][StartNext]_allVars

(* As in WorkerLifecycle; the master owes nothing. *)
FairStartSpec ==
    /\ StartSpec
    /\ \A w \in Workers :
          /\ WF_vars(WorkerStep(w))
          /\ WF_vars(TakeSignal(w))
          /\ WF_vars(StandaloneStarts(w))

-----------------------------------------------------------------------------
StartTypeOK ==
    /\ TypeOK
    /\ type \in {"forked", "standalone"}
    /\ stage \in {"down", "checked", "forked", "up"}
    /\ conf \in Confs
    /\ {path, tracer} \subseteq Paths \cup {NoPath}
    /\ drawn \subseteq Paths
    /\ child \in Workers \cup {NoWorker}
    /\ hooks \in BOOLEAN

(* The PHP processes of a start connect to the path its worker was given,  *)
(* and no other worker that was ever forked has this path: none of an      *)
(* earlier start, which lives on after a reload, gets their segments, nor  *)
(* does its exit guard remove their socket (SOCKET_FILE_PATH, init).       *)
OwnWorker ==
    hooks =>
        /\ child # NoWorker => Path[child] = tracer
        /\ type = "forked" =>
              \A w \in Workers \ Standalone :
                  phase[w] # "unborn" /\ Path[w] = tracer => w = child

(* Where standalone workers are in use, restarted by whoever runs them,    *)
(* one is reachable in the end (HealsStaleSocket), reloads of PHP or not.  *)
StandaloneHeals == type = "standalone" => HealsStaleSocket

(* The PHP processes report to the worker of their own start, reload or    *)
(* not: it comes to serve on the path they connect to, unless it ends      *)
(* first.  The path is a time stamp, and parent and child have one because *)
(* init forces it before the fork (SOCKET_FILE_PATH).                      *)
ReporterMeetsWorker ==
    \A w \in Workers :
        (hooks /\ child = w) ~> \/ tracer = Path[w] /\ sock[tracer] = w
                                \/ ~Alive(w)
                                \/ child # w
=============================================================================
