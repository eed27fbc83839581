------------------------ MODULE WorkerLifecycle_proof ------------------------
(***************************************************************************)
(* The socket file of a forked worker goes with it, whatever the number of *)
(* workers and paths, the assignment of paths and the number of signals;   *)
(* and the module start, whose steps are steps of the worker's life or     *)
(* leave it alone, keeps that, does no harm if it gives up, and connects   *)
(* PHP processes to its own worker.                                        *)
(***************************************************************************)
EXTENDS AgentStart, TLAPS

Act(w) ==
    \/ Fork(w)
    \/ StandaloneStart(w)
    \/ WorkerStep(w)
    \/ ReporterFails(w)
    \/ Terminate(w)
    \/ SigKill(w)

(* Every variable keeps its type (init_worker, start_worker). *)
THEOREM LifecycleTypeCorrect == Spec => []TypeOK
<1> USE LifecycleAssumption
<1>1. Init => TypeOK
  BY DEF Init, TypeOK, Phases, Dead
<1>2. ASSUME TypeOK, [Next]_vars PROVE TypeOK'
  <2> USE <1>2 DEF TypeOK, Phases, Dead, Enter
  <2>1. ASSUME NEW w \in Workers, Act(w) PROVE TypeOK'
    <3>1. CASE Fork(w) BY <3>1 DEF Fork
    <3>2. CASE StandaloneStart(w) BY <3>2 DEF StandaloneStart
    <3>3. CASE Prctl(w)
      <4>1. (master = "running") \in BOOLEAN
        OBVIOUS
      <4> QED BY <3>3, <4>1 DEF Prctl
    <3>4. CASE InstallHandlers(w) BY <3>4 DEF InstallHandlers
    <3>12. CASE UnknownType(w) BY <3>12 DEF UnknownType
    <3>5. CASE Bind(w)
      <4>1. Path[w] \in Paths
        OBVIOUS
      <4> QED BY <3>5, <4>1 DEF Bind
    <3>6. CASE TakeSignal(w) BY <3>6 DEF TakeSignal
    <3>7. CASE DropGuard(w) BY <3>7 DEF DropGuard
    <3>8. CASE Exit(w) BY <3>8 DEF Exit
    <3>9. CASE ReporterFails(w) BY <3>9 DEF ReporterFails
    <3>10. CASE Terminate(w) BY <3>10 DEF Terminate
    <3>11. CASE SigKill(w) BY <3>11 DEF SigKill
    <3> QED
      BY <2>1, <3>1, <3>2, <3>3, <3>4, <3>5, <3>6, <3>7, <3>8, <3>9, <3>10, <3>11, <3>12
      DEF Act, WorkerStep
  <2>2. CASE MasterDies
    <3>1. \A w \in Workers : (signal[w] \/ (armed[w] /\ Alive(w))) \in BOOLEAN
      BY DEF Alive
    <3> QED BY <2>2, <3>1 DEF MasterDies
  <2>3. CASE UNCHANGED vars
    BY <2>3 DEF vars
  <2> QED BY <1>2, <2>1, <2>2, <2>3 DEF Next, Act
<1> QED BY <1>1, <1>2, PTL DEF Spec

(* No worker leaves its socket file behind, save one that SIGKILL ended.   *)
(* Only a serving worker has made its file, and the one step out of        *)
(* "returning" is the drop of the exit guard, which removes it.            *)
THEOREM LeavesNoSocket == Spec => []NoSocketLeft
<1> USE LifecycleAssumption
<1>1. Init => NoSocketLeft
  BY DEF Init, NoSocketLeft
<1>2. ASSUME TypeOK, NoSocketLeft, [Next]_vars PROVE NoSocketLeft'
  <2> SUFFICES ASSUME NEW v \in Workers \ Standalone, (sock[Path[v]] = v)'
               PROVE  (phase[v] \in {"serving", "returning", "killed"})'
    BY DEF NoSocketLeft
  <2>0. Path[v] \in Paths
    OBVIOUS
  <2>1. sock[Path[v]] = v => phase[v] \in {"serving", "returning", "killed"}
    BY <1>2 DEF NoSocketLeft
  <2> USE <2>0, <2>1, <1>2 DEF TypeOK, Enter
  <2>2. ASSUME NEW w \in Workers, Act(w)
        PROVE  (phase[v] \in {"serving", "returning", "killed"})'
    <3>1. CASE Fork(w) BY <3>1 DEF Fork
    <3>2. CASE StandaloneStart(w) BY <3>2 DEF StandaloneStart
    <3>3. CASE Prctl(w) BY <3>3 DEF Prctl
    <3>4. CASE InstallHandlers(w) BY <3>4 DEF InstallHandlers
    <3>12. CASE UnknownType(w) BY <3>12 DEF UnknownType
    <3>5. CASE Bind(w) BY <3>5 DEF Bind
    <3>6. CASE TakeSignal(w) BY <3>6 DEF TakeSignal
    <3>7. CASE DropGuard(w) BY <3>7 DEF DropGuard
    <3>8. CASE Exit(w) BY <3>8 DEF Exit
    <3>9. CASE ReporterFails(w) BY <3>9 DEF ReporterFails
    <3>10. CASE Terminate(w) BY <3>10 DEF Terminate
    <3>11. CASE SigKill(w) BY <3>11 DEF SigKill, Alive, Dead
    <3> QED
      BY <2>2, <3>1, <3>2, <3>3, <3>4, <3>5, <3>6, <3>7, <3>8, <3>9, <3>10, <3>11, <3>12
      DEF Act, WorkerStep
  <2>3. CASE MasterDies
    BY <2>3 DEF MasterDies
  <2>4. CASE UNCHANGED vars
    BY <2>4 DEF vars
  <2> QED BY <1>2, <2>2, <2>3, <2>4 DEF Next, Act
<1> QED BY <1>1, <1>2, LifecycleTypeCorrect, PTL DEF Spec

-----------------------------------------------------------------------------
(* Every step of the composition is a step of WorkerLifecycle or changes   *)
(* nothing there (init, init_worker).                                      *)
LEMMA StartStep == [StartNext]_allVars => [Next]_vars
<1> SUFFICES ASSUME [StartNext]_allVars PROVE [Next]_vars
  OBVIOUS
<1>1. CASE ForceAndCheck BY <1>1 DEF ForceAndCheck
<1>2. CASE InitWorker BY <1>2 DEF InitWorker, Next
<1>3. CASE SetTracer BY <1>3 DEF SetTracer
<1>4. CASE Reload BY <1>4 DEF Reload
<1>5. CASE WorkersNext BY <1>5 DEF WorkersNext, StandaloneStarts, Next
<1>6. CASE UNCHANGED allVars BY <1>6 DEF allVars
<1> QED BY <1>1, <1>2, <1>3, <1>4, <1>5, <1>6 DEF StartNext

(* The composition implements the life of the workers: whatever is proved  *)
(* of WorkerLifecycle holds with module starts and reloads around it.      *)
THEOREM StartIsLifecycle == StartSpec => Spec
<1>1. StartInit => Init
  BY DEF StartInit
<1> QED BY <1>1, StartStep, PTL DEF StartSpec, Spec

(* No worker of any module start leaves its socket file behind, save one   *)
(* that SIGKILL ended (WorkerExitGuard).                                   *)
THEOREM StartLeavesNoSocket == StartSpec => []NoSocketLeft
BY StartIsLifecycle, LeavesNoSocket, PTL

-----------------------------------------------------------------------------
(* A worker that the kernel knows to follow its master has its signal once *)
(* the master is dead.                                                     *)
Followed ==
    \A w \in Workers \ Standalone : armed[w] /\ Alive(w) /\ master = "dead" => signal[w]

(* "Ensure worker process exits when master process exists": what is left  *)
(* of it.  A forked worker that outlives its master without a signal is    *)
(* one whose prctl came after the death of the master, or has not come     *)
(* yet; with SignalEndsWorker, all others end (init_worker).               *)
THEOREM OnlyPrctlIsLate == Spec => []Followed
<1>1. Init => Followed
  BY DEF Init, Followed
<1>2. ASSUME TypeOK, Followed, [Next]_vars PROVE Followed'
  <2> SUFFICES ASSUME NEW v \in Workers \ Standalone, (armed[v] /\ Alive(v) /\ master = "dead")'
               PROVE  signal'[v]
    BY DEF Followed
  <2>0. armed[v] /\ Alive(v) /\ master = "dead" => signal[v]
    BY <1>2 DEF Followed
  <2> USE <2>0, <1>2 DEF TypeOK, Enter, Alive, Dead
  <2>2. ASSUME NEW w \in Workers, Act(w)
        PROVE  signal'[v]
    <3>1. CASE Fork(w) BY <3>1 DEF Fork
    <3>2. CASE StandaloneStart(w) BY <3>2 DEF StandaloneStart
    <3>3. CASE Prctl(w) BY <3>3 DEF Prctl
    <3>4. CASE WorkerStep(w) /\ UNCHANGED <<master, armed, signal>>
      BY <3>4
      DEF WorkerStep, UnknownType, InstallHandlers, Bind, TakeSignal, DropGuard, Exit, Prctl
    <3>5. WorkerStep(w) => Prctl(w) \/ UNCHANGED <<master, armed, signal>>
      BY DEF WorkerStep, UnknownType, InstallHandlers, Bind, TakeSignal, DropGuard, Exit
    <3>6. CASE ReporterFails(w) BY <3>6 DEF ReporterFails
    <3>7. CASE Terminate(w) BY <3>7 DEF Terminate
    <3>8. CASE SigKill(w) BY <3>8 DEF SigKill
    <3> QED
      BY <2>2, <3>1, <3>2, <3>3, <3>4, <3>5, <3>6, <3>7, <3>8 DEF Act
  <2>3. CASE MasterDies
    BY <2>3 DEF MasterDies
  <2>4. CASE UNCHANGED vars
    BY <2>4 DEF vars
  <2> QED BY <1>2, <2>2, <2>3, <2>4 DEF Next, Act
<1> QED BY <1>1, <1>2, LifecycleTypeCorrect, PTL DEF Spec

-----------------------------------------------------------------------------
(* Of the paths drawn, that of the start under way is the last, and every  *)
(* worker was forked with a path that was drawn.                           *)
PathsKnown ==
    /\ path # NoPath /\ type = "forked" => path \in drawn
    /\ tracer # NoPath => tracer = path
    /\ stage \in {"checked", "forked"} => path # NoPath
    /\ hooks => tracer # NoPath
    /\ drawn \subseteq Paths

(* The worker of this start is the one that has its path.                  *)
ChildKnown ==
    /\ child # NoWorker => child \in Workers /\ Path[child] = path /\ stage \in {"forked", "up"}
    /\ stage = "down" => path = NoPath
    /\ type = "forked" =>
          \A w \in Workers \ Standalone : phase[w] # "unborn" =>
              /\ Path[w] \in drawn
              /\ Path[w] = path => w = child

(* Only a fork makes a worker that is not standalone.                      *)
LEMMA WorkersAreForked ==
  ASSUME TypeOK, WorkersNext, NEW w \in Workers \ Standalone, phase'[w] # "unborn"
  PROVE  phase[w] # "unborn"
  <1> USE DEF TypeOK, Enter
  <1>1. ASSUME NEW v \in Workers,
               StandaloneStart(v) \/ WorkerStep(v) \/ ReporterFails(v) \/ Terminate(v) \/ SigKill(v)
        PROVE  phase[w] # "unborn"
    <2>1. CASE StandaloneStart(v) BY <2>1 DEF StandaloneStart
    <2>2. CASE WorkerStep(v)
      <3>1. phase[v] # "unborn" /\ \E to : phase' = [phase EXCEPT ![v] = to]
        BY <2>2
        DEF WorkerStep, Prctl, UnknownType, InstallHandlers, Bind, TakeSignal, DropGuard, Exit
      <3> QED BY <3>1
    <2>3. CASE ReporterFails(v) BY <2>3 DEF ReporterFails
    <2>4. CASE Terminate(v) BY <2>4 DEF Terminate
    <2>5. CASE SigKill(v) BY <2>5 DEF SigKill, Alive, Dead
    <2> QED BY <1>1, <2>1, <2>2, <2>3, <2>4, <2>5
  <1>2. CASE MasterDies
    BY <1>2 DEF MasterDies
  <1> QED BY <1>1, <1>2 DEF WorkersNext, StandaloneStarts

(* The PHP processes of a start report to its worker and to no other, for  *)
(* any number of reloads, workers that live on, failed forks and signals   *)
(* (init, init_worker, SOCKET_FILE_PATH).                                  *)
THEOREM ReportsToOwnWorker == StartSpec => []OwnWorker
<1> USE StartAssumption, LifecycleAssumption
<1>1. StartInit => PathsKnown /\ ChildKnown
  BY DEF StartInit, Init, PathsKnown, ChildKnown
<1>2. ASSUME TypeOK, PathsKnown, ChildKnown, [StartNext]_allVars
      PROVE  PathsKnown' /\ ChildKnown'
  <2> USE <1>2 DEF PathsKnown, ChildKnown
  <2>1. CASE ForceAndCheck
    <3>1. /\ stage = "down" /\ path = NoPath /\ child = NoWorker
          /\ UNCHANGED <<phase, type, child, tracer, hooks>>
          /\ stage' \in {"checked", "up"} /\ (conf = "off" => stage' = "up")
      BY <2>1 DEF ForceAndCheck, vars
    <3>2. CASE conf = "off"
      BY <2>1, <3>1, <3>2 DEF ForceAndCheck
    <3>3. CASE conf # "off"
      <4>1. PICK p \in Paths : PathOfStart(p) /\ path' = p /\ drawn' = drawn \cup {p}
        BY <2>1, <3>3 DEF ForceAndCheck
      <4>2. type = "forked" => p \notin drawn
        BY <4>1 DEF PathOfStart
      <4>3. tracer = NoPath /\ ~hooks
        BY <3>1
      <4> QED BY <3>1, <4>1, <4>2, <4>3
    <3> QED BY <3>2, <3>3
  <2>2. CASE InitWorker
    <3>1. /\ stage = "checked" /\ stage' = "forked" /\ child = NoWorker
          /\ UNCHANGED <<type, path, drawn, tracer, hooks>>
      BY <2>2 DEF InitWorker
    <3>2. CASE UNCHANGED <<vars, child>>
      BY <3>1, <3>2 DEF vars
    <3>3. CASE ~UNCHANGED <<vars, child>>
      <4>1. PICK v \in Workers : type = "forked" /\ Path[v] = path /\ Fork(v) /\ child' = v
        BY <2>2, <3>3 DEF InitWorker
      <4>2. \A w \in Workers : w # v => phase'[w] = phase[w]
        BY <4>1 DEF Fork, Enter, TypeOK
      <4>3. path \in drawn
        BY <3>1, <4>1
      <4>4. \A w \in Workers : w # NoWorker
        OBVIOUS
      <4>5. \A w \in Workers \ Standalone : phase'[w] # "unborn" =>
               Path[w] \in drawn /\ (Path[w] = path => w = v)
        BY <3>1, <4>1, <4>2, <4>3, <4>4
      <4> QED BY <3>1, <4>1, <4>5
    <3> QED BY <3>2, <3>3
  <2>3. CASE SetTracer
    BY <2>3 DEF SetTracer, vars
  <2>4. CASE Reload
    <3>1. /\ stage = "up" /\ stage' = "down" /\ path' = NoPath /\ child' = NoWorker
          /\ tracer' = NoPath /\ ~hooks' /\ UNCHANGED <<phase, type, drawn>>
      BY <2>4 DEF Reload, vars
    <3>2. \A w \in Workers : Path[w] # NoPath
      OBVIOUS
    <3> QED BY <3>1, <3>2
  <2>5. CASE WorkersNext
    <3>1. UNCHANGED startVars
      BY <2>5 DEF WorkersNext
    <3> QED BY <2>5, <3>1, WorkersAreForked DEF startVars
  <2>6. CASE UNCHANGED allVars BY <2>6 DEF allVars, startVars, vars
  <2> QED BY <1>2, <2>1, <2>2, <2>3, <2>4, <2>5, <2>6 DEF StartNext
<1>3. PathsKnown /\ ChildKnown => OwnWorker
  BY DEF PathsKnown, ChildKnown, OwnWorker
<1>4. StartSpec => []TypeOK
  BY StartIsLifecycle, LifecycleTypeCorrect, PTL
<1> QED BY <1>1, <1>2, <1>3, <1>4, PTL DEF StartSpec
=============================================================================
