------------------------------ MODULE Monitor ------------------------------
(***************************************************************************)
(* The supervision core of rosmon: the fleet of NodeMonitors owned by      *)
(* monitor::Monitor (src/rosmon_core/src/monitor/monitor.cpp) and the      *)
(* single-threaded main loop of src/rosmon_core/src/main.cpp that drives   *)
(* them: launch, the ros::spinOnce / FDWatcher::wait loop, the graceful    *)
(* shutdown window bounded by Monitor::shutdownTimeout(), the SIGKILL      *)
(* escalation of Monitor::forceExit() and the final wait for every child.  *)
(*                                                                         *)
(* NodeMonitor itself (node_monitor.cpp) is not part of the sources under  *)
(* src/; its operations (start, shutdown, forceExit, exit handling) are    *)
(* modelled from the specification, section 4.1.                          *)
(*                                                                         *)
(* Each child process is abstracted to the OS view of it: alive, exited    *)
(* but not yet reaped (its pipes report EOF), or gone.  Time only matters  *)
(* inside the graceful shutdown window and is counted there in whole stop  *)
(* timeout units.                                                          *)
(***************************************************************************)
EXTENDS Naturals, FiniteSets, FiniteSetsExt

CONSTANTS
    Nodes,        \* the nodes of the launch file (LaunchConfig::nodes())
    Required,     \* nodes with required="true"
    Respawn,      \* nodes whose respawn policy restarts them after an exit
    StopTimeout,  \* per-node stop timeout, in whole time units
    StartNodes,   \* FALSE when rosmon runs with --no-start
    EarlySignals  \* a termination signal may come before handleSignal is set

ASSUME NodesAssumption == IsFiniteSet(Nodes) /\ Nodes # {}
ASSUME RequiredAssumption == Required \subseteq Nodes
ASSUME RespawnAssumption == Respawn \subseteq Nodes
ASSUME StopTimeoutAssumption == StopTimeout \in [Nodes -> Nat]
ASSUME StartNodesAssumption == StartNodes \in BOOLEAN
ASSUME EarlySignalsAssumption == EarlySignals \in BOOLEAN

VARIABLES
    state,      \* NodeMonitor state of every node
    proc,       \* the node's child process as the OS sees it
    sig,        \* the strongest signal sent to the node's current child
    ok,         \* Monitor::m_ok
    shouldStop, \* g_shouldStop, set by the SIGINT/SIGTERM/SIGHUP handler
    rosOk,      \* ros::ok()
    pc,         \* where the main thread of main() is
    elapsed,    \* WallTime::now() - start during the graceful shutdown wait
    exitedSig   \* history: nodes that have raised NodeMonitor::exitedSignal

vars == <<state, proc, sig, ok, shouldStop, rosOk, pc, elapsed, exitedSig>>

NodeStates == {"Idle", "Running", "Crashed", "Waiting", "Stopping", "Stopped"}
ProcStates == {"none", "alive", "exited"}
Signals == {"none", "int", "kill"}
MainPcs == {"launch", "setup", "check", "spin", "wait", "grace", "final", "done",
            "killed"}

-----------------------------------------------------------------------------
(* Monitor's queries.                                                      *)

\* NodeMonitor::running()
Running(n) == state[n] \in {"Running", "Stopping"}

\* NodeMonitor::pid() != -1
HasPid(n) == proc[n] # "none"

\* Fault variant: allShutdown() that only looks for Running nodes and
\* forgets the ones still Stopping.
AllShutdownIgnoringStopping == \A n \in Nodes : state[n] # "Running"

\* Monitor::allShutdown(): no node is running().
AllShutdown == \A n \in Nodes : ~Running(n)

\* Monitor::shutdownTimeout(): the biggest stop timeout, starting from 0.0.
ShutdownTimeout == Max({0} \cup {StopTimeout[n] : n \in Nodes})

\* Fault variant: a loop condition that forgets Monitor::ok().
LoopCondIgnoringOk == rosOk /\ ~shouldStop

\* The loop condition of the main loop.
LoopCond == rosOk /\ ok /\ ~shouldStop

\* Fault variant: the graceful wait without its deadline.
GraceCondNoDeadline == ~AllShutdown

\* Fault variant: the graceful wait leaving one time unit early.
GraceCondEarly == ~AllShutdown /\ elapsed + 1 < ShutdownTimeout

\* The condition of the graceful shutdown wait loop.
GraceCond == ~AllShutdown /\ elapsed < ShutdownTimeout

-----------------------------------------------------------------------------
(* Building blocks shared by several handlers.                             *)

\* NodeMonitor::exitedSignal for the nodes in S; the Monitor constructor
\* connects it to handleRequiredNodeExit only for required nodes, which
\* clears m_ok.
NotifyExits(S) ==
    /\ exitedSig' = exitedSig \cup S
    /\ ok' = (ok /\ S \cap Required = {})

\* States from which NodeMonitor::start() may start the node.
Startable == {"Idle", "Crashed", "Waiting", "Stopped"}

\* NodeMonitor::start() of node n: fork/exec succeeds and the node runs, or
\* exec fails, the state is left alone and the exit notification fires.
StartNode(n) ==
    /\ state[n] \in Startable
    /\ \/ /\ state' = [state EXCEPT ![n] = "Running"]
          /\ proc' = [proc EXCEPT ![n] = "alive"]
          /\ sig' = [sig EXCEPT ![n] = "none"]
          /\ UNCHANGED <<ok, exitedSig>>
       \/ /\ NotifyExits({n})
          /\ UNCHANGED <<state, proc, sig>>

\* NodeMonitor::shutdown() of every node: a Running node gets SIGINT and
\* becomes Stopping; the others are left alone.
ShutdownAll ==
    /\ state' = [n \in Nodes |-> IF state[n] = "Running" THEN "Stopping" ELSE state[n]]
    /\ sig' = [n \in Nodes |-> IF state[n] = "Running" THEN "int" ELSE sig[n]]

\* Fault variant: forceExit() that only kills nodes still Running.
ForceExitOnlyRunning ==
    sig' = [n \in Nodes |-> IF state[n] = "Running" /\ HasPid(n) THEN "kill" ELSE sig[n]]

\* Monitor::forceExit(): every node that is still running() gets SIGKILL
\* through NodeMonitor::forceExit(), which needs a pid.
ForceExitAll ==
    sig' = [n \in Nodes |-> IF Running(n) /\ HasPid(n) THEN "kill" ELSE sig[n]]

-----------------------------------------------------------------------------
(* The main thread.                                                        *)

Init ==
    /\ state = [n \in Nodes |-> "Idle"]
    /\ proc = [n \in Nodes |-> "none"]
    /\ sig = [n \in Nodes |-> "none"]
    /\ ok = TRUE
    /\ shouldStop = FALSE
    /\ rosOk = TRUE
    /\ pc = "launch"
    /\ elapsed = 0
    /\ exitedSig = {}

\* Monitor::start() unless --no-start: every node is started once; the
\* nodes in "failed" fail to exec.
Launch ==
    /\ pc = "launch"
    /\ IF StartNodes
         THEN \E failed \in SUBSET Nodes :
                /\ state' = [n \in Nodes |-> IF n \in failed THEN state[n] ELSE "Running"]
                /\ proc' = [n \in Nodes |-> IF n \in failed THEN proc[n] ELSE "alive"]
                /\ NotifyExits(failed)
         ELSE UNCHANGED <<state, proc, ok, exitedSig>>
    /\ pc' = "setup"
    /\ UNCHANGED <<sig, shouldStop, rosOk, elapsed>>

\* The UI and the ROS interface are set up, and signal() installs
\* handleSignal for SIGINT, SIGHUP and SIGTERM; the main loop begins.
InstallHandlers ==
    /\ pc = "setup"
    /\ pc' = "check"
    /\ UNCHANGED <<state, proc, sig, ok, shouldStop, rosOk, elapsed, exitedSig>>

\* The main loop condition holds: run one iteration.
LoopIterate ==
    /\ pc = "check"
    /\ LoopCond
    /\ pc' = "spin"
    /\ UNCHANGED <<state, proc, sig, ok, shouldStop, rosOk, elapsed, exitedSig>>

\* The main loop condition fails: Monitor::shutdown() and start the clock
\* of the graceful shutdown wait.
LeaveLoop ==
    /\ pc = "check"
    /\ ~LoopCond
    /\ ShutdownAll
    /\ pc' = "grace"
    /\ elapsed' = 0
    /\ UNCHANGED <<proc, ok, shouldStop, rosOk, exitedSig>>

\* ros::spinOnce() has run every due callback; go on to FDWatcher::wait().
EndSpin ==
    /\ pc = "spin"
    /\ pc' = "wait"
    /\ UNCHANGED <<state, proc, sig, ok, shouldStop, rosOk, elapsed, exitedSig>>

\* FDWatcher::wait() returns; back to the loop condition.
EndWait ==
    /\ pc = "wait"
    /\ pc' = "check"
    /\ UNCHANGED <<state, proc, sig, ok, shouldStop, rosOk, elapsed, exitedSig>>

\* One FDWatcher::wait(0.1) of the graceful shutdown loop passes.
Tick ==
    /\ pc = "grace"
    /\ GraceCond
    /\ elapsed' = elapsed + 1
    /\ UNCHANGED <<state, proc, sig, ok, shouldStop, rosOk, pc, exitedSig>>

\* The graceful wait ends; if some node still runs, Monitor::forceExit().
EndGrace ==
    /\ pc = "grace"
    /\ ~GraceCond
    /\ IF ~AllShutdown THEN ForceExitAll ELSE UNCHANGED sig
    /\ pc' = "final"
    /\ UNCHANGED <<state, proc, ok, shouldStop, rosOk, elapsed, exitedSig>>

\* The final "while(!monitor.allShutdown())" loop ends and main returns.
Finish ==
    /\ pc = "final"
    /\ AllShutdown
    /\ pc' = "done"
    /\ UNCHANGED <<state, proc, sig, ok, shouldStop, rosOk, elapsed, exitedSig>>

-----------------------------------------------------------------------------
(* Callbacks.                                                              *)

\* A node's restart timer fires in ros::spinOnce() and restarts it.
RespawnNode(n) ==
    /\ pc = "spin"
    /\ state[n] = "Waiting"
    /\ StartNode(n)
    /\ UNCHANGED <<shouldStop, rosOk, pc, elapsed>>

\* The start/stop service of ROSInterface, served in ros::spinOnce().
ServiceStart(n) ==
    /\ pc = "spin"
    /\ StartNode(n)
    /\ UNCHANGED <<shouldStop, rosOk, pc, elapsed>>

ServiceStop(n) ==
    /\ pc = "spin"
    /\ state[n] = "Running"
    /\ state' = [state EXCEPT ![n] = "Stopping"]
    /\ sig' = [sig EXCEPT ![n] = "int"]
    /\ UNCHANGED <<proc, ok, shouldStop, rosOk, pc, elapsed, exitedSig>>

\* Fault variant: the exit handler that updates the state but does not
\* reap the child and keeps its pid.
HandleExitKeepsPid(n) ==
    /\ pc \in {"wait", "grace", "final"}
    /\ proc[n] = "exited"
    /\ UNCHANGED proc
    /\ sig' = [sig EXCEPT ![n] = "none"]
    /\ state' = [state EXCEPT ![n] =
                    IF state[n] = "Stopping" THEN "Stopped"
                    ELSE IF n \in Respawn THEN "Waiting"
                    ELSE "Crashed"]
    /\ NotifyExits({n})
    /\ UNCHANGED <<shouldStop, rosOk, pc, elapsed>>

\* The EOF of an exited child is seen in FDWatcher::wait(); the child is
\* reaped and NodeMonitor handles its exit.  An exit that was asked for
\* ends in Stopped; any other exit counts as a crash.
HandleExit(n) ==
    /\ pc \in {"wait", "grace", "final"}
    /\ proc[n] = "exited"
    /\ proc' = [proc EXCEPT ![n] = "none"]
    /\ sig' = [sig EXCEPT ![n] = "none"]
    /\ state' = [state EXCEPT ![n] =
                    IF state[n] = "Stopping" THEN "Stopped"
                    ELSE IF n \in Respawn THEN "Waiting"
                    ELSE "Crashed"]
    /\ NotifyExits({n})
    /\ UNCHANGED <<shouldStop, rosOk, pc, elapsed>>

-----------------------------------------------------------------------------
(* The environment.                                                        *)

\* The child exits: on its own, on SIGINT, or on SIGKILL.
ChildExit(n) ==
    /\ proc[n] = "alive"
    /\ proc' = [proc EXCEPT ![n] = "exited"]
    /\ UNCHANGED <<state, sig, ok, shouldStop, rosOk, pc, elapsed, exitedSig>>

\* handleSignal(): SIGINT, SIGHUP or SIGTERM reaches rosmon.
handleSignal ==
    /\ pc \notin {"launch", "setup", "killed"}
    /\ ~shouldStop
    /\ shouldStop' = TRUE
    /\ UNCHANGED <<state, proc, sig, ok, rosOk, pc, elapsed, exitedSig>>

\* SIGINT, SIGHUP or SIGTERM reaches rosmon before signal() installed
\* handleSignal (ros::init runs with NoSigintHandler): the default action
\* ends the process of rosmon on the spot, and its children stay as they are.
SignalBeforeHandlers ==
    /\ EarlySignals
    /\ pc \in {"launch", "setup"}
    /\ pc' = "killed"
    /\ UNCHANGED <<state, proc, sig, ok, shouldStop, rosOk, elapsed, exitedSig>>

\* The ROS master or rosnode shuts the rosmon node down.
RosShutdown ==
    /\ pc # "killed"
    /\ rosOk
    /\ rosOk' = FALSE
    /\ UNCHANGED <<state, proc, sig, ok, shouldStop, pc, elapsed, exitedSig>>

-----------------------------------------------------------------------------

MainThread == Launch \/ InstallHandlers \/ LoopIterate \/ LeaveLoop \/ EndSpin
                \/ EndWait \/ EndGrace \/ Finish

Callbacks == \E n \in Nodes : RespawnNode(n) \/ ServiceStart(n) \/ ServiceStop(n)
                                \/ HandleExit(n)

Environment == (\E n \in Nodes : ChildExit(n)) \/ handleSignal \/ SignalBeforeHandlers
                 \/ RosShutdown

Next == MainThread \/ Tick \/ Callbacks \/ Environment

\* The main thread runs, wall-clock time passes, SIGKILL cannot be ignored,
\* and an EOF that stays readable is seen by one of the waits that the
\* loops keep calling.  The service, the signals and the children's own
\* exits are up to the environment.
Fairness ==
    /\ WF_vars(MainThread)
    /\ WF_vars(Tick)
    /\ \A n \in Nodes : WF_vars(sig[n] = "kill" /\ ChildExit(n))
    /\ \A n \in Nodes : SF_vars(HandleExit(n))

Spec == Init /\ [][Next]_vars /\ Fairness

-----------------------------------------------------------------------------
(* The refinement of NodeLifecycle.                                        *)

\* The session phase of main(): running until the main loop is left, shut
\* down during the graceful and the final wait, ended once main() returns.
\* A rosmon ended by an early signal stays in the running phase for good:
\* its nodes run on, and nothing supervises them any more.
Phase == IF pc \in {"grace", "final"} THEN "shutdown"
         ELSE IF pc = "done" THEN "ended"
         ELSE "running"

Lifecycle == INSTANCE NodeLifecycle
                 WITH life <- state, phase <- Phase, healthy <- ok,
                      stopRequested <- shouldStop \/ ~rosOk

-----------------------------------------------------------------------------
(* Properties.                                                             *)

\* The type invariant; the clock of the graceful wait never runs past
\* shutdownTimeout(), which rests on the deadline in the loop condition.
TypeOK ==
    /\ state \in [Nodes -> NodeStates]
    /\ proc \in [Nodes -> ProcStates]
    /\ sig \in [Nodes -> Signals]
    /\ ok \in BOOLEAN
    /\ shouldStop \in BOOLEAN
    /\ rosOk \in BOOLEAN
    /\ pc \in MainPcs
    /\ elapsed \in 0..ShutdownTimeout
    /\ exitedSig \in SUBSET Nodes

\* The invariant of the specification (section 3): a NodeMonitor has a pid
\* exactly when it is running(), i.e. Running or Stopping.  The exit
\* handler must reap the child and leave the running states in one step,
\* and no start may happen while an exited child is still unreaped.
PidIffRunning == \A n \in Nodes : HasPid(n) <=> Running(n)

\* When main() returns, no child process of any node is left behind, alive
\* or unreaped: the graceful wait, the SIGKILL escalation and the final
\* allShutdown() loop together account for every child.
NoOrphanOnExit == pc = "done" => \A n \in Nodes : proc[n] = "none"

\* The two-phase stop (--stop-timeout: "kill a process if it is still
\* running this long after the initial signal is sent"): SIGKILL reaches a
\* node only after it got SIGINT and only once its own stop timeout has
\* passed, which relies on shutdownTimeout() being the largest timeout.
KillOnlyAfterGrace ==
    [][\A n \in Nodes :
         (sig'[n] = "kill" /\ sig[n] # "kill")
            => (sig[n] = "int" /\ elapsed >= StopTimeout[n])]_vars

\* A signal, a ROS shutdown or the exit of a required node always ends
\* rosmon, whatever the children do with SIGINT: main() returns, or a
\* signal that came before the handlers were installed ended the process.
SessionEnds ==
    (shouldStop \/ ~rosOk \/ exitedSig \cap Required # {})
        ~> (pc \in {"done", "killed"})

\* "On SIGINT, SIGTERM, SIGHUP we stop gracefully" (main.cpp): a
\* termination signal never leaves a child of rosmon behind.
NoOrphanOnSignal == pc = "killed" => \A n \in Nodes : proc[n] = "none"

\* Monitor and main() implement the node life cycle of NodeLifecycle: a
\* start, a stop or an exit handled by the code is one the abstract
\* specification allows; main() shuts the session down only on a signal,
\* a ROS shutdown or a required node's exit, and then in one step asks
\* every running node to stop; it returns only once no node runs; and
\* under the fairness of the code a due shutdown happens, every node asked
\* to stop in the shutdown does exit, and main() returns.
LifecycleRefined == Lifecycle!Spec

=============================================================================
