--------------------------- MODULE MonitorProofs ---------------------------
(***************************************************************************)
(* Proofs about the supervision core of Monitor.tla, for every set of      *)
(* nodes and every choice of required nodes, respawn policies and stop     *)
(* timeouts.                                                               *)
(***************************************************************************)
EXTENDS Monitor, FiniteSetTheorems, WellFoundedInduction, TLAPS

-----------------------------------------------------------------------------
(* shutdownTimeout() is a maximum.                                         *)

\* The stop timeouts of a finite set of nodes, together with the 0.0 that
\* shutdownTimeout() starts from, have a largest element.
LEMMA StopTimeoutsHaveMax ==
    \E x \in {0} \cup {StopTimeout[n] : n \in Nodes} :
        \A y \in {0} \cup {StopTimeout[n] : n \in Nodes} : y <= x
<1> DEFINE Img(T) == {0} \cup {StopTimeout[n] : n \in T}
           HasMax(T) == \E x \in Img(T) : \A y \in Img(T) : y <= x
           R == StrictSubsetOrdering(Nodes)
<1>1. IsWellFoundedOn(R, SUBSET Nodes)
  BY NodesAssumption, FS_StrictSubsetOrderingWellFounded, FS_FiniteSubsetsOfFinite
<1>2. \A T \in SUBSET Nodes : Img(T) \subseteq Nat
  BY StopTimeoutAssumption
<1>3. \A T \in SUBSET Nodes : HasMax(T)
  <2> DEFINE Bad == {T \in SUBSET Nodes : ~HasMax(T)}
  <2> SUFFICES ASSUME Bad # {} PROVE FALSE
    OBVIOUS
  <2>1. PICK T \in Bad : \A U \in Bad : ~(<<U, T>> \in R)
    BY <1>1, WFMin
  <2>2. CASE T = {}
    <3>2. HasMax(T)
      <4>1. 0 \in Img(T) /\ \A y \in Img(T) : y <= 0
        BY <2>2
      <4> QED
        BY <4>1
    <3> QED
      BY <2>1, <3>2
  <2>3. CASE T # {}
    <3>1. PICK t \in T : TRUE
      BY <2>3
    <3>2. T \ {t} \in SUBSET Nodes /\ <<T \ {t}, T>> \in R
      BY <2>1, <3>1 DEF StrictSubsetOrdering
    <3>3. HasMax(T \ {t})
      BY <2>1, <3>2
    <3>4. PICK m \in Img(T \ {t}) : \A y \in Img(T \ {t}) : y <= m
      BY <3>3
    <3>5. Img(T) = Img(T \ {t}) \cup {StopTimeout[t]}
      BY <3>1
    <3>6. m \in Nat /\ StopTimeout[t] \in Nat /\ Img(T \ {t}) \subseteq Nat
      BY <1>2, <3>2, <3>4, StopTimeoutAssumption
    <3>7. HasMax(T)
      <4>1. CASE StopTimeout[t] <= m
        BY <3>4, <3>5, <4>1
      <4>2. CASE ~(StopTimeout[t] <= m)
        <5>1. \A y \in Img(T \ {t}) : y <= StopTimeout[t]
          BY <3>4, <3>6, <4>2
        <5>2. /\ StopTimeout[t] \in Img(T)
              /\ \A y \in Img(T) : y <= StopTimeout[t]
          BY <3>5, <3>6, <5>1
        <5> QED
          BY <5>2
      <4> QED
        BY <4>1, <4>2
    <3> QED
      BY <2>1, <3>7
  <2> QED
    BY <2>2, <2>3
<1> QED
  BY <1>3

\* shutdownTimeout() is a natural number that bounds the stop timeout of
\* every node, for every finite set of nodes.
LEMMA ShutdownTimeoutBound ==
    /\ ShutdownTimeout \in Nat
    /\ \A n \in Nodes : StopTimeout[n] <= ShutdownTimeout
<1> DEFINE S == {0} \cup {StopTimeout[n] : n \in Nodes}
<1>1. S \subseteq Nat
  BY StopTimeoutAssumption
<1>2. ShutdownTimeout \in S /\ \A y \in S : ShutdownTimeout >= y
  BY StopTimeoutsHaveMax DEF ShutdownTimeout, Max
<1> QED
  BY <1>1, <1>2

-----------------------------------------------------------------------------
(* Type correctness.                                                       *)

\* The type invariant without the bound on elapsed, which rests on
\* shutdownTimeout() being a maximum.
TypeInv ==
    /\ state \in [Nodes -> NodeStates]
    /\ proc \in [Nodes -> ProcStates]
    /\ sig \in [Nodes -> Signals]
    /\ ok \in BOOLEAN
    /\ shouldStop \in BOOLEAN
    /\ rosOk \in BOOLEAN
    /\ pc \in MainPcs
    /\ elapsed \in Nat
    /\ exitedSig \in SUBSET Nodes

\* Every step keeps the variables in their types.
LEMMA TypeStep == TypeInv /\ [Next]_vars => TypeInv'
<1> SUFFICES ASSUME TypeInv, [Next]_vars PROVE TypeInv'
  OBVIOUS
<1> USE DEF TypeInv, NodeStates, ProcStates, Signals, MainPcs
<1>1. CASE Launch
  BY <1>1 DEF Launch, NotifyExits
<1>2. CASE InstallHandlers \/ LoopIterate \/ EndSpin \/ EndWait \/ Finish
  BY <1>2 DEF InstallHandlers, LoopIterate, EndSpin, EndWait, Finish
<1>3. CASE LeaveLoop
  BY <1>3 DEF LeaveLoop, ShutdownAll
<1>4. CASE EndGrace
  BY <1>4 DEF EndGrace, ForceExitAll
<1>5. CASE Tick
  BY <1>5 DEF Tick
<1>6. ASSUME NEW n \in Nodes, RespawnNode(n) \/ ServiceStart(n)
      PROVE TypeInv'
  BY <1>6 DEF RespawnNode, ServiceStart, StartNode, NotifyExits
<1>7. ASSUME NEW n \in Nodes, ServiceStop(n) PROVE TypeInv'
  BY <1>7 DEF ServiceStop
<1>8. ASSUME NEW n \in Nodes, HandleExit(n) PROVE TypeInv'
  BY <1>8 DEF HandleExit, NotifyExits
<1>9. ASSUME NEW n \in Nodes, ChildExit(n) PROVE TypeInv'
  BY <1>9 DEF ChildExit
<1>10. CASE handleSignal \/ SignalBeforeHandlers \/ RosShutdown
  BY <1>10 DEF handleSignal, SignalBeforeHandlers, RosShutdown
<1>11. CASE UNCHANGED vars
  BY <1>11 DEF vars
<1>12. QED
  BY <1>1, <1>2, <1>3, <1>4, <1>5, <1>6, <1>7, <1>8, <1>9, <1>10, <1>11
     DEF Next, MainThread, Callbacks, Environment

\* The initial state is well typed.
LEMMA TypeInit == Init => TypeInv
<1> SUFFICES ASSUME Init PROVE TypeInv
  OBVIOUS
<1>1. state \in [Nodes -> NodeStates]
  BY DEF Init, NodeStates
<1>2. proc \in [Nodes -> ProcStates] /\ sig \in [Nodes -> Signals]
  BY DEF Init, ProcStates, Signals
<1>3. pc \in MainPcs
  BY DEF Init, MainPcs
<1>4. QED
  BY <1>1, <1>2, <1>3 DEF Init, TypeInv

\* Every reachable state is well typed.
THEOREM TypeCorrect == Spec => []TypeInv
  BY TypeInit, TypeStep, PTL DEF Spec

-----------------------------------------------------------------------------
(* No child outlives main().                                               *)

\* The inductive invariant: besides the pid invariant, once main() has
\* left its last loop no node is running, because nothing can start a node
\* outside ros::spinOnce().
IInv ==
    /\ TypeInv
    /\ PidIffRunning
    /\ pc = "done" => AllShutdown

\* The initial state satisfies the inductive invariant.
LEMMA InitIInv == Init => IInv
<1> SUFFICES ASSUME Init PROVE IInv
  OBVIOUS
<1>1. PidIffRunning
  BY DEF Init, PidIffRunning, HasPid, Running
<1>2. QED
  BY <1>1, TypeInit DEF Init, IInv

\* Every step of the specification preserves the inductive invariant.
LEMMA NextIInv == IInv /\ [Next]_vars => IInv'
<1> SUFFICES ASSUME IInv, [Next]_vars PROVE IInv'
  OBVIOUS
<1>1. TypeInv'
  BY TypeStep DEF IInv
<1>2. PidIffRunning'
  <2> USE DEF IInv, TypeInv, PidIffRunning, HasPid, Running
  <2>1. CASE Launch
    BY <2>1 DEF Launch, NotifyExits
  <2>2. CASE InstallHandlers \/ LoopIterate \/ EndSpin \/ EndWait \/ Finish
             \/ Tick \/ EndGrace
    BY <2>2 DEF InstallHandlers, LoopIterate, EndSpin, EndWait, Finish, Tick,
                EndGrace,
                ForceExitAll
  <2>3. CASE LeaveLoop
    BY <2>3 DEF LeaveLoop, ShutdownAll
  <2>4. ASSUME NEW n \in Nodes, RespawnNode(n) \/ ServiceStart(n)
        PROVE PidIffRunning'
    BY <2>4 DEF RespawnNode, ServiceStart, StartNode, Startable, NotifyExits
  <2>5. ASSUME NEW n \in Nodes, ServiceStop(n) PROVE PidIffRunning'
    BY <2>5 DEF ServiceStop
  <2>6. ASSUME NEW n \in Nodes, HandleExit(n) PROVE PidIffRunning'
    BY <2>6 DEF HandleExit, NotifyExits
  <2>7. ASSUME NEW n \in Nodes, ChildExit(n) PROVE PidIffRunning'
    BY <2>7 DEF ChildExit
  <2>8. CASE handleSignal \/ SignalBeforeHandlers \/ RosShutdown
             \/ UNCHANGED vars
    BY <2>8 DEF handleSignal, SignalBeforeHandlers, RosShutdown, vars
  <2>9. QED
    BY <2>1, <2>2, <2>3, <2>4, <2>5, <2>6, <2>7, <2>8
       DEF Next, MainThread, Callbacks, Environment
<1>3. (pc = "done" => AllShutdown)'
  <2> USE DEF IInv, TypeInv, AllShutdown, Running
  <2>1. CASE Finish
    BY <2>1 DEF Finish
  <2>2. CASE Launch \/ InstallHandlers \/ LoopIterate \/ LeaveLoop \/ EndSpin
             \/ EndWait
             \/ Tick \/ EndGrace
    BY <2>2 DEF Launch, InstallHandlers, LoopIterate, LeaveLoop, EndSpin,
                EndWait, Tick,
                EndGrace
  <2>3. ASSUME NEW n \in Nodes,
               RespawnNode(n) \/ ServiceStart(n) \/ ServiceStop(n)
                 \/ HandleExit(n)
        PROVE (pc = "done" => AllShutdown)'
    BY <2>3 DEF RespawnNode, ServiceStart, ServiceStop, HandleExit
  <2>4. ASSUME NEW n \in Nodes, ChildExit(n)
        PROVE (pc = "done" => AllShutdown)'
    BY <2>4 DEF ChildExit
  <2>5. CASE handleSignal \/ SignalBeforeHandlers \/ RosShutdown
             \/ UNCHANGED vars
    BY <2>5 DEF handleSignal, SignalBeforeHandlers, RosShutdown, vars
  <2>6. QED
    BY <2>1, <2>2, <2>3, <2>4, <2>5
       DEF Next, MainThread, Callbacks, Environment
<1>4. QED
  BY <1>1, <1>2, <1>3 DEF IInv

\* PidIffRunning, the invariant the specification states for every
\* NodeMonitor, holds in every reachable state.
THEOREM PidInvariant == Spec => []PidIffRunning
  BY InitIInv, NextIInv, PTL DEF Spec, IInv

\* When main() returns, every child has been reaped (NoOrphanOnExit).
THEOREM NoOrphan == Spec => []NoOrphanOnExit
<1>1. IInv => NoOrphanOnExit
  BY DEF IInv, TypeInv, PidIffRunning, AllShutdown, NoOrphanOnExit,
         Running, HasPid, ProcStates
<1>2. QED
  BY <1>1, InitIInv, NextIInv, PTL DEF Spec

-----------------------------------------------------------------------------
(* The graceful shutdown window.                                           *)

\* TypeOK, with the clock of the graceful wait bounded by
\* shutdownTimeout(), is itself inductive.
LEMMA TypeOKStep == TypeOK /\ [Next]_vars => TypeOK'
<1> SUFFICES ASSUME TypeOK, [Next]_vars PROVE TypeOK'
  OBVIOUS
<1>1. TypeInv'
  BY TypeStep DEF TypeOK, TypeInv
<1>2. elapsed' \in 0..ShutdownTimeout
  <2> USE ShutdownTimeoutBound DEF TypeOK
  <2>1. CASE Tick
    BY <2>1 DEF Tick, GraceCond
  <2>2. CASE LeaveLoop
    BY <2>2 DEF LeaveLoop
  <2>3. CASE ~Tick /\ ~LeaveLoop
    BY <2>3 DEF Next, MainThread, Callbacks, Environment, Launch,
                InstallHandlers, LoopIterate, EndSpin, EndWait, EndGrace, Finish,
                RespawnNode, ServiceStart, ServiceStop, HandleExit, ChildExit,
                handleSignal, SignalBeforeHandlers, RosShutdown, vars
  <2>4. QED
    BY <2>1, <2>2, <2>3
<1>3. QED
  BY <1>1, <1>2 DEF TypeOK, TypeInv

\* The full type invariant, with elapsed never past shutdownTimeout(),
\* holds in every reachable state.
THEOREM TypeOKInvariant == Spec => []TypeOK
<1>1. Init => TypeOK
  BY TypeInit, ShutdownTimeoutBound DEF Init, TypeInv, TypeOK
<1>2. QED
  BY <1>1, TypeOKStep, PTL DEF Spec

\* A Stopping node has been sent SIGINT (or already SIGKILL), and after
\* the main loop no node is Running any more: Monitor::shutdown() moved
\* them all to Stopping, and only ros::spinOnce() can start a node.
StopInv ==
    \A n \in Nodes :
        /\ state[n] = "Stopping" => sig[n] \in {"int", "kill"}
        /\ pc \in {"grace", "final", "done"} => state[n] # "Running"

\* The initial state satisfies StopInv.
LEMMA InitStopInv == Init => StopInv
  BY DEF Init, StopInv

\* Every step preserves StopInv.
LEMMA NextStopInv == TypeOK /\ StopInv /\ [Next]_vars => StopInv'
<1> SUFFICES ASSUME TypeOK, StopInv, [Next]_vars PROVE StopInv'
  OBVIOUS
<1> USE DEF TypeOK, StopInv
<1>1. CASE Launch
  BY <1>1 DEF Launch, NotifyExits
<1>2. CASE InstallHandlers \/ LoopIterate \/ EndSpin \/ EndWait \/ Finish
           \/ Tick
  BY <1>2 DEF InstallHandlers, LoopIterate, EndSpin, EndWait, Finish, Tick
<1>3. CASE LeaveLoop
  BY <1>3 DEF LeaveLoop, ShutdownAll
<1>4. CASE EndGrace
  BY <1>4 DEF EndGrace, ForceExitAll
<1>5. ASSUME NEW m \in Nodes, RespawnNode(m) \/ ServiceStart(m) PROVE StopInv'
  BY <1>5 DEF RespawnNode, ServiceStart, StartNode, Startable, NotifyExits
<1>6. ASSUME NEW m \in Nodes, ServiceStop(m) PROVE StopInv'
  BY <1>6 DEF ServiceStop
<1>7. ASSUME NEW m \in Nodes, HandleExit(m) PROVE StopInv'
  BY <1>7 DEF HandleExit, NotifyExits
<1>8. ASSUME NEW m \in Nodes, ChildExit(m) PROVE StopInv'
  BY <1>8 DEF ChildExit
<1>9. CASE handleSignal \/ SignalBeforeHandlers \/ RosShutdown \/ UNCHANGED vars
  BY <1>9 DEF handleSignal, SignalBeforeHandlers, RosShutdown, vars
<1>10. QED
  BY <1>1, <1>2, <1>3, <1>4, <1>5, <1>6, <1>7, <1>8, <1>9
     DEF Next, MainThread, Callbacks, Environment

\* The step property behind KillOnlyAfterGrace: in a state of StopInv,
\* a step sends SIGKILL to a node only if it had SIGINT and its stop
\* timeout has passed.
LEMMA KillStep ==
    TypeOK /\ StopInv /\ [Next]_vars
      => \A n \in Nodes : (sig'[n] = "kill" /\ sig[n] # "kill")
                            => (sig[n] = "int" /\ elapsed >= StopTimeout[n])
<1> SUFFICES ASSUME TypeOK, StopInv, [Next]_vars, NEW n \in Nodes,
                    sig'[n] = "kill", sig[n] # "kill"
             PROVE  sig[n] = "int" /\ elapsed >= StopTimeout[n]
  OBVIOUS
<1>1. EndGrace
  \* no other step assigns "kill"
  <2> USE DEF TypeOK
  <2>1. /\ ~Launch /\ ~InstallHandlers /\ ~LoopIterate /\ ~EndSpin
         /\ ~EndWait /\ ~Finish /\ ~Tick
    BY DEF Launch, InstallHandlers, LoopIterate, EndSpin, EndWait, Finish, Tick
  <2>2. ~LeaveLoop
    BY DEF LeaveLoop, ShutdownAll
  <2>3. \A m \in Nodes : ~RespawnNode(m) /\ ~ServiceStart(m) /\ ~ServiceStop(m)
                          /\ ~HandleExit(m) /\ ~ChildExit(m)
    BY DEF RespawnNode, ServiceStart, StartNode, NotifyExits, ServiceStop,
           HandleExit, ChildExit
  <2>4. ~handleSignal /\ ~SignalBeforeHandlers /\ ~RosShutdown /\ ~UNCHANGED vars
    BY DEF handleSignal, SignalBeforeHandlers, RosShutdown, vars
  <2>5. QED
    BY <2>1, <2>2, <2>3, <2>4 DEF Next, MainThread, Callbacks, Environment
<1>2. ~AllShutdown /\ Running(n) /\ ~GraceCond /\ pc = "grace"
  BY <1>1 DEF EndGrace, ForceExitAll, TypeOK
<1>3. sig[n] = "int"
  BY <1>2 DEF StopInv, Running, TypeOK, Signals
<1>4. elapsed >= StopTimeout[n]
  BY <1>2, ShutdownTimeoutBound, StopTimeoutAssumption DEF GraceCond, TypeOK
<1>5. QED
  BY <1>3, <1>4

\* KillOnlyAfterGrace: Monitor::forceExit() sends SIGKILL to a node only
\* after Monitor::shutdown() sent it SIGINT and only once the node's own
\* stop timeout has passed, for every choice of stop timeouts.
THEOREM KillAfterGrace == Spec => KillOnlyAfterGrace
<1>1. Init => TypeOK /\ StopInv
  BY InitStopInv, TypeInit, ShutdownTimeoutBound DEF Init, TypeInv, TypeOK
<1>2. TypeOK /\ StopInv /\ [Next]_vars => (TypeOK /\ StopInv)'
  BY TypeOKStep, NextStopInv
<1>3. TypeOK /\ StopInv /\ [Next]_vars
        => [\A n \in Nodes : (sig'[n] = "kill" /\ sig[n] # "kill")
                               => (sig[n] = "int" /\ elapsed >= StopTimeout[n])]_vars
  BY KillStep
<1>4. QED
  BY <1>1, <1>2, <1>3, PTL DEF Spec, KillOnlyAfterGrace
-----------------------------------------------------------------------------
(* Monitor implements NodeLifecycle.                                       *)

\* Before Monitor::start() every node is still Idle.
LaunchInv == pc = "launch" => \A n \in Nodes : state[n] = "Idle"

\* Every step preserves LaunchInv: only Launch leaves "launch", and no
\* callback or child exit can happen before it.
LEMMA NextLaunchInv == IInv /\ LaunchInv /\ [Next]_vars => LaunchInv'
<1> SUFFICES ASSUME IInv, LaunchInv, [Next]_vars PROVE LaunchInv'
  OBVIOUS
<1> USE DEF IInv, TypeInv, LaunchInv, MainPcs
<1>1. CASE MainThread \/ Tick \/ handleSignal \/ SignalBeforeHandlers
           \/ RosShutdown \/ UNCHANGED vars
  BY <1>1 DEF MainThread, Launch, InstallHandlers, LoopIterate, LeaveLoop,
              EndSpin, EndWait, EndGrace, Finish, Tick, handleSignal,
              SignalBeforeHandlers, RosShutdown, vars
<1>2. ASSUME NEW m \in Nodes,
             RespawnNode(m) \/ ServiceStart(m) \/ ServiceStop(m)
               \/ HandleExit(m)
      PROVE LaunchInv'
  BY <1>2 DEF RespawnNode, ServiceStart, ServiceStop, HandleExit
<1>3. ASSUME NEW m \in Nodes, ChildExit(m) PROVE LaunchInv'
  BY <1>3 DEF ChildExit, PidIffRunning, HasPid, Running
<1>4. QED
  BY <1>1, <1>2, <1>3 DEF Next, Callbacks, Environment

\* The step simulation: in a state of IInv and LaunchInv, every step of
\* Monitor is a step of NodeLifecycle or leaves its variables alone.
LEMMA LifecycleStep ==
    IInv /\ LaunchInv /\ [Next]_vars => [Lifecycle!Next]_Lifecycle!vars
<1> SUFFICES ASSUME IInv, LaunchInv, [Next]_vars
             PROVE  [Lifecycle!Next]_Lifecycle!vars
  OBVIOUS
<1> USE DEF IInv, TypeInv, MainPcs, Phase
<1>1. CASE Launch /\ StartNodes
  <2>1. PICK failed \in SUBSET Nodes :
          /\ state' = [n \in Nodes |-> IF n \in failed THEN state[n] ELSE "Running"]
          /\ NotifyExits(failed)
    BY <1>1 DEF Launch
  <2>2. Lifecycle!Start(Nodes \ failed, failed)
    BY <1>1, <2>1 DEF Launch, NotifyExits, LaunchInv, Lifecycle!Start,
                      Lifecycle!Startable
  <2>3. QED
    BY <2>2 DEF Lifecycle!Next
<1>2. CASE (Launch /\ ~StartNodes) \/ InstallHandlers \/ LoopIterate \/ EndSpin
           \/ EndWait
           \/ Tick \/ EndGrace
  BY <1>2 DEF Launch, InstallHandlers, LoopIterate, EndSpin, EndWait, Tick,
              EndGrace,
              Lifecycle!vars
<1>3. CASE LeaveLoop
  BY <1>3 DEF LeaveLoop, ShutdownAll, LoopCond, Lifecycle!Next,
              Lifecycle!BeginShutdown
<1>4. CASE Finish
  BY <1>4 DEF Finish, AllShutdown, Running, Lifecycle!Next, Lifecycle!End,
              Lifecycle!Live
<1>5. ASSUME NEW n \in Nodes, RespawnNode(n) \/ ServiceStart(n)
      PROVE [Lifecycle!Next]_Lifecycle!vars
  <2>1. pc = "spin" /\ StartNode(n) /\ UNCHANGED <<shouldStop, rosOk, pc>>
    BY <1>5 DEF RespawnNode, ServiceStart
  <2>2. Lifecycle!Start({n}, {}) \/ Lifecycle!Start({}, {n})
    BY <2>1 DEF StartNode, Startable, NotifyExits, Lifecycle!Start,
                Lifecycle!Startable
  <2>3. QED
    BY <2>2 DEF Lifecycle!Next
<1>6. ASSUME NEW n \in Nodes, ServiceStop(n)
      PROVE [Lifecycle!Next]_Lifecycle!vars
  BY <1>6 DEF ServiceStop, Lifecycle!Next, Lifecycle!Stop
<1>7. ASSUME NEW n \in Nodes, HandleExit(n)
      PROVE [Lifecycle!Next]_Lifecycle!vars
  <2>1. state[n] \in {"Running", "Stopping"}
    BY <1>7 DEF HandleExit, PidIffRunning, HasPid, Running
  <2>2. Lifecycle!Exit(n)
    BY <1>7, <2>1 DEF HandleExit, NotifyExits, Lifecycle!Exit, Lifecycle!Live
  <2>3. QED
    BY <2>2 DEF Lifecycle!Next
<1>8. ASSUME NEW n \in Nodes, ChildExit(n)
      PROVE [Lifecycle!Next]_Lifecycle!vars
  BY <1>8 DEF ChildExit, Lifecycle!vars
<1>9. CASE handleSignal \/ SignalBeforeHandlers \/ RosShutdown
  BY <1>9 DEF handleSignal, SignalBeforeHandlers, RosShutdown, Lifecycle!Next,
              Lifecycle!RequestStop,
              Lifecycle!vars
<1>10. CASE UNCHANGED vars
  BY <1>10 DEF vars, Lifecycle!vars
<1>11. QED
  BY <1>1, <1>2, <1>3, <1>4, <1>5, <1>6, <1>7, <1>8, <1>9, <1>10
     DEF Next, MainThread, Callbacks, Environment

\* Monitor and main() implement the safety part of NodeLifecycle: every
\* start, stop and exit the code handles, the shutdown of the session and
\* its end are steps the abstract node life cycle allows, for every set of
\* nodes, required nodes, respawn policies and stop timeouts.
THEOREM LifecycleSafety == Spec => Lifecycle!SafetySpec
<1>1. Init => Lifecycle!Init
  BY DEF Init, Phase, Lifecycle!Init
<1>2. Init => IInv /\ LaunchInv
  BY InitIInv DEF Init, LaunchInv
<1>3. IInv /\ LaunchInv /\ [Next]_vars => (IInv /\ LaunchInv)'
  BY NextIInv, NextLaunchInv
<1>4. QED
  BY <1>1, <1>2, <1>3, LifecycleStep, PTL DEF Spec, Lifecycle!SafetySpec
=============================================================================
