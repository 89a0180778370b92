------------------------------- MODULE Stats -------------------------------
(***************************************************************************)
(* The resource-accounting cycle of rosmon: Monitor::updateStats() in      *)
(* src/rosmon_core/src/monitor/monitor.cpp, run once per second by a ROS   *)
(* timer, against the process table of the OS that it reads from /proc.   *)
(*                                                                         *)
(* Each scan attributes to a node the CPU ticks that the processes of its  *)
(* process group (pgrp = the pid of the node's leader) consumed since the  *)
(* previous scan, by subtracting the sample m_processInfos kept for the    *)
(* same pid.  The OS side is modelled as it behaves on Linux: a new        *)
(* process inherits its parent's group, a pid is free only when no live   *)
(* process has it as pid or as process group id, and a node's leader is    *)
(* reaped by its NodeMonitor.  Only user time is modelled; system time     *)
(* goes through the same code path.                                        *)
(*                                                                         *)
(* The ghost variables "since", "fresh" and "expected" record what really  *)
(* happened between two scans, so that a scan's result can be compared     *)
(* with the truth.                                                         *)
(***************************************************************************)
EXTENDS Integers, FiniteSets, Functions

CONSTANTS
    Nodes,     \* the nodes of the launch file
    Pids,      \* the pids the OS can hand out
    MaxTicks,  \* bound on the cumulative CPU ticks of one process
    Recycle    \* TRUE: a pid may be reused within one scan interval

ASSUME PidsAssumption == IsFiniteSet(Pids) /\ Pids \subseteq Nat \ {0}
ASSUME MaxTicksAssumption == MaxTicks \in Nat
ASSUME RecycleAssumption == Recycle \in BOOLEAN

\* NodeMonitor::pid() of a node without a process.
NoPid == -1
\* No entry in m_processInfos.
NoSample == -1

VARIABLES
    alive,    \* pids of the live processes (the entries of /proc)
    pgrp,     \* process group id of each pid
    utime,    \* cumulative CPU ticks of the process at each pid
    nodePid,  \* NodeMonitor::pid() of every node
    infos,    \* m_processInfos: the utime sample kept for each pid
    cpu,      \* CPU ticks attributed to each node by the last scan
    since,    \* ghost: ticks each process consumed since the last scan
    fresh,    \* ghost: pids whose process was forked since the last scan
    seen,     \* ghost: pids alive at the last scan
    expected  \* ghost: ticks the last scan should have attributed

vars == <<alive, pgrp, utime, nodePid, infos, cpu, since, fresh, seen, expected>>

osVars == <<alive, pgrp, utime>>
ghostVars == <<since, fresh, seen, expected>>

-----------------------------------------------------------------------------
(* The OS.                                                                 *)

\* A pid the kernel may hand out: not in use as a pid nor as the id of a
\* live process group, and, unless pids are recycled that fast, not used
\* by any process since the last scan.
FreePid(q) ==
    /\ q \notin alive
    /\ \A r \in alive : pgrp[r] # q
    /\ Recycle \/ q \notin seen \cup fresh

\* The processes of the group led by pid g.
Group(g) == {p \in alive : pgrp[p] = g}

\* NodeMonitor::start(): fork the node's leader in a process group of its
\* own and record its pid.
StartNode(n, q) ==
    /\ nodePid[n] = NoPid
    /\ FreePid(q)
    /\ alive' = alive \cup {q}
    /\ pgrp' = [pgrp EXCEPT ![q] = q]
    /\ utime' = [utime EXCEPT ![q] = 0]
    /\ nodePid' = [nodePid EXCEPT ![n] = q]
    /\ since' = [since EXCEPT ![q] = 0]
    /\ fresh' = fresh \cup {q}
    /\ UNCHANGED <<infos, cpu, seen, expected>>

\* A node's leader exits and NodeMonitor reaps it; its descendants stay in
\* the old process group.
LeaderExit(n) ==
    /\ nodePid[n] # NoPid
    /\ alive' = alive \ {nodePid[n]}
    /\ nodePid' = [nodePid EXCEPT ![n] = NoPid]
    /\ UNCHANGED <<pgrp, utime, infos, cpu, ghostVars>>

\* A live process forks a child into its own process group.
Fork(p, q) ==
    /\ p \in alive
    /\ FreePid(q)
    /\ alive' = alive \cup {q}
    /\ pgrp' = [pgrp EXCEPT ![q] = pgrp[p]]
    /\ utime' = [utime EXCEPT ![q] = 0]
    /\ since' = [since EXCEPT ![q] = 0]
    /\ fresh' = fresh \cup {q}
    /\ UNCHANGED <<nodePid, infos, cpu, seen, expected>>

\* A process that leads no node exits and is reaped by its parent.
Exit(p) ==
    /\ p \in alive
    /\ \A n \in Nodes : nodePid[n] # p
    /\ alive' = alive \ {p}
    /\ UNCHANGED <<pgrp, utime, nodePid, infos, cpu, ghostVars>>

\* A process runs for one tick.
Run(p) ==
    /\ p \in alive
    /\ utime[p] < MaxTicks
    /\ utime' = [utime EXCEPT ![p] = @ + 1]
    /\ since' = [since EXCEPT ![p] = @ + 1]
    /\ UNCHANGED <<alive, pgrp, nodePid, infos, cpu, fresh, seen, expected>>

-----------------------------------------------------------------------------
(* Monitor::updateStats().                                                 *)

\* The pids of the nodes that have one: the keys of nodeMap.
NodeMapKeys == {nodePid[n] : n \in Nodes} \ {NoPid}

\* The /proc entries whose process group leads a node.
Matched == {p \in alive : pgrp[p] \in NodeMapKeys}

\* The processes of group g that have a sample in m_processInfos.
Sampled(g) == {p \in Group(g) : infos[p] # NoSample}

\* Fault variant: the delta taken the wrong way round.
AttributedReversed(n) ==
    IF nodePid[n] = NoPid THEN 0
    ELSE SumFunction([p \in Sampled(nodePid[n]) |-> infos[p] - utime[p]])

\* The CPU ticks one scan adds to node n through addCPUTime(): for every
\* process of its group that already has a sample, the difference to the
\* sample; a process seen for the first time adds nothing.
Attributed(n) ==
    IF nodePid[n] = NoPid THEN 0
    ELSE SumFunction([p \in Sampled(nodePid[n]) |-> utime[p] - infos[p]])

\* Fault variant: the clean-up loop is missing and samples of processes
\* that were not seen again stay in the table.
NewInfosNoPrune == [p \in Pids |-> IF p \in Matched THEN utime[p] ELSE infos[p]]

\* Fault variant: an existing sample is marked active but not advanced.
NewInfosNotAdvanced ==
    [p \in Pids |-> IF p \in Matched
                      THEN IF infos[p] = NoSample THEN utime[p] ELSE infos[p]
                      ELSE NoSample]

\* The table after the scan: every matched process is stored with its
\* current sample and marked active; every entry not marked is erased.
NewInfos == [p \in Pids |-> IF p \in Matched THEN utime[p] ELSE NoSample]

\* The ticks that node n's group consumed since the last scan, over the
\* processes that already existed at that scan.
Consumed(n) ==
    IF nodePid[n] = NoPid THEN 0
    ELSE SumFunction([p \in Group(nodePid[n]) \ fresh |-> since[p]])

UpdateStats ==
    /\ cpu' = [n \in Nodes |-> Attributed(n)]
    /\ infos' = NewInfos
    /\ expected' = [n \in Nodes |-> Consumed(n)]
    /\ since' = [p \in Pids |-> 0]
    /\ fresh' = {}
    /\ seen' = alive
    /\ UNCHANGED <<alive, pgrp, utime, nodePid>>

-----------------------------------------------------------------------------

Init ==
    /\ alive = {}
    /\ pgrp = [p \in Pids |-> p]
    /\ utime = [p \in Pids |-> 0]
    /\ nodePid = [n \in Nodes |-> NoPid]
    /\ infos = [p \in Pids |-> NoSample]
    /\ cpu = [n \in Nodes |-> 0]
    /\ since = [p \in Pids |-> 0]
    /\ fresh = {}
    /\ seen = {}
    /\ expected = [n \in Nodes |-> 0]

Next ==
    \/ \E n \in Nodes, q \in Pids : StartNode(n, q)
    \/ \E n \in Nodes : LeaderExit(n)
    \/ \E p, q \in Pids : Fork(p, q)
    \/ \E p \in Pids : Exit(p) \/ Run(p)
    \/ UpdateStats

Spec == Init /\ [][Next]_vars

-----------------------------------------------------------------------------
(* Properties.                                                             *)

\* The type invariant; the attributed CPU time is never negative, which
\* rests on each delta being taken against an older sample of the same
\* process.
TypeOK ==
    /\ alive \in SUBSET Pids
    /\ pgrp \in [Pids -> Pids]
    /\ utime \in [Pids -> 0..MaxTicks]
    /\ nodePid \in [Nodes -> Pids \cup {NoPid}]
    /\ infos \in [Pids -> (0..MaxTicks) \cup {NoSample}]
    /\ cpu \in [Nodes -> Nat]
    /\ since \in [Pids -> 0..MaxTicks]
    /\ fresh \in SUBSET Pids
    /\ seen \in SUBSET Pids
    /\ expected \in [Nodes -> Nat]

\* The accounting of updateStats() is exact: the CPU ticks a scan
\* attributes to a node are the ticks that its process group consumed
\* since the previous scan, counted over the processes that already lived
\* at that scan (specification, section 4.2: "need two samples to form a
\* delta"; forks and exits between scans must neither leak samples nor
\* count twice).  Restarts of nodes, forks into the group, exits of the
\* leader and reuse of pids after a scan all interleave with the scans.
AttributionExact == \A n \in Nodes : cpu[n] = expected[n]

=============================================================================
