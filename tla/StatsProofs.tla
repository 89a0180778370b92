---------------------------- MODULE StatsProofs ----------------------------
(***************************************************************************)
(* Proofs about the accounting of Monitor::updateStats() (Stats.tla), for  *)
(* every finite set of pids, every set of nodes and every tick bound, when *)
(* the OS does not hand out a pid again within one scan interval.          *)
(***************************************************************************)
EXTENDS Stats, FiniteSetTheorems, WellFoundedInduction, TLAPS

-----------------------------------------------------------------------------
(* The inductive invariant.                                                *)

\* The variables in the types the proof needs; the attributed times are
\* sums, whose range TLC checks (TypeOK).
TypeInv ==
    /\ alive \in SUBSET Pids
    /\ pgrp \in [Pids -> Pids]
    /\ utime \in [Pids -> Nat]
    /\ nodePid \in [Nodes -> Pids \cup {NoPid}]
    /\ infos \in [Pids -> Int]
    /\ since \in [Pids -> Int]
    /\ fresh \in SUBSET Pids
    /\ seen \in SUBSET Pids

\* A sample in m_processInfos was taken by the last scan, of a process that
\* existed then, and it lags the process's ticks by exactly what the
\* process consumed since.
SampleInv ==
    \A p \in Pids : infos[p] # NoSample =>
        /\ p \in seen
        /\ p \notin fresh
        /\ utime[p] - infos[p] = since[p]

\* A live process that already existed at the last scan and belongs to a
\* node's group has a sample: its group led a node at that scan as well,
\* because no node can start under a pid that is still a live group id.
GroupSampled ==
    \A p \in alive \ fresh : pgrp[p] \in NodeMapKeys => infos[p] # NoSample

IInv == TypeInv /\ SampleInv /\ GroupSampled /\ AttributionExact

\* A process has consumed no more since the last scan than in its life.
SinceBound == \A p \in Pids : since[p] <= utime[p]

\* The strengthening that gives the type invariant.
TInv == IInv /\ TypeOK /\ SinceBound

-----------------------------------------------------------------------------
(* A lemma about SumFunction.                                              *)

\* A sum of naturals over a finite set is a natural.  The fold of
\* SumFunction is a function on the subsets of its domain, defined by
\* recursion on the strict-subset order (well-founded on a finite set);
\* WFInductiveDef gives its unfolding equation, and a least subset on
\* which it were not a natural would have a natural sum on the smaller
\* subset left after removing the chosen element.
LEMMA SumFunctionNat ==
    ASSUME NEW D, IsFiniteSet(D), NEW fn \in [D -> Nat]
    PROVE  SumFunction(fn) \in Nat
<1> DEFINE Def(g, s) == IF s = {} THEN 0
                        ELSE LET x == CHOOSE x \in s : TRUE IN fn[x] + g[s \ {x}]
           iter == CHOOSE g : g = [s \in SUBSET D |-> Def(g, s)]
           R == StrictSubsetOrdering(D)
<1>1. IsWellFoundedOn(R, SUBSET D)
  BY FS_StrictSubsetOrderingWellFounded, FS_FiniteSubsetsOfFinite
<1>2. ASSUME NEW s \in SUBSET D, s # {}
      PROVE  /\ (CHOOSE x \in s : TRUE) \in s
             /\ s \ {CHOOSE x \in s : TRUE} \in SetLessThan(s, R, SUBSET D)
  <2>1. (CHOOSE x \in s : TRUE) \in s
    BY <1>2
  <2>2. QED
    BY <2>1 DEF SetLessThan, StrictSubsetOrdering
<1>3. WFDefOn(R, SUBSET D, Def)
  <2> SUFFICES ASSUME NEW g, NEW h, NEW s \in SUBSET D,
                      \A y \in SetLessThan(s, R, SUBSET D) : g[y] = h[y]
               PROVE  Def(g, s) = Def(h, s)
    BY DEF WFDefOn
  <2>1. CASE s = {}
    BY <2>1
  <2>2. CASE s # {}
    <3> DEFINE x == CHOOSE x \in s : TRUE
    <3>1. g[s \ {x}] = h[s \ {x}]
      BY <2>2, <1>2
    <3>2. QED
      BY <2>2, <3>1
  <2>3. QED
    BY <2>1, <2>2
<1>4. OpDefinesFcn(iter, SUBSET D, Def)
  BY DEF OpDefinesFcn
<1>5. iter = [s \in SUBSET D |-> Def(iter, s)]
  <2> HIDE DEF Def, iter
  <2>1. WFInductiveDefines(iter, SUBSET D, Def)
    BY <1>1, <1>3, <1>4, WFInductiveDef
  <2>2. QED
    BY <2>1 DEF WFInductiveDefines
<1> HIDE DEF iter
<1>6. iter \in [SUBSET D -> Nat]
  <2> DEFINE Bad == {s \in SUBSET D : iter[s] \notin Nat}
  <2>1. SUFFICES Bad = {}
    BY <1>5
  <2>2. SUFFICES ASSUME Bad # {} PROVE FALSE
    OBVIOUS
  <2>3. PICK s \in Bad : \A y \in Bad : ~(<<y, s>> \in R)
    BY <1>1, <2>2, WFMin
  <2>4. s # {}
    BY <1>5, <2>3
  <2> DEFINE x == CHOOSE x \in s : TRUE
  <2>5. x \in D /\ s \ {x} \in SetLessThan(s, R, SUBSET D)
    BY <2>4, <1>2
  <2>6. iter[s \ {x}] \in Nat
    BY <2>3, <2>5 DEF SetLessThan
  <2>7. iter[s] = fn[x] + iter[s \ {x}]
    BY <1>5, <2>4
  <2>8. QED
    BY <2>3, <2>5, <2>6, <2>7
<1>7. SumFunction(fn) = iter[D]
  BY DEF iter, SumFunction, SumFunctionOnSet, FoldFunctionOnSet, MapThenFoldSet
<1>8. QED
  BY <1>6, <1>7

-----------------------------------------------------------------------------
(* The proof.                                                              *)

\* The constants as the proof needs them: pids are positive, so that no
\* pid is NoPid or NoSample.
LEMMA PidsPositive == \A p \in Pids : p # NoPid /\ p \in Nat
  BY PidsAssumption DEF NoPid

\* The initial state satisfies the inductive invariant.
LEMMA InitIInv == Init => IInv
  BY PidsAssumption
  DEF Init, IInv, TypeInv, SampleInv, GroupSampled, AttributionExact, NoSample, NoPid

\* Under the invariant, a scan of a node's group sums, over the processes
\* with a sample, exactly the ticks the group's older processes consumed.
LEMMA AttributedIsConsumed ==
    ASSUME IInv, NEW n \in Nodes
    PROVE  Attributed(n) = Consumed(n)
<1>1. CASE nodePid[n] = NoPid
  BY <1>1 DEF Attributed, Consumed
<1>2. CASE nodePid[n] # NoPid
  <2> DEFINE g == nodePid[n]
  <2>1. g \in NodeMapKeys
    BY <1>2 DEF NodeMapKeys
  <2>2. Sampled(g) = Group(g) \ fresh
    BY <2>1 DEF IInv, TypeInv, SampleInv, GroupSampled, Sampled, Group
  <2>3. \A p \in Sampled(g) : utime[p] - infos[p] = since[p]
    BY DEF IInv, TypeInv, SampleInv, Sampled, Group
  <2>4. [p \in Sampled(g) |-> utime[p] - infos[p]]
          = [p \in Group(g) \ fresh |-> since[p]]
    BY <2>2, <2>3
  <2>5. QED
    BY <1>2, <2>4 DEF Attributed, Consumed
<1>3. QED
  BY <1>1, <1>2

\* Without pid reuse within a scan interval, every step keeps IInv.
LEMMA NextIInv ==
    ASSUME ~Recycle
    PROVE  IInv /\ [Next]_vars => IInv'
<1> SUFFICES ASSUME IInv, [Next]_vars PROVE IInv'
  OBVIOUS
<1> USE PidsPositive DEF IInv, TypeInv, SampleInv, GroupSampled,
                         AttributionExact, NoSample, NoPid, ghostVars
<1>1. ASSUME NEW n \in Nodes, NEW q \in Pids, StartNode(n, q) PROVE IInv'
  <2>1. infos[q] = NoSample
    BY <1>1 DEF StartNode, FreePid
  <2>2. NodeMapKeys' \subseteq NodeMapKeys \cup {q}
    BY <1>1 DEF StartNode, NodeMapKeys
  <2>3. GroupSampled'
    BY <1>1, <2>2 DEF StartNode, FreePid
  <2>4. QED
    BY <1>1, <2>1, <2>3 DEF StartNode
<1>2. ASSUME NEW n \in Nodes, LeaderExit(n) PROVE IInv'
  <2>1. NodeMapKeys' \subseteq NodeMapKeys
    BY <1>2 DEF LeaderExit, NodeMapKeys
  <2>2. QED
    BY <1>2, <2>1 DEF LeaderExit
<1>3. ASSUME NEW p \in Pids, NEW q \in Pids, Fork(p, q) PROVE IInv'
  <2>1. infos[q] = NoSample
    BY <1>3 DEF Fork, FreePid
  <2>2. QED
    BY <1>3, <2>1 DEF Fork, NodeMapKeys
<1>4. ASSUME NEW p \in Pids, Exit(p) PROVE IInv'
  BY <1>4 DEF Exit, NodeMapKeys
<1>5. ASSUME NEW p \in Pids, Run(p) PROVE IInv'
  BY <1>5 DEF Run, NodeMapKeys
<1>6. CASE UpdateStats
  <2>1. AttributionExact'
    BY <1>6, AttributedIsConsumed DEF UpdateStats
  <2>2. SampleInv'
    BY <1>6 DEF UpdateStats, NewInfos, Matched
  <2>3. GroupSampled'
    BY <1>6 DEF UpdateStats, NewInfos, Matched, NodeMapKeys
  <2>4. TypeInv'
    BY <1>6 DEF UpdateStats, NewInfos
  <2>5. QED
    BY <2>1, <2>2, <2>3, <2>4
<1>7. CASE UNCHANGED vars
  BY <1>7 DEF vars, NodeMapKeys
<1>8. QED
  BY <1>1, <1>2, <1>3, <1>4, <1>5, <1>6, <1>7 DEF Next

\* updateStats() charges every node exactly the ticks its process group
\* consumed since the previous scan, whatever forks, exits, restarts and
\* pid reuse after a scan interleave with the scans, as long as no pid is
\* handed out twice within one scan interval.
THEOREM AttributionCorrect == ~Recycle => (Spec => []AttributionExact)
<1> SUFFICES ASSUME ~Recycle PROVE Spec => []AttributionExact
  OBVIOUS
<1>1. IInv => AttributionExact
  BY DEF IInv
<1>2. QED
  BY <1>1, InitIInv, NextIInv, PTL DEF Spec


-----------------------------------------------------------------------------
(* The type invariant.                                                     *)

\* Under TInv, the ticks a node's group consumed since the last scan are a
\* natural number.
LEMMA ConsumedNat ==
    ASSUME TInv, NEW n \in Nodes
    PROVE  Consumed(n) \in Nat
<1>1. CASE nodePid[n] = NoPid
  BY <1>1 DEF Consumed
<1>2. CASE nodePid[n] # NoPid
  <2> DEFINE D == Group(nodePid[n]) \ fresh
  <2>1. IsFiniteSet(D)
    BY PidsAssumption, FS_Subset DEF TInv, TypeOK, Group
  <2>2. [p \in D |-> since[p]] \in [D -> Nat]
    BY DEF TInv, TypeOK, Group
  <2>3. QED
    BY <1>2, <2>1, <2>2, SumFunctionNat DEF Consumed
<1>3. QED
  BY <1>1, <1>2

\* The initial state satisfies TInv.
LEMMA InitTInv == Init => TInv
<1> SUFFICES ASSUME Init PROVE TInv
  OBVIOUS
<1>1. IInv
  BY InitIInv
<1>2. TypeOK /\ SinceBound
  BY PidsAssumption, MaxTicksAssumption
  DEF Init, TypeOK, SinceBound, NoSample, NoPid
<1>3. QED
  BY <1>1, <1>2 DEF TInv

\* Without pid reuse within a scan interval, every step keeps TInv.
LEMMA NextTInv ==
    ASSUME ~Recycle
    PROVE  TInv /\ [Next]_vars => TInv'
<1> SUFFICES ASSUME TInv, [Next]_vars PROVE TInv'
  OBVIOUS
<1>1. IInv'
  BY NextIInv DEF TInv
<1> USE PidsPositive, MaxTicksAssumption DEF TInv, TypeOK, SinceBound, NoSample, NoPid
<1>2. ASSUME NEW n \in Nodes, NEW q \in Pids, StartNode(n, q)
      PROVE  TypeOK' /\ SinceBound'
  BY <1>2 DEF StartNode
<1>3. ASSUME NEW n \in Nodes, LeaderExit(n) PROVE TypeOK' /\ SinceBound'
  BY <1>3 DEF LeaderExit, ghostVars
<1>4. ASSUME NEW p \in Pids, NEW q \in Pids, Fork(p, q)
      PROVE  TypeOK' /\ SinceBound'
  BY <1>4 DEF Fork
<1>5. ASSUME NEW p \in Pids, Exit(p) PROVE TypeOK' /\ SinceBound'
  BY <1>5 DEF Exit, ghostVars
<1>6. ASSUME NEW p \in Pids, Run(p) PROVE TypeOK' /\ SinceBound'
  BY <1>6 DEF Run
<1>7. CASE UpdateStats
  <2>1. ASSUME NEW n \in Nodes PROVE Attributed(n) \in Nat /\ Consumed(n) \in Nat
    <3>1. Consumed(n) \in Nat
      BY ConsumedNat
    <3>2. Attributed(n) = Consumed(n)
      BY AttributedIsConsumed DEF TInv
    <3>3. QED
      BY <3>1, <3>2
  <2>2. cpu' \in [Nodes -> Nat] /\ expected' \in [Nodes -> Nat]
    BY <1>7, <2>1 DEF UpdateStats
  <2>3. infos' \in [Pids -> (0..MaxTicks) \cup {NoSample}]
    BY <1>7 DEF UpdateStats, NewInfos
  <2>4. since' \in [Pids -> 0..MaxTicks] /\ SinceBound'
    BY <1>7 DEF UpdateStats
  <2>5. seen' \in SUBSET Pids /\ fresh' \in SUBSET Pids
    BY <1>7 DEF UpdateStats
  <2>6. QED
    BY <1>1, <1>7, <2>2, <2>3, <2>4, <2>5 DEF UpdateStats
<1>8. CASE UNCHANGED vars
  BY <1>1, <1>8 DEF vars
<1>9. QED
  BY <1>1, <1>2, <1>3, <1>4, <1>5, <1>6, <1>7, <1>8 DEF Next

\* As long as no pid is handed out twice within one scan interval, the
\* accounting state keeps its types: in particular the CPU time a scan
\* attributes to a node is never negative, since every delta is taken
\* against an older sample of the same process.
THEOREM TypeCorrect == ~Recycle => (Spec => []TypeOK)
<1> SUFFICES ASSUME ~Recycle PROVE Spec => []TypeOK
  OBVIOUS
<1>1. TInv => TypeOK
  BY DEF TInv
<1>2. QED
  BY <1>1, InitTInv, NextTInv, PTL DEF Spec

=============================================================================
