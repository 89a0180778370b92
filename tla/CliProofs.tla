----------------------------- MODULE CliProofs -----------------------------
(***************************************************************************)
(* Proofs about the command line of main() (Cli.tla), for every           *)
(* vocabulary of words and every bound on the number of words.             *)
(***************************************************************************)
EXTENDS Cli, SequenceTheorems, WellFoundedInduction, TLAPS

-----------------------------------------------------------------------------
(* The inductive invariant.                                                *)

\* Where main() stands in its phases: firstArg is computed only once the
\* options are done; while the launch arguments are checked, it is the
\* first launch argument of a non-empty list of positional words, one or
\* two words behind the first.
PhaseInv ==
    /\ pc \in {"opts", "positional"} => firstArg = 0
    /\ pc = "args" =>
         /\ nonOpts # <<>>
         /\ firstArg = FirstArg(nonOpts)
         /\ firstArg - 1 \in {1, 2}

IInv == TypeOK /\ PhaseInv /\ UsageRespected

-----------------------------------------------------------------------------
(* Lemmas about the operators.                                             *)

\* A non-empty set of naturals has a least element, and Min picks it.
LEMMA MinOfNats ==
    ASSUME NEW T \in SUBSET Nat, T # {}
    PROVE  Min(T) \in T /\ \A y \in T : Min(T) <= y
<1>1. PICK x \in T : \A y \in T : ~(<<y, x>> \in OpToRel(<, Nat))
  BY NatLessThanWellFounded, WFMin
<1>2. \A y \in T : <<y, x>> \in OpToRel(<, Nat) <=> y < x
  BY DEF OpToRel
<1>3. \A y \in T : x <= y
  <2> SUFFICES ASSUME NEW y \in T PROVE x <= y
    OBVIOUS
  <2>1. ~(y < x)
    BY <1>1, <1>2
  <2>2. x \in Nat /\ y \in Nat
    OBVIOUS
  <2>3. QED
    BY <2>1, <2>2
<1>4. QED
  BY <1>3 DEF Min

\* FirstArg(ps) is one past the launch file: every word after the first
\* and before it is no launch argument, and it is a launch argument
\* unless it lies past the end.
LEMMA FirstArgSpec ==
    ASSUME NEW ps \in Seq(Words), ps # <<>>
    PROVE  /\ FirstArg(ps) \in 2..(Len(ps) + 1)
           /\ \A m \in 2..(FirstArg(ps) - 1) : ps[m] \notin ArgWords
           /\ FirstArg(ps) <= Len(ps) => ps[FirstArg(ps)] \in ArgWords
<1> DEFINE I == ArgIndices(ps, 2)
<1>1. I \in SUBSET Nat
  BY DEF ArgIndices
<1>2. CASE I = {}
  <2>1. FirstArg(ps) = Len(ps) + 1
    BY <1>2 DEF FirstArg
  <2>2. \A m \in 2..Len(ps) : ps[m] \notin ArgWords
    BY <1>2 DEF ArgIndices
  <2>3. QED
    BY <2>1, <2>2
<1>3. CASE I # {}
  <2>1. Min(I) \in I /\ \A y \in I : Min(I) <= y
    BY <1>1, <1>3, MinOfNats
  <2>2. FirstArg(ps) = Min(I)
    BY <1>3 DEF FirstArg
  <2>3. \A m \in 2..(Min(I) - 1) : ps[m] \notin ArgWords
    BY <2>1 DEF ArgIndices
  <2>4. ps[Min(I)] \in ArgWords /\ Min(I) \in 2..Len(ps)
    BY <2>1 DEF ArgIndices
  <2>5. QED
    BY <2>2, <2>3, <2>4
<1>4. QED
  BY <1>2, <1>3

\* The usage line holds of the positional words exactly when one or two
\* words precede the first launch argument and no word after it is a
\* plain word.
LEMMA UsageByFirstArg ==
    ASSUME NEW ps \in Seq(Words), ps # <<>>
    PROVE  UsageOK(ps) <=>
             /\ FirstArg(ps) - 1 \in {1, 2}
             /\ \A m \in FirstArg(ps)..Len(ps) : ps[m] \in ArgWords
<1> DEFINE f == FirstArg(ps)
<1>1. /\ f \in 2..(Len(ps) + 1)
      /\ \A m \in 2..(f - 1) : ps[m] \notin ArgWords
      /\ f <= Len(ps) => ps[f] \in ArgWords
  BY FirstArgSpec
<1>2. ASSUME NEW k \in {1, 2}, k <= Len(ps),
             \A m \in 2..k : ps[m] \notin ArgWords,
             \A m \in (k + 1)..Len(ps) : ps[m] \in ArgWords
      PROVE  f = k + 1
  BY <1>1, <1>2
<1>3. QED
  BY <1>1, <1>2 DEF UsageOK

\* The command lines of at most n words are sequences of words.
LEMMA SeqOfIsSeq ==
    ASSUME NEW S, NEW n \in Nat
    PROVE  SeqOf(S, n) \subseteq Seq(S)
  BY DEF SeqOf

-----------------------------------------------------------------------------
(* The proof.                                                              *)

\* The initial state satisfies the inductive invariant.
LEMMA InitIInv == Init => IInv
<1> SUFFICES ASSUME Init PROVE IInv
  OBVIOUS
<1>1. argv \in Seq(Words)
  BY MaxArgsAssumption, SeqOfIsSeq DEF Init
<1>2. TypeOK
  <2>1. optind \in 1..(Len(argv) + 2)
    BY <1>1 DEF Init
  <2>2. nonOpts \in Seq(Words)
    BY DEF Init
  <2>3. stopTimeout \in Nat /\ firstArg \in Nat
    BY DEF Init, DefaultStopTimeout
  <2>4. lastRespawn \in RespawnValues \cup {"none"}
    BY DEF Init
  <2>5. QED
    BY <1>1, <2>1, <2>2, <2>3, <2>4, Zenon DEF Init, TypeOK
<1>3. PhaseInv /\ UsageRespected
  BY DEF Init, PhaseInv, UsageRespected
<1>4. QED
  BY <1>2, <1>3 DEF IInv

\* A step of the options loop keeps PhaseInv and UsageRespected as long
\* as it leaves pc in "opts" or goes to "exit", and leaves firstArg alone.
LEMMA OptionsPhase ==
    ASSUME IInv, pc = "opts", pc' \in {"opts", "exit"}, firstArg' = firstArg
    PROVE  PhaseInv' /\ UsageRespected'
  BY DEF IInv, PhaseInv, UsageRespected

\* The settings the option steps may change keep their types.
LEMMA OptionStepIInv ==
    ASSUME IInv,
           \/ NonOption \/ UnknownOption \/ FlagOption
           \/ StopTimeoutOption \/ RespawnOption
    PROVE  IInv'
<1> USE DEF IInv, TypeOK
<1>1. /\ pc = "opts" /\ pc' \in {"opts", "exit"} /\ firstArg' = firstArg
      /\ exitCode' \in {0, 1}
  BY DEF NonOption, UnknownOption, FlagOption, StopTimeoutOption,
         RespawnOption, Exit
<1>2. PhaseInv' /\ UsageRespected'
  BY <1>1, OptionsPhase
<1>3. argv' \in Seq(Words) /\ optind' \in 1..(Len(argv') + 2)
  BY DEF NonOption, UnknownOption, FlagOption, StopTimeoutOption, RespawnOption
<1>4. nonOpts' \in Seq(Words)
  <2>1. CASE NonOption
    BY <2>1, AppendProperties DEF NonOption
  <2>2. CASE ~NonOption
    BY <2>2 DEF UnknownOption, FlagOption, StopTimeoutOption, RespawnOption
  <2>3. QED
    BY <2>1, <2>2
<1>5. stopTimeout' \in Nat
  <2>1. CASE StopTimeoutOption
    <3> DEFINE v == argv[optind + 1]
    <3>1. CASE v \in Numeric /\ NumValue[v] >= 0
      <4>1. stopTimeout' = NumValue[v]
        BY <2>1, <3>1 DEF StopTimeoutOption
      <4>2. NumValue[v] \in Int
        BY <3>1, WordsAssumption
      <4>3. QED
        BY <3>1, <4>1, <4>2
    <3>2. CASE ~(v \in Numeric /\ NumValue[v] >= 0)
      BY <2>1, <3>2 DEF StopTimeoutOption
    <3>3. QED
      BY <3>1, <3>2
  <2>2. CASE NonOption \/ UnknownOption \/ FlagOption \/ RespawnOption
    <3>1. CASE NonOption
      BY <3>1 DEF NonOption, settings
    <3>2. CASE UnknownOption
      BY <3>2 DEF UnknownOption, settings
    <3>3. CASE FlagOption
      BY <3>3 DEF FlagOption
    <3>4. CASE RespawnOption
      BY <3>4 DEF RespawnOption
    <3>5. QED
      BY <2>2, <3>1, <3>2, <3>3, <3>4
  <2>3. QED
    BY <2>1, <2>2
<1>6. /\ startNodes' \in BOOLEAN
      /\ respawnAll' \in BOOLEAN /\ respawnObey' \in BOOLEAN
      /\ respawnDefault' \in BOOLEAN
      /\ lastRespawn' \in RespawnValues \cup {"none"}
  <2>1. CASE NonOption
    BY <2>1 DEF NonOption, settings
  <2>2. CASE UnknownOption
    BY <2>2 DEF UnknownOption, settings
  <2>3. CASE FlagOption
    <3>1. CASE argv[optind] = "-h"
      BY <2>3, <3>1 DEF FlagOption, Exit
    <3>2. CASE argv[optind] # "-h"
      BY <2>3, <3>2 DEF FlagOption
    <3>3. QED
      BY <3>1, <3>2
  <2>4. CASE StopTimeoutOption
    BY <2>4 DEF StopTimeoutOption
  <2>5. CASE RespawnOption
    <3> DEFINE v == argv[optind + 1]
    <3>1. CASE v \in {"force_true", "force_false"}
      BY <2>5, <3>1, Zenon DEF RespawnOption, RespawnValues
    <3>2. CASE v \in {"obey_default_true", "obey_default_false"}
      BY <2>5, <3>2, Zenon DEF RespawnOption, RespawnValues
    <3>3. CASE v \notin RespawnValues
      BY <2>5, <3>3 DEF RespawnOption, RespawnValues, Exit
    <3>4. QED
      BY <3>1, <3>2, <3>3 DEF RespawnValues
  <2>6. QED
    BY <2>1, <2>2, <2>3, <2>4, <2>5
<1>7. QED
  BY <1>1, <1>2, <1>3, <1>4, <1>5, <1>6, Zenon

\* The steps after the options loop change only the non-options, the
\* phase, the exit code and firstArg; they keep TypeOK when these stay in
\* their types.
LEMMA FrameTypeOK ==
    ASSUME TypeOK,
           UNCHANGED <<argv, optind, settings, lastRespawn>>,
           nonOpts' \in Seq(Words),
           pc' \in {"opts", "positional", "args", "launch", "exit"},
           exitCode' \in {0, 1}, firstArg' \in Nat
    PROVE  TypeOK'
<1>1. /\ startNodes' = startNodes /\ stopTimeout' = stopTimeout
      /\ respawnAll' = respawnAll /\ respawnObey' = respawnObey
      /\ respawnDefault' = respawnDefault
  BY DEF settings
<1>2. QED
  BY <1>1, Zenon DEF TypeOK

\* The end of the options: the non-options behind "--" are appended.
LEMMA OptionsEndIInv == IInv /\ OptionsEnd => IInv'
<1> SUFFICES ASSUME IInv, OptionsEnd PROVE IInv'
  OBVIOUS
<1> USE DEF IInv
<1>1. nonOpts' \in Seq(Words)
  <2>1. CASE optind > Len(argv)
    BY <2>1 DEF OptionsEnd, TypeOK
  <2>2. CASE optind <= Len(argv) /\ argv[optind] = "--"
    <3>1. SubSeq(argv, optind + 1, Len(argv)) \in Seq(Words)
      BY SubSeqProperties DEF TypeOK
    <3>2. QED
      BY <2>2, <3>1, ConcatProperties DEF OptionsEnd, TypeOK
  <2>3. QED
    BY <2>1, <2>2 DEF OptionsEnd
<1>2. pc' = "positional" /\ exitCode' = exitCode /\ firstArg' = 0
  BY DEF OptionsEnd, PhaseInv
<1>3. TypeOK'
  BY <1>1, <1>2, FrameTypeOK DEF OptionsEnd, TypeOK
<1>4. QED
  BY <1>2, <1>3 DEF PhaseInv, UsageRespected

\* The classification of the positional words.
LEMMA PositionalIInv == IInv /\ Positional => IInv'
<1> SUFFICES ASSUME IInv, Positional PROVE IInv'
  OBVIOUS
<1> USE DEF IInv
<1>1. /\ pc = "positional" /\ firstArg = 0
      /\ UNCHANGED <<argv, optind, nonOpts, settings, lastRespawn>>
      /\ pc' \in {"args", "exit"}
      /\ pc' = "args" => exitCode' = exitCode
      /\ pc' = "exit" => exitCode' = 1
  BY DEF Positional, PhaseInv, Exit
<1>2. CASE nonOpts = <<>>
  <2>1. pc' = "exit" /\ firstArg' = 0
    BY <1>1, <1>2 DEF Positional, Exit
  <2>2. TypeOK'
    BY <1>1, <2>1, FrameTypeOK DEF TypeOK
  <2>3. QED
    BY <1>1, <2>1, <2>2 DEF PhaseInv, UsageRespected
<1>3. CASE nonOpts # <<>>
  <2> DEFINE f == FirstArg(nonOpts)
  <2>1. f \in 2..(Len(nonOpts) + 1)
    BY <1>3, FirstArgSpec DEF TypeOK
  <2>2. UsageOK(nonOpts) => f - 1 \in {1, 2}
    BY <1>3, UsageByFirstArg DEF TypeOK
  <2>3. firstArg' = f
    BY <1>3 DEF Positional
  <2>4. /\ pc' = "args" => f - 1 \in {1, 2}
        /\ pc' = "exit" => f - 1 = 2 \/ f - 1 \notin {1, 2}
    BY <1>3, <2>3 DEF Positional, Exit
  <2>5. TypeOK'
    BY <1>1, <2>1, <2>3, FrameTypeOK DEF TypeOK
  <2>6. PhaseInv'
    BY <1>1, <1>3, <2>3, <2>4 DEF PhaseInv
  <2>7. UsageRespected'
    BY <1>1, <2>2, <2>3, <2>4 DEF UsageRespected
  <2>8. QED
    BY <2>5, <2>6, <2>7
<1>4. QED
  BY <1>2, <1>3

\* The check of the launch arguments.
LEMMA LaunchArgsIInv == IInv /\ LaunchArgs => IInv'
<1> SUFFICES ASSUME IInv, LaunchArgs PROVE IInv'
  OBVIOUS
<1> USE DEF IInv
<1>1. /\ pc = "args"
      /\ UNCHANGED <<argv, optind, nonOpts, settings, firstArg, lastRespawn>>
      /\ pc' \in {"launch", "exit"}
      /\ pc' = "launch" => exitCode' = exitCode
      /\ pc' = "exit" => exitCode' = 1
  BY DEF LaunchArgs, Exit
<1>2. UsageOK(nonOpts) <=>
        \A k \in firstArg..Len(nonOpts) : nonOpts[k] \in ArgWords
  BY <1>1, UsageByFirstArg DEF PhaseInv, TypeOK
<1>3. /\ pc' = "launch" => UsageOK(nonOpts)
      /\ pc' = "exit" => ~UsageOK(nonOpts)
  BY <1>1, <1>2 DEF LaunchArgs, Exit
<1>4. TypeOK'
  BY <1>1, FrameTypeOK DEF TypeOK
<1>5. QED
  BY <1>1, <1>3, <1>4 DEF PhaseInv, UsageRespected

\* Every step keeps IInv.
LEMMA NextIInv == IInv /\ [Next]_vars => IInv'
<1> SUFFICES ASSUME IInv, [Next]_vars PROVE IInv'
  OBVIOUS
<1>1. CASE UNCHANGED vars
  BY <1>1 DEF vars, settings, IInv, TypeOK, PhaseInv, UsageRespected
<1>2. QED
  BY <1>1, OptionStepIInv, OptionsEndIInv, PositionalIInv, LaunchArgsIInv DEF Next

\* main() follows its usage line on every command line of every length over
\* every vocabulary: it launches only "[options] package file [args]" or
\* "[options] path [args]", and refuses such a line only at the lookup of
\* a package and its file.
THEOREM UsageRespectedInvariant == Spec => []UsageRespected
<1>1. IInv => UsageRespected
  BY DEF IInv
<1>2. QED
  BY <1>1, InitIInv, NextIInv, PTL DEF Spec

\* The command line keeps its types, and the stop timeout handed to the
\* launch config is never negative whatever --stop-timeout says.
THEOREM TypeCorrect == Spec => []TypeOK
<1>1. IInv => TypeOK
  BY DEF IInv
<1>2. QED
  BY <1>1, InitIInv, NextIInv, PTL DEF Spec

=============================================================================
