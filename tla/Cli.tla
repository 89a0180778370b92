-------------------------------- MODULE Cli --------------------------------
(***************************************************************************)
(* The command line of rosmon: the getopt_long() loop of main() in         *)
(* src/rosmon_core/src/main.cpp, the classification of the positional      *)
(* arguments into a launch file (a path, or a package and a file name)     *)
(* and the trailing name:=value launch arguments.                          *)
(*                                                                         *)
(* getopt_long() is modelled as GNU libc runs it by default: words that    *)
(* are not options are moved behind the options in their order ("permute" *)
(* mode), "--" ends the options, an option that needs an argument takes    *)
(* the next word whatever it is, and an unknown option or a missing        *)
(* argument returns '?', which the switch of main() ignores.  Words are    *)
(* abstract; the constants say which of them start with a dash, which      *)
(* contain ":=" and which lexical_cast<double> accepts, with what value.   *)
(* Only the options that influence the rest of the model are kept; the    *)
(* others only assign a setting and behave like --no-start.               *)
(***************************************************************************)
EXTENDS Integers, Sequences, SequencesExt

CONSTANTS
    Words,      \* the words argv may hold
    DashWords,  \* the words that start with '-' (and are not "-")
    ArgWords,   \* the words that contain ":="
    Numeric,    \* the words lexical_cast<double> accepts
    NumValue,   \* their values
    MaxArgs     \* bound on the number of words after argv[0]

ASSUME WordsAssumption ==
    /\ DashWords \subseteq Words /\ ArgWords \subseteq Words
    /\ Numeric \subseteq Words /\ NumValue \in [Numeric -> Int]
    /\ "--" \in DashWords
ASSUME MaxArgsAssumption == MaxArgs \in Nat

\* The long options of OPTIONS[] kept in the model, and "-h".
FlagOptions == {"-h", "--no-start"}
ValueOptions == {"--stop-timeout", "--respawn-attr"}
RespawnValues == {"force_true", "force_false", "obey_default_true", "obey_default_false"}

\* LaunchConfig::DEFAULT_STOP_TIMEOUT, which is not negative.
DefaultStopTimeout == 5

VARIABLES
    argv,        \* argv[1..argc-1]
    optind,      \* the next word getopt_long() looks at
    nonOpts,     \* the words getopt_long() has permuted behind the options
    pc,          \* "opts", "positional", "args", "launch" or "exit"
    exitCode,    \* what main() returns, once pc = "exit"
    startNodes,
    stopTimeout,
    respawnAll,
    respawnObey,
    respawnDefault,
    firstArg,    \* index into nonOpts of the first launch argument
    lastRespawn  \* history: the value of the last --respawn-attr, or "none"

vars == <<argv, optind, nonOpts, pc, exitCode, startNodes, stopTimeout,
          respawnAll, respawnObey, respawnDefault, firstArg, lastRespawn>>

settings == <<startNodes, stopTimeout, respawnAll, respawnObey, respawnDefault>>

-----------------------------------------------------------------------------

Init ==
    /\ argv \in SeqOf(Words, MaxArgs)
    /\ optind = 1
    /\ nonOpts = <<>>
    /\ pc = "opts"
    /\ exitCode = 0
    /\ startNodes = TRUE
    /\ stopTimeout = DefaultStopTimeout
    /\ respawnAll = FALSE
    /\ respawnObey = TRUE
    /\ respawnDefault = FALSE
    /\ firstArg = 0
    /\ lastRespawn = "none"

Exit(code) == pc' = "exit" /\ exitCode' = code

\* getopt_long() returns -1: every word has been looked at, or "--" ends
\* the options and the words behind it are non-options.
OptionsEnd ==
    /\ pc = "opts"
    /\ \/ /\ optind > Len(argv)
          /\ UNCHANGED nonOpts
       \/ /\ optind <= Len(argv) /\ argv[optind] = "--"
          /\ nonOpts' = nonOpts \o SubSeq(argv, optind + 1, Len(argv))
    /\ pc' = "positional"
    /\ UNCHANGED <<argv, optind, exitCode, settings, firstArg, lastRespawn>>

\* A word that is not an option is permuted behind the options.
NonOption ==
    /\ pc = "opts" /\ optind <= Len(argv)
    /\ argv[optind] \notin DashWords
    /\ nonOpts' = Append(nonOpts, argv[optind])
    /\ optind' = optind + 1
    /\ UNCHANGED <<argv, pc, exitCode, settings, firstArg, lastRespawn>>

\* An unknown option, or an option whose argument is missing: getopt_long()
\* returns '?' and the switch has no case for it.
UnknownOption ==
    /\ pc = "opts" /\ optind <= Len(argv)
    /\ LET w == argv[optind] IN
         /\ w \in DashWords \ {"--"}
         /\ w \notin FlagOptions
         /\ w \in ValueOptions => optind = Len(argv)
    /\ optind' = optind + 1
    /\ UNCHANGED <<argv, nonOpts, pc, exitCode, settings, firstArg, lastRespawn>>

\* case 'h': usage(); return 0.  case 'S': startNodes = false.
FlagOption ==
    /\ pc = "opts" /\ optind <= Len(argv)
    /\ argv[optind] \in FlagOptions
    /\ IF argv[optind] = "-h"
         THEN Exit(0) /\ UNCHANGED startNodes
         ELSE startNodes' = FALSE /\ UNCHANGED <<pc, exitCode>>
    /\ optind' = optind + 1
    /\ UNCHANGED <<argv, nonOpts, stopTimeout, respawnAll, respawnObey,
                   respawnDefault, firstArg, lastRespawn>>

\* Fault variant: the check for a negative stop timeout is missing.
StopTimeoutOptionNoSign ==
    /\ pc = "opts" /\ optind < Len(argv)
    /\ argv[optind] = "--stop-timeout"
    /\ LET v == argv[optind + 1] IN
         IF v \in Numeric
           THEN stopTimeout' = NumValue[v] /\ UNCHANGED <<pc, exitCode>>
           ELSE Exit(1) /\ UNCHANGED stopTimeout
    /\ optind' = optind + 2
    /\ UNCHANGED <<argv, nonOpts, startNodes, respawnAll, respawnObey,
                   respawnDefault, firstArg, lastRespawn>>

\* case 's': lexical_cast<double>(optarg), refused when it does not parse
\* or is negative.
StopTimeoutOption ==
    /\ pc = "opts" /\ optind < Len(argv)
    /\ argv[optind] = "--stop-timeout"
    /\ LET v == argv[optind + 1] IN
         IF v \in Numeric /\ NumValue[v] >= 0
           THEN stopTimeout' = NumValue[v] /\ UNCHANGED <<pc, exitCode>>
           ELSE Exit(1) /\ UNCHANGED stopTimeout
    /\ optind' = optind + 2
    /\ UNCHANGED <<argv, nonOpts, startNodes, respawnAll, respawnObey,
                   respawnDefault, firstArg, lastRespawn>>

\* case 'R': force_* sets respawnAll and clears respawnObey; obey_default_*
\* sets respawnDefault; anything else is refused.
RespawnOption ==
    /\ pc = "opts" /\ optind < Len(argv)
    /\ argv[optind] = "--respawn-attr"
    /\ LET v == argv[optind + 1] IN
         \/ /\ v \in {"force_true", "force_false"}
            /\ respawnAll' = (v = "force_true")
            /\ respawnObey' = FALSE
            /\ lastRespawn' = v
            /\ UNCHANGED <<pc, exitCode, respawnDefault>>
         \/ /\ v \in {"obey_default_true", "obey_default_false"}
            /\ respawnDefault' = (v = "obey_default_true")
            /\ lastRespawn' = v
            /\ UNCHANGED <<pc, exitCode, respawnAll, respawnObey>>
         \/ /\ v \notin RespawnValues
            /\ Exit(1)
            /\ UNCHANGED <<respawnAll, respawnObey, respawnDefault, lastRespawn>>
    /\ optind' = optind + 2
    /\ UNCHANGED <<argv, nonOpts, startNodes, stopTimeout, firstArg>>

-----------------------------------------------------------------------------
(* The positional arguments.                                               *)

\* The indices from i on of the words in ps that contain ":=".
ArgIndices(ps, i) == {k \in i..Len(ps) : ps[k] \in ArgWords}

\* Fault variant: the search for the first launch argument starting at the
\* launch file itself.
FirstArgFromStart(ps) ==
    IF ArgIndices(ps, 1) = {} THEN Len(ps) + 1 ELSE Min(ArgIndices(ps, 1))

\* "int firstArg = optind + 1; for(; firstArg < argc; ++firstArg) if
\* (strstr(argv[firstArg], ":=")) break;", as an index into ps.
FirstArg(ps) ==
    IF ArgIndices(ps, 2) = {} THEN Len(ps) + 1 ELSE Min(ArgIndices(ps, 2))

\* No positional word: usage, 1.  One word before the first launch
\* argument is a path; two are a package, whose lookup or whose launch
\* file may not be found, and a file; any other count is a usage error.
Positional ==
    /\ pc = "positional"
    /\ IF nonOpts = <<>>
         THEN Exit(1) /\ UNCHANGED firstArg
         ELSE /\ firstArg' = FirstArg(nonOpts)
              /\ \/ /\ firstArg' - 1 \in {1, 2}
                    /\ pc' = "args"
                    /\ UNCHANGED exitCode
                 \/ /\ firstArg' - 1 = 2
                    /\ Exit(1)
                 \/ /\ firstArg' - 1 \notin {1, 2}
                    /\ Exit(1)
    /\ UNCHANGED <<argv, optind, nonOpts, settings, lastRespawn>>

\* The loop over the launch arguments: a word without ":=" after them is
\* refused; then the launch goes on.
LaunchArgs ==
    /\ pc = "args"
    /\ IF \A k \in firstArg..Len(nonOpts) : nonOpts[k] \in ArgWords
         THEN pc' = "launch" /\ UNCHANGED exitCode
         ELSE Exit(1)
    /\ UNCHANGED <<argv, optind, nonOpts, settings, firstArg, lastRespawn>>

Next ==
    \/ OptionsEnd \/ NonOption \/ UnknownOption \/ FlagOption
    \/ StopTimeoutOption \/ RespawnOption
    \/ Positional \/ LaunchArgs

Spec == Init /\ [][Next]_vars

-----------------------------------------------------------------------------
(* Properties.                                                             *)

\* The respawn override that LaunchConfig::setRespawnBehaviour(all, obey,
\* default) gives the nodes: force all when obey is cleared, else the
\* launch file's attribute with the given default.
EffectivePolicy ==
    IF ~respawnObey
      THEN IF respawnAll THEN "force_true" ELSE "force_false"
      ELSE IF respawnDefault THEN "obey_default_true" ELSE "obey_default_false"

\* The usage line "rosmon [options] some_package file.launch [arg:=value
\* ...]" or "rosmon [options] path/to/file.launch [arg:=value ...]": one or
\* two words name the launch file, the second not an argument, and every
\* word after them is a name:=value argument.
UsageOK(ps) ==
    \E k \in {1, 2} :
        /\ k <= Len(ps)
        /\ \A m \in 2..k : ps[m] \notin ArgWords
        /\ \A m \in (k + 1)..Len(ps) : ps[m] \in ArgWords

\* The type invariant; the stop timeout handed to the launch config is
\* never negative, which rests on the check after lexical_cast<double>.
TypeOK ==
    /\ argv \in Seq(Words)
    /\ optind \in 1..(Len(argv) + 2)
    /\ nonOpts \in Seq(Words)
    /\ pc \in {"opts", "positional", "args", "launch", "exit"}
    /\ exitCode \in {0, 1}
    /\ startNodes \in BOOLEAN
    /\ stopTimeout \in Nat
    /\ respawnAll \in BOOLEAN /\ respawnObey \in BOOLEAN /\ respawnDefault \in BOOLEAN
    /\ firstArg \in Nat
    /\ lastRespawn \in RespawnValues \cup {"none"}

\* main() follows its usage line, whatever the options and wherever
\* getopt_long() found the non-options: it launches only a command line
\* of that form, and the only positional words of that form it refuses
\* are a package and a file name (the package or its launch file may not
\* be found).  This is about the index arithmetic of firstArg against
\* optind and the permutation of the words.
UsageRespected ==
    /\ pc = "launch" => UsageOK(nonOpts)
    /\ (pc = "exit" /\ firstArg # 0 /\ UsageOK(nonOpts)) => firstArg = 3

\* The specification lists one respawn override policy (force-true,
\* force-false, obey-default-true, obey-default-false); like every other
\* option, the last --respawn-attr given is the one that holds.
RespawnLastWins ==
    (pc = "launch" /\ lastRespawn # "none") => EffectivePolicy = lastRespawn

=============================================================================
