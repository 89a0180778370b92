# TLA+ models of rosmon

This directory holds TLA+ models of the process supervisor rosmon
(`src/rosmon_core/src`). Each model comes with TLC configurations that check
it on small instances and TLAPS proofs that hold
for every configuration.

## The system and its parts

rosmon reads a launch file and then starts and watches one child process per
node. Everything runs on one thread in `main()` (`main.cpp`):

- `monitor::Monitor` (`monitor/monitor.cpp`) owns one `NodeMonitor` per node.
- The main loop alternates `ros::spinOnce()` with `FDWatcher::wait()`:
  - ROS timers (respawn, stats) and the start/stop service fire in `spinOnce`;
  - child EOF/exit handling fires in `wait`.
- The main loop runs while `ros::ok() && monitor.ok() && !g_shouldStop`. A
  signal handler sets `g_shouldStop`. An exit of a required node clears
  `m_ok` (`handleRequiredNodeExit`).
- On leaving the loop, `main()` does the following:
  - calls `Monitor::shutdown()`, which sends SIGINT to running nodes;
  - waits up to `shutdownTimeout()`, the largest stop timeout;
  - SIGKILLs with `forceExit()` whatever still runs;
  - waits until `allShutdown()`.
- A 1 s timer runs `Monitor::updateStats()`. It scans `/proc` and attributes
  CPU ticks to nodes by process group, using per-pid samples.
- `Terminal::Parser` (`terminal.cpp`) follows the SGR escape sequences in a
  node's output and re-applies its colours. `Terminal::readKey` decodes
  function keys for the UI. The `Terminal` constructor chooses the colour
  mode (ANSI, 256 colours, true colour) in which colours are rendered.
- `main()` starts the nodes, builds the UI and the ROS interface, and only
  then installs `handleSignal` for SIGINT, SIGHUP and SIGTERM.
- The command line is parsed by `getopt_long` and by the positional-argument
  logic of `main()`.

`NodeMonitor`, `FDWatcher`, `LaunchConfig` and `ROSInterface`'s
implementation are not under `src/`. Where the model needs them, they are
modelled from the specification (`spec.md`, section 4.1). PROJECT.json marks
those definitions `spec_modelled`.

## Modules

| Module | Models | State | Actions |
|---|---|---|---|
| `Monitor` | Monitor + `main()` from `monitor.start()` on + NodeMonitor life cycle | node state, OS process state (alive / exited-unreaped / none), signal sent, `m_ok`, `g_shouldStop`, `ros::ok()`, main-thread pc, elapsed graceful time, exit notifications | Launch, InstallHandlers, LoopIterate, LeaveLoop, EndSpin, EndWait, Tick, EndGrace, Finish (main thread); RespawnNode, ServiceStart, ServiceStop, HandleExit (callbacks); ChildExit, handleSignal, SignalBeforeHandlers, RosShutdown (environment) |
| `NodeLifecycle` | what the supervision core promises (spec 4.1, 4.2, 7), without processes, signals or clocks | node life-cycle state, session phase, health, stop request | Start, Stop, Exit, RequestStop, BeginShutdown, End |
| `Stats` | `Monitor::updateStats` against a Linux process table | live pids, pgrp, utime, node pids, `m_processInfos`, attributed CPU; ghost ticks since the last scan | StartNode, LeaderExit, Fork, Exit, Run (OS), UpdateStats |
| `SgrParser` | `Terminal::Parser` | `m_state`, `m_buf`, fg, bg, bold | Parse(c); `ApplyOutput` is the pure effect of `apply()` |
| `KeyReader` | `Terminal::readKey` | `m_currentEscapeStr`, last result, ghost recent bytes | ReadKey(c), ReadFails |
| `TerminalColors` | colour mode of the `Terminal` constructor, the colour setters, `color()` | environment and terminfo answers, `m_valid`, `m_256colors`, `m_truecolor`, last colour directive | Construct, SetForegroundColor, SetBackgroundColor, SetSimple, Color |
| `Cli` | option loop and positional arguments of `main()` | argv, optind, permuted non-options, settings, pc, exit code | OptionsEnd, NonOption, UnknownOption, FlagOption, StopTimeoutOption, RespawnOption, Positional, LaunchArgs |
| `MonitorProofs` | TLAPS proofs about `Monitor`, including its refinement of `NodeLifecycle` | | |
| `StatsProofs` | TLAPS proofs that `Stats` attributes exactly and keeps its types | | |
| `KeyReaderProofs` | TLAPS proofs of the two `KeyReader` properties | | |
| `TerminalColorsProofs` | TLAPS proof of `RenderingsAgree` | | |
| `CliProofs` | TLAPS proofs of `UsageRespected` and the `Cli` type invariant | | |
| `SgrParserProofs` | TLAPS proof of the `SgrParser` type invariant | | |

Abstractions:

- **Monitor.** Child processes are reduced to their OS state. Time counts only
  inside the graceful window, in whole stop-timeout units.
- **Timers and the service.** ROS timers and the service fire only in the
  `spin` phase. After the main loop, no callbacks other than exit handling
  run, since only `watcher->wait` is called there.
- **Monitor::start() at launch.** It is one atomic step in which any subset of
  the nodes may fail to exec. A failed exec raises the exit notification.
- **Stats.** Only user time is kept; system time follows the same lines. Pids
  come from a small set. A pid is never handed out while it is a live process
  group id (Linux). The constant `Recycle` says whether a pid may be reused
  within one scan interval.
- **Start-up.** The model starts at `monitor.start()`. Until `signal()` has
  installed `handleSignal` (pc `launch` and `setup`), a termination signal
  takes its default action and ends rosmon (pc `killed`). The constant
  `EarlySignals` says whether a signal may come that early.
- **Colour directives.** Escape strings are reduced to what they select:
  nothing, a terminfo colour index, or an RGB triple. The environment
  (`ROSMON_COLOR_MODE`, `KONSOLE_DBUS_SESSION`, `VTE_VERSION`) and the
  terminfo answers are a record chosen in the initial state.
- **Bytes and words.** Bytes and command-line words are abstract values. The
  conversions (tokenising on `;`, `strtoul`, the cast to `int`, `strstr(":=")`,
  `lexical_cast<double>`) are modelled by what they do on that alphabet.
- **The tokenizer of `parseSetAttributes()`.** `SetAttributes` runs the
  token loop as one scan over the bytes (`ScanByte`, `EndToken`, `Scan`).
  A `;` ends a token, an empty token is dropped, as `char_separator` drops
  it, and the last token ends with the string. The definition by tokens,
  `TokenizedAttributes` (a `FoldLeft` of `ApplyToken` over `Tokens(s)`), is
  kept as the reference. `MC_SgrParser`'s assumption `ScanMatchesTokenizer`
  has TLC check that the two agree on every parameter list of up to five
  bytes. The scan form can be reasoned about; `Tokens` sorts its cuts with
  `SetToSortSeq`, which the provers cannot expand.

## Runs

| Run | cfg | Checks | Result |
|---|---|---|---|
| monitor | `MC_Monitor.cfg` | TypeOK, PidIffRunning, NoOrphanOnExit, KillOnlyAfterGrace, SessionEnds | pass, 11,188 states |
| monitor_lifecycle | `MC_MonitorLifecycle.cfg` | LifecycleRefined | pass, 11,132 states |
| monitor_early_signal | `MC_MonitorEarlySignal.cfg` | NoOrphanOnSignal | violation (finding) |
| stats | `MC_Stats.cfg` | TypeOK, AttributionExact | pass, 347,922 states |
| sgr_parser | `MC_SgrParser.cfg` | TypeOK | pass, 271,726 states |
| sgr_apply | `MC_SgrParserApply.cfg` | ApplyShowsColors | violation (finding) |
| sgr_wide_code | `MC_SgrParserWide.cfg` | ForegroundOnlyFromFgCode | violation (finding) |
| terminal_colors | `MC_TerminalColors.cfg` | RenderingsAgree | pass, 7,600 states |
| terminal_colors_setup | `MC_TerminalColorsSetup.cfg` | ColorsOffWhenSetupFails | violation (finding) |
| cli | `MC_Cli.cfg` | TypeOK, UsageRespected | pass, 104,181 states |
| cli_respawn | `MC_CliRespawn.cfg` | RespawnLastWins | violation (finding) |
| key_reader | `MC_KeyReader.cfg` | EscapeIsPendingPrefix, KeyOnlyOnCode | pass, 14,838 states |

What the properties say:

- **PidIffRunning.** A node has a pid exactly when it is Running or Stopping.
  This needs exit handling to reap the child and leave the running states in
  one step.
- **NoOrphanOnExit.** When `main()` returns, no child is alive or unreaped.
- **KillOnlyAfterGrace** (action property). SIGKILL reaches a node only after
  SIGINT, and only once that node's own stop timeout has elapsed.
- **SessionEnds** (liveness). A signal, a ROS shutdown or a required node's
  exit always ends rosmon, whatever the children do with SIGINT. Either
  `main()` returns, or an early signal killed the process.
- **LifecycleRefined** (refinement). `Monitor` implements `NodeLifecycle`
  under this mapping:
  - `life` is the node state;
  - `healthy` is `m_ok`;
  - `stopRequested` is `g_shouldStop \/ ~ros::ok()`;
  - the phase is `shutdown` in the graceful and final waits, `ended` once
    `main()` returns, and `running` otherwise.

  The abstract specification says the following:
  - nodes start only while the session runs;
  - an exit that was asked for ends in Stopped, any other exit in Waiting or
    Crashed;
  - the session shuts down only on a stop request or lost health, and then
    asks every running node to stop at once;
  - it ends only when no node runs.

  Its fairness says that a due shutdown happens, that every node asked to
  stop during the shutdown exits, and that the session then ends. A node
  stopped by the service while the session runs is not promised to exit. The
  run has `EarlySignals = FALSE`: a rosmon killed early freezes in the running
  phase with its nodes running, and then no shutdown ever comes.
- **AttributionExact.** Each scan charges a node exactly the ticks that its
  group's pre-existing processes consumed since the previous scan.
- **UsageRespected.** `main()` launches only command lines of its usage form.
  The only well-formed positional words it refuses are a package and a file
  that cannot be found.
- **EscapeIsPendingPrefix.** The pending escape string is always a proper
  prefix of some key code, so it stays bounded.
- **KeyOnlyOnCode.** A special key is reported only right after its code was
  read, with one exception. `readKey()` returns `SK_Backspace` for every DEL
  byte (terminal.cpp:497-498). The constructor registers terminfo's `kbs`
  under the same id (terminal.cpp:247). On a terminal whose `kbs` is ^H,
  that key id is therefore also reported after a DEL, without its code. The
  property allows exactly this: `SK_Backspace` right after a DEL.
  `MC_KeyReader` registers `kbs` as ^H, so the exception occurs; the
  previous statement without it is violated there.

  The ^H code itself is never reported as `SK_Backspace`. Codes are matched
  only after an escape byte, so a lone ^H is returned as the byte 8. No
  property states this, because the caller's handling of the byte is not
  modelled.
- **RenderingsAgree.** On a set-up terminal with 256 colours or true colour,
  `color(rgb, …)` and `setForegroundColor(rgb)` render every colour alike.
  This holds for every environment and terminfo answer. It rests on the
  constructor never setting true colour without 256 colours: both paths
  test `m_256colors` for an RGB colour, and `color()` tests `m_truecolor`
  first. Its mutant is a constructor that sets true colour alone
  (`ConstructTruecolorOnly`).

Every property of a passing run has a mutant in PROJECT.json: a plausible bug
in the mapped code that TLC then catches under the same cfg.

### Bounds

- **monitor.** Three nodes are the smallest set with a required node, a
  respawning node and a plain node. The stop timeouts 1 and 2 make
  "largest timeout" differ from "own timeout". Respawns, service calls, exits
  and signals are unbounded in number; the state space is finite because
  each node has only a few states.
- **stats.** Three pids and two nodes are enough for the following to happen
  between two scans: a restart with a new pid, a fork into a group, the
  leader's exit with a surviving child, and pid reuse. Ticks are capped at
  `MaxTicks = 2`.
- **Parser.** The parser alphabet reaches codes 0, 1, 30-34, 40-44, unknown
  codes (3, 4, 10, ...), malformed tokens and the length bound. `BufMax` is 4
  instead of 16: the code only compares the length with the bound.
- **TerminalColors.** Every combination of the three environment variables
  (with the override's unknown and VTE's non-numeric values), of the two
  terminfo lookups, of the colour count and of the two capabilities is an
  initial state. Pure red and pure blue tell a cube index or a channel
  order apart.
- **Cli.** All command lines of up to four words over twelve words are
  checked; five words for `cli_respawn`, whose counterexample needs two
  options with values and a path.

### Fairness (monitor)

- **Main thread: `WF`.** It is never blocked for good.
- **`Tick`: `WF`.** Wall-clock time passes.
- **Killed child exits: `WF`.** SIGKILL cannot be ignored.
- **`HandleExit`: `SF`.** An exited child's EOF stays readable, and each of the
  three loops keeps calling `watcher->wait`.
- **No fairness.** Children exiting on their own, signals and service calls are
  left to the environment.

### Findings

Each finding below is the violation found by the run named with it.

1. **`terminal.cpp:118` (code bug).** With only a background colour set,
   `apply()` passes `m_fgColor` (-1) to `setSimpleBackground`, so the node's
   background colour is not shown (`sgr_apply`).
2. **`main.cpp:283` (divergence).** `--respawn-attr obey_default_*` after
   `force_*` does not restore "obey", so the force override stays in effect
   (`cli_respawn`).
3. **`main.cpp:543` (code bug).** `handleSignal` is installed only after the
   nodes were started and the UI and ROS interface were built. `ros::init`
   runs with `NoSigintHandler`. A SIGINT, SIGHUP or SIGTERM in that window
   ends rosmon by the default action. The children are in their own process
   groups and keep running unsupervised (`monitor_early_signal`).
4. **`terminal.cpp:45` (divergence).** `int code = strtoul(...)` truncates
   to 32 bits, so the parameter 4294967327 sets the foreground red like 31.
   The specification says only 30-37 do. The run `sgr_wide_code` feeds that
   one sequence: the state space of all ten-digit parameters is out of reach.
   `Strtoul` and `ToInt` compute the truncation on 16-bit halves, so TLC's
   32-bit integers never overflow.
5. **`terminal.cpp:188` (code bug).** The colour mode is chosen before
   `setupterm()`. With `ROSMON_COLOR_MODE=truecolor`, Konsole or VTE, the
   lookup is for `xterm-256color`. When that fails, the constructor prints
   "Disabling all colors" and returns. `color(rgb, fallback)` does not look
   at `m_valid` and still returns true-colour escapes
   (`terminal_colors_setup`).

One gap in the specification has no run of its own. `updateStats()`
(`monitor.cpp:264`) keys the previous sample by pid. A pid that is reused
within one scan interval inherits the old process's sample, so the node is
charged a wrong delta, possibly a negative one. The specification's delta
rule does not say what pid reuse should do. Setting `Recycle = TRUE` in
`MC_Stats.cfg` makes TLC report `AttributionExact` violated.

## Proofs

Six modules hold proofs, and `tlapm` checks each to the last leaf. Each
theorem holds for every value of the constants allowed by the named
assumptions of its module.

`MonitorProofs.tla` proves the following for every finite non-empty set of
nodes, any required/respawn sets, any natural-number stop timeouts and either
`--no-start` setting:

- `TypeOKInvariant`: `Spec => []TypeOK`, including `elapsed <= shutdownTimeout()`.
- `PidInvariant`: `Spec => []PidIffRunning`.
- `NoOrphan`: `Spec => []NoOrphanOnExit`.
- `KillAfterGrace`: `Spec => KillOnlyAfterGrace`.
- `LifecycleSafety`: `Spec => Lifecycle!SafetySpec`. Every step of
  `Monitor` is a step of `NodeLifecycle`, or leaves its variables unchanged.
- `TypeCorrect`: the type invariant without the clock bound.

The other proof modules:

- `StatsProofs.AttributionCorrect`: `~Recycle => (Spec => []AttributionExact)`.
  It holds for every finite set of positive pids, every set of nodes and every
  tick bound. The hypothesis is the one under which the property is true: with
  pid reuse inside one scan interval it is false (see the spec gap above).
- `StatsProofs.TypeCorrect`: `~Recycle => (Spec => []TypeOK)`. The CPU time
  charged to a node is a natural number, so never negative.
- `SgrParserProofs.TypeCorrect`: `Spec => []TypeOK`, for every alphabet and
  every abandon bound `BufMax`. Both colours stay in -1..7 whatever the
  tokens are, and the pending list stays within `BufMax`.
- `TerminalColorsProofs.RenderingsAgreeInvariant`: `Spec => []RenderingsAgree`,
  for every set of colours and every environment.
- `KeyReaderProofs.EscapePending`:
  `EscapeCodeExists => (Spec => []EscapeIsPendingPrefix)`.
- `KeyReaderProofs.KeysOnlyOnCodes`: `EscapeCodeExists => (Spec => KeyOnlyOnCode)`.
  It holds for every table of codes, `kbs` included whatever its code. The
  DEL case rests on `LEMMA PlainIsBackspace`: a byte is returned as a key id
  only as DEL returned as `SK_Backspace`.

  `EscapeCodeExists` says that some registered key code starts with ESC, which
  `registerKey()` gives every terminal with function keys. Without it, a
  lone ESC is held back although it is no proper prefix of any code, so
  `EscapeIsPendingPrefix` is false.
- `CliProofs.UsageRespectedInvariant`: `Spec => []UsageRespected`.
- `CliProofs.TypeCorrect`: `Spec => []TypeOK`. The stop timeout is never
  negative.

Both `Cli` theorems hold for every vocabulary of words and every bound on the
command line.

Four definitions were written so that the provers can use them:

- **Sums in `Stats`.** They are `SumFunction` of a function over
  `Sampled(g)` or `Group(g) \ fresh`. Where these sets are equal and the
  summands agree, the two functions are equal. The sums are then equal by
  congruence, without reasoning about the fold.
- **`FirstArg` in `Cli`.** It is the `Min` of the set of indices holding a
  launch argument (`ArgIndices`), not a search over the sequence with a
  `LAMBDA`. `LEMMA MinOfNats` derives from `WFMin` that this minimum exists.
- **The scan in `SgrParser`.** See the abstractions above. Its recursive
  function over `0..Len(s)` is defined by `FiniteNatInductiveDef`.
- **The range checks in `ApplyToken`.** They are written `code \in 30..37`,
  the same as `30 <= code <= 37` for an integer. The colour ranges then
  follow without knowing anything about the value that `Strtoul` returns.

Induction over data is done without an induction theorem. The library's
induction theorems take an operator parameter, and the provers cannot
instantiate their type forms (`WFInductiveDefType`, `FiniteNatInductiveDefType`,
`SmallestNatural`). The provers do instantiate the theorems that give a recursive
definition its equation (`WFInductiveDef` and `FiniteNatInductiveDef`), when
the defining operator is hidden. The range of the function then comes from
a least counterexample: `WFMin` picks a least element of the set of
arguments where the range fails, and the equation at that argument
contradicts it. This gives two lemmas:
- `StatsProofs.SumFunctionNat`: a `SumFunction` of naturals over a finite set
  is a natural. It uses the strict-subset order, which is well founded on the
  subsets of a finite set.
- `SgrParserProofs.ScanType`: the byte scan keeps its state's type. It uses
  `<` on the naturals.

### Assumptions

The constants carry named assumptions in the modules that declare them:

- `Monitor`: the set of nodes is finite and not empty; `Required` and
  `Respawn` are subsets of the nodes; every stop timeout is a natural number
  (`main()` refuses a negative `--stop-timeout`, which the `cli` run checks);
- `KeyReader`: `MaxRecent` is a natural number, and `SpecialKeys` gives each
  key its own code (`registerKey()` registers one code per key). Key ids,
  `SK_Backspace` among them, are no bytes, and no key has the id -1.
  `kbs` may be registered under `SK_Backspace` with any code;
- `SgrParser`: the bytes include ESC, `[`, `m` and `;`, and are digits or
  these; `BufMax` (16 in the code) is a positive natural number.

`ShutdownTimeout` (the `Max` over `{0} \cup` the stop timeouts) is a natural
number that bounds every stop timeout. This is not assumed: `LEMMA
ShutdownTimeoutBound` of `MonitorProofs` proves it from the finiteness of
the nodes. It uses the least-counterexample argument above, applied to a
least set of nodes whose timeouts have no largest element (`LEMMA
StopTimeoutsHaveMax`).

### Inductive invariants

`NoOrphanOnExit` is not inductive on its own: a step into `done` from a state
with a running node would break it. The inductive invariant `IInv` conjoins:

- `TypeInv`;
- `PidIffRunning`;
- `pc = "done" => AllShutdown`.

The last conjunct holds because only the spin and wait phases can start a
node, and `Finish` requires `AllShutdown`. With `PidIffRunning`, it gives
`NoOrphanOnExit`. The proof has one step per action, and under it one step
per conjunct that the action can change (`LEMMA NextIInv`).

`KillOnlyAfterGrace` rests on `StopInv`, which says two things:

- a Stopping node was sent SIGINT or SIGKILL;
- after the main loop, no node is Running.

The reason for the second: `Monitor::shutdown()` moved every Running node to
Stopping, and only `ros::spinOnce()` can start one. Only `EndGrace` assigns
SIGKILL, and it runs when the window is over
(`elapsed >= ShutdownTimeout >= StopTimeout[n]`). There a killed node that
was not already killed is Stopping, so it was sent SIGINT (`LEMMA KillStep`).

`LifecycleSafety` rests on two invariants:
- `IInv`: a node whose child exited is Running or Stopping, so its exit
  handling is an abstract `Exit`;
- `LaunchInv`: before `Monitor::start()` every node is Idle, so `Launch` is
  an abstract `Start` of all nodes.

With these, `LEMMA LifecycleStep` matches each action with one abstract
action or a stutter:

| Action | Abstract step |
|---|---|
| `LeaveLoop` | `BeginShutdown` |
| `Finish` | `End` |
| a start in `spin` | `Start` |
| `ServiceStop` | `Stop` |
| `HandleExit` | `Exit` |
| `handleSignal`, `RosShutdown` | `RequestStop` or a stutter |
| every other step | a stutter |

The theorem holds for either value of `EarlySignals`: a killed rosmon maps
to a stuttering running phase.

### Inductive invariants of the other components

- **Stats type (`StatsProofs.TInv`).** It conjoins `IInv`, `TypeOK` and
  `SinceBound`: a process has consumed no more since the last scan than in
  its whole life (`since[p] <= utime[p]`). This conjunct keeps the ghost
  `since` a natural number across `UpdateStats`, which resets it. The delta
  charged for a sampled process is then a natural number.
- **SgrParser (`SgrParserProofs.IInv`).** `TypeOK` alone is not inductive: a
  list of length `BufMax` in state CSI would outgrow the bound on the next
  byte. The invariant adds `st = "CSI" => Len(buf) < BufMax`. It holds
  because `parse()` leaves CSI on the byte that brings the list to
  `BufMax`.

- **Stats (`StatsProofs.IInv`).** `AttributionExact` alone says nothing about
  the samples the next scan will read. The invariant adds two facts:
  - `SampleInv`: a sample in `m_processInfos` was taken by the last scan, of a
    process that was not new then. It lags the process's ticks by exactly the
    ghost `since`.
  - `GroupSampled`: every older live process of a node's group has a sample.

  Together they make the set of sampled processes equal to the group's older
  processes, with each delta equal to `since`
  (`LEMMA AttributedIsConsumed`). `~Recycle` is needed for `SampleInv`. A
  reused pid would find the old process's sample.
- **TerminalColors (`ModeInv`).** True colour implies 256 colours, and
  nothing is set before the constructor has run.
- **KeyReader.** The invariant adds `EndsWith(esc, recent)`: the pending bytes
  are the tail of what was read. `LEMMA EndsWithWindow` carries this across
  the bounded history window. `LEMMA EscapeIsPrefix` shows that a pending
  prefix of a code is a proper prefix.
- **Cli (`PhaseInv`).**
  - Before the positional words are classified, `firstArg` is 0.
  - While the launch arguments are checked, `firstArg` is `FirstArg` of a
    non-empty list, one or two words behind its start.

  `LEMMA UsageByFirstArg` states `UsageOK` in terms of `FirstArg`. With it,
  the launch step gives `UsageOK`, and no well-formed line exits except at
  the package lookup.

### Only model-checked

- **Liveness (`SessionEnds`, the fairness part of `LifecycleRefined`).**
  TLAPS cannot prove liveness or ENABLED here.
- **The scan against the tokenizer.** That `Scan` computes what the
  `FoldLeft` over `Tokens(s)` computes is checked by TLC on every parameter
  list of up to five bytes (`ScanMatchesTokenizer`). `Tokens` sorts its cuts
  with `SetToSortSeq`, which the provers cannot expand, and the claim for
  every length is an induction over data.
- **The violation runs.** They are findings about the code: TLC's
  counterexamples show them.

## Not modelled

- Logging and its file setup, `fmtNoThrow`, the cursor, echo, line-wrap and
  window-title writes of `Terminal`, the core-dump hints, and `setParameters` (ROS parameter
  server writes). These are pure I/O with no control that a property is about.
- NodeMonitor's resource limits and the CPU load division (`endStatUpdate`).
  They are not under `src/`.
- `FDWatcher` internals. They are abstracted into the wait phases.

## Plan for further work

1. **More proofs.** Prove `ScanMatchesTokenizer` for every string once
   `Tokens` is written without `SetToSortSeq`.
2. **Compose the stats timer with the main loop.** This would show that scans
   only happen in `spin`.
