# go-fuzz: verification project

TLA+ models of go-fuzz, the TLC runs that check them on small instances, and
theorems about them that TLAPS proves for every value of the constants. Paths are
relative to the repository (`src/`).

## 1. The system

go-fuzz is a coverage-guided fuzzer that runs as one *coordinator* process and any
number of *worker processes*; every worker process runs `-procs` fuzzing goroutines,
and each of those drives two *test binaries* (the instrumented program under test) as
child processes over a shared-memory file and pipes.

| Component | State it keeps | Operations | Talks to |
|---|---|---|---|
| Coordinator (`go-fuzz/coordinator.go`) | `workers` with their pending inputs, `idSeq`, three persistent sets, statistics; all under `c.mu` | RPCs `Connect`, `NewInput`, `NewCrasher`, `Sync`; `coordinatorLoop` removes silent workers | hubs over net/rpc, the workdir |
| Persistent sets (`go-fuzz/persistent.go`) | a map from hash to artifact and a directory of files | `newPersistentSet` (reload), `add`, `addDescription` | the file system |
| Hub (`go-fuzz/hub.go`) | `triageQueue` and its local buffer, channels, `ROData` (corpus, cover, suppressions, bad inputs), `maxCover`, `initialTriage`, statistics | `Hub.loop` (one select), `connect`, `updateMaxCover`, `updateScores` | coordinator by calls, workers by channels and shared tables |
| Worker (`go-fuzz/worker.go`) | own `triageQueue`, `crasherQueue`, statistics | `loop`, `triageInput`, `processCrasher`, `minimizeInput`, `smash`, `testInput`, `noteNewInput`, `noteCrasher`, `periodicCheck` | hub, testee, mutator, versifier, sonar |
| Coverage tables (`go-fuzz/cover.go`, `compare*.go`, `compare_amd64.s`) | none: pure functions on 64K byte tables | quantize, compare (portable and SSE2/AVX2), fold, novelty, worse cover | hub, worker |
| Input scores (`hub.go:319-458`) | scores and the favored set | `updateScores` | mutator |
| Testee (`go-fuzz/testee.go`) | child process, pipes, `startTime`, output buffer | `test`, `shutdown`, three helper goroutines | child, worker |
| Runtime in the child (`go-fuzz-dep/`) | shared region, sonar position | main loop, `Sonar` log | testee |
| Sonar (`go-fuzz/sonar.go`) | per-site statistics under a mutex | parse, `evaluate`, site update | worker |
| Mutator, pcg | random state | `generate` (draws an input by weight), `mutate` | worker |
| Versifier (`go-fuzz/versifier`) | a verse: blocks of nodes, shared by all workers | `BuildVerse` (tokens, five structuring passes), `Rhyme` | hub, worker |
| `go-fuzz-build` | none | source instrumentation | - |

What is hard here:

* *two processes, no acknowledgements*: every call can fail after it was served, and
  the hub answers a failure by registering again and receiving the whole corpus;
* *a coordinator that may die at any instruction*, and whose memory is rebuilt from
  three directories whose files are written one after the other;
* *a barrier counted by compare-and-swap* (`initialTriage`), overwritten at each
  reconnect;
* *bounded channels in both directions* between the hub and its workers;
* *two tables updated by several goroutines* (`maxCover` under a lock but compared
  without it, `ROData` published by an atomic store), compared raw against quantized;
* *minimization*, which changes the data of an input and keeps its cover;
* *assembler*, which compares unsigned bytes with a signed instruction;
* *hang detection, retries and shutdown of a child process*: four goroutines, two
  processes one after the other and a signal handler around one `startTime`;
* *a lock-free log* written by goroutines that may outlive their test;
* *algorithms whose loops change what they walk over*: favored inputs struck out slot by
  slot, five passes that rewrite one sequence of nodes in place;
* *values of unknown width*: operands are trimmed before they are compared and replaced.

What makes each component correct: the coordinator gives every hub every input and
stores one crasher per suppression; a hub never loses what its workers found, does not
deadlock and opens its barrier; the coverage functions agree with each other, so that
"new" means "will change the table"; the testee attributes every outcome to the test
that caused it, never reports what the fuzzer itself killed and always returns; the sonar
log is never read torn, and what is evaluated and replaced from it is what the program
compared; the favored set covers everything the corpus covers and every input can be
drawn; the versifier loses no piece of a text. `PROJECT.json` lists each hazard with its line and the properties that
watch it.

## 2. The modules

| Module | Models |
|---|---|
| `PersistentSet` | one persistent set: what is in memory, what in whole files and which files are torn; `add` with a write that may fail or leave a torn file, reload |
| `Coordinator` | the state and handlers of the coordinator, its watchdog, crash and restart |
| `CorpusService` | what the coordinator promises the hubs about the corpus, without ids, connections and pending lists |
| `Cluster` | the coordinator composed with any number of hubs: connect, calls, replies, broken connections, late requests; implements `CorpusService` |
| `Hub` | one worker process: `Hub.loop` and the `Worker.loop` goroutines over their channels and shared tables |
| `Coverage` | the coverage functions as operators |
| `CoverageWalk` | a table that arbitrary runs are folded into: the functions checked and proved together |
| `TestService` | what `TestBinary.test` promises its caller, without processes |
| `Testee` | a test binary of a worker: its calls, child processes, helper goroutines, SIGINT; implements `TestService` |
| `Scores` | `updateScores` loop by loop, and the drawing of an input by its weight |
| `SonarLog` | the log the child's goroutines write and the worker parses |
| `SonarValues` | what the worker makes of the log of one input, sample after sample: trimming, evaluation, replacements and the set of those already tried |
| `SonarSites` | the statistics of one comparison and the decision to skip it |
| `Verse` | how the versifier finds structure in a text |
| `MCCluster`, `MCHub`, `MCTestee` | values of the constants for TLC |
| `MCClusterLive` | `Cluster` in two instances for liveness, with two hubs or with one |
| `MCAlgorithms` | `CoverageWalk`, `Scores`, `SonarLog`, `SonarValues`, `SonarSites` and `Verse` with values: they share no state, so one run checks them side by side, `part` saying which one moves |
| `Coverage_proofs`, `CoverageWalk_proofs`, `Hub_proofs`, `Cluster_proofs`, `Scores_proofs`, `Sonar_proofs` (log and sites), `SonarValues_proofs`, `Testee_proofs` | theorems |

### Coordinator, Cluster and CorpusService

Handlers hold `c.mu` from start to end, so a handler is one action. `NewCrasher` is
the exception: a crash between its writes leaves different directories, so it is three
actions (`NewCrasher` up to the suppression, `SaveCrasher`, `DescribeCrasher`) during
which `handling` holds the lock. `Connect`, `NewInput`, `Sync` and `NukeDead` are the
other handlers; `Known` and `Suppressed` are their early returns.

A hub has a single goroutine that makes calls and waits for each, so its progress is one
`status`: `idle` (in the select), `sent`, `running` (inside `NewCrasher`), `done`,
`failed`, `dial` (in `connect`), `dead` (`loop` returned). `HandleCall` serves the
request, `Connected`/`Returned`/`CallFailed` are the three ways a call ends, exactly as
`hub.go:188-198`, `:258-265` and `:293-296` distinguish them: `Sync` and `NewInput`
reconnect, `NewCrasher` only logs, a failed `connect` ends the loop. `Connected` replaces the
queue but for the one input that the loop holds for `triageC` (`Held`). Workers appear as
what they hand over: inputs found (`AcceptMine`), inputs triaged (`AcceptTriaged`),
crashes (`ReportCrash`), statistics (`WorkerStats`).

Faults: a connection breaks (`LoseConnection`) before or after its request was served,
and a request already read by the server may be served later, when the hub may have
registered again (`late`, `HandleLate`); a live worker is silent for `syncDeadline`
(`Nuke`); the coordinator dies between any two steps (`CoordinatorCrash`) or inside a
`WriteFile` (`TornCrash`); a file write fails (`Written`), leaving a torn file or none. The
directories survive, everything else is rebuilt by `CoordinatorRestart`. A torn file is loaded
under the hash of what it contains (`EmptyFile`), while its name is the hash of what it should
hold: the next `add` of that artifact overwrites it, but not if it is an input whose depth,
which is part of the name, differs this time (`Files`).

Abstractions: `execs` stands for both counters of the statistics; `coverFullness` is the
number of inputs in the hub's corpus, of which only the maximum matters; `lastSync` is
replaced by the choice to find a worker silent; the queue of a hub is a set (module
`Hub` keeps its order); of the metadata in file names only the difference of two names of one
artifact is kept, it has no effect on membership.

`CorpusService` has a corpus in memory (`known`) and in its directory (`stored`), the call by
which each client hands in an input, and what each was given (`taken`). `Cluster` implements
it (`CorpusServiceSpec`): `known` and `stored` are the coordinator's corpus, `submitted` the
inputs the hubs sent (`mine`), `call` the state of a hub's `NewInput` call (`Submission`),
`taken` what the hub handed to its workers (`triaged`), and `lossy` says that a write has
failed. Ids, registrations, pending lists, snapshots, triage queues, `Sync` and reconnects
have no counterpart: their steps must be stutters, or the keeping of an input, or the gift of
one. What remains is the promise: an input is in the corpus, and in the directory unless its
write failed, before its call is answered; a crash loses nothing that is stored; a client is
given stored inputs only, or at least inputs handed in, or the empty input (`Blank`) that a
torn file is read as.

### Hub

`hpc` is the place of the hub goroutine: its select, the point between the two stores of
the `newInputC` case (`maxCover` is updated before `ro.Store`), one of its three calls,
`connect`, or dead. Between `select` and the return of a call the workers go on.
`EnterSelect` is the *local buffer*: an element of `triageQueue` moves to `slot` whenever
the loop enters the select with an empty slot. `HandOut`, `TakeStats`, `TakeInput`,
`TakeCrasher` and `StartSync` are the cases of the select. All channels have capacity
`procs`.

`wpc` is the place of a worker. `PollCrasher`, `PollTriage`, `TakeLocal`, `StartFuzz`
are the four things `Worker.loop` looks for, in that order; the latter two only past the
barrier. `Triage` makes three runs and keeps the per-slot maximum; then the input is
dropped, minimized (`Minimize`, one candidate at a time), smashed (`Smash`) or sent
(`SendInput`). `noteNewInput` compares `maxCover` without the lock and leaves the worker
at `note`; `UpdateMaxCover` compares again under the lock. `AfterTriage` is the
compare-and-swap on `initialTriage`. Crashes go through `noteCrasher`, the worker's
`crasherQueue`, `MinimizeCrasher` and `SendCrasher`.

A test of an input yields a cover table or `CrashRun`; `Runs` gives the possible
results, several for a flaky input, so every interleaving of test results is explored.
The coordinator is reduced to what this hub sees of it, `known` and `pending`.

Abstractions: the three runs of triage are one step (nothing is shared during them);
which candidates minimization and smash build is replaced by any input of `Smaller` or
`Data`; truncation to `MaxInputSize`, priorities, depths and scores are left out;
`periodicCheck` may report at any test instead of after 3 s; a worker that finds nothing
to do sleeps, which is not a step; a crash beyond the bound `MaxCrashes` is forgotten as
one with a known suppression is. `untriaged` and `noted` are history: no guard reads
them.

### Coverage and CoverageWalk

`roundUpCover`, `compareCover`, `updateMaxCover`, `findNewCover` and `worseCover` are
the functions of `cover.go` on tables `[Slot -> 0..255]`; `compareCoverBody` is the
vector loop of `compare_amd64.s` (bytes biased by 128, compared as signed, a lane at a
time) with the lane width and the number of lanes as constants. `CoverageWalk` folds an
arbitrary sequence of runs into a table that starts at zero, as the hub does, and keeps
the raw maximum beside it.

### Testee and TestService

`wpc` is the place of the worker goroutine in `TestBinary.test` and what it calls. `Check`
is the head of the loop (`periodicCheck`, the counters), `Start` is `newTestee`, `Prepare`
to `ClearStart` are `Testee.test` split at every access to something another goroutine or
process touches, `Shutdown`, `Collect`, `Wait` are `Testee.shutdown` and what follows it.
`LoadHanged` and `ClearStart` are two steps because the code has two atomic operations. A
crash is queued (`Crash`) and reported by the loop (`ReportCrasher`), which looks at
`shutdown` first.

Children and Testees are numbered 1 and 2 in turn: at most two have anything left at any
time (a Testee and the helper goroutines of its predecessor). `ChildRead`, `ChildPrint`,
`ChildReply` are the main loop of `go-fuzz-dep/main.go` around an input that talks,
succeeds, crashes or runs for ever. A signal is sent in one step and takes effect in
another; SIGABRT may be delayed for ever, SIGKILL not. The three helper goroutines of
`newTestee` are `StdoutReader`, `HangWatcher` (tick, store, SIGABRT, a second later
SIGKILL: four steps) and `StopperEnds`. `Interrupt` and `CloseShutdownC` are the SIGINT
handler of `main.go`.

Abstractions: `startTime` holds the number of an execution in place of a time, and
`overdue` the executions that began more than `-timeout` ago; an input is one piece, so a
torn write of it is not seen; output is counted in pieces; a start that fails is repeated
after a second and changes nothing; `maxExecs`, 10000 in the code, is any of `Limits`. The
handler's `os.Exit` two seconds later is left out: it only cuts off what is modelled.
`tests`, `cause`, `report` and the last fields of a queued crash are history.

`TestService` has a question and an answer. `Testee` implements it with `asked <- data`
(`ServiceSpec`): every answer is about the input asked, "ok" comes with the cover of
that input and is never given to a bad one, whatever was killed or retried in between.

### Scores

The hub goroutine either takes an input (`NewInput`, with `defScore` and the next running
sum) or ranks the corpus. A ranking is the four loops of `updateScores`: `StartUpdate`
(scores from averages), `Scan` (the candidate of each slot), `Favor`/`SkipSlot` (walking
the slots while striking later candidates out), `Sum` (running sums), then `Publish`.
Workers draw from `corpus` all the time, so `DrawnByWeight` is an invariant. Quotients of
floats are comparisons of products (`avg = 0` behaves as the code's `+Inf` and NaN); the
rounding of the float product to an int is the only difference left.

### SonarLog, SonarValues, SonarSites

`SonarLog` gives each goroutine of the fuzzed program the steps of `Sonar`: load the
position, return if the record does not fit, compare-and-swap or load again, copy. The main
loop rewinds the position at a test and sends it with the reply; the worker parses. A cell
of the region names the record whose byte it holds, so a torn record is visible. `stray`
records that a goroutine was between its reservation and its copy when a test began or
ended; then the code gives no guarantee, and neither do `RecordsWhole` and `LogParsed`.

`SonarValues` takes the log of one input, with the operands of its samples as written.
`parseSonarSample` drops trailing bytes that are 0x00 or 0xff in both operands (`trim`),
`skipSonarSample` leaves a sample to the site's decision or, while smashing, to the mutation of
all bytes, `processSonarSample` tries its replacements. `relatives` are the pairs the
code checks: the other operand, its successor and predecessor, in either byte order, in
base-128, in decimal and in hexadecimal. `Fresh` are those that change the input and whose
`Key` no earlier one has used, `check` the inputs tested for one of them: every occurrence
replaced, cut to `MaxHint`, and the length fields of strings adjusted. `checked` is one set for
all samples, as in the code, and its keys do not tell numbers from strings.
The properties name what the code does not promise and no more: a hint that is cut may miss
its replacement (`Uncut`), two pairs may share a key, when an operand holds the separator
(`OwnKey`), and a sample of numbers that tried a pair first keeps a string from having
its length field adjusted. TLC finds each of these clauses necessary. `EvaluateExact` and
`ValueReached` state under which condition on the dropped bytes nothing is lost. `SonarSites`
is `update`.

### Verse

Nodes are records with their characters and the blocks below them. `tokenize` cuts the text,
`extractNumbers` repeats sweeps until nothing changes, `structureBrackets` keeps a stack of
openers, `structureKeyValue`, `structureLists` (from right to left, growing elements on both
sides of a delimiter) and `structureLines` treat brackets first. Each pass is an action.
Characters are a few representatives of what the code tells apart. `Prints` is the order in
which the nodes' `Generate` writes what they hold.

### Faulty variants

Next to some definitions stands a variant marked "Faulty variant": the form the
definition would have with a plausible mistake (a reset forgotten, a guard dropped, a
queue replaced instead of extended). No specification uses them. They are there to
show that each property can fail: with the variant in place of the definition TLC
reports the property named in `PROJECT.json` as violated.

## 3. What the runs check

Properties hold unless the run is marked *violated*.

| Run | Instance | Shows |
|---|---|---|
| `cluster_corpus` | 2 hubs, a user input and a found one, 1 fault | `InputsReachHubs`, `AtMostOneSmash`, `AckedInputsOnDisk` |
| `cluster_faults` | 1 hub, an input, 2 crashers with one suppression, 2 faults and 1 failed write | `OneCrasherPerSuppression` and `CorpusServiceSpec`, across restarts after reconnects, late requests and torn files |
| `cluster_live_faults` | *learning*: 2 hubs, an empty corpus, the inputs that the workers of one find, 1 fault; *calls*: 1 hub, faults, inputs found, crashes and executions, 3 together and at most 2 faults (the constraint `Bounded`) | `EveryHubLearns`, `CallsReturn`, also after faults, and `StatsConserved` |
| `hub_triage` | 2 workers, 3 inputs over 2 slots, one arriving from outside, 1 fault | `TypeOK`, `BarrierBacked`, `CorpusWithinMax`, `NoCoverageLost`, `NoHerd` |
| `hub_crash` | 1 worker, an input with varying cover that sometimes crashes, three that always crash, one of them by a hang, 2 faults, which may end the hub loop | `HonestCover` for flaky inputs, `CrashersReachHub` |
| `hub_live_stop` | 1 worker, so that a channel holds one element and really fills, 2 user inputs, 2 reports of statistics, 1 fault | `BarrierOpens`, `FoundInputsTriaged`, `SendersFreed` |
| `algorithms` | cover: 4 slots in lanes of 2, counters at quantization edges and around the sign bit; scores: up to 4 of 7 inputs; log: 3 goroutines, a region of 5, 2 tests, 3 records; values: bytes of base 4 in words of up to 3, logs of one and two samples, inputs shorter and longer than a hint of 8; texts of up to 5 characters, or 4 with padding | `VectorAgrees`, `NewIffGrows`, `MinimizedStillNew`, `SummaryIsExact`; `FavoredSetRight` (`FavoredCoverAll` and `FavoredBest`), `DrawnByWeight`; `RecordsWhole`, `LogParsed`; `EvaluateExact`, `HintsComplete` (`ValueReached`, `VarintReached` and `LengthFollows`); `SkipEarned`; `TextKept`, `StructureFound` (`BracketsPaired` and `NothingOverlooked`) |
| `testee` | 3 inputs (talks and succeeds, crashes, hangs), 2 tests, processes replaced after 1 or 2, a pipe of 1 piece, a buffer of 4, one run that is slow without hanging, one SIGINT | `NeverFatal`, `OneProcess`, `OwnKillsNotReported`, `BlameNeedsTimeout`, `ExecsWithinRestarts`, `BufferHasRoom`, `ServiceSpec`, `TestReturns`, `HelpersEnd` |

Type invariants of the other modules, `UniqueIds` and `CoverGrows` hold on these instances
as well; they are proved for all instances (section 5) and not run again.

The bounds are where the cases become different and not larger: two hubs are needed for
one to find and the other to learn, or for both to report one suppression; two workers
for a race on `maxCover` or on the barrier, and one, with channels of capacity one, for
blocked senders; one fault in every place, and two in a row for one hub, since a request
of a first registration can meet a second registration or a restart. Two slots are enough
for inputs that overlap, include one another and are minimized to different parts. The
lanes of the vector loop are independent, so two of two show a difference in either
position of either lane. Three goroutines and a region that two records fill make the log
wrap from one test into the next with a copy pending. Base 4 has one byte on each side of
the sign, a zero byte and a full one; words of three bytes let one and two be trimmed. A
process that is replaced after one test makes every second test a retry, and two tests
suffice for a signal meant for the first to hit the second.

`cluster_corpus` leaves out crashes, whose requests touch disjoint state in the
coordinator apart from `handling`; `cluster_faults` has both kinds. It declares its two
crashers symmetric: both have the one suppression, and nothing else tells them apart. The `Hub` runs use
`-covercounters=false` (one level), which keeps tables small; `algorithms` and the
theorems have the levels. `cluster_live_faults` has an instance for each of its two
questions, since one that has both is too large for the five minutes a run may take. In
*learning*, `h2` knows what `h1` finds only from its own registration, a `Sync` or a
reconnect, and the fault is a lost reply of `Sync`, a `Nuke` of `h2` between two syncs, or a
coordinator that dies with the pending lists; without the announcement to other hubs, without
the snapshot of `Connect`, or with a reply that replaces the queue, `EveryHubLearns` fails. In
*calls* the hub makes all four calls, and meets a second fault on its way back from the first.

The deadlock check is off where the system stops: in `hub_crash`, when the hub loop has
ended and the workers have filled the channels; in `testee`, when the worker has closed its
binaries after SIGINT; in `algorithms`, whose parts end. Everywhere else a deadlock is an
error.

### Where the code and its documentation differ

Each of these runs has one property, taken from a sentence of the documentation or a
comment, and TLC finds the behaviour that contradicts it.

| Run | Sentence | What the code does |
|---|---|---|
| `cluster_lost_input` | README.md:86 "Go-fuzz will add own inputs to the corpus directory" | a `NewInput` call that fails is never repeated, and the hub's own corpus keeps it from being found again |
| `cluster_acked_crasher` | README.md:113-115 "... it allows fuzzer to continue after restart" | the suppression is written first: a coordinator that dies before the crasher is written refuses it for ever after |
| `testee_blame` | README.md:115 "Discovered bad inputs are stored in workdir/crashers dir" | the hang watcher marks and kills the process in steps of its own after it looked at `startTime` (testee.go:230-235): if the slow test finishes in between, the next one in the process is reported as hanging, good and fast as its input is |
| `hub_barrier` | worker.go:201-204 "Other workers are still triaging initial inputs. Wait until they finish" | any input from `triageC` is counted off, also one that came by `Sync` |

Noticed while modelling, and visible in the definitions without a run: a `NewCrasher` call
that fails is only logged, while the suppression stays in `ro.suppressions` (`CallFailed`,
`ReportCrash`); description files are not written for a crasher that is already there
(`SaveCrasher`); triage keeps the maximum of the coverage of its three runs where
worker.go:275 says "min coverage" (`MaxOf`); when `connect` fails only the hub loop
returns, and workers block on its channels although hub.go:192 says "killing worker"
(`ConnectFails`). README.md:131 calls `execs` the "total number of test executions", but a
test that is retried is counted twice (`Check`; `ExecsWithinRestarts` bounds the error). The
"minimal set" of hub.go:403 need not be minimal: an input favored for an early slot stays
when later ones cover it (`FavoredBest` is what holds), and inputs that are not favored keep
their field `score` (only the running sum uses `minScore`); the `log.Fatalf("bad")` of
hub.go:422 is unreachable. The comment at sonar.go:283 speaks of sites with a constant operand
"taken both ways enough times", the code also skips sites never seen to vary, and those taken
more than 100 times one way (`Tired`). Operands trimmed to nothing evaluate to false, also
for `==`; signed values whose highest kept byte is 0x80 or more, or whose tails were 0x00 in
one and 0xff in the other, may be misjudged (`Recoverable`). In base-128 the neighbours of a
value are looked for in place of their own neighbours (`encodings`). Hints are cut to
`CoverSize` (64 KB) where inputs are limited by `MaxInputSize` (1 MB): a hint for a longer
input loses its end, and places beyond the cut are never reached (`Replaced`, `Uncut`). The set
`checked` is keyed by the two values alone: a string that follows an equal pair of numbers
does not get its length field adjusted (`Key`, `LengthFollows`).

## 4. Fairness

`FairSpec` of `Cluster`: weak fairness of a hub's own next step (a goroutine that can run
does), of the service of late requests, of the rest of `NewCrasher` and of the restart
(the operator starts the process again); strong fairness of `HandleCall` (`c.mu` is taken
by others in between, but Go's mutex starves nobody) and of the hand-out of an input
(Go's select takes a ready case at random, so a case that is ready again and again is
taken). Nothing is assumed of faults, of what the workers find or of when connections
break.

`FairSpec` of `Hub`: weak fairness of every worker and of the calls of the hub, strong
fairness of each receive or send case of the select, of blocked senders, and of `Finish`,
since `minimizeInput` tries each position once (and stops after a minute) and `smash` is
a sequence of finite loops. No fairness is assumed of the ticker, faults, other processes
or of which input fuzzing generates.

`FairSpec` of `Testee`: weak fairness of the system as a whole, that is, some goroutine or
child that can run does, and time passes (`Elapse`, which lets an endless run become
overdue). None of its parts can run for ever by itself, so nothing stronger is needed.
Nothing is assumed of the user (SIGINT) or of the effect of SIGABRT on the program under
test, only that SIGKILL kills.

## 5. What is proved

`tlapm` checks every step of the eight proof modules. What is assumed are the named
assumptions on constants (`CoordinatorAssumption`, `ClusterAssumption`,
`CoverageAssumption`, `ObservedAssumption`, `HubAssumption`, `NoInputAssumption`,
`ScoresAssumption`, `LogAssumption`, `SitesAssumption`, `SonarAssumption`, `TesteeAssumption`); TLC
evaluates them in every run of the modules that declare them.

*Coverage* (any number of lanes, any lane width, counters on or off). The base are two
facts about `roundUpCover`, `RoundUpClosure` (it is monotone, never lowers and is
idempotent on levels) and `RawVersusLevel` (a raw counter exceeds a level exactly when its
rounded value does). From them follow
`VectorCompare` (the vector loop answers as the portable one: subtracting 128 modulo 256
and reading as signed preserves the order of bytes, and the lanes cover all slots),
`NoveltyIsGrowth` (a run is new exactly if folding it in changes the table),
`MinimizedNovelty` (a candidate that is not worse than the novelty is itself new), all in
`Coverage_proofs`, and in `CoverageWalk_proofs`, for every walk, `TypeCorrect`, `SummaryExact` (the table is the rounded maximum of all
runs, so the order of workers does not matter), `NoveltyCorrect`, `ComparisonCorrect`,
`MinimizationKeepsNovelty` and `CoverOnlyGrows`.

*Hub* (any number of workers, any inputs, flaky or not, any minimization, any number of
faults, reports and crashes). The invariants are in `Hub`, under "The inductive
strengthening"; TLC has checked them on the instances of `hub_triage` and `hub_crash`
before they were proved.

* `TypeCorrect`: `TypeOK`. It needs `JobState`, that a worker has a job exactly while it is
  at a place where it uses one: a worker that is interrupted by a report or by the update
  of `maxCover` goes back where it came from (`Place`), and the job must still fit. A step
  of a worker is reduced to where it moves, with what job and finding (`Moves`, `Fits`),
  and `MovesType` does the rest once.
* `BarrierIsBacked`: `BarrierBacked`, inductive with `TypeInv`. `EnterSelectKeeps` says
  that filling the local buffer loses nothing, `HubJobsChange` counts the workers that are
  triaging an input of the coordinator.
* `CoverWithinMax`: `CorpusWithinMax`. It needs `PublishedWithinMax`, between the two
  stores of the hub: what is about to be published is in `maxCover`. It holds because
  the hub compares with `maxCover` at the moment it takes the input and `maxCover` only
  grows afterwards (`MaxGrows`), although workers raise it in between.
* `CoverIsHonest`: `HonestCover`. `HonestInv` follows the cover of an input on its way:
  in a job, in `newInputC` and in the hub it is exhibited by the data it travels with, or
  covered already (`Shown`), and what minimization pursues is the part that is not covered
  (`Pursued`). Triage establishes it (`TriagedShown`), an accepted candidate keeps it
  (`MinimizedShown`), publishing turns it into `HonestCover` (`PublishHonest`).
* `NoThunderingHerd`: `NoHerd`, inductive with `TypeInv`. Only `UpdateMaxCover` queues an
  input that fuzzing found, and under the lock it raises some slot to a level that is new in
  `Claimed`; `Claimed` is finite and never shrinks, since `maxCover` only grows.
* `ClaimedCoverKept`: `NoCoverageLost`. "Some input on its way exhibits the level" is not
  inductive, since an input may exhibit a level by chance and be dropped for another reason.
  `KeptInv` says instead who *answers* for the level of a slot of `maxCover` (`Answered`):
  before triage by its data, from then on by the cover recorded for it, in `newInputC` and
  in the hub the same, and at last `corpusCover`. An input is dropped only when the table
  of the corpus is above its cover, so another one answers. The theorem rests on
  `HonestInv`, which turns answering into exhibiting.

*Cluster* (any hubs, inputs, crashes and any number of faults).

* `TypeCorrect`: `TypeOK`.
* `CorpusReachesHubs` and `IdsUnique`: `InputsReachHubs` and `UniqueIds`. They are not inductive: a
  served request of an old registration could take away what a new one has pending.
  `ReachInv` adds `CallState` (how the state of a call fits its connection: only a hub
  with a live connection waits, a waiting `Sync` carries the hub's present id, a reply
  exists only when done) and `IdsIssued` (ids come from `idSeq`, and no late `Sync`
  carries the id of a live hub). The proof goes through the steps that register a hub
  (`ConnectReach`), serve a request (`RequestReach`), and touch one hub (`HubReach`);
  steps of the others leave its state alone (`SameReach`).
* `CrashersDeduplicated`: `OneCrasherPerSuppression`. `DedupInv` adds `SuppressionFirst`:
  the suppression of each crasher on disk is on disk, in memory it is a superset of the
  disk, and the one being saved has no crasher yet. It is the order of the writes in
  `NewCrasher` that makes it inductive; a crash inside a write changes no whole file
  (`CrashLeaves`), a failed write is excused by the condition `diskFaults = 0`.

* `AckedInputsKept`: `AckedInputsOnDisk`, with `CorpusOnDisk` (as long as no write failed,
  what is in memory is on disk, but for the empty input, which may be that of a torn file),
  since `NewInput` takes an input it has in memory for one it has on disk.
* `SmashedOnce`: `AtMostOneSmash`. `SmashInv` counts, for each input, the places from which it
  may still be handed out to be smashed (`Copies`: the queue of a hub, a reply, what is
  pending for a hub) together with the times it was; each is paid for by the new file in the
  corpus directory or by a write that failed (`Paid`). `NewInput` leaves the
  smashing to the finder alone, and only of an input that is not in memory; `Sync` and its
  reply move a copy, a lost connection or registration drops it.
* `ExecutionsCounted`: `StatsConserved`. The sums over hubs are written as cardinalities of
  sets of units (`Units`), for which the library has theorems where sums have none.
  `StatsInv` adds that they are finite and `Undisturbed`: before the first fault every hub
  that has dialed is connected under an id the coordinator knows, hence no `Sync` is
  dropped. Serving a `Sync` moves the units it carries, `StartSync` those of the hub.

* `ImplementsCorpusService`: `CorpusServiceSpec`. Initial states map to initial states and
  every step to one of `CorpusService` or a stutter (`ServiceStep`), under `ServiceInv`. A hub
  that hands an input to a worker knows nothing of the directory, so the invariant follows
  the inputs back: whatever waits in a queue, a reply or a pending list, or is in memory, is
  stored, the empty input of a torn file, or was handed in and a write has failed
  (`InputsGenuine`); every request, also one of
  a connection long broken, carries an input that was handed in (`RequestsSubmitted`); the
  directory is never empty and never ahead of memory, and after a crash memory is what
  will be loaded from it (`CorpusMirrored`). Inputs of the directory never go away, which
  is why the queue of a hub stays genuine across restarts (`GenuineGrows`).

*Scores* (any inputs, any number of them, any cover). `RankingInvariant` carries the
invariants of the loops: candidates are the best scanned so far (`ScanInv`); a slot is
served, unreachable, or still has a live candidate ahead of the walk (`StrikeInv`), because
striking out happens only at slots the favored input reaches itself; sums grow by the weights
(`SumsInv`). From it `RankingTyped`, `FavoredSetCorrect` and
`DrawsFollowScores`, which also shows that the binary search of `generate` finds exactly the
input whose range a random number falls into.

*SonarLog* (any goroutines, region and record lengths). Places are handed out below the
position (`PlacesTaken`); without strays a pending copy touches no logged record but its own
(`PendingApart`), and a logged record is whole or about to be copied (`WholeOrPending`).
Hence `LogTyped` and `RecordsDoNotTear`.

`LogParsedWhole` (`LogParsed`) needs in addition that the log is a chain (`LogChain`: each
record begins where the one before it ends, the first at 0, the last ends at the position
the reply carries) and that sizes are known (`SizesKnown`). The parser is a recursive
function; that it exists is proved from the least-number principle (`Least`, `ParseExists`):
it calls itself only further on in the region. `ParsesLog` takes the least record from which
on what is parsed is what was logged, and finds that it is the first.

*SonarSites* (any operands, thresholds and samples). `SkipsAreEarned` (`SkipEarned`):
`FuzzCounted` (`takenFuzz` is the number of samples of fuzzing) and `FirstKept` (a site that
is not dynamic remembers its first sample, and the others agree with it in an operand) make
what `SonarSite` remembers enough to justify a skip by the history.

*SonarValues* (any base and width, inputs of any length, logs of any length and operands that
`SonarAssumption` allows: integers are compared in one width, and beyond the operand of a
narrower type a constant holds only a filling). The invariant is `SamplesRight`
(`SamplesInvariant`): the operands are those of the sample at hand, trimmed; when the sample
has been tried, the key of each of its replacements that the input has a place for is taken;
and what `check` makes of each pair in `checked`, for the kind of sample that tried it, has
been tested. `EvaluatesExactly` (`EvaluateExact`) needs the first of these. The number of a sequence of bytes is a recursive function;
`ReadingExists` shows that there is one and what it is at each place, by descent from the
last place (`Downward`, from `Least`), and everything else is said of places. `Trimmed` says
what `trim` leaves. If the bytes dropped are the sign of what is left, the extended and the
full operand are filled with it above place k, a filling stands for itself (`Filled`: 0 for
zeros, -1 for bytes 0xff), so both read the same (`Restored`). If an unsigned comparison
dropped the same bytes of both operands, the order of the two numbers is decided at the
highest digit that differs (`ReadsAlike`), except when one operand now ends in a sign bit and
the other does not: extension makes the former the larger, as it was, because its highest
digit is (`SignsDiffer`). Two pairs of numbers in the same order give the same answers
to all six operators (`Outcome`).

`HintsAreComplete` (`HintsComplete`) needs nothing of a state but `SamplesRight`. `HintTested`
says that for each pair of sequences in `relatives` whose key no other pair has taken, and each
place at which the input holds the first, some tested input has the second there and all else
as it was, or the first `MaxHint` bytes of that (`Spliced`, `UpTo`): this sample tried the
pair or an earlier one did, whatever its kind. What stands where nothing is cut stands in the
hint (`CutHolds`). The rest is which pairs there are:

* `LengthRight` (`LengthFollows`): the byte before a string that holds its length is among the
  five that `check` adjusts, is not overwritten by the string, and holds the new length, since
  a sample of strings tried the pair (`LengthTested`) and the hint is not cut;
* `ValueRight` (`ValueReached`): adding 1 or -1 to a number changes a place by the carry that
  arrives there, the carry at a place depends only on the bytes below (`CarryStep`,
  `CarryNext`), and `increment` and `decrement` do this to the bytes kept (`MovedBytes`). So
  the low bytes of the neighbour are those the worker computes from its trimmed operands
  (`NearLow`), the other bytes are the ones already in the input (`SwapReached`), and the
  same holds in reverse (`SwapsReversed`);
* `VarintRight` (`VarintReached`): `PutUvarint` is a recursive function that exists
  (`PutUvarintSteps`), writes what reads as its argument (`PutEncodes`, for the least number
  with which it would not), and a number has only one such encoding (`VarintUnique`, for the
  shortest sequence that would be another). So a varint of the operand in the input is the one
  `encodings` looks for. `Wrap` does nothing to an operand: it has at most `Wide` bytes
  (`InWidth`).

*Testee* (any inputs, output, limits, pipe and buffer, any number of tests and slow runs).
The parts of the invariant are in `Testee` under "The inductive strengthening", checked by
TLC before they were proved:

* `ProcessInv` (only the worker's process may be alive, and it is shut down once) gives
  `NoFatalCall` and `MappingNotShared`; `FillInv` gives `ReaderHasRoom` (a buffer that slides
  when more than three quarters are full ends a turn with at most three quarters);
* `RequestInv` (one request is under way, it is about the input in the region, and what
  answers it is the outcome of that input) and `VerdictInv` give `ImplementsService`: initial
  states map to initial ones, and each step to `Ask`, `Reply` or a stutter (`ServiceStep`);
* `CountInv` gives `RetriesCounted`;
* `KillInv` (an interrupt has set the flag, a replacement is a retry) gives `OwnKillsSilent`;
* `CauseInv` (no process ends without a cause), `TimeInv` (a `startTime` is that of the
  present execution), `LateInv` (mark, signal and verdict of the watcher follow an overdue
  execution of this process) and `QueueInv` (the same of queued crashers) give
  `BlameAfterTimeout`.

Only model-checked: liveness under fairness (`EveryHubLearns`, `CallsReturn`, `BarrierOpens`,
`SendersFreed`, `CrashersReachHub`, `FoundInputsTriaged`, `TestReturns`, `HelpersEnd`), which
is out of the prover's reach, as is `ENABLED`; `TextKept` and `StructureFound` of `Verse`,
whose passes are `RECURSIVE` operators.

## 6. Not modelled

Byte-level work computes inputs, which the models choose freely: the mutations of
`mutator.go`, the candidates of `minimizeInput` and `smash`, the random generation from a
verse (during which all workers share its random state and `KeyValNode.delim`, a data race
that changes only what is generated), the extraction of a suppression from output, the
replacements of sonar in upper and lower case, the conversion of Go values to bytes in
`serialize`. In `Verse`, blanks at the end of a text make no token, as in the code, and the cut
of a character beyond one byte when it is generated is left out.

Two simplifications of what is modelled. In
`Testee`, `Start` waits until the helpers of the last but one process have ended, which
`newTestee` does not, so at most two generations of helpers overlap; a watcher that sleeps
longer than that has only a signal left for its own process, which is gone. `Check` leaves out the
statistics that `periodicCheck` sends over `syncC` at that point, and `ReportCrasher` the
re-tests and the minimization of `processCrasher`; both are steps of the worker in `Hub`
(`PeriodicCheck`, `SendStats`, `MinimizeCrasher`).

`go-fuzz-build` is a compiler pass over Go syntax trees, libFuzzer's entry point, the
platform layers (`sys_*.go`) and the embedded assets are system calls and generated code; none
keeps state that others depend on. Flags, logging and the HTTP statistics page are left out,
and so is the exit of a process two seconds after SIGINT.

## 7. Plan

Done: all modules above, theorems for every safety invariant of the runs but those of
`Verse`, and both refinements (`Testee` of `TestService`, `Cluster` of `CorpusService`). What
could follow: `TextKept` of `Verse`, after its passes and `Prints` have become recursive
functions on sets of nodes of bounded depth; each pass keeps what is printed at one `Cut` at a
time, so the argument is that of `PutEncodes`, by the shortest sequence that loses text.
