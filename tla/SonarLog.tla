------------------------------ MODULE SonarLog ------------------------------
(***************************************************************************)
(* The comparison log a testee shares with its worker.  Instrumented code  *)
(* appends records without a lock (go-fuzz-dep/sonar.go): a goroutine      *)
(* reserves its place with a compare-and-swap and copies afterwards.  The  *)
(* main loop rewinds the log for every test, and the worker parses what    *)
(* the reply says was written (parseSonarData).  Goroutines the fuzzed     *)
(* function started may outlive the test they belong to.                   *)
(***************************************************************************)
EXTENDS Integers, Sequences, FiniteSets

CONSTANTS
  Goroutines,    \* those of the fuzzed program
  Main,          \* the one that runs the main loop and calls the function
  RegionSize,    \* SonarRegionSize
  SonarHdrLen,
  Operands,      \* possible lengths of the two operands of a record together
  MaxTests, MaxCalls   \* bounds

ASSUME LogAssumption ==
  /\ Main \in Goroutines
  /\ RegionSize \in Nat /\ SonarHdrLen \in Nat \ {0}
  /\ \A n \in Operands : n \in Nat
  /\ MaxTests \in Nat /\ MaxCalls \in Nat

VARIABLES
  sonarRegion,   \* the shared memory: a cell tells whose byte it holds
  sonarPos,
  routine,       \* per goroutine: where it is in Sonar, what it appends, and pos
  stage,         \* of the test: "idle", "running", "replied"
  replyPos,      \* the length sent with the reply
  logged,        \* history: records that reserved a place in this test's log
  parsed,        \* what the worker made of the last log
  stray,         \* history: a copy was pending when the test started or ended
  tests, calls
logVars == <<sonarRegion, sonarPos, routine, stage, replyPos, logged, parsed,
             stray, tests, calls>>

Blank   == [rec |-> 0, size |-> 0, off |-> 0]
Garbled == [rec |-> 0, size |-> 0, at |-> 0]
Away    == [pc |-> "away", rec |-> 0, size |-> 0, at |-> 0]

LogInit ==
  /\ sonarRegion = [p \in 0 .. RegionSize - 1 |-> Blank]
  /\ sonarPos = 0
  /\ routine = [g \in Goroutines |-> Away]
  /\ stage = "idle"
  /\ replyPos = 0
  /\ logged = <<>>
  /\ parsed = <<>>
  /\ stray = FALSE
  /\ tests = 0
  /\ calls = 0

CopyPending == \E g \in Goroutines : routine[g].pc = "copy"

-----------------------------------------------------------------------------
(* The main loop.                                                          *)

\* Faulty variant: the log is not rewound.
StartTestKeeping ==
  /\ stage = "idle"
  /\ tests < MaxTests
  /\ routine' = [routine EXCEPT ![Main].pc = "code"]
  /\ stage' = "running"
  /\ logged' = <<>>
  /\ stray' = CopyPending
  /\ tests' = tests + 1
  /\ UNCHANGED <<sonarRegion, sonarPos, replyPos, parsed, calls>>

\* A request arrives: the log is rewound and the function called.
StartTest ==
  /\ stage = "idle"
  /\ tests < MaxTests
  /\ sonarPos' = 0
  /\ routine' = [routine EXCEPT ![Main].pc = "code"]
  /\ stage' = "running"
  /\ logged' = <<>>
  /\ stray' = CopyPending
  /\ tests' = tests + 1
  /\ UNCHANGED <<sonarRegion, replyPos, parsed, calls>>

\* The function returns; the reply carries the position of the log.
Reply ==
  /\ stage = "running"
  /\ routine[Main].pc = "code"
  /\ replyPos' = sonarPos
  /\ routine' = [routine EXCEPT ![Main].pc = "away"]
  /\ stage' = "replied"
  /\ stray' = (stray \/ CopyPending)
  /\ UNCHANGED <<sonarRegion, sonarPos, logged, parsed, tests, calls>>

-----------------------------------------------------------------------------
(* Sonar, on any goroutine.                                                *)

\* The fuzzed function starts a goroutine, or one ends.
Go(g) ==
  /\ g # Main /\ routine[g].pc = "away" /\ stage = "running"
  /\ routine' = [routine EXCEPT ![g].pc = "code"]
  /\ UNCHANGED <<sonarRegion, sonarPos, stage, replyPos, logged, parsed, stray, tests, calls>>

Exit(g) ==
  /\ g # Main /\ routine[g].pc = "code"
  /\ routine' = [routine EXCEPT ![g] = Away]
  /\ UNCHANGED <<sonarRegion, sonarPos, stage, replyPos, logged, parsed, stray, tests, calls>>

\* A comparison is serialised and the position loaded.
Load(g) ==
  /\ routine[g].pc = "code"
  /\ calls < MaxCalls
  /\ \E n \in Operands :
       routine' = [routine EXCEPT ![g] =
         [pc |-> "swap", rec |-> calls + 1, size |-> SonarHdrLen + n, at |-> sonarPos]]
  /\ calls' = calls + 1
  /\ UNCHANGED <<sonarRegion, sonarPos, stage, replyPos, logged, parsed, stray, tests>>

Fits(r) == r.at + r.size <= RegionSize

Full(g) ==
  /\ routine[g].pc = "swap"
  /\ ~Fits(routine[g])
  /\ routine' = [routine EXCEPT ![g].pc = "code"]
  /\ UNCHANGED <<sonarRegion, sonarPos, stage, replyPos, logged, parsed, stray, tests, calls>>

\* Faulty variant: the position is stored without a comparison.
Whatever(r) == TRUE

Unmoved(r) == r.at = sonarPos

Swap(g) ==
  /\ routine[g].pc = "swap"
  /\ Fits(routine[g])
  /\ Unmoved(routine[g])
  /\ sonarPos' = routine[g].at + routine[g].size
  /\ routine' = [routine EXCEPT ![g].pc = "copy"]
  /\ logged' = IF stage # "running" THEN logged
               ELSE Append(logged, [rec |-> routine[g].rec, size |-> routine[g].size,
                                    at |-> routine[g].at])
  /\ UNCHANGED <<sonarRegion, stage, replyPos, parsed, stray, tests, calls>>

Reload(g) ==
  /\ routine[g].pc = "swap"
  /\ Fits(routine[g])
  /\ routine[g].at # sonarPos
  /\ routine' = [routine EXCEPT ![g].at = sonarPos]
  /\ UNCHANGED <<sonarRegion, sonarPos, stage, replyPos, logged, parsed, stray, tests, calls>>

Span(r) == r.at .. r.at + r.size - 1

Copy(g) ==
  /\ routine[g].pc = "copy"
  /\ sonarRegion' = [p \in DOMAIN sonarRegion |->
       IF p \in Span(routine[g])
       THEN [rec |-> routine[g].rec, size |-> routine[g].size, off |-> p - routine[g].at]
       ELSE sonarRegion[p]]
  /\ routine' = [routine EXCEPT ![g].pc = "code"]
  /\ UNCHANGED <<sonarPos, stage, replyPos, logged, parsed, stray, tests, calls>>

-----------------------------------------------------------------------------
(* The worker.  A header that is not a record's own yields arbitrary       *)
(* lengths: the parser dies with "corrupted sonar data", or goes on with   *)
(* garbage; both end the parse here.                                       *)

Intact(p) ==
  /\ sonarRegion[p].size # 0
  /\ p + sonarRegion[p].size <= replyPos
  /\ \A o \in 0 .. sonarRegion[p].size - 1 :
       sonarRegion[p + o] = [rec |-> sonarRegion[p].rec,
                             size |-> sonarRegion[p].size, off |-> o]

\* What is parsed from position p on.
parse[p \in 0 .. RegionSize] ==
  IF replyPos - p <= SonarHdrLen THEN <<>>
  ELSE IF ~Intact(p) THEN <<Garbled>>
  ELSE <<[rec |-> sonarRegion[p].rec, size |-> sonarRegion[p].size, at |-> p]>>
         \o parse[p + sonarRegion[p].size]

parseSonarData == parse[0]

Parse ==
  /\ stage = "replied"
  /\ stage' = "idle"
  /\ parsed' = parseSonarData
  /\ UNCHANGED <<sonarRegion, sonarPos, routine, replyPos, logged, stray, tests, calls>>

SonarCall(g) == Load(g) \/ Full(g) \/ Swap(g) \/ Reload(g) \/ Copy(g)

LogNext ==
  \/ StartTest \/ Reply \/ Parse
  \/ \E g \in Goroutines : Go(g) \/ Exit(g) \/ SonarCall(g)

LogSpec == LogInit /\ [][LogNext]_logVars

-----------------------------------------------------------------------------
Record  == [rec : 0 .. MaxCalls, size : Nat, at : 0 .. RegionSize]
Routine == [pc : {"away", "code", "swap", "copy"}, rec : 0 .. MaxCalls,
            size : Nat, at : 0 .. RegionSize]

\* The log never grows past the region, whoever appends to it.
LogTypeOK ==
  /\ DOMAIN sonarRegion = 0 .. RegionSize - 1
  /\ sonarPos \in 0 .. RegionSize /\ replyPos \in 0 .. RegionSize
  /\ routine \in [Goroutines -> Routine]
  /\ \A g \in Goroutines : routine[g].pc = "copy" => Fits(routine[g])
  /\ stage \in {"idle", "running", "replied"}
  /\ logged \in Seq(Record)
  /\ stray \in BOOLEAN
  /\ calls \in 0 .. MaxCalls

\* Every record logged during a test is whole in the region when the reply is
\* sent and until the next test, unless a goroutine was between reserving and
\* copying when the test started or ended: records neither overlap nor tear.
RecordsWhole ==
  stage # "running" /\ ~stray =>
    \A i \in DOMAIN logged : \A p \in Span(logged[i]) :
      sonarRegion[p] = [rec |-> logged[i].rec, size |-> logged[i].size,
                        off |-> p - logged[i].at]

\* The worker then parses these records, all of them and in the order of their
\* reservation, except for a last one of two empty operands, which it drops.
LogParsed ==
  stage = "idle" /\ ~stray =>
    parsed = IF logged # <<>> /\ logged[Len(logged)].size = SonarHdrLen
             THEN SubSeq(logged, 1, Len(logged) - 1) ELSE logged
=============================================================================
