------------------------------- MODULE Testee -------------------------------
(***************************************************************************)
(* One test binary of a worker (testee.go): the worker's calls of          *)
(* TestBinary.test and close, the child processes it starts one after the  *)
(* other on the same shared mapping, the main loop of the runtime in each  *)
(* child (go-fuzz-dep/main.go), and the three helper goroutines of each    *)
(* Testee: stdout reader, hang watcher, shutdown watcher.  The goroutine   *)
(* that handles SIGINT (main.go) and the worker's queue of crashers        *)
(* (worker.go) close the circle: what a test says ends up in a report.     *)
(*                                                                         *)
(* A Testee has one of two places; the bound is that nothing is left of    *)
(* the last but one when the next is started.  Time appears in startTime,  *)
(* which holds 0, -1 or the number of the execution that was started, and  *)
(* in overdue, the executions that began more than -timeout ago.  A        *)
(* failing cmd.Start is tried again until it succeeds.                     *)
(***************************************************************************)
EXTENDS Integers, FiniteSets, Sequences

CONSTANTS
  Inputs,         \* inputs the worker tests
  Crashing,       \* those that make the program die
  Hanging,        \* those that make it run for ever
  Chatter,        \* pieces of output a run prints before its outcome
  NoInput,        \* an empty region, an empty pipe
  Limits,         \* executions of a process before it is replaced (10000)
  PipeCap,        \* pieces that fit into the stdout pipe
  BufSize,        \* testeeBufferSize in pieces
  MaxTests,       \* bound: calls of test
  MaxSlow         \* bound: runs that pass the timeout though they would end

ASSUME TesteeAssumption ==
  /\ Crashing \subseteq Inputs /\ Hanging \subseteq Inputs
  /\ Crashing \cap Hanging = {}
  /\ Chatter \in [Inputs -> Nat]
  /\ NoInput \notin Inputs
  /\ \A n \in Limits : n \in Nat \ {0} /\ PipeCap \in Nat \ {0}
  /\ BufSize \in Nat \ {0} /\ BufSize % 4 = 0
  /\ MaxTests \in Nat /\ MaxSlow \in Nat

Procs == {1, 2}
Bad   == Crashing \cup Hanging

VARIABLES
  \* the worker goroutine
  wpc, data, testee, verdict, execsOf, execs, restarts, crasherQueue, answer,
  \* the shared mapping
  inputRegion, coverRegion,
  \* the child processes and their pipes
  proc, sig, run, toPrint, request, reply, stdout,
  \* fields of Testee shared with its goroutines
  startTime, down,
  \* helper goroutines, one of each per process
  reader, filled, watcher, stopper,
  \* main.go
  shutdown, shutdownC,
  \* history and bounds
  maxExecs, tests, overdue, cause, report

workerVars == <<wpc, data, testee, verdict, execsOf, execs, restarts, crasherQueue, answer>>
mapping    == <<inputRegion, coverRegion>>
childVars  == <<proc, sig, run, toPrint, request, reply, stdout>>
helperVars == <<reader, filled, watcher, stopper>>
mainVars   == <<shutdown, shutdownC>>
history    == <<maxExecs, tests, overdue, cause, report>>
vars       == <<workerVars, mapping, childVars, startTime, down, helperVars, mainVars, history>>

NoAnswer == [input |-> NoInput, cover |-> NoInput, kind |-> "none"]
NoReport == [input |-> NoInput]

Init ==
  /\ wpc = "loop" /\ data = NoInput /\ testee = 0 /\ verdict = "none"
  /\ execsOf = 0 /\ execs = 0 /\ restarts = 0 /\ crasherQueue = <<>>
  /\ answer = NoAnswer
  /\ inputRegion = NoInput /\ coverRegion = NoInput
  /\ proc = [p \in Procs |-> "none"] /\ sig = [p \in Procs |-> "none"]
  /\ run = [p \in Procs |-> NoInput] /\ toPrint = [p \in Procs |-> 0]
  /\ request = [p \in Procs |-> FALSE] /\ reply = [p \in Procs |-> NoInput]
  /\ stdout = [p \in Procs |-> 0]
  /\ startTime = [p \in Procs |-> 0] /\ down = [p \in Procs |-> FALSE]
  /\ reader = [p \in Procs |-> "none"] /\ filled = [p \in Procs |-> 0]
  /\ watcher = [p \in Procs |-> "none"] /\ stopper = [p \in Procs |-> "none"]
  /\ shutdown = FALSE /\ shutdownC = FALSE
  /\ maxExecs \in Limits
  /\ tests = 0 /\ overdue = {} /\ report = NoReport
  /\ cause = [p \in Procs |-> "none"]

-----------------------------------------------------------------------------
(* Signals.  A signal is sent at once and takes effect later; a process    *)
(* that has exited ignores it.  SIGKILL replaces a pending SIGABRT.        *)

Alive(p) == proc[p] \in {"idle", "busy"}
Signal(p, s, why) ==
  IF Alive(p)
    THEN /\ sig' = [sig EXCEPT ![p] = IF @ = "kill" THEN "kill" ELSE s]
         /\ cause' = [cause EXCEPT ![p] = IF @ = "none" THEN why ELSE @]
    ELSE UNCHANGED <<sig, cause>>

-----------------------------------------------------------------------------
(* The worker: Worker.loop around TestBinary.test.                         *)

Goto(l) == wpc' = l

\* The head of Worker.loop, which looks at the flag and at queued crashers first.
ReportCrasher ==
  /\ wpc = "loop" /\ ~shutdown /\ crasherQueue # <<>>
  /\ report' = crasherQueue[Len(crasherQueue)]
  /\ crasherQueue' = SubSeq(crasherQueue, 1, Len(crasherQueue) - 1)
  /\ UNCHANGED <<wpc, data, testee, verdict, execsOf, execs, restarts, answer, mapping,
                 childVars, startTime, down, helperVars, mainVars,
                 maxExecs, tests, overdue, cause>>

\* Any test the loop makes; there are many within one turn, where neither the flag
\* nor the queue is looked at.
BeginTest ==
  /\ wpc = "loop" /\ tests < MaxTests
  /\ data' \in Inputs /\ tests' = tests + 1
  /\ answer' = NoAnswer /\ report' = NoReport
  /\ Goto("check")
  /\ UNCHANGED <<testee, verdict, execsOf, execs, restarts, crasherQueue, mapping,
                 childVars, startTime, down, helperVars, mainVars, maxExecs, overdue, cause>>

\* The loop condition, and Worker.shutdown after it; with periodicCheck below.
LeaveLoop ==
  /\ wpc = "loop" /\ shutdown
  /\ Goto("close")
  /\ UNCHANGED <<data, testee, verdict, execsOf, execs, restarts, crasherQueue, answer, mapping,
                 childVars, startTime, down, helperVars, mainVars, history>>

\* Faulty variant: restarts are not counted.
CheckUncounted ==
  /\ wpc = "check"
  /\ IF shutdown THEN Goto("close") /\ UNCHANGED execs
                 ELSE execs' = execs + 1 /\ Goto(IF testee = 0 THEN "start" ELSE "test")
  /\ UNCHANGED <<data, testee, verdict, execsOf, restarts, crasherQueue, answer, mapping,
                 childVars, startTime, down, helperVars, mainVars, history>>

\* The head of the loop in TestBinary.test: periodicCheck, then the counters.
Check ==
  /\ wpc = "check"
  /\ IF shutdown
       THEN Goto("close") /\ UNCHANGED <<execs, restarts>>
       ELSE /\ execs' = execs + 1
            /\ restarts' = IF testee = 0 THEN restarts + 1 ELSE restarts
            /\ Goto(IF testee = 0 THEN "start" ELSE "test")
  /\ UNCHANGED <<data, testee, verdict, execsOf, crasherQueue, answer, mapping,
                 childVars, startTime, down, helperVars, mainVars, history>>

\* newTestee: pipes, process and the three goroutines.
Ended(p) == /\ proc[p] \in {"none", "exited"}
            /\ reader[p] \in {"none", "done"} /\ watcher[p] \in {"none", "done"}
            /\ stopper[p] \in {"none", "done"}

Start ==
  /\ wpc = "start"
  /\ \E p \in Procs :
       /\ Ended(p) /\ \A q \in Procs : Ended(q) => p <= q
       /\ testee' = p
       /\ proc' = [proc EXCEPT ![p] = "idle"]
       /\ reader' = [reader EXCEPT ![p] = "select"]
       /\ watcher' = [watcher EXCEPT ![p] = "select"]
       /\ stopper' = [stopper EXCEPT ![p] = "select"]
       /\ filled' = [filled EXCEPT ![p] = 0]
       /\ startTime' = [startTime EXCEPT ![p] = 0]
       /\ down' = [down EXCEPT ![p] = FALSE]
       /\ cause' = [cause EXCEPT ![p] = "none"]
  /\ Goto("test")
  /\ UNCHANGED <<data, verdict, execsOf, execs, restarts, crasherQueue, answer, mapping,
                 sig, run, toPrint, request, reply, stdout, mainVars, maxExecs, tests, overdue, report>>

\* Faulty variant: a process to be replaced is forgotten, not shut down.
PrepareForgetting ==
  /\ wpc = "test"
  /\ IF execsOf + 1 > maxExecs
       THEN /\ testee' = 0 /\ execsOf' = 0 /\ Goto("check")
            /\ UNCHANGED <<inputRegion, startTime>>
       ELSE /\ execsOf' = execsOf + 1 /\ inputRegion' = data
            /\ startTime' = [startTime EXCEPT ![testee] = execs]
            /\ Goto("write") /\ UNCHANGED testee
  /\ UNCHANGED <<data, verdict, execs, restarts, crasherQueue, answer, coverRegion,
                 childVars, down, helperVars, mainVars, history>>

\* Testee.test up to the write; the process is replaced after maxExecs tests.
Prepare ==
  /\ wpc = "test"
  /\ execsOf' = execsOf + 1
  /\ IF execsOf + 1 > maxExecs
       THEN /\ Signal(testee, "kill", "recycle")
            /\ verdict' = "retry" /\ Goto("shutdown")
            /\ UNCHANGED <<inputRegion, startTime>>
       ELSE /\ inputRegion' = data
            /\ startTime' = [startTime EXCEPT ![testee] = execs]
            /\ Goto("write")
            /\ UNCHANGED <<verdict, sig, cause>>
  /\ UNCHANGED <<data, testee, execs, restarts, crasherQueue, answer, coverRegion,
                 proc, run, toPrint, request, reply, stdout, down, helperVars, mainVars,
                 maxExecs, tests, overdue, report>>

\* The write of the request fails only when the other end is gone.
Write ==
  /\ wpc = "write"
  /\ IF Alive(testee)
       THEN /\ request' = [request EXCEPT ![testee] = TRUE]
            /\ Goto("read") /\ UNCHANGED verdict
       ELSE /\ verdict' = "retry" /\ Goto("shutdown") /\ UNCHANGED request
  /\ UNCHANGED <<data, testee, execsOf, execs, restarts, crasherQueue, answer, mapping,
                 proc, sig, run, toPrint, reply, stdout, startTime, down, helperVars, mainVars,
                 history>>

\* Faulty variant: the error of the read is dropped.
ReadUnchecked ==
  /\ wpc = "read"
  /\ reply[testee] # NoInput \/ ~Alive(testee)
  /\ verdict' = "ok" /\ Goto("judge")
  /\ reply' = [reply EXCEPT ![testee] = NoInput]
  /\ UNCHANGED <<data, testee, execsOf, execs, restarts, crasherQueue, answer, mapping,
                 proc, sig, run, toPrint, request, stdout, startTime, down, helperVars, mainVars,
                 history>>

\* io.ReadFull: the reply, or the end of a pipe without one.
Read ==
  /\ wpc = "read"
  /\ reply[testee] # NoInput \/ ~Alive(testee)
  /\ verdict' = IF reply[testee] # NoInput THEN "ok" ELSE "crash"
  /\ reply' = [reply EXCEPT ![testee] = NoInput]
  /\ Goto("judge")
  /\ UNCHANGED <<data, testee, execsOf, execs, restarts, crasherQueue, answer, mapping,
                 proc, sig, run, toPrint, request, stdout, startTime, down, helperVars, mainVars,
                 history>>

\* hanged is loaded, startTime is stored: two atomic operations.
LoadHanged ==
  /\ wpc = "judge"
  /\ verdict' = IF startTime[testee] = -1 THEN "hang" ELSE verdict
  /\ Goto("clear")
  /\ UNCHANGED <<data, testee, execsOf, execs, restarts, crasherQueue, answer, mapping,
                 childVars, startTime, down, helperVars, mainVars, history>>

ClearStart ==
  /\ wpc = "clear"
  /\ startTime' = [startTime EXCEPT ![testee] = 0]
  /\ IF verdict = "ok"
       THEN /\ answer' = [input |-> data, cover |-> coverRegion, kind |-> "ok"]
            /\ verdict' = "none" /\ data' = NoInput /\ Goto("loop")
       ELSE Goto("shutdown") /\ UNCHANGED <<answer, verdict, data>>
  /\ UNCHANGED <<testee, execsOf, execs, restarts, crasherQueue, mapping,
                 childVars, down, helperVars, mainVars, history>>

\* TestBinary.close: nothing to shut down, or the same shutdown as below.
Close ==
  /\ wpc = "close"
  /\ IF testee = 0 THEN Goto("closed") /\ UNCHANGED verdict
                   ELSE Goto("shutdown") /\ verdict' = "close"
  /\ UNCHANGED <<data, testee, execsOf, execs, restarts, crasherQueue, answer, mapping,
                 childVars, startTime, down, helperVars, mainVars, history>>

\* Testee.shutdown: kill, close(downC), receive the output, wait, close.
Shutdown ==
  /\ wpc = "shutdown"
  /\ Signal(testee, "kill", "down")
  /\ down' = [down EXCEPT ![testee] = TRUE]
  /\ Goto("collect")
  /\ UNCHANGED <<data, testee, verdict, execsOf, execs, restarts, crasherQueue, answer, mapping,
                 proc, run, toPrint, request, reply, stdout, startTime, helperVars, mainVars,
                 maxExecs, tests, overdue, report>>

Collect ==
  /\ wpc = "collect" /\ reader[testee] = "send"
  /\ reader' = [reader EXCEPT ![testee] = "done"]
  /\ Goto("wait")
  /\ UNCHANGED <<data, testee, verdict, execsOf, execs, restarts, crasherQueue, answer, mapping,
                 childVars, startTime, down, filled, watcher, stopper, mainVars, history>>

\* What noteCrasher queues; the last three are history: the execution, the first
\* one of its process, and what ended the process.
Crash == [input |-> data, hang |-> verdict = "hang", exec |-> execs,
          first |-> execs - execsOf + 1, by |-> cause[testee]]

\* Faulty variant: the old process is kept for the retry.
WaitKeeping ==
  /\ wpc = "wait" /\ ~Alive(testee)
  /\ verdict' = "none" /\ Goto(IF verdict = "close" THEN "closed" ELSE "check")
  /\ UNCHANGED <<data, testee, execsOf, execs, restarts, crasherQueue, answer, mapping,
                 childVars, startTime, down, helperVars, mainVars, history>>

\* cmd.Wait, and where TestBinary.test goes from there.
Wait ==
  /\ wpc = "wait" /\ ~Alive(testee)
  /\ testee' = 0 /\ verdict' = "none" /\ execsOf' = 0
  /\ CASE verdict = "retry" -> Goto("check") /\ UNCHANGED <<data, answer, crasherQueue>>
       [] verdict = "close" -> Goto("closed") /\ UNCHANGED <<data, answer, crasherQueue>>
       [] OTHER -> /\ answer' = [input |-> data, cover |-> NoInput, kind |-> verdict]
                   /\ crasherQueue' = Append(crasherQueue, Crash)
                   /\ data' = NoInput
                   /\ Goto("loop")
  /\ UNCHANGED <<execs, restarts, mapping, childVars, startTime, down, helperVars,
                 mainVars, history>>

-----------------------------------------------------------------------------
(* The child: Main of go-fuzz-dep, and the tested program.                 *)

ChildRead(p) ==
  /\ proc[p] = "idle" /\ request[p]
  /\ proc' = [proc EXCEPT ![p] = "busy"]
  /\ request' = [request EXCEPT ![p] = FALSE]
  /\ run' = [run EXCEPT ![p] = inputRegion]
  /\ toPrint' = [toPrint EXCEPT ![p] = Chatter[inputRegion]]
  /\ coverRegion' = NoInput
  /\ UNCHANGED <<workerVars, inputRegion, sig, reply, stdout, startTime, down, helperVars,
                 mainVars, history>>

\* Output goes to a pipe; a full pipe blocks the program.
ChildPrint(p) ==
  /\ proc[p] = "busy" /\ toPrint[p] > 0 /\ stdout[p] < PipeCap
  /\ toPrint' = [toPrint EXCEPT ![p] = @ - 1]
  /\ stdout' = [stdout EXCEPT ![p] = @ + 1]
  /\ UNCHANGED <<workerVars, mapping, proc, sig, run, request, reply, startTime, down,
                 helperVars, mainVars, history>>

ChildReply(p) ==
  /\ proc[p] = "busy" /\ toPrint[p] = 0 /\ run[p] \notin Bad
  /\ coverRegion' = run[p]
  /\ reply' = [reply EXCEPT ![p] = run[p]]
  /\ run' = [run EXCEPT ![p] = NoInput]
  /\ proc' = [proc EXCEPT ![p] = "idle"]
  /\ UNCHANGED <<workerVars, inputRegion, sig, toPrint, request, stdout, startTime, down,
                 helperVars, mainVars, history>>

Exit(p, why) ==
  /\ proc' = [proc EXCEPT ![p] = "exited"]
  /\ run' = [run EXCEPT ![p] = NoInput]
  /\ toPrint' = [toPrint EXCEPT ![p] = 0]
  /\ request' = [request EXCEPT ![p] = FALSE]
  /\ sig' = [sig EXCEPT ![p] = "none"]
  /\ cause' = [cause EXCEPT ![p] = IF @ = "none" THEN why ELSE @]
  /\ UNCHANGED <<workerVars, mapping, reply, stdout, startTime, down, helperVars, mainVars,
                 maxExecs, tests, overdue, report>>

ChildCrash(p) == /\ proc[p] = "busy" /\ toPrint[p] = 0 /\ run[p] \in Crashing
                 /\ Exit(p, "crash")

\* A pending signal takes effect.  The program may delay SIGABRT, not SIGKILL.
ChildDies(p) == Alive(p) /\ sig[p] # "none" /\ Exit(p, "none")

-----------------------------------------------------------------------------
(* The helper goroutines of a Testee.                                      *)

\* The ticker fires, or downC is closed (from then on at every turn).
ReaderWakes(p) ==
  /\ reader[p] = "select"
  /\ reader' = [reader EXCEPT ![p] = "read"]
  /\ UNCHANGED <<workerVars, mapping, childVars, startTime, down, filled, watcher, stopper,
                 mainVars, history>>

\* Faulty variant: the buffer slides too late.
SlideLate(n) == IF n > BufSize THEN n - BufSize \div 2 ELSE n

\* The newest half of the buffer moves to its front when three quarters are full.
Slide(n) == IF n > (BufSize \div 4) * 3 THEN n - BufSize \div 2 ELSE n

ReaderReads(p) ==
  /\ reader[p] = "read" /\ stdout[p] > 0
  /\ LET room == BufSize - filled[p]
         n    == IF stdout[p] < room THEN stdout[p] ELSE room
     IN /\ filled' = [filled EXCEPT ![p] = Slide(@ + n)]
        /\ stdout' = [stdout EXCEPT ![p] = @ - n]
  /\ reader' = [reader EXCEPT ![p] = "select"]
  /\ UNCHANGED <<workerVars, mapping, proc, sig, run, toPrint, request, reply, startTime, down,
                 watcher, stopper, mainVars, history>>

\* The end of the pipe: all of it is read and the process is gone.
ReaderEnds(p) ==
  /\ reader[p] = "read" /\ stdout[p] = 0 /\ ~Alive(p)
  /\ reader' = [reader EXCEPT ![p] = "send"]
  /\ UNCHANGED <<workerVars, mapping, childVars, startTime, down, filled, watcher, stopper,
                 mainVars, history>>

\* Faulty variant: any execution in progress at a tick counts as hanging.
WatcherFiresEarly(p) ==
  /\ watcher[p] = "select" /\ startTime[p] # 0
  /\ watcher' = [watcher EXCEPT ![p] = "store"]
  /\ UNCHANGED <<workerVars, mapping, childVars, startTime, down, reader, filled, stopper,
                 mainVars, history>>

\* The hang watcher: startTime is read at a tick ...
WatcherFires(p) ==
  /\ watcher[p] = "select" /\ startTime[p] \in overdue
  /\ watcher' = [watcher EXCEPT ![p] = "store"]
  /\ UNCHANGED <<workerVars, mapping, childVars, startTime, down, reader, filled, stopper,
                 mainVars, history>>

\* ... marked, whatever it holds by now ...
WatcherStores(p) ==
  /\ watcher[p] = "store"
  /\ startTime' = [startTime EXCEPT ![p] = -1]
  /\ watcher' = [watcher EXCEPT ![p] = "abort"]
  /\ UNCHANGED <<workerVars, mapping, childVars, down, reader, filled, stopper,
                 mainVars, history>>

\* ... and the process is asked to print its stacks, then killed.
WatcherAborts(p) ==
  /\ watcher[p] = "abort"
  /\ Signal(p, "abrt", "hang")
  /\ watcher' = [watcher EXCEPT ![p] = "kill"]
  /\ UNCHANGED <<workerVars, mapping, proc, run, toPrint, request, reply, stdout, startTime,
                 down, reader, filled, stopper, mainVars, maxExecs, tests, overdue, report>>

\* Faulty variant: SIGABRT is trusted to end the process.
WatcherTrusts(p) ==
  /\ watcher[p] = "kill"
  /\ watcher' = [watcher EXCEPT ![p] = "done"]
  /\ UNCHANGED <<workerVars, mapping, childVars, startTime, down, reader, filled, stopper,
                 mainVars, history>>

WatcherKills(p) ==
  /\ watcher[p] = "kill"
  /\ Signal(p, "kill", "hang")
  /\ watcher' = [watcher EXCEPT ![p] = "done"]
  /\ UNCHANGED <<workerVars, mapping, proc, run, toPrint, request, reply, stdout, startTime,
                 down, reader, filled, stopper, mainVars, maxExecs, tests, overdue, report>>

WatcherEnds(p) ==
  /\ watcher[p] = "select" /\ down[p]
  /\ watcher' = [watcher EXCEPT ![p] = "done"]
  /\ UNCHANGED <<workerVars, mapping, childVars, startTime, down, reader, filled, stopper,
                 mainVars, history>>

\* Faulty variant: only shutdownC is watched.
StopperWaits(p) ==
  /\ stopper[p] = "select" /\ shutdownC
  /\ Signal(p, "kill", "interrupt")
  /\ stopper' = [stopper EXCEPT ![p] = "done"]
  /\ UNCHANGED <<workerVars, mapping, proc, run, toPrint, request, reply, stdout, startTime,
                 down, reader, filled, watcher, mainVars, maxExecs, tests, overdue, report>>

\* The shutdown watcher: downC or shutdownC, whichever is closed.
StopperEnds(p) ==
  /\ stopper[p] = "select"
  /\ \/ down[p] /\ UNCHANGED <<sig, cause>>
     \/ shutdownC /\ Signal(p, "kill", "interrupt")
  /\ stopper' = [stopper EXCEPT ![p] = "done"]
  /\ UNCHANGED <<workerVars, mapping, proc, run, toPrint, request, reply, stdout, startTime,
                 down, reader, filled, watcher, mainVars, maxExecs, tests, overdue, report>>

-----------------------------------------------------------------------------
(* SIGINT (main.go): the flag first, then the channel.                     *)

\* Faulty variant: the channel is closed before the flag is stored.
InterruptChannelFirst ==
  /\ ~shutdownC /\ shutdownC' = TRUE
  /\ UNCHANGED <<workerVars, mapping, childVars, startTime, down, helperVars, shutdown,
                 history>>

Interrupt ==
  /\ ~shutdown /\ shutdown' = TRUE
  /\ UNCHANGED <<workerVars, mapping, childVars, startTime, down, helperVars, shutdownC,
                 history>>

CloseShutdownC ==
  /\ shutdown /\ ~shutdownC /\ shutdownC' = TRUE
  /\ UNCHANGED <<workerVars, mapping, childVars, startTime, down, helperVars, shutdown,
                 history>>

\* Time passes: an execution in progress passes the timeout.
Endless(p) == proc[p] = "busy" /\ run[p] \in Hanging
Elapse ==
  /\ testee # 0 /\ startTime[testee] > 0
  /\ Endless(testee) \/ Cardinality(overdue) < MaxSlow
  /\ overdue' = overdue \cup {startTime[testee]}
  /\ UNCHANGED <<workerVars, mapping, childVars, startTime, down, helperVars, mainVars,
                 maxExecs, tests, cause, report>>

-----------------------------------------------------------------------------
Worker ==
  \/ ReportCrasher \/ BeginTest \/ LeaveLoop \/ Check \/ Start \/ Prepare
  \/ Write \/ Read \/ LoadHanged \/ ClearStart \/ Close \/ Shutdown \/ Collect \/ Wait
Child(p) == ChildRead(p) \/ ChildPrint(p) \/ ChildReply(p) \/ ChildCrash(p) \/ ChildDies(p)
StdoutReader(p) == ReaderWakes(p) \/ ReaderReads(p) \/ ReaderEnds(p)
HangWatcher(p) == WatcherFires(p) \/ WatcherStores(p) \/ WatcherAborts(p) \/ WatcherKills(p)
                  \/ WatcherEnds(p)

Next ==
  \/ Worker
  \/ \E p \in Procs : Child(p) \/ StdoutReader(p) \/ HangWatcher(p) \/ StopperEnds(p)
  \/ Interrupt \/ CloseShutdownC \/ Elapse

Spec == Init /\ [][Next]_vars

\* Some goroutine or child that can run does, and time passes.  Nothing is assumed
\* of the effect of SIGABRT or of the user.  No part of the system takes steps for
\* ever by itself, so weak fairness of all of them together is enough.
Step(p) == \/ ChildRead(p) \/ ChildPrint(p) \/ ChildReply(p) \/ ChildCrash(p)
           \/ sig[p] = "kill" /\ ChildDies(p)
           \/ StdoutReader(p) \/ HangWatcher(p) \/ StopperEnds(p)
Fairness == WF_vars(Worker \/ CloseShutdownC \/ Elapse \/ \E p \in Procs : Step(p))
FairSpec == Spec /\ Fairness

-----------------------------------------------------------------------------
\* Every variable has its type.
TypeOK ==
  /\ wpc \in {"loop", "check", "start", "test", "write", "read", "judge", "clear",
              "shutdown", "collect", "wait", "close", "closed"}
  /\ data \in Inputs \cup {NoInput} /\ testee \in Procs \cup {0}
  /\ verdict \in {"none", "ok", "crash", "hang", "retry", "close"}
  /\ execsOf \in Nat /\ execs \in Nat /\ restarts \in Nat
  /\ inputRegion \in Inputs \cup {NoInput} /\ coverRegion \in Inputs \cup {NoInput}
  /\ proc \in [Procs -> {"none", "idle", "busy", "exited"}]
  /\ sig \in [Procs -> {"none", "abrt", "kill"}]
  /\ run \in [Procs -> Inputs \cup {NoInput}] /\ toPrint \in [Procs -> Nat]
  /\ request \in [Procs -> BOOLEAN] /\ reply \in [Procs -> Inputs \cup {NoInput}]
  /\ stdout \in [Procs -> Nat]
  /\ startTime \in [Procs -> Nat \cup {-1}] /\ down \in [Procs -> BOOLEAN]
  /\ reader \in [Procs -> {"none", "select", "read", "send", "done"}]
  /\ filled \in [Procs -> Nat]
  /\ watcher \in [Procs -> {"none", "select", "store", "abort", "kill", "done"}]
  /\ stopper \in [Procs -> {"none", "select", "done"}]
  /\ shutdown \in BOOLEAN /\ shutdownC \in BOOLEAN

\* "cannot test" and "cannot shutdown: testee is already shutdown", the fatal
\* assertions of test and shutdown (testee.go:260, 306), are never reached.
NeverFatal == wpc \in {"test", "shutdown"} => testee # 0 /\ ~down[testee]

\* All processes of a test binary share one mapping, so at most one is alive: a
\* process is started only after the one before was killed and waited for.
OneProcess == Cardinality({p \in Procs : Alive(p)}) <= 1

Reported == report # NoReport

\* The fuzzer's own kills look like crashes to the test they hit: the one of a
\* SIGINT in the middle of a test (main.go stores the flag before it closes the
\* channel) and the planned replacement after maxExecs.  Neither is reported.
OwnKillsNotReported == Reported => report.by \notin {"interrupt", "recycle"}

\* A hang is reported, or a good input blamed, only if this or an earlier execution
\* of the same process really passed the timeout: the watcher may hit a later test
\* than the one it saw, but never another process nor a fast one.
BlameNeedsTimeout ==
  Reported /\ (report.hang \/ report.input \notin Bad)
     => overdue \cap (report.first .. report.exec) # {}

\* Executions are counted beyond the tests asked for only by retries, and every
\* retry costs a process: execs exceeds them by restarts at most.
ExecsWithinRestarts == execs <= tests + restarts

\* The stdout reader always has room to read into: with none, Read would return
\* at once for ever and the child would block on a full pipe.
BufferHasRoom == \A p \in Procs : filled[p] < BufSize

\* TestBinary.test returns, whatever the input does, or the worker is closed.
TestReturns == wpc = "check" ~> wpc \in {"loop", "closed"}

\* After its shutdown nothing of a Testee is left: the three goroutines end.
HelpersEnd ==
  \A p \in Procs : down[p] ~> /\ reader[p] = "done" /\ watcher[p] = "done"
                              /\ stopper[p] = "done" /\ ~Alive(p)

\* The promise to the caller: module TestService, seen through the worker's state.
Service == INSTANCE TestService WITH asked <- data
ServiceSpec == Service!Spec

\* README.md:115: "Discovered bad inputs are stored in workdir/crashers dir".
OnlyBadReported == Reported => report.input \in Bad \/ report.exec \in overdue
-----------------------------------------------------------------------------
(* The inductive strengthening.                                            *)

\* The worker's process is the only one that may be alive; while it is used it is
\* there, and only Testee.shutdown closes its downC.
Using == {"test", "write", "read", "judge", "clear", "shutdown", "collect", "wait"}
ProcessInv ==
  /\ \A p \in Procs : Alive(p) => p = testee
  /\ wpc \in Using => testee # 0
  /\ wpc = "start" => testee = 0
  /\ testee # 0 /\ wpc \notin {"collect", "wait"} => ~down[testee]

\* One request is under way at most, it is about the input in the region, and what
\* is answered to it is the outcome of that input.
RequestInv ==
  /\ wpc \in {"write", "read"} => inputRegion = data
  /\ \A p \in Procs :
       /\ request[p] => wpc = "read" /\ proc[p] = "idle" /\ reply[p] = NoInput
       /\ proc[p] = "busy" => /\ wpc = "read" /\ run[p] = data
                              /\ ~request[p] /\ reply[p] = NoInput
       /\ reply[p] # NoInput => /\ wpc = "read" /\ p = testee
                                /\ coverRegion = data /\ data \notin Bad
  /\ wpc \in {"judge", "clear"} /\ verdict = "ok" => coverRegion = data /\ data \notin Bad

\* What is tested and what is known of it at each place of the worker.
VerdictInv ==
  /\ wpc = "loop" => data = NoInput
  /\ wpc \in {"check", "start", "test", "write", "read", "judge", "clear"} => data # NoInput
  /\ wpc = "judge" => verdict \in {"ok", "crash"}
  /\ wpc = "clear" => verdict \in {"ok", "crash", "hang"}
  /\ wpc \in {"shutdown", "collect", "wait"} =>
       /\ verdict \in {"crash", "hang", "retry", "close"}
       /\ verdict # "close" => data # NoInput

\* The buffer is never more than three quarters full.
FillInv == \A p \in Procs : filled[p] \in 0 .. (BufSize \div 4) * 3

TestInv == TypeOK /\ ProcessInv /\ RequestInv /\ VerdictInv /\ FillInv

\* The types of the history.
Causes  == {"none", "crash", "hang", "interrupt", "recycle", "down"}
Crashes == [input : Inputs \cup {NoInput}, hang : BOOLEAN, exec : Nat, first : Int,
            by : Causes]
HistoryInv == /\ overdue \subseteq Nat \ {0} /\ tests \in Nat
              /\ cause \in [Procs -> Causes] /\ crasherQueue \in Seq(Crashes)

\* The fuzzer's own kills: a replacement is a retry, an interrupt has set the flag.
KillInv ==
  /\ shutdownC => shutdown
  /\ \A p \in Procs :
       /\ cause[p] = "interrupt" => shutdownC
       /\ p = testee /\ cause[p] = "recycle" => wpc \in {"shutdown", "collect", "wait"}
                                                /\ verdict = "retry"
  /\ \A i \in DOMAIN crasherQueue :
       /\ crasherQueue[i].by = "interrupt" => shutdown
       /\ crasherQueue[i].by # "recycle"

\* The next execution of a worker that has a process is one it was asked for.
CountInv == wpc = "check" /\ testee # 0 => execs + 1 <= tests + restarts

\* No process ends without a cause, and a crash is the crash of its input.
CauseInv ==
  /\ \A p \in Procs : sig[p] # "none" => Alive(p) /\ cause[p] # "none"
  /\ testee # 0 =>
       /\ ~Alive(testee) => cause[testee] # "none"
       /\ cause[testee] = "down" => wpc \in {"collect", "wait"}
       /\ cause[testee] = "crash" =>
            /\ wpc \in {"read", "judge", "clear", "shutdown", "collect", "wait"}
            /\ data \in Crashing /\ ~Alive(testee) /\ reply[testee] = NoInput
            /\ wpc \in {"judge", "clear"} => verdict # "ok"

\* startTime is that of the present execution; executions First .. execs ran in the
\* present process.
Timed == {"write", "read", "judge", "clear", "shutdown", "collect", "wait"}
First == IF wpc \in {"start", "test"} THEN execs - execsOf ELSE execs - execsOf + 1
Late  == \E t \in overdue : First <= t /\ t <= execs
TimeInv ==
  testee # 0 /\ startTime[testee] \notin {0, -1}
    => wpc \in Timed /\ startTime[testee] = execs /\ execsOf >= 1

\* What the watcher does to a process, and what comes of it, follows a late execution.
LateInv ==
  /\ testee # 0 /\ \/ startTime[testee] = -1
                   \/ watcher[testee] \in {"store", "abort", "kill"}
                   \/ cause[testee] = "hang"
       => Late
  /\ wpc \in {"clear", "shutdown", "collect", "wait"} /\ verdict = "hang" => Late
  /\ wpc \in {"judge", "clear", "shutdown", "collect", "wait"} /\ verdict = "crash"
       => data \in Bad \/ cause[testee] \in {"hang", "interrupt"}

\* Queued crashers are bad, or follow a late execution, or come from an interrupt.
QueueInv ==
  \A i \in DOMAIN crasherQueue :
    \/ ~crasherQueue[i].hang /\ crasherQueue[i].input \in Bad
    \/ crasherQueue[i].by = "interrupt"
    \/ \E t \in overdue : crasherQueue[i].first <= t /\ t <= crasherQueue[i].exec
=============================================================================
