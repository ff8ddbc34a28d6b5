-------------------------------- MODULE Hub --------------------------------
(***************************************************************************)
(* One worker process of go-fuzz: the goroutine of Hub.loop (hub.go) and   *)
(* the fuzzing goroutines of Worker.loop (worker.go), which share channels *)
(* of capacity procs, the published ROData, the table maxCover and the     *)
(* counter initialTriage.  The coordinator is what the hub sees of it: the *)
(* corpus it knows and the inputs it holds pending for this hub (modules   *)
(* Coordinator and Cluster have the detail).                               *)
(*                                                                         *)
(* hpc is the place of the hub: in its select, between the two stores of   *)
(* the newInputC case, in one of its calls, in connect(), or dead (loop    *)
(* returned).  wpc is the place of a worker.  A test of an input yields    *)
(* the cover table of that run or CrashRun; Runs has the possible results, *)
(* several for a flaky input.                                              *)
(***************************************************************************)
EXTENDS Coverage, SequencesExt

CONSTANTS
  Workers,      \* the -procs goroutines
  Data,         \* inputs
  Runs,         \* what a run of each input may yield
  CrashRun,     \* the result of a run that crashes or hangs
  Hanging,      \* inputs whose CrashRun is a hang
  Suppression,  \* extractSuppression of the output of each crash
  ResOf,        \* what the Fuzz function returns
  Smaller,      \* the candidates minimization may try for each input
  UserCorpus,   \* initial corpus: inputs of the user, not minimized
  OldCorpus,    \* initial corpus: inputs of earlier runs
  Foreign,      \* inputs other processes may add to the corpus
  Dup,          \* the -dup flag
  NoInput,      \* no input in the hub's local buffer
  MaxFaults,    \* bound: failed calls
  MaxReports,   \* bound: reports of statistics
  MaxCrashes    \* bound: crashes noted

ASSUME HubAssumption ==
  /\ Workers # {} /\ IsFiniteSet(Workers) /\ IsFiniteSet(Data)
  /\ \A x \in Data : Runs[x] # {} /\ Runs[x] \subseteq Table \cup {CrashRun}
  /\ CrashRun \notin Table
  /\ Hanging \subseteq Data
  /\ ResOf \in [Data -> -1 .. 1]
  /\ Smaller \in [Data -> SUBSET Data]
  /\ UserCorpus \subseteq Data /\ OldCorpus \subseteq Data /\ Foreign \subseteq Data
  /\ UserCorpus \cup OldCorpus # {}
  /\ Dup \in BOOLEAN
  /\ MaxFaults \in Nat /\ MaxReports \in Nat /\ MaxCrashes \in Nat

VARIABLES
  \* hub goroutine
  hpc, triageQueue, slot, taking,
  \* shared
  triageC, newInputC, newCrasherC, syncC,
  corpus, corpusCover, suppressions, badInputs,   \* *ROData
  maxCover, initialTriage,
  \* worker goroutines
  wpc, job, found, localQueue, crasherQueue,
  \* the coordinator, as this hub sees it
  known, pending,
  \* history, for the properties and the bounds
  untriaged,    \* inputs of the last Connect not triaged yet
  noted,        \* inputs queued by noteNewInput
  faults, reports, crashes

hubSide     == <<hpc, triageQueue, slot, taking, corpus, corpusCover, suppressions,
                 badInputs, known, pending, faults>>
workerSide  == <<wpc, job, found, localQueue, crasherQueue, noted, reports, crashes>>
channels    == <<triageC, newInputC, newCrasherC, syncC>>
triageState == <<initialTriage, untriaged>>
roData      == <<corpus, corpusCover, suppressions, badInputs>>
coordinator == <<known, pending>>
vars        == <<hubSide, workerSide, channels, triageState, maxCover>>

Procs == Cardinality(Workers)     \* the capacity of every channel
Suppressions == {Suppression[x] : x \in Data}

CoordinatorInput == [data : Data, minimized : BOOLEAN, smashed : BOOLEAN]
Input == [data : Data, cover : Table, mine : BOOLEAN]

ASSUME NoInputAssumption == NoInput \notin CoordinatorInput

\* What a worker is busy with; orig is the input as it was received, hub says
\* that it came from triageC, pursue is the novelty that minimization keeps.
Job == [data : Data \cup {NoInput}, orig : Data \cup {NoInput},
        minimized : BOOLEAN, smashed : BOOLEAN, hub : BOOLEAN,
        cover : Table, pursue : Table]

Testing == {"fuzz", "triage", "minimize", "smash", "crash"}
Sending == {"send", "sendCrash", "report"}
WorkerPc == Testing \cup Sending \cup {"loop", "note", "after"}
HubPc == {"select", "publish", "newInput", "newCrasher", "sync", "connect", "dead"}

TypeOK ==
  /\ hpc \in HubPc
  /\ triageQueue \in Seq(CoordinatorInput)
  /\ slot \in CoordinatorInput \cup {NoInput}
  /\ taking \in Input
  /\ triageC \in Seq(CoordinatorInput) /\ Len(triageC) <= Procs
  /\ newInputC \in Seq(Input) /\ Len(newInputC) <= Procs
  /\ newCrasherC \in Seq(Data) /\ Len(newCrasherC) <= Procs
  /\ syncC \in 0 .. Procs
  /\ corpus \subseteq Data /\ corpusCover \in [Slot -> Level]
  /\ suppressions \subseteq Suppressions /\ badInputs \subseteq Data
  /\ maxCover \in [Slot -> Level] /\ initialTriage \in Nat
  /\ wpc \in [Workers -> WorkerPc] /\ job \in [Workers -> Job]
  /\ found \in [Workers -> [data : Data, cover : Table, back : WorkerPc]]
  /\ localQueue \in [Workers -> Seq(CoordinatorInput)]
  /\ crasherQueue \in [Workers -> Seq(Data)]
  /\ known \subseteq Data /\ pending \in Seq(CoordinatorInput)
  /\ untriaged \subseteq Data
  /\ noted \in Nat /\ faults \in Nat /\ reports \in Nat /\ crashes \in Nat

-----------------------------------------------------------------------------
(* The hub's local buffer: an element of the queue is moved to `slot`      *)
(* whenever the loop enters its select with an empty slot.                 *)

EnterSelect(queue, s) ==
  IF s = NoInput /\ queue # <<>>
  THEN triageQueue' = Front(queue) /\ slot' = Last(queue)
  ELSE triageQueue' = queue /\ slot' = s

\* The corpus as Connect returns it: a map, in any order.
Snapshot(corp) ==
  LET inputs == {[data |-> x, minimized |-> x \notin UserCorpus, smashed |-> TRUE]
                   : x \in corp}
  IN  SetToSeqs(inputs)

SomeData == CHOOSE x \in Data : TRUE
NoTaking == [data |-> SomeData, cover |-> ZeroTable, mine |-> FALSE]
NoJob == [data |-> NoInput, orig |-> NoInput, minimized |-> TRUE,
          smashed |-> TRUE, hub |-> FALSE, cover |-> ZeroTable, pursue |-> ZeroTable]
NoFound == [data |-> SomeData, cover |-> ZeroTable, back |-> "loop"]

\* newHub has connected, loop has filled its buffer, the workers start.
Init ==
  /\ hpc = "select" /\ taking = NoTaking
  /\ known = UserCorpus \cup OldCorpus /\ pending = <<>>
  /\ initialTriage = Cardinality(known) /\ untriaged = known
  /\ \E snapshot \in Snapshot(known) :
        triageQueue = Front(snapshot) /\ slot = Last(snapshot)
  /\ triageC = <<>> /\ newInputC = <<>> /\ newCrasherC = <<>> /\ syncC = 0
  /\ corpus = {} /\ corpusCover = ZeroTable
  /\ suppressions = {} /\ badInputs = {}
  /\ maxCover = ZeroTable
  /\ wpc = [w \in Workers |-> "loop"] /\ job = [w \in Workers |-> NoJob]
  /\ found = [w \in Workers |-> NoFound]
  /\ localQueue = [w \in Workers |-> <<>>]
  /\ crasherQueue = [w \in Workers |-> <<>>]
  /\ noted = 0 /\ faults = 0 /\ reports = 0 /\ crashes = 0

-----------------------------------------------------------------------------
(* Worker.loop.                                                            *)

Goto(w, pc) == wpc' = [wpc EXCEPT ![w] = pc]

\* The queued crashers come first, the last one in first.
PollCrasher(w) ==
  /\ wpc[w] = "loop" /\ crasherQueue[w] # <<>>
  /\ job' = [job EXCEPT ![w] = [NoJob EXCEPT !.data = Last(crasherQueue[w]),
                                             !.orig = Last(crasherQueue[w])]]
  /\ crasherQueue' = [crasherQueue EXCEPT ![w] = Front(@)]
  /\ Goto(w, "crash")
  /\ UNCHANGED <<hubSide, channels, triageState, maxCover, found, localQueue,
                 noted, reports, crashes>>

JobOf(inp, hub) ==
  [NoJob EXCEPT !.data = inp.data, !.orig = inp.data, !.minimized = inp.minimized,
                !.smashed = inp.smashed, !.hub = hub]

\* Then the select on triageC.
PollTriage(w) ==
  /\ wpc[w] = "loop" /\ crasherQueue[w] = <<>> /\ triageC # <<>>
  /\ job' = [job EXCEPT ![w] = JobOf(Head(triageC), TRUE)]
  /\ triageC' = Tail(triageC)
  /\ Goto(w, "triage")
  /\ UNCHANGED <<hubSide, triageState, newInputC, newCrasherC, syncC, maxCover,
                 found, localQueue, crasherQueue, noted, reports, crashes>>

Idle(w) == wpc[w] = "loop" /\ crasherQueue[w] = <<>> /\ triageC = <<>>

\* Past the barrier a worker triages what it found itself, then fuzzes.  A worker
\* for which nothing is enabled here sleeps.
TakeLocal(w) ==
  /\ Idle(w) /\ initialTriage = 0 /\ localQueue[w] # <<>>
  /\ job' = [job EXCEPT ![w] = JobOf(Last(localQueue[w]), FALSE)]
  /\ localQueue' = [localQueue EXCEPT ![w] = Front(@)]
  /\ Goto(w, "triage")
  /\ UNCHANGED <<hubSide, channels, triageState, maxCover, found, crasherQueue,
                 noted, reports, crashes>>

\* Faulty variant: fuzzing goes before the inputs the worker found itself.
StartFuzzFirst(w) ==
  /\ Idle(w) /\ initialTriage = 0 /\ corpus # {}
  /\ Goto(w, "fuzz")
  /\ UNCHANGED <<hubSide, channels, triageState, maxCover, job, found,
                 localQueue, crasherQueue, noted, reports, crashes>>

StartFuzz(w) ==
  /\ Idle(w) /\ initialTriage = 0 /\ localQueue[w] = <<>> /\ corpus # {}
  /\ Goto(w, "fuzz")
  /\ UNCHANGED <<hubSide, channels, triageState, maxCover, job, found,
                 localQueue, crasherQueue, noted, reports, crashes>>

-----------------------------------------------------------------------------
(* What becomes of a run.  These leave everything they do not name to the  *)
(* action that uses them.                                                  *)

\* noteCrasher: a crash whose suppression is known is forgotten (and, as a bound,
\* one beyond MaxCrashes).
noteCrasher(w, x) ==
  IF Suppression[x] \in suppressions \/ crashes = MaxCrashes
  THEN UNCHANGED <<crasherQueue, crashes>>
  ELSE /\ crashes' = crashes + 1
       /\ crasherQueue' = [crasherQueue EXCEPT ![w] = Append(@, x)]

\* noteNewInput, and updateMaxCover up to its lock: maxCover is compared
\* without the lock, and again under it (UpdateMaxCover below).
noteNewInput(w, x, cover, back) ==
  IF ResOf[x] >= 0 /\ compareCover(maxCover, cover)
  THEN /\ found' = [found EXCEPT ![w] = [data |-> x, cover |-> cover, back |-> back]]
       /\ Goto(w, "note")
  ELSE Goto(w, back) /\ UNCHANGED found

\* Faulty variant: the table is not compared again under the lock.
UpdateUnchecked(w) ==
  /\ wpc[w] = "note"
  /\ maxCover' = updateMaxCover(maxCover, found[w].cover)
  /\ localQueue' = [localQueue EXCEPT ![w] =
       Append(@, [data |-> found[w].data, minimized |-> FALSE, smashed |-> FALSE])]
  /\ noted' = noted + 1
  /\ Goto(w, found[w].back) /\ found' = [found EXCEPT ![w] = NoFound]
  /\ UNCHANGED <<hubSide, channels, triageState, job, crasherQueue, reports, crashes>>

UpdateMaxCover(w) ==
  /\ wpc[w] = "note"
  /\ IF compareCover(maxCover, found[w].cover)
     THEN /\ maxCover' = updateMaxCover(maxCover, found[w].cover)
          /\ localQueue' = [localQueue EXCEPT ![w] =
               Append(@, [data |-> found[w].data, minimized |-> FALSE, smashed |-> FALSE])]
          /\ noted' = noted + 1
     ELSE UNCHANGED <<maxCover, localQueue, noted>>
  /\ Goto(w, found[w].back) /\ found' = [found EXCEPT ![w] = NoFound]
  /\ UNCHANGED <<hubSide, channels, triageState, job, crasherQueue, reports, crashes>>

\* testInputImpl, used by fuzzing and by smash.
testInput(w, x, back) ==
  \/ /\ x \in badInputs
     /\ Goto(w, back) /\ UNCHANGED <<found, crasherQueue, crashes>>
  \/ /\ x \notin badInputs /\ CrashRun \in Runs[x]
     /\ noteCrasher(w, x) /\ Goto(w, back) /\ UNCHANGED found
  \/ /\ x \notin badInputs
     /\ \E cover \in Runs[x] \ {CrashRun} : noteNewInput(w, x, cover, back)
     /\ UNCHANGED <<crasherQueue, crashes>>

\* mutator.generate or verse.Rhyme: any input.
Fuzz(w, x) ==
  /\ wpc[w] = "fuzz"
  /\ testInput(w, x, "loop")
  /\ UNCHANGED <<hubSide, channels, triageState, maxCover, job, localQueue,
                 noted, reports>>

\* periodicCheck, at the start of a test: the statistics are sent to the hub.
PeriodicCheck(w) ==
  /\ wpc[w] \in Testing
  /\ reports < MaxReports /\ reports' = reports + 1
  /\ found' = [found EXCEPT ![w] = [NoFound EXCEPT !.back = wpc[w]]]
  /\ Goto(w, "report")
  /\ UNCHANGED <<hubSide, channels, triageState, maxCover, job, localQueue,
                 crasherQueue, noted, crashes>>

SendStats(w) ==
  /\ wpc[w] = "report" /\ syncC < Procs
  /\ syncC' = syncC + 1
  /\ Goto(w, found[w].back) /\ found' = [found EXCEPT ![w] = NoFound]
  /\ UNCHANGED <<hubSide, triageState, triageC, newInputC, newCrasherC, maxCover,
                 job, localQueue, crasherQueue, noted, reports, crashes>>

-----------------------------------------------------------------------------
(* triageInput: three runs, then minimization or smashing, then newInputC. *)

\* The per-slot maximum of the cover of the runs.
MaxOf(covers) ==
  [i \in Slot |-> CHOOSE v \in {c[i] : c \in covers} : \A c \in covers : c[i] <= v]

ThreeRuns(x) ==
  {MaxOf({r[1], r[2], r[3]}) : r \in [1 .. 3 -> Runs[x] \ {CrashRun}]}

TriageCrash(w) ==
  /\ wpc[w] = "triage" /\ CrashRun \in Runs[job[w].data]
  /\ noteCrasher(w, job[w].data)
  /\ Goto(w, "after")
  /\ UNCHANGED <<hubSide, channels, triageState, maxCover, job, found,
                 localQueue, noted, reports>>

AfterRuns(inp, isNew) ==
  CASE ~inp.minimized /\ ~isNew         -> "after"       \* covered by somebody else
    [] ~inp.minimized /\ isNew          -> "minimize"
    [] inp.minimized /\ ~inp.smashed    -> "smash"
    [] inp.minimized /\ inp.smashed     -> "send"

\* Faulty variant: novelty is taken against maxCover, which has the input already.
TriageByMaxCover(w) ==
  /\ wpc[w] = "triage"
  /\ \E cover \in ThreeRuns(job[w].data) :
       /\ job' = [job EXCEPT ![w].cover = cover,
                             ![w].pursue = findNewCover(maxCover, cover)]
       /\ Goto(w, AfterRuns(job[w], findNewCoverNotEmpty(maxCover, cover)))
  /\ UNCHANGED <<hubSide, channels, triageState, maxCover, found, localQueue,
                 crasherQueue, noted, reports, crashes>>

Triage(w) ==
  /\ wpc[w] = "triage"
  /\ \E cover \in ThreeRuns(job[w].data) :
       /\ job' = [job EXCEPT ![w].cover = cover,
                             ![w].pursue = findNewCover(corpusCover, cover)]
       /\ Goto(w, AfterRuns(job[w], findNewCoverNotEmpty(corpusCover, cover)))
  /\ UNCHANGED <<hubSide, channels, triageState, maxCover, found, localQueue,
                 crasherQueue, noted, reports, crashes>>

\* The result triage has recorded for the input: at least zero.
TriagedRes(x) == IF ResOf[x] > 0 THEN ResOf[x] ELSE 0

\* One candidate of minimizeInput, judged by the function triageInput passes.
Minimize(w, c) ==
  /\ wpc[w] = "minimize" /\ c \in Smaller[job[w].data]
  /\ \/ /\ CrashRun \in Runs[c]
        /\ noteCrasher(w, c)
        /\ UNCHANGED <<wpc, job, found>>
     \/ \E cover \in Runs[c] \ {CrashRun} :
        /\ IF ResOf[c] # TriagedRes(job[w].data) \/ worseCover(job[w].pursue, cover)
           THEN noteNewInput(w, c, cover, "minimize") /\ UNCHANGED job
           ELSE job' = [job EXCEPT ![w].data = c] /\ UNCHANGED <<wpc, found>>
        /\ UNCHANGED <<crasherQueue, crashes>>
  /\ UNCHANGED <<hubSide, channels, triageState, maxCover, localQueue, noted,
                 reports>>

\* smash runs mutants of the input.
Smash(w, x) ==
  /\ wpc[w] = "smash"
  /\ testInput(w, x, "smash")
  /\ UNCHANGED <<hubSide, channels, triageState, maxCover, job, localQueue,
                 noted, reports>>

\* Both are finite loops, and minimization also watches the clock.
Finish(w) ==
  /\ wpc[w] \in {"minimize", "smash"}
  /\ Goto(w, "send")
  /\ UNCHANGED <<hubSide, channels, triageState, maxCover, job, found,
                 localQueue, crasherQueue, noted, reports, crashes>>

\* The cover sent is that of the input as received, not of the minimized one.
SendInput(w) ==
  /\ wpc[w] = "send" /\ Len(newInputC) < Procs
  /\ newInputC' = Append(newInputC, [data |-> job[w].data, cover |-> job[w].cover,
                                     mine |-> ~job[w].minimized])
  /\ Goto(w, "after")
  /\ UNCHANGED <<hubSide, triageState, triageC, newCrasherC, syncC, maxCover,
                 job, found, localQueue, crasherQueue, noted, reports, crashes>>

\* Faulty variants: the counter is not guarded; inputs of the worker itself are
\* counted off and inputs of the coordinator are not.
AfterTriageUnguarded(w) ==
  /\ wpc[w] = "after"
  /\ initialTriage' = IF job[w].hub THEN initialTriage - 1 ELSE initialTriage
  /\ untriaged' = untriaged
  /\ Goto(w, "loop") /\ job' = [job EXCEPT ![w] = NoJob]
  /\ UNCHANGED <<hubSide, channels, maxCover, found, localQueue, crasherQueue,
                 noted, reports, crashes>>

AfterTriageSwapped(w) ==
  /\ wpc[w] = "after"
  /\ initialTriage' = IF ~job[w].hub /\ initialTriage # 0
                      THEN initialTriage - 1 ELSE initialTriage
  /\ untriaged' = untriaged
  /\ Goto(w, "loop") /\ job' = [job EXCEPT ![w] = NoJob]
  /\ UNCHANGED <<hubSide, channels, maxCover, found, localQueue, crasherQueue,
                 noted, reports, crashes>>

\* Back in loop: an input from triageC is counted off by compare-and-swap.
AfterTriage(w) ==
  /\ wpc[w] = "after"
  /\ initialTriage' = IF job[w].hub /\ initialTriage # 0
                      THEN initialTriage - 1 ELSE initialTriage
  /\ untriaged' = IF job[w].hub THEN untriaged \ {job[w].orig} ELSE untriaged
  /\ Goto(w, "loop") /\ job' = [job EXCEPT ![w] = NoJob]
  /\ UNCHANGED <<hubSide, channels, maxCover, found, localQueue,
                 crasherQueue, noted, reports, crashes>>

-----------------------------------------------------------------------------
(* processCrasher.                                                         *)

MinimizeCrasher(w, c) ==
  /\ wpc[w] = "crash" /\ job[w].data \notin Hanging
  /\ c \in Smaller[job[w].data] /\ CrashRun \in Runs[c]
  /\ IF c \in Hanging \/ Suppression[c] # Suppression[job[w].data]
     THEN noteCrasher(w, c) /\ UNCHANGED job
     ELSE job' = [job EXCEPT ![w].data = c] /\ UNCHANGED <<crasherQueue, crashes>>
  /\ UNCHANGED <<hubSide, channels, triageState, maxCover, wpc, found,
                 localQueue, noted, reports>>

\* Faulty variant: a hanging input is dropped, not only left unminimized.
HangDropped(w) ==
  /\ wpc[w] = "crash"
  /\ Goto(w, IF job[w].data \in Hanging THEN "loop" ELSE "sendCrash")
  /\ UNCHANGED <<hubSide, channels, triageState, maxCover, job, found,
                 localQueue, crasherQueue, noted, reports, crashes>>

CrasherMinimized(w) ==
  /\ wpc[w] = "crash"
  /\ Goto(w, "sendCrash")
  /\ UNCHANGED <<hubSide, channels, triageState, maxCover, job, found,
                 localQueue, crasherQueue, noted, reports, crashes>>

SendCrasher(w) ==
  /\ wpc[w] = "sendCrash" /\ Len(newCrasherC) < Procs
  /\ newCrasherC' = Append(newCrasherC, job[w].data)
  /\ Goto(w, "loop") /\ job' = [job EXCEPT ![w] = NoJob]
  /\ UNCHANGED <<hubSide, triageState, triageC, newInputC, syncC, maxCover, found, localQueue, crasherQueue, noted, reports, crashes>>

-----------------------------------------------------------------------------
(* Hub.loop.                                                               *)

\* triageC <- triageInput.
HandOut ==
  /\ hpc = "select" /\ slot # NoInput /\ Len(triageC) < Procs
  /\ triageC' = Append(triageC, slot)
  /\ EnterSelect(triageQueue, NoInput)
  /\ UNCHANGED <<workerSide, triageState, roData, coordinator, hpc, taking,
                 newInputC, newCrasherC, syncC, maxCover, faults>>

\* Faulty variant: statistics wait until everything has been handed out.
TakeStatsLast ==
  /\ hpc = "select" /\ syncC > 0 /\ slot = NoInput
  /\ syncC' = syncC - 1
  /\ UNCHANGED <<workerSide, hubSide, triageState, triageC, newInputC, newCrasherC,
                 maxCover>>

\* s := <-hub.syncC
TakeStats ==
  /\ hpc = "select" /\ syncC > 0
  /\ syncC' = syncC - 1
  /\ UNCHANGED <<hubSide, workerSide, triageState, triageC, newInputC,
                 newCrasherC, maxCover>>

\* Faulty variant: maxCover is left to the workers.
TakeInputNoMax ==
  /\ hpc = "select" /\ newInputC # <<>>
  /\ newInputC' = Tail(newInputC)
  /\ IF /\ compareCover(corpusCover, Head(newInputC).cover)
        /\ Head(newInputC).data \notin corpus
     THEN taking' = Head(newInputC) /\ hpc' = "publish"
     ELSE UNCHANGED <<taking, hpc>>
  /\ UNCHANGED <<workerSide, triageState, roData, coordinator, triageQueue, slot,
                 triageC, newCrasherC, syncC, maxCover, faults>>

\* input := <-hub.newInputC, up to hub.updateMaxCover: dropped unless it has new
\* cover and new data.
TakeInput ==
  LET input == Head(newInputC)
      isNew == compareCover(corpusCover, input.cover) /\ input.data \notin corpus
  IN
  /\ hpc = "select" /\ newInputC # <<>>
  /\ newInputC' = Tail(newInputC)
  /\ IF isNew
     THEN /\ maxCover' = IF compareCover(maxCover, input.cover)
                         THEN updateMaxCover(maxCover, input.cover) ELSE maxCover
          /\ taking' = input /\ hpc' = "publish"
     ELSE UNCHANGED <<maxCover, taking, hpc>>
  /\ UNCHANGED <<workerSide, triageState, roData, coordinator, triageQueue,
                 slot, triageC, newCrasherC, syncC, faults>>

\* hub.ro.Store(ro1); the input goes to the coordinator if it was found here.
Publish ==
  /\ hpc = "publish"
  /\ corpus' = corpus \cup {taking.data}
  /\ corpusCover' = updateMaxCover(corpusCover, taking.cover)
  /\ IF taking.mine THEN hpc' = "newInput" /\ UNCHANGED taking
                    ELSE hpc' = "select" /\ taking' = NoTaking
  /\ UNCHANGED <<workerSide, channels, triageState, coordinator, triageQueue,
                 slot, suppressions, badInputs, maxCover, faults>>

\* crash := <-hub.newCrasherC, up to the call.
TakeCrasher ==
  LET crash == Head(newCrasherC)
  IN
  /\ hpc = "select" /\ newCrasherC # <<>>
  /\ newCrasherC' = Tail(newCrasherC)
  /\ badInputs' = IF crash \in Hanging THEN badInputs \cup {crash} ELSE badInputs
  /\ suppressions' = IF Dup THEN suppressions
                     ELSE suppressions \cup {Suppression[crash]}
  /\ hpc' = "newCrasher"
  /\ UNCHANGED <<workerSide, triageState, coordinator, triageQueue, slot,
                 taking, triageC, newInputC, syncC, corpus, corpusCover,
                 maxCover, faults>>

\* <-syncTicker, up to the call.
StartSync ==
  /\ hpc = "select"
  /\ hpc' = "sync"
  /\ UNCHANGED <<workerSide, channels, triageState, roData, coordinator,
                 triageQueue, slot, taking, maxCover, faults>>

-----------------------------------------------------------------------------
(* The calls.  Workers go on while the hub waits.                          *)

SyncReturns ==
  /\ hpc = "sync" /\ hpc' = "select"
  /\ pending' = <<>>
  /\ EnterSelect(triageQueue \o pending, slot)
  /\ UNCHANGED <<workerSide, channels, triageState, roData, taking, maxCover,
                 known, faults>>

\* Coordinator.NewInput: the finder gets its own input back, to be smashed.
Stored ==
  IF taking.data \in known
  THEN UNCHANGED <<known, pending>>
  ELSE /\ known' = known \cup {taking.data}
       /\ pending' = Append(pending, [data |-> taking.data, minimized |-> TRUE,
                                      smashed |-> FALSE])

NewInputReturns ==
  /\ hpc = "newInput" /\ hpc' = "select" /\ taking' = NoTaking
  /\ Stored
  /\ UNCHANGED <<workerSide, channels, triageState, roData, triageQueue, slot,
                 maxCover, faults>>

NewCrasherReturns ==
  /\ hpc = "newCrasher" /\ hpc' = "select"
  /\ UNCHANGED <<workerSide, channels, triageState, roData, coordinator,
                 triageQueue, slot, taking, maxCover, faults>>

\* Sync and NewInput reconnect when they fail, served or not; NewCrasher logs.
Fault == faults < MaxFaults /\ faults' = faults + 1

CallFails ==
  /\ Fault
  /\ \/ hpc = "sync" /\ hpc' = "connect" /\ UNCHANGED coordinator
     \/ hpc = "newInput" /\ hpc' = "connect" /\ (Stored \/ UNCHANGED coordinator)
     \/ hpc = "newCrasher" /\ hpc' = "select" /\ UNCHANGED coordinator
  /\ taking' = NoTaking
  /\ UNCHANGED <<workerSide, channels, triageState, roData, triageQueue, slot,
                 maxCover>>

\* Faulty variant: the new corpus is added to the counter.
ReconnectAdding ==
  /\ hpc = "connect" /\ hpc' = "select"
  /\ pending' = <<>>
  /\ initialTriage' = initialTriage + Cardinality(known) /\ untriaged' = known
  /\ \E snapshot \in Snapshot(known) : EnterSelect(snapshot, slot)
  /\ UNCHANGED <<workerSide, channels, roData, taking, maxCover, known, faults>>

\* connect: a new registration.  Its corpus replaces the queue; what is in the
\* local buffer and in triageC stays.
Reconnect ==
  /\ hpc = "connect" /\ hpc' = "select"
  /\ pending' = <<>>
  /\ initialTriage' = Cardinality(known) /\ untriaged' = known
  /\ \E snapshot \in Snapshot(known) : EnterSelect(snapshot, slot)
  /\ UNCHANGED <<workerSide, channels, roData, taking, maxCover, known, faults>>

\* connect failed: loop returns, and nobody reads the channels any more.
ConnectFails ==
  /\ Fault
  /\ hpc = "connect" /\ hpc' = "dead"
  /\ UNCHANGED <<workerSide, channels, triageState, roData, coordinator,
                 triageQueue, slot, taking, maxCover>>

-----------------------------------------------------------------------------
\* Another process finds an input.
OtherFinds(x) ==
  /\ x \in Foreign \ known
  /\ known' = known \cup {x}
  /\ pending' = Append(pending, [data |-> x, minimized |-> TRUE, smashed |-> TRUE])
  /\ UNCHANGED <<workerSide, channels, triageState, roData, hpc, triageQueue,
                 slot, taking, maxCover, faults>>
-----------------------------------------------------------------------------
WorkerStep(w) ==
  \/ PollCrasher(w) \/ PollTriage(w) \/ TakeLocal(w) \/ StartFuzz(w)
  \/ UpdateMaxCover(w) \/ SendStats(w)
  \/ \E x \in Data : Fuzz(w, x) \/ Smash(w, x) \/ Minimize(w, x) \/ MinimizeCrasher(w, x)
  \/ TriageCrash(w) \/ Triage(w)
  \/ Finish(w) \/ SendInput(w) \/ AfterTriage(w)
  \/ CrasherMinimized(w) \/ SendCrasher(w)

HubCall == Publish \/ SyncReturns \/ NewInputReturns \/ NewCrasherReturns \/ Reconnect

Next ==
  \/ \E w \in Workers : WorkerStep(w) \/ PeriodicCheck(w)
  \/ HandOut \/ TakeStats \/ TakeInput \/ TakeCrasher \/ StartSync
  \/ HubCall
  \/ CallFails \/ ConnectFails
  \/ \E x \in Foreign : OtherFinds(x)

Spec == Init /\ [][Next]_vars

\* Fairness.  Every goroutine runs and every call ends; the select of the hub
\* takes a ready case at random, so none is passed over for ever; the loops of
\* minimizeInput and smash are finite.
Fairness ==
  /\ \A w \in Workers : /\ WF_vars(WorkerStep(w))
                         /\ SF_vars(Finish(w) \/ CrasherMinimized(w))
                         /\ SF_vars(SendInput(w) \/ SendCrasher(w) \/ SendStats(w))
  /\ WF_vars(HubCall)
  /\ SF_vars(HandOut) /\ SF_vars(TakeStats) /\ SF_vars(TakeInput) /\ SF_vars(TakeCrasher)

FairSpec == Spec /\ Fairness

-----------------------------------------------------------------------------
(* Properties.                                                             *)

\* The barrier can be passed again: every unit of initialTriage is backed by an
\* input still to be counted off, in the queue, the local buffer, the channel or
\* a worker; also when connect() has overwritten counter and queue meanwhile.
BarrierBacked ==
  initialTriage <= Len(triageQueue) + (IF slot = NoInput THEN 0 ELSE 1)
                     + Len(triageC) + Cardinality({w \in Workers : job[w].hub})

\* What the corpus covers, maxCover covers: nothing that is published is taken
\* for new by noteNewInput, though two goroutines update the tables.
CorpusWithinMax == \A i \in Slot : corpusCover[i] <= maxCover[i]

\* The published cover is honest: every level of it is reached by a run of an
\* input of the corpus, although minimization replaces the data of an input and
\* keeps its cover, and inputs are dropped by data or by cover.
Exhibits(x, i, level) == \E run \in Runs[x] \ {CrashRun} : roundUpCover(run[i]) >= level

HonestCover ==
  \A i \in Slot : corpusCover[i] # 0 => \E x \in corpus : Exhibits(x, i, corpusCover[i])

\* Where an input waits on its way to the corpus: a local queue, a worker's hands,
\* newInputC, the hub's hands.
DataOf(inputs) == {inp.data : inp \in inputs}

QueuedHere == UNION {DataOf(ToSet(localQueue[w])) : w \in Workers}
AtWork     == {job[w].data : w \in {v \in Workers : wpc[v] # "after"}} \cap Data
BeingTaken == IF hpc = "publish" THEN {taking.data} ELSE {}
InFlight   == QueuedHere \cup AtWork \cup DataOf(ToSet(newInputC)) \cup BeingTaken

Deterministic == \A x \in Data : \A r, s \in Runs[x] : r = s

\* Cover claimed in maxCover is never lost when runs are deterministic: an input
\* that reaches it is in the corpus or on its way there.
NoCoverageLost ==
  Deterministic =>
    \A i \in Slot : maxCover[i] # 0 =>
      \E x \in corpus \cup InFlight : Exhibits(x, i, maxCover[i])

\* "Preliminary cover update to prevent new input thundering herd": every input
\* that fuzzing queues for triage has its own part of maxCover, however many
\* workers reach the same new cover at once.
Claimed == {c \in Slot \X Level : 0 < c[2] /\ c[2] <= maxCover[c[1]]}
NoHerd  == noted <= Cardinality(Claimed)

\* The barrier opens, after the start and after every reconnect.
BarrierOpens == initialTriage # 0 ~> initialTriage = 0 \/ hpc = "dead"

\* "Local buffer helps to avoid deadlocks on chan overflows": no worker is
\* blocked on a channel for ever while the hub lives.
SendersFreed ==
  \A w \in Workers : wpc[w] \in Sending ~> wpc[w] \notin Sending \/ hpc = "dead"

\* A noted crasher reaches the hub, which then knows its suppression.
CrashersReachHub ==
  \A w \in Workers, x \in Data :
    x \in ToSet(crasherQueue[w]) ~> Suppression[x] \in suppressions \/ hpc = "dead"

\* What a worker found itself is triaged in the end.
FoundInputsTriaged ==
  \A w \in Workers : localQueue[w] # <<>> ~> localQueue[w] = <<>> \/ hpc = "dead"

-----------------------------------------------------------------------------
(* The inductive strengthening of the safety properties.                   *)

\* Where a worker is, or returns to after a report or an update of maxCover.
Place(w) == IF wpc[w] \in {"note", "report"} THEN found[w].back ELSE wpc[w]

\* A worker has a job exactly while it is busy with one; a crasher has no cover
\* and does not come from triageC.
JobAt(place, j) ==
  /\ IF place \in {"loop", "fuzz"} THEN j = NoJob ELSE j.data \in Data
  /\ place \in {"crash", "sendCrash"} => j.cover = ZeroTable /\ ~j.hub

JobState ==
  \A w \in Workers : found[w].back \in Testing \cup {"loop"} /\ JobAt(Place(w), job[w])

TypeInv == TypeOK /\ JobState

\* An input about to be published has its cover in maxCover already.
PublishedWithinMax ==
  hpc = "publish" => \A i \in Slot : roundUpCover(taking.cover[i]) <= maxCover[i]

BarrierInv == TypeInv /\ BarrierBacked

MaxInv == TypeInv /\ CorpusWithinMax /\ PublishedWithinMax

\* Cover attached to an input is exhibited by its data or in the table already;
\* what minimization pursues is the part that is not.
Shown(x, cover, table) ==
  \A i \in Slot : \/ roundUpCover(cover[i]) <= table[i]
                  \/ Exhibits(x, i, roundUpCover(cover[i]))

Pursued(j, table) ==
  \A i \in Slot : roundUpCover(j.cover[i]) <= table[i] \/ j.cover[i] <= j.pursue[i]

JobShown(j, table) == Shown(j.data, j.cover, table) /\ Pursued(j, table)
JobsShown == \A w \in Workers : JobShown(job[w], corpusCover)

InputsShown ==
  /\ \A k \in 1 .. Len(newInputC) :
        Shown(newInputC[k].data, newInputC[k].cover, corpusCover)
  /\ hpc = "publish" => Shown(taking.data, taking.cover, corpusCover)

HonestInv == TypeInv /\ JobsShown /\ InputsShown /\ HonestCover

HerdInv == TypeInv /\ NoHerd

\* Who answers for a level of maxCover, until the corpus does: before triage by its
\* data, from then on by the cover recorded for it, whatever minimization does to
\* the data.  An input that exhibits the level by chance does not answer for it.
WorkerAnswers(w, i, level) ==
  \/ \E k \in 1 .. Len(localQueue[w]) : Exhibits(localQueue[w][k].data, i, level)
  \/ Place(w) = "triage" /\ Exhibits(job[w].data, i, level)
  \/ Place(w) \in {"minimize", "smash", "send"} /\ level <= roundUpCover(job[w].cover[i])

HubAnswers(i, level) ==
  \/ level <= corpusCover[i] \/ \E x \in corpus : Exhibits(x, i, level)
  \/ \E k \in 1 .. Len(newInputC) : level <= roundUpCover(newInputC[k].cover[i])
  \/ hpc = "publish" /\ level <= roundUpCover(taking.cover[i])

Answered ==
  \A i \in Slot : maxCover[i] # 0 =>
    HubAnswers(i, maxCover[i]) \/ \E w \in Workers : WorkerAnswers(w, i, maxCover[i])

FoundRan ==
  \A w \in Workers : wpc[w] = "note" => found[w].cover \in Runs[found[w].data] \ {CrashRun}

KeptInv == HonestInv /\ FoundRan /\ (Deterministic => Answered)

-----------------------------------------------------------------------------
(* What comments say and the code does not do.                             *)

\* worker.go: "Other workers are still triaging initial inputs.  Wait until they
\* finish".  Once the barrier is open, the initial inputs have been triaged.
BarrierHolds == initialTriage = 0 => untriaged = {}
=============================================================================
