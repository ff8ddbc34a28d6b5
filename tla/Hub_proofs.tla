----------------------------- MODULE Hub_proofs -----------------------------
(***************************************************************************)
(* What a worker process promises, for any workers, inputs, run results    *)
(* and faults.                                                             *)
(***************************************************************************)
EXTENDS Hub, Coverage_proofs, FiniteSetTheorems, SequenceTheorems

-----------------------------------------------------------------------------
(* Queues and tables.                                                      *)

\* The length of a prefix.
LEMMA PrefixLength ==
  ASSUME NEW s, NEW n \in Nat
  PROVE  Len(SubSeq(s, 1, n)) = n
  OBVIOUS

\* Taking the last element off a queue.
LEMMA FrontLast ==
  ASSUME NEW S, NEW s \in Seq(S), s # <<>>
  PROVE  /\ Front(s) \in Seq(S) /\ Last(s) \in S
         /\ Len(s) \in Nat /\ Len(s) >= 1 /\ Len(Front(s)) = Len(s) - 1
  <1>1. Len(s) \in Nat /\ Len(s) >= 1 /\ \A i \in 1 .. Len(s) : s[i] \in S
    BY EmptySeq, LenProperties, ElementOfSeq
  <1>2. SubSeq(s, 1, Len(s) - 1) \in Seq(S)
    OBVIOUS
  <1>3. Len(s) - 1 \in Nat
    BY <1>1
  <1>4. Len(SubSeq(s, 1, Len(s) - 1)) = Len(s) - 1
    BY <1>3, PrefixLength
  <1>5. Len(s) \in 1 .. Len(s)
    BY <1>1
  <1> QED  BY <1>1, <1>2, <1>4, <1>5 DEF Front, Last

\* Taking the first element off a channel.
LEMMA HeadTail ==
  ASSUME NEW S, NEW s \in Seq(S), s # <<>>
  PROVE  /\ Head(s) \in S /\ Tail(s) \in Seq(S)
         /\ Len(s) \in Nat /\ Len(s) >= 1 /\ Len(Tail(s)) = Len(s) - 1
  BY HeadTailProperties, LenProperties, EmptySeq

\* Adding an element at the end.
LEMMA Appended ==
  ASSUME NEW S, NEW s \in Seq(S), NEW e \in S
  PROVE  Append(s, e) \in Seq(S) /\ Len(Append(s, e)) = Len(s) + 1 /\ Len(s) \in Nat
  BY AppendProperties, LenProperties

\* The zero table is quantized.
LEMMA ZeroLevel == ZeroTable \in [Slot -> Level] /\ ZeroTable \in Table
  BY CoverageAssumption DEF CoverageAssumption, ZeroTable, Level, Table, Byte

\* The capacity of the channels is a positive number.
LEMMA ProcsType == Procs \in Nat \ {0}
  BY HubAssumption, FS_CardinalityType, FS_EmptySet DEF HubAssumption, Procs

\* Triage takes the larger counter of each slot: the result is a table, and each
\* of its counters is that of one of the runs.
LEMMA MaxOfRuns ==
  ASSUME NEW a \in Table, NEW b \in Table, NEW c \in Table
  PROVE  /\ MaxOf({a, b, c}) \in Table
         /\ \A i \in Slot : \E run \in {a, b, c} : MaxOf({a, b, c})[i] = run[i]
  <1> DEFINE at(i) == {r[i] : r \in {a, b, c}}
  <1>1. ASSUME NEW i \in Slot
        PROVE  \E v \in at(i) : \A r \in {a, b, c} : r[i] <= v
    <2>1. a[i] \in Int /\ b[i] \in Int /\ c[i] \in Int
      BY DEF Table, Byte
    <2>2. a[i] \in at(i) /\ b[i] \in at(i) /\ c[i] \in at(i)
      OBVIOUS
    <2>3. CASE b[i] <= a[i] /\ c[i] <= a[i]
      BY <2>1, <2>2, <2>3
    <2>4. CASE a[i] <= b[i] /\ c[i] <= b[i]
      BY <2>1, <2>2, <2>4
    <2>5. CASE a[i] <= c[i] /\ b[i] <= c[i]
      BY <2>1, <2>2, <2>5
    <2> QED  BY <2>1, <2>3, <2>4, <2>5
  <1>2. \A i \in Slot : MaxOf({a, b, c})[i] \in at(i)
    BY <1>1 DEF MaxOf
  <1>3. \A i \in Slot : at(i) \subseteq Byte
    BY DEF Table
  <1> QED  BY <1>2, <1>3 DEF MaxOf, Table

-----------------------------------------------------------------------------
(* Types, and what the place of a worker says about its job.               *)

\* A step that leaves the workers alone leaves JobState alone.
LEMMA SameJobs ==
  JobState /\ UNCHANGED <<wpc, job, found>> => JobState'
  BY DEF JobState, Place

\* A step of one worker leaves the others as they are.
LEMMA OneJob ==
  ASSUME JobState, NEW w \in Workers,
         \A v \in Workers \ {w} :
            wpc'[v] = wpc[v] /\ job'[v] = job[v] /\ found'[v] = found[v],
         found'[w].back \in Testing \cup {"loop"},
         JobAt(Place(w)', job'[w])
  PROVE  JobState'
  <1>1. \A v \in Workers \ {w} : Place(v)' = Place(v)
    BY DEF Place
  <1> QED  BY <1>1 DEF JobState

\* The start: an inactive worker has a job without input.
LEMMA Blank ==
  /\ Data # {} /\ SomeData \in Data
  /\ NoJob \in Job /\ NoTaking \in Input
  /\ NoFound \in [data : Data, cover : Table, back : WorkerPc]
  /\ NoFound.back = "loop" /\ NoJob.hub = FALSE /\ NoJob.cover = ZeroTable
  <1>1. Data # {}
    BY HubAssumption DEF HubAssumption
  <1>2. SomeData \in Data
    BY <1>1 DEF SomeData
  <1> QED  BY <1>1, <1>2, ZeroLevel DEF NoJob, Job, NoTaking, Input, NoFound, WorkerPc

\* The corpus that Connect returns, in any order, is a queue of inputs as long as
\* the corpus is large.
LEMMA SnapshotType ==
  ASSUME NEW corp \in SUBSET Data, NEW q \in Snapshot(corp)
  PROVE  /\ q \in Seq(CoordinatorInput) /\ IsFiniteSet(corp)
         /\ Cardinality(corp) \in Nat /\ Len(q) = Cardinality(corp)
         /\ corp # {} => q # <<>>
  <1> DEFINE input(x) == [data |-> x, minimized |-> x \notin UserCorpus, smashed |-> TRUE]
             inputs == {input(x) : x \in corp}
  <1>1. IsFiniteSet(corp) /\ Cardinality(corp) \in Nat
    BY HubAssumption, FS_Subset, FS_CardinalityType DEF HubAssumption
  <1>2. Cardinality(inputs) = Cardinality(corp)
    <2> DEFINE f == [x \in corp |-> input(x)]
    <2>1. f \in [corp -> inputs]
      OBVIOUS
    <2>2. ASSUME NEW x \in corp, NEW y \in corp, f[x] = f[y]  PROVE x = y
      <3>1. f[x] = input(x) /\ f[y] = input(y)
        OBVIOUS
      <3>2. input(x).data = x /\ input(y).data = y
        OBVIOUS
      <3> QED  BY <2>2, <3>1, <3>2
    <2>3. ASSUME NEW t \in inputs  PROVE \E x \in corp : f[x] = t
      OBVIOUS
    <2> HIDE DEF f
    <2>4. f \in Bijection(corp, inputs)
      BY <2>1, <2>2, <2>3 DEF Bijection, Injection, Surjection, IsInjective
    <2> QED  BY <1>1, <2>4, FS_Bijection DEF ExistsBijection
  <1>3. q \in [1 .. Cardinality(corp) -> inputs]
    BY <1>2 DEF Snapshot, SetToSeqs
  <1>4. inputs \subseteq CoordinatorInput
    <2>1. ASSUME NEW x \in corp  PROVE input(x) \in CoordinatorInput
      BY DEF CoordinatorInput
    <2> QED  BY <2>1
  <1>5. q \in [1 .. Cardinality(corp) -> CoordinatorInput]
    BY <1>3, <1>4
  <1>6. q \in Seq(CoordinatorInput) /\ Len(q) = Cardinality(corp)
    BY <1>1, <1>5
  <1>7. corp # {} => Cardinality(corp) # 0
    BY <1>1, FS_EmptySet
  <1> QED  BY <1>1, <1>6, <1>7
-----------------------------------------------------------------------------
(* The steps of the hub keep the types.                                    *)

\* The local buffer: what is in the queue and in the slot stays well formed.
LEMMA EnterSelectType ==
  ASSUME NEW q \in Seq(CoordinatorInput), NEW s \in CoordinatorInput \cup {NoInput},
         EnterSelect(q, s)
  PROVE  /\ triageQueue' \in Seq(CoordinatorInput)
         /\ slot' \in CoordinatorInput \cup {NoInput}
  BY FrontLast DEF EnterSelect

\* Handing out an input.
LEMMA HandOutType == TypeInv /\ HandOut => TypeInv'
  <1> SUFFICES ASSUME TypeInv, HandOut PROVE TypeInv'
    OBVIOUS
  <1>1. /\ UNCHANGED <<workerSide, triageState, roData, coordinator, hpc, taking,
                       newInputC, newCrasherC, syncC, maxCover, faults>>
        /\ slot \in CoordinatorInput
        /\ triageC' = Append(triageC, slot) /\ Len(triageC) < Procs
    BY DEF HandOut, TypeInv, TypeOK
  <1>2. triageC' \in Seq(CoordinatorInput) /\ Len(triageC') <= Procs
    BY <1>1, Appended, ProcsType DEF TypeInv, TypeOK
  <1>3. /\ triageQueue' \in Seq(CoordinatorInput)
        /\ slot' \in CoordinatorInput \cup {NoInput}
    BY EnterSelectType DEF HandOut, TypeInv, TypeOK
  <1> QED  BY <1>1, <1>2, <1>3, SameJobs
           DEF TypeInv, TypeOK, workerSide, triageState, roData, coordinator, Input

\* Statistics, and the start and end of calls.
LEMMA SmallHubSteps ==
  TypeInv /\ (TakeStats \/ StartSync \/ NewCrasherReturns \/ ConnectFails) => TypeInv'
  <1> SUFFICES ASSUME TypeInv, TakeStats \/ StartSync \/ NewCrasherReturns \/ ConnectFails
               PROVE  TypeInv'
    OBVIOUS
  <1>1. UNCHANGED <<workerSide, triageState, roData, coordinator, triageQueue, slot, taking,
                    triageC, newInputC, newCrasherC, maxCover>>
    BY DEF TakeStats, StartSync, NewCrasherReturns, ConnectFails, hubSide, channels,
           roData, coordinator
  <1>2. hpc' \in HubPc /\ faults' \in Nat
    BY DEF TakeStats, StartSync, NewCrasherReturns, ConnectFails, Fault, hubSide, TypeInv,
           TypeOK, HubPc
  <1>3. syncC' \in 0 .. Procs
    BY ProcsType DEF TakeStats, StartSync, NewCrasherReturns, ConnectFails, channels, TypeInv,
           TypeOK
  <1> QED  BY <1>1, <1>2, <1>3, SameJobs
           DEF TypeInv, TypeOK, workerSide, triageState, roData, coordinator

\* Taking an input off newInputC.
LEMMA TakeInputType == TypeInv /\ TakeInput => TypeInv'
  <1> SUFFICES ASSUME TypeInv, TakeInput PROVE TypeInv'
    OBVIOUS
  <1>1. newInputC \in Seq(Input) /\ newInputC # <<>> /\ newInputC' = Tail(newInputC)
    BY DEF TakeInput, TypeInv, TypeOK
  <1>2. /\ Head(newInputC) \in Input
        /\ newInputC' \in Seq(Input) /\ Len(newInputC') <= Procs
    BY <1>1, HeadTail, ProcsType DEF TypeInv, TypeOK
  <1>3. taking' \in Input /\ hpc' \in HubPc
    BY <1>2 DEF TakeInput, TypeInv, TypeOK, HubPc
  <1>4. Head(newInputC).cover \in Table
    BY <1>2 DEF Input
  <1>5. maxCover' \in [Slot -> Level]
    <2>1. updateMaxCover(maxCover, Head(newInputC).cover) \in [Slot -> Level]
      BY <1>4, FoldIsJoin DEF TypeInv, TypeOK
    <2>2. maxCover' \in {maxCover, updateMaxCover(maxCover, Head(newInputC).cover)}
      BY DEF TakeInput
    <2> QED  BY <2>1, <2>2 DEF TypeInv, TypeOK
  <1>6. UNCHANGED <<workerSide, triageState, roData, coordinator, triageQueue, slot,
                    triageC, newCrasherC, syncC, faults>>
    BY DEF TakeInput
  <1> QED  BY <1>2, <1>3, <1>5, <1>6, SameJobs
           DEF TypeInv, TypeOK, workerSide, triageState, roData, coordinator

\* Publishing an input.
LEMMA PublishType == TypeInv /\ Publish => TypeInv'
  <1> SUFFICES ASSUME TypeInv, Publish PROVE TypeInv'
    OBVIOUS
  <1>1. taking.data \in Data /\ taking.cover \in Table
    BY DEF TypeInv, TypeOK, Input
  <1>2. corpusCover' \in [Slot -> Level] /\ corpus' \subseteq Data
    BY <1>1, FoldIsJoin DEF Publish, TypeInv, TypeOK
  <1>3. taking' \in Input /\ hpc' \in HubPc
    BY Blank DEF Publish, TypeInv, TypeOK, HubPc
  <1>4. UNCHANGED <<workerSide, channels, triageState, coordinator, triageQueue, slot,
                    suppressions, badInputs, maxCover, faults>>
    BY DEF Publish
  <1> QED  BY <1>2, <1>3, <1>4, SameJobs
           DEF TypeInv, TypeOK, workerSide, triageState, channels, coordinator

\* Taking a crasher off newCrasherC.
LEMMA TakeCrasherType == TypeInv /\ TakeCrasher => TypeInv'
  <1> SUFFICES ASSUME TypeInv, TakeCrasher PROVE TypeInv'
    OBVIOUS
  <1>1. /\ Head(newCrasherC) \in Data
        /\ newCrasherC' \in Seq(Data) /\ Len(newCrasherC') <= Procs
    BY HeadTail, ProcsType DEF TakeCrasher, TypeInv, TypeOK
  <1>2. badInputs' \subseteq Data /\ suppressions' \subseteq Suppressions /\ hpc' \in HubPc
    BY <1>1 DEF TakeCrasher, TypeInv, TypeOK, HubPc, Suppressions
  <1>3. UNCHANGED <<workerSide, triageState, coordinator, triageQueue, slot, taking, triageC,
                    newInputC, syncC, corpus, corpusCover, maxCover, faults>>
    BY DEF TakeCrasher
  <1> QED  BY <1>1, <1>2, <1>3, SameJobs
           DEF TypeInv, TypeOK, workerSide, triageState, coordinator

\* What the coordinator knows and has pending, after an input was stored.
LEMMA StoredType ==
  ASSUME TypeInv, Stored \/ UNCHANGED coordinator
  PROVE  known' \subseteq Data /\ pending' \in Seq(CoordinatorInput)
  <1>1. taking.data \in Data
    BY DEF TypeInv, TypeOK, Input
  <1>2. [data |-> taking.data, minimized |-> TRUE, smashed |-> FALSE] \in CoordinatorInput
    BY <1>1 DEF CoordinatorInput
  <1>3. Append(pending, [data |-> taking.data, minimized |-> TRUE, smashed |-> FALSE])
          \in Seq(CoordinatorInput)
    BY <1>2, Appended DEF TypeInv, TypeOK
  <1> QED  BY <1>1, <1>3 DEF Stored, coordinator, TypeInv, TypeOK

\* The end of the calls that move inputs.
LEMMA ReturnType ==
  TypeInv /\ (SyncReturns \/ NewInputReturns \/ CallFails \/ Reconnect) => TypeInv'
  <1>1. ASSUME TypeInv, SyncReturns PROVE TypeInv'
    <2>1. triageQueue \o pending \in Seq(CoordinatorInput)
      BY <1>1, ConcatProperties DEF TypeInv, TypeOK
    <2>2. /\ triageQueue' \in Seq(CoordinatorInput)
          /\ slot' \in CoordinatorInput \cup {NoInput}
      BY <1>1, <2>1, EnterSelectType DEF SyncReturns, TypeInv, TypeOK
    <2>3. pending' \in Seq(CoordinatorInput) /\ hpc' \in HubPc
      BY <1>1, EmptySeq DEF SyncReturns, HubPc
    <2> QED  BY <1>1, <2>2, <2>3, SameJobs
             DEF SyncReturns, TypeInv, TypeOK, workerSide, triageState, channels, roData
  <1>2. ASSUME TypeInv, NewInputReturns PROVE TypeInv'
    <2>1. /\ known' \subseteq Data /\ pending' \in Seq(CoordinatorInput)
          /\ taking' \in Input /\ hpc' \in HubPc
      BY <1>2, StoredType, Blank DEF NewInputReturns, HubPc
    <2> QED  BY <1>2, <2>1, SameJobs
             DEF NewInputReturns, TypeInv, TypeOK, workerSide, triageState, channels, roData
  <1>3. ASSUME TypeInv, CallFails PROVE TypeInv'
    <2>1. /\ known' \subseteq Data /\ pending' \in Seq(CoordinatorInput)
          /\ taking' \in Input /\ hpc' \in HubPc
      BY <1>3, StoredType, Blank DEF CallFails, HubPc
    <2>2. faults' \in Nat
      BY <1>3 DEF CallFails, Fault, TypeInv, TypeOK
    <2> QED  BY <1>3, <2>1, <2>2, SameJobs
             DEF CallFails, TypeInv, TypeOK, workerSide, triageState, channels, roData
  <1>4. ASSUME TypeInv, Reconnect PROVE TypeInv'
    <2>1. PICK q \in Snapshot(known) : EnterSelect(q, slot)
      BY <1>4 DEF Reconnect
    <2>2. q \in Seq(CoordinatorInput) /\ Cardinality(known) \in Nat
      BY <1>4, <2>1, SnapshotType DEF TypeInv, TypeOK
    <2>3. /\ triageQueue' \in Seq(CoordinatorInput)
          /\ slot' \in CoordinatorInput \cup {NoInput}
      BY <1>4, <2>1, <2>2, EnterSelectType DEF TypeInv, TypeOK
    <2>4. /\ pending' \in Seq(CoordinatorInput) /\ hpc' \in HubPc
          /\ initialTriage' \in Nat /\ untriaged' \subseteq Data
      BY <1>4, <2>2, EmptySeq DEF Reconnect, HubPc, TypeInv, TypeOK
    <2> QED  BY <1>4, <2>3, <2>4, SameJobs
             DEF Reconnect, TypeInv, TypeOK, workerSide, channels, roData
  <1> QED  BY <1>1, <1>2, <1>3, <1>4

\* An input of another process.
LEMMA OtherFindsType ==
  ASSUME TypeInv, NEW x \in Foreign, OtherFinds(x)
  PROVE  TypeInv'
  <1>1. x \in Data
    BY HubAssumption DEF HubAssumption
  <1>2. [data |-> x, minimized |-> TRUE, smashed |-> TRUE] \in CoordinatorInput
    BY <1>1 DEF CoordinatorInput
  <1>3. known' \subseteq Data /\ pending' \in Seq(CoordinatorInput)
    BY <1>1, <1>2, Appended DEF OtherFinds, TypeInv, TypeOK
  <1> QED  BY <1>3, SameJobs
           DEF OtherFinds, TypeInv, TypeOK, workerSide, triageState, channels, roData
-----------------------------------------------------------------------------
(* The steps of the workers keep the types.                                *)

Found == [data : Data, cover : Table, back : WorkerPc]

\* Worker w moves to p with job j and finding f, and nobody else moves.
Moves(w, p, j, f) ==
  /\ wpc' = [wpc EXCEPT ![w] = p]
  /\ job' = [job EXCEPT ![w] = j]
  /\ found' = [found EXCEPT ![w] = f]

\* The place, the job and the finding fit one another.
Fits(p, j, f) ==
  /\ p \in WorkerPc /\ j \in Job /\ f \in Found
  /\ f.back \in Testing \cup {"loop"}
  /\ JobAt(IF p \in {"note", "report"} THEN f.back ELSE p, j)

\* What a worker may change besides its place, job and finding.
QueuesOK ==
  /\ localQueue \in [Workers -> Seq(CoordinatorInput)]
  /\ crasherQueue \in [Workers -> Seq(Data)]
  /\ noted \in Nat /\ reports \in Nat /\ crashes \in Nat

SharedOK ==
  /\ triageC \in Seq(CoordinatorInput) /\ Len(triageC) <= Procs
  /\ newInputC \in Seq(Input) /\ Len(newInputC) <= Procs
  /\ newCrasherC \in Seq(Data) /\ Len(newCrasherC) <= Procs
  /\ syncC \in 0 .. Procs
  /\ maxCover \in [Slot -> Level] /\ initialTriage \in Nat
  /\ untriaged \subseteq Data

\* A step of a worker whose parts are well formed keeps TypeInv.
LEMMA MovesType ==
  ASSUME TypeInv, NEW w \in Workers, NEW p, NEW j, NEW f, Moves(w, p, j, f), Fits(p, j, f),
         QueuesOK', SharedOK', UNCHANGED hubSide
  PROVE  TypeInv'
  <1>1. /\ wpc' \in [Workers -> WorkerPc] /\ job' \in [Workers -> Job]
        /\ found' \in [Workers -> Found]
    BY DEF TypeInv, TypeOK, Moves, Fits, JobAt, Found
  <1>2. TypeOK'
    BY <1>1 DEF TypeInv, TypeOK, hubSide, QueuesOK, SharedOK, Found
  <1>3. wpc'[w] = p /\ job'[w] = j /\ found'[w] = f
    BY DEF Moves, TypeInv, TypeOK
  <1>4. \A v \in Workers \ {w} :
           wpc'[v] = wpc[v] /\ job'[v] = job[v] /\ found'[v] = found[v]
    BY DEF Moves, TypeInv, TypeOK
  <1>5. JobState'
    BY <1>3, <1>4, OneJob DEF Fits, JobAt, TypeInv, Place
  <1> QED  BY <1>2, <1>5 DEF TypeInv

\* In the states of TypeInv, the parts a worker does not touch are well formed.
LEMMA Untouched ==
  ASSUME TypeInv
  PROVE  /\ QueuesOK /\ SharedOK
         /\ UNCHANGED <<localQueue, crasherQueue, noted, reports, crashes>> => QueuesOK'
         /\ UNCHANGED <<channels, triageState, maxCover>> => SharedOK'
         /\ \A w \in Workers : /\ wpc[w] \in WorkerPc /\ job[w] \in Job /\ found[w] \in Found
                               /\ found[w].back \in Testing \cup {"loop"}
  BY DEF TypeInv, TypeOK, JobState, QueuesOK, SharedOK, Found, channels, triageState

\* A job taken from a queue of inputs.
LEMMA JobOfType ==
  ASSUME NEW inp \in CoordinatorInput, NEW hub \in BOOLEAN
  PROVE  JobOf(inp, hub) \in Job /\ JobOf(inp, hub).data = inp.data /\ inp.data \in Data
  BY Blank, ZeroLevel DEF JobOf, NoJob, Job, CoordinatorInput

\* A worker takes a crasher, an input or nothing and leaves its loop.
LEMMA LoopType ==
  ASSUME TypeInv, NEW w \in Workers,
         PollCrasher(w) \/ PollTriage(w) \/ TakeLocal(w) \/ StartFuzz(w)
  PROVE  TypeInv'
  <1>0. QueuesOK /\ SharedOK /\ found[w] \in Found /\ found[w].back \in Testing \cup {"loop"}
    BY Untouched
  <1>1. CASE PollCrasher(w)
    <2> DEFINE crasher == Last(crasherQueue[w])
               j == [NoJob EXCEPT !.data = crasher, !.orig = crasher]
    <2>1. crasher \in Data /\ Front(crasherQueue[w]) \in Seq(Data)
      BY <1>0, <1>1, FrontLast DEF PollCrasher, QueuesOK
    <2>2. j \in Job /\ j.data \in Data /\ j.cover = ZeroTable /\ j.hub = FALSE
      BY <2>1, Blank DEF Job, NoJob
    <2>3. Moves(w, "crash", j, found[w]) /\ Fits("crash", j, found[w])
      BY <1>0, <1>1, <2>2 DEF PollCrasher, Goto, Moves, Fits, JobAt, WorkerPc, Testing, TypeInv, TypeOK
    <2>4. QueuesOK' /\ SharedOK' /\ UNCHANGED hubSide
      BY <1>0, <1>1, <2>1, Untouched DEF PollCrasher, QueuesOK
    <2> QED  BY <2>3, <2>4, MovesType
  <1>2. CASE PollTriage(w)
    <2> DEFINE j == JobOf(Head(triageC), TRUE)
    <2>1. /\ Head(triageC) \in CoordinatorInput
          /\ triageC' \in Seq(CoordinatorInput) /\ Len(triageC') <= Procs
      BY <1>0, <1>2, HeadTail, ProcsType DEF PollTriage, SharedOK
    <2>2. j \in Job /\ j.data \in Data
      BY <2>1, JobOfType
    <2> HIDE DEF j
    <2>3. Moves(w, "triage", j, found[w]) /\ Fits("triage", j, found[w])
      BY <1>0, <1>2, <2>2 DEF PollTriage, Goto, Moves, Fits, JobAt, WorkerPc, Testing, TypeInv, TypeOK, j
    <2>4. QueuesOK' /\ SharedOK' /\ UNCHANGED hubSide
      BY <1>0, <1>2, <2>1, Untouched DEF PollTriage, QueuesOK, SharedOK, triageState
    <2> QED  BY <2>3, <2>4, MovesType
  <1>3. CASE TakeLocal(w)
    <2> DEFINE j == JobOf(Last(localQueue[w]), FALSE)
    <2>1. Last(localQueue[w]) \in CoordinatorInput /\ Front(localQueue[w]) \in Seq(CoordinatorInput)
      BY <1>0, <1>3, FrontLast DEF TakeLocal, QueuesOK
    <2>2. j \in Job /\ j.data \in Data
      BY <2>1, JobOfType
    <2> HIDE DEF j
    <2>3. Moves(w, "triage", j, found[w]) /\ Fits("triage", j, found[w])
      BY <1>0, <1>3, <2>2 DEF TakeLocal, Goto, Moves, Fits, JobAt, WorkerPc, Testing, TypeInv, TypeOK, j
    <2>4. QueuesOK' /\ SharedOK' /\ UNCHANGED hubSide
      BY <1>0, <1>3, <2>1, Untouched DEF TakeLocal, QueuesOK
    <2> QED  BY <2>3, <2>4, MovesType
  <1>4. CASE StartFuzz(w)
    <2>1. wpc[w] = "loop" /\ job[w] = NoJob
      BY <1>4 DEF StartFuzz, Idle, TypeInv, JobState, Place, JobAt
    <2>2. Moves(w, "fuzz", job[w], found[w]) /\ Fits("fuzz", job[w], found[w])
      BY <1>0, <1>4, <2>1, Blank DEF StartFuzz, Goto, Moves, Fits, JobAt, WorkerPc, Testing, TypeInv, TypeOK
    <2>3. QueuesOK' /\ SharedOK' /\ UNCHANGED hubSide
      BY <1>4, Untouched DEF StartFuzz
    <2> QED  BY <2>2, <2>3, MovesType
  <1> QED  BY <1>1, <1>2, <1>3, <1>4
\* A crash that is noted is queued.
LEMMA CrasherNoted ==
  ASSUME TypeInv, NEW w \in Workers, NEW x \in Data, noteCrasher(w, x)
  PROVE  crasherQueue' \in [Workers -> Seq(Data)] /\ crashes' \in Nat
  <1>1. Append(crasherQueue[w], x) \in Seq(Data)
    BY Appended DEF TypeInv, TypeOK
  <1>2. [crasherQueue EXCEPT ![w] = Append(@, x)] \in [Workers -> Seq(Data)]
    BY <1>1 DEF TypeInv, TypeOK
  <1>3. crasherQueue' \in [Workers -> Seq(Data)]
    <2>1. crasherQueue' \in {crasherQueue, [crasherQueue EXCEPT ![w] = Append(@, x)]}
      BY DEF noteCrasher
    <2> QED  BY <1>2, <2>1 DEF TypeInv, TypeOK
  <1>4. crashes' \in Nat
    BY DEF noteCrasher, TypeInv, TypeOK
  <1> QED  BY <1>3, <1>4

\* After a run a worker goes back, or first updates maxCover.
LEMMA NewInputNoted ==
  ASSUME TypeInv, NEW w \in Workers, NEW x \in Data, NEW cover \in Table,
         NEW back \in Testing \cup {"loop"},
         JobAt(back, job[w]),
         noteNewInput(w, x, cover, back), UNCHANGED job
  PROVE  \E p, f : Moves(w, p, job[w], f) /\ Fits(p, job[w], f)
  <1>0. /\ job[w] \in Job /\ found[w] \in Found /\ found[w].back \in Testing \cup {"loop"}
        /\ job' = [job EXCEPT ![w] = job[w]]
        /\ [found EXCEPT ![w] = found[w]] = found
    BY Untouched DEF TypeInv, TypeOK
  <1>1. CASE ResOf[x] >= 0 /\ compareCover(maxCover, cover)
    <2> DEFINE f == [data |-> x, cover |-> cover, back |-> back]
    <2>1. f \in Found /\ f.back = back
      BY DEF Found, WorkerPc
    <2>2. Moves(w, "note", job[w], f)
      BY <1>0, <1>1 DEF noteNewInput, Goto, Moves
    <2>3. Fits("note", job[w], f)
      BY <1>0, <2>1 DEF Fits, JobAt, WorkerPc
    <2> QED  BY <2>2, <2>3
  <1>2. CASE ~(ResOf[x] >= 0 /\ compareCover(maxCover, cover))
    <2>1. Moves(w, back, job[w], found[w])
      BY <1>0, <1>2 DEF noteNewInput, Goto, Moves
    <2>2. Fits(back, job[w], found[w])
      BY <1>0 DEF Fits, JobAt, WorkerPc, Testing
    <2> QED  BY <2>1, <2>2
  <1> QED  BY <1>1, <1>2

\* A run of a mutant.
LEMMA TestType ==
  ASSUME TypeInv, NEW w \in Workers, NEW x \in Data, NEW back \in Testing \cup {"loop"},
         JobAt(back, job[w]),
         testInput(w, x, back), UNCHANGED job
  PROVE  /\ \E p, f : Moves(w, p, job[w], f) /\ Fits(p, job[w], f)
         /\ crasherQueue' \in [Workers -> Seq(Data)] /\ crashes' \in Nat
  <1>0. /\ job[w] \in Job /\ found[w] \in Found /\ found[w].back \in Testing \cup {"loop"}
        /\ job' = [job EXCEPT ![w] = job[w]]
        /\ [found EXCEPT ![w] = found[w]] = found
    BY Untouched DEF TypeInv, TypeOK
  <1>1. Fits(back, job[w], found[w])
    BY <1>0 DEF Fits, JobAt, WorkerPc, Testing
  <1>2. CASE Goto(w, back) /\ UNCHANGED <<found, crasherQueue, crashes>>
    BY <1>0, <1>1, <1>2 DEF Goto, Moves, TypeInv, TypeOK
  <1>3. CASE noteCrasher(w, x) /\ Goto(w, back) /\ UNCHANGED found
    BY <1>0, <1>1, <1>3, CrasherNoted DEF Goto, Moves
  <1>4. CASE /\ \E cover \in Runs[x] \ {CrashRun} : noteNewInput(w, x, cover, back)
             /\ UNCHANGED <<crasherQueue, crashes>>
    <2>1. PICK cover \in Runs[x] \ {CrashRun} : noteNewInput(w, x, cover, back)
      BY <1>4
    <2>2. cover \in Table
      BY HubAssumption DEF HubAssumption
    <2>3. \E p, f : Moves(w, p, job[w], f) /\ Fits(p, job[w], f)
      BY <2>1, <2>2, NewInputNoted
    <2> QED  BY <1>4, <2>3 DEF TypeInv, TypeOK
  <1> QED  BY <1>2, <1>3, <1>4 DEF testInput

\* Fuzzing and smashing.
LEMMA MutantType ==
  ASSUME TypeInv, NEW w \in Workers, NEW x \in Data, Fuzz(w, x) \/ Smash(w, x)
  PROVE  TypeInv'
  <1>1. PICK back \in {"loop", "smash"} :
          /\ testInput(w, x, back)
          /\ IF back = "loop" THEN wpc[w] = "fuzz" ELSE wpc[w] = "smash"
    BY DEF Fuzz, Smash
  <1>2. JobAt(back, job[w])
    BY <1>1 DEF TypeInv, JobState, Place, JobAt
  <1>3. /\ UNCHANGED <<hubSide, channels, triageState, maxCover, job, localQueue, noted, reports>>
        /\ back \in Testing \cup {"loop"}
    BY DEF Fuzz, Smash, Testing
  <1>4. /\ \E p, f : Moves(w, p, job[w], f) /\ Fits(p, job[w], f)
        /\ crasherQueue' \in [Workers -> Seq(Data)] /\ crashes' \in Nat
    BY <1>1, <1>2, <1>3, TestType
  <1>5. QueuesOK' /\ SharedOK' /\ UNCHANGED hubSide
    BY <1>3, <1>4, Untouched DEF QueuesOK
  <1> QED  BY <1>4, <1>5, MovesType

\* The update of maxCover under its lock.
LEMMA UpdateType ==
  ASSUME TypeInv, NEW w \in Workers, UpdateMaxCover(w)
  PROVE  TypeInv'
  <1> DEFINE new == [data |-> found[w].data, minimized |-> FALSE, smashed |-> FALSE]
  <1>0. /\ QueuesOK /\ SharedOK /\ job[w] \in Job /\ found[w] \in Found
        /\ found[w].back \in Testing \cup {"loop"}
    BY Untouched
  <1>1. new \in CoordinatorInput
    BY <1>0 DEF Found, CoordinatorInput
  <1>2. [localQueue EXCEPT ![w] = Append(@, new)] \in [Workers -> Seq(CoordinatorInput)]
    BY <1>0, <1>1, Appended DEF QueuesOK
  <1>3. updateMaxCover(maxCover, found[w].cover) \in [Slot -> Level]
    BY <1>0, FoldIsJoin DEF Found, SharedOK
  <1>4. localQueue' \in [Workers -> Seq(CoordinatorInput)] /\ noted' \in Nat
    <2>1. localQueue' \in {localQueue, [localQueue EXCEPT ![w] = Append(@, new)]}
      BY DEF UpdateMaxCover
    <2>2. noted' \in Nat
      BY <1>0 DEF UpdateMaxCover, QueuesOK
    <2> QED  BY <1>0, <1>2, <2>1, <2>2 DEF QueuesOK
  <1>5. maxCover' \in [Slot -> Level]
    BY <1>0, <1>3 DEF UpdateMaxCover, SharedOK
  <1>6. QueuesOK' /\ SharedOK' /\ UNCHANGED hubSide
    BY <1>0, <1>4, <1>5 DEF UpdateMaxCover, QueuesOK, SharedOK, channels, triageState
  <1>7. Moves(w, found[w].back, job[w], NoFound)
    BY <1>0 DEF UpdateMaxCover, Goto, Moves, TypeInv, TypeOK
  <1>8. JobAt(found[w].back, job[w])
    BY DEF UpdateMaxCover, TypeInv, JobState, Place, JobAt
  <1>9. Fits(found[w].back, job[w], NoFound)
    BY <1>0, <1>8, Blank DEF Fits, JobAt, Found, WorkerPc, Testing
  <1> QED  BY <1>6, <1>7, <1>9, MovesType

\* Reports of statistics.
LEMMA ReportType ==
  ASSUME TypeInv, NEW w \in Workers, PeriodicCheck(w) \/ SendStats(w)
  PROVE  TypeInv'
  <1>0. /\ QueuesOK /\ SharedOK /\ job[w] \in Job /\ found[w] \in Found
        /\ found[w].back \in Testing \cup {"loop"}
        /\ [job EXCEPT ![w] = job[w]] = job
    BY Untouched DEF TypeInv, TypeOK
  <1>1. CASE PeriodicCheck(w)
    <2> DEFINE f == [NoFound EXCEPT !.back = wpc[w]]
    <2>1. wpc[w] \in Testing /\ f \in Found /\ f.back = wpc[w]
      BY <1>1, Blank DEF PeriodicCheck, Found, NoFound, WorkerPc
    <2>2. Moves(w, "report", job[w], f)
      BY <1>0, <1>1 DEF PeriodicCheck, Goto, Moves
    <2>3. JobAt(wpc[w], job[w])
      BY <2>1 DEF TypeInv, JobState, Place, JobAt, Testing
    <2>4. Fits("report", job[w], f)
      BY <1>0, <2>1, <2>3 DEF Fits, JobAt, WorkerPc, Sending
    <2>5. QueuesOK' /\ SharedOK' /\ UNCHANGED hubSide
      BY <1>0, <1>1, Untouched DEF PeriodicCheck, QueuesOK
    <2> QED  BY <2>2, <2>4, <2>5, MovesType
  <1>2. CASE SendStats(w)
    <2>1. Moves(w, found[w].back, job[w], NoFound)
      BY <1>0, <1>2 DEF SendStats, Goto, Moves
    <2>2. JobAt(found[w].back, job[w])
      BY <1>2 DEF SendStats, TypeInv, JobState, Place, JobAt
    <2>3. Fits(found[w].back, job[w], NoFound)
      BY <1>0, <2>2, Blank DEF Fits, JobAt, Found, WorkerPc, Testing
    <2>4. syncC' \in 0 .. Procs
      BY <1>0, <1>2, ProcsType DEF SendStats, SharedOK
    <2>5. QueuesOK' /\ SharedOK' /\ UNCHANGED hubSide
      BY <1>0, <1>2, <2>4, Untouched DEF SendStats, SharedOK, triageState
    <2> QED  BY <2>1, <2>3, <2>5, MovesType
  <1> QED  BY <1>1, <1>2
\* Triage: the cover recorded is a table, and so is its novelty.
LEMMA TriageTables ==
  ASSUME TypeInv, NEW x \in Data, NEW cover \in ThreeRuns(x)
  PROVE  /\ cover \in Table /\ findNewCover(corpusCover, cover) \in Table
         /\ \A i \in Slot : \E run \in Runs[x] \ {CrashRun} : cover[i] = run[i]
  <1>1. PICK r \in [1 .. 3 -> Runs[x] \ {CrashRun}] : cover = MaxOf({r[1], r[2], r[3]})
    BY DEF ThreeRuns
  <1>2. /\ {r[1], r[2], r[3]} \subseteq Runs[x] \ {CrashRun}
        /\ r[1] \in Table /\ r[2] \in Table /\ r[3] \in Table
    BY HubAssumption DEF HubAssumption
  <1>3. /\ cover \in Table
        /\ \A i \in Slot : \E run \in {r[1], r[2], r[3]} : cover[i] = run[i]
    BY <1>1, <1>2, MaxOfRuns
  <1>4. findNewCover(corpusCover, cover) \in Table
    BY <1>3 DEF findNewCover, Table, Byte
  <1> QED  BY <1>2, <1>3, <1>4

\* Triage leads to a place where a job is done.
LEMMA AfterRunsPlace ==
  ASSUME NEW inp \in Job, NEW isNew \in BOOLEAN
  PROVE  AfterRuns(inp, isNew) \in {"after", "minimize", "smash", "send"}
  BY DEF AfterRuns, Job

\* Triage of an input.
LEMMA TriageType ==
  ASSUME TypeInv, NEW w \in Workers, Triage(w) \/ TriageCrash(w)
  PROVE  TypeInv'
  <1>0. /\ QueuesOK /\ SharedOK /\ job[w] \in Job /\ found[w] \in Found
        /\ found[w].back \in Testing \cup {"loop"}
        /\ [job EXCEPT ![w] = job[w]] = job /\ [found EXCEPT ![w] = found[w]] = found
    BY Untouched DEF TypeInv, TypeOK
  <1>1. job[w].data \in Data
    BY DEF Triage, TriageCrash, TypeInv, JobState, Place, JobAt
  <1>2. CASE Triage(w)
    <2>1. PICK cover \in ThreeRuns(job[w].data) :
            /\ job' = [job EXCEPT ![w].cover = cover,
                                  ![w].pursue = findNewCover(corpusCover, cover)]
            /\ Goto(w, AfterRuns(job[w], findNewCoverNotEmpty(corpusCover, cover)))
      BY <1>2 DEF Triage
    <2> DEFINE p == AfterRuns(job[w], findNewCoverNotEmpty(corpusCover, cover))
               j == [job[w] EXCEPT !.cover = cover,
                                   !.pursue = findNewCover(corpusCover, cover)]
    <2>2. p \in {"after", "minimize", "smash", "send"}
      BY <1>0, AfterRunsPlace DEF findNewCoverNotEmpty
    <2>3. cover \in Table /\ findNewCover(corpusCover, cover) \in Table
      BY <1>1, TriageTables
    <2>4. j \in Job /\ j.data = job[w].data
      BY <1>0, <2>3 DEF Job
    <2>5. job' = [job EXCEPT ![w] = j]
      BY <1>0, <2>1 DEF TypeInv, TypeOK, Job
    <2> HIDE DEF p, j
    <2>6. Moves(w, p, j, found[w])
      BY <1>0, <1>2, <2>1, <2>5 DEF Triage, Goto, Moves, p
    <2>7. Fits(p, j, found[w])
      BY <1>0, <1>1, <2>2, <2>4 DEF Fits, JobAt, WorkerPc, Testing, Sending
    <2>8. QueuesOK' /\ SharedOK' /\ UNCHANGED hubSide
      BY <1>2, Untouched DEF Triage
    <2> QED  BY <2>6, <2>7, <2>8, MovesType
  <1>3. CASE TriageCrash(w)
    <2>1. Moves(w, "after", job[w], found[w]) /\ Fits("after", job[w], found[w])
      BY <1>0, <1>1, <1>3 DEF TriageCrash, Goto, Moves, Fits, JobAt, WorkerPc
    <2>2. crasherQueue' \in [Workers -> Seq(Data)] /\ crashes' \in Nat
      BY <1>1, <1>3, CrasherNoted DEF TriageCrash
    <2>3. QueuesOK' /\ SharedOK' /\ UNCHANGED hubSide
      BY <1>0, <1>3, <2>2, Untouched DEF TriageCrash, QueuesOK
    <2> QED  BY <2>1, <2>3, MovesType
  <1> QED  BY <1>2, <1>3

\* One candidate of the minimization of an input or of a crasher.
LEMMA MinimizeType ==
  ASSUME TypeInv, NEW w \in Workers, NEW c \in Data, Minimize(w, c) \/ MinimizeCrasher(w, c)
  PROVE  TypeInv'
  <1>0. /\ QueuesOK /\ SharedOK /\ job[w] \in Job /\ found[w] \in Found
        /\ found[w].back \in Testing \cup {"loop"} /\ wpc[w] \in {"minimize", "crash"}
        /\ [job EXCEPT ![w] = job[w]] = job /\ [found EXCEPT ![w] = found[w]] = found
        /\ [wpc EXCEPT ![w] = wpc[w]] = wpc
    BY Untouched DEF TypeInv, TypeOK, Minimize, MinimizeCrasher
  <1>1. job[w].data \in Data
    BY DEF Minimize, MinimizeCrasher, TypeInv, JobState, Place, JobAt
  <1> DEFINE j == [job[w] EXCEPT !.data = c]
  <1>2. /\ j \in Job /\ j.data = c /\ j.cover = job[w].cover /\ j.hub = job[w].hub
        /\ wpc[w] = "crash" => job[w].cover = ZeroTable /\ ~job[w].hub
    BY <1>0 DEF Job, TypeInv, JobState, Place, JobAt
  <1>3. Fits(wpc[w], job[w], found[w]) /\ Fits(wpc[w], j, found[w])
    BY <1>0, <1>1, <1>2 DEF Fits, JobAt, WorkerPc, Testing
  <1>4. job' = [job EXCEPT ![w].data = c] => job' = [job EXCEPT ![w] = j]
    OBVIOUS
  <1> HIDE DEF j
  <1>5. \/ noteCrasher(w, c) /\ UNCHANGED <<wpc, job, found>>
        \/ UNCHANGED <<wpc, found, crasherQueue, crashes>> /\ job' = [job EXCEPT ![w].data = c]
        \/ /\ wpc[w] = "minimize"
           /\ \E cover \in Runs[c] \ {CrashRun} : noteNewInput(w, c, cover, "minimize")
           /\ UNCHANGED <<job, crasherQueue, crashes>>
    BY DEF Minimize, MinimizeCrasher
  <1>6. UNCHANGED <<hubSide, channels, triageState, maxCover, localQueue, noted, reports>>
    BY DEF Minimize, MinimizeCrasher
  <1>7. CASE noteCrasher(w, c) /\ UNCHANGED <<wpc, job, found>>
    <2>1. crasherQueue' \in [Workers -> Seq(Data)] /\ crashes' \in Nat
      BY <1>7, CrasherNoted
    <2>2. Moves(w, wpc[w], job[w], found[w])
      BY <1>0, <1>7 DEF Moves
    <2>3. QueuesOK' /\ SharedOK' /\ UNCHANGED hubSide
      BY <1>0, <1>6, <2>1, Untouched DEF QueuesOK
    <2> QED  BY <1>3, <2>2, <2>3, MovesType
  <1>8. CASE UNCHANGED <<wpc, found, crasherQueue, crashes>> /\ job' = [job EXCEPT ![w].data = c]
    <2>1. Moves(w, wpc[w], j, found[w])
      BY <1>0, <1>4, <1>8 DEF Moves
    <2>2. QueuesOK' /\ SharedOK' /\ UNCHANGED hubSide
      BY <1>6, <1>8, Untouched
    <2> QED  BY <1>3, <2>1, <2>2, MovesType
  <1>9. CASE /\ wpc[w] = "minimize"
             /\ \E cover \in Runs[c] \ {CrashRun} : noteNewInput(w, c, cover, "minimize")
             /\ UNCHANGED <<job, crasherQueue, crashes>>
    <2>1. PICK cover \in Runs[c] \ {CrashRun} : noteNewInput(w, c, cover, "minimize")
      BY <1>9
    <2>2. cover \in Table
      BY HubAssumption DEF HubAssumption
    <2>3. "minimize" \in Testing \cup {"loop"} /\ JobAt("minimize", job[w])
      BY <1>1 DEF Testing, JobAt
    <2>4. \E p, f : Moves(w, p, job[w], f) /\ Fits(p, job[w], f)
      BY <1>1, <1>9, <2>1, <2>2, <2>3, NewInputNoted
    <2>5. QueuesOK' /\ SharedOK' /\ UNCHANGED hubSide
      BY <1>6, <1>9, Untouched
    <2> QED  BY <2>4, <2>5, MovesType
  <1> QED  BY <1>5, <1>7, <1>8, <1>9

\* The end of minimization, of smashing and of a job.
LEMMA FinishType ==
  ASSUME TypeInv, NEW w \in Workers,
         Finish(w) \/ SendInput(w) \/ AfterTriage(w) \/ CrasherMinimized(w) \/ SendCrasher(w)
  PROVE  TypeInv'
  <1>0. /\ QueuesOK /\ SharedOK /\ job[w] \in Job /\ found[w] \in Found
        /\ found[w].back \in Testing \cup {"loop"}
        /\ [job EXCEPT ![w] = job[w]] = job /\ [found EXCEPT ![w] = found[w]] = found
    BY Untouched DEF TypeInv, TypeOK
  <1>1. job[w].data \in Data
    BY DEF Finish, SendInput, AfterTriage, CrasherMinimized, SendCrasher, TypeInv, JobState, Place, JobAt
  <1>2. /\ Fits("send", job[w], found[w]) /\ Fits("after", job[w], found[w])
        /\ wpc[w] = "crash" => Fits("sendCrash", job[w], found[w])
        /\ Fits("loop", NoJob, found[w])
    BY <1>0, <1>1, Blank DEF Fits, JobAt, WorkerPc, Sending, TypeInv, JobState, Place
  <1>3. CASE Finish(w)
    <2>1. Moves(w, "send", job[w], found[w])
      BY <1>0, <1>3 DEF Finish, Goto, Moves
    <2>2. QueuesOK' /\ SharedOK' /\ UNCHANGED hubSide
      BY <1>3, Untouched DEF Finish
    <2> QED  BY <1>2, <2>1, <2>2, MovesType
  <1>4. CASE SendInput(w)
    <2> DEFINE input == [data |-> job[w].data, cover |-> job[w].cover, mine |-> ~job[w].minimized]
    <2>1. input \in Input
      BY <1>0, <1>1 DEF Job, Input
    <2>2. newInputC' = Append(newInputC, input) /\ Len(newInputC) < Procs
      BY <1>4 DEF SendInput
    <2> HIDE DEF input
    <2>3. newInputC' \in Seq(Input) /\ Len(newInputC') <= Procs
      BY <1>0, <2>1, <2>2, Appended, ProcsType DEF SharedOK
    <2>4. Moves(w, "after", job[w], found[w])
      BY <1>0, <1>4 DEF SendInput, Goto, Moves
    <2>5. QueuesOK' /\ SharedOK' /\ UNCHANGED hubSide
      BY <1>0, <1>4, <2>3, Untouched DEF SendInput, SharedOK, triageState
    <2> QED  BY <1>2, <2>4, <2>5, MovesType
  <1>5. CASE AfterTriage(w)
    <2>1. initialTriage' \in Nat /\ untriaged' \subseteq Data
      BY <1>0, <1>5 DEF AfterTriage, SharedOK
    <2>2. Moves(w, "loop", NoJob, found[w])
      BY <1>0, <1>5 DEF AfterTriage, Goto, Moves
    <2>3. QueuesOK' /\ SharedOK' /\ UNCHANGED hubSide
      BY <1>0, <1>5, <2>1, Untouched DEF AfterTriage, SharedOK, channels
    <2> QED  BY <1>2, <2>2, <2>3, MovesType
  <1>6. CASE CrasherMinimized(w)
    <2>1. Moves(w, "sendCrash", job[w], found[w])
      BY <1>0, <1>6 DEF CrasherMinimized, Goto, Moves
    <2>2. QueuesOK' /\ SharedOK' /\ UNCHANGED hubSide
      BY <1>6, Untouched DEF CrasherMinimized
    <2> QED  BY <1>2, <1>6, <2>1, <2>2, MovesType DEF CrasherMinimized
  <1>7. CASE SendCrasher(w)
    <2>1. newCrasherC' \in Seq(Data) /\ Len(newCrasherC') <= Procs
      BY <1>0, <1>1, <1>7, Appended, ProcsType DEF SendCrasher, SharedOK
    <2>2. Moves(w, "loop", NoJob, found[w])
      BY <1>0, <1>7 DEF SendCrasher, Goto, Moves
    <2>3. QueuesOK' /\ SharedOK' /\ UNCHANGED hubSide
      BY <1>0, <1>7, <2>1, Untouched DEF SendCrasher, SharedOK, triageState
    <2> QED  BY <1>2, <2>2, <2>3, MovesType
  <1> QED  BY <1>3, <1>4, <1>5, <1>6, <1>7
-----------------------------------------------------------------------------
(* The type invariant.                                                     *)

\* Every step keeps it.
LEMMA StepType == TypeInv /\ [Next]_vars => TypeInv'
  <1> SUFFICES ASSUME TypeInv, [Next]_vars PROVE TypeInv'
    OBVIOUS
  <1>1. ASSUME NEW w \in Workers, WorkerStep(w) \/ PeriodicCheck(w) PROVE TypeInv'
    BY <1>1, LoopType, UpdateType, ReportType, MutantType, MinimizeType, TriageType, FinishType
       DEF WorkerStep
  <1>2. ASSUME HubCall PROVE TypeInv'
    BY <1>2, PublishType, ReturnType, SmallHubSteps DEF HubCall
  <1>3. ASSUME UNCHANGED vars PROVE TypeInv'
    <2>1. UNCHANGED <<hubSide, wpc, job, found>> /\ QueuesOK' /\ SharedOK'
      BY <1>3, Untouched DEF vars, workerSide
    <2> QED  BY <2>1, SameJobs DEF TypeInv, TypeOK, hubSide, QueuesOK, SharedOK
  <1> QED  BY <1>1, <1>2, <1>3, HandOutType, SmallHubSteps, TakeInputType, TakeCrasherType,
              ReturnType, OtherFindsType DEF Next

\* The process starts in it.
LEMMA StartType == Init => TypeInv
  <1> SUFFICES ASSUME Init PROVE TypeInv
    OBVIOUS
  <1>1. known \in SUBSET Data /\ known # {}
    BY HubAssumption DEF Init, HubAssumption
  <1>2. PICK q \in Snapshot(known) : triageQueue = Front(q) /\ slot = Last(q)
    BY DEF Init
  <1>3. triageQueue \in Seq(CoordinatorInput) /\ slot \in CoordinatorInput
    BY <1>1, <1>2, SnapshotType, FrontLast
  <1>4. initialTriage \in Nat /\ untriaged \subseteq Data
    BY <1>1, <1>2, SnapshotType DEF Init
  <1>5. /\ triageC \in Seq(CoordinatorInput) /\ Len(triageC) <= Procs
        /\ newInputC \in Seq(Input) /\ Len(newInputC) <= Procs
        /\ newCrasherC \in Seq(Data) /\ Len(newCrasherC) <= Procs
        /\ syncC \in 0 .. Procs /\ pending \in Seq(CoordinatorInput)
    BY ProcsType DEF Init
  <1>6. /\ localQueue \in [Workers -> Seq(CoordinatorInput)]
        /\ crasherQueue \in [Workers -> Seq(Data)]
    BY DEF Init
  <1>7. /\ wpc \in [Workers -> WorkerPc] /\ job \in [Workers -> Job]
        /\ found \in [Workers -> [data : Data, cover : Table, back : WorkerPc]]
    BY Blank DEF Init, WorkerPc
  <1>8. JobState
    BY Blank DEF Init, JobState, Place, JobAt
  <1> QED  BY <1>1, <1>3, <1>4, <1>5, <1>6, <1>7, <1>8, Blank, ZeroLevel
           DEF Init, TypeInv, TypeOK, HubPc

\* The type invariant holds in every reachable state.
LEMMA TypeInvariant == Spec => []TypeInv
  BY StartType, StepType, PTL DEF Spec

\* Type correctness: whatever the workers and the hub do, the channels stay within
\* their capacity procs, the tables hold quantized levels only, and the counter
\* initialTriage does not become negative.
THEOREM TypeCorrect == Spec => []TypeOK
  <1>1. TypeInv => TypeOK
    BY DEF TypeInv
  <1> QED  BY <1>1, TypeInvariant, PTL
-----------------------------------------------------------------------------
(* What the two tables of cover have to do with each other.                *)

\* Levels and counters are numbers.
LEMMA Numbers ==
  /\ \A v \in Level : v \in Int
  /\ \A b \in [Slot -> Level] : \A i \in Slot : b[i] \in Level /\ b[i] \in Int
  /\ \A c \in Table : \A i \in Slot : /\ c[i] \in Byte /\ c[i] \in Int
                                      /\ roundUpCover(c[i]) \in Level
                                      /\ roundUpCover(c[i]) \in Int
  <1>1. \A v \in Level : v \in Int
    BY DEF Level
  <1>2. \A c \in Table : \A i \in Slot : c[i] \in Byte
    BY DEF Table
  <1> QED  BY <1>1, <1>2, RoundUpClosure

\* A run that is not new has no counter above the table.
LEMMA NotNew ==
  ASSUME NEW b \in [Slot -> Level], NEW c \in Table, ~compareCover(b, c)
  PROVE  \A i \in Slot : roundUpCover(c[i]) <= b[i]
  <1>1. b \in Table
    BY LevelFixed DEF Table
  <1>2. \A i \in Slot : ~(c[i] > b[i])
    BY <1>1, VectorCompare DEF compareCover, compareCoverDump
  <1>3. \A i \in Slot : c[i] \in Byte /\ b[i] \in Level
    BY DEF Table
  <1>4. ASSUME NEW i \in Slot PROVE roundUpCover(c[i]) <= b[i]
    <2>1. ~(roundUpCover(c[i]) > b[i])
      <3>1. PICK v \in Level, k \in Byte : v = b[i] /\ k = c[i]
        BY <1>3
      <3>2. k > v <=> roundUpCover(k) > v
        BY RawVersusLevel
      <3> QED  BY <1>2, <3>1, <3>2
    <2>2. roundUpCover(c[i]) \in Int /\ b[i] \in Int
      BY <1>3, Numbers
    <2> QED  BY <2>1, <2>2
  <1> QED  BY <1>4

\* The input at the head of newInputC.
LEMMA HeadInput ==
  ASSUME TypeInv, newInputC # <<>>
  PROVE  Head(newInputC) \in Input /\ Head(newInputC).cover \in Table
  <1>1. newInputC \in Seq(Input)
    BY DEF TypeInv, TypeOK
  <1>2. Head(newInputC) \in Input
    BY <1>1, HeadTail
  <1> QED  BY <1>2 DEF Input

\* The hub alone publishes, and what it is about to publish it has taken.
LEMMA WorkerFrame ==
  ASSUME NEW w \in Workers, WorkerStep(w) \/ PeriodicCheck(w)
  PROVE  /\ UNCHANGED hubSide
         /\ UNCHANGED maxCover \/ UpdateMaxCover(w)
         /\ UNCHANGED noted \/ UpdateMaxCover(w)
  <1>1. CASE PollCrasher(w) \/ PollTriage(w) \/ TakeLocal(w) \/ StartFuzz(w) \/ SendStats(w)
    BY <1>1 DEF PollCrasher, PollTriage, TakeLocal, StartFuzz, SendStats
  <1>2. CASE UpdateMaxCover(w)
    BY <1>2 DEF UpdateMaxCover
  <1>3. CASE \E x \in Data : Fuzz(w, x) \/ Smash(w, x) \/ Minimize(w, x) \/ MinimizeCrasher(w, x)
    BY <1>3 DEF Fuzz, Smash, Minimize, MinimizeCrasher
  <1>4. CASE TriageCrash(w) \/ Triage(w) \/ PeriodicCheck(w)
    BY <1>4 DEF TriageCrash, Triage, PeriodicCheck
  <1>5. CASE Finish(w) \/ SendInput(w) \/ AfterTriage(w) \/ CrasherMinimized(w) \/ SendCrasher(w)
    BY <1>5 DEF Finish, SendInput, AfterTriage, CrasherMinimized, SendCrasher
  <1> QED  BY <1>1, <1>2, <1>3, <1>4, <1>5 DEF WorkerStep

\* The steps that are not of this process's workers.
HubStep ==
  \/ HandOut \/ TakeStats \/ TakeInput \/ TakeCrasher \/ StartSync
  \/ HubCall \/ CallFails \/ ConnectFails
  \/ \E x \in Foreign : OtherFinds(x)

\* Of these, only TakeInput and Publish change the tables.
LEMMA HubFrame ==
  ASSUME HubStep
  PROVE  /\ TakeInput \/ UNCHANGED <<maxCover, newInputC>>
         /\ Publish \/ UNCHANGED <<corpus, corpusCover>>
         /\ TakeInput \/ (hpc' = "publish" => hpc = "publish" /\ UNCHANGED taking)
         /\ UNCHANGED workerSide
  <1>1. CASE HandOut \/ TakeStats \/ TakeCrasher \/ StartSync
    BY <1>1 DEF HandOut, TakeStats, TakeCrasher, StartSync, hubSide, channels, roData
  <1>2. CASE TakeInput
    BY <1>2 DEF TakeInput, roData
  <1>3. CASE HubCall
    BY <1>3 DEF HubCall, Publish, SyncReturns, NewInputReturns, NewCrasherReturns, Reconnect,
                channels, roData
  <1>4. CASE CallFails \/ ConnectFails \/ \E x \in Foreign : OtherFinds(x)
    BY <1>4 DEF CallFails, ConnectFails, OtherFinds, channels, roData
  <1> QED  BY <1>1, <1>2, <1>3, <1>4 DEF HubStep

\* maxCover only grows.
LEMMA MaxGrows ==
  ASSUME TypeInv, [Next]_vars
  PROVE  \A i \in Slot : maxCover'[i] >= maxCover[i]
  <1>1. maxCover \in [Slot -> Level] /\ \A i \in Slot : maxCover[i] \in Int
    BY Numbers DEF TypeInv, TypeOK
  <1>2. CASE UNCHANGED maxCover
    BY <1>1, <1>2
  <1>3. ASSUME NEW w \in Workers, UpdateMaxCover(w)
        PROVE  \A i \in Slot : maxCover'[i] >= maxCover[i]
    <2>1. found[w].cover \in Table
      BY DEF TypeInv, TypeOK
    <2>2. maxCover' \in {maxCover, updateMaxCover(maxCover, found[w].cover)}
      BY <1>3 DEF UpdateMaxCover
    <2> QED  BY <1>1, <2>1, <2>2, FoldIsJoin
  <1>4. CASE TakeInput
    <2>1. Head(newInputC).cover \in Table
      BY <1>4, HeadInput DEF TakeInput
    <2>2. maxCover' \in {maxCover, updateMaxCover(maxCover, Head(newInputC).cover)}
      BY <1>4 DEF TakeInput
    <2> QED  BY <1>1, <2>1, <2>2, FoldIsJoin
  <1>5. \/ UNCHANGED vars \/ HubStep
        \/ \E w \in Workers : WorkerStep(w) \/ PeriodicCheck(w)
    BY DEF Next, HubStep
  <1>6. UNCHANGED maxCover \/ TakeInput \/ \E w \in Workers : UpdateMaxCover(w)
    BY <1>5, WorkerFrame, HubFrame DEF vars
  <1> QED  BY <1>2, <1>3, <1>4, <1>6

\* The published cover stays below maxCover.
LEMMA StepMax == MaxInv /\ [Next]_vars => MaxInv'
  <1> SUFFICES ASSUME MaxInv, [Next]_vars PROVE MaxInv'
    OBVIOUS
  <1>1. TypeInv /\ TypeInv' /\ CorpusWithinMax /\ PublishedWithinMax
    BY StepType DEF MaxInv
  <1>2. ASSUME NEW i \in Slot
        PROVE  /\ maxCover'[i] >= maxCover[i] /\ maxCover[i] \in Int /\ maxCover'[i] \in Int
               /\ corpusCover[i] \in Int /\ roundUpCover(taking.cover[i]) \in Int
    <2>1. /\ maxCover \in [Slot -> Level] /\ maxCover' \in [Slot -> Level]
          /\ corpusCover \in [Slot -> Level] /\ taking.cover \in Table
      BY <1>1 DEF TypeInv, TypeOK, Input
    <2> QED  BY <1>1, <2>1, MaxGrows, Numbers
  <1>3. CASE Publish
    <2>1. taking.cover \in Table /\ corpusCover \in [Slot -> Level]
      BY <1>1 DEF TypeInv, TypeOK, Input
    <2>2. /\ corpusCover' = updateMaxCover(corpusCover, taking.cover)
          /\ hpc = "publish" /\ hpc' # "publish"
      BY <1>3 DEF Publish
    <2>3. \A i \in Slot : corpusCover'[i] \in {corpusCover[i], roundUpCover(taking.cover[i])}
      BY <2>1, <2>2, FoldIsJoin
    <2>4. \A i \in Slot : corpusCover[i] <= maxCover[i]
                          /\ roundUpCover(taking.cover[i]) <= maxCover[i]
      BY <1>1, <2>2 DEF CorpusWithinMax, PublishedWithinMax
    <2>5. CorpusWithinMax'
      BY <1>2, <2>3, <2>4 DEF CorpusWithinMax
    <2>6. PublishedWithinMax'
      BY <2>2 DEF PublishedWithinMax
    <2> QED  BY <1>1, <2>5, <2>6 DEF MaxInv
  <1>4. CASE TakeInput
    <2> DEFINE c == Head(newInputC).cover
    <2>1. c \in Table /\ maxCover \in [Slot -> Level]
      BY <1>1, <1>4, HeadInput DEF TakeInput, TypeInv, TypeOK
    <2>2. /\ taking' = Head(newInputC)
          /\ maxCover' = IF compareCover(maxCover, c) THEN updateMaxCover(maxCover, c)
                                                      ELSE maxCover
          \/ hpc' # "publish"
      BY <1>4 DEF TakeInput
    <2>3. PublishedWithinMax'
      <3>1. CASE hpc' # "publish"
        BY <3>1 DEF PublishedWithinMax
      <3>2. CASE taking' = Head(newInputC) /\ maxCover' = updateMaxCover(maxCover, c)
        BY <1>2, <2>1, <3>2, FoldIsJoin DEF PublishedWithinMax
      <3>3. CASE taking' = Head(newInputC) /\ maxCover' = maxCover /\ ~compareCover(maxCover, c)
        BY <2>1, <3>3, NotNew DEF PublishedWithinMax
      <3> QED  BY <2>2, <3>1, <3>2, <3>3
    <2>4. UNCHANGED corpusCover
      BY <1>4 DEF TakeInput, roData
    <2>5. CorpusWithinMax'
      BY <1>1, <1>2, <2>4 DEF CorpusWithinMax
    <2> QED  BY <1>1, <2>3, <2>5 DEF MaxInv
  <1>5. CASE /\ UNCHANGED corpusCover
             /\ hpc' = "publish" => hpc = "publish" /\ UNCHANGED taking
    <2>1. CorpusWithinMax'
      BY <1>1, <1>2, <1>5 DEF CorpusWithinMax
    <2>2. PublishedWithinMax'
      <3> SUFFICES ASSUME hpc' = "publish", NEW i \in Slot
                   PROVE  roundUpCover(taking'.cover[i]) <= maxCover'[i]
        BY DEF PublishedWithinMax
      <3>1. roundUpCover(taking.cover[i]) <= maxCover[i] /\ taking' = taking
        BY <1>1, <1>5 DEF PublishedWithinMax
      <3> QED  BY <1>2, <3>1
    <2> QED  BY <1>1, <2>1, <2>2 DEF MaxInv
  <1>6. \/ UNCHANGED vars \/ HubStep
        \/ \E w \in Workers : WorkerStep(w) \/ PeriodicCheck(w)
    BY DEF Next, HubStep
  <1>7. UNCHANGED hubSide
          => /\ UNCHANGED corpusCover
             /\ hpc' = "publish" => hpc = "publish" /\ UNCHANGED taking
    BY DEF hubSide
  <1>8. UNCHANGED vars => UNCHANGED hubSide
    BY DEF vars
  <1> QED  BY <1>3, <1>4, <1>5, <1>6, <1>7, <1>8, WorkerFrame, HubFrame

\* Whatever the interleaving of the fuzzing goroutines, which raise maxCover under
\* their lock, and of the hub, which raises both tables without a lock between,
\* the published cover never exceeds maxCover: what is in the corpus is never
\* taken for new.
THEOREM CoverWithinMax == Spec => []CorpusWithinMax
  <1>1. Init => MaxInv
    <2> SUFFICES ASSUME Init PROVE MaxInv
      OBVIOUS
    <2>1. corpusCover = ZeroTable /\ maxCover = ZeroTable /\ hpc = "select"
      BY DEF Init
    <2> QED  BY <2>1, StartType DEF MaxInv, CorpusWithinMax, PublishedWithinMax, ZeroTable
  <1>2. MaxInv => CorpusWithinMax
    BY DEF MaxInv
  <1> QED  BY <1>1, <1>2, StepMax, PTL DEF Spec
-----------------------------------------------------------------------------
(* The published cover is exhibited by inputs of the corpus.               *)

\* What is shown stays shown when the table grows.
LEMMA ShownGrows ==
  ASSUME NEW x, NEW c \in Table, NEW b \in [Slot -> Level], NEW t \in [Slot -> Level],
         \A i \in Slot : t[i] >= b[i], Shown(x, c, b)
  PROVE  Shown(x, c, t)
  <1>1. \A i \in Slot : b[i] \in Int /\ t[i] \in Int /\ roundUpCover(c[i]) \in Int
    BY Numbers
  <1> QED  BY <1>1 DEF Shown

\* A job that is exhibited or covered stays so when the table it is covered by grows.
LEMMA JobShownGrows ==
  ASSUME NEW j \in Job, NEW b \in [Slot -> Level], NEW t \in [Slot -> Level],
         \A i \in Slot : t[i] >= b[i], JobShown(j, b)
  PROVE  JobShown(j, t)
  <1>1. j.cover \in Table
    BY DEF Job
  <1>2. \A i \in Slot : b[i] \in Int /\ t[i] \in Int /\ roundUpCover(j.cover[i]) \in Int
    BY <1>1, Numbers
  <1>3. Pursued(j, t)
    BY <1>2 DEF JobShown, Pursued
  <1> QED  BY <1>1, <1>3, ShownGrows DEF JobShown

\* An input not triaged yet claims no cover.
LEMMA NothingClaimed ==
  ASSUME NEW j \in Job, NEW b \in [Slot -> Level], j.cover = ZeroTable
  PROVE  JobShown(j, b)
  <1>1. \A i \in Slot : j.cover[i] = 0
    BY DEF ZeroTable
  <1>2. roundUpCover(0) = 0
    BY CoverageAssumption DEF CoverageAssumption, roundUpCover
  <1>3. \A i \in Slot : b[i] >= 0
    BY DEF Level
  <1> QED  BY <1>1, <1>2, <1>3 DEF JobShown, Shown, Pursued

\* Triage: the cover recorded is exhibited, and its novelty is pursued.
LEMMA TriagedShown ==
  ASSUME NEW j \in Job, NEW b \in [Slot -> Level],
         \A i \in Slot : \E run \in Runs[j.data] \ {CrashRun} : j.cover[i] = run[i],
         j.pursue = findNewCover(b, j.cover)
  PROVE  JobShown(j, b)
  <1>1. j.cover \in Table
    BY DEF Job
  <1>2. ASSUME NEW i \in Slot PROVE Exhibits(j.data, i, roundUpCover(j.cover[i]))
    BY <1>1, Numbers DEF Exhibits
  <1>3. ASSUME NEW i \in Slot
        PROVE  roundUpCover(j.cover[i]) <= b[i] \/ j.cover[i] <= j.pursue[i]
    <2>1. b[i] \in Level /\ j.cover[i] \in Byte /\ roundUpCover(j.cover[i]) \in Int
          /\ b[i] \in Int /\ j.cover[i] \in Int
      BY <1>1, Numbers
    <2>2. CASE j.cover[i] > b[i]
      BY <2>1, <2>2 DEF findNewCover
    <2>3. CASE ~(j.cover[i] > b[i])
      BY <2>1, <2>3, RawVersusLevel
    <2> QED  BY <2>2, <2>3
  <1> QED  BY <1>2, <1>3 DEF JobShown, Shown, Pursued

\* Minimization: a candidate that is not worse exhibits what was not covered.
LEMMA MinimizedShown ==
  ASSUME NEW j \in Job, NEW b \in [Slot -> Level], JobShown(j, b), NEW c \in Data,
         NEW cover \in Runs[c] \ {CrashRun}, ~worseCover(j.pursue, cover)
  PROVE  JobShown([j EXCEPT !.data = c], b)
  <1> DEFINE k == [j EXCEPT !.data = c]
  <1>1. k.data = c /\ k.cover = j.cover /\ k.pursue = j.pursue
    BY DEF Job
  <1>2. cover \in Table /\ j.cover \in Table /\ j.pursue \in Table
    BY HubAssumption DEF HubAssumption, Job
  <1>3. ASSUME NEW i \in Slot
        PROVE  roundUpCover(j.cover[i]) <= b[i] \/ Exhibits(c, i, roundUpCover(j.cover[i]))
    <2>1. /\ cover[i] \in Byte /\ j.cover[i] \in Byte
          /\ cover[i] \in Int /\ j.cover[i] \in Int /\ j.pursue[i] \in Int
          /\ roundUpCover(cover[i]) \in Int /\ roundUpCover(j.cover[i]) \in Int
      BY <1>2, Numbers
    <2>2. CASE j.cover[i] <= j.pursue[i]
      <3>1. j.pursue[i] <= cover[i]
        BY <2>1 DEF worseCover
      <3>2. roundUpCover(j.cover[i]) <= roundUpCover(cover[i])
        BY <2>1, <2>2, <3>1, RoundUpMonotone
      <3> QED  BY <2>1, <3>2 DEF Exhibits
    <2> QED  BY <2>2 DEF JobShown, Pursued
  <1>4. Shown(c, j.cover, b) /\ Pursued(j, b)
    BY <1>3 DEF Shown, JobShown
  <1> HIDE DEF k
  <1> QED  BY <1>1, <1>4 DEF JobShown, Pursued, k
\* A worker keeps its job, or takes up one whose cover is shown.
LEMMA WorkerShown ==
  ASSUME TypeInv, JobsShown, NEW w \in Workers, WorkerStep(w) \/ PeriodicCheck(w)
  PROVE  \E j : JobShown(j, corpusCover) /\ job' = [job EXCEPT ![w] = j]
  <1>0. /\ job[w] \in Job /\ corpusCover \in [Slot -> Level] /\ JobShown(job[w], corpusCover)
        /\ job = [job EXCEPT ![w] = job[w]] /\ QueuesOK /\ SharedOK
    BY Untouched DEF TypeInv, TypeOK, JobsShown
  <1>1. CASE UNCHANGED job
    BY <1>0, <1>1
  <1>2. CASE PollCrasher(w)
    <2> DEFINE crasher == Last(crasherQueue[w])
               j == [NoJob EXCEPT !.data = crasher, !.orig = crasher]
    <2>1. crasher \in Data
      BY <1>0, <1>2, FrontLast DEF PollCrasher, QueuesOK
    <2>2. j \in Job /\ j.cover = ZeroTable
      BY <2>1, Blank DEF Job, NoJob
    <2>3. job' = [job EXCEPT ![w] = j]
      BY <1>2 DEF PollCrasher
    <2> HIDE DEF j
    <2> QED  BY <1>0, <2>2, <2>3, NothingClaimed
  <1>3. CASE PollTriage(w) \/ TakeLocal(w)
    <2>1. PICK inp \in CoordinatorInput, hub \in BOOLEAN :
            job' = [job EXCEPT ![w] = JobOf(inp, hub)]
      <3>1. CASE PollTriage(w)
        <4>1. Head(triageC) \in CoordinatorInput
          BY <1>0, <3>1, HeadTail DEF PollTriage, SharedOK
        <4> QED  BY <3>1, <4>1 DEF PollTriage
      <3>2. CASE TakeLocal(w)
        <4>1. Last(localQueue[w]) \in CoordinatorInput
          BY <1>0, <3>2, FrontLast DEF TakeLocal, QueuesOK
        <4> QED  BY <3>2, <4>1 DEF TakeLocal
      <3> QED  BY <1>3, <3>1, <3>2
    <2>2. JobOf(inp, hub) \in Job /\ JobOf(inp, hub).cover = ZeroTable
      BY JobOfType DEF JobOf, NoJob
    <2> QED  BY <1>0, <2>1, <2>2, NothingClaimed
  <1>4. CASE Triage(w)
    <2>1. PICK cover \in ThreeRuns(job[w].data) :
            job' = [job EXCEPT ![w].cover = cover,
                               ![w].pursue = findNewCover(corpusCover, cover)]
      BY <1>4 DEF Triage
    <2> DEFINE j == [job[w] EXCEPT !.cover = cover,
                                   !.pursue = findNewCover(corpusCover, cover)]
    <2>2. job[w].data \in Data
      BY <1>4 DEF Triage, TypeInv, JobState, Place, JobAt
    <2>3. /\ cover \in Table /\ findNewCover(corpusCover, cover) \in Table
          /\ \A i \in Slot : \E run \in Runs[job[w].data] \ {CrashRun} : cover[i] = run[i]
      BY <2>2, TriageTables
    <2>4. /\ j \in Job /\ j.data = job[w].data
          /\ j.cover = cover /\ j.pursue = findNewCover(corpusCover, cover)
      BY <1>0, <2>3 DEF Job
    <2>5. job' = [job EXCEPT ![w] = j]
      BY <1>0, <2>1 DEF TypeInv, TypeOK, Job
    <2> HIDE DEF j
    <2>6. \A i \in Slot : \E run \in Runs[j.data] \ {CrashRun} : j.cover[i] = run[i]
      BY <2>3, <2>4
    <2>7. j.pursue = findNewCover(corpusCover, j.cover)
      BY <2>4
    <2>8. JobShown(j, corpusCover)
      BY <1>0, <2>4, <2>6, <2>7, TriagedShown
    <2> QED  BY <2>5, <2>8
  <1>5. ASSUME NEW c \in Data, Minimize(w, c) PROVE UNCHANGED job \/
          \E j : JobShown(j, corpusCover) /\ job' = [job EXCEPT ![w] = j]
    <2>1. \/ UNCHANGED job
          \/ \E cover \in Runs[c] \ {CrashRun} :
               ~worseCover(job[w].pursue, cover) /\ job' = [job EXCEPT ![w].data = c]
      BY <1>5 DEF Minimize
    <2> DEFINE j == [job[w] EXCEPT !.data = c]
    <2>2. job' = [job EXCEPT ![w].data = c] => job' = [job EXCEPT ![w] = j]
      OBVIOUS
    <2>3. (\E cover \in Runs[c] \ {CrashRun} : ~worseCover(job[w].pursue, cover))
            => JobShown(j, corpusCover)
      BY <1>0, MinimizedShown
    <2> HIDE DEF j
    <2> QED  BY <2>1, <2>2, <2>3
  <1>6. ASSUME NEW c \in Data, MinimizeCrasher(w, c) PROVE UNCHANGED job \/
          \E j : JobShown(j, corpusCover) /\ job' = [job EXCEPT ![w] = j]
    <2> DEFINE j == [job[w] EXCEPT !.data = c]
    <2>1. UNCHANGED job \/ job' = [job EXCEPT ![w] = j]
      BY <1>6 DEF MinimizeCrasher
    <2>2. j \in Job /\ j.cover = ZeroTable
      BY <1>0, <1>6 DEF MinimizeCrasher, TypeInv, JobState, Place, JobAt, Job
    <2> HIDE DEF j
    <2> QED  BY <1>0, <2>1, <2>2, NothingClaimed
  <1>7. CASE AfterTriage(w) \/ SendCrasher(w)
    <2>1. job' = [job EXCEPT ![w] = NoJob]
      BY <1>7 DEF AfterTriage, SendCrasher
    <2> QED  BY <1>0, <2>1, Blank, NothingClaimed
  <1>8. CASE \/ StartFuzz(w) \/ UpdateMaxCover(w) \/ SendStats(w) \/ TriageCrash(w)
             \/ Finish(w) \/ SendInput(w) \/ CrasherMinimized(w) \/ PeriodicCheck(w)
             \/ \E x \in Data : Fuzz(w, x) \/ Smash(w, x)
    <2>1. UNCHANGED job
      BY <1>8 DEF StartFuzz, UpdateMaxCover, SendStats, TriageCrash, Finish, SendInput,
                  CrasherMinimized, PeriodicCheck, Fuzz, Smash
    <2> QED  BY <1>1, <2>1
  <1> QED  BY <1>1, <1>2, <1>3, <1>4, <1>5, <1>6, <1>7, <1>8 DEF WorkerStep

\* Only SendInput puts inputs into newInputC.
LEMMA OnlySends ==
  ASSUME NEW w \in Workers, WorkerStep(w) \/ PeriodicCheck(w)
  PROVE  UNCHANGED newInputC \/ SendInput(w)
  <1>1. CASE \/ PollCrasher(w) \/ PollTriage(w) \/ TakeLocal(w) \/ StartFuzz(w) \/ SendStats(w)
             \/ UpdateMaxCover(w) \/ TriageCrash(w) \/ Triage(w) \/ PeriodicCheck(w)
    BY <1>1 DEF PollCrasher, PollTriage, TakeLocal, StartFuzz, SendStats, UpdateMaxCover,
                TriageCrash, Triage, PeriodicCheck, channels
  <1>2. CASE \E x \in Data : Fuzz(w, x) \/ Smash(w, x) \/ Minimize(w, x) \/ MinimizeCrasher(w, x)
    BY <1>2 DEF Fuzz, Smash, Minimize, MinimizeCrasher, channels
  <1>3. CASE Finish(w) \/ SendInput(w) \/ AfterTriage(w) \/ CrasherMinimized(w) \/ SendCrasher(w)
    BY <1>3 DEF Finish, AfterTriage, CrasherMinimized, SendCrasher, channels
  <1> QED  BY <1>1, <1>2, <1>3 DEF WorkerStep

\* What a worker sends is what it has shown.
LEMMA SentShown ==
  ASSUME TypeInv, JobsShown, InputsShown, NEW w \in Workers, WorkerStep(w) \/ PeriodicCheck(w)
  PROVE  \A k \in 1 .. Len(newInputC') :
            Shown(newInputC'[k].data, newInputC'[k].cover, corpusCover)
  <1>1. newInputC \in Seq(Input) /\ Len(newInputC) \in Nat
    BY LenProperties DEF TypeInv, TypeOK
  <1>2. CASE UNCHANGED newInputC
    BY <1>2 DEF InputsShown
  <1>3. CASE SendInput(w)
    <2> DEFINE input == [data |-> job[w].data, cover |-> job[w].cover, mine |-> ~job[w].minimized]
    <2>1. input.data = job[w].data /\ input.cover = job[w].cover
      OBVIOUS
    <2>2. Shown(input.data, input.cover, corpusCover)
      BY <2>1 DEF JobsShown, JobShown
    <2>3. newInputC' = Append(newInputC, input)
      BY <1>3 DEF SendInput
    <2> HIDE DEF input
    <2>4. ASSUME NEW k \in 1 .. Len(newInputC')
          PROVE  newInputC'[k] = input \/ (k \in 1 .. Len(newInputC) /\ newInputC'[k] = newInputC[k])
      BY <1>1, <2>3
    <2> QED  BY <2>2, <2>4 DEF InputsShown
  <1> QED  BY <1>2, <1>3, OnlySends
\* The published cover only grows, and with it the corpus.
LEMMA CorpusGrows ==
  ASSUME TypeInv, [Next]_vars
  PROVE  /\ corpus \subseteq corpus'
         /\ \A i \in Slot : corpusCover'[i] >= corpusCover[i]
  <1>1. corpusCover \in [Slot -> Level] /\ \A i \in Slot : corpusCover[i] \in Int
    BY Numbers DEF TypeInv, TypeOK
  <1>2. CASE Publish
    BY <1>1, <1>2, FoldIsJoin DEF Publish, TypeInv, TypeOK, Input
  <1>3. CASE UNCHANGED <<corpus, corpusCover>>
    BY <1>1, <1>3
  <1>4. \/ UNCHANGED vars \/ HubStep
        \/ \E w \in Workers : WorkerStep(w) \/ PeriodicCheck(w)
    BY DEF Next, HubStep
  <1>5. (UNCHANGED vars \/ UNCHANGED hubSide) => UNCHANGED <<corpus, corpusCover>>
    BY DEF vars, hubSide
  <1> QED  BY <1>2, <1>3, <1>4, <1>5, WorkerFrame, HubFrame

\* Publishing keeps the published cover exhibited.
LEMMA PublishHonest ==
  ASSUME HonestInv, Publish
  PROVE  HonestCover'
  <1> DEFINE level(i) == roundUpCover(taking.cover[i])
  <1>1. /\ taking.cover \in Table /\ corpusCover \in [Slot -> Level]
        /\ Shown(taking.data, taking.cover, corpusCover)
        /\ corpus' = corpus \cup {taking.data}
        /\ corpusCover' = updateMaxCover(corpusCover, taking.cover)
    BY DEF HonestInv, TypeInv, TypeOK, Input, InputsShown, Publish
  <1>2. ASSUME NEW i \in Slot
        PROVE  corpusCover'[i] = corpusCover[i]
                 \/ (corpusCover'[i] = level(i) /\ Exhibits(taking.data, i, level(i)))
    <2>1. /\ corpusCover'[i] >= corpusCover[i]
          /\ corpusCover'[i] \in {corpusCover[i], level(i)}
          /\ corpusCover[i] \in Int /\ level(i) \in Int
      BY <1>1, FoldIsJoin, Numbers
    <2>2. level(i) <= corpusCover[i] \/ Exhibits(taking.data, i, level(i))
      BY <1>1 DEF Shown
    <2> HIDE DEF level
    <2> QED  BY <2>1, <2>2
  <1> HIDE DEF level
  <1>3. ASSUME NEW i \in Slot, corpusCover'[i] # 0
        PROVE  \E x \in corpus' : Exhibits(x, i, corpusCover'[i])
    <2>1. CASE corpusCover'[i] = corpusCover[i]
      BY <1>1, <1>3, <2>1 DEF HonestInv, HonestCover
    <2>2. CASE corpusCover'[i] = level(i) /\ Exhibits(taking.data, i, level(i))
      BY <1>1, <2>2
    <2> QED  BY <1>2, <2>1, <2>2
  <1> QED  BY <1>3 DEF HonestCover, Exhibits

\* Every step keeps the invariant.
LEMMA StepHonest == HonestInv /\ [Next]_vars => HonestInv'
  <1> SUFFICES ASSUME HonestInv, [Next]_vars PROVE HonestInv'
    OBVIOUS
  <1>1. TypeInv /\ TypeInv' /\ JobsShown /\ InputsShown /\ HonestCover
    BY StepType DEF HonestInv
  <1>2. /\ corpusCover \in [Slot -> Level] /\ corpusCover' \in [Slot -> Level]
        /\ \A i \in Slot : corpusCover'[i] >= corpusCover[i]
    BY <1>1, CorpusGrows DEF TypeInv, TypeOK
  <1>3. /\ \A w \in Workers : job[w] \in Job
        /\ newInputC \in Seq(Input) /\ newInputC' \in Seq(Input)
        /\ taking \in Input /\ taking' \in Input
    BY <1>1 DEF TypeInv, TypeOK
  <1>4. \/ UNCHANGED vars \/ HubStep
        \/ \E w \in Workers : WorkerStep(w) \/ PeriodicCheck(w)
    BY DEF Next, HubStep
  <1>5. CASE \E w \in Workers : WorkerStep(w) \/ PeriodicCheck(w)
    <2>1. PICK w \in Workers : WorkerStep(w) \/ PeriodicCheck(w)
      BY <1>5
    <2>2. UNCHANGED <<hpc, taking, corpus, corpusCover>>
      BY <2>1, WorkerFrame DEF hubSide
    <2>3. PICK j : JobShown(j, corpusCover) /\ job' = [job EXCEPT ![w] = j]
      BY <1>1, <2>1, WorkerShown
    <2>4. \A v \in Workers : job'[v] = job[v] \/ job'[v] = j
      BY <2>3 DEF TypeInv, TypeOK
    <2>5. JobsShown'
      BY <1>1, <2>2, <2>3, <2>4 DEF JobsShown, JobShown, Shown, Pursued, Exhibits
    <2>6. InputsShown'
      BY <1>1, <2>1, <2>2, SentShown DEF InputsShown, Shown, Exhibits
    <2>7. HonestCover'
      BY <1>1, <2>2 DEF HonestCover, Exhibits
    <2> QED  BY <1>1, <2>5, <2>6, <2>7 DEF HonestInv
  <1>6. CASE HubStep \/ UNCHANGED vars
    <2>0. UNCHANGED vars
            => UNCHANGED <<hpc, taking, corpus, corpusCover, newInputC, job>>
      BY DEF vars, hubSide, workerSide, channels
    <2>1. UNCHANGED job
      BY <1>6, <2>0, HubFrame DEF workerSide
    <2>2. JobsShown'
      BY <1>1, <1>2, <1>3, <2>1, JobShownGrows DEF JobsShown, JobShown, Shown, Pursued, Exhibits
    <2>3. ASSUME NEW x, NEW c \in Table, Shown(x, c, corpusCover)
          PROVE  Shown(x, c, corpusCover')
      BY <1>2, <2>3, ShownGrows
    <2>4. \A k \in 1 .. Len(newInputC') :
             Shown(newInputC'[k].data, newInputC'[k].cover, corpusCover)
      <3>1. CASE UNCHANGED newInputC
        BY <1>1, <3>1 DEF InputsShown
      <3>2. CASE TakeInput
        <4>1. newInputC' = Tail(newInputC) /\ newInputC # <<>>
          BY <3>2 DEF TakeInput
        <4>2. ASSUME NEW k \in 1 .. Len(newInputC')
              PROVE  k + 1 \in 1 .. Len(newInputC) /\ newInputC'[k] = newInputC[k + 1]
          BY <1>3, <4>1, HeadTailProperties, LenProperties, EmptySeq
        <4> QED  BY <1>1, <4>2 DEF InputsShown
      <3> QED  BY <1>6, <2>0, <3>1, <3>2, HubFrame
    <2>5. hpc' = "publish" => Shown(taking'.data, taking'.cover, corpusCover)
      <3>1. CASE TakeInput
        <4>1. newInputC # <<>> /\ (hpc' = "publish" => taking' = Head(newInputC))
          BY <3>1 DEF TakeInput
        <4>2. Head(newInputC) = newInputC[1] /\ 1 \in 1 .. Len(newInputC)
          BY <1>3, <4>1, HeadTailProperties, LenProperties, EmptySeq
        <4> QED  BY <1>1, <4>1, <4>2 DEF InputsShown
      <3>2. CASE hpc' = "publish" => hpc = "publish" /\ UNCHANGED taking
        BY <1>1, <3>2 DEF InputsShown
      <3> QED  BY <1>6, <2>0, <3>1, <3>2, HubFrame
    <2>6. InputsShown'
      <3>1. \A k \in 1 .. Len(newInputC') : newInputC'[k].cover \in Table
        <4>1. ASSUME NEW k \in 1 .. Len(newInputC') PROVE newInputC'[k] \in Input
          BY <1>3, ElementOfSeq
        <4> QED  BY <4>1 DEF Input
      <3>2. taking'.cover \in Table
        BY <1>3 DEF Input
      <3>3. \A k \in 1 .. Len(newInputC') :
               Shown(newInputC'[k].data, newInputC'[k].cover, corpusCover')
        BY <2>3, <2>4, <3>1
      <3>4. hpc' = "publish" => Shown(taking'.data, taking'.cover, corpusCover')
        BY <2>3, <2>5, <3>2
      <3> QED  BY <3>3, <3>4 DEF InputsShown, Shown, Exhibits
    <2>7. HonestCover'
      <3>1. CASE UNCHANGED <<corpus, corpusCover>>
        BY <1>1, <3>1 DEF HonestCover, Exhibits
      <3> QED  BY <1>6, <2>0, <3>1, HubFrame, PublishHonest
    <2> QED  BY <1>1, <2>2, <2>6, <2>7 DEF HonestInv
  <1> QED  BY <1>4, <1>5, <1>6

\* At the start nothing is published and nothing claims cover.
LEMMA HonestInit == Init => HonestInv
  <1> SUFFICES ASSUME Init PROVE HonestInv
    OBVIOUS
  <1>1. /\ corpusCover = ZeroTable /\ hpc = "select" /\ newInputC = <<>>
        /\ job = [w \in Workers |-> NoJob]
    BY DEF Init
  <1>2. JobsShown
    BY <1>1, Blank, ZeroLevel, NothingClaimed DEF JobsShown
  <1>3. InputsShown /\ HonestCover
    BY <1>1 DEF InputsShown, HonestCover, ZeroTable
  <1> QED  BY <1>2, <1>3, StartType DEF HonestInv

\* Whatever inputs are flaky, minimized, dropped or found twice, every level of the
\* published cover is reached by a run of an input of the corpus: triage attaches
\* the cover of the original input to the minimized one, and minimization keeps
\* what is new in it.
THEOREM CoverIsHonest == Spec => []HonestCover
  <1>1. HonestInv => HonestCover
    BY DEF HonestInv
  <1> QED  BY <1>1, HonestInit, StepHonest, PTL DEF Spec
-----------------------------------------------------------------------------
(* The units of initialTriage.                                             *)

HubJobs == {w \in Workers : job[w].hub}
Queued(queue, s) == Len(queue) + (IF s = NoInput THEN 0 ELSE 1)

\* Workers that triage an input of the coordinator can be counted.
LEMMA HubJobsType ==
  Cardinality(HubJobs) \in Nat /\ IsFiniteSet(HubJobs) /\ IsFiniteSet(Workers)
  <1>1. IsFiniteSet(Workers) /\ HubJobs \subseteq Workers
    BY HubAssumption DEF HubAssumption, HubJobs
  <1> QED  BY <1>1, FS_Subset, FS_CardinalityType

\* Filling the local buffer loses no input.
LEMMA EnterSelectKeeps ==
  ASSUME NEW q \in Seq(CoordinatorInput), NEW s \in CoordinatorInput \cup {NoInput},
         EnterSelect(q, s)
  PROVE  Queued(triageQueue, slot)' = Queued(q, s)
  <1>1. CASE s = NoInput /\ q # <<>>
    <2>1. /\ Last(q) \in CoordinatorInput /\ Len(q) \in Nat
          /\ Len(Front(q)) = Len(q) - 1
      BY <1>1, FrontLast
    <2>2. triageQueue' = Front(q) /\ slot' = Last(q) /\ slot' # NoInput
      BY <1>1, <2>1, NoInputAssumption DEF EnterSelect, NoInputAssumption
    <2> HIDE DEF CoordinatorInput
    <2> QED  BY <1>1, <2>1, <2>2 DEF Queued
  <1>2. CASE ~(s = NoInput /\ q # <<>>)
    BY <1>2 DEF EnterSelect, Queued
  <1> QED  BY <1>1, <1>2

\* One worker takes up or ends a job; the jobs of the others stay.
LEMMA HubJobsChange ==
  ASSUME TypeInv, NEW w \in Workers, NEW j, job' = [job EXCEPT ![w] = j]
  PROVE  /\ j.hub = job[w].hub => HubJobs' = HubJobs
         /\ j.hub /\ ~job[w].hub => Cardinality(HubJobs') = Cardinality(HubJobs) + 1
         /\ ~j.hub /\ job[w].hub => Cardinality(HubJobs') = Cardinality(HubJobs) - 1
  <1>1. job'[w] = j /\ \A v \in Workers \ {w} : job'[v] = job[v]
    BY DEF TypeInv, TypeOK
  <1>2. ASSUME j.hub = job[w].hub PROVE HubJobs' = HubJobs
    BY <1>1, <1>2 DEF HubJobs
  <1>3. ASSUME j.hub, ~job[w].hub PROVE Cardinality(HubJobs') = Cardinality(HubJobs) + 1
    <2>1. HubJobs' = HubJobs \cup {w} /\ w \notin HubJobs
      BY <1>1, <1>3 DEF HubJobs
    <2> QED  BY <2>1, HubJobsType, FS_AddElement
  <1>4. ASSUME ~j.hub, job[w].hub PROVE Cardinality(HubJobs') = Cardinality(HubJobs) - 1
    <2>1. HubJobs' = HubJobs \ {w} /\ w \in HubJobs
      BY <1>1, <1>4 DEF HubJobs
    <2> QED  BY <2>1, HubJobsType, FS_RemoveElement
  <1> QED  BY <1>2, <1>3, <1>4

\* The numbers of the inequality.
LEMMA BackingNumbers ==
  ASSUME TypeInv
  PROVE  /\ Queued(triageQueue, slot) \in Nat /\ Len(triageC) \in Nat /\ Len(triageQueue) \in Nat
         /\ initialTriage \in Nat /\ Cardinality(HubJobs) \in Nat /\ Len(pending) \in Nat
         /\ BarrierBacked
              <=> initialTriage <= Queued(triageQueue, slot) + Len(triageC) + Cardinality(HubJobs)
  <1>1. Len(triageC) \in Nat /\ Len(triageQueue) \in Nat /\ Len(pending) \in Nat
    BY LenProperties DEF TypeInv, TypeOK
  <1>2. initialTriage \in Nat
    BY DEF TypeInv, TypeOK
  <1> QED  BY <1>1, <1>2, HubJobsType DEF Queued, BarrierBacked, HubJobs

\* The inequality in the next state.
LEMMA BackedNext ==
  BarrierBacked'
    <=> initialTriage' <= Queued(triageQueue, slot)' + Len(triageC') + Cardinality(HubJobs')
  BY DEF BarrierBacked, Queued, HubJobs

\* Steps of the workers.
LEMMA WorkerBacked ==
  ASSUME BarrierInv, NEW w \in Workers, WorkerStep(w) \/ PeriodicCheck(w), TypeInv'
  PROVE  BarrierBacked'
  <1>0. /\ TypeInv /\ BarrierBacked
        /\ UNCHANGED <<triageQueue, slot>> /\ job[w].hub \in BOOLEAN /\ job[w] \in Job
    BY WorkerFrame, Untouched DEF BarrierInv, hubSide, Job
  <1>1. CASE PollTriage(w)
    <2>1. /\ triageC \in Seq(CoordinatorInput) /\ triageC # <<>> /\ triageC' = Tail(triageC)
          /\ job' = [job EXCEPT ![w] = JobOf(Head(triageC), TRUE)] /\ initialTriage' = initialTriage
      BY <1>0, <1>1 DEF PollTriage, triageState, TypeInv, TypeOK
    <2>2. ~job[w].hub
      BY <1>0, <1>1, Blank DEF PollTriage, TypeInv, JobState, Place, JobAt
    <2>3. JobOf(Head(triageC), TRUE).hub
      BY DEF JobOf, NoJob
    <2>4. Cardinality(HubJobs') = Cardinality(HubJobs) + 1
      BY <1>0, <2>1, <2>2, <2>3, HubJobsChange
    <2>5. Len(triageC') = Len(triageC) - 1
      BY <2>1, HeadTail
    <2>6. Queued(triageQueue, slot)' = Queued(triageQueue, slot)
      BY <1>0 DEF Queued
    <2> QED  BY <1>0, <2>1, <2>4, <2>5, <2>6, BackingNumbers, BackedNext
  <1>2. CASE AfterTriage(w)
    <2>1. /\ job' = [job EXCEPT ![w] = NoJob] /\ UNCHANGED triageC
          /\ initialTriage' = IF job[w].hub /\ initialTriage # 0
                              THEN initialTriage - 1 ELSE initialTriage
      BY <1>2 DEF AfterTriage, channels
    <2>2. Cardinality(HubJobs') = IF job[w].hub THEN Cardinality(HubJobs) - 1
                                                ELSE Cardinality(HubJobs)
      BY <1>0, <2>1, Blank, HubJobsChange
    <2>3. Queued(triageQueue, slot)' = Queued(triageQueue, slot)
      BY <1>0 DEF Queued
    <2>4. Len(triageC') = Len(triageC)
      BY <2>1
    <2>5. job[w].hub => Cardinality(HubJobs) >= 1
      <3>1. job[w].hub => HubJobs # {}
        BY DEF HubJobs
      <3> QED  BY <3>1, HubJobsType, FS_EmptySet
    <2>6. initialTriage' <= Queued(triageQueue, slot)' + Len(triageC') + Cardinality(HubJobs')
      BY <1>0, <2>1, <2>2, <2>3, <2>4, <2>5, BackingNumbers
    <2> QED  BY <2>6, BackedNext
  <1>3. ASSUME UNCHANGED <<triageC, initialTriage>>, HubJobs' = HubJobs PROVE BarrierBacked'
    BY <1>0, <1>3 DEF BarrierBacked, HubJobs
  <1>4. CASE PollCrasher(w) \/ TakeLocal(w)
    <2>1. PICK j : job' = [job EXCEPT ![w] = j] /\ j.hub = FALSE
      <3>1. CASE PollCrasher(w)
        <4> DEFINE crasher == Last(crasherQueue[w])
                   j == [NoJob EXCEPT !.data = crasher, !.orig = crasher]
        <4>1. job' = [job EXCEPT ![w] = j] /\ j.hub = FALSE
          BY <3>1 DEF PollCrasher, NoJob
        <4> QED  BY <4>1
      <3>2. CASE TakeLocal(w)
        <4> DEFINE j == JobOf(Last(localQueue[w]), FALSE)
        <4>1. job' = [job EXCEPT ![w] = j] /\ j.hub = FALSE
          BY <3>2 DEF TakeLocal, JobOf, NoJob
        <4> QED  BY <4>1
      <3> QED  BY <1>4, <3>1, <3>2
    <2>2. job[w].hub = FALSE
      BY <1>0, <1>4, Blank DEF PollCrasher, TakeLocal, Idle, TypeInv, JobState, Place, JobAt
    <2>3. UNCHANGED <<triageC, initialTriage>>
      BY <1>4 DEF PollCrasher, TakeLocal, channels, triageState
    <2> QED  BY <1>0, <1>3, <2>1, <2>2, <2>3, HubJobsChange
  <1>5. CASE SendCrasher(w)
    <2>1. job' = [job EXCEPT ![w] = NoJob] /\ UNCHANGED <<triageC, initialTriage>>
      BY <1>5 DEF SendCrasher, triageState
    <2>2. ~job[w].hub
      BY <1>0, <1>5 DEF SendCrasher, TypeInv, JobState, Place, JobAt
    <2> QED  BY <1>0, <1>3, <2>1, <2>2, Blank, HubJobsChange
  <1>6. CASE Triage(w) \/ \E c \in Data : Minimize(w, c) \/ MinimizeCrasher(w, c)
    <2>1. UNCHANGED job \/ \E j : job' = [job EXCEPT ![w] = j] /\ j.hub = job[w].hub
      <3>1. CASE Triage(w)
        <4>1. PICK cover \in ThreeRuns(job[w].data) :
                job' = [job EXCEPT ![w].cover = cover,
                                   ![w].pursue = findNewCover(corpusCover, cover)]
          BY <3>1 DEF Triage
        <4> DEFINE j == [job[w] EXCEPT !.cover = cover,
                                       !.pursue = findNewCover(corpusCover, cover)]
        <4>2. job' = [job EXCEPT ![w] = j] /\ j.hub = job[w].hub
          BY <1>0, <4>1 DEF TypeInv, TypeOK, Job
        <4> QED  BY <4>2
      <3>2. CASE \E c \in Data : Minimize(w, c) \/ MinimizeCrasher(w, c)
        <4>1. PICK c \in Data : UNCHANGED job \/ job' = [job EXCEPT ![w].data = c]
          BY <3>2 DEF Minimize, MinimizeCrasher
        <4> DEFINE j == [job[w] EXCEPT !.data = c]
        <4>2. j.hub = job[w].hub /\ (UNCHANGED job \/ job' = [job EXCEPT ![w] = j])
          BY <1>0, <4>1 DEF Job
        <4> QED  BY <4>2
      <3> QED  BY <1>6, <3>1, <3>2
    <2>2. UNCHANGED <<triageC, initialTriage>>
      BY <1>6 DEF Triage, Minimize, MinimizeCrasher, channels, triageState
    <2>3. HubJobs' = HubJobs
      BY <1>0, <2>1, HubJobsChange DEF HubJobs
    <2> QED  BY <1>3, <2>2, <2>3
  <1>7. CASE \/ StartFuzz(w) \/ UpdateMaxCover(w) \/ SendStats(w) \/ TriageCrash(w)
             \/ Finish(w) \/ SendInput(w) \/ CrasherMinimized(w) \/ PeriodicCheck(w)
             \/ \E x \in Data : Fuzz(w, x) \/ Smash(w, x)
    <2>1. UNCHANGED <<job, triageC, initialTriage>>
      BY <1>7 DEF StartFuzz, UpdateMaxCover, SendStats, TriageCrash, Finish, SendInput,
                  CrasherMinimized, PeriodicCheck, Fuzz, Smash, channels, triageState
    <2> QED  BY <1>3, <2>1 DEF HubJobs
  <1> QED  BY <1>1, <1>2, <1>4, <1>5, <1>6, <1>7 DEF WorkerStep
\* Steps of the hub, and of another process.
LEMMA HubBacked ==
  ASSUME BarrierInv, HubStep
  PROVE  BarrierBacked'
  <1>0. /\ TypeInv /\ BarrierBacked /\ HubJobs' = HubJobs
        /\ triageQueue \in Seq(CoordinatorInput) /\ pending \in Seq(CoordinatorInput)
        /\ slot \in CoordinatorInput \cup {NoInput} /\ triageC \in Seq(CoordinatorInput)
    BY HubFrame DEF BarrierInv, TypeInv, TypeOK, workerSide, HubJobs
  <1>1. CASE HandOut
    <2>1. /\ slot \in CoordinatorInput /\ slot # NoInput /\ triageC' = Append(triageC, slot)
          /\ initialTriage' = initialTriage /\ EnterSelect(triageQueue, NoInput)
      BY <1>0, <1>1 DEF HandOut, triageState
    <2>2. Len(triageC') = Len(triageC) + 1
      BY <1>0, <2>1, Appended
    <2>3. Queued(triageQueue, slot)' = Queued(triageQueue, NoInput)
      BY <1>0, <2>1, EnterSelectKeeps
    <2>4. Queued(triageQueue, slot) = Queued(triageQueue, NoInput) + 1
      BY <1>0, <2>1, BackingNumbers DEF Queued
    <2>5. Queued(triageQueue, NoInput) \in Nat
      BY <1>0, BackingNumbers DEF Queued
    <2> QED  BY <1>0, <2>1, <2>2, <2>3, <2>4, <2>5, BackingNumbers, BackedNext
  <1>2. CASE SyncReturns
    <2>1. /\ triageQueue \o pending \in Seq(CoordinatorInput)
          /\ Len(triageQueue \o pending) = Len(triageQueue) + Len(pending)
      BY <1>0, ConcatProperties
    <2>2. EnterSelect(triageQueue \o pending, slot) /\ UNCHANGED <<triageC, initialTriage>>
      BY <1>2 DEF SyncReturns, channels, triageState
    <2>3. Queued(triageQueue, slot)' = Queued(triageQueue \o pending, slot)
      BY <1>0, <2>1, <2>2, EnterSelectKeeps
    <2>4. Queued(triageQueue \o pending, slot) = Queued(triageQueue, slot) + Len(pending)
      <3>1. Len(triageQueue) \in Nat /\ Len(pending) \in Nat
        BY <1>0, BackingNumbers
      <3> QED  BY <2>1, <3>1 DEF Queued
    <2> QED  BY <1>0, <2>2, <2>3, <2>4, BackingNumbers, BackedNext
  <1>3. CASE Reconnect
    <2>1. PICK q \in Snapshot(known) : EnterSelect(q, slot)
      BY <1>3 DEF Reconnect
    <2>2. /\ q \in Seq(CoordinatorInput) /\ Cardinality(known) \in Nat
          /\ Len(q) = Cardinality(known)
      BY <1>0, <2>1, SnapshotType DEF TypeInv, TypeOK
    <2>3. Queued(triageQueue, slot)' = Queued(q, slot)
      BY <1>0, <2>1, <2>2, EnterSelectKeeps
    <2>4. initialTriage' = Cardinality(known) /\ UNCHANGED triageC
      BY <1>3 DEF Reconnect, channels
    <2>5. Queued(q, slot) >= Cardinality(known) /\ Queued(q, slot) \in Nat
      BY <2>2 DEF Queued
    <2> QED  BY <1>0, <2>2, <2>3, <2>4, <2>5, BackingNumbers, BackedNext
  <1>4. ASSUME UNCHANGED <<triageQueue, slot, triageC, initialTriage>> PROVE BarrierBacked'
    BY <1>0, <1>4 DEF BarrierBacked, HubJobs
  <1>5. CASE \/ TakeStats \/ TakeInput \/ TakeCrasher \/ StartSync \/ Publish
             \/ NewInputReturns \/ NewCrasherReturns \/ CallFails \/ ConnectFails
             \/ \E x \in Foreign : OtherFinds(x)
    <2>1. UNCHANGED <<triageQueue, slot, triageC, initialTriage>>
      BY <1>5 DEF TakeStats, TakeInput, TakeCrasher, StartSync, Publish, NewInputReturns,
                  NewCrasherReturns, CallFails, ConnectFails, OtherFinds, hubSide, channels,
                  triageState
    <2> QED  BY <1>4, <2>1
  <1> QED  BY <1>1, <1>2, <1>3, <1>5 DEF HubStep, HubCall

\* The barrier of the initial triage can be passed again: every unit of
\* initialTriage, which a reconnect overwrites while workers still count off the
\* inputs of the old queue, is backed by an input that is still to be counted off.
THEOREM BarrierIsBacked == Spec => []BarrierBacked
  <1>1. Init => BarrierInv
    <2> SUFFICES ASSUME Init PROVE BarrierInv
      OBVIOUS
    <2>1. known \in SUBSET Data /\ known # {}
      BY HubAssumption DEF Init, HubAssumption
    <2>2. PICK q \in Snapshot(known) : triageQueue = Front(q) /\ slot = Last(q)
      BY DEF Init
    <2>3. /\ q \in Seq(CoordinatorInput) /\ q # <<>> /\ Len(q) = Cardinality(known)
          /\ Cardinality(known) \in Nat
      BY <2>1, <2>2, SnapshotType
    <2>4. slot \in CoordinatorInput /\ Len(triageQueue) = Cardinality(known) - 1
      BY <2>2, <2>3, FrontLast
    <2>5. slot # NoInput /\ initialTriage = Cardinality(known) /\ triageC = <<>>
      BY <2>4, NoInputAssumption DEF NoInputAssumption, Init
    <2>6. Len(triageC) = 0
      BY <2>5
    <2>7. BarrierBacked
      BY <2>3, <2>4, <2>5, <2>6, HubJobsType DEF BarrierBacked, HubJobs
    <2> QED  BY <2>7, StartType DEF BarrierInv
  <1>2. BarrierInv /\ [Next]_vars => BarrierInv'
    <2> SUFFICES ASSUME BarrierInv, [Next]_vars PROVE BarrierInv'
      OBVIOUS
    <2>1. TypeInv' /\ BarrierBacked
      BY StepType DEF BarrierInv
    <2>2. ASSUME UNCHANGED vars PROVE BarrierBacked'
      BY <2>1, <2>2 DEF BarrierBacked, vars, hubSide, workerSide, channels, triageState
    <2>3. \/ UNCHANGED vars \/ HubStep
          \/ \E w \in Workers : WorkerStep(w) \/ PeriodicCheck(w)
      BY DEF Next, HubStep
    <2> QED  BY <2>1, <2>2, <2>3, WorkerBacked, HubBacked DEF BarrierInv
  <1>3. BarrierInv => BarrierBacked
    BY DEF BarrierInv
  <1> QED  BY <1>1, <1>2, <1>3, PTL DEF Spec
-----------------------------------------------------------------------------
(* The thundering herd.                                                    *)

\* There are finitely many parts of maxCover to claim.
LEMMA ClaimedFinite ==
  ASSUME NEW S, S \subseteq Slot \X Level
  PROVE  IsFiniteSet(S) /\ Cardinality(S) \in Nat
  <1>1. IsFiniteSet(Slot)
    <2>1. CoverSize - 1 \in Int
      BY CoverageAssumption DEF CoverageAssumption, CoverSize
    <2> QED  BY <2>1, FS_Interval DEF Slot
  <1>2. IsFiniteSet(Level)
    <2>1. Level \in SUBSET Nat /\ \A v \in Level : v <= 255
      BY DEF Level
    <2> QED  BY <2>1, FS_BoundedSetOfNaturals
  <1>3. IsFiniteSet(Slot \X Level)
    BY <1>1, <1>2, FS_Product
  <1> QED  BY <1>3, FS_Subset, FS_CardinalityType

\* No step gives up a part of maxCover.
LEMMA ClaimsStay ==
  ASSUME TypeInv, TypeInv', [Next]_vars
  PROVE  Claimed \subseteq Claimed'
  <1>1. \A i \in Slot : /\ maxCover'[i] >= maxCover[i]
                        /\ maxCover[i] \in Int /\ maxCover'[i] \in Int
    BY MaxGrows, Numbers DEF TypeInv, TypeOK
  <1>2. \A v \in Level : v \in Int
    BY Numbers
  <1> QED  BY <1>1, <1>2 DEF Claimed

\* An input that passes the comparison under the lock claims a part that nobody had.
LEMMA ClaimMade ==
  ASSUME TypeInv, TypeInv', NEW w \in Workers, UpdateMaxCover(w), ~UNCHANGED noted
  PROVE  noted' = noted + 1 /\ \E c : c \notin Claimed /\ c \in Claimed'
  <1> DEFINE cover == found[w].cover
  <1>1. /\ compareCover(maxCover, cover) /\ noted' = noted + 1
        /\ maxCover' = updateMaxCover(maxCover, cover)
    BY DEF UpdateMaxCover
  <1>2. cover \in Table /\ maxCover \in [Slot -> Level] /\ maxCover' \in [Slot -> Level]
    BY DEF TypeInv, TypeOK
  <1> HIDE DEF cover
  <1>3. PICK i \in Slot : maxCover'[i] # maxCover[i]
    BY <1>1, <1>2, NoveltyIsGrowth
  <1>4. maxCover'[i] >= maxCover[i]
    BY <1>1, <1>2, FoldIsJoin
  <1>5. /\ maxCover[i] \in Int /\ maxCover'[i] \in Level /\ maxCover'[i] \in Int
        /\ maxCover[i] >= 0
    <2>1. \A v \in Level : v >= 0
      BY DEF Level
    <2> QED  BY <1>2, <2>1, Numbers
  <1>6. 0 < maxCover'[i] /\ ~(maxCover'[i] <= maxCover[i]) /\ maxCover'[i] <= maxCover'[i]
    BY <1>3, <1>4, <1>5
  <1>7. <<i, maxCover'[i]>> \notin Claimed /\ <<i, maxCover'[i]>> \in Claimed'
    BY <1>5, <1>6 DEF Claimed
  <1> QED  BY <1>1, <1>7

\* "Preliminary cover update to prevent new input thundering herd": however many
\* workers find the same cover at once, and compare their runs with maxCover before
\* they take its lock, each input queued for triage has claimed a level of a slot
\* that no other has.
THEOREM NoThunderingHerd == Spec => []NoHerd
  <1>1. Init => HerdInv
    <2> SUFFICES ASSUME Init PROVE HerdInv
      OBVIOUS
    <2>1. noted = 0 /\ Claimed \subseteq Slot \X Level
      BY DEF Init, Claimed
    <2>2. Cardinality(Claimed) \in Nat
      BY <2>1, ClaimedFinite
    <2> QED  BY <2>1, <2>2, StartType DEF HerdInv, NoHerd
  <1>2. HerdInv /\ [Next]_vars => HerdInv'
    <2> SUFFICES ASSUME HerdInv, [Next]_vars PROVE HerdInv'
      OBVIOUS
    <2>1. TypeInv /\ TypeInv' /\ noted \in Nat /\ noted <= Cardinality(Claimed)
      BY StepType DEF HerdInv, NoHerd, TypeInv, TypeOK
    <2>2. Claimed \subseteq Claimed'
      BY <2>1, ClaimsStay
    <2>3. /\ IsFiniteSet(Claimed') /\ Cardinality(Claimed') \in Nat
          /\ IsFiniteSet(Claimed) /\ Cardinality(Claimed) \in Nat
      BY ClaimedFinite DEF Claimed
    <2>4. Cardinality(Claimed) <= Cardinality(Claimed')
      BY <2>2, <2>3, FS_Subset
    <2>5. UNCHANGED noted \/ \E w \in Workers : UpdateMaxCover(w)
      <3>1. \/ UNCHANGED vars \/ HubStep
            \/ \E w \in Workers : WorkerStep(w) \/ PeriodicCheck(w)
        BY DEF Next, HubStep
      <3> QED  BY <3>1, WorkerFrame, HubFrame DEF vars, workerSide
    <2>6. ASSUME NEW w \in Workers, UpdateMaxCover(w), ~UNCHANGED noted
          PROVE  noted' <= Cardinality(Claimed')
      <3>1. PICK c : c \notin Claimed /\ c \in Claimed'
        BY <2>1, <2>6, ClaimMade
      <3>2. noted' = noted + 1
        BY <2>1, <2>6, ClaimMade
      <3>3. Claimed \cup {c} \in SUBSET Claimed'
        BY <2>2, <3>1
      <3>4. Cardinality(Claimed \cup {c}) = Cardinality(Claimed) + 1
        BY <2>3, <3>1, FS_AddElement
      <3>5. Cardinality(Claimed \cup {c}) <= Cardinality(Claimed')
        BY <2>3, <3>3, FS_Subset
      <3> QED  BY <2>1, <2>3, <3>2, <3>4, <3>5
    <2>7. noted' <= Cardinality(Claimed')
      BY <2>1, <2>3, <2>4, <2>5, <2>6
    <2> QED  BY <2>1, <2>7 DEF HerdInv, NoHerd
  <1>3. HerdInv => NoHerd
    BY DEF HerdInv
  <1> QED  BY <1>1, <1>2, <1>3, PTL DEF Spec
-----------------------------------------------------------------------------
(* Cover that is claimed is kept.                                          *)

\* What exhibits a level exhibits the lower ones.
LEMMA ExhibitsLess ==
  ASSUME NEW x \in Data, NEW i \in Slot, NEW l \in Level, NEW m \in Level, l <= m,
         Exhibits(x, i, m)
  PROVE  Exhibits(x, i, l)
  <1>1. PICK run \in Runs[x] \ {CrashRun} : roundUpCover(run[i]) >= m
    BY DEF Exhibits
  <1>2. run \in Table
    BY HubAssumption DEF HubAssumption
  <1>3. roundUpCover(run[i]) \in Int /\ l \in Int /\ m \in Int
    BY <1>2, Numbers
  <1> QED  BY <1>1, <1>3 DEF Exhibits

\* When runs are deterministic, triage sees what exhibits a level.
LEMMA TriageSees ==
  ASSUME TypeInv, Deterministic, NEW x \in Data, NEW i \in Slot, NEW l, Exhibits(x, i, l),
         NEW cover \in ThreeRuns(x)
  PROVE  l <= roundUpCover(cover[i])
  <1>1. PICK run \in Runs[x] \ {CrashRun} : roundUpCover(run[i]) >= l
    BY DEF Exhibits
  <1>2. PICK seen \in Runs[x] \ {CrashRun} : cover[i] = seen[i]
    BY TriageTables
  <1>3. run = seen
    BY DEF Deterministic
  <1> QED  BY <1>1, <1>2, <1>3

\* A step of one worker leaves the others as they are.
LEMMA OthersStay ==
  ASSUME TypeInv, NEW w \in Workers, WorkerStep(w) \/ PeriodicCheck(w)
  PROVE  \A v \in Workers \ {w} : /\ wpc'[v] = wpc[v] /\ job'[v] = job[v]
                                  /\ found'[v] = found[v] /\ localQueue'[v] = localQueue[v]
  <1>0. \A f \in {wpc, job, found, localQueue} : DOMAIN f = Workers
    BY DEF TypeInv, TypeOK
  <1>1. CASE PollCrasher(w) \/ PollTriage(w) \/ TakeLocal(w) \/ StartFuzz(w)
    BY <1>0, <1>1 DEF PollCrasher, PollTriage, TakeLocal, StartFuzz, Goto
  <1>2. CASE UpdateMaxCover(w)
    BY <1>0, <1>2 DEF UpdateMaxCover, Goto
  <1>3. CASE SendStats(w) \/ PeriodicCheck(w) \/ TriageCrash(w)
    BY <1>0, <1>3 DEF SendStats, PeriodicCheck, TriageCrash, Goto
  <1>4. CASE Triage(w)
    BY <1>0, <1>4 DEF Triage, Goto
  <1>5. CASE \E x \in Data : Fuzz(w, x) \/ Smash(w, x)
    BY <1>0, <1>5 DEF Fuzz, Smash, testInput, noteNewInput, Goto
  <1>6. CASE \E x \in Data : Minimize(w, x) \/ MinimizeCrasher(w, x)
    BY <1>0, <1>6 DEF Minimize, MinimizeCrasher, noteNewInput, Goto
  <1>7. CASE Finish(w) \/ SendInput(w) \/ AfterTriage(w) \/ CrasherMinimized(w) \/ SendCrasher(w)
    BY <1>0, <1>7 DEF Finish, SendInput, AfterTriage, CrasherMinimized, SendCrasher, Goto
  <1> QED  BY <1>1, <1>2, <1>3, <1>4, <1>5, <1>6, <1>7 DEF WorkerStep

\* What a worker is about to fold into maxCover is the cover of a run.
LEMMA NotesRuns ==
  ASSUME TypeInv, FoundRan, NEW w \in Workers, WorkerStep(w) \/ PeriodicCheck(w)
  PROVE  FoundRan'
  <1>0. /\ wpc \in [Workers -> WorkerPc] /\ DOMAIN found = Workers
        /\ found[w].back \in Testing \cup {"loop"}
    BY DEF TypeInv, TypeOK, JobState
  <1>1. wpc'[w] = "note" => found'[w].cover \in Runs[found'[w].data] \ {CrashRun}
    <2>1. CASE PollCrasher(w) \/ PollTriage(w) \/ TakeLocal(w) \/ StartFuzz(w)
      BY <1>0, <2>1 DEF PollCrasher, PollTriage, TakeLocal, StartFuzz, Goto
    <2>2. CASE UpdateMaxCover(w) \/ SendStats(w)
      BY <1>0, <2>2 DEF UpdateMaxCover, SendStats, Goto, Testing
    <2>3. CASE PeriodicCheck(w) \/ TriageCrash(w)
      BY <1>0, <2>3 DEF PeriodicCheck, TriageCrash, Goto
    <2>4. CASE Triage(w)
      <3>1. job[w] \in Job
        BY Untouched
      <3>2. wpc'[w] \in {"after", "minimize", "smash", "send"}
        BY <1>0, <2>4, <3>1, AfterRunsPlace DEF Triage, Goto, findNewCoverNotEmpty
      <3> QED  BY <3>2
    <2>5. ASSUME NEW x \in Data, NEW back \in {"loop", "smash", "minimize"},
                 NEW cover \in Runs[x] \ {CrashRun}, noteNewInput(w, x, cover, back)
          PROVE  wpc'[w] = "note" => found'[w].cover \in Runs[found'[w].data] \ {CrashRun}
      BY <1>0, <2>5 DEF noteNewInput, Goto
    <2>6. CASE \E x \in Data : Fuzz(w, x) \/ Smash(w, x)
      <3>1. PICK x \in Data, back \in {"loop", "smash"} : testInput(w, x, back)
        BY <2>6 DEF Fuzz, Smash
      <3>2. CASE Goto(w, back)
        BY <1>0, <3>2 DEF Goto
      <3> QED  BY <2>5, <3>1, <3>2 DEF testInput
    <2>7. ASSUME NEW x \in Data, Minimize(w, x) \/ MinimizeCrasher(w, x)
          PROVE  wpc'[w] = "note" => found'[w].cover \in Runs[found'[w].data] \ {CrashRun}
      <3>1. \/ UNCHANGED wpc /\ wpc[w] # "note"
            \/ \E cover \in Runs[x] \ {CrashRun} : noteNewInput(w, x, cover, "minimize")
        BY <2>7 DEF Minimize, MinimizeCrasher
      <3> QED  BY <2>5, <3>1
    <2>8. CASE Finish(w) \/ SendInput(w) \/ AfterTriage(w) \/ CrasherMinimized(w) \/ SendCrasher(w)
      BY <1>0, <2>8 DEF Finish, SendInput, AfterTriage, CrasherMinimized, SendCrasher, Goto
    <2> QED  BY <2>1, <2>2, <2>3, <2>4, <2>6, <2>7, <2>8 DEF WorkerStep
  <1> QED  BY <1>1, OthersStay DEF FoundRan

\* A worker that keeps its queue, its place and the cover of its job goes on answering.
LEMMA StillAnswers ==
  ASSUME NEW w \in Workers, NEW i, NEW l, WorkerAnswers(w, i, l),
         UNCHANGED localQueue,
         \/ Place(w) \notin {"triage", "minimize", "smash", "send"}
         \/ Place(w) = "triage" /\ Place(w)' = "triage" /\ job'[w].data = job[w].data
         \/ /\ Place(w) # "triage" /\ Place(w)' \in {"minimize", "smash", "send"}
            /\ job'[w].cover = job[w].cover
  PROVE  WorkerAnswers(w, i, l)'
  BY DEF WorkerAnswers, Exhibits

\* The places of a worker that does not change its job.
LEMMA SamePlace ==
  ASSUME TypeInv, NEW w \in Workers,
         \/ SendStats(w) \/ PeriodicCheck(w)
         \/ \E x \in Data : Smash(w, x) \/ Minimize(w, x)
  PROVE  /\ UNCHANGED localQueue /\ Place(w)' = Place(w) /\ job'[w].cover = job[w].cover
         /\ Place(w) = "triage" => UNCHANGED job
  <1>0. /\ wpc \in [Workers -> WorkerPc] /\ DOMAIN found = Workers
        /\ found[w].back \in Testing \cup {"loop"} /\ job[w] \in Job /\ DOMAIN job = Workers
    BY DEF TypeInv, TypeOK, JobState
  <1>1. CASE SendStats(w)
    BY <1>0, <1>1 DEF SendStats, Goto, Place, Testing
  <1>2. CASE PeriodicCheck(w)
    BY <1>0, <1>2, Blank DEF PeriodicCheck, Goto, Place, Testing, NoFound
  <1>3. ASSUME NEW x \in Data, NEW cover, NEW back \in {"smash", "minimize"}, wpc[w] = back,
               noteNewInput(w, x, cover, back)
        PROVE  Place(w)' = back
    BY <1>0, <1>3 DEF noteNewInput, Goto, Place
  <1>4. ASSUME NEW x \in Data, Smash(w, x)
        PROVE  Place(w)' = "smash" /\ wpc[w] = "smash" /\ UNCHANGED <<job, localQueue>>
    <2>1. testInput(w, x, "smash") /\ wpc[w] = "smash" /\ UNCHANGED <<job, localQueue>>
      BY <1>4 DEF Smash
    <2>2. CASE Goto(w, "smash")
      BY <1>0, <2>1, <2>2 DEF Goto, Place
    <2> QED  BY <1>3, <2>1, <2>2 DEF testInput
  <1>5. ASSUME NEW x \in Data, Minimize(w, x)
        PROVE  /\ Place(w)' = "minimize" /\ wpc[w] = "minimize" /\ UNCHANGED localQueue
               /\ job'[w].cover = job[w].cover
    <2>1. /\ wpc[w] = "minimize" /\ UNCHANGED localQueue
          /\ \/ UNCHANGED <<wpc, job>>
             \/ UNCHANGED wpc /\ job' = [job EXCEPT ![w].data = x]
             \/ UNCHANGED job /\ \E cover \in Runs[x] \ {CrashRun} :
                                    noteNewInput(w, x, cover, "minimize")
      BY <1>5 DEF Minimize
    <2>2. job'[w].cover = job[w].cover
      BY <1>0, <2>1 DEF Job
    <2>3. UNCHANGED wpc => Place(w)' = "minimize"
      BY <2>1 DEF Place
    <2> QED  BY <1>3, <2>1, <2>2, <2>3
  <1>6. wpc[w] \in {"smash", "minimize"} => Place(w) = wpc[w]
    BY DEF Place
  <1> QED  BY <1>1, <1>2, <1>4, <1>5, <1>6

\* What a worker answers for it still answers for after its step, or it has handed it
\* to the hub, or the corpus has it already.
LEMMA WorkerHandsOn ==
  ASSUME TypeInv, Deterministic, NEW w \in Workers, WorkerStep(w) \/ PeriodicCheck(w),
         NEW i \in Slot, NEW l \in Level, WorkerAnswers(w, i, l)
  PROVE  WorkerAnswers(w, i, l)' \/ HubAnswers(i, l)'
  <1>0. /\ wpc \in [Workers -> WorkerPc] /\ DOMAIN found = Workers /\ DOMAIN job = Workers
        /\ job[w] \in Job /\ corpusCover \in [Slot -> Level]
        /\ found[w].back \in Testing \cup {"loop"}
        /\ localQueue \in [Workers -> Seq(CoordinatorInput)]
        /\ Len(localQueue[w]) \in Nat
    BY DEF TypeInv, TypeOK, JobState
  <1>1. CASE PollCrasher(w) \/ PollTriage(w) \/ StartFuzz(w)
    <2>1. Place(w) = "loop" /\ UNCHANGED localQueue
      BY <1>1 DEF PollCrasher, PollTriage, StartFuzz, Idle, Place
    <2> QED  BY <2>1, StillAnswers
  <1>2. CASE TakeLocal(w)
    <2> DEFINE q == localQueue[w]
               n == Len(q)
    <2>1. /\ wpc[w] = "loop" /\ q # <<>> /\ localQueue' = [localQueue EXCEPT ![w] = Front(@)]
          /\ job' = [job EXCEPT ![w] = JobOf(Last(q), FALSE)] /\ wpc'[w] = "triage"
      BY <1>0, <1>2 DEF TakeLocal, Idle, Goto
    <2>2. /\ q \in Seq(CoordinatorInput) /\ n >= 1
          /\ Last(q) = q[n] /\ Last(q) \in CoordinatorInput /\ Len(Front(q)) = n - 1
      BY <1>0, <2>1, FrontLast DEF Last
    <2>3. localQueue'[w] = Front(q) /\ job'[w] = JobOf(q[n], FALSE)
      BY <1>0, <2>1, <2>2
    <2>4. job'[w].data = q[n].data /\ Place(w)' = "triage"
      BY <2>1, <2>2, <2>3, JobOfType DEF Place
    <2>5. PICK k \in 1 .. n : Exhibits(q[k].data, i, l)
      BY <2>1 DEF WorkerAnswers, Place
    <2>6. CASE k = n
      BY <2>4, <2>5, <2>6 DEF WorkerAnswers, Exhibits
    <2>7. CASE k # n
      <3>1. k \in 1 .. n - 1 /\ n \in Nat
        BY <1>0, <2>7
      <3>2. Front(q)[k] = q[k]
        BY <2>2, <3>1 DEF Front
      <3> HIDE DEF q, n
      <3> QED  BY <2>2, <2>3, <2>5, <3>1, <3>2 DEF WorkerAnswers, Exhibits
    <2> QED  BY <2>6, <2>7
  <1>3. CASE UpdateMaxCover(w)
    <2>1. Place(w)' = Place(w) /\ UNCHANGED job
      BY <1>0, <1>3 DEF UpdateMaxCover, Goto, Place, Testing
    <2>2. \A k \in 1 .. Len(localQueue[w]) :
            k \in 1 .. Len(localQueue'[w]) /\ localQueue'[w][k] = localQueue[w][k]
      <3>1. CASE UNCHANGED localQueue
        BY <3>1
      <3>2. CASE ~UNCHANGED localQueue
        <4>1. PICK e : localQueue'[w] = Append(localQueue[w], e)
          BY <1>0, <1>3, <3>2 DEF UpdateMaxCover
        <4>2. localQueue[w] \in Seq(CoordinatorInput \cup {e})
          <5>1. localQueue[w] \in Seq(CoordinatorInput)
            BY <1>0
          <5> QED  BY <5>1
        <4> QED  BY <1>0, <4>1, <4>2, AppendProperties
      <3> QED  BY <3>1, <3>2
    <2> QED  BY <2>1, <2>2 DEF WorkerAnswers, Exhibits
  <1>4. CASE SendStats(w) \/ PeriodicCheck(w) \/ \E x \in Data : Smash(w, x) \/ Minimize(w, x)
    <2>1. /\ UNCHANGED localQueue /\ Place(w)' = Place(w) /\ job'[w].cover = job[w].cover
          /\ Place(w) = "triage" => UNCHANGED job
      BY <1>4, SamePlace
    <2> QED  BY <2>1, StillAnswers
  <1>5. CASE \/ CrasherMinimized(w) \/ SendCrasher(w) \/ AfterTriage(w)
             \/ \E x \in Data : Fuzz(w, x) \/ MinimizeCrasher(w, x)
    <2>1. wpc[w] \in {"crash", "sendCrash", "after", "fuzz"} /\ UNCHANGED localQueue
      BY <1>5 DEF CrasherMinimized, SendCrasher, AfterTriage, Fuzz, MinimizeCrasher
    <2>2. Place(w) = wpc[w]
      BY <2>1 DEF Place
    <2> QED  BY <2>1, <2>2, StillAnswers
  <1>6. CASE TriageCrash(w)
    <2>1. /\ CrashRun \in Runs[job[w].data] /\ wpc[w] = "triage" /\ UNCHANGED localQueue
      BY <1>6 DEF TriageCrash
    <2>2. job[w].data \in Data
      BY <2>1 DEF TypeInv, JobState, Place, JobAt
    <2>3. ~Exhibits(job[w].data, i, l)
      BY <2>1, <2>2 DEF Exhibits, Deterministic
    <2> QED  BY <2>1, <2>3 DEF WorkerAnswers, Place, Exhibits
  <1>7. CASE Triage(w)
    <2>1. PICK cover \in ThreeRuns(job[w].data) :
            /\ job' = [job EXCEPT ![w].cover = cover,
                                  ![w].pursue = findNewCover(corpusCover, cover)]
            /\ Goto(w, AfterRuns(job[w], findNewCoverNotEmpty(corpusCover, cover)))
      BY <1>7 DEF Triage
    <2>2. wpc[w] = "triage" /\ UNCHANGED <<localQueue, corpusCover>>
      BY <1>7 DEF Triage, hubSide
    <2>3. job[w].data \in Data
      BY <2>2 DEF TypeInv, JobState, Place, JobAt
    <2>4. cover \in Table
      BY <2>3, TriageTables
    <2>5. job'[w].cover = cover
      BY <1>0, <2>1 DEF Job
    <2>6. CASE \E k \in 1 .. Len(localQueue[w]) : Exhibits(localQueue[w][k].data, i, l)
      BY <2>2, <2>6 DEF WorkerAnswers, Exhibits
    <2>7. CASE Exhibits(job[w].data, i, l)
      <3>1. l <= roundUpCover(cover[i])
        BY <2>3, <2>7, TriageSees
      <3>2. CASE wpc'[w] \in {"minimize", "smash", "send"}
        BY <2>5, <3>1, <3>2 DEF WorkerAnswers, Place
      <3>3. CASE wpc'[w] = "after"
        <4>1. ~findNewCoverNotEmpty(corpusCover, cover)
          BY <1>0, <2>1, <3>3 DEF Goto, AfterRuns, Job, findNewCoverNotEmpty
        <4>2. ~(cover[i] > corpusCover[i])
          BY <4>1 DEF findNewCoverNotEmpty
        <4>3. cover[i] \in Byte /\ corpusCover[i] \in Level /\ roundUpCover(cover[i]) \in Int
              /\ corpusCover[i] \in Int /\ l \in Int
          BY <1>0, <2>4, Numbers
        <4>4. ~(roundUpCover(cover[i]) > corpusCover[i])
          BY <4>2, <4>3, RawVersusLevel
        <4>5. l <= corpusCover'[i]
          BY <2>2, <3>1, <4>3, <4>4
        <4> QED  BY <4>5 DEF HubAnswers
      <3>4. wpc'[w] \in {"after", "minimize", "smash", "send"}
        BY <1>0, <2>1, AfterRunsPlace DEF Goto, findNewCoverNotEmpty
      <3> QED  BY <3>2, <3>3, <3>4
    <2> QED  BY <2>2, <2>6, <2>7 DEF WorkerAnswers, Place
  <1>8. CASE Finish(w)
    <2>1. /\ Place(w) \in {"minimize", "smash"} /\ Place(w)' = "send"
          /\ UNCHANGED <<job, localQueue>>
      BY <1>0, <1>8 DEF Finish, Goto, Place
    <2> QED  BY <2>1, StillAnswers
  <1>9. CASE SendInput(w)
    <2>1. PICK e : newInputC' = Append(newInputC, e) /\ e.cover = job[w].cover
      BY <1>9 DEF SendInput
    <2>2. wpc[w] = "send" /\ UNCHANGED localQueue
      BY <1>9 DEF SendInput
    <2>3. /\ Len(newInputC') \in 1 .. Len(newInputC')
          /\ newInputC'[Len(newInputC')] = e
      BY <2>1 DEF TypeInv, TypeOK
    <2>4. CASE \E k \in 1 .. Len(localQueue[w]) : Exhibits(localQueue[w][k].data, i, l)
      BY <2>2, <2>4 DEF WorkerAnswers, Exhibits
    <2>5. CASE l <= roundUpCover(job[w].cover[i])
      BY <2>1, <2>3, <2>5 DEF HubAnswers
    <2> QED  BY <2>2, <2>4, <2>5 DEF WorkerAnswers, Place
  <1> QED  BY <1>1, <1>2, <1>3, <1>4, <1>5, <1>6, <1>7, <1>8, <1>9 DEF WorkerStep

\* The hub leaves its store of an input only by publishing it.
LEMMA OnlyPublishes ==
  ASSUME HubStep, hpc = "publish"
  PROVE  Publish \/ UNCHANGED <<hpc, taking, newInputC, corpus, corpusCover, maxCover>>
  <1>1. CASE HandOut \/ TakeStats \/ TakeInput \/ TakeCrasher \/ StartSync
    BY <1>1 DEF HandOut, TakeStats, TakeInput, TakeCrasher, StartSync
  <1>2. CASE HubCall
    BY <1>2 DEF HubCall, SyncReturns, NewInputReturns, NewCrasherReturns, Reconnect
  <1>3. CASE CallFails \/ ConnectFails
    BY <1>3 DEF CallFails, ConnectFails
  <1>4. CASE \E x \in Foreign : OtherFinds(x)
    BY <1>4 DEF OtherFinds, channels, roData
  <1> QED  BY <1>1, <1>2, <1>3, <1>4 DEF HubStep

\* What the hub answers for it answers for after its step: it drops an input only
\* when the corpus has its cover or its data.
LEMMA HubHandsOn ==
  ASSUME HonestInv, TypeInv', HubStep, NEW i \in Slot, NEW l \in Level, HubAnswers(i, l)
  PROVE  HubAnswers(i, l)'
  <1>0. /\ TypeInv /\ corpusCover \in [Slot -> Level] /\ corpusCover' \in [Slot -> Level]
        /\ newInputC \in Seq(Input) /\ taking \in Input /\ corpus \subseteq Data
        /\ taking.cover \in Table
    BY DEF HonestInv, TypeInv, TypeOK, Input
  <1>1. /\ corpus \subseteq corpus' /\ corpusCover'[i] >= corpusCover[i]
        /\ corpusCover[i] \in Int /\ corpusCover'[i] \in Int /\ l \in Int
    <2>1. [Next]_vars
      BY DEF Next, HubStep
    <2> QED  BY <1>0, <2>1, CorpusGrows, Numbers
  <1>2. CASE l <= corpusCover[i] \/ \E x \in corpus : Exhibits(x, i, l)
    BY <1>1, <1>2 DEF HubAnswers, Exhibits
  <1>3. ASSUME NEW k \in 1 .. Len(newInputC), l <= roundUpCover(newInputC[k].cover[i])
        PROVE  HubAnswers(i, l)'
    <2>1. CASE UNCHANGED newInputC
      BY <1>3, <2>1 DEF HubAnswers
    <2>2. CASE TakeInput
      <3>1. /\ newInputC # <<>> /\ newInputC' = Tail(newInputC)
            /\ hpc = "select" /\ UNCHANGED <<corpus, corpusCover>>
            /\ \/ taking' = Head(newInputC) /\ hpc' = "publish"
               \/ ~compareCover(corpusCover, Head(newInputC).cover)
               \/ Head(newInputC).data \in corpus
        BY <2>2 DEF TakeInput, roData
      <3>2. CASE k # 1
        <4>1. k - 1 \in 1 .. Len(newInputC') /\ newInputC'[k - 1] = newInputC[k]
          BY <1>0, <3>1, <3>2, HeadTailProperties, LenProperties, EmptySeq
        <4> QED  BY <1>3, <4>1 DEF HubAnswers
      <3>3. CASE k = 1
        <4> DEFINE input == newInputC[1]
        <4>1. input = Head(newInputC) /\ input \in Input /\ input.cover \in Table
              /\ input.data \in Data /\ 1 \in 1 .. Len(newInputC)
          BY <1>0, <1>3, <3>1, <3>3, HeadInput, HeadTailProperties DEF Input
        <4>2. Shown(input.data, input.cover, corpusCover)
          BY <4>1 DEF HonestInv, InputsShown
        <4> HIDE DEF input
        <4>3. l <= roundUpCover(input.cover[i])
          BY <1>3, <3>3 DEF input
        <4>4. roundUpCover(input.cover[i]) \in Level /\ roundUpCover(input.cover[i]) \in Int
          BY <4>1, Numbers
        <4>5. CASE taking' = input /\ hpc' = "publish"
          BY <4>3, <4>5 DEF HubAnswers
        <4>6. CASE ~compareCover(corpusCover, input.cover)
          <5>1. roundUpCover(input.cover[i]) <= corpusCover[i]
            BY <1>0, <4>1, <4>6, NotNew
          <5>2. l <= corpusCover'[i]
            BY <1>1, <4>3, <4>4, <5>1
          <5> QED  BY <5>2 DEF HubAnswers
        <4>7. CASE input.data \in corpus
          <5>1. CASE roundUpCover(input.cover[i]) <= corpusCover[i]
            <6>1. l <= corpusCover'[i]
              BY <1>1, <4>3, <4>4, <5>1
            <6> QED  BY <6>1 DEF HubAnswers
          <5>2. CASE Exhibits(input.data, i, roundUpCover(input.cover[i]))
            <6>1. Exhibits(input.data, i, l)
              BY <4>1, <4>3, <4>4, <5>2, ExhibitsLess
            <6> QED  BY <3>1, <4>7, <6>1 DEF HubAnswers, Exhibits
          <5> QED  BY <4>2, <5>1, <5>2 DEF Shown
        <4> QED  BY <3>1, <4>1, <4>5, <4>6, <4>7
      <3> QED  BY <3>2, <3>3
    <2> QED  BY <2>1, <2>2, HubFrame
  <1>4. CASE hpc = "publish" /\ l <= roundUpCover(taking.cover[i])
    <2>1. CASE Publish
      <3>1. corpusCover' = updateMaxCover(corpusCover, taking.cover)
        BY <2>1 DEF Publish
      <3>2. corpusCover'[i] >= roundUpCover(taking.cover[i])
        BY <1>0, <3>1, FoldIsJoin
      <3>3. roundUpCover(taking.cover[i]) \in Int
        BY <1>0, Numbers
      <3>4. l <= corpusCover'[i]
        BY <1>1, <1>4, <3>2, <3>3
      <3> QED  BY <3>4 DEF HubAnswers
    <2>2. CASE UNCHANGED <<hpc, taking>>
      BY <1>4, <2>2 DEF HubAnswers
    <2> QED  BY <1>4, <2>1, <2>2, OnlyPublishes
  <1> QED  BY <1>2, <1>3, <1>4 DEF HubAnswers

\* Every step keeps somebody answering for each level of maxCover.
LEMMA AnsweredNext ==
  ASSUME HonestInv, HonestInv', FoundRan, Deterministic, Answered, [Next]_vars
  PROVE  Answered'
  <1>0. /\ TypeInv /\ TypeInv'
        /\ maxCover \in [Slot -> Level] /\ maxCover' \in [Slot -> Level]
    BY DEF HonestInv, TypeInv, TypeOK
  <1> SUFFICES ASSUME NEW i \in Slot, NEW l \in Level, l = maxCover'[i], l # 0
               PROVE  HubAnswers(i, l)' \/ \E w \in Workers : WorkerAnswers(w, i, l)'
    <2>1. \A i \in Slot : maxCover'[i] \in Level
      BY <1>0
    <2> QED  BY <2>1 DEF Answered, HubAnswers, WorkerAnswers, Exhibits
  <1>1. CASE maxCover[i] = l
    <2>1. HubAnswers(i, l) \/ \E w \in Workers : WorkerAnswers(w, i, l)
      <3>1. HubAnswers(i, maxCover[i]) \/ \E w \in Workers : WorkerAnswers(w, i, maxCover[i])
        BY <1>1 DEF Answered
      <3> QED  BY <1>1, <3>1 DEF HubAnswers, WorkerAnswers, Exhibits
    <2>2. CASE UNCHANGED vars
      <3>1. UNCHANGED <<corpus, corpusCover, newInputC, hpc, taking, wpc, job, found, localQueue>>
        BY <2>2 DEF vars, hubSide, workerSide, channels
      <3> QED  BY <2>1, <3>1 DEF HubAnswers, WorkerAnswers, Place, Exhibits
    <2>3. CASE HubStep
      <3>1. UNCHANGED <<wpc, job, found, localQueue>>
        BY <2>3, HubFrame DEF workerSide
      <3>2. \A w \in Workers : WorkerAnswers(w, i, l) => WorkerAnswers(w, i, l)'
        BY <3>1 DEF WorkerAnswers, Place, Exhibits
      <3> QED  BY <1>0, <2>1, <2>3, <3>2, HubHandsOn
    <2>4. ASSUME NEW w \in Workers, WorkerStep(w) \/ PeriodicCheck(w)
          PROVE  HubAnswers(i, l)' \/ \E v \in Workers : WorkerAnswers(v, i, l)'
      <3>1. UNCHANGED <<corpus, corpusCover, hpc, taking>>
        BY <2>4, WorkerFrame DEF hubSide
      <3>2. HubAnswers(i, l) => HubAnswers(i, l)'
        <4>1. \A k \in 1 .. Len(newInputC) :
                k \in 1 .. Len(newInputC') /\ newInputC'[k] = newInputC[k]
          <5>1. newInputC \in Seq(Input) /\ newInputC' \in Seq(Input)
            BY <1>0 DEF TypeInv, TypeOK
          <5>2. UNCHANGED newInputC \/ \E e : newInputC' = Append(newInputC, e)
            BY <2>4, OnlySends DEF SendInput
          <5> QED  BY <5>1, <5>2
        <4> QED  BY <3>1, <4>1 DEF HubAnswers, Exhibits
      <3>3. WorkerAnswers(w, i, l) => HubAnswers(i, l)' \/ WorkerAnswers(w, i, l)'
        BY <1>0, <2>4, WorkerHandsOn
      <3>4. \A v \in Workers \ {w} : WorkerAnswers(v, i, l) => WorkerAnswers(v, i, l)'
        BY <1>0, <2>4, OthersStay DEF WorkerAnswers, Place, Exhibits
      <3> QED  BY <2>1, <3>2, <3>3, <3>4
    <2> QED  BY <2>2, <2>3, <2>4 DEF Next, HubStep
  <1>2. CASE maxCover[i] # l
    <2>1. UNCHANGED maxCover \/ TakeInput \/ \E w \in Workers : UpdateMaxCover(w)
      <3>1. \/ UNCHANGED vars \/ HubStep
            \/ \E w \in Workers : WorkerStep(w) \/ PeriodicCheck(w)
        BY DEF Next, HubStep
      <3> QED  BY <3>1, WorkerFrame, HubFrame DEF vars
    <2>2. CASE TakeInput
      <3> DEFINE input == Head(newInputC)
      <3>1. input.cover \in Table
        BY <1>0, <2>2, HeadInput DEF TakeInput
      <3>2. /\ maxCover' = updateMaxCover(maxCover, input.cover)
            /\ hpc' = "publish" /\ taking' = input
        BY <1>2, <2>2 DEF TakeInput
      <3> HIDE DEF input
      <3>3. l = roundUpCover(input.cover[i])
        BY <1>0, <1>2, <3>1, <3>2, FoldIsJoin
      <3>4. l <= l
        BY Numbers
      <3> QED  BY <3>2, <3>3, <3>4 DEF HubAnswers
    <2>3. ASSUME NEW w \in Workers, UpdateMaxCover(w) PROVE WorkerAnswers(w, i, l)'
      <3> DEFINE new == [data |-> found[w].data, minimized |-> FALSE, smashed |-> FALSE]
      <3>1. /\ maxCover' = updateMaxCover(maxCover, found[w].cover) /\ wpc[w] = "note"
            /\ localQueue' = [localQueue EXCEPT ![w] = Append(@, new)]
        BY <1>2, <2>3 DEF UpdateMaxCover
      <3>2. found[w].cover \in Runs[found[w].data] \ {CrashRun} /\ found[w].cover \in Table
        BY <1>0, <3>1 DEF FoundRan, TypeInv, TypeOK
      <3>3. l = roundUpCover(found[w].cover[i])
        BY <1>0, <1>2, <3>1, <3>2, FoldIsJoin
      <3>4. Exhibits(found[w].data, i, l)
        <4>1. roundUpCover(found[w].cover[i]) >= l
          BY <3>3, Numbers
        <4> QED  BY <3>2, <4>1 DEF Exhibits
      <3>5. /\ localQueue'[w] \in Seq(CoordinatorInput)
            /\ localQueue[w] \in Seq(CoordinatorInput)
            /\ localQueue'[w] = Append(localQueue[w], new)
        BY <1>0, <3>1 DEF TypeInv, TypeOK
      <3>6. /\ Len(localQueue'[w]) \in 1 .. Len(localQueue'[w])
            /\ localQueue'[w][Len(localQueue'[w])].data = found[w].data
        BY <3>5
      <3> QED  BY <3>4, <3>6 DEF WorkerAnswers, Exhibits
    <2> QED  BY <1>2, <2>1, <2>2, <2>3
  <1> QED  BY <1>1, <1>2

\* The places an input may be on its way to the corpus.
LEMMA OnTheWay ==
  /\ \A w \in Workers : DataOf(ToSet(localQueue[w])) \subseteq InFlight
  /\ \A w \in Workers :
       wpc[w] # "after" /\ job[w].data \in Data => job[w].data \in InFlight
  /\ DataOf(ToSet(newInputC)) \subseteq InFlight
  /\ hpc = "publish" => taking.data \in InFlight
  <1>1. ASSUME NEW w \in Workers
        PROVE  DataOf(ToSet(localQueue[w])) \subseteq QueuedHere
    BY DEF QueuedHere
  <1>2. ASSUME NEW w \in Workers, wpc[w] # "after", job[w].data \in Data
        PROVE  job[w].data \in AtWork
    BY <1>2 DEF AtWork
  <1>3. hpc = "publish" => taking.data \in BeingTaken
    BY DEF BeingTaken
  <1> QED  BY <1>1, <1>2, <1>3 DEF InFlight

\* An element of a queue has its data among those of the queue.
LEMMA DataIn ==
  ASSUME NEW s, NEW k \in DOMAIN s
  PROVE  s[k].data \in DataOf(ToSet(s))
  <1>1. s[k] \in ToSet(s)
    BY DEF ToSet
  <1> QED  BY <1>1 DEF DataOf

\* Who answers for a level exhibits it, or stands aside for the corpus.
LEMMA AnswersExhibit ==
  ASSUME HonestInv, NEW i \in Slot, NEW l \in Level, l # 0,
         HubAnswers(i, l) \/ \E w \in Workers : WorkerAnswers(w, i, l)
  PROVE  \E x \in corpus \cup InFlight : Exhibits(x, i, l)
  <1>0. /\ corpus \subseteq Data /\ corpusCover \in [Slot -> Level] /\ taking \in Input
        /\ newInputC \in Seq(Input)
        /\ \A w \in Workers : job[w] \in Job /\ localQueue[w] \in Seq(CoordinatorInput)
    BY DEF HonestInv, TypeInv, TypeOK
  <1>1. ASSUME l <= corpusCover[i] PROVE \E x \in corpus : Exhibits(x, i, l)
    <2>1. corpusCover[i] \in Level /\ corpusCover[i] \in Int /\ l \in Int /\ l >= 0
      <3>1. \A v \in Level : v >= 0
        BY DEF Level
      <3> QED  BY <1>0, <3>1, Numbers
    <2>2. corpusCover[i] # 0
      BY <1>1, <2>1
    <2>3. PICK x \in corpus : Exhibits(x, i, corpusCover[i])
      BY <2>2 DEF HonestInv, HonestCover
    <2> QED  BY <1>0, <1>1, <2>1, <2>3, ExhibitsLess
  \* The cover attached to an input is shown.
  <1>2. ASSUME NEW x \in Data, NEW c \in Table, Shown(x, c, corpusCover),
               l <= roundUpCover(c[i])
        PROVE  (\E y \in corpus : Exhibits(y, i, l)) \/ Exhibits(x, i, l)
    <2>1. /\ roundUpCover(c[i]) \in Level /\ roundUpCover(c[i]) \in Int
          /\ corpusCover[i] \in Int /\ l \in Int
      BY <1>0, Numbers
    <2>2. CASE roundUpCover(c[i]) <= corpusCover[i]
      <3>1. l <= corpusCover[i]
        BY <1>2, <2>1, <2>2
      <3> QED  BY <1>1, <3>1
    <2>3. CASE Exhibits(x, i, roundUpCover(c[i]))
      BY <1>2, <2>1, <2>3, ExhibitsLess
    <2> QED  BY <1>2, <2>2, <2>3 DEF Shown
  <1>3. ASSUME NEW w \in Workers, WorkerAnswers(w, i, l)
        PROVE  \E x \in corpus \cup InFlight : Exhibits(x, i, l)
    <2>1. ASSUME NEW k \in 1 .. Len(localQueue[w])
          PROVE  localQueue[w][k].data \in InFlight
      <3>1. k \in DOMAIN localQueue[w]
        BY <1>0, <2>1
      <3>2. localQueue[w][k].data \in DataOf(ToSet(localQueue[w]))
        BY <3>1, DataIn
      <3> QED  BY <3>2, OnTheWay
    <2>2. ASSUME Place(w) \in {"triage", "minimize", "smash", "send"}
          PROVE  job[w].data \in Data /\ job[w].data \in InFlight
      <3>1. job[w].data \in Data
        BY <2>2 DEF HonestInv, TypeInv, JobState, JobAt
      <3>2. wpc[w] # "after"
        BY <2>2 DEF Place
      <3> QED  BY <3>1, <3>2, OnTheWay
    <2>3. CASE \E k \in 1 .. Len(localQueue[w]) : Exhibits(localQueue[w][k].data, i, l)
      BY <2>1, <2>3
    <2>4. CASE Place(w) = "triage" /\ Exhibits(job[w].data, i, l)
      BY <2>2, <2>4
    <2>5. CASE Place(w) \in {"minimize", "smash", "send"} /\ l <= roundUpCover(job[w].cover[i])
      <3>1. job[w].cover \in Table
        BY <1>0 DEF Job
      <3>2. Shown(job[w].data, job[w].cover, corpusCover)
        BY DEF HonestInv, JobsShown, JobShown
      <3> QED  BY <1>2, <2>2, <2>5, <3>1, <3>2
    <2> QED  BY <1>3, <2>3, <2>4, <2>5 DEF WorkerAnswers
  <1>4. ASSUME NEW k \in 1 .. Len(newInputC), l <= roundUpCover(newInputC[k].cover[i])
        PROVE  \E x \in corpus \cup InFlight : Exhibits(x, i, l)
    <2>1. /\ newInputC[k] \in Input /\ newInputC[k] \in ToSet(newInputC)
      BY <1>0 DEF ToSet
    <2>2. newInputC[k].data \in InFlight
      <3>1. k \in DOMAIN newInputC
        BY <1>0, <1>4
      <3>2. newInputC[k].data \in DataOf(ToSet(newInputC))
        BY <3>1, DataIn
      <3> QED  BY <3>2, OnTheWay
    <2>4. newInputC[k].data \in Data /\ newInputC[k].cover \in Table
      BY <2>1 DEF Input
    <2>3. Shown(newInputC[k].data, newInputC[k].cover, corpusCover)
      BY DEF HonestInv, InputsShown
    <2> QED  BY <1>2, <1>4, <2>2, <2>3, <2>4
  <1>5. ASSUME hpc = "publish", l <= roundUpCover(taking.cover[i])
        PROVE  \E x \in corpus \cup InFlight : Exhibits(x, i, l)
    <2>1. /\ taking.data \in Data /\ taking.cover \in Table
          /\ Shown(taking.data, taking.cover, corpusCover)
      BY <1>0, <1>5 DEF Input, HonestInv, InputsShown
    <2>2. taking.data \in InFlight
      BY <1>5, OnTheWay
    <2> QED  BY <1>2, <1>5, <2>1, <2>2
  <1> QED  BY <1>1, <1>3, <1>4, <1>5 DEF HubAnswers

\* With deterministic runs, cover that fuzzing has claimed in maxCover, and that
\* will not be taken for new again, is never lost: through the local queue, triage,
\* minimization, the channel and the hub, where an input may be dropped for another
\* at each stage, some input that reaches it is in the corpus or on its way there.
THEOREM ClaimedCoverKept == Spec => []NoCoverageLost
  <1>1. Init => KeptInv
    <2> SUFFICES ASSUME Init PROVE KeptInv
      OBVIOUS
    <2>1. /\ corpusCover = ZeroTable /\ maxCover = ZeroTable /\ hpc = "select"
          /\ newInputC = <<>> /\ job = [w \in Workers |-> NoJob]
          /\ wpc = [w \in Workers |-> "loop"]
      BY DEF Init
    <2>2. FoundRan /\ Answered
      BY <2>1 DEF FoundRan, Answered, ZeroTable
    <2> QED  BY <2>2, HonestInit DEF KeptInv
  <1>2. KeptInv /\ [Next]_vars => KeptInv'
    <2> SUFFICES ASSUME KeptInv, [Next]_vars PROVE KeptInv'
      OBVIOUS
    <2>1. HonestInv /\ HonestInv' /\ TypeInv /\ FoundRan
      BY StepHonest DEF KeptInv, HonestInv
    <2>2. FoundRan'
      <3>1. CASE UNCHANGED <<wpc, found>>
        BY <2>1, <3>1 DEF FoundRan
      <3>2. \/ UNCHANGED vars \/ HubStep
            \/ \E w \in Workers : WorkerStep(w) \/ PeriodicCheck(w)
        BY DEF Next, HubStep
      <3> QED  BY <2>1, <3>1, <3>2, NotesRuns, HubFrame DEF vars, workerSide
    <2>3. Deterministic => Answered'
      BY <2>1, AnsweredNext DEF KeptInv
    <2> QED  BY <2>1, <2>2, <2>3 DEF KeptInv, Deterministic
  <1>3. KeptInv => NoCoverageLost
    <2> SUFFICES ASSUME KeptInv, Deterministic, NEW i \in Slot, NEW l \in Level,
                        l = maxCover[i], l # 0
                 PROVE  \E x \in corpus \cup InFlight : Exhibits(x, i, l)
      <3>1. KeptInv => \A i \in Slot : maxCover[i] \in Level
        BY DEF KeptInv, HonestInv, TypeInv, TypeOK
      <3> QED  BY <3>1 DEF NoCoverageLost, Exhibits
    <2>1. HubAnswers(i, maxCover[i]) \/ \E w \in Workers : WorkerAnswers(w, i, maxCover[i])
      BY DEF KeptInv, Answered
    <2>2. HubAnswers(i, l) \/ \E w \in Workers : WorkerAnswers(w, i, l)
      BY <2>1 DEF HubAnswers, WorkerAnswers, Exhibits
    <2> QED  BY <2>2, AnswersExhibit DEF KeptInv
  <1> QED  BY <1>1, <1>2, <1>3, PTL DEF Spec
=============================================================================
