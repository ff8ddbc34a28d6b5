--------------------------- MODULE Cluster_proofs ---------------------------
(***************************************************************************)
(* Theorems about the coordinator and its hubs, for any number of hubs,    *)
(* inputs, crashes and faults.                                             *)
(***************************************************************************)
EXTENDS Cluster, FiniteSetTheorems, TLAPS

-----------------------------------------------------------------------------
(* Types.  First the handlers of the coordinator, one lemma each.          *)

\* What a restarted coordinator loads from disk is again a set of data.
LEMMA LoadCorpusType ==
  ASSUME NEW dir \in [disk : SUBSET Data, torn : SUBSET Data] \cup Sets(Data)
  PROVE  LoadCorpus(dir) \in Sets(Data)
  <1>1. EmptyFile \in Data
    BY DEF Data
  <1>2. dir.disk \in SUBSET Data /\ dir.torn \in SUBSET Data
    BY DEF Sets
  <1>3. CASE dir.disk = {} /\ dir.torn = {}
    <2>1. LoadCorpus(dir) = newPersistentSet([disk |-> {EmptyFile}, torn |-> {}])
      BY <1>3 DEF LoadCorpus, NoFiles
    <2> QED  BY <1>1, <2>1 DEF newPersistentSet, Sets
  <1>4. CASE ~(dir.disk = {} /\ dir.torn = {})
    BY <1>1, <1>2, <1>4 DEF LoadCorpus, newPersistentSet, Sets
  <1> QED  BY <1>3, <1>4

\* PersistentSet.add keeps the set a set of data, on disk and in memory.
LEMMA AddType ==
  ASSUME NEW A, NEW ps \in Sets(A), NEW a \in A, NEW written \in Files
  PROVE  add(ps, a, written) \in Sets(A)
  <1>1. /\ ps.m \cup {a} \in SUBSET A
        /\ ps.disk \cup {a} \in SUBSET A /\ ps.disk \in SUBSET A
        /\ ps.torn \cup {a} \in SUBSET A /\ ps.torn \ {a} \in SUBSET A
        /\ ps.torn \in SUBSET A
    BY DEF Sets
  <1>2. /\ add(ps, a, written).disk \in SUBSET A
        /\ add(ps, a, written).torn \in SUBSET A
    BY <1>1 DEF add, Files
  <1> QED  BY <1>1, <1>2 DEF add, Sets

\* The corpus that Connect returns is a set of well-formed inputs.
LEMMA ConnectReplyType ==
  CoordTypeOK => ConnectReply \in SUBSET CoordinatorInput
  <1> SUFFICES ASSUME CoordTypeOK, NEW a \in corpus.m
               PROVE  [data |-> a, minimized |-> a \notin UserCorpus, smashed |-> TRUE]
                        \in CoordinatorInput
    BY DEF ConnectReply
  <1>1. a \in Data
    BY DEF CoordTypeOK, Sets
  <1> QED  BY <1>1 DEF CoordinatorInput

\* Coordinator.Connect preserves the type of the coordinator's state.
LEMMA ConnectType == CoordTypeOK /\ Connect => CoordTypeOK'
  <1> SUFFICES ASSUME CoordTypeOK, Connect PROVE CoordTypeOK'
    OBVIOUS
  <1> USE DEF CoordTypeOK, Connect
  <1>1. idSeq' \in Nat
    OBVIOUS
  <1>2. Workers' = Workers \cup {idSeq'}
    BY DEF Workers
  <1>3. Workers' \subseteq Nat
    BY <1>1, <1>2
  <1>4. \A w \in Workers' : pending'[w] \in SUBSET CoordinatorInput
    BY <1>2 DEF Workers
  <1>5. pending' \in [Workers' -> SUBSET CoordinatorInput]
    <2>1. pending' = [w \in Workers' |-> pending'[w]]
      BY <1>2 DEF Workers
    <2> QED  BY <2>1, <1>4
  <1> QED  BY <1>1, <1>3, <1>5 DEF Free

\* Coordinator.NewInput preserves it, whether or not its file could be written.
LEMMA NewInputType ==
  ASSUME CoordTypeOK, NEW w \in Nat, NEW x \in Inputs, NEW written \in Files,
         NewInput(w, x, written)
  PROVE  CoordTypeOK'
  <1>1. CASE Known(w) /\ ~has(corpus, x)
    <2>1. corpus' \in Sets(Data)
      BY <1>1, AddType DEF NewInput, CoordTypeOK, Data
    <2>2. pending' = Announce(x, w)
      BY <1>1 DEF NewInput
    <2>3. Workers' = Workers
      BY <2>2 DEF Workers, Announce
    <2>4. ASSUME NEW w1 \in Workers
          PROVE  Announce(x, w)[w1] \in SUBSET CoordinatorInput
      <3>1. [data |-> x, minimized |-> TRUE, smashed |-> w1 # w] \in CoordinatorInput
        BY DEF CoordinatorInput, Data
      <3>2. pending[w1] \in SUBSET CoordinatorInput
        BY DEF CoordTypeOK
      <3> QED  BY <3>1, <3>2 DEF Announce
    <2>5. pending' \in [Workers' -> SUBSET CoordinatorInput]
      BY <2>2, <2>3, <2>4 DEF Announce
    <2> QED  BY <2>1, <2>3, <2>5 DEF NewInput, CoordTypeOK
  <1>2. CASE ~(Known(w) /\ ~has(corpus, x))
    BY <1>2 DEF NewInput, CoordTypeOK, Workers
  <1> QED  BY <1>1, <1>2

\* Coordinator.Sync preserves it.
LEMMA SyncType ==
  ASSUME CoordTypeOK, NEW w \in Nat, NEW execs \in Nat, NEW cover \in Nat,
         Sync(w, execs, cover)
  PROVE  CoordTypeOK'
  <1>1. CASE Known(w)
    <2>1. pending' = [pending EXCEPT ![w] = {}]
      BY <1>1 DEF Sync
    <2>2. Workers' = Workers
      BY <2>1 DEF Workers
    <2>3. pending' \in [Workers' -> SUBSET CoordinatorInput]
      BY <2>1, <2>2 DEF CoordTypeOK
    <2>4. statExecs' \in Nat /\ coverFullness' \in Nat
      BY <1>1 DEF Sync, CoordTypeOK
    <2> QED  BY <2>2, <2>3, <2>4 DEF Sync, CoordTypeOK
  <1>2. CASE ~Known(w)
    BY <1>2 DEF Sync, CoordTypeOK, Workers
  <1> QED  BY <1>1, <1>2

\* The three steps of Coordinator.NewCrasher preserve it.
LEMMA CrasherType ==
  ASSUME CoordTypeOK, NEW written \in Files,
         \/ \E c \in CrashInputs : NewCrasher(c, written)
         \/ SaveCrasher(written) \/ DescribeCrasher(written)
  PROVE  CoordTypeOK'
  <1> USE DEF CoordTypeOK
  <1>1. ASSUME NEW c \in CrashInputs, NewCrasher(c, written) PROVE CoordTypeOK'
    <2>1. SuppOf[c] \in Supps
      BY CoordinatorAssumption DEF CoordinatorAssumption, Supps
    <2>2. suppressions' \in Sets(Supps)
      BY <1>1, <2>1, AddType DEF NewCrasher
    <2>3. handling' \in {handling, [crash |-> c, phase |-> "save"]}
      BY <1>1 DEF NewCrasher
    <2> QED  BY <1>1, <2>2, <2>3 DEF NewCrasher, Workers
  <1>2. ASSUME SaveCrasher(written) PROVE CoordTypeOK'
    <2>1. handling \in [crash : CrashInputs, phase : {"save", "describe"}]
      BY <1>2 DEF SaveCrasher, Idle
    <2>2. CASE has(crashers, handling.crash)
      BY <1>2, <2>2 DEF SaveCrasher, Workers
    <2>3. CASE ~has(crashers, handling.crash)
      <3>1. handling.crash \in Crashes
        BY <2>1 DEF Crashes
      <3>2. crashers' \in Sets(Crashes)
        BY <1>2, <2>3, <3>1, AddType DEF SaveCrasher
      <3>3. handling' = [crash |-> handling.crash, phase |-> "describe"]
        BY <1>2, <2>1, <2>3 DEF SaveCrasher
      <3> QED  BY <1>2, <2>1, <3>2, <3>3 DEF SaveCrasher, Workers
    <2> QED  BY <2>2, <2>3
  <1>3. ASSUME DescribeCrasher(written) PROVE CoordTypeOK'
    <2>1. handling \in [crash : CrashInputs, phase : {"save", "describe"}]
      BY <1>3 DEF DescribeCrasher, Idle
    <2>2. described' \subseteq Crashes
      BY <1>3, <2>1 DEF DescribeCrasher, Crashes
    <2> QED  BY <1>3, <2>2 DEF DescribeCrasher, Workers
  <1> QED  BY <1>1, <1>2, <1>3

\* The removal of silent hubs preserves it.
LEMMA NukeType ==
  ASSUME CoordTypeOK, NEW silent, NukeDead(silent)
  PROVE  CoordTypeOK'
  <1>1. Workers' = Workers \ silent
    BY DEF NukeDead, Workers
  <1>2. pending' \in [Workers' -> SUBSET CoordinatorInput]
    BY <1>1 DEF NukeDead, CoordTypeOK
  <1> QED  BY <1>1, <1>2 DEF NukeDead, CoordTypeOK

\* The persistent sets as a dying coordinator may leave them: their whole files are
\* the old ones, and no file is lost.
TornSets(a, b, c) ==
  /\ a \in Sets(Data) /\ b \in Sets(Supps) /\ c \in Sets(Crashes)
  /\ a.disk = corpus.disk /\ b.disk = suppressions.disk /\ c.disk = crashers.disk

\* A torn file is another file of its directory.
LEMMA TornType ==
  ASSUME NEW A, NEW ps \in Sets(A), NEW a \in A
  PROVE  torn(ps, a) \in Sets(A) /\ torn(ps, a).disk = ps.disk
  <1>1. ps.torn \cup {a} \in SUBSET A
    BY DEF Sets
  <1>2. torn(ps, a) = [m |-> ps.m, disk |-> ps.disk, torn |-> ps.torn \cup {a}]
    BY DEF torn, Sets
  <1> QED  BY <1>1, <1>2 DEF Sets

\* A crash of the coordinator preserves it, whichever file was being written.
LEMMA CrashType ==
  ASSUME CoordTypeOK, NEW a \in Sets(Data), NEW b \in Sets(Supps),
         NEW c \in Sets(Crashes), CrashLeaving(a, b, c)
  PROVE  CoordTypeOK'
  <1>1. /\ corpus' \in Sets(Data) /\ suppressions' \in Sets(Supps)
        /\ crashers' \in Sets(Crashes)
    BY DEF CrashLeaving, newPersistentSet, Sets, Data, Supps, Crashes
  <1>2. Workers' = {} /\ pending' \in [Workers' -> SUBSET CoordinatorInput]
    BY DEF CrashLeaving, Workers
  <1> QED  BY <1>1, <1>2 DEF CrashLeaving, CoordTypeOK

\* A restart, which reloads the three persistent sets, preserves it.
LEMMA RestartType == CoordTypeOK /\ Restart => CoordTypeOK'
  <1> SUFFICES ASSUME CoordTypeOK, Restart PROVE CoordTypeOK'
    OBVIOUS
  <1>1. corpus' \in Sets(Data)
    <2>1. corpus \in Sets(Data)
      BY DEF CoordTypeOK
    <2> QED  BY <2>1, LoadCorpusType DEF Restart
  <1> QED  BY <1>1 DEF Restart, CoordTypeOK, Workers

-----------------------------------------------------------------------------
(* Types of the requests and of their replies.                             *)

\* A request has the fields its handler reads.
LEMMA RequestFields ==
  ASSUME NEW r \in Request
  PROVE  /\ r.op \in {"connect", "newInput", "newCrasher", "sync"}
         /\ r.id \in Nat /\ r.n \in Nat
         /\ r.op = "newInput" => r.arg \in Inputs
         /\ r.op = "newCrasher" => r.arg \in CrashInputs
         /\ r.op = "sync" => r.arg \in Nat
         /\ r.op # "sync" => r.n = 0
  BY DEF Request

\* What the four calls of a hub build are requests.
LEMMA MakeRequest ==
  /\ ConnectReq \in Request
  /\ \A w \in Nat, x \in Inputs : NewInputReq(w, x) \in Request
  /\ \A c \in CrashInputs : NewCrasherReq(c) \in Request
  /\ \A w, e, cover \in Nat : SyncReq(w, e, cover) \in Request
  BY DEF ConnectReq, NewInputReq, NewCrasherReq, SyncReq, Request

\* Serving any request preserves the type of the state of the coordinator.
LEMMA ServeType ==
  ASSUME CoordTypeOK, NEW r \in Request, diskFaults \in Nat, Serve(r)
  PROVE  CoordTypeOK' /\ diskFaults' \in Nat
  <1>1. CASE r.op = "connect" /\ Connect /\ UNCHANGED diskFaults
    BY <1>1, ConnectType
  <1>2. CASE r.op = "sync" /\ Sync(r.id, r.n, r.arg) /\ UNCHANGED diskFaults
    BY <1>2, RequestFields, SyncType
  <1>3. CASE /\ r.op = "newInput"
             /\ \E written \in Files :
                  Written(written, WritesInput(r)) /\ NewInput(r.id, r.arg, written)
    BY <1>3, RequestFields, NewInputType DEF Written
  <1>4. CASE /\ r.op = "newCrasher"
             /\ \E written \in PlainFiles :
                  Written(written, WritesSuppression(r)) /\ NewCrasher(r.arg, written)
    BY <1>4, RequestFields, CrasherType DEF Written, PlainFiles
  <1> QED  BY <1>1, <1>2, <1>3, <1>4 DEF Serve

\* The answer to a request is well formed, whether it is served or refused.
LEMMA AnswerType ==
  ASSUME CoordTypeOK, NEW r \in Request
  PROVE  /\ Outcome(r) \in Status
         /\ Answer(r) \in [id : Nat, inputs : SUBSET CoordinatorInput]
  <1>1. Outcome(r) \in Status
    BY DEF Outcome, Status, InCall
  <1>2. CASE r.op = "connect"
    BY <1>1, <1>2, ConnectReplyType DEF Answer, CoordTypeOK
  <1>3. CASE r.op = "sync" /\ Known(r.id)
    BY <1>1, <1>3 DEF Answer, SyncReply, Known, CoordTypeOK
  <1>4. CASE r.op # "connect" /\ ~(r.op = "sync" /\ Known(r.id))
    <2>1. Answer(r) = NoReply
      BY <1>4 DEF Answer
    <2> QED  BY <1>1, <2>1 DEF NoReply
  <1> QED  BY <1>2, <1>3, <1>4

\* The coverage signatures are finitely many: their number is a natural number.
LEMMA SigsFinite ==
  ASSUME NEW S \in SUBSET Data
  PROVE  Cardinality(S) \in Nat
  <1>1. IsFiniteSet(Data)
    BY ClusterAssumption, FS_AddElement DEF ClusterAssumption, Data
  <1> QED  BY <1>1, FS_Subset, FS_CardinalityType

\* Starting a call keeps the calls well formed.
LEMMA CallType ==
  ASSUME HubTypeOK, NEW h \in Hubs, NEW r \in Request, Call(h, r)
  PROVE  req' \in [Hubs -> Request] /\ status' \in [Hubs -> Status]
  BY DEF HubTypeOK, Call, Status, InCall

-----------------------------------------------------------------------------
\* Every variable keeps its type, whatever the hubs, the coordinator and the
\* faults do.
LEMMA InitType == Init => TypeOK
  <1> SUFFICES ASSUME Init PROVE TypeOK
    OBVIOUS
  <1>1. CoordTypeOK
    <2>1. [NoFiles EXCEPT !.disk = UserCorpus] \in [disk : SUBSET Data, torn : SUBSET Data]
      BY CoordinatorAssumption DEF CoordinatorAssumption, Data, NoFiles
    <2>2. corpus \in Sets(Data)
      BY <2>1, LoadCorpusType DEF Init, InitWith, CoordInit
    <2>3. suppressions \in Sets(Supps) /\ crashers \in Sets(Crashes)
      BY DEF Init, InitWith, CoordInit, newPersistentSet, NoFiles, Sets
    <2>4. Workers = {} /\ pending \in [Workers -> SUBSET CoordinatorInput]
      BY DEF Init, InitWith, CoordInit, Workers
    <2> QED  BY <2>2, <2>3, <2>4 DEF Init, InitWith, CoordInit, CoordTypeOK
  <1>2. NoReply \in [id : Nat, inputs : SUBSET CoordinatorInput]
    BY DEF NoReply
  <1>3. HubTypeOK
    BY <1>2, MakeRequest DEF Init, InitWith, HubTypeOK, Status
  <1> QED  BY <1>1, <1>3 DEF TypeOK

\* After a reconnect a hub's queue holds the reply, and nothing beyond it that it
\* did not hold before.
LEMMA QueueConnected ==
  ASSUME HubTypeOK, NEW h \in Hubs, Connected(h)
  PROVE  /\ queue' \in [Hubs -> SUBSET CoordinatorInput]
         /\ reply[h].inputs \subseteq queue'[h]
         /\ queue'[h] \subseteq queue[h] \cup reply[h].inputs
         /\ \A g \in Hubs : g # h => queue'[g] = queue[g]
  <1>1. PICK held \in Held(h) : queue' = [queue EXCEPT ![h] = held \cup reply[h].inputs]
    BY DEF Connected
  <1>2. held \subseteq queue[h]
    BY DEF Held
  <1>3. reply[h].inputs \subseteq CoordinatorInput /\ queue[h] \subseteq CoordinatorInput
    BY DEF HubTypeOK
  <1>4. held \cup reply[h].inputs \in SUBSET CoordinatorInput
    BY <1>2, <1>3
  <1> QED  BY <1>1, <1>2, <1>4 DEF HubTypeOK

\* The steps of a hub that leave the coordinator alone.
LEMMA HubStepType ==
  ASSUME TypeOK, NEW h \in Hubs, HubStep(h)
  PROVE  TypeOK'
  <1> USE DEF TypeOK
  <1>0. NoReply \in [id : Nat, inputs : SUBSET CoordinatorInput]
    BY DEF NoReply
  <1>c. ASSUME UNCHANGED coordVars PROVE CoordTypeOK'
    BY <1>c DEF coordVars, CoordTypeOK, Workers
  <1>1. CASE Dial(h)
    BY <1>1, <1>c, MakeRequest DEF Dial, HubTypeOK, histVars, Status, InCall
  <1>2. CASE StartSync(h)
    <2>1. Cardinality(sigs[h]) \in Nat /\ id[h] \in Nat /\ stats[h] \in Nat
      BY SigsFinite DEF HubTypeOK
    <2>2. req' \in [Hubs -> Request] /\ status' \in [Hubs -> Status]
      BY <1>2, <2>1, CallType, MakeRequest DEF StartSync
    <2>3. stats' \in [Hubs -> Nat]
      BY <1>2 DEF StartSync, HubTypeOK
    <2> QED  BY <1>2, <1>c, <2>2, <2>3 DEF StartSync, HubTypeOK, histVars
  <1>3. CASE Connected(h)
    <2>1. queue' \in [Hubs -> SUBSET CoordinatorInput]
      BY <1>3, QueueConnected
    <2> QED  BY <1>3, <1>0, <1>c, <2>1 DEF Connected, HubTypeOK, histVars, Status
  <1>4. CASE Returned(h)
    <2>1. queue[h] \cup reply[h].inputs \in SUBSET CoordinatorInput
      BY DEF HubTypeOK
    <2> QED  BY <1>4, <1>0, <1>c, <2>1 DEF Returned, HubTypeOK, histVars, Status
  <1>5. CASE CallFailed(h)
    BY <1>5, <1>c DEF CallFailed, HubTypeOK, histVars, Status
  <1> QED  BY <1>1, <1>2, <1>3, <1>4, <1>5 DEF HubStep

\* What the workers hand to the hub.
LEMMA DiscoverType ==
  ASSUME TypeOK, NEW h \in Hubs, Discover(h) \/ TriageStep(h)
  PROVE  TypeOK'
  <1> USE DEF TypeOK
  <1>c. ASSUME UNCHANGED coordVars PROVE CoordTypeOK'
    BY <1>c DEF coordVars, CoordTypeOK, Workers
  <1>1. ASSUME NEW x \in Data, AcceptTriaged(h, x) PROVE TypeOK'
    BY <1>1, <1>c DEF AcceptTriaged, HubTypeOK, histVars
  <1>2. ASSUME NEW x \in Inputs, AcceptMine(h, x) PROVE TypeOK'
    <2>1. req' \in [Hubs -> Request] /\ status' \in [Hubs -> Status]
      BY <1>2, CallType, MakeRequest DEF AcceptMine, HubTypeOK
    <2>2. sigs' \in [Hubs -> SUBSET Data] /\ mine' \in [Hubs -> SUBSET Inputs]
      BY <1>2 DEF AcceptMine, HubTypeOK, Data
    <2> QED  BY <1>2, <1>c, <2>1, <2>2 DEF AcceptMine, HubTypeOK
  <1>3. ASSUME NEW c \in CrashInputs, ReportCrash(h, c) PROVE TypeOK'
    <2>1. req' \in [Hubs -> Request] /\ status' \in [Hubs -> Status]
      BY <1>3, CallType, MakeRequest DEF ReportCrash, HubTypeOK
    <2>2. SuppOf[c] \in Suppressions
      BY CoordinatorAssumption DEF CoordinatorAssumption
    <2>3. supps' \in [Hubs -> SUBSET Suppressions]
      BY <1>3, <2>2 DEF ReportCrash, HubTypeOK
    <2>4. crashed' \in Nat
      BY <1>3 DEF ReportCrash, HubTypeOK
    <2> QED  BY <1>3, <1>c, <2>1, <2>3, <2>4 DEF ReportCrash, HubTypeOK
  <1>4. CASE WorkerStats(h)
    BY <1>4, <1>c DEF WorkerStats, HubTypeOK
  <1>5. ASSUME NEW inp \in queue[h], Triage(h, inp) PROVE TypeOK'
    <2>1. inp.data \in Data
      BY DEF HubTypeOK, CoordinatorInput
    <2>2. queue' \in [Hubs -> SUBSET CoordinatorInput] /\ triaged' \in [Hubs -> SUBSET Data]
      BY <1>5, <2>1 DEF Triage, HubTypeOK
    <2>3. smashes' \in [Data -> Nat]
      BY <1>5, <2>1 DEF Triage, HubTypeOK
    <2> QED  BY <1>5, <1>c, <2>2, <2>3 DEF Triage, HubTypeOK
  <1> QED  BY <1>1, <1>2, <1>3, <1>4, <1>5 DEF Discover, TriageStep

\* What the coordinator does for a request.
LEMMA ServingType ==
  ASSUME TypeOK, Serving
  PROVE  TypeOK'
  <1> USE DEF TypeOK
  <1>1. ASSUME NEW h \in Hubs, HandleCall(h) PROVE TypeOK'
    <2>1. req[h] \in Request /\ diskFaults \in Nat
      BY DEF HubTypeOK
    <2>2. CoordTypeOK' /\ diskFaults' \in Nat
      BY <1>1, <2>1, ServeType DEF HandleCall
    <2>3. /\ status' \in [Hubs -> Status]
          /\ reply' \in [Hubs -> [id : Nat, inputs : SUBSET CoordinatorInput]]
      BY <1>1, <2>1, AnswerType DEF HandleCall, HubTypeOK
    <2> QED  BY <1>1, <2>2, <2>3 DEF HandleCall, HubTypeOK
  <1>2. ASSUME NEW r \in late, HandleLate(r) PROVE TypeOK'
    <2>1. CoordTypeOK' /\ diskFaults' \in Nat
      BY <1>2, ServeType DEF HandleLate, HubTypeOK
    <2> QED  BY <1>2, <2>1 DEF HandleLate, HubTypeOK
  <1>3. CASE HandleCrasher
    <2>1. CoordTypeOK' /\ diskFaults' \in Nat
      BY <1>3, CrasherType DEF HandleCrasher, Written, PlainFiles, HubTypeOK
    <2>2. status' \in [Hubs -> Status]
      BY <1>3 DEF HandleCrasher, CrasherDone, HubTypeOK, Status, InCall
    <2> QED  BY <1>3, <2>1, <2>2 DEF HandleCrasher, HubTypeOK
  <1> QED  BY <1>1, <1>2, <1>3 DEF Serving

\* A lost connection leaves well-formed calls.
LEMMA DropCallsType ==
  ASSUME HubTypeOK, NEW lost, DropCalls(lost), Fault
  PROVE  HubTypeOK'
  <1>1. NoReply \in [id : Nat, inputs : SUBSET CoordinatorInput]
    BY DEF NoReply
  <1>2. status' \in [Hubs -> Status]
    BY DEF DropCalls, HubTypeOK, Status
  <1>3. reply' \in [Hubs -> [id : Nat, inputs : SUBSET CoordinatorInput]]
    BY <1>1 DEF DropCalls, HubTypeOK
  <1> QED  BY <1>2, <1>3 DEF DropCalls, HubTypeOK, Fault

\* Whichever of its files the coordinator was writing when it died, the directories
\* hold the whole files they held.
LEMMA CrashLeaves ==
  ASSUME TypeOK, NEW lost, CoordinatorCrash(lost) \/ TornCrash(lost)
  PROVE  \E a, b, c : CrashLeaving(a, b, c) /\ TornSets(a, b, c)
  <1>1. corpus \in Sets(Data) /\ suppressions \in Sets(Supps) /\ crashers \in Sets(Crashes)
    BY DEF TypeOK, CoordTypeOK
  <1>2. TornSets(corpus, suppressions, crashers)
    BY <1>1 DEF TornSets
  <1>3. CASE CoordinatorCrash(lost)
    BY <1>2, <1>3 DEF CoordinatorCrash, Crash
  <1>4. ASSUME NEW r \in Waiting, WritesInput(r),
               CrashLeaving(torn(corpus, r.arg), suppressions, crashers)
        PROVE  \E a, b, c : CrashLeaving(a, b, c) /\ TornSets(a, b, c)
    <2>1. r \in Request
      BY DEF TypeOK, HubTypeOK, Waiting
    <2>2. r.arg \in Data
      BY <1>4, <2>1, RequestFields DEF WritesInput, Data
    <2>3. TornSets(torn(corpus, r.arg), suppressions, crashers)
      BY <1>1, <2>2, TornType DEF TornSets
    <2> QED  BY <1>4, <2>3
  <1>5. ASSUME NEW r \in Waiting, WritesSuppression(r),
               CrashLeaving(corpus, torn(suppressions, SuppOf[r.arg]), crashers)
        PROVE  \E a, b, c : CrashLeaving(a, b, c) /\ TornSets(a, b, c)
    <2>1. r \in Request
      BY DEF TypeOK, HubTypeOK, Waiting
    <2>2. SuppOf[r.arg] \in Supps
      BY <1>5, <2>1, RequestFields, CoordinatorAssumption
         DEF WritesSuppression, CoordinatorAssumption, Supps
    <2>3. TornSets(corpus, torn(suppressions, SuppOf[r.arg]), crashers)
      BY <1>1, <2>2, TornType DEF TornSets
    <2> QED  BY <1>5, <2>3
  <1>6. ASSUME handling.phase = "save",
               CrashLeaving(corpus, suppressions, torn(crashers, handling.crash))
        PROVE  \E a, b, c : CrashLeaving(a, b, c) /\ TornSets(a, b, c)
    <2>1. handling.crash \in Crashes
      BY <1>6 DEF TypeOK, CoordTypeOK, Idle, Crashes
    <2>2. TornSets(corpus, suppressions, torn(crashers, handling.crash))
      BY <1>1, <2>1, TornType DEF TornSets
    <2> QED  BY <1>6, <2>2
  <1> QED  BY <1>3, <1>4, <1>5, <1>6 DEF TornCrash

\* Faults, crashes, restarts and removals preserve the type invariant.
LEMMA DisturbanceType ==
  ASSUME TypeOK, Disturbance
  PROVE  TypeOK'
  <1> USE DEF TypeOK
  <1>c. ASSUME UNCHANGED coordVars PROVE CoordTypeOK'
    BY <1>c DEF coordVars, CoordTypeOK, Workers
  <1>d. corpus \in Sets(Data) /\ suppressions \in Sets(Supps) /\ crashers \in Sets(Crashes)
    BY DEF CoordTypeOK
  <1>1. ASSUME NEW h \in Hubs, DialTimeout(h) PROVE TypeOK'
    BY <1>1, <1>c DEF DialTimeout, HubTypeOK, histVars, Status
  <1>2. ASSUME NEW h \in Hubs, NEW keep \in BOOLEAN, LoseConnection(h, keep)
        PROVE  TypeOK'
    <2>1. NoReply \in [id : Nat, inputs : SUBSET CoordinatorInput]
      BY DEF NoReply
    <2>2. /\ status' \in [Hubs -> Status]
          /\ reply' \in [Hubs -> [id : Nat, inputs : SUBSET CoordinatorInput]]
          /\ late' \subseteq Request
      <3>1. CASE status[h] \in InCall
        <4>1. status' = [status EXCEPT ![h] = "failed"] /\ reply' = [reply EXCEPT ![h] = NoReply]
          BY <1>2, <3>1 DEF LoseConnection
        <4>2. late' \in {late, late \cup {req[h]}}
          BY <1>2, <3>1 DEF LoseConnection
        <4> QED  BY <2>1, <4>1, <4>2 DEF HubTypeOK, Status
      <3>2. CASE status[h] \notin InCall
        BY <1>2, <3>2 DEF LoseConnection, HubTypeOK
      <3> QED  BY <3>1, <3>2
    <2>3. conn' \in [Hubs -> BOOLEAN] /\ faults' \in Nat
      BY <1>2 DEF LoseConnection, HubTypeOK, Fault
    <2> QED  BY <1>2, <1>c, <2>2, <2>3 DEF LoseConnection, HubTypeOK
  <1>3. ASSUME NEW w \in Workers, Nuke(w) PROVE TypeOK'
    BY <1>3, NukeType DEF Nuke, HubTypeOK, hubVars, Fault
  <1>4. ASSUME NEW lost \in SUBSET Hubs, CoordinatorCrash(lost) \/ TornCrash(lost)
        PROVE  TypeOK'
    <2>1. CASE CoordinatorCrash(lost)
      BY <2>1, <1>d, CrashType, DropCallsType DEF CoordinatorCrash, Crash
    <2>2. CASE TornCrash(lost)
      <3>1. PICK a, b, c : CrashLeaving(a, b, c) /\ TornSets(a, b, c)
        BY <2>2, CrashLeaves
      <3>2. CoordTypeOK'
        BY <3>1, CrashType DEF TornSets
      <3> QED  BY <2>2, <3>2, DropCallsType DEF TornCrash
    <2> QED  BY <1>4, <2>1, <2>2
  <1> QED  BY <1>1, <1>2, <1>3, <1>4 DEF Disturbance

\* Every step preserves the type invariant.
LEMMA NextType == TypeOK /\ [Next]_vars => TypeOK'
  <1> SUFFICES ASSUME TypeOK, [Next]_vars PROVE TypeOK'
    OBVIOUS
  <1>1. CASE CoordinatorRestart
    BY <1>1, RestartType DEF CoordinatorRestart, TypeOK, HubTypeOK, hubVars, histVars
  <1>2. CASE UNCHANGED vars
    BY <1>2 DEF vars, coordVars, hubVars, histVars, TypeOK, CoordTypeOK, HubTypeOK, Workers
  <1>3. CASE AllHubsDead
    BY <1>2, <1>3 DEF AllHubsDead
  <1> QED  BY <1>1, <1>2, <1>3, HubStepType, DiscoverType, ServingType, DisturbanceType
           DEF Next

\* Every reachable state of hubs, calls and coordinator is well typed.
THEOREM TypeCorrect == Spec => []TypeOK
  BY InitType, NextType, PTL DEF Spec

-----------------------------------------------------------------------------
(* Safety: ids are unique and every input of the corpus reaches every      *)
(* registered hub.  First the call state of the hubs.                      *)

\* A call and its hub agree on what the hub is waiting for, after every step.
LEMMA CallStateStep ==
  ASSUME TypeOK, CallState, Next
  PROVE  CallState'
  <1> USE DEF TypeOK, HubTypeOK, CallState
  <1>1. ASSUME NEW h \in Hubs, Dial(h) PROVE CallState'
    BY <1>1 DEF Dial, ConnectReq, coordVars
  <1>2. ASSUME NEW h \in Hubs, StartSync(h) PROVE CallState'
    BY <1>2 DEF StartSync, Call, SyncReq, coordVars
  <1>3. ASSUME NEW h \in Hubs, Connected(h) \/ Returned(h) PROVE CallState'
    BY <1>3 DEF Connected, Returned, coordVars
  <1>4. ASSUME NEW h \in Hubs, CallFailed(h) \/ DialTimeout(h) PROVE CallState'
    BY <1>4 DEF CallFailed, DialTimeout, coordVars
  <1>5. ASSUME NEW h \in Hubs, NEW x \in Inputs, AcceptMine(h, x) PROVE CallState'
    BY <1>5 DEF AcceptMine, Call, NewInputReq, coordVars
  <1>6. ASSUME NEW h \in Hubs, NEW c \in CrashInputs, ReportCrash(h, c) PROVE CallState'
    BY <1>6 DEF ReportCrash, Call, NewCrasherReq, coordVars
  <1>7. ASSUME NEW h \in Hubs,
               \/ \E x \in Data : AcceptTriaged(h, x)
               \/ WorkerStats(h) \/ TriageStep(h)
        PROVE  CallState'
    BY <1>7 DEF AcceptTriaged, WorkerStats, TriageStep, Triage, coordVars
  <1>8. ASSUME NEW h \in Hubs, HandleCall(h) PROVE CallState'
    <2>1. /\ up' = up
          /\ Outcome(req[h]) # "sent"
          /\ Outcome(req[h]) # "done" => Answer(req[h]) = NoReply
          /\ Outcome(req[h]) = "running" => req[h].op = "newCrasher"
      BY <1>8 DEF HandleCall, Serve, Connect, Sync, NewInput, NewCrasher,
                  Outcome, Answer
    <2> QED  BY <1>8, <2>1 DEF HandleCall
  <1>9. ASSUME NEW r \in late, HandleLate(r) PROVE CallState'
    <2>1. up' = up
      BY <1>9 DEF HandleLate, Serve, Connect, Sync, NewInput, NewCrasher
    <2> QED  BY <1>9, <2>1 DEF HandleLate
  <1>10. CASE HandleCrasher
    <2>1. up' = up
      BY <1>10 DEF HandleCrasher, SaveCrasher, DescribeCrasher
    <2> QED  BY <1>10, <2>1 DEF HandleCrasher, CrasherDone
  <1>11. ASSUME NEW h \in Hubs, NEW keep \in BOOLEAN, LoseConnection(h, keep)
         PROVE  CallState'
    <2>1. CASE status[h] \in InCall
      BY <1>11, <2>1 DEF LoseConnection, coordVars
    <2>2. CASE status[h] \notin InCall
      BY <1>11, <2>2 DEF LoseConnection, coordVars, InCall
    <2> QED  BY <2>1, <2>2
  <1>12. ASSUME NEW w \in Workers, Nuke(w) PROVE CallState'
    BY <1>12 DEF Nuke, NukeDead, hubVars
  <1>13. ASSUME NEW lost \in SUBSET Hubs, CoordinatorCrash(lost) \/ TornCrash(lost)
         PROVE  CallState'
    <2>1. DropCalls(lost)
      BY <1>13 DEF CoordinatorCrash, TornCrash
    <2> QED  BY <2>1 DEF DropCalls
  <1>14. CASE CoordinatorRestart
    BY <1>14 DEF CoordinatorRestart, Restart, hubVars
  <1>15. CASE AllHubsDead
    BY <1>15 DEF AllHubsDead, vars, coordVars, hubVars
  <1> QED
    BY <1>1, <1>2, <1>3, <1>4, <1>5, <1>6, <1>7, <1>8, <1>9, <1>10, <1>11, <1>12,
       <1>13, <1>14, <1>15
    DEF Next, HubStep, Discover, Serving, Disturbance

\* A registered hub, seen one at a time.
LEMMA LiveHubsDef ==
  /\ \A h \in Hubs : h \in LiveHubs <=> Registered(h) \/ Registering(h)
  /\ \A h \in LiveHubs : h \in Hubs /\ CurrentId(h) \in LiveIds
  /\ \A i \in LiveIds : \E h \in LiveHubs : i = CurrentId(h)
  BY DEF LiveHubs, LiveIds

\* The steps that register nobody new: they keep ids unique and issued.
LEMMA NobodyNew ==
  ASSUME TypeOK, TypeOK', IdsIssued, UniqueIds,
         \A h \in LiveHubs' : h \in LiveHubs /\ CurrentId(h)' = CurrentId(h),
         idSeq' = idSeq,
         Workers' \subseteq Workers,
         \A r \in late' : r \notin late /\ r.op = "sync"
                           => r.id <= idSeq /\ r.id \notin LiveIds'
  PROVE  IdsIssued' /\ UniqueIds'
  <1>1. UniqueIds'
    BY DEF UniqueIds
  <1>2. Workers' \subseteq 1 .. idSeq' /\ \A h \in LiveHubs' : CurrentId(h)' \in 1 .. idSeq'
    BY DEF IdsIssued
  <1>3. LiveIds' \subseteq LiveIds
    BY DEF LiveIds
  <1>4. \A r \in late' : r.op = "sync" => r.id <= idSeq' /\ r.id \notin LiveIds'
    BY <1>3 DEF IdsIssued
  <1> QED  BY <1>1, <1>2, <1>4 DEF IdsIssued

\* A step that changes nothing the invariant speaks of for the live hubs.
LEMMA SameReach ==
  ASSUME InputsReachHubs,
         \A h \in LiveHubs' : /\ h \in LiveHubs
                              /\ CurrentId(h)' = CurrentId(h)
                              /\ InTransit(h) \subseteq InTransit(h)',
         corpus'.m = corpus.m, Workers' = Workers
  PROVE  InputsReachHubs'
  BY DEF InputsReachHubs

\* The same hub steps as for the types: no hub becomes live, none loses inputs.
LEMMA HubLive ==
  ASSUME TypeOK, NEW h \in Hubs, HubStep(h) \/ DialTimeout(h), NEW g \in Hubs
  PROVE  g \in LiveHubs' => /\ g \in LiveHubs /\ CurrentId(g)' = CurrentId(g)
                            /\ InTransit(g) \subseteq InTransit(g)'
  <1>1. /\ UNCHANGED coordVars /\ UNCHANGED late /\ UNCHANGED triaged
        /\ idSeq' = idSeq /\ Workers' = Workers /\ pending' = pending
        /\ corpus' = corpus
    BY DEF HubStep, Dial, StartSync, Connected, Returned, CallFailed, DialTimeout,
           coordVars, histVars, Workers
  <1>2. g \in LiveHubs' => /\ g \in LiveHubs /\ CurrentId(g)' = CurrentId(g)
                           /\ InTransit(g) \subseteq InTransit(g)'
    <2> USE <1>1 DEF LiveHubs, TypeOK, HubTypeOK, CurrentId, Registered, Registering
    <2>1. CASE Dial(h)
      <3>1. g = h => g \notin LiveHubs'
        BY <2>1 DEF Dial, ConnectReq
      <3>2. g # h => /\ conn'[g] = conn[g] /\ status'[g] = status[g] /\ req'[g] = req[g]
                     /\ id' = id /\ reply' = reply /\ queue' = queue
        BY <2>1 DEF Dial
      <3> QED  BY <3>1, <3>2 DEF InTransit
    <2>2. CASE StartSync(h)
      <3>1. /\ conn' = conn /\ id' = id /\ reply' = reply /\ queue' = queue
            /\ g # h => status'[g] = status[g] /\ req'[g] = req[g]
            /\ g = h => /\ status[g] = "idle" /\ req'[g].op = "sync"
                        /\ status'[g] \in {"sent", "failed"}
        BY <2>2 DEF StartSync, Call, SyncReq
      <3> QED  BY <3>1 DEF InTransit
    <2>3. CASE Connected(h)
      <3>1. /\ conn' = conn /\ req' = req
            /\ g # h => /\ status'[g] = status[g] /\ id'[g] = id[g]
                        /\ reply'[g] = reply[g] /\ queue'[g] = queue[g]
            /\ g = h => /\ status[g] = "done" /\ status'[g] = "idle"
                        /\ req[g].op = "connect" /\ id'[g] = reply[g].id
                        /\ reply[g].inputs \subseteq queue'[g] /\ reply'[g] = NoReply
        <4>1. /\ reply[h].inputs \subseteq queue'[h]
              /\ \A f \in Hubs : f # h => queue'[f] = queue[f]
          BY <2>3, QueueConnected DEF TypeOK
        <4> QED  BY <2>3, <4>1 DEF Connected
      <3> QED  BY <3>1 DEF InTransit, NoReply, DataOf
    <2>4. CASE Returned(h)
      <3>1. /\ conn' = conn /\ req' = req /\ id' = id
            /\ g # h => /\ status'[g] = status[g]
                        /\ reply'[g] = reply[g] /\ queue'[g] = queue[g]
            /\ g = h => /\ status[g] = "done" /\ status'[g] = "idle"
                        /\ req[g].op # "connect"
                        /\ queue'[g] = queue[g] \cup reply[g].inputs
        BY <2>4 DEF Returned
      <3> QED  BY <3>1 DEF InTransit, DataOf
    <2>5. CASE CallFailed(h) \/ DialTimeout(h)
      <3>1. /\ conn' = conn /\ req' = req /\ id' = id /\ reply' = reply /\ queue' = queue
            /\ g # h => status'[g] = status[g]
            /\ g = h => /\ status'[g] \in {"dead", "dial", "idle"}
                        /\ status'[g] = "idle" =>
                             status[g] = "failed" /\ req[g].op = "newCrasher"
        BY <2>5 DEF CallFailed, DialTimeout
      <3> QED  BY <3>1 DEF InTransit
    <2> QED  BY <2>1, <2>2, <2>3, <2>4, <2>5 DEF HubStep
  <1> QED  BY <1>2

\* What one hub does by itself takes nothing from what reaches it.
LEMMA HubReach ==
  ASSUME TypeOK, TypeOK', CallState, IdsIssued, UniqueIds, InputsReachHubs,
         NEW h \in Hubs, HubStep(h) \/ DialTimeout(h)
  PROVE  IdsIssued' /\ UniqueIds' /\ InputsReachHubs'
  <1>1. late' = late /\ idSeq' = idSeq /\ Workers' = Workers /\ corpus' = corpus
    BY DEF HubStep, Dial, StartSync, Connected, Returned, CallFailed, DialTimeout,
           coordVars, histVars, Workers
  <1>2. \A g \in Hubs :
          g \in LiveHubs' => /\ g \in LiveHubs /\ CurrentId(g)' = CurrentId(g)
                             /\ InTransit(g) \subseteq InTransit(g)'
    BY HubLive
  <1>3. \A g \in LiveHubs' : g \in Hubs
    BY DEF LiveHubs
  <1>4. IdsIssued' /\ UniqueIds'
    BY <1>1, <1>2, <1>3, NobodyNew
  <1>5. InputsReachHubs'
    BY <1>1, <1>2, <1>3, SameReach
  <1> QED  BY <1>4, <1>5

\* Nor do the worker-side findings of a hub.
LEMMA DiscoverLive ==
  ASSUME TypeOK, NEW h \in Hubs, Discover(h) \/ TriageStep(h), NEW g \in Hubs
  PROVE  g \in LiveHubs' => /\ g \in LiveHubs /\ CurrentId(g)' = CurrentId(g)
                            /\ InTransit(g) \subseteq InTransit(g)'
  <1>1. /\ UNCHANGED coordVars /\ UNCHANGED <<conn, id, reply, late>>
        /\ idSeq' = idSeq /\ Workers' = Workers /\ pending' = pending
        /\ corpus' = corpus
    BY DEF Discover, TriageStep, Triage, AcceptTriaged, AcceptMine, ReportCrash,
           WorkerStats, coordVars, histVars, Workers
  <1>2. \A k \in Hubs :
          \/ status'[k] = status[k] /\ req'[k] = req[k]
          \/ /\ status[k] = "idle" /\ status'[k] \in {"sent", "failed"}
             /\ req'[k].op # "connect"
    <2>1. CASE \/ \E x \in Inputs : AcceptMine(h, x)
               \/ \E c \in CrashInputs : ReportCrash(h, c)
      BY <2>1 DEF AcceptMine, ReportCrash, Call, NewInputReq, NewCrasherReq,
                  TypeOK, HubTypeOK
    <2>2. CASE \/ \E x \in Data : AcceptTriaged(h, x)
               \/ WorkerStats(h) \/ TriageStep(h)
      BY <2>2 DEF AcceptTriaged, WorkerStats, TriageStep, Triage
    <2> QED  BY <2>1, <2>2 DEF Discover
  <1>3. \A k \in Hubs : triaged[k] \cup DataOf(queue[k])
                           \subseteq triaged'[k] \cup DataOf(queue'[k])
    <2>1. CASE Discover(h)
      BY <2>1 DEF Discover, AcceptTriaged, AcceptMine, ReportCrash, WorkerStats, histVars
    <2>2. CASE TriageStep(h)
      <3>1. PICK inp \in queue[h] : Triage(h, inp)
        BY <2>2 DEF TriageStep
      <3>2. \A k \in Hubs : /\ triaged[k] \subseteq triaged'[k]
                            /\ k # h => queue'[k] = queue[k]
        BY <3>1 DEF Triage, TypeOK, HubTypeOK
      <3>3. /\ queue'[h] = queue[h] \ {inp} /\ inp.data \in triaged'[h]
        BY <3>1 DEF Triage, TypeOK, HubTypeOK
      <3> QED  BY <3>2, <3>3 DEF DataOf
    <2> QED  BY <2>1, <2>2
  <1>4. \A k \in Hubs : Registering(k) \/ Registering(k)' =>
          triaged[k] \subseteq triaged'[k]
    BY DEF Discover, TriageStep, Triage, AcceptTriaged, AcceptMine, ReportCrash,
           WorkerStats, histVars, TypeOK, HubTypeOK
  <1>5. g \in LiveHubs' => g \in LiveHubs
    BY <1>1, <1>2 DEF LiveHubs, Registered, Registering
  <1>6. Registering(g)' <=> Registering(g)
    BY <1>1, <1>2 DEF Registering
  <1>7. CurrentId(g)' = CurrentId(g)
    BY <1>1, <1>6 DEF CurrentId
  <1>8. InTransit(g) \subseteq InTransit(g)'
    BY <1>1, <1>3, <1>4, <1>6, <1>7 DEF InTransit
  <1> QED  BY <1>5, <1>7, <1>8

\* Inputs found and triaged by a hub do not touch what is on its way to hubs.
LEMMA DiscoverReach ==
  ASSUME TypeOK, TypeOK', CallState, IdsIssued, UniqueIds, InputsReachHubs,
         NEW h \in Hubs, Discover(h) \/ TriageStep(h)
  PROVE  IdsIssued' /\ UniqueIds' /\ InputsReachHubs'
  <1>1. late' = late /\ idSeq' = idSeq /\ Workers' = Workers /\ corpus' = corpus
    BY DEF Discover, TriageStep, Triage, AcceptTriaged, AcceptMine, ReportCrash,
           WorkerStats, coordVars, histVars, Workers
  <1>2. \A g \in Hubs :
          g \in LiveHubs' => /\ g \in LiveHubs /\ CurrentId(g)' = CurrentId(g)
                             /\ InTransit(g) \subseteq InTransit(g)'
    BY DiscoverLive
  <1>3. \A g \in LiveHubs' : g \in Hubs
    BY DEF LiveHubs
  <1>4. IdsIssued' /\ UniqueIds'
    BY <1>1, <1>2, <1>3, NobodyNew
  <1>5. InputsReachHubs'
    BY <1>1, <1>2, <1>3, SameReach
  <1> QED  BY <1>4, <1>5

\* Connect registers one new id; the caller, if it still listens, owns it.
LEMMA ConnectReach ==
  ASSUME TypeOK, TypeOK', CallState, IdsIssued, UniqueIds, InputsReachHubs,
         Connect,
         \/ \E h \in Hubs : HandleCall(h) /\ req[h].op = "connect"
         \/ \E r \in late : HandleLate(r) /\ r.op = "connect"
  PROVE  IdsIssued' /\ UniqueIds' /\ InputsReachHubs'
  <1>1. /\ idSeq' = idSeq + 1 /\ idSeq \in Nat
        /\ Workers' = Workers \cup {idSeq'}
        /\ \A w \in Workers : w \in 1 .. idSeq /\ pending'[w] = pending[w]
        /\ corpus' = corpus
    BY DEF Connect, Workers, IdsIssued, TypeOK, CoordTypeOK
  <1>2. UNCHANGED <<conn, id, req, queue, triaged>> /\ late' \subseteq late
    BY DEF HandleCall, HandleLate
  <1>3. ASSUME NEW g \in Hubs, status'[g] = status[g], reply'[g] = reply[g]
        PROVE  /\ g \in LiveHubs' <=> g \in LiveHubs
               /\ CurrentId(g)' = CurrentId(g)
               /\ g \in LiveHubs /\ CurrentId(g) \in Workers'
                    => CurrentId(g) \in Workers /\ InTransit(g) = InTransit(g)'
    <2>1. /\ g \in LiveHubs' <=> g \in LiveHubs
          /\ CurrentId(g)' = CurrentId(g)
          /\ Registering(g)' <=> Registering(g)
      BY <1>2, <1>3 DEF LiveHubs, CurrentId, Registered, Registering
    <2>2. g \in LiveHubs => CurrentId(g) \in 1 .. idSeq
      BY DEF IdsIssued
    <2>3. g \in LiveHubs /\ CurrentId(g) \in Workers' => CurrentId(g) \in Workers
      BY <1>1, <2>2
    <2> QED  BY <1>1, <1>2, <1>3, <2>1, <2>3 DEF InTransit
  <1>4. CASE \E r \in late : HandleLate(r) /\ r.op = "connect"
    <2>1. status' = status /\ reply' = reply
      BY <1>4 DEF HandleLate
    <2>2. LiveHubs' = LiveHubs /\ LiveIds' = LiveIds
      BY <1>3, <2>1 DEF LiveHubs, LiveIds
    <2>3. IdsIssued' /\ UniqueIds'
      <3>1. \A g \in LiveHubs' : g \in LiveHubs /\ CurrentId(g)' = CurrentId(g)
        BY <1>3, <2>1, <2>2, LiveHubsDef
      <3>2. Workers' \subseteq 1 .. idSeq'
        BY <1>1
      <3>3. \A g \in LiveHubs' : CurrentId(g)' \in 1 .. idSeq'
        BY <1>1, <3>1 DEF IdsIssued
      <3>4. \A r \in late' : r.op = "sync" => r.id <= idSeq' /\ r.id \notin LiveIds'
        BY <1>1, <1>2, <2>2, RequestFields DEF IdsIssued, TypeOK, HubTypeOK
      <3>5. UniqueIds'
        BY <3>1 DEF UniqueIds
      <3> QED  BY <3>2, <3>3, <3>4, <3>5 DEF IdsIssued
    <2> QED  BY <1>1, <1>3, <2>1, <2>2, <2>3, LiveHubsDef DEF InputsReachHubs
  <1>5. ASSUME NEW h \in Hubs, HandleCall(h), req[h].op = "connect"
        PROVE  IdsIssued' /\ UniqueIds' /\ InputsReachHubs'
    <2>1. /\ conn[h] /\ status'[h] = "done"
          /\ reply'[h] = [id |-> idSeq + 1, inputs |-> ConnectReply]
          /\ \A g \in Hubs : g # h => status'[g] = status[g] /\ reply'[g] = reply[g]
      BY <1>5 DEF HandleCall, Outcome, Answer, CallState, TypeOK, HubTypeOK
    <2>2. /\ Registering(h)' /\ h \in LiveHubs' /\ CurrentId(h)' = idSeq'
      BY <1>1, <1>2, <1>5, <2>1 DEF Registering, LiveHubs, CurrentId
    <2>3. corpus'.m \subseteq InTransit(h)'
      <3>1. corpus.m \subseteq DataOf(ConnectReply)
        <4>1. SUFFICES ASSUME NEW a \in corpus.m
                       PROVE  \E inp \in ConnectReply : inp.data = a
          BY DEF DataOf
        <4>2. [data |-> a, minimized |-> a \notin UserCorpus, smashed |-> TRUE]
                \in ConnectReply
          BY DEF ConnectReply
        <4> QED  BY <4>2
      <3> QED  BY <1>1, <2>1, <3>1 DEF InTransit
    <2>4. \A g \in LiveHubs' : g # h => /\ g \in LiveHubs /\ CurrentId(g)' = CurrentId(g)
                                       /\ CurrentId(g) \in 1 .. idSeq
      BY <1>3, <2>1, LiveHubsDef DEF LiveHubs, IdsIssued
    <2>5. UniqueIds'
      BY <1>1, <2>2, <2>4 DEF UniqueIds
    <2>6. LiveIds' \subseteq LiveIds \cup {idSeq'}
      BY <2>2, <2>4 DEF LiveIds
    <2>7. \A r \in late' : r.op = "sync" => r.id <= idSeq' /\ r.id \notin LiveIds'
      BY <1>1, <1>2, <2>6, RequestFields DEF IdsIssued, TypeOK, HubTypeOK
    <2>8. IdsIssued'
      <3>1. Workers' \subseteq 1 .. idSeq'
        BY <1>1
      <3>2. \A g \in LiveHubs' : CurrentId(g)' \in 1 .. idSeq'
        BY <1>1, <2>2, <2>4
      <3> QED  BY <3>1, <3>2, <2>7 DEF IdsIssued
    <2>9. ASSUME NEW g \in LiveHubs', CurrentId(g)' \in Workers'
          PROVE  corpus'.m \subseteq InTransit(g)'
      <3>1. CASE g = h
        BY <2>3, <3>1
      <3>2. CASE g # h
        BY <1>1, <1>3, <2>1, <2>4, <2>9, <3>2 DEF LiveHubs, InputsReachHubs
      <3> QED  BY <3>1, <3>2
    <2> QED  BY <2>5, <2>8, <2>9 DEF InputsReachHubs
  <1> QED  BY <1>4, <1>5

\* Any other request.  Only a Sync takes inputs from a pending list, and what a
\* Sync takes from a live hub's list is in the reply to that hub.
LEMMA RequestReach ==
  ASSUME TypeOK, TypeOK', CallState, IdsIssued, UniqueIds, InputsReachHubs,
         NEW r \in Request, r.op # "connect", Serve(r),
         \/ r \in late /\ HandleLate(r)
         \/ \E h \in Hubs : r = req[h] /\ HandleCall(h)
  PROVE  IdsIssued' /\ UniqueIds' /\ InputsReachHubs'
  <1>1. /\ UNCHANGED <<conn, id, req, queue, triaged>> /\ late' \subseteq late
    BY DEF HandleCall, HandleLate
  <1>2. /\ idSeq' = idSeq /\ Workers' = Workers
        /\ \/ /\ r.op = "sync" /\ Known(r.id) /\ corpus' = corpus
              /\ pending' = [pending EXCEPT ![r.id] = {}]
           \/ /\ corpus' = corpus /\ pending' = pending
           \/ \E x \in Inputs : /\ corpus'.m = corpus.m \cup {x}
                                /\ pending' = Announce(x, r.id)
    <2>1. CASE r.op = "sync" /\ Sync(r.id, r.n, r.arg)
      BY <2>1 DEF Sync, Workers
    <2>2. ASSUME NEW written \in Files, r.op = "newInput", NewInput(r.id, r.arg, written)
          PROVE  <1>2!:
      <3>1. r.arg \in Inputs
        BY <2>2, RequestFields
      <3>2. CASE Known(r.id) /\ ~has(corpus, r.arg)
        <4>1. /\ corpus'.m = corpus.m \cup {r.arg} /\ pending' = Announce(r.arg, r.id)
          BY <2>2, <3>2 DEF NewInput, add
        <4>2. Workers' = Workers /\ idSeq' = idSeq
          BY <2>2, <4>1 DEF NewInput, Announce, Workers
        <4> QED  BY <3>1, <4>1, <4>2
      <3>3. CASE ~(Known(r.id) /\ ~has(corpus, r.arg))
        BY <2>2, <3>3 DEF NewInput, Workers
      <3> QED  BY <3>2, <3>3
    <2>3. CASE \E written \in Files : NewCrasher(r.arg, written)
      BY <2>3 DEF NewCrasher, Workers
    <2> QED  BY <2>1, <2>2, <2>3 DEF Serve, PlainFiles
  <1>3. ASSUME NEW g \in Hubs
        PROVE  g \in LiveHubs' => g \in LiveHubs /\ CurrentId(g)' = CurrentId(g)
    <2>1. CASE status'[g] = status[g] /\ reply'[g] = reply[g]
      BY <1>1, <2>1 DEF LiveHubs, CurrentId, Registered, Registering
    <2>2. CASE g \in Hubs /\ r = req[g] /\ HandleCall(g)
      <3>1. /\ status[g] = "sent" /\ status'[g] \in {"failed", "running", "done"}
            /\ req[g].op # "connect"
        BY <2>2 DEF HandleCall, Outcome, TypeOK, HubTypeOK
      <3> QED  BY <1>1, <3>1 DEF LiveHubs, CurrentId, Registered, Registering
    <2> QED  BY <2>1, <2>2 DEF HandleCall, HandleLate, TypeOK, HubTypeOK
  <1>4. ASSUME NEW g \in Hubs, g \in LiveHubs, CurrentId(g) \in Workers
        PROVE  corpus'.m \subseteq InTransit(g)'
    <2>1. corpus.m \subseteq InTransit(g)
      BY <1>4 DEF InputsReachHubs
    <2>2. /\ CurrentId(g)' = CurrentId(g)
          /\ Registering(g)' <=> Registering(g)
      <3>1. CASE status'[g] = status[g] /\ reply'[g] = reply[g]
        BY <1>1, <3>1 DEF CurrentId, Registering
      <3>2. CASE r = req[g] /\ HandleCall(g)
        <4>1. status[g] = "sent" /\ req[g].op # "connect"
          BY <3>2 DEF HandleCall
        <4> QED  BY <1>1, <4>1 DEF CurrentId, Registering
      <3> QED  BY <3>1, <3>2 DEF HandleCall, HandleLate, TypeOK, HubTypeOK
    <2>3. DataOf(reply[g].inputs) \subseteq DataOf(reply'[g].inputs)
      <3>1. CASE reply'[g] = reply[g]
        BY <3>1
      <3>2. CASE reply'[g] # reply[g]
        <4>1. reply[g] = NoReply
          BY <3>2 DEF HandleCall, HandleLate, TypeOK, HubTypeOK, CallState
        <4> QED  BY <4>1 DEF NoReply, DataOf
      <3> QED  BY <3>1, <3>2
    <2>4. CASE corpus' = corpus /\ pending' = pending
      BY <1>1, <1>2, <1>4, <2>1, <2>2, <2>3, <2>4 DEF InTransit
    <2>5. CASE \E x \in Inputs : corpus'.m = corpus.m \cup {x} /\ pending' = Announce(x, r.id)
      <3>1. PICK x \in Inputs : corpus'.m = corpus.m \cup {x} /\ pending' = Announce(x, r.id)
        BY <2>5
      <3>2. LET w == CurrentId(g)
            IN  pending'[w] = pending[w] \cup
                  {[data |-> x, minimized |-> TRUE, smashed |-> w # r.id]}
        BY <1>4, <3>1 DEF Announce
      <3>3. DataOf(pending[CurrentId(g)]) \cup {x} \subseteq DataOf(pending'[CurrentId(g)])
        <4>1. DataOf(pending[CurrentId(g)]) \subseteq DataOf(pending'[CurrentId(g)])
          BY <3>2 DEF DataOf
        <4>2. \E inp \in pending'[CurrentId(g)] : inp.data = x
          <5> DEFINE new == [data |-> x, minimized |-> TRUE, smashed |-> CurrentId(g) # r.id]
          <5>1. new \in pending'[CurrentId(g)]
            BY <3>2
          <5>2. new.data = x
            OBVIOUS
          <5> QED  BY <5>1, <5>2
        <4> QED  BY <4>1, <4>2 DEF DataOf
      <3> QED  BY <1>1, <1>2, <1>4, <2>1, <2>2, <2>3, <3>1, <3>3 DEF InTransit
    <2>6. CASE /\ r.op = "sync" /\ Known(r.id) /\ corpus' = corpus
               /\ pending' = [pending EXCEPT ![r.id] = {}]
      <3>1. CASE CurrentId(g) # r.id
        <4>1. pending'[CurrentId(g)] = pending[CurrentId(g)]
          BY <1>4, <2>6, <3>1 DEF TypeOK, CoordTypeOK
        <4> QED  BY <1>1, <1>2, <1>4, <2>1, <2>2, <2>3, <2>6, <4>1 DEF InTransit
      <3>2. CASE CurrentId(g) = r.id
        <4>1. r \notin late
          BY <1>4, <2>6, <3>2 DEF IdsIssued, LiveIds
        <4>2. PICK h \in Hubs : r = req[h] /\ HandleCall(h)
          BY <4>1
        <4>3. h \in LiveHubs /\ CurrentId(h) = r.id
          BY <2>6, <4>2 DEF HandleCall, CallState, LiveHubs, Registered, Registering, CurrentId
        <4>4. h = g
          BY <1>4, <3>2, <4>3 DEF UniqueIds
        <4>5. reply'[g].inputs = pending[CurrentId(g)]
          BY <2>6, <3>2, <4>2, <4>4
             DEF HandleCall, Answer, SyncReply, TypeOK, HubTypeOK
        <4>6. ~Registering(g)
          BY <4>2, <4>4 DEF HandleCall, Registering
        <4>7. DataOf(reply[g].inputs) = {}
          BY <4>2, <4>4 DEF HandleCall, CallState, NoReply, DataOf
        <4> QED  BY <1>1, <1>2, <1>4, <2>1, <2>2, <2>6, <4>5, <4>6, <4>7 DEF InTransit
      <3> QED  BY <3>1, <3>2
    <2> QED  BY <1>2, <2>4, <2>5, <2>6
  <1>5. \A g \in LiveHubs' : g \in Hubs
    BY DEF LiveHubs
  <1>6. IdsIssued' /\ UniqueIds'
    BY <1>1, <1>2, <1>3, <1>5, NobodyNew
  <1>7. InputsReachHubs'
    BY <1>2, <1>3, <1>4, <1>5 DEF InputsReachHubs
  <1> QED  BY <1>6, <1>7

\* The handlers of the coordinator other than Connect preserve ReachInv.
LEMMA ServingReach ==
  ASSUME TypeOK, TypeOK', CallState, IdsIssued, UniqueIds, InputsReachHubs,
         Serving
  PROVE  IdsIssued' /\ UniqueIds' /\ InputsReachHubs'
  <1>1. ASSUME NEW r \in Request, Serve(r),
               \/ r \in late /\ HandleLate(r)
               \/ \E h \in Hubs : r = req[h] /\ HandleCall(h)
        PROVE  IdsIssued' /\ UniqueIds' /\ InputsReachHubs'
    <2>1. CASE r.op = "connect"
      <3>1. Connect
        BY <1>1, <2>1 DEF Serve
      <3> QED  BY <1>1, <2>1, <3>1, ConnectReach
    <2>2. CASE r.op # "connect"
      BY <1>1, <2>2, RequestReach
    <2> QED  BY <2>1, <2>2
  <1>2. ASSUME NEW h \in Hubs, HandleCall(h)
        PROVE  IdsIssued' /\ UniqueIds' /\ InputsReachHubs'
    BY <1>1, <1>2 DEF HandleCall, TypeOK, HubTypeOK
  <1>3. ASSUME NEW r \in late, HandleLate(r)
        PROVE  IdsIssued' /\ UniqueIds' /\ InputsReachHubs'
    BY <1>1, <1>3 DEF HandleLate, TypeOK, HubTypeOK
  <1>4. CASE HandleCrasher
    <2>1. /\ UNCHANGED <<idSeq, pending, corpus, conn, id, req, reply, queue, late, triaged>>
          /\ Workers' = Workers
      BY <1>4 DEF HandleCrasher, SaveCrasher, DescribeCrasher, Workers
    <2>2. \A g \in Hubs : \/ status'[g] = status[g]
                         \/ (status[g] = "running" /\ status'[g] = "done")
      BY <1>4 DEF HandleCrasher, CrasherDone
    <2>3. ASSUME NEW g \in Hubs
          PROVE  g \in LiveHubs' => /\ g \in LiveHubs /\ CurrentId(g)' = CurrentId(g)
                                    /\ InTransit(g) \subseteq InTransit(g)'
      <3>1. CASE status'[g] = status[g]
        BY <2>1, <3>1 DEF LiveHubs, CurrentId, InTransit, Registered, Registering
      <3>2. CASE status[g] = "running" /\ status'[g] = "done" /\ req[g].op # "connect"
        BY <2>1, <3>2 DEF LiveHubs, CurrentId, InTransit, Registered, Registering
      <3> QED  BY <2>2, <3>1, <3>2 DEF CallState
    <2>4. \A g \in LiveHubs' : g \in Hubs
      BY DEF LiveHubs
    <2> QED  BY <2>1, <2>3, <2>4, NobodyNew, SameReach
  <1> QED  BY <1>2, <1>3, <1>4 DEF Serving

\* Faults, crashes, restarts and removals preserve ReachInv.
LEMMA DisturbanceReach ==
  ASSUME TypeOK, TypeOK', CallState, IdsIssued, UniqueIds, InputsReachHubs,
         Disturbance
  PROVE  IdsIssued' /\ UniqueIds' /\ InputsReachHubs'
  <1>1. ASSUME NEW h \in Hubs, DialTimeout(h)
        PROVE  IdsIssued' /\ UniqueIds' /\ InputsReachHubs'
    BY <1>1, HubReach
  <1>2. ASSUME NEW h \in Hubs, NEW keep \in BOOLEAN, LoseConnection(h, keep)
        PROVE  IdsIssued' /\ UniqueIds' /\ InputsReachHubs'
    <2>1. /\ UNCHANGED <<idSeq, pending, corpus, id, req, queue, triaged>>
          /\ Workers' = Workers
          /\ ~conn'[h] /\ \A g \in Hubs : g # h => conn'[g] = conn[g]
      BY <1>2 DEF LoseConnection, coordVars, Workers, TypeOK, HubTypeOK
    <2>2. /\ \A g \in Hubs : g # h => status'[g] = status[g] /\ reply'[g] = reply[g]
          /\ \A r \in late' : r \notin late => r = req[h] /\ status[h] = "sent" /\ conn[h]
      BY <1>2 DEF LoseConnection, TypeOK, HubTypeOK
    <2>3. ASSUME NEW g \in Hubs
          PROVE  g \in LiveHubs' => /\ g # h /\ g \in LiveHubs /\ CurrentId(g)' = CurrentId(g)
                                    /\ InTransit(g) \subseteq InTransit(g)'
      <3>1. CASE g = h
        BY <2>1, <3>1 DEF LiveHubs, Registered, Registering
      <3>2. CASE g # h
        BY <2>1, <2>2, <3>2 DEF LiveHubs, CurrentId, InTransit, Registered, Registering
      <3> QED  BY <3>1, <3>2
    <2>4. \A g \in LiveHubs' : g \in Hubs
      BY DEF LiveHubs
    <2>5. ASSUME NEW r \in late', r \notin late, r.op = "sync"
          PROVE  r.id <= idSeq /\ r.id \notin LiveIds'
      <3>1. /\ r = req[h] /\ status[h] = "sent" /\ conn[h]
        BY <2>2, <2>5
      <3>2. h \in LiveHubs /\ CurrentId(h) = r.id
        BY <2>5, <3>1 DEF CallState, LiveHubs, CurrentId, Registered, Registering
      <3>3. \A g \in LiveHubs' : CurrentId(g)' # r.id
        BY <2>3, <2>4, <3>2 DEF UniqueIds
      <3>4. r.id \in 1 .. idSeq
        BY <3>2 DEF IdsIssued
      <3> QED  BY <3>3, <3>4 DEF LiveIds, TypeOK, CoordTypeOK
    <2>6. IdsIssued' /\ UniqueIds'
      BY <2>1, <2>3, <2>4, <2>5, NobodyNew
    <2>7. InputsReachHubs'
      BY <2>1, <2>3, <2>4, SameReach
    <2> QED  BY <2>6, <2>7
  <1>3. ASSUME NEW w \in Workers, Nuke(w)
        PROVE  IdsIssued' /\ UniqueIds' /\ InputsReachHubs'
    <2>1. /\ UNCHANGED <<idSeq, corpus, conn, id, status, req, reply, queue, late, triaged>>
          /\ Workers' = Workers \ {w}
          /\ \A v \in Workers' : pending'[v] = pending[v]
      BY <1>3 DEF Nuke, NukeDead, hubVars, Workers
    <2>2. ASSUME NEW g \in Hubs
          PROVE  /\ g \in LiveHubs' => g \in LiveHubs /\ CurrentId(g)' = CurrentId(g)
                 /\ CurrentId(g) \in Workers' => InTransit(g)' = InTransit(g)
      BY <2>1 DEF LiveHubs, CurrentId, InTransit, Registered, Registering
    <2>3. \A g \in LiveHubs' : g \in Hubs
      BY DEF LiveHubs
    <2>4. IdsIssued' /\ UniqueIds'
      BY <2>1, <2>2, <2>3, NobodyNew
    <2>5. InputsReachHubs'
      BY <2>1, <2>2, <2>3 DEF InputsReachHubs
    <2> QED  BY <2>4, <2>5
  <1>4. ASSUME NEW lost \in SUBSET Hubs, CoordinatorCrash(lost) \/ TornCrash(lost)
        PROVE  IdsIssued' /\ UniqueIds' /\ InputsReachHubs'
    <2>1. LiveHubs' = {} /\ late' = {} /\ Workers' = {}
      BY <1>4 DEF CoordinatorCrash, TornCrash, Crash, CrashLeaving, DropCalls,
                  LiveHubs, Registered, Registering, Workers
    <2> QED  BY <2>1 DEF IdsIssued, UniqueIds, InputsReachHubs
  <1> QED  BY <1>1, <1>2, <1>3, <1>4 DEF Disturbance

\* ReachInv is inductive.
LEMMA ReachStep == ReachInv /\ [Next]_vars => ReachInv'
  <1> SUFFICES ASSUME ReachInv, [Next]_vars PROVE ReachInv'
    OBVIOUS
  <1> USE DEF ReachInv
  <1>1. TypeOK'
    BY NextType
  <1>2. CASE UNCHANGED vars
    BY <1>1, <1>2
       DEF vars, coordVars, hubVars, histVars, CallState, IdsIssued, UniqueIds,
           InputsReachHubs, InTransit, LiveIds, LiveHubs, CurrentId, Registered,
           Registering, Workers
  <1>3. CASE CoordinatorRestart
    <2>1. LiveHubs = {} /\ LiveHubs' = {}
      BY <1>3 DEF CoordinatorRestart, Restart, hubVars, CallState, LiveHubs,
                  Registered, Registering
    <2>2. CallState'
      BY <1>3, CallStateStep DEF Next
    <2>3. idSeq' = idSeq /\ Workers' = Workers /\ late' = late
      BY <1>3 DEF CoordinatorRestart, Restart, hubVars, Workers
    <2>4. IdsIssued' /\ UniqueIds' /\ InputsReachHubs'
      BY <2>1, <2>3 DEF IdsIssued, UniqueIds, InputsReachHubs, LiveIds
    <2> QED  BY <1>1, <2>2, <2>4
  <1>4. CASE Next /\ ~CoordinatorRestart
    <2>1. CallState'
      BY <1>4, CallStateStep
    <2>2. CASE AllHubsDead
      BY <1>2, <2>2 DEF AllHubsDead
    <2> QED  BY <1>1, <1>4, <2>1, <2>2, HubReach, DiscoverReach, ServingReach,
                DisturbanceReach
             DEF Next
  <1> QED  BY <1>2, <1>3, <1>4

\* ReachInv holds before anybody has connected.
LEMMA ReachInit == Init => ReachInv
  <1> SUFFICES ASSUME Init PROVE ReachInv
    OBVIOUS
  <1>1. LiveHubs = {}
    BY DEF Init, InitWith, LiveHubs, Registered, Registering
  <1>2. CallState
    BY DEF Init, InitWith, CallState
  <1>3. Workers = {} /\ late = {}
    BY DEF Init, InitWith, CoordInit, Workers
  <1> QED  BY <1>1, <1>2, <1>3, InitType
           DEF ReachInv, IdsIssued, UniqueIds, InputsReachHubs

\* Every input of the corpus reaches every registered hub, for any number of
\* hubs and inputs and through any sequence of lost connections, late requests,
\* nukes, crashes and restarts; and hubs never share an id.
THEOREM CorpusReachesHubs == Spec => [](InputsReachHubs /\ UniqueIds)
  <1>1. ReachInv => InputsReachHubs /\ UniqueIds
    BY DEF ReachInv
  <1> QED  BY <1>1, ReachInit, ReachStep, PTL DEF Spec

-----------------------------------------------------------------------------
(* Safety: one crasher per suppression.                                    *)

\* DedupInv holds before anybody has connected.
LEMMA DedupInit == Init => DedupInv
  <1> SUFFICES ASSUME Init PROVE DedupInv
    OBVIOUS
  <1>1. /\ crashers.disk = {} /\ suppressions.disk = suppressions.m
        /\ handling.phase = "none"
    BY DEF Init, InitWith, CoordInit, newPersistentSet, NoFiles, Idle
  <1> QED  BY <1>1, InitType DEF DedupInv, SuppressionFirst, OneCrasherPerSuppression

\* Steps that touch neither crashers nor suppressions.
LEMMA DedupSame ==
  ASSUME DedupInv, TypeOK', diskFaults' = 0 => diskFaults = 0,
         UNCHANGED <<crashers, suppressions, handling>>
  PROVE  DedupInv'
  BY DEF DedupInv, SuppressionFirst, OneCrasherPerSuppression, SavedFor

\* NewCrasher registers the suppression first.
LEMMA DedupNewCrasher ==
  ASSUME DedupInv, TypeOK', NEW c \in CrashInputs, NEW written \in Files, NEW writes,
         Written(written, writes), NewCrasher(c, written)
  PROVE  DedupInv'
  <1> SUFFICES ASSUME ~Dup, diskFaults' = 0
               PROVE  SuppressionFirst' /\ OneCrasherPerSuppression'
    BY DEF DedupInv, SuppressionFirst, OneCrasherPerSuppression
  <1>1. Whole(written) /\ diskFaults = 0 /\ crashers' = crashers
    BY DEF Written, NewCrasher, DedupInv, TypeOK, HubTypeOK
  <1>2. OneCrasherPerSuppression'
    BY <1>1 DEF DedupInv, OneCrasherPerSuppression
  <1>3. CASE Suppressed(c)
    BY <1>1, <1>2, <1>3 DEF NewCrasher, DedupInv, SuppressionFirst, SavedFor
  <1>4. CASE ~Suppressed(c)
    <2>1. /\ suppressions'.m = suppressions.m \cup {SuppOf[c]}
          /\ suppressions'.disk = suppressions.disk \cup {SuppOf[c]}
          /\ handling'.crash = c
          /\ SuppOf[c] \notin suppressions.m
      BY <1>1, <1>4 DEF NewCrasher, add, Suppressed, has
    <2>2. SavedFor(SuppOf[c]) = {}
      BY <1>1, <2>1 DEF DedupInv, SuppressionFirst, SavedFor
    <2>3. SavedFor(SuppOf[handling.crash])' = {}
      BY <1>1, <2>1, <2>2 DEF SavedFor
    <2> QED  BY <1>1, <1>2, <2>1, <2>3 DEF DedupInv, SuppressionFirst
  <1> QED  BY <1>3, <1>4

\* Then it saves the crasher, the only one with that suppression.
LEMMA DedupSaveCrasher ==
  ASSUME DedupInv, TypeOK', NEW written \in Files, NEW writes,
         Written(written, writes),
         SaveCrasher(written) \/ DescribeCrasher(written)
  PROVE  DedupInv'
  <1> SUFFICES ASSUME ~Dup, diskFaults' = 0
               PROVE  SuppressionFirst' /\ OneCrasherPerSuppression'
    BY DEF DedupInv, SuppressionFirst, OneCrasherPerSuppression
  <1>1. Whole(written) /\ diskFaults = 0
    BY DEF Written, DedupInv, TypeOK, HubTypeOK
  <1>2. suppressions' = suppressions /\ handling'.phase # "save"
    BY DEF SaveCrasher, DescribeCrasher, Idle, DedupInv, TypeOK, CoordTypeOK
  <1>3. \/ crashers' = crashers
        \/ /\ handling.phase = "save"
           /\ crashers'.disk = crashers.disk \cup {handling.crash}
    BY <1>1 DEF SaveCrasher, DescribeCrasher, add
  <1>4. \A c \in crashers'.disk \cap CrashInputs : SuppOf[c] \in suppressions'.disk
    BY <1>1, <1>2, <1>3 DEF DedupInv, SuppressionFirst
  <1>5. OneCrasherPerSuppression'
    BY <1>1, <1>3 DEF DedupInv, SuppressionFirst, OneCrasherPerSuppression, SavedFor
  <1> QED  BY <1>1, <1>2, <1>4, <1>5 DEF DedupInv, SuppressionFirst

\* A crash leaves every file but the one being written.
LEMMA DedupCrash ==
  ASSUME DedupInv, TypeOK', NEW lost \in SUBSET Hubs,
         CoordinatorCrash(lost) \/ TornCrash(lost)
  PROVE  DedupInv'
  <1>t. TypeOK
    BY DEF DedupInv
  <1>1. PICK a, b, c : CrashLeaving(a, b, c) /\ TornSets(a, b, c)
    BY <1>t, CrashLeaves
  <1>2. /\ crashers'.disk = crashers.disk /\ suppressions'.disk = suppressions.disk
        /\ suppressions'.disk \subseteq suppressions'.m /\ handling'.phase = "none"
    BY <1>1 DEF CrashLeaving, TornSets, newPersistentSet, Idle
  <1>3. diskFaults' = diskFaults
    BY DEF CoordinatorCrash, TornCrash, DropCalls
  <1> QED  BY <1>2, <1>3 DEF DedupInv, SuppressionFirst, OneCrasherPerSuppression

\* DedupInv is inductive.
LEMMA DedupStep == DedupInv /\ [Next]_vars => DedupInv'
  <1> SUFFICES ASSUME DedupInv, [Next]_vars PROVE DedupInv'
    OBVIOUS
  <1>1. TypeOK /\ TypeOK'
    BY NextType DEF DedupInv
  <1>2. ASSUME NEW r \in Request, Serve(r) PROVE DedupInv'
    <2>1. CASE /\ r.op = "newCrasher"
               /\ \E written \in PlainFiles :
                    Written(written, WritesSuppression(r)) /\ NewCrasher(r.arg, written)
      BY <1>1, <2>1, RequestFields, DedupNewCrasher DEF PlainFiles
    <2>2. CASE \/ Connect /\ UNCHANGED diskFaults
               \/ Sync(r.id, r.n, r.arg) /\ UNCHANGED diskFaults
      BY <1>1, <2>2, DedupSame DEF Connect, Sync
    <2>3. ASSUME NEW written \in Files, NEW writes,
                 Written(written, writes), NewInput(r.id, r.arg, written)
          PROVE  DedupInv'
      BY <1>1, <2>3, DedupSame DEF NewInput, Written, TypeOK, HubTypeOK
    <2> QED  BY <1>2, <2>1, <2>2, <2>3 DEF Serve
  <1>3. CASE Serving
    <2>1. CASE HandleCrasher
      BY <1>1, <2>1, DedupSaveCrasher DEF HandleCrasher, PlainFiles
    <2> QED  BY <1>1, <1>2, <1>3, <2>1 DEF Serving, HandleCall, HandleLate, TypeOK, HubTypeOK
  <1>4. ASSUME NEW lost \in SUBSET Hubs, CoordinatorCrash(lost) \/ TornCrash(lost)
        PROVE  DedupInv'
    BY <1>1, <1>4, DedupCrash
  <1>5. ASSUME UNCHANGED <<crashers, suppressions, handling, diskFaults>>
        PROVE  DedupInv'
    BY <1>1, <1>5, DedupSame
  <1>6. CASE \E h \in Hubs : HubStep(h) \/ Discover(h) \/ TriageStep(h) \/ DialTimeout(h)
    BY <1>5, <1>6
       DEF HubStep, Dial, StartSync, Connected, Returned, CallFailed, DialTimeout,
           Discover, AcceptTriaged, AcceptMine, ReportCrash, WorkerStats,
           TriageStep, Triage, coordVars, histVars
  <1>7. CASE \/ \E h \in Hubs, keep \in BOOLEAN : LoseConnection(h, keep)
             \/ \E w \in Workers : Nuke(w)
    BY <1>5, <1>7 DEF LoseConnection, Nuke, NukeDead, coordVars
  <1>8. CASE CoordinatorRestart
    BY <1>5, <1>8 DEF CoordinatorRestart, Restart, histVars
  <1>9. CASE AllHubsDead \/ UNCHANGED vars
    BY <1>5, <1>9 DEF AllHubsDead, vars, coordVars, histVars
  <1> QED  BY <1>3, <1>4, <1>6, <1>7, <1>8, <1>9 DEF Next, Disturbance

\* NewCrasher writes the suppression before the crasher, so no crash of the
\* coordinator can make it keep two crashers of one suppression.
THEOREM CrashersDeduplicated == Spec => []OneCrasherPerSuppression
  <1>1. DedupInv => OneCrasherPerSuppression
    BY DEF DedupInv
  <1> QED  BY <1>1, DedupInit, DedupStep, PTL DEF Spec

-----------------------------------------------------------------------------
(* Safety: an input that was accepted without error is on disk.            *)

\* No request takes a file away; with every write done, memory stays on disk.
LEMMA ServeKeepsCorpus ==
  ASSUME TypeOK, CorpusOnDisk, NEW r \in Request, Serve(r)
  PROVE  /\ corpus.disk \subseteq corpus'.disk /\ CorpusOnDisk'
         /\ diskFaults' = 0 => diskFaults = 0
         /\ diskFaults' = 0 /\ r.op = "newInput" /\ Known(r.id) => r.arg \in corpus'.disk
  <1>1. ASSUME NEW written \in Files, NEW writes,
               Written(written, writes), NewInput(r.id, r.arg, written),
               r.op = "newInput"
        PROVE  /\ corpus.disk \subseteq corpus'.disk /\ CorpusOnDisk'
               /\ diskFaults' = 0 => diskFaults = 0
               /\ diskFaults' = 0 /\ Known(r.id) => r.arg \in corpus'.disk
    <2>0. r.arg # EmptyFile
      BY <1>1, RequestFields, CoordinatorAssumption DEF CoordinatorAssumption
    <2>1. diskFaults' = 0 => Whole(written) /\ diskFaults = 0
      BY <1>1 DEF Written, TypeOK, HubTypeOK
    <2>2. CASE Known(r.id) /\ ~has(corpus, r.arg)
      <3>1. /\ corpus'.m = corpus.m \cup {r.arg}
            /\ corpus'.disk = IF Whole(written) THEN corpus.disk \cup {r.arg} ELSE corpus.disk
        BY <1>1, <2>2 DEF NewInput, add
      <3> QED  BY <2>1, <3>1 DEF CorpusOnDisk
    <2>3. CASE ~(Known(r.id) /\ ~has(corpus, r.arg))
      BY <1>1, <2>0, <2>1, <2>3 DEF NewInput, has, CorpusOnDisk
    <2> QED  BY <2>2, <2>3
  <1>2. ASSUME NEW written \in Files, NEW writes,
               Written(written, writes), NewCrasher(r.arg, written)
        PROVE  UNCHANGED corpus /\ (diskFaults' = 0 => diskFaults = 0)
    BY <1>2 DEF NewCrasher, Written, TypeOK, HubTypeOK
  <1>3. CASE r.op # "newInput"
    <2>1. UNCHANGED corpus /\ (diskFaults' = 0 => diskFaults = 0)
      BY <1>2, <1>3 DEF Serve, Connect, Sync, PlainFiles
    <2> QED  BY <1>3, <2>1 DEF CorpusOnDisk
  <1> QED  BY <1>1, <1>3 DEF Serve

\* Nor does a crash, whatever file it leaves torn: the coordinator will read its whole
\* files, and an empty input if there are torn ones.
LEMMA CrashKeepsCorpus ==
  ASSUME TypeOK, NEW lost \in SUBSET Hubs, CoordinatorCrash(lost) \/ TornCrash(lost)
  PROVE  /\ corpus'.disk = corpus.disk /\ corpus'.m \in {corpus.disk, corpus.disk \cup {EmptyFile}}
         /\ newPersistentSet(corpus') = corpus'
         /\ UNCHANGED <<diskFaults, req>>
         /\ \A h \in Hubs : status'[h] = "done" => status[h] = "done"
  <1>1. UNCHANGED <<diskFaults, req>> /\ \A h \in Hubs : status'[h] = "done" => status[h] = "done"
    BY DEF CoordinatorCrash, TornCrash, DropCalls
  <1>2. PICK a, b, c : CrashLeaving(a, b, c) /\ TornSets(a, b, c)
    BY CrashLeaves
  <1>3. corpus' = newPersistentSet(a) /\ a.disk = corpus.disk
    BY <1>2 DEF CrashLeaving, TornSets
  <1>4. corpus'.disk = corpus.disk /\ newPersistentSet(corpus') = corpus'
    BY <1>3 DEF newPersistentSet
  <1>5. {EmptyFile : d \in a.torn} \in {{}, {EmptyFile}}
    OBVIOUS
  <1>6. corpus'.m = corpus.disk \cup {EmptyFile : d \in a.torn}
    BY <1>3 DEF newPersistentSet
  <1> QED  BY <1>1, <1>4, <1>5, <1>6

\* Nor does a restart, which may add the empty input.
LEMMA RestartKeepsCorpus ==
  ASSUME CoordinatorRestart
  PROVE  /\ corpus.disk \subseteq corpus'.disk /\ corpus'.disk \subseteq corpus'.m
         /\ corpus'.m \ {EmptyFile} \subseteq corpus'.disk
         /\ corpus.disk # {} => corpus' = newPersistentSet(corpus)
  <1>1. corpus' = LoadCorpus(corpus)
    BY DEF CoordinatorRestart, Restart
  <1>2. CASE corpus.disk = {} /\ corpus.torn = {}
    BY <1>1, <1>2 DEF LoadCorpus, newPersistentSet, NoFiles
  <1>3. CASE ~(corpus.disk = {} /\ corpus.torn = {})
    BY <1>1, <1>3 DEF LoadCorpus, newPersistentSet
  <1> QED  BY <1>2, <1>3

\* AckedInv is inductive next to the call states.
LEMMA AckedStep == AckedInv /\ CallState /\ TypeOK' /\ [Next]_vars => AckedInv'
  <1> SUFFICES ASSUME AckedInv, CallState, TypeOK', [Next]_vars PROVE AckedInv'
    OBVIOUS
  <1>1. TypeOK /\ CorpusOnDisk
    BY DEF AckedInv
  <1>2. ASSUME corpus.disk \subseteq corpus'.disk, CorpusOnDisk',
               diskFaults' = 0 => diskFaults = 0,
               \A h \in Hubs : status'[h] = "done" /\ req'[h].op = "newInput" =>
                                 status[h] = "done" /\ req'[h] = req[h]
        PROVE  AckedInv'
    BY <1>1, <1>2 DEF AckedInv, AckedInputsOnDisk
  <1>3. ASSUME NEW h \in Hubs, HandleCall(h) PROVE AckedInv'
    <2>1. req[h] \in Request /\ Serve(req[h])
      BY <1>1, <1>3 DEF HandleCall, TypeOK, HubTypeOK
    <2>2. /\ corpus.disk \subseteq corpus'.disk /\ CorpusOnDisk'
          /\ diskFaults' = 0 => diskFaults = 0
          /\ diskFaults' = 0 /\ req[h].op = "newInput" /\ Known(req[h].id)
               => req[h].arg \in corpus'.disk
      BY <1>1, <2>1, ServeKeepsCorpus
    <2>3. /\ UNCHANGED req
          /\ \A g \in Hubs : g # h => status'[g] = status[g]
          /\ status'[h] = "done" /\ req[h].op = "newInput" => Known(req[h].id)
      BY <1>1, <1>3 DEF HandleCall, Outcome, TypeOK, HubTypeOK
    <2> QED  BY <1>1, <2>2, <2>3 DEF AckedInv, AckedInputsOnDisk
  <1>4. ASSUME NEW r \in late, HandleLate(r) PROVE AckedInv'
    BY <1>1, <1>2, <1>4, ServeKeepsCorpus DEF HandleLate, TypeOK, HubTypeOK
  <1>5. CASE HandleCrasher
    <2>1. UNCHANGED <<corpus, req>> /\ (diskFaults' = 0 => diskFaults = 0)
      BY <1>1, <1>5 DEF HandleCrasher, Written, SaveCrasher, DescribeCrasher, TypeOK, HubTypeOK
    <2>2. \A h \in Hubs : status'[h] = "done" /\ req[h].op = "newInput" => status[h] = "done"
      BY <1>5 DEF HandleCrasher, CrasherDone, CallState
    <2> QED  BY <1>1, <1>2, <2>1, <2>2 DEF CorpusOnDisk
  <1>6. ASSUME UNCHANGED <<corpus, diskFaults>>,
               \A h \in Hubs : status'[h] = "done" => status[h] = "done" /\ req'[h] = req[h]
        PROVE  AckedInv'
    <2>1. CorpusOnDisk' /\ corpus.disk \subseteq corpus'.disk
      BY <1>1, <1>6 DEF CorpusOnDisk
    <2>2. diskFaults' = 0 => diskFaults = 0
      BY <1>6
    <2>3. \A h \in Hubs : status'[h] = "done" /\ req'[h].op = "newInput" =>
                          status[h] = "done" /\ req'[h] = req[h]
      BY <1>6
    <2> QED  BY <1>2, <2>1, <2>2, <2>3
  <1>7. ASSUME NEW h \in Hubs, HubStep(h) \/ Discover(h) \/ TriageStep(h) \/ DialTimeout(h)
        PROVE  AckedInv'
    <2> USE <1>1 DEF TypeOK, HubTypeOK
    <2>1. UNCHANGED <<corpus, diskFaults>>
      BY <1>7 DEF HubStep, Dial, StartSync, Connected, Returned, CallFailed, DialTimeout,
                  Discover, AcceptTriaged, AcceptMine, ReportCrash, WorkerStats,
                  TriageStep, Triage, coordVars, histVars
    <2>2. \A g \in Hubs : status'[g] = "done" => status[g] = "done" /\ req'[g] = req[g]
      BY <1>7 DEF HubStep, Dial, StartSync, Connected, Returned, CallFailed, DialTimeout,
                  Discover, AcceptTriaged, AcceptMine, ReportCrash, WorkerStats,
                  TriageStep, Triage, Call
    <2> QED  BY <1>6, <2>1, <2>2
  <1>8. CASE \/ \E h \in Hubs, keep \in BOOLEAN : LoseConnection(h, keep)
             \/ \E w \in Workers : Nuke(w)
    <2>1. ASSUME NEW h \in Hubs, NEW keep \in BOOLEAN, LoseConnection(h, keep) PROVE AckedInv'
      <3>1. UNCHANGED <<corpus, diskFaults, req>>
        BY <2>1 DEF LoseConnection, coordVars
      <3>2. \A g \in Hubs : status'[g] = "done" => status[g] = "done"
        BY <1>1, <2>1 DEF LoseConnection, TypeOK, HubTypeOK
      <3> QED  BY <1>6, <3>1, <3>2
    <2>2. ASSUME NEW w \in Workers, Nuke(w) PROVE AckedInv'
      BY <1>6, <2>2 DEF Nuke, NukeDead, hubVars
    <2> QED  BY <1>8, <2>1, <2>2
  <1>9. ASSUME NEW lost \in SUBSET Hubs, CoordinatorCrash(lost) \/ TornCrash(lost)
        PROVE  AckedInv'
    BY <1>1, <1>2, <1>9, CrashKeepsCorpus DEF CorpusOnDisk
  <1>10. CASE CoordinatorRestart
    <2>1. UNCHANGED <<status, req, diskFaults>>
      BY <1>10 DEF CoordinatorRestart, hubVars, histVars
    <2> QED  BY <1>2, <1>10, <2>1, RestartKeepsCorpus DEF CorpusOnDisk
  <1>11. CASE AllHubsDead \/ UNCHANGED vars
    BY <1>6, <1>11 DEF AllHubsDead, vars, coordVars, hubVars, histVars
  <1> QED  BY <1>3, <1>4, <1>5, <1>7, <1>8, <1>9, <1>10, <1>11 DEF Next, Serving, Disturbance

\* An input whose NewInput call returned without error is in the corpus directory, however
\* often the coordinator died since, as long as no write failed.
THEOREM AckedInputsKept == Spec => []AckedInputsOnDisk
  <1>1. Init => AckedInv
    <2> SUFFICES ASSUME Init PROVE AckedInv
      OBVIOUS
    <2>1. CorpusOnDisk
      BY DEF Init, InitWith, CoordInit, LoadCorpus, newPersistentSet, NoFiles, CorpusOnDisk
    <2>2. AckedInputsOnDisk
      BY DEF Init, InitWith, AckedInputsOnDisk
    <2> QED  BY <2>1, <2>2, InitType DEF AckedInv
  <1>2. ReachInv => CallState
    BY DEF ReachInv
  <1>3. ReachInv /\ [Next]_vars => TypeOK'
    BY NextType DEF ReachInv
  <1>4. AckedInv => AckedInputsOnDisk
    BY DEF AckedInv
  <1> QED  BY <1>1, <1>2, <1>3, <1>4, AckedStep, ReachInit, ReachStep, PTL DEF Spec

\* Two live hubs never use one worker id.
THEOREM IdsUnique == Spec => []UniqueIds
  <1>1. ReachInv => UniqueIds
    BY DEF ReachInv
  <1> QED  BY <1>1, ReachInit, ReachStep, PTL DEF Spec

-----------------------------------------------------------------------------
(* Safety: at most one smash of an input.                                  *)

\* Counting the copies of one input before a step, S, and after it, T.
LEMMA CopiesRemoved ==
  ASSUME NEW S, IsFiniteSet(S), NEW T, T \subseteq S
  PROVE  IsFiniteSet(T) /\ Cardinality(T) \in Nat /\ Cardinality(S) \in Nat
         /\ Cardinality(T) <= Cardinality(S)
  BY FS_Subset, FS_CardinalityType

\* A copy is handed out.
LEMMA CopyUsed ==
  ASSUME NEW S, IsFiniteSet(S), NEW a \in S, NEW T, T \subseteq S \ {a}
  PROVE  IsFiniteSet(T) /\ Cardinality(T) + 1 <= Cardinality(S)
  <1>1. /\ IsFiniteSet(S \ {a}) /\ Cardinality(S \ {a}) = Cardinality(S) - 1
        /\ Cardinality(S) \in Nat
    BY FS_RemoveElement, FS_CardinalityType
  <1>2. IsFiniteSet(T) /\ Cardinality(T) \in Nat /\ Cardinality(T) <= Cardinality(S \ {a})
    BY <1>1, CopiesRemoved
  <1> QED  BY <1>1, <1>2

\* A copy appears, for instance in what is pending.
LEMMA CopyMade ==
  ASSUME NEW S, IsFiniteSet(S), NEW b, NEW T, T \subseteq S \cup {b}
  PROVE  IsFiniteSet(T) /\ Cardinality(T) <= Cardinality(S) + 1
  <1>1. /\ IsFiniteSet(S \cup {b}) /\ Cardinality(S) \in Nat
        /\ Cardinality(S \cup {b}) <= Cardinality(S) + 1
    BY FS_AddElement, FS_CardinalityType
  <1>2. IsFiniteSet(T) /\ Cardinality(T) \in Nat
        /\ Cardinality(T) <= Cardinality(S \cup {b}) /\ Cardinality(S \cup {b}) \in Nat
    BY <1>1, CopiesRemoved
  <1> QED  BY <1>1, <1>2

\* A copy moves to another place.
LEMMA CopyMoved ==
  ASSUME NEW S, IsFiniteSet(S), NEW a \in S, NEW b, NEW T, T \subseteq (S \ {a}) \cup {b}
  PROVE  IsFiniteSet(T) /\ Cardinality(T) <= Cardinality(S)
  <1>1. IsFiniteSet(S \ {a}) /\ Cardinality(S \ {a}) = Cardinality(S) - 1
    BY FS_RemoveElement
  <1>2. IsFiniteSet(T) /\ Cardinality(T) <= Cardinality(S \ {a}) + 1
    BY <1>1, CopyMade
  <1> QED  BY <1>1, <1>2, FS_CardinalityType

\* A set of copies by where they are.
LEMMA CopyPlaces ==
  ASSUME NEW x
  PROVE  /\ \A h \in Hubs : ToSmash(x) \in queue[h] => <<"queue", h>> \in Copies(x)
         /\ \A h \in Hubs : ToSmash(x) \in reply[h].inputs => <<"reply", h>> \in Copies(x)
         /\ \A w \in Workers : ToSmash(x) \in pending[w] => <<"pending", w>> \in Copies(x)
  BY DEF Copies

\* A bound on the places of copies after a step.
LEMMA CopiesWithin ==
  ASSUME NEW x, NEW S,
         \A h \in Hubs : ToSmash(x) \in queue'[h] => <<"queue", h>> \in S,
         \A h \in Hubs : ToSmash(x) \in reply'[h].inputs => <<"reply", h>> \in S,
         \A w \in Workers' : ToSmash(x) \in pending'[w] => <<"pending", w>> \in S
  PROVE  Copies(x)' \subseteq S
  BY DEF Copies, ToSmash

\* What the bound on smashes and copies becomes in a step.
LEMMA PaidStays ==
  ASSUME TypeOK, TypeOK', NEW x \in Data,
         corpus.disk \subseteq corpus'.disk, diskFaults <= diskFaults'
  PROVE  Paid(x) \in Nat /\ Paid(x)' \in Nat /\ Paid(x) <= Paid(x)'
  <1>1. diskFaults \in Nat /\ diskFaults' \in Nat
    BY DEF TypeOK, HubTypeOK
  <1>2. PICK n \in Nat : n = diskFaults'
    BY <1>1
  <1>3. Paid(x) = IF x \in corpus.disk THEN diskFaults + 1 ELSE diskFaults
    BY DEF Paid
  <1>4. Paid(x)' = IF x \in corpus'.disk THEN n + 1 ELSE n
    BY <1>2 DEF Paid
  <1>5. PICK p \in Nat : p = Paid(x)'
    BY <1>4
  <1>6. Paid(x) <= p
    <2>1. diskFaults <= n
      BY <1>2
    <2>2. CASE x \in corpus.disk
      <3>1. Paid(x) = diskFaults + 1 /\ p = n + 1
        BY <1>3, <1>4, <1>5, <2>2
      <3>2. diskFaults + 1 <= n + 1
        BY <1>1, <2>1
      <3> QED  BY <3>1, <3>2
    <2>3. CASE x \notin corpus.disk
      <3>1. Paid(x) = diskFaults /\ p >= n
        BY <1>3, <1>4, <1>5, <2>3
      <3> QED  BY <1>1, <2>1, <3>1
    <2> QED  BY <2>2, <2>3
  <1> QED  BY <1>1, <1>3, <1>5, <1>6

\* A step that hands out nothing and makes no copy keeps the bound.
LEMMA SmashStays ==
  ASSUME TypeOK, TypeOK', NEW x \in Data, SmashPaid(x),
         smashes'[x] = smashes[x], Paid(x) \in Nat, Paid(x)' \in Nat, Paid(x) <= Paid(x)',
         IsFiniteSet(Copies(x)'), Cardinality(Copies(x)') <= Cardinality(Copies(x))
  PROVE  SmashPaid(x)'
  <1>1. smashes[x] \in Nat /\ smashes'[x] \in Nat
    BY DEF TypeOK, HubTypeOK
  <1>2. Cardinality(Copies(x)) \in Nat /\ Cardinality(Copies(x)') \in Nat
    BY FS_CardinalityType DEF SmashPaid
  <1>3. smashes[x] + Cardinality(Copies(x)) <= Paid(x)
    BY DEF SmashPaid
  <1>4. smashes'[x] + Cardinality(Copies(x)') <= Paid(x)'
    BY <1>1, <1>2, <1>3
  <1> QED  BY <1>4 DEF SmashPaid

\* Steps that hand nothing out, and move and make no copy.
LEMMA SmashFewer ==
  ASSUME SmashInv, TypeOK', smashes' = smashes, diskFaults <= diskFaults',
         corpus.disk \subseteq corpus'.disk, corpus'.disk \subseteq corpus'.m,
         \A h \in Hubs : queue'[h] \subseteq queue[h],
         \A h \in Hubs : \A inp \in reply'[h].inputs : inp \in reply[h].inputs \/ inp.smashed,
         \A w \in Workers' : \A inp \in pending'[w] : w \in Workers /\ inp \in pending[w]
  PROVE  SmashInv'
  <1>1. ASSUME NEW x \in Data PROVE SmashPaid(x)'
    <2>1. ~ToSmash(x).smashed
      BY DEF ToSmash
    <2>2. Copies(x)' \subseteq Copies(x)
      BY <2>1, CopyPlaces, CopiesWithin
    <2>3. SmashPaid(x) /\ TypeOK
      BY DEF SmashInv
    <2>4. IsFiniteSet(Copies(x)') /\ Cardinality(Copies(x)') <= Cardinality(Copies(x))
      BY <2>2, <2>3, CopiesRemoved DEF SmashPaid
    <2>5. Paid(x) \in Nat /\ Paid(x)' \in Nat /\ Paid(x) <= Paid(x)'
      BY <2>3, PaidStays
    <2> QED  BY <2>3, <2>4, <2>5, SmashStays
  <1> QED  BY <1>1 DEF SmashInv, Data

\* A reply is put into the queue.
LEMMA SmashReturned ==
  ASSUME SmashInv, TypeOK', NEW h \in Hubs, Connected(h) \/ Returned(h)
  PROVE  SmashInv'
  <1>1. TypeOK /\ UNCHANGED <<coordVars, smashes, diskFaults>>
    BY DEF SmashInv, Connected, Returned, histVars
  <1>2. /\ queue'[h] \subseteq queue[h] \cup reply[h].inputs
        /\ reply'[h] = NoReply
        /\ \A g \in Hubs : g # h => queue'[g] = queue[g] /\ reply'[g] = reply[g]
    <2>1. CASE Connected(h)
      BY <1>1, <2>1, QueueConnected DEF Connected, TypeOK, HubTypeOK
    <2>2. CASE Returned(h)
      BY <1>1, <2>2 DEF Returned, TypeOK, HubTypeOK
    <2> QED  BY <2>1, <2>2
  <1>3. ASSUME NEW x \in Data PROVE SmashPaid(x)'
    <2>1. Paid(x) \in Nat /\ Paid(x)' \in Nat /\ Paid(x) <= Paid(x)'
      BY <1>1, PaidStays DEF coordVars, TypeOK, HubTypeOK
    <2>2. SmashPaid(x) /\ smashes'[x] = smashes[x]
      BY <1>1 DEF SmashInv
    <2>3. UNCHANGED <<Workers, pending>> /\ ToSmash(x) \notin reply'[h].inputs
      BY <1>1, <1>2 DEF Workers, coordVars, NoReply
    <2>4. CASE ToSmash(x) \in reply[h].inputs
      <3>1. <<"reply", h>> \in Copies(x)
        BY <2>4, CopyPlaces
      <3>2. Copies(x)' \subseteq (Copies(x) \ {<<"reply", h>>}) \cup {<<"queue", h>>}
        <4> DEFINE S == (Copies(x) \ {<<"reply", h>>}) \cup {<<"queue", h>>}
        <4>1. \A g \in Hubs : ToSmash(x) \in queue'[g] => <<"queue", g>> \in S
          BY <1>2, CopyPlaces
        <4>2. \A g \in Hubs : ToSmash(x) \in reply'[g].inputs => <<"reply", g>> \in S
          BY <1>2, <2>3, CopyPlaces
        <4>3. \A w \in Workers' : ToSmash(x) \in pending'[w] => <<"pending", w>> \in S
          BY <2>3, CopyPlaces
        <4> HIDE DEF S
        <4>4. Copies(x)' \subseteq S
          BY <4>1, <4>2, <4>3, CopiesWithin
        <4> QED  BY <4>4 DEF S
      <3>3. IsFiniteSet(Copies(x)') /\ Cardinality(Copies(x)') <= Cardinality(Copies(x))
        BY <2>2, <3>1, <3>2, CopyMoved DEF SmashPaid
      <3> QED  BY <1>1, <2>1, <2>2, <3>3, SmashStays
    <2>5. CASE ToSmash(x) \notin reply[h].inputs
      <3>1. Copies(x)' \subseteq Copies(x)
        BY <1>2, <2>3, <2>5, CopyPlaces, CopiesWithin
      <3>2. IsFiniteSet(Copies(x)') /\ Cardinality(Copies(x)') <= Cardinality(Copies(x))
        BY <2>2, <3>1, CopiesRemoved DEF SmashPaid
      <3> QED  BY <1>1, <2>1, <2>2, <3>2, SmashStays
    <2> QED  BY <2>4, <2>5
  <1> QED  BY <1>1, <1>3 DEF SmashInv, coordVars

\* An input is handed to a worker; a copy becomes a smash.
LEMMA SmashTriage ==
  ASSUME SmashInv, TypeOK', NEW h \in Hubs, NEW inp \in queue[h], Triage(h, inp)
  PROVE  SmashInv'
  <1>1. TypeOK /\ UNCHANGED <<coordVars, reply, diskFaults>>
    BY DEF SmashInv, Triage
  <1>2. /\ inp \in CoordinatorInput
        /\ queue'[h] = queue[h] \ {inp}
        /\ \A g \in Hubs : g # h => queue'[g] = queue[g]
    BY <1>1 DEF Triage, TypeOK, HubTypeOK
  <1>3. ASSUME NEW x \in Data PROVE SmashPaid(x)'
    <2>1. Paid(x)' = Paid(x) /\ Paid(x) \in Nat
      BY <1>1 DEF Paid, coordVars, TypeOK, HubTypeOK
    <2>2. /\ IsFiniteSet(Copies(x)) /\ smashes[x] + Cardinality(Copies(x)) <= Paid(x)
          /\ Cardinality(Copies(x)) \in Nat /\ smashes[x] \in Nat
      BY <1>1, FS_CardinalityType DEF SmashInv, SmashPaid, TypeOK, HubTypeOK
    <2>3. UNCHANGED <<Workers, pending>>
      BY <1>1 DEF Workers, coordVars
    <2>4. CASE inp = ToSmash(x)
      <3>1. smashes'[x] = smashes[x] + 1
        <4>1. inp.minimized /\ ~inp.smashed /\ inp.data = x
          BY <2>4 DEF ToSmash
        <4>2. smashes' = [smashes EXCEPT ![x] = @ + 1]
          BY <4>1 DEF Triage
        <4> QED  BY <1>1, <4>2 DEF TypeOK, HubTypeOK
      <3>2. <<"queue", h>> \in Copies(x)
        BY <2>4, CopyPlaces
      <3>3. Copies(x)' \subseteq Copies(x) \ {<<"queue", h>>}
        <4> DEFINE S == Copies(x) \ {<<"queue", h>>}
        <4>1. \A g \in Hubs : ToSmash(x) \in queue'[g] => <<"queue", g>> \in S
          BY <1>2, <2>4, CopyPlaces
        <4>2. \A g \in Hubs : ToSmash(x) \in reply'[g].inputs => <<"reply", g>> \in S
          BY <1>1, CopyPlaces
        <4>3. \A w \in Workers' : ToSmash(x) \in pending'[w] => <<"pending", w>> \in S
          BY <2>3, CopyPlaces
        <4> HIDE DEF S
        <4>4. Copies(x)' \subseteq S
          BY <4>1, <4>2, <4>3, CopiesWithin
        <4> QED  BY <4>4 DEF S
      <3>4. /\ IsFiniteSet(Copies(x)')
            /\ Cardinality(Copies(x)') + 1 <= Cardinality(Copies(x))
        BY <2>2, <3>2, <3>3, CopyUsed
      <3>5. PICK n \in Nat : n = Cardinality(Copies(x)')
        BY <3>4, FS_CardinalityType
      <3>6. smashes[x] + 1 + n <= Paid(x)
        BY <2>1, <2>2, <3>4, <3>5
      <3> QED  BY <2>1, <3>1, <3>4, <3>5, <3>6 DEF SmashPaid
    <2>5. CASE inp # ToSmash(x)
      <3>1. Copies(x)' \subseteq Copies(x)
        BY <1>1, <1>2, <2>3, CopyPlaces, CopiesWithin
      <3>2. IsFiniteSet(Copies(x)') /\ Cardinality(Copies(x)') <= Cardinality(Copies(x))
        BY <2>2, <3>1, CopiesRemoved
      <3>3. smashes'[x] = smashes[x]
        <4>1. CASE inp.minimized /\ ~inp.smashed
          <5>1. inp.data # x
            BY <1>2, <2>5, <4>1 DEF ToSmash, CoordinatorInput
          <5>2. smashes' = [smashes EXCEPT ![inp.data] = @ + 1]
            BY <4>1 DEF Triage
          <5> QED  BY <1>1, <5>1, <5>2 DEF TypeOK, HubTypeOK
        <4>2. CASE ~(inp.minimized /\ ~inp.smashed)
          BY <4>2 DEF Triage
        <4> QED  BY <4>1, <4>2
      <3>4. SmashPaid(x) /\ Paid(x) <= Paid(x)' /\ Paid(x)' \in Nat
        BY <2>1, <2>2 DEF SmashPaid
      <3> QED  BY <1>1, <2>1, <3>2, <3>3, <3>4, SmashStays
    <2> QED  BY <2>4, <2>5
  <1> QED  BY <1>1, <1>3 DEF SmashInv, coordVars

\* NewInput takes x into the corpus: one copy more, and one file or one fault.
LEMMA SmashAccepted ==
  ASSUME SmashInv, TypeOK', NEW v \in Inputs, NEW w \in Workers, NEW written \in Files, NEW writes,
         Written(written, writes), ~has(corpus, v),
         corpus' = add(corpus, v, written), pending' = Announce(v, w), UNCHANGED <<queue, smashes>>,
         \A h \in Hubs : reply'[h].inputs \subseteq reply[h].inputs
  PROVE  SmashInv'
  <1>1. /\ TypeOK /\ v \in Data /\ diskFaults \in Nat /\ diskFaults' \in Nat
        /\ corpus.disk \subseteq corpus.m
    BY DEF SmashInv, TypeOK, HubTypeOK, Data
  <1>2. /\ corpus'.m = corpus.m \cup {v} /\ v \notin corpus.disk
        /\ corpus'.disk = IF Whole(written) THEN corpus.disk \cup {v} ELSE corpus.disk
    BY <1>1 DEF add, has
  <1>3. Workers' = Workers
    BY DEF Announce, Workers
  <1>4. \A u \in Workers : pending'[u] =
           pending[u] \cup {[data |-> v, minimized |-> TRUE, smashed |-> u # w]}
    BY DEF Announce
  <1>5. ASSUME NEW x \in Data, x # v PROVE SmashPaid(x)'
    <2>1. \A u \in Workers : [data |-> v, minimized |-> TRUE, smashed |-> u # w] # ToSmash(x)
      BY <1>5 DEF ToSmash
    <2>2. Copies(x)' \subseteq Copies(x)
      BY <1>3, <1>4, <2>1, CopyPlaces, CopiesWithin
    <2>3. SmashPaid(x) /\ smashes'[x] = smashes[x]
      BY DEF SmashInv
    <2>4. IsFiniteSet(Copies(x)') /\ Cardinality(Copies(x)') <= Cardinality(Copies(x))
      BY <2>2, <2>3, CopiesRemoved DEF SmashPaid
    <2>5. Paid(x) \in Nat /\ Paid(x)' \in Nat /\ Paid(x) <= Paid(x)'
      BY <1>1, <1>2, PaidStays DEF Written
    <2> QED  BY <1>1, <2>3, <2>4, <2>5, SmashStays
  <1>6. SmashPaid(v)'
    <2>1. \A u \in Workers : [data |-> v, minimized |-> TRUE, smashed |-> u # w] = ToSmash(v)
                               => u = w
      BY DEF ToSmash
    <2>2. Copies(v)' \subseteq Copies(v) \cup {<<"pending", w>>}
      <3> DEFINE S == Copies(v) \cup {<<"pending", w>>}
      <3>1. \A h \in Hubs : ToSmash(v) \in queue'[h] => <<"queue", h>> \in S
        BY CopyPlaces
      <3>2. \A h \in Hubs : ToSmash(v) \in reply'[h].inputs => <<"reply", h>> \in S
        BY CopyPlaces
      <3>3. \A u \in Workers' : ToSmash(v) \in pending'[u] => <<"pending", u>> \in S
        BY <1>3, <1>4, <2>1, CopyPlaces
      <3> HIDE DEF S
      <3>4. Copies(v)' \subseteq S
        BY <3>1, <3>2, <3>3, CopiesWithin
      <3> QED  BY <3>4 DEF S
    <2>3. /\ IsFiniteSet(Copies(v)) /\ smashes[v] + Cardinality(Copies(v)) <= Paid(v)
          /\ Cardinality(Copies(v)) \in Nat /\ smashes[v] \in Nat /\ smashes'[v] = smashes[v]
      BY <1>1, FS_CardinalityType DEF SmashInv, SmashPaid, TypeOK, HubTypeOK
    <2>4. IsFiniteSet(Copies(v)') /\ Cardinality(Copies(v)') <= Cardinality(Copies(v)) + 1
      BY <2>2, <2>3, CopyMade
    <2>5. PICK n \in Nat : n = Cardinality(Copies(v)')
      BY <2>4, FS_CardinalityType
    <2>6. Paid(v) = diskFaults /\ Paid(v)' = diskFaults + 1
      <3>1. Paid(v) = diskFaults
        BY <1>2 DEF Paid
      <3>2. CASE Whole(written)
        <4>1. v \in corpus'.disk /\ diskFaults' = diskFaults
          BY <1>2, <3>2 DEF Written
        <4> QED  BY <3>1, <4>1 DEF Paid
      <3>3. CASE ~Whole(written)
        <4>1. v \notin corpus'.disk /\ diskFaults' = diskFaults + 1
          BY <1>2, <3>3 DEF Written
        <4> QED  BY <3>1, <4>1 DEF Paid
      <3> QED  BY <3>2, <3>3
    <2>7. smashes[v] + n <= diskFaults + 1
      BY <1>1, <2>3, <2>4, <2>5, <2>6
    <2> QED  BY <2>3, <2>4, <2>5, <2>6, <2>7 DEF SmashPaid
  <1>7. corpus'.disk \subseteq corpus'.m
    BY <1>1, <1>2
  <1> QED  BY <1>5, <1>6, <1>7 DEF SmashInv, Data

\* A Sync moves what is pending into its reply.
LEMMA SmashSynced ==
  ASSUME SmashInv, TypeOK', NEW w \in Workers, NEW h \in Hubs,
         pending' = [pending EXCEPT ![w] = {}], reply'[h].inputs = pending[w],
         \A g \in Hubs : g # h => reply'[g] = reply[g],
         UNCHANGED <<corpus, queue, smashes, diskFaults>>
  PROVE  SmashInv'
  <1>1. /\ TypeOK /\ Workers' = Workers /\ pending'[w] = {}
        /\ \A u \in Workers : u # w => pending'[u] = pending[u]
    BY DEF SmashInv, TypeOK, CoordTypeOK, Workers
  <1>2. ASSUME NEW x \in Data PROVE SmashPaid(x)'
    <2>1. Paid(x) \in Nat /\ Paid(x)' \in Nat /\ Paid(x) <= Paid(x)'
      BY <1>1, PaidStays DEF TypeOK, HubTypeOK
    <2>2. SmashPaid(x) /\ smashes'[x] = smashes[x]
      BY DEF SmashInv
    <2>3. CASE ToSmash(x) \in pending[w]
      <3>1. <<"pending", w>> \in Copies(x)
        BY <2>3, CopyPlaces
      <3>2. Copies(x)' \subseteq (Copies(x) \ {<<"pending", w>>}) \cup {<<"reply", h>>}
        <4> DEFINE S == (Copies(x) \ {<<"pending", w>>}) \cup {<<"reply", h>>}
        <4>1. \A g \in Hubs : ToSmash(x) \in queue'[g] => <<"queue", g>> \in S
          BY CopyPlaces
        <4>2. \A g \in Hubs : ToSmash(x) \in reply'[g].inputs => <<"reply", g>> \in S
          BY CopyPlaces
        <4>3. \A u \in Workers' : ToSmash(x) \in pending'[u] => <<"pending", u>> \in S
          BY <1>1, CopyPlaces
        <4> HIDE DEF S
        <4>4. Copies(x)' \subseteq S
          BY <4>1, <4>2, <4>3, CopiesWithin
        <4> QED  BY <4>4 DEF S
      <3>3. IsFiniteSet(Copies(x)') /\ Cardinality(Copies(x)') <= Cardinality(Copies(x))
        BY <2>2, <3>1, <3>2, CopyMoved DEF SmashPaid
      <3> QED  BY <1>1, <2>1, <2>2, <3>3, SmashStays
    <2>4. CASE ToSmash(x) \notin pending[w]
      <3>1. Copies(x)' \subseteq Copies(x)
        BY <1>1, <2>4, CopyPlaces, CopiesWithin
      <3>2. IsFiniteSet(Copies(x)') /\ Cardinality(Copies(x)') <= Cardinality(Copies(x))
        BY <2>2, <3>1, CopiesRemoved DEF SmashPaid
      <3> QED  BY <1>1, <2>1, <2>2, <3>2, SmashStays
    <2> QED  BY <2>3, <2>4
  <1> QED  BY <1>2 DEF SmashInv, Data

\* A request served, for a hub that waits for the answer or for nobody.
LEMMA RequestSmash ==
  ASSUME SmashInv, TypeOK', NEW r \in Request, Serve(r), UNCHANGED <<queue, smashes>>,
         \/ reply' = reply
         \/ \E h \in Hubs : /\ reply'[h] = Answer(r)
                            /\ \A g \in Hubs : g # h => reply'[g] = reply[g]
  PROVE  SmashInv'
  <1>1. /\ TypeOK /\ corpus.disk \subseteq corpus.m
        /\ diskFaults \in Nat /\ diskFaults <= diskFaults
    BY DEF SmashInv, TypeOK, HubTypeOK
  <1>2. ASSUME \A inp \in Answer(r).inputs : inp.smashed
        PROVE  \A h \in Hubs : \A inp \in reply'[h].inputs : inp \in reply[h].inputs \/ inp.smashed
    BY <1>2
  <1>3. CASE r.op = "connect"
    <2>1. Connect /\ UNCHANGED diskFaults
      BY <1>3 DEF Serve
    <2>2. \A inp \in Answer(r).inputs : inp.smashed
      BY <1>3 DEF Answer, ConnectReply
    <2>3. \A w \in Workers' : \A inp \in pending'[w] : w \in Workers /\ inp \in pending[w]
      BY <2>1 DEF Connect, Workers
    <2>4. UNCHANGED corpus
      BY <2>1 DEF Connect
    <2> QED  BY <1>1, <1>2, <2>1, <2>2, <2>3, <2>4, SmashFewer
  <1>4. CASE r.op \in {"newInput", "newCrasher"}
    <2>1. Answer(r) = NoReply /\ \A inp \in Answer(r).inputs : inp.smashed
      BY <1>4 DEF Answer, NoReply
    <2>2. \A h \in Hubs : reply'[h].inputs \subseteq reply[h].inputs
      BY <2>1 DEF NoReply
    <2>3. PICK written \in Files : \E writes :
            /\ Written(written, writes)
            /\ \/ r.op = "newInput" /\ NewInput(r.id, r.arg, written)
               \/ r.op = "newCrasher" /\ NewCrasher(r.arg, written)
      BY <1>4 DEF Serve, PlainFiles
    <2>4. diskFaults <= diskFaults'
      BY <1>1, <2>3 DEF Written
    <2>5. CASE r.op = "newInput" /\ Known(r.id) /\ ~has(corpus, r.arg)
      <3>1. r.arg \in Inputs /\ r.id \in Workers
        BY <2>5, RequestFields DEF Known
      <3>2. corpus' = add(corpus, r.arg, written) /\ pending' = Announce(r.arg, r.id)
        BY <2>3, <2>5 DEF NewInput
      <3> QED  BY <2>2, <2>3, <2>5, <3>1, <3>2, SmashAccepted
    <2>6. CASE ~(r.op = "newInput" /\ Known(r.id) /\ ~has(corpus, r.arg))
      <3>1. UNCHANGED <<corpus, pending, Workers>>
        BY <2>3, <2>6 DEF NewInput, NewCrasher, Workers
      <3> QED  BY <1>1, <1>2, <2>1, <2>4, <3>1, SmashFewer
    <2> QED  BY <2>5, <2>6
  <1>5. CASE r.op = "sync"
    <2>1. Sync(r.id, r.n, r.arg) /\ UNCHANGED <<diskFaults, corpus>>
      BY <1>5 DEF Serve, Sync
    <2>2. CASE ~Known(r.id)
      <3>1. \A inp \in Answer(r).inputs : inp.smashed
        BY <1>5, <2>2 DEF Answer, NoReply
      <3>2. UNCHANGED <<pending, Workers>>
        BY <2>1, <2>2 DEF Sync, Workers
      <3> QED  BY <1>1, <1>2, <2>1, <3>1, <3>2, SmashFewer
    <2>3. CASE Known(r.id)
      <3>1. /\ r.id \in Workers /\ pending' = [pending EXCEPT ![r.id] = {}]
            /\ Answer(r).inputs = pending[r.id]
        BY <1>5, <2>1, <2>3 DEF Sync, Known, Answer, SyncReply
      <3>2. CASE reply' = reply
        <4>1. \A w \in Workers' : \A inp \in pending'[w] : w \in Workers /\ inp \in pending[w]
          BY <1>1, <3>1 DEF Workers, TypeOK, CoordTypeOK
        <4> QED  BY <1>1, <2>1, <3>2, <4>1, SmashFewer
      <3>3. CASE \E h \in Hubs : /\ reply'[h] = Answer(r)
                                 /\ \A g \in Hubs : g # h => reply'[g] = reply[g]
        <4>1. PICK h \in Hubs : /\ reply'[h] = Answer(r)
                                /\ \A g \in Hubs : g # h => reply'[g] = reply[g]
          BY <3>3
        <4>2. reply'[h].inputs = pending[r.id]
          BY <3>1, <4>1
        <4> QED  BY <2>1, <3>1, <4>1, <4>2, SmashSynced
      <3> QED  BY <3>2, <3>3
    <2> QED  BY <2>2, <2>3
  <1> QED  BY <1>3, <1>4, <1>5, RequestFields

\* SmashInv is inductive.
LEMMA SmashStep == SmashInv /\ [Next]_vars => SmashInv'
  <1> SUFFICES ASSUME SmashInv, [Next]_vars PROVE SmashInv'
    OBVIOUS
  <1>1. /\ TypeOK /\ TypeOK' /\ corpus.disk \subseteq corpus.m
        /\ diskFaults \in Nat /\ diskFaults <= diskFaults
    BY NextType DEF SmashInv, TypeOK, HubTypeOK
  <1>2. ASSUME UNCHANGED <<corpus, pending, smashes>>, diskFaults <= diskFaults',
               \A h \in Hubs : queue'[h] = queue[h],
               \A h \in Hubs : reply'[h].inputs \subseteq reply[h].inputs
        PROVE  SmashInv'
    <2>1. Workers' = Workers
      BY <1>2 DEF Workers
    <2> QED  BY <1>1, <1>2, <2>1, SmashFewer
  <1>3. ASSUME NEW h \in Hubs, HubStep(h) \/ Discover(h) \/ DialTimeout(h)
        PROVE  SmashInv'
    <2>1. CASE Connected(h) \/ Returned(h)
      BY <1>1, <2>1, SmashReturned
    <2>2. CASE \/ Dial(h) \/ StartSync(h) \/ CallFailed(h) \/ Discover(h) \/ DialTimeout(h)
      <3>1. UNCHANGED <<corpus, pending, smashes, diskFaults, queue, reply>>
        BY <2>2 DEF Dial, StartSync, CallFailed, DialTimeout, Discover, AcceptTriaged,
                    AcceptMine, ReportCrash, WorkerStats, coordVars, histVars
      <3> QED  BY <1>1, <1>2, <3>1
    <2> QED  BY <1>3, <2>1, <2>2 DEF HubStep
  <1>4. ASSUME NEW h \in Hubs, TriageStep(h) PROVE SmashInv'
    BY <1>1, <1>4, SmashTriage DEF TriageStep
  <1>5. ASSUME NEW h \in Hubs, HandleCall(h) PROVE SmashInv'
    <2>1. /\ req[h] \in Request /\ Serve(req[h]) /\ UNCHANGED <<queue, smashes>>
          /\ reply'[h] = Answer(req[h])
          /\ \A g \in Hubs : g # h => reply'[g] = reply[g]
      BY <1>1, <1>5 DEF HandleCall, TypeOK, HubTypeOK
    <2> QED  BY <1>1, <2>1, RequestSmash
  <1>6. ASSUME NEW r \in late, HandleLate(r) PROVE SmashInv'
    <2>1. r \in Request /\ Serve(r) /\ UNCHANGED <<queue, smashes, reply>>
      BY <1>1, <1>6 DEF HandleLate, TypeOK, HubTypeOK
    <2> QED  BY <1>1, <2>1, RequestSmash
  <1>7. CASE HandleCrasher
    <2>1. UNCHANGED <<corpus, pending, smashes, queue, reply>>
      BY <1>7 DEF HandleCrasher, SaveCrasher, DescribeCrasher
    <2>2. diskFaults <= diskFaults'
      BY <1>1, <1>7 DEF HandleCrasher, Written
    <2> QED  BY <1>2, <2>1, <2>2
  <1>8. ASSUME NEW h \in Hubs, NEW keep \in BOOLEAN, LoseConnection(h, keep)
        PROVE  SmashInv'
    <2>1. UNCHANGED <<corpus, pending, smashes, diskFaults, queue>>
      BY <1>8 DEF LoseConnection, coordVars
    <2>2. reply' = reply \/ reply' = [reply EXCEPT ![h] = NoReply]
      BY <1>8 DEF LoseConnection
    <2>3. reply \in [Hubs -> [id : Nat, inputs : SUBSET CoordinatorInput]]
      BY <1>1 DEF TypeOK, HubTypeOK
    <2>4. \A g \in Hubs : reply'[g] \in {reply[g], NoReply}
      BY <2>2, <2>3
    <2>5. \A g \in Hubs : reply'[g].inputs \subseteq reply[g].inputs
      BY <2>4 DEF NoReply
    <2> QED  BY <1>1, <1>2, <2>1, <2>5
  <1>9. ASSUME NEW w \in Workers, Nuke(w) PROVE SmashInv'
    <2>1. UNCHANGED <<corpus, smashes, diskFaults, queue, reply>>
      BY <1>9 DEF Nuke, NukeDead, hubVars
    <2>2. \A v \in Workers' : v \in Workers /\ pending'[v] = pending[v]
      BY <1>9 DEF Nuke, NukeDead, Workers
    <2> QED  BY <1>1, <2>1, <2>2, SmashFewer
  <1>10. ASSUME NEW lost \in SUBSET Hubs, CoordinatorCrash(lost) \/ TornCrash(lost)
         PROVE  SmashInv'
    <2>1. /\ corpus.disk \subseteq corpus'.disk /\ corpus'.disk \subseteq corpus'.m
          /\ UNCHANGED diskFaults
      BY <1>1, <1>10, CrashKeepsCorpus
    <2>2. UNCHANGED <<queue, smashes>> /\ \A h \in Hubs : reply'[h].inputs \subseteq reply[h].inputs
      BY <1>10 DEF CoordinatorCrash, TornCrash, DropCalls, NoReply
    <2>3. Workers' = {}
      BY <1>10 DEF CoordinatorCrash, Crash, TornCrash, CrashLeaving, Workers
    <2> QED  BY <1>1, <2>1, <2>2, <2>3, SmashFewer
  <1>11. CASE CoordinatorRestart
    <2>1. UNCHANGED <<pending, smashes, diskFaults, queue, reply>>
      BY <1>11 DEF CoordinatorRestart, Restart, hubVars, histVars
    <2>2. corpus.disk \subseteq corpus'.disk /\ corpus'.disk \subseteq corpus'.m
      BY <1>11, RestartKeepsCorpus
    <2>3. Workers' = Workers
      BY <2>1 DEF Workers
    <2> QED  BY <1>1, <2>1, <2>2, <2>3, SmashFewer
  <1>12. CASE AllHubsDead \/ UNCHANGED vars
    BY <1>1, <1>2, <1>12 DEF AllHubsDead, vars, coordVars, hubVars, histVars
  <1> QED  BY <1>3, <1>4, <1>5, <1>6, <1>7, <1>8, <1>9, <1>10, <1>11, <1>12
              DEF Next, Serving, Disturbance

\* In the whole cluster an input is handed out to be smashed once, or once more for
\* each file that could not be written, through any number of broken connections,
\* silences and crashes of the coordinator.
THEOREM SmashedOnce == Spec => []AtMostOneSmash
  <1>1. Init => SmashInv
    <2> SUFFICES ASSUME Init PROVE SmashInv
      OBVIOUS
    <2>1. ASSUME NEW x \in Data PROVE SmashPaid(x)
      <3>1. Copies(x) = {}
        BY DEF Init, InitWith, CoordInit, Copies, NoReply, Workers
      <3>2. IsFiniteSet(Copies(x)) /\ Cardinality(Copies(x)) = 0
        BY <3>1, FS_EmptySet
      <3>3. smashes[x] = 0 /\ diskFaults = 0
        BY DEF Init, InitWith
      <3> QED  BY <3>2, <3>3 DEF SmashPaid, Paid
    <2>2. corpus.disk \subseteq corpus.m
      BY DEF Init, InitWith, CoordInit, LoadCorpus, newPersistentSet, NoFiles
    <2> QED  BY <2>1, <2>2, InitType DEF SmashInv
  <1>2. SmashInv => AtMostOneSmash
    <2> SUFFICES ASSUME SmashInv, NEW x \in Data PROVE smashes[x] <= 1 + diskFaults
      BY DEF AtMostOneSmash
    <2>1. /\ smashes[x] \in Nat /\ diskFaults \in Nat /\ Cardinality(Copies(x)) \in Nat
          /\ smashes[x] + Cardinality(Copies(x)) <= Paid(x)
      BY FS_CardinalityType DEF SmashInv, SmashPaid, TypeOK, HubTypeOK
    <2> QED  BY <2>1 DEF Paid
  <1> QED  BY <1>1, <1>2, SmashStep, PTL DEF Spec

-----------------------------------------------------------------------------
(* Sums, as numbers of units.                                              *)

\* A number is as many units.
LEMMA BlockSize ==
  ASSUME NEW a, NEW n \in Nat
  PROVE  IsFiniteSet({a} \X (1 .. n)) /\ Cardinality({a} \X (1 .. n)) = n
  <1>1. IsFiniteSet({a}) /\ Cardinality({a}) = 1
    BY FS_Singleton
  <1>2. IsFiniteSet(1 .. n) /\ Cardinality(1 .. n) = n
    BY FS_Interval
  <1>3. /\ IsFiniteSet({a} \X (1 .. n))
        /\ Cardinality({a} \X (1 .. n)) = Cardinality({a}) * Cardinality(1 .. n)
    BY <1>1, <1>2, FS_Product
  <1>4. Cardinality({a} \X (1 .. n)) = 1 * n
    BY <1>1, <1>2, <1>3
  <1> QED  BY <1>3, <1>4

\* What a unit of f is.
LEMMA UnitsDef ==
  ASSUME NEW f, NEW u
  PROVE  u \in Units(f) <=> \E b \in DOMAIN f : \E i \in 1 .. f[b] : u = <<b, i>>
  BY DEF Units

\* The units of f that are not those of a, and a sum cut in two there.
Rest(f, a) == {u \in Units(f) : u[1] # a}

\* A sum is one summand and the rest.
LEMMA TotalCut ==
  ASSUME NEW A, NEW f \in [A -> Nat], NEW a \in A, IsFiniteSet(Rest(f, a))
  PROVE  /\ IsFiniteSet(Units(f)) /\ Cardinality(Rest(f, a)) \in Nat
         /\ Total(f) \in Nat /\ Total(f) = Cardinality(Rest(f, a)) + f[a]
  <1> DEFINE Block == {a} \X (1 .. f[a])
  <1>1. IsFiniteSet(Block) /\ Cardinality(Block) = f[a] /\ f[a] \in Nat
    BY BlockSize
  <1>2. Units(f) = Rest(f, a) \cup Block
    <2>1. ASSUME NEW u \in Units(f) PROVE u \in Rest(f, a) \cup Block
      BY UnitsDef DEF Rest
    <2>2. ASSUME NEW u \in Block PROVE u \in Units(f)
      BY UnitsDef
    <2> QED  BY <2>1, <2>2 DEF Rest
  <1>3. Rest(f, a) \cap Block = {}
    BY DEF Rest
  <1> HIDE DEF Block
  <1>4. /\ IsFiniteSet(Rest(f, a) \cup Block)
        /\ Cardinality(Rest(f, a) \cup Block) =
             Cardinality(Rest(f, a)) + Cardinality(Block) - 0
    BY <1>1, <1>3, FS_Union, FS_EmptySet
  <1>5. Cardinality(Rest(f, a)) \in Nat
    BY FS_CardinalityType
  <1> QED  BY <1>1, <1>2, <1>4, <1>5 DEF Total

\* A sum whose terms are no larger is finite if the other is, and no larger.
LEMMA TotalLess ==
  ASSUME NEW A, NEW f \in [A -> Nat], IsFiniteSet(Units(f)),
         NEW B \in SUBSET A, NEW g \in [B -> Nat], \A b \in B : g[b] <= f[b]
  PROVE  IsFiniteSet(Units(g)) /\ Total(g) \in Nat /\ Total(f) \in Nat /\ Total(g) <= Total(f)
  <1>1. ASSUME NEW u \in Units(g) PROVE u \in Units(f)
    <2>1. PICK b \in B : \E i \in 1 .. g[b] : u = <<b, i>>
      BY UnitsDef
    <2>2. PICK i \in 1 .. g[b] : u = <<b, i>>
      BY <2>1
    <2>3. i \in 1 .. f[b]
      <3>1. f[b] \in Nat /\ g[b] \in Nat /\ g[b] <= f[b]
        OBVIOUS
      <3> QED  BY <3>1
    <2> QED  BY <2>2, <2>3, UnitsDef
  <1>2. Units(g) \subseteq Units(f)
    BY <1>1
  <1> QED  BY <1>2, FS_Subset, FS_CardinalityType DEF Total

\* One term changes.
LEMMA TotalChanged ==
  ASSUME NEW A, NEW f \in [A -> Nat], IsFiniteSet(Units(f)), NEW a \in A,
         NEW g \in [A -> Nat], \A b \in A : b # a => g[b] = f[b]
  PROVE  /\ IsFiniteSet(Units(g)) /\ Total(f) \in Nat /\ Total(g) \in Nat
         /\ Total(g) + f[a] = Total(f) + g[a]
  <1>1. Rest(g, a) = Rest(f, a)
    <2>1. ASSUME NEW b \in A, b # a PROVE g[b] = f[b]
      BY <2>1
    <2>2. \A u : u \in Rest(g, a) => u \in Rest(f, a)
      BY <2>1, UnitsDef DEF Rest
    <2>3. \A u : u \in Rest(f, a) => u \in Rest(g, a)
      BY <2>1, UnitsDef DEF Rest
    <2> QED  BY <2>2, <2>3
  <1>2. IsFiniteSet(Rest(f, a))
    BY FS_Subset DEF Rest
  <1>3. Total(f) = Cardinality(Rest(f, a)) + f[a] /\ Cardinality(Rest(f, a)) \in Nat
    BY <1>2, TotalCut
  <1>4. IsFiniteSet(Units(g)) /\ Total(g) = Cardinality(Rest(f, a)) + g[a]
    BY <1>1, <1>2, TotalCut
  <1>5. f[a] \in Nat /\ g[a] \in Nat
    OBVIOUS
  <1> QED  BY <1>3, <1>4, <1>5

\* One term is taken away, or added.
LEMMA TotalWithout ==
  ASSUME NEW A, NEW f \in [A -> Nat], IsFiniteSet(Units(f)), NEW a \in A,
         NEW g \in [A \ {a} -> Nat], \A b \in A \ {a} : g[b] = f[b]
  PROVE  /\ IsFiniteSet(Units(g)) /\ Total(f) \in Nat /\ Total(g) \in Nat
         /\ Total(g) + f[a] = Total(f)
  <1>1. Units(g) = Rest(f, a)
    <2>1. \A u : u \in Units(g) => u \in Rest(f, a)
      BY UnitsDef DEF Rest
    <2>2. \A u : u \in Rest(f, a) => u \in Units(g)
      BY UnitsDef DEF Rest
    <2> QED  BY <2>1, <2>2
  <1>2. IsFiniteSet(Rest(f, a))
    BY FS_Subset DEF Rest
  <1> QED  BY <1>1, <1>2, TotalCut DEF Total

\* A summand more.
LEMMA TotalWith ==
  ASSUME NEW A, NEW f \in [A -> Nat], IsFiniteSet(Units(f)), NEW a,
         NEW g \in [A \cup {a} -> Nat], \A b \in A : g[b] = f[b]
  PROVE  /\ IsFiniteSet(Units(g)) /\ Total(f) \in Nat /\ Total(g) \in Nat
         /\ Total(g) <= Total(f) + g[a]
  <1>1. Rest(g, a) \subseteq Units(f)
    BY UnitsDef DEF Rest
  <1>2. /\ IsFiniteSet(Rest(g, a)) /\ Cardinality(Rest(g, a)) <= Total(f)
        /\ Total(f) \in Nat
    BY <1>1, FS_Subset, FS_CardinalityType DEF Total
  <1>3. /\ IsFiniteSet(Units(g)) /\ Total(g) \in Nat /\ Cardinality(Rest(g, a)) \in Nat
        /\ Total(g) = Cardinality(Rest(g, a)) + g[a]
    BY <1>2, TotalCut
  <1>4. g[a] \in Nat
    OBVIOUS
  <1> QED  BY <1>2, <1>3, <1>4

-----------------------------------------------------------------------------
(* Safety: executions are not counted twice, and none is lost before the   *)
(* first fault.                                                            *)

\* A step is at most one fault, and none is forgotten.
LEMMA FaultsGrow ==
  ASSUME TypeOK, [Next]_vars
  PROVE  faults' = faults \/ faults' = faults + 1
  <1>1. CASE \E h \in Hubs : HubStep(h) \/ Discover(h) \/ TriageStep(h) \/ DialTimeout(h)
    BY <1>1 DEF HubStep, Dial, StartSync, Connected, Returned, CallFailed, DialTimeout,
                Discover, AcceptTriaged, AcceptMine, ReportCrash, WorkerStats,
                TriageStep, Triage, histVars
  <1>2. CASE Serving
    BY <1>2 DEF Serving, HandleCall, HandleLate, HandleCrasher
  <1>3. CASE Disturbance /\ ~\E h \in Hubs : DialTimeout(h)
    BY <1>3 DEF Disturbance, LoseConnection, Nuke, CoordinatorCrash, TornCrash, Fault
  <1>4. CASE CoordinatorRestart \/ AllHubsDead \/ UNCHANGED vars
    BY <1>4 DEF CoordinatorRestart, AllHubsDead, vars, histVars
  <1> QED  BY <1>1, <1>2, <1>3, <1>4 DEF Next, Disturbance

\* What had no fault after a step had none before it.
LEMMA CalmBefore ==
  ASSUME TypeOK, [Next]_vars, faults' = 0
  PROVE  faults = 0
  <1>1. faults \in Nat
    BY DEF TypeOK, HubTypeOK
  <1>2. faults' = faults \/ faults' = faults + 1
    BY FaultsGrow
  <1> QED  BY <1>1, <1>2

\* Serving forgets no worker.
LEMMA ServeKeepsWorkers ==
  ASSUME CoordTypeOK, NEW r \in Request, Serve(r)
  PROVE  /\ up' = up /\ Workers \subseteq Workers'
         /\ r.op = "connect" => idSeq + 1 \in Workers'
  <1>1. CASE r.op = "connect"
    BY <1>1 DEF Serve, Connect, Workers
  <1>2. CASE r.op = "sync"
    BY <1>2 DEF Serve, Sync, Workers
  <1>3. CASE r.op = "newInput"
    BY <1>3 DEF Serve, NewInput, Announce, Workers
  <1>4. CASE r.op = "newCrasher"
    BY <1>4 DEF Serve, NewCrasher, Workers
  <1> QED  BY <1>1, <1>2, <1>3, <1>4, RequestFields

\* Until the first fault, hubs stay connected and registered.
LEMMA UndisturbedStep ==
  ASSUME ReachInv, TypeOK', Undisturbed, [Next]_vars
  PROVE  Undisturbed'
  <1> DEFINE Calm == /\ up /\ late = {}
                     /\ \A g \in Hubs : status[g] # "dial" => conn[g]
                     /\ \A g \in LiveHubs : CurrentId(g) \in Workers
  <1> SUFFICES ASSUME faults' = 0 PROVE Calm'
    BY DEF Undisturbed
  <1>1. /\ TypeOK /\ CallState /\ faults = 0 /\ up /\ late = {}
        /\ \A g \in Hubs : status[g] # "dial" => conn[g]
        /\ \A g \in LiveHubs : CurrentId(g) \in Workers
    BY CalmBefore DEF ReachInv, Undisturbed
  <1>2. \A g \in LiveHubs' : g \in Hubs
    BY DEF LiveHubs
  <1>3. ASSUME up' = up, late' = late, Workers \subseteq Workers',
               \A g \in Hubs : status'[g] # "dial" => status[g] # "dial" /\ conn'[g] = conn[g],
               \A g \in LiveHubs' : g \in LiveHubs /\ CurrentId(g)' = CurrentId(g)
        PROVE  Calm'
    BY <1>1, <1>3
  <1>4. ASSUME NEW h \in Hubs, HubStep(h) PROVE Calm'
    <2>1. up' = up /\ late' = late /\ Workers' = Workers
      BY <1>4 DEF HubStep, Dial, StartSync, Connected, Returned, CallFailed, coordVars, Workers
    <2>2. \A g \in LiveHubs' : g \in LiveHubs /\ CurrentId(g)' = CurrentId(g)
      BY <1>1, <1>2, <1>4, HubLive
    <2>3. \A g \in Hubs : status'[g] # "dial" => conn'[g]
      BY <1>1, <1>4 DEF HubStep, Dial, StartSync, Call, Connected, Returned, CallFailed,
                        TypeOK, HubTypeOK
    <2> QED  BY <1>1, <2>1, <2>2, <2>3
  <1>5. ASSUME NEW h \in Hubs, Discover(h) \/ TriageStep(h) PROVE Calm'
    <2>1. up' = up /\ late' = late /\ Workers' = Workers /\ conn' = conn
      BY <1>5 DEF Discover, AcceptTriaged, AcceptMine, ReportCrash, WorkerStats,
                  TriageStep, Triage, coordVars, Workers
    <2>2. \A g \in LiveHubs' : g \in LiveHubs /\ CurrentId(g)' = CurrentId(g)
      BY <1>1, <1>2, <1>5, DiscoverLive
    <2>3. \A g \in Hubs : status'[g] # "dial" => status[g] # "dial"
      BY <1>1, <1>5 DEF Discover, AcceptTriaged, AcceptMine, ReportCrash, WorkerStats, Call,
                        TriageStep, Triage, TypeOK, HubTypeOK
    <2> QED  BY <1>1, <2>1, <2>2, <2>3
  <1>6. ASSUME NEW h \in Hubs, HandleCall(h) PROVE Calm'
    <2>1. /\ req[h] \in Request /\ Serve(req[h]) /\ CoordTypeOK
          /\ status[h] = "sent" /\ status'[h] = Outcome(req[h]) /\ reply'[h] = Answer(req[h])
          /\ \A g \in Hubs : g # h => status'[g] = status[g] /\ reply'[g] = reply[g]
          /\ UNCHANGED <<conn, id, req, late>>
      BY <1>1, <1>6 DEF HandleCall, TypeOK, HubTypeOK
    <2>2. /\ up' = up /\ Workers \subseteq Workers'
          /\ req[h].op = "connect" => idSeq + 1 \in Workers'
      BY <2>1, ServeKeepsWorkers
    <2>3. \A g \in Hubs : g # h =>
            (g \in LiveHubs' => g \in LiveHubs /\ CurrentId(g)' = CurrentId(g))
      BY <2>1 DEF LiveHubs, CurrentId, Registered, Registering
    <2>4. h \in LiveHubs' => CurrentId(h)' \in Workers'
      <3>1. CASE req[h].op = "connect"
        <4>1. Answer(req[h]).id = idSeq + 1 /\ Outcome(req[h]) = "done"
          BY <3>1 DEF Answer, Outcome
        <4>2. CurrentId(h)' = idSeq + 1 \/ h \notin LiveHubs'
          BY <2>1, <3>1, <4>1 DEF CurrentId, Registering, Registered, LiveHubs
        <4> QED  BY <2>2, <3>1, <4>2
      <3>2. CASE req[h].op # "connect"
        <4>1. h \in LiveHubs' => h \in LiveHubs /\ CurrentId(h)' = CurrentId(h)
          BY <2>1, <3>2 DEF LiveHubs, CurrentId, Registered, Registering, Outcome
        <4> QED  BY <1>1, <2>2, <4>1
      <3> QED  BY <3>1, <3>2
    <2>5. \A g \in Hubs : status'[g] # "dial" => conn'[g]
      BY <1>1, <2>1
    <2>6. \A g \in LiveHubs' : CurrentId(g)' \in Workers'
      BY <1>1, <1>2, <2>2, <2>3, <2>4
    <2> QED  BY <1>1, <2>1, <2>2, <2>5, <2>6
  <1>7. CASE HandleCrasher
    <2>1. /\ UNCHANGED <<up, conn, id, req, reply, late>> /\ Workers' = Workers
          /\ \A g \in Hubs : \/ status'[g] = status[g]
                             \/ status[g] = "running" /\ status'[g] = "done"
      BY <1>7 DEF HandleCrasher, SaveCrasher, DescribeCrasher, CrasherDone, Workers
    <2>2. \A g \in Hubs : g \in LiveHubs' => g \in LiveHubs /\ CurrentId(g)' = CurrentId(g)
      BY <1>1, <2>1 DEF LiveHubs, CurrentId, Registered, Registering, CallState
    <2> QED  BY <1>2, <1>3, <2>1, <2>2
  <1>8. ASSUME NEW w \in Workers, Nuke(w) PROVE Calm'
    <2>1. UNCHANGED <<up, conn, id, status, req, reply, late>> /\ Workers' = Workers \ {w}
      BY <1>8 DEF Nuke, NukeDead, hubVars, Workers
    <2>2. w \notin LiveIds
      BY <1>1, <1>8 DEF Nuke, Fault
    <2>3. \A g \in LiveHubs' : g \in LiveHubs /\ CurrentId(g)' = CurrentId(g)
      BY <2>1 DEF LiveHubs, CurrentId, Registered, Registering
    <2>4. \A g \in LiveHubs' : CurrentId(g)' \in Workers'
      BY <1>1, <2>1, <2>2, <2>3 DEF LiveIds
    <2> QED  BY <1>1, <2>1, <2>4
  <1> HIDE DEF Calm
  <1>9. CASE \/ \E h \in Hubs, keep \in BOOLEAN : LoseConnection(h, keep)
             \/ \E lost \in SUBSET Hubs : CoordinatorCrash(lost) \/ TornCrash(lost)
    BY <1>1, <1>9 DEF LoseConnection, CoordinatorCrash, TornCrash, Fault
  <1>10. CASE CoordinatorRestart \/ (\E h \in Hubs : DialTimeout(h))
                 \/ \E r \in late : HandleLate(r)
    BY <1>1, <1>10 DEF CoordinatorRestart, Restart, DialTimeout
  <1>11. CASE AllHubsDead \/ UNCHANGED vars
    <2>1. UNCHANGED <<up, conn, id, status, req, reply, late>> /\ Workers' = Workers
      BY <1>11 DEF AllHubsDead, vars, coordVars, hubVars, Workers
    <2>2. \A g \in LiveHubs' : g \in LiveHubs /\ CurrentId(g)' = CurrentId(g)
      BY <2>1 DEF LiveHubs, CurrentId, Registered, Registering
    <2> QED  BY <1>3, <2>1, <2>2
  <1> QED  BY <1>4, <1>5, <1>6, <1>7, <1>8, <1>9, <1>10, <1>11
              DEF Next, Serving, Disturbance

\* The sums are sums of natural numbers, before and after a step.
LEMMA SumsNow ==
  ASSUME TypeOK
  PROVE  /\ stats \in [Hubs -> Nat] /\ Unserved \in [Hubs -> Nat] /\ Abandoned \in [late -> Nat]
         /\ statExecs \in Nat /\ executed \in Nat /\ faults \in Nat
  <1>1. \A h \in Hubs : req[h].n \in Nat
    BY RequestFields DEF TypeOK, HubTypeOK
  <1>2. \A r \in late : r.n \in Nat
    BY RequestFields DEF TypeOK, HubTypeOK
  <1> QED  BY <1>1, <1>2 DEF Unserved, Abandoned, TypeOK, HubTypeOK, CoordTypeOK

\* The summands after a step are numbers.
LEMMA SumsNext ==
  ASSUME TypeOK'
  PROVE  /\ stats' \in [Hubs -> Nat] /\ Unserved' \in [Hubs -> Nat]
         /\ Abandoned' \in [late' -> Nat]
         /\ statExecs' \in Nat /\ executed' \in Nat /\ faults' \in Nat
  <1>1. \A h \in Hubs : req'[h].n \in Nat
    BY RequestFields DEF TypeOK, HubTypeOK
  <1>2. \A r \in late' : r.n \in Nat
    BY RequestFields DEF TypeOK, HubTypeOK
  <1> QED  BY <1>1, <1>2 DEF Unserved, Abandoned, TypeOK, HubTypeOK, CoordTypeOK

\* The three sums are numbers.
LEMMA TotalsNow ==
  ASSUME TypeOK, StatsFinite
  PROVE  Total(stats) \in Nat /\ Total(Unserved) \in Nat /\ Total(Abandoned) \in Nat
  BY FS_CardinalityType DEF StatsFinite, Total

\* The books after a step, from the five sums after it.
LEMMA Balanced ==
  ASSUME TypeOK, StatsFinite, StatsConserved, faults' = 0 => faults = 0,
         NEW e \in Nat, NEW s \in Nat, NEW u \in Nat, NEW a \in Nat, NEW x \in Nat,
         e = statExecs', s = Total(stats'), u = Total(Unserved'), a = Total(Abandoned'),
         x = executed',
         e + s + u + a + executed
           <= statExecs + Total(stats) + Total(Unserved) + Total(Abandoned) + x,
         faults = 0 =>
           e + s + u + a + executed
             = statExecs + Total(stats) + Total(Unserved) + Total(Abandoned) + x
  PROVE  StatsConserved'
  <1>1. Counted' = e + s + u + a
    BY DEF Counted
  <1>2. PICK c \in Nat : c = Counted /\ c = statExecs + Total(stats) + Total(Unserved) + Total(Abandoned)
    BY SumsNow, TotalsNow DEF Counted
  <1>3. executed \in Nat /\ c <= executed /\ (faults = 0 => c = executed)
    BY <1>2, SumsNow DEF StatsConserved
  <1>4. e + s + u + a <= x /\ (faults = 0 => e + s + u + a = x)
    BY <1>2, <1>3
  <1> QED  BY <1>1, <1>4 DEF StatsConserved

\* Steps that move no executions.
LEMMA StatsSame ==
  ASSUME TypeOK, TypeOK', StatsFinite, StatsConserved, faults' = 0 => faults = 0,
         UNCHANGED <<statExecs, stats, late, executed>>,
         \A h \in Hubs : Unserved'[h] = Unserved[h]
  PROVE  StatsFinite' /\ StatsConserved'
  <1>1. Unserved' = Unserved
    BY SumsNow, SumsNext
  <1>2. Abandoned' = Abandoned
    BY DEF Abandoned
  <1>3. Counted' = Counted
    BY <1>1, <1>2 DEF Counted
  <1> QED  BY <1>1, <1>2, <1>3 DEF StatsFinite, StatsConserved

\* A Sync takes along what the hub has; on a broken connection that is lost.
LEMMA StatsSyncStarted ==
  ASSUME TypeOK, TypeOK', StatsFinite, StatsConserved, Undisturbed, NEW h \in Hubs, StartSync(h)
  PROVE  StatsFinite' /\ StatsConserved'
  <1>1. PICK g \in [Hubs -> Nat] : g = stats'
    BY SumsNext
  <1>2. PICK v \in [Hubs -> Nat] : v = Unserved'
    BY SumsNext
  <1>3. /\ g[h] = 0 /\ stats[h] \in Nat
        /\ \A k \in Hubs : k # h => g[k] = stats[k]
    BY <1>1, SumsNow DEF StartSync
  <1>4. /\ Unserved[h] = 0 /\ v[h] = IF conn[h] THEN stats[h] ELSE 0
        /\ \A k \in Hubs : k # h => v[k] = Unserved[k]
    BY <1>2 DEF StartSync, Call, SyncReq, Unserved, TypeOK, HubTypeOK
  <1>5. /\ IsFiniteSet(Units(g)) /\ Total(stats) \in Nat /\ Total(g) \in Nat
        /\ Total(g) + stats[h] = Total(stats) + g[h]
    BY <1>3, SumsNow, TotalChanged DEF StatsFinite
  <1>6. /\ IsFiniteSet(Units(v)) /\ Total(Unserved) \in Nat /\ Total(v) \in Nat
        /\ Total(v) + Unserved[h] = Total(Unserved) + v[h]
    BY <1>4, SumsNow, TotalChanged DEF StatsFinite
  <1>7. /\ UNCHANGED <<statExecs, executed, faults>> /\ Abandoned' = Abandoned
        /\ status[h] = "idle"
    BY DEF StartSync, coordVars, histVars, Abandoned
  <1>8. Total(g) + Total(v) <= Total(stats) + Total(Unserved)
    BY <1>3, <1>4, <1>5, <1>6
  <1>9. faults = 0 => Total(g) + Total(v) = Total(stats) + Total(Unserved)
    BY <1>3, <1>4, <1>5, <1>6, <1>7 DEF Undisturbed
  <1>10. StatsFinite'
    BY <1>1, <1>2, <1>5, <1>6, <1>7 DEF StatsFinite
  <1>11. StatsConserved'
    <2>1. /\ statExecs \in Nat /\ executed \in Nat /\ Total(Abandoned) \in Nat
          /\ statExecs = statExecs' /\ executed = executed' /\ Total(Abandoned) = Total(Abandoned')
      BY <1>7, SumsNow, TotalsNow
    <2> QED  BY <1>1, <1>2, <1>5, <1>6, <1>7, <1>8, <1>9, <2>1, Balanced
  <1> QED  BY <1>10, <1>11

\* A worker reports one more execution.
LEMMA StatsReported ==
  ASSUME TypeOK, TypeOK', StatsFinite, StatsConserved, NEW h \in Hubs, WorkerStats(h)
  PROVE  StatsFinite' /\ StatsConserved'
  <1>1. PICK g \in [Hubs -> Nat] : g = stats'
    BY SumsNext
  <1>2. /\ g[h] = stats[h] + 1 /\ stats[h] \in Nat
        /\ \A k \in Hubs : k # h => g[k] = stats[k]
    BY <1>1, SumsNow DEF WorkerStats
  <1>3. /\ IsFiniteSet(Units(g)) /\ Total(stats) \in Nat /\ Total(g) \in Nat
        /\ Total(g) + stats[h] = Total(stats) + g[h]
    BY <1>2, SumsNow, TotalChanged DEF StatsFinite
  <1>4. /\ UNCHANGED <<statExecs, faults>> /\ executed' = executed + 1
        /\ Abandoned' = Abandoned /\ Unserved' = Unserved
    BY DEF WorkerStats, coordVars, Abandoned, Unserved
  <1>5. Total(g) = Total(stats) + 1
    BY <1>2, <1>3
  <1>6. StatsFinite'
    BY <1>1, <1>3, <1>4 DEF StatsFinite
  <1>7. StatsConserved'
    <2>1. /\ statExecs \in Nat /\ executed \in Nat /\ executed + 1 \in Nat
          /\ Total(Abandoned) \in Nat /\ Total(Unserved) \in Nat
      BY SumsNow, TotalsNow
    <2> QED  BY <1>1, <1>3, <1>4, <1>5, <2>1, Balanced
  <1> QED  BY <1>6, <1>7

\* A request served adds what it carries, or nothing if it comes from an unknown worker.
LEMMA ServeCounts ==
  ASSUME TypeOK, NEW r \in Request, Serve(r)
  PROVE  \E m \in Nat : /\ statExecs' = statExecs + m /\ m <= r.n
                        /\ (r.op = "sync" => Known(r.id)) => m = r.n
  <1>0. r.n \in Nat /\ statExecs \in Nat
    BY RequestFields, SumsNow
  <1>1. CASE r.op = "sync" /\ Known(r.id)
    BY <1>0, <1>1 DEF Serve, Sync
  <1>2. CASE r.op = "sync" /\ ~Known(r.id)
    <2>1. statExecs' = statExecs + 0
      BY <1>0, <1>2 DEF Serve, Sync
    <2> QED  BY <1>0, <1>2, <2>1
  <1>3. CASE r.op # "sync"
    <2>1. r.n = 0 /\ statExecs' = statExecs + 0
      BY <1>0, <1>3, RequestFields DEF Serve, Connect, NewInput, NewCrasher
    <2> QED  BY <2>1
  <1> QED  BY <1>1, <1>2, <1>3

\* The coordinator serves the call of a hub.
LEMMA StatsServed ==
  ASSUME TypeOK, TypeOK', CallState, StatsFinite, StatsConserved, Undisturbed,
         NEW h \in Hubs, HandleCall(h)
  PROVE  StatsFinite' /\ StatsConserved'
  <1>1. /\ req[h] \in Request /\ Serve(req[h]) /\ status[h] = "sent"
        /\ UNCHANGED <<stats, late, executed, faults, req>>
        /\ status'[h] = Outcome(req[h])
        /\ \A k \in Hubs : k # h => status'[k] = status[k]
    BY DEF HandleCall, TypeOK, HubTypeOK
  <1>2. PICK m \in Nat : /\ statExecs' = statExecs + m /\ m <= req[h].n
                         /\ (req[h].op = "sync" => Known(req[h].id)) => m = req[h].n
    BY <1>1, ServeCounts
  <1>3. faults = 0 => m = req[h].n
    <2>1. ASSUME faults = 0, req[h].op = "sync" PROVE Known(req[h].id)
      <3>1. h \in LiveHubs /\ CurrentId(h) = req[h].id
        BY <1>1, <2>1 DEF CallState, LiveHubs, CurrentId, Registered, Registering
      <3> QED  BY <2>1, <3>1 DEF Undisturbed, Known
    <2> QED  BY <1>2, <2>1
  <1>4. PICK v \in [Hubs -> Nat] : v = Unserved'
    BY SumsNext
  <1>5. /\ Unserved[h] = req[h].n /\ v[h] = 0 /\ req[h].n \in Nat
        /\ \A k \in Hubs : k # h => v[k] = Unserved[k]
    BY <1>1, <1>4, RequestFields DEF Unserved, Outcome
  <1>6. /\ IsFiniteSet(Units(v)) /\ Total(Unserved) \in Nat /\ Total(v) \in Nat
        /\ Total(v) + Unserved[h] = Total(Unserved) + v[h]
    BY <1>5, SumsNow, TotalChanged DEF StatsFinite
  <1>7. Abandoned' = Abandoned
    BY <1>1 DEF Abandoned
  <1>8. Total(v) + m <= Total(Unserved) /\ (faults = 0 => Total(v) + m = Total(Unserved))
    BY <1>2, <1>3, <1>5, <1>6
  <1>9. StatsFinite'
    BY <1>1, <1>4, <1>6, <1>7 DEF StatsFinite
  <1>10. StatsConserved'
    <2>1. PICK e \in Nat, s \in Nat, a \in Nat, x \in Nat :
            /\ e = statExecs' /\ e = statExecs + m /\ statExecs \in Nat
            /\ s = Total(stats) /\ a = Total(Abandoned) /\ x = executed
      BY <1>2, SumsNow, SumsNext, TotalsNow
    <2>2. /\ e + s + Total(v) + a + x <= statExecs + s + Total(Unserved) + a + x
          /\ faults = 0 => e + s + Total(v) + a + x = statExecs + s + Total(Unserved) + a + x
      BY <1>6, <1>8, <2>1
    <2>3. s = Total(stats') /\ Total(v) = Total(Unserved') /\ a = Total(Abandoned') /\ x = executed'
      BY <1>1, <1>4, <1>7, <2>1
    <2>4. /\ e + s + Total(v) + a + executed
               <= statExecs + Total(stats) + Total(Unserved) + Total(Abandoned) + x
          /\ faults = 0 =>
               e + s + Total(v) + a + executed
                 = statExecs + Total(stats) + Total(Unserved) + Total(Abandoned) + x
      BY <2>1, <2>2
    <2>5. Total(v) \in Nat /\ x = executed' /\ faults' = faults
      BY <1>1, <1>6, <2>1
    <2> QED  BY <2>1, <2>3, <2>4, <2>5, Balanced
  <1> QED  BY <1>9, <1>10

\* It serves a request whose connection is gone.
LEMMA StatsServedLate ==
  ASSUME TypeOK, TypeOK', StatsFinite, StatsConserved, Undisturbed,
         NEW r \in late, HandleLate(r)
  PROVE  StatsFinite' /\ StatsConserved'
  <1>1. /\ r \in Request /\ Serve(r) /\ late' = late \ {r}
        /\ UNCHANGED <<stats, status, req, executed, faults>>
    BY DEF HandleLate, TypeOK, HubTypeOK
  <1>2. PICK m \in Nat : statExecs' = statExecs + m /\ m <= r.n
    BY <1>1, ServeCounts
  <1>3. PICK g \in [late \ {r} -> Nat] : g = Abandoned'
    BY <1>1, SumsNext
  <1>4. Abandoned[r] = r.n /\ r.n \in Nat /\ \A q \in late \ {r} : g[q] = Abandoned[q]
    BY <1>1, <1>3, RequestFields DEF Abandoned
  <1>5. /\ IsFiniteSet(Units(g)) /\ Total(Abandoned) \in Nat /\ Total(g) \in Nat
        /\ Total(g) + Abandoned[r] = Total(Abandoned)
    <2>1. Abandoned \in [late -> Nat] /\ IsFiniteSet(Units(Abandoned))
      BY SumsNow DEF StatsFinite
    <2> HIDE DEF Abandoned
    <2> QED  BY <1>4, <2>1, TotalWithout
  <1>6. Unserved' = Unserved /\ faults # 0
    BY <1>1 DEF Unserved, Undisturbed
  <1>7. Total(g) + m <= Total(Abandoned)
    BY <1>2, <1>4, <1>5
  <1>8. StatsFinite'
    BY <1>1, <1>3, <1>5, <1>6 DEF StatsFinite
  <1>9. StatsConserved'
    <2>1. PICK e \in Nat, s \in Nat, u \in Nat, x \in Nat :
            /\ e = statExecs' /\ e = statExecs + m /\ statExecs \in Nat
            /\ s = Total(stats) /\ u = Total(Unserved) /\ x = executed
      BY <1>2, SumsNow, SumsNext, TotalsNow
    <2>2. e + s + u + Total(g) + x <= statExecs + s + u + Total(Abandoned) + x
      BY <1>5, <1>7, <2>1
    <2>3. s = Total(stats') /\ u = Total(Unserved') /\ Total(g) = Total(Abandoned') /\ x = executed'
      BY <1>1, <1>3, <1>6, <2>1
    <2> QED  BY <1>1, <1>5, <1>6, <2>1, <2>2, <2>3, Balanced
  <1> QED  BY <1>8, <1>9

\* A broken connection may leave the request behind, or lose it.
LEMMA StatsCut ==
  ASSUME TypeOK, TypeOK', StatsFinite, StatsConserved,
         NEW h \in Hubs, NEW keep \in BOOLEAN, LoseConnection(h, keep)
  PROVE  StatsFinite' /\ StatsConserved'
  <1>1. /\ UNCHANGED <<stats, statExecs, executed, req>>
        /\ faults' = faults + 1 /\ faults \in Nat
        /\ \A k \in Hubs : k # h => status'[k] = status[k]
        /\ status'[h] # "sent" /\ req[h] \in Request
    <2>1. CASE status[h] \in InCall
      BY <2>1, SumsNow DEF LoseConnection, Fault, coordVars, TypeOK, HubTypeOK
    <2>2. CASE status[h] \notin InCall
      BY <2>2, SumsNow DEF LoseConnection, Fault, coordVars, InCall, TypeOK, HubTypeOK
    <2> QED  BY <2>1, <2>2
  <1>2. faults' # 0
    BY <1>1
  <1>3. PICK v \in [Hubs -> Nat] : v = Unserved'
    BY SumsNext
  <1>4. /\ v[h] = 0 /\ \A k \in Hubs : k # h => v[k] = Unserved[k]
        /\ Unserved[h] = (IF status[h] = "sent" THEN req[h].n ELSE 0) /\ req[h].n \in Nat
    BY <1>1, <1>3, RequestFields DEF Unserved
  <1>5. /\ IsFiniteSet(Units(v)) /\ Total(Unserved) \in Nat /\ Total(v) \in Nat
        /\ Total(v) + Unserved[h] = Total(Unserved) + v[h]
    BY <1>4, SumsNow, TotalChanged DEF StatsFinite
  <1>6. PICK g \in [late' -> Nat] : g = Abandoned'
    BY SumsNext
  <1>7. /\ IsFiniteSet(Units(g)) /\ Total(Abandoned) \in Nat /\ Total(g) \in Nat
        /\ Total(g) + Total(v) <= Total(Abandoned) + Total(Unserved)
    <2>0. late' = late \/ (late' = late \cup {req[h]} /\ status[h] = "sent")
      BY DEF LoseConnection
    <2>1. CASE late' = late
      <3>1. g = Abandoned
        BY <1>6, <2>1 DEF Abandoned
      <3> QED  BY <1>4, <1>5, <3>1, TotalsNow DEF StatsFinite
    <2>2. CASE late' = late \cup {req[h]} /\ status[h] = "sent"
      <3>1. g[req[h]] = req[h].n /\ \A q \in late : g[q] = Abandoned[q]
        BY <1>6, <2>2 DEF Abandoned
      <3>2. PICK f \in [late -> Nat] : f = Abandoned
        BY SumsNow
      <3>3. PICK r : r = req[h]
        OBVIOUS
      <3>4. /\ IsFiniteSet(Units(f)) /\ g \in [late \cup {r} -> Nat]
            /\ \A q \in late : g[q] = f[q]
        BY <1>6, <2>2, <3>1, <3>2, <3>3 DEF StatsFinite
      <3>5. /\ IsFiniteSet(Units(g)) /\ Total(f) \in Nat /\ Total(g) \in Nat
            /\ Total(g) <= Total(f) + g[r]
        BY <3>4, TotalWith
      <3> QED  BY <1>4, <1>5, <2>2, <3>1, <3>2, <3>3, <3>5
    <2> QED  BY <2>0, <2>1, <2>2
  <1>8. StatsFinite'
    BY <1>1, <1>3, <1>5, <1>6, <1>7 DEF StatsFinite
  <1>9. StatsConserved'
    <2>1. PICK e \in Nat, x \in Nat, n \in Nat :
            /\ e = statExecs /\ e = statExecs' /\ x = executed /\ x = executed'
            /\ n = Total(stats)
      BY <1>1, SumsNow, TotalsNow
    <2>2. e + n + Total(v) + Total(g) + x
            <= statExecs + Total(stats) + Total(Unserved) + Total(Abandoned) + x
      BY <1>5, <1>7, <2>1
    <2>3. Counted <= executed
      BY DEF StatsConserved
    <2>4. e + n + Total(v) + Total(g) <= x
      BY <1>5, <1>7, <2>1, <2>2, <2>3 DEF Counted
    <2>5. Counted' = e + n + Total(v) + Total(g)
      BY <1>1, <1>3, <1>6, <2>1 DEF Counted
    <2> QED  BY <1>2, <2>1, <2>4, <2>5 DEF StatsConserved
  <1> QED  BY <1>8, <1>9

\* A crash of the coordinator loses what it has counted and every request.
LEMMA StatsCrashed ==
  ASSUME TypeOK, TypeOK', StatsFinite, StatsConserved,
         NEW lost \in SUBSET Hubs, CoordinatorCrash(lost) \/ TornCrash(lost)
  PROVE  StatsFinite' /\ StatsConserved'
  <1>1. /\ UNCHANGED <<stats, executed>> /\ statExecs' = 0 /\ late' = {}
        /\ faults' = faults + 1 /\ faults \in Nat
        /\ \A h \in Hubs : status'[h] # "sent"
    BY SumsNow
       DEF CoordinatorCrash, TornCrash, Crash, CrashLeaving, DropCalls, Fault
  <1>2. PICK v \in [Hubs -> Nat] : v = Unserved'
    BY SumsNext
  <1>3. \A h \in Hubs : v[h] <= Unserved[h]
    <2>1. \A h \in Hubs : v[h] = 0
      BY <1>1, <1>2 DEF Unserved
    <2>2. \A h \in Hubs : Unserved[h] \in Nat
      BY SumsNow
    <2> QED  BY <2>1, <2>2
  <1>4. /\ IsFiniteSet(Units(v)) /\ Total(v) \in Nat /\ Total(Unserved) \in Nat
        /\ Total(v) <= Total(Unserved)
    BY <1>3, SumsNow, TotalLess DEF StatsFinite
  <1>5. PICK g \in [{} -> Nat] : g = Abandoned'
    BY <1>1, SumsNext
  <1>6. /\ IsFiniteSet(Units(g)) /\ Total(g) \in Nat /\ Total(Abandoned) \in Nat
        /\ Total(g) <= Total(Abandoned)
    BY SumsNow, TotalLess DEF StatsFinite
  <1>7. StatsFinite'
    BY <1>1, <1>2, <1>4, <1>5, <1>6 DEF StatsFinite
  <1>8. StatsConserved'
    <2>1. PICK e \in Nat, x \in Nat, n \in Nat :
            e = statExecs /\ x = executed /\ x = executed' /\ n = Total(stats)
      BY <1>1, SumsNow, TotalsNow
    <2>2. Counted <= x
      BY <2>1 DEF StatsConserved
    <2>3. PICK u \in Nat, a \in Nat : u = Total(Unserved) /\ a = Total(Abandoned)
      BY <1>4, <1>6
    <2>4. e + n + u + a <= x /\ e \in Nat /\ Total(v) \in Nat /\ Total(g) \in Nat
          /\ Total(v) <= u /\ Total(g) <= a
      BY <1>4, <1>6, <2>1, <2>2, <2>3, SumsNow DEF Counted
    <2>5. PICK k \in Nat, l \in Nat : k = Total(v) /\ l = Total(g)
      BY <2>4
    <2>6. 0 + n + k + l <= x
      BY <2>4, <2>5
    <2>7. Counted' = 0 + n + k + l
      BY <1>1, <1>2, <1>5, <2>1, <2>5 DEF Counted
    <2>8. faults' # 0
      BY <1>1
    <2> QED  BY <2>1, <2>6, <2>7, <2>8 DEF StatsConserved
  <1> QED  BY <1>7, <1>8

\* Every step keeps the books.
LEMMA StatsStep == StatsInv /\ [Next]_vars => StatsInv'
  <1> SUFFICES ASSUME StatsInv, [Next]_vars PROVE StatsInv'
    OBVIOUS
  <1>1. /\ ReachInv /\ TypeOK /\ CallState /\ Undisturbed /\ StatsFinite /\ StatsConserved
    BY DEF StatsInv, ReachInv
  <1>2. ReachInv' /\ TypeOK' /\ Undisturbed' /\ (faults' = 0 => faults = 0)
    <2>1. ReachInv'
      BY <1>1, ReachStep
    <2>2. TypeOK'
      BY <2>1 DEF ReachInv
    <2>3. Undisturbed'
      BY <1>1, <2>2, UndisturbedStep
    <2> QED  BY <1>1, <2>1, <2>2, <2>3, CalmBefore
  <1>3. ASSUME UNCHANGED <<statExecs, stats, late, executed>>,
               \A h \in Hubs : Unserved'[h] = Unserved[h]
        PROVE  StatsFinite' /\ StatsConserved'
    BY <1>1, <1>2, <1>3, StatsSame
  <1>4. ASSUME NEW h \in Hubs, HubStep(h) PROVE StatsFinite' /\ StatsConserved'
    <2>1. CASE StartSync(h)
      BY <1>1, <1>2, <2>1, StatsSyncStarted
    <2>2. CASE Dial(h)
      <3>1. /\ UNCHANGED <<statExecs, stats, late, executed>>
            /\ status[h] # "sent" /\ req'[h].n = 0
            /\ \A k \in Hubs : k # h => status'[k] = status[k] /\ req'[k] = req[k]
        BY <1>1, <2>2 DEF Dial, coordVars, histVars, TypeOK, HubTypeOK, ConnectReq
      <3>2. \A k \in Hubs : Unserved'[k] = Unserved[k]
        BY <3>1 DEF Unserved
      <3> QED  BY <1>3, <3>1, <3>2
    <2>3. CASE Connected(h) \/ Returned(h) \/ CallFailed(h)
      <3>1. /\ UNCHANGED <<statExecs, stats, late, executed>> /\ req' = req
            /\ status[h] # "sent" /\ status'[h] # "sent"
            /\ \A k \in Hubs : k # h => status'[k] = status[k]
        BY <1>1, <2>3 DEF Connected, Returned, CallFailed, coordVars, histVars, TypeOK, HubTypeOK
      <3>2. \A k \in Hubs : Unserved'[k] = Unserved[k]
        BY <3>1 DEF Unserved
      <3> QED  BY <1>3, <3>1, <3>2
    <2> QED  BY <1>4, <2>1, <2>2, <2>3 DEF HubStep
  <1>5. ASSUME NEW h \in Hubs, Discover(h) PROVE StatsFinite' /\ StatsConserved'
    <2>1. CASE WorkerStats(h)
      BY <1>1, <1>2, <2>1, StatsReported
    <2>2. CASE \E x \in Data : AcceptTriaged(h, x)
      <3>1. UNCHANGED <<statExecs, stats, late, executed, req, status>>
        BY <2>2 DEF AcceptTriaged, coordVars, histVars
      <3> QED  BY <1>3, <3>1 DEF Unserved
    <2>3. CASE \/ \E x \in Inputs : AcceptMine(h, x)
               \/ \E c \in CrashInputs : ReportCrash(h, c)
      <3>1. PICK r : Call(h, r) /\ r.n = 0 /\ status[h] = "idle"
        BY <2>3 DEF AcceptMine, ReportCrash, NewInputReq, NewCrasherReq
      <3>2. UNCHANGED <<statExecs, stats, late, executed>>
        BY <2>3 DEF AcceptMine, ReportCrash, coordVars
      <3>3. /\ status[h] # "sent" /\ req'[h].n = 0
            /\ \A k \in Hubs : k # h => status'[k] = status[k] /\ req'[k] = req[k]
        BY <1>1, <3>1 DEF Call, TypeOK, HubTypeOK
      <3>4. \A k \in Hubs : Unserved'[k] = Unserved[k]
        BY <3>3 DEF Unserved
      <3> QED  BY <1>3, <3>2, <3>4
    <2> QED  BY <1>5, <2>1, <2>2, <2>3 DEF Discover
  <1>6. ASSUME NEW h \in Hubs, TriageStep(h) \/ DialTimeout(h)
        PROVE  StatsFinite' /\ StatsConserved'
    <2>1. /\ UNCHANGED <<statExecs, stats, late, executed>> /\ req' = req
          /\ \A k \in Hubs : (status'[k] = "sent") <=> (status[k] = "sent")
      BY <1>1, <1>6 DEF TriageStep, Triage, DialTimeout, coordVars, histVars, TypeOK, HubTypeOK
    <2>2. \A k \in Hubs : Unserved'[k] = Unserved[k]
      BY <2>1 DEF Unserved
    <2> QED  BY <1>3, <2>1, <2>2
  <1>7. ASSUME HandleCrasher PROVE StatsFinite' /\ StatsConserved'
    <2>1. /\ UNCHANGED <<statExecs, stats, late, executed>> /\ req' = req
          /\ \A k \in Hubs : (status'[k] = "sent") <=> (status[k] = "sent")
      BY <1>7 DEF HandleCrasher, SaveCrasher, DescribeCrasher, CrasherDone
    <2>2. \A k \in Hubs : Unserved'[k] = Unserved[k]
      BY <2>1 DEF Unserved
    <2> QED  BY <1>3, <2>1, <2>2
  <1>8. ASSUME CoordinatorRestart \/ AllHubsDead \/ UNCHANGED vars \/ \E w \in Workers : Nuke(w)
        PROVE  StatsFinite' /\ StatsConserved'
    <2>1. /\ UNCHANGED <<statExecs, stats, late, executed>>
          /\ UNCHANGED <<req, status>>
      BY <1>8 DEF CoordinatorRestart, Restart, AllHubsDead, Nuke, NukeDead, vars, coordVars,
                  hubVars, histVars
    <2>2. \A h \in Hubs : Unserved'[h] = Unserved[h]
      BY <2>1 DEF Unserved
    <2> QED  BY <1>3, <2>1, <2>2
  <1>9. ASSUME NEW h \in Hubs, HandleCall(h) PROVE StatsFinite' /\ StatsConserved'
    BY <1>1, <1>2, <1>9, StatsServed
  <1>10. ASSUME NEW r \in late, HandleLate(r) PROVE StatsFinite' /\ StatsConserved'
    BY <1>1, <1>2, <1>10, StatsServedLate
  <1>11. ASSUME NEW h \in Hubs, NEW keep \in BOOLEAN, LoseConnection(h, keep)
         PROVE  StatsFinite' /\ StatsConserved'
    BY <1>1, <1>2, <1>11, StatsCut
  <1>12. ASSUME NEW lost \in SUBSET Hubs, CoordinatorCrash(lost) \/ TornCrash(lost)
         PROVE  StatsFinite' /\ StatsConserved'
    BY <1>1, <1>2, <1>12, StatsCrashed
  <1>13. \/ \E h \in Hubs : HubStep(h) \/ Discover(h) \/ TriageStep(h) \/ DialTimeout(h)
         \/ HandleCrasher
         \/ CoordinatorRestart \/ AllHubsDead \/ UNCHANGED vars \/ \E w \in Workers : Nuke(w)
         \/ (\E h \in Hubs : HandleCall(h)) \/ (\E r \in late : HandleLate(r))
         \/ \E h \in Hubs, keep \in BOOLEAN : LoseConnection(h, keep)
         \/ \E lost \in SUBSET Hubs : CoordinatorCrash(lost) \/ TornCrash(lost)
    BY DEF Next, Serving, Disturbance
  <1>14. StatsFinite' /\ StatsConserved'
    BY <1>4, <1>5, <1>6, <1>7, <1>8, <1>9, <1>10, <1>11, <1>12, <1>13
  <1> QED  BY <1>2, <1>14 DEF StatsInv

\* Executions are never counted twice, and none is missing while nothing has failed
\* (Sync adds what the hub zeroed before the call, and drops it for an unknown worker).
THEOREM ExecutionsCounted == Spec => []StatsConserved
  <1>1. Init => StatsInv
    <2> SUFFICES ASSUME Init PROVE StatsInv
      OBVIOUS
    <2>1. ReachInv
      BY ReachInit
    <2>2. LiveHubs = {}
      BY DEF Init, InitWith, LiveHubs, Registered, Registering
    <2>3. Undisturbed
      BY <2>2 DEF Init, InitWith, CoordInit, Undisturbed
    <2>4. /\ \A u : u \notin Units(stats) /\ u \notin Units(Unserved) /\ u \notin Units(Abandoned)
      BY DEF Init, InitWith, Units, Unserved, Abandoned
    <2>5. Units(stats) = {} /\ Units(Unserved) = {} /\ Units(Abandoned) = {}
      BY <2>4
    <2>6. StatsFinite
      BY <2>5, FS_EmptySet DEF StatsFinite
    <2>7. Total(stats) = 0 /\ Total(Unserved) = 0 /\ Total(Abandoned) = 0
      BY <2>5, FS_EmptySet DEF Total
    <2>8. StatsConserved
      BY <2>7 DEF Init, InitWith, CoordInit, StatsConserved, Counted
    <2> QED  BY <2>1, <2>3, <2>6, <2>8 DEF StatsInv
  <1>2. StatsInv => StatsConserved
    BY DEF StatsInv
  <1> QED  BY <1>1, <1>2, StatsStep, PTL DEF Spec

-----------------------------------------------------------------------------
(* The refinement: the corpus keeps the promises of CorpusService.  First  *)
(* the invariant ServiceInv, then the steps.                               *)

\* What hubs have handed in only grows, and what may be given out with it.
LEMMA GenuineGrows ==
  ASSUME \A h \in Hubs : mine[h] \subseteq mine'[h], corpus.disk \subseteq corpus'.disk,
         diskFaults > 0 => diskFaults' > 0
  PROVE  Submitted \subseteq Submitted' /\ Genuine \subseteq Genuine'
  <1>1. Submitted \subseteq Submitted'
    BY DEF Submitted
  <1> QED  BY <1>1 DEF Genuine

\* Inputs that stay where they were, or move on, remain genuine.
LEMMA GenuineStays ==
  ASSUME InputsGenuine, Genuine \subseteq Genuine', corpus'.m \subseteq corpus.m \cup Genuine',
         \A w \in Workers' : \A inp \in pending'[w] :
           inp.data \in Genuine' \/ (w \in Workers /\ inp \in pending[w]),
         \A h \in Hubs : \A inp \in reply'[h].inputs \cup queue'[h] :
           inp.data \in Genuine' \/ inp \in reply[h].inputs \cup queue[h]
  PROVE  InputsGenuine'
  BY DEF InputsGenuine

\* Steps that leave the corpus and the pending lists alone.
LEMMA ServiceSame ==
  ASSUME ServiceInv, TypeOK', UNCHANGED <<up, corpus, pending, diskFaults>>,
         \A h \in Hubs : mine[h] \subseteq mine'[h],
         RequestsSubmitted',
         \A h \in Hubs : reply'[h].inputs \cup queue'[h] \subseteq reply[h].inputs \cup queue[h]
  PROVE  ServiceInv'
  <1>1. Genuine \subseteq Genuine' /\ Workers' = Workers
    BY GenuineGrows DEF Workers
  <1>2. corpus.m \subseteq Genuine
    BY DEF ServiceInv, InputsGenuine
  <1>3. InputsGenuine'
    BY <1>1, <1>2, GenuineStays DEF ServiceInv
  <1> QED  BY <1>3 DEF ServiceInv, CorpusMirrored

\* Requests stay where they are, or move to late; a new one is not a submission.
LEMMA RequestsStay ==
  ASSUME RequestsSubmitted, Submitted \subseteq Submitted',
         \A h \in Hubs : req'[h] = req[h] \/ req'[h].op # "newInput" \/ req'[h].arg \in Submitted',
         \A r \in late' : r \in late \/ \E h \in Hubs : r = req[h]
  PROVE  RequestsSubmitted'
  BY DEF RequestsSubmitted

\* Serving a request keeps its input, or leaves the corpus alone: the input is
\* then known already, or the worker is not, or the request is about a crasher.
LEMMA ServeKeeps ==
  ASSUME TypeOK, NEW r \in Request, Serve(r), UNCHANGED <<mine, triaged>>,
         r.op = "newInput" => r.arg \in Submitted
  PROVE  \/ r.op = "newInput" /\ Known(r.id) /\ Service!Keep(r.arg)
         \/ /\ UNCHANGED <<corpus, diskFaults>>
            /\ r.op = "newInput" /\ Known(r.id) => r.arg \in corpus.m
         \/ r.op = "newCrasher" /\ UNCHANGED corpus /\ diskFaults' > 0
  <1>1. diskFaults \in Nat /\ Submitted' = Submitted
    BY DEF TypeOK, HubTypeOK, Submitted
  <1>2. CASE r.op \in {"connect", "sync"}
    BY <1>2 DEF Serve, Connect, Sync
  <1>3. CASE r.op = "newCrasher"
    BY <1>1, <1>3 DEF Serve, Written, NewCrasher
  <1>4. CASE r.op = "newInput"
    <2>1. PICK written \in Files : Written(written, WritesInput(r)) /\ NewInput(r.id, r.arg, written)
      BY <1>4 DEF Serve
    <2>2. CASE ~WritesInput(r)
      BY <1>4, <2>1, <2>2 DEF Written, WritesInput, NewInput, has
    <2>3. CASE WritesInput(r)
      <3>1. /\ Known(r.id) /\ r.arg \notin corpus.m
            /\ corpus' = add(corpus, r.arg, written)
        BY <2>1, <2>3 DEF WritesInput, NewInput, has
      <3>2. /\ corpus'.m = corpus.m \cup {r.arg}
            /\ corpus'.disk = IF Whole(written) THEN corpus.disk \cup {r.arg} ELSE corpus.disk
            /\ diskFaults' = IF Whole(written) THEN diskFaults ELSE diskFaults + 1
        BY <2>1, <3>1 DEF add, Written
      <3>3. CASE Whole(written)
        BY <1>1, <1>4, <3>1, <3>2, <3>3 DEF Service!Keep
      <3>4. CASE ~Whole(written)
        <4>1. (diskFaults' > 0) = TRUE
          BY <1>1, <3>2, <3>4
        <4> QED  BY <1>1, <1>4, <3>1, <3>2, <3>4, <4>1 DEF Service!Keep
      <3> QED  BY <3>3, <3>4
    <2> QED  BY <2>2, <2>3
  <1> QED  BY <1>2, <1>3, <1>4, RequestFields DEF Request

\* Whatever request is served, the inputs announced and answered are genuine.
LEMMA ServeGenuine ==
  ASSUME ServiceInv, TypeOK', NEW r \in Request, Serve(r), UNCHANGED <<mine, triaged>>,
         r.op = "newInput" => r.arg \in Submitted
  PROVE  /\ Submitted' = Submitted /\ Genuine \subseteq Genuine' /\ CorpusMirrored'
         /\ corpus'.m \subseteq corpus.m \cup Genuine'
         /\ \A w \in Workers' : \A inp \in pending'[w] :
              inp.data \in Genuine' \/ (w \in Workers /\ inp \in pending[w])
         /\ \A inp \in Answer(r).inputs : inp.data \in Genuine
  <1>1. /\ TypeOK /\ InputsGenuine /\ CorpusMirrored /\ diskFaults \in Nat /\ diskFaults' \in Nat
        /\ Submitted' = Submitted
    BY DEF ServiceInv, TypeOK, HubTypeOK, Submitted
  <1>2. \/ r.op = "newInput" /\ Known(r.id) /\ Service!Keep(r.arg)
        \/ UNCHANGED <<corpus, diskFaults>>
        \/ r.op = "newCrasher" /\ UNCHANGED corpus /\ diskFaults' > 0
    BY <1>1, ServeKeeps
  <1>3. /\ corpus.disk \subseteq corpus'.disk /\ (diskFaults > 0 => diskFaults' > 0)
        /\ \A x \in corpus'.m : x \in corpus.m \/ x \in Genuine'
        /\ corpus'.disk \subseteq corpus'.m
    <2>1. CASE Service!Keep(r.arg)
      BY <1>1, <2>1 DEF Service!Keep, Genuine, CorpusMirrored
    <2>2. CASE UNCHANGED corpus /\ (UNCHANGED diskFaults \/ diskFaults' > 0)
      BY <1>1, <2>2 DEF CorpusMirrored
    <2> QED  BY <1>2, <2>1, <2>2
  <1>4. Genuine \subseteq Genuine'
    BY <1>1, <1>3, GenuineGrows
  <1>5. up /\ up'
    BY DEF Serve, Connect, Sync, NewInput, NewCrasher, Free
  <1>6. CorpusMirrored'
    BY <1>1, <1>3, <1>5 DEF CorpusMirrored
  <1>7. ASSUME NEW w \in Workers', NEW inp \in pending'[w]
        PROVE  inp.data \in Genuine' \/ (w \in Workers /\ inp \in pending[w])
    <2>1. CASE r.op = "connect"
      BY <1>7, <2>1 DEF Serve, Connect, Workers
    <2>2. CASE r.op = "sync"
      BY <1>7, <2>2 DEF Serve, Sync, Workers
    <2>3. CASE r.op = "newCrasher"
      BY <1>7, <2>3 DEF Serve, NewCrasher, Workers
    <2>4. CASE r.op = "newInput"
      <3>1. CASE UNCHANGED pending
        BY <1>7, <3>1 DEF Workers
      <3>2. CASE pending' = Announce(r.arg, r.id) /\ ~UNCHANGED pending
        <4>1. inp \in pending[w] \/ inp.data = r.arg
          BY <1>7, <3>2 DEF Announce, Workers
        <4>2. w \in Workers
          BY <1>7, <3>2 DEF Announce, Workers
        <4>3. r.arg \in corpus'.m
          <5>1. PICK written \in Files : NewInput(r.id, r.arg, written)
            BY <2>4 DEF Serve
          <5> QED  BY <3>2, <5>1 DEF NewInput, add
        <4>4. r.arg \in Genuine'
          BY <1>1, <1>3, <1>4, <4>3 DEF InputsGenuine
        <4> QED  BY <4>1, <4>2, <4>4
      <3> QED  BY <2>4, <3>1, <3>2 DEF Serve, NewInput
    <2> QED  BY <2>1, <2>2, <2>3, <2>4 DEF Serve
  <1>8. ASSUME NEW inp \in Answer(r).inputs PROVE inp.data \in Genuine
    <2>1. CASE r.op = "connect"
      BY <1>1, <1>8, <2>1 DEF Answer, ConnectReply, InputsGenuine
    <2>2. CASE r.op = "sync" /\ Known(r.id)
      BY <1>1, <1>8, <2>2 DEF Answer, SyncReply, Known, InputsGenuine
    <2>3. CASE r.op # "connect" /\ ~(r.op = "sync" /\ Known(r.id))
      BY <1>8, <2>3 DEF Answer, NoReply
    <2> QED  BY <2>1, <2>2, <2>3
  <1> QED  BY <1>1, <1>3, <1>4, <1>6, <1>7, <1>8

\* A crash of the coordinator loses pending lists, requests and replies, and nothing
\* of the corpus directory.
LEMMA CrashGenuine ==
  ASSUME ServiceInv, TypeOK', NEW lost \in SUBSET Hubs, CoordinatorCrash(lost) \/ TornCrash(lost)
  PROVE  ServiceInv'
  <1>1. /\ TypeOK /\ RequestsSubmitted /\ InputsGenuine /\ CorpusMirrored
    BY DEF ServiceInv
  <1>2. /\ corpus'.disk = corpus.disk
        /\ corpus'.m \in {corpus.disk, corpus.disk \cup {EmptyFile}}
        /\ newPersistentSet(corpus') = corpus'
        /\ UNCHANGED <<diskFaults, req>>
    BY <1>1, CrashKeepsCorpus
  <1>3. /\ UNCHANGED <<mine, queue>> /\ late' = {} /\ Workers' = {}
        /\ \A h \in Hubs : reply'[h].inputs \subseteq reply[h].inputs
    BY DEF CoordinatorCrash, Crash, TornCrash, CrashLeaving, DropCalls, NoReply, Workers
  <1>4. Submitted \subseteq Submitted' /\ Genuine \subseteq Genuine'
    BY <1>2, <1>3, GenuineGrows
  <1>5. RequestsSubmitted'
    BY <1>1, <1>2, <1>3, <1>4, RequestsStay
  <1>6. corpus'.m \subseteq Genuine'
    BY <1>2 DEF Genuine
  <1>7. InputsGenuine'
    BY <1>1, <1>3, <1>4, <1>6, GenuineStays
  <1>8. CorpusMirrored'
    <2>1. corpus'.disk # {} /\ corpus'.disk \subseteq corpus'.m
      BY <1>1, <1>2 DEF CorpusMirrored
    <2> QED  BY <1>2, <2>1 DEF CorpusMirrored, newPersistentSet
  <1> QED  BY <1>5, <1>7, <1>8 DEF ServiceInv

\* A hub takes what it got from its reply into its queue, and to its workers.
LEMMA HubGenuine ==
  ASSUME ServiceInv, TypeOK', NEW h \in Hubs,
         HubStep(h) \/ Discover(h) \/ TriageStep(h) \/ DialTimeout(h)
  PROVE  ServiceInv'
  <1>1. TypeOK /\ RequestsSubmitted
    BY DEF ServiceInv
  <1>2. UNCHANGED <<up, corpus, pending, diskFaults, late>>
    BY DEF HubStep, Dial, StartSync, Connected, Returned, CallFailed, DialTimeout, Discover,
           AcceptTriaged, AcceptMine, ReportCrash, WorkerStats, TriageStep, Triage, coordVars, histVars
  <1>3. \A g \in Hubs : mine[g] \subseteq mine'[g]
    <2>1. \/ mine' = mine
          \/ \E x \in Inputs : mine' = [mine EXCEPT ![h] = @ \cup {x}]
      BY DEF HubStep, Dial, StartSync, Connected, Returned, CallFailed, DialTimeout, Discover,
             AcceptTriaged, AcceptMine, ReportCrash, WorkerStats, TriageStep, Triage, histVars
    <2> QED  BY <1>1, <2>1 DEF TypeOK, HubTypeOK
  <1>4. \A g \in Hubs : reply'[g].inputs \cup queue'[g] \subseteq reply[g].inputs \cup queue[g]
    <2>1. CASE Connected(h) \/ Returned(h)
      <3>1. /\ reply'[h].inputs = {} /\ queue'[h] \subseteq reply[h].inputs \cup queue[h]
            /\ \A g \in Hubs : g # h => reply'[g] = reply[g] /\ queue'[g] = queue[g]
        <4>1. CASE Connected(h)
          BY <1>1, <4>1, QueueConnected DEF Connected, NoReply, TypeOK, HubTypeOK
        <4>2. CASE Returned(h)
          BY <1>1, <4>2 DEF Returned, NoReply, TypeOK, HubTypeOK
        <4> QED  BY <2>1, <4>1, <4>2
      <3> QED  BY <3>1
    <2>2. CASE TriageStep(h)
      BY <1>1, <2>2 DEF TriageStep, Triage, TypeOK, HubTypeOK
    <2>3. CASE ~(Connected(h) \/ Returned(h) \/ TriageStep(h))
      BY <2>3 DEF HubStep, Dial, StartSync, CallFailed, DialTimeout, Discover,
                  AcceptTriaged, AcceptMine, ReportCrash, WorkerStats
    <2> QED  BY <2>1, <2>2, <2>3
  <1>5. Submitted \subseteq Submitted'
    BY <1>2, <1>3, GenuineGrows
  <1>6. \A g \in Hubs : req'[g] = req[g] \/ req'[g].op # "newInput" \/ req'[g].arg \in Submitted'
    <2>1. CASE \E x \in Inputs : AcceptMine(h, x)
      <3>1. PICK x \in Inputs : AcceptMine(h, x)
        BY <2>1
      <3>2. x \in mine'[h] /\ req'[h].arg = x /\ \A g \in Hubs : g # h => req'[g] = req[g]
        BY <1>1, <3>1 DEF AcceptMine, Call, NewInputReq, TypeOK, HubTypeOK
      <3> QED  BY <3>2 DEF Submitted
    <2>2. CASE ~\E x \in Inputs : AcceptMine(h, x)
      BY <1>1, <2>2
         DEF HubStep, Dial, StartSync, Connected, Returned, CallFailed, DialTimeout, Discover,
             AcceptTriaged, ReportCrash, WorkerStats, TriageStep, Triage, Call, ConnectReq,
             SyncReq, NewCrasherReq, TypeOK, HubTypeOK
    <2> QED  BY <2>1, <2>2
  <1>7. RequestsSubmitted'
    BY <1>1, <1>2, <1>5, <1>6, RequestsStay
  <1> QED  BY <1>2, <1>3, <1>4, <1>7, ServiceSame

\* ServiceInv is inductive.
LEMMA ServiceInvStep == ServiceInv /\ [Next]_vars => ServiceInv'
  <1> SUFFICES ASSUME ServiceInv, [Next]_vars PROVE ServiceInv'
    OBVIOUS
  <1>1. /\ TypeOK /\ RequestsSubmitted /\ InputsGenuine /\ CorpusMirrored /\ TypeOK'
    BY NextType DEF ServiceInv
  <1>2. ASSUME NEW h \in Hubs, HubStep(h) \/ Discover(h) \/ TriageStep(h) \/ DialTimeout(h)
        PROVE  ServiceInv'
    BY <1>1, <1>2, HubGenuine
  <1>3. ASSUME NEW r \in Request, Serve(r), UNCHANGED <<mine, triaged, queue, req>>,
               r.op = "newInput" => r.arg \in Submitted, late' \subseteq late,
               \A h \in Hubs : reply'[h] = reply[h] \/ reply'[h] = Answer(r)
        PROVE  ServiceInv'
    <2>1. /\ Submitted' = Submitted /\ Genuine \subseteq Genuine' /\ CorpusMirrored'
          /\ corpus'.m \subseteq corpus.m \cup Genuine'
          /\ \A w \in Workers' : \A inp \in pending'[w] :
               inp.data \in Genuine' \/ (w \in Workers /\ inp \in pending[w])
          /\ \A inp \in Answer(r).inputs : inp.data \in Genuine
      BY <1>1, <1>3, ServeGenuine
    <2>2. InputsGenuine'
      BY <1>1, <1>3, <2>1, GenuineStays
    <2>3. RequestsSubmitted'
      BY <1>1, <1>3, <2>1, RequestsStay
    <2> QED  BY <1>1, <2>1, <2>2, <2>3 DEF ServiceInv
  <1>4. ASSUME NEW h \in Hubs, HandleCall(h) PROVE ServiceInv'
    <2>1. req[h] \in Request /\ (req[h].op = "newInput" => req[h].arg \in Submitted)
      BY <1>1 DEF RequestsSubmitted, TypeOK, HubTypeOK
    <2>2. \A g \in Hubs : reply'[g] = reply[g] \/ reply'[g] = Answer(req[h])
      BY <1>1, <1>4 DEF HandleCall, TypeOK, HubTypeOK
    <2> QED  BY <1>3, <1>4, <2>1, <2>2 DEF HandleCall
  <1>5. ASSUME NEW r \in late, HandleLate(r) PROVE ServiceInv'
    <2>1. r \in Request /\ (r.op = "newInput" => r.arg \in Submitted)
      BY <1>1 DEF RequestsSubmitted, TypeOK, HubTypeOK
    <2> QED  BY <1>3, <1>5, <2>1 DEF HandleLate
  <1>6. CASE HandleCrasher
    <2>1. /\ UNCHANGED <<up, corpus, pending, mine, reply, queue, req, late>>
          /\ diskFaults > 0 => diskFaults' > 0
      BY <1>1, <1>6 DEF HandleCrasher, Written, SaveCrasher, DescribeCrasher, TypeOK, HubTypeOK
    <2>2. Submitted \subseteq Submitted' /\ Genuine \subseteq Genuine' /\ Workers' = Workers
      BY <2>1, GenuineGrows DEF Workers
    <2>3. InputsGenuine'
      BY <1>1, <2>1, <2>2, GenuineStays
    <2>4. RequestsSubmitted'
      BY <1>1, <2>1, <2>2, RequestsStay
    <2> QED  BY <1>1, <2>1, <2>3, <2>4 DEF ServiceInv, CorpusMirrored
  <1>7. ASSUME NEW h \in Hubs, NEW keep \in BOOLEAN, LoseConnection(h, keep) PROVE ServiceInv'
    <2>1. /\ UNCHANGED <<up, corpus, pending, diskFaults, mine, queue, req>>
          /\ \A r \in late' : r \in late \/ r = req[h]
          /\ \A g \in Hubs : reply'[g].inputs \subseteq reply[g].inputs
      BY <1>1, <1>7 DEF LoseConnection, coordVars, NoReply, TypeOK, HubTypeOK
    <2>2. RequestsSubmitted'
      BY <1>1, <2>1, RequestsStay DEF Submitted
    <2> QED  BY <1>1, <2>1, <2>2, ServiceSame
  <1>8. ASSUME NEW w \in Workers, Nuke(w) PROVE ServiceInv'
    <2>1. /\ UNCHANGED <<up, corpus, diskFaults, mine, queue, req, late, reply>>
          /\ \A v \in Workers' : v \in Workers /\ pending'[v] = pending[v]
      BY <1>8 DEF Nuke, NukeDead, hubVars, Workers
    <2>2. Submitted \subseteq Submitted' /\ Genuine \subseteq Genuine'
      BY <2>1, GenuineGrows
    <2>3. InputsGenuine'
      BY <1>1, <2>1, <2>2, GenuineStays
    <2>4. RequestsSubmitted'
      BY <1>1, <2>1, <2>2, RequestsStay
    <2> QED  BY <1>1, <2>1, <2>3, <2>4 DEF ServiceInv, CorpusMirrored
  <1>9. ASSUME NEW lost \in SUBSET Hubs, CoordinatorCrash(lost) \/ TornCrash(lost)
        PROVE  ServiceInv'
    BY <1>1, <1>9, CrashGenuine
  <1>10. CASE CoordinatorRestart
    <2>1. corpus' = corpus
      BY <1>1, <1>10, RestartKeepsCorpus DEF CoordinatorRestart, Restart, CorpusMirrored
    <2>2. UNCHANGED <<pending, diskFaults, mine, queue, req, late, reply>>
      BY <1>10 DEF CoordinatorRestart, Restart, hubVars, histVars
    <2>3. Submitted \subseteq Submitted' /\ Genuine \subseteq Genuine' /\ Workers' = Workers
      BY <2>1, <2>2, GenuineGrows DEF Workers
    <2>4. InputsGenuine'
      BY <1>1, <2>1, <2>2, <2>3, GenuineStays
    <2>5. RequestsSubmitted'
      BY <1>1, <2>2, <2>3, RequestsStay
    <2>6. CorpusMirrored'
      BY <1>1, <1>10, <2>1 DEF CorpusMirrored, CoordinatorRestart, Restart
    <2> QED  BY <1>1, <2>4, <2>5, <2>6 DEF ServiceInv
  <1>11. CASE AllHubsDead \/ UNCHANGED vars
    <2>1. UNCHANGED vars
      BY <1>11 DEF AllHubsDead
    <2>2. Submitted' = Submitted
      BY <2>1 DEF vars, histVars, Submitted
    <2>3. RequestsSubmitted'
      BY <1>1, <2>1, <2>2, RequestsStay DEF vars, hubVars
    <2> QED  BY <1>1, <2>1, <2>3, ServiceSame DEF vars, coordVars, hubVars, histVars
  <1> QED  BY <1>2, <1>4, <1>5, <1>6, <1>7, <1>8, <1>9, <1>10, <1>11 DEF Next, Serving, Disturbance

-----------------------------------------------------------------------------
(* Each step is a step of CorpusService, or one that it does not see.      *)

\* Nobody's submission moves.
LEMMA SubmissionsSame ==
  ASSUME \A h \in Hubs : Submission(h)' = Submission(h)
  PROVE  Submissions' = Submissions
  BY DEF Submissions

\* The submission of one hub moves.
LEMMA SubmissionMoves ==
  ASSUME NEW h \in Hubs, NEW v, Submission(h)' = v,
         \A g \in Hubs : g # h => Submission(g)' = Submission(g)
  PROVE  Submissions' = [Submissions EXCEPT ![h] = v]
  BY DEF Submissions

\* Where a hub stands that is handing in an input, and one that is not.
LEMMA SubmissionStates ==
  ASSUME NEW h \in Hubs
  PROVE  /\ Submissions[h] = Submission(h)
         /\ req[h].op = "newInput" /\ status[h] \in {"sent", "done", "failed"} =>
              Submission(h) = [input |-> req[h].arg, state |-> status[h]]
         /\ ~(req[h].op = "newInput" /\ status[h] \in {"sent", "done", "failed"}) =>
              Submission(h) = Service!NoCall
  BY DEF Submissions, Submission, Service!NoCall

\* Steps that the service does not see.
LEMMA ServiceStutters ==
  ASSUME UNCHANGED <<corpus, diskFaults, mine, triaged>>,
         \A h \in Hubs : Submission(h)' = Submission(h)
  PROVE  UNCHANGED Service!serviceVars
  BY SubmissionsSame DEF Service!serviceVars, Submitted

\* A hub hands in an input, gives its workers one, or gets its call back.
LEMMA HubServes ==
  ASSUME TypeOK, TypeOK', CallState, InputsGenuine, NEW h \in Hubs,
         HubStep(h) \/ Discover(h) \/ TriageStep(h) \/ DialTimeout(h)
  PROVE  [Service!Next]_(Service!serviceVars)
  <1> USE DEF TypeOK, HubTypeOK
  <1>1. CASE \/ Dial(h) \/ StartSync(h) \/ DialTimeout(h)
             \/ \E x \in Data : AcceptTriaged(h, x)
             \/ \E c \in CrashInputs : ReportCrash(h, c)
             \/ WorkerStats(h)
    <2>1. UNCHANGED <<corpus, diskFaults, mine, triaged>>
      BY <1>1 DEF Dial, StartSync, DialTimeout, AcceptTriaged, ReportCrash, WorkerStats,
                  coordVars, histVars
    <2>2. \A g \in Hubs : g # h => status'[g] = status[g] /\ req'[g] = req[g]
      BY <1>1 DEF Dial, StartSync, DialTimeout, AcceptTriaged, ReportCrash, WorkerStats, Call
    <2>3. status[h] \in {"dial", "idle"}
      BY <1>1 DEF Dial, StartSync, DialTimeout, AcceptTriaged, ReportCrash, WorkerStats
    <2>4. req'[h].op # "newInput" \/ status'[h] \in {"idle", "dead"}
      BY <1>1 DEF Dial, StartSync, DialTimeout, AcceptTriaged, ReportCrash, WorkerStats, Call,
                  ConnectReq, SyncReq, NewCrasherReq
    <2>5. \A g \in Hubs : Submission(g)' = Submission(g)
      BY <2>2, <2>3, <2>4 DEF Submission
    <2> QED  BY <2>1, <2>5, ServiceStutters
  <1>2. ASSUME NEW x \in Inputs, AcceptMine(h, x) PROVE Service!Next
    <2>1. /\ UNCHANGED <<corpus, diskFaults, triaged>>
          /\ status[h] = "idle" /\ status'[h] \in {"sent", "failed"}
          /\ req'[h].op = "newInput" /\ req'[h].arg = x
          /\ \A g \in Hubs : g # h => status'[g] = status[g] /\ req'[g] = req[g]
      BY <1>2 DEF AcceptMine, Call, NewInputReq, coordVars
    <2>2. Submitted' = Submitted \cup {x}
      <3>1. mine' = [mine EXCEPT ![h] = @ \cup {x}]
        BY <1>2 DEF AcceptMine
      <3> QED  BY <3>1 DEF Submitted
    <2>3. PICK state \in {"sent", "failed"} : state = status'[h]
      BY <2>1
    <2>4. Submission(h)' = [input |-> x, state |-> state]
      BY <2>1, <2>3 DEF Submission
    <2>5. \A g \in Hubs : g # h => Submission(g)' = Submission(g)
      BY <2>1 DEF Submission
    <2>6. Submissions' = [Submissions EXCEPT ![h] = [input |-> x, state |-> state]]
      BY <2>4, <2>5, SubmissionMoves
    <2>7. Submissions[h] = Service!NoCall
      BY <2>1, SubmissionStates
    <2>8. Service!Submit(h, x)
      BY <2>1, <2>2, <2>6, <2>7 DEF Service!Submit
    <2> QED  BY <2>8 DEF Service!Next
  <1>3. ASSUME NEW inp \in queue[h], Triage(h, inp) PROVE Service!Next
    <2>1. UNCHANGED <<corpus, diskFaults, mine, status, req>>
      BY <1>3 DEF Triage, coordVars
    <2>2. Submissions' = Submissions /\ Submitted' = Submitted
      BY <2>1 DEF Submissions, Submission, Submitted
    <2>3. triaged' = [triaged EXCEPT ![h] = @ \cup {inp.data}]
      BY <1>3 DEF Triage
    <2>4. inp.data \in Genuine /\ inp.data \in Data
      BY DEF InputsGenuine, CoordinatorInput
    <2>5. inp.data \in corpus.disk \cup {EmptyFile} \/ (diskFaults > 0 /\ inp.data \in Submitted)
      BY <2>4 DEF Genuine
    <2>6. Service!Give(h, inp.data)
      BY <2>1, <2>2, <2>3, <2>5 DEF Service!Give
    <2> QED  BY <2>4, <2>6 DEF Service!Next, Data
  <1>4. ASSUME Connected(h) \/ Returned(h) \/ CallFailed(h)
        PROVE  [Service!Next]_(Service!serviceVars)
    <2>1. /\ UNCHANGED <<corpus, diskFaults, mine, triaged, req>>
          /\ \A g \in Hubs : g # h => status'[g] = status[g]
          /\ status[h] \in {"done", "failed"} /\ status'[h] \in {"idle", "dead", "dial"}
      BY <1>4 DEF Connected, Returned, CallFailed, coordVars, histVars
    <2>2. /\ \A g \in Hubs : g # h => Submission(g)' = Submission(g)
          /\ Submission(h)' = Service!NoCall
      BY <2>1 DEF Submission, Service!NoCall
    <2>3. CASE req[h].op = "newInput"
      <3>1. Submissions[h] = [input |-> req[h].arg, state |-> status[h]]
        BY <2>1, <2>3, SubmissionStates
      <3>2. Submissions' = [Submissions EXCEPT ![h] = Service!NoCall]
        BY <2>2, SubmissionMoves
      <3>3. Service!Return(h)
        BY <2>1, <3>1, <3>2 DEF Service!Return, Submitted
      <3> QED  BY <3>3 DEF Service!Next
    <2>4. CASE req[h].op # "newInput"
      <3>1. Submission(h) = Service!NoCall
        BY <2>4, SubmissionStates
      <3> QED  BY <2>1, <2>2, <3>1, ServiceStutters
    <2> QED  BY <2>3, <2>4
  <1> QED  BY <1>1, <1>2, <1>3, <1>4 DEF HubStep, Discover, TriageStep

\* A served call: the input is kept and the call accepted, or it fails.
LEMMA CallServes ==
  ASSUME TypeOK, RequestsSubmitted, NEW h \in Hubs, HandleCall(h)
  PROVE  [Service!Next]_(Service!serviceVars)
  <1> USE DEF TypeOK, HubTypeOK
  <1> DEFINE r == req[h]
  <1>1. /\ r \in Request /\ Serve(r) /\ status[h] = "sent"
        /\ r.op = "newInput" => r.arg \in Submitted
        /\ UNCHANGED <<mine, triaged, req>>
    BY DEF HandleCall, RequestsSubmitted
  <1>2. status'[h] = Outcome(r) /\ \A g \in Hubs : g # h => status'[g] = status[g]
    BY DEF HandleCall
  <1>3. \/ r.op = "newInput" /\ Known(r.id) /\ Service!Keep(r.arg)
        \/ /\ UNCHANGED <<corpus, diskFaults>>
           /\ r.op = "newInput" /\ Known(r.id) => r.arg \in corpus.m
        \/ r.op = "newCrasher" /\ UNCHANGED corpus /\ diskFaults' > 0
    BY <1>1, ServeKeeps
  <1>4. \A g \in Hubs : g # h => Submission(g)' = Submission(g)
    BY <1>1, <1>2 DEF Submission
  <1>5. Submitted' = Submitted
    BY <1>1 DEF Submitted
  <1>6. CASE r.op # "newInput"
    <2>1. Submission(h)' = Submission(h)
      BY <1>1, <1>6 DEF Submission
    <2>2. CASE UNCHANGED <<corpus, diskFaults>>
      BY <1>1, <1>4, <2>1, <2>2, ServiceStutters
    <2>3. CASE UNCHANGED corpus /\ diskFaults' > 0
      <3>1. Submissions' = Submissions
        BY <1>4, <2>1, SubmissionsSame
      <3>2. (diskFaults' > 0) = TRUE
        BY <2>3
      <3> QED  BY <1>1, <1>5, <2>3, <3>1, <3>2 DEF Service!Next, Service!Degrade
    <2> QED  BY <1>3, <1>6, <2>2, <2>3
  <1>7. CASE r.op = "newInput" /\ Known(r.id)
    <2>1. status'[h] = "done"
      BY <1>2, <1>7 DEF Outcome
    <2>2. Submissions[h] = [input |-> r.arg, state |-> "sent"]
      BY <1>1, <1>7, SubmissionStates
    <2>3. Submission(h)' = [input |-> r.arg, state |-> "done"]
      BY <1>1, <1>7, <2>1 DEF Submission
    <2>4. Submissions' = [Submissions EXCEPT ![h] = [input |-> r.arg, state |-> "done"]]
      BY <1>4, <2>3, SubmissionMoves
    <2>5. Submissions' = [Submissions EXCEPT ![h].state = "done"]
      <3>1. [Submissions[h] EXCEPT !.state = "done"] = [input |-> r.arg, state |-> "done"]
        BY <2>2
      <3> QED  BY <2>4, <3>1
    <2>6. Service!Accept(h)
      BY <1>1, <1>3, <1>5, <1>7, <2>2, <2>5 DEF Service!Accept
    <2> QED  BY <2>6 DEF Service!Next
  <1>8. CASE r.op = "newInput" /\ ~Known(r.id)
    <2>1. status'[h] = "failed" /\ UNCHANGED <<corpus, diskFaults>>
      BY <1>2, <1>3, <1>8 DEF Outcome
    <2>2. Submissions[h] = [input |-> r.arg, state |-> "sent"]
      BY <1>1, <1>8, SubmissionStates
    <2>3. Submission(h)' = [input |-> r.arg, state |-> "failed"]
      BY <1>1, <1>8, <2>1 DEF Submission
    <2>4. Submissions' = [Submissions EXCEPT ![h] = [input |-> r.arg, state |-> "failed"]]
      BY <1>4, <2>3, SubmissionMoves
    <2>5. Submissions' = [Submissions EXCEPT ![h].state = "failed"]
      <3>1. [Submissions[h] EXCEPT !.state = "failed"] = [input |-> r.arg, state |-> "failed"]
        BY <2>2
      <3> QED  BY <2>4, <3>1
    <2>6. Service!Fail(h)
      BY <1>1, <1>5, <2>1, <2>2, <2>5 DEF Service!Fail
    <2> QED  BY <2>6 DEF Service!Next
  <1> QED  BY <1>6, <1>7, <1>8

\* A call that breaks off fails, wherever it stood.
LEMMA CutServes ==
  ASSUME TypeOK, CallState, NEW h \in Hubs, NEW keep \in BOOLEAN, LoseConnection(h, keep)
  PROVE  [Service!Next]_(Service!serviceVars)
  <1> USE DEF TypeOK, HubTypeOK
  <1>1. /\ UNCHANGED <<corpus, diskFaults, mine, triaged, req>>
        /\ \A g \in Hubs : g # h => status'[g] = status[g]
        /\ status'[h] = IF status[h] \in InCall THEN "failed" ELSE status[h]
    BY DEF LoseConnection, coordVars
  <1>2. \A g \in Hubs : g # h => Submission(g)' = Submission(g)
    BY <1>1 DEF Submission
  <1>3. CASE req[h].op = "newInput" /\ status[h] \in {"sent", "done"}
    <2>1. Submissions[h] = [input |-> req[h].arg, state |-> status[h]]
      BY <1>3, SubmissionStates
    <2>2. Submission(h)' = [input |-> req[h].arg, state |-> "failed"]
      BY <1>1, <1>3 DEF Submission, InCall
    <2>3. Submissions' = [Submissions EXCEPT ![h] = [input |-> req[h].arg, state |-> "failed"]]
      BY <1>2, <2>2, SubmissionMoves
    <2>4. Submissions' = [Submissions EXCEPT ![h].state = "failed"]
      <3>1. [Submissions[h] EXCEPT !.state = "failed"] = [input |-> req[h].arg, state |-> "failed"]
        BY <2>1
      <3> QED  BY <2>3, <3>1
    <2>5. Service!Fail(h)
      BY <1>1, <1>3, <2>1, <2>4 DEF Service!Fail, Submitted
    <2> QED  BY <2>5 DEF Service!Next
  <1>4. CASE ~(req[h].op = "newInput" /\ status[h] \in {"sent", "done"})
    <2>1. Submission(h)' = Submission(h)
      BY <1>1, <1>4 DEF Submission, InCall, CallState
    <2> QED  BY <1>1, <1>2, <2>1, ServiceStutters
  <1> QED  BY <1>3, <1>4

\* A crash of the coordinator is a crash of the service.
LEMMA CrashServes ==
  ASSUME TypeOK, CallState, NEW lost \in SUBSET Hubs, CoordinatorCrash(lost) \/ TornCrash(lost)
  PROVE  Service!Crash
  <1>1. UNCHANGED <<diskFaults, mine, triaged, req>>
    BY DEF CoordinatorCrash, TornCrash, DropCalls
  <1>2. corpus'.disk = corpus.disk /\ corpus'.m \in {corpus.disk, corpus.disk \cup {EmptyFile}}
    BY CrashKeepsCorpus
  <1>3. \A h \in Hubs :
          status'[h] = IF status[h] \in {"sent", "running"} \/ (status[h] = "done" /\ h \in lost)
                       THEN "failed" ELSE status[h]
    BY DEF CoordinatorCrash, TornCrash, DropCalls
  <1>4. ASSUME NEW h \in Hubs
        PROVE  Submission(h)' =
                 IF Submissions[h].state = "sent" \/ (Submissions[h].state = "done" /\ h \in lost)
                 THEN [Submissions[h] EXCEPT !.state = "failed"] ELSE Submissions[h]
    <2>1. CASE req[h].op = "newInput" /\ status[h] \in {"sent", "done", "failed"}
      <3>1. Submissions[h] = [input |-> req[h].arg, state |-> status[h]]
        BY <2>1, SubmissionStates
      <3>2. Submission(h)' = [input |-> req[h].arg, state |-> status'[h]]
        BY <1>1, <1>3, <2>1 DEF Submission
      <3> QED  BY <1>3, <2>1, <3>1, <3>2
    <2>2. CASE ~(req[h].op = "newInput" /\ status[h] \in {"sent", "done", "failed"})
      <3>1. Submissions[h] = Service!NoCall
        BY <2>2, SubmissionStates
      <3>2. Submission(h)' = Service!NoCall
        BY <1>1, <1>3, <2>2 DEF Submission, Service!NoCall, CallState
      <3> QED  BY <3>1, <3>2 DEF Service!NoCall
    <2> QED  BY <2>1, <2>2
  <1>5. Submissions' =
          [h \in Hubs |->
             IF Submissions[h].state = "sent" \/ (Submissions[h].state = "done" /\ h \in lost)
             THEN [Submissions[h] EXCEPT !.state = "failed"] ELSE Submissions[h]]
    BY <1>4 DEF Submissions
  <1>6. Submitted' = Submitted
    BY <1>1 DEF Submitted
  <1> QED  BY <1>1, <1>2, <1>5, <1>6 DEF Service!Crash

\* Every step of the cluster is a step of the service, or not seen by it.
LEMMA ServiceStep ==
  ASSUME ServiceInv, CallState, [Next]_vars
  PROVE  [Service!Next]_(Service!serviceVars)
  <1> DEFINE Goal == [Service!Next]_(Service!serviceVars)
  <1> SUFFICES Goal
    OBVIOUS
  <1>1. /\ TypeOK /\ RequestsSubmitted /\ InputsGenuine /\ CorpusMirrored /\ TypeOK'
    BY NextType DEF ServiceInv
  <1>2. ASSUME NEW h \in Hubs, HubStep(h) \/ Discover(h) \/ TriageStep(h) \/ DialTimeout(h)
        PROVE  Goal
    BY <1>1, <1>2, HubServes
  <1>3. ASSUME NEW h \in Hubs, HandleCall(h) PROVE Goal
    BY <1>1, <1>3, CallServes
  <1>4. ASSUME UNCHANGED <<mine, triaged, corpus>>,
               \A h \in Hubs : Submission(h)' = Submission(h),
               UNCHANGED diskFaults \/ diskFaults' > 0
        PROVE  Goal
    <2>1. CASE UNCHANGED diskFaults
      BY <1>4, <2>1, ServiceStutters
    <2>2. CASE diskFaults' > 0
      <3>1. Submissions' = Submissions /\ Submitted' = Submitted /\ (diskFaults' > 0) = TRUE
        BY <1>4, <2>2, SubmissionsSame DEF Submitted
      <3> QED  BY <1>4, <3>1 DEF Service!Next, Service!Degrade
    <2> QED  BY <1>4, <2>1, <2>2
  <1>5. ASSUME NEW r \in late, HandleLate(r) PROVE Goal
    <2>1. /\ r \in Request /\ Serve(r) /\ (r.op = "newInput" => r.arg \in Submitted)
          /\ UNCHANGED <<mine, triaged, req, status>>
      BY <1>1, <1>5 DEF HandleLate, RequestsSubmitted, TypeOK, HubTypeOK
    <2>2. \A h \in Hubs : Submission(h)' = Submission(h)
      BY <2>1 DEF Submission
    <2>3. CASE r.op = "newInput" /\ Service!Keep(r.arg)
      <3>1. Submissions' = Submissions /\ r.arg \in Inputs
        BY <2>1, <2>2, <2>3, SubmissionsSame, RequestFields
      <3> QED  BY <2>3, <3>1 DEF Service!Next, Service!KeepLate
    <2>4. CASE UNCHANGED corpus /\ (UNCHANGED diskFaults \/ diskFaults' > 0)
      BY <1>4, <2>1, <2>2, <2>4
    <2> QED  BY <1>1, <2>1, <2>3, <2>4, ServeKeeps
  <1>6. CASE HandleCrasher
    <2>1. /\ UNCHANGED <<corpus, mine, triaged, req>>
          /\ UNCHANGED diskFaults \/ diskFaults' > 0
      BY <1>1, <1>6 DEF HandleCrasher, Written, SaveCrasher, DescribeCrasher, TypeOK, HubTypeOK
    <2>2. \A h \in Hubs : status'[h] = status[h] \/ req[h].op # "newInput"
      BY <1>6 DEF HandleCrasher, CrasherDone, CallState
    <2>3. \A h \in Hubs : Submission(h)' = Submission(h)
      BY <2>1, <2>2 DEF Submission
    <2> QED  BY <1>4, <2>1, <2>3
  <1>7. ASSUME NEW h \in Hubs, NEW keep \in BOOLEAN, LoseConnection(h, keep) PROVE Goal
    BY <1>1, <1>7, CutServes
  <1>8. ASSUME NEW lost \in SUBSET Hubs, CoordinatorCrash(lost) \/ TornCrash(lost) PROVE Goal
    BY <1>1, <1>8, CrashServes DEF Service!Next
  <1>9. CASE CoordinatorRestart
    <2>1. corpus' = corpus
      BY <1>1, <1>9, RestartKeepsCorpus DEF CoordinatorRestart, Restart, CorpusMirrored
    <2>2. UNCHANGED <<diskFaults, mine, triaged, req, status>>
      BY <1>9 DEF CoordinatorRestart, hubVars, histVars
    <2>3. Submissions' = Submissions /\ Submitted' = Submitted
      BY <2>2 DEF Submissions, Submission, Submitted
    <2> QED  BY <2>1, <2>2, <2>3 DEF Service!serviceVars
  <1>10. CASE AllHubsDead \/ UNCHANGED vars \/ \E w \in Workers : Nuke(w)
    <2>1. UNCHANGED <<corpus, diskFaults, mine, triaged, req, status>>
      BY <1>10 DEF AllHubsDead, Nuke, NukeDead, vars, coordVars, hubVars, histVars
    <2>2. \A h \in Hubs : Submission(h)' = Submission(h)
      BY <2>1 DEF Submission
    <2> QED  BY <1>4, <2>1, <2>2
  <1> QED  BY <1>2, <1>3, <1>5, <1>6, <1>7, <1>8, <1>9, <1>10 DEF Next, Serving, Disturbance

\* Cluster implements CorpusService: through lost connections, abandoned requests, nukes,
\* failed writes and crashes at any point, an input handed in is stored before its call is
\* answered, nothing stored is lost, and hubs are given stored inputs, or the empty one.
THEOREM ImplementsCorpusService == Spec => CorpusServiceSpec
  <1>1. Init => ServiceInv /\ Service!Init
    <2> SUFFICES ASSUME Init PROVE ServiceInv /\ Service!Init
      OBVIOUS
    <2>1. /\ corpus.disk = (IF UserCorpus = {} THEN {EmptyFile} ELSE UserCorpus)
          /\ corpus.m = corpus.disk /\ up /\ Workers = {} /\ late = {} /\ diskFaults = 0
          /\ \A h \in Hubs : /\ reply[h].inputs = {} /\ queue[h] = {}
                             /\ mine[h] = {} /\ status[h] = "dial" /\ req[h].op = "connect"
      BY DEF Init, InitWith, CoordInit, LoadCorpus, newPersistentSet, NoFiles, Workers, NoReply,
             ConnectReq
    <2>2. RequestsSubmitted /\ InputsGenuine /\ CorpusMirrored
      BY <2>1 DEF RequestsSubmitted, InputsGenuine, CorpusMirrored, Genuine
    <2>3. Submitted = {} /\ (diskFaults > 0) = FALSE
      BY <2>1 DEF Submitted
    <2>4. Submissions = [h \in Hubs |-> Service!NoCall]
      BY <2>1 DEF Submissions, Submission, Service!NoCall
    <2>5. triaged = [h \in Hubs |-> {}]
      BY DEF Init, InitWith
    <2>6. Service!Init
      BY <2>1, <2>3, <2>4, <2>5 DEF Service!Init
    <2> QED  BY <2>2, <2>6, InitType DEF ServiceInv
  <1>2. ServiceInv /\ CallState /\ [Next]_vars => [Service!Next]_(Service!serviceVars)
    BY ServiceStep
  <1>3. ReachInv => CallState
    BY DEF ReachInv
  <1> QED  BY <1>1, <1>2, <1>3, ServiceInvStep, ReachInit, ReachStep, PTL
           DEF Spec, CorpusServiceSpec, Service!Spec
=============================================================================
