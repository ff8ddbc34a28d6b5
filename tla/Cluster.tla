------------------------------- MODULE Cluster -------------------------------
(***************************************************************************)
(* One coordinator and the worker processes (hubs) that talk to it:        *)
(* coordinator.go composed with the RPC side of hub.go (connect and the    *)
(* calls made by Hub.loop).  A hub has a single goroutine that makes       *)
(* calls, and each call blocks it, so a hub has one call at a time; its    *)
(* progress is `status`:                                                   *)
(*   idle     in the select of Hub.loop                                    *)
(*   sent     the request is on its way or waits for c.mu                  *)
(*   running  the coordinator is inside NewCrasher for this call           *)
(*   done     the reply is on its way                                      *)
(*   failed   the call returned an error                                   *)
(*   dial     in connect(), dialing                                        *)
(*   dead     loop returned ("killing worker")                             *)
(* A request of a broken connection may have been read by the coordinator  *)
(* and be served later: it waits in `late`.  What workers do between       *)
(* calls (triage, fuzzing) appears as the inputs, crashes and statistics   *)
(* they hand to the hub; module Hub has the detail.                        *)
(***************************************************************************)
EXTENDS Coordinator

CONSTANTS
  Hubs,
  MaxExecs,      \* bound: executions reported by workers, all hubs together
  MaxCrashes,    \* bound: crashes reported by workers, all hubs together
  MaxFaults,     \* bound: broken connections, silences, coordinator crashes
  MaxDiskFaults  \* bound: failed file writes

ASSUME ClusterAssumption ==
  /\ IsFiniteSet(Inputs)
  /\ MaxExecs \in Nat /\ MaxCrashes \in Nat
  /\ MaxFaults \in Nat /\ MaxDiskFaults \in Nat

VARIABLES
  conn,          \* hub.coordinator is a working connection
  id,            \* hub.id
  status, req, reply,
  queue,         \* hub.triageQueue, without its order
  sigs,          \* hub.corpusSigs: the inputs of the hub's corpus
  supps,         \* ro.suppressions
  stats,         \* hub.stats
  late,          \* requests of broken connections the coordinator may serve
  \* History, for the properties and the bounds.
  triaged,       \* inputs the hub handed to its workers
  smashes,       \* how often an input was handed out to be smashed
  mine,          \* inputs the hub found and sent to the coordinator
  executed, crashed, faults, diskFaults

hubVars  == <<conn, id, status, req, reply, queue, sigs, supps, stats, late>>
histVars == <<triaged, smashes, mine, executed, crashed, faults, diskFaults>>
vars     == <<coordVars, hubVars, histVars>>

ConnectReq           == [op |-> "connect", id |-> 0, arg |-> EmptyFile, n |-> 0]
NewInputReq(w, x)    == [op |-> "newInput", id |-> w, arg |-> x, n |-> 0]
NewCrasherReq(c)     == [op |-> "newCrasher", id |-> 0, arg |-> c, n |-> 0]
SyncReq(w, e, cover) == [op |-> "sync", id |-> w, arg |-> cover, n |-> e]

Request ==
  [op : {"connect"}, id : {0}, arg : {EmptyFile}, n : {0}]
    \cup [op : {"newInput"}, id : Nat, arg : Inputs, n : {0}]
    \cup [op : {"newCrasher"}, id : {0}, arg : CrashInputs, n : {0}]
    \cup [op : {"sync"}, id : Nat, arg : Nat, n : Nat]

InCall == {"sent", "running", "done"}
Status == InCall \cup {"idle", "failed", "dial", "dead"}
NoReply == [id |-> 0, inputs |-> {}]

HubTypeOK ==
  /\ conn \in [Hubs -> BOOLEAN] /\ id \in [Hubs -> Nat]
  /\ status \in [Hubs -> Status] /\ req \in [Hubs -> Request]
  /\ reply \in [Hubs -> [id : Nat, inputs : SUBSET CoordinatorInput]]
  /\ queue \in [Hubs -> SUBSET CoordinatorInput]
  /\ sigs \in [Hubs -> SUBSET Data]
  /\ supps \in [Hubs -> SUBSET Suppressions]
  /\ stats \in [Hubs -> Nat]
  /\ late \subseteq Request
  /\ triaged \in [Hubs -> SUBSET Data] /\ smashes \in [Data -> Nat]
  /\ mine \in [Hubs -> SUBSET Inputs]
  /\ executed \in Nat /\ crashed \in Nat
  /\ faults \in Nat /\ diskFaults \in Nat

TypeOK == CoordTypeOK /\ HubTypeOK

\* The loops of the hubs in started run; that of another hub has ended.
InitWith(started) ==
  /\ CoordInit
  /\ conn = [h \in Hubs |-> FALSE] /\ id = [h \in Hubs |-> 0]
  /\ status = [h \in Hubs |-> IF h \in started THEN "dial" ELSE "dead"]
  /\ req = [h \in Hubs |-> ConnectReq]
  /\ reply = [h \in Hubs |-> NoReply]
  /\ queue = [h \in Hubs |-> {}] /\ sigs = [h \in Hubs |-> {}]
  /\ supps = [h \in Hubs |-> {}] /\ stats = [h \in Hubs |-> 0]
  /\ late = {}
  /\ triaged = [h \in Hubs |-> {}] /\ smashes = [x \in Data |-> 0]
  /\ mine = [h \in Hubs |-> {}]
  /\ executed = 0 /\ crashed = 0 /\ faults = 0 /\ diskFaults = 0

Init == InitWith(Hubs)

-----------------------------------------------------------------------------
(* Hub.connect: Dial, polled until it works or -connectiontimeout passes,  *)
(* then the Connect call on the new connection.                            *)

Dial(h) ==
  /\ status[h] = "dial" /\ up
  /\ conn' = [conn EXCEPT ![h] = TRUE]
  /\ req' = [req EXCEPT ![h] = ConnectReq]
  /\ status' = [status EXCEPT ![h] = "sent"]
  /\ UNCHANGED <<coordVars, histVars, id, reply, queue, sigs, supps, stats, late>>

DialTimeout(h) ==
  /\ status[h] = "dial" /\ ~up
  /\ status' = [status EXCEPT ![h] = "dead"]
  /\ UNCHANGED <<coordVars, histVars, conn, id, req, reply, queue, sigs, supps,
                 stats, late>>

-----------------------------------------------------------------------------
(* The select of Hub.loop.  A call on a broken connection fails at once.   *)

Call(h, r) ==
  /\ req' = [req EXCEPT ![h] = r]
  /\ status' = [status EXCEPT ![h] = IF conn[h] THEN "sent" ELSE "failed"]

\* Faulty variant: the statistics are not reset.
StartSyncKeeping(h) ==
  /\ status[h] = "idle"
  /\ Call(h, SyncReq(id[h], stats[h], Cardinality(sigs[h])))
  /\ UNCHANGED <<coordVars, histVars, conn, id, reply, queue, sigs, supps, stats, late>>

\* syncTicker: the statistics are zeroed before the call is made.
StartSync(h) ==
  /\ status[h] = "idle"
  /\ Call(h, SyncReq(id[h], stats[h], Cardinality(sigs[h])))
  /\ stats' = [stats EXCEPT ![h] = 0]
  /\ UNCHANGED <<coordVars, histVars, conn, id, reply, queue, sigs, supps, late>>

\* triageC <- triageInput: a worker takes an input; an unsmashed one (already
\* minimized) is smashed by that worker.
Triage(h, inp) ==
  /\ status[h] = "idle" /\ inp \in queue[h]
  /\ queue' = [queue EXCEPT ![h] = @ \ {inp}]
  /\ triaged' = [triaged EXCEPT ![h] = @ \cup {inp.data}]
  /\ smashes' = IF inp.minimized /\ ~inp.smashed
                THEN [smashes EXCEPT ![inp.data] = @ + 1] ELSE smashes
  /\ UNCHANGED <<coordVars, conn, id, status, req, reply, sigs, supps, stats,
                 late, mine, executed, crashed, faults, diskFaults>>

\* newInputC: an input that passed the checks of the workers and of the hub
\* joins the corpus.  One that came minimized from the coordinator stays here;
\* one found here (or minimized here from a user input) is sent.
AcceptTriaged(h, x) ==
  /\ status[h] = "idle" /\ x \in triaged[h] \ (sigs[h] \cup UserCorpus)
  /\ sigs' = [sigs EXCEPT ![h] = @ \cup {x}]
  /\ UNCHANGED <<coordVars, histVars, conn, id, status, req, reply, queue, supps,
                 stats, late>>

AcceptMine(h, x) ==
  /\ status[h] = "idle" /\ x \in Inputs \ sigs[h]
  /\ sigs' = [sigs EXCEPT ![h] = @ \cup {x}]
  /\ mine' = [mine EXCEPT ![h] = @ \cup {x}]
  /\ Call(h, NewInputReq(id[h], x))
  /\ UNCHANGED <<coordVars, conn, id, reply, queue, supps, stats, late, triaged,
                 smashes, executed, crashed, faults, diskFaults>>

\* newCrasherC: several workers may report one suppression before it is known.
ReportCrash(h, c) ==
  /\ status[h] = "idle" /\ crashed < MaxCrashes
  /\ crashed' = crashed + 1
  /\ supps' = IF Dup THEN supps ELSE [supps EXCEPT ![h] = @ \cup {SuppOf[c]}]
  /\ Call(h, NewCrasherReq(c))
  /\ UNCHANGED <<coordVars, conn, id, reply, queue, sigs, stats, late, triaged,
                 smashes, mine, executed, faults, diskFaults>>

\* syncC: a worker hands over what it has executed since its last report.
WorkerStats(h) ==
  /\ status[h] = "idle" /\ executed < MaxExecs
  /\ executed' = executed + 1
  /\ stats' = [stats EXCEPT ![h] = @ + 1]
  /\ UNCHANGED <<coordVars, conn, id, status, req, reply, queue, sigs, supps,
                 late, triaged, smashes, mine, crashed, faults, diskFaults>>

-----------------------------------------------------------------------------
(* The coordinator serves a request r.  A file it writes may fail to be    *)
(* written.                                                                *)

\* The requests whose service adds a file to the corpus, to the suppressions.
WritesInput(r)       == r.op = "newInput" /\ Known(r.id) /\ ~has(corpus, r.arg)
WritesSuppression(r) == r.op = "newCrasher" /\ ~Dup /\ ~Suppressed(r.arg)

Written(written, writes) ==
  /\ Whole(written) \/ (writes /\ diskFaults < MaxDiskFaults)
  /\ diskFaults' = IF Whole(written) THEN diskFaults ELSE diskFaults + 1

Serve(r) ==
  \/ /\ r.op = "connect" /\ Connect /\ UNCHANGED diskFaults
  \/ /\ r.op = "sync" /\ Sync(r.id, r.n, r.arg) /\ UNCHANGED diskFaults
  \/ /\ r.op = "newInput"
     /\ \E written \in Files :
          Written(written, WritesInput(r)) /\ NewInput(r.id, r.arg, written)
  \/ /\ r.op = "newCrasher"
     /\ \E written \in PlainFiles :
          Written(written, WritesSuppression(r)) /\ NewCrasher(r.arg, written)

\* How the call stands once served, and what it returns.
Outcome(r) ==
  CASE r.op \in {"sync", "newInput"} /\ ~Known(r.id) -> "failed"
    [] r.op = "newCrasher" /\ ~Suppressed(r.arg)     -> "running"
    [] OTHER                                         -> "done"

Answer(r) ==
  CASE r.op = "connect"                -> [id |-> idSeq + 1, inputs |-> ConnectReply]
    [] r.op = "sync" /\ Known(r.id)    -> [id |-> 0, inputs |-> SyncReply(r.id)]
    [] OTHER                           -> NoReply

HandleCall(h) ==
  /\ status[h] = "sent"
  /\ Serve(req[h])
  /\ status' = [status EXCEPT ![h] = Outcome(req[h])]
  /\ reply' = [reply EXCEPT ![h] = Answer(req[h])]
  /\ UNCHANGED <<conn, id, req, queue, sigs, supps, stats, late, triaged, smashes,
                 mine, executed, crashed, faults>>

\* Nobody waits for the reply to a late request.
HandleLate(r) ==
  /\ r \in late
  /\ Serve(r)
  /\ late' = late \ {r}
  /\ UNCHANGED <<conn, id, status, req, reply, queue, sigs, supps, stats, triaged,
                 smashes, mine, executed, crashed, faults>>

\* The rest of NewCrasher; the call returns with its last step.
CrasherDone ==
  status' = [h \in Hubs |-> IF status[h] = "running" /\ handling' = Idle
                            THEN "done" ELSE status[h]]

HandleCrasher ==
  /\ \E written \in PlainFiles :
        \/ Written(written, ~has(crashers, handling.crash)) /\ SaveCrasher(written)
        \/ Written(written, TRUE) /\ DescribeCrasher(written)
  /\ CrasherDone
  /\ UNCHANGED <<conn, id, req, reply, queue, sigs, supps, stats, late, triaged,
                 smashes, mine, executed, crashed, faults>>

-----------------------------------------------------------------------------
(* The hub gets its reply.                                                 *)

\* The loop holds one input of the queue, if there is one, in triageInput.
Held(h) == {S \in {{inp} : inp \in queue[h]} \cup {{}} : S = {} <=> queue[h] = {}}

\* connect() returned: id, initialTriage and triageQueue are replaced, the input
\* the loop holds is not.
Connected(h) ==
  /\ status[h] = "done" /\ req[h].op = "connect"
  /\ id' = [id EXCEPT ![h] = reply[h].id]
  /\ \E held \in Held(h) : queue' = [queue EXCEPT ![h] = held \cup reply[h].inputs]
  /\ status' = [status EXCEPT ![h] = "idle"]
  /\ reply' = [reply EXCEPT ![h] = NoReply]
  /\ UNCHANGED <<coordVars, histVars, conn, req, sigs, supps, stats, late>>

\* Faulty variant: the reply replaces the queue.
ReturnedReplacing(h) ==
  /\ status[h] = "done" /\ req[h].op # "connect"
  /\ queue' = [queue EXCEPT ![h] = reply[h].inputs]
  /\ status' = [status EXCEPT ![h] = "idle"]
  /\ reply' = [reply EXCEPT ![h] = NoReply]
  /\ UNCHANGED <<coordVars, histVars, conn, id, req, sigs, supps, stats, late>>

\* Another call returned; Sync brought the pending inputs.
Returned(h) ==
  /\ status[h] = "done" /\ req[h].op # "connect"
  /\ queue' = [queue EXCEPT ![h] = @ \cup reply[h].inputs]
  /\ status' = [status EXCEPT ![h] = "idle"]
  /\ reply' = [reply EXCEPT ![h] = NoReply]
  /\ UNCHANGED <<coordVars, histVars, conn, id, req, sigs, supps, stats, late>>

\* Faulty variant: a failed call is repeated on the broken connection.
CallFailedRetry(h) ==
  /\ status[h] = "failed"
  /\ status' = [status EXCEPT ![h] = IF conn[h] THEN "sent" ELSE "failed"]
  /\ UNCHANGED <<coordVars, histVars, conn, id, req, reply, queue, sigs, supps,
                 stats, late>>

\* The call failed.  Sync and NewInput reconnect, NewCrasher only logs, and a
\* failed Connect ends the loop.
CallFailed(h) ==
  /\ status[h] = "failed"
  /\ status' = [status EXCEPT ![h] =
                   CASE req[h].op = "connect"    -> "dead"
                     [] req[h].op = "newCrasher" -> "idle"
                     [] OTHER                    -> "dial"]
  /\ UNCHANGED <<coordVars, histVars, conn, id, req, reply, queue, sigs, supps,
                 stats, late>>

-----------------------------------------------------------------------------
(* Faults.                                                                 *)

Fault == faults < MaxFaults /\ faults' = faults + 1

\* A connection breaks: the pending call fails although the coordinator may
\* have served it, or may still serve it (keep).
LoseConnection(h, keep) ==
  /\ Fault
  /\ conn[h] /\ conn' = [conn EXCEPT ![h] = FALSE]
  /\ IF status[h] \in InCall
     THEN /\ status' = [status EXCEPT ![h] = "failed"]
          /\ reply' = [reply EXCEPT ![h] = NoReply]
          /\ late' = IF keep /\ status[h] = "sent" THEN late \cup {req[h]} ELSE late
     ELSE UNCHANGED <<status, reply, late>>
  /\ UNCHANGED <<coordVars, id, req, queue, sigs, supps, stats, triaged, smashes,
                 mine, executed, crashed, diskFaults>>

\* A hub that has completed connect() on the connection it now has, and one
\* whose Connect call is returning; the ids they own.
Registered(h) ==
  /\ conn[h] /\ status[h] \notin {"dial", "dead"}
  /\ req[h].op = "connect" => status[h] = "idle"
Registering(h) == conn[h] /\ status[h] = "done" /\ req[h].op = "connect"

CurrentId(h) == IF Registering(h) THEN reply[h].id ELSE id[h]
LiveHubs == {h \in Hubs : Registered(h) \/ Registering(h)}
LiveIds  == {CurrentId(h) : h \in LiveHubs}

\* Abandoned registrations fall silent by themselves; that a live hub is silent
\* for syncDeadline (a stalled machine or network) is a fault.
Nuke(w) ==
  /\ w \in Workers
  /\ IF w \in LiveIds THEN Fault ELSE UNCHANGED faults
  /\ NukeDead({w})
  /\ UNCHANGED <<hubVars, triaged, smashes, mine, executed, crashed, diskFaults>>

\* Every connection dies with the coordinator process, and with it every
\* request; a reply already sent still arrives unless lost.
DropCalls(lost) ==
  /\ conn' = [h \in Hubs |-> FALSE]
  /\ status' = [h \in Hubs |->
                  IF status[h] \in {"sent", "running"} \/ (status[h] = "done" /\ h \in lost)
                  THEN "failed" ELSE status[h]]
  /\ reply' = [h \in Hubs |-> IF status'[h] = "done" THEN reply[h] ELSE NoReply]
  /\ late' = {}
  /\ UNCHANGED <<id, req, queue, sigs, supps, stats, triaged, smashes, mine,
                 executed, crashed, diskFaults>>

CoordinatorCrash(lost) == Fault /\ Crash /\ DropCalls(lost)

\* The crash comes inside the WriteFile of a request being served.
Waiting == late \cup {req[h] : h \in {g \in Hubs : status[g] = "sent"}}

TornCrash(lost) ==
  /\ Fault
  /\ \/ /\ handling = Idle
        /\ \E r \in Waiting : /\ WritesInput(r)
                              /\ CrashLeaving(torn(corpus, r.arg), suppressions, crashers)
     \/ /\ handling = Idle
        /\ \E r \in Waiting :
             /\ WritesSuppression(r)
             /\ CrashLeaving(corpus, torn(suppressions, SuppOf[r.arg]), crashers)
     \/ /\ handling.phase = "save" /\ ~has(crashers, handling.crash)
        /\ CrashLeaving(corpus, suppressions, torn(crashers, handling.crash))
  /\ DropCalls(lost)

CoordinatorRestart == Restart /\ UNCHANGED <<hubVars, histVars>>

\* With every hub loop ended the coordinator goes on listening.
AllHubsDead == /\ \A h \in Hubs : status[h] = "dead"
               /\ up /\ handling = Idle /\ late = {}
               /\ UNCHANGED vars

-----------------------------------------------------------------------------
HubStep(h) ==
  \/ Dial(h) \/ StartSync(h) \/ Connected(h) \/ Returned(h) \/ CallFailed(h)

Discover(h) ==
  \/ \E x \in Data : AcceptTriaged(h, x)
  \/ \E x \in Inputs : AcceptMine(h, x)
  \/ \E c \in CrashInputs : ReportCrash(h, c)
  \/ WorkerStats(h)

TriageStep(h) == \E inp \in queue[h] : Triage(h, inp)

Serving ==
  \/ \E h \in Hubs : HandleCall(h)
  \/ \E r \in late : HandleLate(r)
  \/ HandleCrasher

Disturbance ==
  \/ \E h \in Hubs : DialTimeout(h)
  \/ \E h \in Hubs, keep \in BOOLEAN : LoseConnection(h, keep)
  \/ \E w \in Workers : Nuke(w)
  \/ \E lost \in SUBSET Hubs : CoordinatorCrash(lost) \/ TornCrash(lost)

Next ==
  \/ \E h \in Hubs : HubStep(h) \/ Discover(h) \/ TriageStep(h)
  \/ Serving
  \/ CoordinatorRestart
  \/ Disturbance
  \/ AllHubsDead

Spec == Init /\ [][Next]_vars

\* Fairness.  A goroutine that can run does; a served call returns; a process
\* that died is restarted by its operator.  The hub's select takes a ready case
\* at random, so handing out an input cannot be passed over for ever.
Fairness ==
  /\ \A h \in Hubs : WF_vars(HubStep(h)) /\ SF_vars(TriageStep(h))
  /\ \A h \in Hubs : SF_vars(HandleCall(h))
  /\ WF_vars(\E r \in late : HandleLate(r)) /\ WF_vars(HandleCrasher)
  /\ WF_vars(CoordinatorRestart)

FairSpec == Spec /\ Fairness

-----------------------------------------------------------------------------
(* Properties.                                                             *)

\* No two hubs use the same worker id: ids are never reused while a hub that
\* holds one still has its connection, across nukes, reconnects and restarts.
UniqueIds == \A g, h \in LiveHubs : CurrentId(g) = CurrentId(h) => g = h

\* Every input of the corpus has been triaged by, or is on its way to, every
\* registered hub: the hand-over from Connect's snapshot to the pending list,
\* and from there to the reply of Sync and the triage queue, loses nothing.
InTransit(h) ==
  triaged[h] \cup DataOf(reply[h].inputs)
    \cup DataOf(IF Registering(h) THEN {} ELSE queue[h])
    \cup (IF CurrentId(h) \in Workers THEN DataOf(pending[CurrentId(h)]) ELSE {})

InputsReachHubs ==
  \A h \in LiveHubs : CurrentId(h) \in Workers => corpus.m \subseteq InTransit(h)

\* An input is handed out to be smashed at most once in the whole cluster
\* (NewInput: "smashed" is false for the worker that found it only), whatever
\* reconnects and restarts happen; a failed file write may cost one more.
AtMostOneSmash == \A x \in Data : smashes[x] <= 1 + diskFaults

\* A sum, as the number of the units it is made of.
Units(f) == UNION {{a} \X (1 .. f[a]) : a \in DOMAIN f}
Total(f) == Cardinality(Units(f))

\* Executions are never counted twice: what the coordinator has counted, what
\* hubs hold and what is under way never exceeds what workers reported, and
\* nothing is missing as long as nothing failed.
Unserved  == [h \in Hubs |-> IF status[h] = "sent" THEN req[h].n ELSE 0]
Abandoned == [r \in late |-> r.n]
Counted   == statExecs + Total(stats) + Total(Unserved) + Total(Abandoned)

StatsConserved == /\ Counted <= executed
                  /\ faults = 0 => Counted = executed

\* Without -dup, the crashers directory never holds two crashers with one
\* suppression, also after crashes at any point of NewCrasher.
OneCrasherPerSuppression ==
  ~Dup /\ diskFaults = 0 =>
    \A c, d \in crashers.disk \cap CrashInputs : SuppOf[c] = SuppOf[d] => c = d

\* A NewInput call that returns without error has its input on disk.
AckedInputsOnDisk ==
  diskFaults = 0 =>
    \A h \in Hubs : status[h] = "done" /\ req[h].op = "newInput"
                     => req[h].arg \in corpus.disk

\* Again and again every hub whose loop is running has triaged the whole corpus,
\* inputs other hubs found included: what a hub missed while it was forgotten, or
\* lost with the reply to a Sync, reaches it on another way.
EveryHubLearns ==
  []<>(\A h \in Hubs : status[h] = "dead" \/ corpus.m \subseteq triaged[h])

\* No hub waits for the coordinator for ever.
CallsReturn == \A h \in Hubs : []<>(status[h] \in {"idle", "dead"})

-----------------------------------------------------------------------------
(* What the hubs are promised: module CorpusService, seen through the state of *)
(* the coordinator's corpus and the NewInput calls of the hubs.               *)

Submitted == UNION {mine[h] : h \in Hubs}

\* A hub's call while it hands in an input.
Submission(h) ==
  IF req[h].op = "newInput" /\ status[h] \in {"sent", "done", "failed"}
  THEN [input |-> req[h].arg, state |-> status[h]]
  ELSE [input |-> EmptyFile, state |-> "none"]
Submissions == [h \in Hubs |-> Submission(h)]

Service == INSTANCE CorpusService
             WITH Clients <- Hubs, Given <- UserCorpus, Blank <- EmptyFile,
                  submitted <- Submitted, known <- corpus.m, stored <- corpus.disk,
                  lossy <- diskFaults > 0, call <- Submissions, taken <- triaged

\* Whatever breaks, the corpus keeps its promises: an input handed in is stored
\* before its call is answered, at a crash nothing stored is lost, and a hub is
\* given nothing but stored inputs and the empty one; only a failed write excuses
\* an input that is in memory alone.
CorpusServiceSpec == Service!Spec

-----------------------------------------------------------------------------
(* The inductive strengthening of UniqueIds and InputsReachHubs.           *)

\* How a hub's call state fits its connection and its request.
CallState ==
  \A h \in Hubs :
    /\ conn[h] => up
    /\ status[h] \in {"sent", "running"} => conn[h]
    /\ status[h] # "done" => reply[h] = NoReply
    /\ status[h] = "running" => req[h].op = "newCrasher"
    /\ status[h] = "sent" /\ req[h].op = "sync" => req[h].id = id[h]

\* Ids come from idSeq, and no late Sync carries the id of a live hub: it would
\* take away inputs that only that hub's next Sync may collect.
IdsIssued ==
  /\ Workers \subseteq 1 .. idSeq
  /\ \A h \in LiveHubs : CurrentId(h) \in 1 .. idSeq
  /\ \A r \in late : r.op = "sync" => r.id <= idSeq /\ r.id \notin LiveIds

ReachInv == TypeOK /\ CallState /\ IdsIssued /\ UniqueIds /\ InputsReachHubs

\* The strengthening of OneCrasherPerSuppression: the suppression is on disk
\* before its crasher, and is new when NewCrasher goes on to save the crasher.
SavedFor(s) == {c \in crashers.disk \cap CrashInputs : SuppOf[c] = s}

SuppressionFirst ==
  ~Dup /\ diskFaults = 0 =>
    /\ suppressions.disk \subseteq suppressions.m
    /\ \A c \in crashers.disk \cap CrashInputs : SuppOf[c] \in suppressions.disk
    /\ handling.phase = "save" =>
         /\ SuppOf[handling.crash] \in suppressions.disk
         /\ SavedFor(SuppOf[handling.crash]) = {}

DedupInv == TypeOK /\ SuppressionFirst /\ OneCrasherPerSuppression

\* The strengthening of AckedInputsOnDisk: NewInput takes an input it has in memory
\* for one it has on disk.
CorpusOnDisk == diskFaults = 0 => corpus.m \ {EmptyFile} \subseteq corpus.disk

AckedInv == TypeOK /\ CorpusOnDisk /\ AckedInputsOnDisk

\* The strengthening of StatsConserved: the sums are finite, and before the first
\* fault every hub that has dialed is connected under an id the coordinator knows.
StatsFinite ==
  IsFiniteSet(Units(stats)) /\ IsFiniteSet(Units(Unserved)) /\ IsFiniteSet(Units(Abandoned))

Undisturbed ==
  faults = 0 =>
    /\ up /\ late = {}
    /\ \A h \in Hubs : status[h] # "dial" => conn[h]
    /\ \A h \in LiveHubs : CurrentId(h) \in Workers

StatsInv == ReachInv /\ Undisturbed /\ StatsFinite /\ StatsConserved

\* The strengthening of AtMostOneSmash: the inputs a worker may still be asked to
\* smash are counted wherever they wait, and each was paid for by a new file in the
\* corpus directory or by a write that failed.
ToSmash(x) == [data |-> x, minimized |-> TRUE, smashed |-> FALSE]

Copies(x) ==
  {<<"queue", h>> : h \in {g \in Hubs : ToSmash(x) \in queue[g]}}
    \cup {<<"reply", h>> : h \in {g \in Hubs : ToSmash(x) \in reply[g].inputs}}
    \cup {<<"pending", w>> : w \in {v \in Workers : ToSmash(x) \in pending[v]}}

Paid(x) == IF x \in corpus.disk THEN diskFaults + 1 ELSE diskFaults

SmashPaid(x) == /\ IsFiniteSet(Copies(x))
                /\ smashes[x] + Cardinality(Copies(x)) <= Paid(x)

SmashInv == /\ TypeOK /\ corpus.disk \subseteq corpus.m
            /\ \A x \in Data : SmashPaid(x)

\* The invariant of the refinement: a request can only have an input kept that a hub
\* handed in, and whatever is on its way to a hub is stored, or was at least handed
\* in and its write failed.
Genuine == corpus.disk \cup {EmptyFile} \cup (IF diskFaults > 0 THEN Submitted ELSE {})

RequestsSubmitted ==
  /\ \A h \in Hubs : req[h].op = "newInput" => req[h].arg \in Submitted
  /\ \A r \in late : r.op = "newInput" => r.arg \in Submitted

InputsGenuine ==
  /\ corpus.m \subseteq Genuine
  /\ \A w \in Workers : \A inp \in pending[w] : inp.data \in Genuine
  /\ \A h \in Hubs : \A inp \in reply[h].inputs \cup queue[h] : inp.data \in Genuine

CorpusMirrored == /\ corpus.disk # {} /\ corpus.disk \subseteq corpus.m
                  /\ ~up => corpus = newPersistentSet(corpus)

ServiceInv == TypeOK /\ RequestsSubmitted /\ InputsGenuine /\ CorpusMirrored

-----------------------------------------------------------------------------
(* What the documentation says and the code does not do.                   *)

\* README: "Go-fuzz will add own inputs to the corpus directory".  Once the hub
\* is back in its loop and nothing is under way, an input it found is on disk.
FoundInputsPersist ==
  \A h \in Hubs : status[h] = "idle" /\ conn[h] /\ late = {}
                   => mine[h] \subseteq corpus.disk

\* README: "Discovered bad inputs are stored in workdir/crashers dir", and the workdir
\* "allows fuzzer to continue after restart": a NewCrasher call that returns without
\* error has a crasher with that suppression on disk.
AckedCrashersOnDisk ==
  \A h \in Hubs : status[h] = "done" /\ req[h].op = "newCrasher" =>
    \E c \in crashers.disk \cap CrashInputs : SuppOf[c] = SuppOf[req[h].arg]
=============================================================================
