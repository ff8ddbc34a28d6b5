----------------------------- MODULE Coordinator -----------------------------
(***************************************************************************)
(* go-fuzz/coordinator.go: the process that owns the workdir and serves    *)
(* the four RPCs of the worker processes.  Every handler holds c.mu, so a  *)
(* handler is one action, except NewCrasher: a crash of the process        *)
(* between its writes is visible on disk, so it is three actions during    *)
(* which `handling` keeps c.mu taken.                                      *)
(*                                                                         *)
(* execs stands for both statistics (execs and restarts are accumulated    *)
(* alike).  lastSync is abstracted: a worker may be found silent for       *)
(* syncDeadline at any moment (NukeDead), which the composition restricts. *)
(***************************************************************************)
EXTENDS Integers, FiniteSets, PersistentSet

CONSTANTS
  Inputs,        \* inputs the fuzzers may find
  UserCorpus,    \* inputs the user puts in workdir/corpus
  CrashInputs,   \* inputs that crash the program under test
  Suppressions,  \* the stack excerpts extractSuppression returns
  SuppOf,        \* the suppression of each crashing input
  Dup,           \* the -dup flag
  NoCrash        \* no NewCrasher is in progress

ASSUME CoordinatorAssumption ==
  /\ UserCorpus \subseteq Inputs
  /\ SuppOf \in [CrashInputs -> Suppressions]
  /\ Dup \in BOOLEAN
  /\ EmptyFile \notin Inputs \cup CrashInputs \cup Suppressions
  /\ NoCrash \notin CrashInputs

VARIABLES
  up,            \* the process is running
  idSeq,
  pending,       \* c.workers: the pending inputs of every registered id
  corpus, suppressions, crashers,
  described,     \* crashers with their .quoted and .output files on disk
  statExecs, coverFullness,
  handling       \* the crasher in progress: [crash, phase], c.mu held

coordVars == <<up, idSeq, pending, corpus, suppressions, crashers, described,
               statExecs, coverFullness, handling>>

Data    == Inputs \cup {EmptyFile}
Crashes == CrashInputs \cup {EmptyFile}
Supps   == Suppressions \cup {EmptyFile}

\* CoordinatorInput, without its metadata.
CoordinatorInput == [data : Data, minimized : BOOLEAN, smashed : BOOLEAN]
Workers == DOMAIN pending
DataOf(inputs) == {inp.data : inp \in inputs}

Idle == [crash |-> NoCrash, phase |-> "none"]
Free == up /\ handling = Idle          \* c.mu can be taken

CoordTypeOK ==
  /\ up \in BOOLEAN
  /\ idSeq \in Nat
  /\ Workers \subseteq Nat /\ pending \in [Workers -> SUBSET CoordinatorInput]
  /\ corpus \in Sets(Data)
  /\ suppressions \in Sets(Supps)
  /\ crashers \in Sets(Crashes)
  /\ described \subseteq Crashes
  /\ statExecs \in Nat /\ coverFullness \in Nat
  /\ handling \in {Idle} \cup [crash : CrashInputs, phase : {"save", "describe"}]

-----------------------------------------------------------------------------
(* coordinatorMain *)

\* An empty corpus directory gets the empty input, in memory and on disk.
NoFiles == [disk |-> {}, torn |-> {}]
LoadCorpus(dir) ==
  newPersistentSet(IF dir.disk = {} /\ dir.torn = {} THEN [NoFiles EXCEPT !.disk = {EmptyFile}]
                                                     ELSE dir)

CoordInit ==
  /\ up = TRUE
  /\ idSeq = 0 /\ pending = [id \in {} |-> {}]
  /\ corpus = LoadCorpus([NoFiles EXCEPT !.disk = UserCorpus])
  /\ suppressions = newPersistentSet(NoFiles) /\ crashers = newPersistentSet(NoFiles)
  /\ described = {}
  /\ statExecs = 0 /\ coverFullness = 0
  /\ handling = Idle

-----------------------------------------------------------------------------
(* The handlers.  Each is the effect on the coordinator; the reply is      *)
(* given by the operator next to it.                                       *)

ConnectReply == {[data |-> a, minimized |-> a \notin UserCorpus, smashed |-> TRUE]
                   : a \in corpus.m}

Connect ==
  /\ Free
  /\ idSeq' = idSeq + 1
  /\ pending' = [id \in Workers \cup {idSeq'} |->
                   IF id = idSeq' THEN {} ELSE pending[id]]
  /\ UNCHANGED <<up, corpus, suppressions, crashers, described, statExecs,
                 coverFullness, handling>>

\* "unknown worker" is answered by NewInput and Sync.
Known(w) == w \in Workers

\* Faulty variants: the finder is left out; every worker may smash.
AnnounceOthers(x, w) ==
  [w1 \in Workers |->
     pending[w1] \cup IF w1 = w THEN {}
                      ELSE {[data |-> x, minimized |-> TRUE, smashed |-> TRUE]}]

AnnounceUnsmashed(x, w) ==
  [w1 \in Workers |-> pending[w1] \cup {[data |-> x, minimized |-> TRUE, smashed |-> FALSE]}]

\* Only the worker that found the input gets to smash it.
Announce(x, w) ==
  [w1 \in Workers |->
     pending[w1] \cup {[data |-> x, minimized |-> TRUE, smashed |-> w1 # w]}]

NewInput(w, x, written) ==
  /\ Free
  /\ IF Known(w) /\ ~has(corpus, x)
     THEN /\ corpus' = add(corpus, x, written)
          /\ pending' = Announce(x, w)
     ELSE UNCHANGED <<corpus, pending>>
  /\ UNCHANGED <<up, idSeq, suppressions, crashers, described, statExecs,
                 coverFullness, handling>>

SyncReply(w) == pending[w]

Sync(w, execs, cover) ==
  /\ Free
  /\ IF Known(w)
     THEN /\ statExecs' = statExecs + execs
          /\ coverFullness' = IF coverFullness < cover THEN cover ELSE coverFullness
          /\ pending' = [pending EXCEPT ![w] = {}]
     ELSE UNCHANGED <<statExecs, coverFullness, pending>>
  /\ UNCHANGED <<up, idSeq, corpus, suppressions, crashers, described, handling>>

\* Faulty variant: only a crasher already saved is suppressed.
SuppressedByData(c) == ~Dup /\ has(crashers, c)

\* NewCrasher.  First the suppression; a known one ends the call.
Suppressed(c) == ~Dup /\ has(suppressions, SuppOf[c])

NewCrasher(c, written) ==
  /\ Free
  /\ IF Suppressed(c)
     THEN UNCHANGED <<suppressions, handling>>
     ELSE /\ suppressions' = IF Dup THEN suppressions
                             ELSE add(suppressions, SuppOf[c], written)
          /\ handling' = [crash |-> c, phase |-> "save"]
  /\ UNCHANGED <<up, idSeq, pending, corpus, crashers, described, statExecs,
                 coverFullness>>

\* Then the crasher itself; a known one ends the call.
SaveCrasher(written) ==
  /\ up /\ handling.phase = "save"
  /\ IF has(crashers, handling.crash)
     THEN handling' = Idle /\ UNCHANGED crashers
     ELSE /\ crashers' = add(crashers, handling.crash, written)
          /\ handling' = [handling EXCEPT !.phase = "describe"]
  /\ UNCHANGED <<up, idSeq, pending, corpus, suppressions, described, statExecs,
                 coverFullness>>

\* Then its two description files.
DescribeCrasher(written) ==
  /\ up /\ handling.phase = "describe"
  /\ described' = IF Whole(written) THEN described \cup {handling.crash} ELSE described
  /\ handling' = Idle
  /\ UNCHANGED <<up, idSeq, pending, corpus, suppressions, crashers, statExecs,
                 coverFullness>>

\* Faulty variant: ids are given out again.
NukeReusing(silent) ==
  /\ Free
  /\ pending' = [w \in Workers \ silent |-> pending[w]]
  /\ idSeq' = Cardinality(Workers \ silent)
  /\ UNCHANGED <<up, corpus, suppressions, crashers, described, statExecs,
                 coverFullness, handling>>

\* coordinatorLoop: forget workers whose lastSync is older than syncDeadline.
NukeDead(silent) ==
  /\ Free
  /\ pending' = [w \in Workers \ silent |-> pending[w]]
  /\ UNCHANGED <<up, idSeq, corpus, suppressions, crashers, described, statExecs,
                 coverFullness, handling>>

-----------------------------------------------------------------------------
(* The process dies, possibly inside a WriteFile, and is started again.    *)

CrashLeaving(corpusDir, suppressionsDir, crashersDir) ==
  /\ up
  /\ up' = FALSE
  /\ corpus' = newPersistentSet(corpusDir)
  /\ suppressions' = newPersistentSet(suppressionsDir)
  /\ crashers' = newPersistentSet(crashersDir)
  /\ idSeq' = 0 /\ pending' = [id \in {} |-> {}]
  /\ statExecs' = 0 /\ coverFullness' = 0
  /\ handling' = Idle
  /\ UNCHANGED described

Crash == CrashLeaving(corpus, suppressions, crashers)

Restart ==
  /\ ~up
  /\ up' = TRUE
  /\ corpus' = LoadCorpus(corpus)
  /\ UNCHANGED <<idSeq, pending, suppressions, crashers, described, statExecs,
                 coverFullness, handling>>
=============================================================================
