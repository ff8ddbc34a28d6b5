---------------------------- MODULE CorpusService ----------------------------
(***************************************************************************)
(* What the coordinator promises the hubs about the corpus, without ids,   *)
(* connections, pending lists and retries: an input that was handed in is  *)
(* kept, an accepted call is answered, what is stored survives every       *)
(* crash, and nobody is given an input that was not handed in; the inputs  *)
(* given out are stored ones, as long as every file could be written, or   *)
(* the empty input that a file without its content is read as.             *)
(* Module Cluster implements it.                                           *)
(***************************************************************************)
CONSTANTS Clients, Inputs,
          Given,    \* what the corpus directory holds at the start
          Blank     \* the artifact of an empty file

VARIABLES submitted,  \* inputs handed in
          known,      \* the corpus of the running service
          stored,     \* the corpus directory
          lossy,      \* a file could not be written
          call,       \* the call each client makes to hand in an input
          taken       \* the inputs each client was given

NoCall == [input |-> Blank, state |-> "none"]
Call   == {NoCall} \cup [input : Inputs, state : {"sent", "done", "failed"}]

Init ==
  /\ submitted = {} /\ lossy = FALSE
  /\ stored = (IF Given = {} THEN {Blank} ELSE Given) /\ known = stored
  /\ call = [c \in Clients |-> NoCall]
  /\ taken = [c \in Clients |-> {}]

Submit(c, x) ==
  /\ call[c] = NoCall
  /\ submitted' = submitted \cup {x}
  /\ \E state \in {"sent", "failed"} :
       call' = [call EXCEPT ![c] = [input |-> x, state |-> state]]
  /\ UNCHANGED <<known, stored, lossy, taken>>

\* An input is kept once; that it is not stored too is never hidden.
Keep(x) ==
  /\ x \in submitted \ known
  /\ known' = known \cup {x}
  /\ \/ stored' = stored \cup {x} /\ UNCHANGED lossy
     \/ lossy' = TRUE /\ UNCHANGED stored
  /\ UNCHANGED <<submitted, taken>>

\* The input of a call is known before the call is answered.
Accept(c) ==
  /\ call[c].state = "sent"
  /\ Keep(call[c].input) \/ (call[c].input \in known
                             /\ UNCHANGED <<submitted, known, stored, lossy, taken>>)
  /\ call' = [call EXCEPT ![c].state = "done"]

\* An input of a call its client has given up.
KeepLate == (\E x \in Inputs : Keep(x)) /\ UNCHANGED call

Fail(c) ==
  /\ call[c].state \in {"sent", "done"}
  /\ call' = [call EXCEPT ![c].state = "failed"]
  /\ UNCHANGED <<submitted, known, stored, lossy, taken>>

Return(c) ==
  /\ call[c].state \in {"done", "failed"}
  /\ call' = [call EXCEPT ![c] = NoCall]
  /\ UNCHANGED <<submitted, known, stored, lossy, taken>>

Give(c, x) ==
  /\ x \in stored \cup {Blank} \/ (lossy /\ x \in submitted)
  /\ taken' = [taken EXCEPT ![c] = @ \cup {x}]
  /\ UNCHANGED <<submitted, known, stored, lossy, call>>

\* Another file of the service could not be written.
Degrade == lossy' = TRUE /\ UNCHANGED <<submitted, known, stored, call, taken>>

\* The service starts again from the directory, in which a write may have left
\* an empty file.  Unanswered calls fail, and answers may be lost.
Crash ==
  /\ known' \in {stored, stored \cup {Blank}}
  /\ \E lost \in SUBSET Clients :
       call' = [c \in Clients |->
                  IF call[c].state = "sent" \/ (call[c].state = "done" /\ c \in lost)
                  THEN [call[c] EXCEPT !.state = "failed"] ELSE call[c]]
  /\ UNCHANGED <<submitted, stored, lossy, taken>>

Next ==
  \/ \E c \in Clients :
       \/ Accept(c) \/ Fail(c) \/ Return(c)
       \/ \E x \in Inputs : Submit(c, x)
       \/ \E x \in Inputs \cup {Blank} : Give(c, x)
  \/ KeepLate \/ Degrade \/ Crash

serviceVars == <<submitted, known, stored, lossy, call, taken>>
Spec == Init /\ [][Next]_serviceVars
=============================================================================
