---------------------------- MODULE TestService ----------------------------
(***************************************************************************)
(* What TestBinary.test promises its caller (testee.go:104), without the   *)
(* process, the pipes and the goroutines behind it: every test ends with   *)
(* one answer, the answer is about the input that was asked, and "ok"      *)
(* carries the cover of that input and is never given for a bad one.       *)
(* Module Testee implements it.                                            *)
(***************************************************************************)
CONSTANTS Inputs, Bad, NoInput

VARIABLES asked,    \* the input being tested
          answer    \* the last answer

Kinds  == {"none", "ok", "crash", "hang"}
Answer == [input : Inputs \cup {NoInput}, cover : Inputs \cup {NoInput}, kind : Kinds]
Allowed(i) == {a \in Answer : /\ a.input = i
                              /\ a.kind \in {"ok", "crash", "hang"}
                              /\ a.kind = "ok" => i \notin Bad /\ a.cover = i}

NoAnswer == [input |-> NoInput, cover |-> NoInput, kind |-> "none"]

Init == asked = NoInput /\ answer = NoAnswer

Ask == /\ asked = NoInput
       /\ asked' \in Inputs
       /\ answer' = NoAnswer

Reply == /\ asked # NoInput
         /\ answer' \in Allowed(asked)
         /\ asked' = NoInput

Next == Ask \/ Reply
Spec == Init /\ [][Next]_<<asked, answer>>
=============================================================================
