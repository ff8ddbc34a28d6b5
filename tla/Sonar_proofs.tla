----------------------------- MODULE Sonar_proofs -----------------------------
(***************************************************************************)
(* The lock-free log, for any number of goroutines, region and records:    *)
(* whatever outlives a test, records never leave the region, and unless a  *)
(* copy was pending at either end of the test they do not tear and the     *)
(* worker parses what was logged.  At the end a comparison site, for any   *)
(* operands and thresholds: what SonarSite remembers of its samples is     *)
(* enough to decide whether a skip is earned.                              *)
(***************************************************************************)
EXTENDS SonarLog, SonarSites, FiniteSetTheorems, SequenceTheorems, WellFoundedInduction,
        TLAPS

Whole(i) ==
  \A p \in Span(logged[i]) :
    sonarRegion[p] = [rec |-> logged[i].rec, size |-> logged[i].size,
                      off |-> p - logged[i].at]

\* Goroutine g is about to copy logged record i.
Owns(g, i) ==
  /\ routine[g].rec = logged[i].rec
  /\ routine[g].size = logged[i].size
  /\ routine[g].at = logged[i].at

Apart(r, q) == r.at + r.size <= q.at \/ q.at + q.size <= r.at

\* Places are handed out below the position.
PlacesTaken ==
  \A i \in DOMAIN logged : logged[i].at + logged[i].size <= sonarPos

\* Without strays, pending copies are below it too ...
PendingTaken ==
  ~stray => \A g \in Goroutines : routine[g].pc = "copy" =>
    routine[g].at + routine[g].size <= sonarPos

\* ... and touch no logged record but their own.
PendingApart ==
  ~stray => \A g \in Goroutines : routine[g].pc = "copy" =>
    \A i \in DOMAIN logged : Owns(g, i) \/ Apart(routine[g], logged[i])

\* A logged record is whole, or, during the test, about to be copied.
WholeOrPending ==
  ~stray => \A i \in DOMAIN logged :
    \/ Whole(i)
    \/ stage = "running"
       /\ \E g \in Goroutines : routine[g].pc = "copy" /\ Owns(g, i)

LogInv == /\ LogTypeOK /\ PlacesTaken /\ PendingTaken /\ PendingApart
          /\ WholeOrPending

-----------------------------------------------------------------------------
\* The fields of routines and records are what their types say.
LEMMA FieldTypes ==
  ASSUME LogTypeOK
  PROVE  /\ \A g \in Goroutines :
              /\ routine[g].pc \in {"away", "code", "swap", "copy"}
              /\ routine[g].rec \in 0 .. MaxCalls
              /\ routine[g].size \in Nat
              /\ routine[g].at \in 0 .. RegionSize /\ routine[g].at \in Nat
         /\ Len(logged) \in Nat /\ DOMAIN logged = 1 .. Len(logged)
         /\ \A i \in 1 .. Len(logged) :
              /\ logged[i].rec \in 0 .. MaxCalls
              /\ logged[i].size \in Nat
              /\ logged[i].at \in 0 .. RegionSize /\ logged[i].at \in Nat
         /\ sonarPos \in Nat /\ RegionSize \in Nat
  <1>0. RegionSize \in Nat
    BY LogAssumption DEF LogAssumption
  <1>1. \A g \in Goroutines : routine[g] \in Routine
    BY DEF LogTypeOK
  <1>2. \A i \in 1 .. Len(logged) : logged[i] \in Record
    BY DEF LogTypeOK
  <1>3. Len(logged) \in Nat /\ DOMAIN logged = 1 .. Len(logged) /\ sonarPos \in Nat
    BY <1>0 DEF LogTypeOK
  <1>4. \A g \in Goroutines :
          /\ routine[g].pc \in {"away", "code", "swap", "copy"}
          /\ routine[g].rec \in 0 .. MaxCalls
          /\ routine[g].size \in Nat
          /\ routine[g].at \in 0 .. RegionSize /\ routine[g].at \in Nat
    BY <1>0, <1>1 DEF Routine
  <1>5. \A i \in 1 .. Len(logged) :
          /\ logged[i].rec \in 0 .. MaxCalls
          /\ logged[i].size \in Nat
          /\ logged[i].at \in 0 .. RegionSize /\ logged[i].at \in Nat
    BY <1>0, <1>2 DEF Record
  <1> QED  BY <1>0, <1>3, <1>4, <1>5

\* Types are preserved: the log cannot grow past the region.
LEMMA LogTypeStep ==
  ASSUME LogTypeOK, [LogNext]_logVars
  PROVE  LogTypeOK'
  <1>0. /\ Main \in Goroutines /\ RegionSize \in Nat /\ SonarHdrLen \in Nat
        /\ \A n \in Operands : n \in Nat
        /\ MaxCalls \in Nat
    BY LogAssumption DEF LogAssumption
  <1>a. /\ routine \in [Goroutines -> Routine] /\ logged \in Seq(Record)
        /\ \A g \in Goroutines : routine[g].pc = "copy" => Fits(routine[g])
        /\ \A g \in Goroutines : routine[g] \in Routine
        /\ DOMAIN sonarRegion = 0 .. RegionSize - 1
        /\ sonarPos \in 0 .. RegionSize /\ replyPos \in 0 .. RegionSize
        /\ stage \in {"idle", "running", "replied"} /\ stray \in BOOLEAN
        /\ calls \in 0 .. MaxCalls
    BY DEF LogTypeOK
  <1>b. \A r \in Routine : \A c \in {"code", "away"} :
          [r EXCEPT !.pc = c] \in Routine /\ [r EXCEPT !.pc = c].pc = c
    BY DEF Routine
  \* An action that moves one goroutine back to its code keeps the routines.
  <1>c. ASSUME NEW g \in Goroutines, NEW c \in {"code", "away"},
               routine' = [routine EXCEPT ![g].pc = c]
        PROVE  /\ routine' \in [Goroutines -> Routine]
               /\ \A h \in Goroutines : routine'[h].pc = "copy" => Fits(routine'[h])
    <2>1. routine' = [routine EXCEPT ![g] = [routine[g] EXCEPT !.pc = c]]
      BY <1>c
    <2> DEFINE r == [routine[g] EXCEPT !.pc = c]
    <2>2. r \in Routine /\ r.pc = c
      <3>1. routine[g] \in Routine
        BY <1>a
      <3> QED  BY <3>1, <1>b
    <2>3. routine' = [routine EXCEPT ![g] = r]
      BY <2>1
    <2> HIDE DEF r
    <2> QED  BY <2>2, <2>3, <1>a
  <1>1. CASE StartTest
    <2>1. /\ routine' = [routine EXCEPT ![Main].pc = "code"] /\ sonarPos' = 0
          /\ stage' = "running" /\ logged' = <<>> /\ stray' = CopyPending
          /\ UNCHANGED <<sonarRegion, replyPos, calls>>
      BY <1>1 DEF StartTest
    <2>2. stray' \in BOOLEAN
      BY <2>1 DEF CopyPending
    <2>3. logged' \in Seq(Record)
      BY <2>1
    <2>4. sonarPos' \in 0 .. RegionSize
      BY <2>1, <1>0
    <2>5. /\ routine' \in [Goroutines -> Routine]
          /\ \A h \in Goroutines : routine'[h].pc = "copy" => Fits(routine'[h])
      BY <2>1, <1>0, <1>c
    <2> QED  BY <2>1, <2>2, <2>3, <2>4, <2>5, <1>a DEF LogTypeOK
  <1>2. CASE Reply
    <2>1. /\ routine' = [routine EXCEPT ![Main].pc = "away"] /\ replyPos' = sonarPos
          /\ stage' = "replied" /\ stray' = (stray \/ CopyPending)
          /\ UNCHANGED <<sonarRegion, sonarPos, logged, calls>>
      BY <1>2 DEF Reply
    <2>2. stray' \in BOOLEAN
      BY <2>1 DEF CopyPending
    <2> QED  BY <2>1, <2>2, <1>0, <1>a, <1>c DEF LogTypeOK
  <1>3. CASE Parse
    BY <1>3, <1>a DEF Parse, LogTypeOK, Fits
  <1>4. ASSUME NEW g \in Goroutines, Go(g) PROVE LogTypeOK'
    <2>1. /\ routine' = [routine EXCEPT ![g].pc = "code"]
          /\ UNCHANGED <<sonarRegion, sonarPos, stage, replyPos, logged, stray, calls>>
      BY <1>4 DEF Go
    <2> QED  BY <2>1, <1>a, <1>c DEF LogTypeOK
  <1>5. ASSUME NEW g \in Goroutines, Exit(g) PROVE LogTypeOK'
    <2>1. /\ routine' = [routine EXCEPT ![g] = Away]
          /\ UNCHANGED <<sonarRegion, sonarPos, stage, replyPos, logged, stray, calls>>
      BY <1>5 DEF Exit
    <2>2. Away \in Routine /\ Away.pc = "away"
      BY <1>0 DEF Away, Routine
    <2>3. routine' \in [Goroutines -> Routine]
      BY <2>1, <2>2, <1>a
    <2>4. \A h \in Goroutines : routine'[h].pc = "copy" => Fits(routine'[h])
      BY <2>1, <2>2, <1>a
    <2> QED  BY <2>1, <2>3, <2>4, <1>a DEF LogTypeOK
  <1>6. ASSUME NEW g \in Goroutines, Load(g) PROVE LogTypeOK'
    <2>1. PICK n \in Operands : routine' = [routine EXCEPT ![g] =
            [pc |-> "swap", rec |-> calls + 1, size |-> SonarHdrLen + n, at |-> sonarPos]]
      BY <1>6 DEF Load
    <2> DEFINE r == [pc |-> "swap", rec |-> calls + 1, size |-> SonarHdrLen + n,
                     at |-> sonarPos]
    <2>2. /\ calls < MaxCalls /\ calls' = calls + 1
          /\ UNCHANGED <<sonarRegion, sonarPos, stage, replyPos, logged, stray>>
      BY <1>6 DEF Load
    <2>3. r \in Routine /\ r.pc = "swap"
      BY <2>2, <1>0, <1>a DEF Routine
    <2>4. routine' = [routine EXCEPT ![g] = r]
      BY <2>1
    <2> HIDE DEF r
    <2>5. routine' \in [Goroutines -> Routine]
      BY <2>3, <2>4, <1>a
    <2>6. \A h \in Goroutines : routine'[h].pc = "copy" => Fits(routine'[h])
      BY <2>3, <2>4, <1>a
    <2>7. calls' \in 0 .. MaxCalls
      BY <2>2, <1>0, <1>a
    <2> QED  BY <2>2, <2>5, <2>6, <2>7, <1>a DEF LogTypeOK
  <1>7. ASSUME NEW g \in Goroutines, Full(g) PROVE LogTypeOK'
    <2>1. /\ routine' = [routine EXCEPT ![g].pc = "code"]
          /\ UNCHANGED <<sonarRegion, sonarPos, stage, replyPos, logged, stray, calls>>
      BY <1>7 DEF Full
    <2> QED  BY <2>1, <1>a, <1>c DEF LogTypeOK
  <1>8. ASSUME NEW g \in Goroutines, Swap(g) PROVE LogTypeOK'
    <2> DEFINE r == [routine[g] EXCEPT !.pc = "copy"]
               e == [rec |-> routine[g].rec, size |-> routine[g].size,
                     at |-> routine[g].at]
    <2>1. /\ Fits(routine[g]) /\ sonarPos' = routine[g].at + routine[g].size
          /\ routine' = [routine EXCEPT ![g] = r]
          /\ logged' = IF stage # "running" THEN logged ELSE Append(logged, e)
          /\ UNCHANGED <<sonarRegion, stage, replyPos, stray, calls>>
      BY <1>8 DEF Swap
    <2>2. routine[g] \in Routine
      BY <1>a
    <2>3. r \in Routine /\ r.at = routine[g].at /\ r.size = routine[g].size
      BY <2>2 DEF Routine
    <2>4. e \in Record
      BY <2>2 DEF Routine, Record
    <2>5. sonarPos' \in 0 .. RegionSize
      BY <2>1, <2>2, <1>0 DEF Routine, Fits
    <2> HIDE DEF r, e
    <2>6. routine' \in [Goroutines -> Routine]
      BY <2>1, <2>3, <1>a
    <2>7. \A h \in Goroutines : routine'[h].pc = "copy" => Fits(routine'[h])
      BY <2>1, <2>3, <1>a DEF Fits
    <2>8. logged' \in Seq(Record)
      BY <2>1, <2>4, <1>a
    <2> QED  BY <2>1, <2>5, <2>6, <2>7, <2>8, <1>a DEF LogTypeOK
  <1>9. ASSUME NEW g \in Goroutines, Reload(g) PROVE LogTypeOK'
    <2> DEFINE r == [routine[g] EXCEPT !.at = sonarPos]
    <2>1. /\ routine[g].pc = "swap" /\ routine' = [routine EXCEPT ![g] = r]
          /\ UNCHANGED <<sonarRegion, sonarPos, stage, replyPos, logged, stray, calls>>
      BY <1>9 DEF Reload
    <2>2. r \in Routine /\ r.pc = "swap"
      <3>1. routine[g] \in Routine
        BY <1>a
      <3> QED  BY <3>1, <2>1, <1>a DEF Routine
    <2> HIDE DEF r
    <2>3. routine' \in [Goroutines -> Routine]
      BY <2>1, <2>2, <1>a
    <2>4. \A h \in Goroutines : routine'[h].pc = "copy" => Fits(routine'[h])
      BY <2>1, <2>2, <1>a
    <2> QED  BY <2>1, <2>3, <2>4, <1>a DEF LogTypeOK
  <1>10. ASSUME NEW g \in Goroutines, Copy(g) PROVE LogTypeOK'
    <2>1. /\ routine' = [routine EXCEPT ![g].pc = "code"]
          /\ DOMAIN sonarRegion' = DOMAIN sonarRegion
          /\ UNCHANGED <<sonarPos, stage, replyPos, logged, stray, calls>>
      BY <1>10 DEF Copy
    <2> QED  BY <2>1, <1>a, <1>c DEF LogTypeOK
  <1>11. CASE UNCHANGED logVars
    BY <1>11, <1>a DEF logVars, LogTypeOK, Fits
  <1> QED  BY <1>1, <1>2, <1>3, <1>4, <1>5, <1>6, <1>7, <1>8, <1>9, <1>10, <1>11
           DEF LogNext, SonarCall

-----------------------------------------------------------------------------
\* A step that touches neither the log nor pending copies keeps the invariant.
LEMMA IdleStep ==
  ASSUME LogInv,
         UNCHANGED <<sonarRegion, sonarPos, stage, logged, stray>>,
         \A h \in Goroutines : routine'[h].pc = "copy" => routine'[h] = routine[h],
         \A h \in Goroutines : routine[h].pc = "copy" => routine'[h] = routine[h]
  PROVE  PlacesTaken' /\ PendingTaken' /\ PendingApart' /\ WholeOrPending'
  <1>1. PlacesTaken'
    BY DEF LogInv, PlacesTaken
  <1>2. PendingTaken'
    BY DEF LogInv, PendingTaken
  <1>3. PendingApart'
    BY DEF LogInv, PendingApart, Owns, Apart
  <1>4. WholeOrPending'
    BY DEF LogInv, WholeOrPending, Whole, Owns, Span
  <1> QED  BY <1>1, <1>2, <1>3, <1>4

\* Reservations do not overlap and copies stay in their own place.
LEMMA LogStep ==
  ASSUME LogInv, [LogNext]_logVars
  PROVE  PlacesTaken' /\ PendingTaken' /\ PendingApart' /\ WholeOrPending'
  <1>0. /\ \A g \in Goroutines :
             /\ routine[g].pc \in {"away", "code", "swap", "copy"}
             /\ routine[g].size \in Nat /\ routine[g].at \in Nat
        /\ Len(logged) \in Nat /\ DOMAIN logged = 1 .. Len(logged)
        /\ \A i \in 1 .. Len(logged) :
             /\ logged[i].size \in Nat /\ logged[i].at \in Nat
        /\ sonarPos \in Nat /\ RegionSize \in Nat
    BY FieldTypes DEF LogInv
  <1>a. /\ routine \in [Goroutines -> Routine] /\ logged \in Seq(Record)
        /\ Main \in Goroutines /\ DOMAIN routine = Goroutines
        /\ \A g \in Goroutines : routine[g] \in Routine
    BY LogAssumption DEF LogInv, LogTypeOK, LogAssumption
  <1>b. \A r \in Routine : [r EXCEPT !.pc = "code"].pc # "copy"
                           /\ [r EXCEPT !.pc = "away"].pc # "copy"
    BY DEF Routine
  <1>1. CASE StartTest
    <2>1. logged' = <<>> /\ (~stray' => ~CopyPending)
          /\ routine' = [routine EXCEPT ![Main].pc = "code"]
      BY <1>1 DEF StartTest
    <2>2. DOMAIN logged' = {}
      BY <2>1
    <2>3. ~stray' => \A g \in Goroutines : routine'[g].pc # "copy"
      BY <2>1, <1>a, <1>b DEF CopyPending
    <2> QED  BY <2>2, <2>3 DEF PlacesTaken, PendingTaken, PendingApart, WholeOrPending
  <1>2. CASE Reply
    <2>1. /\ UNCHANGED <<sonarRegion, sonarPos, logged>>
          /\ ~stray' => ~stray /\ ~CopyPending
          /\ routine' = [routine EXCEPT ![Main].pc = "away"]
      BY <1>2 DEF Reply
    <2>2. ~stray' => \A g \in Goroutines : routine'[g].pc # "copy"
      BY <2>1, <1>a, <1>b DEF CopyPending
    <2>3. ~stray' => \A i \in DOMAIN logged : Whole(i)
      BY <2>1 DEF LogInv, WholeOrPending, CopyPending
    <2>4. WholeOrPending'
      BY <2>1, <2>3 DEF WholeOrPending, Whole, Span
    <2> QED  BY <2>1, <2>2, <2>4 DEF LogInv, PlacesTaken, PendingTaken, PendingApart
  <1>3. CASE Parse
    <2>1. /\ UNCHANGED <<sonarRegion, sonarPos, routine, logged, stray>>
          /\ stage = "replied"
      BY <1>3 DEF Parse
    <2> QED  BY <2>1 DEF LogInv, PlacesTaken, PendingTaken, PendingApart,
                         WholeOrPending, Whole, Owns, Apart, Span
  <1>4. ASSUME NEW g \in Goroutines, Go(g) \/ Exit(g) \/ Load(g) \/ Full(g) \/ Reload(g)
        PROVE  PlacesTaken' /\ PendingTaken' /\ PendingApart' /\ WholeOrPending'
    <2>1. /\ UNCHANGED <<sonarRegion, sonarPos, stage, logged, stray>>
          /\ routine[g].pc # "copy"
          /\ \A h \in Goroutines : h # g => routine'[h] = routine[h]
      BY <1>4, <1>a DEF Go, Exit, Load, Full, Reload
    <2>2. routine'[g].pc # "copy"
      <3>1. CASE Go(g) \/ Full(g)
        BY <3>1, <1>a, <1>b DEF Go, Full
      <3>2. CASE Exit(g)
        BY <3>2, <1>a DEF Exit, Away
      <3>3. CASE Load(g)
        BY <3>3, <1>a DEF Load
      <3>4. CASE Reload(g)
        <4>1. routine'[g] = [routine[g] EXCEPT !.at = sonarPos] /\ routine[g].pc = "swap"
          BY <3>4, <1>a DEF Reload
        <4>2. routine'[g].pc = "swap"
          BY <4>1, <1>a DEF Routine
        <4> QED  BY <4>2
      <3> QED  BY <1>4, <3>1, <3>2, <3>3, <3>4
    <2> QED  BY <2>1, <2>2, IdleStep
  <1>5. ASSUME NEW g \in Goroutines, Swap(g)
        PROVE  PlacesTaken' /\ PendingTaken' /\ PendingApart' /\ WholeOrPending'
    <2> DEFINE e == [rec |-> routine[g].rec, size |-> routine[g].size,
                     at |-> routine[g].at]
               n == Len(logged)
    <2>1. /\ routine[g].pc = "swap" /\ routine[g].at = sonarPos
          /\ sonarPos' = sonarPos + routine[g].size
          /\ routine' = [routine EXCEPT ![g].pc = "copy"]
          /\ logged' = IF stage # "running" THEN logged ELSE Append(logged, e)
          /\ UNCHANGED <<sonarRegion, stage, stray>>
      BY <1>5 DEF Swap, Unmoved
    <2>2. /\ \A h \in Goroutines : h # g => routine'[h] = routine[h]
          /\ routine'[g].pc = "copy" /\ routine'[g].at = sonarPos
          /\ routine'[g].rec = routine[g].rec /\ routine'[g].size = routine[g].size
      <3>1. routine'[g] = [routine[g] EXCEPT !.pc = "copy"]
            /\ \A h \in Goroutines : h # g => routine'[h] = routine[h]
        BY <2>1, <1>a
      <3> QED  BY <3>1, <2>1, <1>a DEF Routine
    <2>3. e.rec = routine[g].rec /\ e.size = routine[g].size /\ e.at = sonarPos
      BY <2>1
    <2> HIDE DEF e
    <2>4. /\ \A i \in 1 .. n : logged'[i] = logged[i]
          /\ n + 1 \in DOMAIN logged' => stage = "running" /\ logged'[n + 1] = e
          /\ stage = "running" => n + 1 \in DOMAIN logged'
          /\ \A i \in DOMAIN logged' : i \in 1 .. n \/ i = n + 1
      <3>0. n \in Nat /\ logged \in Seq(Record) /\ DOMAIN logged = 1 .. n
        BY <1>a, <1>0
      <3> HIDE DEF n
      <3>1. CASE stage # "running"
        <4>1. logged' = logged
          BY <2>1, <3>1
        <4> QED  BY <4>1, <3>0, <3>1
      <3>2. CASE stage = "running"
        <4>1. logged' = Append(logged, e) /\ n = Len(logged)
          BY <2>1, <3>2 DEF n
        <4>2. DOMAIN logged' = 1 .. n + 1 /\ logged'[n + 1] = e
              /\ \A i \in 1 .. n : logged'[i] = logged[i]
          BY <4>1, <3>0
        <4>3. \A i \in 1 .. n + 1 : i \in 1 .. n \/ i = n + 1
          BY <3>0
        <4> QED  BY <4>2, <4>3, <3>0, <3>2
      <3> QED  BY <3>1, <3>2
    <2>5. PlacesTaken'
      <3> SUFFICES ASSUME NEW i \in DOMAIN logged'
                   PROVE  logged'[i].at + logged'[i].size <= sonarPos'
        BY DEF PlacesTaken
      <3>1. CASE i \in 1 .. n
        BY <3>1, <2>1, <2>4, <1>0 DEF LogInv, PlacesTaken
      <3>2. CASE i = n + 1
        BY <3>2, <2>1, <2>3, <2>4, <1>0
      <3> QED  BY <3>1, <3>2, <2>4
    <2>6. PendingTaken'
      <3> SUFFICES ASSUME ~stray, NEW h \in Goroutines, routine'[h].pc = "copy"
                   PROVE  routine'[h].at + routine'[h].size <= sonarPos'
        BY <2>1 DEF PendingTaken
      <3>1. CASE h = g
        BY <3>1, <2>1, <2>2, <1>0
      <3>2. CASE h # g
        BY <3>2, <2>1, <2>2, <1>0 DEF LogInv, PendingTaken
      <3> QED  BY <3>1, <3>2
    <2>7. PendingApart'
      <3> SUFFICES ASSUME ~stray, NEW h \in Goroutines, routine'[h].pc = "copy",
                          NEW i \in DOMAIN logged'
                   PROVE  Owns(h, i)' \/ (Apart(routine[h], logged[i]))'
        BY <2>1 DEF PendingApart
      <3>1. CASE h # g /\ i \in 1 .. n
        <4>1. routine[h].pc = "copy" /\ i \in DOMAIN logged /\ logged'[i] = logged[i]
              /\ routine'[h] = routine[h]
          BY <3>1, <2>1, <2>2, <2>4, <1>0
        <4>2. Owns(h, i) \/ Apart(routine[h], logged[i])
          BY <4>1 DEF LogInv, PendingApart
        <4> QED  BY <4>1, <4>2 DEF Owns, Apart
      <3>2. CASE h # g /\ i = n + 1
        <4>1. routine[h].at + routine[h].size <= sonarPos
          BY <3>2, <2>2 DEF LogInv, PendingTaken
        <4> QED  BY <4>1, <3>2, <2>2, <2>3, <2>4 DEF Apart
      <3>3. CASE h = g /\ i \in 1 .. n
        <4>1. logged[i].at + logged[i].size <= sonarPos
          BY <3>3, <1>0 DEF LogInv, PlacesTaken
        <4> QED  BY <4>1, <3>3, <2>2, <2>4 DEF Apart
      <3>4. CASE h = g /\ i = n + 1
        BY <3>4, <2>2, <2>3, <2>4 DEF Owns
      <3> QED  BY <3>1, <3>2, <3>3, <3>4, <2>4
    <2>8. WholeOrPending'
      <3> SUFFICES ASSUME ~stray, NEW i \in DOMAIN logged'
                   PROVE  \/ Whole(i)'
                          \/ stage = "running"
                             /\ \E h \in Goroutines : routine'[h].pc = "copy" /\ Owns(h, i)'
        BY <2>1 DEF WholeOrPending
      <3>1. CASE i \in 1 .. n
        <4>1. CASE Whole(i)
          BY <4>1, <3>1, <2>1, <2>4 DEF Whole, Span
        <4>2. ASSUME stage = "running", NEW h \in Goroutines,
                     routine[h].pc = "copy", Owns(h, i)
              PROVE  routine'[h].pc = "copy" /\ Owns(h, i)'
          <5>1. h # g
            BY <4>2, <2>1
          <5> QED  BY <5>1, <4>2, <3>1, <2>2, <2>4 DEF Owns
        <4> QED  BY <4>1, <4>2, <3>1, <1>0 DEF LogInv, WholeOrPending
      <3>2. CASE i = n + 1
        <4>1. stage = "running"
          BY <3>2, <2>4
        <4> QED  BY <4>1, <3>2, <2>2, <2>3, <2>4 DEF Owns
      <3> QED  BY <3>1, <3>2, <2>4
    <2> QED  BY <2>5, <2>6, <2>7, <2>8
  <1>6. ASSUME NEW g \in Goroutines, Copy(g)
        PROVE  PlacesTaken' /\ PendingTaken' /\ PendingApart' /\ WholeOrPending'
    <2>1. /\ routine[g].pc = "copy"
          /\ routine' = [routine EXCEPT ![g].pc = "code"]
          /\ UNCHANGED <<sonarPos, stage, logged, stray>>
      BY <1>6 DEF Copy
    <2>2. \A p \in DOMAIN sonarRegion : sonarRegion'[p] =
            IF p \in Span(routine[g])
            THEN [rec |-> routine[g].rec, size |-> routine[g].size,
                  off |-> p - routine[g].at]
            ELSE sonarRegion[p]
      BY <1>6 DEF Copy
    <2>3. /\ \A h \in Goroutines : h # g => routine'[h] = routine[h]
          /\ routine'[g].pc # "copy"
      BY <2>1, <1>a, <1>b
    <2>4. PlacesTaken' /\ PendingTaken' /\ PendingApart'
      BY <2>1, <2>3 DEF LogInv, PlacesTaken, PendingTaken, PendingApart, Owns, Apart
    <2>5. WholeOrPending'
      <3> SUFFICES ASSUME ~stray, NEW i \in DOMAIN logged
                   PROVE  \/ Whole(i)'
                          \/ stage = "running"
                             /\ \E h \in Goroutines : routine'[h].pc = "copy" /\ Owns(h, i)'
        BY <2>1 DEF WholeOrPending
      <3>0. \A p \in Span(logged[i]) : p \in DOMAIN sonarRegion
        <4>1. logged[i].at + logged[i].size <= sonarPos /\ sonarPos <= RegionSize
              /\ logged[i].at \in Nat /\ logged[i].size \in Nat
              /\ DOMAIN sonarRegion = 0 .. RegionSize - 1
          BY <1>0 DEF LogInv, PlacesTaken, LogTypeOK
        <4> QED  BY <4>1, <1>0 DEF Span
      <3>1. CASE Owns(g, i)
        <4>1. Whole(i)'
          BY <3>0, <3>1, <2>1, <2>2 DEF Owns, Whole, Span
        <4> QED  BY <4>1
      <3>2. CASE Apart(routine[g], logged[i])
        <4>1. \A p \in Span(logged[i]) : p \notin Span(routine[g])
          <5>1. /\ routine[g].at \in Nat /\ routine[g].size \in Nat
                /\ logged[i].at \in Nat /\ logged[i].size \in Nat
            BY <1>0
          <5> QED  BY <5>1, <3>2 DEF Apart, Span
        <4>2. CASE Whole(i)
          <5>1. \A p \in Span(logged[i]) : sonarRegion'[p] = sonarRegion[p]
            BY <3>0, <4>1, <2>2
          <5> QED  BY <5>1, <4>2, <2>1 DEF Whole, Span
        <4>3. ASSUME stage = "running", NEW h \in Goroutines,
                     routine[h].pc = "copy", Owns(h, i)
              PROVE  Whole(i)' \/ (routine'[h].pc = "copy" /\ Owns(h, i)')
          <5>1. CASE h = g
            <6>1. Whole(i)'
              BY <5>1, <4>3, <3>0, <2>1, <2>2 DEF Owns, Whole, Span
            <6> QED  BY <6>1
          <5>2. CASE h # g
            BY <5>2, <4>3, <2>1, <2>3 DEF Owns
          <5> QED  BY <5>1, <5>2
        <4> QED  BY <4>2, <4>3 DEF LogInv, WholeOrPending
      <3> QED  BY <3>1, <3>2, <2>1 DEF LogInv, PendingApart
    <2> QED  BY <2>4, <2>5
  <1>7. CASE UNCHANGED logVars
    BY <1>7, IdleStep DEF logVars
  <1> QED  BY <1>1, <1>2, <1>3, <1>4, <1>5, <1>6, <1>7 DEF LogNext, SonarCall

\* The invariant of the log.
THEOREM LogInvariant == LogSpec => []LogInv
  <1>1. LogInit => LogInv
    <2> SUFFICES ASSUME LogInit PROVE LogInv
      OBVIOUS
    <2>1. MaxCalls \in Nat /\ RegionSize \in Nat
      BY LogAssumption DEF LogAssumption
    <2>2. Away \in Routine /\ Away.pc = "away"
      BY <2>1 DEF Away, Routine
    <2>3. logged \in Seq(Record) /\ DOMAIN logged = {}
      BY DEF LogInit
    <2>4. LogTypeOK
      <3>1. routine \in [Goroutines -> Routine]
            /\ \A g \in Goroutines : routine[g].pc # "copy"
        BY <2>2 DEF LogInit
      <3>2. sonarPos \in 0 .. RegionSize /\ replyPos \in 0 .. RegionSize
            /\ calls \in 0 .. MaxCalls /\ DOMAIN sonarRegion = 0 .. RegionSize - 1
        BY <2>1 DEF LogInit
      <3>3. stage = "idle" /\ stray = FALSE
        BY DEF LogInit
      <3> QED  BY <3>1, <3>2, <3>3, <2>3 DEF LogTypeOK
    <2>5. \A g \in Goroutines : routine[g].pc # "copy"
      BY <2>2 DEF LogInit
    <2> QED  BY <2>3, <2>4, <2>5
             DEF LogInv, PlacesTaken, PendingTaken, PendingApart, WholeOrPending
  <1>2. LogInv /\ [LogNext]_logVars => LogInv'
    <2> SUFFICES ASSUME LogInv, [LogNext]_logVars PROVE LogInv'
      OBVIOUS
    <2>1. LogTypeOK'
      BY LogTypeStep DEF LogInv
    <2>2. PlacesTaken' /\ PendingTaken' /\ PendingApart' /\ WholeOrPending'
      BY LogStep
    <2> QED  BY <2>1, <2>2 DEF LogInv
  <1> QED  BY <1>1, <1>2, PTL DEF LogSpec

\* No goroutine, of whatever test, appends beyond the region.
THEOREM LogTyped == LogSpec => []LogTypeOK
  BY LogInvariant, PTL DEF LogInv

\* Without a pending copy at either end of a test, its records are whole.
THEOREM RecordsDoNotTear == LogSpec => []RecordsWhole
  <1>1. LogInv => RecordsWhole
    BY DEF LogInv, WholeOrPending, Whole, RecordsWhole
  <1> QED  BY <1>1, LogInvariant, PTL

-----------------------------------------------------------------------------
(* What the worker parses.  The log is a chain of records: each begins     *)
(* where the one before it ends, the first at 0, and the last ends at the  *)
(* position of the log, which the reply carries.                           *)

LogEnd == IF stage = "running" THEN sonarPos ELSE replyPos

\* Where record i begins, for the one after the last: where it would.
Begin(i) == IF i \in DOMAIN logged THEN logged[i].at ELSE LogEnd

LogChain ==
  /\ Begin(1) = 0
  /\ \A i \in DOMAIN logged :
       /\ logged[i].size >= SonarHdrLen
       /\ logged[i].at + logged[i].size = Begin(i + 1)
       /\ logged[i].at + logged[i].size <= LogEnd

SizesKnown ==
  /\ \A p \in DOMAIN sonarRegion : sonarRegion[p].size \in Nat
  /\ \A g \in Goroutines : routine[g].pc \in {"swap", "copy"} => routine[g].size >= SonarHdrLen

ParseInv == LogInv /\ LogChain /\ SizesKnown /\ LogParsed

-----------------------------------------------------------------------------
(* parse is well defined: it calls itself only further on in the region.   *)

Less == {p \in Nat \X Nat : p[1] < p[2]}

\* A set of natural numbers has a least element.
LEMMA Least ==
  ASSUME NEW T, T \subseteq Nat, T # {}
  PROVE  \E n \in T : \A m \in T : n <= m
  <1>1. IsWellFoundedOn(Less, Nat)
    BY NatLessThanWellFounded DEF OpToRel, Less
  <1>2. PICK n \in T : \A m \in T : ~(<<m, n>> \in Less)
    BY <1>1, WFMin
  <1>3. \A m \in Nat, k \in Nat : <<m, k>> \in Less <=> m < k
    BY DEF Less
  <1>4. \A m \in Nat : <<m, n>> \notin Less => n <= m
    BY <1>3
  <1> QED  BY <1>2, <1>4

\* The body of parse, for any function in its place.
RecordAt(p) == [rec |-> sonarRegion[p].rec, size |-> sonarRegion[p].size, at |-> p]

ParseFrom(f, p) ==
  IF replyPos - p <= SonarHdrLen THEN <<>>
  ELSE IF ~Intact(p) THEN <<Garbled>>
  ELSE <<RecordAt(p)>> \o f[p + sonarRegion[p].size]

\* There is a function that parses: it calls itself only further on.
LEMMA ParseExists ==
  ASSUME LogTypeOK, SizesKnown
  PROVE  \E f : f = [p \in 0 .. RegionSize |-> ParseFrom(f, p)]
  <1>0. RegionSize \in Nat /\ SonarHdrLen \in Nat /\ replyPos \in 0 .. RegionSize
    BY LogAssumption DEF LogAssumption, LogTypeOK
  <1> DEFINE Pos == 0 .. RegionSize
             Fit(f, k) == f = [p \in Pos |-> f[p]] /\ \A p \in k .. RegionSize : f[p] = ParseFrom(f, p)
             T == {k \in 0 .. RegionSize + 1 : \E f : Fit(f, k)}
  <1>1. ASSUME NEW p \in Pos, NEW f, NEW g,
               \A q \in p + 1 .. RegionSize : f[q] = g[q]
        PROVE  ParseFrom(f, p) = ParseFrom(g, p)
    <2>1. CASE replyPos - p <= SonarHdrLen \/ ~Intact(p)
      BY <2>1 DEF ParseFrom
    <2>2. CASE replyPos - p > SonarHdrLen /\ Intact(p)
      <3>1. p \in DOMAIN sonarRegion
        BY <1>0, <2>2 DEF LogTypeOK
      <3>2. sonarRegion[p].size \in Nat /\ sonarRegion[p].size # 0
            /\ p + sonarRegion[p].size <= replyPos
        BY <2>2, <3>1 DEF SizesKnown, Intact
      <3>3. p + sonarRegion[p].size \in p + 1 .. RegionSize
        BY <1>0, <3>2
      <3> QED  BY <1>1, <3>3 DEF ParseFrom
    <2> QED  BY <1>0, <2>1, <2>2
  <1>2. RegionSize + 1 \in T
    <2>1. Fit([p \in Pos |-> <<>>], RegionSize + 1)
      BY <1>0
    <2> QED  BY <1>0, <2>1
  <1>3. PICK n \in T : \A m \in T : n <= m
    <2>1. T \subseteq Nat
      BY <1>0
    <2> HIDE DEF T
    <2> QED  BY <1>2, <2>1, Least
  <1>4. PICK f : Fit(f, n)
    BY <1>3
  <1>5. n = 0
    <2> SUFFICES ASSUME n # 0 PROVE FALSE
      OBVIOUS
    <2>1. n \in Nat /\ n - 1 \in Pos /\ n - 1 + 1 = n
      BY <1>0, <1>3
    <2> DEFINE g == [p \in Pos |-> IF p = n - 1 THEN ParseFrom(f, p) ELSE f[p]]
    <2>2. \A q \in n .. RegionSize : g[q] = f[q]
      BY <1>0, <2>1
    <2>3. ASSUME NEW p \in n - 1 .. RegionSize PROVE g[p] = ParseFrom(g, p)
      <3>1. p \in Pos /\ \A q \in p + 1 .. RegionSize : f[q] = g[q]
        BY <1>0, <2>1, <2>2
      <3>2. ParseFrom(f, p) = ParseFrom(g, p)
        <4> HIDE DEF g, Pos
        <4> QED  BY <1>1, <3>1
      <3>3. g[p] = ParseFrom(f, p)
        BY <1>4, <2>1, <3>1
      <3> QED  BY <3>2, <3>3
    <2>4. g = [p \in Pos |-> g[p]]
      OBVIOUS
    <2>5. Fit(g, n - 1)
      <3> HIDE DEF g
      <3> QED  BY <2>3, <2>4
    <2>6. n - 1 \in T
      <3> HIDE DEF Fit
      <3> QED  BY <1>0, <1>3, <2>1, <2>5
    <2> QED  BY <1>3, <2>1, <2>6
  <1> QED  BY <1>4, <1>5

\* parse does what its definition says, a record at a time.
LEMMA ParseStep ==
  ASSUME LogTypeOK, SizesKnown, NEW p \in 0 .. RegionSize
  PROVE  parse[p] = ParseFrom(parse, p)
  <1>1. parse = [q \in 0 .. RegionSize |-> ParseFrom(parse, q)]
    BY ParseExists, Zenon DEF parse, ParseFrom, RecordAt
  <1> HIDE DEF parse
  <1> QED  BY <1>1, Zenon

\* One more record in front.
LEMMA InFront ==
  ASSUME NEW S, NEW e \in S, NEW t \in Seq(S)
  PROVE  /\ <<e>> \o t \in Seq(S) /\ Len(<<e>> \o t) = 1 + Len(t)
         /\ (<<e>> \o t)[1] = e
         /\ \A j \in 1 .. Len(t) : (<<e>> \o t)[1 + j] = t[j]
  <1>1. <<e>> \in Seq(S) /\ Len(<<e>>) = 1 /\ <<e>>[1] = e /\ Len(t) \in Nat
    OBVIOUS
  <1>2. /\ <<e>> \o t \in Seq(S) /\ Len(<<e>> \o t) = 1 + Len(t)
        /\ \A j \in 1 .. 1 + Len(t) :
             (<<e>> \o t)[j] = IF j <= 1 THEN <<e>>[j] ELSE t[j - 1]
    <2>1. /\ <<e>> \o t \in Seq(S) /\ Len(<<e>> \o t) = Len(<<e>>) + Len(t)
          /\ \A j \in 1 .. Len(<<e>>) + Len(t) :
               (<<e>> \o t)[j] = IF j <= Len(<<e>>) THEN <<e>>[j] ELSE t[j - Len(<<e>>)]
      BY <1>1, ConcatProperties
    <2>2. PICK l \in Nat : l = Len(<<e>>) /\ l = 1
      BY <1>1
    <2> QED  BY <2>1, <2>2
  <1> QED  BY <1>1, <1>2

\* Without strays, the worker parses the records of the log from each of them on.
LEMMA ParsesLog ==
  ASSUME LogInv, LogChain, SizesKnown, stage = "replied", ~stray
  PROVE  parseSonarData =
           IF logged # <<>> /\ logged[Len(logged)].size = SonarHdrLen
           THEN SubSeq(logged, 1, Len(logged) - 1) ELSE logged
  <1>0. /\ RegionSize \in Nat /\ SonarHdrLen \in Nat /\ SonarHdrLen # 0
        /\ replyPos \in 0 .. RegionSize /\ LogTypeOK
        /\ Len(logged) \in Nat /\ DOMAIN logged = 1 .. Len(logged) /\ logged \in Seq(Record)
    <2>1. LogTypeOK
      BY DEF LogInv
    <2> QED  BY <2>1, LogAssumption, FieldTypes DEF LogAssumption, LogTypeOK
  <1>d. /\ RegionSize \in Nat /\ SonarHdrLen \in Nat /\ SonarHdrLen # 0
        /\ replyPos \in Nat /\ replyPos <= RegionSize
    <2>1. RegionSize \in Nat /\ SonarHdrLen \in Nat /\ SonarHdrLen # 0 /\ replyPos \in 0 .. RegionSize
      BY <1>0, Zenon
    <2> QED  BY <2>1
  <1>a. PICK n \in Nat : n = Len(logged) /\ DOMAIN logged = 1 .. n
    BY <1>0, Zenon
  <1>b. \A i \in 1 .. n :
          logged[i] \in Record /\ logged[i].size \in Nat /\ logged[i].at \in Nat
    BY <1>0, <1>a, FieldTypes DEF LogTypeOK
  <1>1. PICK last \in 0 .. n :
          /\ n > 0 /\ logged[n].size = SonarHdrLen => last = n - 1
          /\ ~(n > 0 /\ logged[n].size = SonarHdrLen) => last = n
    <2>1. CASE n > 0 /\ logged[n].size = SonarHdrLen
      <3>1. n - 1 \in 0 .. n
        BY <2>1
      <3> QED  BY <2>1, <3>1
    <2>2. CASE ~(n > 0 /\ logged[n].size = SonarHdrLen)
      BY <2>2
    <2> QED  BY <2>1, <2>2
  <1>2. /\ LogEnd = replyPos /\ Begin(1) = 0
        /\ \A i \in 1 .. n : /\ logged[i].size >= SonarHdrLen /\ Begin(i) = logged[i].at
                             /\ logged[i].at + logged[i].size = Begin(i + 1)
                             /\ logged[i].at + logged[i].size <= replyPos
        /\ Begin(n + 1) = replyPos
    <2>1. LogEnd = replyPos
      BY DEF LogEnd
    <2>2. n + 1 \notin DOMAIN logged
      BY <1>a
    <2> QED  BY <1>a, <2>1, <2>2 DEF LogChain, Begin
  <1>3. ASSUME NEW i \in 1 .. last
        PROVE  /\ i \in 1 .. n /\ replyPos - Begin(i) > SonarHdrLen
               /\ Begin(i) \in 0 .. RegionSize /\ Begin(i + 1) \in Nat
    <2>0. i \in 1 .. n
      BY <1>1
    <2>1. PICK a \in Nat, z \in Nat, e \in Nat :
            /\ a = logged[i].at /\ z = logged[i].size /\ a = Begin(i) /\ e = Begin(i + 1)
            /\ z >= SonarHdrLen /\ a + z = e /\ e <= replyPos
      <3>1. PICK a \in Nat, z \in Nat : a = logged[i].at /\ z = logged[i].size
        BY <1>b, <2>0
      <3>2. /\ a = Begin(i) /\ z >= SonarHdrLen
            /\ a + z = Begin(i + 1) /\ a + z <= replyPos /\ a + z \in Nat
        BY <1>2, <2>0, <3>1
      <3> QED  BY <3>1, <3>2
    <2>2. replyPos - a > SonarHdrLen
      <3>1. CASE i < n
        <4>1. i + 1 \in 1 .. n
          BY <2>0, <3>1
        <4>2. PICK y \in Nat : y >= SonarHdrLen /\ e + y <= replyPos
          BY <1>b, <1>2, <2>1, <4>1
        <4> QED  BY <1>d, <2>1, <4>2
      <3>2. CASE i = n
        <4>1. z # SonarHdrLen
          BY <1>1, <2>0, <2>1, <3>2
        <4> QED  BY <1>d, <2>1, <4>1
      <3> QED  BY <2>0, <3>1, <3>2
    <2> QED  BY <1>d, <2>0, <2>1, <2>2
  <1>4. replyPos - Begin(last + 1) <= SonarHdrLen /\ Begin(last + 1) \in 0 .. RegionSize
    <2>1. CASE last = n
      BY <1>0, <1>2, <2>1
    <2>2. CASE last # n
      <3>1. n > 0 /\ logged[n].size = SonarHdrLen /\ last + 1 = n /\ n \in 1 .. n
        BY <1>1, <2>2
      <3>2. Begin(n) + SonarHdrLen = replyPos /\ Begin(n) \in Nat
        BY <1>b, <1>2, <3>1
      <3> QED  BY <1>0, <3>1, <3>2
    <2> QED  BY <2>1, <2>2
  <1>5. ASSUME NEW i \in 1 .. last
        PROVE  Intact(Begin(i)) /\ RecordAt(Begin(i)) = logged[i]
               /\ Begin(i) + sonarRegion[Begin(i)].size = Begin(i + 1)
    <2>0. i \in 1 .. n
      BY <1>3
    <2>1. /\ i \in DOMAIN logged /\ Begin(i) = logged[i].at
          /\ logged[i].at \in Nat /\ logged[i].size \in Nat /\ logged[i].size # 0
          /\ logged[i].at + logged[i].size <= replyPos
          /\ logged[i].at + logged[i].size = Begin(i + 1)
      BY <1>d, <1>a, <1>b, <1>2, <2>0
    <2>2. Whole(i)
      BY <2>1 DEF LogInv, WholeOrPending
    <2>3. ASSUME NEW o \in 0 .. logged[i].size - 1
          PROVE  sonarRegion[logged[i].at + o] =
                   [rec |-> logged[i].rec, size |-> logged[i].size, off |-> o]
      <3>1. \A a \in Nat, z \in Nat : o \in 0 .. z - 1 => a + o \in a .. a + z - 1 /\ a + o - a = o
        OBVIOUS
      <3>p. PICK p : p = logged[i].at + o
        OBVIOUS
      <3>2. p \in Span(logged[i]) /\ p - logged[i].at = o
        BY <2>1, <3>1, <3>p DEF Span
      <3>3. sonarRegion[p] = [rec |-> logged[i].rec, size |-> logged[i].size,
                              off |-> p - logged[i].at]
        BY <2>2, <3>2 DEF Whole
      <3> QED  BY <3>p, <3>2, <3>3
    <2>4. sonarRegion[logged[i].at] =
            [rec |-> logged[i].rec, size |-> logged[i].size, off |-> 0]
      <3>1. 0 \in 0 .. logged[i].size - 1 /\ logged[i].at + 0 = logged[i].at
        BY <2>1
      <3> QED  BY <2>3, <3>1
    <2>5. logged[i] = [rec |-> logged[i].rec, size |-> logged[i].size, at |-> logged[i].at]
      BY <1>b, <2>0 DEF Record
    <2> QED  BY <2>1, <2>3, <2>4, <2>5 DEF Intact, RecordAt
  <1> DEFINE Good(i) == /\ parse[Begin(i)] \in Seq(Record)
                        /\ Len(parse[Begin(i)]) = last + 1 - i
                        /\ \A j \in 1 .. last + 1 - i : parse[Begin(i)][j] = logged[i + j - 1]
             T == {m \in 1 .. last + 1 : Good(m)}
  <1>6. last + 1 \in T
    <2>1. parse[Begin(last + 1)] = <<>>
      BY <1>0, <1>4, ParseStep DEF ParseFrom
    <2>2. Good(last + 1)
      BY <1>1, <2>1
    <2> HIDE DEF Good
    <2> QED  BY <1>0, <1>1, <2>2
  <1>7. PICK i \in T : \A m \in T : i <= m
    <2>1. T \subseteq Nat /\ T # {}
      BY <1>1, <1>6
    <2> HIDE DEF T
    <2> QED  BY <2>1, Least
  <1>8. i \in 1 .. last + 1 /\ Good(i)
    OBVIOUS
  <1>9. i = 1
    <2> SUFFICES ASSUME i # 1 PROVE FALSE
      OBVIOUS
    <2>1. i - 1 \in 1 .. last /\ i - 1 + 1 = i /\ i - 1 \in 1 .. last + 1
      BY <1>1, <1>8
    <2>2. parse[Begin(i - 1)] = <<logged[i - 1]>> \o parse[Begin(i)]
      <3>1. parse[Begin(i - 1)] = ParseFrom(parse, Begin(i - 1))
        BY <1>0, <1>3, <2>1, ParseStep
      <3>2. ~(replyPos - Begin(i - 1) <= SonarHdrLen)
        <4>1. replyPos - Begin(i - 1) > SonarHdrLen /\ Begin(i - 1) \in Nat
          BY <1>d, <1>3, <2>1
        <4> QED  BY <1>d, <4>1
      <3>3. /\ Intact(Begin(i - 1)) /\ RecordAt(Begin(i - 1)) = logged[i - 1]
            /\ Begin(i - 1) + sonarRegion[Begin(i - 1)].size = Begin(i)
        BY <1>5, <2>1, Zenon
      <3> QED  BY <3>1, <3>2, <3>3, Zenon DEF ParseFrom
    <2>3. logged[i - 1] \in Record
      BY <1>b, <1>3, <2>1
    <2>4. PICK t \in Seq(Record) : /\ t = parse[Begin(i)] /\ Len(t) = last + 1 - i
                                   /\ \A j \in 1 .. last + 1 - i : t[j] = logged[i + j - 1]
      BY <1>8
    <2>5. PICK s : s = <<logged[i - 1]>> \o t
      BY Zenon
    <2>6. /\ s \in Seq(Record) /\ Len(s) = 1 + Len(t) /\ s[1] = logged[i - 1]
          /\ \A j \in 1 .. Len(t) : s[1 + j] = t[j]
      BY <2>3, <2>5, InFront
    <2>7. PICK k \in Nat : k = last + 1 - (i - 1) /\ k = 1 + (last + 1 - i)
      BY <1>1, <1>8, <2>1
    <2>8. ASSUME NEW j \in 1 .. k PROVE s[j] = logged[i - 1 + j - 1]
      <3>1. CASE j = 1
        <4>1. i - 1 + j - 1 = i - 1
          BY <1>8, <3>1
        <4> QED  BY <2>6, <3>1, <4>1
      <3>2. CASE j # 1
        <4>1. PICK l \in 1 .. last + 1 - i : 1 + l = j /\ i - 1 + j - 1 = i + l - 1
          <5>1. j - 1 \in 1 .. last + 1 - i /\ 1 + (j - 1) = j /\ i - 1 + j - 1 = i + (j - 1) - 1
            BY <1>1, <1>8, <2>7, <3>2
          <5> QED  BY <5>1
        <4> QED  BY <2>4, <2>6, <4>1
      <3> QED  BY <3>1, <3>2
    <2>9. Good(i - 1)
      <3>1. parse[Begin(i - 1)] = s
        BY <2>2, <2>4, <2>5
      <3>2. Len(s) = k
        BY <2>4, <2>6, <2>7
      <3> QED  BY <2>6, <2>7, <2>8, <3>1, <3>2, Zenon
    <2>10. i - 1 \in T
      <3> HIDE DEF Good
      <3> QED  BY <2>1, <2>9
    <2> QED  BY <1>1, <1>7, <1>8, <2>1, <2>10
  <1>10. PICK s \in Seq(Record) : /\ s = parse[0] /\ Len(s) = last
                                  /\ \A j \in 1 .. last : s[j] = logged[j]
    <2>1. /\ parse[0] \in Seq(Record) /\ Len(parse[0]) = last + 1 - 1
          /\ \A j \in 1 .. last + 1 - 1 : parse[0][j] = logged[1 + j - 1]
      BY <1>2, <1>8, <1>9
    <2>2. last + 1 - 1 = last /\ \A j \in 1 .. last : 1 + j - 1 = j
      BY <1>1
    <2> QED  BY <2>1, <2>2
  <1>11. CASE last = n
    <2>1. s = logged
      BY <1>0, <1>a, <1>10, <1>11, SeqEqual
    <2>2. ~(logged # <<>> /\ logged[Len(logged)].size = SonarHdrLen)
      <3>1. CASE n = 0
        BY <1>0, <1>a, <3>1, EmptySeq
      <3>2. CASE n # 0
        BY <1>a, <1>1, <1>11, <3>2
      <3> QED  BY <3>1, <3>2
    <2> QED  BY <1>10, <2>1, <2>2 DEF parseSonarData
  <1>12. CASE last # n
    <2>1. n > 0 /\ logged[n].size = SonarHdrLen /\ last = n - 1
      BY <1>1, <1>12
    <2>2. s = SubSeq(logged, 1, last)
      <3>1. PICK q : q = SubSeq(logged, 1, last)
        BY Zenon
      <3>2. \A j \in 1 .. last : logged[j] \in Record
        <4>1. \A j \in 1 .. last : j \in 1 .. n
          OBVIOUS
        <4> QED  BY <1>b, <4>1, Zenon
      <3>3. /\ q \in Seq(Record) /\ Len(q) = IF 1 <= last THEN last - 1 + 1 ELSE 0
            /\ \A j \in 1 .. last - 1 + 1 : q[j] = logged[1 + j - 1]
        BY <3>1, <3>2, SubSeqProperties
      <3>4. Len(q) = last /\ \A j \in 1 .. last : q[j] = logged[j]
        <4>1. last - 1 + 1 = last /\ \A j \in 1 .. last : 1 + j - 1 = j
          OBVIOUS
        <4> QED  BY <3>3, <4>1
      <3> QED  BY <1>10, <3>1, <3>3, <3>4, SeqEqual
    <2>3. logged # <<>>
      <3> SUFFICES ASSUME logged = <<>> PROVE FALSE
        OBVIOUS
      <3>1. Len(logged) = 0
        BY EmptySeq
      <3> QED  BY <1>a, <2>1, <3>1
    <2>4. logged[Len(logged)].size = SonarHdrLen /\ Len(logged) - 1 = last
      BY <1>a, <2>1
    <2>5. s = SubSeq(logged, 1, Len(logged) - 1)
      BY <2>2, <2>4
    <2> QED  BY <1>10, <2>3, <2>4, <2>5, Zenon DEF parseSonarData
  <1> QED  BY <1>11, <1>12

\* Known sizes: a record is at least its header, a cell holds a natural number.
LEMMA SizesStep ==
  ASSUME LogTypeOK, SizesKnown, [LogNext]_logVars
  PROVE  SizesKnown'
  <1>0. /\ \A n \in Operands : n \in Nat
        /\ SonarHdrLen \in Nat /\ Main \in Goroutines /\ DOMAIN routine = Goroutines
        /\ \A g \in Goroutines : routine[g] \in Routine /\ routine[g].size \in Nat
    BY LogAssumption, FieldTypes DEF LogAssumption, LogTypeOK
  <1> DEFINE Big(r) == r.pc \in {"swap", "copy"} => r.size >= SonarHdrLen
  <1>1. \A g \in Goroutines : Big(routine[g])
    BY DEF SizesKnown
  <1>2. ASSUME NEW g \in Goroutines, NEW r, Big(r), UNCHANGED sonarRegion,
               routine' = [routine EXCEPT ![g] = r]
        PROVE  SizesKnown'
    <2>1. \A h \in Goroutines : Big(routine'[h])
      BY <1>0, <1>1, <1>2
    <2> QED  BY <1>2, <2>1 DEF SizesKnown
  <1>3. ASSUME NEW r \in Routine, Big(r), NEW c \in {"away", "code"}
        PROVE  Big([r EXCEPT !.pc = c])
    BY DEF Routine
  <1>4. ASSUME NEW g \in Goroutines, NEW c \in {"away", "code"}, UNCHANGED sonarRegion,
               routine' = [routine EXCEPT ![g].pc = c]
        PROVE  SizesKnown'
    <2>1. routine' = [routine EXCEPT ![g] = [routine[g] EXCEPT !.pc = c]]
      BY <1>4
    <2>2. Big([routine[g] EXCEPT !.pc = c])
      BY <1>0, <1>1, <1>3
    <2> HIDE DEF Big
    <2> QED  BY <1>2, <1>4, <2>1, <2>2
  <1>5. CASE StartTest \/ Reply
    BY <1>0, <1>4, <1>5 DEF StartTest, Reply
  <1>6. CASE Parse \/ UNCHANGED logVars
    BY <1>6 DEF Parse, logVars, SizesKnown
  <1>7. ASSUME NEW g \in Goroutines, Go(g) \/ Full(g) PROVE SizesKnown'
    BY <1>4, <1>7 DEF Go, Full
  <1>8. ASSUME NEW g \in Goroutines, Exit(g) PROVE SizesKnown'
    BY <1>2, <1>8 DEF Exit, Away
  <1>9. ASSUME NEW g \in Goroutines, Load(g) PROVE SizesKnown'
    <2>1. PICK n \in Operands : routine' = [routine EXCEPT ![g] =
            [pc |-> "swap", rec |-> calls + 1, size |-> SonarHdrLen + n, at |-> sonarPos]]
      BY <1>9 DEF Load
    <2>2. Big([pc |-> "swap", rec |-> calls + 1, size |-> SonarHdrLen + n, at |-> sonarPos])
      BY <1>0
    <2> HIDE DEF Big
    <2> QED  BY <1>2, <1>9, <2>1, <2>2 DEF Load
  <1>10. ASSUME NEW g \in Goroutines, Swap(g) PROVE SizesKnown'
    <2>1. routine' = [routine EXCEPT ![g] = [routine[g] EXCEPT !.pc = "copy"]]
          /\ routine[g].pc = "swap" /\ UNCHANGED sonarRegion
      BY <1>10 DEF Swap
    <2>2. Big([routine[g] EXCEPT !.pc = "copy"])
      BY <1>0, <1>1, <2>1 DEF Routine
    <2> HIDE DEF Big
    <2> QED  BY <1>2, <2>1, <2>2
  <1>11. ASSUME NEW g \in Goroutines, Reload(g) PROVE SizesKnown'
    <2>1. routine' = [routine EXCEPT ![g] = [routine[g] EXCEPT !.at = sonarPos]]
          /\ routine[g].pc = "swap" /\ UNCHANGED sonarRegion
      BY <1>11 DEF Reload
    <2>2. Big([routine[g] EXCEPT !.at = sonarPos])
      BY <1>0, <1>1, <2>1 DEF Routine
    <2> HIDE DEF Big
    <2> QED  BY <1>2, <2>1, <2>2
  <1>12. ASSUME NEW g \in Goroutines, Copy(g) PROVE SizesKnown'
    <2>1. \A h \in Goroutines : Big(routine'[h])
      <3>1. routine' = [routine EXCEPT ![g] = [routine[g] EXCEPT !.pc = "code"]]
        BY <1>12 DEF Copy
      <3>2. Big([routine[g] EXCEPT !.pc = "code"])
        BY <1>0, <1>1, <1>3
      <3> QED  BY <1>0, <1>1, <3>1, <3>2
    <2>2. \A p \in DOMAIN sonarRegion' : sonarRegion'[p].size \in Nat
      BY <1>0, <1>12 DEF Copy, SizesKnown
    <2> QED  BY <2>1, <2>2 DEF SizesKnown
  <1> QED  BY <1>5, <1>6, <1>7, <1>8, <1>9, <1>10, <1>11, <1>12 DEF LogNext, SonarCall

\* A record is appended where the log ends, and the reply carries that end.
LEMMA ChainStep ==
  ASSUME LogTypeOK, SizesKnown, LogChain, [LogNext]_logVars
  PROVE  LogChain'
  <1>1. CASE StartTest
    <2>1. DOMAIN logged' = {} /\ stage' = "running" /\ sonarPos' = 0
      BY <1>1 DEF StartTest
    <2> QED  BY <2>1 DEF LogChain, Begin, LogEnd
  <1>2. ASSUME UNCHANGED logged, LogEnd' = LogEnd PROVE LogChain'
    BY <1>2 DEF LogChain, Begin
  <1>3. CASE Reply \/ Parse \/ UNCHANGED logVars
    BY <1>2, <1>3 DEF Reply, Parse, logVars, LogEnd
  <1>4. ASSUME NEW g \in Goroutines, Go(g) \/ Exit(g) \/ Load(g) \/ Full(g) \/ Reload(g) \/ Copy(g)
        PROVE  LogChain'
    BY <1>2, <1>4 DEF Go, Exit, Load, Full, Reload, Copy, LogEnd
  <1>5. ASSUME NEW g \in Goroutines, Swap(g), stage # "running" PROVE LogChain'
    BY <1>2, <1>5 DEF Swap, LogEnd
  <1>6. ASSUME NEW g \in Goroutines, Swap(g), stage = "running" PROVE LogChain'
    <2> DEFINE e == [rec |-> routine[g].rec, size |-> routine[g].size, at |-> routine[g].at]
    <2>1. /\ logged' = Append(logged, e) /\ e.size = routine[g].size /\ e.at = sonarPos
          /\ routine[g].size >= SonarHdrLen /\ sonarPos' = sonarPos + routine[g].size
          /\ LogEnd = sonarPos /\ LogEnd' = sonarPos'
      BY <1>6 DEF Swap, Unmoved, LogEnd, SizesKnown
    <2>2. PICK a \in Nat, z \in Nat, b \in Nat :
            a = sonarPos /\ z = routine[g].size /\ b = sonarPos' /\ b = a + z
      <3>1. PICK a \in Nat, z \in Nat : a = sonarPos /\ z = routine[g].size
        BY FieldTypes
      <3>2. PICK b \in Nat : b = a + z
        OBVIOUS
      <3> QED  BY <2>1, <3>1, <3>2, Zenon
    <2>3. PICK n \in Nat : /\ n = Len(logged) /\ DOMAIN logged = 1 .. n /\ logged \in Seq(Record)
                           /\ \A i \in 1 .. n : logged[i].at \in Nat /\ logged[i].size \in Nat
      BY FieldTypes DEF LogTypeOK
    <2> HIDE DEF e
    <2>4. /\ DOMAIN logged' = 1 .. n + 1 /\ logged'[n + 1] = e
          /\ \A i \in 1 .. n : logged'[i] = logged[i]
      BY <2>1, <2>3
    <2>5. /\ \A i \in 1 .. n : Begin(i) = logged[i].at
          /\ Begin(n + 1) = a
          /\ \A i \in 1 .. n + 1 : Begin(i)' = Begin(i)
          /\ Begin(n + 2)' = b
      <3>1. n + 1 \notin 1 .. n /\ n + 2 \notin 1 .. n + 1 /\ n + 1 \in 1 .. n + 1
            /\ (\A i \in 1 .. n + 1 : i \in 1 .. n \/ i = n + 1)
            /\ \A i \in 1 .. n : i \in 1 .. n + 1
        OBVIOUS
      <3>2. (\A i \in 1 .. n : Begin(i) = logged[i].at) /\ Begin(n + 1) = a
        BY <2>1, <2>2, <2>3, <3>1 DEF Begin
      <3>3. Begin(n + 2)' = b
        BY <2>1, <2>2, <2>4, <3>1 DEF Begin
      <3>4. ASSUME NEW i \in 1 .. n + 1 PROVE Begin(i)' = Begin(i)
        <4>1. Begin(i)' = logged'[i].at
          BY <2>4 DEF Begin
        <4>2. CASE i \in 1 .. n
          BY <2>4, <3>2, <4>1, <4>2
        <4>3. CASE i = n + 1
          BY <2>1, <2>2, <2>4, <3>2, <4>1, <4>3
        <4> QED  BY <3>1, <4>2, <4>3
      <3> QED  BY <3>2, <3>3, <3>4
    <2>6. Begin(1)' = 0
      BY <2>5 DEF LogChain
    <2>7. ASSUME NEW i \in 1 .. n + 1
          PROVE  /\ logged'[i].size >= SonarHdrLen
                 /\ logged'[i].at + logged'[i].size = Begin(i + 1)'
                 /\ logged'[i].at + logged'[i].size <= LogEnd'
      <3>1. CASE i \in 1 .. n
        <4>1. /\ logged[i].size >= SonarHdrLen
              /\ logged[i].at + logged[i].size = Begin(i + 1)
              /\ logged[i].at + logged[i].size <= a
          BY <2>1, <2>2, <2>3, <3>1 DEF LogChain
        <4>2. PICK x \in Nat, y \in Nat : x = logged[i].at /\ y = logged[i].size
          BY <2>3, <3>1
        <4>3. x + y <= b
          BY <2>2, <4>1, <4>2
        <4>4. i + 1 \in 1 .. n + 1
          BY <3>1
        <4>5. /\ logged'[i] = logged[i] /\ Begin(i + 1)' = Begin(i + 1) /\ LogEnd' = b
          BY <2>1, <2>2, <2>4, <2>5, <3>1, <4>4
        <4> QED  BY <4>1, <4>2, <4>3, <4>5
      <3>2. CASE i = n + 1
        <4>1. i + 1 = n + 2
          BY <3>2
        <4> QED  BY <2>1, <2>2, <2>4, <2>5, <3>2, <4>1
      <3> QED  BY <3>1, <3>2
    <2> QED  BY <2>4, <2>6, <2>7 DEF LogChain
  <1> QED  BY <1>1, <1>3, <1>4, <1>5, <1>6 DEF LogNext, SonarCall

\* The worker parses exactly the records of the test, in the order they were reserved in
\* (but for a last one of two empty operands), unless a copy was pending at either end.
THEOREM LogParsedWhole == LogSpec => []LogParsed
  <1>1. LogInit /\ LogInv => ParseInv
    <2> SUFFICES ASSUME LogInit, LogInv PROVE ParseInv
      OBVIOUS
    <2>1. DOMAIN logged = {} /\ stage = "idle" /\ replyPos = 0 /\ logged = <<>> /\ parsed = <<>>
      BY DEF LogInit
    <2>2. LogChain
      BY <2>1 DEF LogChain, Begin, LogEnd
    <2>3. SizesKnown
      BY DEF LogInit, Blank, Away, SizesKnown
    <2> QED  BY <2>1, <2>2, <2>3 DEF ParseInv, LogParsed
  <1>2. ParseInv /\ [LogNext]_logVars => ParseInv'
    <2> SUFFICES ASSUME ParseInv, [LogNext]_logVars PROVE ParseInv'
      OBVIOUS
    <2>1. LogInv /\ LogTypeOK /\ LogChain /\ SizesKnown /\ LogParsed
      BY DEF ParseInv, LogInv
    <2>2. LogInv'
      BY <2>1, LogTypeStep, LogStep DEF LogInv
    <2>3. LogChain' /\ SizesKnown'
      BY <2>1, ChainStep, SizesStep
    <2>4. LogParsed'
      <3>1. CASE Parse
        <4>1. stage = "replied" /\ parsed' = parseSonarData /\ UNCHANGED <<logged, stray>>
          BY <3>1 DEF Parse
        <4>2. CASE ~stray
          BY <2>1, <4>1, <4>2, ParsesLog DEF LogParsed
        <4>3. CASE stray
          BY <4>1, <4>3 DEF LogParsed
        <4> QED  BY <4>2, <4>3
      <3>2. CASE StartTest \/ Reply
        BY <3>2 DEF StartTest, Reply, LogParsed
      <3>3. ASSUME UNCHANGED <<stage, parsed, stray>>, stage = "running" \/ UNCHANGED logged
            PROVE  LogParsed'
        BY <2>1, <3>3 DEF LogParsed
      <3>4. ASSUME NEW g \in Goroutines, Go(g) \/ Exit(g) \/ SonarCall(g) PROVE LogParsed'
        BY <3>3, <3>4 DEF SonarCall, Go, Exit, Load, Full, Swap, Reload, Copy
      <3>5. CASE UNCHANGED logVars
        BY <3>3, <3>5 DEF logVars
      <3> QED  BY <3>1, <3>2, <3>4, <3>5 DEF LogNext
    <2> QED  BY <2>2, <2>3, <2>4 DEF ParseInv
  <1>3. ParseInv => LogParsed
    BY DEF ParseInv
  <1> QED  BY <1>1, <1>2, <1>3, LogInvariant, PTL DEF LogSpec

-----------------------------------------------------------------------------
(* A site and its samples.                                                 *)

Sample == [val : Values \X Values, smash : BOOLEAN, res : Truth]

SiteTypeOK ==
  /\ constant \in 0 .. 2
  /\ site.dynamic \in BOOLEAN /\ site.val \in (Values \X Values) \cup {Unset}
  /\ site.takenFuzz \in [Truth -> Nat]
  /\ samples \in Seq(Sample)

\* takenFuzz counts the samples of fuzzing, and those only.
FuzzCounted == \A r \in Truth : site.takenFuzz[r] = Cardinality(Fuzzed(r))

\* A site that is not dynamic remembers its first sample, and all the others
\* agree with it in one operand.
FirstKept ==
  constant = 0 /\ ~site.dynamic =>
    IF samples = <<>> THEN site.val = Unset
    ELSE site.val = samples[1].val
         /\ \A i \in DOMAIN samples : ~Differs(samples[1].val, samples[i].val)

SkipInv == SiteTypeOK /\ FuzzCounted /\ FirstKept /\ SkipEarned

-----------------------------------------------------------------------------
\* The samples of fuzzing are finitely many, and one more sample adds at most
\* its own place to them.
LEMMA FuzzedGrows ==
  ASSUME SiteTypeOK, NEW r \in Truth, NEW s \in Sample, samples' = Append(samples, s)
  PROVE  /\ IsFiniteSet(Fuzzed(r))
         /\ Fuzzed(r)' = IF ~s.smash /\ s.res = r
                         THEN Fuzzed(r) \cup {Len(samples) + 1} ELSE Fuzzed(r)
         /\ Len(samples) + 1 \notin Fuzzed(r)
<1> DEFINE n == Len(samples)
<1>1. n \in Nat /\ DOMAIN samples = 1 .. n
  BY DEF SiteTypeOK
<1>2. DOMAIN samples' = 1 .. n + 1 /\ samples'[n + 1] = s
      /\ \A i \in 1 .. n : samples'[i] = samples[i]
  BY <1>1 DEF SiteTypeOK
<1>3. IsFiniteSet(1 .. n)
  BY <1>1, FS_Interval
<1>4. Fuzzed(r) \subseteq 1 .. n
  BY <1>1 DEF Fuzzed
<1> HIDE DEF n
<1>5. Fuzzed(r)' = {i \in 1 .. n + 1 : ~samples'[i].smash /\ samples'[i].res = r}
  BY <1>2 DEF Fuzzed
<1>6. Fuzzed(r) = {i \in 1 .. n : ~samples[i].smash /\ samples[i].res = r}
  BY <1>1 DEF Fuzzed
<1>7. Fuzzed(r)' = IF ~s.smash /\ s.res = r THEN Fuzzed(r) \cup {n + 1} ELSE Fuzzed(r)
  <2>1. 1 .. n + 1 = (1 .. n) \cup {n + 1} /\ n + 1 \notin 1 .. n
    BY <1>1
  <2> QED
    BY <1>2, <1>5, <1>6, <2>1
<1> QED
  BY <1>1, <1>3, <1>4, <1>7, FS_Subset DEF n

\* The invariant holds of a site without samples ...
LEMMA SkipInit == SiteInit => SkipInv
<1> SUFFICES ASSUME SiteInit PROVE SkipInv
  OBVIOUS
<1>1. SiteTypeOK
  BY DEF SiteInit, SiteTypeOK, Unset
<1>2. \A r \in Truth : Fuzzed(r) = {}
  BY DEF SiteInit, Fuzzed
<1>3. FuzzCounted
  BY <1>2, FS_EmptySet DEF SiteInit, FuzzCounted
<1>4. FirstKept /\ SkipEarned
  BY DEF SiteInit, FirstKept, SkipEarned
<1> QED
  BY <1>1, <1>3, <1>4 DEF SkipInv

\* The count of fuzzing samples follows every update.
LEMMA CountStep ==
  ASSUME SiteTypeOK, FuzzCounted,
         NEW v \in Values \X Values, NEW smash \in BOOLEAN, NEW res \in Truth,
         update(v, smash, res)
  PROVE  /\ site'.takenFuzz = CountFuzz(site.takenFuzz, res, smash)
         /\ site'.takenFuzz \in [Truth -> Nat]
         /\ FuzzCounted'
<1> DEFINE s == [val |-> v, smash |-> smash, res |-> res]
<1>1. s \in Sample /\ samples' = Append(samples, s)
  BY DEF update, Sample
<1>2. site'.takenFuzz = CountFuzz(site.takenFuzz, res, smash)
  BY DEF update
<1>3. site'.takenFuzz \in [Truth -> Nat]
  BY <1>2 DEF SiteTypeOK, CountFuzz
<1>4. ASSUME NEW r \in Truth PROVE site'.takenFuzz[r] = Cardinality(Fuzzed(r)')
  <2>1. /\ IsFiniteSet(Fuzzed(r)) /\ Len(samples) + 1 \notin Fuzzed(r)
        /\ Fuzzed(r)' = IF ~smash /\ res = r
                        THEN Fuzzed(r) \cup {Len(samples) + 1} ELSE Fuzzed(r)
    BY <1>1, FuzzedGrows
  <2>2. Cardinality(Fuzzed(r)') = IF ~smash /\ res = r
                                  THEN Cardinality(Fuzzed(r)) + 1 ELSE Cardinality(Fuzzed(r))
    BY <2>1, FS_AddElement
  <2> QED
    BY <1>2, <2>2 DEF CountFuzz, FuzzCounted, SiteTypeOK
<1> QED
  BY <1>2, <1>3, <1>4 DEF FuzzCounted

\* What the site remembers of its first sample.
LEMMA FirstStep ==
  ASSUME SiteTypeOK, FirstKept,
         NEW v \in Values \X Values, NEW smash \in BOOLEAN, NEW res \in Truth,
         update(v, smash, res)
  PROVE  FirstKept' /\ site'.val \in (Values \X Values) \cup {Unset}
         /\ site'.dynamic = (site.dynamic \/ Turned(v)) /\ site'.dynamic \in BOOLEAN
<1> DEFINE s == [val |-> v, smash |-> smash, res |-> res]
           n == Len(samples)
<1>1. /\ samples' = Append(samples, s) /\ constant' = constant
      /\ site'.dynamic = (site.dynamic \/ Turned(v))
      /\ site'.val = IF Turned(v) THEN Unset
                     ELSE IF site.dynamic \/ constant # 0 THEN site.val ELSE Recorded(v)
  BY DEF update
<1>2. site'.dynamic \in BOOLEAN
  BY <1>1 DEF SiteTypeOK, Turned
<1>3. site'.val \in (Values \X Values) \cup {Unset}
  BY <1>1 DEF SiteTypeOK, Recorded
<1>4. FirstKept'
  <2> SUFFICES ASSUME constant = 0, ~site'.dynamic
               PROVE  /\ samples' # <<>> /\ site'.val = samples'[1].val
                      /\ \A i \in DOMAIN samples' : ~Differs(samples'[1].val, samples'[i].val)
    BY <1>1 DEF FirstKept
  <2>1. ~site.dynamic /\ ~Differs(Recorded(v), v) /\ site'.val = Recorded(v)
    BY <1>1 DEF Turned
  <2>2. /\ n \in Nat /\ DOMAIN samples' = 1 .. n + 1 /\ samples'[n + 1].val = v
        /\ DOMAIN samples = 1 .. n
        /\ samples' # <<>> /\ \A i \in 1 .. n : samples'[i] = samples[i]
    BY <1>1 DEF SiteTypeOK
  <2>3. CASE samples = <<>>
    <3>1. Recorded(v) = v
      BY <2>1, <2>3 DEF FirstKept, Recorded
    <3>2. n = 0
      BY <2>3
    <3> QED
      BY <2>1, <2>2, <3>1, <3>2
  <2>4. CASE samples # <<>>
    <3>1. n # 0
      BY <2>2, <2>4 DEF SiteTypeOK
    <3>2. site.val = samples[1].val
          /\ \A i \in 1 .. n : ~Differs(samples[1].val, samples[i].val)
      BY <2>1, <2>2, <2>4 DEF FirstKept
    <3>3. samples[1] \in Sample
      BY <2>2, <3>1 DEF SiteTypeOK
    <3>4. site.val \in Values \X Values
      BY <3>2, <3>3 DEF Sample
    <3>5. Recorded(v) = site.val
      BY <3>4 DEF Recorded, Unset
    <3>6. \A i \in 1 .. n + 1 : i \in 1 .. n \/ i = n + 1
      BY <2>2
    <3>7. 1 \in 1 .. n
      BY <2>2, <3>1
    <3> HIDE DEF n
    <3> QED
      BY <2>1, <2>2, <3>2, <3>5, <3>6, <3>7
  <2> QED
    BY <2>3, <2>4
<1> QED
  BY <1>1, <1>2, <1>3, <1>4

\* ... and every update keeps it.
LEMMA SkipStep == SkipInv /\ [SiteNext]_siteVars => SkipInv'
<1> SUFFICES ASSUME SkipInv, [SiteNext]_siteVars PROVE SkipInv'
  OBVIOUS
<1>1. CASE UNCHANGED siteVars
  BY <1>1 DEF SkipInv, siteVars, SiteTypeOK, FuzzCounted, FirstKept, SkipEarned, Fuzzed
<1>2. ASSUME NEW v \in Values \X Values, NEW smash \in BOOLEAN, NEW res \in Truth,
             update(v, smash, res)
      PROVE  SkipInv'
  <2> DEFINE s == [val |-> v, smash |-> smash, res |-> res]
  <2>1. /\ site'.takenFuzz = CountFuzz(site.takenFuzz, res, smash)
        /\ site'.takenFuzz \in [Truth -> Nat] /\ FuzzCounted'
    BY <1>2, CountStep DEF SkipInv
  <2>2. /\ FirstKept' /\ site'.val \in (Values \X Values) \cup {Unset}
        /\ site'.dynamic = (site.dynamic \/ Turned(v)) /\ site'.dynamic \in BOOLEAN
    BY <1>2, FirstStep DEF SkipInv
  <2>3. /\ s \in Sample /\ samples' = Append(samples, s) /\ constant' = constant
        /\ outcome'.skip = (~(site.dynamic \/ Turned(v)) /\ ~smash
                              /\ Tired(CountFuzz(site.takenFuzz, res, smash)))
    BY <1>2 DEF update, Sample
  <2>4. SiteTypeOK'
    BY <2>1, <2>2, <2>3 DEF SkipInv, SiteTypeOK
  <2>5. SkipEarned'
    <3> SUFFICES ASSUME outcome'.skip
                 PROVE  /\ ~samples'[Len(samples')].smash
                        /\ constant' # 0 \/ \A i \in DOMAIN samples' :
                               ~Differs(samples'[1].val, samples'[i].val)
                        /\ Tired([r \in Truth |-> Cardinality(Fuzzed(r)')])
      BY DEF SkipEarned
    <3>1. ~site'.dynamic /\ ~smash /\ Tired(site'.takenFuzz)
      BY <2>1, <2>2, <2>3
    <3>2. samples'[Len(samples')] = s /\ samples' # <<>>
      BY <2>3 DEF SkipInv, SiteTypeOK
    <3>3. Tired([r \in Truth |-> Cardinality(Fuzzed(r)')])
      BY <2>1, <3>1 DEF FuzzCounted, Tired, Truth
    <3>4. constant' # 0 \/ \A i \in DOMAIN samples' :
                               ~Differs(samples'[1].val, samples'[i].val)
      BY <2>2, <3>1, <3>2 DEF FirstKept
    <3> QED
      BY <3>1, <3>2, <3>3, <3>4
  <2> QED
    BY <2>1, <2>2, <2>4, <2>5 DEF SkipInv
<1> QED
  BY <1>1, <1>2 DEF SiteNext

\* A site is given up only when its samples justify it: update decides by two
\* counters, a flag and one remembered sample, and they never lie about the
\* samples, however fuzzing and smashing alternate.
THEOREM SkipsAreEarned == SiteSpec => []SkipEarned
<1>1. SkipInv => SkipEarned
  BY DEF SkipInv
<1> QED
  BY <1>1, SkipInit, SkipStep, PTL DEF SiteSpec
===============================================================================
