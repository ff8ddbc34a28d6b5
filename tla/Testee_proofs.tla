--------------------------- MODULE Testee_proofs ---------------------------
(***************************************************************************)
(* What holds of a test binary for any inputs, output, limits and any      *)
(* number of tests, and that Testee implements TestService.  The parts of  *)
(* the invariant are in Testee; each has one lemma that a step keeps it,   *)
(* with one step per action.                                               *)
(***************************************************************************)
EXTENDS Testee, FiniteSetTheorems, TLAPS

USE DEF workerVars, mapping, childVars, helperVars, mainVars, history

\* A read into the free part of the buffer, and the slide after it.
LEMMA SlideFits ==
  ASSUME NEW f \in 0 .. (BufSize \div 4) * 3, NEW n \in Nat, n <= BufSize - f
  PROVE  Slide(f + n) \in 0 .. (BufSize \div 4) * 3
  <1> DEFINE k == BufSize \div 4
  <1>1. BufSize = 4 * k /\ k \in Nat /\ BufSize \div 2 = 2 * k
    BY TesteeAssumption DEF TesteeAssumption
  <1> QED  BY <1>1 DEF Slide

\* What ReaderReads leaves of the buffer and of the pipe.
LEMMA ReadsFill ==
  ASSUME TestInv, NEW p \in Procs, ReaderReads(p)
  PROVE  filled' \in [Procs -> Nat] /\ stdout' \in [Procs -> Nat] /\ FillInv'
  <1> DEFINE room == BufSize - filled[p]
             n    == IF stdout[p] < room THEN stdout[p] ELSE room
             top  == (BufSize \div 4) * 3
  <1>1. BufSize \in Nat \ {0} /\ top \in Nat /\ top < BufSize
    BY TesteeAssumption DEF TesteeAssumption
  <1>2. filled \in [Procs -> Nat] /\ stdout \in [Procs -> Nat] /\ filled[p] \in 0 .. top
    BY DEF TestInv, TypeOK, FillInv
  <1>3. n \in Nat /\ n <= BufSize - filled[p] /\ n <= stdout[p]
    BY <1>1, <1>2
  <1>4. filled' = [filled EXCEPT ![p] = Slide(filled[p] + n)]
        /\ stdout' = [stdout EXCEPT ![p] = stdout[p] - n]
    BY DEF ReaderReads
  <1> HIDE DEF n
  <1>5. Slide(filled[p] + n) \in 0 .. top
    BY <1>2, <1>3, SlideFits
  <1>6. stdout[p] - n \in Nat
    BY <1>2, <1>3
  <1> HIDE DEF top
  <1>7. filled' \in [Procs -> Nat] /\ stdout' \in [Procs -> Nat]
    BY <1>1, <1>2, <1>4, <1>5, <1>6
  <1>8. \A q \in Procs : filled'[q] \in 0 .. top
    BY <1>2, <1>4, <1>5 DEF TestInv, FillInv, top
  <1> QED  BY <1>7, <1>8 DEF FillInv, top

\* Types; the output of a run needs to know which input the region holds.
LEMMA NextType == TestInv /\ [Next]_vars => TypeOK'
  <1> SUFFICES ASSUME TestInv, [Next]_vars PROVE TypeOK'
    OBVIOUS
  <1>0. \A i \in Inputs : Chatter[i] \in Nat
    BY TesteeAssumption DEF TesteeAssumption
  <1>1. CASE ReportCrasher
    BY <1>1 DEF ReportCrasher, TestInv, TypeOK
  <1>2. CASE BeginTest
    BY <1>2 DEF BeginTest, Goto, TestInv, TypeOK
  <1>3. CASE LeaveLoop
    BY <1>3 DEF LeaveLoop, Goto, TestInv, TypeOK
  <1>4. CASE Check
    BY <1>4 DEF Check, Goto, TestInv, TypeOK
  <1>5. CASE Start
    BY <1>5 DEF Start, Goto, TestInv, TypeOK
  <1>6. CASE Prepare
    BY <1>6 DEF Prepare, Goto, Signal, TestInv, TypeOK
  <1>7. CASE Write
    BY <1>7 DEF Write, Goto, TestInv, TypeOK
  <1>8. CASE Read
    BY <1>8 DEF Read, Goto, TestInv, TypeOK
  <1>9. CASE LoadHanged
    BY <1>9 DEF LoadHanged, Goto, TestInv, TypeOK
  <1>10. CASE ClearStart
    BY <1>10 DEF ClearStart, Goto, TestInv, TypeOK
  <1>11. CASE Close
    BY <1>11 DEF Close, Goto, TestInv, TypeOK
  <1>12. CASE Shutdown
    <2>1. testee \in Procs
      BY <1>12 DEF Shutdown, TestInv, TypeOK, ProcessInv, Using
    <2>2. sig' \in [Procs -> {"none", "abrt", "kill"}]
      BY <1>12, <2>1 DEF Shutdown, Signal, TestInv, TypeOK
    <2> QED  BY <1>12, <2>1, <2>2 DEF Shutdown, Goto, Signal, TestInv, TypeOK
  <1>13. CASE Collect
    BY <1>13 DEF Collect, Goto, TestInv, TypeOK
  <1>14. CASE Wait
    BY <1>14 DEF Wait, Goto, TestInv, TypeOK
  <1>15. CASE Interrupt
    BY <1>15 DEF Interrupt, TestInv, TypeOK
  <1>16. CASE CloseShutdownC
    BY <1>16 DEF CloseShutdownC, TestInv, TypeOK
  <1>17. CASE Elapse
    BY <1>17 DEF Elapse, TestInv, TypeOK
  <1>18. ASSUME NEW p \in Procs, ChildRead(p) PROVE TypeOK'
    <2>1. inputRegion \in Inputs
      BY <1>18 DEF ChildRead, TestInv, TypeOK, RequestInv, VerdictInv
    <2>2. toPrint' \in [Procs -> Nat] /\ run' \in [Procs -> Inputs \cup {NoInput}]
      BY <1>18, <1>0, <2>1 DEF ChildRead, TestInv, TypeOK
    <2> QED  BY <1>18, <2>2 DEF ChildRead, TestInv, TypeOK
  <1>19. ASSUME NEW p \in Procs, ChildPrint(p) PROVE TypeOK'
    BY <1>19 DEF ChildPrint, TestInv, TypeOK
  <1>20. ASSUME NEW p \in Procs, ChildReply(p) PROVE TypeOK'
    BY <1>20 DEF ChildReply, TestInv, TypeOK
  <1>21. ASSUME NEW p \in Procs, ChildCrash(p) PROVE TypeOK'
    BY <1>21 DEF ChildCrash, Exit, TestInv, TypeOK
  <1>22. ASSUME NEW p \in Procs, ChildDies(p) PROVE TypeOK'
    BY <1>22 DEF ChildDies, Exit, TestInv, TypeOK
  <1>23. ASSUME NEW p \in Procs, ReaderWakes(p) PROVE TypeOK'
    BY <1>23 DEF ReaderWakes, TestInv, TypeOK
  <1>24. ASSUME NEW p \in Procs, ReaderReads(p) PROVE TypeOK'
    <2>1. filled' \in [Procs -> Nat] /\ stdout' \in [Procs -> Nat]
      BY <1>24, ReadsFill
    <2> QED  BY <1>24, <2>1 DEF ReaderReads, TestInv, TypeOK
  <1>25. ASSUME NEW p \in Procs, ReaderEnds(p) PROVE TypeOK'
    BY <1>25 DEF ReaderEnds, TestInv, TypeOK
  <1>26. ASSUME NEW p \in Procs, WatcherFires(p) PROVE TypeOK'
    BY <1>26 DEF WatcherFires, TestInv, TypeOK
  <1>27. ASSUME NEW p \in Procs, WatcherStores(p) PROVE TypeOK'
    BY <1>27 DEF WatcherStores, TestInv, TypeOK
  <1>28. ASSUME NEW p \in Procs, WatcherAborts(p) PROVE TypeOK'
    BY <1>28 DEF WatcherAborts, Signal, TestInv, TypeOK
  <1>29. ASSUME NEW p \in Procs, WatcherKills(p) PROVE TypeOK'
    BY <1>29 DEF WatcherKills, Signal, TestInv, TypeOK
  <1>30. ASSUME NEW p \in Procs, WatcherEnds(p) PROVE TypeOK'
    BY <1>30 DEF WatcherEnds, TestInv, TypeOK
  <1>31. ASSUME NEW p \in Procs, StopperEnds(p) PROVE TypeOK'
    BY <1>31 DEF StopperEnds, Signal, TestInv, TypeOK
  <1>32. CASE UNCHANGED vars
    BY <1>32 DEF vars, history, TestInv, TypeOK
  <1> QED  BY <1>1, <1>2, <1>3, <1>4, <1>5, <1>6, <1>7, <1>8, <1>9, <1>10, <1>11, <1>12, <1>13, <1>14, <1>15, <1>16, <1>17, <1>18, <1>19, <1>20, <1>21, <1>22, <1>23, <1>24, <1>25, <1>26, <1>27, <1>28, <1>29, <1>30, <1>31, <1>32
       DEF Next, Worker, Child, StdoutReader, HangWatcher

\* One process, used only while it is there.
LEMMA ProcessStep == TestInv /\ [Next]_vars => ProcessInv'
  <1> SUFFICES ASSUME TestInv, [Next]_vars PROVE ProcessInv'
    OBVIOUS
  <1>1. CASE ReportCrasher
    BY <1>1 DEF ReportCrasher, TestInv, TypeOK, ProcessInv, Using, Alive
  <1>2. CASE BeginTest
    BY <1>2 DEF BeginTest, Goto, TestInv, TypeOK, ProcessInv, Using, Alive
  <1>3. CASE LeaveLoop
    BY <1>3 DEF LeaveLoop, Goto, TestInv, TypeOK, ProcessInv, Using, Alive
  <1>4. CASE Check
    BY <1>4 DEF Check, Goto, TestInv, TypeOK, ProcessInv, Using, Alive
  <1>5. CASE Start
    BY <1>5 DEF Start, Goto, TestInv, TypeOK, ProcessInv, Using, Alive, Procs
  <1>6. CASE Prepare
    BY <1>6 DEF Prepare, Goto, Signal, TestInv, TypeOK, ProcessInv, Using, Alive
  <1>7. CASE Write
    BY <1>7 DEF Write, Goto, TestInv, TypeOK, ProcessInv, Using, Alive
  <1>8. CASE Read
    BY <1>8 DEF Read, Goto, TestInv, TypeOK, ProcessInv, Using, Alive
  <1>9. CASE LoadHanged
    BY <1>9 DEF LoadHanged, Goto, TestInv, TypeOK, ProcessInv, Using, Alive
  <1>10. CASE ClearStart
    BY <1>10 DEF ClearStart, Goto, TestInv, TypeOK, ProcessInv, Using, Alive
  <1>11. CASE Close
    BY <1>11 DEF Close, Goto, TestInv, TypeOK, ProcessInv, Using, Alive
  <1>12. CASE Shutdown
    BY <1>12 DEF Shutdown, Goto, Signal, TestInv, TypeOK, ProcessInv, Using, Alive
  <1>13. CASE Collect
    BY <1>13 DEF Collect, Goto, TestInv, TypeOK, ProcessInv, Using, Alive
  <1>14. CASE Wait
    BY <1>14 DEF Wait, Goto, TestInv, TypeOK, ProcessInv, Using, Alive
  <1>15. CASE Interrupt
    BY <1>15 DEF Interrupt, TestInv, TypeOK, ProcessInv, Using, Alive
  <1>16. CASE CloseShutdownC
    BY <1>16 DEF CloseShutdownC, TestInv, TypeOK, ProcessInv, Using, Alive
  <1>17. CASE Elapse
    BY <1>17 DEF Elapse, TestInv, TypeOK, ProcessInv, Using, Alive
  <1>18. ASSUME NEW p \in Procs, ChildRead(p) PROVE ProcessInv'
    BY <1>18 DEF ChildRead, TestInv, TypeOK, ProcessInv, Using, Alive
  <1>19. ASSUME NEW p \in Procs, ChildPrint(p) PROVE ProcessInv'
    BY <1>19 DEF ChildPrint, TestInv, TypeOK, ProcessInv, Using, Alive
  <1>20. ASSUME NEW p \in Procs, ChildReply(p) PROVE ProcessInv'
    BY <1>20 DEF ChildReply, TestInv, TypeOK, ProcessInv, Using, Alive
  <1>21. ASSUME NEW p \in Procs, ChildCrash(p) PROVE ProcessInv'
    BY <1>21 DEF ChildCrash, Exit, TestInv, TypeOK, ProcessInv, Using, Alive
  <1>22. ASSUME NEW p \in Procs, ChildDies(p) PROVE ProcessInv'
    BY <1>22 DEF ChildDies, Exit, TestInv, TypeOK, ProcessInv, Using, Alive
  <1>23. ASSUME NEW p \in Procs, ReaderWakes(p) PROVE ProcessInv'
    BY <1>23 DEF ReaderWakes, TestInv, TypeOK, ProcessInv, Using, Alive
  <1>24. ASSUME NEW p \in Procs, ReaderReads(p) PROVE ProcessInv'
    BY <1>24 DEF ReaderReads, TestInv, TypeOK, ProcessInv, Using, Alive
  <1>25. ASSUME NEW p \in Procs, ReaderEnds(p) PROVE ProcessInv'
    BY <1>25 DEF ReaderEnds, TestInv, TypeOK, ProcessInv, Using, Alive
  <1>26. ASSUME NEW p \in Procs, WatcherFires(p) PROVE ProcessInv'
    BY <1>26 DEF WatcherFires, TestInv, TypeOK, ProcessInv, Using, Alive
  <1>27. ASSUME NEW p \in Procs, WatcherStores(p) PROVE ProcessInv'
    BY <1>27 DEF WatcherStores, TestInv, TypeOK, ProcessInv, Using, Alive
  <1>28. ASSUME NEW p \in Procs, WatcherAborts(p) PROVE ProcessInv'
    BY <1>28 DEF WatcherAborts, Signal, TestInv, TypeOK, ProcessInv, Using, Alive
  <1>29. ASSUME NEW p \in Procs, WatcherKills(p) PROVE ProcessInv'
    BY <1>29 DEF WatcherKills, Signal, TestInv, TypeOK, ProcessInv, Using, Alive
  <1>30. ASSUME NEW p \in Procs, WatcherEnds(p) PROVE ProcessInv'
    BY <1>30 DEF WatcherEnds, TestInv, TypeOK, ProcessInv, Using, Alive
  <1>31. ASSUME NEW p \in Procs, StopperEnds(p) PROVE ProcessInv'
    BY <1>31 DEF StopperEnds, Signal, TestInv, TypeOK, ProcessInv, Using, Alive
  <1>32. CASE UNCHANGED vars
    BY <1>32 DEF vars, history, TestInv, TypeOK, ProcessInv, Using, Alive
  <1> QED  BY <1>1, <1>2, <1>3, <1>4, <1>5, <1>6, <1>7, <1>8, <1>9, <1>10, <1>11, <1>12, <1>13, <1>14, <1>15, <1>16, <1>17, <1>18, <1>19, <1>20, <1>21, <1>22, <1>23, <1>24, <1>25, <1>26, <1>27, <1>28, <1>29, <1>30, <1>31, <1>32
       DEF Next, Worker, Child, StdoutReader, HangWatcher

\* Requests, runs and replies are about the input at hand.
LEMMA RequestStep == TestInv /\ [Next]_vars => RequestInv'
  <1> SUFFICES ASSUME TestInv, [Next]_vars PROVE RequestInv'
    OBVIOUS
  <1>1. CASE ReportCrasher
    BY <1>1 DEF ReportCrasher, TestInv, RequestInv, TypeOK
  <1>2. CASE BeginTest
    BY <1>2 DEF BeginTest, Goto, TestInv, RequestInv, TypeOK
  <1>3. CASE LeaveLoop
    BY <1>3 DEF LeaveLoop, Goto, TestInv, RequestInv, TypeOK
  <1>4. CASE Check
    BY <1>4 DEF Check, Goto, TestInv, RequestInv, TypeOK
  <1>5. CASE Start
    BY <1>5 DEF Start, Goto, TestInv, RequestInv, TypeOK
  <1>6. CASE Prepare
    BY <1>6 DEF Prepare, Goto, Signal, TestInv, RequestInv, TypeOK
  <1>7. CASE Write
    BY <1>7 DEF Write, Goto, TestInv, TypeOK, ProcessInv, Using, RequestInv, Alive
  <1>8. CASE Read
    <2>1. testee \in Procs /\ wpc' = "judge" /\ verdict' \in {"ok", "crash"}
      BY <1>8 DEF Read, Goto, TestInv, TypeOK, ProcessInv, Using
    <2>2. verdict' = "ok" => coverRegion' = data' /\ data' \notin Bad
      BY <1>8, <2>1 DEF Read, Goto, TestInv, TypeOK, RequestInv
    <2>3. ASSUME NEW p \in Procs
          PROVE  ~request'[p] /\ proc'[p] # "busy" /\ reply'[p] = NoInput
      BY <1>8, <2>1 DEF Read, TestInv, TypeOK, ProcessInv, RequestInv, Alive
    <2> QED  BY <2>1, <2>2, <2>3 DEF RequestInv
  <1>9. CASE LoadHanged
    BY <1>9 DEF LoadHanged, Goto, TestInv, RequestInv, TypeOK
  <1>10. CASE ClearStart
    BY <1>10 DEF ClearStart, Goto, TestInv, RequestInv, TypeOK
  <1>11. CASE Close
    BY <1>11 DEF Close, Goto, TestInv, RequestInv, TypeOK
  <1>12. CASE Shutdown
    BY <1>12 DEF Shutdown, Goto, Signal, TestInv, RequestInv, TypeOK
  <1>13. CASE Collect
    BY <1>13 DEF Collect, Goto, TestInv, RequestInv, TypeOK
  <1>14. CASE Wait
    BY <1>14 DEF Wait, Goto, TestInv, RequestInv, TypeOK
  <1>15. CASE Interrupt
    BY <1>15 DEF Interrupt, TestInv, RequestInv, TypeOK
  <1>16. CASE CloseShutdownC
    BY <1>16 DEF CloseShutdownC, TestInv, RequestInv, TypeOK
  <1>17. CASE Elapse
    BY <1>17 DEF Elapse, TestInv, RequestInv, TypeOK
  <1>18. ASSUME NEW p \in Procs, ChildRead(p) PROVE RequestInv'
    BY <1>18 DEF ChildRead, TestInv, TypeOK, ProcessInv, Using, RequestInv, Alive
  <1>19. ASSUME NEW p \in Procs, ChildPrint(p) PROVE RequestInv'
    BY <1>19 DEF ChildPrint, TestInv, RequestInv, TypeOK
  <1>20. ASSUME NEW p \in Procs, ChildReply(p) PROVE RequestInv'
    BY <1>20 DEF ChildReply, TestInv, TypeOK, ProcessInv, Using, RequestInv, Alive
  <1>21. ASSUME NEW p \in Procs, ChildCrash(p) PROVE RequestInv'
    BY <1>21 DEF ChildCrash, Exit, TestInv, RequestInv, TypeOK
  <1>22. ASSUME NEW p \in Procs, ChildDies(p) PROVE RequestInv'
    BY <1>22 DEF ChildDies, Exit, TestInv, RequestInv, TypeOK
  <1>23. ASSUME NEW p \in Procs, ReaderWakes(p) PROVE RequestInv'
    BY <1>23 DEF ReaderWakes, TestInv, RequestInv, TypeOK
  <1>24. ASSUME NEW p \in Procs, ReaderReads(p) PROVE RequestInv'
    BY <1>24 DEF ReaderReads, TestInv, RequestInv, TypeOK
  <1>25. ASSUME NEW p \in Procs, ReaderEnds(p) PROVE RequestInv'
    BY <1>25 DEF ReaderEnds, TestInv, RequestInv, TypeOK
  <1>26. ASSUME NEW p \in Procs, WatcherFires(p) PROVE RequestInv'
    BY <1>26 DEF WatcherFires, TestInv, RequestInv, TypeOK
  <1>27. ASSUME NEW p \in Procs, WatcherStores(p) PROVE RequestInv'
    BY <1>27 DEF WatcherStores, TestInv, RequestInv, TypeOK
  <1>28. ASSUME NEW p \in Procs, WatcherAborts(p) PROVE RequestInv'
    BY <1>28 DEF WatcherAborts, Signal, TestInv, RequestInv, TypeOK
  <1>29. ASSUME NEW p \in Procs, WatcherKills(p) PROVE RequestInv'
    BY <1>29 DEF WatcherKills, Signal, TestInv, RequestInv, TypeOK
  <1>30. ASSUME NEW p \in Procs, WatcherEnds(p) PROVE RequestInv'
    BY <1>30 DEF WatcherEnds, TestInv, RequestInv, TypeOK
  <1>31. ASSUME NEW p \in Procs, StopperEnds(p) PROVE RequestInv'
    BY <1>31 DEF StopperEnds, Signal, TestInv, RequestInv, TypeOK
  <1>32. CASE UNCHANGED vars
    BY <1>32 DEF vars, history, TestInv, RequestInv, TypeOK
  <1> QED  BY <1>1, <1>2, <1>3, <1>4, <1>5, <1>6, <1>7, <1>8, <1>9, <1>10, <1>11, <1>12, <1>13, <1>14, <1>15, <1>16, <1>17, <1>18, <1>19, <1>20, <1>21, <1>22, <1>23, <1>24, <1>25, <1>26, <1>27, <1>28, <1>29, <1>30, <1>31, <1>32
       DEF Next, Worker, Child, StdoutReader, HangWatcher

\* The verdict at each place of the worker.
LEMMA VerdictStep == TestInv /\ [Next]_vars => VerdictInv'
  <1> SUFFICES ASSUME TestInv, [Next]_vars PROVE VerdictInv'
    OBVIOUS
  <1>1. CASE ReportCrasher
    BY <1>1 DEF ReportCrasher, TestInv, VerdictInv
  <1>2. CASE BeginTest
    BY <1>2, TesteeAssumption DEF BeginTest, Goto, VerdictInv
  <1>3. CASE LeaveLoop
    BY <1>3 DEF LeaveLoop, Goto, VerdictInv
  <1>4. CASE Check
    BY <1>4 DEF Check, Goto, TestInv, VerdictInv
  <1>5. CASE Start
    BY <1>5 DEF Start, Goto, TestInv, VerdictInv
  <1>6. CASE Prepare
    BY <1>6 DEF Prepare, Goto, Signal, TestInv, VerdictInv
  <1>7. CASE Write
    BY <1>7 DEF Write, Goto, TestInv, VerdictInv
  <1>8. CASE Read
    BY <1>8 DEF Read, Goto, TestInv, VerdictInv
  <1>9. CASE LoadHanged
    BY <1>9 DEF LoadHanged, Goto, TestInv, VerdictInv
  <1>10. CASE ClearStart
    BY <1>10 DEF ClearStart, Goto, TestInv, VerdictInv
  <1>11. CASE Close
    BY <1>11 DEF Close, Goto, VerdictInv
  <1>12. CASE Shutdown
    BY <1>12 DEF Shutdown, Goto, Signal, TestInv, VerdictInv
  <1>13. CASE Collect
    BY <1>13 DEF Collect, Goto, TestInv, VerdictInv
  <1>14. CASE Wait
    BY <1>14 DEF Wait, Goto, TestInv, VerdictInv
  <1>15. CASE Interrupt
    BY <1>15 DEF Interrupt, TestInv, VerdictInv
  <1>16. CASE CloseShutdownC
    BY <1>16 DEF CloseShutdownC, TestInv, VerdictInv
  <1>17. CASE Elapse
    BY <1>17 DEF Elapse, TestInv, VerdictInv
  <1>18. ASSUME NEW p \in Procs, ChildRead(p) PROVE VerdictInv'
    BY <1>18 DEF ChildRead, TestInv, VerdictInv
  <1>19. ASSUME NEW p \in Procs, ChildPrint(p) PROVE VerdictInv'
    BY <1>19 DEF ChildPrint, TestInv, VerdictInv
  <1>20. ASSUME NEW p \in Procs, ChildReply(p) PROVE VerdictInv'
    BY <1>20 DEF ChildReply, TestInv, VerdictInv
  <1>21. ASSUME NEW p \in Procs, ChildCrash(p) PROVE VerdictInv'
    BY <1>21 DEF ChildCrash, Exit, TestInv, VerdictInv
  <1>22. ASSUME NEW p \in Procs, ChildDies(p) PROVE VerdictInv'
    BY <1>22 DEF ChildDies, Exit, TestInv, VerdictInv
  <1>23. ASSUME NEW p \in Procs, ReaderWakes(p) PROVE VerdictInv'
    BY <1>23 DEF ReaderWakes, TestInv, VerdictInv
  <1>24. ASSUME NEW p \in Procs, ReaderReads(p) PROVE VerdictInv'
    BY <1>24 DEF ReaderReads, TestInv, VerdictInv
  <1>25. ASSUME NEW p \in Procs, ReaderEnds(p) PROVE VerdictInv'
    BY <1>25 DEF ReaderEnds, TestInv, VerdictInv
  <1>26. ASSUME NEW p \in Procs, WatcherFires(p) PROVE VerdictInv'
    BY <1>26 DEF WatcherFires, TestInv, VerdictInv
  <1>27. ASSUME NEW p \in Procs, WatcherStores(p) PROVE VerdictInv'
    BY <1>27 DEF WatcherStores, TestInv, VerdictInv
  <1>28. ASSUME NEW p \in Procs, WatcherAborts(p) PROVE VerdictInv'
    BY <1>28 DEF WatcherAborts, Signal, TestInv, VerdictInv
  <1>29. ASSUME NEW p \in Procs, WatcherKills(p) PROVE VerdictInv'
    BY <1>29 DEF WatcherKills, Signal, TestInv, VerdictInv
  <1>30. ASSUME NEW p \in Procs, WatcherEnds(p) PROVE VerdictInv'
    BY <1>30 DEF WatcherEnds, TestInv, VerdictInv
  <1>31. ASSUME NEW p \in Procs, StopperEnds(p) PROVE VerdictInv'
    BY <1>31 DEF StopperEnds, Signal, TestInv, VerdictInv
  <1>32. CASE UNCHANGED vars
    BY <1>32 DEF vars, history, TestInv, VerdictInv
  <1> QED  BY <1>1, <1>2, <1>3, <1>4, <1>5, <1>6, <1>7, <1>8, <1>9, <1>10, <1>11, <1>12, <1>13, <1>14, <1>15, <1>16, <1>17, <1>18, <1>19, <1>20, <1>21, <1>22, <1>23, <1>24, <1>25, <1>26, <1>27, <1>28, <1>29, <1>30, <1>31, <1>32
       DEF Next, Worker, Child, StdoutReader, HangWatcher

\* The output buffer.
LEMMA FillStep == TestInv /\ [Next]_vars => FillInv'
  <1> SUFFICES ASSUME TestInv, [Next]_vars PROVE FillInv'
    OBVIOUS
  <1>1. CASE ReportCrasher
    BY <1>1 DEF ReportCrasher, TestInv, TypeOK, FillInv
  <1>2. CASE BeginTest
    BY <1>2 DEF BeginTest, Goto, TestInv, TypeOK, FillInv
  <1>3. CASE LeaveLoop
    BY <1>3 DEF LeaveLoop, Goto, TestInv, TypeOK, FillInv
  <1>4. CASE Check
    BY <1>4 DEF Check, Goto, TestInv, TypeOK, FillInv
  <1>5. CASE Start
    BY <1>5, TesteeAssumption DEF Start, TestInv, TypeOK, FillInv, TesteeAssumption
  <1>6. CASE Prepare
    BY <1>6 DEF Prepare, Goto, Signal, TestInv, TypeOK, FillInv
  <1>7. CASE Write
    BY <1>7 DEF Write, Goto, TestInv, TypeOK, FillInv
  <1>8. CASE Read
    BY <1>8 DEF Read, Goto, TestInv, TypeOK, FillInv
  <1>9. CASE LoadHanged
    BY <1>9 DEF LoadHanged, Goto, TestInv, TypeOK, FillInv
  <1>10. CASE ClearStart
    BY <1>10 DEF ClearStart, Goto, TestInv, TypeOK, FillInv
  <1>11. CASE Close
    BY <1>11 DEF Close, Goto, TestInv, TypeOK, FillInv
  <1>12. CASE Shutdown
    BY <1>12 DEF Shutdown, Goto, Signal, TestInv, TypeOK, FillInv
  <1>13. CASE Collect
    BY <1>13 DEF Collect, Goto, TestInv, TypeOK, FillInv
  <1>14. CASE Wait
    BY <1>14 DEF Wait, Goto, TestInv, TypeOK, FillInv
  <1>15. CASE Interrupt
    BY <1>15 DEF Interrupt, TestInv, TypeOK, FillInv
  <1>16. CASE CloseShutdownC
    BY <1>16 DEF CloseShutdownC, TestInv, TypeOK, FillInv
  <1>17. CASE Elapse
    BY <1>17 DEF Elapse, TestInv, TypeOK, FillInv
  <1>18. ASSUME NEW p \in Procs, ChildRead(p) PROVE FillInv'
    BY <1>18 DEF ChildRead, TestInv, TypeOK, FillInv
  <1>19. ASSUME NEW p \in Procs, ChildPrint(p) PROVE FillInv'
    BY <1>19 DEF ChildPrint, TestInv, TypeOK, FillInv
  <1>20. ASSUME NEW p \in Procs, ChildReply(p) PROVE FillInv'
    BY <1>20 DEF ChildReply, TestInv, TypeOK, FillInv
  <1>21. ASSUME NEW p \in Procs, ChildCrash(p) PROVE FillInv'
    BY <1>21 DEF ChildCrash, Exit, TestInv, TypeOK, FillInv
  <1>22. ASSUME NEW p \in Procs, ChildDies(p) PROVE FillInv'
    BY <1>22 DEF ChildDies, Exit, TestInv, TypeOK, FillInv
  <1>23. ASSUME NEW p \in Procs, ReaderWakes(p) PROVE FillInv'
    BY <1>23 DEF ReaderWakes, TestInv, TypeOK, FillInv
  <1>24. ASSUME NEW p \in Procs, ReaderReads(p) PROVE FillInv'
    BY <1>24, ReadsFill
  <1>25. ASSUME NEW p \in Procs, ReaderEnds(p) PROVE FillInv'
    BY <1>25 DEF ReaderEnds, TestInv, TypeOK, FillInv
  <1>26. ASSUME NEW p \in Procs, WatcherFires(p) PROVE FillInv'
    BY <1>26 DEF WatcherFires, TestInv, TypeOK, FillInv
  <1>27. ASSUME NEW p \in Procs, WatcherStores(p) PROVE FillInv'
    BY <1>27 DEF WatcherStores, TestInv, TypeOK, FillInv
  <1>28. ASSUME NEW p \in Procs, WatcherAborts(p) PROVE FillInv'
    BY <1>28 DEF WatcherAborts, Signal, TestInv, TypeOK, FillInv
  <1>29. ASSUME NEW p \in Procs, WatcherKills(p) PROVE FillInv'
    BY <1>29 DEF WatcherKills, Signal, TestInv, TypeOK, FillInv
  <1>30. ASSUME NEW p \in Procs, WatcherEnds(p) PROVE FillInv'
    BY <1>30 DEF WatcherEnds, TestInv, TypeOK, FillInv
  <1>31. ASSUME NEW p \in Procs, StopperEnds(p) PROVE FillInv'
    BY <1>31 DEF StopperEnds, Signal, TestInv, TypeOK, FillInv
  <1>32. CASE UNCHANGED vars
    BY <1>32 DEF vars, history, TestInv, TypeOK, FillInv
  <1> QED  BY <1>1, <1>2, <1>3, <1>4, <1>5, <1>6, <1>7, <1>8, <1>9, <1>10, <1>11, <1>12, <1>13, <1>14, <1>15, <1>16, <1>17, <1>18, <1>19, <1>20, <1>21, <1>22, <1>23, <1>24, <1>25, <1>26, <1>27, <1>28, <1>29, <1>30, <1>31, <1>32
       DEF Next, Worker, Child, StdoutReader, HangWatcher

\* Types of the history.
LEMMA HistoryStep == TestInv /\ HistoryInv /\ [Next]_vars => HistoryInv'
  <1> SUFFICES ASSUME TestInv /\ HistoryInv, [Next]_vars PROVE HistoryInv'
    OBVIOUS
  <1>1. CASE ReportCrasher
    <2>1. crasherQueue \in Seq(Crashes) /\ crasherQueue # <<>>
      BY <1>1 DEF ReportCrasher, HistoryInv
    <2> HIDE DEF Crashes
    <2>2. crasherQueue' \in Seq(Crashes)
      <3>1. Len(crasherQueue) - 1 \in 0 .. Len(crasherQueue)
        BY <2>1
      <3> QED  BY <1>1, <2>1, <3>1 DEF ReportCrasher
    <2> QED  BY <1>1, <2>2 DEF ReportCrasher, HistoryInv
  <1>2. CASE BeginTest
    BY <1>2 DEF BeginTest, Goto, HistoryInv
  <1>3. CASE LeaveLoop
    BY <1>3 DEF LeaveLoop, Goto, HistoryInv
  <1>4. CASE Check
    BY <1>4 DEF Check, Goto, HistoryInv
  <1>5. CASE Start
    BY <1>5 DEF Start, Goto, HistoryInv, Causes
  <1>6. CASE Prepare
    BY <1>6 DEF Prepare, Goto, Signal, HistoryInv, Causes
  <1>7. CASE Write
    BY <1>7 DEF Write, Goto, HistoryInv
  <1>8. CASE Read
    BY <1>8 DEF Read, Goto, HistoryInv
  <1>9. CASE LoadHanged
    BY <1>9 DEF LoadHanged, Goto, HistoryInv
  <1>10. CASE ClearStart
    BY <1>10 DEF ClearStart, Goto, HistoryInv
  <1>11. CASE Close
    BY <1>11 DEF Close, Goto, HistoryInv
  <1>12. CASE Shutdown
    BY <1>12 DEF Shutdown, Goto, Signal, HistoryInv, Causes
  <1>13. CASE Collect
    BY <1>13 DEF Collect, Goto, HistoryInv
  <1>14. CASE Wait
    <2>1. Crash \in Crashes
      BY <1>14 DEF Wait, Crash, Crashes, TestInv, TypeOK, ProcessInv, Using, HistoryInv
    <2>2. crasherQueue' \in {crasherQueue, Append(crasherQueue, Crash)}
      BY <1>14 DEF Wait
    <2> HIDE DEF Crashes, Crash
    <2>3. crasherQueue' \in Seq(Crashes)
      BY <2>1, <2>2 DEF HistoryInv
    <2> QED  BY <1>14, <2>3 DEF Wait, HistoryInv
  <1>15. CASE Interrupt
    BY <1>15 DEF Interrupt, HistoryInv
  <1>16. CASE CloseShutdownC
    BY <1>16 DEF CloseShutdownC, HistoryInv
  <1>17. CASE Elapse
    <2>1. startTime[testee] \in Nat \ {0}
      BY <1>17 DEF Elapse, TestInv, TypeOK
    <2> QED  BY <1>17, <2>1 DEF Elapse, HistoryInv
  <1>18. ASSUME NEW p \in Procs, ChildRead(p) PROVE HistoryInv'
    BY <1>18 DEF ChildRead, HistoryInv
  <1>19. ASSUME NEW p \in Procs, ChildPrint(p) PROVE HistoryInv'
    BY <1>19 DEF ChildPrint, HistoryInv
  <1>20. ASSUME NEW p \in Procs, ChildReply(p) PROVE HistoryInv'
    BY <1>20 DEF ChildReply, HistoryInv
  <1>21. ASSUME NEW p \in Procs, ChildCrash(p) PROVE HistoryInv'
    BY <1>21 DEF ChildCrash, Exit, HistoryInv, Causes
  <1>22. ASSUME NEW p \in Procs, ChildDies(p) PROVE HistoryInv'
    BY <1>22 DEF ChildDies, Exit, HistoryInv
  <1>23. ASSUME NEW p \in Procs, ReaderWakes(p) PROVE HistoryInv'
    BY <1>23 DEF ReaderWakes, HistoryInv
  <1>24. ASSUME NEW p \in Procs, ReaderReads(p) PROVE HistoryInv'
    BY <1>24 DEF ReaderReads, HistoryInv
  <1>25. ASSUME NEW p \in Procs, ReaderEnds(p) PROVE HistoryInv'
    BY <1>25 DEF ReaderEnds, HistoryInv
  <1>26. ASSUME NEW p \in Procs, WatcherFires(p) PROVE HistoryInv'
    BY <1>26 DEF WatcherFires, HistoryInv
  <1>27. ASSUME NEW p \in Procs, WatcherStores(p) PROVE HistoryInv'
    BY <1>27 DEF WatcherStores, HistoryInv
  <1>28. ASSUME NEW p \in Procs, WatcherAborts(p) PROVE HistoryInv'
    BY <1>28 DEF WatcherAborts, Signal, HistoryInv, Causes
  <1>29. ASSUME NEW p \in Procs, WatcherKills(p) PROVE HistoryInv'
    BY <1>29 DEF WatcherKills, Signal, HistoryInv, Causes
  <1>30. ASSUME NEW p \in Procs, WatcherEnds(p) PROVE HistoryInv'
    BY <1>30 DEF WatcherEnds, HistoryInv
  <1>31. ASSUME NEW p \in Procs, StopperEnds(p) PROVE HistoryInv'
    BY <1>31 DEF StopperEnds, Signal, HistoryInv, Causes
  <1>32. CASE UNCHANGED vars
    BY <1>32 DEF vars, history, HistoryInv
  <1> QED  BY <1>1, <1>2, <1>3, <1>4, <1>5, <1>6, <1>7, <1>8, <1>9, <1>10, <1>11, <1>12, <1>13, <1>14, <1>15, <1>16, <1>17, <1>18, <1>19, <1>20, <1>21, <1>22, <1>23, <1>24, <1>25, <1>26, <1>27, <1>28, <1>29, <1>30, <1>31, <1>32
       DEF Next, Worker, Child, StdoutReader, HangWatcher

\* Executions, tests and restarts.
LEMMA CountStep == TestInv /\ HistoryInv /\ CountInv /\ ExecsWithinRestarts /\ [Next]_vars => (CountInv /\ ExecsWithinRestarts)'
  <1> SUFFICES ASSUME TestInv /\ HistoryInv /\ CountInv /\ ExecsWithinRestarts, [Next]_vars PROVE (CountInv /\ ExecsWithinRestarts)'
    OBVIOUS
  <1>1. CASE ReportCrasher
    BY <1>1 DEF ReportCrasher, CountInv, ExecsWithinRestarts
  <1>2. CASE BeginTest
    BY <1>2 DEF BeginTest, Goto, CountInv, ExecsWithinRestarts, TestInv, TypeOK, HistoryInv
  <1>3. CASE LeaveLoop
    BY <1>3 DEF LeaveLoop, Goto, CountInv, ExecsWithinRestarts
  <1>4. CASE Check
    BY <1>4 DEF Check, Goto, CountInv, ExecsWithinRestarts, TestInv, TypeOK, HistoryInv
  <1>5. CASE Start
    BY <1>5 DEF Start, Goto, CountInv, ExecsWithinRestarts
  <1>6. CASE Prepare
    BY <1>6 DEF Prepare, Goto, Signal, CountInv, ExecsWithinRestarts
  <1>7. CASE Write
    BY <1>7 DEF Write, Goto, CountInv, ExecsWithinRestarts
  <1>8. CASE Read
    BY <1>8 DEF Read, Goto, CountInv, ExecsWithinRestarts
  <1>9. CASE LoadHanged
    BY <1>9 DEF LoadHanged, Goto, CountInv, ExecsWithinRestarts
  <1>10. CASE ClearStart
    BY <1>10 DEF ClearStart, Goto, CountInv, ExecsWithinRestarts
  <1>11. CASE Close
    BY <1>11 DEF Close, Goto, CountInv, ExecsWithinRestarts
  <1>12. CASE Shutdown
    BY <1>12 DEF Shutdown, Goto, Signal, CountInv, ExecsWithinRestarts
  <1>13. CASE Collect
    BY <1>13 DEF Collect, Goto, CountInv, ExecsWithinRestarts
  <1>14. CASE Wait
    BY <1>14 DEF Wait, Goto, CountInv, ExecsWithinRestarts
  <1>15. CASE Interrupt
    BY <1>15 DEF Interrupt, CountInv, ExecsWithinRestarts
  <1>16. CASE CloseShutdownC
    BY <1>16 DEF CloseShutdownC, CountInv, ExecsWithinRestarts
  <1>17. CASE Elapse
    BY <1>17 DEF Elapse, CountInv, ExecsWithinRestarts
  <1>18. ASSUME NEW p \in Procs, ChildRead(p) PROVE (CountInv /\ ExecsWithinRestarts)'
    BY <1>18 DEF ChildRead, CountInv, ExecsWithinRestarts
  <1>19. ASSUME NEW p \in Procs, ChildPrint(p) PROVE (CountInv /\ ExecsWithinRestarts)'
    BY <1>19 DEF ChildPrint, CountInv, ExecsWithinRestarts
  <1>20. ASSUME NEW p \in Procs, ChildReply(p) PROVE (CountInv /\ ExecsWithinRestarts)'
    BY <1>20 DEF ChildReply, CountInv, ExecsWithinRestarts
  <1>21. ASSUME NEW p \in Procs, ChildCrash(p) PROVE (CountInv /\ ExecsWithinRestarts)'
    BY <1>21 DEF ChildCrash, Exit, CountInv, ExecsWithinRestarts
  <1>22. ASSUME NEW p \in Procs, ChildDies(p) PROVE (CountInv /\ ExecsWithinRestarts)'
    BY <1>22 DEF ChildDies, Exit, CountInv, ExecsWithinRestarts
  <1>23. ASSUME NEW p \in Procs, ReaderWakes(p) PROVE (CountInv /\ ExecsWithinRestarts)'
    BY <1>23 DEF ReaderWakes, CountInv, ExecsWithinRestarts
  <1>24. ASSUME NEW p \in Procs, ReaderReads(p) PROVE (CountInv /\ ExecsWithinRestarts)'
    BY <1>24 DEF ReaderReads, CountInv, ExecsWithinRestarts
  <1>25. ASSUME NEW p \in Procs, ReaderEnds(p) PROVE (CountInv /\ ExecsWithinRestarts)'
    BY <1>25 DEF ReaderEnds, CountInv, ExecsWithinRestarts
  <1>26. ASSUME NEW p \in Procs, WatcherFires(p) PROVE (CountInv /\ ExecsWithinRestarts)'
    BY <1>26 DEF WatcherFires, CountInv, ExecsWithinRestarts
  <1>27. ASSUME NEW p \in Procs, WatcherStores(p) PROVE (CountInv /\ ExecsWithinRestarts)'
    BY <1>27 DEF WatcherStores, CountInv, ExecsWithinRestarts
  <1>28. ASSUME NEW p \in Procs, WatcherAborts(p) PROVE (CountInv /\ ExecsWithinRestarts)'
    BY <1>28 DEF WatcherAborts, Signal, CountInv, ExecsWithinRestarts
  <1>29. ASSUME NEW p \in Procs, WatcherKills(p) PROVE (CountInv /\ ExecsWithinRestarts)'
    BY <1>29 DEF WatcherKills, Signal, CountInv, ExecsWithinRestarts
  <1>30. ASSUME NEW p \in Procs, WatcherEnds(p) PROVE (CountInv /\ ExecsWithinRestarts)'
    BY <1>30 DEF WatcherEnds, CountInv, ExecsWithinRestarts
  <1>31. ASSUME NEW p \in Procs, StopperEnds(p) PROVE (CountInv /\ ExecsWithinRestarts)'
    BY <1>31 DEF StopperEnds, Signal, CountInv, ExecsWithinRestarts
  <1>32. CASE UNCHANGED vars
    BY <1>32 DEF vars, history, CountInv, ExecsWithinRestarts
  <1> QED  BY <1>1, <1>2, <1>3, <1>4, <1>5, <1>6, <1>7, <1>8, <1>9, <1>10, <1>11, <1>12, <1>13, <1>14, <1>15, <1>16, <1>17, <1>18, <1>19, <1>20, <1>21, <1>22, <1>23, <1>24, <1>25, <1>26, <1>27, <1>28, <1>29, <1>30, <1>31, <1>32
       DEF Next, Worker, Child, StdoutReader, HangWatcher

\* A queue without its last element.
LEMMA LastDropped ==
  ASSUME NEW S, NEW s \in Seq(S), s # <<>>, NEW i \in DOMAIN SubSeq(s, 1, Len(s) - 1)
  PROVE  i \in DOMAIN s /\ SubSeq(s, 1, Len(s) - 1)[i] = s[i]
  <1>1. Len(s) \in Nat \ {0} /\ DOMAIN s = 1 .. Len(s)
    OBVIOUS
  <1>2. Len(SubSeq(s, 1, Len(s) - 1)) = Len(s) - 1
    BY <1>1
  <1> QED  BY <1>1, <1>2

\* The last element of a queue with one more.
LEMMA Appended ==
  ASSUME NEW S, NEW s \in Seq(S), NEW x, NEW i \in DOMAIN Append(s, x)
  PROVE  (i \in DOMAIN s /\ Append(s, x)[i] = s[i]) \/ Append(s, x)[i] = x
  <1>1. Len(s) \in Nat /\ DOMAIN s = 1 .. Len(s) /\ DOMAIN Append(s, x) = 1 .. Len(s) + 1
    OBVIOUS
  <1> QED  BY <1>1

\* Replacement and interrupt.
LEMMA KillStep == TestInv /\ HistoryInv /\ KillInv /\ [Next]_vars => KillInv'
  <1> SUFFICES ASSUME TestInv /\ HistoryInv /\ KillInv, [Next]_vars PROVE KillInv'
    OBVIOUS
  <1>1. CASE ReportCrasher
    <2>1. ASSUME NEW i \in DOMAIN crasherQueue'
          PROVE  i \in DOMAIN crasherQueue /\ crasherQueue'[i] = crasherQueue[i]
      BY <1>1, LastDropped DEF ReportCrasher, HistoryInv
    <2> QED  BY <1>1, <2>1 DEF ReportCrasher, KillInv
  <1>2. CASE BeginTest
    BY <1>2 DEF BeginTest, Goto, KillInv
  <1>3. CASE LeaveLoop
    BY <1>3 DEF LeaveLoop, Goto, KillInv
  <1>4. CASE Check
    BY <1>4 DEF Check, Goto, KillInv
  <1>5. CASE Start
    BY <1>5 DEF Start, Goto, KillInv, HistoryInv
  <1>6. CASE Prepare
    BY <1>6 DEF Prepare, Goto, Signal, KillInv, HistoryInv
  <1>7. CASE Write
    BY <1>7 DEF Write, Goto, KillInv
  <1>8. CASE Read
    BY <1>8 DEF Read, Goto, KillInv
  <1>9. CASE LoadHanged
    BY <1>9 DEF LoadHanged, Goto, KillInv
  <1>10. CASE ClearStart
    BY <1>10 DEF ClearStart, Goto, KillInv
  <1>11. CASE Close
    BY <1>11 DEF Close, Goto, KillInv
  <1>12. CASE Shutdown
    BY <1>12 DEF Shutdown, Goto, Signal, KillInv, HistoryInv
  <1>13. CASE Collect
    BY <1>13 DEF Collect, Goto, KillInv
  <1>14. CASE Wait
    <2>1. ASSUME NEW i \in DOMAIN crasherQueue'
          PROVE  \/ i \in DOMAIN crasherQueue /\ crasherQueue'[i] = crasherQueue[i]
                 \/ verdict \notin {"retry", "close"} /\ crasherQueue'[i] = Crash
      BY <1>14, Appended DEF Wait, HistoryInv
    <2>2. verdict \notin {"retry", "close"} => cause[testee] # "recycle"
      BY <1>14 DEF Wait, TestInv, TypeOK, ProcessInv, Using, KillInv, Procs
    <2>3. cause[testee] = "interrupt" => shutdown
      BY <1>14 DEF Wait, TestInv, TypeOK, ProcessInv, Using, KillInv, Procs
    <2> QED  BY <1>14, <2>1, <2>2, <2>3 DEF Wait, Crash, KillInv, Procs
  <1>15. CASE Interrupt
    BY <1>15 DEF Interrupt, KillInv
  <1>16. CASE CloseShutdownC
    BY <1>16 DEF CloseShutdownC, KillInv
  <1>17. CASE Elapse
    BY <1>17 DEF Elapse, KillInv
  <1>18. ASSUME NEW p \in Procs, ChildRead(p) PROVE KillInv'
    BY <1>18 DEF ChildRead, KillInv
  <1>19. ASSUME NEW p \in Procs, ChildPrint(p) PROVE KillInv'
    BY <1>19 DEF ChildPrint, KillInv
  <1>20. ASSUME NEW p \in Procs, ChildReply(p) PROVE KillInv'
    BY <1>20 DEF ChildReply, KillInv
  <1>21. ASSUME NEW p \in Procs, ChildCrash(p) PROVE KillInv'
    BY <1>21 DEF ChildCrash, Exit, KillInv
  <1>22. ASSUME NEW p \in Procs, ChildDies(p) PROVE KillInv'
    BY <1>22 DEF ChildDies, Exit, KillInv
  <1>23. ASSUME NEW p \in Procs, ReaderWakes(p) PROVE KillInv'
    BY <1>23 DEF ReaderWakes, KillInv
  <1>24. ASSUME NEW p \in Procs, ReaderReads(p) PROVE KillInv'
    BY <1>24 DEF ReaderReads, KillInv
  <1>25. ASSUME NEW p \in Procs, ReaderEnds(p) PROVE KillInv'
    BY <1>25 DEF ReaderEnds, KillInv
  <1>26. ASSUME NEW p \in Procs, WatcherFires(p) PROVE KillInv'
    BY <1>26 DEF WatcherFires, KillInv
  <1>27. ASSUME NEW p \in Procs, WatcherStores(p) PROVE KillInv'
    BY <1>27 DEF WatcherStores, KillInv
  <1>28. ASSUME NEW p \in Procs, WatcherAborts(p) PROVE KillInv'
    BY <1>28 DEF WatcherAborts, Signal, KillInv, HistoryInv
  <1>29. ASSUME NEW p \in Procs, WatcherKills(p) PROVE KillInv'
    BY <1>29 DEF WatcherKills, Signal, KillInv, HistoryInv
  <1>30. ASSUME NEW p \in Procs, WatcherEnds(p) PROVE KillInv'
    BY <1>30 DEF WatcherEnds, KillInv
  <1>31. ASSUME NEW p \in Procs, StopperEnds(p) PROVE KillInv'
    BY <1>31 DEF StopperEnds, Signal, KillInv, HistoryInv
  <1>32. CASE UNCHANGED vars
    BY <1>32 DEF vars, history, KillInv
  <1> QED  BY <1>1, <1>2, <1>3, <1>4, <1>5, <1>6, <1>7, <1>8, <1>9, <1>10, <1>11, <1>12, <1>13, <1>14, <1>15, <1>16, <1>17, <1>18, <1>19, <1>20, <1>21, <1>22, <1>23, <1>24, <1>25, <1>26, <1>27, <1>28, <1>29, <1>30, <1>31, <1>32
       DEF Next, Worker, Child, StdoutReader, HangWatcher

\* Every end of a process has its cause.
LEMMA CauseStep == TestInv /\ HistoryInv /\ CauseInv /\ [Next]_vars => CauseInv'
  <1> SUFFICES ASSUME TestInv /\ HistoryInv /\ CauseInv, [Next]_vars PROVE CauseInv'
    OBVIOUS
  <1>1. CASE ReportCrasher
    BY <1>1 DEF ReportCrasher, CauseInv, Alive
  <1>2. CASE BeginTest
    BY <1>2 DEF BeginTest, Goto, CauseInv, Alive
  <1>3. CASE LeaveLoop
    BY <1>3 DEF LeaveLoop, Goto, CauseInv, Alive
  <1>4. CASE Check
    BY <1>4 DEF Check, Goto, CauseInv, Alive
  <1>5. CASE Start
    BY <1>5 DEF Start, Goto, HistoryInv, CauseInv, TestInv, TypeOK, ProcessInv, Using, RequestInv, VerdictInv, Alive, Procs
  <1>6. CASE Prepare
    BY <1>6 DEF Prepare, Goto, Signal, CauseInv, Alive, HistoryInv, TestInv, TypeOK
  <1>7. CASE Write
    BY <1>7 DEF Write, Goto, CauseInv, Alive
  <1>8. CASE Read
    BY <1>8 DEF Read, Goto, CauseInv, Alive
  <1>9. CASE LoadHanged
    BY <1>9 DEF LoadHanged, Goto, CauseInv, Alive
  <1>10. CASE ClearStart
    BY <1>10 DEF ClearStart, Goto, CauseInv, Alive
  <1>11. CASE Close
    BY <1>11 DEF Close, Goto, CauseInv, Alive
  <1>12. CASE Shutdown
    BY <1>12 DEF Shutdown, Goto, Signal, CauseInv, Alive, HistoryInv, TestInv, TypeOK
  <1>13. CASE Collect
    BY <1>13 DEF Collect, Goto, CauseInv, Alive
  <1>14. CASE Wait
    BY <1>14 DEF Wait, Goto, CauseInv, Alive
  <1>15. CASE Interrupt
    BY <1>15 DEF Interrupt, CauseInv, Alive
  <1>16. CASE CloseShutdownC
    BY <1>16 DEF CloseShutdownC, CauseInv, Alive
  <1>17. CASE Elapse
    BY <1>17 DEF Elapse, CauseInv, Alive
  <1>18. ASSUME NEW p \in Procs, ChildRead(p) PROVE CauseInv'
    BY <1>18 DEF ChildRead, CauseInv, Alive
  <1>19. ASSUME NEW p \in Procs, ChildPrint(p) PROVE CauseInv'
    BY <1>19 DEF ChildPrint, CauseInv, Alive
  <1>20. ASSUME NEW p \in Procs, ChildReply(p) PROVE CauseInv'
    BY <1>20 DEF ChildReply, CauseInv, Alive
  <1>21. ASSUME NEW p \in Procs, ChildCrash(p) PROVE CauseInv'
    BY <1>21 DEF ChildCrash, Exit, HistoryInv, CauseInv, TestInv, TypeOK, ProcessInv, Using, RequestInv, VerdictInv, Alive, Procs
  <1>22. ASSUME NEW p \in Procs, ChildDies(p) PROVE CauseInv'
    BY <1>22 DEF ChildDies, Exit, CauseInv, Alive, HistoryInv, TestInv, TypeOK
  <1>23. ASSUME NEW p \in Procs, ReaderWakes(p) PROVE CauseInv'
    BY <1>23 DEF ReaderWakes, CauseInv, Alive
  <1>24. ASSUME NEW p \in Procs, ReaderReads(p) PROVE CauseInv'
    BY <1>24 DEF ReaderReads, CauseInv, Alive
  <1>25. ASSUME NEW p \in Procs, ReaderEnds(p) PROVE CauseInv'
    BY <1>25 DEF ReaderEnds, CauseInv, Alive
  <1>26. ASSUME NEW p \in Procs, WatcherFires(p) PROVE CauseInv'
    BY <1>26 DEF WatcherFires, CauseInv, Alive
  <1>27. ASSUME NEW p \in Procs, WatcherStores(p) PROVE CauseInv'
    BY <1>27 DEF WatcherStores, CauseInv, Alive
  <1>28. ASSUME NEW p \in Procs, WatcherAborts(p) PROVE CauseInv'
    BY <1>28 DEF WatcherAborts, Signal, CauseInv, Alive, HistoryInv, TestInv, TypeOK
  <1>29. ASSUME NEW p \in Procs, WatcherKills(p) PROVE CauseInv'
    BY <1>29 DEF WatcherKills, Signal, CauseInv, Alive, HistoryInv, TestInv, TypeOK
  <1>30. ASSUME NEW p \in Procs, WatcherEnds(p) PROVE CauseInv'
    BY <1>30 DEF WatcherEnds, CauseInv, Alive
  <1>31. ASSUME NEW p \in Procs, StopperEnds(p) PROVE CauseInv'
    BY <1>31 DEF StopperEnds, Signal, CauseInv, Alive, HistoryInv, TestInv, TypeOK
  <1>32. CASE UNCHANGED vars
    BY <1>32 DEF vars, history, CauseInv, Alive
  <1> QED  BY <1>1, <1>2, <1>3, <1>4, <1>5, <1>6, <1>7, <1>8, <1>9, <1>10, <1>11, <1>12, <1>13, <1>14, <1>15, <1>16, <1>17, <1>18, <1>19, <1>20, <1>21, <1>22, <1>23, <1>24, <1>25, <1>26, <1>27, <1>28, <1>29, <1>30, <1>31, <1>32
       DEF Next, Worker, Child, StdoutReader, HangWatcher

\* startTime.
LEMMA TimeStep == TestInv /\ TimeInv /\ [Next]_vars => TimeInv'
  <1> SUFFICES ASSUME TestInv /\ TimeInv, [Next]_vars PROVE TimeInv'
    OBVIOUS
  <1>1. CASE ReportCrasher
    BY <1>1 DEF ReportCrasher, TimeInv
  <1>2. CASE BeginTest
    BY <1>2 DEF BeginTest, Goto, TimeInv, Timed
  <1>3. CASE LeaveLoop
    BY <1>3 DEF LeaveLoop, Goto, TimeInv, Timed
  <1>4. CASE Check
    BY <1>4 DEF Check, Goto, TimeInv, Timed
  <1>5. CASE Start
    BY <1>5 DEF Start, Goto, TimeInv, Timed, TestInv, TypeOK
  <1>6. CASE Prepare
    BY <1>6 DEF Prepare, Goto, Signal, TimeInv, Timed, TestInv, TypeOK
  <1>7. CASE Write
    BY <1>7 DEF Write, Goto, TimeInv, Timed
  <1>8. CASE Read
    BY <1>8 DEF Read, Goto, TimeInv, Timed
  <1>9. CASE LoadHanged
    BY <1>9 DEF LoadHanged, Goto, TimeInv, Timed
  <1>10. CASE ClearStart
    BY <1>10 DEF ClearStart, Goto, TimeInv, Timed, TestInv, TypeOK
  <1>11. CASE Close
    BY <1>11 DEF Close, Goto, TimeInv, Timed
  <1>12. CASE Shutdown
    BY <1>12 DEF Shutdown, Goto, Signal, TimeInv, Timed
  <1>13. CASE Collect
    BY <1>13 DEF Collect, Goto, TimeInv, Timed
  <1>14. CASE Wait
    BY <1>14 DEF Wait, Goto, TimeInv
  <1>15. CASE Interrupt
    BY <1>15 DEF Interrupt, TimeInv
  <1>16. CASE CloseShutdownC
    BY <1>16 DEF CloseShutdownC, TimeInv
  <1>17. CASE Elapse
    BY <1>17 DEF Elapse, TimeInv
  <1>18. ASSUME NEW p \in Procs, ChildRead(p) PROVE TimeInv'
    BY <1>18 DEF ChildRead, TimeInv
  <1>19. ASSUME NEW p \in Procs, ChildPrint(p) PROVE TimeInv'
    BY <1>19 DEF ChildPrint, TimeInv
  <1>20. ASSUME NEW p \in Procs, ChildReply(p) PROVE TimeInv'
    BY <1>20 DEF ChildReply, TimeInv
  <1>21. ASSUME NEW p \in Procs, ChildCrash(p) PROVE TimeInv'
    BY <1>21 DEF ChildCrash, Exit, TimeInv
  <1>22. ASSUME NEW p \in Procs, ChildDies(p) PROVE TimeInv'
    BY <1>22 DEF ChildDies, Exit, TimeInv
  <1>23. ASSUME NEW p \in Procs, ReaderWakes(p) PROVE TimeInv'
    BY <1>23 DEF ReaderWakes, TimeInv
  <1>24. ASSUME NEW p \in Procs, ReaderReads(p) PROVE TimeInv'
    BY <1>24 DEF ReaderReads, TimeInv
  <1>25. ASSUME NEW p \in Procs, ReaderEnds(p) PROVE TimeInv'
    BY <1>25 DEF ReaderEnds, TimeInv
  <1>26. ASSUME NEW p \in Procs, WatcherFires(p) PROVE TimeInv'
    BY <1>26 DEF WatcherFires, TimeInv
  <1>27. ASSUME NEW p \in Procs, WatcherStores(p) PROVE TimeInv'
    BY <1>27 DEF WatcherStores, TimeInv
  <1>28. ASSUME NEW p \in Procs, WatcherAborts(p) PROVE TimeInv'
    BY <1>28 DEF WatcherAborts, Signal, TimeInv
  <1>29. ASSUME NEW p \in Procs, WatcherKills(p) PROVE TimeInv'
    BY <1>29 DEF WatcherKills, Signal, TimeInv
  <1>30. ASSUME NEW p \in Procs, WatcherEnds(p) PROVE TimeInv'
    BY <1>30 DEF WatcherEnds, TimeInv
  <1>31. ASSUME NEW p \in Procs, StopperEnds(p) PROVE TimeInv'
    BY <1>31 DEF StopperEnds, Signal, TimeInv
  <1>32. CASE UNCHANGED vars
    BY <1>32 DEF vars, history, TimeInv
  <1> QED  BY <1>1, <1>2, <1>3, <1>4, <1>5, <1>6, <1>7, <1>8, <1>9, <1>10, <1>11, <1>12, <1>13, <1>14, <1>15, <1>16, <1>17, <1>18, <1>19, <1>20, <1>21, <1>22, <1>23, <1>24, <1>25, <1>26, <1>27, <1>28, <1>29, <1>30, <1>31, <1>32
       DEF Next, Worker, Child, StdoutReader, HangWatcher

\* As long as a process is used, what is late stays late.
LEMMA LateKept ==
  ASSUME TestInv, HistoryInv, [Next]_vars, testee # 0, testee' = testee, Late
  PROVE  Late'
  <1>1. overdue \subseteq overdue' /\ First' = First /\ execs' >= execs
    <2> DEFINE Goal == overdue \subseteq overdue' /\ First' = First /\ execs' >= execs
    <2> SUFFICES Goal
      OBVIOUS
    <2>1. CASE ReportCrasher
      BY <2>1 DEF ReportCrasher, First, TestInv, TypeOK
    <2>2. CASE BeginTest
      BY <2>2 DEF BeginTest, Goto, First, TestInv, TypeOK
    <2>3. CASE LeaveLoop
      BY <2>3 DEF LeaveLoop, Goto, First, TestInv, TypeOK
    <2>4. CASE Check
      BY <2>4 DEF Check, Goto, First, TestInv, TypeOK
    <2>5. CASE Start
      BY <2>5 DEF Start, Goto, First, TestInv, TypeOK
    <2>6. CASE Prepare
      BY <2>6 DEF Prepare, Goto, Signal, First, TestInv, TypeOK
    <2>7. CASE Write
      BY <2>7 DEF Write, Goto, First, TestInv, TypeOK
    <2>8. CASE Read
      BY <2>8 DEF Read, Goto, First, TestInv, TypeOK
    <2>9. CASE LoadHanged
      BY <2>9 DEF LoadHanged, Goto, First, TestInv, TypeOK
    <2>10. CASE ClearStart
      BY <2>10 DEF ClearStart, Goto, First, TestInv, TypeOK
    <2>11. CASE Close
      BY <2>11 DEF Close, Goto, First, TestInv, TypeOK
    <2>12. CASE Shutdown
      BY <2>12 DEF Shutdown, Goto, Signal, First, TestInv, TypeOK
    <2>13. CASE Collect
      BY <2>13 DEF Collect, Goto, First, TestInv, TypeOK
    <2>14. CASE Wait
      BY <2>14 DEF Wait, Goto, First
    <2>15. CASE Interrupt
      BY <2>15 DEF Interrupt, First, TestInv, TypeOK
    <2>16. CASE CloseShutdownC
      BY <2>16 DEF CloseShutdownC, First, TestInv, TypeOK
    <2>17. CASE Elapse
      BY <2>17 DEF Elapse, First, TestInv, TypeOK
    <2>18. ASSUME NEW p \in Procs, ChildRead(p) PROVE Goal
      BY <2>18 DEF ChildRead, First, TestInv, TypeOK
    <2>19. ASSUME NEW p \in Procs, ChildPrint(p) PROVE Goal
      BY <2>19 DEF ChildPrint, First, TestInv, TypeOK
    <2>20. ASSUME NEW p \in Procs, ChildReply(p) PROVE Goal
      BY <2>20 DEF ChildReply, First, TestInv, TypeOK
    <2>21. ASSUME NEW p \in Procs, ChildCrash(p) PROVE Goal
      BY <2>21 DEF ChildCrash, Exit, First, TestInv, TypeOK
    <2>22. ASSUME NEW p \in Procs, ChildDies(p) PROVE Goal
      BY <2>22 DEF ChildDies, Exit, First, TestInv, TypeOK
    <2>23. ASSUME NEW p \in Procs, ReaderWakes(p) PROVE Goal
      BY <2>23 DEF ReaderWakes, First, TestInv, TypeOK
    <2>24. ASSUME NEW p \in Procs, ReaderReads(p) PROVE Goal
      BY <2>24 DEF ReaderReads, First, TestInv, TypeOK
    <2>25. ASSUME NEW p \in Procs, ReaderEnds(p) PROVE Goal
      BY <2>25 DEF ReaderEnds, First, TestInv, TypeOK
    <2>26. ASSUME NEW p \in Procs, WatcherFires(p) PROVE Goal
      BY <2>26 DEF WatcherFires, First, TestInv, TypeOK
    <2>27. ASSUME NEW p \in Procs, WatcherStores(p) PROVE Goal
      BY <2>27 DEF WatcherStores, First, TestInv, TypeOK
    <2>28. ASSUME NEW p \in Procs, WatcherAborts(p) PROVE Goal
      BY <2>28 DEF WatcherAborts, Signal, First, TestInv, TypeOK
    <2>29. ASSUME NEW p \in Procs, WatcherKills(p) PROVE Goal
      BY <2>29 DEF WatcherKills, Signal, First, TestInv, TypeOK
    <2>30. ASSUME NEW p \in Procs, WatcherEnds(p) PROVE Goal
      BY <2>30 DEF WatcherEnds, First, TestInv, TypeOK
    <2>31. ASSUME NEW p \in Procs, StopperEnds(p) PROVE Goal
      BY <2>31 DEF StopperEnds, Signal, First, TestInv, TypeOK
    <2>32. CASE UNCHANGED vars
      BY <2>32 DEF vars, history, First, TestInv, TypeOK
    <2> QED  BY <2>1, <2>2, <2>3, <2>4, <2>5, <2>6, <2>7, <2>8, <2>9, <2>10, <2>11, <2>12, <2>13, <2>14, <2>15, <2>16, <2>17, <2>18, <2>19, <2>20, <2>21, <2>22, <2>23, <2>24, <2>25, <2>26, <2>27, <2>28, <2>29, <2>30, <2>31, <2>32
         DEF Next, Worker, Child, StdoutReader, HangWatcher
  <1>2. PICK t \in overdue : First <= t /\ t <= execs
    BY DEF Late
  <1>3. t \in Nat /\ execs \in Nat /\ execs' \in Nat
    BY NextType DEF TestInv, TypeOK, HistoryInv
  <1> QED  BY <1>1, <1>2, <1>3 DEF Late

\* The watcher acts after a late execution only.
LEMMA LateStep == TestInv /\ HistoryInv /\ KillInv /\ CauseInv /\ TimeInv /\ LateInv /\ [Next]_vars => LateInv'
  <1> SUFFICES ASSUME TestInv /\ HistoryInv /\ KillInv /\ CauseInv /\ TimeInv /\ LateInv, [Next]_vars PROVE LateInv'
    OBVIOUS
  <1>0. testee # 0 /\ testee' = testee /\ Late => Late'
    BY LateKept
  <1>1. CASE ReportCrasher
    BY <1>1, <1>0 DEF ReportCrasher, LateInv
  <1>2. CASE BeginTest
    BY <1>2, <1>0 DEF BeginTest, Goto, LateInv
  <1>3. CASE LeaveLoop
    BY <1>3, <1>0 DEF LeaveLoop, Goto, LateInv
  <1>4. CASE Check
    BY <1>4, <1>0 DEF Check, Goto, LateInv
  <1>5. CASE Start
    BY <1>5, <1>0 DEF Start, Goto, LateInv, TestInv, TypeOK, HistoryInv
  <1>6. CASE Prepare
    BY <1>6, <1>0 DEF Prepare, Goto, Signal, LateInv, TestInv, TypeOK, HistoryInv
  <1>7. CASE Write
    BY <1>7, <1>0 DEF Write, Goto, LateInv
  <1>8. CASE Read
    <2>1. testee \in Procs /\ UNCHANGED <<testee, startTime, watcher, cause, data>>
          /\ wpc' = "judge"
      BY <1>8 DEF Read, Goto, TestInv, TypeOK, ProcessInv, Using
    <2>2. verdict' = "crash" => cause[testee] \notin {"none", "down", "recycle"}
      BY <1>8, <2>1 DEF Read, CauseInv, KillInv, Procs
    <2>3. verdict' = "crash" /\ cause[testee] = "crash" => data \in Bad
      BY <2>1 DEF CauseInv, Bad, Procs
    <2>4. cause[testee] \in Causes
      BY <2>1 DEF HistoryInv
    <2> QED  BY <1>0, <2>1, <2>2, <2>3, <2>4 DEF LateInv, Causes, Procs
  <1>9. CASE LoadHanged
    BY <1>9, <1>0 DEF LoadHanged, Goto, LateInv, TestInv, TypeOK, ProcessInv, Using, VerdictInv, HistoryInv, Alive, Procs
  <1>10. CASE ClearStart
    BY <1>10, <1>0 DEF ClearStart, Goto, LateInv, TestInv, ProcessInv, Using
  <1>11. CASE Close
    BY <1>11, <1>0 DEF Close, Goto, LateInv
  <1>12. CASE Shutdown
    BY <1>12, <1>0 DEF Shutdown, Goto, Signal, LateInv, TestInv, TypeOK, ProcessInv, Using, HistoryInv
  <1>13. CASE Collect
    BY <1>13, <1>0 DEF Collect, Goto, LateInv, TestInv, ProcessInv, Using
  <1>14. CASE Wait
    BY <1>14, <1>0 DEF Wait, Goto, LateInv
  <1>15. CASE Interrupt
    BY <1>15, <1>0 DEF Interrupt, LateInv, TestInv, ProcessInv, Using
  <1>16. CASE CloseShutdownC
    BY <1>16, <1>0 DEF CloseShutdownC, LateInv, TestInv, ProcessInv, Using
  <1>17. CASE Elapse
    BY <1>17, <1>0 DEF Elapse, LateInv
  <1>18. ASSUME NEW p \in Procs, ChildRead(p) PROVE LateInv'
    BY <1>18, <1>0 DEF ChildRead, LateInv, TestInv, ProcessInv, Using
  <1>19. ASSUME NEW p \in Procs, ChildPrint(p) PROVE LateInv'
    BY <1>19, <1>0 DEF ChildPrint, LateInv, TestInv, ProcessInv, Using
  <1>20. ASSUME NEW p \in Procs, ChildReply(p) PROVE LateInv'
    BY <1>20, <1>0 DEF ChildReply, LateInv, TestInv, ProcessInv, Using
  <1>21. ASSUME NEW p \in Procs, ChildCrash(p) PROVE LateInv'
    BY <1>21, <1>0 DEF ChildCrash, Exit, LateInv, TestInv, ProcessInv, Using
  <1>22. ASSUME NEW p \in Procs, ChildDies(p) PROVE LateInv'
    BY <1>22, <1>0 DEF ChildDies, Exit, LateInv, TestInv, ProcessInv, Using
  <1>23. ASSUME NEW p \in Procs, ReaderWakes(p) PROVE LateInv'
    BY <1>23, <1>0 DEF ReaderWakes, LateInv, TestInv, ProcessInv, Using
  <1>24. ASSUME NEW p \in Procs, ReaderReads(p) PROVE LateInv'
    BY <1>24, <1>0 DEF ReaderReads, LateInv, TestInv, ProcessInv, Using
  <1>25. ASSUME NEW p \in Procs, ReaderEnds(p) PROVE LateInv'
    BY <1>25, <1>0 DEF ReaderEnds, LateInv, TestInv, ProcessInv, Using
  <1>26. ASSUME NEW p \in Procs, WatcherFires(p) PROVE LateInv'
    <2>1. ASSUME p = testee PROVE Late
      <3>1. /\ startTime[testee] \in overdue /\ overdue \subseteq Nat \ {0}
            /\ testee \in Procs /\ execs \in Nat /\ execsOf \in Nat
        BY <1>26, <2>1 DEF WatcherFires, HistoryInv, TestInv, TypeOK
      <3>2. wpc \in Timed /\ startTime[testee] = execs /\ execsOf >= 1
        BY <3>1 DEF TimeInv, Procs
      <3>3. First <= execs
        BY <3>1, <3>2 DEF First, Timed
      <3> QED  BY <3>1, <3>2, <3>3 DEF Late
    <2>2. watcher \in [Procs -> {"none", "select", "store", "abort", "kill", "done"}]
      BY DEF TestInv, TypeOK
    <2>3. /\ UNCHANGED <<testee, startTime, cause, wpc, verdict, data>>
          /\ \A q \in Procs : q # p => watcher'[q] = watcher[q]
      BY <1>26, <2>2 DEF WatcherFires
    <2>4. testee # 0 => testee \in Procs
      BY DEF TestInv, TypeOK
    <2>5. testee # 0 /\ Late => Late'
      BY <1>0, <2>3
    <2>6. wpc \in {"clear", "shutdown", "collect", "wait"} => testee # 0
      BY DEF TestInv, ProcessInv, Using
    <2> QED  BY <2>1, <2>3, <2>4, <2>5, <2>6 DEF LateInv
  <1>27. ASSUME NEW p \in Procs, WatcherStores(p) PROVE LateInv'
    BY <1>27, <1>0 DEF WatcherStores, LateInv, TestInv, ProcessInv, Using
  <1>28. ASSUME NEW p \in Procs, WatcherAborts(p) PROVE LateInv'
    BY <1>28, <1>0 DEF WatcherAborts, Signal, LateInv, TestInv, TypeOK, ProcessInv, Using, HistoryInv
  <1>29. ASSUME NEW p \in Procs, WatcherKills(p) PROVE LateInv'
    BY <1>29, <1>0 DEF WatcherKills, Signal, LateInv, TestInv, TypeOK, ProcessInv, Using, HistoryInv
  <1>30. ASSUME NEW p \in Procs, WatcherEnds(p) PROVE LateInv'
    BY <1>30, <1>0 DEF WatcherEnds, LateInv, TestInv, ProcessInv, Using
  <1>31. ASSUME NEW p \in Procs, StopperEnds(p) PROVE LateInv'
    BY <1>31, <1>0 DEF StopperEnds, Signal, LateInv, TestInv, TypeOK, ProcessInv, Using, HistoryInv
  <1>32. CASE UNCHANGED vars
    BY <1>32, <1>0 DEF vars, history, LateInv, TestInv, ProcessInv, Using
  <1> QED  BY <1>1, <1>2, <1>3, <1>4, <1>5, <1>6, <1>7, <1>8, <1>9, <1>10, <1>11, <1>12, <1>13, <1>14, <1>15, <1>16, <1>17, <1>18, <1>19, <1>20, <1>21, <1>22, <1>23, <1>24, <1>25, <1>26, <1>27, <1>28, <1>29, <1>30, <1>31, <1>32
       DEF Next, Worker, Child, StdoutReader, HangWatcher

\* Queued crashers.
LEMMA QueueStep == TestInv /\ HistoryInv /\ KillInv /\ CauseInv /\ TimeInv /\ LateInv /\ QueueInv /\ [Next]_vars => QueueInv'
  <1> SUFFICES ASSUME TestInv /\ HistoryInv /\ KillInv /\ CauseInv /\ TimeInv /\ LateInv /\ QueueInv, [Next]_vars PROVE QueueInv'
    OBVIOUS
  <1>1. CASE ReportCrasher
    <2>1. ASSUME NEW i \in DOMAIN crasherQueue'
          PROVE  i \in DOMAIN crasherQueue /\ crasherQueue'[i] = crasherQueue[i]
      BY <1>1, LastDropped DEF ReportCrasher, HistoryInv
    <2> QED  BY <1>1, <2>1 DEF ReportCrasher, QueueInv
  <1>2. CASE BeginTest
    BY <1>2 DEF BeginTest, Goto, QueueInv
  <1>3. CASE LeaveLoop
    BY <1>3 DEF LeaveLoop, Goto, QueueInv
  <1>4. CASE Check
    BY <1>4 DEF Check, Goto, QueueInv
  <1>5. CASE Start
    BY <1>5 DEF Start, Goto, QueueInv
  <1>6. CASE Prepare
    BY <1>6 DEF Prepare, Goto, Signal, QueueInv
  <1>7. CASE Write
    BY <1>7 DEF Write, Goto, QueueInv
  <1>8. CASE Read
    BY <1>8 DEF Read, Goto, QueueInv
  <1>9. CASE LoadHanged
    BY <1>9 DEF LoadHanged, Goto, QueueInv
  <1>10. CASE ClearStart
    BY <1>10 DEF ClearStart, Goto, QueueInv
  <1>11. CASE Close
    BY <1>11 DEF Close, Goto, QueueInv
  <1>12. CASE Shutdown
    BY <1>12 DEF Shutdown, Goto, Signal, QueueInv
  <1>13. CASE Collect
    BY <1>13 DEF Collect, Goto, QueueInv
  <1>14. CASE Wait
    <2>1. ASSUME NEW i \in DOMAIN crasherQueue'
          PROVE  \/ i \in DOMAIN crasherQueue /\ crasherQueue'[i] = crasherQueue[i]
                 \/ verdict \notin {"retry", "close"} /\ crasherQueue'[i] = Crash
      BY <1>14, Appended DEF Wait, HistoryInv
    <2>2. \/ verdict \in {"retry", "close"}
          \/ verdict = "crash" /\ data \in Bad
          \/ cause[testee] = "interrupt"
          \/ Late
      BY <1>14 DEF Wait, TestInv, TypeOK, ProcessInv, Using, VerdictInv, LateInv, Procs
    <2>3. Late => \E t \in overdue : execs - execsOf + 1 <= t /\ t <= execs
      BY <1>14 DEF Wait, Late, First
    <2>4. UNCHANGED overdue
      BY <1>14 DEF Wait
    <2>5. ASSUME NEW i \in DOMAIN crasherQueue', crasherQueue'[i] = Crash,
                 verdict \notin {"retry", "close"}
          PROVE  \/ ~crasherQueue'[i].hang /\ crasherQueue'[i].input \in Bad
                 \/ crasherQueue'[i].by = "interrupt"
                 \/ \E t \in overdue : crasherQueue'[i].first <= t /\ t <= crasherQueue'[i].exec
      <3>1. /\ Crash.input = data /\ Crash.by = cause[testee] /\ Crash.exec = execs
            /\ Crash.first = execs - execsOf + 1 /\ Crash.hang = (verdict = "hang")
        BY DEF Crash
      <3>2. CASE verdict = "crash" /\ data \in Bad
        BY <3>1, <3>2, <2>5
      <3>3. CASE cause[testee] = "interrupt"
        BY <3>1, <3>3, <2>5
      <3>4. CASE Late
        BY <3>1, <3>4, <2>3, <2>5
      <3> QED  BY <3>2, <3>3, <3>4, <2>2, <2>5
    <2> QED  BY <2>1, <2>4, <2>5 DEF QueueInv
  <1>15. CASE Interrupt
    BY <1>15 DEF Interrupt, QueueInv
  <1>16. CASE CloseShutdownC
    BY <1>16 DEF CloseShutdownC, QueueInv
  <1>17. CASE Elapse
    BY <1>17 DEF Elapse, QueueInv
  <1>18. ASSUME NEW p \in Procs, ChildRead(p) PROVE QueueInv'
    BY <1>18 DEF ChildRead, QueueInv
  <1>19. ASSUME NEW p \in Procs, ChildPrint(p) PROVE QueueInv'
    BY <1>19 DEF ChildPrint, QueueInv
  <1>20. ASSUME NEW p \in Procs, ChildReply(p) PROVE QueueInv'
    BY <1>20 DEF ChildReply, QueueInv
  <1>21. ASSUME NEW p \in Procs, ChildCrash(p) PROVE QueueInv'
    BY <1>21 DEF ChildCrash, Exit, QueueInv
  <1>22. ASSUME NEW p \in Procs, ChildDies(p) PROVE QueueInv'
    BY <1>22 DEF ChildDies, Exit, QueueInv
  <1>23. ASSUME NEW p \in Procs, ReaderWakes(p) PROVE QueueInv'
    BY <1>23 DEF ReaderWakes, QueueInv
  <1>24. ASSUME NEW p \in Procs, ReaderReads(p) PROVE QueueInv'
    BY <1>24 DEF ReaderReads, QueueInv
  <1>25. ASSUME NEW p \in Procs, ReaderEnds(p) PROVE QueueInv'
    BY <1>25 DEF ReaderEnds, QueueInv
  <1>26. ASSUME NEW p \in Procs, WatcherFires(p) PROVE QueueInv'
    BY <1>26 DEF WatcherFires, QueueInv
  <1>27. ASSUME NEW p \in Procs, WatcherStores(p) PROVE QueueInv'
    BY <1>27 DEF WatcherStores, QueueInv
  <1>28. ASSUME NEW p \in Procs, WatcherAborts(p) PROVE QueueInv'
    BY <1>28 DEF WatcherAborts, Signal, QueueInv
  <1>29. ASSUME NEW p \in Procs, WatcherKills(p) PROVE QueueInv'
    BY <1>29 DEF WatcherKills, Signal, QueueInv
  <1>30. ASSUME NEW p \in Procs, WatcherEnds(p) PROVE QueueInv'
    BY <1>30 DEF WatcherEnds, QueueInv
  <1>31. ASSUME NEW p \in Procs, StopperEnds(p) PROVE QueueInv'
    BY <1>31 DEF StopperEnds, Signal, QueueInv
  <1>32. CASE UNCHANGED vars
    BY <1>32 DEF vars, history, QueueInv
  <1> QED  BY <1>1, <1>2, <1>3, <1>4, <1>5, <1>6, <1>7, <1>8, <1>9, <1>10, <1>11, <1>12, <1>13, <1>14, <1>15, <1>16, <1>17, <1>18, <1>19, <1>20, <1>21, <1>22, <1>23, <1>24, <1>25, <1>26, <1>27, <1>28, <1>29, <1>30, <1>31, <1>32
       DEF Next, Worker, Child, StdoutReader, HangWatcher

\* A report is one of the queue, made before the interrupt; time only adds to overdue.
LEMMA ReportFrom ==
  ASSUME TestInv, HistoryInv, [Next]_vars
  PROVE  /\ \/ report' \in {report, NoReport}
            \/ ~shutdown /\ \E i \in DOMAIN crasherQueue : report' = crasherQueue[i]
         /\ overdue \subseteq overdue'
  <1> DEFINE Goal == /\ \/ report' \in {report, NoReport}
                        \/ ~shutdown /\ \E i \in DOMAIN crasherQueue : report' = crasherQueue[i]
                     /\ overdue \subseteq overdue'
  <1> SUFFICES Goal
    OBVIOUS
  <1>1. CASE ReportCrasher
    <2>1. Len(crasherQueue) \in DOMAIN crasherQueue
      BY <1>1 DEF ReportCrasher, HistoryInv
    <2> QED  BY <1>1, <2>1 DEF ReportCrasher
  <1>2. CASE BeginTest
    BY <1>2 DEF BeginTest, Goto, HistoryInv
  <1>3. CASE LeaveLoop
    BY <1>3 DEF LeaveLoop, Goto, HistoryInv
  <1>4. CASE Check
    BY <1>4 DEF Check, Goto, HistoryInv
  <1>5. CASE Start
    BY <1>5 DEF Start, Goto, HistoryInv
  <1>6. CASE Prepare
    BY <1>6 DEF Prepare, Goto, Signal, HistoryInv
  <1>7. CASE Write
    BY <1>7 DEF Write, Goto, HistoryInv
  <1>8. CASE Read
    BY <1>8 DEF Read, Goto, HistoryInv
  <1>9. CASE LoadHanged
    BY <1>9 DEF LoadHanged, Goto, HistoryInv
  <1>10. CASE ClearStart
    BY <1>10 DEF ClearStart, Goto, HistoryInv
  <1>11. CASE Close
    BY <1>11 DEF Close, Goto, HistoryInv
  <1>12. CASE Shutdown
    BY <1>12 DEF Shutdown, Goto, Signal, HistoryInv
  <1>13. CASE Collect
    BY <1>13 DEF Collect, Goto, HistoryInv
  <1>14. CASE Wait
    BY <1>14 DEF Wait, Goto, HistoryInv
  <1>15. CASE Interrupt
    BY <1>15 DEF Interrupt, HistoryInv
  <1>16. CASE CloseShutdownC
    BY <1>16 DEF CloseShutdownC, HistoryInv
  <1>17. CASE Elapse
    BY <1>17 DEF Elapse, HistoryInv
  <1>18. ASSUME NEW p \in Procs, ChildRead(p) PROVE Goal
    BY <1>18 DEF ChildRead, HistoryInv
  <1>19. ASSUME NEW p \in Procs, ChildPrint(p) PROVE Goal
    BY <1>19 DEF ChildPrint, HistoryInv
  <1>20. ASSUME NEW p \in Procs, ChildReply(p) PROVE Goal
    BY <1>20 DEF ChildReply, HistoryInv
  <1>21. ASSUME NEW p \in Procs, ChildCrash(p) PROVE Goal
    BY <1>21 DEF ChildCrash, Exit, HistoryInv
  <1>22. ASSUME NEW p \in Procs, ChildDies(p) PROVE Goal
    BY <1>22 DEF ChildDies, Exit, HistoryInv
  <1>23. ASSUME NEW p \in Procs, ReaderWakes(p) PROVE Goal
    BY <1>23 DEF ReaderWakes, HistoryInv
  <1>24. ASSUME NEW p \in Procs, ReaderReads(p) PROVE Goal
    BY <1>24 DEF ReaderReads, HistoryInv
  <1>25. ASSUME NEW p \in Procs, ReaderEnds(p) PROVE Goal
    BY <1>25 DEF ReaderEnds, HistoryInv
  <1>26. ASSUME NEW p \in Procs, WatcherFires(p) PROVE Goal
    BY <1>26 DEF WatcherFires, HistoryInv
  <1>27. ASSUME NEW p \in Procs, WatcherStores(p) PROVE Goal
    BY <1>27 DEF WatcherStores, HistoryInv
  <1>28. ASSUME NEW p \in Procs, WatcherAborts(p) PROVE Goal
    BY <1>28 DEF WatcherAborts, Signal, HistoryInv
  <1>29. ASSUME NEW p \in Procs, WatcherKills(p) PROVE Goal
    BY <1>29 DEF WatcherKills, Signal, HistoryInv
  <1>30. ASSUME NEW p \in Procs, WatcherEnds(p) PROVE Goal
    BY <1>30 DEF WatcherEnds, HistoryInv
  <1>31. ASSUME NEW p \in Procs, StopperEnds(p) PROVE Goal
    BY <1>31 DEF StopperEnds, Signal, HistoryInv
  <1>32. CASE UNCHANGED vars
    BY <1>32 DEF vars, history, HistoryInv
  <1> QED  BY <1>1, <1>2, <1>3, <1>4, <1>5, <1>6, <1>7, <1>8, <1>9, <1>10, <1>11, <1>12, <1>13, <1>14, <1>15, <1>16, <1>17, <1>18, <1>19, <1>20, <1>21, <1>22, <1>23, <1>24, <1>25, <1>26, <1>27, <1>28, <1>29, <1>30, <1>31, <1>32
       DEF Next, Worker, Child, StdoutReader, HangWatcher

-----------------------------------------------------------------------------
\* The parts together.
Whole == /\ TestInv /\ HistoryInv /\ CountInv /\ ExecsWithinRestarts
       /\ KillInv /\ CauseInv /\ TimeInv /\ LateInv /\ QueueInv

\* They hold at the start ...
LEMMA WholeInit == Init => Whole
  <1> SUFFICES ASSUME Init PROVE Whole
    OBVIOUS
  <1>1. wpc = "loop" /\ data = NoInput /\ testee = 0 /\ crasherQueue = <<>> /\ overdue = {}
        /\ tests = 0 /\ execs = 0 /\ restarts = 0 /\ ~shutdownC
    BY DEF Init
  <1>2. TypeOK
    BY DEF Init, TypeOK
  <1>3. ProcessInv
    BY DEF Init, ProcessInv, Using, Alive
  <1>4. RequestInv
    BY DEF Init, RequestInv
  <1>5. VerdictInv
    BY DEF Init, VerdictInv
  <1>6. FillInv
    BY TesteeAssumption DEF Init, FillInv, TesteeAssumption
  <1>7. HistoryInv
    <2>1. cause \in [Procs -> Causes]
      BY DEF Init, Causes
    <2>2. crasherQueue \in Seq(Crashes)
      BY <1>1
    <2> QED  BY <1>1, <2>1, <2>2 DEF HistoryInv
  <1>8. KillInv
    BY DEF Init, KillInv
  <1>9. CauseInv /\ TimeInv
    BY DEF Init, CauseInv, TimeInv
  <1>10. LateInv /\ QueueInv
    BY <1>1 DEF LateInv, QueueInv
  <1>11. CountInv /\ ExecsWithinRestarts
    BY <1>1 DEF CountInv, ExecsWithinRestarts
  <1> QED  BY <1>2, <1>3, <1>4, <1>5, <1>6, <1>7, <1>8, <1>9, <1>10, <1>11 DEF Whole, TestInv

\* ... and are kept by every step.
LEMMA WholeStep == Whole /\ [Next]_vars => Whole'
  <1> SUFFICES ASSUME Whole, [Next]_vars PROVE Whole'
    OBVIOUS
  <1>1. TestInv'
    BY NextType, ProcessStep, RequestStep, VerdictStep, FillStep DEF Whole, TestInv
  <1>2. HistoryInv' /\ CountInv' /\ ExecsWithinRestarts'
    BY HistoryStep, CountStep DEF Whole
  <1>3. KillInv' /\ CauseInv' /\ TimeInv'
    BY KillStep, CauseStep, TimeStep DEF Whole
  <1>4. LateInv' /\ QueueInv'
    BY LateStep, QueueStep DEF Whole
  <1> QED  BY <1>1, <1>2, <1>3, <1>4 DEF Whole

\* The whole inductive invariant holds in every reachable state.
THEOREM TesteeInvariant == Spec => []Whole
  BY WholeInit, WholeStep, PTL DEF Spec

\* The worker, its processes and helpers keep their types, for any inputs, buffers
\* and limits.
THEOREM TypeCorrect == Spec => []TypeOK
  <1>1. Whole => TypeOK
    BY DEF Whole, TestInv
  <1> QED  BY <1>1, TesteeInvariant, PTL

\* Neither log.Fatalf of Testee.test and Testee.shutdown is reached: a Testee is never
\* used after its shutdown, nor shut down twice.
THEOREM NoFatalCall == Spec => []NeverFatal
  <1>1. Whole => NeverFatal
    BY DEF Whole, TestInv, ProcessInv, Using, NeverFatal
  <1> QED  BY <1>1, TesteeInvariant, PTL

\* The shared mapping never has two live processes at once.
THEOREM MappingNotShared == Spec => []OneProcess
  <1>1. Whole => OneProcess
    <2> SUFFICES ASSUME Whole PROVE OneProcess
      OBVIOUS
    <2>1. {p \in Procs : Alive(p)} \subseteq {testee}
      BY DEF Whole, TestInv, ProcessInv
    <2>2. IsFiniteSet({testee}) /\ Cardinality({testee}) = 1
      BY FS_Singleton
    <2>3. /\ Cardinality({p \in Procs : Alive(p)}) <= Cardinality({testee})
      BY <2>1, <2>2, FS_Subset
    <2> QED  BY <2>2, <2>3 DEF OneProcess
  <1> QED  BY <1>1, TesteeInvariant, PTL

\* The surplus of execs over the tests asked for is at most the number of restarts.
THEOREM RetriesCounted == Spec => []ExecsWithinRestarts
  <1>1. Whole => ExecsWithinRestarts
    BY DEF Whole
  <1> QED  BY <1>1, TesteeInvariant, PTL

\* The stdout reader always passes a buffer with room to Read.
THEOREM ReaderHasRoom == Spec => []BufferHasRoom
  <1>1. Whole => BufferHasRoom
    BY TesteeAssumption DEF Whole, TestInv, FillInv, BufferHasRoom, TesteeAssumption
  <1> QED  BY <1>1, TesteeInvariant, PTL

\* No report comes from a kill of the interrupt or of the planned replacement.
THEOREM OwnKillsSilent == Spec => []OwnKillsNotReported
  <1>1. Init => OwnKillsNotReported
    BY DEF Init, OwnKillsNotReported, Reported
  <1>2. Whole /\ OwnKillsNotReported /\ [Next]_vars => OwnKillsNotReported'
    <2> SUFFICES ASSUME Whole, OwnKillsNotReported, [Next]_vars
                 PROVE  OwnKillsNotReported'
      OBVIOUS
    <2>1. \/ report' \in {report, NoReport}
          \/ ~shutdown /\ \E i \in DOMAIN crasherQueue : report' = crasherQueue[i]
      BY ReportFrom DEF Whole
    <2>2. \A i \in DOMAIN crasherQueue :
            /\ crasherQueue[i].by = "interrupt" => shutdown
            /\ crasherQueue[i].by # "recycle"
      BY DEF Whole, KillInv
    <2> QED  BY <2>1, <2>2 DEF OwnKillsNotReported, Reported
  <1> QED  BY <1>1, <1>2, TesteeInvariant, PTL DEF Spec

\* A reported hang, or a good input reported, follows a timeout in the same process.
THEOREM BlameAfterTimeout == Spec => []BlameNeedsTimeout
  <1>1. Init => BlameNeedsTimeout
    BY DEF Init, BlameNeedsTimeout, Reported
  <1>2. Whole /\ BlameNeedsTimeout /\ [Next]_vars => BlameNeedsTimeout'
    <2> SUFFICES ASSUME Whole, BlameNeedsTimeout, [Next]_vars
                 PROVE  BlameNeedsTimeout'
      OBVIOUS
    <2>1. /\ \/ report' \in {report, NoReport}
             \/ ~shutdown /\ \E i \in DOMAIN crasherQueue : report' = crasherQueue[i]
          /\ overdue \subseteq overdue'
      BY ReportFrom DEF Whole
    <2>2. CASE report' \in {report, NoReport}
      BY <2>1, <2>2 DEF BlameNeedsTimeout, Reported
    <2>3. ASSUME ~shutdown, NEW i \in DOMAIN crasherQueue, report' = crasherQueue[i]
          PROVE  BlameNeedsTimeout'
      <3>1. \/ ~report'.hang /\ report'.input \in Bad
            \/ \E t \in overdue : report'.first <= t /\ t <= report'.exec
        BY <2>3 DEF Whole, KillInv, QueueInv
      <3>2. overdue \subseteq Nat /\ report'.first \in Int /\ report'.exec \in Int
        <4>1. crasherQueue[i] \in Crashes
          BY <2>3 DEF Whole, HistoryInv
        <4> QED  BY <4>1, <2>3 DEF Crashes, Whole, HistoryInv
      <3> QED  BY <2>1, <3>1, <3>2 DEF BlameNeedsTimeout
    <2> QED  BY <2>1, <2>2, <2>3
  <1> QED  BY <1>1, <1>2, TesteeInvariant, PTL DEF Spec

-----------------------------------------------------------------------------
(* The refinement: data and answer behave as TestService promises.         *)

\* A step asks, replies, or is not seen by the caller.
LEMMA ServiceStep ==
  ASSUME TestInv, [Next]_vars
  PROVE  [Service!Next]_<<data, answer>>
  <1> DEFINE Goal == [Service!Next]_<<data, answer>>
  <1> SUFFICES Goal
    OBVIOUS
  <1>0. NoInput \notin Inputs
    BY TesteeAssumption DEF TesteeAssumption
  <1>1. CASE ReportCrasher
    BY <1>1 DEF ReportCrasher, Goal
  <1>2. CASE BeginTest
    <2>1. data = NoInput /\ data' \in Inputs /\ answer' = Service!NoAnswer
      BY <1>2 DEF BeginTest, TestInv, VerdictInv, NoAnswer, Service!NoAnswer
    <2> QED  BY <2>1 DEF Service!Next, Service!Ask
  <1>3. CASE LeaveLoop
    BY <1>3 DEF LeaveLoop, Goto, Goal
  <1>4. CASE Check
    BY <1>4 DEF Check, Goto, Goal
  <1>5. CASE Start
    BY <1>5 DEF Start, Goto, Goal
  <1>6. CASE Prepare
    BY <1>6 DEF Prepare, Goto, Signal, Goal
  <1>7. CASE Write
    BY <1>7 DEF Write, Goto, Goal
  <1>8. CASE Read
    BY <1>8 DEF Read, Goto, Goal
  <1>9. CASE LoadHanged
    BY <1>9 DEF LoadHanged, Goto, Goal
  <1>10. CASE ClearStart
    <2>1. CASE verdict = "ok"
      <3>1. data # NoInput /\ data \in Inputs /\ coverRegion = data /\ data \notin Bad
        BY <1>10, <2>1 DEF ClearStart, TestInv, TypeOK, RequestInv, VerdictInv
      <3>2. answer' = [input |-> data, cover |-> coverRegion, kind |-> "ok"] /\ data' = NoInput
        BY <1>10, <2>1 DEF ClearStart
      <3> QED  BY <3>1, <3>2
               DEF Service!Next, Service!Reply, Service!Allowed, Service!Answer, Service!Kinds
    <2>2. CASE verdict # "ok"
      BY <1>10, <2>2 DEF ClearStart
    <2> QED  BY <2>1, <2>2
  <1>11. CASE Close
    BY <1>11 DEF Close, Goto, Goal
  <1>12. CASE Shutdown
    BY <1>12 DEF Shutdown, Goto, Signal, Goal
  <1>13. CASE Collect
    BY <1>13 DEF Collect, Goto, Goal
  <1>14. CASE Wait
    <2>1. CASE verdict \in {"retry", "close"}
      BY <1>14, <2>1 DEF Wait
    <2>2. CASE verdict \in {"crash", "hang"}
      <3>1. data # NoInput /\ data \in Inputs
        BY <1>14, <2>2 DEF Wait, TestInv, TypeOK, VerdictInv
      <3>2. answer' = [input |-> data, cover |-> NoInput, kind |-> verdict] /\ data' = NoInput
        BY <1>14, <2>2 DEF Wait
      <3> QED  BY <3>1, <3>2, <2>2
               DEF Service!Next, Service!Reply, Service!Allowed, Service!Answer, Service!Kinds
    <2> QED  BY <1>14, <2>1, <2>2 DEF Wait, TestInv, VerdictInv
  <1>15. CASE Interrupt
    BY <1>15 DEF Interrupt, Goal
  <1>16. CASE CloseShutdownC
    BY <1>16 DEF CloseShutdownC, Goal
  <1>17. CASE Elapse
    BY <1>17 DEF Elapse, Goal
  <1>18. ASSUME NEW p \in Procs, ChildRead(p) PROVE Goal
    BY <1>18 DEF ChildRead, Goal
  <1>19. ASSUME NEW p \in Procs, ChildPrint(p) PROVE Goal
    BY <1>19 DEF ChildPrint, Goal
  <1>20. ASSUME NEW p \in Procs, ChildReply(p) PROVE Goal
    BY <1>20 DEF ChildReply, Goal
  <1>21. ASSUME NEW p \in Procs, ChildCrash(p) PROVE Goal
    BY <1>21 DEF ChildCrash, Exit, Goal
  <1>22. ASSUME NEW p \in Procs, ChildDies(p) PROVE Goal
    BY <1>22 DEF ChildDies, Exit, Goal
  <1>23. ASSUME NEW p \in Procs, ReaderWakes(p) PROVE Goal
    BY <1>23 DEF ReaderWakes, Goal
  <1>24. ASSUME NEW p \in Procs, ReaderReads(p) PROVE Goal
    BY <1>24 DEF ReaderReads, Goal
  <1>25. ASSUME NEW p \in Procs, ReaderEnds(p) PROVE Goal
    BY <1>25 DEF ReaderEnds, Goal
  <1>26. ASSUME NEW p \in Procs, WatcherFires(p) PROVE Goal
    BY <1>26 DEF WatcherFires, Goal
  <1>27. ASSUME NEW p \in Procs, WatcherStores(p) PROVE Goal
    BY <1>27 DEF WatcherStores, Goal
  <1>28. ASSUME NEW p \in Procs, WatcherAborts(p) PROVE Goal
    BY <1>28 DEF WatcherAborts, Signal, Goal
  <1>29. ASSUME NEW p \in Procs, WatcherKills(p) PROVE Goal
    BY <1>29 DEF WatcherKills, Signal, Goal
  <1>30. ASSUME NEW p \in Procs, WatcherEnds(p) PROVE Goal
    BY <1>30 DEF WatcherEnds, Goal
  <1>31. ASSUME NEW p \in Procs, StopperEnds(p) PROVE Goal
    BY <1>31 DEF StopperEnds, Signal, Goal
  <1>32. CASE UNCHANGED vars
    BY <1>32 DEF vars, history, Goal
  <1> QED  BY <1>1, <1>2, <1>3, <1>4, <1>5, <1>6, <1>7, <1>8, <1>9, <1>10, <1>11, <1>12, <1>13, <1>14, <1>15, <1>16, <1>17, <1>18, <1>19, <1>20, <1>21, <1>22, <1>23, <1>24, <1>25, <1>26, <1>27, <1>28, <1>29, <1>30, <1>31, <1>32
       DEF Next, Worker, Child, StdoutReader, HangWatcher

\* Testee implements TestService: whatever processes, signals and helpers do, each test
\* gets one answer about its own input, and "ok" carries the cover of that input.
THEOREM ImplementsService == Spec => ServiceSpec
  <1>1. Init => Service!Init
    BY DEF Init, Service!Init, NoAnswer, Service!NoAnswer
  <1>2. Whole /\ [Next]_vars => [Service!Next]_<<data, answer>>
    BY ServiceStep DEF Whole
  <1> QED  BY <1>1, <1>2, TesteeInvariant, PTL DEF Spec, ServiceSpec, Service!Spec
=============================================================================
