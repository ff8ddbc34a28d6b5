------------------------ MODULE CoverageWalk_proofs ------------------------
(***************************************************************************)
(* What a table promises that runs are folded into, whatever the runs.     *)
(***************************************************************************)
EXTENDS CoverageWalk, Coverage_proofs

\* The tables keep their types; the summary table stays quantized.
THEOREM TypeCorrect == Spec => []TypeOK
  <1>1. Init => TypeOK
    <2>1. ZeroTable \in [Slot -> Level]
      BY CoverageAssumption DEF CoverageAssumption, ZeroTable, Level
    <2> QED  BY <2>1, ObservedAssumption DEF Init, TypeOK, ObservedAssumption
  <1>2. TypeOK /\ [Next]_vars => TypeOK'
    <2> SUFFICES ASSUME TypeOK, [Next]_vars PROVE TypeOK'
      OBVIOUS
    <2>1. CASE Observe
      BY <2>1, ObservedAssumption DEF Observe, TypeOK, ObservedAssumption
    <2>2. CASE Fold
      BY <2>2, FoldIsJoin DEF Fold, TypeOK
    <2>3. CASE UNCHANGED vars
      BY <2>3 DEF vars, TypeOK
    <2> QED  BY <2>1, <2>2, <2>3 DEF Next
  <1> QED  BY <1>1, <1>2, PTL DEF Spec

\* The summary is exactly the quantized union of the folded runs.
THEOREM SummaryExact == Spec => []SummaryIsExact
  <1>1. Init => SummaryIsExact
    BY DEF Init, SummaryIsExact, ZeroTable
  <1>2. TypeOK /\ SummaryIsExact /\ [Next]_vars => SummaryIsExact'
    <2> SUFFICES ASSUME TypeOK, SummaryIsExact, [Next]_vars
                 PROVE  SummaryIsExact'
      OBVIOUS
    <2>1. CASE Observe
      BY <2>1 DEF Observe, SummaryIsExact
    <2>2. CASE Fold
      <3>1. \A i \in Slot :
              /\ base'[i] >= base[i]
              /\ base'[i] >= roundUpCover(cur[i])
              /\ base'[i] \in {base[i], roundUpCover(cur[i])}
        BY <2>2, FoldIsJoin DEF Fold, TypeOK
      <3>2. \A i \in Slot : base[i] \in Int /\ base'[i] \in Int
        <4>1. base' \in [Slot -> Level]
          BY <2>2, FoldIsJoin DEF Fold, TypeOK
        <4> QED  BY <4>1, LevelFixed DEF TypeOK, Byte
      <3>3. \A i \in Slot, r \in runs' : roundUpCover(r[i]) \in Int
        <4>1. runs' \subseteq Table
          BY <2>2 DEF Fold, TypeOK
        <4> QED  BY <4>1, RoundUpClosure DEF Table
      <3>4. runs' = runs \cup {cur}
        BY <2>2 DEF Fold
      <3>5. ASSUME NEW i \in Slot, NEW r \in runs'
            PROVE  roundUpCover(r[i]) <= base'[i]
        <4>1. CASE r \in runs
          <5>1. roundUpCover(r[i]) <= base[i]
            BY <4>1 DEF SummaryIsExact
          <5> QED  BY <5>1, <3>1, <3>2, <3>3
        <4>2. CASE r = cur
          BY <4>2, <3>1, <3>2, <3>3
        <4> QED  BY <4>1, <4>2, <3>4
      <3>6. ASSUME NEW i \in Slot, base'[i] # 0
            PROVE  \E r \in runs' : roundUpCover(r[i]) = base'[i]
        <4>1. CASE base'[i] = base[i]
          BY <4>1, <3>4, <3>6 DEF SummaryIsExact
        <4>2. CASE base'[i] = roundUpCover(cur[i])
          BY <4>2, <3>4
        <4> QED  BY <4>1, <4>2, <3>1
      <3> QED  BY <3>5, <3>6 DEF SummaryIsExact
    <2>3. CASE UNCHANGED vars
      BY <2>3 DEF vars, SummaryIsExact
    <2> QED  BY <2>1, <2>2, <2>3 DEF Next
  <1> QED  BY <1>1, <1>2, TypeCorrect, PTL DEF Spec

\* NewIffGrows and VectorAgrees hold in every reachable state.
THEOREM ComparisonCorrect == Spec => [](VectorAgrees /\ NewIffGrows)
  <1>1. TypeOK => VectorAgrees /\ NewIffGrows
    <2> SUFFICES ASSUME TypeOK PROVE VectorAgrees /\ NewIffGrows
      OBVIOUS
    <2>1. base \in Table
      BY LevelFixed DEF TypeOK, Table
    <2> QED  BY <2>1, VectorCompare, NoveltyIsGrowth
             DEF TypeOK, VectorAgrees, NewIffGrows
  <1> QED  BY <1>1, TypeCorrect, PTL

\* A run is judged new exactly when folding it in changes the table.
THEOREM NoveltyCorrect == Spec => []NewIffGrows
  <1>1. VectorAgrees /\ NewIffGrows => NewIffGrows
    OBVIOUS
  <1> QED  BY <1>1, ComparisonCorrect, PTL

\* MinimizedStillNew holds in every reachable state.
THEOREM MinimizationKeepsNovelty == Spec => []MinimizedStillNew
  <1>1. TypeOK => MinimizedStillNew
    BY MinimizedNovelty, ObservedAssumption
       DEF TypeOK, MinimizedStillNew, ObservedAssumption
  <1> QED  BY <1>1, TypeCorrect, PTL

\* No step lowers a slot of the summary table.
THEOREM CoverOnlyGrows == Spec => CoverGrows
  <1>1. TypeOK /\ [Next]_vars => [\A i \in Slot : base'[i] >= base[i]]_vars
    <2> SUFFICES ASSUME TypeOK, Next PROVE \A i \in Slot : base'[i] >= base[i]
      OBVIOUS
    <2>1. \A i \in Slot : base[i] \in Int
      BY LevelFixed DEF TypeOK, Byte
    <2>2. CASE Observe
      BY <2>1, <2>2 DEF Observe
    <2>3. CASE Fold
      BY <2>3, FoldIsJoin DEF Fold, TypeOK
    <2> QED  BY <2>2, <2>3 DEF Next
  <1> QED  BY <1>1, TypeCorrect, PTL DEF Spec, CoverGrows
=============================================================================
