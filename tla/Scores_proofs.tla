--------------------------- MODULE Scores_proofs ---------------------------
(***************************************************************************)
(* The ranking of the corpus, for any inputs, covers, times and depths.    *)
(* FavoredCoverAll and DrawnByWeight speak of the published corpus only;   *)
(* what makes them inductive is the state of the loops of updateScores.    *)
(***************************************************************************)
EXTENDS Scores, Coverage_proofs, FiniteSetTheorems

\* Every slot of the corpus cover is attained by an input of the corpus.
CoverBacked ==
  \A i \in Slot : corpusCover[i] # 0 =>
     \E k \in DOMAIN corpus : Reaches(corpus[k].input, i)

\* The copy that is ranked holds the inputs of the published corpus.
CopyFaithful ==
  phase # "select" =>
    /\ Len(ranked) = Len(corpus)
    /\ \A k \in 1 .. Len(corpus) : ranked[k].input = corpus[k].input

FavoredAt(i) ==
  \E k \in 1 .. Len(ranked) : ranked[k].favored /\ Reaches(ranked[k].input, i)

Unreached(i) == \A k \in 1 .. Len(ranked) : ~Reaches(ranked[k].input, i)

Best(k, i) ==
  /\ Reaches(ranked[k].input, i)
  /\ \A j \in 1 .. Len(ranked) :
       Reaches(ranked[j].input, i) => ranked[j].score <= ranked[k].score

\* A candidate reaches its slot and is the best of the inputs scanned so far.
ScanInv ==
  phase = "scan" => \A i \in Slot :
    /\ candidates[i].score # 0 =>
         /\ candidates[i].index \in 1 .. pos
         /\ Reaches(ranked[candidates[i].index].input, i)
         /\ ranked[candidates[i].index].score = candidates[i].score
    /\ \A k \in 1 .. pos :
         Reaches(ranked[k].input, i) => ranked[k].score <= candidates[i].score

\* A slot is served, or has a live candidate that reaches it ahead of the loop.
StrikeInv ==
  phase = "strike" => \A i \in Slot :
    FavoredAt(i) \/ Unreached(i) \/ (i >= pos /\ candidates[i].score # 0)

StrikeCandidates ==
  phase = "strike" => \A i \in Slot : candidates[i].score # 0 =>
    candidates[i].index \in 1 .. Len(ranked) /\ Best(candidates[i].index, i)

SumInv == phase = "sum" => \A i \in Slot : FavoredAt(i) \/ Unreached(i)

\* In the copy, only inputs that are the best of some slot are favored.
BestInv ==
  phase # "select" => \A k \in 1 .. Len(ranked) :
    ranked[k].favored => \E i \in Slot : Best(k, i)

\* The running sums of the first n inputs of c grow by the weights.
Sums(c, n) ==
  /\ \A k \in 1 .. n : c[k].runningScoreSum >= 1
  /\ \A k \in 1 .. n : \A j \in 1 .. k - 1 :
       c[j].runningScoreSum < c[k].runningScoreSum
  /\ \A k \in 1 .. n : c[k].favored =>
       c[k].runningScoreSum =
         (IF k = 1 THEN 0 ELSE c[k - 1].runningScoreSum) + c[k].score

SumsInv == /\ Sums(corpus, Len(corpus))
           /\ phase = "sum" => Sums(ranked, pos)

LoopInv == ScanInv /\ StrikeInv /\ StrikeCandidates /\ SumInv /\ BestInv

ScoresInv == /\ ScoresTypeOK /\ CoverBacked /\ CopyFaithful /\ LoopInv
             /\ FavoredCoverAll /\ FavoredBest /\ SumsInv

-----------------------------------------------------------------------------
\* The weight of a ranked input is a number.
LEMMA WeightIsNumber ==
  ASSUME NEW r \in Ranked
  PROVE  weight(r) \in Nat
  <1>1. r.score \in minScore .. maxScore /\ r.favored \in BOOLEAN
    BY DEF Ranked
  <1>2. minScore \in Nat
    BY DEF minScore
  <1>3. r.score \in Nat
    BY <1>1, <1>2
  <1> QED  BY <1>2, <1>3 DEF weight

\* The score of an input lies between the limits, whatever the averages are.
LEMMA ScoreInRange ==
  ASSUME NEW f \in Finds, NEW a, NEW b
  PROVE  scoreOf(f, a, b) \in minScore .. maxScore
  <1>1. execFactor(f.execTime, a)
          \in {<<1, 10>>, <<1, 4>>, <<1, 2>>, <<3, 1>>, <<2, 1>>, <<3, 2>>, <<1, 1>>}
    BY DEF execFactor
  <1>2. coverFactor(coverSize(f), b)
          \in {<<3, 1>>, <<2, 1>>, <<3, 2>>, <<1, 4>>, <<1, 2>>, <<2, 3>>, <<1, 1>>}
    BY DEF coverFactor
  <1>3. depthFactor(f.depth) \in Int
    <2>1. IsFiniteSet({limit \in {10, 20, 40, 80} : f.depth >= limit})
      <3>1. IsFiniteSet({10, 20, 40, 80})
        <4>1. IsFiniteSet({} \cup {10})
          BY FS_EmptySet, FS_AddElement
        <4>2. IsFiniteSet(({} \cup {10}) \cup {20})
          BY <4>1, FS_AddElement
        <4>3. IsFiniteSet((({} \cup {10}) \cup {20}) \cup {40})
          BY <4>2, FS_AddElement
        <4>4. IsFiniteSet(((({} \cup {10}) \cup {20}) \cup {40}) \cup {80})
          BY <4>3, FS_AddElement
        <4>5. ((({} \cup {10}) \cup {20}) \cup {40}) \cup {80} = {10, 20, 40, 80}
          OBVIOUS
        <4> QED  BY <4>4, <4>5
      <3> QED  BY <3>1, FS_Subset
    <2> QED  BY <2>1, FS_CardinalityType DEF depthFactor
  <1>4. resFactor(f.res) \in {1, 2}
    BY DEF resFactor
  <1> DEFINE e == execFactor(f.execTime, a)
             c == coverFactor(coverSize(f), b)
             n == defScore * e[1] * c[1] * depthFactor(f.depth) * resFactor(f.res)
             d == e[2] * c[2]
  <1>5. n \in Int /\ d \in Nat \ {0}
    <2>1. e[1] \in Int /\ e[2] \in Nat \ {0} /\ c[1] \in Int /\ c[2] \in Nat \ {0}
      BY <1>1, <1>2
    <2> HIDE DEF e, c
    <2> QED  BY <2>1, <1>3, <1>4 DEF defScore
  <1>6. n \div d \in Int
    <2> HIDE DEF n, d
    <2> QED  BY <1>5
  <1>7. \A s \in Int : clamp(s) \in minScore .. maxScore
    BY DEF clamp, minScore, maxScore
  <1>8. scoreOf(f, a, b) = clamp(n \div d)
    BY DEF scoreOf
  <1> HIDE DEF n, d
  <1> QED  BY <1>6, <1>7, <1>8

-----------------------------------------------------------------------------
(* Type correctness.                                                       *)

CandidateOK(c, n) == c \in [Slot -> [index : 0 .. n, score : 0 .. maxScore]]

\* An empty candidate table has its type, and no slot has a candidate.
LEMMA NoCandidates ==
  ASSUME NEW n \in Nat
  PROVE  CandidateOK([i \in Slot |-> NoCandidate], n)
  BY DEF CandidateOK, NoCandidate, maxScore

\* Types hold at the start and are preserved by every action.
LEMMA TypeStep ==
  ASSUME ScoresTypeOK, CopyFaithful, StrikeCandidates, [ScoresNext]_scoresVars
  PROVE  ScoresTypeOK'
  <1>0. /\ corpus \in Seq(Ranked) /\ ranked \in Seq(Ranked)
        /\ corpusCover \in [Slot -> Level] /\ corpusStale \in BOOLEAN
        /\ phase \in {"select", "scan", "strike", "sum"}
        /\ pos \in 0 .. (IF phase = "strike" THEN CoverSize ELSE Len(ranked))
        /\ CandidateOK(candidates, Len(ranked))
    BY DEF ScoresTypeOK, CandidateOK
  <1>a. CoverSize \in Nat
    BY CoverageAssumption DEF CoverageAssumption, CoverSize
  <1>1. ASSUME NEW f \in Finds, NewInput(f) PROVE ScoresTypeOK'
    <2> DEFINE r == [input |-> f, score |-> defScore, favored |-> FALSE,
                     runningScoreSum |-> ScoreSum(corpus) + defScore]
    <2>1. ScoreSum(corpus) \in Nat
      <3>1. corpus = <<>> \/ corpus[Len(corpus)] \in Ranked
        BY <1>0
      <3> QED  BY <3>1 DEF ScoreSum, Ranked
    <2>2. r \in Ranked
      BY <2>1 DEF Ranked, defScore, minScore, maxScore
    <2>3. corpus' = Append(corpus, r)
      BY <1>1 DEF NewInput
    <2>4. corpus' \in Seq(Ranked)
      <3> HIDE DEF r
      <3> QED  BY <2>2, <2>3, <1>0
    <2>5. corpusCover' \in [Slot -> Level]
      BY <1>1, <1>0, FoldIsJoin, ScoresAssumption DEF NewInput, ScoresAssumption
    <2>6. corpusStale' = TRUE /\ UNCHANGED <<phase, pos, ranked, candidates>>
      BY <1>1 DEF NewInput
    <2> QED  BY <2>4, <2>5, <2>6, <1>0 DEF ScoresTypeOK, CandidateOK
  <1>2. CASE StartUpdate
    <2>1. PICK a, b : ranked' = [k \in DOMAIN corpus |->
            [corpus[k] EXCEPT !.score = scoreOf(corpus[k].input, a, b),
                              !.favored = FALSE]]
      BY <1>2 DEF StartUpdate
    <2>2. \A k \in DOMAIN corpus : ranked'[k] \in Ranked
      <3> SUFFICES ASSUME NEW k \in DOMAIN corpus PROVE ranked'[k] \in Ranked
        OBVIOUS
      <3>1. corpus[k] \in Ranked
        BY <1>0
      <3>2. scoreOf(corpus[k].input, a, b) \in minScore .. maxScore
        BY <3>1, ScoreInRange DEF Ranked
      <3> DEFINE s == scoreOf(corpus[k].input, a, b)
      <3>3. ranked'[k] = [corpus[k] EXCEPT !.score = s, !.favored = FALSE]
        BY <2>1
      <3>4. s \in minScore .. maxScore
        BY <3>2
      <3> HIDE DEF s
      <3> QED  BY <3>1, <3>3, <3>4 DEF Ranked
    <2>3. ranked' \in Seq(Ranked)
      <3>1. ranked' = [k \in 1 .. Len(corpus) |-> ranked'[k]]
        <4>1. DOMAIN corpus = 1 .. Len(corpus)
          BY <1>0
        <4> QED  BY <2>1, <4>1
      <3>2. \A k \in 1 .. Len(corpus) : ranked'[k] \in Ranked
        BY <2>2, <1>0
      <3>3. Len(corpus) \in Nat
        BY <1>0
      <3> HIDE DEF Ranked
      <3> QED  BY <3>1, <3>2, <3>3
    <2>4. /\ pos' = 0 /\ phase' = "scan"
          /\ candidates' = [i \in Slot |-> NoCandidate]
          /\ UNCHANGED <<corpus, corpusCover, corpusStale>>
      BY <1>2 DEF StartUpdate
    <2>5. CandidateOK(candidates', Len(ranked'))
      BY <2>3, <2>4, NoCandidates
    <2>6. Len(ranked') \in Nat
      BY <2>3
    <2> QED  BY <2>3, <2>4, <2>5, <2>6, <1>0 DEF ScoresTypeOK, CandidateOK
  <1>3. CASE Scan
    <2>1. /\ phase = "scan" /\ pos < Len(ranked) /\ pos' = pos + 1
          /\ UNCHANGED <<corpus, corpusCover, corpusStale, phase, ranked>>
      BY <1>3 DEF Scan
    <2>2. pos' \in 1 .. Len(ranked)
      BY <2>1, <1>0
    <2>3. ranked[pos + 1] \in Ranked
      BY <2>1, <1>0
    <2>4. ranked[pos + 1].score \in 0 .. maxScore
      BY <2>3 DEF Ranked, minScore, maxScore
    <2>5. CandidateOK(candidates', Len(ranked))
      <3>1. candidates' = [i \in Slot |->
              IF Reaches(ranked[pos + 1].input, i)
                   /\ Better(ranked[pos + 1], candidates[i])
              THEN [index |-> pos + 1, score |-> ranked[pos + 1].score]
              ELSE candidates[i]]
        BY <1>3 DEF Scan
      <3> QED  BY <3>1, <2>1, <2>2, <2>4, <1>0 DEF CandidateOK
    <2> QED  BY <2>1, <2>2, <2>5, <1>0 DEF ScoresTypeOK, CandidateOK
  <1>4. CASE EndScan
    <2>1. /\ phase' = "strike" /\ pos' = 0
          /\ UNCHANGED <<corpus, corpusCover, corpusStale, ranked, candidates>>
      BY <1>4 DEF EndScan
    <2> QED  BY <2>1, <1>0, <1>a DEF ScoresTypeOK, CandidateOK
  <1>5. CASE Favor
    <2> DEFINE k == candidates[pos].index
    <2>1. /\ phase = "strike" /\ pos < CoverSize /\ pos' = pos + 1
          /\ ranked' = [ranked EXCEPT ![k].favored = TRUE]
          /\ UNCHANGED <<corpus, corpusCover, corpusStale, phase>>
      BY <1>5 DEF Favor
    <2>2. candidates' = [i \in Slot |->
              IF i > pos /\ Reaches(ranked[k].input, i)
              THEN [index |-> candidates[i].index, score |-> 0] ELSE candidates[i]]
      BY <1>5 DEF Favor
    <2>3. ranked' \in Seq(Ranked) /\ Len(ranked') = Len(ranked)
      <3>1. k \in 1 .. Len(ranked)
        BY <1>5, <2>1, <1>0, <1>a DEF StrikeCandidates, Slot, Favor
      <3> HIDE DEF k
      <3>2. ranked[k] \in Ranked /\ [ranked[k] EXCEPT !.favored = TRUE] \in Ranked
        <4>1. ranked[k] \in Ranked
          BY <3>1, <1>0
        <4> QED  BY <4>1 DEF Ranked
      <3>3. ranked' = [ranked EXCEPT ![k] = [ranked[k] EXCEPT !.favored = TRUE]]
        BY <2>1
      <3> DEFINE r == [ranked[k] EXCEPT !.favored = TRUE]
      <3>4. r \in Ranked /\ ranked' = [ranked EXCEPT ![k] = r]
        BY <3>2, <3>3
      <3> HIDE DEF r, Ranked
      <3> QED  BY <3>1, <3>4, <1>0
    <2>4. CandidateOK(candidates', Len(ranked))
      <3> HIDE DEF k
      <3> QED  BY <2>2, <1>0 DEF CandidateOK, maxScore
    <2>5. pos' \in 0 .. CoverSize
      BY <2>1, <1>0, <1>a
    <2> HIDE DEF k
    <2> QED  BY <2>1, <2>3, <2>4, <2>5, <1>0 DEF ScoresTypeOK, CandidateOK
  <1>6. CASE SkipSlot
    <2>1. /\ phase = "strike" /\ pos < CoverSize /\ pos' = pos + 1
          /\ UNCHANGED <<corpus, corpusCover, corpusStale, phase, ranked, candidates>>
      BY <1>6 DEF SkipSlot
    <2>2. pos' \in 0 .. CoverSize
      BY <2>1, <1>0, <1>a
    <2> QED  BY <2>1, <2>2, <1>0 DEF ScoresTypeOK, CandidateOK
  <1>7. CASE EndStrike
    <2>1. /\ phase' = "sum" /\ pos' = 0
          /\ UNCHANGED <<corpus, corpusCover, corpusStale, ranked, candidates>>
      BY <1>7 DEF EndStrike
    <2> QED  BY <2>1, <1>0 DEF ScoresTypeOK, CandidateOK
  <1>8. CASE Sum
    <2> DEFINE n == (IF pos = 0 THEN 0 ELSE ranked[pos].runningScoreSum)
                      + weight(ranked[pos + 1])
    <2>1. /\ phase = "sum" /\ pos < Len(ranked) /\ pos' = pos + 1
          /\ ranked' = [ranked EXCEPT ![pos + 1].runningScoreSum = n]
          /\ UNCHANGED <<corpus, corpusCover, corpusStale, phase, candidates>>
      BY <1>8 DEF Sum
    <2>2. pos + 1 \in 1 .. Len(ranked)
      BY <2>1, <1>0
    <2>3. n \in Nat
      <3>1. ranked[pos + 1] \in Ranked /\ (pos # 0 => ranked[pos] \in Ranked)
        BY <2>1, <1>0
      <3>2. weight(ranked[pos + 1]) \in Nat
        BY <3>1, WeightIsNumber
      <3>3. pos # 0 => ranked[pos].runningScoreSum \in Nat
        BY <3>1 DEF Ranked
      <3> QED  BY <3>2, <3>3
    <2>4. ranked' \in Seq(Ranked) /\ Len(ranked') = Len(ranked)
      <3> DEFINE r == [ranked[pos + 1] EXCEPT !.runningScoreSum = n]
      <3> HIDE DEF n
      <3>1. r \in Ranked
        <4>1. ranked[pos + 1] \in Ranked
          BY <2>2, <1>0
        <4> QED  BY <4>1, <2>3 DEF Ranked
      <3>2. ranked' = [ranked EXCEPT ![pos + 1] = r]
        BY <2>1
      <3> HIDE DEF r, Ranked
      <3> QED  BY <3>1, <3>2, <2>2, <1>0
    <2> HIDE DEF n
    <2> QED  BY <2>1, <2>2, <2>4, <1>0 DEF ScoresTypeOK, CandidateOK
  <1>9. CASE Publish
    <2>1. /\ corpus' = ranked /\ corpusStale' = FALSE /\ phase' = "select"
          /\ pos' = 0 /\ ranked' = <<>> /\ corpusCover' = corpusCover
          /\ candidates' = [i \in Slot |-> NoCandidate]
      BY <1>9 DEF Publish
    <2>2. ranked' \in Seq(Ranked) /\ Len(ranked') = 0
      BY <2>1
    <2>3. CandidateOK(candidates', Len(ranked'))
      BY <2>1, <2>2, NoCandidates
    <2>4. pos' \in 0 .. (IF phase' = "strike" THEN CoverSize ELSE Len(ranked'))
      BY <2>1, <2>2
    <2>5. corpus' \in Seq(Ranked) /\ corpusCover' \in [Slot -> Level]
          /\ corpusStale' \in BOOLEAN /\ phase' \in {"select", "scan", "strike", "sum"}
      BY <2>1, <1>0
    <2> QED  BY <2>2, <2>3, <2>4, <2>5 DEF ScoresTypeOK, CandidateOK
  <1>10. CASE UNCHANGED scoresVars
    BY <1>10, <1>0 DEF scoresVars, ScoresTypeOK, CandidateOK
  <1> QED  BY <1>1, <1>2, <1>3, <1>4, <1>5, <1>6, <1>7, <1>8, <1>9, <1>10
           DEF ScoresNext

-----------------------------------------------------------------------------
(* The favored set.                                                        *)

\* A step that keeps the published corpus keeps its cover; ranking keeps inputs.
LEMMA BackedStep ==
  ASSUME ScoresTypeOK, CoverBacked, CopyFaithful, [ScoresNext]_scoresVars
  PROVE  CoverBacked'
  <1>0. corpus \in Seq(Ranked) /\ corpusCover \in [Slot -> Level]
    BY DEF ScoresTypeOK
  <1>1. ASSUME NEW f \in Finds, NewInput(f) PROVE CoverBacked'
    <2> DEFINE r == [input |-> f, score |-> defScore, favored |-> FALSE,
                     runningScoreSum |-> ScoreSum(corpus) + defScore]
    <2>1. corpus' = Append(corpus, r) /\ corpusCover' = updateMaxCover(corpusCover, f.cover)
      BY <1>1 DEF NewInput
    <2>2. r.input = f
      OBVIOUS
    <2> HIDE DEF r
    <2>3. /\ DOMAIN corpus' = 1 .. Len(corpus) + 1
          /\ corpus'[Len(corpus) + 1] = r
          /\ \A k \in 1 .. Len(corpus) : corpus'[k] = corpus[k]
          /\ Len(corpus) \in Nat
          /\ DOMAIN corpus = 1 .. Len(corpus)
      BY <2>1, <1>0
    <2>4. f.cover \in Table
      BY ScoresAssumption DEF ScoresAssumption
    <2> SUFFICES ASSUME NEW i \in Slot, corpusCover'[i] # 0
                 PROVE  \E k \in DOMAIN corpus' :
                          /\ corpus'[k].input.cover[i] # 0
                          /\ roundUpCover(corpus'[k].input.cover[i]) = corpusCover'[i]
      BY DEF CoverBacked, Reaches
    <2>5. corpusCover'[i] \in {corpusCover[i], roundUpCover(f.cover[i])}
      BY <2>1, <2>4, <1>0, FoldIsJoin
    <2>6. CASE corpusCover'[i] = corpusCover[i]
      <3>1. PICK k \in 1 .. Len(corpus) : Reaches(corpus[k].input, i)
        BY <2>6, <2>3 DEF CoverBacked
      <3>2. corpus'[k] = corpus[k] /\ k \in DOMAIN corpus'
        BY <2>3
      <3> QED  BY <3>1, <3>2, <2>6 DEF Reaches
    <2>7. CASE corpusCover'[i] = roundUpCover(f.cover[i])
      <3>1. f.cover[i] # 0
        <4>1. roundUpCover(0) = 0
          BY DEF roundUpCover
        <4> QED  BY <4>1, <2>7
      <3>2. Len(corpus) + 1 \in DOMAIN corpus'
        BY <2>3
      <3> QED  BY <3>1, <3>2, <2>7, <2>3, <2>2 DEF Reaches
    <2> QED  BY <2>5, <2>6, <2>7
  <1>2. CASE Publish
    <2>1. corpus' = ranked /\ corpusCover' = corpusCover /\ phase = "sum"
      BY <1>2 DEF Publish
    <2>2. /\ DOMAIN ranked = 1 .. Len(ranked) /\ DOMAIN corpus = 1 .. Len(corpus)
          /\ Len(ranked) = Len(corpus)
          /\ \A k \in 1 .. Len(corpus) : ranked[k].input = corpus[k].input
      BY <1>0, <2>1 DEF ScoresTypeOK, CopyFaithful
    <2> QED  BY <2>1, <2>2 DEF CoverBacked, Reaches
  <1>3. CASE UNCHANGED <<corpus, corpusCover>>
    BY <1>3 DEF CoverBacked, Reaches
  <1> QED  BY <1>1, <1>2, <1>3
           DEF ScoresNext, scoresVars, StartUpdate, Scan, EndScan, Favor, SkipSlot,
               EndStrike, Sum

\* The copy keeps the inputs it was made of until it is published.
LEMMA CopyStep ==
  ASSUME ScoresTypeOK, CopyFaithful, StrikeCandidates, [ScoresNext]_scoresVars
  PROVE  CopyFaithful'
  <1>0. /\ corpus \in Seq(Ranked) /\ ranked \in Seq(Ranked) /\ Len(corpus) \in Nat
        /\ DOMAIN ranked = 1 .. Len(ranked) /\ DOMAIN corpus = 1 .. Len(corpus)
    BY DEF ScoresTypeOK
  <1>1. ASSUME NEW f \in Finds, NewInput(f) PROVE CopyFaithful'
    BY <1>1 DEF NewInput, CopyFaithful
  <1>2. CASE StartUpdate
    <2>1. PICK a, b : ranked' = [k \in DOMAIN corpus |->
            [corpus[k] EXCEPT !.score = scoreOf(corpus[k].input, a, b),
                              !.favored = FALSE]]
      BY <1>2 DEF StartUpdate
    <2>2. \A k \in 1 .. Len(corpus) : ranked'[k].input = corpus[k].input
      <3> SUFFICES ASSUME NEW k \in 1 .. Len(corpus)
                   PROVE  ranked'[k].input = corpus[k].input
        OBVIOUS
      <3> DEFINE s == scoreOf(corpus[k].input, a, b)
      <3>1. ranked'[k] = [corpus[k] EXCEPT !.score = s, !.favored = FALSE]
        BY <2>1, <1>0
      <3>2. corpus[k] \in Ranked
        BY <1>0
      <3> HIDE DEF s
      <3> QED  BY <3>1, <3>2 DEF Ranked
    <2>3. Len(ranked') = Len(corpus)
      <3>1. DOMAIN ranked' = 1 .. Len(corpus)
        BY <2>1, <1>0
      <3>2. ranked' \in Seq(Ranked)
        BY TypeStep DEF ScoresTypeOK
      <3> QED  BY <3>1, <3>2, <1>0
    <2>4. corpus' = corpus
      BY <1>2 DEF StartUpdate
    <2> QED  BY <2>2, <2>3, <2>4 DEF CopyFaithful
  <1>3. CASE Favor
    <2> DEFINE k == candidates[pos].index
    <2>1. /\ ranked' = [ranked EXCEPT ![k].favored = TRUE]
          /\ UNCHANGED <<corpus, phase>>
      BY <1>3 DEF Favor
    <2> HIDE DEF k
    <2>2. Len(ranked') = Len(ranked)
      BY <2>1, <1>0
    <2>3. \A j \in 1 .. Len(ranked) : ranked'[j].input = ranked[j].input
      <3>1. \A j \in 1 .. Len(ranked) : ranked[j] \in Ranked
        BY <1>0
      <3> QED  BY <2>1, <3>1, <1>0 DEF Ranked
    <2> QED  BY <2>1, <2>2, <2>3 DEF CopyFaithful
  <1>4. CASE Sum
    <2> DEFINE n == (IF pos = 0 THEN 0 ELSE ranked[pos].runningScoreSum)
                      + weight(ranked[pos + 1])
    <2>1. /\ ranked' = [ranked EXCEPT ![pos + 1].runningScoreSum = n]
          /\ UNCHANGED <<corpus, phase>>
      BY <1>4 DEF Sum
    <2> HIDE DEF n
    <2>2. Len(ranked') = Len(ranked)
      BY <2>1, <1>0
    <2>3. \A j \in 1 .. Len(ranked) : ranked'[j].input = ranked[j].input
      <3>1. \A j \in 1 .. Len(ranked) : ranked[j] \in Ranked
        BY <1>0
      <3> QED  BY <2>1, <3>1, <1>0 DEF Ranked
    <2> QED  BY <2>1, <2>2, <2>3 DEF CopyFaithful
  <1>5. CASE Publish
    BY <1>5 DEF Publish, CopyFaithful
  <1>6. CASE /\ UNCHANGED <<corpus, ranked>>
             /\ phase' \in {phase, "strike", "sum"} /\ (phase = "select" => phase' = phase)
    BY <1>6 DEF CopyFaithful
  <1>7. CASE Scan \/ EndScan \/ SkipSlot \/ EndStrike \/ UNCHANGED scoresVars
    BY <1>6, <1>7 DEF Scan, EndScan, SkipSlot, EndStrike, scoresVars
  <1> QED  BY <1>1, <1>2, <1>3, <1>4, <1>5, <1>7 DEF ScoresNext

\* Favoring an input changes nothing of the copy but its mark.
LEMMA FavorShape ==
  ASSUME ScoresTypeOK, StrikeCandidates, Favor
  PROVE  LET k == candidates[pos].index
         IN  /\ k \in 1 .. Len(ranked) /\ pos \in Slot /\ Best(k, pos)
             /\ Len(ranked') = Len(ranked)
             /\ \A j \in 1 .. Len(ranked) :
                  /\ ranked'[j].input = ranked[j].input
                  /\ ranked'[j].score = ranked[j].score
                  /\ ranked'[j].favored = (IF j = k THEN TRUE ELSE ranked[j].favored)
  <1> DEFINE k == candidates[pos].index
  <1>1. CoverSize \in Nat /\ pos \in Nat /\ pos < CoverSize /\ phase = "strike"
    BY CoverageAssumption DEF CoverageAssumption, CoverSize, Favor, ScoresTypeOK
  <1>2. pos \in Slot /\ k \in 1 .. Len(ranked) /\ Best(k, pos)
    BY <1>1 DEF StrikeCandidates, Slot, Favor
  <1>3. ranked \in Seq(Ranked) /\ ranked' = [ranked EXCEPT ![k].favored = TRUE]
    BY DEF ScoresTypeOK, Favor
  <1> HIDE DEF k
  <1>4. \A j \in 1 .. Len(ranked) : ranked[j] \in Ranked
    BY <1>3
  <1>5. Len(ranked') = Len(ranked) /\ DOMAIN ranked = 1 .. Len(ranked)
    BY <1>3
  <1>6. \A j \in 1 .. Len(ranked) :
           ranked'[j] = IF j = k THEN [ranked[j] EXCEPT !.favored = TRUE]
                                 ELSE ranked[j]
    BY <1>3, <1>5
  <1>7. \A j \in 1 .. Len(ranked) :
          /\ ranked'[j].input = ranked[j].input
          /\ ranked'[j].score = ranked[j].score
          /\ ranked'[j].favored = (IF j = k THEN TRUE ELSE ranked[j].favored)
    BY <1>4, <1>6 DEF Ranked
  <1> QED  BY <1>2, <1>5, <1>7 DEF k

\* Summing changes nothing of the copy but one running sum.
LEMMA SumShape ==
  ASSUME ScoresTypeOK, Sum
  PROVE  /\ pos + 1 \in 1 .. Len(ranked)
         /\ Len(ranked') = Len(ranked)
         /\ \A j \in 1 .. Len(ranked) :
              /\ ranked'[j].input = ranked[j].input
              /\ ranked'[j].score = ranked[j].score
              /\ ranked'[j].favored = ranked[j].favored
              /\ ranked'[j].runningScoreSum =
                   IF j = pos + 1
                   THEN (IF pos = 0 THEN 0 ELSE ranked[pos].runningScoreSum)
                          + weight(ranked[pos + 1])
                   ELSE ranked[j].runningScoreSum
  <1> DEFINE n == (IF pos = 0 THEN 0 ELSE ranked[pos].runningScoreSum)
                    + weight(ranked[pos + 1])
  <1>1. /\ ranked \in Seq(Ranked) /\ pos \in Nat /\ pos < Len(ranked)
        /\ ranked' = [ranked EXCEPT ![pos + 1].runningScoreSum = n]
    BY DEF ScoresTypeOK, Sum
  <1> HIDE DEF n
  <1>2. \A j \in 1 .. Len(ranked) : ranked[j] \in Ranked
    BY <1>1
  <1>3. Len(ranked') = Len(ranked) /\ DOMAIN ranked = 1 .. Len(ranked)
    BY <1>1
  <1>4. \A j \in 1 .. Len(ranked) :
           ranked'[j] = IF j = pos + 1 THEN [ranked[j] EXCEPT !.runningScoreSum = n]
                                       ELSE ranked[j]
    BY <1>1, <1>3
  <1>5. \A j \in 1 .. Len(ranked) :
          /\ ranked'[j].input = ranked[j].input
          /\ ranked'[j].score = ranked[j].score
          /\ ranked'[j].favored = ranked[j].favored
          /\ ranked'[j].runningScoreSum =
                IF j = pos + 1 THEN n ELSE ranked[j].runningScoreSum
    BY <1>2, <1>4 DEF Ranked
  <1>6. pos + 1 \in 1 .. Len(ranked)
    BY <1>1
  <1> QED  BY <1>3, <1>5, <1>6 DEF n

\* The loops keep what they are meant to establish.
LEMMA LoopStep ==
  ASSUME ScoresTypeOK, LoopInv, [ScoresNext]_scoresVars
  PROVE  LoopInv'
  <1>0. /\ ranked \in Seq(Ranked) /\ pos \in Nat
        /\ DOMAIN ranked = 1 .. Len(ranked) /\ Len(ranked) \in Nat
        /\ CandidateOK(candidates, Len(ranked))
    BY CoverageAssumption
       DEF ScoresTypeOK, CandidateOK, CoverageAssumption, CoverSize
  <1>a. \A j \in 1 .. Len(ranked) : ranked[j].score \in 1 .. maxScore
    <2>1. \A j \in 1 .. Len(ranked) : ranked[j] \in Ranked
      BY <1>0
    <2> QED  BY <2>1 DEF Ranked, minScore
  <1>b. \A i \in Slot : candidates[i].score \in 0 .. maxScore /\ i \in Nat
    BY <1>0 DEF CandidateOK, Slot
  <1>c. \A i \in Slot : candidates[i] = [index |-> candidates[i].index,
                                         score |-> candidates[i].score]
    BY <1>0 DEF CandidateOK
  <1>d. /\ \A x \in 1 .. maxScore : x \in Int
        /\ \A x \in 0 .. maxScore : x \in Int
    BY DEF maxScore
  <1>1. ASSUME NEW f \in Finds, NewInput(f) PROVE LoopInv'
    BY <1>1 DEF NewInput, LoopInv, ScanInv, StrikeInv, StrikeCandidates, SumInv, BestInv
  <1>2. CASE StartUpdate
    <2>1. phase' = "scan" /\ pos' = 0 /\ candidates' = [i \in Slot |-> NoCandidate]
      BY <1>2 DEF StartUpdate
    <2>2. ScanInv'
      BY <2>1 DEF ScanInv, NoCandidate
    <2>3. \A k \in 1 .. Len(ranked') : ranked'[k].favored = FALSE
      <3>1. PICK a, b : ranked' = [k \in DOMAIN corpus |->
              [corpus[k] EXCEPT !.score = scoreOf(corpus[k].input, a, b),
                                !.favored = FALSE]]
        BY <1>2 DEF StartUpdate
      <3>2. corpus \in Seq(Ranked) /\ Len(corpus) \in Nat
            /\ DOMAIN corpus = 1 .. Len(corpus)
        BY DEF ScoresTypeOK
      <3>3. Len(ranked') = Len(corpus)
        <4>1. DOMAIN ranked' = 1 .. Len(corpus)
          BY <3>1, <3>2
        <4> HIDE DEF Ranked
        <4>2. ranked' = [k \in 1 .. Len(corpus) |-> ranked'[k]]
          BY <3>1, <3>2
        <4> QED  BY <4>1, <4>2, <3>2
      <3> SUFFICES ASSUME NEW k \in 1 .. Len(corpus) PROVE ranked'[k].favored = FALSE
        BY <3>3
      <3> DEFINE s == scoreOf(corpus[k].input, a, b)
      <3>4. ranked'[k] = [corpus[k] EXCEPT !.score = s, !.favored = FALSE]
        BY <3>1, <3>2
      <3>5. corpus[k] \in Ranked
        BY <3>2
      <3> HIDE DEF s
      <3> QED  BY <3>4, <3>5 DEF Ranked
    <2> QED  BY <2>1, <2>2, <2>3
             DEF LoopInv, StrikeInv, StrikeCandidates, SumInv, BestInv
  <1>3. CASE Scan
    <2>1. /\ phase = "scan" /\ pos < Len(ranked) /\ pos' = pos + 1
          /\ UNCHANGED <<corpusCover, phase, ranked>>
      BY <1>3 DEF Scan
    <2>2. \A i \in Slot : candidates'[i] =
            IF Reaches(ranked[pos + 1].input, i)
                 /\ candidates[i].score < ranked[pos + 1].score
            THEN [index |-> pos + 1, score |-> ranked[pos + 1].score]
            ELSE candidates[i]
      BY <1>3 DEF Scan, Better
    <2>3. ScanInv'
      <3> SUFFICES ASSUME NEW i \in Slot
                   PROVE  /\ candidates'[i].score # 0 =>
                               /\ candidates'[i].index \in 1 .. pos + 1
                               /\ Reaches(ranked[candidates'[i].index].input, i)
                               /\ ranked[candidates'[i].index].score = candidates'[i].score
                          /\ \A k \in 1 .. pos + 1 :
                               Reaches(ranked[k].input, i) =>
                                 ranked[k].score <= candidates'[i].score
        BY <2>1 DEF ScanInv, Reaches
      <3>1. /\ candidates[i].score # 0 =>
                 /\ candidates[i].index \in 1 .. pos
                 /\ Reaches(ranked[candidates[i].index].input, i)
                 /\ ranked[candidates[i].index].score = candidates[i].score
            /\ \A k \in 1 .. pos :
                 Reaches(ranked[k].input, i) => ranked[k].score <= candidates[i].score
        BY <2>1 DEF LoopInv, ScanInv
      <3>2. /\ pos + 1 \in 1 .. Len(ranked) /\ ranked[pos + 1].score \in 1 .. maxScore
            /\ \A k \in 1 .. pos + 1 : k \in 1 .. pos \/ k = pos + 1
            /\ \A k \in 1 .. pos : k \in 1 .. Len(ranked) /\ ranked[k].score \in Int
            /\ candidates[i].score \in Int
        BY <2>1, <1>0, <1>a, <1>b
      <3>3. CASE Reaches(ranked[pos + 1].input, i)
                   /\ candidates[i].score < ranked[pos + 1].score
        <4>1. candidates'[i].index = pos + 1 /\ candidates'[i].score = ranked[pos + 1].score
          BY <2>2, <3>3
        <4>2. \A k \in 1 .. pos :
                Reaches(ranked[k].input, i) => ranked[k].score <= ranked[pos + 1].score
          BY <3>1, <3>2, <3>3
        <4> QED  BY <4>1, <4>2, <3>2, <3>3, <1>0
      <3>4. CASE ~(Reaches(ranked[pos + 1].input, i)
                     /\ candidates[i].score < ranked[pos + 1].score)
        <4>1. candidates'[i] = candidates[i]
          BY <2>2, <3>4
        <4>2. candidates'[i].score # 0 =>
                 /\ candidates'[i].index \in 1 .. pos + 1
                 /\ Reaches(ranked[candidates'[i].index].input, i)
                 /\ ranked[candidates'[i].index].score = candidates'[i].score
          BY <4>1, <3>1, <1>0
        <4>3. ASSUME NEW k \in 1 .. pos + 1, Reaches(ranked[k].input, i)
              PROVE  ranked[k].score <= candidates'[i].score
          <5>1. CASE k = pos + 1
            <6>1. Reaches(ranked[pos + 1].input, i)
              BY <5>1, <4>3
            <6>2. ~(candidates[i].score < ranked[pos + 1].score)
              BY <6>1, <3>4
            <6>3. ranked[pos + 1].score \in Int /\ candidates[i].score \in Int
              <7>1. pos + 1 \in 1 .. Len(ranked)
                BY <3>2
              <7>2. ranked[pos + 1].score \in 1 .. maxScore
                BY <7>1, <1>a
              <7>3. candidates[i].score \in 0 .. maxScore
                BY <1>b
              <7> QED  BY <7>2, <7>3, <1>d
            <6>4. ranked[pos + 1].score <= candidates[i].score
              BY <6>2, <6>3
            <6> QED  BY <6>4, <5>1, <4>1
          <5>2. CASE k \in 1 .. pos
            BY <5>2, <4>1, <4>3, <3>1
          <5> QED  BY <5>1, <5>2, <3>2
        <4> QED  BY <4>2, <4>3
      <3> QED  BY <3>3, <3>4
    <2>4. BestInv'
      BY <2>1 DEF LoopInv, BestInv, Best, Reaches
    <2> QED  BY <2>1, <2>3, <2>4 DEF LoopInv, StrikeInv, StrikeCandidates, SumInv
  <1>4. CASE EndScan
    <2>1. /\ phase = "scan" /\ pos = Len(ranked) /\ phase' = "strike" /\ pos' = 0
          /\ UNCHANGED <<corpusCover, ranked, candidates>>
      BY <1>4 DEF EndScan
    <2>2. StrikeCandidates'
      BY <2>1, <1>0 DEF LoopInv, ScanInv, StrikeCandidates, Best, Reaches
    <2>3. StrikeInv'
      <3> SUFFICES ASSUME NEW i \in Slot PROVE Unreached(i) \/ candidates[i].score # 0
        BY <2>1, <1>b DEF StrikeInv, FavoredAt, Unreached, Reaches
      <3> QED  BY <2>1, <1>a, <1>b DEF LoopInv, ScanInv, Unreached
    <2>4. BestInv'
      BY <2>1 DEF LoopInv, BestInv, Best, Reaches
    <2> QED  BY <2>1, <2>2, <2>3, <2>4 DEF LoopInv, ScanInv, SumInv
  <1>5. CASE Favor
    <2> DEFINE k == candidates[pos].index
    <2>1. /\ k \in 1 .. Len(ranked) /\ pos \in Slot /\ Best(k, pos)
          /\ Len(ranked') = Len(ranked)
          /\ \A j \in 1 .. Len(ranked) :
               /\ ranked'[j].input = ranked[j].input
               /\ ranked'[j].score = ranked[j].score
               /\ ranked'[j].favored = (IF j = k THEN TRUE ELSE ranked[j].favored)
      BY <1>5, FavorShape DEF LoopInv
    <2>2. /\ phase = "strike" /\ pos' = pos + 1
          /\ UNCHANGED <<corpusCover, phase>>
          /\ \A i \in Slot : candidates'[i] =
               IF i > pos /\ Reaches(ranked[k].input, i)
               THEN [index |-> candidates[i].index, score |-> 0] ELSE candidates[i]
      BY <1>5 DEF Favor
    <2> HIDE DEF k
    <2>3. \A i \in Slot, j \in 1 .. Len(ranked) : Best(j, i) => Best(j, i)'
      BY <2>1, <2>2 DEF Best, Reaches
    <2>4. \A i \in Slot : (FavoredAt(i) \/ Reaches(ranked[k].input, i)) => FavoredAt(i)'
      BY <2>1, <2>2 DEF FavoredAt, Reaches
    <2>5. \A i \in Slot : Unreached(i) => Unreached(i)'
      BY <2>1, <2>2 DEF Unreached, Reaches
    <2>6. StrikeCandidates'
      <3> SUFFICES ASSUME NEW i \in Slot, candidates'[i].score # 0
                   PROVE  (/\ candidates[i].index \in 1 .. Len(ranked)
                           /\ Best(candidates[i].index, i))'
        BY DEF StrikeCandidates
      <3>1. candidates'[i] = candidates[i]
        <4>1. ASSUME i > pos, Reaches(ranked[k].input, i) PROVE FALSE
          <5>1. candidates'[i] = [index |-> candidates[i].index, score |-> 0]
            BY <4>1, <2>2
          <5>2. candidates'[i].score = 0
            BY <5>1
          <5> QED  BY <5>2
        <4> QED  BY <4>1, <2>2
      <3>2. candidates[i].index \in 1 .. Len(ranked) /\ Best(candidates[i].index, i)
        BY <2>2, <3>1 DEF LoopInv, StrikeCandidates
      <3>3. Best(candidates[i].index, i)'
        BY <3>1, <3>2, <2>3
      <3> QED  BY <3>1, <3>2, <3>3, <2>1
    <2>7. StrikeInv'
      <3> SUFFICES ASSUME NEW i \in Slot
                   PROVE  \/ FavoredAt(i)' \/ Unreached(i)'
                          \/ i >= pos + 1 /\ candidates'[i].score # 0
        BY <2>2 DEF StrikeInv
      <3>1. CASE i >= pos /\ candidates[i].score # 0 /\ ~Reaches(ranked[k].input, i)
        <4>1. i # pos
          BY <2>1, <3>1 DEF Best
        <4>2. i >= pos + 1
          BY <4>1, <3>1, <1>b, <1>0
        <4>3. candidates'[i] = candidates[i]
          BY <3>1, <2>2
        <4> QED  BY <4>2, <4>3, <3>1
      <3> QED  BY <3>1, <2>2, <2>4, <2>5 DEF LoopInv, StrikeInv
    <2>8. BestInv'
      <3> SUFFICES ASSUME NEW j \in 1 .. Len(ranked), ranked'[j].favored
                   PROVE  \E i \in Slot : Best(j, i)'
        BY <2>1 DEF BestInv
      <3>1. \E i \in Slot : Best(j, i)
        BY <2>1, <2>2 DEF LoopInv, BestInv
      <3> QED  BY <3>1, <2>3
    <2> QED  BY <2>2, <2>6, <2>7, <2>8 DEF LoopInv, ScanInv, SumInv
  <1>6. CASE SkipSlot
    <2>1. /\ phase = "strike" /\ pos' = pos + 1 /\ candidates[pos].score = 0
          /\ UNCHANGED <<corpusCover, phase, ranked, candidates>>
      BY <1>6 DEF SkipSlot
    <2>2. StrikeInv'
      <3> SUFFICES ASSUME NEW i \in Slot
                   PROVE  \/ FavoredAt(i) \/ Unreached(i)
                          \/ i >= pos + 1 /\ candidates[i].score # 0
        BY <2>1 DEF StrikeInv, FavoredAt, Unreached, Reaches
      <3> QED  BY <2>1, <1>b, <1>0 DEF LoopInv, StrikeInv
    <2> QED  BY <2>1, <2>2
             DEF LoopInv, ScanInv, SumInv, StrikeCandidates, BestInv, Best, Reaches
  <1>7. CASE EndStrike
    <2>1. /\ phase = "strike" /\ pos = CoverSize /\ phase' = "sum"
          /\ UNCHANGED <<corpusCover, ranked, candidates>>
      BY <1>7 DEF EndStrike
    <2>2. \A i \in Slot : i < pos
      BY <2>1, CoverageAssumption DEF Slot, CoverageAssumption, CoverSize
    <2>3. SumInv'
      <3> SUFFICES ASSUME NEW i \in Slot PROVE FavoredAt(i) \/ Unreached(i)
        BY <2>1 DEF SumInv, FavoredAt, Unreached, Reaches
      <3> QED  BY <2>1, <2>2, <1>b, <1>0 DEF LoopInv, StrikeInv
    <2> QED  BY <2>1, <2>3
             DEF LoopInv, ScanInv, StrikeInv, StrikeCandidates, BestInv, Best, Reaches
  <1>8. CASE Sum
    <2>1. /\ Len(ranked') = Len(ranked)
          /\ \A j \in 1 .. Len(ranked) :
               /\ ranked'[j].input = ranked[j].input
               /\ ranked'[j].score = ranked[j].score
               /\ ranked'[j].favored = ranked[j].favored
      BY <1>8, SumShape
    <2>2. phase = "sum" /\ UNCHANGED <<corpusCover, phase>>
      BY <1>8 DEF Sum
    <2>3. SumInv'
      BY <2>1, <2>2 DEF LoopInv, SumInv, FavoredAt, Unreached, Reaches
    <2>4. BestInv'
      BY <2>1, <2>2 DEF LoopInv, BestInv, Best, Reaches
    <2> QED  BY <2>2, <2>3, <2>4 DEF LoopInv, ScanInv, StrikeInv, StrikeCandidates
  <1>9. CASE Publish
    BY <1>9 DEF Publish, LoopInv, ScanInv, StrikeInv, StrikeCandidates, SumInv, BestInv
  <1>10. CASE UNCHANGED scoresVars
    BY <1>10 DEF scoresVars, LoopInv, ScanInv, StrikeInv, StrikeCandidates, SumInv,
                 BestInv, Best, FavoredAt, Unreached, Reaches
  <1> QED  BY <1>1, <1>2, <1>3, <1>4, <1>5, <1>6, <1>7, <1>8, <1>9, <1>10
           DEF ScoresNext

\* Publishing a ranking publishes favored inputs for every slot of the cover,
\* each of them the best of a slot.
LEMMA FavoredStep ==
  ASSUME ScoresInv, [ScoresNext]_scoresVars
  PROVE  FavoredCoverAll' /\ FavoredBest'
  <1>1. ASSUME NEW f \in Finds, NewInput(f) PROVE FavoredCoverAll' /\ FavoredBest'
    BY <1>1 DEF NewInput, FavoredCoverAll, FavoredBest
  <1>2. CASE Publish
    <2>1. corpus' = ranked /\ corpusCover' = corpusCover /\ phase = "sum"
      BY <1>2 DEF Publish
    <2>2. /\ DOMAIN ranked = 1 .. Len(ranked) /\ DOMAIN corpus = 1 .. Len(corpus)
          /\ Len(ranked) = Len(corpus)
          /\ \A k \in 1 .. Len(corpus) : ranked[k].input = corpus[k].input
      <3>1. ranked \in Seq(Ranked) /\ corpus \in Seq(Ranked)
        BY DEF ScoresInv, ScoresTypeOK
      <3> QED  BY <3>1, <2>1 DEF ScoresInv, CopyFaithful
    <2>3. FavoredCoverAll'
      <3> SUFFICES ASSUME NEW i \in Slot, corpusCover[i] # 0 PROVE FavoredAt(i)
        BY <2>1, <2>2 DEF FavoredCoverAll, FavoredAt, Reaches
      <3>1. ~Unreached(i)
        BY <2>2 DEF ScoresInv, CoverBacked, Unreached
      <3> QED  BY <3>1, <2>1 DEF ScoresInv, LoopInv, SumInv
    <2>4. FavoredBest'
      <3>1. BestInv
        BY <2>1 DEF ScoresInv, LoopInv
      <3>2. (\E k \in DOMAIN corpus : corpus[k].favored)' =>
              \E k \in DOMAIN ranked : ranked[k].favored
        BY <2>1
      <3> QED  BY <2>1, <2>2, <3>1 DEF BestInv, Best, FavoredBest, Reaches
    <2> QED  BY <2>3, <2>4
  <1>3. CASE UNCHANGED <<corpus, corpusCover, corpusStale>>
    BY <1>3 DEF ScoresInv, FavoredCoverAll, FavoredBest, Reaches
  <1> QED  BY <1>1, <1>2, <1>3
           DEF ScoresNext, scoresVars, StartUpdate, Scan, EndScan, Favor, SkipSlot,
               EndStrike, Sum

-----------------------------------------------------------------------------
(* The running sums.                                                       *)

\* The running sums keep growing by at least one from input to input.
LEMMA SumsStep ==
  ASSUME ScoresTypeOK, SumsInv, [ScoresNext]_scoresVars
  PROVE  SumsInv'
  <1>0. /\ corpus \in Seq(Ranked) /\ Len(corpus) \in Nat
        /\ DOMAIN corpus = 1 .. Len(corpus) /\ ranked \in Seq(Ranked) /\ pos \in Nat
    BY CoverageAssumption DEF ScoresTypeOK, CoverageAssumption, CoverSize
  <1>1. ASSUME NEW f \in Finds, NewInput(f) PROVE SumsInv'
    <2> DEFINE r == [input |-> f, score |-> defScore, favored |-> FALSE,
                     runningScoreSum |-> ScoreSum(corpus) + defScore]
    <2>1. corpus' = Append(corpus, r) /\ phase' = "select"
      BY <1>1 DEF NewInput
    <2>2. r.runningScoreSum = ScoreSum(corpus) + 10 /\ r.favored = FALSE
      BY DEF defScore
    <2> HIDE DEF r
    <2>3. /\ Len(corpus') = Len(corpus) + 1 /\ corpus'[Len(corpus) + 1] = r
          /\ \A k \in 1 .. Len(corpus) : corpus'[k] = corpus[k]
      BY <2>1, <1>0
    <2>4. \A k \in 1 .. Len(corpus) : corpus[k].runningScoreSum \in Nat
      <3>1. \A k \in 1 .. Len(corpus) : corpus[k] \in Ranked
        BY <1>0
      <3> QED  BY <3>1 DEF Ranked
    <2>5. corpus = <<>> \/ Len(corpus) \in 1 .. Len(corpus)
      BY <1>0
    <2>6. ScoreSum(corpus) \in Nat
      BY <2>4, <2>5 DEF ScoreSum
    <2>7. \A k \in 1 .. Len(corpus) : corpus[k].runningScoreSum <= ScoreSum(corpus)
      <3> SUFFICES ASSUME NEW k \in 1 .. Len(corpus)
                   PROVE  corpus[k].runningScoreSum <= ScoreSum(corpus)
        OBVIOUS
      <3>1. corpus # <<>> /\ ScoreSum(corpus) = corpus[Len(corpus)].runningScoreSum
        BY <1>0 DEF ScoreSum
      <3>2. k = Len(corpus) \/ k \in 1 .. Len(corpus) - 1
        <4>1. Len(corpus) \in Nat
          BY <1>0
        <4> QED  BY <4>1
      <3>3. k # Len(corpus) =>
              corpus[k].runningScoreSum < corpus[Len(corpus)].runningScoreSum
        BY <3>1, <3>2, <2>5 DEF SumsInv, Sums
      <3> QED  BY <3>1, <3>3, <2>4, <2>5
    <2> DEFINE n == Len(corpus)
    <2>8. \A k \in 1 .. n + 1 : k \in 1 .. n \/ k = n + 1
      BY <1>0
    <2>9. \A k \in 1 .. n + 1 : corpus'[k].runningScoreSum >= 1
      BY <2>2, <2>3, <2>6, <2>8 DEF SumsInv, Sums
    <2>10. ASSUME NEW k \in 1 .. n + 1, NEW j \in 1 .. k - 1
           PROVE  corpus'[j].runningScoreSum < corpus'[k].runningScoreSum
      <3>1. j \in 1 .. n
        BY <1>0
      <3>2. CASE k = n + 1
        BY <3>1, <3>2, <2>2, <2>3, <2>4, <2>6, <2>7
      <3>3. CASE k \in 1 .. n
        BY <3>1, <3>3, <2>3 DEF SumsInv, Sums
      <3> QED  BY <3>2, <3>3, <2>8
    <2>11. ASSUME NEW k \in 1 .. n + 1, corpus'[k].favored
           PROVE  corpus'[k].runningScoreSum =
                    (IF k = 1 THEN 0 ELSE corpus'[k - 1].runningScoreSum)
                      + corpus'[k].score
      <3>1. k \in 1 .. n
        BY <2>2, <2>3, <2>8, <2>11
      <3>2. k # 1 => k - 1 \in 1 .. n
        BY <3>1, <1>0
      <3> QED  BY <3>1, <3>2, <2>3, <2>11 DEF SumsInv, Sums
    <2>12. Sums(corpus', n + 1)
      BY <2>9, <2>10, <2>11 DEF Sums
    <2> QED  BY <2>12, <2>3, <2>1 DEF SumsInv
  <1>2. CASE Sum
    <2>1. /\ pos + 1 \in 1 .. Len(ranked)
          /\ \A j \in 1 .. Len(ranked) :
               /\ ranked'[j].score = ranked[j].score
               /\ ranked'[j].favored = ranked[j].favored
               /\ ranked'[j].runningScoreSum =
                    IF j = pos + 1
                    THEN (IF pos = 0 THEN 0 ELSE ranked[pos].runningScoreSum)
                           + weight(ranked[pos + 1])
                    ELSE ranked[j].runningScoreSum
      BY <1>2, SumShape
    <2>2. phase = "sum" /\ pos' = pos + 1 /\ UNCHANGED <<corpus, phase>>
      BY <1>2 DEF Sum
    <2>3. \A j \in 1 .. pos : j \in 1 .. Len(ranked) /\ j # pos + 1
      BY <2>1, <1>0
    <2>4. \A j \in 1 .. Len(ranked) :
            ranked[j].runningScoreSum \in Nat /\ ranked[j].score \in 1 .. maxScore
      <3>1. \A j \in 1 .. Len(ranked) : ranked[j] \in Ranked
        BY <1>0
      <3> QED  BY <3>1 DEF Ranked, minScore
    <2>5. weight(ranked[pos + 1]) \in Nat /\ weight(ranked[pos + 1]) >= 1
      <3>1. ranked[pos + 1].score \in 1 .. maxScore
        BY <2>1, <2>4
      <3>2. \A x \in 1 .. maxScore : x \in Nat /\ x >= 1
        BY DEF maxScore
      <3>3. weight(ranked[pos + 1]) \in {1, ranked[pos + 1].score}
        BY DEF weight, minScore
      <3> QED  BY <3>1, <3>2, <3>3
    <2>6. Sums(ranked, pos)
      BY <2>2 DEF SumsInv
    <2> DEFINE w == weight(ranked[pos + 1])
               old == IF pos = 0 THEN 0 ELSE ranked[pos].runningScoreSum
    <2>7. old \in Nat /\ \A j \in 1 .. pos : ranked[j].runningScoreSum <= old
      <3>1. old \in Nat
        BY <2>3, <2>4, <1>0
      <3>2. \A j \in 1 .. pos : ranked[j].runningScoreSum <= old
        <4> SUFFICES ASSUME NEW j \in 1 .. pos PROVE ranked[j].runningScoreSum <= old
          OBVIOUS
        <4>1. pos # 0 /\ pos \in 1 .. pos /\ (j = pos \/ j \in 1 .. pos - 1)
          BY <1>0
        <4>2. j # pos => ranked[j].runningScoreSum < ranked[pos].runningScoreSum
          BY <4>1, <2>6 DEF Sums
        <4> QED  BY <4>1, <4>2, <2>3, <2>4
      <3> QED  BY <3>1, <3>2
    <2>8. ranked'[pos + 1].runningScoreSum = old + w
      BY <2>1
    <2>9. \A j \in 1 .. pos : ranked'[j].runningScoreSum = ranked[j].runningScoreSum
      BY <2>1, <2>3
    <2>10. \A k \in 1 .. pos + 1 : k \in 1 .. pos \/ k = pos + 1
      BY <1>0
    <2>11. w \in Nat /\ w >= 1
      BY <2>5
    <2>12. ranked[pos + 1].favored => w = ranked[pos + 1].score
      BY DEF weight
    <2> HIDE DEF w
    <2>13. \A k \in 1 .. pos + 1 : ranked'[k].runningScoreSum >= 1
      BY <2>6, <2>7, <2>8, <2>9, <2>10, <2>11 DEF Sums
    <2>14. ASSUME NEW k \in 1 .. pos + 1, NEW j \in 1 .. k - 1
           PROVE  ranked'[j].runningScoreSum < ranked'[k].runningScoreSum
      <3>1. j \in 1 .. pos
        BY <1>0
      <3>2. CASE k = pos + 1
        <4>1. ranked[j].runningScoreSum \in Nat /\ ranked[j].runningScoreSum <= old
          BY <3>1, <2>3, <2>4, <2>7
        <4> HIDE DEF old
        <4> QED  BY <4>1, <3>1, <3>2, <2>7, <2>8, <2>9, <2>11
      <3>3. CASE k \in 1 .. pos
        BY <3>1, <3>3, <2>6, <2>9 DEF Sums
      <3> QED  BY <3>2, <3>3, <2>10
    <2>15. ASSUME NEW k \in 1 .. pos + 1, ranked'[k].favored
           PROVE  ranked'[k].runningScoreSum =
                    (IF k = 1 THEN 0 ELSE ranked'[k - 1].runningScoreSum)
                      + ranked'[k].score
      <3>1. CASE k = pos + 1
        <4>1. ranked'[k].score = w
          BY <3>1, <2>1, <2>12, <2>15
        <4>2. pos # 0 => k - 1 \in 1 .. pos /\ k - 1 = pos
          BY <3>1, <1>0
        <4>3. old = IF k = 1 THEN 0 ELSE ranked'[k - 1].runningScoreSum
          BY <4>2, <3>1, <2>9, <1>0
        <4> QED  BY <4>1, <4>3, <3>1, <2>8
      <3>2. CASE k \in 1 .. pos
        <4>1. k # 1 => k - 1 \in 1 .. pos
          BY <3>2, <1>0
        <4>2. ranked'[k].favored = ranked[k].favored /\ ranked'[k].score = ranked[k].score
          BY <3>2, <2>1, <2>3
        <4> QED  BY <4>1, <4>2, <3>2, <2>6, <2>9, <2>15 DEF Sums
      <3> QED  BY <3>1, <3>2, <2>10
    <2>16. Sums(ranked', pos + 1)
      BY <2>13, <2>14, <2>15 DEF Sums
    <2> QED  BY <2>16, <2>2 DEF SumsInv, Sums
  <1>3. CASE EndStrike
    <2>1. corpus' = corpus /\ pos' = 0
      BY <1>3 DEF EndStrike
    <2>2. Sums(ranked', 0)
      BY DEF Sums
    <2> QED  BY <2>1, <2>2 DEF SumsInv
  <1>4. CASE Publish
    BY <1>4 DEF Publish, SumsInv
  <1>5. CASE UNCHANGED corpus /\ phase' # "sum"
    BY <1>5 DEF SumsInv
  <1>6. CASE StartUpdate \/ Scan \/ EndScan \/ Favor \/ SkipSlot
    BY <1>5, <1>6 DEF StartUpdate, Scan, EndScan, Favor, SkipSlot
  <1>7. CASE UNCHANGED scoresVars
    BY <1>7 DEF SumsInv, scoresVars
  <1> QED  BY <1>1, <1>2, <1>3, <1>4, <1>6, <1>7 DEF ScoresNext

-----------------------------------------------------------------------------
\* The invariant the ranking rests on.
THEOREM RankingInvariant == ScoresSpec => []ScoresInv
  <1>1. ScoresInit => ScoresInv
    <2> SUFFICES ASSUME ScoresInit PROVE ScoresInv
      OBVIOUS
    <2>1. ZeroTable \in [Slot -> Level]
      BY CoverageAssumption DEF CoverageAssumption, ZeroTable, Level
    <2>2. CandidateOK(candidates, 0)
      BY NoCandidates DEF ScoresInit
    <2>3. ScoresTypeOK
      <3>1. <<>> \in Seq(Ranked) /\ Len(<<>>) = 0
        OBVIOUS
      <3>2. pos \in 0 .. (IF phase = "strike" THEN CoverSize ELSE Len(ranked))
        BY <3>1 DEF ScoresInit
      <3> QED  BY <2>1, <2>2, <3>1, <3>2 DEF ScoresInit, ScoresTypeOK, CandidateOK
    <2>4. CoverBacked /\ CopyFaithful /\ LoopInv
      BY DEF ScoresInit, CoverBacked, CopyFaithful, LoopInv, ScanInv, StrikeInv,
             StrikeCandidates, SumInv, BestInv, ZeroTable
    <2>5. FavoredCoverAll /\ FavoredBest /\ SumsInv
      BY DEF ScoresInit, FavoredCoverAll, FavoredBest, SumsInv, Sums, ZeroTable
    <2> QED  BY <2>3, <2>4, <2>5 DEF ScoresInv
  <1>2. ScoresInv /\ [ScoresNext]_scoresVars => ScoresInv'
    BY TypeStep, BackedStep, CopyStep, LoopStep, FavoredStep, SumsStep
       DEF ScoresInv, LoopInv
  <1> QED  BY <1>1, <1>2, PTL DEF ScoresSpec

\* Corpora, candidates and loop positions keep their types.
THEOREM RankingTyped == ScoresSpec => []ScoresTypeOK
  BY RankingInvariant, PTL DEF ScoresInv

\* Striking candidates out loses no slot, and no input is favored without being
\* the best of some slot, for any corpus and any scores.
THEOREM FavoredSetCorrect == ScoresSpec => []FavoredSetRight
  BY RankingInvariant, PTL DEF ScoresInv, FavoredSetRight

\* Every input has its own, non-empty range of the random numbers, as long as
\* its score when it is favored.
THEOREM DrawsFollowScores == ScoresSpec => []DrawnByWeight
  <1>1. ScoresTypeOK /\ SumsInv => DrawnByWeight
    <2> SUFFICES ASSUME ScoresTypeOK, SumsInv, NEW k \in DOMAIN corpus
                 PROVE  LET before == IF k = 1 THEN 0
                                      ELSE corpus[k - 1].runningScoreSum
                        IN  /\ before < corpus[k].runningScoreSum
                            /\ corpus[k].favored =>
                                 corpus[k].runningScoreSum = before + corpus[k].score
                            /\ \A w \in before .. corpus[k].runningScoreSum - 1 :
                                 generate(corpus, w) = k
      BY DEF DrawnByWeight
    <2> DEFINE before == IF k = 1 THEN 0 ELSE corpus[k - 1].runningScoreSum
               sum(j) == corpus[j].runningScoreSum
    <2>1. /\ corpus \in Seq(Ranked) /\ Len(corpus) \in Nat
          /\ DOMAIN corpus = 1 .. Len(corpus)
      BY DEF ScoresTypeOK
    <2>2. \A j \in 1 .. Len(corpus) : sum(j) \in Nat
      <3>1. \A j \in 1 .. Len(corpus) : corpus[j] \in Ranked
        BY <2>1
      <3> QED  BY <3>1 DEF Ranked
    <2>3. /\ \A j \in 1 .. Len(corpus) : sum(j) >= 1
          /\ \A j \in 1 .. Len(corpus) : \A i \in 1 .. j - 1 : sum(i) < sum(j)
      BY DEF SumsInv, Sums
    <2>4. k # 1 => k - 1 \in 1 .. k - 1 /\ k - 1 \in 1 .. Len(corpus)
      BY <2>1
    <2>5. before < sum(k) /\ before \in Nat
      BY <2>1, <2>2, <2>3, <2>4
    <2>6. corpus[k].favored => sum(k) = before + corpus[k].score
      BY <2>1 DEF SumsInv, Sums
    <2>7. ASSUME NEW w \in before .. sum(k) - 1
          PROVE  generate(corpus, w) = k
      <3> DEFINE P(x) == sum(x) > w /\ \A j \in 1 .. x - 1 : sum(j) <= w
      <3>1. \A j \in 1 .. k - 1 : sum(j) <= before
        <4> SUFFICES ASSUME NEW j \in 1 .. k - 1 PROVE sum(j) <= before
          OBVIOUS
        <4>1. k # 1 /\ (j = k - 1 \/ j \in 1 .. (k - 1) - 1) /\ j \in 1 .. Len(corpus)
          BY <2>1
        <4>2. j # k - 1 => sum(j) < sum(k - 1)
          BY <4>1, <2>3, <2>4
        <4> QED  BY <4>1, <4>2, <2>2, <2>4
      <3>2. w \in Nat /\ w < sum(k) /\ before <= w
        BY <2>1, <2>2, <2>5
      <3> HIDE DEF before
      <3>3. P(k)
        <4>1. \A j \in 1 .. k - 1 : j \in 1 .. Len(corpus)
          BY <2>1
        <4> QED  BY <4>1, <3>1, <3>2, <2>1, <2>2, <2>5
      <3>4. ASSUME NEW x \in DOMAIN corpus, P(x) PROVE x = k
        <4>1. CASE x < k
          <5>1. x \in 1 .. k - 1 /\ x \in 1 .. Len(corpus)
            BY <4>1, <2>1
          <5>2. sum(x) <= w
            BY <5>1, <3>3
          <5> QED  BY <5>1, <5>2, <3>4, <3>2, <2>2
        <4>2. CASE k < x
          <5>1. k \in 1 .. x - 1 /\ k \in 1 .. Len(corpus)
            BY <4>2, <2>1
          <5>2. sum(k) <= w
            BY <5>1, <3>4
          <5> QED  BY <5>1, <5>2, <3>2, <2>2
        <4> QED  BY <4>1, <4>2, <2>1
      <3>5. generate(corpus, w) = CHOOSE x \in DOMAIN corpus : P(x)
        BY DEF generate
      <3> HIDE DEF P
      <3> QED  BY <3>3, <3>4, <3>5
    <2> QED  BY <2>5, <2>6, <2>7
  <1> QED  BY <1>1, RankingInvariant, PTL DEF ScoresInv
=============================================================================
