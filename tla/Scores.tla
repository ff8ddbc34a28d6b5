------------------------------- MODULE Scores -------------------------------
(***************************************************************************)
(* How the hub ranks the corpus (Hub.updateScores) and how a worker draws  *)
(* an input from it (Mutator.generate).  The hub goroutine takes new       *)
(* inputs and, once the corpus is stale, ranks a copy of it in four loops; *)
(* workers keep drawing from the published corpus all the while.  The      *)
(* loops over inputs and slots are steps here: their invariants are what   *)
(* the ranking rests on.                                                   *)
(***************************************************************************)
EXTENDS Coverage, Sequences

CONSTANTS
  Finds,       \* the triaged inputs the workers may send to the hub
  MaxCorpus    \* bound on the number of inputs

\* const definitions of hub.go
minScore == 1
maxScore == 1000
defScore == 10

\* What the workers send: data (a name), the cover of a run, time, depth, result.
ASSUME ScoresAssumption ==
  /\ MaxCorpus \in Nat
  /\ \A f \in Finds : /\ f.cover \in Table
                      /\ f.execTime \in Nat /\ f.depth \in Nat /\ f.res \in Int

VARIABLES
  corpus,        \* ROData.corpus, published
  corpusCover,   \* ROData.corpusCover, published
  corpusStale,   \* Hub.corpusStale
  phase,         \* where the hub is: "select", or a loop of updateScores
  pos,           \* the index that loop has reached
  ranked,        \* the copy of the corpus updateScores works on
  candidates     \* per slot: the best input that reaches it, score 0 for none
scoresVars ==
  <<corpus, corpusCover, corpusStale, phase, pos, ranked, candidates>>

NoCandidate == [index |-> 0, score |-> 0]

ScoresInit ==
  /\ corpus = <<>>
  /\ corpusCover = ZeroTable
  /\ corpusStale = FALSE
  /\ phase = "select"
  /\ pos = 0
  /\ ranked = <<>>
  /\ candidates = [i \in Slot |-> NoCandidate]

coverSize(inp) == Cardinality({i \in Slot : inp.cover[i] # 0})

\* The input attains the level of the corpus at slot i.
Reaches(inp, i) == inp.cover[i] # 0 /\ roundUpCover(inp.cover[i]) = corpusCover[i]

ScoreSum(c) == IF c = <<>> THEN 0 ELSE c[Len(c)].runningScoreSum

NewInput(f) ==
  /\ phase = "select"
  /\ Len(corpus) < MaxCorpus
  /\ compareCover(corpusCover, f.cover)
  /\ \A k \in DOMAIN corpus : corpus[k].input.data # f.data
  /\ corpus' = Append(corpus,
       [input |-> f, score |-> defScore, favored |-> FALSE,
        runningScoreSum |-> ScoreSum(corpus) + defScore])
  /\ corpusCover' = updateMaxCover(corpusCover, f.cover)
  /\ corpusStale' = TRUE
  /\ UNCHANGED <<phase, pos, ranked, candidates>>

-----------------------------------------------------------------------------
(* Phase 1.  Factors are fractions; x > n * avg stands for the code's      *)
(* float64 quotient, with avg = 0 (+Inf, or NaN for 0/0) included.         *)

execFactor(x, avg) ==
  IF x > 10 * avg THEN <<1, 10>> ELSE IF x > 4 * avg THEN <<1, 4>>
  ELSE IF x > 2 * avg THEN <<1, 2>> ELSE IF 100 * x < 25 * avg THEN <<3, 1>>
  ELSE IF 100 * x < 33 * avg THEN <<2, 1>> ELSE IF 2 * x < avg THEN <<3, 2>>
  ELSE <<1, 1>>

coverFactor(x, avg) ==
  IF x > 3 * avg THEN <<3, 1>> ELSE IF x > 2 * avg THEN <<2, 1>>
  ELSE IF 2 * x > 3 * avg THEN <<3, 2>> ELSE IF 10 * x < 3 * avg THEN <<1, 4>>
  ELSE IF 2 * x < avg THEN <<1, 2>> ELSE IF 4 * x < 3 * avg THEN <<2, 3>>
  ELSE <<1, 1>>

depthFactor(d) == 1 + Cardinality({limit \in {10, 20, 40, 80} : d >= limit})
resFactor(r) == IF r > 0 THEN 2 ELSE 1

clamp(s) == IF s < minScore THEN minScore ELSE IF s > maxScore THEN maxScore ELSE s

scoreOf(f, avgExecTime, avgCoverSize) ==
  LET e == execFactor(f.execTime, avgExecTime)
      c == coverFactor(coverSize(f), avgCoverSize)
  IN  clamp((defScore * e[1] * c[1] * depthFactor(f.depth) * resFactor(f.res))
              \div (e[2] * c[2]))

Average(of(_)) ==
  LET sum[k \in 0 .. Len(corpus)] ==
        IF k = 0 THEN 0 ELSE sum[k - 1] + of(corpus[k].input)
  IN  sum[Len(corpus)] \div Len(corpus)

StartUpdate ==
  /\ phase = "select"
  /\ corpusStale
  /\ LET avgExecTime  == Average(LAMBDA f : f.execTime)
         avgCoverSize == Average(coverSize)
     IN  ranked' = [k \in DOMAIN corpus |->
           [corpus[k] EXCEPT
              !.score = scoreOf(corpus[k].input, avgExecTime, avgCoverSize),
              !.favored = FALSE]]
  /\ candidates' = [i \in Slot |-> NoCandidate]
  /\ phase' = "scan"
  /\ pos' = 0
  /\ UNCHANGED <<corpus, corpusCover, corpusStale>>

-----------------------------------------------------------------------------
(* Phase 2.  Per slot the best input that reaches it; then, slot by slot,  *)
(* the candidate is favored and the later slots it reaches are struck out. *)

\* Faulty variant: the wrong way round.
Worse(r, c) == r.score < c.score

Better(r, c) == c.score < r.score

Scan ==
  /\ phase = "scan"
  /\ pos < Len(ranked)
  /\ LET r == ranked[pos + 1]
     IN  candidates' = [i \in Slot |->
           IF Reaches(r.input, i) /\ Better(r, candidates[i])
           THEN [index |-> pos + 1, score |-> r.score] ELSE candidates[i]]
  /\ pos' = pos + 1
  /\ UNCHANGED <<corpus, corpusCover, corpusStale, phase, ranked>>

EndScan ==
  /\ phase = "scan"
  /\ pos = Len(ranked)
  /\ phase' = "strike"
  /\ pos' = 0
  /\ UNCHANGED <<corpus, corpusCover, corpusStale, ranked, candidates>>

Favor ==
  /\ phase = "strike"
  /\ pos < CoverSize
  /\ candidates[pos].score # 0
  /\ LET k == candidates[pos].index
     IN  /\ ranked' = [ranked EXCEPT ![k].favored = TRUE]
         /\ candidates' = [i \in Slot |->
              IF i > pos /\ Reaches(ranked[k].input, i)
              THEN [index |-> candidates[i].index, score |-> 0] ELSE candidates[i]]
  /\ pos' = pos + 1
  /\ UNCHANGED <<corpus, corpusCover, corpusStale, phase>>

SkipSlot ==
  /\ phase = "strike"
  /\ pos < CoverSize
  /\ candidates[pos].score = 0
  /\ pos' = pos + 1
  /\ UNCHANGED <<corpus, corpusCover, corpusStale, phase, ranked, candidates>>

EndStrike ==
  /\ phase = "strike"
  /\ pos = CoverSize
  /\ phase' = "sum"
  /\ pos' = 0
  /\ UNCHANGED <<corpus, corpusCover, corpusStale, ranked, candidates>>

\* Faulty variant: inputs that are not favored are left out.
favoredOnly(r) == IF r.favored THEN r.score ELSE 0

\* An input that is not favored counts minScore (its field score is kept).
weight(r) == IF r.favored THEN r.score ELSE minScore

Sum ==
  /\ phase = "sum"
  /\ pos < Len(ranked)
  /\ ranked' = [ranked EXCEPT ![pos + 1].runningScoreSum =
       (IF pos = 0 THEN 0 ELSE ranked[pos].runningScoreSum)
         + weight(ranked[pos + 1])]
  /\ pos' = pos + 1
  /\ UNCHANGED <<corpus, corpusCover, corpusStale, phase, candidates>>

Publish ==
  /\ phase = "sum"
  /\ pos = Len(ranked)
  /\ corpus' = ranked
  /\ corpusStale' = FALSE
  /\ phase' = "select"
  /\ pos' = 0
  /\ ranked' = <<>>
  /\ candidates' = [i \in Slot |-> NoCandidate]
  /\ UNCHANGED corpusCover

ScoresNext ==
  \/ \E f \in Finds : NewInput(f)
  \/ StartUpdate \/ Scan \/ EndScan
  \/ Favor \/ SkipSlot \/ EndStrike
  \/ Sum \/ Publish

ScoresSpec == ScoresInit /\ [][ScoresNext]_scoresVars

\* The input a worker draws for a random number below the sum of all weights.
generate(c, weightedIdx) ==
  CHOOSE k \in DOMAIN c :
    /\ c[k].runningScoreSum > weightedIdx
    /\ \A j \in 1 .. k - 1 : c[j].runningScoreSum <= weightedIdx

-----------------------------------------------------------------------------
Ranked == [input : Finds, score : minScore .. maxScore, favored : BOOLEAN,
           runningScoreSum : Nat]

\* The corpora are sequences of ranked inputs, a candidate is an index into
\* the copy, and positions stay within the loop they belong to.
ScoresTypeOK ==
  /\ corpus \in Seq(Ranked) /\ ranked \in Seq(Ranked)
  /\ corpusCover \in [Slot -> Level]
  /\ corpusStale \in BOOLEAN
  /\ phase \in {"select", "scan", "strike", "sum"}
  /\ pos \in 0 .. (IF phase = "strike" THEN CoverSize ELSE Len(ranked))
  /\ candidates \in [Slot -> [index : 0 .. Len(ranked), score : 0 .. maxScore]]

\* After a ranking, every slot of the corpus cover has a favored input that
\* attains its level, although candidates are struck out on the way: fuzzing
\* favored inputs only would lose no coverage.
FavoredCoverAll ==
  ~corpusStale => \A i \in Slot : corpusCover[i] # 0 =>
     \E k \in DOMAIN corpus : corpus[k].favored /\ Reaches(corpus[k].input, i)

\* No input is favored without a slot at which none that reaches it scores more.
FavoredBest ==
  ~corpusStale => \A k \in DOMAIN corpus : corpus[k].favored =>
     \E i \in Slot :
       /\ Reaches(corpus[k].input, i)
       /\ \A j \in DOMAIN corpus :
            Reaches(corpus[j].input, i) => corpus[j].score <= corpus[k].score

\* The favored set is right: it covers what the corpus covers and has no input
\* without a reason.
FavoredSetRight == FavoredCoverAll /\ FavoredBest

\* Whatever the workers see, ranked or with new inputs at the end, every input
\* is drawn by the numbers of a range of its own, never empty, and those of a
\* favored input are as many as its score.
DrawnByWeight ==
  \A k \in DOMAIN corpus :
    LET before == IF k = 1 THEN 0 ELSE corpus[k - 1].runningScoreSum
    IN  /\ before < corpus[k].runningScoreSum
        /\ corpus[k].favored =>
             corpus[k].runningScoreSum = before + corpus[k].score
        /\ \A w \in before .. corpus[k].runningScoreSum - 1 :
             generate(corpus, w) = k
=============================================================================
