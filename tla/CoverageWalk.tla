---------------------------- MODULE CoverageWalk ----------------------------
(***************************************************************************)
(* The corpus-cover table as the fuzzer drives it: runs are observed and   *)
(* folded into the table one after the other, in any order.  base is the   *)
(* summary table (maxCover or corpusCover), cur the cover of the last run, *)
(* runs every run folded in so far.                                        *)
(***************************************************************************)
EXTENDS Coverage

CONSTANTS Observed     \* the raw tables a testee may produce
ASSUME ObservedAssumption == Observed \subseteq Table

VARIABLES base, cur, runs
vars == <<base, cur, runs>>

Init ==
  /\ base = ZeroTable
  /\ cur \in Observed
  /\ runs = {}

\* The testee runs another input.
Observe == /\ cur' \in Observed
           /\ UNCHANGED <<base, runs>>

\* hub.updateMaxCover and the newInputC case: fold the run in if it is new.
Fold == /\ compareCover(base, cur)
        /\ base' = updateMaxCover(base, cur)
        /\ runs' = runs \cup {cur}
        /\ UNCHANGED cur

Next == Observe \/ Fold
Spec == Init /\ [][Next]_vars

-----------------------------------------------------------------------------
\* The tables have their types; summary tables hold quantized levels only.
TypeOK == /\ base \in [Slot -> Level]
          /\ cur \in Table
          /\ runs \subseteq Table

\* compare_amd64.s: the vector comparison answers what the byte-by-byte
\* definition (compareCoverDump) answers, on every pair of tables that occurs.
VectorAgrees == compareCoverBody(base, cur) <=> compareCoverDump(base, cur)

\* A run is judged new (raw counters against quantized table) exactly when
\* folding it in changes the table: no run is accepted without progress, and
\* no progress is ever rejected.  It fails if quantization is not a closure.
NewIffGrows == compareCover(base, cur) <=> updateMaxCover(base, cur) # base

\* Minimization pursues findNewCover and refuses candidates with worseCover.
\* Any candidate run it accepts is itself still new against the same table.
MinimizedStillNew ==
  \A cand \in Observed :
    /\ findNewCoverNotEmpty(base, cur)
    /\ ~worseCover(findNewCover(base, cur), cand)
    => compareCover(base, cand)

\* The summary is the least quantized table above every folded run: the cover
\* claimed by the corpus is neither lost nor invented, whatever the order.
SummaryIsExact ==
  \A i \in Slot :
    /\ \A r \in runs : roundUpCover(r[i]) <= base[i]
    /\ base[i] # 0 => \E r \in runs : roundUpCover(r[i]) = base[i]

\* A table only ever grows, slot by slot.
CoverGrows == [][\A i \in Slot : base'[i] >= base[i]]_vars
=============================================================================
