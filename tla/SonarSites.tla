----------------------------- MODULE SonarSites -----------------------------
(***************************************************************************)
(* One comparison of the program as the workers know it (SonarSite in      *)
(* sonar.go).  All workers of a process share it and update it under its   *)
(* lock with every sample, while they fuzz and while they smash; update    *)
(* decides whether the sample is worth trying hints for.                   *)
(***************************************************************************)
EXTENDS Integers, Sequences, FiniteSets

CONSTANTS
  Values,        \* operands, as parseSonarData leaves them
  Enough,        \* a site taken more often than this both ways, 10
  Plenty,        \* or more often than this in total, 100, is skipped
  MaxSamples     \* bound

ASSUME SitesAssumption == Enough \in Nat /\ Plenty \in Nat /\ MaxSamples \in Nat

VARIABLES
  constant,     \* the operand that is constant in the program: 0 none, 1, 2
  site,         \* dynamic, val, takenFuzz, takenTotal of SonarSite
  outcome,      \* what the last update returned
  samples       \* history: the samples so far
siteVars == <<constant, site, outcome, samples>>

Truth == {FALSE, TRUE}
Unset == <<>>

SiteInit ==
  /\ constant \in 0 .. 2
  /\ site = [dynamic |-> FALSE, val |-> Unset,
             takenFuzz |-> [r \in Truth |-> 0], takenTotal |-> [r \in Truth |-> 0]]
  /\ outcome = [updated |-> FALSE, skip |-> FALSE]
  /\ samples = <<>>

\* The first sample is remembered, until one differs from it in both operands.
Recorded(v) == IF site.val = Unset THEN v ELSE site.val
Differs(v, w) == v[1] # w[1] /\ v[2] # w[2]

Turned(v) == ~site.dynamic /\ constant = 0 /\ Differs(Recorded(v), v)

\* Faulty variant: samples of smashing count too.
CountAll(taken, res, smash) == [taken EXCEPT ![res] = @ + 1]

CountFuzz(taken, res, smash) == IF smash THEN taken ELSE [taken EXCEPT ![res] = @ + 1]

Tired(taken) == \/ taken[FALSE] > Enough /\ taken[TRUE] > Enough
                \/ taken[FALSE] + taken[TRUE] > Plenty

update(v, smash, res) ==
  LET fuzz == CountFuzz(site.takenFuzz, res, smash)
      dynamic == site.dynamic \/ Turned(v)
  IN  /\ Len(samples) < MaxSamples
      /\ site' = [dynamic    |-> dynamic,
                  val        |-> IF Turned(v) THEN Unset
                                 ELSE IF site.dynamic \/ constant # 0 THEN site.val
                                 ELSE Recorded(v),
                  takenFuzz  |-> fuzz,
                  takenTotal |-> [site.takenTotal EXCEPT ![res] = @ + 1]]
      /\ outcome' = [updated |-> site.takenTotal[res] = 0,
                     skip    |-> ~dynamic /\ ~smash /\ Tired(fuzz)]
      /\ samples' = Append(samples, [val |-> v, smash |-> smash, res |-> res])
      /\ UNCHANGED constant

SiteNext == \E v \in Values \X Values, smash \in BOOLEAN, res \in Truth :
              update(v, smash, res)
SiteSpec == SiteInit /\ [][SiteNext]_siteVars

-----------------------------------------------------------------------------
Fuzzed(res) == {i \in DOMAIN samples : ~samples[i].smash /\ samples[i].res = res}

\* Hints are given up only for a site whose operands look fixed (one is constant,
\* or every sample agreed with the first in one of them) and which fuzzing alone,
\* without the systematic changes of smashing, took often enough.
SkipEarned ==
  outcome.skip =>
    /\ ~samples[Len(samples)].smash
    /\ constant # 0 \/ \A i \in DOMAIN samples : ~Differs(samples[1].val, samples[i].val)
    /\ Tired([r \in Truth |-> Cardinality(Fuzzed(r))])
=============================================================================
