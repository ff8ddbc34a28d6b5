---------------------------- MODULE MCClusterLive ----------------------------
(***************************************************************************)
(* Two instances for the liveness of Cluster:                              *)
(*   learning  two hubs; the workers of h1 find inputs, which h2 learns    *)
(*             from the coordinator; one fault                             *)
(*   calls     h1 alone, with all kinds of calls; up to MaxFaults faults   *)
(***************************************************************************)
EXTENDS MCCluster

LiveInit == InitWith(MCHubs) \/ InitWith(OneHub)
LiveSpec == LiveInit /\ [][Next]_vars /\ Fairness

\* The bounds.  Workers find nothing in the empty input of an empty corpus; h2 does not
\* end once it has connected.
Bounded ==
  /\ sigs[h2] = {} /\ EmptyFile \notin sigs[h1]
  /\ IF status[h2] # "dead"
     THEN faults <= 1 /\ executed = 0 /\ crashed = 0
     ELSE /\ id[h2] = 0
          /\ faults + executed + crashed + Cardinality(mine[h1]) <= 3
==============================================================================
