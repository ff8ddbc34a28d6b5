------------------------------ MODULE MCCluster ------------------------------
(***************************************************************************)
(* Values for the constants of Cluster.  Both crashing inputs have one     *)
(* suppression, so that the duplicates NewCrasher must merge occur.        *)
(***************************************************************************)
EXTENDS Cluster, TLC

CONSTANTS h1, h2, x1, x2, c1, c2, s1

MCHubs   == {h1, h2}
OneHub   == {h1}
HubSym   == Permutations(MCHubs)
TwoCrashes == {c1, c2}
CrashSym == Permutations(TwoCrashes)
OneInput == {x1}
TwoInputs == {x1, x2}
NoInputs == {}
MCSuppOf == [c \in CrashInputs |-> s1]
=============================================================================
