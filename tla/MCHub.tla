------------------------------- MODULE MCHub -------------------------------
(***************************************************************************)
(* Values for the constants of Hub.  Two slots of cover; "both" reaches    *)
(* both and is minimized to "left" or "right"; "bomb" crashes, "fuse" is a *)
(* smaller form of the same crash and "spark" one that hangs instead;      *)
(* "dull" covers nothing.                                                  *)
(***************************************************************************)
EXTENDS Hub, TLC

CONSTANTS w1, w2, left, right, both, bomb, fuse, spark, dull

OneWorker   == {w1}
TwoWorkers  == {w1, w2}
None        == {}
LeftOnly    == {left}
RightOnly   == {right}
BothOnly    == {both}
LeftBoth    == {left, both}
CoverInputs == {left, right, both}
CrashInputs == {left, both, dull, bomb, fuse, spark}
Crashing    == {bomb, fuse, spark}

Cover(l, r) == [i \in Slot |-> IF i = 0 THEN l ELSE r]

\* One possible result of a run, or several.
SteadyRuns ==
  [x \in Data |-> CASE x = left     -> {Cover(1, 0)}
                    [] x = right    -> {Cover(0, 1)}
                    [] x = both     -> {Cover(1, 1)}
                    [] x = dull     -> {Cover(0, 0)}
                    [] x \in Crashing -> {CrashRun}]
FlakyRuns ==
  [SteadyRuns EXCEPT ![both] = {Cover(1, 1), Cover(0, 1), CrashRun}]

MCHanging     == {spark} \cap Data
MCSuppression == [x \in Data |-> IF x = spark THEN "hang" ELSE "panic"]
MCResOf       == [x \in Data |-> IF x = right THEN -1 ELSE 0]
NoResOf       == [x \in Data |-> 0]
MCSmaller     == [x \in Data |-> CASE x = both -> {left, right, dull, bomb} \cap Data
                                   [] x = bomb -> {fuse, spark}
                                   [] OTHER    -> {}]
=============================================================================
