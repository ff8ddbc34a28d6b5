------------------------------ MODULE MCTestee ------------------------------
(***************************************************************************)
(* Values for the constants of Testee: an input that talks and succeeds,   *)
(* one that crashes with a message, one that hangs.                        *)
(***************************************************************************)
EXTENDS Testee, TLC
CONSTANTS good, crasher, stuck
MCChatter == [i \in Inputs |-> CASE i = good -> 2 [] i = crasher -> 1 [] i = stuck -> 0]
=============================================================================
