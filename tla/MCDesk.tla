------------------------------- MODULE MCDesk -------------------------------
(* Constant values for Desk. *)
EXTENDS Desk

\* The label the spaces are cut off every other one.
CONSTANT Bare
CutToBare == [l \in Labels |-> Bare]
=============================================================================
