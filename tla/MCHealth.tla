------------------------------- MODULE MCHealth -------------------------------
(***************************************************************************)
(* Instances of Health for TLC, with the default thresholds of the code.   *)
(***************************************************************************)
EXTENDS Health

CONSTANTS x, y   \* instances; the id of each stands for its key

MCIdOf == [k \in Keys |-> k]
=============================================================================
