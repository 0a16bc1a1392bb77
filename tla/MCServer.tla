------------------------------- MODULE MCServer -------------------------------
(***************************************************************************)
(* Instances of Server for TLC: a key is a <<service, id>> pair, and       *)
(* services and subscriber ids are strings.                                *)
(***************************************************************************)
EXTENDS Server

CONSTANTS i1, i2   \* instance ids

\* One instance of each of two services.
TwoInstances == {<<"s", i1>>, <<"t", i2>>}
MCIds == {i1, i2}
MCIdOf == [k \in Keys |-> k[2]]
MCServiceOf == [k \in Keys |-> k[1]]
=============================================================================
