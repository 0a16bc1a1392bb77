---------------------------- MODULE MCReplication ----------------------------
(***************************************************************************)
(* Instances of Replication for TLC.                                       *)
(***************************************************************************)
EXTENDS Replication

CONSTANTS a, b, c, x, y   \* nodes and instances

MCIdOf == [k \in Keys |-> k]

\* Every node.
Everywhere == [k \in Keys |-> Nodes]
\* No node.
Nowhere == [k \in Keys |-> {}]
\* Node a for every instance.
AtHome == [k \in Keys |-> {a}]
\* The home and one of two replicas.
AtTwo == [k \in Keys |-> {a, b}]
\* Node b for every instance: a replica.
AtReplica == [k \in Keys |-> {b}]
=============================================================================
