---------------------------- MODULE MCTombstoneGC ----------------------------
(***************************************************************************)
(* Instances of TombstoneGC for TLC.                                       *)
(***************************************************************************)
EXTENDS TombstoneGC

CONSTANTS a, b, c, x   \* nodes and an instance

MCIdOf == [k \in Keys |-> k]

\* Node a for every instance.
AtHome == [k \in Keys |-> {a}]

\* Node b for every instance: a replica.
AtReplica == [k \in Keys |-> {b}]

\* Nothing is claimed once nodes are severed: TLC looks no further.
InTouch == ~severed

\* The settings are ones under which a removal is to last.
ASSUME SettingsFit == TombstonesOutlivePartitions
=============================================================================
