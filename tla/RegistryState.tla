---------------------------- MODULE RegistryState ----------------------------
(***************************************************************************)
(* The data a registry keeps (sdiscovery/registry.py, class Registry) and  *)
(* what each operation does to it.  Every method that changes it runs      *)
(* under `async with self._lock' with no await inside, so one operator is  *)
(* one atomic change.                                                      *)
(*                                                                         *)
(* A registry state is a record: inst gives the instance registered under  *)
(* each key, tomb the version recorded in the tombstone of each instance   *)
(* id.  A key is a (service_name, instance_id) pair; instances are keyed   *)
(* by the pair, tombstones by the id alone.  What distinguishes two        *)
(* versions of an instance (host, port, metadata, status) is abstracted    *)
(* to its status, and last_heartbeat to `fresh': whether the instance was  *)
(* heard from within heartbeat_timeout.                                    *)
(***************************************************************************)
EXTENDS Integers

CONSTANTS
    Keys,    \* the (service_name, instance_id) pairs in use
    Ids,     \* the instance ids
    IdOf,    \* the instance id of each key
    Status,  \* the values of InstanceStatus
    OutOfService, \* InstanceStatus.OUT_OF_SERVICE
    Absent   \* what dict.get returns for a missing entry

Version == Nat \ {0}
Instance == [version : Version, status : Status, fresh : BOOLEAN]
Registry == [inst : [Keys -> Instance \cup {Absent}],
             tomb : [Ids -> Version \cup {Absent}]]
\* What a registry shows for a key: an instance or a tombstone.
Entry == [version : Version, content : Status \cup {Absent}]

ASSUME RegistryAssumption ==
    /\ IdOf \in [Keys -> Ids]
    /\ Absent \notin Version
    /\ Absent \notin Instance
    /\ Absent \notin Entry
    /\ Absent \notin Status

\* Every instance id is used under one service name, as when the ids are the
\* generated ones (Instance.instance_id defaults to a uuid).
OneServicePerId == \A k, l \in Keys : IdOf[k] = IdOf[l] => k = l

EmptyRegistry == [inst |-> [k \in Keys |-> Absent], tomb |-> [i \in Ids |-> Absent]]

Live(r, k) == r.inst[k] # Absent
Buried(r, k) == r.tomb[IdOf[k]] # Absent

\* What _evict_expired_instances collects: silent past heartbeat_timeout and
\* not OUT_OF_SERVICE.
ExpiredOutOfService(r) ==   \* the comparison the other way round
    {k \in Keys : Live(r, k) /\ ~r.inst[k].fresh /\ r.inst[k].status = OutOfService}
Expired(r) == {k \in Keys : Live(r, k) /\ ~r.inst[k].fresh /\ r.inst[k].status # OutOfService}

-----------------------------------------------------------------------------
(* The operations of the local API. *)

\* As if a version equal to the one seen were new enough.
MatchingIsEnough(v, seen) == IF v < seen THEN seen + 1 ELSE v

\* A version that the entry seen at version `seen' cannot outrank.
Outranking(v, seen) == IF v <= seen THEN seen + 1 ELSE v

\* As if register did not look for a tombstone.
VersionIgnoringTombstone(r, k, v) ==
    IF Live(r, k) THEN Outranking(v, r.inst[k].version) ELSE v

RegisteredVersion(r, k, v) ==
    IF Live(r, k) THEN Outranking(v, r.inst[k].version)
    ELSE IF Buried(r, k) THEN Outranking(v, r.tomb[IdOf[k]])
    ELSE v

\* register: the instance is stored under an outranking version; a tombstone
\* is removed only when no instance was registered under the key.
Register(r, k, v, s) ==
    [inst |-> [r.inst EXCEPT
                 ![k] = [version |-> RegisteredVersion(r, k, v), status |-> s, fresh |-> TRUE]],
     tomb |-> [r.tomb EXCEPT ![IdOf[k]] = IF Live(r, k) THEN @ ELSE Absent]]

\* deregister of a registered instance.
Deregister(r, k) ==
    [inst |-> [r.inst EXCEPT ![k] = Absent],
     tomb |-> [r.tomb EXCEPT ![IdOf[k]] = r.inst[k].version + 1]]

\* deregister of a key with no instance: a tombstone, if any, is bumped.
DeregisterMissing(r, k) == [r EXCEPT !.tomb[IdOf[k]] = @ + 1]

UpdateStatus(r, k, s) ==
    [r EXCEPT !.inst[k] = [version |-> @.version + 1, status |-> s, fresh |-> @.fresh]]

\* renew (f = TRUE), and heartbeat_timeout passing without one (f = FALSE).
SetFresh(r, k, f) == [r EXCEPT !.inst[k].fresh = f]

\* _cleanup_tombstones, when the tombstones of the ids in E are past their TTL.
DropTombstones(r, E) ==
    [r EXCEPT !.tomb = [i \in Ids |-> IF i \in E THEN Absent ELSE r.tomb[i]]]

-----------------------------------------------------------------------------
(* What gossip applies to a registry: received deltas and full states. *)

\* apply_delta(..., "REGISTER") takes x unless the tombstone or the instance
\* held is at least as new.
Accepts(r, k, x) ==
    /\ x # Absent
    /\ Buried(r, k) => r.tomb[IdOf[k]] < x.version
    /\ Live(r, k) => r.inst[k].version < x.version

ApplyRegister(r, snapshot) ==
    [inst |-> [k \in Keys |-> IF Accepts(r, k, snapshot[k]) THEN snapshot[k] ELSE r.inst[k]],
     tomb |-> [i \in Ids |->
                 IF \E k \in Keys : IdOf[k] = i /\ Accepts(r, k, snapshot[k])
                 THEN Absent ELSE r.tomb[i]]]

\* apply_delta(..., "DEREGISTER"): only a tombstone at least as new stops it;
\* the version of the instance held is not looked at.
ApplyDeregister(r, k, v) ==
    IF Buried(r, k) /\ r.tomb[IdOf[k]] >= v THEN r
    ELSE [inst |-> [r.inst EXCEPT ![k] = Absent],
          tomb |-> [r.tomb EXCEPT ![IdOf[k]] = v]]

\* _apply_tombstones considers a received tombstone when the sender's snapshot
\* has no instance of that id and the tombstone held, if any, is older.
HeedsOlder(r, i, tombstones, snapshot) ==   \* the comparison left out
    /\ tombstones[i] # Absent
    /\ \A k \in Keys : IdOf[k] = i => snapshot[k] = Absent
Heeds(r, i, tombstones, snapshot) ==
    /\ tombstones[i] # Absent
    /\ \A k \in Keys : IdOf[k] = i => snapshot[k] = Absent
    /\ r.tomb[i] # Absent => r.tomb[i] < tombstones[i]

\* As if only the tombstone were recorded.
RecordTombstones(r, tombstones, snapshot) ==
    [r EXCEPT !.tomb = [i \in Ids |->
        IF Heeds(r, i, tombstones, snapshot) THEN tombstones[i] ELSE @[i]]]

\* The instance goes only if it is older, the tombstone is recorded either way.
ApplyTombstones(r, tombstones, snapshot) ==
    [inst |-> [k \in Keys |->
                 IF /\ Heeds(r, IdOf[k], tombstones, snapshot)
                    /\ Live(r, k) /\ r.inst[k].version < tombstones[IdOf[k]]
                 THEN Absent ELSE r.inst[k]],
     tomb |-> [i \in Ids |->
                 IF Heeds(r, i, tombstones, snapshot) THEN tombstones[i] ELSE r.tomb[i]]]

\* As if the tombstones of a full state were not looked at.
ApplySnapshotOnly(r, full) == ApplyRegister(r, full.inst)

\* _apply_sync of a full state received (get_full_state of the sender).
ApplySync(r, full) ==
    ApplyTombstones(ApplyRegister(r, full.inst), full.tomb, full.inst)

-----------------------------------------------------------------------------
(* How a registry is read. *)

\* What a registry shows for a key: the instance, else the tombstone.
View(r, k) ==
    IF Live(r, k) THEN [version |-> r.inst[k].version, content |-> r.inst[k].status]
    ELSE IF Buried(r, k) THEN [version |-> r.tomb[IdOf[k]], content |-> Absent]
    ELSE Absent

Newest(x, y) ==
    IF x = Absent \/ (y # Absent /\ x.version < y.version) THEN y ELSE x

\* The newest version the registry has an entry for; 0 when it has none.
Known(r, k) == IF View(r, k) = Absent THEN 0 ELSE View(r, k).version

\* No instance is listed that the registry's own tombstone outranks.
TombstonesRespected(r) ==
    \A k \in Keys : Live(r, k) /\ Buried(r, k) => r.tomb[IdOf[k]] <= r.inst[k].version
=============================================================================
