------------------------------- MODULE Registry -------------------------------
(***************************************************************************)
(* One registry as a server with gossip off runs it (enable_gossip=False,  *)
(* the default): clients register, renew, change the status of and         *)
(* deregister instances; the eviction loop, the tombstone clean-up loop    *)
(* and self-protection act beside them.                                    *)
(*                                                                         *)
(* The eviction loop collects the expired keys and then deregisters them   *)
(* one by one; deregister awaits the change callbacks, so any other task   *)
(* may run after each removal.                                             *)
(***************************************************************************)
EXTENDS RegistryState, FiniteSets

CONSTANT MaxVersion  \* bound: no write takes a version above it

ASSUME StandaloneAssumption ==
    /\ MaxVersion \in Nat
    /\ IsFiniteSet(Keys)

VARIABLES
    reg,       \* _instances and _tombstones
    expected,  \* _expected_heartbeat_count
    protected, \* _protection_enabled
    expired    \* the keys the eviction loop still has to deregister

vars == <<reg, expected, protected, expired>>

Init ==
    /\ reg = EmptyRegistry
    /\ expected = 0
    /\ protected = FALSE
    /\ expired = {}

LiveKeys(r) == {k \in Keys : Live(r, k)}

\* As if a registration over a tombstone were not counted.
RegisterUncounted(k, v, s) ==
    /\ RegisteredVersion(reg, k, v) <= MaxVersion
    /\ reg' = Register(reg, k, v, s)
    /\ expected' = IF Live(reg, k) \/ Buried(reg, k) THEN expected ELSE expected + 1
    /\ UNCHANGED <<protected, expired>>

RegisterInstance(k, v, s) ==
    /\ RegisteredVersion(reg, k, v) <= MaxVersion
    /\ reg' = Register(reg, k, v, s)
    /\ expected' = IF Live(reg, k) THEN expected ELSE expected + 1
    /\ UNCHANGED <<protected, expired>>

\* As if the count went down before the look-up, without a floor.
RemoveUncounting(k) ==
    /\ reg' = IF Live(reg, k) THEN Deregister(reg, k) ELSE reg
    /\ expected' = expected - 1

\* The body of deregister, for a client and for the eviction loop.
Remove(k) ==
    \/ /\ Live(reg, k)
       /\ reg' = Deregister(reg, k)
       /\ expected' = IF expected > 0 THEN expected - 1 ELSE 0
    \/ /\ ~Live(reg, k)
       /\ reg' = IF Buried(reg, k) THEN DeregisterMissing(reg, k) ELSE reg
       /\ UNCHANGED expected

DeregisterInstance(k) ==
    /\ Known(reg, k) < MaxVersion
    /\ Remove(k)
    /\ UNCHANGED <<protected, expired>>

RenewInstance(k) ==
    /\ Live(reg, k)
    /\ reg' = SetFresh(reg, k, TRUE)
    /\ UNCHANGED <<expected, protected, expired>>

ChangeStatus(k, s) ==
    /\ Live(reg, k)
    /\ reg.inst[k].version < MaxVersion
    /\ reg' = UpdateStatus(reg, k, s)
    /\ UNCHANGED <<expected, protected, expired>>

\* Time: the instance was last heard from more than heartbeat_timeout ago.
HeartbeatLapse(k) ==
    /\ Live(reg, k)
    /\ reg' = SetFresh(reg, k, FALSE)
    /\ UNCHANGED <<expected, protected, expired>>

\* _evict_expired_instances: the scan and, with no await that suspends before
\* it, the first removal.
EvictExpired(k) ==
    /\ expired = {}
    /\ ~protected
    /\ k \in Expired(reg)
    /\ Remove(k)
    /\ expired' = Expired(reg) \ {k}
    /\ UNCHANGED protected

\* A later removal, of a key the scan found.  _protection_enabled and the
\* heartbeat are not looked at again.  A tombstone may end above MaxVersion.
EvictNext(k) ==
    /\ k \in expired
    /\ Remove(k)
    /\ expired' = expired \ {k}
    /\ UNCHANGED protected

\* _cleanup_tombstones, with the ids of E past tombstone_ttl.
CleanupTombstones(E) ==
    /\ \E i \in E : reg.tomb[i] # Absent
    /\ reg' = DropTombstones(reg, E)
    /\ UNCHANGED <<expected, protected, expired>>

\* set_protection_mode, called by SelfProtection._check_protection.
SetProtectionMode(b) ==
    /\ protected # b
    /\ protected' = b
    /\ UNCHANGED <<reg, expected, expired>>

Next ==
    \/ \E k \in Keys, v \in 1 .. MaxVersion, s \in Status : RegisterInstance(k, v, s)
    \/ \E k \in Keys : DeregisterInstance(k)
    \/ \E k \in Keys : RenewInstance(k)
    \/ \E k \in Keys, s \in Status : ChangeStatus(k, s)
    \/ \E k \in Keys : HeartbeatLapse(k)
    \/ \E k \in Keys : EvictExpired(k)
    \/ \E k \in Keys : EvictNext(k)
    \/ \E E \in SUBSET Ids : CleanupTombstones(E)
    \/ \E b \in BOOLEAN : SetProtectionMode(b)

Spec == Init /\ [][Next]_vars

-----------------------------------------------------------------------------
\* The types of the variables.
TypeOK ==
    /\ reg \in Registry
    /\ expected \in Nat
    /\ protected \in BOOLEAN
    /\ expired \in SUBSET Keys

\* The number of instances self-protection expects heartbeats from is the
\* number of instances registered, whatever the order of registrations (new,
\* repeated, after a tombstone), deregistrations and evictions: a drift would
\* raise or silence the protection for good.
ExpectedMatchesLive == expected = Cardinality(LiveKeys(reg))

\* If no id is used under two services (OneServicePerId), a registry forgets how new
\* its entry for a key is in one way only: the tombstone expires.  Otherwise a
\* re-registration could reuse a version that other replicas hold with other contents.
ForgetsByExpiry ==
    \A k \in Keys :
        Known(reg, k)' < Known(reg, k) => \E E \in SUBSET Ids : CleanupTombstones(E)
ForgetsOnlyByExpiry == [][ForgetsByExpiry]_vars

\* Eviction: an instance that stays silent past heartbeat_timeout, is not
\* OUT_OF_SERVICE and is not shielded by self-protection is removed, even though
\* the loop works from a list it took earlier.
Overdue(k) ==
    Live(reg, k) /\ ~reg.inst[k].fresh /\ reg.inst[k].status # OutOfService /\ ~protected
ExpiredIsEvicted == \A k \in Keys : Overdue(k) ~> ~Overdue(k)
=============================================================================
