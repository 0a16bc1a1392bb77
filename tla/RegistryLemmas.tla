---------------------------- MODULE RegistryLemmas ----------------------------
(***************************************************************************)
(* What the operators of RegistryState preserve and compute, for any sets  *)
(* of keys, ids and statuses.                                              *)
(***************************************************************************)
EXTENDS RegistryState, TLAPS

USE DEF Registry, Instance, Version, Live, Buried

\* An entry that is there has a version above 0.
LEMMA EntryTypes ==
    ASSUME NEW r \in Registry, NEW k \in Keys
    PROVE  /\ IdOf[k] \in Ids
           /\ Live(r, k) => r.inst[k] \in Instance
           /\ Buried(r, k) => r.tomb[IdOf[k]] \in Version
           /\ Live(r, k) => r.inst[k].version \in Nat \ {0}
    BY RegistryAssumption

\* No key is registered or buried in an empty registry.
LEMMA EmptyRegistryType == EmptyRegistry \in Registry
    BY DEF EmptyRegistry

\* register yields a version, at least the one asked for and above both the
\* registered instance and the tombstone it looks at.
LEMMA RegisteredVersionType ==
    ASSUME NEW r \in Registry, NEW k \in Keys, NEW v \in Version
    PROVE  RegisteredVersion(r, k, v) \in Version
    BY EntryTypes DEF RegisteredVersion, Outranking

LEMMA RegisterType ==
    ASSUME NEW r \in Registry, NEW k \in Keys, NEW v \in Version, NEW s \in Status
    PROVE  Register(r, k, v, s) \in Registry
    BY RegisteredVersionType, RegistryAssumption DEF Register

LEMMA DeregisterType ==
    ASSUME NEW r \in Registry, NEW k \in Keys, Live(r, k)
    PROVE  Deregister(r, k) \in Registry
    BY EntryTypes DEF Deregister

LEMMA DeregisterMissingType ==
    ASSUME NEW r \in Registry, NEW k \in Keys, Buried(r, k)
    PROVE  DeregisterMissing(r, k) \in Registry
    BY EntryTypes DEF DeregisterMissing

LEMMA UpdateStatusType ==
    ASSUME NEW r \in Registry, NEW k \in Keys, Live(r, k), NEW s \in Status
    PROVE  UpdateStatus(r, k, s) \in Registry
    BY EntryTypes DEF UpdateStatus

LEMMA SetFreshType ==
    ASSUME NEW r \in Registry, NEW k \in Keys, Live(r, k), NEW f \in BOOLEAN
    PROVE  SetFresh(r, k, f) \in Registry
    BY EntryTypes DEF SetFresh

LEMMA DropTombstonesType ==
    ASSUME NEW r \in Registry, NEW E \in SUBSET Ids
    PROVE  DropTombstones(r, E) \in Registry
    BY DEF DropTombstones

LEMMA ApplyRegisterType ==
    ASSUME NEW r \in Registry, NEW full \in Registry
    PROVE  ApplyRegister(r, full.inst) \in Registry
    BY RegistryAssumption DEF ApplyRegister, Accepts

LEMMA ApplyDeregisterType ==
    ASSUME NEW r \in Registry, NEW k \in Keys, NEW v \in Version
    PROVE  ApplyDeregister(r, k, v) \in Registry
    BY RegistryAssumption DEF ApplyDeregister

LEMMA ApplyTombstonesType ==
    ASSUME NEW r \in Registry, NEW full \in Registry
    PROVE  ApplyTombstones(r, full.tomb, full.inst) \in Registry
    BY RegistryAssumption DEF ApplyTombstones, Heeds

LEMMA ApplySyncType ==
    ASSUME NEW r \in Registry, NEW full \in Registry
    PROVE  ApplySync(r, full) \in Registry
    BY ApplyRegisterType, ApplyTombstonesType DEF ApplySync

-----------------------------------------------------------------------------
(* TombstonesRespected: kept by whatever changes a registry.  Only clearing  *)
(* an instance, raising its version or dropping a tombstone is harmless;     *)
(* recording a tombstone beside an instance is where it could break.         *)

LEMMA EmptyRespects == TombstonesRespected(EmptyRegistry)
    BY DEF TombstonesRespected, EmptyRegistry

LEMMA RegisterRespects ==
    ASSUME NEW r \in Registry, NEW k \in Keys, NEW v \in Version, NEW s \in Status,
           TombstonesRespected(r), OneServicePerId
    PROVE  TombstonesRespected(Register(r, k, v, s))
    BY EntryTypes, RegisteredVersionType, RegistryAssumption
    DEF TombstonesRespected, Register, OneServicePerId, RegisteredVersion, Outranking

LEMMA DeregisterRespects ==
    ASSUME NEW r \in Registry, NEW k \in Keys, Live(r, k),
           TombstonesRespected(r), OneServicePerId
    PROVE  TombstonesRespected(Deregister(r, k))
    BY RegistryAssumption DEF TombstonesRespected, Deregister, OneServicePerId

LEMMA DeregisterMissingRespects ==
    ASSUME NEW r \in Registry, NEW k \in Keys, ~Live(r, k), Buried(r, k),
           TombstonesRespected(r), OneServicePerId
    PROVE  TombstonesRespected(DeregisterMissing(r, k))
    BY RegistryAssumption DEF TombstonesRespected, DeregisterMissing, OneServicePerId

LEMMA UpdateStatusRespects ==
    ASSUME NEW r \in Registry, NEW k \in Keys, Live(r, k), NEW s \in Status,
           TombstonesRespected(r)
    PROVE  TombstonesRespected(UpdateStatus(r, k, s))
    BY EntryTypes, RegistryAssumption DEF TombstonesRespected, UpdateStatus

LEMMA SetFreshRespects ==
    ASSUME NEW r \in Registry, NEW k \in Keys, Live(r, k), NEW f \in BOOLEAN,
           TombstonesRespected(r)
    PROVE  TombstonesRespected(SetFresh(r, k, f))
    BY EntryTypes, RegistryAssumption DEF TombstonesRespected, SetFresh

LEMMA DropTombstonesRespects ==
    ASSUME NEW r \in Registry, NEW E \in SUBSET Ids, TombstonesRespected(r)
    PROVE  TombstonesRespected(DropTombstones(r, E))
    BY RegistryAssumption DEF TombstonesRespected, DropTombstones

LEMMA ApplyDeregisterRespects ==
    ASSUME NEW r \in Registry, NEW k \in Keys, NEW v \in Version,
           TombstonesRespected(r), OneServicePerId
    PROVE  TombstonesRespected(ApplyDeregister(r, k, v))
    BY RegistryAssumption DEF TombstonesRespected, ApplyDeregister, OneServicePerId

LEMMA ApplyRegisterRespects ==
    ASSUME NEW r \in Registry, NEW full \in Registry, TombstonesRespected(r)
    PROVE  TombstonesRespected(ApplyRegister(r, full.inst))
    BY RegistryAssumption DEF TombstonesRespected, ApplyRegister, Accepts

LEMMA ApplyTombstonesRespects ==
    ASSUME NEW r \in Registry, NEW full \in Registry, TombstonesRespected(r)
    PROVE  TombstonesRespected(ApplyTombstones(r, full.tomb, full.inst))
    BY EntryTypes, RegistryAssumption DEF TombstonesRespected, ApplyTombstones, Heeds

LEMMA ApplySyncRespects ==
    ASSUME NEW r \in Registry, NEW full \in Registry, TombstonesRespected(r)
    PROVE  TombstonesRespected(ApplySync(r, full))
    BY ApplyRegisterType, ApplyRegisterRespects, ApplyTombstonesRespects DEF ApplySync

-----------------------------------------------------------------------------
(* Merging. *)

\* What a registry shows for a key is Absent or an entry.
LEMMA ViewType ==
    ASSUME NEW r \in Registry, NEW k \in Keys
    PROVE  /\ Live(r, k) \/ Buried(r, k) => View(r, k) \in Entry /\ View(r, k) # Absent
           /\ ~Live(r, k) /\ ~Buried(r, k) => View(r, k) = Absent
           /\ Live(r, k) => View(r, k).version = r.inst[k].version
           /\ ~Live(r, k) /\ Buried(r, k) => View(r, k).version = r.tomb[IdOf[k]]
           /\ Live(r, k) \/ Buried(r, k) => View(r, k).version \in Nat
<1>1. CASE Live(r, k)
  <2>1. View(r, k) = [version |-> r.inst[k].version, content |-> r.inst[k].status]
    BY <1>1 DEF View
  <2> QED
    BY <1>1, <2>1, EntryTypes, RegistryAssumption DEF Entry
<1>2. CASE ~Live(r, k) /\ Buried(r, k)
  <2>1. View(r, k) = [version |-> r.tomb[IdOf[k]], content |-> Absent]
    BY <1>2 DEF View
  <2> QED
    BY <1>2, <2>1, EntryTypes, RegistryAssumption DEF Entry
<1>3. CASE ~Live(r, k) /\ ~Buried(r, k)
  BY <1>3 DEF View
<1> QED
  BY <1>1, <1>2, <1>3

\* How new the entry for a key is, read off the registry.
LEMMA KnownIs ==
    ASSUME NEW r \in Registry, NEW k \in Keys
    PROVE  Known(r, k) = IF Live(r, k) THEN r.inst[k].version
                         ELSE IF Buried(r, k) THEN r.tomb[IdOf[k]] ELSE 0
    BY ViewType DEF Known

\* The first pass takes the instance of the received state if it is newer than
\* all the registry has, and leaves what the registry shows alone otherwise.
LEMMA ViewAfterRegister ==
    ASSUME NEW r \in Registry, NEW full \in Registry, NEW k \in Keys,
           TombstonesRespected(r), OneServicePerId
    PROVE  View(ApplyRegister(r, full.inst), k) =
             IF Live(full, k) THEN Newest(View(r, k), View(full, k)) ELSE View(r, k)
<1> DEFINE q == ApplyRegister(r, full.inst)
<1>1. CASE Accepts(r, k, full.inst[k])
  <2>1. Live(q, k) /\ q.inst[k] = full.inst[k]
    BY <1>1 DEF ApplyRegister, Accepts
  <2>2. View(q, k) = View(full, k) /\ Live(full, k)
    BY <1>1, <2>1 DEF View, Accepts
  <2>3. View(r, k) = Absent \/ View(r, k).version < View(full, k).version
    BY <1>1, <2>2, ViewType DEF Accepts
  <2>4. View(full, k) # Absent
    BY <2>2, ViewType
  <2> QED
    BY <2>2, <2>3, <2>4 DEF Newest
<1>2. CASE ~Accepts(r, k, full.inst[k])
  <2>1. q.inst[k] = r.inst[k] /\ q.tomb[IdOf[k]] = r.tomb[IdOf[k]]
    BY <1>2, EntryTypes DEF ApplyRegister, OneServicePerId
  <2>2. View(q, k) = View(r, k)
    BY <2>1 DEF View
  <2>3. Live(full, k) =>
          View(r, k) # Absent /\ ~(View(r, k).version < View(full, k).version)
    BY <1>2, EntryTypes, ViewType DEF Accepts, TombstonesRespected
  <2> QED
    BY <2>2, <2>3 DEF Newest
<1> QED
  BY <1>1, <1>2

\* The second pass does the same for the tombstones of the received state.
LEMMA ViewAfterTombstones ==
    ASSUME NEW r \in Registry, NEW full \in Registry, NEW k \in Keys,
           TombstonesRespected(r), OneServicePerId
    PROVE  View(ApplyTombstones(r, full.tomb, full.inst), k) =
             IF Live(full, k) THEN View(r, k) ELSE Newest(View(r, k), View(full, k))
<1> DEFINE q == ApplyTombstones(r, full.tomb, full.inst)
           i == IdOf[k]
<1>0. i \in Ids
  BY EntryTypes
<1>1. CASE Heeds(r, i, full.tomb, full.inst)
  <2>1. q.tomb[i] = full.tomb[i] /\ Buried(full, k) /\ ~Live(full, k)
    BY <1>0, <1>1 DEF ApplyTombstones, Heeds
  <2>2. CASE Live(r, k) /\ r.inst[k].version < full.tomb[i]
    <3>1. ~Live(q, k) /\ View(q, k) = View(full, k)
      BY <1>1, <2>1, <2>2 DEF ApplyTombstones, View
    <3> QED
      BY <2>1, <2>2, <3>1, ViewType DEF Newest
  <2>3. CASE ~(Live(r, k) /\ r.inst[k].version < full.tomb[i])
    <3>1. q.inst[k] = r.inst[k]
      BY <2>3 DEF ApplyTombstones
    <3>2. CASE Live(r, k)
      BY <2>1, <2>3, <3>1, <3>2, EntryTypes, ViewType DEF Newest, View
    <3>3. CASE ~Live(r, k)
      <4>1. View(q, k) = View(full, k)
        BY <2>1, <3>1, <3>3 DEF View
      <4>2. Buried(r, k) => View(r, k).version < View(full, k).version
        BY <1>1, <2>1, <3>3, ViewType DEF Heeds
      <4> QED
        BY <2>1, <3>3, <4>1, <4>2, ViewType DEF Newest
    <3> QED
      BY <3>2, <3>3
  <2> QED
    BY <2>2, <2>3
<1>2. CASE ~Heeds(r, i, full.tomb, full.inst)
  <2>1. View(q, k) = View(r, k)
    BY <1>0, <1>2 DEF ApplyTombstones, View
  <2>2. ~Live(full, k) /\ Buried(full, k) =>
          View(r, k) # Absent /\ ~(View(r, k).version < View(full, k).version)
    BY <1>2, EntryTypes, ViewType DEF Heeds, OneServicePerId, TombstonesRespected
  <2> QED
    BY <2>1, <2>2, ViewType DEF Newest
<1> QED
  BY <1>1, <1>2

\* Merging a full state is a join: the registry shows the newer of both.
LEMMA ViewAfterSync ==
    ASSUME NEW r \in Registry, NEW full \in Registry, NEW k \in Keys,
           TombstonesRespected(r), OneServicePerId
    PROVE  View(ApplySync(r, full), k) = Newest(View(r, k), View(full, k))
<1> DEFINE q == ApplyRegister(r, full.inst)
<1>1. q \in Registry /\ TombstonesRespected(q)
  BY ApplyRegisterType, ApplyRegisterRespects
<1>2. View(ApplySync(r, full), k) =
        IF Live(full, k) THEN View(q, k) ELSE Newest(View(q, k), View(full, k))
  BY <1>1, ViewAfterTombstones DEF ApplySync
<1> QED
  BY <1>2, ViewAfterRegister
=============================================================================
