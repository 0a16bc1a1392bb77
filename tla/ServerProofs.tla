----------------------------- MODULE ServerProofs -----------------------------
(***************************************************************************)
(* Theorems about a single registry (module Registry), and about its       *)
(* composition with subscribers (module Server), for any keys, services,   *)
(* clients and bounds.  The composition implements both of its parts: seen *)
(* through its registry a server behaves as Registry says, seen through    *)
(* its subscribers as Watcher says.  So what is proved of a registry holds *)
(* in a server, whose operations wait for subscribers.                     *)
(***************************************************************************)
EXTENDS Server, RegistryLemmas, FiniteSetTheorems

\* What the two removals have in common with a client's deregister.
LEMMA RemoveType ==
    ASSUME TypeOK, NEW k \in Keys, Remove(k)
    PROVE  reg' \in Registry /\ expected' \in Nat
<1>1. CASE Live(reg, k) /\ reg' = Deregister(reg, k)
  BY <1>1, DeregisterType DEF TypeOK, Remove
<1>2. CASE ~Live(reg, k)
  BY <1>2, DeregisterMissingType DEF TypeOK, Remove
<1> QED
  BY <1>1, <1>2 DEF Remove

LEMMA TypeStep == TypeOK /\ [Next]_vars => TypeOK'
<1> SUFFICES ASSUME TypeOK, [Next]_vars PROVE TypeOK'
  OBVIOUS
<1> USE DEF TypeOK
<1>1. ASSUME NEW k \in Keys, NEW v \in 1 .. MaxVersion, NEW s \in Status,
             RegisterInstance(k, v, s)
      PROVE  TypeOK'
  <2>1. v \in Version
    BY StandaloneAssumption DEF Version
  <2> QED
    BY <1>1, <2>1, RegisterType DEF RegisterInstance
<1>2. ASSUME NEW k \in Keys, DeregisterInstance(k) PROVE TypeOK'
  BY <1>2, RemoveType DEF DeregisterInstance
<1>3. ASSUME NEW k \in Keys, RenewInstance(k) PROVE TypeOK'
  BY <1>3, SetFreshType DEF RenewInstance
<1>4. ASSUME NEW k \in Keys, NEW s \in Status, ChangeStatus(k, s) PROVE TypeOK'
  BY <1>4, UpdateStatusType DEF ChangeStatus
<1>5. ASSUME NEW k \in Keys, HeartbeatLapse(k) PROVE TypeOK'
  BY <1>5, SetFreshType DEF HeartbeatLapse
<1>6. ASSUME NEW k \in Keys, EvictExpired(k) PROVE TypeOK'
  BY <1>6, RemoveType DEF EvictExpired, Expired
<1>7. ASSUME NEW k \in Keys, EvictNext(k) PROVE TypeOK'
  BY <1>7, RemoveType DEF EvictNext
<1>8. ASSUME NEW E \in SUBSET Ids, CleanupTombstones(E) PROVE TypeOK'
  BY <1>8, DropTombstonesType DEF CleanupTombstones
<1>9. ASSUME NEW b \in BOOLEAN, SetProtectionMode(b) PROVE TypeOK'
  BY <1>9 DEF SetProtectionMode
<1>10. CASE UNCHANGED vars
  BY <1>10 DEF vars
<1> QED
  BY <1>1, <1>2, <1>3, <1>4, <1>5, <1>6, <1>7, <1>8, <1>9, <1>10 DEF Next

\* The variables keep their types.
THEOREM TypeCorrect == Spec => []TypeOK
<1>1. Init => TypeOK
  <2> SUFFICES ASSUME Init PROVE TypeOK
    OBVIOUS
  <2>1. reg \in Registry
    BY EmptyRegistryType DEF Init
  <2>2. expected \in Nat /\ expired \in SUBSET Keys
    BY DEF Init
  <2>3. protected \in BOOLEAN
    BY DEF Init
  <2> QED
    BY <2>1, <2>2, <2>3 DEF TypeOK
<1> QED
  BY <1>1, TypeStep, PTL DEF Spec

-----------------------------------------------------------------------------
(* ExpectedMatchesLive is inductive with TypeOK: a step either registers one *)
(* more key, removes one, or leaves the set of registered keys alone.        *)

LEMMA LiveKeysFinite == IsFiniteSet(LiveKeys(reg))
    BY StandaloneAssumption, FS_Subset DEF LiveKeys

LEMMA RemoveCounts ==
    ASSUME TypeOK, ExpectedMatchesLive, NEW k \in Keys, Remove(k)
    PROVE  ExpectedMatchesLive'
<1>0. IsFiniteSet(LiveKeys(reg)) /\ Cardinality(LiveKeys(reg)) \in Nat
  BY LiveKeysFinite, FS_CardinalityType
<1>1. CASE Live(reg, k) /\ reg' = Deregister(reg, k)
  <2>1. k \in LiveKeys(reg) /\ LiveKeys(reg') = LiveKeys(reg) \ {k}
    BY <1>1 DEF LiveKeys, Live, Deregister, TypeOK, Registry
  <2>2. Cardinality(LiveKeys(reg')) = Cardinality(LiveKeys(reg)) - 1
    BY <1>0, <2>1, FS_RemoveElement
  <2>3. Cardinality(LiveKeys(reg)) # 0
    BY <1>0, <2>1, FS_EmptySet
  <2>4. expected' = IF expected > 0 THEN expected - 1 ELSE 0
    BY <1>1 DEF Remove
  <2> QED
    BY <1>0, <2>2, <2>3, <2>4 DEF ExpectedMatchesLive
<1>2. CASE ~Live(reg, k)
  <2>1. LiveKeys(reg') = LiveKeys(reg)
    BY <1>2 DEF Remove, LiveKeys, Live, DeregisterMissing, TypeOK, Registry
  <2> QED
    BY <1>2, <2>1 DEF ExpectedMatchesLive, Remove
<1> QED
  BY <1>1, <1>2 DEF Remove

LEMMA CountStep == TypeOK /\ ExpectedMatchesLive /\ [Next]_vars => ExpectedMatchesLive'
<1> SUFFICES ASSUME TypeOK, ExpectedMatchesLive, [Next]_vars PROVE ExpectedMatchesLive'
  OBVIOUS
<1>0. IsFiniteSet(LiveKeys(reg)) /\ Cardinality(LiveKeys(reg)) \in Nat
  BY LiveKeysFinite, FS_CardinalityType
<1>1. ASSUME NEW k \in Keys, NEW v \in 1 .. MaxVersion, NEW s \in Status,
             RegisterInstance(k, v, s)
      PROVE  ExpectedMatchesLive'
  <2>1. LiveKeys(reg') = LiveKeys(reg) \cup {k}
    <3>1. v \in Version
      BY StandaloneAssumption DEF Version
    <3>2. reg' = Register(reg, k, v, s) /\ Register(reg, k, v, s) \in Registry
      BY <1>1, <3>1, RegisterType DEF RegisterInstance, TypeOK
    <3>3. reg'.inst[k] = [version |-> RegisteredVersion(reg, k, v), status |-> s, fresh |-> TRUE]
      BY <3>2 DEF Register, TypeOK, Registry
    <3>4. reg'.inst[k] \in Instance
      BY <3>1, <3>3, RegisteredVersionType DEF Instance, TypeOK
    <3>5. Live(reg', k)
      BY <3>4, RegistryAssumption DEF Live
    <3> QED
      BY <3>2, <3>5 DEF LiveKeys, Live, Register, TypeOK, Registry
  <2>2. Cardinality(LiveKeys(reg) \cup {k}) =
          IF k \in LiveKeys(reg) THEN Cardinality(LiveKeys(reg))
          ELSE Cardinality(LiveKeys(reg)) + 1
    BY <1>0, FS_AddElement
  <2> QED
    BY <1>1, <2>1, <2>2 DEF RegisterInstance, ExpectedMatchesLive, LiveKeys
<1>2. ASSUME NEW k \in Keys, DeregisterInstance(k) \/ EvictExpired(k) \/ EvictNext(k)
      PROVE  ExpectedMatchesLive'
  BY <1>2, RemoveCounts DEF DeregisterInstance, EvictExpired, EvictNext
<1>3. ASSUME NEW k \in Keys, RenewInstance(k) \/ HeartbeatLapse(k)
      PROVE  ExpectedMatchesLive'
  <2>1. PICK f \in BOOLEAN : Live(reg, k) /\ reg' = SetFresh(reg, k, f)
    BY <1>3 DEF RenewInstance, HeartbeatLapse
  <2>2. Live(reg', k)
    <3>1. reg.inst[k] \in Instance /\ reg'.inst[k] = [reg.inst[k] EXCEPT !.fresh = f]
      BY <2>1, EntryTypes DEF SetFresh, TypeOK, Registry
    <3> QED
      BY <3>1, RegistryAssumption DEF Live, Instance
  <2>3. LiveKeys(reg') = LiveKeys(reg)
    BY <2>1, <2>2 DEF SetFresh, LiveKeys, Live, TypeOK, Registry
  <2> QED
    BY <1>3, <2>3 DEF RenewInstance, HeartbeatLapse, ExpectedMatchesLive
<1>4. ASSUME NEW k \in Keys, NEW s \in Status, ChangeStatus(k, s)
      PROVE  ExpectedMatchesLive'
  <2>1. Live(reg, k) /\ reg' = UpdateStatus(reg, k, s)
    BY <1>4 DEF ChangeStatus
  <2>2. Live(reg', k)
    <3>1. UpdateStatus(reg, k, s) \in Registry
      BY <2>1, UpdateStatusType DEF TypeOK
    <3>2. reg'.inst[k] = [version |-> reg.inst[k].version + 1, status |-> s,
                           fresh |-> reg.inst[k].fresh]
      BY <2>1 DEF UpdateStatus, TypeOK, Registry
    <3>3. reg.inst[k] \in Instance
      BY <2>1, EntryTypes DEF TypeOK
    <3>4. reg'.inst[k] \in Instance
      BY <3>2, <3>3 DEF Instance, Version
    <3> QED
      BY <3>4, RegistryAssumption DEF Live
  <2>3. LiveKeys(reg') = LiveKeys(reg)
    BY <2>1, <2>2 DEF UpdateStatus, LiveKeys, Live, TypeOK, Registry
  <2> QED
    BY <1>4, <2>3 DEF ChangeStatus, ExpectedMatchesLive
<1>5. ASSUME NEW E \in SUBSET Ids, CleanupTombstones(E) PROVE ExpectedMatchesLive'
  <2>1. LiveKeys(reg') = LiveKeys(reg)
    BY <1>5 DEF CleanupTombstones, DropTombstones, LiveKeys, Live, TypeOK, Registry
  <2> QED
    BY <1>5, <2>1 DEF CleanupTombstones, ExpectedMatchesLive
<1>6. ASSUME NEW b \in BOOLEAN, SetProtectionMode(b) PROVE ExpectedMatchesLive'
  BY <1>6 DEF SetProtectionMode, ExpectedMatchesLive
<1>7. CASE UNCHANGED vars
  BY <1>7 DEF vars, ExpectedMatchesLive
<1> QED
  BY <1>1, <1>2, <1>3, <1>4, <1>5, <1>6, <1>7 DEF Next

\* _expected_heartbeat_count is the number of registered instances, in every
\* state of a registry without gossip.
THEOREM CountCorrect == Spec => []ExpectedMatchesLive
<1>1. Init => ExpectedMatchesLive
  <2>1. Init => LiveKeys(reg) = {}
    BY DEF Init, LiveKeys, Live, EmptyRegistry
  <2> QED
    BY <2>1, FS_EmptySet DEF Init, ExpectedMatchesLive
<1> QED
  BY <1>1, TypeCorrect, CountStep, PTL DEF Spec

-----------------------------------------------------------------------------
(* ForgetsOnlyByExpiry: every other step leaves or raises what is known.      *)

LEMMA RegisterKnows ==
    ASSUME NEW r \in Registry, NEW k \in Keys, NEW l \in Keys, NEW v \in Version,
           NEW s \in Status, OneServicePerId
    PROVE  Known(r, l) <= Known(Register(r, k, v, s), l)
<1> DEFINE q == Register(r, k, v, s)
<1>1. q \in Registry
  BY RegisterType
<1>2. CASE l = k
  <2>1. q.inst[k] = [version |-> RegisteredVersion(r, k, v), status |-> s, fresh |-> TRUE]
    BY DEF Register, Registry
  <2>2. q.inst[k] \in Instance
    BY <2>1, RegisteredVersionType DEF Instance
  <2>3. Known(q, k) = RegisteredVersion(r, k, v)
    BY <1>1, <2>1, <2>2, KnownIs, RegistryAssumption DEF Live
  <2> QED
    BY <1>2, <2>3, KnownIs, EntryTypes DEF RegisteredVersion, Outranking, Version
<1>3. CASE l # k
  <2>1. q.inst[l] = r.inst[l] /\ q.tomb[IdOf[l]] = r.tomb[IdOf[l]]
    BY <1>3, EntryTypes DEF Register, Registry, OneServicePerId
  <2> QED
    BY <1>1, <2>1, KnownIs, EntryTypes DEF Live, Buried, Version
<1> QED
  BY <1>2, <1>3

LEMMA RemoveKnows ==
    ASSUME TypeOK, NEW k \in Keys, NEW l \in Keys, Remove(k), OneServicePerId
    PROVE  Known(reg, l) <= Known(reg', l)
<1>0. reg \in Registry /\ reg' \in Registry
  BY RemoveType DEF TypeOK
<1>1. CASE l = k
  <2>1. CASE Live(reg, k) /\ reg' = Deregister(reg, k)
    <3>1. ~Live(reg', k) /\ reg'.tomb[IdOf[k]] = reg.inst[k].version + 1
      BY <1>0, <2>1, EntryTypes DEF Deregister, Live, Registry
    <3>2. Buried(reg', k)
      BY <1>0, <2>1, <3>1, EntryTypes, RegistryAssumption DEF Buried, Version
    <3> QED
      BY <1>0, <1>1, <2>1, <3>1, <3>2, KnownIs, EntryTypes
  <2>2. CASE ~Live(reg, k)
    <3>1. CASE Buried(reg, k)
      <4>1. reg' = DeregisterMissing(reg, k)
        BY <2>2, <3>1 DEF Remove
      <4>2. ~Live(reg', k) /\ reg'.tomb[IdOf[k]] = reg.tomb[IdOf[k]] + 1
        BY <1>0, <2>2, <4>1, EntryTypes DEF DeregisterMissing, Live, Registry
      <4>3. Buried(reg', k)
        BY <1>0, <3>1, <4>2, EntryTypes, RegistryAssumption DEF Buried, Version
      <4> QED
        BY <1>0, <1>1, <2>2, <3>1, <4>2, <4>3, KnownIs, EntryTypes DEF Version
    <3>2. CASE ~Buried(reg, k)
      BY <1>0, <1>1, <2>2, <3>2, KnownIs DEF Remove
    <3> QED
      BY <3>1, <3>2
  <2> QED
    BY <2>1, <2>2 DEF Remove
<1>2. CASE l # k
  <2>1. reg'.inst[l] = reg.inst[l] /\ reg'.tomb[IdOf[l]] = reg.tomb[IdOf[l]]
    BY <1>0, <1>2, EntryTypes
    DEF Remove, Deregister, DeregisterMissing, Registry, OneServicePerId
  <2> QED
    BY <1>0, <2>1, KnownIs, EntryTypes DEF Live, Buried, Version
<1> QED
  BY <1>1, <1>2

\* Rewriting a registered instance under the same or a higher version.
LEMMA RewriteKnows ==
    ASSUME NEW r \in Registry, NEW q \in Registry, NEW k \in Keys, NEW l \in Keys,
           Live(r, k), q.inst = [r.inst EXCEPT ![k] = q.inst[k]], q.tomb = r.tomb,
           q.inst[k] \in Instance, r.inst[k].version <= q.inst[k].version
    PROVE  Known(r, l) <= Known(q, l)
<1>1. CASE l = k
  BY <1>1, KnownIs, RegistryAssumption DEF Live
<1>2. CASE l # k
  <2>1. q.inst[l] = r.inst[l]
    BY <1>2 DEF Registry
  <2> QED
    BY <2>1, KnownIs, EntryTypes DEF Live, Buried, Version
<1> QED
  BY <1>1, <1>2

LEMMA UpdateKnows ==
    ASSUME NEW r \in Registry, NEW k \in Keys, NEW l \in Keys, Live(r, k), NEW s \in Status
    PROVE  Known(r, l) <= Known(UpdateStatus(r, k, s), l)
<1> DEFINE q == UpdateStatus(r, k, s)
<1>1. q.inst[k] = [version |-> r.inst[k].version + 1, status |-> s, fresh |-> r.inst[k].fresh]
  BY DEF UpdateStatus, Registry
<1>2. q.inst = [r.inst EXCEPT ![k] = q.inst[k]] /\ q.tomb = r.tomb
  BY <1>1 DEF UpdateStatus, Registry
<1>3. r.inst[k] \in Instance
  BY EntryTypes
<1>4. q.inst[k] \in Instance /\ r.inst[k].version <= q.inst[k].version
  BY <1>1, <1>3 DEF Instance, Version
<1> QED
  BY <1>2, <1>4, UpdateStatusType, RewriteKnows

LEMMA FreshKnows ==
    ASSUME NEW r \in Registry, NEW k \in Keys, NEW l \in Keys, Live(r, k), NEW f \in BOOLEAN
    PROVE  Known(r, l) <= Known(SetFresh(r, k, f), l)
<1> DEFINE q == SetFresh(r, k, f)
<1>1. q.inst[k] = [r.inst[k] EXCEPT !.fresh = f]
  BY DEF SetFresh, Registry
<1>2. q.inst = [r.inst EXCEPT ![k] = q.inst[k]] /\ q.tomb = r.tomb
  BY <1>1 DEF SetFresh, Registry
<1>3. r.inst[k] \in Instance
  BY EntryTypes
<1>4. q.inst[k] \in Instance /\ r.inst[k].version <= q.inst[k].version
  BY <1>1, <1>3 DEF Instance, Version
<1> QED
  BY <1>2, <1>4, SetFreshType, RewriteKnows

\* With unique ids, only an expired tombstone makes a registry forget how new
\* its entry for a key is.
THEOREM ForgetsOnlyByExpiryHolds == OneServicePerId => (Spec => ForgetsOnlyByExpiry)
<1> SUFFICES ASSUME OneServicePerId PROVE Spec => ForgetsOnlyByExpiry
  OBVIOUS
<1>1. TypeOK /\ [Next]_vars => [ForgetsByExpiry]_vars
  <2> SUFFICES ASSUME TypeOK, Next, NEW l \in Keys,
                      Known(reg, l)' < Known(reg, l),
                      ~ \E E \in SUBSET Ids : CleanupTombstones(E)
               PROVE  FALSE
    BY DEF ForgetsByExpiry
  <2>0. /\ reg \in Registry
        /\ Known(reg, l) \in Nat
    BY KnownIs, EntryTypes DEF TypeOK, Version
  <2>1. ASSUME NEW k \in Keys, NEW v \in 1 .. MaxVersion, NEW s \in Status,
               RegisterInstance(k, v, s)
        PROVE  FALSE
    <3>1. v \in Version
      BY StandaloneAssumption DEF Version
    <3>2. reg' = Register(reg, k, v, s) /\ reg' \in Registry
      BY <2>0, <2>1, <3>1, RegisterType DEF RegisterInstance
    <3>3. Known(reg, l) <= Known(reg', l) /\ Known(reg', l) \in Nat
      BY <2>0, <3>1, <3>2, RegisterKnows, KnownIs, EntryTypes DEF Version
    <3> QED
      BY <2>0, <3>3
  <2>2. ASSUME NEW k \in Keys, Remove(k) PROVE FALSE
    <3>1. Known(reg, l) <= Known(reg', l) /\ Known(reg', l) \in Nat
      BY <2>2, RemoveKnows, RemoveType, KnownIs, EntryTypes DEF Version
    <3> QED
      BY <2>0, <3>1
  <2>3. ASSUME NEW k \in Keys, RenewInstance(k) \/ HeartbeatLapse(k) PROVE FALSE
    <3>1. PICK f \in BOOLEAN : Live(reg, k) /\ reg' = SetFresh(reg, k, f)
      BY <2>3 DEF RenewInstance, HeartbeatLapse
    <3>2. Known(reg, l) <= Known(reg', l) /\ Known(reg', l) \in Nat
      BY <2>0, <3>1, FreshKnows, SetFreshType, KnownIs, EntryTypes DEF Version
    <3> QED
      BY <2>0, <3>2
  <2>4. ASSUME NEW k \in Keys, NEW s \in Status, ChangeStatus(k, s) PROVE FALSE
    <3>1. Live(reg, k) /\ reg' = UpdateStatus(reg, k, s)
      BY <2>4 DEF ChangeStatus
    <3>2. Known(reg, l) <= Known(reg', l) /\ Known(reg', l) \in Nat
      BY <2>0, <3>1, UpdateKnows, UpdateStatusType, KnownIs, EntryTypes DEF Version
    <3> QED
      BY <2>0, <3>2
  <2>5. ASSUME NEW b \in BOOLEAN, SetProtectionMode(b) PROVE FALSE
    BY <2>0, <2>5 DEF SetProtectionMode
  <2> QED
    BY <2>1, <2>2, <2>3, <2>4, <2>5 DEF Next, DeregisterInstance, EvictExpired, EvictNext
<1> QED
  BY <1>1, TypeCorrect, PTL DEF Spec, ForgetsOnlyByExpiry

-----------------------------------------------------------------------------
(* The composition. *)

WP == INSTANCE WatcherProofs

\* Every step of a server is a step of its registry, or leaves it alone.
LEMMA RegistryStep == [ServerNext]_serverVars => [Next]_vars
<1> SUFFICES ASSUME [ServerNext]_serverVars PROVE [Next]_vars
  OBVIOUS
<1>1. ASSUME NEW k \in Keys, NEW v \in 1 .. MaxVersion, NEW s \in Status, HandleRegister(k, v, s)
      PROVE  Next
  BY <1>1 DEF HandleRegister, Next
<1>2. ASSUME NEW k \in Keys, HandleDeregister(k) PROVE Next
  BY <1>2 DEF HandleDeregister, Next
<1>3. ASSUME NEW k \in Keys, NEW s \in Status, HandleUpdateStatus(k, s) PROVE Next
  BY <1>3 DEF HandleUpdateStatus, Next
<1>4. ASSUME NEW k \in Keys, BeginEviction(k) PROVE Next
  BY <1>4 DEF BeginEviction, Next
<1>5. ASSUME NEW k \in Keys, ContinueEviction(k) PROVE Next
  BY <1>5 DEF ContinueEviction, Next
<1>6. CASE Unnoticed
  BY <1>6 DEF Unnoticed, Next
<1>7. CASE Subscribers
  BY <1>7 DEF Subscribers
<1>8. CASE UNCHANGED serverVars
  BY <1>8 DEF serverVars
<1> QED
  BY <1>1, <1>2, <1>3, <1>4, <1>5, <1>6, <1>7, <1>8 DEF ServerNext

\* A change of an instance is a change of its service to the subscribers.
LEMMA NotifyStep ==
    ASSUME NEW k \in Keys, Notify(k)
    PROVE  W!Next
<1>1. ServiceOf[k] \in Services
  BY ServerAssumption
<1> QED
  BY <1>1 DEF Notify, W!Next

\* Every step of a server is a step of its subscribers, or leaves them alone.
LEMMA WatcherStep == [ServerNext]_serverVars => [W!Next]_(W!vars)
<1> SUFFICES ASSUME [ServerNext]_serverVars PROVE [W!Next]_(W!vars)
  OBVIOUS
<1>0. UNCHANGED watcherVars => UNCHANGED W!vars
  BY DEF watcherVars, W!vars
<1>1. ASSUME NEW k \in Keys, NEW v \in 1 .. MaxVersion, NEW s \in Status, HandleRegister(k, v, s)
      PROVE  W!Next
  BY <1>1, NotifyStep DEF HandleRegister
<1>2. ASSUME NEW k \in Keys, HandleDeregister(k) PROVE W!Next \/ UNCHANGED watcherVars
  BY <1>2, NotifyStep DEF HandleDeregister
<1>3. ASSUME NEW k \in Keys, NEW s \in Status, HandleUpdateStatus(k, s) PROVE W!Next
  BY <1>3, NotifyStep DEF HandleUpdateStatus
<1>4. ASSUME NEW k \in Keys, BeginEviction(k) PROVE W!Next
  BY <1>4, NotifyStep DEF BeginEviction
<1>5. ASSUME NEW k \in Keys, ContinueEviction(k) PROVE W!Next \/ UNCHANGED watcherVars
  BY <1>5, NotifyStep DEF ContinueEviction
<1>6. CASE Unnoticed
  BY <1>0, <1>6 DEF Unnoticed
<1>7. CASE Subscribers
  BY <1>7 DEF Subscribers, W!Next
<1>8. CASE UNCHANGED serverVars
  BY <1>0, <1>8 DEF serverVars
<1> QED
  BY <1>0, <1>1, <1>2, <1>3, <1>4, <1>5, <1>6, <1>7, <1>8 DEF ServerNext

-----------------------------------------------------------------------------
\* Although its operations notify and wait, a server keeps its registry exactly
\* as a registry without subscribers may: waiting adds no behaviour to it.
THEOREM ImplementsRegistry == ServerSpec => Spec
<1>1. ServerInit => Init
  BY DEF ServerInit
<1> QED
  BY <1>1, RegistryStep, PTL DEF ServerSpec, Spec

\* Whatever the registry and its eviction loop do, the subscribers see one of the
\* behaviours of Watcher: each change is notified once, and in one place only.
THEOREM ImplementsWatcher == ServerSpec => W!Spec
<1>1. ServerInit => W!Init
  BY DEF ServerInit
<1> QED
  BY <1>1, WatcherStep, PTL DEF ServerSpec, W!Spec

\* In a server, whose operations wait for subscribers between two removals of a
\* round of eviction, the expected heartbeats stay those of the instances
\* registered.
THEOREM ServerCountCorrect == ServerSpec => []ExpectedMatchesLive
  BY ImplementsRegistry, CountCorrect, PTL

\* Nor does a server forget a version in another way than by the expiry of a
\* tombstone.
THEOREM ServerForgetsOnlyByExpiry == OneServicePerId => (ServerSpec => ForgetsOnlyByExpiry)
  BY ImplementsRegistry, ForgetsOnlyByExpiryHolds, PTL

-----------------------------------------------------------------------------
(* What is proved of the subscribers. *)

\* The theorems of WatcherProofs are about the same operators.
LEMMA SameSpec == WP!WatcherAssumption /\ (W!Spec => WP!Spec)
<1>1. WP!WatcherAssumption
  BY SubscriberAssumption DEF W!WatcherAssumption, WP!WatcherAssumption
<1>2. W!Init <=> WP!Init
  BY DEF W!Init, WP!Init, W!Topics, WP!Topics
<1>3. W!Next <=> WP!Next
  BY DEF W!Next, WP!Next, W!Objects, WP!Objects, W!Changes, WP!Changes, W!Topics, WP!Topics,
         W!Subscribe, WP!Subscribe, W!Enlist, WP!Enlist,
         W!Unsubscribe, WP!Unsubscribe, W!Delist, WP!Delist, W!RemoveAt, WP!RemoveAt,
         W!Change, WP!Change, W!Resume, WP!Resume, W!Targets, WP!Targets,
         W!Put, WP!Put, W!Rest, WP!Rest, W!Reach, WP!Reach, W!HasRoom, WP!HasRoom,
         W!GetEvents, WP!GetEvents, W!AwaitEvents, WP!AwaitEvents,
         W!ReceiveEvents, WP!ReceiveEvents, W!TimeOut, WP!TimeOut, W!Drain, WP!Drain
<1>4. UNCHANGED W!vars <=> UNCHANGED WP!vars
  BY DEF W!vars, WP!vars
<1>5. [W!Next]_(W!vars) => [WP!Next]_(WP!vars)
  BY <1>3, <1>4
<1>6. W!Spec => WP!Spec
  BY <1>2, <1>5, PTL DEF W!Spec, WP!Spec
<1> QED
  BY <1>1, <1>6

LEMMA SubscribersTyped == ServerSpec => []W!TypeOK
<1>1. WP!TypeOK => W!TypeOK
  BY DEF W!TypeOK, WP!TypeOK, W!Objects, WP!Objects, W!Changes, WP!Changes, W!Topics, WP!Topics
<1>2. WP!Spec => []WP!TypeOK
  BY SameSpec, WP!TypeCorrect
<1> QED
  BY <1>1, <1>2, SameSpec, ImplementsWatcher, PTL

\* In a server, whose registry and eviction loop make the changes, each change
\* reaches each of its subscribers exactly once.
THEOREM ServerExactlyOnce == ServerSpec => []W!ExactlyOnce
<1>1. WP!ExactlyOnce => W!ExactlyOnce
  BY DEF W!ExactlyOnce, WP!ExactlyOnce, W!Occurrences, WP!Occurrences,
         W!Cardinality, WP!Cardinality, W!Objects, WP!Objects, W!Changes, WP!Changes
<1>2. WP!Spec => []WP!ExactlyOnce
  BY SameSpec, WP!AlwaysExactlyOnce
<1> QED
  BY <1>1, <1>2, SameSpec, ImplementsWatcher, PTL

\* The changes stay, and a new one gets the next number.
LEMMA ChangesGrow ==
    ASSUME W!TypeOK, [ServerNext]_serverVars
    PROVE  /\ W!Changes \subseteq W!Changes'
           /\ awaited' # awaited => awaited' \in W!Changes'
<1>1. ASSUME NEW k \in Keys, Notify(k)
      PROVE  W!Changes \subseteq W!Changes' /\ Len(due) + 1 \in W!Changes'
  <2>1. due' = Append(due, W!Targets(ServiceOf[k])) /\ due \in Seq(Seq(W!Objects))
    BY <1>1 DEF Notify, W!Change, W!TypeOK
  <2>2. Len(due) \in Nat /\ DOMAIN due = 1 .. Len(due) /\ DOMAIN due' = 1 .. Len(due) + 1
    BY <2>1
  <2> QED
    BY <2>2 DEF W!Changes
<1>2. ASSUME UNCHANGED due, UNCHANGED awaited
      PROVE  W!Changes \subseteq W!Changes' /\ awaited' = awaited
  BY <1>2 DEF W!Changes
<1>3. ASSUME NEW k \in Keys, NEW v \in 1 .. MaxVersion, NEW s \in Status, HandleRegister(k, v, s)
      PROVE  W!Changes \subseteq W!Changes' /\ awaited' = awaited
  BY <1>1, <1>3 DEF HandleRegister
<1>4. ASSUME NEW k \in Keys, HandleDeregister(k)
      PROVE  W!Changes \subseteq W!Changes' /\ awaited' = awaited
  BY <1>1, <1>2, <1>4 DEF HandleDeregister, watcherVars
<1>5. ASSUME NEW k \in Keys, NEW s \in Status, HandleUpdateStatus(k, s)
      PROVE  W!Changes \subseteq W!Changes' /\ awaited' = awaited
  BY <1>1, <1>5 DEF HandleUpdateStatus
<1>6. ASSUME NEW k \in Keys, BeginEviction(k)
      PROVE  W!Changes \subseteq W!Changes' /\ awaited' \in W!Changes'
  BY <1>1, <1>6 DEF BeginEviction
<1>7. ASSUME NEW k \in Keys, ContinueEviction(k)
      PROVE  W!Changes \subseteq W!Changes' /\ (awaited' # awaited => awaited' \in W!Changes')
  BY <1>1, <1>2, <1>7 DEF ContinueEviction, watcherVars
<1>8. CASE Unnoticed
  BY <1>2, <1>8 DEF Unnoticed, watcherVars
<1>9. CASE Subscribers
  <2>1. UNCHANGED due
    BY <1>9 DEF Subscribers, W!Resume, W!Subscribe, W!GetEvents, W!Drain
  <2> QED
    BY <1>2, <1>9, <2>1 DEF Subscribers
<1>10. CASE UNCHANGED serverVars
  BY <1>2, <1>10 DEF serverVars, watcherVars
<1> QED
  BY <1>3, <1>4, <1>5, <1>6, <1>7, <1>8, <1>9, <1>10 DEF ServerNext

\* The registry's and the subscribers' variables keep their types, and the
\* eviction loop awaits the notification of a change that was made.
THEOREM ServerTypeCorrect == ServerSpec => []ServerTypeOK
<1> DEFINE Awaits == awaited \in {0} \cup W!Changes
<1>1. ServerInit => Awaits
  BY DEF ServerInit
<1>2. W!TypeOK /\ Awaits /\ [ServerNext]_serverVars => Awaits'
  BY ChangesGrow
<1>3. TypeOK /\ W!TypeOK /\ Awaits => ServerTypeOK
  BY DEF ServerTypeOK
<1> HIDE DEF Awaits
<1> QED
  BY <1>1, <1>2, <1>3, SubscribersTyped, ImplementsRegistry, TypeCorrect, PTL DEF ServerSpec
=============================================================================
