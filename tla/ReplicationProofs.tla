--------------------------- MODULE ReplicationProofs ---------------------------
(***************************************************************************)
(* Theorems about replicated registries (module Replication), for any      *)
(* nodes, keys, writers and bounds.                                        *)
(***************************************************************************)
EXTENDS Replication, RegistryLemmas

USE DEF histories

\* A delta's one-instance snapshot is a registry.
LEMMA OnlyType ==
    ASSUME NEW k \in Keys, NEW x \in Instance
    PROVE  Only(k, x) \in Registry
    BY EmptyRegistryType DEF Only, Registry

\* What a local operation leaves of the invariant, given what it does at one node.
LEMMA WriteKeeps ==
    ASSUME TypeOK, TombstonesHonoured, NEW n \in Nodes, NEW k \in Keys,
           NEW r \in Registry, TombstonesRespected(r), Live(r, k) \/ Buried(r, k),
           Write(n, k, r)
    PROVE  /\ reg' \in [Nodes -> Registry]
           /\ network' \in SUBSET Message
           /\ written' \in [Keys -> SUBSET Entry]
           /\ contested' \in SUBSET Keys
           /\ TombstonesHonoured'
<1>1. View(r, k) \in Entry
  BY ViewType
<1>2. reg' = [reg EXCEPT ![n] = r]
  BY DEF Write
<1>3. TombstonesHonoured'
  BY <1>2 DEF TombstonesHonoured, TypeOK
<1> QED
  BY <1>1, <1>2, <1>3 DEF Write, TypeOK

LEMMA PropagateType ==
    ASSUME TypeOK, NEW n \in Nodes, NEW k \in Keys, NEW x \in Instance,
           NEW kind \in {"CHANGE", "DEREGISTER"}, Propagate(n, kind, k, x)
    PROVE  queue' \in [Nodes -> SUBSET Delta]
<1>1. [kind |-> kind, state |-> Only(k, x)] \in Delta
  BY OnlyType DEF Delta
<1> QED
  BY <1>1 DEF Propagate, TypeOK

\* Deregistering an instance, for a client or for the eviction loop.
LEMMA RemoveKeeps ==
    ASSUME TypeOK, TombstonesHonoured, NEW n \in Nodes, NEW k \in Keys,
           Live(reg[n], k), Remove(n, k)
    PROVE  (TypeOK /\ TombstonesHonoured)'
<1> DEFINE r == Deregister(reg[n], k)
           x == [reg[n].inst[k] EXCEPT !.version = @ + 1]
<1>0. reg[n] \in Registry /\ TombstonesRespected(reg[n])
  BY DEF TypeOK, TombstonesHonoured
<1>1. r \in Registry /\ TombstonesRespected(r)
  BY <1>0, DeregisterType, DeregisterRespects, ReplicationAssumption
<1>2. Buried(r, k)
  <2>1. r.tomb[IdOf[k]] = reg[n].inst[k].version + 1
    BY <1>0, EntryTypes DEF Deregister, Registry
  <2>2. r.tomb[IdOf[k]] \in Version
    BY <1>0, <2>1, EntryTypes DEF Version
  <2> QED
    BY <2>2, RegistryAssumption DEF Buried
<1>3. reg[n].inst[k] \in Instance
  BY <1>0, EntryTypes
<1>4. x \in Instance
  BY <1>3 DEF Instance, Version
<1>5. Write(n, k, r) /\ Propagate(n, "DEREGISTER", k, x)
  BY DEF Remove
<1>6. queue' \in [Nodes -> SUBSET Delta]
  BY <1>4, <1>5, PropagateType
<1> QED
  BY <1>1, <1>2, <1>5, <1>6, WriteKeeps DEF TypeOK

LEMMA LocalKeeps ==
    ASSUME TypeOK, TombstonesHonoured, NEW n \in Nodes, NEW k \in Keys, LocalNext(n, k)
    PROVE  (TypeOK /\ TombstonesHonoured)'
<1>0. reg[n] \in Registry /\ TombstonesRespected(reg[n])
  BY DEF TypeOK, TombstonesHonoured
<1>1. ASSUME NEW v \in 1 .. MaxVersion, NEW s \in Status, RegisterInstance(n, k, v, s)
      PROVE  (TypeOK /\ TombstonesHonoured)'
  <2> DEFINE r == Register(reg[n], k, v, s)
  <2>1. v \in Version
    BY ReplicationAssumption DEF Version
  <2>2. r \in Registry /\ TombstonesRespected(r)
    BY <1>0, <2>1, RegisterType, RegisterRespects, ReplicationAssumption
  <2>3. r.inst[k] = [version |-> RegisteredVersion(reg[n], k, v), status |-> s, fresh |-> TRUE]
    BY <1>0 DEF Register, Registry
  <2>4. r.inst[k] \in Instance
    BY <1>0, <2>1, <2>3, RegisteredVersionType DEF Instance
  <2>5. Live(r, k)
    BY <2>4, RegistryAssumption DEF Live
  <2>6. Write(n, k, r) /\ Propagate(n, "CHANGE", k, r.inst[k])
    BY <1>1 DEF RegisterInstance
  <2>7. queue' \in [Nodes -> SUBSET Delta]
    BY <2>4, <2>6, PropagateType
  <2> QED
    BY <2>2, <2>5, <2>6, <2>7, WriteKeeps DEF TypeOK
<1>2. ASSUME NEW s \in Status, ChangeStatus(n, k, s)
      PROVE  (TypeOK /\ TombstonesHonoured)'
  <2> DEFINE r == UpdateStatus(reg[n], k, s)
  <2>1. Live(reg[n], k)
    BY <1>2 DEF ChangeStatus
  <2>2. r \in Registry /\ TombstonesRespected(r)
    BY <1>0, <2>1, UpdateStatusType, UpdateStatusRespects
  <2>3. r.inst[k] = [version |-> reg[n].inst[k].version + 1, status |-> s,
                     fresh |-> reg[n].inst[k].fresh]
    BY <1>0 DEF UpdateStatus, Registry
  <2>4. r.inst[k] \in Instance
    BY <1>0, <2>1, <2>3, EntryTypes DEF Instance, Version
  <2>5. Live(r, k)
    BY <2>4, RegistryAssumption DEF Live
  <2>6. Write(n, k, r) /\ Propagate(n, "CHANGE", k, r.inst[k])
    BY <1>2 DEF ChangeStatus
  <2>7. queue' \in [Nodes -> SUBSET Delta]
    BY <2>4, <2>6, PropagateType
  <2> QED
    BY <2>2, <2>5, <2>6, <2>7, WriteKeeps DEF TypeOK
<1>3. CASE DeregisterInstance(n, k)
  BY <1>3, RemoveKeeps DEF DeregisterInstance
<1>4. CASE RepeatDeregister(n, k)
  <2> DEFINE r == DeregisterMissing(reg[n], k)
  <2>1. ~Live(reg[n], k) /\ Buried(reg[n], k) /\ Write(n, k, r) /\ queue' = queue
    BY <1>4 DEF RepeatDeregister
  <2>2. r \in Registry /\ TombstonesRespected(r)
    BY <1>0, <2>1, DeregisterMissingType, DeregisterMissingRespects, ReplicationAssumption
  <2>3. r.tomb[IdOf[k]] \in Version
    BY <1>0, <2>1, EntryTypes DEF DeregisterMissing, Registry, Version
  <2>4. Buried(r, k)
    BY <2>3, RegistryAssumption DEF Buried
  <2> QED
    BY <2>1, <2>2, <2>4, WriteKeeps DEF TypeOK
<1>5. CASE Evict(n, k)
  BY <1>5, RemoveKeeps DEF Evict, Expired
<1>6. CASE RenewInstance(n, k) \/ HeartbeatLapse(n, k)
  <2>1. PICK f \in BOOLEAN : SetHeard(n, k, f)
    BY <1>6 DEF RenewInstance, HeartbeatLapse
  <2> DEFINE r == SetFresh(reg[n], k, f)
  <2>2. Live(reg[n], k) /\ reg' = [reg EXCEPT ![n] = r]
    BY <2>1 DEF SetHeard
  <2>3. r \in Registry /\ TombstonesRespected(r)
    BY <1>0, <2>2, SetFreshType, SetFreshRespects
  <2> QED
    BY <2>1, <2>2, <2>3 DEF SetHeard, TypeOK, TombstonesHonoured
<1> QED
  BY <1>1, <1>2, <1>3, <1>4, <1>5, <1>6 DEF LocalNext

-----------------------------------------------------------------------------
(* Sending and receiving. *)

LEMMA TransmitType ==
    ASSUME NEW rest \in SUBSET Message, NEW sent \in SUBSET Message, Transmit(rest, sent)
    PROVE  network' \in SUBSET Message
    BY DEF Transmit

LEMMA WithoutType ==
    ASSUME TypeOK, NEW m \in network, NEW rest \in Without(m)
    PROVE  rest \in SUBSET Message
    BY DEF Without, TypeOK

LEMMA BroadcastKeeps ==
    ASSUME TypeOK, TombstonesHonoured, NEW n \in Nodes, Broadcast(n)
    PROVE  (TypeOK /\ TombstonesHonoured)'
<1> DEFINE sent == {[kind |-> d.kind, src |-> n, dst |-> m, state |-> d.state] :
                       d \in queue[n], m \in Nodes \ {n}}
<1>1. sent \in SUBSET Message
  <2> SUFFICES ASSUME NEW d \in queue[n], NEW m \in Nodes \ {n}
               PROVE  [kind |-> d.kind, src |-> n, dst |-> m, state |-> d.state] \in Message
    OBVIOUS
  <2>1. d \in Delta
    BY DEF TypeOK
  <2> QED
    BY <2>1 DEF Delta, Message
<1>2. network \in SUBSET Message /\ Transmit(network, sent)
  BY DEF TypeOK, Broadcast
<1>3. network' \in SUBSET Message
  BY <1>1, <1>2, TransmitType
<1> QED
  BY <1>3 DEF Broadcast, TypeOK, TombstonesHonoured

LEMMA FullStateType ==
    ASSUME NEW kind \in {"SYNC", "ACK"}, NEW n \in Nodes, NEW m \in Nodes, NEW r \in Registry
    PROVE  {FullState(kind, n, m, r)} \in SUBSET Message
    BY DEF FullState, Message

LEMMA SendSyncKeeps ==
    ASSUME TypeOK, TombstonesHonoured, NEW n \in Nodes, NEW m \in Nodes, SendSync(n, m)
    PROVE  (TypeOK /\ TombstonesHonoured)'
<1>1. {FullState("SYNC", n, m, reg[n])} \in SUBSET Message
  BY FullStateType DEF TypeOK
<1>2. network' \in SUBSET Message
  BY <1>1, TransmitType DEF SendSync, TypeOK
<1> QED
  BY <1>2 DEF SendSync, TypeOK, TombstonesHonoured

\* A merge keeps the receiving registry well formed.
LEMMA MergeKeeps ==
    ASSUME TypeOK, TombstonesHonoured, NEW m \in network, Merge(m)
    PROVE  reg' \in [Nodes -> Registry] /\ TombstonesHonoured'
<1>1. m.dst \in Nodes /\ m.state \in Registry
  BY DEF TypeOK, Message
<1>2. ApplySync(reg[m.dst], m.state) \in Registry
  BY <1>1, ApplySyncType DEF TypeOK
<1>3. TombstonesRespected(ApplySync(reg[m.dst], m.state))
  BY <1>1, ApplySyncRespects DEF TypeOK, TombstonesHonoured
<1> QED
  BY <1>1, <1>2, <1>3 DEF Merge, TypeOK, TombstonesHonoured

LEMMA DeliverKeeps ==
    ASSUME TypeOK, TombstonesHonoured, NEW m \in network, Deliver(m)
    PROVE  (TypeOK /\ TombstonesHonoured)'
<1>0. m.src \in Nodes /\ m.dst \in Nodes /\ m.state \in Registry
  BY DEF TypeOK, Message
<1>1. CASE DeliverSync(m)
  <2>1. reg' \in [Nodes -> Registry] /\ TombstonesHonoured'
    BY <1>1, MergeKeeps DEF DeliverSync
  <2>2. {FullState("ACK", m.dst, m.src, reg'[m.dst])} \in SUBSET Message
    BY <1>0, <2>1, FullStateType
  <2>3. PICK rest \in Without(m) :
          Transmit(rest, {FullState("ACK", m.dst, m.src, reg'[m.dst])})
    BY <1>1 DEF DeliverSync
  <2>4. network' \in SUBSET Message
    BY <2>2, <2>3, WithoutType, TransmitType
  <2> QED
    BY <1>1, <2>1, <2>4 DEF DeliverSync, TypeOK
<1>2. CASE DeliverState(m)
  <2>1. reg' \in [Nodes -> Registry] /\ TombstonesHonoured'
    BY <1>2, MergeKeeps DEF DeliverState
  <2> QED
    BY <1>2, <2>1, WithoutType DEF DeliverState, TypeOK
<1>3. CASE DeliverDeregister(m)
  <2>1. PICK k \in Keys :
          /\ Live(m.state, k)
          /\ reg' = [reg EXCEPT ![m.dst] = ApplyDeregister(@, k, m.state.inst[k].version)]
    BY <1>3 DEF DeliverDeregister
  <2> DEFINE r == ApplyDeregister(reg[m.dst], k, m.state.inst[k].version)
  <2>2. m.state.inst[k].version \in Version
    BY <1>0, <2>1, EntryTypes DEF Version
  <2>3. r \in Registry /\ TombstonesRespected(r)
    BY <1>0, <2>2, ApplyDeregisterType, ApplyDeregisterRespects, ReplicationAssumption
    DEF TypeOK, TombstonesHonoured
  <2> QED
    BY <1>0, <1>3, <2>1, <2>3, WithoutType
    DEF DeliverDeregister, TypeOK, TombstonesHonoured
<1> QED
  BY <1>1, <1>2, <1>3 DEF Deliver

-----------------------------------------------------------------------------
\* The types, and that no node lists an instance its own tombstone outranks.
IInv == TypeOK /\ TombstonesHonoured

LEMMA InitIInv == Init => IInv
<1> SUFFICES ASSUME Init PROVE IInv
  OBVIOUS
<1>1. TypeOK
  BY EmptyRegistryType DEF Init, TypeOK
<1>2. TombstonesHonoured
  BY EmptyRespects DEF Init, TombstonesHonoured
<1> QED
  BY <1>1, <1>2 DEF IInv

LEMMA StepIInv == IInv /\ [Next]_vars => IInv'
<1> SUFFICES ASSUME TypeOK, TombstonesHonoured, [Next]_vars
             PROVE  (TypeOK /\ TombstonesHonoured)'
  BY DEF IInv
<1>1. CASE \E n \in Nodes, k \in Keys : LocalNext(n, k)
  BY <1>1, LocalKeeps
<1>2. CASE \E n \in Nodes : Broadcast(n)
  BY <1>2, BroadcastKeeps
<1>3. CASE \E n, m \in Nodes : SendSync(n, m)
  BY <1>3, SendSyncKeeps
<1>4. CASE \E m \in network : Deliver(m)
  BY <1>4, DeliverKeeps
<1>5. CASE UNCHANGED vars
  BY <1>5 DEF vars, TypeOK, TombstonesHonoured
<1> QED
  BY <1>1, <1>2, <1>3, <1>4, <1>5 DEF Next

LEMMA Invariance == Spec => []IInv
    BY InitIInv, StepIInv, PTL DEF Spec

\* The variables keep their types.
THEOREM TypeCorrect == Spec => []TypeOK
    BY Invariance, PTL DEF IInv

\* Whoever writes where, and however deltas and states are lost, duplicated and
\* reordered: no node lists an instance that its own tombstone outranks.
THEOREM TombstonesAlwaysHonoured == Spec => []TombstonesHonoured
    BY Invariance, PTL DEF IInv

\* Merging a received state is a join in every reachable state, so a SYNC, its
\* ACK or a registration delta never makes a node show something older.
THEOREM SyncAlwaysMerges == Spec => SyncMerges
<1>1. IInv => [MergesAsJoin]_vars
  <2> SUFFICES ASSUME TypeOK, TombstonesHonoured, NEW m \in network, Merge(m), NEW k \in Keys
               PROVE  View(reg'[m.dst], k) = Newest(View(reg[m.dst], k), View(m.state, k))
    BY DEF IInv, MergesAsJoin, DeliverSync, DeliverState
  <2>1. m.dst \in Nodes /\ m.state \in Registry
    BY DEF TypeOK, Message
  <2>2. reg'[m.dst] = ApplySync(reg[m.dst], m.state)
    BY <2>1 DEF Merge, TypeOK
  <2> QED
    BY <2>1, <2>2, ViewAfterSync, ReplicationAssumption DEF TypeOK, TombstonesHonoured
<1> QED
  BY <1>1, Invariance, PTL DEF SyncMerges

-----------------------------------------------------------------------------
(***************************************************************************)
(* The replicated registries implement the catalogue of module Catalog.    *)
(***************************************************************************)
-----------------------------------------------------------------------------
(* What each operation shows for the key it is about, and for the others.    *)

USE DEF Registry, Instance, Version, Live, Buried

\* A view depends on the instance and the tombstone of its key only.
LEMMA SameView ==
    ASSUME NEW r, NEW q, NEW k \in Keys,
           q.inst[k] = r.inst[k], q.tomb[IdOf[k]] = r.tomb[IdOf[k]]
    PROVE  View(q, k) = View(r, k)
    BY DEF View

\* Entry e is newer than what registry r shows for k.
Newer(e, r, k) == e \in Entry /\ e.version > Known(r, k)

LEMMA RegisterShows ==
    ASSUME NEW r \in Registry, NEW k \in Keys, NEW v \in Version, NEW s \in Status,
           OneServicePerId
    PROVE  /\ Register(r, k, v, s).inst[k] \in Instance
           /\ Newer(View(Register(r, k, v, s), k), r, k)
           /\ \A l \in Keys \ {k} : View(Register(r, k, v, s), l) = View(r, l)
<1> DEFINE q == Register(r, k, v, s)
           w == RegisteredVersion(r, k, v)
<1>0. q \in Registry /\ w \in Version
  BY RegisterType, RegisteredVersionType
<1>1. q.inst[k] = [version |-> w, status |-> s, fresh |-> TRUE]
  BY DEF Register
<1>2. w > Known(r, k)
  BY KnownIs, EntryTypes DEF RegisteredVersion, Outranking
<1> HIDE DEF w
<1>3. q.inst[k] \in Instance /\ q.inst[k].version = w
  BY <1>0, <1>1
<1>4. View(q, k) \in Entry /\ View(q, k).version = w
  <2>1. Live(q, k)
    BY <1>3, RegistryAssumption
  <2> HIDE DEF q
  <2> QED
    BY <1>0, <1>3, <2>1, ViewType
<1>5. ASSUME NEW l \in Keys \ {k} PROVE View(q, l) = View(r, l)
  <2>1. q.inst[l] = r.inst[l] /\ q.tomb[IdOf[l]] = r.tomb[IdOf[l]]
    BY EntryTypes DEF Register, OneServicePerId
  <2> QED
    BY <2>1, SameView
<1> QED
  BY <1>2, <1>3, <1>4, <1>5 DEF Newer

LEMMA UpdateShows ==
    ASSUME NEW r \in Registry, NEW k \in Keys, NEW s \in Status, Live(r, k)
    PROVE  /\ UpdateStatus(r, k, s).inst[k] \in Instance
           /\ Newer(View(UpdateStatus(r, k, s), k), r, k)
           /\ \A l \in Keys \ {k} : View(UpdateStatus(r, k, s), l) = View(r, l)
<1> DEFINE q == UpdateStatus(r, k, s)
<1>0. q \in Registry
  BY UpdateStatusType
<1>1. q.inst[k] = [version |-> r.inst[k].version + 1, status |-> s, fresh |-> r.inst[k].fresh]
  BY DEF UpdateStatus
<1>2. r.inst[k] \in Instance
  BY EntryTypes
<1>3. q.inst[k] \in Instance /\ q.inst[k].version > r.inst[k].version
  BY <1>1, <1>2
<1>4. Live(q, k)
  BY <1>3, RegistryAssumption
<1>5. ASSUME NEW l \in Keys \ {k} PROVE View(q, l) = View(r, l)
  <2>1. q.inst[l] = r.inst[l] /\ q.tomb[IdOf[l]] = r.tomb[IdOf[l]]
    BY DEF UpdateStatus
  <2> QED
    BY <2>1, SameView
<1> HIDE DEF q
<1>6. Newer(View(q, k), r, k)
  BY <1>0, <1>2, <1>3, <1>4, KnownIs, ViewType DEF Newer
<1> QED
  BY <1>3, <1>5, <1>6 DEF q

LEMMA DeregisterShows ==
    ASSUME NEW r \in Registry, NEW k \in Keys, Live(r, k), OneServicePerId
    PROVE  /\ View(Deregister(r, k), k) = [version |-> r.inst[k].version + 1, content |-> Absent]
           /\ Newer(View(Deregister(r, k), k), r, k)
           /\ \A l \in Keys \ {k} : View(Deregister(r, k), l) = View(r, l)
<1> DEFINE q == Deregister(r, k)
<1>1. r.inst[k] \in Instance
  BY EntryTypes
<1>2. ~Live(q, k) /\ q.tomb[IdOf[k]] = r.inst[k].version + 1
  BY EntryTypes DEF Deregister
<1>3. Buried(q, k)
  BY <1>1, <1>2, RegistryAssumption
<1>4. View(q, k) = [version |-> r.inst[k].version + 1, content |-> Absent]
  BY <1>2, <1>3 DEF View
<1>5. Known(r, k) = r.inst[k].version
  BY KnownIs
<1>6. ASSUME NEW l \in Keys \ {k} PROVE View(q, l) = View(r, l)
  <2>1. q.inst[l] = r.inst[l] /\ q.tomb[IdOf[l]] = r.tomb[IdOf[l]]
    BY EntryTypes DEF Deregister, OneServicePerId
  <2> QED
    BY <2>1, SameView
<1> QED
  BY <1>1, <1>4, <1>5, <1>6 DEF Newer, Entry

LEMMA DeregisterMissingShows ==
    ASSUME NEW r \in Registry, NEW k \in Keys, ~Live(r, k), Buried(r, k), OneServicePerId
    PROVE  /\ Newer(View(DeregisterMissing(r, k), k), r, k)
           /\ View(DeregisterMissing(r, k), k).content = Absent
           /\ \A l \in Keys \ {k} : View(DeregisterMissing(r, k), l) = View(r, l)
<1> DEFINE q == DeregisterMissing(r, k)
<1>1. r.tomb[IdOf[k]] \in Version
  BY EntryTypes
<1>2. ~Live(q, k) /\ q.tomb[IdOf[k]] = r.tomb[IdOf[k]] + 1
  BY EntryTypes DEF DeregisterMissing
<1>3. Buried(q, k)
  BY <1>1, <1>2, RegistryAssumption
<1>4. View(q, k) = [version |-> r.tomb[IdOf[k]] + 1, content |-> Absent]
  BY <1>2, <1>3 DEF View
<1>5. Known(r, k) = r.tomb[IdOf[k]]
  BY KnownIs
<1>6. ASSUME NEW l \in Keys \ {k} PROVE View(q, l) = View(r, l)
  <2>1. q.inst[l] = r.inst[l] /\ q.tomb[IdOf[l]] = r.tomb[IdOf[l]]
    BY EntryTypes DEF DeregisterMissing, OneServicePerId
  <2> QED
    BY <2>1, SameView
<1> QED
  BY <1>1, <1>4, <1>5, <1>6 DEF Newer, Entry

\* When an instance was heard from is not shown.
LEMMA FreshShows ==
    ASSUME NEW r \in Registry, NEW k \in Keys, Live(r, k), NEW f \in BOOLEAN, NEW l \in Keys
    PROVE  View(SetFresh(r, k, f), l) = View(r, l)
<1> DEFINE q == SetFresh(r, k, f)
<1>1. q.tomb[IdOf[l]] = r.tomb[IdOf[l]] /\ (l # k => q.inst[l] = r.inst[l])
  BY DEF SetFresh
<1>2. r.inst[k] \in Instance
  BY EntryTypes
<1>3. q.inst[k] = [r.inst[k] EXCEPT !.fresh = f]
  BY DEF SetFresh
<1>4. q.inst[k] \in Instance /\ q.inst[k].version = r.inst[k].version
      /\ q.inst[k].status = r.inst[k].status
  BY <1>2, <1>3
<1>5. CASE l # k
  BY <1>1, <1>5, SameView
<1>6. CASE l = k
  BY <1>4, <1>6, RegistryAssumption DEF View
<1> QED
  BY <1>5, <1>6

\* A DEREGISTER delta is adopted as a tombstone, or ignored.
LEMMA ApplyDeregisterShows ==
    ASSUME NEW r \in Registry, NEW k \in Keys, NEW v \in Version, NEW l \in Keys,
           OneServicePerId
    PROVE  LET q == ApplyDeregister(r, k, v)
           IN  \/ View(q, l) = View(r, l)
               \/ l = k /\ View(q, l) = [version |-> v, content |-> Absent]
<1> DEFINE q == ApplyDeregister(r, k, v)
<1>1. CASE Buried(r, k) /\ r.tomb[IdOf[k]] >= v
  BY <1>1 DEF ApplyDeregister
<1>2. CASE ~(Buried(r, k) /\ r.tomb[IdOf[k]] >= v)
  <2>1. q = [inst |-> [r.inst EXCEPT ![k] = Absent], tomb |-> [r.tomb EXCEPT ![IdOf[k]] = v]]
    BY <1>2 DEF ApplyDeregister
  <2>2. CASE l = k
    <3>1. ~Live(q, k) /\ q.tomb[IdOf[k]] = v
      BY <2>1, EntryTypes
    <3>2. Buried(q, k)
      BY <3>1, RegistryAssumption
    <3> QED
      BY <2>2, <3>1, <3>2 DEF View
  <2>3. CASE l # k
    <3>1. q.inst[l] = r.inst[l] /\ q.tomb[IdOf[l]] = r.tomb[IdOf[l]]
      BY <2>1, <2>3, EntryTypes DEF OneServicePerId
    <3> QED
      BY <3>1, SameView
  <2> QED
    BY <2>2, <2>3
<1> QED
  BY <1>1, <1>2

\* A delta shows its instance and nothing else.
LEMMA OnlyShows ==
    ASSUME NEW k \in Keys, NEW x \in Instance, NEW l \in Keys
    PROVE  /\ ~Buried(Only(k, x), l)
           /\ Live(Only(k, x), l) <=> l = k
           /\ Only(k, x).inst[k] = x
           /\ View(Only(k, x), l) =
                IF l = k THEN [version |-> x.version, content |-> x.status] ELSE Absent
<1>1. ~Buried(Only(k, x), l) /\ Only(k, x).inst[l] = IF l = k THEN x ELSE Absent
  BY EntryTypes, EmptyRegistryType DEF Only, EmptyRegistry
<1>2. Only(k, x).inst[k] = x
  BY DEF Only, EmptyRegistry
<1> QED
  BY <1>1, <1>2, RegistryAssumption DEF View
HIDE DEF Registry, Instance, Version, Live, Buried

-----------------------------------------------------------------------------
(* The invariant.  Everything shown or in transit was written for its key,   *)
(* and if the key is not contested, its home shows the newest that was.      *)

\* What a delta or a datagram makes its receiver take over for k at most.
Offer(d, k) ==
    IF d.kind = "DEREGISTER"
    THEN IF Live(d.state, k)
         THEN [version |-> d.state.inst[k].version, content |-> Absent] ELSE Absent
    ELSE View(d.state, k)

\* What a delta or a datagram offers was written; DEREGISTER is a delta of one
\* instance, without tombstones.
Traced(d) ==
    \A k \in Keys :
        /\ Offer(d, k) \in written[k] \cup {Absent}
        /\ d.kind = "DEREGISTER" => ~Buried(d.state, k)

HomeIsUpToDate ==
    \A k \in Keys \ contested : \A e \in written[k] : e.version <= Known(reg[Home[k]], k)

ShownIsWritten ==
    \A n \in Nodes, k \in Keys : View(reg[n], k) \in written[k] \cup {Absent}

QueuedIsWritten ==
    \A n \in Nodes : \A d \in queue[n] :
        /\ Traced(d)
        /\ \A k \in Keys \ contested : Removes(d, k) => n = Home[k]

SentIsWritten ==
    \A m \in network :
        /\ Traced(m)
        /\ \A k \in Keys \ contested : Removes(m, k) => m.dst # Home[k]

Provenance ==
    /\ IInv
    /\ HomeIsUpToDate /\ ShownIsWritten /\ QueuedIsWritten /\ SentIsWritten

LEMMA HomeIs == \A k \in Keys : Home[k] \in Nodes
<1> SUFFICES ASSUME NEW k \in Keys PROVE Home[k] \in Nodes
  OBVIOUS
<1>1. Writers[k] \subseteq Nodes /\ Writers[k] # {}
  BY ReplicationAssumption
<1>2. Home[k] = CHOOSE n \in Writers[k] : TRUE
  BY DEF Home
<1> QED
  BY <1>1, <1>2

\* What is known is the version of what is shown.
LEMMA KnownOfView ==
    ASSUME NEW r \in Registry, NEW k \in Keys
    PROVE  /\ Known(r, k) \in Nat
           /\ View(r, k) = Absent => Known(r, k) = 0
           /\ View(r, k) # Absent => View(r, k) \in Entry /\ Known(r, k) = View(r, k).version
<1>1. View(r, k) # Absent => View(r, k) \in Entry
  BY ViewType
<1> QED
  BY <1>1 DEF Known, Entry, Version

-----------------------------------------------------------------------------
(* Steps that write. *)

\* How a write at node n changes which keys are contested.
Contends(n, k, e) ==
    /\ contested' \in {contested, contested \cup {k}, contested \ {k}}
    /\ k \notin contested' => n = Home[k] /\ (k \notin contested \/ Prevails(k, e))

LEMMA WriteContends ==
    ASSUME NEW n, NEW k \in Keys, NEW r, Write(n, k, r)
    PROVE  Contends(n, k, View(r, k))
<1>1. contested' = IF n # Home[k] THEN contested \cup {k}
                   ELSE IF Prevails(k, View(r, k)) THEN contested \ {k} ELSE contested
  BY DEF Write
<1> QED
  BY <1>1 DEF Contends

\* A write of k keeps what was said of written entries, and is a write of the
\* catalogue.
LEMMA WriteIsWrite ==
    ASSUME Provenance, NEW n \in Nodes, NEW k \in Keys, NEW r \in Registry,
           Newer(View(r, k), reg[n], k),
           \A l \in Keys \ {k} : View(r, l) = View(reg[n], l),
           Write(n, k, r)
    PROVE  /\ HomeIsUpToDate' /\ ShownIsWritten'
           /\ \A l \in Keys : written[l] \subseteq written'[l]
           /\ View(r, k) \in written'[k]
           /\ C!Write(n, k, View(r, k))
<1> DEFINE e == View(r, k)
<1>0. /\ reg \in [Nodes -> Registry] /\ written \in [Keys -> SUBSET Entry]
      /\ reg' = [reg EXCEPT ![n] = r]
      /\ written' = [written EXCEPT ![k] = @ \cup {e}]
  BY DEF Provenance, IInv, TypeOK, Write
<1>c. Contends(n, k, e)
  BY WriteContends
<1>1. e \in Entry /\ e.version > Known(reg[n], k)
  BY DEF Newer
<1>2. e # Absent /\ Known(r, k) = e.version /\ e.version \in Nat
  BY <1>1, KnownOfView, RegistryAssumption DEF Entry, Version
<1>3. \A l \in Keys : written[l] \subseteq written'[l]
  BY <1>0
<1>4. \A m \in Nodes, l \in Keys :
        View(reg'[m], l) = IF m = n /\ l = k THEN e ELSE View(reg[m], l)
  BY <1>0
<1>5. \A m \in Nodes, l \in Keys : m # n \/ l # k => Known(reg'[m], l) = Known(reg[m], l)
  BY <1>4 DEF Known
<1>6. ASSUME k \notin contested', NEW old \in written[k] PROVE old.version < e.version
  <2>1. n = Home[k] /\ (k \notin contested \/ Prevails(k, e))
    BY <1>c, <1>6 DEF Contends
  <2>2. CASE Prevails(k, e)
    BY <1>6, <2>2 DEF Prevails
  <2>3. CASE k \notin contested
    <3>1. old.version <= Known(reg[n], k)
      BY <1>6, <2>1, <2>3 DEF Provenance, HomeIsUpToDate
    <3>2. old.version \in Nat /\ Known(reg[n], k) \in Nat
      BY <1>0, <1>6, KnownOfView DEF Entry, Version
    <3> QED
      BY <1>1, <1>2, <3>1, <3>2
  <2> QED
    BY <2>1, <2>2, <2>3
<1>7. HomeIsUpToDate'
  <2> SUFFICES ASSUME NEW l \in Keys \ contested', NEW x \in written'[l]
               PROVE  x.version <= Known(reg'[Home[l]], l)
    BY DEF HomeIsUpToDate
  <2>1. Home[l] \in Nodes
    BY HomeIs
  <2>2. CASE l = k
    <3>1. x = e \/ x.version < e.version
      BY <1>0, <1>6, <2>2
    <3>2. x.version \in Nat
      BY <1>0, <1>1, <2>2 DEF Entry, Version
    <3>3. Known(reg'[Home[k]], k) = e.version
      BY <1>0, <1>2, <1>c, <2>2 DEF Contends
    <3> QED
      BY <1>2, <2>2, <3>1, <3>2, <3>3
  <2>3. CASE l # k
    <3>1. l \notin contested
      BY <1>c, <2>3 DEF Contends
    <3> QED
      BY <1>0, <1>5, <2>1, <2>3, <3>1 DEF Provenance, HomeIsUpToDate
  <2> QED
    BY <2>2, <2>3
<1>8. ShownIsWritten'
  BY <1>0, <1>3, <1>4 DEF Provenance, ShownIsWritten
<1>9. Shows' = [Shows EXCEPT ![n] = [Shows[n] EXCEPT ![k] = e]]
  BY <1>0, <1>4 DEF Shows
<1>10. C!Supersedes(e, Shows[n][k])
  <2>1. Shows[n][k] = View(reg[n], k)
    BY DEF Shows
  <2> QED
    BY <1>0, <1>1, <2>1, KnownOfView DEF C!Supersedes
<1> HIDE DEF e
<1>11. C!Write(n, k, e)
  <2>1. [Shows EXCEPT ![n] = [Shows[n] EXCEPT ![k] = e]] = [Shows EXCEPT ![n][k] = e]
    OBVIOUS
  <2>2. k \notin contested' => n = Home[k] /\ \A old \in written[k] : C!Supersedes(e, old)
    BY <1>6, <1>c DEF Contends, C!Supersedes
  <2> QED
    BY <1>0, <1>9, <1>10, <1>c, <2>1, <2>2 DEF C!Write, Contends
<1> QED
  BY <1>0, <1>3, <1>7, <1>8, <1>11 DEF e

\* What was written stays written.
LEMMA TracedStays ==
    ASSUME NEW d, Traced(d), \A l \in Keys : written[l] \subseteq written'[l]
    PROVE  \A k \in Keys :
               /\ Offer(d, k) \in written'[k] \cup {Absent}
               /\ d.kind = "DEREGISTER" => ~Buried(d.state, k)
  BY DEF Traced

\* The registry r is written at node n, newer for k only, with a delta, if one is
\* queued, that offers what is written.
OneWrite(n, k, r) ==
    /\ r \in Registry
    /\ Newer(View(r, k), reg[n], k)
    /\ \A l \in Keys \ {k} : View(r, l) = View(reg[n], l)
    /\ Write(n, k, r)
    /\ \/ queue' = queue
       \/ \E kind \in {"CHANGE", "DEREGISTER"}, x \in Instance :
             /\ Propagate(n, kind, k, x)
             /\ View(r, k) = [version |-> x.version,
                              content |-> IF kind = "CHANGE" THEN x.status ELSE Absent]

LEMMA LocalWrite ==
    ASSUME Provenance, NEW n \in Nodes, NEW k \in Keys, NEW r, OneWrite(n, k, r)
    PROVE  /\ HomeIsUpToDate' /\ ShownIsWritten' /\ QueuedIsWritten' /\ SentIsWritten'
           /\ C!Next
<1>0. queue \in [Nodes -> SUBSET Delta]
  BY DEF Provenance, IInv, TypeOK
<1>1. /\ HomeIsUpToDate' /\ ShownIsWritten'
      /\ \A l \in Keys : written[l] \subseteq written'[l]
      /\ View(r, k) \in written'[k]
      /\ C!Write(n, k, View(r, k))
  BY WriteIsWrite DEF OneWrite
<1>c. Contends(n, k, View(r, k))
  BY WriteContends DEF OneWrite
<1>2. network' = network
  BY DEF OneWrite, Write
<1>3. SentIsWritten'
  <2>1. ASSUME NEW m \in network, NEW l \in Keys
        PROVE  /\ Offer(m, l) \in written'[l] \cup {Absent}
               /\ m.kind = "DEREGISTER" => ~Buried(m.state, l)
    BY <1>1, TracedStays DEF Provenance, SentIsWritten
  <2>2. ASSUME NEW m \in network, NEW l \in Keys \ contested', Removes(m, l)
        PROVE  m.dst # Home[l]
    <3>1. l \notin contested
      BY <1>c, <2>2 DEF Contends, Prevails
    <3> QED
      BY <2>2, <3>1 DEF Provenance, SentIsWritten
  <2> QED
    BY <1>2, <2>1, <2>2 DEF SentIsWritten, Traced, Removes
<1>4. ASSUME NEW m \in Nodes, NEW d \in queue[m], NEW l \in Keys
      PROVE  /\ Offer(d, l) \in written'[l] \cup {Absent}
             /\ d.kind = "DEREGISTER" => ~Buried(d.state, l)
             /\ l \notin contested' /\ Removes(d, l) => m = Home[l]
  <2>1. Traced(d) /\ (l \notin contested /\ Removes(d, l) => m = Home[l])
    BY DEF Provenance, QueuedIsWritten
  <2>2. l \notin contested' /\ Removes(d, l) => l \notin contested
    BY <1>c DEF Contends, Prevails
  <2> QED
    BY <1>1, <2>1, <2>2, TracedStays
<1>5. QueuedIsWritten'
  <2>1. CASE queue' = queue
    BY <1>4, <2>1 DEF QueuedIsWritten, Traced, Removes
  <2>2. ASSUME NEW kind \in {"CHANGE", "DEREGISTER"}, NEW x \in Instance,
               Propagate(n, kind, k, x),
               View(r, k) = [version |-> x.version,
                             content |-> IF kind = "CHANGE" THEN x.status ELSE Absent]
        PROVE  QueuedIsWritten'
    <3> DEFINE new == [kind |-> kind, state |-> Only(k, x)]
    <3>1. queue' = [queue EXCEPT ![n] = @ \cup {new}]
      BY <2>2 DEF Propagate
    <3>2. ASSUME NEW l \in Keys
          PROVE  /\ Offer(new, l) \in written'[l] \cup {Absent}
                 /\ ~Buried(new.state, l)
                 /\ Removes(new, l) => l = k
      <4>1. Offer(new, l) = IF l = k THEN View(r, k) ELSE Absent
        BY <2>2, OnlyShows DEF Offer
      <4> QED
        BY <1>1, <4>1, OnlyShows DEF Removes
    <3> HIDE DEF new
    <3>3. \A m \in Nodes : \A d \in queue'[m] : d \in queue[m] \/ (m = n /\ d = new)
      BY <1>0, <3>1
    <3>4. k \notin contested' => n = Home[k]
      BY <1>c DEF Contends
    <3> QED
      BY <1>4, <3>2, <3>3, <3>4 DEF QueuedIsWritten, Traced, Removes
  <2> QED
    BY <2>1, <2>2 DEF OneWrite
<1>6. C!Next
  BY <1>1 DEF C!Next
<1> QED
  BY <1>1, <1>3, <1>5, <1>6

LEMMA RegisterWrites ==
    ASSUME TypeOK, NEW n \in Nodes, NEW k \in Keys,
           NEW v \in 1 .. MaxVersion, NEW s \in Status, RegisterInstance(n, k, v, s)
    PROVE  \E r : OneWrite(n, k, r) /\ Live(r, k)
<1> DEFINE r == Register(reg[n], k, v, s)
<1>0. reg[n] \in Registry /\ OneServicePerId
  BY ReplicationAssumption DEF TypeOK
<1>1. v \in Version
  BY ReplicationAssumption DEF Version
<1>2. r \in Registry
  BY <1>0, <1>1, RegisterType
<1>3. /\ r.inst[k] \in Instance
      /\ Newer(View(r, k), reg[n], k)
      /\ \A l \in Keys \ {k} : View(r, l) = View(reg[n], l)
  BY <1>0, <1>1, RegisterShows
<1>4. Write(n, k, r) /\ Propagate(n, "CHANGE", k, r.inst[k])
  BY DEF RegisterInstance
<1> HIDE DEF r
<1>5. /\ Live(r, k)
      /\ View(r, k) = [version |-> r.inst[k].version,
                       content |-> IF "CHANGE" = "CHANGE" THEN r.inst[k].status ELSE Absent]
  BY <1>3, RegistryAssumption DEF View, Live
<1> QED
  BY <1>2, <1>3, <1>4, <1>5 DEF OneWrite

LEMMA StatusWrites ==
    ASSUME TypeOK, NEW n \in Nodes, NEW k \in Keys, NEW s \in Status, ChangeStatus(n, k, s)
    PROVE  \E r : OneWrite(n, k, r) /\ Live(r, k)
<1> DEFINE r == UpdateStatus(reg[n], k, s)
<1>0. reg[n] \in Registry /\ Live(reg[n], k)
  BY DEF TypeOK, ChangeStatus
<1>1. r \in Registry
  BY <1>0, UpdateStatusType
<1>2. /\ r.inst[k] \in Instance
      /\ Newer(View(r, k), reg[n], k)
      /\ \A l \in Keys \ {k} : View(r, l) = View(reg[n], l)
  BY <1>0, UpdateShows
<1>3. Write(n, k, r) /\ Propagate(n, "CHANGE", k, r.inst[k])
  BY DEF ChangeStatus
<1> HIDE DEF r
<1>4. /\ Live(r, k)
      /\ View(r, k) = [version |-> r.inst[k].version,
                       content |-> IF "CHANGE" = "CHANGE" THEN r.inst[k].status ELSE Absent]
  BY <1>2, RegistryAssumption DEF View, Live
<1> QED
  BY <1>1, <1>2, <1>3, <1>4 DEF OneWrite

\* A removal of a listed instance, by a client or by the eviction loop.
LEMMA RemoveWrites ==
    ASSUME TypeOK, NEW n \in Nodes, NEW k \in Keys,
           DeregisterInstance(n, k) \/ Evict(n, k)
    PROVE  /\ Live(reg[n], k)
           /\ \E r : /\ OneWrite(n, k, r)
                    /\ View(r, k) = [version |-> View(reg[n], k).version + 1,
                                     content |-> Absent]
<1> DEFINE r == Deregister(reg[n], k)
           x == [reg[n].inst[k] EXCEPT !.version = @ + 1]
<1>0. Live(reg[n], k) /\ Remove(n, k) /\ reg[n] \in Registry /\ OneServicePerId
  BY ReplicationAssumption DEF TypeOK, DeregisterInstance, Evict, Expired
<1>1. reg[n].inst[k] \in Instance
  BY <1>0, EntryTypes
<1>2. x \in Instance /\ x.version = reg[n].inst[k].version + 1
  BY <1>1 DEF Instance, Version
<1>3. r \in Registry
  BY <1>0, DeregisterType
<1>4. /\ View(r, k) = [version |-> reg[n].inst[k].version + 1, content |-> Absent]
      /\ Newer(View(r, k), reg[n], k)
      /\ \A l \in Keys \ {k} : View(r, l) = View(reg[n], l)
  BY <1>0, DeregisterShows
<1>5. Write(n, k, r) /\ Propagate(n, "DEREGISTER", k, x)
  BY <1>0 DEF Remove
<1>6. View(reg[n], k).version = reg[n].inst[k].version
  BY <1>0 DEF View
<1> HIDE DEF r, x
<1>7. View(r, k) = [version |-> x.version,
                    content |-> IF "DEREGISTER" = "CHANGE" THEN x.status ELSE Absent]
  BY <1>2, <1>4
<1> QED
  BY <1>0, <1>2, <1>3, <1>4, <1>5, <1>6, <1>7 DEF OneWrite

LEMMA RepeatWrites ==
    ASSUME TypeOK, NEW n \in Nodes, NEW k \in Keys, RepeatDeregister(n, k)
    PROVE  /\ ~Live(reg[n], k) /\ Buried(reg[n], k) /\ queue' = queue
           /\ \E r : OneWrite(n, k, r) /\ View(r, k).content = Absent
<1> DEFINE r == DeregisterMissing(reg[n], k)
<1>0. /\ reg[n] \in Registry /\ OneServicePerId
      /\ ~Live(reg[n], k) /\ Buried(reg[n], k) /\ Write(n, k, r) /\ queue' = queue
  BY ReplicationAssumption DEF TypeOK, RepeatDeregister
<1>1. r \in Registry
  BY <1>0, DeregisterMissingType
<1>2. /\ Newer(View(r, k), reg[n], k)
      /\ View(r, k).content = Absent
      /\ \A l \in Keys \ {k} : View(r, l) = View(reg[n], l)
  BY <1>0, DeregisterMissingShows
<1> HIDE DEF r
<1> QED
  BY <1>0, <1>1, <1>2 DEF OneWrite

\* Every local operation writes or changes nothing shown.
LEMMA LocalIsWrite ==
    ASSUME Provenance, NEW n \in Nodes, NEW k \in Keys, LocalNext(n, k)
    PROVE  /\ HomeIsUpToDate' /\ ShownIsWritten' /\ QueuedIsWritten' /\ SentIsWritten'
           /\ C!Next \/ UNCHANGED <<written, contested, Shows>>
<1>0. TypeOK /\ reg \in [Nodes -> Registry]
  BY DEF Provenance, IInv, TypeOK
<1>1. CASE \E r : OneWrite(n, k, r)
  BY <1>1, LocalWrite
<1>2. CASE \E v \in 1 .. MaxVersion, s \in Status : RegisterInstance(n, k, v, s)
  BY <1>0, <1>1, <1>2, RegisterWrites
<1>3. CASE \E s \in Status : ChangeStatus(n, k, s)
  BY <1>0, <1>1, <1>3, StatusWrites
<1>4. CASE DeregisterInstance(n, k) \/ Evict(n, k)
  BY <1>0, <1>1, <1>4, RemoveWrites
<1>5. CASE RepeatDeregister(n, k)
  BY <1>0, <1>1, <1>5, RepeatWrites
<1>6. ASSUME NEW f \in BOOLEAN, SetHeard(n, k, f)
      PROVE  /\ HomeIsUpToDate' /\ ShownIsWritten' /\ QueuedIsWritten' /\ SentIsWritten'
             /\ UNCHANGED <<written, contested, Shows>>
  <2>1. Live(reg[n], k) /\ reg' = [reg EXCEPT ![n] = SetFresh(reg[n], k, f)]
        /\ UNCHANGED <<queue, network, written, contested>>
    BY <1>6 DEF SetHeard
  <2>2. \A m \in Nodes, l \in Keys : View(reg'[m], l) = View(reg[m], l)
    BY <1>0, <2>1, FreshShows
  <2>3. \A m \in Nodes, l \in Keys : Known(reg'[m], l) = Known(reg[m], l)
    BY <2>2 DEF Known
  <2>4. Shows' = Shows
    BY <2>2 DEF Shows
  <2>5. HomeIsUpToDate' /\ ShownIsWritten'
    BY <2>1, <2>2, <2>3, HomeIs DEF Provenance, HomeIsUpToDate, ShownIsWritten
  <2>6. QueuedIsWritten' /\ SentIsWritten'
    BY <2>1 DEF Provenance, QueuedIsWritten, SentIsWritten, Traced, Removes
  <2> QED
    BY <2>1, <2>4, <2>5, <2>6
<1> QED
  BY <1>2, <1>3, <1>4, <1>5, <1>6 DEF LocalNext, RenewInstance, HeartbeatLapse

-----------------------------------------------------------------------------
(* Steps that receive and send. *)

\* Node n, shown entry x for k before, may take over y: one that was written, and is
\* newer or a tombstone.  The home of a key takes over nothing while it is not contested.
MayTakeOver(n, k, x, y) ==
    /\ y \in written[k]
    /\ C!Supersedes(y, x) \/ y.content = Absent
    /\ n = Home[k] => k \in contested

\* A node that takes over such entries adopts them in the catalogue.
LEMMA TakingOverIsAdopting ==
    ASSUME Provenance, NEW n \in Nodes, NEW r,
           reg' = [reg EXCEPT ![n] = r], written' = written, contested' = contested,
           \A k \in Keys : \/ View(r, k) = View(reg[n], k)
                           \/ MayTakeOver(n, k, View(reg[n], k), View(r, k))
    PROVE  HomeIsUpToDate' /\ ShownIsWritten' /\ C!Adopt(n)
<1>0. reg \in [Nodes -> Registry]
  BY DEF Provenance, IInv, TypeOK
<1>1. \A m \in Nodes, k \in Keys :
        \/ View(reg'[m], k) = View(reg[m], k)
        \/ m = n /\ MayTakeOver(n, k, View(reg[n], k), View(reg'[n], k))
  BY <1>0
<1>2. ShownIsWritten'
  BY <1>1 DEF Provenance, ShownIsWritten, MayTakeOver
<1>3. HomeIsUpToDate'
  <2> SUFFICES ASSUME NEW k \in Keys \ contested, NEW e \in written[k]
               PROVE  e.version <= Known(reg'[Home[k]], k)
    BY DEF HomeIsUpToDate
  <2>1. View(reg'[Home[k]], k) = View(reg[Home[k]], k)
    BY <1>1, HomeIs DEF MayTakeOver
  <2> QED
    BY <2>1 DEF Known, Provenance, HomeIsUpToDate
<1>4. Shows' = [Shows EXCEPT ![n] = Shows'[n]]
  <2>1. \A m \in Nodes \ {n} : reg'[m] = reg[m]
    BY <1>0
  <2>2. \A m \in Nodes \ {n} : Shows'[m] = Shows[m]
    BY <2>1 DEF Shows
  <2>3. Shows = [m \in Nodes |-> Shows[m]] /\ Shows' = [m \in Nodes |-> Shows'[m]]
    BY DEF Shows
  <2> QED
    BY <2>2, <2>3
<1>5. DOMAIN Shows'[n] = Keys
  BY DEF Shows
<1>6. \A k \in Keys : Shows'[n][k] # Shows[n][k] => MayTakeOver(n, k, Shows[n][k], Shows'[n][k])
  BY <1>1 DEF Shows
<1>7. C!Adopt(n)
  BY <1>4, <1>5, <1>6 DEF C!Adopt, MayTakeOver
<1> QED
  BY <1>2, <1>3, <1>7

\* Merging a state takes over newer entries; at the home of a key that is not
\* contested it changes nothing, because the home shows the newest.
LEMMA MergeTakesOver ==
    ASSUME Provenance, NEW m \in network, m.kind # "DEREGISTER", Merge(m),
           written' = written, contested' = contested
    PROVE  HomeIsUpToDate' /\ ShownIsWritten' /\ C!Adopt(m.dst)
<1> DEFINE n == m.dst
           r == ApplySync(reg[n], m.state)
<1>0. /\ n \in Nodes /\ m.state \in Registry /\ reg[n] \in Registry
      /\ TombstonesRespected(reg[n]) /\ OneServicePerId
      /\ written \in [Keys -> SUBSET Entry]
  BY ReplicationAssumption DEF Provenance, IInv, TypeOK, TombstonesHonoured, Message
<1>1. ASSUME NEW k \in Keys
      PROVE  \/ View(r, k) = View(reg[n], k)
             \/ MayTakeOver(n, k, View(reg[n], k), View(r, k))
  <2> DEFINE x == View(reg[n], k)
             y == View(m.state, k)
  <2>1. View(r, k) = Newest(x, y)
    BY <1>0, ViewAfterSync
  <2>2. y \in written[k] \cup {Absent}
    BY DEF Provenance, SentIsWritten, Traced, Offer
  <2>3. ASSUME n = Home[k], k \notin contested, y # Absent
        PROVE  x # Absent /\ ~(x.version < y.version)
    <3>1. y \in Entry /\ y.version <= Known(reg[n], k)
      BY <1>0, <2>2, <2>3 DEF Provenance, HomeIsUpToDate
    <3> HIDE DEF y
    <3>2. y.version \in Nat /\ y.version > 0
      BY <3>1 DEF Entry, Version
    <3> QED
      BY <1>0, <3>1, <3>2, KnownOfView
  <2> HIDE DEF x, y
  <2>4. CASE y # Absent /\ (x = Absent \/ x.version < y.version)
    <3>1. View(r, k) = y /\ y \in written[k]
      BY <2>1, <2>2, <2>4 DEF Newest
    <3> QED
      BY <2>3, <2>4, <3>1 DEF MayTakeOver, C!Supersedes, x
  <2>5. CASE ~(y # Absent /\ (x = Absent \/ x.version < y.version))
    <3>1. View(r, k) = x
      BY <2>1, <2>5 DEF Newest
    <3> QED
      BY <3>1 DEF x
  <2> QED
    BY <2>4, <2>5
<1>2. reg' = [reg EXCEPT ![n] = r]
  BY DEF Merge
<1> HIDE DEF r, n
<1>3. HomeIsUpToDate' /\ ShownIsWritten' /\ C!Adopt(n)
  BY <1>0, <1>1, <1>2, TakingOverIsAdopting
<1> QED
  BY <1>3 DEF n

\* What may be sent: what offers written entries, and no home a removal of a key
\* that is not contested.
MaySend(m) ==
    /\ Traced(m)
    /\ \A k \in Keys \ contested : Removes(m, k) => m.dst # Home[k]

\* Beside what was in flight already there is only what is in `sent'.
Adds(sent) == network' \subseteq network \cup sent

LEMMA SendingKeeps ==
    ASSUME Provenance, written' = written, contested' = contested, NEW sent, Adds(sent),
           \A m \in sent : MaySend(m)
    PROVE  SentIsWritten'
  BY DEF Provenance, SentIsWritten, Traced, MaySend, Adds, Removes

LEMMA QueueKeeps ==
    ASSUME Provenance, written' = written, contested' = contested, queue' = queue
    PROVE  QueuedIsWritten'
  BY DEF Provenance, QueuedIsWritten, Traced, Removes

\* A full state offers what its sender shows.
LEMMA FullStateOffers ==
    ASSUME NEW kind \in {"SYNC", "ACK"}, NEW n, NEW m, NEW r, NEW k \in Keys
    PROVE  /\ Offer(FullState(kind, n, m, r), k) = View(r, k)
           /\ FullState(kind, n, m, r).kind # "DEREGISTER"
  BY DEF Offer, FullState

LEMMA DeliverIsAdopting ==
    ASSUME Provenance, NEW m \in network, Deliver(m)
    PROVE  /\ HomeIsUpToDate' /\ ShownIsWritten' /\ QueuedIsWritten' /\ SentIsWritten'
           /\ C!Next
<1>0. m.src \in Nodes /\ m.dst \in Nodes /\ m.state \in Registry
  BY DEF Provenance, IInv, TypeOK, Message
<1>1. written' = written /\ contested' = contested /\ queue' = queue
  BY DEF Deliver, DeliverSync, DeliverState, DeliverDeregister
<1>2. QueuedIsWritten'
  BY <1>1, QueueKeeps
<1>3. \A rest \in Without(m) : rest \subseteq network
  BY DEF Without
<1>4. CASE DeliverSync(m)
  <2>1. HomeIsUpToDate' /\ ShownIsWritten' /\ C!Adopt(m.dst)
    BY <1>1, <1>4, MergeTakesOver DEF DeliverSync
  <2> DEFINE ack == FullState("ACK", m.dst, m.src, reg'[m.dst])
  <2>2. Adds({ack})
    BY <1>3, <1>4 DEF DeliverSync, Transmit, Adds
  <2>3. MaySend(ack)
    BY <1>0, <1>1, <2>1, FullStateOffers DEF ShownIsWritten, MaySend, Traced, Removes
  <2> HIDE DEF ack
  <2>4. SentIsWritten'
    <3>1. \A x \in {ack} : MaySend(x)
      BY <2>3
    <3> QED
      BY <1>1, <2>2, <3>1, SendingKeeps
  <2> QED
    BY <1>0, <1>2, <2>1, <2>4 DEF C!Next
<1>5. CASE DeliverState(m)
  <2>1. HomeIsUpToDate' /\ ShownIsWritten' /\ C!Adopt(m.dst)
    BY <1>1, <1>5, MergeTakesOver DEF DeliverState
  <2>2. Adds({})
    BY <1>3, <1>5 DEF DeliverState, Adds
  <2>3. SentIsWritten'
    BY <1>1, <2>2, SendingKeeps
  <2> QED
    BY <1>0, <1>2, <2>1, <2>3 DEF C!Next
<1>6. CASE DeliverDeregister(m)
  <2>1. PICK k \in Keys :
          /\ Live(m.state, k)
          /\ reg' = [reg EXCEPT ![m.dst] =
                        ApplyDeregister(reg[m.dst], k, m.state.inst[k].version)]
    BY <1>6 DEF DeliverDeregister
  <2> DEFINE v == m.state.inst[k].version
             r == ApplyDeregister(reg[m.dst], k, v)
  <2>2. v \in Version /\ reg[m.dst] \in Registry /\ OneServicePerId
    BY <1>0, <2>1, EntryTypes, ReplicationAssumption DEF Provenance, IInv, TypeOK, Version
  <2>3. m.kind = "DEREGISTER"
    BY <1>6 DEF DeliverDeregister
  <2>4. /\ m.dst = Home[k] => k \in contested
        /\ [version |-> v, content |-> Absent] \in written[k]
    <3>1. Offer(m, k) = [version |-> v, content |-> Absent]
      BY <2>1, <2>3 DEF Offer
    <3>2. Offer(m, k) # Absent
      BY <2>2, <3>1, RegistryAssumption DEF Entry
    <3> QED
      BY <2>1, <2>3, <3>1, <3>2 DEF Provenance, SentIsWritten, Traced, Removes
  <2> HIDE DEF v
  <2>5. \A l \in Keys : \/ View(r, l) = View(reg[m.dst], l)
                        \/ MayTakeOver(m.dst, l, View(reg[m.dst], l), View(r, l))
    BY <2>2, <2>4, ApplyDeregisterShows DEF MayTakeOver
  <2>6. reg' = [reg EXCEPT ![m.dst] = r]
    BY <2>1 DEF v
  <2> HIDE DEF r
  <2>7. HomeIsUpToDate' /\ ShownIsWritten' /\ C!Adopt(m.dst)
    BY <1>0, <1>1, <2>5, <2>6, TakingOverIsAdopting
  <2>8. Adds({})
    BY <1>3, <1>6 DEF DeliverDeregister, Adds
  <2>9. SentIsWritten'
    BY <1>1, <2>8, SendingKeeps
  <2> QED
    BY <1>0, <1>2, <2>7, <2>9 DEF C!Next
<1> QED
  BY <1>4, <1>5, <1>6 DEF Deliver

\* Sending shows nothing new.
LEMMA SendingIsNothing ==
    ASSUME Provenance, NEW n \in Nodes, Broadcast(n) \/ \E m \in Nodes : SendSync(n, m)
    PROVE  /\ HomeIsUpToDate' /\ ShownIsWritten' /\ QueuedIsWritten' /\ SentIsWritten'
           /\ UNCHANGED <<written, contested, Shows>>
<1>0. /\ written' = written /\ contested' = contested /\ reg' = reg
      /\ queue \in [Nodes -> SUBSET Delta]
  <2>1. queue \in [Nodes -> SUBSET Delta]
    BY DEF Provenance, IInv, TypeOK
  <2>2. CASE Broadcast(n)
    BY <2>1, <2>2 DEF Broadcast
  <2>3. ASSUME NEW m \in Nodes, SendSync(n, m) PROVE UNCHANGED <<histories, reg>>
    BY <2>3 DEF SendSync
  <2> QED
    BY <2>1, <2>2, <2>3
<1>1. HomeIsUpToDate' /\ ShownIsWritten' /\ Shows' = Shows
  BY <1>0 DEF Provenance, HomeIsUpToDate, ShownIsWritten, Shows
<1>2. CASE Broadcast(n)
  <2> DEFINE sent == {[kind |-> d.kind, src |-> n, dst |-> m, state |-> d.state] :
                          d \in queue[n], m \in Nodes \ {n}}
  <2>1. Adds(sent) /\ queue' = [queue EXCEPT ![n] = {}]
    BY <1>2 DEF Broadcast, Transmit, Adds
  <2>2. ASSUME NEW x \in sent, NEW k \in Keys
        PROVE  /\ Offer(x, k) \in written[k] \cup {Absent}
               /\ x.kind = "DEREGISTER" => ~Buried(x.state, k)
               /\ k \notin contested /\ Removes(x, k) => x.dst # Home[k]
    <3>1. PICK d \in queue[n], m \in Nodes \ {n} :
            x = [kind |-> d.kind, src |-> n, dst |-> m, state |-> d.state]
      OBVIOUS
    <3>2. x.kind = d.kind /\ x.state = d.state /\ x.dst # n
      BY <3>1
    <3>3. Offer(x, k) = Offer(d, k)
      BY <3>2 DEF Offer
    <3>4. Traced(d) /\ (k \notin contested /\ Removes(d, k) => n = Home[k])
      BY DEF Provenance, QueuedIsWritten
    <3> QED
      BY <3>2, <3>3, <3>4 DEF Traced, Removes
  <2> HIDE DEF sent
  <2>3. SentIsWritten'
    <3>1. \A x \in sent : MaySend(x)
      BY <2>2 DEF MaySend, Traced
    <3> QED
      BY <1>0, <2>1, <3>1, SendingKeeps
  <2>4. QueuedIsWritten'
    BY <1>0, <2>1 DEF Provenance, QueuedIsWritten, Traced, Removes
  <2> QED
    BY <1>0, <1>1, <2>3, <2>4
<1>3. ASSUME NEW m \in Nodes, SendSync(n, m)
      PROVE  QueuedIsWritten' /\ SentIsWritten'
  <2> DEFINE full == FullState("SYNC", n, m, reg[n])
  <2>1. Adds({full}) /\ queue' = queue
    BY <1>3 DEF SendSync, Transmit, Adds
  <2>2. MaySend(full)
    BY FullStateOffers DEF Provenance, ShownIsWritten, MaySend, Traced, Removes
  <2> HIDE DEF full
  <2>3. SentIsWritten'
    <3>1. \A x \in {full} : MaySend(x)
      BY <2>2
    <3> QED
      BY <1>0, <2>1, <3>1, SendingKeeps
  <2> QED
    BY <1>0, <2>1, <2>3, QueueKeeps
<1> QED
  BY <1>0, <1>1, <1>2, <1>3

-----------------------------------------------------------------------------
LEMMA ProvenanceInit == Init => Provenance /\ C!Init
<1> SUFFICES ASSUME Init PROVE Provenance /\ C!Init
  OBVIOUS
<1>1. \A n \in Nodes, k \in Keys : View(reg[n], k) = Absent
  BY EntryTypes, EmptyRegistryType DEF Init, View, EmptyRegistry, Live, Buried
<1>2. HomeIsUpToDate /\ ShownIsWritten /\ QueuedIsWritten /\ SentIsWritten
  BY <1>1 DEF Init, HomeIsUpToDate, ShownIsWritten, QueuedIsWritten, SentIsWritten
<1>3. C!Init
  BY <1>1 DEF Init, C!Init, Shows
<1> QED
  BY <1>2, <1>3, InitIInv DEF Provenance

\* Every step keeps the invariant, and is a step of the catalogue or leaves what
\* was written and what is shown alone.
LEMMA ProvenanceStep ==
    ASSUME Provenance, [Next]_vars
    PROVE  Provenance' /\ (C!Next \/ UNCHANGED <<written, contested, Shows>>)
<1>0. IInv'
  BY StepIInv DEF Provenance
<1>1. ASSUME NEW n \in Nodes, NEW k \in Keys, LocalNext(n, k)
      PROVE  /\ HomeIsUpToDate' /\ ShownIsWritten' /\ QueuedIsWritten' /\ SentIsWritten'
             /\ C!Next \/ UNCHANGED <<written, contested, Shows>>
  BY <1>1, LocalIsWrite
<1>2. ASSUME NEW n \in Nodes, Broadcast(n) \/ \E m \in Nodes : SendSync(n, m)
      PROVE  /\ HomeIsUpToDate' /\ ShownIsWritten' /\ QueuedIsWritten' /\ SentIsWritten'
             /\ UNCHANGED <<written, contested, Shows>>
  BY <1>2, SendingIsNothing
<1>3. ASSUME NEW m \in network, Deliver(m)
      PROVE  /\ HomeIsUpToDate' /\ ShownIsWritten' /\ QueuedIsWritten' /\ SentIsWritten'
             /\ C!Next
  BY <1>3, DeliverIsAdopting
<1>4. CASE UNCHANGED vars
  <2>1. reg' = reg /\ queue' = queue /\ network' = network /\ UNCHANGED histories
    BY <1>4 DEF vars
  <2> QED
    BY <1>0, <2>1 DEF Provenance, HomeIsUpToDate, ShownIsWritten, QueuedIsWritten,
                      SentIsWritten, Traced, Removes, Shows
<1> QED
  BY <1>0, <1>1, <1>2, <1>3, <1>4 DEF Next, Provenance

LEMMA ProvenanceHolds == Spec => []Provenance
<1>1. Provenance /\ [Next]_vars => Provenance'
  BY ProvenanceStep
<1> QED
  BY <1>1, ProvenanceInit, PTL DEF Spec

\* Wherever loops evict and clients write: while a key is not contested, whatever is
\* queued or in flight, however old, and whatever a replica shows is at most as new as
\* what the home of the key shows.
THEOREM HomeAlwaysNewest == Spec => []HomeIsNewest
<1>1. Provenance => HomeIsNewest
  <2> SUFFICES ASSUME Provenance PROVE HomeIsNewest
    OBVIOUS
  <2>0. /\ reg \in [Nodes -> Registry] /\ written \in [Keys -> SUBSET Entry]
        /\ \A n \in Nodes : \A d \in queue[n] : d.state \in Registry
        /\ \A m \in network : m.state \in Registry
    BY DEF Provenance, IInv, TypeOK, Delta, Message
  <2>1. ASSUME NEW k \in Keys \ contested, NEW e \in written[k] \cup {Absent},
               NEW r \in Registry, e # Absent => Known(r, k) = e.version,
               e = Absent => Known(r, k) = 0
        PROVE  Known(r, k) <= Known(reg[Home[k]], k)
    <3>1. Home[k] \in Nodes /\ Known(reg[Home[k]], k) \in Nat
      BY <2>0, HomeIs, KnownOfView
    <3> QED
      BY <2>1, <3>1 DEF Provenance, HomeIsUpToDate
  <2>2. ASSUME NEW n \in Nodes, NEW k \in Keys \ contested
        PROVE  Known(reg[n], k) <= Known(reg[Home[k]], k)
    BY <2>0, <2>1, KnownOfView DEF Provenance, ShownIsWritten
  <2>3. ASSUME NEW d, NEW k \in Keys \ contested, Traced(d), d.state \in Registry
        PROVE  Known(d.state, k) <= Known(reg[Home[k]], k)
    <3>1. CASE d.kind = "DEREGISTER"
      <4>1. ~Buried(d.state, k) /\ Offer(d, k) \in written[k] \cup {Absent}
        BY <2>3, <3>1 DEF Traced
      <4>2. CASE Live(d.state, k)
        <5> DEFINE e == [version |-> d.state.inst[k].version, content |-> Absent]
        <5>1. Offer(d, k) = e /\ Known(d.state, k) = e.version
          BY <2>3, <3>1, <4>2, KnownIs DEF Offer
        <5>2. e # Absent
          BY <2>3, <4>2, EntryTypes, RegistryAssumption DEF Entry, Version
        <5> HIDE DEF e
        <5> QED
          BY <2>1, <2>3, <4>1, <5>1, <5>2
      <4>3. CASE ~Live(d.state, k)
        <5>1. Offer(d, k) = Absent /\ Known(d.state, k) = 0
          BY <2>3, <3>1, <4>1, <4>3, KnownIs DEF Offer
        <5> QED
          BY <2>1, <2>3, <4>1, <5>1
      <4> QED
        BY <4>2, <4>3
    <3>2. CASE d.kind # "DEREGISTER"
      <4>1. View(d.state, k) \in written[k] \cup {Absent}
        BY <2>3, <3>2 DEF Traced, Offer
      <4> QED
        BY <2>1, <2>3, <4>1, KnownOfView
    <3> QED
      BY <3>1, <3>2
  <2> QED
    BY <2>0, <2>2, <2>3 DEF HomeIsNewest, Provenance, QueuedIsWritten, SentIsWritten
<1> QED
  BY <1>1, ProvenanceHolds, PTL

\* The replicas implement the catalogue, whatever the network does and wherever loops
\* evict: a node shows nothing but what some operation wrote, takes over only what is
\* newer or a tombstone, and the home of a key that is not contested takes over nothing
\* and gives each version once.
THEOREM CatalogImplemented == Spec => ImplementsCatalog
<1> SUFFICES Spec => C!Spec
  BY DEF ImplementsCatalog
<1>1. Provenance /\ [Next]_vars => C!Next \/ UNCHANGED <<written, contested, Shows>>
  BY ProvenanceStep
<1> QED
  BY <1>1, ProvenanceInit, ProvenanceHolds, PTL DEF Spec, C!Spec
=============================================================================
