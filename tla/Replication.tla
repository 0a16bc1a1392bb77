----------------------------- MODULE Replication -----------------------------
(***************************************************************************)
(* Registries replicated over UDP by GossipProtocol (sdiscovery/gossip.py).*)
(* A change made at a node is queued and broadcast once; every node also   *)
(* exchanges its full state with a random member, which is what repairs    *)
(* lost broadcasts.  Datagrams are lost, reordered and duplicated.         *)
(*                                                                         *)
(* Who takes whom for ALIVE is in Membership.  Here a node may send to any *)
(* other at any time or never; what has to be exchanged for a property is  *)
(* said in that property.  No tombstone reaches its TTL here.              *)
(***************************************************************************)
EXTENDS RegistryState, FiniteSets

CONSTANTS
    Nodes,
    Writers,       \* the nodes at which clients register and deregister each key
    Checkers,      \* the nodes that change its status (clients, health checker)
    Evictors,      \* the nodes whose eviction loop finds each key expired at times
    MaxVersion,    \* bound: no write starts from this version or above
    MaxQueued,     \* bound on the deltas waiting at a node
    MaxInFlight,   \* bound on the datagrams in the network
    MayDuplicate   \* whether the network duplicates datagrams

ASSUME ReplicationAssumption ==
    /\ Writers \in [Keys -> (SUBSET Nodes) \ {{}}]
    /\ Checkers \in [Keys -> SUBSET Nodes]
    /\ Evictors \in [Keys -> SUBSET Nodes]
    /\ {MaxVersion, MaxQueued, MaxInFlight} \subseteq Nat
    /\ MayDuplicate \in BOOLEAN
    /\ OneServicePerId

VARIABLES
    reg,      \* the registry of each node
    queue,    \* _transmission_queue of each node; datagrams carry no order
    network,  \* the datagrams in flight
    written,  \* history: the entries local operations produced, per key
    contested \* history: the keys changed at a replica since the home last prevailed

histories == <<written, contested>>
vars == <<reg, queue, network, histories>>

\* The node that a key is registered at first; every other node is a replica.
Home == [k \in Keys |-> CHOOSE n \in Writers[k] : TRUE]

(* A delta carries the one changed instance; a SYNC and its ACK the sender's  *)
(* full state.  All but DEREGISTER deltas are applied by _apply_sync.         *)
Delta == [kind : {"CHANGE", "DEREGISTER"}, state : Registry]
Message == [kind : {"CHANGE", "DEREGISTER", "SYNC", "ACK"},
            src : Nodes, dst : Nodes, state : Registry]

\* As if to_dict left out last_heartbeat.
OnlyPart(k, x) ==
    [EmptyRegistry EXCEPT !.inst[k] = [version |-> x.version, status |-> x.status]]

Only(k, x) == [EmptyRegistry EXCEPT !.inst[k] = x]

Init ==
    /\ reg = [n \in Nodes |-> EmptyRegistry]
    /\ queue = [n \in Nodes |-> {}]
    /\ network = {}
    /\ written = [k \in Keys |-> {}]
    /\ contested = {}

-----------------------------------------------------------------------------
(* Local operations.  The change callback queues a delta at once as long as *)
(* no subscriber's queue is full.                                           *)

\* A delta or datagram that removes k from whatever node receives it.
Removes(d, k) == d.kind = "DEREGISTER" /\ Live(d.state, k)

\* Entry e is newer than all that was written for k, and no removal is under way.
Prevails(k, e) ==
    /\ \A old \in written[k] : old.version < e.version
    /\ \A n \in Nodes : \A d \in queue[n] : ~Removes(d, k)
    /\ \A m \in network : ~Removes(m, k)

Write(n, k, r) ==
    /\ reg' = [reg EXCEPT ![n] = r]
    /\ written' = [written EXCEPT ![k] = @ \cup {View(r, k)}]
    /\ contested' = IF n # Home[k] THEN contested \cup {k}
                    ELSE IF Prevails(k, View(r, k)) THEN contested \ {k} ELSE contested
    /\ UNCHANGED network

\* propagate_instance_change
Propagate(n, kind, k, x) ==
    /\ Cardinality(queue[n]) < MaxQueued
    /\ queue' = [queue EXCEPT ![n] = @ \cup {[kind |-> kind, state |-> Only(k, x)]}]

RegisterInstance(n, k, v, s) ==
    LET r == Register(reg[n], k, v, s)
    IN  /\ n \in Writers[k]
        /\ r.inst[k].version <= MaxVersion
        /\ Write(n, k, r)
        /\ Propagate(n, "CHANGE", k, r.inst[k])

ChangeStatus(n, k, s) ==
    LET r == UpdateStatus(reg[n], k, s)
    IN  /\ n \in Checkers[k]
        /\ Live(reg[n], k)
        /\ Known(reg[n], k) < MaxVersion
        /\ Write(n, k, r)
        /\ Propagate(n, "CHANGE", k, r.inst[k])

Remove(n, k) ==
    LET r == Deregister(reg[n], k)
    IN  /\ Known(reg[n], k) < MaxVersion
        /\ Write(n, k, r)
        /\ Propagate(n, "DEREGISTER", k, [reg[n].inst[k] EXCEPT !.version = @ + 1])

DeregisterInstance(n, k) ==
    /\ n \in Writers[k]
    /\ Live(reg[n], k)
    /\ Remove(n, k)

\* A repeated deregister bumps the tombstone and tells nobody.
RepeatDeregister(n, k) ==
    /\ n \in Writers[k]
    /\ ~Live(reg[n], k) /\ Buried(reg[n], k)
    /\ Known(reg[n], k) < MaxVersion
    /\ Write(n, k, DeregisterMissing(reg[n], k))
    /\ UNCHANGED queue

\* The eviction loop deregisters what was not heard from at this node.
Evict(n, k) ==
    /\ n \in Evictors[k]
    /\ k \in Expired(reg[n])
    /\ Remove(n, k)

SetHeard(n, k, f) ==
    /\ Live(reg[n], k)
    /\ reg' = [reg EXCEPT ![n] = SetFresh(@, k, f)]
    /\ UNCHANGED <<queue, network, histories>>

\* A renewal is not gossiped: it counts at the node that received it.
RenewInstance(n, k) == n \in Writers[k] /\ SetHeard(n, k, TRUE)

HeartbeatLapse(n, k) == n \in Evictors[k] /\ SetHeard(n, k, FALSE)

-----------------------------------------------------------------------------
(* The network.  What is sent may be lost, so any part of it arrives.         *)

Transmit(rest, sent) ==
    \E arriving \in SUBSET sent :
        /\ network' = rest \cup arriving
        /\ Cardinality(network') <= MaxInFlight

\* _broadcast_gossip: the queue is cleared whatever becomes of the datagrams.
Broadcast(n) ==
    /\ queue[n] # {} /\ Nodes # {n}
    /\ queue' = [queue EXCEPT ![n] = {}]
    /\ Transmit(network, {[kind |-> d.kind, src |-> n, dst |-> m, state |-> d.state] :
                              d \in queue[n], m \in Nodes \ {n}})
    /\ UNCHANGED <<reg, histories>>

FullState(kind, n, m, r) == [kind |-> kind, src |-> n, dst |-> m, state |-> r]

\* _send_sync, from the sync loop or a join.
SendSync(n, m) ==
    /\ n # m
    /\ Transmit(network, {FullState("SYNC", n, m, reg[n])})
    /\ UNCHANGED <<reg, queue, histories>>

Merge(m) == reg' = [reg EXCEPT ![m.dst] = ApplySync(@, m.state)]

\* The network without a delivered datagram, unless it was duplicated.
Without(m) == IF MayDuplicate THEN {network, network \ {m}} ELSE {network \ {m}}

\* A SYNC is merged and answered with the state that results.
DeliverSync(m) ==
    /\ m.kind = "SYNC"
    /\ Merge(m)
    /\ \E rest \in Without(m) :
          Transmit(rest, {FullState("ACK", m.dst, m.src, reg'[m.dst])})
    /\ UNCHANGED <<queue, histories>>

\* An ACK of a SYNC that has not timed out (one that has is as good as lost),
\* or the delta of a registration or of a change of status.
DeliverState(m) ==
    /\ m.kind \in {"ACK", "CHANGE"}
    /\ Merge(m)
    /\ network' \in Without(m)
    /\ UNCHANGED <<queue, histories>>

DeliverDeregister(m) ==
    /\ m.kind = "DEREGISTER"
    /\ \E k \in Keys :
          /\ Live(m.state, k)
          /\ reg' = [reg EXCEPT ![m.dst] = ApplyDeregister(@, k, m.state.inst[k].version)]
    /\ network' \in Without(m)
    /\ UNCHANGED <<queue, histories>>

Deliver(m) == DeliverSync(m) \/ DeliverState(m) \/ DeliverDeregister(m)

LocalNext(n, k) ==
    \/ \E v \in 1 .. MaxVersion, s \in Status : RegisterInstance(n, k, v, s)
    \/ \E s \in Status : ChangeStatus(n, k, s)
    \/ DeregisterInstance(n, k)
    \/ RepeatDeregister(n, k)
    \/ Evict(n, k)
    \/ RenewInstance(n, k)
    \/ HeartbeatLapse(n, k)

Next ==
    \/ \E n \in Nodes, k \in Keys : LocalNext(n, k)
    \/ \E n \in Nodes : Broadcast(n)
    \/ \E n, m \in Nodes : SendSync(n, m)
    \/ \E m \in network : Deliver(m)

Spec == Init /\ [][Next]_vars

\* While datagrams are in flight, one of them arrives some time.  Nothing is assumed
\* of clients, evictions and broadcasts, nor of who exchanges states with whom.
FairSpec == Spec /\ WF_vars(\E m \in network : Deliver(m))

\* Node n merges the full state of node m again and again.
KeepsHearing(n, m) ==
    []<><<\E d \in network :
            d.kind \in {"SYNC", "ACK"} /\ d.src = m /\ d.dst = n /\ Deliver(d)>>_vars
AllKeepHearing == \A n, m \in Nodes : n # m => KeepsHearing(n, m)
-----------------------------------------------------------------------------
\* The types of the variables.
TypeOK ==
    /\ reg \in [Nodes -> Registry]
    /\ queue \in [Nodes -> SUBSET Delta]
    /\ network \in SUBSET Message
    /\ written \in [Keys -> SUBSET Entry]
    /\ contested \in SUBSET Keys

\* However local operations and received deltas and states interleave, no node
\* ever lists an instance that its own tombstone outranks.
TombstonesHonoured == \A n \in Nodes : TombstonesRespected(reg[n])

\* Merging a received state is a join: for every key the node ends up showing
\* the newer of what it had and what it received, its own on a tie, although
\* registrations and tombstones are applied in two passes.
MergesAsJoin ==
    \A m \in network :
        DeliverSync(m) \/ DeliverState(m) =>
            \A k \in Keys :
                View(reg'[m.dst], k) = Newest(View(reg[m.dst], k), View(m.state, k))
SyncMerges == [][MergesAsJoin]_vars

-----------------------------------------------------------------------------
(* What holds of every key, and what of those that only their home changes.   *)

\* As long as no replica changes a key, and again once its home has prevailed over
\* those that did, no replica, no queued delta and no datagram, however old, has
\* anything for it that is newer than what its home shows.
HomeIsNewest ==
    \A k \in Keys \ contested :
        LET newest == Known(reg[Home[k]], k)
        IN  /\ \A n \in Nodes : Known(reg[n], k) <= newest
            /\ \A n \in Nodes : \A d \in queue[n] : Known(d.state, k) <= newest
            /\ \A m \in network : Known(m.state, k) <= newest

Shows == [n \in Nodes |-> [k \in Keys |-> View(reg[n], k)]]

C == INSTANCE Catalog WITH view <- Shows

\* The replicas implement the catalogue: what a node shows was written by some
\* operation, and only a tombstone may replace something newer.  The home of a key
\* that is not contested writes no version a second time and takes nothing over.
ImplementsCatalog == C!Spec

\* Once writes stop, and whatever broadcasts were lost and whichever stale ones
\* still arrive: if all nodes keep hearing the home of a key that is not contested,
\* they end up showing the same entry for it; if all keep hearing each other, they
\* end up showing the same version of every key.
Convergence ==
    /\ \A k \in Keys :
          (\A n \in Nodes \ {Home[k]} : KeepsHearing(n, Home[k])) =>
              <>[](k \in contested \/ \A n \in Nodes : Shows[n][k] = Shows[Home[k]][k])
    /\ AllKeepHearing =>
          <>[](\A n, m \in Nodes : \A k \in Keys : Known(reg[n], k) = Known(reg[m], k))

\* A deregistration that stands at one node reaches every node, also when the
\* health checker of another node has just changed the instance's status.
DeregistrationPropagates ==
    AllKeepHearing =>
        \A n, m \in Nodes : \A k \in Keys :
            <>[](~Live(reg[n], k) /\ Buried(reg[n], k)) => <>[]~Live(reg[m], k)

\* An instance that renews in time at the node it registered at stays listed
\* there until a client deregisters it: eviction is for instances that are silent
\* past heartbeat_timeout, at whichever node its loop runs.
RenewedStaysListed ==
    [][\A k \in Keys, n \in Nodes :
          n \in Writers[k] /\ Live(reg[n], k) /\ reg[n].inst[k].fresh /\ ~Live(reg[n], k)'
              => DeregisterInstance(n, k)]_vars
=============================================================================
