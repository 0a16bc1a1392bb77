# sdiscovery: a model of the service registry

`sdiscovery` is a service-discovery server in one asyncio process per node.
Clients register instances of services over HTTP; each node keeps a registry;
nodes replicate their registries by gossip over UDP. This directory holds TLA+
modules of its core, TLC configurations that check them, and proofs for TLAPS.

## 1. Inventory of the system

| Component | State | Operations | Interacts with | Hard behaviour |
|---|---|---|---|---|
| `registry.py` `Registry` | instances per (service, id), tombstones per id, expected-heartbeat count, protection flag | register, deregister, renew, update_status, eviction loop, tombstone clean-up, apply_delta | calls `on_change` callbacks (awaits them); written by gossip | eviction works from a list taken before awaits; versions and tombstones must never be forgotten too early |
| `gossip.py` replication | transmission queue, pending ACK futures, datagrams in flight | propagate_instance_change, broadcast, SYNC/ACK, apply deltas and full states | registry, watcher | lost, duplicated, reordered datagrams; concurrent writers; late ACKs |
| `gossip.py` membership | members with state, incarnation, last_seen | join, leave, probe, indirect probe, suspicion timeout, merge of member lists | replication picks its targets from it | false suspicion, refutation, records replaced during awaits |
| `watcher.py` `Watcher` | subscribers per service and by id, a bounded queue each | subscribe, unsubscribe, notify, get_events | called by the registry's callback and by EVENT messages | `put` on a full queue blocks the notifier |
| `health.py` `HealthChecker` | consecutive successes and failures per id | check all, change status at thresholds | registry.update_status | instance replaced during the check |
| `protection.py` `SelfProtection` | heartbeats in the window, protecting or not | check window | registry's count and flag | counts of the window against the registry's expectation |
| `server.py` `DiscoveryServer` | none of its own | HTTP handlers, cluster status | all of the above | reads of several nodes at different moments |
| `query.py` `QueryService` | none | filters | registry | none |

Scheduling. Each node is single threaded: a coroutine runs until an `await`
that really suspends. An `asyncio.Lock` that nobody holds does not suspend, and
no method awaits anything while it holds `Registry._lock`; so every registry
operation, `_apply_sync` and the handling of a datagram up to its reply are one
atomic step. What does suspend: waiting for an ACK, `sleep`, a `put` on a full
subscriber queue inside a change callback, and a subscriber callback.

What would make each component correct:

* registry: what it knows of a key is not forgotten except with an expired
  tombstone; the expected-heartbeat count equals the number of instances;
  silent instances are evicted unless protected;
* replication: merging never loses the newer entry; no replica shows what
  nobody wrote; replicas agree once writes stop;
* membership: a member that stops is found out and forgotten, one that left is
  not judged again, nobody but itself changes what a node says of itself;
* watcher: each event reaches each of its subscribers once, and a subscriber
  that does not poll stops nobody else;
* health and protection: the status follows the checks; evictions stop while
  heartbeats are missing.

## 2. Modules

| Module | Models | Runs |
|---|---|---|
| `RegistryState` | the data of a registry, and each operation on it as a function from state to state | (extended by the others) |
| `Registry` | one registry with gossip off (`enable_gossip=False`) | through `Server` |
| `Watcher` | subscribers, their bounded queues, notifications that wait | `replaced`, and through `Server` |
| `Server` | `Registry` and `Watcher` together: each operation with the notification it awaits | `served`, `slow` |
| `Replication` | several registries, deltas, full-state exchange, the network | `home`, `tie`, `renewed` |
| `Catalog` | abstract: what replication promises, whoever writes | property `ImplementsCatalog` of `home` |
| `TombstoneGC` | `Replication` with time: tombstones that expire at each node on its own | `lasting` |
| `Membership` | member lists, probes, suspicion, joining and leaving | `three`, `forgotten`, `proxy` |
| `Health` | rounds of checks, counters and thresholds beside the registry, and what queries offer | `checked` |
| `Protection` | self-protection, renewals and eviction in discrete time | `windowed` |
| `RegistryLemmas` | lemmas about the operators of `RegistryState` | TLAPS |
| `ReplicationProofs`, `TombstoneProofs`, `WatcherProofs`, `ServerProofs`, `MembershipProofs`, `HealthProofs`, `ProtectionProofs` | theorems about the module in the name; `ServerProofs` also about `Registry`, `ReplicationProofs` also about `Catalog` | TLAPS |
| `MCReplication`, `MCTombstoneGC`, `MCWatcher`, `MCMembership`, `MCServer`, `MCHealth`, `MCProtection` | constants for TLC | |

`Server` EXTENDS `Registry` and instantiates `Watcher`; `Replication` EXTENDS
`RegistryState` and instantiates `Catalog` for its refinement; `TombstoneGC` EXTENDS
`Replication`. `TombstoneProofs` EXTENDS `TombstoneGC` and `ReplicationProofs`;
`ServerProofs` EXTENDS `Server` and instantiates `WatcherProofs`.

### RegistryState

A registry is a record: `inst[k]` for each key, a (service, id) pair, and
`tomb[i]` for each id. An instance is its `version`, its `status` (standing for
everything that distinguishes two contents under one version) and `fresh`:
whether `last_heartbeat` lies within `heartbeat_timeout`. `fresh` travels with
the instance in deltas and snapshots as `last_heartbeat` does in `to_dict`.

`Register`, `Deregister`, `DeregisterMissing`, `UpdateStatus`, `SetFresh`,
`DropTombstones` are the bodies under the lock of the local operations.
`ApplyRegister` and `ApplyDeregister` are the two branches of `apply_delta`;
`ApplyTombstones` is `_apply_tombstones`; `ApplySync` is `_apply_sync` without
its member list. The loops over a snapshot are written as one simultaneous
update, which is the same as the loop when an id is used under one service
(`OneServicePerId`); `Replication` assumes that, `Registry` does not need it
because it receives nothing.

The operators named "As if ..." are variants that a plausible bug would produce
(a comparison left out, a count not adjusted). No specification uses them; they
serve to confirm that each property fails when the code is wrong that way.

### Registry

Variables: `reg`, `expected` (`_expected_heartbeat_count`), `protected`
(`_protection_enabled`), `expired` (the rest of the eviction loop's list).
`EvictExpired` is the scan together with the first removal, since nothing
suspends between them; after that each `EvictNext` is a step of its own because
`deregister` awaits the change callbacks. Time is `HeartbeatLapse`, which may
happen to any instance at any moment, and the set `E` of ids past their TTL in
`CleanupTombstones`. Self-protection may switch at any time.

### Replication

Variables: `reg`, `queue` (`_transmission_queue`), `network`, and two history
variables, which guard nothing: `written`, the entries that local operations
produced, and `contested`. Messages are records of kind `CHANGE` and `DEREGISTER`
(the SYNC messages built by `propagate_instance_change`), `SYNC` and `ACK` (full
states). The reply to a delta matches no pending future and changes nothing, so it
is not modelled. Loss is in sending: any part of what is sent arrives (`Transmit`).
A delivered datagram may stay in the network when `MayDuplicate`. `Writers`,
`Checkers` and `Evictors` say at which nodes clients register and deregister a key,
at which nodes its status is changed (by clients or the health checker), and at
which nodes the eviction loop may find it expired: every node runs that loop on its
replicas too (`server.py:62`).

The `Home` of a key is one of the nodes it is written at. What the code promises
of a key depends on who changes it, because versions are counted at each node on
its own: a key becomes `contested` when another node than its home changes it (a
replica's eviction does, run `renewed`), and stops being so when its home writes
something newer than all that was ever written for it while no removal is under
way (`Prevails`, `Removes`). Nothing is assumed about who writes or evicts where;
the properties say what holds of contested keys and what of the others.

A node may send to any other at any time or never: `Membership` has who takes whom
for ALIVE, and that can end in two nodes that never exchange anything again, since
the sync loop picks ALIVE members only (`gossip.py:425`) and nothing lifts a
suspicion on contact (`gossip.py:447`). `Convergence` therefore has the exchanges it
needs as premises: `KeepsHearing(n, m)` says that n merges a full state of m again
and again, whichever side asked for it.

Left out of `Replication`: EVENT and COMPOUND messages and member lists; tombstone expiry; a
change callback that suspends on a full subscriber queue, which would delay the
delta (the model queues it at once); datagrams too large for UDP (equal loss).

### TombstoneGC

Adds to each node the `age` of its tombstones, and the clean-up loop that drops those
older than `TombstoneTTL` (`CleanupTombstones`). Any step that records a tombstone,
also one received, gives it a new timestamp (`Stamped`), so nodes drop it at different
moments and one that has dropped it may take it up again. A `Tick` is long compared
with the life of a datagram and finds the network empty, but not the queues: a node
that takes no other member for ALIVE keeps its deltas for any time
(`gossip.py:398`), while others go on sending it their states.

`heard` is the time since a node merged the full state of another, `waited` the time
its oldest delta has been waiting. `severed` becomes true when one of them passes
`MaxApart`: two nodes were apart, or a delta waited, for longer. The code bounds
neither, so time goes on, and `GoneStaysGone` claims nothing from then on.
`gone` is the time since a removal, by a client or by an eviction anywhere, counted
from the first at which the key is not contested, that is, from one that its home
made or has confirmed; a registration or a change of status ends it. Ids are generated
(`registry.py:23`): `RegisterAgain` registers at its home an id that is new or that
the home still knows. Every operation of `Replication` is there, those of replicas
included (`RegisterAgain`, `SetStatus`, `Withdraw`, `Heartbeat`).

### Watcher

Variables: `object` (every `Subscriber` created), `listed` (`_subscribers`, in
the order of the dicts), `byId` (`_all_subscribers`), `queue`, `waiting` (objects
on whose empty queue a `get_events` waits), and per change `due` (its list of
targets, copied before the first await) and `todo` (the rest of it). `Change` is
`notify` up to the first full queue, `Resume` goes on from there when there is
room; a change whose `todo` is empty has reached gossip. `got` is a history
variable. `asyncio.Queue` lets a new `put` overtake one that waits, so `Resume`
may pick any waiting change. The object under an id is replaced when the id
subscribes again, which leaves objects that nobody can poll; the model keeps
them. An EVENT from another node notifies as a local change does. Left out:
subscribers with callbacks (no HTTP client has one), what an event says, the
order of events (overtaking leaves none to promise).

### Server

A change of the registry calls `_on_instance_change`, which awaits
`watcher.notify` (`server.py:56`); here every registry operation that makes a
change is the conjunction of the action of `Registry` and the `Change` of
`Watcher`. A request that has to wait at a full queue delays its own answer
only. The eviction loop awaits the callback inside its own `deregister`:
`awaited` is the number of the change whose notification it waits for, and
`LoopRuns` guards its next step. `LeavesRoom` bounds the requests so that the
changes made by evictions stay possible under `MaxChanges`: the bound disables
no eviction. Polls that wait, re-subscribing and unsubscribing are left to the
run of `Watcher` alone. Gossip is off.

### Membership

Variables: `members` (a record of state and incarnation for each node at each
node), `running`, `probe` and `network`. A record's `overdue` says that
`last_seen` is longer ago than the timeout of its state; `Lapse` sets it at any
moment and hearing of the node clears it. The probe loop keeps a reference to the
record of its target across its awaits, while merging or deletion may put another
record in its place: `probe[n].current` says whether the referenced record is
still the listed one, and `Judged` writes only then. A direct or indirect probe is
a step that starts it and a step that ends it; how far a request got
(`Reached`) decides only who heard whom. `DeliverAck` includes what a join does with
the answer; an ACK nobody waits for any more is `DeliverLateAck`. `Vouched(n, m)` is a step
in which others keep m in the list of n: a proxy answers the probe of m (also one
that could not reach it, run `proxy`), or a list from which n takes m arrives. `Leave` is
`leave` up to `stop`; between both the node still answers. A node whose state is
`UNLISTED` with incarnation -1 is not in the dict. Left out: registry contents of
the same SYNC datagrams (in `Replication`), other datagrams, which would only
clear `overdue`, as not lapsing does; addresses; a join to the node itself,
which stores nothing; a second call of `leave`; a restart under the same id (ids
are generated).

### Health

Variables: `status` of the registered instance of each key; `held`, what the
check of a key under way holds; `failures` and `successes`, by id, as
`_consecutive_failures` and `_consecutive_successes`; `streak`, a history of the
results in a row. `StartRound` is the `gather` over all instances: the next round
starts when every check of the last has ended. A check keeps the `Instance`
object it was started with while clients register, deregister and set statuses
and the eviction loop removes: `held[k] = Registered` says that this object is
still the registered one, and otherwise `held[k]` is its status at the moment it
was removed or replaced, which is what `_process_instance` goes on to read.
`CheckEnds` counts the result by id and, at a threshold, sets the status of
whatever is registered by then (`Sets`). Failures start again at 0 at the
threshold, successes go on (capped at the threshold, above which the code does not
distinguish them). UNKNOWN leaves the counters alone. What a result comes from -
an HTTP request, a custom checker, a timeout - is a choice. `Offered` is the
selection of `QueryService`. Left out: versions; a status change that waits for
a subscriber (`Server` has such waits).

### Protection

Time passes in ticks. `Interval`, `Timeout`, `Window`, `CheckInterval` and
`RatePercent` are the settings; `Delay` is how late the protection loop may wake up;
`Beat` is the most a steady client lets pass between renewals. `Check` is
`_check_protection` with its comparison in integers
(`count * 100 * Interval < live * RatePercent * elapsed`); `_handle_renew` counts
a renewal, a registration does not. `age` saturates above `Timeout`, `count` at
`MaxCount`, a number that is enough in every window. Histories: `steady` (in this
window nobody came, went or was late) and `quiet` (the time since the last request
of any client). `MaxElapsed` bounds a window: checks come every `CheckInterval`, up
to `Delay` late, and the first that finds the window long enough ends it. With
gossip off the expected heartbeats are those of the registered instances
(`Registry!ExpectedMatchesLive`). One round of eviction is one step, and no instance
is OUT_OF_SERVICE.

Two conditions on the settings are stated apart and not assumed by the module.
`SteadyIsEnough`: clients renew a little faster than `Interval`; with `Beat =
Interval` exactly, a single instance whose renewal is due at the window's edge
counts 5 of 6 and falls short of 85 %. `SteadyInTime`: they renew before they
expire. The configuration of `windowed` satisfies both (`MCProtection!SettingsFit`);
`PartitionIsNoticed` needs neither, nor any relation of `Timeout` and `Window`.
`MaxQuiet` is where `quiet` saturates, just above two longest windows.

## 3. Runs, bounds and what they show

`MaxVersion` bounds the versions that operations produce, in their guards; a
bound that stops writers is also what "once writes stop" means in `Convergence`.
`MaxQueued` and `MaxInFlight` bound the deltas waiting and the datagrams in
flight; further sends are losses, which the model allows anyway.

| Run | Instance | Result |
|---|---|---|
| `served` | one instance of each of 2 services, 2 statuses, versions to 3, 4 changes, one subscriber with capacity 1 who polls | types; `ExpectedMatchesLive`; `ForgetsOnlyByExpiry`; `ExpiredIsEvicted`; `ChangesGetThrough` hold |
| `slow` | the same, nobody obliged to poll | `EvictionGoesOn` is violated |
| `replaced` | 2 ids, 3 subscriber objects, capacity 1, 3 changes | types; `ExactlyOnce`; `PolledAreListed` hold |
| `home` | 3 nodes, 1 key written at `a`, found expired at `a` and at replica `b`, 1 status, 1 queued delta, 1 datagram, versions to 3 | types; `TombstonesHonoured`; `SyncMerges`; `HomeIsNewest`; `ImplementsCatalog`; `Convergence` hold |
| `tie` | 2 nodes, registered at `a`, status changed at both, versions to 2 | `DeregistrationPropagates` is violated |
| `renewed` | 2 nodes, written at `a`, found expired at replica `b` only, versions to 2 | `RenewedStaysListed` is violated |
| `lasting` | 3 nodes, 1 key written at `a`, found expired at replica `b`, 2 queued deltas, 1 datagram, versions to 2, `TombstoneTTL` and `MaxApart` 1, until nodes are severed | types; `GoneStaysGone` hold |
| `three` | 3 nodes that know each other, 2 may leave, 1 may stop, probes of 1 node, 1 datagram, duplication | types; `LeavingIsFinal`; `OwnRecordIsOwn` hold |
| `forgotten` | 3 nodes that know each other, `b` and `c` may stop, probes of `a`, 1 datagram | `StoppedIsForgotten` holds |
| `proxy` | 3 nodes that know each other, one stops, no datagram in flight | `UnreachableStaysSuspect` is violated |
| `checked` | 2 instances, 3 statuses, thresholds 3 and 2 (the defaults) | types; `StatusIsEarned`; `SickIsNotOffered`; `HealthyIsOffered` hold |
| `windowed` | 2 instances, interval 3, timeout 9, window 6, check every 2, at most 1 late, 85 %, beat 2 | types; `PartitionIsNoticed`; `SteadyIsNotProtected`; `ProtectionEnds` hold |

Why the bounds suffice for the interesting cases. Three versions allow
register, deregister, register again, with an old delta or state still waiting
in a queue or in the network. A datagram in flight and the deltas that wait in the queues
come in either order; `three` duplicates datagrams. Keys interact in a registry only
through a shared id and through the loop of the eviction; `served` has
the loop with two keys, and the theorems allow shared ids where they hold. In
`Replication` ids are unique and the operators act on keys independently, so one
key is enough. In `home` clients write at one node, its replica `b` evicts, so that the
key is contested and won back, and one datagram is in flight; that its safety
properties hold for any number of datagrams, duplicated or not, any statuses and writers
and evictions everywhere, is what their theorems add. Three nodes let a
node learn an entry from a replica instead of its writer. In `lasting` the third node hands on
what the home has already dropped, two versions and two kept deltas let an old
registration and the removal wait in one queue, and with `TombstoneTTL = MaxApart` the condition
`TombstonesOutlivePartitions` (`MCTombstoneGC!SettingsFit`) has no room to spare. Its
CONSTRAINT `InTouch` has TLC go no further than a severed state: `severed` never
becomes false again, and `GoneStaysGone` says nothing there. A queue of capacity 1
fills at the first event, so notifications wait and overtake each other; three
objects let an id be replaced while the other stays. In `served` four changes with
two instances let the eviction loop wait in the middle of a round while clients
go on. Checks of two instances end in either order, and thresholds above 1 let
streaks be broken. In `windowed` a window spans several checks, checks come early
and late, two instances share the count, and the settings have the proportions of
the shipped ones: `heartbeat_timeout` is three intervals (30 s and 10 s) and shorter than the two
windows that noticing a partition can take.
The nodes of `Membership` differ only in what the constants let them do; a third
node brings proxies and rumours at second hand. `Probers` bounds whose probe loop
takes steps, which the state space of three nodes needs. In `forgotten` a node that
stopped can be listed again from the list of the third, and the third may answer for it. `three`,
`forgotten` and `proxy` start
when all have joined, which joins reach from the initial state. Watcher and
Membership runs do not check deadlock: changes, subscribers and running nodes may
come to an end.

Fairness. `Server!ScheduledSpec`: the eviction loop wakes up again after each
sleep and its task is scheduled again when its await is over, so weak fairness of
both eviction steps; a coroutine that waits at a queue with room is scheduled some
time, so weak fairness of each `Resume`. `ServedSpec` adds that every client polls
again and again, which is the clients' part. Requests, time and protection are not
fair.
`Replication!FairSpec`: what is in flight arrives (what is lost is never in flight), since every
datagram received gets a task of its own (`gossip.py:627`): weak fairness of the
deliveries together. Neither exchanges nor broadcasts, writes and evictions are fair: `Convergence`
does not depend on a single delta, and says itself which nodes must keep hearing which.
`Health!FairSpec`: the check loop wakes up again, and each check has a timeout.
`Protection!FairSpec`: time passes and the protection loop wakes up again (`Tick` stops
where `Delay` says it must have).
`Membership!Fairness`: the waits of a probe end by their timeouts, the timeout
loop runs for ever, time passes for a node that has stopped, and the probe loop
takes the alive members in turn (`_probe_index`), hence strong fairness of a probe
of each of them. Nothing is assumed of datagrams.

## 4. Proofs

Assumptions: `RegistryAssumption` (each key has an id; `Absent` is none of the
values it stands for), `StandaloneAssumption` (finitely many keys, a natural
bound), `ReplicationAssumption` (types of the parameters, `OneServicePerId`),
`ServerAssumption` (each key has a service), `WatcherAssumption` (queues hold something,
`All` is no service, `Unknown` no object), which `Server` assumes of its own constants
(`SubscriberAssumption`), `TombstoneAssumption` (times above 0), `HealthAssumption` (an id belongs to
one key, thresholds above 0), `ProtectionAssumption` (settings above 0). All hold for any number of nodes, keys, ids, statuses and any bounds.

`RegistryLemmas` proves of each operator that it yields a registry again, that
it preserves `TombstonesRespected` (no instance is listed that the registry's
own tombstone outranks), and what a merge shows: `ViewAfterRegister` for the
pass over instances, `ViewAfterTombstones` for the pass over tombstones,
`ViewAfterSync` for both: the newer of the two entries, the own one on a tie.

* `ServerProofs!TypeCorrect`: `Spec => []TypeOK`.
* `ServerProofs!CountCorrect`: `Spec => []ExpectedMatchesLive`. Inductive with
  `TypeOK`; each step adds a key, removes one, or keeps the set of live keys.
* `ServerProofs!ForgetsOnlyByExpiryHolds`: with unique ids,
  `Spec => ForgetsOnlyByExpiry`. Each operation leaves or raises `Known`.
* `ReplicationProofs!TypeCorrect`, `TombstonesAlwaysHonoured`: the inductive
  invariant is `IInv == TypeOK /\ TombstonesHonoured`. Types are needed because a
  datagram's state must be a registry for a merge to be one.
* `ReplicationProofs!SyncAlwaysMerges`: `Spec => SyncMerges`, from `IInv` and
  `ViewAfterSync`. Without `TombstonesHonoured` the merge is not a join: an instance
  hidden under its own tombstone would show up again.
* `MembershipProofs!TypeCorrect`, `LeavingStaysFinal`, `OwnRecordStaysOwn`: from one
  inductive invariant `IInv`. Every record, listed or in flight, has incarnation 1
  exactly when it says LEFT (`Record`); a node's own record says ALIVE or LEFT; and the
  record a probe may still write to is of another node and ALIVE, SUSPECT or DEAD
  (`ProbeIsSound`). Without the last a probe under way could overwrite an
  announcement that arrived meanwhile. `ReplaceKeeps` covers every step that
  replaces records, `JudgedKeeps` every step of a probe.
* `ReplicationProofs!HomeAlwaysNewest`, `CatalogImplemented`:
  `Spec => []HomeIsNewest` and `Spec => ImplementsCatalog`, whoever writes and evicts. The
  inductive invariant is `Provenance`: `IInv`; everything a node shows, queues or has in flight is `Absent` or an entry that was written (`ShownIsWritten`,
  `Traced`); and for the keys that are not contested the home shows the newest entry
  ever written (`HomeIsUpToDate`), and removals wait at the home only (`QueuedIsWritten`)
  and are never on their way to it (`SentIsWritten`). The
  last is what makes the unchecked removal of `registry.py:273` harmless there, and why
  `Prevails` asks for it. A local
  operation is a `Write` of the catalogue or shows nothing new (`LocalIsWrite`), a
  delivery is an `Adopt` (`DeliverIsAdopting`, from `MayTakeOver`, what one node may take over
  for one key), sending is a stutter.
* `ServerProofs!ImplementsRegistry`, `ImplementsWatcher`: `ServerSpec => Spec` and
  `ServerSpec => W!Spec`: waiting for subscribers adds no behaviour to the registry, and
  the registry none to the subscribers. `ServerCountCorrect` and
  `ServerForgetsOnlyByExpiry` carry the registry's theorems over to a server,
  `ServerExactlyOnce` and `ServerTypeCorrect` those of the watcher.
* `WatcherProofs!TypeCorrect`, `AlwaysExactlyOnce`, `PolledAlwaysListed`: from `IInv`. That no
  queue exceeds its capacity is part of the types (`PutFits`: what a
  notification reaches has room).
  `ExactlyOnce` counts the occurrences of a change in what an object got, in its queue and in
  what is still owed to it, and must be 1 for a target; a change adds one for each
  occurrence of an object among its targets, so these must be without repeats: a topic lists
  one object at most for each id (`OnePerId`) and only objects of that topic
  (`ListedUnderOwn`), hence the lists of a service and of all services have no object in common
  (`TargetsDiffer`). `OwedOnce` keeps it so while a notification waits. That the object found
  under an id has that id (`FoundHasId`) is why replacing or unsubscribing takes the right entry
  off the list. `Occurs...` count over appended, joined and shortened sequences; what a
  notification reaches before the first full queue (`RestIsOwed`, `PutServes`) needs a least
  number (`LeastNumber`), which is derived from the well-foundedness of strict inclusion
  of finite sets, because the induction theorems cannot be used.
* `TombstoneProofs!TimeTypeCorrect`, `StillHonoured`: with `IInv` of `ReplicationProofs`,
  whoever writes where; dropping tombstones can only show less (`DropTombstonesRespects`).
* `TombstoneProofs!GoneAlwaysStaysGone`, if `TombstonesOutlivePartitions`, whoever writes and evicts.
  What counts is everything *around* for a key: all that a
  node shows, queues or has sent (`Around`). The invariant is `GCInv`: types,
  `RemovalsFromHome` (of an uncontested key only the home's removals are under way),
  `AroundIsWritten`, and, until nodes are severed, for every key that is not contested: the home shows
  nothing older than anything around (`HomeAhead`); before the home's own tombstone is old
  enough to be dropped, every node has heard of it and every delta queued before it has gone out, so that
  no older instance comes back when the home has forgotten (`HomeTellsInTime`); and for
  every key: since a removal that counts its tombstone
  spreads, so that after `MaxApart` nothing around is alive (`GoneSpreads`). Both speak of
  a tombstone of version `D` or above at most `t` old (`Spread`): it is kept at the home, at
  every node that has merged the home's state less than `t` ago, and in every full state
  of the home in flight, and everything alive around is older than `D`; and of deltas that
  offer something else (`OldWaits`): they wait in queues in which one has waited for `t`. An operation on the
  key is a `Writes`, any other step an `Onward`, both told by what is shown, around, waiting and heard only;
  `SpreadStays`, `OldWaitsStays`, `OnwardKeeps`, `WritesAhead` and `WithdrawKeeps` prove the
  invariant of these two,
  `TickKeeps` of a tick, and each action is shown to be one of them. Without `HomeAhead` a replica's older
  instance could outlive the tombstone; without `HomeTellsInTime` the home could show
  nothing while an instance is still around; without `OldWaits` a kept delta could bring
  it back.
* `HealthProofs!TypeCorrect`, `StatusAlwaysEarned`: from `IInv`, which adds to the types
  that a counter never exceeds the streak of its kind (`Counted`) and that a check
  never holds a registered object where none is registered (`HoldsOne`).
  `OthersEndNoCheck` is why only `CheckEnds` can show a change of status to `Earned`.
* `ProtectionProofs!TypeCorrect`, `PartitionAlwaysNoticed`, for any settings: from
  `IInv`: a window was too short at its last check (`ShortAtLastCheck`, which bounds
  `elapsed`), nothing counted is older than the window (`CountsOwnWindow`), and when
  the clients have been silent for longer than the window and another one, protection
  is on while anything is registered (`SilentWindowProtects`), because a whole window
  without a renewal has ended.
* `ProtectionProofs!SteadyIsNeverProtected` (if `SteadyIsEnough` and `SteadyInTime`): the
  renewals that steady clients must have sent by now are a set of pairs of an instance and
  a number (`Due`), so that its cardinality does what a sum over the instances would; the
  invariant `DueAreCounted` says that they have been counted and that none is
  overdue. A renewal adds at most one pair (`RenewCounts`), a tick none
  (`TickCounts`), and at the end of a window `live \X (0 .. q - 1)` is among them
  (`SteadyIsNotTooFew`), which is what `SteadyIsEnough` asks for.

Only model-checked: the liveness properties `ExpiredIsEvicted`, `ChangesGetThrough`,
`Convergence`, `StoppedIsForgotten`, `SickIsNotOffered`, `HealthyIsOffered` and
`ProtectionEnds`: TLAPS does not do liveness under fairness. Every invariant and every
action property of a passing run is a theorem.

## 5. Disagreements found

* `DeregistrationPropagates`. `tests/test_multi_replica.py:145` expects a
  deregistration to reach node B. If B's health checker changes the status
  first, the tombstone and B's instance carry the same version; B keeps the
  instance (`gossip.py:276`), A refuses it (`registry.py:254`), and every later
  exchange leaves both as they are.
* `EvictionGoesOn` (run `slow`). The log in `watcher.py:139` says "queue full,
  dropping event"; `await queue.put` waits instead (`watcher.py:136`). When the eviction
  loop's own deregistration has to wait for a subscriber that does not poll, no
  instance is evicted any more.
* `RenewedStaysListed` (run `renewed`). `tests/test_multi_replica.py:232` expects nodes
  to see instances that nobody deregisters. Renewals are not gossiped, so a replica's
  `last_heartbeat` stays that of the last change; `heartbeat_timeout` later its
  eviction loop (`registry.py:215`) deregisters the instance under a higher version and
  tells the home, which removes an instance that renews all the time.
* `UnreachableStaysSuspect`. A proxy reports `"reachable": False`
  (`gossip.py:487`), and `_indirect_probe` takes any answer for a proof of life
  (`gossip.py:359`): with a third node, one that has stopped is not found out.

Met while modelling, without a run of their own: a round of eviction under way
finishes its list after protection was switched on (`registry.py:206` reads the flag
once; the log in `protection.py:78` says evictions are suspended); an id that
subscribed under two topics stays listed under the first after it unsubscribes
(`watcher.py:89`); nodes whose clean-up loops are out of step may hand a tombstone back to
each other for ever, each time with a new timestamp; an id that a client uses again after its home has dropped
the tombstone starts from a low version (`registry.py:119`), and a node that still
holds the tombstone refuses the new instance and has its home remove it (`gossip.py:276`), which
is why `TombstoneGC` takes ids to be generated; a node that takes nobody for ALIVE keeps its deltas
(`gossip.py:398`), and a CHANGE sent that late, after every tombstone has expired, brings a removed
instance back, which is what `severed` leaves out of `GoneStaysGone`; two nodes that suspect each
other stop exchanging states for good (`gossip.py:425`, `gossip.py:447`); with the default settings
(`heartbeat_timeout` 30 s, windows of 60 s checked every 15 s) a partition is noticed after the
instances it cut off were evicted.

## 6. Plan

Done: `Registry`, `Replication`, `Catalog`, `TombstoneGC`, `Watcher`, `Membership`, `Server`,
`Health`, `Protection`, and the proofs of section 4. Left, in this order:

1. `Replication` over the targets that `Membership` allows.
2. `ClusterStatus`: reads of several nodes while they change.

## 7. Not modelled

HTTP parsing, routing and JSON: I/O. The filters of `QueryService`: pure
selections. The cluster status report (`server.py:380`) and statistics: nothing in the
system reads them. The content of events and the delivery of EVENT datagrams to
other nodes: they are sent once and never repeated, and what a subscriber reads is the
live instance. `tests/test_e2e_http.py:192` asserts that a subscriber at another node gets
the events of a registration and of a deregistration with their instance, on a network
that loses nothing; that is not modelled. Logging; start and stop of the server and cancellation of its tasks; the
names, hosts, ports and metadata of instances. Nothing is persisted, so there is no
recovery.
