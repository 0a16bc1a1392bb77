-------------------------------- MODULE Server --------------------------------
(***************************************************************************)
(* A server with gossip off: the registry together with its subscribers    *)
(* (sdiscovery/server.py, __init__ and _on_instance_change).  A change     *)
(* that an operation makes notifies the subscribers before the operation   *)
(* goes on.  A request that has to wait at a full queue delays its own     *)
(* answer; the eviction loop that has to wait evicts nothing meanwhile.    *)
(*                                                                         *)
(* The registry is the one of Registry, the subscribers those of Watcher,  *)
(* and each operation here is the registry's together with the             *)
(* notification it makes.                                                  *)
(***************************************************************************)
EXTENDS Registry, Sequences

CONSTANTS
    Services, All, SubscriberIds, Unknown,
    Capacity, MaxSubscribers, MaxChanges, MayReplace,   \* those of Watcher
    ServiceOf                                           \* the service of each key

ASSUME ServerAssumption == ServiceOf \in [Keys -> Services]

VARIABLES
    object, listed, byId, queue, waiting, due, todo, got,  \* those of Watcher
    awaited  \* the change whose notification the eviction loop awaits, or 0

W == INSTANCE Watcher

ASSUME SubscriberAssumption == W!WatcherAssumption

watcherVars == <<object, listed, byId, queue, waiting, due, todo, got>>
serverVars == <<vars, watcherVars, awaited>>

ServerInit ==
    /\ Init
    /\ W!Init
    /\ awaited = 0

-----------------------------------------------------------------------------
\* Bound on the requests that make changes: the change that evicts each
\* registered instance stays possible.
LeavesRoom == Len(due') + Cardinality(LiveKeys(reg')) <= MaxChanges

\* _on_instance_change, up to the first queue that is full.
Notify(k) == W!Change(ServiceOf[k])

HandleRegister(k, v, s) ==
    /\ RegisterInstance(k, v, s)
    /\ Notify(k)
    /\ LeavesRoom
    /\ UNCHANGED awaited

\* A deregistration of what is not registered notifies nobody.
HandleDeregister(k) ==
    /\ DeregisterInstance(k)
    /\ IF Live(reg, k) THEN Notify(k) ELSE UNCHANGED watcherVars
    /\ LeavesRoom
    /\ UNCHANGED awaited

HandleUpdateStatus(k, s) ==
    /\ ChangeStatus(k, s)
    /\ Notify(k)
    /\ LeavesRoom
    /\ UNCHANGED awaited

\* The eviction loop is not waiting for a notification.
LoopRuns == awaited # 0 => todo[awaited] = <<>>

BeginEviction(k) ==
    /\ LoopRuns
    /\ EvictExpired(k)
    /\ Notify(k)
    /\ awaited' = Len(due) + 1

ContinueEviction(k) ==
    /\ LoopRuns
    /\ EvictNext(k)
    /\ IF Live(reg, k)
       THEN Notify(k) /\ awaited' = Len(due) + 1
       ELSE UNCHANGED <<watcherVars, awaited>>

\* What changes nothing that subscribers are told of.
Unnoticed ==
    /\ \/ \E k \in Keys : RenewInstance(k) \/ HeartbeatLapse(k)
       \/ \E E \in SUBSET Ids : CleanupTombstones(E)
       \/ \E b \in BOOLEAN : SetProtectionMode(b)
    /\ UNCHANGED <<watcherVars, awaited>>

\* A notification that waited goes on; clients subscribe and poll.  (Waiting
\* polls and clients that subscribe again or unsubscribe are Watcher's.)
Subscribers ==
    /\ \/ \E c \in W!Changes : W!Resume(c)
       \/ \E i \in SubscriberIds, t \in W!Topics : W!Subscribe(i, t)
       \/ \E i \in SubscriberIds : W!GetEvents(i)
    /\ UNCHANGED <<vars, awaited>>

ServerNext ==
    \/ \E k \in Keys, v \in 1 .. MaxVersion, s \in Status : HandleRegister(k, v, s)
    \/ \E k \in Keys : HandleDeregister(k)
    \/ \E k \in Keys, s \in Status : HandleUpdateStatus(k, s)
    \/ \E k \in Keys : BeginEviction(k)
    \/ \E k \in Keys : ContinueEviction(k)
    \/ Unnoticed
    \/ Subscribers

ServerSpec == ServerInit /\ [][ServerNext]_serverVars

\* The event loop runs the eviction loop and every coroutine that waits at a
\* queue that has room.
ScheduledSpec ==
    /\ ServerSpec
    /\ WF_serverVars(\E k \in Keys : BeginEviction(k))
    /\ WF_serverVars(\E k \in Keys : ContinueEviction(k))
    /\ \A c \in 1 .. MaxChanges :
          WF_serverVars(c \in W!Changes /\ W!Resume(c) /\ UNCHANGED <<vars, awaited>>)

\* Besides, every client polls again and again.
ServedSpec ==
    /\ ScheduledSpec
    /\ \A i \in SubscriberIds :
          WF_serverVars(W!GetEvents(i) /\ UNCHANGED <<vars, awaited>>)

-----------------------------------------------------------------------------
\* The types of the registry's and the subscribers' variables.
ServerTypeOK ==
    /\ TypeOK
    /\ W!TypeOK
    /\ awaited \in {0} \cup W!Changes

\* Every change, whoever made it, gets through to all its subscribers as long
\* as they poll, and the coroutine that made it goes on.
ChangesGetThrough == W!ChangesGetThrough

\* An expired instance is evicted also when some subscriber does not poll: an
\* event for a full queue is dropped ("queue full, dropping event").
EvictionGoesOn == ExpiredIsEvicted
=============================================================================
