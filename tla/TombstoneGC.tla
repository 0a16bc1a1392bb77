----------------------------- MODULE TombstoneGC -----------------------------
(***************************************************************************)
(* The expiry of tombstones at replicated registries: each node drops what *)
(* it has kept longer than tombstone_ttl, counted from the moment it got   *)
(* the tombstone itself (sdiscovery/registry.py, _cleanup_tombstones).     *)
(*                                                                         *)
(* Replication with time.  A tick is longer than a datagram lives.  Two     *)
(* nodes may be apart and a node may keep its deltas for any time: it      *)
(* does so while it takes no other member for ALIVE (gossip.py:398).  The  *)
(* question is what has to fit into tombstone_ttl for a removal to last.   *)
(***************************************************************************)
EXTENDS Replication

CONSTANTS
    TombstoneTTL,  \* tombstone_ttl, in ticks
    MaxApart       \* the ticks that two nodes go without hearing each other's state,
                   \* and that deltas wait at a node, as long as nothing is severed

ASSUME TombstoneAssumption ==
    /\ {TombstoneTTL, MaxApart} \subseteq Nat \ {0}
    /\ Absent \notin Nat

\* A tombstone outlives the time two nodes may be apart.
TombstonesOutlivePartitions == MaxApart <= TombstoneTTL

VARIABLES
    age,      \* the time since the timestamp of each tombstone, up to TTL + 1
    heard,    \* the time since a node merged the full state of another, up to MaxApart
    waited,   \* the time the oldest delta waits in a node's queue, up to MaxApart
    severed,  \* history: two nodes were apart, or a delta waited, beyond MaxApart
    gone      \* history: the time since a key, not contested, was removed, up to
              \* MaxApart + 1; Absent when it was registered or changed since, or never

clocks == <<heard, severed>>
timeVars == <<age, clocks, waited, gone>>
gcVars == <<vars, timeVars>>

GCInit ==
    /\ Init
    /\ age = [n \in Nodes |-> [i \in Ids |-> 0]]
    /\ heard = [n \in Nodes |-> [m \in Nodes |-> 0]]
    /\ waited = [n \in Nodes |-> 0]
    /\ severed = FALSE
    /\ gone = [k \in Keys |-> Absent]

UpTo(bound, t) == IF t < bound THEN t + 1 ELSE bound

\* As if only the version of a tombstone were recorded.
StampedNever ==
    age' = [n \in Nodes |-> [i \in Ids |->
               IF reg[n].tomb[i] = reg'[n].tomb[i] THEN age[n][i] ELSE Absent]]

\* Whatever records a tombstone, locally or received, gives it a new timestamp;
\* it never records the version that is already there.
Stamped ==
    age' = [n \in Nodes |-> [i \in Ids |->
               IF reg[n].tomb[i] = reg'[n].tomb[i] THEN age[n][i] ELSE 0]]

\* An empty queue keeps nothing waiting.
Waiting == waited' = [n \in Nodes |-> IF queue'[n] = {} THEN 0 ELSE waited[n]]

-----------------------------------------------------------------------------
\* Ids are generated: one that its home has forgotten is not registered there again.
RegisterAgain(n, k) ==
    /\ n # Home[k] \/ written[k] = {} \/ View(reg[n], k) # Absent
    /\ \E v \in 1 .. MaxVersion, s \in Status : RegisterInstance(n, k, v, s)
    /\ gone' = [gone EXCEPT ![k] = Absent]
    /\ Stamped /\ Waiting /\ UNCHANGED clocks

\* A change of status, also at a node that has not heard of a removal.
SetStatus(n, k) ==
    /\ \E s \in Status : ChangeStatus(n, k, s)
    /\ gone' = [gone EXCEPT ![k] = Absent]
    /\ Stamped /\ Waiting /\ UNCHANGED clocks

\* A removal by a client or by the eviction loop of any node; it counts from the
\* first one at which the key is not contested.
Withdraw(n, k) ==
    /\ DeregisterInstance(n, k) \/ RepeatDeregister(n, k) \/ Evict(n, k)
    /\ gone' = [gone EXCEPT ![k] = IF k \in contested' \/ @ # Absent THEN @ ELSE 0]
    /\ Stamped /\ Waiting /\ UNCHANGED clocks

Heartbeat(n, k) ==
    /\ RenewInstance(n, k) \/ HeartbeatLapse(n, k)
    /\ UNCHANGED timeVars

\* A SYNC and an ACK carry a full state, a delta does not.
Receive(m) ==
    /\ Deliver(m)
    /\ heard' = IF m.kind \in {"SYNC", "ACK"}
                THEN [heard EXCEPT ![m.dst][m.src] = 0] ELSE heard
    /\ Stamped /\ UNCHANGED <<waited, severed, gone>>

Send ==
    /\ (\E n \in Nodes : Broadcast(n)) \/ (\E n, m \in Nodes : SendSync(n, m))
    /\ Waiting /\ UNCHANGED <<age, clocks, gone>>

\* As if a tombstone were dropped when its TTL is reached.
CleanupAtTTL(n) ==
    LET expired == {i \in Ids : reg[n].tomb[i] # Absent /\ age[n][i] >= TombstoneTTL} IN
    /\ expired # {}
    /\ reg' = [reg EXCEPT ![n] = DropTombstones(@, expired)]
    /\ Stamped
    /\ UNCHANGED <<queue, network, histories, clocks, waited, gone>>

\* _cleanup_tombstones, whenever its loop wakes up.
CleanupTombstones(n) ==
    LET expired == {i \in Ids : reg[n].tomb[i] # Absent /\ age[n][i] > TombstoneTTL} IN
    /\ expired # {}
    /\ reg' = [reg EXCEPT ![n] = DropTombstones(@, expired)]
    /\ Stamped
    /\ UNCHANGED <<queue, network, histories, clocks, waited, gone>>

\* More than MaxApart goes by without two nodes hearing of each other, or with a
\* delta in a queue.
Severs ==
    \/ \E n, m \in Nodes : n # m /\ heard[n][m] = MaxApart
    \/ \E n \in Nodes : queue[n] # {} /\ waited[n] = MaxApart

\* Time passes once what is in flight has arrived or is lost.
Tick ==
    /\ network = {}
    /\ age' = [n \in Nodes |-> [i \in Ids |->
                  IF reg[n].tomb[i] = Absent THEN 0 ELSE UpTo(TombstoneTTL + 1, age[n][i])]]
    /\ heard' = [n \in Nodes |-> [m \in Nodes |->
                    IF n = m THEN 0 ELSE UpTo(MaxApart, heard[n][m])]]
    /\ waited' = [n \in Nodes |-> IF queue[n] = {} THEN 0 ELSE UpTo(MaxApart, waited[n])]
    /\ severed' = (severed \/ Severs)
    /\ gone' = [k \in Keys |->
                  IF gone[k] = Absent THEN Absent ELSE UpTo(MaxApart + 1, gone[k])]
    /\ UNCHANGED vars

GCNext ==
    \/ \E n \in Nodes, k \in Keys :
          RegisterAgain(n, k) \/ SetStatus(n, k) \/ Withdraw(n, k) \/ Heartbeat(n, k)
    \/ \E m \in network : Receive(m)
    \/ Send
    \/ \E n \in Nodes : CleanupTombstones(n)
    \/ Tick

GCSpec == GCInit /\ [][GCNext]_gcVars
-----------------------------------------------------------------------------
\* The types of the variables that Replication does not have.
TimeTypeOK ==
    /\ age \in [Nodes -> [Ids -> 0 .. TombstoneTTL + 1]]
    /\ heard \in [Nodes -> [Nodes -> 0 .. MaxApart]]
    /\ waited \in [Nodes -> 0 .. MaxApart]
    /\ severed \in BOOLEAN
    /\ gone \in [Keys -> (0 .. MaxApart + 1) \cup {Absent}]

\* A removal lasts: once nodes that missed it have had their exchanges, the
\* instance is listed nowhere until it is registered or changed again, although
\* every node drops its tombstone in time and takes up those of others anew,
\* replicas evict, and old deltas arrive.
GoneStaysGone ==
    ~severed =>
        \A k \in Keys :
            gone[k] # Absent /\ gone[k] > MaxApart => \A n \in Nodes : ~Live(reg[n], k)
=============================================================================
