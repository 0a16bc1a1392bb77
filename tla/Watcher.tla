-------------------------------- MODULE Watcher --------------------------------
(***************************************************************************)
(* Subscriptions and change events of one node (sdiscovery/watcher.py).    *)
(*                                                                         *)
(* A change of the registry notifies the subscribers of its service and    *)
(* those of "__all__" one after the other, in the coroutine that made the  *)
(* change: it waits at a full queue, and only when it is through is the    *)
(* change handed to gossip (DiscoveryServer._on_instance_change).  An      *)
(* event from another node is notified the same way by the task that       *)
(* received it.  Subscribers are HTTP clients, which have a queue and no   *)
(* callback, and poll.                                                     *)
(***************************************************************************)
EXTENDS Integers, SequencesExt

CONSTANTS
    Services,
    All,            \* "__all__", the topic of subscribe_all
    SubscriberIds,
    Unknown,        \* what dict.get returns for an unknown subscriber
    Capacity,       \* maxsize of a subscriber's queue
    MaxSubscribers, \* bound on the Subscriber objects created
    MaxChanges,     \* bound on the changes made
    MayReplace      \* whether clients subscribe an id again, or unsubscribe it

ASSUME WatcherAssumption ==
    /\ All \notin Services
    /\ Unknown \notin Nat
    /\ Capacity \in Nat \ {0}
    /\ {MaxSubscribers, MaxChanges} \subseteq Nat
    /\ MayReplace \in BOOLEAN

Topics == Services \cup {All}

VARIABLES
    object,   \* the Subscriber objects created, by number: [id, topic]
    listed,   \* _subscribers: the objects notified for each topic, in order
    byId,     \* _all_subscribers: the object get_events finds for each id
    queue,    \* the queue of each object: numbers of changes
    waiting,  \* the objects on whose empty queue a get_events waits
    due,      \* the objects each change has to notify
    todo,     \* those of them it has not got to yet
    got       \* history: what was polled from each object's queue

vars == <<object, listed, byId, queue, waiting, due, todo, got>>

Objects == DOMAIN object
Changes == DOMAIN due

Init ==
    /\ object = <<>>
    /\ listed = [t \in Topics |-> <<>>]
    /\ byId = [i \in SubscriberIds |-> Unknown]
    /\ queue = <<>>
    /\ waiting = {}
    /\ due = <<>>
    /\ todo = <<>>
    /\ got = <<>>

-----------------------------------------------------------------------------
\* As if an object of the same id stayed in its place.
KeepListed(list, i, o) ==
    IF \E j \in DOMAIN list : object[list[j]].id = i THEN list ELSE Append(list, o)

\* An object of the same id under the same topic is replaced in its place.
Enlist(list, i, o) ==
    IF \E j \in DOMAIN list : object[list[j]].id = i
    THEN [j \in DOMAIN list |-> IF object[list[j]].id = i THEN o ELSE list[j]]
    ELSE Append(list, o)

\* The entry of an id under a topic is taken out; there may be none.
Delist(list, i) ==
    IF \E j \in DOMAIN list : object[list[j]].id = i
    THEN RemoveAt(list, CHOOSE j \in DOMAIN list : object[list[j]].id = i)
    ELSE list

Subscribe(i, t) ==
    /\ Len(object) < MaxSubscribers
    /\ byId[i] = Unknown \/ MayReplace
    /\ object' = Append(object, [id |-> i, topic |-> t])
    /\ listed' = [listed EXCEPT ![t] = Enlist(@, i, Len(object) + 1)]
    /\ byId' = [byId EXCEPT ![i] = Len(object) + 1]
    /\ queue' = Append(queue, <<>>)
    /\ got' = Append(got, <<>>)
    /\ UNCHANGED <<waiting, due, todo>>

\* Only the topic of the object found by id is looked at.
Unsubscribe(i) ==
    /\ MayReplace /\ byId[i] # Unknown
    /\ byId' = [byId EXCEPT ![i] = Unknown]
    /\ listed' = [listed EXCEPT ![object[byId[i]].topic] = Delist(@, i)]
    /\ UNCHANGED <<object, queue, waiting, due, todo, got>>

-----------------------------------------------------------------------------
(* notify *)

\* As if one place were kept free.
RoomButOne(o) == Len(queue[o]) < Capacity - 1

HasRoom(o) == Len(queue[o]) < Capacity

\* How many of the targets are served before one has no room.
Reach(targets) ==
    CHOOSE n \in 0 .. Len(targets) :
        /\ \A j \in 1 .. n : HasRoom(targets[j])
        /\ n < Len(targets) => ~HasRoom(targets[n + 1])

\* Change c is put into the queues up to the first that is full.
Put(c, targets) ==
    [o \in Objects |-> IF \E j \in 1 .. Reach(targets) : targets[j] = o
                       THEN Append(queue[o], c) ELSE queue[o]]

\* As if the target that had no room were left out.
SkipFull(targets) == SubSeq(targets, Reach(targets) + 2, Len(targets))

Rest(targets) == SubSeq(targets, Reach(targets) + 1, Len(targets))

Targets(s) == listed[s] \o listed[All]

\* A change of an instance of service s, and the notification up to where it
\* first has to wait.
Change(s) ==
    /\ Len(due) < MaxChanges
    /\ due' = Append(due, Targets(s))
    /\ todo' = Append(todo, Rest(Targets(s)))
    /\ queue' = Put(Len(due) + 1, Targets(s))
    /\ UNCHANGED <<object, listed, byId, waiting, got>>

\* There is room again: the notification goes on to the next full queue.  Any
\* waiting one may come first, and a new change may come before all of them.
Resume(c) ==
    /\ todo[c] # <<>> /\ HasRoom(Head(todo[c]))
    /\ queue' = Put(c, todo[c])
    /\ todo' = [todo EXCEPT ![c] = Rest(@)]
    /\ UNCHANGED <<object, listed, byId, waiting, due, got>>

-----------------------------------------------------------------------------
(* get_events *)

\* Everything queued is returned.
Drain(o) ==
    /\ queue[o] # <<>>
    /\ queue' = [queue EXCEPT ![o] = <<>>]
    /\ got' = [got EXCEPT ![o] = @ \o queue[o]]
    /\ UNCHANGED <<object, listed, byId, due, todo>>

GetEvents(i) ==
    /\ byId[i] # Unknown
    /\ Drain(byId[i])
    /\ UNCHANGED waiting

\* As if the subscriber found were not checked.
AwaitUnchecked(i) ==
    /\ byId[i] = Unknown \/ queue[byId[i]] = <<>>
    /\ waiting' = waiting \cup {byId[i]}
    /\ UNCHANGED <<object, listed, byId, queue, due, todo, got>>

\* The queue is empty: get_events waits, for the object it found.
AwaitEvents(i) ==
    /\ byId[i] # Unknown /\ queue[byId[i]] = <<>>
    /\ waiting' = waiting \cup {byId[i]}
    /\ UNCHANGED <<object, listed, byId, queue, due, todo, got>>

ReceiveEvents(o) ==
    /\ o \in waiting
    /\ Drain(o)
    /\ waiting' = waiting \ {o}

\* No event within the timeout of the request.
TimeOut(o) ==
    /\ o \in waiting
    /\ waiting' = waiting \ {o}
    /\ UNCHANGED <<object, listed, byId, queue, due, todo, got>>

Next ==
    \/ \E i \in SubscriberIds, t \in Topics : Subscribe(i, t)
    \/ \E i \in SubscriberIds : Unsubscribe(i)
    \/ \E s \in Services : Change(s)
    \/ \E c \in Changes : Resume(c)
    \/ \E i \in SubscriberIds : GetEvents(i)
    \/ \E i \in SubscriberIds : AwaitEvents(i)
    \/ \E o \in waiting : ReceiveEvents(o)
    \/ \E o \in waiting : TimeOut(o)

Spec == Init /\ [][Next]_vars

-----------------------------------------------------------------------------
\* The types of the variables; no queue holds more than its capacity.
TypeOK ==
    /\ object \in Seq([id : SubscriberIds, topic : Topics])
    /\ listed \in [Topics -> Seq(Objects)]
    /\ byId \in [SubscriberIds -> Objects \cup {Unknown}]
    /\ queue \in [Objects -> Seq(Changes)]
    /\ \A o \in Objects : Len(queue[o]) <= Capacity
    /\ waiting \in SUBSET Objects
    /\ due \in Seq(Seq(Objects))
    /\ todo \in [Changes -> Seq(Objects)]
    /\ got \in [Objects -> Seq(Changes)]

Occurrences(x, s) == Cardinality({j \in DOMAIN s : s[j] = x})

\* Each change reaches each of its targets exactly once, although it waits at
\* full queues, is overtaken by other changes and clients drain, re-subscribe
\* and unsubscribe meanwhile: no event is dropped and none delivered twice.
ExactlyOnce ==
    \A c \in Changes, o \in Objects :
        Occurrences(c, got[o] \o queue[o]) + Occurrences(o, todo[c]) = Occurrences(o, due[c])

\* A client that can poll is notified: the object found by its id is listed
\* under its topic, through every sequence of subscribing and unsubscribing.
PolledAreListed ==
    \A i \in SubscriberIds :
        byId[i] # Unknown => byId[i] \in ToSet(listed[object[byId[i]].topic])

\* Every change gets through to all its targets, and so to gossip: a full queue
\* does not hold it up for ever ("queue full, dropping event").
IsThrough(c) == c \in Changes => todo[c] = <<>>
ChangesGetThrough == \A c \in 1 .. MaxChanges : []<>IsThrough(c)
=============================================================================
