-------------------------------- MODULE Health --------------------------------
(***************************************************************************)
(* The health checker beside the registry of its node                      *)
(* (sdiscovery/health.py) and what the queries offer (sdiscovery/query.py).*)
(*                                                                         *)
(* A round checks the instances registered when it starts, all at the same *)
(* time; the next one starts when all of these checks have ended.  A check *)
(* keeps the Instance object that it found: meanwhile clients may register *)
(* another object under the key, deregister it or set its status, and the  *)
(* eviction loop may remove it.  The results are counted by instance id,   *)
(* so the counters outlive the instance.                                   *)
(*                                                                         *)
(* Versions play no part here and are left out.  Notifying subscribers of  *)
(* a status change is taken not to suspend the check.                      *)
(***************************************************************************)
EXTENDS Integers

CONSTANTS
    Keys,       \* the (service_name, instance_id) pairs that have a health check
    Ids, IdOf,  \* the instance ids, and the one of each key
    Status, Up, OutOfService,  \* InstanceStatus
    Absent,     \* no instance is registered
    Idle,       \* no check of the key is under way
    Registered, \* the check under way holds the registered object
    UnhealthyThreshold, HealthyThreshold

Result == {"HEALTHY", "UNHEALTHY", "UNKNOWN"}

ASSUME HealthAssumption ==
    /\ IdOf \in [Keys -> Ids]
    /\ \A k, l \in Keys : IdOf[k] = IdOf[l] => k = l  \* no id under two services
    /\ {Up, OutOfService} \subseteq Status
    /\ Up # OutOfService
    /\ Absent \notin Status
    /\ Idle # Registered /\ {Idle, Registered} \cap Status = {}
    /\ {UnhealthyThreshold, HealthyThreshold} \subseteq Nat \ {0}

VARIABLES
    status,    \* of the registered instance of each key
    held,      \* what the check of each key holds: the registered object, or the
               \* status of one that was removed or replaced since
    failures,  \* _consecutive_failures
    successes, \* _consecutive_successes, up to HealthyThreshold
    streak     \* history: the results in a row of one kind, UNKNOWN ones left out,
               \* HEALTHY ones counted above 0 and UNHEALTHY ones below

vars == <<status, held, failures, successes, streak>>
counters == <<failures, successes, streak>>

Init ==
    /\ status = [k \in Keys |-> Absent]
    /\ held = [k \in Keys |-> Idle]
    /\ failures = [i \in Ids |-> 0]
    /\ successes = [i \in Ids |-> 0]
    /\ streak = [i \in Ids |-> 0]

Least(m, n) == IF m < n THEN m ELSE n

-----------------------------------------------------------------------------
(* What happens to the registry meanwhile. *)

\* The check under way is left with the object that was registered.
Detach(k) == held' = [held EXCEPT ![k] = IF @ = Registered THEN status[k] ELSE @]

Register(k, s) ==
    /\ status' = [status EXCEPT ![k] = s]
    /\ Detach(k)
    /\ UNCHANGED counters

\* A deregistration or an eviction.
Remove(k) ==
    /\ status[k] # Absent
    /\ status' = [status EXCEPT ![k] = Absent]
    /\ Detach(k)
    /\ UNCHANGED counters

\* A client sets the status: in the registered object, whoever holds it.
SetStatus(k, s) ==
    /\ status[k] # Absent
    /\ status' = [status EXCEPT ![k] = s]
    /\ UNCHANGED <<held, counters>>

-----------------------------------------------------------------------------
(* The health checker. *)

\* As if a round forgot the results of the rounds before.
StartFreshRound ==
    /\ \A k \in Keys : held[k] = Idle
    /\ \E k \in Keys : status[k] # Absent
    /\ held' = [k \in Keys |-> IF status[k] = Absent THEN Idle ELSE Registered]
    /\ failures' = [i \in Ids |-> 0]
    /\ UNCHANGED <<status, successes, streak>>

StartRound ==
    /\ \A k \in Keys : held[k] = Idle
    /\ \E k \in Keys : status[k] # Absent
    /\ held' = [k \in Keys |-> IF status[k] = Absent THEN Idle ELSE Registered]
    /\ UNCHANGED <<status, counters>>

HeldStatus(k) == IF held[k] = Registered THEN status[k] ELSE held[k]

\* update_status of whatever is registered by now, if anything is.
Sets(k, s) == status' = [status EXCEPT ![k] = IF @ = Absent THEN Absent ELSE s]

\* As if only instances that are starting had to be put up.
OnlyStarting(s) == s \notin {Up, OutOfService}

NotUp(s) == s # Up

Succeed(k, i) ==
    /\ failures' = [failures EXCEPT ![i] = 0]
    /\ successes' = [successes EXCEPT ![i] = Least(@ + 1, HealthyThreshold)]
    /\ streak' = [streak EXCEPT ![i] = IF @ < 0 THEN 1 ELSE Least(@ + 1, HealthyThreshold)]
    /\ IF successes'[i] >= HealthyThreshold /\ NotUp(HeldStatus(k))
       THEN Sets(k, Up) ELSE UNCHANGED status

\* The history after one more failure.
Failed(i) == streak' = [streak EXCEPT ![i] = IF @ > 0 THEN -1 ELSE -Least(1 - @, UnhealthyThreshold)]

\* As if a failure left the successes counted.
FailKeeping(k, i) ==
    /\ IF failures[i] + 1 >= UnhealthyThreshold
       THEN Sets(k, OutOfService) /\ failures' = [failures EXCEPT ![i] = 0]
       ELSE failures' = [failures EXCEPT ![i] = @ + 1] /\ UNCHANGED status
    /\ UNCHANGED successes
    /\ Failed(i)

\* As if the failures were not counted from 0 again.
FailCountingOn(k, i) ==
    /\ IF failures[i] + 1 >= UnhealthyThreshold
       THEN Sets(k, OutOfService) ELSE UNCHANGED status
    /\ failures' = [failures EXCEPT ![i] = @ + 1]
    /\ successes' = [successes EXCEPT ![i] = 0]
    /\ Failed(i)

\* The failures are counted from 0 again when they reach the threshold, also if
\* the instance is gone.
Fail(k, i) ==
    /\ IF failures[i] + 1 >= UnhealthyThreshold
       THEN Sets(k, OutOfService) /\ failures' = [failures EXCEPT ![i] = 0]
       ELSE failures' = [failures EXCEPT ![i] = @ + 1] /\ UNCHANGED status
    /\ successes' = [successes EXCEPT ![i] = 0]
    /\ Failed(i)

\* The check of k ends (a check that takes too long ends as UNHEALTHY).
CheckEnds(k, result) ==
    /\ held[k] # Idle
    /\ held' = [held EXCEPT ![k] = Idle]
    /\ \/ result = "HEALTHY" /\ Succeed(k, IdOf[k])
       \/ result = "UNHEALTHY" /\ Fail(k, IdOf[k])
       \/ result = "UNKNOWN" /\ UNCHANGED <<status, counters>>

Next ==
    \/ \E k \in Keys, s \in Status : Register(k, s)
    \/ \E k \in Keys : Remove(k)
    \/ \E k \in Keys, s \in Status : SetStatus(k, s)
    \/ StartRound
    \/ \E k \in Keys, result \in Result : CheckEnds(k, result)

Spec == Init /\ [][Next]_vars

\* The check loop always wakes up again, and every check ends: it has a timeout.
FairSpec ==
    /\ Spec
    /\ WF_vars(StartRound)
    /\ \A k \in Keys : WF_vars(\E result \in Result : CheckEnds(k, result))

-----------------------------------------------------------------------------
\* The types of the variables.
TypeOK ==
    /\ status \in [Keys -> Status \cup {Absent}]
    /\ held \in [Keys -> Status \cup {Idle, Registered}]
    /\ failures \in [Ids -> 0 .. UnhealthyThreshold - 1]
    /\ successes \in [Ids -> 0 .. HealthyThreshold]
    /\ streak \in [Ids -> -UnhealthyThreshold .. HealthyThreshold]

\* The checker takes an instance out of service only when its last checks, at
\* least UnhealthyThreshold of them, all failed, and puts it up only when the
\* last HealthyThreshold of them all succeeded: whatever clients set meanwhile
\* and although a check may end for another object than it was started for.
Earned ==
    \A k \in Keys :
        held[k] # Idle /\ held'[k] = Idle /\ status'[k] # status[k] =>
            \/ status'[k] = OutOfService /\ streak'[IdOf[k]] = -UnhealthyThreshold
            \/ status'[k] = Up /\ streak'[IdOf[k]] = HealthyThreshold
StatusIsEarned == [][Earned]_vars

\* What get_service and get_instance offer.
Offered(k) == status[k] = Up

\* Only the checker deals with k, and its checks end with this result.
LeftAlone(k, result) ==
    status'[k] # status[k] \/ held'[k] # held[k] => StartRound \/ CheckEnds(k, result)

\* An instance whose checks fail from some time on, and whose status nobody else
\* sets, is in the end not offered any more, whatever happened before.
SickIsNotOffered ==
    \A k \in Keys :
        <>[][LeftAlone(k, "UNHEALTHY")]_vars => <>[]~Offered(k)

\* A registered instance whose checks succeed from some time on, and whose
\* status nobody else sets, is in the end offered again.
HealthyIsOffered ==
    \A k \in Keys :
        <>[][LeftAlone(k, "HEALTHY")]_vars => <>[](status[k] = Absent \/ Offered(k))
=============================================================================
