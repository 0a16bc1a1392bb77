----------------------------- MODULE HealthProofs -----------------------------
(***************************************************************************)
(* Theorems about the health checker (module Health), for any instances,   *)
(* statuses and thresholds.                                                *)
(***************************************************************************)
EXTENDS Health, TLAPS

\* The counters never run ahead of the results they count: failures are not
\* more than the last results in a row that failed, successes not more than
\* those that succeeded.
Counted(i) ==
    /\ failures[i] <= IF streak[i] < 0 THEN -streak[i] ELSE 0
    /\ successes[i] <= IF streak[i] > 0 THEN streak[i] ELSE 0

\* A check that holds the registered object: there is one.
HoldsOne(k) == held[k] = Registered => status[k] # Absent

IInv ==
    /\ TypeOK
    /\ \A i \in Ids : Counted(i)
    /\ \A k \in Keys : HoldsOne(k)

\* The facts about constants that the steps need.
LEMMA Constants ==
    /\ UnhealthyThreshold \in Nat /\ UnhealthyThreshold >= 1
    /\ HealthyThreshold \in Nat /\ HealthyThreshold >= 1
    /\ Up \in Status /\ OutOfService \in Status /\ Absent \notin Status
    /\ Idle # Registered /\ Idle \notin Status /\ Registered \notin Status
    /\ \A k \in Keys : IdOf[k] \in Ids
  BY HealthAssumption

LEMMA LeastIs ==
    ASSUME NEW m \in Int, NEW n \in Int
    PROVE  Least(m, n) \in Int /\ Least(m, n) <= m /\ Least(m, n) <= n
           /\ (Least(m, n) = m \/ Least(m, n) = n)
  BY DEF Least

-----------------------------------------------------------------------------
(* What each step does to the invariant. *)

\* What clients and the eviction loop do to a key while it may be checked.
LEMMA DetachKeeps ==
    ASSUME IInv, NEW k \in Keys, NEW s \in Status \cup {Absent},
           status' = [status EXCEPT ![k] = s], Detach(k), UNCHANGED counters
    PROVE  IInv'
<1>1. status' \in [Keys -> Status \cup {Absent}]
  BY DEF IInv, TypeOK
<1>2. held' \in [Keys -> Status \cup {Idle, Registered}]
  BY DEF IInv, TypeOK, Detach, HoldsOne
<1>3. \A l \in Keys : HoldsOne(l)'
  BY Constants DEF IInv, TypeOK, Detach, HoldsOne
<1>4. TypeOK'
  BY <1>1, <1>2 DEF IInv, TypeOK, counters
<1>5. \A i \in Ids : Counted(i)'
  BY DEF IInv, Counted, counters
<1> QED
  BY <1>3, <1>4, <1>5 DEF IInv

LEMMA SetStatusKeeps ==
    ASSUME IInv, NEW k \in Keys, NEW s \in Status, SetStatus(k, s)
    PROVE  IInv'
<1>1. TypeOK'
  BY DEF IInv, TypeOK, SetStatus, counters
<1>2. \A l \in Keys : HoldsOne(l)'
  BY Constants DEF IInv, TypeOK, SetStatus, HoldsOne
<1>3. \A i \in Ids : Counted(i)'
  BY DEF IInv, SetStatus, Counted, counters
<1> QED
  BY <1>1, <1>2, <1>3 DEF IInv

LEMMA StartRoundKeeps ==
    ASSUME IInv, StartRound
    PROVE  IInv'
<1>1. TypeOK'
  BY DEF IInv, TypeOK, StartRound, counters
<1>2. \A l \in Keys : HoldsOne(l)'
  BY Constants DEF IInv, TypeOK, StartRound, HoldsOne
<1>3. \A i \in Ids : Counted(i)'
  BY DEF IInv, StartRound, Counted, counters
<1> QED
  BY <1>1, <1>2, <1>3 DEF IInv

\* The end of a check leaves every status a status and every absence one.
LEMMA StatusAfterCheck ==
    ASSUME TypeOK, NEW k \in Keys, NEW s \in Status, Sets(k, s) \/ UNCHANGED status
    PROVE  /\ status' \in [Keys -> Status \cup {Absent}]
           /\ \A l \in Keys : status'[l] = Absent <=> status[l] = Absent
  BY Constants DEF Sets, TypeOK

\* A success counts once, from one if the last result was a failure.
LEMMA SuccessCounts ==
    ASSUME TypeOK, NEW i \in Ids, Counted(i), NEW k \in Keys, Succeed(k, i)
    PROVE  /\ failures' = [failures EXCEPT ![i] = 0]
           /\ successes' \in [Ids -> 0 .. HealthyThreshold]
           /\ streak' \in [Ids -> -UnhealthyThreshold .. HealthyThreshold]
           /\ streak'[i] > 0 /\ successes'[i] <= streak'[i]
           /\ \A j \in Ids : j # i => successes'[j] = successes[j] /\ streak'[j] = streak[j]
<1> DEFINE m == Least(successes[i] + 1, HealthyThreshold)
           n == IF streak[i] < 0 THEN 1 ELSE Least(streak[i] + 1, HealthyThreshold)
<1>0. successes[i] \in 0 .. HealthyThreshold /\ streak[i] \in -UnhealthyThreshold .. HealthyThreshold
  BY DEF TypeOK
<1>1. m \in 0 .. HealthyThreshold /\ n \in 1 .. HealthyThreshold /\ m <= n
  BY <1>0, Constants DEF Counted, Least
<1>2. successes' = [successes EXCEPT ![i] = m] /\ streak' = [streak EXCEPT ![i] = n]
  BY <1>0 DEF Succeed, TypeOK
<1> HIDE DEF m, n
<1>3. n \in -UnhealthyThreshold .. HealthyThreshold
  BY <1>1, Constants
<1> QED
  BY <1>1, <1>2, <1>3, Constants DEF Succeed, TypeOK

\* So does a failure; the failures start again at the threshold.
LEMMA FailureCounts ==
    ASSUME TypeOK, NEW i \in Ids, Counted(i), NEW k \in Keys, Fail(k, i)
    PROVE  /\ successes' = [successes EXCEPT ![i] = 0]
           /\ failures' \in [Ids -> 0 .. UnhealthyThreshold - 1]
           /\ streak' \in [Ids -> -UnhealthyThreshold .. HealthyThreshold]
           /\ streak'[i] < 0 /\ failures'[i] <= -streak'[i]
           /\ \A j \in Ids : j # i => failures'[j] = failures[j] /\ streak'[j] = streak[j]
           /\ failures[i] + 1 >= UnhealthyThreshold => streak'[i] = -UnhealthyThreshold
<1> DEFINE m == IF failures[i] + 1 >= UnhealthyThreshold THEN 0 ELSE failures[i] + 1
           n == IF streak[i] > 0 THEN -1 ELSE -Least(1 - streak[i], UnhealthyThreshold)
<1>0. failures[i] \in 0 .. UnhealthyThreshold - 1 /\ streak[i] \in -UnhealthyThreshold .. HealthyThreshold
  BY DEF TypeOK
<1>1. /\ m \in 0 .. UnhealthyThreshold - 1
      /\ n \in -UnhealthyThreshold .. -1
      /\ m <= -n
      /\ failures[i] + 1 >= UnhealthyThreshold => n = -UnhealthyThreshold
  BY <1>0, Constants DEF Counted, Least
<1>2. failures' = [failures EXCEPT ![i] = m]
  BY <1>0 DEF Fail, TypeOK
<1>3. streak' = [streak EXCEPT ![i] = n]
  BY <1>0 DEF Fail, Failed, TypeOK
<1> HIDE DEF m, n
<1>4. n \in -UnhealthyThreshold .. HealthyThreshold /\ n < 0
  BY <1>1, Constants
<1> QED
  BY <1>1, <1>2, <1>3, <1>4, Constants DEF Fail, TypeOK

LEMMA CheckEndsKeeps ==
    ASSUME IInv, NEW k \in Keys, NEW result \in Result, CheckEnds(k, result)
    PROVE  IInv'
<1> DEFINE i == IdOf[k]
<1>0. i \in Ids /\ TypeOK /\ Counted(i) /\ Up \in Status /\ OutOfService \in Status
  BY Constants DEF IInv
<1>1. held' = [held EXCEPT ![k] = Idle]
  BY DEF CheckEnds
<1>2. held' \in [Keys -> Status \cup {Idle, Registered}]
  BY <1>1 DEF IInv, TypeOK
<1>3. Sets(k, Up) \/ Sets(k, OutOfService) \/ UNCHANGED status
  BY DEF CheckEnds, Succeed, Fail
<1>4. /\ status' \in [Keys -> Status \cup {Absent}]
      /\ \A l \in Keys : status'[l] = Absent <=> status[l] = Absent
  BY <1>0, <1>3, StatusAfterCheck
<1>5. \A l \in Keys : HoldsOne(l)'
  BY <1>1, <1>4, Constants DEF IInv, TypeOK, HoldsOne
<1>6. /\ failures' \in [Ids -> 0 .. UnhealthyThreshold - 1]
      /\ successes' \in [Ids -> 0 .. HealthyThreshold]
      /\ streak' \in [Ids -> -UnhealthyThreshold .. HealthyThreshold]
      /\ \A j \in Ids : Counted(j)'
  <2>1. CASE Succeed(k, i)
    BY <1>0, <2>1, SuccessCounts, Constants DEF IInv, TypeOK, Counted
  <2>2. CASE Fail(k, i)
    BY <1>0, <2>2, FailureCounts, Constants DEF IInv, TypeOK, Counted
  <2>3. CASE UNCHANGED counters
    BY <2>3 DEF IInv, TypeOK, Counted, counters
  <2> QED
    BY <2>1, <2>2, <2>3 DEF CheckEnds
<1> QED
  BY <1>2, <1>4, <1>5, <1>6 DEF IInv, TypeOK

-----------------------------------------------------------------------------
LEMMA InvStep == IInv /\ [Next]_vars => IInv'
<1> SUFFICES ASSUME IInv, [Next]_vars PROVE IInv'
  OBVIOUS
<1>1. ASSUME NEW k \in Keys, NEW s \in Status, Register(k, s) PROVE IInv'
  BY <1>1, DetachKeeps DEF Register
<1>2. ASSUME NEW k \in Keys, Remove(k) PROVE IInv'
  BY <1>2, DetachKeeps DEF Remove
<1>3. ASSUME NEW k \in Keys, NEW s \in Status, SetStatus(k, s) PROVE IInv'
  BY <1>3, SetStatusKeeps
<1>4. CASE StartRound
  BY <1>4, StartRoundKeeps
<1>5. ASSUME NEW k \in Keys, NEW result \in Result, CheckEnds(k, result) PROVE IInv'
  BY <1>5, CheckEndsKeeps
<1>6. CASE UNCHANGED vars
  BY <1>6 DEF vars, IInv, TypeOK, Counted, HoldsOne
<1> QED
  BY <1>1, <1>2, <1>3, <1>4, <1>5, <1>6 DEF Next

LEMMA InvHolds == Spec => []IInv
<1>1. Init => IInv
  BY Constants DEF Init, IInv, TypeOK, Counted, HoldsOne
<1> QED
  BY <1>1, InvStep, PTL DEF Spec

\* The variables keep their types: a check always holds an object that exists or
\* existed, and no counter passes its threshold.
THEOREM TypeCorrect == Spec => []TypeOK
<1>1. IInv => TypeOK
  BY DEF IInv
<1> QED
  BY <1>1, InvHolds, PTL

\* Only the end of a check ends a check.
LEMMA OthersEndNoCheck ==
    ASSUME IInv, NEW k \in Keys, held[k] # Idle, held'[k] = Idle, [Next]_vars
    PROVE  \E result \in Result : CheckEnds(k, result)
<1>0. held[k] = Registered => status[k] \in Status
  BY DEF IInv, TypeOK, HoldsOne
<1>1. ASSUME NEW l \in Keys, Detach(l) PROVE FALSE
  BY <1>0, <1>1, Constants DEF Detach, IInv, TypeOK
<1>2. ASSUME NEW l \in Keys, NEW result \in Result, CheckEnds(l, result) PROVE l = k
  BY <1>2 DEF CheckEnds, IInv, TypeOK
<1>3. ~StartRound
  BY DEF StartRound
<1>4. ASSUME NEW l \in Keys, NEW s \in Status, SetStatus(l, s) PROVE FALSE
  BY <1>4 DEF SetStatus
<1>5. ~UNCHANGED vars
  BY DEF vars
<1> QED
  BY <1>1, <1>2, <1>3, <1>4, <1>5 DEF Next, Register, Remove

\* The checker takes out of service after UnhealthyThreshold failures in a row
\* and puts up after HealthyThreshold successes in a row, for any thresholds and
\* whatever is registered, removed and set while checks are under way.
THEOREM StatusAlwaysEarned == Spec => StatusIsEarned
<1>1. IInv /\ [Next]_vars => Earned
  <2> SUFFICES ASSUME IInv, [Next]_vars, NEW k \in Keys,
                      held[k] # Idle, held'[k] = Idle, status'[k] # status[k]
               PROVE  \/ status'[k] = OutOfService /\ streak'[IdOf[k]] = -UnhealthyThreshold
                      \/ status'[k] = Up /\ streak'[IdOf[k]] = HealthyThreshold
    BY DEF Earned
  <2> DEFINE i == IdOf[k]
  <2>0. i \in Ids /\ TypeOK /\ Counted(i)
    BY Constants DEF IInv
  <2>1. PICK result \in Result : CheckEnds(k, result)
    BY OthersEndNoCheck
  <2>2. CASE Succeed(k, i)
    <3>1. /\ successes' \in [Ids -> 0 .. HealthyThreshold]
          /\ streak' \in [Ids -> -UnhealthyThreshold .. HealthyThreshold]
          /\ successes'[i] <= streak'[i]
      BY <2>0, <2>2, SuccessCounts
    <3>2. successes'[i] >= HealthyThreshold /\ Sets(k, Up)
      BY <2>2 DEF Succeed
    <3>3. streak'[i] = HealthyThreshold
      BY <2>0, <3>1, <3>2, Constants
    <3> QED
      BY <2>0, <3>2, <3>3 DEF Sets, TypeOK
  <2>3. CASE Fail(k, i)
    <3>1. failures[i] + 1 >= UnhealthyThreshold /\ Sets(k, OutOfService)
      BY <2>3 DEF Fail
    <3>2. streak'[i] = -UnhealthyThreshold
      BY <2>0, <2>3, <3>1, FailureCounts
    <3> QED
      BY <2>0, <3>1, <3>2 DEF Sets, TypeOK
  <2> QED
    BY <2>1, <2>2, <2>3 DEF CheckEnds
<1> QED
  BY <1>1, InvHolds, PTL DEF Spec, StatusIsEarned
=============================================================================
