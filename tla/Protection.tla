------------------------------ MODULE Protection ------------------------------
(***************************************************************************)
(* Self-protection and eviction of one node with gossip off, in time       *)
(* (sdiscovery/protection.py, registry.py and _handle_renew of server.py). *)
(* A loop compares, once a window is over, the renewals counted in it with *)
(* those the registered instances should have sent, and suspends evictions *)
(* when they are too few.                                                  *)
(*                                                                         *)
(* Time passes in ticks.  A window has no exact length: it ends with the   *)
(* first check that finds it long enough, and a check may come late.  The  *)
(* instances expected are those registered (Registry!ExpectedMatchesLive), *)
(* none is OUT_OF_SERVICE, and no change callback suspends the eviction.   *)
(***************************************************************************)
EXTENDS Integers, FiniteSets

CONSTANTS
    Keys,          \* the instances
    Interval,      \* heartbeat_interval of the registry, in ticks
    Timeout,       \* heartbeat_timeout
    Window,        \* expected_heartbeat_window
    CheckInterval, \* check_interval of self-protection
    RatePercent,   \* expected_heartbeat_rate
    Delay,         \* the most a check comes late
    Beat           \* what steady clients let pass at most between renewals

\* The longest window.
MaxElapsed == Window + CheckInterval + Delay

ASSUME ProtectionAssumption ==
    /\ IsFiniteSet(Keys)
    /\ {Interval, Timeout, Window, CheckInterval, RatePercent, Beat} \subseteq Nat \ {0}
    /\ Delay \in Nat

\* Steady clients send enough, even if a renewal is due when a window ends.
SteadyIsEnough ==
    \A e \in Window .. MaxElapsed :
        ((e - 1) \div Beat) * 100 * Interval >= RatePercent * e

\* Steady clients renew before they expire.
SteadyInTime == Beat <= Timeout

\* Two windows are over: silence is counted no further.
MaxQuiet == 2 * MaxElapsed + 1

\* As many renewals as are enough for every window: they are counted no further.
MaxCount == (Cardinality(Keys) * RatePercent * MaxElapsed) \div (100 * Interval) + 1

VARIABLES
    live,      \* the registered instances
    age,       \* the time since last_heartbeat of each, up to Timeout + 1
    protected, \* _is_protecting, and _protection_enabled of the registry
    count,     \* _window_heartbeat_count, up to MaxCount
    elapsed,   \* the time since _window_start
    slept,     \* the time since the last check
    steady,    \* history: in this window nobody came or went or was late
    quiet      \* history: the time since the last request of any client, up to
               \* MaxQuiet

vars == <<live, age, protected, count, elapsed, slept, steady, quiet>>
window == <<count, elapsed>>

Init ==
    /\ live = {}
    /\ age = [k \in Keys |-> 0]
    /\ protected = FALSE
    /\ count = 0
    /\ elapsed = 0
    /\ slept = 0
    /\ steady = TRUE
    /\ quiet = 0

Least(m, n) == IF m < n THEN m ELSE n

-----------------------------------------------------------------------------
Tick ==
    /\ slept < CheckInterval + Delay
    /\ age' = [k \in Keys |-> IF k \in live THEN Least(age[k] + 1, Timeout + 1) ELSE 0]
    /\ elapsed' = elapsed + 1
    /\ slept' = slept + 1
    /\ quiet' = Least(quiet + 1, MaxQuiet)
    /\ steady' = (steady /\ \A k \in live : age[k] < Beat)
    /\ UNCHANGED <<live, protected, count>>

\* A registration sets last_heartbeat, but is not counted as a renewal.
Register(k) ==
    /\ live' = live \cup {k}
    /\ age' = [age EXCEPT ![k] = 0]
    /\ steady' = FALSE
    /\ quiet' = 0
    /\ UNCHANGED <<protected, window, slept>>

Deregister(k) ==
    /\ k \in live
    /\ live' = live \ {k}
    /\ age' = [age EXCEPT ![k] = 0]
    /\ steady' = FALSE
    /\ quiet' = 0
    /\ UNCHANGED <<protected, window, slept>>

\* _handle_renew: renew, then record_heartbeat.
Renew(k) ==
    /\ k \in live
    /\ age' = [age EXCEPT ![k] = 0]
    /\ count' = Least(count + 1, MaxCount)
    /\ quiet' = 0
    /\ UNCHANGED <<live, protected, elapsed, slept, steady>>

\* _evict_expired_instances.
Evict ==
    LET expired == {k \in live : age[k] > Timeout} IN
    /\ ~protected
    /\ expired # {}
    /\ live' = live \ expired
    /\ age' = [k \in Keys |-> IF k \in expired THEN 0 ELSE age[k]]
    /\ steady' = FALSE
    /\ UNCHANGED <<protected, window, slept, quiet>>

-----------------------------------------------------------------------------
\* The renewals counted are too few for the instances registered now.
TooFew ==
    /\ count * 100 * Interval < Cardinality(live) * RatePercent * elapsed
    /\ live # {}

\* As if protection were switched on only.
CheckLatching ==
    /\ slept >= CheckInterval
    /\ slept' = 0
    /\ IF elapsed >= Window
       THEN /\ protected' = (protected \/ TooFew)
            /\ elapsed' = 0 /\ count' = 0 /\ steady' = TRUE
       ELSE UNCHANGED <<protected, window, steady>>
    /\ UNCHANGED <<live, age, quiet>>

\* As if every check began to count again.
CheckForgetting ==
    /\ slept >= CheckInterval
    /\ slept' = 0
    /\ count' = 0
    /\ IF elapsed >= Window
       THEN protected' = TooFew /\ elapsed' = 0 /\ steady' = TRUE
       ELSE UNCHANGED <<protected, elapsed, steady>>
    /\ UNCHANGED <<live, age, quiet>>

\* As if the renewals counted were kept for the next window.
CheckAccumulating ==
    /\ slept >= CheckInterval
    /\ slept' = 0
    /\ IF elapsed >= Window
       THEN protected' = TooFew /\ elapsed' = 0 /\ steady' = TRUE
       ELSE UNCHANGED <<protected, elapsed, steady>>
    /\ UNCHANGED <<live, age, count, quiet>>

\* As if the window were not started again.
CheckOnce ==
    /\ slept >= CheckInterval
    /\ slept' = 0
    /\ IF elapsed >= Window
       THEN protected' = TooFew /\ count' = 0 /\ steady' = TRUE
       ELSE UNCHANGED <<protected, count, steady>>
    /\ UNCHANGED <<live, age, elapsed, quiet>>

\* _check_protection.
Check ==
    /\ slept >= CheckInterval
    /\ slept' = 0
    /\ IF elapsed >= Window
       THEN /\ protected' = TooFew
            /\ elapsed' = 0 /\ count' = 0 /\ steady' = TRUE
       ELSE UNCHANGED <<protected, window, steady>>
    /\ UNCHANGED <<live, age, quiet>>

Next ==
    \/ Tick
    \/ \E k \in Keys : Register(k)
    \/ \E k \in Keys : Deregister(k)
    \/ \E k \in Keys : Renew(k)
    \/ Evict
    \/ Check

Spec == Init /\ [][Next]_vars

\* Time passes, and the protection loop always wakes up again.
FairSpec == Spec /\ WF_vars(Tick) /\ WF_vars(Check)

-----------------------------------------------------------------------------
\* The types of the variables.
TypeOK ==
    /\ live \in SUBSET Keys
    /\ age \in [Keys -> 0 .. Timeout + 1]
    /\ protected \in BOOLEAN
    /\ count \in 0 .. MaxCount
    /\ elapsed \in 0 .. MaxElapsed
    /\ slept \in 0 .. CheckInterval + Delay
    /\ steady \in BOOLEAN
    /\ quiet \in 0 .. MaxQuiet

\* A window in which the same instances were registered all the time and renewed
\* steadily does not end in self-protection, whenever within the window the
\* renewals came and however late the check that ends it, if SteadyIsEnough and SteadyInTime.
SteadyPasses == elapsed >= Window /\ elapsed' = 0 /\ steady => ~protected'
SteadyIsNotProtected == [][SteadyPasses]_vars

\* A partition that cuts off all clients is noticed at the latest when two windows
\* are over, wherever in a window it began and however late the checks come: the
\* instances that are left then are protected.  (Those whose heartbeat_timeout is
\* shorter, as with the defaults, may be gone by then.)
PartitionIsNoticed == live # {} /\ quiet > 2 * MaxElapsed => protected

\* Self-protection ends once the clients renew steadily.
ProtectionEnds == <>[]steady => <>[]~protected
=============================================================================
