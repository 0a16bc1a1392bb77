--------------------------- MODULE ProtectionProofs ---------------------------
(***************************************************************************)
(* Theorems about self-protection in time (module Protection), for any     *)
(* finite set of instances and any settings that ProtectionAssumption      *)
(* allows.                                                                 *)
(***************************************************************************)
EXTENDS Protection, FiniteSetTheorems, TLAPS

LEMMA Settings ==
    /\ Interval \in Nat /\ Interval > 0
    /\ Timeout \in Nat /\ Window \in Nat /\ Window > 0
    /\ CheckInterval \in Nat /\ CheckInterval > 0 /\ Delay \in Nat
    /\ RatePercent \in Nat /\ RatePercent > 0
    /\ MaxElapsed = Window + CheckInterval + Delay
    /\ MaxElapsed \in Nat
    /\ MaxQuiet = 2 * MaxElapsed + 1 /\ MaxQuiet \in Nat
  BY ProtectionAssumption DEF MaxElapsed, MaxQuiet

LEMMA MaxCountType == MaxCount \in Nat
<1>1. Cardinality(Keys) \in Nat
  BY ProtectionAssumption, FS_CardinalityType
<1> DEFINE a == Cardinality(Keys) * RatePercent * MaxElapsed
           b == 100 * Interval
<1>2. a \in Nat
  BY <1>1, Settings
<1>3. b \in Nat /\ b > 0
  BY Settings
<1> HIDE DEF a, b
<1>4. a \div b \in Nat
  BY <1>2, <1>3
<1> QED
  BY <1>4 DEF MaxCount, a, b

LEMMA LeastIs ==
    ASSUME NEW m \in Nat, NEW n \in Nat
    PROVE  Least(m, n) \in 0 .. n /\ Least(m, n) <= m /\ (m <= n => Least(m, n) = m)
           /\ (Least(m, n) = m \/ Least(m, n) = n)
  BY DEF Least

\* Ages and silences that are set to 0 keep their type.
LEMMA ZeroIsAge == 0 \in 0 .. Timeout + 1 /\ 0 \in 0 .. MaxQuiet
  BY Settings

LEMMA AgesReset ==
    ASSUME age \in [Keys -> 0 .. Timeout + 1], NEW k \in Keys
    PROVE  [age EXCEPT ![k] = 0] \in [Keys -> 0 .. Timeout + 1]
  BY ZeroIsAge

-----------------------------------------------------------------------------
(* The invariant. *)

\* No window is checked late more than once: it was too short at the last check.
ShortAtLastCheck == elapsed < Window + slept

\* Nothing is counted that came before the window.
CountsOwnWindow == quiet > elapsed => count = 0

\* A whole window has ended since the last request of a client, and protection
\* has been on since then.
SilentWindowProtects == live # {} /\ quiet > elapsed + MaxElapsed => protected

IInv == TypeOK /\ ShortAtLastCheck /\ CountsOwnWindow /\ SilentWindowProtects

LEMMA TickKeeps ==
    ASSUME IInv, Tick
    PROVE  IInv'
<1>0. /\ quiet \in 0 .. MaxQuiet /\ elapsed \in 0 .. MaxElapsed
      /\ slept \in 0 .. CheckInterval + Delay
      /\ quiet' = Least(quiet + 1, MaxQuiet)
      /\ elapsed' = elapsed + 1 /\ slept' = slept + 1
      /\ slept < CheckInterval + Delay
  BY DEF IInv, TypeOK, Tick
<1>1. quiet' \in 0 .. MaxQuiet /\ quiet' <= quiet + 1 /\ (quiet' = quiet + 1 \/ quiet = MaxQuiet)
  BY <1>0, Settings DEF Least
<1>2. slept' \in 0 .. CheckInterval + Delay /\ ShortAtLastCheck' /\ elapsed' \in 0 .. MaxElapsed
  BY <1>0, Settings DEF IInv, ShortAtLastCheck
<1>3. age' \in [Keys -> 0 .. Timeout + 1]
  <2> SUFFICES ASSUME NEW k \in Keys
               PROVE  (IF k \in live THEN Least(age[k] + 1, Timeout + 1) ELSE 0) \in 0 .. Timeout + 1
    BY DEF Tick
  <2> QED
    BY Settings DEF IInv, TypeOK, Least
<1>4. steady' \in BOOLEAN
  BY DEF Tick
<1>5. TypeOK'
  BY <1>1, <1>2, <1>3, <1>4 DEF IInv, TypeOK, Tick
<1>6. CountsOwnWindow'
  BY <1>0, <1>1, Settings DEF IInv, CountsOwnWindow, Tick
<1>7. SilentWindowProtects'
  BY <1>0, <1>1, <1>2, Settings DEF IInv, SilentWindowProtects, Tick
<1> QED
  BY <1>2, <1>5, <1>6, <1>7 DEF IInv

\* A request of a client ends the silence.
LEMMA RequestKeeps ==
    ASSUME IInv, quiet' = 0, UNCHANGED <<elapsed, slept>>, TypeOK'
    PROVE  IInv'
<1>1. elapsed \in 0 .. MaxElapsed /\ elapsed' = elapsed
  BY DEF IInv, TypeOK
<1>2. ~(quiet' > elapsed') /\ ~(quiet' > elapsed' + MaxElapsed)
  BY <1>1, Settings
<1> QED
  BY <1>2 DEF IInv, ShortAtLastCheck, CountsOwnWindow, SilentWindowProtects

LEMMA RenewKeeps ==
    ASSUME IInv, NEW k \in Keys, Renew(k)
    PROVE  IInv'
<1>1. count' \in 0 .. MaxCount
  BY MaxCountType DEF IInv, TypeOK, Renew, Least
<1>2. TypeOK'
  BY <1>1, Settings DEF IInv, TypeOK, Renew
<1> QED
  BY <1>2, RequestKeeps DEF Renew

LEMMA EvictKeeps ==
    ASSUME IInv, Evict
    PROVE  IInv'
<1>a. age' \in [Keys -> 0 .. Timeout + 1]
  BY ZeroIsAge DEF IInv, TypeOK, Evict
<1>b. live' \in SUBSET Keys /\ steady' \in BOOLEAN
  BY DEF IInv, TypeOK, Evict
<1>1. TypeOK'
  BY <1>a, <1>b DEF IInv, TypeOK, Evict, window
<1>2. SilentWindowProtects'
  BY DEF IInv, Evict, SilentWindowProtects, window
<1> QED
  BY <1>1, <1>2 DEF IInv, Evict, ShortAtLastCheck, CountsOwnWindow, window

\* With something registered and nothing counted the renewals are too few.
LEMMA NothingIsTooFew ==
    ASSUME IInv, live # {}, count = 0, elapsed >= Window
    PROVE  TooFew
<1>1. IsFiniteSet(live) /\ Cardinality(live) \in Nat /\ Cardinality(live) # 0
  BY ProtectionAssumption, FS_Subset, FS_CardinalityType, FS_EmptySet DEF IInv, TypeOK
<1> DEFINE c == Cardinality(live)
<1>2. c \in Nat /\ c > 0
  BY <1>1
<1>3. elapsed \in Nat /\ elapsed > 0
  BY Settings DEF IInv, TypeOK
<1> HIDE DEF c
<1>4. c * RatePercent \in Nat /\ c * RatePercent > 0
  BY <1>2, Settings
<1>5. c * RatePercent * elapsed > 0
  BY <1>3, <1>4
<1>6. count * 100 * Interval = 0
  BY Settings
<1> QED
  BY <1>5, <1>6 DEF TooFew, c

LEMMA CheckKeeps ==
    ASSUME IInv, Check
    PROVE  IInv'
<1>0. slept' = 0 /\ slept' \in 0 .. CheckInterval + Delay
  BY Settings DEF Check
<1>1. CASE elapsed >= Window
  <2>1. /\ protected' = TooFew /\ elapsed' = 0 /\ count' = 0 /\ steady' = TRUE
        /\ UNCHANGED <<live, age, quiet>>
    BY <1>1 DEF Check
  <2>2. TypeOK'
    <3>1. protected' \in BOOLEAN
      BY <2>1 DEF TooFew
    <3> QED
      BY <1>0, <2>1, <3>1, Settings, MaxCountType DEF IInv, TypeOK
  <2>3. ShortAtLastCheck' /\ CountsOwnWindow'
    BY <1>0, <2>1, Settings DEF ShortAtLastCheck, CountsOwnWindow
  <2>4. SilentWindowProtects'
    <3> SUFFICES ASSUME live # {}, quiet > MaxElapsed PROVE TooFew
      BY <2>1, Settings DEF SilentWindowProtects
    <3>1. quiet > elapsed
      BY Settings DEF IInv, TypeOK
    <3> QED
      BY <1>1, <3>1, NothingIsTooFew DEF IInv, CountsOwnWindow
  <2> QED
    BY <2>2, <2>3, <2>4 DEF IInv
<1>2. CASE elapsed < Window
  <2>1. UNCHANGED <<live, age, protected, count, elapsed, steady, quiet>>
    BY <1>2, Settings DEF Check, window, IInv, TypeOK
  <2>2. TypeOK'
    BY <1>0, <2>1 DEF IInv, TypeOK
  <2>3. ShortAtLastCheck'
    BY <1>0, <1>2, <2>1, Settings DEF ShortAtLastCheck, IInv, TypeOK
  <2> QED
    BY <2>1, <2>2, <2>3 DEF IInv, CountsOwnWindow, SilentWindowProtects
<1> QED
  BY <1>1, <1>2, Settings DEF IInv, TypeOK

-----------------------------------------------------------------------------
LEMMA InvStep == IInv /\ [Next]_vars => IInv'
<1> SUFFICES ASSUME IInv, [Next]_vars PROVE IInv'
  OBVIOUS
<1>1. CASE Tick
  BY <1>1, TickKeeps
<1>2. ASSUME NEW k \in Keys, Register(k) PROVE IInv'
  <2>a. age' \in [Keys -> 0 .. Timeout + 1] /\ quiet' \in 0 .. MaxQuiet
    BY <1>2, AgesReset, ZeroIsAge DEF IInv, TypeOK, Register
  <2>b. live' \in SUBSET Keys /\ steady' \in BOOLEAN
    BY <1>2 DEF IInv, TypeOK, Register
  <2>1. TypeOK'
    BY <1>2, <2>a, <2>b DEF IInv, TypeOK, Register, window
  <2> QED
    BY <1>2, <2>1, RequestKeeps DEF Register, window
<1>3. ASSUME NEW k \in Keys, Deregister(k) PROVE IInv'
  <2>a. age' \in [Keys -> 0 .. Timeout + 1] /\ quiet' \in 0 .. MaxQuiet
    BY <1>3, AgesReset, ZeroIsAge DEF IInv, TypeOK, Deregister
  <2>b. live' \in SUBSET Keys /\ steady' \in BOOLEAN
    BY <1>3 DEF IInv, TypeOK, Deregister
  <2>1. TypeOK'
    BY <1>3, <2>a, <2>b DEF IInv, TypeOK, Deregister, window
  <2> QED
    BY <1>3, <2>1, RequestKeeps DEF Deregister, window
<1>4. ASSUME NEW k \in Keys, Renew(k) PROVE IInv'
  BY <1>4, RenewKeeps
<1>5. CASE Evict
  BY <1>5, EvictKeeps
<1>6. CASE Check
  BY <1>6, CheckKeeps
<1>7. CASE UNCHANGED vars
  BY <1>7 DEF vars, IInv, TypeOK, ShortAtLastCheck, CountsOwnWindow, SilentWindowProtects
<1> QED
  BY <1>1, <1>2, <1>3, <1>4, <1>5, <1>6, <1>7 DEF Next

LEMMA InvHolds == Spec => []IInv
<1>1. Init => IInv
  <2> SUFFICES ASSUME Init PROVE IInv
    OBVIOUS
  <2>1. 0 \in 0 .. MaxCount /\ 0 \in 0 .. MaxElapsed /\ 0 \in 0 .. CheckInterval + Delay
    BY Settings, MaxCountType
  <2>2. age \in [Keys -> 0 .. Timeout + 1]
    BY ZeroIsAge DEF Init
  <2>3. TypeOK
    BY <2>1, <2>2, ZeroIsAge DEF Init, TypeOK
  <2>4. ShortAtLastCheck
    BY Settings DEF Init, ShortAtLastCheck
  <2> QED
    BY <2>3, <2>4 DEF Init, IInv, CountsOwnWindow, SilentWindowProtects
<1> QED
  BY <1>1, InvStep, PTL DEF Spec

\* The variables keep their types; in particular no window grows longer than
\* MaxElapsed, on which the other bounds rest.
THEOREM TypeCorrect == Spec => []TypeOK
<1>1. IInv => TypeOK
  BY DEF IInv
<1> QED
  BY <1>1, InvHolds, PTL

\* Whatever the settings, protection is on from two windows after the last request
\* of any client, as long as anything is registered.
THEOREM PartitionAlwaysNoticed == Spec => []PartitionIsNoticed
<1>1. IInv => PartitionIsNoticed
  <2> SUFFICES ASSUME IInv, live # {}, quiet > 2 * MaxElapsed PROVE protected
    BY DEF PartitionIsNoticed
  <2>1. quiet > elapsed + MaxElapsed
    BY Settings DEF IInv, TypeOK
  <2> QED
    BY <2>1 DEF IInv, SilentWindowProtects
<1> QED
  BY <1>1, InvHolds, PTL

-----------------------------------------------------------------------------
(* Steady clients.  The renewals that were due in this window up to the last *)
(* one of each instance are a set of pairs, an instance and a number: what   *)
(* all of them sent is its cardinality, and no sum over the instances is     *)
(* needed.                                                                   *)

Due == {p \in live \X (0 .. MaxElapsed) : p[2] * Beat < elapsed - age[p[1]]}

\* In a steady window every renewal due has been counted, and none is overdue.
DueAreCounted ==
    steady => /\ count = MaxCount \/ Cardinality(Due) <= count
              /\ elapsed > 0 => \A k \in live : age[k] <= Beat

LEMMA BeatType == Beat \in Nat /\ Beat > 0
  BY ProtectionAssumption

LEMMA DueFinite ==
    ASSUME TypeOK
    PROVE  /\ IsFiniteSet(live) /\ Cardinality(live) \in Nat
           /\ Cardinality(live) <= Cardinality(Keys)
           /\ IsFiniteSet(Due) /\ Cardinality(Due) \in Nat
<1>1. IsFiniteSet(live) /\ Cardinality(live) <= Cardinality(Keys)
  BY ProtectionAssumption, FS_Subset DEF TypeOK
<1>2. IsFiniteSet(live \X (0 .. MaxElapsed))
  <2>1. IsFiniteSet(0 .. MaxElapsed)
    BY Settings, FS_Interval
  <2> QED
    BY <1>1, <2>1, FS_Product
<1>3. Due \in SUBSET (live \X (0 .. MaxElapsed))
  BY DEF Due
<1>4. IsFiniteSet(Due)
  BY <1>2, <1>3, FS_Subset
<1> QED
  BY <1>1, <1>4, FS_CardinalityType

\* Time makes no renewal due that the last one of an instance does not cover.
LEMMA TickCounts ==
    ASSUME SteadyInTime, TypeOK, DueAreCounted, Tick
    PROVE  DueAreCounted'
<1> SUFFICES ASSUME steady' PROVE DueAreCounted'
  BY DEF DueAreCounted
<1>1. steady /\ \A k \in live : age[k] < Beat
  BY DEF Tick
<1>2. \A k \in live : age'[k] = age[k] + 1 /\ age'[k] <= Beat
  <2> SUFFICES ASSUME NEW k \in live PROVE age'[k] = age[k] + 1 /\ age'[k] <= Beat
    OBVIOUS
  <2>1. k \in Keys /\ age[k] \in Nat /\ age[k] < Beat
    BY <1>1 DEF TypeOK
  <2>2. age'[k] = Least(age[k] + 1, Timeout + 1)
    BY <2>1 DEF Tick
  <2> QED
    BY <2>1, <2>2, BeatType, Settings DEF Least, SteadyInTime
<1>3. Due' = Due
  <2>1. live' = live /\ elapsed' = elapsed + 1 /\ elapsed \in Nat
    BY DEF Tick, TypeOK
  <2>2. ASSUME NEW p \in live \X (0 .. MaxElapsed)
        PROVE  (p[2] * Beat < elapsed' - age'[p[1]]) = (p[2] * Beat < elapsed - age[p[1]])
    <3>1. p[1] \in live /\ p[2] \in Nat /\ age[p[1]] \in Nat
      BY DEF TypeOK
    <3>2. p[2] * Beat \in Nat
      BY <3>1, BeatType
    <3> QED
      BY <1>2, <2>1, <3>1, <3>2
  <2> QED
    BY <2>1, <2>2, Settings DEF Due
<1>4. count' = count /\ live' = live
  BY DEF Tick
<1> QED
  BY <1>1, <1>2, <1>3, <1>4 DEF DueAreCounted

\* A renewal covers at most one more: the last was not longer ago than Beat.
LEMMA RenewCounts ==
    ASSUME TypeOK, DueAreCounted, NEW k \in Keys, Renew(k)
    PROVE  DueAreCounted'
<1> SUFFICES ASSUME steady PROVE DueAreCounted'
  BY DEF DueAreCounted, Renew
<1>1. /\ k \in live /\ live' = live /\ elapsed' = elapsed /\ steady' = steady
      /\ age' = [age EXCEPT ![k] = 0]
      /\ count' = Least(count + 1, MaxCount)
  BY DEF Renew
<1>2. \A j \in live : age[j] \in Nat /\ age'[j] = IF j = k THEN 0 ELSE age[j]
  BY <1>1 DEF TypeOK
<1>3. elapsed \in Nat /\ count \in Nat /\ count <= MaxCount
  BY MaxCountType DEF TypeOK
<1>4. elapsed > 0 => \A j \in live : age'[j] <= Beat
  BY <1>2, BeatType DEF DueAreCounted
<1>5. \E p : Due' \subseteq Due \cup {p}
  <2>1. ASSUME NEW p \in Due', p \notin Due
        PROVE  /\ p = <<k, p[2]>> /\ p[2] \in Nat
               /\ p[2] * Beat < elapsed /\ p[2] * Beat >= elapsed - age[k]
    <3>1. p \in live \X (0 .. MaxElapsed) /\ p[2] * Beat < elapsed - age'[p[1]]
      BY <1>1, <2>1, Settings DEF Due
    <3>2. p = <<p[1], p[2]>> /\ p[1] \in live /\ p[2] \in Nat /\ p[2] * Beat \in Nat
      BY <3>1, BeatType, Settings
    <3>3. ~(p[2] * Beat < elapsed - age[p[1]])
      BY <2>1, <3>1 DEF Due
    <3>4. p[1] = k
      BY <1>2, <3>1, <3>2, <3>3
    <3> QED
      BY <1>1, <1>2, <1>3, <3>1, <3>2, <3>3, <3>4
  <2>2. ASSUME NEW p \in Due', p \notin Due, NEW q \in Due', q \notin Due, p[2] < q[2]
        PROVE  FALSE
    <3>1. /\ p[2] \in Nat /\ p[2] * Beat < elapsed /\ p[2] * Beat >= elapsed - age[k]
          /\ q[2] \in Nat /\ q[2] * Beat < elapsed
      BY <2>1, <2>2
    <3>2. q[2] * Beat >= p[2] * Beat + Beat
      <4> DEFINE d == q[2] - p[2] - 1
      <4>1. d \in Nat /\ d * Beat \in Nat
        BY <2>2, <3>1, BeatType
      <4>2. q[2] = p[2] + 1 + d
        BY <3>1
      <4> HIDE DEF d
      <4> QED
        BY <3>1, <4>1, <4>2, BeatType
    <3>3. p[2] * Beat \in Nat /\ q[2] * Beat \in Nat
      BY <3>1, BeatType
    <3>4. elapsed > 0 /\ age[k] <= Beat /\ age[k] \in Nat
      BY <1>1, <1>2, <1>3, <3>1, <3>3 DEF DueAreCounted
    <3> QED
      BY <1>3, <3>1, <3>2, <3>3, <3>4, BeatType
  <2>3. ASSUME NEW p \in Due', p \notin Due, NEW q \in Due', q \notin Due
        PROVE  p = q
    <3>1. p = <<k, p[2]>> /\ p[2] \in Nat /\ q = <<k, q[2]>> /\ q[2] \in Nat
      BY <2>1, <2>3
    <3>2. ~(p[2] < q[2]) /\ ~(q[2] < p[2])
      BY <2>2, <2>3
    <3>3. p[2] = q[2]
      BY <3>1, <3>2
    <3> QED
      BY <3>1, <3>3
  <2>4. CASE Due' \subseteq Due
    BY <2>4
  <2>5. CASE ~(Due' \subseteq Due)
    <3>1. PICK p \in Due' : p \notin Due
      BY <2>5
    <3> QED
      BY <2>3, <3>1
  <2> QED
    BY <2>4, <2>5
<1>6. count' = MaxCount \/ Cardinality(Due') <= count'
  <2>1. PICK p : Due' \subseteq Due \cup {p}
    BY <1>5
  <2>2. /\ IsFiniteSet(Due \cup {p}) /\ Cardinality(Due) \in Nat
        /\ Cardinality(Due \cup {p}) <= Cardinality(Due) + 1
    <3>1. IsFiniteSet(Due) /\ Cardinality(Due) \in Nat
      BY DueFinite
    <3>2. /\ IsFiniteSet(Due \cup {p})
          /\ Cardinality(Due \cup {p}) = IF p \in Due THEN Cardinality(Due)
                                        ELSE Cardinality(Due) + 1
      BY <3>1, FS_AddElement
    <3> QED
      BY <3>1, <3>2
  <2>3. Cardinality(Due') <= Cardinality(Due \cup {p})
    BY <2>1, <2>2, FS_Subset
  <2>4. IsFiniteSet(Due') /\ Cardinality(Due') \in Nat /\ Cardinality(Due \cup {p}) \in Nat
    BY <2>1, <2>2, FS_Subset, FS_CardinalityType
  <2> QED
    BY <1>1, <1>3, <2>2, <2>3, <2>4, MaxCountType DEF Least, DueAreCounted
<1> QED
  BY <1>1, <1>4, <1>6 DEF DueAreCounted

\* A new window owes nothing.
LEMMA NothingIsDue == TypeOK /\ elapsed = 0 => DueAreCounted
<1> SUFFICES ASSUME TypeOK, elapsed = 0 PROVE DueAreCounted
  OBVIOUS
<1>1. Due = {}
  <2> SUFFICES ASSUME NEW p \in live \X (0 .. MaxElapsed), p[2] * Beat < elapsed - age[p[1]]
               PROVE  FALSE
    BY DEF Due
  <2>1. p[1] \in Keys /\ p[2] \in Nat
    BY Settings DEF TypeOK
  <2>2. age[p[1]] \in Nat /\ p[2] * Beat \in Nat
    BY <2>1, BeatType DEF TypeOK
  <2> QED
    BY <2>2
<1>2. Cardinality(Due) = 0 /\ count \in Nat
  BY <1>1, FS_EmptySet, MaxCountType DEF TypeOK
<1> QED
  BY <1>2 DEF DueAreCounted

LEMMA SteadyStep ==
    ASSUME SteadyInTime, IInv, DueAreCounted, [Next]_vars
    PROVE  DueAreCounted'
<1>0. TypeOK /\ TypeOK'
  BY InvStep DEF IInv
<1>1. CASE Tick
  BY <1>0, <1>1, TickCounts
<1>2. CASE (\E k \in Keys : Register(k) \/ Deregister(k)) \/ Evict
  BY <1>2 DEF Register, Deregister, Evict, DueAreCounted
<1>3. ASSUME NEW k \in Keys, Renew(k) PROVE DueAreCounted'
  BY <1>0, <1>3, RenewCounts
<1>4. CASE Check
  <2>1. CASE elapsed' = 0
    <3>1. (TypeOK /\ elapsed = 0)' => DueAreCounted'
      BY NothingIsDue, PTL
    <3> QED
      BY <1>0, <2>1, <3>1
  <2>2. CASE elapsed' # 0
    BY <1>4, <2>2 DEF Check, DueAreCounted, Due, window
  <2> QED
    BY <2>1, <2>2
<1>5. CASE UNCHANGED vars
  BY <1>5 DEF vars, DueAreCounted, Due
<1> QED
  BY <1>1, <1>2, <1>3, <1>4, <1>5 DEF Next

\* With all that was due counted, a whole window of steady renewals is enough.
LEMMA SteadyIsNotTooFew ==
    ASSUME SteadyIsEnough, TypeOK, DueAreCounted, steady, elapsed >= Window
    PROVE  ~TooFew
<1> DEFINE c == Cardinality(live)
           q == (elapsed - 1) \div Beat
           need == c * RatePercent * elapsed
<1>0. /\ elapsed \in Nat /\ elapsed > 0 /\ elapsed \in Window .. MaxElapsed /\ count \in Nat
      /\ c \in Nat /\ Cardinality(Keys) \in Nat /\ c <= Cardinality(Keys)
  BY DueFinite, Settings, MaxCountType, ProtectionAssumption, FS_CardinalityType DEF TypeOK
<1>1. q \in Nat /\ q * Beat <= elapsed - 1
  <2>1. elapsed - 1 \in Nat
    BY <1>0
  <2> QED
    BY <2>1, BeatType
<1> SUFFICES need <= count * 100 * Interval
  <2>1. need \in Nat /\ count * 100 * Interval \in Nat
    BY <1>0, Settings
  <2> QED
    BY <2>1 DEF TooFew
<1>2. CASE count = MaxCount
  <2> DEFINE a == Cardinality(Keys) * RatePercent * MaxElapsed
             b == 100 * Interval
  <2>1. a \in Nat /\ b \in Nat /\ b > 0
    BY <1>0, Settings
  <2>2. need <= a
    <3>1. c * RatePercent \in Nat /\ Cardinality(Keys) * RatePercent \in Nat
          /\ c * RatePercent <= Cardinality(Keys) * RatePercent
      BY <1>0, Settings
    <3>2. c * RatePercent * elapsed <= Cardinality(Keys) * RatePercent * elapsed
      BY <1>0, <3>1
    <3>3. Cardinality(Keys) * RatePercent * elapsed <= Cardinality(Keys) * RatePercent * MaxElapsed
      BY <1>0, <3>1, Settings
    <3> QED
      BY <1>0, <3>1, <3>2, <3>3, Settings
  <2>3. MaxCount = a \div b + 1
    BY DEF MaxCount
  <2> HIDE DEF a, b
  <2>4. a <= (a \div b + 1) * b
    BY <2>1
  <2>5. count * 100 * Interval = count * b
    BY <1>0, Settings DEF b
  <2> QED
    BY <1>2, <2>1, <2>2, <2>3, <2>4, <2>5, <1>0, Settings
<1>3. CASE Cardinality(Due) <= count
  <2>1. live \X (0 .. q - 1) \subseteq Due
    <3> SUFFICES ASSUME NEW k \in live, NEW j \in 0 .. q - 1
                 PROVE  j \in 0 .. MaxElapsed /\ j * Beat < elapsed - age[k]
      BY <1>1 DEF Due
    <3>1. j \in Nat /\ j + 1 <= q
      BY <1>1
    <3>2. j * Beat + Beat <= q * Beat
      <4> DEFINE d == q - j - 1
      <4>1. d \in Nat /\ d * Beat \in Nat /\ q = j + 1 + d
        BY <1>1, <3>1, BeatType
      <4> HIDE DEF d, q
      <4> QED
        BY <3>1, <4>1, BeatType
    <3>3. age[k] \in Nat /\ age[k] <= Beat
      BY <1>0 DEF TypeOK, DueAreCounted
    <3>4. j * Beat \in Nat /\ j <= j * Beat
      BY <3>1, BeatType
    <3> QED
      BY <1>0, <1>1, <3>1, <3>2, <3>3, <3>4, BeatType, Settings
  <2>2. Cardinality(live \X (0 .. q - 1)) = c * q
    <3>1. IsFiniteSet(0 .. q - 1) /\ Cardinality(0 .. q - 1) = q
      BY <1>1, FS_Interval
    <3>2. IsFiniteSet(live)
      BY DueFinite
    <3> HIDE DEF q
    <3> QED
      BY <3>1, <3>2, FS_Product
  <2>3. c * q <= count
    <3>1. Cardinality(live \X (0 .. q - 1)) <= Cardinality(Due)
      BY <2>1, DueFinite, FS_Subset
    <3>2. Cardinality(Due) \in Nat /\ c * q \in Nat
      BY <1>0, <1>1, DueFinite
    <3> HIDE DEF c, q
    <3> QED
      BY <1>0, <1>3, <2>2, <3>1, <3>2
  <2>4. RatePercent * elapsed <= q * 100 * Interval
    BY <1>0 DEF SteadyIsEnough
  <2>5. c * (RatePercent * elapsed) <= c * (q * 100 * Interval)
    <3> DEFINE u == RatePercent * elapsed
               v == q * 100 * Interval
    <3>1. u \in Nat /\ v \in Nat /\ u <= v
      BY <1>0, <1>1, <2>4, Settings
    <3> HIDE DEF u, v, c
    <3>2. c * u <= c * v
      BY <1>0, <3>1
    <3> QED
      BY <3>2 DEF u, v
  <2>6. (c * q) * (100 * Interval) <= count * (100 * Interval)
    <3> DEFINE u == c * q
               b == 100 * Interval
    <3>1. u \in Nat /\ b \in Nat /\ u <= count
      BY <1>0, <1>1, <2>3, Settings
    <3> HIDE DEF u, b
    <3>2. u * b <= count * b
      BY <1>0, <3>1
    <3> QED
      BY <3>2 DEF u, b
  <2>7. /\ c * (RatePercent * elapsed) = need
        /\ c * (q * 100 * Interval) = (c * q) * (100 * Interval)
        /\ count * (100 * Interval) = count * 100 * Interval
    <3> HIDE DEF c, q
    <3> QED
      BY <1>0, <1>1, Settings DEF need
  <2>8. /\ c * (RatePercent * elapsed) \in Nat /\ c * (q * 100 * Interval) \in Nat
        /\ count * (100 * Interval) \in Nat
    <3> HIDE DEF c, q
    <3> QED
      BY <1>0, <1>1, Settings
  <2> HIDE DEF c, q, need
  <2> QED
    BY <2>5, <2>6, <2>7, <2>8
<1> QED
  BY <1>2, <1>3 DEF DueAreCounted

\* If clients renew often enough for the rate, and before they expire, then no
\* window in which they all did so switches protection on, however many instances
\* there are and wherever in the window the renewals and the checks fall.
THEOREM SteadyIsNeverProtected ==
    SteadyIsEnough /\ SteadyInTime => (Spec => SteadyIsNotProtected)
<1> SUFFICES ASSUME SteadyIsEnough, SteadyInTime PROVE Spec => SteadyIsNotProtected
  OBVIOUS
<1>1. Init => DueAreCounted
  <2> SUFFICES ASSUME live = {}, elapsed = 0, count = 0 PROVE DueAreCounted
    BY DEF Init
  <2>1. Due = {}
    BY DEF Due
  <2>2. Cardinality(Due) = 0
    BY <2>1, FS_EmptySet
  <2> QED
    BY <2>2 DEF DueAreCounted
<1>2. IInv /\ DueAreCounted /\ [Next]_vars => DueAreCounted'
  BY SteadyStep
<1>3. IInv /\ DueAreCounted /\ [Next]_vars => [SteadyPasses]_vars
  <2> SUFFICES ASSUME IInv, DueAreCounted, [Next]_vars,
                      elapsed >= Window, elapsed' = 0, steady
               PROVE  ~protected'
    BY DEF SteadyPasses
  <2>1. elapsed \in Nat /\ elapsed > 0
    BY Settings DEF IInv, TypeOK
  <2>2. Check
    <3>1. elapsed' # elapsed /\ elapsed' # elapsed + 1
      BY <2>1
    <3>2. CASE Tick
      BY <3>1, <3>2 DEF Tick
    <3>3. CASE (\E k \in Keys : Register(k) \/ Deregister(k) \/ Renew(k)) \/ Evict
      BY <3>1, <3>3 DEF Register, Deregister, Renew, Evict, window
    <3>4. CASE UNCHANGED vars
      BY <3>1, <3>4 DEF vars
    <3> QED
      BY <3>2, <3>3, <3>4 DEF Next
  <2>3. protected' = TooFew
    BY <2>2 DEF Check
  <2> QED
    BY <2>3, SteadyIsNotTooFew DEF IInv
<1> QED
  BY <1>1, <1>2, <1>3, InvHolds, PTL DEF Spec, SteadyIsNotProtected
=============================================================================
