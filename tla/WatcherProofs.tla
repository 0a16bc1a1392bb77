----------------------------- MODULE WatcherProofs -----------------------------
(***************************************************************************)
(* Theorems about subscriptions and change events (module Watcher), for    *)
(* any services, clients, capacity and bounds.                             *)
(***************************************************************************)
EXTENDS Watcher, SequenceTheorems, FiniteSetTheorems, TLAPS

NoRepeat(s) == \A j, k \in DOMAIN s : s[j] = s[k] => j = k

\* A topic lists objects of its own, and one at most for each id.
ListedUnderOwn ==
    \A t \in Topics : \A j \in DOMAIN listed[t] : object[listed[t][j]].topic = t
OnePerId ==
    \A t \in Topics : \A j, k \in DOMAIN listed[t] :
        object[listed[t][j]].id = object[listed[t][k]].id => j = k

\* get_events finds an object of the id it is asked for.
FoundHasId == \A i \in SubscriberIds : byId[i] # Unknown => object[byId[i]].id = i

\* A change is owed to no object twice.
OwedOnce == \A c \in Changes : NoRepeat(todo[c])

IInv ==
    /\ TypeOK
    /\ ListedUnderOwn
    /\ OnePerId
    /\ FoundHasId
    /\ OwedOnce
    /\ PolledAreListed
    /\ ExactlyOnce
-----------------------------------------------------------------------------
(* Sequences and counting *)

\* A nonempty set of numbers has a least one: of the sets 0 .. k of its members
\* one is minimal for strict inclusion.
LEMMA LeastNumber ==
    ASSUME NEW T \in SUBSET Nat, T # {}
    PROVE  \E m \in T : \A k \in T : m <= k
<1> DEFINE Below == {0 .. k : k \in T}
           R == StrictSubsetOrdering(Nat)
           F == FiniteSubsetsOf(Nat)
<1>1. Below \subseteq F
  <2> SUFFICES ASSUME NEW k \in T PROVE 0 .. k \in F
    OBVIOUS
  <2>1. IsFiniteSet(0 .. k)
    BY FS_Interval
  <2> QED
    BY <2>1 DEF FiniteSubsetsOf
<1>2. Below # {}
  OBVIOUS
<1>3. IsWellFoundedOn(R, F)
  BY FS_StrictSubsetOrderingWellFounded
<1>4. PICK B \in Below : \A C \in Below : ~(<<C, B>> \in R)
  <2> HIDE DEF Below, R, F
  <2> QED
    BY <1>1, <1>2, <1>3, WFMin
<1>5. PICK m \in T : B = 0 .. m
  OBVIOUS
<1>6. ASSUME NEW k \in T, k < m PROVE FALSE
  <2>1. 0 .. k \subseteq 0 .. m /\ 0 .. k # 0 .. m /\ 0 .. k \subseteq Nat /\ 0 .. m \subseteq Nat
    BY <1>6
  <2>2. <<0 .. k, B>> \in R
    BY <1>5, <2>1 DEF StrictSubsetOrdering
  <2> QED
    BY <1>4, <2>2
<1> QED
  BY <1>6

LEMMA FunctionIsSequence ==
    ASSUME NEW n \in Nat, NEW S, NEW f \in [1 .. n -> S]
    PROVE  f \in Seq(S) /\ Len(f) = n
OBVIOUS

\* The places of a sequence where an element stands are finitely many.
LEMMA PlacesFinite ==
    ASSUME NEW s, NEW n \in Nat, DOMAIN s = 1 .. n, NEW x
    PROVE  IsFiniteSet({j \in DOMAIN s : s[j] = x}) /\ Occurrences(x, s) \in Nat
<1>1. IsFiniteSet(1 .. n)
  BY FS_Interval
<1>2. IsFiniteSet({j \in DOMAIN s : s[j] = x})
  BY <1>1, FS_Subset
<1> QED
  BY <1>2, FS_CardinalityType DEF Occurrences

\* What stands nowhere occurs zero times, and what stands in one place once.
LEMMA OccursNot ==
    ASSUME NEW s, NEW x, \A j \in DOMAIN s : s[j] # x
    PROVE  Occurrences(x, s) = 0
<1>1. {j \in DOMAIN s : s[j] = x} = {}
  OBVIOUS
<1> QED
  BY <1>1, FS_EmptySet DEF Occurrences

LEMMA OccursOnce ==
    ASSUME NEW s, NoRepeat(s), NEW j \in DOMAIN s
    PROVE  Occurrences(s[j], s) = 1
<1>1. {k \in DOMAIN s : s[k] = s[j]} = {j}
  BY DEF NoRepeat
<1> QED
  BY <1>1, FS_Singleton DEF Occurrences

\* Occurrences in two sequences add up when they are concatenated.
LEMMA OccursConcat ==
    ASSUME NEW S, NEW s \in Seq(S), NEW t \in Seq(S), NEW x
    PROVE  Occurrences(x, s \o t) = Occurrences(x, s) + Occurrences(x, t)
<1> DEFINE A == {j \in DOMAIN s : s[j] = x}
           B == {j \in DOMAIN t : t[j] = x}
           C == {j + Len(s) : j \in B}
           f == [j \in B |-> j + Len(s)]
<1>1. /\ Len(s) \in Nat /\ DOMAIN s = 1 .. Len(s)
      /\ Len(t) \in Nat /\ DOMAIN t = 1 .. Len(t)
  OBVIOUS
<1>2. /\ DOMAIN (s \o t) = 1 .. Len(s) + Len(t)
      /\ \A j \in 1 .. Len(s) : (s \o t)[j] = s[j]
      /\ \A j \in 1 .. Len(t) : (s \o t)[j + Len(s)] = t[j]
  OBVIOUS
<1>3. {j \in DOMAIN (s \o t) : (s \o t)[j] = x} = A \cup C
  <2>1. ASSUME NEW j \in DOMAIN (s \o t), (s \o t)[j] = x PROVE j \in A \cup C
    <3>1. CASE j <= Len(s)
      BY <1>1, <1>2, <2>1, <3>1
    <3>2. CASE j > Len(s)
      <4>1. j - Len(s) \in 1 .. Len(t) /\ j = (j - Len(s)) + Len(s)
        BY <1>1, <1>2, <3>2
      <4>2. t[j - Len(s)] = x
        BY <1>2, <2>1, <4>1
      <4> QED
        BY <1>1, <4>1, <4>2
    <3> QED
      BY <1>1, <1>2, <3>1, <3>2
  <2>2. ASSUME NEW j \in A PROVE j \in DOMAIN (s \o t) /\ (s \o t)[j] = x
    BY <1>1, <1>2
  <2>3. ASSUME NEW j \in B
        PROVE  j + Len(s) \in DOMAIN (s \o t) /\ (s \o t)[j + Len(s)] = x
    BY <1>1, <1>2
  <2> QED
    BY <2>1, <2>2, <2>3
<1>4. IsFiniteSet(A) /\ IsFiniteSet(B)
  BY <1>1, PlacesFinite
<1>5. IsFiniteSet(C) /\ Cardinality(C) = Cardinality(B)
  <2>1. f \in Bijection(B, C)
    <3>1. f \in [B -> C]
      OBVIOUS
    <3>2. \A j, k \in B : f[j] = f[k] => j = k
      BY <1>1
    <3>3. \A c \in C : \E j \in B : f[j] = c
      OBVIOUS
    <3> QED
      BY <3>1, <3>2, <3>3 DEF Bijection, Injection, Surjection, IsInjective
  <2> HIDE DEF B, C, f
  <2> QED
    BY <1>4, <2>1, FS_Bijection DEF ExistsBijection
<1>6. A \cap C = {}
  BY <1>1
<1>7. Cardinality(A \cup C) = Cardinality(A) + Cardinality(C)
  <2> HIDE DEF A, B, C
  <2>1. Cardinality(A \cup C) = Cardinality(A) + Cardinality(C) - Cardinality({})
    BY <1>4, <1>5, <1>6, FS_Union
  <2>2. Cardinality({}) = 0
    BY FS_EmptySet
  <2>3. Cardinality(A) \in Nat /\ Cardinality(C) \in Nat
    BY <1>4, <1>5, FS_CardinalityType
  <2> QED
    BY <2>1, <2>2, <2>3
<1>8. /\ Occurrences(x, s) = Cardinality(A)
      /\ Occurrences(x, t) = Cardinality(B)
      /\ Occurrences(x, s \o t) = Cardinality(A \cup C)
  BY <1>3 DEF Occurrences
<1> QED
  BY <1>5, <1>7, <1>8

LEMMA OccursAppend ==
    ASSUME NEW S, NEW s \in Seq(S), NEW e \in S, NEW x
    PROVE  Occurrences(x, Append(s, e)) = Occurrences(x, s) + (IF e = x THEN 1 ELSE 0)
<1>1. Append(s, e) = s \o <<e>>
  BY AppendIsConcat
<1>2. <<e>> \in Seq(S) /\ DOMAIN <<e>> = {1} /\ <<e>>[1] = e
  OBVIOUS
<1>3. Occurrences(x, s \o <<e>>) = Occurrences(x, s) + Occurrences(x, <<e>>)
  BY <1>2, OccursConcat
<1>4. Occurrences(x, <<e>>) = IF e = x THEN 1 ELSE 0
  <2>1. NoRepeat(<<e>>)
    BY <1>2 DEF NoRepeat
  <2> QED
    BY <1>2, <2>1, OccursOnce, OccursNot
<1> QED
  BY <1>1, <1>3, <1>4

\* Where a sequence is cut, its occurrences are divided.
LEMMA OccursCut ==
    ASSUME NEW S, NEW s \in Seq(S), NEW r \in 0 .. Len(s), NEW x
    PROVE  Occurrences(x, s) = Occurrences(x, SubSeq(s, 1, r)) + Occurrences(x, SubSeq(s, r + 1, Len(s)))
<1>1. s = SubSeq(s, 1, r) \o SubSeq(s, r + 1, Len(s))
  <2>1. SubSeq(s, 1, r) \o SubSeq(s, r + 1, Len(s)) = SubSeq(s, 1, Len(s))
    <3>1. 1 \in 1 .. Len(s) + 1 /\ r \in 1 - 1 .. Len(s) /\ Len(s) \in r .. Len(s)
      OBVIOUS
    <3> QED
      BY <3>1, ConcatAdjacentSubSeq, Zenon
  <2> QED
    BY <2>1, SubSeqFull
<1>2. SubSeq(s, 1, r) \in Seq(S) /\ SubSeq(s, r + 1, Len(s)) \in Seq(S)
  OBVIOUS
<1> QED
  BY <1>1, <1>2, OccursConcat
-----------------------------------------------------------------------------
(* notify *)

\* The targets that are served: all those before the first without room.
LEMMA ReachStops ==
    ASSUME NEW S, NEW targets \in Seq(S)
    PROVE  /\ Reach(targets) \in 0 .. Len(targets)
           /\ \A j \in 1 .. Reach(targets) : HasRoom(targets[j])
           /\ Reach(targets) < Len(targets) => ~HasRoom(targets[Reach(targets) + 1])
<1> DEFINE Stop(n) == /\ \A j \in 1 .. n : HasRoom(targets[j])
                      /\ n < Len(targets) => ~HasRoom(targets[n + 1])
           Full == {j \in 1 .. Len(targets) : ~HasRoom(targets[j])}
<1>0. Len(targets) \in Nat
  OBVIOUS
<1>1. \E n \in 0 .. Len(targets) : Stop(n)
  <2>1. CASE Full = {}
    <3>1. Stop(Len(targets)) /\ Len(targets) \in 0 .. Len(targets)
      BY <1>0, <2>1
    <3> QED
      BY <3>1
  <2>2. CASE Full # {}
    <3>1. PICK m \in Full : \A k \in Full : m <= k
      <4>1. Full \in SUBSET Nat
        BY <1>0
      <4> HIDE DEF Full
      <4> QED
        BY <2>2, <4>1, LeastNumber
    <3>2. m \in 1 .. Len(targets) /\ ~HasRoom(targets[m])
      OBVIOUS
    <3>3. \A j \in 1 .. m - 1 : HasRoom(targets[j])
      BY <1>0, <3>1, <3>2
    <3>4. m - 1 \in 0 .. Len(targets) /\ (m - 1) + 1 = m
      BY <1>0, <3>2
    <3>5. Stop(m - 1)
      BY <3>2, <3>3, <3>4
    <3> QED
      BY <3>4, <3>5
  <2> QED
    BY <2>1, <2>2
<1>2. Reach(targets) = CHOOSE n \in 0 .. Len(targets) : Stop(n)
  BY DEF Reach
<1>3. Reach(targets) \in 0 .. Len(targets) /\ Stop(Reach(targets))
  <2> HIDE DEF Stop
  <2> QED
    BY <1>1, <1>2
<1> QED
  BY <1>3

\* What is left of the targets are the others, none of them twice.
LEMMA RestIsOwed ==
    ASSUME NEW S, NEW targets \in Seq(S), NoRepeat(targets)
    PROVE  Rest(targets) \in Seq(S) /\ NoRepeat(Rest(targets))
<1>1. Reach(targets) \in 0 .. Len(targets) /\ Len(targets) \in Nat
  BY ReachStops
<1>2. \A j \in Reach(targets) + 1 .. Len(targets) : targets[j] \in S
  BY <1>1, ElementOfSeq
<1> DEFINE rest == SubSeq(targets, Reach(targets) + 1, Len(targets))
<1>3. /\ rest \in Seq(S)
      /\ Len(rest) = Len(targets) - Reach(targets)
      /\ \A j \in 1 .. Len(targets) - Reach(targets) : rest[j] = targets[Reach(targets) + j]
  BY <1>1, <1>2
<1>4. NoRepeat(rest)
  <2> SUFFICES ASSUME NEW j \in DOMAIN rest, NEW k \in DOMAIN rest, rest[j] = rest[k]
               PROVE  j = k
    BY DEF NoRepeat
  <2>1. j \in 1 .. Len(targets) - Reach(targets) /\ k \in 1 .. Len(targets) - Reach(targets)
    BY <1>1, <1>3
  <2>2. /\ Reach(targets) + j \in DOMAIN targets /\ Reach(targets) + k \in DOMAIN targets
        /\ targets[Reach(targets) + j] = targets[Reach(targets) + k]
    <3>1. DOMAIN targets = 1 .. Len(targets)
      BY LenProperties
    <3>2. Reach(targets) + j \in 1 .. Len(targets) /\ Reach(targets) + k \in 1 .. Len(targets)
      BY <1>1, <2>1
    <3>3. rest[j] = targets[Reach(targets) + j] /\ rest[k] = targets[Reach(targets) + k]
      BY <1>3, <2>1
    <3> QED
      BY <3>1, <3>2, <3>3
  <2>3. Reach(targets) + j = Reach(targets) + k
    BY <2>2 DEF NoRepeat
  <2> QED
    BY <1>1, <2>1, <2>3
<1> QED
  BY <1>3, <1>4 DEF Rest

\* A change is put into the queue of every target served, once, and the queues
\* are what they were but for that.
LEMMA PutServes ==
    ASSUME NEW C, NEW c \in C, queue \in [Objects -> Seq(C)], got \in [Objects -> Seq(C)],
           NEW targets \in Seq(Objects), NoRepeat(targets)
    PROVE  /\ Put(c, targets) \in [Objects -> Seq(C)]
           /\ \A o \in Objects :
                 /\ Occurrences(c, got[o] \o Put(c, targets)[o]) + Occurrences(o, Rest(targets))
                      = Occurrences(c, got[o] \o queue[o]) + Occurrences(o, targets)
                 /\ \A x : x # c => Occurrences(x, got[o] \o Put(c, targets)[o])
                                      = Occurrences(x, got[o] \o queue[o])
<1> DEFINE r == Reach(targets)
           served == SubSeq(targets, 1, r)
<1>1. r \in 0 .. Len(targets) /\ Len(targets) \in Nat
  BY ReachStops
<1>2. \A o \in Objects : Append(queue[o], c) \in Seq(C)
  OBVIOUS
<1>3. Put(c, targets) \in [Objects -> Seq(C)]
  BY <1>2 DEF Put
<1>4. /\ Len(served) = r /\ served \in Seq(Objects)
      /\ \A j \in 1 .. r : served[j] = targets[j]
  BY <1>1
<1>5. NoRepeat(served)
  <2>1. DOMAIN served = 1 .. r /\ 1 .. r \subseteq DOMAIN targets
    BY <1>1, <1>4
  <2> HIDE DEF served, r
  <2> QED
    BY <1>4, <2>1 DEF NoRepeat
<1> SUFFICES ASSUME NEW o \in Objects
             PROVE  /\ Occurrences(c, got[o] \o Put(c, targets)[o]) + Occurrences(o, Rest(targets))
                         = Occurrences(c, got[o] \o queue[o]) + Occurrences(o, targets)
                    /\ \A x : x # c => Occurrences(x, got[o] \o Put(c, targets)[o])
                                         = Occurrences(x, got[o] \o queue[o])
  BY <1>3
<1>6. Occurrences(o, targets) = Occurrences(o, served) + Occurrences(o, Rest(targets))
  BY <1>1, OccursCut DEF Rest
<1>7. got[o] \in Seq(C) /\ queue[o] \in Seq(C) /\ Len(queue[o]) \in Nat
  OBVIOUS
<1>8. \A x : Occurrences(x, got[o]) \in Nat /\ Occurrences(x, queue[o]) \in Nat
  BY <1>7, LenProperties, PlacesFinite
<1>9. Occurrences(o, Rest(targets)) \in Nat
  <2>1. Rest(targets) \in Seq(Objects)
    BY RestIsOwed
  <2> QED
    BY <2>1, LenProperties, PlacesFinite
<1>10. \A x : Occurrences(x, got[o] \o queue[o]) = Occurrences(x, got[o]) + Occurrences(x, queue[o])
  BY <1>7, OccursConcat
<1>11. CASE \E j \in 1 .. r : targets[j] = o
  <2>1. PICK j \in 1 .. r : targets[j] = o
    BY <1>11
  <2>2. Put(c, targets)[o] = Append(queue[o], c)
    BY <1>11 DEF Put
  <2>3. Occurrences(o, served) = 1
    <3>1. j \in DOMAIN served /\ served[j] = o
      BY <1>1, <1>4, <2>1
    <3> QED
      BY <1>5, <3>1, OccursOnce
  <2>4. \A x : Occurrences(x, got[o] \o Append(queue[o], c))
               = Occurrences(x, got[o]) + Occurrences(x, Append(queue[o], c))
    BY <1>2, <1>7, OccursConcat
  <2>5. \A x : Occurrences(x, Append(queue[o], c))
               = Occurrences(x, queue[o]) + (IF c = x THEN 1 ELSE 0)
    BY <1>7, OccursAppend
  <2>6. Occurrences(c, got[o] \o Put(c, targets)[o]) = Occurrences(c, got[o] \o queue[o]) + 1
    <3>1. Occurrences(c, Append(queue[o], c)) = Occurrences(c, queue[o]) + 1
      BY <2>5
    <3> QED
      BY <1>8, <1>10, <2>2, <2>4, <3>1
  <2>7. ASSUME NEW x, x # c
        PROVE  Occurrences(x, got[o] \o Put(c, targets)[o]) = Occurrences(x, got[o] \o queue[o])
    <3>1. Occurrences(x, Append(queue[o], c)) = Occurrences(x, queue[o])
      BY <1>8, <2>5, <2>7
    <3> QED
      BY <1>10, <2>2, <2>4, <3>1
  <2>8. Occurrences(c, got[o] \o queue[o]) \in Nat
    BY <1>8, <1>10
  <2> HIDE DEF r, served
  <2> QED
    BY <1>6, <1>9, <2>3, <2>6, <2>7, <2>8
<1>12. CASE ~ \E j \in 1 .. r : targets[j] = o
  <2>1. Put(c, targets)[o] = queue[o]
    BY <1>12 DEF Put
  <2>2. Occurrences(o, served) = 0
    <3>1. \A j \in DOMAIN served : served[j] # o
      BY <1>1, <1>4, <1>12
    <3> QED
      BY <3>1, OccursNot
  <2> HIDE DEF r, served
  <2> QED
    BY <1>6, <1>9, <2>1, <2>2
<1> QED
  BY <1>11, <1>12

\* No object is a target of a change twice: it is listed under one topic only.
LEMMA TargetsDiffer ==
    ASSUME TypeOK, ListedUnderOwn, OnePerId, NEW s \in Services
    PROVE  Targets(s) \in Seq(Objects) /\ NoRepeat(Targets(s))
<1> DEFINE a == listed[s]
           b == listed[All]
<1>1. s \in Topics /\ All \in Topics /\ s # All
  BY WatcherAssumption DEF Topics
<1>2. a \in Seq(Objects) /\ b \in Seq(Objects) /\ Len(a) \in Nat /\ Len(b) \in Nat
  BY <1>1 DEF TypeOK
<1>3. NoRepeat(a) /\ NoRepeat(b)
  BY <1>1 DEF OnePerId, NoRepeat
<1>4. \A j \in DOMAIN a, k \in DOMAIN b : a[j] # b[k]
  BY <1>1 DEF ListedUnderOwn
<1> HIDE DEF a, b
<1>5. a \o b \in Seq(Objects) /\ Len(a \o b) = Len(a) + Len(b)
  BY <1>2
<1>6. \A j \in 1 .. Len(a) + Len(b) :
         \/ j \in DOMAIN a /\ (a \o b)[j] = a[j]
         \/ j > Len(a) /\ j - Len(a) \in DOMAIN b /\ (a \o b)[j] = b[j - Len(a)]
  BY <1>2
<1>7. NoRepeat(a \o b)
  <2> SUFFICES ASSUME NEW j \in 1 .. Len(a) + Len(b), NEW k \in 1 .. Len(a) + Len(b),
                      (a \o b)[j] = (a \o b)[k]
               PROVE  j = k
    BY <1>2, <1>5 DEF NoRepeat
  <2>1. CASE j \in DOMAIN a /\ k \in DOMAIN a /\ a[j] = a[k]
    BY <1>3, <2>1 DEF NoRepeat
  <2>2. CASE /\ j - Len(a) \in DOMAIN b /\ k - Len(a) \in DOMAIN b
             /\ b[j - Len(a)] = b[k - Len(a)]
    <3>1. j - Len(a) = k - Len(a)
      BY <1>3, <2>2 DEF NoRepeat
    <3> QED
      BY <1>2, <3>1
  <2> QED
    BY <1>4, <1>6, <2>1, <2>2
<1> QED
  BY <1>5, <1>7 DEF Targets, a, b
-----------------------------------------------------------------------------
(* subscribe and unsubscribe *)

\* The new object gets one place, that of the object of its id or the last; the
\* others keep theirs.
LEMMA EnlistPlaces ==
    ASSUME TypeOK, OnePerId, NEW t \in Topics, NEW i \in SubscriberIds, NEW n
    PROVE  LET new == Enlist(listed[t], i, n) IN
           /\ new \in Seq(Objects \cup {n})
           /\ \E j \in DOMAIN new : new[j] = n
           /\ \A j \in DOMAIN new : new[j] # n => j \in DOMAIN listed[t] /\ new[j] = listed[t][j]
           /\ \A j \in DOMAIN listed[t] : object[listed[t][j]].id # i =>
                 j \in DOMAIN new /\ new[j] = listed[t][j]
           /\ \A j, k \in DOMAIN new :
                 new[j] = n /\ n \notin Objects /\ new[k] = n => j = k
           /\ \A j \in DOMAIN new : new[j] # n => object[new[j]].id # i
<1> DEFINE list == listed[t]
           new == Enlist(list, i, n)
<1>1. list \in Seq(Objects) /\ Len(list) \in Nat /\ DOMAIN list = 1 .. Len(list)
  BY DEF TypeOK
<1>2. \A j, k \in DOMAIN list : object[list[j]].id = object[list[k]].id => j = k
  BY DEF OnePerId
<1>3. \A j \in DOMAIN list : list[j] \in Objects
  BY <1>1
<1> SUFFICES /\ new \in Seq(Objects \cup {n})
             /\ \E j \in DOMAIN new : new[j] = n
             /\ \A j \in DOMAIN new : new[j] # n => j \in DOMAIN list /\ new[j] = list[j]
             /\ \A j \in DOMAIN list : object[list[j]].id # i => j \in DOMAIN new /\ new[j] = list[j]
             /\ \A j, k \in DOMAIN new : new[j] = n /\ n \notin Objects /\ new[k] = n => j = k
             /\ \A j \in DOMAIN new : new[j] # n => object[new[j]].id # i
  OBVIOUS
<1> HIDE DEF list
<1>4. CASE \E j \in DOMAIN list : object[list[j]].id = i
  <2>1. new = [j \in DOMAIN list |-> IF object[list[j]].id = i THEN n ELSE list[j]]
    BY <1>4 DEF Enlist
  <2>2. new \in [1 .. Len(list) -> Objects \cup {n}]
    BY <1>1, <1>3, <2>1
  <2>3. new \in Seq(Objects \cup {n})
    BY <1>1, <2>2
  <2> HIDE DEF new
  <2> QED
    BY <1>2, <1>3, <1>4, <2>1, <2>3
<1>5. CASE ~ \E j \in DOMAIN list : object[list[j]].id = i
  <2>1. new = Append(list, n)
    BY <1>5 DEF Enlist
  <2>2. list \in Seq(Objects \cup {n})
    BY <1>1
  <2>3. /\ new \in Seq(Objects \cup {n}) /\ DOMAIN new = 1 .. Len(list) + 1
        /\ \A j \in 1 .. Len(list) : new[j] = list[j]
        /\ new[Len(list) + 1] = n
    BY <1>1, <2>1, <2>2
  <2> HIDE DEF new
  <2> QED
    BY <1>1, <1>3, <1>5, <2>3
<1> QED
  BY <1>4, <1>5

\* What is left when a place of a sequence is taken out.
LEMMA RemovedPlace ==
    ASSUME NEW S, NEW s \in Seq(S), NEW p \in 1 .. Len(s)
    PROVE  /\ RemoveAt(s, p) \in Seq(S)
           /\ DOMAIN RemoveAt(s, p) = 1 .. Len(s) - 1
           /\ \A j \in 1 .. Len(s) - 1 : RemoveAt(s, p)[j] = IF j < p THEN s[j] ELSE s[j + 1]
<1> DEFINE a == SubSeq(s, 1, p - 1)
           b == SubSeq(s, p + 1, Len(s))
<1>1. Len(s) \in Nat
  OBVIOUS
<1>2. /\ a \in Seq(S) /\ Len(a) = p - 1
      /\ \A j \in 1 .. p - 1 : a[j] = s[j]
  BY <1>1
<1>3. /\ b \in Seq(S) /\ Len(b) = Len(s) - p
      /\ \A j \in 1 .. Len(s) - p : b[j] = s[p + j]
  BY <1>1
<1> HIDE DEF a, b
<1>4. /\ a \o b \in Seq(S) /\ DOMAIN (a \o b) = 1 .. Len(s) - 1
      /\ \A j \in 1 .. Len(s) - 1 : (a \o b)[j] = IF j <= p - 1 THEN a[j] ELSE b[j - (p - 1)]
  <2>1. /\ a \o b \in Seq(S) /\ Len(a \o b) = Len(a) + Len(b)
        /\ \A j \in 1 .. Len(a) + Len(b) :
              (a \o b)[j] = IF j <= Len(a) THEN a[j] ELSE b[j - Len(a)]
    BY <1>2, <1>3, ConcatProperties
  <2>2. Len(a) + Len(b) = Len(s) - 1
    BY <1>1, <1>2, <1>3
  <2> QED
    BY <1>1, <1>2, <2>1, <2>2
<1>5. ASSUME NEW j \in 1 .. Len(s) - 1
      PROVE  (a \o b)[j] = IF j < p THEN s[j] ELSE s[j + 1]
  <2>1. CASE j < p
    <3>1. j \in 1 .. p - 1
      BY <1>1, <2>1
    <3> QED
      BY <1>2, <1>4, <2>1, <3>1
  <2>2. CASE ~(j < p)
    <3>1. j - (p - 1) \in 1 .. Len(s) - p /\ ~(j <= p - 1) /\ p + (j - (p - 1)) = j + 1
      BY <1>1, <2>2
    <3>2. b[j - (p - 1)] = s[j + 1]
      BY <1>3, <3>1
    <3> QED
      BY <1>4, <2>2, <3>1, <3>2
  <2> QED
    BY <2>1, <2>2
<1>6. RemoveAt(s, p) = a \o b
  BY DEF RemoveAt, a, b
<1> QED
  BY <1>4, <1>5, <1>6

\* No object gets a second place, and all but those of the id keep one.
LEMMA DelistPlaces ==
    ASSUME TypeOK, OnePerId, NEW t \in Topics, NEW i \in SubscriberIds
    PROVE  LET new == Delist(listed[t], i) IN
           /\ new \in Seq(Objects)
           /\ \A j, k \in DOMAIN new : j # k =>
                 \E a, b \in DOMAIN listed[t] : a # b /\ new[j] = listed[t][a] /\ new[k] = listed[t][b]
           /\ \A j \in DOMAIN new : \E a \in DOMAIN listed[t] : new[j] = listed[t][a]
           /\ \A j \in DOMAIN listed[t] : object[listed[t][j]].id # i =>
                 \E k \in DOMAIN new : new[k] = listed[t][j]
<1> DEFINE list == listed[t]
           new == Delist(list, i)
           p == CHOOSE j \in DOMAIN list : object[list[j]].id = i
<1>1. list \in Seq(Objects) /\ Len(list) \in Nat /\ DOMAIN list = 1 .. Len(list)
  BY DEF TypeOK
<1>2. \A j, k \in DOMAIN list : object[list[j]].id = object[list[k]].id => j = k
  BY DEF OnePerId
<1> SUFFICES /\ new \in Seq(Objects)
             /\ \A j, k \in DOMAIN new : j # k =>
                   \E a, b \in DOMAIN list : a # b /\ new[j] = list[a] /\ new[k] = list[b]
             /\ \A j \in DOMAIN new : \E a \in DOMAIN list : new[j] = list[a]
             /\ \A j \in DOMAIN list : object[list[j]].id # i => \E k \in DOMAIN new : new[k] = list[j]
  OBVIOUS
<1> HIDE DEF list
<1>3. CASE \E j \in DOMAIN list : object[list[j]].id = i
  <2>1. new = RemoveAt(list, p)
    BY <1>3 DEF Delist
  <2>2. p \in 1 .. Len(list) /\ object[list[p]].id = i
    BY <1>1, <1>3
  <2> HIDE DEF new, p
  <2>3. /\ new \in Seq(Objects) /\ DOMAIN new = 1 .. Len(list) - 1
        /\ \A j \in 1 .. Len(list) - 1 : new[j] = IF j < p THEN list[j] ELSE list[j + 1]
    BY <1>1, <2>1, <2>2, RemovedPlace
  <2>4. ASSUME NEW j \in DOMAIN new, NEW k \in DOMAIN new, j # k
        PROVE  \E a, b \in DOMAIN list : a # b /\ new[j] = list[a] /\ new[k] = list[b]
    <3> DEFINE a == IF j < p THEN j ELSE j + 1
               b == IF k < p THEN k ELSE k + 1
    <3>1. a \in DOMAIN list /\ b \in DOMAIN list /\ a # b
      BY <1>1, <2>2, <2>3, <2>4
    <3>2. new[j] = list[a] /\ new[k] = list[b]
      BY <2>3
    <3> QED
      BY <3>1, <3>2
  <2>5. ASSUME NEW j \in DOMAIN new PROVE \E a \in DOMAIN list : new[j] = list[a]
    <3>1. j \in DOMAIN list /\ j + 1 \in DOMAIN list
      BY <1>1, <2>3
    <3> QED
      BY <2>3, <3>1
  <2>6. ASSUME NEW j \in DOMAIN list, object[list[j]].id # i
        PROVE  \E k \in DOMAIN new : new[k] = list[j]
    <3>1. CASE j < p
      <4>1. j \in DOMAIN new /\ new[j] = list[j]
        BY <1>1, <2>2, <2>3, <3>1
      <4> QED
        BY <4>1
    <3>2. CASE j > p
      <4>1. j - 1 \in DOMAIN new /\ ~(j - 1 < p) /\ (j - 1) + 1 = j
        BY <1>1, <2>2, <2>3, <3>2
      <4>2. new[j - 1] = list[j]
        BY <2>3, <4>1
      <4> QED
        BY <4>1, <4>2
    <3>3. j # p
      BY <2>2, <2>6
    <3> QED
      BY <1>1, <2>2, <3>1, <3>2, <3>3
  <2> QED
    BY <2>3, <2>4, <2>5, <2>6
<1>4. CASE ~ \E j \in DOMAIN list : object[list[j]].id = i
  <2>1. new = list
    BY <1>4 DEF Delist
  <2> HIDE DEF new
  <2> QED
    BY <1>1, <2>1
<1> QED
  BY <1>3, <1>4
-----------------------------------------------------------------------------
(* The steps *)

\* Who is served has room for one more.
LEMMA PutFits ==
    ASSUME NEW C, NEW c \in C, queue \in [Objects -> Seq(C)],
           NEW targets \in Seq(Objects), NEW o \in Objects, Len(queue[o]) <= Capacity
    PROVE  Len(Put(c, targets)[o]) <= Capacity
<1>1. queue[o] \in Seq(C) /\ Len(queue[o]) \in Nat /\ Capacity \in Nat
  BY WatcherAssumption
<1>2. CASE \E j \in 1 .. Reach(targets) : targets[j] = o
  <2>1. Len(queue[o]) < Capacity
    BY <1>2, ReachStops DEF HasRoom
  <2>2. Put(c, targets)[o] = Append(queue[o], c)
    BY <1>2 DEF Put
  <2> QED
    BY <1>1, <2>1, <2>2
<1>3. CASE ~\E j \in 1 .. Reach(targets) : targets[j] = o
  BY <1>3 DEF Put
<1> QED
  BY <1>2, <1>3

LEMMA InitHolds == Init => IInv
<1> SUFFICES ASSUME Init PROVE IInv
  OBVIOUS
<1> USE DEF Init
<1>1. TypeOK
  BY DEF TypeOK, Objects, Changes
<1>2. ListedUnderOwn /\ OnePerId /\ FoundHasId /\ PolledAreListed
  BY DEF ListedUnderOwn, OnePerId, FoundHasId, PolledAreListed
<1>3. OwedOnce /\ ExactlyOnce
  BY DEF OwedOnce, ExactlyOnce, Changes
<1> QED
  BY <1>1, <1>2, <1>3 DEF IInv

LEMMA SubscribeKeeps ==
    ASSUME IInv, NEW i \in SubscriberIds, NEW t \in Topics, Subscribe(i, t)
    PROVE  IInv'
<1> DEFINE n == Len(object) + 1
           new == Enlist(listed[t], i, n)
<1>0. TypeOK /\ OnePerId
  BY DEF IInv
<1>1. /\ Len(object) \in Nat /\ Objects = 1 .. Len(object) /\ n \notin Objects
      /\ Unknown \notin Objects \cup {n}
      /\ object \in Seq([id : SubscriberIds, topic : Topics])
  BY <1>0, WatcherAssumption DEF TypeOK, Objects
<1>2. /\ object' \in Seq([id : SubscriberIds, topic : Topics])
      /\ Objects' = Objects \cup {n}
      /\ \A o \in Objects : object'[o] = object[o]
      /\ object'[n] = [id |-> i, topic |-> t]
  <2>1. object' = Append(object, [id |-> i, topic |-> t])
    BY DEF Subscribe
  <2>2. DOMAIN object' = 1 .. n
    BY <1>1, <2>1
  <2> QED
    BY <1>1, <2>1, <2>2 DEF Objects
<1>3. /\ new \in Seq(Objects')
      /\ \E j \in DOMAIN new : new[j] = n
      /\ \A j \in DOMAIN new : new[j] # n => j \in DOMAIN listed[t] /\ new[j] = listed[t][j]
      /\ \A j \in DOMAIN listed[t] : object[listed[t][j]].id # i =>
            j \in DOMAIN new /\ new[j] = listed[t][j]
      /\ \A j, k \in DOMAIN new : new[j] = n /\ new[k] = n => j = k
      /\ \A j \in DOMAIN new : new[j] # n => object[new[j]].id # i
  <2> HIDE DEF n
  <2>1. /\ new \in Seq(Objects \cup {n})
        /\ \E j \in DOMAIN new : new[j] = n
        /\ \A j \in DOMAIN new : new[j] # n => j \in DOMAIN listed[t] /\ new[j] = listed[t][j]
        /\ \A j \in DOMAIN listed[t] : object[listed[t][j]].id # i =>
              j \in DOMAIN new /\ new[j] = listed[t][j]
        /\ \A j, k \in DOMAIN new : new[j] = n /\ n \notin Objects /\ new[k] = n => j = k
        /\ \A j \in DOMAIN new : new[j] # n => object[new[j]].id # i
    BY <1>0, EnlistPlaces, Zenon
  <2> HIDE DEF new
  <2> QED
    BY <1>1, <1>2, <2>1
<1>4. /\ byId' = [byId EXCEPT ![i] = n]
      /\ listed' = [listed EXCEPT ![t] = new]
      /\ listed \in [Topics -> Seq(Objects)]
      /\ byId \in [SubscriberIds -> Objects \cup {Unknown}]
  BY <1>0 DEF Subscribe, TypeOK
<1> HIDE DEF n, new
<1>5. \A u \in Topics : \A j \in DOMAIN listed[u] : listed[u][j] \in Objects
  BY <1>4, ElementOfSeq
<1>6. UNCHANGED <<waiting, due, todo>> /\ Changes' = Changes
  BY DEF Subscribe, Changes
<1>7. /\ queue' = Append(queue, <<>>) /\ got' = Append(got, <<>>)
      /\ queue \in [Objects -> Seq(Changes)] /\ got \in [Objects -> Seq(Changes)]
  BY <1>0 DEF Subscribe, TypeOK
<1>8. /\ queue' \in [Objects' -> Seq(Changes)] /\ got' \in [Objects' -> Seq(Changes)]
      /\ \A o \in Objects : queue'[o] = queue[o] /\ got'[o] = got[o]
      /\ queue'[n] = <<>> /\ got'[n] = <<>>
  <2> SUFFICES ASSUME NEW f \in [Objects -> Seq(Changes)]
               PROVE  /\ Append(f, <<>>) \in [Objects' -> Seq(Changes)]
                      /\ \A o \in Objects : Append(f, <<>>)[o] = f[o]
                      /\ Append(f, <<>>)[n] = <<>>
    BY <1>7
  <2>1. f \in Seq(Seq(Changes)) /\ Len(f) = Len(object)
    BY <1>1
  <2>2. <<>> \in Seq(Changes)
    OBVIOUS
  <2>3. /\ Append(f, <<>>) \in Seq(Seq(Changes)) /\ Len(Append(f, <<>>)) = n
        /\ \A o \in 1 .. Len(object) : Append(f, <<>>)[o] = f[o]
        /\ Append(f, <<>>)[n] = <<>>
    BY <2>1, <2>2, AppendProperties DEF n
  <2>4. 1 .. n = Objects'
    BY <1>1, <1>2 DEF n
  <2> QED
    BY <1>1, <2>3, <2>4, LenProperties
<1>9. TypeOK'
  <2>1. listed' \in [Topics -> Seq(Objects')]
    <3>1. \A u \in Topics : listed[u] \in Seq(Objects')
      BY <1>2, <1>4, SeqMonotonic
    <3> QED
      BY <1>3, <1>4, <3>1
  <2>2. byId' \in [SubscriberIds -> Objects' \cup {Unknown}]
    BY <1>2, <1>4
  <2>3. waiting' \in SUBSET Objects'
    BY <1>0, <1>2, <1>6 DEF TypeOK
  <2>4. due' \in Seq(Seq(Objects')) /\ todo' \in [Changes' -> Seq(Objects')]
    <3>1. Seq(Objects) \subseteq Seq(Objects')
      BY <1>2, SeqMonotonic
    <3>2. due \in Seq(Seq(Objects)) /\ todo \in [Changes -> Seq(Objects)]
      BY <1>0 DEF TypeOK
    <3>3. due \in Seq(Seq(Objects'))
      BY <3>1, <3>2, SeqMonotonic
    <3> QED
      BY <1>6, <3>1, <3>2, <3>3
  <2>5. \A o \in Objects' : Len(queue'[o]) <= Capacity
    <3>1. \A o \in Objects : Len(queue[o]) <= Capacity
      BY <1>0 DEF TypeOK
    <3>2. Len(<<>>) <= Capacity
      BY WatcherAssumption
    <3> QED
      BY <1>2, <1>8, <3>1, <3>2
  <2> QED
    BY <1>2, <1>6, <1>8, <2>1, <2>2, <2>3, <2>4, <2>5 DEF TypeOK
<1>10. ListedUnderOwn'
  <2> SUFFICES ASSUME NEW u \in Topics, NEW j \in DOMAIN listed'[u]
               PROVE  object'[listed'[u][j]].topic = u
    BY DEF ListedUnderOwn
  <2>1. ASSUME NEW k \in DOMAIN listed[u] PROVE object'[listed[u][k]].topic = u
    BY <1>2, <1>5 DEF IInv, ListedUnderOwn
  <2>2. CASE u = t
    <3>1. listed'[u] = new
      BY <1>4, <2>2
    <3> QED
      BY <1>2, <1>3, <2>1, <2>2, <3>1
  <2>3. CASE u # t
    BY <1>4, <2>1, <2>3
  <2> QED
    BY <2>2, <2>3
<1>11. OnePerId'
  <2> SUFFICES ASSUME NEW u \in Topics, NEW j \in DOMAIN listed'[u], NEW k \in DOMAIN listed'[u],
                      object'[listed'[u][j]].id = object'[listed'[u][k]].id
               PROVE  j = k
    BY DEF OnePerId
  <2>1. ASSUME NEW a \in DOMAIN listed[u], NEW b \in DOMAIN listed[u],
               object'[listed[u][a]].id = object'[listed[u][b]].id
        PROVE  a = b
    BY <1>0, <1>2, <1>5, <2>1 DEF OnePerId
  <2>2. CASE u = t
    <3>1. listed'[u] = new
      BY <1>4, <2>2
    <3>2. \A a \in DOMAIN new : new[a] # n => object'[new[a]].id # i
      BY <1>2, <1>3, <1>5
    <3>3. object'[n].id = i
      BY <1>2
    <3>4. CASE new[j] = n \/ new[k] = n
      BY <1>3, <3>1, <3>2, <3>3, <3>4
    <3>5. CASE new[j] # n /\ new[k] # n
      BY <1>3, <2>1, <2>2, <3>1, <3>5
    <3> QED
      BY <3>4, <3>5
  <2>3. CASE u # t
    BY <1>4, <2>1, <2>3
  <2> QED
    BY <2>2, <2>3
<1>12. FoundHasId'
  <2> SUFFICES ASSUME NEW h \in SubscriberIds, byId'[h] # Unknown
               PROVE  object'[byId'[h]].id = h
    BY DEF FoundHasId
  <2>1. CASE h = i
    BY <1>2, <1>4, <2>1
  <2>2. CASE h # i
    <3>1. byId'[h] = byId[h] /\ byId[h] \in Objects
      BY <1>4, <2>2
    <3> QED
      BY <1>2, <3>1 DEF IInv, FoundHasId
  <2> QED
    BY <2>1, <2>2
<1>13. PolledAreListed'
  <2> SUFFICES ASSUME NEW h \in SubscriberIds, byId'[h] # Unknown
               PROVE  \E j \in DOMAIN listed'[object'[byId'[h]].topic] :
                         listed'[object'[byId'[h]].topic][j] = byId'[h]
    BY DEF PolledAreListed, ToSet
  <2>1. CASE h = i
    BY <1>2, <1>3, <1>4, <2>1
  <2>2. CASE h # i
    <3>1. byId'[h] = byId[h] /\ byId[h] \in Objects
      BY <1>4, <2>2
    <3>2. object'[byId[h]] = object[byId[h]] /\ object[byId[h]].id = h
      BY <1>2, <3>1 DEF IInv, FoundHasId
    <3>3. object[byId[h]].topic \in Topics
      <4>1. object[byId[h]] \in [id : SubscriberIds, topic : Topics]
        BY <1>1, <3>1, ElementOfSeq
      <4> QED
        BY <4>1
    <3>4. PICK j \in DOMAIN listed[object[byId[h]].topic] :
             listed[object[byId[h]].topic][j] = byId[h]
      BY <3>1 DEF IInv, PolledAreListed, ToSet
    <3> QED
      BY <1>3, <1>4, <2>2, <3>1, <3>2, <3>3, <3>4
  <2> QED
    BY <2>1, <2>2
<1>14. OwedOnce'
  BY <1>6 DEF IInv, OwedOnce
<1>15. ExactlyOnce'
  <2> SUFFICES ASSUME NEW c \in Changes, NEW o \in Objects'
               PROVE  Occurrences(c, got'[o] \o queue'[o]) + Occurrences(o, todo[c])
                        = Occurrences(o, due[c])
    BY <1>6 DEF ExactlyOnce, Occurrences
  <2>1. CASE o \in Objects
    BY <1>8, <2>1 DEF IInv, ExactlyOnce
  <2>2. CASE o = n
    <3>1. <<>> \o <<>> = <<>> /\ DOMAIN <<>> = {}
      OBVIOUS
    <3>2. Occurrences(c, <<>>) = 0
      BY <3>1, OccursNot
    <3>3. todo[c] \in Seq(Objects) /\ due[c] \in Seq(Objects)
      BY <1>0 DEF TypeOK, Changes
    <3>4. Occurrences(n, todo[c]) = 0 /\ Occurrences(n, due[c]) = 0
      BY <1>1, <3>3, LenProperties, ElementOfSeq, OccursNot DEF n
    <3> QED
      BY <1>8, <2>2, <3>1, <3>2, <3>4
  <2> QED
    BY <1>2, <2>1, <2>2
<1> QED
  BY <1>9, <1>10, <1>11, <1>12, <1>13, <1>14, <1>15 DEF IInv
\* ExactlyOnce of the next state.
LEMMA AddsUp ==
    ASSUME \A c \in Changes', o \in Objects' :
               Occurrences(c, got'[o] \o queue'[o]) + Occurrences(o, todo'[c]) = Occurrences(o, due'[c])
    PROVE  ExactlyOnce'
BY DEF ExactlyOnce, Occurrences

LEMMA OwedKept ==
    ASSUME UNCHANGED <<object, queue, due, todo, got>>
    PROVE  /\ OwedOnce => OwedOnce'
           /\ ExactlyOnce => ExactlyOnce'
<1>1. Objects' = Objects /\ Changes' = Changes
  BY DEF Objects, Changes
<1>2. OwedOnce => OwedOnce'
  BY <1>1 DEF OwedOnce
<1>3. ASSUME ExactlyOnce PROVE ExactlyOnce'
  BY <1>1, <1>3, AddsUp DEF ExactlyOnce
<1> QED
  BY <1>2, <1>3

LEMMA UnsubscribeKeeps ==
    ASSUME IInv, NEW i \in SubscriberIds, Unsubscribe(i)
    PROVE  IInv'
<1> DEFINE t == object[byId[i]].topic
           new == Delist(listed[t], i)
<1>0. TypeOK /\ OnePerId
  BY DEF IInv
<1>1. /\ UNCHANGED <<object, queue, waiting, due, todo, got>>
      /\ Objects' = Objects /\ Changes' = Changes
      /\ byId' = [byId EXCEPT ![i] = Unknown]
      /\ listed' = [listed EXCEPT ![t] = new]
      /\ byId[i] # Unknown
  BY DEF Unsubscribe, Objects, Changes
<1>2. /\ object \in Seq([id : SubscriberIds, topic : Topics])
      /\ listed \in [Topics -> Seq(Objects)]
      /\ byId \in [SubscriberIds -> Objects \cup {Unknown}]
  BY <1>0 DEF TypeOK
<1>3. ASSUME NEW o \in Objects PROVE object[o] \in [id : SubscriberIds, topic : Topics]
  <2>1. o \in 1 .. Len(object)
    BY <1>2, LenProperties DEF Objects
  <2> QED
    BY <1>2, <2>1, ElementOfSeq
<1>4. t \in Topics
  <2>1. object[byId[i]] \in [id : SubscriberIds, topic : Topics]
    BY <1>1, <1>2, <1>3
  <2> QED
    BY <2>1
<1> HIDE DEF t
<1>5. /\ new \in Seq(Objects)
      /\ \A j, k \in DOMAIN new : j # k =>
            \E a, b \in DOMAIN listed[t] : a # b /\ new[j] = listed[t][a] /\ new[k] = listed[t][b]
      /\ \A j \in DOMAIN new : \E a \in DOMAIN listed[t] : new[j] = listed[t][a]
      /\ \A j \in DOMAIN listed[t] : object[listed[t][j]].id # i =>
            \E k \in DOMAIN new : new[k] = listed[t][j]
  BY <1>0, <1>4, DelistPlaces, Zenon
<1> HIDE DEF new
<1>6. TypeOK'
  <2>1. listed' \in [Topics -> Seq(Objects)]
    BY <1>1, <1>2, <1>4, <1>5
  <2>2. byId' \in [SubscriberIds -> Objects \cup {Unknown}]
    BY <1>1, <1>2
  <2> QED
    BY <1>0, <1>1, <2>1, <2>2 DEF TypeOK
<1>7. ListedUnderOwn'
  <2> SUFFICES ASSUME NEW u \in Topics, NEW j \in DOMAIN listed'[u]
               PROVE  object[listed'[u][j]].topic = u
    BY <1>1 DEF ListedUnderOwn
  <2>1. \E a \in DOMAIN listed[u] : listed'[u][j] = listed[u][a]
    BY <1>1, <1>2, <1>5
  <2> QED
    BY <2>1 DEF IInv, ListedUnderOwn
<1>8. OnePerId'
  <2> SUFFICES ASSUME NEW u \in Topics, NEW j \in DOMAIN listed'[u], NEW k \in DOMAIN listed'[u],
                      object[listed'[u][j]].id = object[listed'[u][k]].id, j # k
               PROVE  FALSE
    BY <1>1 DEF OnePerId
  <2>1. \E a, b \in DOMAIN listed[u] :
           a # b /\ listed'[u][j] = listed[u][a] /\ listed'[u][k] = listed[u][b]
    BY <1>1, <1>2, <1>5
  <2> QED
    BY <1>0, <2>1 DEF OnePerId
<1>9. FoundHasId'
  BY <1>1, <1>2 DEF IInv, FoundHasId
<1>10. PolledAreListed'
  <2> SUFFICES ASSUME NEW h \in SubscriberIds, byId'[h] # Unknown
               PROVE  \E j \in DOMAIN listed'[object[byId'[h]].topic] :
                         listed'[object[byId'[h]].topic][j] = byId'[h]
    BY <1>1 DEF PolledAreListed, ToSet
  <2>1. h # i /\ byId'[h] = byId[h] /\ byId[h] \in Objects
    BY <1>1, <1>2
  <2>2. object[byId[h]].id = h
    BY <2>1 DEF IInv, FoundHasId
  <2>3. object[byId[h]].topic \in Topics
    <3>1. object[byId[h]] \in [id : SubscriberIds, topic : Topics]
      BY <1>3, <2>1
    <3> QED
      BY <3>1
  <2>4. PICK j \in DOMAIN listed[object[byId[h]].topic] :
           listed[object[byId[h]].topic][j] = byId[h]
    BY <2>1 DEF IInv, PolledAreListed, ToSet
  <2>5. CASE object[byId[h]].topic = t
    <3>1. \E k \in DOMAIN new : new[k] = listed[t][j]
      BY <1>5, <2>1, <2>2, <2>4, <2>5
    <3>2. listed'[t] = new
      BY <1>1, <1>2, <2>3, <2>5
    <3> QED
      BY <2>1, <2>4, <2>5, <3>1, <3>2
  <2>6. CASE object[byId[h]].topic # t
    BY <1>1, <1>2, <2>1, <2>3, <2>4, <2>6
  <2> QED
    BY <2>5, <2>6
<1>11. OwedOnce' /\ ExactlyOnce'
  BY <1>1, OwedKept DEF IInv
<1> QED
  BY <1>6, <1>7, <1>8, <1>9, <1>10, <1>11 DEF IInv

\* Who is subscribed stays as it is in every other step.
LEMMA SubscribersKept ==
    ASSUME IInv, UNCHANGED <<object, listed, byId>>
    PROVE  /\ Objects' = Objects
           /\ ListedUnderOwn' /\ OnePerId' /\ FoundHasId' /\ PolledAreListed'
<1>1. Objects' = Objects
  BY DEF Objects
<1>2. PolledAreListed'
  BY DEF IInv, PolledAreListed
<1> QED
  BY <1>1, <1>2 DEF IInv, ListedUnderOwn, OnePerId, FoundHasId

LEMMA ChangeKeeps ==
    ASSUME IInv, NEW s \in Services, Change(s)
    PROVE  IInv'
<1> DEFINE n == Len(due) + 1
           targets == Targets(s)
<1>0. TypeOK
  BY DEF IInv
<1>1. /\ UNCHANGED <<object, listed, byId>>
      /\ due' = Append(due, targets)
      /\ todo' = Append(todo, Rest(targets))
      /\ queue' = Put(n, targets)
      /\ UNCHANGED <<waiting, got>>
  BY DEF Change
<1>2. /\ Objects' = Objects
      /\ ListedUnderOwn' /\ OnePerId' /\ FoundHasId' /\ PolledAreListed'
  BY <1>1, SubscribersKept
<1>3. targets \in Seq(Objects) /\ NoRepeat(targets)
  BY <1>0, TargetsDiffer DEF IInv
<1>4. Rest(targets) \in Seq(Objects) /\ NoRepeat(Rest(targets))
  BY <1>3, RestIsOwed
<1> HIDE DEF targets
<1>5. /\ Len(due) \in Nat /\ Changes = 1 .. Len(due) /\ n \notin Changes
      /\ due \in Seq(Seq(Objects)) /\ todo \in [Changes -> Seq(Objects)]
      /\ queue \in [Objects -> Seq(Changes)] /\ got \in [Objects -> Seq(Changes)]
  BY <1>0 DEF TypeOK, Changes
<1>6. /\ due' \in Seq(Seq(Objects)) /\ Len(due') = n /\ Changes' = Changes \cup {n}
      /\ \A c \in Changes : due'[c] = due[c]
      /\ due'[n] = targets
  <2>1. /\ due' \in Seq(Seq(Objects)) /\ Len(due') = n
        /\ \A c \in 1 .. Len(due) : due'[c] = due[c]
        /\ due'[n] = targets
    BY <1>1, <1>3, <1>5, AppendProperties
  <2>2. DOMAIN due' = 1 .. n
    BY <2>1
  <2> QED
    BY <1>5, <2>1, <2>2 DEF Changes
<1>7. /\ todo' \in [Changes' -> Seq(Objects)]
      /\ \A c \in Changes : todo'[c] = todo[c]
      /\ todo'[n] = Rest(targets)
  <2>1. todo \in Seq(Seq(Objects)) /\ Len(todo) = Len(due)
    <3>1. todo \in [1 .. Len(due) -> Seq(Objects)]
      BY <1>5
    <3> QED
      BY <1>5, <3>1, FunctionIsSequence
  <2>2. /\ Append(todo, Rest(targets)) \in Seq(Seq(Objects))
        /\ Len(Append(todo, Rest(targets))) = n
        /\ \A c \in 1 .. Len(todo) : Append(todo, Rest(targets))[c] = todo[c]
        /\ Append(todo, Rest(targets))[n] = Rest(targets)
    BY <1>4, <2>1, AppendProperties
  <2>3. 1 .. n = Changes'
    BY <1>5, <1>6
  <2> QED
    BY <1>1, <1>5, <2>1, <2>2, <2>3, LenProperties
<1> HIDE DEF n
<1>8. queue \in [Objects -> Seq(Changes')] /\ got \in [Objects -> Seq(Changes')] /\ n \in Changes'
  <2>1. Seq(Changes) \subseteq Seq(Changes')
    BY <1>6, SeqMonotonic
  <2> QED
    BY <1>5, <1>6, <2>1
<1>9. /\ queue' \in [Objects -> Seq(Changes')]
      /\ \A o \in Objects :
            /\ Occurrences(n, got[o] \o queue'[o]) + Occurrences(o, Rest(targets))
                 = Occurrences(n, got[o] \o queue[o]) + Occurrences(o, targets)
            /\ \A x : x # n => Occurrences(x, got[o] \o queue'[o])
                                 = Occurrences(x, got[o] \o queue[o])
  <2>1. \A C : n \in C /\ queue \in [Objects -> Seq(C)] /\ got \in [Objects -> Seq(C)] =>
           /\ Put(n, targets) \in [Objects -> Seq(C)]
           /\ \A o \in Objects :
                 /\ Occurrences(n, got[o] \o Put(n, targets)[o]) + Occurrences(o, Rest(targets))
                      = Occurrences(n, got[o] \o queue[o]) + Occurrences(o, targets)
                 /\ \A x : x # n => Occurrences(x, got[o] \o Put(n, targets)[o])
                                      = Occurrences(x, got[o] \o queue[o])
    BY <1>3, PutServes
  <2> QED
    BY <1>1, <1>8, <2>1 DEF n
<1>10. TypeOK'
  <2>1. \A o \in Objects : Len(queue'[o]) <= Capacity
    BY <1>0, <1>1, <1>3, <1>8, PutFits DEF TypeOK
  <2> QED
    BY <1>0, <1>1, <1>2, <1>6, <1>7, <1>8, <1>9, <2>1 DEF TypeOK
<1>11. OwedOnce'
  <2> SUFFICES ASSUME NEW c \in Changes' PROVE NoRepeat(todo'[c])
    BY DEF OwedOnce, NoRepeat
  <2> QED
    BY <1>4, <1>6, <1>7 DEF IInv, OwedOnce
<1>12. ExactlyOnce'
  <2> SUFFICES ASSUME NEW c \in Changes', NEW o \in Objects
               PROVE  Occurrences(c, got[o] \o queue'[o]) + Occurrences(o, todo'[c])
                        = Occurrences(o, due'[c])
    BY <1>1, <1>2, AddsUp
  <2>1. CASE c \in Changes
    <3>1. c # n
      BY <1>5, <2>1 DEF n
    <3> QED
      BY <1>6, <1>7, <1>9, <2>1, <3>1 DEF IInv, ExactlyOnce
  <2>2. CASE c = n
    <3>1. got[o] \o queue[o] \in Seq(Changes)
      BY <1>5, ConcatProperties
    <3>2. \A j \in DOMAIN (got[o] \o queue[o]) : (got[o] \o queue[o])[j] # n
      BY <1>5, <3>1, ElementOfSeq, LenProperties DEF n
    <3>3. Occurrences(n, got[o] \o queue[o]) = 0
      BY <3>2, OccursNot
    <3>4. Occurrences(o, targets) \in Nat
      BY <1>3, LenProperties, PlacesFinite
    <3> QED
      BY <1>6, <1>7, <1>9, <2>2, <3>3, <3>4
  <2> QED
    BY <1>6, <2>1, <2>2
<1> QED
  BY <1>2, <1>10, <1>11, <1>12 DEF IInv

LEMMA ResumeKeeps ==
    ASSUME IInv, NEW c \in Changes, Resume(c)
    PROVE  IInv'
<1>0. TypeOK
  BY DEF IInv
<1>1. /\ UNCHANGED <<object, listed, byId>>
      /\ queue' = Put(c, todo[c])
      /\ todo' = [todo EXCEPT ![c] = Rest(todo[c])]
      /\ UNCHANGED <<waiting, due, got>> /\ Changes' = Changes
  BY DEF Resume, Changes
<1>2. /\ Objects' = Objects
      /\ ListedUnderOwn' /\ OnePerId' /\ FoundHasId' /\ PolledAreListed'
  BY <1>1, SubscribersKept
<1>3. /\ todo \in [Changes -> Seq(Objects)]
      /\ queue \in [Objects -> Seq(Changes)] /\ got \in [Objects -> Seq(Changes)]
  BY <1>0 DEF TypeOK
<1>4. todo[c] \in Seq(Objects) /\ NoRepeat(todo[c])
  BY <1>3 DEF IInv, OwedOnce
<1>5. Rest(todo[c]) \in Seq(Objects) /\ NoRepeat(Rest(todo[c]))
  BY <1>4, RestIsOwed
<1>6. /\ queue' \in [Objects -> Seq(Changes)]
      /\ \A o \in Objects :
            /\ Occurrences(c, got[o] \o queue'[o]) + Occurrences(o, Rest(todo[c]))
                 = Occurrences(c, got[o] \o queue[o]) + Occurrences(o, todo[c])
            /\ \A x : x # c => Occurrences(x, got[o] \o queue'[o])
                                 = Occurrences(x, got[o] \o queue[o])
  <2> DEFINE n == c
             targets == todo[c]
  <2>1. targets \in Seq(Objects) /\ NoRepeat(targets)
    BY <1>4
  <2>2. queue' = Put(n, targets) /\ n \in Changes /\ n = c
    BY <1>1
  <2>3. targets = todo[c]
    OBVIOUS
  <2> HIDE DEF n, targets
  <2>4. \A C : n \in C /\ queue \in [Objects -> Seq(C)] /\ got \in [Objects -> Seq(C)] =>
           /\ Put(n, targets) \in [Objects -> Seq(C)]
           /\ \A o \in Objects :
                 /\ Occurrences(n, got[o] \o Put(n, targets)[o]) + Occurrences(o, Rest(targets))
                      = Occurrences(n, got[o] \o queue[o]) + Occurrences(o, targets)
                 /\ \A x : x # n => Occurrences(x, got[o] \o Put(n, targets)[o])
                                      = Occurrences(x, got[o] \o queue[o])
    BY <2>1, PutServes
  <2> QED
    BY <1>3, <2>2, <2>3, <2>4
<1>7. TypeOK'
  <2>1. \A o \in Objects : Len(queue'[o]) <= Capacity
    BY <1>0, <1>1, <1>3, <1>4, PutFits DEF TypeOK
  <2> QED
    BY <1>0, <1>1, <1>2, <1>5, <1>6, <2>1 DEF TypeOK
<1>8. OwedOnce'
  <2> SUFFICES ASSUME NEW d \in Changes PROVE NoRepeat(todo'[d])
    BY <1>1 DEF OwedOnce, NoRepeat
  <2> QED
    BY <1>1, <1>3, <1>5 DEF IInv, OwedOnce
<1>9. ExactlyOnce'
  <2> SUFFICES ASSUME NEW d \in Changes, NEW o \in Objects
               PROVE  Occurrences(d, got[o] \o queue'[o]) + Occurrences(o, todo'[d])
                        = Occurrences(o, due[d])
    BY <1>1, <1>2, AddsUp
  <2>1. Occurrences(d, got[o] \o queue[o]) + Occurrences(o, todo[d]) = Occurrences(o, due[d])
    BY DEF IInv, ExactlyOnce
  <2>2. CASE d = c
    BY <1>1, <1>3, <1>6, <2>1, <2>2
  <2>3. CASE d # c
    BY <1>1, <1>3, <1>6, <2>1, <2>3
  <2> QED
    BY <2>2, <2>3
<1> QED
  BY <1>2, <1>7, <1>8, <1>9 DEF IInv

\* Draining moves a queue to what was polled; whoever waits then is an object.
LEMMA DrainKeeps ==
    ASSUME IInv, NEW o \in Objects, Drain(o), waiting' \in SUBSET Objects
    PROVE  IInv'
<1>0. TypeOK
  BY DEF IInv
<1>1. /\ UNCHANGED <<object, listed, byId, due, todo>> /\ Changes' = Changes
      /\ queue' = [queue EXCEPT ![o] = <<>>]
      /\ got' = [got EXCEPT ![o] = got[o] \o queue[o]]
  BY DEF Drain, Changes
<1>2. /\ Objects' = Objects
      /\ ListedUnderOwn' /\ OnePerId' /\ FoundHasId' /\ PolledAreListed'
  BY <1>1, SubscribersKept
<1>3. queue \in [Objects -> Seq(Changes)] /\ got \in [Objects -> Seq(Changes)]
  BY <1>0 DEF TypeOK
<1>4. got[o] \o queue[o] \in Seq(Changes) /\ (got[o] \o queue[o]) \o <<>> = got[o] \o queue[o]
  BY <1>3, ConcatProperties, ConcatEmptySeq
<1>5. TypeOK'
  <2>1. queue' \in [Objects -> Seq(Changes)] /\ got' \in [Objects -> Seq(Changes)]
    BY <1>1, <1>3, <1>4
  <2>2. \A p \in Objects : Len(queue'[p]) <= Capacity
    <3>1. Len(<<>>) <= Capacity
      BY WatcherAssumption
    <3> QED
      BY <1>0, <1>1, <3>1 DEF TypeOK
  <2> QED
    BY <1>0, <1>1, <1>2, <2>1, <2>2 DEF TypeOK
<1>6. \A p \in Objects : got'[p] \o queue'[p] = got[p] \o queue[p]
  BY <1>1, <1>3, <1>4
<1>7. OwedOnce' /\ ExactlyOnce'
  <2>1. OwedOnce'
    BY <1>1 DEF IInv, OwedOnce
  <2> SUFFICES ASSUME NEW c \in Changes, NEW p \in Objects
               PROVE  Occurrences(c, got'[p] \o queue'[p]) + Occurrences(p, todo[c])
                        = Occurrences(p, due[c])
    BY <1>1, <1>2, <2>1, AddsUp
  <2> QED
    BY <1>6 DEF IInv, ExactlyOnce
<1> QED
  BY <1>2, <1>5, <1>7 DEF IInv

\* Waiting concerns the polls only.
LEMMA WaitingKeeps ==
    ASSUME IInv, waiting' \in SUBSET Objects,
           UNCHANGED <<object, listed, byId, queue, due, todo, got>>
    PROVE  IInv'
<1>1. /\ Objects' = Objects
      /\ ListedUnderOwn' /\ OnePerId' /\ FoundHasId' /\ PolledAreListed'
  BY SubscribersKept
<1>2. Changes' = Changes
  BY DEF Changes
<1>3. TypeOK'
  BY <1>1, <1>2 DEF IInv, TypeOK
<1>4. OwedOnce' /\ ExactlyOnce'
  BY OwedKept DEF IInv
<1> QED
  BY <1>1, <1>3, <1>4 DEF IInv

LEMMA StepKeeps == IInv /\ [Next]_vars => IInv'
<1> SUFFICES ASSUME IInv, [Next]_vars PROVE IInv'
  OBVIOUS
<1>0. waiting \in SUBSET Objects /\ byId \in [SubscriberIds -> Objects \cup {Unknown}]
  BY DEF IInv, TypeOK
<1>1. ASSUME NEW i \in SubscriberIds, NEW t \in Topics, Subscribe(i, t) PROVE IInv'
  BY <1>1, SubscribeKeeps
<1>2. ASSUME NEW i \in SubscriberIds, Unsubscribe(i) PROVE IInv'
  BY <1>2, UnsubscribeKeeps
<1>3. ASSUME NEW s \in Services, Change(s) PROVE IInv'
  BY <1>3, ChangeKeeps
<1>4. ASSUME NEW c \in Changes, Resume(c) PROVE IInv'
  BY <1>4, ResumeKeeps
<1>5. ASSUME NEW i \in SubscriberIds, GetEvents(i) PROVE IInv'
  <2>1. byId[i] \in Objects /\ Drain(byId[i]) /\ waiting' \in SUBSET Objects
    BY <1>0, <1>5 DEF GetEvents
  <2> QED
    BY <2>1, DrainKeeps
<1>6. ASSUME NEW i \in SubscriberIds, AwaitEvents(i) PROVE IInv'
  <2>1. waiting' \in SUBSET Objects /\ UNCHANGED <<object, listed, byId, queue, due, todo, got>>
    BY <1>0, <1>6 DEF AwaitEvents
  <2> QED
    BY <2>1, WaitingKeeps
<1>7. ASSUME NEW o \in waiting, ReceiveEvents(o) PROVE IInv'
  <2>1. o \in Objects /\ Drain(o) /\ waiting' \in SUBSET Objects
    BY <1>0, <1>7 DEF ReceiveEvents
  <2> QED
    BY <2>1, DrainKeeps
<1>8. ASSUME NEW o \in waiting, TimeOut(o) PROVE IInv'
  <2>1. waiting' \in SUBSET Objects /\ UNCHANGED <<object, listed, byId, queue, due, todo, got>>
    BY <1>0, <1>8 DEF TimeOut
  <2> QED
    BY <2>1, WaitingKeeps
<1>9. CASE UNCHANGED vars
  <2>1. waiting' \in SUBSET Objects /\ UNCHANGED <<object, listed, byId, queue, due, todo, got>>
    BY <1>0, <1>9 DEF vars
  <2> QED
    BY <2>1, WaitingKeeps
<1> QED
  BY <1>1, <1>2, <1>3, <1>4, <1>5, <1>6, <1>7, <1>8, <1>9 DEF Next

-----------------------------------------------------------------------------
LEMMA Inductive == Spec => []IInv
  BY InitHolds, StepKeeps, PTL DEF Spec

\* The variables keep their types: whatever subscribes, changes and polls, an
\* object that is listed, found, waited for or owed something exists, and no queue
\* holds more than its capacity.
THEOREM TypeCorrect == Spec => []TypeOK
<1>1. IInv => TypeOK
  BY DEF IInv
<1> QED
  BY <1>1, Inductive, PTL

\* Every change reaches each of its targets exactly once, with any number of
\* clients, changes and waiting notifications and any size of the queues: what is
\* owed, queued and polled of it always adds up to what was due.
THEOREM AlwaysExactlyOnce == Spec => []ExactlyOnce
<1>1. IInv => ExactlyOnce
  BY DEF IInv
<1> QED
  BY <1>1, Inductive, PTL

\* A client that can poll is notified, through every sequence of subscribing,
\* subscribing again under another topic and unsubscribing.
THEOREM PolledAlwaysListed == Spec => []PolledAreListed
<1>1. IInv => PolledAreListed
  BY DEF IInv
<1> QED
  BY <1>1, Inductive, PTL
=============================================================================
