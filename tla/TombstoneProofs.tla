--------------------------- MODULE TombstoneProofs ---------------------------
(***************************************************************************)
(* Theorems about replicated registries whose tombstones expire (module    *)
(* TombstoneGC), for any nodes, keys, bounds and times.                    *)
(*                                                                         *)
(* The proof that a removal lasts does not look into registries: an        *)
(* operation on a key is a `Writes' of it, every other step is an `Onward' *)
(* for it, and both are told by what nodes show and by what is on its way. *)
(***************************************************************************)
EXTENDS TombstoneGC, ReplicationProofs

USE DEF histories, clocks

\* An entry that says its instance is deregistered.
Tombstone(e) == e # Absent /\ e.content = Absent

\* Entry y is newer than what shows x.
Outdated(x, y) == x = Absent \/ x.version < y.version

\* What any node shows, queues or has sent for each key.
Around ==
    [k \in Keys |->
        {e \in Entry :
            \/ \E n \in Nodes : e = View(reg[n], k)
            \/ \E n \in Nodes : \E d \in queue[n] : e = Offer(d, k)
            \/ \E m \in network : e = Offer(m, k)}]

\* A datagram with the full state of node n.
FullOf(m, n) == m.kind \in {"SYNC", "ACK"} /\ m.src = n

-----------------------------------------------------------------------------
(* What the steps are for a key. *)

\* A step that writes nothing for k.  Nodes take over what is around, never
\* something older where a tombstone is shown or at the home of a key that is not
\* contested, or drop a tombstone that is old enough; a tombstone taken over gets a
\* new timestamp.
Onward(k) ==
    LET h == Home[k]
        i == IdOf[k]
    IN  /\ gone'[k] = gone[k] /\ (k \in contested' <=> k \in contested)
        /\ Around'[k] \subseteq Around[k] /\ written[k] \subseteq written'[k]
        /\ \A n \in Nodes :
              /\ \/ Shows'[n][k] = Shows[n][k]
                 \/ /\ Shows'[n][k] = Absent
                    /\ Tombstone(Shows[n][k]) /\ age[n][i] > TombstoneTTL
                 \/ /\ Shows'[n][k] \in Around[k]
                    /\ (n = h /\ k \notin contested) \/ Tombstone(Shows[n][k]) =>
                          Outdated(Shows[n][k], Shows'[n][k])
              /\ Tombstone(Shows'[n][k]) =>
                    age'[n][i] = IF Shows'[n][k] = Shows[n][k] THEN age[n][i] ELSE 0
        /\ \A n \in Nodes \ {h} :
              \/ heard'[n][h] = heard[n][h]
              \/ \E m \in network :
                    /\ FullOf(m, h)
                    /\ Shows'[n][k] = Newest(Shows[n][k], View(m.state, k))
        /\ \A m \in network' :
              FullOf(m, h) => m \in network \/ View(m.state, k) = Shows'[h][k]
        /\ \A n \in Nodes : \A d \in queue'[n] :
              Offer(d, k) = Absent \/ (d \in queue[n] /\ waited'[n] = waited[n])

\* An operation on k at node n: something newer is shown there.  If the key is not
\* contested then, the node is its home, and what it shows is the newest, unless the
\* key was not contested before either.
Writes(n, k) ==
    LET i == IdOf[k]
        e == Shows'[n][k]
    IN  /\ e \in Entry
        /\ Outdated(Shows[n][k], e)
        /\ e \in Around'[k] /\ Around'[k] \subseteq Around[k] \cup {e}
        /\ written[k] \cup {e} \subseteq written'[k]
        /\ \A p \in Nodes \ {n} :
              /\ Shows'[p][k] = Shows[p][k]
              /\ Tombstone(Shows[p][k]) => age'[p][i] = age[p][i]
        /\ Tombstone(e) => age'[n][i] = 0
        /\ heard' = heard
        /\ network' = network
        /\ \A p \in Nodes : \A d \in queue'[p] :
              \/ Offer(d, k) \in {Absent, e}
              \/ d \in queue[p] /\ waited'[p] = waited[p]
        /\ k \notin contested' =>
              /\ n = Home[k]
              /\ k \notin contested \/ \A old \in Around[k] : old.version < e.version

-----------------------------------------------------------------------------
(* The invariant, per key. *)

\* The home of k shows nothing older than anything around.
HomeAhead(k) ==
    LET x == Shows[Home[k]][k]
    IN  x # Absent => \A e \in Around[k] : e = x \/ e.version < x.version

\* All that is around is one tombstone.
Settled(k) == \A e, f \in Around[k] : Tombstone(e) /\ e = f

NoneLive(k) == \A e \in Around[k] : Tombstone(e)

\* A tombstone of version D or above.
AtLeast(e, D) == Tombstone(e) /\ e.version >= D

\* The tombstones of version D and above are at most t old, outrank the instances
\* that are still around, and are kept at the home and wherever its state has been
\* merged since.
Spread(k, D, t) ==
    LET h == Home[k]
    IN  /\ AtLeast(Shows[h][k], D)
        /\ \A e \in Around[k] : Tombstone(e) \/ e.version < D
        /\ \A n \in Nodes : AtLeast(Shows[n][k], D) => age[n][IdOf[k]] <= t
        /\ \A n \in Nodes \ {h} : heard[n][h] < t => AtLeast(Shows[n][k], D)
        /\ \A m \in network : FullOf(m, h) /\ t > 0 => AtLeast(View(m.state, k), D)

\* The deltas that offer no tombstone of version D or above wait in queues in which
\* some delta has waited since t ago.
OldWaits(k, D, t) ==
    \A n \in Nodes : \A d \in queue[n] :
        Offer(d, k) = Absent \/ AtLeast(Offer(d, k), D) \/ waited[n] >= t

\* Before its tombstone is old enough to be dropped, the home has told all nodes.
HomeTellsInTime(k) ==
    LET h == Home[k]
        x == Shows[h][k]
        t == age[h][IdOf[k]]
    IN  /\ x = Absent => Settled(k)
        /\ Tombstone(x) =>
              \/ Settled(k)
              \/ t <= TombstoneTTL /\ Spread(k, x.version, t) /\ OldWaits(k, x.version, t)

\* Since a removal its tombstone spreads, until no instance is left.
GoneSpreads(k) ==
    gone[k] # Absent =>
        \/ NoneLive(k)
        \/ /\ gone[k] <= MaxApart
           /\ \E D \in Nat : Spread(k, D, gone[k])
           /\ OldWaits(k, 0, gone[k])

Lasting(k) ==
    /\ k \notin contested => HomeAhead(k) /\ HomeTellsInTime(k)
    /\ GoneSpreads(k)

-----------------------------------------------------------------------------
(* Types. *)

\* What is known of the types of all that the invariant speaks about.
Typed ==
    /\ TypeOK
    /\ Shows \in [Nodes -> [Keys -> Entry \cup {Absent}]]
    /\ Around \in [Keys -> SUBSET Entry]
    /\ \A n \in Nodes, k \in Keys : Shows[n][k] # Absent => Shows[n][k] \in Around[k]
    /\ \A m \in network, n \in Nodes, k \in Keys :
          FullOf(m, n) /\ View(m.state, k) # Absent => View(m.state, k) \in Around[k]
    /\ TimeTypeOK

LEMMA TypedHolds == TypeOK /\ TimeTypeOK => Typed
<1> SUFFICES ASSUME TypeOK, TimeTypeOK PROVE Typed
  OBVIOUS
<1>1. \A n \in Nodes, k \in Keys : View(reg[n], k) \in Entry \cup {Absent}
  BY ViewType DEF TypeOK
<1>2. Around \in [Keys -> SUBSET Entry]
  BY DEF Around
<1>3. \A n \in Nodes, k \in Keys : Shows[n][k] # Absent => Shows[n][k] \in Around[k]
  BY <1>1 DEF Shows, Around
<1>4. ASSUME NEW m \in network, NEW n \in Nodes, NEW k \in Keys, FullOf(m, n),
             View(m.state, k) # Absent
      PROVE  View(m.state, k) \in Around[k]
  <2>1. View(m.state, k) \in Entry
    BY <1>4, ViewType DEF TypeOK, Message
  <2>2. Offer(m, k) = View(m.state, k)
    BY <1>4 DEF Offer, FullOf
  <2> QED
    BY <2>1, <2>2 DEF Around
<1> QED
  BY <1>1, <1>2, <1>3, <1>4 DEF Typed, Shows

\* A registry shows a tombstone where it keeps one and no instance.
LEMMA TombstoneShown ==
    ASSUME NEW r \in Registry, NEW k \in Keys
    PROVE  /\ Tombstone(View(r, k)) <=> ~Live(r, k) /\ Buried(r, k)
           /\ Tombstone(View(r, k)) =>
                 /\ r.tomb[IdOf[k]] \in Version
                 /\ View(r, k) = [version |-> r.tomb[IdOf[k]], content |-> Absent]
<1>1. CASE Live(r, k)
  <2>1. r.inst[k].status \in Status
    BY <1>1, EntryTypes DEF Instance
  <2>2. View(r, k).content = r.inst[k].status
    BY <1>1 DEF View
  <2> QED
    BY <1>1, <2>1, <2>2, RegistryAssumption DEF Tombstone
<1>2. CASE ~Live(r, k) /\ Buried(r, k)
  <2>1. View(r, k) = [version |-> r.tomb[IdOf[k]], content |-> Absent]
    BY <1>2 DEF View
  <2> QED
    BY <1>2, <2>1, EntryTypes, ViewType DEF Tombstone
<1>3. CASE ~Live(r, k) /\ ~Buried(r, k)
  BY <1>3, ViewType DEF Tombstone
<1> QED
  BY <1>1, <1>2, <1>3

LEMMA EntryIs ==
    ASSUME NEW e \in Entry
    PROVE  e # Absent /\ e.version \in Nat /\ (Tombstone(e) <=> e.content = Absent)
    BY RegistryAssumption DEF Entry, Version, Tombstone

\* The home of a key and the time bounds.
LEMMA Given ==
    ASSUME NEW k \in Keys
    PROVE  /\ Home[k] \in Nodes /\ IdOf[k] \in Ids
           /\ TombstoneTTL \in Nat /\ MaxApart \in Nat \ {0} /\ Absent \notin Nat
    BY HomeIs, RegistryAssumption, TombstoneAssumption

-----------------------------------------------------------------------------
(* Steps that write nothing for the key. *)

LEMMA SpreadStays ==
    ASSUME TombstonesOutlivePartitions, Typed, Typed', NEW k \in Keys,
           NEW D \in Nat, NEW t \in Nat, t <= TombstoneTTL, Spread(k, D, t), Onward(k)
    PROVE  Spread(k, D, t)'
<1> DEFINE h == Home[k]
           i == IdOf[k]
<1>0. h \in Nodes /\ i \in Ids /\ TombstoneTTL \in Nat
  BY Given
<1>1. /\ \A n \in Nodes : Shows[n][k] \in Entry \cup {Absent}
      /\ \A n \in Nodes : Shows'[n][k] \in Entry \cup {Absent}
      /\ Around[k] \subseteq Entry /\ Around'[k] \subseteq Around[k]
      /\ \A n \in Nodes : age[n][i] \in Nat /\ age'[n][i] \in Nat
      /\ \A n \in Nodes : heard[n][h] \in Nat /\ heard'[n][h] \in Nat
  BY <1>0 DEF Typed, TimeTypeOK, Onward
<1>2. \A e \in Around[k] : e # Absent /\ e.version \in Nat /\ (Tombstone(e) \/ e.version < D)
  BY <1>1, EntryIs DEF Spread
<1>3. ASSUME NEW n \in Nodes, AtLeast(Shows[n][k], D)
      PROVE  AtLeast(Shows'[n][k], D)
  <2>1. age[n][i] <= t /\ Shows[n][k].version \in Nat /\ Tombstone(Shows[n][k])
    BY <1>0, <1>1, <1>3, EntryIs DEF Spread, AtLeast, Tombstone
  <2>2. \/ Shows'[n][k] = Shows[n][k]
        \/ Shows'[n][k] \in Around[k] /\ Outdated(Shows[n][k], Shows'[n][k])
    BY <1>0, <1>1, <2>1 DEF Onward
  <2> QED
    BY <1>2, <1>3, <2>1, <2>2 DEF AtLeast, Outdated, Tombstone
<1>4. ASSUME NEW n \in Nodes, AtLeast(Shows'[n][k], D)
      PROVE  age'[n][i] <= t
  BY <1>0, <1>1, <1>4 DEF Onward, Spread, AtLeast
<1>5. ASSUME NEW n \in Nodes \ {h}, heard'[n][h] < t
      PROVE  AtLeast(Shows'[n][k], D)
  <2>1. CASE heard'[n][h] = heard[n][h]
    BY <1>3, <1>5, <2>1 DEF Spread
  <2>2. ASSUME NEW m \in network, FullOf(m, h),
               Shows'[n][k] = Newest(Shows[n][k], View(m.state, k))
        PROVE  AtLeast(Shows'[n][k], D)
    <3>1. AtLeast(View(m.state, k), D)
      BY <1>0, <1>1, <1>5, <2>2 DEF Spread
    <3>2. CASE Shows'[n][k] = View(m.state, k)
      BY <3>1, <3>2
    <3>3. CASE Shows'[n][k] # View(m.state, k)
      <4>1. /\ Shows'[n][k] = Shows[n][k] /\ Shows[n][k] # Absent
            /\ ~(Shows[n][k].version < View(m.state, k).version)
        BY <2>2, <3>1, <3>3 DEF Newest, AtLeast, Tombstone
      <4>2. Shows[n][k] \in Around[k]
        BY <4>1 DEF Typed
      <4>3. View(m.state, k).version \in Nat
        BY <1>0, <1>2, <2>2, <3>1 DEF Typed, AtLeast, Tombstone
      <4> QED
        BY <1>2, <3>1, <4>1, <4>2, <4>3 DEF AtLeast
    <3> QED
      BY <3>2, <3>3
  <2> QED
    BY <1>0, <2>1, <2>2 DEF Onward
<1>6. ASSUME NEW m \in network', FullOf(m, h), t > 0
      PROVE  AtLeast(View(m.state, k), D)
  <2>1. m \in network \/ View(m.state, k) = Shows'[h][k]
    BY <1>6 DEF Onward
  <2>2. AtLeast(Shows'[h][k], D)
    BY <1>0, <1>3 DEF Spread
  <2> QED
    BY <1>6, <2>1, <2>2 DEF Spread
<1>7. \A e \in Around'[k] : Tombstone(e) \/ e.version < D
  BY <1>1, <1>2
<1>8. AtLeast(Shows'[h][k], D)
  BY <1>0, <1>3 DEF Spread
<1> HIDE DEF h
<1> QED
  BY <1>4, <1>5, <1>6, <1>7, <1>8 DEF Spread, h, FullOf

LEMMA OldWaitsStays ==
    ASSUME Typed, NEW k \in Keys, NEW D \in Nat, NEW t \in Nat, OldWaits(k, D, t), Onward(k)
    PROVE  OldWaits(k, D, t)'
<1> SUFFICES ASSUME NEW n \in Nodes, NEW d \in queue'[n]
             PROVE  Offer(d, k) = Absent \/ AtLeast(Offer(d, k), D) \/ waited'[n] >= t
  BY DEF OldWaits, Offer
<1>1. Offer(d, k) = Absent \/ (d \in queue[n] /\ waited'[n] = waited[n])
  BY DEF Onward
<1> QED
  BY <1>1 DEF OldWaits

\* While k is not contested, its home stays ahead and tells in time.
LEMMA OnwardTells ==
    ASSUME TombstonesOutlivePartitions, Typed, Typed', NEW k \in Keys,
           k \notin contested, HomeAhead(k), HomeTellsInTime(k), Onward(k)
    PROVE  HomeAhead(k)' /\ HomeTellsInTime(k)'
<1> DEFINE h == Home[k]
           i == IdOf[k]
           x == Shows[h][k]
           y == Shows'[h][k]
<1>0. h \in Nodes /\ i \in Ids /\ TombstoneTTL \in Nat
  BY Given
<1>1. /\ x \in Entry \cup {Absent} /\ y \in Entry \cup {Absent}
      /\ Around[k] \subseteq Entry /\ Around'[k] \subseteq Around[k]
      /\ age[h][i] \in Nat /\ age'[h][i] \in Nat
  BY <1>0 DEF Typed, TimeTypeOK, Onward
<1>2. \A e \in Around[k] : e # Absent /\ e.version \in Nat
  BY <1>1, EntryIs
<1>3. /\ x # Absent => x \in Around[k] /\ x.version \in Nat
      /\ y # Absent => y \in Around'[k]
  BY <1>0, <1>2 DEF Typed
<1>4. \/ y = x
      \/ y = Absent /\ Tombstone(x) /\ age[h][i] > TombstoneTTL
      \/ y \in Around[k] /\ Outdated(x, y)
  BY <1>0 DEF Onward
<1>5. y # x /\ y # Absent => x = Absent
  BY <1>2, <1>3, <1>4 DEF HomeAhead, Outdated
<1>6. Settled(k) => Settled(k)'
  BY <1>1 DEF Settled
<1>7. x = Absent => Settled(k)
  BY DEF HomeTellsInTime
<1>8. HomeAhead(k)'
  <2>1. CASE y = x
    BY <1>1, <2>1 DEF HomeAhead
  <2>2. CASE y # x /\ y # Absent
    BY <1>1, <1>3, <1>5, <1>7, <2>2 DEF HomeAhead, Settled
  <2>3. CASE y = Absent
    BY <2>3 DEF HomeAhead
  <2> QED
    BY <2>1, <2>2, <2>3
<1>9. HomeTellsInTime(k)'
  <2>1. CASE y = x
    <3>1. Tombstone(x) => age'[h][i] = age[h][i]
      BY <1>0, <2>1 DEF Onward
    <3>2. ASSUME Tombstone(x), ~Settled(k)
          PROVE  /\ age'[h][i] <= TombstoneTTL
                 /\ Spread(k, x.version, age[h][i])' /\ OldWaits(k, x.version, age[h][i])'
      <4>1. /\ age[h][i] <= TombstoneTTL
            /\ Spread(k, x.version, age[h][i]) /\ OldWaits(k, x.version, age[h][i])
        BY <3>2 DEF HomeTellsInTime
      <4>2. x.version \in Nat
        BY <1>3, <3>2 DEF Tombstone
      <4>3. PICK D \in Nat, t \in Nat : D = x.version /\ t = age[h][i]
        BY <1>1, <4>2
      <4>4. Spread(k, D, t)' /\ OldWaits(k, D, t)'
        BY <4>1, <4>3, SpreadStays, OldWaitsStays
      <4>5. D = y.version /\ t = age'[h][i]
        BY <2>1, <3>1, <3>2, <4>3
      <4> QED
        BY <4>1, <4>3, <4>4, <4>5 DEF Spread, OldWaits
    <3> QED
      BY <1>6, <1>7, <2>1, <3>2 DEF HomeTellsInTime
  <2>2. CASE y # x
    <3>1. Settled(k)
      BY <1>0, <1>1, <1>2, <1>4, <1>5, <1>7, <2>2 DEF HomeTellsInTime
    <3> QED
      BY <1>6, <3>1 DEF HomeTellsInTime
  <2> QED
    BY <2>1, <2>2
<1> QED
  BY <1>8, <1>9

LEMMA OnwardKeeps ==
    ASSUME TombstonesOutlivePartitions, Typed, Typed', NEW k \in Keys,
           Lasting(k), Onward(k)
    PROVE  Lasting(k)'
<1>0. TombstoneTTL \in Nat /\ MaxApart \in Nat
  BY Given
<1>1. /\ gone[k] \in Nat \cup {Absent} /\ gone'[k] = gone[k]
      /\ Around'[k] \subseteq Around[k]
  BY <1>0 DEF Typed, TimeTypeOK, Onward
<1>2. k \notin contested' => HomeAhead(k)' /\ HomeTellsInTime(k)'
  <2>1. CASE k \notin contested
    BY <2>1, OnwardTells DEF Lasting
  <2>2. CASE k \in contested
    BY <2>2 DEF Onward
  <2> QED
    BY <2>1, <2>2
<1>3. GoneSpreads(k)'
  <2>1. NoneLive(k) => NoneLive(k)'
    BY <1>1 DEF NoneLive
  <2>2. ASSUME gone[k] # Absent, gone[k] <= MaxApart, OldWaits(k, 0, gone[k]),
               NEW D \in Nat, Spread(k, D, gone[k])
        PROVE  (\E E \in Nat : Spread(k, E, gone[k])') /\ OldWaits(k, 0, gone[k])'
    <3>1. PICK t \in Nat : t = gone[k]
      BY <1>1, <2>2
    <3>2. t <= TombstoneTTL
      BY <1>0, <2>2, <3>1 DEF TombstonesOutlivePartitions
    <3>3. Spread(k, D, t)' /\ OldWaits(k, 0, t)'
      BY <2>2, <3>1, <3>2, SpreadStays, OldWaitsStays
    <3> QED
      BY <1>1, <3>1, <3>3 DEF Spread, OldWaits
  <2> QED
    BY <1>1, <2>1, <2>2 DEF Lasting, GoneSpreads
<1> QED
  BY <1>2, <1>3 DEF Lasting

-----------------------------------------------------------------------------
(* Operations on the key. *)

\* An operation after which k is not contested is newer than all that was around.
LEMMA WritesAhead ==
    ASSUME Typed, NEW k \in Keys, NEW n \in Nodes, Lasting(k), Writes(n, k),
           k \notin contested', Shows[n][k] # Absent \/ Around[k] = {}
    PROVE  /\ n = Home[k]
           /\ HomeAhead(k)'
           /\ \A e \in Around[k] : e \in Entry /\ e.version < Shows'[n][k].version
<1> DEFINE x == Shows[n][k]
           y == Shows'[n][k]
<1>1. /\ y \in Entry /\ Around[k] \subseteq Entry /\ n = Home[k]
      /\ Around'[k] \subseteq Around[k] \cup {y} /\ Outdated(x, y)
  BY DEF Typed, Writes
<1>2. y.version \in Nat /\ \A e \in Around[k] : e.version \in Nat
  BY <1>1, EntryIs
<1>3. \A e \in Around[k] : e.version < y.version
  <2>1. CASE Around[k] = {}
    BY <2>1
  <2>2. CASE x # Absent /\ k \notin contested
    <3>1. x \in Around[k]
      BY <2>2 DEF Typed
    <3> QED
      BY <1>1, <1>2, <2>2, <3>1 DEF Lasting, HomeAhead, Outdated
  <2>3. CASE k \in contested
    BY <2>3 DEF Writes
  <2> QED
    BY <2>1, <2>2, <2>3
<1> QED
  BY <1>1, <1>3 DEF HomeAhead

\* A new tombstone starts to spread.
LEMMA TombstoneStarts ==
    ASSUME Typed, Typed', NEW k \in Keys, Writes(Home[k], k),
           Tombstone(Shows'[Home[k]][k]),
           \A e \in Around[k] : e \in Entry /\ e.version < Shows'[Home[k]][k].version,
           NEW D \in Nat, D = Shows'[Home[k]][k].version, NEW t \in Nat, t = 0, NEW F \in Nat
    PROVE  Spread(k, D, t)' /\ OldWaits(k, F, t)'
<1> DEFINE h == Home[k]
           y == Shows'[h][k]
<1>0. h \in Nodes /\ IdOf[k] \in Ids
  BY Given
<1>1. \A e \in Around[k] : e \in Entry /\ e.version < D
  OBVIOUS
<1>2. \A n \in Nodes \ {h} : ~AtLeast(Shows'[n][k], D)
  <2> SUFFICES ASSUME NEW n \in Nodes \ {h}, AtLeast(Shows[n][k], D) PROVE FALSE
    BY DEF Writes
  <2>1. Shows[n][k] \in Around[k]
    BY DEF Typed, AtLeast, Tombstone
  <2>2. Shows[n][k].version \in Nat /\ Shows[n][k].version < D
    BY <1>1, <2>1, EntryIs
  <2> QED
    BY <2>2 DEF AtLeast
<1>3. age'[h][IdOf[k]] = 0
  BY DEF Writes
<1>4. \A n \in Nodes : AtLeast(Shows'[n][k], D) => age'[n][IdOf[k]] <= t
  BY <1>2, <1>3
<1>5. \A e \in Around'[k] : Tombstone(e) \/ e.version < D
  BY <1>1 DEF Writes
<1>6. AtLeast(y, D)
  BY DEF AtLeast
<1>7. /\ \A n \in Nodes \ {h} : heard'[n][h] \in Nat
      /\ \A n \in Nodes : waited'[n] >= 0
  BY <1>0 DEF Typed, TimeTypeOK
<1>8. OldWaits(k, F, t)'
  BY <1>7 DEF OldWaits
<1> HIDE DEF h
<1> QED
  BY <1>4, <1>5, <1>6, <1>7, <1>8 DEF Spread, h

\* Registering an instance or changing its status.
LEMMA InstanceKeeps ==
    ASSUME Typed, Typed', NEW k \in Keys, NEW n \in Nodes, Lasting(k), Writes(n, k),
           k \notin contested' => Shows[n][k] # Absent \/ Around[k] = {},
           ~Tombstone(Shows'[n][k]), gone'[k] = Absent
    PROVE  Lasting(k)'
<1>1. Shows'[n][k] # Absent
  BY EntryIs DEF Writes
<1>2. k \notin contested' => n = Home[k] /\ HomeAhead(k)'
  BY WritesAhead
<1> QED
  BY <1>1, <1>2 DEF Lasting, HomeTellsInTime, GoneSpreads

\* Another removal: the tombstone of an earlier one goes on spreading.
LEMMA RemovalSpreads ==
    ASSUME Typed, Typed', NEW k \in Keys, NEW n \in Nodes, Writes(n, k),
           Tombstone(Shows'[n][k]), NEW E \in Nat, NEW g \in Nat,
           Spread(k, E, g), OldWaits(k, 0, g)
    PROVE  Spread(k, E, g)' /\ OldWaits(k, 0, g)'
<1> DEFINE h == Home[k]
           x == Shows[n][k]
           y == Shows'[n][k]
<1>0. /\ h \in Nodes /\ IdOf[k] \in Ids
      /\ y \in Entry /\ y.version \in Nat /\ Around'[k] \subseteq Around[k] \cup {y}
      /\ Outdated(x, y)
      /\ \A p \in Nodes \ {n} : Shows'[p][k] = Shows[p][k]
  BY Given, EntryIs DEF Writes
<1>1. AtLeast(x, E) => AtLeast(y, E)
  <2> SUFFICES ASSUME AtLeast(x, E) PROVE AtLeast(y, E)
    OBVIOUS
  <2>1. x # Absent /\ x.version >= E /\ x \in Around[k]
    BY DEF AtLeast, Tombstone, Typed
  <2>2. x.version \in Nat
    BY <2>1, EntryIs DEF Typed
  <2> QED
    BY <1>0, <2>1, <2>2 DEF AtLeast, Outdated
<1>2. \A p \in Nodes : AtLeast(Shows[p][k], E) => AtLeast(Shows'[p][k], E)
  BY <1>0, <1>1
<1>3. \A e \in Around'[k] : Tombstone(e) \/ e.version < E
  BY <1>0 DEF Spread
<1>4. ASSUME NEW p \in Nodes, AtLeast(Shows'[p][k], E) PROVE age'[p][IdOf[k]] <= g
  <2>1. CASE p = n
    BY <2>1 DEF Writes
  <2>2. CASE p # n
    BY <1>0, <1>4, <2>2 DEF Writes, Spread, AtLeast
  <2> QED
    BY <2>1, <2>2
<1>5. heard' = heard /\ network' = network
  BY DEF Writes
<1>6. OldWaits(k, 0, g)'
  <2> SUFFICES ASSUME NEW p \in Nodes, NEW d \in queue'[p]
               PROVE  Offer(d, k) = Absent \/ AtLeast(Offer(d, k), 0) \/ waited'[p] >= g
    BY DEF OldWaits
  <2>1. AtLeast(y, 0)
    BY <1>0 DEF AtLeast
  <2> QED
    BY <2>1 DEF Writes, OldWaits
<1> HIDE DEF h, y
<1> QED
  BY <1>0, <1>2, <1>3, <1>4, <1>5, <1>6 DEF Spread, h, FullOf

\* Removing an instance or its tombstone's version anew.
LEMMA WithdrawKeeps ==
    ASSUME Typed, Typed', NEW k \in Keys, NEW n \in Nodes, Lasting(k), Writes(n, k),
           Shows[n][k] # Absent, Tombstone(Shows'[n][k]),
           gone'[k] = IF k \in contested' \/ gone[k] # Absent THEN gone[k] ELSE 0
    PROVE  Lasting(k)'
<1> DEFINE y == Shows'[n][k]
<1>0. /\ y \in Entry /\ Absent \notin Nat /\ MaxApart \in Nat /\ TombstoneTTL \in Nat
      /\ gone[k] \in Nat \cup {Absent} /\ Around'[k] \subseteq Around[k] \cup {y}
  BY Given DEF Typed, TimeTypeOK, Writes
<1>1. ASSUME k \notin contested'
      PROVE  /\ HomeAhead(k)' /\ HomeTellsInTime(k)'
             /\ \E D \in Nat : Spread(k, D, 0)'
             /\ OldWaits(k, 0, 0)'
  <2>1. /\ n = Home[k] /\ HomeAhead(k)'
        /\ \A e \in Around[k] : e \in Entry /\ e.version < y.version
    BY <1>1, WritesAhead
  <2>2. PICK D \in Nat, t \in Nat, F \in Nat : D = y.version /\ t = 0 /\ F = 0
    BY <1>0, EntryIs
  <2>3. Spread(k, D, t)' /\ OldWaits(k, D, t)' /\ OldWaits(k, F, t)'
    BY <2>1, <2>2, TombstoneStarts
  <2>4. age'[Home[k]][IdOf[k]] = 0
    BY <2>1 DEF Writes
  <2>5. HomeTellsInTime(k)'
    BY <1>0, <2>1, <2>2, <2>3, <2>4 DEF HomeTellsInTime, Spread, OldWaits, Tombstone
  <2> QED
    BY <2>1, <2>2, <2>3, <2>5 DEF Spread, OldWaits
<1>2. GoneSpreads(k)'
  <2>1. CASE gone'[k] = Absent
    BY <2>1 DEF GoneSpreads
  <2>2. CASE gone[k] = Absent /\ k \notin contested'
    <3>1. gone'[k] = 0
      BY <2>2
    <3> QED
      BY <1>0, <1>1, <2>2, <3>1 DEF GoneSpreads, Spread, OldWaits
  <2>3. CASE gone[k] # Absent /\ NoneLive(k)
    BY <1>0, <2>3 DEF GoneSpreads, NoneLive
  <2>4. ASSUME gone[k] # Absent, gone[k] <= MaxApart, OldWaits(k, 0, gone[k]),
               NEW E \in Nat, Spread(k, E, gone[k])
        PROVE  GoneSpreads(k)'
    <3>1. PICK g \in Nat : g = gone[k]
      BY <1>0, <2>4
    <3>2. Spread(k, E, g)' /\ OldWaits(k, 0, g)'
      BY <2>4, <3>1, RemovalSpreads
    <3>3. gone'[k] = g
      BY <2>4, <3>1
    <3> QED
      BY <2>4, <3>1, <3>2, <3>3 DEF GoneSpreads, Spread, OldWaits
  <2> QED
    BY <2>1, <2>2, <2>3, <2>4 DEF Lasting, GoneSpreads
<1> QED
  BY <1>1, <1>2 DEF Lasting

-----------------------------------------------------------------------------
(* Time. *)

LEMMA TickTells ==
    ASSUME Typed, NEW k \in Keys, Tick, ~severed'
    PROVE  /\ Shows' = Shows /\ Around' = Around
           /\ \A e \in Around[k] :
                 \/ \E n \in Nodes : e = Shows[n][k]
                 \/ \E n \in Nodes : \E d \in queue[n] : e = Offer(d, k)
           /\ network' = {} /\ queue' = queue /\ contested' = contested
           /\ \A n \in Nodes \ {Home[k]} :
                 heard[n][Home[k]] < MaxApart /\ heard'[n][Home[k]] = heard[n][Home[k]] + 1
           /\ \A n \in Nodes : queue[n] # {} =>
                 waited[n] < MaxApart /\ waited'[n] = waited[n] + 1
           /\ \A n \in Nodes : Tombstone(Shows[n][k]) =>
                 age'[n][IdOf[k]] = UpTo(TombstoneTTL + 1, age[n][IdOf[k]])
           /\ gone'[k] = IF gone[k] = Absent THEN Absent ELSE UpTo(MaxApart + 1, gone[k])
<1>0. Home[k] \in Nodes /\ IdOf[k] \in Ids /\ MaxApart \in Nat
  BY Given
<1>1. reg' = reg /\ queue' = queue /\ network' = network /\ contested' = contested
  BY DEF Tick, vars
<1>2. Shows' = Shows /\ Around' = Around
  BY <1>1 DEF Shows, Around
<1>3. \A e \in Around[k] :
         \/ \E n \in Nodes : e = Shows[n][k]
         \/ \E n \in Nodes : \E d \in queue[n] : e = Offer(d, k)
  BY DEF Tick, Around, Shows
<1>4. \A n \in Nodes : Tombstone(Shows[n][k]) => reg[n].tomb[IdOf[k]] # Absent
  BY TombstoneShown DEF Typed, TypeOK, Shows, Buried
<1>5. \A n \in Nodes : Tombstone(Shows[n][k]) =>
                 age'[n][IdOf[k]] = UpTo(TombstoneTTL + 1, age[n][IdOf[k]])
  BY <1>0, <1>4 DEF Tick
<1>6. ~Severs
  BY DEF Tick
<1>7. ASSUME NEW n \in Nodes \ {Home[k]}
      PROVE  heard[n][Home[k]] < MaxApart /\ heard'[n][Home[k]] = heard[n][Home[k]] + 1
  <2>1. heard[n][Home[k]] \in 0 .. MaxApart /\ heard[n][Home[k]] # MaxApart
    BY <1>0, <1>6 DEF Severs, Typed, TimeTypeOK
  <2>2. heard[n][Home[k]] \in Nat /\ heard[n][Home[k]] < MaxApart
    BY <1>0, <2>1
  <2>3. heard'[n][Home[k]] = UpTo(MaxApart, heard[n][Home[k]])
    BY <1>0 DEF Tick
  <2> QED
    BY <2>2, <2>3 DEF UpTo
<1>8. ASSUME NEW n \in Nodes, queue[n] # {}
      PROVE  waited[n] < MaxApart /\ waited'[n] = waited[n] + 1
  <2>1. waited[n] \in 0 .. MaxApart /\ waited[n] # MaxApart
    BY <1>0, <1>6, <1>8 DEF Severs, Typed, TimeTypeOK
  <2>2. waited[n] \in Nat /\ waited[n] < MaxApart
    BY <1>0, <2>1
  <2>3. waited'[n] = UpTo(MaxApart, waited[n])
    BY <1>8 DEF Tick
  <2> QED
    BY <2>2, <2>3 DEF UpTo
<1> QED
  BY <1>1, <1>2, <1>3, <1>5, <1>7, <1>8 DEF Tick

\* A tick ages what spreads; when two nodes cannot have been apart that long and no
\* delta can have waited that long, tombstones are everywhere.
LEMMA SpreadAges ==
    ASSUME Typed, Typed', NEW k \in Keys, Tick, ~severed',
           NEW D \in Nat, NEW F \in Nat, NEW t \in Nat, t <= TombstoneTTL,
           Spread(k, D, t), OldWaits(k, F, t)
    PROVE  /\ Spread(k, D, t + 1)' /\ OldWaits(k, F, t + 1)'
           /\ t >= MaxApart => \A e \in Around[k] : AtLeast(e, D) \/ AtLeast(e, F)
<1> DEFINE h == Home[k]
           i == IdOf[k]
<1>0. h \in Nodes /\ i \in Ids /\ TombstoneTTL \in Nat /\ MaxApart \in Nat
  BY Given
<1>1. /\ Shows' = Shows /\ Around' = Around
      /\ \A e \in Around[k] :
            \/ \E n \in Nodes : e = Shows[n][k]
            \/ \E n \in Nodes : \E d \in queue[n] : e = Offer(d, k)
      /\ network' = {} /\ queue' = queue
      /\ \A n \in Nodes \ {h} : heard[n][h] < MaxApart /\ heard'[n][h] = heard[n][h] + 1
      /\ \A n \in Nodes : queue[n] # {} => waited[n] < MaxApart /\ waited'[n] = waited[n] + 1
      /\ \A n \in Nodes : Tombstone(Shows[n][k]) =>
            age'[n][i] = UpTo(TombstoneTTL + 1, age[n][i])
  BY TickTells
<1>2. /\ \A n \in Nodes : age[n][i] \in Nat /\ waited[n] \in Nat
      /\ \A n \in Nodes \ {h} : heard[n][h] \in Nat
      /\ Around[k] \subseteq Entry
  BY <1>0 DEF Typed, TimeTypeOK
<1>3. \A n \in Nodes : AtLeast(Shows'[n][k], D) => age'[n][i] <= t + 1
  BY <1>0, <1>1, <1>2 DEF Spread, AtLeast, UpTo
<1>4. \A n \in Nodes \ {h} : heard'[n][h] < t + 1 => AtLeast(Shows'[n][k], D)
  BY <1>1, <1>2 DEF Spread
<1>5. AtLeast(Shows[h][k], D) /\ \A e \in Around[k] : Tombstone(e) \/ e.version < D
  BY DEF Spread
<1>6. ASSUME t >= MaxApart, NEW e \in Around[k] PROVE AtLeast(e, D) \/ AtLeast(e, F)
  <2>1. ASSUME NEW n \in Nodes, e = Shows[n][k] PROVE AtLeast(e, D)
    <3>1. n # h => heard[n][h] < t
      BY <1>0, <1>1, <1>2, <1>6
    <3> QED
      BY <1>5, <2>1, <3>1 DEF Spread
  <2>2. ASSUME NEW n \in Nodes, NEW d \in queue[n], e = Offer(d, k) PROVE AtLeast(e, F)
    <3>1. waited[n] < MaxApart /\ waited[n] \in Nat
      BY <1>1, <1>2, <2>2
    <3>2. e # Absent
      BY <1>2, <1>6, EntryIs
    <3> QED
      BY <1>0, <1>6, <2>2, <3>1, <3>2 DEF OldWaits
  <2> QED
    BY <1>1, <2>1, <2>2
<1>7. OldWaits(k, F, t + 1)'
  <2> SUFFICES ASSUME NEW n \in Nodes, NEW d \in queue[n]
               PROVE  Offer(d, k) = Absent \/ AtLeast(Offer(d, k), F) \/ waited'[n] >= t + 1
    BY <1>1 DEF OldWaits
  <2>1. waited'[n] = waited[n] + 1 /\ waited[n] \in Nat
    BY <1>1, <1>2
  <2> QED
    BY <2>1 DEF OldWaits
<1> HIDE DEF h
<1>8. Spread(k, D, t + 1)'
  BY <1>1, <1>3, <1>4, <1>5 DEF Spread, h
<1> QED
  BY <1>6, <1>7, <1>8

LEMMA TickKeeps ==
    ASSUME TombstonesOutlivePartitions, Typed, Typed', NEW k \in Keys,
           Lasting(k), Tick, ~severed'
    PROVE  Lasting(k)'
<1> DEFINE h == Home[k]
           i == IdOf[k]
           x == Shows[h][k]
<1>0. /\ h \in Nodes /\ i \in Ids /\ TombstoneTTL \in Nat /\ MaxApart \in Nat
      /\ MaxApart <= TombstoneTTL /\ Absent \notin Nat
  BY Given DEF TombstonesOutlivePartitions
<1>1. /\ Shows' = Shows /\ Around' = Around /\ contested' = contested
      /\ Tombstone(x) => age'[h][i] = UpTo(TombstoneTTL + 1, age[h][i])
      /\ gone'[k] = IF gone[k] = Absent THEN Absent ELSE UpTo(MaxApart + 1, gone[k])
  BY <1>0, TickTells
<1>2. /\ HomeAhead(k) => HomeAhead(k)'
      /\ (Settled(k) => Settled(k)') /\ (NoneLive(k) => NoneLive(k)')
  BY <1>1 DEF HomeAhead, Settled, NoneLive
<1>3. ASSUME k \notin contested, Tombstone(x), ~Settled(k)
      PROVE  HomeTellsInTime(k)'
  <2>1. /\ age[h][i] <= TombstoneTTL
        /\ Spread(k, x.version, age[h][i]) /\ OldWaits(k, x.version, age[h][i])
    BY <1>3 DEF Lasting, HomeTellsInTime
  <2>2. x \in Around[k] /\ x \in Entry
    BY <1>0, <1>3 DEF Typed, Tombstone
  <2>3. PICK D \in Nat, t \in Nat : D = x.version /\ t = age[h][i]
    <3>1. age[h][i] \in Nat
      BY <1>0 DEF Typed, TimeTypeOK
    <3> QED
      BY <2>2, <3>1, EntryIs
  <2>4. /\ Spread(k, D, t + 1)' /\ OldWaits(k, D, t + 1)'
        /\ t >= MaxApart => \A e \in Around[k] : AtLeast(e, D)
    BY <2>1, <2>3, SpreadAges
  <2>5. age'[h][i] = t + 1
    BY <1>0, <1>1, <1>3, <2>1, <2>3 DEF UpTo
  <2>6. CASE t + 1 <= TombstoneTTL
    BY <1>1, <1>3, <2>3, <2>4, <2>5, <2>6 DEF HomeTellsInTime, Spread, OldWaits, Tombstone
  <2>7. CASE ~(t + 1 <= TombstoneTTL)
    <3>1. \A e \in Around[k] : AtLeast(e, D)
      BY <1>0, <2>1, <2>3, <2>4, <2>7
    <3>2. \A e \in Around[k] : e = x \/ e.version < x.version
      BY <1>3 DEF Lasting, HomeAhead, Tombstone
    <3>3. \A e \in Around[k] : e.version \in Nat
      BY EntryIs DEF Typed
    <3>4. \A e \in Around[k] : Tombstone(e) /\ e = x
      BY <2>3, <3>1, <3>2, <3>3 DEF AtLeast
    <3>5. Settled(k)
      BY <3>4 DEF Settled
    <3> QED
      BY <1>3, <3>5
  <2> QED
    BY <2>6, <2>7
<1>4. k \notin contested' => HomeTellsInTime(k)'
  <2>1. k \notin contested /\ x = Absent => Settled(k)
    BY DEF Lasting, HomeTellsInTime
  <2> QED
    BY <1>1, <1>2, <1>3, <2>1 DEF HomeTellsInTime
<1>5. GoneSpreads(k)'
  <2>1. gone[k] \in Nat \cup {Absent} /\ (gone[k] # Absent => gone'[k] # Absent)
    BY <1>0, <1>1 DEF Typed, TimeTypeOK, UpTo
  <2>2. ASSUME gone[k] # Absent, gone[k] <= MaxApart, OldWaits(k, 0, gone[k]),
               NEW D \in Nat, Spread(k, D, gone[k])
        PROVE  \/ NoneLive(k)
               \/ /\ gone'[k] <= MaxApart /\ \E E \in Nat : Spread(k, E, gone[k])'
                  /\ OldWaits(k, 0, gone[k])'
    <3>1. PICK t \in Nat, F \in Nat : t = gone[k] /\ F = 0
      BY <2>1, <2>2
    <3>2. /\ Spread(k, D, t + 1)' /\ OldWaits(k, F, t + 1)'
          /\ t >= MaxApart => \A e \in Around[k] : AtLeast(e, D) \/ AtLeast(e, F)
      BY <1>0, <2>2, <3>1, SpreadAges
    <3>3. gone'[k] = t + 1
      BY <1>0, <1>1, <2>2, <3>1 DEF UpTo
    <3>4. CASE t + 1 <= MaxApart
      BY <3>1, <3>2, <3>3, <3>4 DEF Spread, OldWaits
    <3>5. CASE t >= MaxApart
      BY <3>2, <3>5 DEF NoneLive, AtLeast
    <3> QED
      BY <1>0, <3>4, <3>5
  <2> QED
    BY <1>1, <1>2, <2>1, <2>2 DEF Lasting, GoneSpreads, Spread, OldWaits
<1> QED
  BY <1>1, <1>2, <1>4, <1>5 DEF Lasting

-----------------------------------------------------------------------------
(* What the operations are for each key.  First what is around, the ages, and *)
(* the removals under way, which no home receives for a key not contested.    *)

RemovalsFromHome ==
    \A k \in Keys \ contested :
        /\ \A n \in Nodes : \A d \in queue[n] : Removes(d, k) => n = Home[k]
        /\ \A m \in network : Removes(m, k) => m.dst # Home[k]

AroundIsWritten == \A k \in Keys : Around[k] \subseteq written[k]

\* What a delta or a datagram offers is an entry.
LEMMA OfferType ==
    ASSUME NEW d, d.state \in Registry, NEW k \in Keys
    PROVE  Offer(d, k) \in Entry \cup {Absent}
<1>1. CASE d.kind = "DEREGISTER" /\ Live(d.state, k)
  BY <1>1, EntryTypes DEF Offer, Entry, Version
<1>2. CASE ~(d.kind = "DEREGISTER" /\ Live(d.state, k))
  BY <1>2, ViewType DEF Offer
<1> QED
  BY <1>1, <1>2

LEMMA AroundIs ==
    ASSUME TypeOK, NEW k \in Keys
    PROVE  /\ Around[k] \subseteq Entry /\ Absent \notin Around[k]
           /\ \A n \in Nodes : View(reg[n], k) \in Around[k] \cup {Absent}
           /\ \A n \in Nodes : \A d \in queue[n] : Offer(d, k) \in Around[k] \cup {Absent}
           /\ \A m \in network : Offer(m, k) \in Around[k] \cup {Absent}
<1>1. \A n \in Nodes : View(reg[n], k) \in Entry \cup {Absent}
  BY ViewType DEF TypeOK
<1>2. ASSUME NEW n \in Nodes, NEW d \in queue[n]
      PROVE  Offer(d, k) \in Entry \cup {Absent}
  BY OfferType DEF TypeOK, Delta
<1>3. ASSUME NEW m \in network PROVE Offer(m, k) \in Entry \cup {Absent}
  BY OfferType DEF TypeOK, Message
<1> QED
  BY <1>1, <1>2, <1>3, RegistryAssumption DEF Around

\* Nothing is around after a step but what it shows, queues or sends.
LEMMA AroundGrowsBy ==
    ASSUME NEW k \in Keys, NEW S,
           \A n \in Nodes : View(reg'[n], k) \in S \cup {Absent},
           \A n \in Nodes : \A d \in queue'[n] : Offer(d, k) \in S \cup {Absent},
           \A m \in network' : Offer(m, k) \in S \cup {Absent}
    PROVE  Around'[k] \subseteq S
    BY RegistryAssumption DEF Around

\* A tombstone that is still shown ages on; one that is shown anew, because it is
\* newer than all the node had, has a new timestamp.
LEMMA StampedAges ==
    ASSUME TypeOK, TypeOK', TombstonesHonoured, Stamped, NEW n \in Nodes, NEW k \in Keys,
           Tombstone(View(reg'[n], k))
    PROVE  /\ View(reg'[n], k) = View(reg[n], k) => age'[n][IdOf[k]] = age[n][IdOf[k]]
           /\ Outdated(View(reg[n], k), View(reg'[n], k)) => age'[n][IdOf[k]] = 0
           /\ reg'[n].tomb[IdOf[k]] # reg[n].tomb[IdOf[k]] => age'[n][IdOf[k]] = 0
<1> DEFINE i == IdOf[k]
           v == reg'[n].tomb[i]
<1>0. reg[n] \in Registry /\ reg'[n] \in Registry /\ i \in Ids
  BY RegistryAssumption DEF TypeOK
<1>1. age'[n][i] = IF reg[n].tomb[i] = v THEN age[n][i] ELSE 0
  BY <1>0 DEF Stamped
<1>2. v \in Version /\ View(reg'[n], k) = [version |-> v, content |-> Absent]
  BY <1>0, TombstoneShown
<1>3. ASSUME View(reg'[n], k) = View(reg[n], k) PROVE age'[n][i] = age[n][i]
  <2>1. View(reg[n], k) = [version |-> reg[n].tomb[i], content |-> Absent]
    BY <1>0, <1>3, TombstoneShown
  <2> QED
    BY <1>1, <1>2, <1>3, <2>1
<1>4. ASSUME Outdated(View(reg[n], k), View(reg'[n], k)) PROVE age'[n][i] = 0
  <2>1. CASE ~Buried(reg[n], k)
    BY <1>1, <1>2, <2>1, RegistryAssumption DEF Buried
  <2>2. CASE Buried(reg[n], k)
    <3>1. View(reg[n], k).version < v /\ v \in Nat
      BY <1>0, <1>2, <1>4, <2>2, ViewType DEF Outdated, Version
    <3>2. reg[n].tomb[i] \in Nat
      BY <1>0, <2>2, EntryTypes DEF Version
    <3>3. CASE Live(reg[n], k)
      <4>1. reg[n].tomb[i] <= reg[n].inst[k].version
        BY <2>2, <3>3 DEF TombstonesHonoured, TombstonesRespected
      <4>2. View(reg[n], k).version = reg[n].inst[k].version /\ reg[n].inst[k].version \in Nat
        BY <1>0, <3>3, ViewType, EntryTypes
      <4> QED
        BY <1>1, <3>1, <3>2, <4>1, <4>2
    <3>4. CASE ~Live(reg[n], k)
      BY <1>0, <1>1, <2>2, <3>1, <3>2, <3>4, ViewType
    <3> QED
      BY <3>3, <3>4
  <2> QED
    BY <2>1, <2>2
<1> QED
  BY <1>1, <1>3, <1>4

-----------------------------------------------------------------------------
(* Operations. *)

\* What a write does for its key and for the others.
LEMMA WriteIsOnward ==
    ASSUME TypeOK, TypeOK', TombstonesHonoured, RemovalsFromHome, AroundIsWritten,
           Stamped, Waiting, heard' = heard,
           NEW n \in Nodes, NEW k \in Keys, NEW r, OneWrite(n, k, r)
    PROVE  /\ Writes(n, k) /\ Shows'[n][k] = View(r, k)
           /\ \A l \in Keys \ {k} : gone'[l] = gone[l] => Onward(l)
           /\ RemovalsFromHome'
<1> DEFINE e == View(r, k)
<1>0. /\ reg \in [Nodes -> Registry] /\ queue \in [Nodes -> SUBSET Delta]
      /\ r \in Registry /\ Newer(e, reg[n], k)
      /\ \A l \in Keys \ {k} : View(r, l) = View(reg[n], l)
      /\ reg' = [reg EXCEPT ![n] = r] /\ network' = network
      /\ written \in [Keys -> SUBSET Entry]
      /\ written' = [written EXCEPT ![k] = @ \cup {e}]
  BY DEF TypeOK, OneWrite, Write
<1>c. Contends(n, k, e)
  BY WriteContends DEF OneWrite
<1>1. /\ \A p \in Nodes, l \in Keys :
            View(reg'[p], l) = IF p = n /\ l = k THEN e ELSE View(reg[p], l)
      /\ \A p \in Nodes, l \in Keys : p # n => reg'[p] = reg[p]
  BY <1>0
<1>2. ASSUME NEW p \in Nodes, NEW d \in queue'[p]
      PROVE  \/ d \in queue[p] /\ waited'[p] = waited[p]
             \/ /\ p = n /\ Offer(d, k) = e
                /\ \A l \in Keys \ {k} : Offer(d, l) = Absent
                /\ \A l \in Keys : Live(d.state, l) => l = k
  <2>0. waited'[p] = waited[p]
    BY <1>2 DEF Waiting
  <2>1. CASE queue' = queue
    BY <2>0, <2>1
  <2>2. ASSUME NEW kind \in {"CHANGE", "DEREGISTER"}, NEW x \in Instance,
               Propagate(n, kind, k, x),
               e = [version |-> x.version,
                    content |-> IF kind = "CHANGE" THEN x.status ELSE Absent],
               d \notin queue[p]
        PROVE  /\ p = n /\ Offer(d, k) = e
               /\ \A l \in Keys \ {k} : Offer(d, l) = Absent
               /\ \A l \in Keys : Live(d.state, l) => l = k
    <3>1. p = n /\ d = [kind |-> kind, state |-> Only(k, x)]
      BY <1>0, <2>2 DEF Propagate
    <3>2. d.kind = kind /\ d.state = Only(k, x)
      BY <3>1
    <3> HIDE DEF e
    <3> QED
      BY <2>2, <3>1, <3>2, OnlyShows DEF Offer
  <2> QED
    BY <2>0, <2>1, <2>2 DEF OneWrite
<1> HIDE DEF e
<1>3. e \in Entry /\ Outdated(View(reg[n], k), e)
  BY <1>0, KnownOfView DEF Newer, Outdated
<1>4. Around'[k] \subseteq Around[k] \cup {e}
  <2> DEFINE S == Around[k] \cup {e}
  <2>1. \A p \in Nodes : View(reg'[p], k) \in S \cup {Absent}
    BY <1>1, AroundIs
  <2>2. \A p \in Nodes : \A d \in queue'[p] : Offer(d, k) \in S \cup {Absent}
    BY <1>2, AroundIs
  <2>3. \A m \in network' : Offer(m, k) \in S \cup {Absent}
    BY <1>0, AroundIs
  <2> HIDE DEF S
  <2>4. Around'[k] \subseteq S
    BY <2>1, <2>2, <2>3, AroundGrowsBy
  <2> QED
    BY <2>4 DEF S
<1>5. e \in Around'[k]
  BY <1>0, <1>1, <1>3 DEF Around
<1>6. \A p \in Nodes, l \in Keys :
        p # n /\ Tombstone(View(reg[p], l)) => age'[p][IdOf[l]] = age[p][IdOf[l]]
  BY <1>1, StampedAges
<1>7. Tombstone(e) => age'[n][IdOf[k]] = 0
  BY <1>0, <1>1, <1>3, StampedAges
<1>8. k \notin contested' =>
        /\ n = Home[k]
        /\ k \notin contested \/ \A old \in Around[k] : old.version < e.version
  BY <1>c DEF Contends, Prevails, AroundIsWritten
<1>9. \A p \in Nodes : \A d \in queue'[p] :
        Offer(d, k) \in {Absent, e} \/ (d \in queue[p] /\ waited'[p] = waited[p])
  BY <1>2
<1>10. Writes(n, k) /\ Shows'[n][k] = e
  BY <1>0, <1>1, <1>3, <1>4, <1>5, <1>6, <1>7, <1>8, <1>9 DEF Writes, Shows
<1>11. ASSUME NEW l \in Keys \ {k}, gone'[l] = gone[l] PROVE Onward(l)
  <2>1. \A p \in Nodes : Shows'[p][l] = Shows[p][l]
    BY <1>1 DEF Shows
  <2>2. Around'[l] \subseteq Around[l]
    BY <1>0, <1>1, <1>2, AroundIs, AroundGrowsBy
  <2>3. \A p \in Nodes : Tombstone(Shows'[p][l]) => age'[p][IdOf[l]] = age[p][IdOf[l]]
    BY <1>1, StampedAges DEF Shows
  <2>4. l \in contested' <=> l \in contested
    BY <1>c DEF Contends
  <2> QED
    BY <1>0, <1>2, <1>11, <2>1, <2>2, <2>3, <2>4 DEF Onward
<1>12. RemovalsFromHome'
  <2> SUFFICES ASSUME NEW l \in Keys \ contested'
               PROVE  /\ \A p \in Nodes : \A d \in queue'[p] : Removes(d, l) => p = Home[l]
                      /\ \A m \in network' : Removes(m, l) => m.dst # Home[l]
    BY DEF RemovalsFromHome, Removes
  <2>1. l = k => n = Home[k]
    BY <1>c DEF Contends
  <2>2. CASE l \notin contested
    BY <1>0, <1>2, <2>1, <2>2 DEF RemovalsFromHome, Removes
  <2>3. CASE l \in contested
    <3>1. l = k /\ Prevails(k, e)
      BY <1>c, <2>3 DEF Contends
    <3> QED
      BY <1>0, <1>2, <2>1, <3>1 DEF Prevails, Removes
  <2> QED
    BY <2>2, <2>3
<1> QED
  BY <1>10, <1>11, <1>12 DEF e

\* Receiving: at one node, something that is around may be taken over.
LEMMA TakesIsOnward ==
    ASSUME TypeOK, TypeOK', TombstonesHonoured, Stamped,
           NEW n \in Nodes, NEW k \in Keys,
           \A p \in Nodes \ {n} : reg'[p] = reg[p],
           queue' = queue, waited' = waited, UNCHANGED histories, gone'[k] = gone[k],
           \A d \in network' :
              \/ d \in network
              \/ /\ Offer(d, k) = View(reg'[n], k)
                 /\ \A p \in Nodes : FullOf(d, p) =>
                       p = n /\ View(d.state, k) = View(reg'[n], k),
           \/ View(reg'[n], k) = View(reg[n], k)
           \/ /\ View(reg'[n], k) \in Around[k]
              /\ (n = Home[k] /\ k \notin contested) \/ Tombstone(View(reg[n], k)) =>
                    Outdated(View(reg[n], k), View(reg'[n], k))
              /\ \/ Outdated(View(reg[n], k), View(reg'[n], k))
                 \/ reg'[n].tomb[IdOf[k]] # reg[n].tomb[IdOf[k]],
           \A p \in Nodes \ {Home[k]} :
              \/ heard'[p][Home[k]] = heard[p][Home[k]]
              \/ \E m \in network :
                    /\ FullOf(m, Home[k])
                    /\ View(reg'[p], k) = Newest(View(reg[p], k), View(m.state, k))
    PROVE  Onward(k)
<1>0. Home[k] \in Nodes
  BY HomeIs
<1>1. View(reg'[n], k) \in Around[k] \cup {Absent}
  BY AroundIs
<1>2. Around'[k] \subseteq Around[k]
  <2>1. \A p \in Nodes : View(reg'[p], k) \in Around[k] \cup {Absent}
    BY <1>1, AroundIs
  <2>2. \A p \in Nodes : \A d \in queue'[p] : Offer(d, k) \in Around[k] \cup {Absent}
    BY AroundIs
  <2>3. \A m \in network' : Offer(m, k) \in Around[k] \cup {Absent}
    BY <1>1, AroundIs
  <2> QED
    BY <2>1, <2>2, <2>3, AroundGrowsBy
<1>3. ASSUME NEW p \in Nodes
      PROVE  /\ \/ Shows'[p][k] = Shows[p][k]
                \/ /\ Shows'[p][k] \in Around[k]
                   /\ (p = Home[k] /\ k \notin contested) \/ Tombstone(Shows[p][k]) =>
                         Outdated(Shows[p][k], Shows'[p][k])
             /\ Tombstone(Shows'[p][k]) =>
                   age'[p][IdOf[k]] = IF Shows'[p][k] = Shows[p][k] THEN age[p][IdOf[k]] ELSE 0
  <2>1. Shows'[p][k] = View(reg'[p], k) /\ Shows[p][k] = View(reg[p], k)
    BY DEF Shows
  <2>2. CASE View(reg'[p], k) = View(reg[p], k)
    BY <2>1, <2>2, StampedAges
  <2>3. CASE View(reg'[p], k) # View(reg[p], k)
    <3>1. p = n
      BY <2>3
    <3> QED
      BY <2>1, <2>3, <3>1, StampedAges
  <2> QED
    BY <2>2, <2>3
<1>4. ASSUME NEW d \in network', FullOf(d, Home[k])
      PROVE  d \in network \/ View(d.state, k) = Shows'[Home[k]][k]
  BY <1>0, <1>4 DEF Shows
<1>5. \A p \in Nodes \ {Home[k]} :
         \/ heard'[p][Home[k]] = heard[p][Home[k]]
         \/ \E m \in network :
               /\ FullOf(m, Home[k])
               /\ Shows'[p][k] = Newest(Shows[p][k], View(m.state, k))
  BY DEF Shows
<1> QED
  BY <1>2, <1>3, <1>4, <1>5 DEF Onward

LEMMA ReceiveIsOnward ==
    ASSUME TypeOK, TypeOK', TombstonesHonoured, RemovalsFromHome, TimeTypeOK,
           NEW m \in network, Receive(m), NEW k \in Keys
    PROVE  Onward(k)
<1> DEFINE n == m.dst
           h == Home[k]
           x == View(reg[n], k)
           y == View(reg'[n], k)
<1>0. /\ n \in Nodes /\ m.src \in Nodes /\ m.state \in Registry /\ h \in Nodes
      /\ reg \in [Nodes -> Registry] /\ heard \in [Nodes -> [Nodes -> 0 .. MaxApart]]
      /\ OneServicePerId /\ IdOf[k] \in Ids
  BY HomeIs, Given, ReplicationAssumption DEF TypeOK, TimeTypeOK, Message
<1>1. /\ queue' = queue /\ waited' = waited /\ UNCHANGED histories /\ gone' = gone /\ Stamped
      /\ \A p \in Nodes \ {n} : reg'[p] = reg[p]
  BY <1>0 DEF Receive, Deliver, DeliverSync, DeliverState, DeliverDeregister, Merge
<1>2. \A rest \in Without(m) : rest \subseteq network
  BY DEF Without
<1>3. ASSUME NEW d \in network', d \notin network
      PROVE  /\ Offer(d, k) = y
             /\ \A p \in Nodes : FullOf(d, p) => p = n /\ View(d.state, k) = y
  <2>1. d = FullState("ACK", n, m.src, reg'[n])
    BY <1>2, <1>3 DEF Receive, Deliver, DeliverSync, DeliverState, DeliverDeregister, Transmit
  <2>2. d.kind = "ACK" /\ d.src = n /\ d.state = reg'[n]
    BY <2>1 DEF FullState
  <2> QED
    BY <2>2 DEF Offer, FullOf
<1>4. CASE m.kind # "DEREGISTER"
  <2>1. Merge(m)
    BY <1>4 DEF Receive, Deliver, DeliverSync, DeliverState, DeliverDeregister
  <2>2. y = Newest(x, View(m.state, k))
    <3>1. reg'[n] = ApplySync(reg[n], m.state)
      BY <1>0, <2>1 DEF Merge
    <3> QED
      BY <1>0, <3>1, ViewAfterSync DEF TombstonesHonoured
  <2>3. View(m.state, k) \in Around[k] \cup {Absent}
    BY <1>4, AroundIs DEF Offer
  <2>4. y = x \/ (y \in Around[k] /\ Outdated(x, y))
    BY <2>2, <2>3 DEF Newest, Outdated
  <2>5. ASSUME NEW p \in Nodes \ {h}
        PROVE  \/ heard'[p][h] = heard[p][h]
               \/ \E d \in network :
                     /\ FullOf(d, h)
                     /\ View(reg'[p], k) = Newest(View(reg[p], k), View(d.state, k))
    <3>1. CASE m.kind \in {"SYNC", "ACK"} /\ p = n /\ m.src = h
      BY <2>2, <3>1 DEF FullOf
    <3>2. CASE ~(m.kind \in {"SYNC", "ACK"} /\ p = n /\ m.src = h)
      BY <1>0, <3>2 DEF Receive
    <3> QED
      BY <3>1, <3>2
  <2> HIDE DEF n, x, y
  <2> QED
    BY <1>0, <1>1, <1>3, <2>4, <2>5, TakesIsOnward DEF x, y
<1>5. CASE m.kind = "DEREGISTER"
  <2>1. PICK l \in Keys :
          /\ Live(m.state, l)
          /\ reg'[n] = ApplyDeregister(reg[n], l, m.state.inst[l].version)
    BY <1>0, <1>5 DEF Receive, Deliver, DeliverSync, DeliverState, DeliverDeregister
  <2> DEFINE v == m.state.inst[l].version
             i == IdOf[k]
  <2>2. v \in Version
    BY <1>0, <2>1, EntryTypes DEF Version
  <2>3. heard' = heard
    BY <1>5 DEF Receive
  <2>4. \/ y = x
        \/ /\ y \in Around[k]
           /\ (n = h /\ k \notin contested) \/ Tombstone(x) => Outdated(x, y)
           /\ reg'[n].tomb[i] # reg[n].tomb[i]
    <3>1. CASE y = x
      BY <3>1
    <3>2. CASE y # x
      <4>1. l = k /\ y = [version |-> v, content |-> Absent]
        BY <1>0, <2>1, <2>2, <3>2, ApplyDeregisterShows
      <4>2. k \notin contested => n # h
        BY <1>5, <2>1, <4>1 DEF RemovalsFromHome, Removes
      <4>3. y \in Around[k]
        <5>1. Offer(m, k) = y
          BY <1>5, <2>1, <4>1 DEF Offer
        <5>2. y \in Entry
          BY <2>2, <4>1 DEF Entry
        <5> QED
          BY <5>1, <5>2 DEF Around
      <4>4. ~(Buried(reg[n], k) /\ reg[n].tomb[i] >= v)
        BY <2>1, <3>2, <4>1 DEF ApplyDeregister
      <4>5. reg'[n].tomb[i] = v
        BY <1>0, <2>1, <4>1, <4>4 DEF ApplyDeregister, Registry
      <4>6. reg'[n].tomb[i] # reg[n].tomb[i]
        BY <2>2, <4>4, <4>5, RegistryAssumption DEF Buried, Version
      <4>7. Tombstone(x) => Outdated(x, y)
        BY <1>0, <2>2, <4>1, <4>4, TombstoneShown DEF Outdated, Version
      <4> QED
        BY <4>2, <4>3, <4>6, <4>7
    <3> QED
      BY <3>1, <3>2
  <2> HIDE DEF n, x, y
  <2> QED
    BY <1>0, <1>1, <1>3, <2>3, <2>4, TakesIsOnward DEF x, y
<1> QED
  BY <1>4, <1>5

\* Sending shows nothing new and is no news to the sender.
LEMMA SendIsOnward ==
    ASSUME TypeOK, RemovalsFromHome, Send, NEW k \in Keys
    PROVE  Onward(k) /\ RemovalsFromHome'
<1> DEFINE
      Copied(d) == \E n \in Nodes : \E o \in queue[n], p \in Nodes \ {n} :
                      d = [kind |-> o.kind, src |-> n, dst |-> p, state |-> o.state]
      Full(d) == \E n \in Nodes, p \in Nodes : d = FullState("SYNC", n, p, reg[n])
<1>1. /\ reg' = reg /\ age' = age /\ heard' = heard /\ gone' = gone /\ UNCHANGED histories
      /\ \A n \in Nodes : queue'[n] \subseteq queue[n]
      /\ \A n \in Nodes : queue'[n] # {} => waited'[n] = waited[n]
      /\ \A d \in network' : d \in network \/ Copied(d) \/ Full(d)
  <2>1. UNCHANGED <<age, heard, gone>> /\ Waiting
    BY DEF Send
  <2>2. ASSUME NEW n \in Nodes, Broadcast(n)
        PROVE  /\ reg' = reg /\ UNCHANGED histories
               /\ \A p \in Nodes : queue'[p] \subseteq queue[p]
               /\ \A d \in network' : d \in network \/ Copied(d)
    BY <2>2 DEF Broadcast, Transmit, TypeOK
  <2>3. ASSUME NEW n \in Nodes, NEW p \in Nodes, SendSync(n, p)
        PROVE  /\ reg' = reg /\ queue' = queue /\ UNCHANGED histories
               /\ \A d \in network' : d \in network \/ Full(d)
    BY <2>3 DEF SendSync, Transmit
  <2> HIDE DEF Copied, Full
  <2> QED
    BY <2>1, <2>2, <2>3 DEF Send, Waiting
<1>2. ASSUME NEW d \in network', NEW l \in Keys, Copied(d)
      PROVE  /\ Offer(d, l) \in Around[l] \cup {Absent}
             /\ ~FullOf(d, Home[l])
             /\ l \notin contested /\ Removes(d, l) => d.dst # Home[l]
  <2>1. PICK n \in Nodes : \E o \in queue[n], p \in Nodes \ {n} :
           d = [kind |-> o.kind, src |-> n, dst |-> p, state |-> o.state]
    BY <1>2
  <2>2. PICK o \in queue[n], p \in Nodes \ {n} :
           d = [kind |-> o.kind, src |-> n, dst |-> p, state |-> o.state]
    BY <2>1
  <2>3. d.kind = o.kind /\ d.state = o.state /\ d.dst = p /\ p # n
    BY <2>2
  <2>4. o.kind \in {"CHANGE", "DEREGISTER"}
    BY DEF TypeOK, Delta
  <2>5. Offer(d, l) = Offer(o, l)
    BY <2>3 DEF Offer
  <2> QED
    BY <2>3, <2>4, <2>5, AroundIs DEF FullOf, RemovalsFromHome, Removes
<1>3. ASSUME NEW d \in network', NEW l \in Keys, Full(d)
      PROVE  /\ Offer(d, l) \in Around[l] \cup {Absent}
             /\ FullOf(d, Home[l]) => View(d.state, l) = View(reg[Home[l]], l)
             /\ d.kind # "DEREGISTER"
  <2>1. PICK n \in Nodes, p \in Nodes : d = FullState("SYNC", n, p, reg[n])
    BY <1>3
  <2>2. d.kind = "SYNC" /\ d.src = n /\ d.state = reg[n]
    BY <2>1 DEF FullState
  <2> QED
    BY <2>2, AroundIs DEF Offer, FullOf
<1> HIDE DEF Copied, Full
<1>4. Around'[k] \subseteq Around[k]
  <2>1. \A n \in Nodes : View(reg'[n], k) \in Around[k] \cup {Absent}
    BY <1>1, AroundIs
  <2>2. \A n \in Nodes : \A d \in queue'[n] : Offer(d, k) \in Around[k] \cup {Absent}
    BY <1>1, AroundIs
  <2>3. \A m \in network' : Offer(m, k) \in Around[k] \cup {Absent}
    BY <1>1, <1>2, <1>3, AroundIs
  <2> QED
    BY <2>1, <2>2, <2>3, AroundGrowsBy
<1>5. Shows' = Shows
  BY <1>1 DEF Shows
<1>6. Home[k] \in Nodes /\ Shows[Home[k]][k] = View(reg[Home[k]], k)
  BY HomeIs DEF Shows
<1>7. Onward(k)
  BY <1>1, <1>2, <1>3, <1>4, <1>5, <1>6 DEF Onward
<1>8. RemovalsFromHome'
  BY <1>1, <1>2, <1>3 DEF RemovalsFromHome, Removes
<1> QED
  BY <1>7, <1>8

\* A node that drops its tombstones shows nothing where it showed one.
LEMMA CleanupIsOnward ==
    ASSUME TypeOK, TypeOK', TombstonesHonoured, NEW n \in Nodes,
           CleanupTombstones(n), NEW k \in Keys
    PROVE  Onward(k)
<1> DEFINE expired == {i \in Ids : reg[n].tomb[i] # Absent /\ age[n][i] > TombstoneTTL}
           x == View(reg[n], k)
           y == View(reg'[n], k)
<1>0. IdOf[k] \in Ids /\ reg \in [Nodes -> Registry] /\ reg[n] \in Registry
  BY RegistryAssumption DEF TypeOK
<1>1. /\ reg'[n] = DropTombstones(reg[n], expired)
      /\ \A p \in Nodes \ {n} : reg'[p] = reg[p]
      /\ UNCHANGED <<queue, network, histories, heard, waited, gone>> /\ Stamped
  BY <1>0 DEF CleanupTombstones
<1>2. /\ reg'[n].inst = reg[n].inst
      /\ reg'[n].tomb[IdOf[k]] =
           IF IdOf[k] \in expired THEN Absent ELSE reg[n].tomb[IdOf[k]]
  BY <1>0, <1>1 DEF DropTombstones, Registry
<1>3. y = x \/ (y = Absent /\ Tombstone(x) /\ age[n][IdOf[k]] > TombstoneTTL)
  <2>1. CASE Live(reg[n], k)
    BY <1>2, <2>1 DEF View, Live
  <2>2. CASE ~Live(reg[n], k) /\ IdOf[k] \in expired
    BY <1>0, <1>2, <2>2, TombstoneShown DEF View, Live, Buried
  <2>3. CASE ~Live(reg[n], k) /\ IdOf[k] \notin expired
    BY <1>2, <2>3 DEF View, Live, Buried
  <2> QED
    BY <2>1, <2>2, <2>3
<1> HIDE DEF expired
<1>4. ASSUME NEW p \in Nodes
      PROVE  /\ \/ Shows'[p][k] = Shows[p][k]
                \/ /\ Shows'[p][k] = Absent
                   /\ Tombstone(Shows[p][k]) /\ age[p][IdOf[k]] > TombstoneTTL
             /\ Tombstone(Shows'[p][k]) => Shows'[p][k] = Shows[p][k]
  BY <1>1, <1>3 DEF Shows, Tombstone
<1>5. \A p \in Nodes : Tombstone(Shows'[p][k]) => age'[p][IdOf[k]] = age[p][IdOf[k]]
  BY <1>1, <1>4, StampedAges DEF Shows
<1>6. Around'[k] \subseteq Around[k]
  <2>1. \A p \in Nodes : View(reg'[p], k) \in Around[k] \cup {Absent}
    BY <1>1, <1>3, AroundIs
  <2>2. \A p \in Nodes : \A d \in queue'[p] : Offer(d, k) \in Around[k] \cup {Absent}
    BY <1>1, AroundIs
  <2>3. \A m \in network' : Offer(m, k) \in Around[k] \cup {Absent}
    BY <1>1, AroundIs
  <2> QED
    BY <2>1, <2>2, <2>3, AroundGrowsBy
<1> QED
  BY <1>1, <1>4, <1>5, <1>6 DEF Onward

\* A step after which all is shown and on its way as before.
LEMMA SilentIsOnward ==
    ASSUME Shows' = Shows, UNCHANGED <<queue, network, histories, timeVars>>, NEW k \in Keys
    PROVE  Onward(k)
<1>1. UNCHANGED <<queue, network, histories, age, heard, waited, gone>>
  BY DEF timeVars
<1>2. \A n \in Nodes : View(reg'[n], k) = View(reg[n], k)
  <2>1. \A n \in Nodes : Shows'[n][k] = View(reg'[n], k) /\ Shows[n][k] = View(reg[n], k)
    BY DEF Shows
  <2> QED
    BY <2>1
<1>3. Around'[k] = Around[k]
  BY <1>1, <1>2 DEF Around
<1> QED
  BY <1>1, <1>3 DEF Onward

-----------------------------------------------------------------------------
(* The inductive invariant. *)

GCInv ==
    /\ IInv /\ TimeTypeOK
    /\ RemovalsFromHome /\ AroundIsWritten
    /\ ~severed => \A k \in Keys : Lasting(k)

LEMMA StampedType ==
    ASSUME TimeTypeOK, Stamped
    PROVE  age' \in [Nodes -> [Ids -> 0 .. TombstoneTTL + 1]]
    BY TombstoneAssumption DEF TimeTypeOK, Stamped

LEMMA WaitingType ==
    ASSUME TimeTypeOK, Waiting
    PROVE  waited' \in [Nodes -> 0 .. MaxApart]
    BY TombstoneAssumption DEF TimeTypeOK, Waiting

\* An operation on k at node n.
Operation(n, k) == RegisterAgain(n, k) \/ SetStatus(n, k) \/ Withdraw(n, k) \/ Heartbeat(n, k)

\* The types of registries and messages, that tombstones are honoured, and the
\* types of what has to do with time.
LEMMA TypedStep == IInv /\ TimeTypeOK /\ [GCNext]_gcVars => IInv' /\ TimeTypeOK'
<1> SUFFICES ASSUME TypeOK, TombstonesHonoured, TimeTypeOK, [GCNext]_gcVars
             PROVE  IInv' /\ TimeTypeOK'
  BY DEF IInv
<1>0. TombstoneTTL \in Nat /\ MaxApart \in Nat
  BY TombstoneAssumption
<1>1. ASSUME NEW n \in Nodes, NEW k \in Keys, Operation(n, k)
      PROVE  IInv' /\ TimeTypeOK'
  <2>1. LocalNext(n, k)
    BY <1>1 DEF Operation, RegisterAgain, SetStatus, Withdraw, Heartbeat, LocalNext
  <2>2. CASE Heartbeat(n, k)
    BY <2>1, <2>2, LocalKeeps DEF Heartbeat, timeVars, IInv, TimeTypeOK
  <2>3. CASE ~Heartbeat(n, k)
    <3>1. Stamped /\ Waiting /\ UNCHANGED <<heard, severed>>
      BY <1>1, <2>3 DEF Operation, RegisterAgain, SetStatus, Withdraw
    <3>2. gone' \in [Keys -> (0 .. MaxApart + 1) \cup {Absent}]
      <4>1. gone \in [Keys -> (0 .. MaxApart + 1) \cup {Absent}] /\ 0 \in 0 .. MaxApart + 1
        BY <1>0 DEF TimeTypeOK
      <4> QED
        BY <1>1, <2>3, <4>1 DEF Operation, RegisterAgain, SetStatus, Withdraw
    <3> QED
      BY <2>1, <3>1, <3>2, LocalKeeps, StampedType, WaitingType DEF IInv, TimeTypeOK
  <2> QED
    BY <2>2, <2>3
<1>2. ASSUME NEW m \in network, Receive(m) PROVE IInv' /\ TimeTypeOK'
  <2>1. IInv'
    BY <1>2, DeliverKeeps DEF Receive, IInv
  <2>0. m.dst \in Nodes /\ m.src \in Nodes
    BY DEF TypeOK, Message
  <2>2. heard' \in [Nodes -> [Nodes -> 0 .. MaxApart]]
    <3>1. 0 \in 0 .. MaxApart
      BY <1>0
    <3> QED
      BY <1>2, <2>0, <3>1 DEF Receive, TimeTypeOK
  <2> QED
    BY <1>2, <2>1, <2>2, StampedType DEF Receive, TimeTypeOK
<1>3. CASE Send
  <2>1. IInv'
    BY <1>3, BroadcastKeeps, SendSyncKeeps DEF Send, IInv
  <2>2. waited' \in [Nodes -> 0 .. MaxApart]
    BY <1>3, WaitingType DEF Send
  <2> QED
    BY <1>3, <2>1, <2>2 DEF Send, TimeTypeOK
<1>4. ASSUME NEW n \in Nodes, CleanupTombstones(n) PROVE IInv' /\ TimeTypeOK'
  <2> DEFINE expired == {i \in Ids : reg[n].tomb[i] # Absent /\ age[n][i] > TombstoneTTL}
             r == DropTombstones(reg[n], expired)
  <2>1. reg' = [reg EXCEPT ![n] = r]
        /\ UNCHANGED <<queue, network, written, contested, heard, severed, waited, gone>>
        /\ Stamped
    BY <1>4 DEF CleanupTombstones
  <2>2. reg[n] \in Registry /\ TombstonesRespected(reg[n])
    BY DEF TypeOK, TombstonesHonoured
  <2>3. r \in Registry /\ TombstonesRespected(r)
    BY <2>2, DropTombstonesType, DropTombstonesRespects
  <2> HIDE DEF r
  <2> QED
    BY <2>1, <2>3, StampedType DEF IInv, TypeOK, TombstonesHonoured, TimeTypeOK
<1>5. CASE Tick
  <2>1. UNCHANGED vars
    BY <1>5 DEF Tick
  <2>2. age' \in [Nodes -> [Ids -> 0 .. TombstoneTTL + 1]]
    BY <1>0, <1>5 DEF Tick, TimeTypeOK, UpTo
  <2>3. heard' \in [Nodes -> [Nodes -> 0 .. MaxApart]]
    BY <1>0, <1>5 DEF Tick, TimeTypeOK, UpTo
  <2>4. waited' \in [Nodes -> 0 .. MaxApart]
    BY <1>0, <1>5 DEF Tick, TimeTypeOK, UpTo
  <2>5. gone' \in [Keys -> (0 .. MaxApart + 1) \cup {Absent}]
    BY <1>0, <1>5 DEF Tick, TimeTypeOK, UpTo
  <2>6. severed' \in BOOLEAN
    BY <1>5 DEF Tick, Severs, TimeTypeOK
  <2> QED
    BY <2>1, <2>2, <2>3, <2>4, <2>5, <2>6
    DEF vars, IInv, TypeOK, TombstonesHonoured, TimeTypeOK
<1>6. CASE UNCHANGED gcVars
  BY <1>6 DEF gcVars, vars, timeVars, IInv, TypeOK, TombstonesHonoured, TimeTypeOK
<1> QED
  BY <1>1, <1>2, <1>3, <1>4, <1>5, <1>6 DEF GCNext, Operation

LEMMA TypedInit == GCInit => IInv /\ TimeTypeOK
<1> SUFFICES ASSUME GCInit PROVE IInv /\ TimeTypeOK
  OBVIOUS
<1>1. IInv
  BY InitIInv DEF GCInit
<1>2. TimeTypeOK
  <2>1. 0 \in 0 .. TombstoneTTL + 1 /\ 0 \in 0 .. MaxApart
    BY TombstoneAssumption
  <2> QED
    BY <2>1 DEF GCInit, TimeTypeOK
<1> QED
  BY <1>1, <1>2

\* The variables that have to do with time keep their types: no tombstone is
\* recorded without a timestamp.
THEOREM TimeTypeCorrect == GCSpec => []TimeTypeOK
<1>1. IInv /\ TimeTypeOK => TimeTypeOK
  OBVIOUS
<1> QED
  BY <1>1, TypedInit, TypedStep, PTL DEF GCSpec

\* Dropping tombstones makes no node list an instance that a tombstone it still
\* has outranks.
THEOREM StillHonoured == GCSpec => []TombstonesHonoured
<1>1. IInv /\ TimeTypeOK => TombstonesHonoured
  BY DEF IInv
<1> QED
  BY <1>1, TypedInit, TypedStep, PTL DEF GCSpec

LEMMA LastingInit == GCInit => GCInv
<1> SUFFICES ASSUME GCInit PROVE GCInv
  OBVIOUS
<1>1. IInv /\ TimeTypeOK /\ Init
  BY TypedInit DEF GCInit
<1>2. \A n \in Nodes, k \in Keys : View(reg[n], k) = Absent
  BY <1>1, EntryTypes, EmptyRegistryType DEF Init, View, EmptyRegistry, Live, Buried
<1>3. \A k \in Keys : Around[k] = {}
  BY <1>1, <1>2, RegistryAssumption DEF Init, Around
<1>4. RemovalsFromHome /\ AroundIsWritten
  BY <1>1, <1>3 DEF Init, RemovalsFromHome, AroundIsWritten
<1>5. ASSUME NEW k \in Keys PROVE Lasting(k)
  <2>1. Home[k] \in Nodes /\ gone[k] = Absent
    BY HomeIs DEF GCInit
  <2>2. Shows[Home[k]][k] = Absent
    BY <1>2, <2>1 DEF Shows
  <2> QED
    BY <1>3, <2>1, <2>2 DEF Lasting, HomeAhead, HomeTellsInTime, GoneSpreads, Settled,
                            Tombstone
<1> QED
  BY <1>1, <1>4, <1>5 DEF GCInv

\* What is assumed of every step.
LEMMA Before ==
    ASSUME GCInv, [GCNext]_gcVars
    PROVE  /\ TypeOK /\ TypeOK' /\ TombstonesHonoured /\ RemovalsFromHome /\ AroundIsWritten
           /\ Typed /\ Typed' /\ TimeTypeOK /\ (IInv /\ TimeTypeOK)'
           /\ ~severed' => ~severed /\ \A k \in Keys : Lasting(k)
<1>1. (IInv /\ TimeTypeOK)'
  BY TypedStep DEF GCInv
<1>2. TypeOK /\ TypeOK' /\ TombstonesHonoured /\ TimeTypeOK /\ TimeTypeOK'
  BY <1>1 DEF GCInv, IInv
<1>3. Typed /\ Typed'
  BY <1>2, TypedHolds, PTL
<1>4. severed' = severed \/ severed' = (severed \/ Severs)
  BY DEF GCNext, RegisterAgain, SetStatus, Withdraw, Heartbeat, Receive, Send,
         CleanupTombstones, Tick, gcVars, timeVars
<1> QED
  BY <1>1, <1>2, <1>3, <1>4 DEF GCInv, TimeTypeOK

\* Of the steps of a key, each kind keeps what is around written.
LEMMA StaysWritten ==
    ASSUME AroundIsWritten,
           \A k \in Keys : Onward(k) \/ \E n \in Nodes : Writes(n, k)
    PROVE  AroundIsWritten'
    BY DEF AroundIsWritten, Onward, Writes

\* An operation that writes k at node n.
LEMMA OperationKeeps ==
    ASSUME TombstonesOutlivePartitions, GCInv, [GCNext]_gcVars,
           NEW n \in Nodes, NEW k \in Keys,
           RegisterAgain(n, k) \/ SetStatus(n, k) \/ Withdraw(n, k)
    PROVE  GCInv'
<1> DEFINE x == Shows[n][k]
           y == Shows'[n][k]
<1>0. /\ TypeOK /\ TypeOK' /\ TombstonesHonoured /\ RemovalsFromHome /\ AroundIsWritten
      /\ Typed /\ Typed' /\ (IInv /\ TimeTypeOK)'
      /\ ~severed' => ~severed /\ \A l \in Keys : Lasting(l)
  BY Before
<1>1. /\ reg[n] \in Registry /\ x = View(reg[n], k)
      /\ gone \in [Keys -> (0 .. MaxApart + 1) \cup {Absent}]
      /\ Stamped /\ Waiting /\ heard' = heard
      /\ \A l \in Keys \ {k} : gone'[l] = gone[l]
  BY <1>0 DEF Typed, TypeOK, TimeTypeOK, Shows, RegisterAgain, SetStatus, Withdraw
<1>2. ASSUME NEW r, OneWrite(n, k, r),
             ~severed' /\ Writes(n, k) => Lasting(k)'
      PROVE  GCInv'
  <2>1. Writes(n, k) /\ (\A l \in Keys \ {k} : Onward(l)) /\ RemovalsFromHome'
    BY <1>0, <1>1, <1>2, WriteIsOnward
  <2>2. ~severed' => \A l \in Keys \ {k} : Lasting(l)'
    BY <1>0, <2>1, OnwardKeeps
  <2>3. AroundIsWritten'
    BY <1>0, <2>1, StaysWritten
  <2> QED
    BY <1>0, <1>2, <2>1, <2>2, <2>3 DEF GCInv
<1>3. ASSUME NEW r, OneWrite(n, k, r) PROVE y = View(r, k) /\ r \in Registry
  BY <1>0, <1>1, <1>3, WriteIsOnward DEF OneWrite
<1>4. CASE RegisterAgain(n, k) \/ SetStatus(n, k)
  <2>1. \E r : OneWrite(n, k, r) /\ Live(r, k)
    BY <1>0, <1>4, RegisterWrites, StatusWrites DEF RegisterAgain, SetStatus
  <2>2. PICK r : OneWrite(n, k, r) /\ Live(r, k)
    BY <2>1
  <2>3. ~Tombstone(y)
    BY <1>3, <2>2, TombstoneShown
  <2>4. gone'[k] = Absent
    BY <1>1, <1>4 DEF RegisterAgain, SetStatus
  <2>5. Writes(n, k) /\ k \notin contested' => x # Absent \/ Around[k] = {}
    <3>1. CASE SetStatus(n, k)
      BY <1>1, <3>1, ViewType DEF SetStatus, ChangeStatus
    <3>2. CASE RegisterAgain(n, k)
      BY <1>0, <1>1, <3>2 DEF RegisterAgain, Writes, AroundIsWritten
    <3> QED
      BY <1>4, <3>1, <3>2
  <2>6. ~severed' /\ Writes(n, k) => Lasting(k)'
    BY <1>0, <2>3, <2>4, <2>5, InstanceKeeps
  <2> QED
    BY <1>2, <2>2, <2>6
<1>5. CASE Withdraw(n, k)
  <2>1. /\ \E r : OneWrite(n, k, r) /\ View(r, k).content = Absent
        /\ Live(reg[n], k) \/ Buried(reg[n], k)
    BY <1>0, <1>5, RemoveWrites, RepeatWrites DEF Withdraw
  <2>2. PICK r : OneWrite(n, k, r) /\ View(r, k).content = Absent
    BY <2>1
  <2>3. gone'[k] = IF k \in contested' \/ gone[k] # Absent THEN gone[k] ELSE 0
    BY <1>1, <1>5 DEF Withdraw
  <2>4. x # Absent
    BY <1>1, <2>1, ViewType
  <2>5. Writes(n, k) => Tombstone(y)
    BY <1>3, <2>2, EntryIs DEF Writes
  <2>6. ~severed' /\ Writes(n, k) => Lasting(k)'
    BY <1>0, <2>3, <2>4, <2>5, WithdrawKeeps
  <2> QED
    BY <1>2, <2>2, <2>6
<1> QED
  BY <1>4, <1>5

LEMMA LastingStep ==
    ASSUME TombstonesOutlivePartitions, GCInv, [GCNext]_gcVars
    PROVE  GCInv'
<1>1. /\ TypeOK /\ TypeOK' /\ TombstonesHonoured /\ RemovalsFromHome /\ AroundIsWritten
      /\ Typed /\ Typed' /\ TimeTypeOK /\ (IInv /\ TimeTypeOK)'
      /\ ~severed' => ~severed /\ \A k \in Keys : Lasting(k)
  BY Before
<1>2. ASSUME NEW n \in Nodes, NEW k \in Keys,
             RegisterAgain(n, k) \/ SetStatus(n, k) \/ Withdraw(n, k)
      PROVE  GCInv'
  BY <1>2, OperationKeeps
<1>3. ASSUME \A k \in Keys : Onward(k), RemovalsFromHome' PROVE GCInv'
  <2>1. ~severed' => \A k \in Keys : Lasting(k)'
    BY <1>1, <1>3, OnwardKeeps
  <2>2. AroundIsWritten'
    BY <1>1, <1>3, StaysWritten
  <2> QED
    BY <1>1, <1>3, <2>1, <2>2 DEF GCInv
<1>4. ASSUME NEW m \in network, Receive(m) PROVE GCInv'
  <2>1. \A k \in Keys : Onward(k)
    BY <1>1, <1>4, ReceiveIsOnward
  <2>2. RemovalsFromHome'
    <3>1. queue' = queue /\ contested' = contested
      BY <1>4 DEF Receive, Deliver, DeliverSync, DeliverState, DeliverDeregister
    <3>2. \A d \in network' : d \in network \/ d.kind = "ACK"
      BY <1>4 DEF Receive, Deliver, DeliverSync, DeliverState, DeliverDeregister,
                  Transmit, Without, FullState
    <3> QED
      BY <1>1, <3>1, <3>2 DEF RemovalsFromHome, Removes
  <2> QED
    BY <1>3, <2>1, <2>2
<1>5. CASE Send
  <2>1. RemovalsFromHome'
    <3>1. CASE Keys = {}
      BY <3>1 DEF RemovalsFromHome
    <3>2. CASE Keys # {}
      BY <1>1, <1>5, <3>2, SendIsOnward
    <3> QED
      BY <3>1, <3>2
  <2> QED
    BY <1>1, <1>3, <1>5, <2>1, SendIsOnward
<1>6. ASSUME NEW n \in Nodes, CleanupTombstones(n) PROVE GCInv'
  <2>1. \A k \in Keys : Onward(k)
    BY <1>1, <1>6, CleanupIsOnward
  <2>2. RemovalsFromHome'
    BY <1>1, <1>6 DEF CleanupTombstones, RemovalsFromHome, Removes
  <2> QED
    BY <1>3, <2>1, <2>2
<1>7. CASE Tick
  <2>1. UNCHANGED <<reg, queue, network, written, contested>>
    BY <1>7 DEF Tick, vars
  <2>2. RemovalsFromHome'
    BY <1>1, <2>1 DEF RemovalsFromHome, Removes
  <2>3. AroundIsWritten'
    BY <1>1, <2>1 DEF AroundIsWritten, Around
  <2>4. ~severed' => \A k \in Keys : Lasting(k)'
    BY <1>1, <1>7, TickKeeps
  <2> QED
    BY <1>1, <2>2, <2>3, <2>4 DEF GCInv
<1>8. ASSUME Shows' = Shows, UNCHANGED <<queue, network, histories, timeVars>> PROVE GCInv'
  <2>1. RemovalsFromHome'
    BY <1>1, <1>8 DEF RemovalsFromHome, Removes
  <2> QED
    BY <1>3, <1>8, <2>1, SilentIsOnward
<1>9. ASSUME NEW n \in Nodes, NEW k \in Keys, Heartbeat(n, k) PROVE GCInv'
  <2>1. PICK f \in BOOLEAN : SetHeard(n, k, f)
    BY <1>9 DEF Heartbeat, RenewInstance, HeartbeatLapse
  <2>2. /\ Live(reg[n], k) /\ reg' = [reg EXCEPT ![n] = SetFresh(reg[n], k, f)]
        /\ UNCHANGED <<queue, network, histories, timeVars>>
    BY <1>9, <2>1 DEF SetHeard, Heartbeat
  <2>3. \A m \in Nodes, l \in Keys : View(reg'[m], l) = View(reg[m], l)
    BY <1>1, <2>2, FreshShows DEF TypeOK
  <2>4. Shows' = Shows
    BY <2>3 DEF Shows
  <2> QED
    BY <1>8, <2>2, <2>4
<1>10. CASE UNCHANGED gcVars
  <2>1. UNCHANGED <<reg, queue, network, histories, timeVars>>
    BY <1>10 DEF gcVars, vars
  <2>2. Shows' = Shows
    BY <2>1 DEF Shows
  <2> QED
    BY <1>8, <2>1, <2>2
<1> QED
  BY <1>2, <1>4, <1>5, <1>6, <1>7, <1>9, <1>10 DEF GCNext

\* A removal lasts, with tombstones that outlive the time two nodes are apart and
\* deltas wait: MaxApart after a removal that outdid all writes no node lists the
\* instance, and none does until it is registered or changed again, for all that nodes
\* drop tombstones at different moments and hand them to each other anew, that loops
\* evict at replicas, and that old deltas arrive late.
THEOREM GoneAlwaysStaysGone ==
    TombstonesOutlivePartitions => (GCSpec => []GoneStaysGone)
<1> SUFFICES ASSUME TombstonesOutlivePartitions PROVE GCSpec => []GoneStaysGone
  OBVIOUS
<1>1. GCInit => GCInv
  BY LastingInit
<1>2. GCInv /\ [GCNext]_gcVars => GCInv'
  BY LastingStep
<1>3. GCInv => GoneStaysGone
  <2> SUFFICES ASSUME GCInv, ~severed, NEW k \in Keys, gone[k] # Absent, gone[k] > MaxApart,
                      NEW n \in Nodes, Live(reg[n], k)
               PROVE  FALSE
    BY DEF GoneStaysGone
  <2>1. TypeOK /\ Lasting(k) /\ gone[k] \in Nat /\ MaxApart \in Nat
    BY TombstoneAssumption DEF GCInv, IInv, TimeTypeOK
  <2>2. NoneLive(k)
    BY <2>1 DEF Lasting, GoneSpreads
  <2>3. View(reg[n], k) \in Around[k]
    BY <2>1, AroundIs, ViewType DEF TypeOK
  <2> QED
    BY <2>1, <2>2, <2>3, TombstoneShown DEF NoneLive, TypeOK
<1> QED
  BY <1>1, <1>2, <1>3, PTL DEF GCSpec
=============================================================================
