--------------------------- MODULE MembershipProofs ---------------------------
(***************************************************************************)
(* Theorems about the member lists (module Membership), for any nodes and  *)
(* bounds.                                                                 *)
(***************************************************************************)
EXTENDS Membership, TLAPS

\* What every record of a node and of a datagram satisfies.
Record ==
    {r \in Member :
        /\ r.incarnation = 1 <=> r.state = "LEFT"
        /\ r.incarnation = -1 <=> r.state = "UNLISTED"
        /\ r.overdue => r.state \in {"SUSPECT", "DEAD"}}
Lists == [Nodes -> Record]
Datagrams == {d \in Message : d.src # d.dst /\ d.list \in Lists}

\* The record a probe may write to is one that a probe or a timeout left there.
ProbeIsSound ==
    \A n \in Nodes : probe[n].current =>
        /\ probe[n].target # n
        /\ members[n][probe[n].target].state \in {"ALIVE", "SUSPECT", "DEAD"}

OwnIsAliveOrLeft == \A n \in Nodes : members[n][n].state \in {"ALIVE", "LEFT"}

IInv ==
    /\ members \in [Nodes -> Lists]
    /\ running \in SUBSET Nodes
    /\ probe \in [Nodes -> Probe]
    /\ network \in SUBSET Datagrams
    /\ OwnIsAliveOrLeft
    /\ ProbeIsSound

OwnKept == \A n \in Nodes : members'[n][n] = members[n][n]

\* What a step must leave that is no Leave.
Kept == IInv' /\ OwnKept

-----------------------------------------------------------------------------
LEMMA Records ==
    /\ Unlisted \in Record
    /\ Newcomer \in Record
    /\ \A r \in Record : [r EXCEPT !.overdue = FALSE] \in Record
    /\ \A r \in Record : r.state \in {"SUSPECT", "DEAD"} => [r EXCEPT !.overdue = TRUE] \in Record
    /\ \A r \in Record : r.state = "ALIVE" => Left(r) \in Record
    /\ \A r \in Record : TimedOut(r) \in Record
    /\ \A r \in Record, s \in {"ALIVE", "SUSPECT"} :
          r.state \in {"ALIVE", "SUSPECT", "DEAD"}
             => [r EXCEPT !.state = s, !.overdue = FALSE] \in Record
<1>1. Unlisted \in Record /\ Newcomer \in Record
  BY DEF Unlisted, Newcomer, Record, Member
<1>2. \A r \in Record : [r EXCEPT !.overdue = FALSE] \in Record
  BY DEF Record, Member
<1>3. \A r \in Record : r.state \in {"SUSPECT", "DEAD"} => [r EXCEPT !.overdue = TRUE] \in Record
  BY DEF Record, Member
<1>4. ASSUME NEW r \in Record, r.state = "ALIVE"
      PROVE  Left(r) \in Record
  <2>1. r \in Member /\ r.incarnation = 0 /\ r.overdue = FALSE
    BY <1>4 DEF Record, Member
  <2>2. Left(r).state = "LEFT" /\ Left(r).incarnation = 1 /\ Left(r).overdue = r.overdue
    BY <2>1 DEF Left, Member
  <2>3. Left(r) \in Member
    <3>1. \A i \in {-1, 0, 1} : [r EXCEPT !.state = "LEFT", !.incarnation = i] \in Member
      BY <2>1 DEF Member
    <3>2. r.incarnation + 1 \in {-1, 0, 1}
      BY <2>1
    <3> QED
      BY <3>1, <3>2 DEF Left
  <2> QED
    BY <2>1, <2>2, <2>3 DEF Record
<1>5. \A r \in Record : TimedOut(r) \in Record
  BY <1>1 DEF Record, Member, TimedOut
<1>6. \A r \in Record, s \in {"ALIVE", "SUSPECT"} :
          r.state \in {"ALIVE", "SUSPECT", "DEAD"}
             => [r EXCEPT !.state = s, !.overdue = FALSE] \in Record
  BY DEF Record, Member
<1> QED
  BY <1>1, <1>2, <1>3, <1>4, <1>5, <1>6

\* Hearing of a node changes no state and no incarnation, and no own record.
LEMMA HeardKeeps ==
    ASSUME IInv, NEW pairs
    PROVE  /\ Heard(pairs) \in [Nodes -> Lists]
           /\ \A x, y \in Nodes : Heard(pairs)[x][y].state = members[x][y].state
           /\ \A x \in Nodes : Heard(pairs)[x][x] = members[x][x]
<1>1. \A x, y \in Nodes : members[x][y] \in Record
  BY DEF IInv, Lists
<1>2. \A x, y \in Nodes :
          Heard(pairs)[x][y] = IF <<x, y>> \in pairs THEN [members[x][y] EXCEPT !.overdue = FALSE]
                                                     ELSE members[x][y]
  BY DEF Heard
<1>3. \A x, y \in Nodes : Heard(pairs)[x][y] \in Record
  BY <1>1, <1>2, Records
<1>4. Heard(pairs) \in [Nodes -> Lists]
  BY <1>3 DEF Heard, Lists
<1>5. \A x, y \in Nodes : Heard(pairs)[x][y].state = members[x][y].state
  BY <1>1, <1>2 DEF Record, Member
<1>6. ASSUME NEW x \in Nodes
      PROVE  Heard(pairs)[x][x] = members[x][x]
  <2>1. members[x][x] \in Member /\ members[x][x].overdue = FALSE
    BY <1>1 DEF IInv, OwnIsAliveOrLeft, Record, Member
  <2>2. [members[x][x] EXCEPT !.overdue = FALSE] = members[x][x]
    BY <2>1 DEF Member
  <2> QED
    BY <1>2, <2>2
<1> QED
  BY <1>4, <1>5, <1>6

\* What may be sent stays a set of datagrams.
LEMMA TransmitType ==
    ASSUME NEW rest \in SUBSET Datagrams, NEW sent \in SUBSET Datagrams, Transmit(rest, sent)
    PROVE  network' \in SUBSET Datagrams
BY DEF Transmit

LEMMA WithoutType ==
    ASSUME IInv, NEW d, NEW rest \in Without(d)
    PROVE  rest \in SUBSET Datagrams
BY DEF Without, IInv

\* A warned probe.
LEMMA OutdatedProbe ==
    ASSUME probe \in [Nodes -> Probe], NEW n \in Nodes, NEW gone, Outdated(n, gone)
    PROVE  /\ probe' \in [Nodes -> Probe]
           /\ \A x \in Nodes : probe'[x].target = probe[x].target
           /\ \A x \in Nodes : probe'[x].current => probe[x].current
           /\ probe'[n].current => probe[n].target \notin gone
<1> DEFINE old == probe[n]
           b == old.current /\ old.target \notin gone
           new == [old EXCEPT !.current = b]
<1>1. old \in Probe /\ b \in BOOLEAN
  OBVIOUS
<1>2. probe' = [probe EXCEPT ![n] = new]
  BY DEF Outdated
<1> HIDE DEF b, old
<1>3. new \in Probe /\ new.target = old.target /\ new.current = b
  BY <1>1 DEF Probe
<1> HIDE DEF new
<1>4. probe'[n] = new /\ \A x \in Nodes \ {n} : probe'[x] = probe[x]
  BY <1>2
<1>5. probe' \in [Nodes -> Probe]
  BY <1>2, <1>3
<1>6. old = probe[n] /\ (b => old.current /\ old.target \notin gone)
  BY DEF b, old
<1> QED
  BY <1>3, <1>4, <1>5, <1>6

Judgeable == {"ALIVE", "SUSPECT", "DEAD"}

\* A node gets another list, its probe of whom it replaces or deletes being
\* warned, and who was alive, suspect or dead and is not replaced still is.
LEMMA ReplaceKeeps ==
    ASSUME IInv, NEW n \in Nodes, NEW gone \in SUBSET (Nodes \ {n}), NEW list \in Lists,
           members' = [members EXCEPT ![n] = list],
           list[n] = members[n][n],
           \A x \in Nodes \ gone : members[n][x].state \in Judgeable => list[x].state \in Judgeable,
           Outdated(n, gone),
           network' \in SUBSET Datagrams, running' = running
    PROVE  Kept
<1>1. members' \in [Nodes -> Lists]
  BY DEF IInv
<1>2. members'[n] = list /\ \A x \in Nodes \ {n} : members'[x] = members[x]
  BY DEF IInv
<1>3. OwnKept
  BY <1>2 DEF OwnKept
<1>4. /\ probe' \in [Nodes -> Probe]
      /\ \A x \in Nodes : probe'[x].target = probe[x].target
      /\ \A x \in Nodes : probe'[x].current => probe[x].current
      /\ probe'[n].current => probe[n].target \notin gone
  BY OutdatedProbe DEF IInv
<1>5. \A x \in Nodes : probe[x].target \in Nodes
  BY DEF IInv, Probe
<1>6. ProbeIsSound'
  BY <1>2, <1>4, <1>5 DEF ProbeIsSound, IInv, Judgeable
<1>7. OwnIsAliveOrLeft'
  BY <1>3 DEF OwnKept, IInv, OwnIsAliveOrLeft
<1> QED
  BY <1>1, <1>3, <1>4, <1>6, <1>7 DEF Kept, IInv

\* What merging gives.
LEMMA MergeType ==
    ASSUME IInv, NEW n \in Nodes, NEW m \in Nodes, NEW list \in Lists,
           NEW taken \in SUBSET (Nodes \ {n})
    PROVE  LET known == Merge(Heard({<<n, m>>})[n], list, taken)
           IN  /\ known \in Lists
               /\ known[n] = members[n][n]
               /\ \A x \in Nodes \ taken :
                     members[n][x].state \in Judgeable => known[x].state \in Judgeable
<1> DEFINE heard == Heard({<<n, m>>})[n]
           known == Merge(heard, list, taken)
<1>1. heard \in Lists /\ heard[n] = members[n][n]
      /\ \A x \in Nodes : heard[x].state = members[n][x].state
  BY HeardKeeps
<1>2. known = [x \in Nodes |-> IF x \in taken THEN list[x] ELSE heard[x]]
  BY <1>1 DEF Merge, Lists
<1>3. /\ known \in Lists
      /\ known[n] = members[n][n]
      /\ \A x \in Nodes \ taken :
                     members[n][x].state \in Judgeable => known[x].state \in Judgeable
  <2> HIDE DEF heard, known
  <2> QED
    BY <1>1, <1>2 DEF Lists
<1> QED
  BY <1>3

-----------------------------------------------------------------------------
LEMMA DeliverKeeps ==
    ASSUME IInv, NEW d \in network, Deliver(d)
    PROVE  Kept
<1> DEFINE n == d.dst
           taken == Takes(n, d.list)
           known == Merge(Heard({<<n, d.src>>})[n], d.list, taken)
<1>1. /\ d \in Datagrams /\ n \in Nodes /\ d.src \in Nodes \ {n} /\ d.list \in Lists
      /\ d.join \in BOOLEAN
  BY DEF IInv, Datagrams, Message
<1>2. taken \in SUBSET (Nodes \ {n})
  BY DEF Takes
<1>3. running' = running
  BY DEF Deliver
<1> HIDE DEF n, taken
<1>4. /\ known \in Lists
      /\ known[n] = members[n][n]
      /\ \A x \in Nodes \ taken :
                     members[n][x].state \in Judgeable => known[x].state \in Judgeable
  BY <1>1, <1>2, MergeType
<1>5. CASE DeliverSync(d)
  <2> DEFINE ack == [d EXCEPT !.kind = "ACK", !.src = n, !.dst = d.src, !.list = known]
  <2>1. PICK rest \in Without(d) : Transmit(rest, {ack})
    BY <1>5 DEF DeliverSync, n, taken
  <2>2. /\ members' = [members EXCEPT ![n] = known]
        /\ Outdated(n, taken)
    BY <1>5 DEF DeliverSync, n, taken
  <2> HIDE DEF known
  <2>3. known \in List
    BY <1>4 DEF Lists, List, Record
  <2>4. ack \in Datagrams
    BY <1>1, <1>4, <2>3 DEF Datagrams, Message
  <2> HIDE DEF ack
  <2>5. network' \in SUBSET Datagrams
    BY <2>1, <2>4, WithoutType, TransmitType
  <2> QED
    BY <1>1, <1>2, <1>3, <1>4, <2>2, <2>5, ReplaceKeeps
<1>6. CASE DeliverAck(d)
  <2>1. network' \in SUBSET Datagrams
    BY <1>6, WithoutType DEF DeliverAck, n, taken
  <2>2. CASE ~d.join
    <3>1. /\ members' = [members EXCEPT ![n] = known]
          /\ Outdated(n, taken)
      BY <1>6, <2>2 DEF DeliverAck, n, taken
    <3> HIDE DEF known
    <3> QED
      BY <1>1, <1>2, <1>3, <1>4, <2>1, <3>1, ReplaceKeeps
  <2>3. CASE d.join
    <3> DEFINE new == [known EXCEPT ![d.src] = Newcomer]
    <3>1. /\ members' = [members EXCEPT ![n] = new]
          /\ Outdated(n, taken \cup {d.src})
      BY <1>6, <2>3 DEF DeliverAck, n, taken
    <3> HIDE DEF known
    <3>2. /\ new \in Lists
          /\ new[n] = members[n][n]
          /\ \A x \in Nodes \ (taken \cup {d.src}) :
                     members[n][x].state \in Judgeable => new[x].state \in Judgeable
      BY <1>1, <1>4, Records DEF Lists
    <3> HIDE DEF new
    <3>3. taken \cup {d.src} \in SUBSET (Nodes \ {n})
      BY <1>1, <1>2
    <3> QED
      BY <1>1, <1>3, <2>1, <3>1, <3>2, <3>3, ReplaceKeeps
  <2> QED
    BY <2>2, <2>3
<1>7. CASE DeliverLateAck(d)
  <2>1. network' \in SUBSET Datagrams
    BY <1>7, WithoutType DEF DeliverLateAck, n
  <2>2. members' = Heard({<<n, d.src>>}) /\ probe' = probe
    BY <1>7 DEF DeliverLateAck, n
  <2>3. /\ members' \in [Nodes -> Lists]
        /\ \A x, y \in Nodes : members'[x][y].state = members[x][y].state
        /\ OwnKept
    BY <2>2, HeardKeeps DEF OwnKept
  <2>4. ProbeIsSound'
    BY <2>2, <2>3 DEF ProbeIsSound, IInv, Probe
  <2> QED
    BY <1>3, <2>1, <2>2, <2>3, <2>4 DEF Kept, OwnKept, IInv, OwnIsAliveOrLeft
<1>8. CASE DeliverLeave(d)
  <2> DEFINE one == taken \cap {d.src}
             new == Merge(Heard({<<n, d.src>>})[n], d.list, one)
  <2>1. network' \in SUBSET Datagrams
    BY <1>8, WithoutType DEF DeliverLeave, n, taken
  <2>2. one \in SUBSET (Nodes \ {n})
    BY <1>2
  <2>3. members' = [members EXCEPT ![n] = new] /\ Outdated(n, one)
    BY <1>8 DEF DeliverLeave, n, taken
  <2>4. /\ new \in Lists
        /\ new[n] = members[n][n]
        /\ \A x \in Nodes \ one :
                     members[n][x].state \in Judgeable => new[x].state \in Judgeable
    BY <1>1, <2>2, MergeType
  <2> HIDE DEF one, new
  <2> QED
    BY <1>1, <1>3, <2>1, <2>2, <2>3, <2>4, ReplaceKeeps
<1> QED
  BY <1>5, <1>6, <1>7, <1>8 DEF Deliver

-----------------------------------------------------------------------------
LEMMA SendSyncKeeps ==
    ASSUME IInv, NEW n \in Nodes, NEW m \in Nodes, SendSync(n, m) \/ Join(n, m)
    PROVE  Kept
<1>1. n # m /\ UNCHANGED <<members, running, probe>>
  BY DEF SendSync, Join, Others
<1>2. PICK join \in BOOLEAN : Transmit(network, {Sync(n, m, join)})
  BY DEF SendSync, Join
<1>3. members[n] \in Lists /\ members[n] \in List
  BY DEF IInv, Lists, List, Record
<1>4. Sync(n, m, join) \in Datagrams
  BY <1>1, <1>3 DEF Sync, Datagrams, Message
<1>5. network' \in SUBSET Datagrams
  <2> HIDE DEF IInv
  <2>1. network \in SUBSET Datagrams
    BY DEF IInv
  <2> QED
    BY <1>2, <1>4, <2>1, TransmitType
<1> QED
  BY <1>1, <1>5 DEF Kept, OwnKept, IInv, OwnIsAliveOrLeft, ProbeIsSound

LEMMA VanishKeeps ==
    ASSUME IInv, NEW d \in network, Vanish(d)
    PROVE  Kept
BY DEF Vanish, Kept, OwnKept, IInv, OwnIsAliveOrLeft, ProbeIsSound

LEMMA StopKeeps ==
    ASSUME IInv, NEW n \in Nodes, Stop(n)
    PROVE  Kept
<1>1. Idle(n) \in Probe /\ Idle(n).current = FALSE
  BY DEF Idle, Probe
<1>2. probe' \in [Nodes -> Probe] /\ \A x \in Nodes : probe'[x] = IF x = n THEN Idle(n) ELSE probe[x]
  BY <1>1 DEF Stop, IInv
<1>3. ProbeIsSound'
  BY <1>1, <1>2 DEF Stop, IInv, ProbeIsSound
<1> QED
  BY <1>2, <1>3 DEF Stop, Kept, OwnKept, IInv, OwnIsAliveOrLeft

\* Its own record is what a leaving node changes, and no probe holds it.
LEMMA LeaveKeeps ==
    ASSUME IInv, NEW n \in Nodes, Leave(n)
    PROVE  IInv' /\ \A m \in Nodes \ {n} : members'[m][m] = members[m][m]
<1> DEFINE list == [members[n] EXCEPT ![n] = Left(@)]
           datagram(m) == [kind |-> "LEAVE", src |-> n, dst |-> m, join |-> FALSE, list |-> list]
<1>1. members[n] \in Lists /\ members[n][n].state = "ALIVE"
  BY DEF Leave, IInv
<1>2. Left(members[n][n]) \in Record /\ Left(members[n][n]).state = "LEFT"
  <2>1. members[n][n] \in Record
    BY <1>1 DEF Lists
  <2>2. Left(members[n][n]).state = "LEFT"
    BY <2>1 DEF Left, Record, Member
  <2> QED
    BY <1>1, <2>1, <2>2, Records
<1>3. list \in Lists /\ list \in List
      /\ list[n].state = "LEFT" /\ \A x \in Nodes \ {n} : list[x] = members[n][x]
  BY <1>1, <1>2 DEF Lists, List, Record
<1>4. members' = [members EXCEPT ![n] = list] /\ UNCHANGED <<running, probe>>
  BY DEF Leave
<1>5. PICK targets \in SUBSET Others(n) : Transmit(network, {datagram(m) : m \in targets})
  BY DEF Leave
<1> HIDE DEF list
<1>6. \A m \in targets : datagram(m) \in Datagrams
  BY <1>3, <1>5 DEF Others, Datagrams, Message
<1>7. network' \in SUBSET Datagrams
  <2>1. {datagram(m) : m \in targets} \in SUBSET Datagrams
    BY <1>6
  <2>2. network \in SUBSET Datagrams
    BY DEF IInv
  <2> HIDE DEF datagram
  <2> QED
    BY <1>5, <2>1, <2>2, TransmitType
<1>8. /\ members' \in [Nodes -> Lists]
      /\ members'[n] = list
      /\ \A x \in Nodes \ {n} : members'[x] = members[x]
  BY <1>3, <1>4 DEF IInv
<1>9. OwnIsAliveOrLeft'
  BY <1>3, <1>8 DEF IInv, OwnIsAliveOrLeft
<1>10. ProbeIsSound'
  <2>1. \A x \in Nodes : probe[x].target \in Nodes
    BY DEF IInv, Probe
  <2> QED
    BY <1>3, <1>4, <1>8, <2>1 DEF IInv, ProbeIsSound
<1> QED
  BY <1>4, <1>7, <1>8, <1>9, <1>10 DEF IInv

-----------------------------------------------------------------------------
\* A probe that judges its target, or only hears of others, and goes on, ends or
\* asks proxies, but never takes up another record.
LEMMA JudgedKeeps ==
    ASSUME IInv, NEW n \in Nodes, NEW pairs, NEW state \in {"ALIVE", "SUSPECT"},
           members' = Heard(pairs) \/ members' = Judged(n, Heard(pairs), state),
           probe' \in [Nodes -> Probe],
           \A x \in Nodes : probe'[x].current => probe[x].current /\ probe'[x].target = probe[x].target,
           UNCHANGED <<running, network>>
    PROVE  Kept
<1> DEFINE t == probe[n].target
           heard == Heard(pairs)
           r == [heard[n][t] EXCEPT !.state = state, !.overdue = FALSE]
<1>1. /\ heard \in [Nodes -> Lists]
      /\ \A x, y \in Nodes : heard[x][y].state = members[x][y].state
      /\ \A x \in Nodes : heard[x][x] = members[x][x]
  BY HeardKeeps
<1>2. \A x \in Nodes : probe[x].target \in Nodes
  BY DEF IInv, Probe
<1>3. CASE members' = heard
  <2>1. ProbeIsSound'
    BY <1>1, <1>2, <1>3 DEF ProbeIsSound, IInv
  <2> QED
    BY <1>1, <1>3, <2>1 DEF Kept, OwnKept, IInv, OwnIsAliveOrLeft
<1>4. CASE probe[n].current /\ members' = Judged(n, heard, state)
  <2>1. t \in Nodes \ {n} /\ heard[n][t].state \in {"ALIVE", "SUSPECT", "DEAD"}
    BY <1>1, <1>2, <1>4 DEF IInv, ProbeIsSound
  <2>2. heard[n] \in Lists /\ heard[n][t] \in Record
    BY <1>1, <2>1 DEF Lists
  <2>3. r \in Record /\ r.state = state
    <3>1. r \in Record
      BY <2>1, <2>2, Records
    <3>2. r.state = state
      BY <2>2 DEF Record, Member
    <3> QED
      BY <3>1, <3>2
  <2>4. members' = [heard EXCEPT ![n] = [heard[n] EXCEPT ![t] = r]]
    <3>1. members' = [heard EXCEPT ![n][t].state = state, ![n][t].overdue = FALSE]
      BY <1>4 DEF Judged
    <3> HIDE DEF heard, t
    <3> QED
      BY <1>1, <2>1, <2>2, <3>1 DEF Lists, Record, Member
  <2> HIDE DEF heard, t, r
  <2>5. /\ members' \in [Nodes -> Lists]
        /\ members'[n][t].state = state
        /\ \A x, y \in Nodes : x # n \/ y # t => members'[x][y] = heard[x][y]
    BY <1>1, <2>1, <2>2, <2>3, <2>4 DEF Lists
  <2>6. OwnKept
    BY <1>1, <2>1, <2>5 DEF OwnKept
  <2>7. ProbeIsSound'
    <3> SUFFICES ASSUME NEW x \in Nodes, probe'[x].current
                 PROVE  /\ probe'[x].target # x
                        /\ members'[x][probe'[x].target].state \in {"ALIVE", "SUSPECT", "DEAD"}
      BY DEF ProbeIsSound
    <3> DEFINE y == probe[x].target
    <3>1. /\ probe'[x].target = y /\ y \in Nodes /\ y # x
          /\ members[x][y].state \in {"ALIVE", "SUSPECT", "DEAD"}
      BY <1>2 DEF IInv, ProbeIsSound
    <3> HIDE DEF y
    <3> QED
      BY <1>1, <2>5, <3>1
  <2> QED
    BY <2>5, <2>6, <2>7 DEF Kept, OwnKept, IInv, OwnIsAliveOrLeft
<1> QED
  BY <1>3, <1>4 DEF Judged

LEMMA ProbeKeeps ==
    ASSUME IInv, NEW n \in Nodes, NEW m \in Nodes,
           \/ StartProbe(n, m) \/ ProbeSucceeds(n) \/ ProbeFails(n)
           \/ ProxyAnswers(n, m) \/ ProxyFails(n, m)
    PROVE  Kept
<1>0. Idle(n) \in Probe /\ Idle(n).current = FALSE /\ probe[n] \in Probe
  BY DEF Idle, Probe, IInv
<1>1. CASE StartProbe(n, m)
  <2> DEFINE new == [phase |-> "DIRECT", target |-> m, current |-> TRUE,
                     proxies |-> Others(n) \ {m}]
  <2>1. m # n /\ m \in Nodes /\ members[n][m].state = "ALIVE" /\ UNCHANGED <<members, running, network>>
        /\ probe' = [probe EXCEPT ![n] = new]
    BY <1>1 DEF StartProbe, Others
  <2>2. new \in Probe /\ new.target = m
    BY DEF Probe, Others
  <2> HIDE DEF new
  <2>3. probe' \in [Nodes -> Probe] /\ probe'[n] = new
        /\ \A x \in Nodes \ {n} : probe'[x] = probe[x]
    BY <2>1, <2>2 DEF IInv
  <2>4. ProbeIsSound'
    BY <2>1, <2>2, <2>3 DEF ProbeIsSound, IInv
  <2> QED
    BY <2>1, <2>3, <2>4 DEF Kept, OwnKept, IInv, OwnIsAliveOrLeft
<1>2. ASSUME NEW p \in Probe, probe' = [probe EXCEPT ![n] = p],
             p.current => probe[n].current /\ p.target = probe[n].target
      PROVE  /\ probe' \in [Nodes -> Probe]
             /\ \A x \in Nodes :
                   probe'[x].current => probe[x].current /\ probe'[x].target = probe[x].target
  BY <1>2 DEF IInv
<1>3. CASE ProbeSucceeds(n)
  <2>1. PICK pairs : members' = Heard(pairs)
    BY <1>3 DEF ProbeSucceeds
  <2>2. probe' = [probe EXCEPT ![n] = Idle(n)] /\ UNCHANGED <<running, network>>
    BY <1>3 DEF ProbeSucceeds
  <2> QED
    BY <1>0, <1>2, <2>1, <2>2, JudgedKeeps
<1>4. CASE ProbeFails(n)
  <2>1. PICK pairs : members' = Judged(n, Heard(pairs), "SUSPECT")
    BY <1>4 DEF ProbeFails
  <2>2. UNCHANGED <<running, network>>
    BY <1>4 DEF ProbeFails
  <2>3. PICK p \in Probe : /\ probe' = [probe EXCEPT ![n] = p]
                           /\ p.current => probe[n].current /\ p.target = probe[n].target
    <3>1. CASE probe' = [probe EXCEPT ![n] = Idle(n)]
      BY <1>0, <3>1
    <3>2. CASE probe' # [probe EXCEPT ![n] = Idle(n)]
      <4>1. PICK asked \in SUBSET probe[n].proxies :
                probe' = [probe EXCEPT ![n].phase = "INDIRECT", ![n].proxies = asked]
        BY <1>4, <3>2 DEF ProbeFails
      <4> DEFINE new == [probe[n] EXCEPT !.phase = "INDIRECT", !.proxies = asked]
      <4>2. probe' = [probe EXCEPT ![n] = new]
        BY <4>1 DEF IInv
      <4>3. new \in Probe /\ new.current = probe[n].current /\ new.target = probe[n].target
        BY <1>0, <4>1 DEF Probe
      <4> QED
        BY <4>2, <4>3
    <3> QED
      BY <3>1, <3>2
  <2> QED
    BY <1>2, <2>1, <2>2, <2>3, JudgedKeeps
<1>5. CASE ProxyAnswers(n, m)
  <2>1. PICK pairs : members' = Judged(n, Heard(pairs), "ALIVE")
    BY <1>5 DEF ProxyAnswers
  <2>2. probe' = [probe EXCEPT ![n] = Idle(n)] /\ UNCHANGED <<running, network>>
    BY <1>5 DEF ProxyAnswers
  <2> QED
    BY <1>0, <1>2, <2>1, <2>2, JudgedKeeps
<1>6. CASE ProxyFails(n, m)
  <2>1. PICK pairs : members' = Heard(pairs)
    BY <1>6 DEF ProxyFails
  <2>2. UNCHANGED <<running, network>>
    BY <1>6 DEF ProxyFails
  <2> DEFINE rest == [probe[n] EXCEPT !.proxies = probe[n].proxies \ {m}]
  <2>3. rest \in Probe /\ rest.current = probe[n].current /\ rest.target = probe[n].target
    BY <1>0 DEF Probe
  <2>4. probe' = [probe EXCEPT ![n] = IF probe[n].proxies = {m} THEN Idle(n) ELSE rest]
    BY <1>6 DEF ProxyFails, IInv
  <2> HIDE DEF rest
  <2>5. PICK p \in Probe : /\ probe' = [probe EXCEPT ![n] = p]
                           /\ p.current => probe[n].current /\ p.target = probe[n].target
    BY <1>0, <2>3, <2>4
  <2> QED
    BY <1>2, <2>1, <2>2, <2>5, JudgedKeeps
<1> QED
  BY <1>1, <1>3, <1>4, <1>5, <1>6

-----------------------------------------------------------------------------
LEMMA LapseKeeps ==
    ASSUME IInv, NEW n \in Nodes, NEW m \in Nodes, Lapse(n, m)
    PROVE  Kept
<1> DEFINE r == [members[n][m] EXCEPT !.overdue = TRUE]
           list == [members[n] EXCEPT ![m] = r]
<1>1. members[n] \in Lists /\ members[n][m] \in Record
      /\ members[n][m].state \in {"SUSPECT", "DEAD"}
  BY DEF Lapse, IInv, Lists
<1>2. r \in Record /\ r.state = members[n][m].state
  <2>1. r.state = members[n][m].state
    BY <1>1 DEF Record, Member
  <2> QED
    BY <1>1, <2>1, Records
<1>3. n # m
  BY <1>1 DEF IInv, OwnIsAliveOrLeft
<1>4. members' = [members EXCEPT ![n] = list] /\ UNCHANGED <<running, probe, network>>
  BY DEF Lapse, IInv
<1> HIDE DEF r
<1>5. /\ list \in Lists /\ list[n] = members[n][n]
      /\ \A x \in Nodes : list[x].state = members[n][x].state
  BY <1>1, <1>2, <1>3 DEF Lists
<1> HIDE DEF list
<1>6. /\ members' \in [Nodes -> Lists] /\ OwnKept
      /\ \A x, y \in Nodes : members'[x][y].state = members[x][y].state
  BY <1>4, <1>5 DEF IInv, OwnKept
<1>7. ProbeIsSound'
  <2>1. \A x \in Nodes : probe[x].target \in Nodes
    BY DEF IInv, Probe
  <2> QED
    BY <1>4, <1>6, <2>1 DEF ProbeIsSound, IInv
<1> QED
  BY <1>4, <1>6, <1>7 DEF Kept, OwnKept, IInv, OwnIsAliveOrLeft

LEMMA SuspectTimeoutKeeps ==
    ASSUME IInv, NEW n \in Nodes, SuspectTimeout(n)
    PROVE  Kept
<1> DEFINE gone == {m \in {x \in Nodes \ {n} : members[n][x].overdue} : members[n][m].state = "DEAD"}
           list == [m \in Nodes |-> IF m = n THEN members[n][m] ELSE TimedOut(members[n][m])]
<1>1. members[n] \in Lists /\ \A x \in Nodes : members[n][x] \in Record
  BY DEF IInv, Lists
<1>2. \A x \in Nodes : TimedOut(members[n][x]) \in Record
  BY <1>1, Records
<1>3. members' = [members EXCEPT ![n] = list] /\ Outdated(n, gone)
      /\ UNCHANGED <<running, network>>
  BY DEF SuspectTimeout, IInv
<1>4. gone \in SUBSET (Nodes \ {n})
  OBVIOUS
<1>5. list \in Lists /\ list[n] = members[n][n]
  BY <1>1, <1>2 DEF Lists
<1>6. \A x \in Nodes \ gone : members[n][x].state \in Judgeable => list[x].state \in Judgeable
  BY <1>1 DEF Judgeable, TimedOut, Record, Member
<1>7. network' \in SUBSET Datagrams /\ running' = running
  BY <1>3 DEF IInv
<1> HIDE DEF gone, list
<1> QED
  BY <1>3, <1>4, <1>5, <1>6, <1>7, ReplaceKeeps

-----------------------------------------------------------------------------
LEMMA InitHolds == Init => IInv
<1> SUFFICES ASSUME Init PROVE IInv
  OBVIOUS
<1>1. members \in [Nodes -> Lists]
  BY Records DEF Init, Lists
<1>2. \A n \in Nodes : Idle(n) \in Probe /\ Idle(n).current = FALSE
  BY DEF Idle, Probe
<1>3. probe \in [Nodes -> Probe] /\ ProbeIsSound
  BY <1>2 DEF Init, ProbeIsSound
<1>4. OwnIsAliveOrLeft
  BY DEF Init, OwnIsAliveOrLeft, Newcomer
<1> QED
  BY <1>1, <1>3, <1>4 DEF Init, IInv

\* Every step keeps the invariant, and changes an own record only by Leave.
LEMMA StepKeeps ==
    ASSUME IInv, [Next]_vars
    PROVE  IInv' /\ \A n \in Nodes : members'[n][n] # members[n][n] => Leave(n)
<1>1. SUFFICES ASSUME ~\E n \in Nodes : Leave(n)
               PROVE  Kept
  BY <1>1, LeaveKeeps DEF Kept, OwnKept
<1>2. CASE UNCHANGED vars
  BY <1>2 DEF vars, Kept, OwnKept, IInv, OwnIsAliveOrLeft, ProbeIsSound
<1>3. CASE \E n \in Nodes : NodeNext(n)
  BY <1>1, <1>3, SendSyncKeeps, StopKeeps, ProbeKeeps, LapseKeeps, SuspectTimeoutKeeps DEF NodeNext
<1>4. CASE \E d \in network : Deliver(d)
  BY <1>4, DeliverKeeps
<1>5. CASE \E d \in network : Vanish(d)
  BY <1>5, VanishKeeps
<1> QED
  BY <1>2, <1>3, <1>4, <1>5 DEF Next

LEMMA Invariant == Spec => []IInv
<1>1. IInv /\ [Next]_vars => IInv'
  BY StepKeeps
<1> QED
  BY <1>1, InitHolds, PTL DEF Spec

-----------------------------------------------------------------------------
\* The variables of Membership keep their types, time runs only for suspect or
\* dead members, and a probe writes only to a record that is listed.
THEOREM TypeCorrect == Spec => []TypeOK
<1>1. IInv => TypeOK
  <2> SUFFICES ASSUME IInv PROVE TypeOK
    OBVIOUS
  <2>1. members \in [Nodes -> List] /\ network \in SUBSET Message
    BY DEF IInv, Lists, List, Record, Datagrams
  <2>2. \A n, m \in Nodes : members[n][m].overdue => members[n][m].state \in {"SUSPECT", "DEAD"}
    BY DEF IInv, Lists, Record
  <2>3. \A n \in Nodes : probe[n].current => members[n][probe[n].target].state # "UNLISTED"
    BY DEF IInv, ProbeIsSound
  <2> QED
    BY <2>1, <2>2, <2>3 DEF IInv, TypeOK
<1> QED
  BY <1>1, Invariant, PTL

\* Whoever leaves, stops, probes and joins, a member that announced its leaving
\* is listed as LEFT wherever its announcement has come.
THEOREM LeavingStaysFinal == Spec => []LeavingIsFinal
<1>1. IInv => LeavingIsFinal
  BY DEF IInv, Lists, Record, LeavingIsFinal
<1> QED
  BY <1>1, Invariant, PTL

\* Nothing but its own leaving changes what a node says of itself.
THEOREM OwnRecordStaysOwn == Spec => OwnRecordIsOwn
<1>1. IInv /\ [Next]_vars => [\A n \in Nodes : members'[n][n] # members[n][n] => Leave(n)]_vars
  BY StepKeeps
<1> QED
  BY <1>1, Invariant, PTL DEF OwnRecordIsOwn, Spec
=============================================================================
