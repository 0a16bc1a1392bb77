------------------------------ MODULE Membership ------------------------------
(***************************************************************************)
(* The members each node lists and how it learns that one is gone          *)
(* (sdiscovery/gossip.py): joining, leaving, probes, indirect probes, the  *)
(* suspicion timeout and the merging of member lists.                      *)
(*                                                                         *)
(* A probe holds a reference to the record of its target while it waits.   *)
(* When the record is replaced or deleted meanwhile, the probe writes to a *)
(* record nobody reads.  Times are reduced to whether last_seen is longer  *)
(* ago than the timeout of the record's state.                             *)
(***************************************************************************)
EXTENDS Integers, FiniteSets

CONSTANTS
    Nodes,
    MayLeave,     \* nodes that may call leave
    MayStop,      \* nodes that may stop without a word
    Probers,      \* bound on the nodes whose probe loop takes steps
    Fanout,       \* proxies of an indirect probe, receivers of a broadcast
    MaxInFlight,  \* bound on the datagrams in the network
    MayDuplicate  \* whether the network duplicates datagrams

ASSUME MembershipAssumption ==
    /\ {MayLeave, MayStop, Probers} \subseteq SUBSET Nodes
    /\ {Fanout, MaxInFlight} \subseteq Nat
    /\ MayDuplicate \in BOOLEAN

VARIABLES
    members,  \* _members of each node
    running,  \* the nodes whose gossip runs
    probe,    \* the probe each node is at
    network   \* the SYNC, ACK and LEAVE datagrams in flight

vars == <<members, running, probe, network>>

(* A node that is not listed has incarnation -1, less than any listed one has. *)
Member == [state : {"ALIVE", "SUSPECT", "DEAD", "LEFT", "UNLISTED"},
           incarnation : {-1, 0, 1}, overdue : BOOLEAN]
Unlisted == [state |-> "UNLISTED", incarnation |-> -1, overdue |-> FALSE]
Newcomer == [state |-> "ALIVE", incarnation |-> 0, overdue |-> FALSE]
List == [Nodes -> Member]

(* current: the target's record is still the one that is listed.             *)
(* proxies: the other members alive when the probe began; of an indirect     *)
(* probe those it has not asked yet.                                         *)
Probe == [phase : {"IDLE", "DIRECT", "INDIRECT"}, target : Nodes,
          current : BOOLEAN, proxies : SUBSET Nodes]
Idle(n) == [phase |-> "IDLE", target |-> n, current |-> FALSE, proxies |-> {}]

Message == [kind : {"SYNC", "ACK", "LEAVE"}, src : Nodes, dst : Nodes,
            join : BOOLEAN, list : List]

\* As if the own record were among them.
Alive(n) == {m \in Nodes : members[n][m].state = "ALIVE"}

Others(n) == {m \in Nodes \ {n} : members[n][m].state = "ALIVE"}

Init ==
    /\ members = [n \in Nodes |-> [m \in Nodes |-> IF m = n THEN Newcomer ELSE Unlisted]]
    /\ running = Nodes
    /\ probe = [n \in Nodes |-> Idle(n)]
    /\ network = {}

-----------------------------------------------------------------------------
(* Datagrams *)

\* What is sent may be lost, so any part of it arrives.
Transmit(rest, sent) ==
    \E arriving \in SUBSET sent :
        /\ network' = rest \cup arriving
        /\ Cardinality(network') <= MaxInFlight

Without(d) == IF MayDuplicate THEN {network, network \ {d}} ELSE {network \ {d}}

\* The lists when y was heard at x for each pair <<x, y>>: last_seen is now.
Heard(pairs) ==
    [x \in Nodes |-> [y \in Nodes |->
        IF <<x, y>> \in pairs THEN [members[x][y] EXCEPT !.overdue = FALSE]
                              ELSE members[x][y]]]

\* A probe of n of one of these goes on with a record that is not listed.
Outdated(n, targets) == probe' = [probe EXCEPT ![n].current = @ /\ probe[n].target \notin targets]

Newer(r, s) == r.incarnation > s.incarnation

\* The member list of _apply_sync, and the one record of a COMPOUND message.
Takes(n, list) == {m \in Nodes \ {n} : Newer(list[m], members[n][m])}
Merge(known, list, taken) == [m \in DOMAIN known |-> IF m \in taken THEN list[m] ELSE known[m]]

Sync(n, m, join) == [kind |-> "SYNC", src |-> n, dst |-> m, join |-> join, list |-> members[n]]

\* _send_sync of the sync loop.
SendSync(n, m) ==
    /\ n \in running /\ m \in Others(n)
    /\ Transmit(network, {Sync(n, m, FALSE)})
    /\ UNCHANGED <<members, running, probe>>

\* _send_sync of a join, to an address that a client gave.
Join(n, m) ==
    /\ n \in running /\ n # m
    /\ Transmit(network, {Sync(n, m, TRUE)})
    /\ UNCHANGED <<members, running, probe>>

DeliverSync(d) ==
    LET n == d.dst
        taken == Takes(n, d.list)
        known == Merge(Heard({<<n, d.src>>})[n], d.list, taken)
    IN  /\ d.kind = "SYNC"
        /\ members' = [members EXCEPT ![n] = known]
        /\ Outdated(n, taken)
        /\ \E rest \in Without(d) :
              Transmit(rest, {[d EXCEPT !.kind = "ACK", !.src = n, !.dst = d.src, !.list = known]})

\* An answer in time.  A join then lists the one that answered anew.
DeliverAck(d) ==
    LET n == d.dst
        taken == Takes(n, d.list)
        known == Merge(Heard({<<n, d.src>>})[n], d.list, taken)
    IN  /\ d.kind = "ACK"
        /\ members' = [members EXCEPT ![n] =
                          IF d.join THEN [known EXCEPT ![d.src] = Newcomer] ELSE known]
        /\ Outdated(n, IF d.join THEN taken \cup {d.src} ELSE taken)
        /\ network' \in Without(d)

\* Nobody waits for the answer any more.
DeliverLateAck(d) ==
    /\ d.kind = "ACK"
    /\ members' = Heard({<<d.dst, d.src>>})
    /\ network' \in Without(d)
    /\ UNCHANGED probe

\* A COMPOUND message: of the list it carries only the sender's record.
DeliverLeave(d) ==
    LET n == d.dst
        taken == Takes(n, d.list) \cap {d.src}
    IN  /\ d.kind = "LEAVE"
        /\ members' = [members EXCEPT ![n] = Merge(Heard({<<n, d.src>>})[n], d.list, taken)]
        /\ Outdated(n, taken)
        /\ network' \in Without(d)

Deliver(d) ==
    /\ d.dst \in running
    /\ DeliverSync(d) \/ DeliverAck(d) \/ DeliverLateAck(d) \/ DeliverLeave(d)
    /\ UNCHANGED running

\* A datagram to a node that has stopped.
Vanish(d) ==
    /\ d.dst \notin running
    /\ network' = network \ {d}
    /\ UNCHANGED <<members, running, probe>>

-----------------------------------------------------------------------------
(* Leaving and stopping *)

\* As if the incarnation were raised once more.
LeftTwice(r) == [r EXCEPT !.state = "LEFT", !.incarnation = @ + 2]

Left(r) == [r EXCEPT !.state = "LEFT", !.incarnation = @ + 1]

\* leave, up to the call of stop; it is called once.
Leave(n) ==
    LET list == [members[n] EXCEPT ![n] = Left(@)]
    IN  /\ n \in running \cap MayLeave
        /\ members[n][n].state = "ALIVE"
        /\ members' = [members EXCEPT ![n] = list]
        /\ \E targets \in SUBSET Others(n) :
              /\ Cardinality(targets) <= Fanout
              /\ Transmit(network, {[kind |-> "LEAVE", src |-> n, dst |-> m, join |-> FALSE,
                                     list |-> list] : m \in targets})
        /\ UNCHANGED <<running, probe>>

\* stop, at the end of leave or of the process.
Stop(n) ==
    /\ n \in running
    /\ n \in MayStop \/ members[n][n].state = "LEFT"
    /\ running' = running \ {n}
    /\ probe' = [probe EXCEPT ![n] = Idle(n)]
    /\ UNCHANGED <<members, network>>

-----------------------------------------------------------------------------
(* Probes.  A request and its answer are one step: only the time of the last  *)
(* contact depends on how far they get.                                       *)

Reached == {"NOTHING", "REQUEST", "ANSWER"}

\* Who heard whom when a request of x to y got this far.
Contacts(x, y, reached) ==
    CASE reached = "NOTHING" -> {}
      [] reached = "REQUEST" -> {<<y, x>>}
      [] reached = "ANSWER" -> {<<y, x>>, <<x, y>>}

Possible(y, reached) == reached # "NOTHING" => y \in running

StartProbe(n, m) ==
    /\ n \in running \cap Probers /\ probe[n].phase = "IDLE" /\ m \in Others(n)
    /\ probe' = [probe EXCEPT ![n] = [phase |-> "DIRECT", target |-> m, current |-> TRUE,
                                      proxies |-> Others(n) \ {m}]]
    /\ UNCHANGED <<members, running, network>>

\* The target answers in time.
ProbeSucceeds(n) ==
    LET t == probe[n].target
    IN  /\ probe[n].phase = "DIRECT" /\ t \in running
        /\ members' = Heard(Contacts(n, t, "ANSWER"))
        /\ probe' = [probe EXCEPT ![n] = Idle(n)]
        /\ UNCHANGED <<running, network>>

\* As if a probe's result were written to the record that is listed.
JudgedById(n, list, state) ==
    [list EXCEPT ![n][probe[n].target].state = state,
                 ![n][probe[n].target].overdue = FALSE]

\* The probe's result, written to the record it holds.
Judged(n, list, state) ==
    IF probe[n].current
    THEN [list EXCEPT ![n][probe[n].target].state = state,
                      ![n][probe[n].target].overdue = FALSE]
    ELSE list

\* It does not answer, or too late.  Up to Fanout others are to be asked.
ProbeFails(n) ==
    LET t == probe[n].target
    IN  /\ probe[n].phase = "DIRECT"
        /\ \E reached \in Reached :
              /\ Possible(t, reached)
              /\ members' = Judged(n, Heard(Contacts(n, t, reached)), "SUSPECT")
        /\ IF probe[n].proxies = {} \/ Fanout = 0
           THEN probe' = [probe EXCEPT ![n] = Idle(n)]
           ELSE \E asked \in SUBSET probe[n].proxies \ {{}} :
                   /\ Cardinality(asked) = Fanout \/ asked = probe[n].proxies
                   /\ Cardinality(asked) <= Fanout
                   /\ probe' = [probe EXCEPT ![n].phase = "INDIRECT", ![n].proxies = asked]
        /\ UNCHANGED <<running, network>>

\* The proxy pings the target and answers.  Whether it reached the target is in
\* its answer; nothing reads it.
ProxyAnswers(n, p) ==
    LET t == probe[n].target
    IN  /\ probe[n].phase = "INDIRECT" /\ p \in probe[n].proxies \cap running
        /\ \E reached \in Reached :
              /\ Possible(t, reached)
              /\ members' = Judged(n, Heard(Contacts(n, p, "ANSWER") \cup Contacts(p, t, reached)),
                                   "ALIVE")
        /\ probe' = [probe EXCEPT ![n] = Idle(n)]
        /\ UNCHANGED <<running, network>>

\* No answer of the proxy in time: the next one is asked.
ProxyFails(n, p) ==
    LET t == probe[n].target
    IN  /\ probe[n].phase = "INDIRECT" /\ p \in probe[n].proxies
        /\ \E asked, reached \in Reached :
              /\ Possible(p, asked) /\ Possible(t, reached)
              /\ reached # "NOTHING" => asked # "NOTHING"
              /\ members' = Heard(Contacts(n, p, asked) \cup Contacts(p, t, reached))
        /\ probe' = [probe EXCEPT ![n] =
                        IF probe[n].proxies = {p} THEN Idle(n)
                        ELSE [probe[n] EXCEPT !.proxies = probe[n].proxies \ {p}]]
        /\ UNCHANGED <<running, network>>

-----------------------------------------------------------------------------
(* The suspicion timeout *)

\* last_seen is longer ago than the timeout of the state.
Lapse(n, m) ==
    /\ n \in running /\ members[n][m].state \in {"SUSPECT", "DEAD"}
    /\ ~members[n][m].overdue
    /\ members' = [members EXCEPT ![n][m].overdue = TRUE]
    /\ UNCHANGED <<running, probe, network>>

\* As if a suspect were left as it is.
SuspectForEver(r) ==
    IF r.overdue /\ r.state = "DEAD" THEN Unlisted ELSE r

TimedOut(r) ==
    IF ~r.overdue THEN r
    ELSE IF r.state = "SUSPECT" THEN [r EXCEPT !.state = "DEAD", !.overdue = FALSE]
    ELSE Unlisted

SuspectTimeout(n) ==
    LET overdue == {m \in Nodes \ {n} : members[n][m].overdue}
    IN  /\ n \in running /\ overdue # {}
        /\ members' = [members EXCEPT ![n] =
                          [m \in Nodes |-> IF m = n THEN @[m] ELSE TimedOut(@[m])]]
        /\ Outdated(n, {m \in overdue : members[n][m].state = "DEAD"})
        /\ UNCHANGED <<running, network>>

-----------------------------------------------------------------------------
NodeNext(n) ==
    \/ \E m \in Nodes : SendSync(n, m)
    \/ \E m \in Nodes : Join(n, m)
    \/ Leave(n)
    \/ Stop(n)
    \/ \E m \in Nodes : StartProbe(n, m)
    \/ ProbeSucceeds(n)
    \/ ProbeFails(n)
    \/ \E p \in Nodes : ProxyAnswers(n, p)
    \/ \E p \in Nodes : ProxyFails(n, p)
    \/ \E m \in Nodes : Lapse(n, m)
    \/ SuspectTimeout(n)

Next ==
    \/ \E n \in Nodes : NodeNext(n)
    \/ \E d \in network : Deliver(d)
    \/ \E d \in network : Vanish(d)

Spec == Init /\ [][Next]_vars

\* The probe loop takes the members in turn and each of its waits has a
\* timeout; the loop that looks for timeouts runs for ever, and time passes for
\* a node that says nothing.  Nothing is assumed of datagrams.
Fairness ==
    \A n \in Nodes :
        /\ WF_vars(ProbeSucceeds(n) \/ ProbeFails(n))
        /\ WF_vars(\E p \in Nodes : ProxyAnswers(n, p) \/ ProxyFails(n, p))
        /\ WF_vars(SuspectTimeout(n))
        /\ \A m \in Nodes :
              /\ SF_vars(StartProbe(n, m))
              /\ WF_vars(m \notin running /\ Lapse(n, m))
-----------------------------------------------------------------------------
\* The types of the variables; time runs only for a suspect or dead member, and
\* a probe writes to the list only where its target is listed.
TypeOK ==
    /\ members \in [Nodes -> List]
    /\ running \in SUBSET Nodes
    /\ probe \in [Nodes -> Probe]
    /\ network \in SUBSET Message
    /\ \A n, m \in Nodes : members[n][m].overdue => members[n][m].state \in {"SUSPECT", "DEAD"}
    /\ \A n \in Nodes : probe[n].current => members[n][probe[n].target].state # "UNLISTED"

\* A member that announced its leaving is never suspected, declared dead or
\* held to be alive under that announcement, at any node, whichever probes of it
\* were under way and whichever older lists still arrive.
LeavingIsFinal ==
    \A n, m \in Nodes : members[n][m].incarnation = 1 <=> members[n][m].state = "LEFT"

\* What a node says of itself is changed by nobody but its own leaving:
\* suspicions and rumours others spread about it do not come back to it.
OwnRecordIsOwn == [][\A n \in Nodes : members'[n][n] # members[n][n] => Leave(n)]_vars

\* Others vouch for m before n: a proxy answers the probe of m, or a list arrives
\* from which n takes over m, or m's own answer to a join of n.
Vouched(n, m) ==
    \/ probe[n].target = m /\ \E p \in Nodes : ProxyAnswers(n, p)
    \/ \E d \in network :
          /\ d.dst = n
          /\ DeliverSync(d) \/ DeliverAck(d)
          /\ m \in Takes(n, d.list) \/ (d.join /\ d.src = m)

\* A node that stopped is forgotten in the end by a node that runs on and probes,
\* whatever probes and lists were under way (it may be listed again from the list of
\* another, or held to be alive by a proxy), unless others vouch for it for ever.
StoppedIsForgotten ==
    \A n \in Probers, m \in Nodes :
        <>[](n \in running /\ m \notin running) =>
            \/ <>[](members[n][m].state \in {"UNLISTED", "LEFT"})
            \/ []<><<Vouched(n, m)>>_vars

\* While no datagram is in flight, a suspect that has stopped is not taken for
\* alive again: a proxy that could not reach it says so ("reachable").
UnreachableStaysSuspect ==
    [][\A n \in Nodes : \A m \in Nodes \ running :
          network = {} /\ members[n][m].state = "SUSPECT" => members'[n][m].state # "ALIVE"]_vars
=============================================================================
