----------------------------- MODULE MCMembership -----------------------------
(***************************************************************************)
(* Instances of Membership for TLC.                                        *)
(***************************************************************************)
EXTENDS Membership

CONSTANTS a, b, c   \* nodes

\* All nodes have joined each other and nothing is in flight.
Acquainted ==
    /\ members = [n \in Nodes |-> [m \in Nodes |-> Newcomer]]
    /\ running = Nodes
    /\ probe = [n \in Nodes |-> Idle(n)]
    /\ network = {}

AcquaintedSpec == Acquainted /\ [][Next]_vars
FairSpec == AcquaintedSpec /\ Fairness
=============================================================================
