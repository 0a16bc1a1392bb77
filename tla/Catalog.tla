------------------------------- MODULE Catalog -------------------------------
(***************************************************************************)
(* What a cluster of registries promises.  A node shows nothing for an     *)
(* instance or some entry that an operation at some node produced.  It may *)
(* lag behind, but what it takes over from others is newer than what it    *)
(* showed, unless it is a tombstone.  While an instance is not contested,  *)
(* that is, changed at another node than its home, the home writes each    *)
(* version once and takes nothing over from the others.                    *)
(***************************************************************************)
EXTENDS Integers

CONSTANTS
    Keys,   \* what is catalogued
    Nodes,  \* the replicas
    Home,   \* the home of each key, a node
    Absent  \* no entry, or the content of a tombstone

VARIABLES
    written,    \* the entries [version, content] written so far, per key
    contested,  \* the keys written elsewhere since their home last outdid all writes
    view        \* the entry each node shows for each key, or Absent

Init ==
    /\ written = [k \in Keys |-> {}]
    /\ contested = {}
    /\ view = [n \in Nodes |-> [k \in Keys |-> Absent]]

Supersedes(e, shown) == shown = Absent \/ shown.version < e.version

\* A node writes an entry newer than the one it shows.  Only the home writes what
\* is not contested then, and only entries newer than all before.
Write(n, k, e) ==
    /\ Supersedes(e, view[n][k])
    /\ contested' \in {contested, contested \cup {k}, contested \ {k}}
    /\ k \notin contested' => n = Home[k] /\ \A old \in written[k] : Supersedes(e, old)
    /\ written' = [written EXCEPT ![k] = @ \cup {e}]
    /\ view' = [view EXCEPT ![n][k] = e]

\* A node takes over entries it heard of: newer ones, and tombstones of any age.
Adopt(n) ==
    /\ view' = [view EXCEPT ![n] = view'[n]]
    /\ \A k \in Keys : view'[n][k] # view[n][k] =>
          /\ view'[n][k] \in written[k]
          /\ Supersedes(view'[n][k], view[n][k]) \/ view'[n][k].content = Absent
          /\ n = Home[k] => k \in contested
    /\ DOMAIN view'[n] = Keys
    /\ UNCHANGED <<written, contested>>

Next ==
    \/ \E n \in Nodes, k \in Keys : \E e \in written'[k] : Write(n, k, e)
    \/ \E n \in Nodes : Adopt(n)

Spec == Init /\ [][Next]_<<written, contested, view>>
=============================================================================
