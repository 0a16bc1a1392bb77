------------------------------- MODULE MCWatcher -------------------------------
(***************************************************************************)
(* Instances of Watcher for TLC: topics and subscriber ids are strings.    *)
(***************************************************************************)
EXTENDS Watcher
=============================================================================
