------------------------------- MODULE MCWatcher -------------------------------
(* An instance of Watcher for TLC.                                             *)
EXTENDS Watcher

(* A filtered event early, and then one event more than the channel holds.     *)
MatchingSome == {1, 3, 4, 5}
================================================================================
