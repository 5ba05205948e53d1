------------------------------ MODULE MCWatcher -----------------------------
(* Constants for the model checking of Watcher.                            *)
EXTENDS Watcher, TLC

CONSTANTS w1, s1, s2

MCOwner == [d \in {w1, s1, s2} |-> w1]
MCParent == s1 :> w1 @@ s2 :> s1
=============================================================================
