----------------------------- MODULE MCCockpit -----------------------------
(* Constants for the model checking of Cockpit.                            *)
EXTENDS Cockpit, TLC

CONSTANTS w1, w2, h1, h2

Symmetry == Permutations({w1, w2}) \cup Permutations({h1, h2})
=============================================================================
