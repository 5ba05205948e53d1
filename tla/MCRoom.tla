------------------------------- MODULE MCRoom -------------------------------
(* Constants for the model checking of Room.                               *)
EXTENDS Room, TLC

CONSTANTS w1, f1, h1, i1, i2, c1, c2

Symmetry == Permutations({i1, i2}) \cup Permutations({c1, c2})
=============================================================================
