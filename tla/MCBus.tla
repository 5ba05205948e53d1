------------------------------- MODULE MCBus -------------------------------
(* Instances of Bus.tla for TLC.                                           *)
EXTENDS Bus, TLC

\* Requests and worktrees are interchangeable.
Symmetric == Permutations(Fetches) \cup Permutations(Worktrees)
=============================================================================
