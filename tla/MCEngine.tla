------------------------------ MODULE MCEngine ------------------------------
(* Instances of Engine for TLC: a repository with its main worktree and    *)
(* one worktree of an agent, or two repositories.                          *)
EXTENDS Engine, TLC

OneRepo == {"repo"}
MCRepoOf == [w \in Worktree |-> "repo"]

TwoRepos == {"repo", "other"}
MCRepoOf2 == [w \in Worktree |->
                IF ToString(w) \in {"x0", "x1"} THEN "other" ELSE "repo"]
=============================================================================
