SPECIFICATION Spec
CONSTANTS
  main = main
  w1 = w1
  f1 = f1
  h1 = h1
  h2 = h2
  Same = Same
  None = None
  p1 = p1
  r1 = r1
  Worktree = {main, w1}
  Editable = {w1}
  Repo <- OneRepo
  RepoOf <- MCRepoOf
  File = {f1}
  Hash = {h1, h2}
  Risky = {}
  Branch = {"base", "b1"}
  Base = "base"
  Caller = {p1}
  Reviewer = {r1}
  AgentOps = {"edit", "commit"}
  EditTo = {h1, h2}
  OldMarks = {}
  Requests = {"full", "approve", "review"}
  Faults = {}
INVARIANTS
  ApproveMergesOnlyVetted
