SPECIFICATION Spec
CONSTANTS
  main = main
  w1 = w1
  x0 = x0
  f1 = f1
  h1 = h1
  Same = Same
  None = None
  p1 = p1
  p2 = p2
  Worktree = {main, w1, x0}
  Editable = {w1}
  Repo <- TwoRepos
  RepoOf <- MCRepoOf2
  File = {f1}
  Hash = {h1}
  Risky = {h1}
  Branch = {"base", "b1"}
  Base = "base"
  Caller = {p1, p2}
  Reviewer = {}
  AgentOps = {"commit", "checkout", "switch"}
  EditTo = {h1}
  OldMarks = {h1}
  Requests = {"full", "one", "approve"}
  Faults = {"discover", "cancel", "crash", "remove"}
INVARIANTS
  NoReplay
PROPERTIES
  GoneStaysGone
