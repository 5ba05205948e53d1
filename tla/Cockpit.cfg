SPECIFICATION Spec
CONSTANTS
  w1 = w1
  w2 = w2
  h1 = h1
  h2 = h2
  None = None
  Worktree = {w1, w2}
  Hash = {h1, h2}
  CacheCap = 1
  MaxCalls = 2
  MaxInbox = 3
  MaxWork = 5
SYMMETRY Symmetry
INVARIANTS
  NeverStuck
  PaneFresh
  MarkAgrees
  ApprovingIsTrue
CHECK_DEADLOCK FALSE
