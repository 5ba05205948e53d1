SPECIFICATION FairSpec
CONSTANTS
  w1 = w1
  w2 = w2
  w3 = w3
  None = None
  Worktree = {w1, w2, w3}
  Rule = {"loud", "quiet"}
  Severity <- MCSeverity
  Floor = "danger"
  Buffer = 2
  StormThreshold = 2
  Window = 2
  Cooldown = 2
INVARIANTS
  WindowArmed
PROPERTIES
  Implements
  EveryHitTold
CHECK_DEADLOCK FALSE
