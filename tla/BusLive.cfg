CONSTANTS
    Worktrees = {w1}
    Diffs = {d1}
    MaxReviewed = 1
    Toggles = {t1}
    Buffer = 1
    Inbox = 1
    Fetches = {f1, f2}
    MaxWrites = 2
    MaxTroubles = 2
    w1 = w1
    t1 = t1
    f1 = f1
    f2 = f2
    d1 = d1
SPECIFICATION FairSpec
INVARIANT InSync
PROPERTY CatchesUp
CHECK_DEADLOCK FALSE
