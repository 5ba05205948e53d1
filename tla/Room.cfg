CONSTANTS
    w1 = w1  f1 = f1  h1 = h1  i1 = i1  i2 = i2  c1 = c1  c2 = c2
    Worktree = {w1}
    File = {f1}
    Hash = {h1}
    Id = {i1, i2}
    Caller = {c1, c2}
    Backend = {"sqlite", "json"}
    MaxComments = 1
    Buffer = 1
    MaxEdits = 1
    MaxTroubles = 1
    MaxFetches = 2
    Room = w1
    Same = Same
    None = None
SYMMETRY Symmetry
SPECIFICATION RoomSpec
CHECK_DEADLOCK FALSE
INVARIANTS CapHolds Durable Outlived RoomInSync
