CONSTANTS
    w1 = w1  s1 = s1  s2 = s2
    Worktree = {w1}
    Sub = {s1, s2}
    Parent <- MCParent
    Owner <- MCOwner
    Cap = 3
    Global = Global
    None = None
    MaxChanges = 4
    MaxTroubles = 1
SPECIFICATION Spec
INVARIANTS Complete Counted
PROPERTIES HintsFire ChangesNoticed
