CONSTANTS
    Daemon = {d1, d2}
    Inode = {i1, i2, i3, i4, i5, i6}
    None = None
    Legacy = {"absent", "valid", "malformed"}
    First = {"absent", "populated", "newer", "corrupt"}
    Faults <- Everything
    MaxFaults = 2
    MaxStarts = 3
    d1 = d1
    d2 = d2
    i1 = i1
    i2 = i2
    i3 = i3
    i4 = i4
    i5 = i5
    i6 = i6
SPECIFICATION FairSpec
INVARIANT TypeOK
INVARIANT ServesImported
INVARIANT RenamedAfterImport
PROPERTY ImportsOnce
PROPERTY StartsEnd
CHECK_DEADLOCK FALSE
