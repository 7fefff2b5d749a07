CONSTANTS
    p1 = p1
    p2 = p2
    p3 = p3
    l1 = l1
    l2 = l2
    here = here
    there = there
    Unknown = Unknown
    None = None
    Proc = {p1, p3}
    Lock = {l1, l2}
    Rank <- MCRank
    Wanted <- AnyWanted
    Inode = {1, 2, 3}
    HostName <- MCHostName
    MaxInterrupts = 0
SPECIFICATION Spec
INVARIANTS TypeOK MutualExclusion NoMutualWait
PROPERTIES RemovesOnlyItsOwn NoLockLeftBehind ImplementsExclusiveLocks
