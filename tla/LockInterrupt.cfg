CONSTANTS
    p1 = p1
    p2 = p2
    p3 = p3
    l1 = l1
    l2 = l2
    here = here
    there = there
    Unknown = Unknown
    None = None
    Proc = {p1, p2}
    Lock = {l1, l2}
    Rank <- MCRank
    Wanted <- SomeWanted
    Inode = {1, 2}
    HostName <- MCHostName
    MaxInterrupts = 1
SPECIFICATION FairSpec
INVARIANT RegistryHasHandle
PROPERTIES InterruptReleases EveryRunEnds
