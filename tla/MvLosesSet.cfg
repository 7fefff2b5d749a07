CONSTANTS
    p1 = p1
    p2 = p2
    a = a
    b = b
    a1 = a1
    a2 = a2
    b1 = b1
    b2 = b2
    k1 = k1
    k2 = k2
    k3 = k3
    open = open
    done = done
    Proc = {p1, p2}
    Namespace = {a, b}
    Path = {a1, a2, b1, b2, k1, k2, k3}
    Coded = {k1, k2, k3}
    Status = {open, done}
    NsOf <- MCNsOf
    Rank <- MCRank
    Commands <- MoveAndSet
    Initial <- Apart
    AutoMoves = TRUE
    MaxRuns = 2
    Loose = Loose
    Abandoned = Abandoned
    None = None
SPECIFICATION Spec
PROPERTIES MvOnlyRewrites
CHECK_DEADLOCK FALSE
