CONSTANTS
    q1 = q1
    q2 = q2
    q3 = q3
    q4 = q4
    q5 = q5
    docs = docs
    loose = loose
    v1 = v1
    v2 = v2
    v3 = v3
    v4 = v4
    p1 = p1
    p2 = p2
    Proc = {p1, p2}
    Path = {q1, q2, q3, q4, q5}
    Version = {v1, v2, v3, v4}
    Pid = {7, 8}
    Draw = {1}
    LockOf <- MCLockOf
    Jobs <- MCJobs
    Initial <- MCInitial
    Secret = {v1, v3}
    MaxRuns = 3
    MaxChanges = 2
    Abandoned = Abandoned
    None = None
SPECIFICATION Spec
INVARIANTS SecretStaysPrivate LeavesNoTemp
PROPERTIES AccessKept ImplementsFileStore
CHECK_DEADLOCK FALSE
