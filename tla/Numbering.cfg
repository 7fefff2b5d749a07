CONSTANTS
    p1 = p1
    p2 = p2
    a = a
    b = b
    d1 = d1
    d2 = d2
    plain = plain
    Proc = {p1, p2}
    Namespace = {a, b}
    Doc = {d1, d2}
    Slug = {plain}
    SlugOf <- MCSlugOf
    Modulus = 8
    HandNumber = {1, 2}
    MaxRuns = 3
    MaxHand = 1
    None = None
    NoRecord = NoRecord
    Malformed = Malformed
    Abandoned = Abandoned
SPECIFICATION Spec
INVARIANTS TypeOK IssuedIsRecorded
PROPERTIES NeverIssuedTwice LastNeverLowered NothingOverwritten ImplementsKeyIssuer
CHECK_DEADLOCK FALSE
SYMMETRY RunSymmetry
