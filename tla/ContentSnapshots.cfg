\* One version and two requests in flight: every race between saves, legacy writes,
\* seals and publication.  Or two reserved versions and one request at a time.
CONSTANTS
    v1 = v1
    v2 = v2
    a1 = a1
    a2 = a2
    w1 = w1
    w2 = w2
    x = x
    bad = bad
    Empty = Empty
    None = None
    Version = {v1, v2}
    Attempt = {a1, a2}
    Worker = {w1, w2}
    Tree = {x, bad}
    ValidTree = {x}
    MaxGeneration = 3
SYMMETRY AllSymmetry
SPECIFICATION MCSpec
CHECK_DEADLOCK FALSE
INVARIANTS
    SealedRootsStand
    PublishedReservationIsComplete
    SuccessorSourceStands
PROPERTIES
    ReservedVersionsAreImmutable
    SavesReplaceWhatWasRead
