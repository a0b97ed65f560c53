SPECIFICATION MCLiveSpec
CONSTANTS
    Record = {r}
    v1 = v1
    v2 = v2
    lawA = lawA
    Law = {lawA}
    Version = {v1, v2}
    LawOf <- OneLaw
    Worker = {k}
    MaxRevisions = 2
    None = None
    f1 = f1
    f2 = f2
    u1 = u1
    u2 = u2
    a = a
    b = b
    r1 = r1
    r2 = r2
    owner = owner
    reviewer = reviewer
    Absent = Absent
    Finding = {f1, f2}
    Fingerprint = {a, b}
    Unit = {u1, u2}
    units <- MCUnits
    Ambiguous = {f2}
    Row = {r1, r2}
    Page = {owner, reviewer}
    Reviewer = {reviewer}
    Difference <- MCDifference
    ChangeRecord <- MCChangeRecord
    MaxGeneration = 2
CHECK_DEADLOCK FALSE
PROPERTIES
    OvertakenQuotesAreFlagged
