\* A structured and a legacy session: on the same version, on a version and its
\* successor, or on the two axes; one failure at any point; a staff draft either may name.
SPECIFICATION MCSpec
CONSTANTS
    None = None
    s1 = s1
    s2 = s2
    v0 = v0
    v1 = v1
    v2 = v2
    d = d
    r1 = r1
    c1 = c1
    st = st
    Session = {s1, s2}
    Structured = {s1}
    Version = {v0, v1, v2}
    Base = v0
    Record = {d, r1}
    StaffRecord = {d}
    StaffSource = None
    Label = {0, 1, 2, 3}
    AttemptLabel <- MCAttemptLabel
    BaseLabel = 0
    Constitution = c1
    Settings = st
    MaxFailures = 1
    MaxRevisions = 1
INVARIANTS
    TypeOK
    SuccessorIsOwn
    AttemptKeepsItsRequest
    DeliveredMeansLinked
PROPERTIES
    ImplementsWorkflow
    ReservedAttemptsClose
    OwedLinksAreMade
