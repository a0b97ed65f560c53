\* A structured legal session whose link is left to the outbox, and a correction.
SPECIFICATION MCSpec
CONSTANTS
    None = None
    s1 = s1
    s2 = s2
    v0 = v0
    v1 = v1
    v2 = v2
    d = d
    r1 = r1
    c1 = c1
    st = st
    Session = {s1, s2}
    Structured = {s1}
    Version = {v0, v1, v2}
    Base = v0
    Record = {r1}
    StaffRecord = {}
    StaffSource = None
    Label = {0, 1, 2, 3}
    AttemptLabel <- MCAttemptLabel
    BaseLabel = 0
    Constitution = c1
    Settings = st
    MaxFailures = 1
    MaxRevisions = 0
CHECK_DEADLOCK FALSE
PROPERTIES
    LinkingResumes
