\* One constitution and four versions: two legal versions with corrections on both, or
\* three legal versions.  Or two publish attempts or import jobs that race over two
\* versions of one or two constitutions.
CONSTANTS
    c1 = c1
    c2 = c2
    v1 = v1
    v2 = v2
    v3 = v3
    v4 = v4
    a1 = a1
    a2 = a2
    e1 = e1
    s1 = s1
    s2 = s2
    s3 = s3
    None = None
    Constitution = {c1, c2}
    Version = {v1, v2, v3, v4}
    Attempt = {a1, a2}
    Label = {1, 2, 3, 4}
    Evidence = {e1}
    Settings = {s1, s2, s3}
    HopWord = {"legal", "official_errata", "editorial_correction"}
SYMMETRY IdSymmetry
SPECIFICATION MCSpec
CHECK_DEADLOCK FALSE
INVARIANT
    VersionsAreComparable
