\* Rules: one request at a time for anything.  Requests: two anonymous ones, of one or two
\* clients.  Quota: three clients for two buckets, and a clock of two ticks a second.
SPECIFICATION MCSpec
CONSTANTS
    c1 = c1
    c2 = c2
    c3 = c3
    w1 = w1
    w2 = w2
    Client = {c1, c2, c3}
    Worker = {w1, w2}
    Policy <- AllPolicies
    MaxBuckets = 2
    Second = 2
    MaxTime = 1
    MaxIssued = 4
    MaxRun = 2
    MaxFacts = 7
    None = None
SYMMETRY AllSymmetry
INVARIANTS
    ServedIsJustified
    RefusedIsJustified
    TotalWithinBudget
    ClientWithinBudget
    RetryIsEnough
    MemoryIsBounded
