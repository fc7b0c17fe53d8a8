\* Three processes race on one action id over one sqlite file, and die at any point.
SPECIFICATION Spec
CONSTANTS
    c1 = c1
    c2 = c2
    c3 = c3
    r1 = r1
    r2 = r2
    a1 = a1
    v1 = v1
    v2 = v2
    NoCall = NoCall
    Calls = {c1, c2, c3}
    ActionIds = {a1}
    Refs = {r1}
    Operations = {"op", "other"}
    Arguments = {"args", "other"}
    Requests <- RaceRequests
    Holds <- MCHolds
    Backend = "sqlite"
    Reviewers = {}
    FetchMayFail = FALSE
    MayCrash = TRUE
    KeptAlive = {c1, c2, c3}
    StoreMayFail = TRUE
    MaxVersion = 0
    MaxTime = 1
    DefaultMaxAge = 1
INVARIANTS
    HolderOwnsAuthorization
    FinishedExecutionIsSettled
PROPERTIES
    UnsettledAttemptFreezes
    ImplementsGate
SYMMETRY CallSymmetry
