\* A call validated before the other's execution ended claims after it.
SPECIFICATION Spec
CONSTANTS
    c1 = c1
    c2 = c2
    c3 = c3
    r1 = r1
    r2 = r2
    a1 = a1
    v1 = v1
    v2 = v2
    NoCall = NoCall
    Calls = {c1, c2}
    ActionIds = {a1}
    Refs = {r1}
    Operations = {"op", "other"}
    Arguments = {"args", "other"}
    Requests <- NoRetryRequests
    Holds <- MCHolds
    Backend = "memory"
    Reviewers = {}
    FetchMayFail = FALSE
    MayCrash = FALSE
    KeptAlive = {c1, c2}
    StoreMayFail = FALSE
    MaxVersion = 0
    MaxTime = 1
    DefaultMaxAge = 1
INVARIANTS
    AtMostOneExecution
