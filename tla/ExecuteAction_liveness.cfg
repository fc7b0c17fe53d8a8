\* Executors that answer, hang or fail, one of them in a process that may exit while it
\* waits: calls end, executions are recorded, replays refused.
SPECIFICATION FairSpec
CONSTANTS
    c1 = c1
    c2 = c2
    c3 = c3
    r1 = r1
    r2 = r2
    a1 = a1
    v1 = v1
    v2 = v2
    NoCall = NoCall
    Calls = {c1, c2}
    ActionIds = {a1}
    Refs = {r1}
    Operations = {"op", "other"}
    Arguments = {"args", "other"}
    Requests <- LivenessRequests
    Holds <- MCHolds
    Backend = "sqlite"
    Reviewers = {}
    FetchMayFail = FALSE
    MayCrash = FALSE
    KeptAlive = {c1}
    StoreMayFail = TRUE
    MaxVersion = 0
    MaxTime = 1
    DefaultMaxAge = 1
PROPERTIES
    EveryCallEnds
    EveryExecutionIsRecorded
    ReplayNeverExecutes
