\* Best-effort and conditional execution while the state moves and fetches fail.
SPECIFICATION Spec
CONSTANTS
    c1 = c1
    c2 = c2
    c3 = c3
    r1 = r1
    r2 = r2
    a1 = a1
    v1 = v1
    v2 = v2
    NoCall = NoCall
    Calls = {c1, c2}
    ActionIds = {a1}
    Refs = {r1, r2}
    Operations = {"op", "other"}
    Arguments = {"args", "other"}
    Requests <- ExecutionRequests
    Holds <- MCHolds
    Backend = "memory"
    Reviewers = {}
    FetchMayFail = TRUE
    MayCrash = FALSE
    KeptAlive = {c1, c2}
    StoreMayFail = FALSE
    MaxVersion = 1
    MaxTime = 1
    DefaultMaxAge = 1
INVARIANTS
    DriftBeforeClaimNeverExecutes
    RecordedResultIsTrue
    NotExecutedMeansNoEffect
PROPERTIES
    EffectLandsOnDeclaredVersion
SYMMETRY CallSymmetry
