\* Escalation by decision and by the gate, one reviewer, approved execution, OBSERVE mode.
SPECIFICATION Spec
CONSTANTS
    c1 = c1
    c2 = c2
    c3 = c3
    r1 = r1
    r2 = r2
    a1 = a1
    v1 = v1
    v2 = v2
    NoCall = NoCall
    Calls = {c1, c2, c3}
    ActionIds = {a1}
    Refs = {r1}
    Operations = {"op", "other"}
    Arguments = {"args", "other"}
    Requests <- EscalationRequests
    Holds <- MCHolds
    Backend = "sqlite"
    Reviewers = {v1}
    FetchMayFail = FALSE
    MayCrash = FALSE
    KeptAlive = {c1, c2, c3}
    StoreMayFail = FALSE
    MaxVersion = 0
    MaxTime = 1
    DefaultMaxAge = 1
INVARIANTS
    ApprovalCoversExecution
    AuthorizationCitesAdmission
    EscalationCitesDecision
PROPERTIES
    ResolutionIsFinal
SYMMETRY CallSymmetry
