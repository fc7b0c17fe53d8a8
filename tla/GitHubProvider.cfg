\* Every kind of resource, two changes of it, one of its repository.
SPECIFICATION Spec
CONSTANTS
    DefaultMaxAge = 1
    PolicySet <- MCPolicies
    MaxPage = 2
    MaxRepoPage = 1
    MaxTime = 2
INVARIANTS
    ConfirmedMeansUnchanged
    UnchangedIsConfirmed
    PassedPreconditionHolds
