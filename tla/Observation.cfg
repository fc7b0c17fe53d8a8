\* A claim of every shape against every provider and policy.
SPECIFICATION Spec
CONSTANTS
    DefaultMaxAge = 3
    ClaimSet <- MCClaims
    PolicySet <- MCPolicies
    ProviderSet <- MCProviders
    Contents = {0, 1}
    GoodContents = {0}
    MaxVersion = 2
    MaxTime = 4
INVARIANTS
    DriftedVersionIsNeverUsable
    ServerStampedChangeIsNeverUsable
    FreshVersionIsCurrent
    RevalidationKeepsInvariants
PROPERTIES
    WaitingNeverImproves
CHECK_DEADLOCK FALSE
