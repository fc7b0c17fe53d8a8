\* Two dependencies under every risk, mode and shape of policy.
SPECIFICATION Spec
CONSTANTS
    DefaultMaxAge = 3
    Dependencies = {1, 2}
    PolicySet <- MCPolicies
    DefaultsSet <- MCDefaults
INVARIANTS
    CriticalNeverAllowedOnUnknown
    RefutedStateNeverAllowed
    OutageNeverRevalidatesTwice
CHECK_DEADLOCK FALSE
