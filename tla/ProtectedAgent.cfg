\* Agents that follow their guidance against every kind of server and policy.
CONSTANTS
    a1 = a1
    a2 = a2
    Agents <- MCAgents
    Conditional <- MCConditional
    Deployments <- MCDeployments
    MaxChanges = 1
    MaxFaults = 2
SPECIFICATION AgentSpec
INVARIANTS
    AppliedAtMostOnce
    EffectLandsOnObserved
    GuidanceIsTrue
PROPERTY RecoveryTerminates
