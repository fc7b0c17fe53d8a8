\* Files of every kind the validation tells apart, against nine intents.
SPECIFICATION StartupSpec
CONSTANTS
    n1 = n1
    n2 = n2
    n3 = n3
    g1 = g1
    g2 = g2
    g3 = g3
    DefaultMaxAge = 1
    MaxDeadline = 2
    Names = {n1, n2, n3}
    Configurations <- MCConfigurations
    RiskDefaultsSet <- NoRiskDefaultsSet
    Intents <- MCIntents
    Files <- MCFiles
    Globs = {g1, g2, g3}
    MatchingGlobs = {g1, g2}
    Metadata <- MCMetadata
INVARIANTS
    NoUnacknowledgedAllow
    EngineAssumptionsHold
    ScanKeepsPrecedence
    PolicyNeverLowersRisk
