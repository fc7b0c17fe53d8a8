\* Two processes race to open, migrate, use and damage one store.
SPECIFICATION SharedSpec
CONSTANTS
    p1 = p1
    p2 = p2
    b1 = b1
    b2 = b2
    NoAppender = NoAppender
    Appenders = {p1, p2}
    Bodies = {b1, b2}
    Backends = {"memory", "sqlite"}
    MaxRecords = 3
    MaxDamage = 1
INVARIANTS
    UntouchedLogVerifies
    DamageIsLocated
    MigrationsAreAtomic
PROPERTIES
    UncontendedOpenSucceeds
    VerdictIsTrue
    ZeroMeansAllowedAndRecorded
SYMMETRY ProcessSymmetry
\* A full ledger (MaxRecords) stops the appenders of the memory store.
CHECK_DEADLOCK FALSE
