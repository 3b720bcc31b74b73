SPECIFICATION FairSpec
CONSTANTS
    Callers = {c1, c2, c3}
    MaxPendingWrites = 2
INVARIANTS
    TypeOK
    SlotAccounting
    PendingBounded
    NoLostWakeup
    DrainedMeansAnswered
PROPERTIES
    DrainMonotone
    DestructorTerminates
    ShutdownReleasesCallers
    ConstructorSettles
