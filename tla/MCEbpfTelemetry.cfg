SPECIFICATION FairSpec
CONSTANTS
    QueueCapacity = 2
    MaxRecords = 4
    MaxRunning = 2
INVARIANTS
    TypeOK
    Conservation
    SingleProducer
    CancelIsNotAnError
    DiscardsBounded
    DrainIsComplete
PROPERTIES
    FinishTerminates
