SPECIFICATION PipelineSpec
CONSTANTS
    QueueCapacity = 1
    MaxRecords = 6
    MaxRunning = 2
    CPUs = {c1, c2}
    SampleEvery = 2
    RingSlots = 2
    MaxPackets = 6
SYMMETRY Symmetry
INVARIANTS
    AccountedDelivery
PROPERTIES
    RisingSequence
