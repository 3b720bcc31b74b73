SPECIFICATION Spec
CONSTANTS
    Frames <- MCFrames
    Setups <- MCSetups
    Tables <- MCTables
    NoTable = NoTable
    Ifindex = 1
    MaxSwaps = 1
INVARIANTS
    ParserExact
    RecordsDecode
    OneGeneration
