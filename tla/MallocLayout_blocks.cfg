SPECIFICATION Spec
CONSTANTS
    Word = 22
    Guard = 1
    Header = 2
    Alignment = 2
    Memory = 17
    Requests <- SomeRequests
    MaxAllocations = 3
    MaxWrites = 1
INVARIANTS
    PartsInPlace
    GuardsExact
    FreedTwiceCaught
PROPERTIES
    OthersUntouched
    OverrunCaught
