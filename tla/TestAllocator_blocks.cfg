SPECIFICATION Spec
CONSTANTS
    Addresses <- Three
    MaxAllocations = 4
    MaxFunctions = 4
INVARIANTS
    OrderKept
PROPERTIES
    LeakMissedOnlyByRecycling
    LeakFreed
    NoFalseLeak
    GuardsChecked
