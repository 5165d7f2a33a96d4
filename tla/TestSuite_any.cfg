SPECIFICATION Spec
CONSTANTS
    Suites <- AllSuites
    ExitStatuses = 4
INVARIANTS
    VerdictSound
    ExitStatusExact
    NamesExact
    StoresInBounds
    SkipsExactly
    TeardownSeesItsSetup
    AbortsExactly
PROPERTIES
    Termination
    KeepsContract
