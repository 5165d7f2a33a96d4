SPECIFICATION Spec
CONSTANTS
    Suites <- NullSetupInside
    ExitStatuses = 4
INVARIANT NullPairsHold
