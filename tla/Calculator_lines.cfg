SPECIFICATION Spec
CONSTANTS
    Lines <- SomeLines
    Table <- FourOperators
    IntModulus = 8
INVARIANTS
    InBounds
    ValuesExact
    VerdictExact
    CleansUp
