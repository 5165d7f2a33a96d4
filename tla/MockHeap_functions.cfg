SPECIFICATION HeapSpec
CONSTANTS
    f = f g = g p = p q = q a = a
    Functions = {f}
    Parameters = {p, q}
    Values = {a}
    Acceptable <- OneAccepting
    ResultCounts <- WithZero
    ExpectCounts <- OnceOrAlways
    MaxDeclared = 1
    MaxUses = 1
    MaxTests = 3
    MaxOwn = 1
SYMMETRY ParameterSymmetry
INVARIANTS
    HeapMatches
    PointsHold
PROPERTY LeakExact
