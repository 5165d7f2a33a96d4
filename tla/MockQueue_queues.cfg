SPECIFICATION Spec
CONSTANTS
    f = f g = g p = p q = q a = a b = b
    Functions = {f}
    Parameters = {p, q}
    Values = {a, b}
    Acceptable <- Accepting
    ResultCounts <- AnyCounts
    ExpectCounts <- AnyCounts
    MaxDeclared = 3
    MaxUses = 4
    MaxTests = 1
INVARIANTS
    MissingMeansAbsent
PROPERTY KeepsContract
