SPECIFICATION Spec
CONSTANTS
    f = f g = g p = p q = q a = a b = b
    Functions = {f}
    Parameters = {p}
    Values = {a}
    Acceptable <- OneAccepting
    ResultCounts <- OnceOrAlways
    ExpectCounts <- OnceOrAlways
    MaxDeclared = 2
    MaxUses = 2
    MaxTests = 1
INVARIANT TeardownSurvives
