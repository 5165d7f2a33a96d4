SPECIFICATION Spec
CONSTANTS
    Modulus = 16
    IntModulus = 4
    Sets <- SomeSets
    Text <- Texts
INVARIANTS
    SameTypeExact
    NegationExact
    
