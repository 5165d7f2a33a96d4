SPECIFICATION Spec
CONSTANTS
    h1 = h1 h2 = h2
    n1 = n1 n2 = n2 n3 = n3
    Heads = {h1, h2}
    Nodes = {n1, n2, n3}
    NoLink = NoLink
    MaxAdds = 5
INVARIANTS
    TypeOK
    RingClosed
    InOrder
PROPERTY KeepsSequence
