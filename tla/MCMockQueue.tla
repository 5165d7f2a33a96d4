----------------------------- MODULE MCMockQueue -----------------------------
(* Instances of MockQueue for TLC.                                         *)
EXTENDS MockQueue

CONSTANTS f, g, p, q, a, b

Accepting == {{a}, {a, b}}
OneAccepting == {{a}}

OnceOrAlways == {1, Always}
AnyCounts == {0, 1, 2, Always}
=============================================================================
