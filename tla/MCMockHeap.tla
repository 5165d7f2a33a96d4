----------------------------- MODULE MCMockHeap -----------------------------
(* Instances of MockHeap for TLC.                                          *)
EXTENDS MockHeap

CONSTANTS f, g, p, q, a

OneAccepting == {{a}}
WithZero == {0, 1, Always}
OnceOrAlways == {1, Always}

(* Parameters are only ever compared, and looked through as a set.         *)
ParameterSymmetry == Permutations(Parameters)
=============================================================================
