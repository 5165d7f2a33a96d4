----------------------------- MODULE MCTestSuite -----------------------------
(* Suites for the runs of TestSuite.                                       *)
EXTENDS TestSuite

Fn(type) == [function |-> TRUE, function_type |-> type]
Null(type) == [function |-> FALSE, function_type |-> type]

SuitesOver(unit_tests, lengths) == UNION {[1..n -> unit_tests] : n \in lengths}

PairTypes == {"TEST", "SETUP", "TEARDOWN"}

(* Every array of up to three unit tests, ill-formed ones included.        *)
AnySuites ==
    SuitesOver({Fn(type) : type \in FunctionTypes}
               \cup {Null(type) : type \in PairTypes}, 0..3)

(* Longer arrays in which setups and teardowns pair like brackets: of five *)
(* without NULL, of four with a NULL setup or teardown or none.            *)
Depths(s, i) == Cardinality({k \in 1..i : s[k].function_type = "SETUP"})
                - Cardinality({k \in 1..i : s[k].function_type = "TEARDOWN"})
Paired(s) ==
    /\ \A i \in 1..Len(s) : Depths(s, i) >= 0
    /\ Depths(s, Len(s)) = 0

Functions == {Fn(type) : type \in PairTypes}
PairedSuites ==
    {s \in SuitesOver(Functions, {5})
            \cup SuitesOver(Functions \cup {Null("SETUP"), Null("TEARDOWN")}, {4}) :
        Paired(s)}

AllSuites == AnySuites \cup PairedSuites

(* A NULL setup inside another pair.                                       *)
NullSetupInside ==
    {<<Fn("SETUP"), Null("SETUP"), Fn("TEST"), Fn("TEARDOWN"), Fn("TEARDOWN")>>}
=============================================================================
