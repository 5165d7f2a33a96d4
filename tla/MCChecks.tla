------------------------------ MODULE MCChecks ------------------------------
(* Instances of Checks for TLC.                                            *)
EXTENDS Checks

SomeSets == {{}, {0}, {1, 15}}
(* Two strings, one of them at two addresses.                              *)
Texts == [address \in {1, 2, 9} |-> IF address = 9 THEN "b" ELSE "a"]
=============================================================================
