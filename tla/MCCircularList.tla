--------------------------- MODULE MCCircularList ---------------------------
(* Instances of CircularList for TLC.                                      *)
EXTENDS CircularList

CONSTANTS h1, h2, n1, n2, n3
=============================================================================
