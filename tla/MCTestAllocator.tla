--------------------------- MODULE MCTestAllocator ---------------------------
(* Instances of TestAllocator for TLC.                                     *)
EXTENDS TestAllocator

Three == 1..3
=============================================================================
