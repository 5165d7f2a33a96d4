---------------------------- MODULE MCThreadGate ----------------------------
(* Instances of ThreadGate for TLC.                                        *)
EXTENDS ThreadGate

CONSTANTS t1, t2, t3, controller, nobody
=============================================================================
