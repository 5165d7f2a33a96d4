------------------------------ MODULE TestReport ------------------------------
(***************************************************************************)
(* What a test runner promises, whatever the tests do: each function is    *)
(* handled once, in order; a summary is given only when all have been      *)
(* handled, and it says "success" exactly when none failed; a run that     *)
(* stops earlier is never taken for a success; every run stops.            *)
(***************************************************************************)
EXTENDS Naturals

VARIABLES
    count,      \* the number of functions to handle, which does not change
    handled,    \* how many have been
    failing,    \* which of them failed
    outcome     \* what the caller of the program can tell

vars == <<count, handled, failing, outcome>>

Init ==
    /\ count \in Nat
    /\ handled = 0
    /\ failing = {}
    /\ outcome = "running"

(* The next function passes, fails, or is passed over.                     *)
Handle ==
    /\ outcome = "running"
    /\ handled < count
    /\ handled' = handled + 1
    /\ failing' \in {failing, failing \cup {handled + 1}}
    /\ UNCHANGED <<count, outcome>>

Summarise ==
    /\ outcome = "running"
    /\ handled = count
    /\ outcome' = IF failing = {} THEN "success" ELSE "failure"
    /\ UNCHANGED <<count, handled, failing>>

(* The process may be lost while, or before, a function is handled.        *)
Die ==
    /\ outcome = "running"
    /\ handled < count
    /\ outcome' = "died"
    /\ handled' \in {handled, handled + 1}
    /\ UNCHANGED <<count, failing>>

Next == Handle \/ Summarise \/ Die

Spec == Init /\ [][Next]_vars /\ WF_vars(Next)
=============================================================================
