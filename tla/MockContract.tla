----------------------------- MODULE MockContract -----------------------------
(***************************************************************************)
(* What cmockery.h promises of will_return(), the expect_*() macros,       *)
(* mock() and check_expected(): values declared for a symbol are used in   *)
(* the order they were declared, each as many times as its count says (-1: *)
(* always); a use for which nothing is left fails the test; and a test     *)
(* does not pass until all that it declared has been used.                 *)
(***************************************************************************)
EXTENDS Integers, Sequences, SequencesExt

CONSTANTS
    Keys,           \* the symbols: functions, and parameters of functions
    Always,         \* the count of a value that may be used for ever
    Locations       \* what tells declarations apart

VARIABLES
    declared,   \* for each key, what has been declared in this test, in order
    used,       \* how often the declaration at each location has been used
    missing,    \* the key for which a use found nothing, if any
    verdict

vars == <<declared, used, missing, verdict>>

Nothing == [k \in Keys |-> <<>>]
Unused == [l \in Locations |-> 0]

Times(d) == used[d.location]

(* Used as often as its count says.  A value with the count 0 never is: it *)
(* answers no use, and hides what is declared behind it.                   *)
Spent(d) == d.count # 0 /\ Times(d) = d.count

(* The declaration that answers the next use: the first that is not spent. *)
Due(k) ==
    {j \in 1..Len(declared[k]) :
        /\ \A i \in 1..(j - 1) : Spent(declared[k][i])
        /\ declared[k][j].count = Always \/ Times(declared[k][j]) < declared[k][j].count}

(* All that was declared has been used: finite counts to the last time, a  *)
(* value returned always at least once, which leaves none behind it.       *)
Satisfied(k) ==
    \A j \in 1..Len(declared[k]) :
        LET d == declared[k][j]
        IN  Times(d) > 0 /\ (d.count = Always \/ Spent(d))

Fresh(l) ==
    \A k \in Keys : \A j \in 1..Len(declared[k]) : declared[k][j].location # l

Init == declared = Nothing /\ used = Unused /\ missing = {} /\ verdict = "none"

Begin ==
    /\ declared' = Nothing
    /\ used' = Unused
    /\ missing' = {}
    /\ verdict' = "none"

Declare(k) ==
    /\ verdict = "none"
    /\ Len(declared'[k]) > 0
    /\ Fresh(Last(declared'[k]).location)
    /\ declared' = [declared EXCEPT ![k] = Append(@, Last(declared'[k]))]
    /\ UNCHANGED <<used, missing, verdict>>

(* The value found is used; a parameter check may also find it wrong.      *)
Use(k) ==
    /\ verdict = "none"
    /\ \E j \in Due(k) :
           used' = [used EXCEPT ![declared[k][j].location] = @ + 1]
    /\ verdict' \in {"none", "mismatch"}
    /\ UNCHANGED <<declared, missing>>

Missing(k) ==
    /\ verdict = "none"
    /\ Due(k) = {}
    /\ missing' = {k}
    /\ verdict' = "missing"
    /\ UNCHANGED <<declared, used>>

Throw == verdict = "none" /\ verdict' = "threw"
         /\ UNCHANGED <<declared, used, missing>>

Verify ==
    /\ verdict = "none"
    /\ verdict' = IF \A k \in Keys : Satisfied(k) THEN "passed" ELSE "leftover"
    /\ UNCHANGED <<declared, used, missing>>

Next == \/ Begin \/ Throw \/ Verify
        \/ \E k \in Keys : Declare(k) \/ Use(k) \/ Missing(k)

Spec == Init /\ [][Next]_vars
=============================================================================
