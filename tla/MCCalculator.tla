---------------------------- MODULE MCCalculator ----------------------------
(* Instances of Calculator for TLC.                                        *)
EXTENDS Calculator

Operator(s) == [operator |-> s, integer |-> FALSE, long |-> 0]
Integer(n) == [operator |-> "", integer |-> TRUE, long |-> n]

(* With 3-bit ints: their extremes, and a long that narrows to 1.          *)
Integers == {Integer(n) : n \in {-4, -1, 0, 3, 9}}
Operators == {Operator(s) : s \in {"+", "-", "*", "/"}}
Neither == {Operator("%")}

(* Lines of up to five arguments, each place with what belongs there or    *)
(* with something else.                                                    *)
Odd == Integers \cup Neither
Even == Operators \cup Neither \cup {Integer(3)}
SomeLines ==
    {<<>>} \cup {<<a>> : a \in Odd} \cup (Odd \X Even) \cup (Odd \X Even \X Odd)
    \cup (Odd \X Even \X Odd \X Even) \cup (Odd \X Even \X Odd \X Even \X Odd)

FourOperators ==
    [s \in {"+", "-", "*", "/"} |->
        CASE s = "+" -> "add" [] s = "-" -> "subtract"
          [] s = "*" -> "multiply" [] s = "/" -> "divide"]
=============================================================================
