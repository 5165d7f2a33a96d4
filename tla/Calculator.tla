----------------------------- MODULE Calculator -----------------------------
(***************************************************************************)
(* The calculator of example/calculator.cpp: perform_operation, which goes *)
(* through the arguments with no operator precedence and stores what each  *)
(* operation gives in a block it allocates, and the main that displays     *)
(* them.  What is open is the command line, and whether the file is built  *)
(* for its unit test, where assert throws through the caller and does not  *)
(* end the process.                                                        *)
(***************************************************************************)
EXTENDS Integers, Sequences

CONSTANTS
    Lines,          \* command lines: sequences of arguments
    Table,          \* operator_function_map: from operator strings to functions
    IntModulus      \* how many values an int has

(* An argument, by what strcmp and strtol see in it: the operator string   *)
(* it is, if any, and the long it starts with, if any.                     *)
Argument == [operator : STRING, integer : BOOLEAN, long : Int]

ASSUME CalculatorAssumption ==
    /\ Lines \subseteq Seq(Argument)
    /\ \A s \in DOMAIN Table : Table[s] \in {"add", "subtract", "multiply", "divide"}
    /\ IntModulus \in Nat \ {0}
    /\ IntModulus % 2 = 0

(* Operators named Bad... are plausible mistakes; nothing uses them.       *)

MinInt == - (IntModulus \div 2)
MaxInt == -1 - MinInt
(* (int) of a long; and an int operation that overflows, as it is compiled. *)
ToInt(x) == ((x - MinInt) % IntModulus) + MinInt

VARIABLES
    arguments, unit_testing,    \* chosen at the start
    i,                  \* the next argument, from 0 as in the code
    number,             \* *number_of_intermediate_values
    value,              \* the value so far, then the result
    stored,             \* what the block holds: an index's value
    block,              \* *intermediate_values: null, held, freed, corrupt
    error,              \* *error_occurred, then main's return_value
    place,              \* where the program is
    shown               \* the intermediate values displayed

vars == <<arguments, unit_testing, i, number, value, stored, block, error, place,
          shown>>
input == <<arguments, unit_testing>>

number_of_arguments == Len(arguments)
Arg(k) == arguments[k + 1]

Init ==
    /\ arguments \in Lines
    /\ unit_testing \in BOOLEAN
    /\ i = 0
    /\ number = 0
    /\ value = 0
    /\ stored = <<>>
    /\ block = "null"
    /\ error = FALSE
    /\ place = "parse"
    /\ shown = <<>>

-----------------------------------------------------------------------------
(* / goes towards zero.                                                    *)
Abs(n) == IF n < 0 THEN -n ELSE n
Quotient(a, b) ==
    IF (a < 0) = (b < 0) THEN Abs(a) \div Abs(b) ELSE -(Abs(a) \div Abs(b))

BadApply(function, a, b) ==
    CASE function = "add" -> ToInt(a + b)
      [] function = "subtract" -> ToInt(b - a)
      [] function = "multiply" -> ToInt(a * b)
      [] function = "divide" -> Quotient(a, b)
(* The functions, where they are defined.                                  *)
Apply(function, a, b) ==
    CASE function = "add" -> ToInt(a + b)
      [] function = "subtract" -> ToInt(a - b)
      [] function = "multiply" -> ToInt(a * b)
      [] function = "divide" -> Quotient(a, b)

(* find_operator_function_by_string finds one                              *)
Known(argument) == argument.operator \in DOMAIN Table
FunctionOf(argument) == Table[argument.operator]

(* strtol moves end_of_integer.                                            *)
BadParses(argument) == TRUE
Parses(argument) == argument.integer

-----------------------------------------------------------------------------
(* perform_operation                                                       *)

NoArguments ==
    /\ place = "parse"
    /\ number_of_arguments = 0
    /\ place' = "display"
    /\ UNCHANGED <<input, i, number, value, stored, block, error, shown>>

FirstIsNoInteger ==
    /\ place = "parse"
    /\ number_of_arguments > 0
    /\ ~ Parses(Arg(0))
    /\ error' = TRUE
    /\ place' = "display"
    /\ UNCHANGED <<input, i, number, value, stored, block, shown>>

BadCapacity == number_of_arguments \div 2 - 1
Capacity == (number_of_arguments - 1) \div 2

(* With the call of calloc, which may have nothing left; then the tests'   *)
(* one asserts.                                                            *)
ParseFirst ==
    /\ place = "parse"
    /\ number_of_arguments > 0
    /\ Parses(Arg(0))
    /\ value' = ToInt(Arg(0).long)
    /\ \/ block' = "held" /\ place' = "loop"
       \/ UNCHANGED block /\ place' = IF unit_testing THEN "threw" ELSE "loop"
    /\ i' = 1
    /\ UNCHANGED <<input, number, stored, error, shown>>

InLoop == place = "loop" /\ i < number_of_arguments

(* The count is ahead of the store by the time an error is found; i is not *)
(* looked at again.                                                        *)
OperationFails ==
    /\ number' = number + 1
    /\ error' = TRUE
    /\ place' = "clean up"
    /\ UNCHANGED <<input, i, value, stored, block, shown>>

UnknownOperator == InLoop /\ ~ Known(Arg(i)) /\ OperationFails

MissingArgument ==
    /\ InLoop
    /\ Known(Arg(i))
    /\ i + 1 = number_of_arguments
    /\ OperationFails

OperandIsNoInteger ==
    /\ InLoop
    /\ Known(Arg(i))
    /\ i + 1 < number_of_arguments
    /\ ~ Parses(Arg(i + 1))
    /\ OperationFails

(* The operation is done or stops the program, then its value is stored.   *)
Operand == ToInt(Arg(i + 1).long)
Asserts == FunctionOf(Arg(i)) = "divide" /\ Operand = 0
Traps == FunctionOf(Arg(i)) = "divide" /\ Operand = -1 /\ value = MinInt

Stops(where) ==
    /\ place' = where
    /\ number' = number + 1
    /\ UNCHANGED <<input, i, value, stored, block, error, shown>>

AssertFails == IF unit_testing THEN "threw" ELSE "aborted"

Operate ==
    /\ InLoop
    /\ Known(Arg(i))
    /\ i + 1 < number_of_arguments
    /\ Parses(Arg(i + 1))
    /\ \/ Asserts /\ Stops(AssertFails)
       \/ ~ Asserts /\ (Traps \/ block = "null") /\ Stops("fault")
       \/ /\ ~ Asserts /\ ~ Traps /\ block # "null"
          /\ LET v == Apply(FunctionOf(Arg(i)), value, Operand)
             IN  /\ value' = v
                 /\ stored' = [k \in DOMAIN stored \cup {number} |->
                                  IF k = number THEN v ELSE stored[k]]
          /\ number' = number + 1
          /\ i' = i + 2
          /\ UNCHANGED <<input, block, error, place, shown>>

(* free, of the tests or of the system: nothing for a null pointer there,  *)
(* which the tests' one cannot take (MallocLayout).                        *)
Freed == IF block = "held" THEN "freed" ELSE IF block = "null" THEN "null" ELSE "corrupt"

BadReset == block' = Freed
Reset == block' = IF Freed = "corrupt" THEN "corrupt" ELSE "null"

(* After the loop, when an error occurred.                                 *)
CleanUp ==
    /\ place = "clean up"
    /\ Reset
    /\ number' = 0
    /\ value' = 0
    /\ place' = "display"
    /\ UNCHANGED <<input, i, stored, error, shown>>

Done ==
    /\ place = "loop"
    /\ i >= number_of_arguments
    /\ place' = "display"
    /\ UNCHANGED <<input, i, number, value, stored, block, error, shown>>

-----------------------------------------------------------------------------
(* main: with argv[0], its i is ahead of perform_operation's by one.       *)

DisplayedAt == 2 * Len(shown) + 1
Displaying ==
    /\ place = "display"
    /\ ~ error
    /\ DisplayedAt < number_of_arguments

(* What main asserts, which InBounds shows it may.                         *)
InTable(index) == index < number

Display ==
    /\ Displaying
    /\ InTable(Len(shown))
    /\ shown' = Append(shown, stored[Len(shown)])
    /\ UNCHANGED <<input, i, number, value, stored, block, error, place>>

Return ==
    /\ place = "display"
    /\ ~ Displaying
    /\ block' = IF block = "null" THEN "null" ELSE Freed
    /\ place' = "returned"
    /\ UNCHANGED <<input, i, number, value, stored, error, shown>>

Stopped == {"returned", "threw", "aborted", "fault"}
Ended == place \in Stopped /\ UNCHANGED vars

Next ==
    \/ NoArguments \/ FirstIsNoInteger \/ ParseFirst
    \/ UnknownOperator \/ MissingArgument \/ OperandIsNoInteger \/ Operate
    \/ CleanUp \/ Done
    \/ Display \/ Return
    \/ Ended

Spec == Init /\ [][Next]_vars

-----------------------------------------------------------------------------
(* Properties                                                              *)

(* The unchecked stores stay in the block that was sized before the loop,  *)
(* and main reads no value that was not stored and no argument past the    *)
(* last, nor fails its assertion on their number, however the line is      *)
(* malformed.                                                              *)
InBounds ==
    /\ DOMAIN stored \subseteq 0..(Capacity - 1)
    /\ Displaying =>
          /\ InTable(Len(shown)) /\ Len(shown) \in DOMAIN stored
          /\ DisplayedAt + 1 < number_of_arguments

(* Arithmetic in a word, said without it: sums and products by their       *)
(* residues, a quotient by its remainder.                                  *)
Correct(function, a, b, v) ==
    /\ v \in MinInt..MaxInt
    /\ CASE function = "add" -> (v - (a + b)) % IntModulus = 0
         [] function = "subtract" -> (v + b - a) % IntModulus = 0
         [] function = "multiply" -> (v - a * b) % IntModulus = 0
         [] function = "divide" ->
               LET r == a - v * b IN r * r < b * b /\ r * a >= 0

(* Each value stored is the one before it, or the first integer, with its  *)
(* operator and its operand, each narrowed to int; the result is the last. *)
ValuesExact ==
    LET Operations == DOMAIN stored
        Narrowed(n) == CHOOSE v \in MinInt..MaxInt : (v - n) % IntModulus = 0
        Before(k) == IF k = 0 THEN Narrowed(Arg(0).long) ELSE stored[k - 1]
    IN  /\ \A k \in Operations :
              Correct(FunctionOf(Arg(2 * k + 1)), Before(k),
                      Narrowed(Arg(2 * k + 2).long), stored[k])
        /\ place = "loop" => value = Before(number)

(* The program comes to its end without an error exactly for the lines of  *)
(* integers with known operators between them, and then it has displayed   *)
(* the value of each operation, in order.                                  *)
WellFormed ==
    \/ number_of_arguments = 0
    \/ /\ number_of_arguments % 2 = 1
       /\ \A k \in 0..(number_of_arguments - 1) :
             IF k % 2 = 0 THEN Arg(k).integer ELSE Known(Arg(k))

VerdictExact ==
    place = "returned" =>
        /\ error <=> ~ WellFormed
        /\ ~ error =>
              /\ 2 * Len(shown) = (IF number_of_arguments = 0 THEN 0
                                   ELSE number_of_arguments - 1)
              /\ \A k \in 1..Len(shown) : shown[k] = stored[k - 1]

(* "If an error occurs ... the operation is aborted and 0 is returned":    *)
(* after an error nothing is left of the operations before it, the block   *)
(* is freed once whichever of the two functions does it, and it is left    *)
(* behind only where assert leaves through perform_operation.              *)
CleansUp ==
    /\ error /\ place \in {"display", "returned"} =>
          number = 0 /\ value = 0 /\ block = "null"
    /\ block # "corrupt"
    /\ place = "returned" => block # "held"
=============================================================================
