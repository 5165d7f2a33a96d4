------------------------------- MODULE Checks -------------------------------
(***************************************************************************)
(* What the assertions and value checks of src/cmockery.cpp decide.  Their *)
(* macros convert each argument first: to LargestIntegralType, which is    *)
(* unsigned, or for mock_assert to int.  A test gives them C integers of   *)
(* any type; the types matter where two of them meet, and the width of an  *)
(* int where bytes are counted with one.                                   *)
(***************************************************************************)
EXTENDS Integers

CONSTANTS
    Modulus,        \* how many values LargestIntegralType, size_t, a long and
                    \* a pointer have
    IntModulus,     \* how many values an int has
    Sets,           \* sets of LargestIntegralType that a test checks against
    Text            \* what the string at an address is, for some addresses

ASSUME ChecksAssumption ==
    /\ Modulus \in Nat \ {0} /\ IntModulus \in Nat \ {0}
    /\ IntModulus % 2 = 0 /\ Modulus % IntModulus = 0
    /\ Sets \subseteq SUBSET (0..(Modulus - 1))
    /\ DOMAIN Text \subseteq 0..(Modulus - 1)

Signed(modulus) == (-(modulus \div 2))..((modulus \div 2) - 1)
Unsigned(modulus) == 0..(modulus - 1)

Types == {"int", "unsigned", "long", "pointer"}
Range(type) == CASE type = "int" -> Signed(IntModulus)
                 [] type = "unsigned" -> Unsigned(IntModulus)
                 [] type = "long" -> Signed(Modulus)
                 [] type = "pointer" -> Unsigned(Modulus)

(* An expression of the test: its type and its value.                      *)
OfType(t) == {[type |-> t, value |-> v] : v \in Range(t)}
Expressions == UNION {OfType(t) : t \in Types}
Strings == {e \in OfType("pointer") : e.value \in DOMAIN Text}

VARIABLES
    check,      \* the check made
    args,       \* its arguments
    outcome     \* how it ended

vars == <<check, args, outcome>>

Init ==
    /\ check = "none"
    /\ args = <<>>
    /\ outcome = "none"

Call(name, arguments, ok, otherwise) ==
    /\ check' = name
    /\ args' = arguments
    /\ outcome' = IF ok THEN "passes" ELSE otherwise

-----------------------------------------------------------------------------
(* Conversions.  Operators named Bad... are plausible mistakes; nothing    *)
(* uses them.                                                              *)

BadCast(e) == e.value % IntModulus
Cast(e) == e.value % Modulus         \* cast_to_largest_integral_type
CastBack(n) == n                    \* cast_largest_integral_type_to_pointer

(* Of a long passed as int, and of an int that is counted up too far.      *)
BadToInt(n) == IF n < 0 THEN 0 ELSE n % IntModulus
ToInt(n) == ((n + (IntModulus \div 2)) % IntModulus) - (IntModulus \div 2)

-----------------------------------------------------------------------------
(* What they compare                                                       *)

values_equal(a, b) == Cast(a) = Cast(b)
BadDiffer(a, b) == a.value < b.value \/ a.value > b.value
Differ(a, b) == Cast(a) # Cast(b)

InRange(v, min, max) == Cast(v) >= Cast(min) /\ Cast(v) <= Cast(max)
NotInRange(v, min, max) == Cast(v) < Cast(min) \/ Cast(v) > Cast(max)

ValueInSet(v, set, invert) == invert # (\E s \in set : s = Cast(v))

StringOf(e) == Text[CastBack(Cast(e))]
StringsEqual(a, b) == StringOf(a) = StringOf(b)

(* Two areas of size bytes, of which `same` are the same; no area is       *)
(* longer than half the addresses.                                         *)
Sizes == 0..((Modulus \div 2) - 1)
MemoryEqual(size, same) == ToInt(size - same) = 0
MemoryNotEqual(size, same) == (ToInt(same) % Modulus) # size

-----------------------------------------------------------------------------
(* The checks.  _assert_true, _assert_int_equal and the ones of strings    *)
(* throw assert_fail, the other assertions call _fail, mock_assert throws  *)
(* its expression, a check of a parameter is _fail'ed by _check_expected;  *)
(* the others return to a caller who is to come.                           *)

_assert_true(e) == Call("assert_true", <<e>>, Cast(e) # 0, "throws")
_assert_false(e) == Call("assert_false", <<e>>, Cast(e) # 0, "fails")
mock_assert(e) == Call("mock_assert", <<e>>, ToInt(e.value) # 0, "throws")

_assert_not_null(c) == Call("assert_not_null", <<c>>, c.value # 0, "fails")

_assert_int_equal(a, b) ==
    Call("assert_int_equal", <<a, b>>, values_equal(a, b), "throws")
_assert_int_not_equal(a, b) ==
    Call("assert_int_not_equal", <<a, b>>, Differ(a, b), "fails")

_assert_string_equal(a, b) ==
    Call("assert_string_equal", <<a, b>>, StringsEqual(a, b), "throws")
_assert_string_not_equal(a, b) ==
    Call("assert_string_not_equal", <<a, b>>, ~ StringsEqual(a, b), "throws")

(* expect_value(f, p, a), then check_expected(b) in f; and so the others.  *)
check_value(a, b) == Call("check_value", <<a, b>>, values_equal(b, a), "fails")
check_string(a, b) == Call("check_string", <<a, b>>, StringsEqual(b, a), "fails")
check_not_string(a, b) ==
    Call("check_not_string", <<a, b>>, ~ StringsEqual(b, a), "fails")
check_any(a) == Call("check_any", <<a>>, TRUE, "fails")

integer_in_range(v, min, max) ==
    Call("in_range", <<v, min, max>>, InRange(v, min, max), "returns 0")
integer_not_in_range(v, min, max) ==
    Call("not_in_range", <<v, min, max>>, NotInRange(v, min, max), "returns 0")

value_in_set(v, set) == Call("in_set", <<v, set>>, ValueInSet(v, set, FALSE), "returns 0")
value_not_in_set(v, set) ==
    Call("not_in_set", <<v, set>>, ValueInSet(v, set, TRUE), "returns 0")

memory_equal(size, same) ==
    Call("memory_equal", <<size, same>>, MemoryEqual(size, same), "returns 0")
memory_not_equal(size, same) ==
    Call("memory_not_equal", <<size, same>>, MemoryNotEqual(size, same), "returns 0")

Ended == check # "none" /\ UNCHANGED vars

Check ==
    \/ \E a \in Expressions :
          \/ _assert_true(a) \/ _assert_false(a) \/ mock_assert(a) \/ check_any(a)
          \/ \E b \in Expressions :
                \/ _assert_int_equal(a, b) \/ _assert_int_not_equal(a, b)
                \/ check_value(a, b)
          \/ \E set \in Sets : value_in_set(a, set) \/ value_not_in_set(a, set)
    \/ \E t \in Types : \E a, b, c \in OfType(t) :
          integer_in_range(a, b, c) \/ integer_not_in_range(a, b, c)
    \/ \E c \in OfType("pointer") : _assert_not_null(c)
    \/ \E a, b \in Strings :
          \/ _assert_string_equal(a, b) \/ _assert_string_not_equal(a, b)
          \/ check_string(a, b) \/ check_not_string(a, b)
    \/ \E size \in Sizes : \E same \in 0..size :
          memory_equal(size, same) \/ memory_not_equal(size, same)

(* They have no state: one of them shows all it does.                      *)
Next == (check = "none" /\ Check) \/ Ended

Spec == Init /\ [][Next]_vars

-----------------------------------------------------------------------------
(* Properties                                                              *)

Passes == outcome = "passes"

(* As unsigned words, all negative values come after all others.           *)
WordOrder(a, b) == IF (a < 0) = (b < 0) THEN a <= b ELSE b < 0

(* Two values of one C type are equal to assert_int_equal and to an        *)
(* expected value exactly when they are, negative ones too.  Ranges of one *)
(* C type are those of the order in which the negative values follow the   *)
(* others, so that one from -1 to 1 is empty, and one from 1 to -1 has all *)
(* but 0.  Areas of memory whose bytes an unsigned int can count are equal *)
(* exactly when all their bytes are.                                       *)
SameTypeExact ==
    /\ check \in {"assert_int_equal", "check_value"} /\ args[1].type = args[2].type
          => (Passes <=> args[1].value = args[2].value)
    /\ check = "in_range"
          => (Passes <=> /\ WordOrder(args[2].value, args[1].value)
                         /\ WordOrder(args[1].value, args[3].value))
    /\ check = "memory_equal" /\ args[1] < IntModulus
          => (Passes <=> args[1] = args[2])

(* A check and its opposite never agree, for arguments of any types: where *)
(* C would convert two types differently both still mean equality of what  *)
(* LargestIntegralType keeps, and a range with its ends the wrong way      *)
(* round is empty to both.  Areas that an int can count, the empty one     *)
(* too, are not equal exactly when some byte differs.                      *)
NegationExact ==
    /\ check = "assert_int_not_equal"
          => (Passes <=>
                 ~ \E k \in -1..1 : args[1].value = args[2].value + k * Modulus)
    /\ check = "not_in_range" => (Passes <=> ~ InRange(args[1], args[2], args[3]))
    /\ check = "not_in_set" => (Passes <=> ~ ValueInSet(args[1], args[2], FALSE))
    /\ check = "memory_not_equal" /\ args[1] < IntModulus \div 2
          => (Passes <=> args[1] # args[2])

(* A true condition is never taken for a failed assertion but by           *)
(* mock_assert, and by that only where an int has none of its bits; a      *)
(* false one never passes.  That is so of assert_false too, whose          *)
(* condition is the wrong way round.                                       *)
TruthExact ==
    /\ check \in {"assert_true", "assert_false", "assert_not_null"}
          => (Passes <=> args[1].value # 0)
    /\ check = "mock_assert" =>
          (Passes <=> \A k \in (-Modulus)..Modulus : args[1].value # k * IntModulus)
=============================================================================
