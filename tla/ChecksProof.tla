---------------------------- MODULE ChecksProof ----------------------------
(***************************************************************************)
(* Proofs about Checks, for words of any size: what a cast leaves of the   *)
(* values of each type (CastIs) and what the conversion to int leaves      *)
(* (ToIntKeeps, ToIntZero).  The invariant, Decided, says of the check     *)
(* made what it was given and by which comparison it passed; the           *)
(* properties follow from it by arithmetic.                                *)
(***************************************************************************)
EXTENDS Checks, TLAPS

-----------------------------------------------------------------------------
(* Residues                                                                *)

(* A multiple of m that is nearer to 0 than m is 0.                        *)
LEMMA NoSmallMultiple ==
    ASSUME NEW m \in Nat \ {0}, NEW k \in Int, k * m > -m, k * m < m
    PROVE  k = 0
    <1>1. k * m \in Int
        OBVIOUS
    <1>2. CASE k >= 1
        <2>1. k * m = m + (k - 1) * m /\ (k - 1) * m >= 0 /\ (k - 1) * m \in Int
            BY <1>2
        <2> QED BY <1>1, <2>1
    <1>3. CASE k <= -1
        <2>1. k * m = (k + 1) * m - m /\ (k + 1) * m <= 0 /\ (k + 1) * m \in Int
            BY <1>3
        <2> QED BY <1>1, <2>1
    <1> QED BY <1>2, <1>3

(* What / and % are to each other.                                         *)
LEMMA Divided ==
    ASSUME NEW m \in Nat \ {0}, NEW x \in Int
    PROVE  /\ x \div m \in Int /\ x % m \in 0..(m - 1)
           /\ x = (x \div m) * m + (x % m)
    OBVIOUS

(* A remainder is known by where it lies and by what it leaves.            *)
LEMMA Remainder ==
    ASSUME NEW m \in Nat \ {0}, NEW x \in Int, NEW q \in Int, NEW r \in 0..(m - 1),
           x = q * m + r
    PROVE  x % m = r
    <1> DEFINE d == x \div m
               s == x % m
    <1>1. d \in Int /\ s \in 0..(m - 1) /\ x = d * m + s
        BY Divided
    <1> HIDE DEF d, s
    <1>2. (q - d) * m = s - r
        <2>1. (q - d) * m = q * m - d * m /\ q * m \in Int /\ d * m \in Int
            BY <1>1
        <2> QED BY <1>1, <2>1
    <1>3. q - d = 0
        BY <1>1, <1>2, NoSmallMultiple
    <1> QED BY <1>1, <1>2, <1>3 DEF s

(* What two numbers leave is the same when they are m apart.               *)
LEMMA Within ==
    ASSUME NEW m \in Nat \ {0}, NEW x \in (-m)..(m - 1)
    PROVE  x % m = IF x < 0 THEN x + m ELSE x
    <1>1. CASE x < 0
        <2>1. x = (-1) * m + (x + m) /\ x + m \in 0..(m - 1)
            BY <1>1
        <2> QED BY <1>1, <2>1, Remainder
    <1>2. CASE x >= 0
        <2>1. x = 0 * m + x /\ x \in 0..(m - 1)
            BY <1>2
        <2> QED BY <1>2, <2>1, Remainder
    <1> QED BY <1>1, <1>2

(* The widths: both moduli are even, and a word holds an int.              *)
LEMMA Widths ==
    /\ Modulus \in Nat \ {0} /\ IntModulus \in Nat \ {0}
    /\ IntModulus <= Modulus
    /\ IntModulus \div 2 \in Nat \ {0} /\ IntModulus = 2 * (IntModulus \div 2)
    /\ Modulus \div 2 \in Nat \ {0} /\ Modulus = 2 * (Modulus \div 2)
    <1> DEFINE I == IntModulus
               M == Modulus
               h == I \div 2
               d == M \div I
    <1>1. I \in Nat \ {0} /\ M \in Nat \ {0} /\ I % 2 = 0 /\ M % I = 0
        BY ChecksAssumption
    <1>2. h \in Nat \ {0} /\ I = 2 * h
        BY <1>1
    <1>3. d \in Int /\ M = d * I
        <2>1. d \in Int /\ M = d * I + 0
            BY <1>1, Divided
        <2> QED BY <1>1, <2>1
    <1> HIDE DEF I, M, h, d
    <1>4. d >= 1
        <2> SUFFICES ASSUME d <= 0 PROVE FALSE
            BY <1>3
        <2>1. d * I <= 0
            BY <1>1, <1>3
        <2> QED BY <1>1, <1>3, <2>1
    <1>5. M >= I
        <2>1. d * I = I + (d - 1) * I /\ (d - 1) * I >= 0 /\ (d - 1) * I \in Int
            BY <1>1, <1>3, <1>4
        <2> QED BY <1>1, <1>3, <2>1
    <1>6. M = 2 * (d * h) /\ d * h \in Int
        BY <1>2, <1>3
    <1>7. M \div 2 \in Nat \ {0} /\ M = 2 * (M \div 2)
        BY <1>1, <1>6
    <1> QED BY <1>1, <1>2, <1>5, <1>7 DEF I, M, h

(* The values of the four types.                                           *)
LEMMA ValueIs ==
    ASSUME NEW e \in Expressions
    PROVE  /\ e.type \in Types
           /\ e.value \in (-(Modulus \div 2))..(Modulus - 1)
           /\ e.type \in {"int", "long"} => e.value < Modulus \div 2
           /\ e.type \in {"unsigned", "pointer"} => e.value >= 0
    <1>1. PICK t \in Types : e \in OfType(t)
        BY DEF Expressions
    <1>2. e.type = t /\ e.value \in Range(t)
        BY <1>1 DEF OfType
    <1>3. CASE t = "int"
        BY <1>2, <1>3, Widths DEF Range, Signed
    <1>4. CASE t = "unsigned"
        BY <1>2, <1>4, Widths DEF Range, Unsigned
    <1>5. CASE t = "long"
        BY <1>2, <1>5, Widths DEF Range, Signed
    <1>6. CASE t = "pointer"
        BY <1>2, <1>6, Widths DEF Range, Unsigned
    <1> QED BY <1>1, <1>2, <1>3, <1>4, <1>5, <1>6 DEF Types

(* A cast to LargestIntegralType changes the negative ones only.           *)
LEMMA CastIs ==
    ASSUME NEW e \in Expressions
    PROVE  /\ Cast(e) = IF e.value < 0 THEN e.value + Modulus ELSE e.value
           /\ e.value \in (-Modulus)..(Modulus - 1)
    <1>1. e.value \in (-Modulus)..(Modulus - 1)
        BY ValueIs, Widths
    <1> QED BY <1>1, Within, Widths DEF Cast

(* What ToInt leaves of a number an int has, and of any.                   *)
LEMMA ToIntKeeps ==
    ASSUME NEW n \in (-(IntModulus \div 2))..((IntModulus \div 2) - 1)
    PROVE  ToInt(n) = n
    <1> DEFINE h == IntModulus \div 2
    <1>1. h \in Nat \ {0} /\ IntModulus = 2 * h /\ IntModulus \in Nat \ {0}
        BY Widths
    <1>2. ToInt(n) = ((n + h) % IntModulus) - h
        BY DEF ToInt
    <1> HIDE DEF h
    <1>3. n \in (-h)..(h - 1)
        BY DEF h
    <1>4. n + h \in 0..(IntModulus - 1) /\ n + h = 0 * IntModulus + (n + h)
        BY <1>1, <1>3
    <1>5. (n + h) % IntModulus = n + h
        BY <1>1, <1>4, Remainder
    <1> QED BY <1>1, <1>2, <1>3, <1>5

LEMMA ToIntZero ==
    ASSUME NEW n \in Int
    PROVE  ToInt(n) = 0 <=> \E k \in Int : n = k * IntModulus
    <1> DEFINE I == IntModulus
               h == I \div 2
               x == n + h
               q == x \div I
    <1>1. h \in Nat \ {0} /\ I = 2 * h /\ I \in Nat \ {0}
        BY Widths
    <1>2. ToInt(n) = (x % I) - h
        BY DEF ToInt
    <1> HIDE DEF h
    <1>3. x \in Int /\ n = x - h
        BY <1>1
    <1> HIDE DEF I, x
    <1>4. q \in Int /\ x % I \in 0..(I - 1) /\ x = q * I + (x % I)
        BY <1>1, <1>3, Divided
    <1> HIDE DEF q
    <1>5. ASSUME ToInt(n) = 0 PROVE n = q * I
        <2>1. x % I = h /\ q * I \in Int
            BY <1>1, <1>2, <1>4, <1>5
        <2> QED BY <1>1, <1>3, <1>4, <2>1
    <1>6. ASSUME NEW k \in Int, n = k * I PROVE ToInt(n) = 0
        <2>1. x = k * I + h /\ h \in 0..(I - 1)
            <3>1. k * I \in Int
                BY <1>1
            <3> QED BY <1>1, <1>3, <1>6, <3>1
        <2>2. x % I = h
            BY <1>1, <1>3, <2>1, Remainder
        <2> QED BY <1>1, <1>2, <2>2
    <1> QED BY <1>4, <1>5, <1>6 DEF I

-----------------------------------------------------------------------------
(* What is known of the check made                                         *)

Two == args[1] \in Expressions /\ args[2] \in Expressions
OneType == \E t \in Types : \A k \in 1..3 : args[k] \in OfType(t)
Area == args[1] \in Sizes /\ args[2] \in 0..args[1]

(* Of the checks the properties are about: what they were given, and what  *)
(* decided.                                                                *)
Decided ==
    /\ check \in {"assert_int_equal", "check_value"} =>
          Two /\ (Passes <=> values_equal(args[1], args[2]))
    /\ check = "assert_int_not_equal" => Two /\ (Passes <=> Differ(args[1], args[2]))
    /\ check = "in_range" =>
          OneType /\ (Passes <=> InRange(args[1], args[2], args[3]))
    /\ check = "not_in_range" =>
          OneType /\ (Passes <=> NotInRange(args[1], args[2], args[3]))
    /\ check = "not_in_set" => (Passes <=> ValueInSet(args[1], args[2], TRUE))
    /\ check = "memory_equal" => Area /\ (Passes <=> MemoryEqual(args[1], args[2]))
    /\ check = "memory_not_equal" =>
          Area /\ (Passes <=> MemoryNotEqual(args[1], args[2]))
    /\ check \in {"assert_true", "assert_false"} =>
          args[1] \in Expressions /\ (Passes <=> Cast(args[1]) # 0)
    /\ check = "assert_not_null" => (Passes <=> args[1].value # 0)
    /\ check = "mock_assert" =>
          args[1] \in Expressions /\ (Passes <=> ToInt(args[1].value) # 0)

Others == {"none", "check_any", "in_set", "assert_string_equal",
           "assert_string_not_equal", "check_string", "check_not_string"}

(* What a call leaves to be seen.                                          *)
LEMMA Called ==
    ASSUME NEW name, NEW arguments, NEW ok \in BOOLEAN,
           NEW otherwise \in {"throws", "fails", "returns 0"},
           Call(name, arguments, ok, otherwise)
    PROVE  check' = name /\ args' = arguments /\ (Passes' <=> ok)
    BY DEF Call, Passes

LEMMA OtherDecided == check' \in Others => Decided'
    BY DEF Decided, Others

LEMMA OneDecided ==
    ASSUME NEW a \in Expressions,
           _assert_true(a) \/ _assert_false(a) \/ mock_assert(a) \/ check_any(a)
    PROVE  Decided'
    <1>1. CASE _assert_true(a)
        <2>1. check' = "assert_true" /\ args' = <<a>> /\ (Passes' <=> Cast(a) # 0)
            BY <1>1, Called DEF _assert_true
        <2> QED BY <2>1 DEF Decided
    <1>2. CASE _assert_false(a)
        <2>1. check' = "assert_false" /\ args' = <<a>> /\ (Passes' <=> Cast(a) # 0)
            BY <1>2, Called DEF _assert_false
        <2> QED BY <2>1 DEF Decided
    <1>3. CASE mock_assert(a)
        <2>1. check' = "mock_assert" /\ args' = <<a>> /\ (Passes' <=> ToInt(a.value) # 0)
            BY <1>3, Called DEF mock_assert
        <2> QED BY <2>1 DEF Decided
    <1>4. CASE check_any(a)
        <2>1. check' = "check_any"
            BY <1>4 DEF check_any, Call
        <2> QED BY <2>1, OtherDecided DEF Others
    <1> QED BY <1>1, <1>2, <1>3, <1>4

LEMMA TwoDecided ==
    ASSUME NEW a \in Expressions, NEW b \in Expressions,
           _assert_int_equal(a, b) \/ _assert_int_not_equal(a, b) \/ check_value(a, b)
    PROVE  Decided'
    <1>1. CASE _assert_int_equal(a, b)
        <2>1. /\ check' = "assert_int_equal" /\ args' = <<a, b>>
              /\ Passes' <=> values_equal(a, b)
            BY <1>1, Called DEF _assert_int_equal, values_equal
        <2> QED BY <2>1 DEF Decided, Two
    <1>2. CASE _assert_int_not_equal(a, b)
        <2>1. /\ check' = "assert_int_not_equal" /\ args' = <<a, b>>
              /\ Passes' <=> Differ(a, b)
            BY <1>2, Called DEF _assert_int_not_equal, Differ
        <2> QED BY <2>1 DEF Decided, Two
    <1>3. CASE check_value(a, b)
        <2>1. /\ check' = "check_value" /\ args' = <<a, b>>
              /\ Passes' <=> values_equal(a, b)
            BY <1>3, Called DEF check_value, values_equal
        <2> QED BY <2>1 DEF Decided, Two
    <1> QED BY <1>1, <1>2, <1>3

LEMMA SetDecided ==
    ASSUME NEW a \in Expressions, NEW set \in Sets,
           value_in_set(a, set) \/ value_not_in_set(a, set)
    PROVE  Decided'
    <1>1. CASE value_in_set(a, set)
        <2>1. check' = "in_set"
            BY <1>1 DEF value_in_set, Call
        <2> QED BY <2>1, OtherDecided DEF Others
    <1>2. CASE value_not_in_set(a, set)
        <2>1. /\ check' = "not_in_set" /\ args' = <<a, set>>
              /\ Passes' <=> ValueInSet(a, set, TRUE)
            BY <1>2, Called DEF value_not_in_set, ValueInSet
        <2> QED BY <2>1 DEF Decided
    <1> QED BY <1>1, <1>2

LEMMA RangeDecided ==
    ASSUME NEW t \in Types, NEW a \in OfType(t), NEW b \in OfType(t), NEW c \in OfType(t),
           integer_in_range(a, b, c) \/ integer_not_in_range(a, b, c)
    PROVE  Decided'
    <1>1. ASSUME args' = <<a, b, c>> PROVE OneType'
        <2>1. \A k \in 1..3 : args'[k] \in OfType(t)
            BY <1>1
        <2> QED BY <2>1 DEF OneType
    <1>2. CASE integer_in_range(a, b, c)
        <2>1. /\ check' = "in_range" /\ args' = <<a, b, c>>
              /\ Passes' <=> InRange(a, b, c)
            BY <1>2, Called DEF integer_in_range, InRange
        <2> QED BY <1>1, <2>1 DEF Decided
    <1>3. CASE integer_not_in_range(a, b, c)
        <2>1. /\ check' = "not_in_range" /\ args' = <<a, b, c>>
              /\ Passes' <=> NotInRange(a, b, c)
            BY <1>3, Called DEF integer_not_in_range, NotInRange
        <2> QED BY <1>1, <2>1 DEF Decided
    <1> QED BY <1>2, <1>3

LEMMA NullDecided ==
    ASSUME NEW c \in OfType("pointer"), _assert_not_null(c) PROVE Decided'
    <1>1. check' = "assert_not_null" /\ args' = <<c>> /\ (Passes' <=> c.value # 0)
        BY Called DEF _assert_not_null
    <1> QED BY <1>1 DEF Decided

LEMMA StringDecided ==
    ASSUME NEW a, NEW b,
           \/ _assert_string_equal(a, b) \/ _assert_string_not_equal(a, b)
           \/ check_string(a, b) \/ check_not_string(a, b)
    PROVE  Decided'
    <1>1. check' \in {"assert_string_equal", "assert_string_not_equal", "check_string",
                      "check_not_string"}
        BY DEF _assert_string_equal, _assert_string_not_equal, check_string,
               check_not_string, Call
    <1> QED BY <1>1, OtherDecided DEF Others

LEMMA MemoryDecided ==
    ASSUME NEW size \in Sizes, NEW same \in 0..size,
           memory_equal(size, same) \/ memory_not_equal(size, same)
    PROVE  Decided'
    <1>1. CASE memory_equal(size, same)
        <2>1. /\ check' = "memory_equal" /\ args' = <<size, same>>
              /\ Passes' <=> MemoryEqual(size, same)
            BY <1>1, Called DEF memory_equal, MemoryEqual
        <2> QED BY <2>1 DEF Decided, Area
    <1>2. CASE memory_not_equal(size, same)
        <2>1. /\ check' = "memory_not_equal" /\ args' = <<size, same>>
              /\ Passes' <=> MemoryNotEqual(size, same)
            BY <1>2, Called DEF memory_not_equal, MemoryNotEqual
        <2> QED BY <2>1 DEF Decided, Area
    <1> QED BY <1>1, <1>2

LEMMA DecidedNext == Decided /\ [Next]_vars => Decided'
    <1> SUFFICES ASSUME Decided, [Next]_vars PROVE Decided'
        OBVIOUS
    <1>1. CASE Check
        BY <1>1, OneDecided, TwoDecided, SetDecided, RangeDecided, NullDecided,
           StringDecided, MemoryDecided DEF Check
    <1>2. CASE UNCHANGED vars
        BY <1>2 DEF vars, Decided, Two, OneType, Area, Passes
    <1> QED BY <1>1, <1>2 DEF Next, Ended

LEMMA DecidedInit == Init => Decided
    BY DEF Init, Decided

(* Whatever a test calls, the check made is Decided.                       *)
THEOREM ChecksInvariance == Spec => []Decided
    BY DecidedInit, DecidedNext, PTL DEF Spec

-----------------------------------------------------------------------------
(* What was decided is what the properties ask for.                        *)

(* How words are ordered, told by the values of one type.                  *)
LEMMA OrderIs ==
    ASSUME NEW t \in Types, NEW a \in OfType(t), NEW b \in OfType(t)
    PROVE  Cast(a) <= Cast(b) <=> WordOrder(a.value, b.value)
    <1> DEFINE v == a.value
               w == b.value
               M == Modulus
               half == M \div 2
    <1>1. M \in Nat \ {0} /\ half \in Nat \ {0} /\ M = 2 * half
        BY Widths
    <1>2. /\ Cast(a) = IF v < 0 THEN v + M ELSE v
          /\ Cast(b) = IF w < 0 THEN w + M ELSE w
          /\ v \in (-half)..(M - 1) /\ w \in (-half)..(M - 1)
          /\ (v < half /\ w < half) \/ (v >= 0 /\ w >= 0)
        <2>1. a \in Expressions /\ b \in Expressions /\ a.type = t /\ b.type = t
            BY DEF Expressions, OfType
        <2> QED BY <2>1, CastIs, ValueIs DEF Types
    <1> HIDE DEF v, w, M, half
    <1>3. Cast(a) <= Cast(b) <=> IF (v < 0) = (w < 0) THEN v <= w ELSE w < 0
        BY <1>1, <1>2
    <1> QED BY <1>3 DEF WordOrder, v, w

LEMMA SameTypeFollows == Decided => SameTypeExact
    <1> SUFFICES ASSUME Decided PROVE SameTypeExact
        OBVIOUS
    <1>1. ASSUME check \in {"assert_int_equal", "check_value"}, args[1].type = args[2].type
          PROVE  Passes <=> args[1].value = args[2].value
        <2>1. Two /\ (Passes <=> Cast(args[1]) = Cast(args[2]))
            BY <1>1 DEF Decided, values_equal
        <2> DEFINE v == args[1].value
                   w == args[2].value
                   M == Modulus
                   half == M \div 2
        <2>2. M \in Nat \ {0} /\ half \in Nat \ {0} /\ M = 2 * half
            BY Widths
        <2>3. /\ Cast(args[1]) = IF v < 0 THEN v + M ELSE v
              /\ Cast(args[2]) = IF w < 0 THEN w + M ELSE w
              /\ v \in (-half)..(M - 1) /\ w \in (-half)..(M - 1)
            BY <2>1, CastIs, ValueIs DEF Two
        <2>4. (v < half /\ w < half) \/ (v >= 0 /\ w >= 0)
            BY <1>1, <2>1, ValueIs DEF Two, Types
        <2> HIDE DEF v, w, M, half
        <2>5. v = w <=> Cast(args[1]) = Cast(args[2])
            BY <2>2, <2>3, <2>4
        <2> QED BY <2>1, <2>5 DEF v, w
    <1>2. ASSUME check = "in_range"
          PROVE  Passes <=> /\ WordOrder(args[2].value, args[1].value)
                            /\ WordOrder(args[1].value, args[3].value)
        <2>1. OneType /\ (Passes <=> Cast(args[1]) >= Cast(args[2])
                                     /\ Cast(args[1]) <= Cast(args[3]))
            BY <1>2 DEF Decided, InRange
        <2>2. PICK t \in Types : \A k \in 1..3 : args[k] \in OfType(t)
            BY <2>1 DEF OneType
        <2>4. \A k \in 1..3 : args[k] \in Expressions
            BY <2>2 DEF Expressions
        <2>3. /\ Cast(args[1]) \in Int /\ Cast(args[2]) \in Int /\ Cast(args[3]) \in Int
              /\ Cast(args[1]) >= Cast(args[2]) <=> Cast(args[2]) <= Cast(args[1])
            BY <2>4, CastIs, Widths
        <2> QED BY <2>1, <2>2, <2>3, OrderIs
    <1>3. ASSUME check = "memory_equal", args[1] < IntModulus
          PROVE  Passes <=> args[1] = args[2]
        <2>1. Area /\ (Passes <=> ToInt(args[1] - args[2]) = 0)
            BY <1>3 DEF Decided, MemoryEqual
        <2> DEFINE d == args[1] - args[2]
        <2>2. args[1] \in Nat /\ args[2] \in 0..args[1] /\ d \in 0..(IntModulus - 1)
            BY <1>3, <2>1, Widths DEF Area, Sizes
        <2>3. d = 0 <=> ToInt(d) = 0
            <3> HIDE DEF d
            <3>1. ASSUME NEW k \in Int, d = k * IntModulus PROVE d = 0
                <4>1. k * IntModulus > -IntModulus /\ k * IntModulus < IntModulus
                    BY <2>2, <3>1, Widths
                <4>2. k = 0
                    BY <4>1, NoSmallMultiple, Widths
                <4> QED BY <3>1, <4>2, Widths
            <3>2. d = 0 => d = 0 * IntModulus
                BY Widths
            <3>3. d \in Int
                BY <2>2, Widths
            <3>4. ToInt(d) = 0 <=> \E k \in Int : d = k * IntModulus
                BY <3>3, ToIntZero
            <3> QED BY <3>1, <3>2, <3>4
        <2> QED BY <2>1, <2>2, <2>3
    <1> QED BY <1>1, <1>2, <1>3 DEF SameTypeExact

LEMMA NegationFollows == Decided => NegationExact
    <1> SUFFICES ASSUME Decided PROVE NegationExact
        OBVIOUS
    <1>1. ASSUME check = "assert_int_not_equal"
          PROVE  Passes <=> ~ \E k \in -1..1 : args[1].value = args[2].value + k * Modulus
        <2> DEFINE v == args[1].value
                   w == args[2].value
                   M == Modulus
                   half == M \div 2
        <2>1. Two /\ (Passes <=> Cast(args[1]) # Cast(args[2]))
            BY <1>1 DEF Decided, Differ
        <2>2. M \in Nat \ {0} /\ half \in Nat \ {0} /\ M = 2 * half
            BY Widths
        <2>3. /\ Cast(args[1]) = IF v < 0 THEN v + M ELSE v
              /\ Cast(args[2]) = IF w < 0 THEN w + M ELSE w
              /\ v \in (-half)..(M - 1) /\ w \in (-half)..(M - 1)
            BY <2>1, CastIs, ValueIs DEF Two
        <2> HIDE DEF v, w, M, half
        <2>4. Cast(args[1]) = Cast(args[2]) <=> v = w \/ v = w + M \/ v = w - M
            BY <2>2, <2>3
        <2>5. (\E k \in -1..1 : v = w + k * M) <=> v = w \/ v = w + M \/ v = w - M
            <3>1. \A k : k \in -1..1 <=> k = -1 \/ k = 0 \/ k = 1
                OBVIOUS
            <3>2. w + (-1) * M = w - M /\ w + 0 * M = w /\ w + 1 * M = w + M
                BY <2>2, <2>3
            <3> QED BY <3>1, <3>2
        <2>6. Passes <=> ~ \E k \in -1..1 : v = w + k * M
            BY <2>1, <2>4, <2>5
        <2> QED BY <2>6 DEF v, w, M
    <1>2. ASSUME check = "not_in_range"
          PROVE  Passes <=> ~ InRange(args[1], args[2], args[3])
        <2>1. OneType /\ (Passes <=> NotInRange(args[1], args[2], args[3]))
            BY <1>2 DEF Decided
        <2>2. args[1] \in Expressions /\ args[2] \in Expressions /\ args[3] \in Expressions
            BY <2>1 DEF OneType, Expressions
        <2>3. Cast(args[1]) \in Int /\ Cast(args[2]) \in Int /\ Cast(args[3]) \in Int
            BY <2>2, CastIs, Widths
        <2> QED BY <2>1, <2>3 DEF InRange, NotInRange
    <1>3. ASSUME check = "not_in_set"
          PROVE  Passes <=> ~ ValueInSet(args[1], args[2], FALSE)
        BY <1>3 DEF Decided, ValueInSet
    <1>4. ASSUME check = "memory_not_equal", args[1] < IntModulus \div 2
          PROVE  Passes <=> args[1] # args[2]
        <2>1. Area /\ (Passes <=> (ToInt(args[2]) % Modulus) # args[1])
            BY <1>4 DEF Decided, MemoryNotEqual
        <2>2. args[1] \in Nat /\ args[2] \in 0..args[1]
            BY <2>1, Widths DEF Area, Sizes
        <2>3. args[2] \in (-(IntModulus \div 2))..((IntModulus \div 2) - 1)
            BY <1>4, <2>2, Widths
        <2>4. args[2] \in (-Modulus)..(Modulus - 1) /\ args[2] >= 0
            BY <2>2, <2>3, Widths
        <2>5. ToInt(args[2]) = args[2] /\ args[2] % Modulus = args[2]
            <3>1. \A n \in (-Modulus)..(Modulus - 1) :
                     n % Modulus = IF n < 0 THEN n + Modulus ELSE n
                BY Within, Widths
            <3>2. args[2] % Modulus = args[2]
                BY <2>4, <3>1
            <3> QED BY <2>3, <3>2, ToIntKeeps
        <2> QED BY <2>1, <2>5
    <1> QED BY <1>1, <1>2, <1>3, <1>4 DEF NegationExact

LEMMA TruthFollows == Decided => TruthExact
    <1> SUFFICES ASSUME Decided PROVE TruthExact
        OBVIOUS
    <1>1. ASSUME check \in {"assert_true", "assert_false"} PROVE Passes <=> args[1].value # 0
        <2>1. args[1] \in Expressions /\ (Passes <=> Cast(args[1]) # 0)
            BY <1>1 DEF Decided
        <2>2. /\ Cast(args[1]) = IF args[1].value < 0 THEN args[1].value + Modulus
                              ELSE args[1].value
              /\ args[1].value \in (-(Modulus \div 2))..(Modulus - 1)
            BY <2>1, CastIs, ValueIs
        <2>3. Cast(args[1]) # 0 <=> args[1].value # 0
            BY <2>2, Widths
        <2> QED BY <2>1, <2>3
    <1>2. ASSUME check = "assert_not_null" PROVE Passes <=> args[1].value # 0
        BY <1>2 DEF Decided
    <1>3. ASSUME check = "mock_assert"
          PROVE  Passes <=>
                    \A k \in (-Modulus)..Modulus : args[1].value # k * IntModulus
        <2> DEFINE v == args[1].value
        <2>1. args[1] \in Expressions /\ (Passes <=> ToInt(v) # 0)
            BY <1>3 DEF Decided
        <2>2. v \in (-Modulus)..(Modulus - 1) /\ v \in Int
            BY <2>1, CastIs, Widths
        <2> HIDE DEF v
        <2>3. ASSUME NEW k \in Int, v = k * IntModulus PROVE k \in (-Modulus)..Modulus
            <3> DEFINE p == k * IntModulus
            <3>1. p \in Int /\ p = k + k * (IntModulus - 1)
                BY Widths
            <3>2. k >= 0 => k * (IntModulus - 1) >= 0
                BY Widths
            <3>3. k <= 0 => k * (IntModulus - 1) <= 0
                BY Widths
            <3>4. k * (IntModulus - 1) \in Int
                BY Widths
            <3>5. v = p
                BY <2>3
            <3> HIDE DEF p
            <3> QED BY <2>2, <3>1, <3>2, <3>3, <3>4, <3>5, Widths
        <2>4. ToInt(v) = 0 <=> \E k \in Int : v = k * IntModulus
            BY <2>2, ToIntZero
        <2>5. (-Modulus)..Modulus \subseteq Int
            BY Widths
        <2>6. Passes <=> \A k \in (-Modulus)..Modulus : v # k * IntModulus
            BY <2>1, <2>3, <2>4, <2>5
        <2> QED BY <2>6 DEF v
    <1> QED BY <1>1, <1>2, <1>3 DEF TruthExact

-----------------------------------------------------------------------------
(* The theorems                                                            *)

(* Of values of one C type the checks of equality, of a range and of       *)
(* memory decide what their names say, for an int and a                    *)
(* LargestIntegralType of any even number of values, one of them a         *)
(* multiple of the other.                                                  *)
THEOREM SameTypesAreExact == Spec => []SameTypeExact
    BY ChecksInvariance, SameTypeFollows, PTL

(* No check agrees with its opposite, for arguments of any types.          *)
THEOREM NegationsAreExact == Spec => []NegationExact
    BY ChecksInvariance, NegationFollows, PTL

(* assert_true and assert_not_null throw for 0 alone, mock_assert for what *)
(* leaves an int none of its bits.                                         *)
THEOREM TruthsAreExact == Spec => []TruthExact
    BY ChecksInvariance, TruthFollows, PTL
=============================================================================
