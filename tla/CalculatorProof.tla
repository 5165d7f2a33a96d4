-------------------------- MODULE CalculatorProof --------------------------
(***************************************************************************)
(* Proofs about Calculator.  First the arithmetic: that ToInt is the one   *)
(* int that leaves what a long leaves, that Quotient has the remainder a   *)
(* division has, and that it fits but for the least int by -1.  Then CInv, *)
(* which says where perform_operation and main are by how many operations  *)
(* are done (Did): the loop is at 2n + 1, the first n values are stored,   *)
(* and what was passed over was an integer, or an operator, in its place.  *)
(* So what is left over when the loop ends, or what it stopped at, decides *)
(* whether the line was well formed.                                       *)
(***************************************************************************)
EXTENDS Calculator, SequenceTheorems, TLAPS

-----------------------------------------------------------------------------
(* Arithmetic in a word                                                    *)

LEMMA NoSmallMultiple ==
    ASSUME NEW m \in Nat \ {0}, NEW k \in Int, k * m > -m, k * m < m
    PROVE  k = 0
    <1>1. CASE k >= 1
        <2>1. k * m >= m
            <3>1. k * m = m + (k - 1) * m
                OBVIOUS
            <3>2. (k - 1) * m >= 0
                BY <1>1
            <3>3. (k - 1) * m \in Int /\ k * m \in Int
                OBVIOUS
            <3> QED BY <3>1, <3>2, <3>3
        <2> QED BY <2>1
    <1>2. CASE k <= -1
        <2>1. k * m <= -m
            <3>1. k * m = (k + 1) * m - m
                OBVIOUS
            <3>2. (k + 1) * m <= 0
                BY <1>2
            <3>3. (k + 1) * m \in Int /\ k * m \in Int
                OBVIOUS
            <3> QED BY <3>1, <3>2, <3>3
        <2> QED BY <2>1
    <1> QED BY <1>1, <1>2

(* What / and % are to each other.                                         *)
LEMMA Divided ==
    ASSUME NEW m \in Nat \ {0}, NEW x \in Int
    PROVE  /\ x \div m \in Int /\ x % m \in 0..(m - 1)
           /\ x = (x \div m) * m + (x % m)
    OBVIOUS

(* A remainder is known by where it lies and by what it leaves.            *)
LEMMA Remainder ==
    ASSUME NEW m \in Nat \ {0}, NEW x \in Int, NEW q \in Int, NEW r \in 0..(m - 1),
           x = q * m + r
    PROVE  x % m = r
    <1>1. /\ x \div m \in Int /\ x % m \in 0..(m - 1)
          /\ x = (x \div m) * m + (x % m)
        BY Divided
    <1> DEFINE d == x \div m
               s == x % m
    <1>2. d \in Int /\ s \in Int /\ r \in Int
        BY <1>1
    <1>3. (q - d) * m = s - r
        <2>1. (q - d) * m = q * m - d * m
            BY <1>2
        <2> QED BY <1>1, <1>2, <2>1
    <1>4. s - r > -m /\ s - r < m
        BY <1>1, <1>2
    <1>5. q - d = 0
        BY <1>2, <1>3, <1>4, NoSmallMultiple
    <1>6. s - r = 0
        BY <1>2, <1>3, <1>5
    <1> QED BY <1>2, <1>6

(* Half of the words are below 0.                                          *)
LEMMA Word ==
    /\ IntModulus \in Nat \ {0} /\ MinInt \in Int /\ MaxInt \in Int
    /\ MinInt < 0 /\ MinInt = - MaxInt - 1 /\ IntModulus = MaxInt - MinInt + 1
    <1>1. IntModulus \in Nat \ {0} /\ IntModulus % 2 = 0
        BY CalculatorAssumption
    <1> DEFINE h == IntModulus \div 2
    <1>2. h \in Nat /\ IntModulus = 2 * h /\ h > 0
        BY <1>1
    <1>3. MinInt = -h /\ MaxInt = h - 1
        BY <1>2 DEF MinInt, MaxInt
    <1> HIDE DEF h
    <1> QED BY <1>1, <1>2, <1>3

(* Two ints that leave the same are the same.                              *)
LEMMA SameInt ==
    ASSUME NEW v \in MinInt..MaxInt, NEW w \in MinInt..MaxInt, NEW n \in Int,
           (v - n) % IntModulus = 0, (w - n) % IntModulus = 0
    PROVE  v = w
    <1> DEFINE m == IntModulus
               p == (v - n) \div m
               q == (w - n) \div m
    <1>1. /\ m \in Nat \ {0} /\ v \in Int /\ w \in Int /\ v - w < m /\ v - w > -m
        BY Word
    <1>2. /\ p \in Int /\ q \in Int
          /\ v - n = p * m /\ w - n = q * m
        <2> DEFINE x == v - n
                   y == w - n
        <2>1. x \in Int /\ y \in Int /\ x % m = 0 /\ y % m = 0
            BY <1>1
        <2> HIDE DEF x, y
        <2>2. /\ x \div m \in Int /\ x = (x \div m) * m + 0
              /\ y \div m \in Int /\ y = (y \div m) * m + 0
            BY <1>1, <2>1, Divided
        <2>3. x = (x \div m) * m /\ y = (y \div m) * m
            BY <1>1, <2>2
        <2> QED BY <2>2, <2>3 DEF x, y
    <1> HIDE DEF p, q, m
    <1>3. (p - q) * m = p * m - q * m
        BY <1>1, <1>2
    <1>4. (p - q) * m = v - w
        <2>1. p * m \in Int /\ q * m \in Int
            BY <1>1, <1>2
        <2> QED BY <1>1, <1>2, <1>3, <2>1
    <1>5. p - q = 0
        BY <1>1, <1>2, <1>4, NoSmallMultiple
    <1> QED BY <1>1, <1>2, <1>4, <1>5

(* ToInt gives an int, that many words away.                               *)
LEMMA ToIntLeaves ==
    ASSUME NEW n \in Int
    PROVE  ToInt(n) \in MinInt..MaxInt /\ (ToInt(n) - n) % IntModulus = 0
    <1> DEFINE m == IntModulus
               x == n - MinInt
               q == x \div m
               r == x % m
    <1>1. m \in Nat \ {0} /\ MinInt \in Int /\ MaxInt \in Int /\ m = MaxInt - MinInt + 1
        BY Word
    <1>2. x \in Int /\ q \in Int /\ r \in 0..(m - 1) /\ x = q * m + r
        <2>1. x \in Int
            BY <1>1
        <2> HIDE DEF x
        <2> QED BY <1>1, <2>1, Divided
    <1>3. ToInt(n) = r + MinInt
        BY DEF ToInt
    <1>4. n = x + MinInt
        BY <1>1
    <1> HIDE DEF m, x, q, r
    <1>5. ToInt(n) \in MinInt..MaxInt
        BY <1>1, <1>2, <1>3
    <1>6. ToInt(n) - n = (-q) * m + 0
        <2>1. (-q) * m = -(q * m) /\ q * m \in Int
            BY <1>1, <1>2
        <2> QED BY <1>1, <1>2, <1>3, <1>4, <2>1
    <1>7. (ToInt(n) - n) % m = 0
        <2>1. ToInt(n) - n \in Int /\ -q \in Int /\ 0 \in 0..(m - 1)
            BY <1>1, <1>2, <1>5
        <2> QED BY <1>1, <1>6, <2>1, Remainder
    <1> QED BY <1>5, <1>7 DEF m

(* ToInt is the one int that leaves what n leaves.                         *)
LEMMA Narrowing ==
    ASSUME NEW n \in Int
    PROVE  (CHOOSE v \in MinInt..MaxInt : (v - n) % IntModulus = 0) = ToInt(n)
    <1> DEFINE Leaves(v) == (v - n) % IntModulus = 0
               c == CHOOSE v \in MinInt..MaxInt : Leaves(v)
    <1>1. ToInt(n) \in MinInt..MaxInt /\ Leaves(ToInt(n))
        BY ToIntLeaves
    <1>2. c \in MinInt..MaxInt /\ Leaves(c)
        BY <1>1
    <1> HIDE DEF c
    <1>3. c = ToInt(n)
        BY <1>1, <1>2, SameInt
    <1> QED BY <1>3 DEF c

(* The quotient of magnitudes, with the sign.                              *)
LEMMA QuotientLeaves ==
    ASSUME NEW a \in Int, NEW b \in Int \ {0}
    PROVE  LET v == Quotient(a, b)
               r == a - v * b
           IN  v \in Int /\ r * r < b * b /\ r * a >= 0
    <1> DEFINE A == Abs(a)
               B == Abs(b)
               q == A \div B
               s == A % B
               v == Quotient(a, b)
               r == a - v * b
    <1>1. /\ A \in Nat /\ B \in Nat \ {0}
          /\ a >= 0 => A = a
          /\ a < 0 => A = -a
          /\ b > 0 => B = b
          /\ b < 0 => B = -b
        BY DEF Abs
    <1> HIDE DEF A, B
    <1>2. q \in Int /\ s \in 0..(B - 1) /\ A = q * B + s
        BY <1>1, Divided
    <1>3. v = IF (a < 0) = (b < 0) THEN q ELSE -q
        BY DEF Quotient, A, B
    <1> HIDE DEF q, s, v
    <1>4. v \in Int
        BY <1>2, <1>3
    <1>5. a >= 0 => r = s
        <2>1. CASE a >= 0 /\ b > 0
            BY <1>1, <1>2, <1>3, <2>1
        <2>2. CASE a >= 0 /\ b < 0
            <3>1. v = -q /\ b = -B
                BY <1>1, <1>3, <2>2
            <3>2. v * b = q * B
                BY <1>1, <1>2, <3>1
            <3> QED BY <1>1, <1>2, <2>2, <3>2
        <2> QED BY <2>1, <2>2
    <1>6. a < 0 => r = -s
        <2>1. CASE a < 0 /\ b > 0
            <3>1. v = -q /\ b = B
                BY <1>1, <1>3, <2>1
            <3>2. v * b = -(q * B)
                BY <1>1, <1>2, <3>1
            <3> QED BY <1>1, <1>2, <2>1, <3>2
        <2>2. CASE a < 0 /\ b < 0
            <3>1. v = q /\ b = -B
                BY <1>1, <1>3, <2>2
            <3>2. v * b = -(q * B)
                BY <1>1, <1>2, <3>1
            <3> QED BY <1>1, <1>2, <2>2, <3>2
        <2> QED BY <2>1, <2>2
    <1>7. r * r = s * s /\ b * b = B * B
        <2>1. r \in Int /\ s \in Int /\ (r = s \/ r = -s)
            BY <1>2, <1>4, <1>5, <1>6
        <2>2. B = b \/ B = -b
            BY <1>1
        <2> HIDE DEF r
        <2> QED BY <1>1, <2>1, <2>2
    <1>8. s * s < B * B
        <2>1. s * s <= s * B
            BY <1>1, <1>2
        <2>2. s * B < B * B
            BY <1>1, <1>2
        <2>3. s * s \in Int /\ s * B \in Int /\ B * B \in Int
            BY <1>1, <1>2
        <2> QED BY <2>1, <2>2, <2>3
    <1>9. r * a >= 0
        <2>1. CASE a >= 0
            BY <1>2, <1>5, <2>1
        <2>2. CASE a < 0
            <3>1. (-s) * a = s * (-a) /\ s * (-a) >= 0
                BY <1>2, <2>2
            <3> QED BY <1>6, <2>2, <3>1
        <2> QED BY <2>1, <2>2
    <1> HIDE DEF r
    <1>10. v \in Int /\ r * r < b * b /\ r * a >= 0
        BY <1>4, <1>7, <1>8, <1>9
    <1> QED BY <1>10 DEF v, r

(* A quotient of ints is one but for the least by -1.                      *)
LEMMA QuotientFits ==
    ASSUME NEW a \in MinInt..MaxInt, NEW b \in MinInt..MaxInt, b # 0,
           ~ (b = -1 /\ a = MinInt)
    PROVE  Quotient(a, b) \in MinInt..MaxInt
    <1> DEFINE A == Abs(a)
               B == Abs(b)
               q == A \div B
               s == A % B
    <1>1. /\ MinInt \in Int /\ MaxInt \in Int /\ MinInt = - MaxInt - 1 /\ MinInt < 0
          /\ a \in Int /\ b \in Int
        BY Word
    <1>2. /\ A \in Nat /\ B \in Nat \ {0} /\ A <= -MinInt
          /\ a >= 0 => A = a /\ A <= MaxInt
          /\ a < 0 => A = -a
          /\ b > 0 => B = b
          /\ b < 0 => B = -b
        BY <1>1 DEF Abs
    <1> HIDE DEF A, B
    <1>3. q \in Int /\ A = q * B + s /\ s \in 0..(B - 1)
        BY <1>2, Divided
    <1>4. Quotient(a, b) = IF (a < 0) = (b < 0) THEN q ELSE -q
        BY DEF Quotient, A, B
    <1> HIDE DEF q, s
    <1>5. q >= 0
        <2> SUFFICES ASSUME q <= -1 PROVE FALSE
            BY <1>3
        <2>1. q * B <= (-1) * B
            BY <1>2, <1>3
        <2>2. q * B \in Int
            BY <1>2, <1>3
        <2> QED BY <1>2, <1>3, <2>1, <2>2
    <1>6. q * B >= q /\ (B >= 2 => q * B >= 2 * q) /\ q * B \in Int
        <2>1. q * B = q + q * (B - 1)
            BY <1>2, <1>3
        <2>2. q * (B - 1) >= 0
            BY <1>2, <1>5, <1>3
        <2>3. B >= 2 => q * (B - 1) = q + q * (B - 2) /\ q * (B - 2) >= 0 /\ q * (B - 2) \in Int
            BY <1>2, <1>5, <1>3
        <2>4. q * (B - 1) \in Int
            BY <1>2, <1>3
        <2> QED BY <1>3, <2>1, <2>2, <2>3, <2>4
    <1>7. q <= A
        BY <1>2, <1>3, <1>6
    <1>8. CASE q <= MaxInt
        BY <1>1, <1>3, <1>4, <1>5, <1>8
    <1>9. CASE q > MaxInt
        <2>1. A = -MinInt /\ q = -MinInt /\ a = MinInt
            BY <1>1, <1>2, <1>3, <1>7, <1>9
        <2>2. B = 1
            BY <1>1, <1>2, <1>3, <1>6, <2>1
        <2>3. b = 1
            BY <1>1, <1>2, <2>1, <2>2
        <2> QED BY <1>1, <1>4, <2>1, <2>3
    <1> QED BY <1>1, <1>3, <1>8, <1>9

-----------------------------------------------------------------------------
(* The invariant                                                           *)

(* What belongs at each place of a line: integers, operators between them. *)
Fits(k) == IF k % 2 = 0 THEN Parses(Arg(k)) ELSE Known(Arg(k))

(* n operations are done, and their values stored.                         *)
Did(n) ==
    /\ i = 2 * n + 1
    /\ i <= number_of_arguments
    /\ DOMAIN stored = 0..(n - 1)
    /\ \A k \in 0..(i - 1) : Fits(k)

Before(k) == IF k = 0 THEN ToInt(Arg(0).long) ELSE stored[k - 1]

StoredExact ==
    \A k \in DOMAIN stored :
        Correct(FunctionOf(Arg(2 * k + 1)), Before(k), ToInt(Arg(2 * k + 2).long), stored[k])

ShownAreStored ==
    Len(shown) <= number /\ \A k \in 1..Len(shown) : shown[k] = stored[k - 1]

(* Where perform_operation is, by what is true there.                      *)
AtParse == i = 0 /\ number = 0 /\ value = 0 /\ block = "null" /\ error = FALSE /\ shown = <<>>
AtLoop ==
    /\ number \in Nat /\ Did(number)
    /\ value = Before(number)
    /\ error = FALSE /\ shown = <<>>
    /\ block \in {"null", "held"}
AtCleanUp == error = TRUE /\ ~ WellFormed /\ shown = <<>> /\ block \in {"null", "held"}

(* And main.                                                               *)
AfterError == ~ WellFormed /\ number = 0 /\ value = 0 /\ block = "null" /\ shown = <<>>
AfterSuccess ==
    /\ WellFormed
    /\ \/ number_of_arguments = 0 /\ number = 0 /\ shown = <<>>
       \/ number \in Nat /\ Did(number) /\ i = number_of_arguments /\ ShownAreStored

CInv ==
    /\ arguments \in Lines /\ unit_testing \in BOOLEAN
    /\ error \in BOOLEAN
    /\ shown \in Seq(Int)
    /\ block \in {"null", "held", "freed"}
    /\ \/ i = 0 /\ stored = <<>>
       \/ \E n \in 0..i : Did(n)
    /\ StoredExact
    /\ place = "parse" => AtParse
    /\ place = "loop" => AtLoop
    /\ place = "clean up" => AtCleanUp
    /\ place \in {"display", "returned"} => IF error THEN AfterError ELSE AfterSuccess
    /\ place = "display" => block # "freed"
    /\ place = "returned" => block # "held" /\ (~ error => DisplayedAt >= number_of_arguments)

(* The arguments of a line are arguments.                                  *)
LEMMA LineTyped ==
    ASSUME arguments \in Lines
    PROVE  /\ number_of_arguments \in Nat
           /\ \A k \in 0..(number_of_arguments - 1) :
                 Arg(k).long \in Int /\ Arg(k).integer \in BOOLEAN
    <1>1. arguments \in Seq(Argument)
        BY CalculatorAssumption
    <1>2. number_of_arguments \in Nat
        BY <1>1, LenProperties DEF number_of_arguments
    <1>3. \A k \in 0..(number_of_arguments - 1) : Arg(k) \in Argument
        <2>1. \A k \in 0..(number_of_arguments - 1) : k + 1 \in 1..Len(arguments)
            BY <1>2 DEF number_of_arguments
        <2> QED BY <1>1, <2>1, ElementOfSeq DEF Arg
    <1> QED BY <1>2, <1>3 DEF Argument

(* The functions do on ints what Correct says, where they are defined.     *)
LEMMA ApplyCorrect ==
    ASSUME NEW function \in {"add", "subtract", "multiply", "divide"},
           NEW a \in MinInt..MaxInt, NEW b \in MinInt..MaxInt,
           function = "divide" => b # 0 /\ ~ (b = -1 /\ a = MinInt)
    PROVE  /\ Apply(function, a, b) \in MinInt..MaxInt
           /\ Correct(function, a, b, Apply(function, a, b))
    <1>1. a \in Int /\ b \in Int
        BY Word
    <1>2. CASE function = "add"
        <2>1. Apply(function, a, b) = ToInt(a + b)
            BY <1>2 DEF Apply
        <2> QED BY <1>1, <1>2, <2>1, ToIntLeaves DEF Correct
    <1>3. CASE function = "subtract"
        <2>1. Apply(function, a, b) = ToInt(a - b)
            BY <1>3 DEF Apply
        <2> DEFINE v == ToInt(a - b)
        <2>2. v \in MinInt..MaxInt /\ (v - (a - b)) % IntModulus = 0
            BY <1>1, ToIntLeaves
        <2>3. v \in Int
            BY <2>2, Word
        <2> HIDE DEF v
        <2>4. v + b - a = v - (a - b)
            BY <1>1, <2>3
        <2> QED BY <1>3, <2>1, <2>2, <2>4 DEF Correct, v
    <1>4. CASE function = "multiply"
        <2>1. Apply(function, a, b) = ToInt(a * b)
            BY <1>4 DEF Apply
        <2>2. a * b \in Int
            BY <1>1
        <2> QED BY <1>4, <2>1, <2>2, ToIntLeaves DEF Correct
    <1>5. CASE function = "divide"
        <2>1. Apply(function, a, b) = Quotient(a, b)
            BY <1>5 DEF Apply
        <2>2. b \in Int \ {0}
            BY <1>1, <1>5
        <2> QED BY <1>1, <1>5, <2>1, <2>2, QuotientLeaves, QuotientFits DEF Correct
    <1> QED BY <1>2, <1>3, <1>4, <1>5

(* The table leads to the four functions.                                  *)
LEMMA FunctionKnown ==
    ASSUME NEW argument, Known(argument)
    PROVE  FunctionOf(argument) \in {"add", "subtract", "multiply", "divide"}
    BY CalculatorAssumption DEF Known, FunctionOf

(* A value stored is an int, and so is what the next operation takes.      *)
LEMMA BeforeInt ==
    ASSUME CInv, NEW n \in Nat, Did(n), NEW k \in 0..n
    PROVE  Before(k) \in MinInt..MaxInt
    <1>1. \A j \in DOMAIN stored : stored[j] \in MinInt..MaxInt
        BY DEF CInv, StoredExact, Correct
    <1>2. arguments \in Lines
        BY DEF CInv
    <1>3. number_of_arguments \in Nat
        BY <1>2, LineTyped
    <1>4. 0 \in 0..(number_of_arguments - 1)
        BY <1>3 DEF Did
    <1>5. Arg(0).long \in Int
        BY <1>2, <1>4, LineTyped
    <1>6. k # 0 => k - 1 \in DOMAIN stored
        BY DEF Did
    <1> QED BY <1>1, <1>5, <1>6, ToIntLeaves DEF Before

LEMMA CInit == Init => CInv
    <1> SUFFICES ASSUME Init PROVE CInv
        OBVIOUS
    <1>1. /\ arguments \in Lines /\ unit_testing \in BOOLEAN
          /\ i = 0 /\ number = 0 /\ value = 0 /\ stored = <<>> /\ block = "null"
          /\ error = FALSE /\ place = "parse" /\ shown = <<>>
        BY DEF Init
    <1>2. DOMAIN stored = {}
        BY <1>1
    <1>3. StoredExact
        BY <1>2 DEF StoredExact
    <1>4. shown \in Seq(Int)
        BY <1>1
    <1>5. AtParse
        BY <1>1 DEF AtParse
    <1> QED BY <1>1, <1>3, <1>4, <1>5 DEF CInv

(* Where a line does not fit, it is malformed.                             *)
LEMMA Malformed ==
    ASSUME arguments \in Lines, NEW k \in 0..(number_of_arguments - 1), ~ Fits(k)
    PROVE  ~ WellFormed
    <1>1. number_of_arguments \in Nat
        BY LineTyped
    <1>2. number_of_arguments # 0
        BY <1>1
    <1> QED BY <1>2 DEF WellFormed, Fits, Parses

(* Where all fits, it is well formed.                                      *)
LEMMA AllFits ==
    ASSUME arguments \in Lines, number_of_arguments % 2 = 1,
           \A k \in 0..(number_of_arguments - 1) : Fits(k)
    PROVE  WellFormed
    BY DEF WellFormed, Fits, Parses

(* A step that leaves the line and what is stored alone.                   *)
LEMMA CStay ==
    ASSUME CInv, UNCHANGED <<input, i, stored>>
    PROVE  /\ arguments' \in Lines /\ unit_testing' \in BOOLEAN
           /\ \/ i' = 0 /\ stored' = <<>>
              \/ \E n \in 0..i' : Did(n)'
           /\ StoredExact'
           /\ WellFormed' <=> WellFormed
           /\ \A n : Did(n)' = Did(n)
           /\ \A n : Before(n)' = Before(n)
           /\ number_of_arguments' = number_of_arguments
    <1>1. arguments' = arguments /\ unit_testing' = unit_testing
        BY DEF input
    <1>2. number_of_arguments' = number_of_arguments /\ \A k : Arg(k)' = Arg(k)
        BY <1>1 DEF number_of_arguments, Arg
    <1>3. \A n : Did(n)' = Did(n)
        BY <1>2 DEF Did, Fits
    <1>4. \A n : Before(n)' = Before(n)
        BY <1>2 DEF Before
    <1>5. WellFormed' <=> WellFormed
        BY <1>2 DEF WellFormed
    <1>6. StoredExact'
        BY <1>2, <1>4 DEF CInv, StoredExact
    <1> QED BY <1>1, <1>2, <1>3, <1>4, <1>5, <1>6 DEF CInv

-----------------------------------------------------------------------------
(* The steps, one by one: first those that leave the line and what is      *)
(* stored alone.                                                           *)
LEMMA NoArgumentsStep == ASSUME CInv, NoArguments PROVE CInv'
    <1> USE DEF NoArguments
    <1>1. UNCHANGED <<input, i, stored>>
        OBVIOUS
    <1>2. AtParse /\ number_of_arguments = 0
        BY DEF CInv
    <1>3. AfterSuccess'
        BY <1>2, CStay, <1>1 DEF AtParse, AfterSuccess, WellFormed
    <1> QED BY <1>1, <1>2, <1>3, CStay DEF CInv, AtParse

LEMMA FirstStep == ASSUME CInv, FirstIsNoInteger PROVE CInv'
    <1> USE DEF FirstIsNoInteger
    <1>1. UNCHANGED <<input, i, stored>>
        OBVIOUS
    <1>2. AtParse /\ arguments \in Lines
        BY DEF CInv
    <1>3. number_of_arguments \in Nat
        BY <1>2, LineTyped
    <1>4. 0 \in 0..(number_of_arguments - 1) /\ ~ Fits(0)
        BY <1>3 DEF Fits
    <1>5. ~ WellFormed
        BY <1>2, <1>4, Malformed
    <1>6. value = 0
        BY <1>2 DEF AtParse
    <1>7. AfterError'
        BY <1>1, <1>2, <1>5, <1>6, CStay DEF AtParse, AfterError
    <1> QED BY <1>1, <1>2, <1>7, CStay DEF CInv, AtParse

(* An error in the loop, found at an argument that makes the line malformed. *)
LEMMA OperationFailsStep ==
    ASSUME CInv, InLoop, OperationFails, ~ WellFormed PROVE CInv'
    <1> USE DEF OperationFails, InLoop
    <1>1. UNCHANGED <<input, i, stored>>
        OBVIOUS
    <1>2. AtLoop
        BY DEF CInv
    <1>3. AtCleanUp'
        <2>1. ~ WellFormed'
            BY <1>1, CStay
        <2>2. shown' = shown /\ block' = block /\ error' = TRUE
            OBVIOUS
        <2> QED BY <1>2, <2>1, <2>2 DEF AtLoop, AtCleanUp
    <1> QED BY <1>1, <1>3, CStay DEF CInv, AtCleanUp

(* In the loop, i is at an operator.                                       *)
LEMMA LoopAt ==
    ASSUME CInv, InLoop
    PROVE  /\ arguments \in Lines /\ number_of_arguments \in Nat
           /\ AtLoop /\ number \in Nat /\ Did(number)
           /\ i = 2 * number + 1 /\ i < number_of_arguments
           /\ i % 2 = 1 /\ (i + 1) % 2 = 0
    <1>1. arguments \in Lines /\ AtLoop
        BY DEF CInv, InLoop
    <1>2. number_of_arguments \in Nat
        BY <1>1, LineTyped
    <1> QED BY <1>1, <1>2 DEF AtLoop, Did, InLoop

LEMMA UnknownStep == ASSUME CInv, UnknownOperator PROVE CInv'
    <1>1. InLoop /\ ~ Known(Arg(i)) /\ OperationFails
        BY DEF UnknownOperator
    <1>2. i \in 0..(number_of_arguments - 1) /\ ~ Fits(i)
        BY <1>1, LoopAt DEF Fits
    <1>3. ~ WellFormed
        BY <1>1, <1>2, LoopAt, Malformed
    <1> QED BY <1>1, <1>3, OperationFailsStep

LEMMA MissingStep == ASSUME CInv, MissingArgument PROVE CInv'
    <1>1. InLoop /\ i + 1 = number_of_arguments /\ OperationFails
        BY DEF MissingArgument
    <1>2. number_of_arguments = 2 * (number + 1) /\ number \in Nat
        BY <1>1, LoopAt
    <1>3. ~ WellFormed
        BY <1>2 DEF WellFormed
    <1> QED BY <1>1, <1>3, OperationFailsStep

LEMMA OperandStep == ASSUME CInv, OperandIsNoInteger PROVE CInv'
    <1>1. /\ InLoop /\ i + 1 < number_of_arguments /\ ~ Parses(Arg(i + 1))
          /\ OperationFails
        BY DEF OperandIsNoInteger
    <1>2. i + 1 \in 0..(number_of_arguments - 1) /\ ~ Fits(i + 1)
        BY <1>1, LoopAt DEF Fits
    <1>3. ~ WellFormed
        BY <1>1, <1>2, LoopAt, Malformed
    <1> QED BY <1>1, <1>3, OperationFailsStep

LEMMA CleanUpStep == ASSUME CInv, CleanUp PROVE CInv'
    <1> USE DEF CleanUp
    <1>1. UNCHANGED <<input, i, stored>>
        OBVIOUS
    <1>2. AtCleanUp
        BY DEF CInv
    <1>3. block' = "null"
        BY <1>2 DEF Reset, Freed, AtCleanUp
    <1>4. AfterError'
        <2>1. ~ WellFormed'
            BY <1>1, <1>2, CStay DEF AtCleanUp
        <2>2. shown' = shown /\ number' = 0 /\ value' = 0
            OBVIOUS
        <2> QED BY <1>2, <1>3, <2>1, <2>2 DEF AtCleanUp, AfterError
    <1> QED BY <1>1, <1>2, <1>3, <1>4, CStay DEF CInv, AtCleanUp

LEMMA DoneStep == ASSUME CInv, Done PROVE CInv'
    <1> USE DEF Done
    <1>1. UNCHANGED <<input, i, stored>>
        OBVIOUS
    <1>2. arguments \in Lines /\ AtLoop
        BY DEF CInv
    <1>3. number_of_arguments \in Nat
        BY <1>2, LineTyped
    <1>4. number \in Nat /\ Did(number) /\ i = number_of_arguments /\ i = 2 * number + 1
        BY <1>2, <1>3 DEF AtLoop, Did
    <1>5. WellFormed
        <2>1. \A k \in 0..(number_of_arguments - 1) : Fits(k)
            BY <1>4 DEF Did
        <2>2. number_of_arguments % 2 = 1
            BY <1>4
        <2> QED BY <1>2, <2>1, <2>2, AllFits
    <1>6. Len(shown') = 0 /\ shown' = <<>>
        BY <1>2 DEF AtLoop
    <1>7. ShownAreStored'
        BY <1>4, <1>6 DEF ShownAreStored
    <1>8. AfterSuccess'
        <2>1. number' \in Nat /\ Did(number)' /\ i' = number_of_arguments'
            <3>1. \A n : Did(n)' = Did(n)
                BY <1>1, CStay
            <3>2. number' = number
                OBVIOUS
            <3>3. number_of_arguments' = number_of_arguments
                BY <1>1, CStay
            <3> QED BY <1>4, <3>1, <3>2, <3>3 DEF Did, Fits
        <2> QED BY <1>1, <1>5, <1>7, <2>1, CStay DEF AfterSuccess
    <1> QED BY <1>1, <1>2, <1>8, CStay DEF CInv, AtLoop

LEMMA ReturnStep == ASSUME CInv, Return PROVE CInv'
    <1> USE DEF Return
    <1>1. UNCHANGED <<input, i, stored>>
        OBVIOUS
    <1>2. /\ arguments \in Lines /\ error \in BOOLEAN /\ shown \in Seq(Int)
          /\ block \in {"null", "held"}
          /\ IF error THEN AfterError ELSE AfterSuccess
        BY DEF CInv
    <1>3. block' \in {"null", "freed"} /\ (error => block' = "null")
        BY <1>2 DEF Freed, AfterError
    <1>4. ~ error => DisplayedAt' >= number_of_arguments'
        <2>1. number_of_arguments \in Nat /\ DisplayedAt \in Nat
            BY <1>2, LineTyped, LenProperties DEF DisplayedAt
        <2>2. ~ error => DisplayedAt >= number_of_arguments
            BY <2>1 DEF Displaying
        <2>3. DisplayedAt' = DisplayedAt
            BY DEF DisplayedAt
        <2> QED BY <1>1, <2>2, <2>3, CStay
    <1>5. error => AfterError'
        BY <1>1, <1>2, <1>3, CStay DEF AfterError
    <1>6. ~ error => AfterSuccess'
        <2>1. number' = number /\ i' = i /\ shown' = shown /\ stored' = stored
            OBVIOUS
        <2>2. ShownAreStored' = ShownAreStored
            BY <2>1 DEF ShownAreStored
        <2>3. Did(number)' = Did(number)
            <3>1. \A n : Did(n)' = Did(n)
                BY <1>1, CStay
            <3> QED BY <2>1, <3>1 DEF Did, Fits
        <2> QED BY <1>1, <1>2, <2>1, <2>2, <2>3, CStay DEF AfterSuccess
    <1> QED BY <1>1, <1>2, <1>3, <1>4, <1>5, <1>6, CStay DEF CInv

LEMMA DisplayStep == ASSUME CInv, Display PROVE CInv'
    <1> USE DEF Display, Displaying
    <1>1. UNCHANGED <<input, i, stored>>
        OBVIOUS
    <1>2. /\ arguments \in Lines /\ shown \in Seq(Int) /\ block # "freed"
          /\ AfterSuccess /\ error = FALSE
        BY DEF CInv
    <1>3. Len(shown) \in Nat /\ number_of_arguments \in Nat
        BY <1>2, LineTyped, LenProperties
    <1>4. /\ number \in Nat /\ Did(number) /\ i = number_of_arguments
          /\ ShownAreStored /\ WellFormed
        BY <1>2, <1>3 DEF AfterSuccess, DisplayedAt
    <1>5. Len(shown) < number /\ Len(shown) \in DOMAIN stored
        BY <1>3, <1>4 DEF InTable, Did
    <1>6. stored[Len(shown)] \in Int
        <2>1. stored[Len(shown)] \in MinInt..MaxInt
            BY <1>5 DEF CInv, StoredExact, Correct
        <2> QED BY <2>1, Word
    <1>7. /\ shown' \in Seq(Int) /\ Len(shown') = Len(shown) + 1
          /\ \A k \in 1..Len(shown) : shown'[k] = shown[k]
          /\ shown'[Len(shown) + 1] = stored[Len(shown)]
        BY <1>2, <1>6, AppendProperties
    <1>8. ShownAreStored'
        <2>1. number' = number /\ stored' = stored
            OBVIOUS
        <2>2. Len(shown') <= number'
            BY <1>3, <1>4, <1>5, <1>7, <2>1
        <2>3. ASSUME NEW k \in 1..Len(shown') PROVE shown'[k] = stored'[k - 1]
            <3>1. CASE k \in 1..Len(shown)
                BY <1>4, <1>7, <2>1, <3>1 DEF ShownAreStored
            <3>2. CASE k = Len(shown) + 1
                BY <1>3, <1>7, <2>1, <3>2
            <3> QED BY <1>3, <1>7, <3>1, <3>2
        <2> QED BY <2>2, <2>3 DEF ShownAreStored
    <1>9. AfterSuccess'
        <2>1. number' = number /\ i' = i
            OBVIOUS
        <2>2. Did(number)'
            <3>1. \A n : Did(n)' = Did(n)
                BY <1>1, CStay
            <3> QED BY <1>4, <2>1, <3>1 DEF Did, Fits
        <2> QED BY <1>1, <1>4, <1>8, <2>1, <2>2, CStay DEF AfterSuccess
    <1> QED BY <1>1, <1>2, <1>7, <1>9, CStay DEF CInv

-----------------------------------------------------------------------------
(* The steps of the parse and of the loop                                  *)

(* The line stays what it is when i and what is stored do not.             *)
LEMMA LineStays ==
    ASSUME UNCHANGED input
    PROVE  /\ arguments' = arguments /\ unit_testing' = unit_testing
           /\ number_of_arguments' = number_of_arguments
           /\ \A k : Arg(k)' = Arg(k)
           /\ \A k : Fits(k)' <=> Fits(k)
    <1>1. arguments' = arguments /\ unit_testing' = unit_testing
        BY DEF input
    <1>2. number_of_arguments' = number_of_arguments /\ \A k : Arg(k)' = Arg(k)
        BY <1>1 DEF number_of_arguments, Arg
    <1> QED BY <1>1, <1>2 DEF Fits

LEMMA ParseFirstStep == ASSUME CInv, ParseFirst PROVE CInv'
    <1>1. /\ place = "parse" /\ number_of_arguments > 0 /\ Parses(Arg(0))
          /\ value' = ToInt(Arg(0).long) /\ i' = 1
          /\ UNCHANGED <<input, number, stored, error, shown>>
          /\ place' \in {"loop", "threw"} /\ block' \in {"held", block}
        BY DEF ParseFirst
    <1>2. AtParse /\ arguments \in Lines /\ unit_testing \in BOOLEAN /\ shown \in Seq(Int)
        BY <1>1 DEF CInv
    <1>3. number_of_arguments \in Nat
        BY <1>2, LineTyped
    <1>4. stored = <<>> /\ DOMAIN stored = {}
        <2>1. \A n \in 0..i : ~ Did(n)
            BY <1>2 DEF Did, AtParse
        <2>2. stored = <<>>
            BY <2>1 DEF CInv
        <2> QED BY <2>2
    <1>5. StoredExact'
        BY <1>1, <1>4 DEF StoredExact
    <1>6. Did(0)'
        <2>1. \A k \in 0..0 : Fits(k)'
            BY <1>1, LineStays DEF Fits
        <2>2. DOMAIN stored' = 0..(0 - 1)
            BY <1>1, <1>4
        <2>3. i' = 2 * 0 + 1 /\ i' <= number_of_arguments'
            BY <1>1, <1>3, LineStays
        <2>4. \A k \in 0..(i' - 1) : Fits(k)'
            BY <1>1, <2>1
        <2> QED BY <2>2, <2>3, <2>4 DEF Did
    <1>7. AtLoop'
        <2>1. value' = Before(0)'
            BY <1>1, LineStays DEF Before
        <2>2. number' = 0 /\ error' = FALSE /\ shown' = <<>> /\ block' \in {"null", "held"}
            BY <1>1, <1>2 DEF AtParse
        <2>3. Did(number)' /\ value' = Before(number)'
            BY <1>6, <2>1, <2>2 DEF Did, Before
        <2> QED BY <2>2, <2>3 DEF AtLoop
    <1>8. \E n \in 0..i' : Did(n)'
        BY <1>1, <1>6
    <1> QED BY <1>1, <1>2, <1>5, <1>7, <1>8, LineStays DEF CInv, AtLoop

(* What the loop stores.                                                   *)
Stores ==
    /\ InLoop
    /\ Known(Arg(i))
    /\ i + 1 < number_of_arguments
    /\ Parses(Arg(i + 1))
    /\ ~ Asserts /\ ~ Traps /\ block # "null"
    /\ value' = Apply(FunctionOf(Arg(i)), value, Operand)
    /\ stored' = [k \in DOMAIN stored \cup {number} |->
                     IF k = number THEN value' ELSE stored[k]]
    /\ number' = number + 1
    /\ i' = i + 2
    /\ UNCHANGED <<input, block, error, place, shown>>

(* The assertion of divide, its trap, and a store through a null block.    *)
LEMMA StopsStep ==
    ASSUME CInv, InLoop, NEW where \in {"threw", "aborted", "fault"}, Stops(where)
    PROVE  CInv'
    <1> USE DEF Stops, InLoop
    <1>1. UNCHANGED <<input, i, stored>>
        OBVIOUS
    <1>2. AtLoop
        BY DEF CInv
    <1> QED BY <1>1, <1>2, CStay DEF CInv, AtLoop

(* An operation done.                                                      *)
LEMMA StoresStep == ASSUME CInv, Stores PROVE CInv'
    <1>0. PICK n \in Nat : n = number
        BY LoopAt DEF Stores
    <1>1. /\ InLoop /\ UNCHANGED input
          /\ number' = n + 1 /\ i' = i + 2
        BY <1>0 DEF Stores
    <1>2. /\ arguments \in Lines /\ number_of_arguments \in Nat
          /\ AtLoop /\ n \in Nat /\ Did(n) /\ i = 2 * n + 1 /\ i < number_of_arguments
          /\ i % 2 = 1 /\ (i + 1) % 2 = 0
        BY <1>0, <1>1, LoopAt
    <1>3. DOMAIN stored = 0..(n - 1)
        BY <1>2 DEF Did
    <1>4. /\ DOMAIN stored' = 0..n /\ stored'[n] = value'
          /\ \A k \in 0..(n - 1) : stored'[k] = stored[k]
        <2>1. DOMAIN stored \cup {n} = 0..n
            BY <1>2, <1>3
        <2>2. stored' = [k \in 0..n |-> IF k = n THEN value' ELSE stored[k]]
            BY <1>0, <2>1 DEF Stores
        <2> QED BY <1>2, <2>2
    <1>5. value = Before(n) /\ Before(n) \in MinInt..MaxInt
        BY <1>0, <1>2, BeforeInt DEF AtLoop
    <1>6. Operand \in MinInt..MaxInt /\ Operand = ToInt(Arg(2 * n + 2).long)
        <2>1. i + 1 \in 0..(number_of_arguments - 1) /\ i + 1 = 2 * n + 2
            BY <1>2 DEF Stores
        <2>2. Arg(i + 1).long \in Int
            BY <1>2, <2>1, LineTyped
        <2> QED BY <2>1, <2>2, ToIntLeaves DEF Operand
    <1>7. /\ value' = Apply(FunctionOf(Arg(i)), value, Operand)
          /\ FunctionOf(Arg(i)) \in {"add", "subtract", "multiply", "divide"}
        BY FunctionKnown DEF Stores
    <1>8. Correct(FunctionOf(Arg(i)), value, Operand, value')
        BY <1>5, <1>6, <1>7, ApplyCorrect DEF Stores, Asserts, Traps
    <1>9. \A k \in 0..n : Before(k)' = Before(k)
        BY <1>1, <1>2, <1>4, LineStays DEF Before
    <1>10. StoredExact'
        <2> SUFFICES ASSUME NEW k \in 0..n
                     PROVE  Correct(FunctionOf(Arg(2 * k + 1)), Before(k)',
                                    ToInt(Arg(2 * k + 2).long), stored'[k])
            BY <1>1, <1>4, LineStays DEF StoredExact, FunctionOf
        <2>1. CASE k = n
            BY <1>2, <1>4, <1>5, <1>6, <1>8, <1>9, <2>1
        <2>2. CASE k # n
            <3>1. k \in DOMAIN stored
                BY <1>2, <1>3, <2>2
            <3>2. Correct(FunctionOf(Arg(2 * k + 1)), Before(k),
                          ToInt(Arg(2 * k + 2).long), stored[k])
                BY <3>1 DEF CInv, StoredExact
            <3>3. stored'[k] = stored[k]
                BY <1>3, <1>4, <3>1
            <3> QED BY <1>9, <3>2, <3>3
        <2> QED BY <2>1, <2>2
    <1>11. Did(n + 1)'
        <2>1. i' = 2 * (n + 1) + 1 /\ i' <= number_of_arguments'
            BY <1>1, <1>2, LineStays DEF Stores
        <2>2. DOMAIN stored' = 0..((n + 1) - 1)
            BY <1>2, <1>4
        <2>3. Fits(i) /\ Fits(i + 1)
            BY <1>2 DEF Stores, Fits
        <2>4. \A k \in 0..(i' - 1) : Fits(k)'
            <3>1. \A k \in 0..(i' - 1) : k \in 0..(i - 1) \/ k = i \/ k = i + 1
                BY <1>1, <1>2
            <3>2. \A k \in 0..(i - 1) : Fits(k)
                BY <1>2 DEF Did
            <3> QED BY <1>1, <2>3, <3>1, <3>2, LineStays
        <2> QED BY <2>1, <2>2, <2>4 DEF Did
    <1>12. AtLoop'
        <2>1. value' = Before(n + 1)'
            BY <1>2, <1>4 DEF Before
        <2>2. Did(number)' /\ value' = Before(number)'
            BY <1>1, <1>11, <2>1 DEF Did, Before
        <2>3. error' = FALSE /\ shown' = <<>> /\ block' \in {"null", "held"}
            BY <1>2 DEF AtLoop, Stores
        <2> QED BY <1>1, <1>2, <2>2, <2>3 DEF AtLoop
    <1>13. \E m \in 0..i' : Did(m)'
        <2>1. n + 1 \in 0..i'
            BY <1>1, <1>2
        <2> QED BY <1>11, <2>1
    <1>14. place' = "loop"
        BY DEF Stores, InLoop
    <1>15. arguments' \in Lines /\ unit_testing' \in BOOLEAN
        BY <1>1, LineStays DEF CInv
    <1>16. error' \in BOOLEAN /\ shown' \in Seq(Int) /\ block' \in {"null", "held", "freed"}
        BY DEF Stores, CInv
    <1> QED BY <1>10, <1>12, <1>13, <1>14, <1>15, <1>16 DEF CInv

LEMMA OperateStep == ASSUME CInv, Operate PROVE CInv'
    <1>1. InLoop
        BY DEF Operate
    <1>2. CASE Stops(AssertFails)
        BY <1>1, <1>2, StopsStep DEF AssertFails
    <1>3. CASE Stops("fault")
        BY <1>1, <1>3, StopsStep
    <1>4. CASE Stores
        BY <1>4, StoresStep
    <1> QED BY <1>2, <1>3, <1>4 DEF Operate, Stores

LEMMA CNext == CInv /\ [Next]_vars => CInv'
    <1> SUFFICES ASSUME CInv, [Next]_vars PROVE CInv'
        OBVIOUS
    <1>1. CASE NoArguments
        BY <1>1, NoArgumentsStep
    <1>2. CASE FirstIsNoInteger
        BY <1>2, FirstStep
    <1>3. CASE ParseFirst
        BY <1>3, ParseFirstStep
    <1>4. CASE UnknownOperator
        BY <1>4, UnknownStep
    <1>5. CASE MissingArgument
        BY <1>5, MissingStep
    <1>6. CASE OperandIsNoInteger
        BY <1>6, OperandStep
    <1>7. CASE Operate
        BY <1>7, OperateStep
    <1>8. CASE CleanUp
        BY <1>8, CleanUpStep
    <1>9. CASE Done
        BY <1>9, DoneStep
    <1>10. CASE Display
        BY <1>10, DisplayStep
    <1>11. CASE Return
        BY <1>11, ReturnStep
    <1>12. CASE UNCHANGED vars
        <2>1. /\ UNCHANGED <<input, i, stored>>
              /\ UNCHANGED <<number, value, block, error, place, shown>>
            BY <1>12 DEF vars, input
        <2>2. \A n : Did(n)' = Did(n)
            BY <2>1, CStay
        <2>3. Did(number)' = Did(number) /\ Before(number)' = Before(number)
            BY <2>1, <2>2, CStay DEF Did, Before, Fits
        <2>4. AtLoop' = AtLoop /\ AtParse' = AtParse /\ ShownAreStored' = ShownAreStored
            BY <2>1, <2>3 DEF AtLoop, AtParse, ShownAreStored
        <2>5. (AtCleanUp' <=> AtCleanUp) /\ (AfterError' <=> AfterError)
            BY <2>1, CStay DEF AtCleanUp, AfterError
        <2>6. AfterSuccess' <=> AfterSuccess
            BY <2>1, <2>3, <2>4, CStay DEF AfterSuccess
        <2>7. DisplayedAt' = DisplayedAt
            BY <2>1 DEF DisplayedAt
        <2> QED BY <2>1, <2>4, <2>5, <2>6, <2>7, CStay DEF CInv
    <1> QED BY <1>1, <1>2, <1>3, <1>4, <1>5, <1>6, <1>7, <1>8, <1>9, <1>10, <1>11,
               <1>12 DEF Next, Ended

-----------------------------------------------------------------------------
(* The theorems                                                            *)

(* Whatever the lines, the table and the size of an int, perform_operation *)
(* and main are always where CInv has them.                                *)
THEOREM CalculatorInvariance == Spec => []CInv
    BY CInit, CNext, PTL DEF Spec

LEMMA InvInBounds == CInv => InBounds
    <1> SUFFICES ASSUME CInv PROVE InBounds
        OBVIOUS
    <1>1. arguments \in Lines /\ shown \in Seq(Int)
        BY DEF CInv
    <1>2. number_of_arguments \in Nat /\ Len(shown) \in Nat
        BY <1>1, LineTyped, LenProperties
    <1>3. DOMAIN stored \subseteq 0..(Capacity - 1)
        <2>1. CASE stored = <<>>
            BY <2>1
        <2>2. CASE \E n \in 0..i : Did(n)
            <3>1. PICK n \in 0..i : Did(n)
                BY <2>2
            <3>2. n \in Nat /\ 2 * n + 1 <= number_of_arguments /\ DOMAIN stored = 0..(n - 1)
                BY <3>1 DEF Did
            <3>3. n <= Capacity /\ Capacity \in Int
                BY <1>2, <3>2 DEF Capacity
            <3> QED BY <3>2, <3>3
        <2> QED BY <2>1, <2>2 DEF CInv
    <1>4. ASSUME Displaying
          PROVE  /\ InTable(Len(shown)) /\ Len(shown) \in DOMAIN stored
                 /\ DisplayedAt + 1 < number_of_arguments
        <2>1. AfterSuccess /\ number_of_arguments # 0
            BY <1>2, <1>4 DEF CInv, Displaying, DisplayedAt
        <2>2. /\ number \in Nat /\ Did(number) /\ number_of_arguments = 2 * number + 1
              /\ Len(shown) <= number
            BY <2>1 DEF AfterSuccess, Did, ShownAreStored
        <2>3. Len(shown) < number
            BY <1>2, <1>4, <2>2 DEF Displaying, DisplayedAt
        <2> QED BY <1>2, <2>2, <2>3 DEF InTable, Did, DisplayedAt
    <1> QED BY <1>3, <1>4 DEF InBounds

LEMMA InvValuesExact == CInv => ValuesExact
    <1> SUFFICES ASSUME CInv PROVE ValuesExact
        OBVIOUS
    <1> DEFINE Narrowed(n) == CHOOSE v \in MinInt..MaxInt : (v - n) % IntModulus = 0
    <1>1. arguments \in Lines
        BY DEF CInv
    <1>2. number_of_arguments \in Nat
        BY <1>1, LineTyped
    <1>3. \A n \in Int : Narrowed(n) = ToInt(n)
        BY Narrowing
    <1> HIDE DEF Narrowed
    <1>4. ASSUME NEW n \in 0..i, Did(n)
          PROVE  /\ Narrowed(Arg(0).long) = ToInt(Arg(0).long)
                 /\ \A k \in DOMAIN stored :
                       Narrowed(Arg(2 * k + 2).long) = ToInt(Arg(2 * k + 2).long)
        <2>1. /\ n \in Nat /\ 2 * n + 1 <= number_of_arguments
              /\ DOMAIN stored = 0..(n - 1)
            BY <1>4 DEF Did
        <2>2. 0 \in 0..(number_of_arguments - 1)
            BY <1>2, <2>1
        <2>3. \A k \in DOMAIN stored : 2 * k + 2 \in 0..(number_of_arguments - 1)
            BY <1>2, <2>1
        <2> QED BY <1>1, <1>3, <2>2, <2>3, LineTyped
    <1>5. \A k \in DOMAIN stored :
             /\ Narrowed(Arg(0).long) = ToInt(Arg(0).long)
             /\ Narrowed(Arg(2 * k + 2).long) = ToInt(Arg(2 * k + 2).long)
        <2>1. stored = <<>> => DOMAIN stored = {}
            OBVIOUS
        <2> QED BY <1>4, <2>1 DEF CInv
    <1>6. \A k \in DOMAIN stored :
             Correct(FunctionOf(Arg(2 * k + 1)),
                     IF k = 0 THEN Narrowed(Arg(0).long) ELSE stored[k - 1],
                     Narrowed(Arg(2 * k + 2).long), stored[k])
        <2> SUFFICES ASSUME NEW k \in DOMAIN stored
                     PROVE  Correct(FunctionOf(Arg(2 * k + 1)),
                                    IF k = 0 THEN Narrowed(Arg(0).long) ELSE stored[k - 1],
                                    Narrowed(Arg(2 * k + 2).long), stored[k])
            OBVIOUS
        <2>1. Correct(FunctionOf(Arg(2 * k + 1)), Before(k),
                      ToInt(Arg(2 * k + 2).long), stored[k])
            BY DEF CInv, StoredExact
        <2>2. Before(k) = IF k = 0 THEN Narrowed(Arg(0).long) ELSE stored[k - 1]
            BY <1>5 DEF Before
        <2> QED BY <1>5, <2>1, <2>2
    <1>7. place = "loop" =>
             value = IF number = 0 THEN Narrowed(Arg(0).long) ELSE stored[number - 1]
        <2> SUFFICES ASSUME place = "loop"
                     PROVE  value = IF number = 0 THEN Narrowed(Arg(0).long)
                                    ELSE stored[number - 1]
            OBVIOUS
        <2>1. AtLoop
            BY DEF CInv
        <2>2. number \in 0..i /\ Did(number) /\ value = Before(number)
            <3>1. number \in Nat /\ i = 2 * number + 1
                BY <2>1 DEF AtLoop, Did
            <3> QED BY <2>1, <3>1 DEF AtLoop
        <2>3. Narrowed(Arg(0).long) = ToInt(Arg(0).long)
            BY <1>4, <2>2
        <2> QED BY <2>2, <2>3 DEF Before
    <1> QED BY <1>6, <1>7 DEF ValuesExact, Narrowed

LEMMA InvVerdictExact == CInv => VerdictExact
    <1> SUFFICES ASSUME CInv, place = "returned"
                 PROVE  /\ error <=> ~ WellFormed
                        /\ ~ error =>
                              /\ 2 * Len(shown) = (IF number_of_arguments = 0 THEN 0
                                                   ELSE number_of_arguments - 1)
                              /\ \A k \in 1..Len(shown) : shown[k] = stored[k - 1]
        BY DEF VerdictExact
    <1>1. /\ arguments \in Lines /\ shown \in Seq(Int) /\ error \in BOOLEAN
          /\ IF error THEN AfterError ELSE AfterSuccess
          /\ ~ error => DisplayedAt >= number_of_arguments
        BY DEF CInv
    <1>2. number_of_arguments \in Nat /\ Len(shown) \in Nat
        BY <1>1, LineTyped, LenProperties
    <1>3. error <=> ~ WellFormed
        BY <1>1 DEF AfterError, AfterSuccess
    <1>4. CASE error
        BY <1>3, <1>4
    <1>5. CASE ~ error /\ number_of_arguments = 0
        <2>1. shown = <<>>
            BY <1>1, <1>2, <1>5 DEF AfterSuccess, Did
        <2> QED BY <1>3, <1>5, <2>1
    <1>6. CASE ~ error /\ number_of_arguments # 0
        <2>1. /\ number \in Nat /\ number_of_arguments = 2 * number + 1 /\ ShownAreStored
            BY <1>1, <1>6 DEF AfterSuccess, Did
        <2>2. Len(shown) = number
            BY <1>1, <1>2, <1>6, <2>1 DEF ShownAreStored, DisplayedAt
        <2> QED BY <1>3, <1>6, <2>1, <2>2 DEF ShownAreStored
    <1> QED BY <1>4, <1>5, <1>6

LEMMA InvCleansUp == CInv => CleansUp
    BY DEF CInv, CleansUp, AfterError

(* The stores of perform_operation stay in the block it sized, and main    *)
(* reads only values stored and arguments given.                           *)
THEOREM StaysInBounds == Spec => []InBounds
    BY CalculatorInvariance, InvInBounds, PTL

(* Every value stored and the result are what their operators and operands *)
(* make of the value before, in the arithmetic of a word of any even size. *)
THEOREM ValuesAreExact == Spec => []ValuesExact
    BY CalculatorInvariance, InvValuesExact, PTL

(* The program returns without an error exactly for a well formed line,    *)
(* and then every value was displayed, in order.                           *)
THEOREM VerdictIsExact == Spec => []VerdictExact
    BY CalculatorInvariance, InvVerdictExact, PTL

(* After an error nothing is left of the operations, and the block is      *)
(* never freed twice nor kept when main returns.                           *)
THEOREM AlwaysCleansUp == Spec => []CleansUp
    BY CalculatorInvariance, InvCleansUp, PTL
=============================================================================
