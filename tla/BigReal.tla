------------------------------- MODULE BigReal -------------------------------
(***************************************************************************)
(* The fixed-point arithmetic of compute_pi_task (src/kernel/main.c): a    *)
(* big real of n digits in base B, x[0] the integer part, with school      *)
(* addition, subtraction, multiplication and division by a small integer, *)
(* the arc cotangent series and the Gauss formula for pi.  x[i] of the C   *)
(* arrays is x[i + 1] here.  TLC's integers are 32-bit, like long.         *)
(***************************************************************************)
EXTENDS Integers, Sequences

CONSTANTS
    B,            \* the working base, 10000
    MaxDiv,       \* 450: p^2 * B must fit a long for p < MaxDiv
    N,            \* the digits of the big reals the operations are tried on
    Digit,        \* the digit values tried
    Multipliers,  \* the q passed to Mul
    Divisors,     \* the d passed to Div
    ArccotArgs,   \* the p passed to arccot
    PiSize        \* size = 1 + NbDigits / LB for the pi check

LONG_MAX == 2147483647

\* SetToInteger(n, x, Integer)
SetToInteger(n, int) == [i \in 1 .. n |-> IF i = 1 THEN int ELSE 0]

\* IsZero(n, x)
IsZero(x) == \A i \in DOMAIN x : x[i] = 0

\* Mutant: a digit equal to B kept without carry.
AddCarryLate(x, y) ==
    LET RECURSIVE Step(_, _, _)
        Step(i, z, carry) ==
            IF i = 0 THEN z
            ELSE LET zi == z[i] + y[i] + carry IN
                 IF zi <= B THEN Step(i - 1, [z EXCEPT ![i] = zi], 0)
                 ELSE Step(i - 1, [z EXCEPT ![i] = zi - B], 1)
    IN Step(Len(x), x, 0)

\* Add(n, x, y): x += y from the last digit, with carry.
Add(x, y) ==
    LET RECURSIVE Step(_, _, _)
        Step(i, z, carry) ==
            IF i = 0 THEN z
            ELSE LET zi == z[i] + y[i] + carry IN
                 IF zi < B THEN Step(i - 1, [z EXCEPT ![i] = zi], 0)
                 ELSE Step(i - 1, [z EXCEPT ![i] = zi - B], 1)
    IN Step(Len(x), x, 0)

\* Sub(n, x, y): x -= y; a negative digit borrows from the one before it,
\* except the first.
Sub(x, y) ==
    LET RECURSIVE Step(_, _)
        Step(i, z) ==
            IF i = 0 THEN z
            ELSE LET zi == z[i] - y[i] IN
                 IF zi < 0 /\ i > 1
                 THEN Step(i - 1, [z EXCEPT ![i] = zi + B, ![i - 1] = @ - 1])
                 ELSE Step(i - 1, [z EXCEPT ![i] = zi])
    IN Step(Len(x), x)

\* Mul(n, x, q): x = x * q, the carry of the first digit dropped.
Mul(x, q) ==
    LET RECURSIVE Step(_, _, _)
        Step(i, z, carry) ==
            IF i = 0 THEN z
            ELSE LET xi == z[i] * q + carry IN
                 IF xi >= B THEN Step(i - 1, [z EXCEPT ![i] = xi - (xi \div B) * B], xi \div B)
                 ELSE Step(i - 1, [z EXCEPT ![i] = xi], 0)
    IN Step(Len(x), x, 0)

\* Div(n, x, d, y): y = x / d from the first digit, the remainder carried.
Div(x, d) ==
    LET RECURSIVE Step(_, _, _)
        Step(i, z, carry) ==
            IF i > Len(x) THEN z
            ELSE LET xi == x[i] + carry * B
                     q == xi \div d
                 IN Step(i + 1, [z EXCEPT ![i] = q], xi - q * d)
    IN Step(1, x, 0)

\* The divisors arccot(p) divides uk by: p^2 in one step below MaxDiv,
\* p twice above.
ArccotDivisors(p) == IF p < MaxDiv THEN {p * p} ELSE {p}

\* Mutant: the series started with the wrong sign for the second term.
ArccotSignFlip(p, n) ==
    LET uk0 == Div(SetToInteger(n, 1), p)
        RECURSIVE Loop(_, _, _, _)
        Loop(x, uk, k, sign) ==
            IF IsZero(uk) THEN x
            ELSE LET u1 == IF p < MaxDiv THEN Div(uk, p * p) ELSE Div(Div(uk, p), p)
                     vk == Div(u1, k)
                 IN Loop(IF sign = 1 THEN Add(x, vk) ELSE Sub(x, vk), u1, k + 2, 1 - sign)
    IN Loop(Add(SetToInteger(n, 0), uk0), uk0, 3, 1)

\* arccot(p, n, x, buf1, buf2): x = 1/p - 1/(3p^3) + 1/(5p^5) - ...
Arccot(p, n) ==
    LET uk0 == Div(SetToInteger(n, 1), p)
        RECURSIVE Loop(_, _, _, _)
        Loop(x, uk, k, sign) ==
            IF IsZero(uk) THEN x
            ELSE LET u1 == IF p < MaxDiv THEN Div(uk, p * p) ELSE Div(Div(uk, p), p)
                     vk == Div(u1, k)
                 IN Loop(IF sign = 1 THEN Add(x, vk) ELSE Sub(x, vk), u1, k + 2, 1 - sign)
    IN Loop(Add(SetToInteger(n, 0), uk0), uk0, 3, 0)

\* Mutant: every term added, the sign of the multiplier ignored.
ComputePiAddsAll(size) ==
    LET m == <<12, 8, -5>>
        p == <<18, 57, 239>>
        RECURSIVE Terms(_, _)
        Terms(i, pi) ==
            IF i > 3 THEN pi
            ELSE LET at == Mul(Arccot(p[i], size), IF m[i] < 0 THEN -m[i] ELSE m[i])
                 IN Terms(i + 1, Add(pi, at))
    IN Mul(Terms(1, SetToInteger(size, 0)), 4)

\* compute_pi_task: pi/4 = 12 arctan(1/18) + 8 arctan(1/57) - 5 arctan(1/239).
ComputePi(size) ==
    LET m == <<12, 8, -5>>
        p == <<18, 57, 239>>
        RECURSIVE Terms(_, _)
        Terms(i, pi) ==
            IF i > 3 THEN pi
            ELSE LET at == Mul(Arccot(p[i], size), IF m[i] < 0 THEN -m[i] ELSE m[i])
                 IN Terms(i + 1, IF m[i] > 0 THEN Add(pi, at) ELSE Sub(pi, at))
    IN Mul(Terms(1, SetToInteger(size, 0)), 4)

-----------------------------------------------------------------------------
(* Reference definitions: the value of a big real, and arctan(1/p) scaled  *)
(* by S from the alternating series, to within its number of terms.       *)

Value(x) ==
    LET RECURSIVE V(_)
        V(i) == IF i = 0 THEN 0 ELSE V(i - 1) * B + x[i]
    IN V(Len(x))

Pow(b, e) == IF e = 0 THEN 1 ELSE b^e
Normal(x) == \A i \in DOMAIN x : x[i] \in 0 .. B - 1
Reals(n) == [1 .. n -> Digit]

\* The terms floor(S / ((2k+1) p^(2k+1))) while they are not 0, summed
\* with alternating signs, and how many there are.
SeriesArctan(p, S) ==
    LET RECURSIVE Sum(_, _, _, _)
        \* t = floor(S / p^(2k+1)), obtained by dividing by p^2 each time.
        Sum(k, t, acc, cnt) ==
            IF t \div (2 * k + 1) = 0 THEN [sum |-> acc, terms |-> cnt]
            ELSE Sum(k + 1, t \div (p * p),
                     acc + (IF k % 2 = 0 THEN 1 ELSE -1) * (t \div (2 * k + 1)),
                     cnt + 1)
    IN Sum(0, S \div p, 0, 0)

Dist(a, b) == IF a > b THEN a - b ELSE b - a

-----------------------------------------------------------------------------
\* Add, Sub, Mul and Div compute the sum (modulo B^n: the integer part's
\* carry is dropped), the difference of x >= y, the product modulo B^n and
\* the quotient of the big reals' values, and leave every digit in 0..B-1.
BigRealOpsMatchIntegers ==
    \A x, y \in Reals(N) :
        /\ Normal(Add(x, y)) /\ Value(Add(x, y)) = (Value(x) + Value(y)) % Pow(B, N)
        /\ Value(x) >= Value(y) =>
              Normal(Sub(x, y)) /\ Value(Sub(x, y)) = Value(x) - Value(y)
        /\ \A q \in Multipliers :
              Normal(Mul(x, q)) /\ Value(Mul(x, q)) = (Value(x) * q) % Pow(B, N)
        /\ \A d \in Divisors :
              Normal(Div(x, d)) /\ Value(Div(x, d)) = Value(x) \div d

\* pi * 10^8 to the digit: 3.14159265...
PI_E8 == 314159265

\* arccot(p) is arctan(1/p), taken from the series at ten times the
\* precision, to within two units of the last digit per term of the
\* series; and the divisions it makes cannot overflow a long: each
\* x[i] + carry * B stays below d * B <= LONG_MAX.
ArccotAccurate ==
    \A p \in ArccotArgs :
        LET S == Pow(B, PiSize - 1)
            s == SeriesArctan(p, S)
            ref == SeriesArctan(p, 10 * S).sum \div 10
        IN /\ \A d \in ArccotDivisors(p) \cup {2 * s.terms + 1} : d <= LONG_MAX \div B
           /\ Dist(Value(Arccot(p, PiSize)), ref) <= 2 * s.terms + 1

\* compute_pi_task computes pi to six decimals with three digits of base
\* B (the last two decimals absorb the truncations of the arccot series).
PiAccurate ==
    PiSize = 3 => Dist(Value(ComputePi(PiSize)), PI_E8) < 100
=============================================================================
