------------------------------ MODULE Humanize ------------------------------
(***************************************************************************)
(* The conversions of public/js/humanize.js, as the numbers and units they *)
(* show, and what a reader takes a shown text to mean.  A number of bytes  *)
(* is computed exactly here; the code's floating point agrees up to 3 MB.  *)
(* An amount is rounded as the double nearest to it is.                    *)
(***************************************************************************)
EXTENDS Integers, Sequences

\* JavaScript's Math.round, of a / b: halves go up.
RoundDiv(a, b) == (2 * a + b) \div (2 * b)

-----------------------------------------------------------------------------
(* bytes(s): tenths of a unit, and the power of 1000 that the unit is.     *)

\* Math.floor(logn(s, 1000)), below 10^9.
Exponent(s) == IF s < 1000 THEN 0 ELSE IF s < 1000000 THEN 1 ELSE 2

\* Bound: the sizes up to which the code's floating point is exact.
LargestExact == 3000000

\* Faulty: rounded up only.
BytesUp(s) ==
    IF s < 10 THEN [tenths |-> 10 * s, e |-> 0]
    ELSE LET unit == 1000 ^ Exponent(s)
         IN [tenths |-> 10 * ((s + unit - 1) \div unit), e |-> Exponent(s)]

\* One decimal is kept below 10; above, what was rounded to one decimal is rounded
\* again.
Bytes(s) ==
    IF s < 10 THEN [tenths |-> 10 * s, e |-> 0]
    ELSE LET tenths == RoundDiv(10 * s, 1000 ^ Exponent(s))
         IN [tenths |-> IF tenths < 100 THEN tenths ELSE 10 * RoundDiv(tenths, 10),
             e |-> Exponent(s)]

\* What is shown is within 0.05 of a unit, or within 0.55 where it was rounded twice.
BytesReadBack(s, shown) ==
    LET unit == 1000 ^ shown.e
        off == s - unit * (shown.tenths \div 10) - (unit \div 10) * (shown.tenths % 10)
        bound == IF shown.tenths < 100 THEN 5 ELSE 55
    IN IF shown.e = 0 THEN off = 0
       ELSE -(bound * (unit \div 100)) <= off /\ off <= bound * (unit \div 100)

-----------------------------------------------------------------------------
(* timeSince(unixTime), of the seconds passed.                             *)

\* Years, months, days, hours, minutes, seconds.
Units == <<31536000, 2592000, 86400, 3600, 60, 1>>

\* Faulty: the rest is computed with the unit above.
TimeSinceWrongRest(seconds) ==
    IF seconds < 60 THEN [n |-> seconds, unit |-> 6, extra |-> 0]
    ELSE LET unit == CHOOSE i \in 1..5 : seconds >= Units[i]
                                         /\ \A j \in 1..i - 1 : seconds < Units[j]
         IN [n |-> seconds \div Units[unit], unit |-> unit,
             extra |-> (seconds % Units[unit]) \div Units[unit]]

\* The largest unit that fits and, if there is any, the next one; below a minute,
\* and before the time itself, seconds.
TimeSince(seconds) ==
    IF seconds < 60 THEN [n |-> seconds, unit |-> 6, extra |-> 0]
    ELSE LET unit == CHOOSE i \in 1..5 : seconds >= Units[i]
                                         /\ \A j \in 1..i - 1 : seconds < Units[j]
         IN [n |-> seconds \div Units[unit], unit |-> unit,
             extra |-> (seconds % Units[unit]) \div Units[unit + 1]]

\* The time that a shown age stands for.
Shown(age) ==
    age.n * Units[age.unit] + (IF age.unit = 6 THEN 0 ELSE age.extra * Units[age.unit + 1])

\* It is the time passed, cut off at the second unit.
AgeReadBack(seconds, age) ==
    LET last == IF age.unit = 6 THEN 1 ELSE Units[age.unit + 1]
    IN Shown(age) <= seconds /\ seconds < Shown(age) + last

-----------------------------------------------------------------------------
(* decimalParts(v, useCommas, precision), of v in units of 10^-8.          *)

Unit == 10 ^ 8

\* Bound: a double tells apart all amounts below 2^26.
Representable(v) == v \div Unit < 2 ^ 26

\* No precision, or one that is too large, is 8.
Precision(p) == IF p = 0 \/ p > 8 THEN 8 ELSE p

\* The power of 2 that the double nearest to v / Unit begins with; v is not 0.
Power(v) ==
    IF v >= Unit
      THEN CHOOSE e \in 0..25 : 2 ^ e <= v \div Unit /\ v \div Unit < 2 ^ (e + 1)
      ELSE -(CHOOSE e \in 1..27 : v * 2 ^ e >= Unit /\ v * 2 ^ (e - 1) < Unit)

\* What the 53 bits of that double leave of v, in parts of their last: v * 2 ^ n
\* modulo Unit, doubled bit by bit.
Remainder(v) ==
    LET n == 52 - Power(v)
        rest[i \in 0..n] == IF i = 0 THEN v % Unit ELSE (2 * rest[i - 1]) % Unit
    IN rest[n]

\* The double of v is v, or the next one above it.
DoubleNotBelow(v) == Remainder(v) = 0 \/ 2 * Remainder(v) > Unit

\* v is halfway between two numbers of p digits.
Tie(v, p) == p < 8 /\ 2 * (v % 10 ^ (8 - p)) = 10 ^ (8 - p)

\* toFixed of the double, as a number of the last digit's units.  Only at a tie does
\* the double round another way than v, which goes up.
Fixed(v, p) ==
    IF Tie(v, p) /\ ~DoubleNotBelow(v) THEN v \div 10 ^ (8 - p)
    ELSE RoundDiv(v, 10 ^ (8 - p))

Decimals(v, p) == [i \in 1..p |-> (Fixed(v, p) \div 10 ^ (p - i)) % 10]

\* How many zeros end the digits.
TrailingZeros(digits) ==
    CHOOSE z \in 0..Len(digits) :
        /\ \A i \in Len(digits) - z + 1 .. Len(digits) : digits[i] = 0
        /\ z < Len(digits) => digits[Len(digits) - z] # 0

\* The integer part, the digits up to the last that is not zero, and the zeros.
DecimalParts(v, precision) ==
    LET p == Precision(precision)
        digits == Decimals(v, p)
        zeros == TrailingZeros(digits)
    IN [int |-> Fixed(v, p) \div 10 ^ p,
        decimals |-> SubSeq(digits, 1, p - zeros), zeros |-> zeros]

\* The parts put together are v, to within half of the last digit.
PartsReadBack(v, precision, parts) ==
    LET p == Len(parts.decimals) + parts.zeros
        unit == 10 ^ (8 - p)
        value[i \in 0..p] ==
            IF i = 0 THEN parts.int
            ELSE 10 * value[i - 1]
                 + (IF i <= Len(parts.decimals) THEN parts.decimals[i] ELSE 0)
        off == v - unit * value[p]
    IN /\ precision \in 1..8 => p = precision
       /\ -unit <= 2 * off /\ 2 * off <= unit
       /\ parts.decimals # <<>> => parts.decimals[Len(parts.decimals)] # 0
=============================================================================
