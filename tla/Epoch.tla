-------------------------------- MODULE Epoch --------------------------------
(***************************************************************************)
(* Unix timestamps, written as digits or handed over as a number           *)
(* (internal/epoch/epoch.go).  The widths are parameters: the code has ten *)
(* digits for seconds, three from one precision to the next, which is a    *)
(* thousand times finer, the limits of an int64 and 10^11 seconds.         *)
(***************************************************************************)
EXTENDS Integers

CONSTANTS
    SecDigits,   \* the fewest digits that name seconds
    StepDigits,  \* the digits from one precision to the next
    Step,        \* how many units of a precision make one of the one before
    MaxInt,      \* math.MaxInt64
    MaxSeconds   \* the range, in seconds either side of the epoch

ASSUME EpochAssumption ==
    /\ SecDigits \in Nat \ {0} /\ StepDigits \in Nat \ {0} /\ Step \in Nat \ {0}
    /\ MaxInt \in Nat /\ MaxSeconds \in Nat

Pow10[n \in Nat] == IF n = 0 THEN 1 ELSE 10 * Pow10[n - 1]

ASSUME StepAssumption == Step = Pow10[StepDigits]

\* The nanoseconds of a second.
Giga == Step * Step * Step

MinInt == -MaxInt - 1

NoInstant == [ok |-> FALSE]

-----------------------------------------------------------------------------
\* The precision a number of digits names: how many units make a second.

NoPrecision == 0

PrecisionFor(digits) ==
    CASE digits = SecDigits + 3 * StepDigits -> Step * Step * Step
      [] digits = SecDigits + 2 * StepDigits -> Step * Step
      [] digits = SecDigits + StepDigits     -> Step
      [] digits \in SecDigits .. SecDigits + StepDigits - 1 -> 1
      [] OTHER -> NoPrecision

\* Go's division truncates toward zero, and the remainder has the sign of val.
Quotient(val, unit)  == IF val < 0 THEN -((-val) \div unit) ELSE val \div unit
Remainder(val, unit) == val - unit * Quotient(val, unit)

\* Mutant of Split: the remainder of a negative value is flipped.
SplitFlipped(val, unit) ==
    LET r == Remainder(val, unit)
    IN  [sec |-> Quotient(val, unit), nsec |-> (IF r < 0 THEN -r ELSE r) * (Giga \div unit)]

\* A count of units as seconds and nanoseconds, of either sign.
Split(val, unit) ==
    [sec |-> Quotient(val, unit), nsec |-> Remainder(val, unit) * (Giga \div unit)]

\* time.Unix, which accepts nanoseconds of any size and normalises them.
Unix(p) == [sec |-> p.sec + (p.nsec \div Giga), nsec |-> p.nsec % Giga]

InRange(sec) == sec \in -MaxSeconds .. MaxSeconds

\* Mutant of WithinRange: the bound is on the seconds handed in.
WithinRangeOfArgument(p) ==
    IF InRange(p.sec) THEN [ok |-> TRUE, at |-> Unix(p)] ELSE NoInstant

\* The bound is on the instant: a negative remainder borrows a second.
WithinRange(p) ==
    IF InRange(Unix(p).sec) THEN [ok |-> TRUE, at |-> Unix(p)] ELSE NoInstant

-----------------------------------------------------------------------------
\* Digits.  A run of digits is its value and its width.

\* Mutant of ParseInt: a value past the limit wraps.
ParseIntWrapped(n) ==
    [ok |-> TRUE, v |-> ((n.v + MaxInt + 1) % (2 * (MaxInt + 1))) - MaxInt - 1]

ParseInt(n) == IF n.v <= MaxInt THEN [ok |-> TRUE, v |-> n.v] ELSE NoInstant

Signed(neg, v) == IF neg THEN -v ELSE v

ParseInteger(neg, n) ==
    LET unit == PrecisionFor(n.w)
        val  == ParseInt(n)
    IN  IF unit # NoPrecision /\ val.ok THEN WithinRange(Split(Signed(neg, val.v), unit))
                                        ELSE NoInstant

\* The fraction is cut to nanoseconds before it is read, and carries the sign
\* of the number it belongs to.
Nanoseconds(frac) ==
    IF frac.w > 3 * StepDigits THEN frac.v \div Pow10[frac.w - 3 * StepDigits]
                               ELSE frac.v * Pow10[3 * StepDigits - frac.w]

ParseFractional(neg, n, frac) ==
    IF n.w \in SecDigits - 1 .. SecDigits + StepDigits - 1 /\ frac.w > 0 /\ ParseInt(n).ok
    THEN WithinRange([sec |-> Signed(neg, n.v), nsec |-> Signed(neg, Nanoseconds(frac))])
    ELSE NoInstant

-----------------------------------------------------------------------------
\* Numbers already typed.

\* bits.Len64.
BitLen[u \in Nat] == IF u = 0 THEN 0 ELSE 1 + BitLen[u \div 2]

\* An int64 is 63 bits and a sign, and the range lies within it.
ASSUME Int64Assumption == BitLen[MaxInt] <= 63 /\ MaxSeconds <= MaxInt

Magnitude(v) == IF v < 0 THEN -v ELSE v

\* Mutant of DigitCount: the estimate is not corrected.
DigitCountEstimated(v) ==
    IF v = 0 THEN 1 ELSE ((BitLen[Magnitude(v)] * 1233) \div 4096) + 1

\* The bits give an estimate of the digits, and one comparison corrects it.
DigitCount(v) ==
    LET u == Magnitude(v)
        d == (BitLen[u] * 1233) \div 4096
    IN  IF u = 0 THEN 1 ELSE IF u < Pow10[d] THEN d ELSE d + 1

\* A short number is seconds, for it cannot be a date.
FromInt(v) ==
    LET digits == DigitCount(v)
        unit   == PrecisionFor(digits)
    IN  IF v = MinInt \/ (unit = NoPrecision /\ digits >= SecDigits) THEN NoInstant
        ELSE WithinRange(Split(v, IF unit = NoPrecision THEN 1 ELSE unit))

\* A float64 is NaN, or a whole part and a fraction in thousandths of a
\* nanosecond, both of the number's sign; past Convertible lie the infinities.
NaN == [nan |-> TRUE]
Float(whole, thousandths) == [nan |-> FALSE, whole |-> whole, frac |-> thousandths]

Convertible == (MaxInt + 1) \div 2

RoundHalfAway(frac) ==
    IF frac >= 0 THEN Quotient(frac + 500, 1000) ELSE Quotient(frac - 500, 1000)

\* The magnitude is checked before anything is converted.
FromSeconds(f) ==
    IF f.nan \/ (Magnitude(f.whole) > Convertible)
    THEN NoInstant
    ELSE WithinRange([sec |-> f.whole, nsec |-> RoundHalfAway(f.frac)])

=============================================================================
