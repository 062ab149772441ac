---------------------------- MODULE EpochProofs ----------------------------
(***************************************************************************)
(* A timestamp is the instant it names, whatever the widths, the limits    *)
(* and the sign: nothing is rounded, nothing wraps, and nothing is refused *)
(* but what has no precision, does not fit or is out of range; typed or    *)
(* written it is the same, and written it is never taken for a phrase.     *)
(*                                                                         *)
(* Below zero Go's quotient truncates upwards: the remainder is negative,  *)
(* and time.Unix borrows the second that was given too much.  The digits   *)
(* of a typed number are counted from its bits: for as many bits as an     *)
(* int64 has, the estimate of three digits to ten bits is right or one too *)
(* few, and one comparison tells.  A text that spells no word gives the    *)
(* scanner nothing but numbers, times and unknowns, which no pattern asks  *)
(* for alone.                                                              *)
(***************************************************************************)
EXTENDS PhraseProofs

-----------------------------------------------------------------------------
\* Division.

LEMMA DivisionIsUnique ==
    ASSUME NEW a \in Int, NEW b \in Nat \ {0}, NEW q \in Int, NEW r \in 0..(b - 1),
           a = b * q + r
    PROVE  a \div b = q /\ a % b = r
<1> DEFINE p == a \div b
           s == a % b
<1>1. p \in Int /\ s \in 0..(b - 1) /\ a = b * p + s
  BY SMT
<1> HIDE DEF p, s
<1>2. ~(p > q)
  <2> SUFFICES ASSUME p > q PROVE FALSE
    OBVIOUS
  <2>1. b * p >= b * (q + 1)
    BY <1>1
  <2>2. b * (q + 1) = b * q + b
    OBVIOUS
  <2>3. b * p \in Int /\ b * q \in Int
    BY <1>1
  <2> QED
    BY <1>1, <2>1, <2>2, <2>3
<1>3. ~(p < q)
  <2> SUFFICES ASSUME p < q PROVE FALSE
    OBVIOUS
  <2>1. b * q >= b * (p + 1)
    BY <1>1
  <2>2. b * (p + 1) = b * p + b
    BY <1>1
  <2>3. b * p \in Int /\ b * q \in Int
    BY <1>1
  <2> QED
    BY <1>1, <2>1, <2>2, <2>3
<1>4. p = q
  BY <1>1, <1>2, <1>3
<1>5. s = r
  <2>1. b * q \in Int
    OBVIOUS
  <2> QED
    BY <1>1, <1>4, <2>1
<1> QED
  BY <1>4, <1>5 DEF p, s

LEMMA DivisionHolds ==
    ASSUME NEW a \in Int, NEW b \in Nat \ {0}
    PROVE  a \div b \in Int /\ a % b \in 0..(b - 1) /\ a = b * (a \div b) + (a % b)
  BY SMT

\* A part of a unit is less than the whole.
LEMMA PartsAreLess ==
    ASSUME NEW b \in Nat \ {0}, NEW k \in Nat \ {0}, NEW r \in 0..(b - 1)
    PROVE  r * k \in 0..(b * k - 1)
<1>1. r * k <= (b - 1) * k
  OBVIOUS
<1>2. (b - 1) * k = b * k - k
  OBVIOUS
<1>3. r * k \in Nat /\ b * k \in Nat
  OBVIOUS
<1> QED
  BY <1>1, <1>2, <1>3

-----------------------------------------------------------------------------
\* A count of units, as seconds and nanoseconds.

\* The unit of every precision divides the second.
LEMMA UnitsDivideTheSecond ==
    ASSUME NEW digits, PrecisionFor(digits) # NoPrecision
    PROVE  /\ PrecisionFor(digits) \in Nat \ {0} /\ Giga \in Nat \ {0}
           /\ \E k \in Nat \ {0} : Giga = PrecisionFor(digits) * k
<1>1. Step \in Nat \ {0} /\ Step * Step \in Nat \ {0} /\ Step * Step * Step \in Nat \ {0}
  <2>1. \A a, b \in Nat \ {0} : a * b \in Nat \ {0}
    OBVIOUS
  <2> QED
    BY <2>1, EpochAssumption
<1>2. PrecisionFor(digits) \in {1, Step, Step * Step, Step * Step * Step}
  BY DEF PrecisionFor, NoPrecision
<1>3. /\ Giga = (Step * Step * Step) * 1 /\ Giga = (Step * Step) * Step
      /\ Giga = Step * (Step * Step) /\ Giga = 1 * (Step * Step * Step)
  BY <1>1 DEF Giga
<1>4. Giga \in Nat \ {0}
  BY <1>1 DEF Giga
<1> DEFINE Divides(u) == u \in Nat \ {0} /\ \E k \in Nat \ {0} : Giga = u * k
<1>5. Divides(Step * Step * Step) /\ Divides(Step * Step) /\ Divides(Step) /\ Divides(1)
  <2>1. 1 \in Nat \ {0}
    OBVIOUS
  <2> QED
    BY <1>1, <1>3, <2>1, Zenon
<1>6. Divides(PrecisionFor(digits))
  <2> HIDE DEF Divides
  <2> QED
    BY <1>2, <1>5
<1> QED
  BY <1>4, <1>6

\* time.Unix undoes what truncating toward zero did: the second is the floor,
\* and the nanoseconds count up from it.
LEMMA SplitIsExact ==
    ASSUME NEW v \in Int, NEW unit \in Nat \ {0}, NEW k \in Nat \ {0}, Giga = unit * k
    PROVE  Unix(Split(v, unit)) = [sec |-> v \div unit, nsec |-> (v % unit) * k]
<1>1. Giga \in Nat \ {0} /\ Giga \div unit = k
  <2>1. Giga \in Nat \ {0} /\ Giga = unit * k + 0 /\ 0 \in 0..(unit - 1)
    OBVIOUS
  <2> QED
    BY <2>1, DivisionIsUnique
<1>2. CASE v >= 0
  <2> DEFINE q == v \div unit
             r == v % unit
  <2>1. q \in Int /\ r \in 0..(unit - 1) /\ v = unit * q + r
    BY DivisionHolds
  <2>2. Split(v, unit) = [sec |-> q, nsec |-> (v - unit * q) * k]
    BY <1>1, <1>2 DEF Split, Quotient, Remainder
  <2> HIDE DEF q, r
  <2>3. v - unit * q = r
    <3>1. unit * q \in Int
      BY <2>1
    <3> QED
      BY <2>1, <3>1
  <2>4. r * k \in 0..(Giga - 1)
    BY <2>1, PartsAreLess
  <2>5. (r * k) \div Giga = 0 /\ (r * k) % Giga = r * k
    <3>1. r * k = Giga * 0 + r * k /\ r * k \in Int
      BY <1>1, <2>4
    <3> QED
      BY <1>1, <2>4, <3>1, DivisionIsUnique
  <2>6. Unix(Split(v, unit)) = [sec |-> q, nsec |-> r * k]
    BY <2>1, <2>2, <2>3, <2>5 DEF Unix
  <2> QED
    BY <2>6 DEF q, r
<1>3. CASE v < 0
  <2> DEFINE p == (-v) \div unit
             s == (-v) % unit
  <2>1. p \in Int /\ s \in 0..(unit - 1) /\ -v = unit * p + s
    <3>1. -v \in Int
      OBVIOUS
    <3> QED
      BY <3>1, DivisionHolds
  <2>2. Split(v, unit) = [sec |-> -p, nsec |-> (v - unit * (-p)) * k]
    BY <1>1, <1>3 DEF Split, Quotient, Remainder
  <2> HIDE DEF p, s
  <2>3. v - unit * (-p) = -s /\ unit * p \in Int /\ unit * (-p) = -(unit * p)
    <3>1. unit * p \in Int /\ unit * (-p) = -(unit * p)
      BY <2>1
    <3> QED
      BY <2>1, <3>1
  <2>4. CASE s = 0
    <3>1. v = unit * (-p) + 0
      BY <2>1, <2>3, <2>4
    <3>2. v \div unit = -p /\ v % unit = 0
      BY <2>1, <3>1, DivisionIsUnique
    <3>3. Split(v, unit) = [sec |-> -p, nsec |-> 0]
      BY <2>2, <2>3, <2>4
    <3>4. 0 \div Giga = 0 /\ 0 % Giga = 0
      BY <1>1, DivisionIsUnique
    <3>5. Unix(Split(v, unit)) = [sec |-> -p, nsec |-> 0]
      BY <2>1, <3>3, <3>4 DEF Unix
    <3> QED
      BY <3>2, <3>5
  <2>5. CASE s # 0
    <3>1. v = unit * (-p - 1) + (unit - s) /\ unit - s \in 0..(unit - 1)
      <4>1. unit * (-p - 1) = unit * (-p) - unit
        BY <2>1
      <4> QED
        BY <2>1, <2>3, <2>5, <4>1
    <3>2. v \div unit = -p - 1 /\ v % unit = unit - s
      <4>1. -p - 1 \in Int
        BY <2>1
      <4> QED
        BY <3>1, <4>1, DivisionIsUnique
    <3>3. (unit - s) * k \in 0..(Giga - 1)
      BY <3>1, PartsAreLess
    <3>4. (-s) * k = Giga * (-1) + (unit - s) * k
      <4>1. (unit - s) * k = unit * k - s * k /\ (-s) * k = -(s * k) /\ s * k \in Int
        BY <2>1
      <4> QED
        BY <1>1, <4>1
    <3>5. ((-s) * k) \div Giga = -1 /\ ((-s) * k) % Giga = (unit - s) * k
      <4>1. (-s) * k \in Int /\ -1 \in Int
        BY <2>1
      <4> DEFINE x == (-s) * k
                 y == (unit - s) * k
                 m == -1
      <4>2. x \in Int /\ m \in Int /\ y \in 0..(Giga - 1) /\ x = Giga * m + y
        BY <3>3, <3>4, <4>1
      <4> HIDE DEF x, y, m
      <4>3. x \div Giga = m /\ x % Giga = y
        BY <1>1, <4>2, DivisionIsUnique
      <4> QED
        BY <4>3 DEF x, y, m
    <3>6. Unix(Split(v, unit)) = [sec |-> -p - 1, nsec |-> (unit - s) * k]
      BY <2>1, <2>2, <2>3, <3>5 DEF Unix
    <3> QED
      BY <3>2, <3>6
  <2> QED
    BY <2>4, <2>5
<1> QED
  BY <1>2, <1>3

LEMMA OneSecondIsAUnit ==
    /\ 1 \in Nat \ {0} /\ Giga \in Nat \ {0} /\ Giga = 1 * Giga
<1>1. \A a, b \in Nat \ {0} : a * b \in Nat \ {0}
  OBVIOUS
<1>2. Giga \in Nat \ {0}
  BY <1>1, EpochAssumption DEF Giga
<1> QED
  BY <1>2

\* time.Unix moves nanoseconds of any size into the seconds, and loses none.
LEMMA UnixIsExact ==
    ASSUME NEW s \in Int, NEW ns \in Int
    PROVE  LET at == Unix([sec |-> s, nsec |-> ns])
           IN  /\ at.sec \in Int /\ at.nsec \in 0..(Giga - 1)
               /\ at.sec * Giga + at.nsec = s * Giga + ns
<1>1. Giga \in Nat \ {0}
  BY OneSecondIsAUnit
<1> DEFINE q == ns \div Giga
           r == ns % Giga
<1>2. q \in Int /\ r \in 0..(Giga - 1) /\ ns = Giga * q + r
  BY <1>1, DivisionHolds
<1>3. Unix([sec |-> s, nsec |-> ns]) = [sec |-> s + q, nsec |-> r]
  BY DEF Unix
<1> HIDE DEF q, r
<1>4. (s + q) * Giga = s * Giga + Giga * q /\ s * Giga \in Int /\ Giga * q \in Int
  BY <1>1, <1>2
<1>5. (s + q) * Giga + r = s * Giga + ns
  BY <1>2, <1>4
<1> QED
  BY <1>2, <1>3, <1>5

-----------------------------------------------------------------------------
\* What a timestamp promises: an instant in the range, whose nanoseconds are
\* those of its second, and which is as far from the epoch as was written.

IsInstant(at) == InRange(at.sec) /\ at.nsec \in 0..(Giga - 1)

Since(at) == at.sec * Giga + at.nsec

\* A count of units as an instant: the second is the floor, the nanoseconds are
\* what is left of the count, and the range is the only reason to refuse it.
CountsExactly(answer, v, unit) ==
    /\ answer.ok <=> InRange(v \div unit)
    /\ answer.ok => /\ IsInstant(answer.at)
                    /\ answer.at.sec = v \div unit
                    /\ Since(answer.at) * unit = v * Giga

LEMMA CountsAreExact ==
    ASSUME NEW v \in Int, NEW unit \in Nat \ {0}, NEW k \in Nat \ {0}, Giga = unit * k
    PROVE  CountsExactly(WithinRange(Split(v, unit)), v, unit)
<1> DEFINE q == v \div unit
           r == v % unit
           at == Unix(Split(v, unit))
<1>1. q \in Int /\ r \in 0..(unit - 1) /\ v = unit * q + r
  BY DivisionHolds
<1>2. at = [sec |-> q, nsec |-> r * k]
  BY SplitIsExact
<1>3. r * k \in 0..(Giga - 1)
  BY <1>1, PartsAreLess
<1> HIDE DEF q, r, at
<1>4. (q * Giga + r * k) * unit = v * Giga
  <2>1. (q * (unit * k) + r * k) * unit = (unit * q + r) * (unit * k)
    BY <1>1
  <2> QED
    BY <1>1, <2>1
<1>5. WithinRange(Split(v, unit)) = IF InRange(q) THEN [ok |-> TRUE, at |-> at] ELSE NoInstant
  BY <1>2 DEF WithinRange, at
<1> QED
  BY <1>2, <1>3, <1>4, <1>5 DEF CountsExactly, IsInstant, Since, NoInstant, q

\* A number written as digits is refused when its width names no precision,
\* when it does not fit an int64 or when its instant is out of the range, for no
\* other reason; read, it is that many units since the epoch, of either sign
\* (ParseInteger, whose quotient truncates toward zero and whose negative
\* remainder time.Unix borrows a second for).
THEOREM IntegersAreExact ==
    ASSUME NEW neg \in BOOLEAN, NEW n, n.v \in Nat
    PROVE  LET unit   == PrecisionFor(n.w)
               answer == ParseInteger(neg, n)
           IN  IF unit # NoPrecision /\ n.v <= MaxInt
               THEN CountsExactly(answer, Signed(neg, n.v), unit)
               ELSE ~answer.ok
<1> DEFINE unit == PrecisionFor(n.w)
           val  == Signed(neg, n.v)
<1>1. CASE unit # NoPrecision /\ n.v <= MaxInt
  <2>1. PICK k \in Nat \ {0} : Giga = unit * k
    BY <1>1, UnitsDivideTheSecond
  <2>2. unit \in Nat \ {0}
    BY <1>1, UnitsDivideTheSecond
  <2>3. val \in Int
    BY DEF Signed
  <2>4. ParseInteger(neg, n) = WithinRange(Split(val, unit))
    BY <1>1 DEF ParseInteger, ParseInt
  <2> HIDE DEF unit, val
  <2>5. CountsExactly(ParseInteger(neg, n), val, unit)
    BY <2>1, <2>2, <2>3, <2>4, CountsAreExact
  <2> QED
    BY <1>1, <2>5 DEF unit, val
<1>2. CASE ~(unit # NoPrecision /\ n.v <= MaxInt)
  <2>1. ParseInteger(neg, n) = NoInstant
    BY <1>2 DEF ParseInteger, ParseInt, NoInstant
  <2> QED
    BY <1>2, <2>1 DEF NoInstant
<1> QED
  BY <1>1, <1>2

\* A typed integer is refused at the least int64, which has no magnitude, when
\* its digits name no precision though they are as many as seconds have, or when
\* its instant is out of the range; read, it is that many units since the epoch,
\* and a number too short to be a precision is seconds (FromInt).
THEOREM TypedIntegersAreExact ==
    ASSUME NEW v \in Int
    PROVE  LET digits == DigitCount(v)
               unit   == IF PrecisionFor(digits) = NoPrecision THEN 1 ELSE PrecisionFor(digits)
           IN  IF v = MinInt \/ (PrecisionFor(digits) = NoPrecision /\ digits >= SecDigits)
               THEN ~FromInt(v).ok
               ELSE CountsExactly(FromInt(v), v, unit)
<1> DEFINE digits == DigitCount(v)
           unit   == IF PrecisionFor(digits) = NoPrecision THEN 1 ELSE PrecisionFor(digits)
           wrong  == v = MinInt \/ (PrecisionFor(digits) = NoPrecision /\ digits >= SecDigits)
<1>1. unit \in Nat \ {0} /\ \E k \in Nat \ {0} : Giga = unit * k
  <2>1. CASE PrecisionFor(digits) = NoPrecision
    <3>1. unit = 1
      BY <2>1
    <3> QED
      BY <3>1, OneSecondIsAUnit
  <2>2. CASE PrecisionFor(digits) # NoPrecision
    <3>1. unit = PrecisionFor(digits)
      BY <2>2
    <3> QED
      BY <2>2, <3>1, UnitsDivideTheSecond
  <2> QED
    BY <2>1, <2>2
<1>2. FromInt(v) = IF wrong THEN NoInstant ELSE WithinRange(Split(v, unit))
  BY DEF FromInt
<1> HIDE DEF unit
<1>3. CountsExactly(WithinRange(Split(v, unit)), v, unit)
  BY <1>1, CountsAreExact
<1>4. CASE wrong
  BY <1>2, <1>4 DEF NoInstant
<1>5. CASE ~wrong
  <2>1. CountsExactly(FromInt(v), v, unit)
    BY <1>2, <1>3, <1>5
  <2> QED
    BY <1>5, <2>1 DEF unit
<1> QED
  BY <1>4, <1>5 DEF unit

\* A number with a fraction is its digits and the nanoseconds of its fraction,
\* the sign before both of them: -1.5 is a second and a half before the epoch
\* and not half a second before it (ParseFractional).
THEOREM FractionsCarryTheSign ==
    ASSUME NEW neg \in BOOLEAN, NEW n, NEW frac, n.v \in Nat, Nanoseconds(frac) \in Nat,
           ParseFractional(neg, n, frac).ok
    PROVE  LET at == ParseFractional(neg, n, frac).at
           IN  /\ IsInstant(at)
               /\ Since(at) = Signed(neg, n.v * Giga + Nanoseconds(frac))
<1> DEFINE ns == Nanoseconds(frac)
           s  == Signed(neg, n.v)
           t  == Signed(neg, ns)
           u  == Unix([sec |-> s, nsec |-> t])
<1>1. ParseFractional(neg, n, frac) = WithinRange([sec |-> s, nsec |-> t])
  BY DEF ParseFractional, NoInstant
<1>2. InRange(u.sec) /\ ParseFractional(neg, n, frac).at = u
  BY <1>1 DEF WithinRange, NoInstant
<1>3. s \in Int /\ t \in Int /\ ns \in Nat
  BY DEF Signed
<1>4. u.sec \in Int /\ u.nsec \in 0..(Giga - 1) /\ u.sec * Giga + u.nsec = s * Giga + t
  <2> HIDE DEF s, t, ns
  <2> QED
    BY <1>3, UnixIsExact
<1>5. s * Giga + t = Signed(neg, n.v * Giga + ns)
  <2> HIDE DEF ns
  <2>1. n.v * Giga \in Int /\ (-n.v) * Giga = -(n.v * Giga)
    BY OneSecondIsAUnit
  <2> QED
    BY <1>3, <2>1 DEF Signed
<1> HIDE DEF u, s, t
<1> QED
  BY <1>2, <1>4, <1>5 DEF IsInstant, Since

\* Rounding is to the nearest nanosecond, and of two to the one further from zero.
LEMMA RoundsToTheNearest ==
    ASSUME NEW frac \in Int
    PROVE  LET ns == RoundHalfAway(frac)
           IN  ns \in Int /\ 1000 * ns - frac \in (IF frac < 0 THEN -500..499 ELSE -499..500)
<1> DEFINE ns == RoundHalfAway(frac)
<1>1. CASE frac >= 0
  <2> DEFINE x == frac + 500
             q == x \div 1000
  <2>1. ns = q
    BY <1>1 DEF RoundHalfAway, Quotient
  <2>2. x \in Int
    OBVIOUS
  <2> HIDE DEF ns, x
  <2>3. q \in Int /\ x % 1000 \in 0..999 /\ x = 1000 * q + (x % 1000)
    BY <2>2, SMT
  <2> HIDE DEF q
  <2>4. 1000 * ns - frac \in -499..500
    BY <1>1, <2>1, <2>3 DEF x
  <2> QED
    BY <1>1, <2>1, <2>3, <2>4 DEF ns
<1>2. CASE frac < 0
  <2> DEFINE x == -(frac - 500)
             q == x \div 1000
  <2>1. ns = -q
    BY <1>2 DEF RoundHalfAway, Quotient
  <2>2. x \in Int
    OBVIOUS
  <2> HIDE DEF ns, x
  <2>3. q \in Int /\ x % 1000 \in 0..999 /\ x = 1000 * q + (x % 1000)
    BY <2>2, SMT
  <2> HIDE DEF q
  <2>4. 1000 * ns - frac \in -500..499 /\ ns \in Int
    BY <1>2, <2>1, <2>3 DEF x
  <2> QED
    BY <1>2, <2>4 DEF ns
<1> QED
  BY <1>1, <1>2

\* How many thousandths of a nanosecond an instant, counted in nanoseconds since
\* 1970, is after a float.
Off(since, whole, frac) == 1000 * since - (1000 * whole * Giga + frac)

Error(f, at) == Off(Since(at), f.whole, f.frac)

\* A float is read to the nearest nanosecond, within the range: NaN, the
\* infinities and what no int64 holds are refused before they are converted
\* (FromSeconds).
THEOREM FloatsReadToTheNearest ==
    ASSUME NEW f, f.whole \in Int, f.frac \in Int, FromSeconds(f).ok
    PROVE  LET at == FromSeconds(f).at
           IN  /\ ~f.nan /\ f.whole \in -Convertible..Convertible
               /\ IsInstant(at)
               /\ 2 * Error(f, at) \in -1000..1000
<1> DEFINE ns == RoundHalfAway(f.frac)
           u  == Unix([sec |-> f.whole, nsec |-> ns])
<1>1. FromSeconds(f) = WithinRange([sec |-> f.whole, nsec |-> ns]) /\ ~f.nan /\ ~(Magnitude(f.whole) > Convertible)
  BY DEF FromSeconds, NoInstant
<1>2. InRange(u.sec) /\ FromSeconds(f).at = u
  BY <1>1 DEF WithinRange, NoInstant
<1>3. ns \in Int /\ 2 * (1000 * ns - f.frac) \in -1000..1000
  <2>1. PICK frac \in Int : frac = f.frac
    OBVIOUS
  <2>2. ns \in Int /\ 1000 * ns - frac \in (IF frac < 0 THEN -500..499 ELSE -499..500)
    BY <2>1, RoundsToTheNearest
  <2> HIDE DEF ns
  <2> QED
    BY <2>1, <2>2
<1>4. u.sec \in Int /\ u.nsec \in 0..(Giga - 1) /\ u.sec * Giga + u.nsec = f.whole * Giga + ns
  <2> HIDE DEF ns
  <2> QED
    BY <1>3, UnixIsExact
<1>5. f.whole \in -Convertible..Convertible
  <2>1. Convertible \in Int
    BY EpochAssumption DEF Convertible
  <2> QED
    BY <1>1, <2>1 DEF Magnitude
<1> HIDE DEF u, ns
<1>6. 2 * Error(f, u) \in -1000..1000
  <2>1. PICK whole \in Int, frac \in Int, giga \in Int :
            whole = f.whole /\ frac = f.frac /\ giga = Giga
    BY OneSecondIsAUnit
  <2>2. PICK g \in Int : g = whole * giga /\ 1000 * whole * giga = 1000 * g
    OBVIOUS
  <2>3. Since(u) = g + ns /\ 2 * (1000 * ns - frac) \in -1000..1000
    BY <1>3, <1>4, <2>1, <2>2 DEF Since
  <2>4. 1000 * (g + ns) - (1000 * g + frac) = 1000 * ns - frac
    BY <1>3
  <2>5. Error(f, u) = 1000 * (g + ns) - (1000 * g + frac)
    <3>1. Error(f, u) = Off(g + ns, whole, frac)
      BY <2>1, <2>3 DEF Error
    <3>2. Off(g + ns, whole, frac) = 1000 * (g + ns) - (1000 * g + frac)
      BY <2>1, <2>2 DEF Off
    <3> QED
      BY <3>1, <3>2
  <2> QED
    BY <2>3, <2>4, <2>5
<1>7. IsInstant(u)
  BY <1>2, <1>4 DEF IsInstant
<1>8. 2 * Error(f, FromSeconds(f).at) \in -1000..1000
  BY <1>2, <1>6
<1>9. IsInstant(FromSeconds(f).at)
  BY <1>2, <1>7
<1>10. ~f.nan /\ f.whole \in -Convertible..Convertible
  BY <1>1, <1>5
<1> QED
  BY <1>8, <1>9, <1>10

-----------------------------------------------------------------------------
\* Powers of ten and lengths in bits.

\* There are functions that multiply from one number to the next.
LEMMA PowersExist ==
    ASSUME NEW c \in Nat
    PROVE  \E f : f = [n \in Nat |-> IF n = 0 THEN 1 ELSE c * f[n - 1]]
<1> DEFINE step == [n \in Nat |-> [p \in Nat |-> c * p]]
           less == [n \in Nat |-> n - 1]
<1>1. step \in [Nat -> [Nat -> Nat]] /\ \A n, p \in Nat : step[n][p] = c * p
    OBVIOUS
<1>2. \A n \in Nat \ {0} : less[n] = n - 1 /\ less[n] \in Nat /\ less[n] < n
    OBVIOUS
<1> HIDE DEF step, less
<1>3. PICK f \in [Nat -> Nat] : \A n \in Nat : Recurs(f, 1, step, less, n)
    BY <1>1, <1>2, NatRecursion
<1>4. SUFFICES ASSUME NEW n \in Nat
               PROVE  f[n] = IF n = 0 THEN 1 ELSE c * f[n - 1]
    BY <1>3
<1>5. Recurs(f, 1, step, less, n)
    BY <1>3
<1>6. n # 0 => f[less[n]] \in Nat /\ f[less[n]] = f[n - 1]
    BY <1>2, <1>3
<1>7. n # 0 => step[n][f[less[n]]] = c * f[less[n]]
    BY <1>1, <1>6
<1> QED
    BY <1>5, <1>6, <1>7 DEF Recurs

\* They are powers: positive, and the power of a sum is the product.
IsPower(f, c) == f[0] = 1 /\ \A n \in Nat : f[n] \in Nat \ {0} /\ f[n + 1] = c * f[n]

LEMMA PowersMultiply ==
    ASSUME NEW c \in Nat \ {0}, NEW f,
           f = [n \in Nat |-> IF n = 0 THEN 1 ELSE c * f[n - 1]]
    PROVE  IsPower(f, c)
<1>1. f[0] = 1 /\ \A n \in Nat : n + 1 \in Nat /\ n + 1 # 0 /\ (n + 1) - 1 = n
    OBVIOUS
<1>2. \A n \in Nat : f[n + 1] = c * f[n]
    BY <1>1
<1> DEFINE S == {n \in Nat : f[n] \in Nat \ {0}}
<1>3. \A n \in Nat : n \in S
    <2>1. \A p \in Nat \ {0} : c * p \in Nat \ {0}
        OBVIOUS
    <2>2. 0 \in S /\ \A n \in Nat : n \in S => n + 1 \in S
        BY <1>1, <1>2, <2>1
    <2> HIDE DEF S
    <2> QED
        BY <2>2, NatSetInduction
<1> QED
    BY <1>1, <1>2, <1>3 DEF IsPower

LEMMA PowersGrow ==
    ASSUME NEW c \in Nat \ {0}, NEW f, IsPower(f, c), NEW m \in Nat, NEW k \in Nat
    PROVE  f[m + k] = f[m] * f[k] /\ f[m] <= f[m + k]
<1> DEFINE S == {n \in Nat : f[m + n] = f[m] * f[n]}
<1>1. 0 \in S
    BY DEF IsPower
<1>2. \A n \in Nat : n \in S => n + 1 \in S
    <2>1. SUFFICES ASSUME NEW n \in Nat, f[m + n] = f[m] * f[n]
                   PROVE  f[m + (n + 1)] = f[m] * f[n + 1]
        OBVIOUS
    <2>2. m + (n + 1) = (m + n) + 1 /\ m + n \in Nat
        OBVIOUS
    <2>3. f[m + (n + 1)] = c * f[m + n] /\ f[n + 1] = c * f[n] /\ f[m] \in Nat /\ f[n] \in Nat
        BY <2>2 DEF IsPower
    <2>4. \A x, y \in Nat : c * (x * y) = x * (c * y)
        OBVIOUS
    <2> QED
        BY <2>1, <2>3, <2>4
<1>3. \A n \in Nat : n \in S
    <2> HIDE DEF S
    <2> QED
        BY <1>1, <1>2, NatSetInduction
<1>4. f[m + k] = f[m] * f[k]
    BY <1>3
<1>5. f[m] \in Nat \ {0} /\ f[k] \in Nat \ {0}
    BY DEF IsPower
<1>6. \A x, y \in Nat \ {0} : x <= x * y
    OBVIOUS
<1> QED
    BY <1>4, <1>5, <1>6

LEMMA PowersAreOrdered ==
    ASSUME NEW c \in Nat \ {0}, NEW f, IsPower(f, c)
    PROVE  \A m, n \in Nat : m <= n => f[m] <= f[n]
<1>1. SUFFICES ASSUME NEW m \in Nat, NEW n \in Nat, m <= n
               PROVE  f[m] <= f[n]
    OBVIOUS
<1>2. PICK k \in Nat : n = m + k
    <2>1. n - m \in Nat /\ n = m + (n - m)
        BY <1>1
    <2> QED
        BY <2>1
<1>3. f[m] <= f[m + k]
    BY PowersGrow
<1> QED
    BY <1>2, <1>3

LEMMA Pow10IsPower == IsPower(Pow10, 10)
<1>1. Pow10 = [n \in Nat |-> IF n = 0 THEN 1 ELSE 10 * Pow10[n - 1]]
    BY PowersExist DEF Pow10
<1> QED
    BY <1>1, PowersMultiply

Pow2[n \in Nat] == IF n = 0 THEN 1 ELSE 2 * Pow2[n - 1]

LEMMA Pow2IsPower == IsPower(Pow2, 2)
<1>1. Pow2 = [n \in Nat |-> IF n = 0 THEN 1 ELSE 2 * Pow2[n - 1]]
    BY PowersExist DEF Pow2
<1> QED
    BY <1>1, PowersMultiply

LEMMA BitLenRecursion ==
    /\ BitLen \in [Nat -> Nat] /\ BitLen[0] = 0
    /\ \A u \in Nat \ {0} : BitLen[u] = 1 + BitLen[u \div 2]
<1> DEFINE step == [n \in Nat |-> [b \in Nat |-> 1 + b]]
           less == [n \in Nat |-> n \div 2]
<1>1. step \in [Nat -> [Nat -> Nat]] /\ \A n, p \in Nat : step[n][p] = 1 + p
    OBVIOUS
<1>2. \A n \in Nat \ {0} : less[n] = n \div 2 /\ less[n] \in Nat /\ less[n] < n
    BY SMT
<1> HIDE DEF step, less
<1>3. PICK f \in [Nat -> Nat] : \A n \in Nat : Recurs(f, 0, step, less, n)
    BY <1>1, <1>2, NatRecursion
<1>4. f = [n \in Nat |-> IF n = 0 THEN 0 ELSE 1 + f[n \div 2]]
    <2>1. SUFFICES ASSUME NEW n \in Nat
                   PROVE  f[n] = IF n = 0 THEN 0 ELSE 1 + f[n \div 2]
        BY <1>3
    <2>2. Recurs(f, 0, step, less, n)
        BY <1>3
    <2>3. n # 0 => f[less[n]] \in Nat /\ f[less[n]] = f[n \div 2]
        BY <1>2, <1>3
    <2>4. n # 0 => step[n][f[less[n]]] = 1 + f[less[n]]
        BY <1>1, <2>3
    <2> QED
        BY <2>2, <2>3, <2>4 DEF Recurs
<1>5. BitLen = [n \in Nat |-> IF n = 0 THEN 0 ELSE 1 + BitLen[n \div 2]]
    BY <1>4 DEF BitLen
<1> DEFINE S == {n \in Nat : BitLen[n] \in Nat}
<1>6. \A n \in Nat : n \in S
    <2>1. \A n \in Nat : (\A m \in Nat : m < n => m \in S) => n \in S
        BY <1>2, <1>5
    <2> HIDE DEF S
    <2> QED
        BY <2>1, NatSetStrongInduction
<1> QED
    BY <1>5, <1>6

\* A length in bits is that of the powers of two around the number.
LEMMA BitsBound ==
    ASSUME NEW u \in Nat \ {0}
    PROVE  LET b == BitLen[u]
           IN  b \in Nat \ {0} /\ Pow2[b - 1] <= u /\ u < Pow2[b]
<1> DEFINE Bound(n) == LET b == BitLen[n]
                       IN  b \in Nat \ {0} /\ Pow2[b - 1] <= n /\ n < Pow2[b]
           S == {n \in Nat : n # 0 => Bound(n)}
<1>1. \A n \in Nat : (\A m \in Nat : m < n => m \in S) => n \in S
    <2>1. SUFFICES ASSUME NEW n \in Nat \ {0}, \A m \in Nat : m < n => m \in S
                   PROVE  Bound(n)
        OBVIOUS
    <2>2. PICK h \in Nat : h = n \div 2 /\ h < n /\ (n = 2 * h \/ n = 2 * h + 1)
        BY SMT
    <2>3. BitLen[n] = 1 + BitLen[h] /\ BitLen[h] \in Nat
        BY <2>2, BitLenRecursion
    <2>4. CASE h = 0
        <3>1. n = 1 /\ BitLen[n] = 1
            BY <2>2, <2>3, <2>4, BitLenRecursion
        <3>2. Pow2[0] = 1 /\ Pow2[0 + 1] = 2 * Pow2[0] /\ 0 + 1 = 1 /\ 1 - 1 = 0
            BY Pow2IsPower DEF IsPower
        <3> QED
            BY <3>1, <3>2
    <2>5. CASE h # 0
        <3> DEFINE b == BitLen[h]
        <3>1. b \in Nat \ {0} /\ Pow2[b - 1] <= h /\ h < Pow2[b]
            BY <2>1, <2>2, <2>5
        <3>2. BitLen[n] = b + 1
            BY <2>3
        <3> HIDE DEF b
        <3>3. Pow2[b + 1] = 2 * Pow2[b] /\ Pow2[b] = 2 * Pow2[b - 1]
            <4>1. b - 1 \in Nat /\ (b - 1) + 1 = b
                BY <3>1
            <4> QED
                BY <3>1, <4>1, Pow2IsPower DEF IsPower
        <3>4. Pow2[b] \in Nat /\ Pow2[b - 1] \in Nat
            BY <3>1, Pow2IsPower DEF IsPower
        <3>5. (b + 1) - 1 = b /\ b + 1 \in Nat \ {0}
            BY <3>1
        <3>6. Pow2[b] <= n /\ n < Pow2[b + 1]
            BY <2>2, <3>1, <3>3, <3>4
        <3> QED
            BY <3>2, <3>5, <3>6
    <2> QED
        BY <2>4, <2>5
<1>2. \A n \in Nat : n \in S
    <2> HIDE DEF S
    <2> QED
        BY <1>1, NatSetStrongInduction
<1> QED
    BY <1>2

\* Ten bits are a little more than three digits, and in the 63 bits of an int64 the
\* excess stays below what the estimate is corrected by.
LEMMA TenBitsAreThreeDigits ==
    ASSUME NEW k \in 0..6
    PROVE  Pow10[3 * k] <= Pow2[10 * k] /\ 100 * Pow2[10 * k] <= 118 * Pow10[3 * k]
<1> DEFINE Close(i) == /\ Pow10[3 * i] <= Pow2[10 * i]
                       /\ 100 * Pow2[10 * i] <= (100 + 3 * i) * Pow10[3 * i]
           S == {i \in Nat : i <= 6 => Close(i)}
<1>1. Pow2[0] = 1 /\ Pow10[0] = 1
    BY Pow2IsPower, Pow10IsPower DEF IsPower
<1>2. \A n \in Nat : /\ Pow2[n + 10] = 1024 * Pow2[n] /\ Pow2[n] \in Nat
                       /\ Pow10[n + 3] = 1000 * Pow10[n] /\ Pow10[n] \in Nat
    <2>1. SUFFICES ASSUME NEW n \in Nat
                   PROVE  Pow2[n + 10] = 1024 * Pow2[n] /\ Pow10[n + 3] = 1000 * Pow10[n]
        BY Pow2IsPower, Pow10IsPower DEF IsPower
    <2>2. Pow2[n + 5] = 32 * Pow2[n]
        <3>1. n + 2 = (n + 1) + 1 /\ n + 3 = (n + 2) + 1 /\ n + 4 = (n + 3) + 1 /\ n + 5 = (n + 4) + 1
            OBVIOUS
        <3> QED
            BY <3>1, Pow2IsPower DEF IsPower
    <2>3. Pow2[n + 10] = 32 * Pow2[n + 5]
        <3>1. /\ n + 6 = (n + 5) + 1 /\ n + 7 = (n + 6) + 1 /\ n + 8 = (n + 7) + 1
              /\ n + 9 = (n + 8) + 1 /\ n + 10 = (n + 9) + 1
            OBVIOUS
        <3> QED
            BY <3>1, Pow2IsPower DEF IsPower
    <2>4. Pow10[n + 3] = 1000 * Pow10[n]
        <3>1. n + 2 = (n + 1) + 1 /\ n + 3 = (n + 2) + 1
            OBVIOUS
        <3> QED
            BY <3>1, Pow10IsPower DEF IsPower
    <2> QED
        BY <2>2, <2>3, <2>4, Pow2IsPower DEF IsPower
<1>3. \A i \in Nat : i \in S => i + 1 \in S
    <2>1. SUFFICES ASSUME NEW i \in Nat, i + 1 <= 6, Close(i)
                   PROVE  Close(i + 1)
        OBVIOUS
    <2>2. /\ 10 * (i + 1) = 10 * i + 10 /\ 10 * i \in Nat
          /\ 3 * (i + 1) = 3 * i + 3 /\ 3 * i \in Nat
        OBVIOUS
    <2>3. PICK x \in Nat, y \in Nat :
              /\ x = Pow2[10 * i] /\ Pow2[10 * (i + 1)] = 1024 * x
              /\ y = Pow10[3 * i] /\ Pow10[3 * (i + 1)] = 1000 * y
        <3> DEFINE m == 10 * i
                   n == 3 * i
        <3>1. m \in Nat /\ n \in Nat /\ 10 * (i + 1) = m + 10 /\ 3 * (i + 1) = n + 3
            BY <2>2
        <3> HIDE DEF m, n
        <3>2. Pow2[m + 10] = 1024 * Pow2[m] /\ Pow2[m] \in Nat
            BY <1>2, <3>1
        <3>3. Pow10[n + 3] = 1000 * Pow10[n] /\ Pow10[n] \in Nat
            BY <1>2, <3>1
        <3> QED
            BY <3>1, <3>2, <3>3 DEF m, n
    <2>4. y <= x /\ 100 * x <= (100 + 3 * i) * y
        BY <2>1, <2>3
    <2>5. i \in {0, 1, 2, 3, 4, 5}
        BY <2>1
    <2>6. 100 * (1024 * x) <= (100 + 3 * (i + 1)) * (1000 * y)
        BY <2>4, <2>5, SMT
    <2> QED
        BY <2>3, <2>4, <2>6
<1>4. \A i \in Nat : i \in S
    <2>1. 0 \in S
        BY <1>1
    <2> HIDE DEF S
    <2> QED
        BY <1>3, <2>1, NatSetInduction
<1>5. Close(k) /\ Pow10[3 * k] \in Nat /\ 100 + 3 * k <= 118
    <2>1. k \in Nat /\ k <= 6 /\ 3 * k \in Nat /\ 100 + 3 * k <= 118
        OBVIOUS
    <2>2. Pow10[3 * k] \in Nat
        BY <2>1, Pow10IsPower DEF IsPower
    <2> HIDE DEF Close
    <2> QED
        BY <1>4, <2>1, <2>2
<1>6. (100 + 3 * k) * Pow10[3 * k] <= 118 * Pow10[3 * k]
    <2>1. \A x, y, z \in Nat : y <= z => y * x <= z * x
        OBVIOUS
    <2> QED
        BY <1>5, <2>1
<1>7. (100 + 3 * k) * Pow10[3 * k] \in Nat /\ Pow2[10 * k] \in Nat
    BY <1>2, <1>5
<1> QED
    BY <1>5, <1>6, <1>7

\* So a number of b bits has as many digits as the estimate says, or one more.
LEMMA EstimateIsClose ==
    ASSUME NEW b \in 1..63
    PROVE  LET d == (b * 1233) \div 4096
           IN  /\ d \in 0..18 /\ Pow2[b] <= Pow10[d + 1]
               /\ d > 0 => Pow10[d - 1] <= Pow2[b - 1]
<1> DEFINE d == (b * 1233) \div 4096
<1>1. PICK k \in 0..6, r \in 0..9 : b = 10 * k + r /\ (k = 6 => r <= 3)
    <2>1. b = 10 * (b \div 10) + (b % 10) /\ b \div 10 \in 0..6 /\ b % 10 \in 0..9
        BY SMT
    <2> QED
        BY <2>1
<1>2. PICK j \in 0..2 : d = 3 * k + j /\ r <= 3 * j + 3 /\ (j > 0 => r >= 3 * j + 1)
    <2>1. r \in 0..3 => d = 3 * k
        BY <1>1, SMT
    <2>2. r \in 4..6 => d = 3 * k + 1
        BY <1>1, SMT
    <2>3. r \in 7..9 => d = 3 * k + 2
        BY <1>1, SMT
    <2> HIDE DEF d
    <2>4. r \in 0..3 \/ r \in 4..6 \/ r \in 7..9
        OBVIOUS
    <2>5. r \in 0..3 => 0 \in 0..2 /\ d = 3 * k + 0 /\ r <= 3 * 0 + 3
        BY <2>1
    <2> QED
        BY <2>2, <2>3, <2>4, <2>5
<1> HIDE DEF d
<1> DEFINE x == Pow2[10 * k]
           y == Pow10[3 * k]
<1>3. x \in Nat /\ y \in Nat /\ y <= x /\ 100 * x <= 118 * y
    BY TenBitsAreThreeDigits, Pow2IsPower, Pow10IsPower DEF IsPower
<1>4. /\ Pow2[10 * k + 3] = 8 * x /\ Pow2[10 * k + 6] = 64 * x /\ Pow2[10 * k + 9] = 512 * x
      /\ Pow2[10 * k + 4] = 16 * x /\ Pow2[10 * k + 7] = 128 * x
    <2> DEFINE n == 10 * k
    <2>1. n \in Nat
        OBVIOUS
    <2> HIDE DEF n
    <2>2. /\ n + 2 = (n + 1) + 1 /\ n + 3 = (n + 2) + 1 /\ n + 4 = (n + 3) + 1
          /\ n + 5 = (n + 4) + 1 /\ n + 6 = (n + 5) + 1 /\ n + 7 = (n + 6) + 1
          /\ n + 8 = (n + 7) + 1 /\ n + 9 = (n + 8) + 1
        BY <2>1
    <2>3. \A m \in Nat : Pow2[m + 1] = 2 * Pow2[m] /\ Pow2[m] \in Nat
        BY Pow2IsPower DEF IsPower
    <2>4. Pow2[n + 3] = 8 * Pow2[n] /\ Pow2[n + 4] = 16 * Pow2[n]
        BY <2>1, <2>2, <2>3
    <2>5. Pow2[n + 5] = 2 * Pow2[n + 4] /\ Pow2[n + 6] = 2 * Pow2[n + 5] /\ Pow2[n + 7] = 2 * Pow2[n + 6]
        BY <2>1, <2>2, <2>3
    <2>6. Pow2[n + 8] = 2 * Pow2[n + 7] /\ Pow2[n + 9] = 2 * Pow2[n + 8]
        BY <2>1, <2>2, <2>3
    <2> QED
        BY <2>1, <2>3, <2>4, <2>5, <2>6 DEF n
<1>5. Pow10[3 * k + 1] = 10 * y /\ Pow10[3 * k + 2] = 100 * y /\ Pow10[3 * k + 3] = 1000 * y
    <2>1. /\ 3 * k \in Nat /\ 3 * k + 2 = (3 * k + 1) + 1 /\ 3 * k + 3 = (3 * k + 2) + 1
        OBVIOUS
    <2> QED
        BY <1>3, <2>1, Pow10IsPower DEF IsPower
<1>6. \A m, n \in Nat : m <= n => Pow2[m] <= Pow2[n]
    BY Pow2IsPower, PowersAreOrdered
<1>7. Pow2[b] <= Pow2[10 * k + (3 * j + 3)]
    BY <1>1, <1>2, <1>6
<1>8. Pow2[10 * k + (IF j = 0 THEN 0 ELSE 3 * j + 1)] <= Pow2[b]
    BY <1>1, <1>2, <1>6
<1>9. Pow2[b] \in Nat /\ Pow2[b] <= Pow10[d + 1]
    <2>1. CASE j = 0
        BY <1>2, <1>3, <1>4, <1>5, <1>7, <2>1, Pow2IsPower DEF IsPower
    <2>2. CASE j = 1
        BY <1>2, <1>3, <1>4, <1>5, <1>7, <2>2, Pow2IsPower DEF IsPower
    <2>3. CASE j = 2
        BY <1>2, <1>3, <1>4, <1>5, <1>7, <2>3, Pow2IsPower DEF IsPower
    <2> QED
        BY <2>1, <2>2, <2>3
<1>10. Pow10[d] <= 5 * Pow2[b]
    <2>1. CASE j = 0
        BY <1>2, <1>3, <1>8, <1>9, <2>1
    <2>2. CASE j = 1
        BY <1>2, <1>3, <1>4, <1>5, <1>8, <1>9, <2>2
    <2>3. CASE j = 2
        BY <1>2, <1>3, <1>4, <1>5, <1>8, <1>9, <2>3
    <2> QED
        BY <2>1, <2>2, <2>3
<1>11. d > 0 => Pow10[d - 1] <= Pow2[b - 1]
    <2>1. SUFFICES ASSUME d > 0
                   PROVE  Pow10[d - 1] <= Pow2[b - 1]
        OBVIOUS
    <2>2. d - 1 \in Nat /\ (d - 1) + 1 = d /\ b - 1 \in Nat /\ (b - 1) + 1 = b
        BY <1>2, <2>1
    <2>3. /\ Pow10[d] = 10 * Pow10[d - 1] /\ Pow10[d - 1] \in Nat
          /\ Pow2[b] = 2 * Pow2[b - 1] /\ Pow2[b - 1] \in Nat
        BY <2>2, Pow2IsPower, Pow10IsPower DEF IsPower
    <2> QED
        BY <1>10, <2>3
<1>12. d \in 0..18
    BY <1>1, <1>2
<1> QED
    BY <1>9, <1>11, <1>12 DEF d

-----------------------------------------------------------------------------
\* Digits.

\* Does u have w digits?
HasDigits(u, w) == u < Pow10[w] /\ (w = 1 \/ u >= Pow10[w - 1])

\* No number has two widths.
LEMMA DigitsAreUnique ==
    ASSUME NEW u \in Nat, NEW v \in Nat \ {0}, NEW w \in Nat \ {0},
           HasDigits(u, v), HasDigits(u, w)
    PROVE  v = w
<1>1. \A i, j \in Nat \ {0} : HasDigits(u, i) /\ HasDigits(u, j) => ~(i < j)
    <2>1. SUFFICES ASSUME NEW i \in Nat \ {0}, NEW j \in Nat \ {0},
                          HasDigits(u, i), HasDigits(u, j), i < j
                   PROVE  FALSE
        OBVIOUS
    <2>2. i \in Nat /\ j - 1 \in Nat /\ i <= j - 1 /\ j # 1
        BY <2>1
    <2>3. Pow10[i] <= Pow10[j - 1]
        BY <2>2, Pow10IsPower, PowersAreOrdered
    <2>4. Pow10[i] \in Nat /\ Pow10[j - 1] \in Nat
        BY <2>2, Pow10IsPower DEF IsPower
    <2> QED
        BY <2>1, <2>2, <2>3, <2>4 DEF HasDigits
<1>2. ~(v < w) /\ ~(w < v)
    BY <1>1
<1> QED
    BY <1>2

\* The estimate from the bits, once corrected, counts the digits of whatever an
\* int64 holds (digitCount).
LEMMA DigitCountCounts ==
    ASSUME NEW v \in Int, Magnitude(v) < Pow2[63]
    PROVE  DigitCount(v) \in 1..19 /\ HasDigits(Magnitude(v), DigitCount(v))
<1> DEFINE u == Magnitude(v)
           b == BitLen[u]
           d == (b * 1233) \div 4096
<1>1. u \in Nat /\ DigitCount(v) = IF u = 0 THEN 1 ELSE IF u < Pow10[d] THEN d ELSE d + 1
    BY DEF Magnitude, DigitCount
<1> HIDE DEF u
<1>2. CASE u = 0
    <2>1. Pow10[0 + 1] = 10 * Pow10[0] /\ Pow10[0] = 1 /\ 0 + 1 = 1
        BY Pow10IsPower DEF IsPower
    <2>2. u < Pow10[1]
        BY <1>2, <2>1
    <2> QED
        BY <1>1, <1>2, <2>2 DEF HasDigits, u
<1>3. CASE u # 0
    <2>1. b \in Nat \ {0} /\ Pow2[b - 1] <= u /\ u < Pow2[b]
        BY <1>1, <1>3, BitsBound
    <2>2. b \in 1..63
        <3>1. SUFFICES ASSUME b >= 64
                       PROVE  FALSE
            BY <2>1
        <3> HIDE DEF b
        <3>2. b - 1 \in Nat /\ 63 <= b - 1
            BY <2>1, <3>1
        <3>3. Pow2[63] <= Pow2[b - 1]
            BY <3>2, Pow2IsPower, PowersAreOrdered
        <3>4. Pow2[63] \in Nat /\ Pow2[b - 1] \in Nat
            BY <3>2, Pow2IsPower DEF IsPower
        <3> QED
            BY <1>1, <2>1, <3>3, <3>4 DEF u
    <2> HIDE DEF b
    <2>3. /\ d \in 0..18 /\ Pow2[b] <= Pow10[d + 1]
          /\ d > 0 => Pow10[d - 1] <= Pow2[b - 1]
        BY <2>2, EstimateIsClose
    <2> HIDE DEF d
    <2>4. Pow10[d] \in Nat /\ Pow10[d + 1] \in Nat /\ Pow10[0] = 1 /\ (d > 0 => Pow10[d - 1] \in Nat)
        BY <2>3, Pow10IsPower DEF IsPower
    <2>5. Pow2[b] \in Nat /\ Pow2[b - 1] \in Nat
        BY <2>2, Pow2IsPower DEF IsPower
    <2>6. CASE u < Pow10[d]
        <3>1. d > 0
            BY <1>1, <1>3, <2>3, <2>4, <2>6
        <3>2. DigitCount(v) = d /\ d \in 1..19
            BY <1>1, <1>3, <2>3, <2>6, <3>1
        <3>3. u >= Pow10[d - 1]
            BY <1>1, <2>1, <2>3, <2>4, <2>5, <3>1
        <3> QED
            BY <2>6, <3>2, <3>3 DEF HasDigits, u
    <2>7. CASE ~(u < Pow10[d])
        <3>1. DigitCount(v) = d + 1 /\ d + 1 \in 1..19 /\ (d + 1) - 1 = d
            BY <1>1, <1>3, <2>3, <2>7
        <3>2. u < Pow10[d + 1] /\ u >= Pow10[d]
            BY <1>1, <2>1, <2>3, <2>4, <2>5, <2>7
        <3> QED
            BY <3>1, <3>2 DEF HasDigits, u
    <2> QED
        BY <2>6, <2>7
<1> QED
    BY <1>2, <1>3

LEMMA WidthIsDigitCount ==
    ASSUME NEW v \in Int, Magnitude(v) < Pow2[63]
    PROVE  WidthOf(v) = DigitCount(v) /\ DigitCount(v) \in 1..19
<1>1. DigitCount(v) \in 1..19 /\ HasDigits(Magnitude(v), DigitCount(v))
    BY DigitCountCounts
<1>2. WidthOf(v) = CHOOSE w \in 1..19 : HasDigits(Magnitude(v), w)
    BY DEF WidthOf, HasDigits
<1>3. WidthOf(v) \in 1..19 /\ HasDigits(Magnitude(v), WidthOf(v))
    BY <1>1, <1>2
<1>4. Magnitude(v) \in Nat
    BY DEF Magnitude
<1>5. WidthOf(v) \in Nat \ {0} /\ DigitCount(v) \in Nat \ {0}
    BY <1>1, <1>3
<1> QED
    BY <1>1, <1>3, <1>4, <1>5, DigitsAreUnique

\* A step to the next precision is a power of ten, and so are two and three.
LEMMA StepsArePowers ==
    /\ Pow10[1 * StepDigits] = Step /\ Pow10[2 * StepDigits] = Step * Step
    /\ Pow10[3 * StepDigits] = Step * Step * Step
<1>1. StepDigits \in Nat \ {0} /\ Step \in Nat \ {0} /\ Step = Pow10[StepDigits]
    BY EpochAssumption, StepAssumption
<1>2. /\ 1 * StepDigits = StepDigits /\ 2 * StepDigits = StepDigits + StepDigits
      /\ 3 * StepDigits = (StepDigits + StepDigits) + StepDigits
      /\ StepDigits + StepDigits \in Nat /\ StepDigits \in Nat
    BY <1>1
<1>3. Pow10[StepDigits + StepDigits] = Pow10[StepDigits] * Pow10[StepDigits]
    BY SMTT(30), <1>2, Pow10IsPower, PowersGrow
<1>4. Pow10[(StepDigits + StepDigits) + StepDigits]
          = Pow10[StepDigits + StepDigits] * Pow10[StepDigits]
    BY <1>2, Pow10IsPower, PowersGrow
<1> QED
    BY <1>1, <1>2, <1>3, <1>4

\* The unit a width names by the powers of ten is the one the code names by its
\* step from one precision to the next.
LEMMA UnitsAreNamed ==
    ASSUME NEW w \in Nat
    PROVE  UnitNamed(w) = PrecisionFor(w)
<1>1. SecDigits \in Nat \ {0} /\ StepDigits \in Nat \ {0} /\ Step \in Nat \ {0} /\ Step = Pow10[StepDigits]
    BY EpochAssumption, StepAssumption
<1>2. /\ Pow10[1 * StepDigits] = Step /\ Pow10[2 * StepDigits] = Step * Step
      /\ Pow10[3 * StepDigits] = Step * Step * Step
    BY StepsArePowers
<1>3. CASE w \in SecDigits..(SecDigits + StepDigits - 1)
    <2>1. /\ w # SecDigits + 3 * StepDigits /\ w # SecDigits + 2 * StepDigits
          /\ w # SecDigits + StepDigits
        BY <1>1, <1>3
    <2>2. PrecisionFor(w) = 1
        BY <1>3, <2>1 DEF PrecisionFor
    <2>3. \A k \in 1..3 : w # SecDigits + k * StepDigits
        BY <1>1, <2>1
    <2>4. UnitNamed(w) = 1
        BY <1>3, <2>3 DEF UnitNamed
    <2> QED
        BY <2>2, <2>4
<1>4. ASSUME NEW k \in 1..3, w = SecDigits + k * StepDigits
      PROVE  UnitNamed(w) = PrecisionFor(w)
    <2>1. w \notin SecDigits..(SecDigits + StepDigits - 1) /\ w - SecDigits = k * StepDigits
        BY <1>1, <1>4
    <2>2. UnitNamed(w) = Pow10[k * StepDigits]
        BY <1>4, <2>1 DEF UnitNamed
    <2>3. CASE k = 1
        <3>1. w = SecDigits + StepDigits /\ w # SecDigits + 3 * StepDigits /\ w # SecDigits + 2 * StepDigits
            BY <1>1, <1>4, <2>3
        <3>2. PrecisionFor(w) = Step
            BY <2>1, <3>1 DEF PrecisionFor
        <3> QED
            BY <1>2, <2>1, <2>2, <2>3, <3>1, <3>2
    <2>4. CASE k = 2
        <3>1. w = SecDigits + 2 * StepDigits /\ w # SecDigits + 3 * StepDigits /\ w # SecDigits + StepDigits
            BY <1>1, <1>4, <2>4
        <3>2. PrecisionFor(w) = Step * Step
            BY <2>1, <3>1 DEF PrecisionFor
        <3> QED
            BY <1>2, <2>1, <2>2, <2>4, <3>1, <3>2
    <2>5. CASE k = 3
        <3>1. w = SecDigits + 3 * StepDigits /\ w # SecDigits + 2 * StepDigits /\ w # SecDigits + StepDigits
            BY <1>1, <1>4, <2>5
        <3>2. PrecisionFor(w) = Step * Step * Step
            BY <2>1, <3>1 DEF PrecisionFor
        <3> QED
            BY <1>2, <2>1, <2>2, <2>5, <3>1, <3>2
    <2> QED
        BY <2>3, <2>4, <2>5
<1>5. CASE /\ w \notin SecDigits..(SecDigits + StepDigits - 1)
           /\ \A k \in 1..3 : w # SecDigits + k * StepDigits
    <2>1. UnitNamed(w) = NoPrecision
        BY <1>5 DEF UnitNamed
    <2>2. /\ w # SecDigits + 3 * StepDigits /\ w # SecDigits + 2 * StepDigits
          /\ w # SecDigits + StepDigits
        BY <1>1, <1>5
    <2> QED
        BY <1>5, <2>1, <2>2 DEF PrecisionFor
<1> QED
    BY <1>3, <1>4, <1>5

-----------------------------------------------------------------------------
\* Answers, as the instants a count is meant to be.

\* A count of units is split and put together again as the instant so many units
\* after the epoch.
LEMMA SplitIsCounted ==
    ASSUME NEW v \in Int, NEW unit \in Nat \ {0}, NEW k \in Nat \ {0}, Giga = unit * k
    PROVE  WithinRange(Split(v, unit)) = Counted(v, unit)
<1>1. Unix(Split(v, unit)) = [sec |-> v \div unit, nsec |-> (v % unit) * k]
    BY SplitIsExact
<1>2. Giga \div unit = k
    <2>1. Giga = unit * k + 0 /\ 0 \in 0..(unit - 1) /\ Giga \in Int
        OBVIOUS
    <2> QED
        BY <2>1, DivisionIsUnique
<1> DEFINE q == v \div unit
           r == (v % unit) * k
<1>3. Counted(v, unit) = Instant(q, r)
    BY <1>2 DEF Counted
<1>4. Unix(Split(v, unit)) = [sec |-> q, nsec |-> r]
    BY <1>1
<1> HIDE DEF q, r
<1> QED
    BY <1>3, <1>4 DEF WithinRange, Instant

\* Digits are read as what they mean.
LEMMA IntegersMean ==
    ASSUME NEW neg \in BOOLEAN, NEW n, n.v \in Nat, n.w \in Nat
    PROVE  ParseInteger(neg, n) = IntegerMeant(neg, n.v, n.w)
<1> DEFINE unit == PrecisionFor(n.w)
           val  == Signed(neg, n.v)
<1>1. UnitNamed(n.w) = unit
    BY UnitsAreNamed
<1>2. CASE unit # NoPrecision /\ n.v <= MaxInt
    <2>1. unit \in Nat \ {0} /\ \E k \in Nat \ {0} : Giga = unit * k
        BY <1>2, UnitsDivideTheSecond
    <2>2. val \in Int /\ val = IF neg THEN -n.v ELSE n.v
        BY DEF Signed
    <2>3. ParseInteger(neg, n) = WithinRange(Split(val, unit))
        BY <1>2 DEF ParseInteger, ParseInt
    <2>4. IntegerMeant(neg, n.v, n.w) = Counted(val, unit)
        <3>1. MaxInt \in Nat /\ ~(n.v > MaxInt)
            BY <1>2, EpochAssumption
        <3> QED
            BY <1>1, <1>2, <2>2, <3>1 DEF IntegerMeant
    <2> HIDE DEF unit, val
    <2> QED
        BY <2>1, <2>2, <2>3, <2>4, SplitIsCounted
<1>3. CASE ~(unit # NoPrecision /\ n.v <= MaxInt)
    <2>1. ParseInteger(neg, n) = NoInstant
        BY <1>3 DEF ParseInteger, ParseInt, NoInstant
    <2>2. n.v > MaxInt \/ unit = NoPrecision
        BY <1>3, EpochAssumption
    <2> QED
        BY <1>1, <2>1, <2>2 DEF IntegerMeant
<1> QED
    BY <1>2, <1>3

LEMMA IntegersFit == MaxInt < Pow2[63]
<1>1. MaxInt \in Nat /\ BitLen[MaxInt] <= 63 /\ Pow2[63] \in Nat \ {0}
    BY EpochAssumption, Int64Assumption, Pow2IsPower DEF IsPower
<1>2. CASE MaxInt # 0
    <2>1. BitLen[MaxInt] \in Nat /\ MaxInt < Pow2[BitLen[MaxInt]]
        BY <1>1, <1>2, BitsBound
    <2>2. Pow2[BitLen[MaxInt]] <= Pow2[63]
        BY <1>1, <2>1, Pow2IsPower, PowersAreOrdered
    <2>3. Pow2[BitLen[MaxInt]] \in Nat
        BY <2>1, Pow2IsPower DEF IsPower
    <2> QED
        BY <1>1, <2>1, <2>2, <2>3
<1> QED
    BY <1>1, <1>2

\* A typed integer is read as the digits it would be written with.
LEMMA TypedIntegersMean ==
    ASSUME NEW v \in MinInt..MaxInt
    PROVE  FromInt(v) = IF WidthOf(v) < SecDigits THEN Counted(v, 1)
                        ELSE IntegerMeant(v < 0, Magnitude(v), WidthOf(v))
<1> DEFINE w == WidthOf(v)
           unit == PrecisionFor(w)
<1>1. MaxInt \in Nat /\ MaxSeconds \in Nat /\ SecDigits \in Nat \ {0} /\ StepDigits \in Nat \ {0}
    BY EpochAssumption
<1>2. v \in Int /\ v <= MaxInt /\ v >= -MaxInt - 1 /\ MinInt = -MaxInt - 1
    BY <1>1 DEF MinInt
<1>3. CASE v = MinInt
    <2>1. FromInt(v) = NoInstant
        BY <1>3 DEF FromInt
    <2>2. Counted(v, 1) = NoInstant
        <3>1. v = 1 * v + 0 /\ 0 \in 0..(1 - 1) /\ 1 \in Nat \ {0}
            BY <1>2
        <3>2. v \div 1 = v
            BY <1>2, <3>1, DivisionIsUnique
        <3>3. ~InRange(v)
            BY <1>1, <1>2, <1>3, Int64Assumption DEF InRange
        <3> QED
            BY <3>2, <3>3 DEF Counted, Instant
    <2>3. IntegerMeant(v < 0, Magnitude(v), w) = NoInstant
        <3>1. Magnitude(v) > MaxInt
            BY <1>1, <1>2, <1>3 DEF Magnitude
        <3> QED
            BY <3>1 DEF IntegerMeant
    <2> QED
        BY <2>1, <2>2, <2>3
<1>4. CASE v # MinInt
    <2>1. Magnitude(v) \in Nat /\ Magnitude(v) <= MaxInt /\ v = IF v < 0 THEN -Magnitude(v) ELSE Magnitude(v)
        BY <1>1, <1>2, <1>4 DEF Magnitude
    <2>2. Magnitude(v) < Pow2[63]
        <3>1. Pow2[63] \in Nat
            BY Pow2IsPower DEF IsPower
        <3> QED
            BY <1>1, <2>1, <3>1, IntegersFit
    <2>3. w = DigitCount(v) /\ w \in Nat
        BY <1>2, <2>2, WidthIsDigitCount
    <2>4. FromInt(v) = IF unit = NoPrecision /\ w >= SecDigits THEN NoInstant
                       ELSE WithinRange(Split(v, IF unit = NoPrecision THEN 1 ELSE unit))
        BY <1>4, <2>3 DEF FromInt
    <2>5. UnitNamed(w) = unit
        BY <2>3, UnitsAreNamed
    <2>6. IntegerMeant(v < 0, Magnitude(v), w) = IF unit = NoPrecision THEN NoInstant ELSE Counted(v, unit)
        <3>1. ~(Magnitude(v) > MaxInt)
            BY <1>1, <2>1
        <3> QED
            BY <2>1, <2>5, <3>1 DEF IntegerMeant
    <2>7. w < SecDigits => unit = NoPrecision
        <3>1. w < SecDigits => /\ w # SecDigits + 3 * StepDigits /\ w # SecDigits + 2 * StepDigits
                               /\ w # SecDigits + StepDigits
                               /\ w \notin SecDigits..(SecDigits + StepDigits - 1)
            BY <1>1, <2>3
        <3> QED
            BY <3>1 DEF PrecisionFor
    <2>8. WithinRange(Split(v, 1)) = Counted(v, 1)
        BY <1>2, OneSecondIsAUnit, SplitIsCounted
    <2>9. unit # NoPrecision => WithinRange(Split(v, unit)) = Counted(v, unit)
        BY <1>2, UnitsDivideTheSecond, SplitIsCounted
    <2>10. w < SecDigits \/ w >= SecDigits
        BY <1>1, <2>3
    <2> HIDE DEF w, unit
    <2>11. CASE w < SecDigits
        <3>1. ~(w >= SecDigits)
            BY <1>1, <2>3, <2>11
        <3> QED
            BY <2>4, <2>7, <2>8, <2>11, <3>1 DEF w
    <2>12. CASE w >= SecDigits
        <3>1. ~(w < SecDigits)
            BY <1>1, <2>3, <2>12
        <3> QED
            BY <2>4, <2>6, <2>9, <2>12, <3>1 DEF w
    <2> QED
        BY <2>10, <2>11, <2>12
<1> QED
    BY <1>3, <1>4

\* Whatever integers are asked about, each is answered as the digits it would be
\* written with, and as seconds where they are too few to name a precision
\* (FromInt, digitCount): the estimate from the bits is right at every power of
\* ten.
THEOREM TypedAsWrittenAlways == FallbackSpec => []TypedAsWritten
<1>1. FallbackInit => TypedAsWritten
    BY DEF FallbackInit, TypedAsWritten, Unasked
<1>2. ASSUME TypedAsWritten, [FallbackNext]_fallbackVars
      PROVE  TypedAsWritten'
    <2>1. CASE GoOn
        BY <2>1 DEF GoOn, TypedAsWritten, Unasked
    <2>2. CASE Ask \/ AskTomorrow
        BY <2>2 DEF Ask, AskTomorrow, AskedOf, TypedAsWritten
    <2>3. CASE AskWritten
        BY <2>3 DEF AskWritten, AskNumber, TypedAsWritten
    <2>4. CASE AskFloat
        BY <2>4 DEF AskFloat, AskNumber, TypedAsWritten
    <2>5. CASE AskTyped
        <3>1. PICK v \in Typed : asked' = [what |-> "typed", n |-> v, answer |-> FromInt(v)]
            BY <2>5 DEF AskTyped, AskNumber
        <3>2. FromInt(v) = IF WidthOf(v) < SecDigits THEN Counted(v, 1)
                           ELSE IntegerMeant(v < 0, Magnitude(v), WidthOf(v))
            BY NumbersAssumption, TypedIntegersMean
        <3> QED
            BY <3>1, <3>2 DEF TypedAsWritten
    <2>6. CASE UNCHANGED fallbackVars
        BY <1>2, <2>6 DEF fallbackVars, TypedAsWritten
    <2> QED
        BY <1>2, <2>1, <2>2, <2>3, <2>4, <2>5, <2>6 DEF FallbackNext
<1> QED
    BY <1>1, <1>2, PTL DEF FallbackSpec

-----------------------------------------------------------------------------
\* A text without a word.

\* The digit runs and single bytes of a text that spells no word.
Wordless(s) == \A i \in DOMAIN s : s[i].t \in {"num", "byte"} /\ s[i].w \in Nat

\* A number that no word follows is a number, a time or unknown.
LEMMA NumbersAreMeaningless ==
    ASSUME NEW X, NEW s \in Seq(X), Wordless(s), NEW i \in 1..Len(s)
    PROVE  LET r == ScanNumber(s, i)
           IN  r.tok.kind \in Meaningless /\ r.next \in (i + 1)..(Len(s) + 1)
<1>1. \A j \in Int : MeridiemAt(s, j) = "none" /\ ~IsOrdinalSuffix(s, j)
    <2>1. \A j \in Int : \A c, w : IsAt(s, j, Word(c, w)) => FALSE
        BY DEF IsAt, Word, Wordless
    <2> QED
        BY <2>1 DEF MeridiemAt, IsOrdinalSuffix
<1>2. /\ IsTimePattern(s, i) => i + 2 \in 1..Len(s)
      /\ i \in Int /\ i + 1 \in Int /\ i + 3 \in Int /\ s[i].w \in Nat
      /\ Len(s) \in Nat
    BY DEF IsTimePattern, Wordless
<1>3. CASE s[i].w > MaxQuantityDigits
    <2>1. ScanNumber(s, i) = Scanned(Unknown(<<s[i]>>), i + 1)
        BY <1>2, <1>3 DEF ScanNumber, MaxQuantityDigits
    <2> QED
        BY <1>2, <2>1 DEF Scanned, Unknown, Token, Meaningless
<1>4. CASE s[i].w <= MaxQuantityDigits /\ IsTimePattern(s, i)
    <2>1. ScanNumber(s, i) = TimeRead(s, i, s[i + 2].v, "none", i + 2)
        BY <1>1, <1>2, <1>4 DEF ScanNumber, MaxQuantityDigits
    <2>2. ScanNumber(s, i).tok.kind = "Time" /\ ScanNumber(s, i).next = i + 3
        BY <1>2, <2>1 DEF TimeRead, Scanned, Token
    <2> QED
        BY <1>2, <1>4, <2>2 DEF Meaningless
<1>5. CASE s[i].w <= MaxQuantityDigits /\ ~IsTimePattern(s, i)
    <2>1. ScanNumber(s, i) = NumberRead(s, i, i)
        BY <1>1, <1>2, <1>5 DEF ScanNumber, MaxQuantityDigits
    <2>2. ScanNumber(s, i).tok.kind = "Number" /\ ScanNumber(s, i).next = i + 1
        BY <2>1 DEF NumberRead, Scanned, Token
    <2> QED
        BY <1>2, <2>2 DEF Meaningless
<1>6. s[i].w > MaxQuantityDigits \/ s[i].w <= MaxQuantityDigits
    BY <1>2 DEF MaxQuantityDigits
<1> QED
    BY <1>3, <1>4, <1>5, <1>6

\* So every token of such a text says nothing about time.
LEMMA WordlessScan ==
    ASSUME NEW X, NEW s \in Seq(X), Wordless(s)
    PROVE  Scan(s) \in Seq({tok \in {ScanNumber(s, i).tok : i \in 1..Len(s)} : tok.kind \in Meaningless})
<1> DEFINE n == Len(s)
           M == {tok \in {ScanNumber(s, i).tok : i \in 1..n} : tok.kind \in Meaningless}
           tok == TokensAt(s)
           next == PlaceAfter(s)
<1>1. n \in Nat /\ DOMAIN s = 1..n
    OBVIOUS
<1>2. ASSUME NEW i \in 1..n
      PROVE  next[i] \in (i + 1)..(n + 1) /\ (i \in SkippedIn(s) \/ tok[i] \in M)
    <2>1. i \in Nat /\ i <= n /\ s[i].t \in {"num", "byte"}
        BY <1>1 DEF Wordless
    <2>2. next[i] = IF IsPassedOver(s[i]) THEN i + 1 ELSE ReadAt(s, i).next
        BY DEF PlaceAfter
    <2>3. CASE s[i].t = "byte"
        <3>1. i \in SkippedIn(s)
            BY <2>3 DEF SkippedIn, IsPassedOver
        <3> HIDE DEF n, M, next
        <3> QED
            BY <1>1, <2>1, <2>2, <2>3, <3>1 DEF IsPassedOver
    <2>4. CASE s[i].t = "num"
        <3>1. ScanNumber(s, i).tok \in M /\ ScanNumber(s, i).next \in (i + 1)..(n + 1)
            BY NumbersAreMeaningless
        <3>2. tok[i] = ScanNumber(s, i).tok /\ next[i] = ScanNumber(s, i).next
            BY <2>2, <2>4 DEF TokensAt, ReadAt, IsPassedOver
        <3> QED
            BY <3>1, <3>2
    <2> QED
        BY <2>1, <2>3, <2>4
<1> HIDE DEF n, M, tok, next
<1>3. ReadsOnward(n, M, {n + 1}, Nothing(s), SkippedIn(s), tok, next)
    <2>1. Nothing(s)[n + 1] \in Seq(M)
        <3>1. n + 1 \in 1..(Len(s) + 1)
            BY <1>1 DEF n
        <3> QED
            BY <3>1 DEF Nothing
    <2>2. \A i \in 1..(n + 1) : i \notin {n + 1} => i \in 1..n
        BY <1>1
    <2> QED
        BY <1>2, <2>1, <2>2 DEF ReadsOnward
<1>4. PICK h : /\ Scan(s) = h[1]
               /\ IsRead(h, n, {n + 1}, Nothing(s), SkippedIn(s), tok, next)
    BY <1>3, ScanReads DEF n, tok, next
<1>5. h[1] \in Seq(M)
    <2>1. 1 \in 1..(n + 1)
        BY <1>1
    <2> QED
        BY <1>1, <1>3, <1>4, <2>1, ReadingIsTyped
<1> QED
    BY <1>4, <1>5 DEF M, n

\* A text without a word is no phrase, in any language and at any time.
LEMMA NoWordNoPhrase ==
    ASSUME NEW X, NEW s \in Seq(X), Wordless(s), NEW base
    PROVE  FallBackPhrase(s, Plain, base) = NotRead(<<>>)
<1> DEFINE tokens == Scan(s)
           local == [i \in DOMAIN Plain.locales |->
                        ParseBothReadings(ScanLocale(s, Tables[Plain.locales[i]]), base, FALSE)]
<1>1. \A i \in DOMAIN tokens : tokens[i].kind \in Meaningless
    <2> DEFINE M == {tok \in {ScanNumber(s, i).tok : i \in 1..Len(s)} : tok.kind \in Meaningless}
    <2>1. tokens \in Seq(M)
        BY WordlessScan
    <2> HIDE DEF tokens, M
    <2>2. \A i \in DOMAIN tokens : tokens[i] \in M
        BY <2>1
    <2>3. \A tok \in M : tok.kind \in Meaningless
        BY DEF M
    <2> QED
        BY <2>2, <2>3
<1>2. TryParse(tokens, base, FALSE) = NoAnswer
    BY <1>1 DEF TryParse
<1>3. Plain.locales = <<>> /\ Plain.future = FALSE /\ Plain.strict = FALSE
    BY DEF Plain
<1>4. DOMAIN local = {}
    BY <1>3
<1> HIDE DEF tokens, local
<1>5. FirstReading(NoAnswer, local) = NotAPhrase
    BY <1>4 DEF FirstReading
<1>6. ParsePhrase(s, Plain.locales, base, Plain.future) = NotAPhrase
    BY <1>2, <1>3, <1>5 DEF ParsePhrase, tokens, local
<1> QED
    BY <1>6 DEF FallBackPhrase, Reported, NotAPhrase

LEMMA WrittenIsWordless ==
    ASSUME NEW w \in WrittenNumbers
    PROVE  \E X : TextOf(w) \in Seq(X) /\ Wordless(TextOf(w))
<1> DEFINE X == {w.n, w.frac, Byte("."), Byte("-")}
<1>1. \A tok \in X : tok.t \in {"num", "byte"} /\ tok.w \in Nat
    BY DEF WrittenNumbers, Numerals, Byte
<1>2. TextOf(w) \in Seq(X)
    <2>1. DigitsOf(w) \in Seq(X)
        <3>1. <<w.n>> \in Seq(X) /\ <<w.n, Byte("."), w.frac>> \in Seq(X)
            OBVIOUS
        <3> QED
            BY <3>1 DEF DigitsOf
    <2>2. <<Byte("-")>> \in Seq(X)
        OBVIOUS
    <2> HIDE DEF X
    <2>3. <<Byte("-")>> \o DigitsOf(w) \in Seq(X)
        BY <2>1, <2>2
    <2> QED
        BY <2>1, <2>3 DEF TextOf
<1> HIDE DEF X
<1>3. \A s \in Seq(X) : Wordless(s)
    BY <1>1 DEF Wordless
<1> QED
    BY <1>2, <1>3

\* What is written is detected, and nothing else is made of it.
LEMMA WrittenIsDetected ==
    ASSUME NEW w \in WrittenNumbers
    PROVE  DetectEpoch(TextOf(w)) = IF w.frac.w = 0 THEN ParseInteger(w.neg, w.n)
                                    ELSE ParseFractional(w.neg, w.n, w.frac)
<1> DEFINE s == TextOf(w)
           digits == DigitsOf(w)
           kinds == [i \in DOMAIN digits |-> digits[i].t]
           kindsOf(d) == [i \in DOMAIN d |-> d[i].t]
           answer(neg, d) ==
               CASE kindsOf(d) = <<"num">> -> ParseInteger(neg, d[1])
                 [] kindsOf(d) = <<"num", "byte", "num">> /\ IsAt(d, 2, Byte(".")) ->
                        ParseFractional(neg, d[1], d[3])
                 [] OTHER -> NoInstant
<1>1. /\ w.n.t = "num" /\ w.frac.t = "num" /\ Byte(".").t = "byte" /\ w.neg \in BOOLEAN
      /\ Byte("-").t = "byte"
    BY DEF WrittenNumbers, Numerals, Byte
<1>2. \A neg \in BOOLEAN : answer(neg, digits) = IF w.frac.w = 0 THEN ParseInteger(neg, w.n)
                                    ELSE ParseFractional(neg, w.n, w.frac)
    <2>1. SUFFICES ASSUME NEW neg \in BOOLEAN
                   PROVE  answer(neg, digits) = IF w.frac.w = 0 THEN ParseInteger(neg, w.n)
                                    ELSE ParseFractional(neg, w.n, w.frac)
        OBVIOUS
    <2>2. CASE w.frac.w = 0
        <3>1. digits = <<w.n>>
            BY <2>2 DEF DigitsOf
        <3>2. kindsOf(<<w.n>>) = <<"num">>
            BY <1>1
        <3> HIDE DEF kindsOf, digits
        <3>3. digits[1] = w.n
            BY <3>1
        <3>4. <<"num">> # <<"num", "byte", "num">>
            OBVIOUS
        <3> QED
            BY <2>2, <3>1, <3>2, <3>3, <3>4
    <2>3. CASE w.frac.w # 0
        <3>1. digits = <<w.n, Byte("."), w.frac>>
            BY <2>3 DEF DigitsOf
        <3>2. kindsOf(<<w.n, Byte("."), w.frac>>) = <<"num", "byte", "num">>
            BY <1>1
        <3>3. IsAt(<<w.n, Byte("."), w.frac>>, 2, Byte("."))
            BY DEF IsAt
        <3> HIDE DEF kindsOf, digits
        <3>4. digits[1] = w.n /\ digits[3] = w.frac
            BY <3>1
        <3>5. <<"num">> # <<"num", "byte", "num">>
            OBVIOUS
        <3> QED
            BY <2>3, <3>1, <3>2, <3>3, <3>4, <3>5
    <2> QED
        BY <2>2, <2>3
<1>3. DetectEpoch(s) = LET neg == IsAt(s, 1, Byte("-"))
                       IN  answer(neg, IF neg THEN Tail(s) ELSE s)
    BY DEF DetectEpoch
<1> HIDE DEF answer
<1>4. CASE w.neg
    <2>1. s = <<Byte("-")>> \o digits
        BY <1>4 DEF TextOf
    <2>2. digits \in Seq({w.n, w.frac, Byte(".")})
        <3>1. /\ <<w.n>> \in Seq({w.n, w.frac, Byte(".")})
              /\ <<w.n, Byte("."), w.frac>> \in Seq({w.n, w.frac, Byte(".")})
            OBVIOUS
        <3> QED
            BY <3>1 DEF DigitsOf
    <2> HIDE DEF digits, s
    <2>3. IsAt(s, 1, Byte("-")) /\ Tail(s) = digits
        BY <2>1, <2>2 DEF IsAt
    <2> QED
        BY <1>1, <1>2, <1>3, <1>4, <2>3 DEF s
<1>5. CASE ~w.neg
    <2>1. s = digits
        BY <1>5 DEF TextOf
    <2>2. IsAt(s, 1, Byte("-")) = FALSE
        <3>1. digits[1] = w.n
            BY DEF DigitsOf
        <3> HIDE DEF digits, s
        <3> QED
            BY <1>1, <2>1, <3>1 DEF IsAt
    <2> HIDE DEF s, digits
    <2> QED
        BY <1>1, <1>2, <1>3, <1>5, <2>1, <2>2 DEF s
<1> QED
    BY <1>1, <1>4, <1>5

-----------------------------------------------------------------------------
\* Fractions and floats, as the instants they are meant to be.

\* A fraction is less than a second, however many digits it is cut from.
LEMMA FractionsAreParts ==
    ASSUME NEW frac \in Numerals
    PROVE  Nanoseconds(frac) \in 0..(Giga - 1)
<1> DEFINE p == 3 * StepDigits
<1>1. /\ p \in Nat /\ frac.v \in Nat /\ frac.w \in Nat /\ frac.v < Pow10[frac.w]
      /\ \A n \in Nat : Pow10[n] \in Nat \ {0}
    BY EpochAssumption, Pow10IsPower DEF Numerals, IsPower
<1>2. Giga = Pow10[p]
    BY StepsArePowers DEF Giga
<1>3. Nanoseconds(frac) = IF frac.w > p THEN frac.v \div Pow10[frac.w - p]
                          ELSE frac.v * Pow10[p - frac.w]
    BY DEF Nanoseconds
<1> HIDE DEF p
<1>4. CASE frac.w > p
    <2>1. PICK k \in Nat : k = frac.w - p /\ frac.w = p + k
        BY <1>1, <1>4
    <2>2. Pow10[frac.w] = Pow10[p] * Pow10[k]
        <3>1. Pow10[p + k] = Pow10[p] * Pow10[k]
            BY <1>1, Pow10IsPower, PowersGrow
        <3> QED
            BY <2>1, <3>1
    <2> DEFINE a == Pow10[p]
               b == Pow10[k]
               v == frac.v
               q == v \div b
    <2>3. a \in Nat \ {0} /\ b \in Nat \ {0} /\ v \in Nat /\ v < a * b /\ Giga = a
        BY <1>1, <1>2, <2>1, <2>2
    <2>4. Nanoseconds(frac) = q
        BY <1>3, <1>4, <2>1
    <2> HIDE DEF a, b, v
    <2>5. q \in Int /\ v % b \in 0..(b - 1) /\ v = b * q + (v % b)
        BY <2>3, DivisionHolds
    <2> HIDE DEF q
    <2>6. q >= 0
        <3>1. q < 0 => b * q <= b * (-1)
            BY <2>3, <2>5
        <3>2. b * (-1) = -b /\ b * q \in Int
            BY <2>3, <2>5
        <3> QED
            BY <2>3, <2>5, <3>1, <3>2
    <2>7. q < a
        <3>1. q >= a => b * q >= b * a
            BY <2>3, <2>5
        <3>2. b * a = a * b /\ b * q \in Int /\ a * b \in Int
            BY <2>3, <2>5
        <3> QED
            BY <2>3, <2>5, <3>1, <3>2
    <2> QED
        BY <2>3, <2>4, <2>5, <2>6, <2>7
<1>5. CASE ~(frac.w > p)
    <2>1. PICK k \in Nat : k = p - frac.w /\ p = frac.w + k
        BY <1>1, <1>5
    <2>2. Pow10[p] = Pow10[frac.w] * Pow10[k]
        <3>1. \A m, n \in Nat : Pow10[m + n] = Pow10[m] * Pow10[n]
            BY Pow10IsPower, PowersGrow
        <3> QED
            BY <1>1, <2>1, <3>1
    <2> DEFINE a == Pow10[frac.w]
               b == Pow10[k]
               v == frac.v
    <2>3. a \in Nat \ {0} /\ b \in Nat \ {0} /\ v \in 0..(a - 1) /\ Giga = a * b
        BY <1>1, <1>2, <2>1, <2>2
    <2>4. Nanoseconds(frac) = v * b
        BY <1>3, <1>5, <2>1
    <2> HIDE DEF a, b, v
    <2> QED
        BY <2>3, <2>4, PartsAreLess
<1> QED
    BY <1>4, <1>5

\* A fraction is read as what it means, the sign before all of it.
LEMMA FractionsMean ==
    ASSUME NEW w \in WrittenNumbers, w.frac.w # 0
    PROVE  ParseFractional(w.neg, w.n, w.frac)
               = IF w.n.w \in (SecDigits - 1)..(SecDigits + StepDigits - 1)
                 THEN FractionMeant(w.neg, w.n.v, Nanoseconds(w.frac)) ELSE NoInstant
<1> DEFINE named == w.n.w \in (SecDigits - 1)..(SecDigits + StepDigits - 1)
           v == w.n.v
           ns == Nanoseconds(w.frac)
           s == Signed(w.neg, v)
           t == Signed(w.neg, ns)
           u == Unix([sec |-> s, nsec |-> t])
<1>1. w.neg \in BOOLEAN /\ v \in Nat /\ w.frac.w > 0 /\ w.n \in Numerals /\ w.frac \in Numerals
    BY DEF WrittenNumbers, Numerals
<1>2. ns \in 0..(Giga - 1) /\ Giga \in Nat \ {0}
    BY <1>1, FractionsAreParts, OneSecondIsAUnit
<1>3. MaxInt \in Nat /\ MaxSeconds \in Nat /\ MaxSeconds <= MaxInt
    BY EpochAssumption, Int64Assumption
<1>4. ParseFractional(w.neg, w.n, w.frac)
          = IF named /\ v <= MaxInt THEN IF InRange(u.sec) THEN [ok |-> TRUE, at |-> u] ELSE NoInstant
            ELSE NoInstant
    BY <1>1 DEF ParseFractional, ParseInt, NoInstant, WithinRange
<1>5. u = [sec |-> s + (t \div Giga), nsec |-> t % Giga]
    BY DEF Unix
<1> HIDE DEF named, v, ns, u
<1>6. CASE w.neg /\ ns > 0
    <2>1. s = -v /\ t = -ns
        BY <1>6 DEF Signed
    <2>2. t \div Giga = -1 /\ t % Giga = Giga - ns
        <3>1. -ns = Giga * (-1) + (Giga - ns) /\ Giga - ns \in 0..(Giga - 1) /\ -ns \in Int /\ -1 \in Int
            BY <1>2, <1>6
        <3> DEFINE x == -ns
                   m == -1
                   y == Giga - ns
        <3>2. x = Giga * m + y /\ y \in 0..(Giga - 1) /\ x \in Int /\ m \in Int
            BY <3>1
        <3> HIDE DEF x, m, y
        <3>3. x \div Giga = m /\ x % Giga = y
            BY <1>2, <3>2, DivisionIsUnique
        <3> QED
            BY <2>1, <3>3 DEF x, m, y
    <2>3. u = [sec |-> -v - 1, nsec |-> Giga - ns]
        <3> HIDE DEF s, t
        <3> QED
            BY <1>1, <1>5, <2>1, <2>2
    <2>4. FractionMeant(w.neg, v, ns) = Instant(-v - 1, Giga - ns)
        BY <1>6 DEF FractionMeant
    <2>5. ~(v <= MaxInt) => ~InRange(-v - 1)
        BY <1>1, <1>3 DEF InRange
    <2> QED
        BY <1>4, <2>3, <2>4, <2>5 DEF Instant, named, v, ns
<1>7. CASE w.neg /\ ns = 0
    <2>1. s = -v /\ t = 0
        <3>1. s = -v /\ t = -ns
            BY <1>7 DEF Signed
        <3>2. PICK x \in Int : x = -ns
            BY <1>2
        <3>3. x + ns = 0
            BY <1>2, <3>2
        <3>4. x = 0
            BY <1>7, <3>3
        <3> QED
            BY <3>1, <3>2, <3>4
    <2>2. 0 \div Giga = 0 /\ 0 % Giga = 0
        BY <1>2, DivisionIsUnique
    <2>3. u = [sec |-> -v, nsec |-> 0]
        <3> HIDE DEF s, t
        <3> QED
            BY <1>1, <1>5, <2>1, <2>2
    <2>4. FractionMeant(w.neg, v, ns) = Instant(-v, 0)
        BY <1>7 DEF FractionMeant
    <2>5. ~(v <= MaxInt) => ~InRange(-v)
        BY <1>1, <1>3 DEF InRange
    <2> QED
        BY <1>4, <2>3, <2>4, <2>5 DEF Instant, named, v, ns
<1>8. CASE ~w.neg
    <2>1. s = v /\ t = ns
        BY <1>8 DEF Signed
    <2>2. ns \div Giga = 0 /\ ns % Giga = ns
        <3>1. ns = Giga * 0 + ns /\ ns \in Int
            BY <1>2
        <3> QED
            BY <1>2, <3>1, DivisionIsUnique
    <2>3. u = [sec |-> v, nsec |-> ns]
        <3> HIDE DEF s, t
        <3> QED
            BY <1>1, <1>5, <2>1, <2>2
    <2>4. FractionMeant(w.neg, v, ns) = Instant(v, ns)
        BY <1>8 DEF FractionMeant
    <2>5. ~(v <= MaxInt) => ~InRange(v)
        BY <1>1, <1>3 DEF InRange
    <2> QED
        BY <1>4, <2>3, <2>4, <2>5 DEF Instant, named, v, ns
<1>9. ns > 0 \/ ns = 0
    BY <1>2
<1> QED
    BY <1>1, <1>6, <1>7, <1>8, <1>9 DEF named, v, ns

LEMMA FloatsMean ==
    ASSUME NEW f \in Floats, FromSeconds(f).ok
    PROVE  ~f.nan /\ InRange(FromSeconds(f).at.sec) /\ Nearest(f, FromSeconds(f).at)
<1> DEFINE ns == RoundHalfAway(f.frac)
           u == Unix([sec |-> f.whole, nsec |-> ns])
<1>1. ~f.nan /\ FromSeconds(f) = WithinRange([sec |-> f.whole, nsec |-> ns])
    BY DEF FromSeconds, NoInstant
<1>2. InRange(u.sec) /\ FromSeconds(f).at = u
    BY <1>1 DEF WithinRange, NoInstant
<1>3. f.whole \in Int /\ f.frac \in Int
    <2>1. f # NaN
        BY <1>1 DEF NaN
    <2> QED
        BY <2>1, NumbersAssumption
<1>4. ns \in Int /\ 1000 * ns - f.frac \in (IF f.frac < 0 THEN -500..499 ELSE -499..500)
    <2>1. PICK frac \in Int : frac = f.frac
        BY <1>3
    <2> QED
        BY <2>1, RoundsToTheNearest
<1> HIDE DEF ns
<1>5. u.sec \in Int /\ u.nsec \in Int /\ u.sec * Giga + u.nsec = f.whole * Giga + ns
    BY <1>3, <1>4, UnixIsExact
<1> HIDE DEF u
<1>6. Giga * (u.sec - f.whole) + u.nsec = ns
    <2>1. PICK whole \in Int, sec \in Int, giga \in Int :
              whole = f.whole /\ sec = u.sec /\ giga = Giga
        BY <1>3, <1>5, OneSecondIsAUnit
    <2>2. /\ giga * (sec - whole) = sec * giga - whole * giga
          /\ sec * giga \in Int /\ whole * giga \in Int
        OBVIOUS
    <2>3. sec * giga + u.nsec = whole * giga + ns
        BY <1>5, <2>1
    <2>4. giga * (sec - whole) + u.nsec = ns
        BY <1>4, <1>5, <2>2, <2>3
    <2> QED
        BY <2>1, <2>4
<1>7. Nearest(f, u)
    BY <1>4, <1>6 DEF Nearest
<1> QED
    BY <1>1, <1>2, <1>7

\* What is written is read as the instant it means, or not read at all: it is not
\* taken for a phrase either.
LEMMA WrittenMeansItsValue ==
    ASSUME NEW w \in Written, NEW base
    PROVE  FallBack(TextOf(w), Plain, base)
               = LET i == WrittenMeant(w)
                 IN  IF i.ok THEN Read(i.at, "absolute", FALSE) ELSE NotRead(<<>>)
<1>1. w \in WrittenNumbers
    BY NumbersAssumption DEF WrittenNumbers
<1>2. /\ w.neg \in BOOLEAN /\ w.n.v \in Nat /\ w.n.w \in Nat /\ w.frac.w \in Nat
    BY <1>1 DEF WrittenNumbers, Numerals
<1>3. DetectEpoch(TextOf(w)) = WrittenMeant(w)
    <2>1. CASE w.frac.w = 0
        <3>1. WrittenMeant(w) = IntegerMeant(w.neg, w.n.v, w.n.w)
            BY <2>1 DEF WrittenMeant
        <3> QED
            BY <1>1, <1>2, <2>1, <3>1, WrittenIsDetected, IntegersMean
    <2>2. CASE w.frac.w # 0
        <3> DEFINE named == w.n.w \in (SecDigits - 1)..(SecDigits + StepDigits - 1)
                   meant == FractionMeant(w.neg, w.n.v, Nanoseconds(w.frac))
        <3>1. w.frac.w > 0
            BY <1>2, <2>2
        <3>2. WrittenMeant(w) = IF named THEN meant ELSE NoInstant
            <4> HIDE DEF meant
            <4> QED
                BY <2>2, <3>1 DEF WrittenMeant, meant
        <3>3. DetectEpoch(TextOf(w)) = ParseFractional(w.neg, w.n, w.frac)
            BY <1>1, <2>2, WrittenIsDetected
        <3>4. ParseFractional(w.neg, w.n, w.frac) = IF named THEN meant ELSE NoInstant
            BY <1>1, <2>2, FractionsMean
        <3> QED
            BY <3>2, <3>3, <3>4
    <2> QED
        BY <2>1, <2>2
<1>4. FallBackPhrase(TextOf(w), Plain, base) = NotRead(<<>>)
    BY <1>1, WrittenIsWordless, NoWordNoPhrase
<1> QED
    BY <1>3, <1>4 DEF FallBack

\* Whatever numbers are asked about, digits are answered with exactly the instant
\* they mean and never as a phrase, and a float with the nearest nanosecond
\* (Detect, split, parseFractional, FromSeconds, withinRange).
THEOREM NumbersAreTheirValueAlways == FallbackSpec => []NumbersAreTheirValue
<1>1. FallbackInit => NumbersAreTheirValue
    BY DEF FallbackInit, NumbersAreTheirValue, Unasked
<1>2. ASSUME NumbersAreTheirValue, [FallbackNext]_fallbackVars
      PROVE  NumbersAreTheirValue'
    <2>1. CASE GoOn
        BY <2>1 DEF GoOn, NumbersAreTheirValue, Unasked
    <2>2. CASE Ask \/ AskTomorrow
        <3>1. asked'.what = "phrase"
            BY <2>2 DEF Ask, AskTomorrow, AskedOf
        <3> QED
            BY <3>1 DEF NumbersAreTheirValue
    <2>3. CASE AskTyped
        BY <2>3 DEF AskTyped, AskNumber, NumbersAreTheirValue
    <2>4. CASE AskFloat
        <3>1. PICK f \in Floats : asked' = [what |-> "float", n |-> f, answer |-> FromSeconds(f)]
            BY <2>4 DEF AskFloat, AskNumber
        <3>2. FromSeconds(f).ok => ~f.nan /\ InRange(FromSeconds(f).at.sec) /\ Nearest(f, FromSeconds(f).at)
            BY FloatsMean
        <3> QED
            BY <3>1, <3>2 DEF NumbersAreTheirValue
    <2>5. CASE AskWritten
        <3>1. PICK w \in Written, clock \in Clocks :
                  asked' = [what |-> "written", n |-> w,
                            answer |-> FallBack(TextOf(w), Plain, BaseOn(number, clock))]
            BY <2>5 DEF AskWritten, AskNumber
        <3> DEFINE base == BaseOn(number, clock)
        <3>2. FallBack(TextOf(w), Plain, base)
                  = LET i == WrittenMeant(w)
                    IN  IF i.ok THEN Read(i.at, "absolute", FALSE) ELSE NotRead(<<>>)
            <4> HIDE DEF base
            <4> QED
                BY WrittenMeansItsValue
        <3> QED
            BY <3>1, <3>2 DEF NumbersAreTheirValue
    <2>6. CASE UNCHANGED fallbackVars
        BY <1>2, <2>6 DEF fallbackVars, NumbersAreTheirValue
    <2> QED
        BY <1>2, <2>1, <2>2, <2>3, <2>4, <2>5, <2>6 DEF FallbackNext
<1> QED
    BY <1>1, <1>2, PTL DEF FallbackSpec

=============================================================================
