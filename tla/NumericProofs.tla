---------------------------- MODULE NumericProofs ----------------------------
(***************************************************************************)
(* A date written in three numbers means what the options say, for every   *)
(* value, every options and every year.                                    *)
(*                                                                         *)
(* Detection of three numbers between separators lays the fields of one    *)
(* order over them, and executing those answers the date in that order or  *)
(* refuses exactly what is no date in it; so what the options choose among *)
(* the orders is what a parse answers, and strict mode offers all of them. *)
(*                                                                         *)
(* A layout of digits that is no guess for any value is of the table.  Its *)
(* fields read only what has its shape, which is the one shape of the      *)
(* value, so parsing the value finds the same kinds and the same time.     *)
(***************************************************************************)
EXTENDS SessionProofs

-----------------------------------------------------------------------------
\* Numeric dates: three numbers between equal separators.

Token == {x \in [t : {"num", "byte", "month", "word"}, v : Nat, w : Nat, c : STRING] : IsToken(x)}

IsNumber(x) ==
    /\ x.t = "num" /\ x.v \in Nat /\ x.w \in Nat \ {0}
    /\ (x.w = 1 => x.v <= 9) /\ (x.w = 2 => x.v <= 99) /\ (x.w = 4 => x.v <= Most[4])

IsSeparator(x) ==
    /\ x.t = "byte" /\ x.w = 1
    /\ "sep" \in ClassesOf(x) /\ "colon" \notin ClassesOf(x) /\ "space" \notin ClassesOf(x)

LEMMA KindsOfToken ==
    ASSUME NEW x \in Token
    PROVE  /\ x.t = "num" => IsNumber(x)
           /\ x.t = "byte" => x = Byte(x.c)
<1>1. IsToken(x) /\ x.v \in Nat /\ x.w \in Nat
    BY DEF Token
<1>2. ASSUME x.t = "num"
      PROVE  IsNumber(x)
    <2>1. x.w >= 1 /\ (x.w <= 4 => x.v <= Most[x.w])
        BY <1>1, <1>2 DEF IsToken, Num, Byte, Month, Word
    <2>2. Most[1] = 9 /\ Most[2] = 99
        BY DEF Most
    <2> QED
        BY <1>1, <1>2, <2>1, <2>2 DEF IsNumber
<1>3. ASSUME x.t = "byte"
      PROVE  x = Byte(x.c)
    BY <1>1, <1>3 DEF IsToken, Num, Byte, Month, Word
<1> QED
    BY <1>2, <1>3

LEMMA SeparatorClass ==
    ASSUME NEW x, x.t = "byte", x.w = 1, x.c \in {"/", "-", "."}
    PROVE  IsSeparator(x)
<1>1. x.t # "num"
    BY Zenon
<1>2. "sep" \in ClassesOf(x)
    BY <1>1, Zenon DEF ClassesOf
<1>3. "colon" \notin ClassesOf(x) /\ "space" \notin ClassesOf(x)
    BY <1>1, Zenon DEF ClassesOf
<1> QED
    BY <1>2, <1>3, Zenon DEF IsSeparator

LEMMA FiveElements ==
    ASSUME NEW X, NEW s \in Seq(X), Len(s) = 5
    PROVE  DOMAIN s = 1..5 /\ \A i \in 1..5 : s[i] \in X
<1>1. DOMAIN s = 1..Len(s)
    OBVIOUS
<1>2. \A i \in 1..Len(s) : s[i] \in X
    BY ElementOfSeq
<1> QED
    BY <1>1, <1>2

LEMMA TripleShape ==
    ASSUME NEW t \in Seq(Token), IsTriple(t)
    PROVE  /\ Len(t) = 5 /\ DOMAIN t = 1..5
           /\ \A i \in {1, 3, 5} : IsNumber(t[i])
           /\ \A i \in {2, 4} : IsSeparator(t[i])
           /\ t[2] = t[4]
<1>1. Len(t) = 5 /\ DOMAIN t = 1..5
    <2>1. Len(t) = 5
        BY Zenon DEF IsTriple
    <2> QED
        BY <2>1, FiveElements
<1>2. \A i \in 1..5 : t[i] \in Token
    BY <1>1, FiveElements
<1>3. \A i \in {1, 3, 5} : IsNumber(t[i])
    <2>1. \A i \in {1, 3, 5} : t[i].t = "num"
        BY Zenon DEF IsTriple
    <2> QED
        BY <1>2, <2>1, KindsOfToken
<1>4. t[2] = t[4] /\ t[2].t = "byte" /\ t[2].c \in {"/", "-", "."}
    BY Zenon DEF IsTriple
<1>5. t[2] \in Token
    BY <1>2
<1>6. t[2] = Byte(t[2].c)
    BY <1>4, <1>5, KindsOfToken, Zenon
<1>7. \A c : Byte(c).w = 1
    BY DEF Byte
<1>8. IsSeparator(t[2])
    BY <1>4, <1>6, <1>7, SeparatorClass, Zenon
<1>9. \A i \in {2, 4} : IsSeparator(t[i])
    BY <1>4, <1>8, Zenon
<1> QED
    BY <1>1, <1>3, <1>4, <1>9, Zenon

\* Fields that read the numbers of t in order o.
IsOrder(o) == o.y \in {1, 3, 5} /\ o.m \in {1, 3, 5} \ {o.y} /\ o.d \in {1, 3, 5} \ {o.y, o.m}

AreFields(fields) == \A i \in 1..5 : {"kind", "w"} \subseteq DOMAIN fields[i]

FieldsIn(t, o, fields) ==
    /\ DOMAIN fields = 1..5 /\ Len(fields) = 5 /\ AreFields(fields)
    /\ fields[o.y].kind = YearKindFor(t[o.y].w)
    /\ fields[o.m].kind = MonthKindFor(t[o.m].w)
    /\ fields[o.d].kind = DayKindFor(t[o.d].w)
    /\ \A i \in {1, 3, 5} : fields[i].w = t[i].w /\ fields[i].kind # "none"
    /\ \A i \in {2, 4} : fields[i].kind = "Literal" /\ fields[i].w = 1 /\ fields[i].aux = "sep"

LEMMA OrdersPlace == \A o \in Orders : IsOrder(o)
    BY DEF Orders, YearMonthDay, MonthDayYear, DayMonthYear, IsOrder

LEMMA OrdersAre ==
    /\ YearMonthDay.y = 1 /\ YearMonthDay.m = 3 /\ YearMonthDay.d = 5
    /\ MonthDayYear.m = 1 /\ MonthDayYear.d = 3 /\ MonthDayYear.y = 5
    /\ DayMonthYear.d = 1 /\ DayMonthYear.m = 3 /\ DayMonthYear.y = 5
    BY DEF YearMonthDay, MonthDayYear, DayMonthYear

LEMMA MaxOfOne == \A i \in Int : Max({i}) = i
    BY DEF Max

\* Two digits are of the same century in the code and in the reference.
LEMMA CenturyAgrees ==
    ASSUME NEW x, x.w = 2, x.v \in Nat
    PROVE  NormalizeTwoDigitYear(x.v) = WrittenYear(x) /\ NormalizeTwoDigitYear(x.v) \in Nat
<1> DEFINE v == x.v
<1>1. WrittenYear(x) = v + (IF v > 68 THEN 1900 ELSE 2000)
    BY DEF WrittenYear
<1>2. v \in Nat
    OBVIOUS
<1> HIDE DEF v
<1>3. /\ NormalizeTwoDigitYear(v) = v + (IF v > 68 THEN 1900 ELSE 2000)
      /\ NormalizeTwoDigitYear(v) \in Nat
    BY <1>2 DEF NormalizeTwoDigitYear, CenturyPivot
<1> QED
    BY <1>1, <1>3 DEF v

LEMMA DaysInMonth ==
    ASSUME NEW y \in Nat, NEW m \in 1..12, NEW d \in 1..31
    PROVE  DayExists(y, m, d) <=> d \in 1..DaysIn(y, m)
<1>1. IsLeap(y) <=> (y % 4 = 0 /\ (y % 100 = 0 => y % 400 = 0))
    BY DEF IsLeap
<1> DEFINE leap == y % 4 = 0 /\ (y % 100 = 0 => y % 400 = 0)
<1> HIDE DEF leap
<1>2. CASE m = 2
    <2>1. DaysIn(y, m) = IF leap THEN 29 ELSE 28
        BY <1>2 DEF DaysIn, leap
    <2>2. DayExists(y, m, d) <=> d <= 28 \/ (d = 29 /\ leap)
        BY <1>1, <1>2 DEF DayExists, leap
    <2> QED
        BY <2>1, <2>2
<1>3. CASE m \in {4, 6, 9, 11}
    <2>1. DaysIn(y, m) = 30
        BY <1>3 DEF DaysIn
    <2>2. MonthLengths[m] = 30
        BY <1>3 DEF MonthLengths
    <2> QED
        BY <1>3, <2>1, <2>2 DEF DayExists
<1>4. CASE m \in {1, 3, 5, 7, 8, 10, 12}
    <2>1. DaysIn(y, m) = 31
        BY <1>4 DEF DaysIn
    <2>2. MonthLengths[m] = 31
        BY <1>4 DEF MonthLengths
    <2> QED
        BY <1>4, <2>1, <2>2 DEF DayExists
<1> QED
    BY <1>2, <1>3, <1>4

\* Every day of the calendar is one of 1..31.
LEMMA DaysAreDays ==
    ASSUME NEW y, NEW m
    PROVE  DaysIn(y, m) \in 28..31
    BY DEF DaysIn

\* The kinds of a number of a date, and what a field of such a kind accepts.
LEMMA AcceptsByKind ==
    ASSUME NEW f, NEW x, NEW locales
    PROVE  /\ f.kind = "Year4" => Accepts(f, x, locales) = Bounded(x, {4}, 0, 9999)
           /\ f.kind = "Year2" => Accepts(f, x, locales) = Bounded(x, {2}, 0, 99)
           /\ f.kind = "Month2" => Accepts(f, x, locales) = Bounded(x, {2}, 1, 12)
           /\ f.kind = "Month1or2" => Accepts(f, x, locales) = Bounded(x, {1, 2}, 1, 12)
           /\ f.kind = "Day2" => Accepts(f, x, locales) = Bounded(x, {2}, 1, 31)
           /\ f.kind = "Day1or2" => Accepts(f, x, locales) = Bounded(x, {1, 2}, 1, 31)
<1>1. ASSUME f.kind = "Year4"
      PROVE  Accepts(f, x, locales) = Bounded(x, {4}, 0, 9999)
    <2>1. \A k \in {"Year2", "Month2", "Month1or2", "MonthName", "Day2", "Day1or2", 
                 "Hour24", "Hour12", "Minute2", "Second2", "AMPM"} : f.kind # k
        BY <1>1
    <2>2. f.kind \notin {"Literal", "Skip"}
        BY <1>1
    <2> QED
        BY <1>1, <2>1, <2>2 DEF Accepts
<1>2. ASSUME f.kind = "Year2"
      PROVE  Accepts(f, x, locales) = Bounded(x, {2}, 0, 99)
    <2>1. \A k \in {"Year4", "Month2", "Month1or2", "MonthName", "Day2", "Day1or2", 
                 "Hour24", "Hour12", "Minute2", "Second2", "AMPM"} : f.kind # k
        BY <1>2
    <2>2. f.kind \notin {"Literal", "Skip"}
        BY <1>2
    <2> QED
        BY <1>2, <2>1, <2>2 DEF Accepts
<1>3. ASSUME f.kind = "Month2"
      PROVE  Accepts(f, x, locales) = Bounded(x, {2}, 1, 12)
    <2>1. \A k \in {"Year4", "Year2", "Month1or2", "MonthName", "Day2", "Day1or2", 
                 "Hour24", "Hour12", "Minute2", "Second2", "AMPM"} : f.kind # k
        BY <1>3
    <2>2. f.kind \notin {"Literal", "Skip"}
        BY <1>3
    <2> QED
        BY <1>3, <2>1, <2>2 DEF Accepts
<1>4. ASSUME f.kind = "Month1or2"
      PROVE  Accepts(f, x, locales) = Bounded(x, {1, 2}, 1, 12)
    <2>1. \A k \in {"Year4", "Year2", "Month2", "MonthName", "Day2", "Day1or2", 
                 "Hour24", "Hour12", "Minute2", "Second2", "AMPM"} : f.kind # k
        BY <1>4
    <2>2. f.kind \notin {"Literal", "Skip"}
        BY <1>4
    <2> QED
        BY <1>4, <2>1, <2>2 DEF Accepts
<1>5. ASSUME f.kind = "Day2"
      PROVE  Accepts(f, x, locales) = Bounded(x, {2}, 1, 31)
    <2>1. \A k \in {"Year4", "Year2", "Month2", "Month1or2", "MonthName", "Day1or2", 
                 "Hour24", "Hour12", "Minute2", "Second2", "AMPM"} : f.kind # k
        BY <1>5
    <2>2. f.kind \notin {"Literal", "Skip"}
        BY <1>5
    <2> QED
        BY <1>5, <2>1, <2>2 DEF Accepts
<1>6. ASSUME f.kind = "Day1or2"
      PROVE  Accepts(f, x, locales) = Bounded(x, {1, 2}, 1, 31)
    <2>1. \A k \in {"Year4", "Year2", "Month2", "Month1or2", "MonthName", "Day2", 
                 "Hour24", "Hour12", "Minute2", "Second2", "AMPM"} : f.kind # k
        BY <1>6
    <2>2. f.kind \notin {"Literal", "Skip"}
        BY <1>6
    <2> QED
        BY <1>6, <2>1, <2>2 DEF Accepts
<1> QED
    BY <1>1, <1>2, <1>3, <1>4, <1>5, <1>6

LEMMA NumberKinds ==
    ASSUME NEW w \in Nat
    PROVE  /\ YearKindFor(w) = IF w = 2 THEN "Year2" ELSE IF w = 4 THEN "Year4" ELSE "none"
           /\ MonthKindFor(w) = IF w = 1 THEN "Month1or2" ELSE IF w = 2 THEN "Month2" ELSE "none"
           /\ DayKindFor(w) = IF w = 1 THEN "Day1or2" ELSE IF w = 2 THEN "Day2" ELSE "none"
<1>1. w # 2 \/ w # 4
    OBVIOUS
<1>2. w # 1 \/ w # 2
    OBVIOUS
<1> QED
    BY <1>1, <1>2 DEF YearKindFor, MonthKindFor, DayKindFor

LEMMA YearAccepts ==
    ASSUME NEW x, IsNumber(x), NEW f, NEW locales, f.kind = YearKindFor(x.w), f.kind # "none"
    PROVE  /\ Accepts(f, x, locales)
           /\ x.w \in {2, 4} /\ f.kind = IF x.w = 2 THEN "Year2" ELSE "Year4"
<1>1. /\ x.w \in {2, 4} /\ f.kind = IF x.w = 2 THEN "Year2" ELSE "Year4"
    BY NumberKinds DEF IsNumber
<1>2. CASE x.w = 2
    <2>1. f.kind = "Year2"
        BY <1>1, <1>2
    <2>2. Accepts(f, x, locales) = Bounded(x, {2}, 0, 99)
        BY <2>1, AcceptsByKind
    <2>3. Bounded(x, {2}, 0, 99)
        BY <1>2 DEF Bounded, IsNumber
    <2> QED
        BY <1>1, <2>1, <2>2, <2>3
<1>3. CASE x.w = 4
    <2>1. f.kind = "Year4"
        BY <1>1, <1>3
    <2>2. Accepts(f, x, locales) = Bounded(x, {4}, 0, 9999)
        BY <2>1, AcceptsByKind
    <2>3. Bounded(x, {4}, 0, Most[4])
        <3>1. Most[4] \in Nat
            BY DEF Most
        <3> QED
            BY <1>3, <3>1 DEF Bounded, IsNumber
    <2>4. Most[4] = 9999
        BY DEF Most
    <2>5. Bounded(x, {4}, 0, 9999)
        BY <2>3, <2>4
    <2> QED
        BY <1>1, <2>1, <2>2, <2>5
<1> QED
    BY <1>1, <1>2, <1>3, Zenon

LEMMA MonthAccepts ==
    ASSUME NEW x, IsNumber(x), NEW f, NEW locales, f.kind = MonthKindFor(x.w), f.kind # "none"
    PROVE  /\ Accepts(f, x, locales) <=> x.v \in 1..12
           /\ x.w \in {1, 2} /\ f.kind \in {"Month2", "Month1or2"}
<1>1. /\ x.w \in {1, 2} /\ f.kind = IF x.w = 1 THEN "Month1or2" ELSE "Month2"
    BY NumberKinds DEF IsNumber
<1>2. CASE x.w = 1
    <2>1. f.kind = "Month1or2"
        BY <1>1, <1>2
    <2>2. Accepts(f, x, locales) = Bounded(x, {1, 2}, 1, 12)
        BY <2>1, AcceptsByKind
    <2>3. Bounded(x, {1, 2}, 1, 12) <=> x.v \in 1..12
        BY <1>2 DEF Bounded, IsNumber
    <2> QED
        BY <1>1, <2>1, <2>2, <2>3
<1>3. CASE x.w = 2
    <2>1. f.kind = "Month2"
        BY <1>1, <1>3
    <2>2. Accepts(f, x, locales) = Bounded(x, {2}, 1, 12)
        BY <2>1, AcceptsByKind
    <2>3. Bounded(x, {2}, 1, 12) <=> x.v \in 1..12
        BY <1>3 DEF Bounded, IsNumber
    <2> QED
        BY <1>1, <2>1, <2>2, <2>3
<1> QED
    BY <1>1, <1>2, <1>3, Zenon

LEMMA DayAccepts ==
    ASSUME NEW x, IsNumber(x), NEW f, NEW locales, f.kind = DayKindFor(x.w), f.kind # "none"
    PROVE  /\ Accepts(f, x, locales) <=> x.v \in 1..31
           /\ x.w \in {1, 2} /\ f.kind \in {"Day2", "Day1or2"}
<1>1. /\ x.w \in {1, 2} /\ f.kind = IF x.w = 1 THEN "Day1or2" ELSE "Day2"
    BY NumberKinds DEF IsNumber
<1>2. CASE x.w = 1
    <2>1. f.kind = "Day1or2"
        BY <1>1, <1>2
    <2>2. Accepts(f, x, locales) = Bounded(x, {1, 2}, 1, 31)
        BY <2>1, AcceptsByKind
    <2>3. Bounded(x, {1, 2}, 1, 31) <=> x.v \in 1..31
        BY <1>2 DEF Bounded, IsNumber
    <2> QED
        BY <1>1, <2>1, <2>2, <2>3
<1>3. CASE x.w = 2
    <2>1. f.kind = "Day2"
        BY <1>1, <1>3
    <2>2. Accepts(f, x, locales) = Bounded(x, {2}, 1, 31)
        BY <2>1, AcceptsByKind
    <2>3. Bounded(x, {2}, 1, 31) <=> x.v \in 1..31
        BY <1>3 DEF Bounded, IsNumber
    <2> QED
        BY <1>1, <2>1, <2>2, <2>3
<1> QED
    BY <1>1, <1>2, <1>3, Zenon

LEMMA SeparatorAccepts ==
    ASSUME NEW x, IsSeparator(x), NEW f, NEW locales,
           f.kind = "Literal", f.w = 1, f.aux = "sep"
    PROVE  Accepts(f, x, locales)
    BY DEF IsSeparator, Accepts

\* What is read from the fields of a date, which are those of a time's no kinds.
LEMMA PartsRead ==
    ASSUME NEW t \in Seq(Token), IsTriple(t), NEW o, IsOrder(o), NEW fields, FieldsIn(t, o, fields)
    PROVE  /\ Reads(fields, YearKinds) = {o.y} /\ fields[o.y].kind \in {"Year2", "Year4"}
           /\ Reads(fields, MonthKinds) = {o.m} /\ fields[o.m].kind \in {"Month2", "Month1or2"}
           /\ Reads(fields, DayKinds) = {o.d} /\ fields[o.d].kind \in {"Day2", "Day1or2"}
           /\ Reads(fields, HourKinds) = {} /\ Reads(fields, {"AMPM"}) = {}
           /\ Reads(fields, {"Minute2"}) = {} /\ Reads(fields, {"Second2"}) = {}
<1>1. o.y \in {1, 3, 5} /\ o.m \in {1, 3, 5} /\ o.d \in {1, 3, 5}
    BY DEF IsOrder
<1>2. /\ fields[o.y].kind \in {"Year2", "Year4"}
      /\ fields[o.m].kind \in {"Month2", "Month1or2"}
      /\ fields[o.d].kind \in {"Day2", "Day1or2"}
    <2>1. /\ IsNumber(t[o.y]) /\ fields[o.y].kind # "none" /\ fields[o.y].kind = YearKindFor(t[o.y].w)
          /\ IsNumber(t[o.m]) /\ fields[o.m].kind # "none" /\ fields[o.m].kind = MonthKindFor(t[o.m].w)
          /\ IsNumber(t[o.d]) /\ fields[o.d].kind # "none" /\ fields[o.d].kind = DayKindFor(t[o.d].w)
        BY <1>1, TripleShape DEF FieldsIn
    <2>2. t[o.y].w \in Nat /\ t[o.m].w \in Nat /\ t[o.d].w \in Nat
        BY <2>1 DEF IsNumber
    <2>3. fields[o.y].kind \in {"Year2", "Year4"}
        BY <2>1, <2>2, NumberKinds
    <2>4. fields[o.m].kind \in {"Month2", "Month1or2"}
        BY <2>1, <2>2, NumberKinds
    <2>5. fields[o.d].kind \in {"Day2", "Day1or2"}
        BY <2>1, <2>2, NumberKinds
    <2> QED
        BY <2>3, <2>4, <2>5
<1>3. /\ fields[2].kind = "Literal" /\ fields[4].kind = "Literal"
      /\ DOMAIN fields = 1..5
    BY DEF FieldsIn
<1>4. \A i \in 1..5 : i \in {o.y, o.m, o.d, 2, 4}
    BY DEF IsOrder
<1>5. o.y \in 1..5 /\ o.m \in 1..5 /\ o.d \in 1..5
    BY <1>1
<1> QED
    BY <1>2, <1>3, <1>4, <1>5 DEF Reads, YearKinds, MonthKinds, DayKinds, HourKinds

LEMMA PartsAccept ==
    ASSUME NEW t \in Seq(Token), IsTriple(t), NEW o, IsOrder(o), NEW fields, FieldsIn(t, o, fields),
           NEW locales
    PROVE  (\A i \in DOMAIN t : Accepts(fields[i], t[i], locales))
               <=> t[o.m].v \in 1..12 /\ t[o.d].v \in 1..31
<1>1. o.y \in {1, 3, 5} /\ o.m \in {1, 3, 5} /\ o.d \in {1, 3, 5}
    BY DEF IsOrder
<1>2. /\ IsNumber(t[o.y]) /\ fields[o.y].kind # "none" /\ fields[o.y].kind = YearKindFor(t[o.y].w)
      /\ IsNumber(t[o.m]) /\ fields[o.m].kind # "none" /\ fields[o.m].kind = MonthKindFor(t[o.m].w)
      /\ IsNumber(t[o.d]) /\ fields[o.d].kind # "none" /\ fields[o.d].kind = DayKindFor(t[o.d].w)
    BY <1>1, TripleShape DEF FieldsIn
<1>3. /\ Accepts(fields[o.y], t[o.y], locales)
      /\ Accepts(fields[o.m], t[o.m], locales) <=> t[o.m].v \in 1..12
      /\ Accepts(fields[o.d], t[o.d], locales) <=> t[o.d].v \in 1..31
    <2>1. Accepts(fields[o.y], t[o.y], locales)
        BY <1>2, YearAccepts, Zenon
    <2>2. Accepts(fields[o.m], t[o.m], locales) <=> t[o.m].v \in 1..12
        BY <1>2, MonthAccepts, Zenon
    <2>3. Accepts(fields[o.d], t[o.d], locales) <=> t[o.d].v \in 1..31
        BY <1>2, DayAccepts, Zenon
    <2> QED
        BY <2>1, <2>2, <2>3, Zenon
<1>4. Accepts(fields[2], t[2], locales) /\ Accepts(fields[4], t[4], locales)
    BY TripleShape, SeparatorAccepts DEF FieldsIn
<1>5. /\ \A i \in 1..5 : i \in {o.y, o.m, o.d, 2, 4}
      /\ o.y \in 1..5 /\ o.m \in 1..5 /\ o.d \in 1..5
    BY DEF IsOrder
<1>6. DOMAIN t = 1..5
    BY TripleShape
<1> QED
    BY <1>3, <1>4, <1>5, <1>6

\* The date part of an answer, and the midnight it is at.
MidnightOf(date) == At([y |-> date.y, m |-> date.m, d |-> date.d, h |-> 0, mi |-> 0, se |-> 0])

\* A layout that reads a numeric date in an order answers the date of that
\* order, and refuses exactly what is no reading in that order.
LEMMA ExecuteInOrder ==
    ASSUME NEW t \in Seq(Token), IsTriple(t), NEW o, IsOrder(o), NEW l, FieldsIn(t, o, l.fields)
    PROVE  Execute(l, t) = IF IsReading(t, o) THEN MidnightOf(DateIn(t, o)) ELSE Refused
<1> DEFINE y == YearOf(l, t)
           m == ValueOf(l.fields, t, MonthKinds, 1)
           d == ValueOf(l.fields, t, DayKinds, 1)
           ap == Reads(l.fields, {"AMPM"})
           h == ApplyAMPM(ValueOf(l.fields, t, HourKinds, 0), IF ap = {} THEN "none" ELSE t[Max(ap)].c)
<1>1. o.y \in Int /\ o.m \in Int /\ o.d \in Int
    BY DEF IsOrder
<1>2. m = t[o.m].v /\ d = t[o.d].v
    <2>1. Reads(l.fields, MonthKinds) = {o.m} /\ Reads(l.fields, DayKinds) = {o.d}
        BY PartsRead
    <2>2. Max({o.m}) = o.m /\ Max({o.d}) = o.d
        BY <1>1, MaxOfOne
    <2>3. {o.m} # {} /\ {o.d} # {}
        OBVIOUS
    <2> QED
        BY <2>1, <2>2, <2>3 DEF ValueOf
<1>3. /\ ValueOf(l.fields, t, HourKinds, 0) = 0 /\ ap = {}
      /\ ValueOf(l.fields, t, {"Minute2"}, 0) = 0 /\ ValueOf(l.fields, t, {"Second2"}, 0) = 0
    BY PartsRead DEF ValueOf
<1>4. h = 0
    <2>1. ApplyAMPM(0, "none") = 0
        BY DEF ApplyAMPM
    <2> QED
        BY <1>3, <2>1
<1>5. IsNumber(t[o.y]) /\ IsNumber(t[o.m]) /\ IsNumber(t[o.d])
    BY TripleShape DEF IsOrder
<1>6. y = WrittenYear(t[o.y]) /\ y \in Nat /\ YearLike(t[o.y])
    <2>1. Reads(l.fields, YearKinds) = {o.y} /\ Max({o.y}) = o.y
        BY <1>1, PartsRead, MaxOfOne
    <2>2. y = IF l.fields[o.y].kind = "Year2" THEN NormalizeTwoDigitYear(t[o.y].v) ELSE t[o.y].v
        BY <2>1 DEF YearOf
    <2>3. /\ t[o.y].w \in {2, 4}
          /\ l.fields[o.y].kind = IF t[o.y].w = 2 THEN "Year2" ELSE "Year4"
        <3>1. l.fields[o.y].kind = YearKindFor(t[o.y].w) /\ l.fields[o.y].kind # "none"
            BY PartsRead DEF FieldsIn
        <3> QED
            BY <1>5, <3>1, YearAccepts
    <2>4. t[o.y].w = 2 => /\ NormalizeTwoDigitYear(t[o.y].v) = WrittenYear(t[o.y])
                          /\ NormalizeTwoDigitYear(t[o.y].v) \in Nat
        BY <1>5, CenturyAgrees DEF IsNumber
    <2>5. t[o.y].v \in Nat /\ t[o.y].t = "num"
        BY <1>5 DEF IsNumber
    <2>6. CASE t[o.y].w = 2
        <3>1. y = NormalizeTwoDigitYear(t[o.y].v)
            BY <2>2, <2>3, <2>6
        <3>3. YearLike(t[o.y])
            BY <2>3, <2>5 DEF YearLike
        <3> HIDE DEF y
        <3> QED
            BY <2>4, <2>6, <3>1, <3>3, Zenon
    <2>7. CASE t[o.y].w = 4
        <3>1. y = t[o.y].v
            BY <2>2, <2>3, <2>7
        <3>2. WrittenYear(t[o.y]) = t[o.y].v
            BY <2>7 DEF WrittenYear
        <3> HIDE DEF y
        <3> QED
            BY <2>3, <2>5, <3>1, <3>2 DEF YearLike
    <2> QED
        BY <2>3, <2>6, <2>7
<1>7. DayLike(t[o.m]) /\ DayLike(t[o.d])
    <2>1. /\ l.fields[o.m].kind = MonthKindFor(t[o.m].w) /\ l.fields[o.m].kind # "none"
          /\ l.fields[o.d].kind = DayKindFor(t[o.d].w) /\ l.fields[o.d].kind # "none"
        BY PartsRead DEF FieldsIn
    <2> QED
        BY <1>5, <2>1, MonthAccepts, DayAccepts DEF DayLike, IsNumber
<1>8. Len(t) = Len(l.fields)
    BY TripleShape DEF FieldsIn
<1>9. (/\ Len(t) = Len(l.fields)
       /\ \A i \in DOMAIN t : Accepts(l.fields[i], t[i], l.locales)
       /\ DayExists(y, m, d)) <=> IsReading(t, o)
    <2>1. (\A i \in DOMAIN t : Accepts(l.fields[i], t[i], l.locales)) <=> m \in 1..12 /\ d \in 1..31
        BY <1>2, PartsAccept
    <2>2. IsReading(t, o) <=> m \in 1..12 /\ d \in 1..DaysIn(y, m)
        BY <1>2, <1>6, <1>7 DEF IsReading, DateIn, Date, Exists
    <2> HIDE DEF y, m, d
    <2>3. DaysIn(y, m) \in 28..31
        BY DaysAreDays
    <2>4. d \in 1..DaysIn(y, m) => d \in 1..31
        BY <2>3
    <2>5. m \in 1..12 /\ d \in 1..31 => (DayExists(y, m, d) <=> d \in 1..DaysIn(y, m))
        BY <1>6, DaysInMonth
    <2> QED
        BY <1>8, <2>1, <2>2, <2>4, <2>5
<1>10. DateIn(t, o).y = y /\ DateIn(t, o).m = m /\ DateIn(t, o).d = d
    BY <1>2, <1>6 DEF DateIn, Date
<1>11. Execute(l, t) =
          IF /\ Len(t) = Len(l.fields)
             /\ \A i \in DOMAIN t : Accepts(l.fields[i], t[i], l.locales)
             /\ DayExists(y, m, d)
          THEN At([y |-> y, m |-> m, d |-> d, h |-> h,
                   mi |-> ValueOf(l.fields, t, {"Minute2"}, 0),
                   se |-> ValueOf(l.fields, t, {"Second2"}, 0)])
          ELSE Refused
    BY Zenon DEF Execute
<1> HIDE DEF y, m, d, h, ap
<1> QED
    BY <1>3, <1>4, <1>9, <1>10, <1>11 DEF MidnightOf

-----------------------------------------------------------------------------
\* The order a numeric date is read in, and when it is a guess.

Guesses == {"none", "fieldOrder", "yearPosition"}

Settles(r, o, a) ==
    /\ r.ok = TRUE /\ r.ambig = a
    /\ r.month = (o.m + 1) \div 2 /\ r.day = (o.d + 1) \div 2

\* What a reading needs of the numbers, the length of its month aside.
CouldRead(t, q) ==
    /\ YearLike(t[q.y])
    /\ t[q.m].v \in 1..12 /\ t[q.m].w <= 2
    /\ t[q.d].v \in 1..31 /\ t[q.d].w <= 2

LEMMA ReadingsCouldRead ==
    ASSUME NEW t, NEW q, IsReading(t, q)
    PROVE  CouldRead(t, q)
<1>1. DateIn(t, q).m = t[q.m].v /\ DateIn(t, q).d = t[q.d].v
    BY DEF DateIn, Date
<1>2. t[q.m].v \in 1..12 /\ t[q.d].v \in 1..DaysIn(DateIn(t, q).y, DateIn(t, q).m)
    BY <1>1 DEF IsReading, Exists
<1>3. DaysIn(DateIn(t, q).y, DateIn(t, q).m) \in 28..31
    BY DaysAreDays
<1>4. t[q.d].v \in 1..31
    BY <1>2, <1>3
<1>5. t[q.m].w \in {1, 2} /\ t[q.d].w \in {1, 2}
    BY DEF IsReading, DayLike
<1>6. t[q.m].w <= 2 /\ t[q.d].w <= 2
    BY <1>5
<1> QED
    BY <1>2, <1>4, <1>6 DEF CouldRead, IsReading

\* The order o, a guess of kind a or none, is the choice these options make.
Chosen(t, c, o, a) ==
    /\ o \in Orders /\ a \in Guesses
    /\ DayLike(t[o.m]) /\ DayLike(t[o.d])
    /\ a = "none" => \A q \in Orders : CouldRead(t, q) => q = o
    /\ CouldRead(t, YearMonthDay) /\ c.yearFirst => o = YearMonthDay
    /\ CouldRead(t, DayMonthYear) /\ CouldRead(t, MonthDayYear) =>
           \/ o = YearMonthDay /\ c.yearFirst
           \/ o = IF c.dayFirst THEN DayMonthYear ELSE MonthDayYear

LEMMA RolesAreOrders ==
    /\ \A a : Settles(Roles(2, 3, a), YearMonthDay, a)
    /\ \A a : Settles(Roles(1, 2, a), MonthDayYear, a)
    /\ \A a : Settles(Roles(2, 1, a), DayMonthYear, a)
<1>1. (1 + 1) \div 2 = 1 /\ (3 + 1) \div 2 = 2 /\ (5 + 1) \div 2 = 3
    OBVIOUS
<1> QED
    BY <1>1, OrdersAre DEF Settles, Roles

LEMMA PartsAre ==
    ASSUME NEW t
    PROVE  Parts(t)[1] = t[1] /\ Parts(t)[2] = t[3] /\ Parts(t)[3] = t[5]
    BY DEF Parts

LEMMA OrdersDiffer ==
    YearMonthDay # MonthDayYear /\ YearMonthDay # DayMonthYear /\ MonthDayYear # DayMonthYear
<1>1. YearMonthDay.m = 3 /\ MonthDayYear.m = 1 /\ DayMonthYear.m = 3
      /\ YearMonthDay.d = 5 /\ DayMonthYear.d = 1
    BY OrdersAre
<1> QED
    BY <1>1

\* What one number of a date excludes.
Small(x) ==
    /\ x.v \in 1..31 => ~(x.v > 31)
    /\ x.v \in 1..12 => ~(x.v > 12) /\ ~(x.v > 31)
    /\ x.w <= 2 => x.w # 4 /\ DayLike(x)

LEMMA NumbersAreSmall ==
    ASSUME NEW x, IsNumber(x)
    PROVE  Small(x)
<1>1. x.v \in Nat /\ x.w \in Nat \ {0} /\ x.t = "num"
    BY DEF IsNumber
<1>2. \A v \in Nat : /\ v \in 1..31 => ~(v > 31)
                     /\ v \in 1..12 => ~(v > 12) /\ ~(v > 31)
    OBVIOUS
<1>3. \A w \in Nat \ {0} : w <= 2 => w # 4 /\ w \in {1, 2}
    OBVIOUS
<1> QED
    BY <1>1, <1>2, <1>3, Zenon DEF Small, DayLike

\* What each order needs, number by number.
NeedsOfOrders(t) ==
    /\ CouldRead(t, YearMonthDay) <=>
           /\ t[1].w \in {2, 4} /\ t[3].v \in 1..12 /\ t[3].w <= 2
           /\ t[5].v \in 1..31 /\ t[5].w <= 2
    /\ CouldRead(t, MonthDayYear) <=>
           /\ t[5].w \in {2, 4} /\ t[1].v \in 1..12 /\ t[1].w <= 2
           /\ t[3].v \in 1..31 /\ t[3].w <= 2
    /\ CouldRead(t, DayMonthYear) <=>
           /\ t[5].w \in {2, 4} /\ t[3].v \in 1..12 /\ t[3].w <= 2
           /\ t[1].v \in 1..31 /\ t[1].w <= 2

LEMMA CouldReadAre ==
    ASSUME NEW t \in Seq(Token), IsTriple(t)
    PROVE  NeedsOfOrders(t)
<1>1. t[1].t = "num" /\ t[3].t = "num" /\ t[5].t = "num"
    BY TripleShape DEF IsNumber
<1> QED
    BY <1>1, OrdersAre DEF NeedsOfOrders, CouldRead, YearLike

\* The year last, as YearLast settles it.
LEMMA YearLastChosen ==
    ASSUME NEW t \in Seq(Token), IsTriple(t), NEW c, c.dayFirst \in BOOLEAN, NEW alt \in BOOLEAN,
           CouldRead(t, YearMonthDay) => alt /\ ~c.yearFirst,
           YearLastRoles(Parts(t), c, alt).ok
    PROVE  \E o \in Orders, a \in Guesses :
               Settles(YearLastRoles(Parts(t), c, alt), o, a) /\ Chosen(t, c, o, a)
<1> DEFINE p == Parts(t)
           r == SplitMonthDay(p, c)
           l == YearLastRoles(p, c, alt)
<1>1. IsNumber(t[1]) /\ IsNumber(t[3]) /\ IsNumber(t[5])
    BY TripleShape
<1>2. p[1] = t[1] /\ p[2] = t[3] /\ p[3] = t[5]
    BY PartsAre
<1>3. /\ t[1].v \in Nat /\ t[3].v \in Nat /\ t[5].v \in Nat
      /\ t[1].w \in Nat \ {0} /\ t[3].w \in Nat \ {0} /\ t[5].w \in Nat \ {0}
    BY <1>1 DEF IsNumber
<1>needs. NeedsOfOrders(t)
    BY CouldReadAre
<1>small. Small(t[1]) /\ Small(t[3]) /\ Small(t[5])
    BY <1>1, NumbersAreSmall
<1> HIDE DEF p
<1>4. \/ /\ t[1].v > 12 /\ r = Roles(2, 1, "none")
      \/ /\ t[1].v <= 12 /\ t[3].v > 12 /\ r = Roles(1, 2, "none")
      \/ /\ t[1].v <= 12 /\ t[3].v <= 12
         /\ r = IF c.dayFirst THEN Roles(2, 1, "fieldOrder") ELSE Roles(1, 2, "fieldOrder")
    <2>1. CASE t[1].v > 12
        BY <1>2, <1>3, <2>1 DEF SplitMonthDay
    <2>2. CASE t[1].v <= 12 /\ t[3].v > 12
        <3>1. ~(t[1].v > 12)
            BY <1>3, <2>2
        <3> QED
            BY <1>2, <2>2, <3>1 DEF SplitMonthDay
    <2>3. CASE t[1].v <= 12 /\ t[3].v <= 12
        <3>1. ~(t[1].v > 12) /\ ~(t[3].v > 12)
            BY <1>3, <2>3
        <3> QED
            BY <1>2, <2>3, <3>1 DEF SplitMonthDay
    <2> QED
        BY <1>3, <2>1, <2>2, <2>3
<1>5. PICK o \in {MonthDayYear, DayMonthYear}, a \in {"none", "fieldOrder"} :
          /\ Settles(r, o, a)
          /\ a = "none" => \/ t[1].v > 12 /\ o = DayMonthYear
                           \/ t[3].v > 12 /\ o = MonthDayYear
          /\ a = "fieldOrder" => o = IF c.dayFirst THEN DayMonthYear ELSE MonthDayYear
          /\ t[1].v > 12 \/ t[3].v > 12 => a = "none"
    <2>1. CASE t[1].v > 12 /\ r = Roles(2, 1, "none")
        <3> WITNESS DayMonthYear \in {MonthDayYear, DayMonthYear}, "none" \in {"none", "fieldOrder"}
        <3> QED
            BY <2>1, RolesAreOrders
    <2>2. CASE t[1].v <= 12 /\ t[3].v > 12 /\ r = Roles(1, 2, "none")
        <3> WITNESS MonthDayYear \in {MonthDayYear, DayMonthYear}, "none" \in {"none", "fieldOrder"}
        <3> QED
            BY <2>2, RolesAreOrders
    <2>3. CASE /\ t[1].v <= 12 /\ t[3].v <= 12
               /\ r = IF c.dayFirst THEN Roles(2, 1, "fieldOrder") ELSE Roles(1, 2, "fieldOrder")
        <3> DEFINE o == IF c.dayFirst THEN DayMonthYear ELSE MonthDayYear
        <3>1. o \in {MonthDayYear, DayMonthYear}
            OBVIOUS
        <3>2. Settles(r, o, "fieldOrder")
            BY <2>3, RolesAreOrders
        <3>3. ~(t[1].v > 12) /\ ~(t[3].v > 12)
            BY <1>3, <2>3
        <3> HIDE DEF o, r
        <3>4. o = IF c.dayFirst THEN DayMonthYear ELSE MonthDayYear
            BY DEF o
        <3> WITNESS o \in {MonthDayYear, DayMonthYear}, "fieldOrder" \in {"none", "fieldOrder"}
        <3> QED
            BY <3>2, <3>3, <3>4
    <2> HIDE DEF r
    <2> QED
        BY <1>4, <2>1, <2>2, <2>3
<1>6. o = DayMonthYear => r.month = 2 /\ r.day = 1
    BY <1>5, OrdersAre DEF Settles
<1>7. o = MonthDayYear => r.month = 1 /\ r.day = 2
    BY <1>5, OrdersAre DEF Settles
<1>8. r.ok = TRUE /\ r.ambig = a /\ "ambig" \in DOMAIN r
    <2>1. \A m, d, e : "ambig" \in DOMAIN Roles(m, d, e)
        BY DEF Roles
    <2> QED
        BY <1>4, <1>5, <2>1 DEF Settles
<1>9. l = YearLast(p, r, alt)
    BY DEF YearLastRoles
<1> HIDE DEF r, l
<1>10. MonthAndDay(p, r)
    <2>1. NotNumeric.ok = FALSE
        BY DEF NotNumeric
    <2>2. l.ok
        BY DEF l, p
    <2> QED
        BY <1>9, <2>1, <2>2 DEF YearLast
<1>11. l = IF a = "none" /\ alt THEN [r EXCEPT !.ambig = "yearPosition"] ELSE r
    BY <1>8, <1>9, <1>10 DEF YearLast
<1> DEFINE b == IF a = "none" /\ alt THEN "yearPosition" ELSE a
<1>12. Settles(l, o, b) /\ b \in Guesses
    <2>1. Settles([r EXCEPT !.ambig = "yearPosition"], o, "yearPosition")
        BY <1>5, <1>8 DEF Settles
    <2>2. Settles(l, o, b)
        BY <1>5, <1>11, <2>1, Zenon
    <2>3. b \in Guesses
        BY <1>5 DEF Guesses
    <2> QED
        BY <2>2, <2>3
<1>13. /\ t[o.m].v \in 1..12 /\ t[o.m].w <= 2
       /\ t[o.d].v \in 1..31 /\ t[o.d].w <= 2
    BY <1>2, <1>5, <1>6, <1>7, <1>10, OrdersAre DEF MonthAndDay
<1>14. DayLike(t[o.m]) /\ DayLike(t[o.d])
    <2>1. IsNumber(t[o.m]) /\ IsNumber(t[o.d])
        BY <1>1, <1>5, OrdersAre
    <2>2. ASSUME NEW x, IsNumber(x), x.v \in 1..31, x.w <= 2
          PROVE  DayLike(x)
        <3>1. x.t = "num" /\ x.w \in Nat \ {0}
            BY <2>2 DEF IsNumber
        <3> QED
            BY <2>2, <3>1 DEF DayLike
    <2>3. t[o.m].v \in 1..31
        BY <1>13
    <2> QED
        BY <1>13, <2>1, <2>2, <2>3, Zenon
<1>15. b = "none" => \A q \in Orders : CouldRead(t, q) => q = o
    <2> SUFFICES ASSUME b = "none", NEW q \in Orders, CouldRead(t, q)
                 PROVE  q = o
        OBVIOUS
    <2>1. a = "none" /\ ~alt
        BY <1>5
    <2>2. q # YearMonthDay
        BY <2>1
    <2>3. t[1].v > 12 => q = DayMonthYear
        BY <1>3, <2>2, <1>needs DEF NeedsOfOrders, Orders
    <2>4. t[3].v > 12 => q = MonthDayYear
        BY <1>3, <2>2, <1>needs DEF NeedsOfOrders, Orders
    <2> QED
        BY <1>5, <2>1, <2>3, <2>4
<1>16. CouldRead(t, DayMonthYear) /\ CouldRead(t, MonthDayYear) =>
           o = IF c.dayFirst THEN DayMonthYear ELSE MonthDayYear
    <2> SUFFICES ASSUME CouldRead(t, DayMonthYear), CouldRead(t, MonthDayYear)
                 PROVE  o = IF c.dayFirst THEN DayMonthYear ELSE MonthDayYear
        OBVIOUS
    <2>1. ~(t[1].v > 12) /\ ~(t[3].v > 12)
        BY <1>needs, <1>small, Zenon DEF NeedsOfOrders, Small
    <2> QED
        BY <1>5, <2>1
<1>17. o \in Orders
    BY <1>5 DEF Orders
<1> HIDE DEF b
<1>18. Chosen(t, c, o, b)
    BY <1>12, <1>14, <1>15, <1>16, <1>17 DEF Chosen
<1> QED
    BY <1>12, <1>17, <1>18 DEF l, p

LEMMA RolesChosen ==
    ASSUME NEW t \in Seq(Token), IsTriple(t), NEW c,
           c.dayFirst \in BOOLEAN, c.yearFirst \in BOOLEAN,
           ResolveYearMonthDay(Parts(t), c).ok
    PROVE  \E o \in Orders, a \in Guesses :
               Settles(ResolveYearMonthDay(Parts(t), c), o, a) /\ Chosen(t, c, o, a)
<1> DEFINE p == Parts(t)
           r == ResolveYearMonthDay(p, c)
<1>1. IsNumber(t[1]) /\ IsNumber(t[3]) /\ IsNumber(t[5])
    BY TripleShape
<1>2. p[1] = t[1] /\ p[2] = t[3] /\ p[3] = t[5]
    BY PartsAre
<1>3. /\ t[1].v \in Nat /\ t[3].v \in Nat /\ t[5].v \in Nat
      /\ t[1].w \in Nat \ {0} /\ t[3].w \in Nat \ {0} /\ t[5].w \in Nat \ {0}
      /\ t[1].w = 1 => t[1].v <= 9
    BY <1>1 DEF IsNumber
<1>needs. NeedsOfOrders(t)
    BY CouldReadAre
<1>small. Small(t[1]) /\ Small(t[3]) /\ Small(t[5])
    BY <1>1, NumbersAreSmall
<1>4. NotNumeric.ok = FALSE
    BY DEF NotNumeric
<1>5. r.ok
    OBVIOUS
<1> HIDE DEF p, r
<1>6. YearIsLast(p) => ~CouldRead(t, YearMonthDay)
    BY <1>2, <1>needs, <1>small, Zenon DEF NeedsOfOrders, Small, YearIsLast
<1>7. YearIsFirst(p) => ~CouldRead(t, MonthDayYear) /\ ~CouldRead(t, DayMonthYear)
    BY <1>2, <1>needs, <1>small, Zenon DEF NeedsOfOrders, Small, YearIsFirst
<1>8. IsoOrderPossible(p) => DayLike(t[3]) /\ DayLike(t[5])
    BY <1>2, <1>small, Zenon DEF IsoOrderPossible, Small
<1>9. CASE YearIsLast(p)
    <2> DEFINE alt == FALSE
    <2>1. r = YearLastRoles(p, c, alt)
        BY <1>9 DEF ResolveYearMonthDay, r
    <2>2. alt \in BOOLEAN
        OBVIOUS
    <2> HIDE DEF alt
    <2> QED
        BY <1>5, <1>6, <1>9, <2>1, <2>2, YearLastChosen DEF p, r
<1>11. CASE ~YearIsLast(p) /\ YearIsFirst(p)
    <2>1. r = Roles(2, 3, "none") /\ IsoOrderPossible(p)
        BY <1>4, <1>5, <1>11 DEF ResolveYearMonthDay, r
    <2>2. DayLike(t[YearMonthDay.m]) /\ DayLike(t[YearMonthDay.d])
        BY <1>8, <2>1, OrdersAre
    <2>3. Chosen(t, c, YearMonthDay, "none")
        BY <1>7, <1>11, <2>2 DEF Chosen, Orders, Guesses
    <2>4. YearMonthDay \in Orders /\ "none" \in Guesses
        BY DEF Orders, Guesses
    <2> QED
        BY <2>1, <2>3, <2>4, RolesAreOrders DEF r, p
<1>12. CASE ~YearIsLast(p) /\ ~YearIsFirst(p) /\ c.yearFirst /\ YearFirstReadingExists(p)
    <2>1. r = Roles(2, 3, "yearPosition") /\ IsoOrderPossible(p)
        BY <1>4, <1>5, <1>12 DEF ResolveYearMonthDay, YearFirstReadingExists, r
    <2>2. DayLike(t[YearMonthDay.m]) /\ DayLike(t[YearMonthDay.d])
        BY <1>8, <2>1, OrdersAre
    <2>3. Chosen(t, c, YearMonthDay, "yearPosition")
        BY <1>12, <2>2 DEF Chosen, Orders, Guesses
    <2>4. YearMonthDay \in Orders /\ "yearPosition" \in Guesses
        BY DEF Orders, Guesses
    <2> QED
        BY <2>1, <2>3, <2>4, RolesAreOrders DEF r, p
<1>13. CASE ~YearIsLast(p) /\ ~YearIsFirst(p) /\ ~(c.yearFirst /\ YearFirstReadingExists(p))
    <2> DEFINE alt == YearFirstReadingExists(p)
    <2>1. r = YearLastRoles(p, c, alt)
        BY <1>13 DEF ResolveYearMonthDay, r
    <2>2. alt \in BOOLEAN
        BY DEF YearFirstReadingExists, IsoOrderPossible
    <2>3. CouldRead(t, YearMonthDay) => alt
        BY <1>2, <1>3, <1>13, <1>needs DEF NeedsOfOrders, YearFirstReadingExists, IsoOrderPossible, YearIsFirst
    <2> HIDE DEF alt
    <2> QED
        BY <1>5, <1>13, <2>1, <2>2, <2>3, YearLastChosen DEF p, r, alt
<1> QED
    BY <1>9, <1>11, <1>12, <1>13 DEF p, r

-----------------------------------------------------------------------------
\* The fields detection lays over a numeric date.

LEMMA KindsOfRoles ==
    ASSUME NEW w
    PROVE  /\ KindForRole("Y", w) = YearKindFor(w)
           /\ KindForRole("M", w) = MonthKindFor(w)
           /\ KindForRole("D", w) = DayKindFor(w)
    BY DEF KindForRole

LEMMA RolesOfOrders ==
    ASSUME NEW r, NEW a, NEW o, Settles(r, o, a)
    PROVE  /\ o = YearMonthDay => /\ RoleOf(r, 1) = "Y" /\ RoleOf(r, 2) = "M" /\ RoleOf(r, 3) = "D"
                                  /\ YearPart(r) = 1
           /\ o = MonthDayYear => /\ RoleOf(r, 1) = "M" /\ RoleOf(r, 2) = "D" /\ RoleOf(r, 3) = "Y"
                                  /\ YearPart(r) = 3
           /\ o = DayMonthYear => /\ RoleOf(r, 1) = "D" /\ RoleOf(r, 2) = "M" /\ RoleOf(r, 3) = "Y"
                                  /\ YearPart(r) = 3
<1>1. CASE o = YearMonthDay
    <2>1. r.month = 2 /\ r.day = 3
        BY <1>1, OrdersAre DEF Settles
    <2>2. RoleOf(r, 1) = "Y" /\ RoleOf(r, 2) = "M" /\ RoleOf(r, 3) = "D"
        BY <2>1 DEF RoleOf
    <2>3. YearPart(r) = 1
        BY <2>1 DEF YearPart
    <2> QED
        BY <1>1, <2>2, <2>3, OrdersDiffer
<1>2. CASE o = MonthDayYear
    <2>1. r.month = 1 /\ r.day = 2
        BY <1>2, OrdersAre DEF Settles
    <2>2. RoleOf(r, 1) = "M" /\ RoleOf(r, 2) = "D" /\ RoleOf(r, 3) = "Y"
        BY <2>1 DEF RoleOf
    <2>3. YearPart(r) = 3
        BY <2>1 DEF YearPart
    <2> QED
        BY <1>2, <2>2, <2>3, OrdersDiffer
<1>3. CASE o = DayMonthYear
    <2>1. r.month = 2 /\ r.day = 1
        BY <1>3, OrdersAre DEF Settles
    <2>2. RoleOf(r, 1) = "D" /\ RoleOf(r, 2) = "M" /\ RoleOf(r, 3) = "Y"
        BY <2>1 DEF RoleOf
    <2>3. YearPart(r) = 3
        BY <2>1 DEF YearPart
    <2> QED
        BY <1>3, <2>2, <2>3, OrdersDiffer
<1> QED
    BY <1>1, <1>2, <1>3

LEMMA FieldsOfFive ==
    ASSUME NEW a, NEW b, NEW c, NEW d, NEW e
    PROVE  LET s == <<a, b, c, d, e>>
           IN  /\ s[1] = a /\ s[2] = b /\ s[3] = c /\ s[4] = d /\ s[5] = e
               /\ DOMAIN s = 1..5 /\ Len(s) = 5
    OBVIOUS

\* A literal that stands for any of the three separators.
LEMMA SeparatorField ==
    ASSUME NEW x, x.w = 1
    PROVE  /\ Taking("Literal", x, "sep").kind = "Literal"
           /\ Taking("Literal", x, "sep").w = 1
           /\ Taking("Literal", x, "sep").aux = "sep"
           /\ {"kind", "w"} \subseteq DOMAIN Taking("Literal", x, "sep")
    BY DEF Taking, Field

LEMMA FieldIsField ==
    ASSUME NEW k, NEW x
    PROVE  /\ Field(k, x).kind = k /\ Field(k, x).w = x.w
           /\ {"kind", "w"} \subseteq DOMAIN Field(k, x)
    BY DEF Field

LEMMA DatePartsAre ==
    ASSUME NEW t, NEW roles
    PROVE  LET fs == DatePartFields(Parts(t), roles)
           IN  /\ DOMAIN fs = 1..5 /\ Len(fs) = 5 /\ AreFields(fs)
               /\ fs[1].kind = KindForRole(roles[1], t[1].w) /\ fs[1].w = t[1].w
               /\ fs[3].kind = KindForRole(roles[2], t[3].w) /\ fs[3].w = t[3].w
               /\ fs[5].kind = KindForRole(roles[3], t[5].w) /\ fs[5].w = t[5].w
               /\ \A i \in {2, 4} : fs[i].kind = "Literal" /\ fs[i].w = 1 /\ fs[i].aux = "sep"
<1> DEFINE p == Parts(t)
           num(i) == Field(KindForRole(roles[i], p[i].w), p[i])
           slash == Byte("/")
           sep == Taking("Literal", slash, "sep")
           fs == <<num(1), sep, num(2), sep, num(3)>>
<1>1. DatePartFields(p, roles) = fs
    BY Zenon DEF DatePartFields
<1>2. \A i : /\ num(i).kind = KindForRole(roles[i], p[i].w) /\ num(i).w = p[i].w
              /\ {"kind", "w"} \subseteq DOMAIN num(i)
    BY FieldIsField
<1>3. p[1] = t[1] /\ p[2] = t[3] /\ p[3] = t[5]
    BY PartsAre
<1>4. \A c : Byte(c).w = 1
    BY DEF Byte
<1>5. slash.w = 1
    BY <1>4, Zenon
<1> HIDE DEF p, num, slash
<1>6. sep.kind = "Literal" /\ sep.w = 1 /\ sep.aux = "sep" /\ {"kind", "w"} \subseteq DOMAIN sep
    BY <1>5, SeparatorField
<1> HIDE DEF sep
<1>7. /\ fs[1] = num(1) /\ fs[2] = sep /\ fs[3] = num(2) /\ fs[4] = sep /\ fs[5] = num(3)
      /\ DOMAIN fs = 1..5 /\ Len(fs) = 5
    BY FieldsOfFive
<1> HIDE DEF fs
<1>8. AreFields(fs)
    <2>1. \A i \in 1..5 : i = 1 \/ i = 2 \/ i = 3 \/ i = 4 \/ i = 5
        OBVIOUS
    <2> QED
        BY <1>2, <1>6, <1>7, <2>1, ZenonT(60) DEF AreFields
<1> QED
    BY <1>1, <1>2, <1>3, <1>6, <1>7, <1>8 DEF p

\* A number of one or two digits has a place for a month and for a day, and one
\* of two or four for a year.
LEMMA KindsExist ==
    ASSUME NEW x, IsNumber(x)
    PROVE  /\ DayLike(x) <=> MonthKindFor(x.w) # "none"
           /\ DayLike(x) <=> DayKindFor(x.w) # "none"
           /\ YearLike(x) <=> YearKindFor(x.w) # "none"
<1>1. x.w \in Nat /\ x.t = "num"
    BY DEF IsNumber
<1>2. YearKindFor(x.w) = "none" <=> x.w \notin {2, 4}
    BY <1>1, NumberKinds
<1>3. MonthKindFor(x.w) = "none" <=> x.w \notin {1, 2}
    BY <1>1, NumberKinds
<1>4. DayKindFor(x.w) = "none" <=> x.w \notin {1, 2}
    BY <1>1, NumberKinds
<1> QED
    BY <1>1, <1>2, <1>3, <1>4, Zenon DEF DayLike, YearLike

\* The roles of the three numbers in an order.
RolesIn(o, roles) ==
    \/ o = YearMonthDay /\ roles[1] = "Y" /\ roles[2] = "M" /\ roles[3] = "D"
    \/ o = MonthDayYear /\ roles[1] = "M" /\ roles[2] = "D" /\ roles[3] = "Y"
    \/ o = DayMonthYear /\ roles[1] = "D" /\ roles[2] = "M" /\ roles[3] = "Y"

\* Fields whose kinds are those of an order read the numbers in that order.
LEMMA FieldsInOrder ==
    ASSUME NEW t \in Seq(Token), IsTriple(t), NEW o, NEW roles, RolesIn(o, roles), NEW fs,
           DOMAIN fs = 1..5, Len(fs) = 5, AreFields(fs),
           fs[1].kind = KindForRole(roles[1], t[1].w), fs[1].w = t[1].w,
           fs[3].kind = KindForRole(roles[2], t[3].w), fs[3].w = t[3].w,
           fs[5].kind = KindForRole(roles[3], t[5].w), fs[5].w = t[5].w,
           \A i \in {2, 4} : fs[i].kind = "Literal" /\ fs[i].w = 1 /\ fs[i].aux = "sep",
           YearLike(t[o.y]), DayLike(t[o.m]), DayLike(t[o.d])
    PROVE  FieldsIn(t, o, fs)
<1>1. IsNumber(t[1]) /\ IsNumber(t[3]) /\ IsNumber(t[5])
    BY TripleShape
<1>2. CASE o = YearMonthDay
    <2>1. roles[1] = "Y" /\ roles[2] = "M" /\ roles[3] = "D"
        BY <1>2, OrdersDiffer DEF RolesIn
    <2>2. /\ fs[1].kind = YearKindFor(t[1].w) /\ fs[3].kind = MonthKindFor(t[3].w)
          /\ fs[5].kind = DayKindFor(t[5].w)
        BY <2>1, KindsOfRoles
    <2>3. fs[1].kind # "none" /\ fs[3].kind # "none" /\ fs[5].kind # "none"
        BY <1>1, <1>2, <2>2, KindsExist, OrdersAre
    <2> QED
        BY <1>2, <2>2, <2>3, OrdersAre DEF FieldsIn
<1>3. CASE o = MonthDayYear
    <2>1. roles[1] = "M" /\ roles[2] = "D" /\ roles[3] = "Y"
        BY <1>3, OrdersDiffer DEF RolesIn
    <2>2. /\ fs[1].kind = MonthKindFor(t[1].w) /\ fs[3].kind = DayKindFor(t[3].w)
          /\ fs[5].kind = YearKindFor(t[5].w)
        BY <2>1, KindsOfRoles
    <2>3. fs[1].kind # "none" /\ fs[3].kind # "none" /\ fs[5].kind # "none"
        BY <1>1, <1>3, <2>2, KindsExist, OrdersAre
    <2> QED
        BY <1>3, <2>2, <2>3, OrdersAre DEF FieldsIn
<1>4. CASE o = DayMonthYear
    <2>1. roles[1] = "D" /\ roles[2] = "M" /\ roles[3] = "Y"
        BY <1>4, OrdersDiffer DEF RolesIn
    <2>2. /\ fs[1].kind = DayKindFor(t[1].w) /\ fs[3].kind = MonthKindFor(t[3].w)
          /\ fs[5].kind = YearKindFor(t[5].w)
        BY <2>1, KindsOfRoles
    <2>3. fs[1].kind # "none" /\ fs[3].kind # "none" /\ fs[5].kind # "none"
        BY <1>1, <1>4, <2>2, KindsExist, OrdersAre
    <2> QED
        BY <1>4, <2>2, <2>3, OrdersAre DEF FieldsIn
<1> QED
    BY <1>2, <1>3, <1>4 DEF RolesIn

\* A format that reads a numeric date in the order these options choose.
ReadsInOrder(t, c, r) ==
    \E o \in Orders, a \in Guesses :
        /\ r.ambig = a /\ FieldsIn(t, o, r.fields) /\ YearLike(t[o.y])
        /\ Chosen(t, c, o, a)

LEMMA NumericFieldsRead ==
    ASSUME NEW t \in Seq(Token), IsTriple(t), NEW c,
           c.dayFirst \in BOOLEAN, c.yearFirst \in BOOLEAN,
           NumericFields(Parts(t), ResolveYearMonthDay(Parts(t), c)).ok
    PROVE  ReadsInOrder(t, c, NumericFields(Parts(t), ResolveYearMonthDay(Parts(t), c)))
<1> DEFINE p == Parts(t)
           r == ResolveYearMonthDay(p, c)
           roles == [i \in 1..3 |-> RoleOf(r, i)]
           f == NumericFields(p, r)
<1>1. f = IF r.ok /\ p[YearPart(r)].w \in {2, 4}
          THEN [ok |-> TRUE, ambig |-> r.ambig, prone |-> TRUE, fields |-> DatePartFields(p, roles)]
          ELSE NotNumeric
    BY DEF NumericFields, NumericFormat
<1>2. f.ok /\ NotNumeric.ok = FALSE
    BY DEF NotNumeric
<1>3. r.ok /\ p[YearPart(r)].w \in {2, 4}
    <2> HIDE DEF r, p, f, roles
    <2> QED
        BY <1>1, <1>2
<1>4. f.ambig = r.ambig /\ f.fields = DatePartFields(p, roles)
    <2> HIDE DEF r, p, roles
    <2>1. f = [ok |-> TRUE, ambig |-> r.ambig, prone |-> TRUE, fields |-> DatePartFields(p, roles)]
        BY <1>1, <1>3
    <2> HIDE DEF f
    <2> QED
        BY <2>1
<1>5. PICK o \in Orders, a \in Guesses : Settles(r, o, a) /\ Chosen(t, c, o, a)
    BY <1>3, RolesChosen
<1>6. RolesIn(o, roles) /\ (o = YearMonthDay => YearPart(r) = 1)
      /\ (o \in {MonthDayYear, DayMonthYear} => YearPart(r) = 3)
    <2>1. roles[1] = RoleOf(r, 1) /\ roles[2] = RoleOf(r, 2) /\ roles[3] = RoleOf(r, 3)
        OBVIOUS
    <2> HIDE DEF r, roles
    <2> QED
        BY <1>5, <2>1, RolesOfOrders DEF RolesIn, Orders
<1>7. YearLike(t[o.y])
    <2>1. p[1] = t[1] /\ p[3] = t[5]
        BY PartsAre
    <2>2. t[1].t = "num" /\ t[5].t = "num"
        BY TripleShape DEF IsNumber
    <2> HIDE DEF r, p
    <2> QED
        BY <1>3, <1>6, <2>1, <2>2, OrdersAre DEF YearLike, Orders
<1>8. FieldsIn(t, o, f.fields)
    <2>1. DayLike(t[o.m]) /\ DayLike(t[o.d])
        BY <1>5 DEF Chosen
    <2> HIDE DEF r, roles, f
    <2> QED
        BY <1>4, <1>6, <1>7, <2>1, DatePartsAre, FieldsInOrder
<1>9. f.ambig = a
    BY <1>4, <1>5 DEF Settles
<1> HIDE DEF f
<1>10. ReadsInOrder(t, c, f)
    BY <1>5, <1>7, <1>8, <1>9 DEF ReadsInOrder
<1> QED
    BY <1>10 DEF f, p, r

\* The options as a date written with dots sees them: the day is first.
OptionsFor(t, cfg) == IF t[2].c = "." THEN DayFirst(cfg) ELSE cfg

LEMMA NumericFormatReads ==
    ASSUME NEW t \in Seq(Token), IsTriple(t), NEW cfg \in AnOption,
           ResolveAmbiguousFields(Parts(t), t[2].c, cfg).ok
    PROVE  ReadsInOrder(t, OptionsFor(t, cfg), ResolveAmbiguousFields(Parts(t), t[2].c, cfg))
<1>1. ResolveAmbiguousFields(Parts(t), t[2].c, cfg)
          = NumericFields(Parts(t), ResolveYearMonthDay(Parts(t), OptionsFor(t, cfg)))
    BY Zenon DEF ResolveAmbiguousFields, OptionsFor, DayFirst
<1>2. /\ cfg.dayFirst \in BOOLEAN /\ cfg.yearFirst \in BOOLEAN
      /\ DayFirst(cfg).dayFirst \in BOOLEAN /\ DayFirst(cfg).yearFirst \in BOOLEAN
    BY DEF AnOption, DayFirst
<1>3. OptionsFor(t, cfg).dayFirst \in BOOLEAN /\ OptionsFor(t, cfg).yearFirst \in BOOLEAN
    BY <1>2, Zenon DEF OptionsFor
<1> QED
    BY <1>1, <1>3, NumericFieldsRead

-----------------------------------------------------------------------------
\* The table has one shape of three numbers between separators.

ISODate == <<"Year4", "sep", "Month2", "sep", "Day2">>
TimeHMS == <<"Hour24", "colon", "Minute2", "colon", "Second2">>

LEMMA TableLengths ==
    ASSUME NEW n \in DOMAIN Table, Len(Table[n]) = 5
    PROVE  Table[n] = ISODate \/ Table[n] = TimeHMS
<1>1. \A a : Len(<<a>>) = 1
    OBVIOUS
<1>2. \A a, b, c : Len(<<a, b, c>>) = 3
    OBVIOUS
<1>3. \A a, b, c, d, e, f, g, h, i, j, k : Len(<<a, b, c, d, e, f, g, h, i, j, k>>) = 11
    OBVIOUS
<1> QED
    BY <1>1, <1>2, <1>3 DEF Table, ISODate, TimeHMS

LEMMA TableFitsISODate ==
    ASSUME NEW t \in Seq(Token), IsTriple(t), NEW n \in DOMAIN Table, FitsShape(t, Table[n])
    PROVE  Table[n] = ISODate
<1>1. Len(t) = 5 /\ DOMAIN t = 1..5 /\ "colon" \notin ClassesOf(t[2])
    BY TripleShape DEF IsSeparator
<1>2. Table[n] = ISODate \/ Table[n] = TimeHMS
    BY <1>1, TableLengths DEF FitsShape
<1>3. ASSUME Table[n] = TimeHMS
      PROVE  FALSE
    <2>1. TimeHMS[2] = "colon" /\ "colon" \in SeparatorClasses /\ 2 \in 1..5
        BY DEF TimeHMS, SeparatorClasses
    <2>2. TimeHMS[2] \in ClassesOf(t[2])
        BY <1>1, <1>3, <2>1, Zenon DEF FitsShape
    <2> QED
        BY <1>1, <2>1, <2>2
<1> QED
    BY <1>2, <1>3

LEMMA FunctionIsSequence ==
    ASSUME NEW X, NEW n \in Nat, NEW f \in [1..n -> X]
    PROVE  f \in Seq(X) /\ Len(f) = n
    OBVIOUS

\* And it reads the year first.
LEMMA TableReads ==
    ASSUME NEW t \in Seq(Token), IsTriple(t), NEW c, FitsShape(t, ISODate), NEW r,
           r.ambig = "none", r.fields = TableFields(t, ISODate)
    PROVE  ReadsInOrder(t, c, r)
<1> DEFINE fs == TableFields(t, ISODate)
           o == YearMonthDay
<1>1. /\ Len(t) = 5 /\ DOMAIN t = 1..5
      /\ IsNumber(t[1]) /\ IsNumber(t[3]) /\ IsNumber(t[5])
      /\ IsSeparator(t[2]) /\ IsSeparator(t[4])
    BY TripleShape
<1>2. /\ ISODate[1] = "Year4" /\ ISODate[2] = "sep" /\ ISODate[3] = "Month2"
      /\ ISODate[4] = "sep" /\ ISODate[5] = "Day2"
    BY DEF ISODate
<1>3. /\ ISODate[1] \notin SeparatorClasses /\ ISODate[2] \in SeparatorClasses
      /\ ISODate[3] \notin SeparatorClasses /\ ISODate[4] \in SeparatorClasses
      /\ ISODate[5] \notin SeparatorClasses
    BY <1>2 DEF SeparatorClasses
<1>4. t[1].w = 4 /\ t[3].w = 2 /\ t[5].w = 2
    <2>1. \A i \in 1..5 : ISODate[i] \notin SeparatorClasses =>
              t[i].w = IF ISODate[i] = "Year4" THEN 4 ELSE 2
        BY <1>1, Zenon DEF FitsShape
    <2>2. 1 \in 1..5 /\ 3 \in 1..5 /\ 5 \in 1..5
        OBVIOUS
    <2>3. "Month2" # "Year4" /\ "Day2" # "Year4"
        OBVIOUS
    <2> QED
        BY <1>2, <1>3, <2>1, <2>2, <2>3
<1>5. /\ fs[1] = Field("Year4", t[1]) /\ fs[3] = Field("Month2", t[3]) /\ fs[5] = Field("Day2", t[5])
      /\ fs[2] = Taking("Literal", t[2], "sep") /\ fs[4] = Taking("Literal", t[4], "sep")
    <2>1. \A i \in 1..5 : fs[i] = IF ISODate[i] \in SeparatorClasses
                                  THEN Taking("Literal", t[i], ISODate[i])
                                  ELSE Field(ISODate[i], t[i])
        BY <1>1, Zenon DEF TableFields
    <2>2. 1 \in 1..5 /\ 2 \in 1..5 /\ 3 \in 1..5 /\ 4 \in 1..5 /\ 5 \in 1..5
        OBVIOUS
    <2> HIDE DEF fs
    <2> QED
        BY <1>2, <1>3, <2>1, <2>2
<1>6. DOMAIN fs = 1..5 /\ Len(fs) = 5
    <2>1. fs = [i \in 1..5 |-> fs[i]]
        BY <1>1, Zenon DEF TableFields
    <2> DEFINE X == {fs[i] : i \in 1..5}
    <2>2. \A i \in 1..5 : fs[i] \in X
        OBVIOUS
    <2> DEFINE n == 5
    <2>3. n \in Nat /\ n = 5
        OBVIOUS
    <2> HIDE DEF fs, X, n
    <2>4. fs \in [1..n -> X]
        BY <2>1, <2>2, <2>3
    <2>5. Len(fs) = n
        BY <2>3, <2>4, FunctionIsSequence
    <2> QED
        BY <2>3, <2>4, <2>5
<1> HIDE DEF fs
<1>7. /\ \A i \in {2, 4} : fs[i].kind = "Literal" /\ fs[i].w = 1 /\ fs[i].aux = "sep"
      /\ \A k, x : Field(k, x).kind = k /\ Field(k, x).w = x.w
    <2>1. t[2].w = 1 /\ t[4].w = 1
        BY <1>1 DEF IsSeparator
    <2>2. \A k, x : Field(k, x).kind = k /\ Field(k, x).w = x.w
        BY DEF Field
    <2> QED
        BY <1>5, <2>1, <2>2, SeparatorField
<1>fields. AreFields(fs)
    <2>1. \A i \in 1..5 : i = 1 \/ i = 2 \/ i = 3 \/ i = 4 \/ i = 5
        OBVIOUS
    <2>2. t[2].w = 1 /\ t[4].w = 1
        BY <1>1 DEF IsSeparator
    <2>3. /\ {"kind", "w"} \subseteq DOMAIN fs[1] /\ {"kind", "w"} \subseteq DOMAIN fs[2]
          /\ {"kind", "w"} \subseteq DOMAIN fs[3] /\ {"kind", "w"} \subseteq DOMAIN fs[4]
          /\ {"kind", "w"} \subseteq DOMAIN fs[5]
        BY <1>5, <2>2, SeparatorField, FieldIsField
    <2> QED
        BY <2>1, <2>3, Zenon DEF AreFields
<1>8. /\ YearKindFor(t[1].w) = "Year4" /\ MonthKindFor(t[3].w) = "Month2"
      /\ DayKindFor(t[5].w) = "Day2"
    BY <1>4, NumberKinds
<1>9. FieldsIn(t, o, fs)
    <2>1. /\ fs[1].kind = "Year4" /\ fs[1].w = t[1].w
          /\ fs[3].kind = "Month2" /\ fs[3].w = t[3].w
          /\ fs[5].kind = "Day2" /\ fs[5].w = t[5].w
        BY <1>5, <1>7
    <2>2. "Year4" # "none" /\ "Month2" # "none" /\ "Day2" # "none"
        OBVIOUS
    <2> QED
        BY <1>6, <1>7, <1>8, <1>fields, <2>1, <2>2, OrdersAre DEF FieldsIn
<1>10. YearLike(t[o.y]) /\ DayLike(t[o.m]) /\ DayLike(t[o.d])
    <2>1. t[1].t = "num" /\ t[3].t = "num" /\ t[5].t = "num"
        BY <1>1 DEF IsNumber
    <2> QED
        BY <1>4, <2>1, OrdersAre DEF YearLike, DayLike
<1>11. ~CouldRead(t, MonthDayYear) /\ ~CouldRead(t, DayMonthYear)
    <2>1. ~(t[1].w <= 2)
        BY <1>4
    <2> QED
        BY <2>1, OrdersAre, Zenon DEF CouldRead
<1>12. Chosen(t, c, o, "none")
    BY <1>10, <1>11 DEF Chosen, Orders, Guesses
<1>13. o \in Orders /\ "none" \in Guesses
    BY DEF Orders, Guesses
<1> HIDE DEF o
<1>14. FieldsIn(t, o, r.fields)
    BY <1>9 DEF fs
<1> QED
    BY <1>10, <1>12, <1>13, <1>14 DEF ReadsInOrder

-----------------------------------------------------------------------------
\* Whatever detection answers for a numeric date is a format that reads it in
\* the order the options choose.
LEMMA DetectionReads ==
    ASSUME NEW t \in Seq(Token), IsTriple(t), NEW cfg \in AnOption, DetectShape(t, cfg).ok
    PROVE  ReadsInOrder(t, OptionsFor(t, cfg), DetectShape(t, cfg))
<1> DEFINE r == DetectFormat(t, cfg)
           n == ResolveAmbiguousFields(Parts(t), t[2].c, cfg)
           entries == {e \in DOMAIN Table : FitsShape(t, Table[e])}
<1>1. DetectShape(t, cfg) = r /\ r.ok
    <2>1. NoFormat.ok = FALSE
        BY DEF NoFormat
    <2> HIDE DEF r
    <2> QED
        BY <2>1, Zenon DEF DetectShape, Meaningless, r
<1>2. Len(t) = 5 /\ t[2] = t[4] /\ ~(Len(t) > 5)
    <2>1. Len(t) = 5 /\ t[2] = t[4]
        BY TripleShape
    <2>2. ~(5 > 5)
        OBVIOUS
    <2> QED
        BY <2>1, <2>2
<1>3. CASE IsNumericSep(t)
    <2>1. r = n
        BY <1>2, <1>3, Zenon DEF DetectFormat, ResolveAmbiguous
    <2> QED
        BY <1>1, <2>1, NumericFormatReads
<1>4. CASE ~IsNumericSep(t) /\ entries # {}
    <2>1. PICK e \in entries : e = CHOOSE m \in entries : TRUE
        BY <1>4
    <2>2. Table[e] = ISODate /\ FitsShape(t, ISODate)
        BY TableFitsISODate
    <2>3. r = [ok |-> TRUE, ambig |-> "none", prone |-> FALSE, fields |-> TableFields(t, ISODate)]
        BY <1>4, <2>1, <2>2, Zenon DEF DetectFormat
    <2> HIDE DEF r
    <2>4. r.ambig = "none" /\ r.fields = TableFields(t, ISODate)
        BY <2>3
    <2> QED
        BY <1>1, <2>2, <2>4, TableReads
<1>5. CASE ~IsNumericSep(t) /\ entries = {}
    <2>1. ~HasLetter(t)
        <3>1. ASSUME NEW i \in DOMAIN t
              PROVE  t[i].t \notin {"month", "word"}
            <4>1. i \in 1..5
                BY TripleShape
            <4>2. t[i].t = "num" \/ t[i].t = "byte"
                BY <4>1, TripleShape DEF IsNumber, IsSeparator
            <4> QED
                BY <4>2
        <3> QED
            BY <3>1 DEF HasLetter
    <2>2. NotTextual.ok = FALSE /\ NoFormat.ok = FALSE
        BY DEF NotTextual, NoFormat
    <2>3. r = FirstOf(NotTextual, DetectVariableNumeric(t, cfg))
        BY <1>5, <2>1, Zenon DEF DetectFormat
    <2>4. r = DetectVariableNumeric(t, cfg)
        BY <2>2, <2>3, Zenon DEF FirstOf
    <2>5. IsVariableNumeric(t)
        BY <1>1, <2>2, <2>4, Zenon DEF DetectVariableNumeric
    <2>6. r = WithTimeSuffix(t, n, TimeComponent(t, 6))
        BY <2>4, <2>5, Zenon DEF DetectVariableNumeric
    <2>7. r = n
        BY <1>2, <2>6, Zenon DEF WithTimeSuffix
    <2> QED
        BY <1>1, <2>7, NumericFormatReads
<1> QED
    BY <1>3, <1>4, <1>5

-----------------------------------------------------------------------------
\* What a parse answers for a numeric date.

\* An answer that reads t in the order the options choose.
AnswersInOrder(t, c, p) ==
    \E o \in Orders, a \in Guesses :
        /\ Chosen(t, c, o, a) /\ IsReading(t, o)
        /\ p.time = MidnightOf(DateIn(t, o)).time
        /\ p.ambiguous = (a # "none")

LEMMA TripleIsNoPhrase ==
    ASSUME NEW t \in Seq(Token), IsTriple(t), NEW cfg, NEW year
    PROVE  ~IsEpoch(t) /\ ParseNatural(t, cfg, year) = Err("noMatch")
<1>1. Len(t) = 5 /\ ~(5 = 1)
    BY TripleShape
<1>2. ~IsEpoch(t)
    BY <1>1, Zenon DEF IsEpoch
<1>3. \A x : Len(<<x>>) = 1
    OBVIOUS
<1>4. \A x : t # <<x>>
    BY <1>1, <1>3, Zenon
<1>5. NaturalReadings(t, cfg.locales, year) = <<>>
    BY <1>4, Zenon DEF NaturalReadings
<1>6. ParseNatural(t, cfg, year) = Err("noMatch")
    BY <1>5 DEF ParseNatural
<1> QED
    BY <1>2, <1>6

LEMMA CompiledKeepsFormat ==
    ASSUME NEW r, NEW cfg
    PROVE  /\ CompileFor(r, cfg, ThisYear).fields = r.fields
           /\ CompileFor(r, cfg, ThisYear).ambig = r.ambig
    BY DEF CompileFor, Compile, Layout

LEMMA TripleIsAnswered ==
    ASSUME NEW t \in Seq(Token), IsTriple(t), NEW cfg \in AnOption,
           ParseTrimmed(t, cfg, ThisYear).ok
    PROVE  AnswersInOrder(t, OptionsFor(t, cfg), ParseTrimmed(t, cfg, ThisYear))
<1> DEFINE r == DetectShape(t, cfg)
           p == ParseTrimmed(t, cfg, ThisYear)
           guess == cfg.strict /\ r.ambig # "none"
           l == CompileFor(r, cfg, ThisYear)
<1>1. p = ParseAfter(t, r, cfg, ThisYear) /\ p.ok
    BY DEF ParseTrimmed
<1>2. ~IsEpoch(t) /\ ParseNatural(t, cfg, BaseYear(cfg, ThisYear)) = Err("noMatch")
    BY TripleIsNoPhrase
<1>3. Err("noMatch").ok = FALSE
    BY DEF Err
<1>4. ASSUME guess, r.ok
      PROVE  p.ok = FALSE
    <2> HIDE DEF r, p
    <2>1. p = BuildAmbiguousError(t, r, cfg, ThisYear)
        BY <1>1, <1>4, Zenon DEF ParseAfter
    <2> QED
        BY <2>1 DEF BuildAmbiguousError, AmbiguousError
<1>5. r.ok
    <2> HIDE DEF r, p
    <2> SUFFICES ASSUME ~r.ok
                 PROVE  FALSE
        OBVIOUS
    <2>1. p = ParseNatural(t, cfg, BaseYear(cfg, ThisYear))
        BY <1>1, <1>2, Zenon DEF ParseAfter
    <2> QED
        BY <1>1, <1>2, <1>3, <2>1
<1>6. p = Executed(Execute(l, t), l, l.ambig # "none")
    <2> HIDE DEF r, p
    <2>1. ~guess
        BY <1>1, <1>4, <1>5
    <2>2. p = ParseDetected(t, r, cfg, ThisYear)
        BY <1>1, <1>5, <2>1, Zenon DEF ParseAfter
    <2> QED
        BY <2>2, Zenon DEF ParseDetected, RunOn
<1>7. l.fields = r.fields /\ l.ambig = r.ambig
    BY CompiledKeepsFormat
<1>8. ReadsInOrder(t, OptionsFor(t, cfg), r)
    BY <1>5, DetectionReads
<1> HIDE DEF r, p, l
<1>9. PICK o \in Orders, a \in Guesses :
          r.ambig = a /\ FieldsIn(t, o, r.fields) /\ Chosen(t, OptionsFor(t, cfg), o, a)
    BY <1>8 DEF ReadsInOrder
<1>10. Execute(l, t) = IF IsReading(t, o) THEN MidnightOf(DateIn(t, o)) ELSE Refused
    BY <1>7, <1>9, OrdersPlace, ExecuteInOrder
<1>11. Execute(l, t).ok
    BY <1>1, <1>3, <1>6 DEF Executed
<1>12. IsReading(t, o) /\ Execute(l, t) = MidnightOf(DateIn(t, o))
    BY <1>10, <1>11 DEF Refused
<1>13. p = Parsed(Execute(l, t).time, l, l.ambig # "none", "absolute")
    BY <1>6, <1>11 DEF Executed
<1>14. p.time = Execute(l, t).time /\ p.ambiguous = (l.ambig # "none")
    BY <1>13 DEF Parsed
<1>15. AnswersInOrder(t, OptionsFor(t, cfg), p)
    BY <1>7, <1>9, <1>12, <1>14, Zenon DEF AnswersInOrder
<1> QED
    BY <1>15 DEF p

-----------------------------------------------------------------------------
\* The answer, and the dates a numeric date can mean.

LEMMA MidnightIsDate ==
    ASSUME NEW t, NEW o
    PROVE  LET time == MidnightOf(DateIn(t, o)).time
           IN  Date(time.y, time.m, time.d) = DateIn(t, o)
    BY DEF MidnightOf, At, DateIn, Date

LEMMA OptionsForAre ==
    ASSUME NEW t, NEW cfg \in AnOption
    PROVE  /\ OptionsFor(t, cfg).dayFirst = (cfg.dayFirst \/ t[2].c = ".")
           /\ OptionsFor(t, cfg).yearFirst = cfg.yearFirst
<1>1. /\ DayFirst(cfg).dayFirst = TRUE /\ DayFirst(cfg).yearFirst = cfg.yearFirst
      /\ cfg.dayFirst \in BOOLEAN
    BY DEF AnOption, DayFirst
<1>2. CASE t[2].c = "."
    <2>1. OptionsFor(t, cfg) = DayFirst(cfg)
        BY <1>2, Zenon DEF OptionsFor
    <2> QED
        BY <1>1, <1>2, <2>1, Zenon
<1>3. CASE ~(t[2].c = ".")
    <2>1. OptionsFor(t, cfg) = cfg
        BY <1>3, Zenon DEF OptionsFor
    <2> QED
        BY <1>1, <1>3, <2>1, Zenon
<1> QED
    BY <1>2, <1>3, Zenon

\* The tokens of an input, and what is left of it between its padding.
LEMMA InputsAreTokens ==
    ASSUME NEW s \in Inputs
    PROVE  TrimPadding(s) \in Seq(Token)
<1> DEFINE X == [t : {"num", "byte", "month", "word"}, v : Nat, w : Nat, c : STRING]
<1>1. s \in Seq(X)
    BY InputsAssumption
<1>2. \A i \in DOMAIN s : IsToken(s[i])
    BY TokensAssumption
<1> HIDE DEF X
<1>3. Len(s) \in Nat /\ DOMAIN s = 1..Len(s) /\ s \in [1..Len(s) -> X]
    BY <1>1, LenProperties
<1>4. \A i \in DOMAIN s : s[i] \in Token
    BY <1>2, <1>3 DEF Token, X
<1>5. s \in [1..Len(s) -> Token]
    BY <1>3, <1>4
<1>6. s \in Seq(Token)
    BY <1>3, <1>5, FunctionIsSequence
<1> QED
    BY <1>6, TrimmedIsASequence

\* The call just made parsed a numeric date.
NumericCall == last.op = "parse" /\ IsTriple(TrimPadding(last.input))

LEMMA NumericCallIs ==
    ASSUME IInv, NumericCall
    PROVE  /\ TrimPadding(last.input) \in Seq(Token) /\ last.cfg \in AnOption
           /\ last.out = ParseTrimmed(TrimPadding(last.input), last.cfg, ThisYear)
<1>1. last # NoCall
    BY OpsDiffer DEF NumericCall
<1>2. /\ last.input \in Inputs /\ last.cfg \in Configs
      /\ last.out = ParseWithConfig(last.input, last.cfg, ThisYear)
    BY <1>1 DEF IInv, LastAnswered, NumericCall
<1> QED
    BY <1>2, InputsAreTokens, ConfigsAssumption DEF ParseWithConfig, AnOption

\* The date answered is a reading of the value, in the order the options choose.
LEMMA AnsweredReads ==
    ASSUME IInv, NumericCall, last.out.ok
    PROVE  LET t == TrimPadding(last.input)
           IN  \E o \in Orders, a \in Guesses :
                   /\ Chosen(t, OptionsFor(t, last.cfg), o, a) /\ IsReading(t, o)
                   /\ DateAnswered = DateIn(t, o)
                   /\ last.out.ambiguous = (a # "none")
<1> DEFINE t == TrimPadding(last.input)
<1>1. /\ t \in Seq(Token) /\ IsTriple(t) /\ last.cfg \in AnOption
      /\ last.out = ParseTrimmed(t, last.cfg, ThisYear)
    BY NumericCallIs DEF NumericCall
<1> HIDE DEF t
<1>2. AnswersInOrder(t, OptionsFor(t, last.cfg), last.out)
    BY <1>1, TripleIsAnswered
<1>3. PICK o \in Orders, a \in Guesses :
          /\ Chosen(t, OptionsFor(t, last.cfg), o, a) /\ IsReading(t, o)
          /\ last.out.time = MidnightOf(DateIn(t, o)).time
          /\ last.out.ambiguous = (a # "none")
    BY <1>2, Zenon DEF AnswersInOrder
<1>4. DateAnswered = DateIn(t, o)
    BY <1>3, MidnightIsDate DEF DateAnswered
<1> QED
    BY <1>3, <1>4 DEF t

LEMMA AnsweredHonours == IInv => PreferenceHonoured
<1> SUFFICES ASSUME IInv, ParsedDate, IsTriple(TrimPadding(last.input))
             PROVE  LET s == TrimPadding(last.input)
                        possible  == {o \in Orders : IsReading(s, o)}
                        yearFirst == YearMonthDay \in possible /\ last.cfg.yearFirst
                        yearLast  == ~yearFirst /\ {DayMonthYear, MonthDayYear} \subseteq possible
                        dayFirst  == last.cfg.dayFirst \/ s[2].c = "."
                    IN  /\ \E o \in possible : DateAnswered = DateIn(s, o)
                        /\ yearFirst => DateAnswered = DateIn(s, YearMonthDay)
                        /\ yearLast => DateAnswered = DateIn(s, IF dayFirst THEN DayMonthYear
                                                               ELSE MonthDayYear)
    BY Zenon DEF PreferenceHonoured
<1> DEFINE t == TrimPadding(last.input)
           c == OptionsFor(t, last.cfg)
           possible == {o \in Orders : IsReading(t, o)}
           dayFirst == last.cfg.dayFirst \/ t[2].c = "."
<1>1. NumericCall /\ last.out.ok
    BY DEF ParsedDate, NumericCall
<1>2. last.cfg \in AnOption
    BY <1>1, NumericCallIs
<1>3. PICK o \in Orders, a \in Guesses :
          Chosen(t, c, o, a) /\ IsReading(t, o) /\ DateAnswered = DateIn(t, o)
    BY <1>1, AnsweredReads
<1>4. c.dayFirst = dayFirst /\ c.yearFirst = last.cfg.yearFirst
    BY <1>2, OptionsForAre
<1> HIDE DEF t, c, dayFirst
<1>5. \A q \in possible : CouldRead(t, q)
    BY ReadingsCouldRead
<1>6. o \in possible
    BY <1>3
<1>7. ASSUME YearMonthDay \in possible, last.cfg.yearFirst
      PROVE  DateAnswered = DateIn(t, YearMonthDay)
    BY <1>3, <1>4, <1>5, <1>7 DEF Chosen
<1>8. ASSUME ~(YearMonthDay \in possible /\ last.cfg.yearFirst),
             {DayMonthYear, MonthDayYear} \subseteq possible
      PROVE  DateAnswered = DateIn(t, IF dayFirst THEN DayMonthYear ELSE MonthDayYear)
    <2>1. CouldRead(t, DayMonthYear) /\ CouldRead(t, MonthDayYear)
        BY <1>5, <1>8
    <2>2. ~(o = YearMonthDay /\ c.yearFirst)
        BY <1>4, <1>6, <1>8
    <2>3. o = IF c.dayFirst THEN DayMonthYear ELSE MonthDayYear
        BY <1>3, <2>1, <2>2 DEF Chosen
    <2> QED
        BY <1>3, <1>4, <2>3
<1> QED
    BY <1>3, <1>6, <1>7, <1>8, Zenon DEF t, dayFirst

LEMMA AnsweredHidesNothing == IInv => (NumericCall => NoHiddenReading)
<1> SUFFICES ASSUME IInv, NumericCall, ParsedDate, ~last.out.ambiguous
             PROVE  DatesMeant = {DateAnswered}
    BY Zenon DEF NoHiddenReading
<1> DEFINE t == TrimPadding(last.input)
<1>1. PICK o \in Orders, a \in Guesses :
          /\ Chosen(t, OptionsFor(t, last.cfg), o, a) /\ IsReading(t, o)
          /\ DateAnswered = DateIn(t, o) /\ last.out.ambiguous = (a # "none")
    BY AnsweredReads DEF ParsedDate
<1>2. DatesMeant = TripleDates(t)
    BY DEF DatesMeant, DatesOf, NumericCall
<1> HIDE DEF t
<1>3. a = "none"
    BY <1>1
<1>4. \A q \in Orders : IsReading(t, q) => q = o
    BY <1>1, <1>3, ReadingsCouldRead DEF Chosen
<1>5. {q \in Orders : IsReading(t, q)} = {o}
    BY <1>1, <1>4
<1>6. TripleDates(t) = {DateIn(t, o)}
    BY <1>5 DEF TripleDates
<1> QED
    BY <1>1, <1>2, <1>6

-----------------------------------------------------------------------------
\* What is left of a sequence keeps its elements, each once, and its first.

\* No two places that are kept hold the same.
Apart(s, out) ==
    \A a, b \in 1..Len(s) : a # b /\ s[a] \notin out /\ s[b] \notin out => s[a] # s[b]

\* w is what is left of s from place i on.
LeftOf(w, s, out, i) ==
    /\ {w[j] : j \in DOMAIN w} = {s[j] : j \in i..Len(s)} \ out
    /\ \A a, b \in DOMAIN w : a # b => w[a] # w[b]

LEMMA WithoutKeeps ==
    ASSUME NEW X, NEW s \in Seq(X), NEW out, Apart(s, out)
    PROVE  /\ Without(s, out) \in Seq(X \ out)
           /\ LeftOf(Without(s, out), s, out, 1)
           /\ 1 <= Len(s) /\ s[1] \notin out => Without(s, out)[1] = s[1]
<1> DEFINE n == Len(s)
<1>1. n \in Nat
    OBVIOUS
<1>2. PICK h : /\ Without(s, out) = h[1] /\ LeavesFrom(h, s, out)
               /\ \A i \in 1..(n + 1) : h[i] \in Seq(X \ out)
    BY WithoutUnfolds
<1> HIDE DEF n
<1> DEFINE S == {i \in 1..(n + 1) : LeftOf(h[i], s, out, i)}
<1>3. \A i \in 1..(n + 1) : h[i] = IF i > n THEN <<>>
                                   ELSE IF s[i] \in out THEN h[i + 1] ELSE <<s[i]>> \o h[i + 1]
    BY <1>2 DEF LeavesFrom, n
<1>4. ASSUME NEW i \in 1..n
      PROVE  /\ i \in 1..(n + 1) /\ i + 1 \in 1..(n + 1) /\ ~(i > n) /\ i + 1 \in (i + 1)..(n + 1)
             /\ i..n = {i} \cup ((i + 1)..n)
    BY <1>1
<1>5. ASSUME NEW i \in 1..n, s[i] \notin out
      PROVE  LET rest == h[i + 1]
             IN  /\ DOMAIN h[i] = 1..(1 + Len(rest)) /\ Len(rest) \in Nat /\ DOMAIN rest = 1..Len(rest)
                 /\ \A j \in 1..(1 + Len(rest)) : h[i][j] = IF j <= 1 THEN s[i] ELSE rest[j - 1]
    <2> DEFINE rest == h[i + 1]
               one == <<s[i]>>
    <2>1. rest \in Seq(X \ out)
        BY <1>2, <1>4
    <2>2. s[i] \in X
        BY <1>1, ElementOfSeq DEF n
    <2>3. one \in Seq(X \ out) /\ Len(one) = 1 /\ one[1] = s[i]
        BY <1>5, <2>2
    <2>4. h[i] = one \o rest
        BY <1>3, <1>4, <1>5
    <2> HIDE DEF one, rest
    <2>5. /\ one \o rest \in Seq(X \ out) /\ Len(one \o rest) = 1 + Len(rest)
          /\ \A j \in 1..(1 + Len(rest)) :
                 (one \o rest)[j] = IF j <= 1 THEN one[j] ELSE rest[j - 1]
        <3>1. /\ one \o rest \in Seq(X \ out)
              /\ Len(one \o rest) = Len(one) + Len(rest)
              /\ \A j \in 1..Len(one) + Len(rest) :
                     (one \o rest)[j] = IF j <= Len(one) THEN one[j] ELSE rest[j - Len(one)]
            BY <2>1, <2>3, ConcatProperties, Zenon
        <3> QED
            BY <2>3, <3>1, Zenon
    <2>6. /\ DOMAIN (one \o rest) = 1..(1 + Len(rest))
          /\ Len(rest) \in Nat /\ DOMAIN rest = 1..Len(rest)
        BY <2>1, <2>5, LenProperties
    <2>7. \A j \in 1..(1 + Len(rest)) : j <= 1 => j = 1
        OBVIOUS
    <2> QED
        BY <2>3, <2>4, <2>5, <2>6, <2>7 DEF rest
<1>6. ASSUME NEW i \in 1..(n + 1), \A m \in (i + 1)..(n + 1) : m \in S
      PROVE  LeftOf(h[i], s, out, i)
    <2>1. CASE i > n
        <3>1. h[i] = <<>>
            BY <1>3, <2>1, Zenon
        <3>2. i..n = {}
            BY <1>1, <2>1
        <3>3. DOMAIN <<>> = {}
            OBVIOUS
        <3> QED
            BY <3>1, <3>2, <3>3 DEF LeftOf, n
    <2>2. CASE ~(i > n) /\ s[i] \in out
        <3>1. i \in 1..n
            BY <1>1, <2>2
        <3>2. h[i] = h[i + 1]
            BY <1>3, <2>2, Zenon
        <3>3. LeftOf(h[i + 1], s, out, i + 1) /\ i..n = {i} \cup ((i + 1)..n)
            BY <1>4, <1>6, <3>1
        <3> QED
            BY <2>2, <3>2, <3>3 DEF LeftOf, n
    <2>3. CASE ~(i > n) /\ s[i] \notin out
        <3> DEFINE rest == h[i + 1]
                   all == h[i]
        <3>1. i \in 1..n
            BY <1>1, <2>3
        <3>2. LeftOf(rest, s, out, i + 1) /\ i..n = {i} \cup ((i + 1)..n)
            BY <1>4, <1>6, <3>1
        <3>3. /\ DOMAIN all = 1..(1 + Len(rest)) /\ Len(rest) \in Nat /\ DOMAIN rest = 1..Len(rest)
              /\ \A j \in 1..(1 + Len(rest)) : all[j] = IF j <= 1 THEN s[i] ELSE rest[j - 1]
            BY <1>5, <2>3, <3>1
        <3> HIDE DEF rest, all
        <3>4. \A j \in DOMAIN rest : j + 1 \in DOMAIN all /\ all[j + 1] = rest[j]
            BY <3>3
        <3>5. \A j \in DOMAIN all : (j = 1 /\ all[j] = s[i])
                                      \/ (j - 1 \in DOMAIN rest /\ all[j] = rest[j - 1])
            BY <3>3
        <3>6. 1 \in DOMAIN all /\ all[1] = s[i]
            BY <3>3
        <3>7. {all[j] : j \in DOMAIN all} = {s[i]} \cup {rest[j] : j \in DOMAIN rest}
            <4>1. ASSUME NEW x \in {all[j] : j \in DOMAIN all}
                  PROVE  x \in {s[i]} \cup {rest[j] : j \in DOMAIN rest}
                BY <3>5
            <4>2. ASSUME NEW j \in DOMAIN rest
                  PROVE  rest[j] \in {all[k] : k \in DOMAIN all}
                BY <3>4
            <4> QED
                BY <3>6, <4>1, <4>2
        <3>8. {all[j] : j \in DOMAIN all} = {s[j] : j \in i..n} \ out
            BY <2>3, <3>2, <3>7 DEF LeftOf, n
        <3>9. \A j \in DOMAIN rest : rest[j] # s[i]
            <4>1. \A j \in (i + 1)..n : s[j] \notin out => s[j] # s[i]
                <5>1. \A j \in (i + 1)..n : j \in 1..n /\ j # i
                    BY <1>1, <3>1
                <5> QED
                    BY <2>3, <3>1, <5>1 DEF Apart, n
            <4>2. \A j \in DOMAIN rest : rest[j] \in {s[k] : k \in (i + 1)..n} \ out
                BY <3>2 DEF LeftOf, n
            <4> QED
                BY <4>1, <4>2
        <3>10. ASSUME NEW a \in DOMAIN all, NEW b \in DOMAIN all, a # b
               PROVE  all[a] # all[b]
            <4>1. \A c, d \in DOMAIN rest : c # d => rest[c] # rest[d]
                BY <3>2 DEF LeftOf
            <4>2. a \in Int /\ b \in Int
                BY <3>3
            <4>3. a - 1 # b - 1
                BY <3>10, <4>2
            <4> QED
                BY <3>5, <3>9, <3>10, <4>1, <4>3
        <3> QED
            BY <3>8, <3>10 DEF LeftOf, n, all
    <2> QED
        BY <2>1, <2>2, <2>3
<1>7. \A i \in 1..(n + 1) : i \in S
    <2> HIDE DEF S
    <2>1. \A i \in 1..(n + 1) : (\A m \in (i + 1)..(n + 1) : m \in S) => i \in S
        BY <1>6 DEF S
    <2> QED
        BY <1>1, <2>1, DownwardInduction
<1>8. 1 \in 1..(n + 1)
    BY <1>1
<1>9. 1 <= n /\ s[1] \notin out => h[1][1] = s[1]
    <2> SUFFICES ASSUME 1 <= n, s[1] \notin out
                 PROVE  h[1][1] = s[1]
        OBVIOUS
    <2> DEFINE one == 1
    <2>1. one \in 1..n /\ s[one] \notin out /\ one = 1
        BY <1>1
    <2> HIDE DEF one
    <2>2. /\ Len(h[one + 1]) \in Nat
          /\ \A j \in 1..(1 + Len(h[one + 1])) : h[one][j] = IF j <= 1 THEN s[one] ELSE h[one + 1][j - 1]
        BY <1>5, <2>1
    <2>3. 1 \in 1..(1 + Len(h[one + 1])) /\ 1 <= 1
        BY <2>2
    <2> QED
        BY <2>1, <2>2, <2>3
<1> QED
    BY <1>2, <1>7, <1>8, <1>9 DEF n

-----------------------------------------------------------------------------
\* The readings offered for a numeric date.

RolesFor(o) ==
    IF o = YearMonthDay THEN <<"Y", "M", "D">>
    ELSE IF o = MonthDayYear THEN <<"M", "D", "Y">> ELSE <<"D", "M", "Y">>

LEMMA ThreePlaces ==
    ASSUME NEW a, NEW b, NEW c
    PROVE  LET s == <<a, b, c>>
           IN  s[1] = a /\ s[2] = b /\ s[3] = c /\ DOMAIN s = 1..3 /\ Len(s) = 3
    OBVIOUS

LEMMA RolesForAre ==
    /\ RolesFor(YearMonthDay)[1] = "Y" /\ RolesFor(YearMonthDay)[2] = "M"
    /\ RolesFor(YearMonthDay)[3] = "D"
    /\ RolesFor(MonthDayYear)[1] = "M" /\ RolesFor(MonthDayYear)[2] = "D"
    /\ RolesFor(MonthDayYear)[3] = "Y"
    /\ RolesFor(DayMonthYear)[1] = "D" /\ RolesFor(DayMonthYear)[2] = "M"
    /\ RolesFor(DayMonthYear)[3] = "Y"
<1>1. /\ RolesFor(YearMonthDay) = <<"Y", "M", "D">>
      /\ RolesFor(MonthDayYear) = <<"M", "D", "Y">>
      /\ RolesFor(DayMonthYear) = <<"D", "M", "Y">>
    BY OrdersDiffer, Zenon DEF RolesFor
<1> QED
    BY <1>1, ThreePlaces

LEMMA RolesForDiffer ==
    /\ \A o, q \in Orders : RolesFor(o) = RolesFor(q) => o = q
    /\ \A o \in Orders : RolesIn(o, RolesFor(o))
<1>1. "Y" # "M" /\ "Y" # "D" /\ "M" # "D"
    OBVIOUS
<1>2. /\ RolesFor(YearMonthDay)[1] # RolesFor(MonthDayYear)[1]
      /\ RolesFor(YearMonthDay)[1] # RolesFor(DayMonthYear)[1]
      /\ RolesFor(MonthDayYear)[1] # RolesFor(DayMonthYear)[1]
    BY <1>1, RolesForAre
<1>3. \A o, q \in Orders : RolesFor(o) = RolesFor(q) => o = q
    BY <1>2, Zenon DEF Orders
<1>4. \A o \in Orders : RolesIn(o, RolesFor(o))
    BY RolesForAre, Zenon DEF Orders, RolesIn
<1> QED
    BY <1>3, <1>4

LEMMA ConventionsAre ==
    /\ Len(Conventions) = 3 /\ DOMAIN Conventions = 1..3
    /\ Conventions[1] = RolesFor(MonthDayYear)
    /\ Conventions[2] = RolesFor(DayMonthYear)
    /\ Conventions[3] = RolesFor(YearMonthDay)
    /\ Range(Conventions) = {RolesFor(o) : o \in Orders}
    /\ Conventions \in Seq({RolesFor(o) : o \in Orders})
<1> DEFINE a == RolesFor(MonthDayYear)
           b == RolesFor(DayMonthYear)
           c == RolesFor(YearMonthDay)
           X == {RolesFor(o) : o \in Orders}
<1>1. Conventions = <<a, b, c>>
    BY OrdersDiffer, Zenon DEF Conventions, RolesFor
<1>2. X = {a, b, c}
    BY DEF Orders
<1> HIDE DEF a, b, c, X
<1>3. /\ Conventions[1] = a /\ Conventions[2] = b /\ Conventions[3] = c
      /\ DOMAIN Conventions = 1..3 /\ Len(Conventions) = 3
    BY <1>1, ThreePlaces
<1>4. Range(Conventions) = X
    <2>1. \A i \in 1..3 : i = 1 \/ i = 2 \/ i = 3
        OBVIOUS
    <2>2. 1 \in 1..3 /\ 2 \in 1..3 /\ 3 \in 1..3
        OBVIOUS
    <2> QED
        BY <1>2, <1>3, <2>1, <2>2 DEF Range
<1>5. Conventions \in Seq(X)
    <2>1. <<a, b, c>> \in Seq({a, b, c})
        OBVIOUS
    <2> QED
        BY <1>1, <1>2, <2>1
<1> QED
    BY <1>3, <1>4, <1>5 DEF a, b, c, X

LEMMA ConventionsApart == \A out : Apart(Conventions, out)
<1>1. \A a, b \in 1..3 : a # b => Conventions[a] # Conventions[b]
    <2>1. \A i \in 1..3 : i = 1 \/ i = 2 \/ i = 3
        OBVIOUS
    <2>2. /\ RolesFor(YearMonthDay) # RolesFor(MonthDayYear)
          /\ RolesFor(YearMonthDay) # RolesFor(DayMonthYear)
          /\ RolesFor(MonthDayYear) # RolesFor(DayMonthYear)
        BY OrdersDiffer, RolesForDiffer DEF Orders
    <2> QED
        BY <2>1, <2>2, ConventionsAre
<1> QED
    BY <1>1, ConventionsAre DEF Apart

LEMMA DatePartsPlaces ==
    DateParts[1] = 1 /\ DateParts[2] = 3 /\ DateParts[3] = 5
    BY DEF DateParts

\* The widths of the numbers have a place for year, month and day.
Fitting(t, q) == YearLike(t[q.y]) /\ DayLike(t[q.m]) /\ DayLike(t[q.d])

LEMMA ChosenRolesAre ==
    ASSUME NEW t \in Seq(Token), IsTriple(t), NEW o \in Orders, NEW fields, FieldsIn(t, o, fields)
    PROVE  ChosenRoles(fields) = RolesFor(o)
<1> DEFINE role(i) == RoleOfKind(fields[DateParts[i]].kind)
<1>1. /\ fields[o.y].kind \in {"Year2", "Year4"}
      /\ fields[o.m].kind \in {"Month2", "Month1or2"}
      /\ fields[o.d].kind \in {"Day2", "Day1or2"}
    BY OrdersPlace, PartsRead
<1>2. /\ \A k \in {"Year2", "Year4"} : RoleOfKind(k) = "Y"
      /\ \A k \in {"Month2", "Month1or2"} : RoleOfKind(k) = "M"
      /\ \A k \in {"Day2", "Day1or2"} : RoleOfKind(k) = "D"
    BY DEF RoleOfKind, YearKinds, MonthKinds, DayKinds
<1>3. /\ RoleOfKind(fields[o.y].kind) = "Y"
      /\ RoleOfKind(fields[o.m].kind) = "M"
      /\ RoleOfKind(fields[o.d].kind) = "D"
    BY <1>1, <1>2
<1>4. /\ role(1) = RoleOfKind(fields[1].kind)
      /\ role(2) = RoleOfKind(fields[3].kind)
      /\ role(3) = RoleOfKind(fields[5].kind)
    BY DatePartsPlaces
<1>5. role(1) = RolesFor(o)[1] /\ role(2) = RolesFor(o)[2] /\ role(3) = RolesFor(o)[3]
    BY <1>3, <1>4, RolesForAre, OrdersAre, ZenonT(60) DEF Orders
<1>6. ChosenRoles(fields) = [i \in 1..3 |-> role(i)]
    BY DEF ChosenRoles
<1> HIDE DEF role
<1>7. [i \in 1..3 |-> role(i)] = <<role(1), role(2), role(3)>>
    OBVIOUS
<1>8. RolesFor(o) = <<RolesFor(o)[1], RolesFor(o)[2], RolesFor(o)[3]>>
    BY RolesForAre, OrdersDiffer, Zenon DEF RolesFor, Orders
<1> QED
    BY <1>5, <1>6, <1>7, <1>8, Zenon

LEMMA CarriesFitting ==
    ASSUME NEW t \in Seq(Token), IsTriple(t), NEW q \in Orders, NEW fields,
           fields[1].w = t[1].w, fields[3].w = t[3].w, fields[5].w = t[5].w
    PROVE  Carries(fields, RolesFor(q)) <=> Fitting(t, q)
<1>1. IsNumber(t[1]) /\ IsNumber(t[3]) /\ IsNumber(t[5])
    BY TripleShape
<1>2. \A i \in 1..3 : i = 1 \/ i = 2 \/ i = 3
    OBVIOUS
<1>3. Carries(fields, RolesFor(q)) <=>
          /\ KindForRole(RolesFor(q)[1], t[1].w) # "none"
          /\ KindForRole(RolesFor(q)[2], t[3].w) # "none"
          /\ KindForRole(RolesFor(q)[3], t[5].w) # "none"
    <2>1. 1 \in 1..3 /\ 2 \in 1..3 /\ 3 \in 1..3
        OBVIOUS
    <2> QED
        BY <1>2, <2>1, DatePartsPlaces, Zenon DEF Carries
<1>4. CASE q = YearMonthDay
    BY <1>1, <1>3, <1>4, RolesForAre, KindsOfRoles, KindsExist, OrdersAre DEF Fitting
<1>5. CASE q = MonthDayYear
    BY <1>1, <1>3, <1>5, RolesForAre, KindsOfRoles, KindsExist, OrdersAre DEF Fitting
<1>6. CASE q = DayMonthYear
    BY <1>1, <1>3, <1>6, RolesForAre, KindsOfRoles, KindsExist, OrdersAre DEF Fitting
<1> QED
    BY <1>4, <1>5, <1>6 DEF Orders

LEMMA RekindedReads ==
    ASSUME NEW t \in Seq(Token), IsTriple(t), NEW q \in Orders, NEW o, NEW fields,
           FieldsIn(t, o, fields), Fitting(t, q)
    PROVE  FieldsIn(t, q, Rekinded(fields, RolesFor(q)))
<1> DEFINE roles == RolesFor(q)
           fs == Rekinded(fields, roles)
           kindOf(i, j) == KindForRole(roles[i], fields[j].w)
<1>1. /\ DOMAIN fields = 1..5 /\ Len(fields) = 5 /\ AreFields(fields)
      /\ fields[1].w = t[1].w /\ fields[3].w = t[3].w /\ fields[5].w = t[5].w
      /\ \A i \in {2, 4} : fields[i].kind = "Literal" /\ fields[i].w = 1 /\ fields[i].aux = "sep"
    BY DEF FieldsIn
<1>2. \A i \in 1..3 : i = 1 \/ i = 2 \/ i = 3
    OBVIOUS
<1>3. /\ (CHOOSE k \in 1..3 : DateParts[k] = 1) = 1
      /\ (CHOOSE k \in 1..3 : DateParts[k] = 3) = 2
      /\ (CHOOSE k \in 1..3 : DateParts[k] = 5) = 3
    BY <1>2, DatePartsPlaces
<1>4. /\ \E i \in 1..3 : DateParts[i] = 1
      /\ \E i \in 1..3 : DateParts[i] = 3
      /\ \E i \in 1..3 : DateParts[i] = 5
      /\ ~\E i \in 1..3 : DateParts[i] = 2
      /\ ~\E i \in 1..3 : DateParts[i] = 4
    BY <1>2, DatePartsPlaces
<1>5. \A j \in 1..5 : fs[j] = IF \E i \in 1..3 : DateParts[i] = j
                             THEN [fields[j] EXCEPT !.kind =
                                      KindForRole(roles[CHOOSE k \in 1..3 : DateParts[k] = j], fields[j].w)]
                             ELSE fields[j]
    BY <1>1, Zenon DEF Rekinded
<1>6. DOMAIN fs = 1..5
    BY <1>1 DEF Rekinded
<1>7. 1 \in 1..5 /\ 2 \in 1..5 /\ 3 \in 1..5 /\ 4 \in 1..5 /\ 5 \in 1..5
    OBVIOUS
<1> HIDE DEF fs, roles
<1>8. /\ fs[1] = [fields[1] EXCEPT !.kind = kindOf(1, 1)]
      /\ fs[3] = [fields[3] EXCEPT !.kind = kindOf(2, 3)]
      /\ fs[5] = [fields[5] EXCEPT !.kind = kindOf(3, 5)]
      /\ fs[2] = fields[2] /\ fs[4] = fields[4]
    BY <1>3, <1>4, <1>5, <1>7, ZenonT(60)
<1>9. ASSUME NEW j \in 1..5, NEW kind
      PROVE  LET f == [fields[j] EXCEPT !.kind = kind]
             IN  f.kind = kind /\ f.w = fields[j].w /\ {"kind", "w"} \subseteq DOMAIN f
    BY <1>1 DEF AreFields
<1>10. /\ fs[1].kind = kindOf(1, 1) /\ fs[1].w = t[1].w
       /\ fs[3].kind = kindOf(2, 3) /\ fs[3].w = t[3].w
       /\ fs[5].kind = kindOf(3, 5) /\ fs[5].w = t[5].w
       /\ \A i \in {2, 4} : fs[i].kind = "Literal" /\ fs[i].w = 1 /\ fs[i].aux = "sep"
    BY <1>1, <1>7, <1>8, <1>9
<1>11. AreFields(fs)
    <2>1. \A i \in 1..5 : i = 1 \/ i = 2 \/ i = 3 \/ i = 4 \/ i = 5
        OBVIOUS
    <2>2. \A i \in 1..5 : {"kind", "w"} \subseteq DOMAIN fs[i]
        BY <1>1, <1>7, <1>8, <1>9, <2>1 DEF AreFields
    <2> QED
        BY <2>2 DEF AreFields
<1>12. Len(fs) = 5
    <2> DEFINE X == {fs[i] : i \in 1..5}
               n == 5
    <2>1. fs = [i \in 1..5 |-> fs[i]]
        BY <1>1, Zenon DEF fs, Rekinded
    <2>2. n \in Nat /\ n = 5 /\ \A i \in 1..5 : fs[i] \in X
        OBVIOUS
    <2> HIDE DEF X, n
    <2>3. fs \in [1..n -> X]
        BY <2>1, <2>2
    <2>4. Len(fs) = n
        BY <2>2, <2>3, FunctionIsSequence
    <2> QED
        BY <2>2, <2>4
<1>13. RolesIn(q, roles)
    BY RolesForDiffer DEF roles
<1>14. FieldsIn(t, q, fs)
    BY <1>1, <1>6, <1>10, <1>11, <1>12, <1>13, FieldsInOrder DEF Fitting
<1> QED
    BY <1>14 DEF fs, roles

\* The readings rds offer t in the order o first, and in every order its widths
\* allow, each once.
OffersAll(t, o, rds) ==
    /\ \E X : rds \in Seq(X)
    /\ Len(rds) >= 1 /\ rds[1].label = RolesFor(o)
    /\ \A k \in DOMAIN rds : \E q \in Orders :
           /\ rds[k].label = RolesFor(q) /\ FieldsIn(t, q, rds[k].fields)
    /\ \A k, j \in DOMAIN rds : k # j => rds[k].label # rds[j].label
    /\ \A q \in Orders : Fitting(t, q) => \E k \in DOMAIN rds : rds[k].label = RolesFor(q)

LEMMA ReadingsOffered ==
    ASSUME NEW t \in Seq(Token), IsTriple(t), NEW o \in Orders, NEW fields, FieldsIn(t, o, fields)
    PROVE  OffersAll(t, o, FieldOrderReadings(fields))
<1> DEFINE chosen == ChosenRoles(fields)
           out == {r \in Range(Conventions) : r = chosen \/ ~Carries(fields, r)}
           others == Without(Conventions, out)
           first == [fields |-> fields, label |-> chosen]
           reading(roles) == [fields |-> Rekinded(fields, roles), label |-> roles]
           rest == [i \in DOMAIN others |-> reading(others[i])]
           all == <<first>> \o rest
<1>1. FieldOrderReadings(fields) = all
    BY DEF FieldOrderReadings
<1>2. chosen = RolesFor(o)
    BY ChosenRolesAre
<1>3. \A q \in Orders : Carries(fields, RolesFor(q)) <=> Fitting(t, q)
    BY CarriesFitting DEF FieldsIn
<1>4. \A q \in Orders : RolesFor(q) \in out <=> q = o \/ ~Fitting(t, q)
    <2> HIDE DEF chosen
    <2> QED
        BY <1>2, <1>3, ConventionsAre, RolesForDiffer
<1> HIDE DEF out, chosen
<1>5. /\ others \in Seq({RolesFor(q) : q \in Orders} \ out)
      /\ LeftOf(others, Conventions, out, 1)
    BY ConventionsAre, ConventionsApart, WithoutKeeps
<1>6. {Conventions[j] : j \in 1..Len(Conventions)} = {RolesFor(q) : q \in Orders}
    BY ConventionsAre DEF Range
<1>7. /\ {others[j] : j \in DOMAIN others} = {RolesFor(q) : q \in Orders} \ out
      /\ \A a, b \in DOMAIN others : a # b => others[a] # others[b]
    BY <1>5, <1>6 DEF LeftOf
<1> HIDE DEF others
<1>8. PICK n \in Nat : n = Len(others) /\ DOMAIN others = 1..n
    BY <1>5, LenProperties
<1> DEFINE X == {first} \cup {reading(others[i]) : i \in 1..n}
<1>9. /\ rest \in Seq(X) /\ Len(rest) = n
      /\ \A i \in 1..n : rest[i] = reading(others[i])
    <2>1. rest = [i \in 1..n |-> reading(others[i])]
        BY <1>8
    <2>2. \A i \in 1..n : reading(others[i]) \in X
        OBVIOUS
    <2> HIDE DEF rest, reading, X
    <2>3. rest \in [1..n -> X] /\ \A i \in 1..n : rest[i] = reading(others[i])
        BY <2>1, <2>2
    <2> QED
        BY <2>3, FunctionIsSequence
<1>10. first \in X
    OBVIOUS
<1> HIDE DEF rest, X
<1>11. /\ first.fields = fields /\ first.label = chosen
       /\ \A roles : reading(roles).fields = Rekinded(fields, roles) /\ reading(roles).label = roles
    OBVIOUS
<1> HIDE DEF first, reading
<1> DEFINE one == <<first>>
<1>12. one \in Seq(X) /\ Len(one) = 1 /\ one[1] = first
    BY <1>10
<1> HIDE DEF one
<1>13. /\ all \in Seq(X) /\ Len(all) = Len(one) + Len(rest)
       /\ \A j \in 1..Len(one) + Len(rest) :
              all[j] = IF j <= Len(one) THEN one[j] ELSE rest[j - Len(one)]
    BY <1>9, <1>12, ConcatProperties, Zenon DEF one
<1> HIDE DEF all
<1>14. /\ Len(all) = 1 + n /\ DOMAIN all = 1..(1 + n)
       /\ \A j \in 1..(1 + n) : all[j] = IF j <= 1 THEN one[j] ELSE rest[j - 1]
    <2>1. DOMAIN all = 1..Len(all)
        BY <1>13, LenProperties
    <2> QED
        BY <1>9, <1>12, <1>13, <2>1, Zenon
<1>15. 1 \in 1..(1 + n) /\ 1 + n >= 1
    OBVIOUS
<1>16. all[1] = first
    BY <1>12, <1>14, <1>15
<1>17. \A j \in 1..(1 + n) : j # 1 => j - 1 \in 1..n /\ all[j] = reading(others[j - 1])
    <2> SUFFICES ASSUME NEW j \in 1..(1 + n), j # 1
                 PROVE  j - 1 \in 1..n /\ all[j] = reading(others[j - 1])
        OBVIOUS
    <2>1. j - 1 \in 1..n /\ ~(j <= 1)
        OBVIOUS
    <2>2. all[j] = rest[j - 1]
        BY <1>14, <2>1
    <2> QED
        BY <1>9, <2>1, <2>2
<1>18. \A i \in 1..n : \E q \in Orders : others[i] = RolesFor(q) /\ q # o /\ Fitting(t, q)
    <2> SUFFICES ASSUME NEW i \in 1..n
                 PROVE  \E q \in Orders : others[i] = RolesFor(q) /\ q # o /\ Fitting(t, q)
        OBVIOUS
    <2>1. others[i] \in {others[j] : j \in DOMAIN others}
        BY <1>8
    <2>2. others[i] \in {RolesFor(q) : q \in Orders} /\ others[i] \notin out
        BY <1>7, <2>1
    <2>3. PICK q \in Orders : others[i] = RolesFor(q)
        BY <2>2
    <2> QED
        BY <1>4, <2>2, <2>3, Zenon
<1>19. ASSUME NEW k \in DOMAIN all
       PROVE  \E q \in Orders : all[k].label = RolesFor(q) /\ FieldsIn(t, q, all[k].fields)
    <2>1. CASE k = 1
        BY <1>2, <1>11, <1>16, <2>1
    <2>2. CASE k # 1
        <3>1. k - 1 \in 1..n /\ all[k] = reading(others[k - 1])
            BY <1>14, <1>17, <2>2
        <3>2. PICK q \in Orders : others[k - 1] = RolesFor(q) /\ Fitting(t, q)
            BY <1>18, <3>1
        <3>3. FieldsIn(t, q, Rekinded(fields, RolesFor(q)))
            BY <3>2, RekindedReads
        <3> QED
            BY <1>11, <3>1, <3>2, <3>3
    <2> QED
        BY <2>1, <2>2
<1>20. ASSUME NEW k \in DOMAIN all, k # 1
       PROVE  all[k].label = others[k - 1] /\ all[k].label # chosen /\ k - 1 \in 1..n
    <2>1. k - 1 \in 1..n /\ all[k] = reading(others[k - 1])
        BY <1>14, <1>17, <1>20
    <2>2. PICK q \in Orders : others[k - 1] = RolesFor(q) /\ q # o
        BY <1>18, <2>1
    <2> QED
        BY <1>2, <1>11, <2>1, <2>2, RolesForDiffer
<1>21. ASSUME NEW k \in DOMAIN all, NEW j \in DOMAIN all, k # j
       PROVE  all[k].label # all[j].label
    <2>1. all[1].label = chosen
        BY <1>11, <1>16
    <2>2. CASE k = 1
        BY <1>20, <1>21, <2>1, <2>2
    <2>3. CASE j = 1
        BY <1>20, <1>21, <2>1, <2>3
    <2>4. CASE k # 1 /\ j # 1
        <3>1. k \in Int /\ j \in Int
            BY <1>14
        <3>2. k - 1 # j - 1
            BY <1>21, <3>1
        <3>3. others[k - 1] # others[j - 1]
            BY <1>7, <1>8, <1>20, <2>4, <3>2
        <3> QED
            BY <1>20, <2>4, <3>3
    <2> QED
        BY <2>2, <2>3, <2>4
<1>22. ASSUME NEW q \in Orders, Fitting(t, q)
       PROVE  \E k \in DOMAIN all : all[k].label = RolesFor(q)
    <2>1. CASE q = o
        BY <1>2, <1>11, <1>14, <1>15, <1>16, <2>1
    <2>2. CASE q # o
        <3>1. RolesFor(q) \notin out
            BY <1>4, <1>22, <2>2
        <3>2. PICK i \in 1..n : others[i] = RolesFor(q)
            BY <1>7, <1>8, <3>1
        <3>3. i + 1 \in DOMAIN all /\ i + 1 # 1 /\ (i + 1) - 1 = i
            BY <1>14
        <3>4. all[i + 1].label = others[i]
            BY <1>20, <3>3
        <3> QED
            BY <3>2, <3>3, <3>4
    <2> QED
        BY <2>1, <2>2
<1>23. OffersAll(t, o, all)
    <2>1. Len(all) >= 1 /\ all[1].label = RolesFor(o)
        BY <1>2, <1>11, <1>14, <1>15, <1>16
    <2> QED
        BY <1>13, <1>19, <1>21, <1>22, <2>1, Zenon DEF OffersAll
<1> QED
    BY <1>1, <1>23

-----------------------------------------------------------------------------
\* Each reading is offered with the date it names, or not at all.

OfferFor(t, q, x) ==
    IF IsReading(t, q) THEN x # Refused /\ x.time = MidnightOf(DateIn(t, q)).time /\ x.label = RolesFor(q)
                       ELSE x = Refused

LEMMA OfferIs ==
    ASSUME NEW t \in Seq(Token), IsTriple(t), NEW q \in Orders, NEW rd,
           rd.label = RolesFor(q), NEW l, l.fields = rd.fields, FieldsIn(t, q, rd.fields)
    PROVE  OfferFor(t, q, ReadAs(t, l, rd.label))
<1> DEFINE date == MidnightOf(DateIn(t, q))
<1>1. Execute(l, t) = IF IsReading(t, q) THEN date ELSE Refused
    BY OrdersPlace, ExecuteInOrder
<1>2. date.ok = TRUE
    BY DEF MidnightOf, At
<1>3. Refused.ok = FALSE /\ DOMAIN Refused = {"ok"}
    BY DEF Refused
<1> HIDE DEF date
<1>4. CASE IsReading(t, q)
    <2>1. ReadAs(t, l, rd.label) = [time |-> date.time, layout |-> l, label |-> rd.label]
        BY <1>1, <1>2, <1>4 DEF ReadAs, Interpretation
    <2>2. DOMAIN [time |-> date.time, layout |-> l, label |-> rd.label] = {"time", "layout", "label"}
        OBVIOUS
    <2>3. ReadAs(t, l, rd.label) # Refused
        <3>1. "time" \in {"time", "layout", "label"} /\ "time" \notin {"ok"}
            OBVIOUS
        <3> QED
            BY <1>3, <2>1, <2>2, <3>1
    <2> QED
        BY <1>4, <2>1, <2>3 DEF OfferFor, date
<1>5. CASE ~IsReading(t, q)
    BY <1>1, <1>3, <1>5 DEF ReadAs, Interpretation, OfferFor
<1> QED
    BY <1>4, <1>5

\* What is offered of a guess at a numeric date whose chosen order is o.
LEMMA OfferedAre ==
    ASSUME NEW t \in Seq(Token), IsTriple(t), NEW cfg, NEW r, NEW o \in Orders,
           r.ambig \in {"fieldOrder", "yearPosition"}, FieldsIn(t, o, r.fields),
           BuildAmbiguousError(t, r, cfg, ThisYear).interps # <<>>
    PROVE  LET rs == BuildAmbiguousError(t, r, cfg, ThisYear).interps
           IN  /\ \A i \in DOMAIN rs : \E q \in Orders :
                      /\ IsReading(t, q) /\ rs[i].label = RolesFor(q)
                      /\ rs[i].time = MidnightOf(DateIn(t, q)).time
               /\ \A q \in Orders : IsReading(t, q) =>
                      \E i \in DOMAIN rs : rs[i].time = MidnightOf(DateIn(t, q)).time
               /\ \A i, j \in DOMAIN rs : i # j => rs[i].label # rs[j].label
               /\ IsReading(t, o) => rs[1].time = MidnightOf(DateIn(t, o)).time
<1> DEFINE layoutOf(rd) == Compile("reading", rd.fields, "none", FALSE, cfg.locales,
                                   BaseYear(cfg, ThisYear))
           rds == Readings(r)
           all == [k \in DOMAIN rds |-> ReadAs(t, layoutOf(rds[k]), rds[k].label)]
           rs == Without(all, {Refused})
           X == {all[k] : k \in DOMAIN rds}
           interps == BuildAmbiguousError(t, r, cfg, ThisYear).interps
<1>1. interps = rs
    <2>1. interps = IF Len(rs) < 2 THEN <<>> ELSE rs
        BY DEF BuildAmbiguousError, AmbiguousError
    <2> HIDE DEF rs, interps
    <2> QED
        BY <2>1 DEF interps
<1>2. rds = FieldOrderReadings(r.fields)
    <2>1. r.ambig # "dayOrYear"
        OBVIOUS
    <2> QED
        BY <2>1 DEF Readings
<1>3. OffersAll(t, o, rds)
    BY <1>2, ReadingsOffered
<1> HIDE DEF rds, interps
<1>4. PICK n \in Nat : n = Len(rds) /\ DOMAIN rds = 1..n
    BY <1>3, LenProperties DEF OffersAll
<1>5. /\ n >= 1 /\ rds[1].label = RolesFor(o)
      /\ \A k \in 1..n : \E q \in Orders : rds[k].label = RolesFor(q) /\ FieldsIn(t, q, rds[k].fields)
      /\ \A k, j \in 1..n : k # j => rds[k].label # rds[j].label
      /\ \A q \in Orders : Fitting(t, q) => \E k \in 1..n : rds[k].label = RolesFor(q)
    BY <1>3, <1>4, Zenon DEF OffersAll
<1>6. \A rd : layoutOf(rd).fields = rd.fields
    BY DEF Compile, Layout
<1> HIDE DEF layoutOf
<1>7. all \in [1..n -> X] /\ \A k \in 1..n : all[k] = ReadAs(t, layoutOf(rds[k]), rds[k].label)
    <2>1. X = {all[k] : k \in 1..n} /\ all = [k \in 1..n |-> ReadAs(t, layoutOf(rds[k]), rds[k].label)]
        BY <1>4
    <2> HIDE DEF X
    <2> QED
        BY <2>1
<1> HIDE DEF all, X
<1>8. all \in Seq(X) /\ Len(all) = n
    BY <1>7, FunctionIsSequence
<1>9. ASSUME NEW k \in 1..n, NEW q \in Orders, rds[k].label = RolesFor(q)
      PROVE  OfferFor(t, q, all[k])
    <2>1. PICK p \in Orders : rds[k].label = RolesFor(p) /\ FieldsIn(t, p, rds[k].fields)
        BY <1>5
    <2>2. p = q
        BY <1>9, <2>1, RolesForDiffer
    <2>3. OfferFor(t, q, ReadAs(t, layoutOf(rds[k]), rds[k].label))
        BY <1>6, <1>9, <2>1, <2>2, OfferIs
    <2> QED
        BY <1>7, <2>3
<1>10. ASSUME NEW k \in 1..n, all[k] # Refused
       PROVE  \E q \in Orders :
                  /\ IsReading(t, q) /\ rds[k].label = RolesFor(q) /\ all[k].label = RolesFor(q)
                  /\ all[k].time = MidnightOf(DateIn(t, q)).time
    <2>1. PICK q \in Orders : rds[k].label = RolesFor(q)
        BY <1>5
    <2>2. OfferFor(t, q, all[k])
        BY <1>9, <2>1
    <2> QED
        BY <1>10, <2>1, <2>2 DEF OfferFor
<1>11. Apart(all, {Refused})
    <2> SUFFICES ASSUME NEW a \in 1..n, NEW b \in 1..n, a # b, all[a] # Refused, all[b] # Refused
                 PROVE  all[a] # all[b]
        BY <1>8 DEF Apart
    <2>1. all[a].label = rds[a].label /\ all[b].label = rds[b].label
        BY <1>10
    <2> QED
        BY <1>5, <2>1
<1>12. /\ rs \in Seq(X \ {Refused}) /\ LeftOf(rs, all, {Refused}, 1)
       /\ 1 <= Len(all) /\ all[1] \notin {Refused} => rs[1] = all[1]
    BY <1>8, <1>11, WithoutKeeps
<1> HIDE DEF rs
<1>13. /\ {rs[j] : j \in DOMAIN rs} = {all[j] : j \in 1..n} \ {Refused}
       /\ \A a, b \in DOMAIN rs : a # b => rs[a] # rs[b]
    BY <1>8, <1>12 DEF LeftOf
<1>14. ASSUME NEW i \in DOMAIN rs
       PROVE  \E k \in 1..n : rs[i] = all[k] /\ all[k] # Refused
    BY <1>13
<1>15. ASSUME NEW i \in DOMAIN rs
       PROVE  \E q \in Orders : /\ IsReading(t, q) /\ rs[i].label = RolesFor(q)
                                /\ rs[i].time = MidnightOf(DateIn(t, q)).time
    <2>1. PICK k \in 1..n : rs[i] = all[k] /\ all[k] # Refused
        BY <1>14
    <2> QED
        BY <1>10, <2>1
<1>16. ASSUME NEW q \in Orders, IsReading(t, q)
       PROVE  \E i \in DOMAIN rs : rs[i].time = MidnightOf(DateIn(t, q)).time
    <2>1. Fitting(t, q)
        BY <1>16 DEF IsReading, Fitting
    <2>2. PICK k \in 1..n : rds[k].label = RolesFor(q)
        BY <1>5, <2>1
    <2>3. all[k] # Refused /\ all[k].time = MidnightOf(DateIn(t, q)).time
        BY <1>9, <1>16, <2>2 DEF OfferFor
    <2>4. PICK i \in DOMAIN rs : rs[i] = all[k]
        BY <1>13, <2>3
    <2> QED
        BY <2>3, <2>4
<1>17. ASSUME NEW i \in DOMAIN rs, NEW j \in DOMAIN rs, i # j
       PROVE  rs[i].label # rs[j].label
    <2>1. PICK a \in 1..n : rs[i] = all[a] /\ all[a] # Refused
        BY <1>14
    <2>2. PICK b \in 1..n : rs[j] = all[b] /\ all[b] # Refused
        BY <1>14
    <2>3. a # b
        BY <1>13, <1>17, <2>1, <2>2
    <2>4. all[a].label = rds[a].label /\ all[b].label = rds[b].label
        BY <1>10, <2>1, <2>2
    <2> QED
        BY <1>5, <2>1, <2>2, <2>3, <2>4
<1>18. ASSUME IsReading(t, o)
       PROVE  rs[1].time = MidnightOf(DateIn(t, o)).time
    <2>1. 1 \in 1..n /\ 1 <= n
        BY <1>5
    <2>2. all[1] # Refused /\ all[1].time = MidnightOf(DateIn(t, o)).time
        BY <1>5, <1>9, <1>18, <2>1 DEF OfferFor
    <2> QED
        BY <1>8, <1>12, <2>1, <2>2
<1> QED
    BY <1>1, <1>15, <1>16, <1>17, <1>18 DEF interps

\* A refusal to choose is a guess that detection made, refused in strict mode.
LEMMA RefusedGuess ==
    ASSUME NEW t \in Seq(Token), IsTriple(t), NEW cfg \in AnOption,
           ~ParseTrimmed(t, cfg, ThisYear).ok,
           ParseTrimmed(t, cfg, ThisYear).cause = "ambiguous"
    PROVE  /\ DetectShape(t, cfg).ok /\ DetectShape(t, cfg).ambig # "none"
           /\ ParseTrimmed(t, cfg, ThisYear)
                  = BuildAmbiguousError(t, DetectShape(t, cfg), cfg, ThisYear)
<1> DEFINE r == DetectShape(t, cfg)
           p == ParseTrimmed(t, cfg, ThisYear)
           guess == cfg.strict /\ r.ambig # "none"
<1>1. p = ParseAfter(t, r, cfg, ThisYear)
    BY DEF ParseTrimmed
<1>2. ~IsEpoch(t) /\ ParseNatural(t, cfg, BaseYear(cfg, ThisYear)) = Err("noMatch")
    BY TripleIsNoPhrase
<1>3. Err("noMatch").cause # "ambiguous" /\ \A x, l, a, k : Parsed(x, l, a, k).ok = TRUE
    BY DEF Err, Parsed
<1>4. ~p.ok /\ p.cause = "ambiguous"
    OBVIOUS
<1> HIDE DEF r, p
<1>5. r.ok
    <2> SUFFICES ASSUME ~r.ok
                 PROVE  FALSE
        OBVIOUS
    <2>1. p = ParseNatural(t, cfg, BaseYear(cfg, ThisYear))
        BY <1>1, <1>2, Zenon DEF ParseAfter
    <2> QED
        BY <1>2, <1>3, <1>4, <2>1
<1>6. guess
    <2> SUFFICES ASSUME ~guess
                 PROVE  FALSE
        OBVIOUS
    <2>1. p = ParseDetected(t, r, cfg, ThisYear)
        BY <1>1, <1>5, Zenon DEF ParseAfter
    <2>2. \/ p = Err("noMatch")
          \/ \E x, l, a, k : p = Parsed(x, l, a, k)
        BY <2>1, Zenon DEF ParseDetected, RunOn, Executed
    <2> QED
        BY <1>3, <1>4, <2>2
<1>7. p = BuildAmbiguousError(t, r, cfg, ThisYear)
    BY <1>1, <1>5, <1>6, Zenon DEF ParseAfter
<1> QED
    BY <1>5, <1>6, <1>7 DEF r, p

\* What lenient mode answers where the format detected reads in the order o.
LEMMA LenientAnswers ==
    ASSUME NEW t \in Seq(Token), IsTriple(t), NEW cfg \in AnOption, NEW o \in Orders,
           DetectShape(t, cfg).ok, FieldsIn(t, o, DetectShape(t, cfg).fields),
           ParseTrimmed(t, Lenient(cfg), ThisYear).ok
    PROVE  LET p == ParseTrimmed(t, Lenient(cfg), ThisYear)
           IN  /\ p.ambiguous = (DetectShape(t, cfg).ambig # "none")
               /\ IsReading(t, o) /\ p.time = MidnightOf(DateIn(t, o)).time
<1> DEFINE r == DetectShape(t, cfg)
           c == Lenient(cfg)
           p == ParseTrimmed(t, c, ThisYear)
           l == CompileFor(r, c, ThisYear)
<1>1. p = ParseAfter(t, r, c, ThisYear)
    BY DetectionIgnoresStrictness, Zenon DEF ParseTrimmed
<1>2. c.strict = FALSE /\ r.ok /\ p.ok
    BY DEF Lenient, AnOption
<1>3. l.fields = r.fields /\ l.ambig = r.ambig
    BY CompiledKeepsFormat
<1>4. FieldsIn(t, o, r.fields)
    OBVIOUS
<1> HIDE DEF r, c, p, l
<1>5. p = ParseDetected(t, r, c, ThisYear)
    BY <1>1, <1>2, Zenon DEF ParseAfter
<1>6. p = Executed(Execute(l, t), l, l.ambig # "none")
    BY <1>5, Zenon DEF ParseDetected, RunOn, l
<1>7. Err("noMatch").ok = FALSE
    BY DEF Err
<1>8. Execute(l, t).ok
    BY <1>2, <1>6, <1>7 DEF Executed
<1>9. Execute(l, t) = IF IsReading(t, o) THEN MidnightOf(DateIn(t, o)) ELSE Refused
    BY <1>3, <1>4, OrdersPlace, ExecuteInOrder
<1>10. IsReading(t, o) /\ Execute(l, t) = MidnightOf(DateIn(t, o))
    BY <1>8, <1>9 DEF Refused
<1>11. p = Parsed(Execute(l, t).time, l, l.ambig # "none", "absolute")
    BY <1>6, <1>8 DEF Executed
<1>12. p.time = Execute(l, t).time /\ p.ambiguous = (l.ambig # "none")
    BY <1>11 DEF Parsed
<1> QED
    BY <1>3, <1>10, <1>12, Zenon DEF p, c, r

LEMMA AnsweredCarriesAll == IInv => (NumericCall => StrictCarriesEveryReading)
<1> SUFFICES ASSUME IInv, NumericCall,
                    ~last.out.ok, last.out.cause = "ambiguous", last.out.interps # <<>>
             PROVE  LET rs == last.out.interps
                        lenient == ParseWithConfig(last.input, Lenient(last.cfg), ThisYear)
                    IN  /\ {Date(rs[i].time.y, rs[i].time.m, rs[i].time.d) : i \in DOMAIN rs}
                              = DatesMeant
                        /\ \A i, j \in DOMAIN rs : i # j => rs[i].label # rs[j].label
                        /\ lenient.ok => lenient.ambiguous /\ lenient.time = rs[1].time
    BY Zenon DEF StrictCarriesEveryReading
<1> DEFINE t == TrimPadding(last.input)
           cfg == last.cfg
           r == DetectShape(t, cfg)
           rs == last.out.interps
           lenient == ParseTrimmed(t, Lenient(cfg), ThisYear)
           dateOf(i) == Date(rs[i].time.y, rs[i].time.m, rs[i].time.d)
<1>1. /\ t \in Seq(Token) /\ IsTriple(t) /\ cfg \in AnOption
      /\ last.out = ParseTrimmed(t, cfg, ThisYear)
    BY NumericCallIs DEF NumericCall
<1>2. lenient = ParseWithConfig(last.input, Lenient(last.cfg), ThisYear)
    BY DEF ParseWithConfig
<1>3. DatesMeant = TripleDates(t)
    BY DEF DatesMeant, DatesOf, NumericCall
<1> HIDE DEF t, cfg, r, rs, lenient
<1>4. /\ r.ok /\ r.ambig # "none"
      /\ last.out = BuildAmbiguousError(t, r, cfg, ThisYear)
    BY <1>1, RefusedGuess DEF r
<1>5. ReadsInOrder(t, OptionsFor(t, cfg), r)
    BY <1>1, <1>4, DetectionReads DEF r
<1>6. PICK o \in Orders : r.ambig \in Guesses /\ FieldsIn(t, o, r.fields)
    BY <1>5 DEF ReadsInOrder
<1>7. r.ambig \in {"fieldOrder", "yearPosition"}
    BY <1>4, <1>6 DEF Guesses
<1>8. /\ \A i \in DOMAIN rs : \E q \in Orders :
             /\ IsReading(t, q) /\ rs[i].time = MidnightOf(DateIn(t, q)).time
      /\ \A q \in Orders : IsReading(t, q) =>
             \E i \in DOMAIN rs : rs[i].time = MidnightOf(DateIn(t, q)).time
      /\ \A i, j \in DOMAIN rs : i # j => rs[i].label # rs[j].label
      /\ IsReading(t, o) => rs[1].time = MidnightOf(DateIn(t, o)).time
    <2> DEFINE ps == BuildAmbiguousError(t, r, cfg, ThisYear).interps
    <2>1. ps = rs /\ ps # <<>>
        BY <1>4 DEF rs
    <2>2. /\ \A i \in DOMAIN ps : \E q \in Orders :
                 /\ IsReading(t, q) /\ ps[i].label = RolesFor(q)
                 /\ ps[i].time = MidnightOf(DateIn(t, q)).time
          /\ \A q \in Orders : IsReading(t, q) =>
                 \E i \in DOMAIN ps : ps[i].time = MidnightOf(DateIn(t, q)).time
          /\ \A i, j \in DOMAIN ps : i # j => ps[i].label # ps[j].label
          /\ IsReading(t, o) => ps[1].time = MidnightOf(DateIn(t, o)).time
        BY <1>1, <1>6, <1>7, <2>1, OfferedAre
    <2> HIDE DEF ps
    <2> QED
        BY <2>1, <2>2
<1>9. \A q \in Orders, i \in DOMAIN rs :
          rs[i].time = MidnightOf(DateIn(t, q)).time => dateOf(i) = DateIn(t, q)
    BY MidnightIsDate
<1>10. {dateOf(i) : i \in DOMAIN rs} = TripleDates(t)
    <2>1. ASSUME NEW i \in DOMAIN rs
          PROVE  dateOf(i) \in TripleDates(t)
        <3>1. PICK q \in Orders : IsReading(t, q) /\ rs[i].time = MidnightOf(DateIn(t, q)).time
            BY <1>8
        <3>2. dateOf(i) = DateIn(t, q)
            BY <1>9, <3>1
        <3> HIDE DEF dateOf
        <3> QED
            BY <3>1, <3>2 DEF TripleDates
    <2>2. ASSUME NEW x \in TripleDates(t)
          PROVE  \E i \in DOMAIN rs : dateOf(i) = x
        <3>1. PICK q \in Orders : IsReading(t, q) /\ x = DateIn(t, q)
            BY <2>2 DEF TripleDates
        <3>2. PICK i \in DOMAIN rs : rs[i].time = MidnightOf(DateIn(t, q)).time
            BY <1>8, <3>1
        <3>3. dateOf(i) = x
            BY <1>9, <3>1, <3>2
        <3> QED
            BY <3>3
    <2> HIDE DEF dateOf
    <2> QED
        BY <2>1, <2>2
<1>11. lenient.ok => lenient.ambiguous /\ lenient.time = rs[1].time
    <2> SUFFICES ASSUME lenient.ok
                 PROVE  lenient.ambiguous /\ lenient.time = rs[1].time
        OBVIOUS
    <2>1. /\ lenient.ambiguous = (r.ambig # "none")
          /\ IsReading(t, o) /\ lenient.time = MidnightOf(DateIn(t, o)).time
        BY <1>1, <1>4, <1>6, LenientAnswers DEF r, lenient
    <2> QED
        BY <1>4, <1>8, <2>1
<1> QED
    BY <1>2, <1>3, <1>8, <1>10, <1>11 DEF rs

-----------------------------------------------------------------------------
\* A layout of a fixed shape reads what detection would find in the same shape.

NumberKindsOfTable == {"Year4", "Month2", "Day2", "Hour24", "Minute2", "Second2"}

LEMMA ClassesAreOfBytes ==
    ASSUME NEW x \in Token, NEW k \in SeparatorClasses, k \in ClassesOf(x)
    PROVE  x.t = "byte"
<1>1. x.t # "num"
    BY Zenon DEF ClassesOf
<1>2. SUFFICES ASSUME x.t # "byte"
               PROVE  FALSE
    OBVIOUS
<1>3. x.c \notin Separators
    BY <1>1, <1>2 DEF Token, IsToken, Num, Byte, Month, Word
<1>4. /\ x.c # "-" /\ x.c # "/" /\ x.c # "." /\ x.c # " " /\ x.c # ":"
    BY <1>3, Zenon DEF Separators
<1>5. ClassesOf(x) = {"nondigit"} \cup {"words", "letter"} \cup {} \cup {} \cup {}
    BY <1>1, <1>2, <1>4, Zenon DEF ClassesOf
<1> QED
    BY <1>5 DEF SeparatorClasses

SQLDateTime  == <<"Year4", "sep", "Month2", "sep", "Day2", "space",
                  "Hour24", "colon", "Minute2", "colon", "Second2">>
ISOYearMonth == <<"Year4", "sep", "Month2">>
BareYear     == <<"Year4">>
TimeHM       == <<"Hour24", "colon", "Minute2">>

LEMMA TableHas ==
    ASSUME NEW n \in DOMAIN Table
    PROVE  \/ Table[n] = ISODate \/ Table[n] = TimeHMS \/ Table[n] = SQLDateTime
           \/ Table[n] = ISOYearMonth \/ Table[n] = BareYear \/ Table[n] = TimeHM
    BY DEF Table, ISODate, TimeHMS, SQLDateTime, ISOYearMonth, BareYear, TimeHM

\* The places of an entry hold separators and numbers.
LEMMA TableEntries ==
    ASSUME NEW n \in DOMAIN Table
    PROVE  /\ DOMAIN Table[n] = 1..Len(Table[n])
           /\ \A i \in DOMAIN Table[n] : Table[n][i] \in SeparatorClasses \cup NumberKindsOfTable
<1> DEFINE K == SeparatorClasses \cup NumberKindsOfTable
<1>1. /\ "Year4" \in K /\ "Month2" \in K /\ "Day2" \in K /\ "Hour24" \in K /\ "Minute2" \in K
      /\ "Second2" \in K /\ "sep" \in K /\ "space" \in K /\ "colon" \in K
    BY DEF SeparatorClasses, NumberKindsOfTable
<1> HIDE DEF K
<1>2. \A a \in K : <<a>> \in Seq(K)
    OBVIOUS
<1>3. \A a, b, c \in K : <<a, b, c>> \in Seq(K)
    OBVIOUS
<1>4. \A a, b, c, d, e \in K : <<a, b, c, d, e>> \in Seq(K)
    OBVIOUS
<1>5. \A a, b, c, d, e, f, g, h, i, j, k \in K : <<a, b, c, d, e, f, g, h, i, j, k>> \in Seq(K)
    OBVIOUS
<1>6. Table[n] \in Seq(K)
    <2>1. ISODate \in Seq(K) /\ TimeHMS \in Seq(K)
        BY <1>1, <1>4 DEF ISODate, TimeHMS
    <2>2. ISOYearMonth \in Seq(K) /\ TimeHM \in Seq(K) /\ BareYear \in Seq(K)
        BY <1>1, <1>2, <1>3 DEF ISOYearMonth, TimeHM, BareYear
    <2>3. SQLDateTime \in Seq(K)
        BY <1>1, <1>5, Zenon DEF SQLDateTime
    <2> QED
        BY <2>1, <2>2, <2>3, TableHas
<1>7. \A s \in Seq(K) : DOMAIN s = 1..Len(s) /\ \A i \in DOMAIN s : s[i] \in K
    BY ElementOfSeq
<1> QED
    BY <1>6, <1>7 DEF K

\* A number of an entry is read in the width its shape has.
LEMMA NumberOfEntry ==
    ASSUME NEW k \in NumberKindsOfTable, NEW f, f.kind = k, NEW x, NEW locales
    PROVE  Accepts(f, x, locales) => x.t = "num" /\ x.w = IF k = "Year4" THEN 4 ELSE 2
<1>year. f.kind = "Year4" /\ Accepts(f, x, locales) => x.t = "num" /\ x.w = 4
    <2> DEFINE most == Most[4]
    <2>1. f.kind = "Year4" => Accepts(f, x, locales) = Bounded(x, {4}, 0, 9999)
        BY AcceptsByKind
    <2>2. most = 9999
        BY DEF Most
    <2> HIDE DEF most
    <2>3. f.kind = "Year4" => Accepts(f, x, locales) = Bounded(x, {4}, 0, most)
        BY <2>1, <2>2
    <2> QED
        BY <2>3 DEF Bounded
<1> SUFFICES ASSUME Accepts(f, x, locales)
             PROVE  x.t = "num" /\ x.w = IF k = "Year4" THEN 4 ELSE 2
    OBVIOUS
<1>0. \A ws, lo, hi : Bounded(x, ws, lo, hi) => x.t = "num" /\ x.w \in ws
    BY Zenon DEF Bounded
<1>1. CASE k \in {"Year4", "Month2", "Day2"}
    <2>1. CASE k = "Year4"
        <3>1. f.kind = "Year4"
            BY <2>1
        <3> QED
            BY <1>year, <2>1, <3>1
    <2>2. CASE k = "Month2"
        <3>1. Bounded(x, {2}, 1, 12)
            BY <2>2, AcceptsByKind
        <3>2. x.t = "num" /\ x.w \in {2}
            BY <1>0, <3>1, Zenon
        <3> QED
            BY <2>2, <3>2
    <2>3. CASE k = "Day2"
        <3>1. Bounded(x, {2}, 1, 31)
            BY <2>3, AcceptsByKind
        <3>2. x.t = "num" /\ x.w \in {2}
            BY <1>0, <3>1, Zenon
        <3> QED
            BY <2>3, <3>2
    <2> QED
        BY <1>1, <2>1, <2>2, <2>3
<1>2. CASE k \in {"Hour24", "Minute2", "Second2"}
    <2>1. CASE k = "Hour24"
        <3>1. \A j \in {"Year4", "Year2", "Month2", "Month1or2", "MonthName", "Day2", "Day1or2",
                     "Hour12", "Minute2", "Second2", "AMPM"} : f.kind # j
            BY <2>1
        <3>2. f.kind \notin {"Literal", "Skip"}
            BY <2>1
        <3>3. Accepts(f, x, locales) = Bounded(x, {2}, 0, 23)
            BY <2>1, <3>1, <3>2 DEF Accepts
        <3> QED
            BY <2>1, <3>3 DEF Bounded
    <2>2. CASE k = "Minute2"
        <3>1. \A j \in {"Year4", "Year2", "Month2", "Month1or2", "MonthName", "Day2", "Day1or2",
                     "Hour24", "Hour12", "Second2", "AMPM"} : f.kind # j
            BY <2>2
        <3>2. f.kind \notin {"Literal", "Skip"}
            BY <2>2
        <3>3. Accepts(f, x, locales) = Bounded(x, {2}, 0, 59)
            BY <2>2, <3>1, <3>2 DEF Accepts
        <3> QED
            BY <2>2, <3>3 DEF Bounded
    <2>3. CASE k = "Second2"
        <3>1. \A j \in {"Year4", "Year2", "Month2", "Month1or2", "MonthName", "Day2", "Day1or2",
                     "Hour24", "Hour12", "Minute2", "AMPM"} : f.kind # j
            BY <2>3
        <3>2. f.kind \notin {"Literal", "Skip"}
            BY <2>3
        <3>3. Accepts(f, x, locales) = Bounded(x, {2}, 0, 59)
            BY <2>3, <3>1, <3>2 DEF Accepts
        <3> QED
            BY <2>3, <3>3 DEF Bounded
    <2> QED
        BY <1>2, <2>1, <2>2, <2>3
<1> QED
    BY <1>1, <1>2 DEF NumberKindsOfTable

LEMMA LiteralTakes ==
    ASSUME NEW x, NEW y, NEW k, NEW locales, Accepts(Taking("Literal", x, k), y, locales)
    PROVE  k \in ClassesOf(y)
<1> DEFINE f == Taking("Literal", x, k)
<1>1. f.kind = "Literal" /\ f.aux = k
    <2>1. "aux" \in DOMAIN Field("Literal", x) /\ Field("Literal", x).kind = "Literal"
          /\ "kind" \in DOMAIN Field("Literal", x)
        BY DEF Field
    <2> QED
        BY <2>1 DEF Taking
<1> HIDE DEF f
<1>2. Accepts(f, y, locales) => f.aux \in ClassesOf(y)
    <2>1. \A j \in {"Year4", "Year2", "Month2", "Month1or2", "MonthName", "Day2", "Day1or2",
                 "Hour24", "Hour12", "Minute2", "Second2", "AMPM"} : f.kind # j
        BY <1>1
    <2> QED
        BY <1>1, <2>1 DEF Accepts
<1> QED
    BY <1>1, <1>2 DEF f

LEMMA EntriesAre ==
    /\ Len(ISODate) = 5 /\ Len(TimeHMS) = 5 /\ Len(SQLDateTime) = 11
    /\ Len(ISOYearMonth) = 3 /\ Len(BareYear) = 1 /\ Len(TimeHM) = 3
    /\ ISODate[1] = "Year4" /\ SQLDateTime[1] = "Year4" /\ ISOYearMonth[1] = "Year4"
    /\ BareYear[1] = "Year4" /\ TimeHM[1] = "Hour24" /\ TimeHMS[1] = "Hour24"
    /\ TimeHMS[5] = "Second2"
    BY DEF ISODate, TimeHMS, SQLDateTime, ISOYearMonth, BareYear, TimeHM

LEMMA WidthsOfShape ==
    ASSUME NEW n \in DOMAIN Table, NEW s, FitsShape(s, Table[n]), NEW i \in DOMAIN s,
           Table[n][i] \notin SeparatorClasses
    PROVE  s[i].w = IF Table[n][i] = "Year4" THEN 4 ELSE 2
    BY DEF FitsShape

LEMMA PlacesOfShape ==
    ASSUME NEW X, NEW s \in Seq(X), NEW n \in DOMAIN Table, FitsShape(s, Table[n])
    PROVE  /\ DOMAIN s = 1..Len(s) /\ DOMAIN s = DOMAIN Table[n] /\ Len(s) = Len(Table[n])
           /\ 1 \in DOMAIN s
           /\ \A i \in DOMAIN s : Table[n][i] \in SeparatorClasses \cup NumberKindsOfTable
<1>1. Len(s) = Len(Table[n])
    BY DEF FitsShape
<1>2. Len(s) \in Nat \ {0}
    BY <1>1, TableNamesFields
<1>3. DOMAIN s = 1..Len(s)
    OBVIOUS
<1> QED
    BY <1>1, <1>2, <1>3, TableEntries

LEMMA FirstOfShape ==
    ASSUME NEW X, NEW s \in Seq(X), NEW n \in DOMAIN Table, FitsShape(s, Table[n])
    PROVE  /\ Table[n] \in {ISODate, SQLDateTime, ISOYearMonth, BareYear} => s[1].w = 4
           /\ Table[n] \in {TimeHM, TimeHMS} => s[1].w = 2
<1>1. 1 \in DOMAIN s
    BY PlacesOfShape
<1>2. "Year4" \notin SeparatorClasses /\ "Hour24" \notin SeparatorClasses /\ "Year4" # "Hour24"
    BY DEF SeparatorClasses
<1>3. ASSUME Table[n] \in {ISODate, SQLDateTime, ISOYearMonth, BareYear}
      PROVE  s[1].w = 4
    <2>1. Table[n][1] = "Year4"
        BY <1>3, EntriesAre
    <2> QED
        BY <1>1, <1>2, <2>1, WidthsOfShape
<1>4. ASSUME Table[n] \in {TimeHM, TimeHMS}
      PROVE  s[1].w = 2
    <2>1. Table[n][1] = "Hour24"
        BY <1>4, EntriesAre
    <2> QED
        BY <1>1, <1>2, <2>1, WidthsOfShape
<1> QED
    BY <1>3, <1>4

\* No value has two shapes of the table.
LEMMA OneShape ==
    ASSUME NEW X, NEW s \in Seq(X), NEW n \in DOMAIN Table, FitsShape(s, Table[n]),
           NEW m \in DOMAIN Table, FitsShape(s, Table[m])
    PROVE  Table[m] = Table[n]
<1> DEFINE a == Table[n]
           b == Table[m]
<1>1. Len(a) = Len(b)
    BY DEF FitsShape
<1>2. /\ \/ a = ISODate \/ a = TimeHMS \/ a = SQLDateTime \/ a = ISOYearMonth \/ a = BareYear \/ a = TimeHM
      /\ \/ b = ISODate \/ b = TimeHMS \/ b = SQLDateTime \/ b = ISOYearMonth \/ b = BareYear \/ b = TimeHM
    BY TableHas
<1>3. /\ a \in {ISODate, SQLDateTime, ISOYearMonth, BareYear} => s[1].w = 4
      /\ a \in {TimeHM, TimeHMS} => s[1].w = 2
      /\ b \in {ISODate, SQLDateTime, ISOYearMonth, BareYear} => s[1].w = 4
      /\ b \in {TimeHM, TimeHMS} => s[1].w = 2
    BY FirstOfShape
<1> HIDE DEF a, b
<1>4. a = b
    <2> DEFINE LA == Len(a)
               LB == Len(b)
               wide == s[1].w = 4
               short == s[1].w = 2
    <2>1. /\ a = ISODate => LA = 5 /\ wide
          /\ a = TimeHMS => LA = 5 /\ short
          /\ a = SQLDateTime => LA = 11
          /\ a = ISOYearMonth => LA = 3 /\ wide
          /\ a = BareYear => LA = 1
          /\ a = TimeHM => LA = 3 /\ short
        BY <1>3, EntriesAre
    <2>2. /\ b = ISODate => LB = 5 /\ wide
          /\ b = TimeHMS => LB = 5 /\ short
          /\ b = SQLDateTime => LB = 11
          /\ b = ISOYearMonth => LB = 3 /\ wide
          /\ b = BareYear => LB = 1
          /\ b = TimeHM => LB = 3 /\ short
        BY <1>3, EntriesAre
    <2>3. ~(wide /\ short)
        OBVIOUS
    <2>4. LA = LB
        BY <1>1
    <2> HIDE DEF LA, LB, wide, short
    <2> QED
        BY <1>2, <2>1, <2>2, <2>3, <2>4
<1> QED
    BY <1>4 DEF a, b

\* Nor is one of them the shape that the table cannot decide.
LEMMA ShapeIsDecided ==
    ASSUME NEW X, NEW s \in Seq(X), NEW n \in DOMAIN Table, FitsShape(s, Table[n])
    PROVE  ~IsNumericSep(s)
<1> SUFFICES ASSUME IsNumericSep(s)
             PROVE  FALSE
    OBVIOUS
<1>1. Len(s) = 5 /\ s[1].w = 2 /\ s[5].w = 4
    BY Zenon DEF IsNumericSep
<1>2. Len(s) = Len(Table[n]) /\ 5 \in DOMAIN s
    BY <1>1, PlacesOfShape
<1>3. Table[n] = TimeHMS
    <2>1. Table[n] \notin {ISODate, SQLDateTime, ISOYearMonth, BareYear}
        <3>1. s[1].w # 4
            BY <1>1
        <3> QED
            BY <3>1, FirstOfShape
    <2>2. Table[n] # TimeHM
        <3> SUFFICES ASSUME Table[n] = TimeHM
                     PROVE  FALSE
            OBVIOUS
        <3>1. Len(Table[n]) = 5
            BY <1>1, <1>2, Zenon
        <3>2. Len(Table[n]) = 3
            BY EntriesAre, Zenon
        <3>3. 5 # 3
            OBVIOUS
        <3> QED
            BY <3>1, <3>2, <3>3, Zenon
    <2> QED
        BY <2>1, <2>2, TableHas
<1>4. "Second2" \notin SeparatorClasses /\ "Second2" # "Year4"
    BY DEF SeparatorClasses
<1>5. s[5].w = 2
    BY <1>2, <1>3, <1>4, EntriesAre, WidthsOfShape
<1> QED
    BY <1>1, <1>5

\* A value whose tokens a layout of the table accepts has the same shape.
LEMMA AcceptedHasShape ==
    ASSUME NEW n \in DOMAIN Table, NEW t \in Seq(Token), FitsShape(t, Table[n]),
           NEW s \in Seq(Token), Len(s) = Len(t), NEW locales,
           \A i \in DOMAIN s : Accepts(TableFields(t, Table[n])[i], s[i], locales)
    PROVE  FitsShape(s, Table[n])
<1> DEFINE e == Table[n]
<1>1. /\ DOMAIN t = 1..Len(t) /\ Len(t) = Len(e)
      /\ \A i \in DOMAIN t : e[i] \in SeparatorClasses \cup NumberKindsOfTable
    BY PlacesOfShape
<1>2. DOMAIN s = DOMAIN t /\ \A i \in DOMAIN s : s[i] \in Token
    <2>1. DOMAIN s = 1..Len(s)
        OBVIOUS
    <2>2. \A i \in 1..Len(s) : s[i] \in Token
        BY ElementOfSeq
    <2> QED
        BY <1>1, <2>1, <2>2
<1> HIDE DEF e
<1>3. ASSUME NEW i \in DOMAIN s, e[i] \in SeparatorClasses
      PROVE  e[i] \in ClassesOf(s[i]) /\ s[i].t = "byte"
    <2>1. TableFields(t, e)[i] = Taking("Literal", t[i], e[i])
        BY <1>2, <1>3, Zenon DEF TableFields
    <2>2. e[i] \in ClassesOf(s[i])
        BY <2>1, LiteralTakes DEF e
    <2> QED
        BY <1>2, <1>3, <2>2, ClassesAreOfBytes
<1>4. ASSUME NEW i \in DOMAIN s, e[i] \notin SeparatorClasses
      PROVE  s[i].t = "num" /\ s[i].w = IF e[i] = "Year4" THEN 4 ELSE 2
    <2>1. TableFields(t, e)[i] = Field(e[i], t[i])
        BY <1>2, <1>4, Zenon DEF TableFields
    <2>2. Field(e[i], t[i]).kind = e[i]
        BY DEF Field
    <2>3. e[i] \in NumberKindsOfTable
        BY <1>1, <1>2, <1>4
    <2> QED
        BY <2>1, <2>2, <2>3, NumberOfEntry DEF e
<1>5. Len(s) = Len(e)
    BY <1>1
<1>6. FitsShape(s, e)
    BY <1>3, <1>4, <1>5, Zenon DEF FitsShape
<1> QED
    BY <1>6 DEF e

FormatOf(s, n) ==
    [ok |-> TRUE, ambig |-> "none", prone |-> FALSE, fields |-> TableFields(s, Table[n])]

\* No entry skips anything.
LEMMA TableSkipsNothing ==
    ASSUME NEW s, NEW e, NEW i \in DOMAIN TableFields(s, e),
           e[i] \in SeparatorClasses \cup NumberKindsOfTable
    PROVE  /\ DOMAIN TableFields(s, e) = DOMAIN s
           /\ TableFields(s, e)[i].kind = IF e[i] \in SeparatorClasses THEN "Literal" ELSE e[i]
           /\ TableFields(s, e)[i].kind # "Skip"
<1>1. DOMAIN TableFields(s, e) = DOMAIN s
    BY DEF TableFields
<1>2. CASE e[i] \in SeparatorClasses
    <2>1. TableFields(s, e)[i] = Taking("Literal", s[i], e[i])
        BY <1>1, <1>2, Zenon DEF TableFields
    <2>2. \A x, k : Taking("Literal", x, k).kind = "Literal"
        <3>1. ASSUME NEW x
              PROVE  "kind" \in DOMAIN Field("Literal", x) /\ Field("Literal", x).kind = "Literal"
            BY DEF Field
        <3> QED
            BY <3>1 DEF Taking
    <2> QED
        BY <1>1, <1>2, <2>1, <2>2
<1>3. CASE e[i] \notin SeparatorClasses
    <2>1. TableFields(s, e)[i] = Field(e[i], s[i])
        BY <1>1, <1>3, Zenon DEF TableFields
    <2>2. Field(e[i], s[i]).kind = e[i]
        BY DEF Field
    <2>3. "Skip" \notin NumberKindsOfTable
        BY DEF NumberKindsOfTable
    <2> QED
        BY <1>1, <1>3, <2>1, <2>2, <2>3
<1> QED
    BY <1>2, <1>3

\* Detection finds the shape.
LEMMA TableIsFound ==
    ASSUME NEW X, NEW s \in Seq(X), NEW cfg, NEW n \in DOMAIN Table, FitsShape(s, Table[n])
    PROVE  DetectShape(s, cfg) = FormatOf(s, n)
<1> DEFINE entries == {m \in DOMAIN Table : FitsShape(s, Table[m])}
           r == DetectFormat(s, cfg)
<1>1. ~IsNumericSep(s)
    BY ShapeIsDecided
<1>2. n \in entries
    OBVIOUS
<1>3. PICK m \in entries : m = CHOOSE e \in entries : TRUE
    BY <1>2
<1>4. Table[m] = Table[n]
    BY OneShape
<1>5. r = FormatOf(s, n)
    BY <1>1, <1>2, <1>3, <1>4, Zenon DEF DetectFormat, FormatOf
<1> HIDE DEF r
<1>6. r.ok = TRUE /\ r.fields = TableFields(s, Table[n])
    BY <1>5 DEF FormatOf
<1>7. ~SkipRunCarriesMeaning(s, r.fields, cfg.locales)
    <2>1. ASSUME NEW i \in DOMAIN s, i \in DOMAIN r.fields
          PROVE  r.fields[i].kind # "Skip"
        <3>1. Table[n][i] \in SeparatorClasses \cup NumberKindsOfTable
            BY <2>1, PlacesOfShape
        <3> QED
            BY <1>6, <2>1, <3>1, TableSkipsNothing
    <2> QED
        BY <2>1, Zenon DEF SkipRunCarriesMeaning
<1>8. DetectShape(s, cfg) = r
    BY <1>6, <1>7, Zenon DEF DetectShape, Meaningless, r
<1> QED
    BY <1>5, <1>8

\* Without a letter, what is no guess in any value is of the table.
LEMMA NumericIsProne ==
    ASSUME NEW p, NEW sep, NEW cfg, ResolveAmbiguousFields(p, sep, cfg).ok
    PROVE  /\ ResolveAmbiguousFields(p, sep, cfg).prone = TRUE
           /\ {"prone", "fields"} \subseteq DOMAIN ResolveAmbiguousFields(p, sep, cfg)
<1>1. PICK r : ResolveAmbiguousFields(p, sep, cfg) = NumericFormat(p, r, TRUE)
    BY Zenon DEF ResolveAmbiguousFields, NumericFields
<1>2. NotNumeric.ok = FALSE
    BY DEF NotNumeric
<1>3. NumericFormat(p, r, TRUE) # NotNumeric
    BY <1>1, <1>2
<1> DEFINE fields == DatePartFields(p, [i \in 1..3 |-> RoleOf(r, i)])
<1>4. NumericFormat(p, r, TRUE) = [ok |-> TRUE, ambig |-> r.ambig, prone |-> TRUE, fields |-> fields]
    BY <1>3, Zenon DEF NumericFormat
<1> HIDE DEF fields
<1>5. /\ NumericFormat(p, r, TRUE).prone = TRUE
      /\ {"prone", "fields"} \subseteq DOMAIN NumericFormat(p, r, TRUE)
    <2>1. \A a, f : /\ [ok |-> TRUE, ambig |-> a, prone |-> TRUE, fields |-> f].prone = TRUE
                   /\ {"prone", "fields"} \subseteq
                          DOMAIN [ok |-> TRUE, ambig |-> a, prone |-> TRUE, fields |-> f]
        OBVIOUS
    <2> QED
        BY <1>4, <2>1, Zenon
<1> QED
    BY <1>1, <1>5

LEMMA DigitsWithoutGuess ==
    ASSUME NEW X, NEW s \in Seq(X), NEW cfg, ~HasLetter(s), DetectShape(s, cfg).ok,
           ~DetectShape(s, cfg).prone
    PROVE  \E n \in DOMAIN Table : FitsShape(s, Table[n])
<1> DEFINE entries == {e \in DOMAIN Table : FitsShape(s, Table[e])}
           r == DetectFormat(s, cfg)
           v == ResolveAmbiguousFields(Parts(s), s[2].c, cfg)
<1>0. NotTextual.ok = FALSE /\ NoFormat.ok = FALSE
    BY DEF NotTextual, NoFormat
<1>1. DetectShape(s, cfg) = r /\ r.ok /\ ~r.prone
    <2> HIDE DEF r
    <2> QED
        BY <1>0, Zenon DEF DetectShape, Meaningless, r
<1>2. v.ok => v.prone = TRUE /\ {"prone", "fields"} \subseteq DOMAIN v
    BY NumericIsProne
<1> HIDE DEF v
<1> SUFFICES ASSUME entries = {}
             PROVE  FALSE
    OBVIOUS
<1>3. CASE IsNumericSep(s)
    <2>1. r = v \/ r = NoFormat
        BY <1>3, Zenon DEF DetectFormat, ResolveAmbiguous, v
    <2> QED
        BY <1>0, <1>1, <1>2, <2>1
<1>4. CASE ~IsNumericSep(s)
    <2>1. r = FirstOf(NotTextual, DetectVariableNumeric(s, cfg))
        BY <1>4, Zenon DEF DetectFormat
    <2>2. r = DetectVariableNumeric(s, cfg)
        BY <1>0, <2>1, Zenon DEF FirstOf
    <2>3. IsVariableNumeric(s)
        BY <1>0, <1>1, <2>2, Zenon DEF DetectVariableNumeric
    <2>4. r = WithTimeSuffix(s, v, TimeComponent(s, 6))
        BY <2>2, <2>3, Zenon DEF DetectVariableNumeric, v
    <2>5. r = v \/ \E fs : r = [v EXCEPT !.fields = fs] /\ v.ok
        BY <2>4, Zenon DEF WithTimeSuffix
    <2> HIDE DEF r
    <2> QED
        BY <1>1, <1>2, <2>5
<1> QED
    BY <1>3, <1>4

LEMMA GreatestNumber ==
    ASSUME NEW n \in Nat, NEW kept \in SUBSET (1..n), kept # {}
    PROVE  Max(kept) \in kept
<1> DEFINE back == {n - i : i \in kept}
<1>1. back \in SUBSET Nat /\ back # {}
    <2>1. \A i \in kept : n - i \in Nat
        <3>1. \A i \in 1..n : n - i \in Nat
            OBVIOUS
        <3> QED
            BY <3>1
    <2>2. back \in SUBSET Nat
        BY <2>1
    <2>3. PICK i \in kept : TRUE
        OBVIOUS
    <2>4. n - i \in back
        OBVIOUS
    <2> HIDE DEF back
    <2> QED
        BY <2>2, <2>4
<1>2. PICK k \in back : \A j \in back : k <= j
    <2> HIDE DEF back
    <2> QED
        BY <1>1, LeastNumber
<1>3. PICK hi \in kept : k = n - hi
    BY <1>2
<1>4. \A i \in kept : hi >= i
    <2>1. ASSUME NEW i \in kept
          PROVE  n - hi <= n - i
        <3>1. n - i \in back
            OBVIOUS
        <3> HIDE DEF back
        <3> QED
            BY <1>2, <1>3, <3>1
    <2> QED
        BY <2>1
<1> HIDE DEF back
<1> QED
    BY <1>4 DEF Max

\* What a layout answers depends on its kinds and its base year alone.
LEMMA SameKindsSameTime ==
    ASSUME NEW l, NEW k, NEW s, NEW n \in Nat, DOMAIN l.fields = 1..n, DOMAIN k.fields = 1..n,
           \A i \in 1..n : l.fields[i].kind = k.fields[i].kind,
           l.baseYear = k.baseYear, Execute(l, s).ok, Execute(k, s).ok
    PROVE  Execute(l, s).time = Execute(k, s).time
<1>1. \A K : Reads(l.fields, K) = Reads(k.fields, K) /\ Reads(l.fields, K) \in SUBSET (1..n)
    BY DEF Reads
<1>2. \A K, default : ValueOf(l.fields, s, K, default) = ValueOf(k.fields, s, K, default)
    <2>1. ASSUME NEW K, NEW default
          PROVE  ValueOf(l.fields, s, K, default) = ValueOf(k.fields, s, K, default)
        <3>1. Reads(l.fields, K) = Reads(k.fields, K)
            BY <1>1
        <3> QED
            BY <3>1 DEF ValueOf
    <2> QED
        BY <2>1
<1>3. YearOf(l, s) = YearOf(k, s)
    <2> DEFINE at == Reads(l.fields, YearKinds)
    <2>1. at = Reads(k.fields, YearKinds) /\ at \in SUBSET (1..n)
        BY <1>1
    <2>2. CASE at = {}
        BY <2>1, <2>2, Zenon DEF YearOf
    <2>3. CASE at # {}
        <3> HIDE DEF at
        <3>1. l.fields[Max(at)].kind = k.fields[Max(at)].kind
            BY <2>1, <2>3, GreatestNumber
        <3> QED
            BY <2>1, <2>3, <3>1, Zenon DEF YearOf, at
    <2> QED
        BY <2>2, <2>3
<1> DEFINE timeOf(c) ==
               LET ap == Reads(c.fields, {"AMPM"})
               IN  [y |-> YearOf(c, s), m |-> ValueOf(c.fields, s, MonthKinds, 1),
                    d |-> ValueOf(c.fields, s, DayKinds, 1),
                    h |-> ApplyAMPM(ValueOf(c.fields, s, HourKinds, 0),
                                    IF ap = {} THEN "none" ELSE s[Max(ap)].c),
                    mi |-> ValueOf(c.fields, s, {"Minute2"}, 0),
                    se |-> ValueOf(c.fields, s, {"Second2"}, 0)]
<1>4. timeOf(l) = timeOf(k)
    <2> DEFINE ap == Reads(l.fields, {"AMPM"})
    <2>1. ap = Reads(k.fields, {"AMPM"})
        BY <1>1
    <2> HIDE DEF ap
    <2> QED
        BY <1>2, <1>3, <2>1 DEF ap
<1>5. ASSUME NEW c, Execute(c, s).ok
      PROVE  Execute(c, s).time = timeOf(c)
    <2> DEFINE time == timeOf(c)
    <2>1. Execute(c, s) = At(time) \/ Execute(c, s) = Refused
        BY Zenon DEF Execute
    <2> HIDE DEF time
    <2>2. Refused.ok = FALSE /\ At(time).time = time
        BY DEF Refused, At
    <2>3. Execute(c, s) = At(time)
        BY <1>5, <2>1, <2>2
    <2> QED
        BY <2>2, <2>3, Zenon DEF time
<1> HIDE DEF timeOf
<1> QED
    BY <1>4, <1>5

\* Execution accounts for every token.
LEMMA ExecutedAccepts ==
    ASSUME NEW l, NEW s, Execute(l, s).ok
    PROVE  Len(s) = Len(l.fields) /\ \A i \in DOMAIN s : Accepts(l.fields[i], s[i], l.locales)
<1>1. Refused.ok = FALSE
    BY DEF Refused
<1>2. Execute(l, s) # Refused
    BY <1>1
<1> QED
    BY <1>2, Zenon DEF Execute

LEMMA TableFieldsHaveKinds ==
    ASSUME NEW X, NEW s \in Seq(X), NEW n \in DOMAIN Table, FitsShape(s, Table[n])
    PROVE  /\ DOMAIN TableFields(s, Table[n]) = 1..Len(Table[n])
           /\ Len(TableFields(s, Table[n])) = Len(Table[n]) /\ Len(s) = Len(Table[n])
           /\ \A i \in 1..Len(Table[n]) :
                  TableFields(s, Table[n])[i].kind =
                      IF Table[n][i] \in SeparatorClasses THEN "Literal" ELSE Table[n][i]
<1>1. /\ DOMAIN s = 1..Len(s) /\ Len(s) = Len(Table[n])
      /\ \A i \in DOMAIN s : Table[n][i] \in SeparatorClasses \cup NumberKindsOfTable
    BY PlacesOfShape
<1>2. DOMAIN TableFields(s, Table[n]) = DOMAIN s
    BY DEF TableFields
<1>3. Len(TableFields(s, Table[n])) = Len(Table[n])
    <2>1. Len(Table[n]) \in Nat
        BY TableNamesFields
    <2> DEFINE fs == TableFields(s, Table[n])
    <2>2. fs \in [1..Len(Table[n]) -> {fs[i] : i \in 1..Len(Table[n])}]
        BY <1>1 DEF TableFields
    <2> HIDE DEF fs
    <2>3. Len(fs) = Len(Table[n])
        BY <2>1, <2>2, FunctionIsSequence
    <2> QED
        BY <2>3 DEF fs
<1>4. ASSUME NEW i \in DOMAIN s
      PROVE  TableFields(s, Table[n])[i].kind =
                 IF Table[n][i] \in SeparatorClasses THEN "Literal" ELSE Table[n][i]
    <2>1. i \in DOMAIN TableFields(s, Table[n])
        BY <1>2
    <2> QED
        BY <1>1, <2>1, TableSkipsNothing
<1> QED
    BY <1>1, <1>2, <1>3, <1>4

\* The layout compiled for a value of the table reads another value of its
\* length, if at all, as the layout of that value does.
LEMMA ShapesReadAlike ==
    ASSUME NEW n \in DOMAIN Table, NEW t \in Seq(Token), FitsShape(t, Table[n]),
           NEW s \in Seq(Token), NEW cfg \in AnOption,
           Execute(CompileFor(FormatOf(t, n), cfg, ThisYear), s).ok
    PROVE  LET k == CompileFor(FormatOf(s, n), Lenient(cfg), ThisYear)
           IN  /\ FitsShape(s, Table[n]) /\ k.ambig = "none"
               /\ Execute(k, s).ok =>
                    Execute(k, s).time =
                        Execute(CompileFor(FormatOf(t, n), cfg, ThisYear), s).time
<1> DEFINE l == CompileFor(FormatOf(t, n), cfg, ThisYear)
           k == CompileFor(FormatOf(s, n), Lenient(cfg), ThisYear)
           e == Table[n]
<1>1. l.fields = TableFields(t, e) /\ k.fields = TableFields(s, e) /\ k.ambig = "none"
    BY DEF CompileFor, Compile, Layout, FormatOf
<1>2. BaseYear(cfg, ThisYear) = BaseYear(Lenient(cfg), ThisYear)
    <2>1. Lenient(cfg).base = cfg.base
        BY DEF Lenient, AnOption
    <2> QED
        BY <2>1 DEF BaseYear
<1>3. l.baseYear = IF NeedsBaseYear(TableFields(t, e)) THEN BaseYear(cfg, ThisYear) ELSE 0
    BY DEF CompileFor, Compile, Layout, FormatOf
<1>4. k.baseYear = IF NeedsBaseYear(TableFields(s, e)) THEN BaseYear(cfg, ThisYear) ELSE 0
    BY <1>2 DEF CompileFor, Compile, Layout, FormatOf
<1> HIDE DEF l, k
<1>5. Execute(l, s).ok
    BY DEF l
<1>6. Len(s) = Len(TableFields(t, e)) /\ \A i \in DOMAIN s : Accepts(TableFields(t, e)[i], s[i], l.locales)
    BY <1>1, <1>5, ExecutedAccepts
<1>7. FitsShape(s, e)
    <2>1. Len(s) = Len(t)
        BY <1>6, TableFieldsHaveKinds
    <2> QED
        BY <1>6, <2>1, AcceptedHasShape
<1>8. /\ DOMAIN l.fields = 1..Len(e) /\ DOMAIN k.fields = 1..Len(e) /\ Len(e) \in Nat
      /\ \A i \in 1..Len(e) : l.fields[i].kind = k.fields[i].kind
    BY <1>1, <1>7, TableFieldsHaveKinds, TableNamesFields
<1>9. l.baseYear = k.baseYear
    <2>1. NeedsBaseYear(TableFields(t, e)) <=> NeedsBaseYear(TableFields(s, e))
        BY <1>1, <1>8 DEF NeedsBaseYear, Reads
    <2> QED
        BY <1>3, <1>4, <2>1
<1>10. Execute(k, s).ok => Execute(k, s).time = Execute(l, s).time
    BY <1>5, <1>8, <1>9, SameKindsSameTime
<1> QED
    BY <1>1, <1>7, <1>10 DEF l, k

\* Parsing, once detection found the shape.
LEMMA ShapeIsParsed ==
    ASSUME NEW X, NEW s \in Seq(X), NEW cfg \in AnOption,
           NEW n \in DOMAIN Table, FitsShape(s, Table[n])
    PROVE  LET c == Lenient(cfg)
               p == ParseTrimmed(s, c, ThisYear)
               k == CompileFor(FormatOf(s, n), c, ThisYear)
           IN  /\ p.ok => Execute(k, s).ok /\ p.time = Execute(k, s).time
               /\ p.ok => p.ambiguous = (k.ambig # "none")
<1> DEFINE c == Lenient(cfg)
           p == ParseTrimmed(s, c, ThisYear)
           r == FormatOf(s, n)
           k == CompileFor(r, c, ThisYear)
           x == Execute(k, s)
<1>1. DetectShape(s, c) = r
    BY TableIsFound
<1>2. r.ok = TRUE
    BY DEF FormatOf
<1>3. c.strict = FALSE
    BY DEF Lenient, AnOption
<1> HIDE DEF r, c
<1>4. p = ParseDetected(s, r, c, ThisYear)
    BY <1>1, <1>2, <1>3, Zenon DEF ParseTrimmed, ParseAfter
<1> HIDE DEF p
<1>5. p = Executed(x, k, k.ambig # "none")
    BY <1>4 DEF ParseDetected, RunOn
<1> HIDE DEF x, k
<1>6. CASE x.ok
    <2>1. p = Parsed(x.time, k, k.ambig # "none", "absolute")
        BY <1>5, <1>6 DEF Executed
    <2>2. p.time = x.time /\ p.ambiguous = (k.ambig # "none")
        BY <2>1 DEF Parsed
    <2> QED
        BY <1>6, <2>2 DEF x, k, p, r, c
<1>7. CASE ~x.ok
    <2>1. p = Err("noMatch")
        BY <1>5, <1>7 DEF Executed
    <2>2. p.ok = FALSE
        BY <2>1 DEF Err
    <2> QED
        BY <2>2 DEF p, c
<1> QED
    BY <1>6, <1>7

\* The layout held is from a value without letters.
FromDigits == ~HasLetter(TrimPadding(held.from))

LEMMA AnsweredReuse == IInv => (FromDigits => ReuseAgrees)
<1> SUFFICES ASSUME IInv, FromDigits,
                    last.op = "reuse", held.own, Reusable(held.layout), last.out.ok
             PROVE  LET p == ParseWithConfig(last.input, Lenient(held.cfg), ThisYear)
                    IN  p.ok => p.time = last.out.time /\ (p.ambiguous => SettledByOrdinal)
    BY DEF ReuseAgrees
<1> DEFINE t == TrimPadding(held.from)
           s == TrimPadding(last.input)
           cfg == held.cfg
           l == held.layout
           p == ParseWithConfig(last.input, Lenient(held.cfg), ThisYear)
<1>1. last # NoCall
    BY OpsDiffer
<1>2. last.input \in Samples /\ held # HoldsNothing /\ last.out = LayoutParse(l, last.input)
    BY <1>1 DEF IInv, LastAnswered
<1>3. held.from \in Samples /\ cfg \in Configs /\ OwnLayout(l, held.from, cfg)
    BY <1>2 DEF IInv, HeldIsFrom
<1>4. CompiledFrom(l, held.from, cfg)
    BY <1>3, SentinelsHaveNoProgram DEF OwnLayout, Reusable
<1>5. s \in Seq(Token) /\ t \in Seq(Token) /\ cfg \in AnOption
    BY <1>2, <1>3, InputsAreTokens, SamplesAssumption, ConfigsAssumption DEF AnOption
<1>6. last.out = Execute(l, s)
    BY <1>2 DEF LayoutParse, Reusable
<1> DEFINE r == DetectShape(t, cfg)
<1>7. r.ok /\ l = CompileFor(r, cfg, ThisYear)
    BY <1>4 DEF CompiledFrom, DetectedIn
<1>8. ~r.prone
    <2> HIDE DEF r, l
    <2>1. l.prone = r.prone
        BY <1>7 DEF CompileFor, Compile, Layout
    <2> QED
        BY <2>1 DEF Reusable, l
<1>9. PICK n \in DOMAIN Table : FitsShape(t, Table[n])
    BY <1>5, <1>7, <1>8, DigitsWithoutGuess DEF FromDigits
<1>10. r = FormatOf(t, n)
    BY <1>5, <1>9, TableIsFound
<1> DEFINE k == CompileFor(FormatOf(s, n), Lenient(cfg), ThisYear)
<1>11. /\ FitsShape(s, Table[n]) /\ k.ambig = "none"
       /\ Execute(k, s).ok => Execute(k, s).time = last.out.time
    <2>1. Execute(CompileFor(FormatOf(t, n), cfg, ThisYear), s).ok
        BY <1>6, <1>7, <1>10
    <2> QED
        BY <1>5, <1>6, <1>7, <1>9, <1>10, <2>1, ShapesReadAlike
<1>12. /\ p.ok => Execute(k, s).ok /\ p.time = Execute(k, s).time
       /\ p.ok => p.ambiguous = (k.ambig # "none")
    BY <1>5, <1>11, ShapeIsParsed DEF ParseWithConfig
<1> HIDE DEF k, p
<1> QED
    BY <1>11, <1>12 DEF p

-----------------------------------------------------------------------------
\* The options choose the order of a numeric date: the year first where asked
\* for and possible, else the day or the month (WithPreferDayFirst,
\* WithPreferYearFirst in options.go).
THEOREM PreferenceHonouredAlways == Spec => []PreferenceHonoured
    BY AnsweredAlways, AnsweredHonours, PTL

\* No other reading of a numeric date is hidden behind an answer that is not
\* flagged (SECURITY.md).
THEOREM NumericHidesNothing == Spec => [](NumericCall => NoHiddenReading)
    BY AnsweredAlways, AnsweredHidesNothing, PTL

\* Strict mode refuses a guess at a numeric date with every date it can mean,
\* each under a label of its own, and first the one lenient mode answers
\* (buildAmbiguousError in dateparser.go, Readings in detect.go).
THEOREM NumericCarriesEveryReading == Spec => [](NumericCall => StrictCarriesEveryReading)
    BY AnsweredAlways, AnsweredCarriesAll, PTL

\* A layout of digits that says it is reusable, one detected in a value without
\* a letter, answers the next value as parsing it does, and none that is a
\* guess (Reusable in layout.go, Layout.Parse).
THEOREM DigitLayoutsReadAlike == Spec => [](FromDigits => ReuseAgrees)
    BY AnsweredAlways, AnsweredReuse, PTL

=============================================================================
