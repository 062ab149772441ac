---------------------------- MODULE SessionProofs ----------------------------
(***************************************************************************)
(* A layout reads the value it came from, for every value, every options   *)
(* and every year.                                                         *)
(*                                                                         *)
(* A layout that a call handed back is the one detection of its value      *)
(* compiles, in strict mode as in lenient, because strict mode has no part *)
(* in detection; and one that was offered as a reading has already read    *)
(* the value, because a reading that is refused is not offered.            *)
(***************************************************************************)
EXTENDS Session, Induction, SequenceTheorems

-----------------------------------------------------------------------------
\* What is left of a sequence is of what was in it.

Dropped(s, out) == {i \in 1..Len(s) : s[i] \in out}
Here(s) == [i \in 1..Len(s) |-> s[i]]
OneOn(s) == [i \in 1..Len(s) |-> i + 1]
AtEnd(s) == [i \in 1..(Len(s) + 1) |-> <<>>]

\* From place i on: h[i] is what is left.
LeavesFrom(h, s, out) ==
    \A i \in 1..(Len(s) + 1) :
        h[i] = IF i > Len(s) THEN <<>>
               ELSE IF s[i] \in out THEN h[i + 1]
               ELSE <<s[i]>> \o h[i + 1]

LEMMA WithoutUnfolds ==
    ASSUME NEW X, NEW s \in Seq(X), NEW out
    PROVE  \E h : /\ Without(s, out) = h[1] /\ LeavesFrom(h, s, out)
                  /\ \A i \in 1..(Len(s) + 1) : h[i] \in Seq(X \ out)
<1> DEFINE n == Len(s)
           body(from, i) ==
               IF i > Len(s) THEN <<>>
               ELSE IF s[i] \in out THEN from[i + 1]
               ELSE <<s[i]>> \o from[i + 1]
           read(g, i) == PlaceReads(g, i, {n + 1}, AtEnd(s), Dropped(s, out), Here(s), OneOn(s))
<1>1. n \in Nat
    OBVIOUS
<1>2. ASSUME NEW g, NEW i \in 1..(n + 1)
      PROVE  read(g, i) <=> g[i] = body(g, i)
    <2>1. CASE i = n + 1
        BY <1>1, <2>1 DEF PlaceReads, AtEnd
    <2>2. CASE i # n + 1
        <3>1. i \in 1..n /\ ~(i > n) /\ i \notin {n + 1}
            BY <1>1, <2>2
        <3> HIDE DEF n
        <3>2. i \in Dropped(s, out) <=> s[i] \in out
            BY <3>1 DEF Dropped, n
        <3>3. Here(s)[i] = s[i] /\ OneOn(s)[i] = i + 1
            BY <3>1 DEF Here, OneOn, n
        <3> QED
            BY <3>1, <3>2, <3>3 DEF PlaceReads, n
    <2> QED
        BY <2>1, <2>2
<1>3. ReadsOnward(n, X \ out, {n + 1}, AtEnd(s), Dropped(s, out), Here(s), OneOn(s))
    <2>1. AtEnd(s)[n + 1] \in Seq(X \ out)
        <3>1. n + 1 \in 1..(Len(s) + 1)
            BY <1>1
        <3> QED
            BY <3>1 DEF AtEnd
    <2>2. ASSUME NEW i \in 1..n
          PROVE  /\ i \in Dropped(s, out) \/ Here(s)[i] \in X \ out
                 /\ OneOn(s)[i] \in (i + 1)..(n + 1)
        <3>1. s[i] \in X /\ Here(s)[i] = s[i] /\ OneOn(s)[i] = i + 1
            BY <2>2 DEF Here, OneOn
        <3>2. i \in Dropped(s, out) <=> s[i] \in out
            BY <2>2 DEF Dropped
        <3> HIDE DEF n
        <3> QED
            BY <1>1, <2>2, <3>1, <3>2
    <2>3. \A i \in 1..(n + 1) : i \notin {n + 1} => i \in 1..n
        BY <1>1
    <2> HIDE DEF n
    <2> QED
        BY <2>1, <2>2, <2>3 DEF ReadsOnward
<1>4. PICK g : g = [i \in 1..(n + 1) |-> g[i]] /\ \A i \in 1..(n + 1) : read(g, i)
    BY <1>1, <1>3, ReadingExists DEF IsRead
<1>5. g = [i \in 1..(n + 1) |-> body(g, i)]
    <2> HIDE DEF body, read
    <2>1. \A i \in 1..(n + 1) : g[i] = body(g, i)
        BY <1>2, <1>4
    <2> QED
        BY <1>4, <2>1
<1> DEFINE h == CHOOSE from : from = [i \in 1..(n + 1) |-> body(from, i)]
<1>6. Without(s, out) = h[1]
    BY DEF Without
<1>7. h = [i \in 1..(n + 1) |-> body(h, i)]
    <2> HIDE DEF body
    <2> QED
        BY <1>5
<1> HIDE DEF h
<1>8. \A i \in 1..(n + 1) : h[i] = body(h, i)
    <2> HIDE DEF body, n
    <2> QED
        BY <1>7
<1>9. IsRead(h, n, {n + 1}, AtEnd(s), Dropped(s, out), Here(s), OneOn(s))
    <2>1. ASSUME NEW i \in 1..(n + 1)
          PROVE  read(h, i)
        <3> HIDE DEF body, read
        <3> QED
            BY <1>2, <1>8
    <2> QED
        BY <2>1 DEF IsRead
<1>10. \A i \in 1..(n + 1) : h[i] \in Seq(X \ out)
    BY <1>1, <1>3, <1>9, ReadingIsTyped
<1>11. LeavesFrom(h, s, out)
    BY <1>8 DEF LeavesFrom
<1> QED
    BY <1>6, <1>10, <1>11

LEMMA WithoutIsTyped ==
    ASSUME NEW X, NEW s \in Seq(X), NEW out
    PROVE  Without(s, out) \in Seq(X \ out)
<1>1. PICK h : /\ Without(s, out) = h[1]
               /\ \A i \in 1..(Len(s) + 1) : h[i] \in Seq(X \ out)
    BY WithoutUnfolds
<1>2. 1 \in 1..(Len(s) + 1)
    OBVIOUS
<1> QED
    BY <1>1, <1>2

-----------------------------------------------------------------------------
\* The readings offered.

LEMMA DayOrYearReadingsKeepPlaces ==
    ASSUME NEW fields
    PROVE  /\ \E T : DayOrYearReadings(fields) \in Seq(T)
           /\ \A i \in DOMAIN DayOrYearReadings(fields) :
                  DOMAIN DayOrYearReadings(fields)[i].fields = DOMAIN fields
<1>1. \E a, b, swap :
          /\ DayOrYearReadings(fields) \in {<<>>, <<[fields |-> fields, label |-> a],
                                                  [fields |-> swap, label |-> b]>>}
          /\ DOMAIN swap = DOMAIN fields
    <2> DEFINE day == Reads(fields, {"Day2"})
               year == Reads(fields, {"Year2"})
               swap == [i \in DOMAIN fields |->
                           CASE i \in day  -> [fields[i] EXCEPT !.kind = "Year2"]
                             [] i \in year -> [fields[i] EXCEPT !.kind = "Day2"]
                             [] OTHER      -> fields[i]]
               label(fs) == SelectSeq([i \in DOMAIN fs |-> fs[i].kind],
                                      LAMBDA k : k \in YearKinds \cup DayKinds \cup MonthKinds)
    <2>1. DayOrYearReadings(fields) = IF day = {} \/ Reads(fields, {"MonthName"}) = {}
                                      THEN <<>>
                                      ELSE <<[fields |-> fields, label |-> label(fields)],
                                             [fields |-> swap, label |-> label(swap)]>>
        BY DEF DayOrYearReadings
    <2>2. DOMAIN swap = DOMAIN fields
        OBVIOUS
    <2> DEFINE a == label(fields)
               b == label(swap)
    <2>3. DayOrYearReadings(fields) \in {<<>>, <<[fields |-> fields, label |-> a],
                                                [fields |-> swap, label |-> b]>>}
        BY <2>1
    <2> HIDE DEF swap, label, a, b
    <2> WITNESS a, b, swap
    <2> QED
        BY <2>2, <2>3
<1> PICK a, b, swap :
          /\ DayOrYearReadings(fields) \in {<<>>, <<[fields |-> fields, label |-> a],
                                                  [fields |-> swap, label |-> b]>>}
          /\ DOMAIN swap = DOMAIN fields
    BY <1>1
<1>2. CASE DayOrYearReadings(fields) = <<>>
    BY <1>2
<1>3. CASE DayOrYearReadings(fields) = <<[fields |-> fields, label |-> a],
                                         [fields |-> swap, label |-> b]>>
    <2> DEFINE x == [fields |-> fields, label |-> a]
               y == [fields |-> swap, label |-> b]
    <2>1. DOMAIN x.fields = DOMAIN fields /\ DOMAIN y.fields = DOMAIN fields
        OBVIOUS
    <2> HIDE DEF x, y
    <2>2. <<x, y>> \in Seq({x, y}) /\ DOMAIN <<x, y>> = 1..2 /\ <<x, y>>[1] = x /\ <<x, y>>[2] = y
        OBVIOUS
    <2>3. \A i \in 1..2 : i = 1 \/ i = 2
        OBVIOUS
    <2>4. DayOrYearReadings(fields) = <<x, y>>
        BY <1>3 DEF x, y
    <2> QED
        BY <2>1, <2>2, <2>3, <2>4
<1> QED
    BY <1>2, <1>3

LEMMA ConventionsAreASequence ==
    \E X : Conventions \in Seq(X)
<1>1. \A a, b, c : <<a, b, c>> \in Seq({a, b, c})
    OBVIOUS
<1> QED
    BY <1>1 DEF Conventions

LEMMA FieldOrderReadingsKeepPlaces ==
    ASSUME NEW fields
    PROVE  /\ \E T : FieldOrderReadings(fields) \in Seq(T)
           /\ \A i \in DOMAIN FieldOrderReadings(fields) :
                  DOMAIN FieldOrderReadings(fields)[i].fields = DOMAIN fields
<1> DEFINE chosen == ChosenRoles(fields)
           others == Without(Conventions,
                             {r \in Range(Conventions) : r = chosen \/ ~Carries(fields, r)})
           first == [fields |-> fields, label |-> chosen]
           rest == [i \in DOMAIN others |-> [fields |-> Rekinded(fields, others[i]),
                                            label  |-> others[i]]]
           all == <<first>> \o rest
           T == {first} \cup {rest[i] : i \in DOMAIN others}
<1>1. FieldOrderReadings(fields) = all
    BY DEF FieldOrderReadings
<1>2. \E X : others \in Seq(X)
    <2>1. PICK X : Conventions \in Seq(X)
        BY ConventionsAreASequence
    <2>2. others \in Seq(X \ {r \in Range(Conventions) : r = chosen \/ ~Carries(fields, r)})
        BY <2>1, WithoutIsTyped
    <2> QED
        BY <2>2
<1> HIDE DEF others
<1>3. PICK n \in Nat : n = Len(others) /\ DOMAIN others = 1..n
    <2>1. Len(others) \in Nat /\ DOMAIN others = 1..Len(others)
        BY <1>2
    <2> QED
        BY <2>1
<1>4. /\ rest \in Seq(T) /\ Len(rest) = n
      /\ \A i \in 1..n : DOMAIN rest[i].fields = DOMAIN fields
    <2> HIDE DEF others
    <2>1. rest \in [1..n -> T]
        BY <1>3
    <2>2. \A roles : DOMAIN Rekinded(fields, roles) = DOMAIN fields
        BY DEF Rekinded
    <2>3. \A i \in 1..n : rest[i].fields = Rekinded(fields, others[i])
        BY <1>3
    <2> HIDE DEF rest, T
    <2> QED
        BY <2>1, <2>2, <2>3
<1>5. first \in T /\ DOMAIN first.fields = DOMAIN fields
    OBVIOUS
<1> HIDE DEF rest, T, first, others
<1>6. <<first>> \in Seq(T) /\ Len(<<first>>) = 1 /\ <<first>>[1] = first
    BY <1>5
<1>7. /\ all \in Seq(T) /\ Len(all) = 1 + n
      /\ \A i \in 1..(1 + n) : all[i] = IF i <= 1 THEN <<first>>[i] ELSE rest[i - 1]
    BY <1>4, <1>6, ConcatProperties
<1> HIDE DEF all
<1>8. DOMAIN all = 1..(1 + n)
    BY <1>7
<1>9. ASSUME NEW i \in DOMAIN all
      PROVE  DOMAIN all[i].fields = DOMAIN fields
    <2>1. i \in 1..(1 + n) /\ i \in Nat
        BY <1>8
    <2>2. CASE i = 1
        BY <1>5, <1>6, <1>7, <2>1, <2>2
    <2>3. CASE i # 1
        <3>1. i - 1 \in 1..n /\ ~(i <= 1)
            BY <2>1, <2>3
        <3>2. all[i] = rest[i - 1]
            BY <1>7, <2>1, <3>1
        <3> QED
            BY <1>4, <3>1, <3>2
    <2> QED
        BY <2>2, <2>3
<1> QED
    BY <1>1, <1>7, <1>9

LEMMA ReadingsKeepPlaces ==
    ASSUME NEW r
    PROVE  /\ \E T : Readings(r) \in Seq(T)
           /\ \A i \in DOMAIN Readings(r) : DOMAIN Readings(r)[i].fields = DOMAIN r.fields
<1>1. Readings(r) \in {<<>>, DayOrYearReadings(r.fields), FieldOrderReadings(r.fields)}
    BY DEF Readings
<1>2. CASE Readings(r) = <<>>
    BY <1>2
<1>3. CASE Readings(r) = DayOrYearReadings(r.fields)
    BY <1>3, DayOrYearReadingsKeepPlaces
<1>4. CASE Readings(r) = FieldOrderReadings(r.fields)
    BY <1>4, FieldOrderReadingsKeepPlaces
<1> QED
    BY <1>1, <1>2, <1>3, <1>4

\* A reading that does not read the value is not offered.
LEMMA OfferedHasRead ==
    ASSUME NEW s, NEW r, NEW cfg, NEW year,
           NEW i \in DOMAIN BuildAmbiguousError(s, r, cfg, year).interps
    PROVE  LET l == BuildAmbiguousError(s, r, cfg, year).interps[i].layout
           IN  Execute(l, s).ok /\ DOMAIN l.fields = DOMAIN r.fields
<1> DEFINE layoutOf(rd) == Compile("reading", rd.fields, "none", FALSE, cfg.locales,
                                   BaseYear(cfg, year))
           rds == Readings(r)
           all == [k \in DOMAIN rds |-> ReadAs(s, layoutOf(rds[k]), rds[k].label)]
           offered == Without(all, {Refused})
           X == {all[k] : k \in DOMAIN rds}
           interps == BuildAmbiguousError(s, r, cfg, year).interps
<1>1. interps = IF Len(offered) < 2 THEN <<>> ELSE offered
    BY DEF BuildAmbiguousError, AmbiguousError
<1>2. PICK n \in Nat : n = Len(rds) /\ DOMAIN rds = 1..n
    BY ReadingsKeepPlaces
<1>3. offered \in Seq(X \ {Refused})
    <2> HIDE DEF rds
    <2>1. all \in [1..n -> X]
        BY <1>2
    <2> HIDE DEF all, X
    <2>2. all \in Seq(X)
        BY <2>1
    <2> QED
        BY <2>2, WithoutIsTyped
<1> HIDE DEF offered, interps, X
<1>4. interps[i] \in X \ {Refused}
    <2>1. i \in DOMAIN interps
        BY DEF interps
    <2> QED
        BY <1>1, <1>3, <2>1
<1>5. PICK k \in DOMAIN rds : interps[i] = ReadAs(s, layoutOf(rds[k]), rds[k].label)
    BY <1>4 DEF X
<1> DEFINE l == layoutOf(rds[k])
<1>6. interps[i] = IF Execute(l, s).ok
                   THEN [time |-> Execute(l, s).time, layout |-> l, label |-> rds[k].label] ELSE Refused
    BY <1>5 DEF ReadAs, Interpretation
<1>7. l.fields = rds[k].fields
    BY DEF Compile, Layout
<1>8. DOMAIN rds[k].fields = DOMAIN r.fields
    BY ReadingsKeepPlaces
<1> HIDE DEF l, rds
<1> QED
    BY <1>4, <1>6, <1>7, <1>8 DEF interps

-----------------------------------------------------------------------------
\* A format that is detected names a field.

LEMMA TrimmedIsASequence ==
    ASSUME NEW X, NEW s \in Seq(X)
    PROVE  TrimPadding(s) \in Seq(X)
<1> DEFINE n == Len(s)
           kept == {i \in DOMAIN s : ~IsPadding(s[i])}
<1>1. n \in Nat /\ DOMAIN s = 1..n
    OBVIOUS
<1>2. CASE kept = {}
    BY <1>2 DEF TrimPadding
<1>3. CASE kept # {}
    <2>1. kept \in SUBSET Nat /\ kept \subseteq 1..n
        BY <1>1
    <2> HIDE DEF kept
    <2>2. PICK lo \in kept : \A i \in kept : lo <= i
        BY <1>3, <2>1, LeastNumber
    <2> DEFINE back == {n - i : i \in kept}
    <2>3. PICK k \in back : \A j \in back : k <= j
        <3>1. back \in SUBSET Nat /\ back # {}
            BY <1>1, <1>3, <2>1
        <3> HIDE DEF back
        <3> QED
            BY <3>1, LeastNumber
    <2>4. PICK hi \in kept : k = n - hi
        BY <2>3
    <2>5. \A i \in kept : hi >= i
        <3>1. \A i \in kept : n - hi <= n - i
            BY <2>3, <2>4
        <3> QED
            BY <1>1, <2>1, <3>1
    <2>6. Min(kept) \in kept /\ Max(kept) \in kept
        <3>1. Min(kept) \in kept
            BY <2>2 DEF Min
        <3>2. Max(kept) \in kept
            BY <2>5 DEF Max
        <3> QED
            BY <3>1, <3>2
    <2>7. Min(kept) <= Max(kept)
        <3>1. \A i \in kept : Min(kept) <= i
            BY <2>2 DEF Min
        <3> QED
            BY <2>6, <3>1
    <2>8. Min(kept) \in 1..(n + 1) /\ Max(kept) \in (Min(kept) - 1)..n
        <3>1. \A a, b \in 1..n : a <= b => a \in 1..(n + 1) /\ b \in (a - 1)..n
            <4> HIDE DEF n
            <4> QED
                BY <1>1
        <3> HIDE DEF n
        <3> QED
            BY <2>1, <2>6, <2>7, <3>1
    <2>9. SubSeq(s, Min(kept), Max(kept)) \in Seq(X)
        BY <2>8, SubSeqProperties
    <2> QED
        BY <1>3, <2>9 DEF TrimPadding, kept
<1> QED
    BY <1>2, <1>3

LEMMA LengthIsPlaces ==
    ASSUME NEW X, NEW s \in Seq(X), Len(s) # 0
    PROVE  DOMAIN s # {}
<1>1. Len(s) \in Nat /\ DOMAIN s = 1..Len(s)
    OBVIOUS
<1>2. 1 \in 1..Len(s)
    BY <1>1
<1> QED
    BY <1>1, <1>2

NamesFields(r) == r.ok => "fields" \in DOMAIN r /\ DOMAIN r.fields # {}

LEMMA NumericNamesFields ==
    ASSUME NEW p, NEW sep, NEW cfg
    PROVE  NamesFields(ResolveAmbiguousFields(p, sep, cfg))
<1>1. ASSUME NEW roles
      PROVE  DOMAIN DatePartFields(p, roles) # {}
    <2>1. \A a, b, c, d, e : DOMAIN <<a, b, c, d, e>> # {}
        OBVIOUS
    <2> QED
        BY <2>1 DEF DatePartFields
<1>2. ASSUME NEW r, NEW prone
      PROVE  NamesFields(NumericFormat(p, r, prone))
    BY <1>1 DEF NumericFormat, NotNumeric, NamesFields
<1> HIDE DEF NamesFields
<1>3. PICK r : ResolveAmbiguousFields(p, sep, cfg) = NumericFormat(p, r, TRUE)
    BY Zenon DEF ResolveAmbiguousFields, NumericFields
<1> QED
    BY <1>2, <1>3

LEMMA TextualNamesFields ==
    ASSUME NEW s, NEW locales
    PROVE  NamesFields(DetectTextualMonth(s, locales))
<1> DEFINE months == MonthsNamed(s, locales)
<1>1. CASE months = {}
    BY <1>1 DEF DetectTextualMonth, DetectIn, NotTextual, NamesFields
<1>2. CASE months # {}
    <2>1. DOMAIN s # {}
        BY <1>2 DEF MonthsNamed
    <2>2. ASSUME NEW mi
          PROVE  NamesFields(DetectAround(s, mi))
        <3>1. \A placed : DOMAIN CoverGaps(s, placed) = DOMAIN s
            BY DEF CoverGaps
        <3>2. DOMAIN TextualFields(s, mi) # {}
            BY <2>1, <3>1 DEF TextualFields
        <3>3. /\ "fields" \in DOMAIN TextualFormat(s, TextualFields(s, mi))
              /\ TextualFormat(s, TextualFields(s, mi)).fields = TextualFields(s, mi)
            BY DEF TextualFormat, Judged
        <3>4. DetectAround(s, mi) \in {NotTextual, TextualFormat(s, TextualFields(s, mi))}
            BY DEF DetectAround
        <3> QED
            BY <3>2, <3>3, <3>4 DEF NotTextual, NamesFields
    <2>3. NamesFields(NotTextual)
        BY DEF NotTextual, NamesFields
    <2> QED
        BY <2>2, <2>3 DEF DetectTextualMonth, DetectIn
<1> QED
    BY <1>1, <1>2

LEMMA TableNamesFields ==
    ASSUME NEW n \in DOMAIN Table
    PROVE  Len(Table[n]) \in Nat \ {0}
<1>1. \A a : Len(<<a>>) = 1
    OBVIOUS
<1>2. \A a, b, c : Len(<<a, b, c>>) = 3
    OBVIOUS
<1>3. \A a, b, c, d, e : Len(<<a, b, c, d, e>>) = 5
    OBVIOUS
<1>4. \A a, b, c, d, e, f, g, h, i, j, k : Len(<<a, b, c, d, e, f, g, h, i, j, k>>) = 11
    OBVIOUS
<1>5. Len(Table[n]) \in {1, 3, 5, 11}
    BY <1>1, <1>2, <1>3, <1>4 DEF Table
<1>6. \A k \in {1, 3, 5, 11} : k \in Nat \ {0}
    OBVIOUS
<1> QED
    BY <1>5, <1>6

LEMMA DetectedNamesFields ==
    ASSUME NEW X, NEW s \in Seq(X), NEW cfg
    PROVE  NamesFields(DetectShape(s, cfg))
<1>1. NamesFields(NoFormat) /\ NamesFields(NotTextual)
    BY DEF NoFormat, NotTextual, NamesFields
<1>2. NamesFields(ResolveAmbiguous(s, cfg))
    BY <1>1, NumericNamesFields DEF ResolveAmbiguous
<1>3. NamesFields(DetectVariableNumeric(s, cfg))
    <2>1. CASE ~IsVariableNumeric(s)
        BY <1>1, <2>1 DEF DetectVariableNumeric
    <2>2. CASE IsVariableNumeric(s)
        <3> DEFINE r == ResolveAmbiguousFields(Parts(s), s[2].c, cfg)
                   time == TimeComponent(s, 6)
                   d == WithTimeSuffix(s, r, time)
        <3>1. DetectVariableNumeric(s, cfg) = d
            BY <2>2 DEF DetectVariableNumeric
        <3>2. NamesFields(r)
            BY NumericNamesFields
        <3>3. DOMAIN s # {}
            <4>1. Len(s) \in Nat /\ Len(s) >= 5
                <5>1. Len(s) >= 5
                    BY <2>2, Zenon DEF IsVariableNumeric
                <5> QED
                    BY <5>1
            <4>2. Len(s) # 0
                BY <4>1
            <4> QED
                BY <4>2, LengthIsPlaces
        <3> HIDE DEF r, time
        <3>4. d = r \/ (d = [r EXCEPT !.fields = CoverGaps(s, time @@ r.fields)] /\ r.ok)
            BY DEF WithTimeSuffix
        <3>5. \A placed : DOMAIN CoverGaps(s, placed) # {}
            BY <3>3 DEF CoverGaps
        <3> HIDE DEF d
        <3>6. NamesFields(d)
            BY <3>2, <3>4, <3>5 DEF NamesFields
        <3> QED
            BY <3>1, <3>6
    <2> QED
        BY <2>1, <2>2
<1>4. NamesFields(DetectFormat(s, cfg))
    <2> DEFINE entries == {n \in DOMAIN Table : FitsShape(s, Table[n])}
               other == FirstOf(IF HasLetter(s) THEN DetectTextualMonth(s, cfg.locales)
                                                ELSE NotTextual,
                                DetectVariableNumeric(s, cfg))
    <2>1. NamesFields(other)
        BY <1>1, <1>3, TextualNamesFields DEF FirstOf
    <2>2. CASE IsNumericSep(s)
        BY <1>2, <2>2 DEF DetectFormat
    <2>3. CASE ~IsNumericSep(s) /\ entries # {}
        <3>1. PICK n \in entries : n = CHOOSE m \in entries : TRUE
            BY <2>3
        <3>2. DOMAIN s # {}
            <4>1. Len(s) = Len(Table[n]) /\ n \in DOMAIN Table
                BY <3>1 DEF FitsShape
            <4>2. Len(s) # 0
                BY <4>1, TableNamesFields
            <4> QED
                BY <4>2, LengthIsPlaces
        <3>3. DOMAIN TableFields(s, Table[n]) # {}
            BY <3>2 DEF TableFields
        <3>4. /\ DetectFormat(s, cfg).fields = TableFields(s, Table[n])
              /\ "fields" \in DOMAIN DetectFormat(s, cfg)
            BY <2>3, <3>1 DEF DetectFormat
        <3> QED
            BY <3>3, <3>4 DEF NamesFields
    <2>4. CASE ~IsNumericSep(s) /\ entries = {}
        BY <2>1, <2>4 DEF DetectFormat
    <2> QED
        BY <2>2, <2>3, <2>4
<1> HIDE DEF NamesFields
<1> QED
    BY <1>1, <1>4 DEF DetectShape, Meaningless

-----------------------------------------------------------------------------
\* Detection asks nothing about strictness.

SameOptions(c, d) == c.dayFirst = d.dayFirst /\ c.yearFirst = d.yearFirst

LEMMA RolesIgnoreStrictness ==
    ASSUME NEW p, NEW c, NEW d, SameOptions(c, d)
    PROVE  ResolveYearMonthDay(p, c) = ResolveYearMonthDay(p, d)
<1>1. \A alt : YearLastRoles(p, c, alt) = YearLastRoles(p, d, alt)
    BY DEF YearLastRoles, SplitMonthDay, SameOptions
<1> QED
    BY <1>1 DEF ResolveYearMonthDay, SameOptions

AnOption == [dayFirst : BOOLEAN, yearFirst : BOOLEAN, strict : BOOLEAN,
             locales : SUBSET STRING, base : Nat]

DayFirst(c) == [c EXCEPT !.dayFirst = TRUE]

LEMMA DetectionIgnoresStrictness ==
    ASSUME NEW s, NEW cfg \in AnOption
    PROVE  DetectShape(s, Lenient(cfg)) = DetectShape(s, cfg)
<1> DEFINE c == Lenient(cfg)
<1>1. /\ SameOptions(c, cfg) /\ SameOptions(DayFirst(c), DayFirst(cfg))
      /\ c.locales = cfg.locales
    BY DEF Lenient, SameOptions, DayFirst, AnOption
<1> HIDE DEF c
<1>2. ASSUME NEW p, NEW sep
      PROVE  ResolveAmbiguousFields(p, sep, c) = ResolveAmbiguousFields(p, sep, cfg)
    <2>1. /\ ResolveYearMonthDay(p, c) = ResolveYearMonthDay(p, cfg)
          /\ ResolveYearMonthDay(p, DayFirst(c)) = ResolveYearMonthDay(p, DayFirst(cfg))
        BY <1>1, RolesIgnoreStrictness
    <2>2. \A o : ResolveAmbiguousFields(p, sep, o)
                   = NumericFields(p, ResolveYearMonthDay(p, IF sep = "." THEN DayFirst(o) ELSE o))
        BY Zenon DEF ResolveAmbiguousFields, DayFirst
    <2>3. CASE sep = "."
        BY <2>1, <2>2, <2>3, Zenon
    <2>4. CASE ~(sep = ".")
        BY <2>1, <2>2, <2>4, Zenon
    <2> QED
        BY <2>3, <2>4, Zenon
<1>3. DetectFormat(s, c) = DetectFormat(s, cfg)
    <2>1. /\ ResolveAmbiguous(s, c) = ResolveAmbiguous(s, cfg)
          /\ DetectVariableNumeric(s, c) = DetectVariableNumeric(s, cfg)
        BY <1>2 DEF ResolveAmbiguous, DetectVariableNumeric
    <2> QED
        BY <1>1, <2>1, Zenon DEF DetectFormat
<1> QED
    BY <1>1, <1>3, Zenon DEF DetectShape, c

-----------------------------------------------------------------------------
\* What a parse hands back.

\* The layout that detection of a value compiles.
DetectedIn(s, cfg) == DetectShape(TrimPadding(s), cfg)

CompiledFrom(l, s, cfg) ==
    DetectedIn(s, cfg).ok /\ l = CompileFor(DetectedIn(s, cfg), cfg, ThisYear)

Sentinels == {LayoutEpoch, LayoutNaturalLanguage}

OwnLayout(l, s, cfg) == l \in Sentinels \/ CompiledFrom(l, s, cfg)

OfferedLayout(l, s) ==
    l \in Sentinels \/ (HasProgram(l) /\ Execute(l, TrimPadding(s)).ok)

LEMMA SentinelsHaveNoProgram == \A l \in Sentinels : ~HasProgram(l)
    BY DEF Sentinels, LayoutEpoch, LayoutNaturalLanguage, Layout, HasProgram

LEMMA CompiledHasProgram ==
    ASSUME NEW l, NEW X, NEW s \in Seq(X), NEW cfg, CompiledFrom(l, s, cfg)
    PROVE  HasProgram(l)
<1>1. DOMAIN DetectedIn(s, cfg).fields # {}
    BY TrimmedIsASequence, DetectedNamesFields DEF CompiledFrom, DetectedIn, NamesFields
<1>2. l.fields = DetectedIn(s, cfg).fields
    BY DEF CompiledFrom, CompileFor, Compile, Layout
<1>3. DOMAIN <<>> = {}
    OBVIOUS
<1> QED
    BY <1>1, <1>2, <1>3 DEF HasProgram

LEMMA ExecuteAnswers ==
    ASSUME NEW l, NEW s
    PROVE  Execute(l, s).ok \in BOOLEAN
<1>1. Execute(l, s) = Refused \/ \E time : Execute(l, s) = At(time)
    BY Zenon DEF Execute
<1>2. Refused.ok = FALSE /\ \A time : At(time).ok = TRUE
    BY DEF Refused, At
<1>3. Execute(l, s).ok = FALSE \/ Execute(l, s).ok = TRUE
    BY <1>1, <1>2, Zenon
<1> QED
    BY <1>3, Zenon

LEMMA NaturalHandsBackItsSentinel ==
    ASSUME NEW s, NEW cfg, NEW year
    PROVE  LET p == ParseNatural(s, cfg, year)
           IN  /\ p.ok => p.layout = LayoutNaturalLanguage
               /\ ~p.ok /\ p.cause = "ambiguous" =>
                      \A i \in DOMAIN p.interps : p.interps[i].layout = LayoutNaturalLanguage
<1> DEFINE p == ParseNatural(s, cfg, year)
           r == NaturalReadings(s, cfg.locales, year)
<1>1. CASE r = <<>>
    <2>1. p = Err("noMatch")
        BY <1>1 DEF ParseNatural
    <2> QED
        BY <2>1 DEF Err
<1>2. CASE r # <<>> /\ Len(r) > 1 /\ cfg.strict
    <2>1. p = [ok |-> FALSE, cause |-> "ambiguous",
               interps |-> [i \in DOMAIN r |-> [time   |-> r[i],
                                                layout |-> LayoutNaturalLanguage,
                                                label  |-> r[i]]]]
        <3> HIDE DEF r
        <3> QED
            BY <1>2 DEF ParseNatural, r
    <2> HIDE DEF r, p
    <2> QED
        BY <2>1 DEF p
<1>3. CASE r # <<>> /\ ~(Len(r) > 1 /\ cfg.strict)
    <2>1. \E time, ambiguous, kind : p = Parsed(time, LayoutNaturalLanguage, ambiguous, kind)
        BY <1>3, Zenon DEF ParseNatural
    <2> HIDE DEF r, p
    <2> QED
        BY <2>1 DEF Parsed, p
<1> QED
    BY <1>1, <1>2, <1>3

LEMMA ParseHandsBack ==
    ASSUME NEW X, NEW s \in Seq(X), NEW cfg
    PROVE  LET p == ParseWithConfig(s, cfg, ThisYear)
           IN  /\ p.ok => OwnLayout(p.layout, s, cfg)
               /\ ~p.ok /\ p.cause = "ambiguous" =>
                      \A i \in DOMAIN p.interps : OfferedLayout(p.interps[i].layout, s)
<1> DEFINE t == TrimPadding(s)
           r == DetectedIn(s, cfg)
           p == ParseWithConfig(s, cfg, ThisYear)
           guess == cfg.strict /\ r.ambig # "none"
<1>1. p = ParseAfter(t, r, cfg, ThisYear)
    BY DEF ParseWithConfig, ParseTrimmed, DetectedIn
<1> HIDE DEF t, r, p
<1>2. CASE ~r.ok /\ IsEpoch(t)
    <2>1. p = Parsed(EpochTime(t), LayoutEpoch, FALSE, "absolute")
        BY <1>1, <1>2, Zenon DEF ParseAfter
    <2> QED
        BY <2>1 DEF Parsed, OwnLayout, Sentinels, p
<1>3. CASE ~r.ok /\ ~IsEpoch(t)
    <2>1. p = ParseNatural(t, cfg, BaseYear(cfg, ThisYear))
        BY <1>1, <1>3, Zenon DEF ParseAfter
    <2>2. LayoutNaturalLanguage \in Sentinels
        BY DEF Sentinels
    <2> QED
        BY <2>1, <2>2, NaturalHandsBackItsSentinel, Zenon DEF OwnLayout, OfferedLayout, p
<1>4. CASE r.ok /\ guess
    <2>1. p = BuildAmbiguousError(t, r, cfg, ThisYear)
        BY <1>1, <1>4, Zenon DEF ParseAfter
    <2>2. p.ok = FALSE
        BY <2>1 DEF BuildAmbiguousError, AmbiguousError
    <2>3. DOMAIN r.fields # {}
        BY <1>4, TrimmedIsASequence, DetectedNamesFields DEF r, DetectedIn, NamesFields
    <2>4. ASSUME NEW i \in DOMAIN p.interps
          PROVE  OfferedLayout(p.interps[i].layout, s)
        <3> DEFINE l == p.interps[i].layout
        <3>1. Execute(l, t).ok /\ DOMAIN l.fields = DOMAIN r.fields
            BY <2>1, <2>4, OfferedHasRead
        <3>2. DOMAIN <<>> = {}
            OBVIOUS
        <3> HIDE DEF l
        <3>3. HasProgram(l)
            BY <2>3, <3>1, <3>2 DEF HasProgram
        <3> QED
            BY <3>1, <3>3 DEF OfferedLayout, l, t
    <2> QED
        BY <2>2, <2>4 DEF p
<1>5. CASE r.ok /\ ~guess
    <2>1. p = ParseDetected(t, r, cfg, ThisYear)
        BY <1>1, <1>5, Zenon DEF ParseAfter
    <2> DEFINE l == CompileFor(r, cfg, ThisYear)
    <2>2. \/ \E time, ambiguous : p = Parsed(time, l, ambiguous, "absolute")
          \/ p = Err("noMatch")
        BY <2>1, Zenon DEF ParseDetected, RunOn, Executed
    <2>3. OwnLayout(l, s, cfg)
        BY <1>5 DEF OwnLayout, CompiledFrom, r
    <2> HIDE DEF l
    <2>4. p.ok => p.layout = l
        BY <2>2 DEF Parsed, Err
    <2>5. ~p.ok => p.cause # "ambiguous"
        BY <2>2 DEF Parsed, Err
    <2> QED
        BY <2>3, <2>4, <2>5 DEF p
<1> QED
    BY <1>2, <1>3, <1>4, <1>5

LEMMA DetectHandsBack ==
    ASSUME NEW s, NEW cfg, Detect(s, cfg, ThisYear).ok
    PROVE  OwnLayout(Detect(s, cfg, ThisYear).layout, s, cfg)
<1>1. Detect(s, cfg, ThisYear) = DetectedLayout(DetectedIn(s, cfg), cfg, ThisYear)
    BY DEF Detect, DetectedIn
<1>2. DetectedIn(s, cfg).ok
    BY <1>1 DEF DetectedLayout, Err
<1> QED
    BY <1>1, <1>2 DEF DetectedLayout, OwnLayout, CompiledFrom

-----------------------------------------------------------------------------
\* The invariant: what the last call answered, and where the layout held is from.

LastAnswered ==
    \/ last = NoCall
    \/ /\ last.op = "parse" /\ last.input \in Inputs /\ last.cfg \in Configs
       /\ last.out = ParseWithConfig(last.input, last.cfg, ThisYear)
    \/ /\ last.op = "detect" /\ last.input \in Inputs /\ last.cfg \in Configs
       /\ last.out = Detect(last.input, last.cfg, ThisYear)
    \/ /\ last.op = "reuse" /\ last.input \in Samples /\ held # HoldsNothing
       /\ last.out = LayoutParse(held.layout, last.input)

HeldIsFrom ==
    \/ held = HoldsNothing
    \/ /\ held.from \in Samples /\ held.cfg \in Configs /\ held.own \in BOOLEAN
       /\ IF held.own THEN OwnLayout(held.layout, held.from, held.cfg)
                      ELSE OfferedLayout(held.layout, held.from)

IInv == LastAnswered /\ HeldIsFrom

LEMMA InputsAreSequences ==
    \A s \in Inputs \cup Samples : \E X : s \in Seq(X)
    BY SamplesAssumption, InputsAssumption

LEMMA InitIsAnswered == Init => IInv
    BY DEF Init, IInv, LastAnswered, HeldIsFrom

LEMMA OpsDiffer == NoCall.op = "none" /\ "none" \notin {"parse", "detect", "reuse"}
    BY DEF NoCall

LEMMA NextIsAnswered == IInv /\ [Next]_vars => IInv'
<1> SUFFICES ASSUME IInv, [Next]_vars
             PROVE  IInv'
    OBVIOUS
<1>1. ASSUME NEW s \in Values, NEW cfg \in Configs, ParseWith(s, cfg)
      PROVE  IInv'
    <2>1. s \in Inputs
        BY SamplesAssumption DEF Values
    <2> QED
        BY <1>1, <2>1 DEF ParseWith, CallOf, IInv, LastAnswered, HeldIsFrom
<1>2. ASSUME NEW s \in Values, NEW cfg \in Configs, DetectLayout(s, cfg)
      PROVE  IInv'
    <2>1. s \in Inputs
        BY SamplesAssumption DEF Values
    <2> QED
        BY <1>2, <2>1 DEF DetectLayout, CallOf, IInv, LastAnswered, HeldIsFrom
<1>3. ASSUME NEW s \in Samples, ParseHeld(s)
      PROVE  IInv'
    BY <1>3 DEF ParseHeld, CallOf, IInv, LastAnswered, HeldIsFrom
<1>4. ASSUME Keep
      PROVE  IInv'
    <2>1. last # NoCall /\ last.op # "reuse"
        BY <1>4, OpsDiffer DEF Keep
    <2>2. PICK X : last.input \in Seq(X)
        BY <1>4, InputsAreSequences DEF Keep
    <2>3. last.cfg \in Configs /\ OwnLayout(last.out.layout, last.input, last.cfg)
        BY <1>4, <2>1, <2>2, ParseHandsBack, DetectHandsBack DEF Keep, IInv, LastAnswered
    <2>4. /\ held'.layout = last.out.layout /\ held'.from = last.input
          /\ held'.cfg = last.cfg /\ held'.own = TRUE
        BY <1>4 DEF Keep, Holding
    <2>5. HeldIsFrom'
        BY <1>4, <2>3, <2>4 DEF Keep, HeldIsFrom, OwnLayout, CompiledFrom
    <2> QED
        BY <1>4, <2>5 DEF Keep, IInv, LastAnswered
<1>5. ASSUME TakeReading
      PROVE  IInv'
    <2>1. last # NoCall /\ last.op = "parse"
        BY <1>5, OpsDiffer DEF TakeReading
    <2>2. PICK X : last.input \in Seq(X)
        BY <1>5, InputsAreSequences DEF TakeReading
    <2>3. PICK i \in DOMAIN last.out.interps :
              held' = Holding(last.out.interps[i].layout, last.input, last.cfg, FALSE)
        BY <1>5 DEF TakeReading
    <2>4. last.cfg \in Configs /\ OfferedLayout(last.out.interps[i].layout, last.input)
        BY <1>5, <2>1, <2>2, <2>3, ParseHandsBack DEF TakeReading, IInv, LastAnswered
    <2>5. /\ held'.layout = last.out.interps[i].layout /\ held'.from = last.input
          /\ held'.cfg = last.cfg /\ held'.own = FALSE
        BY <2>3 DEF Holding
    <2>6. HeldIsFrom'
        BY <1>5, <2>4, <2>5 DEF TakeReading, HeldIsFrom, OfferedLayout
    <2> QED
        BY <1>5, <2>6 DEF TakeReading, IInv, LastAnswered
<1>6. CASE Return
    BY <1>6 DEF Return, IInv, LastAnswered, HeldIsFrom
<1>7. CASE UNCHANGED vars
    BY <1>7 DEF vars, IInv, LastAnswered, HeldIsFrom
<1> QED
    BY <1>1, <1>2, <1>3, <1>4, <1>5, <1>6, <1>7 DEF Next

LEMMA AnsweredAlways == Spec => []IInv
    BY InitIsAnswered, NextIsAnswered, PTL DEF Spec

-----------------------------------------------------------------------------
\* Reading a value with the layout it came from is parsing it leniently.
LEMMA OwnLayoutReadsAsParsing ==
    ASSUME NEW l, NEW s, NEW cfg \in AnOption, CompiledFrom(l, s, cfg)
    PROVE  LET p == ParseWithConfig(s, Lenient(cfg), ThisYear)
               x == Execute(l, TrimPadding(s))
           IN  p.ok = x.ok /\ (p.ok => p.time = x.time)
<1> DEFINE c == Lenient(cfg)
           t == TrimPadding(s)
           r == DetectedIn(s, cfg)
           p == ParseWithConfig(s, c, ThisYear)
           x == Execute(l, t)
<1>1. c.strict = FALSE /\ c.locales = cfg.locales /\ c.base = cfg.base
    BY DEF Lenient, AnOption
<1>2. p = ParseAfter(t, r, c, ThisYear)
    BY DetectionIgnoresStrictness, Zenon DEF ParseWithConfig, ParseTrimmed, DetectedIn
<1>3. r.ok /\ l = CompileFor(r, cfg, ThisYear)
    BY DEF CompiledFrom
<1>4. CompileFor(r, c, ThisYear) = l
    <2> HIDE DEF c, r
    <2> QED
        BY <1>1, <1>3 DEF CompileFor, BaseYear
<1>5. x.ok \in BOOLEAN
    BY ExecuteAnswers
<1> HIDE DEF c, t, r, x, p
<1>6. p = ParseDetected(t, r, c, ThisYear)
    BY <1>1, <1>2, <1>3, Zenon DEF ParseAfter
<1>7. p = Executed(x, l, l.ambig # "none")
    BY <1>4, <1>6 DEF ParseDetected, RunOn, x
<1>8. CASE x.ok
    <2>1. p = Parsed(x.time, l, l.ambig # "none", "absolute")
        BY <1>7, <1>8 DEF Executed
    <2>2. p.ok = TRUE /\ p.time = x.time
        BY <2>1 DEF Parsed
    <2> QED
        BY <1>5, <1>8, <2>2 DEF p, x, c, t
<1>9. CASE ~x.ok
    <2>1. p = Err("noMatch")
        BY <1>7, <1>9 DEF Executed
    <2>2. p.ok = FALSE
        BY <2>1 DEF Err
    <2> QED
        BY <1>5, <1>9, <2>2 DEF p, x, c, t
<1> QED
    BY <1>8, <1>9

LEMMA AnsweredTypes == IInv => TypeOK
<1> SUFFICES ASSUME IInv
             PROVE  TypeOK
    OBVIOUS
<1>1. held = HoldsNothing \/ HeldOK
    <2>1. SUFFICES ASSUME held # HoldsNothing
                   PROVE  HeldOK
        OBVIOUS
    <2>2. held.from \in Samples /\ held.cfg \in Configs /\ held.own \in BOOLEAN
        BY <2>1 DEF IInv, HeldIsFrom
    <2>3. PICK X : held.from \in Seq(X)
        BY <2>2, InputsAreSequences
    <2>4. held.layout \in Sentinels \/ HasProgram(held.layout)
        BY <2>1, <2>3, CompiledHasProgram DEF IInv, HeldIsFrom, OwnLayout, OfferedLayout
    <2> QED
        BY <2>2, <2>4 DEF HeldOK, Sentinels
<1>2. last = NoCall \/ (last.op \in {"parse", "detect", "reuse"} /\ last.input \in Inputs)
    BY SamplesAssumption DEF IInv, LastAnswered
<1> QED
    BY <1>1, <1>2 DEF TypeOK

LEMMA AnsweredRoundTrips == IInv => OwnValueRoundTrips
<1> SUFFICES ASSUME IInv,
                    last.op = "reuse", HasProgram(held.layout), last.input = held.from
             PROVE  LET p == ParseWithConfig(last.input, Lenient(held.cfg), ThisYear)
                    IN  IF held.own
                        THEN p.ok = last.out.ok /\ (p.ok => p.time = last.out.time)
                        ELSE last.out.ok
    BY DEF OwnValueRoundTrips
<1>1. last # NoCall
    BY OpsDiffer
<1>2. held # HoldsNothing /\ last.out = LayoutParse(held.layout, held.from)
    BY <1>1 DEF IInv, LastAnswered
<1>3. last.out = Execute(held.layout, TrimPadding(held.from))
    BY <1>2 DEF LayoutParse
<1>4. held.layout \notin Sentinels
    BY SentinelsHaveNoProgram
<1>5. CASE held.own
    <2>1. held.cfg \in AnOption /\ CompiledFrom(held.layout, held.from, held.cfg)
        BY <1>2, <1>4, <1>5, ConfigsAssumption DEF IInv, HeldIsFrom, OwnLayout, AnOption
    <2> QED
        BY <1>3, <1>5, <2>1, OwnLayoutReadsAsParsing
<1>6. CASE ~held.own
    BY <1>2, <1>3, <1>4, <1>6 DEF IInv, HeldIsFrom, OfferedLayout
<1> QED
    BY <1>5, <1>6

-----------------------------------------------------------------------------
\* A caller holds a sentinel or a program that names a field, from a value it
\* parsed with one of its options (Layout.HasProgram).
THEOREM SessionTypeCorrect == Spec => []TypeOK
    BY AnsweredAlways, AnsweredTypes, PTL

\* Reading a value again with the layout its own parse or detection returned is
\* parsing it, and a reading that was offered reads it (Layout.Parse).
THEOREM OwnValueRoundTripsAlways == Spec => []OwnValueRoundTrips
    BY AnsweredAlways, AnsweredRoundTrips, PTL

=============================================================================
