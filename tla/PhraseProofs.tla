---------------------------- MODULE PhraseProofs ----------------------------
(***************************************************************************)
(* A word of ASCII letters that no language has is never passed over, for  *)
(* every phrase, every table of phrases that does not list it, every place *)
(* it may stand in and every base time; and one in another script is read  *)
(* by no locale, so that English alone, which skips it, answers.           *)
(*                                                                         *)
(* No scanner reads beyond either with what stands before it, so it begins *)
(* a token that is unknown, but for English in another script; an article  *)
(* that is dropped is none; and no pattern accounts for a token that is    *)
(* unknown.                                                                *)
(***************************************************************************)
EXTENDS Fallbacks, Induction, SequenceTheorems, TLAPS

-----------------------------------------------------------------------------
\* The scanners read a text place by place.

ReadAt(s, i) == IF s[i].t = "num" THEN ScanNumber(s, i) ELSE ScanWord(s, i)

Nothing(s) == [i \in 1..(Len(s) + 1) |-> <<>>]
SkippedIn(s) == {i \in 1..Len(s) : IsPassedOver(s[i])}
TokensAt(s) == [i \in 1..Len(s) |-> ReadAt(s, i).tok]
PlaceAfter(s) == [i \in 1..Len(s) |-> IF IsPassedOver(s[i]) THEN i + 1 ELSE ReadAt(s, i).next]

\* English.
LEMMA ScanReads ==
    ASSUME NEW X, NEW s \in Seq(X), NEW T,
           ReadsOnward(Len(s), T, {Len(s) + 1}, Nothing(s), SkippedIn(s), TokensAt(s), PlaceAfter(s))
    PROVE  \E h : /\ Scan(s) = h[1]
                  /\ IsRead(h, Len(s), {Len(s) + 1}, Nothing(s), SkippedIn(s), TokensAt(s), PlaceAfter(s))
<1> DEFINE n == Len(s)
           body(from, i) ==
               IF i > Len(s) THEN <<>>
               ELSE IF IsPassedOver(s[i]) THEN from[i + 1]
               ELSE LET r == IF s[i].t = "num" THEN ScanNumber(s, i) ELSE ScanWord(s, i)
                    IN  <<r.tok>> \o from[r.next]
           read(g, i) == PlaceReads(g, i, {n + 1}, Nothing(s), SkippedIn(s), TokensAt(s), PlaceAfter(s))
<1>1. n \in Nat
    OBVIOUS
<1>2. ASSUME NEW g, NEW i \in 1..(n + 1)
      PROVE  read(g, i) <=> g[i] = body(g, i)
    <2>1. CASE i = n + 1
        BY <1>1, <2>1 DEF PlaceReads, Nothing
    <2>2. CASE i # n + 1
        <3>1. i \in 1..n /\ ~(i > n) /\ i \notin {n + 1}
            BY <1>1, <2>2
        <3> HIDE DEF n
        <3>2. i \in SkippedIn(s) <=> IsPassedOver(s[i])
            BY <3>1 DEF SkippedIn, n
        <3>3. TokensAt(s)[i] = ReadAt(s, i).tok
            BY <3>1 DEF TokensAt, n
        <3>4. PlaceAfter(s)[i] = IF IsPassedOver(s[i]) THEN i + 1 ELSE ReadAt(s, i).next
            BY <3>1 DEF PlaceAfter, n
        <3> QED
            BY <3>1, <3>2, <3>3, <3>4 DEF PlaceReads, ReadAt, n
    <2> QED
        BY <2>1, <2>2
<1>3. PICK g : g = [i \in 1..(n + 1) |-> g[i]] /\ \A i \in 1..(n + 1) : read(g, i)
    BY <1>1, ReadingExists DEF IsRead
<1>4. g = [i \in 1..(n + 1) |-> body(g, i)]
    <2> HIDE DEF body, read
    <2>1. \A i \in 1..(n + 1) : g[i] = body(g, i)
        BY <1>2, <1>3
    <2> QED
        BY <1>3, <2>1
<1> DEFINE h == CHOOSE from : from = [i \in 1..(n + 1) |-> body(from, i)]
<1>5. Scan(s) = h[1]
    BY DEF Scan
<1>6. h = [i \in 1..(n + 1) |-> body(h, i)]
    <2> HIDE DEF body
    <2> QED
        BY <1>4
<1> HIDE DEF h
<1>7. ASSUME NEW i \in 1..(n + 1)
      PROVE  read(h, i)
    <2> HIDE DEF body, read
    <2> QED
        BY <1>2, <1>6
<1> QED
    BY <1>5, <1>7 DEF IsRead

-----------------------------------------------------------------------------
\* No scanner reads beyond the word no language has, or the one no locale has.

Strange == {Nonword, Foreign}

\* Does reading go on behind i, having read none of those words behind it?
GoesOn(s, i, r) ==
    /\ r.next \in (i + 1)..(Len(s) + 1)
    /\ \A j \in (i + 1)..(r.next - 1) : s[j] \notin Strange

\* The words a number or a word takes are others.
LEMMA StrangeIsNone ==
    /\ Nonword.t = "word" /\ Nonword.c = "xyzzy" /\ Foreign.t = "script"
    /\ \A c : c # "xyzzy" => Byte(c) \notin Strange
    /\ \A c, w : c # "xyzzy" => Word(c, w) \notin Strange
    /\ \A tok \in Strange : ~IsSpace(tok) /\ tok.t # "num"
<1>1. /\ Nonword.c = "xyzzy" /\ Nonword.t = "word"
      /\ Foreign.c = "xyzzy" /\ Foreign.t = "script"
    BY DEF Nonword, Word, Foreign, Script
<1>2. \A tok \in Strange : tok.c = "xyzzy" /\ tok.t # "num"
    BY <1>1 DEF Strange
<1>3. \A c, w : Word(c, w).c = c /\ Byte(c).c = c
    BY DEF Word, Byte
<1>4. \A tok \in Strange : ~IsSpace(tok)
    BY <1>2, <1>3 DEF IsSpace
<1> QED
    BY <1>1, <1>2, <1>3, <1>4

LEMMA ScanNumberGoesOn ==
    ASSUME NEW s \in Seq(Writing), NEW i \in 1..Len(s), s[i].t = "num"
    PROVE  GoesOn(s, i, ScanNumber(s, i))
<1> DEFINE n == Len(s)
           r == ScanNumber(s, i)
<1>1. n \in Nat /\ DOMAIN s = 1..n
    OBVIOUS
<1>2. s[i] \in Writing
    OBVIOUS
<1>3. s[i].w \in Nat /\ s[i] \notin Strange
    BY <1>2, StrangeIsNone DEF Writing
<1>4. \A j \in Int : MeridiemAt(s, j) # "none" => j \in 1..n /\ s[j] \notin Strange
    <2>1. \A j \in Int : \A w : IsAt(s, j, Word("am", w)) \/ IsAt(s, j, Word("pm", w)) => j \in 1..n /\ s[j] \notin Strange
        BY <1>1, StrangeIsNone DEF IsAt
    <2> QED
        BY <2>1 DEF MeridiemAt
<1>5. \A j \in Int : IsOrdinalSuffix(s, j) => j \in 1..n /\ s[j] \notin Strange
    <2>1. \A j \in Int : \A c \in {"st", "nd", "rd", "th"} : \A w : IsAt(s, j, Word(c, w)) => j \in 1..n /\ s[j] \notin Strange
        BY <1>1, StrangeIsNone DEF IsAt
    <2> QED
        BY <2>1 DEF IsOrdinalSuffix
<1>6. IsTimePattern(s, i) => i + 1 \in 1..n /\ i + 2 \in 1..n /\ s[i + 1] \notin Strange /\ s[i + 2] \notin Strange
    BY <1>1, StrangeIsNone DEF IsTimePattern, IsAt
<1>7. i \in Int /\ i + 1 \in Int /\ i + 3 \in Int
    OBVIOUS
<1>8. SUFFICES r.next \in {i + 1, i + 2, i + 3, i + 4} /\ \A j \in i..(r.next - 1) : j \in 1..n /\ s[j] \notin Strange
    <2>1. i \in Int /\ n \in Nat /\ i >= 1 /\ i <= n
        BY <1>1
    <2>2. ASSUME NEW m \in {i + 1, i + 2, i + 3, i + 4}, \A j \in i..(m - 1) : j \in 1..n
          PROVE  m \in (i + 1)..(n + 1)
        <3>1. m - 1 \in i..(m - 1)
            BY <2>2
        <3>2. m - 1 \in 1..n
            BY <2>2, <3>1
        <3> HIDE DEF n
        <3> QED
            BY <2>1, <2>2, <3>2
    <2>3. \A m : \A j \in (i + 1)..(m - 1) : j \in i..(m - 1)
        BY <2>1
    <2> HIDE DEF r, n
    <2> QED
        BY <1>8, <2>2, <2>3 DEF GoesOn, n, r
<1>9. CASE s[i].w > MaxQuantityDigits
    <2>1. r.next = i + 1
        BY <1>3, <1>9 DEF ScanNumber, MaxQuantityDigits, Scanned
    <2> HIDE DEF r
    <2> QED
        BY <1>3, <2>1
<1>10. CASE s[i].w <= MaxQuantityDigits /\ IsTimePattern(s, i)
    <2>1. r = TimeRead(s, i, s[i + 2].v, MeridiemAt(s, i + 3),
                       IF MeridiemAt(s, i + 3) = "none" THEN i + 2 ELSE i + 3)
        <3>1. ~(s[i].w > MaxQuantityDigits) /\ MeridiemAt(s, i + 1) = "none"
            <4>1. Byte(":") # Word("am", 2) /\ Byte(":") # Word("pm", 2)
                BY DEF Byte, Word
            <4>2. MeridiemAt(s, i + 1) = "none"
                BY <1>10, <4>1 DEF MeridiemAt, IsTimePattern, IsAt
            <4> QED
                BY <1>3, <1>10, <4>2 DEF MaxQuantityDigits
        <3> HIDE DEF n
        <3> QED
            BY <1>10, <3>1 DEF ScanNumber
    <2>2. r.next = IF MeridiemAt(s, i + 3) = "none" THEN i + 2 + 1 ELSE i + 3 + 1
        BY <2>1 DEF TimeRead, Scanned
    <2>3. CASE MeridiemAt(s, i + 3) = "none"
        <3>1. r.next = i + 3 /\ \A j \in i..(i + 3 - 1) : j \in {i, i + 1, i + 2}
            BY <2>2, <2>3
        <3> HIDE DEF r
        <3> QED
            BY <1>1, <1>3, <1>6, <1>10, <3>1
    <2>4. CASE MeridiemAt(s, i + 3) # "none"
        <3>1. r.next = i + 4 /\ \A j \in i..(i + 4 - 1) : j \in {i, i + 1, i + 2, i + 3}
            BY <2>2, <2>4
        <3>2. i + 3 \in 1..n /\ s[i + 3] \notin Strange
            BY <1>4, <1>7, <2>4
        <3> HIDE DEF r
        <3> QED
            BY <1>1, <1>3, <1>6, <1>10, <3>1, <3>2
    <2> QED
        BY <2>3, <2>4
<1>11. CASE s[i].w <= MaxQuantityDigits /\ ~IsTimePattern(s, i) /\ MeridiemAt(s, i + 1) # "none"
    <2>1. r = TimeRead(s, i, 0, MeridiemAt(s, i + 1), i + 1)
        BY <1>3, <1>11 DEF ScanNumber, MaxQuantityDigits
    <2>2. r.next = i + 2 /\ \A j \in i..(i + 2 - 1) : j \in {i, i + 1}
        BY <2>1 DEF TimeRead, Scanned
    <2> HIDE DEF r
    <2> QED
        BY <1>1, <1>3, <1>4, <1>7, <1>11, <2>2
<1>12. CASE s[i].w <= MaxQuantityDigits /\ ~IsTimePattern(s, i) /\ MeridiemAt(s, i + 1) = "none"
    <2>1. r = NumberRead(s, i, IF IsOrdinalSuffix(s, i + 1) THEN i + 1 ELSE i)
        BY <1>3, <1>12 DEF ScanNumber, MaxQuantityDigits
    <2>2. r.next = IF IsOrdinalSuffix(s, i + 1) THEN i + 1 + 1 ELSE i + 1
        BY <2>1 DEF NumberRead, Scanned
    <2>3. CASE IsOrdinalSuffix(s, i + 1)
        <3>1. r.next = i + 2 /\ \A j \in i..(i + 2 - 1) : j \in {i, i + 1}
            BY <2>2, <2>3
        <3> HIDE DEF r
        <3> QED
            BY <1>1, <1>3, <1>5, <1>7, <2>3, <3>1
    <2>4. CASE ~IsOrdinalSuffix(s, i + 1)
        <3> HIDE DEF r
        <3> QED
            BY <1>1, <1>3, <2>2, <2>4
    <2> QED
        BY <2>3, <2>4
<1>13. s[i].w > MaxQuantityDigits \/ s[i].w <= MaxQuantityDigits
    BY <1>3 DEF MaxQuantityDigits
<1> QED
    BY <1>9, <1>10, <1>11, <1>12, <1>13

LEMMA MinIsLeast ==
    ASSUME NEW S \in SUBSET Nat, S # {}
    PROVE  Min(S) \in S /\ \A m \in S : Min(S) <= m
<1>1. \E m \in S : \A k \in S : m <= k
    BY LeastNumber
<1> QED
    BY <1>1 DEF Min

\* Spaces are passed over until what is none.
LEMMA SpacesEndGoesOn ==
    ASSUME NEW s, NEW n \in Nat, n = Len(s), NEW i \in 1..n
    PROVE  /\ SpacesEnd(s, i + 1) \in (i + 1)..(n + 1)
           /\ \A j \in (i + 1)..(SpacesEnd(s, i + 1) - 1) : s[j] = Byte(" ")
<1> DEFINE S == {j \in (i + 1)..n : s[j] # Byte(" ")}
<1>2. i \in Nat /\ i <= n
    OBVIOUS
<1>3. CASE S = {}
    <2>1. SpacesEnd(s, i + 1) = n + 1
        BY <1>3 DEF SpacesEnd
    <2>2. PICK e \in Nat : e = n + 1
        OBVIOUS
    <2>3. e \in (i + 1)..(n + 1) /\ \A j \in (i + 1)..(e - 1) : j \in (i + 1)..n
        BY <1>2, <2>2
    <2>4. \A j \in (i + 1)..(e - 1) : j \in S \/ s[j] = Byte(" ")
        BY <2>3
    <2>5. \A j \in (i + 1)..(e - 1) : s[j] = Byte(" ")
        BY <1>3, <2>4
    <2>6. SpacesEnd(s, i + 1) = e
        BY <2>1, <2>2
    <2> QED
        BY <2>3, <2>5, <2>6
<1>4. CASE S # {}
    <2>1. SpacesEnd(s, i + 1) = Min(S)
        BY <1>4 DEF SpacesEnd
    <2>2. S \in SUBSET Nat
        <3>1. \A j \in (i + 1)..n : j \in Nat
            BY <1>2
        <3> QED
            BY <3>1
    <2>3. Min(S) \in S /\ \A m \in S : Min(S) <= m
        BY <1>4, <2>2, MinIsLeast
    <2>4. PICK m \in Nat : m = Min(S)
        BY <2>2, <2>3
    <2>5. m \in (i + 1)..n /\ m \in (i + 1)..(n + 1)
        <3>1. m \in (i + 1)..n
            BY <2>3, <2>4
        <3> HIDE DEF S
        <3> QED
            BY <1>2, <3>1
    <2>6. \A j \in (i + 1)..(m - 1) : j \in (i + 1)..n /\ ~(m <= j)
        BY <1>2, <2>5
    <2>7. \A j \in (i + 1)..(m - 1) : s[j] = Byte(" ")
        BY <2>3, <2>4, <2>6
    <2> QED
        BY <2>1, <2>4, <2>5, <2>7
<1> QED
    BY <1>3, <1>4

LEMMA ScanWordGoesOn ==
    ASSUME NEW s \in Seq(Writing), NEW i \in 1..Len(s)
    PROVE  LET r == ScanWord(s, i)
           IN  /\ GoesOn(s, i, r)
               /\ s[i] = Nonword => r.tok.kind = "Unknown"
<1> DEFINE now == SpacesEnd(s, i + 1)
           n == Len(s)
<1>1. n \in Nat /\ DOMAIN s = 1..n /\ i \in Nat /\ i <= n
    OBVIOUS
<1>2. /\ now \in (i + 1)..(n + 1)
      /\ \A j \in (i + 1)..(now - 1) : s[j] = Byte(" ")
    BY <1>1, SpacesEndGoesOn DEF now
<1> HIDE DEF now
<1>3. CASE IsFromNow(s, i)
    <2>1. ScanWord(s, i).next = now + 1
        BY <1>3 DEF ScanWord, Scanned, now
    <2>2. s[i] \notin Strange /\ now \in 1..n /\ s[now] \notin Strange
        BY <1>1, <1>3, StrangeIsNone DEF IsFromNow, IsAt, now
    <2> HIDE DEF n
    <2>0. PICK k \in Nat : k = now /\ k > i /\ k <= n
        <3>1. \A k \in (i + 1)..(n + 1) : k \in Nat /\ k > i
            BY <1>1
        <3>2. now \in Nat /\ now > i
            BY <1>2, <3>1
        <3>3. \A k \in 1..n : k <= n
            BY <1>1
        <3> QED
            BY <2>2, <3>2, <3>3
    <2>3. \A j \in (i + 1)..k : j \in (i + 1)..(k - 1) \/ j = k
        BY <1>1, <2>0
    <2>4. \A j \in (i + 1)..k : s[j] \notin Strange
        BY <1>2, <2>0, <2>2, <2>3, StrangeIsNone
    <2>5. k + 1 \in (i + 1)..(n + 1) /\ k + 1 - 1 = k
        BY <1>1, <2>0
    <2>6. s[i] # Nonword
        BY <2>2 DEF Strange
    <2>7. GoesOn(s, i, ScanWord(s, i))
        <3>1. PICK r : r = ScanWord(s, i)
            OBVIOUS
        <3>2. r.next = k + 1
            BY <2>0, <2>1, <3>1
        <3>3. r.next \in (i + 1)..(n + 1) /\ r.next - 1 = k
            BY <2>5, <3>2
        <3> QED
            BY <2>4, <3>1, <3>3 DEF GoesOn, n
    <2> QED
        BY <2>6, <2>7
<1>4. CASE ~IsFromNow(s, i)
    <2>1. ScanWord(s, i) = Scanned(ClassifyWord(<<s[i]>>), i + 1)
        BY <1>4 DEF ScanWord
    <2>2. ScanWord(s, i).next = i + 1 /\ ScanWord(s, i).tok = ClassifyWord(<<s[i]>>)
        BY <2>1 DEF Scanned
    <2>3. \A j \in (i + 1)..(i + 1 - 1) : FALSE
        BY <1>1
    <2>4. s[i] = Nonword => ClassifyWord(<<s[i]>>).kind = "Unknown"
        <3>1. SUFFICES ClassifyWord(<<Nonword>>).kind = "Unknown"
            OBVIOUS
        <3>2. <<Nonword>>[1].c = "xyzzy"
            BY StrangeIsNone
        <3>3. "xyzzy" \notin ToSet(Weekdays)
            BY DEF ToSet, Weekdays
        <3>4. "xyzzy" \notin ToSet(MonthNames)
            BY DEF ToSet, MonthNames
        <3>5. "xyzzy" \notin DOMAIN PartsOfDay /\ "xyzzy" \notin DOMAIN Structural
                  /\ "xyzzy" \notin DOMAIN NumberWords
            BY DEF PartsOfDay, Structural, NumberWords
        <3>6. ClassifyWord(<<Nonword>>) = Unknown(<<Nonword>>)
            BY <3>2, <3>3, <3>4, <3>5 DEF ClassifyWord, RelWords, Selectors, Units
        <3> QED
            BY <3>6 DEF Unknown, Token
    <2>5. i + 1 \in (i + 1)..(n + 1)
        BY <1>1
    <2> QED
        BY <2>2, <2>3, <2>4, <2>5 DEF GoesOn
<1> QED
    BY <1>3, <1>4

\* So English reads a token that is unknown.
LEMMA ScanKeepsUnknown ==
    ASSUME NEW s \in Seq(Writing), NEW j \in 1..Len(s), s[j] = Nonword
    PROVE  /\ \E T : Scan(s) \in Seq(T)
           /\ \E k \in DOMAIN Scan(s) : Scan(s)[k].kind = "Unknown"
<1> DEFINE n == Len(s)
           T == {ReadAt(s, i).tok : i \in 1..n}
           spaces == SkippedIn(s)
           tok == TokensAt(s)
           next == PlaceAfter(s)
<1>1. n \in Nat /\ j \in Nat /\ j <= n /\ s[j] \in Strange
    BY DEF Strange
<1>2. ASSUME NEW i \in 1..n
      PROVE  /\ next[i] \in (i + 1)..(n + 1)
             /\ tok[i] = ReadAt(s, i).tok /\ tok[i] \in T
             /\ i < j => next[i] <= j
    <2>1. i \in Nat /\ i <= n /\ s[i] \in Writing
        BY <1>1
    <2>2. next[i] = IF IsPassedOver(s[i]) THEN i + 1 ELSE ReadAt(s, i).next
        BY DEF PlaceAfter
    <2>3. tok[i] = ReadAt(s, i).tok /\ tok[i] \in T
        BY DEF TokensAt
    <2>4. CASE IsPassedOver(s[i])
        <3> HIDE DEF n, T, tok, next
        <3> QED
            BY <1>1, <2>1, <2>2, <2>3, <2>4
    <2>5. CASE ~IsPassedOver(s[i])
        <3>1. GoesOn(s, i, ReadAt(s, i))
            BY <2>5, ScanNumberGoesOn, ScanWordGoesOn DEF ReadAt
        <3>2. PICK m : m = ReadAt(s, i).next /\ m \in (i + 1)..(n + 1) /\ \A k \in (i + 1)..(m - 1) : s[k] \notin Strange
            BY <3>1 DEF GoesOn
        <3> HIDE DEF n, T, tok, next
        <3>3. i < j => m <= j
            <4>1. m \in Nat /\ (i < j /\ m > j => j \in (i + 1)..(m - 1))
                BY <1>1, <2>1, <3>2
            <4> QED
                BY <1>1, <3>2, <4>1
        <3> QED
            BY <2>2, <2>3, <2>5, <3>2, <3>3
    <2> QED
        BY <2>4, <2>5
<1>3. tok[j].kind = "Unknown" /\ j \notin spaces
    <2>1. s[j].t = "word"
        BY StrangeIsNone
    <2>2. ReadAt(s, j) = ScanWord(s, j) /\ j \notin spaces
        BY <2>1 DEF ReadAt, SkippedIn, IsPassedOver
    <2> QED
        BY <1>2, <2>2, ScanWordGoesOn
<1> HIDE DEF n, T, spaces, tok, next
<1>4. ReadsOnward(n, T, {n + 1}, Nothing(s), spaces, tok, next)
    <2>1. Nothing(s)[n + 1] \in Seq(T)
        <3>1. n + 1 \in 1..(Len(s) + 1)
            BY <1>1 DEF n
        <3> QED
            BY <3>1 DEF Nothing
    <2>2. \A i \in 1..(n + 1) : i \notin {n + 1} => i \in 1..n
        BY <1>1
    <2> QED
        BY <1>2, <2>1, <2>2 DEF ReadsOnward
<1>5. PICK h : /\ Scan(s) = h[1]
               /\ IsRead(h, n, {n + 1}, Nothing(s), spaces, tok, next)
    BY <1>4, ScanReads DEF n, spaces, tok, next
<1>6. j \in 1..n /\ Reaches(j, {n + 1}, spaces, next)
    <2>1. j \in 1..n /\ j \notin {n + 1} /\ \A i \in 1..(j - 1) : i \notin {n + 1} /\ i \in 1..n /\ i < j
        BY <1>1
    <2> QED
        BY <1>2, <1>3, <2>1 DEF Reaches
<1>7. h[1] \in Seq(T) /\ \E k \in DOMAIN h[1] : h[1][k] = tok[j]
    BY <1>1, <1>4, <1>5, <1>6, ReadingReaches
<1> QED
    BY <1>3, <1>5, <1>7

-----------------------------------------------------------------------------
\* The locale scanner.

LocaleReadAt(s, i, table) ==
    CASE Matching(s, i, table) # {} -> ScanPhrase(s, i, table)
      [] Matching(s, i, table) = {} /\ s[i].t = "num" -> ScanNumber(s, i)
      [] Matching(s, i, table) = {} /\ s[i].t # "num" -> ScanUnknown(s, i)

SpacesIn(s) == {i \in 1..Len(s) : IsSpace(s[i])}
LocaleTokensAt(s, table) == [i \in 1..Len(s) |-> LocaleReadAt(s, i, table).tok]
LocalePlaceAfter(s, table) ==
    [i \in 1..Len(s) |-> IF IsSpace(s[i]) THEN i + 1 ELSE LocaleReadAt(s, i, table).next]

LEMMA ScanLocaleReads ==
    ASSUME NEW X, NEW s \in Seq(X), NEW table, NEW T,
           ReadsOnward(Len(s), T, {Len(s) + 1}, Nothing(s), SpacesIn(s),
                     LocaleTokensAt(s, table), LocalePlaceAfter(s, table))
    PROVE  \E h : /\ ScanLocale(s, table) = h[1]
                  /\ IsRead(h, Len(s), {Len(s) + 1}, Nothing(s), SpacesIn(s),
                            LocaleTokensAt(s, table), LocalePlaceAfter(s, table))
<1> DEFINE n == Len(s)
           body(from, i) ==
               IF i > Len(s) THEN <<>>
               ELSE IF IsSpace(s[i]) THEN from[i + 1]
               ELSE LET r == CASE Matching(s, i, table) # {} -> ScanPhrase(s, i, table)
                               [] Matching(s, i, table) = {} /\ s[i].t = "num" -> ScanNumber(s, i)
                               [] Matching(s, i, table) = {} /\ s[i].t # "num" -> ScanUnknown(s, i)
                    IN  <<r.tok>> \o from[r.next]
           read(g, i) == PlaceReads(g, i, {n + 1}, Nothing(s), SpacesIn(s),
                               LocaleTokensAt(s, table), LocalePlaceAfter(s, table))
<1>1. n \in Nat
    OBVIOUS
<1>2. ASSUME NEW g, NEW i \in 1..(n + 1)
      PROVE  read(g, i) <=> g[i] = body(g, i)
    <2>1. CASE i = n + 1
        BY <1>1, <2>1 DEF PlaceReads, Nothing
    <2>2. CASE i # n + 1
        <3>1. i \in 1..n /\ ~(i > n) /\ i \notin {n + 1}
            BY <1>1, <2>2
        <3> HIDE DEF n
        <3>2. i \in SpacesIn(s) <=> IsSpace(s[i])
            BY <3>1 DEF SpacesIn, n
        <3>3. LocaleTokensAt(s, table)[i] = LocaleReadAt(s, i, table).tok
            BY <3>1 DEF LocaleTokensAt, n
        <3>4. LocalePlaceAfter(s, table)[i] = IF IsSpace(s[i]) THEN i + 1 ELSE LocaleReadAt(s, i, table).next
            BY <3>1 DEF LocalePlaceAfter, n
        <3>5. body(g, i) = IF IsSpace(s[i]) THEN g[i + 1]
                           ELSE <<LocaleReadAt(s, i, table).tok>> \o g[LocaleReadAt(s, i, table).next]
            BY <3>1 DEF LocaleReadAt, n
        <3> HIDE DEF body
        <3> QED
            BY <3>1, <3>2, <3>3, <3>4, <3>5 DEF PlaceReads
    <2> QED
        BY <2>1, <2>2
<1>3. PICK g : g = [i \in 1..(n + 1) |-> g[i]] /\ \A i \in 1..(n + 1) : read(g, i)
    BY <1>1, ReadingExists DEF IsRead
<1>4. g = [i \in 1..(n + 1) |-> body(g, i)]
    <2> HIDE DEF body, read
    <2>1. \A i \in 1..(n + 1) : g[i] = body(g, i)
        BY <1>2, <1>3
    <2> QED
        BY <1>3, <2>1
<1> DEFINE h == CHOOSE from : from = [i \in 1..(n + 1) |-> body(from, i)]
<1>5. ScanLocale(s, table) = h[1]
    BY DEF ScanLocale
<1>6. h = [i \in 1..(n + 1) |-> body(h, i)]
    <2> HIDE DEF body
    <2> QED
        BY <1>4
<1> HIDE DEF h
<1>7. ASSUME NEW i \in 1..(n + 1)
      PROVE  read(h, i)
    <2> HIDE DEF body, read
    <2> QED
        BY <1>2, <1>6
<1> QED
    BY <1>5, <1>7 DEF IsRead

\* A table of phrases without the word no language has.
Legible(table) ==
    \A i \in DOMAIN table :
        LET text == table[i].phrase
        IN  text \in Seq(Writing) /\ text # <<>> /\ \A k \in DOMAIN text : text[k] \notin Strange

\* What a phrase matches holds no such word.
LEMMA MatchesAreLegible ==
    ASSUME NEW n \in Nat, NEW s \in Seq(Writing), n = Len(s), NEW i \in 1..n,
           NEW table, Legible(table), NEW j \in Matching(s, i, table)
    PROVE  LET last == i + Len(table[j].phrase) - 1
           IN  /\ Len(table[j].phrase) \in 1..n /\ last \in i..n
               /\ \A k \in i..last : s[k] \notin Strange
<1> DEFINE text == table[j].phrase
<1>1. j \in DOMAIN table /\ i + Len(text) - 1 <= n /\ SubSeq(s, i, i + Len(text) - 1) = text
    BY DEF Matching
<1>2. text \in Seq(Writing) /\ text # <<>> /\ \A k \in DOMAIN text : text[k] \notin Strange
    BY <1>1 DEF Legible
<1> HIDE DEF text
<1>3. PICK l \in Nat : l = Len(text) /\ l # 0 /\ DOMAIN text = 1..l
    BY <1>2
<1>4. i \in Nat /\ i >= 1 /\ l \in 1..n /\ i + l - 1 \in i..n
    BY <1>1, <1>3
<1>5. ASSUME NEW k \in i..(i + l - 1)
      PROVE  s[k] \notin Strange
    <2>1. PICK m \in 1..l : k = i + m - 1
        <3>1. k - i + 1 \in 1..l /\ k = i + (k - i + 1) - 1
            BY <1>4
        <3> QED
            BY <3>1
    <2>2. SubSeq(s, i, i + l - 1)[m] = s[i + m - 1]
        BY <1>3, <1>4, SubSeqProperties
    <2> QED
        BY <1>1, <1>2, <1>3, <2>1, <2>2
<1> QED
    BY <1>3, <1>4, <1>5 DEF text

\* Of the phrases that match, one is preferred to all.
LEMMA BestMatchMatches ==
    ASSUME NEW n \in Nat, NEW s \in Seq(Writing), n = Len(s), NEW i \in 1..n,
           NEW table, Legible(table), Matching(s, i, table) # {}
    PROVE  BestMatch(s, i, table) \in Matching(s, i, table)
<1> DEFINE M == Matching(s, i, table)
           rank(j) == 5 * (n - Len(table[j].phrase)) + KindRank(table[j].kind)
           S == {rank(j) : j \in M}
<1>1. \A j \in M : Len(table[j].phrase) \in 1..n
    BY MatchesAreLegible
<1>2. \A kind : KindRank(kind) \in 0..4
    BY DEF KindRank
<1> HIDE DEF M
<1>3. ASSUME NEW l \in 1..n, NEW r \in 0..4
      PROVE  5 * (n - l) + r \in Nat
    OBVIOUS
<1>4. ASSUME NEW l \in 1..n, NEW r \in 0..4, NEW k \in 1..n, NEW q \in 0..4,
             5 * (n - l) + r <= 5 * (n - k) + q
      PROVE  l > k \/ (l = k /\ r <= q)
    BY <1>4
<1>5. S \in SUBSET Nat /\ S # {}
    <2>1. \A j \in M : rank(j) \in Nat
        BY <1>1, <1>2, <1>3
    <2>2. M # {}
        BY DEF M
    <2> HIDE DEF rank
    <2> QED
        BY <2>1, <2>2
<1>6. PICK m \in S : \A k \in S : m <= k
    <2> HIDE DEF S
    <2> QED
        BY <1>5, LeastNumber
<1>7. PICK j \in M : m = rank(j)
    <2> HIDE DEF rank
    <2> QED
        OBVIOUS
<1>8. \A k \in M : rank(j) <= rank(k)
    <2> HIDE DEF rank
    <2> QED
        BY <1>6, <1>7
<1>9. ASSUME NEW k \in M
      PROVE  Preferred(table[j], table[k])
    <2>1. rank(j) <= rank(k)
        BY <1>8
    <2>2. /\ Len(table[j].phrase) \in 1..n /\ Len(table[k].phrase) \in 1..n
          /\ KindRank(table[j].kind) \in 0..4 /\ KindRank(table[k].kind) \in 0..4
        BY <1>1, <1>2
    <2> QED
        BY <1>4, <2>1, <2>2 DEF Preferred
<1> QED
    BY <1>9 DEF BestMatch, M

\* What is unknown runs to a space, a digit run or the end.
LEMMA ScanUnknownGoesOn ==
    ASSUME NEW n \in Nat, NEW s, n = Len(s), NEW i \in 1..n, ~IsSpace(s[i]), s[i].t # "num"
    PROVE  LET r == ScanUnknown(s, i)
           IN  /\ r.tok.kind = "Unknown" /\ r.next \in (i + 1)..(n + 1)
               /\ \A j \in i..(r.next - 1) : ~IsSpace(s[j])
<1> DEFINE S == {j \in i..n : IsSpace(s[j]) \/ s[j].t = "num"}
<1>1. i \in Nat /\ i <= n
    OBVIOUS
<1>2. ScanUnknown(s, i).tok.kind = "Unknown"
    BY DEF ScanUnknown, Scanned, Unknown, Token
<1>3. CASE S = {}
    <2>1. ScanUnknown(s, i).next = n + 1
        BY <1>3 DEF ScanUnknown, Scanned
    <2>2. PICK e \in Nat : e = n + 1
        OBVIOUS
    <2>3. e \in (i + 1)..(n + 1) /\ \A j \in i..(e - 1) : j \in i..n
        BY <1>1, <2>2
    <2>4. \A j \in i..(e - 1) : j \in S \/ ~IsSpace(s[j])
        BY <2>3
    <2>5. \A j \in i..(e - 1) : ~IsSpace(s[j])
        BY <1>3, <2>4
    <2>6. ScanUnknown(s, i).next = e
        BY <2>1, <2>2
    <2> QED
        BY <1>2, <2>3, <2>5, <2>6
<1>4. CASE S # {}
    <2>1. ScanUnknown(s, i).next = Min(S)
        BY <1>4 DEF ScanUnknown, Scanned
    <2>2. S \in SUBSET Nat
        <3>1. \A j \in i..n : j \in Nat
            BY <1>1
        <3> QED
            BY <3>1
    <2>3. Min(S) \in S /\ \A m \in S : Min(S) <= m
        BY <1>4, <2>2, MinIsLeast
    <2>4. PICK m \in Nat : m = Min(S)
        BY <2>2, <2>3
    <2>5. m \in i..n /\ m # i
        BY <2>3, <2>4
    <2>6. m \in (i + 1)..(n + 1) /\ \A j \in i..(m - 1) : j \in i..n /\ ~(m <= j)
        BY <1>1, <2>5
    <2>7. \A j \in i..(m - 1) : ~IsSpace(s[j])
        BY <2>3, <2>4, <2>6
    <2> QED
        BY <1>2, <2>1, <2>4, <2>6, <2>7
<1> QED
    BY <1>3, <1>4

\* So a locale reads a token that is unknown too, where a space stands before it.
LEMMA ScanLocaleKeepsUnknown ==
    ASSUME NEW n \in Nat, NEW s \in Seq(Writing), n = Len(s), NEW table, Legible(table),
           NEW j \in 1..n, s[j] \in Strange, NEW p \in 1..n, j = p + 1, IsSpace(s[p])
    PROVE  /\ \E T : ScanLocale(s, table) \in Seq(T)
           /\ \E k \in DOMAIN ScanLocale(s, table) : ScanLocale(s, table)[k].kind = "Unknown"
<1> DEFINE T == {LocaleReadAt(s, i, table).tok : i \in 1..n}
           spaces == SpacesIn(s)
           tok == LocaleTokensAt(s, table)
           next == LocalePlaceAfter(s, table)
<1>1. j \in Nat /\ j <= n /\ j >= 1 /\ p \in Nat
    OBVIOUS
<1>2. ~IsSpace(s[j])
    BY StrangeIsNone
<1>3. ASSUME NEW i \in 1..n
      PROVE  /\ next[i] \in (i + 1)..(n + 1)
             /\ tok[i] = LocaleReadAt(s, i, table).tok /\ tok[i] \in T
             /\ i < j => next[i] <= j
             /\ i = j => tok[i].kind = "Unknown"
    <2>1. i \in Nat /\ i <= n /\ s[i] \in Writing
        BY <1>1
    <2>2. next[i] = IF IsSpace(s[i]) THEN i + 1 ELSE LocaleReadAt(s, i, table).next
        BY DEF LocalePlaceAfter
    <2>3. tok[i] = LocaleReadAt(s, i, table).tok /\ tok[i] \in T
        BY DEF LocaleTokensAt
    <2> DEFINE r == LocaleReadAt(s, i, table)
    <2>4. CASE IsSpace(s[i])
        <3>1. i # j
            BY <1>2, <2>4
        <3> HIDE DEF T, tok, next
        <3> QED
            BY <1>1, <2>1, <2>2, <2>3, <2>4, <3>1
    <2>5. CASE ~IsSpace(s[i]) /\ Matching(s, i, table) # {}
        <3> DEFINE b == BestMatch(s, i, table)
                   last == i + Len(table[b].phrase) - 1
        <3>1. b \in Matching(s, i, table)
            BY <1>1, <2>5, BestMatchMatches
        <3>2. last \in i..n /\ \A k \in i..last : s[k] \notin Strange
            BY <1>1, <3>1, MatchesAreLegible
        <3>3. r.next = last + 1
            BY <2>5 DEF LocaleReadAt, ScanPhrase, Scanned
        <3>4. PICK l \in Nat : l = last /\ l >= i /\ l <= n
            <4>1. \A l \in i..n : l \in Nat /\ l >= i /\ l <= n
                BY <2>1
            <4> HIDE DEF last
            <4> QED
                BY <3>2, <4>1
        <3>5. next[i] = l + 1
            BY <2>2, <2>5, <3>3, <3>4
        <3>6. \A k \in i..l : s[k] \notin Strange
            BY <3>2, <3>4
        <3>7. ~(j >= i /\ j <= l)
            BY <1>1, <3>6
        <3> HIDE DEF T, tok, next, r
        <3> QED
            BY <1>1, <2>1, <2>3, <3>4, <3>5, <3>7
    <2>6. CASE ~IsSpace(s[i]) /\ Matching(s, i, table) = {} /\ s[i].t = "num"
        <3>1. r = ScanNumber(s, i)
            BY <2>6 DEF LocaleReadAt
        <3>2. GoesOn(s, i, r)
            BY <2>6, <3>1, ScanNumberGoesOn
        <3>3. i # j
            BY <2>6, StrangeIsNone
        <3>4. PICK m : m = r.next /\ m \in (i + 1)..(n + 1) /\ \A k \in (i + 1)..(m - 1) : s[k] \notin Strange
            BY <3>2 DEF GoesOn
        <3>5. next[i] = m
            BY <2>2, <2>6, <3>4
        <3> HIDE DEF T, tok, next, r
        <3>6. m \in Nat /\ (i < j /\ m > j => j \in (i + 1)..(m - 1))
            BY <1>1, <2>1, <3>4
        <3>7. i < j => m <= j
            BY <1>1, <3>4, <3>6
        <3> QED
            BY <2>3, <3>3, <3>4, <3>5, <3>7
    <2>7. CASE ~IsSpace(s[i]) /\ Matching(s, i, table) = {} /\ s[i].t # "num"
        <3>1. r = ScanUnknown(s, i)
            BY <2>7 DEF LocaleReadAt
        <3>2. /\ r.tok.kind = "Unknown" /\ r.next \in (i + 1)..(n + 1)
              /\ \A k \in i..(r.next - 1) : ~IsSpace(s[k])
            BY SMTT(30), <1>1, <2>7, <3>1, ScanUnknownGoesOn
        <3>3. PICK m : m = r.next /\ m \in (i + 1)..(n + 1) /\ \A k \in i..(m - 1) : ~IsSpace(s[k])
            BY <3>2
        <3>4. next[i] = m /\ tok[i].kind = "Unknown"
            BY <2>2, <2>3, <2>7, <3>2, <3>3
        <3> HIDE DEF T, tok, next, r
        <3>5. m \in Nat /\ (i < j /\ m > j => p \in i..(m - 1))
            BY <1>1, <2>1, <3>3
        <3>6. i < j => m <= j
            BY <1>1, <1>2, <3>3, <3>5
        <3> QED
            BY <2>3, <3>3, <3>4, <3>6
    <2> QED
        BY <2>4, <2>5, <2>6, <2>7
<1>4. tok[j].kind = "Unknown" /\ j \notin spaces
    BY <1>1, <1>2, <1>3 DEF SpacesIn
<1> HIDE DEF T, spaces, tok, next
<1>5. ReadsOnward(n, T, {n + 1}, Nothing(s), spaces, tok, next)
    <2>1. Nothing(s)[n + 1] \in Seq(T)
        <3>1. n + 1 \in 1..(Len(s) + 1)
            OBVIOUS
        <3> QED
            BY <3>1 DEF Nothing
    <2>2. \A i \in 1..(n + 1) : i \notin {n + 1} => i \in 1..n
        BY <1>1
    <2> QED
        BY <1>3, <2>1, <2>2 DEF ReadsOnward
<1>6. PICK h : /\ ScanLocale(s, table) = h[1]
               /\ IsRead(h, n, {n + 1}, Nothing(s), spaces, tok, next)
    BY <1>5, ScanLocaleReads DEF spaces, tok, next
<1>7. j \in 1..n /\ Reaches(j, {n + 1}, spaces, next)
    <2>1. j \in 1..n /\ j \notin {n + 1} /\ \A i \in 1..(j - 1) : i \notin {n + 1} /\ i \in 1..n /\ i < j
        BY <1>1
    <2> QED
        BY <1>3, <1>4, <2>1 DEF Reaches
<1>8. h[1] \in Seq(T) /\ \E k \in DOMAIN h[1] : h[1][k] = tok[j]
    BY <1>1, <1>5, <1>6, <1>7, ReadingReaches
<1> QED
    BY <1>4, <1>6, <1>8

-----------------------------------------------------------------------------
\* No pattern accounts for a token that is unknown.

HasUnknown(tokens) == \E k \in DOMAIN tokens : tokens[k].kind = "Unknown"

ArticlesIn(tokens) == {i \in 1..Len(tokens) : IsArticle(tokens, i)}
TokenHere(tokens) == [i \in 1..Len(tokens) |-> tokens[i]]
NextPlace(tokens) == [i \in 1..Len(tokens) |-> i + 1]

\* An article is no such token.
LEMMA CollapseKeepsUnknown ==
    ASSUME NEW T, NEW tokens \in Seq(T), HasUnknown(tokens)
    PROVE  CollapseNumbers(tokens) \in Seq(T) /\ HasUnknown(CollapseNumbers(tokens))
<1> DEFINE n == Len(tokens)
           body(from, i) ==
               IF i > Len(tokens) THEN <<>>
               ELSE IF IsArticle(tokens, i) THEN from[i + 1]
               ELSE <<tokens[i]>> \o from[i + 1]
           read(g, i) == PlaceReads(g, i, {n + 1}, Nothing(tokens), ArticlesIn(tokens),
                               TokenHere(tokens), NextPlace(tokens))
<1>1. n \in Nat /\ DOMAIN tokens = 1..n
    OBVIOUS
<1>2. ASSUME NEW g, NEW i \in 1..(n + 1)
      PROVE  read(g, i) <=> g[i] = body(g, i)
    <2>1. CASE i = n + 1
        <3>1. i > Len(tokens) /\ ~(i <= Len(tokens))
            BY <1>1, <2>1
        <3> QED
            BY <2>1, <3>1 DEF PlaceReads, Nothing
    <2>2. CASE i # n + 1
        <3>1. i \in 1..n /\ ~(i > n) /\ i <= n /\ i \notin {n + 1}
            BY <1>1, <2>2
        <3> HIDE DEF n
        <3>2. i \in ArticlesIn(tokens) <=> IsArticle(tokens, i)
            BY <3>1 DEF ArticlesIn, n
        <3>3. TokenHere(tokens)[i] = tokens[i] /\ NextPlace(tokens)[i] = i + 1
            BY <3>1 DEF TokenHere, NextPlace, n
        <3>4. body(g, i) = IF IsArticle(tokens, i) THEN g[i + 1] ELSE <<tokens[i]>> \o g[i + 1]
            BY <3>1 DEF n
        <3> HIDE DEF body
        <3> QED
            BY <3>1, <3>2, <3>3, <3>4 DEF PlaceReads
    <2> QED
        BY <2>1, <2>2
<1>3. ReadsOnward(n, T, {n + 1}, Nothing(tokens), ArticlesIn(tokens), TokenHere(tokens), NextPlace(tokens))
    <2>1. Nothing(tokens)[n + 1] \in Seq(T)
        BY <1>1 DEF Nothing
    <2>2. \A i \in 1..(n + 1) : i \notin {n + 1} => i \in 1..n /\ i + 1 \in (i + 1)..(n + 1)
        BY <1>1
    <2>3. \A i \in 1..n : TokenHere(tokens)[i] \in T /\ NextPlace(tokens)[i] = i + 1
        BY DEF TokenHere, NextPlace
    <2> HIDE DEF n
    <2> QED
        BY <2>1, <2>2, <2>3 DEF ReadsOnward
<1>4. PICK g : g = [i \in 1..(n + 1) |-> g[i]] /\ \A i \in 1..(n + 1) : read(g, i)
    BY <1>1, <1>3, ReadingExists DEF IsRead
<1>5. g = [i \in 1..(n + 1) |-> body(g, i)]
    <2> HIDE DEF body, read
    <2>1. \A i \in 1..(n + 1) : g[i] = body(g, i)
        BY <1>2, <1>4
    <2> QED
        BY <1>4, <2>1
<1> DEFINE h == CHOOSE from : from = [i \in 1..(n + 1) |-> body(from, i)]
<1>6. CollapseNumbers(tokens) = h[1]
    BY DEF CollapseNumbers
<1>7. h = [i \in 1..(n + 1) |-> body(h, i)]
    <2> HIDE DEF body
    <2> QED
        BY <1>5
<1> HIDE DEF h
<1>8. IsRead(h, n, {n + 1}, Nothing(tokens), ArticlesIn(tokens), TokenHere(tokens), NextPlace(tokens))
    <2>1. SUFFICES ASSUME NEW i \in 1..(n + 1)
                   PROVE  read(h, i)
        BY DEF IsRead
    <2> HIDE DEF body, read
    <2> QED
        BY <1>2, <1>7
<1>9. PICK j \in 1..n : tokens[j].kind = "Unknown"
    BY <1>1 DEF HasUnknown
<1>10. Reaches(j, {n + 1}, ArticlesIn(tokens), NextPlace(tokens))
    <2>1. j \notin ArticlesIn(tokens)
        BY <1>9 DEF ArticlesIn, IsArticle
    <2>2. j \notin {n + 1} /\ \A i \in 1..(j - 1) : i \notin {n + 1} /\ i \in 1..n /\ i + 1 <= j
        BY <1>1
    <2>3. \A i \in 1..n : NextPlace(tokens)[i] = i + 1
        BY DEF NextPlace
    <2> HIDE DEF n
    <2> QED
        BY <2>1, <2>2, <2>3 DEF Reaches
<1>11. TokenHere(tokens)[j] = tokens[j]
    BY DEF TokenHere
<1>12. h[1] \in Seq(T) /\ \E k \in DOMAIN h[1] : h[1][k] = TokenHere(tokens)[j]
    <2> HIDE DEF n
    <2> QED
        BY <1>1, <1>3, <1>8, <1>10, ReadingReaches
<1> QED
    BY <1>6, <1>9, <1>11, <1>12 DEF HasUnknown

\* Does a time expression say all that stands before place m?
Knows(tokens, m) == \A i \in DOMAIN tokens : i <= m => tokens[i].kind # "Unknown"

Accounts(a, tokens) == a.used \in Nat /\ Knows(tokens, a.used)

LEMMA UnknownIsNotWhole ==
    ASSUME NEW T, NEW tokens \in Seq(T), HasUnknown(tokens), NEW a, Accounts(a, tokens)
    PROVE  ~IsWhole(a, tokens)
<1>1. PICK n \in Nat : n = Len(tokens) /\ DOMAIN tokens = 1..n
    OBVIOUS
<1>2. PICK k \in 1..n : tokens[k].kind = "Unknown"
    BY <1>1 DEF HasUnknown
<1>3. k <= n
    OBVIOUS
<1> QED
    BY <1>1, <1>2, <1>3 DEF Accounts, Knows, IsWhole

LEMMA NoAnswerAccounts ==
    ASSUME NEW T, NEW tokens \in Seq(T)
    PROVE  Accounts(NoAnswer, tokens)
<1>1. DOMAIN tokens \in SUBSET (Nat \ {0})
    OBVIOUS
<1> QED
    BY <1>1 DEF Accounts, Knows, NoAnswer

\* The kinds a pattern begins with are known.
LEMMA BeginsKnows ==
    ASSUME NEW T, NEW tokens \in Seq(T), NEW K, NEW kinds \in Seq(K),
           Begins(tokens, kinds), \A k \in DOMAIN kinds : kinds[k] # "Unknown"
    PROVE  Knows(tokens, Len(kinds)) /\ Len(kinds) \in Nat
<1>1. PICK n \in Nat : n = Len(tokens) /\ DOMAIN tokens = 1..n
    OBVIOUS
<1>2. PICK l \in Nat : l = Len(kinds) /\ DOMAIN kinds = 1..l
    OBVIOUS
<1>3. \A i \in 1..n : i <= l => i \in 1..l
    OBVIOUS
<1> QED
    BY <1>1, <1>2, <1>3 DEF Knows, Begins

LEMMA Begins1Knows ==
    ASSUME NEW T, NEW tokens \in Seq(T), NEW k, k # "Unknown",
           Begins(tokens, <<k>>)
    PROVE  Knows(tokens, 1)
<1> DEFINE kinds == <<k>>
<1>1. kinds \in Seq({k}) /\ Len(kinds) = 1 /\ kinds[1] = k
    OBVIOUS
<1>2. \A i \in DOMAIN kinds : i = 1
    OBVIOUS
<1>3. \A i \in DOMAIN kinds : kinds[i] # "Unknown"
    BY <1>1, <1>2
<1>4. Begins(tokens, kinds)
    OBVIOUS
<1> HIDE DEF kinds
<1> QED
    BY <1>1, <1>3, <1>4, BeginsKnows

LEMMA Begins2Knows ==
    ASSUME NEW T, NEW tokens \in Seq(T), NEW k, k # "Unknown",
           NEW l, l # "Unknown",
           Begins(tokens, <<k, l>>)
    PROVE  Knows(tokens, 2)
<1> DEFINE kinds == <<k, l>>
<1>1. kinds \in Seq({k, l}) /\ Len(kinds) = 2 /\ kinds[1] = k /\ kinds[2] = l
    OBVIOUS
<1>2. \A i \in DOMAIN kinds : i = 1 \/ i = 2
    OBVIOUS
<1>3. \A i \in DOMAIN kinds : kinds[i] # "Unknown"
    BY <1>1, <1>2
<1>4. Begins(tokens, kinds)
    OBVIOUS
<1> HIDE DEF kinds
<1> QED
    BY <1>1, <1>3, <1>4, BeginsKnows

LEMMA Begins3Knows ==
    ASSUME NEW T, NEW tokens \in Seq(T), NEW k, k # "Unknown",
           NEW l, l # "Unknown",
           NEW m, m # "Unknown",
           Begins(tokens, <<k, l, m>>)
    PROVE  Knows(tokens, 3)
<1> DEFINE kinds == <<k, l, m>>
<1>1. kinds \in Seq({k, l, m}) /\ Len(kinds) = 3 /\ kinds[1] = k /\ kinds[2] = l /\ kinds[3] = m
    OBVIOUS
<1>2. \A i \in DOMAIN kinds : i = 1 \/ i = 2 \/ i = 3
    OBVIOUS
<1>3. \A i \in DOMAIN kinds : kinds[i] # "Unknown"
    BY <1>1, <1>2
<1>4. Begins(tokens, kinds)
    OBVIOUS
<1> HIDE DEF kinds
<1> QED
    BY <1>1, <1>3, <1>4, BeginsKnows

\* And so is the time of day after them.
LEMMA SuffixKnows ==
    ASSUME NEW T, NEW tokens \in Seq(T), NEW skip \in Nat, Knows(tokens, skip), NEW t
    PROVE  \E u \in Nat : /\ Knows(tokens, u)
                          /\ \E time : ApplyTimeSuffix(tokens, skip, t) = Reading(time, "relative", u)
<1>1. PICK n \in Nat : n = Len(tokens) /\ DOMAIN tokens = 1..n
    OBVIOUS
<1> DEFINE i == IF skip < Len(tokens) /\ tokens[skip + 1].kind = "At" THEN skip + 2 ELSE skip + 1
           kind == IF i > Len(tokens) THEN "none" ELSE tokens[i].kind
           midnight  == TruncateDay(t)
           r == ApplyTimeSuffix(tokens, skip, t)
<1>2. i \in Nat /\ i \in {skip + 1, skip + 2}
    OBVIOUS
<1>3. ASSUME kind \in {"Time", "Noon", "Midnight", "Number"}
      PROVE  Knows(tokens, i)
    <2>1. i <= n /\ tokens[i].kind # "Unknown"
        BY <1>1, <1>2, <1>3
    <2>2. i = skip + 2 => tokens[skip + 1].kind # "Unknown"
        BY <1>1
    <2>3. \A k \in 1..n : k <= i => k <= skip \/ k = i \/ (i = skip + 2 /\ k = skip + 1)
        BY <1>2
    <2> HIDE DEF i
    <2> QED
        BY <1>1, <2>1, <2>2, <2>3 DEF Knows
<1> HIDE DEF i
<1>4. CASE kind = "Time"
    <2>1. r = Reading(Minutes(midnight, tokens[i].val), "relative", i)
        BY <1>4 DEF ApplyTimeSuffix, i
    <2> QED
        BY <1>2, <1>3, <1>4, <2>1
<1>5. CASE kind = "Noon"
    <2>1. r = Reading(Hours(midnight, 12), "relative", i)
        BY <1>5 DEF ApplyTimeSuffix, i
    <2> QED
        BY <1>2, <1>3, <1>5, <2>1
<1>6. CASE kind = "Midnight"
    <2>1. r = Reading(midnight, "relative", i)
        BY <1>6 DEF ApplyTimeSuffix, i
    <2> QED
        BY <1>2, <1>3, <1>6, <2>1
<1>7. CASE kind = "Number" /\ tokens[i].val \in 0..23
    <2>1. r = BareHour(tokens, i, midnight)
        BY <1>7 DEF ApplyTimeSuffix, i
    <2>2. Knows(tokens, i)
        BY <1>3, <1>7
    <2>3. CASE i < Len(tokens) /\ tokens[i + 1].kind = "AMPM"
        <3>1. r = Reading(Hours(midnight, ApplyAMPM(tokens[i].val, tokens[i + 1].val)), "relative", i + 1)
            BY <2>1, <2>3 DEF BareHour
        <3>2. i + 1 \in Nat /\ \A k \in 1..n : k <= i + 1 => k <= i \/ k = i + 1
            BY <1>2
        <3>3. Knows(tokens, i + 1)
            BY <1>1, <2>2, <2>3, <3>2 DEF Knows
        <3> QED
            BY <3>1, <3>2, <3>3
    <2>4. CASE ~(i < Len(tokens) /\ tokens[i + 1].kind = "AMPM")
        <3>1. r = Reading(Hours(midnight, tokens[i].val), "relative", i)
            BY <2>1, <2>4 DEF BareHour
        <3> QED
            BY <1>2, <2>2, <3>1
    <2> QED
        BY <2>3, <2>4
<1>8. CASE /\ kind \notin {"Time", "Noon", "Midnight"}
           /\ ~(kind = "Number" /\ tokens[i].val \in 0..23)
    <2>1. r = Reading(t, "relative", skip)
        BY <1>8 DEF ApplyTimeSuffix, i
    <2> QED
        BY <2>1
<1> QED
    BY <1>4, <1>5, <1>6, <1>7, <1>8

\* What the rest of the tokens begins with stands in the tokens.
LEMMA RestBegins ==
    ASSUME NEW T, NEW n \in Nat, NEW tokens \in Seq(T), n = Len(tokens), NEW i \in Nat \ {0},
           NEW K, NEW kinds \in Seq(K), Begins(SubSeq(tokens, i, n), kinds)
    PROVE  \A k \in 1..Len(kinds) : /\ i + k - 1 \in 1..n
                                    /\ tokens[i + k - 1].kind = kinds[k]
<1> DEFINE rest == SubSeq(tokens, i, n)
<1>1. PICK l \in Nat : l = Len(kinds) /\ DOMAIN kinds = 1..l
    OBVIOUS
<1>2. \A k \in i..n : k \in 1..n /\ tokens[k] \in T
    OBVIOUS
<1>3. /\ Len(rest) = IF i <= n THEN n - i + 1 ELSE 0
      /\ \A k \in 1..(n - i + 1) : rest[k] = tokens[i + k - 1]
    BY <1>2, SubSeqProperties
<1>4. l <= Len(rest) /\ \A k \in 1..l : rest[k].kind = kinds[k]
    BY <1>1 DEF Begins
<1> HIDE DEF rest
<1>5. ASSUME NEW k \in 1..l
      PROVE  i + k - 1 \in 1..n /\ k \in 1..(n - i + 1)
    BY <1>3, <1>4
<1> QED
    BY <1>1, <1>3, <1>4, <1>5

LEMMA RestBegins2 ==
    ASSUME NEW T, NEW n \in Nat, NEW tokens \in Seq(T), n = Len(tokens), NEW i \in Nat \ {0},
           NEW a, a # "Unknown", NEW b, b # "Unknown",
           Begins(SubSeq(tokens, i, n), <<a, b>>)
    PROVE  i + 1 <= n /\ \A k \in i..(i + 1) : tokens[k].kind # "Unknown"
<1> DEFINE kinds == <<a, b>>
<1>1. kinds \in Seq({a, b}) /\ 1..Len(kinds) = {1, 2} /\ kinds[1] = a /\ kinds[2] = b
    OBVIOUS
<1>2. Begins(SubSeq(tokens, i, n), kinds)
    OBVIOUS
<1> HIDE DEF kinds
<1>3. \A k \in {1, 2} : i + k - 1 \in 1..n /\ tokens[i + k - 1].kind # "Unknown"
    <2>1. \A k \in 1..Len(kinds) : i + k - 1 \in 1..n /\ tokens[i + k - 1].kind = kinds[k]
        BY <1>1, <1>2, RestBegins
    <2>2. \A k \in {1, 2} : k \in 1..Len(kinds) /\ kinds[k] # "Unknown"
        BY <1>1
    <2> QED
        BY <2>1, <2>2
<1>4. i + 1 - 1 = i /\ i + 2 - 1 = i + 1 /\ \A k \in i..(i + 1) : k = i \/ k = i + 1
    OBVIOUS
<1>5. i + 1 \in 1..n /\ tokens[i].kind # "Unknown" /\ tokens[i + 1].kind # "Unknown"
    BY <1>3, <1>4
<1> QED
    BY <1>4, <1>5

LEMMA RestBegins3 ==
    ASSUME NEW T, NEW n \in Nat, NEW tokens \in Seq(T), n = Len(tokens), NEW i \in Nat \ {0},
           NEW a, a # "Unknown", NEW b, b # "Unknown",
           NEW c, c # "Unknown", Begins(SubSeq(tokens, i, n), <<a, b, c>>)
    PROVE  i + 2 <= n /\ \A k \in i..(i + 2) : tokens[k].kind # "Unknown"
<1> DEFINE kinds == <<a, b, c>>
<1>1. kinds \in Seq({a, b, c}) /\ 1..Len(kinds) = {1, 2, 3} /\ kinds[1] = a /\ kinds[2] = b /\ kinds[3] = c
    OBVIOUS
<1>2. Begins(SubSeq(tokens, i, n), kinds)
    OBVIOUS
<1> HIDE DEF kinds
<1>3. \A k \in {1, 2, 3} : i + k - 1 \in 1..n /\ tokens[i + k - 1].kind # "Unknown"
    <2>1. \A k \in 1..Len(kinds) : i + k - 1 \in 1..n /\ tokens[i + k - 1].kind = kinds[k]
        BY <1>1, <1>2, RestBegins
    <2>2. \A k \in {1, 2, 3} : k \in 1..Len(kinds) /\ kinds[k] # "Unknown"
        BY <1>1
    <2> QED
        BY <2>1, <2>2
<1>4. /\ i + 1 - 1 = i /\ i + 2 - 1 = i + 1 /\ i + 3 - 1 = i + 2
      /\ \A k \in i..(i + 2) : k = i \/ k = i + 1 \/ k = i + 2
    OBVIOUS
<1>5. /\ i + 2 \in 1..n /\ tokens[i].kind # "Unknown" /\ tokens[i + 1].kind # "Unknown"
      /\ tokens[i + 2].kind # "Unknown"
    BY <1>3, <1>4
<1> QED
    BY <1>4, <1>5

\* The pairs of numbers and units.
RestOf(tokens, i) == SubSeq(tokens, i, Len(tokens))
PairAt(tokens) ==
    [i \in 1..(Len(tokens) + 1) |-> <<RestOf(tokens, i)[1].val, RestOf(tokens, i)[2].val>>]
LastPairs(tokens) ==
    {i \in 1..(Len(tokens) + 1) : ~Begins(RestOf(tokens, i), <<"Number", "Unit", "And">>)}
LastPair(tokens) ==
    [i \in 1..(Len(tokens) + 1) |->
        IF Begins(RestOf(tokens, i), <<"Number", "Unit">>) THEN <<PairAt(tokens)[i]>> ELSE <<>>]
ThirdPlace(tokens) == [i \in 1..(Len(tokens) + 1) |-> i + 3]

LEMMA PairsRead ==
    ASSUME NEW X, NEW tokens \in Seq(X), NEW start, NEW T,
           ReadsOnward(Len(tokens), T, LastPairs(tokens), LastPair(tokens), {},
                     PairAt(tokens), ThirdPlace(tokens))
    PROVE  \E h : /\ Pairs(tokens, start) = h[start]
                  /\ IsRead(h, Len(tokens), LastPairs(tokens), LastPair(tokens), {},
                            PairAt(tokens), ThirdPlace(tokens))
<1> DEFINE n == Len(tokens)
           body(from, i) ==
               LET rest == SubSeq(tokens, i, Len(tokens))
                   pair == <<rest[1].val, rest[2].val>>
               IN  IF Begins(rest, <<"Number", "Unit", "And">>) THEN <<pair>> \o from[i + 3]
                   ELSE IF Begins(rest, <<"Number", "Unit">>) THEN <<pair>> ELSE <<>>
           read(g, i) == PlaceReads(g, i, LastPairs(tokens), LastPair(tokens), {},
                               PairAt(tokens), ThirdPlace(tokens))
<1>1. n \in Nat
    OBVIOUS
<1>2. ASSUME NEW g, NEW i \in 1..(n + 1)
      PROVE  read(g, i) <=> g[i] = body(g, i)
    <2>1. i \notin LastPairs(tokens) <=> Begins(RestOf(tokens, i), <<"Number", "Unit", "And">>)
        BY DEF LastPairs
    <2>2. /\ PairAt(tokens)[i] = <<RestOf(tokens, i)[1].val, RestOf(tokens, i)[2].val>>
          /\ ThirdPlace(tokens)[i] = i + 3
        BY DEF PairAt, ThirdPlace
    <2>3. LastPair(tokens)[i] = IF Begins(RestOf(tokens, i), <<"Number", "Unit">>)
                                THEN <<PairAt(tokens)[i]>> ELSE <<>>
        BY DEF LastPair
    <2>4. body(g, i) = IF Begins(RestOf(tokens, i), <<"Number", "Unit", "And">>)
                       THEN <<PairAt(tokens)[i]>> \o g[i + 3]
                       ELSE IF Begins(RestOf(tokens, i), <<"Number", "Unit">>)
                            THEN <<PairAt(tokens)[i]>> ELSE <<>>
        BY <2>2 DEF RestOf
    <2> HIDE DEF body, n
    <2> QED
        BY <2>1, <2>2, <2>3, <2>4 DEF PlaceReads
<1>3. PICK g : g = [i \in 1..(n + 1) |-> g[i]] /\ \A i \in 1..(n + 1) : read(g, i)
    BY <1>1, ReadingExists DEF IsRead
<1>4. g = [i \in 1..(n + 1) |-> body(g, i)]
    <2> HIDE DEF body, read
    <2>1. \A i \in 1..(n + 1) : g[i] = body(g, i)
        BY <1>2, <1>3
    <2> QED
        BY <1>3, <2>1
<1> DEFINE h == CHOOSE from : from = [i \in 1..(n + 1) |-> body(from, i)]
<1>5. Pairs(tokens, start) = h[start]
    BY DEF Pairs
<1>6. h = [i \in 1..(n + 1) |-> body(h, i)]
    <2> HIDE DEF body
    <2> QED
        BY <1>4
<1> HIDE DEF h
<1>7. ASSUME NEW i \in 1..(n + 1)
      PROVE  read(h, i)
    <2> HIDE DEF body, read
    <2> QED
        BY <1>2, <1>6
<1> QED
    BY <1>5, <1>7 DEF IsRead

\* From start on, the tokens of k pairs and of the k - 1 "and" between them.
LEMMA PairsKnow ==
    ASSUME NEW X, NEW n \in Nat, NEW tokens \in Seq(X), n = Len(tokens), NEW start \in 1..(n + 1)
    PROVE  \E l \in Nat : /\ Len(Pairs(tokens, start)) = l
                          /\ \A k \in 1..n : k >= start /\ k <= start + 3 * l - 2
                                                 => tokens[k].kind # "Unknown"
<1> DEFINE T == {PairAt(tokens)[i] : i \in 1..(n + 1)}
           stops == LastPairs(tokens)
           last == LastPair(tokens)
           pair == PairAt(tokens)
           next == ThirdPlace(tokens)
           covers(i, l) == \A k \in 1..n : k >= i /\ k <= i + 3 * l - 2 => tokens[k].kind # "Unknown"
<1>1. ASSUME NEW i \in 1..(n + 1)
      PROVE  /\ next[i] = i + 3 /\ pair[i] \in T /\ last[i] \in Seq(T)
             /\ i \notin stops => i + 2 <= n /\ \A k \in i..(i + 2) : tokens[k].kind # "Unknown"
             /\ last[i] = <<>> \/ (Len(last[i]) = 1 /\ \A k \in i..(i + 1) : tokens[k].kind # "Unknown")
    <2>1. next[i] = i + 3 /\ pair[i] \in T
        BY DEF ThirdPlace
    <2>2. i \notin stops => Begins(SubSeq(tokens, i, n), <<"Number", "Unit", "And">>)
        BY DEF LastPairs, RestOf
    <2>3. i \in Nat \ {0}
        OBVIOUS
    <2>4. i \notin stops => i + 2 <= n /\ \A k \in i..(i + 2) : tokens[k].kind # "Unknown"
        <3>1. SUFFICES ASSUME Begins(SubSeq(tokens, i, n), <<"Number", "Unit", "And">>)
                       PROVE  i + 2 <= n /\ \A k \in i..(i + 2) : tokens[k].kind # "Unknown"
            BY <2>2
        <3> HIDE DEF T, stops, last, pair, next, covers
        <3>2. \A a, b, c : a # "Unknown" /\ b # "Unknown" /\ c # "Unknown"
                               /\ Begins(SubSeq(tokens, i, n), <<a, b, c>>)
                           => i + 2 <= n /\ \A k \in i..(i + 2) : tokens[k].kind # "Unknown"
            BY <2>3, RestBegins3
        <3> QED
            BY <3>1, <3>2
    <2>5. last[i] = IF Begins(SubSeq(tokens, i, n), <<"Number", "Unit">>) THEN <<pair[i]>> ELSE <<>>
        BY DEF LastPair, RestOf
    <2>6. Begins(SubSeq(tokens, i, n), <<"Number", "Unit">>)
              => \A k \in i..(i + 1) : tokens[k].kind # "Unknown"
        <3>1. SUFFICES ASSUME Begins(SubSeq(tokens, i, n), <<"Number", "Unit">>)
                       PROVE  \A k \in i..(i + 1) : tokens[k].kind # "Unknown"
            OBVIOUS
        <3> HIDE DEF T, stops, last, pair, next, covers
        <3> QED
            BY <2>3, <3>1, RestBegins2
    <2> HIDE DEF T, stops, last, pair, next
    <2>7. last[i] \in Seq(T) /\ (last[i] = <<>> \/ last[i] = <<pair[i]>>)
        BY <2>1, <2>5
    <2>8. Len(<<pair[i]>>) = 1
        OBVIOUS
    <2>9. last[i] = <<>> \/ (Len(last[i]) = 1 /\ \A k \in i..(i + 1) : tokens[k].kind # "Unknown")
        BY <2>5, <2>6, <2>8
    <2> QED
        BY <2>1, <2>4, <2>7, <2>9
<1>2. n + 1 \in stops
    <2>1. n + 1 \in 1..(n + 1) /\ ~(n + 1 + 2 <= n)
        OBVIOUS
    <2> QED
        BY <1>1, <2>1
<1> HIDE DEF T, stops, last, pair, next
<1>3. ReadsOnward(n, T, stops, last, {}, pair, next)
    <2>1. ASSUME NEW i \in 1..(n + 1), i \notin stops
          PROVE  next[i] \in (i + 1)..(n + 1) /\ pair[i] \in T
        BY <1>1, <2>1
    <2> QED
        BY <1>1, <1>2, <2>1 DEF ReadsOnward
<1>4. PICK h : Pairs(tokens, start) = h[start] /\ IsRead(h, n, stops, last, {}, pair, next)
    BY <1>3, PairsRead DEF stops, last, pair, next
<1>5. \A i \in 1..(n + 1) : h[i] \in Seq(T)
    BY <1>3, <1>4, ReadingIsTyped
<1> DEFINE S == {i \in 1..(n + 1) : covers(i, Len(h[i]))}
<1>6. ASSUME NEW i \in 1..(n + 1), \A m \in (i + 1)..(n + 1) : m \in S
      PROVE  covers(i, Len(h[i]))
    <2>1. PlaceReads(h, i, stops, last, {}, pair, next)
        BY <1>4 DEF IsRead
    <2>2. CASE i \in stops
        <3>1. h[i] = last[i]
            BY <2>1, <2>2 DEF PlaceReads
        <3>2. last[i] = <<>> \/ (Len(last[i]) = 1 /\ \A k \in i..(i + 1) : tokens[k].kind # "Unknown")
            BY <1>1
        <3>3. CASE last[i] = <<>>
            <4>1. Len(h[i]) = 0
                BY <3>1, <3>3
            <4>2. covers(i, 0)
                OBVIOUS
            <4> QED
                BY <4>1, <4>2
        <3>4. CASE Len(last[i]) = 1 /\ \A k \in i..(i + 1) : tokens[k].kind # "Unknown"
            <4>1. Len(h[i]) = 1
                BY <3>1, <3>4
            <4>2. \A k \in 1..n : k >= i /\ k <= i + 3 * 1 - 2 => k \in i..(i + 1)
                OBVIOUS
            <4>3. covers(i, 1)
                BY <3>4, <4>2
            <4> QED
                BY <4>1, <4>3
        <3> QED
            BY <3>2, <3>3, <3>4
    <2>3. CASE i \notin stops
        <3>1. /\ h[i] = <<pair[i]>> \o h[i + 3] /\ pair[i] \in T /\ i + 2 <= n
              /\ \A k \in i..(i + 2) : tokens[k].kind # "Unknown"
            BY <1>1, <2>1, <2>3 DEF PlaceReads
        <3>2. i + 3 \in (i + 1)..(n + 1) /\ i + 3 \in 1..(n + 1)
            BY <3>1
        <3>3. PICK l \in Nat : Len(h[i + 3]) = l
            BY <1>5, <3>2
        <3>4. Len(h[i]) = l + 1
            BY <1>5, <3>1, <3>2, <3>3
        <3>5. covers(i + 3, l)
            BY <1>6, <3>2, <3>3
        <3>6. covers(i, l + 1)
            <4>1. SUFFICES ASSUME NEW k \in 1..n, k >= i, k <= i + 3 * (l + 1) - 2
                           PROVE  tokens[k].kind # "Unknown"
                OBVIOUS
            <4>2. k \in i..(i + 2) \/ (k >= i + 3 /\ k <= (i + 3) + 3 * l - 2)
                BY <4>1
            <4> QED
                BY <3>1, <3>5, <4>2
        <3> QED
            BY <3>4, <3>6
    <2> QED
        BY <2>2, <2>3
<1>7. \A i \in 1..(n + 1) : i \in S
    <2> HIDE DEF S
    <2>1. \A i \in 1..(n + 1) : (\A m \in (i + 1)..(n + 1) : m \in S) => i \in S
        BY <1>6 DEF S
    <2> QED
        BY <2>1, DownwardInduction
<1>8. PICK l \in Nat : l = Len(h[start])
    BY <1>5
<1>9. covers(start, l)
    BY <1>7, <1>8
<1> QED
    BY <1>4, <1>8, <1>9

\* The patterns, one by one.

LEMMA ReadingAccounts ==
    ASSUME NEW tokens, NEW time, NEW kind, NEW u \in Nat, Knows(tokens, u)
    PROVE  Accounts(Reading(time, kind, u), tokens)
BY DEF Accounts, Reading

LEMMA SuffixAccounts ==
    ASSUME NEW T, NEW tokens \in Seq(T), NEW skip \in Nat, Knows(tokens, skip), NEW t
    PROVE  Accounts(ApplyTimeSuffix(tokens, skip, t), tokens)
BY SuffixKnows, ReadingAccounts

LEMMA EvalRelWordAccounts ==
    ASSUME NEW T, NEW tokens \in Seq(T), NEW base
    PROVE  Accounts(EvalRelWord(tokens, base), tokens)
<1>1. CASE tokens[1].kind = "RelWord"
    <2> DEFINE t == DayNamed(TruncateDay(base), base, tokens[1].val)
               kind == IF tokens[1].val \in {"now", "today"} THEN "now" ELSE "relative"
    <2>1. Knows(tokens, 1)
        <3>1. \A i \in DOMAIN tokens : i <= 1 => i = 1
            OBVIOUS
        <3> QED
            BY <1>1, <3>1 DEF Knows
    <2>2. PICK u \in Nat : /\ Knows(tokens, u)
                           /\ \E time : ApplyTimeSuffix(tokens, 1, t) = Reading(time, "relative", u)
        BY <2>1, SuffixKnows
    <2>3. PICK time : ApplyTimeSuffix(tokens, 1, t) = Reading(time, "relative", u)
        BY <2>2
    <2>4. EvalRelWord(tokens, base) = [ApplyTimeSuffix(tokens, 1, t) EXCEPT !.kind = kind]
        BY <1>1 DEF EvalRelWord
    <2>5. [Reading(time, "relative", u) EXCEPT !.kind = kind].used = u
        BY DEF Reading
    <2> HIDE DEF t, kind
    <2> QED
        BY <2>2, <2>3, <2>4, <2>5 DEF Accounts
<1>2. CASE tokens[1].kind # "RelWord"
    BY <1>2, NoAnswerAccounts DEF EvalRelWord
<1> QED
    BY <1>1, <1>2

LEMMA EvalTimeOfDayAccounts ==
    ASSUME NEW T, NEW tokens \in Seq(T), NEW base
    PROVE  Accounts(EvalTimeOfDay(tokens, base), tokens)
<1> DEFINE today == TruncateDay(base)
           r == EvalTimeOfDay(tokens, base)
<1>1. CASE Begins(tokens, <<"Selector", "TimeOfDay">>)
    <2>1. PICK time : r = Reading(time, "relative", 2)
        <3>1. Len(tokens) # 1
            BY <1>1 DEF Begins
        <3> QED
            BY <1>1, <3>1 DEF EvalTimeOfDay
    <2>2. Knows(tokens, 2)
        BY <1>1, Begins2Knows
    <2> HIDE DEF r
    <2>3. Accounts(r, tokens)
        BY <2>1, <2>2, ReadingAccounts
    <2> QED
        BY <2>3 DEF r
<1>2. CASE ~Begins(tokens, <<"Selector", "TimeOfDay">>) /\ Len(tokens) = 1 /\ tokens[1].kind = "TimeOfDay"
    <2>1. r = Reading(Hours(today, tokens[1].val), "relative", 1)
        BY <1>2 DEF EvalTimeOfDay
    <2>2. Knows(tokens, 1)
        <3>1. \A i \in DOMAIN tokens : i <= 1 => i = 1
            OBVIOUS
        <3> QED
            BY <1>2, <3>1 DEF Knows
    <2> HIDE DEF r
    <2>3. Accounts(r, tokens)
        BY <2>1, <2>2, ReadingAccounts
    <2> QED
        BY <2>3 DEF r
<1>3. CASE /\ ~Begins(tokens, <<"Selector", "TimeOfDay">>)
           /\ ~(Len(tokens) = 1 /\ tokens[1].kind = "TimeOfDay")
    BY <1>3, NoAnswerAccounts DEF EvalTimeOfDay
<1> QED
    BY <1>1, <1>2, <1>3

LEMMA EvalHalfAccounts ==
    ASSUME NEW T, NEW tokens \in Seq(T), NEW base
    PROVE  Accounts(EvalHalf(tokens, base), tokens)
<1> DEFINE i == IF Begins(tokens, <<"Half", "Number">>) /\ tokens[2].val = 1 THEN 3 ELSE 2
           r == EvalHalf(tokens, base)
<1>1. PICK n \in Nat : n = Len(tokens) /\ DOMAIN tokens = 1..n
    OBVIOUS
<1>2. CASE /\ Begins(tokens, <<"Half">>)
           /\ Begins(SubSeq(tokens, i, Len(tokens)), <<"Unit", "Direction">>)
           /\ tokens[i].val \in DOMAIN HalfUnit
    <2>1. PICK time : r = Reading(time, "relative", i + 1)
        BY <1>2 DEF EvalHalf
    <2>2. Knows(tokens, 1) /\ (i = 3 => Knows(tokens, 2)) /\ i \in {2, 3}
        BY <1>2, Begins1Knows, Begins2Knows
    <2> HIDE DEF i, r
    <2>3. i \in Nat \ {0} /\ Begins(SubSeq(tokens, i, n), <<"Unit", "Direction">>)
        BY <1>1, <1>2, <2>2
    <2>4. \A k \in i..(i + 1) : tokens[k].kind # "Unknown"
        BY <1>1, <2>3, RestBegins2
    <2>5. Knows(tokens, i + 1)
        <3>1. \A k \in 1..n : k <= i + 1 => k \in i..(i + 1) \/ k <= 1 \/ (i = 3 /\ k <= 2)
            BY <2>2
        <3> QED
            BY <1>1, <2>2, <2>4, <3>1 DEF Knows
    <2>6. i + 1 \in Nat
        BY <2>2
    <2>7. Accounts(r, tokens)
        BY <2>1, <2>5, <2>6, ReadingAccounts
    <2> QED
        BY <2>7 DEF r
<1>3. CASE ~(/\ Begins(tokens, <<"Half">>)
             /\ Begins(SubSeq(tokens, i, Len(tokens)), <<"Unit", "Direction">>)
             /\ tokens[i].val \in DOMAIN HalfUnit)
    <2>1. r = NoAnswer
        BY <1>3 DEF EvalHalf
    <2> QED
        BY <2>1, NoAnswerAccounts
<1> QED
    BY <1>2, <1>3

LEMMA EvalCompoundNAgoAccounts ==
    ASSUME NEW T, NEW tokens \in Seq(T), NEW base
    PROVE  Accounts(EvalCompoundNAgo(tokens, base), tokens)
<1>1. PICK n \in Nat : n = Len(tokens) /\ DOMAIN tokens = 1..n
    OBVIOUS
<1>2. CASE Begins(tokens, <<"Direction">>) /\ tokens[1].val = "in"
    <2> DEFINE pairs == Pairs(tokens, 2)
               r == PrefixedParts(tokens, base, pairs)
    <2>1. EvalCompoundNAgo(tokens, base) = r
        BY <1>2 DEF EvalCompoundNAgo
    <2>2. Knows(tokens, 1) /\ 2 \in 1..(n + 1)
        BY <1>1, <1>2, Begins1Knows DEF Begins
    <2>3. PICK l \in Nat : /\ Len(pairs) = l
                           /\ \A k \in 1..n : k >= 2 /\ k <= 2 + 3 * l - 2 => tokens[k].kind # "Unknown"
        BY SMTT(30), <1>1, <2>2, PairsKnow
    <2> HIDE DEF pairs
    <2>4. r = NoAnswer \/ \E time : r = Reading(time, "relative", 3 * l)
        BY <2>3 DEF PrefixedParts
    <2>5. Knows(tokens, 3 * l) /\ 3 * l \in Nat
        <3>1. \A k \in 1..n : k <= 3 * l => k <= 1 \/ (k >= 2 /\ k <= 2 + 3 * l - 2)
            OBVIOUS
        <3> QED
            BY <1>1, <2>2, <2>3, <3>1 DEF Knows
    <2> HIDE DEF r
    <2>6. Accounts(r, tokens)
        BY <2>4, <2>5, ReadingAccounts, NoAnswerAccounts
    <2> QED
        BY <2>1, <2>6
<1>3. CASE ~(Begins(tokens, <<"Direction">>) /\ tokens[1].val = "in")
    <2> DEFINE pairs == Pairs(tokens, 1)
               r == DirectedParts(tokens, base, pairs)
    <2>1. EvalCompoundNAgo(tokens, base) = r
        BY <1>3 DEF EvalCompoundNAgo
    <2>2. 1 \in 1..(n + 1)
        OBVIOUS
    <2>3. PICK l \in Nat : /\ Len(pairs) = l
                           /\ \A k \in 1..n : k >= 1 /\ k <= 1 + 3 * l - 2 => tokens[k].kind # "Unknown"
        BY <1>1, <2>2, PairsKnow
    <2> HIDE DEF pairs
    <2>4. CASE l >= 2 /\ 3 * l <= Len(tokens) /\ tokens[3 * l].kind = "Direction"
        <3>1. PICK time : r = Reading(time, "relative", 3 * l)
            BY <2>3, <2>4 DEF DirectedParts
        <3>2. Knows(tokens, 3 * l) /\ 3 * l \in Nat
            <4>1. \A k \in 1..n : k <= 3 * l => k = 3 * l \/ (k >= 1 /\ k <= 1 + 3 * l - 2)
                OBVIOUS
            <4> QED
                BY <1>1, <2>3, <2>4, <4>1 DEF Knows
        <3> HIDE DEF r
        <3> QED
            BY <2>1, <3>1, <3>2, ReadingAccounts
    <2>5. CASE ~(l >= 2 /\ 3 * l <= Len(tokens) /\ tokens[3 * l].kind = "Direction")
        <3>1. r = NoAnswer
            BY <2>3, <2>5 DEF DirectedParts
        <3> HIDE DEF r
        <3> QED
            BY <2>1, <3>1, NoAnswerAccounts
    <2> QED
        BY <2>4, <2>5
<1> QED
    BY <1>2, <1>3

LEMMA EvalNAgoAccounts ==
    ASSUME NEW T, NEW tokens \in Seq(T), NEW base
    PROVE  Accounts(EvalNAgo(tokens, base), tokens)
<1>1. CASE Begins(tokens, <<"Number", "Unit", "Direction">>)
    <2>1. PICK t : EvalNAgo(tokens, base) = ApplyTimeSuffix(tokens, 3, t)
        BY <1>1 DEF EvalNAgo
    <2>2. Knows(tokens, 3)
        BY <1>1, Begins3Knows
    <2> QED
        BY <2>1, <2>2, SuffixAccounts
<1>2. CASE ~(Begins(tokens, <<"Number", "Unit", "Direction">>))
    BY <1>2, NoAnswerAccounts DEF EvalNAgo
<1> QED
    BY <1>1, <1>2

LEMMA EvalPrefixAgoAccounts ==
    ASSUME NEW T, NEW tokens \in Seq(T), NEW base
    PROVE  Accounts(EvalPrefixAgo(tokens, base), tokens)
<1>1. CASE Begins(tokens, <<"Direction", "Number", "Unit">>) /\ tokens[1].val = "ago"
    <2>1. PICK t : EvalPrefixAgo(tokens, base) = Reading(t, "relative", 3)
        BY <1>1 DEF EvalPrefixAgo
    <2>2. Knows(tokens, 3)
        BY <1>1, Begins3Knows
    <2> QED
        BY <2>1, <2>2, ReadingAccounts
<1>2. CASE ~(Begins(tokens, <<"Direction", "Number", "Unit">>) /\ tokens[1].val = "ago")
    BY <1>2, NoAnswerAccounts DEF EvalPrefixAgo
<1> QED
    BY <1>1, <1>2

LEMMA EvalInNAccounts ==
    ASSUME NEW T, NEW tokens \in Seq(T), NEW base
    PROVE  Accounts(EvalInN(tokens, base), tokens)
<1>1. CASE Begins(tokens, <<"Direction", "Number", "Unit">>) /\ tokens[1].val = "in"
    <2>1. PICK t : EvalInN(tokens, base) = ApplyTimeSuffix(tokens, 3, t)
        BY <1>1 DEF EvalInN
    <2>2. Knows(tokens, 3)
        BY <1>1, Begins3Knows
    <2> QED
        BY <2>1, <2>2, SuffixAccounts
<1>2. CASE ~(Begins(tokens, <<"Direction", "Number", "Unit">>) /\ tokens[1].val = "in")
    BY <1>2, NoAnswerAccounts DEF EvalInN
<1> QED
    BY <1>1, <1>2

LEMMA EvalSelectorWeekdayAccounts ==
    ASSUME NEW T, NEW tokens \in Seq(T), NEW base
    PROVE  Accounts(EvalSelectorWeekday(tokens, base), tokens)
<1>1. CASE Begins(tokens, <<"Selector", "Weekday">>)
    <2>1. PICK t : EvalSelectorWeekday(tokens, base) = ApplyTimeSuffix(tokens, 2, t)
        BY <1>1 DEF EvalSelectorWeekday
    <2>2. Knows(tokens, 2)
        BY <1>1, Begins2Knows
    <2> QED
        BY <2>1, <2>2, SuffixAccounts
<1>2. CASE ~(Begins(tokens, <<"Selector", "Weekday">>))
    BY <1>2, NoAnswerAccounts DEF EvalSelectorWeekday
<1> QED
    BY <1>1, <1>2

LEMMA EvalMonthDayAccounts ==
    ASSUME NEW T, NEW tokens \in Seq(T), NEW base
    PROVE  Accounts(EvalMonthDay(tokens, base), tokens)
<1>1. CASE Begins(tokens, <<"Month", "Number">>) /\ tokens[2].val \in 1..31
    <2>1. PICK t : EvalMonthDay(tokens, base) = ApplyTimeSuffix(tokens, 2, t)
        BY <1>1 DEF EvalMonthDay
    <2>2. Knows(tokens, 2)
        BY <1>1, Begins2Knows
    <2> QED
        BY <2>1, <2>2, SuffixAccounts
<1>2. CASE ~(Begins(tokens, <<"Month", "Number">>) /\ tokens[2].val \in 1..31)
    BY <1>2, NoAnswerAccounts DEF EvalMonthDay
<1> QED
    BY <1>1, <1>2

LEMMA EvalSelectorMonthAccounts ==
    ASSUME NEW T, NEW tokens \in Seq(T), NEW base
    PROVE  Accounts(EvalSelectorMonth(tokens, base), tokens)
<1>1. CASE Begins(tokens, <<"Selector", "Month">>)
    <2>1. PICK t : EvalSelectorMonth(tokens, base) = Reading(t, "relative", 2)
        BY <1>1 DEF EvalSelectorMonth
    <2>2. Knows(tokens, 2)
        BY <1>1, Begins2Knows
    <2> QED
        BY <2>1, <2>2, ReadingAccounts
<1>2. CASE ~(Begins(tokens, <<"Selector", "Month">>))
    BY <1>2, NoAnswerAccounts DEF EvalSelectorMonth
<1> QED
    BY <1>1, <1>2

LEMMA EvalSelectorUnitAccounts ==
    ASSUME NEW T, NEW tokens \in Seq(T), NEW base
    PROVE  Accounts(EvalSelectorUnit(tokens, base), tokens)
<1>1. CASE Begins(tokens, <<"Selector", "Unit">>) /\ tokens[2].val \in Periods
    <2>1. PICK t : EvalSelectorUnit(tokens, base) = Reading(t, "relative", 2)
        BY <1>1 DEF EvalSelectorUnit
    <2>2. Knows(tokens, 2)
        BY <1>1, Begins2Knows
    <2> QED
        BY <2>1, <2>2, ReadingAccounts
<1>2. CASE ~(Begins(tokens, <<"Selector", "Unit">>) /\ tokens[2].val \in Periods)
    BY <1>2, NoAnswerAccounts DEF EvalSelectorUnit
<1> QED
    BY <1>1, <1>2

LEMMA EvalBoundaryAccounts ==
    ASSUME NEW T, NEW tokens \in Seq(T), NEW base
    PROVE  Accounts(EvalBoundary(tokens, base), tokens)
<1>1. CASE Begins(tokens, <<"Boundary", "Of", "Unit">>) /\ tokens[3].val \in Periods
    <2>1. PICK t : EvalBoundary(tokens, base) = Reading(t, "relative", 3)
        BY <1>1 DEF EvalBoundary
    <2>2. Knows(tokens, 3)
        BY <1>1, Begins3Knows
    <2> QED
        BY <2>1, <2>2, ReadingAccounts
<1>2. CASE ~(Begins(tokens, <<"Boundary", "Of", "Unit">>) /\ tokens[3].val \in Periods)
    BY <1>2, NoAnswerAccounts DEF EvalBoundary
<1> QED
    BY <1>1, <1>2

LEMMA EvalBareWeekdayAccounts ==
    ASSUME NEW T, NEW tokens \in Seq(T), NEW base, NEW preferFuture
    PROVE  Accounts(EvalBareWeekday(tokens, base, preferFuture), tokens)
<1>1. CASE Len(tokens) = 1 /\ tokens[1].kind = "Weekday"
    <2>1. PICK t : EvalBareWeekday(tokens, base, preferFuture) = Reading(t, "relative", 1)
        BY <1>1 DEF EvalBareWeekday
    <2>2. Knows(tokens, 1)
        <3>1. \A i \in DOMAIN tokens : i <= 1 => i = 1
            OBVIOUS
        <3> QED
            BY <1>1, <3>1 DEF Knows
    <2> QED
        BY <2>1, <2>2, ReadingAccounts
<1>2. CASE ~(Len(tokens) = 1 /\ tokens[1].kind = "Weekday")
    BY <1>2, NoAnswerAccounts DEF EvalBareWeekday
<1> QED
    BY <1>1, <1>2

-----------------------------------------------------------------------------
\* A phrase with a token that is unknown has no answer.

LEMMA NoPatternAnswers ==
    ASSUME NEW T, NEW tokens \in Seq(T), HasUnknown(tokens), NEW base, NEW preferFuture
    PROVE  EvalPatterns(tokens, base, preferFuture) = NoAnswer
<1> DEFINE answers == <<EvalRelWord(tokens, base), EvalTimeOfDay(tokens, base),
                        EvalHalf(tokens, base), EvalCompoundNAgo(tokens, base),
                        EvalNAgo(tokens, base), EvalPrefixAgo(tokens, base),
                        EvalInN(tokens, base), EvalSelectorWeekday(tokens, base),
                        EvalMonthDay(tokens, base), EvalSelectorMonth(tokens, base),
                        EvalSelectorUnit(tokens, base), EvalBoundary(tokens, base),
                        EvalBareWeekday(tokens, base, preferFuture)>>
           whole == {i \in DOMAIN answers : IsWhole(answers[i], tokens)}
<1>1. DOMAIN answers = 1..13
    OBVIOUS
<1>2. \A i \in 1..13 : i \in {1, 2, 3, 4, 5, 6, 7, 8, 9, 10, 11, 12, 13}
    OBVIOUS
<1>3. \A a : Accounts(a, tokens) => ~IsWhole(a, tokens)
    BY UnknownIsNotWhole
<1>4. /\ Accounts(answers[1], tokens) /\ Accounts(answers[2], tokens)
      /\ Accounts(answers[3], tokens) /\ Accounts(answers[4], tokens)
      /\ Accounts(answers[5], tokens) /\ Accounts(answers[6], tokens)
      /\ Accounts(answers[7], tokens)
    BY EvalRelWordAccounts, EvalTimeOfDayAccounts, EvalHalfAccounts, EvalCompoundNAgoAccounts,
       EvalNAgoAccounts, EvalPrefixAgoAccounts, EvalInNAccounts
<1>5. /\ Accounts(answers[8], tokens) /\ Accounts(answers[9], tokens)
      /\ Accounts(answers[10], tokens) /\ Accounts(answers[11], tokens)
      /\ Accounts(answers[12], tokens) /\ Accounts(answers[13], tokens)
    BY EvalSelectorWeekdayAccounts, EvalMonthDayAccounts, EvalSelectorMonthAccounts,
       EvalSelectorUnitAccounts, EvalBoundaryAccounts, EvalBareWeekdayAccounts
<1>6. EvalPatterns(tokens, base, preferFuture) = IF whole = {} THEN NoAnswer ELSE answers[Min(whole)]
    BY DEF EvalPatterns
<1> HIDE DEF answers
<1>7. whole = {}
    BY <1>1, <1>2, <1>3, <1>4, <1>5
<1> QED
    BY <1>6, <1>7

LEMMA UnknownIsNoExpression ==
    ASSUME NEW T, NEW tokens \in Seq(T), HasUnknown(tokens), NEW base, NEW preferFuture
    PROVE  TryParse(tokens, base, preferFuture) = NoAnswer
<1>1. EvalPatterns(CollapseNumbers(tokens), base, preferFuture) = NoAnswer
    BY CollapseKeepsUnknown, NoPatternAnswers
<1> QED
    BY <1>1 DEF TryParse

LEMMA UnknownHasNoReading ==
    ASSUME NEW T, NEW tokens \in Seq(T), HasUnknown(tokens), NEW base, NEW preferFuture
    PROVE  ParseBothReadings(tokens, base, preferFuture) = NotAPhrase
<1> DEFINE read == [i \in 1..2 |->
                       TryParse(IF i = 1 THEN tokens ELSE SwapAlternates(tokens), base, preferFuture)]
<1>1. ParseBothReadings(tokens, base, preferFuture) = BothReadings(read)
    BY DEF ParseBothReadings
<1>2. read[1] = NoAnswer
    <2>1. read[1] = TryParse(tokens, base, preferFuture)
        OBVIOUS
    <2> HIDE DEF read
    <2> QED
        BY <2>1, UnknownIsNoExpression
<1> HIDE DEF read
<1>3. BothReadings(read) = NotAPhrase
    BY <1>2 DEF BothReadings
<1> QED
    BY <1>1, <1>3

\* Neither word is read by a locale, so with it the answer is English alone.
LEMMA NoLocaleReads ==
    ASSUME NEW n \in Nat, NEW s \in Seq(Writing), n = Len(s),
           NEW j \in 1..n, s[j] \in Strange, NEW p \in 1..n, j = p + 1, IsSpace(s[p]),
           NEW locales \in Seq(DOMAIN Tables), NEW base, NEW preferFuture
    PROVE  ParsePhrase(s, locales, base, preferFuture) = ParsePhrase(s, <<>>, base, preferFuture)
<1> DEFINE english == TryParse(Scan(s), base, preferFuture)
           local(ls) == [i \in DOMAIN ls |->
                            ParseBothReadings(ScanLocale(s, Tables[ls[i]]), base, preferFuture)]
<1>1. ASSUME NEW i \in DOMAIN locales
      PROVE  local(locales)[i] = NotAPhrase
    <2>1. PICK table : table = Tables[locales[i]]
        OBVIOUS
    <2>2. Legible(table)
        <3>1. locales[i] \in DOMAIN Tables
            OBVIOUS
        <3> QED
            BY <2>1, <3>1, PhrasesAssumption DEF Legible, Strange
    <2>3. \E T : ScanLocale(s, table) \in Seq(T)
        BY <2>2, ScanLocaleKeepsUnknown
    <2>4. HasUnknown(ScanLocale(s, table))
        BY <2>2, ScanLocaleKeepsUnknown DEF HasUnknown
    <2>5. ParseBothReadings(ScanLocale(s, table), base, preferFuture) = NotAPhrase
        BY <2>3, <2>4, UnknownHasNoReading
    <2> QED
        BY <2>1, <2>5
<1>2. \A ls : ParsePhrase(s, ls, base, preferFuture)
          = IF LengthOf(s) > MaxInputLen THEN NotAPhrase ELSE FirstReading(english, local(ls))
    BY DEF ParsePhrase
<1>3. DOMAIN local(locales) = DOMAIN locales /\ DOMAIN local(<<>>) = {}
    OBVIOUS
<1> HIDE DEF english, local
<1>4. {i \in DOMAIN local(locales) : local(locales)[i].ok} = {}
    <2>1. ~NotAPhrase.ok
        BY DEF NotAPhrase
    <2> QED
        BY <1>1, <1>3, <2>1
<1>5. {i \in DOMAIN local(<<>>) : local(<<>>)[i].ok} = {}
    BY <1>3
<1>6. FirstReading(english, local(locales)) = FirstReading(english, local(<<>>))
    BY <1>4, <1>5 DEF FirstReading
<1> QED
    BY <1>2, <1>6

\* The word of ASCII letters is not read in English either.
LEMMA EnglishReadsNoNonword ==
    ASSUME NEW s \in Seq(Writing), NEW j \in 1..Len(s), s[j] = Nonword,
           NEW base, NEW preferFuture
    PROVE  ParsePhrase(s, <<>>, base, preferFuture) = NotAPhrase
<1> DEFINE english == TryParse(Scan(s), base, preferFuture)
           local == [i \in DOMAIN <<>> |->
                        ParseBothReadings(ScanLocale(s, Tables[<<>>[i]]), base, preferFuture)]
<1>1. english = NoAnswer
    <2>1. \E T : Scan(s) \in Seq(T)
        BY ScanKeepsUnknown
    <2>2. HasUnknown(Scan(s))
        BY ScanKeepsUnknown DEF HasUnknown
    <2> QED
        BY <2>1, <2>2, UnknownIsNoExpression
<1>2. ParsePhrase(s, <<>>, base, preferFuture)
          = IF LengthOf(s) > MaxInputLen THEN NotAPhrase ELSE FirstReading(english, local)
    BY DEF ParsePhrase
<1>3. DOMAIN local = {}
    OBVIOUS
<1> HIDE DEF english, local
<1>4. FirstReading(english, local) = NotAPhrase
    BY <1>1, <1>3 DEF FirstReading
<1> QED
    BY <1>2, <1>4

\* A timestamp has no words.
LEMMA NoTimestampHolds ==
    ASSUME NEW s \in Seq(Writing), NEW j \in 2..Len(s), s[j].t \in {"word", "script"}
    PROVE  DetectEpoch(s) = NoInstant
<1> DEFINE neg == IsAt(s, 1, Byte("-"))
           digits == IF neg THEN Tail(s) ELSE s
           kinds == [i \in DOMAIN digits |-> digits[i].t]
<1>1. PICK k : k \in DOMAIN digits /\ digits[k].t \in {"word", "script"}
    <2> HIDE DEF neg
    <2>1. CASE neg
        <3>1. digits = Tail(s) /\ j - 1 \in DOMAIN Tail(s) /\ Tail(s)[j - 1] = s[j]
            BY <2>1
        <3> QED
            BY <3>1
    <2>2. CASE ~neg
        BY <2>2
    <2> QED
        BY <2>1, <2>2
<1>2. k \in DOMAIN kinds /\ kinds[k] \in {"word", "script"}
    <2> HIDE DEF digits
    <2> QED
        BY <1>1
<1>3. DetectEpoch(s) =
          CASE kinds = <<"num">> -> ParseInteger(neg, digits[1])
            [] kinds = <<"num", "byte", "num">> /\ IsAt(digits, 2, Byte(".")) ->
                   ParseFractional(neg, digits[1], digits[3])
            [] OTHER -> NoInstant
    BY DEF DetectEpoch
<1> HIDE DEF kinds, digits, neg
<1>4. kinds # <<"num">> /\ kinds # <<"num", "byte", "num">>
    BY <1>2
<1> QED
    BY <1>3, <1>4

-----------------------------------------------------------------------------
\* The word stands where it was put, after a space.

LEMMA Inserted ==
    ASSUME NEW X, NEW a \in Seq(X), NEW b \in Seq(X), NEW x \in X, NEW y \in X, NEW z \in X
    PROVE  LET s == a \o <<x, y, z>> \o b
           IN  /\ s \in Seq(X) /\ Len(a) + 1 \in 1..Len(s) /\ Len(a) + 2 \in 1..Len(s)
               /\ s[Len(a) + 1] = x /\ s[Len(a) + 2] = y
<1> DEFINE m == <<x, y, z>>
           c == a \o m
<1>1. m \in Seq(X) /\ Len(m) = 3 /\ m[1] = x /\ m[2] = y
    OBVIOUS
<1> HIDE DEF m
<1>2. c \in Seq(X) /\ Len(c) = Len(a) + 3 /\ c[Len(a) + 1] = x /\ c[Len(a) + 2] = y
    <2>1. c \in Seq(X) /\ Len(c) = Len(a) + Len(m)
        BY <1>1, ConcatProperties
    <2>2. PICK k \in Nat : k = Len(a)
        OBVIOUS
    <2>3. \A i \in 1..(k + Len(m)) : c[i] = IF i <= k THEN a[i] ELSE m[i - k]
        BY <1>1, <2>2, ConcatProperties
    <2>4. k + 1 \in 1..(k + 3) /\ ~(k + 1 <= k) /\ k + 1 - k = 1
          /\ k + 2 \in 1..(k + 3) /\ ~(k + 2 <= k) /\ k + 2 - k = 2
        OBVIOUS
    <2> HIDE DEF c
    <2>5. c[k + 1] = m[1] /\ c[k + 2] = m[2]
        BY <1>1, <2>3, <2>4
    <2> QED
        BY <1>1, <2>1, <2>2, <2>5
<1> HIDE DEF c
<1>3. PICK k \in Nat : k = Len(a)
    OBVIOUS
<1>4. c \o b \in Seq(X) /\ Len(c \o b) = Len(c) + Len(b) /\ Len(b) \in Nat
    BY <1>2
<1>5. \A i \in 1..Len(c) : (c \o b)[i] = c[i]
    BY <1>2
<1>6. k + 1 \in 1..Len(c) /\ k + 2 \in 1..Len(c)
    BY <1>2, <1>3
<1> QED
    BY <1>2, <1>3, <1>4, <1>5, <1>6 DEF c, m

LEMMA StrangeIsWriting == Byte(" ") \in Writing /\ Strange \subseteq Writing /\ IsSpace(Byte(" "))
<1>1. \A c \in Spellings : Byte(c) \in Writing
    BY DEF Byte, Writing
<1>2. \A c \in Spellings : Word(c, 5) \in Writing /\ Script(c, 10) \in Writing
    BY DEF Word, Script, Writing
<1>3. " " \in Spellings /\ "xyzzy" \in Spellings
    BY Zenon DEF Spellings
<1>4. Strange \subseteq Writing
    BY <1>2, <1>3, Zenon DEF Strange, Nonword, Foreign
<1>5. IsSpace(Byte(" "))
    BY Zenon DEF IsSpace
<1> QED
    BY <1>1, <1>3, <1>4, <1>5, Zenon

\* The phrase asked, with the word put in, and where the word stands.
LEMMA WithIsWritten ==
    ASSUME asked.ask.phrase.text \in Seq(Writing), NEW word \in Strange,
           NEW i \in 0..Len(asked.ask.phrase.text)
    PROVE  LET s == With(word, i)
           IN  /\ s \in Seq(Writing)
               /\ \E p \in 1..Len(s) : /\ IsSpace(s[p])
                                       /\ p + 1 \in 2..Len(s) /\ s[p + 1] = word
<1> DEFINE text == asked.ask.phrase.text
           a == SubSeq(text, 1, i)
           b == SubSeq(text, i + 1, Len(text))
           s == With(word, i)
<1>1. a \in Seq(Writing) /\ b \in Seq(Writing)
    OBVIOUS
<1>2. PICK space : space = Byte(" ")
    OBVIOUS
<1>3. space \in Writing /\ word \in Writing /\ IsSpace(space)
    BY <1>2, StrangeIsWriting
<1>4. s = a \o <<space, word, space>> \o b
    BY <1>2, Zenon DEF With
<1> HIDE DEF a, b, s
<1>5. /\ s \in Seq(Writing) /\ Len(a) + 1 \in 1..Len(s) /\ Len(a) + 2 \in 1..Len(s)
      /\ s[Len(a) + 1] = space /\ s[Len(a) + 2] = word
    BY <1>1, <1>3, <1>4, Inserted
<1>6. PICK p \in Nat : p = Len(a) + 1 /\ p + 1 = Len(a) + 2
    BY <1>1
<1>7. p \in 1..Len(s) /\ p + 1 \in 2..Len(s) /\ IsSpace(s[p]) /\ s[p + 1] = word
    BY <1>3, <1>5, <1>6
<1> QED
    BY <1>5, <1>7 DEF s

\* With either word the phrase is none of the locales', and no timestamp.
LEMMA StrangeIsEnglish ==
    ASSUME asked.ask.phrase.text \in Seq(Writing), NEW word \in Strange,
           NEW i \in 0..Len(asked.ask.phrase.text),
           NEW cfg, cfg.locales \in Seq(DOMAIN Tables), NEW base
    PROVE  /\ FallBack(With(word, i), cfg, base) = FallBack(With(word, i), InEnglish(cfg), base)
           /\ FallBack(With(word, i), cfg, base)
                  = Reported(ParsePhrase(With(word, i), <<>>, base, cfg.future), cfg.strict)
<1> DEFINE s == With(word, i)
<1>1. s \in Seq(Writing)
    BY WithIsWritten
<1>2. PICK p \in 1..Len(s) : IsSpace(s[p]) /\ p + 1 \in 2..Len(s) /\ s[p + 1] = word
    BY WithIsWritten
<1> HIDE DEF s
<1>3. PICK n \in Nat : n = Len(s)
    BY <1>1
<1>4. p \in 1..n /\ p + 1 \in 1..n
    BY <1>2, <1>3
<1>5. ~DetectEpoch(s).ok
    <2>1. word.t \in {"word", "script"}
        BY StrangeIsNone DEF Strange
    <2>2. DetectEpoch(s) = NoInstant
        BY <1>1, <1>2, <2>1, NoTimestampHolds
    <2> QED
        BY <2>2 DEF NoInstant
<1>6. ParsePhrase(s, cfg.locales, base, cfg.future) = ParsePhrase(s, <<>>, base, cfg.future)
    BY <1>1, <1>2, <1>3, <1>4, NoLocaleReads
<1>7. FallBack(s, cfg, base) = Reported(ParsePhrase(s, <<>>, base, cfg.future), cfg.strict)
    BY <1>5, <1>6 DEF FallBack, FallBackPhrase
<1>8. FallBack(s, InEnglish(cfg), base) = Reported(ParsePhrase(s, <<>>, base, cfg.future), cfg.strict)
    BY <1>5 DEF FallBack, FallBackPhrase, InEnglish
<1> QED
    BY <1>7, <1>8 DEF s

\* With the word of ASCII letters it is no phrase of English either.
LEMMA NonwordIsRefused ==
    ASSUME asked.ask.phrase.text \in Seq(Writing), NEW i \in 0..Len(asked.ask.phrase.text),
           NEW cfg, cfg.locales \in Seq(DOMAIN Tables), NEW base
    PROVE  ~FallBack(With(Nonword, i), cfg, base).ok
<1>1. Nonword \in Strange
    BY DEF Strange
<1>2. ParsePhrase(With(Nonword, i), <<>>, base, cfg.future) = NotAPhrase
    <2>1. PICK s : s = With(Nonword, i)
        OBVIOUS
    <2>2. s \in Seq(Writing) /\ \E p \in 1..Len(s) : p + 1 \in 2..Len(s) /\ s[p + 1] = Nonword
        BY <1>1, <2>1, WithIsWritten
    <2>3. PICK j \in 1..Len(s) : s[j] = Nonword
        BY <2>2
    <2>4. ParsePhrase(s, <<>>, base, cfg.future) = NotAPhrase
        BY <2>2, <2>3, EnglishReadsNoNonword
    <2> QED
        BY <2>1, <2>4
<1>3. FallBack(With(Nonword, i), cfg, base) = Reported(NotAPhrase, cfg.strict)
    BY <1>1, <1>2, StrangeIsEnglish
<1> QED
    BY <1>3 DEF Reported, NotAPhrase, NotRead

-----------------------------------------------------------------------------
\* The phrases asked are those of Asks.
AskedIsAnAsk == IsPhrase => asked.ask \in Asks

LEMMA AskedIsAnAskAlways == FallbackSpec => []AskedIsAnAsk
<1>1. FallbackInit => AskedIsAnAsk
    BY DEF FallbackInit, AskedIsAnAsk, IsPhrase, Unasked
<1>2. AskedIsAnAsk /\ [FallbackNext]_fallbackVars => AskedIsAnAsk'
    <2> SUFFICES ASSUME AskedIsAnAsk, [FallbackNext]_fallbackVars
                 PROVE  AskedIsAnAsk'
        OBVIOUS
    <2>1. CASE GoOn
        BY <2>1 DEF GoOn, AskedIsAnAsk, IsPhrase, Unasked
    <2>2. CASE Ask
        <3>1. PICK ask \in Asks : \E clock, answer : asked' = [what |-> "phrase", ask |-> ask, clock |-> clock, answer |-> answer]
            BY <2>2 DEF Ask, AskedOf
        <3> QED
            BY <3>1 DEF AskedIsAnAsk
    <2>3. CASE AskTomorrow
        <3>1. \E clock, answer : asked' = [what |-> "phrase", ask |-> asked.ask, clock |-> clock, answer |-> answer]
            BY <2>3 DEF AskTomorrow, AskedOf
        <3>2. asked'.ask = asked.ask /\ asked.what = "phrase"
            BY <2>3, <3>1 DEF AskTomorrow
        <3> QED
            BY <3>2 DEF AskedIsAnAsk, IsPhrase
    <2>4. ASSUME NEW what, what # "phrase", NEW n, NEW answer, AskNumber(what, n, answer)
          PROVE  AskedIsAnAsk'
        BY <2>4 DEF AskNumber, AskedIsAnAsk, IsPhrase
    <2>5. CASE AskWritten
        <3>1. \E n, answer : AskNumber("written", n, answer)
            BY <2>5 DEF AskWritten
        <3> QED
            BY <2>4, <3>1
    <2>6. CASE AskTyped
        <3>1. \E n, answer : AskNumber("typed", n, answer)
            BY <2>6 DEF AskTyped
        <3> QED
            BY <2>4, <3>1
    <2>7. CASE AskFloat
        <3>1. \E n, answer : AskNumber("float", n, answer)
            BY <2>7 DEF AskFloat
        <3> QED
            BY <2>4, <3>1
    <2>8. CASE UNCHANGED fallbackVars
        BY <2>8 DEF fallbackVars, AskedIsAnAsk, IsPhrase
    <2> QED
        BY <2>1, <2>2, <2>3, <2>5, <2>6, <2>7, <2>8 DEF FallbackNext
<1> QED
    BY <1>1, <1>2, PTL DEF FallbackSpec

\* Wherever a word of ASCII letters that no language has stands in a phrase that
\* is asked, the phrase is refused; and wherever one in another script stands that
\* no table of the caller's locales lists, what English alone makes of it is the
\* answer (Scan, ScanLocale, Eval, isWhole).
THEOREM WholeInputReadAlways == FallbackSpec => []WholeInputRead
<1>1. AskedIsAnAsk => WholeInputRead
    <2>1. SUFFICES ASSUME IsPhrase, asked.ask \in Asks,
                          NEW i \in 0..Len(asked.ask.phrase.text),
                          NEW word \in Strange,
                          NEW a \in AnswersWith(word, i), NEW b \in AnswersWith(word, i)
                   PROVE  a = b /\ (word = Nonword => ~a.ok)
        BY DEF AskedIsAnAsk, WholeInputRead, Strange
    <2>2. /\ asked.ask.phrase.text \in Seq(Writing)
          /\ asked.ask.cfg.locales \in Seq(DOMAIN Tables)
        BY <2>1, PhrasesAssumption
    <2>3. FallBack(With(word, i), asked.ask.cfg, Base)
              = FallBack(With(word, i), InEnglish(asked.ask.cfg), Base)
        BY <2>2, StrangeIsEnglish
    <2>4. /\ a = FallBack(With(word, i), asked.ask.cfg, Base)
          /\ b = FallBack(With(word, i), asked.ask.cfg, Base)
        BY <2>3 DEF AnswersWith
    <2>5. ~FallBack(With(Nonword, i), asked.ask.cfg, Base).ok
        BY <2>2, NonwordIsRefused
    <2> QED
        BY <2>4, <2>5
<1> QED
    BY <1>1, AskedIsAnAskAlways, PTL

=============================================================================
