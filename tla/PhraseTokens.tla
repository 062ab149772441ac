---------------------------- MODULE PhraseTokens ----------------------------
(***************************************************************************)
(* The two scanners of natural language: English, and a locale's table of  *)
(* phrases (internal/natural/scanner.go).  A text is a sequence of the     *)
(* digit runs, words and bytes of Layouts, in lower case, and of words in  *)
(* another script.  A word is of ASCII letters, the only ones that English *)
(* has, and has one spelling for each thing it can mean.                   *)
(***************************************************************************)
EXTENDS Layouts, SequencesExt

\* A token is a kind, a value, the text it was read from and, when its locale
\* lists that text under two meanings of the kind, the other value.
Token(kind, val, raw) == [kind |-> kind, val |-> val, raw |-> raw, alt |-> <<>>]

Unknown(raw) == Token("Unknown", 0, raw)

\* A word of letters that foldAccents leaves outside ASCII, w bytes long.
Script(c, w) == [t |-> "script", v |-> 0, w |-> w, c |-> c]

IsSpace(tok) == tok \in {Byte(" "), Byte(",")}

-----------------------------------------------------------------------------
\* Words.

Weekdays == <<"sunday", "monday", "tuesday", "wednesday", "thursday", "friday", "saturday">>
MonthNames == <<"january", "february", "march", "april", "may", "june", "july",
                "august", "september", "october", "november", "december">>

Units == {"second", "minute", "hour", "day", "week", "month", "year"}
RelWords == {"now", "today", "yesterday", "tomorrow", "tonight"}
Selectors == {"last", "next", "this"}

\* The numbers that are words, the article "a" among them.
NumberWords == [a |-> 1, one |-> 1, two |-> 2, few |-> 3, twelve |-> 12, thirty |-> 30]

\* The hour each part of a day begins at.
PartsOfDay == [morning |-> 8, afternoon |-> 14, evening |-> 18, night |-> 21]

Structural == [of |-> "Of", at |-> "At", noon |-> "Noon", midnight |-> "Midnight",
               half |-> "Half", and |-> "And"]

PlaceOf(c, names) == CHOOSE i \in DOMAIN names : names[i] = c

ClassifyWord(raw) ==
    LET c == raw[1].c
    IN  CASE c \in RelWords           -> Token("RelWord", c, raw)
          [] c \in {"ago", "in"}      -> Token("Direction", c, raw)
          [] c \in Selectors          -> Token("Selector", c, raw)
          [] c \in Units              -> Token("Unit", c, raw)
          [] c \in ToSet(Weekdays)    -> Token("Weekday", PlaceOf(c, Weekdays) - 1, raw)
          [] c \in ToSet(MonthNames)  -> Token("Month", PlaceOf(c, MonthNames), raw)
          [] c \in {"start", "end"}   -> Token("Boundary", c, raw)
          [] c \in {"am", "pm"}       -> Token("AMPM", c, raw)
          [] c \in DOMAIN PartsOfDay  -> Token("TimeOfDay", PartsOfDay[c], raw)
          [] c \in DOMAIN Structural  -> Token(Structural[c], 0, raw)
          [] c \in DOMAIN NumberWords -> Token("Number", NumberWords[c], raw)
          [] OTHER                    -> Unknown(raw)

-----------------------------------------------------------------------------
\* Numbers.  Scanned(tok, next): the token read, and where reading goes on.

Scanned(tok, next) == [tok |-> tok, next |-> next]

\* Mutant of MaxQuantityDigits: one digit more, which an hour count overflows.
OneDigitMore == 7

\* Six digits of hours are the most whose nanoseconds an int64 holds.
MaxQuantityDigits == 6

IsAt(s, i, tok) == i \in DOMAIN s /\ s[i] = tok

\* The meridiem written at i, if any.
MeridiemAt(s, i) == CASE IsAt(s, i, Word("am", 2)) -> "am"
                      [] IsAt(s, i, Word("pm", 2)) -> "pm"
                      [] OTHER -> "none"

IsTimePattern(s, i) ==
    /\ IsAt(s, i + 1, Byte(":"))
    /\ i + 2 \in DOMAIN s /\ s[i + 2].t = "num" /\ s[i + 2].w = 2
    /\ s[i].v <= 23 /\ s[i + 2].v <= 59

IsOrdinalSuffix(s, i) == \E c \in {"st", "nd", "rd", "th"} : IsAt(s, i, Word(c, 2))

\* The minutes since midnight of s[i..last].  An hour with a meridiem and no
\* minutes is not bounded.
TimeRead(s, i, minute, meridiem, last) ==
    Scanned(Token("Time", 60 * ApplyAMPM(s[i].v, meridiem) + minute, SubSeq(s, i, last)), last + 1)

NumberRead(s, i, last) == Scanned(Token("Number", s[i].v, SubSeq(s, i, last)), last + 1)

ScanNumber(s, i) ==
    CASE s[i].w > MaxQuantityDigits -> Scanned(Unknown(<<s[i]>>), i + 1)
      [] s[i].w <= MaxQuantityDigits /\ IsTimePattern(s, i) ->
             TimeRead(s, i, s[i + 2].v, MeridiemAt(s, i + 3),
                      IF MeridiemAt(s, i + 3) = "none" THEN i + 2 ELSE i + 3)
      [] s[i].w <= MaxQuantityDigits /\ MeridiemAt(s, i + 1) # "none" ->
             TimeRead(s, i, 0, MeridiemAt(s, i + 1), i + 1)
      [] s[i].w <= MaxQuantityDigits /\ ~IsTimePattern(s, i) /\ MeridiemAt(s, i + 1) = "none" ->
             NumberRead(s, i, IF IsOrdinalSuffix(s, i + 1) THEN i + 1 ELSE i)

-----------------------------------------------------------------------------
\* The English scanner.

\* The end of the spaces that begin at i.
SpacesEnd(s, i) ==
    IF \E j \in i..Len(s) : s[j] # Byte(" ")
    THEN Min({j \in i..Len(s) : s[j] # Byte(" ")}) ELSE Len(s) + 1

IsFromNow(s, i) == s[i] = Word("from", 4) /\ IsAt(s, SpacesEnd(s, i + 1), Word("now", 3))

ScanWord(s, i) ==
    LET now == SpacesEnd(s, i + 1)
    IN  IF IsFromNow(s, i)
        THEN Scanned(Token("Direction", "from now", SubSeq(s, i, now)), now + 1)
        ELSE Scanned(ClassifyWord(<<s[i]>>), i + 1)

\* What begins neither a word of ASCII letters nor a number: a byte, or a word in
\* another script, of which the scanner skips every byte.
IsPassedOver(tok) == tok.t \in {"byte", "script"}

Scan(s) ==
    LET from[i \in 1..(Len(s) + 1)] ==
            IF i > Len(s) THEN <<>>
            ELSE IF IsPassedOver(s[i]) THEN from[i + 1]
            ELSE LET r == IF s[i].t = "num" THEN ScanNumber(s, i) ELSE ScanWord(s, i)
                 IN  <<r.tok>> \o from[r.next]
    IN  from[1]

-----------------------------------------------------------------------------
\* A locale's phrases: [phrase, kind, val], in the order the data lists them.

Phrase(text, kind, val) == [phrase |-> text, kind |-> kind, val |-> val]

\* Mutant of OtherMeaning: a phrase has the meaning listed first.
NoOtherMeaning(table, i) == <<>>

\* The first other value of the same phrase and kind.
OtherMeaning(table, i) ==
    LET others == {j \in DOMAIN table : table[j].phrase = table[i].phrase
                      /\ table[j].kind = table[i].kind /\ table[j].val # table[i].val}
    IN  IF others = {} THEN <<>> ELSE <<table[Min(others)].val>>

IsListedFirst(table, i) ==
    \A j \in 1..(i - 1) : table[j].phrase # table[i].phrase \/ table[j].kind # table[i].kind

\* Two meanings of different kinds are settled by the kind.
KindRank(kind) == CASE kind = "Unit"     -> 0
                    [] kind = "Selector" -> 1
                    [] kind = "Weekday"  -> 2
                    [] kind = "RelWord"  -> 3
                    [] OTHER             -> 4

\* Digits, and letters of any script.
IsWordToken(s, i) == i \in DOMAIN s /\ s[i].t # "byte"

\* The entries that stand at i as words of their own.
Matching(s, i, table) ==
    {j \in DOMAIN table :
        LET last == i + Len(table[j].phrase) - 1
        IN  /\ IsListedFirst(table, j)
            /\ last <= Len(s) /\ SubSeq(s, i, last) = table[j].phrase
            /\ ~IsWordToken(s, last + 1) /\ ~IsWordToken(s, i - 1)}

\* Longer phrases are tried first, and then by kind.
Preferred(p, q) ==
    \/ Len(p.phrase) > Len(q.phrase)
    \/ Len(p.phrase) = Len(q.phrase) /\ KindRank(p.kind) <= KindRank(q.kind)

BestMatch(s, i, table) ==
    CHOOSE j \in Matching(s, i, table) :
        \A k \in Matching(s, i, table) : Preferred(table[j], table[k])

ScanPhrase(s, i, table) ==
    LET j    == BestMatch(s, i, table)
        last == i + Len(table[j].phrase) - 1
    IN  Scanned([Token(table[j].kind, table[j].val, SubSeq(s, i, last)) EXCEPT
                    !.alt = OtherMeaning(table, j)], last + 1)

\* What no phrase and no number begins runs to the next space or digit.
ScanUnknown(s, i) ==
    LET ends == {j \in i..Len(s) : IsSpace(s[j]) \/ s[j].t = "num"}
        next == IF ends = {} THEN Len(s) + 1 ELSE Min(ends)
    IN  Scanned(Unknown(SubSeq(s, i, next - 1)), next)

ScanLocale(s, table) ==
    LET from[i \in 1..(Len(s) + 1)] ==
            IF i > Len(s) THEN <<>>
            ELSE IF IsSpace(s[i]) THEN from[i + 1]
            ELSE LET r == CASE Matching(s, i, table) # {} -> ScanPhrase(s, i, table)
                            [] Matching(s, i, table) = {} /\ s[i].t = "num" -> ScanNumber(s, i)
                            [] Matching(s, i, table) = {} /\ s[i].t # "num" -> ScanUnknown(s, i)
                 IN  <<r.tok>> \o from[r.next]
    IN  from[1]

=============================================================================
