---------------------------- MODULE TriePrograms ----------------------------
(***************************************************************************)
(* The programs of the trie's entries, given every spelling that their     *)
(* signatures take, and texts a byte away from one.                        *)
(***************************************************************************)
EXTENDS CompiledLayouts, TrieFormats, GoParse

TrieDefs == [n \in DOMAIN Entries |-> EntryFields(Entries[n])]

\* The piece of a Go layout under which time.Format writes a fraction whole.
FormatPiece(t) ==
    CASE t = ",000" -> ".000" [] t = ".999999999" -> ".000000000" [] OTHER -> t

WrittenUnder(t, tm) ==
    CASE t = ",000" -> <<",">> \o Tail(Written(".000", tm))
      [] t = "MST"  -> <<"P", "S", "T">>
      [] OTHER      -> Written(FormatPiece(t), tm)

Text(entry, tm) == FlattenSeq([k \in DOMAIN entry.pieces |-> WrittenUnder(entry.pieces[k], tm)])

EntryTexts == [n \in DOMAIN Entries |-> [tm \in Times |-> Text(Entries[n], tm)]]

\* The offsets of the separators an entry has, the dot of a fraction among them.
Separators(n) == {f.offset : f \in {g \in ToSet(TrieDefs[n]) : g.op = "Literal"}}

SepBytes == [S |-> Class.Sep, W |-> Class.Space, C |-> {":"}, X |-> Class.Special]

\* The offsets of the meridiem an entry has.
Meridiem(n) ==
    UNION {f.offset..(f.offset + 1) : f \in {g \in ToSet(TrieDefs[n]) : g.op = "AMPM"}}

LowerCase == [A |-> "a", P |-> "p", M |-> "m"]

\* The bytes that may stand at i in a spelling of the text.
Options(n, text, i) ==
    CASE i - 1 \in Separators(n) -> SepBytes[Entries[n].sig[i]]
      [] i - 1 \in Meridiem(n)   -> {text[i], LowerCase[text[i]]}
      [] OTHER                   -> {text[i]}

SpellingsOf(n, text) ==
    FoldLeft(LAMBDA spelled, i : {Append(s, b) : s \in spelled, b \in Options(n, text, i)},
             {<<>>}, [i \in DOMAIN text |-> i])

SpelledTexts ==
    [n \in DOMAIN Entries |-> UNION {SpellingsOf(n, EntryTexts[n][tm]) : tm \in Times}]

\* Any one byte of a text replaced.
NoisyTexts ==
    [n \in DOMAIN Entries |->
        {[EntryTexts[n][tm] EXCEPT ![i] = b] :
            tm \in Times, i \in 1..Len(Entries[n].sig), b \in Noise}]

TrieInputs == [n \in DOMAIN Entries |-> SpelledTexts[n] \cup NoisyTexts[n]]

ZoneSaidBy(pieces, tm) ==
    CASE Writes(pieces, {"Z"})   -> 0
      [] Writes(pieces, {"MST"}) -> -480
      [] OTHER                   -> ZoneSaid(pieces, tm.zone)

\* What the text of tm says under an entry.
InstantSaid(pieces, tm) ==
    LET said == Said([k \in DOMAIN pieces |-> FormatPiece(pieces[k])], tm)
    IN  Instant(DaysFromCivil(said.year, said.month, said.day),
                said.hour * 3600 + said.minute * 60 + said.second, said.nsec,
                ZoneSaidBy(pieces, tm))

SpellsTime(s, tm) ==
    /\ Len(s) = Len(EntryTexts[def][tm])
    /\ \A i \in DOMAIN s : s[i] \in Options(def, EntryTexts[def][tm], i)

InCapitals(s) == \A off \in Meridiem(def) : ByteAt(s, off) \in DOMAIN LowerCase

\* A layout's own "Z" is a byte, and what has no zone is in UTC.
InUTC(zone) == IF zone = NoZone THEN 0 ELSE zone

SameInstant(a, b) == [a EXCEPT !.zone = InUTC(@)] = [b EXCEPT !.zone = InUTC(@)]

-----------------------------------------------------------------------------
\* An entry's program reads what its signature matched: whatever bytes of their
\* classes stand for the separators, the time that is written is the answer
\* (instructions.go:301, "a literal that refuses a byte Scan classified refuses an
\* input detection accepted").
EntryReadsItsSpellings ==
    stage = "answered" /\ def \in DOMAIN Entries =>
        \A tm \in Times :
            SpellsTime(input, tm) /\ Matches(Entries[def], input)
                => outcome = InstantSaid(Entries[def].pieces, tm)


=============================================================================
