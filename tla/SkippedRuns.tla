----------------------------- MODULE SkippedRuns -----------------------------
(***************************************************************************)
(* What no field of a detected format reads, cut into skips that say which *)
(* bytes may stand there (internal/compile/instructions.go SkipRun,        *)
(* internal/detect/detect.go coverGaps).                                   *)
(***************************************************************************)
EXTENDS Instructions, SequencesExt

\* Mutant of PieceAux: any byte that is not a digit stands for another.
PieceAuxLoose(c) == IF IsDigit(c) THEN NoAux ELSE "Any"

\* What may stand for a piece of a run that starts with c: words for words,
\* opaque bytes for opaque bytes, anything else only itself, and no digit.
PieceAux(c) ==
    CASE IsDigit(c)         -> NoAux
      [] c \in Class.Alpha  -> "Words"
      [] c \in Class.Opaque -> "Opaque"
      [] OTHER              -> c

InPiece(c, b) == IF IsDigit(c) THEN IsDigit(b) ELSE LitAccepts(PieceAux(c), b)

\* Mutant of PieceEnd: a run is one piece, whatever it holds.
PieceEndWhole(s, off, end) == end

\* Where the piece that starts at off stops.
PieceEnd(s, off, end) ==
    Min({e \in (off + 1)..end : e = end \/ ~InPiece(ByteAt(s, off), ByteAt(s, e))})

SkipRun(s, off, end) ==
    Field("Skip", off, PieceEnd(s, off, end) - off, PieceAux(ByteAt(s, off)))

\* As many skips as describe the bytes from off to end.
Skips(s, off, end) ==
    LET from[i \in off..end] ==
            IF i = end THEN <<>> ELSE <<SkipRun(s, i, end)>> \o from[PieceEnd(s, i, end)]
    IN  from[off]

Covered(fields) ==
    UNION {fields[i].offset..(fields[i].offset + DeclaredWidth(fields[i]) - 1) :
              i \in DOMAIN fields}

\* The first byte past off that is covered, or the end of s.
GapEnd(s, off, covered) ==
    Min({e \in (off + 1)..Len(s) : e = Len(s) \/ e \in covered})

\* The skips of every run of bytes that no field reads, from the left.
GapSkips(s, covered) ==
    LET from[i \in 0..Len(s)] ==
            IF i = Len(s) THEN <<>>
            ELSE IF i \in covered THEN from[i + 1]
            ELSE Skips(s, i, GapEnd(s, i, covered)) \o from[GapEnd(s, i, covered)]
    IN  from[0]

SortByOffset(fields) == SortSeq(fields, LAMBDA a, b : a.offset < b.offset)

\* Mutant of CoverGaps: the skips stay behind the fields.
CoverGapsUnsorted(fields, s) == fields \o GapSkips(s, Covered(fields))

\* Fields and skips in the order of the input, which is what the executor's
\* running delta assumes.
CoverGaps(fields, s) == SortByOffset(fields \o GapSkips(s, Covered(fields)))

=============================================================================
