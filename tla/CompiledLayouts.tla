--------------------------- MODULE CompiledLayouts ---------------------------
(***************************************************************************)
(* Programs compiled from Go layouts (compile.go), given what time.Format  *)
(* writes under the same layout and texts a byte away from it.             *)
(***************************************************************************)
EXTENDS Program, GoFormat

CONSTANTS
    Layouts,  \* the Go layouts, by a name
    Times,    \* the times written under each layout and each entry
    Noise     \* the bytes that may stand for another

Texts == [l \in DOMAIN Layouts |-> [tm \in Times |-> Format(Layouts[l], tm)]]

CompiledDefs == [l \in DOMAIN Layouts |-> ParseGoLayout(Layouts[l])]

\* One byte replaced, the last one lost, or one more.
Near(text) ==
    {[text EXCEPT ![i] = b] : i \in DOMAIN text, b \in Noise}
        \cup {Front(text)} \cup {Append(text, b) : b \in Noise}

NearTexts == [l \in DOMAIN Layouts |->
                 UNION {{Texts[l][tm]} \cup Near(Texts[l][tm]) : tm \in Times}]

InstantOf(tm) ==
    Instant(DaysFromCivil(tm.year, tm.month, tm.day),
            tm.hour * 3600 + tm.minute * 60 + tm.second, tm.nsec, tm.zone)

-----------------------------------------------------------------------------
\* Where an input is what the layout literally describes, the answer is the time
\* that was written (compile.go:15, "it agrees with time.Parse(layout, value)").
AgreesWithTimeParse ==
    stage = "answered" /\ def \in DOMAIN Layouts =>
        \A tm \in Times :
            input = Texts[def][tm] => outcome = InstantOf(Said(Layouts[def], tm))

=============================================================================
