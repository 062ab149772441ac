---------------------------- MODULE ProgramProofs ----------------------------
(***************************************************************************)
(* Theorems about compiled programs, for every set of formats and inputs.  *)
(*                                                                         *)
(* An accepted input is described byte for byte for one reason where it is *)
(* read in order and for another where it is read by a plan.  In order, an *)
(* instruction never starts before the last one ended, so the bytes read   *)
(* are as many as the widths add up to and lie before the furthest end;    *)
(* both at the input's length leave none out.  By a plan, the slots tile   *)
(* the width, and the one field that may be narrower than its slot is the  *)
(* last.                                                                   *)
(*                                                                         *)
(* Programs mean what their formats say.  Walk reads a format's fields one *)
(* after another.  It can walk a program's instructions as well, and       *)
(* emitting one instruction after another keeps that walk alike to the one *)
(* of the fields looked at so far: equal to it, or refused with it.  The   *)
(* interpreter is where the walk of its instructions is, since declared    *)
(* offsets plus the running delta are the ends of the fields before.  The  *)
(* slots of a plan stand one after another too, set a register each, and   *)
(* may be narrower only at the end.                                        *)
(***************************************************************************)
EXTENDS Program, Induction, TLAPS, FiniteSetTheorems, SequenceTheorems, WellFoundedInduction

\* What a field may carry, and the separator a fused one does.
Auxes == {"Any"} \cup UNION {{Defs[d][i].aux : i \in 1..Len(Defs[d])} : d \in DOMAIN Defs}

Insts == [op : Kinds, offset : Nat, len : Nat, aux : Auxes]

\* A format is a sequence of fields, and a field has an instruction's shape.
LEMMA FieldsAreInsts ==
    ASSUME NEW d \in DOMAIN Defs
    PROVE  Defs[d] \in Seq(Insts)
<1>1. IsFormat(Defs[d])
    BY FormatsAssumption
<1>2. \A i \in 1..Len(Defs[d]) : Defs[d][i] \in Insts
    <2>1. SUFFICES ASSUME NEW i \in 1..Len(Defs[d])
                   PROVE  Defs[d][i] \in Insts
        OBVIOUS
    <2>2. IsField(Defs[d][i])
        BY <1>1 DEF IsFormat
    <2>3. Defs[d][i].aux \in Auxes
        BY DEF Auxes
    <2> QED
        BY <2>2, <2>3 DEF IsField, Field, Insts
<1>3. Defs[d] = [i \in 1..Len(Defs[d]) |-> Defs[d][i]] /\ Len(Defs[d]) \in Nat
    BY <1>1 DEF IsFormat
<1> QED
    BY <1>2, <1>3

\* An input is a string of bytes.
LEMMA InputsAreText ==
    ASSUME NEW d \in DOMAIN Defs, NEW s \in Inputs[d]
    PROVE  s \in Seq(Alphabet)
BY FormatsAssumption

-----------------------------------------------------------------------------
\* A number accounts for the bytes it is said to account for.
LEMMA NumberWidth ==
    ASSUME NEW kind, NEW s, NEW off, NEW n, NEW w, ReadNumber(kind, s, off, n, w).ok
    PROVE  ReadNumber(kind, s, off, n, w).w = w
BY DEF ReadNumber, NoRead, Got

\* So does one padded with a space.
LEMMA SpacePadWidth ==
    ASSUME NEW kind, NEW s, NEW off, NEW w, ReadSpacePad(kind, s, off, w).ok
    PROVE  ReadSpacePad(kind, s, off, w).w = w
BY NumberWidth DEF ReadSpacePad

\* A field of fixed numeric width is that wide, and its separator one more.
LEMMA FusibleWidth ==
    ASSUME NEW f, f.op \in Fusible
    PROVE  Width(f) = NumericWidth(f.op) + SeparatorWidth(f.aux)
<1>1. DeclaredWidth(f) = FixedWidth(f.op)
    BY DEF DeclaredWidth, FixedKinds
<1>2. FixedWidth(f.op) = NumericWidth(f.op)
    BY DEF FixedWidth, Fusible
<1> QED
    BY <1>1, <1>2 DEF Width

\* A numeric instruction reads its digits and its separator, no more and no fewer.
LEMMA NumericReadWidth ==
    ASSUME NEW inst \in Insts, inst.op \in Fusible, NEW s, NEW off,
           ReadNumeric(inst, s, off).ok
    PROVE  ReadNumeric(inst, s, off).w = Width(inst)
<1>1. Width(inst) = NumericWidth(inst.op) + SeparatorWidth(inst.aux)
    BY FusibleWidth
<1>2. CASE inst.op = "DaySpacePad"
    BY <1>1, <1>2, SpacePadWidth DEF ReadNumeric, NoRead
<1>3. CASE inst.op # "DaySpacePad"
    BY <1>1, <1>3, NumberWidth DEF ReadNumeric, NoRead
<1> QED
    BY <1>2, <1>3

\* An offset is as long as its instruction says, and inside the input.
LEMMA ZoneOffsetWidth ==
    ASSUME NEW s, NEW off, NEW n, ReadTZOffset(s, off, n).ok
    PROVE  ReadTZOffset(s, off, n).w = n /\ n >= 3 /\ Within(s, off, n)
BY DEF ReadTZOffset, ParseTZOffset, NoRead, Got

\* A zone's name is as long as its instruction says.
LEMMA ZoneNameWidth ==
    ASSUME NEW s, NEW off, NEW n, ReadTZName(s, off, n).ok
    PROVE  ReadTZName(s, off, n).w = n
BY DEF ReadTZName, NoRead, Got

\* Declared widths are numbers of bytes.
LEMMA WidthsAreNaturals ==
    ASSUME NEW inst \in Insts
    PROVE  Width(inst) \in Nat
BY DEF Width, DeclaredWidth, FixedWidth, NumericWidth, SeparatorWidth, Insts

\* What an instruction reads differs from its declared width by exactly what it
\* moves the ones after it; a tail alone has no declared width.
LEMMA ReadWidth ==
    ASSUME NEW inst \in Insts, NEW s \in Seq(Alphabet), NEW off \in Nat, Read(inst, s, off).ok
    PROVE  /\ Read(inst, s, off).w \in Nat
           /\ inst.op # "Tail" =>
                 Read(inst, s, off).w = Width(inst) + Shift(inst, Read(inst, s, off).w)
<1> DEFINE w == Read(inst, s, off).w
<1>0. inst.op \in Kinds /\ inst.len \in Nat
    BY DEF Insts
<1>1. CASE inst.op \in Fusible
    <2>1. Read(inst, s, off) = ReadNumeric(inst, s, off)
        BY <1>1 DEF Read, Fusible, OneOrTwo
    <2>2. Shift(inst, w) = 0
        BY <1>1 DEF Shift, Fusible, OneOrTwo
    <2> QED
        BY <2>1, <2>2, NumericReadWidth, WidthsAreNaturals, <1>1
<1>2. CASE inst.op \in OneOrTwo
    <2>1. Read(inst, s, off) = Read1or2(inst.op, s, off)
        BY <1>2 DEF Read, Fusible, OneOrTwo
    <2>2. w \in {1, 2}
        BY <2>1, NumberWidth DEF Read1or2
    <2>3. Width(inst) = inst.len /\ Shift(inst, w) = w - inst.len
        BY <1>0, <1>2 DEF Width, DeclaredWidth, Shift, FixedKinds, Fusible, OneOrTwo
    <2> QED
        BY <2>2, <2>3, <1>0
<1>3. CASE inst.op = "TZZOrOffset"
    <2>1. w \in Nat
        BY <1>0, <1>3, ZoneOffsetWidth
        DEF Read, ReadZ, ReadIf, NoRead, Got, Fusible, OneOrTwo
    <2>2. Width(inst) = inst.len /\ Shift(inst, w) = w - inst.len
        BY <1>0, <1>3 DEF Width, DeclaredWidth, Shift, FixedKinds, Fusible
    <2> QED
        BY <2>1, <2>2, <1>0
<1>4. CASE inst.op = "Tail"
    <2>1. Read(inst, s, off) = ReadTail(s, off)
        BY <1>4 DEF Read, Fusible, OneOrTwo
    <2>2. off <= Len(s) /\ w = Len(s) - off
        BY <2>1 DEF ReadTail, ReadIf, NoRead, Got
    <2> QED
        BY <2>2, <1>4
<1>5. CASE inst.op = "AMPM"
    <2>1. Read(inst, s, off) = ReadAMPM(s, off)
        BY <1>5 DEF Read, Fusible, OneOrTwo
    <2>2. w = 2
        BY <2>1 DEF ReadAMPM, Got, NoRead
    <2> QED
        BY <2>2, <1>5 DEF Width, DeclaredWidth, FixedKinds, FixedWidth, Fusible, Shift, OneOrTwo
<1>6. CASE inst.op = "TZZ"
    <2>1. Read(inst, s, off) = ReadZ(s, off)
        BY <1>6 DEF Read, Fusible, OneOrTwo
    <2>2. w = 1
        BY <2>1 DEF ReadZ, ReadIf, Got, NoRead
    <2> QED
        BY <2>2, <1>6 DEF Width, DeclaredWidth, FixedKinds, FixedWidth, Fusible, Shift, OneOrTwo
<1>7. CASE inst.op = "ISOWeekDay"
    <2>1. Read(inst, s, off) = ReadNumber(inst.op, s, off, 1, 1)
        BY <1>7 DEF Read, Fusible, OneOrTwo
    <2>2. w = 1
        BY <2>1, NumberWidth
    <2> QED
        BY <2>2, <1>7 DEF Width, DeclaredWidth, FixedKinds, FixedWidth, Fusible, Shift, OneOrTwo
<1>8. CASE inst.op \in {"MonthName", "FracSec", "TZOffset", "TZName", "OrdinalDay", "Literal",
                        "Skip"}
    <2>1. ASSUME inst.op = "MonthName" PROVE w = inst.len
        <3>1. Read(inst, s, off) = ReadMonthName(inst, s, off)
            BY <2>1 DEF Read, Fusible, OneOrTwo
        <3> QED
            BY <3>1 DEF ReadMonthName, ReadIf, Got, NoRead
    <2>2. ASSUME inst.op = "FracSec" PROVE w = inst.len
        <3>1. Read(inst, s, off) = ReadFracSec(s, off, inst.len)
            BY <2>2 DEF Read, Fusible, OneOrTwo
        <3> QED
            BY <3>1 DEF ReadFracSec, ReadIf, Got, NoRead
    <2>3. ASSUME inst.op \in {"TZOffset", "TZName", "OrdinalDay"} PROVE w = inst.len
        <3>1. Read(inst, s, off) \in {ReadTZOffset(s, off, inst.len), ReadTZName(s, off, inst.len),
                                      ReadNumber(inst.op, s, off, inst.len, inst.len)}
            BY <2>3 DEF Read, Fusible, OneOrTwo
        <3> QED
            BY <3>1, NumberWidth, ZoneOffsetWidth, ZoneNameWidth
    <2>4. ASSUME inst.op \in {"Literal", "Skip"} PROVE w = inst.len
        <3>1. Read(inst, s, off)
                = ReadIf(AllAccepted(inst.aux, s, off, inst.len), inst.len, "nothing", 0)
            BY <2>4 DEF Read, Fusible, OneOrTwo
        <3> QED
            BY <3>1 DEF ReadIf, Got, NoRead
    <2>5. w = inst.len
        BY <1>8, <2>1, <2>2, <2>3, <2>4
    <2>6. Width(inst) = inst.len /\ Shift(inst, w) = 0
        BY <1>0, <1>8 DEF Shift, Width, DeclaredWidth, FixedKinds, Fusible, OneOrTwo
    <2> QED
        BY <2>5, <2>6, <1>0
<1> QED
    BY <1>0, <1>1, <1>2, <1>3, <1>4, <1>5, <1>6, <1>7, <1>8 DEF Kinds, FixedKinds

-----------------------------------------------------------------------------
\* What one instruction of a planned program reads.

\* A zone fills its slot, or is a 'Z' that ends the input.
LEMMA FastZoneWidth ==
    ASSUME NEW inst \in Insts, NEW s,
           inst.op \in {"TZZ", "TZOffset", "TZName", "TZZOrOffset"}, FastZone(inst, s).ok
    PROVE  \/ FastZone(inst, s).w = FastWidth(inst)
           \/ inst.op = "TZZOrOffset" /\ FastZone(inst, s).w = 1 /\ inst.offset + 1 = Len(s)
<1>1. CASE inst.op \in {"TZZ", "TZZOrOffset"} /\ ReadZ(s, inst.offset).ok
    BY <1>1 DEF FastZone, ReadZ, ReadIf, Got, NoRead, FastWidth, Fusible
<1>2. CASE ~(inst.op \in {"TZZ", "TZZOrOffset"} /\ ReadZ(s, inst.offset).ok)
    <2>1. inst.op # "TZZ"
        BY <1>2 DEF FastZone, NoRead
    <2>2. FastWidth(inst) = inst.len
        BY <2>1 DEF FastWidth, Fusible
    <2>3. FastZone(inst, s) \in {ReadTZName(s, inst.offset, inst.len),
                                ReadTZOffset(s, inst.offset, inst.len)}
        BY <1>2, <2>1 DEF FastZone
    <2> QED
        BY <2>2, <2>3, ZoneNameWidth, ZoneOffsetWidth
<1> QED
    BY <1>1, <1>2

\* So does every slot of a planned program: it fills it, or is that 'Z'.
LEMMA FastReadWidth ==
    ASSUME NEW inst \in Insts, inst.op \in FastOps, NEW s, FastRead(inst, s).ok
    PROVE  \/ FastRead(inst, s).w = FastWidth(inst)
           \/ inst.op = "TZZOrOffset" /\ FastRead(inst, s).w = 1 /\ inst.offset + 1 = Len(s)
<1>1. CASE inst.op \in Fusible
    <2>1. /\ FastWidth(inst) = Width(inst)
          /\ FastWidth(inst) = NumericWidth(inst.op) + SeparatorWidth(inst.aux)
        <3>1. FastWidth(inst) = NumericWidth(inst.op) + SeparatorWidth(inst.aux)
            BY <1>1 DEF FastWidth, Fusible
        <3> QED
            BY <1>1, <3>1, FusibleWidth
    <2>2. CASE inst.op \in {"Day2", "DaySpacePad"}
        <3>1. FastRead(inst, s) = FastDay(inst, s)
            BY <2>2 DEF FastRead, Fusible
        <3>2. CASE inst.op = "Day2"
            BY <1>1, <2>1, <3>1, <3>2, NumericReadWidth DEF FastDay
        <3>3. CASE inst.op # "Day2"
            BY <3>1, <3>3, SpacePadWidth DEF FastDay, NoRead
        <3> QED
            BY <3>2, <3>3
    <2>3. CASE inst.op \notin {"Day2", "DaySpacePad"}
        <3>1. FastRead(inst, s) = ReadNumeric(inst, s, inst.offset)
            BY <1>1, <2>3 DEF FastRead, Fusible
        <3> QED
            BY <1>1, <2>1, <3>1, NumericReadWidth
    <2> QED
        BY <2>2, <2>3
<1>2. CASE inst.op = "FracSec"
    <2>1. FastRead(inst, s) = ReadFracSec(s, inst.offset, inst.len)
        BY <1>2 DEF FastRead, Fusible
    <2> QED
        BY <1>2, <2>1 DEF ReadFracSec, ReadIf, Got, NoRead, FastWidth, Fusible
<1>3. CASE inst.op = "AMPM"
    <2>1. FastRead(inst, s) = ReadAMPM(s, inst.offset)
        BY <1>3 DEF FastRead, Fusible
    <2> QED
        BY <1>3, <2>1 DEF ReadAMPM, Got, NoRead, FastWidth, Fusible
<1>4. CASE inst.op \in {"TZZ", "TZOffset", "TZName", "TZZOrOffset"}
    <2>1. FastRead(inst, s) = FastZone(inst, s)
        BY <1>4 DEF FastRead, Fusible
    <2> QED
        BY <1>4, <2>1, FastZoneWidth
<1> QED
    BY <1>1, <1>2, <1>3, <1>4 DEF FastOps

\* A zone whose offset does not fit the input was read as a 'Z'.
LEMMA ShortZoneIsZ ==
    ASSUME NEW inst \in Insts, NEW s \in Seq(Alphabet), inst.op = "TZZOrOffset",
           FastRead(inst, s).ok, Len(s) = inst.offset + 1, inst.len > 1
    PROVE  FastRead(inst, s).w = 1
<1>1. FastRead(inst, s) = FastZone(inst, s)
    BY DEF FastRead, Fusible
<1>2. CASE ReadZ(s, inst.offset).ok
    BY <1>1, <1>2 DEF FastZone, ReadZ, ReadIf, Got, NoRead
<1>3. CASE ~ReadZ(s, inst.offset).ok
    <2>1. FastZone(inst, s) = ReadTZOffset(s, inst.offset, inst.len)
        BY <1>3 DEF FastZone
    <2>2. inst.offset + inst.len <= Len(s)
        BY <1>1, <2>1, ZoneOffsetWidth DEF Within
    <2> QED
        BY <2>2 DEF Insts
<1> QED
    BY <1>2, <1>3

-----------------------------------------------------------------------------
\* The bytes of a planned program.

\* A slot is not empty, and ends inside the longest planned input.
LEMMA SlotWidths ==
    ASSUME NEW inst \in Insts, HasSlot(inst)
    PROVE  FastWidth(inst) \in Nat \ {0} /\ FastEnd(inst) \in 1..FastMaxWidth
<1>1. FastWidth(inst) \in Nat
    BY DEF FastWidth, NumericWidth, SeparatorWidth, Insts
<1> QED
    BY <1>1, LimitsAssumption DEF HasSlot, FastEnd, Insts

\* Some field of a program that has one ends last.
LEMMA PlanWidthIsLast ==
    ASSUME NEW is \in Seq(Insts), Plannable(is)
    PROVE  /\ PlanWidth(is) \in Nat /\ \E i \in DOMAIN is : PlanWidth(is) = FastEnd(is[i])
           /\ \A i \in DOMAIN is : FastEnd(is[i]) <= PlanWidth(is)
<1> DEFINE Ends == {FastEnd(is[i]) : i \in DOMAIN is}
           Left == {FastMaxWidth - e : e \in Ends}
<1>1. \A i \in DOMAIN is : is[i] \in Insts /\ FastEnd(is[i]) \in 1..FastMaxWidth
    BY SlotWidths DEF Plannable
<1>2. Left \in SUBSET Nat /\ Left # {}
    <2>1. 1 \in DOMAIN is
        BY DEF Plannable
    <2> QED
        BY <1>1, <2>1, LimitsAssumption
<1>3. PICK l \in Left : \A m \in Left : ~(<<m, l>> \in OpToRel(<, Nat))
    BY <1>2, NatLessThanWellFounded, WFMin
<1>4. PICK e \in Ends : l = FastMaxWidth - e
    OBVIOUS
<1>5. \A i \in DOMAIN is : FastEnd(is[i]) <= e
    <2>1. SUFFICES ASSUME NEW i \in DOMAIN is
                   PROVE  FastEnd(is[i]) <= e
        OBVIOUS
    <2>2. FastMaxWidth - FastEnd(is[i]) \in Left
        OBVIOUS
    <2>3. ~(FastMaxWidth - FastEnd(is[i]) < l)
        BY <1>2, <1>3, <2>2 DEF OpToRel
    <2> QED
        BY <1>1, <1>4, <2>3, LimitsAssumption
<1>6. PlanWidth(is) \in Ends /\ \A i \in DOMAIN is : FastEnd(is[i]) <= PlanWidth(is)
    BY <1>5 DEF PlanWidth
<1> QED
    BY <1>1, <1>6

\* There is one zone at the most, and it is the last field.
LEMMA OneZone ==
    ASSUME NEW is \in Seq(Insts), Plannable(is), NEW z \in DOMAIN is, is[z].op = "TZZOrOffset"
    PROVE  /\ AltWidth(is) = is[z].offset + 1
           /\ FastEnd(is[z]) = PlanWidth(is)
           /\ \A i \in DOMAIN is : i # z => is[i].op # "TZZOrOffset"
<1>1. \A i \in DOMAIN is : i # z => is[i].op # "TZZOrOffset"
    BY DEF Plannable, Apart
<1>2. z = CHOOSE i \in DOMAIN is : is[i].op = "TZZOrOffset"
    BY <1>1
<1> QED
    BY <1>1, <1>2 DEF AltWidth, Plannable, Tiles

\* The slots of an accepted input are its bytes, all of them.
LEMMA PlannedBytes ==
    ASSUME NEW is \in Seq(Insts), Plannable(is), NEW s \in Seq(Alphabet),
           Len(s) \in {PlanWidth(is), AltWidth(is)},
           \A i \in DOMAIN is : FastRead(is[i], s).ok
    PROVE  UNION {is[i].offset..(is[i].offset + FastRead(is[i], s).w - 1) : i \in DOMAIN is}
             = 0..(Len(s) - 1)
<1> DEFINE Bytes(i) == is[i].offset..(is[i].offset + FastRead(is[i], s).w - 1)
<1>1. \A i \in DOMAIN is : /\ is[i] \in Insts /\ is[i].op \in FastOps
                           /\ is[i].offset \in Nat /\ is[i].len \in Nat
                           /\ FastWidth(is[i]) \in Nat \ {0}
                           /\ FastEnd(is[i]) = is[i].offset + FastWidth(is[i])
                           /\ Claims(is[i]) = is[i].offset..(is[i].offset + FastWidth(is[i]) - 1)
    <2>1. SUFFICES ASSUME NEW i \in DOMAIN is
                   PROVE  /\ is[i] \in Insts /\ is[i].op \in FastOps
                          /\ is[i].offset \in Nat /\ is[i].len \in Nat
                          /\ FastWidth(is[i]) \in Nat \ {0}
                          /\ FastEnd(is[i]) = is[i].offset + FastWidth(is[i])
                          /\ Claims(is[i]) = is[i].offset..(is[i].offset + FastWidth(is[i]) - 1)
        OBVIOUS
    <2>2. is[i] \in Insts /\ HasSlot(is[i])
        BY DEF Plannable
    <2>3. is[i].op \in FastOps /\ is[i].offset \in Nat /\ is[i].len \in Nat
        BY <2>2 DEF HasSlot, Insts
    <2>4. FastWidth(is[i]) \in Nat \ {0}
        BY <2>2, SlotWidths
    <2>5. FastEnd(is[i]) = is[i].offset + FastWidth(is[i])
        BY DEF FastEnd
    <2>6. Claims(is[i]) = is[i].offset..(is[i].offset + FastWidth(is[i]) - 1)
        BY <2>3, <2>4 DEF Claims, FastEnd
    <2> QED
        BY <2>2, <2>3, <2>4, <2>5, <2>6
<1>2. UNION {Claims(is[i]) : i \in DOMAIN is} = 0..(PlanWidth(is) - 1)
    BY DEF Plannable, Tiles
<1>3. PlanWidth(is) \in Nat /\ Len(s) \in Nat
    BY PlanWidthIsLast
<1>4. \A i \in DOMAIN is : is[i].op # "TZZOrOffset" => Bytes(i) = Claims(is[i])
    BY <1>1, FastReadWidth
<1>5. CASE \A i \in DOMAIN is : is[i].op # "TZZOrOffset"
    <2>1. Len(s) = PlanWidth(is)
        BY <1>5 DEF AltWidth
    <2>2. UNION {Bytes(i) : i \in DOMAIN is} = UNION {Claims(is[i]) : i \in DOMAIN is}
        BY <1>4, <1>5
    <2> QED
        BY <1>2, <2>1, <2>2
<1>6. CASE \E i \in DOMAIN is : is[i].op = "TZZOrOffset"
    <2>1. PICK z \in DOMAIN is : is[z].op = "TZZOrOffset"
        BY <1>6
    <2>2. /\ AltWidth(is) = is[z].offset + 1
          /\ is[z].offset + FastWidth(is[z]) = PlanWidth(is)
          /\ \A i \in DOMAIN is : i # z => Bytes(i) = Claims(is[i])
        BY <1>1, <1>4, <2>1, OneZone
    <2>3. FastWidth(is[z]) = is[z].len
        BY <2>1 DEF FastWidth, Fusible
    <2>4. CASE FastRead(is[z], s).w = FastWidth(is[z])
        <3>1. Bytes(z) = Claims(is[z])
            BY <1>1, <2>4
        <3>2. Len(s) = PlanWidth(is)
            <4>1. CASE is[z].len > 1
                BY <1>1, <2>1, <2>2, <2>3, <2>4, <4>1, ShortZoneIsZ
            <4>2. CASE ~(is[z].len > 1)
                BY <1>1, <1>3, <2>2, <2>3, <4>2
            <4> QED
                BY <4>1, <4>2
        <3>3. UNION {Bytes(i) : i \in DOMAIN is} = UNION {Claims(is[i]) : i \in DOMAIN is}
            BY <2>2, <3>1
        <3> QED
            BY <1>2, <3>2, <3>3
    <2>5. CASE FastRead(is[z], s).w = 1 /\ is[z].offset + 1 = Len(s)
        <3>1. Bytes(z) = is[z].offset..is[z].offset
            BY <1>1, <2>5
        <3>2. ASSUME NEW x \in UNION {Bytes(i) : i \in DOMAIN is}
              PROVE  x \in 0..(Len(s) - 1)
            <4>1. PICK i \in DOMAIN is : x \in Bytes(i)
                BY <3>2
            <4>2. CASE i = z
                <5>1. is[z].offset \in Nat /\ Len(s) = is[z].offset + 1
                    BY <1>1, <2>5
                <5>2. x \in is[z].offset..is[z].offset
                    BY <3>1, <4>1, <4>2
                <5>3. x = is[z].offset
                    BY <5>1, <5>2
                <5> QED
                    BY <1>3, <5>1, <5>3
            <4>3. CASE i # z
                <5>1. x \in Claims(is[i]) /\ x \in 0..(PlanWidth(is) - 1)
                    BY <1>2, <2>2, <4>1, <4>3
                <5>2. x \notin Claims(is[z])
                    BY <4>3, <5>1 DEF Plannable, Apart
                <5>3. /\ is[z].offset \in Nat /\ Len(s) = is[z].offset + 1
                      /\ FastWidth(is[z]) \in Nat \ {0}
                      /\ PlanWidth(is) = is[z].offset + FastWidth(is[z])
                      /\ Claims(is[z]) = is[z].offset..(is[z].offset + FastWidth(is[z]) - 1)
                    BY <1>1, <2>2, <2>5
                <5> QED
                    BY SMTT(30), <5>1, <5>2, <5>3
            <4> QED
                BY <4>2, <4>3
        <3>3. ASSUME NEW x \in 0..(Len(s) - 1)
              PROVE  x \in UNION {Bytes(i) : i \in DOMAIN is}
            <4>1. CASE x = is[z].offset
                BY <1>1, <3>1, <4>1
            <4>2. CASE x # is[z].offset
                <5>1. x \in 0..(PlanWidth(is) - 1) /\ x \notin Claims(is[z])
                    BY SMTT(30), <1>1, <1>3, <2>2, <2>5, <4>2
                <5>2. PICK i \in DOMAIN is : x \in Claims(is[i])
                    BY <1>2, <5>1
                <5> QED
                    BY <2>2, <5>1, <5>2
            <4> QED
                BY <4>1, <4>2
        <3> QED
            BY <3>2, <3>3
    <2> QED
        BY <1>1, <2>1, <2>4, <2>5, FastReadWidth
<1> QED
    BY <1>5, <1>6

-----------------------------------------------------------------------------
\* The inductive invariant, in parts.

Fitting(is) ==
    \A i \in DOMAIN is : is[i].offset \in 0..MaxFieldByte /\ is[i].len \in 0..MaxFieldByte

\* Every instruction stands for a field already looked at.
CompilerState ==
    /\ def \in DOMAIN Defs
    /\ next \in 1..(Len(Fields) + 1)
    /\ insts \in Seq(Insts) /\ Fitting(insts)
    /\ Len(insts) < next
    /\ insts # <<>> => Fits
    /\ needsBaseYear \in BOOLEAN

\* A plan is the one of the instructions, and there is none before it is made.
PlanState ==
    /\ stage \in Stages
    /\ stage \in {"compiling", "refused", "reading"} => plan = NotFast
    /\ plan # NotFast => Plannable(insts)
                         /\ plan = [width |-> PlanWidth(insts), alt |-> AltWidth(insts)]

\* Nothing of an input is kept between two calls.
CallState ==
    /\ at \in 1..(Len(insts) + 1)
    /\ stage \in {"compiling", "refused", "ready"} => at = 1 /\ run = FreshRun
    /\ stage # "answered" => outcome = NoAnswer

TypeInv == CompilerState /\ PlanState /\ CallState

\* The types hold at first.
LEMMA TypeInit == Init => TypeInv
<1> SUFFICES ASSUME Init
             PROVE  TypeInv
    OBVIOUS
<1>1. Fields \in Seq(Insts)
    BY FieldsAreInsts DEF Init, Fields
<1>2. CompilerState
    BY <1>1 DEF Init, CompilerState, Fitting
<1> QED
    BY <1>2 DEF Init, TypeInv, PlanState, CallState, Stages

\* Emitting an instruction of the next field keeps the types.
LEMMA EmitKeepsTypes ==
    ASSUME TypeInv, Compiling(next), NEW inst \in Insts, Fitting(<<inst>>),
           NEW n \in {1, 2}, next + n <= Len(Fields) + 1, Emit(inst, n)
    PROVE  TypeInv'
<1>1. /\ insts' \in Seq(Insts) /\ Len(insts') = Len(insts) + 1
      /\ \A i \in 1..Len(insts) : insts'[i] = insts[i]
      /\ insts'[Len(insts) + 1] = inst
      /\ DOMAIN insts' = 1..(Len(insts) + 1) /\ Len(insts) \in Nat
    BY AppendProperties DEF Emit, TypeInv, CompilerState
<1>2. inst.offset \in 0..MaxFieldByte /\ inst.len \in 0..MaxFieldByte
    BY DEF Fitting
<1>3. Fitting(insts')
    BY SMTT(30), <1>1, <1>2 DEF TypeInv, CompilerState, Fitting
<1>4. Fields' = Fields /\ def' = def /\ Fits'
    BY DEF Emit, Fields, Fits, Compiling
<1>5. next' = next + n /\ next \in Nat /\ Len(Fields) \in Nat
    BY FieldsAreInsts DEF Emit, TypeInv, CompilerState, Fields
<1>6. CompilerState'
    BY <1>1, <1>3, <1>4, <1>5 DEF TypeInv, CompilerState, Emit, Fitting
<1>7. PlanState'
    BY DEF TypeInv, PlanState, Emit, Compiling
<1>8. CallState'
    BY <1>1 DEF TypeInv, CallState, Emit, Compiling
<1> QED
    BY <1>6, <1>7, <1>8 DEF TypeInv

\* The instruction of one field, and the one of a field and its separator.
LEMMA EmittedInsts ==
    ASSUME TypeInv, Compiling(next), Addressable(Fields[next])
    PROVE  /\ Fields[next] \in Insts /\ Fitting(<<Fields[next]>>)
           /\ Fuses(next) =>
                /\ next + 1 <= Len(Fields)
                /\ LET inst == [Fields[next] EXCEPT !.aux = SeparatorAux(Fields[next + 1])]
                   IN  inst \in Insts /\ Fitting(<<inst>>)
<1>1. Fields \in Seq(Insts) /\ next \in 1..Len(Fields) /\ Len(Fields) \in Nat
    BY FieldsAreInsts DEF TypeInv, CompilerState, Fields, Compiling
<1>2. Fields[next] \in Insts
    BY <1>1
<1>3. Fitting(<<Fields[next]>>)
    BY <1>2 DEF Addressable, Fitting, Insts
<1>4. ASSUME Fuses(next)
      PROVE  /\ next + 1 <= Len(Fields)
             /\ LET inst == [Fields[next] EXCEPT !.aux = SeparatorAux(Fields[next + 1])]
                IN  inst \in Insts /\ Fitting(<<inst>>)
    <2>1. next + 1 <= Len(Fields)
        BY <1>1, <1>4 DEF Fuses
    <2>2. SeparatorAux(Fields[next + 1]) \in Auxes
        <3>1. Fields[next + 1] \in Insts
            BY <1>1, <2>1
        <3> QED
            BY <3>1 DEF Insts, SeparatorAux, Auxes
    <2> QED
        BY <1>2, <1>3, <2>1, <2>2 DEF Insts, Fitting
<1> QED
    BY <1>2, <1>3, <1>4

\* And after every step.
LEMMA TypeStep == TypeInv /\ [Next]_vars => TypeInv'
<1> SUFFICES ASSUME TypeInv, [Next]_vars
             PROVE  TypeInv'
    OBVIOUS
<1>0. Len(insts) \in Nat /\ Len(Fields) \in Nat
    BY FieldsAreInsts DEF TypeInv, CompilerState, Fields
<1>1. CASE RefuseTooMany \/ RefuseField
    BY <1>1 DEF RefuseTooMany, RefuseField, Compiling, TypeInv, CompilerState, PlanState, CallState,
        compiling, Stages, Fields, Fits
<1>2. CASE EmitField
    <2>1. next + 1 <= Len(Fields) + 1
        BY <1>0, <1>2 DEF EmitField, Compiling, TypeInv, CompilerState
    <2> QED
        BY <1>2, <2>1, EmittedInsts, EmitKeepsTypes DEF EmitField
<1>3. CASE EmitFused
    <2>1. next + 2 <= Len(Fields) + 1
        BY <1>0, <1>3, EmittedInsts DEF EmitFused, TypeInv, CompilerState
    <2> QED
        BY <1>3, <2>1, EmittedInsts, EmitKeepsTypes DEF EmitFused
<1>4. CASE FinishCompile
    BY <1>4 DEF FinishCompile, PlanFast, TypeInv, CompilerState, PlanState, CallState, Stages,
        Fields, Fits
<1>5. CASE Execute
    BY <1>5 DEF Execute, compiling, TypeInv, CompilerState, PlanState, CallState, Stages,
        Fields, Fits
<1>6. CASE ExecuteFast
    BY <1>6 DEF ExecuteFast, compiling, TypeInv, CompilerState, PlanState, CallState, Stages,
        Fields, Fits
<1>7. CASE ReadField
    BY <1>0, <1>7 DEF ReadField, Reading, compiling, TypeInv, CompilerState, PlanState, CallState,
        Stages, Fields, Fits
<1>8. CASE FieldFails
    BY <1>8 DEF FieldFails, Reading, compiling, TypeInv, CompilerState, PlanState, CallState,
        Stages, Fields, Fits
<1>9. CASE Finish
    BY <1>9 DEF Finish, compiling, TypeInv, CompilerState, PlanState, CallState, Stages,
        Fields, Fits
<1>10. CASE Return
    BY <1>0, <1>10 DEF Return, compiling, TypeInv, CompilerState, PlanState, CallState, Stages,
        Fields, Fits
<1>11. CASE UNCHANGED vars
    BY <1>11 DEF vars, TypeInv, CompilerState, PlanState, CallState, Fields, Fits
<1> QED
    BY <1>1, <1>2, <1>3, <1>4, <1>5, <1>6, <1>7, <1>8, <1>9, <1>10, <1>11 DEF Next

\* The types of a program: no instruction holds an offset or a length past the
\* byte it has for it, there are never more than the largest program has room
\* for, and only a program without a plan is read field by field (compiler.go).
THEOREM ProgramTypeCorrect == Spec => []TypeOK
<1>1. Init => TypeInv
    BY TypeInit
<1>2. TypeInv /\ [Next]_vars => TypeInv'
    BY TypeStep
<1>3. TypeInv => TypeOK
    <2> SUFFICES ASSUME TypeInv
                 PROVE  TypeOK
        OBVIOUS
    <2>1. Len(insts) \in Nat /\ Len(Fields) \in Nat
        BY FieldsAreInsts DEF TypeInv, CompilerState, Fields
    <2>2. Len(insts) <= MaxInstructions
        BY <2>1, LimitsAssumption DEF TypeInv, CompilerState, Fits
    <2> QED
        BY <2>2 DEF TypeInv, CompilerState, PlanState, CallState, TypeOK, Fitting
<1> QED
    BY <1>1, <1>2, <1>3, PTL DEF Spec

-----------------------------------------------------------------------------
\* Every accepted input is described, in formats whose fields are in order.

\* What Compile is owed and cannot check (compiler.go:101): no field begins before
\* the one listed ahead of it ends, and nothing follows a tail.
Follows(f, g) == f.op # "Tail" /\ g.offset >= f.offset + Width(f)

Ordered(fields) == \A i \in DOMAIN fields : i > 1 => Follows(fields[i - 1], fields[i])

FormatsInOrder == \A d \in DOMAIN Defs : Ordered(Defs[d])

\* The instructions are in the order of the fields, and so is the field to come.
CompiledInOrder ==
    /\ \A i \in 2..Len(insts) : Follows(insts[i - 1], insts[i])
    /\ insts # <<>> /\ next <= Len(Fields) => Follows(insts[Len(insts)], Fields[next])

\* What is read lies before end, is counted by covered, and before what is to come.
Counted ==
    /\ input \in Inputs[def]
    /\ run.delta \in Int /\ run.covered \in Nat /\ run.end \in Nat
    /\ run.read \subseteq 0..(run.end - 1)
    /\ IsFiniteSet(run.read) /\ Cardinality(run.read) = run.covered
    /\ at <= Len(insts) => Offset >= run.end

BytesInv ==
    /\ TypeInv
    /\ CompiledInOrder
    /\ stage = "reading" => Counted
    /\ EveryByteOnce

\* Two fields of an ordered format, one after the other.
LEMMA FieldsFollow ==
    ASSUME FormatsInOrder, TypeInv, NEW i \in 1..Len(Fields), i + 1 <= Len(Fields)
    PROVE  Follows(Fields[i], Fields[i + 1])
<1>1. Fields \in Seq(Insts) /\ Ordered(Fields)
    BY FieldsAreInsts DEF FormatsInOrder, TypeInv, CompilerState, Fields
<1>2. i + 1 \in DOMAIN Fields /\ i + 1 > 1 /\ (i + 1) - 1 = i
    BY <1>1
<1> QED
    BY <1>1, <1>2 DEF Ordered

\* An instruction that begins no earlier than its field, and after which the
\* fields to come still follow, keeps the order.
LEMMA EmitKeepsOrder ==
    ASSUME TypeInv, CompiledInOrder, Compiling(next), NEW inst \in Insts, NEW n \in {1, 2},
           inst.offset = Fields[next].offset,
           next + n <= Len(Fields) => Follows(inst, Fields[next + n]),
           Emit(inst, n)
    PROVE  CompiledInOrder'
<1>1. /\ Len(insts') = Len(insts) + 1 /\ Len(insts) \in Nat
      /\ \A i \in 1..Len(insts) : insts'[i] = insts[i]
      /\ insts'[Len(insts) + 1] = inst
    BY AppendProperties DEF Emit, TypeInv, CompilerState
<1>2. ASSUME NEW i \in 2..(Len(insts) + 1)
      PROVE  Follows(insts'[i - 1], insts'[i])
    <2>1. CASE i <= Len(insts)
        BY <1>1, <1>2, <2>1 DEF CompiledInOrder
    <2>2. CASE i = Len(insts) + 1
        <3>1. insts # <<>> /\ insts'[i - 1] = insts[Len(insts)] /\ insts'[i] = inst
            BY <1>1, <1>2, <2>2
        <3>2. Follows(insts[Len(insts)], Fields[next])
            BY <3>1 DEF CompiledInOrder, Compiling
        <3> QED
            BY <3>1, <3>2 DEF Follows
    <2> QED
        BY <1>1, <1>2, <2>1, <2>2
<1>3. next' = next + n /\ Fields' = Fields
    BY DEF Emit, Fields
<1> QED
    BY <1>1, <1>2, <1>3 DEF CompiledInOrder

\* Compiling keeps the order, and running changes no instruction.
LEMMA OrderStep ==
    ASSUME FormatsInOrder, TypeInv, CompiledInOrder, [Next]_vars
    PROVE  CompiledInOrder'
<1>0. /\ Fields \in Seq(Insts) /\ Len(Fields) \in Nat
      /\ next \in Nat /\ next >= 1
    BY FieldsAreInsts DEF TypeInv, CompilerState, Fields
<1>1. CASE EmitField
    <2>1. next \in 1..Len(Fields)
        BY <1>0, <1>1 DEF EmitField, Compiling
    <2>2. next + 1 <= Len(Fields) => Follows(Fields[next], Fields[next + 1])
        BY <2>1, FieldsFollow
    <2> QED
        BY <1>1, <2>2, EmittedInsts, EmitKeepsOrder DEF EmitField
<1>2. CASE EmitFused
    <2> DEFINE inst == [Fields[next] EXCEPT !.aux = SeparatorAux(Fields[next + 1])]
    <2>1. next \in 1..Len(Fields) /\ next + 1 \in 1..Len(Fields) /\ Fuses(next)
        BY <1>0, <1>2, EmittedInsts DEF EmitFused, Compiling
    <2>2. inst \in Insts
        BY <1>2, EmittedInsts DEF EmitFused
    <2>3. Fields[next] \in Insts /\ Fields[next + 1] \in Insts
        BY <1>0, <2>1
    <2>4. inst.offset = Fields[next].offset /\ inst.op = Fields[next].op
        BY <2>3 DEF Insts
    <2>5. next + 2 <= Len(Fields) => Follows(inst, Fields[next + 2])
        <3>1. SUFFICES ASSUME next + 2 <= Len(Fields)
                       PROVE  Follows(inst, Fields[next + 2])
            OBVIOUS
        <3>2. Follows(Fields[next + 1], Fields[(next + 1) + 1])
            BY <1>0, <2>1, <3>1, FieldsFollow
        <3>3. (next + 1) + 1 = next + 2
            BY <1>0
        <3>4. Width(Fields[next + 1]) = 1
            BY <2>1 DEF Fuses, Width, DeclaredWidth, FixedKinds, Fusible
        <3>5. /\ Fields[next + 1].offset = Fields[next].offset + NumericWidth(Fields[next].op)
              /\ Fields[next].op \in Fusible
            BY <2>1 DEF Fuses
        <3>6. Width(inst) = NumericWidth(Fields[next].op) + 1
            <4>1. inst.aux # NoAux
                BY <2>3 DEF SeparatorAux, NoAux, Insts
            <4>2. Width(inst) = NumericWidth(inst.op) + SeparatorWidth(inst.aux)
                BY <2>4, <3>5, FusibleWidth
            <4> QED
                BY <2>4, <4>1, <4>2 DEF SeparatorWidth
        <3>7. inst.op # "Tail"
            BY <2>4, <3>5 DEF Fusible
        <3>8. /\ Fields[next + 2].offset \in Nat /\ Fields[next].offset \in Nat
              /\ NumericWidth(Fields[next].op) \in Nat
            <4>1. Fields[next + 2] \in Insts
                BY <1>0, <3>1
            <4>2. NumericWidth(Fields[next].op) \in Nat
                BY DEF NumericWidth
            <4> QED
                BY <2>3, <4>1, <4>2 DEF Insts
        <3> QED
            BY <2>4, <3>2, <3>3, <3>4, <3>5, <3>6, <3>7, <3>8 DEF Follows
    <2> QED
        BY <1>2, <2>2, <2>4, <2>5, EmitKeepsOrder DEF EmitFused
<1>3. CASE ~(EmitField \/ EmitFused)
    <2>1. UNCHANGED <<def, insts, next>>
        BY <1>3 DEF Next, RefuseTooMany, RefuseField, FinishCompile, Execute, ExecuteFast,
            ReadField, FieldFails, Finish, Return, compiling, vars
    <2> QED
        BY <2>1 DEF CompiledInOrder, Fields
<1> QED
    BY <1>1, <1>2, <1>3

\* An instruction reads bytes that no other has read.
LEMMA ReadKeepsCount ==
    ASSUME TypeInv, CompiledInOrder, stage = "reading", Counted, ReadField
    PROVE  Counted'
<1> DEFINE inst == insts[at]
           got == Read(inst, input, Offset)
           bytes == Offset..(Offset + got.w - 1)
<1>1. /\ at \in 1..Len(insts) /\ insts \in Seq(Insts) /\ Len(insts) \in Nat /\ inst \in Insts
      /\ insts' = insts /\ at' = at + 1 /\ input' = input /\ def' = def
    BY DEF ReadField, Reading, TypeInv, CompilerState, CallState, compiling
<1>2. input \in Seq(Alphabet)
    BY InputsAreText DEF Counted, TypeInv, CompilerState
<1>3. Offset \in Nat /\ Offset >= run.end /\ Offset = inst.offset + run.delta
    BY <1>1 DEF Offset, Counted, Insts, ReadField
<1>4. /\ got.w \in Nat
      /\ inst.op # "Tail" => got.w = Width(inst) + Shift(inst, got.w)
    BY <1>1, <1>2, <1>3, ReadWidth DEF ReadField
<1>5. /\ run'.delta = run.delta + Shift(inst, got.w)
      /\ run'.covered = run.covered + got.w
      /\ run'.end = Furthest(run.end, Offset + got.w)
      /\ run'.read = run.read \cup bytes
    BY DEF ReadField, Stepped, After
<1>6. Shift(inst, got.w) \in Int
    BY <1>1, <1>4 DEF Shift, Insts
<1>7. run'.end = Offset + got.w
    BY <1>3, <1>4, <1>5 DEF Furthest, Counted
<1>8. run'.read \subseteq 0..(run'.end - 1)
    BY <1>3, <1>4, <1>5, <1>7 DEF Counted
<1>9. IsFiniteSet(run'.read) /\ Cardinality(run'.read) = run'.covered
    <2>1. IsFiniteSet(bytes) /\ Cardinality(bytes) = got.w
        BY <1>3, <1>4, FS_Interval
    <2>2. run.read \cap bytes = {}
        <3>1. SUFFICES ASSUME NEW b \in run.read, b \in bytes
                       PROVE  FALSE
            OBVIOUS
        <3>2. b \in 0..(run.end - 1) /\ run.end \in Nat
            BY DEF Counted
        <3> QED
            BY <1>3, <1>4, <3>1, <3>2
    <2>3. /\ IsFiniteSet(run.read) /\ Cardinality(run.read) = run.covered
          /\ run.covered \in Nat /\ Cardinality({}) = 0
        BY FS_EmptySet DEF Counted
    <2>4. /\ IsFiniteSet(run.read \cup bytes)
          /\ Cardinality(run.read \cup bytes)
               = Cardinality(run.read) + Cardinality(bytes) - Cardinality(run.read \cap bytes)
        BY <2>1, <2>3, FS_Union
    <2>5. Cardinality(run.read \cup bytes) = run.covered + got.w - 0
        BY <2>1, <2>2, <2>3, <2>4
    <2> QED
        BY <1>4, <1>5, <2>3, <2>4, <2>5
<1>10. at' <= Len(insts') => Offset' >= run'.end
    <2>1. SUFFICES ASSUME at + 1 <= Len(insts)
                   PROVE  insts[at + 1].offset + run'.delta >= run'.end
        BY <1>1 DEF Offset
    <2>2. Follows(insts[(at + 1) - 1], insts[at + 1])
        BY <1>1, <2>1 DEF CompiledInOrder
    <2>3. (at + 1) - 1 = at
        BY <1>1
    <2>4. inst.op # "Tail" /\ insts[at + 1].offset >= inst.offset + Width(inst)
        BY <2>2, <2>3 DEF Follows
    <2>5. insts[at + 1].offset \in Nat /\ inst.offset \in Nat /\ Width(inst) \in Nat
        <3>1. insts[at + 1] \in Insts
            BY <1>1, <2>1
        <3>2. Width(inst) \in Nat
            BY <1>1, WidthsAreNaturals
        <3> QED
            BY <1>1, <3>1, <3>2 DEF Insts
    <2> DEFINE shift == Shift(inst, got.w)
    <2>6. got.w = Width(inst) + shift /\ shift \in Int /\ run.delta \in Int
        BY <1>4, <1>6, <2>4 DEF Counted
    <2>7. run'.end = (inst.offset + run.delta) + (Width(inst) + shift)
        BY <1>3, <1>7, <2>6
    <2>8. run'.delta = run.delta + shift
        BY <1>5
    <2> HIDE DEF shift, inst
    <2> QED
        BY <2>4, <2>5, <2>6, <2>7, <2>8
<1> QED
    BY SMTT(30), <1>1, <1>3, <1>4, <1>5, <1>6, <1>7, <1>8, <1>9, <1>10 DEF Counted

\* Both counters at the input's length leave no byte out.
LEMMA CountersDescribe ==
    ASSUME TypeInv, Counted, stage = "reading", DescribesInput(run, input)
    PROVE  run.read = 0..(Len(input) - 1)
<1>1. input \in Seq(Alphabet)
    BY InputsAreText DEF Counted, TypeInv, CompilerState
<1>2. IsFiniteSet(0..(Len(input) - 1)) /\ Cardinality(0..(Len(input) - 1)) = Len(input)
    <2>1. Len(input) \in Nat
        BY <1>1
    <2>2. 0 \in Int /\ Len(input) - 1 \in Int
        BY <2>1
    <2>3. /\ IsFiniteSet(0..(Len(input) - 1))
          /\ Cardinality(0..(Len(input) - 1))
               = IF 0 > Len(input) - 1 THEN 0 ELSE (Len(input) - 1) - 0 + 1
        BY <2>2, FS_Interval
    <2> QED
        BY <2>1, <2>3
<1> QED
    BY <1>2, FS_Subset DEF Counted, DescribesInput

\* No step answers for an input it has not read, byte for byte.
LEMMA BytesStep ==
    ASSUME FormatsInOrder, BytesInv, [Next]_vars
    PROVE  BytesInv'
<1>0. TypeInv' /\ CompiledInOrder'
    BY TypeStep, OrderStep DEF BytesInv
<1>1. CASE RefuseTooMany \/ RefuseField \/ EmitField \/ EmitFused \/ FinishCompile
    <2>1. stage = "compiling" /\ stage' # "reading" /\ outcome' = outcome
        BY <1>1 DEF RefuseTooMany, RefuseField, EmitField, EmitFused, FinishCompile, Compiling, Emit
    <2>2. ~outcome'.ok
        BY <2>1 DEF BytesInv, TypeInv, CallState, NoAnswer
    <2> QED
        BY <1>0, <2>1, <2>2 DEF BytesInv, EveryByteOnce
<1>2. CASE Execute
    <2>1. /\ stage' = "reading" /\ input' \in Inputs[def] /\ def' = def /\ insts' = insts
          /\ run' = FreshRun /\ at' = 1 /\ outcome' = NoAnswer
        BY <1>2 DEF Execute, compiling, BytesInv, TypeInv, CallState
    <2>2. Counted'
        <3>1. 1 <= Len(insts) => insts[1].offset \in Nat
            <4>1. insts \in Seq(Insts)
                BY DEF BytesInv, TypeInv, CompilerState
            <4>2. 1 <= Len(insts) => insts[1] \in Insts
                BY <4>1
            <4> QED
                BY <4>2 DEF Insts
        <3> QED
            BY <2>1, <3>1, FS_EmptySet DEF Counted, Offset, FreshRun
    <2> QED
        BY <1>0, <2>1, <2>2 DEF BytesInv, EveryByteOnce, NoAnswer
<1>3. CASE ReadField
    <2>1. stage = "reading" /\ stage' = stage /\ outcome' = outcome
        BY <1>3 DEF ReadField, Reading
    <2>2. Counted'
        BY <1>3, <2>1, ReadKeepsCount DEF BytesInv
    <2>3. ~outcome'.ok
        BY <2>1 DEF BytesInv, TypeInv, CallState, NoAnswer
    <2> QED
        BY <1>0, <2>2, <2>3 DEF BytesInv, EveryByteOnce
<1>4. CASE FieldFails
    BY <1>0, <1>4 DEF FieldFails, Refused, BytesInv, EveryByteOnce
<1>5. CASE Finish
    <2>1. /\ stage = "reading" /\ stage' = "answered"
          /\ run' = run /\ input' = input /\ plan' = plan
        BY <1>5 DEF Finish, compiling
    <2>2. CASE DescribesInput(run, input)
        <3>1. run.read = 0..(Len(input) - 1) /\ run.covered = Cardinality(run.read)
            BY <2>1, <2>2, CountersDescribe DEF BytesInv, Counted
        <3> QED
            BY <1>0, <2>1, <3>1 DEF BytesInv, EveryByteOnce
    <2>3. CASE ~DescribesInput(run, input)
        BY <1>0, <1>5, <2>1, <2>3 DEF Finish, Refused, BytesInv, EveryByteOnce
    <2> QED
        BY <2>2, <2>3
<1>6. CASE ExecuteFast
    <2>1. PICK s \in Inputs[def] : input' = s /\ FastOutcome(s)
        BY <1>6 DEF ExecuteFast
    <2>2. stage' = "answered" /\ plan # NotFast /\ plan' = plan
        BY <1>6 DEF ExecuteFast, compiling
    <2>3. CASE FastAccepts(s)
        <3>1. insts \in Seq(Insts) /\ s \in Seq(Alphabet)
            BY InputsAreText DEF BytesInv, TypeInv, CompilerState
        <3>2. Plannable(insts) /\ Len(s) \in {PlanWidth(insts), AltWidth(insts)}
            BY <2>2, <2>3 DEF FastAccepts, BytesInv, TypeInv, PlanState
        <3>3. FastBytes(s) = 0..(Len(s) - 1)
            BY <2>3, <3>1, <3>2, PlannedBytes DEF FastAccepts, FastBytes
        <3>4. run'.read = FastBytes(s)
            BY <2>1, <2>3 DEF FastOutcome, FreshRun
        <3> QED
            BY <1>0, <2>1, <2>2, <3>3, <3>4 DEF BytesInv, EveryByteOnce
    <2>4. CASE ~FastAccepts(s)
        BY <1>0, <2>1, <2>2, <2>4 DEF FastOutcome, Refused, BytesInv, EveryByteOnce
    <2> QED
        BY <2>3, <2>4
<1>7. CASE Return
    BY <1>0, <1>7 DEF Return, NoAnswer, BytesInv, EveryByteOnce
<1>8. CASE UNCHANGED vars
    BY <1>0, <1>8 DEF vars, BytesInv, EveryByteOnce, Counted, Offset
<1> QED
    BY <1>1, <1>2, <1>3, <1>4, <1>5, <1>6, <1>7, <1>8 DEF Next

\* Every byte of an accepted input is read once, by the counters of
\* execute.go:638 and by the plan of fast.go:50 alike, whatever the formats and
\* the inputs, as long as the fields of a format come in the order in which they
\* stand in the input: what compiler.go:101 asks of its caller.
THEOREM EveryByteOnceAlways ==
    ASSUME FormatsInOrder
    PROVE  Spec => []EveryByteOnce
<1>1. Init => BytesInv
    <2> SUFFICES ASSUME Init
                 PROVE  BytesInv
        OBVIOUS
    <2>1. TypeInv
        BY TypeInit
    <2>2. CompiledInOrder
        BY DEF Init, CompiledInOrder
    <2> QED
        BY <2>1, <2>2 DEF Init, BytesInv, EveryByteOnce, NoAnswer
<1>2. BytesInv /\ [Next]_vars => BytesInv'
    BY BytesStep
<1>3. BytesInv => EveryByteOnce
    BY DEF BytesInv
<1> QED
    BY <1>1, <1>2, <1>3, PTL DEF Spec

-----------------------------------------------------------------------------
\* What a format means, walked field by field.

\* The recursion of Walk.
LEMMA WalkRecursion ==
    ASSUME NEW fields, Len(fields) \in Nat, NEW s
    PROVE  /\ Walk(fields, s)[0] = AtStart
           /\ \A i \in 1..Len(fields) :
                 Walk(fields, s)[i] = ReadOn(fields[i], s, Walk(fields, s)[i - 1])
<1> DEFINE IsWalk(n, g) ==
               g = [i \in 0..n |-> IF i = 0 THEN AtStart ELSE ReadOn(fields[i], s, g[i - 1])]
           S == {n \in Nat : \E g : IsWalk(n, g)}
<1>1. 0 \in S
    <2> DEFINE g == [i \in 0..0 |-> AtStart]
    <2>1. IsWalk(0, g)
        OBVIOUS
    <2> QED
        BY <2>1
<1>2. ASSUME NEW n \in Nat, n \in S
      PROVE  n + 1 \in S
    <2>1. PICK g : IsWalk(n, g)
        BY <1>2
    <2> DEFINE h == [i \in 0..(n + 1) |-> IF i = n + 1 THEN ReadOn(fields[n + 1], s, g[n]) ELSE g[i]]
    <2>2. \A i \in 0..n : h[i] = g[i]
        OBVIOUS
    <2>3. ASSUME NEW i \in 0..(n + 1)
          PROVE  h[i] = IF i = 0 THEN AtStart ELSE ReadOn(fields[i], s, h[i - 1])
        <3>1. CASE i = n + 1
            <4>1. h[i - 1] = g[n]
                BY <3>1
            <4> QED
                BY <3>1, <4>1
        <3>2. CASE i # n + 1
            <4>1. i \in 0..n /\ (i # 0 => i - 1 \in 0..n)
                BY <3>2
            <4>2. g[i] = IF i = 0 THEN AtStart ELSE ReadOn(fields[i], s, g[i - 1])
                BY <2>1, <4>1
            <4> QED
                BY <2>2, <4>1, <4>2
        <3> QED
            BY <3>1, <3>2
    <2>4. IsWalk(n + 1, h)
        <3> HIDE DEF h
        <3>1. h = [i \in 0..(n + 1) |-> h[i]]
            BY DEF h
        <3> QED
            BY <2>3, <3>1
    <2> HIDE DEF h, IsWalk
    <2> QED
        BY <2>4
<1>3. \A n \in Nat : n \in S
    <2> HIDE DEF S
    <2> QED
        BY <1>1, <1>2, NatSetInduction
<1>4. IsWalk(Len(fields), Walk(fields, s))
    <2>1. \E g : IsWalk(Len(fields), g)
        BY <1>3
    <2> QED
        BY <2>1 DEF Walk
<1> DEFINE w == Walk(fields, s)
<1> HIDE DEF w
<1>5. w = [i \in 0..Len(fields) |-> IF i = 0 THEN AtStart ELSE ReadOn(fields[i], s, w[i - 1])]
    BY <1>4 DEF w
<1>6. w[0] = AtStart /\ \A i \in 1..Len(fields) : w[i] = ReadOn(fields[i], s, w[i - 1])
    BY <1>5
<1> QED
    BY <1>6 DEF w

\* A format read with one field more is read alike up to that field.
LEMMA WalkAppend ==
    ASSUME NEW is \in Seq(Insts), NEW inst \in Insts, NEW s
    PROVE  InOrder(Append(is, inst), s) = ReadOn(inst, s, InOrder(is, s))
<1> DEFINE js == Append(is, inst)
           S == {i \in Nat : i <= Len(is) => Walk(js, s)[i] = Walk(is, s)[i]}
<1>1. /\ Len(is) \in Nat /\ Len(js) = Len(is) + 1 /\ js[Len(is) + 1] = inst
      /\ \A i \in 1..Len(is) : js[i] = is[i]
    BY AppendProperties
<1> HIDE DEF js
<1>2. /\ Walk(is, s)[0] = AtStart /\ Walk(js, s)[0] = AtStart
      /\ \A i \in 1..Len(is) : Walk(is, s)[i] = ReadOn(is[i], s, Walk(is, s)[i - 1])
      /\ \A i \in 1..Len(js) : Walk(js, s)[i] = ReadOn(js[i], s, Walk(js, s)[i - 1])
    BY <1>1, WalkRecursion
<1>3. 0 \in S
    BY <1>2
<1>4. ASSUME NEW n \in Nat, n \in S
      PROVE  n + 1 \in S
    <2>1. SUFFICES ASSUME n + 1 <= Len(is)
                   PROVE  Walk(js, s)[n + 1] = Walk(is, s)[n + 1]
        BY <1>4
    <2>2. n + 1 \in 1..Len(is) /\ n + 1 \in 1..Len(js) /\ (n + 1) - 1 = n /\ n <= Len(is)
        BY <1>1, <2>1
    <2>3. Walk(js, s)[n] = Walk(is, s)[n]
        BY <1>4, <2>2
    <2> QED
        BY <1>1, <1>2, <2>2, <2>3
<1>5. \A n \in Nat : n \in S
    <2> HIDE DEF S
    <2> QED
        BY <1>3, <1>4, NatSetInduction
<1>6. Walk(js, s)[Len(is)] = Walk(is, s)[Len(is)]
    BY <1>1, <1>5
<1>7. Walk(js, s)[Len(is) + 1] = ReadOn(inst, s, Walk(js, s)[Len(is)])
    <2>1. Len(is) + 1 \in 1..Len(js) /\ (Len(is) + 1) - 1 = Len(is)
        BY <1>1
    <2> QED
        BY <1>1, <1>2, <2>1
<1> QED
    BY <1>1, <1>6, <1>7 DEF InOrder, js

-----------------------------------------------------------------------------
\* What a read sets: a register there is, and nothing but nothing to 0.
IsRegisters(regs) ==
    /\ regs = [reg \in DOMAIN FreshRegisters |-> regs[reg]]
    /\ regs["nothing"] = 0

Sets(got) ==
    /\ got.ok \in BOOLEAN
    /\ got.reg \in DOMAIN FreshRegisters
    /\ got.reg = "nothing" => got.v = 0

\* A number sets its register, whatever its width is said to be.
LEMMA NumberSets ==
    ASSUME NEW kind \in DOMAIN Register, NEW s, NEW off, NEW n, NEW w
    PROVE  Sets(ReadNumber(kind, s, off, n, w)) /\ Sets(ReadSpacePad(kind, s, off, w))
<1>1. Register[kind] \in DOMAIN FreshRegisters \ {"nothing"}
    BY DEF Register, FreshRegisters
<1>2. \A o, m : Sets(ReadNumber(kind, s, o, m, w))
    BY <1>1 DEF Sets, ReadNumber, NoRead, Got, FreshRegisters
<1> QED
    BY <1>2 DEF ReadSpacePad

\* A read that depends on a condition sets what it names, or nothing.
LEMMA IfSets ==
    ASSUME NEW cond, NEW w, NEW reg \in DOMAIN FreshRegisters, NEW v, reg = "nothing" => v = 0
    PROVE  Sets(ReadIf(cond, w, reg, v))
<1>1. NoRead.reg \in DOMAIN FreshRegisters
    BY DEF NoRead, FreshRegisters
<1> QED
    BY <1>1 DEF ReadIf, Got, NoRead, Sets

\* Every instruction sets a register there is.
LEMMA ReadSets ==
    ASSUME NEW inst \in Insts, NEW s, NEW off
    PROVE  Sets(Read(inst, s, off))
<1>0. inst.op \in Kinds
    BY DEF Insts
<1>1. CASE inst.op \in Fusible
    <2>1. Read(inst, s, off) = ReadNumeric(inst, s, off)
        BY <1>1 DEF Read, Fusible, OneOrTwo
    <2>2. inst.op \in DOMAIN Register
        BY <1>1 DEF Register, Fusible
    <2>3. Sets(NoRead)
        BY DEF Sets, NoRead, FreshRegisters
    <2> QED
        BY <2>1, <2>2, <2>3, NumberSets DEF ReadNumeric
<1>2. CASE inst.op \in OneOrTwo \cup {"ISOWeekDay", "OrdinalDay"}
    <2>1. inst.op \in DOMAIN Register
        BY <1>2 DEF Register, OneOrTwo
    <2>2. Read(inst, s, off) \in {Read1or2(inst.op, s, off), ReadNumber(inst.op, s, off, 1, 1),
                                  ReadNumber(inst.op, s, off, inst.len, inst.len)}
        BY <1>2 DEF Read, Fusible, OneOrTwo
    <2> QED
        BY <2>1, <2>2, NumberSets DEF Read1or2
<1>3. CASE inst.op \in {"MonthName", "FracSec", "AMPM"}
    <2>1. Read(inst, s, off) \in {ReadMonthName(inst, s, off), ReadFracSec(s, off, inst.len),
                                  ReadAMPM(s, off)}
        BY <1>3 DEF Read, Fusible, OneOrTwo
    <2>2. Sets(ReadMonthName(inst, s, off))
        BY IfSets DEF ReadMonthName, FreshRegisters
    <2>3. Sets(ReadFracSec(s, off, inst.len))
        BY IfSets DEF ReadFracSec, FreshRegisters
    <2>4. Sets(ReadAMPM(s, off))
        BY DEF ReadAMPM, Got, NoRead, Sets, FreshRegisters
    <2> QED
        BY <2>1, <2>2, <2>3, <2>4
<1>4. CASE inst.op \in {"TZZ", "TZOffset", "TZName", "TZZOrOffset"}
    <2>1. Read(inst, s, off) \in {ReadZ(s, off), ReadTZOffset(s, off, inst.len),
                                  ReadTZName(s, off, inst.len)}
        BY <1>4 DEF Read, Fusible, OneOrTwo
    <2>2. Sets(ReadZ(s, off))
        BY DEF ReadZ, ReadIf, Got, NoRead, Sets, FreshRegisters
    <2>3. Sets(ReadTZOffset(s, off, inst.len))
        BY DEF ReadTZOffset, ParseTZOffset, Got, NoRead, Sets, FreshRegisters
    <2>4. Sets(ReadTZName(s, off, inst.len))
        BY DEF ReadTZName, Got, NoRead, Sets, FreshRegisters
    <2> QED
        BY <2>1, <2>2, <2>3, <2>4
<1>5. CASE inst.op \in {"Literal", "Skip", "Tail"}
    <2>1. \/ Read(inst, s, off)
               = ReadIf(AllAccepted(inst.aux, s, off, inst.len), inst.len, "nothing", 0)
          \/ Read(inst, s, off) = ReadTail(s, off)
        BY <1>5 DEF Read, Fusible, OneOrTwo
    <2>2. Sets(ReadTail(s, off))
        BY IfSets DEF ReadTail, FreshRegisters
    <2> QED
        BY <2>1, <2>2, IfSets DEF FreshRegisters
<1> QED
    BY <1>0, <1>1, <1>2, <1>3, <1>4, <1>5 DEF Kinds, FixedKinds

\* A reader is in good order, or has been refused.
Sound(p) == p.ok \in BOOLEAN /\ (p.ok => p.pos \in Nat /\ IsRegisters(p.regs))

\* Reading a field on keeps a reader sound.
LEMMA ReadOnSound ==
    ASSUME NEW inst \in Insts, NEW s \in Seq(Alphabet), NEW p, Sound(p)
    PROVE  Sound(ReadOn(inst, s, p))
<1>1. CASE ~p.ok
    BY <1>1 DEF ReadOn
<1>2. CASE p.ok
    <2> DEFINE got == Read(inst, s, p.pos)
    <2>1. p.pos \in Nat /\ IsRegisters(p.regs) /\ Sets(got)
        BY <1>2, ReadSets DEF Sound
    <2>2. got.ok => got.w \in Nat
        BY <2>1, ReadWidth
    <2>3. ReadOn(inst, s, p) = ReadAt(p, got)
        BY <1>2 DEF ReadOn
    <2> HIDE DEF got
    <2>4. IsRegisters([p.regs EXCEPT ![got.reg] = got.v])
        BY <2>1 DEF IsRegisters, Sets
    <2> QED
        BY <2>1, <2>2, <2>3, <2>4 DEF ReadAt, Sound, Sets
<1> QED
    BY <1>1, <1>2 DEF Sound

\* So the walk of any format is sound at every field.
LEMMA WalkSound ==
    ASSUME NEW is \in Seq(Insts), NEW s \in Seq(Alphabet), NEW n \in 0..Len(is)
    PROVE  Sound(Walk(is, s)[n])
<1> DEFINE S == {i \in Nat : i <= Len(is) => Sound(Walk(is, s)[i])}
<1>1. Len(is) \in Nat
    OBVIOUS
<1>2. /\ Walk(is, s)[0] = AtStart
      /\ \A i \in 1..Len(is) : Walk(is, s)[i] = ReadOn(is[i], s, Walk(is, s)[i - 1])
    BY <1>1, WalkRecursion
<1>3. 0 \in S
    <2>1. IsRegisters(FreshRegisters)
        BY DEF IsRegisters, FreshRegisters
    <2>2. Sound(AtStart)
        BY <2>1 DEF Sound, AtStart
    <2> QED
        BY <1>2, <2>2
<1>4. ASSUME NEW i \in Nat, i \in S
      PROVE  i + 1 \in S
    <2>1. SUFFICES ASSUME i + 1 <= Len(is)
                   PROVE  Sound(Walk(is, s)[i + 1])
        BY <1>4
    <2>2. i + 1 \in 1..Len(is) /\ (i + 1) - 1 = i /\ i <= Len(is)
        BY <1>1, <2>1
    <2>3. Sound(Walk(is, s)[i]) /\ is[i + 1] \in Insts
        BY <1>4, <2>2
    <2> QED
        BY <1>2, <2>2, <2>3, ReadOnSound
<1>5. \A i \in Nat : i \in S
    <2> HIDE DEF S
    <2> QED
        BY <1>3, <1>4, NatSetInduction
<1> QED
    BY <1>1, <1>5

\* A reader once refused stays so.
LEMMA WalkStops ==
    ASSUME NEW is \in Seq(Insts), NEW s, NEW n \in 0..Len(is), ~Walk(is, s)[n].ok
    PROVE  ~InOrder(is, s).ok
<1> DEFINE S == {i \in Nat : n + i <= Len(is) => ~Walk(is, s)[n + i].ok}
<1>1. Len(is) \in Nat /\ n \in Nat
    OBVIOUS
<1>2. \A i \in 1..Len(is) : Walk(is, s)[i] = ReadOn(is[i], s, Walk(is, s)[i - 1])
    BY <1>1, WalkRecursion
<1>3. 0 \in S
    BY <1>1
<1>4. ASSUME NEW i \in Nat, i \in S
      PROVE  i + 1 \in S
    <2>1. SUFFICES ASSUME n + (i + 1) <= Len(is)
                   PROVE  ~Walk(is, s)[n + (i + 1)].ok
        BY <1>4
    <2>2. n + (i + 1) \in 1..Len(is) /\ (n + (i + 1)) - 1 = n + i /\ n + i <= Len(is)
        BY <1>1, <2>1
    <2> QED
        BY <1>2, <1>4, <2>2 DEF ReadOn
<1>5. \A i \in Nat : i \in S
    <2> HIDE DEF S
    <2> QED
        BY <1>3, <1>4, NatSetInduction
<1>6. Len(is) - n \in Nat /\ n + (Len(is) - n) = Len(is)
    BY <1>1
<1> QED
    BY <1>5, <1>6 DEF InOrder

-----------------------------------------------------------------------------
\* A separator fused onto a number.

\* The bytes that are no digit are the ones a fused separator accepts, where the
\* literal it was made from said nothing else.
LEMMA AnyIsNoDigit ==
    ASSUME NEW c \in Alphabet
    PROVE  LitAccepts("Any", c) <=> LitAccepts(NoAux, c)
<1> DEFINE others == {"é", "NUL", "!", "(", ")"}
<1>1. LitAccepts("Any", c) <=> c \in Class.Any
    BY DEF LitAccepts, Class, NoAux
<1>2. LitAccepts(NoAux, c) <=> ~IsDigit(c)
    BY DEF LitAccepts, Class, NoAux
<1>3. Class.Any = Alpha \cup Punctuation \cup others
    BY DEF Class
<1>4. Class.Any \cap DOMAIN Digit = {}
    <2>1. DOMAIN Digit = {"0", "1", "2", "3", "4", "5", "6", "7", "8", "9"}
        BY DEF Digit
    <2>2. Alpha \cap DOMAIN Digit = {}
        BY <2>1 DEF Alpha
    <2>3. Punctuation \cap DOMAIN Digit = {}
        BY <2>1 DEF Punctuation
    <2>4. others \cap DOMAIN Digit = {}
        BY <2>1
    <2> HIDE DEF others
    <2> QED
        BY <1>3, <2>2, <2>3, <2>4
<1> QED
    BY <1>1, <1>2, <1>4 DEF Alphabet, IsDigit

\* What a fused separator accepts is what its literal accepts.
LEMMA SeparatorIsLiteral ==
    ASSUME NEW g \in Insts, NEW s \in Seq(Alphabet), NEW off \in Nat
    PROVE  Separated(SeparatorAux(g), s, off) <=> AllAccepted(g.aux, s, off, 1)
<1>1. SeparatorAux(g) # NoAux
    BY DEF SeparatorAux, NoAux
<1>2. CASE g.aux # NoAux
    BY <1>1, <1>2 DEF SeparatorAux, Separated
<1>3. CASE g.aux = NoAux
    <2>1. SeparatorAux(g) = "Any"
        BY <1>3 DEF SeparatorAux
    <2>2. ASSUME Within(s, off, 1), NEW i \in off..(off + 1 - 1)
          PROVE  ByteAt(s, i) \in Alphabet
        BY <2>2 DEF Within, ByteAt
    <2>3. ASSUME Within(s, off, 1), NEW i \in off..(off + 1 - 1)
          PROVE  LitAccepts("Any", ByteAt(s, i)) <=> LitAccepts(NoAux, ByteAt(s, i))
        BY <2>2, <2>3, AnyIsNoDigit
    <2> QED
        BY <1>1, <1>3, <2>1, <2>3 DEF Separated, AllAccepted
<1> QED
    BY <1>2, <1>3

\* The two readings are the same, or both refuse.
Alike(p, q) == p = q \/ (~p.ok /\ ~q.ok)

\* How wide a number is said to be changes nothing else that is read of it.
LEMMA NumberOfAnyWidth ==
    ASSUME NEW kind, NEW s, NEW off, NEW n, NEW v, NEW w
    PROVE  /\ ReadNumber(kind, s, off, n, v).ok <=> ReadNumber(kind, s, off, n, w).ok
           /\ ReadNumber(kind, s, off, n, v).reg = ReadNumber(kind, s, off, n, w).reg
           /\ ReadNumber(kind, s, off, n, v).v = ReadNumber(kind, s, off, n, w).v
           /\ ReadSpacePad(kind, s, off, v).ok <=> ReadSpacePad(kind, s, off, w).ok
           /\ ReadSpacePad(kind, s, off, v).reg = ReadSpacePad(kind, s, off, w).reg
           /\ ReadSpacePad(kind, s, off, v).v = ReadSpacePad(kind, s, off, w).v
<1>1. \A o, m : /\ ReadNumber(kind, s, o, m, v).ok <=> ReadNumber(kind, s, o, m, w).ok
                /\ ReadNumber(kind, s, o, m, v).reg = ReadNumber(kind, s, o, m, w).reg
                /\ ReadNumber(kind, s, o, m, v).v = ReadNumber(kind, s, o, m, w).v
    BY DEF ReadNumber, Got, NoRead
<1> QED
    BY <1>1 DEF ReadSpacePad

\* A fused instruction reads what its number and its literal read one after the
\* other.
LEMMA FusedReadsBoth ==
    ASSUME NEW f \in Insts, f.op \in Fusible, f.aux = NoAux,
           NEW g \in Insts, g.op = "Literal", g.len = 1,
           NEW s \in Seq(Alphabet), NEW p, Sound(p)
    PROVE  Alike(ReadOn([f EXCEPT !.aux = SeparatorAux(g)], s, p), ReadOn(g, s, ReadOn(f, s, p)))
<1> DEFINE inst == [f EXCEPT !.aux = SeparatorAux(g)]
           n == NumericWidth(f.op)
           number == Read(f, s, p.pos)
           both == Read(inst, s, p.pos)
           separated == AllAccepted(g.aux, s, p.pos + n, 1)
<1>1. SUFFICES ASSUME p.ok
               PROVE  Alike(ReadOn(inst, s, p), ReadOn(g, s, ReadOn(f, s, p)))
    BY DEF ReadOn, Alike
<1>2. p.pos \in Nat /\ IsRegisters(p.regs) /\ n \in Nat
    BY <1>1 DEF Sound, NumericWidth
<1>3. inst.op = f.op /\ inst.aux = SeparatorAux(g) /\ inst.aux # NoAux
    BY DEF Insts, SeparatorAux, NoAux
<1>4. number = ReadNumeric(f, s, p.pos) /\ both = ReadNumeric(inst, s, p.pos)
    BY <1>3 DEF Read, Fusible, OneOrTwo
<1>5. Separated(f.aux, s, p.pos + n) /\ SeparatorWidth(f.aux) = 0 /\ SeparatorWidth(inst.aux) = 1
    BY <1>3 DEF Separated, SeparatorWidth
<1>6. Separated(inst.aux, s, p.pos + n) <=> separated
    BY <1>2, <1>3, SeparatorIsLiteral
<1>7. /\ number = IF f.op = "DaySpacePad" THEN ReadSpacePad(f.op, s, p.pos, n + 0)
                  ELSE ReadNumber(f.op, s, p.pos, n, n + 0)
      /\ both = IF ~separated THEN NoRead
                ELSE IF f.op = "DaySpacePad" THEN ReadSpacePad(f.op, s, p.pos, n + 1)
                ELSE ReadNumber(f.op, s, p.pos, n, n + 1)
    BY <1>3, <1>4, <1>5, <1>6 DEF ReadNumeric
<1>8. /\ both.ok <=> number.ok /\ separated
      /\ both.ok => both.w = n + 1 /\ both.reg = number.reg /\ both.v = number.v
      /\ number.ok => number.w = n
    <2>1. number.ok => number.w = n + 0
        BY <1>7, NumberWidth, SpacePadWidth
    <2>2. both.ok => both.w = n + 1
        BY <1>7, NumberWidth, SpacePadWidth DEF NoRead
    <2>3. /\ both.ok <=> number.ok /\ separated
          /\ both.ok => both.reg = number.reg /\ both.v = number.v
        BY <1>7, NumberOfAnyWidth DEF NoRead
    <2> HIDE DEF number, both, n
    <2> QED
        BY <1>2, <2>1, <2>2, <2>3
<1>9. Sets(number) /\ Sets(both)
    <2>1. SeparatorAux(g) \in Auxes
        BY DEF SeparatorAux, Auxes, Insts
    <2>2. inst \in Insts
        BY <2>1 DEF Insts
    <2> QED
        BY <2>2, ReadSets
<1>10. Read(g, s, p.pos + n) = IF separated THEN Got(1, "nothing", 0) ELSE NoRead
    BY DEF Read, Fusible, OneOrTwo, ReadIf
<1>11. ReadOn(inst, s, p) = ReadAt(p, both) /\ ReadOn(f, s, p) = ReadAt(p, number)
    BY <1>1 DEF ReadOn
<1> HIDE DEF number, both, separated, n, inst
<1>12. CASE ~number.ok
    BY <1>8, <1>11, <1>12 DEF ReadOn, ReadAt, Alike
<1>13. CASE number.ok /\ ~separated
    <2>1. ReadAt(p, number).ok /\ ReadAt(p, number).pos = p.pos + n
        BY <1>8, <1>13 DEF ReadAt
    <2>2. ~ReadOn(g, s, ReadAt(p, number)).ok
        BY <1>10, <1>13, <2>1 DEF ReadOn, ReadAt, NoRead
    <2> QED
        BY <1>8, <1>11, <1>13, <2>2 DEF ReadAt, Alike
<1>14. CASE number.ok /\ separated
    <2> DEFINE regs == [p.regs EXCEPT ![number.reg] = number.v]
    <2>1. ReadAt(p, number) = [ok |-> TRUE, pos |-> p.pos + n, regs |-> regs]
        BY <1>8, <1>9, <1>14 DEF ReadAt, Sets
    <2>2. ReadAt(p, both) = [ok |-> TRUE, pos |-> p.pos + (n + 1), regs |-> regs]
        BY <1>8, <1>9, <1>14 DEF ReadAt, Sets
    <2>3. IsRegisters(regs)
        BY <1>2, <1>9 DEF IsRegisters, Sets
    <2> HIDE DEF regs
    <2>4. ReadOn(g, s, ReadAt(p, number))
            = [ok |-> TRUE, pos |-> (p.pos + n) + 1, regs |-> [regs EXCEPT !["nothing"] = 0]]
        <3> DEFINE q == [ok |-> TRUE, pos |-> p.pos + n, regs |-> regs]
        <3>1. ReadOn(g, s, q) = ReadAt(q, Read(g, s, q.pos))
            BY DEF ReadOn
        <3>2. Read(g, s, q.pos) = Got(1, "nothing", 0)
            BY <1>10, <1>14
        <3>3. q.pos = p.pos + n /\ q.regs = regs /\ q = ReadAt(p, number)
            BY <2>1
        <3> HIDE DEF q
        <3>4. ReadAt(q, Got(1, "nothing", 0))
                = [ok |-> TRUE, pos |-> q.pos + 1, regs |-> [q.regs EXCEPT !["nothing"] = 0]]
            BY DEF ReadAt, Got
        <3> QED
            BY <3>1, <3>2, <3>3, <3>4
    <2>5. [regs EXCEPT !["nothing"] = 0] = regs
        BY <2>3 DEF IsRegisters
    <2>6. (p.pos + n) + 1 = p.pos + (n + 1)
        <3>1. \A a, b \in Nat : (a + b) + 1 = a + (b + 1)
            OBVIOUS
        <3> QED
            BY <1>2, <3>1
    <2> QED
        BY <1>11, <2>2, <2>4, <2>5, <2>6 DEF Alike
<1> QED
    BY <1>12, <1>13, <1>14 DEF inst

-----------------------------------------------------------------------------
\* Compiling changes nothing that is read.

FormatsAdjoin == \A d \in DOMAIN Defs : Adjoining(Defs[d])

\* The instructions take each byte up to the field to come, which is next to them.
CompiledAdjoining ==
    /\ Adjoining(insts)
    /\ next <= Len(Fields) => IF insts = <<>> THEN Fields[next].offset = 0
                                              ELSE Adjoins(insts[Len(insts)], Fields[next])

\* They read what the fields read that they were made of.
CompiledAlike ==
    \A s \in Inputs[def] : Alike(InOrder(insts, s), Walk(Fields, s)[next - 1])

\* Reading the same on from alike places leads to alike places.
LEMMA ReadOnAlike ==
    ASSUME NEW f, NEW s, NEW p, NEW q, Alike(p, q)
    PROVE  Alike(ReadOn(f, s, p), ReadOn(f, s, q))
BY DEF Alike, ReadOn

\* Alike is transitive.
LEMMA AlikeTransitive ==
    ASSUME NEW p, NEW q, NEW r, Alike(p, q), Alike(q, r)
    PROVE  Alike(p, r)
BY DEF Alike

\* Fields that adjoin are in order.
LEMMA AdjoiningIsOrdered ==
    FormatsAdjoin => FormatsInOrder
<1>1. SUFFICES ASSUME FormatsAdjoin, NEW d \in DOMAIN Defs, NEW i \in DOMAIN Defs[d], i > 1
               PROVE  Follows(Defs[d][i - 1], Defs[d][i])
    BY DEF FormatsInOrder, Ordered
<1>2. Defs[d] \in Seq(Insts) /\ i \in 1..Len(Defs[d]) /\ i # 1
    BY <1>1, FieldsAreInsts
<1>3. Adjoins(Defs[d][i - 1], Defs[d][i])
    BY <1>1, <1>2 DEF FormatsAdjoin, Adjoining
<1>4. Defs[d][i - 1].offset + Width(Defs[d][i - 1]) \in Nat
    <2>1. Defs[d][i - 1] \in Insts
        BY <1>1, <1>2
    <2> QED
        BY <2>1, WidthsAreNaturals DEF Insts
<1> QED
    BY <1>3, <1>4 DEF Adjoins, Follows

\* Two fields of a format, one next to the other.
LEMMA NextFieldAdjoins ==
    ASSUME FormatsAdjoin, TypeInv, NEW i \in 1..Len(Fields), i + 1 <= Len(Fields)
    PROVE  Adjoins(Fields[i], Fields[i + 1])
<1>1. Fields \in Seq(Insts) /\ Adjoining(Fields)
    BY FieldsAreInsts DEF FormatsAdjoin, TypeInv, CompilerState, Fields
<1>2. i + 1 \in DOMAIN Fields /\ i + 1 # 1 /\ (i + 1) - 1 = i
    BY <1>1
<1> QED
    BY <1>1, <1>2 DEF Adjoining

\* An instruction that begins where its field does, and next to which the field
\* to come is, keeps that.
LEMMA EmitKeepsAdjoining ==
    ASSUME TypeInv, CompiledAdjoining, Compiling(next), NEW inst \in Insts, NEW n \in {1, 2},
           inst.offset = Fields[next].offset, inst.op = Fields[next].op,
           next + n <= Len(Fields) => Adjoins(inst, Fields[next + n]),
           Emit(inst, n)
    PROVE  CompiledAdjoining'
<1>1. /\ Len(insts') = Len(insts) + 1 /\ Len(insts) \in Nat /\ insts' # <<>>
      /\ \A i \in 1..Len(insts) : insts'[i] = insts[i]
      /\ insts'[Len(insts) + 1] = inst
      /\ DOMAIN insts' = 1..(Len(insts) + 1) /\ DOMAIN insts = 1..Len(insts)
    BY AppendProperties DEF Emit, TypeInv, CompilerState
<1>2. ASSUME NEW i \in 1..(Len(insts) + 1)
      PROVE  IF i = 1 THEN insts'[i].offset = 0 ELSE Adjoins(insts'[i - 1], insts'[i])
    <2>1. CASE i <= Len(insts)
        <3>1. i \in DOMAIN insts /\ (i # 1 => i - 1 \in 1..Len(insts))
            BY <1>1, <1>2, <2>1
        <3>2. IF i = 1 THEN insts[i].offset = 0 ELSE Adjoins(insts[i - 1], insts[i])
            BY <3>1 DEF CompiledAdjoining, Adjoining
        <3> QED
            BY <1>1, <2>1, <3>1, <3>2
    <2>2. CASE i = Len(insts) + 1 /\ i = 1
        <3>1. insts = <<>>
            BY <1>1, <2>2 DEF TypeInv, CompilerState
        <3> QED
            BY <1>1, <2>2, <3>1 DEF CompiledAdjoining, Compiling
    <2>3. CASE i = Len(insts) + 1 /\ i # 1
        <3>1. insts # <<>> /\ insts'[i - 1] = insts[Len(insts)] /\ insts'[i] = inst
            BY <1>1, <1>2, <2>3
        <3>2. Adjoins(insts[Len(insts)], Fields[next])
            BY <3>1 DEF CompiledAdjoining, Compiling
        <3> QED
            BY <2>3, <3>1, <3>2 DEF Adjoins
    <2> QED
        BY <1>1, <1>2, <2>1, <2>2, <2>3
<1>3. next' = next + n /\ Fields' = Fields
    BY DEF Emit, Fields
<1>4. Adjoining(insts')
    BY <1>1, <1>2 DEF Adjoining
<1> QED
    BY <1>1, <1>3, <1>4 DEF CompiledAdjoining, Adjoining

\* A field that is fused carries no separator yet, and what follows its literal
\* follows the instruction.
LEMMA FusedFields ==
    ASSUME FormatsAdjoin, TypeInv, Compiling(next), Addressable(Fields[next]), Fuses(next)
    PROVE  LET f == Fields[next]
               g == Fields[next + 1]
               inst == [f EXCEPT !.aux = SeparatorAux(g)]
           IN  /\ next + 1 <= Len(Fields)
               /\ f \in Insts /\ f.op \in Fusible /\ f.aux = NoAux
               /\ g \in Insts /\ g.op = "Literal" /\ g.len = 1
               /\ inst \in Insts /\ inst.op = f.op /\ inst.offset = f.offset
               /\ next + 2 <= Len(Fields) => Adjoins(inst, Fields[next + 2])
<1> DEFINE f == Fields[next]
           g == Fields[next + 1]
           inst == [f EXCEPT !.aux = SeparatorAux(g)]
           n == NumericWidth(f.op)
<1>1. /\ Fields \in Seq(Insts) /\ next \in 1..Len(Fields) /\ next + 1 <= Len(Fields)
      /\ Len(Fields) \in Nat
    BY FieldsAreInsts, EmittedInsts DEF TypeInv, CompilerState, Fields, Compiling
<1>2. f \in Insts /\ g \in Insts /\ inst \in Insts
    <2>1. next + 1 \in 1..Len(Fields)
        BY <1>1
    <2> QED
        BY <1>1, <2>1, EmittedInsts
<1>3. /\ f.op \in Fusible /\ g.op = "Literal" /\ g.len = 1 /\ g.offset = f.offset + n
      /\ n \in Nat /\ f.offset \in Nat
    BY <1>2 DEF Fuses, NumericWidth, Insts
<1>4. inst.op = f.op /\ inst.offset = f.offset /\ inst.aux = SeparatorAux(g)
    BY <1>2 DEF Insts
<1>5. f.aux = NoAux
    <2>1. g.offset = f.offset + (n + SeparatorWidth(f.aux))
        BY <1>1, <1>3, NextFieldAdjoins, FusibleWidth DEF Adjoins
    <2>2. SeparatorWidth(f.aux) \in {0, 1}
        BY DEF SeparatorWidth
    <2> HIDE DEF f, g, n
    <2>3. SeparatorWidth(f.aux) = 0
        BY <1>3, <2>1, <2>2
    <2> QED
        BY <2>3 DEF SeparatorWidth
<1>6. ASSUME next + 2 <= Len(Fields)
      PROVE  Adjoins(inst, Fields[next + 2])
    <2>1. Adjoins(g, Fields[next + 2])
        <3>1. next + 1 \in 1..Len(Fields) /\ (next + 1) + 1 = next + 2
            BY <1>1, <1>6
        <3> QED
            BY <1>6, <3>1, NextFieldAdjoins
    <2>2. Width(g) = 1
        BY <1>3 DEF Width, DeclaredWidth, FixedKinds, Fusible
    <2>3. Width(inst) = n + 1
        <3>1. inst.aux # NoAux
            <4>1. SeparatorAux(g) # NoAux
                BY DEF SeparatorAux, NoAux
            <4> QED
                BY <1>4, <4>1
        <3>2. Width(inst) = NumericWidth(inst.op) + SeparatorWidth(inst.aux)
            BY <1>3, <1>4, FusibleWidth
        <3> QED
            BY <1>4, <3>1, <3>2 DEF SeparatorWidth
    <2>4. Fields[next + 2].offset = (f.offset + n) + 1
        BY <1>3, <2>1, <2>2 DEF Adjoins
    <2>5. inst.op # "Tail" /\ inst.op # "TZZ"
        BY <1>3, <1>4 DEF Fusible
    <2> HIDE DEF f, g, n, inst
    <2>6. Fields[next + 2].offset = inst.offset + Width(inst)
        BY <1>3, <1>4, <2>3, <2>4
    <2> QED
        BY <2>5, <2>6 DEF Adjoins
<1> QED
    BY <1>1, <1>2, <1>3, <1>4, <1>5, <1>6

\* Emitting an instruction reads on as the fields do that it stands for.
LEMMA EmitKeepsAlike ==
    ASSUME TypeInv, CompiledAlike, Compiling(next), NEW inst \in Insts, NEW n \in {1, 2},
           next + n <= Len(Fields) + 1,
           \A s \in Inputs[def] : Alike(ReadOn(inst, s, Walk(Fields, s)[next - 1]),
                                        Walk(Fields, s)[next + n - 1]),
           Emit(inst, n)
    PROVE  CompiledAlike'
<1>1. /\ insts' = Append(insts, inst) /\ next' = next + n /\ def' = def /\ Fields' = Fields
      /\ insts \in Seq(Insts)
    BY DEF Emit, Fields, TypeInv, CompilerState
<1>2. ASSUME NEW s \in Inputs[def]
      PROVE  Alike(InOrder(insts', s), Walk(Fields, s)[next + n - 1])
    <2>1. InOrder(insts', s) = ReadOn(inst, s, InOrder(insts, s))
        BY <1>1, WalkAppend
    <2>2. Alike(ReadOn(inst, s, InOrder(insts, s)), ReadOn(inst, s, Walk(Fields, s)[next - 1]))
        BY ReadOnAlike DEF CompiledAlike
    <2> QED
        BY <2>1, <2>2, AlikeTransitive
<1>3. next' - 1 = next + n - 1
    <2>1. next \in Nat
        BY FieldsAreInsts DEF TypeInv, CompilerState, Fields
    <2> QED
        BY <1>1, <2>1
<1>4. \A s \in Inputs[def'] : Alike(InOrder(insts', s), Walk(Fields', s)[next' - 1])
    BY <1>1, <1>2, <1>3
<1> QED
    BY <1>4 DEF CompiledAlike

\* Compiling keeps both, and running changes no instruction.
LEMMA CompiledStep ==
    ASSUME FormatsAdjoin, TypeInv, CompiledAdjoining, CompiledAlike, [Next]_vars
    PROVE  CompiledAdjoining' /\ CompiledAlike'
<1>0. /\ Fields \in Seq(Insts) /\ Len(Fields) \in Nat
      /\ next \in Nat /\ next >= 1
      /\ \A s \in Inputs[def] : s \in Seq(Alphabet)
    BY FieldsAreInsts, InputsAreText DEF TypeInv, CompilerState, Fields
<1>1. \A s : \A i \in 1..Len(Fields) :
          Walk(Fields, s)[i] = ReadOn(Fields[i], s, Walk(Fields, s)[i - 1])
    BY <1>0, WalkRecursion
<1>2. CASE EmitField
    <2>1. next \in 1..Len(Fields) /\ next + 1 <= Len(Fields) + 1 /\ next + 1 - 1 = next
        BY <1>0, <1>2 DEF EmitField, Compiling
    <2>2. next + 1 <= Len(Fields) => Adjoins(Fields[next], Fields[next + 1])
        BY <2>1, NextFieldAdjoins
    <2>3. Fields[next] \in Insts /\ Compiling(next) /\ Emit(Fields[next], 1)
        BY <1>2, EmittedInsts DEF EmitField
    <2>4. ASSUME NEW s \in Inputs[def]
          PROVE  Alike(ReadOn(Fields[next], s, Walk(Fields, s)[next - 1]),
                       Walk(Fields, s)[next + 1 - 1])
        BY <1>1, <2>1 DEF Alike
    <2>5. CompiledAdjoining'
        BY <2>2, <2>3, EmitKeepsAdjoining
    <2>6. CompiledAlike'
        BY <2>1, <2>3, <2>4, EmitKeepsAlike
    <2> QED
        BY <2>5, <2>6
<1>3. CASE EmitFused
    <2> DEFINE f == Fields[next]
               g == Fields[next + 1]
               inst == [f EXCEPT !.aux = SeparatorAux(g)]
    <2>1. Compiling(next) /\ Addressable(f) /\ Fuses(next) /\ Emit(inst, 2)
        BY <1>3 DEF EmitFused
    <2>2. /\ next + 1 <= Len(Fields)
          /\ f \in Insts /\ f.op \in Fusible /\ f.aux = NoAux
          /\ g \in Insts /\ g.op = "Literal" /\ g.len = 1
          /\ inst \in Insts /\ inst.op = f.op /\ inst.offset = f.offset
          /\ next + 2 <= Len(Fields) => Adjoins(inst, Fields[next + 2])
        BY <2>1, FusedFields
    <2>3. /\ next \in 1..Len(Fields) /\ next + 1 \in 1..Len(Fields) /\ (next + 1) - 1 = next
          /\ next + 2 <= Len(Fields) + 1 /\ next + 2 - 1 = next + 1 /\ next - 1 \in 0..Len(Fields)
        BY <1>0, <2>2
    <2>4. ASSUME NEW s \in Inputs[def]
          PROVE  Alike(ReadOn(inst, s, Walk(Fields, s)[next - 1]), Walk(Fields, s)[next + 2 - 1])
        <3>1. Sound(Walk(Fields, s)[next - 1]) /\ s \in Seq(Alphabet)
            BY <1>0, <2>3, WalkSound
        <3>2. Walk(Fields, s)[next + 1] = ReadOn(g, s, ReadOn(f, s, Walk(Fields, s)[next - 1]))
            BY <1>1, <2>3
        <3> HIDE DEF f, g
        <3> QED
            BY <2>2, <2>3, <3>1, <3>2, FusedReadsBoth
    <2> HIDE DEF inst
    <2>5. CompiledAdjoining'
        BY <2>1, <2>2, EmitKeepsAdjoining
    <2>6. CompiledAlike'
        BY <2>1, <2>2, <2>3, <2>4, EmitKeepsAlike
    <2> QED
        BY <2>5, <2>6
<1>4. CASE ~(EmitField \/ EmitFused)
    <2>1. UNCHANGED <<def, insts, next>>
        BY <1>4 DEF Next, RefuseTooMany, RefuseField, FinishCompile, Execute, ExecuteFast,
            ReadField, FieldFails, Finish, Return, compiling, vars
    <2> QED
        BY <2>1 DEF CompiledAdjoining, CompiledAlike, Fields
<1> QED
    BY <1>2, <1>3, <1>4

-----------------------------------------------------------------------------
\* The interpreter is where the walk of its instructions is.
ReadSoFar ==
    /\ input \in Inputs[def] /\ run.delta \in Int
    /\ LET p == Walk(insts, input)[at - 1]
       IN  /\ p.ok /\ p.pos = run.end /\ p.pos = run.covered /\ p.regs = run.regs
           /\ at <= Len(insts) => Offset = p.pos

\* Such a walk is inside the program and sound.
LEMMA ReadingSound ==
    ASSUME TypeInv, ReadSoFar
    PROVE  LET p == Walk(insts, input)[at - 1]
           IN  /\ insts \in Seq(Insts) /\ Len(insts) \in Nat /\ at \in 1..(Len(insts) + 1)
               /\ input \in Seq(Alphabet)
               /\ p.ok /\ p.pos \in Nat /\ IsRegisters(p.regs)
<1>1. /\ insts \in Seq(Insts) /\ Len(insts) \in Nat /\ at \in 1..(Len(insts) + 1)
      /\ at - 1 \in 0..Len(insts)
    BY DEF TypeInv, CompilerState, CallState
<1>2. input \in Seq(Alphabet)
    BY InputsAreText DEF ReadSoFar, TypeInv, CompilerState
<1>3. Sound(Walk(insts, input)[at - 1])
    BY <1>1, <1>2, WalkSound
<1> QED
    BY <1>1, <1>2, <1>3 DEF ReadSoFar, Sound

\* The first instruction is where the input begins.
LEMMA StartsReading ==
    ASSUME TypeInv, CompiledAdjoining, Execute
    PROVE  ReadSoFar'
<1>1. /\ input' \in Inputs[def] /\ def' = def /\ insts' = insts /\ run' = FreshRun /\ at' = 1
    BY DEF Execute, compiling, TypeInv, CallState
<1>2. Walk(insts, input')[0] = AtStart
    <2>1. Len(insts) \in Nat
        BY DEF TypeInv, CompilerState
    <2> QED
        BY <2>1, WalkRecursion
<1>3. 1 <= Len(insts) => insts[1].offset = 0
    <2>1. 1 <= Len(insts) => 1 \in DOMAIN insts
        BY DEF TypeInv, CompilerState
    <2> QED
        BY <2>1 DEF CompiledAdjoining, Adjoining
<1>4. Walk(insts', input')[at' - 1] = AtStart
    <2>1. at' - 1 = 0
        BY <1>1
    <2> QED
        BY <1>1, <1>2, <2>1
<1>5. at' <= Len(insts') => insts'[at'].offset + run'.delta = 0
    BY <1>1, <1>3 DEF FreshRun
<1> QED
    BY <1>1, <1>4, <1>5 DEF ReadSoFar, AtStart, FreshRun, Offset

\* Reading an instruction takes both one field on.
LEMMA ReadsOn ==
    ASSUME TypeInv, CompiledAdjoining, ReadSoFar, ReadField
    PROVE  ReadSoFar'
<1> DEFINE inst == insts[at]
           p == Walk(insts, input)[at - 1]
           got == Read(inst, input, Offset)
<1>1. /\ insts \in Seq(Insts) /\ Len(insts) \in Nat /\ at \in 1..Len(insts) /\ inst \in Insts
      /\ insts' = insts /\ at' = at + 1 /\ input' = input /\ def' = def
      /\ input \in Seq(Alphabet)
      /\ p.ok /\ p.pos \in Nat /\ IsRegisters(p.regs)
    BY ReadingSound DEF ReadField, Reading, compiling
<1>2. /\ Offset = p.pos /\ Offset = inst.offset + run.delta
      /\ run.end = p.pos /\ run.covered = p.pos /\ run.regs = p.regs
    BY <1>1 DEF ReadSoFar, Offset
<1>3. /\ got.ok /\ got.w \in Nat
      /\ inst.op # "Tail" => got.w = Width(inst) + Shift(inst, got.w)
    BY <1>1, <1>2, ReadWidth DEF ReadField
<1>4. Walk(insts, input)[at] = ReadAt(p, got)
    <2>1. Walk(insts, input)[at] = ReadOn(inst, input, p)
        BY <1>1, WalkRecursion
    <2> QED
        BY <1>1, <1>2, <2>1 DEF ReadOn
<1>5. /\ run'.delta = run.delta + Shift(inst, got.w)
      /\ run'.covered = run.covered + got.w
      /\ run'.end = Furthest(run.end, Offset + got.w)
      /\ run'.regs = [run.regs EXCEPT ![got.reg] = got.v]
    BY DEF ReadField, Stepped, After
<1> HIDE DEF got, p
<1>6. Walk(insts', input')[at' - 1] = ReadAt(p, got)
    <2>1. at' - 1 = at
        BY <1>1
    <2> QED
        BY <1>1, <1>4, <2>1
<1>7. run'.end = p.pos + got.w /\ run'.covered = p.pos + got.w
    <2>1. \A a, w \in Nat : Furthest(a, a + w) = a + w
        BY DEF Furthest
    <2>2. p.pos \in Nat /\ got.w \in Nat
        BY <1>1, <1>3
    <2>3. run'.end = Furthest(p.pos, p.pos + got.w) /\ run'.covered = p.pos + got.w
        BY <1>2, <1>5
    <2> QED
        BY <2>1, <2>2, <2>3
<1>8. ASSUME at + 1 <= Len(insts)
      PROVE  insts[at + 1].offset + run'.delta = p.pos + got.w
    <2>1. Adjoins(inst, insts[at + 1])
        <3>1. at + 1 \in DOMAIN insts /\ at + 1 # 1 /\ (at + 1) - 1 = at
            BY <1>1, <1>8
        <3> QED
            BY <3>1 DEF CompiledAdjoining, Adjoining
    <2>2. insts[at + 1].offset = inst.offset + Width(inst) /\ inst.op # "Tail"
        BY <2>1 DEF Adjoins
    <2>3. inst.offset \in Nat /\ Width(inst) \in Nat
        BY <1>1, WidthsAreNaturals DEF Insts
    <2> DEFINE shift == Shift(inst, got.w)
    <2>4. shift \in Int /\ got.w = Width(inst) + shift
        BY <1>1, <1>3, <2>2 DEF Shift, Insts
    <2>5. run'.delta = run.delta + shift /\ inst.offset + run.delta = p.pos
        BY <1>2, <1>5
    <2>6. run.delta \in Int
        BY DEF ReadSoFar
    <2> HIDE DEF shift, inst
    <2> QED
        BY <1>1, <2>2, <2>3, <2>4, <2>5, <2>6
<1>9. run'.delta \in Int
    <2>1. Shift(inst, got.w) \in Int
        BY <1>1, <1>3 DEF Shift, Insts
    <2> QED
        BY <1>5, <2>1 DEF ReadSoFar
<1>10. at' <= Len(insts') => insts'[at'].offset + run'.delta = p.pos + got.w
    BY <1>1, <1>8
<1> QED
    BY <1>1, <1>2, <1>3, <1>5, <1>6, <1>7, <1>9, <1>10 DEF ReadSoFar, ReadAt, Offset

\* Alike readings have one meaning.
LEMMA AlikeMeaning ==
    ASSUME NEW p, NEW q, NEW s, Alike(p, q)
    PROVE  Meaning(p, s) = Meaning(q, s)
BY DEF Alike, Meaning

\* A format compiled whole means what its instructions do.
CompiledWhole == stage \notin {"compiling", "refused"} => next = Len(Fields) + 1

\* So its instructions mean what its fields mean.
LEMMA CompiledMeaning ==
    ASSUME TypeInv, CompiledAlike, CompiledWhole, stage \notin {"compiling", "refused"},
           NEW s \in Inputs[def]
    PROVE  Meaning(InOrder(insts, s), s) = Meaning(InOrder(Fields, s), s)
<1>1. next - 1 = Len(Fields)
    <2>1. Len(Fields) \in Nat
        BY FieldsAreInsts DEF TypeInv, CompilerState, Fields
    <2> QED
        BY <2>1 DEF CompiledWhole
<1>2. Alike(InOrder(insts, s), InOrder(Fields, s))
    BY <1>1 DEF CompiledAlike, InOrder
<1> QED
    BY <1>2, AlikeMeaning

\* A field that cannot be read is one that the walk cannot read either.
LEMMA FailsAlike ==
    ASSUME TypeInv, ReadSoFar, FieldFails
    PROVE  Meaning(InOrder(insts, input), input) = Refused
<1> DEFINE p == Walk(insts, input)[at - 1]
           got == Read(insts[at], input, Offset)
<1>1. /\ insts \in Seq(Insts) /\ Len(insts) \in Nat /\ at \in 1..Len(insts)
      /\ p.ok /\ p.pos \in Nat
    BY ReadingSound DEF FieldFails, Reading
<1>2. Offset = p.pos
    BY <1>1 DEF ReadSoFar
<1>3. ~got.ok
    BY <1>1, <1>2 DEF FieldFails
<1>4. Walk(insts, input)[at] = ReadAt(p, got)
    <2>1. Walk(insts, input)[at] = ReadOn(insts[at], input, p)
        BY <1>1, WalkRecursion
    <2> QED
        BY <1>1, <1>2, <2>1 DEF ReadOn
<1>5. ~Walk(insts, input)[at].ok /\ at \in 0..Len(insts)
    BY <1>1, <1>3, <1>4 DEF ReadAt
<1>6. ~InOrder(insts, input).ok
    BY <1>1, <1>5, WalkStops
<1> QED
    BY <1>6 DEF Meaning

\* Both counters at the input's length are the walk's place at it.
LEMMA FinishesAlike ==
    ASSUME TypeInv, ReadSoFar, stage = "reading", at > Len(insts)
    PROVE  Meaning(InOrder(insts, input), input)
             = IF DescribesInput(run, input) THEN Answer(run.regs) ELSE Refused
<1>1. at - 1 = Len(insts)
    BY ReadingSound
<1>2. /\ InOrder(insts, input).ok /\ InOrder(insts, input).pos = run.end
      /\ InOrder(insts, input).pos = run.covered /\ InOrder(insts, input).regs = run.regs
    BY <1>1 DEF ReadSoFar, InOrder
<1> QED
    BY <1>2 DEF Meaning, DescribesInput

-----------------------------------------------------------------------------
\* A planned program.

\* What a slot reads is for the register that the slot stands for.
LEMMA FastReadSets ==
    ASSUME NEW inst \in Insts, inst.op \in FastOps, NEW s, FastRead(inst, s).ok
    PROVE  FastRead(inst, s).reg = SlotOf(inst.op)
<1>1. \A kind, o, n, w : ReadNumber(kind, s, o, n, w).ok
                            => ReadNumber(kind, s, o, n, w).reg = Register[kind]
    BY DEF ReadNumber, Got, NoRead
<1>2. \A kind, o, w : ReadSpacePad(kind, s, o, w).ok
                         => ReadSpacePad(kind, s, o, w).reg = Register[kind]
    BY <1>1 DEF ReadSpacePad
<1>3. CASE inst.op \in Fusible
    <2>1. SlotOf(inst.op) = Register[inst.op]
        BY <1>3 DEF SlotOf, Fusible
    <2>2. FastRead(inst, s) \in {FastDay(inst, s), ReadNumeric(inst, s, inst.offset)}
        BY <1>3 DEF FastRead, Fusible
    <2>3. ReadNumeric(inst, s, inst.offset).ok
            => ReadNumeric(inst, s, inst.offset).reg = Register[inst.op]
        BY <1>1, <1>2 DEF ReadNumeric, NoRead
    <2>4. FastDay(inst, s).ok => FastDay(inst, s).reg = Register[inst.op]
        BY <1>2, <2>3 DEF FastDay, NoRead
    <2> QED
        BY <2>1, <2>2, <2>3, <2>4
<1>4. CASE inst.op \in {"FracSec", "AMPM"}
    <2>1. FastRead(inst, s) = IF inst.op = "FracSec" THEN ReadFracSec(s, inst.offset, inst.len)
                                                    ELSE ReadAMPM(s, inst.offset)
        BY <1>4 DEF FastRead, Fusible
    <2>2. SlotOf(inst.op) = IF inst.op = "FracSec" THEN "nsec" ELSE "ampm"
        BY <1>4 DEF SlotOf, Fusible
    <2>3. ReadFracSec(s, inst.offset, inst.len).ok
            => ReadFracSec(s, inst.offset, inst.len).reg = "nsec"
        BY DEF ReadFracSec, ReadIf, Got, NoRead
    <2>4. ReadAMPM(s, inst.offset).ok => ReadAMPM(s, inst.offset).reg = "ampm"
        BY DEF ReadAMPM, Got, NoRead
    <2> QED
        BY <1>4, <2>1, <2>2, <2>3, <2>4
<1>5. CASE inst.op \in {"TZZ", "TZOffset", "TZName", "TZZOrOffset"}
    <2>1. FastRead(inst, s) = FastZone(inst, s)
        BY <1>5 DEF FastRead, Fusible
    <2>2. SlotOf(inst.op) = "zone"
        BY <1>5 DEF SlotOf, Fusible
    <2>3. FastZone(inst, s) \in {ReadZ(s, inst.offset), ReadTZName(s, inst.offset, inst.len),
                                 ReadTZOffset(s, inst.offset, inst.len), NoRead}
        BY <1>5 DEF FastZone
    <2>4. ReadZ(s, inst.offset).ok => ReadZ(s, inst.offset).reg = "zone"
        BY DEF ReadZ, ReadIf, Got, NoRead
    <2>5. ReadTZName(s, inst.offset, inst.len).ok
            => ReadTZName(s, inst.offset, inst.len).reg = "zone"
        BY DEF ReadTZName, Got, NoRead
    <2>6. ReadTZOffset(s, inst.offset, inst.len).ok
            => ReadTZOffset(s, inst.offset, inst.len).reg = "zone"
        BY DEF ReadTZOffset, ParseTZOffset, Got, NoRead
    <2> QED
        BY <2>1, <2>2, <2>3, <2>4, <2>5, <2>6 DEF NoRead
<1> QED
    BY <1>3, <1>4, <1>5 DEF FastOps

\* A slot that holds no 'Z' is read as its instruction is, and as wide.
LEMMA SlotReads ==
    ASSUME NEW inst \in Insts, inst.op \in FastOps \ {"TZZ", "TZZOrOffset"}, NEW s
    PROVE  FastRead(inst, s) = Read(inst, s, inst.offset)
<1>1. CASE inst.op = "DaySpacePad"
    <2> DEFINE w == 2 + SeparatorWidth(inst.aux)
    <2>1. FastWidth(inst) = w /\ NumericWidth(inst.op) = 2
        BY <1>1 DEF FastWidth, NumericWidth, Fusible
    <2>2. FastRead(inst, s) = FastDay(inst, s)
        BY <1>1 DEF FastRead, Fusible
    <2>3. FastDay(inst, s) = IF ~Separated(inst.aux, s, inst.offset + 2) THEN NoRead
                             ELSE ReadSpacePad(inst.op, s, inst.offset, w)
        BY <1>1, <2>1 DEF FastDay
    <2>4. Read(inst, s, inst.offset) = ReadNumeric(inst, s, inst.offset)
        BY <1>1 DEF Read, Fusible, OneOrTwo
    <2> HIDE DEF w
    <2>5. ReadNumeric(inst, s, inst.offset)
            = IF ~Separated(inst.aux, s, inst.offset + 2) THEN NoRead
              ELSE ReadSpacePad(inst.op, s, inst.offset, w)
        BY <1>1, <2>1 DEF ReadNumeric, w
    <2> QED
        BY <2>2, <2>3, <2>4, <2>5
<1>2. CASE inst.op \in Fusible \ {"DaySpacePad"}
    <2>1. FastRead(inst, s) = ReadNumeric(inst, s, inst.offset)
        BY <1>2 DEF FastRead, FastDay, Fusible
    <2>2. Read(inst, s, inst.offset) = ReadNumeric(inst, s, inst.offset)
        BY <1>2 DEF Read, Fusible, OneOrTwo
    <2> QED
        BY <2>1, <2>2
<1>3. CASE inst.op = "FracSec"
    BY <1>3 DEF FastRead, Read, Fusible, OneOrTwo
<1>4. CASE inst.op = "AMPM"
    BY <1>4 DEF FastRead, Read, Fusible, OneOrTwo
<1>5. CASE inst.op \in {"TZOffset", "TZName"}
    <2>1. FastRead(inst, s) = FastZone(inst, s)
        BY <1>5 DEF FastRead, Fusible
    <2>2. FastZone(inst, s) = IF inst.op = "TZName" THEN ReadTZName(s, inst.offset, inst.len)
                              ELSE ReadTZOffset(s, inst.offset, inst.len)
        BY <1>5 DEF FastZone
    <2>3. Read(inst, s, inst.offset) = IF inst.op = "TZName"
                                       THEN ReadTZName(s, inst.offset, inst.len)
                                       ELSE ReadTZOffset(s, inst.offset, inst.len)
        BY <1>5 DEF Read, Fusible, OneOrTwo
    <2> QED
        BY <2>1, <2>2, <2>3
<1> QED
    BY <1>1, <1>2, <1>3, <1>4, <1>5 DEF FastOps, Fusible

\* A slot is as wide as its instruction is declared.
LEMMA SlotDeclared ==
    ASSUME NEW inst \in Insts, inst.op \in FastOps
    PROVE  FastWidth(inst) = Width(inst)
<1>1. CASE inst.op \in Fusible
    <2>1. FastWidth(inst) = NumericWidth(inst.op) + SeparatorWidth(inst.aux)
        BY <1>1 DEF FastWidth, Fusible
    <2> QED
        BY <1>1, <2>1, FusibleWidth
<1>2. CASE inst.op \in {"AMPM", "TZZ"}
    BY <1>2 DEF FastWidth, Width, DeclaredWidth, FixedKinds, FixedWidth, Fusible
<1>3. CASE inst.op \in {"FracSec", "TZOffset", "TZName", "TZZOrOffset"}
    BY <1>3 DEF FastWidth, Width, DeclaredWidth, FixedKinds, Fusible, Insts
<1> QED
    BY <1>1, <1>2, <1>3 DEF FastOps

\* The slots of a plan stand one after another, the last of them ends it, and a
\* zone that may be a 'Z' is the last.
LEMMA SlotsAdjoin ==
    ASSUME NEW is \in Seq(Insts), Plannable(is), Adjoining(is)
    PROVE  /\ Len(is) \in Nat /\ Len(is) >= 1
           /\ \A i \in 1..Len(is) :
                 /\ is[i] \in Insts /\ is[i].op \in FastOps /\ is[i].offset \in Nat
                 /\ FastWidth(is[i]) \in Nat \ {0}
           /\ is[1].offset = 0
           /\ \A i \in 1..Len(is) :
                 i < Len(is) => /\ is[i + 1].offset = is[i].offset + FastWidth(is[i])
                                /\ is[i].op \notin {"TZZ", "TZZOrOffset"}
           /\ PlanWidth(is) = is[Len(is)].offset + FastWidth(is[Len(is)])
<1>1. Len(is) \in Nat /\ Len(is) >= 1 /\ DOMAIN is = 1..Len(is)
    BY DEF Plannable
<1>2. ASSUME NEW i \in 1..Len(is)
      PROVE  /\ is[i] \in Insts /\ is[i].op \in FastOps /\ is[i].offset \in Nat
             /\ FastWidth(is[i]) \in Nat \ {0}
    <2>1. is[i] \in Insts /\ HasSlot(is[i])
        BY <1>1 DEF Plannable
    <2> QED
        BY <2>1, SlotWidths DEF HasSlot, Insts
<1>3. is[1].offset = 0
    BY <1>1 DEF Adjoining
<1>4. ASSUME NEW i \in 1..Len(is), i < Len(is)
      PROVE  is[i + 1].offset = is[i].offset + FastWidth(is[i]) /\ is[i].op # "TZZ"
    <2>1. i + 1 \in 1..Len(is) /\ i + 1 # 1 /\ (i + 1) - 1 = i
        BY <1>1, <1>4
    <2>2. Adjoins(is[i], is[i + 1])
        BY <1>1, <2>1 DEF Adjoining
    <2>3. is[i + 1].op \in FastOps
        BY <1>2, <2>1
    <2> QED
        BY <1>2, <2>2, <2>3, SlotDeclared DEF Adjoins
<1>5. ASSUME NEW i \in 1..Len(is), i < Len(is)
      PROVE  FastEnd(is[i]) < FastEnd(is[i + 1])
    <2>1. i + 1 \in 1..Len(is)
        BY <1>1, <1>5
    <2>2. FastWidth(is[i]) \in Nat /\ FastWidth(is[i + 1]) \in Nat \ {0} /\ is[i].offset \in Nat
        BY <1>2, <2>1
    <2>3. is[i + 1].offset = is[i].offset + FastWidth(is[i])
        BY <1>4, <1>5
    <2> QED
        BY <2>2, <2>3 DEF FastEnd
<1>6. ASSUME NEW i \in 1..Len(is), FastEnd(is[i]) = PlanWidth(is)
      PROVE  i = Len(is)
    <2>1. ASSUME i < Len(is)
          PROVE  FALSE
        <3>1. i + 1 \in 1..Len(is) /\ i + 1 \in DOMAIN is
            BY <1>1, <2>1
        <3>2. FastEnd(is[i + 1]) <= PlanWidth(is) /\ PlanWidth(is) \in Nat
            BY <3>1, PlanWidthIsLast
        <3>3. FastEnd(is[i]) < FastEnd(is[i + 1])
            BY <1>5, <2>1
        <3>4. FastEnd(is[i + 1]) \in Nat
            BY <1>2, <3>1 DEF FastEnd
        <3> QED
            BY <1>6, <3>2, <3>3, <3>4
    <2>2. i \in Nat /\ i <= Len(is) /\ ~(i < Len(is))
        BY <1>1, <2>1
    <2>3. \A a, b \in Nat : a <= b /\ ~(a < b) => a = b
        OBVIOUS
    <2> QED
        BY <1>1, <2>2, <2>3
<1>7. \E i \in 1..Len(is) : FastEnd(is[i]) = PlanWidth(is)
    BY <1>1, PlanWidthIsLast
<1>8. PlanWidth(is) = is[Len(is)].offset + FastWidth(is[Len(is)])
    BY <1>6, <1>7 DEF FastEnd
<1>9. ASSUME NEW i \in 1..Len(is), i < Len(is)
      PROVE  is[i].op # "TZZOrOffset"
    <2>1. is[i].op = "TZZOrOffset" => FastEnd(is[i]) = PlanWidth(is)
        BY <1>1 DEF Plannable, Tiles
    <2>2. FastEnd(is[i]) # PlanWidth(is)
        <3>1. FastEnd(is[i]) = PlanWidth(is) => i = Len(is)
            BY <1>6
        <3>2. \A a, b \in Nat : a < b => a # b
            OBVIOUS
        <3>3. i \in Nat
            BY <1>1
        <3>4. i # Len(is)
            BY <1>1, <1>9, <3>2, <3>3
        <3> QED
            BY <3>1, <3>4
    <2> QED
        BY <2>1, <2>2
<1> QED
    BY <1>1, <1>2, <1>3, <1>4, <1>8, <1>9

-----------------------------------------------------------------------------
\* What the slots before some place set.
SlotRegisters(is, s, n) ==
    [reg \in DOMAIN FreshRegisters |->
        IF \E i \in 1..n : SlotOf(is[i].op) = reg
        THEN FastRead(is[CHOOSE i \in Slots(is, reg) : TRUE], s).v
        ELSE FreshRegisters[reg]]

\* One slot more sets one register more.
LEMMA SlotRegistersStep ==
    ASSUME NEW is \in Seq(Insts), Plannable(is), NEW s, NEW n \in 1..Len(is)
    PROVE  SlotRegisters(is, s, n)
             = [SlotRegisters(is, s, n - 1) EXCEPT ![SlotOf(is[n].op)] = FastRead(is[n], s).v]
<1> DEFINE reg == SlotOf(is[n].op)
<1>1. Len(is) \in Nat /\ DOMAIN is = 1..Len(is)
    OBVIOUS
<1>2. ASSUME NEW i \in 1..Len(is), SlotOf(is[i].op) = reg
      PROVE  i = n
    BY <1>1, <1>2 DEF Plannable, Apart
<1>3. (CHOOSE i \in Slots(is, reg) : TRUE) = n
    <2>1. Slots(is, reg) = {n}
        BY <1>1, <1>2 DEF Slots
    <2> QED
        BY <2>1
<1>4. ASSUME NEW r \in DOMAIN FreshRegisters, r # reg
      PROVE  (\E i \in 1..n : SlotOf(is[i].op) = r) <=> (\E i \in 1..(n - 1) : SlotOf(is[i].op) = r)
    BY <1>4
<1>5. \E i \in 1..n : SlotOf(is[i].op) = reg
    BY <1>1
<1> HIDE DEF reg
<1>6. ASSUME NEW r \in DOMAIN FreshRegisters
      PROVE  SlotRegisters(is, s, n)[r] = IF r = reg THEN FastRead(is[n], s).v
                                                     ELSE SlotRegisters(is, s, n - 1)[r]
    <2>1. CASE r = reg
        <3>1. reg \in DOMAIN FreshRegisters
            BY <2>1
        <3>2. SlotRegisters(is, s, n)[reg] = FastRead(is[CHOOSE i \in Slots(is, reg) : TRUE], s).v
            BY <1>5, <3>1 DEF SlotRegisters
        <3> QED
            BY <1>3, <2>1, <3>2
    <2>2. CASE r # reg
        <3>1. (\E i \in 1..n : SlotOf(is[i].op) = r) <=> (\E i \in 1..(n - 1) : SlotOf(is[i].op) = r)
            BY <1>4, <2>2
        <3> QED
            BY <2>2, <3>1 DEF SlotRegisters
    <2> QED
        BY <2>1, <2>2
<1>7. /\ SlotRegisters(is, s, n) = [r \in DOMAIN FreshRegisters |-> SlotRegisters(is, s, n)[r]]
      /\ DOMAIN SlotRegisters(is, s, n - 1) = DOMAIN FreshRegisters
    BY DEF SlotRegisters
<1>8. SlotRegisters(is, s, n)
        = [SlotRegisters(is, s, n - 1) EXCEPT ![reg] = FastRead(is[n], s).v]
    BY <1>6, <1>7
<1> QED
    BY <1>8 DEF reg

\* Before the last slot, the walk is where the slots are, or was refused with one
\* of them.
LEMMA PlannedWalk ==
    ASSUME NEW is \in Seq(Insts), Plannable(is), Adjoining(is), NEW s \in Seq(Alphabet),
           NEW n \in 0..(Len(is) - 1)
    PROVE  IF \A i \in 1..n : FastRead(is[i], s).ok
           THEN Walk(is, s)[n] = [ok |-> TRUE, pos |-> is[n + 1].offset,
                                  regs |-> SlotRegisters(is, s, n)]
           ELSE ~Walk(is, s)[n].ok
<1> DEFINE Places(i) == [ok |-> TRUE, pos |-> is[i + 1].offset, regs |-> SlotRegisters(is, s, i)]
           AllRead(i) == \A j \in 1..i : FastRead(is[j], s).ok
           S == {i \in Nat : i < Len(is) => IF AllRead(i) THEN Walk(is, s)[i] = Places(i)
                                                         ELSE ~Walk(is, s)[i].ok}
<1>1. /\ Len(is) \in Nat /\ Len(is) >= 1 /\ is[1].offset = 0
      /\ \A i \in 1..Len(is) : is[i] \in Insts /\ is[i].op \in FastOps /\ is[i].offset \in Nat
      /\ \A i \in 1..Len(is) :
            i < Len(is) => /\ is[i + 1].offset = is[i].offset + FastWidth(is[i])
                           /\ is[i].op \notin {"TZZ", "TZZOrOffset"}
    BY SlotsAdjoin
<1>2. /\ Walk(is, s)[0] = AtStart
      /\ \A i \in 1..Len(is) : Walk(is, s)[i] = ReadOn(is[i], s, Walk(is, s)[i - 1])
    BY <1>1, WalkRecursion
<1>3. 0 \in S
    <2>1. SlotRegisters(is, s, 0) = FreshRegisters
        <3>1. SlotRegisters(is, s, 0) = [reg \in DOMAIN FreshRegisters |-> FreshRegisters[reg]]
            BY DEF SlotRegisters
        <3>2. FreshRegisters = [reg \in DOMAIN FreshRegisters |-> FreshRegisters[reg]]
            BY DEF FreshRegisters
        <3> QED
            BY <3>1, <3>2
    <2>2. Places(0) = AtStart
        <3>1. 0 + 1 = 1
            OBVIOUS
        <3> QED
            BY <1>1, <2>1, <3>1 DEF AtStart
    <2>3. AllRead(0)
        OBVIOUS
    <2> QED
        BY <1>2, <2>2, <2>3
<1>4. ASSUME NEW i \in Nat, i \in S
      PROVE  i + 1 \in S
    <2>1. SUFFICES ASSUME i + 1 < Len(is)
                   PROVE  IF AllRead(i + 1) THEN Walk(is, s)[i + 1] = Places(i + 1)
                                            ELSE ~Walk(is, s)[i + 1].ok
        BY <1>4
    <2> DEFINE inst == is[i + 1]
               got == FastRead(inst, s)
    <2>2. /\ i + 1 \in 1..Len(is) /\ (i + 1) - 1 = i /\ i < Len(is) /\ i + 1 < Len(is)
          /\ i + 2 \in 1..Len(is) /\ (i + 1) + 1 = i + 2
        BY <1>1, <2>1
    <2>3. IF AllRead(i) THEN Walk(is, s)[i] = Places(i) ELSE ~Walk(is, s)[i].ok
        BY <1>4, <2>2
    <2>4. /\ inst \in Insts /\ inst.op \in FastOps \ {"TZZ", "TZZOrOffset"}
          /\ inst.offset \in Nat /\ is[i + 2].offset = inst.offset + FastWidth(inst)
        BY <1>1, <2>2
    <2>5. Walk(is, s)[i + 1] = ReadOn(inst, s, Walk(is, s)[i])
        BY <1>2, <2>2
    <2>6. CASE ~AllRead(i)
        <3>1. ~AllRead(i + 1)
            BY <2>6
        <3> QED
            BY <2>3, <2>5, <2>6, <3>1 DEF ReadOn
    <2>7. CASE AllRead(i)
        <3>1. Walk(is, s)[i + 1] = ReadAt(Places(i), got)
            <4>1. Read(inst, s, inst.offset) = got
                BY <2>4, SlotReads
            <4>2. Places(i).ok /\ Places(i).pos = inst.offset
                OBVIOUS
            <4> HIDE DEF Places, got, inst
            <4> QED
                BY <2>3, <2>5, <2>7, <4>1, <4>2 DEF ReadOn
        <3>2. AllRead(i + 1) <=> got.ok
            BY <2>7
        <3>3. CASE ~got.ok
            <4>1. ~ReadAt(Places(i), got).ok
                BY <3>3 DEF ReadAt
            <4> QED
                BY <3>1, <3>2, <3>3, <4>1
        <3>4. CASE got.ok
            <4>1. got.w = FastWidth(inst) /\ got.reg = SlotOf(inst.op)
                BY <2>4, <3>4, FastReadWidth, FastReadSets
            <4>2. SlotRegisters(is, s, i + 1)
                    = [SlotRegisters(is, s, i) EXCEPT ![SlotOf(inst.op)] = got.v]
                BY <2>2, SlotRegistersStep
            <4>3. Places(i).pos = inst.offset /\ Places(i).regs = SlotRegisters(is, s, i)
                OBVIOUS
            <4>4. Places(i + 1) = [ok |-> TRUE, pos |-> is[i + 2].offset,
                                   regs |-> SlotRegisters(is, s, i + 1)]
                BY <2>2
            <4> HIDE DEF Places, got, inst
            <4>5. ReadAt(Places(i), got) = Places(i + 1)
                BY <2>4, <3>4, <4>1, <4>2, <4>3, <4>4 DEF ReadAt
            <4> QED
                BY <3>1, <3>2, <3>4, <4>5
        <3> QED
            BY <3>3, <3>4
    <2> QED
        BY <2>6, <2>7
<1>5. \A i \in Nat : i \in S
    <2> HIDE DEF S
    <2> QED
        BY <1>3, <1>4, NatSetInduction
<1>6. n \in Nat /\ n < Len(is)
    BY <1>1
<1> QED
    BY <1>5, <1>6

\* The last slot is read as its instruction is, and ends the input where the walk
\* does: a 'Z' makes it narrower, and the plan's other length says so.
LEMMA LastSlot ==
    ASSUME NEW is \in Seq(Insts), Plannable(is), Adjoining(is), NEW s \in Seq(Alphabet)
    PROVE  LET inst == is[Len(is)]
               got == Read(inst, s, inst.offset)
           IN  /\ FastRead(inst, s).ok /\ Len(s) \in {PlanWidth(is), AltWidth(is)}
                    <=> got.ok /\ inst.offset + got.w = Len(s)
               /\ FastRead(inst, s).ok => FastRead(inst, s) = got
<1> DEFINE n == Len(is)
           inst == is[n]
           got == Read(inst, s, inst.offset)
           fast == FastRead(inst, s)
<1>1. /\ n \in Nat /\ n \in 1..n /\ n \in DOMAIN is
      /\ inst \in Insts /\ inst.op \in FastOps /\ inst.offset \in Nat
      /\ FastWidth(inst) \in Nat \ {0}
      /\ PlanWidth(is) = inst.offset + FastWidth(inst)
      /\ \A i \in 1..n : i < n => is[i].op \notin {"TZZ", "TZZOrOffset"}
    BY SlotsAdjoin
<1>2. Len(s) \in Nat
    OBVIOUS
<1>3. CASE inst.op \notin {"TZZ", "TZZOrOffset"}
    <2>1. fast = got
        BY <1>1, <1>3, SlotReads
    <2>2. AltWidth(is) = PlanWidth(is)
        <3>1. \A i \in DOMAIN is : is[i].op # "TZZOrOffset"
            <4>1. \A i \in 1..n : i < n \/ i = n
                BY <1>1
            <4> QED
                BY <1>1, <1>3, <4>1
        <3> QED
            BY <3>1 DEF AltWidth
    <2>3. fast.ok => fast.w = FastWidth(inst)
        BY <1>1, <1>3, FastReadWidth
    <2> HIDE DEF fast, got, inst
    <2> QED
        BY <1>1, <2>1, <2>2, <2>3 DEF fast, got, inst
<1>4. CASE inst.op = "TZZ"
    <2>1. got = ReadZ(s, inst.offset) /\ (got.ok => got.w = 1) /\ FastWidth(inst) = 1
        BY <1>4 DEF Read, Fusible, OneOrTwo, ReadZ, ReadIf, Got, NoRead, FastWidth
    <2>2. fast = IF got.ok /\ inst.offset + 1 = Len(s) THEN got ELSE NoRead
        BY <1>4, <2>1 DEF FastRead, FastZone, Fusible
    <2>3. AltWidth(is) = PlanWidth(is)
        <3>1. \A i \in DOMAIN is : is[i].op # "TZZOrOffset"
            <4>1. \A i \in 1..n : i < n \/ i = n
                BY <1>1
            <4> QED
                BY <1>1, <1>4, <4>1
        <3> QED
            BY <3>1 DEF AltWidth
    <2> HIDE DEF fast, got, inst
    <2> QED
        BY <1>1, <2>1, <2>2, <2>3 DEF fast, got, inst, NoRead
<1>5. CASE inst.op = "TZZOrOffset"
    <2>1. AltWidth(is) = inst.offset + 1 /\ FastWidth(inst) = inst.len /\ inst.len \in Nat
        BY <1>1, <1>5, OneZone DEF FastWidth, Fusible, Insts
    <2> DEFINE z == ReadZ(s, inst.offset)
               o == ReadTZOffset(s, inst.offset, inst.len)
    <2>2. got = IF z.ok THEN z ELSE o
        BY <1>5 DEF Read, Fusible, OneOrTwo
    <2>3. fast = IF z.ok THEN IF inst.offset + 1 = Len(s) THEN z ELSE NoRead ELSE o
        BY <1>5 DEF FastRead, FastZone, Fusible
    <2>4. z.ok => z.w = 1
        BY DEF ReadZ, ReadIf, Got, NoRead
    <2>5. o.ok => o.w = inst.len /\ inst.len >= 3 /\ inst.offset + inst.len <= Len(s)
        BY ZoneOffsetWidth DEF Within
    <2>6. ~NoRead.ok
        BY DEF NoRead
    <2> HIDE DEF fast, got, z, o, inst
    <2>7. /\ fast.ok /\ Len(s) \in {PlanWidth(is), AltWidth(is)}
               <=> got.ok /\ inst.offset + got.w = Len(s)
          /\ fast.ok => fast = got
        <3>1. CASE z.ok
            BY <1>1, <1>2, <2>1, <2>2, <2>3, <2>4, <2>6, <3>1
        <3>2. CASE ~z.ok
            BY <1>1, <1>2, <2>1, <2>2, <2>3, <2>5, <3>2
        <3> QED
            BY <3>1, <3>2
    <2> QED
        BY <2>7 DEF fast, got, inst
<1> QED
    BY <1>3, <1>4, <1>5

\* The registers of a planned program are those of all its slots, and none of
\* them says a week or a day of the year.
LEMMA PlannedRegisters ==
    ASSUME TypeInv, plan # NotFast, NEW s
    PROVE  /\ FastRegisters(s) = SlotRegisters(insts, s, Len(insts))
           /\ Answer(FastRegisters(s)) = OnCivilDay(YearOf(FastRegisters(s)), FastRegisters(s))
<1>1. Plannable(insts) /\ insts \in Seq(Insts) /\ DOMAIN insts = 1..Len(insts)
    BY DEF TypeInv, PlanState, CompilerState
<1>2. \A reg : (Slots(insts, reg) = {}) <=> ~(\E i \in 1..Len(insts) : SlotOf(insts[i].op) = reg)
    BY <1>1 DEF Slots
<1>3. FastRegisters(s) = SlotRegisters(insts, s, Len(insts))
    BY <1>2 DEF FastRegisters, SlotRegisters
<1>4. ASSUME NEW i \in DOMAIN insts
      PROVE  SlotOf(insts[i].op) \notin {"isoWeek", "ordinalDay"}
    <2>1. insts[i].op \in FastOps
        BY <1>1 DEF Plannable, HasSlot
    <2> QED
        BY <2>1 DEF FastOps, SlotOf, Register, Fusible
<1>5. Slots(insts, "isoWeek") = {} /\ Slots(insts, "ordinalDay") = {}
    BY <1>4 DEF Slots
<1>6. FastRegisters(s).isoWeek = 0 /\ FastRegisters(s).ordinalDay = 0
    BY <1>5 DEF FastRegisters, FreshRegisters
<1> QED
    BY <1>3, <1>6 DEF Answer

\* A planned program answers what its instructions mean.
LEMMA PlanMeaning ==
    ASSUME TypeInv, CompiledAdjoining, plan # NotFast, NEW s \in Inputs[def]
    PROVE  Meaning(InOrder(insts, s), s)
             = IF FastAccepts(s) THEN OnCivilDay(YearOf(FastRegisters(s)), FastRegisters(s))
               ELSE Refused
<1> DEFINE n == Len(insts)
           inst == insts[n]
           got == Read(inst, s, inst.offset)
           fast == FastRead(inst, s)
           p == Walk(insts, s)[n - 1]
           q == InOrder(insts, s)
<1>1. /\ insts \in Seq(Insts) /\ Plannable(insts) /\ Adjoining(insts) /\ s \in Seq(Alphabet)
      /\ plan.width = PlanWidth(insts) /\ plan.alt = AltWidth(insts)
    BY InputsAreText DEF TypeInv, PlanState, CompilerState, CompiledAdjoining
<1>2. /\ n \in Nat /\ n \in 1..n /\ n - 1 \in 0..(n - 1) /\ (n - 1) + 1 = n
      /\ DOMAIN insts = 1..n
      /\ inst \in Insts /\ inst.op \in FastOps /\ inst.offset \in Nat
    BY <1>1, SlotsAdjoin
<1>3. IF \A i \in 1..(n - 1) : FastRead(insts[i], s).ok
      THEN p = [ok |-> TRUE, pos |-> inst.offset, regs |-> SlotRegisters(insts, s, n - 1)]
      ELSE ~p.ok
    BY <1>1, <1>2, PlannedWalk
<1>4. q = ReadOn(inst, s, p)
    BY <1>2, WalkRecursion DEF InOrder
<1>5. /\ fast.ok /\ Len(s) \in {plan.width, plan.alt} <=> got.ok /\ inst.offset + got.w = Len(s)
      /\ fast.ok => fast = got
    BY <1>1, LastSlot
<1>6. CASE \E i \in 1..(n - 1) : ~FastRead(insts[i], s).ok
    <2>1. ~FastAccepts(s)
        <3>1. 1..(n - 1) \subseteq DOMAIN insts
            BY <1>2
        <3> QED
            BY <1>6, <3>1 DEF FastAccepts
    <2>2. ~q.ok
        BY <1>3, <1>4, <1>6 DEF ReadOn
    <2> QED
        BY <2>1, <2>2 DEF Meaning
<1>7. CASE \A i \in 1..(n - 1) : FastRead(insts[i], s).ok
    <2>1. /\ p.ok /\ p.pos = inst.offset /\ p.regs = SlotRegisters(insts, s, n - 1)
          /\ q = ReadAt(p, got)
        <3> HIDE DEF p, got, inst
        <3>1. p = [ok |-> TRUE, pos |-> inst.offset, regs |-> SlotRegisters(insts, s, n - 1)]
            BY <1>3, <1>7
        <3>2. p.ok /\ p.pos = inst.offset /\ p.regs = SlotRegisters(insts, s, n - 1)
            BY <3>1
        <3>3. q = ReadAt(p, Read(inst, s, p.pos))
            BY <1>4, <3>2 DEF ReadOn
        <3> QED
            BY <3>2, <3>3 DEF got
    <2>2. FastAccepts(s) <=> fast.ok /\ Len(s) \in {plan.width, plan.alt}
        <3>1. \A i \in DOMAIN insts : i \in 1..(n - 1) \/ i = n
            BY <1>2
        <3> QED
            BY <1>2, <1>7, <3>1 DEF FastAccepts
    <2> HIDE DEF p, q, got, fast
    <2>3. FastAccepts(s) <=> q.ok /\ q.pos = Len(s)
        BY <1>5, <2>1, <2>2 DEF ReadAt
    <2>4. CASE ~FastAccepts(s)
        <3>1. Meaning(q, s) = Refused
            BY <2>3, <2>4 DEF Meaning
        <3> QED
            BY <2>4, <3>1 DEF q
    <2>5. CASE FastAccepts(s)
        <3>1. fast.ok /\ fast = got
            BY <1>5, <2>2, <2>5
        <3>2. got.reg = SlotOf(inst.op)
            BY <1>2, <3>1, FastReadSets DEF fast
        <3>3. q.regs = [p.regs EXCEPT ![SlotOf(inst.op)] = got.v]
            BY <2>1, <3>2 DEF ReadAt
        <3>4. SlotRegisters(insts, s, n)
                = [SlotRegisters(insts, s, n - 1) EXCEPT ![SlotOf(inst.op)] = fast.v]
            BY <1>1, <1>2, SlotRegistersStep DEF fast
        <3>5. q.regs = FastRegisters(s)
            BY <2>1, <3>1, <3>3, <3>4, PlannedRegisters
        <3>6. Meaning(q, s) = Answer(FastRegisters(s))
            BY <2>3, <2>5, <3>5 DEF Meaning
        <3> QED
            BY <2>5, <3>6, PlannedRegisters DEF q
    <2> QED
        BY <2>4, <2>5
<1> QED
    BY <1>6, <1>7

-----------------------------------------------------------------------------
\* The inductive invariant.
ReadingInv ==
    /\ TypeInv
    /\ CompiledAdjoining /\ CompiledAlike /\ CompiledWhole
    /\ stage = "reading" => ReadSoFar
    /\ ReadsInOrder

\* It holds of a format that nothing was compiled of yet.
LEMMA ReadingInit ==
    ASSUME FormatsAdjoin, Init
    PROVE  ReadingInv
<1>1. TypeInv /\ stage = "compiling" /\ insts = <<>> /\ next = 1
    BY TypeInit DEF Init
<1>2. Fields \in Seq(Insts) /\ Adjoining(Fields) /\ Len(Fields) \in Nat
    BY <1>1, FieldsAreInsts DEF FormatsAdjoin, TypeInv, CompilerState, Fields
<1>3. CompiledAdjoining
    <2>1. 1 <= Len(Fields) => Fields[1].offset = 0
        BY <1>2 DEF Adjoining
    <2>2. Adjoining(insts)
        BY <1>1 DEF Adjoining
    <2> QED
        BY <1>1, <2>1, <2>2 DEF CompiledAdjoining
<1>4. CompiledAlike
    <2>1. \A s : InOrder(insts, s) = AtStart /\ Walk(Fields, s)[0] = AtStart
        <3>1. insts \in Seq(Insts) /\ Len(insts) = 0
            BY <1>1
        <3> QED
            BY <1>2, <3>1, WalkRecursion DEF InOrder
    <2>2. next - 1 = 0
        BY <1>1
    <2> QED
        BY <2>1, <2>2 DEF CompiledAlike, Alike
<1> QED
    BY <1>1, <1>3, <1>4 DEF ReadingInv, CompiledWhole, ReadsInOrder

\* What a reading means depends on no more than the program.
LEMMA MeaningStays ==
    ASSUME UNCHANGED <<def, needsBaseYear>>
    PROVE  \A p, s : Meaning(p, s)' = Meaning(p, s)
BY DEF Meaning, Answer, OnCivilDay, OnOrdinalDay, OnWeekDay, YearOf

\* Only a format whose every field was looked at is compiled.
LEMMA WholeStep ==
    ASSUME TypeInv, CompiledWhole, [Next]_vars
    PROVE  CompiledWhole'
<1>1. CASE FinishCompile
    <2>1. Len(Fields) \in Nat /\ next \in 1..(Len(Fields) + 1)
        BY FieldsAreInsts DEF TypeInv, CompilerState, Fields
    <2>2. next = Len(Fields) + 1 /\ next' = next /\ Fields' = Fields
        BY <1>1, <2>1 DEF FinishCompile, Fields
    <2> QED
        BY <2>2 DEF CompiledWhole
<1>2. CASE RefuseTooMany \/ RefuseField \/ EmitField \/ EmitFused
    <2>1. stage' \in {"compiling", "refused"}
        BY <1>2 DEF RefuseTooMany, RefuseField, EmitField, EmitFused, Emit, Compiling
    <2> QED
        BY <2>1 DEF CompiledWhole
<1>3. CASE Execute \/ ExecuteFast \/ ReadField \/ FieldFails \/ Finish \/ Return \/ UNCHANGED vars
    <2>1. /\ stage' \notin {"compiling", "refused"} => stage \notin {"compiling", "refused"}
          /\ next' = next /\ Fields' = Fields
        BY <1>3 DEF Execute, ExecuteFast, ReadField, FieldFails, Finish, Return, Reading, compiling,
            vars, Fields
    <2> QED
        BY <2>1 DEF CompiledWhole
<1> QED
    BY <1>1, <1>2, <1>3 DEF Next

\* No step answers anything but what the format means.
LEMMA ReadingStep ==
    ASSUME FormatsAdjoin, ReadingInv, [Next]_vars
    PROVE  ReadingInv'
<1>0. TypeInv' /\ CompiledAdjoining' /\ CompiledAlike' /\ CompiledWhole'
    BY TypeStep, CompiledStep, WholeStep DEF ReadingInv
<1>1. CASE RefuseTooMany \/ RefuseField \/ EmitField \/ EmitFused \/ FinishCompile \/ Return
    <2>1. stage' \notin {"reading", "answered"}
        BY <1>1 DEF RefuseTooMany, RefuseField, EmitField, EmitFused, Emit, Compiling, FinishCompile,
            Return
    <2> QED
        BY <1>0, <2>1 DEF ReadingInv, ReadsInOrder
<1>2. CASE Execute
    <2>1. ReadSoFar' /\ stage' = "reading"
        BY <1>2, StartsReading DEF ReadingInv, Execute
    <2> QED
        BY <1>0, <2>1 DEF ReadingInv, ReadsInOrder
<1>3. CASE ReadField
    <2>1. ReadSoFar' /\ stage' = "reading"
        BY <1>3, ReadsOn DEF ReadingInv, ReadField, Reading
    <2> QED
        BY <1>0, <2>1 DEF ReadingInv, ReadsInOrder
<1>4. CASE FieldFails \/ Finish
    <2>1. /\ stage = "reading" /\ stage' = "answered" /\ ReadSoFar
          /\ UNCHANGED <<def, insts, needsBaseYear, input>>
        BY <1>4 DEF FieldFails, Finish, Reading, compiling, ReadingInv
    <2>2. outcome' = Meaning(InOrder(insts, input), input)
        <3>1. CASE FieldFails
            BY <2>1, <3>1, FailsAlike DEF ReadingInv, FieldFails
        <3>2. CASE Finish
            BY <2>1, <3>2, FinishesAlike DEF ReadingInv, Finish
        <3> QED
            BY <1>4, <3>1, <3>2
    <2>3. outcome' = Meaning(InOrder(Fields, input), input)
        <3>1. input \in Inputs[def]
            BY <2>1 DEF ReadSoFar
        <3> QED
            BY <2>1, <2>2, <3>1, CompiledMeaning DEF ReadingInv
    <2>4. ReadsInOrder'
        <3>1. Fields' = Fields
            BY <2>1 DEF Fields
        <3> QED
            BY <2>1, <2>3, <3>1, MeaningStays DEF ReadsInOrder
    <2> QED
        BY <1>0, <2>1, <2>4 DEF ReadingInv
<1>5. CASE ExecuteFast
    <2>1. PICK s \in Inputs[def] : input' = s /\ FastOutcome(s)
        BY <1>5 DEF ExecuteFast
    <2>2. /\ stage = "ready" /\ plan # NotFast /\ stage' = "answered"
          /\ UNCHANGED <<def, insts, needsBaseYear>>
        BY <1>5 DEF ExecuteFast, compiling
    <2>3. outcome' = Meaning(InOrder(insts, s), s)
        BY <2>1, <2>2, PlanMeaning DEF FastOutcome, ReadingInv
    <2>4. outcome' = Meaning(InOrder(Fields, s), s)
        BY <2>2, <2>3, CompiledMeaning DEF ReadingInv
    <2>5. ReadsInOrder'
        <3>1. Fields' = Fields
            BY <2>2 DEF Fields
        <3> QED
            BY <2>1, <2>2, <2>4, <3>1, MeaningStays DEF ReadsInOrder
    <2> QED
        BY <1>0, <2>2, <2>5 DEF ReadingInv
<1>6. CASE UNCHANGED vars
    <2>1. Fields' = Fields /\ UNCHANGED <<def, insts, needsBaseYear, stage, input, outcome>>
        BY <1>6 DEF vars, Fields
    <2>2. ReadsInOrder'
        BY <2>1, MeaningStays DEF ReadingInv, ReadsInOrder
    <2>3. stage' = "reading" => ReadSoFar'
        BY <1>6 DEF vars, ReadingInv, ReadSoFar, Offset
    <2> QED
        BY <1>0, <2>2, <2>3 DEF ReadingInv
<1> QED
    BY <1>1, <1>2, <1>3, <1>4, <1>5, <1>6 DEF Next

\* Every answer is the one that the format's fields give when they are read one
\* after another, each where the one before it ended: declared offsets moved by a
\* running delta, separators fused onto the numbers before them and the plan that
\* reads all fields at once change none (execute.go:196, compiler.go:101,
\* fast.go:50), whatever the formats, the inputs and the limits are, as long as a
\* format's fields adjoin, which FieldsAdjoin checks of every one compiled.
THEOREM ReadsInOrderAlways ==
    ASSUME FormatsAdjoin
    PROVE  Spec => []ReadsInOrder
<1>1. Init => ReadingInv
    BY ReadingInit
<1>2. ReadingInv /\ [Next]_vars => ReadingInv'
    BY ReadingStep
<1>3. ReadingInv => ReadsInOrder
    BY DEF ReadingInv
<1> QED
    BY <1>1, <1>2, <1>3, PTL DEF Spec

=============================================================================
