------------------------------- MODULE Program -------------------------------
(***************************************************************************)
(* A program from its format to its answers (internal/compile/compiler.go, *)
(* program.go, execute.go, fast.go).  Compile turns a format's fields into *)
(* instructions one at a time, fusing separators onto numbers; the program *)
(* then reads any number of inputs, by its plan when every field has a     *)
(* fixed place and one instruction after another when one has not.         *)
(***************************************************************************)
EXTENDS Instructions, FiniteSets

CONSTANTS
    Defs,             \* the fields of each format to compile, by the format's name
    Inputs,           \* the inputs its program is given
    BaseYear,         \* of each format, the year it is given if it writes none, or 0
    MaxInstructions,  \* of one program
    MaxFieldByte,     \* the largest offset and length an instruction can hold
    FastMaxWidth      \* the longest input a planned program describes

ASSUME LimitsAssumption ==
    MaxInstructions \in Nat /\ MaxFieldByte \in Nat /\ FastMaxWidth \in Nat

IsField(f) ==
    /\ f = Field(f.op, f.offset, f.len, f.aux)
    /\ f.op \in Kinds /\ f.offset \in Nat /\ f.len \in Nat

IsFormat(fields) ==
    /\ Len(fields) \in Nat
    /\ fields = [i \in 1..Len(fields) |-> fields[i]]
    /\ \A i \in 1..Len(fields) : IsField(fields[i])

ASSUME FormatsAssumption ==
    \A d \in DOMAIN Defs : IsFormat(Defs[d]) /\ Inputs[d] \subseteq Seq(Alphabet)

VARIABLES
    def,            \* the name of the format
    next,           \* the field Compile looks at
    insts,          \* the instructions emitted
    needsBaseYear,  \* has no year field been seen?
    plan,           \* the lengths a planned program describes, or NotFast
    stage,          \* what the program is doing
    input,          \* the input being read
    at,             \* the instruction it is at
    run,            \* the executor's counters and registers
    outcome         \* the answer

vars == <<def, next, insts, needsBaseYear, plan, stage, input, at, run, outcome>>

compiling == <<def, next, insts, needsBaseYear, plan>>

Fields == Defs[def]

NotFast == [width |-> 0, alt |-> 0]

NoYear == -1
NoZone == 9999  \* the program's own zone, whose offset the executor does not know

FreshRegisters ==
    [year |-> NoYear, month |-> 1, day |-> 1, hour |-> 0, minute |-> 0, second |-> 0,
     nsec |-> 0, ampm |-> 0, zone |-> NoZone, isoWeek |-> 0, isoWeekDay |-> 0,
     ordinalDay |-> 0, nothing |-> 0]

\* read is the set of bytes some instruction read; the code keeps only covered
\* and end of it.
FreshRun == [delta |-> 0, covered |-> 0, end |-> 0, read |-> {}, regs |-> FreshRegisters]

NoAnswer == [ok |-> FALSE, pending |-> TRUE]
Refused  == [ok |-> FALSE, pending |-> FALSE]

Init ==
    /\ def \in DOMAIN Defs
    /\ next = 1 /\ insts = <<>> /\ needsBaseYear = TRUE /\ plan = NotFast
    /\ stage = "compiling"
    /\ input = <<>> /\ at = 1 /\ run = FreshRun /\ outcome = NoAnswer

-----------------------------------------------------------------------------
\* Compile.

Fits == Len(Fields) <= MaxInstructions

\* Mutant of Addressable: only the length is looked at.
AddressableLength(f) == f.len <= MaxFieldByte

Addressable(f) == f.offset <= MaxFieldByte /\ f.len <= MaxFieldByte

\* Is the field after this one a one-byte literal exactly where this one ends?
Fuses(i) ==
    /\ Fields[i].op \in Fusible
    /\ i < Len(Fields)
    /\ Fields[i + 1].op = "Literal" /\ Fields[i + 1].len = 1
    /\ Fields[i + 1].offset = Fields[i].offset + NumericWidth(Fields[i].op)

\* What the separator accepts when it is fused: NoAux would mean there is none.
SeparatorAux(literal) ==
    IF literal.aux = NoAux THEN "Any" ELSE literal.aux

Compiling(i) == stage = "compiling" /\ Fits /\ next = i /\ i <= Len(Fields)

RefuseTooMany ==
    /\ stage = "compiling" /\ ~Fits
    /\ stage' = "refused"
    /\ UNCHANGED <<compiling, input, at, run, outcome>>

RefuseField ==
    /\ Compiling(next) /\ ~Addressable(Fields[next])
    /\ stage' = "refused"
    /\ UNCHANGED <<compiling, input, at, run, outcome>>

Emit(inst, fields) ==
    /\ insts' = Append(insts, inst)
    /\ next' = next + fields
    /\ needsBaseYear' = (needsBaseYear /\ inst.op \notin {"Year4", "Year2"})
    /\ UNCHANGED <<def, plan, stage, input, at, run, outcome>>

EmitField ==
    /\ Compiling(next) /\ Addressable(Fields[next]) /\ ~Fuses(next)
    /\ Emit(Fields[next], 1)

EmitFused ==
    /\ Compiling(next) /\ Addressable(Fields[next]) /\ Fuses(next)
    /\ Emit([Fields[next] EXCEPT !.aux = SeparatorAux(Fields[next + 1])], 2)

-----------------------------------------------------------------------------
\* planFast: one instruction to a slot, and no byte to two of them or to none.

NumSlots == 9

FastOps == (Fusible \ {"ISOWeek"})
             \cup {"FracSec", "AMPM", "TZZ", "TZOffset", "TZName", "TZZOrOffset"}

SlotOf(op) == CASE op \in Fusible -> Register[op]
                [] op = "FracSec" -> "nsec"
                [] op = "AMPM"    -> "ampm"
                [] OTHER          -> "zone"

FastWidth(inst) ==
    CASE inst.op \in Fusible -> NumericWidth(inst.op) + SeparatorWidth(inst.aux)
      [] inst.op = "AMPM"    -> 2
      [] inst.op = "TZZ"     -> 1
      [] OTHER               -> inst.len

FastEnd(inst) == inst.offset + FastWidth(inst)

Claims(inst) == inst.offset..(FastEnd(inst) - 1)

HasSlot(inst) ==
    inst.op \in FastOps /\ FastWidth(inst) >= 1 /\ FastEnd(inst) <= FastMaxWidth

Apart(a, b) == SlotOf(a.op) # SlotOf(b.op) /\ Claims(a) \cap Claims(b) = {}

\* No gap before the end, and nothing after a zone that may turn out narrower.
Tiles(is, width) ==
    /\ UNION {Claims(is[i]) : i \in DOMAIN is} = 0..(width - 1)
    /\ \A i \in DOMAIN is : is[i].op = "TZZOrOffset" => FastEnd(is[i]) = width

PlanWidth(is) ==
    CHOOSE w \in {FastEnd(is[i]) : i \in DOMAIN is} : \A i \in DOMAIN is : FastEnd(is[i]) <= w

Plannable(is) ==
    /\ Len(is) \in 1..NumSlots
    /\ \A i \in DOMAIN is : HasSlot(is[i])
    /\ \A i, j \in DOMAIN is : i # j => Apart(is[i], is[j])
    /\ Tiles(is, PlanWidth(is))

\* The shorter input, whose zone is a 'Z'.
AltWidth(is) ==
    IF \E i \in DOMAIN is : is[i].op = "TZZOrOffset"
    THEN is[CHOOSE i \in DOMAIN is : is[i].op = "TZZOrOffset"].offset + 1
    ELSE PlanWidth(is)

PlanFast(is) ==
    IF Plannable(is) THEN [width |-> PlanWidth(is), alt |-> AltWidth(is)] ELSE NotFast

FinishCompile ==
    /\ stage = "compiling" /\ Fits /\ next > Len(Fields)
    /\ stage' = "ready"
    /\ plan' = PlanFast(insts)
    /\ UNCHANGED <<def, next, insts, needsBaseYear, input, at, run, outcome>>

-----------------------------------------------------------------------------
\* The answer, from the registers.

\* Mutant of ApplyAMPM: midnight stays twelve.
ApplyAMPMNoMidnight(hour, ampm) ==
    IF ampm = -1 /\ hour # 12 THEN hour + 12 ELSE hour

ApplyAMPM(hour, ampm) ==
    CASE ampm = -1 /\ hour # 12 -> hour + 12
      [] ampm = 1 /\ hour = 12  -> 0
      [] OTHER                  -> hour

\* Day, second of it, nanosecond and zone.  An hour past 23 runs into another day.
Instant(day, seconds, nsec, zone) ==
    [ok |-> TRUE, day |-> day + (seconds \div 86400), second |-> seconds % 86400,
     nsec |-> nsec, zone |-> zone]

MakeTime(day, regs) ==
    Instant(day, ApplyAMPM(regs.hour, regs.ampm) * 3600 + regs.minute * 60 + regs.second,
            regs.nsec, regs.zone)

YearOf(regs) ==
    IF regs.year # NoYear THEN regs.year ELSE IF needsBaseYear THEN BaseYear[def] ELSE 0

OnCivilDay(year, regs) ==
    IF DayExists(year, regs.month, regs.day)
    THEN MakeTime(DaysFromCivil(year, regs.month, regs.day), regs) ELSE Refused

OnOrdinalDay(year, regs) ==
    IF regs.ordinalDay <= DaysInYear(year)
    THEN MakeTime(DaysFromCivil(year, 1, regs.ordinalDay), regs) ELSE Refused

IsoWeekday(regs) == IF regs.isoWeekDay > 0 THEN regs.isoWeekDay % 7 ELSE 1

OnWeekDay(year, regs) ==
    IF regs.isoWeek <= WeeksIn(year)
    THEN MakeTime(IsoWeekToDate(Week1Monday(year), regs.isoWeek, IsoWeekday(regs)), regs)
    ELSE Refused

Answer(regs) ==
    CASE regs.isoWeek > 0    -> OnWeekDay(YearOf(regs), regs)
      [] regs.ordinalDay > 0 -> OnOrdinalDay(YearOf(regs), regs)
      [] OTHER               -> OnCivilDay(YearOf(regs), regs)

-----------------------------------------------------------------------------
\* The interpreter (executeInner).

Execute ==
    /\ stage = "ready" /\ plan = NotFast
    /\ stage' = "reading"
    /\ input' \in Inputs[def]
    /\ UNCHANGED <<compiling, at, run, outcome>>

Offset == insts[at].offset + run.delta

Reading == stage = "reading" /\ at <= Len(insts)

\* Mutant of Shift: a 'Z' moves nothing after it.
ShiftIgnoresZ(inst, w) == IF inst.op \in OneOrTwo THEN w - inst.len ELSE 0

\* How far a field wider or narrower than declared moves those after it.
Shift(inst, w) ==
    IF inst.op \in OneOrTwo \cup {"TZZOrOffset"} THEN w - inst.len ELSE 0

Furthest(a, b) == IF a > b THEN a ELSE b

After(r, off, w, reg, v, shift) ==
    [delta   |-> r.delta + shift,
     covered |-> r.covered + w,
     end     |-> Furthest(r.end, off + w),
     read    |-> r.read \cup (off..(off + w - 1)),
     regs    |-> [r.regs EXCEPT ![reg] = v]]

Stepped(r, inst, off, got) ==
    After(r, off, got.w, got.reg, got.v, Shift(inst, got.w))

ReadField ==
    /\ Reading
    /\ Offset >= 0 /\ Read(insts[at], input, Offset).ok
    /\ run' = Stepped(run, insts[at], Offset, Read(insts[at], input, Offset))
    /\ at' = at + 1
    /\ UNCHANGED <<compiling, stage, input, outcome>>

FieldFails ==
    /\ Reading
    /\ Offset < 0 \/ ~Read(insts[at], input, Offset).ok
    /\ outcome' = Refused
    /\ stage' = "answered"
    /\ UNCHANGED <<compiling, input, at, run>>

\* Both counters, since neither sees every byte that no field read.
DescribesInput(r, s) == r.end = Len(s) /\ r.covered = Len(s)

Finish ==
    /\ stage = "reading" /\ at > Len(insts)
    /\ outcome' = IF DescribesInput(run, input) THEN Answer(run.regs) ELSE Refused
    /\ stage' = "answered"
    /\ UNCHANGED <<compiling, input, at, run>>

-----------------------------------------------------------------------------
\* The planned program (executeFast): every field at once, in its slot.

\* The day slot holds either two digits or Go's "_2".
FastDay(inst, s) ==
    IF inst.op = "Day2" THEN ReadNumeric(inst, s, inst.offset)
    ELSE IF ~Separated(inst.aux, s, inst.offset + 2) THEN NoRead
    ELSE ReadSpacePad(inst.op, s, inst.offset, FastWidth(inst))

\* A 'Z' has to end the input, or an offset's other bytes would go unread.
FastZone(inst, s) ==
    IF inst.op \in {"TZZ", "TZZOrOffset"} /\ ReadZ(s, inst.offset).ok
    THEN IF inst.offset + 1 = Len(s) THEN ReadZ(s, inst.offset) ELSE NoRead
    ELSE CASE inst.op = "TZZ"    -> NoRead
           [] inst.op = "TZName" -> ReadTZName(s, inst.offset, inst.len)
           [] OTHER              -> ReadTZOffset(s, inst.offset, inst.len)

FastRead(inst, s) ==
    CASE inst.op \in {"Day2", "DaySpacePad"} -> FastDay(inst, s)
      [] inst.op \in Fusible \ {"Day2", "DaySpacePad"} -> ReadNumeric(inst, s, inst.offset)
      [] inst.op = "FracSec" -> ReadFracSec(s, inst.offset, inst.len)
      [] inst.op = "AMPM"    -> ReadAMPM(s, inst.offset)
      [] OTHER               -> FastZone(inst, s)

Slots(is, reg) == {i \in DOMAIN is : SlotOf(is[i].op) = reg}

FastRegisters(s) ==
    [reg \in DOMAIN FreshRegisters |->
        IF Slots(insts, reg) = {} THEN FreshRegisters[reg]
        ELSE FastRead(insts[CHOOSE i \in Slots(insts, reg) : TRUE], s).v]

FastAccepts(s) ==
    /\ Len(s) \in {plan.width, plan.alt}
    /\ \A i \in DOMAIN insts : FastRead(insts[i], s).ok

FastBytes(s) ==
    UNION {insts[i].offset..(insts[i].offset + FastRead(insts[i], s).w - 1) : i \in DOMAIN insts}

FastOutcome(s) ==
    IF FastAccepts(s)
    THEN /\ outcome' = OnCivilDay(YearOf(FastRegisters(s)), FastRegisters(s))
         /\ run' = [FreshRun EXCEPT !.read = FastBytes(s)]
    ELSE outcome' = Refused /\ UNCHANGED run

ExecuteFast ==
    /\ stage = "ready" /\ plan # NotFast
    /\ stage' = "answered"
    /\ \E s \in Inputs[def] : input' = s /\ FastOutcome(s)
    /\ UNCHANGED <<compiling, at>>

-----------------------------------------------------------------------------
\* The caller has the answer; the program keeps nothing of the input.
Return ==
    /\ stage = "answered"
    /\ stage' = "ready"
    /\ input' = <<>> /\ at' = 1 /\ run' = FreshRun /\ outcome' = NoAnswer
    /\ UNCHANGED compiling

Next ==
    \/ RefuseTooMany \/ RefuseField \/ EmitField \/ EmitFused \/ FinishCompile
    \/ Execute \/ ExecuteFast
    \/ ReadField \/ FieldFails \/ Finish
    \/ Return

Spec == Init /\ [][Next]_vars

-----------------------------------------------------------------------------
Stages == {"compiling", "refused", "ready", "reading", "answered"}

TypeOK ==
    /\ def \in DOMAIN Defs
    /\ next \in 1..(Len(Fields) + 1)
    /\ \A i \in DOMAIN insts :
          insts[i].offset \in 0..MaxFieldByte /\ insts[i].len \in 0..MaxFieldByte
    /\ Len(insts) <= MaxInstructions
    /\ needsBaseYear \in BOOLEAN
    /\ stage \in Stages
    /\ stage = "reading" => plan = NotFast
    /\ at \in 1..(Len(insts) + 1)

\* The bytes a field describes, a separator fused onto it among them.
Width(f) == DeclaredWidth(f) + (IF f.op \in Fusible THEN SeparatorWidth(f.aux) ELSE 0)

\* One field takes up where the other ends, nothing follows a tail, and a 'Z' is
\* the last of what is planned.
Adjoins(f, g) ==
    /\ f.op # "Tail" /\ g.offset = f.offset + Width(f)
    /\ f.op = "TZZ" => g.op \notin FastOps

Adjoining(fields) ==
    \A i \in DOMAIN fields :
        IF i = 1 THEN fields[i].offset = 0 ELSE Adjoins(fields[i - 1], fields[i])

\* Every format that is compiled gives each byte of the text it describes to one
\* field: the first begins where the text does and each other one where the one
\* before it ends.  An unread byte between two fields would be read by neither
\* executor, and a 'Z' that a planned program reads has to end the input
\* (compiler.go:101, fast.go:357).
FieldsAdjoin == Adjoining(Fields)

\* An accepted input is described byte for byte: every one of its bytes was read,
\* and none twice, whether the interpreter counted them (end, covered) or the
\* plan promised them (Width, WidthAlt in the code).
EveryByteOnce ==
    outcome.ok => /\ run.read = 0..(Len(input) - 1)
                  /\ plan = NotFast => run.covered = Cardinality(run.read)

-----------------------------------------------------------------------------
\* What a format says, without offsets, fusion or plan: each field is read where
\* the one before it ended.

ReadAt(p, got) ==
    [ok |-> got.ok, pos |-> p.pos + got.w, regs |-> [p.regs EXCEPT ![got.reg] = got.v]]

ReadOn(f, s, p) == IF p.ok THEN ReadAt(p, Read(f, s, p.pos)) ELSE p

AtStart == [ok |-> TRUE, pos |-> 0, regs |-> FreshRegisters]

\* What has been read after each number of fields.
Walk(fields, s) ==
    LET walk[i \in 0..Len(fields)] ==
            IF i = 0 THEN AtStart ELSE ReadOn(fields[i], s, walk[i - 1])
    IN  walk

InOrder(fields, s) == Walk(fields, s)[Len(fields)]

Meaning(p, s) == IF p.ok /\ p.pos = Len(s) THEN Answer(p.regs) ELSE Refused

\* Declared offsets, moved by the running delta, separators fused onto numbers
\* and the plan that reads every field at once change no answer: a program reads
\* its format's fields one after another (executeInner, executeFast, planFast).
ReadsInOrder ==
    stage = "answered" => outcome = Meaning(InOrder(Fields, input), input)

=============================================================================
