------------------------------ MODULE TriggerIO ------------------------------
(***************************************************************************)
(* The Trigger I/O configuration of the MVLC and its two script forms      *)
(* (mvlc_trigger_io_port, _serialize, _deserialize, _serialize_vmescript,  *)
(* _serialize_mvlcscript).                                                 *)
(*                                                                         *)
(* A configuration is a set of units on four levels.  Saving it selects    *)
(* each unit in turn and writes its registers; loading it sorts the writes *)
(* by the unit selected before them and reads the registers back.  Names   *)
(* and 'soft activate' flags travel in a YAML block beside the writes.     *)
(* Unit numbers and register offsets are the real ones; how many units of  *)
(* a kind there are is a parameter.                                        *)
(***************************************************************************)
EXTENDS Integers, Sequences, FiniteSets, FiniteSetsExt, SequencesExt

CONSTANTS
  TimerCount, TriggerResourceCount, NIM_IO_Count, L1Luts, L2Luts,
  CountersCount, ECL_OUT_Count,
  Forms,          \* script forms used: "vmescript", "mvlcscript"
  Values,         \* values of 16 bit registers that the user sets
  ChoiceValues,        \* values of registers that hold one of a few choices
  LutInputs,      \* lookup tables the user enters
  UserNames,      \* names the user gives to units
  MaxEdits,       \* bound on the user's edits
  MaxSaves        \* bound on save-and-load cycles

VARIABLES
  tio,            \* the TriggerIO structure
  want,           \* what the user has entered
  edits, saves,
  loads           \* history: the forms that were loaded

tioVars == <<tio, want, edits, saves, loads>>

(***************************************************************************)
(* Units: <<level, unit>>, in the order scripts set them up.               *)
(***************************************************************************)
Run(level, offset, count) == [i \in 1 .. count |-> <<level, offset + i - 1>>]

Timers == Run(0, 0, TimerCount)
TriggerResources == Run(0, 4, TriggerResourceCount)
StackBusyUnits == Run(0, 12, 1)
NIM_IO_Offset == 16
NIMs == Run(0, NIM_IO_Offset, NIM_IO_Count)
IRQs == Run(0, 33, 1)
LUT1s == Run(1, 0, L1Luts)
LUT2s == Run(2, 0, L2Luts)
StackStarts == Run(3, 0, 1)
MasterTriggers == Run(3, 4, 1)
Counters == Run(3, 8, CountersCount)
NIM3s == Run(3, NIM_IO_Offset, NIM_IO_Count)
ECLs == Run(3, 30, ECL_OUT_Count)

UnitOrder == Timers \o TriggerResources \o StackBusyUnits \o NIMs \o IRQs
  \o LUT1s \o LUT2s \o StackStarts \o MasterTriggers \o Counters \o NIM3s
  \o ECLs

Units == ToSet(UnitOrder)
Luts == ToSet(LUT1s) \cup ToSet(LUT2s)
SoftUnits == ToSet(Timers) \cup ToSet(Counters)
LUT_DynamicInputCount == 3

(***************************************************************************)
(* Registers of a unit: <<field, register offset>> in the order written.   *)
(***************************************************************************)
UnitConnectBase == 128
StrobeGGIOOffset == 50
StrobeGGDefaultWidth == 8

Connections(n) == [i \in 1 .. n |->
  <<<<"c0", "c1", "c2">>[i], UnitConnectBase + 2 * (i - 1)>>]

\* generate(IO, flags, offset)
generate_io(hasDirection, hasActivation, offset) ==
  <<<<"delay", offset>>, <<"width", offset + 2>>, <<"holdoff", offset + 4>>,
    <<"invert", offset + 6>>>>
  \o (IF hasDirection THEN <<<<"direction", offset + 10>>>> ELSE <<>>)
  \o (IF hasActivation THEN <<<<"activate", offset + 16>>>> ELSE <<>>)

generate(u) ==
  CASE u \in ToSet(Timers) -> <<<<"range", 2>>, <<"delay", 4>>, <<"period", 6>>>>
    [] u \in ToSet(TriggerResources) ->
         <<<<"type", 128>>, <<"irqIndex", 0>>>>
         \o generate_io(FALSE, FALSE, 6) \o <<<<"triggerIndex", 130>>>>
    [] u \in ToSet(StackBusyUnits) -> <<<<"stackIndex", 0>>>>
    [] u \in ToSet(NIMs) -> generate_io(TRUE, TRUE, 0)
    [] u \in ToSet(IRQs) -> generate_io(FALSE, FALSE, 0)
    [] u \in ToSet(LUT1s) ->
         IF u[2] = 2 THEN Connections(LUT_DynamicInputCount) ELSE <<>>
    [] u \in ToSet(LUT2s) ->
         <<<<"strobedOutputs", 32>>>> \o Connections(LUT_DynamicInputCount)
         \o generate_io(FALSE, FALSE, StrobeGGIOOffset)
         \o <<<<"strobe", UnitConnectBase + 6>>>>
    [] u \in ToSet(StackStarts) ->
         <<<<"activate", 0>>, <<"stackIndex", 2>>, <<"delay", 4>>>>
         \o Connections(1)
    [] u \in ToSet(MasterTriggers) -> <<<<"activate", 0>>>> \o Connections(1)
    [] u \in ToSet(Counters) -> <<<<"clearOnLatch", 14>>>> \o Connections(2)
    [] u \in ToSet(NIM3s) -> Connections(1)
    [] u \in ToSet(ECLs) -> generate_io(FALSE, TRUE, 0) \o Connections(1)

UnitRegs == [u \in Units |-> generate(u)]

(***************************************************************************)
(* Lookup tables: three bitmaps over 64 inputs, packed as one nibble per   *)
(* input, four nibbles to a 16 bit word.                                   *)
(***************************************************************************)
Bit(bitmap, a) == IF a \in bitmap THEN 1 ELSE 0

RamValue(lut, a) == Bit(lut[1], a) + 2 * Bit(lut[2], a) + 4 * Bit(lut[3], a)

make_lut_ram(lut) ==
  [line \in 0 .. 15 |->
     RamValue(lut, 4 * line) + 16 * RamValue(lut, 4 * line + 1)
       + 256 * RamValue(lut, 4 * line + 2) + 4096 * RamValue(lut, 4 * line + 3)]

lookup(ram, a) == (ram[a \div 4] \div (16 ^ (a % 4))) % 16

parse_lut_ram(at) ==
  LET ram == [line \in 0 .. 15 |-> at[2 * line]]
  IN [output \in 1 .. 3 |->
        {a \in 0 .. 63 : (lookup(ram, a) \div (2 ^ (output - 1))) % 2 = 1}]

(***************************************************************************)
(* Numbers in a script: decimal, hexadecimal or binary, read back with the *)
(* base their prefix shows; an unprefixed number that starts with 0 and    *)
(* has more digits is octal to strtoull().                                 *)
(***************************************************************************)
Digits(v, base) ==
  LET n == IF base = 10 THEN Max({1} \cup {k \in 2 .. 5 : 10 ^ (k - 1) <= v})
           ELSE 4
  IN [i \in 1 .. n |-> (v \div (base ^ (n - i))) % base]

format_value(v, base) == [prefix |-> base, digits |-> Digits(v, base)]

parse_numeric(t) ==
  LET base == IF t.prefix # 10 THEN t.prefix
              ELSE IF Len(t.digits) > 1 /\ t.digits[1] = 0 THEN 8 ELSE 10
  IN FoldLeft(LAMBDA v, x : v * base + x, 0, t.digits) % 65536

Base(field) ==
  CASE field = "ram" -> 16 [] field = "strobedOutputs" -> 2 [] OTHER -> 10

(***************************************************************************)
(* Saving: the flat list of register writes.  An address is <<high, low    *)
(* half word>>: the mvlcscript and command builder forms write the full    *)
(* 32 bit address of the MVLC's own VME interface (SelfVMEAddress), the    *)
(* vmescript form the low half only.                                       *)
(***************************************************************************)
UnitSelectRegister == 512
UnitRegisterBase == 768

SelfHigh(form) == IF form = "vmescript" THEN 0 ELSE 65535

Write(form, reg, value, base) ==
  [hi |-> SelfHigh(form), lo |-> reg, text |-> format_value(value, base)]

UnitBlock(form, cfg, u) ==
  <<Write(form, UnitSelectRegister, 256 * u[1] + u[2], 16)>>
  \o (IF u \in Luts
      THEN LET ram == make_lut_ram(cfg.luts[u])
           IN [i \in 1 .. 16 |->
                 Write(form, UnitRegisterBase + 2 * (i - 1), ram[i - 1], 16)]
      ELSE <<>>)
  \o [i \in DOMAIN UnitRegs[u] |->
        LET r == UnitRegs[u][i] IN
        Write(form, UnitRegisterBase + r[2], cfg.vals[u][r[1]], Base(r[1]))]

generate_trigger_io_parts(form, cfg) ==
  FlattenSeq([i \in DOMAIN UnitOrder |-> UnitBlock(form, cfg, UnitOrder[i])])

\* generate_meta_info_yaml(): names of all units but the level 3 NIMs, which
\* are in level 0, and the flags no register holds.
generate_meta_info_yaml(cfg) ==
  [names |-> [u \in Units \ ToSet(NIM3s) |-> cfg.names[u]],
   settings |-> cfg.soft]

(***************************************************************************)
(* Loading                                                                 *)
(***************************************************************************)
\* A write to the unit select register names the unit of the writes behind it;
\* a register that is written again keeps the last value.
level_writes_from_flat_writes(writes) ==
  LET Selects == {i \in DOMAIN writes :
                    writes[i].hi = 0 /\ writes[i].lo = UnitSelectRegister}
      Selected == [i \in Selects \cup {0} |-> IF i = 0 THEN 0 ELSE parse_numeric(writes[i].text)]
      Block(i) == LET next == Min({k \in Selects : k > i} \cup {Len(writes) + 1})
                  IN  {j \in (i + 1) .. (next - 1) :
                         writes[j].hi > 0 \/ writes[j].lo >= UnitRegisterBase}
      UnitWrites == [n \in {Selected[i] : i \in DOMAIN Selected} |->
                       UNION {Block(i) : i \in {k \in DOMAIN Selected : Selected[k] = n}}]
      Register(j) == (writes[j].lo - UnitRegisterBase) % 65536
      Written == {<<n \div 256, n % 256>> : n \in {m \in DOMAIN UnitWrites : UnitWrites[m] # {}}}
  IN [u \in Written |->
        LET own == UnitWrites[256 * u[1] + u[2]]
        IN [r \in {Register(j) : j \in own} |->
              parse_numeric(writes[Max({j \in own : Register(j) = r})].text)]]

FieldNames == {"range", "delay", "period", "type", "irqIndex", "width",
  "holdoff", "invert", "direction", "activate", "triggerIndex", "stackIndex",
  "c0", "c1", "c2", "strobe", "strobedOutputs", "clearOnLatch"}

IOFields == <<<<"delay", 0>>, <<"width", 2>>, <<"holdoff", 4>>,
  <<"invert", 6>>, <<"direction", 10>>, <<"activate", 16>>>>

Flags == {"invert", "activate", "clearOnLatch"}
Convert(field, v) ==
  IF field \in Flags THEN IF v = 0 THEN 0 ELSE 1
  ELSE IF field = "strobedOutputs" THEN v % 8
  ELSE IF field \in {"irqIndex", "triggerIndex"} THEN v % 256 ELSE v

(***************************************************************************)
(* parse_io(): registers are read in order and the first one that was not  *)
(* written ends the reading: the exception is swallowed.                   *)
(***************************************************************************)
\* The hold-off register is not read.
Mutparse_io(at, offset, vals) ==
  LET known == {i \in 1 .. 6 : IOFields[i][2] + offset \in DOMAIN at}
  IN [f \in FieldNames |->
        IF \E i \in known : IOFields[i][1] = f /\ f # "holdoff"
        THEN Convert(f, at[offset +
               IOFields[CHOOSE i \in known : IOFields[i][1] = f][2]])
        ELSE IF \E i \in 1 .. 6 : IOFields[i][1] = f THEN 0 ELSE vals[f]]

parse_io(at, offset, vals) ==
  LET missing == {i \in 1 .. 6 : IOFields[i][2] + offset \notin DOMAIN at}
      known == {i \in 1 .. 6 : \A j \in missing : i < j}
  IN [f \in FieldNames |->
        IF \E i \in known : IOFields[i][1] = f
        THEN Convert(f, at[offset +
               IOFields[CHOOSE i \in known : IOFields[i][1] = f][2]])
        ELSE IF \E i \in 1 .. 6 : IOFields[i][1] = f THEN 0 ELSE vals[f]]

IoOffset(u) ==
  CASE u \in ToSet(NIMs) \cup ToSet(IRQs) \cup ToSet(ECLs) -> 0
    [] u \in ToSet(TriggerResources) -> 6
    [] u \in Luts -> StrobeGGIOOffset
    [] OTHER -> -1

\* The registers trigger_io_from_writes() reads with .at().
PlainRegs ==
  [u \in Units |-> SelectSeq(UnitRegs[u], LAMBDA r : IoOffset(u) = -1
                       \/ ~\E i \in 1 .. 6 : IOFields[i][1] = r[1])]

parse_unit(at, u, vals) ==
  LET io == IF IoOffset(u) = -1 THEN vals ELSE parse_io(at, IoOffset(u), vals)
      plain == PlainRegs[u]
      known == {i \in DOMAIN plain :
                  \A j \in 1 .. i : plain[j][2] \in DOMAIN at}
      all == [f \in FieldNames |->
                IF \E i \in known : plain[i][1] = f
                THEN Convert(f, at[
                       plain[CHOOSE i \in known : plain[i][1] = f][2]])
                ELSE io[f]]
  IN IF u \in Luts /\ all["width"] = 0
     THEN [all EXCEPT !["width"] = StrobeGGDefaultWidth] ELSE all

DefaultVals(u) ==
  [f \in FieldNames |->
     IF u \in Luts /\ f = "width" THEN StrobeGGDefaultWidth
     ELSE IF u \in ToSet(Counters) /\ f = "c1" THEN 21 ELSE 0]

DefaultConfig ==
  [vals |-> [u \in Units |-> DefaultVals(u)],
   luts |-> [u \in Luts |-> <<{}, {}, {}>>],
   names |-> [u \in Units |-> "default"],
   soft |-> [u \in SoftUnits |-> FALSE]]

(***************************************************************************)
(* trigger_io_from_writes(): units are read in order; a unit or register   *)
(* that was never written ends the whole reading, what has been read until *)
(* then stays.  The level 3 copy of the NIM settings is made from level 0. *)
(***************************************************************************)
RegsOf(regs, u) == IF u \in DOMAIN regs THEN regs[u] ELSE <<>>

Complete(at, u) ==
  \A i \in DOMAIN PlainRegs[u] : PlainRegs[u][i][2] \in DOMAIN at

trigger_io_from_writes(regs) ==
  LET incomplete == {i \in DOMAIN UnitOrder :
                       ~Complete(RegsOf(regs, UnitOrder[i]), UnitOrder[i])}
      read == {UnitOrder[i] : i \in {j \in DOMAIN UnitOrder :
                 /\ \A k \in incomplete : j <= k
                 /\ DOMAIN RegsOf(regs, UnitOrder[j]) # {}}}
      parsed(u) == IF u \in read THEN parse_unit(RegsOf(regs, u), u, DefaultVals(u))
                   ELSE DefaultVals(u)
      nim(u) == LET l0 == parsed(<<0, u[2]>>) IN
                [l0 EXCEPT !["c0"] = parsed(u)["c0"]]
  IN [DefaultConfig EXCEPT
        !.vals = [u \in Units |-> IF u \in ToSet(NIM3s) THEN nim(u) ELSE parsed(u)],
        !.luts = [u \in Luts |-> IF u \in read THEN parse_lut_ram(RegsOf(regs, u))
                                 ELSE <<{}, {}, {}>>]]

apply_meta_info_yaml(cfg, meta) ==
  [cfg EXCEPT
     !.names = [u \in Units |-> IF u \in ToSet(NIM3s)
                                THEN meta.names[<<0, u[2]>>]
                                ELSE meta.names[u]],
     !.soft = meta.settings]

deserialize_trigger_io(writes, meta) ==
  apply_meta_info_yaml(
    trigger_io_from_writes(level_writes_from_flat_writes(writes)), meta)

\* Connections are indexes into the input choices of the unit.
ChoiceFields == {"range", "type", "irqIndex", "triggerIndex", "stackIndex",
  "direction", "c0", "c1", "c2", "strobe"}

Inputs(field) == IF field \in ChoiceFields THEN ChoiceValues ELSE Values

(***************************************************************************)
(* The user edits, saves and loads.                                        *)
(***************************************************************************)
Init ==
  /\ tio = DefaultConfig /\ want = DefaultConfig
  /\ edits = 0 /\ saves = 0 /\ loads = {}

\* Edits of a NIM change both copies of it: "the logic keeps it in sync".
Both(u) == IF u \in ToSet(NIMs) THEN {u, <<3, u[2]>>} ELSE {u}

Apply(cfg, u, f, v) ==
  [cfg EXCEPT !.vals = [x \in Units |->
     IF x \in Both(u) THEN [cfg.vals[x] EXCEPT ![f] = Convert(f, v)]
     ELSE cfg.vals[x]]]

EditValue(u, f, v) ==
  /\ edits < MaxEdits /\ edits' = edits + 1
  /\ tio' = Apply(tio, u, f, v) /\ want' = Apply(want, u, f, v)
  /\ UNCHANGED <<saves, loads>>

EditLut(u, lut) ==
  /\ edits < MaxEdits /\ edits' = edits + 1
  /\ tio' = [tio EXCEPT !.luts[u] = lut]
  /\ want' = [want EXCEPT !.luts[u] = lut]
  /\ UNCHANGED <<saves, loads>>

Named(cfg, u, name) ==
  [cfg EXCEPT !.names = [x \in Units |-> IF x \in Both(u) THEN name
                                          ELSE cfg.names[x]]]

EditMeta(u, name, soft) ==
  /\ edits < MaxEdits /\ edits' = edits + 1
  /\ LET edited(cfg) ==
           IF u \in SoftUnits
           THEN [Named(cfg, u, name) EXCEPT !.soft[u] = soft]
           ELSE Named(cfg, u, name)
     IN tio' = edited(tio) /\ want' = edited(want)
  /\ UNCHANGED <<saves, loads>>

SaveLoad(form) ==
  /\ saves < MaxSaves /\ saves' = saves + 1 /\ loads' = loads \cup {form}
  /\ tio' = deserialize_trigger_io(generate_trigger_io_parts(form, tio),
                                   generate_meta_info_yaml(tio))
  /\ UNCHANGED <<want, edits>>

Next ==
  \/ \E u \in Units : \E i \in DOMAIN UnitRegs[u] :
        \E v \in Inputs(UnitRegs[u][i][1]) : EditValue(u, UnitRegs[u][i][1], v)
  \/ \E u \in Luts, lut \in LutInputs : EditLut(u, lut)
  \/ \E u \in Units \ ToSet(NIM3s), name \in UserNames, soft \in BOOLEAN :
        EditMeta(u, name, soft)
  \/ \E form \in Forms : SaveLoad(form)

-----------------------------------------------------------------------------
\* The settings a load loses.  The activation register of an ECL output comes
\* behind the direction register, which is not written for it: parse_io() stops
\* there.  A strobe width of 0 is replaced (parse_lut()).
LostOnLoad(u, f) ==
  \/ u \in ToSet(ECLs) /\ f = "activate" /\ tio.vals[u][f] = 0
  \/ u \in Luts /\ f = "width" /\ want.vals[u][f] = 0
       /\ tio.vals[u][f] = StrobeGGDefaultWidth

\* However often a configuration is saved and loaded and edited in between, names
\* and flags the user entered are there, and from vmescripts every setting with two
\* exceptions, LostOnLoad: no register of one unit is taken for another's, numbers
\* keep their value in each base, lookup tables unpack to what was packed, NIM
\* settings and names stay equal on both levels.  Of the other forms, whose full VME
\* addresses level_writes_from_flat_writes() does not know, all registers are taken
\* for those of the first unit, and the settings are lost.
SettingsSurvive ==
  /\ tio.names = want.names /\ tio.soft = want.soft
  /\ loads \subseteq {"vmescript"} =>
       /\ tio.luts = want.luts
       /\ \A u \in Units, f \in FieldNames :
            tio.vals[u][f] = want.vals[u][f] \/ (loads # {} /\ LostOnLoad(u, f))
=============================================================================
