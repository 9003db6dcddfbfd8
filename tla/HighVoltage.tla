----------------------------- MODULE HighVoltage -----------------------------
(***************************************************************************)
(* Slow control of a CAEN V6533 high voltage supply in the FRIB DAQ        *)
(* readout (extras/fribdaq/src/CV6533.cc).  Set, Get and mon are commands  *)
(* of the Tcl thread.  A Get reads one register of every channel, mon      *)
(* reads four of every channel and the global status, each in a VME access *)
(* of its own: meanwhile the supply ramps, trips and warms up, and an      *)
(* access may fail.  Quantities are counted in twentieths of a unit, the   *)
(* finest scale of the driver.                                             *)
(* getPolarities() reads sixteen channels into arrays of six, which is     *)
(* undefined, and is left out.                                             *)
(***************************************************************************)
EXTENDS Integers, Sequences, FiniteSets

CONSTANTS NChannels,     \* channels of the supply (6 in the code)
          MaxHvChanges,  \* number of Sets and of changes the supply makes itself
          MaxHvFaults    \* number of VME accesses that fail

VARIABLES
    hvBase,     \* the option -base has been given
    hvReg,      \* registers of the supply
    m_mon,      \* m_globalStatus, m_channelStatus, m_voltages, m_currents, m_temperatures
    hvCmd,      \* the Get or mon under way, and what it has read
    hvAnswer,   \* what the last Get or mon answered
    hvHeld,     \* history: what each register held since the command began
    hvAsked,    \* history: what a setting may be after the Sets so far
    hvChanges, hvFaults

hvVars == <<hvBase, hvReg, m_mon, hvCmd, hvAnswer, hvHeld, hvAsked, hvChanges, hvFaults>>

Settings == {"v", "i", "on", "ttrip", "svmax", "rdown", "rup", "pdownmode"}
Monitored == {"status", "vact", "iact", "temp"}
Globals == {"globalmaxv", "globalmaxI"}
Params == Settings \cup Monitored \cup Globals

\* A register is <<name, channel>>, with channel 0 for those of the board.
Board == 0
Channels == 1 .. NChannels
Registers == ((Settings \cup Monitored) \X Channels) \cup ((Globals \cup {"globalstatus"}) \X {Board})
Members == (Monitored \X Channels) \cup {<<"globalstatus", Board>>}
Garbage == 77            \* a member or a local array nobody has written yet
Asked == {40}            \* values given to Set, in twentieths

HvInit ==
    /\ hvBase = FALSE
    /\ hvReg = [r \in Registers |-> 0]
    /\ m_mon = [r \in Members |-> Garbage]
    /\ hvCmd = <<>> /\ hvAnswer = <<>> /\ hvHeld = <<>>
    /\ hvAsked = [r \in Settings \X Channels |-> {0}]
    /\ hvChanges = 0 /\ hvFaults = 0

HvFaults(n) == hvFaults' = hvFaults + n /\ hvFaults' <= MaxHvFaults

-----------------------------------------------------------------------------
(* Conversions                                                             *)

\* Mutant: the software limit is set with the scale of a ramp rate.
MutRaw(p, value) ==
    CASE p \in {"v", "ttrip"} -> value \div 2
      [] p = "i" -> value
      [] p \in {"svmax", "rdown", "rup"} -> value \div 20
      [] OTHER -> IF value = 0 THEN 0 ELSE 1

\* The register value a setter writes.
Raw(p, value) ==
    CASE p \in {"v", "ttrip", "svmax"} -> value \div 2
      [] p = "i" -> value
      [] p \in {"rdown", "rup"} -> value \div 20
      [] OTHER -> IF value = 0 THEN 0 ELSE 1

\* What a command shows of a register: the actual current has another scale in
\* Get than in mon.
Shown(command, p, raw) ==
    CASE p \in {"v", "ttrip", "svmax", "vact"} -> 2 * raw
      [] p = "i" -> raw
      [] p = "iact" -> IF command = "mon" THEN raw ELSE 2 * raw
      [] p \in {"rdown", "rup", "temp", "globalmaxv", "globalmaxI"} -> 20 * raw
      [] OTHER -> raw

-----------------------------------------------------------------------------
(* Set and reconfigure                                                     *)

\* One register write: the driver does not look at its status.
Write(r, value, done) ==
    /\ hvReg' = [hvReg EXCEPT ![r] = IF done THEN Raw(r[1], value) ELSE @]
    /\ hvAsked' = [hvAsked EXCEPT ![r] = IF done THEN {value} ELSE @]

\* Set(): answers OK whatever became of the write.  The current limit is
\* written with a 32 bit access to a 16 bit register, and may become anything
\* the two halves make of it.
Set(p, c, value) ==
    /\ hvCmd = <<>> /\ hvChanges < MaxHvChanges
    /\ hvChanges' = hvChanges + 1
    /\ \E done \in BOOLEAN :
         /\ done => hvBase
         /\ HvFaults(IF hvBase /\ ~done THEN 1 ELSE 0)
         /\ Write(<<p, c>>, IF p \in {"on", "pdownmode"} /\ value # 0 THEN 1 ELSE value, done)
    /\ hvAnswer' = <<>> /\ hvHeld' = <<>>
    /\ UNCHANGED <<hvBase, m_mon, hvCmd>>

SetCurrent(c, value) ==
    /\ hvCmd = <<>> /\ hvChanges < MaxHvChanges
    /\ hvChanges' = hvChanges + 1
    /\ \E raw \in {hvReg[<<"i", c>>]} \cup (IF hvBase THEN {0, Raw("i", value)} ELSE {}) :
         /\ hvReg' = [hvReg EXCEPT ![<<"i", c>>] = raw]
         /\ hvAsked' = [hvAsked EXCEPT ![<<"i", c>>] = @ \cup {0, value}]
    /\ hvAnswer' = <<>> /\ hvHeld' = <<>>
    /\ UNCHANGED <<hvBase, m_mon, hvCmd, hvFaults>>

\* reconfigure(): turnOff() and setRequestVoltage(0) for every channel, errors
\* ignored.
reconfigure ==
    /\ hvCmd = <<>>
    /\ hvBase' = TRUE
    /\ \E failed \in SUBSET ({"v", "on"} \X Channels) :
         LET zeroed == ({"v", "on"} \X Channels) \ failed
         IN  /\ HvFaults(Cardinality(failed))
             /\ hvReg' = [r \in Registers |-> IF r \in zeroed THEN 0 ELSE hvReg[r]]
             /\ hvAsked' = [r \in DOMAIN hvAsked |-> IF r \in zeroed THEN {0} ELSE hvAsked[r]]
    /\ hvAnswer' = <<>> /\ hvHeld' = <<>>
    /\ UNCHANGED <<m_mon, hvCmd, hvChanges>>

-----------------------------------------------------------------------------
(* Get and mon                                                             *)

\* The registers a command reads, in this order.
ChannelReads == <<"status", "vact", "iact", "temp">>
Reads(command) ==
    IF command = "mon"
    THEN <<<<"globalstatus", Board>>>> \o
         [k \in 1 .. 4 * NChannels |-> <<ChannelReads[((k - 1) % 4) + 1], ((k - 1) \div 4) + 1>>]
    ELSE IF command \in Globals THEN <<<<command, Board>>>>
    ELSE [k \in Channels |-> <<command, k>>]

Begin(command) ==
    /\ hvCmd = <<>>
    /\ hvCmd' = <<[command |-> command, read |-> <<>>]>>
    /\ hvAnswer' = <<>>
    /\ hvHeld' = [r \in Registers |-> {hvReg[r]}]
    /\ UNCHANGED <<hvBase, hvReg, m_mon, hvAsked, hvChanges, hvFaults>>

Get(p) == Begin(p)
getMonitor == Begin("mon")

\* A read that fails ends the command: Get answers ERROR, mon lets an exception
\* out.
Fails ==
    /\ hvCmd' = <<>> /\ hvHeld' = <<>> /\ UNCHANGED hvAnswer

\* Mutant: nor is the temperature's.
MutStatusChecked(p) == p \notin {"ttrip", "temp"}

\* Whose status is looked at: getTripTimes() does not assign the one it tests.
StatusChecked(p) == p # "ttrip"

\* The next read of a command of commands, into a local array or a member; the
\* last one makes the answer.
ReadNext(commands) ==
    /\ hvCmd # <<>> /\ hvCmd[1].command \in commands
    /\ LET c == hvCmd[1]
           r == Reads(c.command)[Len(c.read) + 1]
       IN  \E ok \in BOOLEAN :
             LET now == IF r \notin Members THEN m_mon
                        ELSE [m_mon EXCEPT ![r] = IF ok THEN hvReg[r] ELSE @]
                 value == IF r \in Members THEN now[r]
                          ELSE IF ok THEN hvReg[r] ELSE Garbage
                 read == Append(c.read, value)
             IN  /\ ok => hvBase
                 /\ HvFaults(IF hvBase /\ ~ok THEN 1 ELSE 0)
                 /\ m_mon' = now
                 /\ IF ~ok /\ StatusChecked(r[1]) THEN Fails
                    ELSE IF Len(read) < Len(Reads(c.command))
                    THEN /\ hvCmd' = <<[c EXCEPT !.read = read]>>
                         /\ UNCHANGED <<hvAnswer, hvHeld>>
                    ELSE /\ hvCmd' = <<>>
                         /\ hvAnswer' = <<[command |-> c.command, values |->
                              [k \in 1 .. Len(read) |->
                                 LET q == Reads(c.command)[k]
                                 IN  Shown(c.command, q[1],
                                           IF q \in Members THEN now[q] ELSE read[k])]]>>
                         /\ UNCHANGED hvHeld
    /\ UNCHANGED <<hvBase, hvReg, hvAsked, hvChanges>>

getGlobalMax == ReadNext(Globals)
getRequests == ReadNext({"v", "i", "on"})
getActuals == ReadNext({"vact", "iact", "status"})
getTripTimes == ReadNext({"ttrip"})
getLimits == ReadNext({"svmax", "rdown", "rup"})
getPowerdownModes == ReadNext({"pdownmode"})
getTemperatures == ReadNext({"temp"})
fillMonitoredVariables == ReadNext({"mon"})

\* The supply ramps, trips, warms up.
SupplyChanges(p, c) ==
    /\ hvChanges < MaxHvChanges
    /\ hvChanges' = hvChanges + 1
    /\ LET value == hvReg[<<p, c>>] + 3
       IN  /\ hvReg' = [hvReg EXCEPT ![<<p, c>>] = value]
           /\ hvHeld' = IF hvCmd = <<>> THEN <<>> ELSE [hvHeld EXCEPT ![<<p, c>>] = @ \cup {value}]
    /\ hvAnswer' = <<>>
    /\ UNCHANGED <<hvBase, m_mon, hvCmd, hvAsked, hvFaults>>

HvNext ==
    \/ \E p \in Settings \ {"i"}, c \in Channels, value \in Asked : Set(p, c, value)
    \/ \E c \in Channels, value \in Asked : SetCurrent(c, value)
    \/ \E p \in Params : Get(p)
    \/ \E p \in Monitored, c \in Channels : SupplyChanges(p, c)
    \/ reconfigure \/ getMonitor
    \/ getGlobalMax \/ getRequests \/ getActuals \/ getTripTimes \/ getLimits
    \/ getPowerdownModes \/ getTemperatures \/ fillMonitoredVariables

-----------------------------------------------------------------------------
(* Properties                                                              *)

\* An answer of Get or mon has one value for each register it was to read, and
\* each is what that register held while the command ran: nothing of an
\* earlier command that failed half way is left in m_voltages and its
\* siblings.  Trip times are exempt, as their reads go unchecked.  Values are
\* in the scale of the command: actual currents in tenths in Get (828), in
\* twentieths in mon (400), where requested currents are, too (527).
FreshAnswer ==
    hvAnswer # <<>> =>
        LET a == hvAnswer[1]
            reads == Reads(a.command)
        IN  /\ Len(a.values) = Len(reads)
            /\ a.command # "ttrip" => \A k \in 1 .. Len(reads) :
                 a.values[k] \in {Shown(a.command, reads[k][1], raw) : raw \in hvHeld[reads[k]]}

\* A setting is shown in the unit it was given in: an answer of Get is what the
\* last Set of that channel that reached the supply asked for.  (A Set that did
\* not is answered with OK, too: its status is not looked at, 496-633.)
SettingShownAsAsked ==
    hvAnswer # <<>> /\ hvAnswer[1].command \in Settings \ {"ttrip"} =>
        \A c \in Channels : hvAnswer[1].values[c] \in hvAsked[<<hvAnswer[1].command, c>>]
=============================================================================
