---------------------------- MODULE SlowControls ----------------------------
(***************************************************************************)
(* The slow controls of the FRIB DAQ readout (extras/fribdaq): a module    *)
(* made by "Module create", set up by "Module config" and driven by Set,   *)
(* Get and Update.  Its type is one of                                     *)
(*   v812    discriminator with write-only registers, hence a shadow;      *)
(*   jtecgdg gate and delay generator;                                     *)
(*   mxdcrcbus the bus behind a mesytec module: four registers start a     *)
(*           transaction, its status is polled, up to four attempts.       *)
(* Every command runs to its end in the Tcl thread.  What can go wrong is  *)
(* the VME bus: a write is refused, or done but reported as failed.        *)
(***************************************************************************)
EXTENDS Integers, Sequences, SequencesExt, FiniteSets

CONSTANTS MaxFaults     \* number of bus faults

VARIABLES
    kind,               \* type of the module, "none" before it is created
    configured, file,   \* the options -base and -file have been given
    hw, shadow,         \* registers, and what the driver remembers of them
    possible,           \* history: what a register may hold after what was answered
    rc, dev,            \* registers of the RC bus master; parameters behind it
    rcCmd,              \* Set or Get under way on the bus
    rcPossible, rcRead, \* history: as possible; the last Get answered
    hidden,             \* history: a fault the driver cannot notice
    faults

regVars == <<hw, shadow, possible>>
rcVars == <<rc, dev, rcCmd, rcPossible, rcRead, hidden>>
slowVars == <<kind, configured, file, regVars, rcVars, faults>>

Params == {"threshold", "width", "majority", "delay"}
ParamsOf == [v812 |-> {"threshold", "width", "majority"}, jtecgdg |-> {"delay", "width"},
             mxdcrcbus |-> {}, none |-> {}]
PowerOn == 99           \* what a register holds before anybody wrote it
Values == {0, 1, 256}   \* 256 is out of range for a discriminator
FileValue == 2          \* width in the file of -file
Outcomes == {"ok", "refused", "unanswered"}
Addrs == {0, 1}

Init ==
    /\ kind = "none" /\ configured = FALSE /\ file = FALSE
    /\ hw = [p \in Params |-> PowerOn]
    /\ shadow = [p \in Params |-> IF p = "majority" THEN 1 ELSE 0]
    /\ possible = [p \in Params |-> {PowerOn}]
    /\ rc = [opcode |-> "none", addr |-> 0, data |-> PowerOn, status |-> "ok"]
    /\ dev = [a \in Addrs |-> PowerOn]
    /\ rcCmd = <<>> /\ rcPossible = [a \in Addrs |-> {PowerOn}] /\ rcRead = <<>>
    /\ hidden = FALSE /\ faults = 0

\* A number of bus faults in one command
Faulty(n) == faults' = faults + n /\ faults' <= MaxFaults

\* vmeWrite(): before -base is given the access hits no module.
vmeWrite(p, value, outcome) ==
    /\ Faulty(IF outcome = "ok" \/ ~configured THEN 0 ELSE 1)
    /\ configured \/ outcome = "refused"
    /\ hw' = IF outcome = "refused" THEN hw ELSE [hw EXCEPT ![p] = value]

\* What the caller may expect of a register after it was told of a write of
\* any of images
Told(p, images, outcome) ==
    possible' = [possible EXCEPT ![p] = CASE outcome = "ok" -> images
                                          [] outcome = "refused" -> @
                                          [] OTHER -> @ \cup images]

-----------------------------------------------------------------------------
(* CV812                                                                   *)

majorityToRegister(value) == (50 * value - 23) \div 4

\* The register value of a parameter as Set writes it, and as Update does,
\* which negates thresholds.
AsSet(p, v) == IF p = "majority" THEN majorityToRegister(v) ELSE v
AsUpdated(p, v) == IF p = "threshold" THEN (-v) % 65536 ELSE AsSet(p, v)
Images(p, v) == {AsSet(p, v), AsUpdated(p, v)}

\* Mutant: the shadow register is set before the hardware.
MutV812Set(p, v) ==
    /\ kind = "v812" /\ p \in ParamsOf.v812
    /\ IF p = "majority" THEN v \in 1 .. 20 ELSE v <= 255
    /\ \E outcome \in Outcomes :
         /\ vmeWrite(p, AsSet(p, v), outcome)
         /\ Told(p, Images(p, v), outcome)
         /\ shadow' = [shadow EXCEPT ![p] = v]
    /\ UNCHANGED <<kind, configured, file, rcVars>>

\* setThreshold(), setWidth(), setMajority(); setDeadtime() and setInhibits()
\* are like setWidth().
V812Set(p, v) ==
    /\ kind = "v812" /\ p \in ParamsOf.v812
    /\ IF p = "majority" THEN v \in 1 .. 20 ELSE v <= 255
    /\ \E outcome \in Outcomes :
         /\ vmeWrite(p, AsSet(p, v), outcome)
         /\ Told(p, Images(p, v), outcome)
         /\ shadow' = IF outcome = "ok" THEN [shadow EXCEPT ![p] = v] ELSE shadow
    /\ UNCHANGED <<kind, configured, file, rcVars>>

\* CV812::Update(): every register is written, errors are ignored.
V812Update(values) ==
    IF ~configured' THEN UNCHANGED <<hw, faults, possible>>
    ELSE \E failed \in SUBSET ParamsOf.v812 :
           /\ Faulty(Cardinality(failed))
           /\ hw' = [p \in Params |-> IF p \in ParamsOf.v812 \ failed
                                      THEN AsUpdated(p, values[p]) ELSE hw[p]]
           /\ possible' = [p \in Params |->
                IF p \notin ParamsOf.v812 THEN possible[p]
                ELSE Images(p, values[p]) \cup (IF p \in failed THEN possible[p] ELSE {})]

configFileToShadow == IF file' THEN [shadow EXCEPT !["width"] = FileValue] ELSE shadow

V812Reconfigure ==
    /\ shadow' = IF configured' THEN configFileToShadow ELSE shadow
    /\ V812Update(shadow')

-----------------------------------------------------------------------------
(* CGDG                                                                    *)

\* setDelay(), setWidth(): what is remembered is only read back by Get and
\* Update, from the hardware.
GDGSet(p, v) ==
    /\ kind = "jtecgdg" /\ p \in ParamsOf.jtecgdg
    /\ shadow' = [shadow EXCEPT ![p] = v]
    /\ \E outcome \in Outcomes :
         vmeWrite(p, v, outcome) /\ Told(p, {v}, outcome)
    /\ UNCHANGED <<kind, configured, file, rcVars>>

\* Update(): the fixed configuration is written, the registers are read; a read
\* that fails leaves what was remembered.
GDGUpdate ==
    /\ \E failed \in SUBSET ParamsOf.jtecgdg :
         /\ configured' \/ failed = ParamsOf.jtecgdg
         /\ Faulty(IF configured' THEN Cardinality(failed) ELSE 0)
         /\ shadow' = [p \in Params |-> IF p \in ParamsOf.jtecgdg \ failed
                                        THEN hw[p] ELSE shadow[p]]
    /\ UNCHANGED <<hw, possible>>

\* getDelay(), getWidth()
GDGGet(p) ==
    /\ kind = "jtecgdg" /\ configured /\ p \in ParamsOf.jtecgdg
    /\ shadow' = [shadow EXCEPT ![p] = hw[p]]
    /\ UNCHANGED <<kind, configured, file, hw, possible, rcVars, faults>>

-----------------------------------------------------------------------------
(* CMxDCRCBus                                                              *)

MaxAttempts == 4

\* Writes whose status is looked at: RCModNum, and RCOpCode of a Set.
Checked(op) == IF op = "write" THEN {1, 2} ELSE {1}

RcStart(op, a, v) ==
    /\ kind = "mxdcrcbus" /\ configured /\ rcCmd = <<>>
    /\ rcCmd' = <<[op |-> op, addr |-> a, data |-> v, attempts |-> 0]>>
    /\ rcRead' = <<>>
    /\ UNCHANGED <<kind, configured, file, regVars, rc, dev, rcPossible, hidden, faults>>

\* The command ends with an error or an exception: it may have been done.
RcGivesUp ==
    /\ rcCmd' = <<>>
    /\ UNCHANGED rcRead

\* Mutant: only an address collision is taken for an error.
MutresponseIndicatesError(status) == status = "collision"

responseIndicatesError(status) == status \in {"collision", "noresponse"}

\* The command ends, the value read back is compared by Set and answered by Get.
RcAnswers(c, data, values) ==
    /\ rcCmd' = <<>>
    /\ rcPossible' = IF c.op = "write" /\ data = c.data
                     THEN [rcPossible EXCEPT ![c.addr] = {c.data}] ELSE values
    /\ rcRead' = IF c.op = "read" THEN <<c.addr, data>> ELSE <<>>

\* One attempt: addParameterWrite() or addParameterRead() (RCModNum, RCOpCode,
\* RCAddr, RCData, which starts the transaction) with the writes in refused not
\* done, the answer of the bus, pollForResponse() and readResult().
RcTransaction(c, refused, bus, polled) ==
    LET values == IF c.op = "write" THEN [rcPossible EXCEPT ![c.addr] = @ \cup {c.data}]
                                    ELSE rcPossible
        thrown == refused \cap Checked(c.op) # {}
        opcode == IF 2 \in refused THEN rc.opcode ELSE c.op
        addr == IF 3 \in refused THEN rc.addr ELSE c.addr
        sent == IF c.op = "write" THEN c.data ELSE 0
        started == ~thrown /\ 4 \notin refused
        done == started /\ bus = "ok" /\ opcode # "none"
        store == [dev EXCEPT ![addr] = IF done /\ opcode = "write" THEN sent ELSE @]
        data == IF done THEN store[addr] ELSE IF started THEN sent ELSE rc.data
        status == IF started THEN bus ELSE rc.status
    IN  /\ started \/ bus = "ok"
        /\ hidden' = (hidden \/ (refused # {} /\ ~thrown))
        /\ dev' = store
        /\ rc' = IF thrown THEN rc
                 ELSE [opcode |-> opcode, addr |-> addr, data |-> data, status |-> status]
        /\ IF thrown \/ ~polled THEN RcGivesUp /\ rcPossible' = values
           ELSE IF ~responseIndicatesError(status) THEN RcAnswers(c, data, values)
           ELSE IF c.attempts + 1 < MaxAttempts
           THEN /\ rcCmd' = <<[c EXCEPT !.attempts = @ + 1]>>
                /\ rcPossible' = values
                /\ UNCHANGED rcRead
           ELSE RcGivesUp /\ rcPossible' = values

RcAttempt ==
    /\ rcCmd # <<>>
    /\ \E refused \in SUBSET (1 .. 4), bus \in {"ok", "collision", "noresponse"},
          polled \in BOOLEAN :
         /\ Cardinality(refused) <= 1
         /\ Faulty(Cardinality(refused) + (IF bus = "ok" THEN 0 ELSE 1)
                     + (IF polled THEN 0 ELSE 1))
         /\ RcTransaction(rcCmd[1], refused, bus, polled)
    /\ UNCHANGED <<kind, configured, file, regVars>>

-----------------------------------------------------------------------------
(* The Module command                                                      *)

\* The defaults of the discriminator's shadow count as told.
create(type) ==
    /\ kind = "none"
    /\ kind' = type
    /\ possible' = [p \in Params |-> IF type = "v812" /\ p \in ParamsOf.v812
                                     THEN possible[p] \cup Images(p, shadow[p])
                                     ELSE possible[p]]
    /\ UNCHANGED <<configured, file, hw, shadow, rcVars, faults>>

reconfigure ==
    CASE kind = "v812" -> V812Reconfigure
      [] kind = "jtecgdg" -> GDGUpdate
      [] OTHER -> UNCHANGED <<regVars, faults>>

\* The options are given one after the other; a bad one ends the command with
\* an error, the ones before it stay, and the driver is not told.
configure(options) ==
    /\ kind # "none" /\ rcCmd = <<>>
    /\ LET bad == "bad" \in ToSet(options)
                     \/ ("file" \in ToSet(options) /\ kind # "v812")
       IN  /\ configured' = (configured \/ options[1] = "base")
           /\ file' = (file \/ (options[1] = "file" /\ kind = "v812"))
           /\ IF bad THEN UNCHANGED <<regVars, faults>> ELSE reconfigure
    /\ UNCHANGED <<kind, rcVars>>

Update ==
    /\ kind # "none" /\ rcCmd = <<>>
    /\ UNCHANGED <<kind, configured, file, rcVars>>
    /\ CASE kind = "v812" -> V812Update(shadow) /\ UNCHANGED shadow
         [] kind = "jtecgdg" -> GDGUpdate
         [] OTHER -> UNCHANGED <<regVars, faults>>

Next ==
    \/ \E type \in {"v812", "jtecgdg", "mxdcrcbus"} : create(type)
    \/ \E options \in {<<"base">>, <<"file">>, <<"base", "bad">>, <<"bad">>} : configure(options)
    \/ Update \/ RcAttempt
    \/ \E p \in Params, v \in Values : V812Set(p, v) \/ GDGSet(p, v)
    \/ \E p \in Params : GDGGet(p)
    \/ \E a \in Addrs, v \in {1, 2} : RcStart("write", a, v)
    \/ \E a \in Addrs : RcStart("read", a, 0)

-----------------------------------------------------------------------------
(* Properties                                                              *)

\* What Set acknowledged stands, whatever Sets fail, options are refused and
\* updates are lost later: a register holds the last acknowledged value, or one
\* whose write was reported as failed although it was done (for a discriminator
\* threshold, the value or its negative); and what CV812::Get() answers is what
\* may be in the hardware.
AcknowledgedStands ==
    /\ \A p \in ParamsOf[kind] : hw[p] \in possible[p]
    /\ kind = "v812" /\ configured => \A p \in ParamsOf.v812 :
         Images(p, shadow[p]) \subseteq possible[p]

\* As long as the unchecked writes (RCAddr, RCData, and RCOpCode in a Get) do
\* not fail, a parameter on the RC bus holds the last value a Set acknowledged
\* or one a later failed Set tried, and a Get answers what it holds, whatever
\* attempts failed before.
RcBusTrue ==
    ~hidden =>
        /\ \A a \in Addrs : dev[a] \in rcPossible[a]
        /\ rcRead # <<>> => rcRead[2] = dev[rcRead[1]]
=============================================================================
