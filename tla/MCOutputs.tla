------------------------------ MODULE MCOutputs ------------------------------
(***************************************************************************)
(* Small instances of the programs around the library that hand its data   *)
(* on and let others use its controller: a behaviour is about the stream   *)
(* server or about one of the services of the FRIB DAQ readout (runs and   *)
(* the ring buffer, slow controls and their scripts, VME access for other  *)
(* programs).                                                              *)
(***************************************************************************)
EXTENDS StreamServer

CONSTANTS SnoopBuffers, MaxCommands, MaxTriggers, MaxClock,
          MaxFaults,
          NChannels, MaxHvChanges, MaxHvFaults,
          VmeClients, MaxOps, MaxVmeFaults, MaxExecutes,
          ModuleNames, Ensembles, UseGivenName, HalfMod, MaxListLen, MaxTclFaults

ASSUME SupplyAssumption == NChannels \in Nat \ {0}
ASSUME WordAssumption == HalfMod \in Nat \ {0}

VARIABLES
    subject,            \* what this behaviour is about
    s_runState, s_runNumber, s_events, s_cumulative_events, s_lastScalerStopTime,
    s_timing, cmd, future, worker, desired, changing, outBuf, outSnoop, snoopFilled,
    parsing, parserHolds, ring, clock, commands, triggers, lostForParser, early,
    kind, configured, file, hw, shadow, possible, rc, dev, rcCmd, rcPossible, rcRead,
    hidden, faults,
    hvBase, hvReg, m_mon, hvCmd, hvAnswer, hvHeld, hvAsked, hvChanges, hvFaults,
    m_operations, m_readIndices, m_nextReadIndex, cpc, request, m_command, replies,
    answer, mem, done, busFaults, executes,
    tclIndex, m_list, vmeReg, tclReply, tclFaults, leftover, monitored, possibleReg,
    initialized, acknowledged

FR == INSTANCE FribdaqRun
SC == INSTANCE SlowControls
HV == INSTANCE HighVoltage
VL == INSTANCE VmeList

\* Three scripts: one reads two registers, one nothing, and one uses the name it
\* is given for the list.
Op(op, width) == [op |-> op, width |-> width]
Scripts == [hv |-> <<Op("r", 16), Op("r", 32)>>, idle |-> <<>>, old |-> <<Op("r", 16)>>]
ASSUME EnsembleAssumption == Ensembles \subseteq DOMAIN Scripts
TD == INSTANCE TclDrivers
          WITH ScriptOps <- Scripts, ClientOps <- {Op("r", 32), Op("w", 16)},
               WriteValues <- {-2}

fribVars == <<s_runState, s_runNumber, s_events, s_cumulative_events,
              s_lastScalerStopTime, s_timing, cmd, future, worker, desired, changing,
              outBuf, outSnoop, snoopFilled, parsing, parserHolds, ring, clock,
              commands, triggers, lostForParser, early>>
slowVars == <<kind, configured, file, hw, shadow, possible, rc, dev, rcCmd, rcPossible,
              rcRead, hidden, faults>>
hvVars == <<hvBase, hvReg, m_mon, hvCmd, hvAnswer, hvHeld, hvAsked, hvChanges, hvFaults>>
vmeVars == <<m_operations, m_readIndices, m_nextReadIndex, cpc, request, m_command,
             replies, answer, mem, done, busFaults, executes>>
tclVars == <<tclIndex, m_list, vmeReg, tclReply, tclFaults, leftover, monitored,
             possibleReg, initialized, acknowledged>>
outputVars == <<subject, streamVars, fribVars, slowVars, hvVars, vmeVars, tclVars>>

OutputsInit ==
    /\ subject \in {"stream", "runs", "modules", "supply", "lists", "scripts"}
    /\ Init /\ FR!Init /\ SC!Init /\ HV!HvInit /\ VL!Init /\ TD!TclInit

OutputsNext ==
    \/ subject = "stream" /\ Next
       /\ UNCHANGED <<subject, fribVars, slowVars, hvVars, vmeVars, tclVars>>
    \/ subject = "runs" /\ FR!Next
       /\ UNCHANGED <<subject, streamVars, slowVars, hvVars, vmeVars, tclVars>>
    \/ subject = "modules" /\ SC!Next
       /\ UNCHANGED <<subject, streamVars, fribVars, hvVars, vmeVars, tclVars>>
    \/ subject = "supply" /\ HV!HvNext
       /\ UNCHANGED <<subject, streamVars, fribVars, slowVars, vmeVars, tclVars>>
    \/ subject = "lists" /\ VL!Next
       /\ UNCHANGED <<subject, streamVars, fribVars, slowVars, hvVars, tclVars>>
    \/ subject = "scripts" /\ TD!TclNext
       /\ UNCHANGED <<subject, streamVars, fribVars, slowVars, hvVars, vmeVars>>

OutputsSpec == OutputsInit /\ [][OutputsNext]_outputVars

\* The ring items describe the runs: begin and end items nested and labelled alike,
\* event counts that are those submitted, scaler intervals without gap or overlap, and
\* nothing from a readout that is halted (parser_callbacks.cc, BeginCommand, EndCommand).
RunsReported ==
    /\ FR!EventCountsTrue /\ FR!ScalersTile /\ FR!RunsNested
    /\ FR!RunLabels /\ FR!HaltedIsQuiet

\* What an OK of the slow controls server says.  A setting that a V812, a GDG or a script
\* acknowledged stands in the module.  On the RC bus it does only as long as no write
\* fails whose status is not looked at (CMxDCRCBus.cc:310, 313).  A V6533 answers OK to
\* writes that failed as well: Get shows the last setting that reached the supply, and
\* readings that are fresh, in the scale of the command (an actual current is twice as
\* large in Get, CV6533.cc:828, as in mon, 400).  Monitor data is that of what others left
\* in the list and of the script's own reads, and a script was initialised.
SlowControlsTrue ==
    /\ SC!AcknowledgedStands /\ SC!RcBusTrue
    /\ HV!FreshAnswer /\ HV!SettingShownAsAsked
    /\ TD!MonitorDataOwn /\ TD!TclSetStands /\ TD!ConfigInitialized

\* A list executed for a client answers with what the bus did, and a list that could not
\* be compiled does nothing (VmUsbReadoutList, the Set of the VME driver).
ListsTrue == VL!ExecuteAnswersTruth /\ VL!NothingHalfCompiled
=============================================================================
