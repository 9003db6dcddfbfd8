----------------------------- MODULE FribdaqRun -----------------------------
(***************************************************************************)
(* The FRIB DAQ readout program (extras/fribdaq): the Tcl commands that    *)
(* start, pause, resume and end a run, and the parser callbacks that turn  *)
(* readout data into items of the ring buffer.                             *)
(*                                                                         *)
(* Threads: the Tcl event loop (commands and the runvar timer), the        *)
(* readout worker and the readout parser.  The worker is the one of module *)
(* ReadoutWorker, here reduced to the sections it writes and to the snoop  *)
(* buffers; as there, setState() overwrites a request made meanwhile.      *)
(*                                                                         *)
(* An item is committed in one step.  Data of stacks without a callback is *)
(* left out.                                                               *)
(***************************************************************************)
EXTENDS Integers, Sequences, FiniteSets

CONSTANTS SnoopBuffers, MaxCommands, MaxTriggers, MaxClock

VARIABLES
    s_runState, s_runNumber,            \* FRIBDAQRunState
    s_events, s_cumulative_events, s_lastScalerStopTime, s_timing,
    cmd,                \* Tcl thread: "idle", "begin", "end"
    future,             \* what start() waits for: "none", "ok", "error"
    worker, desired,    \* state and desiredState of the readout worker
    changing,           \* between the section and setState() of pause and resume
    outBuf, outSnoop,   \* output buffer, and whether it is a snoop buffer
    snoopFilled,        \* filled snoop buffers
    parsing,            \* what the parser has left of its buffer
    parserHolds,        \* the parser has a buffer
    ring, clock,        \* the items of the readout, time
    commands, triggers, \* bounds: begin, pause, resume and dumps; triggers
    lostForParser,      \* history: a local buffer was flushed
    early               \* history: begin was accepted while the parser had a buffer

stats == <<s_events, s_cumulative_events, s_lastScalerStopTime, s_timing>>
workerVars == <<worker, desired, changing, future>>
bufVars == <<outBuf, outSnoop, snoopFilled, lostForParser>>
parserVars == <<parsing, parserHolds>>
tclVars == <<s_runState, s_runNumber, cmd, commands, early>>
fribVars == <<stats, workerVars, bufVars, parserVars, tclVars, ring, clock, triggers>>

Init ==
    /\ s_runState = "Halted" /\ s_runNumber = 0
    /\ s_events = 0 /\ s_cumulative_events = 0
    /\ s_lastScalerStopTime = 0 /\ s_timing = 0
    /\ cmd = "idle" /\ future = "none"
    /\ worker = "Idle" /\ desired = "Idle" /\ changing = FALSE
    /\ outBuf = <<>> /\ outSnoop = FALSE /\ snoopFilled = <<>>
    /\ parsing = <<>> /\ parserHolds = FALSE
    /\ ring = <<>> /\ clock = 0
    /\ commands = 0 /\ triggers = 0
    /\ lostForParser = FALSE /\ early = FALSE

-----------------------------------------------------------------------------
(* The readout worker                                                      *)

FreeSnoopBuffers ==
    SnoopBuffers - Len(snoopFilled) - (IF parserHolds THEN 1 ELSE 0)
                 - (IF outSnoop THEN 1 ELSE 0)

\* getOutputBuffer() and a section written to it
WriteSection(kind) ==
    /\ outBuf' = Append(outBuf, kind)
    /\ outSnoop' = (outSnoop \/ (outBuf = <<>> /\ FreeSnoopBuffers > 0))
    /\ UNCHANGED <<snoopFilled, lostForParser>>

\* A section and flushCurrentOutputBuffer()
WriteAndFlush(kind) ==
    LET snoop == outSnoop \/ (outBuf = <<>> /\ FreeSnoopBuffers > 0)
    IN  /\ outBuf' = <<>> /\ outSnoop' = FALSE
        /\ snoopFilled' = IF snoop THEN Append(snoopFilled, Append(outBuf, kind))
                                   ELSE snoopFilled
        /\ lostForParser' = (lostForParser \/ ~snoop)

\* loop() up to the promise: a failing startReadout() ends the run again.
WorkerStarts ==
    /\ worker = "Starting"
    /\ WriteSection("BeginRun")
    /\ \E ok \in BOOLEAN :
         /\ future' = IF ok THEN "ok" ELSE "error"
         /\ worker' = IF ok THEN "Running" ELSE "Stopping"
    /\ desired' = worker'
    /\ UNCHANGED <<changing, stats, parserVars, tclVars, ring, clock, triggers>>

\* loop() cannot redirect the data stream and returns at once.
WorkerCannotStart ==
    /\ worker = "Starting"
    /\ future' = "error"
    /\ worker' = "Idle" /\ desired' = "Idle"
    /\ UNCHANGED <<changing, bufVars, stats, parserVars, tclVars, ring, clock, triggers>>

\* An event or a scaler trigger
Trigger(kind) ==
    /\ worker = "Running" /\ desired = "Running" /\ ~changing /\ future # "error"
    /\ triggers < MaxTriggers /\ triggers' = triggers + 1
    /\ WriteSection(kind)
    /\ UNCHANGED <<workerVars, stats, parserVars, tclVars, ring, clock>>

FlushTimeout ==
    /\ worker = "Running" /\ outBuf # <<>>
    /\ outBuf' = <<>> /\ outSnoop' = FALSE
    /\ snoopFilled' = IF outSnoop THEN Append(snoopFilled, outBuf) ELSE snoopFilled
    /\ lostForParser' = (lostForParser \/ ~outSnoop)
    /\ UNCHANGED <<workerVars, stats, parserVars, tclVars, ring, clock, triggers>>

\* Mutant: the branches look at the requested state only.
MutWorkerChanges(from, to, section) ==
    /\ worker \in {"Running", "Paused"} /\ desired = to /\ ~changing
    /\ WriteAndFlush(section)
    /\ changing' = TRUE
    /\ UNCHANGED <<worker, desired, future, stats, parserVars, tclVars, ring, clock,
                   triggers>>

\* The pause and resume branches of loop(), then setState().
WorkerChanges(from, to, section) ==
    /\ worker = from /\ desired = to /\ ~changing
    /\ WriteAndFlush(section)
    /\ changing' = TRUE
    /\ UNCHANGED <<worker, desired, future, stats, parserVars, tclVars, ring, clock,
                   triggers>>

WorkerChanged ==
    /\ changing
    /\ worker' = IF worker = "Running" THEN "Paused" ELSE "Running"
    /\ desired' = worker'
    /\ changing' = FALSE
    /\ UNCHANGED <<future, bufVars, stats, parserVars, tclVars, ring, clock, triggers>>

\* The loop ends: stop(), a plugin, or the loss of the connection.
WorkerStops ==
    /\ worker \in {"Running", "Paused"} /\ ~changing
    /\ \/ desired = "Stopping"
       \/ worker = "Running" /\ desired = "Running"
    /\ worker' = "Stopping" /\ desired' = "Stopping"
    /\ UNCHANGED <<changing, future, bufVars, stats, parserVars, tclVars, ring, clock,
                   triggers>>

WorkerEnds ==
    /\ worker = "Stopping"
    /\ WriteAndFlush("EndRun")
    /\ worker' = "Idle" /\ desired' = "Idle"
    /\ UNCHANGED <<changing, future, stats, parserVars, tclVars, ring, clock, triggers>>

-----------------------------------------------------------------------------
(* The parser callbacks                                                    *)

get_milliseconds == clock - s_timing

\* commitToRing() of items
Commit(items) == ring' = ring \o items

Item(type) == [type |-> type, run |-> 0, events |-> 0, from |-> 0, to |-> 0]
StateChange(type) == [Item(type) EXCEPT !.run = s_runNumber]

ParserTakes ==
    /\ ~parserHolds /\ snoopFilled # <<>>
    /\ parserHolds' = TRUE
    /\ parsing' = Head(snoopFilled)
    /\ snoopFilled' = Tail(snoopFilled)
    /\ UNCHANGED <<outBuf, outSnoop, lostForParser, workerVars, stats, tclVars, ring,
                   clock, triggers>>

ParserReturnsBuffer ==
    /\ parserHolds /\ parsing = <<>>
    /\ parserHolds' = FALSE
    /\ UNCHANGED <<parsing, bufVars, workerVars, stats, tclVars, ring, clock, triggers>>

Parses(kind) ==
    /\ parsing # <<>> /\ Head(parsing) = kind
    /\ parsing' = Tail(parsing)
    /\ UNCHANGED <<parserHolds, bufVars, workerVars, tclVars, clock, triggers>>

\* Mutant: the statistics are updated before the item is committed and again
\* by the caller.
Mutsubmit_event ==
    /\ Parses("event")
    /\ Commit(<<Item("PHYSICS_EVENT")>>)
    /\ s_events' = s_events + 2
    /\ s_cumulative_events' = s_cumulative_events + 1
    /\ UNCHANGED <<s_lastScalerStopTime, s_timing>>

submit_event ==
    /\ Parses("event")
    /\ Commit(<<Item("PHYSICS_EVENT")>>)
    /\ s_events' = s_events + 1
    /\ s_cumulative_events' = s_cumulative_events + 1
    /\ UNCHANGED <<s_lastScalerStopTime, s_timing>>

emit_statistics == <<[Item("PHYSICS_EVENT_COUNT") EXCEPT !.events = s_events]>>

submit_scaler ==
    /\ Parses("scaler")
    /\ Commit(Append(emit_statistics, [Item("PERIODIC_SCALERS") EXCEPT
                 !.from = s_lastScalerStopTime, !.to = get_milliseconds]))
    /\ s_lastScalerStopTime' = get_milliseconds
    /\ UNCHANGED <<s_events, s_cumulative_events, s_timing>>

\* Mutant: the start of the next scaler interval survives the begin of a run.
Mutreset_statistics ==
    /\ s_events' = 0 /\ s_timing' = clock
    /\ UNCHANGED <<s_cumulative_events, s_lastScalerStopTime>>

reset_statistics ==
    /\ s_events' = 0 /\ s_lastScalerStopTime' = 0 /\ s_timing' = clock
    /\ UNCHANGED s_cumulative_events

\* system_event_callback(): the state change (after a format item, left out); the begin of a
\* run has reset the statistics, the end and a pause emit them first.
BeginRun ==
    /\ Parses("BeginRun")
    /\ reset_statistics
    /\ Commit(<<StateChange("BEGIN_RUN")>>)

Transition(section, before, type) ==
    /\ Parses(section)
    /\ Commit(Append(before, StateChange(type)))
    /\ UNCHANGED stats

-----------------------------------------------------------------------------
(* The Tcl commands                                                        *)

finished == worker = "Idle" /\ snoopFilled = <<>>

\* Mutant: the readout does not have to be finished.
MutcanBegin == s_runState = "Halted"

canBegin == s_runState = "Halted" /\ finished
canEnd == s_runState \in {"Active", "Paused"}
canPause == s_runState = "Active"
canResume == s_runState = "Paused"

\* The begin command up to the start of the worker: the configuration file may
\* be bad, init_readout() may fail; each run has a number of its own.
BeginCommand ==
    /\ cmd = "idle" /\ canBegin /\ commands < MaxCommands
    /\ commands' = commands + 1
    /\ s_runNumber' = commands'
    /\ \E started \in BOOLEAN :
         IF started
         THEN /\ worker' = "Starting" /\ desired' = "Starting"
              /\ cmd' = "begin" /\ future' = "none"
         ELSE UNCHANGED <<worker, desired, cmd, future>>
    /\ early' = (early \/ parserHolds)
    /\ UNCHANGED <<changing, s_runState, bufVars, stats, parserVars, ring, clock,
                   triggers>>

BeginReturns ==
    /\ cmd = "begin" /\ future # "none"
    /\ cmd' = "idle"
    /\ s_runState' = IF future = "ok" THEN "Active" ELSE s_runState
    /\ UNCHANGED <<s_runNumber, commands, early, workerVars, bufVars, stats,
                   parserVars, ring, clock, triggers>>

\* Mutant: the command returns when the worker has taken the request.
MutEndCommand ==
    /\ cmd = "idle" /\ canEnd
    /\ worker \notin {"Idle", "Stopping"}
    /\ desired' = "Stopping"
    /\ s_runState' = "Halted"
    /\ UNCHANGED <<cmd, worker, changing, future, s_runNumber, commands,
                   early, bufVars, stats, parserVars, ring, clock, triggers>>

\* The end command: MVLCReadout::stop() refuses when nothing runs, ...
EndCommand ==
    /\ cmd = "idle" /\ canEnd
    /\ worker \notin {"Idle", "Stopping"}
    /\ desired' = "Stopping"
    /\ cmd' = "end"
    /\ UNCHANGED <<worker, changing, future, s_runState, s_runNumber, commands,
                   early, bufVars, stats, parserVars, ring, clock, triggers>>

\* ... and waits for the worker; disabling DAQ mode may fail.
EndReturns ==
    /\ cmd = "end" /\ worker = "Idle"
    /\ cmd' = "idle"
    /\ s_runState' \in {"Halted", s_runState}
    /\ UNCHANGED <<s_runNumber, commands, early, workerVars, bufVars, stats,
                   parserVars, ring, clock, triggers>>

PauseCommand ==
    /\ cmd = "idle" /\ canPause /\ worker = "Running"
    /\ commands < MaxCommands /\ commands' = commands + 1
    /\ desired' = "Paused"
    /\ s_runState' = "Paused"
    /\ UNCHANGED <<worker, changing, future, cmd, s_runNumber, early,
                   bufVars, stats, parserVars, ring, clock, triggers>>

ResumeCommand ==
    /\ cmd = "idle" /\ canResume /\ worker = "Paused"
    /\ commands < MaxCommands /\ commands' = commands + 1
    /\ desired' = "Running"
    /\ s_runState' = "Active"
    /\ UNCHANGED <<worker, changing, future, cmd, s_runNumber, early,
                   bufVars, stats, parserVars, ring, clock, triggers>>

\* The runvar timer: dumpVars() in the Tcl thread while a run is active.
dumpVariables ==
    /\ cmd = "idle" /\ s_runState = "Active"
    /\ commands < MaxCommands /\ commands' = commands + 1
    /\ Commit(<<Item("MONITORED_VARIABLES")>>)
    /\ UNCHANGED <<s_runState, s_runNumber, cmd, early, workerVars, bufVars, stats,
                   parserVars, clock, triggers>>

Tick ==
    /\ clock < MaxClock /\ clock' = clock + 1
    /\ UNCHANGED <<stats, workerVars, bufVars, parserVars, tclVars, ring, triggers>>

Next ==
    \/ BeginCommand \/ BeginReturns \/ EndCommand \/ EndReturns
    \/ PauseCommand \/ ResumeCommand \/ dumpVariables
    \/ WorkerStarts \/ WorkerCannotStart \/ FlushTimeout \/ WorkerChanged \/ WorkerStops \/ WorkerEnds
    \/ WorkerChanges("Running", "Paused", "Pause")
    \/ WorkerChanges("Paused", "Running", "Resume")
    \/ \E kind \in {"event", "scaler"} : Trigger(kind)
    \/ ParserTakes \/ ParserReturnsBuffer
    \/ submit_event \/ submit_scaler \/ BeginRun
    \/ Transition("EndRun", emit_statistics, "END_RUN")
    \/ Transition("Pause", emit_statistics, "PAUSE_RUN")
    \/ Transition("Resume", <<>>, "RESUME_RUN")
    \/ Tick

-----------------------------------------------------------------------------
(* Properties                                                              *)

\* The last item of one of the types before item i, 0 if there is none
LastBefore(i, types) ==
    LET before == {j \in 1 .. i - 1 : ring[j].type \in types}
    IN  IF before = {} THEN 0 ELSE CHOOSE j \in before : \A k \in before : k <= j

\* Every event count in the ring is the number of physics events after the
\* last begin of run in the ring, and the cumulative count is that of all:
\* emit_statistics() and submit_event() agree whatever was paused or lost.
EventCountsTrue ==
    /\ \A i \in DOMAIN ring : ring[i].type = "PHYSICS_EVENT_COUNT" =>
         ring[i].events = Cardinality({j \in LastBefore(i, {"BEGIN_RUN"}) + 1 .. i - 1 :
                                         ring[j].type = "PHYSICS_EVENT"})
    /\ s_cumulative_events =
         Cardinality({i \in DOMAIN ring : ring[i].type = "PHYSICS_EVENT"})

\* Scaler intervals tile a run: submit_scaler() starts each one where the last
\* one of the run ended, the first one at the begin of the run.
ScalersTile ==
    \A i \in DOMAIN ring : ring[i].type = "PERIODIC_SCALERS" =>
        LET last == LastBefore(i, {"PERIODIC_SCALERS"})
        IN  /\ ring[i].from <= ring[i].to
            /\ ring[i].from = IF last > LastBefore(i, {"BEGIN_RUN"}) THEN ring[last].to ELSE 0

StateChanges == {"BEGIN_RUN", "END_RUN", "PAUSE_RUN", "RESUME_RUN"}
MayFollow == {<<"BEGIN_RUN", "PAUSE_RUN">>, <<"BEGIN_RUN", "END_RUN">>,
              <<"PAUSE_RUN", "RESUME_RUN">>, <<"PAUSE_RUN", "END_RUN">>,
              <<"RESUME_RUN", "PAUSE_RUN">>, <<"RESUME_RUN", "END_RUN">>,
              <<"END_RUN", "BEGIN_RUN">>}

\* As long as the parser saw every buffer, the state changes in the ring are
\* those of complete runs, one after the other.
RunsNested ==
    ~lostForParser =>
        \A i \in DOMAIN ring : ring[i].type \in StateChanges =>
            LET last == LastBefore(i, StateChanges)
            IN  IF last = 0 THEN ring[i].type = "BEGIN_RUN"
                ELSE <<ring[last].type, ring[i].type>> \in MayFollow

\* The state changes of a run carry one run number, unless begin was accepted
\* while the parser was still working on the last buffer of the run before,
\* which finished() does not notice.
RunLabels ==
    ~lostForParser /\ ~early =>
        \A i \in DOMAIN ring : ring[i].type \in StateChanges \ {"BEGIN_RUN"} =>
            LET last == LastBefore(i, StateChanges)
            IN  last # 0 => ring[last].run = ring[i].run

\* When the end command has told the user that the run is halted, no data is
\* taken any more.
HaltedIsQuiet ==
    s_runState = "Halted" /\ cmd = "idle" => worker \in {"Idle", "Stopping"}
=============================================================================
