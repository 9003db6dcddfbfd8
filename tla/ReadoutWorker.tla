--------------------------- MODULE ReadoutWorker ---------------------------
(***************************************************************************)
(* The DAQ readout: class ReadoutWorker (mvlc_readout_worker.cc) and its   *)
(* facade MVLCReadout (mvlc_readout.cc).                                   *)
(*                                                                         *)
(* Actors: the user thread calling start(), stop(), pause(), resume(); the *)
(* worker thread in Private::loop(); the asynchronous reader that          *)
(* startReadout() and terminateReadout() run beside their commands; the    *)
(* listfile writer thread; the consumer of the snoop queue and the MVLC    *)
(* (both external).                                                        *)
(*                                                                         *)
(* state and desiredState are separate variables of the code, and every    *)
(* access to one of them is a step.  What is written to a buffer is a      *)
(* sequence of sections, numbered in the order they are produced.  One     *)
(* Data section stands for whatever one trigger delivers; the framing      *)
(* repairs of readout_usb() are not modelled.  A listfile buffer is its    *)
(* contents, a snoop buffer a count.  assert() is compiled out.            *)
(***************************************************************************)
EXTENDS Naturals, Sequences

CONSTANTS
    ListfileWriterBufferCount,  \* 10 in the code
    SnoopCount,                 \* buffers of the snoop queues, 0: no snoopQueues
    Calls,                      \* the calls the user makes
    MaxCalls,                   \* bound: user calls
    Options                     \* the ways the readout is used, see `options'

ASSUME BufferAssumption ==
    /\ ListfileWriterBufferCount \in Nat \ {0}
    /\ SnoopCount \in Nat
ASSUME CallsAssumption ==
    /\ Calls \subseteq {"start", "stop", "pause", "resume"}
    /\ MaxCalls \in Nat
ASSUME OptionAssumption ==
    Options \subseteq
        [facade : BOOLEAN, listfile : BOOLEAN, mcst : BOOLEAN,
         writeMayFail : BOOLEAN, commandMayFail : BOOLEAN,
         linkMayFail : BOOLEAN, durationSet : BOOLEAN,
         writerStartsFirst : BOOLEAN, maxData : Nat, maxTicks : Nat]

States == {"Idle", "Starting", "Running", "Paused", "Stopping"}
Kinds  == {"Preamble", "BeginRun", "Tick", "Data", "Pause", "Resume",
           "EndRun", "EndOfFile"}

\* Sections the facade writes itself are not numbered.
Section == [kind : Kinds, n : Nat]

VARIABLES
    options,                    \* how the readout is used, chosen in Init
    state, desiredState,        \* the two shared state variables
    upc, calls,                 \* the user thread, calls made
    future,                     \* of the promise passed to loop()
    lpc,                        \* the worker thread
    activity,                   \* "start", "pause", "resume" or "stop"
    ec,                         \* the error_code under way in the worker
    rpc, readerAction, action, gotData,   \* the asynchronous reader
    wpc, writerState, eptr, wbuf,         \* the listfile writer
    lfEmpty, lfFilled,          \* listfile queues: a count, contents
    snEmpty, snFilled,          \* snoop queues: counts
    outputBuffer, out,          \* which buffer is in use, its contents
    lfh, listfile,              \* the worker holds a handle; what was written
    sections,                   \* number of sections produced so far
    link,                       \* "up", "lost", "closed" by disconnect()
    daqMode, pipe, delivered,   \* the MVLC, Data under way and delivered
    lastMcst                    \* history: multicast commands run last

userVars   == <<upc, calls>>
stateVars  == <<state, desiredState>>
loopVars   == <<lpc, activity, ec, future>>
readerVars == <<rpc, readerAction, action, gotData>>
writerVars == <<wpc, writerState, eptr, wbuf>>
lfVars     == <<lfEmpty, lfFilled>>
outVars    == <<outputBuffer, out, sections, snEmpty>>
fileVars   == <<lfh, listfile>>
devVars    == <<link, daqMode, pipe, delivered, lastMcst>>
vars == <<options, stateVars, userVars, loopVars, readerVars, writerVars,
          lfVars, snFilled, outVars, fileVars, devVars>>

Facade            == options.facade          \* the user calls MVLCReadout
HasListfile       == options.listfile        \* a WriteHandle was passed in
HasMcst           == options.mcst            \* there are multicast commands
WriteMayFail      == options.writeMayFail    \* WriteHandle::write() may throw
CommandMayFail    == options.commandMayFail  \* commands may time out
LinkMayFail       == options.linkMayFail     \* the connection may be lost
DurationSet       == options.durationSet     \* a plugin may end the run
\* The writer thread enters its loop before the worker sets itself Running.
WriterStartsFirst == options.writerStartsFirst
\* Bounds: the Data sections the MVLC delivers; plugins write a section only
\* while fewer than this many were produced.
MaxData           == options.maxData
MaxTicks          == options.maxTicks

Init ==
    /\ options \in Options
    /\ state = "Idle" /\ desiredState = "Idle"
    /\ upc = "idle" /\ calls = 0
    /\ future = "none" /\ lpc = "none" /\ activity = "start" /\ ec = "ok"
    /\ rpc = "none" /\ readerAction = "Run" /\ action = "Run" /\ gotData = FALSE
    /\ wpc = "none" /\ writerState = "Idle" /\ eptr = FALSE /\ wbuf = <<>>
    /\ lfEmpty = ListfileWriterBufferCount /\ lfFilled = <<>>
    /\ snEmpty = SnoopCount /\ snFilled = 0
    /\ outputBuffer = "none" /\ out = <<>> /\ sections = 0
    /\ lfh = HasListfile /\ listfile = <<>>
    /\ link = "up" /\ daqMode = FALSE /\ pipe = 0 /\ delivered = 0
    /\ lastMcst = "none"

-----------------------------------------------------------------------------
(* Buffers.                                                                *)

\* getOutputBuffer(), then `new' is written to it.  The local buffer is used
\* when the snoop side has no free one.
Write(new) ==
    LET fresh == outputBuffer = "none"
        snoop == fresh /\ snEmpty > 0
    IN  /\ outputBuffer' = IF ~fresh THEN outputBuffer
                           ELSE IF snoop THEN "snoop" ELSE "local"
        /\ snEmpty' = IF snoop THEN snEmpty - 1 ELSE snEmpty
        /\ out' = out \o new
        /\ sections' = sections + Len(new)

\* The next section of this kind, or the next k of them.
Some(kind, k) == [i \in 1..k |-> [kind |-> kind, n |-> sections + i]]

\* Mutant: the writer's empty queue is not waited for.
MutFlushNoWait ==
    IF out # <<>>
    THEN /\ lfEmpty' = lfEmpty - 1
         /\ lfFilled' = Append(lfFilled, out)
         /\ snFilled' = IF outputBuffer = "snoop" THEN snFilled + 1 ELSE snFilled
         /\ outputBuffer' = "none"
         /\ out' = <<>>
         /\ UNCHANGED <<sections, snEmpty>>
    ELSE UNCHANGED <<lfVars, snFilled, outVars>>

\* Mutant: outputBuffer_ is not reset, so that it is flushed again.
MutFlushAgain ==
    IF out # <<>>
    THEN /\ lfEmpty > 0
         /\ lfEmpty' = lfEmpty - 1
         /\ lfFilled' = Append(lfFilled, out)
         /\ UNCHANGED <<snFilled, outVars>>
    ELSE UNCHANGED <<lfVars, snFilled, outVars>>

\* Blocks (is disabled) while the writer has not returned a buffer.
flushCurrentOutputBuffer ==
    IF out # <<>>
    THEN /\ lfEmpty > 0
         /\ lfEmpty' = lfEmpty - 1
         /\ lfFilled' = Append(lfFilled, out)
         /\ snFilled' = IF outputBuffer = "snoop" THEN snFilled + 1 ELSE snFilled
         /\ outputBuffer' = "none"
         /\ out' = <<>>
         /\ UNCHANGED <<sections, snEmpty>>
    ELSE UNCHANGED <<lfVars, snFilled, outVars>>

\* What a command or a register access may return.
Results == IF link # "up" THEN {"ConnectionError"}
           ELSE IF CommandMayFail THEN {"ok", "Timeout"} ELSE {"ok"}

\* A write to the daq_mode register: a timed out one may have been executed.
WriteDaqMode(value, result) ==
    daqMode' \in CASE result = "ok" -> {value}
                   [] result = "Timeout" -> {value, daqMode}
                   [] OTHER -> {daqMode}

\* One call of readout_usb() or readout_eth(): k sections are read, none only
\* if there are none.
Read(k) ==
    /\ k \in IF link # "up" \/ pipe = 0 THEN {0} ELSE 1..pipe
    /\ pipe' = pipe - k
    /\ Write(Some("Data", k))

-----------------------------------------------------------------------------
(* The user thread.                                                        *)

Call(name) == upc = "idle" /\ name \in Calls /\ calls < MaxCalls /\ calls' = calls + 1

\* MVLCReadout::start(): init_readout() and the preamble come first, whatever
\* the worker is doing.
FacadeStart ==
    /\ Facade /\ Call("start")
    /\ \E result \in Results :
         /\ WriteDaqMode(FALSE, result)
         /\ IF result = "ok"
            THEN /\ upc' = "start"
                 /\ listfile' = IF HasListfile
                      THEN Append(listfile, [kind |-> "Preamble", n |-> 0])
                      ELSE listfile
            ELSE UNCHANGED <<upc, listfile>>
    /\ UNCHANGED <<stateVars, loopVars, readerVars, writerVars, lfVars,
                   snFilled, outVars, lfh, link, pipe, delivered, lastMcst>>

\* ReadoutWorker::start(): the check and the first half of setState(Starting).
\* Only a worker thread about to end writes state in between.
UserStart ==
    /\ \/ upc = "start" /\ UNCHANGED calls
       \/ ~Facade /\ Call("start")
    /\ IF state = "Idle"
       THEN state' = "Starting" /\ upc' = "startDesired"
       ELSE upc' = "idle" /\ UNCHANGED state
    /\ UNCHANGED <<desiredState, loopVars, readerVars, writerVars, lfVars,
                   snFilled, outVars, fileVars, devVars>>

UserStartDesired ==
    /\ upc = "startDesired"
    /\ desiredState' = "Starting"
    /\ upc' = "startJoin"
    /\ UNCHANGED <<state, calls, loopVars, readerVars, writerVars, lfVars,
                   snFilled, outVars, fileVars, devVars>>

\* Joins the thread of an earlier run, then starts loop().
UserStartJoin ==
    /\ upc = "startJoin"
    /\ lpc \in {"none", "exited"}
    /\ lpc' = "Redirect" /\ future' = "unset"
    /\ upc' = IF Facade THEN "future" ELSE "idle"
    /\ UNCHANGED <<stateVars, calls, activity, ec, readerVars, writerVars,
                   lfVars, snFilled, outVars, fileVars, devVars>>

UserFuture ==
    /\ upc = "future" /\ future # "unset"
    /\ upc' = "idle"
    /\ UNCHANGED <<stateVars, calls, loopVars, readerVars, writerVars, lfVars,
                   snFilled, outVars, fileVars, devVars>>

\* stop(), pause() and resume() check a copy of state ...
Check(name, accepted, next) ==
    /\ Call(name)
    /\ upc' = IF state \in accepted THEN next ELSE "idle"
    /\ UNCHANGED <<stateVars, loopVars, readerVars, writerVars, lfVars,
                   snFilled, outVars, fileVars, devVars>>

UserStop   == Check("stop", States \ {"Idle", "Stopping"}, "stop")
UserPause  == Check("pause", {"Running"}, "pause")
UserResume == Check("resume", {"Paused"}, "resume")

\* ... and then overwrite desiredState.
UserDesire ==
    /\ \/ upc = "stop" /\ desiredState' = "Stopping"
          /\ upc' = IF Facade THEN "waitIdle" ELSE "idle"
       \/ upc = "pause" /\ desiredState' = "Paused" /\ upc' = "idle"
       \/ upc = "resume" /\ desiredState' = "Running" /\ upc' = "idle"
    /\ UNCHANGED <<state, calls, loopVars, readerVars, writerVars, lfVars,
                   snFilled, outVars, fileVars, devVars>>

\* The rest of MVLCReadout::stop(): wait, write EndOfFile, disable DAQ mode.
FacadeStopped ==
    /\ upc = "waitIdle" /\ state = "Idle"
    /\ listfile' = IF HasListfile
         THEN Append(listfile, [kind |-> "EndOfFile", n |-> 0]) ELSE listfile
    /\ \E result \in Results : WriteDaqMode(FALSE, result)
    /\ upc' = "idle"
    /\ UNCHANGED <<stateVars, calls, loopVars, readerVars, writerVars, lfVars,
                   snFilled, outVars, lfh, link, pipe, delivered, lastMcst>>

\* ~MVLCReadout(): joins the worker thread and closes the listfile.
FacadeDestroy ==
    /\ Facade /\ upc = "idle" /\ calls > 0
    /\ lpc \in {"none", "exited"}
    /\ upc' = "destroyed"
    /\ UNCHANGED <<stateVars, calls, loopVars, readerVars, writerVars, lfVars,
                   snFilled, outVars, fileVars, devVars>>

UserNext == FacadeStart \/ UserStart \/ UserStartDesired \/ UserStartJoin
            \/ UserFuture \/ UserStop \/ UserPause \/ UserResume \/ UserDesire
            \/ FacadeStopped \/ FacadeDestroy

-----------------------------------------------------------------------------
(* The worker thread: startup.                                             *)

\* setState() writes state, then desiredState.
SetState(from, target, to) ==
    /\ lpc = from
    /\ state' = target
    /\ lpc' = to
    /\ UNCHANGED <<desiredState, userVars, activity, ec, future, readerVars,
                   writerVars, lfVars, snFilled, outVars, fileVars, devVars>>

SetDesired(from, target, to) ==
    /\ lpc = from
    /\ desiredState' = target
    /\ lpc' = to
    /\ UNCHANGED <<state, userVars, activity, ec, future, readerVars,
                   writerVars, lfVars, snFilled, outVars, fileVars, devVars>>

\* Mutant: the early return does not set the promise.
MutLoopRedirect ==
    /\ lpc = "Redirect"
    /\ \E result \in Results : lpc' = IF result = "ok" THEN "Spawn" ELSE "Abort"
    /\ UNCHANGED <<stateVars, userVars, activity, ec, future, readerVars,
                   writerVars, lfVars, snFilled, outVars, fileVars, devVars>>

\* Entry of loop(); for ETH, redirect_eth_data_stream() may fail.
LoopRedirect ==
    /\ lpc = "Redirect"
    /\ \E result \in Results \cup {"ok"} :
         IF result = "ok"
         THEN lpc' = "Spawn" /\ UNCHANGED future
         ELSE lpc' = "Abort" /\ future' = result
    /\ UNCHANGED <<stateVars, userVars, activity, ec, readerVars, writerVars,
                   lfVars, snFilled, outVars, fileVars, devVars>>

LoopAbort ==
    \/ SetState("Abort", "Idle", "AbortDesired")
    \/ SetDesired("AbortDesired", "Idle", "exited")

\* Starts the writer thread and calls readoutStart() on the plugins.
LoopSpawn ==
    /\ lpc = "Spawn"
    /\ wpc' = "created" /\ writerState' = "Idle" /\ eptr' = FALSE /\ wbuf' = <<>>
    /\ Write(Some("BeginRun", 1))
    /\ lpc' = "SetRunning" /\ activity' = "start"
    /\ UNCHANGED <<stateVars, userVars, ec, future, readerVars, lfVars,
                   snFilled, fileVars, devVars>>

LoopSetRunning ==
    \/ /\ WriterStartsFirst => wpc # "created"
       /\ SetState("SetRunning", "Running", "DesireRunning")
    \/ SetDesired("DesireRunning", "Running", "StartSpawn")

-----------------------------------------------------------------------------
(* startReadout() and terminateReadout(): commands and, in parallel, the   *)
(* asynchronous reader.                                                    *)

SpawnReader(from, to) ==
    /\ lpc = from
    /\ rpc' = "loop" /\ readerAction' = "Run"
    /\ lpc' = to /\ ec' = "ok"
    /\ UNCHANGED <<stateVars, userVars, activity, future, action, gotData,
                   writerVars, lfVars, snFilled, outVars, fileVars, devVars>>

\* setup_readout_triggers()
StartTriggers ==
    /\ lpc = "StartTriggers"
    /\ \E result \in Results :
         /\ ec' = result
         /\ lpc' = IF result = "ok" THEN "StartMcst" ELSE "StartQuit"
    /\ UNCHANGED <<stateVars, userVars, activity, future, readerVars,
                   writerVars, lfVars, snFilled, outVars, fileVars, devVars>>

\* Multicast commands: only a ConnectionError is taken seriously.
McstCommands(from, commands, next, fail) ==
    /\ lpc = from
    /\ IF HasMcst
       THEN \E result \in Results :
              /\ ec' = result
              /\ lpc' = IF result = "ConnectionError" THEN fail ELSE next
              /\ lastMcst' = IF result = "ConnectionError" THEN lastMcst
                             ELSE commands
       ELSE lpc' = next /\ UNCHANGED <<ec, lastMcst>>
    /\ UNCHANGED <<stateVars, userVars, activity, future, readerVars,
                   writerVars, lfVars, snFilled, outVars, fileVars, link,
                   daqMode, pipe, delivered>>

\* enable_daq_mode() and disable_daq_mode()
DaqMode(from, value, next) ==
    /\ lpc = from
    /\ \E result \in Results : ec' = result /\ WriteDaqMode(value, result)
    /\ lpc' = next
    /\ UNCHANGED <<stateVars, userVars, activity, future, readerVars,
                   writerVars, lfVars, snFilled, outVars, fileVars, link,
                   pipe, delivered, lastMcst>>

QuitReader(from, request, to) ==
    /\ lpc = from
    /\ readerAction' = request
    /\ lpc' = to
    /\ UNCHANGED <<stateVars, userVars, activity, ec, future, rpc, action,
                   gotData, writerVars, lfVars, snFilled, outVars, fileVars,
                   devVars>>

\* Mutant: the reader is not waited for.
MutJoinReader(from, to) ==
    /\ lpc = from
    /\ lpc' = to
    /\ UNCHANGED <<stateVars, userVars, activity, ec, future, readerVars,
                   writerVars, lfVars, snFilled, outVars, fileVars, devVars>>

\* fReadout.get()
JoinReader(from, to) ==
    /\ lpc = from
    /\ rpc = "done"
    /\ lpc' = to
    /\ UNCHANGED <<stateVars, userVars, activity, ec, future, readerVars,
                   writerVars, lfVars, snFilled, outVars, fileVars, devVars>>

startReadout ==
    \/ SpawnReader("StartSpawn", "StartTriggers")
    \/ StartTriggers
    \/ McstCommands("StartMcst", "start", "StartDaq", "StartQuit")
    \/ DaqMode("StartDaq", TRUE, "StartQuit")
    \/ QuitReader("StartQuit", "Quit", "StartJoin")
    \/ JoinReader("StartJoin", "Started")

\* Mutant: the reader quits at once, also after a clean stop.
MutTerminateReadout ==
    \/ SpawnReader("TermSpawn", "TermMcst")
    \/ McstCommands("TermMcst", "start", "TermDaq", "TermQuit")
    \/ DaqMode("TermDaq", FALSE, "TermQuit")
    \/ QuitReader("TermQuit", "Quit", "TermJoin")
    \/ JoinReader("TermJoin", "Terminated")

\* The commands run are mcstDaqStart, in terminateReadout() too.
terminateReadout ==
    \/ SpawnReader("TermSpawn", "TermMcst")
    \/ McstCommands("TermMcst", "start", "TermDaq", "TermQuit")
    \/ DaqMode("TermDaq", FALSE, "TermQuit")
    \/ QuitReader("TermQuit", IF ec = "ok" THEN "QuitWhenEmpty" ELSE "Quit",
                  "TermJoin")
    \/ JoinReader("TermJoin", "Terminated")

\* The asynchronous reader: load readerAction, read, flush.
ReaderLoad ==
    /\ rpc = "loop"
    /\ action' = readerAction
    /\ rpc' = IF readerAction = "Quit" THEN "done" ELSE "read"
    /\ UNCHANGED <<stateVars, userVars, loopVars, readerAction, gotData,
                   writerVars, lfVars, snFilled, outVars, fileVars, devVars>>

ReaderRead ==
    /\ rpc = "read"
    /\ \E k \in 0..pipe : Read(k) /\ gotData' = (k > 0)
    /\ rpc' = "flush"
    /\ UNCHANGED <<stateVars, userVars, loopVars, readerAction, action,
                   writerVars, lfVars, snFilled, fileVars, link, daqMode,
                   delivered, lastMcst>>

ReaderFlush ==
    /\ rpc = "flush"
    /\ flushCurrentOutputBuffer
    /\ rpc' = IF action = "QuitWhenEmpty" /\ ~gotData THEN "done" ELSE "loop"
    /\ UNCHANGED <<stateVars, userVars, loopVars, readerAction, action,
                   gotData, writerVars, fileVars, devVars>>

ReaderNext == ReaderLoad \/ ReaderRead \/ ReaderFlush

-----------------------------------------------------------------------------
(* The worker thread: the readout loop.                                    *)

Begin(what, to) == activity' = what /\ lpc' = to

\* startReadout() has returned: fulfil the promise, or go on resuming.
LoopStarted ==
    /\ lpc = "Started"
    /\ IF activity = "resume"
       THEN lpc' = "ResumeSection" /\ UNCHANGED <<activity, future>>
       ELSE /\ future' = ec
            /\ IF ec = "ok" THEN lpc' = "Plugins" /\ UNCHANGED activity
                            ELSE Begin("stop", "SetStopping")
    /\ UNCHANGED <<stateVars, userVars, ec, readerVars, writerVars, lfVars,
                   snFilled, outVars, fileVars, devVars>>

\* The plugins may write a section or request the end of the run.
LoopPlugins ==
    /\ lpc = "Plugins"
    /\ \/ /\ DurationSet
          /\ Write(<<>>) /\ Begin("stop", "SetStopping")
       \/ /\ \/ Write(<<>>)
             \/ /\ sections < MaxTicks
                /\ Write(Some("Tick", 1))
          /\ lpc' = "Check" /\ UNCHANGED activity
    /\ UNCHANGED <<stateVars, userVars, ec, future, readerVars, writerVars,
                   lfVars, snFilled, fileVars, devVars>>

\* The chain of conditions reads desiredState anew in each of them.
LoopCheck ==
    /\ \/ /\ lpc = "Check" /\ state = "Running"
          /\ lpc' = IF desiredState = "Running" THEN "Readout" ELSE "CheckPause"
          /\ UNCHANGED activity
       \/ /\ lpc = "CheckPause"
          /\ IF desiredState = "Paused" THEN Begin("pause", "TermSpawn")
             ELSE lpc' = "CheckStop" /\ UNCHANGED activity
       \/ /\ lpc = "Check" /\ state = "Paused"
          /\ IF desiredState = "Running" THEN Begin("resume", "StartSpawn")
             ELSE lpc' = "CheckStop" /\ UNCHANGED activity
       \/ /\ lpc = "CheckStop"
          /\ IF desiredState = "Stopping" THEN Begin("stop", "SetStopping")
             ELSE /\ lpc' = IF state = "Paused" THEN "LoopEnd" ELSE "Invalid"
                  /\ UNCHANGED activity
       \/ lpc = "Invalid" /\ lpc' = "LoopEnd" /\ UNCHANGED activity
    /\ UNCHANGED <<stateVars, userVars, ec, future, readerVars, writerVars,
                   lfVars, snFilled, outVars, fileVars, devVars>>

LoopReadout ==
    /\ lpc = "Readout"
    /\ \E k \in 0..pipe : Read(k)
    /\ ec' = IF link = "up" THEN "ok" ELSE "ConnectionError"
    /\ lpc' = "ReadoutFlush"
    /\ UNCHANGED <<stateVars, userVars, activity, future, readerVars,
                   writerVars, lfVars, snFilled, fileVars, link, daqMode,
                   delivered, lastMcst>>

\* On ConnectionError the worker disconnects and leaves the loop.
LoopReadoutFlush ==
    /\ lpc = "ReadoutFlush"
    /\ flushCurrentOutputBuffer
    /\ IF ec = "ConnectionError"
       THEN Begin("stop", "SetStopping") /\ link' = "closed"
       ELSE lpc' = "LoopEnd" /\ UNCHANGED <<activity, link>>
    /\ UNCHANGED <<stateVars, userVars, ec, future, readerVars, writerVars,
                   fileVars, daqMode, pipe, delivered, lastMcst>>

\* The section written when pausing and resuming, and its flush.
PauseResumeSection(from, kind, to) ==
    /\ lpc = from
    /\ Write(Some(kind, 1))
    /\ lpc' = to
    /\ UNCHANGED <<stateVars, userVars, activity, ec, future, readerVars,
                   writerVars, lfVars, snFilled, fileVars, devVars>>

LoopFlush(from, to) ==
    /\ lpc = from
    /\ flushCurrentOutputBuffer
    /\ lpc' = to
    /\ UNCHANGED <<stateVars, userVars, activity, ec, future, readerVars,
                   writerVars, fileVars, devVars>>

\* terminateReadout() has returned.
LoopTerminated ==
    /\ lpc = "Terminated"
    /\ lpc' = IF activity = "pause" THEN "PauseSection" ELSE "StopPlugins"
    /\ UNCHANGED <<stateVars, userVars, activity, ec, future, readerVars,
                   writerVars, lfVars, snFilled, outVars, fileVars, devVars>>

LoopPause ==
    \/ PauseResumeSection("PauseSection", "Pause", "PauseFlush")
    \/ LoopFlush("PauseFlush", "SetPaused")
    \/ SetState("SetPaused", "Paused", "DesirePaused")
    \/ SetDesired("DesirePaused", "Paused", "LoopEnd")

LoopResume ==
    \/ PauseResumeSection("ResumeSection", "Resume", "ResumeFlush")
    \/ LoopFlush("ResumeFlush", "SetResumed")
    \/ SetState("SetResumed", "Running", "DesireResumed")
    \/ SetDesired("DesireResumed", "Running", "LoopEnd")

\* An exception of the writer is rethrown and ends the loop.
LoopEnd ==
    /\ lpc = "LoopEnd"
    /\ IF eptr THEN Begin("stop", "SetStopping")
       ELSE lpc' = "Plugins" /\ UNCHANGED activity
    /\ UNCHANGED <<stateVars, userVars, ec, future, readerVars, writerVars,
                   lfVars, snFilled, outVars, fileVars, devVars>>

-----------------------------------------------------------------------------
(* The worker thread: the stop sequence.                                   *)

\* Branch on the writer's state, as published in writerCounters.
IfWriterRunning(from, yes, no) ==
    /\ lpc = from
    /\ lpc' = IF writerState = "Running" THEN yes ELSE no
    /\ UNCHANGED <<stateVars, userVars, activity, ec, future, readerVars,
                   writerVars, lfVars, snFilled, outVars, fileVars, devVars>>

maybePutBackSnoopBuffer ==
    /\ lpc = "PutBack"
    /\ snEmpty' = IF outputBuffer = "snoop" THEN snEmpty + 1 ELSE snEmpty
    /\ outputBuffer' = "none" /\ out' = <<>>
    /\ lpc' = "IfSentinel"
    /\ UNCHANGED <<stateVars, userVars, activity, ec, future, readerVars,
                   writerVars, lfVars, snFilled, sections, fileVars, devVars>>

\* The empty buffer that tells the writer to stop.
StopSentinel ==
    /\ lpc = "Sentinel"
    /\ lfEmpty > 0
    /\ lfEmpty' = lfEmpty - 1
    /\ lfFilled' = Append(lfFilled, <<>>)
    /\ lpc' = "Join"
    /\ UNCHANGED <<stateVars, userVars, activity, ec, future, readerVars,
                   writerVars, snFilled, outVars, fileVars, devVars>>

\* Mutant: the writer thread is not joined.
MutStopJoin ==
    /\ lpc = "Join"
    /\ lpc' = "Joined"
    /\ UNCHANGED <<stateVars, userVars, activity, ec, future, readerVars,
                   writerVars, lfVars, snFilled, outVars, fileVars, devVars>>

StopJoin ==
    /\ lpc = "Join"
    /\ wpc = "done"
    /\ lpc' = "Joined"
    /\ UNCHANGED <<stateVars, userVars, activity, ec, future, readerVars,
                   writerVars, lfVars, snFilled, outVars, fileVars, devVars>>

StopRelease ==
    /\ lpc = "Joined"
    /\ lfh' = FALSE
    /\ lpc' = "SetIdle"
    /\ UNCHANGED <<stateVars, userVars, activity, ec, future, readerVars,
                   writerVars, lfVars, snFilled, outVars, listfile, devVars>>

\* Mutant: the buffer in use is not flushed at the end of the run.
MutLoopStop ==
    \/ SetState("SetStopping", "Stopping", "DesireStopping")
    \/ SetDesired("DesireStopping", "Stopping", "TermSpawn")
    \/ PauseResumeSection("StopPlugins", "EndRun", "PutBack")
    \/ maybePutBackSnoopBuffer
    \/ IfWriterRunning("IfSentinel", "Sentinel", "Join")
    \/ StopSentinel
    \/ StopJoin
    \/ StopRelease
    \/ SetState("SetIdle", "Idle", "DesireIdle")
    \/ SetDesired("DesireIdle", "Idle", "exited")

\* Mutant: no sentinel is sent.
MutLoopStopNoSentinel ==
    \/ SetState("SetStopping", "Stopping", "DesireStopping")
    \/ SetDesired("DesireStopping", "Stopping", "TermSpawn")
    \/ PauseResumeSection("StopPlugins", "EndRun", "IfFlush")
    \/ IfWriterRunning("IfFlush", "StopFlush", "PutBack")
    \/ LoopFlush("StopFlush", "PutBack")
    \/ maybePutBackSnoopBuffer
    \/ IfWriterRunning("IfSentinel", "Join", "Join")
    \/ StopJoin
    \/ StopRelease
    \/ SetState("SetIdle", "Idle", "DesireIdle")
    \/ SetDesired("DesireIdle", "Idle", "exited")

LoopStop ==
    \/ SetState("SetStopping", "Stopping", "DesireStopping")
    \/ SetDesired("DesireStopping", "Stopping", "TermSpawn")
    \/ PauseResumeSection("StopPlugins", "EndRun", "IfFlush")
    \/ IfWriterRunning("IfFlush", "StopFlush", "PutBack")
    \/ LoopFlush("StopFlush", "PutBack")
    \/ maybePutBackSnoopBuffer
    \/ IfWriterRunning("IfSentinel", "Sentinel", "Join")
    \/ StopSentinel
    \/ StopJoin
    \/ StopRelease
    \/ SetState("SetIdle", "Idle", "DesireIdle")
    \/ SetDesired("DesireIdle", "Idle", "exited")

LoopNext ==
    \/ LoopRedirect \/ LoopAbort \/ LoopSpawn \/ LoopSetRunning
    \/ startReadout \/ terminateReadout \/ LoopStarted
    \/ LoopPlugins \/ LoopCheck \/ LoopReadout \/ LoopReadoutFlush
    \/ LoopTerminated \/ LoopPause \/ LoopResume \/ LoopEnd \/ LoopStop

-----------------------------------------------------------------------------
(* listfile_buffer_writer().                                               *)

WriterStart ==
    /\ wpc = "created"
    /\ writerState' = "Running" /\ wpc' = "dequeue"
    /\ UNCHANGED <<stateVars, userVars, loopVars, readerVars, eptr, wbuf,
                   lfVars, snFilled, outVars, fileVars, devVars>>

\* Mutant: the sentinel is not put back on the empty queue.
MutWriterDequeue ==
    /\ wpc = "dequeue" /\ lfFilled # <<>>
    /\ lfFilled' = Tail(lfFilled)
    /\ IF Head(lfFilled) = <<>>
       THEN wpc' = "finish" /\ UNCHANGED <<wbuf, lfEmpty>>
       ELSE wbuf' = Head(lfFilled) /\ wpc' = "write" /\ UNCHANGED lfEmpty
    /\ UNCHANGED <<stateVars, userVars, loopVars, readerVars, writerState,
                   eptr, snFilled, outVars, fileVars, devVars>>

WriterDequeue ==
    /\ wpc = "dequeue" /\ lfFilled # <<>>
    /\ lfFilled' = Tail(lfFilled)
    /\ IF Head(lfFilled) = <<>>
       THEN lfEmpty' = lfEmpty + 1 /\ wpc' = "finish" /\ UNCHANGED wbuf
       ELSE wbuf' = Head(lfFilled) /\ wpc' = "write" /\ UNCHANGED lfEmpty
    /\ UNCHANGED <<stateVars, userVars, loopVars, readerVars, writerState,
                   eptr, snFilled, outVars, fileVars, devVars>>

\* The buffer is returned in any case.
WriterWrite ==
    /\ wpc = "write"
    /\ \/ /\ listfile' = IF lfh THEN listfile \o wbuf ELSE listfile
          /\ wpc' = "dequeue"
       \/ /\ lfh /\ WriteMayFail
          /\ wpc' = "throw" /\ UNCHANGED listfile
    /\ lfEmpty' = lfEmpty + 1 /\ wbuf' = <<>>
    /\ UNCHANGED <<stateVars, userVars, loopVars, readerVars, writerState,
                   eptr, lfFilled, snFilled, outVars, lfh, devVars>>

WriterThrow ==
    /\ wpc = "throw"
    /\ eptr' = TRUE /\ wpc' = "finish"
    /\ UNCHANGED <<stateVars, userVars, loopVars, readerVars, writerState, wbuf,
                   lfVars, snFilled, outVars, fileVars, devVars>>

WriterFinish ==
    /\ wpc = "finish"
    /\ writerState' = "Idle" /\ wpc' = "done"
    /\ UNCHANGED <<stateVars, userVars, loopVars, readerVars, eptr, wbuf,
                   lfVars, snFilled, outVars, fileVars, devVars>>

WriterNext == WriterStart \/ WriterDequeue \/ WriterWrite \/ WriterThrow
              \/ WriterFinish

-----------------------------------------------------------------------------
(* External: the consumer of the snoop queue, the MVLC, the connection.    *)

SnoopTake ==
    /\ snFilled > 0
    /\ snFilled' = snFilled - 1 /\ snEmpty' = snEmpty + 1
    /\ UNCHANGED <<stateVars, userVars, loopVars, readerVars, writerVars,
                   lfVars, outputBuffer, out, sections, fileVars, devVars>>

Trigger ==
    /\ daqMode /\ link = "up" /\ delivered < MaxData
    /\ pipe' = pipe + 1 /\ delivered' = delivered + 1
    /\ UNCHANGED <<stateVars, userVars, loopVars, readerVars, writerVars,
                   lfVars, snFilled, outVars, fileVars, link, daqMode, lastMcst>>

\* What was under way is lost with the connection.
LinkLost ==
    /\ LinkMayFail /\ link = "up"
    /\ link' = "lost" /\ pipe' = 0
    /\ UNCHANGED <<stateVars, userVars, loopVars, readerVars, writerVars,
                   lfVars, snFilled, outVars, fileVars, daqMode, delivered,
                   lastMcst>>

Environment == SnoopTake \/ Trigger \/ LinkLost

Next ==
    /\ UserNext \/ LoopNext \/ ReaderNext \/ WriterNext \/ Environment
    /\ UNCHANGED options

Spec == Init /\ [][Next]_vars

\* The threads run; a user that is inside a call goes on with it.
Fairness ==
    /\ WF_vars(LoopNext /\ UNCHANGED options)
    /\ WF_vars(ReaderNext /\ UNCHANGED options)
    /\ WF_vars(WriterNext /\ UNCHANGED options)
    /\ WF_vars(upc # "idle" /\ UserNext /\ UNCHANGED options)

FairSpec == Spec /\ Fairness

-----------------------------------------------------------------------------
(* Properties.                                                             *)

ReaderPcs == {"StartTriggers", "StartMcst", "StartDaq", "StartQuit", "StartJoin",
              "TermMcst", "TermDaq", "TermQuit", "TermJoin"}
TermPcs   == {"TermSpawn", "TermMcst", "TermDaq", "TermQuit", "TermJoin"}
LoopPcs   == ReaderPcs \cup TermPcs \cup
             {"none", "exited", "Redirect", "Abort", "AbortDesired", "Spawn",
              "SetRunning", "DesireRunning", "StartSpawn", "Started", "Plugins",
              "Check", "CheckPause", "CheckStop", "Invalid", "Readout",
              "ReadoutFlush", "LoopEnd", "Terminated", "PauseSection",
              "PauseFlush", "SetPaused", "DesirePaused", "ResumeSection",
              "ResumeFlush", "SetResumed", "DesireResumed", "SetStopping",
              "DesireStopping", "StopPlugins", "IfFlush", "StopFlush", "PutBack",
              "IfSentinel", "Sentinel", "Join", "Joined", "SetIdle", "DesireIdle"}
UserPcs   == {"idle", "start", "startDesired", "startJoin", "future", "stop",
              "pause", "resume", "waitIdle", "destroyed"}
Errors    == {"ok", "Timeout", "ConnectionError"}

ControlTypes ==
    /\ options \in Options
    /\ state \in States /\ desiredState \in States
    /\ upc \in UserPcs /\ calls \in Nat
    /\ future \in {"none", "unset"} \cup Errors
    /\ lpc \in LoopPcs /\ activity \in {"start", "pause", "resume", "stop"}
    /\ ec \in Errors
    /\ rpc \in {"none", "loop", "read", "flush", "done"}
    /\ readerAction \in {"Run", "Quit", "QuitWhenEmpty"}
    /\ action \in {"Run", "Quit", "QuitWhenEmpty"}
    /\ gotData \in BOOLEAN
    /\ wpc \in {"none", "created", "dequeue", "write", "throw", "finish", "done"}
    /\ writerState \in {"Idle", "Running"} /\ eptr \in BOOLEAN

BufferTypes ==
    /\ lfEmpty \in Nat /\ lfFilled \in Seq(Seq(Section))
    /\ snEmpty \in Nat /\ snFilled \in Nat
    /\ outputBuffer \in {"none", "local", "snoop"}
    /\ out \in Seq(Section) /\ sections \in Nat

FileTypes == wbuf \in Seq(Section) /\ lfh \in BOOLEAN /\ listfile \in Seq(Section)

DeviceTypes ==
    /\ link \in {"up", "lost", "closed"} /\ daqMode \in BOOLEAN
    /\ pipe \in Nat /\ delivered \in Nat
    /\ lastMcst \in {"none", "start", "stop"}

\* Every variable has its type; in particular no queue is ever taken from
\* when it is empty (flushCurrentOutputBuffer() waits for the writer).
TypeOK == ControlTypes /\ BufferTypes /\ FileTypes /\ DeviceTypes

\* No buffer of the listfile queues and none of the snoop queues is lost or
\* queued twice, whichever of the threads took it and however the run ends.
BuffersConserved ==
    /\ lfEmpty + Len(lfFilled) + (IF wpc = "write" THEN 1 ELSE 0)
         = ListfileWriterBufferCount
    /\ snEmpty + snFilled + (IF outputBuffer = "snoop" THEN 1 ELSE 0) = SnoopCount

\* outputBuffer_ has no lock: the asynchronous reader of startReadout() and
\* terminateReadout() uses it only while the worker thread does not.
OneReader == rpc \in {"loop", "read", "flush"} => lpc \in ReaderPcs

\* The sections the worker has written to the listfile are those numbered 1 to
\* n, in that order and each of them once; the facade's are not numbered.
Recorded(n) ==
    /\ \A i \in DOMAIN listfile : listfile[i].n <= n
    /\ \A k \in 1..n : \E i \in DOMAIN listfile : listfile[i].n = k
    /\ \A i, j \in DOMAIN listfile :
         i < j /\ listfile[i].n > 0 /\ listfile[j].n > 0
         => listfile[i].n < listfile[j].n

\* What the worker recorded is a prefix of what it produced, in that order,
\* with nothing missing or doubled, even if the writer failed.
ListfileIsPrefix == \E n \in 0..sections : Recorded(n)

\* When a recorded run ends without a writer error, everything from BeginRun
\* to EndRun has been written, whichever way the run was ended.  (A run that
\* ends before its writer thread has started is not written.)
RunRecorded ==
    WriterStartsFirst /\ lpc = "Joined" /\ lfh /\ ~eptr => Recorded(sections)

\* After terminateReadout() has succeeded the MVLC is out of DAQ mode and
\* everything it had sent was read: for as long as the readout is paused, and
\* until the end of a stopped run.
Drained ==
    /\ activity \in {"pause", "stop"} /\ ec = "ok"
    /\ lpc \notin TermPcs \cup {"SetStopping", "DesireStopping", "exited",
                                "Redirect", "Abort", "AbortDesired", "Spawn"}
    => ~daqMode /\ pipe = 0

\* loop(): "Check that all buffers from the listfile writer queue have been
\* returned."  After a write error some are left in the queue.
AllBuffersReturned ==
    ~WriteMayFail /\ lpc = "Joined" => lfEmpty = ListfileWriterBufferCount

\* A listfile is a gapless prefix of what the run produced, whatever fails;
\* unless the writer thread failed or came too late a finished run is recorded
\* from BeginRun to EndRun; the writer has then returned all its buffers; and a
\* run that pauses or stops has drained the MVLC's pipe (loop,
\* listfile_buffer_writer, terminateReadout).
RunsRecorded ==
    /\ TypeOK
    /\ ListfileIsPrefix
    /\ RunRecorded
    /\ AllBuffersReturned
    /\ Drained

\* loop(): assert(!"invalid code path") is not reached.
NoInvalidPath == lpc # "Invalid"

\* mvlc_readout_worker.h: the multicast stop commands are run before leaving
\* DAQ mode.
McstStopRun ==
    HasMcst /\ lpc = "TermQuit" /\ ec = "ok" => lastMcst = "stop"

\* mvlc_readout_worker.h: the multicast start commands are run after switching
\* to DAQ mode.
McstStartInDaqMode == HasMcst /\ lpc = "StartMcst" => daqMode

\* data_format.md: EndOfFile is written when a listfile is closed.
EndOfFileWritten ==
    upc = "destroyed" /\ HasListfile /\ listfile # <<>> =>
        listfile[Len(listfile)].kind = "EndOfFile"

\* MVLCReadout::stop() returns: the worker takes up the request, terminates
\* the readout, stops the writer and becomes Idle.
StopReturns == upc = "waitIdle" ~> upc # "waitIdle"

\* The future returned by start() becomes ready, so that MVLCReadout::start()
\* returns.
StartReturns == upc = "future" ~> upc # "future"

\* MVLCReadout's two blocking calls, start() and stop(), return, if the run is not
\* paused in between (setState(Paused) may overwrite an accepted stop).
CallsReturn == StopReturns /\ StartReturns

\* loop() ends the run when the writer thread has caught an exception.
WriterErrorEndsRun == eptr ~> state = "Idle"

\* loop(): "stop the listfile writer", also when the run ends early.
WriterStopped == lpc = "IfSentinel" ~> wpc = "done"

-----------------------------------------------------------------------------
(* The uses of the readout in the small instances                          *)

\* The worker used directly, with commands that time out and runs that a
\* plugin ends.
Direct == [facade |-> FALSE, listfile |-> TRUE, mcst |-> FALSE,
           writeMayFail |-> FALSE, commandMayFail |-> TRUE,
           linkMayFail |-> FALSE, durationSet |-> TRUE,
           writerStartsFirst |-> TRUE, maxData |-> 2, maxTicks |-> 2]

\* MVLCReadout with multicast commands, a connection and a listfile that fail,
\* and a writer thread that may start late.
Failing == [facade |-> TRUE, listfile |-> TRUE, mcst |-> TRUE,
            writeMayFail |-> TRUE, commandMayFail |-> FALSE,
            linkMayFail |-> TRUE, durationSet |-> FALSE,
            writerStartsFirst |-> FALSE, maxData |-> 1, maxTicks |-> 1]

\* MVLCReadout with a listfile that does not fail, for the liveness of its calls.
Serving == [facade |-> TRUE, listfile |-> TRUE, mcst |-> FALSE,
            writeMayFail |-> FALSE, commandMayFail |-> TRUE,
            linkMayFail |-> TRUE, durationSet |-> TRUE,
            writerStartsFirst |-> TRUE, maxData |-> 1, maxTicks |-> 0]

SafetyOptions == {Direct, Failing}
LiveOptions   == {Serving}
=============================================================================
