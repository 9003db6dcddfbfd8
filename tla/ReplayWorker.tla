---------------------------- MODULE ReplayWorker ----------------------------
(***************************************************************************)
(* ReplayWorker (mvlc_replay_worker.cc) and MVLCReplay (mvlc_replay.cc):   *)
(* a thread reads a listfile into the snoop buffers, cutting each buffer   *)
(* after a complete frame; the parser thread empties them; the application *)
(* starts, pauses, resumes and stops.                                      *)
(*                                                                         *)
(* The listfile is a sequence of words.  A word is the number of its frame *)
(* and its place in it; place 1 is the header that holds the length.  The  *)
(* file may end inside a frame.  Lengths that are not a multiple of a word *)
(* are left out: fixup_buffer() does not return for them.  start() is      *)
(* called once: assigning to a joinable std::thread ends the program.      *)
(***************************************************************************)
EXTENDS Integers, Sequences, FiniteSets, SequencesExt

CONSTANTS
    FrameSizes,         \* words per frame, headers included
    SystemFrames,       \* the frames that are system events
    Truncations,        \* numbers of words a file may lack at its end
    Capacity,           \* words per buffer
    Buffers,            \* number of snoop buffers
    MaxCalls            \* bound: pause() and resume() calls

States == {"Idle", "Starting", "Running", "Paused", "Stopping"}

VARIABLES
    file, format,       \* words after the magic bytes; "ETH", "USB" or "other"
    state, desiredState,
    wpc,                \* the worker's place in loop()
    state_,             \*   its copy of the state
    target, then,       \*   setState() under way and where it goes on
    pos,                \*   words read from the file
    previousData,
    hasBuffer,          \*   outputBuffer_
    emptyBuffers, filled,           \* the queues
    parsing, parsed,    \* the parser's buffer; history: buffers it has parsed
    upc,                \* the application: "idle", "starting", "stopping", "waiting"
    started, calls,
    eof,                \* history: the loop ended at the end of the file
    overwritten         \* history: setState() undid a request it had not seen

fileVars == <<file, format>>
queueVars == <<emptyBuffers, filled, parsing, parsed>>
dataVars == <<pos, previousData, hasBuffer, eof>>
userVars == <<upc, started, calls>>
vars == <<fileVars, state, desiredState, wpc, state_, target, then, dataVars,
          queueVars, userVars, overwritten>>

\* The words of the frames, one after the other.
Words == FlattenSeq([f \in DOMAIN FrameSizes |->
            [i \in 1..FrameSizes[f] |-> <<f, i>>]])

Init ==
    /\ \E n \in Truncations : file = SubSeq(Words, 1, Len(Words) - n)
    /\ format \in {"ETH", "USB", "other"}
    /\ state = "Idle" /\ desiredState = "Idle"
    /\ wpc = "none" /\ state_ = "Idle" /\ target = "Idle" /\ then = "none"
    /\ pos = 0 /\ previousData = <<>> /\ hasBuffer = FALSE /\ eof = FALSE
    /\ emptyBuffers = Buffers /\ filled = <<>> /\ parsing = <<>> /\ parsed = <<>>
    /\ upc = "idle" /\ started = FALSE /\ calls = 0
    /\ overwritten = FALSE

-----------------------------------------------------------------------------
(* fixup_buffer().                                                         *)

\* Words needed to know a frame's size: an ETH packet has two header words.
HeaderWords(f) == IF format = "ETH" /\ f \notin SystemFrames THEN 2 ELSE 1

\* Words to skip from place i of data on; 0: not known.
SkipCount(data, i) ==
    IF Len(data) - i + 1 < HeaderWords(data[i][1]) THEN 0 ELSE FrameSizes[data[i][1]]

\* Mutant: a frame that ends with the buffer counts as incomplete.
MutFixup(data) ==
    LET moved[i \in 1..(Len(data) + 1)] ==
            IF i > Len(data) THEN 0
            ELSE LET skip == SkipCount(data, i)
                 IN  IF skip = 0 \/ i + skip > Len(data) THEN Len(data) - i + 1
                     ELSE moved[i + skip]
    IN  moved[1]

\* Number of words of data that belong to an incomplete frame at its end.
fixup_buffer(data) ==
    LET moved[i \in 1..(Len(data) + 1)] ==
            IF i > Len(data) THEN 0
            ELSE LET skip == SkipCount(data, i)
                 IN  IF skip = 0 \/ i + skip - 1 > Len(data) THEN Len(data) - i + 1
                     ELSE moved[i + skip]
    IN  moved[1]

-----------------------------------------------------------------------------
(* The worker thread.                                                      *)

Goto(l) == wpc' = l /\ UNCHANGED <<target, then>>

\* setState(s), two writes apart, with the rest of the loop at l.
SetState(s, l) == target' = s /\ then' = l /\ wpc' = "set_state"

\* read_preamble(): an unknown format ends the thread; the state stays Starting.
ReadPreamble ==
    /\ wpc = "preamble"
    /\ IF format = "other" THEN Goto("failed") /\ upc' = "idle"
       ELSE SetState("Running", "running") /\ UNCHANGED upc
    /\ UNCHANGED <<fileVars, state, desiredState, state_, dataVars, queueVars,
                   started, calls, overwritten>>

WriteState ==
    /\ wpc = "set_state"
    /\ state' = target /\ wpc' = "set_desired"
    /\ UNCHANGED <<fileVars, desiredState, state_, target, then, dataVars, queueVars,
                   userVars, overwritten>>

WriteDesired ==
    /\ wpc = "set_desired"
    /\ desiredState' = target
    /\ overwritten' = (overwritten \/ (desiredState = "Stopping" /\ target # "Stopping"))
    /\ wpc' = then
    /\ UNCHANGED <<fileVars, state, state_, target, then, dataVars, queueVars, userVars>>

\* promise.set_value({})
Running ==
    /\ wpc = "running"
    /\ upc' = "idle" /\ Goto("loop")
    /\ UNCHANGED <<fileVars, state, desiredState, state_, dataVars, queueVars,
                   started, calls, overwritten>>

Loop ==
    /\ wpc = "loop"
    /\ state_' = state /\ Goto("stay?")
    /\ UNCHANGED <<fileVars, state, desiredState, dataVars, queueVars, userVars, overwritten>>

\* Each condition of the if chain reads desiredState again.
Branch ==
    /\ \/ /\ wpc = "stay?"
          /\ Goto(IF state_ = "Running" /\ desiredState = "Running" THEN "read" ELSE "pause?")
       \/ /\ wpc = "pause?"
          /\ IF state_ = "Running" /\ desiredState = "Paused" THEN SetState("Paused", "loop")
             ELSE Goto("resume?")
       \/ /\ wpc = "resume?"
          /\ IF state_ = "Paused" /\ desiredState = "Running" THEN SetState("Running", "loop")
             ELSE Goto("stop?")
       \/ /\ wpc = "stop?"
          /\ IF desiredState = "Stopping" THEN SetState("Stopping", "put_back")
             ELSE Goto("loop")
    /\ UNCHANGED <<fileVars, state, desiredState, state_, dataVars, queueVars,
                   userVars, overwritten>>

\* getOutputBuffer() times out.
NoBuffer ==
    /\ wpc = "read" /\ ~hasBuffer /\ emptyBuffers = 0
    /\ Goto("loop")
    /\ UNCHANGED <<fileVars, state, desiredState, state_, dataVars, queueVars,
                   userVars, overwritten>>

GotBuffer == wpc = "read" /\ (hasBuffer \/ emptyBuffers > 0)
TakeBuffer == hasBuffer' = TRUE
              /\ emptyBuffers' = IF hasBuffer THEN emptyBuffers ELSE emptyBuffers - 1

\* Words lfh->read() gives: what is left of the buffer after previousData.
BytesRead == Min({Capacity - Len(previousData), Len(file) - pos})

\* Mutant: what was cut off is forgotten.
MutRead ==
    /\ GotBuffer /\ BytesRead > 0
    /\ LET data == previousData \o SubSeq(file, pos + 1, pos + BytesRead)
           kept == Len(data) - fixup_buffer(data)
       IN  /\ previousData' = <<>>
           /\ IF kept > 0
              THEN /\ filled' = Append(filled, SubSeq(data, 1, kept))
                   /\ hasBuffer' = FALSE
                   /\ emptyBuffers' = IF hasBuffer THEN emptyBuffers ELSE emptyBuffers - 1
              ELSE TakeBuffer /\ UNCHANGED filled
    /\ pos' = pos + BytesRead /\ Goto("loop")
    /\ UNCHANGED <<fileVars, state, desiredState, state_, eof, parsing, parsed,
                   userVars, overwritten>>

\* previousData and the next words go into the buffer; what fixup_buffer() cuts off
\* is kept; flushCurrentOutputBuffer() passes on a buffer that is not empty.
Read ==
    /\ GotBuffer /\ BytesRead > 0
    /\ LET data == previousData \o SubSeq(file, pos + 1, pos + BytesRead)
           kept == Len(data) - fixup_buffer(data)
       IN  /\ previousData' = SubSeq(data, kept + 1, Len(data))
           /\ IF kept > 0
              THEN /\ filled' = Append(filled, SubSeq(data, 1, kept))
                   /\ hasBuffer' = FALSE
                   /\ emptyBuffers' = IF hasBuffer THEN emptyBuffers ELSE emptyBuffers - 1
              ELSE TakeBuffer /\ UNCHANGED filled
    /\ pos' = pos + BytesRead /\ Goto("loop")
    /\ UNCHANGED <<fileVars, state, desiredState, state_, eof, parsing, parsed,
                   userVars, overwritten>>

\* read() gives nothing; previousData is in the buffer, which is put back.
EndOfFile ==
    /\ GotBuffer /\ BytesRead = 0
    /\ previousData' = <<>> /\ TakeBuffer /\ eof' = TRUE
    /\ SetState("Stopping", "put_back")
    /\ UNCHANGED <<fileVars, state, desiredState, state_, pos, filled, parsing, parsed,
                   userVars, overwritten>>

\* Mutant: the buffer is not given back.
MutPutBack ==
    /\ wpc = "put_back"
    /\ hasBuffer' = FALSE /\ SetState("Idle", "ended")
    /\ UNCHANGED <<fileVars, state, desiredState, state_, pos, previousData, eof,
                   queueVars, userVars, overwritten>>

maybePutBackSnoopBuffer ==
    /\ wpc = "put_back"
    /\ emptyBuffers' = IF hasBuffer THEN emptyBuffers + 1 ELSE emptyBuffers
    /\ hasBuffer' = FALSE /\ SetState("Idle", "ended")
    /\ UNCHANGED <<fileVars, state, desiredState, state_, pos, previousData, eof,
                   filled, parsing, parsed, userVars, overwritten>>

Worker == \/ ReadPreamble \/ WriteState \/ WriteDesired \/ Running \/ Loop \/ Branch
          \/ NoBuffer \/ Read \/ EndOfFile \/ maybePutBackSnoopBuffer

-----------------------------------------------------------------------------
(* run_readout_parser().                                                   *)

ParserDequeue ==
    /\ parsing = <<>> /\ filled # <<>>
    /\ parsing' = Head(filled) /\ filled' = Tail(filled)
    /\ UNCHANGED <<fileVars, state, desiredState, wpc, state_, target, then, dataVars,
                   emptyBuffers, parsed, userVars, overwritten>>

ParserDone ==
    /\ parsing # <<>>
    /\ parsed' = Append(parsed, parsing) /\ parsing' = <<>>
    /\ emptyBuffers' = emptyBuffers + 1
    /\ UNCHANGED <<fileVars, state, desiredState, wpc, state_, target, then, dataVars,
                   filled, userVars, overwritten>>

Parser == ParserDequeue \/ ParserDone

-----------------------------------------------------------------------------
(* The application.                                                        *)

\* start(): setState(Starting), the thread, and waiting for the promise.
start ==
    /\ upc = "idle" /\ ~started
    /\ state' = "Starting" /\ desiredState' = "Starting"
    /\ wpc' = "preamble" /\ upc' = "starting" /\ started' = TRUE
    /\ UNCHANGED <<fileVars, state_, target, then, dataVars, queueVars, calls, overwritten>>

\* pause() and resume() check the state; stop() checks it, requests and waits.
pause ==
    /\ upc = "idle" /\ calls < MaxCalls /\ state = "Running"
    /\ desiredState' = "Paused" /\ calls' = calls + 1
    /\ UNCHANGED <<fileVars, state, wpc, state_, target, then, dataVars, queueVars,
                   upc, started, overwritten>>

resume ==
    /\ upc = "idle" /\ calls < MaxCalls /\ state = "Paused"
    /\ desiredState' = "Running" /\ calls' = calls + 1
    /\ UNCHANGED <<fileVars, state, wpc, state_, target, then, dataVars, queueVars,
                   upc, started, overwritten>>

stop ==
    /\ upc = "idle" /\ state \notin {"Idle", "Stopping"}
    /\ upc' = "stopping"
    /\ UNCHANGED <<fileVars, state, desiredState, wpc, state_, target, then, dataVars,
                   queueVars, started, calls, overwritten>>

\* Mutant: the request is not made.
MutStopRequest ==
    /\ upc = "stopping"
    /\ upc' = "waiting"
    /\ UNCHANGED <<fileVars, state, desiredState, wpc, state_, target, then, dataVars,
                   queueVars, started, calls, overwritten>>

StopRequest ==
    /\ upc = "stopping"
    /\ desiredState' = "Stopping" /\ upc' = "waiting"
    /\ UNCHANGED <<fileVars, state, wpc, state_, target, then, dataVars, queueVars,
                   started, calls, overwritten>>

StopReturns ==
    /\ upc = "waiting" /\ state = "Idle"
    /\ upc' = "idle"
    /\ UNCHANGED <<fileVars, state, desiredState, wpc, state_, target, then, dataVars,
                   queueVars, started, calls, overwritten>>

Next == Worker \/ Parser \/ start \/ pause \/ resume \/ stop \/ StopRequest \/ StopReturns

\* The threads run on; the application finishes the call it is in.
Fairness == /\ WF_vars(Worker) /\ WF_vars(Parser)
            /\ WF_vars(StopRequest) /\ WF_vars(StopReturns)

Spec == Init /\ [][Next]_vars /\ Fairness

-----------------------------------------------------------------------------
(* Properties.                                                             *)

Passed == FlattenSeq(parsed) \o parsing \o FlattenSeq(filled)

\* The parser is given the words of the file, in order, none twice and none left
\* out; every buffer starts with a header and ends with a complete frame, however
\* the reads cut the file. (ReplayWorker::Private::loop(), fixup_buffer())
WholeFramesInOrder ==
    /\ IsPrefix(Passed, file)
    /\ \A b \in ToSet(parsed) \cup ToSet(filled) \cup ({parsing} \ {<<>>}) :
            b[1][2] = 1 /\ Last(b)[2] = FrameSizes[Last(b)[1]]

\* A replay that ran to the end of the file has passed on all its complete frames.
\* (ReplayWorker::Private::loop())
ReplayComplete ==
    eof => \A i \in DOMAIN file :
                (i + FrameSizes[file[i][1]] - file[i][2] <= Len(file)) => i <= Len(Passed)

\* No buffer is lost or duplicated between the worker, the queues and the parser.
\* (getOutputBuffer(), flushCurrentOutputBuffer(), maybePutBackSnoopBuffer())
SnoopBuffersConserved ==
    emptyBuffers + Len(filled) + (IF hasBuffer THEN 1 ELSE 0)
        + (IF parsing # <<>> THEN 1 ELSE 0) = Buffers

\* Once the application has asked to stop, the worker becomes idle and stop()
\* returns, unless setState() has just undone the request or the thread is gone
\* for an unknown file format. (MVLCReplay::stop())
StopEnds == (upc = "waiting") ~> (upc = "idle" \/ overwritten \/ wpc = "failed")
=============================================================================
