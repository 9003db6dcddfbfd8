---------------------------- MODULE BlockingApi ----------------------------
(***************************************************************************)
(* The blocking data API (mvlc_blocking_data_api.cc): next_event() hands   *)
(* the readout parser's callbacks to a caller one event at a time.         *)
(*                                                                         *)
(* Four threads: the worker fills snoop buffers; the parser thread         *)
(* (run_readout_parser) parses them and publishes each event through       *)
(* BlockingContext; the monitor publishes the final None event; the user   *)
(* calls next_event().  BlockingContext has ONE condition variable and     *)
(* signals it with notify_one(), so the set of sleeping threads is part of *)
(* the state.  Critical sections are atomic; the notify_one() that follows *)
(* the unlock is a step of its own.                                        *)
(*                                                                         *)
(* Data is abstracted to stamps: an event is a view of a memory area (the  *)
(* parser's single work buffer or a snoop buffer), and memory[a] changes   *)
(* whenever the area is overwritten.                                       *)
(***************************************************************************)
EXTENDS Naturals, Sequences, FiniteSets

CONSTANTS
    Buffers,      \* the snoop buffers
    MaxPerBuffer, \* bound: events of one buffer
    MaxEvents,    \* bound: events produced over all runs
    MaxFills,     \* bound: how often one buffer is filled
    MaxRuns       \* bound: calls of start()

ASSUME BuffersAssumption == IsFiniteSet(Buffers) /\ "work" \notin Buffers
ASSUME MaxAssumption == {MaxPerBuffer, MaxEvents, MaxFills, MaxRuns} \subseteq Nat

\* The kinds of the events in a filled buffer, in order
Contents == UNION {[1 .. n -> {"Readout", "System"}] : n \in 0 .. MaxPerBuffer}

VARIABLES
    workerState,  \* the data producer: Idle or Running
    filled,       \* snoopQueues.filledBufferQueue()
    empty,        \* snoopQueues.emptyBufferQueue()
    content,      \* buffer -> [first, kinds]: its k-th event has id first + k
    produced,     \* number of events the worker has put into buffers
    parserPc, parserQuit,
    cur,          \* sequence holding the buffer being parsed, or empty
    pos,          \* index into content of the event being parsed
    memory,       \* area -> stamp of the data it holds
    ready, processed, event,     \* BlockingContext
    waiting,      \* threads asleep in cv_.wait()
    monitorPc, userPc,
    held,         \* the EventContainer next_event() returned last
    delivered,    \* history: ids next_event() returned, 0 for None
    runs          \* calls of start()

workerVars == <<workerState, content, produced>>
parserVars == <<parserPc, cur, pos, memory>>
ctxVars    == <<ready, processed, event>>
userVars   == <<userPc, held, delivered, runs>>
vars == <<workerVars, filled, empty, parserVars, parserQuit, ctxVars,
          waiting, monitorPc, userVars>>

Areas     == {"work"} \cup Buffers
NoneEvent == [type |-> "None", id |-> 0, area |-> "work", stamp |-> 0]
CurBuffer == cur[1]
CurEvent  == [type |-> content[CurBuffer].kinds[pos],
              id   |-> content[CurBuffer].first + pos]

Init ==
    /\ workerState = "Idle"
    /\ filled = <<>>
    /\ empty \in {s \in [1..Cardinality(Buffers) -> Buffers] :
                     \A i, j \in DOMAIN s : s[i] = s[j] => i = j}
    /\ content = [b \in Buffers |-> [first |-> 0, kinds |-> <<>>]]
    /\ produced = 0
    /\ parserPc = "loop" /\ parserQuit = FALSE
    /\ cur = <<>> /\ pos = 0
    /\ memory = [a \in Areas |-> 0]
    /\ ready = FALSE /\ processed = TRUE /\ event = NoneEvent
    /\ waiting = {}
    /\ monitorPc = "none"
    /\ userPc = "start"
    /\ held = NoneEvent
    /\ delivered = <<>>
    /\ runs = 0

----------------------------------------------------------------------------
(* The condition variable cv_.                                             *)

\* One wait(lock, predicate) evaluation: proceed if the predicate holds, else
\* go to sleep.  A thread in waiting re-evaluates only after a notify_one().
Wait(t) == waiting' = waiting \cup {t}

Awake(t) == t \notin waiting

NotifyOne ==
    IF waiting = {} THEN UNCHANGED waiting
                    ELSE \E t \in waiting : waiting' = waiting \ {t}

\* The critical section of the producer side of BlockingContext.
Publish(ev) ==
    /\ event' = ev
    /\ ready' = TRUE
    /\ processed' = FALSE

----------------------------------------------------------------------------
(* The worker: a ReadoutWorker or a ReplayWorker.                          *)

\* A run fills a buffer and passes it on (flushCurrentOutputBuffer).
WorkerFill ==
    /\ workerState = "Running"
    /\ empty # <<>>
    /\ \E kinds \in Contents :
         /\ produced + Len(kinds) <= MaxEvents
         /\ LET b == Head(empty) IN
              /\ memory[b] < MaxFills
              /\ content' = [content EXCEPT ![b] =
                                [first |-> produced, kinds |-> kinds]]
              /\ memory' = [memory EXCEPT ![b] = @ + 1]
              /\ filled' = Append(filled, b)
         /\ produced' = produced + Len(kinds)
    /\ empty' = Tail(empty)
    /\ UNCHANGED <<workerState, parserPc, cur, pos, parserQuit, ctxVars,
                   waiting, monitorPc, userVars>>

\* The run ends: time to run elapsed, stop() or end of the listfile.
WorkerDone ==
    /\ workerState = "Running"
    /\ workerState' = "Idle"
    /\ UNCHANGED <<content, produced, filled, empty, parserVars, parserQuit,
                   ctxVars, waiting, monitorPc, userVars>>

----------------------------------------------------------------------------
(* The parser thread.                                                      *)

ParserCheckQuit ==
    /\ parserPc = "loop"
    /\ parserPc' = IF parserQuit THEN "done" ELSE "dequeue"
    /\ UNCHANGED <<workerVars, filled, empty, cur, pos, memory, parserQuit,
                   ctxVars, waiting, monitorPc, userVars>>

\* Mutant: an empty buffer is skipped without handing it back.
MutDequeueDropsEmpty ==
    /\ parserPc = "dequeue"
    /\ \/ /\ filled = <<>>
          /\ parserPc' = "loop"
          /\ UNCHANGED <<filled, cur, pos>>
       \/ /\ filled # <<>>
          /\ filled' = Tail(filled)
          /\ IF content[Head(filled)].kinds = <<>>
             THEN parserPc' = "loop" /\ UNCHANGED <<cur, pos>>
             ELSE parserPc' = "parse" /\ cur' = <<Head(filled)>> /\ pos' = 1
    /\ UNCHANGED <<workerVars, empty, memory, parserQuit, ctxVars, waiting,
                   monitorPc, userVars>>

\* filled.dequeue(100ms, nullptr): a null buffer, or an empty one, is skipped.
ParserDequeue ==
    /\ parserPc = "dequeue"
    /\ \/ /\ filled = <<>>
          /\ parserPc' = "loop"
          /\ UNCHANGED <<filled, empty, cur, pos>>
       \/ /\ filled # <<>> /\ content[Head(filled)].kinds = <<>>
          /\ filled' = Tail(filled)
          /\ empty' = Append(empty, Head(filled))
          /\ parserPc' = "loop"
          /\ UNCHANGED <<cur, pos>>
       \/ /\ filled # <<>> /\ content[Head(filled)].kinds # <<>>
          /\ filled' = Tail(filled)
          /\ cur' = <<Head(filled)>>
          /\ pos' = 1
          /\ parserPc' = "parse"
          /\ UNCHANGED empty
    /\ UNCHANGED <<workerVars, memory, parserQuit, ctxVars, waiting,
                   monitorPc, userVars>>

\* parser_begin_event() resets the one work buffer and the event's words are
\* copied into it; a system event stays in the snoop buffer.
ParserParseEvent ==
    /\ parserPc = "parse"
    /\ pos <= Len(content[CurBuffer].kinds)
    /\ memory' = IF CurEvent.type = "Readout"
                 THEN [memory EXCEPT !["work"] = @ + 1] ELSE memory
    /\ parserPc' = "callback"
    /\ UNCHANGED <<workerVars, filled, empty, cur, pos, parserQuit, ctxVars,
                   waiting, monitorPc, userVars>>

\* The buffer is parsed: hand it back for reuse.
ParserReturnBuffer ==
    /\ parserPc = "parse"
    /\ pos > Len(content[CurBuffer].kinds)
    /\ empty' = Append(empty, CurBuffer)
    /\ cur' = <<>>
    /\ parserPc' = "loop"
    /\ UNCHANGED <<workerVars, filled, pos, memory, parserQuit, ctxVars,
                   waiting, monitorPc, userVars>>

\* Mutant: the callback leaves the data view of the event unset.
MutEventViewUnset == [type |-> CurEvent.type, id |-> CurEvent.id]

\* The view of the parsed data that the callbacks store in the context.
EventView ==
    LET a == IF CurEvent.type = "Readout" THEN "work" ELSE CurBuffer
    IN  [type |-> CurEvent.type, id |-> CurEvent.id, area |-> a,
         stamp |-> memory[a]]

\* Mutant: the callback does not wait for the last event to be processed.
MutCallbackDoesNotWait ==
    /\ parserPc = "callback"
    /\ Publish(EventView)
    /\ parserPc' = "notify"
    /\ UNCHANGED <<workerVars, filled, empty, cur, pos, memory, parserQuit,
                   waiting, monitorPc, userVars>>

ParserCallback ==
    /\ parserPc = "callback"
    /\ Awake("parser")
    /\ \/ /\ processed
          /\ Publish(EventView)
          /\ parserPc' = "notify"
          /\ UNCHANGED waiting
       \/ /\ ~processed
          /\ Wait("parser")
          /\ UNCHANGED <<ctxVars, parserPc>>
    /\ UNCHANGED <<workerVars, filled, empty, cur, pos, memory, parserQuit,
                   monitorPc, userVars>>

\* Mutant: the callback forgets to notify.
MutParserNoNotify ==
    /\ parserPc = "notify"
    /\ pos' = pos + 1
    /\ parserPc' = "parse"
    /\ UNCHANGED <<workerVars, filled, empty, cur, memory, parserQuit,
                   waiting, ctxVars, monitorPc, userVars>>

ParserNotify ==
    /\ parserPc = "notify"
    /\ NotifyOne
    /\ pos' = pos + 1
    /\ parserPc' = "parse"
    /\ UNCHANGED <<workerVars, filled, empty, cur, memory, parserQuit,
                   ctxVars, monitorPc, userVars>>

----------------------------------------------------------------------------
(* The monitor thread.                                                     *)

MonitorMove(from, to) == monitorPc = from /\ monitorPc' = to

MonitorWaitIdle ==
    /\ MonitorMove("waitIdle", "drain")
    /\ workerState = "Idle"
    /\ UNCHANGED <<workerVars, filled, empty, parserVars, parserQuit, ctxVars,
                   waiting, userVars>>

\* Mutant: the parser is told to quit while buffers are still queued.
MutMonitorNoDrain ==
    /\ MonitorMove("drain", "quit")
    /\ UNCHANGED <<workerVars, filled, empty, parserVars, parserQuit, ctxVars,
                   waiting, userVars>>

MonitorDrain ==
    /\ MonitorMove("drain", "quit")
    /\ filled = <<>>
    /\ UNCHANGED <<workerVars, filled, empty, parserVars, parserQuit, ctxVars,
                   waiting, userVars>>

MonitorQuit ==
    /\ MonitorMove("quit", "join")
    /\ parserQuit' = TRUE
    /\ UNCHANGED <<workerVars, filled, empty, parserVars, ctxVars, waiting,
                   userVars>>

\* Mutant: the parser thread is not joined.
MutMonitorNoJoin ==
    /\ MonitorMove("join", "publish")
    /\ UNCHANGED <<workerVars, filled, empty, parserVars, parserQuit, ctxVars,
                   waiting, userVars>>

MonitorJoin ==
    /\ MonitorMove("join", "publish")
    /\ parserPc = "done"
    /\ UNCHANGED <<workerVars, filled, empty, parserVars, parserQuit, ctxVars,
                   waiting, userVars>>

\* Mutant: the final event replaces one that is not yet processed.
MutMonitorDoesNotWait ==
    /\ MonitorMove("publish", "notify")
    /\ Publish(NoneEvent)
    /\ UNCHANGED <<workerVars, filled, empty, parserVars, parserQuit, waiting,
                   userVars>>

MonitorPublish ==
    /\ monitorPc = "publish"
    /\ Awake("monitor")
    /\ \/ /\ processed
          /\ Publish(NoneEvent)
          /\ monitorPc' = "notify"
          /\ UNCHANGED waiting
       \/ /\ ~processed
          /\ Wait("monitor")
          /\ UNCHANGED <<ctxVars, monitorPc>>
    /\ UNCHANGED <<workerVars, filled, empty, parserVars, parserQuit, userVars>>

\* Mutant: the monitor stays until the final event is acknowledged.
MutMonitorAwaitsAck ==
    /\ MonitorMove("notify", "done")
    /\ processed
    /\ NotifyOne
    /\ UNCHANGED <<workerVars, filled, empty, parserVars, parserQuit, ctxVars,
                   userVars>>

MonitorNotify ==
    /\ MonitorMove("notify", "done")
    /\ NotifyOne
    /\ UNCHANGED <<workerVars, filled, empty, parserVars, parserQuit, ctxVars,
                   userVars>>

----------------------------------------------------------------------------
(* The user: start(), then next_event() until a None event, then either    *)
(* start() again or the destructor.                                        *)

UserMove(from, to) == userPc = from /\ userPc' = to

\* BlockingReadout::start(): the worker first, then the monitor thread.
UserStart ==
    /\ UserMove("start", "startMonitor")
    /\ runs < MaxRuns
    /\ workerState = "Idle"
    /\ workerState' = "Running"
    /\ runs' = runs + 1
    /\ UNCHANGED <<content, produced, filled, empty, parserVars, parserQuit,
                   ctxVars, waiting, monitorPc, held, delivered>>

UserStartMonitor ==
    /\ UserMove("startMonitor", "release")
    /\ monitorPc \in {"none", "done"}
    /\ monitorPc' = "waitIdle"
    /\ UNCHANGED <<workerVars, filled, empty, parserVars, parserQuit, ctxVars,
                   waiting, held, delivered, runs>>

NextEventRelease ==
    /\ UserMove("release", "notify")
    /\ ready' = FALSE
    /\ processed' = TRUE
    /\ UNCHANGED <<workerVars, filled, empty, parserVars, parserQuit, event,
                   waiting, monitorPc, held, delivered, runs>>

NextEventNotify ==
    /\ UserMove("notify", "wait")
    /\ NotifyOne
    /\ UNCHANGED <<workerVars, filled, empty, parserVars, parserQuit, ctxVars,
                   monitorPc, held, delivered, runs>>

\* Mutant: cv_.wait() without a predicate, returning on any wake-up.
MutWaitWithoutPredicate ==
    /\ UserMove("wait", "copy")
    /\ UNCHANGED <<workerVars, filled, empty, parserVars, parserQuit, ctxVars,
                   waiting, monitorPc, held, delivered, runs>>

NextEventWait ==
    /\ userPc = "wait"
    /\ Awake("user")
    /\ \/ ready /\ userPc' = "copy" /\ UNCHANGED waiting
       \/ ~ready /\ Wait("user") /\ UNCHANGED userPc
    /\ UNCHANGED <<workerVars, filled, empty, parserVars, parserQuit, ctxVars,
                   monitorPc, held, delivered, runs>>

\* return ctx.event_ copies the container after the lock is released.
NextEventReturn ==
    /\ UserMove("copy", "use")
    /\ held' = event
    /\ delivered' = Append(delivered, event.id)
    /\ UNCHANGED <<workerVars, filled, empty, parserVars, parserQuit, ctxVars,
                   waiting, monitorPc, runs>>

\* The caller is done with the event, or saw None and leaves its loop.
UserDone ==
    /\ userPc = "use"
    /\ \/ held.type # "None" /\ userPc' = "release"
       \/ held.type = "None" /\ userPc' \in {"start", "destroy"}
    /\ UNCHANGED <<workerVars, filled, empty, parserVars, parserQuit, ctxVars,
                   waiting, monitorPc, held, delivered, runs>>

\* The caller leaves its loop early and destroys the object.
UserAbandon ==
    /\ UserMove("use", "destroy")
    /\ held.type # "None"
    /\ UNCHANGED <<workerVars, filled, empty, parserVars, parserQuit, ctxVars,
                   waiting, monitorPc, held, delivered, runs>>

\* ~BlockingReadout() joins the monitor.
UserDestroy ==
    /\ UserMove("destroy", "destroyed")
    /\ monitorPc = "done"
    /\ UNCHANGED <<workerVars, filled, empty, parserVars, parserQuit, ctxVars,
                   waiting, monitorPc, held, delivered, runs>>

----------------------------------------------------------------------------
Worker  == WorkerFill \/ WorkerDone
Parser  == ParserCheckQuit \/ ParserDequeue \/ ParserParseEvent
           \/ ParserReturnBuffer \/ ParserCallback \/ ParserNotify
Monitor == MonitorWaitIdle \/ MonitorDrain \/ MonitorQuit \/ MonitorJoin
           \/ MonitorPublish \/ MonitorNotify
User    == UserStart \/ UserStartMonitor \/ NextEventRelease
           \/ NextEventNotify \/ NextEventWait \/ NextEventReturn \/ UserDone
           \/ UserDestroy

Next == Worker \/ Parser \/ Monitor \/ User \/ UserAbandon

Spec == Init /\ [][Next]_vars

\* Every thread keeps being scheduled and every run ends; no fairness is
\* assumed of the caller giving up.
FairSpec ==
    /\ Spec
    /\ WF_vars(WorkerDone)
    /\ WF_vars(Parser)
    /\ WF_vars(Monitor)
    /\ WF_vars(User)

----------------------------------------------------------------------------
(* Properties.                                                             *)

PublishedTypes == {"None", "Readout", "System"}
EventContainer == [type : PublishedTypes, id : Nat, area : Areas, stamp : Nat]

DataTypes ==
    /\ filled \in Seq(Buffers) /\ empty \in Seq(Buffers) /\ cur \in Seq(Buffers)
    /\ content \in [Buffers -> [first : Nat, kinds : Seq({"Readout", "System"})]]
    /\ memory \in [Areas -> Nat]
    /\ produced \in Nat /\ pos \in Nat /\ runs \in Nat
    /\ delivered \in Seq(Nat)

EventTypes == event \in EventContainer /\ held \in EventContainer

ControlTypes ==
    /\ workerState \in {"Idle", "Running"}
    /\ parserPc \in {"loop", "dequeue", "parse", "callback", "notify", "done"}
    /\ parserQuit \in BOOLEAN /\ ready \in BOOLEAN /\ processed \in BOOLEAN
    /\ waiting \subseteq {"parser", "monitor", "user"}
    /\ monitorPc \in {"none", "waitIdle", "drain", "quit", "join", "publish",
                       "notify", "done"}
    /\ userPc \in {"start", "startMonitor", "release", "notify", "wait", "copy",
                    "use", "destroy", "destroyed"}

TypeOK == DataTypes /\ EventTypes /\ ControlTypes

\* A thread asleep on the shared condition variable still has a false
\* predicate, or the notify_one() that is meant for it is still to come, and
\* that notify_one() cannot go to another thread: no wake-up is lost although
\* producer and consumer sleep on one condition variable (event_data_blocking,
\* monitor, next_event).
NoLostWakeup ==
    /\ "user" \in waiting =>
          /\ userPc = "wait"
          /\ ready => "notify" \in {parserPc, monitorPc}
    /\ \A t \in waiting \ {"user"} : processed => userPc = "notify"
    /\ \A t, u \in waiting : t = u

\* The asserts of next_event(): whoever was woken finds an unprocessed event.
NextEventAssert == userPc = "copy" => ready /\ ~processed

\* From the moment next_event() is released from its wait until the user calls
\* it again nobody replaces the event in the context, although next_event()
\* copies it without holding the mutex.
EventStable == [][event' # event => userPc \notin {"copy", "use"}]_vars

\* next_event() returns the parsed events in order, without repeating or
\* skipping one, and after a None event nothing but None; only the very first
\* event of the run may be missing (see FirstEventDelivered).
DeliveredInOrder ==
    /\ delivered # <<>> => delivered[1] \in {0, 1, 2}
    /\ \A i \in 1..(Len(delivered) - 1) :
         delivered[i + 1] \in IF delivered[i] = 0 THEN {0} ELSE {0, delivered[i] + 1}

\* A None event ends the stream: every event the worker put into a buffer has
\* been returned before, save the first one.  The monitor's order (producer
\* idle, queue empty, parser joined) is what this depends on.
NoneIsLast ==
    userPc = "use" /\ held.type = "None" =>
        produced <= 1 \/ \E i \in 1..Len(delivered) : delivered[i] = produced

Distinct(s) == \A i, j \in 1..Len(s) : s[i] = s[j] => i = j
Apart(s, t) == \A i \in 1..Len(s), j \in 1..Len(t) : s[i] # t[j]

\* A buffer is in exactly one place: in one of the two queues or being parsed.
BuffersConserved ==
    /\ Len(filled) + Len(empty) + Len(cur) = Cardinality(Buffers)
    /\ Distinct(filled) /\ Distinct(empty) /\ Distinct(cur)
    /\ Apart(filled, empty) /\ Apart(filled, cur) /\ Apart(empty, cur)

\* The final event was published before the user's first next_event(), which
\* then dropped it.
NoneDiscarded == monitorPc = "done" /\ ~ready /\ delivered = <<>>

\* A caller blocked in next_event() during the first run gets an event, unless
\* the None event was dropped by its first call.  A second start() finds no
\* parser: the monitor of the first run has ended its thread.
NextEventReturns ==
    (userPc = "wait" /\ runs = 1) ~> (userPc = "copy" \/ NoneDiscarded)

\* ~BlockingReadout() returns for a caller that read up to the None event.
DestroyReturns == (userPc = "destroy" /\ held.type = "None") ~> userPc = "destroyed"

----------------------------------------------------------------------------
(* What the comments of the code say and the code does not do: see the     *)
(* findings and the observations in the README.                            *)

\* next_event(): "Notify the parser that the current event has been processed
\* and the data may be discarded." - until then the event's data is intact.
EventDataIntact == userPc = "use" /\ held.type # "None" => memory[held.area] = held.stamp

\* BlockingContext: "true if there is an event available to be processed" -
\* the first call of next_event() returns the first event published.
FirstEventDelivered == delivered # <<>> /\ produced > 0 => delivered[1] = 1

\* monitor(): "Setup the special 'None' event type so that the main loop knows
\* it's time to quit." - the main loop's next_event() returns.
MainLoopQuits == userPc = "wait" ~> userPc = "copy"

\* What next_event() hands out is the readout: the events in the order of the
\* buffers, None only after the last of them, with every buffer either queued, in the
\* parser's hands or back in the empty queue (ParserDequeue, MonitorDrain).
EventsDelivered == TypeOK /\ DeliveredInOrder /\ NoneIsLast /\ BuffersConserved

\* Both calls of the API that wait for another thread return: next_event(), and the
\* destructor, which joins the monitor and the parser.
WaitsEnd == NextEventReturns /\ DestroyReturns
============================================================================
